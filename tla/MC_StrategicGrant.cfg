\* Two grants, so that one follows another; a fill, a part and a remainder of each.
SPECIFICATION FairSpec
CONSTANTS
    MaxGrants = 2
    MaxShares = 2
    MaxRetries = 2
INVARIANTS
    OwnerBound
    FillsAdmitted
    EntriesCounted
PROPERTIES
    ExpiryFinal
    RefusedUnanswered
    GrantSpent
