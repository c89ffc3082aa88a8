\* Two levels of damage, two sets of references, and the three episodes that can be named.
SPECIFICATION FairSpec
CONSTANTS
    MaxLevel = 2
    Required <- Waits
    References = {r1, r2}
    Episodes = {e1, e2, e3}
    NoReference = NoReference
    NoEpisode = NoEpisode
INVARIANTS
    WaitKept
    RefusedStranded
PROPERTIES
    WaitServed
    RepairCompletes
