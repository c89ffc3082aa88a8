\* Two repositories that share output paths, three commands, two sessions.
SPECIFICATION FairSpec
CONSTANTS
    o1 = o1
    o2 = o2
    x = x
    here = here
    there = there
    a = a
    b = b
    None = None
    Runs <- MCRuns
    Roots = {here, there}
    Outputs = {a, b}
    RootOf <- MCRootOf
    ReplayOf <- MCReplayOf
    DecisionOf <- MCDecisionOf
    Rank <- MCRank
    Edited = {a}
    MaxSessions = 2
    MaxEdits = 1
INVARIANTS
    AllOrNothing
PROPERTIES
    ForeignKept
    AppendSealed
    ObservationEnds
