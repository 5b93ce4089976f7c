\* Every workflow over four nodes and subsets of MCConnection; two runs, a review, two
\* openings of the editor and a lost answer; a run of up to four attempts and one restart;
\* requests to every provider with one change of the surroundings; calls of two attempts
\* and two redirects.
SPECIFICATION NodesSpec
CONSTANTS
    Node = {1, 2, 3, 4}
    Connection <- MCConnection
    MaxOff = 1
    Manifest <- MCManifest
    MaxRuns = 2
    MaxPauses = 1
    MaxMounts = 2
    MaxLost = 1
    MaxToolAttempts = 4
    Tries = 2
    MaxRestarts = 1
    MaxChanges = 1
    MaxAttempts = 2
    MaxRedirects = 2
    Limit = 2
INVARIANTS TypesOK PlansAreSound EditorIsTrue ToolsFollowTheRun RequestsAreServed CallIsSafe
PROPERTY CallEnds
