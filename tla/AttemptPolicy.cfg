\* Every policy with up to two retries.
SPECIFICATION FairSpec
CONSTANTS
    MaxRetries = 2
INVARIANTS
    TypeOK
    OneLiveAttempt
    AtMostOneEffect
PROPERTIES
    LateResultDropped
    StepEnds
