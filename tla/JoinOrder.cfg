SPECIFICATION FairSpec
CONSTANT Key <- MCKey
INVARIANTS TypeOK EmittedInOrder OnlyReachable
PROPERTIES ImplementsPlan Terminates
CHECK_DEADLOCK FALSE
