\* A message of six bytes, and room for four on the way.
CONSTANTS
    Part = 3
    Room = 4
SPECIFICATION FairSpec
CHECK_DEADLOCK FALSE
INVARIANTS
    TypeOK
    TrueMeansDone
    NoGaps
PROPERTY CallsEnd
