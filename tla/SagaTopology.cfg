\* Every choice of depends_on lists of at most MaxDeps entries for three steps,
\* one id outside the definition included.
CONSTANTS
    Steps = {1, 2, 3}
    Ids = {1, 2, 3, 4}
    MaxDeps = 2
SPECIFICATION FairSpec
INVARIANTS LayersSound AcceptedIsExecutable
CHECK_DEADLOCK FALSE
