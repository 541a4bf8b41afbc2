CONSTANTS
    Participants = {1, 2, 3, 4}
    Optional = {2}
    HasConfirm = {1, 2, 3, 4}
    HasCancel = {1, 2, 4}
    Attempts <- MCAttempts
    Timed = {1, 2}
    Faulty = {"on_start", "persist_state", "on_completed", "mark_completed"}
    CallerCancels = TRUE
SPECIFICATION FairSpec
INVARIANTS Lockstep
PROPERTIES Terminates ImplementsProtocol
CHECK_DEADLOCK FALSE
