\* Clones of an encoder over two shared lists, backends that call an encoder of
\* their own, pushes while calls run.  Liveness, so no symmetry.
SPECIFICATION Spec
CONSTANTS
    Threads = {t1, t2}
    Registries = {r1, r2}
    NoRegistry = NoRegistry
    NoThread = NoThread
    Decoding = FALSE
    MaxPushes = 2
    MaxCalls = 1
    MaxNested = 1
INVARIANT PushIsSeen
PROPERTIES ImplementsContract CallReturns
CHECK_DEADLOCK FALSE
