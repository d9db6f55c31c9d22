\* Two threads over two codec values and their clones, backends that call codec
\* values of their own, panic and decline late.  Only the decline sentinel falls
\* through (gamut-jpeg, gamut-avif).  Liveness, so no symmetry.
SPECIFICATION Spec
CONSTANTS
    Threads = {t1, t2}
    Codecs = {c1, c2}
    NoThread = NoThread
    NoCodec = NoCodec
    LateDeclines = {"declined"}
    HostChecks = TRUE
    MaxBackends = 2
    MaxCalls = 1
    MaxNested = 1
INVARIANTS ExclusiveBackend NoCircularWait
PROPERTIES PanicQuarantine ImplementsContract CallReturns
CHECK_DEADLOCK FALSE
