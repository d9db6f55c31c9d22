------------------------------- MODULE JxlRegistry -------------------------------
(******************************************************************************)
(* The codestream-backend registry of gamut-jxl.  Unlike the other crates it   *)
(* is one Arc<Mutex<Vec<Box<backend>>>>: every clone of an encoder or decoder   *)
(* shares the list itself, a call keeps the list locked while it walks it, and *)
(* a poisoned lock is recovered.                                              *)
(*                                                                            *)
(* A backend that calls a codec value of its own is represented by the        *)
(* registry that value shares, NoRegistry when it has none.                    *)
(******************************************************************************)
EXTENDS Naturals, Sequences, SequencesExt, FiniteSets

CONSTANTS
    Threads,      \* OS threads that call codec methods or push backends
    Registries,   \* shared lists: one per family of clones
    NoRegistry,   \* a backend that makes no codec call
    NoThread,     \* owner of a free mutex
    Decoding,     \* TRUE for JxlDecoder, FALSE for JxlEncoder
    MaxPushes,    \* bound: pushes in a behaviour
    MaxCalls,     \* bound: outermost calls of a thread
    MaxNested     \* bound: codec calls a backend makes while serving one job

\* "declined" and "unsupported" are one value here: Error::Unsupported.
Answers == {"no", "unsupported", "failed", "good", "bad"}
Verdicts == {"none", "ok", "error", "panicked", "tail"}

ASSUME NamesAssumption == NoThread \notin Threads /\ NoRegistry \notin Registries
ASSUME LimitsAssumption == /\ Decoding \in BOOLEAN
                           /\ {MaxPushes, MaxCalls, MaxNested} \subseteq Nat

VARIABLES
    list,       \* registry -> its backends in push order, each by its own registry
    pushed,     \* number of pushes so far, on all lists
    owner,      \* registry -> thread holding its mutex, or NoThread
    poisoned,   \* registry -> its mutex is poisoned
    stack,      \* thread -> its calls, outermost first
    unwinding,  \* thread -> a panic is propagating through its stack
    calls,      \* thread -> outermost calls made
    result      \* thread -> how its last outermost call ended

vars == <<list, pushed, owner, poisoned, stack, unwinding, calls, result>>

Frame == [reg : Registries, pc : {"start", "probe", "lock", "supports", "run"}, known : 0 .. MaxPushes,
          width : 0 .. MaxPushes, answers : Seq(Answers), nested : 0 .. MaxNested]
Ending == [verdict : Verdicts, known : 0 .. MaxPushes, width : 0 .. MaxPushes,
           answers : Seq(Answers)]

TypeOK ==
    /\ list \in [Registries -> Seq(Registries \cup {NoRegistry})]
    /\ pushed \in 0 .. MaxPushes
    /\ owner \in [Registries -> Threads \cup {NoThread}]
    /\ poisoned \in [Registries -> BOOLEAN]
    /\ stack \in [Threads -> Seq(Frame)]
    /\ unwinding \in [Threads -> BOOLEAN]
    /\ calls \in [Threads -> 0 .. MaxCalls]
    /\ result \in [Threads -> Ending]

----------------------------------------------------------------------------
\* Mutant: a terminal failure is taken for a decline.
FallsThroughOnFailure(a) == a \in {"no", "unsupported", "failed"}
\* Every Error::Unsupported falls through.  Only the decoder checks the layout
\* of an accepted raster.
FallsThrough(a) == a \in {"no", "unsupported"}
Judge(a) == IF a = "good" \/ (a = "bad" /\ ~Decoding) THEN "ok" ELSE "error"

lists == <<list, pushed>>

Busy(t) == stack[t] # <<>>
Top(t) == stack[t][Len(stack[t])]
At(t, pc) == Busy(t) /\ ~unwinding[t] /\ Top(t).pc = pc
InBackend(t) == At(t, "supports") \/ At(t, "run")
Free(r) == owner[r] = NoThread
Exhausted(f) == Len(f.answers) = f.width

SetTop(t, f) == stack' = [stack EXCEPT ![t] = [@ EXCEPT ![Len(@)] = f]]

\* A call on a codec value that shares registry r; `known` is what a push that
\* returned before the call has already put there.
NewFrame(r) == [reg |-> r, pc |-> "start", known |-> Len(list[r]), width |-> 0,
                answers |-> <<>>, nested |-> 0]

Return(t, v, f) ==
    /\ stack' = [stack EXCEPT ![t] = Front(@)]
    /\ result' = IF Len(stack[t]) > 1 THEN result
                 ELSE [result EXCEPT ![t] = [verdict |-> v, known |-> f.known,
                                             width |-> f.width, answers |-> f.answers]]

\* Mutant: the guard is leaked.
UnlockLeaks(r) == UNCHANGED owner
Unlock(r) == owner' = [owner EXCEPT ![r] = NoThread]

----------------------------------------------------------------------------
Init ==
    /\ list = [r \in Registries |-> <<>>]
    /\ pushed = 0
    /\ owner = [r \in Registries |-> NoThread]
    /\ poisoned = [r \in Registries |-> FALSE]
    /\ stack = [t \in Threads |-> <<>>]
    /\ unwinding = [t \in Threads |-> FALSE]
    /\ calls = [t \in Threads |-> 0]
    /\ result = [t \in Threads |-> [verdict |-> "none", known |-> 0, width |-> 0,
                                    answers |-> <<>>]]

\* push_backend on some clone that shares r, of a backend that owns a clone
\* sharing `own`: Registry::push locks, appends and unlocks.
Push(r, own) ==
    /\ Free(r)
    /\ pushed < MaxPushes
    /\ pushed' = pushed + 1
    /\ list' = [list EXCEPT ![r] = Append(@, own)]
    /\ UNCHANGED <<owner, poisoned, stack, unwinding, calls, result>>

Call(t, r) ==
    /\ ~Busy(t)
    /\ calls[t] < MaxCalls
    /\ calls' = [calls EXCEPT ![t] = @ + 1]
    /\ stack' = [stack EXCEPT ![t] = <<NewFrame(r)>>]
    /\ UNCHANGED <<lists, owner, poisoned, unwinding, result>>

\* validate_modular refuses the configuration before the list is looked at, or
\* encode_request refuses the image between the probe and the walk.
Reject(t) ==
    /\ ~Decoding
    /\ \/ At(t, "start")
       \/ At(t, "probe") /\ Free(Top(t).reg) /\ list[Top(t).reg] # <<>>
    /\ Return(t, "error", Top(t))
    /\ UNCHANGED <<lists, owner, poisoned, unwinding, calls>>

\* A container-level feature pins the encode to the built-in path.
Veto(t) ==
    /\ ~Decoding /\ At(t, "start")
    /\ Return(t, "tail", [Top(t) EXCEPT !.known = 0])
    /\ UNCHANGED <<lists, owner, poisoned, unwinding, calls>>

Validate(t) ==
    /\ At(t, "start")
    /\ SetTop(t, [Top(t) EXCEPT !.pc = "probe"])
    /\ UNCHANGED <<lists, owner, poisoned, unwinding, calls, result>>

\* Mutant: a try_lock probe that takes a contended list for an empty one.
ProbeEmptyContended(t) ==
    /\ At(t, "probe")
    /\ ~Free(Top(t).reg) \/ list[Top(t).reg] = <<>>
    /\ Return(t, "tail", Top(t))
    /\ UNCHANGED <<lists, owner, poisoned, unwinding, calls>>

\* is_empty() locks and unlocks the list on its own.
ProbeEmpty(t) ==
    /\ At(t, "probe") /\ Free(Top(t).reg)
    /\ list[Top(t).reg] = <<>>
    /\ Return(t, "tail", Top(t))
    /\ UNCHANGED <<lists, owner, poisoned, unwinding, calls>>

Probe(t) ==
    /\ At(t, "probe") /\ Free(Top(t).reg)
    /\ list[Top(t).reg] # <<>>
    /\ SetTop(t, [Top(t) EXCEPT !.pc = "lock"])
    /\ UNCHANGED <<lists, owner, poisoned, unwinding, calls, result>>

\* Registry::lock, which takes a poisoned mutex like a healthy one.
Lock(t) ==
    /\ At(t, "lock") /\ Free(Top(t).reg)
    /\ owner' = [owner EXCEPT ![Top(t).reg] = t]
    /\ SetTop(t, [Top(t) EXCEPT !.pc = "supports", !.width = Len(list[Top(t).reg])])
    /\ UNCHANGED <<lists, poisoned, unwinding, calls, result>>

Accept(t) ==
    /\ At(t, "supports") /\ ~Exhausted(Top(t))
    /\ SetTop(t, [Top(t) EXCEPT !.pc = "run"])
    /\ UNCHANGED <<lists, owner, poisoned, unwinding, calls, result>>

\* A decline moves on with the list still locked; anything else ends the walk.
Decline(t, a) ==
    /\ IF a = "no" THEN At(t, "supports") /\ ~Exhausted(Top(t)) ELSE At(t, "run")
    /\ FallsThrough(a)
    /\ SetTop(t, [Top(t) EXCEPT !.pc = "supports", !.answers = Append(@, a), !.nested = 0])
    /\ UNCHANGED <<lists, owner, poisoned, unwinding, calls, result>>

Finish(t, a) ==
    /\ At(t, "run")
    /\ ~FallsThrough(a)
    /\ Unlock(Top(t).reg)
    /\ Return(t, Judge(a), [Top(t) EXCEPT !.answers = Append(@, a)])
    /\ UNCHANGED <<lists, poisoned, unwinding, calls>>

\* The walk is over: the guard goes out of scope, then the built-in tail runs (or
\* the typed refusal where it is not compiled in).
RunTail(t) ==
    /\ At(t, "supports") /\ Exhausted(Top(t))
    /\ Unlock(Top(t).reg)
    /\ Return(t, "tail", Top(t))
    /\ UNCHANGED <<lists, poisoned, unwinding, calls>>

\* The running backend calls its own codec value.
Reenter(t) ==
    /\ InBackend(t) /\ ~Exhausted(Top(t))
    /\ Top(t).nested < MaxNested
    /\ LET own == list[Top(t).reg][Len(Top(t).answers) + 1] IN
          /\ own # NoRegistry
          /\ stack' = [stack EXCEPT ![t] =
                          Append([@ EXCEPT ![Len(@)] = [Top(t) EXCEPT !.nested = @ + 1]],
                                 NewFrame(own))]
    /\ UNCHANGED <<lists, owner, poisoned, unwinding, calls, result>>

\* A panic leaves the running backend: the guard poisons the mutex on its way out.
Panic(t) ==
    /\ \/ InBackend(t) /\ ~Exhausted(Top(t))
       \/ Busy(t) /\ unwinding[t]
    /\ Unlock(Top(t).reg)
    /\ poisoned' = [poisoned EXCEPT ![Top(t).reg] = TRUE]
    /\ unwinding' = [unwinding EXCEPT ![t] = Len(stack[t]) > 1]
    /\ Return(t, "panicked", Top(t))
    /\ UNCHANGED <<lists, calls>>

Catch(t) ==
    /\ Busy(t) /\ unwinding[t]
    /\ unwinding' = [unwinding EXCEPT ![t] = FALSE]
    /\ UNCHANGED <<lists, owner, poisoned, stack, calls, result>>

Step(t) ==
    \/ Validate(t) \/ Reject(t) \/ Veto(t) \/ ProbeEmpty(t) \/ Probe(t) \/ Lock(t) \/ Accept(t)
    \/ \E a \in Answers : Decline(t, a) \/ Finish(t, a)
    \/ RunTail(t) \/ Reenter(t) \/ Panic(t) \/ Catch(t)

Next ==
    \/ \E r \in Registries, own \in Registries \cup {NoRegistry} : Push(r, own)
    \/ \E t \in Threads : Step(t) \/ \E r \in Registries : Call(t, r)

\* Threads are scheduled and backends return; nothing makes a thread call again.
Spec == Init /\ [][Next]_vars /\ \A t \in Threads : WF_vars(Step(t))

----------------------------------------------------------------------------
\* A push that returned before a call began is never skipped: when that call
\* reaches the built-in tail unvetoed, each such backend has declined, even though
\* the emptiness probe and the walk lock the list separately while clones push.
PushIsSeen ==
    \A t \in Threads : result[t].verdict = "tail" =>
        /\ Len(result[t].answers) >= result[t].known
        /\ \A k \in DOMAIN result[t].answers : FallsThrough(result[t].answers[k])

Walking == {"supports", "run"}
Walks(t, r) == {d \in DOMAIN stack[t] : stack[t][d].reg = r /\ stack[t][d].pc \in Walking}

\* A walk iterates over a list nobody changes, and no other call is inside one of
\* its backends: the walk's thread owns the mutex from its first supports() on.
StableWalk ==
    \A t \in Threads : \A d \in DOMAIN stack[t] : stack[t][d].pc \in Walking =>
        /\ stack[t][d].width = Len(list[stack[t][d].reg])
        /\ owner[stack[t][d].reg] = t
        /\ \A u \in Threads : \A e \in Walks(u, stack[t][d].reg) : u = t /\ e = d

\* No list is longer than the pushes there have been.
Counted == \A r \in Registries : Len(list[r]) <= pushed

\* A call at any depth, over a list of n backends: the backends before its cursor
\* declined, and `known` counts a list that only grows until the walk reads its width.
Sound(f, n) ==
    /\ Len(f.answers) <= f.width
    /\ \A k \in DOMAIN f.answers : FallsThrough(f.answers[k])
    /\ f.pc \in Walking => f.known <= f.width /\ f.width = n
    /\ f.pc \notin Walking => f.width = 0 /\ f.known <= n
    /\ f.pc = "run" => Len(f.answers) < f.width
\* A call that a nested call or a panic interrupts is inside one of its backends.
Inside(f) == f.pc \in Walking /\ Len(f.answers) < f.width

FramesOf(t) ==
    /\ unwinding[t] => Busy(t)
    /\ \A d \in DOMAIN stack[t] :
          /\ Sound(stack[t][d], Len(list[stack[t][d].reg]))
          /\ d < Len(stack[t]) \/ unwinding[t] => Inside(stack[t][d])
Frames == \A t \in Threads : FramesOf(t)

\* The mutex of a list is held by the one thread that walks it, at one depth.
Mutex == \A t \in Threads, r \in Registries :
            /\ Walks(t, r) # {} <=> owner[r] = t
            /\ \A d, e \in Walks(t, r) : d = e

\* The inductive invariant.  PushIsSeen is about the last result alone; that it
\* holds is due to Frames: a call on its way to the tail has asked `width` backends,
\* and `width` is the whole list because Mutex keeps the list as it was.
IInv == TypeOK /\ Counted /\ Frames /\ Mutex /\ PushIsSeen

\* A call returns, to its caller or by a panic, also after other calls panicked,
\* unless a nested call hangs for ever: only a backend that uses a codec value over a
\* locked list can block anyone for good.
NestedCallsEnd == \A u \in Threads : []<>(Len(stack[u]) <= 1)
CallReturns == NestedCallsEnd => \A t \in Threads : Busy(t) ~> ~Busy(t)

\* What the caller of each thread's outermost call can see of it.
SeenOpen == [t \in Threads |-> Busy(t)]
SeenWidth == [t \in Threads |-> IF Busy(t) THEN stack[t][1].width ELSE result[t].width]
SeenAnswers == [t \in Threads |-> IF Busy(t) THEN stack[t][1].answers ELSE result[t].answers]
SeenVerdict == [t \in Threads |-> IF Busy(t) THEN "none" ELSE result[t].verdict]

\* Seen from its caller, a call takes the steps of the sequential fallback contract
\* and no others.
Contract == INSTANCE BackendContract WITH
    LateDeclines <- {"unsupported"}, HostChecks <- Decoding, MaxBackends <- MaxPushes,
    open <- SeenOpen, width <- SeenWidth, answers <- SeenAnswers, verdict <- SeenVerdict

ImplementsContract == Contract!Steps
==================================================================================
