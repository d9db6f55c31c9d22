------------------------------- MODULE BackendSeam -------------------------------
(******************************************************************************)
(* The codestream-backend registries of gamut-png, gamut-jpeg, gamut-webp and *)
(* gamut-avif: a codec value (a PngDecoder, a JpegEncoder, ...) holds a        *)
(* sequence of Arc<Mutex<backend>> handles.  Its &self methods may be called   *)
(* from several threads; each call offers the job to the backends in push     *)
(* order, locking one backend at a time, and ends in the built-in tail when    *)
(* every backend declined.                                                     *)
(*                                                                            *)
(* A backend is user code.  It may decline, answer, panic, or call a codec     *)
(* value of its own: the handles that value held when the backend was built.   *)
(* push_backend moves the backend into a fresh Arc, so a backend's own codec    *)
(* can only name backends that were pushed before it.                          *)
(*                                                                            *)
(* Backends are numbered in the order of the pushes (over all codec values).   *)
(******************************************************************************)
EXTENDS Naturals, Sequences, SequencesExt, FiniteSets

CONSTANTS
    Threads,       \* OS threads that call codec methods
    Codecs,        \* codec values of the program
    NoCodec,       \* codec value of a thread that is in no call
    NoThread,      \* owner of a free mutex
    LateDeclines,  \* answers of an accepting backend that fall through
    HostChecks,    \* TRUE where the host validates an accepted result
    MaxBackends,   \* bound: pushes in a behaviour
    MaxCalls,      \* bound: outermost calls of a thread
    MaxNested      \* bound: codec calls a backend makes while serving one job

\* What an accepting backend can return: the crate's decline sentinel, another
\* Error::Unsupported, any other error, a result the host's validation accepts
\* or one it refuses (over-long IDAT, wrong dimensions, wrong layout).
RunAnswers == {"declined", "unsupported", "failed", "good", "bad"}
Answers == RunAnswers \cup {"no"}
Verdicts == {"none", "ok", "error", "poisoned", "panicked", "tail"}

ASSUME ThreadsAssumption == NoThread \notin Threads /\ NoCodec \notin Codecs
ASSUME PolicyAssumption == /\ LateDeclines \subseteq {"declined", "unsupported"}
                           /\ HostChecks \in BOOLEAN
ASSUME BoundsAssumption == {MaxBackends, MaxCalls, MaxNested} \subseteq Nat

Backends == 1 .. MaxBackends

VARIABLES
    registry,   \* codec value -> its handles, in push order
    captured,   \* backend -> handles of the codec value it was built with
    pushed,     \* number of backends pushed so far
    owner,      \* backend -> thread holding its mutex, or NoThread
    poisoned,   \* backend -> its mutex is poisoned
    stack,      \* thread -> its dispatch frames, outermost first
    unwinding,  \* thread -> a panic is propagating through its stack
    serving,    \* thread -> codec value its outermost call borrows
    calls,      \* thread -> outermost calls made
    result      \* thread -> how its last outermost call ended

vars == <<registry, captured, pushed, owner, poisoned, stack, unwinding, serving, calls,
          result>>
setup == <<registry, captured, pushed>>

Frame == [slots : Seq(Backends), answers : Seq(Answers),
          pc : {"lock", "supports", "run"}, nested : 0 .. MaxNested]
Ending == [verdict : Verdicts, answers : Seq(Answers), width : Nat]

TypeOK ==
    /\ registry \in [Codecs -> Seq(Backends)]
    /\ captured \in [Backends -> Seq(Backends)]
    /\ pushed \in 0 .. MaxBackends
    /\ owner \in [Backends -> Threads \cup {NoThread}]
    /\ poisoned \in [Backends -> BOOLEAN]
    /\ stack \in [Threads -> Seq(Frame)]
    /\ unwinding \in [Threads -> BOOLEAN]
    /\ serving \in [Threads -> Codecs \cup {NoCodec}]
    /\ calls \in [Threads -> 0 .. MaxCalls]
    /\ result \in [Threads -> Ending]

----------------------------------------------------------------------------
\* The dispatch loop: one answer has been recorded for every slot already passed.

\* Mutant: a terminal failure is taken for a decline.
FallsThroughOnFailure(a) == a \in {"no", "failed"} \cup LateDeclines
FallsThrough(a) == a = "no" \/ a \in LateDeclines

Judge(a) == IF a = "good" \/ (a = "bad" /\ ~HostChecks) THEN "ok" ELSE "error"

NewFrame(slots) == [slots |-> slots, answers |-> <<>>, pc |-> "lock", nested |-> 0]
Exhausted(f) == Len(f.answers) = Len(f.slots)
Slot(f) == f.slots[Len(f.answers) + 1]

Busy(t) == stack[t] # <<>>
\* A call on c is running: no other code can hold `&mut` to that value.
Borrowed(c) == \E t \in Threads : serving[t] = c
Top(t) == stack[t][Len(stack[t])]
InBackend(t) == Busy(t) /\ ~unwinding[t] /\ Top(t).pc \in {"supports", "run"}
AtLock(t) == Busy(t) /\ ~unwinding[t] /\ Top(t).pc = "lock"

SetTop(t, f) == stack' = [stack EXCEPT ![t] = [@ EXCEPT ![Len(@)] = f]]

\* The call on top of t's stack returns verdict v after the given answers: to the
\* backend that made it, or to the program when it is the outermost one.
Return(t, v, answers) ==
    /\ stack' = [stack EXCEPT ![t] = Front(@)]
    /\ serving' = IF Len(stack[t]) > 1 THEN serving ELSE [serving EXCEPT ![t] = NoCodec]
    /\ result' = IF Len(stack[t]) > 1 THEN result
                 ELSE [result EXCEPT ![t] = [verdict |-> v, answers |-> answers,
                                             width |-> Len(Top(t).slots)]]

\* Mutant: the guard is leaked.
UnlockLeaks(b) == UNCHANGED owner
Unlock(b) == owner' = [owner EXCEPT ![b] = NoThread]

----------------------------------------------------------------------------
Init ==
    /\ registry = [c \in Codecs |-> <<>>]
    /\ captured = [b \in Backends |-> <<>>]
    /\ pushed = 0
    /\ owner = [b \in Backends |-> NoThread]
    /\ poisoned = [b \in Backends |-> FALSE]
    /\ stack = [t \in Threads |-> <<>>]
    /\ unwinding = [t \in Threads |-> FALSE]
    /\ serving = [t \in Threads |-> NoCodec]
    /\ calls = [t \in Threads |-> 0]
    /\ result = [t \in Threads |-> [verdict |-> "none", answers |-> <<>>, width |-> 0]]

\* Mutant: the backend's own codec value shares the list it is pushed to.
PushShared(c, own) ==
    /\ ~Borrowed(c)
    /\ pushed < MaxBackends
    /\ pushed' = pushed + 1
    /\ registry' = [registry EXCEPT ![c] = Append(@, pushed + 1)]
    /\ captured' = [captured EXCEPT ![pushed + 1] = Append(own, pushed + 1)]
    /\ UNCHANGED <<owner, poisoned, stack, unwinding, serving, calls, result>>

\* push_backend on codec value c, of a backend built around a clone of `own`.
Push(c, own) ==
    /\ ~Borrowed(c)
    /\ pushed < MaxBackends
    /\ pushed' = pushed + 1
    /\ registry' = [registry EXCEPT ![c] = Append(@, pushed + 1)]
    /\ captured' = [captured EXCEPT ![pushed + 1] = own]
    /\ UNCHANGED <<owner, poisoned, stack, unwinding, serving, calls, result>>

\* d becomes a clone of c: it shares the backends, not the list.
CloneCodec(c, d) ==
    /\ c # d /\ ~Borrowed(d)
    /\ registry' = [registry EXCEPT ![d] = registry[c]]
    /\ UNCHANGED <<captured, pushed, owner, poisoned, stack, unwinding, serving, calls, result>>

\* An encode or decode method of codec value c, called by the program.
Call(t, c) ==
    /\ ~Busy(t)
    /\ calls[t] < MaxCalls
    /\ calls' = [calls EXCEPT ![t] = @ + 1]
    /\ serving' = [serving EXCEPT ![t] = c]
    /\ stack' = [stack EXCEPT ![t] = <<NewFrame(registry[c])>>]
    /\ UNCHANGED <<setup, owner, poisoned, unwinding, result>>

\* Mutant: a shared handle without a mutex.
LockShared(t) ==
    /\ AtLock(t) /\ ~Exhausted(Top(t))
    /\ ~poisoned[Slot(Top(t))]
    /\ owner' = [owner EXCEPT ![Slot(Top(t))] = t]
    /\ SetTop(t, [Top(t) EXCEPT !.pc = "supports"])
    /\ UNCHANGED <<setup, poisoned, unwinding, serving, calls, result>>

\* Mutant: lock().unwrap_or_else(PoisonError::into_inner).
LockRecovers(t) ==
    /\ AtLock(t) /\ ~Exhausted(Top(t))
    /\ owner[Slot(Top(t))] = NoThread
    /\ owner' = [owner EXCEPT ![Slot(Top(t))] = t]
    /\ SetTop(t, [Top(t) EXCEPT !.pc = "supports"])
    /\ UNCHANGED <<setup, poisoned, unwinding, serving, calls, result>>

\* backend.lock() on a healthy mutex.
Lock(t) ==
    /\ AtLock(t) /\ ~Exhausted(Top(t))
    /\ owner[Slot(Top(t))] = NoThread
    /\ ~poisoned[Slot(Top(t))]
    /\ owner' = [owner EXCEPT ![Slot(Top(t))] = t]
    /\ SetTop(t, [Top(t) EXCEPT !.pc = "supports"])
    /\ UNCHANGED <<setup, poisoned, unwinding, serving, calls, result>>

\* backend.lock() on a poisoned mutex: the guard inside the PoisonError is
\* dropped and the call ends.
LockPoisoned(t) ==
    /\ AtLock(t) /\ ~Exhausted(Top(t))
    /\ owner[Slot(Top(t))] = NoThread
    /\ poisoned[Slot(Top(t))]
    /\ Return(t, "poisoned", Top(t).answers)
    /\ UNCHANGED <<setup, owner, poisoned, unwinding, calls>>


\* supports() returned true; the guard is kept into the run.
Accept(t) ==
    /\ InBackend(t) /\ Top(t).pc = "supports"
    /\ SetTop(t, [Top(t) EXCEPT !.pc = "run"])
    /\ UNCHANGED <<setup, owner, poisoned, unwinding, serving, calls, result>>

\* The backend answered a: `continue` on a decline, else the call is over.  The
\* guard is dropped at the end of the loop body either way.
Answer(t, a) ==
    /\ InBackend(t)
    /\ IF a = "no" THEN Top(t).pc = "supports" ELSE Top(t).pc = "run"
    /\ Unlock(Slot(Top(t)))
    /\ IF FallsThrough(a)
       THEN /\ SetTop(t, [Top(t) EXCEPT !.answers = Append(@, a), !.pc = "lock", !.nested = 0])
            /\ UNCHANGED <<serving, result>>
       ELSE Return(t, Judge(a), Append(Top(t).answers, a))
    /\ UNCHANGED <<setup, poisoned, unwinding, calls>>

\* Every backend declined: the built-in implementation runs, holding no lock
\* of this call.
RunTail(t) ==
    /\ AtLock(t) /\ Exhausted(Top(t))
    /\ Return(t, "tail", Top(t).answers)
    /\ UNCHANGED <<setup, owner, poisoned, unwinding, calls>>

\* The running backend calls the codec value it was built with.
Reenter(t) ==
    /\ InBackend(t)
    /\ Top(t).nested < MaxNested
    /\ captured[Slot(Top(t))] # <<>>
    /\ stack' = [stack EXCEPT ![t] =
                    Append([@ EXCEPT ![Len(@)] = [Top(t) EXCEPT !.nested = @ + 1]],
                           NewFrame(captured[Slot(Top(t))]))]
    /\ UNCHANGED <<setup, owner, poisoned, unwinding, serving, calls, result>>

\* A panic leaves the running backend: dropping the guard poisons the mutex,
\* and the frame that dispatched to it is unwound.
Panic(t) ==
    /\ \/ InBackend(t)
       \/ Busy(t) /\ unwinding[t]
    /\ Unlock(Slot(Top(t)))
    /\ poisoned' = [poisoned EXCEPT ![Slot(Top(t))] = TRUE]
    /\ unwinding' = [unwinding EXCEPT ![t] = Len(stack[t]) > 1]
    /\ Return(t, "panicked", Top(t).answers)
    /\ UNCHANGED <<setup, calls>>

\* The enclosing backend catches the panic of the codec call it made.
Catch(t) ==
    /\ Busy(t) /\ unwinding[t]
    /\ unwinding' = [unwinding EXCEPT ![t] = FALSE]
    /\ UNCHANGED <<setup, owner, poisoned, stack, serving, calls, result>>

Step(t) ==
    \/ Lock(t) \/ LockPoisoned(t) \/ Accept(t)
    \/ \E a \in Answers : Answer(t, a)
    \/ RunTail(t) \/ Reenter(t) \/ Panic(t) \/ Catch(t)

Configure ==
    \/ \E c \in Codecs, own \in {registry[d] : d \in Codecs} \cup {<<>>} : Push(c, own)
    \/ \E c, d \in Codecs : CloneCodec(c, d)

Next ==
    \/ Configure
    \/ \E t \in Threads : Step(t) \/ \E c \in Codecs : Call(t, c)

\* Threads are scheduled and backends return; nothing makes a thread call again.
Spec == Init /\ [][Next]_vars /\ \A t \in Threads : WF_vars(Step(t))

----------------------------------------------------------------------------
\* Safety.

\* Frame d of thread t is inside its backend, so it holds that backend's guard.
Holds(t, d, b) == /\ stack[t][d].pc \in {"supports", "run"}
                  /\ Slot(stack[t][d]) = b

\* At most one dispatch frame, over all threads and all depths of re-entry, is
\* inside a backend: its `&mut self` methods never overlap, although every
\* clone of a codec value reaches the same instance.
ExclusiveBackend ==
    \A b \in Backends : \A t, u \in Threads :
        \A d \in DOMAIN stack[t], e \in DOMAIN stack[u] :
            Holds(t, d, b) /\ Holds(u, e, b) => t = u /\ d = e

\* The thread on top of whose stack a lock() call waits for another holder.
Blocked(t) == AtLock(t) /\ ~Exhausted(Top(t)) /\ owner[Slot(Top(t))] # NoThread

\* Calls never wait for each other in a circle, nor a thread for itself, even
\* when backends call codec values that share other backends: some thread that is
\* in a call can always move.
NoCircularWait ==
    (\E t \in Threads : Busy(t)) => \E t \in Threads : Busy(t) /\ ~Blocked(t)

\* A backend that panicked is never entered again, by any thread, through any
\* clone: the poison is permanent and nobody acquires the mutex.
PanicQuarantine ==
    [][\A b \in Backends : poisoned[b] => poisoned'[b] /\ owner'[b] = NoThread]_vars

\* Liveness: a call returns, to its caller or by a panic.
CallReturns == \A t \in Threads : Busy(t) ~> ~Busy(t)

----------------------------------------------------------------------------
\* The inductive invariant behind ExclusiveBackend and NoCircularWait.

\* A list names only backends already pushed; a backend's own codec value names
\* only backends pushed before it.
Captures ==
    /\ \A c \in Codecs : \A k \in DOMAIN registry[c] : registry[c][k] <= pushed
    /\ \A b \in Backends : \A k \in DOMAIN captured[b] : captured[b][k] < b

\* A frame that made a codec call, or that a panic is leaving, is in a backend.
Frames ==
    \A t \in Threads :
        /\ unwinding[t] => Busy(t)
        /\ \A d \in DOMAIN stack[t] :
              /\ Len(stack[t][d].answers) <= Len(stack[t][d].slots)
              /\ stack[t][d].pc # "lock" => Len(stack[t][d].answers) < Len(stack[t][d].slots)
              /\ (d < Len(stack[t]) \/ unwinding[t]) => stack[t][d].pc # "lock"

\* A re-entrant call can only reach backends older than every backend its thread
\* is inside: locks are taken in strictly descending push order.
Descending ==
    \A t \in Threads : \A d, e \in DOMAIN stack[t] : d < e =>
        \A k \in DOMAIN stack[t][e].slots : stack[t][e].slots[k] < Slot(stack[t][d])

\* A mutex is owned exactly while some frame of its owner is in the backend, and
\* never once it is poisoned.
Guards ==
    /\ \A t \in Threads : \A d \in DOMAIN stack[t] :
          stack[t][d].pc # "lock" => owner[Slot(stack[t][d])] = t
    /\ \A b \in Backends : owner[b] # NoThread =>
          \E d \in DOMAIN stack[owner[b]] : Holds(owner[b], d, b)
    /\ \A b \in Backends : poisoned[b] => owner[b] = NoThread

IInv == TypeOK /\ Captures /\ Frames /\ Descending /\ Guards

----------------------------------------------------------------------------
\* No codec value has more handles than there were pushes: a clone copies a list, a
\* push adds one handle to one list.
Counted == \A c \in Codecs : Len(registry[c]) <= pushed

\* What the caller of each thread's outermost call can see of it.
SeenOpen == [t \in Threads |-> Busy(t)]
SeenWidth == [t \in Threads |-> IF Busy(t) THEN Len(stack[t][1].slots) ELSE result[t].width]
SeenAnswers == [t \in Threads |-> IF Busy(t) THEN stack[t][1].answers ELSE result[t].answers]
SeenVerdict == [t \in Threads |-> IF Busy(t) THEN "none" ELSE result[t].verdict]

\* Every call implements the sequential fallback contract: seen from its caller,
\* locks, poisoning by others and re-entrant calls are invisible steps.
Contract == INSTANCE BackendContract WITH
    open <- SeenOpen, width <- SeenWidth, answers <- SeenAnswers, verdict <- SeenVerdict

ImplementsContract == Contract!Spec
==================================================================================
