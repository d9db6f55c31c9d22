---------------------------- MODULE BackendSeam_proof ----------------------------
(* Proofs about BackendSeam, for any number of threads, codec values and        *)
(* backends, and for every late-decline policy of the format crates.            *)
EXTENDS BackendSeam, SequenceLemmas

\* The bounds of an instance are natural numbers.
LEMMA BoundsAreNat == MaxBackends \in Nat /\ MaxCalls \in Nat /\ MaxNested \in Nat
  BY BoundsAssumption

USE BoundsAreNat

----------------------------------------------------------------------------
(* Stacks. *)

\* The frame at work of a thread with a nonempty stack is a frame.
LEMMA TopFrame ==
    ASSUME TypeOK, NEW t \in Threads, Busy(t)
    PROVE  /\ stack[t] \in Seq(Frame)
           /\ Len(stack[t]) \in Nat /\ Len(stack[t]) > 0
           /\ DOMAIN stack[t] = 1 .. Len(stack[t])
           /\ Top(t) \in Frame
           /\ Top(t).slots \in Seq(Backends)
           /\ Top(t).answers \in Seq(Answers)
           /\ Top(t).pc \in {"lock", "supports", "run"}
           /\ Top(t).nested \in 0 .. MaxNested
  <1>1. stack[t] \in Seq(Frame) /\ stack[t] # <<>>
    BY DEF TypeOK, Busy
  <1>2. Len(stack[t]) \in Nat /\ Len(stack[t]) > 0 /\ DOMAIN stack[t] = 1 .. Len(stack[t])
    BY <1>1, EmptySeq, LenProperties
  <1>3. Top(t) \in Frame
    BY <1>1, <1>2, ElementOfSeq DEF Top
  <1> QED
    BY <1>1, <1>2, <1>3 DEF Frame

\* A call that returns leaves every stack well typed.
LEMMA ReturnType ==
    ASSUME TypeOK, NEW t \in Threads, Busy(t), NEW v \in Verdicts, NEW a \in Seq(Answers),
           Return(t, v, a)
    PROVE  /\ stack' \in [Threads -> Seq(Frame)]
           /\ serving' \in [Threads -> Codecs \cup {NoCodec}]
           /\ result' \in [Threads -> Ending]
  <1>1. Front(stack[t]) \in Seq(Frame)
    BY Popped DEF TypeOK, Busy
  <1>2. stack' \in [Threads -> Seq(Frame)]
    BY <1>1 DEF Return, TypeOK
  <1>3. Len(Top(t).slots) \in Nat
    BY TopFrame, LenProperties
  <1>4. [verdict |-> v, answers |-> a, width |-> Len(Top(t).slots)] \in Ending
    BY <1>3 DEF Ending
  <1> QED
    BY <1>2, <1>4 DEF Return, TypeOK

\* Replacing the frame at work by a frame leaves every stack well typed.
LEMMA SetTopType ==
    ASSUME TypeOK, NEW t \in Threads, Busy(t), NEW f \in Frame, SetTop(t, f)
    PROVE  stack' \in [Threads -> Seq(Frame)]
  <1>1. [stack[t] EXCEPT ![Len(stack[t])] = f] \in Seq(Frame)
    BY Retopped DEF TypeOK, Busy
  <1> QED
    BY <1>1 DEF SetTop, TypeOK

\* A frame that has not asked every handle yet has a next one to ask.
LEMMA CursorType ==
    ASSUME NEW f \in Frame, Len(f.answers) < Len(f.slots)
    PROVE  /\ Len(f.answers) + 1 \in DOMAIN f.slots
           /\ Slot(f) \in Backends
  <1>1. f.slots \in Seq(Backends) /\ f.answers \in Seq(Answers)
    BY DEF Frame
  <1>2. Len(f.answers) \in Nat /\ Len(f.slots) \in Nat /\ DOMAIN f.slots = 1 .. Len(f.slots)
    BY <1>1, LenProperties
  <1> QED
    BY <1>1, <1>2, ElementOfSeq DEF Slot

\* The frame a fresh call starts with is well typed.
LEMMA NewFrameType ==
    ASSUME NEW slots \in Seq(Backends)
    PROVE  NewFrame(slots) \in Frame
  <1>1. <<>> \in Seq(Answers)
    BY EmptySeq
  <1>2. 0 \in 0 .. MaxNested
    OBVIOUS
  <1> QED
    BY <1>1, <1>2 DEF NewFrame, Frame

\* Moving a frame's control point, answers or call count yields a frame.
LEMMA MovedFrameType ==
    ASSUME NEW f \in Frame, NEW s \in Seq(Answers), NEW n \in 0 .. MaxNested,
           NEW pc \in {"lock", "supports", "run"}
    PROVE  /\ [f EXCEPT !.pc = pc] \in Frame
           /\ [f EXCEPT !.nested = n] \in Frame
           /\ [f EXCEPT !.answers = s, !.pc = pc, !.nested = n] \in Frame
  BY DEF Frame

\* Moving the control point alone keeps a frame's handles and answers.
LEMMA MovedFrame ==
    \A f \in Frame : \A pc \in {"lock", "supports", "run"} :
        LET g == [f EXCEPT !.pc = pc] IN
        g \in Frame /\ g.slots = f.slots /\ g.answers = f.answers /\ g.pc = pc
  BY DEF Frame

\* A frame that records its answer is back at its lock statement.
LEMMA AnsweredFrame ==
    ASSUME NEW f \in Frame, NEW s \in Seq(Answers)
    PROVE  LET g == [f EXCEPT !.answers = s, !.pc = "lock", !.nested = 0] IN
           g \in Frame /\ g.slots = f.slots /\ g.answers = s /\ g.pc = "lock"
  <1> DEFINE g == [f EXCEPT !.answers = s, !.pc = "lock", !.nested = 0]
  <1>1. 0 \in 0 .. MaxNested
    OBVIOUS
  <1>2. g \in Frame
    BY <1>1, MovedFrameType
  <1>3. g.slots = f.slots /\ g.answers = s /\ g.pc = "lock"
    BY DEF Frame
  <1> QED
    BY <1>2, <1>3

\* A frame inside a backend has a handle at its cursor.
LEMMA InsideType ==
    ASSUME TypeOK, Frames, NEW t \in Threads, Busy(t), Top(t).pc # "lock"
    PROVE  Slot(Top(t)) \in Backends
  BY TopFrame, CursorType DEF Frames, Top

----------------------------------------------------------------------------
(* Type correctness. *)

\* The initial states are well typed.
LEMMA InitType == Init => TypeOK
  <1> SUFFICES ASSUME Init PROVE TypeOK
    OBVIOUS
  <1>1. <<>> \in Seq(Backends) /\ <<>> \in Seq(Frame) /\ <<>> \in Seq(Answers)
    BY EmptySeq
  <1> QED
    BY <1>1, SMT DEF Init, TypeOK, Ending, Verdicts

\* Every step keeps the variables in their types, action by action.
LEMMA NextType == TypeOK /\ Frames /\ [Next]_vars => TypeOK'
  <1> SUFFICES ASSUME TypeOK, Frames, [Next]_vars PROVE TypeOK'
    OBVIOUS
  <1> USE DEF TypeOK
  <1>1. ASSUME NEW c \in Codecs, NEW own \in {registry[d] : d \in Codecs} \cup {<<>>}, Push(c, own)
        PROVE  TypeOK'
    <2>1. own \in Seq(Backends)
      <3>1. \A d \in Codecs : registry[d] \in Seq(Backends)
        OBVIOUS
      <3> QED
        BY <3>1, EmptySeq
    <2>2. pushed + 1 \in Backends
      BY <1>1 DEF Push, Backends
    <2>3. Append(registry[c], pushed + 1) \in Seq(Backends)
      BY <2>2, AppendProperties
    <2>4. pushed' \in 0 .. MaxBackends
      BY <1>1 DEF Push
    <2>5. registry' \in [Codecs -> Seq(Backends)] /\ captured' \in [Backends -> Seq(Backends)]
      BY <1>1, <2>1, <2>2, <2>3 DEF Push
    <2> QED
      BY <1>1, <2>4, <2>5 DEF Push
  <1>2. ASSUME NEW c \in Codecs, NEW d \in Codecs, CloneCodec(c, d)
        PROVE  TypeOK'
    BY <1>2 DEF CloneCodec
  <1>3. ASSUME NEW t \in Threads, NEW c \in Codecs, Call(t, c)
        PROVE  TypeOK'
    <2>1. NewFrame(registry[c]) \in Frame
      BY NewFrameType
    <2>2. <<NewFrame(registry[c])>> \in Seq(Frame)
      BY <2>1, AppendProperties, EmptySeq
    <2>3. calls' \in [Threads -> 0 .. MaxCalls]
      BY <1>3 DEF Call
    <2> QED
      BY <1>3, <2>2, <2>3 DEF Call, setup
  <1>4. ASSUME NEW t \in Threads, Lock(t)
        PROVE  TypeOK'
    <2>1. Busy(t)
      BY <1>4 DEF Lock, AtLock
    <2>2. [Top(t) EXCEPT !.pc = "supports"] \in Frame
      BY <2>1, TopFrame DEF Frame
    <2>3. stack' \in [Threads -> Seq(Frame)]
      BY <1>4, <2>1, <2>2, SetTopType DEF Lock
    <2> QED
      BY <1>4, <2>3 DEF Lock, setup
  <1>5. ASSUME NEW t \in Threads, LockPoisoned(t)
        PROVE  TypeOK'
    <2>1. Busy(t)
      BY <1>5 DEF LockPoisoned, AtLock
    <2>2. "poisoned" \in Verdicts /\ Return(t, "poisoned", Top(t).answers)
      BY <1>5 DEF LockPoisoned, Verdicts
    <2> QED
      BY <1>5, <2>1, <2>2, TopFrame, ReturnType DEF LockPoisoned, setup
  <1>6. ASSUME NEW t \in Threads, Accept(t)
        PROVE  TypeOK'
    <2>1. Busy(t)
      BY <1>6 DEF Accept, InBackend
    <2>2. [Top(t) EXCEPT !.pc = "run"] \in Frame
      BY <2>1, TopFrame DEF Frame
    <2>3. stack' \in [Threads -> Seq(Frame)]
      BY <1>6, <2>1, <2>2, SetTopType DEF Accept
    <2> QED
      BY <1>6, <2>3 DEF Accept, setup
  <1>7. ASSUME NEW t \in Threads, NEW a \in Answers, Answer(t, a)
        PROVE  TypeOK'
    <2>1. Busy(t)
      BY <1>7 DEF Answer, InBackend
    <2>2. owner' \in [Backends -> Threads \cup {NoThread}]
      BY <1>7 DEF Answer, Unlock
    <2>3. Append(Top(t).answers, a) \in Seq(Answers)
      BY <2>1, TopFrame, AppendProperties
    <2>4. CASE FallsThrough(a)
      <3>1. [Top(t) EXCEPT !.answers = Append(@, a), !.pc = "lock", !.nested = 0] \in Frame
        <4>1. Top(t) \in Frame /\ 0 \in 0 .. MaxNested
          BY <2>1, TopFrame
        <4> QED
          BY <2>3, <4>1, MovedFrameType
      <3>2. stack' \in [Threads -> Seq(Frame)]
        BY <1>7, <2>1, <2>4, <3>1, SetTopType DEF Answer
      <3> QED
        BY <1>7, <2>2, <2>4, <3>2 DEF Answer, setup
    <2>5. CASE ~FallsThrough(a)
      <3>1. Judge(a) \in Verdicts
        BY DEF Judge, Verdicts
      <3> QED
        BY <1>7, <2>1, <2>2, <2>3, <2>5, <3>1, ReturnType DEF Answer, setup
    <2> QED
      BY <2>4, <2>5
  <1>8. ASSUME NEW t \in Threads, RunTail(t)
        PROVE  TypeOK'
    <2>1. Busy(t)
      BY <1>8 DEF RunTail, AtLock
    <2>2. "tail" \in Verdicts /\ Return(t, "tail", Top(t).answers)
      BY <1>8 DEF RunTail, Verdicts
    <2> QED
      BY <1>8, <2>1, <2>2, TopFrame, ReturnType DEF RunTail, setup
  <1>9. ASSUME NEW t \in Threads, Reenter(t)
        PROVE  TypeOK'
    <2>1. Busy(t)
      BY <1>9 DEF Reenter, InBackend
    <2>2. [Top(t) EXCEPT !.nested = @ + 1] \in Frame
      <3>1. Top(t) \in Frame /\ Top(t).nested \in 0 .. MaxNested /\ Top(t).nested < MaxNested
        BY <1>9, <2>1, TopFrame DEF Reenter
      <3>2. Top(t).nested + 1 \in 0 .. MaxNested
        BY <3>1
      <3>3. \A f \in Frame, n \in 0 .. MaxNested : [f EXCEPT !.nested = n] \in Frame
        BY MovedFrameType, EmptySeq
      <3> QED
        BY <3>1, <3>2, <3>3
    <2>3. NewFrame(captured[Slot(Top(t))]) \in Frame
      <3>1. Top(t).pc # "lock"
        BY <1>9 DEF Reenter, InBackend
      <3>2. captured[Slot(Top(t))] \in Seq(Backends)
        BY <2>1, <3>1, InsideType
      <3> QED
        BY <3>2, NewFrameType
    <2>4. [stack[t] EXCEPT ![Len(stack[t])] = [Top(t) EXCEPT !.nested = @ + 1]] \in Seq(Frame)
      BY <2>1, <2>2, Retopped DEF Busy
    <2>5. stack' \in [Threads -> Seq(Frame)]
      BY <1>9, <2>3, <2>4, AppendProperties DEF Reenter
    <2> QED
      BY <1>9, <2>5 DEF Reenter, setup
  <1>10. ASSUME NEW t \in Threads, Panic(t)
         PROVE  TypeOK'
    <2>1. Busy(t)
      BY <1>10 DEF Panic, InBackend
    <2>2. "panicked" \in Verdicts /\ Return(t, "panicked", Top(t).answers)
      BY <1>10 DEF Panic, Verdicts
    <2>3. unwinding' \in [Threads -> BOOLEAN] /\ poisoned' \in [Backends -> BOOLEAN]
      <3>1. (Len(stack[t]) > 1) \in BOOLEAN
        OBVIOUS
      <3>2. unwinding' = [unwinding EXCEPT ![t] = Len(stack[t]) > 1]
        BY <1>10 DEF Panic
      <3>3. poisoned' = [poisoned EXCEPT ![Slot(Top(t))] = TRUE]
        BY <1>10 DEF Panic
      <3>4. unwinding' \in [Threads -> BOOLEAN]
        BY <3>1, <3>2, Zenon
      <3> QED
        BY <3>3, <3>4, Zenon
    <2>4. owner' \in [Backends -> Threads \cup {NoThread}]
      BY <1>10 DEF Panic, Unlock
    <2> QED
      BY <1>10, <2>1, <2>2, <2>3, <2>4, TopFrame, ReturnType DEF Panic, setup
  <1>11. ASSUME NEW t \in Threads, Catch(t)
         PROVE  TypeOK'
    BY <1>11 DEF Catch, setup
  <1>12. CASE UNCHANGED vars
    BY <1>12 DEF vars
  <1> QED
    BY <1>1, <1>2, <1>3, <1>4, <1>5, <1>6, <1>7, <1>8, <1>9, <1>10, <1>11, <1>12
    DEF Next, Configure, Step

----------------------------------------------------------------------------
(* What the three changes of a stack preserve.  Only the stack of the acting   *)
(* thread t moves; n is its depth.                                             *)

Pops(t) == stack' = [stack EXCEPT ![t] = Front(@)]

\* What a pop does to the map of stacks, seen from every thread.
LEMMA PoppedStack ==
    ASSUME TypeOK, NEW t \in Threads, Busy(t), Pops(t)
    PROVE  /\ \A u \in Threads : u # t => stack'[u] = stack[u]
           /\ Len(stack'[t]) = Len(stack[t]) - 1
           /\ DOMAIN stack'[t] = 1 .. Len(stack[t]) - 1
           /\ \A d \in DOMAIN stack'[t] : d \in DOMAIN stack[t] /\ stack'[t][d] = stack[t][d]
  <1>1. stack[t] \in Seq(Frame) /\ stack[t] # <<>>
    BY DEF TypeOK, Busy
  <1>2. stack'[t] = Front(stack[t]) /\ \A u \in Threads : u # t => stack'[u] = stack[u]
    BY DEF Pops, TypeOK
  <1>3. /\ Len(Front(stack[t])) = Len(stack[t]) - 1
        /\ DOMAIN Front(stack[t]) = 1 .. Len(stack[t]) - 1
        /\ \A d \in 1 .. Len(stack[t]) - 1 : Front(stack[t])[d] = stack[t][d]
    BY <1>1, Popped
  <1>4. Len(stack[t]) \in Nat /\ DOMAIN stack[t] = 1 .. Len(stack[t])
    BY TopFrame
  <1> QED
    BY <1>2, <1>3, <1>4

\* What replacing a top frame does to the map of stacks, seen from every
\* thread.
LEMMA SetTopStack ==
    ASSUME TypeOK, NEW t \in Threads, Busy(t), NEW f \in Frame, SetTop(t, f)
    PROVE  /\ \A u \in Threads : u # t => stack'[u] = stack[u]
           /\ Len(stack'[t]) = Len(stack[t])
           /\ DOMAIN stack'[t] = DOMAIN stack[t]
           /\ stack'[t][Len(stack[t])] = f
           /\ \A d \in DOMAIN stack[t] : d < Len(stack[t]) => stack'[t][d] = stack[t][d]
  <1>1. stack[t] \in Seq(Frame) /\ stack[t] # <<>>
    BY DEF TypeOK, Busy
  <1>2. /\ stack'[t] = [stack[t] EXCEPT ![Len(stack[t])] = f]
        /\ \A u \in Threads : u # t => stack'[u] = stack[u]
    BY DEF SetTop, TypeOK
  <1> QED
    BY <1>1, <1>2, Retopped, TopFrame

\* A pop keeps the invariants about frames and their order.
LEMMA PopKeeps ==
    ASSUME TypeOK, Frames, Descending, NEW t \in Threads, Busy(t), Pops(t),
           \A u \in Threads : u # t => unwinding'[u] = unwinding[u],
           unwinding'[t] => Len(stack[t]) > 1
    PROVE  Frames' /\ Descending'
  <1>0. \A u \in Threads : unwinding'[u] => stack'[u] # <<>>
    BY PoppedStack, TopFrame, EmptySeq DEF Frames, Busy
  <1>1. \A d \in DOMAIN stack'[t] : d \in DOMAIN stack[t] /\ d < Len(stack[t])
    BY PoppedStack, TopFrame
  <1>2. Frames'
    BY <1>0, <1>1, PoppedStack DEF Frames, Busy
  <1>3. Descending'
    <2> SUFFICES ASSUME NEW u \in Threads, NEW d \in DOMAIN stack'[u], NEW e \in DOMAIN stack'[u],
                        d < e, NEW k \in DOMAIN stack'[u][e].slots
                 PROVE  stack'[u][e].slots[k] < Slot(stack'[u][d])
      BY DEF Descending, Slot
    <2>1. /\ stack'[u][d] = stack[u][d] /\ stack'[u][e] = stack[u][e]
          /\ d \in DOMAIN stack[u] /\ e \in DOMAIN stack[u]
      BY PoppedStack
    <2> QED
      BY <2>1 DEF Descending
  <1> QED
    BY <1>2, <1>3

\* A new top frame that meets the frame invariant keeps the invariants about
\* frames and their order.
LEMMA SetTopKeeps ==
    ASSUME TypeOK, Frames, Descending, NEW t \in Threads, Busy(t),
           NEW f \in Frame, SetTop(t, f), UNCHANGED unwinding,
           f.slots = Top(t).slots,
           Len(f.answers) <= Len(f.slots),
           f.pc # "lock" => Len(f.answers) < Len(f.slots),
           unwinding[t] => f.pc # "lock"
    PROVE  Frames' /\ Descending'
  <1>0. \A u \in Threads : stack'[u] = <<>> => stack[u] = <<>>
    BY SetTopStack, TopFrame, EmptySeq
  <1>1. Frames'
    <2> SUFFICES ASSUME NEW u \in Threads, NEW d \in DOMAIN stack'[u]
                 PROVE  /\ Len(stack'[u][d].answers) <= Len(stack'[u][d].slots)
                        /\ stack'[u][d].pc # "lock" =>
                              Len(stack'[u][d].answers) < Len(stack'[u][d].slots)
                        /\ (d < Len(stack'[u]) \/ unwinding'[u]) => stack'[u][d].pc # "lock"
      BY <1>0 DEF Frames, Busy
    <2>1. CASE u # t
      BY <2>1, SetTopStack DEF Frames
    <2>2. CASE u = t /\ d = Len(stack[t])
      BY <2>2, SetTopStack, TopFrame DEF Frames
    <2>3. CASE u = t /\ d # Len(stack[t])
      <3>1. d \in DOMAIN stack[t] /\ d < Len(stack[t])
        BY <2>3, SetTopStack, TopFrame
      <3> QED
        BY <2>3, <3>1, SetTopStack DEF Frames
    <2> QED
      BY <2>1, <2>2, <2>3
  <1>2. Descending'
    <2> SUFFICES ASSUME NEW u \in Threads, NEW d \in DOMAIN stack'[u], NEW e \in DOMAIN stack'[u],
                        d < e, NEW k \in DOMAIN stack'[u][e].slots
                 PROVE  stack'[u][e].slots[k] < Slot(stack'[u][d])
      BY DEF Descending, Slot
    <2>1. CASE u # t
      BY <2>1, SetTopStack DEF Descending
    <2>2. CASE u = t
      <3> Len(stack[t]) \in Nat /\ DOMAIN stack[t] = 1 .. Len(stack[t])
        BY TopFrame
      <3>1. d \in DOMAIN stack[t] /\ e \in DOMAIN stack[t] /\ d < Len(stack[t])
        BY <2>2, SetTopStack, TopFrame
      <3>2. stack'[t][e].slots = stack[t][e].slots /\ stack'[t][d] = stack[t][d]
        BY <3>1, SetTopStack, TopFrame DEF Top
      <3> QED
        BY <2>2, <3>1, <3>2 DEF Descending
    <2> QED
      BY <2>1, <2>2
  <1> QED
    BY <1>1, <1>2

\* The frame that calls out counts the call and keeps its handles, its answers
\* and its control point.
LEMMA NestedFrame ==
    ASSUME TypeOK, NEW t \in Threads, Reenter(t)
    PROVE  LET f == [Top(t) EXCEPT !.nested = @ + 1] IN
           f \in Frame /\ f.slots = Top(t).slots /\ f.answers = Top(t).answers /\ f.pc = Top(t).pc
  <1> DEFINE f == [Top(t) EXCEPT !.nested = @ + 1]
  <1>1. Top(t) \in Frame /\ Top(t).nested \in 0 .. MaxNested /\ Top(t).nested < MaxNested
    BY TopFrame DEF Reenter, InBackend
  <1>2. \A h \in Frame, m \in 0 .. MaxNested : [h EXCEPT !.nested = m] \in Frame
    BY MovedFrameType, EmptySeq
  <1>3. f \in Frame
    BY <1>1, <1>2
  <1> QED
    BY <1>1, <1>3 DEF Frame

\* A re-entrant call puts one frame on top, whose handles are those captured
\* when the backend was pushed, and moves none of the others.
LEMMA ReenterStack ==
    ASSUME TypeOK, Frames, NEW t \in Threads, Reenter(t)
    PROVE  LET n == Len(stack[t])
               f == [Top(t) EXCEPT !.nested = @ + 1]
               g == NewFrame(captured[Slot(Top(t))]) IN
           /\ \A u \in Threads : u # t => stack'[u] = stack[u]
           /\ Len(stack'[t]) = n + 1 /\ DOMAIN stack'[t] = 1 .. n + 1
           /\ stack'[t][n + 1] = g /\ stack'[t][n] = f
           /\ \A d \in DOMAIN stack[t] : d < n => stack'[t][d] = stack[t][d]
  <1> DEFINE n == Len(stack[t])
             f == [Top(t) EXCEPT !.nested = @ + 1]
             g == NewFrame(captured[Slot(Top(t))])
  <1>1. /\ Busy(t) /\ Top(t).pc # "lock"
        /\ stack' = [stack EXCEPT ![t] = Append([@ EXCEPT ![Len(@)] = f], g)]
    BY DEF Reenter, InBackend
  <1>2. Slot(Top(t)) \in Backends
    BY <1>1, InsideType
  <1>3. f \in Frame
    BY NestedFrame
  <1>4. g \in Frame
    BY <1>2, NewFrameType DEF TypeOK
  <1> HIDE DEF f, g
  <1>5. /\ \A u \in Threads : u # t => stack'[u] = stack[u]
        /\ Len(stack'[t]) = n + 1 /\ DOMAIN stack'[t] = 1 .. n + 1
        /\ stack'[t][n + 1] = g /\ stack'[t][n] = f
        /\ \A d \in DOMAIN stack[t] : d < n => stack'[t][d] = stack[t][d]
    <2>1. stack[t] \in Seq(Frame) /\ stack[t] # <<>>
      BY <1>1 DEF TypeOK, Busy
    <2> DEFINE r == [stack[t] EXCEPT ![n] = f]
    <2>2. stack'[t] = Append(r, g) /\ \A u \in Threads : u # t => stack'[u] = stack[u]
      BY <1>1 DEF TypeOK
    <2>3. /\ r \in Seq(Frame)
          /\ Len(r) = n /\ r[n] = f
          /\ \A d \in 1 .. n - 1 : r[d] = stack[t][d]
      BY <1>3, <2>1, Retopped
    <2>4. n \in Nat /\ n > 0 /\ DOMAIN stack[t] = 1 .. n
      BY <1>1, TopFrame
    <2> HIDE DEF r, n
    <2>5. /\ Append(r, g) \in Seq(Frame)
          /\ Len(Append(r, g)) = n + 1
          /\ \A i \in 1 .. n : Append(r, g)[i] = r[i]
          /\ Append(r, g)[n + 1] = g
      BY <1>4, <2>3, AppendProperties
    <2>6. DOMAIN Append(r, g) = 1 .. n + 1
      BY <2>5, LenProperties
    <2>7. Append(r, g)[n] = f
      BY <2>3, <2>4, <2>5
    <2>8. \A d \in DOMAIN stack[t] : d < n => Append(r, g)[d] = stack[t][d]
      BY <2>3, <2>4, <2>5
    <2> QED
      BY <2>2, <2>5, <2>6, <2>7, <2>8
  <1> QED
    BY <1>5 DEF f, g

\* A re-entrant call keeps the invariants about frames and their order.
LEMMA ReenterKeeps ==
    ASSUME TypeOK, Captures, Frames, Descending, NEW t \in Threads, Reenter(t)
    PROVE  Frames' /\ Descending'
  <1> DEFINE n == Len(stack[t])
             f == [Top(t) EXCEPT !.nested = @ + 1]
             g == NewFrame(captured[Slot(Top(t))])
  <1>1. /\ Busy(t) /\ Top(t).pc # "lock" /\ UNCHANGED unwinding
        /\ stack' = [stack EXCEPT ![t] = Append([@ EXCEPT ![Len(@)] = f], g)]
    BY DEF Reenter, InBackend
  <1>2. n \in Nat /\ n > 0 /\ DOMAIN stack[t] = 1 .. n /\ Top(t) = stack[t][n]
    BY <1>1, TopFrame DEF Top
  <1>3. Slot(Top(t)) \in Backends
    BY <1>1, InsideType
  <1>4. f \in Frame /\ f.slots = Top(t).slots /\ f.answers = Top(t).answers /\ f.pc = Top(t).pc
    BY NestedFrame
  <1>5. /\ g \in Frame /\ g.slots = captured[Slot(Top(t))] /\ g.answers = <<>>
        /\ g.pc = "lock" /\ Len(g.answers) = 0 /\ Len(g.slots) \in Nat
    BY <1>3, NewFrameType, EmptySeq, LenProperties DEF NewFrame, TypeOK
  <1> HIDE DEF f, g
  <1>6. /\ \A u \in Threads : u # t => stack'[u] = stack[u]
        /\ Len(stack'[t]) = n + 1 /\ DOMAIN stack'[t] = 1 .. n + 1
        /\ stack'[t][n + 1] = g /\ stack'[t][n] = f
        /\ \A d \in DOMAIN stack[t] : d < n => stack'[t][d] = stack[t][d]
    BY ReenterStack DEF f, g
  <1>7. ~unwinding[t]
    BY DEF Reenter, InBackend
  <1>0. \A u \in Threads : stack'[u] = <<>> => stack[u] = <<>>
    BY <1>2, <1>6, EmptySeq
  <1> HIDE DEF n
  <1>8. Frames'
    <2> SUFFICES ASSUME NEW u \in Threads, NEW d \in DOMAIN stack'[u]
                 PROVE  /\ Len(stack'[u][d].answers) <= Len(stack'[u][d].slots)
                        /\ stack'[u][d].pc # "lock" =>
                              Len(stack'[u][d].answers) < Len(stack'[u][d].slots)
                        /\ (d < Len(stack'[u]) \/ unwinding'[u]) => stack'[u][d].pc # "lock"
      BY <1>0, <1>1 DEF Frames, Busy
    <2>1. CASE u # t
      BY <1>1, <1>6, <2>1 DEF Frames
    <2>2. CASE u = t /\ d = n + 1
      BY <1>1, <1>5, <1>6, <1>7, <2>2
    <2>3. CASE u = t /\ d = n
      <3>1. /\ Len(stack[t][n].answers) <= Len(stack[t][n].slots)
            /\ stack[t][n].pc # "lock" => Len(stack[t][n].answers) < Len(stack[t][n].slots)
        BY <1>2 DEF Frames
      <3> QED
        BY <1>1, <1>2, <1>4, <1>6, <2>3, <3>1
    <2>4. CASE u = t /\ d # n + 1 /\ d # n
      <3>1. d \in DOMAIN stack[t] /\ d < n
        BY <1>2, <1>6, <2>4
      <3> QED
        BY <1>1, <1>6, <2>4, <3>1 DEF Frames, n
    <2> QED
      BY <2>1, <2>2, <2>3, <2>4
  <1>9. Descending'
    <2> SUFFICES ASSUME NEW u \in Threads, NEW d \in DOMAIN stack'[u], NEW e \in DOMAIN stack'[u],
                        d < e, NEW k \in DOMAIN stack'[u][e].slots
                 PROVE  stack'[u][e].slots[k] < Slot(stack'[u][d])
      BY DEF Descending, Slot
    <2>1. CASE u # t
      BY <1>6, <2>1 DEF Descending
    <2>2. CASE u = t
      <3>1. d \in DOMAIN stack[t] /\ d \in 1 .. n /\ e \in 1 .. n + 1
        BY <1>2, <1>6, <2>2
      <3>2. Slot(stack'[t][d]) = Slot(stack[t][d])
        <4>1. CASE d = n
          BY <1>2, <1>4, <1>6, <4>1 DEF Slot
        <4>2. CASE d < n
          BY <1>6, <3>1, <4>2
        <4> QED
          BY <1>2, <3>1, <4>1, <4>2
      <3>3. CASE e # n + 1
        <4>1. e \in DOMAIN stack[t] /\ stack'[t][e].slots = stack[t][e].slots
          <5>1. e \in 1 .. n
            BY <1>2, <3>1, <3>3
          <5>2. CASE e = n
            BY <1>2, <1>4, <1>6, <5>1, <5>2
          <5>3. CASE e < n
            BY <1>2, <1>6, <5>1, <5>3
          <5> QED
            BY <1>2, <5>1, <5>2, <5>3
        <4> QED
          BY <2>2, <3>1, <3>2, <4>1 DEF Descending
      <3>4. CASE e = n + 1
        <4>1. k \in DOMAIN captured[Slot(Top(t))]
              /\ stack'[t][e].slots[k] = captured[Slot(Top(t))][k]
          BY <1>5, <1>6, <2>2, <3>4
        <4>2. captured[Slot(Top(t))][k] < Slot(Top(t))
          BY <1>3, <4>1 DEF Captures
        <4>3. CASE d = n
          BY <1>2, <2>2, <3>2, <4>1, <4>2, <4>3
        <4>4. CASE d < n
          <5>1. \E j \in DOMAIN stack[t][n].slots : Slot(Top(t)) = stack[t][n].slots[j]
            <6>1. Len(Top(t).answers) + 1 \in DOMAIN Top(t).slots
              BY <1>1, <1>2, TopFrame, CursorType DEF Frames
            <6> QED
              BY <1>2, <6>1 DEF Slot
          <5>2. Slot(Top(t)) < Slot(stack[t][d])
            BY <1>2, <3>1, <4>4, <5>1 DEF Descending
          <5>3. Slot(stack[t][d]) \in Nat /\ captured[Slot(Top(t))][k] \in Nat
            <6>1. stack[t][d] \in Frame /\ stack[t][d].pc # "lock"
              BY <3>1, <4>4, <1>2, ElementOfSeq DEF TypeOK, Frames, n
            <6>2. Slot(stack[t][d]) \in Backends
              BY <3>1, <6>1, CursorType DEF Frames
            <6>3. captured[Slot(Top(t))] \in Seq(Backends)
              BY <1>3 DEF TypeOK
            <6> QED
              BY <4>1, <6>2, <6>3, ElementOfSeq, LenProperties DEF Backends
          <5>4. Slot(Top(t)) \in Nat
            BY <1>3 DEF Backends
          <5>5. captured[Slot(Top(t))][k] < Slot(stack[t][d])
            BY <4>2, <5>2, <5>3, <5>4
          <5> QED
            BY <2>2, <3>2, <4>1, <5>5
        <4> QED
          BY <1>2, <3>1, <4>3, <4>4
      <3> QED
        BY <3>3, <3>4
    <2> QED
      BY <2>1, <2>2
  <1> QED
    BY <1>8, <1>9

----------------------------------------------------------------------------
(* The invariant is inductive. *)

\* The slot of a frame inside its backend is one of the frame's slots.
LEMMA HeldSlot ==
    ASSUME TypeOK, Frames, NEW t \in Threads, NEW d \in DOMAIN stack[t],
           stack[t][d].pc # "lock"
    PROVE  /\ Slot(stack[t][d]) \in Backends
           /\ \E j \in DOMAIN stack[t][d].slots : Slot(stack[t][d]) = stack[t][d].slots[j]
  <1>1. stack[t][d] \in Frame
    BY ElementOfSeq, LenProperties DEF TypeOK
  <1>2. Len(stack[t][d].answers) < Len(stack[t][d].slots)
    BY DEF Frames
  <1> QED
    BY <1>1, <1>2, CursorType DEF Slot

\* Two frames inside the same backend are the same frame.
LEMMA OneHolder ==
    ASSUME IInv, NEW t \in Threads, NEW u \in Threads,
           NEW d \in DOMAIN stack[t], NEW e \in DOMAIN stack[u],
           stack[t][d].pc # "lock", stack[u][e].pc # "lock",
           Slot(stack[t][d]) = Slot(stack[u][e])
    PROVE  t = u /\ d = e
  <1>1. t = u
    BY DEF IInv, Guards
  <1>2. d \in Nat /\ e \in Nat
    BY LenProperties DEF IInv, TypeOK
  <1>3. Slot(stack[t][d]) \in Nat
    BY HeldSlot DEF IInv, Backends
  <1>4. ~(d < e) /\ ~(e < d)
    BY <1>1, <1>3, HeldSlot DEF IInv, Descending
  <1> QED
    BY <1>1, <1>2, <1>4

\* The frame at work is the last one of its stack.
LEMMA TopIndex ==
    ASSUME TypeOK, NEW t \in Threads, Busy(t)
    PROVE  /\ Len(stack[t]) \in DOMAIN stack[t]
           /\ stack[t][Len(stack[t])] = Top(t)
           /\ \A d \in DOMAIN stack[t] : d \in Nat /\ (d < Len(stack[t]) \/ d = Len(stack[t]))
  BY TopFrame DEF Top

\* Dropping the guard of the top frame, which leaves the stack or goes back to
\* its lock statement.
LEMMA UnlockKeeps ==
    ASSUME IInv, NEW t \in Threads, Busy(t), Top(t).pc # "lock",
           Unlock(Slot(Top(t))),
           \A b \in Backends : poisoned'[b] => poisoned[b] \/ b = Slot(Top(t)),
           \A u \in Threads : u # t => stack'[u] = stack[u],
           \A d \in DOMAIN stack[t] : d < Len(stack[t]) =>
                d \in DOMAIN stack'[t] /\ stack'[t][d] = stack[t][d],
           \A d \in DOMAIN stack'[t] : stack'[t][d].pc # "lock" =>
                d \in DOMAIN stack[t] /\ d < Len(stack[t])
    PROVE  Guards'
  <1> DEFINE s == Slot(Top(t))
  <1>0. s \in Backends /\ TypeOK /\ Frames /\ Guards
    BY InsideType DEF IInv
  <1>1. owner' = [owner EXCEPT ![s] = NoThread] /\ owner \in [Backends -> Threads \cup {NoThread}]
    BY <1>0 DEF Unlock, TypeOK
  <1>2. owner'[s] = NoThread /\ \A b \in Backends : b # s => owner'[b] = owner[b]
    BY <1>0, <1>1
  <1>3. ASSUME NEW u \in Threads, NEW d \in DOMAIN stack'[u], stack'[u][d].pc # "lock"
        PROVE  owner'[Slot(stack'[u][d])] = u
    <2>1. d \in DOMAIN stack[u] /\ stack'[u][d] = stack[u][d]
      BY <1>3
    <2>2. owner[Slot(stack[u][d])] = u /\ Slot(stack[u][d]) \in Backends
      BY <1>0, <1>3, <2>1, HeldSlot DEF Guards
    <2>3. Slot(stack[u][d]) # s
      <3>1. SUFFICES ASSUME Slot(stack[u][d]) = s PROVE FALSE
        OBVIOUS
      <3>2. u = t /\ d = Len(stack[t])
        BY <1>0, <1>3, <2>1, <3>1, OneHolder, TopIndex
      <3>3. d < Len(stack[t])
        BY <1>3, <3>2
      <3> QED
        BY <1>0, <3>2, <3>3, TopFrame
    <2> QED
      BY <1>2, <2>1, <2>2, <2>3 DEF Slot
  <1>4. ASSUME NEW b \in Backends, owner'[b] # NoThread
        PROVE  \E d \in DOMAIN stack'[owner'[b]] : Holds(owner[b], d, b)'
    <2>1. b # s /\ owner'[b] = owner[b] /\ owner[b] \in Threads
      BY <1>1, <1>2, <1>4
    <2>2. PICK d \in DOMAIN stack[owner[b]] : Holds(owner[b], d, b)
      BY <1>0, <1>4, <2>1 DEF Guards
    <2>3. d \in DOMAIN stack'[owner[b]] /\ stack'[owner[b]][d] = stack[owner[b]][d]
      <3>1. CASE owner[b] # t
        BY <2>1, <2>2, <3>1
      <3>2. CASE owner[b] = t
        <4>1. d # Len(stack[t])
          BY <1>0, <2>1, <2>2, <3>2, TopIndex DEF Holds
        <4> QED
          BY <1>0, <2>2, <3>2, <4>1, TopIndex
      <3> QED
        BY <3>1, <3>2
    <2> QED
      BY <2>1, <2>2, <2>3 DEF Holds, Slot
  <1>5. ASSUME NEW b \in Backends, poisoned'[b]
        PROVE  owner'[b] = NoThread
    BY <1>0, <1>2, <1>5 DEF Guards
  <1> QED
    BY <1>3, <1>4, <1>5 DEF Guards, Slot

\* A frame that leaves the stack together with its guard.
LEMMA PopUnlockKeeps ==
    ASSUME IInv, NEW t \in Threads, Busy(t), Top(t).pc # "lock", Pops(t),
           Unlock(Slot(Top(t))),
           \A b \in Backends : poisoned'[b] => poisoned[b] \/ b = Slot(Top(t))
    PROVE  Guards'
  <1>1. TypeOK
    BY DEF IInv
  <1>2. \A d \in DOMAIN stack'[t] : d \in DOMAIN stack[t] /\ d < Len(stack[t])
    BY <1>1, PoppedStack, TopFrame
  <1>3. \A d \in DOMAIN stack[t] : d < Len(stack[t]) =>
           d \in DOMAIN stack'[t] /\ stack'[t][d] = stack[t][d]
    BY <1>1, PoppedStack, TopFrame
  <1>4. \A u \in Threads : u # t => stack'[u] = stack[u]
    BY <1>1, PoppedStack
  <1> QED
    BY <1>2, <1>3, <1>4, UnlockKeeps

\* A frame that leaves the stack while it holds no guard.
LEMMA LockedPopKeeps ==
    ASSUME IInv, NEW t \in Threads, Busy(t), Top(t).pc = "lock", Pops(t),
           UNCHANGED <<owner, poisoned>>
    PROVE  Guards'
  <1>0. TypeOK /\ Guards
    BY DEF IInv
  <1>1. \A u \in Threads : \A d \in DOMAIN stack'[u] :
           d \in DOMAIN stack[u] /\ stack'[u][d] = stack[u][d]
    BY <1>0, PoppedStack
  <1>2. \A u \in Threads : \A d \in DOMAIN stack[u] : stack[u][d].pc # "lock" =>
           d \in DOMAIN stack'[u] /\ stack'[u][d] = stack[u][d]
    BY <1>0, PoppedStack, TopIndex, TopFrame
  <1>3. ASSUME NEW b \in Backends, owner'[b] # NoThread
        PROVE  \E d \in DOMAIN stack'[owner'[b]] : Holds(owner[b], d, b)'
    <2>1. owner'[b] = owner[b] /\ owner[b] \in Threads
      BY <1>0, <1>3 DEF TypeOK
    <2>2. PICK d \in DOMAIN stack[owner[b]] : Holds(owner[b], d, b)
      BY <1>0, <1>3, <2>1 DEF Guards
    <2>3. d \in DOMAIN stack'[owner[b]] /\ stack'[owner[b]][d] = stack[owner[b]][d]
      BY <1>2, <2>1, <2>2 DEF Holds
    <2> QED
      BY <2>1, <2>2, <2>3 DEF Holds
  <1>4. \A u \in Threads : \A d \in DOMAIN stack'[u] :
           stack'[u][d].pc # "lock" => owner'[Slot(stack'[u][d])] = u
    BY <1>0, <1>1 DEF Guards
  <1> QED
    BY <1>0, <1>3, <1>4 DEF Guards

\* A re-entrant call takes no guard and moves no frame that is in a backend.
LEMMA ReenterGuards ==
    ASSUME IInv, NEW t \in Threads, Reenter(t)
    PROVE  Guards'
  <1> DEFINE n == Len(stack[t])
             f == [Top(t) EXCEPT !.nested = @ + 1]
             g == NewFrame(captured[Slot(Top(t))])
  <1>0. TypeOK /\ Captures /\ Frames /\ Guards
    BY DEF IInv
  <1>1. /\ Busy(t) /\ Top(t).pc # "lock" /\ UNCHANGED <<owner, poisoned>>
        /\ stack' = [stack EXCEPT ![t] = Append([@ EXCEPT ![Len(@)] = f], g)]
    BY DEF Reenter, InBackend
  <1>2. n \in Nat /\ n > 0 /\ DOMAIN stack[t] = 1 .. n /\ Top(t) = stack[t][n]
    BY <1>0, <1>1, TopFrame DEF Top
  <1>3. f \in Frame /\ f.slots = Top(t).slots /\ f.answers = Top(t).answers /\ f.pc = Top(t).pc
    BY <1>0, NestedFrame
  <1>4. g \in Frame /\ g.pc = "lock"
    <2>1. captured[Slot(Top(t))] \in Seq(Backends)
      BY <1>0, <1>1, InsideType DEF TypeOK
    <2> QED
      BY <2>1, NewFrameType DEF NewFrame
  <1> HIDE DEF f, g
  <1>5. /\ \A u \in Threads : u # t => stack'[u] = stack[u]
        /\ Len(stack'[t]) = n + 1 /\ DOMAIN stack'[t] = 1 .. n + 1
        /\ stack'[t][n + 1] = g /\ stack'[t][n] = f
        /\ \A d \in DOMAIN stack[t] : d < n => stack'[t][d] = stack[t][d]
    BY <1>0, ReenterStack DEF f, g
  <1> HIDE DEF n
  <1>6. \A u \in Threads : \A d \in DOMAIN stack[u] :
           /\ d \in DOMAIN stack'[u]
           /\ Slot(stack'[u][d]) = Slot(stack[u][d])
           /\ stack'[u][d].pc = stack[u][d].pc
    <2> SUFFICES ASSUME NEW u \in Threads, NEW d \in DOMAIN stack[u]
                 PROVE  /\ d \in DOMAIN stack'[u]
                        /\ Slot(stack'[u][d]) = Slot(stack[u][d])
                        /\ stack'[u][d].pc = stack[u][d].pc
      OBVIOUS
    <2>1. CASE u # t
      BY <1>5, <2>1
    <2>2. CASE u = t /\ d = n
      <3>1. stack'[u][d] = f /\ stack[u][d] = Top(t)
        BY <1>2, <1>5, <2>2
      <3>2. Slot(f) = Slot(Top(t)) /\ f.pc = Top(t).pc
        BY <1>3 DEF Slot
      <3>3. d \in DOMAIN stack'[u]
        BY <1>2, <1>5, <2>2
      <3> QED
        BY <3>1, <3>2, <3>3
    <2>3. CASE u = t /\ d # n
      BY <1>2, <1>5, <2>3
    <2> QED
      BY <2>1, <2>2, <2>3
  <1>7. \A u \in Threads : \A d \in DOMAIN stack'[u] :
           stack'[u][d].pc # "lock" => d \in DOMAIN stack[u]
    BY <1>2, <1>4, <1>5
  <1>8. \A u \in Threads : \A d \in DOMAIN stack'[u] :
           stack'[u][d].pc # "lock" => owner'[Slot(stack'[u][d])] = u
    BY <1>0, <1>1, <1>6, <1>7 DEF Guards
  <1>9. ASSUME NEW b \in Backends, owner'[b] # NoThread
        PROVE  \E d \in DOMAIN stack'[owner'[b]] : Holds(owner[b], d, b)'
    <2>1. owner'[b] = owner[b] /\ owner[b] \in Threads
      BY <1>0, <1>1, <1>9 DEF TypeOK
    <2>2. PICK d \in DOMAIN stack[owner[b]] : Holds(owner[b], d, b)
      BY <1>0, <1>9, <2>1 DEF Guards
    <2> QED
      BY <1>6, <2>1, <2>2 DEF Holds
  <1> QED
    BY <1>0, <1>1, <1>8, <1>9 DEF Guards

\* The inductive invariant holds initially.
LEMMA InitInvariant == Init => IInv
  <1> SUFFICES ASSUME Init PROVE IInv
    OBVIOUS
  <1>1. TypeOK
    BY InitType
  <1>2. DOMAIN <<>> = {}
    OBVIOUS
  <1>3. Captures /\ Frames /\ Descending /\ Guards
    BY <1>2 DEF Init, Captures, Frames, Descending, Guards, Holds, Busy
  <1> QED
    BY <1>1, <1>3 DEF IInv

\* Steps of a thread leave the handle lists alone.
LEMMA CapturesStay ==
    ASSUME Captures, UNCHANGED setup
    PROVE  Captures'
  BY DEF Captures, setup

\* Every step keeps the inductive invariant, action by action.
LEMMA NextInvariant == IInv /\ [Next]_vars => IInv'
  <1> SUFFICES ASSUME IInv, [Next]_vars PROVE IInv'
    OBVIOUS
  <1>0. TypeOK /\ Captures /\ Frames /\ Descending /\ Guards /\ TypeOK'
    BY NextType DEF IInv
  <1> SUFFICES Captures' /\ Frames' /\ Descending' /\ Guards'
    BY <1>0 DEF IInv
  <1>1. ASSUME NEW c \in Codecs, NEW own \in {registry[d] : d \in Codecs} \cup {<<>>}, Push(c, own)
        PROVE  Captures' /\ Frames' /\ Descending' /\ Guards'
    <2>1. Frames' /\ Descending' /\ Guards'
      BY <1>0, <1>1 DEF Push, Frames, Descending, Guards, Holds, Slot, Busy
    <2>2. pushed \in Nat /\ pushed' = pushed + 1 /\ pushed + 1 \in Backends
      BY <1>0, <1>1 DEF Push, TypeOK, Backends
    <2>3. \A e \in Codecs : registry[e] \in Seq(Backends)
      BY <1>0 DEF TypeOK
    <2>4. ASSUME NEW e \in Codecs, NEW k \in DOMAIN registry'[e]
          PROVE  registry'[e][k] <= pushed'
      <3>1. CASE e # c
        <4>1. registry'[e] = registry[e]
          BY <1>0, <1>1, <3>1 DEF Push, TypeOK
        <4>2. registry[e][k] <= pushed /\ registry[e][k] \in Nat
          BY <1>0, <2>3, <2>4, <4>1, ElementOfSeq, LenProperties DEF Captures, Backends
        <4> QED
          BY <2>2, <4>1, <4>2
      <3>2. CASE e = c
        <4>1. registry'[c] = Append(registry[c], pushed + 1)
          BY <1>0, <1>1 DEF Push, TypeOK
        <4>2. /\ Len(registry[c]) \in Nat /\ DOMAIN registry[c] = 1 .. Len(registry[c])
              /\ Len(registry'[c]) = Len(registry[c]) + 1
              /\ DOMAIN registry'[c] = 1 .. Len(registry[c]) + 1
              /\ \A i \in 1 .. Len(registry[c]) : registry'[c][i] = registry[c][i]
              /\ registry'[c][Len(registry[c]) + 1] = pushed + 1
          BY <2>2, <2>3, <4>1, AppendProperties, LenProperties
        <4>3. CASE k = Len(registry[c]) + 1
          BY <2>2, <3>2, <4>2, <4>3
        <4>4. CASE k # Len(registry[c]) + 1
          <5>1. k \in DOMAIN registry[c]
            BY <2>4, <3>2, <4>2, <4>4
          <5>2. registry[c][k] <= pushed /\ registry[c][k] \in Nat
            BY <1>0, <2>3, <5>1, ElementOfSeq, LenProperties DEF Captures, Backends
          <5> QED
            BY <2>2, <3>2, <4>2, <5>1, <5>2
        <4> QED
          BY <4>3, <4>4
      <3> QED
        BY <3>1, <3>2
    <2>5. ASSUME NEW b \in Backends, NEW k \in DOMAIN captured'[b]
          PROVE  captured'[b][k] < b
      <3>1. CASE b # pushed + 1
        BY <1>0, <1>1, <2>5, <3>1 DEF Push, TypeOK, Captures
      <3>2. CASE b = pushed + 1
        <4>1. captured'[b] = own
          BY <1>0, <1>1, <2>2, <3>2 DEF Push, TypeOK
        <4>2. own # <<>>
          BY <2>5, <4>1
        <4>3. PICK e \in Codecs : own = registry[e]
          BY <4>2
        <4>4. own[k] <= pushed /\ own[k] \in Nat
          BY <1>0, <2>3, <2>5, <4>1, <4>3, ElementOfSeq, LenProperties DEF Captures, Backends
        <4> QED
          BY <2>2, <3>2, <4>1, <4>4
      <3> QED
        BY <3>1, <3>2
    <2> QED
      BY <2>1, <2>4, <2>5 DEF Captures
  <1>2. ASSUME NEW c \in Codecs, NEW d \in Codecs, CloneCodec(c, d)
        PROVE  Captures' /\ Frames' /\ Descending' /\ Guards'
    <2>1. Frames' /\ Descending' /\ Guards'
      BY <1>0, <1>2 DEF CloneCodec, Frames, Descending, Guards, Holds, Slot, Busy
    <2>2. Captures'
      BY <1>0, <1>2 DEF CloneCodec, Captures, TypeOK
    <2> QED
      BY <2>1, <2>2
  <1>3. ASSUME NEW t \in Threads, NEW c \in Codecs, Call(t, c)
        PROVE  Captures' /\ Frames' /\ Descending' /\ Guards'
    <2> DEFINE g == NewFrame(registry[c])
    <2>1. stack[t] = <<>> /\ stack' = [stack EXCEPT ![t] = <<g>>] /\ UNCHANGED <<setup, owner, poisoned, unwinding>>
      BY <1>3 DEF Call, Busy
    <2>2. g.answers = <<>> /\ g.pc = "lock" /\ Len(g.answers) = 0 /\ Len(g.slots) \in Nat
      BY <1>0, EmptySeq, LenProperties DEF NewFrame, TypeOK
    <2> HIDE DEF g
    <2>3. /\ \A u \in Threads : u # t => stack'[u] = stack[u]
          /\ stack'[t] = <<g>> /\ Len(stack'[t]) = 1 /\ DOMAIN stack'[t] = {1} /\ stack'[t][1] = g
      BY <1>0, <2>1 DEF TypeOK
    <2>4. Captures'
      BY <1>0, <2>1, CapturesStay
    <2>5. ~unwinding[t]
      BY <1>0, <1>3 DEF Call, Frames
    <2>6. Frames'
      BY <1>0, <2>1, <2>2, <2>3, <2>5 DEF Frames, Busy
    <2>7. Descending'
      BY <1>0, <2>1, <2>3 DEF Descending, Slot
    <2>8. Guards'
      BY <1>0, <2>1, <2>2, <2>3 DEF Guards, Holds, Slot, TypeOK
    <2> QED
      BY <2>4, <2>6, <2>7, <2>8
  <1>4. ASSUME NEW t \in Threads, Lock(t)
        PROVE  Captures' /\ Frames' /\ Descending' /\ Guards'
    <2> DEFINE f == [Top(t) EXCEPT !.pc = "supports"]
               s == Slot(Top(t))
    <2>1. /\ Busy(t) /\ Top(t).pc = "lock" /\ ~Exhausted(Top(t)) /\ owner[s] = NoThread /\ ~poisoned[s]
          /\ owner' = [owner EXCEPT ![s] = t] /\ SetTop(t, f) /\ UNCHANGED <<setup, poisoned, unwinding>>
      BY <1>4 DEF Lock, AtLock
    <2>2. f \in Frame /\ f.slots = Top(t).slots /\ f.answers = Top(t).answers /\ f.pc = "supports"
      BY <1>0, <2>1, TopFrame, MovedFrame
    <2>3. Len(Top(t).answers) < Len(Top(t).slots)
      <3>1. Len(Top(t).answers) <= Len(Top(t).slots)
        BY <1>0, <2>1, TopIndex DEF Frames
      <3>2. Len(Top(t).answers) \in Nat /\ Len(Top(t).slots) \in Nat
        BY <1>0, <2>1, TopFrame, LenProperties
      <3> QED
        BY <2>1, <3>1, <3>2 DEF Exhausted
    <2>4. s \in Backends
      BY <1>0, <2>1, <2>3, TopFrame, CursorType
    <2>5. Slot(f) = s
      BY <2>2 DEF Slot
    <2> HIDE DEF f, s
    <2>6. Captures'
      BY <1>0, <2>1, CapturesStay
    <2>7. Frames' /\ Descending'
      BY <1>0, <2>1, <2>2, <2>3, SetTopKeeps
    <2>8. /\ \A u \in Threads : u # t => stack'[u] = stack[u]
          /\ DOMAIN stack'[t] = DOMAIN stack[t] /\ stack'[t][Len(stack[t])] = f
          /\ \A d \in DOMAIN stack[t] : d < Len(stack[t]) => stack'[t][d] = stack[t][d]
      BY <1>0, <2>1, <2>2, SetTopStack
    <2>9. owner'[s] = t /\ \A b \in Backends : b # s => owner'[b] = owner[b]
      BY <1>0, <2>1, <2>4 DEF TypeOK
    <2>10. ASSUME NEW u \in Threads, NEW d \in DOMAIN stack'[u], stack'[u][d].pc # "lock"
           PROVE  owner'[Slot(stack'[u][d])] = u
      <3>1. CASE u = t /\ d = Len(stack[t])
        BY <2>5, <2>8, <2>9, <3>1
      <3>2. CASE ~(u = t /\ d = Len(stack[t]))
        <4>1. d \in DOMAIN stack[u] /\ stack'[u][d] = stack[u][d]
          BY <1>0, <2>1, <2>8, <2>10, <3>2, TopIndex
        <4>2. owner[Slot(stack[u][d])] = u /\ Slot(stack[u][d]) \in Backends
          BY <1>0, <2>10, <4>1, HeldSlot DEF Guards
        <4>3. Slot(stack[u][d]) # s
          BY <2>1, <4>2, ThreadsAssumption
        <4> QED
          BY <2>9, <4>1, <4>2, <4>3
      <3> QED
        BY <3>1, <3>2
    <2>11. ASSUME NEW b \in Backends, owner'[b] # NoThread
           PROVE  \E d \in DOMAIN stack'[owner'[b]] : Holds(owner[b], d, b)'
      <3>1. CASE b = s
        BY <1>0, <2>1, <2>2, <2>5, <2>8, <2>9, <3>1, TopIndex DEF Holds
      <3>2. CASE b # s
        <4>1. owner'[b] = owner[b] /\ owner[b] \in Threads
          BY <1>0, <2>9, <2>11, <3>2 DEF TypeOK
        <4>2. PICK d \in DOMAIN stack[owner[b]] : Holds(owner[b], d, b)
          BY <1>0, <2>11, <4>1 DEF Guards
        <4>3. ~(owner[b] = t /\ d = Len(stack[t]))
          BY <1>0, <2>1, <4>2, TopIndex DEF Holds
        <4>4. d \in DOMAIN stack'[owner[b]] /\ stack'[owner[b]][d] = stack[owner[b]][d]
          BY <1>0, <2>1, <2>8, <4>1, <4>2, <4>3, TopIndex
        <4> QED
          BY <4>1, <4>2, <4>4 DEF Holds
      <3> QED
        BY <3>1, <3>2
    <2>12. \A b \in Backends : poisoned'[b] => owner'[b] = NoThread
      BY <1>0, <2>1, <2>9 DEF Guards
    <2> QED
      BY <2>6, <2>7, <2>10, <2>11, <2>12 DEF Guards
  <1>5. ASSUME NEW t \in Threads, LockPoisoned(t)
        PROVE  Captures' /\ Frames' /\ Descending' /\ Guards'
    <2>1. /\ Busy(t) /\ ~unwinding[t] /\ Top(t).pc = "lock" /\ Pops(t)
          /\ UNCHANGED <<setup, owner, poisoned, unwinding>>
      BY <1>5 DEF LockPoisoned, AtLock, Return, Pops
    <2>2. Frames' /\ Descending'
      BY <1>0, <2>1, PopKeeps
    <2>3. Guards'
      BY <1>0, <2>1, LockedPopKeeps
    <2> QED
      BY <1>0, <2>1, <2>2, <2>3, CapturesStay
  <1>6. ASSUME NEW t \in Threads, Accept(t)
        PROVE  Captures' /\ Frames' /\ Descending' /\ Guards'
    <2> DEFINE f == [Top(t) EXCEPT !.pc = "run"]
    <2>1. /\ Busy(t) /\ Top(t).pc = "supports" /\ SetTop(t, f)
          /\ UNCHANGED <<setup, owner, poisoned, unwinding>>
      BY <1>6 DEF Accept, InBackend
    <2>2. f \in Frame /\ f.slots = Top(t).slots /\ f.answers = Top(t).answers /\ f.pc = "run"
      BY <1>0, <2>1, TopFrame, MovedFrame
    <2>3. Slot(f) = Slot(Top(t))
      BY <2>2 DEF Slot
    <2> HIDE DEF f
    <2>4. Len(Top(t).answers) <= Len(Top(t).slots) /\ Len(Top(t).answers) < Len(Top(t).slots)
      BY <1>0, <2>1, TopIndex DEF Frames
    <2>5. Frames' /\ Descending'
      BY <1>0, <2>1, <2>2, <2>4, SetTopKeeps
    <2>6. /\ \A u \in Threads : u # t => stack'[u] = stack[u]
          /\ DOMAIN stack'[t] = DOMAIN stack[t] /\ stack'[t][Len(stack[t])] = f
          /\ \A d \in DOMAIN stack[t] : d < Len(stack[t]) => stack'[t][d] = stack[t][d]
      BY <1>0, <2>1, <2>2, SetTopStack
    <2>7. \A u \in Threads : \A d \in DOMAIN stack[u] :
             /\ d \in DOMAIN stack'[u]
             /\ Slot(stack'[u][d]) = Slot(stack[u][d])
             /\ stack'[u][d].pc # "lock" <=> stack[u][d].pc # "lock"
      BY <1>0, <2>1, <2>2, <2>3, <2>6, TopIndex
    <2>8. \A u \in Threads : DOMAIN stack'[u] = DOMAIN stack[u]
      BY <2>6
    <2>9. \A u \in Threads : \A d \in DOMAIN stack'[u] :
             stack'[u][d].pc # "lock" => owner'[Slot(stack'[u][d])] = u
      BY <1>0, <2>1, <2>7, <2>8 DEF Guards
    <2>10. ASSUME NEW b \in Backends, owner'[b] # NoThread
           PROVE  \E d \in DOMAIN stack'[owner'[b]] : Holds(owner[b], d, b)'
      <3>1. owner'[b] = owner[b] /\ owner[b] \in Threads
        BY <1>0, <2>1, <2>10 DEF TypeOK
      <3>2. PICK d \in DOMAIN stack[owner[b]] : Holds(owner[b], d, b)
        BY <1>0, <2>10, <3>1 DEF Guards
      <3>3. d \in DOMAIN stack'[owner[b]] /\ Slot(stack'[owner[b]][d]) = b
            /\ stack'[owner[b]][d].pc # "lock"
        BY <2>7, <3>1, <3>2 DEF Holds
      <3>4. stack'[owner[b]][d] \in Frame
        BY <1>0, <3>1, <3>3, ElementOfSeq, LenProperties DEF TypeOK
      <3> QED
        BY <3>1, <3>3, <3>4 DEF Holds, Frame
    <2>11. \A b \in Backends : poisoned'[b] => owner'[b] = NoThread
      BY <1>0, <2>1 DEF Guards
    <2> QED
      BY <1>0, <2>1, <2>5, <2>9, <2>10, <2>11, CapturesStay DEF Guards
  <1>7. ASSUME NEW t \in Threads, NEW a \in Answers, Answer(t, a)
        PROVE  Captures' /\ Frames' /\ Descending' /\ Guards'
    <2>1. /\ Busy(t) /\ ~unwinding[t] /\ Top(t).pc # "lock" /\ Unlock(Slot(Top(t)))
          /\ UNCHANGED <<setup, poisoned, unwinding>>
      BY <1>7 DEF Answer, InBackend
    <2>2. CASE FallsThrough(a)
      <3> DEFINE f == [Top(t) EXCEPT !.answers = Append(@, a), !.pc = "lock", !.nested = 0]
      <3>1. /\ Append(Top(t).answers, a) \in Seq(Answers)
            /\ Len(Append(Top(t).answers, a)) = Len(Top(t).answers) + 1
        BY <1>0, <2>1, TopFrame, AppendProperties
      <3>2. /\ f \in Frame /\ f.slots = Top(t).slots /\ f.pc = "lock"
            /\ f.answers = Append(Top(t).answers, a)
        <4>1. Top(t) \in Frame
          BY <1>0, <2>1, TopFrame
        <4> QED
          BY <3>1, <4>1, AnsweredFrame
      <3>3. SetTop(t, f)
        BY <1>7, <2>2 DEF Answer
      <3> HIDE DEF f
      <3>4. Len(f.answers) <= Len(f.slots)
        <4>1. Len(Top(t).answers) < Len(Top(t).slots)
          BY <1>0, <2>1, TopIndex DEF Frames
        <4>2. Len(Top(t).answers) \in Nat /\ Len(Top(t).slots) \in Nat
          BY <1>0, <2>1, TopFrame, LenProperties
        <4> QED
          BY <3>1, <3>2, <4>1, <4>2
      <3>5. Frames' /\ Descending'
        BY <1>0, <2>1, <3>2, <3>3, <3>4, SetTopKeeps
      <3>6. /\ \A u \in Threads : u # t => stack'[u] = stack[u]
            /\ DOMAIN stack'[t] = DOMAIN stack[t] /\ stack'[t][Len(stack[t])] = f
            /\ \A d \in DOMAIN stack[t] : d < Len(stack[t]) => stack'[t][d] = stack[t][d]
        BY <1>0, <2>1, <3>2, <3>3, SetTopStack
      <3>7. \A d \in DOMAIN stack'[t] : stack'[t][d].pc # "lock" =>
               d \in DOMAIN stack[t] /\ d < Len(stack[t])
        BY <1>0, <2>1, <3>2, <3>6, TopIndex
      <3>8. Guards'
        BY <1>0, <2>1, <3>6, <3>7, UnlockKeeps
      <3> QED
        BY <1>0, <2>1, <3>5, <3>8, CapturesStay
    <2>3. CASE ~FallsThrough(a)
      <3>1. Pops(t)
        BY <1>7, <2>3 DEF Answer, Return, Pops
      <3>2. Frames' /\ Descending'
        BY <1>0, <2>1, <3>1, PopKeeps
      <3>3. Guards'
        BY <1>0, <2>1, <3>1, PopUnlockKeeps
      <3> QED
        BY <1>0, <2>1, <3>2, <3>3, CapturesStay
    <2> QED
      BY <2>2, <2>3
  <1>8. ASSUME NEW t \in Threads, RunTail(t)
        PROVE  Captures' /\ Frames' /\ Descending' /\ Guards'
    <2>1. /\ Busy(t) /\ ~unwinding[t] /\ Top(t).pc = "lock" /\ Pops(t)
          /\ UNCHANGED <<setup, owner, poisoned, unwinding>>
      BY <1>8 DEF RunTail, AtLock, Return, Pops
    <2>2. Frames' /\ Descending'
      BY <1>0, <2>1, PopKeeps
    <2>3. Guards'
      BY <1>0, <2>1, LockedPopKeeps
    <2> QED
      BY <1>0, <2>1, <2>2, <2>3, CapturesStay
  <1>9. ASSUME NEW t \in Threads, Reenter(t)
        PROVE  Captures' /\ Frames' /\ Descending' /\ Guards'
    <2>1. UNCHANGED setup
      BY <1>9 DEF Reenter
    <2> QED
      BY <1>0, <1>9, <2>1, ReenterKeeps, ReenterGuards, CapturesStay
  <1>10. ASSUME NEW t \in Threads, Panic(t)
         PROVE  Captures' /\ Frames' /\ Descending' /\ Guards'
    <2>1. Busy(t)
      BY <1>10 DEF Panic, InBackend
    <2>2. Top(t).pc # "lock"
      BY <1>0, <1>10, <2>1, TopIndex DEF Panic, InBackend, Frames
    <2>3. /\ Pops(t) /\ Unlock(Slot(Top(t))) /\ UNCHANGED setup
          /\ unwinding' = [unwinding EXCEPT ![t] = Len(stack[t]) > 1]
          /\ poisoned' = [poisoned EXCEPT ![Slot(Top(t))] = TRUE]
      BY <1>10 DEF Panic, Return, Pops
    <2>4. /\ \A u \in Threads : u # t => unwinding'[u] = unwinding[u]
          /\ unwinding'[t] => Len(stack[t]) > 1
      BY <1>0, <2>3, Zenon DEF TypeOK
    <2>5. \A b \in Backends : poisoned'[b] => poisoned[b] \/ b = Slot(Top(t))
      BY <1>0, <2>3, Zenon DEF TypeOK
    <2>6. Frames' /\ Descending'
      BY <1>0, <2>1, <2>3, <2>4, PopKeeps
    <2>7. Guards'
      BY <2>1, <2>2, <2>3, <2>5, PopUnlockKeeps
    <2> QED
      BY <1>0, <2>3, <2>6, <2>7, CapturesStay
  <1>11. ASSUME NEW t \in Threads, Catch(t)
         PROVE  Captures' /\ Frames' /\ Descending' /\ Guards'
    <2>1. /\ unwinding' = [unwinding EXCEPT ![t] = FALSE]
          /\ UNCHANGED <<setup, owner, poisoned, stack>>
      BY <1>11 DEF Catch
    <2>2. \A u \in Threads : unwinding'[u] => unwinding[u]
      BY <1>0, <2>1, Zenon DEF TypeOK
    <2>3. Frames'
      BY <1>0, <2>1, <2>2 DEF Frames, Busy
    <2>4. Descending' /\ Guards'
      BY <1>0, <2>1 DEF Descending, Guards, Holds, Slot
    <2> QED
      BY <1>0, <2>1, <2>3, <2>4, CapturesStay
  <1>12. ASSUME UNCHANGED vars
         PROVE  Captures' /\ Frames' /\ Descending' /\ Guards'
    BY <1>0, <1>12 DEF vars, Captures, Frames, Descending, Guards, Holds, Slot, Busy
  <1> QED
    BY <1>1, <1>2, <1>3, <1>4, <1>5, <1>6, <1>7, <1>8, <1>9, <1>10, <1>11, <1>12
    DEF Next, Configure, Step

----------------------------------------------------------------------------
(* The theorems. *)

\* Every reachable state is well typed: the dispatch loop of run_inflaters and
\* its siblings never indexes past its handle list, however calls nest.
THEOREM TypeCorrect == Spec => []TypeOK
  <1>1. Spec => []IInv
    BY InitInvariant, NextInvariant, PTL DEF Spec
  <1>2. IInv => TypeOK
    BY DEF IInv
  <1> QED
    BY <1>1, <1>2, PTL

\* The inductive invariant holds in every reachable state.
THEOREM InvariantHolds == Spec => []IInv
  BY InitInvariant, NextInvariant, PTL DEF Spec

\* The &mut self methods of a backend shared by clones never overlap: not across
\* threads, and not through a backend that calls back into a codec.
THEOREM BackendsAreExclusive == Spec => []ExclusiveBackend
  <1>1. IInv => ExclusiveBackend
    <2> SUFFICES ASSUME IInv, NEW b \in Backends, NEW t \in Threads, NEW u \in Threads,
                        NEW d \in DOMAIN stack[t], NEW e \in DOMAIN stack[u],
                        Holds(t, d, b), Holds(u, e, b)
                 PROVE  t = u /\ d = e
      BY DEF ExclusiveBackend
    <2> QED
      BY OneHolder DEF Holds
  <1> QED
    BY <1>1, InvariantHolds, PTL

\* A backend whose mutex a panic poisoned stays poisoned, and no thread acquires
\* it again: `lock().map_err(|_| poisoned())?` ends every later call instead.
THEOREM PanickedBackendsStayOut == Spec => PanicQuarantine
  <1> DEFINE Q == \A b \in Backends : poisoned[b] => poisoned'[b] /\ owner'[b] = NoThread
  <1>1. ASSUME IInv, IInv', [Next]_vars PROVE Q
    <2> SUFFICES ASSUME NEW b \in Backends, poisoned[b] PROVE poisoned'[b]
      BY <1>1 DEF IInv, Guards
    <2>1. CASE UNCHANGED poisoned
      BY <2>1
    <2>2. ASSUME NEW t \in Threads, Panic(t)
          PROVE  poisoned'[b]
      BY <1>1, <2>2, Zenon DEF Panic, IInv, TypeOK
    <2> QED
      BY <1>1, <2>1, <2>2
      DEF Next, Configure, Step, Push, CloneCodec, Call, Lock, LockPoisoned, Accept, Answer,
          RunTail, Reenter, Catch, vars
  <1>2. ASSUME IInv, IInv', [Next]_vars PROVE [Q]_vars
    BY <1>1, <1>2
  <1>3. Spec => [][Q]_vars
    BY <1>2, InitInvariant, NextInvariant, PTL DEF Spec
  <1> QED
    BY <1>3 DEF PanicQuarantine

\* What a blocked thread waits for is older than everything it is inside.
LEMMA WaitsBelow ==
    ASSUME IInv, NEW u \in Threads, Blocked(u), NEW d \in DOMAIN stack[u],
           stack[u][d].pc # "lock"
    PROVE  Slot(Top(u)) < Slot(stack[u][d])
  <1>0. TypeOK /\ Frames /\ Descending /\ Busy(u)
    BY DEF IInv, Blocked, AtLock
  <1>1. Top(u).pc = "lock" /\ Len(Top(u).answers) < Len(Top(u).slots)
    <2>1. Len(Top(u).answers) <= Len(Top(u).slots)
      BY <1>0, TopIndex DEF Frames
    <2>2. Len(Top(u).answers) \in Nat /\ Len(Top(u).slots) \in Nat
      BY <1>0, TopFrame, LenProperties
    <2> QED
      BY <2>1, <2>2 DEF Blocked, AtLock, Exhausted
  <1>2. Len(Top(u).answers) + 1 \in DOMAIN Top(u).slots
    BY <1>0, <1>1, TopFrame, CursorType
  <1>3. d < Len(stack[u])
    BY <1>0, <1>1, TopIndex
  <1> QED
    BY <1>0, <1>2, <1>3, TopIndex DEF Descending, Slot

\* The lock() calls of the dispatch loops never wait in a circle, whatever the
\* backends call: the argument is that each thread takes its locks in strictly
\* descending push order, so among the blocked threads the one that waits for
\* the oldest backend waits for a thread that is not blocked.
THEOREM NoDeadlockEver == Spec => []NoCircularWait
  <1>1. ASSUME IInv, NEW t0 \in Threads, Busy(t0),
               \A t \in Threads : Busy(t) => Blocked(t)
        PROVE  FALSE
    <2> DEFINE W == {Slot(Top(t)) : t \in {u \in Threads : Busy(u)}}
               R == OpToRel(<, Nat)
    <2>1. \A t \in Threads : Blocked(t) => Slot(Top(t)) \in Backends
      <3> SUFFICES ASSUME NEW t \in Threads, Blocked(t) PROVE Slot(Top(t)) \in Backends
        OBVIOUS
      <3>1. TypeOK /\ Frames /\ Busy(t)
        BY <1>1 DEF IInv, Blocked, AtLock
      <3>2. Len(Top(t).answers) <= Len(Top(t).slots)
        BY <3>1, TopIndex DEF Frames
      <3>3. Len(Top(t).answers) \in Nat /\ Len(Top(t).slots) \in Nat
        BY <3>1, TopFrame, LenProperties
      <3>4. Len(Top(t).answers) < Len(Top(t).slots)
        BY <3>2, <3>3 DEF Blocked, Exhausted
      <3> QED
        BY <3>1, <3>4, TopFrame, CursorType
    <2>2. W \subseteq Nat /\ W # {}
      BY <1>1, <2>1 DEF Backends
    <2>3. PICK m \in W : \A y \in W : ~(<<y, m>> \in R)
      <3> HIDE DEF W, R
      <3> QED
        BY <2>2, WFMin, NatLessThanWellFounded DEF R
    <2>4. \A y \in W : ~(y < m)
      BY <2>2, <2>3 DEF OpToRel
    <2>5. PICK t \in Threads : Busy(t) /\ m = Slot(Top(t))
      BY <2>3
    <2>6. Blocked(t) /\ m \in Backends /\ owner[m] # NoThread
      BY <1>1, <2>1, <2>5 DEF Blocked
    <2>7. owner[m] \in Threads
      BY <1>1, <2>6 DEF IInv, TypeOK
    <2>8. PICK d \in DOMAIN stack[owner[m]] : Holds(owner[m], d, m)
      BY <1>1, <2>6 DEF IInv, Guards
    <2>9. Busy(owner[m])
      BY <2>8 DEF Busy
    <2>10. Slot(Top(owner[m])) < m
      BY <1>1, <2>7, <2>8, <2>9, WaitsBelow DEF Holds
    <2> QED
      BY <2>4, <2>7, <2>9, <2>10
  <1>2. IInv => NoCircularWait
    BY <1>1 DEF NoCircularWait
  <1> QED
    BY <1>2, InvariantHolds, PTL

----------------------------------------------------------------------------
(* The refinement of the fallback contract: what the caller sees of each change  *)
(* of a stack.  A change above depth 1 is invisible.                            *)

seen == <<SeenOpen, SeenWidth, SeenAnswers, SeenVerdict>>

\* Nothing is seen of a step that leaves the outermost calls and results as they are.
LEMMA UnseenStep ==
    ASSUME \A u \in Threads :
              \/ stack'[u] = stack[u] /\ result'[u] = result[u]
              \/ /\ Busy(u) /\ stack'[u] # <<>>
                 /\ stack'[u][1].slots = stack[u][1].slots
                 /\ stack'[u][1].answers = stack[u][1].answers
    PROVE  UNCHANGED seen
  <1>1. ASSUME NEW u \in Threads
        PROVE  /\ Busy(u)' = Busy(u)
               /\ Busy(u) => /\ stack'[u][1].slots = stack[u][1].slots
                             /\ stack'[u][1].answers = stack[u][1].answers
               /\ ~Busy(u) => result'[u] = result[u]
    BY DEF Busy
  <1>2. SeenOpen' = SeenOpen
    BY <1>1, Zenon DEF SeenOpen
  <1>3. SeenWidth' = SeenWidth
    BY <1>1 DEF SeenWidth
  <1>4. SeenAnswers' = SeenAnswers
    BY <1>1 DEF SeenAnswers
  <1>5. SeenVerdict' = SeenVerdict
    BY <1>1 DEF SeenVerdict
  <1> QED
    BY <1>2, <1>3, <1>4, <1>5 DEF seen

\* What is seen of an outermost call that runs.
LEMMA SeenCall ==
    ASSUME TypeOK, NEW t \in Threads, Busy(t), Len(stack[t]) = 1
    PROVE  /\ SeenOpen[t] = TRUE
           /\ SeenWidth[t] = Len(Top(t).slots) /\ SeenAnswers[t] = Top(t).answers
  BY Zenon DEF SeenOpen, SeenWidth, SeenAnswers, Top

\* The map of seen values keeps a value that is written back.
LEMMA WrittenBack ==
    ASSUME NEW t \in Threads
    PROVE  /\ [SeenWidth EXCEPT ![t] = SeenWidth[t]] = SeenWidth
           /\ [SeenAnswers EXCEPT ![t] = SeenAnswers[t]] = SeenAnswers
  BY DEF SeenWidth, SeenAnswers

\* What is seen of the return of an outermost call.
LEMMA SeenReturn ==
    ASSUME TypeOK, NEW t \in Threads, Busy(t), Len(stack[t]) = 1, NEW v, NEW a, Return(t, v, a)
    PROVE  /\ SeenOpen' = [SeenOpen EXCEPT ![t] = FALSE]
           /\ SeenWidth' = SeenWidth
           /\ SeenAnswers' = [SeenAnswers EXCEPT ![t] = a]
           /\ SeenVerdict' = [SeenVerdict EXCEPT ![t] = v]
  <1>0. SeenWidth[t] = Len(Top(t).slots)
    BY SeenCall
  <1>1. Pops(t) /\ result' = [result EXCEPT ![t] = [verdict |-> v, answers |-> a,
                                                   width |-> Len(Top(t).slots)]]
    BY DEF Return, Pops
  <1>2. ~Busy(t)' /\ \A u \in Threads : u # t => stack'[u] = stack[u]
    <2>1. stack'[t] = Front(stack[t]) /\ Front(stack[t]) \in Seq(Frame) /\ Len(stack'[t]) = 0
      BY <1>1, PoppedStack, Popped DEF Pops, TypeOK, Busy
    <2> QED
      BY <1>1, <2>1, PoppedStack, EmptySeq DEF Busy
  <1>3. /\ result'[t].verdict = v /\ result'[t].width = SeenWidth[t] /\ result'[t].answers = a
        /\ \A u \in Threads : u # t => result'[u] = result[u]
    BY <1>0, <1>1 DEF TypeOK
  <1>4. ~Busy(t)' /\ \A u \in Threads : u # t => (Busy(u)' <=> Busy(u))
    BY <1>2 DEF Busy
  <1>5. SeenOpen' = [SeenOpen EXCEPT ![t] = FALSE]
    <2>1. \A u \in Threads : Busy(u)' = IF u = t THEN FALSE ELSE Busy(u)
      BY <1>4 DEF Busy
    <2> QED
      BY <2>1, Zenon DEF SeenOpen
  <1>6. SeenWidth' = SeenWidth
    <2>1. SeenWidth' = [SeenWidth EXCEPT ![t] = result'[t].width]
      BY <1>2, <1>3, <1>4 DEF SeenWidth
    <2> QED
      BY <1>3, <2>1, WrittenBack
  <1>7. SeenAnswers' = [SeenAnswers EXCEPT ![t] = a]
    BY <1>2, <1>3, <1>4 DEF SeenAnswers
  <1>8. SeenVerdict' = [SeenVerdict EXCEPT ![t] = v]
    BY <1>2, <1>3, <1>4 DEF SeenVerdict
  <1> QED
    BY <1>5, <1>6, <1>7, <1>8

\* Nothing is seen of the return of a nested call.
LEMMA UnseenReturn ==
    ASSUME TypeOK, NEW t \in Threads, Busy(t), Len(stack[t]) # 1, NEW v, NEW a, Return(t, v, a)
    PROVE  UNCHANGED seen
  <1>0. Len(stack[t]) \in Nat /\ Len(stack[t]) > 0
    BY TopFrame
  <1>1. Len(stack[t]) > 1
    <2>1. \A n \in Nat : n > 0 /\ n # 1 => n > 1
      OBVIOUS
    <2> QED
      BY <1>0, <2>1
  <1>2. Pops(t) /\ result' = result
    BY <1>1 DEF Return, Pops
  <1>3. 1 \in DOMAIN stack'[t] /\ Len(stack'[t]) # 0
    BY <1>0, <1>1, <1>2, PoppedStack
  <1>4. stack'[t][1] = stack[t][1] /\ \A u \in Threads : u # t => stack'[u] = stack[u]
    BY <1>2, <1>3, PoppedStack
  <1>5. stack'[t] # <<>>
    BY <1>3, EmptySeq
  <1> QED
    BY <1>2, <1>4, <1>5, UnseenStep

\* What is seen of an outermost call that hears a decline.
LEMMA SeenMove ==
    ASSUME TypeOK, NEW t \in Threads, Busy(t), Len(stack[t]) = 1,
           NEW f \in Frame, SetTop(t, f), UNCHANGED result, f.slots = Top(t).slots
    PROVE  /\ UNCHANGED <<SeenOpen, SeenWidth, SeenVerdict>>
           /\ SeenAnswers' = [SeenAnswers EXCEPT ![t] = f.answers]
  <1>0. SeenWidth[t] = Len(Top(t).slots)
    BY SeenCall
  <1>1. /\ stack'[t] # <<>> /\ stack'[t][1] = f /\ \A u \in Threads : u # t => stack'[u] = stack[u]
    BY SetTopStack, TopFrame
  <1>2. \A u \in Threads : Busy(u)' = Busy(u)
    BY <1>1 DEF Busy
  <1>3. SeenOpen' = SeenOpen
    BY <1>2, Zenon DEF SeenOpen
  <1>4. SeenVerdict' = SeenVerdict
    BY <1>2 DEF SeenVerdict
  <1>5. SeenWidth' = SeenWidth
    <2>1. stack[t][1].slots = f.slots
      BY DEF Top
    <2> QED
      BY <1>1, <1>2, <2>1 DEF SeenWidth
  <1>6. SeenAnswers' = [SeenAnswers EXCEPT ![t] = f.answers]
    BY <1>1, <1>2 DEF SeenAnswers
  <1> QED
    BY <1>3, <1>4, <1>5, <1>6

\* Nothing is seen of a call that moves on, if it is nested or has heard nothing.
LEMMA UnseenMove ==
    ASSUME TypeOK, NEW t \in Threads, Busy(t), NEW f \in Frame, SetTop(t, f), UNCHANGED result,
           Len(stack[t]) = 1 => f.slots = Top(t).slots /\ f.answers = Top(t).answers
    PROVE  UNCHANGED seen
  <1>1. 1 \in DOMAIN stack[t] /\ Top(t) = stack[t][Len(stack[t])] /\ Len(stack[t]) \in Nat
        /\ Len(stack[t]) > 0
    BY TopFrame DEF Top
  <1>n. Len(stack[t]) # 1 => 1 < Len(stack[t])
    <2>1. \A n \in Nat : n > 0 /\ n # 1 => 1 < n
      OBVIOUS
    <2> QED
      BY <1>1, <2>1
  <1>2. /\ stack'[t] # <<>> /\ \A u \in Threads : u # t => stack'[u] = stack[u]
        /\ stack'[t][Len(stack[t])] = f
        /\ Len(stack[t]) # 1 => stack'[t][1] = stack[t][1]
    <2>1. stack'[t] # <<>>
      BY <1>1, SetTopStack, EmptySeq
    <2> QED
      BY <1>1, <1>n, <2>1, SetTopStack
  <1> QED
    BY <1>1, <1>2, UnseenStep

\* Nothing is seen of a nested call.
LEMMA UnseenNest ==
    ASSUME TypeOK, Captures, Frames, NEW t \in Threads, Reenter(t)
    PROVE  UNCHANGED seen
  <1> DEFINE f == [Top(t) EXCEPT !.nested = @ + 1]
  <1>1. Busy(t) /\ UNCHANGED result
    BY DEF Reenter, InBackend
  <1>2. f.slots = Top(t).slots /\ f.answers = Top(t).answers
    BY NestedFrame
  <1> HIDE DEF f
  <1>3. /\ \A u \in Threads : u # t => stack'[u] = stack[u]
        /\ stack'[t][Len(stack[t])] = f
        /\ Len(stack'[t]) = Len(stack[t]) + 1
        /\ \A d \in DOMAIN stack[t] : d < Len(stack[t]) => stack'[t][d] = stack[t][d]
    BY ReenterStack DEF f
  <1>4. /\ 1 \in DOMAIN stack[t] /\ Top(t) = stack[t][Len(stack[t])] /\ Len(stack[t]) \in Nat
        /\ Len(stack[t]) > 0
    BY <1>1, TopFrame DEF Top
  <1>5. Len(stack[t]) # 1 => 1 < Len(stack[t])
    <2>1. \A n \in Nat : n > 0 /\ n # 1 => 1 < n
      OBVIOUS
    <2> QED
      BY <1>4, <2>1
  <1>6. stack'[t] # <<>>
    <2>1. Len(stack'[t]) # 0
      BY <1>3, <1>4
    <2> QED
      BY <2>1, EmptySeq
  <1>7. stack'[t][1].slots = stack[t][1].slots /\ stack'[t][1].answers = stack[t][1].answers
    BY <1>2, <1>3, <1>4, <1>5
  <1> QED
    BY <1>1, <1>3, <1>6, <1>7, UnseenStep

\* An outermost call begins with the backends of its codec value.
LEMMA SeenStart ==
    ASSUME TypeOK, Counted, NEW t \in Threads, NEW c \in Codecs, Call(t, c)
    PROVE  Contract!Begin(t)
  <1>0. Len(registry[c]) \in 0 .. MaxBackends
    <2>1. registry[c] \in Seq(Backends) /\ pushed \in 0 .. MaxBackends /\ Len(registry[c]) <= pushed
      BY DEF TypeOK, Counted
    <2>2. Len(registry[c]) \in Nat
      BY <2>1, LenProperties
    <2> QED
      BY <2>1, <2>2
  <1>1. ~Busy(t) /\ \A u \in Threads : result'[u] = result[u]
    BY DEF Call
  <1>2. /\ stack'[t] # <<>>
        /\ stack'[t][1].slots = registry[c] /\ stack'[t][1].answers = <<>>
        /\ \A u \in Threads : u # t => stack'[u] = stack[u]
    BY DEF Call, TypeOK, NewFrame
  <1>3. Busy(t)' /\ \A u \in Threads : u # t => (Busy(u)' <=> Busy(u))
    BY <1>2 DEF Busy
  <1>4. SeenOpen' = [SeenOpen EXCEPT ![t] = TRUE]
    <2>1. \A u \in Threads : Busy(u)' = IF u = t THEN TRUE ELSE Busy(u)
      BY <1>3 DEF Busy
    <2> QED
      BY <2>1, Zenon DEF SeenOpen
  <1>5. SeenWidth' = [SeenWidth EXCEPT ![t] = Len(registry[c])]
    BY <1>1, <1>2, <1>3 DEF SeenWidth
  <1>6. SeenAnswers' = [SeenAnswers EXCEPT ![t] = <<>>]
    BY <1>1, <1>2, <1>3 DEF SeenAnswers
  <1>7. SeenVerdict' = [SeenVerdict EXCEPT ![t] = "none"]
    BY <1>1, <1>2, <1>3 DEF SeenVerdict
  <1>8. SeenOpen[t] = FALSE
    <2>1. Busy(t) = FALSE
      BY <1>1 DEF Busy
    <2> QED
      BY <2>1, Zenon DEF SeenOpen
  <1> QED
    BY <1>0, <1>4, <1>5, <1>6, <1>7, <1>8 DEF Contract!Begin

\* An exhausted call runs the built-in tail; only the outermost one is seen.
LEMMA SeenTail ==
    ASSUME TypeOK, NEW t \in Threads, RunTail(t)
    PROVE  Contract!BuiltIn(t) \/ UNCHANGED seen
  <1>1. /\ Busy(t) /\ Len(Top(t).answers) = Len(Top(t).slots)
        /\ Return(t, "tail", Top(t).answers)
    BY DEF RunTail, AtLock, Exhausted
  <1>2. CASE Len(stack[t]) = 1
    <2>1. /\ SeenOpen[t] = TRUE
          /\ SeenWidth[t] = Len(Top(t).slots) /\ SeenAnswers[t] = Top(t).answers
      BY <1>1, <1>2, SeenCall
    <2>2. /\ SeenOpen' = [SeenOpen EXCEPT ![t] = FALSE] /\ SeenWidth' = SeenWidth
          /\ SeenAnswers' = [SeenAnswers EXCEPT ![t] = Top(t).answers]
          /\ SeenVerdict' = [SeenVerdict EXCEPT ![t] = "tail"]
      BY <1>1, <1>2, SeenReturn
    <2>3. SeenAnswers' = SeenAnswers
      BY <2>1, <2>2, WrittenBack
    <2> QED
      BY <1>1, <2>1, <2>2, <2>3 DEF Contract!BuiltIn, Contract!Ends
  <1>3. CASE Len(stack[t]) # 1
    BY <1>1, <1>3, UnseenReturn
  <1> QED
    BY <1>2, <1>3

\* A call whose turn is at a poisoned backend, or that a panic leaves, is aborted.
LEMMA SeenAbort ==
    ASSUME TypeOK, NEW t \in Threads, Busy(t), NEW v \in {"poisoned", "panicked"},
           Return(t, v, Top(t).answers), Len(Top(t).answers) < Len(Top(t).slots)
    PROVE  Contract!Abort(t) \/ UNCHANGED seen
  <1>2. CASE Len(stack[t]) = 1
    <2>1. /\ SeenOpen[t] = TRUE
          /\ SeenWidth[t] = Len(Top(t).slots) /\ SeenAnswers[t] = Top(t).answers
      BY <1>2, SeenCall
    <2>2. /\ SeenOpen' = [SeenOpen EXCEPT ![t] = FALSE] /\ SeenWidth' = SeenWidth
          /\ SeenAnswers' = [SeenAnswers EXCEPT ![t] = Top(t).answers]
          /\ SeenVerdict' = [SeenVerdict EXCEPT ![t] = v]
      BY <1>2, SeenReturn
    <2>3. SeenAnswers' = SeenAnswers
      BY <2>1, <2>2, WrittenBack
    <2> QED
      BY <2>1, <2>2, <2>3 DEF Contract!Abort, Contract!MoreToAsk, Contract!Ends
  <1>3. CASE Len(stack[t]) # 1
    BY <1>3, UnseenReturn
  <1> QED
    BY <1>2, <1>3

\* A backend's answer is heard by the caller, and ends the call unless it declines.
LEMMA SeenAnswer ==
    ASSUME TypeOK, Frames, NEW t \in Threads, NEW a \in Answers, Answer(t, a)
    PROVE  Contract!Decline(t) \/ Contract!Succeed(t) \/ Contract!Fail(t) \/ UNCHANGED seen
  <1>1. Busy(t) /\ Top(t).pc # "lock"
    BY DEF Answer, InBackend
  <1>2. /\ Top(t) \in Frame /\ Top(t).answers \in Seq(Answers)
        /\ Len(Top(t).answers) < Len(Top(t).slots)
    BY <1>1, TopFrame, TopIndex DEF Frames
  <1>3. Append(Top(t).answers, a) \in Seq(Answers)
    BY <1>2, AppendProperties
  <1>4. CASE FallsThrough(a)
    <2> DEFINE f == [Top(t) EXCEPT !.answers = Append(@, a), !.pc = "lock", !.nested = 0]
    <2>1. SetTop(t, f) /\ UNCHANGED result
      BY <1>4 DEF Answer
    <2>2. f \in Frame /\ f.slots = Top(t).slots /\ f.answers = Append(Top(t).answers, a)
      BY <1>2, <1>3, AnsweredFrame
    <2> HIDE DEF f
    <2>3. CASE Len(stack[t]) = 1
      <3>1. /\ SeenOpen[t] = TRUE
            /\ SeenWidth[t] = Len(Top(t).slots) /\ SeenAnswers[t] = Top(t).answers
        BY <1>1, <2>3, SeenCall
      <3>2. /\ UNCHANGED <<SeenOpen, SeenWidth, SeenVerdict>>
            /\ SeenAnswers' = [SeenAnswers EXCEPT ![t] = f.answers]
        BY <1>1, <2>1, <2>2, <2>3, SeenMove
      <3>3. Contract!Hear(t, a)
        BY <2>2, <3>1, <3>2 DEF Contract!Hear
      <3>4. Contract!MoreToAsk(t)
        BY <1>2, <3>1 DEF Contract!MoreToAsk
      <3>5. a \in Contract!Declines
        BY <1>4 DEF Contract!Declines, FallsThrough
      <3> QED
        BY <3>2, <3>3, <3>4, <3>5 DEF Contract!Decline
    <2>4. CASE Len(stack[t]) # 1
      BY <1>1, <2>1, <2>2, <2>4, UnseenMove
    <2> QED
      BY <2>3, <2>4
  <1>5. CASE ~FallsThrough(a)
    <2>1. Return(t, Judge(a), Append(Top(t).answers, a))
      BY <1>5 DEF Answer
    <2>2. CASE Len(stack[t]) = 1
      <3>1. /\ SeenOpen[t] = TRUE
            /\ SeenWidth[t] = Len(Top(t).slots) /\ SeenAnswers[t] = Top(t).answers
        BY <1>1, <2>2, SeenCall
      <3>2. /\ SeenOpen' = [SeenOpen EXCEPT ![t] = FALSE] /\ SeenWidth' = SeenWidth
            /\ SeenAnswers' = [SeenAnswers EXCEPT ![t] = Append(Top(t).answers, a)]
            /\ SeenVerdict' = [SeenVerdict EXCEPT ![t] = Judge(a)]
        <4>1. PICK v, b : v = Judge(a) /\ b = Append(Top(t).answers, a)
          OBVIOUS
        <4>2. Return(t, v, b)
          BY <2>1, <4>1
        <4>3. /\ SeenOpen' = [SeenOpen EXCEPT ![t] = FALSE] /\ SeenWidth' = SeenWidth
              /\ SeenAnswers' = [SeenAnswers EXCEPT ![t] = b]
              /\ SeenVerdict' = [SeenVerdict EXCEPT ![t] = v]
          BY <1>1, <2>2, <4>2, SeenReturn
        <4> QED
          BY <4>1, <4>3
      <3>3. Contract!Hear(t, a)
        BY <3>1, <3>2 DEF Contract!Hear
      <3>4. Contract!MoreToAsk(t)
        BY <1>2, <3>1 DEF Contract!MoreToAsk
      <3>5. CASE Judge(a) = "ok"
        <4>1. a \in Contract!Accepted
          BY <1>5, <3>5 DEF Judge, Answers, RunAnswers, FallsThrough, Contract!Accepted
        <4> QED
          BY <3>2, <3>3, <3>4, <3>5, <4>1 DEF Contract!Succeed, Contract!Ends
      <3>6. CASE Judge(a) = "error"
        <4>1. a \in Contract!Refused
          BY <1>5, <3>6, PolicyAssumption
          DEF Judge, Answers, RunAnswers, FallsThrough, Contract!Accepted, Contract!Refused,
              Contract!Declines
        <4> QED
          BY <3>2, <3>3, <3>4, <3>6, <4>1 DEF Contract!Fail, Contract!Ends
      <3> QED
        BY <3>5, <3>6 DEF Judge
    <2>3. CASE Len(stack[t]) # 1
      BY <1>1, <2>1, <2>3, UnseenReturn
    <2> QED
      BY <2>2, <2>3
  <1> QED
    BY <1>4, <1>5

\* No list outgrows the pushes.
LEMMA NextCounted == TypeOK /\ Counted /\ [Next]_vars => Counted'
  <1> SUFFICES ASSUME TypeOK, Counted, [Next]_vars, NEW c \in Codecs
               PROVE  Len(registry'[c]) <= pushed'
    BY DEF Counted
  <1>0. \A d \in Codecs : Len(registry[d]) \in Nat /\ Len(registry[d]) <= pushed /\ pushed \in Nat
    BY LenProperties DEF TypeOK, Counted
  <1>1. ASSUME NEW d \in Codecs, NEW own, Push(d, own)
        PROVE  Len(registry'[c]) <= pushed'
    <2>1. /\ registry' = [registry EXCEPT ![d] = Append(@, pushed + 1)]
          /\ pushed' = pushed + 1 /\ pushed + 1 \in Backends
      BY <1>0, <1>1 DEF Push, Backends, TypeOK
    <2>2. Len(Append(registry[d], pushed + 1)) = Len(registry[d]) + 1
      BY <2>1, AppendProperties DEF TypeOK
    <2>3. registry'[c] = IF c = d THEN Append(registry[d], pushed + 1) ELSE registry[c]
      BY <2>1 DEF TypeOK
    <2> QED
      BY <1>0, <2>1, <2>2, <2>3
  <1>2. ASSUME NEW d \in Codecs, NEW e \in Codecs, CloneCodec(d, e)
        PROVE  Len(registry'[c]) <= pushed'
    BY <1>0, <1>2 DEF CloneCodec, TypeOK
  <1>3. CASE UNCHANGED <<registry, pushed>>
    BY <1>0, <1>3
  <1> QED
    BY <1>1, <1>2, <1>3
    DEF Next, Configure, Step, Call, Lock, LockPoisoned, Accept, Answer, RunTail, Reenter, Panic,
        Catch, vars, setup

\* Every step is a step of the contract, or invisible.
LEMMA SeenSteps == IInv /\ Counted /\ [Next]_vars => [Contract!Next]_seen
  <1> SUFFICES ASSUME IInv, Counted, [Next]_vars
               PROVE  UNCHANGED seen \/ \E t \in Threads :
                         Contract!Begin(t) \/ Contract!Enlist(t) \/ Contract!Proceed(t)
    BY DEF Contract!Next
  <1>0. TypeOK /\ Captures /\ Frames
    BY DEF IInv
  <1>1. ASSUME UNCHANGED <<stack, result>> PROVE UNCHANGED seen
    BY <1>1, UnseenStep
  <1>2. ASSUME Configure PROVE UNCHANGED seen
    BY <1>1, <1>2 DEF Configure, Push, CloneCodec
  <1>3. ASSUME NEW t \in Threads, NEW c \in Codecs, Call(t, c)
        PROVE  Contract!Begin(t)
    BY <1>0, <1>3, SeenStart
  <1>4. ASSUME NEW t \in Threads, Lock(t) PROVE UNCHANGED seen
    <2> DEFINE f == [Top(t) EXCEPT !.pc = "supports"]
    <2>1. Busy(t) /\ SetTop(t, f) /\ UNCHANGED result
      BY <1>4 DEF Lock, AtLock
    <2>2. f \in Frame /\ f.slots = Top(t).slots /\ f.answers = Top(t).answers
      BY <1>0, <2>1, TopFrame, MovedFrame
    <2> HIDE DEF f
    <2> QED
      BY <1>0, <2>1, <2>2, UnseenMove
  <1>5. ASSUME NEW t \in Threads, Accept(t) PROVE UNCHANGED seen
    <2> DEFINE f == [Top(t) EXCEPT !.pc = "run"]
    <2>1. Busy(t) /\ SetTop(t, f) /\ UNCHANGED result
      BY <1>5 DEF Accept, InBackend
    <2>2. f \in Frame /\ f.slots = Top(t).slots /\ f.answers = Top(t).answers
      BY <1>0, <2>1, TopFrame, MovedFrame
    <2> HIDE DEF f
    <2> QED
      BY <1>0, <2>1, <2>2, UnseenMove
  <1>6. ASSUME NEW t \in Threads, LockPoisoned(t) PROVE Contract!Abort(t) \/ UNCHANGED seen
    <2>1. Busy(t) /\ Return(t, "poisoned", Top(t).answers) /\ ~Exhausted(Top(t))
      BY <1>6 DEF LockPoisoned, AtLock
    <2>2. Len(Top(t).answers) < Len(Top(t).slots)
      <3>1. Len(Top(t).answers) <= Len(Top(t).slots)
        BY <1>0, <2>1, TopIndex DEF Frames
      <3>2. Len(Top(t).answers) \in Nat /\ Len(Top(t).slots) \in Nat
        BY <1>0, <2>1, TopFrame, LenProperties
      <3> QED
        BY <2>1, <3>1, <3>2 DEF Exhausted
    <2> QED
      BY <1>0, <2>1, <2>2, SeenAbort
  <1>7. ASSUME NEW t \in Threads, Panic(t) PROVE Contract!Abort(t) \/ UNCHANGED seen
    <2>1. Busy(t) /\ Return(t, "panicked", Top(t).answers)
      BY <1>7 DEF Panic, InBackend
    <2>2. Top(t).pc # "lock"
      BY <1>0, <1>7, <2>1, TopIndex DEF Panic, InBackend, Frames
    <2>3. Len(Top(t).answers) < Len(Top(t).slots)
      BY <1>0, <2>1, <2>2, TopIndex DEF Frames
    <2> QED
      BY <1>0, <2>1, <2>3, SeenAbort
  <1>8. ASSUME NEW t \in Threads, Catch(t) PROVE UNCHANGED seen
    BY <1>1, <1>8 DEF Catch
  <1>9. ASSUME NEW t \in Threads, Step(t)
        PROVE  UNCHANGED seen \/ Contract!Proceed(t)
    <2>1. \A a \in Answers : Answer(t, a) =>
             Contract!Decline(t) \/ Contract!Succeed(t) \/ Contract!Fail(t) \/ UNCHANGED seen
      BY <1>0, SeenAnswer
    <2>2. RunTail(t) => Contract!BuiltIn(t) \/ UNCHANGED seen
      BY <1>0, SeenTail
    <2>3. Reenter(t) => UNCHANGED seen
      BY <1>0, UnseenNest
    <2> QED
      BY <1>4, <1>5, <1>6, <1>7, <1>8, <1>9, <2>1, <2>2, <2>3 DEF Step, Contract!Proceed
  <1>10. CASE UNCHANGED vars
    <2>1. UNCHANGED <<stack, result>>
      BY <1>10 DEF vars
    <2> QED
      BY <1>1, <2>1
  <1> QED
    BY <1>2, <1>3, <1>9, <1>10 DEF Next

\* Every reachable step of the dispatch loops is a step of the sequential fallback
\* contract or invisible to the caller, whatever other threads lock, poison or
\* push meanwhile: the safety half of ImplementsContract.
THEOREM CallersSeeTheContract == Spec => Contract!Steps
  <1>1. Init => Contract!Init /\ Counted
    <2> SUFFICES ASSUME Init PROVE Contract!Init /\ Counted
      OBVIOUS
    <2>1. \A t \in Threads : Busy(t) = FALSE
      BY DEF Init, Busy
    <2>2. SeenOpen = [t \in Threads |-> FALSE]
      BY <2>1, Zenon DEF SeenOpen
    <2>3. SeenWidth = [t \in Threads |-> 0]
      BY <2>1 DEF Init, SeenWidth
    <2>4. SeenAnswers = [t \in Threads |-> <<>>]
      BY <2>1 DEF Init, SeenAnswers
    <2>5. SeenVerdict = [t \in Threads |-> "none"]
      BY <2>1 DEF Init, SeenVerdict
    <2>6. Counted
      BY EmptySeq DEF Init, Counted
    <2> QED
      BY <2>2, <2>3, <2>4, <2>5, <2>6 DEF Contract!Init
  <1>2. IInv /\ Counted /\ [Next]_vars => [Contract!Next]_Contract!vars
    BY SeenSteps DEF seen, Contract!vars
  <1>3. IInv /\ Counted /\ [Next]_vars => Counted'
    BY NextCounted DEF IInv
  <1> QED
    BY <1>1, <1>2, <1>3, InvariantHolds, PTL DEF Spec, Contract!Steps

==================================================================================
