---------------------------- MODULE JxlRegistry_proof ----------------------------
(* Proofs about JxlRegistry, for any number of threads, shared lists and         *)
(* backends, and for the encoder and the decoder.                              *)
EXTENDS JxlRegistry, SequenceLemmas

\* The bounds of an instance are natural numbers.
LEMMA BoundsAreNat == MaxPushes \in Nat /\ MaxCalls \in Nat /\ MaxNested \in Nat
  BY LimitsAssumption

USE BoundsAreNat

----------------------------------------------------------------------------
(* Frames. *)

\* What a step says of the frame at work of thread t.
LEMMA TopFrame ==
    ASSUME TypeOK, NEW t \in Threads, Busy(t)
    PROVE  /\ stack[t] \in Seq(Frame) /\ stack[t] # <<>>
           /\ Len(stack[t]) \in Nat /\ Len(stack[t]) > 0
           /\ DOMAIN stack[t] = 1 .. Len(stack[t])
           /\ Len(stack[t]) \in DOMAIN stack[t]
           /\ Top(t) = stack[t][Len(stack[t])]
           /\ Top(t) \in Frame
           /\ Top(t).reg \in Registries
           /\ Top(t).answers \in Seq(Answers)
           /\ Len(Top(t).answers) \in Nat
           /\ Top(t).width \in 0 .. MaxPushes
           /\ Top(t).known \in 0 .. MaxPushes
           /\ Top(t).nested \in 0 .. MaxNested
  <1>1. stack[t] \in Seq(Frame) /\ stack[t] # <<>>
    BY DEF TypeOK, Busy
  <1>2. Len(stack[t]) \in Nat /\ Len(stack[t]) > 0 /\ DOMAIN stack[t] = 1 .. Len(stack[t])
    BY <1>1, EmptySeq, LenProperties
  <1>3. Top(t) \in Frame
    BY <1>1, <1>2, ElementOfSeq DEF Top
  <1>4. Top(t).answers \in Seq(Answers)
    BY <1>3 DEF Frame
  <1>5. Len(Top(t).answers) \in Nat
    BY <1>4, LenProperties
  <1> QED
    BY <1>1, <1>2, <1>3, <1>4, <1>5 DEF Frame, Top

\* Every frame of a stack is a frame.
LEMMA EachFrame ==
    ASSUME TypeOK, NEW t \in Threads, NEW d \in DOMAIN stack[t]
    PROVE  /\ stack[t][d] \in Frame /\ Busy(t)
           /\ d \in Nat /\ d >= 1 /\ d <= Len(stack[t]) /\ Len(stack[t]) \in Nat
           /\ stack[t][d].reg \in Registries
  <1>1. stack[t] \in Seq(Frame)
    BY DEF TypeOK
  <1>2. Len(stack[t]) \in Nat /\ DOMAIN stack[t] = 1 .. Len(stack[t])
    BY <1>1, LenProperties
  <1>3. stack[t][d] \in Frame
    BY <1>1, <1>2, ElementOfSeq
  <1>4. stack[t] # <<>>
    BY <1>1, <1>2, EmptySeq
  <1> QED
    BY <1>2, <1>3, <1>4 DEF Frame, Busy

\* A list of at most MaxPushes backends is counted exactly.
LEMMA ListLength ==
    ASSUME TypeOK, Counted, NEW r \in Registries
    PROVE  /\ list[r] \in Seq(Registries \cup {NoRegistry})
           /\ Len(list[r]) \in 0 .. MaxPushes
           /\ Len(list[r]) = 0 <=> list[r] = <<>>
  <1>1. list[r] \in Seq(Registries \cup {NoRegistry})
    BY DEF TypeOK
  <1>2. Len(list[r]) \in Nat /\ (Len(list[r]) = 0 <=> list[r] = <<>>)
    BY <1>1, LenProperties, EmptySeq
  <1>3. pushed \in 0 .. MaxPushes /\ Len(list[r]) <= pushed
    BY DEF TypeOK, Counted
  <1> QED
    BY <1>1, <1>2, <1>3

\* The frame a fresh call starts with is well typed, and sound for the list it will walk.
LEMMA FreshFrame ==
    ASSUME TypeOK, Counted, NEW r \in Registries
    PROVE  /\ NewFrame(r) \in Frame
           /\ Sound(NewFrame(r), Len(list[r]))
           /\ NewFrame(r).reg = r /\ NewFrame(r).pc = "start"
           /\ NewFrame(r).width = 0 /\ NewFrame(r).answers = <<>>
  <1>1. <<>> \in Seq(Answers) /\ Len(<<>>) = 0 /\ DOMAIN <<>> = {}
    BY EmptySeq
  <1>2. Len(list[r]) \in 0 .. MaxPushes /\ 0 \in 0 .. MaxNested /\ 0 \in 0 .. MaxPushes
    BY ListLength
  <1>3. NewFrame(r) \in Frame
    BY <1>1, <1>2 DEF NewFrame, Frame
  <1>4. Sound(NewFrame(r), Len(list[r]))
    BY <1>1, <1>2 DEF NewFrame, Sound, Walking
  <1> QED
    BY <1>3, <1>4 DEF NewFrame

\* Moving the control point alone.
LEMMA MovedFrame ==
    ASSUME NEW f \in Frame, NEW pc \in {"start", "probe", "lock", "supports", "run"}
    PROVE  LET g == [f EXCEPT !.pc = pc] IN
           /\ g \in Frame /\ g.reg = f.reg /\ g.known = f.known /\ g.width = f.width
           /\ g.answers = f.answers /\ g.nested = f.nested /\ g.pc = pc
  BY DEF Frame

\* Entering the walk fixes its width.
LEMMA EnteredFrame ==
    ASSUME NEW f \in Frame, NEW n \in 0 .. MaxPushes
    PROVE  LET g == [f EXCEPT !.pc = "supports", !.width = n] IN
           /\ g \in Frame /\ g.reg = f.reg /\ g.known = f.known /\ g.width = n
           /\ g.answers = f.answers /\ g.pc = "supports"
  BY DEF Frame

\* A decline moves the cursor.
LEMMA DeclinedFrame ==
    ASSUME NEW f \in Frame, NEW s \in Seq(Answers)
    PROVE  LET g == [f EXCEPT !.pc = "supports", !.answers = s, !.nested = 0] IN
           /\ g \in Frame /\ g.reg = f.reg /\ g.known = f.known /\ g.width = f.width
           /\ g.answers = s /\ g.pc = "supports"
  <1>1. 0 \in 0 .. MaxNested
    OBVIOUS
  <1> QED
    BY <1>1 DEF Frame

\* Counting a nested call changes nothing else.
LEMMA NestingFrame ==
    ASSUME NEW f \in Frame, f.nested < MaxNested
    PROVE  LET g == [f EXCEPT !.nested = @ + 1] IN
           /\ g \in Frame /\ g.reg = f.reg /\ g.known = f.known /\ g.width = f.width
           /\ g.answers = f.answers /\ g.pc = f.pc
  <1>1. f.nested + 1 \in 0 .. MaxNested
    BY DEF Frame
  <1> QED
    BY <1>1 DEF Frame

\* A frame that differs from a sound one in its call count alone is sound.
LEMMA SoundAlike ==
    ASSUME NEW f, NEW g, NEW n, Sound(f, n),
           g.known = f.known, g.width = f.width, g.answers = f.answers, g.pc = f.pc
    PROVE  Sound(g, n)
  BY DEF Sound

----------------------------------------------------------------------------
(* What a step does to one thread's stack.  n is the depth of the frame at work. *)

Pops(t) == stack' = [stack EXCEPT ![t] = Front(@)]

\* A return removes the frame at work.
LEMMA PoppedStack ==
    ASSUME TypeOK, NEW t \in Threads, Busy(t), Pops(t)
    PROVE  /\ stack' \in [Threads -> Seq(Frame)]
           /\ \A u \in Threads : u # t => stack'[u] = stack[u]
           /\ Len(stack'[t]) = Len(stack[t]) - 1
           /\ DOMAIN stack'[t] = 1 .. Len(stack[t]) - 1
           /\ \A d \in DOMAIN stack'[t] : stack'[t][d] = stack[t][d]
           /\ stack'[t] = <<>> <=> Len(stack[t]) = 1
  <1>1. stack \in [Threads -> Seq(Frame)] /\ stack[t] # <<>>
    BY DEF TypeOK, Busy
  <1>2. /\ stack' \in [Threads -> Seq(Frame)]
        /\ \A u \in Threads : u # t => stack'[u] = stack[u]
        /\ Len(stack'[t]) = Len(stack[t]) - 1
        /\ DOMAIN stack'[t] = 1 .. Len(stack[t]) - 1
        /\ \A d \in 1 .. Len(stack[t]) - 1 : stack'[t][d] = stack[t][d]
    BY <1>1, MapPopped DEF Pops
  <1>3. stack'[t] = <<>> <=> Len(stack'[t]) = 0
    BY <1>2, EmptySeq
  <1> QED
    BY <1>2, <1>3, TopFrame

\* A call that moves on replaces the frame at work.
LEMMA SetTopStack ==
    ASSUME TypeOK, NEW t \in Threads, Busy(t), NEW f \in Frame, SetTop(t, f)
    PROVE  /\ stack' \in [Threads -> Seq(Frame)]
           /\ \A u \in Threads : u # t => stack'[u] = stack[u]
           /\ Len(stack'[t]) = Len(stack[t])
           /\ DOMAIN stack'[t] = DOMAIN stack[t]
           /\ stack'[t] # <<>>
           /\ stack'[t][Len(stack[t])] = f
           /\ \A d \in DOMAIN stack[t] : d # Len(stack[t]) => stack'[t][d] = stack[t][d]
  <1>1. stack \in [Threads -> Seq(Frame)] /\ stack[t] # <<>>
    BY DEF TypeOK, Busy
  <1>2. /\ stack' \in [Threads -> Seq(Frame)]
        /\ \A u \in Threads : u # t => stack'[u] = stack[u]
        /\ Len(stack'[t]) = Len(stack[t])
        /\ DOMAIN stack'[t] = 1 .. Len(stack[t])
        /\ stack'[t] # <<>>
        /\ stack'[t][Len(stack[t])] = f
        /\ \A d \in 1 .. Len(stack[t]) - 1 : stack'[t][d] = stack[t][d]
    BY <1>1, MapRetopped DEF SetTop
  <1>3. Len(stack[t]) \in Nat /\ DOMAIN stack[t] = 1 .. Len(stack[t])
    BY TopFrame
  <1>4. \A d \in DOMAIN stack[t] : d # Len(stack[t]) => d \in 1 .. Len(stack[t]) - 1
    BY <1>3
  <1> QED
    BY <1>2, <1>3, <1>4, Zenon

\* The state of a stack after a nested call, in terms of the frames f (at work
\* before) and g (the new call).
Nests(t, f, g) == stack' = [stack EXCEPT ![t] = Append([@ EXCEPT ![Len(@)] = f], g)]

\* A nested call puts a frame on the one that runs it.
LEMMA NestedStack ==
    ASSUME TypeOK, NEW t \in Threads, Busy(t), NEW f \in Frame, NEW g \in Frame, Nests(t, f, g)
    PROVE  /\ stack' \in [Threads -> Seq(Frame)]
           /\ \A u \in Threads : u # t => stack'[u] = stack[u]
           /\ Len(stack'[t]) = Len(stack[t]) + 1
           /\ DOMAIN stack'[t] = 1 .. Len(stack[t]) + 1
           /\ stack'[t] # <<>>
           /\ stack'[t][Len(stack[t]) + 1] = g
           /\ stack'[t][Len(stack[t])] = f
           /\ \A d \in DOMAIN stack[t] : d # Len(stack[t]) => stack'[t][d] = stack[t][d]
  <1>1. stack \in [Threads -> Seq(Frame)] /\ stack[t] # <<>>
    BY DEF TypeOK, Busy
  <1>2. /\ stack' \in [Threads -> Seq(Frame)]
        /\ \A u \in Threads : u # t => stack'[u] = stack[u]
        /\ Len(stack'[t]) = Len(stack[t]) + 1
        /\ DOMAIN stack'[t] = 1 .. Len(stack[t]) + 1
        /\ stack'[t] # <<>>
        /\ stack'[t][Len(stack[t]) + 1] = g
        /\ stack'[t][Len(stack[t])] = f
        /\ \A d \in 1 .. Len(stack[t]) - 1 : stack'[t][d] = stack[t][d]
    BY <1>1, MapRepushed DEF Nests
  <1>3. \A d \in DOMAIN stack[t] : d # Len(stack[t]) => d \in 1 .. Len(stack[t]) - 1
    BY TopFrame
  <1> QED
    BY <1>2, <1>3

----------------------------------------------------------------------------
(* Frames: what each change of a stack keeps.  The lists do not change. *)

\* A thread whose stack does not move keeps its frames.
LEMMA StillFrames ==
    ASSUME NEW u \in Threads, FramesOf(u), UNCHANGED list,
           stack'[u] = stack[u], unwinding'[u] => unwinding[u]
    PROVE  FramesOf(u)'
  BY DEF FramesOf, Busy

\* A return uncovers a call that is inside a backend.
LEMMA PoppedFrames ==
    ASSUME TypeOK, Frames, UNCHANGED list, NEW t \in Threads, Busy(t), Pops(t),
           \A u \in Threads : u # t => unwinding'[u] = unwinding[u],
           unwinding'[t] => Len(stack[t]) > 1
    PROVE  Frames'
  <1>1. ASSUME NEW u \in Threads, u # t PROVE FramesOf(u)'
    BY <1>1, PoppedStack, StillFrames DEF Frames
  <1>2. FramesOf(t)'
    <2>1. unwinding'[t] => stack'[t] # <<>>
      BY PoppedStack, TopFrame
    <2>2. ASSUME NEW d \in DOMAIN stack'[t]
          PROVE  Sound(stack'[t][d], Len(list'[stack'[t][d].reg])) /\ Inside(stack'[t][d])
      <3>1. d \in DOMAIN stack[t] /\ d < Len(stack[t]) /\ stack'[t][d] = stack[t][d]
        BY PoppedStack, TopFrame
      <3> QED
        BY <3>1 DEF Frames, FramesOf
    <2> QED
      BY <2>1, <2>2 DEF FramesOf, Busy
  <1> QED
    BY <1>1, <1>2 DEF Frames

\* A call at work that moves on stays sound.
LEMMA MovedFrames ==
    ASSUME TypeOK, Frames, UNCHANGED <<list, unwinding>>, NEW t \in Threads, Busy(t),
           ~unwinding[t], NEW f \in Frame, SetTop(t, f), Sound(f, Len(list[f.reg]))
    PROVE  Frames'
  <1>1. ASSUME NEW u \in Threads, u # t PROVE FramesOf(u)'
    BY <1>1, SetTopStack, StillFrames DEF Frames
  <1>2. FramesOf(t)'
    <2>1. ASSUME NEW d \in DOMAIN stack'[t]
          PROVE  /\ Sound(stack'[t][d], Len(list'[stack'[t][d].reg]))
                 /\ d < Len(stack'[t]) => Inside(stack'[t][d])
      <3>1. CASE d = Len(stack[t])
        BY <3>1, SetTopStack, TopFrame
      <3>2. CASE d # Len(stack[t])
        <4>1. d \in DOMAIN stack[t] /\ stack'[t][d] = stack[t][d] /\ Len(stack'[t]) = Len(stack[t])
          BY <3>2, SetTopStack
        <4> QED
          BY <4>1 DEF Frames, FramesOf
      <3> QED
        BY <3>1, <3>2
    <2> QED
      BY <2>1 DEF FramesOf
  <1> QED
    BY <1>1, <1>2 DEF Frames

\* A nested call is made from inside a backend.
LEMMA NestedFrames ==
    ASSUME TypeOK, Frames, UNCHANGED <<list, unwinding>>, NEW t \in Threads, Busy(t),
           ~unwinding[t], NEW f \in Frame, NEW g \in Frame, Nests(t, f, g),
           Sound(f, Len(list[f.reg])), Inside(f), Sound(g, Len(list[g.reg]))
    PROVE  Frames'
  <1>1. ASSUME NEW u \in Threads, u # t PROVE FramesOf(u)'
    BY <1>1, NestedStack, StillFrames DEF Frames
  <1>2. FramesOf(t)'
    <2>1. ASSUME NEW d \in DOMAIN stack'[t]
          PROVE  /\ Sound(stack'[t][d], Len(list'[stack'[t][d].reg]))
                 /\ d < Len(stack'[t]) => Inside(stack'[t][d])
      <3>1. CASE d = Len(stack[t]) + 1
        BY <3>1, NestedStack, TopFrame
      <3>2. CASE d = Len(stack[t])
        BY <3>2, NestedStack, TopFrame
      <3>3. CASE d # Len(stack[t]) /\ d # Len(stack[t]) + 1
        <4>1. d \in DOMAIN stack[t] /\ d < Len(stack[t])
          BY <3>3, NestedStack, TopFrame
        <4>2. stack'[t][d] = stack[t][d]
          BY <3>3, <4>1, NestedStack
        <4> QED
          BY <4>1, <4>2 DEF Frames, FramesOf
      <3> QED
        BY <3>1, <3>2, <3>3
    <2> QED
      BY <2>1 DEF FramesOf
  <1> QED
    BY <1>1, <1>2 DEF Frames

----------------------------------------------------------------------------
(* The mutexes: what each change of a stack does to the walks. *)

SameWalks == \A u \in Threads, r \in Registries : Walks(u, r)' = Walks(u, r)

\* Only a walk that begins or ends can matter to the mutexes.
LEMMA MutexStays ==
    ASSUME Mutex, SameWalks, UNCHANGED owner
    PROVE  Mutex'
  BY DEF Mutex, SameWalks

\* A call that moves on without entering or leaving its walk.
LEMMA MovedWalks ==
    ASSUME TypeOK, NEW t \in Threads, Busy(t), NEW f \in Frame, SetTop(t, f),
           f.reg = Top(t).reg, f.pc \in Walking <=> Top(t).pc \in Walking
    PROVE  SameWalks
  <1> SUFFICES ASSUME NEW u \in Threads, NEW r \in Registries PROVE Walks(u, r)' = Walks(u, r)
    BY DEF SameWalks
  <1>1. CASE u # t
    BY <1>1, SetTopStack DEF Walks
  <1>2. CASE u = t
    <2>1. \A d \in DOMAIN stack[t] :
             /\ stack'[t][d].reg = stack[t][d].reg
             /\ stack'[t][d].pc \in Walking <=> stack[t][d].pc \in Walking
      BY SetTopStack, TopFrame
    <2> QED
      BY <1>2, <2>1, SetTopStack DEF Walks
  <1> QED
    BY <1>1, <1>2

\* A call that returns before its walk.
LEMMA PoppedWalks ==
    ASSUME TypeOK, NEW t \in Threads, Busy(t), Pops(t), Top(t).pc \notin Walking
    PROVE  SameWalks
  <1> SUFFICES ASSUME NEW u \in Threads, NEW r \in Registries PROVE Walks(u, r)' = Walks(u, r)
    BY DEF SameWalks
  <1>1. CASE u # t
    BY <1>1, PoppedStack DEF Walks
  <1>2. CASE u = t
    <2>1. \A d \in DOMAIN stack[t] : stack[t][d].pc \in Walking =>
             d \in DOMAIN stack'[t] /\ stack'[t][d] = stack[t][d]
      BY PoppedStack, TopFrame
    <2>2. \A d \in DOMAIN stack'[t] : d \in DOMAIN stack[t] /\ stack'[t][d] = stack[t][d]
      BY PoppedStack, TopFrame
    <2> QED
      BY <1>2, <2>1, <2>2 DEF Walks
  <1> QED
    BY <1>1, <1>2

\* A nested call has not begun its walk.
LEMMA NestedWalks ==
    ASSUME TypeOK, NEW t \in Threads, Busy(t), NEW f \in Frame, NEW g \in Frame,
           Nests(t, f, g), f.reg = Top(t).reg, f.pc = Top(t).pc, g.pc \notin Walking
    PROVE  SameWalks
  <1> SUFFICES ASSUME NEW u \in Threads, NEW r \in Registries PROVE Walks(u, r)' = Walks(u, r)
    BY DEF SameWalks
  <1>1. CASE u # t
    BY <1>1, NestedStack DEF Walks
  <1>2. CASE u = t
    <2>1. \A d \in DOMAIN stack[t] :
             /\ d \in DOMAIN stack'[t]
             /\ stack'[t][d].reg = stack[t][d].reg /\ stack'[t][d].pc = stack[t][d].pc
      BY NestedStack, TopFrame
    <2>2. \A d \in DOMAIN stack'[t] : stack'[t][d].pc \in Walking => d \in DOMAIN stack[t]
      BY NestedStack, TopFrame
    <2> QED
      BY <1>2, <2>1, <2>2 DEF Walks
  <1> QED
    BY <1>1, <1>2

\* Where the walks of a list change, so does its owner: the walk of thread t at
\* depth n on list s begins.
LEMMA MutexTaken ==
    ASSUME TypeOK, Mutex, NEW t \in Threads, NEW s \in Registries, Free(s), NEW n,
           owner' = [owner EXCEPT ![s] = t],
           Walks(t, s)' = Walks(t, s) \cup {n},
           \A u \in Threads, r \in Registries : u # t \/ r # s => Walks(u, r)' = Walks(u, r)
    PROVE  Mutex'
  <1> SUFFICES ASSUME NEW u \in Threads, NEW r \in Registries
               PROVE  /\ Walks(u, r)' # {} <=> owner'[r] = u
                      /\ \A d, e \in Walks(u, r)' : d = e
    BY DEF Mutex
  <1>1. owner'[s] = t /\ \A q \in Registries : q # s => owner'[q] = owner[q]
    BY DEF TypeOK
  <1>2. \A v \in Threads : Walks(v, s) = {}
    BY NamesAssumption DEF Mutex, Free
  <1>3. CASE r # s
    BY <1>1, <1>3 DEF Mutex
  <1>4. CASE r = s /\ u # t
    BY <1>1, <1>2, <1>4
  <1>5. CASE r = s /\ u = t
    <2>1. Walks(t, s)' = {n}
      BY <1>2
    <2> QED
      BY <1>1, <1>5, <2>1
  <1> QED
    BY <1>3, <1>4, <1>5

\* ... or ends.
LEMMA MutexReleased ==
    ASSUME TypeOK, Mutex, NEW t \in Threads, NEW s \in Registries, NEW n,
           n \in Walks(t, s), Unlock(s),
           Walks(t, s)' = Walks(t, s) \ {n},
           \A u \in Threads, r \in Registries : u # t \/ r # s => Walks(u, r)' = Walks(u, r)
    PROVE  Mutex'
  <1> SUFFICES ASSUME NEW u \in Threads, NEW r \in Registries
               PROVE  /\ Walks(u, r)' # {} <=> owner'[r] = u
                      /\ \A d, e \in Walks(u, r)' : d = e
    BY DEF Mutex
  <1>1. owner'[s] = NoThread /\ \A q \in Registries : q # s => owner'[q] = owner[q]
    BY DEF TypeOK, Unlock
  <1>2. owner[s] = t /\ Walks(t, s) = {n}
    BY DEF Mutex
  <1>3. CASE r # s
    BY <1>1, <1>3 DEF Mutex
  <1>4. CASE r = s /\ u # t
    BY <1>1, <1>2, <1>4, NamesAssumption DEF Mutex
  <1>5. CASE r = s /\ u = t
    BY <1>1, <1>2, <1>5, NamesAssumption
  <1> QED
    BY <1>3, <1>4, <1>5

\* Registry::lock makes the frame at work the one walk of its list.
LEMMA LockedMutex ==
    ASSUME TypeOK, Mutex, NEW t \in Threads, Busy(t), Top(t).pc \notin Walking, Free(Top(t).reg),
           owner' = [owner EXCEPT ![Top(t).reg] = t],
           NEW f \in Frame, SetTop(t, f), f.reg = Top(t).reg, f.pc \in Walking
    PROVE  Mutex'
  <1>s. PICK s \in Registries : s = Top(t).reg
    BY TopFrame
  <1>n. PICK n \in Nat : n = Len(stack[t])
    BY TopFrame
  <1>0. Free(s) /\ owner' = [owner EXCEPT ![s] = t]
    BY <1>s
  <1>1. \A u \in Threads, r \in Registries : u # t => Walks(u, r)' = Walks(u, r)
    BY SetTopStack DEF Walks
  <1>2. \A r \in Registries : Walks(t, r)' = Walks(t, r) \cup (IF r = s THEN {n} ELSE {})
    <2> SUFFICES ASSUME NEW r \in Registries
                 PROVE  Walks(t, r)' = Walks(t, r) \cup (IF r = s THEN {n} ELSE {})
      OBVIOUS
    <2>1. /\ DOMAIN stack'[t] = DOMAIN stack[t] /\ n \in DOMAIN stack[t]
          /\ stack'[t][n].reg = s /\ stack'[t][n].pc \in Walking
          /\ stack[t][n].reg = s /\ stack[t][n].pc \notin Walking
          /\ \A d \in DOMAIN stack[t] : d # n => stack'[t][d] = stack[t][d]
      BY <1>s, <1>n, SetTopStack, TopFrame
    <2> QED
      BY <2>1 DEF Walks
  <1>3. Walks(t, s)' = Walks(t, s) \cup {n} /\ \A r \in Registries : r # s => Walks(t, r)' = Walks(t, r)
    BY <1>0, <1>2
  <1>4. \A u \in Threads, r \in Registries : u # t \/ r # s => Walks(u, r)' = Walks(u, r)
    BY <1>1, <1>3
  <1> QED
    BY <1>0, <1>3, <1>4, MutexTaken

\* The guard of a walk goes out of scope with its frame.
LEMMA UnlockedMutex ==
    ASSUME TypeOK, Mutex, NEW t \in Threads, Busy(t), Top(t).pc \in Walking,
           Unlock(Top(t).reg), Pops(t)
    PROVE  Mutex'
  <1>s. PICK s \in Registries : s = Top(t).reg
    BY TopFrame
  <1>n. PICK n \in Nat : n = Len(stack[t])
    BY TopFrame
  <1>0. Unlock(s)
    BY <1>s
  <1>1. \A u \in Threads, r \in Registries : u # t => Walks(u, r)' = Walks(u, r)
    BY PoppedStack DEF Walks
  <1>2. /\ DOMAIN stack'[t] = DOMAIN stack[t] \ {n} /\ n \in DOMAIN stack[t]
        /\ stack[t][n].reg = s /\ stack[t][n].pc \in Walking
        /\ \A d \in DOMAIN stack'[t] : stack'[t][d] = stack[t][d]
    BY <1>s, <1>n, PoppedStack, TopFrame
  <1>3. \A r \in Registries : Walks(t, r)' = Walks(t, r) \ {n}
    BY <1>2 DEF Walks
  <1>4. n \in Walks(t, s) /\ \A r \in Registries : r # s => n \notin Walks(t, r)
    BY <1>2 DEF Walks
  <1>5. Walks(t, s)' = Walks(t, s) \ {n} /\ \A r \in Registries : r # s => Walks(t, r)' = Walks(t, r)
    BY <1>0, <1>3, <1>4
  <1> QED
    BY <1>0, <1>1, <1>4, <1>5, MutexReleased

----------------------------------------------------------------------------
(* Results. *)

\* A call that returns leaves a well-typed result, and a tail that was not vetoed
\* is reported with the answers that led to it.
LEMMA Returned ==
    ASSUME TypeOK, PushIsSeen, NEW t \in Threads, Busy(t), NEW v \in Verdicts,
           NEW f \in Frame, Return(t, v, f),
           v = "tail" => /\ Len(f.answers) >= f.known
                         /\ \A k \in DOMAIN f.answers : FallsThrough(f.answers[k])
    PROVE  /\ Pops(t) /\ stack' \in [Threads -> Seq(Frame)]
           /\ result' \in [Threads -> Ending]
           /\ PushIsSeen'
  <1> DEFINE e == [verdict |-> v, known |-> f.known, width |-> f.width, answers |-> f.answers]
  <1>1. Pops(t) /\ stack' \in [Threads -> Seq(Frame)]
    BY PoppedStack DEF Return, Pops
  <1>2. /\ e \in Ending /\ e.verdict = v /\ e.known = f.known /\ e.answers = f.answers
    BY DEF Ending, Frame
  <1>3. result' = result \/ result' = [result EXCEPT ![t] = e]
    BY DEF Return
  <1> HIDE DEF e
  <1>4. result' \in [Threads -> Ending]
    BY <1>2, <1>3 DEF TypeOK
  <1>5. \A u \in Threads : result'[u] = result[u] \/ result'[u] = e
    BY <1>3 DEF TypeOK
  <1>6. PushIsSeen'
    <2> SUFFICES ASSUME NEW u \in Threads, result'[u].verdict = "tail"
                 PROVE  /\ Len(result'[u].answers) >= result'[u].known
                        /\ \A k \in DOMAIN result'[u].answers : FallsThrough(result'[u].answers[k])
      BY DEF PushIsSeen
    <2>1. CASE result'[u] = result[u]
      BY <2>1 DEF PushIsSeen
    <2>2. CASE result'[u] = e
      BY <1>2, <2>2
    <2> QED
      BY <1>5, <2>1, <2>2
  <1> QED
    BY <1>1, <1>4, <1>6

\* Adding the answer that ends a walk to its frame keeps the frame's type.
LEMMA EndedFrame ==
    ASSUME NEW f \in Frame, NEW a \in Answers
    PROVE  /\ Append(f.answers, a) \in Seq(Answers)
           /\ [f EXCEPT !.answers = Append(@, a)] \in Frame
  <1>1. f.answers \in Seq(Answers)
    BY DEF Frame
  <1>2. Append(f.answers, a) \in Seq(Answers)
    BY <1>1, AppendProperties
  <1> QED
    BY <1>2 DEF Frame

\* Giving a verdict the host's name keeps it one.
LEMMA JudgedVerdict ==
    ASSUME NEW a \in Answers
    PROVE  Judge(a) \in Verdicts /\ Judge(a) \in {"ok", "error"}
  BY DEF Judge, Verdicts

\* The frame at work is sound.
LEMMA TopSound ==
    ASSUME TypeOK, Frames, NEW t \in Threads, Busy(t)
    PROVE  /\ Sound(Top(t), Len(list[Top(t).reg]))
           /\ unwinding[t] => Inside(Top(t))
  BY TopFrame DEF Frames, FramesOf

----------------------------------------------------------------------------
(* The invariant. *)

\* It holds initially.
LEMMA InitInvariant == Init => IInv
  <1> SUFFICES ASSUME Init PROVE IInv
    OBVIOUS
  <1>1. /\ <<>> \in Seq(Registries \cup {NoRegistry}) /\ <<>> \in Seq(Frame)
        /\ <<>> \in Seq(Answers) /\ Len(<<>>) = 0 /\ DOMAIN <<>> = {}
    BY EmptySeq
  <1>2. [verdict |-> "none", known |-> 0, width |-> 0, answers |-> <<>>] \in Ending
    BY <1>1 DEF Ending, Verdicts
  <1>3. TypeOK
    BY <1>1, <1>2 DEF Init, TypeOK
  <1>4. Counted
    BY <1>1 DEF Init, Counted
  <1>5. Frames
    BY <1>1 DEF Init, Frames, FramesOf
  <1>6. Mutex
    BY <1>1, NamesAssumption DEF Init, Mutex, Walks
  <1>7. PushIsSeen
    BY DEF Init, PushIsSeen
  <1> QED
    BY <1>3, <1>4, <1>5, <1>6, <1>7 DEF IInv

\* A call that moves on with its mutexes as they are.
LEMMA MoveKeeps ==
    ASSUME IInv, NEW t \in Threads, Busy(t), ~unwinding[t], NEW f \in Frame, SetTop(t, f),
           f.reg = Top(t).reg, Sound(f, Len(list[f.reg])),
           f.pc \in Walking <=> Top(t).pc \in Walking,
           UNCHANGED <<list, pushed, owner, poisoned, unwinding, calls, result>>
    PROVE  IInv'
  <1>1. TypeOK /\ Counted /\ Frames /\ Mutex /\ PushIsSeen
    BY DEF IInv
  <1>2. TypeOK'
    BY <1>1, SetTopStack DEF TypeOK
  <1>3. Frames'
    BY <1>1, MovedFrames
  <1>4. Mutex'
    BY <1>1, MovedWalks, MutexStays
  <1> QED
    BY <1>1, <1>2, <1>3, <1>4 DEF IInv, Counted, PushIsSeen

\* A call that returns without having locked its list.
LEMMA EarlyReturnKeeps ==
    ASSUME IInv, NEW t \in Threads, Busy(t), ~unwinding[t], Top(t).pc \notin Walking,
           NEW v \in Verdicts, NEW f \in Frame, Return(t, v, f),
           v = "tail" => /\ Len(f.answers) >= f.known
                         /\ \A k \in DOMAIN f.answers : FallsThrough(f.answers[k]),
           UNCHANGED <<list, pushed, owner, poisoned, unwinding, calls>>
    PROVE  IInv'
  <1>1. TypeOK /\ Counted /\ Frames /\ Mutex /\ PushIsSeen
    BY DEF IInv
  <1>2. /\ Pops(t) /\ stack' \in [Threads -> Seq(Frame)]
        /\ result' \in [Threads -> Ending] /\ PushIsSeen'
    BY <1>1, Returned
  <1>3. TypeOK'
    BY <1>1, <1>2 DEF TypeOK
  <1>4. Frames'
    BY <1>1, <1>2, PoppedFrames
  <1>5. Mutex'
    BY <1>1, <1>2, PoppedWalks, MutexStays
  <1> QED
    BY <1>1, <1>2, <1>3, <1>4, <1>5 DEF IInv, Counted

\* A call that returns from its walk, and unlocks the list.
LEMMA WalkReturnKeeps ==
    ASSUME IInv, NEW t \in Threads, Busy(t), Top(t).pc \in Walking, Unlock(Top(t).reg),
           NEW v \in Verdicts, NEW f \in Frame, Return(t, v, f),
           v = "tail" => /\ Len(f.answers) >= f.known
                         /\ \A k \in DOMAIN f.answers : FallsThrough(f.answers[k]),
           poisoned' \in [Registries -> BOOLEAN],
           unwinding' \in [Threads -> BOOLEAN],
           \A u \in Threads : u # t => unwinding'[u] = unwinding[u],
           unwinding'[t] => Len(stack[t]) > 1,
           UNCHANGED <<list, pushed, calls>>
    PROVE  IInv'
  <1>1. TypeOK /\ Counted /\ Frames /\ Mutex /\ PushIsSeen
    BY DEF IInv
  <1>2. /\ Pops(t) /\ stack' \in [Threads -> Seq(Frame)]
        /\ result' \in [Threads -> Ending] /\ PushIsSeen'
    BY <1>1, Returned
  <1>3. owner' \in [Registries -> Threads \cup {NoThread}]
    BY <1>1 DEF Unlock, TypeOK
  <1>4. TypeOK'
    BY <1>1, <1>2, <1>3 DEF TypeOK
  <1>5. Frames'
    BY <1>1, <1>2, PoppedFrames
  <1>6. Mutex'
    BY <1>1, <1>2, UnlockedMutex
  <1> QED
    BY <1>1, <1>2, <1>4, <1>5, <1>6 DEF IInv, Counted

\* A push lengthens a list that no call walks.
LEMMA PushKeeps ==
    ASSUME IInv, NEW r \in Registries, NEW own \in Registries \cup {NoRegistry}, Push(r, own)
    PROVE  IInv'
  <1>1. TypeOK /\ Counted /\ Frames /\ Mutex /\ PushIsSeen
    BY DEF IInv
  <1>2. /\ list[r] \in Seq(Registries \cup {NoRegistry}) /\ Len(list[r]) \in Nat
        /\ pushed \in Nat /\ pushed + 1 \in 0 .. MaxPushes
    BY <1>1, ListLength DEF Push, TypeOK
  <1>3. /\ Append(list[r], own) \in Seq(Registries \cup {NoRegistry})
        /\ Len(Append(list[r], own)) = Len(list[r]) + 1
    BY <1>2, AppendProperties
  <1>4. /\ list' \in [Registries -> Seq(Registries \cup {NoRegistry})]
        /\ Len(list'[r]) = Len(list[r]) + 1
        /\ \A q \in Registries : q # r => list'[q] = list[q]
        /\ pushed' = pushed + 1
        /\ UNCHANGED <<owner, poisoned, stack, unwinding, calls, result>>
    BY <1>1, <1>3 DEF Push, TypeOK
  <1>5. TypeOK'
    BY <1>1, <1>2, <1>4 DEF TypeOK
  <1>6. Counted'
    <2> SUFFICES ASSUME NEW q \in Registries PROVE Len(list'[q]) <= pushed'
      BY DEF Counted
    <2>1. Len(list[q]) <= pushed /\ Len(list[q]) \in Nat
      BY <1>1, ListLength DEF Counted
    <2> QED
      BY <1>2, <1>4, <2>1
  <1>7. Frames'
    <2> SUFFICES ASSUME NEW u \in Threads PROVE FramesOf(u)'
      BY DEF Frames
    <2>1. ASSUME NEW d \in DOMAIN stack[u]
          PROVE  Sound(stack[u][d], Len(list'[stack[u][d].reg]))
      <3>1. stack[u][d].reg \in Registries /\ stack[u][d] \in Frame
        BY <1>1, EachFrame
      <3>2. Sound(stack[u][d], Len(list[stack[u][d].reg]))
        BY <1>1 DEF Frames, FramesOf
      <3>3. CASE stack[u][d].reg # r
        BY <1>4, <3>1, <3>2, <3>3
      <3>4. CASE stack[u][d].reg = r
        <4>1. stack[u][d].pc \notin Walking
          <5>1. SUFFICES ASSUME stack[u][d].pc \in Walking PROVE FALSE
            OBVIOUS
          <5>2. d \in Walks(u, r)
            BY <3>4, <5>1 DEF Walks
          <5>3. owner[r] = u
            BY <1>1, <5>2 DEF Mutex
          <5> QED
            BY <5>3, NamesAssumption DEF Push, Free
        <4>2. stack[u][d].known \in Nat
          BY <3>1 DEF Frame
        <4>3. stack[u][d].known <= Len(list'[r])
          BY <1>2, <1>4, <3>2, <3>4, <4>1, <4>2 DEF Sound
        <4> QED
          BY <3>2, <3>4, <4>1, <4>3 DEF Sound, Walking
      <3> QED
        BY <3>3, <3>4
    <2> QED
      BY <1>1, <1>4, <2>1 DEF Frames, FramesOf, Busy
  <1>8. Mutex'
    BY <1>1, <1>4 DEF Mutex, Walks
  <1>9. PushIsSeen'
    BY <1>1, <1>4 DEF PushIsSeen
  <1> QED
    BY <1>5, <1>6, <1>7, <1>8, <1>9 DEF IInv

\* An outermost call starts outside every list.
LEMMA CallKeeps ==
    ASSUME IInv, NEW t \in Threads, NEW r \in Registries, Call(t, r)
    PROVE  IInv'
  <1> DEFINE g == NewFrame(r)
  <1>1. TypeOK /\ Counted /\ Frames /\ Mutex /\ PushIsSeen
    BY DEF IInv
  <1>2. g \in Frame /\ Sound(g, Len(list[r])) /\ g.reg = r /\ g.pc = "start"
    BY <1>1, FreshFrame
  <1>3. /\ ~Busy(t) /\ stack' = [stack EXCEPT ![t] = <<g>>]
        /\ calls' = [calls EXCEPT ![t] = @ + 1] /\ calls[t] < MaxCalls
        /\ UNCHANGED <<list, pushed, owner, poisoned, unwinding, result>>
    BY DEF Call, lists
  <1> HIDE DEF g
  <1>4. <<g>> \in Seq(Frame) /\ Len(<<g>>) = 1 /\ DOMAIN <<g>> = {1} /\ <<g>>[1] = g
    BY <1>2
  <1>5. /\ \A u \in Threads : u # t => stack'[u] = stack[u]
        /\ stack'[t] = <<g>> /\ stack' \in [Threads -> Seq(Frame)]
    BY <1>1, <1>3, <1>4 DEF TypeOK
  <1>6. calls' \in [Threads -> 0 .. MaxCalls]
    BY <1>1, <1>3 DEF TypeOK
  <1>7. TypeOK'
    BY <1>1, <1>3, <1>5, <1>6 DEF TypeOK
  <1>8. ~unwinding[t] /\ stack[t] = <<>>
    BY <1>1, <1>3 DEF Frames, FramesOf, Busy
  <1>9. Frames'
    <2>1. ASSUME NEW u \in Threads, u # t PROVE FramesOf(u)'
      BY <1>1, <1>3, <1>5, <2>1, StillFrames DEF Frames
    <2>2. FramesOf(t)'
      BY <1>2, <1>3, <1>4, <1>5, <1>8 DEF FramesOf, Busy
    <2> QED
      BY <2>1, <2>2 DEF Frames
  <1>10. SameWalks
    <2> SUFFICES ASSUME NEW u \in Threads, NEW q \in Registries PROVE Walks(u, q)' = Walks(u, q)
      BY DEF SameWalks
    <2>1. CASE u # t
      BY <1>5, <2>1 DEF Walks
    <2>2. CASE u = t
      <3>1. Walks(t, q) = {}
        BY <1>8, EmptySeq DEF Walks
      <3>2. Walks(t, q)' = {}
        BY <1>2, <1>4, <1>5 DEF Walks, Walking
      <3> QED
        BY <2>2, <3>1, <3>2
    <2> QED
      BY <2>1, <2>2
  <1>11. Mutex'
    BY <1>1, <1>3, <1>10, MutexStays
  <1> QED
    BY <1>1, <1>3, <1>7, <1>9, <1>11 DEF IInv, Counted, PushIsSeen

\* A backend's own call starts outside every list, too.
LEMMA ReenterKeeps ==
    ASSUME IInv, NEW t \in Threads, Reenter(t)
    PROVE  IInv'
  <1> DEFINE f == [Top(t) EXCEPT !.nested = @ + 1]
             own == list[Top(t).reg][Len(Top(t).answers) + 1]
             g == NewFrame(own)
  <1>1. TypeOK /\ Counted /\ Frames /\ Mutex /\ PushIsSeen
    BY DEF IInv
  <1>2. /\ Busy(t) /\ ~unwinding[t] /\ Top(t).pc \in Walking
        /\ Len(Top(t).answers) # Top(t).width /\ Top(t).nested < MaxNested
        /\ own # NoRegistry /\ Nests(t, f, g)
        /\ UNCHANGED <<list, pushed, owner, poisoned, unwinding, calls, result>>
    BY DEF Reenter, InBackend, At, Exhausted, Nests, Walking, lists
  <1>3. Sound(Top(t), Len(list[Top(t).reg]))
    BY <1>1, <1>2, TopSound
  <1>4. /\ Top(t) \in Frame /\ Top(t).reg \in Registries
        /\ Len(Top(t).answers) \in Nat /\ Top(t).width \in 0 .. MaxPushes
    BY <1>1, <1>2, TopFrame
  <1>5. Len(Top(t).answers) < Top(t).width /\ Top(t).width = Len(list[Top(t).reg])
    BY <1>2, <1>3, <1>4 DEF Sound
  <1>6. own \in Registries
    <2>1. list[Top(t).reg] \in Seq(Registries \cup {NoRegistry})
      BY <1>1, <1>4, ListLength
    <2>2. Len(Top(t).answers) + 1 \in 1 .. Len(list[Top(t).reg])
      BY <1>4, <1>5
    <2>3. own \in Registries \cup {NoRegistry}
      BY <2>1, <2>2, ElementOfSeq
    <2> QED
      BY <1>2, <2>3
  <1> HIDE DEF own
  <1>7. g \in Frame /\ Sound(g, Len(list[g.reg])) /\ g.pc = "start"
    BY <1>1, <1>6, FreshFrame
  <1>8. /\ f \in Frame /\ f.reg = Top(t).reg /\ f.known = Top(t).known
        /\ f.width = Top(t).width /\ f.answers = Top(t).answers /\ f.pc = Top(t).pc
    BY <1>2, <1>4, NestingFrame
  <1> HIDE DEF f, g
  <1>9. Sound(f, Len(list[f.reg])) /\ Inside(f)
    BY <1>2, <1>3, <1>5, <1>8, SoundAlike DEF Inside
  <1>10. stack' \in [Threads -> Seq(Frame)]
    BY <1>1, <1>2, <1>7, <1>8, NestedStack
  <1>11. TypeOK'
    BY <1>1, <1>2, <1>10 DEF TypeOK
  <1>12. Frames'
    BY <1>1, <1>2, <1>7, <1>8, <1>9, NestedFrames
  <1>13. SameWalks
    <2>1. g.pc \notin Walking
      BY <1>7 DEF Walking
    <2> QED
      BY <1>1, <1>2, <1>7, <1>8, <2>1, NestedWalks
  <1>14. Mutex'
    BY <1>1, <1>2, <1>13, MutexStays
  <1> QED
    BY <1>1, <1>2, <1>11, <1>12, <1>14 DEF IInv, Counted, PushIsSeen

\* Locking the list fixes the width of the walk, and no push before it is missed.
LEMMA LockKeeps ==
    ASSUME IInv, NEW t \in Threads, Lock(t)
    PROVE  IInv'
  <1> DEFINE n == Len(list[Top(t).reg])
             f == [Top(t) EXCEPT !.pc = "supports", !.width = n]
  <1>1. TypeOK /\ Counted /\ Frames /\ Mutex /\ PushIsSeen
    BY DEF IInv
  <1>2. /\ Busy(t) /\ ~unwinding[t] /\ Top(t).pc = "lock" /\ Free(Top(t).reg)
        /\ owner' = [owner EXCEPT ![Top(t).reg] = t] /\ SetTop(t, f)
        /\ UNCHANGED <<list, pushed, poisoned, unwinding, calls, result>>
    BY DEF Lock, At, lists
  <1>3. Top(t).pc \notin Walking
    BY <1>2 DEF Walking
  <1>4. Top(t) \in Frame /\ Top(t).reg \in Registries /\ Len(Top(t).answers) \in Nat
    BY <1>1, <1>2, TopFrame
  <1>5. n \in 0 .. MaxPushes /\ Sound(Top(t), n)
    BY <1>1, <1>2, <1>4, ListLength, TopSound
  <1>6. /\ f \in Frame /\ f.reg = Top(t).reg /\ f.known = Top(t).known /\ f.width = n
        /\ f.answers = Top(t).answers /\ f.pc = "supports"
    BY <1>4, <1>5, EnteredFrame
  <1>7. f.pc \in Walking
    BY <1>6 DEF Walking
  <1>8. Sound(f, Len(list[f.reg]))
    <2>1. Len(f.answers) <= 0 /\ f.known <= n
      BY <1>3, <1>5, <1>6 DEF Sound
    <2> QED
      BY <1>4, <1>5, <1>6, <1>7, <2>1 DEF Sound
  <1> HIDE DEF f
  <1>9. owner' \in [Registries -> Threads \cup {NoThread}] /\ stack' \in [Threads -> Seq(Frame)]
    BY <1>1, <1>2, <1>6, SetTopStack DEF TypeOK
  <1>10. TypeOK'
    BY <1>1, <1>2, <1>9 DEF TypeOK
  <1>11. Frames'
    BY <1>1, <1>2, <1>6, <1>8, MovedFrames
  <1>12. Mutex'
    BY <1>1, <1>2, <1>3, <1>6, <1>7, LockedMutex
  <1> QED
    BY <1>1, <1>2, <1>10, <1>11, <1>12 DEF IInv, Counted, PushIsSeen

\* Every step keeps it, action by action.
LEMMA NextInvariant == IInv /\ [Next]_vars => IInv'
  <1> SUFFICES ASSUME IInv, [Next]_vars PROVE IInv'
    OBVIOUS
  <1>0. TypeOK /\ Counted /\ Frames /\ Mutex /\ PushIsSeen
    BY DEF IInv
  <1>1. ASSUME NEW r \in Registries, NEW own \in Registries \cup {NoRegistry}, Push(r, own)
        PROVE  IInv'
    BY <1>1, PushKeeps
  <1>2. ASSUME NEW t \in Threads, NEW r \in Registries, Call(t, r)
        PROVE  IInv'
    BY <1>2, CallKeeps
  <1>3. ASSUME NEW t \in Threads, Validate(t)
        PROVE  IInv'
    <2> DEFINE f == [Top(t) EXCEPT !.pc = "probe"]
    <2>1. /\ Busy(t) /\ ~unwinding[t] /\ Top(t).pc = "start" /\ SetTop(t, f)
          /\ UNCHANGED <<list, pushed, owner, poisoned, unwinding, calls, result>>
      BY <1>3 DEF Validate, At, lists
    <2>2. Top(t) \in Frame /\ Sound(Top(t), Len(list[Top(t).reg]))
      BY <1>0, <2>1, TopFrame, TopSound
    <2>3. /\ f \in Frame /\ f.reg = Top(t).reg /\ f.known = Top(t).known /\ f.pc = "probe"
          /\ f.width = Top(t).width /\ f.answers = Top(t).answers
      BY <2>2, MovedFrame
    <2> HIDE DEF f
    <2>4. Sound(f, Len(list[f.reg])) /\ f.pc \notin Walking /\ Top(t).pc \notin Walking
      BY <2>1, <2>2, <2>3 DEF Sound, Walking
    <2> QED
      BY <2>1, <2>3, <2>4, MoveKeeps
  <1>4. ASSUME NEW t \in Threads, Reject(t)
        PROVE  IInv'
    <2>1. /\ Busy(t) /\ ~unwinding[t] /\ Top(t).pc \notin Walking /\ Return(t, "error", Top(t))
          /\ UNCHANGED <<list, pushed, owner, poisoned, unwinding, calls>>
      BY <1>4 DEF Reject, At, Walking, lists
    <2>2. Top(t) \in Frame /\ "error" \in Verdicts
      BY <1>0, <2>1, TopFrame DEF Verdicts
    <2> QED
      BY <2>1, <2>2, EarlyReturnKeeps
  <1>5. ASSUME NEW t \in Threads, Veto(t)
        PROVE  IInv'
    <2> DEFINE f == [Top(t) EXCEPT !.known = 0]
    <2>1. /\ Busy(t) /\ ~unwinding[t] /\ Top(t).pc \notin Walking /\ Return(t, "tail", f)
          /\ UNCHANGED <<list, pushed, owner, poisoned, unwinding, calls>>
      BY <1>5 DEF Veto, At, Walking, lists
    <2>2. /\ Top(t) \in Frame /\ Len(Top(t).answers) \in Nat
          /\ Sound(Top(t), Len(list[Top(t).reg]))
      BY <1>0, <2>1, TopFrame, TopSound
    <2>3. f \in Frame /\ f.known = 0 /\ f.answers = Top(t).answers
      <3>1. 0 \in 0 .. MaxPushes
        OBVIOUS
      <3> QED
        BY <2>2, <3>1 DEF Frame
    <2> HIDE DEF f
    <2>4. Len(f.answers) >= f.known /\ \A k \in DOMAIN f.answers : FallsThrough(f.answers[k])
      BY <2>2, <2>3 DEF Sound
    <2>5. "tail" \in Verdicts
      BY DEF Verdicts
    <2> QED
      BY <2>1, <2>3, <2>4, <2>5, EarlyReturnKeeps
  <1>6. ASSUME NEW t \in Threads, ProbeEmpty(t)
        PROVE  IInv'
    <2>1. /\ Busy(t) /\ ~unwinding[t] /\ Top(t).pc \notin Walking /\ Return(t, "tail", Top(t))
          /\ list[Top(t).reg] = <<>>
          /\ UNCHANGED <<list, pushed, owner, poisoned, unwinding, calls>>
      BY <1>6 DEF ProbeEmpty, At, Walking, lists
    <2>2. /\ Top(t) \in Frame /\ Top(t).reg \in Registries /\ Len(Top(t).answers) \in Nat
          /\ Top(t).known \in Nat /\ Sound(Top(t), Len(list[Top(t).reg]))
      BY <1>0, <2>1, TopFrame, TopSound
    <2>3. Len(list[Top(t).reg]) = 0
      BY <1>0, <2>1, <2>2, ListLength
    <2>4. /\ Len(Top(t).answers) >= Top(t).known
          /\ \A k \in DOMAIN Top(t).answers : FallsThrough(Top(t).answers[k])
      BY <2>1, <2>2, <2>3 DEF Sound
    <2>5. "tail" \in Verdicts
      BY DEF Verdicts
    <2> QED
      BY <2>1, <2>2, <2>4, <2>5, EarlyReturnKeeps
  <1>7. ASSUME NEW t \in Threads, Probe(t)
        PROVE  IInv'
    <2> DEFINE f == [Top(t) EXCEPT !.pc = "lock"]
    <2>1. /\ Busy(t) /\ ~unwinding[t] /\ Top(t).pc = "probe" /\ SetTop(t, f)
          /\ UNCHANGED <<list, pushed, owner, poisoned, unwinding, calls, result>>
      BY <1>7 DEF Probe, At, lists
    <2>2. Top(t) \in Frame /\ Sound(Top(t), Len(list[Top(t).reg]))
      BY <1>0, <2>1, TopFrame, TopSound
    <2>3. /\ f \in Frame /\ f.reg = Top(t).reg /\ f.known = Top(t).known /\ f.pc = "lock"
          /\ f.width = Top(t).width /\ f.answers = Top(t).answers
      BY <2>2, MovedFrame
    <2> HIDE DEF f
    <2>4. Sound(f, Len(list[f.reg])) /\ f.pc \notin Walking /\ Top(t).pc \notin Walking
      BY <2>1, <2>2, <2>3 DEF Sound, Walking
    <2> QED
      BY <2>1, <2>3, <2>4, MoveKeeps
  <1>8. ASSUME NEW t \in Threads, Lock(t)
        PROVE  IInv'
    BY <1>8, LockKeeps
  <1>9. ASSUME NEW t \in Threads, Accept(t)
        PROVE  IInv'
    <2> DEFINE f == [Top(t) EXCEPT !.pc = "run"]
    <2>1. /\ Busy(t) /\ ~unwinding[t] /\ Top(t).pc = "supports" /\ SetTop(t, f)
          /\ Len(Top(t).answers) # Top(t).width
          /\ UNCHANGED <<list, pushed, owner, poisoned, unwinding, calls, result>>
      BY <1>9 DEF Accept, At, Exhausted, lists
    <2>2. /\ Top(t) \in Frame /\ Sound(Top(t), Len(list[Top(t).reg]))
          /\ Len(Top(t).answers) \in Nat /\ Top(t).width \in Nat
      BY <1>0, <2>1, TopFrame, TopSound
    <2>3. /\ f \in Frame /\ f.reg = Top(t).reg /\ f.known = Top(t).known /\ f.pc = "run"
          /\ f.width = Top(t).width /\ f.answers = Top(t).answers
      BY <2>2, MovedFrame
    <2> HIDE DEF f
    <2>4. Sound(f, Len(list[f.reg])) /\ f.pc \in Walking /\ Top(t).pc \in Walking
      BY <2>1, <2>2, <2>3 DEF Sound, Walking
    <2> QED
      BY <2>1, <2>3, <2>4, MoveKeeps
  <1>10. ASSUME NEW t \in Threads, NEW a \in Answers, Decline(t, a)
         PROVE  IInv'
    <2> DEFINE s == Append(Top(t).answers, a)
               f == [Top(t) EXCEPT !.pc = "supports", !.answers = s, !.nested = 0]
    <2>1. /\ Busy(t) /\ ~unwinding[t] /\ Top(t).pc \in Walking
          /\ Top(t).pc = "run" \/ Len(Top(t).answers) # Top(t).width
          /\ FallsThrough(a)
          /\ SetTop(t, [Top(t) EXCEPT !.pc = "supports", !.answers = Append(@, a), !.nested = 0])
          /\ UNCHANGED <<list, pushed, owner, poisoned, unwinding, calls, result>>
      BY <1>10 DEF Decline, At, Exhausted, Walking, lists
    <2>2. /\ Top(t) \in Frame /\ Sound(Top(t), Len(list[Top(t).reg]))
          /\ Top(t).answers \in Seq(Answers)
          /\ Len(Top(t).answers) \in Nat /\ Top(t).width \in Nat
      BY <1>0, <2>1, TopFrame, TopSound
    <2>3. SetTop(t, f)
      BY <2>1
    <2>4. /\ s \in Seq(Answers) /\ Len(s) = Len(Top(t).answers) + 1
          /\ \A k \in 1 .. Len(Top(t).answers) : s[k] = Top(t).answers[k]
          /\ s[Len(Top(t).answers) + 1] = a
      BY <2>2, AppendProperties
    <2>5. DOMAIN s = 1 .. Len(s) /\ DOMAIN Top(t).answers = 1 .. Len(Top(t).answers)
      BY <2>2, <2>4, LenProperties
    <2> HIDE DEF s
    <2>6. /\ f \in Frame /\ f.reg = Top(t).reg /\ f.known = Top(t).known /\ f.pc = "supports"
          /\ f.width = Top(t).width /\ f.answers = s
      BY <2>2, <2>4, DeclinedFrame
    <2> HIDE DEF f
    <2>7. Len(s) <= Top(t).width
      BY <2>1, <2>2, <2>4 DEF Sound
    <2>8. ASSUME NEW k \in DOMAIN s PROVE FallsThrough(s[k])
      <3>1. CASE k = Len(Top(t).answers) + 1
        BY <2>1, <2>4, <3>1
      <3>2. CASE k # Len(Top(t).answers) + 1
        <4>1. k \in DOMAIN Top(t).answers
          BY <2>2, <2>4, <2>5, <3>2
        <4> QED
          BY <2>2, <2>4, <2>5, <4>1 DEF Sound
      <3> QED
        BY <3>1, <3>2
    <2>9. Sound(f, Len(list[f.reg])) /\ f.pc \in Walking
      BY <2>1, <2>2, <2>6, <2>7, <2>8 DEF Sound, Walking
    <2> QED
      BY <2>1, <2>3, <2>6, <2>9, MoveKeeps
  <1>11. ASSUME NEW t \in Threads, NEW a \in Answers, Finish(t, a)
         PROVE  IInv'
    <2> DEFINE f == [Top(t) EXCEPT !.answers = Append(@, a)]
    <2>1. /\ Busy(t) /\ ~unwinding[t] /\ Top(t).pc \in Walking /\ Unlock(Top(t).reg)
          /\ Return(t, Judge(a), f)
          /\ UNCHANGED <<list, pushed, poisoned, unwinding, calls>>
      BY <1>11 DEF Finish, At, Walking, lists
    <2>2. f \in Frame
      BY <1>0, <2>1, TopFrame, EndedFrame
    <2> HIDE DEF f
    <2>3. poisoned' \in [Registries -> BOOLEAN] /\ unwinding' \in [Threads -> BOOLEAN]
      BY <1>0, <2>1 DEF TypeOK
    <2>4. Judge(a) \in Verdicts /\ Judge(a) # "tail"
      BY JudgedVerdict
    <2> QED
      BY <2>1, <2>2, <2>3, <2>4, WalkReturnKeeps
  <1>12. ASSUME NEW t \in Threads, RunTail(t)
         PROVE  IInv'
    <2>1. /\ Busy(t) /\ ~unwinding[t] /\ Top(t).pc \in Walking /\ Unlock(Top(t).reg)
          /\ Len(Top(t).answers) = Top(t).width
          /\ Return(t, "tail", Top(t))
          /\ UNCHANGED <<list, pushed, poisoned, unwinding, calls>>
      BY <1>12 DEF RunTail, At, Exhausted, Walking, lists
    <2>2. Top(t) \in Frame /\ Sound(Top(t), Len(list[Top(t).reg]))
      BY <1>0, <2>1, TopFrame, TopSound
    <2>3. /\ Len(Top(t).answers) >= Top(t).known
          /\ \A k \in DOMAIN Top(t).answers : FallsThrough(Top(t).answers[k])
      BY <2>1, <2>2 DEF Sound
    <2>4. poisoned' \in [Registries -> BOOLEAN] /\ unwinding' \in [Threads -> BOOLEAN]
      BY <1>0, <2>1 DEF TypeOK
    <2>5. "tail" \in Verdicts
      BY DEF Verdicts
    <2> QED
      BY <2>1, <2>2, <2>3, <2>4, <2>5, WalkReturnKeeps
  <1>13. ASSUME NEW t \in Threads, Reenter(t)
         PROVE  IInv'
    BY <1>13, ReenterKeeps
  <1>14. ASSUME NEW t \in Threads, Panic(t)
         PROVE  IInv'
    <2>1. /\ Busy(t) /\ Unlock(Top(t).reg) /\ Return(t, "panicked", Top(t))
          /\ UNCHANGED <<list, pushed, calls>>
      BY <1>14 DEF Panic, InBackend, At, lists
    <2>2. Top(t).pc \in Walking
      BY <1>0, <1>14, TopSound DEF Panic, InBackend, At, Walking, Inside
    <2>3. unwinding' = [unwinding EXCEPT ![t] = Len(stack[t]) > 1]
      BY <1>14 DEF Panic
    <2>4. poisoned' = [poisoned EXCEPT ![Top(t).reg] = TRUE]
      BY <1>14 DEF Panic
    <2>5. poisoned' \in [Registries -> BOOLEAN]
      BY <1>0, <2>4, Zenon DEF TypeOK
    <2>6. /\ \A u \in Threads : u # t => unwinding'[u] = unwinding[u]
          /\ unwinding'[t] => Len(stack[t]) > 1
      BY <1>0, <2>3, Zenon DEF TypeOK
    <2>7. unwinding' \in [Threads -> BOOLEAN]
      <3>1. (Len(stack[t]) > 1) \in BOOLEAN
        OBVIOUS
      <3> QED
        BY <1>0, <2>3, <3>1, Zenon DEF TypeOK
    <2>8. Top(t) \in Frame /\ "panicked" \in Verdicts
      BY <1>0, <2>1, TopFrame DEF Verdicts
    <2> QED
      BY <2>1, <2>2, <2>5, <2>6, <2>7, <2>8, WalkReturnKeeps
  <1>15. ASSUME NEW t \in Threads, Catch(t)
         PROVE  IInv'
    <2>1. /\ unwinding' = [unwinding EXCEPT ![t] = FALSE]
          /\ UNCHANGED <<list, pushed, owner, poisoned, stack, calls, result>>
      BY <1>15 DEF Catch, lists
    <2>2. unwinding' \in [Threads -> BOOLEAN] /\ \A u \in Threads : unwinding'[u] => unwinding[u]
      BY <1>0, <2>1, Zenon DEF TypeOK
    <2>3. Frames'
      BY <1>0, <2>1, <2>2, StillFrames DEF Frames
    <2> QED
      BY <1>0, <2>1, <2>2, <2>3 DEF IInv, TypeOK, Counted, Mutex, Walks, PushIsSeen
  <1>16. CASE UNCHANGED vars
    <2>1. UNCHANGED <<list, pushed, owner, poisoned, stack, unwinding, calls, result>>
      BY <1>16 DEF vars
    <2>2. Frames'
      BY <1>0, <2>1, StillFrames DEF Frames
    <2> QED
      BY <1>0, <2>1, <2>2 DEF IInv, TypeOK, Counted, Mutex, Walks, PushIsSeen
  <1> QED
    BY <1>1, <1>2, <1>3, <1>4, <1>5, <1>6, <1>7, <1>8, <1>9, <1>10, <1>11, <1>12, <1>13, <1>14,
       <1>15, <1>16
    DEF Next, Step

----------------------------------------------------------------------------
(* The theorems. *)

\* The inductive invariant holds in every reachable state.
THEOREM InvariantHolds == Spec => []IInv
  BY InitInvariant, NextInvariant, PTL DEF Spec

\* Every reachable state is well typed: the cursor of a walk never indexes past
\* the list that Registry::lock gave it, and no list outgrows its bound.
THEOREM TypeCorrect == Spec => []TypeOK
  <1>1. IInv => TypeOK
    BY DEF IInv
  <1> QED
    BY <1>1, InvariantHolds, PTL

\* A push that returned before a call began is never skipped by that call's walk,
\* although the emptiness probe and the walk lock the list one after the other.
THEOREM EarlierPushesAreAsked == Spec => []PushIsSeen
  <1>1. IInv => PushIsSeen
    BY DEF IInv
  <1> QED
    BY <1>1, InvariantHolds, PTL

\* While a call walks a list, the list is what it was when the walk locked it, and
\* no other call is inside one of its &mut self backends.
THEOREM WalksAreAlone == Spec => []StableWalk
  <1>1. IInv => StableWalk
    <2> SUFFICES ASSUME IInv, NEW t \in Threads, NEW d \in DOMAIN stack[t],
                        stack[t][d].pc \in Walking
                 PROVE  /\ stack[t][d].width = Len(list[stack[t][d].reg])
                        /\ owner[stack[t][d].reg] = t
                        /\ \A u \in Threads : \A e \in Walks(u, stack[t][d].reg) : u = t /\ e = d
      BY DEF StableWalk
    <2>1. TypeOK /\ Frames /\ Mutex
      BY DEF IInv
    <2>2. stack[t][d].width = Len(list[stack[t][d].reg])
      BY <2>1 DEF Frames, FramesOf, Sound
    <2>3. stack[t][d].reg \in Registries /\ d \in Walks(t, stack[t][d].reg)
      BY <2>1, EachFrame DEF Walks
    <2> QED
      BY <2>1, <2>2, <2>3 DEF Mutex
  <1> QED
    BY <1>1, InvariantHolds, PTL

----------------------------------------------------------------------------
(* The refinement of the fallback contract: what the caller sees of each change  *)
(* of a stack.  A change above depth 1 is invisible.                            *)

seen == <<SeenOpen, SeenWidth, SeenAnswers, SeenVerdict>>

\* Nothing is seen of a step that leaves the outermost calls and results as they are.
LEMMA UnseenStep ==
    ASSUME \A u \in Threads :
              \/ stack'[u] = stack[u] /\ result'[u] = result[u]
              \/ /\ Busy(u) /\ stack'[u] # <<>>
                 /\ stack'[u][1].width = stack[u][1].width
                 /\ stack'[u][1].answers = stack[u][1].answers
    PROVE  UNCHANGED seen
  <1>1. ASSUME NEW u \in Threads
        PROVE  /\ Busy(u)' <=> Busy(u)
               /\ Busy(u) => /\ stack'[u][1].width = stack[u][1].width
                             /\ stack'[u][1].answers = stack[u][1].answers
               /\ ~Busy(u) => result'[u] = result[u]
    BY DEF Busy
  <1>2. SeenOpen' = SeenOpen
    <2>1. \A u \in Threads : Busy(u)' = Busy(u)
      BY <1>1 DEF Busy
    <2> QED
      BY <2>1, Zenon DEF SeenOpen
  <1>3. SeenWidth' = SeenWidth
    BY <1>1 DEF SeenWidth
  <1>4. SeenAnswers' = SeenAnswers
    BY <1>1 DEF SeenAnswers
  <1>5. SeenVerdict' = SeenVerdict
    BY <1>1 DEF SeenVerdict
  <1> QED
    BY <1>2, <1>3, <1>4, <1>5 DEF seen

\* What is seen of an outermost call that runs.
LEMMA SeenCall ==
    ASSUME TypeOK, NEW t \in Threads, Busy(t), Len(stack[t]) = 1
    PROVE  /\ SeenOpen[t] = TRUE
           /\ SeenWidth[t] = Top(t).width /\ SeenAnswers[t] = Top(t).answers
  BY Zenon DEF SeenOpen, SeenWidth, SeenAnswers, Top

\* What is seen of the return of an outermost call.
LEMMA SeenReturn ==
    ASSUME TypeOK, NEW t \in Threads, Busy(t), Len(stack[t]) = 1,
           NEW v, NEW f, Return(t, v, f)
    PROVE  /\ SeenOpen' = [SeenOpen EXCEPT ![t] = FALSE]
           /\ SeenWidth' = [SeenWidth EXCEPT ![t] = f.width]
           /\ SeenAnswers' = [SeenAnswers EXCEPT ![t] = f.answers]
           /\ SeenVerdict' = [SeenVerdict EXCEPT ![t] = v]
  <1>1. Pops(t) /\ result' = [result EXCEPT ![t] = [verdict |-> v, known |-> f.known,
                                                   width |-> f.width, answers |-> f.answers]]
    BY DEF Return, Pops
  <1>2. stack'[t] = <<>> /\ \A u \in Threads : u # t => stack'[u] = stack[u]
    BY <1>1, PoppedStack
  <1>3. /\ result'[t].verdict = v /\ result'[t].width = f.width /\ result'[t].answers = f.answers
        /\ \A u \in Threads : u # t => result'[u] = result[u]
    BY <1>1 DEF TypeOK
  <1>4. ~Busy(t)' /\ \A u \in Threads : u # t => (Busy(u)' <=> Busy(u))
    BY <1>2 DEF Busy
  <1>5. SeenOpen' = [SeenOpen EXCEPT ![t] = FALSE]
    <2>1. \A u \in Threads : Busy(u)' = IF u = t THEN FALSE ELSE Busy(u)
      BY <1>4 DEF Busy
    <2> QED
      BY <2>1, Zenon DEF SeenOpen
  <1>6. SeenWidth' = [SeenWidth EXCEPT ![t] = f.width]
    BY <1>2, <1>3, <1>4 DEF SeenWidth
  <1>7. SeenAnswers' = [SeenAnswers EXCEPT ![t] = f.answers]
    BY <1>2, <1>3, <1>4 DEF SeenAnswers
  <1>8. SeenVerdict' = [SeenVerdict EXCEPT ![t] = v]
    BY <1>2, <1>3, <1>4 DEF SeenVerdict
  <1> QED
    BY <1>5, <1>6, <1>7, <1>8

\* Nothing is seen of the return of a nested call.
LEMMA UnseenReturn ==
    ASSUME TypeOK, NEW t \in Threads, Busy(t), Len(stack[t]) # 1,
           NEW v, NEW f, Return(t, v, f)
    PROVE  UNCHANGED seen
  <1>0. Len(stack[t]) \in Nat /\ Len(stack[t]) > 0
    BY TopFrame
  <1>1. Len(stack[t]) \in Nat /\ Len(stack[t]) > 1
    <2>1. \A n \in Nat : n > 0 /\ n # 1 => n > 1
      OBVIOUS
    <2> QED
      BY <1>0, <2>1
  <1>2. Pops(t) /\ result' = result
    BY <1>1 DEF Return, Pops
  <1>3. 1 \in DOMAIN stack'[t] /\ stack'[t] # <<>>
    BY <1>1, <1>2, PoppedStack
  <1>4. stack'[t][1] = stack[t][1] /\ \A u \in Threads : u # t => stack'[u] = stack[u]
    BY <1>2, <1>3, PoppedStack
  <1> QED
    BY <1>2, <1>3, <1>4, UnseenStep

\* What is seen of an outermost call that moves on.
LEMMA SeenMove ==
    ASSUME TypeOK, NEW t \in Threads, Busy(t), Len(stack[t]) = 1,
           NEW f \in Frame, SetTop(t, f), UNCHANGED result
    PROVE  /\ UNCHANGED <<SeenOpen, SeenVerdict>>
           /\ SeenWidth' = [SeenWidth EXCEPT ![t] = f.width]
           /\ SeenAnswers' = [SeenAnswers EXCEPT ![t] = f.answers]
  <1>1. stack'[t] # <<>> /\ stack'[t][1] = f /\ \A u \in Threads : u # t => stack'[u] = stack[u]
    BY SetTopStack
  <1>2. \A u \in Threads : Busy(u)' <=> Busy(u)
    BY <1>1 DEF Busy
  <1>3. SeenOpen' = SeenOpen
    <2>1. \A u \in Threads : Busy(u)' = Busy(u)
      BY <1>2 DEF Busy
    <2> QED
      BY <2>1, Zenon DEF SeenOpen
  <1>4. SeenVerdict' = SeenVerdict
    BY <1>2 DEF SeenVerdict
  <1>5. SeenWidth' = [SeenWidth EXCEPT ![t] = f.width]
    BY <1>1, <1>2 DEF SeenWidth
  <1>6. SeenAnswers' = [SeenAnswers EXCEPT ![t] = f.answers]
    BY <1>1, <1>2 DEF SeenAnswers
  <1> QED
    BY <1>3, <1>4, <1>5, <1>6

\* Nothing is seen of a call that moves on, if it is nested or its width and
\* answers stay.
LEMMA UnseenMove ==
    ASSUME TypeOK, NEW t \in Threads, Busy(t), NEW f \in Frame, SetTop(t, f), UNCHANGED result,
           Len(stack[t]) = 1 => f.width = Top(t).width /\ f.answers = Top(t).answers
    PROVE  UNCHANGED seen
  <1>1. 1 \in DOMAIN stack[t] /\ Top(t) = stack[t][Len(stack[t])]
    BY TopFrame
  <1>2. /\ stack'[t] # <<>> /\ \A u \in Threads : u # t => stack'[u] = stack[u]
        /\ stack'[t][Len(stack[t])] = f
        /\ Len(stack[t]) # 1 => stack'[t][1] = stack[t][1]
    BY <1>1, SetTopStack
  <1> QED
    BY <1>1, <1>2, UnseenStep

\* Nothing is seen of a nested call.
LEMMA UnseenNest ==
    ASSUME TypeOK, NEW t \in Threads, Busy(t), NEW f \in Frame, NEW g \in Frame, Nests(t, f, g),
           UNCHANGED result, f.width = Top(t).width, f.answers = Top(t).answers
    PROVE  UNCHANGED seen
  <1>1. 1 \in DOMAIN stack[t] /\ Top(t) = stack[t][Len(stack[t])]
    BY TopFrame
  <1>2. /\ stack'[t] # <<>> /\ \A u \in Threads : u # t => stack'[u] = stack[u]
        /\ stack'[t][Len(stack[t])] = f
        /\ Len(stack[t]) # 1 => stack'[t][1] = stack[t][1]
    BY <1>1, NestedStack
  <1> QED
    BY <1>1, <1>2, UnseenStep

\* An outermost call begins with no width and no answers.
LEMMA SeenStart ==
    ASSUME IInv, NEW t \in Threads, NEW r \in Registries, Call(t, r)
    PROVE  Contract!Begin(t)
  <1>1. TypeOK /\ Counted
    BY DEF IInv
  <1>2. /\ ~Busy(t) /\ stack' = [stack EXCEPT ![t] = <<NewFrame(r)>>] /\ result' = result
    BY DEF Call
  <1>3. /\ stack'[t] # <<>>
        /\ stack'[t][1].width = 0 /\ stack'[t][1].answers = <<>>
        /\ \A u \in Threads : u # t => stack'[u] = stack[u]
    BY <1>1, <1>2, FreshFrame DEF TypeOK
  <1>4. Busy(t)' /\ \A u \in Threads : u # t => (Busy(u)' <=> Busy(u))
    BY <1>3 DEF Busy
  <1>5. SeenOpen' = [SeenOpen EXCEPT ![t] = TRUE]
    <2>1. \A u \in Threads : Busy(u)' = IF u = t THEN TRUE ELSE Busy(u)
      BY <1>4 DEF Busy
    <2> QED
      BY <2>1, Zenon DEF SeenOpen
  <1>r. \A u \in Threads : result'[u] = result[u]
    BY <1>2
  <1>6. SeenWidth' = [SeenWidth EXCEPT ![t] = 0]
    BY <1>3, <1>4, <1>r DEF SeenWidth
  <1>7. SeenAnswers' = [SeenAnswers EXCEPT ![t] = <<>>]
    BY <1>3, <1>4, <1>r DEF SeenAnswers
  <1>8. SeenVerdict' = [SeenVerdict EXCEPT ![t] = "none"]
    BY <1>3, <1>4, <1>r DEF SeenVerdict
  <1>9. SeenOpen[t] = FALSE
    <2>1. Busy(t) = FALSE
      BY <1>2 DEF Busy
    <2> QED
      BY <2>1, Zenon DEF SeenOpen
  <1>10. 0 \in 0 .. MaxPushes
    OBVIOUS
  <1> QED
    BY <1>5, <1>6, <1>7, <1>8, <1>9, <1>10 DEF Contract!Begin

\* The map of seen values keeps a value that is written back.
LEMMA WrittenBack ==
    ASSUME NEW t \in Threads
    PROVE  /\ [SeenWidth EXCEPT ![t] = SeenWidth[t]] = SeenWidth
           /\ [SeenAnswers EXCEPT ![t] = SeenAnswers[t]] = SeenAnswers
  BY DEF SeenWidth, SeenAnswers

\* An outermost call that ends before its walk, or after the last decline of it.
LEMMA SeenTail ==
    ASSUME TypeOK, NEW t \in Threads, Busy(t), NEW f \in Frame, Return(t, "tail", f),
           f.width = Top(t).width, f.answers = Top(t).answers,
           Len(Top(t).answers) = Top(t).width
    PROVE  Contract!BuiltIn(t) \/ UNCHANGED seen
  <1>1. CASE Len(stack[t]) = 1
    <2>1. /\ SeenOpen[t] = TRUE
          /\ SeenWidth[t] = Top(t).width /\ SeenAnswers[t] = Top(t).answers
      BY <1>1, SeenCall
    <2>2. /\ SeenOpen' = [SeenOpen EXCEPT ![t] = FALSE]
          /\ SeenWidth' = [SeenWidth EXCEPT ![t] = f.width]
          /\ SeenAnswers' = [SeenAnswers EXCEPT ![t] = f.answers]
          /\ SeenVerdict' = [SeenVerdict EXCEPT ![t] = "tail"]
      BY <1>1, SeenReturn
    <2>3. SeenWidth' = SeenWidth /\ SeenAnswers' = SeenAnswers
      BY <2>1, <2>2, WrittenBack
    <2> QED
      BY <2>1, <2>2, <2>3 DEF Contract!BuiltIn, Contract!Ends
  <1>2. CASE Len(stack[t]) # 1
    BY <1>2, UnseenReturn
  <1> QED
    BY <1>1, <1>2

\* A frame that has not begun its walk has no width and no answers.
LEMMA BeforeWalk ==
    ASSUME TypeOK, Counted, Frames, NEW t \in Threads, Busy(t), Top(t).pc \notin Walking
    PROVE  Top(t).width = 0 /\ Top(t).answers = <<>> /\ Len(Top(t).answers) = 0
  <1>1. Sound(Top(t), Len(list[Top(t).reg])) /\ Top(t).answers \in Seq(Answers)
    BY TopFrame, TopSound
  <1>2. Top(t).width = 0 /\ Len(Top(t).answers) \in Nat /\ Len(Top(t).answers) <= 0
    BY <1>1, LenProperties DEF Sound
  <1> QED
    BY <1>1, <1>2, EmptySeq

\* Registry::lock tells an outermost call how many backends it will ask.
LEMMA SeenLock ==
    ASSUME IInv, NEW t \in Threads, Lock(t)
    PROVE  Contract!Enlist(t) \/ UNCHANGED seen
  <1> DEFINE n == Len(list[Top(t).reg])
             f == [Top(t) EXCEPT !.pc = "supports", !.width = n]
  <1>1. TypeOK /\ Counted /\ Frames
    BY DEF IInv
  <1>2. Busy(t) /\ Top(t).pc \notin Walking /\ SetTop(t, f) /\ UNCHANGED result
    BY DEF Lock, At, Walking
  <1>3. Top(t).width = 0 /\ Top(t).answers = <<>>
    BY <1>1, <1>2, BeforeWalk
  <1>4. Top(t) \in Frame /\ n \in 0 .. MaxPushes
    BY <1>1, <1>2, TopFrame, ListLength
  <1>5. f \in Frame /\ f.width = n /\ f.answers = Top(t).answers
    BY <1>4, EnteredFrame
  <1> HIDE DEF f, n
  <1>6. CASE Len(stack[t]) = 1
    <2>1. SeenOpen[t] = TRUE /\ SeenWidth[t] = 0 /\ SeenAnswers[t] = <<>>
      BY <1>1, <1>2, <1>3, <1>6, SeenCall
    <2>2. /\ UNCHANGED <<SeenOpen, SeenVerdict>>
          /\ SeenWidth' = [SeenWidth EXCEPT ![t] = n]
          /\ SeenAnswers' = [SeenAnswers EXCEPT ![t] = <<>>]
      BY <1>1, <1>2, <1>3, <1>5, <1>6, SeenMove
    <2>3. SeenAnswers' = SeenAnswers
      BY <2>1, <2>2, WrittenBack
    <2> QED
      BY <1>4, <2>1, <2>2, <2>3 DEF Contract!Enlist
  <1>7. CASE Len(stack[t]) # 1
    BY <1>1, <1>2, <1>5, <1>7, UnseenMove
  <1> QED
    BY <1>6, <1>7

\* A decline is the contract's.
LEMMA SeenDecline ==
    ASSUME IInv, NEW t \in Threads, NEW a \in Answers, Decline(t, a)
    PROVE  Contract!Decline(t) \/ UNCHANGED seen
  <1> DEFINE s == Append(Top(t).answers, a)
             f == [Top(t) EXCEPT !.pc = "supports", !.answers = s, !.nested = 0]
  <1>1. TypeOK /\ Counted /\ Frames
    BY DEF IInv
  <1>2. /\ Busy(t) /\ UNCHANGED result
        /\ Top(t).pc = "run" \/ Len(Top(t).answers) # Top(t).width
        /\ FallsThrough(a)
        /\ SetTop(t, [Top(t) EXCEPT !.pc = "supports", !.answers = Append(@, a), !.nested = 0])
    BY DEF Decline, At, Exhausted
  <1>3. SetTop(t, f)
    BY <1>2
  <1>4. /\ Top(t) \in Frame /\ Top(t).answers \in Seq(Answers)
        /\ Len(Top(t).answers) \in Nat /\ Top(t).width \in Nat
        /\ Sound(Top(t), Len(list[Top(t).reg]))
    BY <1>1, <1>2, TopFrame, TopSound
  <1>5. Len(Top(t).answers) < Top(t).width
    BY <1>2, <1>4 DEF Sound
  <1>6. s \in Seq(Answers)
    BY <1>4, AppendProperties
  <1> HIDE DEF s
  <1>7. f \in Frame /\ f.width = Top(t).width /\ f.answers = s
    BY <1>4, <1>6, DeclinedFrame
  <1> HIDE DEF f
  <1>8. CASE Len(stack[t]) = 1
    <2>1. /\ SeenOpen[t] = TRUE
          /\ SeenWidth[t] = Top(t).width /\ SeenAnswers[t] = Top(t).answers
      BY <1>1, <1>2, <1>8, SeenCall
    <2>2. /\ UNCHANGED <<SeenOpen, SeenVerdict>>
          /\ SeenWidth' = [SeenWidth EXCEPT ![t] = Top(t).width]
          /\ SeenAnswers' = [SeenAnswers EXCEPT ![t] = s]
      BY <1>1, <1>2, <1>3, <1>7, <1>8, SeenMove
    <2>3. SeenWidth' = SeenWidth
      BY <2>1, <2>2, WrittenBack
    <2>4. SeenAnswers' = [SeenAnswers EXCEPT ![t] = Append(@, a)]
      BY <2>1, <2>2 DEF s
    <2>5. a \in Contract!Declines
      BY <1>2 DEF Contract!Declines, FallsThrough
    <2>6. Contract!MoreToAsk(t)
      BY <1>5, <2>1 DEF Contract!MoreToAsk
    <2>7. Contract!Hear(t, a)
      BY <2>4 DEF Contract!Hear
    <2> QED
      BY <2>2, <2>3, <2>5, <2>6, <2>7 DEF Contract!Decline
  <1>9. CASE Len(stack[t]) # 1
    BY <1>1, <1>2, <1>3, <1>7, <1>9, UnseenMove
  <1> QED
    BY <1>8, <1>9

\* An answer that ends the walk is a success or a failure of the contract.
LEMMA SeenFinish ==
    ASSUME IInv, NEW t \in Threads, NEW a \in Answers, Finish(t, a)
    PROVE  Contract!Succeed(t) \/ Contract!Fail(t) \/ UNCHANGED seen
  <1> DEFINE f == [Top(t) EXCEPT !.answers = Append(@, a)]
  <1>1. TypeOK /\ Counted /\ Frames
    BY DEF IInv
  <1>2. Busy(t) /\ Top(t).pc = "run" /\ ~FallsThrough(a) /\ Return(t, Judge(a), f)
    BY DEF Finish, At
  <1>3. /\ Top(t) \in Frame /\ Len(Top(t).answers) \in Nat /\ Top(t).width \in Nat
        /\ Sound(Top(t), Len(list[Top(t).reg]))
    BY <1>1, <1>2, TopFrame, TopSound
  <1>4. Len(Top(t).answers) < Top(t).width
    BY <1>2, <1>3 DEF Sound
  <1>5. f.width = Top(t).width /\ f.answers = Append(Top(t).answers, a)
    BY <1>3 DEF Frame
  <1> HIDE DEF f
  <1>6. CASE Len(stack[t]) = 1
    <2>1. /\ SeenOpen[t] = TRUE
          /\ SeenWidth[t] = Top(t).width /\ SeenAnswers[t] = Top(t).answers
      BY <1>1, <1>2, <1>6, SeenCall
    <2>2. /\ SeenOpen' = [SeenOpen EXCEPT ![t] = FALSE]
          /\ SeenWidth' = [SeenWidth EXCEPT ![t] = Top(t).width]
          /\ SeenAnswers' = [SeenAnswers EXCEPT ![t] = Append(Top(t).answers, a)]
          /\ SeenVerdict' = [SeenVerdict EXCEPT ![t] = Judge(a)]
      BY <1>1, <1>2, <1>5, <1>6, SeenReturn
    <2>3. SeenWidth' = SeenWidth
      BY <2>1, <2>2, WrittenBack
    <2>4. SeenAnswers' = [SeenAnswers EXCEPT ![t] = Append(@, a)]
      BY <2>1, <2>2
    <2>5. CASE Judge(a) = "ok"
      <3>1. a \in Contract!Accepted
        BY <1>2, <2>5 DEF Judge, Answers, FallsThrough, Contract!Accepted
      <3> QED
        BY <1>4, <2>1, <2>2, <2>3, <2>4, <2>5, <3>1
        DEF Contract!Succeed, Contract!MoreToAsk, Contract!Hear, Contract!Ends
    <2>6. CASE Judge(a) = "error"
      <3>1. a \in Contract!Refused
        BY <1>2, <2>6, LimitsAssumption
        DEF Judge, Answers, FallsThrough, Contract!Accepted, Contract!Refused, Contract!Declines
      <3> QED
        BY <1>4, <2>1, <2>2, <2>3, <2>4, <2>6, <3>1
        DEF Contract!Fail, Contract!MoreToAsk, Contract!Hear, Contract!Ends
    <2> QED
      BY <2>5, <2>6 DEF Judge
  <1>7. CASE Len(stack[t]) # 1
    BY <1>1, <1>2, <1>7, UnseenReturn
  <1> QED
    BY <1>6, <1>7

\* A panic aborts the outermost call only when it leaves it.
LEMMA SeenPanic ==
    ASSUME IInv, NEW t \in Threads, Panic(t)
    PROVE  Contract!Abort(t) \/ UNCHANGED seen
  <1>1. TypeOK /\ Counted /\ Frames
    BY DEF IInv
  <1>2. Busy(t) /\ Return(t, "panicked", Top(t))
    BY DEF Panic, InBackend, At
  <1>3. /\ Len(Top(t).answers) \in Nat /\ Top(t).width \in Nat
        /\ Sound(Top(t), Len(list[Top(t).reg])) /\ (unwinding[t] => Inside(Top(t)))
    BY <1>1, <1>2, TopFrame, TopSound
  <1>4. Len(Top(t).answers) < Top(t).width
    BY <1>3 DEF Panic, Exhausted, Inside, Sound
  <1>5. CASE Len(stack[t]) = 1
    <2>1. /\ SeenOpen[t] = TRUE
          /\ SeenWidth[t] = Top(t).width /\ SeenAnswers[t] = Top(t).answers
      BY <1>1, <1>2, <1>5, SeenCall
    <2>2. /\ SeenOpen' = [SeenOpen EXCEPT ![t] = FALSE]
          /\ SeenWidth' = [SeenWidth EXCEPT ![t] = Top(t).width]
          /\ SeenAnswers' = [SeenAnswers EXCEPT ![t] = Top(t).answers]
          /\ SeenVerdict' = [SeenVerdict EXCEPT ![t] = "panicked"]
      BY <1>1, <1>2, <1>5, SeenReturn
    <2>3. SeenWidth' = SeenWidth /\ SeenAnswers' = SeenAnswers
      BY <2>1, <2>2, WrittenBack
    <2> QED
      BY <1>4, <2>1, <2>2, <2>3 DEF Contract!Abort, Contract!MoreToAsk, Contract!Ends
  <1>6. CASE Len(stack[t]) # 1
    BY <1>1, <1>2, <1>6, UnseenReturn
  <1> QED
    BY <1>5, <1>6

\* A refused request has asked nobody.
LEMMA SeenReject ==
    ASSUME IInv, NEW t \in Threads, Reject(t)
    PROVE  Contract!Reject(t) \/ UNCHANGED seen
  <1>1. TypeOK /\ Counted /\ Frames
    BY DEF IInv
  <1>2. Busy(t) /\ Top(t).pc \notin Walking /\ Return(t, "error", Top(t))
    BY DEF Reject, At, Walking
  <1>3. Top(t).width = 0
    BY <1>1, <1>2, BeforeWalk
  <1>4. CASE Len(stack[t]) = 1
    <2>1. SeenOpen[t] = TRUE /\ SeenWidth[t] = 0 /\ SeenAnswers[t] = Top(t).answers
      BY <1>1, <1>2, <1>3, <1>4, SeenCall
    <2>2. /\ SeenOpen' = [SeenOpen EXCEPT ![t] = FALSE]
          /\ SeenWidth' = [SeenWidth EXCEPT ![t] = 0]
          /\ SeenAnswers' = [SeenAnswers EXCEPT ![t] = Top(t).answers]
          /\ SeenVerdict' = [SeenVerdict EXCEPT ![t] = "error"]
      BY <1>1, <1>2, <1>3, <1>4, SeenReturn
    <2>3. SeenWidth' = SeenWidth /\ SeenAnswers' = SeenAnswers
      BY <2>1, <2>2, WrittenBack
    <2> QED
      BY <2>1, <2>2, <2>3 DEF Contract!Reject, Contract!Ends
  <1>5. CASE Len(stack[t]) # 1
    BY <1>1, <1>2, <1>5, UnseenReturn
  <1> QED
    BY <1>4, <1>5

\* Every step is a step of the contract, or invisible.
LEMMA SeenSteps == IInv /\ [Next]_vars => [Contract!Next]_seen
  <1> SUFFICES ASSUME IInv, [Next]_vars
               PROVE  UNCHANGED seen \/ \E t \in Threads :
                         Contract!Begin(t) \/ Contract!Enlist(t) \/ Contract!Proceed(t)
    BY DEF Contract!Next
  <1>0. TypeOK /\ Counted /\ Frames
    BY DEF IInv
  <1>1. ASSUME UNCHANGED <<stack, result>> PROVE UNCHANGED seen
    BY <1>1, UnseenStep
  <1>2. ASSUME NEW r \in Registries, NEW own \in Registries \cup {NoRegistry}, Push(r, own)
        PROVE  UNCHANGED seen
    BY <1>1, <1>2 DEF Push
  <1>3. ASSUME NEW t \in Threads, NEW r \in Registries, Call(t, r)
        PROVE  Contract!Begin(t)
    BY <1>3, SeenStart
  <1>4. ASSUME NEW t \in Threads, NEW f \in Frame, Busy(t), SetTop(t, f), UNCHANGED result,
               f.width = Top(t).width, f.answers = Top(t).answers
        PROVE  UNCHANGED seen
    BY <1>0, <1>4, UnseenMove
  <1>5. ASSUME NEW t \in Threads, Validate(t) PROVE UNCHANGED seen
    <2> DEFINE f == [Top(t) EXCEPT !.pc = "probe"]
    <2>1. Busy(t) /\ SetTop(t, f) /\ UNCHANGED result
      BY <1>5 DEF Validate, At
    <2>2. f \in Frame /\ f.width = Top(t).width /\ f.answers = Top(t).answers
      BY <1>0, <2>1, TopFrame, MovedFrame
    <2> QED
      BY <1>4, <2>1, <2>2
  <1>6. ASSUME NEW t \in Threads, Probe(t) PROVE UNCHANGED seen
    <2> DEFINE f == [Top(t) EXCEPT !.pc = "lock"]
    <2>1. Busy(t) /\ SetTop(t, f) /\ UNCHANGED result
      BY <1>6 DEF Probe, At
    <2>2. f \in Frame /\ f.width = Top(t).width /\ f.answers = Top(t).answers
      BY <1>0, <2>1, TopFrame, MovedFrame
    <2> QED
      BY <1>4, <2>1, <2>2
  <1>7. ASSUME NEW t \in Threads, Accept(t) PROVE UNCHANGED seen
    <2> DEFINE f == [Top(t) EXCEPT !.pc = "run"]
    <2>1. Busy(t) /\ SetTop(t, f) /\ UNCHANGED result
      BY <1>7 DEF Accept, At
    <2>2. f \in Frame /\ f.width = Top(t).width /\ f.answers = Top(t).answers
      BY <1>0, <2>1, TopFrame, MovedFrame
    <2> QED
      BY <1>4, <2>1, <2>2
  <1>8. ASSUME NEW t \in Threads, Veto(t) PROVE Contract!BuiltIn(t) \/ UNCHANGED seen
    <2> DEFINE f == [Top(t) EXCEPT !.known = 0]
    <2>1. Busy(t) /\ Top(t).pc \notin Walking /\ Return(t, "tail", f)
      BY <1>8 DEF Veto, At, Walking
    <2>2. f \in Frame /\ f.width = Top(t).width /\ f.answers = Top(t).answers
      <3>1. 0 \in 0 .. MaxPushes
        OBVIOUS
      <3>2. Top(t) \in Frame
        BY <1>0, <2>1, TopFrame
      <3> QED
        BY <3>1, <3>2 DEF Frame
    <2> HIDE DEF f
    <2>3. Len(Top(t).answers) = Top(t).width
      BY <1>0, <2>1, BeforeWalk
    <2> QED
      BY <1>0, <2>1, <2>2, <2>3, SeenTail
  <1>9. ASSUME NEW t \in Threads, ProbeEmpty(t) PROVE Contract!BuiltIn(t) \/ UNCHANGED seen
    <2>1. Busy(t) /\ Top(t).pc \notin Walking /\ Return(t, "tail", Top(t))
      BY <1>9 DEF ProbeEmpty, At, Walking
    <2>2. Len(Top(t).answers) = Top(t).width /\ Top(t) \in Frame
      BY <1>0, <2>1, BeforeWalk, TopFrame
    <2> QED
      BY <1>0, <2>1, <2>2, SeenTail
  <1>10. ASSUME NEW t \in Threads, RunTail(t) PROVE Contract!BuiltIn(t) \/ UNCHANGED seen
    <2>1. /\ Busy(t) /\ Len(Top(t).answers) = Top(t).width /\ Return(t, "tail", Top(t))
      BY <1>10 DEF RunTail, At, Exhausted
    <2> QED
      BY <1>0, <2>1, SeenTail, TopFrame
  <1>11. ASSUME NEW t \in Threads, Reenter(t) PROVE UNCHANGED seen
    <2> DEFINE f == [Top(t) EXCEPT !.nested = @ + 1]
               own == list[Top(t).reg][Len(Top(t).answers) + 1]
    <2>1. /\ Busy(t) /\ Top(t).pc \in Walking /\ own # NoRegistry /\ UNCHANGED result
          /\ Top(t).nested < MaxNested /\ Nests(t, f, NewFrame(own))
          /\ Len(Top(t).answers) # Top(t).width
      BY <1>11 DEF Reenter, InBackend, At, Nests, Walking, Exhausted
    <2>2. /\ Top(t) \in Frame /\ Top(t).reg \in Registries
          /\ Len(Top(t).answers) \in Nat /\ Top(t).width \in Nat
          /\ Sound(Top(t), Len(list[Top(t).reg]))
      BY <1>0, <2>1, TopFrame, TopSound
    <2>3. own \in Registries
      <3>1. Len(Top(t).answers) + 1 \in 1 .. Len(list[Top(t).reg])
        BY <2>1, <2>2 DEF Sound
      <3>2. list[Top(t).reg] \in Seq(Registries \cup {NoRegistry})
        BY <1>0, <2>2, ListLength
      <3>3. own \in Registries \cup {NoRegistry}
        BY <3>1, <3>2, ElementOfSeq
      <3> QED
        BY <2>1, <3>3
    <2> HIDE DEF own
    <2>4. NewFrame(own) \in Frame
      BY <1>0, <2>3, FreshFrame
    <2>5. f \in Frame /\ f.width = Top(t).width /\ f.answers = Top(t).answers
      BY <2>1, <2>2, NestingFrame
    <2> HIDE DEF f
    <2> QED
      BY <1>0, <2>1, <2>4, <2>5, UnseenNest
  <1>12. ASSUME NEW t \in Threads, Catch(t) PROVE UNCHANGED seen
    BY <1>1, <1>12 DEF Catch
  <1>13. ASSUME NEW t \in Threads, Step(t)
         PROVE  UNCHANGED seen \/ Contract!Enlist(t) \/ Contract!Proceed(t)
    <2>1. Reject(t) => Contract!Reject(t) \/ UNCHANGED seen
      BY SeenReject
    <2>2. Lock(t) => Contract!Enlist(t) \/ UNCHANGED seen
      BY SeenLock
    <2>3. \A a \in Answers : Decline(t, a) => Contract!Decline(t) \/ UNCHANGED seen
      BY SeenDecline
    <2>4. \A a \in Answers :
             Finish(t, a) => Contract!Succeed(t) \/ Contract!Fail(t) \/ UNCHANGED seen
      BY SeenFinish
    <2>5. Panic(t) => Contract!Abort(t) \/ UNCHANGED seen
      BY SeenPanic
    <2> QED
      BY <1>5, <1>6, <1>7, <1>8, <1>9, <1>10, <1>11, <1>12, <1>13, <2>1, <2>2, <2>3, <2>4, <2>5
      DEF Step, Contract!Proceed
  <1>14. CASE UNCHANGED vars
    <2>1. UNCHANGED <<stack, result>>
      BY <1>14 DEF vars
    <2> QED
      BY <1>1, <2>1
  <1> QED
    BY <1>2, <1>3, <1>13, <1>14 DEF Next

\* The registry implements the sequential fallback contract, whatever the other
\* threads, the pushes on other clones and the backends' own calls do meanwhile:
\* the caller of a codec sees declines in push order and then one ending.
THEOREM CallersSeeTheContract == Spec => ImplementsContract
  <1>1. Init => Contract!Init
    <2> SUFFICES ASSUME Init PROVE Contract!Init
      OBVIOUS
    <2>1. \A t \in Threads : Busy(t) = FALSE
      BY DEF Init, Busy
    <2>2. SeenOpen = [t \in Threads |-> FALSE]
      BY <2>1, Zenon DEF SeenOpen
    <2>3. SeenWidth = [t \in Threads |-> 0]
      BY <2>1 DEF Init, SeenWidth
    <2>4. SeenAnswers = [t \in Threads |-> <<>>]
      BY <2>1 DEF Init, SeenAnswers
    <2>5. SeenVerdict = [t \in Threads |-> "none"]
      BY <2>1 DEF Init, SeenVerdict
    <2> QED
      BY <2>2, <2>3, <2>4, <2>5 DEF Contract!Init
  <1>2. IInv /\ [Next]_vars => [Contract!Next]_Contract!vars
    BY SeenSteps DEF seen, Contract!vars
  <1> QED
    BY <1>1, <1>2, InvariantHolds, PTL DEF Spec, ImplementsContract, Contract!Steps

==================================================================================
