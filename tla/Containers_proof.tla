---------------------------- MODULE Containers_proof ----------------------------
(* Two of the containers.  gamut-heic: for every item graph, cyclic or deep, for every  *)
(* limit and every payload, the derivation guard holds exactly the items being derived. *)
(* gamut-webp: for every encode, every stray chunk, any number of damaged chunks and    *)
(* any number of transcodes, what befell a file shows only where it befell.             *)
EXTENDS HeifDerivation, WebpFile, SequenceLemmas, FiniteSetTheorems, FunctionTheorems

(***************************************************************************)
(* The derivation guard of gamut-heic                                      *)
(***************************************************************************)

LEMMA SelectedIsIn ==
    ASSUME NEW n \in Nat, NEW holds, holds \subseteq 1 .. n, holds # {}
    PROVE  Min(holds) \in holds
  <1>1. holds \in SUBSET Nat
    OBVIOUS
  <1> QED
    BY <1>1, LeastOf

\* The references of an item that there is are lists of ids.
LEMMA SourcesAreIds ==
    ASSUME NEW img, IsImage(img), NEW id, HasItem(img, id)
    PROVE  Sources(Item(img, id)) \in Seq(Nat)
  <1> DEFINE n == Len(img.items)
             I == {i \in 1 .. n : img.items[i].id = id}
             p == Position(img, id)
  <1>1. n \in Nat
    BY DEF IsImage
  <1>2. p = IF I # {} THEN Min(I) ELSE 0
    BY DEF Position, SelectInSeq
  <1>3. p \in 1 .. n
    <2>1. I \subseteq 1 .. n
      OBVIOUS
    <2> HIDE DEF I
    <2> QED
      BY <1>1, <1>2, <2>1, SelectedIsIn DEF HasItem
  <1> DEFINE item == Item(img, id)
             m == Len(item.refs)
             J == {j \in 1 .. m : item.refs[j].type = "dimg"}
             k == SelectInSeq(item.refs, LAMBDA r : r.type = "dimg")
  <1>4. item = img.items[p]
    BY DEF Item
  <1>5. m \in Nat /\ \A j \in 1 .. m : item.refs[j].to \in Seq(Nat)
    BY <1>3, <1>4 DEF IsImage
  <1>6. k = IF J # {} THEN Min(J) ELSE 0
    BY DEF SelectInSeq
  <1>7. k = 0 \/ k \in 1 .. m
    <2>1. J \subseteq 1 .. m
      OBVIOUS
    <2> HIDE DEF J, m, k
    <2> QED
      BY <1>5, <1>6, <2>1, SelectedIsIn
  <1>8. Sources(item) = IF k = 0 THEN <<>> ELSE item.refs[k].to
    BY DEF Sources, Targets
  <1> HIDE DEF item, m, k
  <1>9. Sources(item) \in Seq(Nat)
    BY <1>5, <1>7, <1>8, EmptySeq
  <1> QED
    BY <1>9 DEF item

\* The activations made of a list of ids.
LEMMA InvokedEach ==
    ASSUME NEW S, NEW ids \in Seq(S), NEW fn
    PROVE  LET c == Invocations(fn, ids) IN
           Len(c) \in Nat /\ \A k \in 1 .. Len(c) : \E id : c[k] = Invoke(fn, id)
  <1> DEFINE c == [k \in DOMAIN ids |-> Invoke(fn, ids[k])]
             T == {Invoke(fn, ids[k]) : k \in DOMAIN ids}
  <1>1. Len(ids) \in Nat /\ DOMAIN ids = 1 .. Len(ids)
    BY LenProperties
  <1>2. c \in [1 .. Len(ids) -> T]
    BY <1>1
  <1>3. c \in Seq(T)
    BY <1>1, <1>2, IsASeq
  <1>4. Len(c) \in Nat /\ DOMAIN c = 1 .. Len(c)
    BY <1>3, LenProperties
  <1>5. \A k \in DOMAIN c : c[k] = Invoke(fn, ids[k])
    OBVIOUS
  <1> HIDE DEF c
  <1> QED
    BY <1>4, <1>5 DEF c, Invocations

\* What an activation calls: pixel conversions of the overlay's inputs, or planes.
LEMMA CalleesAre ==
    ASSUME StackOK, calls # <<>>, Top.at = "running"
    PROVE  /\ Len(Callees) \in Nat
           /\ \A k \in 1 .. Len(Callees) :
                 \E id : Callees[k] = Invoke(IF Composes(Top) THEN "rgba" ELSE "planar", id)
  <1>1. Len(calls) \in DOMAIN calls
    BY EmptySeq, LenProperties DEF StackOK
  <1>2. HasItem(image, Top.id) /\ IsImage(image) /\ Top.fn \in {"planar", "rgba"}
    BY <1>1 DEF StackOK, Top, Activation
  <1>3. Sources(This) \in Seq(Nat)
    BY <1>2, SourcesAreIds DEF This
  <1>4. CASE Top.fn = "rgba" /\ Kind(This) = "iovl"
    <2>1. Composes(Top)
      BY <1>4 DEF Composes, This
    <2>2. Callees = Invocations("rgba", Sources(This))
      BY <1>4, <2>1 DEF Callees
    <2> QED
      BY <1>3, <2>1, <2>2, InvokedEach
  <1>5. CASE Top.fn = "rgba" /\ Kind(This) # "iovl"
    <2> DEFINE found == SelectSeq(Referencing(image, "auxl", Top.id), IsAlpha)
               n == IF found = <<>> THEN 0 ELSE 1
               alpha == AlphaAuxiliary(image, Top.id)
               more == Ids(alpha)
               ids == <<Top.id>> \o more
    <2>1. alpha = SubSeq(found, 1, n)
      BY DEF AlphaAuxiliary
    <2> HIDE DEF found
    <2>2. alpha \in Seq({found[1]})
      <3>1. n \in Int /\ \A i \in 1 .. n : found[i] \in {found[1]}
        OBVIOUS
      <3> HIDE DEF n, alpha
      <3> QED
        BY <2>1, <3>1, SubSeqProperties
    <2> HIDE DEF alpha, n
    <2> DEFINE T == {alpha[k].id : k \in DOMAIN alpha} \cup {Top.id}
    <2>3. more \in Seq(T)
      <3>1. Len(alpha) \in Nat /\ DOMAIN alpha = 1 .. Len(alpha)
        BY <2>2, LenProperties
      <3>2. more \in [1 .. Len(alpha) -> T]
        BY <3>1 DEF Ids
      <3> QED
        BY <3>1, <3>2, IsASeq
    <2>4. ids \in Seq(T)
      <3>1. <<Top.id>> \in Seq(T)
        OBVIOUS
      <3> HIDE DEF T, more
      <3> QED
        BY <2>3, <3>1, ConcatProperties
    <2>5. ~Composes(Top)
      BY <1>5 DEF Composes, This
    <2>6. Callees = Invocations("planar", ids)
      BY <1>5, <2>5 DEF Callees, alpha
    <2> HIDE DEF ids, T
    <2> QED
      BY <2>4, <2>5, <2>6, InvokedEach
  <1>6. CASE Top.fn = "planar"
    <2>1. ~Composes(Top)
      BY <1>6 DEF Composes
    <2>2. CASE Kind(This) \in {"iden", "grid"}
      <3>1. Callees = Invocations("planar", Sources(This))
        BY <1>6, <2>1, <2>2 DEF Callees
      <3> QED
        BY <1>3, <2>1, <3>1, InvokedEach
    <2>3. CASE Kind(This) \notin {"iden", "grid"}
      <3>1. Callees = <<>>
        BY <1>6, <2>1, <2>3 DEF Callees
      <3> QED
        BY <3>1, EmptySeq
    <2> QED
      BY <2>2, <2>3
  <1> QED
    BY <1>2, <1>4, <1>5, <1>6

----------------------------------------------------------------------------
\* The guard and the stack.

\* Composes and Guarded, of an activation over an image.
Overlays(img, c) == c.fn = "rgba" /\ Kind(Item(img, c.id)) = "iovl"
Derives(img, c) == c.fn = "planar" \/ Overlays(img, c)

\* One more activation that is guarded, and that has entered.
LEMMA FollowsPushed ==
    ASSUME NEW S, NEW g \in Seq(S), NEW cs, NEW ds, NEW m \in Nat, NEW u, NEW held, NEW now,
           Follows(g, cs, m, u, held), m + 1 \in now,
           \A k \in 1 .. m : ds[k].id = cs[k].id /\ (k \in now <=> k \in held)
    PROVE  \E v \in 1 .. m + 2 : Follows(Append(g, ds[m + 1].id), ds, m + 1, v, now)
  <1> DEFINE v == IF u <= m THEN u ELSE m + 2
             h == Append(g, ds[m + 1].id)
  <1>1. u \in 1 .. m + 1 /\ Len(g) \in Nat /\ Len(g) = (IF u <= m THEN m - 1 ELSE m)
    BY LenProperties DEF Follows
  <1>2. Len(h) = Len(g) + 1 /\ h[Len(g) + 1] = ds[m + 1].id /\ \A d \in 1 .. Len(g) : h[d] = g[d]
    <2>1. g \in Seq(S \cup {ds[m + 1].id})
      BY Widened
    <2> QED
      BY <2>1, AppendProperties
  <1> HIDE DEF h
  <1>3. v \in 1 .. m + 2 /\ Len(h) = (IF v <= m + 1 THEN m ELSE m + 1)
    BY <1>1, <1>2
  <1>4. ASSUME NEW k \in 1 .. m + 1 PROVE k \in now <=> k # v
    <2>1. CASE k = m + 1
      BY <1>1, <2>1
    <2>2. CASE k \in 1 .. m
      BY <1>1, <2>2 DEF Follows
    <2> QED
      BY <2>1, <2>2
  <1>5. ASSUME NEW d \in 1 .. Len(h) PROVE h[d] = ds[IF d < v THEN d ELSE d + 1].id
    <2>1. CASE d = Len(g) + 1
      <3>1. (IF d < v THEN d ELSE d + 1) = m + 1
        BY <1>1, <2>1
      <3> QED
        BY <1>2, <2>1, <3>1
    <2>2. CASE d \in 1 .. Len(g)
      <3> DEFINE e == IF d < u THEN d ELSE d + 1
      <3>1. e \in 1 .. m /\ e = (IF d < v THEN d ELSE d + 1)
        BY <1>1, <2>2
      <3>2. g[d] = cs[e].id
        BY <2>2 DEF Follows
      <3> HIDE DEF e
      <3> QED
        BY <1>2, <2>2, <3>1, <3>2
    <2> QED
      BY <1>1, <1>2, <2>1, <2>2
  <1>6. v \in 1 .. (m + 1) + 1 /\ (m + 1) - 1 = m
    BY <1>1
  <1> QED
    BY <1>3, <1>4, <1>5, <1>6 DEF Follows, h

\* One more that is not.
LEMMA FollowsPassed ==
    ASSUME NEW g, NEW cs, NEW ds, NEW m \in Nat, NEW u, NEW held, NEW now,
           Follows(g, cs, m, u, held), m + 1 \notin now, \A k \in 1 .. m : k \in held,
           \A k \in 1 .. m : ds[k].id = cs[k].id /\ (k \in now <=> k \in held)
    PROVE  Follows(g, ds, m + 1, m + 1, now)
  <1>1. u = m + 1 /\ Len(g) = m
    <2>1. u \in 1 .. m + 1 /\ Len(g) = (IF u <= m THEN m - 1 ELSE m)
      BY DEF Follows
    <2>2. u \in 1 .. m => u \in held /\ (u \in held <=> u # u)
      BY DEF Follows
    <2> QED
      BY <2>1, <2>2
  <1>2. \A d \in 1 .. Len(g) : g[d] = ds[d].id
    BY <1>1 DEF Follows
  <1> QED
    BY <1>1, <1>2 DEF Follows

\* The innermost activation returns.
LEMMA FollowsPopped ==
    ASSUME NEW S, NEW g \in Seq(S), NEW cs, NEW ds, NEW m \in Nat \ {0}, NEW u, NEW held, NEW now,
           Follows(g, cs, m, u, held),
           \A k \in 1 .. m - 1 : ds[k].id = cs[k].id /\ (k \in now <=> k \in held)
    PROVE  /\ m \in held => g # <<>> /\ \E v \in 1 .. m : Follows(Front(g), ds, m - 1, v, now)
           /\ m \notin held => \E v \in 1 .. m : Follows(g, ds, m - 1, v, now)
  <1>1. u \in 1 .. m + 1 /\ Len(g) \in Nat /\ Len(g) = (IF u <= m THEN m - 1 ELSE m)
    BY LenProperties DEF Follows
  <1>2. \A k \in 1 .. m : k \in held <=> k # u
    BY DEF Follows
  <1>3. CASE m \in held
    <2> DEFINE v == IF u < m THEN u ELSE m
    <2>1. u # m
      BY <1>2, <1>3
    <2>2. Len(g) > 0
      BY <1>1, <2>1
    <2>3. g # <<>>
      BY <2>2
    <2>4. Len(Front(g)) = Len(g) - 1 /\ \A d \in 1 .. Len(g) - 1 : Front(g)[d] = g[d]
      BY <2>3, Popped
    <2>5. v \in 1 .. m /\ Len(Front(g)) = (IF v <= m - 1 THEN m - 1 - 1 ELSE m - 1)
      BY <1>1, <2>1, <2>4
    <2>6. \A k \in 1 .. m - 1 : k \in now <=> k # v
      BY <1>1, <1>2, <2>1
    <2>7. ASSUME NEW d \in 1 .. Len(g) - 1
          PROVE  Front(g)[d] = ds[IF d < v THEN d ELSE d + 1].id
      <3> DEFINE e == IF d < u THEN d ELSE d + 1
      <3>1. e \in 1 .. m - 1 /\ e = (IF d < v THEN d ELSE d + 1) /\ d \in 1 .. Len(g)
        BY <1>1, <2>1
      <3>2. g[d] = cs[e].id
        BY <3>1 DEF Follows
      <3> HIDE DEF e
      <3> QED
        BY <2>4, <3>1, <3>2
    <2>8. v \in 1 .. (m - 1) + 1 /\ Follows(Front(g), ds, m - 1, v, now)
      BY <2>4, <2>5, <2>6, <2>7 DEF Follows
    <2> QED
      BY <1>3, <2>3, <2>5, <2>8
  <1>4. CASE m \notin held
    <2>1. u = m /\ Len(g) = m - 1
      BY <1>1, <1>2, <1>4
    <2>2. \A k \in 1 .. m - 1 : k \in now <=> k # m
      BY <1>2, <2>1
    <2>3. \A d \in 1 .. Len(g) : g[d] = ds[IF d < m THEN d ELSE d + 1].id
      <3> TAKE d \in 1 .. Len(g)
      <3>1. d \in 1 .. m - 1 /\ d < m
        BY <2>1
      <3>2. g[d] = cs[d].id
        BY <2>1, <3>1 DEF Follows
      <3> QED
        BY <3>1, <3>2
    <2>4. Follows(g, ds, m - 1, m, now)
      BY <1>1, <2>1, <2>2, <2>3 DEF Follows
    <2> QED
      BY <1>4, <2>4
  <1> QED
    BY <1>3, <1>4

\* Follows speaks of the ids and of which activations are held only.
LEMMA Renamed ==
    ASSUME NEW g, NEW cs, NEW ds, NEW m \in Nat, NEW u, NEW held, NEW now,
           Follows(g, cs, m, u, held),
           \A k \in 1 .. m : ds[k].id = cs[k].id /\ (k \in now <=> k \in held)
    PROVE  Follows(g, ds, m, u, now)
  <1>1. u \in 1 .. m + 1 /\ Len(g) = (IF u <= m THEN m - 1 ELSE m)
    BY DEF Follows
  <1>2. ASSUME NEW d \in 1 .. Len(g) PROVE g[d] = ds[IF d < u THEN d ELSE d + 1].id
    <2> DEFINE e == IF d < u THEN d ELSE d + 1
    <2>1. e \in 1 .. m
      BY <1>1
    <2>2. g[d] = cs[e].id
      BY DEF Follows
    <2> HIDE DEF e
    <2>3. g[d] = ds[e].id
      BY <2>1, <2>2
    <2> QED
      BY <2>3 DEF e
  <1> QED
    BY <1>1, <1>2 DEF Follows

LEMMA FrontOfInjective ==
    ASSUME NEW S, NEW g \in Seq(S), g # <<>>, IsInjective(g), Len(g) <= MaxDepth
    PROVE  /\ Front(g) \in Seq(Range(Front(g))) /\ IsInjective(Front(g))
           /\ Len(Front(g)) <= MaxDepth
  <1>1. Len(g) \in Nat /\ DOMAIN g = 1 .. Len(g)
    BY LenProperties
  <1>2. /\ Front(g) \in Seq(S) /\ Len(Front(g)) = Len(g) - 1
        /\ DOMAIN Front(g) = 1 .. Len(g) - 1
        /\ \A d \in 1 .. Len(g) - 1 : Front(g)[d] = g[d]
    BY Popped
  <1>3. IsInjective(Front(g))
    BY <1>1, <1>2 DEF IsInjective
  <1> QED
    BY <1>1, <1>2, <1>3, SeqOfRange, MaxDepthAssumption

LEMMA AppendOfInjective ==
    ASSUME NEW S, NEW g \in Seq(S), IsInjective(g), Len(g) <= MaxDepth, NEW x,
           x \notin Range(g), ~(Len(g) >= MaxDepth)
    PROVE  /\ Append(g, x) \in Seq(Range(Append(g, x))) /\ IsInjective(Append(g, x))
           /\ Len(Append(g, x)) <= MaxDepth
  <1> DEFINE h == Append(g, x)
  <1>1. Len(g) \in Nat /\ DOMAIN g = 1 .. Len(g)
    BY LenProperties
  <1>2. h \in Seq(S \cup {x}) /\ Len(h) = Len(g) + 1 /\ h[Len(g) + 1] = x
        /\ \A d \in 1 .. Len(g) : h[d] = g[d]
    <2>1. g \in Seq(S \cup {x})
      BY Widened
    <2> QED
      BY <2>1, AppendProperties
  <1> HIDE DEF h
  <1>3. DOMAIN h = 1 .. Len(g) + 1 /\ \A d \in 1 .. Len(g) : g[d] # x
    BY <1>1, <1>2, LenProperties DEF Range
  <1>4. IsInjective(h)
    BY <1>1, <1>2, <1>3 DEF IsInjective
  <1>5. Len(h) <= MaxDepth
    BY <1>1, <1>2, MaxDepthAssumption
  <1> QED
    BY <1>2, <1>4, <1>5, SeqOfRange DEF h

----------------------------------------------------------------------------
\* The steps.
LEMMA StackParts ==
    ASSUME StackOK
    PROVE  /\ Len(calls) \in Nat /\ DOMAIN calls = 1 .. Len(calls)
           /\ calls # <<>> <=> Len(calls) # 0
           /\ calls # <<>> => Len(calls) \in 1 .. Len(calls) /\ Activation(Top)
  <1>1. Len(calls) \in Nat /\ DOMAIN calls = 1 .. Len(calls) /\ (calls # <<>> <=> Len(calls) # 0)
    BY EmptySeq, LenProperties DEF StackOK
  <1> QED
    BY <1>1 DEF StackOK, Top

\* The stack of another state, seen activation by activation.
LEMMA StackIsOK ==
    ASSUME NEW R, calls' \in Seq(R), calls' # <<>> => IsImage(image'),
           ret' # Pending => \A k \in 1 .. Len(calls') : calls'[k].at = "running",
           \A k \in 1 .. Len(calls') :
              /\ Activation(calls'[k])
              /\ k < Len(calls') => calls'[k].at = "running"
              /\ calls'[k].at = "running" => HasItem(image', calls'[k].id)
              /\ \A j \in 1 .. k - 1 : Overlays(image', calls'[j]) \/ calls'[k].fn = "planar"
    PROVE  StackOK'
  <1>1. Len(calls') \in Nat /\ DOMAIN calls' = 1 .. Len(calls') /\ (calls' # <<>> <=> Len(calls') # 0)
    BY EmptySeq, LenProperties
  <1>2. calls' \in Seq(Range(calls'))
    BY SeqOfRange
  <1>3. (calls # <<>> /\ ret # Pending => Top.at = "running")'
    BY <1>1 DEF Top
  <1>4. (\A k \in 1 .. Len(calls) - 1 : calls[k].at = "running")'
    BY <1>1
  <1>5. ASSUME NEW j \in 1 .. Len(calls'), NEW k \in 1 .. Len(calls'), j < k, ~Overlays(image', calls'[j])
        PROVE  calls'[k].fn = "planar"
    BY <1>1, <1>5
  <1> QED
    BY <1>1, <1>2, <1>3, <1>4, <1>5 DEF StackOK, Composes, Overlays

LEMMA Leaves ==
    ASSUME GuardInv, calls # <<>>, NEW held \in BOOLEAN, NEW o, Leave(held, o),
           held <=> Top.at = "running" /\ Guarded(Top)
    PROVE  GuardInv'
  <1> DEFINE n == Len(calls)
  <1>1. StackOK /\ guard \in Seq(Range(guard)) /\ IsInjective(guard) /\ Len(guard) <= MaxDepth
    BY DEF GuardInv
  <1>2. n \in Nat /\ DOMAIN calls = 1 .. n /\ n \in 1 .. n /\ Activation(Top) /\ Top = calls[n]
    BY <1>1, StackParts DEF Top
  <1>3. /\ calls' \in Seq(Range(calls)) /\ Len(calls') = n - 1 /\ DOMAIN calls' = 1 .. n - 1
        /\ \A k \in 1 .. n - 1 : calls'[k] = calls[k]
        /\ image' = image
    BY <1>1, Popped DEF Leave, StackOK
  <1>4. \A k \in 1 .. n - 1 : calls[k].at = "running"
    BY <1>1 DEF StackOK
  <1>5. StackOK'
    <2>1. ASSUME NEW k \in 1 .. n - 1, NEW j \in 1 .. k - 1
          PROVE  Overlays(image', calls'[j]) \/ calls'[k].fn = "planar"
      <3>1. j \in 1 .. n - 1 /\ j < k /\ j \in DOMAIN calls /\ k \in DOMAIN calls
        BY <1>2
      <3>2. Overlays(image, calls[j]) \/ calls[k].fn = "planar"
        BY <1>1, <3>1 DEF StackOK, Composes, Overlays
      <3>3. calls'[j] = calls[j] /\ calls'[k] = calls[k]
        BY <1>3, <3>1
      <3> QED
        BY <1>3, <3>2, <3>3
    <2>2. ASSUME NEW k \in 1 .. n - 1
          PROVE  /\ Activation(calls'[k])
                 /\ calls'[k].at = "running"
                 /\ HasItem(image', calls'[k].id)
      <3>1. k \in DOMAIN calls /\ calls'[k] = calls[k] /\ calls[k].at = "running"
        BY <1>2, <1>3, <1>4
      <3>2. Activation(calls[k]) /\ HasItem(image, calls[k].id)
        BY <1>1, <3>1 DEF StackOK
      <3> QED
        BY <1>3, <3>1, <3>2
    <2>3. IsImage(image')
      BY <1>1, <1>3 DEF StackOK
    <2> QED
      BY <1>3, <2>1, <2>2, <2>3, StackIsOK
  <1>6. Entered' = n - 1
    <2>1. calls' # <<>> => n - 1 \in 1 .. n - 1
      BY <1>2, <1>3, EmptySeq
    <2>2. calls' # <<>> => Top'.at = "running"
      BY <1>3, <1>4, <2>1 DEF Top
    <2> QED
      BY <1>3, <2>2 DEF Entered
  <1>7. \A k \in 1 .. n - 1 : calls'[k].id = calls[k].id /\ (k \in Held' <=> k \in Held)
    <2> TAKE k \in 1 .. n - 1
    <2>1. k \in DOMAIN calls /\ k \in DOMAIN calls' /\ calls'[k] = calls[k]
      BY <1>2, <1>3
    <2>2. k \in Held' <=> Derives(image', calls'[k])
      BY <2>1 DEF Held, Guarded, Composes, Derives, Overlays
    <2>3. k \in Held <=> Derives(image, calls[k])
      BY <2>1 DEF Held, Guarded, Composes, Derives, Overlays
    <2> QED
      BY <1>3, <2>1, <2>2, <2>3
  <1>8. PICK u \in 1 .. Entered + 1 : Follows(guard, calls, Entered, u, Held)
    BY DEF GuardInv
  <1>9. CASE Top.at = "start"
    <2>1. Entered = n - 1 /\ ~held
      BY <1>9 DEF Entered
    <2>2. guard' = guard
      BY <2>1 DEF Leave, LeaveDerivation
    <2>3. Follows(guard', calls', Entered', u, Held')
      BY <1>6, <1>7, <1>8, <2>1, <2>2, Renamed
    <2> QED
      BY <1>1, <1>5, <1>6, <1>8, <2>1, <2>2, <2>3 DEF GuardInv
  <1>10. CASE Top.at = "running"
    <2>1. Entered = n /\ (held <=> n \in Held)
      BY <1>2, <1>10 DEF Entered, Held
    <2>2. /\ n \in Held => guard # <<>> /\ \E v \in 1 .. n : Follows(Front(guard), calls', n - 1, v, Held')
          /\ n \notin Held => \E v \in 1 .. n : Follows(guard, calls', n - 1, v, Held')
      <3>1. n \in Nat \ {0}
        BY <1>2
      <3>2. Follows(guard, calls, n, u, Held)
        BY <1>8, <2>1
      <3> HIDE DEF n
      <3> QED
        BY <1>1, <1>7, <3>1, <3>2, FollowsPopped
    <2>3. CASE n \in Held
      <3>1. guard' = Front(guard) /\ guard # <<>>
        BY <2>1, <2>2, <2>3 DEF Leave, LeaveDerivation
      <3>2. \E v \in 1 .. Entered' + 1 : Follows(guard', calls', Entered', v, Held')
        BY <1>2, <1>6, <2>2, <2>3, <3>1
      <3>3. guard' \in Seq(Range(guard')) /\ IsInjective(guard') /\ Len(guard') <= MaxDepth
        BY <1>1, <3>1, FrontOfInjective
      <3> QED
        BY <1>5, <3>2, <3>3 DEF GuardInv
    <2>4. CASE n \notin Held
      <3>1. guard' = guard
        BY <2>1, <2>4 DEF Leave, LeaveDerivation
      <3>2. \E v \in 1 .. Entered' + 1 : Follows(guard', calls', Entered', v, Held')
        BY <1>2, <1>6, <2>2, <2>4, <3>1
      <3> QED
        BY <1>1, <1>5, <3>1, <3>2 DEF GuardInv
    <2> QED
      BY <2>3, <2>4
  <1> QED
    BY <1>2, <1>9, <1>10 DEF Activation

\* The innermost activation changes its state, and goes on.
LEMMA Retops ==
    ASSUME StackOK, calls # <<>>, NEW f, Activation(f), f.fn = Top.fn, f.id = Top.id,
           f.at = "running", HasItem(image, Top.id),
           calls' = [calls EXCEPT ![Len(calls)] = f], image' = image
    PROVE  /\ StackOK' /\ Len(calls') = Len(calls) /\ Entered' = Len(calls)
           /\ \A k \in 1 .. Len(calls) :
                 calls'[k].id = calls[k].id /\ (k \in Held' <=> k \in Held)
  <1> DEFINE n == Len(calls)
             R == Range(calls) \cup {f}
  <1>1. n \in Nat /\ DOMAIN calls = 1 .. n /\ n \in 1 .. n /\ Top = calls[n]
    BY StackParts DEF Top
  <1>2. calls \in Seq(R) /\ f \in R
    BY Widened DEF StackOK
  <1>3. /\ calls' \in Seq(R) /\ Len(calls') = n /\ DOMAIN calls' = 1 .. n
        /\ calls'[n] = f /\ \A k \in 1 .. n - 1 : calls'[k] = calls[k]
    <2> DEFINE r == [calls EXCEPT ![Len(calls)] = f]
    <2> HIDE DEF R
    <2>1. /\ r \in Seq(R) /\ Len(r) = Len(calls) /\ DOMAIN r = 1 .. Len(calls)
          /\ r[Len(calls)] = f /\ \A d \in 1 .. Len(calls) - 1 : r[d] = calls[d]
      BY <1>2, Retopped
    <2>2. calls' = r
      OBVIOUS
    <2> QED
      BY <2>1, <2>2
  <1>4. \A k \in 1 .. n : /\ calls'[k].fn = calls[k].fn /\ calls'[k].id = calls[k].id
                          /\ calls'[k].at = "running" /\ HasItem(image, calls[k].id)
                          /\ Activation(calls'[k])
    <2> TAKE k \in 1 .. n
    <2>1. CASE k = n
      BY <1>1, <1>3, <2>1
    <2>2. CASE k # n
      <3>1. k \in 1 .. n - 1 /\ k \in DOMAIN calls
        <4>1. n \in Nat /\ DOMAIN calls = 1 .. n
          BY <1>1
        <4> HIDE DEF n
        <4> QED
          BY <2>2, <4>1
      <3>2. calls'[k] = calls[k] /\ calls[k].at = "running"
        BY <1>3, <3>1 DEF StackOK
      <3> QED
        BY <3>1, <3>2 DEF StackOK
    <2> QED
      BY <2>1, <2>2
  <1>5. \A k \in 1 .. n : Overlays(image', calls'[k]) <=> Overlays(image, calls[k])
    BY <1>4 DEF Overlays
  <1>6. StackOK'
    <2>1. ASSUME NEW k \in 1 .. n, NEW j \in 1 .. k - 1
          PROVE  Overlays(image', calls'[j]) \/ calls'[k].fn = "planar"
      <3>1. j \in 1 .. n /\ j < k
        BY <1>1
      <3>2. Overlays(image, calls[j]) \/ calls[k].fn = "planar"
        BY <1>1, <3>1 DEF StackOK, Composes, Overlays
      <3> QED
        BY <1>4, <1>5, <3>1, <3>2
    <2>2. IsImage(image')
      BY DEF StackOK
    <2> HIDE DEF R
    <2> QED
      BY <1>3, <1>4, <2>1, <2>2, StackIsOK
  <1>7. Entered' = n
    <2>1. Top'.at = "running"
      BY <1>1, <1>3 DEF Top
    <2> QED
      BY <1>3, <2>1 DEF Entered
  <1>8. \A k \in 1 .. n : k \in Held' <=> k \in Held
    <2> TAKE k \in 1 .. n
    <2>1. k \in Held' <=> Derives(image', calls'[k])
      BY <1>3 DEF Held, Guarded, Composes, Derives, Overlays
    <2>2. k \in Held <=> Derives(image, calls[k])
      BY <1>1 DEF Held, Guarded, Composes, Derives, Overlays
    <2> QED
      BY <1>4, <1>5, <2>1, <2>2 DEF Derives
  <1> QED
    BY <1>3, <1>4, <1>6, <1>7, <1>8

LEMMA EnterKeeps == GuardInv /\ Enter => GuardInv'
  <1> SUFFICES ASSUME GuardInv, Enter PROVE GuardInv'
    OBVIOUS
  <1> DEFINE n == Len(calls)
             f == [Top EXCEPT !.at = "running"]
  <1>1. StackOK /\ guard \in Seq(Range(guard)) /\ IsInjective(guard) /\ Len(guard) <= MaxDepth
    BY DEF GuardInv
  <1>2. calls # <<>> /\ Top.at = "start" /\ EntryRefusal = "none"
    BY DEF Enter, Running
  <1>3. n \in Nat /\ DOMAIN calls = 1 .. n /\ n \in 1 .. n /\ Activation(Top) /\ Top = calls[n]
    BY <1>1, <1>2, StackParts DEF Top
  <1>4. /\ HasItem(image, Top.id)
        /\ Guarded(Top) => Top.id \notin Range(guard) /\ ~(Len(guard) >= MaxDepth)
    BY <1>2 DEF EntryRefusal
  <1>5. f.fn = Top.fn /\ f.id = Top.id /\ f.at = "running" /\ Activation(f)
    BY <1>3 DEF Activation
  <1>6. calls' = [calls EXCEPT ![n] = f] /\ image' = image
    BY <1>3 DEF Enter
  <1> HIDE DEF f
  <1>7. /\ StackOK' /\ Len(calls') = n /\ Entered' = n
        /\ \A k \in 1 .. n : calls'[k].id = calls[k].id /\ (k \in Held' <=> k \in Held)
    BY <1>1, <1>2, <1>4, <1>5, <1>6, Retops
  <1>8. Entered = n - 1
    BY <1>2 DEF Entered
  <1>9. PICK u \in 1 .. Entered + 1 : Follows(guard, calls, Entered, u, Held)
    BY DEF GuardInv
  <1>10. n \in Held <=> Guarded(Top)
    BY <1>3 DEF Held
  <1>11. /\ n - 1 \in Nat /\ (n - 1) + 1 = n /\ (n - 1) + 2 = n + 1
         /\ \A k \in 1 .. n - 1 : k \in 1 .. n
    BY <1>3
  <1>12. \A k \in 1 .. n - 1 : calls'[k].id = calls[k].id /\ (k \in Held' <=> k \in Held)
    BY <1>7, <1>11
  <1>13. CASE Guarded(Top)
    <2>1. guard' = Append(guard, Top.id) /\ n \in Held' /\ calls'[n].id = Top.id
      BY <1>3, <1>7, <1>10, <1>13 DEF Enter
    <2>2. \E v \in 1 .. n + 1 : Follows(Append(guard, calls'[n].id), calls', n, v, Held')
      <3>1. Follows(guard, calls, n - 1, u, Held)
        BY <1>8, <1>9
      <3> DEFINE m == n - 1
      <3>2. /\ m \in Nat /\ m + 1 = n /\ m + 2 = n + 1 /\ Follows(guard, calls, m, u, Held)
            /\ \A k \in 1 .. m : calls'[k].id = calls[k].id /\ (k \in Held' <=> k \in Held)
        BY <1>11, <1>12, <3>1
      <3> HIDE DEF m, n
      <3>3. \E v \in 1 .. m + 2 : Follows(Append(guard, calls'[m + 1].id), calls', m + 1, v, Held')
        BY <1>1, <2>1, <3>2, FollowsPushed
      <3> QED
        BY <3>2, <3>3
    <2>3. /\ Append(guard, Top.id) \in Seq(Range(Append(guard, Top.id)))
          /\ IsInjective(Append(guard, Top.id)) /\ Len(Append(guard, Top.id)) <= MaxDepth
      <3> DEFINE S == Range(guard)
      <3>1. guard \in Seq(S) /\ Top.id \notin Range(guard) /\ ~(Len(guard) >= MaxDepth)
        BY <1>1, <1>4, <1>13
      <3> HIDE DEF S
      <3> QED
        BY <1>1, <3>1, AppendOfInjective
    <2> QED
      BY <1>7, <2>1, <2>2, <2>3 DEF GuardInv
  <1>14. CASE ~Guarded(Top)
    <2>1. guard' = guard /\ n \notin Held'
      BY <1>3, <1>7, <1>10, <1>14 DEF Enter
    <2>2. ASSUME NEW k \in 1 .. n - 1 PROVE k \in Held
      <3>1. k \in DOMAIN calls /\ n \in DOMAIN calls /\ k < n
        BY <1>3
      <3>2. Composes(calls[k]) \/ calls[n].fn = "planar"
        BY <1>1, <3>1 DEF StackOK
      <3>3. calls[n].fn # "planar"
        BY <1>3, <1>14 DEF Guarded
      <3> QED
        BY <3>1, <3>2, <3>3 DEF Held, Guarded
    <2>3. Follows(guard, calls', n, n, Held')
      <3> DEFINE m == n - 1
      <3>1. /\ m \in Nat /\ m + 1 = n /\ Follows(guard, calls, m, u, Held) /\ m + 1 \notin Held'
            /\ \A k \in 1 .. m : calls'[k].id = calls[k].id /\ (k \in Held' <=> k \in Held)
            /\ \A k \in 1 .. m : k \in Held
        BY <1>8, <1>9, <1>11, <1>12, <2>1, <2>2
      <3> HIDE DEF m, n
      <3>2. Follows(guard, calls', m + 1, m + 1, Held')
        BY <3>1, FollowsPassed
      <3> QED
        BY <3>1, <3>2
    <2>4. \E v \in 1 .. Entered' + 1 : Follows(guard', calls', Entered', v, Held')
      BY <1>3, <1>7, <2>1, <2>3
    <2> QED
      BY <1>1, <1>7, <2>1, <2>4 DEF GuardInv
  <1> QED
    BY <1>13, <1>14

LEMMA ResumeKeeps == GuardInv /\ Resume => GuardInv'
  <1> SUFFICES ASSUME GuardInv, Resume PROVE GuardInv'
    OBVIOUS
  <1> DEFINE n == Len(calls)
             f == [Top EXCEPT !.got = Append(@, ret.val)]
  <1>1. StackOK /\ calls # <<>> /\ ret # Pending
    BY DEF GuardInv, Resume
  <1>2. Top.at = "running" /\ Activation(Top) /\ Top = calls[n] /\ n \in DOMAIN calls /\ n \in 1 .. n
    BY <1>1, StackParts DEF StackOK, Top
  <1>3. f.fn = Top.fn /\ f.id = Top.id /\ f.at = "running" /\ f.got = Append(Top.got, ret.val)
        /\ f = [fn |-> f.fn, id |-> f.id, at |-> f.at, got |-> f.got]
    BY <1>2 DEF Activation
  <1>4. f.got \in Seq(Range(f.got))
    <2>1. Top.got \in Seq(Range(Top.got) \cup {ret.val})
      BY <1>2, Widened DEF Activation
    <2>2. Append(Top.got, ret.val) \in Seq(Range(Top.got) \cup {ret.val})
      BY <2>1, AppendProperties
    <2> QED
      BY <1>3, <2>2, SeqOfRange
  <1>5. Activation(f)
    BY <1>2, <1>3, <1>4 DEF Activation
  <1>6. calls' = [calls EXCEPT ![n] = f] /\ image' = image /\ guard' = guard
    BY <1>2 DEF Resume, Collected
  <1>7. HasItem(image, Top.id)
    BY <1>1, <1>2 DEF StackOK
  <1> HIDE DEF f
  <1>8. /\ StackOK' /\ Len(calls') = n /\ Entered' = n
        /\ \A k \in 1 .. n : calls'[k].id = calls[k].id /\ (k \in Held' <=> k \in Held)
    BY <1>1, <1>2, <1>3, <1>5, <1>6, <1>7, Retops
  <1>9. Entered = n /\ n \in Nat
    BY <1>1, <1>2, StackParts DEF Entered
  <1>10. PICK u \in 1 .. Entered + 1 : Follows(guard, calls, Entered, u, Held)
    BY DEF GuardInv
  <1>11. Follows(guard', calls', Entered', u, Held')
    BY <1>6, <1>8, <1>9, <1>10, Renamed
  <1> QED
    BY <1>6, <1>8, <1>9, <1>10, <1>11 DEF GuardInv

LEMMA CallKeeps == GuardInv /\ Call => GuardInv'
  <1> SUFFICES ASSUME GuardInv, Call PROVE GuardInv'
    OBVIOUS
  <1> DEFINE n == Len(calls)
             g == Len(Top.got) + 1
             c == Callees[g]
             R == Range(calls) \cup {c}
  <1>1. StackOK /\ calls # <<>> /\ Top.at = "running"
    BY DEF GuardInv, Call, Ready, Running
  <1>2. n \in Nat /\ DOMAIN calls = 1 .. n /\ n \in 1 .. n /\ Activation(Top) /\ Top = calls[n]
    BY <1>1, StackParts DEF Top
  <1>3. Len(Top.got) \in Nat
    BY <1>2, LenProperties DEF Activation
  <1>4. PICK id : c = Invoke(IF Composes(Top) THEN "rgba" ELSE "planar", id)
    <2>1. /\ Len(Callees) \in Nat
          /\ \A k \in 1 .. Len(Callees) :
                \E id : Callees[k] = Invoke(IF Composes(Top) THEN "rgba" ELSE "planar", id)
      BY <1>1, CalleesAre
    <2>2. Len(Top.got) < Len(Callees)
      BY DEF Call
    <2>3. g \in 1 .. Len(Callees)
      BY <1>3, <2>1, <2>2
    <2> QED
      BY <2>1, <2>3
  <1>5. /\ c.fn = (IF Composes(Top) THEN "rgba" ELSE "planar") /\ c.at = "start" /\ c.got = <<>>
        /\ c = [fn |-> c.fn, id |-> c.id, at |-> c.at, got |-> c.got]
    BY <1>4 DEF Invoke
  <1>6. calls' = Append(calls, c) /\ image' = image /\ guard' = guard /\ ret' = Pending
    BY DEF Call, Ready, Running
  <1> HIDE DEF c
  <1>7. Activation(c)
    BY <1>5, EmptySeq DEF Activation
  <1>8. /\ calls' \in Seq(R) /\ Len(calls') = n + 1 /\ DOMAIN calls' = 1 .. n + 1
        /\ calls'[n + 1] = c /\ \A k \in 1 .. n : calls'[k] = calls[k]
    <2>1. calls \in Seq(R) /\ c \in R
      BY <1>1, Widened DEF StackOK
    <2> HIDE DEF R
    <2> QED
      BY <1>2, <1>6, <2>1, AppendProperties, LenProperties
  <1>9. \A k \in 1 .. n : calls[k].at = "running"
    <2> TAKE k \in 1 .. n
    <2>1. n \in Nat
      BY <1>2
    <2>2. k = n \/ k \in 1 .. n - 1
      <3> HIDE DEF n
      <3> QED
        BY <2>1
    <2>3. CASE k = n
      BY <1>1, <1>2, <2>3
    <2>4. CASE k \in 1 .. n - 1
      BY <1>1, <2>4 DEF StackOK
    <2> QED
      BY <2>2, <2>3, <2>4
  <1>10. StackOK'
    <2>1. ASSUME NEW k \in 1 .. n + 1, NEW j \in 1 .. k - 1
          PROVE  Overlays(image', calls'[j]) \/ calls'[k].fn = "planar"
      <3>0. j \in 1 .. n /\ j < k /\ (k = n + 1 \/ k \in 1 .. n)
        <4>1. n \in Nat
          BY <1>2
        <4> HIDE DEF n
        <4> QED
          BY <4>1
      <3>1. j \in 1 .. n /\ n \in 1 .. n /\ calls'[j] = calls[j]
        BY <1>2, <1>8, <3>0
      <3>2. CASE k \in 1 .. n
        <4>1. j \in DOMAIN calls /\ k \in DOMAIN calls /\ j < k
          BY <1>2, <3>0, <3>2
        <4>2. Overlays(image, calls[j]) \/ calls[k].fn = "planar"
          BY <1>1, <4>1 DEF StackOK, Composes, Overlays
        <4> QED
          BY <1>6, <1>8, <3>1, <3>2, <4>2
      <3>3. CASE k = n + 1 /\ j = n
        BY <1>2, <1>5, <1>6, <1>8, <3>1, <3>3 DEF Composes, Overlays
      <3>4. CASE k = n + 1 /\ j # n
        <4>1. j < n /\ j \in DOMAIN calls /\ n \in DOMAIN calls
          <5>1. n \in Nat /\ DOMAIN calls = 1 .. n
            BY <1>2
          <5> HIDE DEF n
          <5> QED
            BY <3>1, <3>4, <5>1
        <4>2. Overlays(image, calls[j]) \/ calls[n].fn = "planar"
          BY <1>1, <4>1 DEF StackOK, Composes, Overlays
        <4>3. calls[n].fn = "planar" => c.fn = "planar"
          BY <1>2, <1>5 DEF Composes
        <4> QED
          BY <1>6, <1>8, <3>1, <3>4, <4>2, <4>3
      <3> QED
        BY <3>0, <3>2, <3>3, <3>4
    <2>2. ASSUME NEW k \in 1 .. n + 1
          PROVE  /\ Activation(calls'[k])
                 /\ k < n + 1 => calls'[k].at = "running"
                 /\ calls'[k].at = "running" => HasItem(image', calls'[k].id)
      <3>1. CASE k = n + 1
        BY <1>2, <1>5, <1>7, <1>8, <3>1
      <3>2. CASE k \in 1 .. n
        BY <1>1, <1>2, <1>6, <1>8, <1>9, <3>2 DEF StackOK
      <3> QED
        BY <1>2, <3>1, <3>2
    <2>3. IsImage(image')
      BY <1>1, <1>6 DEF StackOK
    <2> HIDE DEF R
    <2> QED
      BY <1>6, <1>8, <2>1, <2>2, <2>3, StackIsOK
  <1>11. Entered = n /\ Entered' = n
    <2>1. Top'.at = "start" /\ calls' # <<>>
      BY <1>2, <1>5, <1>8, EmptySeq DEF Top
    <2>2. Entered' = n + 1 - 1
      BY <1>8, <2>1 DEF Entered
    <2> QED
      BY <1>1, <1>2, <2>2 DEF Entered
  <1>12. \A k \in 1 .. n : calls'[k].id = calls[k].id /\ (k \in Held' <=> k \in Held)
    <2> TAKE k \in 1 .. n
    <2>1. k \in DOMAIN calls /\ k \in DOMAIN calls' /\ calls'[k] = calls[k]
      BY <1>2, <1>8
    <2>2. k \in Held' <=> Derives(image', calls'[k])
      BY <2>1 DEF Held, Guarded, Composes, Derives, Overlays
    <2>3. k \in Held <=> Derives(image, calls[k])
      BY <2>1 DEF Held, Guarded, Composes, Derives, Overlays
    <2> QED
      BY <1>6, <2>1, <2>2, <2>3
  <1>13. PICK u \in 1 .. Entered + 1 : Follows(guard, calls, Entered, u, Held)
    BY DEF GuardInv
  <1>14. Follows(guard', calls', Entered', u, Held')
    BY <1>2, <1>6, <1>11, <1>12, <1>13, Renamed
  <1> QED
    BY <1>6, <1>10, <1>11, <1>13, <1>14 DEF GuardInv

LEMMA BeginKeeps ==
    ASSUME GuardInv, NEW img, IsImage(img), NEW fn \in {"planar", "rgba"}, NEW id, NEW s,
           Begin(img, fn, id, s)
    PROVE  GuardInv'
  <1> DEFINE c == Invoke(fn, id)
  <1>1. /\ c.fn = fn /\ c.at = "start" /\ c.got = <<>>
        /\ c = [fn |-> c.fn, id |-> c.id, at |-> c.at, got |-> c.got]
    BY DEF Invoke
  <1>2. Activation(c)
    BY <1>1, EmptySeq DEF Activation
  <1>3. calls' = <<c>> /\ image' = img /\ guard' = <<>> /\ ret' = Pending
    BY DEF Begin
  <1> HIDE DEF c
  <1>4. calls' \in Seq({c}) /\ Len(calls') = 1 /\ calls'[1] = c /\ calls' # <<>>
    BY <1>3
  <1>5. StackOK'
    <2>1. ASSUME NEW k \in 1 .. Len(calls')
          PROVE  /\ Activation(calls'[k])
                 /\ ~(k < Len(calls'))
                 /\ calls'[k].at = "start"
                 /\ 1 .. k - 1 = {}
      <3>1. k = 1
        BY <1>4
      <3> QED
        BY <1>1, <1>2, <1>4, <3>1
    <2>2. IsImage(image') /\ ret' = Pending
      BY <1>3
    <2>3. ASSUME NEW k \in 1 .. Len(calls')
          PROVE  /\ Activation(calls'[k])
                 /\ k < Len(calls') => calls'[k].at = "running"
                 /\ calls'[k].at = "running" => HasItem(image', calls'[k].id)
                 /\ \A j \in 1 .. k - 1 : Overlays(image', calls'[j]) \/ calls'[k].fn = "planar"
      BY <2>1
    <2> QED
      BY <1>4, <2>2, <2>3, StackIsOK
  <1>6. Entered' = 0
    BY <1>1, <1>4 DEF Entered, Top
  <1>7. Follows(guard', calls', Entered', 1, Held')
    BY <1>3, <1>6 DEF Follows
  <1>8. guard' \in Seq(Range(guard')) /\ IsInjective(guard') /\ Len(guard') <= MaxDepth
    BY <1>3, EmptySeq, MaxDepthAssumption DEF IsInjective
  <1> QED
    BY <1>5, <1>6, <1>7, <1>8 DEF GuardInv

LEMMA InitGuard == DerivationInit => GuardInv
  <1> SUFFICES ASSUME DerivationInit PROVE GuardInv
    OBVIOUS
  <1>1. calls = <<>> /\ guard = <<>> /\ ret = Pending
    BY DEF DerivationInit
  <1>2. StackOK
    BY <1>1, EmptySeq DEF StackOK
  <1>3. Entered = 0
    BY <1>1 DEF Entered
  <1>4. Follows(guard, calls, Entered, 1, Held)
    BY <1>1, <1>3 DEF Follows
  <1>5. guard \in Seq(Range(guard)) /\ IsInjective(guard) /\ Len(guard) <= MaxDepth
    BY <1>1, EmptySeq, MaxDepthAssumption DEF IsInjective
  <1> QED
    BY <1>2, <1>3, <1>4, <1>5 DEF GuardInv

LEMMA NextGuard == GuardInv /\ [DerivationNext]_heifvars => GuardInv'
  <1> SUFFICES ASSUME GuardInv, [DerivationNext]_heifvars PROVE GuardInv'
    OBVIOUS
  <1>1. CASE Enter
    BY <1>1, EnterKeeps
  <1>2. CASE RefuseEntry
    <2>1. calls # <<>> /\ Top.at = "start" /\ Leave(FALSE, Bad(EntryRefusal))
      BY <1>2 DEF RefuseEntry, Running
    <2> QED
      BY <2>1, Leaves
  <1>3. CASE Call
    BY <1>3, CallKeeps
  <1>4. CASE Finish
    <2>1. calls # <<>> /\ Top.at = "running" /\ Leave(Guarded(Top), Result)
      BY <1>4 DEF Finish, Ready, Running
    <2>2. Guarded(Top) \in BOOLEAN
      BY DEF Guarded, Composes
    <2> QED
      BY <2>1, <2>2, Leaves
  <1>5. CASE Refuse
    <2>1. calls # <<>> /\ Top.at = "running" /\ Leave(Guarded(Top), Bad(Refusal))
      BY <1>5 DEF Refuse, Running
    <2>2. Guarded(Top) \in BOOLEAN
      BY DEF Guarded, Composes
    <2> QED
      BY <2>1, <2>2, Leaves
  <1>6. CASE Resume
    BY <1>6, ResumeKeeps
  <1>7. CASE Propagate
    <2>1. calls # <<>> /\ ret # Pending /\ Leave(Guarded(Top), ret)
      BY <1>7 DEF Propagate
    <2>2. Top.at = "running"
      BY <2>1 DEF GuardInv, StackOK
    <2>3. Guarded(Top) \in BOOLEAN
      BY DEF Guarded, Composes
    <2> QED
      BY <2>1, <2>2, <2>3, Leaves
  <1>8. ASSUME NEW img, NEW id, NEW s, IsImage(img), NEW fn \in {"planar", "rgba"},
               Begin(img, fn, id, s)
        PROVE  GuardInv'
    BY <1>8, BeginKeeps
  <1>9. CASE UNCHANGED heifvars
    BY <1>9 DEF heifvars, GuardInv, StackOK, Entered, Held, Guarded, Composes, Top
  <1> QED
    BY <1>1, <1>2, <1>3, <1>4, <1>5, <1>6, <1>7, <1>8, <1>9 DEF DerivationNext, Decoding

\* The guard is the stack without the activation that converts pixels, whatever items
\* refer to whatever items.
THEOREM GuardFollowsTheCalls == DerivationSpec => []GuardInv
  <1> QED
    BY InitGuard, NextGuard, PTL DEF DerivationSpec

LEMMA GuardedByInvariant == GuardInv => DerivationIsGuarded
  <1> SUFFICES ASSUME GuardInv PROVE DerivationIsGuarded
    OBVIOUS
  <1> DEFINE n == Len(calls)
             m == Entered
             at(u, d) == IF d < u THEN d ELSE d + 1
  <1>1. /\ StackOK /\ guard \in Seq(Range(guard)) /\ IsInjective(guard)
        /\ Len(guard) <= MaxDepth /\ MaxDepth \in Nat
    BY MaxDepthAssumption DEF GuardInv
  <1>2. /\ n \in Nat /\ DOMAIN calls = 1 .. n /\ (calls # <<>> <=> n # 0)
        /\ Len(guard) \in Nat /\ DOMAIN guard = 1 .. Len(guard)
    BY <1>1, StackParts, LenProperties
  <1>3. m \in Nat /\ m <= n /\ n <= m + 1 /\ (m = n \/ (m = n - 1 /\ calls[n].at = "start"))
    <2>1. CASE calls # <<>> /\ Top.at = "start"
      <3>1. m = n - 1 /\ n \in Nat \ {0} /\ calls[n].at = "start"
        BY <1>2, <2>1 DEF Entered, Top
      <3> HIDE DEF m, n
      <3> QED
        BY <3>1
    <2>2. CASE ~(calls # <<>> /\ Top.at = "start")
      <3>1. m = n /\ n \in Nat
        BY <1>2, <2>2 DEF Entered
      <3> HIDE DEF m, n
      <3> QED
        BY <3>1
    <2> QED
      BY <2>1, <2>2
  <1>4. \A k \in 1 .. n : k \in Derivations <=> k <= m /\ k \in Held
    <2> TAKE k \in 1 .. n
    <2>1. k \in Derivations <=> calls[k].at = "running" /\ k \in Held
      BY <1>2 DEF Derivations, Held
    <2>2. k \in 1 .. n - 1 => calls[k].at = "running"
      BY <1>1 DEF StackOK
    <2>3. m = n => (n # 0 => calls[n].at = "running")
      <3>1. SUFFICES ASSUME m = n, n # 0 PROVE calls[n].at = "running"
        OBVIOUS
      <3>2. calls # <<>> /\ Activation(Top)
        BY <1>1, <1>2, <3>1, StackParts
      <3>3. Top.at # "start"
        <4>1. Top.at = "start" => m = n - 1
          BY <3>2 DEF Entered
        <4> HIDE DEF m, n
        <4> QED
          BY <1>2, <3>1, <4>1
      <3> QED
        BY <3>2, <3>3 DEF Activation, Top
    <2> HIDE DEF m, n
    <2>4. k \in 1 .. n - 1 \/ k = n
      BY <1>2
    <2>5. CASE m = n
      BY <1>2, <2>1, <2>2, <2>3, <2>4, <2>5
    <2>6. CASE m = n - 1 /\ calls[n].at = "start"
      BY <1>2, <2>1, <2>2, <2>4, <2>6
    <2> QED
      BY <1>3, <2>5, <2>6
  <1>5. PICK u \in 1 .. m + 1 : Follows(guard, calls, m, u, Held)
    BY DEF GuardInv
  <1> HIDE DEF m, n
  <1>6. /\ \A k \in 1 .. m : k \in Held <=> k # u
        /\ Len(guard) = (IF u <= m THEN m - 1 ELSE m)
        /\ \A d \in 1 .. Len(guard) : guard[d] = calls[at(u, d)].id
    BY <1>5 DEF Follows
  <1>7. ASSUME NEW d \in 1 .. Len(guard) PROVE at(u, d) \in Derivations
    <2>1. at(u, d) \in 1 .. m /\ at(u, d) # u
      BY <1>3, <1>5, <1>6
    <2> HIDE DEF at
    <2>2. at(u, d) \in 1 .. n /\ at(u, d) <= m
      BY <1>2, <1>3, <2>1
    <2> QED
      BY <1>4, <1>6, <2>1, <2>2
  <1>8. ASSUME NEW k \in Derivations
        PROVE  \E d \in 1 .. Len(guard) : at(u, d) = k
    <2>1. k \in 1 .. n
      BY <1>2 DEF Derivations
    <2>2. k \in 1 .. m /\ k # u
      BY <1>3, <1>4, <1>6, <2>1
    <2> DEFINE d == IF k < u THEN k ELSE k - 1
    <2>3. d \in 1 .. Len(guard) /\ at(u, d) = k
      BY <1>3, <1>5, <1>6, <2>2
    <2> QED
      BY <2>3
  <1> HIDE DEF at
  <1>9. Range(guard) = {calls[k].id : k \in Derivations}
    BY <1>2, <1>6, <1>7, <1>8 DEF Range
  <1>10. ASSUME NEW j \in Derivations, NEW k \in Derivations, calls[j].id = calls[k].id
         PROVE  j = k
    <2>1. PICK d \in 1 .. Len(guard) : at(u, d) = j
      BY <1>8
    <2>2. PICK e \in 1 .. Len(guard) : at(u, e) = k
      BY <1>8
    <2>3. guard[d] = guard[e]
      BY <1>6, <1>10, <2>1, <2>2
    <2>4. d = e
      BY <1>1, <1>2, <2>3 DEF IsInjective
    <2> QED
      BY <2>1, <2>2, <2>4
  <1>11. n <= MaxDepth + 2
    BY <1>1, <1>2, <1>3, <1>5, <1>6
  <1> QED
    BY <1>1, <1>9, <1>10, <1>11 DEF DerivationIsGuarded, n

\* Decoding any item of any image, the guard holds exactly the items being derived, no
\* item is derived inside itself, and the native stack is no deeper than the limit
\* and two (enter_derivation of decode.rs, and the pop on every path out).
THEOREM DerivationStaysGuarded == DerivationSpec => []DerivationIsGuarded
  <1> QED
    BY GuardFollowsTheCalls, GuardedByInvariant, PTL

(***************************************************************************)
(* The WebP file                                                           *)
(***************************************************************************)

\* A list of whatever it lists.
IsList(s) == s \in Seq(ToSet(s))

LEMMA ListFacts ==
    ASSUME NEW s, IsList(s)
    PROVE  /\ Len(s) \in Nat /\ DOMAIN s = 1 .. Len(s)
           /\ s = [k \in 1 .. Len(s) |-> s[k]]
           /\ \A k \in 1 .. Len(s) : s[k] \in ToSet(s)
  <1>1. Len(s) \in Nat /\ DOMAIN s = 1 .. Len(s) /\ s \in [1 .. Len(s) -> ToSet(s)]
    BY LenProperties DEF IsList
  <1> QED
    BY <1>1

LEMMA MadeList ==
    ASSUME NEW n \in Nat, NEW s, s = [k \in 1 .. n |-> s[k]]
    PROVE  IsList(s) /\ Len(s) = n
  <1>1. \A k \in 1 .. n : s[k] \in ToSet(s)
    BY DEF ToSet
  <1>2. s \in [1 .. n -> ToSet(s)]
    BY <1>1
  <1>3. s \in Seq(ToSet(s))
    BY <1>2, SeqDef
  <1>4. s \in [1 .. Len(s) -> ToSet(s)] /\ Len(s) \in Nat
    BY <1>3, LenProperties
  <1>5. 1 .. Len(s) = 1 .. n
    BY <1>2, <1>4
  <1>6. Len(s) = n
    BY <1>4, <1>5
  <1> QED
    BY <1>3, <1>6 DEF IsList

LEMMA SeqIsList ==
    ASSUME NEW S, NEW s \in Seq(S)
    PROVE  IsList(s)
  <1>1. Len(s) \in Nat /\ s \in [1 .. Len(s) -> S]
    BY LenProperties
  <1>2. s = [k \in 1 .. Len(s) |-> s[k]]
    BY <1>1
  <1> QED
    BY <1>1, <1>2, MadeList

LEMMA Lengthened ==
    ASSUME NEW s, IsList(s), NEW x
    PROVE  /\ IsList(Append(s, x)) /\ Len(Append(s, x)) = Len(s) + 1
           /\ \A k \in 1 .. Len(s) : Append(s, x)[k] = s[k]
           /\ Append(s, x)[Len(s) + 1] = x
  <1> DEFINE S == ToSet(s) \cup {x}
  <1>1. s \in Seq(S)
    BY Widened DEF IsList
  <1>2. x \in S
    OBVIOUS
  <1>3. /\ Append(s, x) \in Seq(S) /\ Len(Append(s, x)) = Len(s) + 1
        /\ \A k \in 1 .. Len(s) : Append(s, x)[k] = s[k]
        /\ Append(s, x)[Len(s) + 1] = x
    <2> HIDE DEF S
    <2> QED
      BY <1>1, <1>2, AppendProperties
  <1>4. IsList(Append(s, x))
    <2> HIDE DEF S
    <2> QED
      BY <1>3, SeqIsList
  <1> QED
    BY <1>3, <1>4

\* big is small with x put in at position i.
Inserted(big, small, i, x) ==
    /\ IsList(big) /\ IsList(small)
    /\ Len(big) = Len(small) + 1 /\ i \in 1 .. Len(big) /\ big[i] = x
    /\ \A k \in 1 .. Len(small) : k < i => big[k] = small[k]
    /\ \A k \in 1 .. Len(small) : k >= i => big[k + 1] = small[k]

\* The first p elements of a list, and those after the first q.
LEMMA Slices ==
    ASSUME NEW S, NEW s \in Seq(S), NEW p \in 0 .. Len(s), NEW q \in 0 .. Len(s)
    PROVE  /\ SubSeq(s, 1, p) \in Seq(S) /\ Len(SubSeq(s, 1, p)) = p
           /\ \A k \in 1 .. p : SubSeq(s, 1, p)[k] = s[k]
           /\ SubSeq(s, q + 1, Len(s)) \in Seq(S) /\ Len(SubSeq(s, q + 1, Len(s))) = Len(s) - q
           /\ \A k \in 1 .. Len(s) - q : SubSeq(s, q + 1, Len(s))[k] = s[q + k]
  <1> DEFINE a == SubSeq(s, 1, p)
             n == Len(s)
             b == SubSeq(s, q + 1, n)
  <1>1. n \in Nat /\ \A k \in 1 .. n : s[k] \in S
    BY LenProperties, ElementOfSeq
  <1>2. /\ a \in Seq(S) /\ Len(a) = p
        /\ \A k \in 1 .. p : a[k] = s[k]
    <2>1. 1 \in Int /\ p \in Int /\ \A k \in 1 .. p : s[k] \in S
      BY <1>1
    <2>2. /\ a \in Seq(S) /\ Len(a) = IF 1 <= p THEN p - 1 + 1 ELSE 0
          /\ \A k \in 1 .. p - 1 + 1 : a[k] = s[1 + k - 1]
      BY <2>1, SubSeqProperties
    <2> HIDE DEF a
    <2>3. Len(a) = p
      BY <1>1, <2>2
    <2>4. ASSUME NEW k \in 1 .. p PROVE a[k] = s[k]
      <3>1. k \in 1 .. p - 1 + 1 /\ 1 + k - 1 = k
        BY <1>1
      <3> QED
        BY <2>2, <3>1
    <2> QED
      BY <2>2, <2>3, <2>4
  <1>3. /\ b \in Seq(S) /\ Len(b) = n - q
        /\ \A k \in 1 .. n - q : b[k] = s[q + k]
    <2>1. q + 1 \in Int /\ n \in Int /\ \A k \in q + 1 .. n : s[k] \in S
      BY <1>1
    <2>2. /\ b \in Seq(S) /\ Len(b) = IF q + 1 <= n THEN n - (q + 1) + 1 ELSE 0
          /\ \A k \in 1 .. n - (q + 1) + 1 : b[k] = s[q + 1 + k - 1]
      BY <2>1, SubSeqProperties
    <2> HIDE DEF b
    <2>3. Len(b) = n - q
      BY <1>1, <2>2
    <2>4. ASSUME NEW k \in 1 .. n - q PROVE b[k] = s[q + k]
      <3>1. k \in 1 .. n - (q + 1) + 1 /\ q + 1 + k - 1 = q + k
        BY <1>1
      <3> QED
        BY <2>2, <3>1
    <2> QED
      BY <2>2, <2>3, <2>4
  <1> QED
    BY <1>2, <1>3

LEMMA RemovalInserts ==
    ASSUME NEW s, IsList(s), NEW i \in 1 .. Len(s)
    PROVE  Inserted(s, RemoveAt(s, i), i, s[i])
  <1> DEFINE S == ToSet(s)
             a == SubSeq(s, 1, i - 1)
             b == SubSeq(s, i + 1, Len(s))
             n == Len(s)
             r == a \o b
  <1>1. n \in Nat /\ s \in Seq(S)
    BY ListFacts DEF IsList
  <1>2. i - 1 \in 0 .. Len(s) /\ i \in 0 .. Len(s)
    BY <1>1
  <1>3. /\ a \in Seq(S) /\ Len(a) = i - 1 /\ \A k \in 1 .. i - 1 : a[k] = s[k]
        /\ b \in Seq(S) /\ Len(b) = n - i /\ \A k \in 1 .. n - i : b[k] = s[i + k]
    <2> HIDE DEF S
    <2> QED
      BY <1>1, <1>2, Slices
  <1>4. r = RemoveAt(s, i)
    BY DEF RemoveAt
  <1> HIDE DEF a, b, S
  <1>5. /\ r \in Seq(S) /\ Len(r) = Len(a) + Len(b)
        /\ \A k \in 1 .. Len(a) + Len(b) : r[k] = IF k <= Len(a) THEN a[k] ELSE b[k - Len(a)]
    BY <1>3, ConcatProperties
  <1> HIDE DEF r
  <1>6. Len(r) = n - 1 /\ IsList(r)
    BY <1>1, <1>3, <1>5, SeqIsList
  <1>7. ASSUME NEW k \in 1 .. n - 1, k < i PROVE s[k] = r[k]
    <2>1. k \in 1 .. i - 1 /\ k \in 1 .. Len(a) + Len(b) /\ k <= Len(a)
      BY <1>1, <1>3, <1>7
    <2>2. r[k] = a[k]
      BY <1>5, <2>1
    <2> QED
      BY <1>3, <2>1, <2>2
  <1>8. ASSUME NEW k \in 1 .. n - 1, k >= i PROVE s[k + 1] = r[k]
    <2>1. /\ k \in 1 .. Len(a) + Len(b) /\ ~(k <= Len(a))
          /\ k - (i - 1) \in 1 .. n - i /\ i + (k - (i - 1)) = k + 1
      BY <1>1, <1>3, <1>8
    <2>2. r[k] = b[k - (i - 1)]
      BY <1>3, <1>5, <2>1
    <2> QED
      BY <1>3, <2>1, <2>2
  <1>9. Inserted(s, r, i, s[i])
    BY <1>1, <1>6, <1>7, <1>8 DEF Inserted
  <1> QED
    BY <1>4, <1>9

LEMMA InsertionInserts ==
    ASSUME NEW s, IsList(s), NEW i \in 1 .. Len(s) + 1, NEW x
    PROVE  Inserted(InsertAt(s, i, x), s, i, x)
  <1> DEFINE S == ToSet(s) \cup {x}
             a == SubSeq(s, 1, i - 1)
             o == <<x>>
             n == Len(s)
             b == SubSeq(s, i, n)
             f == a \o o
             r == f \o b
  <1>1. n \in Nat /\ s \in Seq(S) /\ i - 1 + 1 = i
    BY ListFacts, Widened DEF IsList
  <1>2. i - 1 \in 0 .. Len(s)
    BY <1>1
  <1>3. /\ a \in Seq(S) /\ Len(a) = i - 1 /\ \A k \in 1 .. i - 1 : a[k] = s[k]
        /\ b \in Seq(S) /\ Len(b) = n - (i - 1) /\ \A k \in 1 .. n - (i - 1) : b[k] = s[i - 1 + k]
    <2> DEFINE q == i - 1
    <2>1. /\ a \in Seq(S) /\ Len(a) = q /\ \A k \in 1 .. q : a[k] = s[k]
          /\ SubSeq(s, q + 1, n) \in Seq(S) /\ Len(SubSeq(s, q + 1, n)) = n - q
          /\ \A k \in 1 .. n - q : SubSeq(s, q + 1, n)[k] = s[q + k]
      <3> HIDE DEF S
      <3> QED
        BY <1>1, <1>2, Slices
    <2>2. SubSeq(s, q + 1, n) = b
      BY <1>1
    <2> QED
      BY <2>1, <2>2
  <1>4. o \in Seq(S) /\ Len(o) = 1 /\ o[1] = x
    OBVIOUS
  <1>5. r = InsertAt(s, i, x)
    BY DEF InsertAt
  <1> HIDE DEF a, b, o, S
  <1>6. /\ f \in Seq(S) /\ Len(f) = Len(a) + Len(o)
        /\ \A k \in 1 .. Len(a) + Len(o) : f[k] = IF k <= Len(a) THEN a[k] ELSE o[k - Len(a)]
    BY <1>3, <1>4, ConcatProperties
  <1> HIDE DEF f
  <1>7. /\ r \in Seq(S) /\ Len(r) = Len(f) + Len(b)
        /\ \A k \in 1 .. Len(f) + Len(b) : r[k] = IF k <= Len(f) THEN f[k] ELSE b[k - Len(f)]
    <2>1. f \in Seq(S) /\ b \in Seq(S)
      BY <1>3, <1>6
    <2> QED
      BY <2>1, ConcatProperties
  <1> HIDE DEF r
  <1>8. Len(f) = i /\ Len(r) = n + 1 /\ IsList(r)
    BY <1>1, <1>3, <1>4, <1>6, <1>7, SeqIsList
  <1>9. r[i] = x
    <2>1. r[i] = f[i]
      BY <1>1, <1>3, <1>7, <1>8
    <2>2. f[i] = o[i - (i - 1)] /\ i - (i - 1) = 1
      BY <1>1, <1>3, <1>4, <1>6
    <2> QED
      BY <1>4, <2>1, <2>2
  <1>10. ASSUME NEW k \in 1 .. n, k < i PROVE r[k] = s[k]
    <2>1. r[k] = f[k]
      BY <1>1, <1>3, <1>7, <1>8, <1>10
    <2>2. f[k] = a[k]
      BY <1>1, <1>3, <1>4, <1>6, <1>10
    <2> QED
      BY <1>1, <1>3, <1>10, <2>1, <2>2
  <1>11. ASSUME NEW k \in 1 .. n, k >= i PROVE r[k + 1] = s[k]
    <2>1. r[k + 1] = b[k + 1 - i]
      BY <1>1, <1>3, <1>7, <1>8, <1>11
    <2>2. k + 1 - i \in 1 .. n - (i - 1) /\ i - 1 + (k + 1 - i) = k
      BY <1>1, <1>11
    <2> QED
      BY <1>3, <2>1, <2>2
  <1>12. Inserted(r, s, i, x)
    BY <1>1, <1>8, <1>9, <1>10, <1>11 DEF Inserted
  <1> QED
    BY <1>5, <1>12

----------------------------------------------------------------------------
(* Counting the private chunks of a file. *)

LEMMA SameCount ==
    ASSUME NEW S, NEW T, NEW f \in [S -> T], IsFiniteSet(S),
           \A a, b \in S : f[a] = f[b] => a = b,
           \A t \in T : \E s \in S : f[s] = t
    PROVE  IsFiniteSet(T) /\ Cardinality(T) = Cardinality(S)
  <1>1. f \in Bijection(S, T)
    BY Fun_IsBij
  <1>2. ExistsBijection(S, T)
    BY <1>1 DEF ExistsBijection
  <1> QED
    BY <1>2, FS_Bijection

Private(cs) == {k \in DOMAIN cs : ~Known(cs[k].cc)}

LEMMA PrivateIsFinite ==
    ASSUME NEW cs, IsList(cs)
    PROVE  /\ Private(cs) \in SUBSET (1 .. Len(cs)) /\ IsFiniteSet(Private(cs))
           /\ Cardinality(Private(cs)) \in Nat
  <1>1. Len(cs) \in Nat /\ DOMAIN cs = 1 .. Len(cs)
    BY ListFacts
  <1>2. IsFiniteSet(1 .. Len(cs))
    BY <1>1, FS_Interval
  <1>3. Private(cs) \in SUBSET (1 .. Len(cs))
    BY <1>1 DEF Private
  <1>4. IsFiniteSet(Private(cs))
    BY <1>2, <1>3, FS_Subset
  <1> QED
    BY <1>3, <1>4, FS_CardinalityType

\* The private chunks of the larger list are those of the smaller one, and
\* perhaps the one put in.
LEMMA InsertedCounts ==
    ASSUME NEW big, NEW small, NEW i, NEW x, Inserted(big, small, i, x)
    PROVE  Cardinality(Private(big)) = Cardinality(Private(small)) + (IF Known(x.cc) THEN 0 ELSE 1)
  <1> DEFINE S == Private(small)
             B == Private(big)
             T == B \ {i}
             f == [k \in S |-> IF k < i THEN k ELSE k + 1]
             n == Len(small)
  <1>1. IsList(small) /\ IsList(big)
    BY DEF Inserted
  <1>2. n \in Nat /\ DOMAIN small = 1 .. n /\ DOMAIN big = 1 .. n + 1 /\ i \in 1 .. n + 1
    <2>1. n \in Nat /\ DOMAIN small = 1 .. n
      BY <1>1, ListFacts
    <2>2. DOMAIN big = 1 .. Len(big)
      BY <1>1, ListFacts
    <2> QED
      BY <2>1, <2>2 DEF Inserted
  <1>3. /\ S \in SUBSET (1 .. n) /\ IsFiniteSet(S) /\ Cardinality(S) \in Nat
        /\ IsFiniteSet(B) /\ Cardinality(B) \in Nat
    BY <1>1, PrivateIsFinite
  <1>4. \A k \in 1 .. n : k \in S <=> ~Known(small[k].cc)
    BY <1>2 DEF Private
  <1>5. \A k \in 1 .. n + 1 : k \in B <=> ~Known(big[k].cc)
    BY <1>2 DEF Private
  <1>6. B \in SUBSET (1 .. n + 1)
    BY <1>2 DEF Private
  <1> HIDE DEF S, B
  <1>7. ASSUME NEW k \in S PROVE f[k] \in T
    <2>1. k \in 1 .. n /\ ~Known(small[k].cc)
      BY <1>3, <1>4
    <2>2. CASE k < i
      <3>1. f[k] = k /\ big[k] = small[k] /\ k \in 1 .. n + 1
        BY <1>2, <2>1, <2>2 DEF Inserted
      <3>2. f[k] \in B
        BY <1>5, <2>1, <3>1
      <3> QED
        BY <1>2, <2>1, <2>2, <3>1, <3>2
    <2>3. CASE k >= i
      <3>1. f[k] = k + 1 /\ big[k + 1] = small[k] /\ k + 1 \in 1 .. n + 1
        BY <1>2, <2>1, <2>3 DEF Inserted
      <3>2. f[k] \in B
        BY <1>5, <2>1, <3>1
      <3> QED
        BY <1>2, <2>1, <2>3, <3>1, <3>2
    <2> QED
      BY <1>2, <2>1, <2>2, <2>3
  <1>8. \A a, b \in S : f[a] = f[b] => a = b
    BY <1>2, <1>3
  <1>9. ASSUME NEW t \in T PROVE \E s \in S : f[s] = t
    <2>1. t \in 1 .. n + 1 /\ t # i /\ ~Known(big[t].cc)
      BY <1>5, <1>6
    <2>2. CASE t < i
      <3>1. t \in 1 .. n /\ big[t] = small[t]
        BY <1>2, <2>1, <2>2 DEF Inserted
      <3>2. t \in S
        BY <1>4, <2>1, <3>1
      <3> QED
        BY <2>2, <3>2
    <2>3. CASE t > i
      <3>1. t - 1 \in 1 .. n /\ t - 1 >= i /\ (t - 1) + 1 = t
        BY <1>2, <2>1, <2>3
      <3>2. big[t] = small[t - 1]
        BY <3>1 DEF Inserted
      <3>3. t - 1 \in S
        BY <1>4, <2>1, <3>1, <3>2
      <3>4. f[t - 1] = t
        BY <1>2, <3>1, <3>3
      <3> QED
        BY <3>3, <3>4
    <2> QED
      BY <1>2, <2>1, <2>2, <2>3
  <1>10. IsFiniteSet(T) /\ Cardinality(T) = Cardinality(S)
    <2>1. f \in [S -> T]
      BY <1>7
    <2> HIDE DEF f, T
    <2> QED
      BY <1>3, <1>8, <1>9, <2>1, SameCount
  <1>11. Cardinality(T) = IF i \in B THEN Cardinality(B) - 1 ELSE Cardinality(B)
    BY <1>3, FS_RemoveElement
  <1>12. i \in B <=> ~Known(x.cc)
    BY <1>2, <1>5 DEF Inserted
  <1>13. Cardinality(B) = Cardinality(S) + (IF Known(x.cc) THEN 0 ELSE 1)
    <2> HIDE DEF T
    <2> QED
      BY <1>3, <1>10, <1>11, <1>12
  <1> QED
    BY <1>13 DEF B, S

\* Two neighbours exchanged.
Swapped(cs, k) == [cs EXCEPT ![k] = cs[k - 1], ![k - 1] = cs[k]]

LEMMA SwapFacts ==
    ASSUME NEW cs, IsList(cs), NEW i \in (1 .. Len(cs)) \ {1}
    PROVE  /\ IsList(Swapped(cs, i)) /\ Len(Swapped(cs, i)) = Len(cs)
           /\ Swapped(cs, i)[i] = cs[i - 1] /\ Swapped(cs, i)[i - 1] = cs[i]
           /\ \A k \in 1 .. Len(cs) : k # i /\ k # i - 1 => Swapped(cs, i)[k] = cs[k]
  <1> DEFINE n == Len(cs)
             r == Swapped(cs, i)
             a == cs[i - 1]
             b == cs[i]
             q == [cs EXCEPT ![i] = a]
  <1>1. n \in Nat /\ DOMAIN cs = 1 .. n /\ cs = [k \in 1 .. n |-> cs[k]]
    BY ListFacts
  <1>2. i \in 1 .. n /\ i - 1 \in 1 .. n /\ i # i - 1
    BY <1>1
  <1>3. r = [q EXCEPT ![i - 1] = b]
    BY DEF Swapped
  <1> HIDE DEF a, b
  <1>4. /\ q = [k \in 1 .. n |-> q[k]] /\ DOMAIN q = 1 .. n
        /\ \A k \in 1 .. n : q[k] = IF k = i THEN a ELSE cs[k]
    BY <1>1, <1>2
  <1> HIDE DEF q, r
  <1>5. /\ r = [k \in 1 .. n |-> r[k]]
        /\ \A k \in 1 .. n : r[k] = IF k = i - 1 THEN b ELSE q[k]
    BY <1>2, <1>3, <1>4
  <1>6. IsList(r) /\ Len(r) = n
    BY <1>1, <1>5, MadeList
  <1>7. r[i] = a /\ r[i - 1] = b /\ \A k \in 1 .. n : k # i /\ k # i - 1 => r[k] = cs[k]
    BY <1>2, <1>4, <1>5
  <1> QED
    BY <1>6, <1>7 DEF a, b, r

LEMMA SwapCounts ==
    ASSUME NEW cs, IsList(cs), NEW i \in (1 .. Len(cs)) \ {1}
    PROVE  Cardinality(Private(Swapped(cs, i))) = Cardinality(Private(cs))
  <1> DEFINE n == Len(cs)
             r == Swapped(cs, i)
             S == Private(cs)
             T == Private(r)
             turn(k) == IF k = i THEN i - 1 ELSE IF k = i - 1 THEN i ELSE k
             f == [k \in S |-> turn(k)]
  <1>1. /\ IsList(r) /\ Len(r) = n
        /\ r[i] = cs[i - 1] /\ r[i - 1] = cs[i]
        /\ \A k \in 1 .. n : k # i /\ k # i - 1 => r[k] = cs[k]
    BY SwapFacts
  <1> HIDE DEF r
  <1>2. n \in Nat /\ DOMAIN cs = 1 .. n /\ DOMAIN r = 1 .. n /\ i \in 1 .. n /\ i - 1 \in 1 .. n
    <2>1. n \in Nat /\ DOMAIN cs = 1 .. n
      BY ListFacts
    <2>2. DOMAIN r = 1 .. n
      BY <1>1, ListFacts
    <2> QED
      BY <2>1, <2>2
  <1>3. S \in SUBSET (1 .. n) /\ T \in SUBSET (1 .. n) /\ IsFiniteSet(S)
    BY <1>1, PrivateIsFinite
  <1>4. /\ \A k \in 1 .. n : k \in S <=> ~Known(cs[k].cc)
        /\ \A k \in 1 .. n : k \in T <=> ~Known(r[k].cc)
    BY <1>2 DEF Private
  <1> HIDE DEF S, T
  <1>5. ASSUME NEW k \in 1 .. n PROVE turn(k) \in 1 .. n /\ r[turn(k)] = cs[k] /\ turn(turn(k)) = k
    BY <1>1, <1>2
  <1>6. ASSUME NEW k \in S PROVE f[k] \in T
    BY <1>3, <1>4, <1>5
  <1>7. \A a, b \in S : f[a] = f[b] => a = b
    BY <1>2, <1>3
  <1>8. ASSUME NEW t \in T PROVE \E s \in S : f[s] = t
    <2>1. t \in 1 .. n /\ turn(t) \in 1 .. n /\ turn(turn(t)) = t /\ r[t] = cs[turn(t)]
      <3>1. t \in 1 .. n
        BY <1>3
      <3>2. turn(t) \in 1 .. n /\ turn(turn(t)) = t
        BY <1>5, <3>1
      <3>3. r[turn(turn(t))] = cs[turn(t)]
        BY <1>5, <3>2
      <3> QED
        BY <3>1, <3>2, <3>3
    <2> HIDE DEF turn
    <2>2. turn(t) \in S
      BY <1>4, <2>1
    <2> QED
      BY <2>1, <2>2
  <1>9. Cardinality(T) = Cardinality(S)
    <2>1. f \in [S -> T]
      BY <1>6
    <2> HIDE DEF f
    <2> QED
      BY <1>3, <1>7, <1>8, <2>1, SameCount
  <1> QED
    BY <1>9 DEF S, T, r

----------------------------------------------------------------------------
(* What a file still is after what was done to it. *)

\* A chunk of a file encoded from e, or one that another program added.
Belongs(c, e) ==
    /\ c = [cc |-> c.cc, data |-> c.data, state |-> c.state]
    /\ c.cc = "VP8X" => c.data.canvas \in {"good", "bad"}
    /\ c.cc \in Metadata => e.metadata[c.cc] = <<c.data>>
    /\ c.cc = "ALPH" => e.alph = <<c.data>>
    /\ c.cc \in Bitstreams => c.cc = e.codestream /\ c.data = e.pixels
    /\ ~Known(c.cc) => [cc |-> c.cc, data |-> c.data] \in ToSet(e.unknown)

\* The names of what e has one chunk of.
Wants(e) ==
    {cc \in Metadata : e.metadata[cc] # <<>>} \cup {cc \in {"ALPH"} : e.alph # <<>>}
    \cup {e.codestream}
Has(cs, cc) == \E k \in DOMAIN cs : cs[k].cc = cc

\* What was done to the file: a named chunk lost, chunks out of their place, and the
\* mishaps of one kind that befell a private chunk.
Lost(ms, cc) == \E k \in DOMAIN ms : ms[k].kind = "lose" /\ ms[k].chunk.cc = cc
Moved(ms) == \E k \in DOMAIN ms : ms[k].kind \in {"exchange", "repeat"}
Befallen(ms, kind) == {k \in DOMAIN ms : ms[k].kind = kind /\ ~Known(ms[k].chunk.cc)}

\* The private chunks are some of those given, in the same order.
TurnsOf(at, cs, e) ==
    /\ at \in [Private(cs) -> DOMAIN e.unknown]
    /\ \A j, k \in Private(cs) : j < k => at[j] < at[k]
    /\ \A k \in Private(cs) : [cc |-> cs[k].cc, data |-> cs[k].data] = e.unknown[at[k]]
InTurn(cs, e) == \E at : TurnsOf(at, cs, e)

\* As many private chunks as given, less the lost and with the repeated.
Counted(cs, e, ms) ==
    Cardinality(Private(cs)) =
        Len(e.unknown) + Cardinality(Befallen(ms, "repeat")) - Cardinality(Befallen(ms, "lose"))

\* The chunks of a file encoded from e to which ms happened.
FileOf(cs, e, ms) ==
    /\ IsList(cs)
    /\ \A k \in DOMAIN cs : Belongs(cs[k], e)
    /\ \A cc \in Wants(e) : Has(cs, cc) \/ Lost(ms, cc)
    /\ Counted(cs, e, ms)
    /\ Moved(ms) \/ InTurn(cs, e)

Mishap(kind, chunk) == [kind |-> kind, chunk |-> chunk]

LEMMA MoreMishaps ==
    ASSUME NEW ms, IsList(ms), NEW m
    PROVE  /\ DOMAIN ms = 1 .. Len(ms) /\ DOMAIN Append(ms, m) = 1 .. Len(ms) + 1
           /\ Len(ms) \in Nat /\ IsList(Append(ms, m))
           /\ \A k \in 1 .. Len(ms) : Append(ms, m)[k] = ms[k]
           /\ Append(ms, m)[Len(ms) + 1] = m
  <1> DEFINE r == Append(ms, m)
  <1>1. /\ IsList(r) /\ Len(r) = Len(ms) + 1
        /\ \A k \in 1 .. Len(ms) : r[k] = ms[k]
        /\ r[Len(ms) + 1] = m
    BY Lengthened
  <1> HIDE DEF r
  <1>2. Len(ms) \in Nat /\ DOMAIN ms = 1 .. Len(ms)
    BY ListFacts
  <1>3. DOMAIN r = 1 .. Len(r)
    BY <1>1, ListFacts
  <1>4. DOMAIN r = 1 .. Len(ms) + 1
    BY <1>1, <1>3
  <1> QED
    BY <1>1, <1>2, <1>4 DEF r

LEMMA BefallenGrows ==
    ASSUME NEW ms, IsList(ms), NEW m, NEW kind
    PROVE  /\ Cardinality(Befallen(ms, kind)) \in Nat
           /\ Cardinality(Befallen(Append(ms, m), kind)) =
                 Cardinality(Befallen(ms, kind))
                 + (IF m.kind = kind /\ ~Known(m.chunk.cc) THEN 1 ELSE 0)
  <1> DEFINE r == Append(ms, m)
             n == Len(ms)
             S == Befallen(ms, kind)
             T == Befallen(r, kind)
  <1>1. /\ DOMAIN ms = 1 .. n /\ DOMAIN r = 1 .. n + 1
        /\ n \in Nat
        /\ \A k \in 1 .. n : r[k] = ms[k]
        /\ r[n + 1] = m
    BY MoreMishaps
  <1> HIDE DEF r
  <1>2. IsFiniteSet(1 .. n)
    BY <1>1, FS_Interval
  <1>3. S \in SUBSET (1 .. n)
    BY <1>1 DEF Befallen
  <1>4. IsFiniteSet(S)
    <2> HIDE DEF S
    <2> QED
      BY <1>2, <1>3, FS_Subset
  <1>5. Cardinality(S) \in Nat
    <2> HIDE DEF S
    <2> QED
      BY <1>4, FS_CardinalityType
  <1>6. CASE m.kind = kind /\ ~Known(m.chunk.cc)
    <2>1. T = S \cup {n + 1} /\ n + 1 \notin S
      BY <1>1, <1>6 DEF Befallen
    <2> HIDE DEF S, T
    <2>2. Cardinality(S \cup {n + 1}) = IF n + 1 \in S THEN Cardinality(S) ELSE Cardinality(S) + 1
      BY <1>4, FS_AddElement
    <2>3. Cardinality(T) = Cardinality(S) + 1
      BY <2>1, <2>2
    <2> QED
      BY <1>5, <1>6, <2>3 DEF S, T, r
  <1>7. CASE ~(m.kind = kind /\ ~Known(m.chunk.cc))
    <2>1. T = S
      BY <1>1, <1>7 DEF Befallen
    <2> HIDE DEF S, T
    <2> QED
      BY <1>5, <1>7, <2>1 DEF S, T, r
  <1> QED
    BY <1>6, <1>7

\* What was lost or moved stays so.
LEMMA MishapsStay ==
    ASSUME NEW ms, IsList(ms), NEW m
    PROVE  /\ \A cc : Lost(Append(ms, m), cc) <=> Lost(ms, cc) \/ (m.kind = "lose" /\ m.chunk.cc = cc)
           /\ Moved(Append(ms, m)) <=> Moved(ms) \/ m.kind \in {"exchange", "repeat"}
  <1> DEFINE r == Append(ms, m)
             n == Len(ms)
  <1>1. /\ DOMAIN ms = 1 .. n /\ DOMAIN r = 1 .. n + 1
        /\ n \in Nat
        /\ \A k \in 1 .. n : r[k] = ms[k]
        /\ r[n + 1] = m
    BY MoreMishaps
  <1> HIDE DEF r
  <1>2. \A k : k \in 1 .. n + 1 <=> k \in 1 .. n \/ k = n + 1
    BY <1>1
  <1> HIDE DEF n
  <1>3. \A cc : Lost(r, cc) <=> Lost(ms, cc) \/ (m.kind = "lose" /\ m.chunk.cc = cc)
    BY <1>1, <1>2 DEF Lost
  <1>4. Moved(r) <=> Moved(ms) \/ m.kind \in {"exchange", "repeat"}
    BY <1>1, <1>2 DEF Moved
  <1> QED
    BY <1>3, <1>4 DEF r

LEMMA InsertedElements ==
    ASSUME NEW big, NEW small, NEW i, NEW x, Inserted(big, small, i, x)
    PROVE  /\ \A k \in DOMAIN big : big[k] = x \/ \E j \in DOMAIN small : big[k] = small[j]
           /\ \A j \in DOMAIN small : \E k \in DOMAIN big : big[k] = small[j]
           /\ \E k \in DOMAIN big : big[k] = x
  <1> DEFINE n == Len(small)
  <1>1. n \in Nat /\ DOMAIN small = 1 .. n /\ DOMAIN big = 1 .. n + 1 /\ i \in 1 .. n + 1
    <2>1. IsList(small) /\ IsList(big)
      BY DEF Inserted
    <2>2. n \in Nat /\ DOMAIN small = 1 .. n
      BY <2>1, ListFacts
    <2>3. DOMAIN big = 1 .. Len(big)
      BY <2>1, ListFacts
    <2> QED
      BY <2>2, <2>3 DEF Inserted
  <1>2. ASSUME NEW k \in 1 .. n + 1 PROVE big[k] = x \/ \E j \in 1 .. n : big[k] = small[j]
    <2>1. CASE k = i
      BY <2>1 DEF Inserted
    <2>2. CASE k < i
      <3>1. k \in 1 .. n
        BY <1>1, <2>2
      <3>2. big[k] = small[k]
        BY <2>2, <3>1 DEF Inserted
      <3> QED
        BY <3>1, <3>2
    <2>3. CASE k > i
      <3>1. k - 1 \in 1 .. n /\ k - 1 >= i /\ (k - 1) + 1 = k
        BY <1>1, <2>3
      <3>2. big[k] = small[k - 1]
        BY <3>1 DEF Inserted
      <3> QED
        BY <3>1, <3>2
    <2> QED
      BY <1>1, <2>1, <2>2, <2>3
  <1>3. ASSUME NEW j \in 1 .. n PROVE \E k \in 1 .. n + 1 : big[k] = small[j]
    <2>1. j \in 1 .. n + 1 /\ j + 1 \in 1 .. n + 1
      BY <1>1
    <2>2. big[j] = small[j] \/ big[j + 1] = small[j]
      BY <1>1 DEF Inserted
    <2> QED
      BY <2>1, <2>2
  <1>4. i \in 1 .. n + 1 /\ big[i] = x
    BY <1>1 DEF Inserted
  <1> QED
    BY <1>1, <1>2, <1>3, <1>4

\* A chunk is lost.
LEMMA LoseKeeps ==
    ASSUME NEW e, IsEncode(e), NEW ms, IsList(ms), NEW cs, FileOf(cs, e, ms),
           NEW i \in 1 .. Len(cs)
    PROVE  FileOf(RemoveAt(cs, i), e, Append(ms, Mishap("lose", cs[i])))
  <1> DEFINE r == RemoveAt(cs, i)
             x == cs[i]
             m == Mishap("lose", x)
             mm == Append(ms, m)
  <1>0. IsList(cs) /\ m.kind = "lose" /\ m.chunk = x
    BY DEF FileOf, Mishap
  <1>1. Inserted(cs, r, i, x)
    BY <1>0, RemovalInserts
  <1> HIDE DEF r, x, m
  <1>2. /\ \A k \in DOMAIN cs : cs[k] = x \/ \E j \in DOMAIN r : cs[k] = r[j]
        /\ \A j \in DOMAIN r : \E k \in DOMAIN cs : cs[k] = r[j]
    BY <1>1, InsertedElements
  <1>3. IsList(r)
    BY <1>1 DEF Inserted
  <1>4. \A k \in DOMAIN r : Belongs(r[k], e)
    BY <1>2 DEF FileOf
  <1>5. /\ \A cc : Lost(mm, cc) <=> Lost(ms, cc) \/ (m.kind = "lose" /\ m.chunk.cc = cc)
        /\ Moved(mm) <=> Moved(ms) \/ m.kind \in {"exchange", "repeat"}
    BY MishapsStay
  <1>6. \A cc \in Wants(e) : Has(r, cc) \/ Lost(mm, cc)
    BY <1>0, <1>2, <1>5 DEF FileOf, Has
  <1>7. Counted(r, e, mm)
    <2>1. /\ Cardinality(Befallen(ms, "repeat")) \in Nat
          /\ Cardinality(Befallen(mm, "repeat")) =
                Cardinality(Befallen(ms, "repeat"))
                + (IF m.kind = "repeat" /\ ~Known(m.chunk.cc) THEN 1 ELSE 0)
      BY BefallenGrows
    <2>2. /\ Cardinality(Befallen(ms, "lose")) \in Nat
          /\ Cardinality(Befallen(mm, "lose")) =
                Cardinality(Befallen(ms, "lose"))
                + (IF m.kind = "lose" /\ ~Known(m.chunk.cc) THEN 1 ELSE 0)
      BY BefallenGrows
    <2>3. Cardinality(Private(cs)) = Cardinality(Private(r)) + (IF Known(x.cc) THEN 0 ELSE 1)
      BY <1>1, InsertedCounts
    <2>4. Cardinality(Private(r)) \in Nat /\ Len(e.unknown) \in Nat
      BY <1>3, PrivateIsFinite, LenProperties DEF IsEncode
    <2>5. /\ Cardinality(Befallen(mm, "repeat")) = Cardinality(Befallen(ms, "repeat"))
          /\ Cardinality(Befallen(mm, "lose")) =
                Cardinality(Befallen(ms, "lose")) + (IF Known(x.cc) THEN 0 ELSE 1)
      BY <1>0, <2>1, <2>2
    <2>6. Counted(cs, e, ms)
      BY DEF FileOf
    <2> HIDE DEF mm
    <2> QED
      BY <2>1, <2>2, <2>3, <2>4, <2>5, <2>6 DEF Counted
  <1>8. ASSUME InTurn(cs, e) PROVE InTurn(r, e)
    <2>1. PICK at : TurnsOf(at, cs, e)
      BY <1>8 DEF InTurn
    <2> DEFINE n == Len(r)
               to(k) == IF k < i THEN k ELSE k + 1
               was == [k \in Private(r) |-> at[to(k)]]
    <2>2. n \in Nat /\ DOMAIN r = 1 .. n /\ DOMAIN cs = 1 .. n + 1 /\ i \in 1 .. n + 1
      <3>1. n \in Nat /\ DOMAIN r = 1 .. n
        BY <1>3, ListFacts
      <3>2. DOMAIN cs = 1 .. Len(cs)
        BY <1>0, ListFacts
      <3> QED
        BY <1>1, <3>1, <3>2 DEF Inserted
    <2>3. ASSUME NEW k \in 1 .. n PROVE to(k) \in 1 .. n + 1 /\ cs[to(k)] = r[k]
      BY <1>1, <2>2 DEF Inserted
    <2>4. \A k \in Private(r) : k \in 1 .. n /\ to(k) \in Private(cs) /\ cs[to(k)] = r[k]
      <3> HIDE DEF to
      <3> QED
        BY <2>2, <2>3 DEF Private
    <2>5. \A j, k \in Private(r) : j < k => to(j) < to(k)
      BY <2>2, <2>4
    <2>6. TurnsOf(was, r, e)
      <3> HIDE DEF to
      <3>1. was \in [Private(r) -> DOMAIN e.unknown]
        BY <2>1, <2>4 DEF TurnsOf
      <3>2. \A j, k \in Private(r) : j < k => was[j] < was[k]
        BY <2>1, <2>4, <2>5 DEF TurnsOf
      <3>3. \A k \in Private(r) : [cc |-> r[k].cc, data |-> r[k].data] = e.unknown[was[k]]
        BY <2>1, <2>4 DEF TurnsOf
      <3> QED
        BY <3>1, <3>2, <3>3 DEF TurnsOf
    <2> QED
      BY <2>6 DEF InTurn
  <1>9. Moved(mm) \/ InTurn(r, e)
    BY <1>5, <1>8 DEF FileOf
  <1>10. FileOf(r, e, mm)
    <2> HIDE DEF mm
    <2> QED
      BY <1>3, <1>4, <1>6, <1>7, <1>9 DEF FileOf
  <1> QED
    BY <1>10 DEF r, m, x

\* Mishaps of other kinds than these leave the count of losses and repeats alone.
LEMMA OthersCount ==
    ASSUME NEW e, IsEncode(e), NEW ms, IsList(ms), NEW cs, IsList(cs), NEW r, IsList(r),
           Counted(cs, e, ms), NEW m, NEW x, m.chunk = x, m.kind # "lose",
           Cardinality(Private(r)) =
               Cardinality(Private(cs)) + (IF m.kind = "repeat" /\ ~Known(x.cc) THEN 1 ELSE 0)
    PROVE  Counted(r, e, Append(ms, m))
  <1> DEFINE mm == Append(ms, m)
  <1>1. /\ Cardinality(Befallen(ms, "repeat")) \in Nat
        /\ Cardinality(Befallen(mm, "repeat")) =
              Cardinality(Befallen(ms, "repeat"))
              + (IF m.kind = "repeat" /\ ~Known(m.chunk.cc) THEN 1 ELSE 0)
    BY BefallenGrows
  <1>2. /\ Cardinality(Befallen(ms, "lose")) \in Nat
        /\ Cardinality(Befallen(mm, "lose")) =
              Cardinality(Befallen(ms, "lose"))
              + (IF m.kind = "lose" /\ ~Known(m.chunk.cc) THEN 1 ELSE 0)
    BY BefallenGrows
  <1>3. Cardinality(Private(r)) \in Nat /\ Cardinality(Private(cs)) \in Nat /\ Len(e.unknown) \in Nat
    BY PrivateIsFinite, LenProperties DEF IsEncode
  <1>4. /\ Cardinality(Befallen(mm, "lose")) = Cardinality(Befallen(ms, "lose"))
        /\ Cardinality(Befallen(mm, "repeat")) =
              Cardinality(Befallen(ms, "repeat"))
              + (IF m.kind = "repeat" /\ ~Known(x.cc) THEN 1 ELSE 0)
    BY <1>1, <1>2
  <1> HIDE DEF mm
  <1>5. Counted(r, e, mm)
    BY <1>1, <1>2, <1>3, <1>4 DEF Counted
  <1> QED
    BY <1>5 DEF mm

\* A chunk is repeated, or another program adds one.
LEMMA GainKeeps ==
    ASSUME NEW e, IsEncode(e), NEW ms, IsList(ms), NEW cs, FileOf(cs, e, ms),
           NEW r, NEW i, NEW x, Inserted(r, cs, i, x), Belongs(x, e),
           NEW kind, kind = "repeat" \/ (kind = "add" /\ Known(x.cc))
    PROVE  FileOf(r, e, Append(ms, Mishap(kind, x)))
  <1> DEFINE m == Mishap(kind, x)
             mm == Append(ms, m)
  <1>0. IsList(cs) /\ m.kind = kind /\ m.chunk = x /\ m.kind # "lose"
    BY DEF FileOf, Mishap
  <1> HIDE DEF m
  <1>1. /\ \A k \in DOMAIN r : r[k] = x \/ \E j \in DOMAIN cs : r[k] = cs[j]
        /\ \A j \in DOMAIN cs : \E k \in DOMAIN r : r[k] = cs[j]
    BY InsertedElements
  <1>2. IsList(r)
    BY DEF Inserted
  <1>3. \A k \in DOMAIN r : Belongs(r[k], e)
    BY <1>1 DEF FileOf
  <1>4. /\ \A cc : Lost(mm, cc) <=> Lost(ms, cc) \/ (m.kind = "lose" /\ m.chunk.cc = cc)
        /\ Moved(mm) <=> Moved(ms) \/ m.kind \in {"exchange", "repeat"}
    BY MishapsStay
  <1>5. \A cc \in Wants(e) : Has(r, cc) \/ Lost(mm, cc)
    BY <1>1, <1>4 DEF FileOf, Has
  <1>6. Counted(r, e, mm)
    <2>1. Counted(cs, e, ms)
      BY DEF FileOf
    <2>2. Cardinality(Private(r)) = Cardinality(Private(cs)) + (IF Known(x.cc) THEN 0 ELSE 1)
      BY InsertedCounts
    <2>3. Cardinality(Private(r)) =
             Cardinality(Private(cs)) + (IF m.kind = "repeat" /\ ~Known(x.cc) THEN 1 ELSE 0)
      BY <1>0, <2>2
    <2> QED
      BY <1>0, <1>2, <2>1, <2>3, OthersCount
  <1>7. ASSUME InTurn(cs, e), kind = "add" PROVE InTurn(r, e)
    <2>1. PICK at : TurnsOf(at, cs, e)
      BY <1>7 DEF InTurn
    <2> DEFINE n == Len(cs)
               to(k) == IF k < i THEN k ELSE k - 1
               was == [k \in Private(r) |-> at[to(k)]]
    <2>2. n \in Nat /\ DOMAIN cs = 1 .. n /\ DOMAIN r = 1 .. n + 1 /\ i \in 1 .. n + 1
      <3>1. n \in Nat /\ DOMAIN cs = 1 .. n
        BY <1>0, ListFacts
      <3>2. DOMAIN r = 1 .. Len(r)
        BY <1>2, ListFacts
      <3> QED
        BY <3>1, <3>2 DEF Inserted
    <2>3. r[i] = x /\ Known(x.cc)
      BY <1>7 DEF Inserted
    <2>4. ASSUME NEW k \in 1 .. n + 1, k # i PROVE to(k) \in 1 .. n /\ cs[to(k)] = r[k]
      <3>1. CASE k < i
        <4>1. k \in 1 .. n
          BY <2>2, <3>1
        <4> QED
          BY <3>1, <4>1 DEF Inserted
      <3>2. CASE k > i
        <4>1. k - 1 \in 1 .. n /\ k - 1 >= i /\ (k - 1) + 1 = k /\ to(k) = k - 1
          BY <2>2, <3>2
        <4>2. r[k] = cs[k - 1]
          BY <4>1 DEF Inserted
        <4> QED
          BY <4>1, <4>2
      <3> QED
        BY <2>2, <2>4, <3>1, <3>2
    <2>5. \A k \in Private(r) : k \in 1 .. n + 1 /\ k # i /\ to(k) \in Private(cs) /\ cs[to(k)] = r[k]
      <3> HIDE DEF to
      <3> QED
        BY <2>2, <2>3, <2>4 DEF Private
    <2>6. \A j, k \in Private(r) : j < k => to(j) < to(k)
      BY <2>2, <2>5
    <2>7. TurnsOf(was, r, e)
      <3> HIDE DEF to
      <3>1. was \in [Private(r) -> DOMAIN e.unknown]
        BY <2>1, <2>5 DEF TurnsOf
      <3>2. \A j, k \in Private(r) : j < k => was[j] < was[k]
        BY <2>1, <2>5, <2>6 DEF TurnsOf
      <3>3. \A k \in Private(r) : [cc |-> r[k].cc, data |-> r[k].data] = e.unknown[was[k]]
        BY <2>1, <2>5 DEF TurnsOf
      <3> QED
        BY <3>1, <3>2, <3>3 DEF TurnsOf
    <2> QED
      BY <2>7 DEF InTurn
  <1>8. Moved(mm) \/ InTurn(r, e)
    BY <1>0, <1>4, <1>7 DEF FileOf
  <1>9. FileOf(r, e, mm)
    <2> HIDE DEF mm
    <2> QED
      BY <1>2, <1>3, <1>5, <1>6, <1>8 DEF FileOf
  <1> QED
    BY <1>9 DEF m

\* Two neighbours change places.
LEMMA ExchangeKeeps ==
    ASSUME NEW e, IsEncode(e), NEW ms, IsList(ms), NEW cs, FileOf(cs, e, ms),
           NEW i \in (1 .. Len(cs)) \ {1}, NEW x
    PROVE  FileOf(Swapped(cs, i), e, Append(ms, Mishap("exchange", x)))
  <1> DEFINE m == Mishap("exchange", x)
             mm == Append(ms, m)
             r == Swapped(cs, i)
  <1>0. IsList(cs) /\ m.kind = "exchange" /\ m.chunk = x
    BY DEF FileOf, Mishap
  <1> HIDE DEF m
  <1>1. /\ IsList(r) /\ Len(r) = Len(cs)
        /\ r[i] = cs[i - 1] /\ r[i - 1] = cs[i]
        /\ \A k \in 1 .. Len(cs) : k # i /\ k # i - 1 => r[k] = cs[k]
    BY <1>0, SwapFacts
  <1>2. Cardinality(Private(r)) = Cardinality(Private(cs))
    BY <1>0, SwapCounts
  <1> HIDE DEF r
  <1>3. Len(cs) \in Nat /\ DOMAIN cs = 1 .. Len(cs) /\ DOMAIN r = 1 .. Len(cs)
    <2>1. Len(cs) \in Nat /\ DOMAIN cs = 1 .. Len(cs)
      BY <1>0, ListFacts
    <2>2. DOMAIN r = 1 .. Len(r)
      BY <1>1, ListFacts
    <2> QED
      BY <1>1, <2>1, <2>2
  <1>4. /\ \A k \in DOMAIN r : \E j \in DOMAIN cs : r[k] = cs[j]
        /\ \A j \in DOMAIN cs : \E k \in DOMAIN r : r[k] = cs[j]
    <2>1. i \in 1 .. Len(cs) /\ i - 1 \in 1 .. Len(cs)
      BY <1>3
    <2> QED
      BY <1>1, <1>3, <2>1
  <1>5. \A k \in DOMAIN r : Belongs(r[k], e)
    BY <1>4 DEF FileOf
  <1>6. /\ \A cc : Lost(mm, cc) <=> Lost(ms, cc) \/ (m.kind = "lose" /\ m.chunk.cc = cc)
        /\ Moved(mm) <=> Moved(ms) \/ m.kind \in {"exchange", "repeat"}
    BY MishapsStay
  <1>7. \A cc \in Wants(e) : Has(r, cc) \/ Lost(mm, cc)
    BY <1>4, <1>6 DEF FileOf, Has
  <1>8. Counted(r, e, mm)
    <2>1. Counted(cs, e, ms)
      BY DEF FileOf
    <2>2. Cardinality(Private(cs)) \in Nat
      BY <1>0, PrivateIsFinite
    <2>3. m.kind # "lose" /\ Cardinality(Private(r)) =
             Cardinality(Private(cs)) + (IF m.kind = "repeat" /\ ~Known(x.cc) THEN 1 ELSE 0)
      BY <1>0, <1>2, <2>2
    <2> QED
      BY <1>0, <1>1, <2>1, <2>3, OthersCount
  <1>9. Moved(mm)
    BY <1>0, <1>6
  <1>10. FileOf(r, e, mm)
    <2> HIDE DEF mm
    <2> QED
      BY <1>1, <1>5, <1>7, <1>8, <1>9 DEF FileOf
  <1> QED
    BY <1>10 DEF m, r

\* Only the state of chunks is another.
Alike(r, cs) ==
    /\ IsList(r) /\ Len(r) = Len(cs)
    /\ \A k \in 1 .. Len(cs) :
          /\ r[k] = [cc |-> r[k].cc, data |-> r[k].data, state |-> r[k].state]
          /\ r[k].cc = cs[k].cc /\ r[k].data = cs[k].data

LEMMA AlikeKeeps ==
    ASSUME NEW e, IsEncode(e), NEW ms, IsList(ms), NEW cs, FileOf(cs, e, ms),
           NEW r, Alike(r, cs), NEW kind, kind \in {"dirty", "cut", "append"}, NEW x
    PROVE  FileOf(r, e, Append(ms, Mishap(kind, x)))
  <1> DEFINE m == Mishap(kind, x)
             mm == Append(ms, m)
             n == Len(cs)
  <1>0. IsList(cs) /\ m.kind = kind /\ m.chunk = x
    BY DEF FileOf, Mishap
  <1> HIDE DEF m
  <1>1. n \in Nat /\ DOMAIN cs = 1 .. n /\ DOMAIN r = 1 .. n /\ IsList(r)
    <2>1. n \in Nat /\ DOMAIN cs = 1 .. n
      BY <1>0, ListFacts
    <2>2. IsList(r) /\ Len(r) = n
      BY DEF Alike
    <2>3. DOMAIN r = 1 .. Len(r)
      BY <2>2, ListFacts
    <2> QED
      BY <2>1, <2>2, <2>3
  <1>2. \A k \in 1 .. n :
           /\ r[k] = [cc |-> r[k].cc, data |-> r[k].data, state |-> r[k].state]
           /\ r[k].cc = cs[k].cc /\ r[k].data = cs[k].data
    BY DEF Alike
  <1> HIDE DEF n
  <1>3. \A k \in DOMAIN r : Belongs(r[k], e)
    <2>1. SUFFICES ASSUME NEW k \in 1 .. n PROVE Belongs(r[k], e)
      BY <1>1
    <2>2. Belongs(cs[k], e)
      BY <1>1 DEF FileOf
    <2> QED
      BY <1>2, <2>2 DEF Belongs
  <1>4. /\ \A cc : Lost(mm, cc) <=> Lost(ms, cc) \/ (m.kind = "lose" /\ m.chunk.cc = cc)
        /\ Moved(mm) <=> Moved(ms) \/ m.kind \in {"exchange", "repeat"}
    BY MishapsStay
  <1>5. \A cc \in Wants(e) : Has(r, cc) \/ Lost(mm, cc)
    BY <1>1, <1>2, <1>4 DEF FileOf, Has
  <1>6. Private(r) = Private(cs)
    BY <1>1, <1>2 DEF Private
  <1>7. Counted(r, e, mm)
    <2>1. Counted(cs, e, ms)
      BY DEF FileOf
    <2>2. Cardinality(Private(cs)) \in Nat
      BY <1>0, PrivateIsFinite
    <2>3. m.kind # "lose" /\ m.kind # "repeat"
      BY <1>0
    <2>4. Cardinality(Private(r)) =
             Cardinality(Private(cs)) + (IF m.kind = "repeat" /\ ~Known(x.cc) THEN 1 ELSE 0)
      BY <1>6, <2>2, <2>3
    <2> QED
      BY <1>0, <1>1, <2>1, <2>3, <2>4, OthersCount
  <1>8. ASSUME InTurn(cs, e) PROVE InTurn(r, e)
    <2>1. PICK at : TurnsOf(at, cs, e)
      BY <1>8 DEF InTurn
    <2>2. \A k \in Private(r) : r[k].cc = cs[k].cc /\ r[k].data = cs[k].data
      BY <1>1, <1>2 DEF Private
    <2>3. TurnsOf(at, r, e)
      BY <1>6, <2>1, <2>2 DEF TurnsOf
    <2> QED
      BY <2>3 DEF InTurn
  <1>9. Moved(mm) \/ InTurn(r, e)
    BY <1>4, <1>8 DEF FileOf
  <1>10. FileOf(r, e, mm)
    <2> HIDE DEF mm
    <2> QED
      BY <1>1, <1>3, <1>5, <1>7, <1>9 DEF FileOf
  <1> QED
    BY <1>10 DEF m

----------------------------------------------------------------------------
(* What the encoder writes is a file of what it was given. *)

\* Chunks the encoder writes for the image itself.
Own(s, e) == IsList(s) /\ \A c \in ToSet(s) : Belongs(c, e) /\ Known(c.cc)
Names(s) == {c.cc : c \in ToSet(s)}

\* One part of a file and the next.
Join(a, b) == a \o b

LEMMA OwnJoined ==
    ASSUME NEW e, NEW a, NEW b, Own(a, e), Own(b, e)
    PROVE  Own(Join(a, b), e) /\ \A cc : cc \in Names(a) \/ cc \in Names(b) => cc \in Names(Join(a, b))
  <1> DEFINE S == ToSet(a) \cup ToSet(b)
  <1>1. a \in Seq(S) /\ b \in Seq(S)
    <2>1. ToSet(a) \subseteq S /\ ToSet(b) \subseteq S /\ a \in Seq(ToSet(a)) /\ b \in Seq(ToSet(b))
      BY DEF Own, IsList
    <2> HIDE DEF S
    <2> QED
      BY <2>1, Widened
  <1>2. a \o b \in Seq(S) /\ ToSet(a \o b) = ToSet(a) \cup ToSet(b)
    <2> HIDE DEF S
    <2> QED
      BY <1>1, JoinedElements
  <1>3. IsList(a \o b)
    BY <1>2 DEF IsList
  <1> QED
    BY <1>2, <1>3 DEF Own, Names, Join

LEMMA OwnChunk ==
    ASSUME NEW e, NEW cc, NEW data, Known(cc),
           Belongs([cc |-> cc, data |-> data, state |-> "whole"], e)
    PROVE  Own(Chunk(cc, data), e) /\ Names(Chunk(cc, data)) = {cc}
  <1> DEFINE c == [cc |-> cc, data |-> data, state |-> "whole"]
             s == Chunk(cc, data)
  <1>1. c.cc = cc
    OBVIOUS
  <1>2. s = <<c>>
    BY DEF Chunk
  <1> HIDE DEF c, s
  <1>3. s = [k \in 1 .. 1 |-> s[k]] /\ s[1] = c /\ 1 \in Nat
    BY <1>2
  <1>4. IsList(s)
    BY <1>3, MadeList
  <1>5. ToSet(s) = {c}
    BY <1>3 DEF ToSet
  <1> QED
    BY <1>1, <1>4, <1>5 DEF Own, Names, c, s

LEMMA OwnNothing ==
    ASSUME NEW e
    PROVE  Own(<<>>, e) /\ Names(<<>>) = {}
  <1>1. ToSet(<<>>) = {}
    BY DEF ToSet
  <1>2. IsList(<<>>)
    BY EmptySeq DEF IsList
  <1> QED
    BY <1>1, <1>2 DEF Own, Names

LEMMA OwnOptional ==
    ASSUME NEW e, NEW cc, NEW slot, Known(cc), IsSlot(slot),
           slot # <<>> => Belongs([cc |-> cc, data |-> slot[1], state |-> "whole"], e)
    PROVE  /\ Own(Optional(cc, slot), e)
           /\ slot # <<>> => cc \in Names(Optional(cc, slot))
  <1>1. CASE slot = <<>>
    BY <1>1, OwnNothing DEF Optional
  <1>2. CASE slot # <<>>
    <2> DEFINE data == slot[1]
    <2>1. Optional(cc, slot) = Chunk(cc, data)
      BY <1>2 DEF Optional
    <2>2. Belongs([cc |-> cc, data |-> data, state |-> "whole"], e)
      BY <1>2
    <2> HIDE DEF data
    <2>3. Own(Chunk(cc, data), e) /\ Names(Chunk(cc, data)) = {cc}
      BY <2>2, OwnChunk
    <2> QED
      BY <2>1, <2>3
  <1> QED
    BY <1>1, <1>2

\* The image's chunks, then the private ones as given.
LEMMA Framed ==
    ASSUME NEW e, IsEncode(e), NEW p, Own(p, e), Wants(e) \subseteq Names(p)
    PROVE  FileOf(p \o Unknown(e.unknown), e, <<>>)
  <1> DEFINE list == e.unknown
             u == Unknown(list)
             S == ToSet(p) \cup ToSet(u)
             r == p \o u
             m == Len(p)
             n == Len(list)
  <1>1. /\ IsList(list) /\ n \in Nat /\ DOMAIN list = 1 .. n
        /\ \A k \in 1 .. n : /\ list[k] = [cc |-> list[k].cc, data |-> list[k].data]
                             /\ ~Known(list[k].cc) /\ list[k] \in ToSet(list)
    <2>1. IsList(list)
      BY DEF IsEncode, IsList
    <2>2. n \in Nat /\ DOMAIN list = 1 .. n /\ \A k \in 1 .. n : list[k] \in ToSet(list)
      BY <2>1, ListFacts
    <2> QED
      BY <2>1, <2>2 DEF IsEncode
  <1> HIDE DEF list
  <1>2. /\ DOMAIN u = 1 .. n
        /\ \A k \in 1 .. n : u[k] = [cc |-> list[k].cc, data |-> list[k].data, state |-> "whole"]
    BY <1>1 DEF Unknown, Chunk
  <1>3. u = [k \in 1 .. n |-> u[k]]
    BY <1>1 DEF Unknown
  <1> HIDE DEF u
  <1>4. IsList(u) /\ Len(u) = n
    BY <1>1, <1>3, MadeList
  <1>5. IsList(p) /\ m \in Nat /\ DOMAIN p = 1 .. m
        /\ \A k \in 1 .. m : Belongs(p[k], e) /\ Known(p[k].cc)
    <2>1. IsList(p)
      BY DEF Own
    <2>2. m \in Nat /\ DOMAIN p = 1 .. m /\ \A k \in 1 .. m : p[k] \in ToSet(p)
      BY <2>1, ListFacts
    <2> QED
      BY <2>1, <2>2 DEF Own
  <1>6. p \in Seq(S) /\ u \in Seq(S)
    <2>1. ToSet(p) \subseteq S /\ ToSet(u) \subseteq S /\ p \in Seq(ToSet(p)) /\ u \in Seq(ToSet(u))
      BY <1>4, <1>5 DEF IsList
    <2> HIDE DEF S
    <2> QED
      BY <2>1, Widened
  <1> HIDE DEF S, m, n
  <1>7. /\ r \in Seq(S) /\ Len(r) = Len(p) + Len(u)
        /\ \A i \in 1 .. Len(p) + Len(u) : r[i] = IF i <= Len(p) THEN p[i] ELSE u[i - Len(p)]
    BY <1>6, ConcatProperties
  <1> HIDE DEF r
  <1>8. /\ IsList(r) /\ DOMAIN r = 1 .. m + n
        /\ \A i \in 1 .. m : r[i] = p[i]
        /\ \A i \in m + 1 .. m + n : r[i] = u[i - m] /\ i - m \in 1 .. n
    <2>1. IsList(r)
      BY <1>7, SeqIsList
    <2>2. Len(r) = m + n
      BY <1>4, <1>7 DEF m
    <2>3. DOMAIN r = 1 .. m + n
      BY <2>1, <2>2, ListFacts
    <2>4. \A i \in 1 .. m + n : r[i] = IF i <= m THEN p[i] ELSE u[i - m]
      BY <1>4, <1>7 DEF m
    <2>5. ASSUME NEW i \in 1 .. m PROVE r[i] = p[i]
      BY <1>1, <1>5, <2>4
    <2>6. ASSUME NEW i \in m + 1 .. m + n PROVE r[i] = u[i - m] /\ i - m \in 1 .. n
      BY <1>1, <1>5, <2>4
    <2> QED
      BY <2>1, <2>3, <2>5, <2>6
  <1>9. ASSUME NEW i \in m + 1 .. m + n
        PROVE  /\ r[i] = [cc |-> r[i].cc, data |-> r[i].data, state |-> r[i].state]
               /\ ~Known(r[i].cc) /\ [cc |-> r[i].cc, data |-> r[i].data] = list[i - m]
               /\ list[i - m] \in ToSet(list)
    <2>1. i - m \in 1 .. n /\ r[i] = u[i - m]
      BY <1>8
    <2> QED
      BY <1>1, <1>2, <2>1
  <1>10. \A i \in 1 .. m + n : i \in 1 .. m \/ i \in m + 1 .. m + n
    BY <1>1, <1>5
  <1>11. \A k \in DOMAIN r : Belongs(r[k], e)
    <2>1. ASSUME NEW i \in m + 1 .. m + n PROVE Belongs(r[i], e)
      <3>1. ~Known(r[i].cc)
        BY <1>9
      <3>2. r[i].cc \notin Metadata /\ r[i].cc \notin Bitstreams /\ r[i].cc \notin {"VP8X", "ALPH"}
        BY <3>1 DEF Known, Metadata, Bitstreams, Reconstructs
      <3> QED
        BY <1>9, <3>2 DEF Belongs, list
    <2> QED
      BY <1>5, <1>8, <1>10, <2>1
  <1>12. \A cc \in Wants(e) : Has(r, cc)
    <2>1. SUFFICES ASSUME NEW cc \in Names(p) PROVE Has(r, cc)
      OBVIOUS
    <2>2. PICK c \in ToSet(p) : c.cc = cc
      BY DEF Names
    <2>3. PICK k \in 1 .. m : c = p[k]
      BY <1>5 DEF ToSet
    <2>4. k \in 1 .. m + n
      BY <1>1, <1>5
    <2> QED
      BY <1>8, <2>2, <2>3, <2>4 DEF Has
  <1>13. Private(r) = m + 1 .. m + n
    <2>1. ASSUME NEW i \in 1 .. m PROVE Known(r[i].cc)
      BY <1>5, <1>8
    <2>2. ASSUME NEW i \in m + 1 .. m + n PROVE ~Known(r[i].cc) /\ i \in 1 .. m + n
      <3>1. ~Known(r[i].cc)
        BY <1>9
      <3>2. i \in 1 .. m + n
        BY <1>1, <1>5
      <3> QED
        BY <3>1, <3>2
    <2> QED
      BY <1>8, <1>10, <2>1, <2>2 DEF Private
  <1>14. Counted(r, e, <<>>)
    <2>1. Cardinality(m + 1 .. m + n) = IF m + 1 > m + n THEN 0 ELSE m + n - (m + 1) + 1
      BY <1>1, <1>5, FS_Interval
    <2>2. Cardinality(m + 1 .. m + n) = n
      BY <1>1, <1>5, <2>1
    <2>3. Befallen(<<>>, "repeat") = {} /\ Befallen(<<>>, "lose") = {}
      BY DEF Befallen
    <2>4. /\ Cardinality(Befallen(<<>>, "repeat")) = 0
          /\ Cardinality(Befallen(<<>>, "lose")) = 0
      BY <2>3, FS_EmptySet
    <2>5. Cardinality(Private(r)) = n
      BY <1>13, <2>2
    <2>6. n = Len(e.unknown)
      BY DEF n, list
    <2>7. n = n + 0 - 0
      BY <1>1
    <2> QED
      BY <2>4, <2>5, <2>6, <2>7 DEF Counted
  <1>15. InTurn(r, e)
    <2> DEFINE at == [k \in Private(r) |-> k - m]
    <2>1. at \in [Private(r) -> DOMAIN list]
      BY <1>1, <1>5, <1>8, <1>13
    <2>2. \A j, k \in Private(r) : j < k => at[j] < at[k]
      BY <1>1, <1>5, <1>13
    <2>3. \A k \in Private(r) : [cc |-> r[k].cc, data |-> r[k].data] = list[at[k]]
      BY <1>9, <1>13
    <2>4. TurnsOf(at, r, e)
      <3> HIDE DEF at
      <3> QED
        BY <2>1, <2>2, <2>3 DEF TurnsOf, list
    <2> QED
      BY <2>4 DEF InTurn
  <1>16. FileOf(r, e, <<>>)
    BY <1>8, <1>11, <1>12, <1>14, <1>15 DEF FileOf
  <1> QED
    BY <1>16 DEF r, u, list

\* The chunk of a metadata payload, if there is one.
Meta(e, cc) == Optional(cc, e.metadata[cc])

LEMMA WrapIsFile ==
    ASSUME NEW e, IsEncode(e)
    PROVE  /\ FileOf(Wrap(e).chunks, e, <<>>)
           /\ Wrap(e) = [claim |-> Wrap(e).claim, chunks |-> Wrap(e).chunks,
                         trailing |-> Wrap(e).trailing]
  <1> DEFINE img == Chunk(e.codestream, e.pixels)
             alpha == Optional("ALPH", e.alph)
             head == Chunk("VP8X", Flags(e))
             p2 == Join(head, Meta(e, "ICCP"))
             p3 == Join(p2, alpha)
             p4 == Join(p3, img)
             p5 == Join(p4, Meta(e, "EXIF"))
             p6 == Join(p5, Meta(e, "XMP "))
  <1>1. Own(img, e) /\ Names(img) = {e.codestream}
    <2> DEFINE c == [cc |-> e.codestream, data |-> e.pixels, state |-> "whole"]
    <2>1. e.codestream \in Bitstreams
      BY DEF IsEncode
    <2>2. Known(e.codestream) /\ e.codestream \notin Metadata /\ e.codestream # "ALPH" /\ e.codestream # "VP8X"
      BY <2>1 DEF Known, Reconstructs, Bitstreams, Metadata
    <2>3. Belongs(c, e)
      BY <2>1, <2>2 DEF Belongs
    <2> HIDE DEF c
    <2> QED
      BY <2>2, <2>3, OwnChunk DEF c
  <1>2. ASSUME NEW cc \in Metadata
        PROVE  /\ Own(Meta(e, cc), e)
               /\ e.metadata[cc] # <<>> => cc \in Names(Meta(e, cc))
    <2> DEFINE slot == e.metadata[cc]
    <2>1. IsSlot(slot) /\ Known(cc) /\ cc \notin Bitstreams /\ cc # "ALPH" /\ cc # "VP8X"
      BY DEF IsEncode, Known, Reconstructs, Bitstreams, Metadata
    <2>2. ASSUME slot # <<>> PROVE Belongs([cc |-> cc, data |-> slot[1], state |-> "whole"], e)
      <3>1. slot = <<slot[1]>>
        BY <2>1, <2>2 DEF IsSlot
      <3> DEFINE d == slot[1]
      <3>2. e.metadata[cc] = <<d>>
        BY <3>1
      <3> HIDE DEF slot, d
      <3>3. Belongs([cc |-> cc, data |-> d, state |-> "whole"], e)
        BY <2>1, <3>2 DEF Belongs
      <3> QED
        BY <3>3 DEF d
    <2> HIDE DEF slot
    <2>3. /\ Own(Optional(cc, slot), e)
          /\ slot # <<>> => cc \in Names(Optional(cc, slot))
      BY <2>1, <2>2, OwnOptional
    <2> QED
      BY <2>3 DEF slot, Meta
  <1>3. /\ Own(alpha, e)
        /\ e.alph # <<>> => "ALPH" \in Names(alpha)
    <2> DEFINE slot == e.alph
               cc == "ALPH"
    <2>1. IsSlot(slot) /\ Known(cc) /\ cc \notin Bitstreams /\ cc \notin Metadata /\ cc # "VP8X"
      BY DEF IsEncode, Known, Reconstructs, Bitstreams, Metadata
    <2>2. ASSUME slot # <<>> PROVE Belongs([cc |-> cc, data |-> slot[1], state |-> "whole"], e)
      <3>1. slot = <<slot[1]>>
        BY <2>1, <2>2 DEF IsSlot
      <3> DEFINE d == slot[1]
      <3>2. e.alph = <<d>>
        BY <3>1
      <3> HIDE DEF slot, d
      <3>3. Belongs([cc |-> cc, data |-> d, state |-> "whole"], e)
        BY <2>1, <3>2 DEF Belongs
      <3> QED
        BY <3>3 DEF d
    <2> HIDE DEF slot, cc
    <2>3. /\ Own(Optional(cc, slot), e)
          /\ slot # <<>> => cc \in Names(Optional(cc, slot))
      BY <2>1, <2>2, OwnOptional
    <2> QED
      BY <2>3 DEF slot, cc
  <1>4. Own(head, e)
    <2> DEFINE c == [cc |-> "VP8X", data |-> Flags(e), state |-> "whole"]
    <2>1. Flags(e).canvas = "good"
      BY DEF Flags
    <2>2. Known("VP8X") /\ "VP8X" \notin Metadata /\ "VP8X" \notin Bitstreams
      BY DEF Known, Reconstructs, Bitstreams, Metadata
    <2>3. Belongs(c, e)
      BY <2>1, <2>2 DEF Belongs
    <2> HIDE DEF c
    <2> QED
      BY <2>2, <2>3, OwnChunk DEF c
  <1>5. CASE IsSimple(e)
    <2>1. e.metadata = NoMetadata /\ e.alph = <<>> /\ e.unknown = <<>>
      BY <1>5 DEF IsSimple
    <2>2. Wants(e) \subseteq Names(img)
      BY <1>1, <2>1 DEF Wants, NoMetadata
    <2>3. FileOf(img \o Unknown(e.unknown), e, <<>>)
      <3> HIDE DEF img
      <3> QED
        BY <1>1, <2>2, Framed
    <2>4. Unknown(e.unknown) = <<>>
      BY <2>1 DEF Unknown
    <2>5. img \in Seq(ToSet(img))
      BY <1>1 DEF Own, IsList
    <2> HIDE DEF img
    <2>6. img \o <<>> = img
      BY <2>5, ConcatEmptySeq
    <2>7. FileOf(img, e, <<>>)
      BY <2>3, <2>4, <2>6
    <2>8. Wrap(e) = Riff(img)
      BY <1>5 DEF Wrap, img
    <2> QED
      BY <2>7, <2>8 DEF Riff
  <1>6. CASE ~IsSimple(e)
    <2>1. Wrap(e) = Riff(p6 \o Unknown(e.unknown))
      BY <1>6 DEF Wrap, WriteExtended, Meta, Join
    <2>2. "ICCP" \in Metadata /\ "EXIF" \in Metadata /\ "XMP " \in Metadata
          /\ \A cc \in Metadata : cc \in {"ICCP", "EXIF", "XMP "}
      BY DEF Metadata
    <2> HIDE DEF head, img, alpha, p2, p3, p4, p5, p6
    <2>3. Own(p2, e) /\ \A cc : cc \in Names(head) \/ cc \in Names(Meta(e, "ICCP")) => cc \in Names(p2)
      <3>1. Own(head, e) /\ Own(Meta(e, "ICCP"), e)
        BY <1>2, <1>4, <2>2
      <3>2. /\ Own(Join(head, Meta(e, "ICCP")), e)
            /\ \A cc : cc \in Names(head) \/ cc \in Names(Meta(e, "ICCP")) => cc \in Names(Join(head, Meta(e, "ICCP")))
        BY <3>1, OwnJoined
      <3> QED
        BY <3>2 DEF p2
    <2>4. Own(p3, e) /\ \A cc : cc \in Names(p2) \/ cc \in Names(alpha) => cc \in Names(p3)
      <3>1. Own(p2, e) /\ Own(alpha, e)
        BY <1>3, <2>3
      <3>2. /\ Own(Join(p2, alpha), e)
            /\ \A cc : cc \in Names(p2) \/ cc \in Names(alpha) => cc \in Names(Join(p2, alpha))
        BY <3>1, OwnJoined
      <3> QED
        BY <3>2 DEF p3
    <2>5. Own(p4, e) /\ \A cc : cc \in Names(p3) \/ cc \in Names(img) => cc \in Names(p4)
      <3>1. Own(p3, e) /\ Own(img, e)
        BY <1>1, <2>4
      <3>2. /\ Own(Join(p3, img), e)
            /\ \A cc : cc \in Names(p3) \/ cc \in Names(img) => cc \in Names(Join(p3, img))
        BY <3>1, OwnJoined
      <3> QED
        BY <3>2 DEF p4
    <2>6. Own(p5, e) /\ \A cc : cc \in Names(p4) \/ cc \in Names(Meta(e, "EXIF")) => cc \in Names(p5)
      <3>1. Own(p4, e) /\ Own(Meta(e, "EXIF"), e)
        BY <1>2, <2>2, <2>5
      <3>2. /\ Own(Join(p4, Meta(e, "EXIF")), e)
            /\ \A cc : cc \in Names(p4) \/ cc \in Names(Meta(e, "EXIF")) => cc \in Names(Join(p4, Meta(e, "EXIF")))
        BY <3>1, OwnJoined
      <3> QED
        BY <3>2 DEF p5
    <2>7. Own(p6, e) /\ \A cc : cc \in Names(p5) \/ cc \in Names(Meta(e, "XMP ")) => cc \in Names(p6)
      <3>1. Own(p5, e) /\ Own(Meta(e, "XMP "), e)
        BY <1>2, <2>2, <2>6
      <3>2. /\ Own(Join(p5, Meta(e, "XMP ")), e)
            /\ \A cc : cc \in Names(p5) \/ cc \in Names(Meta(e, "XMP ")) => cc \in Names(Join(p5, Meta(e, "XMP ")))
        BY <3>1, OwnJoined
      <3> QED
        BY <3>2 DEF p6
    <2>8. Wants(e) \subseteq Names(p6)
      <3>1. ASSUME NEW cc \in Metadata, e.metadata[cc] # <<>> PROVE cc \in Names(p6)
        <4>1. cc \in Names(Meta(e, cc))
          BY <1>2, <3>1
        <4> QED
          BY <2>2, <2>3, <2>4, <2>5, <2>6, <2>7, <4>1
      <3>2. e.alph # <<>> => "ALPH" \in Names(p6)
        BY <1>3, <2>4, <2>5, <2>6, <2>7
      <3>3. e.codestream \in Names(p6)
        BY <1>1, <2>5, <2>6, <2>7
      <3> QED
        BY <3>1, <3>2, <3>3 DEF Wants
    <2>9. FileOf(p6 \o Unknown(e.unknown), e, <<>>)
      BY <2>7, <2>8, Framed
    <2> QED
      BY <2>1, <2>9 DEF Riff
  <1> QED
    BY <1>5, <1>6

----------------------------------------------------------------------------
(* The strict walk. *)

Slots(D) == {<<>>} \cup {<<d>> : d \in D}
Layouts(D, U, t) ==
    [ok : BOOLEAN, rank : 0 .. 4, vp8x : Slots(D), metadata : [Metadata -> Slots(D)], alph : Slots(D),
     bitstream : Slots(U), unknown : Seq(U), trailing : {t}]

LEMMA RankTable ==
    /\ Rank("VP8X") = 0 /\ Rank("ICCP") = 1 /\ Rank("ANIM") = 2 /\ Rank("ANMF") = 3
    /\ Rank("ALPH") = 3 /\ Rank("VP8 ") = 4 /\ Rank("VP8L") = 4
  <1>1. Rank("VP8X") = 0 /\ Rank("ICCP") = 1
    BY Zenon DEF Rank
  <1>2. Rank("ANIM") = 2 /\ Rank("ANMF") = 3
    BY Zenon DEF Rank
  <1>3. Rank("ALPH") = 3
    BY Zenon DEF Rank
  <1>4. Rank("VP8 ") = 4 /\ Rank("VP8L") = 4
    BY Zenon DEF Rank
  <1> QED
    BY <1>1, <1>2, <1>3, <1>4

LEMMA RankType ==
    \A cc \in Reconstructs : Rank(cc) \in 0 .. 4
  <1>1. SUFFICES ASSUME NEW cc \in Reconstructs PROVE Rank(cc) \in 0 .. 4
    OBVIOUS
  <1>2. cc \in {"VP8X", "ICCP", "ANIM", "ANMF", "ALPH", "VP8 ", "VP8L"}
    BY DEF Reconstructs
  <1>3. Rank(cc) \in {0, 1, 2, 3, 4}
    BY <1>2, RankTable, Zenon
  <1> QED
    BY <1>3

LEMMA InsertType ==
    ASSUME NEW D, NEW d \in D, NEW slot \in Slots(D)
    PROVE  Insert(slot, d) \in Slots(D)
  BY DEF Insert, Slots

LEMMA KeptType ==
    ASSUME NEW D, NEW c, c.data \in D, NEW found \in [Metadata -> Slots(D)]
    PROVE  /\ Kept(found, c) \in [Metadata -> Slots(D)]
           /\ \A cc \in Metadata :
                 Kept(found, c)[cc] = IF c.cc = cc THEN Insert(found[cc], c.data) ELSE found[cc]
  <1>1. CASE c.cc \in Metadata
    <2> DEFINE v == Insert(found[c.cc], c.data)
    <2>1. v \in Slots(D)
      <3>1. found[c.cc] \in Slots(D)
        BY <1>1
      <3> QED
        BY <3>1, InsertType
    <2>2. Kept(found, c) = [found EXCEPT ![c.cc] = v]
      BY <1>1 DEF Kept
    <2>3. \A cc \in Metadata : c.cc = cc => v = Insert(found[cc], c.data)
      OBVIOUS
    <2> HIDE DEF v
    <2> QED
      BY <1>1, <2>1, <2>2, <2>3
  <1>2. CASE c.cc \notin Metadata
    BY <1>2 DEF Kept
  <1> QED
    BY <1>1, <1>2

\* What a chunk that is not refused adds.
PlaceOf(lay, c) ==
    [ok |-> lay.ok,
     rank |-> IF c.cc \in Reconstructs THEN Rank(c.cc) ELSE lay.rank,
     vp8x |-> IF c.cc = "VP8X" THEN Insert(lay.vp8x, c.data) ELSE lay.vp8x,
     metadata |-> Kept(lay.metadata, c),
     alph |-> IF c.cc = "ALPH" THEN Insert(lay.alph, c.data) ELSE lay.alph,
     bitstream |-> IF c.cc \in Bitstreams
                   THEN Insert(lay.bitstream, [cc |-> c.cc, data |-> c.data]) ELSE lay.bitstream,
     unknown |-> IF Known(c.cc) THEN lay.unknown
                 ELSE Append(lay.unknown, [cc |-> c.cc, data |-> c.data]),
     trailing |-> lay.trailing]

LEMMA PlacedWhere ==
    ASSUME NEW D, NEW U, NEW t, NEW lay \in Layouts(D, U, t), NEW c, c.cc \notin {"ANIM", "ANMF"}
    PROVE  Placed(Ranked(lay, c.cc), c) = PlaceOf(lay, c)
  <1> DEFINE l == Ranked(lay, c.cc)
             rank == IF c.cc \in Reconstructs THEN Rank(c.cc) ELSE lay.rank
  <1>1. lay = [ok |-> lay.ok, rank |-> lay.rank, vp8x |-> lay.vp8x, metadata |-> lay.metadata,
               alph |-> lay.alph, bitstream |-> lay.bitstream, unknown |-> lay.unknown,
               trailing |-> lay.trailing]
    BY DEF Layouts
  <1>2. l = [ok |-> lay.ok, rank |-> rank, vp8x |-> lay.vp8x, metadata |-> lay.metadata,
             alph |-> lay.alph, bitstream |-> lay.bitstream, unknown |-> lay.unknown,
             trailing |-> lay.trailing]
    BY <1>1 DEF Ranked
  <1> HIDE DEF l
  <1>3. CASE c.cc = "VP8X"
    <2>1. c.cc \notin Metadata /\ c.cc \notin Bitstreams /\ Known(c.cc) /\ c.cc # "ALPH"
      BY <1>3 DEF Metadata, Bitstreams, Known, Reconstructs
    <2>2. Placed(l, c) = [l EXCEPT !.vp8x = Insert(@, c.data)]
      BY <1>3, <2>1 DEF Placed
    <2>3. Kept(lay.metadata, c) = lay.metadata
      BY <2>1 DEF Kept
    <2> QED
      BY <1>2, <1>3, <2>1, <2>2, <2>3 DEF PlaceOf, l
  <1>4. CASE c.cc \in Metadata
    <2>1. c.cc # "VP8X" /\ c.cc \notin Bitstreams /\ Known(c.cc) /\ c.cc # "ALPH"
      BY <1>4 DEF Metadata, Bitstreams, Known
    <2>2. Placed(l, c) = [l EXCEPT !.metadata = Kept(@, c)]
      BY <1>4, <2>1 DEF Placed
    <2> QED
      BY <1>2, <1>4, <2>1, <2>2 DEF PlaceOf, l
  <1>5. CASE c.cc = "ALPH"
    <2>1. c.cc \notin Metadata /\ c.cc \notin Bitstreams /\ Known(c.cc) /\ c.cc # "VP8X"
      BY <1>5 DEF Metadata, Bitstreams, Known, Reconstructs
    <2>2. Placed(l, c) = [l EXCEPT !.alph = Insert(@, c.data)]
      BY <1>5, <2>1 DEF Placed
    <2>3. Kept(lay.metadata, c) = lay.metadata
      BY <2>1 DEF Kept
    <2> QED
      BY <1>2, <1>5, <2>1, <2>2, <2>3 DEF PlaceOf, l
  <1>6. CASE c.cc \in Bitstreams
    <2>1. c.cc \notin Metadata /\ c.cc # "ALPH" /\ Known(c.cc) /\ c.cc # "VP8X"
      BY <1>6 DEF Metadata, Bitstreams, Known, Reconstructs
    <2>2. Placed(l, c) = [l EXCEPT !.bitstream = Insert(@, [cc |-> c.cc, data |-> c.data])]
      BY <1>6, <2>1 DEF Placed
    <2>3. Kept(lay.metadata, c) = lay.metadata
      BY <2>1 DEF Kept
    <2> QED
      BY <1>2, <1>6, <2>1, <2>2, <2>3 DEF PlaceOf, l
  <1>7. CASE c.cc # "VP8X" /\ c.cc \notin Metadata /\ c.cc # "ALPH" /\ c.cc \notin Bitstreams
    <2>1. ~Known(c.cc)
      BY <1>7 DEF Metadata, Bitstreams, Known, Reconstructs
    <2>2. Placed(l, c) = [l EXCEPT !.unknown = Append(@, [cc |-> c.cc, data |-> c.data])]
      BY <1>7 DEF Placed
    <2>3. Kept(lay.metadata, c) = lay.metadata
      BY <1>7 DEF Kept
    <2> QED
      BY <1>2, <1>7, <2>1, <2>2, <2>3 DEF PlaceOf, l
  <1> QED
    BY <1>3, <1>4, <1>5, <1>6, <1>7 DEF l

LEMMA PlaceType ==
    ASSUME NEW D, NEW U, NEW t, NEW lay \in Layouts(D, U, t),
           NEW c, c.data \in D, [cc |-> c.cc, data |-> c.data] \in U
    PROVE  PlaceOf(lay, c) \in Layouts(D, U, t)
  <1> DEFINE x == [cc |-> c.cc, data |-> c.data]
  <1>1. /\ lay.ok \in BOOLEAN /\ lay.rank \in 0 .. 4 /\ lay.vp8x \in Slots(D)
        /\ lay.metadata \in [Metadata -> Slots(D)] /\ lay.alph \in Slots(D)
        /\ lay.bitstream \in Slots(U) /\ lay.unknown \in Seq(U) /\ lay.trailing = t
    BY DEF Layouts
  <1>2. x \in U
    OBVIOUS
  <1> HIDE DEF x
  <1>3. Append(lay.unknown, x) \in Seq(U)
    BY <1>1, <1>2, AppendProperties
  <1>4. Insert(lay.vp8x, c.data) \in Slots(D) /\ Insert(lay.alph, c.data) \in Slots(D)
    BY <1>1, InsertType
  <1>5. Insert(lay.bitstream, x) \in Slots(U)
    BY <1>1, <1>2, InsertType
  <1>6. Kept(lay.metadata, c) \in [Metadata -> Slots(D)]
    BY <1>1, KeptType
  <1>7. c.cc \in Reconstructs => Rank(c.cc) \in 0 .. 4
    BY RankType
  <1> QED
    BY <1>1, <1>3, <1>4, <1>5, <1>6, <1>7 DEF PlaceOf, Layouts, x

LEMMA NextType ==
    ASSUME NEW D, NEW U, NEW t, NEW lay \in Layouts(D, U, t),
           NEW c, c.data \in D, [cc |-> c.cc, data |-> c.data] \in U
    PROVE  NextChunk(lay, c) \in Layouts(D, U, t)
  <1>1. CASE ~lay.ok
    BY <1>1 DEF NextChunk
  <1>2. CASE lay.ok /\ Refuses(lay, c)
    <2>1. NextChunk(lay, c) = [lay EXCEPT !.ok = FALSE]
      BY <1>2 DEF NextChunk
    <2> QED
      BY <2>1 DEF Layouts
  <1>3. CASE lay.ok /\ ~Refuses(lay, c)
    <2>1. NextChunk(lay, c) = Placed(Ranked(lay, c.cc), c)
      BY <1>3 DEF NextChunk
    <2>2. c.cc \notin {"ANIM", "ANMF"}
      BY <1>3 DEF Refuses
    <2> QED
      BY <2>1, <2>2, PlacedWhere, PlaceType
  <1> QED
    BY <1>1, <1>2, <1>3

\* What the strict walk has found in the first k chunks, when it accepts them.
Filled(slot, cs, k, cc) ==
    \/ slot = <<>> /\ \A j \in 1 .. k : cs[j].cc # cc
    \/ \E j \in 1 .. k : cs[j].cc = cc /\ slot = <<cs[j].data>>
Streamed(slot, cs, k) ==
    \/ slot = <<>> /\ \A j \in 1 .. k : cs[j].cc \notin Bitstreams
    \/ \E j \in 1 .. k : cs[j].cc \in Bitstreams /\ slot = <<[cc |-> cs[j].cc, data |-> cs[j].data]>>
PrivateTo(cs, k) == {j \in 1 .. k : ~Known(cs[j].cc)}
Lists(g, list, cs, k) ==
    /\ g \in [1 .. Len(list) -> PrivateTo(cs, k)]
    /\ \A i, j \in 1 .. Len(list) : i < j => g[i] < g[j]
    /\ \A j \in 1 .. Len(list) : list[j] = [cc |-> cs[g[j]].cc, data |-> cs[g[j]].data]
Listed(list, cs, k) ==
    (\E g : Lists(g, list, cs, k)) /\ Len(list) = Cardinality(PrivateTo(cs, k))
Ranks(rank, cs, k) ==
    /\ \A j \in 1 .. k : cs[j].cc \in Reconstructs => Rank(cs[j].cc) <= rank
    /\ rank = 0 \/ \E j \in 1 .. k : cs[j].cc \in Reconstructs /\ Rank(cs[j].cc) = rank
Headed(slot, cs, k) == slot = <<>> <=> \A j \in 1 .. k : cs[j].cc # "VP8X"

Reads(lay, cs, k) ==
    /\ Ranks(lay.rank, cs, k) /\ Headed(lay.vp8x, cs, k)
    /\ \A cc \in Metadata : Filled(lay.metadata[cc], cs, k, cc)
    /\ Filled(lay.alph, cs, k, "ALPH") /\ Streamed(lay.bitstream, cs, k)
    /\ Listed(lay.unknown, cs, k)

\* A chunk the strict walk goes past.
FineAt(cs, k) ==
    /\ IsReadable(cs[k]) /\ cs[k].cc \notin {"ANIM", "ANMF"}
    /\ cs[k].cc \in Reconstructs =>
          \A j \in 1 .. k - 1 : cs[j].cc \in Reconstructs => Rank(cs[j].cc) <= Rank(cs[k].cc)
    /\ cs[k].cc = "VP8X" /\ (\A j \in 1 .. k - 1 : cs[j].cc # "VP8X") => cs[k].data.canvas # "bad"

LEMMA RefusesWhat ==
    ASSUME NEW D, NEW U, NEW t, NEW lay \in Layouts(D, U, t), NEW cs, NEW k \in Nat \ {0},
           Reads(lay, cs, k - 1)
    PROVE  Refuses(lay, cs[k]) <=> ~FineAt(cs, k)
  <1> DEFINE c == cs[k]
  <1>1. Ranks(lay.rank, cs, k - 1) /\ Headed(lay.vp8x, cs, k - 1) /\ lay.rank \in 0 .. 4
    BY DEF Reads, Layouts
  <1>2. \A cc \in Reconstructs : Rank(cc) \in Nat
    BY RankType
  <1>3. Regresses(lay, c.cc) <=>
           ~(c.cc \in Reconstructs =>
               \A j \in 1 .. k - 1 : cs[j].cc \in Reconstructs => Rank(cs[j].cc) <= Rank(c.cc))
    <2>1. CASE c.cc \notin Reconstructs
      BY <2>1 DEF Regresses
    <2>2. CASE c.cc \in Reconstructs
      <3>1. ASSUME Rank(c.cc) < lay.rank
            PROVE  \E j \in 1 .. k - 1 : cs[j].cc \in Reconstructs /\ ~(Rank(cs[j].cc) <= Rank(c.cc))
        <4>1. Rank(c.cc) \in Nat /\ lay.rank # 0
          BY <1>1, <1>2, <2>2, <3>1
        <4>2. PICK j \in 1 .. k - 1 : cs[j].cc \in Reconstructs /\ Rank(cs[j].cc) = lay.rank
          BY <1>1, <4>1 DEF Ranks
        <4> QED
          BY <1>1, <3>1, <4>1, <4>2
      <3>2. ASSUME ~(Rank(c.cc) < lay.rank), NEW j \in 1 .. k - 1, cs[j].cc \in Reconstructs
            PROVE  Rank(cs[j].cc) <= Rank(c.cc)
        <4>1. Rank(cs[j].cc) <= lay.rank
          BY <1>1, <3>2 DEF Ranks
        <4>2. Rank(cs[j].cc) \in Nat /\ Rank(c.cc) \in Nat
          BY <1>2, <2>2, <3>2
        <4> QED
          BY <1>1, <3>2, <4>1, <4>2
      <3> QED
        BY <2>2, <3>1, <3>2 DEF Regresses
    <2> QED
      BY <2>1, <2>2
  <1>4. IsBadHeader(lay, c) <=>
           ~(c.cc = "VP8X" /\ (\A j \in 1 .. k - 1 : cs[j].cc # "VP8X") => c.data.canvas # "bad")
    BY <1>1 DEF IsBadHeader, Headed
  <1> QED
    BY <1>3, <1>4 DEF Refuses, FineAt

LEMMA UpToNext ==
    ASSUME NEW k \in Nat \ {0}
    PROVE  /\ \A j : j \in 1 .. k <=> j \in 1 .. k - 1 \/ j = k
           /\ k \notin 1 .. k - 1 /\ k - 1 \in Nat
  OBVIOUS

LEMMA FilledOn ==
    ASSUME NEW cs, NEW k \in Nat \ {0}, NEW slot, NEW cc, Filled(slot, cs, k - 1, cc)
    PROVE  Filled(IF cs[k].cc = cc THEN Insert(slot, cs[k].data) ELSE slot, cs, k, cc)
  <1>1. \A j : j \in 1 .. k <=> j \in 1 .. k - 1 \/ j = k
    BY UpToNext
  <1>2. CASE \E j \in 1 .. k - 1 : cs[j].cc = cc /\ slot = <<cs[j].data>>
    <2>1. PICK j \in 1 .. k - 1 : cs[j].cc = cc /\ slot = <<cs[j].data>>
      BY <1>2
    <2>2. slot # <<>>
      BY <2>1
    <2>3. Insert(slot, cs[k].data) = slot
      BY <2>2 DEF Insert
    <2> QED
      BY <1>1, <2>1, <2>3 DEF Filled
  <1>3. CASE slot = <<>> /\ \A j \in 1 .. k - 1 : cs[j].cc # cc
    <2>1. Insert(slot, cs[k].data) = <<cs[k].data>>
      BY <1>3 DEF Insert
    <2> QED
      BY <1>1, <1>3, <2>1 DEF Filled
  <1> QED
    BY <1>2, <1>3 DEF Filled

LEMMA StreamedOn ==
    ASSUME NEW cs, NEW k \in Nat \ {0}, NEW slot, Streamed(slot, cs, k - 1)
    PROVE  Streamed(IF cs[k].cc \in Bitstreams
                    THEN Insert(slot, [cc |-> cs[k].cc, data |-> cs[k].data]) ELSE slot, cs, k)
  <1> DEFINE b(j) == [cc |-> cs[j].cc, data |-> cs[j].data]
  <1>1. \A j : j \in 1 .. k <=> j \in 1 .. k - 1 \/ j = k
    BY UpToNext
  <1>2. CASE \E j \in 1 .. k - 1 : cs[j].cc \in Bitstreams /\ slot = <<b(j)>>
    <2>1. PICK j \in 1 .. k - 1 : cs[j].cc \in Bitstreams /\ slot = <<b(j)>>
      BY <1>2
    <2>2. slot # <<>>
      BY <2>1
    <2>3. Insert(slot, b(k)) = slot
      BY <2>2 DEF Insert
    <2> QED
      BY <1>1, <2>1, <2>3 DEF Streamed
  <1>3. CASE slot = <<>> /\ \A j \in 1 .. k - 1 : cs[j].cc \notin Bitstreams
    <2>1. Insert(slot, b(k)) = <<b(k)>>
      BY <1>3 DEF Insert
    <2> QED
      BY <1>1, <1>3, <2>1 DEF Streamed
  <1> QED
    BY <1>2, <1>3 DEF Streamed

LEMMA ListedOn ==
    ASSUME NEW cs, NEW k \in Nat \ {0}, NEW list, IsList(list), Listed(list, cs, k - 1)
    PROVE  Listed(IF Known(cs[k].cc) THEN list
                  ELSE Append(list, [cc |-> cs[k].cc, data |-> cs[k].data]), cs, k)
  <1> DEFINE S == PrivateTo(cs, k - 1)
             x == [cc |-> cs[k].cc, data |-> cs[k].data]
             m == Len(list)
  <1>1. (\A j : j \in 1 .. k <=> j \in 1 .. k - 1 \/ j = k) /\ k \notin 1 .. k - 1
    BY UpToNext
  <1>2. PICK g : Lists(g, list, cs, k - 1)
    BY DEF Listed
  <1>3. m \in Nat /\ m = Cardinality(S)
    BY ListFacts DEF Listed
  <1>4. CASE Known(cs[k].cc)
    <2>1. PrivateTo(cs, k) = S
      BY <1>1, <1>4 DEF PrivateTo
    <2> HIDE DEF S
    <2>2. Lists(g, list, cs, k)
      BY <1>2, <2>1 DEF Lists, S
    <2> QED
      BY <1>3, <1>4, <2>1, <2>2 DEF Listed
  <1>5. CASE ~Known(cs[k].cc)
    <2> DEFINE r == Append(list, x)
               h == [j \in 1 .. m + 1 |-> IF j <= m THEN g[j] ELSE k]
               T == PrivateTo(cs, k)
    <2>1. T = S \cup {k} /\ k \notin S /\ S \in SUBSET (1 .. k - 1)
      BY <1>1, <1>5 DEF PrivateTo
    <2>2. Len(r) = m + 1 /\ (\A j \in 1 .. m : r[j] = list[j]) /\ r[m + 1] = x
      BY Lengthened
    <2>3. IsFiniteSet(S)
      <3>1. IsFiniteSet(1 .. k - 1)
        BY FS_Interval
      <3> HIDE DEF S
      <3> QED
        BY <2>1, <3>1, FS_Subset
    <2>4. g \in [1 .. m -> S] /\ (\A i, j \in 1 .. m : i < j => g[i] < g[j])
          /\ \A j \in 1 .. m : list[j] = [cc |-> cs[g[j]].cc, data |-> cs[g[j]].data]
      BY <1>2 DEF Lists
    <2>5. Cardinality(T) = m + 1
      <3> HIDE DEF S, T
      <3>1. Cardinality(S \cup {k}) = IF k \in S THEN Cardinality(S) ELSE Cardinality(S) + 1
        BY <2>3, FS_AddElement
      <3> QED
        BY <1>3, <2>1, <3>1
    <2> HIDE DEF r, S, T, m
    <2>6. \A j \in 1 .. m + 1 : j \in 1 .. m \/ (j = m + 1 /\ ~(j <= m))
      BY <1>3
    <2>7. /\ \A j \in 1 .. m : h[j] = g[j] /\ h[j] \in S
          /\ h[m + 1] = k
      BY <1>3, <2>4
    <2>8. h \in [1 .. m + 1 -> T]
      BY <2>1, <2>6, <2>7
    <2> HIDE DEF h
    <2>9. ASSUME NEW i \in 1 .. m + 1, NEW j \in 1 .. m + 1, i < j PROVE h[i] < h[j]
      <3>1. CASE j \in 1 .. m
        <4>1. i \in 1 .. m
          BY <1>3, <2>9, <3>1
        <4> QED
          BY <2>4, <2>7, <2>9, <3>1, <4>1
      <3>2. CASE j = m + 1
        <4>1. i \in 1 .. m
          BY <1>3, <2>9, <3>2
        <4>2. h[i] \in 1 .. k - 1
          BY <2>1, <2>7, <4>1
        <4> QED
          BY <2>7, <3>2, <4>2
      <3> QED
        BY <2>6, <3>1, <3>2
    <2>10. ASSUME NEW j \in 1 .. m + 1
           PROVE  r[j] = [cc |-> cs[h[j]].cc, data |-> cs[h[j]].data]
      BY <2>2, <2>4, <2>6, <2>7
    <2>11. Lists(h, r, cs, k)
      BY <2>2, <2>8, <2>9, <2>10 DEF Lists, T
    <2>12. Listed(r, cs, k)
      BY <2>2, <2>5, <2>11 DEF Listed, T
    <2> QED
      BY <1>5, <2>12 DEF r
  <1> QED
    BY <1>4, <1>5

LEMMA ReadsOn ==
    ASSUME NEW D, NEW U, NEW t, NEW lay \in Layouts(D, U, t), NEW cs, NEW k \in Nat \ {0},
           cs[k].data \in D, Reads(lay, cs, k - 1), FineAt(cs, k)
    PROVE  Reads(PlaceOf(lay, cs[k]), cs, k)
  <1> DEFINE c == cs[k]
             p == PlaceOf(lay, c)
  <1>1. (\A j : j \in 1 .. k <=> j \in 1 .. k - 1 \/ j = k) /\ k \notin 1 .. k - 1
    BY UpToNext
  <1>2. /\ lay.rank \in 0 .. 4 /\ lay.vp8x \in Slots(D) /\ lay.metadata \in [Metadata -> Slots(D)]
        /\ IsList(lay.unknown)
    BY SeqIsList DEF Layouts
  <1>3. Ranks(p.rank, cs, k)
    <2>1. Ranks(lay.rank, cs, k - 1)
      BY DEF Reads
    <2>2. CASE c.cc \in Reconstructs
      <3>1. p.rank = Rank(c.cc) /\ Rank(c.cc) \in 0 .. 4
        BY <2>2, RankType DEF PlaceOf
      <3>2. \A j \in 1 .. k - 1 : cs[j].cc \in Reconstructs => Rank(cs[j].cc) <= Rank(c.cc)
        BY <2>2 DEF FineAt
      <3>3. Rank(c.cc) <= Rank(c.cc)
        BY <3>1
      <3> QED
        BY <1>1, <2>2, <3>1, <3>2, <3>3 DEF Ranks
    <2>3. CASE c.cc \notin Reconstructs
      <3>1. p.rank = lay.rank
        BY <2>3 DEF PlaceOf
      <3> HIDE DEF p
      <3> QED
        BY <1>1, <2>1, <2>3, <3>1 DEF Ranks
    <2> QED
      BY <2>2, <2>3
  <1>4. Headed(p.vp8x, cs, k)
    <2>1. Headed(lay.vp8x, cs, k - 1)
      BY DEF Reads
    <2>2. p.vp8x = IF c.cc = "VP8X" THEN Insert(lay.vp8x, c.data) ELSE lay.vp8x
      BY DEF PlaceOf
    <2>3. Insert(lay.vp8x, c.data) # <<>>
      BY DEF Insert
    <2> HIDE DEF p
    <2> QED
      BY <1>1, <2>1, <2>2, <2>3 DEF Headed
  <1>5. ASSUME NEW cc \in Metadata PROVE Filled(p.metadata[cc], cs, k, cc)
    <2>1. Filled(lay.metadata[cc], cs, k - 1, cc)
      BY DEF Reads
    <2>2. p.metadata[cc] = IF c.cc = cc THEN Insert(lay.metadata[cc], c.data) ELSE lay.metadata[cc]
      <3>1. p.metadata = Kept(lay.metadata, c)
        BY DEF PlaceOf
      <3> QED
        BY <1>2, <3>1, KeptType
    <2>3. Filled(IF c.cc = cc THEN Insert(lay.metadata[cc], c.data) ELSE lay.metadata[cc], cs, k, cc)
      BY <2>1, FilledOn
    <2> QED
      BY <2>2, <2>3
  <1>6. Filled(p.alph, cs, k, "ALPH")
    <2>1. Filled(lay.alph, cs, k - 1, "ALPH")
      BY DEF Reads
    <2>2. p.alph = IF c.cc = "ALPH" THEN Insert(lay.alph, c.data) ELSE lay.alph
      BY DEF PlaceOf
    <2>3. Filled(IF c.cc = "ALPH" THEN Insert(lay.alph, c.data) ELSE lay.alph, cs, k, "ALPH")
      BY <2>1, FilledOn
    <2> QED
      BY <2>2, <2>3
  <1>7. Streamed(p.bitstream, cs, k)
    <2>1. Streamed(lay.bitstream, cs, k - 1)
      BY DEF Reads
    <2>2. p.bitstream = IF c.cc \in Bitstreams
                        THEN Insert(lay.bitstream, [cc |-> c.cc, data |-> c.data]) ELSE lay.bitstream
      BY DEF PlaceOf
    <2>3. Streamed(IF c.cc \in Bitstreams
                   THEN Insert(lay.bitstream, [cc |-> c.cc, data |-> c.data]) ELSE lay.bitstream, cs, k)
      BY <2>1, StreamedOn
    <2> QED
      BY <2>2, <2>3
  <1>8. Listed(p.unknown, cs, k)
    <2>1. Listed(lay.unknown, cs, k - 1)
      BY DEF Reads
    <2>2. p.unknown = IF Known(c.cc) THEN lay.unknown
                      ELSE Append(lay.unknown, [cc |-> c.cc, data |-> c.data])
      BY DEF PlaceOf
    <2>3. Listed(IF Known(c.cc) THEN lay.unknown
                 ELSE Append(lay.unknown, [cc |-> c.cc, data |-> c.data]), cs, k)
      BY <1>2, <2>1, ListedOn
    <2> QED
      BY <2>2, <2>3
  <1> HIDE DEF p
  <1>9. Reads(p, cs, k)
    BY <1>3, <1>4, <1>5, <1>6, <1>7, <1>8 DEF Reads
  <1> QED
    BY <1>9 DEF p

\* What the slots of a layout of this file can hold.
Payloads(cs) == {cs[k].data : k \in DOMAIN cs}
Labelled(cs) == {[cc |-> cs[k].cc, data |-> cs[k].data] : k \in DOMAIN cs}
LayoutsOf(file) == Layouts(Payloads(file.chunks), Labelled(file.chunks), file.trailing)

LEMMA EmptyType ==
    ASSUME NEW file
    PROVE  EmptyLayout(file) \in LayoutsOf(file)
  BY EmptySeq DEF EmptyLayout, LayoutsOf, Layouts, NoMetadata, Slots

\* w is the strict walk along a file, f the walk for metadata only.
Walk(w, file) ==
    /\ w \in [0 .. Len(file.chunks) -> LayoutsOf(file)]
    /\ w[0] = EmptyLayout(file)
    /\ \A k \in 1 .. Len(file.chunks) : w[k] = NextChunk(w[k - 1], file.chunks[k])
Search(f, file) ==
    /\ f[0] = NoMetadata
    /\ \A k \in 1 .. Len(file.chunks) : f[k] = Kept(f[k - 1], file.chunks[k])

LEMMA ParseWalks ==
    ASSUME NEW file, file.claim = "within", IsList(file.chunks)
    PROVE  \E w : Walk(w, file) /\ ParseLayout(file) = w[Len(file.chunks)]
  <1> DEFINE cs == file.chunks
             n == Len(cs)
             L == LayoutsOf(file)
             step == [k \in 1 .. n |-> [lay \in L |-> NextChunk(lay, cs[k])]]
             Eq(f) == f = [k \in 0 .. n |-> IF k = 0 THEN EmptyLayout(file) ELSE NextChunk(f[k - 1], cs[k])]
             w == CHOOSE f : Eq(f)
  <1>1. n \in Nat /\ DOMAIN cs = 1 .. n
    BY ListFacts
  <1>2. ASSUME NEW k \in 1 .. n, NEW lay \in L PROVE NextChunk(lay, cs[k]) \in L
    <2> DEFINE D == Payloads(cs)
               U == Labelled(cs)
    <2>1. cs[k].data \in D /\ [cc |-> cs[k].cc, data |-> cs[k].data] \in U
      BY <1>1 DEF Payloads, Labelled
    <2>2. lay \in Layouts(D, U, file.trailing)
      BY DEF LayoutsOf
    <2> HIDE DEF D, U, cs
    <2>3. NextChunk(lay, cs[k]) \in Layouts(D, U, file.trailing)
      BY <2>1, <2>2, NextType
    <2> QED
      BY <2>3 DEF LayoutsOf, D, U, cs
  <1>3. EmptyLayout(file) \in L
    BY EmptyType
  <1> HIDE DEF L
  <1>4. step \in [1 .. n -> [L -> L]]
    BY <1>2
  <1>5. PICK f : f \in [0 .. n -> L] /\ f[0] = EmptyLayout(file) /\ \A k \in 1 .. n : f[k] = step[k][f[k - 1]]
    <2> HIDE DEF step, n
    <2>1. \E f : Recursive(f, n, L, EmptyLayout(file), step)
      BY <1>1, <1>3, <1>4, Recursion
    <2> QED
      BY <2>1 DEF Recursive
  <1>6. ASSUME NEW k \in 1 .. n PROVE f[k] = NextChunk(f[k - 1], cs[k])
    <2>1. f[k - 1] \in L
      <3>1. k - 1 \in 0 .. n
        BY <1>1
      <3> HIDE DEF step, n
      <3> QED
        BY <1>5, <3>1
    <2>2. f[k] = step[k][f[k - 1]]
      BY <1>5
    <2> QED
      BY <2>1, <2>2
  <1> HIDE DEF n, cs
  <1>7. Eq(f)
    <2> DEFINE g == [k \in 0 .. n |-> IF k = 0 THEN EmptyLayout(file) ELSE NextChunk(f[k - 1], cs[k])]
    <2>1. f = [k \in 0 .. n |-> f[k]]
      BY <1>5
    <2>2. ASSUME NEW k \in 0 .. n PROVE f[k] = g[k]
      <3>1. CASE k = 0
        BY <1>5, <3>1
      <3>2. CASE k # 0
        <4>1. k \in 1 .. n
          BY <1>1, <3>2
        <4> QED
          BY <1>6, <3>2, <4>1
      <3> QED
        BY <3>1, <3>2
    <2> QED
      BY <2>1, <2>2
  <1>8. Eq(w)
    <2> HIDE DEF Eq
    <2> QED
      BY <1>7
  <1>9. ParseLayout(file) = w[n]
    BY DEF ParseLayout, n, cs
  <1> HIDE DEF w
  <1>10. DOMAIN w = 0 .. n /\ w[0] = EmptyLayout(file)
         /\ \A k \in 1 .. n : w[k] = NextChunk(w[k - 1], cs[k])
    <2>1. DOMAIN w = 0 .. n /\ \A k \in 0 .. n : w[k] = IF k = 0 THEN EmptyLayout(file) ELSE NextChunk(w[k - 1], cs[k])
      BY <1>8
    <2>2. 0 \in 0 .. n /\ \A k \in 1 .. n : k \in 0 .. n /\ k # 0
      BY <1>1
    <2> QED
      BY <2>1, <2>2
  <1>11. \A k \in 0 .. n : w[k] \in L
    <2>1. w[0] \in L
      BY <1>3, <1>10
    <2>2. \A k \in 1 .. n : w[k - 1] \in L => w[k] \in L
      BY <1>2, <1>10
    <2> QED
      BY <1>1, <2>1, <2>2, StaysIn
  <1>12. w \in [0 .. n -> L]
    <2>1. w = [k \in 0 .. n |-> w[k]]
      BY <1>8
    <2> QED
      BY <1>11, <2>1
  <1>13. Walk(w, file)
    BY <1>10, <1>12 DEF Walk, L, n, cs
  <1> QED
    BY <1>9, <1>13 DEF n, cs

LEMMA MetadataSearches ==
    ASSUME NEW file, file.claim = "within", IsList(file.chunks)
    PROVE  \E f : /\ Search(f, file)
                  /\ ~Malformed(file) => ReadMetadata(file) = Good(f[Len(file.chunks)])
  <1> DEFINE cs == file.chunks
             n == Len(cs)
             D == Payloads(cs)
             M == [Metadata -> Slots(D)]
             step == [k \in 1 .. n |-> [m \in M |-> Kept(m, cs[k])]]
             Eq(f) == f = [k \in 0 .. n |-> IF k = 0 THEN NoMetadata ELSE Kept(f[k - 1], cs[k])]
             w == CHOOSE f : Eq(f)
  <1>1. n \in Nat /\ DOMAIN cs = 1 .. n
    BY ListFacts
  <1>2. ASSUME NEW k \in 1 .. n, NEW m \in M PROVE Kept(m, cs[k]) \in M
    <2>1. cs[k].data \in D
      BY <1>1 DEF Payloads
    <2> HIDE DEF D, cs
    <2> QED
      BY <2>1, KeptType
  <1>3. NoMetadata \in M
    BY DEF NoMetadata, Slots
  <1> HIDE DEF M
  <1>4. step \in [1 .. n -> [M -> M]]
    BY <1>2
  <1>5. PICK f : f \in [0 .. n -> M] /\ f[0] = NoMetadata /\ \A k \in 1 .. n : f[k] = step[k][f[k - 1]]
    <2> HIDE DEF step, n
    <2>1. \E f : Recursive(f, n, M, NoMetadata, step)
      BY <1>1, <1>3, <1>4, Recursion
    <2> QED
      BY <2>1 DEF Recursive
  <1>6. ASSUME NEW k \in 1 .. n PROVE f[k] = Kept(f[k - 1], cs[k])
    <2>1. f[k - 1] \in M
      <3>1. k - 1 \in 0 .. n
        BY <1>1
      <3> HIDE DEF step, n
      <3> QED
        BY <1>5, <3>1
    <2>2. f[k] = step[k][f[k - 1]]
      BY <1>5
    <2> QED
      BY <2>1, <2>2
  <1> HIDE DEF n, cs
  <1>7. Eq(f)
    <2> DEFINE g == [k \in 0 .. n |-> IF k = 0 THEN NoMetadata ELSE Kept(f[k - 1], cs[k])]
    <2>1. f = [k \in 0 .. n |-> f[k]]
      BY <1>5
    <2>2. ASSUME NEW k \in 0 .. n PROVE f[k] = g[k]
      <3>1. CASE k = 0
        BY <1>5, <3>1
      <3>2. CASE k # 0
        <4>1. k \in 1 .. n
          BY <1>1, <3>2
        <4> QED
          BY <1>6, <3>2, <4>1
      <3> QED
        BY <3>1, <3>2
    <2> QED
      BY <2>1, <2>2
  <1>8. Eq(w)
    <2> HIDE DEF Eq
    <2> QED
      BY <1>7
  <1>9. ~Malformed(file) => ReadMetadata(file) = Good(w[n])
    BY DEF ReadMetadata, n, cs
  <1> HIDE DEF w
  <1>10. w[0] = NoMetadata /\ \A k \in 1 .. n : w[k] = Kept(w[k - 1], cs[k])
    <2>1. \A k \in 0 .. n : w[k] = IF k = 0 THEN NoMetadata ELSE Kept(w[k - 1], cs[k])
      BY <1>8
    <2>2. 0 \in 0 .. n /\ \A k \in 1 .. n : k \in 0 .. n /\ k # 0
      BY <1>1
    <2> QED
      BY <2>1, <2>2
  <1>11. Search(w, file)
    BY <1>10 DEF Search, n, cs
  <1> QED
    BY <1>9, <1>11 DEF n, cs

\* After k chunks.
Sound(w, f, cs, k) ==
    /\ w[k].ok <=> \A j \in 1 .. k : FineAt(cs, j)
    /\ w[k].ok => Reads(w[k], cs, k) /\ w[k].metadata = f[k]

LEMMA WalkIsSound ==
    ASSUME NEW file, IsList(file.chunks), NEW w, Walk(w, file), NEW f, Search(f, file)
    PROVE  Sound(w, f, file.chunks, Len(file.chunks))
  <1> DEFINE cs == file.chunks
             n == Len(cs)
             D == Payloads(cs)
             U == Labelled(cs)
             t == file.trailing
             H == {k \in 0 .. n : Sound(w, f, cs, k)}
  <1>1. n \in Nat /\ DOMAIN cs = 1 .. n
    BY ListFacts
  <1>2. \A k \in 1 .. n : cs[k].data \in D /\ [cc |-> cs[k].cc, data |-> cs[k].data] \in U
    BY <1>1 DEF Payloads, Labelled
  <1>3. \A k \in 0 .. n : w[k] \in Layouts(D, U, t)
    BY DEF Walk, LayoutsOf
  <1>4. /\ w[0] = EmptyLayout(file) /\ \A k \in 1 .. n : w[k] = NextChunk(w[k - 1], cs[k])
        /\ f[0] = NoMetadata /\ \A k \in 1 .. n : f[k] = Kept(f[k - 1], cs[k])
    BY DEF Walk, Search
  <1> HIDE DEF cs, n, D, U, t
  <1>5. 0 \in H
    <2>1. /\ w[0].ok /\ w[0].rank = 0 /\ w[0].vp8x = <<>> /\ w[0].metadata = NoMetadata
          /\ w[0].alph = <<>> /\ w[0].bitstream = <<>> /\ w[0].unknown = <<>>
      BY <1>4 DEF EmptyLayout
    <2>2. 1 .. 0 = {} /\ 0 \in 0 .. n
      BY <1>1
    <2>3. Ranks(0, cs, 0) /\ Headed(<<>>, cs, 0) /\ Filled(<<>>, cs, 0, "ALPH") /\ Streamed(<<>>, cs, 0)
      BY <2>2 DEF Ranks, Headed, Filled, Streamed
    <2>4. \A cc \in Metadata : Filled(NoMetadata[cc], cs, 0, cc)
      BY <2>2 DEF NoMetadata, Filled
    <2>5. Listed(<<>>, cs, 0)
      <3>1. PrivateTo(cs, 0) = {} /\ Cardinality({}) = 0
        BY <2>2, FS_EmptySet DEF PrivateTo
      <3>2. Len(<<>>) = 0
        OBVIOUS
      <3> DEFINE g == [j \in 1 .. 0 |-> 0]
      <3>3. Lists(g, <<>>, cs, 0)
        BY <2>2, <3>2 DEF Lists
      <3> QED
        BY <3>1, <3>2, <3>3 DEF Listed
    <2>6. Reads(w[0], cs, 0)
      BY <2>1, <2>3, <2>4, <2>5 DEF Reads
    <2>7. Sound(w, f, cs, 0)
      BY <1>4, <2>1, <2>2, <2>6 DEF Sound
    <2> QED
      BY <2>2, <2>7
  <1>6. ASSUME NEW k \in 1 .. n, k - 1 \in H PROVE k \in H
    <2> DEFINE lay == w[k - 1]
               c == cs[k]
    <2>1. k \in Nat \ {0} /\ k - 1 \in 0 .. n /\ k \in 0 .. n
      BY <1>1
    <2>2. lay \in Layouts(D, U, t) /\ w[k] = NextChunk(lay, c) /\ f[k] = Kept(f[k - 1], c)
      BY <1>3, <1>4, <2>1
    <2>3. /\ lay.ok <=> \A j \in 1 .. k - 1 : FineAt(cs, j)
          /\ lay.ok => Reads(lay, cs, k - 1) /\ lay.metadata = f[k - 1]
      BY <1>6 DEF Sound
    <2>4. \A j : j \in 1 .. k <=> j \in 1 .. k - 1 \/ j = k
      BY <2>1, UpToNext
    <2>5. c.data \in D /\ [cc |-> c.cc, data |-> c.data] \in U
      BY <1>2
    <2> HIDE DEF H
    <2>6. CASE ~lay.ok
      <3>1. w[k] = lay
        BY <2>2, <2>6 DEF NextChunk
      <3>2. Sound(w, f, cs, k)
        BY <2>3, <2>4, <2>6, <3>1 DEF Sound
      <3> QED
        BY <2>1, <3>2 DEF H
    <2>7. CASE lay.ok
      <3>1. Refuses(lay, c) <=> ~FineAt(cs, k)
        <4>1. Reads(lay, cs, k - 1)
          BY <2>3, <2>7
        <4> HIDE DEF lay
        <4> QED
          BY <2>1, <2>2, <4>1, RefusesWhat
      <3>2. CASE Refuses(lay, c)
        <4>1. w[k] = [lay EXCEPT !.ok = FALSE]
          BY <2>2, <2>7, <3>2 DEF NextChunk
        <4>2. w[k].ok = FALSE
          <5> HIDE DEF lay
          <5> QED
            BY <2>2, <4>1 DEF Layouts
        <4>3. Sound(w, f, cs, k)
          BY <2>4, <3>1, <3>2, <4>2 DEF Sound
        <4> QED
          BY <2>1, <4>3 DEF H
      <3>3. CASE ~Refuses(lay, c)
        <4>1. w[k] = PlaceOf(lay, c)
          <5>1. w[k] = Placed(Ranked(lay, c.cc), c)
            BY <2>2, <2>7, <3>3 DEF NextChunk
          <5>2. c.cc \notin {"ANIM", "ANMF"}
            BY <3>3 DEF Refuses
          <5> HIDE DEF lay, c
          <5> QED
            BY <2>2, <5>1, <5>2, PlacedWhere
        <4>2. Reads(PlaceOf(lay, c), cs, k)
          <5>1. FineAt(cs, k) /\ Reads(lay, cs, k - 1)
            BY <2>3, <2>7, <3>1, <3>3
          <5> HIDE DEF lay
          <5> QED
            BY <2>1, <2>2, <2>5, <5>1, ReadsOn
        <4>3. w[k].ok = lay.ok /\ w[k].metadata = Kept(lay.metadata, c)
          BY <4>1 DEF PlaceOf
        <4>4. w[k].metadata = f[k]
          BY <2>2, <2>3, <2>7, <4>3
        <4>5. Sound(w, f, cs, k)
          BY <2>3, <2>4, <2>7, <3>1, <3>3, <4>1, <4>2, <4>3, <4>4 DEF Sound
        <4> QED
          BY <2>1, <4>5 DEF H
      <3> QED
        BY <3>2, <3>3
    <2> QED
      BY <2>6, <2>7
  <1>7. \A k \in 0 .. n : k \in H
    <2> HIDE DEF H
    <2> QED
      BY <1>1, <1>5, <1>6, UpTo
  <1>8. Sound(w, f, cs, n)
    BY <1>1, <1>7
  <1> QED
    BY <1>8 DEF cs, n

----------------------------------------------------------------------------
(* What was read is what was given. *)

\* The file is still one of what its encoder was given, and what was read of it is
\* what the two walks read of it now.
WebpInv ==
    /\ IsEncode(given) /\ IsList(mishaps)
    /\ webp = [claim |-> webp.claim, chunks |-> webp.chunks, trailing |-> webp.trailing]
    /\ FileOf(webp.chunks, given, mishaps)
    /\ layout # Unread => layout = ParseLayout(webp) /\ metadata = ReadMetadata(webp)

\* The strict walk goes past every chunk of the files that are whole, in order,
\* still and with a canvas.
LEMMA FineFiles ==
    ASSUME IsList(webp.chunks), NEW e, \A k \in DOMAIN webp.chunks : Belongs(webp.chunks[k], e)
    PROVE  (\A j \in 1 .. Len(webp.chunks) : FineAt(webp.chunks, j))
               <=> ~Malformed(webp) /\ InOrder /\ IsStill /\ HasCanvas
  <1> DEFINE cs == webp.chunks
             n == Len(cs)
             I == {i \in 1 .. n : cs[i].cc = "VP8X"}
  <1>1. n \in Nat /\ DOMAIN cs = 1 .. n
    BY ListFacts
  <1>2. /\ Malformed(webp) <=> \E k \in 1 .. n : ~IsReadable(cs[k])
        /\ IsStill <=> \A k \in 1 .. n : cs[k].cc \notin {"ANIM", "ANMF"}
    BY <1>1 DEF Malformed, IsStill
  <1>3. InOrder <=> \A k \in 1 .. n : cs[k].cc \in Reconstructs =>
           \A j \in 1 .. k - 1 : cs[j].cc \in Reconstructs => Rank(cs[j].cc) <= Rank(cs[k].cc)
    <2>1. \A j, k \in 1 .. n : j < k <=> j \in 1 .. k - 1
      BY <1>1
    <2>2. \A k \in 1 .. n : \A j \in 1 .. k - 1 : j \in 1 .. n
      BY <1>1
    <2> HIDE DEF n, cs
    <2>3. InOrder <=> \A j, k \in 1 .. n : j < k /\ {cs[j].cc, cs[k].cc} \subseteq Reconstructs
                                             => Rank(cs[j].cc) <= Rank(cs[k].cc)
      BY <1>1 DEF InOrder, cs
    <2>4. InOrder <=> \A j, k \in 1 .. n : j \in 1 .. k - 1 /\ cs[j].cc \in Reconstructs /\ cs[k].cc \in Reconstructs
                                             => Rank(cs[j].cc) <= Rank(cs[k].cc)
      BY <2>1, <2>3
    <2> QED
      BY <2>2, <2>4
  <1>4. HasCanvas <=> \A k \in 1 .. n :
           cs[k].cc = "VP8X" /\ (\A j \in 1 .. k - 1 : cs[j].cc # "VP8X") => cs[k].data.canvas # "bad"
    <2>1. FirstHeader = IF I # {} THEN Min(I) ELSE 0
      BY DEF FirstHeader, SelectInSeq
    <2>2. I \in SUBSET Nat /\ I \subseteq 1 .. n /\ \A i : i \in I <=> i \in 1 .. n /\ cs[i].cc = "VP8X"
      OBVIOUS
    <2> DEFINE m == Min(I)
    <2>3. I # {} => m \in I /\ \A i \in I : m <= i
      <3> HIDE DEF I
      <3> QED
        BY <2>2, LeastOf
    <2> HIDE DEF I, m, n, cs
    <2>4. CASE I = {}
      <3>1. HasCanvas
        BY <2>1, <2>4 DEF HasCanvas
      <3> QED
        BY <2>2, <2>4, <3>1
    <2>5. CASE I # {}
      <3>1. m \in 1 .. n /\ m # 0 /\ cs[m].cc = "VP8X" /\ FirstHeader = m
        BY <2>1, <2>2, <2>3, <2>5 DEF m
      <3>2. HasCanvas <=> cs[m].data.canvas = "good"
        BY <3>1 DEF HasCanvas, cs
      <3>3. cs[m].data.canvas \in {"good", "bad"}
        BY <1>1, <3>1 DEF Belongs, cs
      <3>4. \A j \in 1 .. m - 1 : cs[j].cc # "VP8X"
        BY <1>1, <2>2, <2>3, <2>5, <3>1
      <3>5. ASSUME NEW k \in 1 .. n, cs[k].cc = "VP8X", \A j \in 1 .. k - 1 : cs[j].cc # "VP8X" PROVE k = m
        <4>1. m <= k
          BY <2>2, <2>3, <2>5, <3>5
        <4>2. ~(m < k)
          BY <1>1, <3>1, <3>5
        <4> QED
          BY <1>1, <3>1, <4>1, <4>2
      <3> QED
        BY <3>1, <3>2, <3>3, <3>4, <3>5
    <2> QED
      BY <2>4, <2>5
  <1> HIDE DEF cs, n
  <1>5. (\A j \in 1 .. n : FineAt(cs, j)) <=> ~Malformed(webp) /\ InOrder /\ IsStill /\ HasCanvas
    BY <1>2, <1>3, <1>4 DEF FineAt
  <1> QED
    BY <1>5 DEF cs, n

LEMMA WhatIsRead ==
    ASSUME IsList(webp.chunks), layout = ParseLayout(webp), metadata = ReadMetadata(webp)
    PROVE  /\ layout.ok <=> webp.claim = "within"
                            /\ \A j \in 1 .. Len(webp.chunks) : FineAt(webp.chunks, j)
           /\ layout.ok => /\ layout \in LayoutsOf(webp) /\ Reads(layout, webp.chunks, Len(webp.chunks))
                           /\ metadata = Good(layout.metadata)
  <1>1. CASE webp.claim # "within"
    <2>1. layout = [EmptyLayout(webp) EXCEPT !.ok = FALSE]
      BY <1>1 DEF ParseLayout
    <2>2. layout.ok = FALSE
      BY <2>1 DEF EmptyLayout
    <2> QED
      BY <1>1, <2>2
  <1>2. CASE webp.claim = "within"
    <2> DEFINE n == Len(webp.chunks)
               cs == webp.chunks
    <2>1. PICK w : Walk(w, webp) /\ layout = w[n]
      BY <1>2, ParseWalks
    <2>2. n \in Nat /\ DOMAIN cs = 1 .. n
      BY ListFacts
    <2>3. layout \in LayoutsOf(webp)
      BY <2>1, <2>2 DEF Walk
    <2>4. PICK f : Search(f, webp) /\ (~Malformed(webp) => metadata = Good(f[n]))
      BY <1>2, MetadataSearches
    <2>5. Sound(w, f, cs, n)
      BY <2>1, <2>4, WalkIsSound
    <2>6. (\A j \in 1 .. n : FineAt(cs, j)) => ~Malformed(webp)
      BY <2>2 DEF Malformed, FineAt
    <2> HIDE DEF n, cs
    <2>7. /\ layout.ok <=> \A j \in 1 .. n : FineAt(cs, j)
          /\ layout.ok => Reads(layout, cs, n) /\ layout.metadata = f[n]
      BY <2>1, <2>5 DEF Sound, n
    <2>8. layout.ok => metadata = Good(layout.metadata)
      BY <2>4, <2>6, <2>7
    <2> QED
      BY <1>2, <2>3, <2>7, <2>8 DEF n, cs
  <1> QED
    BY <1>1, <1>2

LEMMA HitsAre ==
    /\ \A cc : Lost(mishaps, cc) => \E c \in Hit({"lose"}) : c.cc = cc
    /\ Hit({"exchange", "repeat"}) = {} => ~Moved(mishaps)
    /\ \A kind : Befell(kind) = Befallen(mishaps, kind)
  <1>1. \A cc : Lost(mishaps, cc) => \E c \in Hit({"lose"}) : c.cc = cc
    BY DEF Lost, Hit
  <1>2. Moved(mishaps) => Hit({"exchange", "repeat"}) # {}
    <2>1. SUFFICES ASSUME Moved(mishaps) PROVE Hit({"exchange", "repeat"}) # {}
      OBVIOUS
    <2>2. PICK k \in DOMAIN mishaps : mishaps[k].kind \in {"exchange", "repeat"}
      BY <2>1 DEF Moved
    <2>3. mishaps[k].chunk \in Hit({"exchange", "repeat"})
      BY <2>2 DEF Hit
    <2> QED
      BY <2>3
  <1>3. \A kind : Befell(kind) = Befallen(mishaps, kind)
    BY DEF Befell, Befallen
  <1> QED
    BY <1>1, <1>2, <1>3

\* A slot holds what was given, or nothing and the chunk was lost.
LEMMA SlotIsCarried ==
    ASSUME NEW cs, NEW e, NEW n, DOMAIN cs = 1 .. n, \A cc \in Wants(e) : Has(cs, cc) \/ Lost(mishaps, cc),
           NEW slot, NEW was, NEW cc, Filled(slot, cs, n, cc), was # <<>> => cc \in Wants(e),
           \A k \in 1 .. n : cs[k].cc = cc => was = <<cs[k].data>>
    PROVE  Carried(slot, was, cc)
  <1>1. CASE \E j \in 1 .. n : cs[j].cc = cc /\ slot = <<cs[j].data>>
    BY <1>1 DEF Carried
  <1>2. CASE slot = <<>> /\ \A j \in 1 .. n : cs[j].cc # cc
    <2>1. CASE was = <<>>
      BY <1>2, <2>1 DEF Carried
    <2>2. CASE was # <<>>
      <3>1. ~Has(cs, cc)
        BY <1>2 DEF Has
      <3>2. Lost(mishaps, cc)
        BY <2>2, <3>1
      <3>3. \E c \in Hit({"lose"}) : c.cc = cc
        BY <3>2, HitsAre
      <3> QED
        BY <1>2, <3>3 DEF Carried
    <2> QED
      BY <2>1, <2>2
  <1> QED
    BY <1>1, <1>2 DEF Filled

LEMMA MetadataIsCarried ==
    ASSUME FileOf(webp.chunks, given, mishaps), Reads(layout, webp.chunks, Len(webp.chunks))
    PROVE  CarriedMetadata
  <1> DEFINE cs == webp.chunks
             n == Len(cs)
             e == given
  <1>1. DOMAIN cs = 1 .. n
    BY ListFacts DEF FileOf
  <1>2. /\ \A k \in 1 .. n : Belongs(cs[k], e)
        /\ \A cc \in Wants(e) : Has(cs, cc) \/ Lost(mishaps, cc)
    BY <1>1 DEF FileOf
  <1>3. \A cc \in Metadata : Filled(layout.metadata[cc], cs, n, cc)
    BY DEF Reads
  <1> HIDE DEF cs, n
  <1>4. SUFFICES ASSUME NEW cc \in Metadata
                 PROVE  Carried(layout.metadata[cc], given.metadata[cc], cc)
    BY DEF CarriedMetadata
  <1>5. \A k \in 1 .. n : cs[k].cc = cc => e.metadata[cc] = <<cs[k].data>>
    BY <1>2 DEF Belongs
  <1>6. e.metadata[cc] # <<>> => cc \in Wants(e)
    BY DEF Wants
  <1>7. Filled(layout.metadata[cc], cs, n, cc)
    BY <1>3
  <1> HIDE DEF e
  <1>8. Carried(layout.metadata[cc], e.metadata[cc], cc)
    BY <1>1, <1>2, <1>5, <1>6, <1>7, SlotIsCarried
  <1> QED
    BY <1>8 DEF e

LEMMA ImageIsCarried ==
    ASSUME FileOf(webp.chunks, given, mishaps), Reads(layout, webp.chunks, Len(webp.chunks)),
           IsEncode(given)
    PROVE  CarriedImage
  <1> DEFINE cs == webp.chunks
             n == Len(cs)
             e == given
             b == [cc |-> e.codestream, data |-> e.pixels]
  <1>1. DOMAIN cs = 1 .. n
    BY ListFacts DEF FileOf
  <1>2. /\ \A k \in 1 .. n : Belongs(cs[k], e)
        /\ \A cc \in Wants(e) : Has(cs, cc) \/ Lost(mishaps, cc)
    BY <1>1 DEF FileOf
  <1>3. Filled(layout.alph, cs, n, "ALPH") /\ Streamed(layout.bitstream, cs, n)
    BY DEF Reads
  <1>4. e.codestream \in Bitstreams
    BY DEF IsEncode
  <1> HIDE DEF cs, n
  <1>5. Carried(layout.alph, given.alph, "ALPH")
    <2>1. \A k \in 1 .. n : cs[k].cc = "ALPH" => e.alph = <<cs[k].data>>
      BY <1>2 DEF Belongs
    <2>2. e.alph # <<>> => "ALPH" \in Wants(e)
      BY DEF Wants
    <2> DEFINE slot == layout.alph
               was == e.alph
               cc == "ALPH"
    <2>3. Filled(slot, cs, n, cc) /\ (was # <<>> => cc \in Wants(e))
          /\ \A k \in 1 .. n : cs[k].cc = cc => was = <<cs[k].data>>
      BY <1>3, <2>1, <2>2
    <2> HIDE DEF slot, was, cc, e
    <2>4. Carried(slot, was, cc)
      BY <1>1, <1>2, <2>3, SlotIsCarried
    <2> QED
      BY <2>4 DEF slot, was, cc, e
  <1>6. \A k \in 1 .. n : cs[k].cc \in Bitstreams => cs[k].cc = e.codestream /\ cs[k].data = e.pixels
    BY <1>2 DEF Belongs
  <1>7. Carried(layout.bitstream, <<b>>, given.codestream)
    <2>1. CASE \E j \in 1 .. n : cs[j].cc \in Bitstreams
                                 /\ layout.bitstream = <<[cc |-> cs[j].cc, data |-> cs[j].data]>>
      <3>1. layout.bitstream = <<b>>
        BY <1>6, <2>1
      <3> QED
        BY <3>1 DEF Carried
    <2>2. CASE layout.bitstream = <<>> /\ \A j \in 1 .. n : cs[j].cc \notin Bitstreams
      <3>1. ~Has(cs, e.codestream)
        BY <1>1, <1>4, <2>2 DEF Has
      <3>2. e.codestream \in Wants(e)
        BY DEF Wants
      <3>3. Lost(mishaps, e.codestream)
        BY <1>2, <3>1, <3>2
      <3>4. \E c \in Hit({"lose"}) : c.cc = e.codestream
        BY <3>3, HitsAre
      <3> QED
        BY <2>2, <3>4 DEF Carried
    <2> QED
      BY <1>3, <2>1, <2>2 DEF Streamed
  <1> QED
    BY <1>5, <1>7 DEF CarriedImage

LEMMA UnknownIsCarried ==
    ASSUME FileOf(webp.chunks, given, mishaps), Reads(layout, webp.chunks, Len(webp.chunks)),
           IsList(layout.unknown)
    PROVE  /\ CarriedUnknown
           /\ \A x \in ToSet(layout.unknown) : x = [cc |-> x.cc, data |-> x.data] /\ ~Known(x.cc)
  <1> DEFINE cs == webp.chunks
             n == Len(cs)
             list == layout.unknown
             m == Len(list)
             e == given
  <1>1. n \in Nat /\ DOMAIN cs = 1 .. n /\ m \in Nat /\ DOMAIN list = 1 .. m
    BY ListFacts DEF FileOf
  <1>2. \A k \in 1 .. n : Belongs(cs[k], e)
    BY <1>1 DEF FileOf
  <1>3. PICK g : Lists(g, list, cs, n)
    BY DEF Reads, Listed
  <1>4. m = Cardinality(PrivateTo(cs, n))
    BY DEF Reads, Listed
  <1>5. PrivateTo(cs, n) = Private(cs)
    BY <1>1 DEF PrivateTo, Private
  <1>6. Counted(cs, e, mishaps)
    BY DEF FileOf
  <1>7. Moved(mishaps) \/ InTurn(cs, e)
    BY DEF FileOf
  <1> HIDE DEF cs, n, list, m
  <1>8. /\ g \in [1 .. m -> Private(cs)]
        /\ \A i, j \in 1 .. m : i < j => g[i] < g[j]
        /\ \A j \in 1 .. m : list[j] = [cc |-> cs[g[j]].cc, data |-> cs[g[j]].data]
    BY <1>3, <1>5 DEF Lists, m
  <1>9. \A k \in Private(cs) : k \in 1 .. n /\ ~Known(cs[k].cc)
    BY <1>1 DEF Private
  <1>10. ASSUME NEW j \in 1 .. m
         PROVE  /\ list[j] = [cc |-> list[j].cc, data |-> list[j].data]
                /\ ~Known(list[j].cc) /\ list[j] \in ToSet(e.unknown)
    <2> DEFINE k == g[j]
    <2>1. k \in 1 .. n /\ ~Known(cs[k].cc) /\ list[j] = [cc |-> cs[k].cc, data |-> cs[k].data]
      BY <1>8, <1>9
    <2> HIDE DEF k
    <2>2. [cc |-> cs[k].cc, data |-> cs[k].data] \in ToSet(e.unknown)
      BY <1>2, <2>1 DEF Belongs
    <2> QED
      BY <2>1, <2>2
  <1>11. \A x \in ToSet(list) : \E j \in 1 .. m : x = list[j]
    BY <1>1 DEF ToSet
  <1>12. ToSet(list) \subseteq ToSet(e.unknown)
    BY <1>10, <1>11
  <1>13. m = Len(e.unknown) + Cardinality(Befell("repeat")) - Cardinality(Befell("lose"))
    BY <1>4, <1>5, <1>6, HitsAre DEF Counted
  <1>14. ASSUME Hit({"exchange", "repeat"}) = {} PROVE IsPartOf(list, e.unknown)
    <2>1. InTurn(cs, e)
      BY <1>7, <1>14, HitsAre
    <2>2. PICK to : TurnsOf(to, cs, e)
      BY <2>1 DEF InTurn
    <2> DEFINE at == [j \in 1 .. m |-> to[g[j]]]
    <2>3. at \in [DOMAIN list -> DOMAIN e.unknown]
      BY <1>1, <1>8, <2>2 DEF TurnsOf
    <2>4. \A j, k \in DOMAIN list : j < k => at[j] < at[k]
      BY <1>1, <1>8, <2>2 DEF TurnsOf
    <2>5. \A j \in DOMAIN list : list[j] = e.unknown[at[j]]
      BY <1>1, <1>8, <2>2 DEF TurnsOf
    <2> HIDE DEF at
    <2> QED
      BY <2>3, <2>4, <2>5 DEF IsPartOf
  <1>15. CarriedUnknown
    BY <1>12, <1>13, <1>14 DEF CarriedUnknown, list, m, e
  <1>16. \A x \in ToSet(list) : x = [cc |-> x.cc, data |-> x.data] /\ ~Known(x.cc)
    BY <1>10, <1>11
  <1> QED
    BY <1>15, <1>16 DEF list

LEMMA Reconstructed ==
    ASSUME WebpInv, layout = ParseLayout(webp), metadata = ReadMetadata(webp), layout.ok
    PROVE  /\ CarriedMetadata /\ CarriedImage /\ CarriedUnknown
           /\ metadata = Good(layout.metadata)
           /\ layout \in LayoutsOf(webp) /\ IsList(layout.unknown)
           /\ \A x \in ToSet(layout.unknown) : x = [cc |-> x.cc, data |-> x.data] /\ ~Known(x.cc)
           /\ \A k \in 1 .. Len(webp.chunks) : Belongs(webp.chunks[k], given)
           /\ Streamed(layout.bitstream, webp.chunks, Len(webp.chunks))
  <1>1. FileOf(webp.chunks, given, mishaps) /\ IsEncode(given)
    BY DEF WebpInv
  <1>2. IsList(webp.chunks)
    BY <1>1 DEF FileOf
  <1>3. /\ layout \in LayoutsOf(webp) /\ Reads(layout, webp.chunks, Len(webp.chunks))
        /\ metadata = Good(layout.metadata)
    BY <1>2, WhatIsRead
  <1>4. IsList(layout.unknown)
    <2>1. layout.unknown \in Seq(Labelled(webp.chunks))
      BY <1>3 DEF LayoutsOf, Layouts
    <2> QED
      BY <2>1, SeqIsList
  <1>5. CarriedMetadata
    BY <1>1, <1>3, MetadataIsCarried
  <1>6. CarriedImage
    BY <1>1, <1>3, ImageIsCarried
  <1>7. /\ CarriedUnknown
        /\ \A x \in ToSet(layout.unknown) : x = [cc |-> x.cc, data |-> x.data] /\ ~Known(x.cc)
    BY <1>1, <1>3, <1>4, UnknownIsCarried
  <1>8. \A k \in 1 .. Len(webp.chunks) : Belongs(webp.chunks[k], given)
    BY <1>1, <1>2, ListFacts DEF FileOf
  <1>9. Streamed(layout.bitstream, webp.chunks, Len(webp.chunks))
    BY <1>3 DEF Reads
  <1> QED
    BY <1>3, <1>4, <1>5, <1>6, <1>7, <1>8, <1>9

LEMMA InvShowsContained ==
    WebpInv => WebpFaultsAreContained
  <1> SUFFICES ASSUME WebpInv, layout # Unread PROVE WebpFaultsAreContained
    BY DEF WebpFaultsAreContained
  <1>1. layout = ParseLayout(webp) /\ metadata = ReadMetadata(webp) /\ FileOf(webp.chunks, given, mishaps)
    BY DEF WebpInv
  <1>2. IsList(webp.chunks) /\ \A k \in DOMAIN webp.chunks : Belongs(webp.chunks[k], given)
    BY <1>1 DEF FileOf
  <1>3. layout.ok <=> webp.claim = "within"
                      /\ \A j \in 1 .. Len(webp.chunks) : FineAt(webp.chunks, j)
    BY <1>1, <1>2, WhatIsRead
  <1>4. (\A j \in 1 .. Len(webp.chunks) : FineAt(webp.chunks, j))
               <=> ~Malformed(webp) /\ InOrder /\ IsStill /\ HasCanvas
    BY <1>2, FineFiles
  <1>5. layout.ok => /\ CarriedMetadata /\ CarriedImage /\ CarriedUnknown
                     /\ metadata = Good(layout.metadata)
    BY <1>1, Reconstructed
  <1> QED
    BY <1>3, <1>4, <1>5 DEF WebpFaultsAreContained

----------------------------------------------------------------------------
(* The invariant. *)

LEMMA WebpInvHoldsInit ==
    WebpInit => WebpInv
  <1> SUFFICES ASSUME WebpInit PROVE WebpInv
    OBVIOUS
  <1>1. IsEncode(given) /\ webp = Wrap(given) /\ mishaps = <<>> /\ layout = Unread /\ metadata = Unread
    BY EncodesAssumption DEF WebpInit
  <1>2. /\ FileOf(Wrap(given).chunks, given, <<>>)
        /\ Wrap(given) = [claim |-> Wrap(given).claim, chunks |-> Wrap(given).chunks,
                          trailing |-> Wrap(given).trailing]
    BY <1>1, WrapIsFile
  <1>3. IsList(<<>>)
    BY EmptySeq DEF IsList
  <1> QED
    BY <1>1, <1>2, <1>3 DEF WebpInv

\* A mishap leaves a file of what was given.
LEMMA FaultKeeps ==
    ASSUME WebpInv, Travels, NEW kind, NEW x, NEW next, Fault(kind, x, next),
           next = [claim |-> next.claim, chunks |-> next.chunks, trailing |-> next.trailing],
           FileOf(next.chunks, given, Append(mishaps, Mishap(kind, x)))
    PROVE  WebpInv'
  <1>1. /\ webp' = next /\ mishaps' = Append(mishaps, Mishap(kind, x))
        /\ given' = given /\ layout' = layout /\ metadata' = metadata
    BY DEF Fault, Mishap
  <1>2. IsEncode(given) /\ IsList(mishaps)
    BY DEF WebpInv
  <1>3. layout = Unread
    BY DEF Travels
  <1>4. IsList(Append(mishaps, Mishap(kind, x)))
    BY <1>2, Lengthened
  <1> QED
    BY <1>1, <1>2, <1>3, <1>4 DEF WebpInv

LEMMA RechunkedForm ==
    ASSUME NEW w, w = [claim |-> w.claim, chunks |-> w.chunks, trailing |-> w.trailing], NEW f
    PROVE  /\ [w EXCEPT !.chunks = f].chunks = f
           /\ [w EXCEPT !.chunks = f] = [claim |-> [w EXCEPT !.chunks = f].claim,
                                         chunks |-> [w EXCEPT !.chunks = f].chunks,
                                         trailing |-> [w EXCEPT !.chunks = f].trailing]
  OBVIOUS

LEMMA WebpInvHoldsLose ==
    ASSUME WebpInv, Lose
    PROVE  WebpInv'
  <1> DEFINE cs == webp.chunks
  <1>1. Travels /\ FileOf(cs, given, mishaps) /\ IsEncode(given) /\ IsList(mishaps)
        /\ webp = [claim |-> webp.claim, chunks |-> webp.chunks, trailing |-> webp.trailing]
    BY DEF WebpInv, Lose
  <1>2. DOMAIN cs = 1 .. Len(cs)
    BY <1>1, ListFacts DEF FileOf
  <1>3. PICK i \in 1 .. Len(cs) : Fault("lose", cs[i], Chunks(RemoveAt(cs, i)))
    BY <1>2 DEF Lose, Positions
  <1> DEFINE r == RemoveAt(cs, i)
             x == cs[i]
             next == Chunks(r)
  <1>4. FileOf(r, given, Append(mishaps, Mishap("lose", x)))
    <2> HIDE DEF cs
    <2> QED
      BY <1>1, LoseKeeps
  <1> HIDE DEF r, x
  <1>5. /\ next.chunks = r
        /\ next = [claim |-> next.claim, chunks |-> next.chunks, trailing |-> next.trailing]
    BY <1>1, RechunkedForm DEF Chunks
  <1>6. Fault("lose", x, next)
    BY <1>3 DEF r, x
  <1> HIDE DEF next
  <1> QED
    BY <1>1, <1>4, <1>5, <1>6, FaultKeeps

LEMMA WebpInvHoldsRepeat ==
    ASSUME WebpInv, Repeat
    PROVE  WebpInv'
  <1> DEFINE cs == webp.chunks
  <1>1. Travels /\ FileOf(cs, given, mishaps) /\ IsEncode(given) /\ IsList(mishaps) /\ IsList(cs)
        /\ webp = [claim |-> webp.claim, chunks |-> webp.chunks, trailing |-> webp.trailing]
    BY DEF WebpInv, Repeat, FileOf
  <1>2. DOMAIN cs = 1 .. Len(cs) /\ Len(cs) \in Nat
    BY <1>1, ListFacts
  <1>3. PICK i \in 1 .. Len(cs) : Fault("repeat", cs[i], Chunks(InsertAt(cs, i, cs[i])))
    BY <1>2 DEF Repeat, Positions
  <1> DEFINE x == cs[i]
             r == InsertAt(cs, i, x)
             next == Chunks(r)
  <1>4. Belongs(x, given) /\ i \in 1 .. Len(cs) + 1
    BY <1>1, <1>2 DEF FileOf
  <1> HIDE DEF cs, x
  <1>5. Inserted(r, cs, i, x)
    BY <1>1, <1>4, InsertionInserts
  <1> HIDE DEF r
  <1>6. FileOf(r, given, Append(mishaps, Mishap("repeat", x)))
    BY <1>1, <1>4, <1>5, GainKeeps
  <1>7. /\ next.chunks = r
        /\ next = [claim |-> next.claim, chunks |-> next.chunks, trailing |-> next.trailing]
    BY <1>1, RechunkedForm DEF Chunks
  <1>8. Fault("repeat", x, next)
    BY <1>3 DEF r, x
  <1> HIDE DEF next
  <1> QED
    BY <1>1, <1>6, <1>7, <1>8, FaultKeeps

LEMMA WebpInvHoldsAdd ==
    ASSUME WebpInv, Add
    PROVE  WebpInv'
  <1> DEFINE cs == webp.chunks
  <1>1. Travels /\ FileOf(cs, given, mishaps) /\ IsEncode(given) /\ IsList(mishaps) /\ IsList(cs)
        /\ webp = [claim |-> webp.claim, chunks |-> webp.chunks, trailing |-> webp.trailing]
    BY DEF WebpInv, Add, FileOf
  <1>2. PICK i \in 1 .. Len(cs) + 1, x \in Strays : Fault("add", x, Chunks(InsertAt(cs, i, x)))
    BY DEF Add
  <1> DEFINE r == InsertAt(cs, i, x)
             next == Chunks(r)
  <1>3. Belongs(x, given) /\ Known(x.cc)
    <2>1. /\ x = [cc |-> x.cc, data |-> x.data, state |-> x.state]
          /\ x.cc \in {"VP8X", "ANIM", "ANMF"}
          /\ x.cc = "VP8X" => x.data.canvas \in {"good", "bad"}
      BY StraysAssumption
    <2>2. Known(x.cc) /\ x.cc \notin Metadata /\ x.cc \notin Bitstreams /\ x.cc # "ALPH"
      BY <2>1 DEF Known, Reconstructs, Metadata, Bitstreams
    <2> QED
      BY <2>1, <2>2 DEF Belongs
  <1> HIDE DEF cs
  <1>4. Inserted(r, cs, i, x)
    BY <1>1, InsertionInserts
  <1> HIDE DEF r
  <1>5. FileOf(r, given, Append(mishaps, Mishap("add", x)))
    BY <1>1, <1>3, <1>4, GainKeeps
  <1>6. /\ next.chunks = r
        /\ next = [claim |-> next.claim, chunks |-> next.chunks, trailing |-> next.trailing]
    BY <1>1, RechunkedForm DEF Chunks
  <1>7. Fault("add", x, next)
    BY <1>2 DEF r
  <1> HIDE DEF next
  <1> QED
    BY <1>1, <1>5, <1>6, <1>7, FaultKeeps

LEMMA WebpInvHoldsExchange ==
    ASSUME WebpInv, Exchange
    PROVE  WebpInv'
  <1> DEFINE cs == webp.chunks
  <1>1. Travels /\ FileOf(cs, given, mishaps) /\ IsEncode(given) /\ IsList(mishaps) /\ IsList(cs)
        /\ webp = [claim |-> webp.claim, chunks |-> webp.chunks, trailing |-> webp.trailing]
    BY DEF WebpInv, Exchange, FileOf
  <1>2. DOMAIN cs = 1 .. Len(cs)
    BY <1>1, ListFacts
  <1>3. PICK i \in (1 .. Len(cs)) \ {1} : Fault("exchange", cs[i], Chunks(Swapped(cs, i)))
    BY <1>2 DEF Exchange, Positions, Swapped
  <1> DEFINE r == Swapped(cs, i)
             x == cs[i]
             next == Chunks(r)
  <1> HIDE DEF cs
  <1>4. FileOf(r, given, Append(mishaps, Mishap("exchange", x)))
    BY <1>1, ExchangeKeeps
  <1> HIDE DEF r, x
  <1>5. /\ next.chunks = r
        /\ next = [claim |-> next.claim, chunks |-> next.chunks, trailing |-> next.trailing]
    BY <1>1, RechunkedForm DEF Chunks
  <1>6. Fault("exchange", x, next)
    BY <1>3 DEF r, x
  <1> HIDE DEF next
  <1> QED
    BY <1>1, <1>4, <1>5, <1>6, FaultKeeps

\* One chunk in another state.
Restated(cs, i, state) == [cs EXCEPT ![i].state = state]

LEMMA RestatedIsAlike ==
    ASSUME NEW cs, IsList(cs), NEW i \in 1 .. Len(cs), NEW state,
           \A k \in 1 .. Len(cs) :
               cs[k] = [cc |-> cs[k].cc, data |-> cs[k].data, state |-> cs[k].state]
    PROVE  Alike(Restated(cs, i, state), cs)
  <1> DEFINE n == Len(cs)
             c == [cs[i] EXCEPT !.state = state]
             r == Restated(cs, i, state)
  <1>1. n \in Nat /\ cs = [k \in 1 .. n |-> cs[k]]
    BY ListFacts
  <1>2. r = [cs EXCEPT ![i] = c]
    BY DEF Restated
  <1>3. c = [cc |-> c.cc, data |-> c.data, state |-> c.state] /\ c.cc = cs[i].cc /\ c.data = cs[i].data
    <2> DEFINE b == cs[i]
    <2>1. b = [cc |-> b.cc, data |-> b.data, state |-> b.state]
      OBVIOUS
    <2>2. c = [b EXCEPT !.state = state]
      OBVIOUS
    <2> HIDE DEF b, c
    <2>3. c = [cc |-> c.cc, data |-> c.data, state |-> c.state] /\ c.cc = b.cc /\ c.data = b.data
      BY <2>1, <2>2
    <2> QED
      BY <2>3 DEF b
  <1> HIDE DEF c, r, n
  <1>4. r = [k \in 1 .. n |-> r[k]] /\ \A k \in 1 .. n : r[k] = IF k = i THEN c ELSE cs[k]
    BY <1>1, <1>2 DEF n
  <1>5. IsList(r) /\ Len(r) = n
    BY <1>1, <1>4, MadeList
  <1>6. Alike(r, cs)
    BY <1>3, <1>4, <1>5 DEF Alike, n
  <1> QED
    BY <1>6 DEF r

LEMMA WebpInvHoldsSpoil ==
    ASSUME WebpInv, Spoil
    PROVE  WebpInv'
  <1> DEFINE cs == webp.chunks
  <1>1. Travels /\ FileOf(cs, given, mishaps) /\ IsEncode(given) /\ IsList(mishaps) /\ IsList(cs)
        /\ webp = [claim |-> webp.claim, chunks |-> webp.chunks, trailing |-> webp.trailing]
    BY DEF WebpInv, Spoil, FileOf
  <1>2. DOMAIN cs = 1 .. Len(cs)
        /\ \A k \in 1 .. Len(cs) : cs[k] = [cc |-> cs[k].cc, data |-> cs[k].data, state |-> cs[k].state]
    BY <1>1, ListFacts DEF FileOf, Belongs
  <1>3. PICK i \in 1 .. Len(cs) : Fault("dirty", cs[i], Chunks(Restated(cs, i, "dirty")))
    BY <1>2 DEF Spoil, Positions, Restated
  <1> DEFINE r == Restated(cs, i, "dirty")
             x == cs[i]
             next == Chunks(r)
  <1> HIDE DEF cs
  <1>4. Alike(r, cs)
    BY <1>1, <1>2, RestatedIsAlike
  <1> HIDE DEF r, x
  <1>5. FileOf(r, given, Append(mishaps, Mishap("dirty", x)))
    BY <1>1, <1>4, AlikeKeeps
  <1>6. /\ next.chunks = r
        /\ next = [claim |-> next.claim, chunks |-> next.chunks, trailing |-> next.trailing]
    BY <1>1, RechunkedForm DEF Chunks
  <1>7. Fault("dirty", x, next)
    BY <1>3 DEF r, x
  <1> HIDE DEF next
  <1> QED
    BY <1>1, <1>5, <1>6, <1>7, FaultKeeps

LEMMA WebpInvHoldsCut ==
    ASSUME WebpInv, Cut
    PROVE  WebpInv'
  <1> DEFINE cs == webp.chunks
             n == Len(cs)
             x == Last(cs)
  <1>1. Travels /\ FileOf(cs, given, mishaps) /\ IsEncode(given) /\ IsList(mishaps) /\ IsList(cs)
        /\ webp = [claim |-> webp.claim, chunks |-> webp.chunks, trailing |-> webp.trailing]
    BY DEF WebpInv, Cut, FileOf
  <1>2. /\ DOMAIN cs = 1 .. n /\ n \in Nat
        /\ \A k \in 1 .. n : cs[k] = [cc |-> cs[k].cc, data |-> cs[k].data, state |-> cs[k].state]
    BY <1>1, ListFacts DEF FileOf, Belongs
  <1>3. PICK claim \in {"within", "beyond"}, state \in {"cut", "unpadded"} :
           /\ cs # <<>>
           /\ Fault("cut", x, [webp EXCEPT !.claim = claim, !.chunks[Len(webp.chunks)].state = state])
    BY DEF Cut
  <1>4. n \in 1 .. n
    <2>1. n # 0
      <3>1. cs \in Seq(ToSet(cs)) /\ cs # <<>>
        BY <1>1, <1>3 DEF IsList
      <3> HIDE DEF cs
      <3> QED
        BY <3>1, EmptySeq
    <2> QED
      BY <1>2, <2>1
  <1> DEFINE r == Restated(cs, n, state)
             next == [webp EXCEPT !.claim = claim, !.chunks[Len(webp.chunks)].state = state]
  <1>5. next = [claim |-> claim, chunks |-> r, trailing |-> webp.trailing]
    <2> DEFINE w == [webp EXCEPT !.claim = claim]
    <2>1. w = [claim |-> claim, chunks |-> cs, trailing |-> webp.trailing]
      BY <1>1
    <2>2. next = [w EXCEPT !.chunks = Restated(w.chunks, n, state)]
      BY DEF Restated
    <2> HIDE DEF w, next
    <2>3. w.chunks = cs
      BY <2>1
    <2> QED
      BY <2>1, <2>2, <2>3
  <1>6. Fault("cut", x, next)
    BY <1>3
  <1> HIDE DEF next, cs, x, n
  <1>7. Alike(r, cs)
    BY <1>1, <1>2, <1>4, RestatedIsAlike DEF n
  <1> HIDE DEF r
  <1>8. FileOf(r, given, Append(mishaps, Mishap("cut", x)))
    BY <1>1, <1>7, AlikeKeeps
  <1>9. next.chunks = r /\ next = [claim |-> next.claim, chunks |-> next.chunks, trailing |-> next.trailing]
    BY <1>5
  <1> QED
    BY <1>1, <1>6, <1>8, <1>9, FaultKeeps

LEMMA WebpInvHoldsAppend ==
    ASSUME WebpInv, AppendTail
    PROVE  WebpInv'
  <1> DEFINE cs == webp.chunks
             x == [cc |-> "tail"]
             next == [webp EXCEPT !.trailing = @ + 1]
  <1>1. Travels /\ FileOf(cs, given, mishaps) /\ IsEncode(given) /\ IsList(mishaps) /\ IsList(cs)
        /\ webp = [claim |-> webp.claim, chunks |-> webp.chunks, trailing |-> webp.trailing]
    BY DEF WebpInv, AppendTail, FileOf
  <1>2. \A k \in 1 .. Len(cs) : cs[k] = [cc |-> cs[k].cc, data |-> cs[k].data, state |-> cs[k].state]
    BY <1>1, ListFacts DEF FileOf, Belongs
  <1>3. Fault("append", x, next)
    BY DEF AppendTail
  <1>4. next.chunks = cs /\ next = [claim |-> next.claim, chunks |-> next.chunks, trailing |-> next.trailing]
    BY <1>1
  <1>5. Alike(cs, cs)
    BY <1>1, <1>2 DEF Alike
  <1> HIDE DEF cs, x, next
  <1>6. FileOf(cs, given, Append(mishaps, Mishap("append", x)))
    BY <1>1, <1>5, AlikeKeeps
  <1> QED
    BY <1>1, <1>3, <1>4, <1>6, FaultKeeps

LEMMA WebpInvHoldsRead ==
    ASSUME WebpInv, ReadWebp
    PROVE  WebpInv'
  <1>1. /\ layout' = ParseLayout(webp) /\ metadata' = ReadMetadata(webp)
        /\ given' = given /\ webp' = webp /\ mishaps' = mishaps
    BY DEF ReadWebp
  <1> QED
    BY <1>1 DEF WebpInv

\* What was read is what an encoder takes.
LEMMA AgainIsEncode ==
    ASSUME WebpInv, layout # Unread, Native.ok, NEW codestream \in Bitstreams
    PROVE  IsEncode(Again(codestream))
  <1> DEFINE e == Again(codestream)
             D == Payloads(webp.chunks)
  <1>1. layout = ParseLayout(webp) /\ metadata = ReadMetadata(webp)
    BY DEF WebpInv
  <1>2. layout.ok /\ layout.bitstream # <<>>
    BY DEF Native, DecodeNative, Bad
  <1>3. /\ layout \in LayoutsOf(webp) /\ IsList(layout.unknown)
        /\ \A x \in ToSet(layout.unknown) : x = [cc |-> x.cc, data |-> x.data] /\ ~Known(x.cc)
    BY <1>1, <1>2, Reconstructed
  <1>4. layout.metadata \in [Metadata -> Slots(D)] /\ layout.alph \in Slots(D)
    BY <1>3 DEF LayoutsOf, Layouts
  <1>5. \A slot \in Slots(D) : IsSlot(slot)
    <2>1. \A d \in D : <<d>>[1] = d
      OBVIOUS
    <2> QED
      BY <2>1 DEF Slots, IsSlot
  <1>6. e.codestream = codestream /\ e.metadata = layout.metadata /\ e.unknown = layout.unknown
    BY DEF Again
  <1>7. IsSlot(e.alph)
    <2>1. Native.val.alpha = <<>> \/ Native.val.alpha = layout.alph
      BY <1>2 DEF Native, DecodeNative, Good
    <2>2. e.alph = <<>> \/ e.alph = layout.alph
      BY <2>1 DEF Again
    <2> HIDE DEF e
    <2> QED
      BY <1>4, <1>5, <2>2 DEF IsSlot
  <1> HIDE DEF e, D
  <1>8. DOMAIN e.metadata = Metadata /\ \A cc \in Metadata : IsSlot(e.metadata[cc])
    BY <1>4, <1>5, <1>6
  <1>9. e.unknown \in Seq(ToSet(e.unknown)) /\ \A u \in ToSet(e.unknown) : u = [cc |-> u.cc, data |-> u.data] /\ ~Known(u.cc)
    BY <1>3, <1>6 DEF IsList
  <1>10. IsEncode(e)
    BY <1>6, <1>7, <1>8, <1>9 DEF IsEncode
  <1> QED
    BY <1>10 DEF e

LEMMA WebpInvHoldsTranscode ==
    ASSUME WebpInv, Transcode
    PROVE  WebpInv'
  <1>1. /\ layout # Unread /\ Native.ok
        /\ webp' = Wrap(given') /\ mishaps' = <<>> /\ layout' = Unread /\ metadata' = Unread
    BY DEF Transcode
  <1>2. PICK codestream \in Bitstreams : given' = Again(codestream)
    BY DEF Transcode
  <1>3. IsEncode(given')
    BY <1>1, <1>2, AgainIsEncode
  <1> DEFINE e == given'
  <1>4. IsEncode(e)
    BY <1>3
  <1> HIDE DEF e
  <1>5. /\ FileOf(Wrap(e).chunks, e, <<>>)
        /\ Wrap(e) = [claim |-> Wrap(e).claim, chunks |-> Wrap(e).chunks,
                      trailing |-> Wrap(e).trailing]
    BY <1>4, WrapIsFile
  <1>6. IsList(<<>>)
    BY EmptySeq DEF IsList
  <1> QED
    BY <1>1, <1>4, <1>5, <1>6 DEF WebpInv, e

LEMMA WebpInvHoldsNext ==
    WebpInv /\ [WebpNext]_webpvars => WebpInv'
  <1> SUFFICES ASSUME WebpInv, [WebpNext]_webpvars PROVE WebpInv'
    OBVIOUS
  <1>1. CASE Lose
    BY <1>1, WebpInvHoldsLose
  <1>2. CASE Repeat
    BY <1>2, WebpInvHoldsRepeat
  <1>3. CASE Exchange
    BY <1>3, WebpInvHoldsExchange
  <1>4. CASE Add
    BY <1>4, WebpInvHoldsAdd
  <1>5. CASE Spoil
    BY <1>5, WebpInvHoldsSpoil
  <1>6. CASE Cut
    BY <1>6, WebpInvHoldsCut
  <1>7. CASE AppendTail
    BY <1>7, WebpInvHoldsAppend
  <1>8. CASE ReadWebp
    BY <1>8, WebpInvHoldsRead
  <1>9. CASE Transcode
    BY <1>9, WebpInvHoldsTranscode
  <1>10. CASE UNCHANGED webpvars
    BY <1>10 DEF webpvars, WebpInv
  <1> QED
    BY <1>1, <1>2, <1>3, <1>4, <1>5, <1>6, <1>7, <1>8, <1>9, <1>10 DEF WebpNext

\* A WebP file stays a file of what its encoder was given, whatever befell it: every
\* chunk is one of the encoder's or adds nothing, what is not there was lost, the
\* private chunks are as many as given less the lost and with the repeated, and in the
\* order given as long as none was moved.
THEOREM WebpInvariant == WebpSpec => []WebpInv
  <1>1. WebpInit => WebpInv
    BY WebpInvHoldsInit
  <1>2. WebpInv /\ [WebpNext]_webpvars => WebpInv'
    BY WebpInvHoldsNext
  <1> QED
    BY <1>1, <1>2, PTL DEF WebpSpec

\* Whatever befalls a WebP file, the strict walk accepts it exactly when it is whole, in
\* order, still and with a canvas, and what it then hands on is what was given but for
\* what was lost (WebpLayout::parse, MetadataChunks::read, WebpEncoder::wrap).
THEOREM WebpFaultsContained == WebpSpec => []WebpFaultsAreContained
  <1>1. WebpInv => WebpFaultsAreContained
    BY InvShowsContained
  <1> QED
    BY <1>1, WebpInvariant, PTL
=================================================================================
