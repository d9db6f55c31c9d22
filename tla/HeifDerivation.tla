--------------------------- MODULE HeifDerivation ---------------------------
(***************************************************************************)
(* Decoding one item of a HEIF image: the mutual recursion of              *)
(* decode_planar_inner and decode_rgba_inner over the item graph, as a     *)
(* stack of activations, and the derivation guard that must end it on      *)
(* every graph, cyclic or deep.                                            *)
(***************************************************************************)
EXTENDS HeifImage

CONSTANTS MaxDepth,    \* MAX_DERIVATION_DEPTH
          MaxCoded     \* MAX_CODED_DEPTH of each surface: [rgba8, rgba16]
ASSUME MaxDepthAssumption == MaxDepth \in Nat \ {0}

VARIABLES
    image,    \* the image being decoded
    surface,  \* the sample type of the RGBA surface: a field of MaxCoded
    calls,    \* activations: [fn, id, at, got], the innermost last
    guard,    \* the ids in `stack`
    ret       \* the outcome just returned, or Pending

heifvars == <<image, surface, calls, guard, ret>>

Pending == [none |-> TRUE]
Invoke(fn, id) == [fn |-> fn, id |-> id, at |-> "start", got |-> <<>>]

----------------------------------------------------------------------------
\* One activation.

Top == calls[Len(calls)]
Running(at) == ret = Pending /\ calls # <<>> /\ Top.at = at
This == Item(image, Top.id)

Composes(call) == call.fn = "rgba" /\ Kind(Item(image, call.id)) = "iovl"
Guarded(call) == call.fn = "planar" \/ Composes(call)

\* The payload of the derived item, which its references must match.
Payload == This.payload[1].of
GridIsSound == IsWhole(This.payload) /\ Len(Sources(This)) = Payload.rows * Payload.columns
OverlayIsSound == /\ IsWhole(This.payload) /\ Len(Sources(This)) = Len(Payload.offsets)
                  /\ Payload.w # 0 /\ Payload.h # 0

Invocations(fn, ids) == [k \in DOMAIN ids |-> Invoke(fn, ids[k])]
Ids(items) == [k \in DOMAIN items |-> items[k].id]
\* The activations this one makes, in order.
Callees ==
    CASE Composes(Top) -> Invocations("rgba", Sources(This))
      [] Top.fn = "rgba" /\ ~Composes(Top) ->
            Invocations("planar", <<Top.id>> \o Ids(AlphaAuxiliary(image, Top.id)))
      [] Top.fn = "planar" /\ Kind(This) \in {"iden", "grid"} ->
            Invocations("planar", Sources(This))
      [] OTHER -> <<>>

\* What decode_planar_kind and composite_overlay refuse before they call, and
\* frame_to_rgba between the master and its alpha.
PlanarRefusal ==
    CASE Kind(This) = "hevc" /\ HvcC(This) # "sound" -> "invalid"
      [] Kind(This) = "coded" -> "unsupported"
      [] Kind(This) = "iden" /\ Len(Sources(This)) # 1 -> "invalid"
      [] Kind(This) = "grid" /\ ~GridIsSound -> "invalid"
      [] Kind(This) = "iovl" -> "unsupported"
      [] Kind(This) = "none" -> "invalid"
      [] OTHER -> "none"
RgbaRefusal ==
    CASE Composes(Top) /\ ~OverlayIsSound -> "invalid"
      [] ~Composes(Top) /\ Len(Top.got) = 1
         /\ ~ToRgba(This, Top.got[1], MaxCoded[surface]).ok -> "unsupported"
      [] OTHER -> "none"
Refusal == IF Top.fn = "planar" THEN PlanarRefusal ELSE RgbaRefusal

\* The codec hook, behind validate_still_payload.
DecodeIntra(item) ==
    IF IsWhole(item.payload) /\ item.payload[1].of.state = "still"
    THEN Good(Frame(item.id, item.payload[1].of)) ELSE Bad("invalid")

Merged(r, got) == IF Len(got) = 2 THEN ApplyAlpha(r, got[2]) ELSE Good(r)
Presented(out) == IF out.ok THEN ApplyTransforms(Transforms(This), out.val) ELSE out

PlanarResult ==
    CASE Kind(This) = "hevc" -> DecodeIntra(This)
      [] Kind(This) = "iden" -> Good(Top.got[1])
      [] OTHER -> DecodeGrid(Payload, Top.got)
RgbaResult ==
    Presented(IF Composes(Top) THEN Good(Composite(Payload, Top.got))
              ELSE Merged(ToRgba(This, Top.got[1], MaxCoded[surface]).val, Top.got))
Result == IF Top.fn = "planar" THEN PlanarResult ELSE RgbaResult

----------------------------------------------------------------------------
\* The recursion.

\* Return from the innermost activation: `stack.pop()` if it was guarded.
\* Mutant: no pop.
LeaveDerivationUnpopped(guarded) == guard' = guard
LeaveDerivation(guarded) == guard' = IF guarded THEN Front(guard) ELSE guard
Leave(guarded, outcome) ==
    /\ calls' = Front(calls) /\ ret' = outcome
    /\ LeaveDerivation(guarded)
    /\ UNCHANGED <<image, surface>>

\* The checks both functions begin with, and enter_derivation.
EntryRefusal ==
    IF ~HasItem(image, Top.id) THEN "invalid"
    ELSE IF UnsupportedEssential(This) THEN "unsupported"
    ELSE IF Guarded(Top) /\ Top.id \in Range(guard) THEN "invalid"
    ELSE IF Guarded(Top) /\ Len(guard) >= MaxDepth THEN "unsupported"
    ELSE "none"

Enter ==
    /\ Running("start") /\ EntryRefusal = "none"
    /\ calls' = [calls EXCEPT ![Len(calls)].at = "running"]
    /\ guard' = IF Guarded(Top) THEN Append(guard, Top.id) ELSE guard
    /\ UNCHANGED <<image, surface, ret>>
RefuseEntry ==
    /\ Running("start") /\ EntryRefusal # "none"
    /\ Leave(FALSE, Bad(EntryRefusal))

Ready == Running("running") /\ Refusal = "none"
Call ==
    /\ Ready /\ Len(Top.got) < Len(Callees)
    /\ calls' = Append(calls, Callees[Len(Top.got) + 1])
    /\ UNCHANGED <<image, surface, guard, ret>>
Finish ==
    /\ Ready /\ Len(Top.got) = Len(Callees)
    /\ Leave(Guarded(Top), Result)
Refuse ==
    /\ Running("running") /\ Refusal # "none"
    /\ Leave(Guarded(Top), Bad(Refusal))

\* Mutant: a tile overwrites the one before.
CollectedLast(got, value) == <<value>>
Collected(got, value) == Append(got, value)
\* A callee has returned: keep its value, or let its error through (`?`).
Resume ==
    /\ ret # Pending /\ calls # <<>> /\ ret.ok
    /\ calls' = [calls EXCEPT ![Len(calls)].got = Collected(@, ret.val)]
    /\ ret' = Pending
    /\ UNCHANGED <<image, surface, guard>>
Propagate ==
    /\ ret # Pending /\ calls # <<>> /\ ~ret.ok
    /\ Leave(Guarded(Top), ret)

Decoding == Enter \/ RefuseEntry \/ Call \/ Finish \/ Refuse \/ Resume \/ Propagate
Decoded == calls = <<>> /\ ret # Pending

\* A decode of an item begins, with a stack of its own.
Begin(img, fn, id, s) ==
    /\ calls = <<>>
    /\ image' = img /\ surface' = s
    /\ calls' = <<Invoke(fn, id)>> /\ guard' = <<>> /\ ret' = Pending

\* The decoder on its own: decodes of any items of any images, one after another.
IsImage(img) ==
    /\ Len(img.items) \in Nat
    /\ \A k \in 1 .. Len(img.items) :
          LET refs == img.items[k].refs
          IN  Len(refs) \in Nat /\ \A j \in 1 .. Len(refs) : refs[j].to \in Seq(Nat)
DerivationInit == calls = <<>> /\ guard = <<>> /\ ret = Pending
DerivationNext ==
    \/ Decoding
    \/ \E img, id, s : IsImage(img) /\ \E fn \in {"planar", "rgba"} : Begin(img, fn, id, s)
DerivationSpec == DerivationInit /\ [][DerivationNext]_heifvars

\* The guard holds the ids being derived, none twice and never more than the
\* limit; no item is derived inside itself; the native stack is bounded with the guard,
\* which is empty in the end (enter_derivation and the pops after it).
Derivations == {k \in DOMAIN calls : calls[k].at = "running" /\ Guarded(calls[k])}
DerivationIsGuarded ==
    /\ Range(guard) = {calls[k].id : k \in Derivations}
    /\ \A j, k \in Derivations : calls[j].id = calls[k].id => j = k
    /\ IsInjective(guard) /\ Len(guard) <= MaxDepth
    /\ Len(calls) <= MaxDepth + 2
----------------------------------------------------------------------------
\* The inductive invariant.  Only the last activation may not have entered yet, and
\* what is below a pixel conversion (`u`, the one activation that is not guarded) only
\* composes; so the guard is the stack without it.
Activation(c) ==
    /\ c = [fn |-> c.fn, id |-> c.id, at |-> c.at, got |-> c.got]
    /\ c.fn \in {"planar", "rgba"} /\ c.at \in {"start", "running"}
    /\ c.got \in Seq(Range(c.got))
StackOK ==
    /\ calls \in Seq(Range(calls)) /\ \A k \in DOMAIN calls : Activation(calls[k])
    /\ \A k \in 1 .. Len(calls) - 1 : calls[k].at = "running"
    /\ calls # <<>> /\ ret # Pending => Top.at = "running"
    /\ calls # <<>> => IsImage(image)
    /\ \A k \in DOMAIN calls : calls[k].at = "running" => HasItem(image, calls[k].id)
    /\ \A j, k \in DOMAIN calls : j < k /\ ~Composes(calls[j]) => calls[k].fn = "planar"
Entered == IF calls # <<>> /\ Top.at = "start" THEN Len(calls) - 1 ELSE Len(calls)
Follows(g, cs, m, u, held) ==
    /\ u \in 1 .. m + 1
    /\ \A k \in 1 .. m : k \in held <=> k # u
    /\ Len(g) = (IF u <= m THEN m - 1 ELSE m)
    /\ \A d \in 1 .. Len(g) : g[d] = cs[IF d < u THEN d ELSE d + 1].id
Held == {k \in DOMAIN calls : Guarded(calls[k])}
GuardInv ==
    /\ StackOK
    /\ guard \in Seq(Range(guard)) /\ IsInjective(guard) /\ Len(guard) <= MaxDepth
    /\ \E u \in 1 .. Entered + 1 : Follows(guard, calls, Entered, u, Held)
=============================================================================
