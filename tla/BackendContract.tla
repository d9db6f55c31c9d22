----------------------------- MODULE BackendContract -----------------------------
(******************************************************************************)
(* What a codec value promises the caller of one encode or decode method      *)
(* (the fallback contract of gamut-codec-abi): the caller sees a run of        *)
(* declines in push order, then exactly one ending.  No lock, no other thread  *)
(* and no re-entrant call is visible.                                          *)
(******************************************************************************)
EXTENDS Naturals, Sequences

CONSTANTS Threads, LateDeclines, HostChecks, MaxBackends

VARIABLES
    open,      \* thread -> it is inside a call
    width,     \* thread -> number of backends its current or last call started with
    answers,   \* thread -> what those backends answered so far, in push order
    verdict    \* thread -> how its last call ended

vars == <<open, width, answers, verdict>>

Declines == {"no"} \cup LateDeclines
Accepted == {"good"} \cup (IF HostChecks THEN {} ELSE {"bad"})
Refused == {"declined", "unsupported", "failed", "bad"} \ (Declines \cup Accepted)

Init ==
    /\ open = [t \in Threads |-> FALSE]
    /\ width = [t \in Threads |-> 0]
    /\ answers = [t \in Threads |-> <<>>]
    /\ verdict = [t \in Threads |-> "none"]

Begin(t) ==
    /\ ~open[t]
    /\ open' = [open EXCEPT ![t] = TRUE]
    /\ \E n \in 0 .. MaxBackends : width' = [width EXCEPT ![t] = n]
    /\ answers' = [answers EXCEPT ![t] = <<>>]
    /\ verdict' = [verdict EXCEPT ![t] = "none"]

\* The call learns how many backends it will ask only when it reads the list.
Enlist(t) ==
    /\ open[t] /\ answers[t] = <<>>
    /\ \E n \in width[t] .. MaxBackends : width' = [width EXCEPT ![t] = n]
    /\ UNCHANGED <<open, answers, verdict>>

Ends(t, v) == /\ open' = [open EXCEPT ![t] = FALSE]
              /\ verdict' = [verdict EXCEPT ![t] = v]

MoreToAsk(t) == open[t] /\ Len(answers[t]) < width[t]
Hear(t, a) == answers' = [answers EXCEPT ![t] = Append(@, a)]

Decline(t) ==
    /\ MoreToAsk(t)
    /\ \E a \in Declines : Hear(t, a)
    /\ UNCHANGED <<open, width, verdict>>

Succeed(t) ==
    /\ MoreToAsk(t)
    /\ \E a \in Accepted : Hear(t, a)
    /\ Ends(t, "ok")
    /\ UNCHANGED width

Fail(t) ==
    /\ MoreToAsk(t)
    /\ \E a \in Refused : Hear(t, a)
    /\ Ends(t, "error")
    /\ UNCHANGED width

\* The request itself is refused before any backend is asked.
Reject(t) ==
    /\ open[t] /\ width[t] = 0
    /\ Ends(t, "error")
    /\ UNCHANGED <<width, answers>>

\* The backend whose turn it is has panicked: in an earlier call, or in this one.
Abort(t) ==
    /\ MoreToAsk(t)
    /\ \E v \in {"poisoned", "panicked"} : Ends(t, v)
    /\ UNCHANGED <<width, answers>>

BuiltIn(t) ==
    /\ open[t] /\ Len(answers[t]) = width[t]
    /\ Ends(t, "tail")
    /\ UNCHANGED <<width, answers>>

Proceed(t) ==
    Decline(t) \/ Succeed(t) \/ Fail(t) \/ Reject(t) \/ Abort(t) \/ BuiltIn(t)

Next == \E t \in Threads : Begin(t) \/ Enlist(t) \/ Proceed(t)
Steps == Init /\ [][Next]_vars
Spec == Steps /\ \A t \in Threads : WF_vars(Proceed(t))
==================================================================================
