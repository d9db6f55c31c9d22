------------------------------- MODULE Outcome -------------------------------
(***************************************************************************)
(* What a fallible function returns (Result).                              *)
(***************************************************************************)

Good(v) == [ok |-> TRUE, val |-> v]
Bad(kind) == [ok |-> FALSE, val |-> kind]
=============================================================================
