---------------------------- MODULE MCJsonlStore ----------------------------
(***************************************************************************)
(* Two processes, a key that both offer, a key of each alone; one record   *)
(* does not verify and one is too long to write.                           *)
(***************************************************************************)
EXTENDS JsonlStore, TLC

CONSTANTS p1, p2, a, b, both, brace, huge

TwoOffers == (p1 :> {a, both, huge}) @@ (p2 :> {b, both, brace})
=============================================================================
