----------------------------- MODULE MCIdentity -----------------------------
(***************************************************************************)
(* Identity with two administrators and a cashier, as in the default       *)
(* documents (whose accountant is left out).                               *)
(***************************************************************************)
EXTENDS Identity

CONSTANTS admin, inventory, cashier, Cashier, p1

DefaultRoles ==
  [a \in Actors |-> IF a = cashier THEN {Cashier} ELSE {Admin}]
=============================================================================
