----------------------------- MODULE MCAccounts -----------------------------
(***************************************************************************)
(* A customer, an owner and an administrator; two more accounts may come.  *)
(* The administrator has signed up a phone that all may use.               *)
(***************************************************************************)
EXTENDS Devices, TLC

CONSTANTS n1, n2, n3, n4, j1, j2, t1, c1, c2

MCStartNumber == [u \in {1, 2, 3} |-> IF u = 1 THEN n1 ELSE IF u = 2 THEN n2 ELSE n3]
MCSignedUp    == t1 :> Admin
MCSymmetry    == Permutations(Jobs) \cup Permutations(Calls)
=============================================================================
