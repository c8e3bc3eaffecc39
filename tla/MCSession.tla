----------------------------- MODULE MCSession -----------------------------
(***************************************************************************)
(* Session for TLC: accounts and addresses are interchangeable.            *)
(***************************************************************************)
EXTENDS Session, TLC

Symetrie == Permutations(Comptes) \cup Permutations(Emails)
=============================================================================
