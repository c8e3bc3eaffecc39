-------------------------- MODULE MCChevauchement --------------------------
(***************************************************************************)
(* Chevauchement for TLC: the symmetries of its constants.                 *)
(***************************************************************************)
EXTENDS Chevauchement, TLC

Symetrie == Permutations(Livres) \cup Permutations(Utilisateurs)
            \cup Permutations(Workers)
=============================================================================
