-------------------------- MODULE MCTableauDeBord --------------------------
(***************************************************************************)
(* TableauDeBord for TLC: books, members and workers are interchangeable.  *)
(***************************************************************************)
EXTENDS TableauDeBord, TLC

Symetrie == Permutations(Livres) \cup Permutations(Utilisateurs)
            \cup Permutations(Workers)
=============================================================================
