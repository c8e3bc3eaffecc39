---------------------------- MODULE MCCatalogue ----------------------------
(***************************************************************************)
(* Catalogue for TLC: ids of one table and workers are interchangeable.    *)
(***************************************************************************)
EXTENDS Catalogue, TLC

Symetrie == Permutations(Livres) \cup Permutations(Auteurs)
            \cup Permutations(Categories) \cup Permutations(Workers)
=============================================================================
