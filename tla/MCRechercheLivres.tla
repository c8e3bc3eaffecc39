------------------------- MODULE MCRechercheLivres -------------------------
(***************************************************************************)
(* RechercheLivres for TLC: the rows of each table are interchangeable.    *)
(***************************************************************************)
EXTENDS RechercheLivres, TLC

Symetrie == Permutations(Livres) \cup Permutations(Auteurs)
            \cup Permutations(Categories)
=============================================================================
