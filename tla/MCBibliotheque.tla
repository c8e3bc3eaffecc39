--------------------------- MODULE MCBibliotheque ---------------------------
(***************************************************************************)
(* Bibliotheque for TLC: the symmetries of its constants.                  *)
(***************************************************************************)
EXTENDS Bibliotheque, TLC

\* Books, members and workers are interchangeable: no definition tells two of
\* them apart.
Symetrie == Permutations(Livres) \cup Permutations(Utilisateurs)
            \cup Permutations(Workers)
=============================================================================
