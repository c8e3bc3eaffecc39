--------------------------- MODULE MCLivresListe ---------------------------
(***************************************************************************)
(* LivresListe for TLC: books and workers are interchangeable, and so are  *)
(* the members other than moi.                                             *)
(***************************************************************************)
EXTENDS LivresListe, TLC

Symetrie == Permutations(Livres) \cup Permutations(Utilisateurs \ {moi})
            \cup Permutations(Workers)
=============================================================================
