---------------------------- MODULE StatutLivres ----------------------------
(***************************************************************************)
(* What the library promises of its books, without requests, tables or     *)
(* dates: every book is free, reserved by one member, on loan to one       *)
(* member, or withdrawn.  A reserved book is lent to nobody but the member *)
(* who reserved it, a book on loan is not reserved, and a reservation or a *)
(* loan starts only below the member's limit.                              *)
(***************************************************************************)
EXTENDS Integers, FiniteSets

CONSTANTS Livres, Utilisateurs, LimiteResa, LimiteEmprunts

VARIABLE statut

Libre == [etat |-> "libre"]
Retire == [etat |-> "retire"]
Reserve(u) == [etat |-> "reserve", par |-> u]
Prete(u) == [etat |-> "prete", par |-> u]

Statut == {Libre, Retire} \cup {Reserve(u) : u \in Utilisateurs}
          \cup {Prete(u) : u \in Utilisateurs}

Init == statut = [l \in Livres |-> Libre]

Reserver(l, u) ==
    /\ statut[l] = Libre
    /\ Cardinality({k \in Livres : statut[k] = Reserve(u)}) < LimiteResa
    /\ statut' = [statut EXCEPT ![l] = Reserve(u)]

Preter(l, u) ==
    /\ statut[l] \in {Libre, Reserve(u)}
    /\ Cardinality({k \in Livres : statut[k] = Prete(u)}) < LimiteEmprunts
    /\ statut' = [statut EXCEPT ![l] = Prete(u)]

\* A loan registered after the fact, already returned, uses up the
\* reservation of its borrower; so do cancellation, expiry of several
\* reservations at once, the return of a loan and the end of a membership.
Liberer(S) ==
    /\ \A l \in S : statut[l] \notin {Libre, Retire}
    /\ statut' = [l \in Livres |-> IF l \in S THEN Libre ELSE statut[l]]

\* A librarian corrects the borrower of a running loan; the new borrower may be
\* at the limit.
Reattribuer(l, u) ==
    /\ \E v \in Utilisateurs : statut[l] = Prete(v)
    /\ statut' = [statut EXCEPT ![l] = Prete(u)]

Retirer(l) ==
    /\ statut[l] = Libre
    /\ statut' = [statut EXCEPT ![l] = Retire]

Next ==
    \/ \E l \in Livres, u \in Utilisateurs :
          Reserver(l, u) \/ Preter(l, u) \/ Reattribuer(l, u)
    \/ \E S \in SUBSET Livres : Liberer(S)
    \/ \E l \in Livres : Retirer(l)

Spec == Init /\ [][Next]_statut
=============================================================================
