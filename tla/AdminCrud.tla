------------------------------ MODULE AdminCrud ------------------------------
(***************************************************************************)
(* What the other EasyAdmin screens do to the rows that loans and          *)
(* reservations depend on: UtilisateurCrudController, LivreCrudController  *)
(* and ReservationsCrudController, all with EasyAdmin's own delete and     *)
(* edit actions.                                                           *)
(***************************************************************************)
EXTENDS Base

\* Delete an account: orphanRemoval makes remove() load the member's
\* reservations and loans ...
SupprUtilisateurDebut(w, u) ==
    /\ u \in utilisateurs
    /\ Entre(w, [etape |-> "suppr_flush", u |-> u,
                 resas |-> {r.id : r \in ResasDe(u)},
                 emps |-> {e.id : e \in {x \in emprunts : x.utilisateur = u}}])
    /\ UNCHANGED <<maintenant, base>>

\* ... and flush() deletes these rows by id, then the account, in one
\* transaction.  A row of the member inserted meanwhile keeps its foreign key
\* and rolls everything back.
SupprUtilisateurFlush(w) ==
    LET q == req[w]
        resas == {r \in reservations : r.id \notin q.resas}
        emps  == {e \in emprunts : e.id \notin q.emps}
        seul  == /\ \A r \in resas : r.utilisateur # q.u
                 /\ \A e \in emps : e.utilisateur # q.u
    IN  /\ q.etape = "suppr_flush"
        /\ \/ /\ seul
              /\ reservations' = resas
              /\ emprunts' = emps
              /\ livreEmprunt' = PointeursSans(q.emps)
              /\ utilisateurs' = utilisateurs \ {q.u}
           \/ /\ ~seul
              /\ UNCHANGED <<reservations, emprunts, livreEmprunt, utilisateurs>>
        /\ Fin(w)
        /\ UNCHANGED <<maintenant, livres, seqResa, seqEmprunt>>

\* Delete a book: the foreign keys of emprunt and reservations (RESTRICT)
\* refuse it while any row refers to it.
SupprLivre(l) ==
    /\ \E w \in Workers : Libre(w)
    /\ l \in livres
    /\ ResasDeLivre(l) = {}
    /\ \A e \in emprunts : e.livre # l
    /\ livres' = livres \ {l}
    /\ livreEmprunt' = [livreEmprunt EXCEPT ![l] = NULL]
    /\ UNCHANGED <<maintenant, reservations, emprunts, utilisateurs, seqResa,
                   seqEmprunt, req>>

\* The Reservations screen is not in the menu but has its routes: delete ...
AdminSupprimeResa(r) ==
    /\ \E w \in Workers : Libre(w)
    /\ r \in reservations
    /\ reservations' = reservations \ {r}
    /\ UNCHANGED <<maintenant, emprunts, livreEmprunt, livres, utilisateurs,
                   seqResa, seqEmprunt, req>>

\* ... and edit, whose default form has the one field dateResa.
AdminEditeResa(r, date) ==
    /\ \E w \in Workers : Libre(w)
    /\ r \in reservations
    /\ reservations' = (reservations \ {r}) \cup {[r EXCEPT !.dateResa = date]}
    /\ UNCHANGED <<maintenant, emprunts, livreEmprunt, livres, utilisateurs,
                   seqResa, seqEmprunt, req>>

AdminNext ==
    \/ \E w \in Workers :
          \/ \E u \in Utilisateurs : SupprUtilisateurDebut(w, u)
          \/ SupprUtilisateurFlush(w)
    \/ \E l \in Livres : SupprLivre(l)
    \/ \E r \in reservations : AdminSupprimeResa(r)
    \/ \E r \in reservations, date \in DatesEditables : AdminEditeResa(r, date)
=============================================================================
