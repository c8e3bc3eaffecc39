---------------------------- MODULE EmpruntAdmin ----------------------------
(***************************************************************************)
(* EmpruntCrudController: the librarian's screens for loans.               *)
(***************************************************************************)
EXTENDS Base

(***************************************************************************)
(* New loan: persistEntity.  The form has loaded the chosen member and     *)
(* book; dateRetour may be filled in (rendu).                              *)
(***************************************************************************)
PretDebut(w, u, l, rendu) ==
    /\ u \in utilisateurs
    /\ l \in livres
    /\ seqEmprunt + Cardinality(EnPret) < MaxEmprunts
    /\ Entre(w, [etape |-> "pret_reservation", u |-> u, l |-> l,
                 rendu |-> rendu, resa |-> NULL])
    /\ UNCHANGED <<maintenant, base>>

\* Faulty variant: only the member's own reservations are looked up.
PretReservationPropre(w) ==
    /\ req[w].etape = "pret_reservation"
    /\ IF \E r \in ResasDeLivre(req[w].l) : r.utilisateur = req[w].u
       THEN \E r \in ResasDeLivre(req[w].l) :
               /\ r.utilisateur = req[w].u
               /\ req' = [req EXCEPT ![w].etape = "pret_limite", ![w].resa = r.id]
       ELSE Passe(w, "pret_limite")
    /\ UNCHANGED <<maintenant, base>>

\* findOneBy(['livre' => $livre]): any row of the book, whatever its date; a
\* row of another member ends the request with an exception.
PretReservation(w) ==
    /\ req[w].etape = "pret_reservation"
    /\ \/ /\ ResasDeLivre(req[w].l) = {}
          /\ Passe(w, "pret_limite")
       \/ \E r \in ResasDeLivre(req[w].l) :
             IF r.utilisateur # req[w].u
             THEN Fin(w)
             ELSE req' = [req EXCEPT ![w].etape = "pret_limite",
                                     ![w].resa = r.id]
    /\ UNCHANGED <<maintenant, base>>

\* Faulty variant: the limit is compared with > instead of >=.
PretLimiteStrict(w) ==
    /\ req[w].etape = "pret_limite"
    /\ IF Cardinality(ActifsDe(req[w].u)) > LimiteEmprunts
       THEN Fin(w)
       ELSE Passe(w, "pret_encours")
    /\ UNCHANGED <<maintenant, base>>

\* The member's loans without dateRetour; at the limit the request ends.
PretLimite(w) ==
    /\ req[w].etape = "pret_limite"
    /\ IF Cardinality(ActifsDe(req[w].u)) >= LimiteEmprunts
       THEN Fin(w)
       ELSE Passe(w, "pret_encours")
    /\ UNCHANGED <<maintenant, base>>

\* Faulty variant: only a running loan of the same member is looked for.
PretEnCoursPropre(w) ==
    /\ req[w].etape = "pret_encours"
    /\ IF ActifsDeLivre(req[w].l) \cap ActifsDe(req[w].u) # {}
       THEN Fin(w)
       ELSE Passe(w, "pret_insere")
    /\ UNCHANGED <<maintenant, base>>

\* A running loan of the book ends the request without flush(): the removal
\* of the reservation scheduled before it is never executed.
PretEnCours(w) ==
    /\ req[w].etape = "pret_encours"
    /\ IF ActifsDeLivre(req[w].l) # {}
       THEN Fin(w)
       ELSE Passe(w, "pret_insere")
    /\ UNCHANGED <<maintenant, base>>

\* Faulty variant: the borrower's reservation is never removed.
PretInsereSansRemove(w) ==
    /\ req[w].etape = "pret_insere"
    /\ \/ /\ req[w].u \in utilisateurs /\ req[w].l \in livres
          /\ seqEmprunt' = seqEmprunt + 1
          /\ emprunts' = emprunts \cup
                {[id |-> seqEmprunt + 1, utilisateur |-> req[w].u,
                  livre |-> req[w].l, rendu |-> req[w].rendu]}
          /\ livreEmprunt' = IF req[w].rendu THEN livreEmprunt
                             ELSE [livreEmprunt EXCEPT ![req[w].l] = seqEmprunt + 1]
          /\ UNCHANGED reservations
       \/ /\ ~(req[w].u \in utilisateurs /\ req[w].l \in livres)
          /\ UNCHANGED <<seqEmprunt, emprunts, livreEmprunt, reservations>>
    /\ Fin(w)
    /\ UNCHANGED <<maintenant, livres, utilisateurs, seqResa>>

\* Faulty variant: every reservation of the book is removed.
PretInsereVide(w) ==
    /\ req[w].etape = "pret_insere"
    /\ \/ /\ req[w].u \in utilisateurs /\ req[w].l \in livres
          /\ seqEmprunt' = seqEmprunt + 1
          /\ emprunts' = emprunts \cup
                {[id |-> seqEmprunt + 1, utilisateur |-> req[w].u,
                  livre |-> req[w].l, rendu |-> req[w].rendu]}
          /\ livreEmprunt' = IF req[w].rendu THEN livreEmprunt
                             ELSE [livreEmprunt EXCEPT ![req[w].l] = seqEmprunt + 1]
          /\ reservations' = {r \in reservations : r.livre # req[w].l}
       \/ /\ ~(req[w].u \in utilisateurs /\ req[w].l \in livres)
          /\ UNCHANGED <<seqEmprunt, emprunts, livreEmprunt, reservations>>
    /\ Fin(w)
    /\ UNCHANGED <<maintenant, livres, utilisateurs, seqResa>>

\* flush() of parent::persistEntity: the loan, the pointer of the book and the
\* removal of the reservation in one transaction, rolled back when a foreign
\* key fails.
PretInsere(w) ==
    /\ req[w].etape = "pret_insere"
    /\ \/ /\ req[w].u \in utilisateurs /\ req[w].l \in livres
          /\ seqEmprunt' = seqEmprunt + 1
          /\ emprunts' = emprunts \cup
                {[id |-> seqEmprunt + 1, utilisateur |-> req[w].u,
                  livre |-> req[w].l, rendu |-> req[w].rendu]}
          /\ livreEmprunt' = IF req[w].rendu THEN livreEmprunt
                             ELSE [livreEmprunt EXCEPT ![req[w].l] = seqEmprunt + 1]
          /\ reservations' = {r \in reservations : r.id # req[w].resa}
       \/ /\ ~(req[w].u \in utilisateurs /\ req[w].l \in livres)
          /\ UNCHANGED <<seqEmprunt, emprunts, livreEmprunt, reservations>>
    /\ Fin(w)
    /\ UNCHANGED <<maintenant, livres, utilisateurs, seqResa>>

-----------------------------------------------------------------------------
(***************************************************************************)
(* Edit: updateEntity.                                                     *)
(***************************************************************************)

\* Which values the librarian submits for a loan.  Filling in dateRetour and
\* submitting the form as it is are always possible; Editions says whether
\* dateRetour is ever emptied (as a form loaded before the return does when it
\* is submitted after it), and whether the book or the member is ever changed.
EditionPossible(e, u, l, rendu) ==
    /\ e.rendu /\ ~rendu => "rouvrir" \in Editions
    /\ l # e.livre => "deplacer" \in Editions
    /\ u # e.utilisateur => "reattribuer" \in Editions

\* SELECT of the loan.
EditDebut(w, e, u, l, rendu) ==
    /\ e \in emprunts
    /\ EditionPossible(e, u, l, rendu)
    /\ Entre(w, [etape |-> "edit_livre", avant |-> e, u |-> u, l |-> l,
                 rendu |-> rendu, pointeur |-> NULL])
    /\ UNCHANGED <<maintenant, base>>

\* SELECT of the submitted book and member; the form is invalid without them.
EditLivre(w) ==
    /\ req[w].etape = "edit_livre"
    /\ IF req[w].u \in utilisateurs /\ req[w].l \in livres
       THEN req' = [req EXCEPT ![w].etape = "edit_flush",
                               ![w].pointeur = livreEmprunt[req[w].l]]
       ELSE Fin(w)
    /\ UNCHANGED <<maintenant, base>>

\* Faulty variant: a returned loan stays on its book.
PointeurVouluSansRetour(q) == IF ~q.rendu THEN q.avant.id ELSE q.pointeur

\* What setEmprunt leaves in the loaded book.
PointeurVoulu(q) ==
    IF ~q.rendu THEN q.avant.id
    ELSE IF q.pointeur = q.avant.id THEN NULL ELSE q.pointeur

\* The UPDATE of emprunt writes the columns whose submitted value differs from
\* the loaded one.
Modifie(e, q) ==
    [e EXCEPT !.utilisateur = IF q.u # q.avant.utilisateur THEN q.u ELSE @,
              !.livre = IF q.l # q.avant.livre THEN q.l ELSE @,
              !.rendu = IF q.rendu # q.avant.rendu THEN q.rendu ELSE @]

\* The foreign keys the two UPDATEs touch; an UPDATE of a row deleted
\* meanwhile touches none.
EditClesOk(q) ==
    /\ (\E e \in emprunts : e.id = q.avant.id) =>
          /\ q.u # q.avant.utilisateur => q.u \in utilisateurs
          /\ q.l # q.avant.livre => q.l \in livres
    /\ PointeurVoulu(q) # q.pointeur /\ PointeurVoulu(q) # NULL
          /\ q.l \in livres => \E e \in emprunts : e.id = q.avant.id

EditFlush(w) ==
    /\ req[w].etape = "edit_flush"
    /\ \/ /\ EditClesOk(req[w])
          /\ emprunts' = {IF e.id = req[w].avant.id THEN Modifie(e, req[w]) ELSE e :
                             e \in emprunts}
          /\ livreEmprunt' =
                IF PointeurVoulu(req[w]) # req[w].pointeur /\ req[w].l \in livres
                THEN [livreEmprunt EXCEPT ![req[w].l] = PointeurVoulu(req[w])]
                ELSE livreEmprunt
       \/ /\ ~EditClesOk(req[w])
          /\ UNCHANGED <<emprunts, livreEmprunt>>
    /\ Fin(w)
    /\ UNCHANGED <<maintenant, reservations, livres, utilisateurs, seqResa,
                   seqEmprunt>>

-----------------------------------------------------------------------------
\* Delete: the row goes, livre.emprunt_id is set to NULL by the database.
SupprPret(e) ==
    /\ \E w \in Workers : Libre(w)
    /\ e \in emprunts
    /\ emprunts' = emprunts \ {e}
    /\ livreEmprunt' = PointeursSans({e.id})
    /\ UNCHANGED <<maintenant, reservations, livres, utilisateurs, seqResa,
                   seqEmprunt, req>>

PretEtape(w) ==
    \/ PretReservation(w) \/ PretLimite(w) \/ PretEnCours(w) \/ PretInsere(w)
    \/ EditLivre(w) \/ EditFlush(w)

EmpruntNext ==
    \/ \E w \in Workers :
          \/ \E u \in Utilisateurs, l \in Livres, rendu \in BOOLEAN :
                PretDebut(w, u, l, rendu)
          \/ \E e \in emprunts, u \in Utilisateurs, l \in Livres, rendu \in BOOLEAN :
                EditDebut(w, e, u, l, rendu)
          \/ PretEtape(w)
    \/ \E e \in emprunts : SupprPret(e)
=============================================================================
