---------------------------- MODULE Bibliotheque ----------------------------
(***************************************************************************)
(* The back end: members' reservations, librarians' loans and the other    *)
(* EasyAdmin screens on one database.                                      *)
(***************************************************************************)
EXTENDS ReservationApi, EmpruntAdmin, AdminCrud

Next == Tick \/ ReservationNext \/ EmpruntNext \/ AdminNext

Spec == Init /\ [][Next]_vars

\* Steps a worker takes on its own once a request has started.
Etape(w) == CreerEtape(w) \/ PretEtape(w) \/ SupprUtilisateurFlush(w)

-----------------------------------------------------------------------------
(***************************************************************************)
(* Foreign keys.                                                           *)
(***************************************************************************)

\* Every reservation and every loan belongs to an account and a book that
\* exist, and a book points only to a loan that exists, whatever is deleted
\* while a request is under way (FK constraints of the migration, cascade of
\* Utilisateur, rollback of flush()).
IntegriteReferentielle ==
    /\ \A r \in reservations : r.utilisateur \in utilisateurs /\ r.livre \in livres
    /\ \A e \in emprunts : e.utilisateur \in utilisateurs /\ e.livre \in livres
    /\ \A l \in Livres : livreEmprunt[l] # NULL =>
          /\ l \in livres
          /\ \E e \in emprunts : e.id = livreEmprunt[l]

-----------------------------------------------------------------------------
(***************************************************************************)
(* Reservations.                                                           *)
(***************************************************************************)

\* A request of ReservationController::create that has passed the count, and
\* one that has passed the conflict check, for a given member or book.
CompteFait(u) ==
    {w \in Workers : /\ req[w].etape \in {"creer_conflit", "creer_insere"}
                     /\ req[w].u = u}
ConflitFait(l) == {w \in Workers : req[w].etape = "creer_insere" /\ req[w].l = l}

\* Once a request of create() has purged, it never meets a reservation older
\* than its own $cutoff again, whatever other workers insert or purge: the
\* dates the count and the conflict check compare exclude no row.  (Dates are
\* not edited by hand.)
PurgeTient ==
    \A w \in Workers :
        req[w].etape \in {"creer_compte", "creer_conflit", "creer_insere"} =>
            \A r \in reservations : r.dateResa >= req[w].cutoff

\* The limit of create() (line 65) bounds a member's reservations, and those
\* about to be inserted, by the limit plus one per further worker: a race
\* never costs more than the workers that take part in it, and a single
\* worker keeps the limit exactly.
LimiteResaParWorker ==
    \A u \in Utilisateurs :
        Cardinality(ResasDe(u)) + Cardinality(CompteFait(u))
            <= LimiteResa - 1 + Cardinality(Workers)

\* The conflict check of create() (line 73) bounds the reservations of a book
\* by the number of workers: with one worker a book is reserved at most once.
ReservationsParLivre ==
    \A l \in Livres :
        Cardinality(ResasDeLivre(l)) + Cardinality(ConflitFait(l))
            <= Cardinality(Workers)

\* The step gives a reason for reservation r to go: r has expired, its owner or
\* a librarian deletes it, its owner gets the book (the loan is inserted in the
\* same step), or its owner's account goes.
RaisonDeDisparaitre(r) ==
    \/ r.dateResa < maintenant - Expiration
    \/ Annuler(r.utilisateur, r)
    \/ AdminSupprimeResa(r)
    \/ \E e \in emprunts' \ emprunts :
          e.livre = r.livre /\ e.utilisateur = r.utilisateur
    \/ r.utilisateur \notin utilisateurs'

\* A reservation disappears only for such a reason.  In particular a purge
\* (ReservationsRepository::purgeExpired) never removes a running reservation,
\* the ids persistEntity and the deletion of an account have loaded never
\* remove another member's reservation, and a loan that is refused after
\* remove() was called leaves the reservation in place.
DisparitionJustifiee ==
    [][\A r \in reservations :
          (\A s \in reservations' : s.id # r.id) => RaisonDeDisparaitre(r)]_vars

-----------------------------------------------------------------------------
(***************************************************************************)
(* Loans.                                                                  *)
(***************************************************************************)
LimiteVue(u) ==
    {w \in Workers : /\ req[w].etape \in {"pret_encours", "pret_insere"}
                     /\ req[w].u = u /\ ~req[w].rendu}
EnCoursVu(l) ==
    {w \in Workers : req[w].etape = "pret_insere" /\ req[w].l = l /\ ~req[w].rendu}

\* The limit of persistEntity (line 47), under any number of workers, as long
\* as edits neither reopen a loan nor give it to another member.
LimiteEmpruntsParWorker ==
    \A u \in Utilisateurs :
        Cardinality(ActifsDe(u)) + Cardinality(LimiteVue(u))
            <= LimiteEmprunts - 1 + Cardinality(Workers)

\* The running-loan check of persistEntity (line 58), under any number of
\* workers, as long as edits neither reopen a loan nor move it to another
\* book: as many running loans of one book as there are workers, so one loan
\* with one worker.
EmpruntsParLivre ==
    \A l \in Livres :
        Cardinality(ActifsDeLivre(l)) + Cardinality(EnCoursVu(l))
            <= Cardinality(Workers)

\* With one worker and no edit that reopens or moves a loan, the availability
\* shown to members (Livre::isDisponible) is exact: a book points to its
\* running loan, and to nothing when it has none.
DisponibiliteExacte ==
    \A l \in Livres :
        /\ \A e \in ActifsDeLivre(l) : livreEmprunt[l] = e.id
        /\ ~isDisponible(l) => \E e \in ActifsDeLivre(l) : e.id = livreEmprunt[l]

\* Under the same conditions a book on loan carries no reservation: create()
\* refuses a book on loan, persistEntity refuses a book reserved by another
\* member and deletes the borrower's own reservation.
PasReserveEtPrete ==
    \A l \in Livres : ActifsDeLivre(l) = {} \/ ResasDeLivre(l) = {}

-----------------------------------------------------------------------------
(***************************************************************************)
(* The promise of StatutLivres, read off the tables.                       *)
(***************************************************************************)
StatutDe(l) ==
    IF l \notin livres THEN [etat |-> "retire"]
    ELSE IF ActifsDeLivre(l) # {}
         THEN [etat |-> "prete",
               par |-> (CHOOSE e \in ActifsDeLivre(l) : TRUE).utilisateur]
    ELSE IF ResasDeLivre(l) # {}
         THEN [etat |-> "reserve",
               par |-> (CHOOSE r \in ResasDeLivre(l) : TRUE).utilisateur]
    ELSE [etat |-> "libre"]

Promesse == INSTANCE StatutLivres WITH statut <- [l \in Livres |-> StatutDe(l)]

\* With one worker, and edits that at most correct the borrower, the tables
\* implement StatutLivres: no book goes from reserved by one member to lent to
\* another, or from lent to reserved, and a reservation or a loan starts only
\* below the member's limit (updateEntity, which corrects a borrower, looks at
\* no limit).
TientPromesse == Promesse!Spec

-----------------------------------------------------------------------------
(***************************************************************************)
(* What the messages of the application say, and the code does not keep.   *)
(***************************************************************************)

\* 'Limite de 3 reservations atteinte' (ReservationController.php:66): no
\* member has more reservations than the limit.
LimiteResaRespectee ==
    \A u \in Utilisateurs : Cardinality(ResasDe(u)) <= LimiteResa

\* 'Livre deja reserve' (ReservationController.php:75): a book is reserved at
\* most once.
LivreReserveUneFois == \A l \in Livres : Cardinality(ResasDeLivre(l)) <= 1

\* 'le livre "%s" est deja emprunte par %s %s' (EmpruntCrudController.php:65):
\* a book has at most one running loan.
LivrePreteUneFois == \A l \in Livres : Cardinality(ActifsDeLivre(l)) <= 1

\* 'cet adherent a deja atteint la limite de 5 emprunts en cours'
\* (EmpruntCrudController.php:48): no member has more running loans.
LimiteEmpruntsRespectee ==
    \A u \in Utilisateurs : Cardinality(ActifsDe(u)) <= LimiteEmprunts

\* 'Ce livre est actuellement emprunte.' (livres-list.ts:119), shown when
\* livre.emprunt is set: such a book is on loan.
EmprunteDoncPrete ==
    \A l \in Livres : ~isDisponible(l) => ActifsDeLivre(l) # {}

\* 'Ce livre est reserve par un autre adherent !' (EmpruntCrudController.php:41)
\* is said only of a book that another member has reserved within the seven
\* days after which README.md and app:reservations:expire let it expire.
RefusPourReservationActive ==
    [][\A w \in Workers :
          req[w].etape = "pret_reservation" /\ req'[w] = Repos =>
             \E r \in ResasDeLivre(req[w].l) :
                /\ r.utilisateur # req[w].u
                /\ r.dateResa >= maintenant - Expiration]_vars
=============================================================================
