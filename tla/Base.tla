-------------------------------- MODULE Base --------------------------------
(***************************************************************************)
(* The MariaDB schema of the library, as far as loans and reservations     *)
(* depend on it, and the state of the PHP workers that serve requests.     *)
(*                                                                         *)
(* A table is a set of rows.  Every SELECT and every DQL DELETE of the     *)
(* code is a statement of its own (Doctrine runs in autocommit outside     *)
(* flush()), and every flush() is one transaction: one step of the model   *)
(* is one such statement or transaction, together with the local PHP code  *)
(* between it and the statement before it.  Between two steps of a request *)
(* any other worker may take steps.                                        *)
(***************************************************************************)
EXTENDS Integers, FiniteSets

CONSTANTS
    Livres,          \* books of the catalogue
    Utilisateurs,    \* user accounts
    Workers,         \* PHP workers serving requests at the same time
    Expiration,      \* days a reservation lives ('-7 days')
    LimiteResa,      \* reservations per member (3)
    LimiteEmprunts,  \* running loans per member (5)
    DatesEditables,  \* dates typed in the edit form of the Reservations CRUD
    Editions,        \* which loan edits librarians make, see EditionPossible
    MaxResa,         \* bound: reservations ever inserted
    MaxEmprunts,     \* bound: loans ever inserted
    MaxTemps         \* bound: last day of the clock

ASSUME ConstantesAssumption ==
    /\ IsFiniteSet(Workers)
    /\ Expiration \in Nat
    /\ LimiteResa \in Nat \ {0}
    /\ LimiteEmprunts \in Nat \ {0}
    /\ DatesEditables \subseteq Int
    /\ Editions \subseteq {"rouvrir", "deplacer", "reattribuer"}
    /\ {MaxResa, MaxEmprunts, MaxTemps} \subseteq Nat

VARIABLES
    maintenant,    \* the day, new \DateTime()
    reservations,  \* table reservations
    emprunts,      \* table emprunt
    livreEmprunt,  \* column livre.emprunt_id
    livres,        \* ids of table livre
    utilisateurs,  \* ids of table utilisateur
    seqResa,       \* AUTO_INCREMENT of reservations: last id given out
    seqEmprunt,    \* AUTO_INCREMENT of emprunt
    req            \* the request each worker is serving

base == <<reservations, emprunts, livreEmprunt, livres, utilisateurs,
          seqResa, seqEmprunt>>
vars == <<maintenant, base, req>>

\* livre.emprunt_id NULL
NULL == 0

Reservation == [id : Nat \ {0}, utilisateur : Utilisateurs, livre : Livres,
                dateResa : Int]

\* rendu abstracts dateRetour: TRUE when it is not NULL.
Emprunt == [id : Nat \ {0}, utilisateur : Utilisateurs, livre : Livres,
            rendu : BOOLEAN]

-----------------------------------------------------------------------------
(***************************************************************************)
(* Requests.  A worker is at rest or holds the local variables of the      *)
(* controller method it runs; etape names the next statement.              *)
(***************************************************************************)
EtapesCreer == {"creer_purge", "creer_compte", "creer_conflit", "creer_insere"}
EtapesPret  == {"pret_reservation", "pret_limite", "pret_encours", "pret_insere"}
EtapesEdit  == {"edit_livre", "edit_flush"}
EtapesSuppr == {"suppr_flush"}

Repos == [etape |-> "repos"]

\* ReservationController::create: user, book, the emprunt pointer of the book
\* as hydrated by find(), and $cutoff (0 until it is computed).
RequeteCreer == [etape : EtapesCreer, u : Utilisateurs, l : Livres,
                 emprunteLu : BOOLEAN, cutoff : Int]

\* EmpruntCrudController::persistEntity: the submitted loan and the id of the
\* member's own reservation it found (NULL when none).
RequetePret == [etape : EtapesPret, u : Utilisateurs, l : Livres,
                rendu : BOOLEAN, resa : Nat]

\* EmpruntCrudController::updateEntity: the loan as loaded, the submitted
\* values, and the pointer of the submitted book as loaded.
RequeteEdit == [etape : EtapesEdit, avant : Emprunt, u : Utilisateurs,
                l : Livres, rendu : BOOLEAN, pointeur : Nat]

\* Deletion of an account: the rows its cascade loaded.
RequeteSuppr == [etape : EtapesSuppr, u : Utilisateurs,
                 resas : SUBSET Nat, emps : SUBSET Nat]

Requete == {Repos} \cup RequeteCreer \cup RequetePret \cup RequeteEdit
           \cup RequeteSuppr

Libre(w) == req[w].etape = "repos"

Entre(w, r) == Libre(w) /\ req' = [req EXCEPT ![w] = r]
Passe(w, etape) == req' = [req EXCEPT ![w].etape = etape]
Fin(w) == req' = [req EXCEPT ![w] = Repos]

EnCreation == {w \in Workers : req[w].etape \in EtapesCreer}
EnPret == {w \in Workers : req[w].etape \in EtapesPret}

Init ==
    /\ maintenant = 0
    /\ reservations = {}
    /\ emprunts = {}
    /\ livreEmprunt = [l \in Livres |-> NULL]
    /\ livres = Livres
    /\ utilisateurs = Utilisateurs
    /\ seqResa = 0
    /\ seqEmprunt = 0
    /\ req = [w \in Workers |-> Repos]

\* Type invariant.
TypeOK ==
    /\ maintenant \in Nat
    /\ reservations \subseteq Reservation
    /\ emprunts \subseteq Emprunt
    /\ livreEmprunt \in [Livres -> Nat]
    /\ livres \subseteq Livres
    /\ utilisateurs \subseteq Utilisateurs
    /\ seqResa \in Nat
    /\ seqEmprunt \in Nat
    /\ req \in [Workers -> Requete]

-----------------------------------------------------------------------------
(***************************************************************************)
(* Rows a query selects.                                                   *)
(***************************************************************************)
ResasDeLivre(l) == {r \in reservations : r.livre = l}
ResasDe(u) == {r \in reservations : r.utilisateur = u}
Actifs == {e \in emprunts : ~e.rendu}
ActifsDeLivre(l) == {e \in Actifs : e.livre = l}
ActifsDe(u) == {e \in Actifs : e.utilisateur = u}

\* Livre::isDisponible, what members are shown of a book.
isDisponible(l) == livreEmprunt[l] = NULL

\* Faulty variant: no foreign key on livre.emprunt_id.
PointeursInchanges(ids) == livreEmprunt

\* livre.emprunt_id REFERENCES emprunt ON DELETE SET NULL, for the loans that
\* remain once those in ids are deleted.
PointeursSans(ids) ==
    [l \in Livres |-> IF livreEmprunt[l] \in ids THEN NULL ELSE livreEmprunt[l]]

\* The clock: days pass between any two statements.
Tick ==
    /\ maintenant < MaxTemps
    /\ maintenant' = maintenant + 1
    /\ UNCHANGED <<base, req>>
=============================================================================
