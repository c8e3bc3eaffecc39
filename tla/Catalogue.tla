----------------------------- MODULE Catalogue -----------------------------
(***************************************************************************)
(* The catalogue screens: LivreCrudController with its two association     *)
(* fields, AuteurCrudController, CategorieCrudController, and POST         *)
(* /api/categorie.  Several librarians edit at once.                       *)
(*                                                                         *)
(* A book is linked to rows of auteur and of categorie through two join    *)
(* tables of the same form, kept here as one relation.  The other columns  *)
(* are left out.                                                           *)
(***************************************************************************)
EXTENDS Naturals, FiniteSets

CONSTANTS
    Livres,      \* ids of books
    Auteurs,     \* ids of authors
    Categories,  \* ids of categories
    Workers      \* PHP workers

ASSUME CatalogueAssumption == Auteurs \cap Categories = {}

VARIABLES
    livres,   \* table livre
    fiches,   \* tables auteur and categorie
    lies,     \* tables livre_auteur and livre_categorie
    neufs,    \* ids AUTO_INCREMENT has not given out
    req,      \* the request of each worker
    voulu,    \* history: by book, the selection last saved
    disputes  \* history: by book, what others changed during that save or since

tables == <<livres, fiches, lies, neufs>>
vars == <<tables, req, voulu, disputes>>

Fiches == Auteurs \cup Categories

\* The two association fields of the form, in their order.
Champ(etape) == IF etape = "auteurs" THEN Auteurs ELSE Categories

\* livre: the book edited; choix: the rows selected in the form; lus: the
\* collections as loaded.  touches is history: links of the book that other
\* requests changed since they were loaded.
Requete ==
    [etape : {"libre"}]
    \cup [etape : {"nouveau"}, choix : SUBSET Fiches]
    \cup [etape : {"auteurs", "categories", "flush"}, livre : Livres,
          choix : SUBSET Fiches, lus : SUBSET Fiches, touches : SUBSET Fiches]

Libre == [etape |-> "libre"]

\* The rows a book is linked to, in a state of the join tables.
LieesDans(liens, l) == {f \in Fiches : <<l, f>> \in liens}

\* Books and rows of the fixtures; some ids are still to be given out.
CatalogueInit ==
    /\ livres \in SUBSET Livres
    /\ fiches \in SUBSET Fiches
    /\ lies \in SUBSET (livres \X fiches)
    /\ neufs = (Livres \cup Fiches) \ (livres \cup fiches)
    /\ req = [w \in Workers |-> Libre]
    /\ voulu = [l \in Livres |-> LieesDans(lies, l)]
    /\ disputes = [l \in Livres |-> {}]

\* What a request whose step is etape has loaded of the book's collections.
Charges(etape) ==
    CASE etape = "categories" -> Auteurs
      [] etape = "flush"      -> Fiches
      [] OTHER                -> {}

\* A write of the join tables by worker w (no worker: "aucun"), and what it
\* means to the edits under way.
Ecrire(w, liens) ==
    /\ lies' = liens
    /\ req' = [v \in Workers |->
          IF v = w THEN Libre
          ELSE IF Charges(req[v].etape) = {} THEN req[v]
          ELSE LET l == req[v].livre
                   change == {f \in Charges(req[v].etape) :
                                 (<<l, f>> \in lies) # (<<l, f>> \in liens)}
               IN  [req[v] EXCEPT !.touches = @ \cup change]]

-----------------------------------------------------------------------------
(***************************************************************************)
(* A new book.                                                             *)
(***************************************************************************)

\* Bound: an id for every new book under way.
IdsRestants ==
    Cardinality({w \in Workers : req[w].etape = "nouveau"})
        < Cardinality(neufs \cap Livres)

\* The form is submitted with rows that exist ...
NouveauDebut(w, choix) ==
    /\ req[w] = Libre
    /\ choix \subseteq fiches
    /\ IdsRestants
    /\ req' = [req EXCEPT ![w] = [etape |-> "nouveau", choix |-> choix]]
    /\ UNCHANGED <<tables, voulu, disputes>>

\* ... and flush() inserts the book and its links, or nothing when one of the
\* rows is gone.
NouveauFlush(w) ==
    /\ req[w].etape = "nouveau"
    /\ LET choix == req[w].choix
       IN  \/ /\ choix \subseteq fiches
              /\ \E l \in neufs \cap Livres :
                    /\ livres' = livres \cup {l}
                    /\ neufs' = neufs \ {l}
                    /\ Ecrire(w, lies \cup ({l} \X choix))
                    /\ voulu' = [voulu EXCEPT ![l] = choix]
              /\ UNCHANGED <<fiches, disputes>>
           \/ /\ ~(choix \subseteq fiches)
              /\ req' = [req EXCEPT ![w] = Libre]
              /\ UNCHANGED <<tables, voulu, disputes>>

-----------------------------------------------------------------------------
(***************************************************************************)
(* An edit.                                                                *)
(***************************************************************************)

\* The form of an earlier page is submitted: its selection is of any age.
EditDebut(w, l, choix) ==
    /\ req[w] = Libre
    /\ l \in livres /\ choix \cap neufs = {}
    /\ req' = [req EXCEPT ![w] = [etape |-> "auteurs", livre |-> l, choix |-> choix,
                                  lus |-> {}, touches |-> {}]]
    /\ UNCHANGED <<tables, voulu, disputes>>

\* An association field loads its collection, then the rows of the selection;
\* a row that is gone makes the form invalid and nothing is saved.
EditChamp(w) ==
    /\ req[w].etape \in {"auteurs", "categories"}
    /\ LET q == req[w]
           champ == Champ(q.etape)
           suivante == IF q.etape = "auteurs" THEN "categories" ELSE "flush"
       IN  req' = [req EXCEPT ![w] =
              IF (q.choix \cap champ) \subseteq fiches
              THEN [q EXCEPT !.etape = suivante,
                             !.lus = @ \cup (LieesDans(lies, q.livre) \cap champ)]
              ELSE Libre]
    /\ UNCHANGED <<tables, voulu, disputes>>

\* Faulty variant: the selection is only added.
RetireesAucune(q) == {}

\* Changes of the collections: what flush() deletes from the join tables ...
Retirees(q) == q.lus \ q.choix

\* ... and what it inserts, against the collections as they were loaded.
Ajoutees(q) == q.choix \ q.lus

\* Faulty variant: foreign keys without a check.
ClesOkUnicite(q) == ({q.livre} \X Ajoutees(q)) \cap lies = {}

\* Primary and foreign keys of the inserted links.
ClesOk(q) ==
    /\ ({q.livre} \X Ajoutees(q)) \cap lies = {}
    /\ ({q.livre} \X Ajoutees(q)) \subseteq (livres \X fiches)

\* flush(): both join tables in one transaction, or neither.
EditFlush(w) ==
    /\ req[w].etape = "flush"
    /\ LET q == req[w]
           l == q.livre
       IN  \/ /\ ClesOk(q)
              /\ Ecrire(w, (lies \ ({l} \X Retirees(q))) \cup ({l} \X Ajoutees(q)))
              /\ voulu' = [voulu EXCEPT ![l] = q.choix]
              /\ disputes' = [disputes EXCEPT ![l] = q.touches]
           \/ /\ ~ClesOk(q)
              /\ req' = [req EXCEPT ![w] = Libre]
              /\ UNCHANGED <<lies, voulu, disputes>>
    /\ UNCHANGED <<livres, fiches, neufs>>

-----------------------------------------------------------------------------
(***************************************************************************)
(* Authors and categories, and deletions.                                  *)
(***************************************************************************)

\* Faulty variant: the id is not used up.
CreerFicheSansSeq(f) ==
    /\ f \in neufs
    /\ fiches' = fiches \cup {f}
    /\ UNCHANGED <<livres, lies, neufs, req, voulu, disputes>>

\* A new author or category.
CreerFiche(f) ==
    /\ \E w \in Workers : req[w] = Libre
    /\ f \in neufs
    /\ fiches' = fiches \cup {f}
    /\ neufs' = neufs \ {f}
    /\ UNCHANGED <<livres, lies, req, voulu, disputes>>

\* ON DELETE CASCADE on both sides of the join tables.
SupprFiche(f) ==
    /\ \E w \in Workers : req[w] = Libre
    /\ f \in fiches
    /\ fiches' = fiches \ {f}
    /\ Ecrire("aucun", lies \ (Livres \X {f}))
    /\ disputes' = [l \in Livres |-> disputes[l] \cup {f}]
    /\ UNCHANGED <<livres, neufs, voulu>>

\* A book without loan or reservation; otherwise the request is refused and
\* changes nothing.
SupprLivre(l) ==
    /\ \E w \in Workers : req[w] = Libre
    /\ l \in livres
    /\ livres' = livres \ {l}
    /\ Ecrire("aucun", lies \ ({l} \X Fiches))
    /\ UNCHANGED <<fiches, neufs, voulu, disputes>>

CatalogueNext ==
    \/ \E w \in Workers :
          \/ \E choix \in SUBSET Fiches : NouveauDebut(w, choix)
          \/ NouveauFlush(w)
          \/ \E l \in Livres, choix \in SUBSET Fiches : EditDebut(w, l, choix)
          \/ EditChamp(w) \/ EditFlush(w)
    \/ \E f \in Fiches : CreerFiche(f) \/ SupprFiche(f)
    \/ \E l \in Livres : SupprLivre(l)

CatalogueSpec == CatalogueInit /\ [][CatalogueNext]_vars

-----------------------------------------------------------------------------
(***************************************************************************)
(* Properties.                                                             *)
(***************************************************************************)

\* Type invariant.
CatalogueTypeOK ==
    /\ livres \subseteq Livres /\ fiches \subseteq Fiches
    /\ lies \subseteq Livres \X Fiches
    /\ neufs \subseteq (Livres \cup Fiches) \ (livres \cup fiches)
    /\ req \in [Workers -> Requete]
    /\ voulu \in [Livres -> SUBSET Fiches]
    /\ disputes \in [Livres -> SUBSET Fiches]

\* The join tables only link rows that exist, although an edit inserts links
\* to rows loaded several statements earlier (LivreCrudController.php:29-30)
\* and any of them may be deleted meanwhile.
LiensIntegres == lies \subseteq livres \X fiches

\* A saved edit takes effect on both collections: the links of a book are the
\* selection that was saved last, except for rows another librarian linked,
\* unlinked or deleted between its loading and its flush(), or deleted since
\* (LivreCrudController.php:29-30, Livre.php:39-54).  No edit is half saved,
\* and an edit that nobody disturbed is saved exactly.
SelectionTenue ==
    \A l \in livres :
        LET liees == LieesDans(lies, l)
        IN  (liees \ voulu[l]) \cup (voulu[l] \ liees) \subseteq disputes[l]
=============================================================================
