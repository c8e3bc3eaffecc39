-------------------------- MODULE RechercheLivres --------------------------
(***************************************************************************)
(* Search of the catalogue: RechercheRepository::searchLivres over the     *)
(* joined tables, and the two pages that show its results (Home and        *)
(* LivresList), whose calls are answered in any order and never cancelled. *)
(*                                                                         *)
(* A text criterion is the set of rows its LIKE matches, and the criteria  *)
(* on the columns of livre (title, language, dates) are one such set; the  *)
(* catalogue does not change while the page is open.                       *)
(***************************************************************************)
EXTENDS Naturals

CONSTANTS
    Livres,      \* table livre
    Auteurs,     \* table auteur
    Categories,  \* table categorie
    Pannes,      \* TRUE when calls may fail
    MaxAppels    \* bound: calls the page makes

\* No author or category in a joined row.
NULL == "null"

ASSUME RechercheAssumption ==
    /\ Pannes \in BOOLEAN
    /\ MaxAppels \in Nat \ {0}
    /\ NULL \notin Auteurs \cup Categories

VARIABLES
    auteursDe,     \* livre_auteur, by book
    categoriesDe,  \* livre_categorie, by book
    page,          \* which of the two pages is open
    appels,        \* calls sent and not yet received, with their answers
    nbAppels,      \* calls sent so far
    livres,        \* signal livres: the books shown
    demande        \* history: what the last call asked for

catalogue == <<auteursDe, categoriesDe, page>>
vars == <<catalogue, appels, nbAppels, livres, demande>>

\* A field of the form: left empty, or the rows that match what was typed.
Champ(lignes) == {{}} \cup {{S} : S \in SUBSET lignes}

Accepte(champ, x) == \A S \in champ : x \in S

Criteres == [propres : Champ(Livres), auteurs : Champ(Auteurs),
             categories : Champ(Categories)]

\* GET /livres takes no criteria.
Tous == [propres |-> {}, auteurs |-> {}, categories |-> {}]

\* Home has no field for the author.
Saisissables ==
    {q \in Criteres : page = "accueil" => q.auteurs = {}}

\* A book as serialised by the group livre:read.
Fiche == [livre : Livres, auteurs : SUBSET Auteurs, categories : SUBSET Categories]

-----------------------------------------------------------------------------
(***************************************************************************)
(* The server.                                                             *)
(***************************************************************************)

\* Faulty variant: an inner join, which loses books without authors or
\* categories.
LignesInternes ==
    {t \in Livres \X Auteurs \X Categories :
        t[2] \in auteursDe[t[1]] /\ t[3] \in categoriesDe[t[1]]}

\* FROM livre l LEFT JOIN l.auteurs a LEFT JOIN l.categories c
Lignes ==
    {t \in Livres \X (Auteurs \cup {NULL}) \X (Categories \cup {NULL}) :
        /\ IF auteursDe[t[1]] = {} THEN t[2] = NULL ELSE t[2] \in auteursDe[t[1]]
        /\ IF categoriesDe[t[1]] = {} THEN t[3] = NULL
           ELSE t[3] \in categoriesDe[t[1]]}

\* The andWhere of each criterion that was given; a comparison with NULL does
\* not hold.
Choisies(q) ==
    {t \in Lignes :
        /\ Accepte(q.propres, t[1])
        /\ Accepte(q.auteurs, t[2])
        /\ Accepte(q.categories, t[3])}

\* Faulty variant: the NULL of a left join is kept as a member.
HydrateNull(lignes) ==
    {[livre |-> l,
      auteurs |-> {t[2] : t \in {x \in lignes : x[1] = l}},
      categories |-> {t[3] : t \in {x \in lignes : x[1] = l}} \ {NULL}] :
        l \in {t[1] : t \in lignes}}

\* Faulty variant: the collection is not started anew for each book.
HydrateMelange(lignes) ==
    {[livre |-> l,
      auteurs |-> {t[2] : t \in lignes} \ {NULL},
      categories |-> {t[3] : t \in {x \in lignes : x[1] = l}} \ {NULL}] :
        l \in {t[1] : t \in lignes}}

\* getResult(): one object per book of the rows, its collections hydrated from
\* those rows.
Hydrate(lignes) ==
    {[livre |-> l,
      auteurs |-> {t[2] : t \in {x \in lignes : x[1] = l}} \ {NULL},
      categories |-> {t[3] : t \in {x \in lignes : x[1] = l}} \ {NULL}] :
        l \in {t[1] : t \in lignes}}

searchLivres(q) == Hydrate(Choisies(q))

\* findAll(): collections are loaded whole when they are serialised.
findAll ==
    {[livre |-> l, auteurs |-> auteursDe[l], categories |-> categoriesDe[l]] :
        l \in Livres}

-----------------------------------------------------------------------------
(***************************************************************************)
(* The page.                                                               *)
(***************************************************************************)
Envoyer(route, q) ==
    /\ nbAppels < MaxAppels
    /\ nbAppels' = nbAppels + 1
    /\ demande' = q
    /\ appels' = appels \cup {[n |-> nbAppels + 1, route |-> route, q |-> q,
                               servi |-> FALSE, rep |-> {}]}
    /\ UNCHANGED <<catalogue, livres>>

\* The page opens with every book (ngOnInit).
Init ==
    /\ auteursDe \in [Livres -> SUBSET Auteurs]
    /\ categoriesDe \in [Livres -> SUBSET Categories]
    /\ page \in {"accueil", "liste"}
    /\ appels = {[n |-> 1, route |-> "tous", q |-> Tous, servi |-> FALSE, rep |-> {}]}
    /\ nbAppels = 1
    /\ livres = {}
    /\ demande = Tous

\* The form is submitted; only the fields that are filled in are sent.
rechercher == \E q \in Saisissables : Envoyer("recherche", q)

\* LivresList only: the fields are emptied and every book is loaded.
reinitialiser == page = "liste" /\ Envoyer("tous", Tous)

\* LivreController::index and search.
Servir(a) ==
    /\ a \in appels /\ ~a.servi
    /\ appels' = (appels \ {a}) \cup
          {[a EXCEPT !.servi = TRUE,
                     !.rep = IF a.route = "tous" THEN findAll ELSE searchLivres(a.q)]}
    /\ UNCHANGED <<catalogue, nbAppels, livres, demande>>

\* subscribe(data => livres.set(data)), in the order answers arrive.
Recevoir(a) ==
    /\ a \in appels /\ a.servi
    /\ livres' = a.rep
    /\ appels' = appels \ {a}
    /\ UNCHANGED <<catalogue, nbAppels, demande>>

\* A call fails; there is no error callback.
Echouer(a) ==
    /\ Pannes
    /\ a \in appels
    /\ appels' = appels \ {a}
    /\ UNCHANGED <<catalogue, nbAppels, livres, demande>>

\* The user reads the page: every call is answered and no other is made.
Lire ==
    /\ nbAppels = MaxAppels /\ appels = {}
    /\ UNCHANGED vars

Next ==
    \/ rechercher \/ reinitialiser
    \/ \E a \in appels : Servir(a) \/ Recevoir(a) \/ Echouer(a)
    \/ Lire

Spec == Init /\ [][Next]_vars

-----------------------------------------------------------------------------
(***************************************************************************)
(* Properties.                                                             *)
(***************************************************************************)

\* Type invariant.
RechercheTypeOK ==
    /\ auteursDe \in [Livres -> SUBSET Auteurs]
    /\ categoriesDe \in [Livres -> SUBSET Categories]
    /\ page \in {"accueil", "liste"}
    /\ \A a \in appels : /\ a.n \in 1 .. MaxAppels /\ a.route \in {"tous", "recherche"}
                         /\ a.servi \in BOOLEAN
                         /\ a.rep \subseteq Fiche
    /\ nbAppels \in 1 .. MaxAppels
    /\ livres \subseteq Fiche

\* What a search means, book by book: its own columns match, one of its
\* authors matches, one of its categories matches.
Repond(l, q) ==
    /\ Accepte(q.propres, l)
    /\ \A S \in q.auteurs : auteursDe[l] \cap S # {}
    /\ \A S \in q.categories : categoriesDe[l] \cap S # {}

\* searchLivres, which filters the rows of two left joins
\* (RechercheRepository.php:25-60), answers each book that meets every
\* criterion and no other: also books without authors or categories, also a
\* book that meets the two criteria on joined tables in different rows.  Each
\* book is answered once.
RechercheExacte ==
    \A a \in appels : a.servi =>
        /\ {f.livre : f \in a.rep} = {l \in Livres : Repond(l, a.q)}
        /\ \A f, g \in a.rep : f.livre = g.livre => f = g

\* What the collections of an answer hold, since the WHERE also filters the
\* rows they are hydrated from (RechercheRepository.php:38, 43): of every book
\* its own authors and categories that match, whatever the criterion on the
\* other table has left of the product of the two joins, and all of them where
\* no criterion was given.
CollectionsFiltrees ==
    \A a \in appels : a.servi =>
        \A f \in a.rep :
            /\ f.auteurs = {x \in auteursDe[f.livre] : Accepte(a.q.auteurs, x)}
            /\ f.categories =
                  {x \in categoriesDe[f.livre] : Accepte(a.q.categories, x)}

-----------------------------------------------------------------------------
(***************************************************************************)
(* What the pages say, and the code does not keep.                         *)
(***************************************************************************)

\* 'Resultats' (home.html:32): once no call is under way, the books below are
\* the results of the search that was made last.
ResultatsDeLaRecherche ==
    appels = {} => {f.livre : f \in livres} = {l \in Livres : Repond(l, demande)}

\* 'Auteur(s)' (livre-detail.html:31) lists the authors of a book, and
\* getAuteursLabel names those of the same book in the list: they agree.
AuteursComplets == \A f \in livres : f.auteurs = auteursDe[f.livre]
=============================================================================
