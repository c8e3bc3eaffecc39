--------------------------- MODULE RechercheProofs ---------------------------
(***************************************************************************)
(* searchLivres, which filters joined rows, answers what a search means    *)
(* book by book, for every catalogue and every form, and the collections   *)
(* of its answers hold what the criteria leave of each book's own.         *)
(***************************************************************************)
EXTENDS RechercheLivres, TLAPS

\* One joined table: some row of the left join of a book with its set D passes
\* the criterion exactly when D meets the criterion, if one was given.
LEMMA JointureGauche ==
    ASSUME NEW T, NULL \notin T, NEW D \in SUBSET T, NEW champ \in Champ(T)
    PROVE  (\E x \in T \cup {NULL} : /\ IF D = {} THEN x = NULL ELSE x \in D
                                     /\ Accepte(champ, x))
           <=> \A S \in champ : D \cap S # {}
<1>1. CASE champ = {}
  <2>1. \A x : Accepte(champ, x)
    BY <1>1 DEF Accepte
  <2>2. \E x \in T \cup {NULL} : IF D = {} THEN x = NULL ELSE x \in D
    OBVIOUS
  <2> QED
    BY <1>1, <2>1, <2>2
<1>2. ASSUME NEW S \in SUBSET T, champ = {S}
      PROVE  (\E x \in T \cup {NULL} : /\ IF D = {} THEN x = NULL ELSE x \in D
                                       /\ Accepte(champ, x))
             <=> \A R \in champ : D \cap R # {}
  <2>1. \A x : Accepte(champ, x) <=> x \in S
    BY <1>2 DEF Accepte
  <2> QED
    BY <1>2, <2>1
<1> QED
  BY <1>1, <1>2 DEF Champ

\* The catalogue: authors and categories by book.
Catalogue ==
    /\ auteursDe \in [Livres -> SUBSET Auteurs]
    /\ categoriesDe \in [Livres -> SUBSET Categories]

\* A book has a row that passes all criteria exactly when it meets each of
\* them: criteria on the two joined tables need not be met by one row each.
LEMMA LigneChoisie ==
    ASSUME Catalogue, NEW q \in Criteres, NEW l \in Livres
    PROVE  (\E t \in Choisies(q) : t[1] = l) <=> Repond(l, q)
<1> DEFINE A(a) == /\ IF auteursDe[l] = {} THEN a = NULL ELSE a \in auteursDe[l]
                   /\ Accepte(q.auteurs, a)
           C(c) == /\ IF categoriesDe[l] = {} THEN c = NULL ELSE c \in categoriesDe[l]
                   /\ Accepte(q.categories, c)
<1>1. /\ q.auteurs \in Champ(Auteurs) /\ q.categories \in Champ(Categories)
      /\ auteursDe[l] \in SUBSET Auteurs /\ categoriesDe[l] \in SUBSET Categories
  BY DEF Criteres, Catalogue
<1>2. (\E a \in Auteurs \cup {NULL} : A(a)) <=> \A S \in q.auteurs : auteursDe[l] \cap S # {}
  BY <1>1, JointureGauche, RechercheAssumption
<1>3. (\E c \in Categories \cup {NULL} : C(c))
         <=> \A S \in q.categories : categoriesDe[l] \cap S # {}
  BY <1>1, JointureGauche, RechercheAssumption
<1>4. ASSUME NEW t \in Choisies(q), t[1] = l
      PROVE  Repond(l, q)
  <2>1. /\ t[2] \in Auteurs \cup {NULL} /\ t[3] \in Categories \cup {NULL}
        /\ A(t[2]) /\ C(t[3]) /\ Accepte(q.propres, l)
    BY <1>4 DEF Choisies, Lignes
  <2> HIDE DEF A, C
  <2> QED
    BY <1>2, <1>3, <2>1 DEF Repond
<1>5. ASSUME Repond(l, q)
      PROVE  \E t \in Choisies(q) : t[1] = l
  <2>1. PICK a \in Auteurs \cup {NULL} : A(a)
    BY <1>2, <1>5 DEF Repond
  <2>2. PICK c \in Categories \cup {NULL} : C(c)
    BY <1>3, <1>5 DEF Repond
  <2>3. <<l, a, c>> \in Choisies(q)
    BY <1>5, <2>1, <2>2 DEF Choisies, Lignes, Repond
  <2> QED
    BY <2>3
<1> QED
  BY <1>4, <1>5

\* What RechercheExacte says of one answer.
Exacte(rep, q) ==
    /\ {f.livre : f \in rep} = {l \in Livres : Repond(l, q)}
    /\ \A f, g \in rep : f.livre = g.livre => f = g

\* searchLivres answers exactly the books that meet the criteria, each once.
LEMMA RechercheJuste ==
    ASSUME Catalogue, NEW q \in Criteres
    PROVE  Exacte(searchLivres(q), q)
<1> DEFINE L == Choisies(q)
           F(l) == [livre |-> l,
                    auteurs |-> {t[2] : t \in {x \in L : x[1] = l}} \ {NULL},
                    categories |-> {t[3] : t \in {x \in L : x[1] = l}} \ {NULL}]
<1>1. searchLivres(q) = {F(l) : l \in {t[1] : t \in L}}
  BY DEF searchLivres, Hydrate
<1>2. \A l : F(l).livre = l
  OBVIOUS
<1>3. \A t \in L : t[1] \in Livres
  BY DEF Choisies, Lignes
<1>4. {t[1] : t \in L} = {l \in Livres : Repond(l, q)}
  BY <1>3, LigneChoisie
<1> DEFINE B == {l \in Livres : Repond(l, q)}
<1>5. searchLivres(q) = {F(l) : l \in B}
  BY <1>1, <1>4
<1> HIDE DEF F, L, B
<1>6. {f.livre : f \in searchLivres(q)} = B
  BY <1>2, <1>5
<1>7. \A f, g \in searchLivres(q) : f.livre = g.livre => f = g
  BY <1>2, <1>5
<1> QED
  BY <1>6, <1>7 DEF Exacte, B

\* What CollectionsFiltrees says of one answer.
Filtree(rep, q) ==
    \A f \in rep :
        /\ f.auteurs = {x \in auteursDe[f.livre] : Accepte(q.auteurs, x)}
        /\ f.categories = {x \in categoriesDe[f.livre] : Accepte(q.categories, x)}

\* The rows of a book that pass the criteria hold the authors that match, and
\* the categories that match, each beside every member of the other.
LEMMA LignesDuLivre ==
    ASSUME Catalogue, NEW q \in Criteres, NEW l \in Livres,
           NEW t \in Choisies(q), t[1] = l
    PROVE  /\ \A a : (\E x \in Choisies(q) : x[1] = l /\ x[2] = a /\ a # NULL)
                     <=> a \in auteursDe[l] /\ Accepte(q.auteurs, a)
           /\ \A c : (\E x \in Choisies(q) : x[1] = l /\ x[3] = c /\ c # NULL)
                     <=> c \in categoriesDe[l] /\ Accepte(q.categories, c)
<1>1. /\ auteursDe[l] \in SUBSET Auteurs /\ categoriesDe[l] \in SUBSET Categories
      /\ NULL \notin Auteurs /\ NULL \notin Categories
  BY RechercheAssumption DEF Catalogue
<1>2. ASSUME NEW x \in Choisies(q), x[1] = l
      PROVE  /\ x[2] # NULL => x[2] \in auteursDe[l] /\ Accepte(q.auteurs, x[2])
             /\ x[3] # NULL => x[3] \in categoriesDe[l] /\ Accepte(q.categories, x[3])
  BY <1>2 DEF Choisies, Lignes
<1>3. ASSUME NEW a \in auteursDe[l], Accepte(q.auteurs, a)
      PROVE  \E x \in Choisies(q) : x[1] = l /\ x[2] = a /\ a # NULL
  <2>1. <<l, a, t[3]>> \in Choisies(q)
    BY <1>1, <1>3 DEF Choisies, Lignes
  <2> QED
    BY <1>1, <2>1
<1>4. ASSUME NEW c \in categoriesDe[l], Accepte(q.categories, c)
      PROVE  \E x \in Choisies(q) : x[1] = l /\ x[3] = c /\ c # NULL
  <2>1. <<l, t[2], c>> \in Choisies(q)
    BY <1>1, <1>4 DEF Choisies, Lignes
  <2> QED
    BY <1>1, <2>1
<1> QED
  BY <1>2, <1>3, <1>4

\* The collections of an answer hold the members that match.
LEMMA RechercheFiltree ==
    ASSUME Catalogue, NEW q \in Criteres
    PROVE  Filtree(searchLivres(q), q) /\ searchLivres(q) \subseteq Fiche
<1> DEFINE L == Choisies(q)
           A(l) == {t[2] : t \in {x \in L : x[1] = l}} \ {NULL}
           C(l) == {t[3] : t \in {x \in L : x[1] = l}} \ {NULL}
<1>1. searchLivres(q) = {[livre |-> l, auteurs |-> A(l), categories |-> C(l)] :
                            l \in {t[1] : t \in L}}
  BY DEF searchLivres, Hydrate
<1>2. ASSUME NEW t \in L
      PROVE  /\ t[1] \in Livres
             /\ A(t[1]) = {a \in auteursDe[t[1]] : Accepte(q.auteurs, a)}
             /\ C(t[1]) = {c \in categoriesDe[t[1]] : Accepte(q.categories, c)}
  <2>1. t[1] \in Livres
    BY DEF Choisies, Lignes
  <2> HIDE DEF L
  <2>2. /\ \A a : (\E x \in L : x[1] = t[1] /\ x[2] = a /\ a # NULL)
                  <=> a \in auteursDe[t[1]] /\ Accepte(q.auteurs, a)
        /\ \A c : (\E x \in L : x[1] = t[1] /\ x[3] = c /\ c # NULL)
                  <=> c \in categoriesDe[t[1]] /\ Accepte(q.categories, c)
    BY <2>1, LignesDuLivre DEF L
  <2>3. A(t[1]) = {a \in auteursDe[t[1]] : Accepte(q.auteurs, a)}
    BY <2>2
  <2>4. C(t[1]) = {c \in categoriesDe[t[1]] : Accepte(q.categories, c)}
    BY <2>2
  <2> QED
    BY <2>1, <2>3, <2>4
<1> HIDE DEF L, A, C
<1>3. ASSUME NEW f \in searchLivres(q)
      PROVE  /\ f.auteurs = {x \in auteursDe[f.livre] : Accepte(q.auteurs, x)}
             /\ f.categories = {x \in categoriesDe[f.livre] : Accepte(q.categories, x)}
             /\ f \in Fiche
  <2>1. PICK t \in L : f = [livre |-> t[1], auteurs |-> A(t[1]), categories |-> C(t[1])]
    BY <1>1
  <2>2. f.livre = t[1] /\ f.auteurs = A(t[1]) /\ f.categories = C(t[1])
    BY <2>1
  <2>3. A(t[1]) \in SUBSET Auteurs /\ C(t[1]) \in SUBSET Categories
    BY <1>2 DEF Catalogue
  <2>4. f \in Fiche
    BY <1>2, <2>1, <2>3 DEF Fiche
  <2> QED
    BY <1>2, <2>2, <2>4
<1> QED
  BY <1>3 DEF Filtree

\* findAll answers every book, which is a search without criteria.
LEMMA FindAllJuste == Exacte(findAll, Tous)
<1> DEFINE F(l) == [livre |-> l, auteurs |-> auteursDe[l], categories |-> categoriesDe[l]]
<1>1. findAll = {F(l) : l \in Livres}
  BY DEF findAll
<1>2. \A l : F(l).livre = l
  OBVIOUS
<1>3. \A l : Repond(l, Tous)
  BY DEF Repond, Tous, Accepte
<1> HIDE DEF F
<1> QED
  BY <1>1, <1>2, <1>3 DEF Exacte

\* Its collections are whole.
LEMMA FindAllFiltree ==
    ASSUME Catalogue
    PROVE  Filtree(findAll, Tous) /\ findAll \subseteq Fiche
<1> SUFFICES ASSUME NEW f \in findAll
             PROVE  /\ f.auteurs = {x \in auteursDe[f.livre] : Accepte(Tous.auteurs, x)}
                    /\ f.categories = {x \in categoriesDe[f.livre] : Accepte(Tous.categories, x)}
                    /\ f \in Fiche
  BY DEF Filtree
<1>1. PICK l \in Livres :
         f = [livre |-> l, auteurs |-> auteursDe[l], categories |-> categoriesDe[l]]
  BY DEF findAll
<1>2. f.livre = l /\ f.auteurs = auteursDe[l] /\ f.categories = categoriesDe[l]
  BY <1>1
<1>3. \A x : Accepte(Tous.auteurs, x) /\ Accepte(Tous.categories, x)
  BY DEF Accepte, Tous
<1>4. f \in Fiche
  BY <1>1 DEF Fiche, Catalogue
<1> QED
  BY <1>2, <1>3, <1>4

-----------------------------------------------------------------------------
\* A call with its number, route, criteria and answer.
Fait(n, route, q, servi, rep) ==
    [n |-> n, route |-> route, q |-> q, servi |-> servi, rep |-> rep]

\* What an answer to the form q is worth.
Bonne(rep, q) == Exacte(rep, q) /\ Filtree(rep, q) /\ rep \subseteq Fiche

\* A call with its answer.
Juste(a) ==
    /\ a = Fait(a.n, a.route, a.q, a.servi, a.rep)
    /\ a.n \in Nat
    /\ a.q \in Criteres
    /\ a.route \in {"tous", "recherche"}
    /\ a.route = "tous" => a.q = Tous
    /\ \/ a.servi = FALSE /\ a.rep = {}
       \/ a.servi = TRUE /\ Bonne(a.rep, a.q)

\* The inductive invariant: the catalogue, each call with its number and its
\* answer, and the books shown.
InvRecherche ==
    /\ Catalogue
    /\ page \in {"accueil", "liste"}
    /\ nbAppels \in 1 .. MaxAppels
    /\ livres \subseteq Fiche
    /\ \A a \in appels : Juste(a) /\ a.n \in 1 .. nbAppels

\* The empty form is a form.
LEMMA TousType == Tous \in Criteres
BY DEF Tous, Criteres, Champ

\* The catalogue does not change, so what was true of a call or of an answer
\* stays true.
LEMMA CatalogueStable ==
    ASSUME UNCHANGED <<auteursDe, categoriesDe>>
    PROVE  /\ Catalogue => Catalogue'
           /\ \A rep, q : Bonne(rep, q) => Bonne(rep, q)'
           /\ \A b : Juste(b) => Juste(b)'
<1>1. ASSUME NEW rep, NEW q, Bonne(rep, q)
      PROVE  Bonne(rep, q)'
  BY <1>1 DEF Bonne, Exacte, Filtree, Repond
<1>2. ASSUME NEW b, Juste(b)
      PROVE  Juste(b)'
  BY <1>1, <1>2 DEF Juste
<1>3. Catalogue => Catalogue'
  BY DEF Catalogue
<1> QED
  BY <1>1, <1>2, <1>3

\* A call is sent without an answer.
LEMMA EnvoyerJuste ==
    ASSUME InvRecherche, NEW route \in {"tous", "recherche"}, NEW q \in Criteres,
           route = "tous" => q = Tous, Envoyer(route, q)
    PROVE  InvRecherche'
<1>1. PICK b : b = Fait(nbAppels + 1, route, q, FALSE, {})
  OBVIOUS
<1>2. /\ appels' = appels \cup {b} /\ UNCHANGED <<auteursDe, categoriesDe, page>>
      /\ nbAppels' = nbAppels + 1 /\ nbAppels < MaxAppels
      /\ UNCHANGED livres
  BY <1>1 DEF Envoyer, catalogue, Fait
<1>3. /\ b.n = nbAppels + 1 /\ b.route = route /\ b.q = q /\ b.servi = FALSE
      /\ b.rep = {}
  BY <1>1 DEF Fait
<1>4. b = Fait(b.n, b.route, b.q, b.servi, b.rep)
  BY <1>1 DEF Fait
<1>5. MaxAppels \in Nat /\ nbAppels \in 1 .. MaxAppels
  BY RechercheAssumption DEF InvRecherche
<1>6. Juste(b)
  BY <1>3, <1>4, <1>5 DEF Juste
<1>7. \A a \in appels' : Juste(a)'
  BY <1>2, <1>6, CatalogueStable DEF InvRecherche
<1>8. \A a \in appels' : a.n \in 1 .. nbAppels'
  BY <1>2, <1>3, <1>5 DEF InvRecherche
<1>9. nbAppels' \in 1 .. MaxAppels
  BY <1>2, <1>5
<1> QED
  BY <1>2, <1>7, <1>8, <1>9, CatalogueStable DEF InvRecherche

\* A call is answered.
LEMMA ServirJuste ==
    ASSUME InvRecherche, NEW a \in appels, Servir(a)
    PROVE  InvRecherche'
<1>1. Juste(a) /\ Catalogue /\ a.n \in 1 .. nbAppels
  BY DEF InvRecherche
<1>2. PICK rep : rep = IF a.route = "tous" THEN findAll ELSE searchLivres(a.q)
  OBVIOUS
<1>3. Bonne(rep, a.q)
  BY <1>1, <1>2, RechercheJuste, FindAllJuste, RechercheFiltree, FindAllFiltree
     DEF Juste, Bonne
<1>4. PICK b : b = Fait(a.n, a.route, a.q, TRUE, rep)
  OBVIOUS
<1>5. [a EXCEPT !.servi = TRUE, !.rep = rep] = b
  <2>1. DOMAIN a = {"n", "route", "q", "servi", "rep"}
    BY <1>1 DEF Juste, Fait
  <2>2. a = [c \in {"n", "route", "q", "servi", "rep"} |-> a[c]]
    BY <1>1 DEF Juste, Fait
  <2> DEFINE d == [a EXCEPT !.servi = TRUE, !.rep = rep]
  <2>3. d = [c \in DOMAIN a |-> IF c = "rep" THEN rep ELSE IF c = "servi" THEN TRUE ELSE a[c]]
    BY <2>1, <2>2
  <2> HIDE DEF d
  <2>4. b = [c \in {"n", "route", "q", "servi", "rep"} |-> b[c]]
    BY <1>4 DEF Fait
  <2>5. /\ b["n"] = a["n"] /\ b["route"] = a["route"] /\ b["q"] = a["q"]
        /\ b["servi"] = TRUE /\ b["rep"] = rep
    BY <1>4 DEF Fait
  <2>6. d = b
    BY <2>1, <2>3, <2>4, <2>5
  <2> QED
    BY <2>6 DEF d
<1>6. /\ appels' = (appels \ {a}) \cup {b}
      /\ UNCHANGED <<auteursDe, categoriesDe, page, nbAppels, livres>>
  BY <1>2, <1>5 DEF Servir, catalogue
<1>7. /\ b.n = a.n /\ b.route = a.route /\ b.q = a.q /\ b.servi = TRUE
      /\ b.rep = rep
  BY <1>4 DEF Fait
<1>8. b = Fait(b.n, b.route, b.q, b.servi, b.rep)
  BY <1>4 DEF Fait
<1>9. Juste(b)
  BY <1>1, <1>3, <1>7, <1>8 DEF Juste
<1>10. \A c \in appels' : Juste(c)' /\ c.n \in 1 .. nbAppels'
  BY <1>1, <1>6, <1>7, <1>9, CatalogueStable DEF InvRecherche
<1> QED
  BY <1>6, <1>10, CatalogueStable DEF InvRecherche

\* An answer is shown.
LEMMA RecevoirJuste ==
    ASSUME InvRecherche, NEW a \in appels, Recevoir(a)
    PROVE  InvRecherche'
<1>1. Juste(a)
  BY DEF InvRecherche
<1>2. /\ appels' \subseteq appels /\ livres' = a.rep
      /\ UNCHANGED <<auteursDe, categoriesDe, page, nbAppels>>
  BY DEF Recevoir, catalogue
<1>3. livres' \subseteq Fiche
  BY <1>1, <1>2 DEF Juste, Bonne
<1>4. \A c \in appels' : Juste(c)' /\ c.n \in 1 .. nbAppels'
  BY <1>2, CatalogueStable DEF InvRecherche
<1> QED
  BY <1>2, <1>3, <1>4, CatalogueStable DEF InvRecherche

\* Steps after which fewer calls are under way and nothing else has changed.
LEMMA ResteJuste ==
    ASSUME InvRecherche, appels' \subseteq appels,
           UNCHANGED <<auteursDe, categoriesDe, page, nbAppels, livres>>
    PROVE  InvRecherche'
<1>1. \A c \in appels' : Juste(c)' /\ c.n \in 1 .. nbAppels'
  BY CatalogueStable DEF InvRecherche
<1> QED
  BY <1>1, CatalogueStable DEF InvRecherche

\* The invariant holds when the page opens.
LEMMA RechercheDepart == Init => InvRecherche
<1> SUFFICES ASSUME Init
             PROVE  InvRecherche
  OBVIOUS
<1>1. PICK b : b = Fait(1, "tous", Tous, FALSE, {})
  OBVIOUS
<1>2. /\ appels = {b} /\ nbAppels = 1 /\ livres = {}
      /\ Catalogue /\ page \in {"accueil", "liste"}
  BY <1>1 DEF Init, Fait, Catalogue
<1>3. /\ b.n = 1 /\ b.route = "tous" /\ b.q = Tous /\ b.servi = FALSE /\ b.rep = {}
  BY <1>1 DEF Fait
<1>4. b = Fait(b.n, b.route, b.q, b.servi, b.rep)
  BY <1>1 DEF Fait
<1>5. Juste(b) /\ b.n \in 1 .. nbAppels
  BY <1>2, <1>3, <1>4, TousType DEF Juste
<1>6. nbAppels \in 1 .. MaxAppels
  BY <1>2, RechercheAssumption
<1> QED
  BY <1>2, <1>5, <1>6 DEF InvRecherche

\* Every step keeps it.
LEMMA RechercheTient == InvRecherche /\ [Next]_vars => InvRecherche'
<1> SUFFICES ASSUME InvRecherche, [Next]_vars
             PROVE  InvRecherche'
  OBVIOUS
<1>1. CASE rechercher
  <2>1. PICK q \in Saisissables : Envoyer("recherche", q)
    BY <1>1 DEF rechercher
  <2>2. q \in Criteres
    BY DEF Saisissables
  <2> QED
    BY <2>1, <2>2, EnvoyerJuste
<1>2. CASE reinitialiser
  BY <1>2, EnvoyerJuste, TousType DEF reinitialiser
<1>3. ASSUME NEW a \in appels, Servir(a)
      PROVE  InvRecherche'
  BY <1>3, ServirJuste
<1>4. ASSUME NEW a \in appels, Recevoir(a)
      PROVE  InvRecherche'
  BY <1>4, RecevoirJuste
<1>5. ASSUME NEW a \in appels, Echouer(a)
      PROVE  InvRecherche'
  BY <1>5, ResteJuste DEF Echouer, catalogue
<1>6. CASE Lire \/ UNCHANGED vars
  BY <1>6, ResteJuste DEF Lire, vars, catalogue
<1> QED
  BY <1>1, <1>2, <1>3, <1>4, <1>5, <1>6 DEF Next

\* For every catalogue, every form and every order of calls and answers, each
\* answer of the server holds exactly the books that meet the criteria of its
\* call, each once.
THEOREM RechercheToujoursExacte == Spec => []RechercheExacte
<1>1. InvRecherche => RechercheExacte
  <2> SUFFICES ASSUME InvRecherche, NEW a \in appels, a.servi
               PROVE  Exacte(a.rep, a.q)
    BY Zenon DEF RechercheExacte, Exacte
  <2>1. Juste(a)
    BY DEF InvRecherche
  <2> QED
    BY <2>1, Zenon DEF Juste, Bonne
<1> QED
  BY <1>1, RechercheDepart, RechercheTient, PTL DEF Spec

\* For every catalogue and every form, each book of an answer comes with its
\* own authors and categories that match, although they are read off the rows
\* of a product that the criteria on both tables have filtered.
THEOREM CollectionsToujoursFiltrees == Spec => []CollectionsFiltrees
<1>1. InvRecherche => CollectionsFiltrees
  <2> SUFFICES ASSUME InvRecherche, NEW a \in appels, a.servi
               PROVE  Filtree(a.rep, a.q)
    BY Zenon DEF CollectionsFiltrees, Filtree
  <2>1. Juste(a)
    BY DEF InvRecherche
  <2> QED
    BY <2>1, Zenon DEF Juste, Bonne
<1> QED
  BY <1>1, RechercheDepart, RechercheTient, PTL DEF Spec

\* The pages keep their types: calls are numbered within the bound, and every
\* answer is a set of serialised books of the catalogue.
THEOREM RechercheBienTypee == Spec => []RechercheTypeOK
<1>1. InvRecherche => RechercheTypeOK
  <2> SUFFICES ASSUME InvRecherche
               PROVE  RechercheTypeOK
    OBVIOUS
  <2>1. ASSUME NEW a \in appels
        PROVE  /\ a.n \in 1 .. MaxAppels /\ a.route \in {"tous", "recherche"}
               /\ a.servi \in BOOLEAN
               /\ a.rep \subseteq Fiche
    <3>1. Juste(a) /\ a.n \in 1 .. nbAppels /\ nbAppels \in 1 .. MaxAppels
      BY DEF InvRecherche
    <3>2. a.n \in 1 .. MaxAppels
      BY <3>1, RechercheAssumption
    <3> QED
      BY <3>1, <3>2 DEF Juste, Bonne
  <2> QED
    BY <2>1 DEF RechercheTypeOK, InvRecherche, Catalogue
<1> QED
  BY <1>1, RechercheDepart, RechercheTient, PTL DEF Spec
=============================================================================
