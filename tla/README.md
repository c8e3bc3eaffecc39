# Specification of the library application

TLA+ modules for the application in `src/`: a Symfony back end
(`backend_biblio`) with a JSON API for members and EasyAdmin screens for
librarians, on one MariaDB database, and an Angular front end
(`frontend_biblio`). The modules of this directory model reservations and loans
under concurrent requests, the catalogue and its search, the delay rule and the
dashboard, and the pages and the session of the front end with calls that are
answered late, out of order or not at all. TLC checks them on small instances and
TLAPS proves the main properties for every size.

## 1. The system

| Part | Code | State | Operations | What is hard about it |
|---|---|---|---|---|
| Reservation API | `ReservationController`, `ReservationsRepository` | table `reservations` | create, list, show, delete | create is five separate statements; limits exist only in PHP |
| Expiry command | `ExpireReservationsCommand` | `reservations` | purge | runs beside the requests |
| Loan screens | `EmpruntCrudController` | table `emprunt`, column `livre.emprunt_id` | new, edit, delete | checks and insert are separate; the pointer duplicates `dateRetour` |
| Other screens | `LivreCrudController`, `UtilisateurCrudController`, `ReservationsCrudController` | `livre`, `utilisateur`, `reservations` | EasyAdmin's own | cascades and foreign keys in the middle of other requests |
| Dashboard, delay rule | `DashboardController`, `Emprunt::estEnRetard` | reads | counts | 15-day boundary, counts from separate statements |
| Loan API | `Api/EmpruntController` | reads | list, show; create never saves a loan | none |
| Search | `LivreController`, `RechercheRepository` | reads | search | optional criteria, empty and "0" values |
| Catalogue | `Auteur`, `Categorie`, `Livre` | many-to-many tables | add, remove | two sides of one association |
| Accounts, sessions | `AuthController`, `security.yaml`, `AdminAuthenticator` | account, token | login, profile | the token names the account by e-mail |
| Book list page | `livres-list.ts` | list, counter, pending id | search, reserve | answers out of order, stale counter |
| Session service | `auth.service.ts`, interceptor, guard | token, cached user | login, logout, load | late answers after logout |
| Member's pages | `mes-reservations.ts`, `mes-emprunts.ts`, `mon-profil.ts`, `livre-detail.ts` | lists | cancel, save | cancel against expiry |

The parts meet in the database. A member's reservation and a librarian's loan of
the same book go through different controllers that each check, then write, and
nothing but the order of their statements keeps them apart: no transaction spans
a check and its write, no lock is taken, and the schema has no unique key on the
book of a reservation or of a running loan.

What each part should guarantee: the API, that a member keeps to the limit, that
a book is reserved once, and that a reservation is not lost; the loan screens,
that a book is lent once, to the member who reserved it, within the limit, and
that the availability shown is the real one; the schema, that no row refers to a
missing one. `PROJECT.json` lists the hazards line by line.

## 2. Modules

| Module | Models |
|---|---|
| `Base` | the tables, the state of the workers, initial state, clock |
| `ReservationApi` | `ReservationController`, `ReservationsRepository`, `ExpireReservationsCommand` |
| `EmpruntAdmin` | `EmpruntCrudController` |
| `AdminCrud` | deletions and edits of the other screens that reach loans and reservations |
| `Bibliotheque` | the composition and its properties |
| `Chevauchement` | `Bibliotheque` with a history of what each request met when it started |
| `StatutLivres` | the abstract promise: one status per book |
| `LivresListe` | reserve buttons of `livres-list.ts`, composed with `Bibliotheque` |
| `TableauDeBord` | `Emprunt::estEnRetard`, `DashboardController`, the badge of "Mes emprunts", on top of `Bibliotheque` |
| `Session` | `auth.service.ts`, interceptor, login form, `mon-profil.ts`, `AuthController` |
| `RechercheLivres` | `searchLivres` and the searches of `home.ts` and `livres-list.ts` |
| `Catalogue` | screens of books, authors and categories, and the join tables |
| `MC...` | symmetries for TLC, one module for each specification that is run |
| `TablesProofs` | `Bibliotheque`, any workers: types, foreign keys, reasons for a reservation to go |
| `BornesProofs` | `Bibliotheque`, n workers: bounds on reservations and loans |
| `DisponibiliteProofs` | `Chevauchement`, any workers; lemmas, one worker: what each step does to the status of a book |
| `SequentielProofs` | `Bibliotheque`, one worker: exact availability, `StatutLivres` implemented |
| `ListeProofs`, `TableauProofs`, `RechercheProofs` | theorems about `LivresListe`, `TableauDeBord`, `RechercheLivres` |
| `SessionCatalogueProofs` | theorems about `Session` and `Catalogue` |

**Grain.** One step is one SQL statement outside `flush()` (autocommit) or one
`flush()` (a transaction), together with the PHP code since the statement
before. The local variables of a controller method live in `req[w]`, the request
of worker `w`; `etape` names the statement that comes next.

| Step | Code |
|---|---|
| `CreerDebut` | `create` to line 59: member and book loaded, `emprunteLu` is what `getEmprunt()` will answer |
| `CreerPurge` | lines 61-62, `$cutoff` and the DELETE |
| `CreerCompte` | lines 64-71, the count and the two refusals it and `emprunteLu` decide |
| `CreerConflit` | lines 73-76 |
| `CreerInsere` | lines 78-86, refused by a foreign key when book or member is gone |
| `ListerReservations`, `ExpirerReservations` | the purge of `index` and of the command |
| `Annuler` | `delete` |
| `PretDebut`, `PretReservation`, `PretLimite`, `PretEnCours`, `PretInsere` | `persistEntity`: form, line 38, 44, 58, flush |
| `EditDebut`, `EditLivre`, `EditFlush` | `updateEntity`: loan loaded, book and member of the form loaded, flush |
| `SupprPret`, `SupprLivre`, `AdminSupprimeResa`, `AdminEditeResa` | EasyAdmin's delete and edit |
| `SupprUtilisateurDebut`, `SupprUtilisateurFlush` | delete of an account: `orphanRemoval` loads the rows, flush deletes them by id |

**Database.** A table is a set of rows; `AUTO_INCREMENT` counters never go back.
`flush()` writes only changed columns (`Modifie`); an UPDATE or DELETE of a row
that is gone affects nothing; a failing foreign key rolls the whole `flush()`
back and the request ends with an error. `livre.emprunt_id` becomes NULL when its
loan is deleted. Lock waits inside a transaction are not modelled: a transaction
is atomic.

**Abstractions.** Time counts days and only `Tick` advances it, between any two
statements. `dateRetour` is kept as set or not set (`rendu`). `dateEmprunt`,
names, texts and pictures are left out. Answers 400, 403 and 404 and all other
reading requests change nothing and are stutters; so is the "new" page of the
Reservations screen, whose default form has no member and book and violates NOT
NULL. The load of member and book at the start of a request is one step: nothing
the request does depends on their order. The two loads of an account deletion are
one step: a row that appears between them is refused or deleted by the flush in
the same way. Batch deletion is a sequence of deletions. `findOneBy` without an
order may return any matching row.

**Pages.** The signals of a component are variables. A call is sent, handled and
answered in separate steps, and its callbacks are actions; `subscribe` is never
cancelled, so answers arrive in any order. With `Pannes` a call may fail before or
after the back end has handled it. Leaving a page makes its calls orphans: the
back end may still handle them, nobody hears the answer. In `LivresListe` the back
end handles the call by the very steps of `ReservationApi`, while other requests
(`AutreEtape`) go on: reservations, loans and deletions of books, as `Voisins` says.

| Module | Actions and code |
|---|---|
| `LivresListe` | `Ouvrir` (ngOnInit), `reserver`, `Recevoir...`/`Echouer...` (callbacks), `getMessage`, `Servir...` (controller) |
| `Session` | `onSubmit`, `handleLoginSuccess`, `logout`, `getToken` with its clearing of an expired session (`EffetGetToken`), `Recharger` (constructor), `sauvegarder`, callbacks; `ServirPutCharge`, `ServirPutFlush` (`AuthController::update`) |
| `TableauDeBord` | loans with their dates; `TableauSelect`, `TableauBoucle`, `TableauCompte` (the statements of the dashboard) |
| `RechercheLivres` | `Lignes` (the two left joins), `Choisies` (criteria), `Hydrate` (objects from rows), `rechercher`, `reinitialiser` |
| `Catalogue` | `NouveauDebut/Flush`, `EditDebut`, `EditChamp` (one association field), `EditFlush` (difference to the loaded collection), creations, deletions with their cascades |

Abstractions of these modules: the clock of `TableauDeBord` ticks `Jour` times a
day. A text criterion of a search is the set of rows it matches. A token is an
e-mail and an expiry. `Recharger` sends the call of `/user/me` that the
constructor of `AuthService` makes; the interceptor asks for that service while it
is being constructed, and where this makes the call fail at once the case is among
those of `Echouer`, so that the model allows more than happens. The join tables of authors and categories are one relation.
Variables marked history in a module record the past for a property and
influence no step.

**Environment.** `Editions` and `DatesEditables` say what librarians do with the
edit forms: `"rouvrir"` empties `dateRetour` (also what a form loaded before a
return does when it is submitted after it), `"deplacer"` changes the book,
`"reattribuer"` the member. Creating books and accounts adds nothing to what
starting with all of them shows, since none is touched before it is used.
`Init` is the database after the fixtures: books and accounts, no loan, no
reservation.

## 3. Runs

Bounds: `MaxResa` and `MaxEmprunts` bound rows ever inserted (counting requests
under way, so that no started request is blocked by a bound), `MaxTemps` the
clock. The code's numbers 7, 3 and 5 are the constants `Expiration`,
`LimiteResa`, `LimiteEmprunts`; runs use 1 or 2 unless stated, the smallest values
at which being at, below and above the limit, and before, on and after the day of
expiry, all happen. `MaxAppels` bounds the calls of a page. What is
interchangeable is declared symmetric, except in runs with a liveness property.
Deadlock is checked except in `catalogue`, which stops when its ids are used up.

| Run | Instance | Result |
|---|---|---|
| `reservations_concurrentes` | 3 books, 2 members, 2 workers, 4 reservations, 3 days | the checks of `create()` are worth the limit plus one per further worker; one purge serves the whole request; reservations go only for a reason |
| `prets_concurrents` | 2 workers, 3 loans | the same for `persistEntity` |
| `bibliotheque_sequentielle` | 1 worker, 2 reservations, 3 loans, borrower corrections, edited dates, 3 days | availability exact, no book reserved and lent, `StatutLivres` implemented: reservations and loans start only below the limit |
| `administration` | 2 workers, 1 reservation, 1 loan, every edit and deletion, edited dates, 2 days | types, foreign keys, reservations go only for a reason, a book is both lent and reserved only by requests that overlap |
| `page_reservation` | 2 books, 1 member, 1 worker, 3 calls, failures, loans, deleted books | the button waits only for a call under way; success is announced only for an inserted row; the refusals for the limit and for a loan name the check that made them |
| `page_bouton` | the same page with limit 2, 3 reservations, loans, failures, fairness | "Reservation..." ends; the refusals for a loan and for an earlier reservation name the check that made them |
| `session` | 1 account, 2 e-mails, 4 calls, expiry, failures, e-mail changed here, and elsewhere to `Ailleurs`, fairness | signals and storage agree; while sessions do not overlap the page shows its own account and a session ends only for a reason; saving ends |
| `retards` | 2 ticks a day, delay 1 day, 2 loans, 4 ticks | late at most one day early and never late to notice; the dashboard's figure is off by at most the loans ended meanwhile |
| `recherche` | every catalogue of 2 books, 2 authors, 2 categories, every form, 2 calls | the rows of the joins select exactly the matching books, with their own matching authors and categories |
| `catalogue` | 2 books, 1 author, 1 category, 2 librarians | links are to existing rows; a save is whole but for what the other changed |

The largest (`page_reservation`, `retards`, `session`, `administration`) have about
one million states and take about a minute. Three calls are enough for the book list, its own list
and two reservations: a signal shared by all buttons, or overwritten by a late
answer, needs two calls to go wrong, and a call needs one competitor. Four calls
are a login, its `/user/me`, and the two of the profile. An address that is taken
needs a second account: `session_deux_comptes.cfg` below. With its limit
of one, `page_reservation` never refuses a book as already reserved (the limit comes
first), and `page_bouton` never reaches its limit of two within three calls: between
them every refusal of `create()` reaches the page.

Two workers are enough for every race of the code: each check guards one insert,
and a race needs one other actor between them. The bounds that grow with the
number of workers are proved for any number of them. `administration` inserts one
reservation: that a loan does not remove the reservation that replaced the one it
has read is left to the theorem `DisparitionCorrecte`.

Two runs show what the application says and the code does not keep (the property
is violated; `PROJECT.json` quotes the lines):

| Run | What happens |
|---|---|
| `reouverture_double_pret` | one worker: an old loan reopened beside the current one |
| `connexion_demandee` | after a change of e-mail the token names nobody, and a member shown as logged in is told to log in |

**Further configurations.** The directory keeps configurations beside the runs of
`PROJECT.json`, for `tlc -config <name>.cfg <module>`. Two pass:
`page_deux_workers` (`MCLivresListe`: the invariants of `page_reservation` with two
workers) and `session_deux_comptes` (`MCSession`: the safety properties with two
accounts, whose addresses are taken). The others end in a counterexample:

| Configuration | Module | What happens |
|---|---|---|
| `limite_resa_depassee` | `MCBibliotheque` | limit 3: two requests count two, both insert (`ReservationController.php:64`) |
| `livre_reserve_deux_fois` | `MCBibliotheque` | two members find the book free, both insert (`:73`) |
| `reserve_pendant_pret` | `MCBibliotheque` | a loan is registered while a reservation request holds the book as it was (`:69`) |
| `reattribution_limite` | `MCBibliotheque` | one worker: a running loan given to a member at the limit (`EmpruntCrudController.php:81`) |
| `pret_deplace` | `MCBibliotheque` | one worker: a loan moved to another book, the first stays unavailable (`:84`) |
| `refus_reservation_expiree` | `MCBibliotheque` | seven days: an expired reservation still refuses a loan (`:38`) |
| `page_limite` | `MCLivresListe` | a list read after an insert and received before its success counts it twice (`livres-list.ts:92`) |
| `page_deja_reserve` | `MCLivresListe` | a member's own reservation is reported as another's (`:115`) |
| `page_en_cours` | `MCLivresListe` | a second click enables the button of a call under way (`:86`) |
| `affichage_compte` | `MCSession` | an answer of `/user/me` from an earlier session is shown in the next (`auth.service.ts:64`) |
| `profil_erreur` | `MCSession` | the error of a failed load is in no visible part of the template (`mon-profil.ts:38`) |
| `retard_apres_delai` | `MCTableauDeBord` | a loan dated midnight is late before its fifteen days (`Emprunt.php:100`) |
| `retards_en_cours` | `MCTableauDeBord` | more late loans than running ones on the dashboard (`DashboardController.php:50`) |
| `badge_en_cours` | `MCTableauDeBord` | a late loan has the badge "En cours" (`mes-emprunts.html:30`) |
| `recherche_desordre` | `MCRechercheLivres` | the answer of an earlier search is shown for the later one (`home.ts:47`) |
| `auteurs_partiels` | `MCRechercheLivres` | a search by author leaves co-authors out of the entry (`RechercheRepository.php:38`) |

**Fairness.** `ListeFair` (`page_bouton`) has weak fairness on the next step of each
worker that is serving a request: PHP runs a request to its end, waits for nobody
but the database, and every statement of the model is enabled once reached. It
adds that a waiting call is picked up (strong fairness: a worker that is free again
and again takes it from the queue of the web server) and that the browser delivers
each answer. Nothing is assumed of members, librarians, the clock, the expiry
command or failures of the network. `ProfilFair` assumes, with
weak fairness, that the PUT of the profile is handled and its answer delivered:
`HttpClient` runs exactly one of the two callbacks of a call.

**Faulty variants.** Before an operator stands, where one is used, a variant with
a plausible fault (a limit compared with `>`, a purge of the member's own rows, a
missing `remove()`). Replacing the operator by it makes TLC report the property it
is paired with in `PROJECT.json`.

## 4. Theorems

Each is proved from the named assumptions on the constants of its module only
(`ConstantesAssumption`: finitely many workers, limits at least one;
`ListeAssumption`, `TableauAssumption`, `SessionAssumption`, `RechercheAssumption`,
`CatalogueAssumption`) and what the theorem itself assumes, for any number of
books, members, workers, accounts, librarians and calls.

**The tables** (`TablesProofs`, `BornesProofs`, and `DisponibiliteProofs` for the last).

* `TypeCorrecte`: `Spec => []TypeOK`. Each stage determines the shape of the
  request (`FormeRequete`), which the other proofs use.
* `IntegriteCorrecte`: `Spec => []IntegriteReferentielle`. Inductive with the
  types: each write checks its own keys at the moment of the write, whatever was
  read before.
* `DisparitionCorrecte`: `Spec => DisparitionJustifiee`. Loans and account
  deletions remove rows by ids read in earlier statements. The invariant `InvIds`
  says that ids are unique and given out once, so that a remembered id names the
  row that was read or none (`RequeteSure`); `InvEmprunts` that an inserted loan is a
  new row.
* `ReservationsBornees`, when dates are not edited by hand: `PurgeTient`,
  `LimiteResaParWorker` and `ReservationsParLivre`. The bound on rows alone is not
  inductive; rows plus requests that have passed the check is (`InvResa`): a check is
  passed only below the limit, by one of n workers, and an insert turns a request
  into a row. It rests on `PurgeTient`: without it the count, which looks only at
  rows newer than `$cutoff`, would say nothing about the table.
* `UnWorkerRespecteLimites`: with one worker the limit and the single
  reservation of a book hold as the messages state them.
* `EmpruntsBornes`, when edits only return loans: `LimiteEmpruntsParWorker` and
  `EmpruntsParLivre`, along the same argument: running loans plus requests that have
  passed the check (`InvPret`).
* `UnWorkerRespectePrets`: with one worker the limit of loans and the single
  running loan hold exactly.
* `ConflitsParChevauchement`: `ChevSpec => ConflitParChevauchement`, with every edit and
  deletion. No check excludes that a book is reserved while it is lent; what the
  checks do exclude is that this happens without two requests that overlap. `Vu` says
  what a request past its check knows of the moment it started, which stays true
  because a reservation keeps its id and its book and a new one has a later id
  (`ResasSuivent`).

**One worker** (`DisponibiliteProofs`, `SequentielProofs`), dates not edited by hand,
edits that return a loan or correct its borrower.

* `SequentielExact`: `DisponibiliteExacte` and `PasReserveEtPrete`. The invariant
  `InvSeq` adds what the one request under way has read and still relies on
  (`Acquis`): with no other worker it is still so when the request writes. That a
  book is reserved once comes from `InvResa`.
* `PromesseTenue`: `Spec => TientPromesse`, the refinement of `StatutLivres`. First,
  every step of the tables does one of five things to running loans, reservations
  and books (`PasStatut`: release some, reserve, lend, correct a borrower, withdraw).
  Second, `StatutJuste` reads the status of a book off its rows without the `CHOOSE`
  of the refinement mapping, which `InvSeq` makes unambiguous. So each of the five is
  the abstract step of that name or changes no status. Releasing may free several
  books at once (a purge), and correcting a borrower looks at no limit
  (`reattribution_limite.cfg`); reserving and lending start below the limit. The limits of the abstract
  steps count books and those of the code count rows; `InvPromesse` adds to `InvSeq`
  that a request past its check is still below the limit.

**Pages and screens.**

* `ListeImplementeTables`, `TableauImplementeTables`: `ListeSpec => Spec` and
  `TableauSpec => Spec`. What happens to the library under the book list or the
  dashboard is what may happen to it alone, so the theorems about the tables hold
  there.
* `ListeBienTypee`, `BoutonsFideles`, `RefusToujoursFidele`: `ListeTypeOK`;
  `BoutonAttend` and `SuccesInsere`; `RefusFidele`. The invariant follows a call from
  the worker that handles it (`InvSert`: it runs `create()` for this member) to its
  answer (`InvPage`: an answer of success has inserted its row).
* `TableauBienType`, `RetardToujoursEncadre`: `TableauTypeOK` and `RetardEncadre`. The
  date travels from the form through the request to the row; `SaisieJuste` and
  `DateJuste` say at each stage how far it may be from the moments of submission and
  insertion, and `BornePrets` that ids are left for the loans under way.
* `RetardsToujoursEncadres`, when no loan is reopened: `RetardsEncadres`. Until they
  are counted, the loans the dashboard has loaded include all that ran then and still
  do (`InvLus`), because a loan that has ended does not start again (`InvEdits`).
* `RechercheToujoursExacte`: `RechercheExacte`. The invariant says of every answered
  call that it holds the right books. The core is the lemma on the joins
  (`JointureGauche`, `LigneChoisie`): a book has a row for every pair of an author and
  a category, or NULL in place of a missing one, so that criteria on both tables
  meet on one row exactly when each is met.
* `CollectionsToujoursFiltrees`: `CollectionsFiltrees`, from the same invariant
  (`Bonne`). For every author that matches, a row with a category that matches is left
  whenever the book is answered at all, and the other way round, so that filtering
  one table takes nothing away from the collection of the other.
* `RechercheBienTypee`: `RechercheTypeOK`.
* `SessionCoherente`: `SessionTypeOK`, `ConnecteSiJeton`, `AffichageSiNet`. The
  invariant follows the calls of `/user/me` under way: as long as sessions do not run
  into one another, each belongs to the present token.
* `FinJustifiee`: `SessionFinie`, from the same invariant.
* `CatalogueBienType`, `LiensToujoursIntegres`, `SelectionToujoursTenue`:
  `CatalogueTypeOK`, `LiensIntegres`, `SelectionTenue`. `Suivie` says that the
  collections a form has loaded agree with the join tables but for rows others have
  changed since; the flush, which writes differences, then leaves the book with the
  selection but for those rows (`Tenue`).

**Only model-checked.** `SauvegardeFinit` and `BoutonRevient` are liveness under
fairness, which is beyond this prover. Every invariant and every action property of
the passing runs has a theorem; the theorems about one worker leave out the
hand-edited dates that `bibliotheque_sequentielle` allows. The violated properties of
section 3 are counterexamples that TLC found.

## 5. Not modelled

* The page "Mes réservations" and the page of a book: one list and one cancel call,
  and two chained reads. `PROJECT.json` lists their hazards; the statements of
  `delete()` that cancelling runs are in `ReservationApi`.
* Deletion of the member's account while the book list is open.
* Admin login and roles: form login and access rules are Symfony's, and access
  control is not a subject of this specification.
* Details of search texts: letter case, LIKE wildcards, the value "0" (empty to
  PHP) and the answer 400 to a date that does not parse. They concern single
  strings, which tests reach.
* Several browser tabs that share `localStorage`: `AuthService` has no handler for
  its events, so each tab follows `Session` with a token that changes under it.
* `Api/EmpruntController::create`: its setters get raw request values and fail with
  a TypeError; null passes them, and then `flush()` fails on the NOT NULL columns.
  Nothing is saved either way. `LivreRepository::findByCriteria` and
  `searchByCategory` have no caller.
* Columns that only carry text, telephone and address, pictures and their upload,
  password hashing, layout and wording.
* Adminer, the bundled MariaDB distribution and generated configuration.
