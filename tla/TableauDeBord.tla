--------------------------- MODULE TableauDeBord ---------------------------
(***************************************************************************)
(* Late loans: Emprunt::estEnRetard, the figures of the dashboard          *)
(* (DashboardController) and the page "Mes emprunts", on top of the loans  *)
(* that librarians enter meanwhile.  Here the clock ticks Jour times a     *)
(* day, since the loan form stores midnight and estEnRetard compares       *)
(* instants.  The dates of loans are not edited afterwards.                *)
(***************************************************************************)
EXTENDS Bibliotheque

CONSTANTS
    Jour,   \* ticks of the clock per day
    Delai   \* days until a loan is late ('+15 days')

ASSUME TableauAssumption == Jour \in Nat \ {0} /\ Delai \in Nat

VARIABLES
    saisie,       \* what the form of each worker's new loan holds: the date,
                  \*   and (history) when it was submitted
    dateEmprunt,  \* column emprunt.date_emprunt, by loan id
    heurePret,    \* history: when the loan was submitted and inserted
    tableau,      \* the request for the dashboard: its stage, the ids of the
                  \*   running loans it has loaded, the late ones it has
                  \*   counted, and (history) the last id when it loaded them
    chiffres,     \* the figures last shown
    badges        \* page "Mes emprunts": badge by loan id

dates == <<saisie, dateEmprunt, heurePret>>
ecrans == <<tableau, chiffres, badges>>
tableauVars == <<vars, dates, ecrans>>

Ids == 1 .. MaxEmprunts

\* An empty date field.
SansDate == -1

AucunTableau == [etape |-> "repos", lus |-> {}, retards |-> 0, dernier |-> 0]

TableauInit ==
    /\ Init
    /\ saisie = [w \in Workers |-> [date |-> SansDate, debut |-> 0]]
    /\ dateEmprunt = [i \in Ids |-> 0]
    /\ heurePret = [i \in Ids |-> [debut |-> 0, fin |-> 0]]
    /\ tableau = AucunTableau
    /\ chiffres = [enCours |-> 0, retards |-> 0]
    /\ badges = [i \in Ids |-> "aucun"]

-----------------------------------------------------------------------------
(***************************************************************************)
(* Loans and their dates.                                                  *)
(***************************************************************************)

\* Faulty variant: the time of day is kept, on the day before.
MinuitVeille(t) == t - Jour

\* A DateField holds no time of day.
Minuit(t) == t - (t % Jour)

\* Faulty variant: the day on which the period ends counts as late as a whole.
EchuVeille(i) == maintenant > dateEmprunt[i] + (Delai - 1) * Jour

\* new \DateTime() > dateEmprunt '+15 days'
Echu(i) == maintenant > dateEmprunt[i] + Delai * Jour

estEnRetard(e) == ~e.rendu /\ Echu(e.id)

\* The form of a new loan is submitted with today's date or without any.
PretSaisi(w) ==
    /\ \E u \in Utilisateurs, l \in Livres, rendu \in BOOLEAN :
          PretDebut(w, u, l, rendu)
    /\ \E d \in {Minuit(maintenant), SansDate} :
          saisie' = [saisie EXCEPT ![w] = [date |-> d, debut |-> maintenant]]
    /\ UNCHANGED <<dateEmprunt, heurePret, ecrans>>

\* persistEntity gives a loan without a date the current one before it looks
\* for a running loan of the book.
PretDate(w) ==
    /\ PretEnCours(w)
    /\ saisie' = [saisie EXCEPT ![w].date = IF @ = SansDate THEN maintenant ELSE @]
    /\ UNCHANGED <<dateEmprunt, heurePret, ecrans>>

\* flush() of the loan with its date.
PretEnregistre(w) ==
    /\ PretInsere(w)
    /\ IF seqEmprunt' = seqEmprunt THEN UNCHANGED <<dateEmprunt, heurePret>>
       ELSE /\ dateEmprunt' = [dateEmprunt EXCEPT ![seqEmprunt'] = saisie[w].date]
            /\ heurePret' = [heurePret EXCEPT ![seqEmprunt'] =
                                [debut |-> saisie[w].debut, fin |-> maintenant]]
    /\ UNCHANGED <<saisie, ecrans>>

\* The steps of the loan screens that leave the dates alone, and the clock.
SansEffetSurDates ==
    /\ \/ Tick
       \/ \E w \in Workers :
             \/ PretReservation(w) \/ PretLimite(w)
             \/ \E e \in emprunts, u \in Utilisateurs, l \in Livres, rendu \in BOOLEAN :
                   EditDebut(w, e, u, l, rendu)
             \/ EditLivre(w) \/ EditFlush(w)
       \/ \E e \in emprunts : SupprPret(e)
    /\ UNCHANGED <<dates, ecrans>>

-----------------------------------------------------------------------------
(***************************************************************************)
(* DashboardController::index.                                             *)
(***************************************************************************)

\* Faulty variant: only the loans that are late already are loaded.
TableauSelectRetards ==
    /\ tableau.etape = "repos"
    /\ tableau' = [etape |-> "lu", lus |-> {e.id : e \in {x \in Actifs : estEnRetard(x)}},
                   retards |-> 0, dernier |-> seqEmprunt]
    /\ UNCHANGED <<vars, dates, chiffres, badges>>

\* findBy(['dateRetour' => null])
TableauSelect ==
    /\ tableau.etape = "repos"
    /\ tableau' = [etape |-> "lu", lus |-> {e.id : e \in Actifs},
                   retards |-> 0, dernier |-> seqEmprunt]
    /\ UNCHANGED <<vars, dates, chiffres, badges>>

\* After two statistics, the loop: estEnRetard of the loans as they were
\* loaded, that is running, with the clock of now.
TableauBoucle ==
    /\ tableau.etape = "lu"
    /\ tableau' = [tableau EXCEPT !.etape = "compte",
                                  !.retards = Cardinality({i \in tableau.lus : Echu(i)})]
    /\ UNCHANGED <<vars, dates, chiffres, badges>>

\* count(['dateRetour' => null]), and the page is rendered.
TableauCompte ==
    /\ tableau.etape = "compte"
    /\ tableau' = AucunTableau
    /\ chiffres' = [enCours |-> Cardinality(Actifs), retards |-> tableau.retards]
    /\ UNCHANGED <<vars, dates, badges>>

-----------------------------------------------------------------------------
(***************************************************************************)
(* The page "Mes emprunts".                                                *)
(***************************************************************************)

\* EmpruntController::index answers with the group emprunt:read: id, dates and
\* book.  enRetard is not among them, and undefined in the page.
enRetard(e) == FALSE

Badge(e) == IF enRetard(e) THEN "En retard" ELSE "En cours"

\* ngOnInit: the page shows the loans of the answer.
MesEmprunts ==
    /\ badges' = [i \in Ids |->
          IF \E e \in emprunts : e.id = i
          THEN Badge(CHOOSE e \in emprunts : e.id = i) ELSE "aucun"]
    /\ UNCHANGED <<vars, dates, tableau, chiffres>>

TableauNext ==
    \/ SansEffetSurDates
    \/ \E w \in Workers : PretSaisi(w) \/ PretDate(w) \/ PretEnregistre(w)
    \/ TableauSelect \/ TableauBoucle \/ TableauCompte
    \/ MesEmprunts

TableauSpec == TableauInit /\ [][TableauNext]_tableauVars

-----------------------------------------------------------------------------
(***************************************************************************)
(* Properties.                                                             *)
(***************************************************************************)

\* Type invariant.
TableauTypeOK ==
    /\ saisie \in [Workers -> [date : Nat \cup {SansDate}, debut : Nat]]
    /\ dateEmprunt \in [Ids -> Nat]
    /\ heurePret \in [Ids -> [debut : Nat, fin : Nat]]
    /\ tableau \in [etape : {"repos", "lu", "compte"}, lus : SUBSET Ids,
                    retards : Nat, dernier : Nat]
    /\ chiffres \in [enCours : Nat, retards : Nat]
    /\ badges \in [Ids -> {"aucun", "En cours", "En retard"}]

\* How exact estEnRetard (Emprunt.php:100) is although the form stores the
\* day and not the hour, and persistEntity fills in the date while it runs: a
\* loan is never late within the period minus one day after it was submitted,
\* and always late once the period has passed since it was inserted.
RetardEncadre ==
    \A e \in Actifs :
        /\ estEnRetard(e) => maintenant - heurePret[e.id].debut > (Delai - 1) * Jour
        /\ maintenant - heurePret[e.id].fin > Delai * Jour => estEnRetard(e)

\* What the dashboard counts as late, although its statements are not one
\* transaction (DashboardController.php:24-46): at least the loans that are
\* late and still running of those inserted before it started, and beyond
\* these at most as many as have ended since.  (No loan is reopened.)
RetardsEncadres ==
    [][TableauBoucle =>
          LET tard == {e \in Actifs : e.id <= tableau.dernier /\ estEnRetard(e)}
              finis == tableau.lus \ {e.id : e \in Actifs}
          IN  tableau'.retards \in
                 Cardinality(tard) .. Cardinality(tard) + Cardinality(finis)]_tableauVars

-----------------------------------------------------------------------------
(***************************************************************************)
(* What the screens say, and the code does not keep.                       *)
(***************************************************************************)

\* 'Un emprunt est considere en retard apres 15 jours.'
\* (dashboard.html.twig:116): not before it has been out for so long.
RetardApresDelai ==
    \A e \in Actifs : estEnRetard(e) => maintenant - heurePret[e.id].debut > Delai * Jour

\* 'Retards detectes' beside 'Emprunts en cours' (dashboard.html.twig:49, 39):
\* late loans are some of the running ones.
RetardsParmiEnCours == chiffres.retards <= chiffres.enCours

\* 'En cours' (mes-emprunts.html:33), the badge of a loan that is not late:
\* the page shows it of loans that are running and not late.
BadgeExact ==
    [][MesEmprunts =>
          \A e \in emprunts :
             badges'[e.id] = "En cours" => ~estEnRetard(e)]_tableauVars
=============================================================================
