---------------------------- MODULE LivresListe ----------------------------
(***************************************************************************)
(* The reserve buttons of the book list page (livres-list.ts and its       *)
(* template), open in the browser of one member, composed with the back    *)
(* end that answers its calls.  The list itself and its search form are    *)
(* module RechercheLivres; here every book has its button on the screen.   *)
(*                                                                         *)
(* An HTTP call is sent, handled by the back end statement by statement,   *)
(* and its answer given to the page in separate steps; nothing orders the  *)
(* answers of two calls.  A call whose page has been left, or which the    *)
(* browser has given up, is no longer vivant: the back end may still       *)
(* handle it, and nobody hears the answer.                                 *)
(***************************************************************************)
EXTENDS Bibliotheque

CONSTANTS
    moi,         \* the member who is logged in
    AucunLivre,  \* null
    Pannes,      \* whether calls may fail on the network
    Voisins,     \* what else goes on in the library, see AutreEtape
    MaxAppels    \* bound: calls the page makes

ASSUME ListeAssumption ==
    /\ moi \in Utilisateurs
    /\ AucunLivre \notin Livres
    /\ Pannes \in BOOLEAN
    /\ Voisins \subseteq {"api", "prets", "livres"}
    /\ MaxAppels \in Nat

VARIABLES
    reservationEnCours,  \* book whose button says 'Reservation...', or null
    messages,            \* message under each book
    nbReservations,      \* what the page believes the member has reserved
    numero,              \* number of the last call sent
    volResas,            \* calls of GET /api/reservations
    volReserver,         \* calls of POST /api/reservation
    sert,                \* call each worker is handling for this page, or 0
    inseres              \* history: books reserved by calls of this page

pageVars == <<reservationEnCours, messages, nbReservations, numero, volResas,
              volReserver, sert, inseres>>
listeVars == <<vars, pageVars>>

\* Answers of create(): 201, the three 409 and the rest (404, 500, no answer).
Refus == {"limite", "emprunte", "reserve"}
Reponse == {"succes", "erreur"} \cup Refus

Message == {"aucun", "effectuee", "deja_reserve", "actuellement_emprunte",
            "limite_atteinte", "erreur"}

AppelResas == [n : Nat, vivant : BOOLEAN, etat : {"envoye", "purge", "repondu"},
               cutoff : Int, nb : Nat]
AppelReserver == [n : Nat, vivant : BOOLEAN, etat : {"envoye", "servi", "repondu"},
                  l : Livres, rep : Reponse]

ListeInit ==
    /\ Init
    /\ reservationEnCours = AucunLivre
    /\ messages = [l \in Livres |-> "aucun"]
    /\ nbReservations = 0
    /\ numero = 0
    /\ volResas = {}
    /\ volReserver = {}
    /\ sert = [w \in Workers |-> 0]
    /\ inseres = {}

Orphelins(vol) == {[a EXCEPT !.vivant = FALSE] : a \in vol}
Change(vol, a, b) == (vol \ {a}) \cup {b}

-----------------------------------------------------------------------------
(***************************************************************************)
(* The page.                                                               *)
(***************************************************************************)

\* ngOnInit of a new page: the router has left the previous one, whose calls
\* go on without it.
Ouvrir ==
    /\ numero < MaxAppels
    /\ numero' = numero + 1
    /\ reservationEnCours' = AucunLivre
    /\ messages' = [l \in Livres |-> "aucun"]
    /\ nbReservations' = 0
    /\ volResas' = Orphelins(volResas) \cup
          {[n |-> numero + 1, vivant |-> TRUE, etat |-> "envoye",
            cutoff |-> 0, nb |-> 0]}
    /\ volReserver' = Orphelins(volReserver)
    /\ UNCHANGED <<vars, sert, inseres>>

\* [disabled] of the button.
Desactive(l) == reservationEnCours = l \/ nbReservations >= LimiteResa

reserver(l) ==
    /\ numero \in 1 .. MaxAppels - 1
    /\ ~Desactive(l)
    /\ numero' = numero + 1
    /\ reservationEnCours' = l
    /\ messages' = [messages EXCEPT ![l] = "aucun"]
    /\ volReserver' = volReserver \cup
          {[n |-> numero + 1, vivant |-> TRUE, etat |-> "envoye", l |-> l,
            rep |-> "erreur"]}
    /\ UNCHANGED <<vars, nbReservations, volResas, sert, inseres>>

\* Which words the texts of the 409 answers contain: 'Limite de 3 reservations
\* atteinte', 'Livre deja emprunte', 'Livre deja reserve'.
Contient(rep, mot) ==
    mot \in CASE rep = "limite"   -> {"limite"}
              [] rep = "emprunte" -> {"deja", "emprunte"}
              [] rep = "reserve"  -> {"deja", "deja reserve"}

\* Faulty variant: the first test looks for 'deja' alone.
getMessageDeja(rep) ==
    IF rep \notin Refus THEN "erreur"
    ELSE IF Contient(rep, "deja") THEN "deja_reserve"
    ELSE IF Contient(rep, "emprunte") THEN "actuellement_emprunte"
    ELSE IF Contient(rep, "limite") THEN "limite_atteinte"
    ELSE "erreur"

getMessage(rep) ==
    IF rep \notin Refus THEN "erreur"
    ELSE IF Contient(rep, "deja reserve") THEN "deja_reserve"
    ELSE IF Contient(rep, "emprunte") THEN "actuellement_emprunte"
    ELSE IF Contient(rep, "limite") THEN "limite_atteinte"
    ELSE "erreur"

\* Faulty variant: an error takes back a reservation that was never counted.
RappelReserverDecompte(l, rep) ==
    /\ reservationEnCours' = AucunLivre
    /\ nbReservations' = IF rep = "succes" THEN nbReservations + 1
                         ELSE nbReservations - 1
    /\ messages' = [messages EXCEPT
                       ![l] = IF rep = "succes" THEN "effectuee"
                              ELSE getMessage(rep)]

\* Faulty variant: only the next callback resets reservationEnCours.
RappelReserverSansReset(l, rep) ==
    /\ reservationEnCours' = IF rep = "succes" THEN AucunLivre
                             ELSE reservationEnCours
    /\ nbReservations' = IF rep = "succes" THEN nbReservations + 1
                         ELSE nbReservations
    /\ messages' = [messages EXCEPT
                       ![l] = IF rep = "succes" THEN "effectuee"
                              ELSE getMessage(rep)]

\* Faulty variant: the callbacks take the book from the signal, not from the
\* call they belong to.
RappelReserverSignal(l, rep) ==
    /\ reservationEnCours' = AucunLivre
    /\ nbReservations' = IF rep = "succes" THEN nbReservations + 1
                         ELSE nbReservations
    /\ messages' = [k \in Livres |->
                       IF k # reservationEnCours THEN messages[k]
                       ELSE IF rep = "succes" THEN "effectuee"
                       ELSE getMessage(rep)]

\* The callbacks of reserver: next and error.
RappelReserver(l, rep) ==
    /\ reservationEnCours' = AucunLivre
    /\ nbReservations' = IF rep = "succes" THEN nbReservations + 1
                         ELSE nbReservations
    /\ messages' = [messages EXCEPT
                       ![l] = IF rep = "succes" THEN "effectuee"
                              ELSE getMessage(rep)]

RecevoirReserver(a) ==
    /\ a.etat = "repondu"
    /\ volReserver' = volReserver \ {a}
    /\ IF a.vivant THEN RappelReserver(a.l, a.rep)
       ELSE UNCHANGED <<reservationEnCours, nbReservations, messages>>
    /\ UNCHANGED <<vars, numero, volResas, sert, inseres>>

\* The callbacks of chargerReservations.
RecevoirResas(a) ==
    /\ a.etat = "repondu"
    /\ volResas' = volResas \ {a}
    /\ nbReservations' = IF a.vivant THEN a.nb ELSE nbReservations
    /\ UNCHANGED <<vars, reservationEnCours, messages, numero, volReserver,
                   sert, inseres>>

\* The browser reports a failed call (status 0): the error callbacks run,
\* whatever the back end has done or will do with the call.
EchouerReserver(a) ==
    /\ Pannes
    /\ a.vivant
    /\ volReserver' = Change(volReserver, a, [a EXCEPT !.vivant = FALSE])
    /\ RappelReserver(a.l, "erreur")
    /\ UNCHANGED <<vars, numero, volResas, sert, inseres>>

EchouerResas(a) ==
    /\ Pannes
    /\ a.vivant
    /\ volResas' = Change(volResas, a, [a EXCEPT !.vivant = FALSE])
    /\ nbReservations' = 0
    /\ UNCHANGED <<vars, reservationEnCours, messages, numero, volReserver,
                   sert, inseres>>

\* A failed call that never reached the back end.
Perdre(a) ==
    /\ Pannes
    /\ ~a.vivant
    /\ a.etat = "envoye"
    /\ volReserver' = volReserver \ {a}
    /\ volResas' = volResas \ {a}
    /\ UNCHANGED <<vars, reservationEnCours, messages, nbReservations, numero,
                   sert, inseres>>

-----------------------------------------------------------------------------
(***************************************************************************)
(* The back end handles the calls.                                         *)
(***************************************************************************)

\* GET /api/reservations: the purge, then the SELECT with the same $cutoff.
ServirResasPurge(a) ==
    /\ a.etat = "envoye"
    /\ ListerReservations
    /\ volResas' = Change(volResas, a, [a EXCEPT !.etat = "purge", !.cutoff = Cutoff])
    /\ UNCHANGED <<reservationEnCours, messages, nbReservations, numero,
                   volReserver, sert, inseres>>

findActiveByUser(u, cutoff) == {r \in ResasDe(u) : r.dateResa >= cutoff}

ServirResasListe(a) ==
    /\ a.etat = "purge"
    /\ volResas' = Change(volResas, a,
          [a EXCEPT !.etat = "repondu",
                    !.nb = Cardinality(findActiveByUser(moi, a.cutoff))])
    /\ UNCHANGED <<vars, reservationEnCours, messages, nbReservations, numero,
                   volReserver, sert, inseres>>

\* POST /api/reservation: a worker takes the call, or answers at once when
\* the book or the account is gone (404, 401).
ServirReserver(a, w) ==
    /\ a.etat = "envoye"
    /\ \/ /\ CreerDebut(w, moi, a.l)
          /\ volReserver' = Change(volReserver, a, [a EXCEPT !.etat = "servi"])
          /\ sert' = [sert EXCEPT ![w] = a.n]
       \/ /\ a.l \notin livres \/ moi \notin utilisateurs
          /\ Libre(w)
          /\ volReserver' = Change(volReserver, a,
                [a EXCEPT !.etat = "repondu", !.rep = "erreur"])
          /\ UNCHANGED <<vars, sert>>
    /\ UNCHANGED <<reservationEnCours, messages, nbReservations, numero,
                   volResas, inseres>>

\* What create() answers when the step that worker w takes is its last.
ReponseCreer(w) ==
    CASE req[w].etape = "creer_compte" ->
            IF countActiveForUser(moi, req[w].cutoff) >= LimiteResa
            THEN "limite" ELSE "emprunte"
      [] req[w].etape = "creer_conflit" -> "reserve"
      [] req[w].etape = "creer_insere" ->
            IF moi \in utilisateurs /\ req[w].l \in livres
            THEN "succes" ELSE "erreur"

EtapeServeur(w) ==
    /\ sert[w] # 0
    /\ CreerEtape(w)
    /\ IF req'[w] = Repos
       THEN \E a \in volReserver :
               /\ a.n = sert[w]
               /\ volReserver' = Change(volReserver, a,
                     [a EXCEPT !.etat = "repondu", !.rep = ReponseCreer(w)])
               /\ sert' = [sert EXCEPT ![w] = 0]
               /\ inseres' = IF seqResa' # seqResa THEN inseres \cup {a.l}
                             ELSE inseres
       ELSE UNCHANGED <<volReserver, sert, inseres>>
    /\ UNCHANGED <<reservationEnCours, messages, nbReservations, numero, volResas>>

\* What else happens in the library: the clock and the expiry command, other
\* requests of the API (also of the same member, from another page), loans,
\* and the other screens.
AutreEtape ==
    /\ \/ Tick
       \/ ExpirerReservations
       \/ "api" \in Voisins /\ ReservationNext
       \/ "prets" \in Voisins /\ EmpruntNext
       \/ "livres" \in Voisins /\ \E l \in Livres : SupprLivre(l)
    /\ \A w \in Workers : sert[w] # 0 => req'[w] = req[w]
    /\ UNCHANGED pageVars

ListeNext ==
    \/ Ouvrir
    \/ \E l \in Livres : reserver(l)
    \/ \E a \in volReserver :
          \/ RecevoirReserver(a)
          \/ EchouerReserver(a)
          \/ \E w \in Workers : ServirReserver(a, w)
    \/ \E a \in volResas :
          \/ RecevoirResas(a)
          \/ EchouerResas(a)
          \/ ServirResasPurge(a)
          \/ ServirResasListe(a)
    \/ \E a \in volReserver \cup volResas : Perdre(a)
    \/ \E w \in Workers : EtapeServeur(w)
    \/ AutreEtape

ListeSpec == ListeInit /\ [][ListeNext]_listeVars

\* A worker finishes the request it has started, picks up a call that waits
\* when it is free, and the browser delivers the answers it has received.
ListeFair ==
    /\ ListeSpec
    /\ \A w \in Workers :
          /\ WF_listeVars(EtapeServeur(w))
          /\ WF_listeVars(Etape(w) /\ AutreEtape)
    /\ SF_listeVars(\E a \in volReserver, w \in Workers : ServirReserver(a, w))
    /\ WF_listeVars(\E a \in volReserver : RecevoirReserver(a))

-----------------------------------------------------------------------------
(***************************************************************************)
(* Properties.                                                             *)
(***************************************************************************)

\* Type invariant of the page.
ListeTypeOK ==
    /\ reservationEnCours \in Livres \cup {AucunLivre}
    /\ messages \in [Livres -> Message]
    /\ nbReservations \in Nat
    /\ numero \in Nat
    /\ volResas \subseteq AppelResas
    /\ volReserver \subseteq AppelReserver
    /\ sert \in [Workers -> Nat]
    /\ inseres \subseteq Livres

\* A button that says 'Reservation...' waits for a call of its own book that
\* the page will hear of, however many books are clicked and in whatever
\* order answers and failures arrive (the one id of livres-list.ts:86, reset
\* by every callback): it is never stuck.
BoutonAttend ==
    reservationEnCours # AucunLivre =>
        \E a \in volReserver : a.vivant /\ a.l = reservationEnCours

\* 'Reservation effectuee avec succes !' (livres-list.ts:95) is shown only of
\* a book that a call of this page has reserved.
SuccesInsere == \A l \in Livres : messages[l] = "effectuee" => l \in inseres

\* The message under a book names the check of create() that refused it
\* (ReservationController.php:65, 69, 74 against getMessage).
RefusFidele ==
    [][\A a \in volReserver :
          a.vivant /\ (\A b \in volReserver' : b.n # a.n) =>
             /\ a.rep = "limite" => messages'[a.l] = "limite_atteinte"
             /\ a.rep = "emprunte" => messages'[a.l] = "actuellement_emprunte"
             /\ a.rep = "reserve" => messages'[a.l] = "deja_reserve"]_listeVars

\* 'Reservation...' does not stay: the call is answered, whichever check ends
\* it and whatever other calls the page makes.
BoutonRevient ==
    \A l \in Livres : reservationEnCours = l ~> reservationEnCours # l

-----------------------------------------------------------------------------
(***************************************************************************)
(* What the page says, and the code does not keep.                         *)
(***************************************************************************)

\* 'Limite atteinte: vous avez deja 3 reservations en cours.'
\* (livres-list.html:42): when the page starts to say so, the member has as
\* many reservations.
LimiteAffichee ==
    [][nbReservations < LimiteResa /\ nbReservations' >= LimiteResa =>
          Cardinality(ResasDe(moi)) >= LimiteResa]_listeVars

\* 'Ce livre est deja reserve par un autre adherent.' (livres-list.ts:116):
\* the reservation for which create() refuses the book is another member's.
ReserveParUnAutre ==
    [][\A w \in Workers :
          sert[w] # 0 /\ req[w].etape = "creer_conflit" /\ req'[w] = Repos =>
             \E r \in ResasDeLivre(req[w].l) : r.utilisateur # moi]_listeVars

\* 'Reservation...' (livres-list.html:79) is shown on a book, and its button
\* disabled, as long as a reservation of it is under way.
EnCoursAffiche ==
    \A a \in volReserver : a.vivant => reservationEnCours = a.l
=============================================================================
