---------------------------- MODULE ListeProofs ----------------------------
(***************************************************************************)
(* The reserve buttons of the book list on top of the tables, for any      *)
(* members, books, workers and number of calls.                            *)
(***************************************************************************)
EXTENDS LivresListe, TablesProofs, FiniteSetTheorems

-----------------------------------------------------------------------------
(***************************************************************************)
(* Tables stay finite, so that what is counted is a number.                *)
(***************************************************************************)

\* A step inserts at most one reservation.
LEMMA UneResaDePlus ==
    ASSUME [Next]_vars
    PROVE  \E x : reservations' \subseteq reservations \cup {x}
<1>1. CASE Tick \/ UNCHANGED vars
  BY <1>1 DEF Tick, vars, base
<1>2. CASE ReservationNext
  <2>1. ASSUME NEW w \in Workers, CreerEtape(w)
        PROVE  \E x : reservations' \subseteq reservations \cup {x}
    <3>1. CASE CreerInsere(w)
      <4> DEFINE x == [id |-> seqResa + 1, utilisateur |-> req[w].u,
                       livre |-> req[w].l, dateResa |-> maintenant]
      <4>1. reservations' = reservations \cup {x} \/ reservations' = reservations
        BY <3>1 DEF CreerInsere
      <4> HIDE DEF x
      <4> QED
        BY <4>1
    <3> QED
      BY <2>1, <3>1 DEF CreerEtape, CreerPurge, CreerCompte, CreerConflit,
                        purgeExpired, base
  <2> QED
    BY <1>2, <2>1 DEF ReservationNext, CreerDebut, ListerReservations,
                      ExpirerReservations, Annuler, purgeExpired, base
<1>3. CASE EmpruntNext
  <2>1. reservations' \subseteq reservations
    BY <1>3 DEF EmpruntNext, PretEtape, PretDebut, PretReservation, PretLimite,
                PretEnCours, PretInsere, EditDebut, EditLivre, EditFlush, SupprPret, base
  <2> QED
    BY <2>1
<1>4. CASE AdminNext
  <2>1. ASSUME NEW r, NEW date, AdminEditeResa(r, date)
        PROVE  \E x : reservations' \subseteq reservations \cup {x}
    <3> DEFINE x == [r EXCEPT !.dateResa = date]
    <3>1. reservations' = (reservations \ {r}) \cup {x}
      BY <2>1 DEF AdminEditeResa
    <3> HIDE DEF x
    <3> QED
      BY <3>1
  <2>2. ASSUME NEW w, SupprUtilisateurFlush(w)
        PROVE  reservations' \subseteq reservations
    BY <2>2 DEF SupprUtilisateurFlush
  <2> QED
    BY <1>4, <2>1, <2>2 DEF AdminNext, SupprUtilisateurDebut, SupprLivre,
                            AdminSupprimeResa, base
<1> QED
  BY <1>1, <1>2, <1>3, <1>4 DEF Next

\* The table of reservations stays finite.
LEMMA ResasFinies ==
    ASSUME IsFiniteSet(reservations), [Next]_vars
    PROVE  IsFiniteSet(reservations')
<1>1. PICK x : reservations' \subseteq reservations \cup {x}
  BY UneResaDePlus
<1>2. IsFiniteSet(reservations \cup {x})
  BY FS_AddElement
<1> QED
  BY <1>1, <1>2, FS_Subset

-----------------------------------------------------------------------------
(***************************************************************************)
(* The book list.                                                          *)
(***************************************************************************)

\* An answer of success is the answer of a call whose row was inserted.
InvPage ==
    /\ ListeTypeOK
    /\ BoutonAttend
    /\ SuccesInsere
    /\ \A a \in volReserver : a.rep = "succes" => a.l \in inseres

\* A worker that handles a call of this page runs create() for its member.
InvSert ==
    \A w \in Workers : sert[w] # 0 => req[w].etape \in EtapesCreer /\ req[w].u = moi

\* The inductive invariant.
InvListe == TypeOK /\ IsFiniteSet(reservations) /\ InvPage /\ InvSert

\* What the page does to the library is a step of the library, or none.
LEMMA ListeSurTables ==
    ASSUME TypeOK, [ListeNext]_listeVars
    PROVE  [Next]_vars
<1>1. CASE UNCHANGED listeVars
  BY <1>1 DEF listeVars
<1>2. ASSUME NEW a, NEW w \in Workers, ServirReserver(a, w)
      PROVE  [Next]_vars
  <2>1. CASE CreerDebut(w, moi, a.l)
    <3>1. a.l \in Livres
      BY <2>1 DEF CreerDebut, TypeOK
    <3>2. \E u \in Utilisateurs, l \in Livres : CreerDebut(w, u, l)
      BY <2>1, <3>1, ListeAssumption
    <3> QED
      BY <3>2 DEF Next, ReservationNext
  <2>2. CASE UNCHANGED vars
    BY <2>2
  <2> QED
    BY <1>2, <2>1, <2>2 DEF ServirReserver
<1>3. ASSUME NEW w \in Workers, EtapeServeur(w)
      PROVE  [Next]_vars
  BY <1>3 DEF EtapeServeur, Next, ReservationNext
<1>4. CASE AutreEtape
  BY <1>4 DEF AutreEtape, Next, ReservationNext, AdminNext
<1>5. ASSUME NEW a, ServirResasPurge(a)
      PROVE  [Next]_vars
  BY <1>5 DEF ServirResasPurge, Next, ReservationNext
<1>6. CASE Ouvrir \/ \E l \in Livres : reserver(l)
  BY <1>6 DEF Ouvrir, reserver
<1>7. ASSUME NEW a, \/ RecevoirReserver(a) \/ EchouerReserver(a) \/ RecevoirResas(a)
                    \/ EchouerResas(a) \/ ServirResasListe(a) \/ Perdre(a)
      PROVE  [Next]_vars
  BY <1>7 DEF RecevoirReserver, EchouerReserver, RecevoirResas, EchouerResas,
              ServirResasListe, Perdre
<1> QED
  BY <1>1, <1>2, <1>3, <1>4, <1>5, <1>6, <1>7 DEF ListeNext

\* The message for each answer that is no success.
LEMMA MessageDe ==
    /\ getMessage("limite") = "limite_atteinte"
    /\ getMessage("emprunte") = "actuellement_emprunte"
    /\ getMessage("reserve") = "deja_reserve"
    /\ \A rep \in Reponse : getMessage(rep) \in Message \ {"effectuee"}
<1>1. /\ getMessage("limite") = "limite_atteinte"
      /\ getMessage("emprunte") = "actuellement_emprunte"
      /\ getMessage("reserve") = "deja_reserve"
      /\ getMessage("succes") = "erreur" /\ getMessage("erreur") = "erreur"
  BY DEF getMessage, Contient, Refus
<1> QED
  BY <1>1 DEF Reponse, Refus, Message

\* The callbacks of reserver.
LEMMA RappelOK ==
    ASSUME ListeTypeOK, SuccesInsere, NEW l \in Livres, NEW rep \in Reponse,
           rep = "succes" => l \in inseres, inseres' = inseres,
           RappelReserver(l, rep)
    PROVE  /\ reservationEnCours' = AucunLivre
           /\ nbReservations' \in Nat
           /\ messages' \in [Livres -> Message]
           /\ SuccesInsere'
<1> DEFINE m == IF rep = "succes" THEN "effectuee" ELSE getMessage(rep)
<1>1. m \in Message /\ (m = "effectuee" => rep = "succes")
  BY MessageDe DEF Message
<1>2. messages' = [messages EXCEPT ![l] = m] /\ reservationEnCours' = AucunLivre
  BY DEF RappelReserver
<1>3. nbReservations' \in Nat
  BY DEF RappelReserver, ListeTypeOK
<1> HIDE DEF m
<1>4. messages' \in [Livres -> Message]
  BY <1>1, <1>2 DEF ListeTypeOK
<1>5. \A k \in Livres : messages'[k] = IF k = l THEN m ELSE messages[k]
  BY <1>2 DEF ListeTypeOK
<1>6. SuccesInsere'
  BY <1>1, <1>5 DEF SuccesInsere
<1> QED
  BY <1>2, <1>3, <1>4, <1>6

\* A call is replaced by itself in a later state.
LEMMA EchangeOK ==
    ASSUME InvPage, NEW a \in volReserver, NEW b \in AppelReserver, b.l = a.l,
           a.vivant => b.vivant, volReserver' = Change(volReserver, a, b),
           inseres \subseteq inseres', b.rep = "succes" => b.l \in inseres',
           UNCHANGED <<reservationEnCours, messages>>
    PROVE  /\ volReserver' \subseteq AppelReserver
           /\ BoutonAttend' /\ SuccesInsere'
           /\ \A c \in volReserver' : c.rep = "succes" => c.l \in inseres'
<1>1. volReserver' = (volReserver \ {a}) \cup {b}
  BY DEF Change
<1>2. volReserver' \subseteq AppelReserver
  BY <1>1 DEF InvPage, ListeTypeOK
<1>3. BoutonAttend'
  BY <1>1 DEF InvPage, BoutonAttend
<1>4. SuccesInsere'
  BY DEF InvPage, SuccesInsere
<1>5. \A c \in volReserver' : c.rep = "succes" => c.l \in inseres'
  BY <1>1 DEF InvPage
<1> QED
  BY <1>2, <1>3, <1>4, <1>5

\* A new page: the calls of the previous one go on unheard.
LEMMA OuvrirOK == ASSUME InvPage, Ouvrir PROVE InvPage'
<1> DEFINE r == [n |-> numero + 1, vivant |-> TRUE, etat |-> "envoye",
                 cutoff |-> 0, nb |-> 0]
<1>1. r \in AppelResas
  BY DEF AppelResas, InvPage, ListeTypeOK
<1>2. volResas' = Orphelins(volResas) \cup {r}
  BY DEF Ouvrir
<1> HIDE DEF r
<1>3. \A a \in AppelResas : [a EXCEPT !.vivant = FALSE] \in AppelResas
  BY DEF AppelResas
<1>4. volResas' \subseteq AppelResas
  BY <1>1, <1>2, <1>3 DEF Orphelins, InvPage, ListeTypeOK
<1>5. volReserver' = Orphelins(volReserver)
  BY DEF Ouvrir
<1>6. ASSUME NEW b \in volReserver'
      PROVE  b \in AppelReserver /\ (b.rep = "succes" => b.l \in inseres)
  <2>1. PICK a \in volReserver : b = [a EXCEPT !.vivant = FALSE]
    BY <1>5 DEF Orphelins
  <2>2. a \in AppelReserver
    BY DEF InvPage, ListeTypeOK
  <2>3. b \in AppelReserver /\ b.l = a.l /\ b.rep = a.rep
    BY <2>1, <2>2 DEF AppelReserver
  <2> QED
    BY <2>3 DEF InvPage
<1>7. messages' = [l \in Livres |-> "aucun"] /\ reservationEnCours' = AucunLivre
  BY DEF Ouvrir
<1>8. ListeTypeOK'
  BY <1>4, <1>6, <1>7 DEF Ouvrir, InvPage, ListeTypeOK, Message
<1>9. SuccesInsere' /\ BoutonAttend'
  BY <1>7 DEF SuccesInsere, BoutonAttend
<1> QED
  BY <1>6, <1>8, <1>9 DEF InvPage, Ouvrir

\* A click: the button of the book waits for the new call.
LEMMA ReserverOK == ASSUME InvPage, NEW l \in Livres, reserver(l) PROVE InvPage'
<1> DEFINE b == [n |-> numero + 1, vivant |-> TRUE, etat |-> "envoye", l |-> l,
                 rep |-> "erreur"]
<1>1. b \in AppelReserver /\ b.vivant /\ b.l = l /\ b.rep = "erreur"
  BY DEF AppelReserver, Reponse, InvPage, ListeTypeOK
<1>2. volReserver' = volReserver \cup {b}
  BY DEF reserver
<1> HIDE DEF b
<1>3. messages' = [messages EXCEPT ![l] = "aucun"] /\ reservationEnCours' = l
  BY DEF reserver
<1>4. messages' \in [Livres -> Message]
  BY <1>3 DEF InvPage, ListeTypeOK, Message
<1>5. ListeTypeOK'
  BY <1>1, <1>2, <1>3, <1>4 DEF reserver, InvPage, ListeTypeOK
<1>6. BoutonAttend'
  BY <1>1, <1>2, <1>3 DEF BoutonAttend
<1>7. SuccesInsere'
  BY <1>3 DEF reserver, InvPage, SuccesInsere, ListeTypeOK
<1>8. \A a \in volReserver' : a.rep = "succes" => a.l \in inseres'
  BY <1>1, <1>2 DEF reserver, InvPage
<1> QED
  BY <1>5, <1>6, <1>7, <1>8 DEF InvPage

\* An answer reaches the page, or nobody.
LEMMA RecevoirReserverOK ==
    ASSUME InvPage, NEW a \in volReserver, RecevoirReserver(a) PROVE InvPage'
<1>1. volReserver' = volReserver \ {a} /\ inseres' = inseres
  BY DEF RecevoirReserver
<1>2. a \in AppelReserver
  BY DEF InvPage, ListeTypeOK
<1>3. \A b \in volReserver' : b.rep = "succes" => b.l \in inseres'
  BY <1>1 DEF InvPage
<1>4. /\ BoutonAttend' /\ SuccesInsere' /\ messages' \in [Livres -> Message]
      /\ reservationEnCours' \in Livres \cup {AucunLivre} /\ nbReservations' \in Nat
  <2>1. CASE a.vivant
    <3>1. a.l \in Livres /\ a.rep \in Reponse /\ RappelReserver(a.l, a.rep)
      BY <1>2, <2>1 DEF RecevoirReserver, AppelReserver
    <3>2. /\ reservationEnCours' = AucunLivre /\ nbReservations' \in Nat
          /\ messages' \in [Livres -> Message] /\ SuccesInsere'
      BY <1>1, <3>1, RappelOK DEF InvPage
    <3> QED
      BY <3>2 DEF BoutonAttend
  <2>2. CASE ~a.vivant
    <3>1. UNCHANGED <<reservationEnCours, nbReservations, messages>>
      BY <2>2 DEF RecevoirReserver
    <3>2. BoutonAttend'
      BY <1>1, <2>2, <3>1 DEF InvPage, BoutonAttend
    <3> QED
      BY <1>1, <3>1, <3>2 DEF InvPage, ListeTypeOK, SuccesInsere
  <2> QED
    BY <2>1, <2>2
<1>5. ListeTypeOK'
  BY <1>1, <1>4 DEF RecevoirReserver, InvPage, ListeTypeOK
<1> QED
  BY <1>3, <1>4, <1>5 DEF InvPage

\* The browser gives a reservation call up.
LEMMA EchouerReserverOK ==
    ASSUME InvPage, NEW a \in volReserver, EchouerReserver(a) PROVE InvPage'
<1> DEFINE b == [a EXCEPT !.vivant = FALSE]
<1>1. a \in AppelReserver
  BY DEF InvPage, ListeTypeOK
<1>2. b \in AppelReserver /\ b.l = a.l /\ b.rep = a.rep
  BY <1>1 DEF AppelReserver
<1>3. volReserver' = (volReserver \ {a}) \cup {b} /\ inseres' = inseres
  BY DEF EchouerReserver, Change
<1> HIDE DEF b
<1>4. a.l \in Livres /\ RappelReserver(a.l, "erreur") /\ "erreur" \in Reponse
  BY <1>1 DEF EchouerReserver, AppelReserver, Reponse
<1>5. /\ reservationEnCours' = AucunLivre /\ nbReservations' \in Nat
      /\ messages' \in [Livres -> Message] /\ SuccesInsere'
  BY <1>3, <1>4, RappelOK DEF InvPage
<1>6. ListeTypeOK'
  BY <1>2, <1>3, <1>5 DEF EchouerReserver, InvPage, ListeTypeOK
<1>7. BoutonAttend'
  BY <1>5 DEF BoutonAttend
<1>8. \A c \in volReserver' : c.rep = "succes" => c.l \in inseres'
  BY <1>2, <1>3 DEF InvPage
<1> QED
  BY <1>5, <1>6, <1>7, <1>8 DEF InvPage

\* A call that never reached the back end is not one a button waits for.
LEMMA PerdreOK == ASSUME InvPage, NEW a, Perdre(a) PROVE InvPage'
<1>1. /\ volReserver' = volReserver \ {a} /\ volResas' = volResas \ {a} /\ ~a.vivant
      /\ UNCHANGED <<reservationEnCours, messages, nbReservations, numero, sert, inseres>>
  BY DEF Perdre
<1>2. ListeTypeOK'
  BY <1>1 DEF InvPage, ListeTypeOK
<1>3. BoutonAttend'
  BY <1>1 DEF InvPage, BoutonAttend
<1> QED
  BY <1>1, <1>2, <1>3 DEF InvPage, SuccesInsere

\* The calls of GET /api/reservations.
LEMMA ResasOK ==
    ASSUME InvPage, IsFiniteSet(reservations), TypeOK, NEW a \in volResas,
           \/ RecevoirResas(a) \/ EchouerResas(a)
           \/ ServirResasPurge(a) \/ ServirResasListe(a)
    PROVE  InvPage'
<1>1. a \in AppelResas
  BY DEF InvPage, ListeTypeOK
<1>2. /\ nbReservations' \in Nat /\ volResas' \subseteq AppelResas
      /\ UNCHANGED <<reservationEnCours, messages, numero, volReserver, sert, inseres>>
  <2>1. CASE RecevoirResas(a)
    <3>1. a.nb \in Nat
      BY <1>1 DEF AppelResas
    <3> QED
      BY <2>1, <3>1 DEF RecevoirResas, InvPage, ListeTypeOK
  <2>2. CASE EchouerResas(a)
    <3>1. [a EXCEPT !.vivant = FALSE] \in AppelResas
      BY <1>1 DEF AppelResas
    <3> QED
      BY <2>2, <3>1 DEF EchouerResas, Change, InvPage, ListeTypeOK
  <2>3. CASE ServirResasPurge(a)
    <3>1. Cutoff \in Int
      BY ConstantesAssumption DEF Cutoff, TypeOK
    <3>2. [a EXCEPT !.etat = "purge", !.cutoff = Cutoff] \in AppelResas
      BY <1>1, <3>1 DEF AppelResas
    <3> QED
      BY <2>3, <3>2 DEF ServirResasPurge, Change, InvPage, ListeTypeOK
  <2>4. CASE ServirResasListe(a)
    <3> DEFINE k == Cardinality(findActiveByUser(moi, a.cutoff))
    <3>1. findActiveByUser(moi, a.cutoff) \subseteq reservations
      BY DEF findActiveByUser, ResasDe
    <3>2. k \in Nat
      BY <3>1, FS_Subset, FS_CardinalityType
    <3>3. volResas' = Change(volResas, a, [a EXCEPT !.etat = "repondu", !.nb = k])
      BY <2>4 DEF ServirResasListe
    <3> HIDE DEF k
    <3>4. [a EXCEPT !.etat = "repondu", !.nb = k] \in AppelResas
      BY <1>1, <3>2 DEF AppelResas
    <3>5. volResas' \subseteq AppelResas
      BY <3>3, <3>4 DEF Change, InvPage, ListeTypeOK
    <3> QED
      BY <2>4, <3>5 DEF ServirResasListe, InvPage, ListeTypeOK
  <2> QED
    BY <2>1, <2>2, <2>3, <2>4
<1>3. ListeTypeOK'
  BY <1>2 DEF InvPage, ListeTypeOK
<1> QED
  BY <1>2, <1>3 DEF InvPage, BoutonAttend, SuccesInsere

\* A worker takes a reservation call, or answers it at once.
LEMMA ServirReserverOK ==
    ASSUME TypeOK, InvPage, InvSert, NEW a \in volReserver, NEW w \in Workers,
           ServirReserver(a, w)
    PROVE  InvPage' /\ InvSert'
<1>1. a \in AppelReserver
  BY DEF InvPage, ListeTypeOK
<1>2. UNCHANGED <<reservationEnCours, messages, nbReservations, numero, volResas, inseres>>
  BY DEF ServirReserver
<1>3. CASE /\ CreerDebut(w, moi, a.l)
           /\ volReserver' = Change(volReserver, a, [a EXCEPT !.etat = "servi"])
           /\ sert' = [sert EXCEPT ![w] = a.n]
  <2> DEFINE b == [a EXCEPT !.etat = "servi"]
             q == [etape |-> "creer_purge", u |-> moi, l |-> a.l,
                   emprunteLu |-> livreEmprunt[a.l] # NULL, cutoff |-> 0]
  <2>1. /\ b \in AppelReserver /\ b.l = a.l /\ b.rep = a.rep /\ b.vivant = a.vivant
    BY <1>1 DEF AppelReserver
  <2>2. volReserver' = Change(volReserver, a, b)
    BY <1>3
  <2>3. req' = [req EXCEPT ![w] = q]
    BY <1>3 DEF CreerDebut, Entre
  <2>4. q.etape \in EtapesCreer /\ q.u = moi
    BY DEF EtapesCreer
  <2> HIDE DEF b, q
  <2>5. b.rep = "succes" => b.l \in inseres'
    BY <1>2, <2>1 DEF InvPage
  <2>6. /\ volReserver' \subseteq AppelReserver /\ BoutonAttend' /\ SuccesInsere'
        /\ \A c \in volReserver' : c.rep = "succes" => c.l \in inseres'
    BY <1>2, <2>1, <2>2, <2>5, EchangeOK
  <2>7. a.n \in Nat
    BY <1>1 DEF AppelReserver
  <2>8. ListeTypeOK'
    BY <1>2, <1>3, <2>6, <2>7 DEF InvPage, ListeTypeOK
  <2>9. InvSert'
    BY <1>3, <2>3, <2>4 DEF InvSert, TypeOK, InvPage, ListeTypeOK
  <2> QED
    BY <2>6, <2>8, <2>9 DEF InvPage
<1>4. CASE /\ volReserver' = Change(volReserver, a,
                 [a EXCEPT !.etat = "repondu", !.rep = "erreur"])
           /\ UNCHANGED <<vars, sert>>
  <2> DEFINE b == [a EXCEPT !.etat = "repondu", !.rep = "erreur"]
  <2>1. /\ b \in AppelReserver /\ b.l = a.l /\ b.rep = "erreur" /\ b.vivant = a.vivant
    BY <1>1 DEF AppelReserver, Reponse
  <2>2. volReserver' = Change(volReserver, a, b)
    BY <1>4
  <2> HIDE DEF b
  <2>3. /\ volReserver' \subseteq AppelReserver /\ BoutonAttend' /\ SuccesInsere'
        /\ \A c \in volReserver' : c.rep = "succes" => c.l \in inseres'
    BY <1>2, <2>1, <2>2, EchangeOK
  <2>4. ListeTypeOK'
    BY <1>2, <1>4, <2>3 DEF InvPage, ListeTypeOK
  <2>5. InvSert'
    BY <1>4 DEF InvSert, vars
  <2> QED
    BY <2>3, <2>4, <2>5 DEF InvPage
<1> QED
  BY <1>3, <1>4 DEF ServirReserver

\* What a step of create() does to the request: it goes on for the same member,
\* or ends with an answer, which is a success only when the row was inserted.
LEMMA EtapeCreer ==
    ASSUME TypeOK, InvSert, NEW w \in Workers, sert[w] # 0, CreerEtape(w)
    PROVE  /\ \A v \in Workers \ {w} : req'[v] = req[v]
           /\ req'[w] # Repos => req'[w].etape \in EtapesCreer /\ req'[w].u = moi
           /\ req'[w] = Repos =>
                 /\ ReponseCreer(w) \in Reponse
                 /\ ReponseCreer(w) = "succes" => seqResa' # seqResa
<1>1. req[w].etape \in EtapesCreer /\ req[w].u = moi
  BY DEF InvSert
<1>2. req[w] \in RequeteCreer /\ req \in [Workers -> Requete] /\ seqResa \in Nat
  BY <1>1, FormeRequete DEF TypeOK
<1>3. CASE CreerPurge(w)
  <2> DEFINE q == [req[w] EXCEPT !.etape = "creer_compte", !.cutoff = Cutoff]
  <2>1. req' = [req EXCEPT ![w] = q]
    BY <1>2, <1>3 DEF CreerPurge
  <2>2. q.etape = "creer_compte" /\ q.u = req[w].u
    BY <1>2 DEF RequeteCreer
  <2> HIDE DEF q
  <2>3. req'[w] = q /\ \A v \in Workers \ {w} : req'[v] = req[v]
    BY <1>2, <2>1
  <2> QED
    BY <1>1, <2>2, <2>3 DEF Repos, EtapesCreer
<1>4. ASSUME NEW etape \in {"creer_conflit", "creer_insere"}, Passe(w, etape)
      PROVE  /\ \A v \in Workers \ {w} : req'[v] = req[v]
             /\ req'[w].etape \in EtapesCreer /\ req'[w].u = moi /\ req'[w] # Repos
  <2> DEFINE q == [req[w] EXCEPT !.etape = etape]
  <2>1. req' = [req EXCEPT ![w] = q]
    BY <1>2, <1>4 DEF Passe
  <2>2. q.etape = etape /\ q.u = req[w].u
    BY <1>2 DEF RequeteCreer
  <2> HIDE DEF q
  <2>3. req'[w] = q /\ \A v \in Workers \ {w} : req'[v] = req[v]
    BY <1>2, <2>1
  <2>4. q.etape \in EtapesCreer /\ q.u = moi
    BY <1>1, <2>2 DEF EtapesCreer
  <2>5. q # Repos
    BY <2>4 DEF Repos, EtapesCreer
  <2> QED
    BY <2>3, <2>4, <2>5
<1>5. ASSUME Fin(w)
      PROVE  req'[w] = Repos /\ \A v \in Workers \ {w} : req'[v] = req[v]
  BY <1>2, <1>5 DEF Fin
<1>6. CASE CreerCompte(w)
  <2>1. Fin(w) \/ Passe(w, "creer_conflit")
    BY <1>6 DEF CreerCompte
  <2>2. ReponseCreer(w) \in {"limite", "emprunte"}
    BY <1>6 DEF CreerCompte, ReponseCreer
  <2> QED
    BY <1>4, <1>5, <2>1, <2>2 DEF Reponse, Refus
<1>7. CASE CreerConflit(w)
  <2>1. Fin(w) \/ Passe(w, "creer_insere")
    BY <1>7 DEF CreerConflit
  <2>2. ReponseCreer(w) = "reserve"
    BY <1>7 DEF CreerConflit, ReponseCreer
  <2> QED
    BY <1>4, <1>5, <2>1, <2>2 DEF Reponse, Refus
<1>8. CASE CreerInsere(w)
  <2>1. Fin(w) /\ req[w].etape = "creer_insere"
    BY <1>8 DEF CreerInsere
  <2>2. ReponseCreer(w) = IF moi \in utilisateurs /\ req[w].l \in livres
                          THEN "succes" ELSE "erreur"
    BY <2>1 DEF ReponseCreer
  <2>3. moi \in utilisateurs /\ req[w].l \in livres => seqResa' = seqResa + 1
    BY <1>1, <1>8 DEF CreerInsere
  <2>4. seqResa + 1 # seqResa
    BY <1>2
  <2> QED
    BY <1>5, <2>1, <2>2, <2>3, <2>4 DEF Reponse
<1> QED
  BY <1>3, <1>6, <1>7, <1>8 DEF CreerEtape

\* A worker goes on with a call of the page, or answers it.
LEMMA EtapeServeurOK ==
    ASSUME TypeOK, InvPage, InvSert, NEW w \in Workers, EtapeServeur(w)
    PROVE  InvPage' /\ InvSert'
<1>1. /\ \A v \in Workers \ {w} : req'[v] = req[v]
      /\ req'[w] # Repos => req'[w].etape \in EtapesCreer /\ req'[w].u = moi
      /\ req'[w] = Repos => /\ ReponseCreer(w) \in Reponse
                            /\ ReponseCreer(w) = "succes" => seqResa' # seqResa
  BY EtapeCreer DEF EtapeServeur
<1>2. UNCHANGED <<reservationEnCours, messages, nbReservations, numero, volResas>>
  BY DEF EtapeServeur
<1>3. CASE req'[w] # Repos
  <2>1. UNCHANGED <<volReserver, sert, inseres>>
    BY <1>3 DEF EtapeServeur
  <2>2. InvPage'
    BY <1>2, <2>1 DEF InvPage, ListeTypeOK, BoutonAttend, SuccesInsere
  <2>3. InvSert'
    BY <1>1, <1>3, <2>1 DEF InvSert
  <2> QED
    BY <2>2, <2>3
<1>4. CASE req'[w] = Repos
  <2>1. PICK a \in volReserver :
           /\ volReserver' = Change(volReserver, a,
                 [a EXCEPT !.etat = "repondu", !.rep = ReponseCreer(w)])
           /\ sert' = [sert EXCEPT ![w] = 0]
           /\ inseres' = IF seqResa' # seqResa THEN inseres \cup {a.l} ELSE inseres
    BY <1>4 DEF EtapeServeur
  <2>2. a \in AppelReserver
    BY DEF InvPage, ListeTypeOK
  <2> DEFINE rep == ReponseCreer(w)
             b == [a EXCEPT !.etat = "repondu", !.rep = rep]
  <2>3. rep \in Reponse /\ (rep = "succes" => seqResa' # seqResa)
    BY <1>1, <1>4
  <2>4. volReserver' = Change(volReserver, a, b)
    BY <2>1
  <2> HIDE DEF rep
  <2>5. b \in AppelReserver /\ b.l = a.l /\ b.rep = rep /\ b.vivant = a.vivant
    BY <2>2, <2>3 DEF AppelReserver
  <2> HIDE DEF b
  <2>6. inseres \subseteq inseres' /\ (b.rep = "succes" => b.l \in inseres')
    BY <2>1, <2>3, <2>5
  <2>7. /\ volReserver' \subseteq AppelReserver /\ BoutonAttend' /\ SuccesInsere'
        /\ \A c \in volReserver' : c.rep = "succes" => c.l \in inseres'
    BY <1>2, <2>4, <2>5, <2>6, EchangeOK
  <2>8. inseres' \subseteq Livres
    BY <2>1, <2>2 DEF AppelReserver, InvPage, ListeTypeOK
  <2>9. sert' \in [Workers -> Nat]
    BY <2>1 DEF InvPage, ListeTypeOK
  <2>10. ListeTypeOK'
    BY <1>2, <2>7, <2>8, <2>9 DEF InvPage, ListeTypeOK
  <2>11. InvSert'
    BY <1>1, <2>1 DEF InvSert, InvPage, ListeTypeOK
  <2> QED
    BY <2>7, <2>10, <2>11 DEF InvPage
<1> QED
  BY <1>3, <1>4

\* Every step keeps the invariant.
LEMMA ListeTient == InvListe /\ [ListeNext]_listeVars => InvListe'
<1> SUFFICES ASSUME InvListe, [ListeNext]_listeVars PROVE InvListe'
  OBVIOUS
<1>1. TypeOK /\ IsFiniteSet(reservations) /\ InvPage /\ InvSert
  BY DEF InvListe
<1>2. [Next]_vars
  BY <1>1, ListeSurTables
<1>3. TypeOK' /\ IsFiniteSet(reservations')
  BY <1>1, <1>2, TypeNext, ResasFinies
<1>4. InvPage' /\ InvSert'
  <2>1. CASE UNCHANGED listeVars
    BY <1>1, <2>1 DEF listeVars, vars, pageVars, InvPage, InvSert, ListeTypeOK,
                      BoutonAttend, SuccesInsere
  <2>2. CASE AutreEtape
    BY <1>1, <2>2 DEF AutreEtape, pageVars, InvPage, InvSert, ListeTypeOK,
                      BoutonAttend, SuccesInsere
  <2>3. ASSUME NEW a \in volReserver, NEW w \in Workers, ServirReserver(a, w)
        PROVE  InvPage' /\ InvSert'
    BY <1>1, <2>3, ServirReserverOK
  <2>4. ASSUME NEW w \in Workers, EtapeServeur(w)
        PROVE  InvPage' /\ InvSert'
    BY <1>1, <2>4, EtapeServeurOK
  <2>5. ASSUME NEW a \in volResas, \/ RecevoirResas(a) \/ EchouerResas(a)
                                   \/ ServirResasPurge(a) \/ ServirResasListe(a)
        PROVE  InvPage' /\ InvSert'
    <3>1. InvPage'
      BY <1>1, <2>5, ResasOK
    <3>2. UNCHANGED <<sert, req>>
      BY <2>5 DEF RecevoirResas, EchouerResas, ServirResasPurge, ServirResasListe,
                  ListerReservations, vars
    <3> QED
      BY <1>1, <3>1, <3>2 DEF InvSert
  <2>6. ASSUME \/ Ouvrir
               \/ \E l \in Livres : reserver(l)
               \/ \E a \in volReserver : RecevoirReserver(a) \/ EchouerReserver(a)
               \/ \E a \in volReserver \cup volResas : Perdre(a)
        PROVE  InvPage' /\ InvSert'
    <3>1. InvPage'
      BY <1>1, <2>6, OuvrirOK, ReserverOK, RecevoirReserverOK, EchouerReserverOK,
         PerdreOK
    <3>2. UNCHANGED <<sert, req>>
      BY <2>6 DEF Ouvrir, reserver, RecevoirReserver, EchouerReserver, Perdre, vars
    <3> QED
      BY <1>1, <3>1, <3>2 DEF InvSert
  <2> QED
    BY <2>1, <2>2, <2>3, <2>4, <2>5, <2>6 DEF ListeNext
<1> QED
  BY <1>3, <1>4 DEF InvListe

\* A page that is opened on the library as it is installed.
LEMMA ListeDepart == ListeInit => InvListe
<1> SUFFICES ASSUME ListeInit PROVE InvListe
  OBVIOUS
<1>1. TypeOK /\ IsFiniteSet(reservations)
  BY FS_EmptySet DEF ListeInit, Init, TypeOK, NULL, Requete
<1>2. ListeTypeOK
  BY DEF ListeInit, ListeTypeOK, Message
<1>3. BoutonAttend /\ SuccesInsere
  BY DEF ListeInit, BoutonAttend, SuccesInsere
<1>4. InvSert
  BY DEF ListeInit, InvSert
<1> QED
  BY <1>1, <1>2, <1>3, <1>4 DEF ListeInit, InvListe, InvPage

\* A call that leaves the page's books while the page listens shows the message
\* of its answer.
LEMMA RefusEtape ==
    ASSUME ListeTypeOK, [ListeNext]_listeVars, NEW a \in volReserver, a.vivant,
           \A b \in volReserver' : b.n # a.n
    PROVE  RappelReserver(a.l, a.rep)
<1>0. a \notin volReserver'
  OBVIOUS
<1>1. ASSUME NEW c, NEW b, b.n = c.n, volReserver' = Change(volReserver, c, b)
      PROVE  FALSE
  BY <1>0, <1>1 DEF Change
<1>2. ASSUME NEW c \in volReserver, EchouerReserver(c) PROVE FALSE
  <2>1. [c EXCEPT !.vivant = FALSE].n = c.n
    BY DEF ListeTypeOK, AppelReserver
  <2> QED
    BY <1>1, <1>2, <2>1 DEF EchouerReserver
<1>3. ASSUME NEW c \in volReserver, NEW w \in Workers, ServirReserver(c, w) PROVE FALSE
  <2>1. /\ [c EXCEPT !.etat = "servi"].n = c.n
        /\ [c EXCEPT !.etat = "repondu", !.rep = "erreur"].n = c.n
    BY DEF ListeTypeOK, AppelReserver
  <2> QED
    BY <1>1, <1>3, <2>1 DEF ServirReserver
<1>4. ASSUME NEW w \in Workers, EtapeServeur(w) PROVE FALSE
  <2>1. CASE UNCHANGED volReserver
    BY <1>0, <2>1
  <2>2. CASE \E c \in volReserver :
                volReserver' = Change(volReserver, c,
                   [c EXCEPT !.etat = "repondu", !.rep = ReponseCreer(w)])
    <3>1. PICK c \in volReserver :
             volReserver' = Change(volReserver, c,
                [c EXCEPT !.etat = "repondu", !.rep = ReponseCreer(w)])
      BY <2>2
    <3>2. [c EXCEPT !.etat = "repondu", !.rep = ReponseCreer(w)].n = c.n
      BY DEF ListeTypeOK, AppelReserver
    <3> QED
      BY <1>1, <3>1, <3>2
  <2> QED
    BY <1>4, <2>1, <2>2 DEF EtapeServeur
<1>5. ASSUME Ouvrir PROVE FALSE
  <2>1. [a EXCEPT !.vivant = FALSE].n = a.n
    BY DEF ListeTypeOK, AppelReserver
  <2>2. [a EXCEPT !.vivant = FALSE] \in volReserver'
    BY <1>5 DEF Ouvrir, Orphelins
  <2> QED
    BY <2>1, <2>2
<1>6. ASSUME NEW l \in Livres, reserver(l) PROVE FALSE
  BY <1>0, <1>6 DEF reserver
<1>7. ASSUME NEW c, Perdre(c) PROVE FALSE
  BY <1>0, <1>7 DEF Perdre
<1>8. ASSUME NEW c, \/ RecevoirResas(c) \/ EchouerResas(c)
                    \/ ServirResasPurge(c) \/ ServirResasListe(c)
      PROVE  FALSE
  BY <1>0, <1>8 DEF RecevoirResas, EchouerResas, ServirResasPurge, ServirResasListe
<1>9. ASSUME AutreEtape \/ UNCHANGED listeVars PROVE FALSE
  BY <1>0, <1>9 DEF AutreEtape, listeVars, pageVars
<1>10. ASSUME NEW c \in volReserver, RecevoirReserver(c)
       PROVE  RappelReserver(a.l, a.rep)
  BY <1>0, <1>10 DEF RecevoirReserver
<1> QED
  BY <1>2, <1>3, <1>4, <1>5, <1>6, <1>7, <1>8, <1>9, <1>10 DEF ListeNext

\* Whatever is clicked on the page, the library behind it behaves as the library
\* alone may: every result about Bibliotheque holds of it.
THEOREM ListeImplementeTables == ListeSpec => Spec
<1>1. ListeInit => Init
  BY DEF ListeInit
<1>2. InvListe /\ [ListeNext]_listeVars => [Next]_vars
  BY ListeSurTables DEF InvListe
<1> QED
  BY <1>1, <1>2, ListeDepart, ListeTient, PTL DEF ListeSpec, Spec

\* The page's signals, messages and calls keep their form (livres-list.ts:21-23).
THEOREM ListeBienTypee == ListeSpec => []ListeTypeOK
<1>1. InvListe => ListeTypeOK
  BY DEF InvListe, InvPage
<1> QED
  BY <1>1, ListeDepart, ListeTient, PTL DEF ListeSpec

\* A button that waits is never stuck, and a success is never shown of a book
\* that no call of the page has reserved, in whatever order answers and failures
\* arrive (livres-list.ts:85-107).
THEOREM BoutonsFideles == ListeSpec => [](BoutonAttend /\ SuccesInsere)
<1>1. InvListe => BoutonAttend /\ SuccesInsere
  BY DEF InvListe, InvPage
<1> QED
  BY <1>1, ListeDepart, ListeTient, PTL DEF ListeSpec

\* The message under a book names the check of create() that refused it.
THEOREM RefusToujoursFidele == ListeSpec => RefusFidele
<1> DEFINE A == \A a \in volReserver :
                   a.vivant /\ (\A b \in volReserver' : b.n # a.n) =>
                      /\ a.rep = "limite" => messages'[a.l] = "limite_atteinte"
                      /\ a.rep = "emprunte" => messages'[a.l] = "actuellement_emprunte"
                      /\ a.rep = "reserve" => messages'[a.l] = "deja_reserve"
<1>1. InvListe /\ [ListeNext]_listeVars => [A]_listeVars
  <2> SUFFICES ASSUME InvListe, [ListeNext]_listeVars, NEW a \in volReserver,
                      a.vivant, \A b \in volReserver' : b.n # a.n
               PROVE  /\ a.rep = "limite" => messages'[a.l] = "limite_atteinte"
                      /\ a.rep = "emprunte" => messages'[a.l] = "actuellement_emprunte"
                      /\ a.rep = "reserve" => messages'[a.l] = "deja_reserve"
    OBVIOUS
  <2>1. ListeTypeOK /\ a.l \in Livres
    BY DEF InvListe, InvPage, ListeTypeOK, AppelReserver
  <2>2. RappelReserver(a.l, a.rep)
    BY <2>1, RefusEtape
  <2>3. messages'[a.l] = IF a.rep = "succes" THEN "effectuee" ELSE getMessage(a.rep)
    BY <2>1, <2>2 DEF RappelReserver, ListeTypeOK
  <2> QED
    BY <2>3, MessageDe
<1>2. ListeSpec => []InvListe
  BY ListeDepart, ListeTient, PTL DEF ListeSpec
<1> QED
  BY <1>1, <1>2, PTL DEF ListeSpec, RefusFidele
=============================================================================
