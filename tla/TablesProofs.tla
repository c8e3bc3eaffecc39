---------------------------- MODULE TablesProofs ----------------------------
(***************************************************************************)
(* The tables of Bibliotheque, for every value of the constants: any       *)
(* number of workers, every kind of loan edit, hand-edited dates.          *)
(* Types, then foreign keys, then why a reservation may disappear.         *)
(***************************************************************************)
EXTENDS Bibliotheque, TLAPS

\* The step of a worker that changes its own request keeps req typed.
LEMMA ReqType ==
    ASSUME TypeOK, NEW w \in Workers, NEW q \in Requete
    PROVE  [req EXCEPT ![w] = q] \in [Workers -> Requete]
BY DEF TypeOK

\* A worker in a stage of a controller method holds that method's variables.
LEMMA FormeRequete ==
    ASSUME TypeOK, NEW w \in Workers
    PROVE  /\ req[w].etape \in EtapesCreer => req[w] \in RequeteCreer
           /\ req[w].etape \in EtapesPret => req[w] \in RequetePret
           /\ req[w].etape \in EtapesEdit => req[w] \in RequeteEdit
           /\ req[w].etape \in EtapesSuppr => req[w] \in RequeteSuppr
<1>1. req[w] \in Requete
  BY DEF TypeOK
<1>2. CASE req[w] = Repos
  BY <1>2 DEF Repos, EtapesCreer, EtapesPret, EtapesEdit, EtapesSuppr
<1>3. CASE req[w] \in RequeteCreer
  BY <1>3 DEF RequeteCreer, EtapesCreer, EtapesPret, EtapesEdit, EtapesSuppr
<1>4. CASE req[w] \in RequetePret
  BY <1>4 DEF RequetePret, EtapesCreer, EtapesPret, EtapesEdit, EtapesSuppr
<1>5. CASE req[w] \in RequeteEdit
  BY <1>5 DEF RequeteEdit, EtapesCreer, EtapesPret, EtapesEdit, EtapesSuppr
<1>6. CASE req[w] \in RequeteSuppr
  BY <1>6 DEF RequeteSuppr, EtapesCreer, EtapesPret, EtapesEdit, EtapesSuppr
<1> QED
  BY <1>1, <1>2, <1>3, <1>4, <1>5, <1>6 DEF Requete

\* The reservation endpoints keep the types.
LEMMA TypeReservation == TypeOK /\ ReservationNext => TypeOK'
<1> SUFFICES ASSUME TypeOK, ReservationNext
             PROVE  TypeOK'
  OBVIOUS
<1> USE ConstantesAssumption
<1>1. ASSUME NEW w \in Workers, NEW u \in Utilisateurs, NEW l \in Livres,
             CreerDebut(w, u, l)
      PROVE  TypeOK'
  <2>1. [etape |-> "creer_purge", u |-> u, l |-> l,
         emprunteLu |-> livreEmprunt[l] # NULL, cutoff |-> 0] \in Requete
    BY DEF Requete, RequeteCreer, EtapesCreer
  <2> QED
    BY <1>1, <2>1, ReqType DEF CreerDebut, Entre, TypeOK, base
<1>2. ASSUME NEW w \in Workers, CreerPurge(w)
      PROVE  TypeOK'
  <2>1. req[w] \in RequeteCreer
    BY <1>2, FormeRequete DEF CreerPurge, EtapesCreer
  <2>2. Cutoff \in Int
    BY DEF Cutoff, TypeOK
  <2>3. [req[w] EXCEPT !.etape = "creer_compte", !.cutoff = Cutoff] \in Requete
    BY <2>1, <2>2 DEF Requete, RequeteCreer, EtapesCreer
  <2>4. req' = [req EXCEPT ![w] =
                  [req[w] EXCEPT !.etape = "creer_compte", !.cutoff = Cutoff]]
    BY <1>2 DEF CreerPurge, TypeOK
  <2> QED
    BY <1>2, <2>3, <2>4, ReqType DEF CreerPurge, purgeExpired, TypeOK
<1>3. ASSUME NEW w \in Workers, CreerCompte(w) \/ CreerConflit(w) \/ CreerInsere(w)
      PROVE  TypeOK'
  <2>1. req[w] \in RequeteCreer
    BY <1>3, FormeRequete DEF CreerCompte, CreerConflit, CreerInsere, EtapesCreer
  <2>2. /\ [req[w] EXCEPT !.etape = "creer_conflit"] \in Requete
        /\ [req[w] EXCEPT !.etape = "creer_insere"] \in Requete
        /\ Repos \in Requete
    BY <2>1 DEF Requete, RequeteCreer, EtapesCreer
  <2>3. req' \in [Workers -> Requete]
    BY <1>3, <2>2, ReqType
       DEF CreerCompte, CreerConflit, CreerInsere, Fin, Passe, TypeOK
  <2>4. reservations' \subseteq Reservation /\ seqResa' \in Nat
    BY <1>3, <2>1
       DEF CreerCompte, CreerConflit, CreerInsere, TypeOK, base, Reservation,
           RequeteCreer
  <2> QED
    BY <1>3, <2>3, <2>4 DEF CreerCompte, CreerConflit, CreerInsere, TypeOK, base
<1>4. ASSUME ListerReservations \/ ExpirerReservations
      PROVE  TypeOK'
  BY <1>4 DEF ListerReservations, ExpirerReservations, purgeExpired, TypeOK
<1>5. ASSUME NEW u, NEW r, Annuler(u, r)
      PROVE  TypeOK'
  BY <1>5 DEF Annuler, TypeOK
<1> QED
  BY <1>1, <1>2, <1>3, <1>4, <1>5 DEF ReservationNext, CreerEtape

\* The loan screens keep the types.
LEMMA TypeEmprunt == TypeOK /\ EmpruntNext => TypeOK'
<1> SUFFICES ASSUME TypeOK, EmpruntNext
             PROVE  TypeOK'
  OBVIOUS
<1>0. Repos \in Requete
  BY DEF Requete
<1>1. ASSUME NEW w \in Workers, NEW u \in Utilisateurs, NEW l \in Livres,
             NEW rendu \in BOOLEAN, PretDebut(w, u, l, rendu)
      PROVE  TypeOK'
  <2>1. [etape |-> "pret_reservation", u |-> u, l |-> l,
         rendu |-> rendu, resa |-> NULL] \in Requete
    BY DEF Requete, RequetePret, EtapesPret, NULL
  <2> QED
    BY <1>1, <2>1, ReqType DEF PretDebut, Entre, TypeOK, base
<1>2. ASSUME NEW w \in Workers, PretReservation(w)
      PROVE  TypeOK'
  <2>1. req[w] \in RequetePret
    BY <1>2, FormeRequete DEF PretReservation, EtapesPret
  <2>2. [req[w] EXCEPT !.etape = "pret_limite"] \in Requete
    BY <2>1 DEF Requete, RequetePret, EtapesPret
  <2>3. ASSUME NEW r \in ResasDeLivre(req[w].l)
        PROVE  [req[w] EXCEPT !.etape = "pret_limite", !.resa = r.id] \in Requete
    <3>1. r.id \in Nat
      BY <2>3 DEF ResasDeLivre, TypeOK, Reservation
    <3> QED
      BY <2>1, <3>1 DEF Requete, RequetePret, EtapesPret
  <2>4. req' \in [Workers -> Requete]
    <3>1. CASE Passe(w, "pret_limite")
      BY <3>1, <2>2, ReqType DEF Passe, TypeOK
    <3>2. CASE Fin(w)
      BY <3>2, <1>0, ReqType DEF Fin
    <3>3. ASSUME NEW r \in ResasDeLivre(req[w].l),
                 req' = [req EXCEPT ![w].etape = "pret_limite", ![w].resa = r.id]
          PROVE  req' \in [Workers -> Requete]
      <4>1. req' = [req EXCEPT ![w] =
                      [req[w] EXCEPT !.etape = "pret_limite", !.resa = r.id]]
        BY <3>3 DEF TypeOK
      <4> QED
        BY <4>1, <2>3, ReqType
    <3> QED
      BY <1>2, <3>1, <3>2, <3>3 DEF PretReservation
  <2> QED
    BY <1>2, <2>4 DEF PretReservation, TypeOK, base
<1>3. ASSUME NEW w \in Workers, PretLimite(w) \/ PretEnCours(w) \/ PretInsere(w)
      PROVE  TypeOK'
  <2>1. req[w] \in RequetePret
    BY <1>3, FormeRequete DEF PretLimite, PretEnCours, PretInsere, EtapesPret
  <2>2. /\ [req[w] EXCEPT !.etape = "pret_encours"] \in Requete
        /\ [req[w] EXCEPT !.etape = "pret_insere"] \in Requete
    BY <2>1 DEF Requete, RequetePret, EtapesPret
  <2>3. req' \in [Workers -> Requete]
    BY <1>0, <1>3, <2>2, ReqType
       DEF PretLimite, PretEnCours, PretInsere, Fin, Passe, TypeOK
  <2>4. /\ reservations' \subseteq Reservation
        /\ emprunts' \subseteq Emprunt
        /\ livreEmprunt' \in [Livres -> Nat]
        /\ seqEmprunt' \in Nat
    <3>1. CASE PretLimite(w) \/ PretEnCours(w)
      BY <3>1 DEF PretLimite, PretEnCours, TypeOK, base
    <3>2. CASE PretInsere(w)
      BY <3>2, <2>1 DEF PretInsere, TypeOK, Emprunt, RequetePret
    <3> QED
      BY <1>3, <3>1, <3>2
  <2> QED
    BY <1>3, <2>3, <2>4 DEF PretLimite, PretEnCours, PretInsere, TypeOK, base
<1>4. ASSUME NEW w \in Workers, NEW e \in emprunts, NEW u \in Utilisateurs,
             NEW l \in Livres, NEW rendu \in BOOLEAN, EditDebut(w, e, u, l, rendu)
      PROVE  TypeOK'
  <2>1. e \in Emprunt
    BY <1>4 DEF TypeOK
  <2>2. [etape |-> "edit_livre", avant |-> e, u |-> u, l |-> l,
         rendu |-> rendu, pointeur |-> NULL] \in Requete
    BY <2>1 DEF Requete, RequeteEdit, EtapesEdit, NULL
  <2> QED
    BY <1>4, <2>2, ReqType DEF EditDebut, Entre, TypeOK, base
<1>5. ASSUME NEW w \in Workers, EditLivre(w)
      PROVE  TypeOK'
  <2>1. req[w] \in RequeteEdit
    BY <1>5, FormeRequete DEF EditLivre, EtapesEdit
  <2>2. livreEmprunt[req[w].l] \in Nat
    BY <2>1 DEF RequeteEdit, TypeOK
  <2>3. [req[w] EXCEPT !.etape = "edit_flush",
                       !.pointeur = livreEmprunt[req[w].l]] \in Requete
    BY <2>1, <2>2 DEF Requete, RequeteEdit, EtapesEdit
  <2>4. \/ Fin(w)
        \/ req' = [req EXCEPT ![w] =
                     [req[w] EXCEPT !.etape = "edit_flush",
                                    !.pointeur = livreEmprunt[req[w].l]]]
    BY <1>5 DEF EditLivre, TypeOK
  <2>5. req' \in [Workers -> Requete]
    BY <1>0, <2>3, <2>4, ReqType DEF Fin
  <2> QED
    BY <1>5, <2>5 DEF EditLivre, TypeOK, base
<1>6. ASSUME NEW w \in Workers, EditFlush(w)
      PROVE  TypeOK'
  <2>1. req[w] \in RequeteEdit
    BY <1>6, FormeRequete DEF EditFlush, EtapesEdit
  <2>2. ASSUME NEW e \in Emprunt
        PROVE  Modifie(e, req[w]) \in Emprunt
    BY <2>1 DEF Modifie, RequeteEdit, Emprunt
  <2>3. PointeurVoulu(req[w]) \in Nat
    BY <2>1 DEF PointeurVoulu, RequeteEdit, Emprunt, NULL
  <2>4. emprunts' \subseteq Emprunt
    BY <1>6, <2>2 DEF EditFlush, TypeOK
  <2>5. livreEmprunt' \in [Livres -> Nat]
    BY <1>6, <2>3 DEF EditFlush, TypeOK
  <2>6. req' \in [Workers -> Requete]
    BY <1>0, <1>6, ReqType DEF EditFlush, Fin
  <2> QED
    BY <1>6, <2>4, <2>5, <2>6 DEF EditFlush, TypeOK
<1>7. ASSUME NEW e, SupprPret(e)
      PROVE  TypeOK'
  BY <1>7 DEF SupprPret, PointeursSans, TypeOK, NULL
<1> QED
  BY <1>1, <1>2, <1>3, <1>4, <1>5, <1>6, <1>7 DEF EmpruntNext, PretEtape

\* The other EasyAdmin screens keep the types.
LEMMA TypeAdmin == TypeOK /\ AdminNext => TypeOK'
<1> SUFFICES ASSUME TypeOK, AdminNext
             PROVE  TypeOK'
  OBVIOUS
<1>1. ASSUME NEW w \in Workers, NEW u \in Utilisateurs, SupprUtilisateurDebut(w, u)
      PROVE  TypeOK'
  <2>1. /\ {r.id : r \in ResasDe(u)} \subseteq Nat
        /\ {e.id : e \in {x \in emprunts : x.utilisateur = u}} \subseteq Nat
    BY DEF ResasDe, TypeOK, Reservation, Emprunt
  <2>2. [etape |-> "suppr_flush", u |-> u, resas |-> {r.id : r \in ResasDe(u)},
         emps |-> {e.id : e \in {x \in emprunts : x.utilisateur = u}}] \in Requete
    BY <2>1 DEF Requete, RequeteSuppr, EtapesSuppr
  <2> QED
    BY <1>1, <2>2, ReqType DEF SupprUtilisateurDebut, Entre, TypeOK, base
<1>2. ASSUME NEW w \in Workers, SupprUtilisateurFlush(w)
      PROVE  TypeOK'
  <2>1. req' \in [Workers -> Requete]
    BY <1>2, ReqType DEF SupprUtilisateurFlush, Fin, Requete
  <2> QED
    BY <1>2, <2>1 DEF SupprUtilisateurFlush, PointeursSans, TypeOK, NULL
<1>3. ASSUME NEW l \in Livres, SupprLivre(l)
      PROVE  TypeOK'
  BY <1>3 DEF SupprLivre, TypeOK, NULL
<1>4. ASSUME NEW r, AdminSupprimeResa(r)
      PROVE  TypeOK'
  BY <1>4 DEF AdminSupprimeResa, TypeOK
<1>5. ASSUME NEW r, NEW date \in DatesEditables, AdminEditeResa(r, date)
      PROVE  TypeOK'
  <2>1. r \in Reservation /\ date \in Int
    BY <1>5, ConstantesAssumption DEF AdminEditeResa, TypeOK
  <2>2. [r EXCEPT !.dateResa = date] \in Reservation
    BY <2>1 DEF Reservation
  <2> QED
    BY <1>5, <2>2 DEF AdminEditeResa, TypeOK
<1> QED
  BY <1>1, <1>2, <1>3, <1>4, <1>5 DEF AdminNext

\* One step of the whole back end keeps the types.
LEMMA TypeNext == TypeOK /\ [Next]_vars => TypeOK'
<1> SUFFICES ASSUME TypeOK, [Next]_vars
             PROVE  TypeOK'
  OBVIOUS
<1>1. CASE Tick
  BY <1>1 DEF Tick, TypeOK, base
<1>2. CASE UNCHANGED vars
  BY <1>2 DEF vars, TypeOK, base
<1> QED
  BY <1>1, <1>2, TypeReservation, TypeEmprunt, TypeAdmin DEF Next

\* Rows and requests keep their form, for any members, books, workers and
\* limits.
THEOREM TypeCorrecte == Spec => []TypeOK
<1>1. Init => TypeOK
  BY DEF Init, TypeOK, NULL, Requete
<1> QED
  BY <1>1, TypeNext, PTL DEF Spec

-----------------------------------------------------------------------------
(***************************************************************************)
(* Foreign keys.                                                           *)
(***************************************************************************)

Cles == TypeOK /\ IntegriteReferentielle

\* Steps that leave the tables alone keep the foreign keys.
LEMMA ClesCalme ==
    ASSUME Cles, UNCHANGED base
    PROVE  IntegriteReferentielle'
BY DEF Cles, IntegriteReferentielle, ResasDe, base

\* Deleting reservations keeps the foreign keys.
LEMMA ClesMoinsDeResas ==
    ASSUME Cles, reservations' \subseteq reservations,
           UNCHANGED <<emprunts, livreEmprunt, livres, utilisateurs>>
    PROVE  IntegriteReferentielle'
BY DEF Cles, IntegriteReferentielle

\* The reservation endpoints keep the foreign keys.
LEMMA ClesReservation == Cles /\ ReservationNext => IntegriteReferentielle'
<1> SUFFICES ASSUME Cles, ReservationNext
             PROVE  IntegriteReferentielle'
  OBVIOUS
<1>1. ASSUME NEW w \in Workers, NEW u \in Utilisateurs, NEW l \in Livres,
             CreerDebut(w, u, l)
      PROVE  IntegriteReferentielle'
  BY <1>1, ClesCalme DEF CreerDebut
<1>2. ASSUME NEW w \in Workers, CreerPurge(w)
      PROVE  IntegriteReferentielle'
  BY <1>2, ClesMoinsDeResas DEF CreerPurge, purgeExpired
<1>3. ASSUME NEW w \in Workers, CreerCompte(w) \/ CreerConflit(w)
      PROVE  IntegriteReferentielle'
  BY <1>3, ClesCalme DEF CreerCompte, CreerConflit
<1>4. ASSUME NEW w \in Workers, CreerInsere(w)
      PROVE  IntegriteReferentielle'
  BY <1>4 DEF CreerInsere, Cles, IntegriteReferentielle
<1>5. ASSUME \/ ListerReservations \/ ExpirerReservations
             \/ \E r \in reservations : \E u \in Utilisateurs : Annuler(u, r)
      PROVE  IntegriteReferentielle'
  BY <1>5, ClesMoinsDeResas
     DEF ListerReservations, ExpirerReservations, Annuler, purgeExpired
<1> QED
  BY <1>1, <1>2, <1>3, <1>4, <1>5 DEF ReservationNext, CreerEtape

\* The loan screens keep the foreign keys.
LEMMA ClesEmprunt == Cles /\ EmpruntNext => IntegriteReferentielle'
<1> SUFFICES ASSUME Cles, EmpruntNext
             PROVE  IntegriteReferentielle'
  OBVIOUS
<1>1. ASSUME NEW w \in Workers, NEW u \in Utilisateurs, NEW l \in Livres,
             NEW rendu \in BOOLEAN, PretDebut(w, u, l, rendu)
      PROVE  IntegriteReferentielle'
  BY <1>1, ClesCalme DEF PretDebut
<1>2. ASSUME NEW w \in Workers, \/ PretReservation(w) \/ PretLimite(w)
                                \/ PretEnCours(w) \/ EditLivre(w)
      PROVE  IntegriteReferentielle'
  BY <1>2, ClesCalme DEF PretReservation, PretLimite, PretEnCours, EditLivre
<1>3. ASSUME NEW w \in Workers, NEW e \in emprunts, NEW u \in Utilisateurs,
             NEW l \in Livres, NEW rendu \in BOOLEAN, EditDebut(w, e, u, l, rendu)
      PROVE  IntegriteReferentielle'
  BY <1>3, ClesCalme DEF EditDebut
<1>4. ASSUME NEW w \in Workers, PretInsere(w)
      PROVE  IntegriteReferentielle'
  <2>1. req[w] \in RequetePret
    BY <1>4, FormeRequete DEF PretInsere, EtapesPret, Cles
  <2>2. CASE UNCHANGED <<seqEmprunt, emprunts, livreEmprunt, reservations>>
    BY <1>4, <2>2, ClesMoinsDeResas DEF PretInsere
  <2>3. ASSUME NEW n, n.id = seqEmprunt + 1,
               n.utilisateur = req[w].u, n.livre = req[w].l,
               req[w].u \in utilisateurs, req[w].l \in livres,
               emprunts' = emprunts \cup {n},
               livreEmprunt' = IF req[w].rendu THEN livreEmprunt
                               ELSE [livreEmprunt EXCEPT ![req[w].l] = seqEmprunt + 1],
               reservations' \subseteq reservations
        PROVE  IntegriteReferentielle'
    <3>1. livres' = livres /\ utilisateurs' = utilisateurs
      BY <1>4 DEF PretInsere
    <3>2. \A l \in Livres : livreEmprunt'[l] # NULL =>
             l \in livres' /\ \E e \in emprunts' : e.id = livreEmprunt'[l]
      <4> SUFFICES ASSUME NEW l \in Livres, livreEmprunt'[l] # NULL
                   PROVE  l \in livres' /\ \E e \in emprunts' : e.id = livreEmprunt'[l]
        OBVIOUS
      <4>1. CASE livreEmprunt'[l] = livreEmprunt[l]
        BY <2>3, <3>1, <4>1 DEF Cles, IntegriteReferentielle
      <4>2. CASE livreEmprunt'[l] # livreEmprunt[l]
        <5>1. l = req[w].l /\ livreEmprunt'[l] = seqEmprunt + 1
          BY <2>1, <2>3, <4>2 DEF Cles, TypeOK, RequetePret
        <5> QED
          BY <2>3, <3>1, <5>1
      <4> QED
        BY <4>1, <4>2
    <3> QED
      BY <2>3, <3>1, <3>2 DEF Cles, IntegriteReferentielle
  <2>4. \/ UNCHANGED <<seqEmprunt, emprunts, livreEmprunt, reservations>>
        \/ /\ req[w].u \in utilisateurs /\ req[w].l \in livres
           /\ emprunts' = emprunts \cup
                 {[id |-> seqEmprunt + 1, utilisateur |-> req[w].u,
                   livre |-> req[w].l, rendu |-> req[w].rendu]}
           /\ livreEmprunt' = IF req[w].rendu THEN livreEmprunt
                              ELSE [livreEmprunt EXCEPT ![req[w].l] = seqEmprunt + 1]
           /\ reservations' \subseteq reservations
    BY <1>4 DEF PretInsere
  <2> QED
    BY <2>2, <2>3, <2>4
<1>5. ASSUME NEW w \in Workers, EditFlush(w)
      PROVE  IntegriteReferentielle'
  <2> DEFINE q == req[w]
  <2>1. q \in RequeteEdit
    BY <1>5, FormeRequete DEF EditFlush, EtapesEdit, Cles
  <2>2. CASE UNCHANGED <<emprunts, livreEmprunt>>
    BY <1>5, <2>2, ClesMoinsDeResas DEF EditFlush
  <2>3. CASE /\ EditClesOk(q)
             /\ emprunts' = {IF e.id = q.avant.id THEN Modifie(e, q) ELSE e :
                                e \in emprunts}
             /\ livreEmprunt' =
                   IF PointeurVoulu(q) # q.pointeur /\ q.l \in livres
                   THEN [livreEmprunt EXCEPT ![q.l] = PointeurVoulu(q)]
                   ELSE livreEmprunt
    <3>1. /\ livres' = livres /\ utilisateurs' = utilisateurs
          /\ reservations' = reservations
      BY <1>5 DEF EditFlush
    <3>2. \A e \in emprunts : e \in Emprunt
      BY DEF Cles, TypeOK
    <3>3. ASSUME NEW e \in emprunts
          PROVE  /\ Modifie(e, q).id = e.id
                 /\ e.id = q.avant.id =>
                       /\ Modifie(e, q).utilisateur \in utilisateurs
                       /\ Modifie(e, q).livre \in livres
      BY <2>3, <3>2 DEF Modifie, EditClesOk, Cles, IntegriteReferentielle, Emprunt
    <3>4. \A e \in emprunts' : e.utilisateur \in utilisateurs' /\ e.livre \in livres'
      BY <2>3, <3>1, <3>3 DEF Cles, IntegriteReferentielle
    <3>5. ASSUME NEW e \in emprunts
          PROVE  \E x \in emprunts' : x.id = e.id
      BY <2>3, <3>3
    <3>6. \A l \in Livres : livreEmprunt'[l] # NULL =>
             l \in livres' /\ \E e \in emprunts' : e.id = livreEmprunt'[l]
      <4> SUFFICES ASSUME NEW l \in Livres, livreEmprunt'[l] # NULL
                   PROVE  l \in livres' /\ \E e \in emprunts' : e.id = livreEmprunt'[l]
        OBVIOUS
      <4>1. CASE livreEmprunt'[l] = livreEmprunt[l]
        BY <3>1, <3>5, <4>1 DEF Cles, IntegriteReferentielle
      <4>2. CASE livreEmprunt'[l] # livreEmprunt[l]
        <5>1. /\ l = q.l /\ livreEmprunt'[l] = PointeurVoulu(q)
              /\ PointeurVoulu(q) # q.pointeur /\ q.l \in livres
          BY <2>1, <2>3, <4>2 DEF Cles, TypeOK, RequeteEdit
        <5>2. PointeurVoulu(q) = q.avant.id
          BY <5>1 DEF PointeurVoulu
        <5>3. \E e \in emprunts : e.id = q.avant.id
          BY <2>3, <5>1 DEF EditClesOk
        <5> QED
          BY <3>1, <3>5, <5>1, <5>2, <5>3
      <4> QED
        BY <4>1, <4>2
    <3> QED
      BY <3>1, <3>4, <3>6 DEF Cles, IntegriteReferentielle
  <2> QED
    BY <1>5, <2>2, <2>3 DEF EditFlush
<1>6. ASSUME NEW e, SupprPret(e)
      PROVE  IntegriteReferentielle'
  BY <1>6 DEF SupprPret, PointeursSans, Cles, IntegriteReferentielle, NULL
<1> QED
  BY <1>1, <1>2, <1>3, <1>4, <1>5, <1>6 DEF EmpruntNext, PretEtape

\* The other EasyAdmin screens keep the foreign keys.
LEMMA ClesAdmin == Cles /\ AdminNext => IntegriteReferentielle'
<1> SUFFICES ASSUME Cles, AdminNext
             PROVE  IntegriteReferentielle'
  OBVIOUS
<1>1. ASSUME NEW w \in Workers, NEW u \in Utilisateurs, SupprUtilisateurDebut(w, u)
      PROVE  IntegriteReferentielle'
  BY <1>1, ClesCalme DEF SupprUtilisateurDebut
<1>2. ASSUME NEW w \in Workers, SupprUtilisateurFlush(w)
      PROVE  IntegriteReferentielle'
  BY <1>2 DEF SupprUtilisateurFlush, PointeursSans, Cles, IntegriteReferentielle, NULL
<1>3. ASSUME NEW l \in Livres, SupprLivre(l)
      PROVE  IntegriteReferentielle'
  BY <1>3 DEF SupprLivre, Cles, IntegriteReferentielle, TypeOK, NULL, ResasDeLivre
<1>4. ASSUME NEW r, AdminSupprimeResa(r)
      PROVE  IntegriteReferentielle'
  BY <1>4, ClesMoinsDeResas DEF AdminSupprimeResa
<1>5. ASSUME NEW r, NEW date \in DatesEditables, AdminEditeResa(r, date)
      PROVE  IntegriteReferentielle'
  <2>1. r \in Reservation
    BY <1>5 DEF AdminEditeResa, Cles, TypeOK
  <2>2. /\ [r EXCEPT !.dateResa = date].utilisateur = r.utilisateur
        /\ [r EXCEPT !.dateResa = date].livre = r.livre
    BY <2>1 DEF Reservation
  <2> QED
    BY <1>5, <2>2 DEF AdminEditeResa, Cles, IntegriteReferentielle
<1> QED
  BY <1>1, <1>2, <1>3, <1>4, <1>5 DEF AdminNext

\* No request, however it is interleaved with deletions of accounts, books and
\* loans, leaves a row or a pointer that refers to a deleted one.
THEOREM IntegriteCorrecte == Spec => []IntegriteReferentielle
<1>1. Init => IntegriteReferentielle
  BY DEF Init, IntegriteReferentielle, NULL
<1>2. TypeOK /\ IntegriteReferentielle /\ [Next]_vars => IntegriteReferentielle'
  <2> SUFFICES ASSUME Cles, [Next]_vars
               PROVE  IntegriteReferentielle'
    BY DEF Cles
  <2>1. CASE Tick \/ UNCHANGED vars
    BY <2>1, ClesCalme DEF Tick, vars
  <2> QED
    BY <2>1, ClesReservation, ClesEmprunt, ClesAdmin DEF Next
<1> QED
  BY <1>1, <1>2, TypeCorrecte, PTL DEF Spec

-----------------------------------------------------------------------------
(***************************************************************************)
(* Why a reservation may disappear.                                        *)
(***************************************************************************)

\* The ids a request has read still mean what they meant when it read them: a
\* loan holds the id of a reservation of its own book and member, the deletion
\* of an account the ids of that member's reservations.
RequeteSure(q) ==
    /\ q.etape \in EtapesPret =>
          /\ q.resa <= seqResa
          /\ \A r \in reservations :
                r.id = q.resa => r.livre = q.l /\ r.utilisateur = q.u
    /\ q.etape \in EtapesSuppr =>
          /\ \A i \in q.resas : i <= seqResa
          /\ \A r \in reservations : r.id \in q.resas => r.utilisateur = q.u

\* The inductive invariant: rows are deleted by ids that were read in an
\* earlier statement, so the step needs that AUTO_INCREMENT never gives an id
\* out twice.
InvIds ==
    /\ TypeOK
    /\ \A r \in reservations : r.id <= seqResa
    /\ \A r, s \in reservations : r.id = s.id => r = s
    /\ \A w \in Workers : RequeteSure(req[w])

\* A loan that is inserted is a new row.
InvEmprunts == \A e \in emprunts : e.id <= seqEmprunt

\* Fewer reservations.
LEMMA IdsMoins ==
    ASSUME InvIds, reservations' \subseteq reservations, seqResa' = seqResa
    PROVE  /\ (\A r \in reservations : r.id <= seqResa)'
           /\ (\A r, s \in reservations : r.id = s.id => r = s)'
           /\ \A w \in Workers : req'[w] = req[w] => RequeteSure(req[w])'
<1>1. \A w \in Workers : req'[w] = req[w] => RequeteSure(req[w])'
  <2> SUFFICES ASSUME NEW w \in Workers, req'[w] = req[w]
               PROVE  RequeteSure(req[w])'
    OBVIOUS
  <2>1. RequeteSure(req[w])
    BY DEF InvIds
  <2> QED
    BY <2>1 DEF RequeteSure
<1> QED
  BY <1>1 DEF InvIds

\* One reservation more, with the next id.
LEMMA IdsPlus ==
    ASSUME InvIds, NEW n, n.id = seqResa + 1,
           reservations' = reservations \cup {n}, seqResa' = seqResa + 1
    PROVE  /\ (\A r \in reservations : r.id <= seqResa)'
           /\ (\A r, s \in reservations : r.id = s.id => r = s)'
           /\ \A w \in Workers : req'[w] = req[w] => RequeteSure(req[w])'
<1>1. seqResa \in Nat /\ \A r \in reservations : r.id \in Nat /\ r.id <= seqResa
  BY DEF InvIds, TypeOK, Reservation
<1>2. \A w \in Workers : req'[w] = req[w] => RequeteSure(req[w])'
  <2> SUFFICES ASSUME NEW w \in Workers, req'[w] = req[w]
               PROVE  RequeteSure(req[w])'
    OBVIOUS
  <2>1. RequeteSure(req[w])
    BY DEF InvIds
  <2>2. CASE req[w].etape \in EtapesPret
    <3>1. req[w].resa \in Nat /\ req[w].etape \notin EtapesSuppr
      BY <2>2, FormeRequete DEF InvIds, RequetePret, EtapesPret, EtapesSuppr
    <3> QED
      BY <1>1, <2>1, <2>2, <3>1 DEF RequeteSure
  <2>3. CASE req[w].etape \in EtapesSuppr
    <3>1. req[w].resas \subseteq Nat /\ req[w].etape \notin EtapesPret
      BY <2>3, FormeRequete DEF InvIds, RequeteSuppr, EtapesPret, EtapesSuppr
    <3> QED
      BY <1>1, <2>1, <2>3, <3>1 DEF RequeteSure
  <2> QED
    BY <2>2, <2>3 DEF RequeteSure
<1> QED
  BY <1>1, <1>2 DEF InvIds

\* A step that adds no reservation and touches no loan or account deletion
\* request, or only ends it.
LEMMA IdsCalme ==
    ASSUME InvIds, TypeOK', reservations' \subseteq reservations, seqResa' = seqResa,
           \A w \in Workers : \/ req'[w] = req[w]
                              \/ req'[w].etape \notin EtapesPret \cup EtapesSuppr
    PROVE  InvIds'
<1>1. \A w \in Workers : RequeteSure(req[w])'
  <2> SUFFICES ASSUME NEW w \in Workers
               PROVE  RequeteSure(req[w])'
    OBVIOUS
  <2>1. CASE req'[w] = req[w]
    BY <2>1, IdsMoins
  <2>2. CASE req'[w].etape \notin EtapesPret \cup EtapesSuppr
    BY <2>2 DEF RequeteSure
  <2> QED
    BY <2>1, <2>2
<1> QED
  BY <1>1, IdsMoins DEF InvIds

\* The reservation endpoints keep the invariant.
LEMMA IdsReservation ==
    ASSUME InvIds, TypeOK', ReservationNext
    PROVE  InvIds'
<1> USE DEF base, Repos
<1>0. TypeOK
  BY DEF InvIds
<1>1. ASSUME NEW w \in Workers, NEW u \in Utilisateurs, NEW l \in Livres,
             CreerDebut(w, u, l)
      PROVE  InvIds'
  <2>1. \A v \in Workers : \/ req'[v] = req[v]
                           \/ req'[v].etape \notin EtapesPret \cup EtapesSuppr
    BY <1>0, <1>1 DEF CreerDebut, Entre, TypeOK, EtapesPret, EtapesSuppr
  <2> QED
    BY <1>1, <2>1, IdsCalme DEF CreerDebut
<1>2. ASSUME NEW w \in Workers, CreerPurge(w) \/ CreerCompte(w) \/ CreerConflit(w)
      PROVE  InvIds'
  <2>1. req[w] \in RequeteCreer
    BY <1>0, <1>2, FormeRequete DEF CreerPurge, CreerCompte, CreerConflit, EtapesCreer
  <2>2. \A v \in Workers : \/ req'[v] = req[v]
                           \/ req'[v].etape \notin EtapesPret \cup EtapesSuppr
    BY <1>0, <1>2, <2>1
       DEF CreerPurge, CreerCompte, CreerConflit, Fin, Passe, TypeOK, RequeteCreer,
           EtapesPret, EtapesSuppr
  <2>3. reservations' \subseteq reservations /\ seqResa' = seqResa
    BY <1>2 DEF CreerPurge, CreerCompte, CreerConflit, purgeExpired
  <2> QED
    BY <2>2, <2>3, IdsCalme
<1>3. ASSUME NEW w \in Workers, CreerInsere(w)
      PROVE  InvIds'
  <2>1. \A v \in Workers : req'[v] = req[v] \/ req'[v] = Repos
    BY <1>0, <1>3 DEF CreerInsere, Fin, TypeOK
  <2>2. CASE UNCHANGED <<reservations, seqResa>>
    BY <2>1, <2>2, IdsCalme DEF EtapesPret, EtapesSuppr
  <2>3. ASSUME NEW n, n.id = seqResa + 1,
               reservations' = reservations \cup {n}, seqResa' = seqResa + 1
        PROVE  InvIds'
    <3>1. \A v \in Workers : RequeteSure(req[v])'
      <4> SUFFICES ASSUME NEW v \in Workers
                   PROVE  RequeteSure(req[v])'
        OBVIOUS
      <4>1. CASE req'[v] = req[v]
        BY <2>3, <4>1, IdsPlus
      <4>2. CASE req'[v] = Repos
        BY <4>2 DEF RequeteSure, EtapesPret, EtapesSuppr
      <4> QED
        BY <2>1, <4>1, <4>2
    <3> QED
      BY <2>3, <3>1, IdsPlus DEF InvIds
  <2>4. \/ UNCHANGED <<reservations, seqResa>>
        \/ /\ seqResa' = seqResa + 1
           /\ reservations' = reservations \cup
                 {[id |-> seqResa + 1, utilisateur |-> req[w].u,
                   livre |-> req[w].l, dateResa |-> maintenant]}
    BY <1>3 DEF CreerInsere
  <2> QED
    BY <2>2, <2>3, <2>4
<1>4. ASSUME \/ ListerReservations \/ ExpirerReservations
             \/ \E r \in reservations : \E u \in Utilisateurs : Annuler(u, r)
      PROVE  InvIds'
  <2>1. reservations' \subseteq reservations /\ seqResa' = seqResa /\ req' = req
    BY <1>4 DEF ListerReservations, ExpirerReservations, Annuler, purgeExpired
  <2> QED
    BY <2>1, IdsCalme
<1> QED
  BY <1>1, <1>2, <1>3, <1>4 DEF ReservationNext, CreerEtape

\* The loan screens keep the invariant.
LEMMA IdsEmprunt ==
    ASSUME InvIds, TypeOK', EmpruntNext
    PROVE  InvIds'
<1> USE DEF base, Repos, NULL
<1>0. TypeOK
  BY DEF InvIds
<1>1. ASSUME NEW w \in Workers, NEW u \in Utilisateurs, NEW l \in Livres,
             NEW rendu \in BOOLEAN, PretDebut(w, u, l, rendu)
      PROVE  InvIds'
  <2>1. reservations' = reservations /\ seqResa' = seqResa
    BY <1>1 DEF PretDebut
  <2>2. \A r \in reservations : r.id # 0
    BY <1>0 DEF TypeOK, Reservation
  <2>3. \A v \in Workers : RequeteSure(req[v])'
    <3> SUFFICES ASSUME NEW v \in Workers
                 PROVE  RequeteSure(req[v])'
      OBVIOUS
    <3>1. CASE v # w
      <4>1. req'[v] = req[v]
        BY <1>0, <1>1, <3>1 DEF PretDebut, Entre, TypeOK
      <4> QED
        BY <2>1, <4>1, IdsMoins
    <3>2. CASE v = w
      <4>1. req'[w].etape \notin EtapesSuppr /\ req'[w].resa = 0
        BY <1>0, <1>1 DEF PretDebut, Entre, TypeOK, EtapesSuppr
      <4>2. 0 <= seqResa
        BY <1>0 DEF TypeOK
      <4> QED
        BY <2>1, <2>2, <3>2, <4>1, <4>2 DEF RequeteSure
    <3> QED
      BY <3>1, <3>2
  <2> QED
    BY <2>1, <2>3, IdsMoins DEF InvIds
<1>2. ASSUME NEW w \in Workers,
             PretReservation(w) \/ PretLimite(w) \/ PretEnCours(w)
      PROVE  InvIds'
  <2>1. reservations' = reservations /\ seqResa' = seqResa
    BY <1>2 DEF PretReservation, PretLimite, PretEnCours
  <2>2. req[w] \in RequetePret /\ req[w].etape \in EtapesPret
    BY <1>0, <1>2, FormeRequete DEF PretReservation, PretLimite, PretEnCours, EtapesPret
  <2>3. \/ req'[w] = Repos
        \/ /\ req'[w].etape \notin EtapesSuppr
           /\ req'[w].u = req[w].u /\ req'[w].l = req[w].l
           /\ \/ req'[w].resa = req[w].resa
              \/ \E r \in ResasDeLivre(req[w].l) :
                    r.utilisateur = req[w].u /\ req'[w].resa = r.id
    BY <1>0, <1>2, <2>2
       DEF PretReservation, PretLimite, PretEnCours, Fin, Passe, TypeOK, RequetePret,
           EtapesSuppr
  <2>4. RequeteSure(req[w])
    BY DEF InvIds
  <2>5. RequeteSure(req[w])'
    <3>1. CASE req'[w] = Repos
      BY <3>1 DEF RequeteSure, EtapesPret, EtapesSuppr
    <3>2. CASE /\ req'[w].etape \notin EtapesSuppr
               /\ req'[w].u = req[w].u /\ req'[w].l = req[w].l
               /\ req'[w].resa = req[w].resa
      BY <2>1, <2>2, <2>4, <3>2 DEF RequeteSure
    <3>3. ASSUME NEW r \in ResasDeLivre(req[w].l),
                 /\ req'[w].etape \notin EtapesSuppr
                 /\ req'[w].u = req[w].u /\ req'[w].l = req[w].l
                 /\ r.utilisateur = req[w].u /\ req'[w].resa = r.id
          PROVE  RequeteSure(req[w])'
      <4>1. r \in reservations /\ r.livre = req[w].l /\ r.id <= seqResa
        BY DEF ResasDeLivre, InvIds
      <4>2. \A s \in reservations : s.id = r.id => s = r
        BY <4>1 DEF InvIds
      <4> QED
        BY <2>1, <3>3, <4>1, <4>2 DEF RequeteSure
    <3> QED
      BY <2>3, <3>1, <3>2, <3>3
  <2>6. \A v \in Workers : v # w => req'[v] = req[v]
    BY <1>0, <1>2
       DEF PretReservation, PretLimite, PretEnCours, Fin, Passe, TypeOK
  <2>7. \A v \in Workers : RequeteSure(req[v])'
    BY <2>1, <2>5, <2>6, IdsMoins
  <2> QED
    BY <2>1, <2>7, IdsMoins DEF InvIds
<1>3. ASSUME NEW w \in Workers, PretInsere(w) \/ EditLivre(w) \/ EditFlush(w)
      PROVE  InvIds'
  <2>1. reservations' \subseteq reservations /\ seqResa' = seqResa
    BY <1>3 DEF PretInsere, EditLivre, EditFlush
  <2>2. CASE PretInsere(w) \/ EditFlush(w)
    <3>1. \A v \in Workers : req'[v] = req[v] \/ req'[v] = Repos
      BY <1>0, <2>2 DEF PretInsere, EditFlush, Fin, TypeOK
    <3> QED
      BY <2>1, <3>1, IdsCalme DEF EtapesPret, EtapesSuppr
  <2>3. CASE EditLivre(w)
    <3>1. req[w] \in RequeteEdit
      BY <1>0, <2>3, FormeRequete DEF EditLivre, EtapesEdit
    <3>2. \A v \in Workers : \/ req'[v] = req[v]
                             \/ req'[v].etape \notin EtapesPret \cup EtapesSuppr
      BY <1>0, <2>3, <3>1 DEF EditLivre, Fin, TypeOK, RequeteEdit, EtapesPret, EtapesSuppr
    <3> QED
      BY <2>1, <3>2, IdsCalme
  <2> QED
    BY <1>3, <2>2, <2>3
<1>4. ASSUME NEW w \in Workers, NEW e \in emprunts, NEW u \in Utilisateurs,
             NEW l \in Livres, NEW rendu \in BOOLEAN, EditDebut(w, e, u, l, rendu)
      PROVE  InvIds'
  <2>1. \A v \in Workers : \/ req'[v] = req[v]
                           \/ req'[v].etape \notin EtapesPret \cup EtapesSuppr
    BY <1>0, <1>4 DEF EditDebut, Entre, TypeOK, EtapesPret, EtapesSuppr
  <2> QED
    BY <1>4, <2>1, IdsCalme DEF EditDebut
<1>5. ASSUME NEW e \in emprunts, SupprPret(e)
      PROVE  InvIds'
  BY <1>5, IdsCalme DEF SupprPret
<1> QED
  BY <1>1, <1>2, <1>3, <1>4, <1>5 DEF EmpruntNext, PretEtape

\* The other screens keep the invariant.
LEMMA IdsAdmin ==
    ASSUME InvIds, TypeOK', AdminNext
    PROVE  InvIds'
<1> USE DEF base, Repos
<1>0. TypeOK
  BY DEF InvIds
<1>1. ASSUME NEW w \in Workers, NEW u \in Utilisateurs, SupprUtilisateurDebut(w, u)
      PROVE  InvIds'
  <2>1. reservations' = reservations /\ seqResa' = seqResa
    BY <1>1 DEF SupprUtilisateurDebut
  <2>2. /\ req'[w].etape \notin EtapesPret
        /\ req'[w].u = u
        /\ req'[w].resas = {r.id : r \in ResasDe(u)}
    BY <1>0, <1>1 DEF SupprUtilisateurDebut, Entre, TypeOK, EtapesPret
  <2>3. RequeteSure(req[w])'
    <3>1. \A i \in req'[w].resas :
             \E r \in reservations : i = r.id /\ r.utilisateur = u
      BY <2>2 DEF ResasDe
    <3>2. \A i \in req'[w].resas : i <= seqResa
      BY <3>1 DEF InvIds
    <3>3. \A r \in reservations : r.id \in req'[w].resas => r.utilisateur = u
      BY <3>1 DEF InvIds
    <3> QED
      BY <2>1, <2>2, <3>2, <3>3 DEF RequeteSure
  <2>4. \A v \in Workers : v # w => req'[v] = req[v]
    BY <1>0, <1>1 DEF SupprUtilisateurDebut, Entre, TypeOK
  <2>5. \A v \in Workers : RequeteSure(req[v])'
    BY <2>1, <2>3, <2>4, IdsMoins
  <2> QED
    BY <2>1, <2>5, IdsMoins DEF InvIds
<1>2. ASSUME NEW w \in Workers, SupprUtilisateurFlush(w)
      PROVE  InvIds'
  <2>1. \A v \in Workers : req'[v] = req[v] \/ req'[v] = Repos
    BY <1>0, <1>2 DEF SupprUtilisateurFlush, Fin, TypeOK
  <2>2. reservations' \subseteq reservations /\ seqResa' = seqResa
    BY <1>2 DEF SupprUtilisateurFlush
  <2> QED
    BY <2>1, <2>2, IdsCalme DEF EtapesPret, EtapesSuppr
<1>3. ASSUME \/ \E l \in Livres : SupprLivre(l)
             \/ \E r \in reservations : AdminSupprimeResa(r)
      PROVE  InvIds'
  <2>1. reservations' \subseteq reservations /\ seqResa' = seqResa /\ req' = req
    BY <1>3 DEF SupprLivre, AdminSupprimeResa
  <2> QED
    BY <2>1, IdsCalme
<1>4. ASSUME NEW r \in reservations, NEW date \in DatesEditables,
             AdminEditeResa(r, date)
      PROVE  InvIds'
  <2>1. ASSUME NEW n, n.id = r.id, n.utilisateur = r.utilisateur, n.livre = r.livre,
               reservations' = (reservations \ {r}) \cup {n}
        PROVE  InvIds'
    <3>1. seqResa' = seqResa /\ req' = req
      BY <1>4 DEF AdminEditeResa
    <3>2. \A v \in Workers : RequeteSure(req[v])'
      <4> SUFFICES ASSUME NEW v \in Workers
                   PROVE  RequeteSure(req[v])'
        OBVIOUS
      <4>1. RequeteSure(req[v])
        BY DEF InvIds
      <4> QED
        BY <2>1, <3>1, <4>1 DEF RequeteSure
    <3>3. (\A s \in reservations : s.id <= seqResa)'
      BY <2>1, <3>1 DEF InvIds
    <3>4. (\A s, t \in reservations : s.id = t.id => s = t)'
      BY <2>1 DEF InvIds
    <3> QED
      BY <3>2, <3>3, <3>4 DEF InvIds
  <2>2. r \in Reservation
    BY <1>0 DEF TypeOK
  <2>3. LET n == [r EXCEPT !.dateResa = date]
        IN  n.id = r.id /\ n.utilisateur = r.utilisateur /\ n.livre = r.livre
    BY <2>2 DEF Reservation
  <2>4. reservations' = (reservations \ {r}) \cup {[r EXCEPT !.dateResa = date]}
    BY <1>4 DEF AdminEditeResa
  <2> QED
    BY <2>1, <2>3, <2>4
<1> QED
  BY <1>1, <1>2, <1>3, <1>4 DEF AdminNext

\* Every step keeps the invariant.
LEMMA IdsNext == InvIds /\ [Next]_vars => InvIds'
<1> SUFFICES ASSUME InvIds, [Next]_vars
             PROVE  InvIds'
  OBVIOUS
<1>1. TypeOK'
  BY TypeNext DEF InvIds
<1>2. CASE Tick \/ UNCHANGED vars
  <2>1. reservations' = reservations /\ seqResa' = seqResa /\ req' = req
    BY <1>2 DEF Tick, vars, base
  <2> QED
    BY <1>1, <2>1, IdsCalme
<1> QED
  BY <1>1, <1>2, IdsReservation, IdsEmprunt, IdsAdmin DEF Next

\* AUTO_INCREMENT: no loan has an id that has not been given out yet.
LEMMA EmpruntsNext == TypeOK /\ InvEmprunts /\ [Next]_vars => InvEmprunts'
<1> SUFFICES ASSUME TypeOK, InvEmprunts, [Next]_vars
             PROVE  InvEmprunts'
  OBVIOUS
<1> USE DEF base
<1>0. seqEmprunt \in Nat /\ \A e \in emprunts : e \in Emprunt /\ e.id <= seqEmprunt
  BY DEF TypeOK, InvEmprunts
<1>1. CASE emprunts' \subseteq emprunts /\ seqEmprunt' = seqEmprunt
  BY <1>1 DEF InvEmprunts
<1>2. ASSUME NEW n, n.id = seqEmprunt + 1, emprunts' = emprunts \cup {n},
             seqEmprunt' = seqEmprunt + 1
      PROVE  InvEmprunts'
  BY <1>0, <1>2 DEF InvEmprunts, Emprunt
<1>3. ASSUME NEW w \in Workers, PretInsere(w)
      PROVE  InvEmprunts'
  <2>1. \/ emprunts' = emprunts /\ seqEmprunt' = seqEmprunt
        \/ /\ seqEmprunt' = seqEmprunt + 1
           /\ emprunts' = emprunts \cup
                 {[id |-> seqEmprunt + 1, utilisateur |-> req[w].u,
                   livre |-> req[w].l, rendu |-> req[w].rendu]}
    BY <1>3 DEF PretInsere
  <2> QED
    BY <1>1, <1>2, <2>1
<1>4. ASSUME NEW w \in Workers, EditFlush(w)
      PROVE  InvEmprunts'
  <2>1. \A e \in emprunts : Modifie(e, req[w]).id = e.id
    BY <1>0 DEF Modifie, Emprunt
  <2>2. \A e \in emprunts' : \E d \in emprunts : e.id = d.id
    BY <1>4, <2>1, SMTT(60) DEF EditFlush
  <2>3. seqEmprunt' = seqEmprunt
    BY <1>4 DEF EditFlush
  <2> QED
    BY <2>2, <2>3 DEF InvEmprunts
<1>5. CASE ReservationNext \/ AdminNext \/ Tick \/ UNCHANGED vars
  <2>1. emprunts' \subseteq emprunts /\ seqEmprunt' = seqEmprunt
    BY <1>5
       DEF ReservationNext, CreerDebut, CreerEtape, CreerPurge, CreerCompte,
           CreerConflit, CreerInsere, ListerReservations, ExpirerReservations,
           Annuler, AdminNext, SupprUtilisateurDebut, SupprUtilisateurFlush,
           SupprLivre, AdminSupprimeResa, AdminEditeResa, Tick, vars
  <2> QED
    BY <1>1, <2>1
<1>6. CASE EmpruntNext
  <2>1. \/ emprunts' \subseteq emprunts /\ seqEmprunt' = seqEmprunt
        \/ \E w \in Workers : PretInsere(w) \/ EditFlush(w)
    BY <1>6
       DEF EmpruntNext, PretEtape, PretDebut, PretReservation, PretLimite,
           PretEnCours, EditDebut, EditLivre, SupprPret
  <2> QED
    BY <1>1, <1>3, <1>4, <2>1
<1> QED
  BY <1>5, <1>6 DEF Next

\* A loan that is inserted removes at most its borrower's reservation of the
\* book.
LEMMA PretRaison ==
    ASSUME InvIds, InvEmprunts, NEW w \in Workers, PretInsere(w),
           NEW r \in reservations, r \notin reservations'
    PROVE  RaisonDeDisparaitre(r)
<1> USE DEF EtapesPret
<1>1. /\ r.id = req[w].resa
      /\ emprunts' = emprunts \cup
            {[id |-> seqEmprunt + 1, utilisateur |-> req[w].u,
              livre |-> req[w].l, rendu |-> req[w].rendu]}
  BY DEF PretInsere
<1>2. RequeteSure(req[w]) /\ req[w].etape \in EtapesPret
  BY DEF InvIds, PretInsere
<1>3. r.livre = req[w].l /\ r.utilisateur = req[w].u
  BY <1>1, <1>2 DEF RequeteSure
<1>4. ASSUME NEW n, n.id = seqEmprunt + 1, n.utilisateur = req[w].u,
             n.livre = req[w].l, n \in emprunts'
      PROVE  RaisonDeDisparaitre(r)
  <2>1. seqEmprunt \in Nat /\ \A e \in emprunts : e.id <= seqEmprunt
    BY DEF InvIds, TypeOK, InvEmprunts
  <2>2. n \notin emprunts
    BY <1>4, <2>1
  <2> QED
    BY <1>3, <1>4, <2>2 DEF RaisonDeDisparaitre
<1>5. \E n \in emprunts' : /\ n.id = seqEmprunt + 1
                           /\ n.utilisateur = req[w].u /\ n.livre = req[w].l
  <2> DEFINE n == [id |-> seqEmprunt + 1, utilisateur |-> req[w].u,
                   livre |-> req[w].l, rendu |-> req[w].rendu]
  <2>1. n \in emprunts'
    BY <1>1
  <2> WITNESS n \in emprunts'
  <2> QED
    OBVIOUS
<1> QED
  BY <1>4, <1>5

\* The deletion of an account removes none but that member's reservations.
LEMMA SupprRaison ==
    ASSUME InvIds, NEW w \in Workers, SupprUtilisateurFlush(w),
           NEW r \in reservations, r \notin reservations'
    PROVE  RaisonDeDisparaitre(r)
<1>1. /\ r.id \in req[w].resas
      /\ utilisateurs' = utilisateurs \ {req[w].u}
  BY DEF SupprUtilisateurFlush
<1>2. RequeteSure(req[w]) /\ req[w].etape \in EtapesSuppr
  BY DEF InvIds, SupprUtilisateurFlush, EtapesSuppr
<1>3. r.utilisateur = req[w].u
  BY <1>1, <1>2 DEF RequeteSure
<1> QED
  BY <1>1, <1>3 DEF RaisonDeDisparaitre

\* Every step that removes a reservation gives a reason for it.
LEMMA Raison ==
    ASSUME InvIds, InvEmprunts, [Next]_vars, NEW r \in reservations,
           \A s \in reservations' : s.id # r.id
    PROVE  RaisonDeDisparaitre(r)
<1> USE DEF base
<1>1. r \notin reservations'
  OBVIOUS
<1>2. CASE reservations' = purgeExpired(Cutoff)
  <2>1. r.dateResa < Cutoff
    BY <1>1, <1>2 DEF purgeExpired
  <2> QED
    BY <2>1 DEF RaisonDeDisparaitre, Cutoff
<1>3. CASE \E q \in reservations : \E u \in Utilisateurs : Annuler(u, q)
  <2>1. PICK q \in reservations, u \in Utilisateurs : Annuler(u, q)
    BY <1>3
  <2>2. q = r /\ u = r.utilisateur
    BY <1>1, <2>1 DEF Annuler
  <2> QED
    BY <2>1, <2>2 DEF RaisonDeDisparaitre
<1>4. CASE \E q \in reservations : AdminSupprimeResa(q)
  <2>1. PICK q \in reservations : AdminSupprimeResa(q)
    BY <1>4
  <2>2. q = r
    BY <1>1, <2>1 DEF AdminSupprimeResa
  <2> QED
    BY <2>1, <2>2 DEF RaisonDeDisparaitre
<1>5. ASSUME NEW q \in reservations, NEW date \in DatesEditables,
             AdminEditeResa(q, date)
      PROVE  FALSE
  <2>1. q = r
    BY <1>1, <1>5 DEF AdminEditeResa
  <2>2. [r EXCEPT !.dateResa = date] \in reservations'
    BY <1>5, <2>1 DEF AdminEditeResa
  <2>3. [r EXCEPT !.dateResa = date].id = r.id
    BY DEF InvIds, TypeOK, Reservation
  <2> QED
    BY <2>2, <2>3
<1>6. ASSUME ReservationNext
      PROVE  RaisonDeDisparaitre(r)
  <2>1. \/ reservations \subseteq reservations'
        \/ reservations' = purgeExpired(Cutoff)
        \/ \E q \in reservations : \E u \in Utilisateurs : Annuler(u, q)
    BY <1>6
       DEF ReservationNext, CreerDebut, CreerEtape, CreerPurge, CreerCompte,
           CreerConflit, CreerInsere, ListerReservations, ExpirerReservations
  <2> QED
    BY <1>1, <1>2, <1>3, <2>1
<1>7. ASSUME EmpruntNext
      PROVE  RaisonDeDisparaitre(r)
  <2>1. \/ reservations' = reservations
        \/ \E w \in Workers : PretInsere(w)
    BY <1>7
       DEF EmpruntNext, PretEtape, PretDebut, PretReservation, PretLimite,
           PretEnCours, EditDebut, EditLivre, EditFlush, SupprPret
  <2> QED
    BY <1>1, <2>1, PretRaison
<1>8. ASSUME AdminNext
      PROVE  RaisonDeDisparaitre(r)
  <2>1. \/ reservations' = reservations
        \/ \E w \in Workers : SupprUtilisateurFlush(w)
        \/ \E q \in reservations : AdminSupprimeResa(q)
        \/ \E q \in reservations, date \in DatesEditables : AdminEditeResa(q, date)
    BY <1>8 DEF AdminNext, SupprUtilisateurDebut, SupprLivre
  <2> QED
    BY <1>1, <1>4, <1>5, <2>1, SupprRaison
<1>9. CASE Tick \/ UNCHANGED vars
  BY <1>1, <1>9 DEF Tick, vars
<1> QED
  BY <1>6, <1>7, <1>8, <1>9 DEF Next

\* A reservation disappears only when it has expired, its owner or a librarian
\* deletes it, its owner borrows the book, or its owner's account is deleted:
\* for any number of books, members and workers and any interleaving of the
\* statements of ReservationController, EmpruntCrudController and the other
\* screens, dates and loans being edited at will.
THEOREM DisparitionCorrecte == Spec => DisparitionJustifiee
<1>1. Init => InvIds /\ InvEmprunts
  <2> SUFFICES ASSUME Init
               PROVE  InvIds /\ InvEmprunts
    OBVIOUS
  <2>1. TypeOK
    BY DEF Init, TypeOK, NULL, Requete
  <2>2. \A w \in Workers : RequeteSure(req[w])
    BY DEF Init, RequeteSure, Repos, EtapesPret, EtapesSuppr
  <2> QED
    BY <2>1, <2>2 DEF Init, InvIds, InvEmprunts
<1>2. InvIds /\ InvEmprunts /\ [Next]_vars => (InvIds /\ InvEmprunts)'
  BY IdsNext, EmpruntsNext DEF InvIds
<1>3. InvIds /\ InvEmprunts /\ [Next]_vars =>
         [\A r \in reservations :
             (\A s \in reservations' : s.id # r.id) => RaisonDeDisparaitre(r)]_vars
  BY Raison
<1> QED
  BY <1>1, <1>2, <1>3, PTL DEF Spec, DisparitionJustifiee
=============================================================================
