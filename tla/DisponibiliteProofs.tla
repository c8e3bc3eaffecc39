------------------------ MODULE DisponibiliteProofs ------------------------
(***************************************************************************)
(* Loans against reservations of a book.  With any number of workers, a    *)
(* book is both lent and reserved only by requests that overlap.  With one *)
(* worker, as long as edits neither reopen nor move a loan, what members   *)
(* are shown of a book follows its running loan, and every step is one     *)
(* that StatutLivres knows, counting aside.                                *)
(***************************************************************************)
EXTENDS TablesProofs, Chevauchement

-----------------------------------------------------------------------------
(***************************************************************************)
(* Loans and reservations of one book, any number of workers, every edit.  *)
(***************************************************************************)

\* A reservation keeps its id and its book, and a new one has a later id.
ResasSuivent ==
    /\ seqResa' \in Nat /\ seqResa <= seqResa'
    /\ \A r \in reservations' :
          \/ r.id > seqResa
          \/ \E s \in reservations : s.id = r.id /\ s.livre = r.livre

\* What a request knows of the moment it started: past the check of the loan
\* the book pointed to none, and past the look for a reservation without
\* finding one, the book has only later ones.
Vu(w) ==
    /\ req[w].etape \in EtapesCreer => pointeurAvant[w] = NULL \/ req[w].emprunteLu = TRUE
    /\ req[w].etape \in {"creer_conflit", "creer_insere"} => pointeurAvant[w] = NULL
    /\ req[w].etape \in EtapesPret => resaAvant[w] \in Nat /\ resaAvant[w] <= seqResa
    /\ req[w].etape \in {"pret_limite", "pret_encours", "pret_insere"}
          /\ req[w].resa = NULL =>
             \A r \in reservations : r.livre = req[w].l => r.id > resaAvant[w]

\* The inductive invariant.
InvChev == TypeOK /\ \A w \in Workers : Vu(w)

\* The tables of every step.
LEMMA TablesSuivent == TypeOK /\ [Next]_vars => ResasSuivent
<1> SUFFICES ASSUME TypeOK, [Next]_vars
             PROVE  ResasSuivent
  OBVIOUS
<1> USE DEF base
<1>0. seqResa \in Nat /\ reservations \subseteq Reservation
  BY DEF TypeOK
<1>1. CASE reservations' \subseteq reservations /\ seqResa' = seqResa
  BY <1>0, <1>1 DEF ResasSuivent
<1>2. ASSUME NEW w \in Workers, CreerInsere(w)
      PROVE  ResasSuivent
  <2>1. ASSUME NEW n, n.id = seqResa + 1, reservations' = reservations \cup {n},
               seqResa' = seqResa + 1
        PROVE  ResasSuivent
    BY <1>0, <2>1 DEF ResasSuivent
  <2>2. \/ UNCHANGED <<reservations, seqResa>>
        \/ /\ seqResa' = seqResa + 1
           /\ reservations' = reservations \cup
                 {[id |-> seqResa + 1, utilisateur |-> req[w].u,
                   livre |-> req[w].l, dateResa |-> maintenant]}
    BY <1>2 DEF CreerInsere
  <2> QED
    BY <1>1, <2>1, <2>2
<1>3. ASSUME NEW r \in reservations, NEW date \in DatesEditables,
             AdminEditeResa(r, date)
      PROVE  ResasSuivent
  <2>1. ASSUME NEW n, n.id = r.id, n.livre = r.livre,
               reservations' = (reservations \ {r}) \cup {n}
        PROVE  ResasSuivent
    <3>1. seqResa' = seqResa
      BY <1>3 DEF AdminEditeResa
    <3> QED
      BY <1>0, <2>1, <3>1 DEF ResasSuivent
  <2>2. LET n == [r EXCEPT !.dateResa = date]
        IN  n.id = r.id /\ n.livre = r.livre
    BY <1>0 DEF Reservation
  <2>3. reservations' = (reservations \ {r}) \cup {[r EXCEPT !.dateResa = date]}
    BY <1>3 DEF AdminEditeResa
  <2> QED
    BY <2>1, <2>2, <2>3
<1>4. CASE ReservationNext
  <2>1. \/ reservations' \subseteq reservations /\ seqResa' = seqResa
        \/ \E w \in Workers : CreerInsere(w)
    BY <1>4
       DEF ReservationNext, CreerDebut, CreerEtape, CreerPurge, CreerCompte,
           CreerConflit, ListerReservations, ExpirerReservations, Annuler, purgeExpired
  <2> QED
    BY <1>1, <1>2, <2>1
<1>5. CASE EmpruntNext
  <2>1. reservations' \subseteq reservations /\ seqResa' = seqResa
    BY <1>5
       DEF EmpruntNext, PretEtape, PretDebut, PretReservation, PretLimite,
           PretEnCours, PretInsere, EditDebut, EditLivre, EditFlush, SupprPret
  <2> QED
    BY <1>1, <2>1
<1>6. CASE AdminNext
  <2>1. \/ reservations' \subseteq reservations /\ seqResa' = seqResa
        \/ \E r \in reservations, date \in DatesEditables : AdminEditeResa(r, date)
    BY <1>6
       DEF AdminNext, SupprUtilisateurDebut, SupprUtilisateurFlush, SupprLivre,
           AdminSupprimeResa
  <2> QED
    BY <1>1, <1>3, <2>1
<1>7. CASE Tick \/ UNCHANGED vars
  BY <1>1, <1>7 DEF Tick, vars
<1> QED
  BY <1>4, <1>5, <1>6, <1>7 DEF Next

\* A request that another step leaves alone keeps what it knows.
LEMMA VuReste ==
    ASSUME InvChev, TypeOK', Noter, ResasSuivent, NEW w \in Workers, req'[w] = req[w]
    PROVE  Vu(w)'
<1>1. CASE Libre(w)
  BY <1>1 DEF Libre, Vu, EtapesCreer, EtapesPret
<1>2. CASE ~Libre(w)
  <2>1. pointeurAvant'[w] = pointeurAvant[w] /\ resaAvant'[w] = resaAvant[w]
    BY <1>2 DEF Noter, Commence, Libre
  <2>2. Vu(w) /\ seqResa \in Nat
    BY DEF InvChev, TypeOK
  <2>3. req[w].etape \in EtapesPret => resaAvant'[w] \in Nat /\ resaAvant'[w] <= seqResa'
    <3>1. req[w].etape \in EtapesPret => resaAvant[w] \in Nat /\ resaAvant[w] <= seqResa
      BY <2>2, Zenon DEF Vu
    <3>2. seqResa' \in Nat /\ seqResa <= seqResa'
      BY DEF ResasSuivent
    <3> QED
      BY <2>1, <2>2, <3>1, <3>2
  <2>4. ASSUME req[w].etape \in {"pret_limite", "pret_encours", "pret_insere"},
               req[w].resa = NULL,
               NEW r \in reservations', r.livre = req[w].l
        PROVE  r.id > resaAvant[w]
    <3>1. resaAvant[w] \in Nat /\ resaAvant[w] <= seqResa
      BY <2>2, <2>4 DEF Vu, EtapesPret
    <3>2. CASE r.id > seqResa
      <4>1. r.id \in Nat
        BY DEF TypeOK, Reservation
      <4> QED
        BY <2>2, <3>1, <3>2, <4>1
    <3>3. ASSUME NEW s \in reservations, s.id = r.id, s.livre = r.livre
          PROVE  r.id > resaAvant[w]
      BY <2>2, <2>4, <3>3 DEF Vu
    <3> QED
      BY <2>4, <3>2, <3>3 DEF ResasSuivent
  <2> QED
    BY <2>1, <2>2, <2>3, <2>4 DEF Vu
<1> QED
  BY <1>1, <1>2

\* A request that ends, or that neither reserves nor lends, knows nothing.
LEMMA VuRien ==
    ASSUME NEW w \in Workers, req'[w].etape \notin EtapesCreer \cup EtapesPret
    PROVE  Vu(w)'
BY DEF Vu, EtapesCreer, EtapesPret

\* In particular one that ends.
LEMMA VuFin ==
    ASSUME NEW w \in Workers, req'[w] = Repos
    PROVE  Vu(w)'
<1>1. req'[w].etape = "repos"
  BY DEF Repos
<1>2. "repos" \notin EtapesCreer \cup EtapesPret
  BY DEF EtapesCreer, EtapesPret
<1> QED
  BY <1>1, <1>2, VuRien

\* A step that changes the request of w only, and what w then knows.
LEMMA VuUnSeul ==
    ASSUME InvChev, TypeOK', Noter, ResasSuivent, NEW w \in Workers,
           \A v \in Workers \ {w} : req'[v] = req[v], Vu(w)'
    PROVE  \A v \in Workers : Vu(v)'
BY VuReste

\* create(), from its start to the statement before flush().
LEMMA VuCreer ==
    ASSUME InvChev, TypeOK', Noter, ResasSuivent, NEW w \in Workers,
           \/ \E u \in Utilisateurs, l \in Livres : CreerDebut(w, u, l)
           \/ CreerEtape(w)
    PROVE  \A v \in Workers : Vu(v)'
<1> USE DEF base
<1>0. TypeOK /\ Vu(w)
  BY DEF InvChev
<1>1. \A v \in Workers \ {w} : req'[v] = req[v]
  BY <1>0 DEF CreerDebut, CreerEtape, CreerPurge, CreerCompte, CreerConflit,
              CreerInsere, Entre, Passe, Fin, TypeOK
<1>2. ASSUME NEW u \in Utilisateurs, NEW l \in Livres, CreerDebut(w, u, l)
      PROVE  Vu(w)'
  <2>1. /\ Libre(w) /\ req'[w].etape = "creer_purge" /\ req'[w].l = l
        /\ req'[w].emprunteLu = (livreEmprunt[l] # NULL)
    BY <1>0, <1>2 DEF CreerDebut, Entre, TypeOK
  <2>2. pointeurAvant'[w] = livreEmprunt[l]
    BY <2>1 DEF Noter, Commence
  <2> QED
    BY <2>1, <2>2 DEF Vu, EtapesPret
<1>3. ASSUME CreerPurge(w) \/ CreerCompte(w) \/ CreerConflit(w)
      PROVE  Vu(w)'
  <2>1. req[w].etape \in EtapesCreer /\ req[w] \in RequeteCreer
    BY <1>0, <1>3, FormeRequete DEF CreerPurge, CreerCompte, CreerConflit, EtapesCreer
  <2>2. \/ req'[w] = Repos
        \/ /\ req'[w].etape \in {"creer_compte", "creer_conflit", "creer_insere"}
           /\ req'[w].emprunteLu = req[w].emprunteLu
           /\ req'[w].etape \in {"creer_conflit", "creer_insere"} =>
                 req[w].etape = "creer_conflit" \/ ~req[w].emprunteLu
    BY <1>0, <1>3, <2>1
       DEF CreerPurge, CreerCompte, CreerConflit, Passe, Fin, TypeOK, RequeteCreer,
           Repos
  <2>3. CASE req'[w] = Repos
    BY <2>3, VuFin
  <2>4. CASE req'[w].etape \in {"creer_compte", "creer_conflit", "creer_insere"}
    <3>1. pointeurAvant'[w] = pointeurAvant[w]
      BY <2>1, <2>4 DEF Noter, Commence, Libre, EtapesCreer
    <3>2. /\ req'[w].emprunteLu = req[w].emprunteLu
          /\ req'[w].etape \in {"creer_conflit", "creer_insere"} =>
                req[w].etape = "creer_conflit" \/ ~req[w].emprunteLu
      BY <2>2, <2>4 DEF Repos
    <3>3. pointeurAvant[w] = NULL \/ req[w].emprunteLu = TRUE
      BY <1>0, <2>1 DEF Vu
    <3>4. req[w].etape = "creer_conflit" => pointeurAvant[w] = NULL
      BY <1>0 DEF Vu
    <3>5. req'[w].etape \notin EtapesPret
      BY <2>4 DEF EtapesPret
    <3>6. req'[w].etape \in {"creer_conflit", "creer_insere"} => pointeurAvant[w] = NULL
      BY <3>2, <3>3, <3>4, Zenon
    <3> QED
      BY <2>4, <3>1, <3>2, <3>3, <3>5, <3>6 DEF Vu, EtapesPret
  <2> QED
    BY <2>2, <2>3, <2>4
<1>4. ASSUME CreerInsere(w)
      PROVE  Vu(w)'
  <2>1. req'[w] = Repos
    BY <1>0, <1>4 DEF CreerInsere, Fin, TypeOK
  <2> QED
    BY <2>1, VuFin
<1> QED
  BY <1>1, <1>2, <1>3, <1>4, VuUnSeul DEF CreerEtape

\* persistEntity, from its start to its end.
LEMMA VuPret ==
    ASSUME InvChev, TypeOK', Noter, ResasSuivent, NEW w \in Workers,
           \/ \E u \in Utilisateurs, l \in Livres, rendu \in BOOLEAN :
                 PretDebut(w, u, l, rendu)
           \/ PretReservation(w) \/ PretLimite(w) \/ PretEnCours(w) \/ PretInsere(w)
    PROVE  \A v \in Workers : Vu(v)'
<1> USE DEF base
<1>0. TypeOK /\ Vu(w) /\ seqResa \in Nat
  BY DEF InvChev, TypeOK
<1>1. \A v \in Workers \ {w} : req'[v] = req[v]
  BY <1>0 DEF PretDebut, PretReservation, PretLimite, PretEnCours, PretInsere,
              Entre, Passe, Fin, TypeOK
<1>2. ASSUME NEW u \in Utilisateurs, NEW l \in Livres, NEW rendu \in BOOLEAN,
             PretDebut(w, u, l, rendu)
      PROVE  Vu(w)'
  <2>1. Libre(w) /\ req'[w].etape = "pret_reservation" /\ seqResa' = seqResa
    BY <1>0, <1>2 DEF PretDebut, Entre, TypeOK
  <2>2. resaAvant'[w] = seqResa
    BY <2>1 DEF Noter, Commence
  <2>3. resaAvant'[w] \in Nat /\ resaAvant'[w] <= seqResa'
    BY <1>0, <2>1, <2>2
  <2>4. /\ req'[w].etape \notin EtapesCreer
        /\ req'[w].etape \notin {"creer_conflit", "creer_insere"}
        /\ req'[w].etape \notin {"pret_limite", "pret_encours", "pret_insere"}
    BY <2>1 DEF EtapesCreer
  <2> QED
    BY <2>3, <2>4, Zenon DEF Vu
<1>3. ASSUME PretReservation(w) \/ PretLimite(w) \/ PretEnCours(w)
      PROVE  Vu(w)'
  <2>1. req[w].etape \in EtapesPret /\ req[w] \in RequetePret
    BY <1>0, <1>3, FormeRequete DEF PretReservation, PretLimite, PretEnCours, EtapesPret
  <2>2. reservations' = reservations /\ seqResa' = seqResa
    BY <1>3 DEF PretReservation, PretLimite, PretEnCours
  <2>3. \A r \in reservations : r.id # NULL
    BY <1>0 DEF TypeOK, Reservation, NULL
  <2>4. \/ req'[w] = Repos
        \/ /\ req'[w].etape \in {"pret_limite", "pret_encours", "pret_insere"}
           /\ req'[w].l = req[w].l
           /\ req'[w].resa = NULL =>
                 \/ ResasDeLivre(req[w].l) = {}
                 \/ /\ req[w].etape \in {"pret_limite", "pret_encours"}
                    /\ req[w].resa = NULL
    BY <1>0, <1>3, <2>1, <2>3
       DEF PretReservation, PretLimite, PretEnCours, Passe, Fin, TypeOK, RequetePret,
           ResasDeLivre
  <2>5. CASE req'[w] = Repos
    BY <2>5, VuFin
  <2>6. CASE req'[w].etape \in {"pret_limite", "pret_encours", "pret_insere"}
    <3>1. resaAvant'[w] = resaAvant[w]
      BY <2>1, <2>6 DEF Noter, Commence, Libre, EtapesPret
    <3>2. resaAvant[w] \in Nat /\ resaAvant[w] <= seqResa
      BY <1>0, <2>1 DEF Vu
    <3>3. ASSUME req'[w].resa = NULL, NEW r \in reservations, r.livre = req[w].l
          PROVE  r.id > resaAvant[w]
      <4>1. r \in ResasDeLivre(req[w].l)
        BY <3>3 DEF ResasDeLivre
      <4> QED
        BY <1>0, <2>4, <2>6, <3>3, <4>1 DEF Vu, Repos
    <3>4. req'[w].etape \notin EtapesCreer /\ req'[w].l = req[w].l
      BY <2>4, <2>6 DEF EtapesCreer, Repos
    <3> QED
      BY <2>2, <3>1, <3>2, <3>3, <3>4 DEF Vu, EtapesCreer
  <2> QED
    BY <2>4, <2>5, <2>6
<1>4. ASSUME PretInsere(w)
      PROVE  Vu(w)'
  <2>1. req'[w] = Repos
    BY <1>0, <1>4 DEF PretInsere, Fin, TypeOK
  <2> QED
    BY <2>1, VuFin
<1> QED
  BY <1>1, <1>2, <1>3, <1>4, VuUnSeul

\* Every step keeps the invariant.
LEMMA ChevTient == InvChev /\ [ChevNext]_chevVars => InvChev'
<1> SUFFICES ASSUME InvChev, [ChevNext]_chevVars
             PROVE  InvChev'
  OBVIOUS
<1> USE DEF base, Repos
<1>0. TypeOK /\ [Next]_vars
  BY DEF InvChev, ChevNext, chevVars
<1>1. TypeOK' /\ ResasSuivent
  BY <1>0, TypeNext, TablesSuivent
<1>2. CASE UNCHANGED chevVars
  BY <1>1, <1>2 DEF InvChev, Vu, chevVars, vars
<1>3. ASSUME Next, Noter
      PROVE  \A v \in Workers : Vu(v)'
  <2>1. ASSUME \A v \in Workers : \/ req'[v] = req[v]
                                  \/ req'[v].etape \notin EtapesCreer \cup EtapesPret
        PROVE  \A v \in Workers : Vu(v)'
    BY <1>1, <1>3, <2>1, VuReste, VuRien
  <2>2. CASE req' = req
    BY <2>1, <2>2
  <2>3. CASE ReservationNext
    <3>1. \/ req' = req
          \/ \E w \in Workers :
                \/ \E u \in Utilisateurs, l \in Livres : CreerDebut(w, u, l)
                \/ CreerEtape(w)
      BY <2>3 DEF ReservationNext, ListerReservations, ExpirerReservations, Annuler
    <3> QED
      BY <1>1, <1>3, <2>2, <3>1, VuCreer
  <2>4. ASSUME NEW w \in Workers, EditLivre(w) \/ EditFlush(w)
        PROVE  \A v \in Workers : Vu(v)'
    <3>1. req[w] \in RequeteEdit
      BY <1>0, <2>4, FormeRequete DEF EditLivre, EditFlush, EtapesEdit
    <3>2. \A v \in Workers : \/ req'[v] = req[v]
                             \/ req'[v].etape \notin EtapesCreer \cup EtapesPret
      BY <1>0, <2>4, <3>1
         DEF EditLivre, EditFlush, Fin, TypeOK, RequeteEdit, EtapesCreer, EtapesPret
    <3> QED
      BY <2>1, <3>2
  <2>5. ASSUME NEW w \in Workers, NEW e \in emprunts, NEW u \in Utilisateurs,
               NEW l \in Livres, NEW rendu \in BOOLEAN, EditDebut(w, e, u, l, rendu)
        PROVE  \A v \in Workers : Vu(v)'
    <3>1. \A v \in Workers : \/ req'[v] = req[v]
                             \/ req'[v].etape \notin EtapesCreer \cup EtapesPret
      BY <1>0, <2>5 DEF EditDebut, Entre, TypeOK, EtapesCreer, EtapesPret
    <3> QED
      BY <2>1, <3>1
  <2>6. CASE EmpruntNext
    <3>1. \/ req' = req
          \/ \E w \in Workers :
                \/ \E u \in Utilisateurs, l \in Livres, rendu \in BOOLEAN :
                      PretDebut(w, u, l, rendu)
                \/ PretReservation(w) \/ PretLimite(w) \/ PretEnCours(w) \/ PretInsere(w)
                \/ EditLivre(w) \/ EditFlush(w)
                \/ \E e \in emprunts, u \in Utilisateurs, l \in Livres, rendu \in BOOLEAN :
                      EditDebut(w, e, u, l, rendu)
      BY <2>6 DEF EmpruntNext, PretEtape, SupprPret
    <3> QED
      BY <1>1, <1>3, <2>2, <2>4, <2>5, <3>1, VuPret
  <2>7. CASE AdminNext
    <3>1. \A v \in Workers : \/ req'[v] = req[v]
                             \/ req'[v].etape \notin EtapesCreer \cup EtapesPret
      BY <1>0, <2>7
         DEF AdminNext, SupprUtilisateurDebut, SupprUtilisateurFlush, SupprLivre,
             AdminSupprimeResa, AdminEditeResa, Entre, Fin, TypeOK, EtapesCreer,
             EtapesPret
    <3> QED
      BY <2>1, <3>1
  <2>8. CASE Tick
    BY <2>2, <2>8 DEF Tick
  <2> QED
    BY <1>3, <2>3, <2>6, <2>7, <2>8 DEF Next
<1> QED
  BY <1>1, <1>2, <1>3 DEF InvChev, ChevNext

\* A book is reserved while it is on loan, or lent while another member has
\* reserved it, only by requests that overlap, for any number of workers and
\* whatever librarians edit or delete.
THEOREM ConflitsParChevauchement == ChevSpec => ConflitParChevauchement
<1>1. ChevInit => InvChev
  <2> SUFFICES ASSUME ChevInit
               PROVE  InvChev
    OBVIOUS
  <2>1. Init
    BY DEF ChevInit
  <2>2. TypeOK
    BY <2>1, ConstantesAssumption DEF Init, TypeOK, Requete, NULL
  <2>3. \A w \in Workers : req[w].etape = "repos"
    BY <2>1 DEF Init, Repos
  <2> QED
    BY <2>2, <2>3 DEF InvChev, Vu, EtapesCreer, EtapesPret
<1>2. InvChev /\ [ChevNext]_chevVars =>
         [\A w \in Workers :
             /\ req[w].etape = "creer_insere" /\ seqResa' # seqResa /\ CreerInsere(w) =>
                   \/ livreEmprunt[req[w].l] = NULL
                   \/ livreEmprunt[req[w].l] # pointeurAvant[w]
             /\ req[w].etape = "pret_insere" /\ seqEmprunt' # seqEmprunt /\ PretInsere(w)
                /\ req[w].resa = NULL =>
                   \A r \in ResasDeLivre(req[w].l) : r.id > resaAvant[w]]_chevVars
  BY DEF InvChev, Vu, ResasDeLivre
<1> QED
  BY <1>1, <1>2, ChevTient, PTL DEF ChevSpec, ConflitParChevauchement

-----------------------------------------------------------------------------
(***************************************************************************)
(* One worker.                                                             *)
(***************************************************************************)
\* A book is reserved once (from the bounds on reservations, see
\* SequentielProofs).
UneResa == \A r, s \in reservations : r.livre = s.livre => r = s

\* What the one request under way may rely on at each stage.
Acquis(q) ==
    /\ q.etape \in {"creer_purge", "creer_compte"} =>
          q.emprunteLu = TRUE \/ isDisponible(q.l)
    /\ q.etape \in {"creer_conflit", "creer_insere"} => isDisponible(q.l)
    /\ q.etape \in {"pret_limite", "pret_encours", "pret_insere"} =>
          \A r \in ResasDeLivre(q.l) : r.id = q.resa
    /\ q.etape = "pret_insere" => ActifsDeLivre(q.l) = {}
    /\ q.etape \in EtapesEdit =>
          /\ q.avant \in emprunts /\ q.l = q.avant.livre
          /\ q.rendu = TRUE \/ q.avant \in Actifs
    /\ q.etape = "edit_flush" => q.l \in livres /\ q.pointeur = livreEmprunt[q.l]

\* Ids of loans are given out once.
IdsPrets ==
    /\ \A e \in emprunts : e.id <= seqEmprunt
    /\ \A e, f \in emprunts : e.id = f.id => e = f

\* The inductive invariant: what a request has read is still true when it
\* writes, since only the clock and the purge run beside it.
InvSeq ==
    /\ TypeOK
    /\ UneResa
    /\ IdsPrets
    /\ DisponibiliteExacte
    /\ PasReserveEtPrete
    /\ \A w \in Workers : Acquis(req[w])

-----------------------------------------------------------------------------
(***************************************************************************)
(* The two results in terms of the running loans.                          *)
(***************************************************************************)

\* A running loan is a loan of a book.
LEMMA ActifsTypes ==
    ASSUME TypeOK
    PROVE  \A e \in Actifs : e \in emprunts /\ e.livre \in Livres /\ e.id \in Nat \ {0}
<1> SUFFICES ASSUME NEW e \in Actifs
             PROVE  e \in emprunts /\ e.livre \in Livres /\ e.id \in Nat \ {0}
  OBVIOUS
<1>1. e \in emprunts
  BY Zenon DEF Actifs
<1> QED
  BY <1>1 DEF TypeOK, Emprunt

\* DisponibiliteExacte, loan by loan.
Dispo ==
    /\ \A e \in Actifs : livreEmprunt[e.livre] = e.id
    /\ \A l \in Livres : livreEmprunt[l] # NULL =>
          \E e \in Actifs : e.livre = l /\ e.id = livreEmprunt[l]

\* PasReserveEtPrete, pair by pair.
Pas == \A e \in Actifs, r \in reservations : e.livre # r.livre

\* The two forms are equivalent.
LEMMA Formes ==
    ASSUME TypeOK
    PROVE  /\ DisponibiliteExacte <=> Dispo
           /\ PasReserveEtPrete <=> Pas
<1>1. DisponibiliteExacte <=> Dispo
  BY ActifsTypes DEF DisponibiliteExacte, Dispo, ActifsDeLivre, isDisponible
<1>2. PasReserveEtPrete <=> Pas
  BY ActifsTypes DEF PasReserveEtPrete, Pas, ActifsDeLivre, ResasDeLivre
<1> QED
  BY <1>1, <1>2

\* And so in the next state.
LEMMA FormesSuite ==
    ASSUME TypeOK'
    PROVE  /\ Dispo' => DisponibiliteExacte'
           /\ Pas' => PasReserveEtPrete'
BY Formes, PTL

\* A book that is shown as available has no running loan.
LEMMA LibreSansPret ==
    ASSUME TypeOK, Dispo, NEW l \in Livres, isDisponible(l)
    PROVE  \A e \in Actifs : e.livre # l
BY ActifsTypes DEF Dispo, isDisponible, NULL

\* A new running loan on a book without one.
LEMMA DispoAjout ==
    ASSUME TypeOK, Dispo, NEW n, n.livre \in Livres, n.id # NULL,
           \A e \in Actifs : e.livre # n.livre,
           Actifs' = Actifs \cup {n},
           livreEmprunt' = [livreEmprunt EXCEPT ![n.livre] = n.id]
    PROVE  Dispo'
BY ActifsTypes DEF Dispo, TypeOK

\* Loans that are returned or deleted, with the pointers to them.
LEMMA DispoRetrait ==
    ASSUME TypeOK, Dispo, NEW ids,
           Actifs' = {e \in Actifs : e.id \notin ids},
           livreEmprunt' = PointeursSans(ids)
    PROVE  Dispo'
BY ActifsTypes DEF Dispo, TypeOK, PointeursSans, NULL

\* One running loan replaced by another of the same id and book.
LEMMA DispoEchange ==
    ASSUME TypeOK, Dispo, NEW e \in Actifs, NEW f, f.id = e.id, f.livre = e.livre,
           Actifs' = (Actifs \ {e}) \cup {f},
           livreEmprunt' = livreEmprunt
    PROVE  Dispo'
BY ActifsTypes DEF Dispo, TypeOK

-----------------------------------------------------------------------------
\* Steps that change neither loans nor books, and at most delete reservations.
LEMMA SeqLecture ==
    ASSUME InvSeq, TypeOK', UneResa', reservations' \subseteq reservations,
           UNCHANGED <<emprunts, livreEmprunt, seqEmprunt>>,
           \A w \in Workers : Acquis(req[w])'
    PROVE  InvSeq'
<1>1. TypeOK /\ TypeOK'
  BY DEF InvSeq
<1>2. Actifs' = Actifs
  BY DEF Actifs
<1>3. Dispo /\ Pas
  BY <1>1, Formes DEF InvSeq
<1>4. Dispo' /\ Pas'
  BY <1>2, <1>3 DEF Dispo, Pas
<1>5. IdsPrets'
  BY DEF IdsPrets, InvSeq
<1> QED
  BY <1>1, <1>4, <1>5, FormesSuite DEF InvSeq

\* What a request relies on stays true beside such a step.
LEMMA AcquisStable ==
    ASSUME NEW w \in Workers, Acquis(req[w]), reservations' \subseteq reservations,
           UNCHANGED <<emprunts, livreEmprunt, livres>>, req'[w] = req[w]
    PROVE  Acquis(req[w])'
<1>1. Actifs' = Actifs
  BY DEF Actifs
<1> QED
  BY <1>1 DEF Acquis, isDisponible, ResasDeLivre, ActifsDeLivre

\* A worker at rest, or deleting an account, relies on nothing.
LEMMA AcquisRien ==
    ASSUME NEW w \in Workers, req'[w].etape \in {"repos", "pret_reservation", "suppr_flush"}
    PROVE  Acquis(req[w])'
BY DEF Acquis, EtapesEdit

-----------------------------------------------------------------------------
(***************************************************************************)
(* create().                                                               *)
(***************************************************************************)

\* The stages up to the insertion.
LEMMA SeqCreer ==
    ASSUME InvSeq, TypeOK', UneResa', NEW w, Workers = {w},
           \/ \E u \in Utilisateurs, l \in Livres : CreerDebut(w, u, l)
           \/ CreerPurge(w) \/ CreerCompte(w) \/ CreerConflit(w)
    PROVE  InvSeq'
<1>0. TypeOK /\ Acquis(req[w])
  BY DEF InvSeq
<1> USE DEF base
<1>1. ASSUME NEW u \in Utilisateurs, NEW l \in Livres, CreerDebut(w, u, l)
      PROVE  InvSeq'
  <2>1. /\ req'[w].etape = "creer_purge" /\ req'[w].l = l
        /\ req'[w].emprunteLu = (livreEmprunt[l] # NULL)
    BY <1>0, <1>1 DEF CreerDebut, Entre, TypeOK
  <2>2. /\ UNCHANGED <<emprunts, livreEmprunt, seqEmprunt>>
        /\ reservations' \subseteq reservations
    BY <1>1 DEF CreerDebut
  <2>3. Acquis(req[w])'
    BY <2>1, <2>2 DEF Acquis, isDisponible, EtapesEdit
  <2> QED
    BY <2>2, <2>3, SeqLecture
<1>2. ASSUME CreerPurge(w)
      PROVE  InvSeq'
  <2>1. req[w] \in RequeteCreer /\ req[w].etape = "creer_purge"
    BY <1>0, <1>2, FormeRequete DEF CreerPurge, EtapesCreer
  <2>2. /\ req'[w].etape = "creer_compte" /\ req'[w].l = req[w].l
        /\ req'[w].emprunteLu = req[w].emprunteLu
    BY <1>0, <1>2, <2>1 DEF CreerPurge, TypeOK, RequeteCreer
  <2>3. /\ UNCHANGED <<emprunts, livreEmprunt, seqEmprunt>>
        /\ reservations' \subseteq reservations
    BY <1>2 DEF CreerPurge, purgeExpired
  <2>4. Acquis(req[w])'
    BY <1>0, <2>1, <2>2, <2>3 DEF Acquis, isDisponible, EtapesEdit
  <2> QED
    BY <2>3, <2>4, SeqLecture
<1>3. ASSUME CreerCompte(w) \/ CreerConflit(w)
      PROVE  InvSeq'
  <2>1. req[w] \in RequeteCreer /\ req[w].etape \in {"creer_compte", "creer_conflit"}
    BY <1>0, <1>3, FormeRequete DEF CreerCompte, CreerConflit, EtapesCreer
  <2>2. /\ UNCHANGED <<emprunts, livreEmprunt, seqEmprunt>>
        /\ reservations' \subseteq reservations
    BY <1>3 DEF CreerCompte, CreerConflit
  <2>3. CASE Fin(w)
    <3>1. req'[w].etape = "repos"
      BY <1>0, <2>3 DEF Fin, Repos, TypeOK
    <3> QED
      BY <2>2, <3>1, AcquisRien, SeqLecture
  <2>4. CASE ~Fin(w)
    <3>1. isDisponible(req[w].l)
      <4>1. CASE CreerCompte(w)
        <5>1. ~req[w].emprunteLu /\ req[w].etape = "creer_compte"
          BY <2>4, <4>1, Zenon DEF CreerCompte
        <5> QED
          BY <1>0, <5>1 DEF Acquis
      <4>2. CASE CreerConflit(w)
        BY <1>0, <4>2 DEF Acquis, CreerConflit
      <4> QED
        BY <1>3, <4>1, <4>2
    <3>2. Passe(w, "creer_conflit") \/ Passe(w, "creer_insere")
      BY <1>3, <2>4, Zenon DEF CreerCompte, CreerConflit
    <3>3. req'[w].etape \in {"creer_conflit", "creer_insere"} /\ req'[w].l = req[w].l
      BY <1>0, <2>1, <3>2 DEF Passe, TypeOK, RequeteCreer
    <3>4. Acquis(req[w])'
      BY <2>2, <3>1, <3>3 DEF Acquis, isDisponible, EtapesEdit
    <3> QED
      BY <2>2, <3>4, SeqLecture
  <2> QED
    BY <2>3, <2>4
<1> QED
  BY <1>1, <1>2, <1>3

\* The insertion: the book is still available.
LEMMA SeqCreerInsere ==
    ASSUME InvSeq, TypeOK', UneResa', NEW w, Workers = {w}, CreerInsere(w)
    PROVE  InvSeq'
<1>0. TypeOK /\ TypeOK' /\ Acquis(req[w])
  BY DEF InvSeq
<1>1. req[w] \in RequeteCreer /\ req[w].etape = "creer_insere"
  BY <1>0, FormeRequete DEF CreerInsere, EtapesCreer
<1>2. UNCHANGED <<emprunts, livreEmprunt, seqEmprunt>> /\ Actifs' = Actifs
  BY DEF CreerInsere, Actifs
<1>3. req'[w].etape = "repos"
  BY <1>0 DEF CreerInsere, Fin, Repos, TypeOK
<1>4. Acquis(req[w])'
  BY <1>3, AcquisRien
<1>5. Dispo /\ Pas
  BY <1>0, Formes DEF InvSeq
<1>6. \A e \in Actifs : e.livre # req[w].l
  <2>1. isDisponible(req[w].l) /\ req[w].l \in Livres
    BY <1>0, <1>1 DEF Acquis, RequeteCreer
  <2> QED
    BY <1>0, <1>5, <2>1, LibreSansPret
<1>7. \A r \in reservations' : r \in reservations \/ r.livre = req[w].l
  BY DEF CreerInsere
<1>8. Dispo' /\ Pas'
  BY <1>2, <1>5, <1>6, <1>7 DEF Dispo, Pas
<1>9. IdsPrets'
  BY <1>2 DEF IdsPrets, InvSeq
<1> QED
  BY <1>0, <1>4, <1>8, <1>9, FormesSuite DEF InvSeq

-----------------------------------------------------------------------------
(***************************************************************************)
(* persistEntity.                                                          *)
(***************************************************************************)

\* The stages up to the insertion.
LEMMA SeqPret ==
    ASSUME InvSeq, TypeOK', UneResa', NEW w, Workers = {w},
           \/ \E u \in Utilisateurs, l \in Livres, rendu \in BOOLEAN :
                 PretDebut(w, u, l, rendu)
           \/ PretReservation(w) \/ PretLimite(w) \/ PretEnCours(w)
    PROVE  InvSeq'
<1>0. TypeOK /\ Acquis(req[w])
  BY DEF InvSeq
<1>1. UNCHANGED <<reservations, emprunts, livreEmprunt, seqEmprunt>> /\ Actifs' = Actifs
  BY DEF PretDebut, PretReservation, PretLimite, PretEnCours, base, Actifs
<1>2. ASSUME Acquis(req[w])'
      PROVE  InvSeq'
  BY <1>1, <1>2, SeqLecture
<1>3. ASSUME NEW u \in Utilisateurs, NEW l \in Livres, NEW rendu \in BOOLEAN,
             PretDebut(w, u, l, rendu)
      PROVE  InvSeq'
  <2>1. req'[w].etape = "pret_reservation"
    BY <1>0, <1>3 DEF PretDebut, Entre, TypeOK
  <2> QED
    BY <1>2, <2>1, AcquisRien
<1>4. CASE Fin(w)
  <2>1. req'[w].etape = "repos"
    BY <1>0, <1>4 DEF Fin, Repos, TypeOK
  <2> QED
    BY <1>2, <2>1, AcquisRien
<1>5. ASSUME PretReservation(w), ~Fin(w)
      PROVE  InvSeq'
  <2>1. req[w] \in RequetePret
    BY <1>0, <1>5, FormeRequete DEF PretReservation, EtapesPret
  <2>2. CASE ResasDeLivre(req[w].l) = {} /\ Passe(w, "pret_limite")
    <3>1. req'[w].etape = "pret_limite" /\ req'[w].l = req[w].l
      BY <1>0, <2>1, <2>2 DEF Passe, TypeOK, RequetePret
    <3>2. Acquis(req[w])'
      BY <1>1, <2>2, <3>1 DEF Acquis, ResasDeLivre, EtapesEdit
    <3> QED
      BY <1>2, <3>2
  <2>3. ASSUME NEW r \in ResasDeLivre(req[w].l),
               req' = [req EXCEPT ![w].etape = "pret_limite", ![w].resa = r.id]
        PROVE  InvSeq'
    <3>1. req'[w].etape = "pret_limite" /\ req'[w].l = req[w].l /\ req'[w].resa = r.id
      BY <1>0, <2>1, <2>3 DEF TypeOK, RequetePret
    <3>2. \A s \in ResasDeLivre(req[w].l) : s.id = r.id
      BY DEF InvSeq, UneResa, ResasDeLivre
    <3>3. Acquis(req[w])'
      BY <1>1, <3>1, <3>2 DEF Acquis, ResasDeLivre, EtapesEdit
    <3> QED
      BY <1>2, <3>3
  <2> QED
    BY <1>5, <2>2, <2>3 DEF PretReservation
<1>6. ASSUME PretLimite(w) \/ PretEnCours(w), ~Fin(w)
      PROVE  InvSeq'
  <2>1. req[w] \in RequetePret /\ req[w].etape \in {"pret_limite", "pret_encours"}
    BY <1>0, <1>6, FormeRequete DEF PretLimite, PretEnCours, EtapesPret
  <2>2. \/ Passe(w, "pret_encours")
        \/ Passe(w, "pret_insere") /\ ActifsDeLivre(req[w].l) = {}
    BY <1>6, Zenon DEF PretLimite, PretEnCours
  <2>3. /\ req'[w].l = req[w].l /\ req'[w].resa = req[w].resa
        /\ \/ req'[w].etape = "pret_encours"
           \/ req'[w].etape = "pret_insere" /\ ActifsDeLivre(req[w].l) = {}
    BY <1>0, <2>1, <2>2 DEF Passe, TypeOK, RequetePret
  <2>4. Acquis(req[w])'
    BY <1>0, <1>1, <2>1, <2>3 DEF Acquis, ResasDeLivre, ActifsDeLivre, EtapesEdit
  <2> QED
    BY <1>2, <2>4
<1> QED
  BY <1>3, <1>4, <1>5, <1>6

\* The insertion: the book has no running loan, and its only reservation is
\* the one removed.
LEMMA SeqPretInsere ==
    ASSUME InvSeq, TypeOK', UneResa', NEW w, Workers = {w}, PretInsere(w)
    PROVE  InvSeq'
<1>0. TypeOK /\ TypeOK' /\ Acquis(req[w]) /\ IdsPrets
  BY DEF InvSeq
<1>1. req[w] \in RequetePret /\ req[w].etape = "pret_insere"
  BY <1>0, FormeRequete DEF PretInsere, EtapesPret
<1>2. req'[w].etape = "repos"
  BY <1>0 DEF PretInsere, Fin, Repos, TypeOK
<1>3. \A v \in Workers : Acquis(req[v])'
  BY <1>2, AcquisRien
<1>4. Dispo /\ Pas
  BY <1>0, Formes DEF InvSeq
<1>5. CASE UNCHANGED <<seqEmprunt, emprunts, livreEmprunt, reservations>>
  BY <1>3, <1>5, SeqLecture
<1> DEFINE n == [id |-> seqEmprunt + 1, utilisateur |-> req[w].u,
                 livre |-> req[w].l, rendu |-> req[w].rendu]
<1>6. /\ n.id = seqEmprunt + 1 /\ n.livre = req[w].l /\ n.rendu = req[w].rendu
  OBVIOUS
<1>7. \/ UNCHANGED <<seqEmprunt, emprunts, livreEmprunt, reservations>>
      \/ /\ seqEmprunt' = seqEmprunt + 1
         /\ emprunts' = emprunts \cup {n}
         /\ livreEmprunt' = IF req[w].rendu THEN livreEmprunt
                            ELSE [livreEmprunt EXCEPT ![req[w].l] = seqEmprunt + 1]
         /\ reservations' = {r \in reservations : r.id # req[w].resa}
  BY Zenon DEF PretInsere
<1> HIDE DEF n
<1>8. CASE /\ seqEmprunt' = seqEmprunt + 1
           /\ emprunts' = emprunts \cup {n}
           /\ livreEmprunt' = IF req[w].rendu THEN livreEmprunt
                              ELSE [livreEmprunt EXCEPT ![req[w].l] = seqEmprunt + 1]
           /\ reservations' = {r \in reservations : r.id # req[w].resa}
  <2>1. seqEmprunt \in Nat /\ req[w].l \in Livres
    BY <1>0, <1>1 DEF TypeOK, RequetePret
  <2>2. \A e \in emprunts : e.id \in Nat /\ e.id <= seqEmprunt
    BY <1>0 DEF TypeOK, Emprunt, IdsPrets
  <2>3. IdsPrets'
    <3>1. \A e \in emprunts : e.id <= seqEmprunt + 1 /\ e.id # seqEmprunt + 1
      BY <2>1, <2>2
    <3>2. n.id <= seqEmprunt + 1
      BY <1>6, <2>1
    <3> QED
      BY <1>0, <1>6, <1>8, <3>1, <3>2 DEF IdsPrets
  <2>4. \A e \in Actifs : e.livre # req[w].l
    BY <1>0, <1>1 DEF Acquis, ActifsDeLivre
  <2>5. \A r \in reservations' : r \in reservations /\ r.livre # req[w].l
    BY <1>0, <1>1, <1>8 DEF Acquis, ResasDeLivre
  <2>6. CASE req[w].rendu
    <3>1. n.rendu /\ livreEmprunt' = livreEmprunt
      BY <1>6, <1>8, <2>6, Zenon
    <3>2. Actifs' = Actifs
      BY <1>8, <3>1, Zenon DEF Actifs
    <3> QED
      BY <1>0, <1>3, <1>4, <2>3, <2>5, <3>1, <3>2, FormesSuite DEF Dispo, Pas, InvSeq
  <2>7. CASE ~req[w].rendu
    <3>1. /\ ~n.rendu
          /\ livreEmprunt' = [livreEmprunt EXCEPT ![req[w].l] = seqEmprunt + 1]
      BY <1>6, <1>8, <2>7, Zenon
    <3>2. Actifs' = Actifs \cup {n}
      BY <1>8, <3>1, Zenon DEF Actifs
    <3>3. n.id # NULL
      BY <1>6, <2>1 DEF NULL
    <3>4. Dispo'
      BY <1>0, <1>4, <1>6, <2>1, <2>4, <3>1, <3>2, <3>3, DispoAjout
    <3>5. Pas'
      BY <1>4, <1>6, <2>5, <3>2 DEF Pas
    <3> QED
      BY <1>0, <1>3, <2>3, <3>4, <3>5, FormesSuite DEF InvSeq
  <2> QED
    BY <2>6, <2>7
<1> QED
  BY <1>5, <1>7, <1>8

-----------------------------------------------------------------------------
(***************************************************************************)
(* updateEntity.                                                           *)
(***************************************************************************)

\* The stages up to the flush.
LEMMA SeqEdit ==
    ASSUME InvSeq, TypeOK', UneResa', NEW w, Workers = {w}, Editions \subseteq {"reattribuer"},
           \/ \E e \in emprunts, u \in Utilisateurs, l \in Livres, rendu \in BOOLEAN :
                 EditDebut(w, e, u, l, rendu)
           \/ EditLivre(w)
    PROVE  InvSeq'
<1>0. TypeOK /\ Acquis(req[w])
  BY DEF InvSeq
<1>1. /\ UNCHANGED <<reservations, emprunts, livreEmprunt, livres, seqEmprunt>>
      /\ Actifs' = Actifs
  BY DEF EditDebut, EditLivre, base, Actifs
<1>2. ASSUME Acquis(req[w])'
      PROVE  InvSeq'
  BY <1>1, <1>2, SeqLecture
<1>3. ASSUME NEW e \in emprunts, NEW u \in Utilisateurs, NEW l \in Livres,
             NEW rendu \in BOOLEAN, EditDebut(w, e, u, l, rendu)
      PROVE  InvSeq'
  <2>1. "rouvrir" \notin Editions /\ "deplacer" \notin Editions
    OBVIOUS
  <2>2. l = e.livre /\ (e.rendu => rendu)
    BY <1>3, <2>1, Zenon DEF EditDebut, EditionPossible
  <2>3. rendu = TRUE \/ e \in Actifs
    BY <2>2, Zenon DEF Actifs
  <2>4. /\ req'[w].etape = "edit_livre" /\ req'[w].avant = e /\ req'[w].l = l
        /\ req'[w].rendu = rendu
    BY <1>0, <1>3 DEF EditDebut, Entre, TypeOK
  <2>5. Acquis(req[w])'
    BY <1>1, <2>2, <2>3, <2>4 DEF Acquis
  <2> QED
    BY <1>2, <2>5
<1>4. ASSUME EditLivre(w)
      PROVE  InvSeq'
  <2>1. req[w] \in RequeteEdit /\ req[w].etape = "edit_livre"
    BY <1>0, <1>4, FormeRequete DEF EditLivre, EtapesEdit
  <2>2. CASE Fin(w)
    <3>1. req'[w].etape = "repos"
      BY <1>0, <2>2 DEF Fin, Repos, TypeOK
    <3> QED
      BY <1>2, <3>1, AcquisRien
  <2>3. CASE /\ req[w].l \in livres
             /\ req' = [req EXCEPT ![w].etape = "edit_flush",
                                   ![w].pointeur = livreEmprunt[req[w].l]]
    <3>1. /\ req'[w].etape = "edit_flush" /\ req'[w].avant = req[w].avant
          /\ req'[w].l = req[w].l /\ req'[w].rendu = req[w].rendu
          /\ req'[w].pointeur = livreEmprunt[req[w].l]
      BY <1>0, <2>1, <2>3 DEF TypeOK, RequeteEdit
    <3>2. Acquis(req[w])'
      BY <1>0, <1>1, <2>1, <2>3, <3>1 DEF Acquis, EtapesEdit
    <3> QED
      BY <1>2, <3>2
  <2> QED
    BY <1>4, <2>2, <2>3 DEF EditLivre
<1> QED
  BY <1>3, <1>4

\* The flush: the loan is replaced by one of the same id and book, and the
\* pointer of the book follows.
LEMMA SeqEditFlush ==
    ASSUME InvSeq, TypeOK', UneResa', NEW w, Workers = {w}, EditFlush(w)
    PROVE  InvSeq'
<1>0. TypeOK /\ TypeOK' /\ Acquis(req[w]) /\ IdsPrets
  BY DEF InvSeq
<1> DEFINE q == req[w]
           a == q.avant
           m == Modifie(a, q)
<1>1. q \in RequeteEdit /\ q.etape = "edit_flush"
  BY <1>0, FormeRequete DEF EditFlush, EtapesEdit
<1>2. /\ a \in emprunts /\ q.l = a.livre /\ (q.rendu = TRUE \/ a \in Actifs)
      /\ q.l \in livres /\ q.pointeur = livreEmprunt[q.l]
  BY <1>0, <1>1 DEF Acquis, EtapesEdit
<1>3. req'[w].etape = "repos" /\ reservations' = reservations /\ seqEmprunt' = seqEmprunt
  BY <1>0 DEF EditFlush, Fin, Repos, TypeOK
<1>4. \A v \in Workers : Acquis(req[v])'
  BY <1>3, AcquisRien
<1>5. Dispo /\ Pas
  BY <1>0, Formes DEF InvSeq
<1>6. CASE UNCHANGED <<emprunts, livreEmprunt>>
  BY <1>3, <1>4, <1>6, SeqLecture
<1>7. CASE /\ emprunts' = {IF e.id = a.id THEN Modifie(e, q) ELSE e : e \in emprunts}
           /\ livreEmprunt' = IF PointeurVoulu(q) # q.pointeur /\ q.l \in livres
                              THEN [livreEmprunt EXCEPT ![q.l] = PointeurVoulu(q)]
                              ELSE livreEmprunt
  <2>1. a \in Emprunt /\ q.rendu \in BOOLEAN /\ a.rendu \in BOOLEAN
    BY <1>1 DEF RequeteEdit, Emprunt
  <2>2. m.id = a.id /\ m.livre = a.livre /\ m.rendu = q.rendu
    BY <1>2, <2>1 DEF Modifie, Emprunt
  <2>3. \A e \in emprunts : e.id = a.id <=> e = a
    BY <1>0, <1>2 DEF IdsPrets
  <2> HIDE DEF m
  <2>4. emprunts' = (emprunts \ {a}) \cup {m}
    BY <1>2, <1>7, <2>3 DEF m
  <2>5. IdsPrets'
    BY <1>0, <1>2, <1>3, <2>2, <2>3, <2>4, SMTT(60) DEF IdsPrets
  <2>6. a.id \in Nat \ {0} /\ a.livre \in Livres /\ livreEmprunt \in [Livres -> Nat]
    BY <1>0, <2>1 DEF Emprunt, TypeOK
  <2>7. CASE q.rendu = TRUE
    <3>1. m.rendu
      BY <2>2, <2>7, Zenon
    <3>2. Actifs' = Actifs \ {a}
      BY <2>4, <3>1, Zenon DEF Actifs
    <3>3. \A e \in Actifs : e.id = a.id => e = a
      BY <1>0, <2>3, ActifsTypes
    <3>4. Actifs' = {e \in Actifs : e.id \notin {a.id}}
      BY <3>2, <3>3
    <3>5. \A l \in Livres : livreEmprunt[l] = a.id => l = q.l
      BY <1>2, <1>5, <2>6, <3>3, SMTT(60) DEF Dispo, NULL
    <3>6. PointeurVoulu(q) = IF q.pointeur = a.id THEN NULL ELSE q.pointeur
      BY <2>7, Zenon DEF PointeurVoulu
    <3>7. livreEmprunt' = PointeursSans({a.id})
      BY <1>2, <1>7, <2>6, <3>5, <3>6 DEF PointeursSans, NULL
    <3>8. Dispo'
      BY <1>0, <1>5, <3>4, <3>7, DispoRetrait
    <3>9. Pas'
      BY <1>3, <1>5, <3>2 DEF Pas
    <3> QED
      BY <1>0, <1>4, <2>5, <3>8, <3>9, FormesSuite DEF InvSeq
  <2>8. CASE q.rendu = FALSE
    <3>1. a \in Actifs /\ ~m.rendu
      BY <1>2, <2>2, <2>8, Zenon
    <3>2. Actifs' = (Actifs \ {a}) \cup {m}
      BY <2>4, <3>1, Zenon DEF Actifs
    <3>3. PointeurVoulu(q) = a.id
      BY <2>8, Zenon DEF PointeurVoulu
    <3>4. q.pointeur = a.id
      BY <1>2, <1>5, <3>1 DEF Dispo
    <3>5. livreEmprunt' = livreEmprunt
      BY <1>7, <3>3, <3>4
    <3>6. Dispo'
      BY <1>0, <1>5, <2>2, <3>1, <3>2, <3>5, DispoEchange
    <3>7. Pas'
      BY <1>3, <1>5, <2>2, <3>1, <3>2 DEF Pas
    <3> QED
      BY <1>0, <1>4, <2>5, <3>6, <3>7, FormesSuite DEF InvSeq
  <2> QED
    BY <2>1, <2>7, <2>8
<1> QED
  BY <1>6, <1>7 DEF EditFlush

-----------------------------------------------------------------------------
\* Deletion of loans, one or all of an account, with their pointers.
LEMMA SeqRetrait ==
    ASSUME InvSeq, TypeOK', UneResa', NEW ids,
           emprunts' = {e \in emprunts : e.id \notin ids},
           livreEmprunt' = PointeursSans(ids), seqEmprunt' = seqEmprunt,
           reservations' \subseteq reservations,
           NEW w, Workers = {w}, req'[w].etape = "repos"
    PROVE  InvSeq'
<1>0. TypeOK /\ TypeOK' /\ IdsPrets
  BY DEF InvSeq
<1>1. Actifs' = {e \in Actifs : e.id \notin ids}
  BY Zenon DEF Actifs
<1>2. Dispo /\ Pas
  BY <1>0, Formes DEF InvSeq
<1>3. Dispo'
  BY <1>0, <1>1, <1>2, DispoRetrait
<1>4. Pas'
  BY <1>1, <1>2 DEF Pas
<1>5. IdsPrets'
  BY <1>0 DEF IdsPrets
<1>6. \A v \in Workers : Acquis(req[v])'
  BY AcquisRien
<1> QED
  BY <1>0, <1>3, <1>4, <1>5, <1>6, FormesSuite DEF InvSeq

\* The other screens.
LEMMA SeqAdmin ==
    ASSUME InvSeq, TypeOK', UneResa', NEW w, Workers = {w}, DatesEditables = {},
           AdminNext \/ \E e \in emprunts : SupprPret(e)
    PROVE  InvSeq'
<1>0. TypeOK /\ TypeOK' /\ IdsPrets
  BY DEF InvSeq
<1>1. ASSUME NEW e \in emprunts, SupprPret(e)
      PROVE  InvSeq'
  <2>1. req'[w].etape = "repos" /\ reservations' = reservations /\ seqEmprunt' = seqEmprunt
    BY <1>1 DEF SupprPret, Libre
  <2>2. emprunts' = {x \in emprunts : x.id \notin {e.id}}
    BY <1>0, <1>1 DEF SupprPret, IdsPrets
  <2>3. livreEmprunt' = PointeursSans({e.id})
    BY <1>1 DEF SupprPret
  <2> QED
    BY <2>1, <2>2, <2>3, SeqRetrait
<1>2. ASSUME NEW u \in Utilisateurs, SupprUtilisateurDebut(w, u)
      PROVE  InvSeq'
  <2>1. req'[w].etape = "suppr_flush"
    BY <1>0, <1>2 DEF SupprUtilisateurDebut, Entre, TypeOK
  <2>2. UNCHANGED <<reservations, emprunts, livreEmprunt, seqEmprunt>>
    BY <1>2 DEF SupprUtilisateurDebut, base
  <2> QED
    BY <2>1, <2>2, AcquisRien, SeqLecture
<1>3. ASSUME SupprUtilisateurFlush(w)
      PROVE  InvSeq'
  <2>1. req'[w].etape = "repos" /\ seqEmprunt' = seqEmprunt
    BY <1>0, <1>3 DEF SupprUtilisateurFlush, Fin, Repos, TypeOK
  <2>2. \/ UNCHANGED <<reservations, emprunts, livreEmprunt>>
        \/ /\ reservations' \subseteq reservations
           /\ emprunts' = {e \in emprunts : e.id \notin req[w].emps}
           /\ livreEmprunt' = PointeursSans(req[w].emps)
    BY <1>3 DEF SupprUtilisateurFlush
  <2>3. CASE UNCHANGED <<reservations, emprunts, livreEmprunt>>
    BY <2>1, <2>3, AcquisRien, SeqLecture
  <2> QED
    BY <2>1, <2>2, <2>3, SeqRetrait
<1>4. ASSUME NEW l \in Livres, SupprLivre(l)
      PROVE  InvSeq'
  <2>1. req'[w].etape = "repos"
    BY <1>4 DEF SupprLivre, Libre
  <2>2. UNCHANGED <<reservations, emprunts, seqEmprunt>>
    BY <1>4 DEF SupprLivre
  <2>3. livreEmprunt[l] = NULL
    <3>1. Dispo
      BY <1>0, Formes DEF InvSeq
    <3>2. \A e \in Actifs : e.livre # l
      BY <1>0, <1>4, ActifsTypes DEF SupprLivre
    <3> QED
      BY <3>1, <3>2 DEF Dispo
  <2>4. livreEmprunt' = livreEmprunt
    BY <1>0, <1>4, <2>3 DEF SupprLivre, TypeOK
  <2> QED
    BY <2>1, <2>2, <2>4, AcquisRien, SeqLecture
<1>5. ASSUME NEW r \in reservations, AdminSupprimeResa(r)
      PROVE  InvSeq'
  <2>1. req'[w].etape = "repos"
    BY <1>5 DEF AdminSupprimeResa, Libre
  <2>2. /\ UNCHANGED <<emprunts, livreEmprunt, seqEmprunt>>
        /\ reservations' \subseteq reservations
    BY <1>5 DEF AdminSupprimeResa
  <2> QED
    BY <2>1, <2>2, AcquisRien, SeqLecture
<1> QED
  BY <1>1, <1>2, <1>3, <1>4, <1>5 DEF AdminNext

\* Every step.
LEMMA SeqNext ==
    ASSUME DatesEditables = {}, Editions \subseteq {"reattribuer"},
           NEW w, Workers = {w}, InvSeq, UneResa', [Next]_vars
    PROVE  InvSeq'
<1>0. TypeOK' /\ UneResa'
  BY TypeNext DEF InvSeq
<1>1. CASE \/ Tick \/ UNCHANGED vars \/ ListerReservations \/ ExpirerReservations
           \/ \E r \in reservations : \E u \in Utilisateurs : Annuler(u, r)
  <2>1. /\ UNCHANGED <<emprunts, livreEmprunt, livres, seqEmprunt, req>>
        /\ reservations' \subseteq reservations
    BY <1>1 DEF Tick, vars, base, ListerReservations, ExpirerReservations, Annuler,
                purgeExpired
  <2>2. Acquis(req[w])'
    BY <2>1, AcquisStable DEF InvSeq
  <2> QED
    BY <1>0, <2>1, <2>2, SeqLecture
<1>2. CASE \E v \in Workers : \/ \E u \in Utilisateurs, l \in Livres : CreerDebut(v, u, l)
                              \/ CreerEtape(v)
  BY <1>0, <1>2, SeqCreer, SeqCreerInsere DEF CreerEtape
<1>3. CASE EmpruntNext
  <2>1. ASSUME \/ \E u \in Utilisateurs, l \in Livres, rendu \in BOOLEAN :
                     PretDebut(w, u, l, rendu)
               \/ PretReservation(w) \/ PretLimite(w) \/ PretEnCours(w)
        PROVE  InvSeq'
    BY <1>0, <2>1, SeqPret
  <2>2. ASSUME \/ \E e \in emprunts, u \in Utilisateurs, l \in Livres, rendu \in BOOLEAN :
                     EditDebut(w, e, u, l, rendu)
               \/ EditLivre(w)
        PROVE  InvSeq'
    BY <1>0, <2>2, SeqEdit
  <2>3. ASSUME PretInsere(w) \/ EditFlush(w)
        PROVE  InvSeq'
    BY <1>0, <2>3, SeqPretInsere, SeqEditFlush
  <2>4. ASSUME \E e \in emprunts : SupprPret(e)
        PROVE  InvSeq'
    BY <1>0, <2>4, SeqAdmin
  <2> QED
    BY <1>3, <2>1, <2>2, <2>3, <2>4, Zenon DEF EmpruntNext, PretEtape
<1>4. CASE AdminNext
  BY <1>0, <1>4, SeqAdmin
<1> QED
  BY <1>1, <1>2, <1>3, <1>4 DEF Next, ReservationNext

\* A library as it is installed.
LEMMA SeqInit == Init => InvSeq
<1> SUFFICES ASSUME Init
             PROVE  InvSeq
  OBVIOUS
<1>1. TypeOK
  BY DEF Init, TypeOK, Requete, NULL
<1>2. emprunts = {} /\ reservations = {} /\ \A w \in Workers : req[w].etape = "repos"
  BY DEF Init, Repos
<1>3. Actifs = {} /\ \A l \in Livres : livreEmprunt[l] = NULL
  BY <1>2 DEF Actifs, Init
<1>4. DisponibiliteExacte /\ PasReserveEtPrete
  BY <1>2, <1>3 DEF DisponibiliteExacte, PasReserveEtPrete, ActifsDeLivre, isDisponible
<1>5. UneResa /\ IdsPrets /\ \A w \in Workers : Acquis(req[w])
  BY <1>2 DEF UneResa, IdsPrets, Acquis, EtapesEdit
<1> QED
  BY <1>1, <1>4, <1>5 DEF InvSeq

-----------------------------------------------------------------------------
(***************************************************************************)
(* The status of a book, read off the tables.                              *)
(***************************************************************************)

\* StatutDe without its choices.
StatutJuste ==
    \A l \in Livres :
        /\ l \notin livres => StatutDe(l) = Promesse!Retire
        /\ l \in livres =>
              /\ \A e \in Actifs : e.livre = l => StatutDe(l) = Promesse!Prete(e.utilisateur)
              /\ (\A e \in Actifs : e.livre # l) =>
                    /\ \A r \in reservations :
                          r.livre = l => StatutDe(l) = Promesse!Reserve(r.utilisateur)
                    /\ (\A r \in reservations : r.livre # l) => StatutDe(l) = Promesse!Libre

\* A running loan, a reservation or neither decides the status of a book.
LEMMA StatutExact == InvSeq => StatutJuste
<1> SUFFICES ASSUME InvSeq, NEW l \in Livres
             PROVE  /\ l \notin livres => StatutDe(l) = Promesse!Retire
                    /\ l \in livres =>
                        /\ \A e \in Actifs : e.livre = l =>
                              StatutDe(l) = Promesse!Prete(e.utilisateur)
                        /\ (\A e \in Actifs : e.livre # l) =>
                              /\ \A r \in reservations : r.livre = l =>
                                    StatutDe(l) = Promesse!Reserve(r.utilisateur)
                              /\ (\A r \in reservations : r.livre # l) =>
                                    StatutDe(l) = Promesse!Libre
  BY DEF StatutJuste
<1>1. TypeOK /\ Dispo /\ IdsPrets
  BY Formes DEF InvSeq
<1>2. CASE l \notin livres
  BY <1>2 DEF StatutDe, Promesse!Retire
<1>3. ASSUME l \in livres, NEW e \in Actifs, e.livre = l
      PROVE  StatutDe(l) = Promesse!Prete(e.utilisateur)
  <2>1. \A f \in ActifsDeLivre(l) : f = e
    BY <1>1, <1>3, ActifsTypes DEF ActifsDeLivre, Dispo, IdsPrets
  <2>2. e \in ActifsDeLivre(l)
    BY <1>3 DEF ActifsDeLivre
  <2>3. (CHOOSE f \in ActifsDeLivre(l) : TRUE) = e
    BY <2>1, <2>2
  <2> QED
    BY <1>3, <2>2, <2>3 DEF StatutDe, Promesse!Prete
<1>4. ASSUME l \in livres, \A e \in Actifs : e.livre # l, NEW r \in reservations, r.livre = l
      PROVE  StatutDe(l) = Promesse!Reserve(r.utilisateur)
  <2>1. ActifsDeLivre(l) = {} /\ r \in ResasDeLivre(l)
    BY <1>4 DEF ActifsDeLivre, ResasDeLivre
  <2>2. \A s \in ResasDeLivre(l) : s = r
    BY <1>4 DEF ResasDeLivre, InvSeq, UneResa
  <2>3. (CHOOSE s \in ResasDeLivre(l) : TRUE) = r
    BY <2>1, <2>2
  <2> QED
    BY <1>4, <2>1, <2>3 DEF StatutDe, Promesse!Reserve
<1>5. ASSUME l \in livres, \A e \in Actifs : e.livre # l, \A r \in reservations : r.livre # l
      PROVE  StatutDe(l) = Promesse!Libre
  <2>1. ActifsDeLivre(l) = {} /\ ResasDeLivre(l) = {}
    BY <1>5 DEF ActifsDeLivre, ResasDeLivre
  <2> QED
    BY <1>5, <2>1 DEF StatutDe, Promesse!Libre
<1> QED
  BY <1>2, <1>3, <1>4, <1>5

LEMMA StatutExactSuite == InvSeq' => StatutJuste'
BY StatutExact, PTL

\* The four kinds of status are told apart.
LEMMA StatutsDistincts ==
    \A u, v :
        /\ Promesse!Libre # Promesse!Retire
        /\ Promesse!Reserve(u) \notin {Promesse!Libre, Promesse!Retire}
        /\ Promesse!Prete(u) \notin {Promesse!Libre, Promesse!Retire}
        /\ Promesse!Reserve(u) # Promesse!Prete(v)
        /\ Promesse!Reserve(u) = Promesse!Reserve(v) => u = v
        /\ Promesse!Prete(u) = Promesse!Prete(v) => u = v
<1> SUFFICES ASSUME NEW u, NEW v
             PROVE  /\ Promesse!Libre # Promesse!Retire
                    /\ Promesse!Reserve(u) \notin {Promesse!Libre, Promesse!Retire}
                    /\ Promesse!Prete(u) \notin {Promesse!Libre, Promesse!Retire}
                    /\ Promesse!Reserve(u) # Promesse!Prete(v)
                    /\ Promesse!Reserve(u) = Promesse!Reserve(v) => u = v
                    /\ Promesse!Prete(u) = Promesse!Prete(v) => u = v
  OBVIOUS
<1>1. /\ Promesse!Libre.etat = "libre" /\ Promesse!Retire.etat = "retire"
      /\ Promesse!Reserve(u).etat = "reserve" /\ Promesse!Reserve(u).par = u
      /\ Promesse!Reserve(v).par = v
      /\ Promesse!Prete(u).etat = "prete" /\ Promesse!Prete(u).par = u
      /\ Promesse!Prete(v).etat = "prete" /\ Promesse!Prete(v).par = v
  BY DEF Promesse!Libre, Promesse!Retire, Promesse!Reserve, Promesse!Prete
<1> QED
  BY <1>1

\* The stages of persistEntity past the limit.
EtapesLimite == {"pret_encours", "pret_insere"}

-----------------------------------------------------------------------------
(***************************************************************************)
(* What a step does to the running loans, the reservations and the books:  *)
(* one of five kinds of step.                                              *)
(***************************************************************************)
PasLibere ==
    /\ livres' = livres
    /\ Actifs' \subseteq Actifs
    /\ reservations' \subseteq reservations

PasReserve(w) ==
    /\ livres' = livres /\ Actifs' = Actifs
    /\ req[w].etape = "creer_insere" /\ req[w].l \in livres
    /\ \E n : /\ reservations' = reservations \cup {n}
              /\ n.livre = req[w].l /\ n.utilisateur = req[w].u

PasPrete(w) ==
    /\ livres' = livres
    /\ req[w].etape = "pret_insere" /\ req[w].l \in livres
    /\ reservations' = {r \in reservations : r.id # req[w].resa}
    /\ \E n : /\ Actifs' = Actifs \cup {n}
              /\ n.livre = req[w].l /\ n.utilisateur = req[w].u

PasReattribue ==
    /\ livres' = livres /\ reservations' = reservations
    /\ \E e \in Actifs : \E f :
          /\ e.livre \in livres
          /\ Actifs' = (Actifs \ {e}) \cup {f}
          /\ f.livre = e.livre /\ f.utilisateur \in Utilisateurs

PasRetire ==
    \E l \in livres :
        /\ livres' = livres \ {l}
        /\ Actifs' = Actifs /\ reservations' = reservations
        /\ \A e \in Actifs : e.livre # l
        /\ \A r \in reservations : r.livre # l

PasStatut(w) ==
    PasLibere \/ PasReserve(w) \/ PasPrete(w) \/ PasReattribue \/ PasRetire

\* Steps that at most delete reservations.
LEMMA PasCalme ==
    ASSUME UNCHANGED <<emprunts, livres>>, reservations' \subseteq reservations
    PROVE  PasLibere /\ Actifs' = Actifs
BY DEF PasLibere, Actifs

\* The insertion of a reservation.
LEMMA PasCreerInsere ==
    ASSUME NEW w, CreerInsere(w)
    PROVE  PasStatut(w) /\ Actifs' = Actifs
<1>1. UNCHANGED <<emprunts, livres>> /\ req[w].etape = "creer_insere" /\ Actifs' = Actifs
  BY DEF CreerInsere, Actifs
<1>2. CASE reservations' = reservations
  BY <1>1, <1>2, PasCalme DEF PasStatut
<1> DEFINE n == [id |-> seqResa + 1, utilisateur |-> req[w].u,
                 livre |-> req[w].l, dateResa |-> maintenant]
<1>3. n.livre = req[w].l /\ n.utilisateur = req[w].u
  OBVIOUS
<1>4. \/ reservations' = reservations
      \/ req[w].l \in livres /\ reservations' = reservations \cup {n}
  BY Zenon DEF CreerInsere
<1> HIDE DEF n
<1>5. CASE req[w].l \in livres /\ reservations' = reservations \cup {n}
  <2>1. PasReserve(w)
    BY <1>1, <1>3, <1>5 DEF PasReserve
  <2> QED
    BY <1>1, <2>1 DEF PasStatut
<1> QED
  BY <1>2, <1>4, <1>5

\* The insertion of a loan.
LEMMA PasPretInsere ==
    ASSUME NEW w \in Workers, TypeOK, PretInsere(w)
    PROVE  PasStatut(w)
<1>1. livres' = livres /\ req[w].etape = "pret_insere"
  BY DEF PretInsere
<1>2. CASE emprunts' = emprunts /\ reservations' = reservations
  BY <1>1, <1>2, PasCalme DEF PasStatut
<1> DEFINE n == [id |-> seqEmprunt + 1, utilisateur |-> req[w].u,
                 livre |-> req[w].l, rendu |-> req[w].rendu]
<1>3. n.livre = req[w].l /\ n.utilisateur = req[w].u /\ n.rendu = req[w].rendu
  OBVIOUS
<1>4. \/ emprunts' = emprunts /\ reservations' = reservations
      \/ /\ req[w].l \in livres
         /\ emprunts' = emprunts \cup {n}
         /\ reservations' = {r \in reservations : r.id # req[w].resa}
  BY Zenon DEF PretInsere
<1> HIDE DEF n
<1>5. CASE /\ req[w].l \in livres
           /\ emprunts' = emprunts \cup {n}
           /\ reservations' = {r \in reservations : r.id # req[w].resa}
  <2>1. CASE req[w].rendu
    <3>1. n.rendu
      BY <1>3, <2>1, Zenon
    <3>2. Actifs' = Actifs
      BY <1>5, <3>1, Zenon DEF Actifs
    <3>3. PasLibere
      BY <1>1, <1>5, <3>2 DEF PasLibere
    <3> QED
      BY <3>2, <3>3 DEF PasStatut
  <2>2. CASE ~req[w].rendu
    <3>1. ~n.rendu
      BY <1>3, <2>2, Zenon
    <3>2. Actifs' = Actifs \cup {n}
      BY <1>5, <3>1, Zenon DEF Actifs
    <3>3. PasPrete(w)
      BY <1>1, <1>3, <1>5, <3>2 DEF PasPrete
    <3> QED
      BY <3>3 DEF PasStatut
  <2> QED
    BY <2>1, <2>2
<1> QED
  BY <1>2, <1>4, <1>5

\* The flush of an edit.
LEMMA PasEditFlush ==
    ASSUME InvSeq, NEW w \in Workers, EditFlush(w)
    PROVE  PasStatut(w)
<1>0. TypeOK /\ Acquis(req[w]) /\ IdsPrets
  BY DEF InvSeq
<1> DEFINE q == req[w]
           a == q.avant
           m == Modifie(a, q)
<1>1. q \in RequeteEdit /\ q.etape = "edit_flush"
  BY <1>0, FormeRequete DEF EditFlush, EtapesEdit
<1>2. a \in emprunts /\ q.l = a.livre /\ (q.rendu = TRUE \/ a \in Actifs) /\ q.l \in livres
  BY <1>0, <1>1 DEF Acquis, EtapesEdit
<1>3. UNCHANGED <<reservations, livres>>
  BY DEF EditFlush
<1>4. CASE emprunts' = emprunts
  BY <1>3, <1>4, PasCalme DEF PasStatut
<1>5. CASE emprunts' = {IF e.id = a.id THEN Modifie(e, q) ELSE e : e \in emprunts}
  <2>1. a \in Emprunt /\ q.rendu \in BOOLEAN /\ a.rendu \in BOOLEAN /\ q.u \in Utilisateurs
    BY <1>1 DEF RequeteEdit, Emprunt
  <2>2. m.livre = a.livre /\ m.rendu = q.rendu /\ m.utilisateur \in Utilisateurs
    BY <1>2, <2>1 DEF Modifie, Emprunt
  <2>3. \A e \in emprunts : e.id = a.id <=> e = a
    BY <1>0, <1>2 DEF IdsPrets
  <2> HIDE DEF m
  <2>4. emprunts' = (emprunts \ {a}) \cup {m}
    BY <1>2, <1>5, <2>3 DEF m
  <2>5. CASE q.rendu = TRUE
    <3>1. m.rendu
      BY <2>2, <2>5, Zenon
    <3>2. Actifs' = Actifs \ {a}
      BY <2>4, <3>1, Zenon DEF Actifs
    <3>3. PasLibere
      BY <1>3, <3>2 DEF PasLibere
    <3> QED
      BY <3>3 DEF PasStatut
  <2>6. CASE q.rendu = FALSE
    <3>1. a \in Actifs /\ ~m.rendu
      BY <1>2, <2>2, <2>6, Zenon
    <3>2. Actifs' = (Actifs \ {a}) \cup {m}
      BY <2>4, <3>1, Zenon DEF Actifs
    <3>3. PasReattribue
      BY <1>2, <1>3, <2>2, <3>1, <3>2 DEF PasReattribue
    <3> QED
      BY <3>3 DEF PasStatut
  <2> QED
    BY <2>1, <2>5, <2>6
<1> QED
  BY <1>4, <1>5 DEF EditFlush

\* A request is past the limit check only if it was before the step, or has
\* just passed it, and the step leaves the running loans alone.
ResteSousLimite(w) ==
    req'[w].etape \in EtapesLimite =>
        /\ Actifs' = Actifs /\ req'[w].u = req[w].u
        /\ \/ req[w].etape \in EtapesLimite
           \/ ~(Cardinality(ActifsDe(req[w].u)) >= LimiteEmprunts)

\* The stages of a request that write no loan.
LEMMA PasLecture ==
    ASSUME TypeOK, NEW w \in Workers,
           \/ \E u \in Utilisateurs, l \in Livres : CreerDebut(w, u, l)
           \/ CreerPurge(w) \/ CreerCompte(w) \/ CreerConflit(w)
           \/ \E u \in Utilisateurs, l \in Livres, rendu \in BOOLEAN :
                 PretDebut(w, u, l, rendu)
           \/ PretReservation(w) \/ PretLimite(w) \/ PretEnCours(w)
           \/ \E e \in emprunts, u \in Utilisateurs, l \in Livres, rendu \in BOOLEAN :
                 EditDebut(w, e, u, l, rendu)
           \/ EditLivre(w)
           \/ \E u \in Utilisateurs : SupprUtilisateurDebut(w, u)
    PROVE  PasStatut(w) /\ ResteSousLimite(w)
<1>1. UNCHANGED <<emprunts, livres>> /\ reservations' \subseteq reservations
  BY DEF CreerDebut, CreerPurge, CreerCompte, CreerConflit, PretDebut, PretReservation,
         PretLimite, PretEnCours, EditDebut, EditLivre, SupprUtilisateurDebut, base,
         purgeExpired
<1>2. PasLibere /\ Actifs' = Actifs
  BY <1>1, PasCalme
<1>3. ASSUME req'[w].etape \notin EtapesLimite
      PROVE  PasStatut(w) /\ ResteSousLimite(w)
  BY <1>2, <1>3 DEF PasStatut, ResteSousLimite
<1>4. CASE Fin(w)
  <2>1. req'[w].etape \notin EtapesLimite
    BY <1>4 DEF Fin, Repos, TypeOK, EtapesLimite
  <2> QED
    BY <1>3, <2>1
<1>5. CASE \/ \E u \in Utilisateurs, l \in Livres : CreerDebut(w, u, l)
           \/ \E u \in Utilisateurs, l \in Livres, rendu \in BOOLEAN :
                 PretDebut(w, u, l, rendu)
           \/ \E e \in emprunts, u \in Utilisateurs, l \in Livres, rendu \in BOOLEAN :
                 EditDebut(w, e, u, l, rendu)
           \/ \E u \in Utilisateurs : SupprUtilisateurDebut(w, u)
  <2>1. ASSUME NEW u \in Utilisateurs, NEW l \in Livres, CreerDebut(w, u, l)
        PROVE  req'[w].etape = "creer_purge"
    BY <2>1 DEF CreerDebut, Entre, TypeOK
  <2>2. ASSUME NEW u \in Utilisateurs, NEW l \in Livres, NEW rendu \in BOOLEAN,
               PretDebut(w, u, l, rendu)
        PROVE  req'[w].etape = "pret_reservation"
    BY <2>2 DEF PretDebut, Entre, TypeOK
  <2>3. ASSUME NEW e \in emprunts, NEW u \in Utilisateurs, NEW l \in Livres,
               NEW rendu \in BOOLEAN, EditDebut(w, e, u, l, rendu)
        PROVE  req'[w].etape = "edit_livre"
    BY <2>3 DEF EditDebut, Entre, TypeOK
  <2>4. ASSUME NEW u \in Utilisateurs, SupprUtilisateurDebut(w, u)
        PROVE  req'[w].etape = "suppr_flush"
    BY <2>4 DEF SupprUtilisateurDebut, Entre, TypeOK
  <2>5. req'[w].etape \in {"creer_purge", "pret_reservation", "edit_livre", "suppr_flush"}
    BY <1>5, <2>1, <2>2, <2>3, <2>4
  <2> QED
    BY <1>3, <2>5 DEF EtapesLimite
<1>6. CASE /\ CreerPurge(w) \/ CreerCompte(w) \/ CreerConflit(w)
           /\ ~Fin(w)
  <2>1. req[w] \in RequeteCreer
    BY <1>6, FormeRequete DEF CreerPurge, CreerCompte, CreerConflit, EtapesCreer
  <2>2. \/ req' = [req EXCEPT ![w].etape = "creer_compte", ![w].cutoff = Cutoff]
        \/ Passe(w, "creer_conflit") \/ Passe(w, "creer_insere")
    BY <1>6, Zenon DEF CreerPurge, CreerCompte, CreerConflit
  <2>3. req'[w].etape \in EtapesCreer
    BY <2>1, <2>2 DEF Passe, TypeOK, RequeteCreer, EtapesCreer
  <2> QED
    BY <1>3, <2>3 DEF EtapesCreer, EtapesLimite
<1>7. CASE PretReservation(w) /\ ~Fin(w)
  <2>1. req[w] \in RequetePret
    BY <1>7, FormeRequete DEF PretReservation, EtapesPret
  <2>2. \/ Passe(w, "pret_limite")
        \/ \E r \in reservations :
              req' = [req EXCEPT ![w].etape = "pret_limite", ![w].resa = r.id]
    BY <1>7, Zenon DEF PretReservation, ResasDeLivre
  <2>3. req'[w].etape = "pret_limite"
    BY <2>1, <2>2 DEF Passe, TypeOK, RequetePret
  <2> QED
    BY <1>3, <2>3 DEF EtapesLimite
<1>8. CASE (PretLimite(w) \/ PretEnCours(w)) /\ ~Fin(w)
  <2>1. req[w] \in RequetePret
    BY <1>8, FormeRequete DEF PretLimite, PretEnCours, EtapesPret
  <2>2. Passe(w, "pret_encours") \/ Passe(w, "pret_insere")
    BY <1>8, Zenon DEF PretLimite, PretEnCours
  <2>3. req'[w].u = req[w].u
    BY <2>1, <2>2 DEF Passe, TypeOK, RequetePret
  <2>4. \/ req[w].etape \in EtapesLimite
        \/ ~(Cardinality(ActifsDe(req[w].u)) >= LimiteEmprunts)
    BY <1>8, Zenon DEF PretLimite, PretEnCours, EtapesLimite
  <2> QED
    BY <1>2, <2>3, <2>4 DEF PasStatut, ResteSousLimite
<1>9. CASE EditLivre(w) /\ ~Fin(w)
  <2>1. req[w] \in RequeteEdit
    BY <1>9, FormeRequete DEF EditLivre, EtapesEdit
  <2>2. req' = [req EXCEPT ![w].etape = "edit_flush", ![w].pointeur = livreEmprunt[req[w].l]]
    BY <1>9, Zenon DEF EditLivre
  <2>3. req'[w].etape = "edit_flush"
    BY <2>1, <2>2 DEF TypeOK, RequeteEdit
  <2> QED
    BY <1>3, <2>3 DEF EtapesLimite
<1> QED
  BY <1>4, <1>5, <1>6, <1>7, <1>8, <1>9

\* The other steps of the worker, and those that need a worker at rest.
LEMMA PasNext ==
    ASSUME DatesEditables = {}, NEW w, Workers = {w}, InvSeq, [Next]_vars
    PROVE  PasStatut(w) /\ ResteSousLimite(w)
<1>0. TypeOK /\ w \in Workers
  BY DEF InvSeq
<1>1. ASSUME req'[w].etape = "repos", PasStatut(w)
      PROVE  PasStatut(w) /\ ResteSousLimite(w)
  BY <1>1 DEF ResteSousLimite, EtapesLimite
<1>2. CASE CreerInsere(w) \/ PretInsere(w) \/ EditFlush(w)
  <2>1. Fin(w)
    BY <1>2, Zenon DEF CreerInsere, PretInsere, EditFlush
  <2>2. req'[w].etape = "repos"
    BY <1>0, <2>1 DEF Fin, Repos, TypeOK
  <2>3. PasStatut(w)
    BY <1>0, <1>2, PasCreerInsere, PasPretInsere, PasEditFlush
  <2> QED
    BY <1>1, <2>2, <2>3
<1>3. CASE SupprUtilisateurFlush(w) \/ \E e \in emprunts : SupprPret(e)
  <2>1. req'[w].etape = "repos"
    <3>1. CASE SupprUtilisateurFlush(w)
      BY <1>0, <3>1 DEF SupprUtilisateurFlush, Fin, Repos, TypeOK
    <3>2. CASE \E e \in emprunts : SupprPret(e)
      BY <3>2 DEF SupprPret, Libre
    <3> QED
      BY <1>3, <3>1, <3>2
  <2>2. livres' = livres /\ reservations' \subseteq reservations /\ emprunts' \subseteq emprunts
    BY <1>3 DEF SupprUtilisateurFlush, SupprPret
  <2>3. Actifs' \in SUBSET Actifs
    BY <2>2, Zenon DEF Actifs
  <2>4. PasStatut(w)
    BY <2>2, <2>3 DEF PasStatut, PasLibere
  <2> QED
    BY <1>1, <2>1, <2>4
<1>4. ASSUME NEW l \in Livres, SupprLivre(l)
      PROVE  PasStatut(w) /\ ResteSousLimite(w)
  <2>1. req'[w].etape = "repos" /\ Actifs' = Actifs
    BY <1>4 DEF SupprLivre, Libre, Actifs
  <2>2. \A e \in Actifs : e.livre # l
    BY <1>0, <1>4, ActifsTypes DEF SupprLivre
  <2>3. PasRetire
    BY <1>4, <2>1, <2>2 DEF SupprLivre, PasRetire, ResasDeLivre
  <2> QED
    BY <1>1, <2>1, <2>3 DEF PasStatut
<1>5. CASE \/ Tick \/ UNCHANGED vars \/ ListerReservations \/ ExpirerReservations
           \/ \E r \in reservations : \E u \in Utilisateurs : Annuler(u, r)
           \/ \E r \in reservations : AdminSupprimeResa(r)
  <2>1. UNCHANGED <<emprunts, livres, req>> /\ reservations' \subseteq reservations
    BY <1>5 DEF Tick, vars, base, ListerReservations, ExpirerReservations, Annuler,
                AdminSupprimeResa, purgeExpired
  <2>2. PasLibere /\ Actifs' = Actifs
    BY <2>1, PasCalme
  <2> QED
    BY <2>1, <2>2 DEF PasStatut, ResteSousLimite
<1>6. CASE ReservationNext
  BY <1>0, <1>2, <1>5, <1>6, PasLecture DEF ReservationNext, CreerEtape
<1>7. CASE EmpruntNext
  <2>1. CASE \/ \E u \in Utilisateurs, l \in Livres, rendu \in BOOLEAN :
                   PretDebut(w, u, l, rendu)
             \/ \E e \in emprunts, u \in Utilisateurs, l \in Livres, rendu \in BOOLEAN :
                   EditDebut(w, e, u, l, rendu)
             \/ PretReservation(w) \/ PretLimite(w) \/ PretEnCours(w) \/ EditLivre(w)
    BY <1>0, <2>1, PasLecture
  <2> QED
    BY <1>2, <1>3, <1>7, <2>1, Zenon DEF EmpruntNext, PretEtape
<1>8. CASE AdminNext
  BY <1>0, <1>3, <1>4, <1>5, <1>8, PasLecture DEF AdminNext
<1> QED
  BY <1>5, <1>6, <1>7, <1>8 DEF Next

-----------------------------------------------------------------------------
(***************************************************************************)
(* Each kind of step is a step of StatutLivres; for those that start a     *)
(* reservation or a loan see SequentielProofs.                             *)
(***************************************************************************)

\* The books with a status of a member's have a row of that member's.
LEMMA StatutsComptes ==
    ASSUME StatutJuste, NEW u
    PROVE  /\ \A k \in {j \in Livres : StatutDe(j) = Promesse!Reserve(u)} :
                 \E r \in ResasDe(u) : r.livre = k
           /\ \A k \in {j \in Livres : StatutDe(j) = Promesse!Prete(u)} :
                 \E e \in ActifsDe(u) : e.livre = k
<1> SUFFICES ASSUME NEW k \in Livres
             PROVE  /\ StatutDe(k) = Promesse!Reserve(u) =>
                          \E r \in ResasDe(u) : r.livre = k
                    /\ StatutDe(k) = Promesse!Prete(u) =>
                          \E e \in ActifsDe(u) : e.livre = k
  OBVIOUS
<1>1. CASE k \notin livres
  BY <1>1, StatutsDistincts DEF StatutJuste
<1>2. ASSUME k \in livres, NEW e \in Actifs, e.livre = k
      PROVE  /\ StatutDe(k) # Promesse!Reserve(u)
             /\ StatutDe(k) = Promesse!Prete(u) => e \in ActifsDe(u)
  <2>1. StatutDe(k) = Promesse!Prete(e.utilisateur)
    BY <1>2 DEF StatutJuste
  <2> QED
    BY <2>1, StatutsDistincts DEF ActifsDe
<1>3. ASSUME k \in livres, \A e \in Actifs : e.livre # k, NEW r \in reservations, r.livre = k
      PROVE  /\ StatutDe(k) # Promesse!Prete(u)
             /\ StatutDe(k) = Promesse!Reserve(u) => r \in ResasDe(u)
  <2>1. StatutDe(k) = Promesse!Reserve(r.utilisateur)
    BY <1>3 DEF StatutJuste
  <2> QED
    BY <2>1, StatutsDistincts DEF ResasDe
<1>4. ASSUME k \in livres, \A e \in Actifs : e.livre # k, \A r \in reservations : r.livre # k
      PROVE  StatutDe(k) # Promesse!Prete(u) /\ StatutDe(k) # Promesse!Reserve(u)
  <2>1. StatutDe(k) = Promesse!Libre
    BY <1>4 DEF StatutJuste
  <2> QED
    BY <2>1, StatutsDistincts
<1> QED
  BY <1>1, <1>2, <1>3, <1>4

\* Loans end, reservations go: their books become free.
LEMMA LibereTient ==
    ASSUME InvSeq, InvSeq', PasLibere
    PROVE  Promesse!Next
<1>0. StatutJuste /\ StatutJuste' /\ Pas
  BY StatutExact, StatutExactSuite, Formes DEF InvSeq
<1>1. ASSUME NEW l \in Livres
      PROVE  \/ StatutDe(l)' = StatutDe(l)
             \/ /\ StatutDe(l)' = Promesse!Libre
                /\ StatutDe(l) \notin {Promesse!Libre, Promesse!Retire}
  <2>1. CASE l \notin livres
    BY <1>0, <2>1 DEF StatutJuste, PasLibere
  <2>2. ASSUME l \in livres, NEW e \in Actifs, e.livre = l
        PROVE  \/ StatutDe(l)' = StatutDe(l)
               \/ /\ StatutDe(l)' = Promesse!Libre
                  /\ StatutDe(l) \notin {Promesse!Libre, Promesse!Retire}
    <3>1. StatutDe(l) = Promesse!Prete(e.utilisateur) /\ l \in livres'
      BY <1>0, <2>2 DEF StatutJuste, PasLibere
    <3>2. \A r \in reservations' : r.livre # l
      BY <1>0, <2>2 DEF Pas, PasLibere
    <3>3. CASE \E f \in Actifs' : f.livre = l
      <4>1. PICK f \in Actifs' : f.livre = l
        BY <3>3
      <4>2. StatutDe(l)' = Promesse!Prete(f.utilisateur)
        BY <1>0, <3>1, <4>1 DEF StatutJuste
      <4>3. StatutDe(l) = Promesse!Prete(f.utilisateur)
        BY <1>0, <2>2, <4>1 DEF StatutJuste, PasLibere
      <4> QED
        BY <4>2, <4>3
    <3>4. CASE \A f \in Actifs' : f.livre # l
      <4>1. StatutDe(l)' = Promesse!Libre
        BY <1>0, <3>1, <3>2, <3>4 DEF StatutJuste
      <4> QED
        BY <3>1, <4>1, StatutsDistincts
    <3> QED
      BY <3>3, <3>4
  <2>3. ASSUME l \in livres, \A e \in Actifs : e.livre # l
        PROVE  \/ StatutDe(l)' = StatutDe(l)
               \/ /\ StatutDe(l)' = Promesse!Libre
                  /\ StatutDe(l) \notin {Promesse!Libre, Promesse!Retire}
    <3>1. l \in livres' /\ \A e \in Actifs' : e.livre # l
      BY <2>3 DEF PasLibere
    <3>2. CASE \E r \in reservations' : r.livre = l
      <4>1. PICK r \in reservations' : r.livre = l
        BY <3>2
      <4>2. StatutDe(l)' = Promesse!Reserve(r.utilisateur)
        BY <1>0, <3>1, <4>1 DEF StatutJuste
      <4>3. StatutDe(l) = Promesse!Reserve(r.utilisateur)
        BY <1>0, <2>3, <4>1 DEF StatutJuste, PasLibere
      <4> QED
        BY <4>2, <4>3
    <3>3. CASE \A r \in reservations' : r.livre # l
      <4>1. StatutDe(l)' = Promesse!Libre
        BY <1>0, <3>1, <3>3 DEF StatutJuste
      <4>2. StatutDe(l) = Promesse!Libre \/ \E u : StatutDe(l) = Promesse!Reserve(u)
        BY <1>0, <2>3 DEF StatutJuste
      <4> QED
        BY <4>1, <4>2, StatutsDistincts
    <3> QED
      BY <3>2, <3>3
  <2> QED
    BY <2>1, <2>2, <2>3
<1>2. PICK S \in SUBSET Livres : S = {l \in Livres : StatutDe(l)' # StatutDe(l)}
  OBVIOUS
<1>3. Promesse!Liberer(S)
  <2>1. \A l \in S : l \in Livres /\ StatutDe(l) \notin {Promesse!Libre, Promesse!Retire}
    BY <1>1, <1>2
  <2>2. \A l \in Livres : StatutDe(l)' = IF l \in S THEN Promesse!Libre ELSE StatutDe(l)
    BY <1>1, <1>2
  <2>3. [l \in Livres |-> StatutDe(l)]'
          = [l \in Livres |-> IF l \in S THEN Promesse!Libre ELSE StatutDe(l)]
    BY <2>2
  <2> QED
    BY <2>1, <2>3 DEF Promesse!Liberer
<1> QED
  BY <1>3 DEF Promesse!Next

\* A step that changes the status of one book only.
LEMMA UnStatutChange ==
    ASSUME NEW l \in Livres, NEW x, StatutDe(l)' = x,
           \A k \in Livres \ {l} : StatutDe(k)' = StatutDe(k)
    PROVE  [k \in Livres |-> StatutDe(k)]'
             = [[k \in Livres |-> StatutDe(k)] EXCEPT ![l] = x]
OBVIOUS

\* The status of a book whose loans and reservations the step leaves alone.
LEMMA StatutInchange ==
    ASSUME StatutJuste, StatutJuste', NEW k \in Livres,
           k \in livres' <=> k \in livres,
           \A e : e.livre = k => (e \in Actifs' <=> e \in Actifs),
           \A r : r.livre = k => (r \in reservations' <=> r \in reservations)
    PROVE  StatutDe(k)' = StatutDe(k)
<1>1. CASE k \notin livres
  BY <1>1 DEF StatutJuste
<1>2. ASSUME k \in livres, NEW e \in Actifs, e.livre = k
      PROVE  StatutDe(k)' = StatutDe(k)
  <2>1. StatutDe(k) = Promesse!Prete(e.utilisateur)
    BY <1>2 DEF StatutJuste
  <2>2. StatutDe(k)' = Promesse!Prete(e.utilisateur)
    BY <1>2 DEF StatutJuste
  <2> QED
    BY <2>1, <2>2
<1>3. ASSUME k \in livres, \A e \in Actifs : e.livre # k, NEW r \in reservations, r.livre = k
      PROVE  StatutDe(k)' = StatutDe(k)
  <2>1. StatutDe(k) = Promesse!Reserve(r.utilisateur)
    BY <1>3 DEF StatutJuste
  <2>2. StatutDe(k)' = Promesse!Reserve(r.utilisateur)
    BY <1>3 DEF StatutJuste
  <2> QED
    BY <2>1, <2>2
<1>4. ASSUME k \in livres, \A e \in Actifs : e.livre # k, \A r \in reservations : r.livre # k
      PROVE  StatutDe(k)' = StatutDe(k)
  <2>1. StatutDe(k) = Promesse!Libre
    BY <1>4 DEF StatutJuste
  <2>2. StatutDe(k)' = Promesse!Libre
    BY <1>4 DEF StatutJuste
  <2> QED
    BY <2>1, <2>2
<1> QED
  BY <1>1, <1>2, <1>3, <1>4

\* A running loan gets another borrower.
LEMMA ReattribueTient ==
    ASSUME InvSeq, InvSeq', PasReattribue
    PROVE  Promesse!Next
<1>0. StatutJuste /\ StatutJuste' /\ TypeOK
  BY StatutExact, StatutExactSuite DEF InvSeq
<1>1. livres' = livres /\ reservations' = reservations
  BY DEF PasReattribue
<1>2. PICK e \in Actifs : \E f :
         /\ e.livre \in livres
         /\ Actifs' = (Actifs \ {e}) \cup {f}
         /\ f.livre = e.livre /\ f.utilisateur \in Utilisateurs
  BY DEF PasReattribue
<1>3. PICK f : /\ e.livre \in livres
               /\ Actifs' = (Actifs \ {e}) \cup {f}
               /\ f.livre = e.livre /\ f.utilisateur \in Utilisateurs
  BY <1>2
<1>4. e \in Actifs /\ e \in emprunts
  BY <1>0, <1>2, ActifsTypes
<1>5. PICK l \in Livres, u \in Utilisateurs, v \in Utilisateurs :
         l = e.livre /\ u = f.utilisateur /\ v = e.utilisateur
  BY <1>0, <1>3, <1>4 DEF TypeOK, Emprunt
<1>6. StatutDe(l) = Promesse!Prete(v)
  BY <1>0, <1>3, <1>4, <1>5 DEF StatutJuste
<1>7. StatutDe(l)' = Promesse!Prete(u)
  BY <1>0, <1>1, <1>3, <1>5 DEF StatutJuste
<1>8. \A k \in Livres \ {l} : StatutDe(k)' = StatutDe(k)
  <2>1. \A x : x.livre # l => (x \in Actifs' <=> x \in Actifs)
    BY <1>3, <1>5
  <2> QED
    BY <1>0, <1>1, <2>1, StatutInchange
<1>9. [k \in Livres |-> StatutDe(k)]'
        = [[k \in Livres |-> StatutDe(k)] EXCEPT ![l] = Promesse!Prete(u)]
  BY <1>7, <1>8, UnStatutChange
<1>10. [k \in Livres |-> StatutDe(k)][l] = Promesse!Prete(v)
  BY <1>5, <1>6
<1>11. Promesse!Reattribuer(l, u)
  BY <1>5, <1>9, <1>10, Zenon DEF Promesse!Reattribuer
<1> QED
  BY <1>5, <1>11 DEF Promesse!Next

\* A book is withdrawn.
LEMMA RetireTient ==
    ASSUME InvSeq, InvSeq', PasRetire
    PROVE  Promesse!Next
<1>0. StatutJuste /\ StatutJuste' /\ livres \subseteq Livres
  BY StatutExact, StatutExactSuite DEF InvSeq, TypeOK
<1>1. PICK l \in livres :
         /\ livres' = livres \ {l}
         /\ Actifs' = Actifs /\ reservations' = reservations
         /\ \A e \in Actifs : e.livre # l
         /\ \A r \in reservations : r.livre # l
  BY DEF PasRetire
<1>2. l \in livres /\ l \in Livres
  BY <1>0, <1>1
<1>3. StatutDe(l) = Promesse!Libre
  BY <1>0, <1>1, <1>2 DEF StatutJuste
<1>4. StatutDe(l)' = Promesse!Retire
  BY <1>0, <1>1, <1>2 DEF StatutJuste
<1>5. \A k \in Livres \ {l} : StatutDe(k)' = StatutDe(k)
  BY <1>0, <1>1, StatutInchange
<1>6. [k \in Livres |-> StatutDe(k)]'
        = [[k \in Livres |-> StatutDe(k)] EXCEPT ![l] = Promesse!Retire]
  BY <1>2, <1>4, <1>5, UnStatutChange
<1>7. [k \in Livres |-> StatutDe(k)][l] = Promesse!Libre
  BY <1>2, <1>3
<1>8. Promesse!Retirer(l)
  BY <1>6, <1>7, Zenon DEF Promesse!Retirer
<1> QED
  BY <1>2, <1>8 DEF Promesse!Next
=============================================================================
