---------------------------- MODULE BornesProofs ----------------------------
(***************************************************************************)
(* Reservations and loans under any number of workers: the bounds that the *)
(* count and the conflict check of create() keep, and those that the limit *)
(* and the running-loan check of persistEntity keep as long as edits only  *)
(* return loans.                                                           *)
(***************************************************************************)
EXTENDS TablesProofs, FiniteSetTheorems

-----------------------------------------------------------------------------
(***************************************************************************)
(* Reservations.                                                           *)
(***************************************************************************)

\* The stages of create() after its purge.
ApresPurge == {"creer_compte", "creer_conflit", "creer_insere"}

\* The inductive invariant.  The bounds alone are not inductive: the count and
\* the conflict check look only at rows newer than $cutoff, so the invariant
\* also needs that after the purge there are no others (PurgeTient), and that
\* a cutoff lies in the past, so that new rows do not break this.
InvResa ==
    /\ TypeOK
    /\ IsFiniteSet(reservations)
    /\ \A w \in Workers : req[w].etape \in ApresPurge => req[w].cutoff <= maintenant
    /\ PurgeTient
    /\ LimiteResaParWorker
    /\ ReservationsParLivre

\* The sets the bounds count are finite.
LEMMA ResaFini ==
    ASSUME IsFiniteSet(reservations)
    PROVE  /\ \A u : /\ IsFiniteSet(ResasDe(u)) /\ Cardinality(ResasDe(u)) \in Nat
                     /\ IsFiniteSet(CompteFait(u)) /\ Cardinality(CompteFait(u)) \in Nat
           /\ \A l : /\ IsFiniteSet(ResasDeLivre(l)) /\ Cardinality(ResasDeLivre(l)) \in Nat
                     /\ IsFiniteSet(ConflitFait(l)) /\ Cardinality(ConflitFait(l)) \in Nat
           /\ Cardinality(Workers) \in Nat
<1> USE ConstantesAssumption
<1>1. ASSUME NEW u
      PROVE  /\ IsFiniteSet(ResasDe(u)) /\ Cardinality(ResasDe(u)) \in Nat
             /\ IsFiniteSet(CompteFait(u)) /\ Cardinality(CompteFait(u)) \in Nat
  <2>1. ResasDe(u) \in SUBSET reservations /\ CompteFait(u) \in SUBSET Workers
    BY DEF ResasDe, CompteFait
  <2>2. IsFiniteSet(ResasDe(u)) /\ IsFiniteSet(CompteFait(u))
    BY <2>1, FS_Subset
  <2> QED
    BY <2>2, FS_CardinalityType
<1>2. ASSUME NEW l
      PROVE  /\ IsFiniteSet(ResasDeLivre(l)) /\ Cardinality(ResasDeLivre(l)) \in Nat
             /\ IsFiniteSet(ConflitFait(l)) /\ Cardinality(ConflitFait(l)) \in Nat
  <2>1. ResasDeLivre(l) \in SUBSET reservations /\ ConflitFait(l) \in SUBSET Workers
    BY DEF ResasDeLivre, ConflitFait
  <2>2. IsFiniteSet(ResasDeLivre(l)) /\ IsFiniteSet(ConflitFait(l))
    BY <2>1, FS_Subset
  <2> QED
    BY <2>2, FS_CardinalityType
<1>3. Cardinality(Workers) \in Nat
  BY FS_CardinalityType
<1> QED
  BY <1>1, <1>2, <1>3

\* A step that adds no reservation and takes no request of create() past a
\* check, whatever else it does, keeps the invariant.
LEMMA ResaCalme ==
    ASSUME InvResa, TypeOK',
           reservations' \subseteq reservations,
           maintenant' >= maintenant,
           \A w \in Workers : req'[w] = req[w] \/ req'[w].etape \notin ApresPurge
    PROVE  InvResa'
<1>1. IsFiniteSet(reservations)'
  BY FS_Subset DEF InvResa
<1>2. (\A w \in Workers : req[w].etape \in ApresPurge => req[w].cutoff <= maintenant)'
  <2> SUFFICES ASSUME NEW w \in Workers, req'[w].etape \in ApresPurge
               PROVE  req'[w].cutoff <= maintenant'
    OBVIOUS
  <2>1. req'[w] = req[w] /\ req[w].cutoff <= maintenant
    BY DEF InvResa
  <2>2. req[w].cutoff \in Int /\ maintenant \in Nat /\ maintenant' \in Nat
    BY <2>1, FormeRequete
       DEF InvResa, TypeOK, RequeteCreer, ApresPurge, EtapesCreer
  <2> QED
    BY <2>1, <2>2
<1>3. PurgeTient'
  BY DEF PurgeTient, InvResa, ApresPurge
<1>4. LimiteResaParWorker'
  <2> SUFFICES ASSUME NEW u \in Utilisateurs
               PROVE  Cardinality(ResasDe(u))' + Cardinality(CompteFait(u))'
                         <= LimiteResa - 1 + Cardinality(Workers)
    BY DEF LimiteResaParWorker
  <2>1. ResasDe(u)' \in SUBSET ResasDe(u)
    BY DEF ResasDe
  <2>2. CompteFait(u)' \in SUBSET CompteFait(u)
    BY DEF CompteFait, ApresPurge
  <2>3. /\ Cardinality(ResasDe(u)') <= Cardinality(ResasDe(u))
        /\ Cardinality(CompteFait(u)') <= Cardinality(CompteFait(u))
        /\ Cardinality(ResasDe(u)') \in Nat /\ Cardinality(CompteFait(u)') \in Nat
    BY <2>1, <2>2, FS_Subset, FS_CardinalityType, ResaFini DEF InvResa
  <2>4. Cardinality(ResasDe(u)) + Cardinality(CompteFait(u))
           <= LimiteResa - 1 + Cardinality(Workers)
    BY DEF InvResa, LimiteResaParWorker
  <2> QED
    BY <2>3, <2>4, ResaFini, ConstantesAssumption DEF InvResa
<1>5. ReservationsParLivre'
  <2> SUFFICES ASSUME NEW l \in Livres
               PROVE  Cardinality(ResasDeLivre(l))' + Cardinality(ConflitFait(l))'
                         <= Cardinality(Workers)
    BY DEF ReservationsParLivre
  <2>1. ResasDeLivre(l)' \in SUBSET ResasDeLivre(l)
    BY DEF ResasDeLivre
  <2>2. ConflitFait(l)' \in SUBSET ConflitFait(l)
    BY DEF ConflitFait, ApresPurge
  <2>3. /\ Cardinality(ResasDeLivre(l)') <= Cardinality(ResasDeLivre(l))
        /\ Cardinality(ConflitFait(l)') <= Cardinality(ConflitFait(l))
        /\ Cardinality(ResasDeLivre(l)') \in Nat /\ Cardinality(ConflitFait(l)') \in Nat
    BY <2>1, <2>2, FS_Subset, FS_CardinalityType, ResaFini DEF InvResa
  <2>4. Cardinality(ResasDeLivre(l)) + Cardinality(ConflitFait(l))
           <= Cardinality(Workers)
    BY DEF InvResa, ReservationsParLivre
  <2> QED
    BY <2>3, <2>4, ResaFini DEF InvResa
<1> QED
  BY <1>1, <1>2, <1>3, <1>4, <1>5 DEF InvResa

\* create() through its purge, its checks and its insertion.
LEMMA ResaPurge ==
    ASSUME InvResa, TypeOK', NEW w \in Workers, CreerPurge(w)
    PROVE  InvResa'
<1> USE ConstantesAssumption
<1>1. req[w] \in RequeteCreer
  BY FormeRequete DEF CreerPurge, EtapesCreer, InvResa
<1>2. /\ req'[w].etape = "creer_compte" /\ req'[w].cutoff = Cutoff
      /\ \A v \in Workers \ {w} : req'[v] = req[v]
  BY <1>1 DEF CreerPurge, InvResa, TypeOK, RequeteCreer
<1>3. Cutoff \in Int /\ Cutoff <= maintenant /\ maintenant' = maintenant
  BY DEF Cutoff, CreerPurge, InvResa, TypeOK
<1>4. /\ reservations' \subseteq reservations
      /\ \A r \in reservations' : r.dateResa >= Cutoff
  <2>1. \A r \in reservations : r.dateResa \in Int
    BY DEF InvResa, TypeOK, Reservation
  <2> QED
    BY <1>3, <2>1 DEF CreerPurge, purgeExpired
<1>5. IsFiniteSet(reservations)'
  BY <1>4, FS_Subset DEF InvResa
<1>6. (\A v \in Workers : req[v].etape \in ApresPurge => req[v].cutoff <= maintenant)'
  BY <1>2, <1>3 DEF InvResa
<1>7. PurgeTient'
  BY <1>2, <1>4 DEF PurgeTient, InvResa
<1>8. LimiteResaParWorker'
  <2> SUFFICES ASSUME NEW u \in Utilisateurs
               PROVE  Cardinality(ResasDe(u))' + Cardinality(CompteFait(u))'
                         <= LimiteResa - 1 + Cardinality(Workers)
    BY DEF LimiteResaParWorker
  <2>1. ResasDe(u)' \in SUBSET ResasDe(u) /\ CompteFait(u)' \in SUBSET CompteFait(u)
    BY <1>2, <1>4 DEF ResasDe, CompteFait
  <2>2. /\ Cardinality(ResasDe(u)') <= Cardinality(ResasDe(u))
        /\ Cardinality(CompteFait(u)') <= Cardinality(CompteFait(u))
        /\ Cardinality(ResasDe(u)') \in Nat /\ Cardinality(CompteFait(u)') \in Nat
    BY <2>1, FS_Subset, FS_CardinalityType, ResaFini DEF InvResa
  <2> QED
    BY <2>2, ResaFini DEF InvResa, LimiteResaParWorker
<1>9. ReservationsParLivre'
  <2> SUFFICES ASSUME NEW l \in Livres
               PROVE  Cardinality(ResasDeLivre(l))' + Cardinality(ConflitFait(l))'
                         <= Cardinality(Workers)
    BY DEF ReservationsParLivre
  <2>1. /\ ResasDeLivre(l)' \in SUBSET ResasDeLivre(l)
        /\ ConflitFait(l)' \in SUBSET ConflitFait(l)
    BY <1>2, <1>4 DEF ResasDeLivre, ConflitFait
  <2>2. /\ Cardinality(ResasDeLivre(l)') <= Cardinality(ResasDeLivre(l))
        /\ Cardinality(ConflitFait(l)') <= Cardinality(ConflitFait(l))
        /\ Cardinality(ResasDeLivre(l)') \in Nat /\ Cardinality(ConflitFait(l)') \in Nat
    BY <2>1, FS_Subset, FS_CardinalityType, ResaFini DEF InvResa
  <2> QED
    BY <2>2, ResaFini DEF InvResa, ReservationsParLivre
<1> QED
  BY <1>5, <1>6, <1>7, <1>8, <1>9 DEF InvResa

\* A request that passes a check without touching the tables.
LEMMA ResaPasse ==
    ASSUME InvResa, TypeOK', NEW w \in Workers,
           NEW etape \in {"creer_conflit", "creer_insere"},
           req[w].etape \in ApresPurge, Passe(w, etape),
           UNCHANGED <<maintenant, reservations>>,
           LimiteResaParWorker', ReservationsParLivre'
    PROVE  InvResa'
<1>1. req[w] \in RequeteCreer
  BY FormeRequete DEF ApresPurge, EtapesCreer, InvResa
<1>2. /\ req'[w].cutoff = req[w].cutoff
      /\ \A v \in Workers \ {w} : req'[v] = req[v]
  BY <1>1 DEF Passe, InvResa, TypeOK, RequeteCreer
<1>3. (\A v \in Workers : req[v].etape \in ApresPurge => req[v].cutoff <= maintenant)'
  BY <1>2 DEF InvResa
<1>4. PurgeTient'
  BY <1>2 DEF PurgeTient, InvResa, ApresPurge
<1> QED
  BY <1>3, <1>4 DEF InvResa

\* The count: since no row is older than $cutoff, it counts every reservation
\* of the member, and all other workers may be about to insert.
LEMMA ResaCompte ==
    ASSUME InvResa, TypeOK', NEW w \in Workers, CreerCompte(w)
    PROVE  InvResa'
<1> USE ConstantesAssumption
<1>1. CASE Fin(w)
  <2>1. \A v \in Workers : req'[v] = req[v] \/ req'[v].etape \notin ApresPurge
    BY <1>1 DEF Fin, Repos, ApresPurge, InvResa, TypeOK
  <2> QED
    BY <2>1, ResaCalme DEF CreerCompte, base, InvResa, TypeOK
<1>2. CASE /\ ~(countActiveForUser(req[w].u, req[w].cutoff) >= LimiteResa)
           /\ Passe(w, "creer_conflit")
  <2>1. req[w] \in RequeteCreer /\ req[w].etape = "creer_compte"
    BY FormeRequete DEF CreerCompte, EtapesCreer, InvResa
  <2>2. /\ req'[w] = [req[w] EXCEPT !.etape = "creer_conflit"]
        /\ \A v \in Workers \ {w} : req'[v] = req[v]
    BY <1>2 DEF Passe, InvResa, TypeOK
  <2>3. reservations' = reservations /\ maintenant' = maintenant
    BY DEF CreerCompte, base
  <2>4. ReservationsParLivre'
    <3>1. \A l : ResasDeLivre(l)' = ResasDeLivre(l) /\ ConflitFait(l)' = ConflitFait(l)
      BY <2>1, <2>2, <2>3 DEF ResasDeLivre, ConflitFait, RequeteCreer
    <3> QED
      BY <3>1 DEF ReservationsParLivre, InvResa
  <2>5. LimiteResaParWorker'
    <3> SUFFICES ASSUME NEW u \in Utilisateurs
                 PROVE  Cardinality(ResasDe(u))' + Cardinality(CompteFait(u))'
                           <= LimiteResa - 1 + Cardinality(Workers)
      BY DEF LimiteResaParWorker
    <3>1. ResasDe(u)' = ResasDe(u)
      BY <2>3 DEF ResasDe
    <3>2. CASE u # req[w].u
      <4>1. CompteFait(u)' = CompteFait(u)
        BY <2>1, <2>2, <3>2 DEF CompteFait, RequeteCreer
      <4> QED
        BY <3>1, <4>1 DEF LimiteResaParWorker, InvResa
    <3>3. CASE u = req[w].u
      <4>1. {r \in ResasDe(u) : r.dateResa >= req[w].cutoff} = ResasDe(u)
        BY <2>1 DEF InvResa, PurgeTient, ResasDe
      <4>2. Cardinality(ResasDe(u)) <= LimiteResa - 1
        <5>1. countActiveForUser(req[w].u, req[w].cutoff) = Cardinality(ResasDe(u))
          BY <3>3, <4>1 DEF countActiveForUser
        <5>2. Cardinality(ResasDe(u)) \in Nat
          BY ResaFini DEF InvResa
        <5>3. ~(Cardinality(ResasDe(u)) >= LimiteResa)
          BY <1>2, <5>1
        <5> QED
          BY <5>2, <5>3
      <4>3. Cardinality(CompteFait(u)') <= Cardinality(Workers)
        <5>1. CompteFait(u)' \in SUBSET Workers
          BY DEF CompteFait
        <5> QED
          BY <5>1, FS_Subset
      <4>4. Cardinality(CompteFait(u)') \in Nat
        <5>1. CompteFait(u)' \in SUBSET Workers
          BY DEF CompteFait
        <5> QED
          BY <5>1, FS_Subset, FS_CardinalityType
      <4> QED
        BY <3>1, <4>2, <4>3, <4>4, ResaFini DEF InvResa
    <3> QED
      BY <3>2, <3>3
  <2> QED
    BY <1>2, <2>1, <2>3, <2>4, <2>5, ResaPasse DEF ApresPurge
<1> QED
  BY <1>1, <1>2 DEF CreerCompte

\* The conflict check: it sees every reservation of the book.
LEMMA ResaConflit ==
    ASSUME InvResa, TypeOK', NEW w \in Workers, CreerConflit(w)
    PROVE  InvResa'
<1> USE ConstantesAssumption
<1>1. CASE Fin(w)
  <2>1. \A v \in Workers : req'[v] = req[v] \/ req'[v].etape \notin ApresPurge
    BY <1>1 DEF Fin, Repos, ApresPurge, InvResa, TypeOK
  <2> QED
    BY <2>1, ResaCalme DEF CreerConflit, base, InvResa, TypeOK
<1>2. CASE /\ findActiveByLivre(req[w].l, req[w].cutoff) = {}
           /\ Passe(w, "creer_insere")
  <2>1. req[w] \in RequeteCreer /\ req[w].etape = "creer_conflit"
    BY FormeRequete DEF CreerConflit, EtapesCreer, InvResa
  <2>2. /\ req'[w] = [req[w] EXCEPT !.etape = "creer_insere"]
        /\ \A v \in Workers \ {w} : req'[v] = req[v]
    BY <1>2 DEF Passe, InvResa, TypeOK
  <2>3. reservations' = reservations /\ maintenant' = maintenant
    BY DEF CreerConflit, base
  <2>4. LimiteResaParWorker'
    <3>1. \A u : ResasDe(u)' = ResasDe(u) /\ CompteFait(u)' = CompteFait(u)
      BY <2>1, <2>2, <2>3 DEF ResasDe, CompteFait, RequeteCreer
    <3> QED
      BY <3>1 DEF LimiteResaParWorker, InvResa
  <2>5. ReservationsParLivre'
    <3> SUFFICES ASSUME NEW l \in Livres
                 PROVE  Cardinality(ResasDeLivre(l))' + Cardinality(ConflitFait(l))'
                           <= Cardinality(Workers)
      BY DEF ReservationsParLivre
    <3>1. ResasDeLivre(l)' = ResasDeLivre(l)
      BY <2>3 DEF ResasDeLivre
    <3>2. CASE l # req[w].l
      <4>1. ConflitFait(l)' = ConflitFait(l)
        BY <2>1, <2>2, <3>2 DEF ConflitFait, RequeteCreer
      <4> QED
        BY <3>1, <4>1 DEF ReservationsParLivre, InvResa
    <3>3. CASE l = req[w].l
      <4>1. ResasDeLivre(l) = {}
        BY <1>2, <2>1, <3>3
           DEF findActiveByLivre, InvResa, PurgeTient, ResasDeLivre
      <4>2. ConflitFait(l)' \in SUBSET Workers
        BY DEF ConflitFait
      <4>3. /\ Cardinality(ConflitFait(l)') <= Cardinality(Workers)
            /\ Cardinality(ConflitFait(l)') \in Nat
        BY <4>2, FS_Subset, FS_CardinalityType
      <4> QED
        BY <3>1, <4>1, <4>3, FS_EmptySet
    <3> QED
      BY <3>2, <3>3
  <2> QED
    BY <1>2, <2>1, <2>3, <2>4, <2>5, ResaPasse DEF ApresPurge
<1> QED
  BY <1>1, <1>2 DEF CreerConflit

\* The insertion: the row takes the place of the request that was counted.
LEMMA ResaInsere ==
    ASSUME InvResa, TypeOK', NEW w \in Workers, CreerInsere(w)
    PROVE  InvResa'
<1> USE ConstantesAssumption
<1>1. req[w] \in RequeteCreer /\ req[w].etape = "creer_insere"
  BY FormeRequete DEF CreerInsere, EtapesCreer, InvResa
<1>2. /\ req'[w] = Repos
      /\ \A v \in Workers \ {w} : req'[v] = req[v]
      /\ maintenant' = maintenant
  BY DEF CreerInsere, Fin, InvResa, TypeOK
<1>3. \A v \in Workers : req'[v] = req[v] \/ req'[v].etape \notin ApresPurge
  BY <1>2 DEF Repos, ApresPurge
<1>4. CASE UNCHANGED reservations
  BY <1>2, <1>3, <1>4, ResaCalme DEF InvResa, TypeOK
<1>5. ASSUME NEW n, n.dateResa = maintenant,
             n.utilisateur = req[w].u, n.livre = req[w].l,
             reservations' = reservations \cup {n}
      PROVE  InvResa'
  <2>1. IsFiniteSet(reservations)'
    BY <1>5, FS_AddElement DEF InvResa
  <2>2. (\A v \in Workers : req[v].etape \in ApresPurge => req[v].cutoff <= maintenant)'
    BY <1>2, <1>3 DEF InvResa
  <2>3. PurgeTient'
    <3> SUFFICES ASSUME NEW v \in Workers, req'[v].etape \in ApresPurge,
                        NEW r \in reservations'
                 PROVE  r.dateResa >= req'[v].cutoff
      BY DEF PurgeTient, ApresPurge
    <3>1. req'[v] = req[v] /\ req[v].cutoff <= maintenant /\ req[v] \in RequeteCreer
      BY <1>3, FormeRequete DEF InvResa, ApresPurge, EtapesCreer
    <3>2. CASE r = n
      BY <1>5, <3>1, <3>2 DEF RequeteCreer, InvResa, TypeOK
    <3>3. CASE r \in reservations
      BY <3>1, <3>3 DEF InvResa, PurgeTient, ApresPurge
    <3> QED
      BY <1>5, <3>2, <3>3
  <2>4. LimiteResaParWorker'
    <3> SUFFICES ASSUME NEW u \in Utilisateurs
                 PROVE  Cardinality(ResasDe(u))' + Cardinality(CompteFait(u))'
                           <= LimiteResa - 1 + Cardinality(Workers)
      BY DEF LimiteResaParWorker
    <3>1. Cardinality(ResasDe(u)) + Cardinality(CompteFait(u))
             <= LimiteResa - 1 + Cardinality(Workers)
      BY DEF InvResa, LimiteResaParWorker
    <3>2. CASE u # req[w].u
      <4>1. ResasDe(u)' = ResasDe(u) /\ CompteFait(u)' = CompteFait(u)
        BY <1>1, <1>2, <1>5, <3>2 DEF ResasDe, CompteFait, Repos
      <4> QED
        BY <3>1, <4>1
    <3>3. CASE u = req[w].u
      <4>1. ResasDe(u)' = ResasDe(u) \cup {n}
        BY <1>5, <3>3 DEF ResasDe
      <4>2. CompteFait(u)' = CompteFait(u) \ {w} /\ w \in CompteFait(u)
        BY <1>1, <1>2, <3>3 DEF CompteFait, Repos
      <4>3. /\ Cardinality(ResasDe(u)') <= Cardinality(ResasDe(u)) + 1
            /\ Cardinality(ResasDe(u)') \in Nat
        <5>1. IsFiniteSet(ResasDe(u)) /\ Cardinality(ResasDe(u)) \in Nat
          BY ResaFini DEF InvResa
        <5>2. Cardinality(ResasDe(u) \cup {n}) =
                IF n \in ResasDe(u) THEN Cardinality(ResasDe(u)) ELSE Cardinality(ResasDe(u)) + 1
          BY <5>1, FS_AddElement
        <5> QED
          BY <4>1, <5>1, <5>2
      <4>4. /\ IsFiniteSet(CompteFait(u)) /\ Cardinality(CompteFait(u)) \in Nat
            /\ Cardinality(ResasDe(u)) \in Nat /\ Cardinality(Workers) \in Nat
        BY ResaFini DEF InvResa
      <4>5. Cardinality(CompteFait(u)') = Cardinality(CompteFait(u)) - 1
        BY <4>2, <4>4, FS_RemoveElement
      <4> QED
        BY <3>1, <4>3, <4>4, <4>5, ConstantesAssumption
    <3> QED
      BY <3>2, <3>3
  <2>5. ReservationsParLivre'
    <3> SUFFICES ASSUME NEW l \in Livres
                 PROVE  Cardinality(ResasDeLivre(l))' + Cardinality(ConflitFait(l))'
                           <= Cardinality(Workers)
      BY DEF ReservationsParLivre
    <3>1. Cardinality(ResasDeLivre(l)) + Cardinality(ConflitFait(l))
             <= Cardinality(Workers)
      BY DEF InvResa, ReservationsParLivre
    <3>2. CASE l # req[w].l
      <4>1. ResasDeLivre(l)' = ResasDeLivre(l) /\ ConflitFait(l)' = ConflitFait(l)
        BY <1>1, <1>2, <1>5, <3>2 DEF ResasDeLivre, ConflitFait, Repos
      <4> QED
        BY <3>1, <4>1
    <3>3. CASE l = req[w].l
      <4>1. ResasDeLivre(l)' = ResasDeLivre(l) \cup {n}
        BY <1>5, <3>3 DEF ResasDeLivre
      <4>2. ConflitFait(l)' = ConflitFait(l) \ {w} /\ w \in ConflitFait(l)
        BY <1>1, <1>2, <3>3 DEF ConflitFait, Repos
      <4>3. /\ Cardinality(ResasDeLivre(l)') <= Cardinality(ResasDeLivre(l)) + 1
            /\ Cardinality(ResasDeLivre(l)') \in Nat
        <5>1. IsFiniteSet(ResasDeLivre(l)) /\ Cardinality(ResasDeLivre(l)) \in Nat
          BY ResaFini DEF InvResa
        <5>2. Cardinality(ResasDeLivre(l) \cup {n}) =
                IF n \in ResasDeLivre(l) THEN Cardinality(ResasDeLivre(l)) ELSE Cardinality(ResasDeLivre(l)) + 1
          BY <5>1, FS_AddElement
        <5> QED
          BY <4>1, <5>1, <5>2
      <4>4. /\ IsFiniteSet(ConflitFait(l)) /\ Cardinality(ConflitFait(l)) \in Nat
            /\ Cardinality(ResasDeLivre(l)) \in Nat /\ Cardinality(Workers) \in Nat
        BY ResaFini DEF InvResa
      <4>5. Cardinality(ConflitFait(l)') = Cardinality(ConflitFait(l)) - 1
        BY <4>2, <4>4, FS_RemoveElement
      <4> QED
        BY <3>1, <4>3, <4>4, <4>5
    <3> QED
      BY <3>2, <3>3
  <2> QED
    BY <2>1, <2>2, <2>3, <2>4, <2>5 DEF InvResa
<1>6. \/ UNCHANGED reservations
      \/ reservations' = reservations \cup
            {[id |-> seqResa + 1, utilisateur |-> req[w].u,
              livre |-> req[w].l, dateResa |-> maintenant]}
  BY DEF CreerInsere
<1> QED
  BY <1>4, <1>5, <1>6

\* Every step, as long as the dates of reservations are not edited by hand.
LEMMA ResaNext ==
    ASSUME DatesEditables = {}, InvResa, [Next]_vars
    PROVE  InvResa'
<1>0. TypeOK'
  BY TypeNext DEF InvResa
<1> DEFINE Calme == /\ reservations' \subseteq reservations
                    /\ maintenant' >= maintenant
                    /\ \A w \in Workers :
                          req'[w] = req[w] \/ req'[w].etape \notin ApresPurge
<1>1. CASE Calme
  BY <1>0, <1>1, ResaCalme
<1>2. TypeOK /\ maintenant >= maintenant /\ maintenant \in Nat
  BY DEF InvResa, TypeOK
<1> USE DEF ApresPurge, Repos, base
<1>3. ASSUME Tick \/ UNCHANGED vars
      PROVE  Calme
  BY <1>2, <1>3 DEF Tick, vars
<1>4. CASE ReservationNext
  <2>1. ASSUME NEW w \in Workers, NEW u \in Utilisateurs, NEW l \in Livres,
               CreerDebut(w, u, l)
        PROVE  Calme
    BY <1>2, <2>1 DEF CreerDebut, Entre, TypeOK
  <2>2. ASSUME NEW w \in Workers, CreerEtape(w)
        PROVE  InvResa'
    BY <1>0, <2>2, ResaPurge, ResaCompte, ResaConflit, ResaInsere DEF CreerEtape
  <2>3. ASSUME \/ ListerReservations \/ ExpirerReservations
               \/ \E r \in reservations : \E u \in Utilisateurs : Annuler(u, r)
        PROVE  Calme
    BY <1>2, <2>3 DEF ListerReservations, ExpirerReservations, Annuler, purgeExpired
  <2> QED
    BY <1>1, <1>4, <2>1, <2>2, <2>3 DEF ReservationNext
<1>5. ASSUME EmpruntNext
      PROVE  Calme
  <2>1. ASSUME NEW w \in Workers, NEW u \in Utilisateurs, NEW l \in Livres,
               NEW rendu \in BOOLEAN, PretDebut(w, u, l, rendu)
        PROVE  Calme
    BY <1>2, <2>1 DEF PretDebut, Entre, TypeOK
  <2>2. ASSUME NEW w \in Workers, NEW e \in emprunts, NEW u \in Utilisateurs,
               NEW l \in Livres, NEW rendu \in BOOLEAN, EditDebut(w, e, u, l, rendu)
        PROVE  Calme
    BY <1>2, <2>2 DEF EditDebut, Entre, TypeOK
  <2>3. ASSUME NEW w \in Workers, PretEtape(w)
        PROVE  Calme
    <3>1. reservations' \subseteq reservations /\ maintenant' = maintenant
      BY <2>3 DEF PretEtape, PretReservation, PretLimite, PretEnCours, PretInsere,
                  EditLivre, EditFlush
    <3>2. \A v \in Workers \ {w} : req'[v] = req[v]
      BY <1>2, <2>3
         DEF PretEtape, PretReservation, PretLimite, PretEnCours, PretInsere,
             EditLivre, EditFlush, Fin, Passe, TypeOK
    <3>3. req[w] \in RequetePret \/ req[w] \in RequeteEdit
      BY <1>2, <2>3, FormeRequete
         DEF PretEtape, PretReservation, PretLimite, PretEnCours, PretInsere,
             EditLivre, EditFlush, EtapesPret, EtapesEdit
    <3>4. req'[w].etape \in {"repos", "pret_limite", "pret_encours", "pret_insere",
                             "edit_flush"}
      BY <1>2, <2>3, <3>3, SMTT(60)
         DEF PretEtape, PretReservation, PretLimite, PretEnCours, PretInsere,
             EditLivre, EditFlush, Fin, Passe, TypeOK, RequetePret, RequeteEdit
    <3> QED
      BY <1>2, <3>1, <3>2, <3>4
  <2>4. ASSUME NEW e, SupprPret(e)
        PROVE  Calme
    BY <1>2, <2>4 DEF SupprPret
  <2> QED
    BY <1>5, <2>1, <2>2, <2>3, <2>4 DEF EmpruntNext
<1>6. ASSUME AdminNext
      PROVE  Calme
  <2>1. ASSUME NEW w \in Workers, NEW u \in Utilisateurs, SupprUtilisateurDebut(w, u)
        PROVE  Calme
    BY <1>2, <2>1 DEF SupprUtilisateurDebut, Entre, TypeOK
  <2>2. ASSUME NEW w \in Workers, SupprUtilisateurFlush(w)
        PROVE  Calme
    BY <1>2, <2>2 DEF SupprUtilisateurFlush, Fin, TypeOK
  <2>3. ASSUME NEW l \in Livres, SupprLivre(l)
        PROVE  Calme
    BY <1>2, <2>3 DEF SupprLivre
  <2>4. ASSUME NEW r, AdminSupprimeResa(r)
        PROVE  Calme
    BY <1>2, <2>4 DEF AdminSupprimeResa
  <2> QED
    BY <1>6, <2>1, <2>2, <2>3, <2>4 DEF AdminNext
<1> QED
  BY <1>1, <1>3, <1>4, <1>5, <1>6 DEF Next

\* It holds initially.
LEMMA InvResaInit == Init => InvResa
<1> SUFFICES ASSUME Init
             PROVE  InvResa
  OBVIOUS
<1> USE ConstantesAssumption
<1>1. TypeOK
  BY DEF Init, TypeOK, NULL, Requete
<1>2. reservations = {} /\ \A w \in Workers : req[w].etape = "repos"
  BY DEF Init, Repos
<1>3. /\ \A u : ResasDe(u) = {} /\ CompteFait(u) = {}
      /\ \A l : ResasDeLivre(l) = {} /\ ConflitFait(l) = {}
  BY <1>2 DEF ResasDe, CompteFait, ResasDeLivre, ConflitFait
<1>4. IsFiniteSet(reservations)
  BY <1>2, FS_EmptySet
<1>5. Cardinality({}) = 0 /\ Cardinality(Workers) \in Nat
  BY FS_EmptySet, FS_CardinalityType
<1>6. LimiteResaParWorker /\ ReservationsParLivre
  <2>1. 0 + 0 <= LimiteResa - 1 + Cardinality(Workers) /\ 0 + 0 <= Cardinality(Workers)
    BY <1>5
  <2> QED
    BY <1>3, <1>5, <2>1, Zenon DEF LimiteResaParWorker, ReservationsParLivre
<1>7. PurgeTient
  BY <1>2 DEF PurgeTient
<1> QED
  BY <1>1, <1>2, <1>4, <1>6, <1>7 DEF InvResa, ApresPurge

\* The inductive invariant holds of every state.
LEMMA InvResaTient ==
    ASSUME DatesEditables = {}
    PROVE  Spec => []InvResa
<1>1. Init => InvResa
  BY InvResaInit
<1>2. InvResa /\ [Next]_vars => InvResa'
  BY ResaNext
<1> QED
  BY <1>1, <1>2, PTL DEF Spec

\* For any number of workers: create() never lets a member hold more than the
\* limit plus one reservation per further worker, nor a book more reservations
\* than there are workers, and after its purge it sees every reservation.
THEOREM ReservationsBornees ==
    ASSUME DatesEditables = {}
    PROVE  Spec => [](PurgeTient /\ LimiteResaParWorker /\ ReservationsParLivre)
<1>1. InvResa => PurgeTient /\ LimiteResaParWorker /\ ReservationsParLivre
  BY DEF InvResa
<1> QED
  BY <1>1, InvResaTient, PTL

\* With a single worker the messages of create() are true: no member has more
\* reservations than the limit, no book more than one.
THEOREM UnWorkerRespecteLimites ==
    ASSUME DatesEditables = {}, Cardinality(Workers) = 1
    PROVE  Spec => [](LimiteResaRespectee /\ LivreReserveUneFois)
<1>1. InvResa => LimiteResaRespectee /\ LivreReserveUneFois
  <2> SUFFICES ASSUME InvResa
               PROVE  LimiteResaRespectee /\ LivreReserveUneFois
    OBVIOUS
  <2>1. \A u \in Utilisateurs : Cardinality(ResasDe(u)) <= LimiteResa
    <3> SUFFICES ASSUME NEW u \in Utilisateurs
                 PROVE  Cardinality(ResasDe(u)) <= LimiteResa
      OBVIOUS
    <3>1. Cardinality(ResasDe(u)) + Cardinality(CompteFait(u)) <= LimiteResa - 1 + 1
      BY DEF InvResa, LimiteResaParWorker
    <3>2. Cardinality(ResasDe(u)) \in Nat /\ Cardinality(CompteFait(u)) \in Nat
      BY ResaFini DEF InvResa
    <3> QED
      BY <3>1, <3>2, ConstantesAssumption
  <2>2. \A l \in Livres : Cardinality(ResasDeLivre(l)) <= 1
    <3> SUFFICES ASSUME NEW l \in Livres
                 PROVE  Cardinality(ResasDeLivre(l)) <= 1
      OBVIOUS
    <3>1. Cardinality(ResasDeLivre(l)) + Cardinality(ConflitFait(l)) <= 1
      BY DEF InvResa, ReservationsParLivre
    <3>2. Cardinality(ResasDeLivre(l)) \in Nat /\ Cardinality(ConflitFait(l)) \in Nat
      BY ResaFini DEF InvResa
    <3> QED
      BY <3>1, <3>2
  <2> QED
    BY <2>1, <2>2 DEF LimiteResaRespectee, LivreReserveUneFois
<1> QED
  BY <1>1, InvResaTient, PTL

-----------------------------------------------------------------------------
(***************************************************************************)
(* Loans.                                                                  *)
(***************************************************************************)

\* The stages of persistEntity after its limit.
ApresLimite == {"pret_encours", "pret_insere"}

\* An edit under way submits the book and the member it loaded, and empties no
\* dateRetour.
EditionSage(q) ==
    q.u = q.avant.utilisateur /\ q.l = q.avant.livre /\ (q.avant.rendu => q.rendu)

\* The inductive invariant.  Besides the bounds it needs that no edit under way
\* will add a running loan to a member or a book.
InvPret ==
    /\ TypeOK
    /\ IsFiniteSet(Actifs)
    /\ \A w \in Workers : req[w].etape \in EtapesEdit => EditionSage(req[w])
    /\ LimiteEmpruntsParWorker
    /\ EmpruntsParLivre

\* The sets the bounds count are finite.
LEMMA PretFini ==
    ASSUME IsFiniteSet(Actifs)
    PROVE  /\ \A u : /\ IsFiniteSet(ActifsDe(u)) /\ Cardinality(ActifsDe(u)) \in Nat
                     /\ IsFiniteSet(LimiteVue(u)) /\ Cardinality(LimiteVue(u)) \in Nat
           /\ \A l : /\ IsFiniteSet(ActifsDeLivre(l)) /\ Cardinality(ActifsDeLivre(l)) \in Nat
                     /\ IsFiniteSet(EnCoursVu(l)) /\ Cardinality(EnCoursVu(l)) \in Nat
           /\ Cardinality(Workers) \in Nat
<1> USE ConstantesAssumption
<1>1. ASSUME NEW u
      PROVE  /\ IsFiniteSet(ActifsDe(u)) /\ Cardinality(ActifsDe(u)) \in Nat
             /\ IsFiniteSet(LimiteVue(u)) /\ Cardinality(LimiteVue(u)) \in Nat
  <2>1. ActifsDe(u) \in SUBSET Actifs /\ LimiteVue(u) \in SUBSET Workers
    BY DEF ActifsDe, LimiteVue
  <2>2. IsFiniteSet(ActifsDe(u)) /\ IsFiniteSet(LimiteVue(u))
    BY <2>1, FS_Subset
  <2> QED
    BY <2>2, FS_CardinalityType
<1>2. ASSUME NEW l
      PROVE  /\ IsFiniteSet(ActifsDeLivre(l)) /\ Cardinality(ActifsDeLivre(l)) \in Nat
             /\ IsFiniteSet(EnCoursVu(l)) /\ Cardinality(EnCoursVu(l)) \in Nat
  <2>1. ActifsDeLivre(l) \in SUBSET Actifs /\ EnCoursVu(l) \in SUBSET Workers
    BY DEF ActifsDeLivre, EnCoursVu
  <2>2. IsFiniteSet(ActifsDeLivre(l)) /\ IsFiniteSet(EnCoursVu(l))
    BY <2>1, FS_Subset
  <2> QED
    BY <2>2, FS_CardinalityType
<1>3. Cardinality(Workers) \in Nat
  BY FS_CardinalityType
<1> QED
  BY <1>1, <1>2, <1>3

\* A worker whose request is unchanged is counted as before.
LEMMA VuesAilleurs ==
    ASSUME NEW v \in Workers, req'[v] = req[v]
    PROVE  /\ \A u : v \in LimiteVue(u)' <=> v \in LimiteVue(u)
           /\ \A l : v \in EnCoursVu(l)' <=> v \in EnCoursVu(l)
BY Zenon DEF LimiteVue, EnCoursVu

\* The bounds count only workers.
LEMMA VuesWorkers ==
    /\ \A u : LimiteVue(u) \subseteq Workers /\ LimiteVue(u)' \subseteq Workers
    /\ \A l : EnCoursVu(l) \subseteq Workers /\ EnCoursVu(l)' \subseteq Workers
BY Zenon DEF LimiteVue, EnCoursVu

\* A step of a worker that edits nothing leaves the edits of the others as
\* they are.
LEMMA EditionsAilleurs ==
    ASSUME \A w \in Workers : req[w].etape \in EtapesEdit => EditionSage(req[w]),
           NEW w \in Workers, req'[w].etape \notin EtapesEdit,
           \A v \in Workers \ {w} : req'[v] = req[v]
    PROVE  \A v \in Workers : req'[v].etape \in EtapesEdit => EditionSage(req'[v])
<1> SUFFICES ASSUME NEW v \in Workers, req'[v].etape \in EtapesEdit
             PROVE  EditionSage(req'[v])
  OBVIOUS
<1>1. req'[v] = req[v]
  OBVIOUS
<1>2. EditionSage(req[v])
  BY <1>1
<1> QED
  BY <1>1, <1>2, Zenon

\* A step that adds no running loan and takes no request of persistEntity past
\* a check keeps the invariant.
LEMMA PretCalme ==
    ASSUME InvPret, TypeOK', Actifs' \subseteq Actifs,
           \A w \in Workers : \/ req'[w] = req[w]
                              \/ /\ req'[w].etape \notin ApresLimite
                                 /\ req'[w].etape \in EtapesEdit => EditionSage(req'[w])
    PROVE  InvPret'
<1>1. IsFiniteSet(Actifs)'
  BY FS_Subset DEF InvPret
<1>2. (\A w \in Workers : req[w].etape \in EtapesEdit => EditionSage(req[w]))'
  BY DEF InvPret, EditionSage
<1>3. LimiteEmpruntsParWorker'
  <2> SUFFICES ASSUME NEW u \in Utilisateurs
               PROVE  Cardinality(ActifsDe(u))' + Cardinality(LimiteVue(u))'
                         <= LimiteEmprunts - 1 + Cardinality(Workers)
    BY DEF LimiteEmpruntsParWorker
  <2>1. ActifsDe(u)' \in SUBSET ActifsDe(u)
    BY DEF ActifsDe
  <2>2. LimiteVue(u)' \in SUBSET LimiteVue(u)
    BY DEF LimiteVue, ApresLimite
  <2>3. /\ Cardinality(ActifsDe(u)') <= Cardinality(ActifsDe(u))
        /\ Cardinality(LimiteVue(u)') <= Cardinality(LimiteVue(u))
        /\ Cardinality(ActifsDe(u)') \in Nat /\ Cardinality(LimiteVue(u)') \in Nat
    BY <2>1, <2>2, FS_Subset, FS_CardinalityType, PretFini DEF InvPret
  <2>4. Cardinality(ActifsDe(u)) + Cardinality(LimiteVue(u))
           <= LimiteEmprunts - 1 + Cardinality(Workers)
    BY DEF InvPret, LimiteEmpruntsParWorker
  <2> QED
    BY <2>3, <2>4, PretFini, ConstantesAssumption DEF InvPret
<1>4. EmpruntsParLivre'
  <2> SUFFICES ASSUME NEW l \in Livres
               PROVE  Cardinality(ActifsDeLivre(l))' + Cardinality(EnCoursVu(l))'
                         <= Cardinality(Workers)
    BY DEF EmpruntsParLivre
  <2>1. ActifsDeLivre(l)' \in SUBSET ActifsDeLivre(l)
    BY DEF ActifsDeLivre
  <2>2. EnCoursVu(l)' \in SUBSET EnCoursVu(l)
    BY DEF EnCoursVu, ApresLimite
  <2>3. /\ Cardinality(ActifsDeLivre(l)') <= Cardinality(ActifsDeLivre(l))
        /\ Cardinality(EnCoursVu(l)') <= Cardinality(EnCoursVu(l))
        /\ Cardinality(ActifsDeLivre(l)') \in Nat /\ Cardinality(EnCoursVu(l)') \in Nat
    BY <2>1, <2>2, FS_Subset, FS_CardinalityType, PretFini DEF InvPret
  <2>4. Cardinality(ActifsDeLivre(l)) + Cardinality(EnCoursVu(l))
           <= Cardinality(Workers)
    BY DEF InvPret, EmpruntsParLivre
  <2> QED
    BY <2>3, <2>4, PretFini DEF InvPret
<1> QED
  BY <1>1, <1>2, <1>3, <1>4 DEF InvPret

\* The limit: the other workers may all be about to insert a loan for the
\* member it counted.
LEMMA PretLimiteTient ==
    ASSUME InvPret, TypeOK', NEW w \in Workers, PretLimite(w)
    PROVE  InvPret'
<1> USE ConstantesAssumption
<1>0. emprunts' = emprunts /\ Actifs' = Actifs
  BY DEF PretLimite, base, Actifs
<1>1. CASE Fin(w)
  <2>1. \A v \in Workers : \/ req'[v] = req[v]
                           \/ /\ req'[v].etape \notin ApresLimite
                              /\ req'[v].etape \notin EtapesEdit
    BY <1>1 DEF Fin, Repos, ApresLimite, EtapesEdit, InvPret, TypeOK
  <2> QED
    BY <1>0, <2>1, PretCalme
<1>2. CASE /\ ~(Cardinality(ActifsDe(req[w].u)) >= LimiteEmprunts)
           /\ Passe(w, "pret_encours")
  <2>1. req[w] \in RequetePret /\ req[w].etape = "pret_limite"
    BY FormeRequete DEF PretLimite, EtapesPret, InvPret
  <2>2. /\ req'[w] = [req[w] EXCEPT !.etape = "pret_encours"]
        /\ \A v \in Workers \ {w} : req'[v] = req[v]
    BY <1>2 DEF Passe, InvPret, TypeOK
  <2>3. /\ req'[w].etape = "pret_encours" /\ req'[w].u = req[w].u
        /\ req'[w].l = req[w].l /\ req'[w].rendu = req[w].rendu
    BY <2>1, <2>2 DEF RequetePret
  <2>4. EmpruntsParLivre'
    <3>1. \A l : ActifsDeLivre(l)' = ActifsDeLivre(l)
      BY <1>0 DEF ActifsDeLivre
    <3>2. \A l : w \notin EnCoursVu(l) /\ w \notin EnCoursVu(l)'
      <4>1. req[w].etape # "pret_insere" /\ req'[w].etape # "pret_insere"
        BY <2>1, <2>3
      <4> QED
        BY <4>1, Zenon DEF EnCoursVu
    <3>3. \A l : EnCoursVu(l)' = EnCoursVu(l)
      BY <2>2, <3>2, VuesAilleurs, VuesWorkers
    <3> QED
      BY <3>1, <3>3 DEF EmpruntsParLivre, InvPret
  <2>5. LimiteEmpruntsParWorker'
    <3> SUFFICES ASSUME NEW u \in Utilisateurs
                 PROVE  Cardinality(ActifsDe(u))' + Cardinality(LimiteVue(u))'
                           <= LimiteEmprunts - 1 + Cardinality(Workers)
      BY DEF LimiteEmpruntsParWorker
    <3>1. ActifsDe(u)' = ActifsDe(u)
      BY <1>0 DEF ActifsDe
    <3>2. CASE u # req[w].u
      <4>1. w \notin LimiteVue(u) /\ w \notin LimiteVue(u)'
        BY <2>3, <3>2, Zenon DEF LimiteVue
      <4>2. LimiteVue(u)' = LimiteVue(u)
        BY <2>2, <4>1, VuesAilleurs, VuesWorkers
      <4> QED
        BY <3>1, <4>2 DEF LimiteEmpruntsParWorker, InvPret
    <3>3. CASE u = req[w].u
      <4>1. Cardinality(ActifsDe(u)) \in Nat /\ Cardinality(Workers) \in Nat
        BY PretFini DEF InvPret
      <4>2. ~(Cardinality(ActifsDe(u)) >= LimiteEmprunts)
        BY <1>2, <3>3
      <4>3. Cardinality(ActifsDe(u)) <= LimiteEmprunts - 1
        BY <4>1, <4>2
      <4>4. LimiteVue(u)' \in SUBSET Workers
        BY DEF LimiteVue
      <4>5. /\ Cardinality(LimiteVue(u)') <= Cardinality(Workers)
            /\ Cardinality(LimiteVue(u)') \in Nat
        BY <4>4, FS_Subset, FS_CardinalityType
      <4> QED
        BY <3>1, <4>1, <4>3, <4>5
    <3> QED
      BY <3>2, <3>3
  <2>6. \A v \in Workers : req'[v].etape \in EtapesEdit => EditionSage(req'[v])
    <3>1. req'[w].etape \notin EtapesEdit
      BY <2>3 DEF EtapesEdit
    <3> QED
      BY <2>2, <3>1, EditionsAilleurs DEF InvPret
  <2> QED
    BY <1>0, <2>4, <2>5, <2>6 DEF InvPret
<1> QED
  BY <1>1, <1>2 DEF PretLimite

\* The running-loan check: the book has no running loan when it is passed.
LEMMA PretEnCoursTient ==
    ASSUME InvPret, TypeOK', NEW w \in Workers, PretEnCours(w)
    PROVE  InvPret'
<1> USE ConstantesAssumption
<1>0. emprunts' = emprunts /\ Actifs' = Actifs
  BY DEF PretEnCours, base, Actifs
<1>1. CASE Fin(w)
  <2>1. \A v \in Workers : \/ req'[v] = req[v]
                           \/ /\ req'[v].etape \notin ApresLimite
                              /\ req'[v].etape \notin EtapesEdit
    BY <1>1 DEF Fin, Repos, ApresLimite, EtapesEdit, InvPret, TypeOK
  <2> QED
    BY <1>0, <2>1, PretCalme
<1>2. CASE ActifsDeLivre(req[w].l) = {} /\ Passe(w, "pret_insere")
  <2>1. req[w] \in RequetePret /\ req[w].etape = "pret_encours"
    BY FormeRequete DEF PretEnCours, EtapesPret, InvPret
  <2>2. /\ req'[w] = [req[w] EXCEPT !.etape = "pret_insere"]
        /\ \A v \in Workers \ {w} : req'[v] = req[v]
    BY <1>2 DEF Passe, InvPret, TypeOK
  <2>3. /\ req'[w].etape = "pret_insere" /\ req'[w].u = req[w].u
        /\ req'[w].l = req[w].l /\ req'[w].rendu = req[w].rendu
    BY <2>1, <2>2 DEF RequetePret
  <2>4. LimiteEmpruntsParWorker'
    <3>1. \A u : ActifsDe(u)' = ActifsDe(u)
      BY <1>0 DEF ActifsDe
    <3>2. \A u : w \in LimiteVue(u)' <=> w \in LimiteVue(u)
      <4>1. req[w].etape \in ApresLimite /\ req'[w].etape \in ApresLimite
        BY <2>1, <2>3 DEF ApresLimite
      <4> QED
        BY <2>3, <4>1, Zenon DEF LimiteVue, ApresLimite
    <3>3. \A u : LimiteVue(u)' = LimiteVue(u)
      BY <2>2, <3>2, VuesAilleurs, VuesWorkers
    <3> QED
      BY <3>1, <3>3 DEF LimiteEmpruntsParWorker, InvPret
  <2>5. EmpruntsParLivre'
    <3> SUFFICES ASSUME NEW l \in Livres
                 PROVE  Cardinality(ActifsDeLivre(l))' + Cardinality(EnCoursVu(l))'
                           <= Cardinality(Workers)
      BY DEF EmpruntsParLivre
    <3>1. ActifsDeLivre(l)' = ActifsDeLivre(l)
      BY <1>0 DEF ActifsDeLivre
    <3>2. CASE l # req[w].l
      <4>1. w \notin EnCoursVu(l) /\ w \notin EnCoursVu(l)'
        BY <2>3, <3>2, Zenon DEF EnCoursVu
      <4>2. EnCoursVu(l)' = EnCoursVu(l)
        BY <2>2, <4>1, VuesAilleurs, VuesWorkers
      <4> QED
        BY <3>1, <4>2 DEF EmpruntsParLivre, InvPret
    <3>3. CASE l = req[w].l
      <4>1. ActifsDeLivre(l) = {}
        BY <1>2, <3>3
      <4>2. EnCoursVu(l)' \in SUBSET Workers
        BY DEF EnCoursVu
      <4>3. /\ Cardinality(EnCoursVu(l)') <= Cardinality(Workers)
            /\ Cardinality(EnCoursVu(l)') \in Nat
        BY <4>2, FS_Subset, FS_CardinalityType
      <4> QED
        BY <3>1, <4>1, <4>3, FS_EmptySet
    <3> QED
      BY <3>2, <3>3
  <2>6. \A v \in Workers : req'[v].etape \in EtapesEdit => EditionSage(req'[v])
    <3>1. req'[w].etape \notin EtapesEdit
      BY <2>3 DEF EtapesEdit
    <3> QED
      BY <2>2, <3>1, EditionsAilleurs DEF InvPret
  <2> QED
    BY <1>0, <2>4, <2>5, <2>6 DEF InvPret
<1> QED
  BY <1>1, <1>2 DEF PretEnCours

\* The insertion: the row takes the place of the request that was counted.
LEMMA PretInsereTient ==
    ASSUME InvPret, TypeOK', NEW w \in Workers, PretInsere(w)
    PROVE  InvPret'
<1> USE ConstantesAssumption
<1>1. req[w] \in RequetePret /\ req[w].etape = "pret_insere"
  BY FormeRequete DEF PretInsere, EtapesPret, InvPret
<1>2. req'[w] = Repos /\ \A v \in Workers \ {w} : req'[v] = req[v]
  BY DEF PretInsere, Fin, InvPret, TypeOK
<1>3. \A v \in Workers : \/ req'[v] = req[v]
                         \/ /\ req'[v].etape \notin ApresLimite
                            /\ req'[v].etape \notin EtapesEdit
  BY <1>2 DEF Repos, ApresLimite, EtapesEdit
<1>4. ASSUME Actifs' \subseteq Actifs
      PROVE  InvPret'
  BY <1>3, <1>4, PretCalme
<1>5. ASSUME NEW n, ~n.rendu, ~req[w].rendu,
             n.utilisateur = req[w].u, n.livre = req[w].l,
             emprunts' = emprunts \cup {n}
      PROVE  InvPret'
  <2>0. Actifs' = Actifs \cup {n}
    BY <1>5, Zenon DEF Actifs
  <2>1. IsFiniteSet(Actifs)'
    BY <2>0, FS_AddElement DEF InvPret
  <2>2. \A v \in Workers : req'[v].etape \in EtapesEdit => EditionSage(req'[v])
    <3>1. req'[w].etape \notin EtapesEdit
      BY <1>2 DEF Repos, EtapesEdit
    <3> QED
      BY <1>2, <3>1, EditionsAilleurs DEF InvPret
  <2>3. req'[w].etape \notin ApresLimite
    BY <1>2 DEF Repos, ApresLimite
  <2>4. (\A u : w \notin LimiteVue(u)') /\ (\A l : w \notin EnCoursVu(l)')
    BY <2>3, Zenon DEF LimiteVue, EnCoursVu, ApresLimite
  <2>5. LimiteEmpruntsParWorker'
    <3> SUFFICES ASSUME NEW u \in Utilisateurs
                 PROVE  Cardinality(ActifsDe(u))' + Cardinality(LimiteVue(u))'
                           <= LimiteEmprunts - 1 + Cardinality(Workers)
      BY DEF LimiteEmpruntsParWorker
    <3>1. Cardinality(ActifsDe(u)) + Cardinality(LimiteVue(u))
             <= LimiteEmprunts - 1 + Cardinality(Workers)
      BY DEF InvPret, LimiteEmpruntsParWorker
    <3>2. CASE u # req[w].u
      <4>1. ActifsDe(u)' = ActifsDe(u)
        BY <1>5, <2>0, <3>2 DEF ActifsDe
      <4>2. w \notin LimiteVue(u)
        BY <3>2, Zenon DEF LimiteVue
      <4>3. LimiteVue(u)' = LimiteVue(u)
        BY <1>2, <2>4, <4>2, VuesAilleurs, VuesWorkers
      <4> QED
        BY <3>1, <4>1, <4>3
    <3>3. CASE u = req[w].u
      <4>1. ActifsDe(u)' = ActifsDe(u) \cup {n}
        BY <1>5, <2>0, <3>3 DEF ActifsDe
      <4>2. w \in LimiteVue(u)
        BY <1>1, <1>5, <3>3, Zenon DEF LimiteVue
      <4>3. LimiteVue(u)' = LimiteVue(u) \ {w}
        BY <1>2, <2>4, VuesAilleurs, VuesWorkers
      <4>4. /\ IsFiniteSet(ActifsDe(u)) /\ Cardinality(ActifsDe(u)) \in Nat
            /\ IsFiniteSet(LimiteVue(u)) /\ Cardinality(LimiteVue(u)) \in Nat
            /\ Cardinality(Workers) \in Nat
        BY PretFini DEF InvPret
      <4>5. Cardinality(ActifsDe(u) \cup {n}) =
              IF n \in ActifsDe(u) THEN Cardinality(ActifsDe(u)) ELSE Cardinality(ActifsDe(u)) + 1
        BY <4>4, FS_AddElement
      <4>6. Cardinality(LimiteVue(u)') = Cardinality(LimiteVue(u)) - 1
        BY <4>2, <4>3, <4>4, FS_RemoveElement
      <4> QED
        BY <3>1, <4>1, <4>4, <4>5, <4>6
    <3> QED
      BY <3>2, <3>3
  <2>6. EmpruntsParLivre'
    <3> SUFFICES ASSUME NEW l \in Livres
                 PROVE  Cardinality(ActifsDeLivre(l))' + Cardinality(EnCoursVu(l))'
                           <= Cardinality(Workers)
      BY DEF EmpruntsParLivre
    <3>1. Cardinality(ActifsDeLivre(l)) + Cardinality(EnCoursVu(l))
             <= Cardinality(Workers)
      BY DEF InvPret, EmpruntsParLivre
    <3>2. CASE l # req[w].l
      <4>1. ActifsDeLivre(l)' = ActifsDeLivre(l)
        BY <1>5, <2>0, <3>2 DEF ActifsDeLivre
      <4>2. w \notin EnCoursVu(l)
        BY <3>2, Zenon DEF EnCoursVu
      <4>3. EnCoursVu(l)' = EnCoursVu(l)
        BY <1>2, <2>4, <4>2, VuesAilleurs, VuesWorkers
      <4> QED
        BY <3>1, <4>1, <4>3
    <3>3. CASE l = req[w].l
      <4>1. ActifsDeLivre(l)' = ActifsDeLivre(l) \cup {n}
        BY <1>5, <2>0, <3>3 DEF ActifsDeLivre
      <4>2. w \in EnCoursVu(l)
        BY <1>1, <1>5, <3>3, Zenon DEF EnCoursVu
      <4>3. EnCoursVu(l)' = EnCoursVu(l) \ {w}
        BY <1>2, <2>4, VuesAilleurs, VuesWorkers
      <4>4. /\ IsFiniteSet(ActifsDeLivre(l)) /\ Cardinality(ActifsDeLivre(l)) \in Nat
            /\ IsFiniteSet(EnCoursVu(l)) /\ Cardinality(EnCoursVu(l)) \in Nat
            /\ Cardinality(Workers) \in Nat
        BY PretFini DEF InvPret
      <4>5. Cardinality(ActifsDeLivre(l) \cup {n}) =
              IF n \in ActifsDeLivre(l) THEN Cardinality(ActifsDeLivre(l))
              ELSE Cardinality(ActifsDeLivre(l)) + 1
        BY <4>4, FS_AddElement
      <4>6. Cardinality(EnCoursVu(l)') = Cardinality(EnCoursVu(l)) - 1
        BY <4>2, <4>3, <4>4, FS_RemoveElement
      <4> QED
        BY <3>1, <4>1, <4>4, <4>5, <4>6
    <3> QED
      BY <3>2, <3>3
  <2> QED
    BY <2>1, <2>2, <2>5, <2>6 DEF InvPret
<1> DEFINE n == [id |-> seqEmprunt + 1, utilisateur |-> req[w].u,
                 livre |-> req[w].l, rendu |-> req[w].rendu]
<1>6. n.utilisateur = req[w].u /\ n.livre = req[w].l /\ n.rendu = req[w].rendu
  OBVIOUS
<1>7. emprunts' = emprunts \/ emprunts' = emprunts \cup {n}
  BY Zenon DEF PretInsere
<1> HIDE DEF n
<1>8. CASE emprunts' = emprunts
  BY <1>4, <1>8 DEF Actifs
<1>9. CASE emprunts' = emprunts \cup {n} /\ req[w].rendu
  <2>1. n.rendu
    BY <1>6, <1>9, Zenon
  <2>2. Actifs' \subseteq Actifs
    BY <1>9, <2>1, Zenon DEF Actifs
  <2> QED
    BY <1>4, <2>2
<1>10. CASE emprunts' = emprunts \cup {n} /\ ~req[w].rendu
  <2>1. ~n.rendu
    BY <1>6, <1>10, Zenon
  <2> QED
    BY <1>5, <1>6, <1>10, <2>1
<1> QED
  BY <1>7, <1>8, <1>9, <1>10

\* An edit that keeps book and member and at most returns the loan adds no
\* running loan.
LEMMA EditFlushCalme ==
    ASSUME InvPret, NEW w \in Workers, EditFlush(w)
    PROVE  Actifs' \subseteq Actifs
<1> DEFINE q == req[w]
<1>1. q \in RequeteEdit /\ q.etape = "edit_flush"
  BY FormeRequete DEF EditFlush, EtapesEdit, InvPret
<1>2. EditionSage(q)
  BY <1>1 DEF InvPret, EtapesEdit
<1>3. q.avant \in Emprunt /\ q.rendu \in BOOLEAN
  BY <1>1 DEF RequeteEdit
<1>4. q.avant.rendu \in BOOLEAN
  BY <1>3 DEF Emprunt
<1>5. \A e \in emprunts : e \in Emprunt
  BY DEF InvPret, TypeOK
<1>6. CASE emprunts' = emprunts
  BY <1>6 DEF Actifs
<1>7. CASE emprunts' = {IF e.id = q.avant.id THEN Modifie(e, q) ELSE e : e \in emprunts}
  <2> SUFFICES ASSUME NEW x \in emprunts', ~x.rendu
               PROVE  x \in Actifs
    BY Zenon DEF Actifs
  <2>1. PICK e \in emprunts : x = IF e.id = q.avant.id THEN Modifie(e, q) ELSE e
    BY <1>7
  <2>2. q.u = q.avant.utilisateur /\ q.l = q.avant.livre
    BY <1>2, Zenon DEF EditionSage
  <2>3. CASE q.rendu = q.avant.rendu
    <3>1. Modifie(e, q) = e
      BY <1>5, <2>2, <2>3 DEF Modifie, Emprunt
    <3> QED
      BY <2>1, <3>1, Zenon DEF Actifs
  <2>4. CASE q.rendu # q.avant.rendu
    <3>1. q.rendu = TRUE
      BY <1>2, <1>3, <1>4, <2>4, Zenon DEF EditionSage
    <3>2. Modifie(e, q).rendu = TRUE
      BY <1>5, <2>2, <2>4, <3>1 DEF Modifie, Emprunt
    <3>3. x = e
      BY <2>1, <3>2, Zenon
    <3> QED
      BY <3>3, Zenon DEF Actifs
  <2> QED
    BY <2>3, <2>4
<1> QED
  BY <1>6, <1>7 DEF EditFlush

\* Every step, as long as edits neither reopen, move nor reattribute a loan.
LEMMA PretNext ==
    ASSUME Editions = {}, InvPret, [Next]_vars
    PROVE  InvPret'
<1>0. TypeOK' /\ TypeOK
  BY TypeNext DEF InvPret
<1> DEFINE Sage(v) == \/ req'[v] = req[v]
                      \/ /\ req'[v].etape \notin ApresLimite
                         /\ req'[v].etape \in EtapesEdit => EditionSage(req'[v])
           Calme == Actifs' \subseteq Actifs /\ \A v \in Workers : Sage(v)
<1>1. CASE Calme
  BY <1>0, <1>1, PretCalme
<1>2. ASSUME emprunts' \subseteq emprunts
      PROVE  Actifs' \subseteq Actifs
  BY <1>2, Zenon DEF Actifs
<1>3. ASSUME emprunts' \subseteq emprunts, NEW w \in Workers,
             \A v \in Workers \ {w} : req'[v] = req[v],
             req'[w].etape \notin ApresLimite \cup EtapesEdit
      PROVE  Calme
  BY <1>2, <1>3
<1>4. ASSUME emprunts' \subseteq emprunts, UNCHANGED req
      PROVE  Calme
  BY <1>2, <1>4
<1> HIDE DEF Calme
<1> USE DEF base
<1>5. ASSUME Tick \/ UNCHANGED vars
      PROVE  Calme
  BY <1>4, <1>5 DEF Tick, vars
<1>6. ASSUME ReservationNext
      PROVE  Calme
  <2>1. ASSUME NEW w \in Workers, NEW u \in Utilisateurs, NEW l \in Livres,
               CreerDebut(w, u, l)
        PROVE  Calme
    <3>1. /\ \A v \in Workers \ {w} : req'[v] = req[v]
          /\ req'[w].etape = "creer_purge"
      BY <1>0, <2>1 DEF CreerDebut, Entre, TypeOK
    <3>2. emprunts' \subseteq emprunts
      BY <2>1 DEF CreerDebut
    <3> QED
      BY <1>3, <3>1, <3>2 DEF ApresLimite, EtapesEdit
  <2>2. ASSUME NEW w \in Workers, CreerEtape(w)
        PROVE  Calme
    <3>1. emprunts' \subseteq emprunts
      BY <2>2 DEF CreerEtape, CreerPurge, CreerCompte, CreerConflit, CreerInsere
    <3>2. \A v \in Workers \ {w} : req'[v] = req[v]
      BY <1>0, <2>2
         DEF CreerEtape, CreerPurge, CreerCompte, CreerConflit, CreerInsere, Fin,
             Passe, TypeOK
    <3>3. req[w] \in RequeteCreer
      BY <1>0, <2>2, FormeRequete
         DEF CreerEtape, CreerPurge, CreerCompte, CreerConflit, CreerInsere, EtapesCreer
    <3>4. req'[w].etape \in {"repos", "creer_compte", "creer_conflit", "creer_insere"}
      BY <1>0, <2>2, <3>3
         DEF CreerEtape, CreerPurge, CreerCompte, CreerConflit, CreerInsere, Fin,
             Passe, Repos, TypeOK, RequeteCreer
    <3> QED
      BY <1>3, <3>1, <3>2, <3>4 DEF ApresLimite, EtapesEdit
  <2>3. ASSUME \/ ListerReservations \/ ExpirerReservations
               \/ \E r \in reservations : \E u \in Utilisateurs : Annuler(u, r)
        PROVE  Calme
    BY <1>4, <2>3 DEF ListerReservations, ExpirerReservations, Annuler
  <2> QED
    BY <1>6, <2>1, <2>2, <2>3 DEF ReservationNext
<1>7. CASE EmpruntNext
  <2>1. ASSUME NEW w \in Workers, NEW u \in Utilisateurs, NEW l \in Livres,
               NEW rendu \in BOOLEAN, PretDebut(w, u, l, rendu)
        PROVE  Calme
    <3>1. /\ \A v \in Workers \ {w} : req'[v] = req[v]
          /\ req'[w].etape = "pret_reservation"
      BY <1>0, <2>1 DEF PretDebut, Entre, TypeOK
    <3>2. emprunts' \subseteq emprunts
      BY <2>1 DEF PretDebut
    <3> QED
      BY <1>3, <3>1, <3>2 DEF ApresLimite, EtapesEdit
  <2>2. ASSUME NEW w \in Workers, NEW e \in emprunts, NEW u \in Utilisateurs,
               NEW l \in Livres, NEW rendu \in BOOLEAN, EditDebut(w, e, u, l, rendu)
        PROVE  Calme
    <3> DEFINE q == [etape |-> "edit_livre", avant |-> e, u |-> u, l |-> l,
                     rendu |-> rendu, pointeur |-> NULL]
    <3>1. req' = [req EXCEPT ![w] = q]
      BY <2>2, Zenon DEF EditDebut, Entre
    <3>2. q.etape = "edit_livre" /\ q.avant = e /\ q.u = u /\ q.l = l /\ q.rendu = rendu
      OBVIOUS
    <3> HIDE DEF q
    <3>3. req'[w] = q /\ \A v \in Workers \ {w} : req'[v] = req[v]
      BY <1>0, <3>1 DEF TypeOK
    <3>4. u = e.utilisateur /\ l = e.livre /\ (e.rendu => rendu)
      BY <2>2, Zenon DEF EditDebut, EditionPossible
    <3>5. EditionSage(q)
      BY <3>2, <3>4, Zenon DEF EditionSage
    <3>6. q.etape \notin ApresLimite
      BY <3>2 DEF ApresLimite
    <3>7. Sage(w)
      BY <3>3, <3>5, <3>6, Zenon
    <3>8. \A v \in Workers : Sage(v)
      BY <3>3, <3>7, Zenon
    <3>9. emprunts' \subseteq emprunts
      BY <2>2 DEF EditDebut
    <3> QED
      BY <1>2, <3>8, <3>9, Zenon DEF Calme
  <2>3. ASSUME NEW w \in Workers, PretReservation(w)
        PROVE  Calme
    <3>1. req[w] \in RequetePret
      BY <1>0, <2>3, FormeRequete DEF PretReservation, EtapesPret
    <3>2. \A v \in Workers \ {w} : req'[v] = req[v]
      BY <1>0, <2>3 DEF PretReservation, Fin, Passe, TypeOK
    <3>3. req'[w].etape \in {"repos", "pret_limite"}
      BY <1>0, <2>3, <3>1 DEF PretReservation, Fin, Passe, Repos, TypeOK, RequetePret
    <3>4. emprunts' \subseteq emprunts
      BY <2>3 DEF PretReservation
    <3> QED
      BY <1>3, <3>2, <3>3, <3>4 DEF ApresLimite, EtapesEdit
  <2>4. ASSUME NEW w \in Workers, EditLivre(w)
        PROVE  Calme
    <3>1. emprunts' \subseteq emprunts /\ \A v \in Workers \ {w} : req'[v] = req[v]
      BY <1>0, <2>4 DEF EditLivre, Fin, TypeOK
    <3>2. CASE Fin(w)
      <4>1. req'[w].etape \notin ApresLimite \cup EtapesEdit
        BY <1>0, <3>2 DEF Fin, Repos, ApresLimite, EtapesEdit, TypeOK
      <4> QED
        BY <1>3, <3>1, <4>1
    <3>3. CASE req' = [req EXCEPT ![w].etape = "edit_flush",
                                  ![w].pointeur = livreEmprunt[req[w].l]]
      <4>1. req[w] \in RequeteEdit /\ req[w].etape \in EtapesEdit
        BY <1>0, <2>4, FormeRequete DEF EditLivre, EtapesEdit
      <4>2. /\ req'[w].etape = "edit_flush" /\ req'[w].avant = req[w].avant
            /\ req'[w].u = req[w].u /\ req'[w].l = req[w].l
            /\ req'[w].rendu = req[w].rendu
        BY <1>0, <3>3, <4>1 DEF TypeOK, RequeteEdit
      <4>3. EditionSage(req[w])
        BY <4>1 DEF InvPret
      <4>4. EditionSage(req'[w])
        BY <4>2, <4>3, Zenon DEF EditionSage
      <4>5. req'[w].etape \notin ApresLimite
        BY <4>2 DEF ApresLimite
      <4>6. \A v \in Workers : Sage(v)
        BY <3>1, <4>4, <4>5, Zenon
      <4> QED
        BY <1>2, <3>1, <4>6, Zenon DEF Calme
    <3> QED
      BY <2>4, <3>2, <3>3 DEF EditLivre
  <2>5. ASSUME NEW w \in Workers, EditFlush(w)
        PROVE  Calme
    <3>1. \A v \in Workers \ {w} : req'[v] = req[v]
      BY <1>0, <2>5 DEF EditFlush, Fin, TypeOK
    <3>2. req'[w].etape \notin ApresLimite \cup EtapesEdit
      BY <1>0, <2>5 DEF EditFlush, Fin, Repos, ApresLimite, EtapesEdit, TypeOK
    <3>3. \A v \in Workers : Sage(v)
      BY <3>1, <3>2
    <3> QED
      BY <2>5, <3>3, EditFlushCalme DEF Calme
  <2>6. ASSUME NEW e, SupprPret(e)
        PROVE  Calme
    BY <1>4, <2>6 DEF SupprPret
  <2>7. ASSUME NEW w \in Workers, PretEtape(w)
        PROVE  InvPret'
    BY <1>0, <1>1, <2>3, <2>4, <2>5, <2>7, PretLimiteTient, PretEnCoursTient,
       PretInsereTient DEF PretEtape
  <2> QED
    BY <1>1, <1>7, <2>1, <2>2, <2>6, <2>7 DEF EmpruntNext
<1>8. ASSUME AdminNext
      PROVE  Calme
  <2>1. ASSUME NEW w \in Workers, NEW u \in Utilisateurs, SupprUtilisateurDebut(w, u)
        PROVE  Calme
    <3>1. /\ \A v \in Workers \ {w} : req'[v] = req[v]
          /\ req'[w].etape = "suppr_flush"
      BY <1>0, <2>1 DEF SupprUtilisateurDebut, Entre, TypeOK
    <3>2. emprunts' \subseteq emprunts
      BY <2>1 DEF SupprUtilisateurDebut
    <3> QED
      BY <1>3, <3>1, <3>2 DEF ApresLimite, EtapesEdit
  <2>2. ASSUME NEW w \in Workers, SupprUtilisateurFlush(w)
        PROVE  Calme
    <3>1. \A v \in Workers \ {w} : req'[v] = req[v]
      BY <1>0, <2>2 DEF SupprUtilisateurFlush, Fin, TypeOK
    <3>2. req'[w].etape \notin ApresLimite \cup EtapesEdit
      BY <1>0, <2>2 DEF SupprUtilisateurFlush, Fin, Repos, ApresLimite, EtapesEdit, TypeOK
    <3>3. emprunts' \subseteq emprunts
      BY <2>2 DEF SupprUtilisateurFlush
    <3> QED
      BY <1>3, <3>1, <3>2, <3>3
  <2>3. ASSUME NEW l \in Livres, SupprLivre(l)
        PROVE  Calme
    BY <1>4, <2>3 DEF SupprLivre
  <2>4. ASSUME NEW r, AdminSupprimeResa(r)
        PROVE  Calme
    BY <1>4, <2>4 DEF AdminSupprimeResa
  <2>5. ASSUME NEW r, NEW date, AdminEditeResa(r, date)
        PROVE  Calme
    BY <1>4, <2>5 DEF AdminEditeResa
  <2> QED
    BY <1>8, <2>1, <2>2, <2>3, <2>4, <2>5 DEF AdminNext
<1> QED
  BY <1>1, <1>5, <1>6, <1>7, <1>8 DEF Next

\* The inductive invariant holds of every state.
LEMMA InvPretTient ==
    ASSUME Editions = {}
    PROVE  Spec => []InvPret
<1>1. Init => InvPret
  <2> SUFFICES ASSUME Init
               PROVE  InvPret
    OBVIOUS
  <2> USE ConstantesAssumption
  <2>1. TypeOK
    BY DEF Init, TypeOK, NULL, Requete
  <2>2. emprunts = {} /\ \A w \in Workers : req[w].etape = "repos"
    BY DEF Init, Repos
  <2>3. Actifs = {}
    BY <2>2 DEF Actifs
  <2>4. /\ \A u : ActifsDe(u) = {} /\ LimiteVue(u) = {}
        /\ \A l : ActifsDeLivre(l) = {} /\ EnCoursVu(l) = {}
    BY <2>2, <2>3 DEF ActifsDe, LimiteVue, ActifsDeLivre, EnCoursVu
  <2>5. IsFiniteSet(Actifs) /\ Cardinality({}) = 0 /\ Cardinality(Workers) \in Nat
    BY <2>3, FS_EmptySet, FS_CardinalityType
  <2>6. LimiteEmpruntsParWorker /\ EmpruntsParLivre
    <3>1. 0 + 0 <= LimiteEmprunts - 1 + Cardinality(Workers) /\ 0 + 0 <= Cardinality(Workers)
      BY <2>5
    <3> QED
      BY <2>4, <2>5, <3>1, Zenon DEF LimiteEmpruntsParWorker, EmpruntsParLivre
  <2>7. \A w \in Workers : req[w].etape \notin EtapesEdit
    BY <2>2 DEF EtapesEdit
  <2> QED
    BY <2>1, <2>5, <2>6, <2>7 DEF InvPret
<1>2. InvPret /\ [Next]_vars => InvPret'
  BY PretNext
<1> QED
  BY <1>1, <1>2, PTL DEF Spec

\* For any number of workers: persistEntity never lets a member have more
\* running loans than the limit plus one per further worker, nor a book more
\* running loans than there are workers, as long as edits only return loans.
THEOREM EmpruntsBornes ==
    ASSUME Editions = {}
    PROVE  Spec => [](LimiteEmpruntsParWorker /\ EmpruntsParLivre)
<1>1. InvPret => LimiteEmpruntsParWorker /\ EmpruntsParLivre
  BY DEF InvPret
<1> QED
  BY <1>1, InvPretTient, PTL

\* With a single worker the messages of persistEntity are true: no member has
\* more running loans than the limit, no book more than one.
THEOREM UnWorkerRespectePrets ==
    ASSUME Editions = {}, Cardinality(Workers) = 1
    PROVE  Spec => [](LimiteEmpruntsRespectee /\ LivrePreteUneFois)
<1>1. InvPret => LimiteEmpruntsRespectee /\ LivrePreteUneFois
  <2> SUFFICES ASSUME InvPret
               PROVE  LimiteEmpruntsRespectee /\ LivrePreteUneFois
    OBVIOUS
  <2>1. \A u \in Utilisateurs : Cardinality(ActifsDe(u)) <= LimiteEmprunts
    <3> SUFFICES ASSUME NEW u \in Utilisateurs
                 PROVE  Cardinality(ActifsDe(u)) <= LimiteEmprunts
      OBVIOUS
    <3>1. Cardinality(ActifsDe(u)) + Cardinality(LimiteVue(u)) <= LimiteEmprunts - 1 + 1
      BY DEF InvPret, LimiteEmpruntsParWorker
    <3> QED
      BY <3>1, PretFini, ConstantesAssumption DEF InvPret
  <2>2. \A l \in Livres : Cardinality(ActifsDeLivre(l)) <= 1
    <3> SUFFICES ASSUME NEW l \in Livres
                 PROVE  Cardinality(ActifsDeLivre(l)) <= 1
      OBVIOUS
    <3>1. Cardinality(ActifsDeLivre(l)) + Cardinality(EnCoursVu(l)) <= 1
      BY DEF InvPret, EmpruntsParLivre
    <3> QED
      BY <3>1, PretFini DEF InvPret
  <2> QED
    BY <2>1, <2>2 DEF LimiteEmpruntsRespectee, LivrePreteUneFois
<1> QED
  BY <1>1, InvPretTient, PTL
=============================================================================
