-------------------------- MODULE SequentielProofs --------------------------
(***************************************************************************)
(* One worker: what members are shown of a book is exact, a book on loan   *)
(* carries no reservation, and the tables implement StatutLivres, as long  *)
(* as edits neither reopen nor move a loan.  The steps are those of        *)
(* DisponibiliteProofs, the counts those of BornesProofs.                  *)
(***************************************************************************)
EXTENDS DisponibiliteProofs, BornesProofs

\* With one worker a book has at most one reservation.
LEMMA UneReservation ==
    ASSUME InvResa, NEW w, Workers = {w}, NEW l \in Livres,
           NEW r \in ResasDeLivre(l), NEW s \in ResasDeLivre(l)
    PROVE  r = s
<1> USE ConstantesAssumption
<1>1. Cardinality(Workers) = 1
  BY FS_Singleton
<1>2. /\ IsFiniteSet(ResasDeLivre(l)) /\ Cardinality(ResasDeLivre(l)) \in Nat
      /\ Cardinality(ConflitFait(l)) \in Nat
  BY ResaFini DEF InvResa
<1>3. Cardinality(ResasDeLivre(l)) <= 1
  BY <1>1, <1>2 DEF InvResa, ReservationsParLivre
<1>4. Cardinality(ResasDeLivre(l)) # 0
  BY <1>2, FS_EmptySet
<1>5. Cardinality(ResasDeLivre(l)) = 1
  BY <1>2, <1>3, <1>4
<1>6. \E x : ResasDeLivre(l) = {x}
  BY <1>2, <1>5, FS_Singleton
<1> QED
  BY <1>6

\* A book is reserved once as long as there is one worker.
LEMMA UneResaTient ==
    ASSUME InvResa, NEW w, Workers = {w}
    PROVE  UneResa
<1> SUFFICES ASSUME NEW r \in reservations, NEW s \in reservations, r.livre = s.livre
             PROVE  r = s
  BY DEF UneResa
<1>1. r.livre \in Livres /\ r \in ResasDeLivre(r.livre) /\ s \in ResasDeLivre(r.livre)
  BY DEF InvResa, TypeOK, Reservation, ResasDeLivre
<1> QED
  BY <1>1, UneReservation

\* And so in the next state.
LEMMA UneResaSuite ==
    ASSUME NEW CONSTANT w, Workers = {w}
    PROVE  InvResa' => UneResa'
<1>1. InvResa => UneResa
  BY UneResaTient
<1> QED
  BY <1>1, PTL

\* Every step keeps both invariants.
LEMMA InvSeqNext ==
    ASSUME DatesEditables = {}, Editions \subseteq {"reattribuer"},
           NEW CONSTANT w, Workers = {w}
    PROVE  InvResa /\ InvSeq /\ [Next]_vars => InvResa' /\ InvSeq'
<1> SUFFICES ASSUME InvResa, InvSeq, [Next]_vars
             PROVE  InvResa' /\ InvSeq'
  OBVIOUS
<1>1. InvResa'
  BY ResaNext
<1>2. UneResa'
  BY <1>1, UneResaSuite
<1> QED
  BY <1>1, <1>2, SeqNext

\* With a single worker, dates of reservations not edited by hand and edits
\* that at most return a loan or correct its borrower: the availability members
\* are shown is exact, and no book is reserved while it is on loan.
THEOREM SequentielExact ==
    ASSUME DatesEditables = {}, Editions \subseteq {"reattribuer"},
           NEW CONSTANT w, Workers = {w}
    PROVE  Spec => [](DisponibiliteExacte /\ PasReserveEtPrete)
<1>1. Init => InvResa /\ InvSeq
  BY InvResaInit, SeqInit
<1>2. InvResa /\ InvSeq /\ [Next]_vars => InvResa' /\ InvSeq'
  BY InvSeqNext
<1>3. InvSeq => DisponibiliteExacte /\ PasReserveEtPrete
  BY DEF InvSeq
<1> QED
  BY <1>1, <1>2, <1>3, PTL DEF Spec

-----------------------------------------------------------------------------
(***************************************************************************)
(* The tables implement StatutLivres.                                      *)
(***************************************************************************)

\* A request that has passed the limit of loans still would: only the clock
\* and the purge run beside it.
InvLimite ==
    /\ IsFiniteSet(Actifs)
    /\ \A w \in Workers : req[w].etape \in EtapesLimite =>
          Cardinality(ActifsDe(req[w].u)) < LimiteEmprunts

\* The inductive invariant of the refinement.  InvResa gives the limit of
\* reservations, InvIds whose reservation a loan deletes.
InvPromesse == InvResa /\ InvSeq /\ InvIds /\ InvLimite

\* No step makes the running loans infinite.
LEMMA ActifsFinis ==
    ASSUME NEW w, PasStatut(w), IsFiniteSet(Actifs)
    PROVE  IsFiniteSet(Actifs')
<1>1. CASE Actifs' \in SUBSET Actifs
  BY <1>1, FS_Subset
<1>2. ASSUME NEW n, Actifs' = Actifs \cup {n}
      PROVE  IsFiniteSet(Actifs')
  BY <1>2, FS_AddElement
<1>3. ASSUME NEW e, NEW f, Actifs' = (Actifs \ {e}) \cup {f}
      PROVE  IsFiniteSet(Actifs')
  <2>1. IsFiniteSet(Actifs \ {e})
    BY FS_RemoveElement
  <2> QED
    BY <1>3, <2>1, FS_AddElement
<1> QED
  BY <1>1, <1>2, <1>3
     DEF PasStatut, PasLibere, PasReserve, PasPrete, PasReattribue, PasRetire

\* Every step keeps the invariant of the refinement.
LEMMA PromesseNext ==
    ASSUME DatesEditables = {}, Editions \subseteq {"reattribuer"},
           NEW CONSTANT w, Workers = {w}, InvPromesse, [Next]_vars
    PROVE  InvPromesse'
<1>1. InvResa' /\ InvSeq' /\ InvIds'
  BY InvSeqNext, IdsNext DEF InvPromesse
<1>2. PasStatut(w) /\ ResteSousLimite(w)
  BY PasNext DEF InvPromesse
<1>3. IsFiniteSet(Actifs)'
  BY <1>2, ActifsFinis DEF InvPromesse, InvLimite
<1>4. ASSUME req'[w].etape \in EtapesLimite
      PROVE  Cardinality(ActifsDe(req[w].u))' < LimiteEmprunts
  <2> DEFINE c == Cardinality(ActifsDe(req[w].u))
  <2>1. Actifs' = Actifs /\ req'[w].u = req[w].u
        /\ (req[w].etape \in EtapesLimite \/ ~(c >= LimiteEmprunts))
    BY <1>2, <1>4 DEF ResteSousLimite
  <2>2. ActifsDe(req[w].u)' = ActifsDe(req[w].u)
    BY <2>1 DEF ActifsDe
  <2>3. ActifsDe(req[w].u) \in SUBSET Actifs
    BY DEF ActifsDe
  <2>4. c \in Nat
    BY <2>3, FS_Subset, FS_CardinalityType DEF InvPromesse, InvLimite
  <2>5. CASE req[w].etape \in EtapesLimite
    BY <2>2, <2>5 DEF InvPromesse, InvLimite
  <2>6. CASE ~(c >= LimiteEmprunts)
    <3> HIDE DEF c
    <3>1. LimiteEmprunts \in Nat
      BY ConstantesAssumption
    <3>2. c < LimiteEmprunts
      BY <2>4, <2>6, <3>1
    <3> QED
      BY <2>2, <3>2 DEF c
  <2> QED
    BY <2>1, <2>5, <2>6
<1> QED
  BY <1>1, <1>3, <1>4 DEF InvPromesse, InvLimite

-----------------------------------------------------------------------------
\* Books that each have a row of their own in T are no more than T.
LEMMA LivresComptes ==
    ASSUME NEW B, NEW T, IsFiniteSet(T), \A k \in B : \E t \in T : t.livre = k
    PROVE  Cardinality(B) \in Nat /\ Cardinality(T) \in Nat
           /\ Cardinality(B) <= Cardinality(T)
<1> DEFINE R == {t.livre : t \in T}
           f == [t \in T |-> t.livre]
<1>1. f \in Surjection(T, R)
  BY DEF Surjection
<1> HIDE DEF f
<1>2. IsFiniteSet(R) /\ Cardinality(R) <= Cardinality(T)
  BY <1>1, FS_Surjection
<1>3. B \in SUBSET R
  OBVIOUS
<1> HIDE DEF R
<1>4. IsFiniteSet(B) /\ Cardinality(B) <= Cardinality(R)
  BY <1>2, <1>3, FS_Subset
<1>5. Cardinality(B) \in Nat /\ Cardinality(R) \in Nat /\ Cardinality(T) \in Nat
  BY <1>2, <1>4, FS_CardinalityType
<1> QED
  BY <1>2, <1>4, <1>5

\* StatutLivres counts as the tables do.
LEMMA MemeCardinal == \A S : Promesse!Cardinality(S) = Cardinality(S)
BY Zenon DEF Promesse!Cardinality, Cardinality

\* A reservation: the book is free, and the member below the limit.
LEMMA ReserveTient ==
    ASSUME InvPromesse, InvPromesse', NEW w, Workers = {w}, PasReserve(w)
    PROVE  Promesse!Next
<1> USE ConstantesAssumption
<1>0. StatutJuste /\ StatutJuste' /\ TypeOK /\ Dispo /\ Acquis(req[w]) /\ InvResa
  BY StatutExact, StatutExactSuite, Formes DEF InvPromesse, InvSeq
<1>1. /\ livres' = livres /\ Actifs' = Actifs
      /\ req[w].etape = "creer_insere" /\ req[w].l \in livres
  BY DEF PasReserve
<1>2. PICK n : /\ reservations' = reservations \cup {n}
               /\ n.livre = req[w].l /\ n.utilisateur = req[w].u
  BY DEF PasReserve
<1>3. PICK l \in Livres, u \in Utilisateurs : l = req[w].l /\ u = req[w].u
  <2>1. req[w] \in RequeteCreer
    BY <1>0, <1>1, FormeRequete DEF EtapesCreer
  <2> QED
    BY <2>1 DEF RequeteCreer
<1>4. \A e \in Actifs : e.livre # l
  BY <1>0, <1>1, <1>3, LibreSansPret DEF Acquis
<1>5. Cardinality(Workers) = 1 /\ ConflitFait(l) = {w} /\ CompteFait(u) = {w}
  BY <1>1, <1>3, FS_Singleton DEF ConflitFait, CompteFait
<1>6. /\ Cardinality(ConflitFait(l)) = 1 /\ Cardinality(CompteFait(u)) = 1
      /\ IsFiniteSet(ResasDeLivre(l)) /\ Cardinality(ResasDeLivre(l)) \in Nat
      /\ IsFiniteSet(ResasDe(u)) /\ Cardinality(ResasDe(u)) \in Nat
  BY <1>0, <1>5, ResaFini, FS_Singleton DEF InvResa
<1>7. Cardinality(ResasDeLivre(l)) + 1 <= 1 /\ Cardinality(ResasDe(u)) + 1 <= LimiteResa - 1 + 1
  BY <1>0, <1>3, <1>5, <1>6 DEF InvResa, ReservationsParLivre, LimiteResaParWorker
<1>8. Cardinality(ResasDeLivre(l)) = 0 /\ Cardinality(ResasDe(u)) < LimiteResa
  <2>1. Cardinality(ResasDeLivre(l)) = 0
    BY <1>6, <1>7
  <2>2. Cardinality(ResasDe(u)) < LimiteResa
    BY <1>6, <1>7
  <2> QED
    BY <2>1, <2>2
<1>9. \A r \in reservations : r.livre # l
  BY <1>6, <1>8, FS_EmptySet DEF ResasDeLivre
<1>10. StatutDe(l) = Promesse!Libre
  BY <1>0, <1>1, <1>3, <1>4, <1>9 DEF StatutJuste
<1>11. StatutDe(l)' = Promesse!Reserve(u)
  BY <1>0, <1>1, <1>2, <1>3, <1>4 DEF StatutJuste
<1>12. \A k \in Livres \ {l} : StatutDe(k)' = StatutDe(k)
  BY <1>0, <1>1, <1>2, <1>3, StatutInchange
<1>13. [k \in Livres |-> StatutDe(k)]'
         = [[k \in Livres |-> StatutDe(k)] EXCEPT ![l] = Promesse!Reserve(u)]
  BY <1>3, <1>11, <1>12, UnStatutChange
<1> DEFINE B == {k \in Livres : StatutDe(k) = Promesse!Reserve(u)}
<1>14. Cardinality(B) < LimiteResa
  <2>1. \A k \in B : \E r \in ResasDe(u) : r.livre = k
    BY <1>0, StatutsComptes
  <2> HIDE DEF B
  <2>2. /\ Cardinality(B) \in Nat /\ Cardinality(ResasDe(u)) \in Nat
        /\ Cardinality(B) <= Cardinality(ResasDe(u))
    BY <1>6, <2>1, LivresComptes
  <2> QED
    BY <1>8, <2>2
<1>15. Promesse!Reserver(l, u)
  <2>1. [k \in Livres |-> StatutDe(k)][l] = Promesse!Libre
    BY <1>3, <1>10
  <2>2. {k \in Livres : [j \in Livres |-> StatutDe(j)][k] = Promesse!Reserve(u)} = B
    OBVIOUS
  <2> HIDE DEF B
  <2> QED
    BY <1>13, <1>14, <2>1, <2>2, MemeCardinal, Zenon DEF Promesse!Reserver
<1> QED
  BY <1>3, <1>15 DEF Promesse!Next

\* A loan: the book is free or reserved by the borrower, who is below the
\* limit.
LEMMA PreteTient ==
    ASSUME InvPromesse, InvPromesse', NEW w, Workers = {w}, PasPrete(w)
    PROVE  Promesse!Next
<1>0. /\ StatutJuste /\ StatutJuste' /\ TypeOK /\ Acquis(req[w]) /\ RequeteSure(req[w])
      /\ InvLimite
  BY StatutExact, StatutExactSuite DEF InvPromesse, InvSeq, InvIds
<1>1. /\ livres' = livres /\ req[w].etape = "pret_insere" /\ req[w].l \in livres
      /\ reservations' = {r \in reservations : r.id # req[w].resa}
  BY DEF PasPrete
<1>2. PICK n : /\ Actifs' = Actifs \cup {n}
               /\ n.livre = req[w].l /\ n.utilisateur = req[w].u
  BY DEF PasPrete
<1>3. PICK l \in Livres, u \in Utilisateurs : l = req[w].l /\ u = req[w].u
  <2>1. req[w] \in RequetePret
    BY <1>0, <1>1, FormeRequete DEF EtapesPret
  <2> QED
    BY <2>1 DEF RequetePret
<1>4. \A e \in Actifs : e.livre # l
  BY <1>0, <1>1, <1>3 DEF Acquis, ActifsDeLivre
<1>5. \A r \in reservations : r.livre = l => r.utilisateur = u
  BY <1>0, <1>1, <1>3 DEF Acquis, RequeteSure, ResasDeLivre, EtapesPret
<1>6. StatutDe(l) \in {Promesse!Libre, Promesse!Reserve(u)}
  BY <1>0, <1>1, <1>3, <1>4, <1>5 DEF StatutJuste
<1>7. StatutDe(l)' = Promesse!Prete(u)
  BY <1>0, <1>1, <1>2, <1>3 DEF StatutJuste
<1>8. \A k \in Livres \ {l} : StatutDe(k)' = StatutDe(k)
  <2>1. \A r : r.livre # l => (r \in reservations' <=> r \in reservations)
    BY <1>0, <1>1, <1>3 DEF RequeteSure, EtapesPret
  <2>2. \A e : e.livre # l => (e \in Actifs' <=> e \in Actifs)
    BY <1>2, <1>3
  <2> QED
    BY <1>0, <1>1, <2>1, <2>2, StatutInchange
<1>9. [k \in Livres |-> StatutDe(k)]'
        = [[k \in Livres |-> StatutDe(k)] EXCEPT ![l] = Promesse!Prete(u)]
  BY <1>3, <1>7, <1>8, UnStatutChange
<1> DEFINE B == {k \in Livres : StatutDe(k) = Promesse!Prete(u)}
<1>10. Cardinality(B) < LimiteEmprunts
  <2>1. \A k \in B : \E e \in ActifsDe(u) : e.livre = k
    BY <1>0, StatutsComptes
  <2>2. ActifsDe(u) \in SUBSET Actifs
    BY DEF ActifsDe
  <2>3. IsFiniteSet(ActifsDe(u))
    BY <1>0, <2>2, FS_Subset DEF InvLimite
  <2>4. Cardinality(ActifsDe(u)) < LimiteEmprunts
    BY <1>0, <1>1, <1>3 DEF InvLimite, EtapesLimite
  <2> HIDE DEF B
  <2>5. /\ Cardinality(B) \in Nat /\ Cardinality(ActifsDe(u)) \in Nat
        /\ Cardinality(B) <= Cardinality(ActifsDe(u))
    BY <2>1, <2>3, LivresComptes
  <2> QED
    BY <2>4, <2>5, ConstantesAssumption
<1>11. Promesse!Preter(l, u)
  <2>1. [k \in Livres |-> StatutDe(k)][l] \in {Promesse!Libre, Promesse!Reserve(u)}
    BY <1>3, <1>6
  <2>2. {k \in Livres : [j \in Livres |-> StatutDe(j)][k] = Promesse!Prete(u)} = B
    OBVIOUS
  <2> HIDE DEF B
  <2> QED
    BY <1>9, <1>10, <2>1, <2>2, MemeCardinal, Zenon DEF Promesse!Preter
<1> QED
  BY <1>3, <1>11 DEF Promesse!Next

\* An installed library satisfies the invariant, and all its books are free.
LEMMA PromesseDepart ==
    ASSUME NEW CONSTANT w, Workers = {w}
    PROVE  Init => InvPromesse /\ Promesse!Init
<1> SUFFICES ASSUME Init
             PROVE  InvPromesse /\ Promesse!Init
  OBVIOUS
<1>1. InvResa /\ InvSeq
  BY InvResaInit, SeqInit
<1>2. emprunts = {} /\ reservations = {} /\ livres = Livres /\ req[w].etape = "repos"
  BY DEF Init, Repos
<1>3. TypeOK /\ Actifs = {}
  BY <1>1, <1>2 DEF InvSeq, Actifs
<1>4. InvIds
  BY <1>2, <1>3 DEF InvIds, RequeteSure, EtapesPret, EtapesSuppr
<1>5. InvLimite
  BY <1>2, <1>3, FS_EmptySet DEF InvLimite, EtapesLimite
<1>6. InvPromesse
  BY <1>1, <1>3, <1>4, <1>5 DEF InvPromesse
<1>7. \A l \in Livres : StatutDe(l) = Promesse!Libre
  BY <1>1, <1>2, <1>3, StatutExact DEF StatutJuste
<1>8. Promesse!Init
  BY <1>7 DEF Promesse!Init
<1> QED
  BY <1>6, <1>8

\* With a single worker, dates of reservations not edited by hand and edits
\* that at most return a loan or correct its borrower, the tables implement
\* StatutLivres, whatever requests are started, refused or interrupted by the
\* clock and the purge: a reserved book is lent to nobody but the member who
\* reserved it, a book on loan is not reserved, a book is withdrawn only when
\* free, and a reservation or a loan starts only below the member's limit.
THEOREM PromesseTenue ==
    ASSUME DatesEditables = {}, Editions \subseteq {"reattribuer"},
           NEW CONSTANT w, Workers = {w}
    PROVE  Spec => TientPromesse
<1>1. Init => InvPromesse /\ Promesse!Init
  BY PromesseDepart
<1>2. InvPromesse /\ [Next]_vars => InvPromesse'
  BY PromesseNext
<1>3. InvPromesse /\ InvPromesse' /\ [Next]_vars => Promesse!Next
  <2> SUFFICES ASSUME InvPromesse, InvPromesse', [Next]_vars
               PROVE  Promesse!Next
    OBVIOUS
  <2>1. PasStatut(w)
    BY PasNext DEF InvPromesse
  <2> QED
    BY <2>1, LibereTient, ReserveTient, PreteTient, ReattribueTient, RetireTient
       DEF PasStatut, InvPromesse
<1> QED
  BY <1>1, <1>2, <1>3, PTL DEF Spec, TientPromesse, Promesse!Spec
=============================================================================
