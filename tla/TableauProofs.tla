--------------------------- MODULE TableauProofs ---------------------------
(***************************************************************************)
(* Late loans on the dashboard and in the API, on top of the tables, for   *)
(* any members, books, workers and number of loans.                        *)
(***************************************************************************)
EXTENDS TableauDeBord, TablesProofs, FiniteSetTheorems

\* Ids that are left for the loans under way.
BornePrets == seqEmprunt + Cardinality(EnPret) <= MaxEmprunts

\* The date in a form lies at most a day before it was submitted, and is filled
\* in before the loan is inserted.
SaisieJuste(w) ==
    /\ saisie[w].debut <= maintenant
    /\ saisie[w].date # SansDate =>
          saisie[w].debut - Jour < saisie[w].date /\ saisie[w].date <= maintenant
    /\ req[w].etape = "pret_insere" => saisie[w].date # SansDate

\* So does the date of a loan, and it is not after its insertion.
DateJuste(i) ==
    /\ heurePret[i].debut - Jour < dateEmprunt[i]
    /\ dateEmprunt[i] <= heurePret[i].fin

\* The inductive invariant.
InvTableau ==
    /\ TypeOK /\ TableauTypeOK
    /\ IsFiniteSet(emprunts)
    /\ InvEmprunts
    /\ BornePrets
    /\ \A w \in Workers : SaisieJuste(w)
    /\ \A i \in 1 .. seqEmprunt : DateJuste(i)

\* The day of an instant starts less than a day before it.
LEMMA MinuitOK ==
    ASSUME NEW t \in Nat
    PROVE  Minuit(t) \in Nat /\ t - Jour < Minuit(t) /\ Minuit(t) <= t
<1>1. Jour \in Nat /\ Jour > 0
  BY TableauAssumption
<1>2. t % Jour \in 0 .. Jour - 1
  BY <1>1
<1>3. t % Jour <= t
  BY <1>1
<1> QED
  BY <1>1, <1>2, <1>3 DEF Minuit

\* The table of loans stays finite.
LEMMA PretsFinis ==
    ASSUME IsFiniteSet(emprunts), [Next]_vars
    PROVE  IsFiniteSet(emprunts')
<1>1. CASE emprunts' \subseteq emprunts
  BY <1>1, FS_Subset
<1>2. ASSUME NEW w, PretInsere(w)
      PROVE  IsFiniteSet(emprunts')
  <2> DEFINE x == [id |-> seqEmprunt + 1, utilisateur |-> req[w].u,
                   livre |-> req[w].l, rendu |-> req[w].rendu]
  <2>1. emprunts' = emprunts \cup {x} \/ emprunts' = emprunts
    BY <1>2 DEF PretInsere
  <2> HIDE DEF x
  <2> QED
    BY <2>1, FS_AddElement
<1>3. ASSUME NEW w, EditFlush(w)
      PROVE  IsFiniteSet(emprunts')
  <2> DEFINE F(e) == IF e.id = req[w].avant.id THEN Modifie(e, req[w]) ELSE e
  <2>1. emprunts' = {F(e) : e \in emprunts} \/ emprunts' = emprunts
    BY <1>3 DEF EditFlush
  <2> HIDE DEF F
  <2> DEFINE f == [e \in emprunts |-> F(e)]
  <2>3. f \in Surjection(emprunts, {F(e) : e \in emprunts})
    BY DEF Surjection
  <2>4. IsFiniteSet({F(e) : e \in emprunts})
    BY <2>3, FS_Surjection
  <2> QED
    BY <2>1, <2>4
<1>4. ASSUME NEW w, SupprUtilisateurFlush(w)
      PROVE  emprunts' \subseteq emprunts
  BY <1>4 DEF SupprUtilisateurFlush
<1>5. CASE Tick \/ ReservationNext \/ UNCHANGED vars
  BY <1>1, <1>5 DEF Tick, vars, base, ReservationNext, CreerDebut, CreerEtape, CreerPurge,
                    CreerCompte, CreerConflit, CreerInsere, ListerReservations,
                    ExpirerReservations, Annuler
<1>6. CASE EmpruntNext
  BY <1>1, <1>2, <1>3, <1>6 DEF EmpruntNext, PretEtape, PretDebut, PretReservation,
     PretLimite, PretEnCours, EditDebut, EditLivre, SupprPret, base
<1>7. CASE AdminNext
  BY <1>1, <1>4, <1>7 DEF AdminNext, SupprUtilisateurDebut, SupprLivre,
     AdminSupprimeResa, AdminEditeResa, base
<1> QED
  BY <1>5, <1>6, <1>7 DEF Next

\* The screens change the library only as the clock and the loan screens do.
LEMMA TableauSurPrets ==
    ASSUME [TableauNext]_tableauVars
    PROVE  Tick \/ EmpruntNext \/ UNCHANGED vars
<1>1. CASE SansEffetSurDates
  BY <1>1 DEF SansEffetSurDates, EmpruntNext, PretEtape
<1>2. ASSUME NEW w \in Workers, PretSaisi(w) PROVE EmpruntNext
  BY <1>2 DEF PretSaisi, EmpruntNext
<1>3. ASSUME NEW w \in Workers, PretDate(w) \/ PretEnregistre(w) PROVE EmpruntNext
  BY <1>3 DEF PretDate, PretEnregistre, EmpruntNext, PretEtape
<1>4. CASE TableauSelect \/ TableauBoucle \/ TableauCompte \/ MesEmprunts
  BY <1>4 DEF TableauSelect, TableauBoucle, TableauCompte, MesEmprunts
<1>5. CASE UNCHANGED tableauVars
  BY <1>5 DEF tableauVars
<1> QED
  BY <1>1, <1>2, <1>3, <1>4, <1>5 DEF TableauNext

\* In particular they are steps of the library.
LEMMA TableauSurTables ==
    ASSUME [TableauNext]_tableauVars
    PROVE  [Next]_vars
BY TableauSurPrets DEF Next

\* Workers are finitely many, so what they are doing can be counted.
LEMMA PretsComptes ==
    /\ IsFiniteSet(EnPret) /\ Cardinality(EnPret) \in Nat
    /\ \A S \in SUBSET EnPret : Cardinality(S) <= Cardinality(EnPret)
<1>1. IsFiniteSet(EnPret)
  BY ConstantesAssumption, FS_Subset DEF EnPret
<1> QED
  BY <1>1, FS_Subset, FS_CardinalityType

\* A step that starts no loan keeps the bound.
LEMMA BorneCalme ==
    ASSUME TypeOK, BornePrets, EnPret' \subseteq EnPret, seqEmprunt' = seqEmprunt
    PROVE  BornePrets'
<1>1. Cardinality(EnPret') <= Cardinality(EnPret) /\ Cardinality(EnPret) \in Nat
  BY PretsComptes
<1>2. Cardinality(EnPret') \in Nat
  BY PretsComptes, FS_Subset, FS_CardinalityType
<1> QED
  BY <1>1, <1>2, ConstantesAssumption DEF BornePrets, TypeOK

\* The steps that leave the dates alone start and insert no loan, and bring no
\* request to its insertion.
LEMMA SansEffetOK ==
    ASSUME TypeOK, SansEffetSurDates
    PROVE  /\ maintenant' >= maintenant /\ seqEmprunt' = seqEmprunt
           /\ UNCHANGED <<dates, ecrans>>
           /\ \A v \in Workers : /\ req'[v].etape \in EtapesPret => req[v].etape \in EtapesPret
                                 /\ req'[v].etape = "pret_insere" => req'[v] = req[v]
<1>1. UNCHANGED <<dates, ecrans>>
  BY DEF SansEffetSurDates
<1>2. CASE Tick
  BY <1>1, <1>2 DEF Tick, base, TypeOK
<1>3. ASSUME NEW e \in emprunts, SupprPret(e)
      PROVE  UNCHANGED <<maintenant, seqEmprunt, req>>
  BY <1>3 DEF SupprPret
<1>4. ASSUME NEW w \in Workers, NEW q, req' = [req EXCEPT ![w] = q],
             q.etape \in EtapesPret => req[w].etape \in EtapesPret,
             q.etape # "pret_insere"
      PROVE  \A v \in Workers : /\ req'[v].etape \in EtapesPret => req[v].etape \in EtapesPret
                                /\ req'[v].etape = "pret_insere" => req'[v] = req[v]
  <2>1. \A v \in Workers : req'[v] = IF v = w THEN q ELSE req[v]
    BY <1>4 DEF TypeOK
  <2> QED
    BY <1>4, <2>1
<1>5. ASSUME NEW w \in Workers,
             \/ PretReservation(w) \/ PretLimite(w)
             \/ \E e \in emprunts, u \in Utilisateurs, l \in Livres, rendu \in BOOLEAN :
                   EditDebut(w, e, u, l, rendu)
             \/ EditLivre(w) \/ EditFlush(w)
      PROVE  /\ UNCHANGED <<maintenant, seqEmprunt>>
             /\ \E q : /\ req' = [req EXCEPT ![w] = q] /\ q.etape # "pret_insere"
                       /\ q.etape \in EtapesPret => req[w].etape \in EtapesPret
  <2>0. Repos.etape = "repos"
    BY DEF Repos
  <2>1. CASE Fin(w)
    <3>1. UNCHANGED <<maintenant, seqEmprunt>>
      BY <1>5 DEF PretReservation, PretLimite, EditDebut, EditLivre, EditFlush, base
    <3> QED
      BY <2>0, <2>1, <3>1 DEF Fin, EtapesPret
  <2>2. CASE (PretReservation(w) \/ PretLimite(w)) /\ ~Fin(w)
    <3>1. req[w] \in RequetePret /\ req[w].etape \in EtapesPret
      BY <2>2, FormeRequete DEF PretReservation, PretLimite, EtapesPret
    <3>2. \E k : \E n : req' = [req EXCEPT ![w] = [req[w] EXCEPT !.etape = n, !.resa = k]]
                        /\ n \in {"pret_limite", "pret_encours"}
      <4>1. CASE Passe(w, "pret_limite") \/ Passe(w, "pret_encours")
        <5>1. \A n : [req[w] EXCEPT !.etape = n]
                        = [req[w] EXCEPT !.etape = n, !.resa = req[w].resa]
          BY <3>1 DEF RequetePret
        <5> QED
          BY <4>1, <5>1 DEF Passe
      <4>2. CASE \E r \in ResasDeLivre(req[w].l) :
                    req' = [req EXCEPT ![w].etape = "pret_limite", ![w].resa = r.id]
        <5>1. PICK r \in ResasDeLivre(req[w].l) :
                 req' = [req EXCEPT ![w].etape = "pret_limite", ![w].resa = r.id]
          BY <4>2
        <5>2. req' = [req EXCEPT ![w] =
                        [req[w] EXCEPT !.etape = "pret_limite", !.resa = r.id]]
          BY <5>1 DEF TypeOK
        <5> QED
          BY <5>2
      <4> QED
        BY <2>2, <4>1, <4>2 DEF PretReservation, PretLimite
    <3>3. PICK k, n : /\ req' = [req EXCEPT ![w] = [req[w] EXCEPT !.etape = n, !.resa = k]]
                      /\ n \in {"pret_limite", "pret_encours"}
      BY <3>2
    <3>4. [req[w] EXCEPT !.etape = n, !.resa = k].etape = n
      BY <3>1 DEF RequetePret
    <3>5. UNCHANGED <<maintenant, seqEmprunt>>
      BY <2>2 DEF PretReservation, PretLimite, base
    <3> QED
      BY <3>1, <3>3, <3>4, <3>5
  <2>3. ASSUME NEW e, NEW u, NEW l, NEW rendu, EditDebut(w, e, u, l, rendu)
        PROVE  /\ UNCHANGED <<maintenant, seqEmprunt>>
               /\ \E q : req' = [req EXCEPT ![w] = q] /\ q.etape = "edit_livre"
    <3> DEFINE q == [etape |-> "edit_livre", avant |-> e, u |-> u, l |-> l,
                     rendu |-> rendu, pointeur |-> NULL]
    <3>1. req' = [req EXCEPT ![w] = q] /\ UNCHANGED <<maintenant, seqEmprunt>>
      BY <2>3 DEF EditDebut, Entre, base
    <3>2. q.etape = "edit_livre"
      OBVIOUS
    <3> HIDE DEF q
    <3> QED
      BY <3>1, <3>2
  <2>4. CASE EditLivre(w) /\ ~Fin(w)
    <3>1. req[w] \in RequeteEdit
      BY <2>4, FormeRequete DEF EditLivre, EtapesEdit
    <3> DEFINE q == [req[w] EXCEPT !.etape = "edit_flush",
                                   !.pointeur = livreEmprunt[req[w].l]]
    <3>2. req' = [req EXCEPT ![w] = q] /\ UNCHANGED <<maintenant, seqEmprunt>>
      BY <2>4 DEF EditLivre, TypeOK, base
    <3>3. q.etape = "edit_flush"
      BY <3>1 DEF RequeteEdit
    <3> HIDE DEF q
    <3> QED
      BY <3>2, <3>3 DEF EtapesPret
  <2>5. CASE EditFlush(w)
    BY <2>1, <2>5 DEF EditFlush
  <2>6. "edit_livre" \notin EtapesPret
    BY DEF EtapesPret
  <2> QED
    BY <1>5, <2>1, <2>2, <2>3, <2>4, <2>5, <2>6
<1> QED
  BY <1>1, <1>2, <1>3, <1>4, <1>5 DEF SansEffetSurDates, TypeOK

\* The clock, edits, returns and deletions.
LEMMA TableauCalme ==
    ASSUME InvTableau, TypeOK', maintenant' >= maintenant, seqEmprunt' = seqEmprunt,
           UNCHANGED dates, TableauTypeOK',
           \A v \in Workers : /\ req'[v].etape \in EtapesPret => req[v].etape \in EtapesPret
                              /\ req'[v].etape = "pret_insere" => req'[v] = req[v]
    PROVE  /\ BornePrets'
           /\ \A w \in Workers : SaisieJuste(w)'
           /\ \A i \in 1 .. seqEmprunt' : DateJuste(i)'
<1>1. BornePrets'
  <2>1. EnPret' \subseteq EnPret
    BY DEF EnPret
  <2> QED
    BY <2>1, BorneCalme DEF InvTableau
<1>2. ASSUME NEW w \in Workers PROVE SaisieJuste(w)'
  <2>1. saisie'[w] = saisie[w] /\ SaisieJuste(w)
    BY DEF dates, InvTableau
  <2>2. saisie[w].date \in Nat \cup {SansDate} /\ saisie[w].debut \in Nat
    BY DEF InvTableau, TableauTypeOK
  <2>3. maintenant \in Nat /\ maintenant' \in Nat
    BY DEF InvTableau, TypeOK
  <2> QED
    BY <2>1, <2>2, <2>3, TableauAssumption DEF SaisieJuste, SansDate
<1>3. \A i \in 1 .. seqEmprunt' : DateJuste(i)'
  BY DEF InvTableau, DateJuste, dates
<1> QED
  BY <1>1, <1>2, <1>3

\* The form of a new loan is submitted.
LEMMA PretSaisiOK ==
    ASSUME InvTableau, TypeOK', NEW w \in Workers, PretSaisi(w)
    PROVE  /\ BornePrets' /\ TableauTypeOK'
           /\ \A v \in Workers : SaisieJuste(v)'
           /\ \A i \in 1 .. seqEmprunt' : DateJuste(i)'
<1>1. PICK u \in Utilisateurs, l \in Livres, rendu \in BOOLEAN : PretDebut(w, u, l, rendu)
  BY DEF PretSaisi
<1>2. PICK d \in {Minuit(maintenant), SansDate} :
         saisie' = [saisie EXCEPT ![w] = [date |-> d, debut |-> maintenant]]
  BY DEF PretSaisi
<1>3. UNCHANGED <<maintenant, seqEmprunt, dateEmprunt, heurePret, ecrans>>
  BY <1>1 DEF PretSaisi, PretDebut, base
<1>4. maintenant \in Nat /\ seqEmprunt \in Nat /\ req \in [Workers -> Requete]
  BY DEF InvTableau, TypeOK
<1> DEFINE s == [date |-> d, debut |-> maintenant]
<1>5. s.date = d /\ s.debut = maintenant
  OBVIOUS
<1>6. d = SansDate \/ (d \in Nat /\ maintenant - Jour < d /\ d <= maintenant)
  BY <1>4, MinuitOK
<1>7. s \in [date : Nat \cup {SansDate}, debut : Nat]
  BY <1>4, <1>6
<1> HIDE DEF s
<1>8. saisie' \in [Workers -> [date : Nat \cup {SansDate}, debut : Nat]]
  BY <1>2, <1>7 DEF InvTableau, TableauTypeOK, s
<1>9. TableauTypeOK'
  BY <1>3, <1>8 DEF InvTableau, TableauTypeOK, ecrans
<1>10. \A v \in Workers : saisie'[v] = IF v = w THEN s ELSE saisie[v]
  BY <1>2 DEF InvTableau, TableauTypeOK, s
<1> DEFINE q == [etape |-> "pret_reservation", u |-> u, l |-> l,
                 rendu |-> rendu, resa |-> NULL]
<1>11. q.etape = "pret_reservation"
  OBVIOUS
<1>12. req' = [req EXCEPT ![w] = q] /\ req[w].etape = "repos"
  BY <1>1 DEF PretDebut, Entre, Libre
<1> HIDE DEF q
<1>13. \A v \in Workers : req'[v] = IF v = w THEN q ELSE req[v]
  BY <1>4, <1>12
<1>14. ASSUME NEW v \in Workers PROVE SaisieJuste(v)'
  <2>1. CASE v = w
    <3>1. saisie'[v].date = d /\ saisie'[v].debut = maintenant
      BY <1>5, <1>10, <2>1
    <3>2. req'[v].etape # "pret_insere"
      BY <1>11, <1>13, <2>1
    <3> QED
      BY <1>3, <1>4, <1>6, <3>1, <3>2 DEF SaisieJuste
  <2>2. CASE v # w
    <3>1. saisie'[v] = saisie[v] /\ req'[v] = req[v] /\ SaisieJuste(v)
      BY <1>10, <1>13, <2>2 DEF InvTableau
    <3> QED
      BY <1>3, <3>1 DEF SaisieJuste
  <2> QED
    BY <2>1, <2>2
<1>15. \A i \in 1 .. seqEmprunt' : DateJuste(i)'
  BY <1>3 DEF InvTableau, DateJuste
<1>16. BornePrets'
  <2>1. EnPret' = EnPret \cup {w} /\ w \notin EnPret
    BY <1>11, <1>12, <1>13 DEF EnPret, EtapesPret
  <2>2. Cardinality(EnPret') = Cardinality(EnPret) + 1
    BY <2>1, PretsComptes, FS_AddElement
  <2>3. seqEmprunt + Cardinality(EnPret) < MaxEmprunts
    BY <1>1 DEF PretDebut
  <2>4. Cardinality(EnPret) \in Nat /\ MaxEmprunts \in Nat
    BY PretsComptes, ConstantesAssumption
  <2> QED
    BY <1>3, <1>4, <2>2, <2>3, <2>4 DEF BornePrets
<1> QED
  BY <1>9, <1>14, <1>15, <1>16

\* persistEntity fills in the date.
LEMMA PretDateOK ==
    ASSUME InvTableau, TypeOK', NEW w \in Workers, PretDate(w)
    PROVE  /\ BornePrets' /\ TableauTypeOK'
           /\ \A v \in Workers : SaisieJuste(v)'
           /\ \A i \in 1 .. seqEmprunt' : DateJuste(i)'
<1> DEFINE d == IF saisie[w].date = SansDate THEN maintenant ELSE saisie[w].date
           s == [saisie[w] EXCEPT !.date = d]
<1>1. /\ req[w].etape = "pret_encours" /\ (Fin(w) \/ Passe(w, "pret_insere"))
      /\ UNCHANGED <<maintenant, seqEmprunt, dateEmprunt, heurePret, ecrans>>
  BY DEF PretDate, PretEnCours, base
<1>2. maintenant \in Nat /\ seqEmprunt \in Nat /\ req \in [Workers -> Requete]
  BY DEF InvTableau, TypeOK
<1>3. saisie[w] \in [date : Nat \cup {SansDate}, debut : Nat]
  BY DEF InvTableau, TableauTypeOK
<1>4. SaisieJuste(w)
  BY DEF InvTableau
<1>5. d \in Nat /\ saisie[w].debut - Jour < d /\ d <= maintenant /\ d # SansDate
  BY <1>2, <1>3, <1>4, TableauAssumption DEF SaisieJuste, SansDate
<1>6. saisie' = [saisie EXCEPT ![w] = s]
  BY DEF PretDate, InvTableau, TableauTypeOK
<1> HIDE DEF d
<1>7. s \in [date : Nat \cup {SansDate}, debut : Nat] /\ s.date = d /\ s.debut = saisie[w].debut
  BY <1>3, <1>5
<1> HIDE DEF s
<1>8. \A v \in Workers : saisie'[v] = IF v = w THEN s ELSE saisie[v]
  BY <1>6 DEF InvTableau, TableauTypeOK
<1>9. TableauTypeOK'
  BY <1>1, <1>6, <1>7 DEF InvTableau, TableauTypeOK, ecrans
<1>10. \A v \in Workers : v # w => req'[v] = req[v]
  BY <1>1, <1>2 DEF Fin, Passe
<1>11. ASSUME NEW v \in Workers PROVE SaisieJuste(v)'
  <2>1. CASE v = w
    <3>1. saisie'[v].date = d /\ saisie'[v].debut = saisie[w].debut
      BY <1>7, <1>8, <2>1
    <3> QED
      BY <1>1, <1>4, <1>5, <3>1 DEF SaisieJuste
  <2>2. CASE v # w
    <3>1. saisie'[v] = saisie[v] /\ req'[v] = req[v] /\ SaisieJuste(v)
      BY <1>8, <1>10, <2>2 DEF InvTableau
    <3> QED
      BY <1>1, <3>1 DEF SaisieJuste
  <2> QED
    BY <2>1, <2>2
<1>12. \A i \in 1 .. seqEmprunt' : DateJuste(i)'
  BY <1>1 DEF InvTableau, DateJuste
<1>13. BornePrets'
  <2>1. EnPret' \subseteq EnPret
    BY <1>1, <1>10 DEF EnPret, EtapesPret
  <2> QED
    BY <1>1, <2>1, BorneCalme DEF InvTableau
<1> QED
  BY <1>9, <1>11, <1>12, <1>13

\* flush() of a new loan.
LEMMA PretEnregistreOK ==
    ASSUME InvTableau, TypeOK', NEW w \in Workers, PretEnregistre(w)
    PROVE  /\ BornePrets' /\ TableauTypeOK'
           /\ \A v \in Workers : SaisieJuste(v)'
           /\ \A i \in 1 .. seqEmprunt' : DateJuste(i)'
<1>1. /\ req[w].etape = "pret_insere" /\ Fin(w)
      /\ seqEmprunt' = seqEmprunt + 1 \/ seqEmprunt' = seqEmprunt
      /\ UNCHANGED <<maintenant, saisie, ecrans>>
  BY DEF PretEnregistre, PretInsere
<1>2. maintenant \in Nat /\ seqEmprunt \in Nat /\ req \in [Workers -> Requete]
  BY DEF InvTableau, TypeOK
<1>3. \A v \in Workers : req'[v] = IF v = w THEN Repos ELSE req[v]
  BY <1>1, <1>2 DEF Fin
<1>4. ASSUME NEW v \in Workers PROVE SaisieJuste(v)'
  <2>1. SaisieJuste(v) /\ (req'[v].etape = "pret_insere" => req[v].etape = "pret_insere")
    BY <1>3 DEF InvTableau, Repos
  <2> QED
    BY <1>1, <2>1 DEF SaisieJuste
<1>5. EnPret' = EnPret \ {w} /\ w \in EnPret
  BY <1>1, <1>3 DEF EnPret, EtapesPret, Repos
<1>6. /\ Cardinality(EnPret) \in Nat /\ Cardinality(EnPret') \in Nat
      /\ Cardinality(EnPret') = Cardinality(EnPret) - 1
  <2>1. Cardinality(EnPret') = Cardinality(EnPret) - 1
    BY <1>5, PretsComptes, FS_RemoveElement
  <2>2. IsFiniteSet(EnPret')
    BY <1>5, PretsComptes, FS_Subset
  <2> QED
    BY <2>1, <2>2, PretsComptes, FS_CardinalityType
<1>7. BornePrets' /\ seqEmprunt + 1 \in Ids
  BY <1>1, <1>2, <1>6, ConstantesAssumption DEF InvTableau, BornePrets, Ids
<1>8. CASE seqEmprunt' = seqEmprunt
  <2>1. UNCHANGED <<dateEmprunt, heurePret>>
    BY <1>8 DEF PretEnregistre
  <2>2. TableauTypeOK'
    BY <1>1, <2>1 DEF InvTableau, TableauTypeOK, ecrans
  <2>3. \A i \in 1 .. seqEmprunt' : DateJuste(i)'
    BY <1>8, <2>1 DEF InvTableau, DateJuste
  <2> QED
    BY <1>4, <1>7, <2>2, <2>3
<1>9. CASE seqEmprunt' = seqEmprunt + 1
  <2> DEFINE n == seqEmprunt + 1
             h == [debut |-> saisie[w].debut, fin |-> maintenant]
  <2>1. n # seqEmprunt /\ n \in Ids
    BY <1>2, <1>7
  <2>2. /\ dateEmprunt' = [dateEmprunt EXCEPT ![n] = saisie[w].date]
        /\ heurePret' = [heurePret EXCEPT ![n] = h]
    BY <1>9, <2>1 DEF PretEnregistre
  <2>3. /\ saisie[w].date \in Nat \cup {SansDate} /\ saisie[w].debut \in Nat
    BY DEF InvTableau, TableauTypeOK
  <2>4. SaisieJuste(w)
    BY DEF InvTableau
  <2>5. /\ saisie[w].date \in Nat /\ saisie[w].debut - Jour < saisie[w].date
        /\ saisie[w].date <= maintenant
    BY <1>1, <2>3, <2>4 DEF SaisieJuste
  <2>6. h \in [debut : Nat, fin : Nat] /\ h.debut = saisie[w].debut /\ h.fin = maintenant
    BY <1>2, <2>3
  <2> HIDE DEF h, n
  <2>7. /\ dateEmprunt' \in [Ids -> Nat] /\ heurePret' \in [Ids -> [debut : Nat, fin : Nat]]
        /\ \A i \in Ids : /\ dateEmprunt'[i] = IF i = n THEN saisie[w].date ELSE dateEmprunt[i]
                          /\ heurePret'[i] = IF i = n THEN h ELSE heurePret[i]
    BY <2>1, <2>2, <2>5, <2>6 DEF InvTableau, TableauTypeOK
  <2>8. TableauTypeOK'
    BY <1>1, <2>7 DEF InvTableau, TableauTypeOK, ecrans
  <2>9. ASSUME NEW i \in 1 .. seqEmprunt' PROVE DateJuste(i)'
    <3>0. i \in 1 .. (seqEmprunt + 1) /\ seqEmprunt + 1 \in 1 .. MaxEmprunts
      BY <1>7, <1>9 DEF Ids
    <3>1. i \in Ids /\ (i = n \/ i \in 1 .. seqEmprunt)
      BY <1>2, <3>0, ConstantesAssumption DEF n, Ids
    <3>2. CASE i = n
      <4>1. dateEmprunt'[i] = saisie[w].date /\ heurePret'[i] = h
        BY <2>7, <3>1, <3>2
      <4> QED
        BY <2>5, <2>6, <4>1 DEF DateJuste
    <3>3. CASE i # n
      <4>1. dateEmprunt'[i] = dateEmprunt[i] /\ heurePret'[i] = heurePret[i]
        BY <2>7, <3>1, <3>3
      <4>2. DateJuste(i)
        BY <3>1, <3>3 DEF InvTableau
      <4> QED
        BY <4>1, <4>2 DEF DateJuste
    <3> QED
      BY <3>2, <3>3
  <2> QED
    BY <1>4, <1>7, <2>8, <2>9
<1> QED
  BY <1>1, <1>8, <1>9

\* The ids of the loans are ids.
LEMMA IdsDesPrets == InvTableau => \A e \in emprunts : e.id \in Ids /\ e.id \in 1 .. seqEmprunt
<1> SUFFICES ASSUME InvTableau, NEW e \in emprunts
             PROVE  e.id \in Ids /\ e.id \in 1 .. seqEmprunt
  OBVIOUS
<1>1. e.id \in Nat \ {0} /\ e.id <= seqEmprunt /\ seqEmprunt \in Nat
  BY DEF InvTableau, TypeOK, Emprunt, InvEmprunts
<1>2. seqEmprunt <= MaxEmprunts
  BY <1>1, PretsComptes, ConstantesAssumption DEF InvTableau, BornePrets
<1> QED
  BY <1>1, <1>2, ConstantesAssumption DEF Ids

\* The statements of the dashboard and of "Mes emprunts".
LEMMA EcransOK ==
    ASSUME InvTableau, TableauSelect \/ TableauBoucle \/ TableauCompte \/ MesEmprunts
    PROVE  TableauTypeOK' /\ UNCHANGED <<vars, dates>>
<1>1. UNCHANGED <<vars, dates>>
  BY DEF TableauSelect, TableauBoucle, TableauCompte, MesEmprunts
<1>2. TableauTypeOK /\ seqEmprunt \in Nat
  BY DEF InvTableau, TypeOK
<1>3. CASE TableauSelect
  <2> DEFINE lus == {e.id : e \in Actifs}
  <2>1. lus \in SUBSET Ids
    BY IdsDesPrets DEF Actifs
  <2> HIDE DEF lus
  <2>2. [etape |-> "lu", lus |-> lus, retards |-> 0, dernier |-> seqEmprunt]
          \in [etape : {"repos", "lu", "compte"}, lus : SUBSET Ids,
               retards : Nat, dernier : Nat]
    BY <1>2, <2>1
  <2>3. tableau' = [etape |-> "lu", lus |-> lus, retards |-> 0, dernier |-> seqEmprunt]
    BY <1>3 DEF TableauSelect, lus
  <2>4. UNCHANGED <<chiffres, badges>>
    BY <1>3 DEF TableauSelect
  <2> QED
    BY <1>1, <1>2, <2>2, <2>3, <2>4 DEF TableauTypeOK, dates
<1>4. CASE TableauBoucle
  <2> DEFINE k == Cardinality({i \in tableau.lus : Echu(i)})
  <2>1. {i \in tableau.lus : Echu(i)} \subseteq Ids
    BY <1>2 DEF TableauTypeOK
  <2>2. IsFiniteSet(1 .. MaxEmprunts)
    <3>1. 1 \in Int /\ MaxEmprunts \in Int
      BY ConstantesAssumption
    <3> QED
      BY <3>1, FS_Interval
  <2>3. IsFiniteSet({i \in tableau.lus : Echu(i)})
    BY <2>1, <2>2, FS_Subset DEF Ids
  <2>4. k \in Nat
    BY <2>3, FS_CardinalityType
  <2>5. /\ tableau' = [tableau EXCEPT !.etape = "compte", !.retards = k]
        /\ UNCHANGED <<chiffres, badges>>
    BY <1>4 DEF TableauBoucle
  <2> HIDE DEF k
  <2>6. tableau' \in [etape : {"repos", "lu", "compte"}, lus : SUBSET Ids,
                      retards : Nat, dernier : Nat]
    BY <1>2, <2>4, <2>5 DEF TableauTypeOK
  <2> QED
    BY <1>1, <1>2, <2>5, <2>6 DEF TableauTypeOK, dates
<1>5. CASE TableauCompte
  <2>1. Cardinality(Actifs) \in Nat
    BY FS_Subset, FS_CardinalityType DEF Actifs, InvTableau
  <2>2. tableau.retards \in Nat
    BY <1>2 DEF TableauTypeOK
  <2>3. chiffres' \in [enCours : Nat, retards : Nat]
    BY <1>5, <2>1, <2>2 DEF TableauCompte
  <2>4. tableau' \in [etape : {"repos", "lu", "compte"}, lus : SUBSET Ids,
                      retards : Nat, dernier : Nat]
    BY <1>5 DEF TableauCompte, AucunTableau
  <2>5. UNCHANGED badges
    BY <1>5 DEF TableauCompte
  <2> QED
    BY <1>1, <1>2, <2>3, <2>4, <2>5 DEF TableauTypeOK, dates
<1>6. CASE MesEmprunts
  <2>1. badges' \in [Ids -> {"aucun", "En cours", "En retard"}]
    BY <1>6 DEF MesEmprunts, Badge
  <2>2. UNCHANGED <<tableau, chiffres>>
    BY <1>6 DEF MesEmprunts
  <2> QED
    BY <1>1, <1>2, <2>1, <2>2 DEF TableauTypeOK, dates
<1> QED
  BY <1>1, <1>3, <1>4, <1>5, <1>6

\* Every step keeps the invariant.
LEMMA TableauTient == InvTableau /\ [TableauNext]_tableauVars => InvTableau'
<1> SUFFICES ASSUME InvTableau, [TableauNext]_tableauVars PROVE InvTableau'
  OBVIOUS
<1>1. [Next]_vars
  BY TableauSurTables
<1>2. TypeOK' /\ InvEmprunts' /\ IsFiniteSet(emprunts')
  BY <1>1, TypeNext, EmpruntsNext, PretsFinis DEF InvTableau
<1>3. /\ BornePrets' /\ TableauTypeOK'
      /\ \A w \in Workers : SaisieJuste(w)'
      /\ \A i \in 1 .. seqEmprunt' : DateJuste(i)'
  <2>1. ASSUME UNCHANGED <<vars, dates>>, TableauTypeOK'
        PROVE  /\ BornePrets'
               /\ \A w \in Workers : SaisieJuste(w)'
               /\ \A i \in 1 .. seqEmprunt' : DateJuste(i)'
    <3>1. UNCHANGED <<maintenant, seqEmprunt, req>> /\ UNCHANGED dates
      BY <2>1 DEF vars, base
    <3>2. maintenant' >= maintenant
      BY <3>1 DEF InvTableau, TypeOK
    <3> QED
      BY <1>2, <2>1, <3>1, <3>2, TableauCalme
  <2>2. CASE TableauSelect \/ TableauBoucle \/ TableauCompte \/ MesEmprunts
    BY <2>1, <2>2, EcransOK
  <2>3. CASE UNCHANGED tableauVars
    <3>1. TableauTypeOK'
      BY <2>3 DEF tableauVars, dates, ecrans, InvTableau, TableauTypeOK
    <3> QED
      BY <2>1, <2>3, <3>1 DEF tableauVars
  <2>4. CASE SansEffetSurDates
    <3>1. /\ maintenant' >= maintenant /\ seqEmprunt' = seqEmprunt
          /\ UNCHANGED <<dates, ecrans>>
          /\ \A v \in Workers : /\ req'[v].etape \in EtapesPret => req[v].etape \in EtapesPret
                                /\ req'[v].etape = "pret_insere" => req'[v] = req[v]
      BY <2>4, SansEffetOK DEF InvTableau
    <3>2. TableauTypeOK'
      BY <3>1 DEF dates, ecrans, InvTableau, TableauTypeOK
    <3> QED
      BY <1>2, <3>1, <3>2, TableauCalme
  <2>5. ASSUME NEW w \in Workers, PretSaisi(w) \/ PretDate(w) \/ PretEnregistre(w)
        PROVE  /\ BornePrets' /\ TableauTypeOK'
               /\ \A v \in Workers : SaisieJuste(v)'
               /\ \A i \in 1 .. seqEmprunt' : DateJuste(i)'
    BY <1>2, <2>5, PretSaisiOK, PretDateOK, PretEnregistreOK
  <2> QED
    BY <2>2, <2>3, <2>4, <2>5 DEF TableauNext
<1> QED
  BY <1>2, <1>3 DEF InvTableau

\* The screens of a library as it is installed.
LEMMA TableauDepart == TableauInit => InvTableau
<1> SUFFICES ASSUME TableauInit PROVE InvTableau
  OBVIOUS
<1>1. TypeOK /\ IsFiniteSet(emprunts) /\ InvEmprunts
  BY FS_EmptySet DEF TableauInit, Init, TypeOK, NULL, Requete, InvEmprunts
<1>2. TableauTypeOK
  <2>1. saisie \in [Workers -> [date : Nat \cup {SansDate}, debut : Nat]]
    BY DEF TableauInit
  <2>2. dateEmprunt \in [Ids -> Nat] /\ heurePret \in [Ids -> [debut : Nat, fin : Nat]]
    BY DEF TableauInit
  <2>3. /\ tableau \in [etape : {"repos", "lu", "compte"}, lus : SUBSET Ids,
                        retards : Nat, dernier : Nat]
        /\ chiffres \in [enCours : Nat, retards : Nat]
        /\ badges \in [Ids -> {"aucun", "En cours", "En retard"}]
    BY DEF TableauInit, AucunTableau
  <2> QED
    BY <2>1, <2>2, <2>3 DEF TableauTypeOK
<1>3. BornePrets
  <2>1. EnPret = {}
    BY DEF TableauInit, Init, EnPret, Repos, EtapesPret
  <2> QED
    BY <2>1, FS_EmptySet, ConstantesAssumption DEF TableauInit, Init, BornePrets
<1>4. \A w \in Workers : SaisieJuste(w)
  BY DEF TableauInit, Init, SaisieJuste, Repos
<1>5. \A i \in 1 .. seqEmprunt : DateJuste(i)
  BY DEF TableauInit, Init
<1> QED
  BY <1>1, <1>2, <1>3, <1>4, <1>5 DEF InvTableau

\* The library under the dashboard behaves as the library alone may.
THEOREM TableauImplementeTables == TableauSpec => Spec
<1>1. TableauInit => Init
  BY DEF TableauInit
<1>2. [TableauNext]_tableauVars => [Next]_vars
  BY TableauSurTables
<1> QED
  BY <1>1, <1>2, PTL DEF TableauSpec, Spec

\* Dates, figures and badges keep their form: in particular no loan is stored
\* without a date, and there is an id for every loan under way.
THEOREM TableauBienType == TableauSpec => []TableauTypeOK
<1>1. InvTableau => TableauTypeOK
  BY DEF InvTableau
<1> QED
  BY <1>1, TableauDepart, TableauTient, PTL DEF TableauSpec

\* estEnRetard (Emprunt.php:100) is exact up to a day, for any period and any
\* length of the day, however long the request that stores the loan takes.
THEOREM RetardToujoursEncadre == TableauSpec => []RetardEncadre
<1>1. InvTableau => RetardEncadre
  <2> SUFFICES ASSUME InvTableau, NEW e \in Actifs
               PROVE  /\ estEnRetard(e) => maintenant - heurePret[e.id].debut > (Delai - 1) * Jour
                      /\ maintenant - heurePret[e.id].fin > Delai * Jour => estEnRetard(e)
    BY DEF RetardEncadre
  <2>1. e.id \in Ids /\ e.id \in 1 .. seqEmprunt /\ ~e.rendu
    BY IdsDesPrets DEF Actifs
  <2>2. DateJuste(e.id)
    BY <2>1 DEF InvTableau
  <2>3. /\ dateEmprunt[e.id] \in Nat /\ heurePret[e.id].debut \in Nat
        /\ heurePret[e.id].fin \in Nat /\ maintenant \in Nat
    <3>1. maintenant \in Nat
      BY DEF InvTableau, TypeOK
    <3>2. dateEmprunt \in [Ids -> Nat] /\ heurePret \in [Ids -> [debut : Nat, fin : Nat]]
      BY DEF InvTableau, TableauTypeOK
    <3>3. dateEmprunt[e.id] \in Nat
      BY <2>1, <3>2
    <3>4. heurePret[e.id] \in [debut : Nat, fin : Nat]
      BY <2>1, <3>2
    <3> QED
      BY <3>1, <3>3, <3>4
  <2> DEFINE d == Delai * Jour
  <2>4. Jour \in Int /\ d \in Int /\ (Delai - 1) * Jour = d - Jour
    BY TableauAssumption
  <2>5. estEnRetard(e) <=> maintenant > dateEmprunt[e.id] + d
    BY <2>1 DEF estEnRetard, Echu
  <2> HIDE DEF d
  <2>6. estEnRetard(e) => maintenant - heurePret[e.id].debut > d - Jour
    BY <2>2, <2>3, <2>4, <2>5 DEF DateJuste
  <2>7. maintenant - heurePret[e.id].fin > d => estEnRetard(e)
    BY <2>2, <2>3, <2>4, <2>5 DEF DateJuste
  <2> QED
    BY <2>4, <2>6, <2>7 DEF d
<1> QED
  BY <1>1, TableauDepart, TableauTient, PTL DEF TableauSpec

-----------------------------------------------------------------------------
(***************************************************************************)
(* What the dashboard counts, as long as no loan is reopened.              *)
(***************************************************************************)

\* An edit under way does not reopen its loan.
SansReouverture(q) == q.avant.rendu => q.rendu

InvEdits ==
    /\ \A e, f \in emprunts : e.id = f.id => e = f
    /\ \A w \in Workers : req[w].etape \in EtapesEdit => SansReouverture(req[w])

\* Until they are counted, the loaded loans are all that ran when they were
\* loaded and still do.
InvLus ==
    tableau.etape = "lu" =>
        /\ tableau.dernier <= seqEmprunt
        /\ \A i \in tableau.lus : i <= tableau.dernier
        /\ \A e \in Actifs : e.id <= tableau.dernier => e.id \in tableau.lus

\* A running loan is a new one or was running before.
Anciens == \A e \in Actifs' : e.id > seqEmprunt \/ \E f \in Actifs : f.id = e.id

\* flush() of an edit keeps the ids and reopens nothing.
LEMMA EditFlushAnciens ==
    ASSUME TypeOK, InvEdits, NEW w \in Workers, EditFlush(w)
    PROVE  Anciens /\ \A e, f \in emprunts' : e.id = f.id => e = f
<1> DEFINE q == req[w]
           F(e) == IF e.id = q.avant.id THEN Modifie(e, q) ELSE e
<1>1. q \in RequeteEdit /\ SansReouverture(q)
  BY FormeRequete DEF EditFlush, EtapesEdit, InvEdits
<1>2. q.avant \in Emprunt /\ q.rendu \in BOOLEAN /\ q.avant.rendu \in BOOLEAN
  BY <1>1 DEF RequeteEdit, Emprunt
<1>3. \A e \in emprunts : e \in Emprunt /\ e.rendu \in BOOLEAN
  BY DEF TypeOK, Emprunt
<1>4. emprunts' = emprunts \/ emprunts' = {F(e) : e \in emprunts}
  BY DEF EditFlush
<1>5. \A e \in emprunts : F(e).id = e.id
  BY <1>3 DEF Modifie, Emprunt
<1>6. ASSUME NEW e \in emprunts, ~F(e).rendu PROVE ~e.rendu
  <2>1. CASE e.id # q.avant.id
    BY <1>6, <2>1
  <2>2. CASE e.id = q.avant.id /\ q.rendu = q.avant.rendu
    <3>1. Modifie(e, q).rendu = e.rendu
      BY <1>3, <2>2 DEF Modifie, Emprunt
    <3> QED
      BY <1>6, <2>2, <3>1
  <2>3. CASE e.id = q.avant.id /\ q.rendu # q.avant.rendu
    <3>1. q.rendu = TRUE
      BY <1>1, <1>2, <2>3, Zenon DEF SansReouverture
    <3>2. Modifie(e, q).rendu = q.rendu
      BY <1>3, <2>3 DEF Modifie, Emprunt
    <3> QED
      BY <1>6, <2>3, <3>1, <3>2
  <2> QED
    BY <2>1, <2>2, <2>3
<1> HIDE DEF F
<1>7. CASE emprunts' = emprunts
  BY <1>7 DEF Anciens, Actifs, InvEdits
<1>8. CASE emprunts' = {F(e) : e \in emprunts}
  <2>1. ASSUME NEW x \in Actifs' PROVE \E f \in Actifs : f.id = x.id
    <3>1. x \in emprunts' /\ ~x.rendu
      BY DEF Actifs
    <3>2. PICK e \in emprunts : x = F(e)
      BY <1>8, <3>1
    <3>3. e \in Actifs
      BY <1>6, <3>1, <3>2 DEF Actifs
    <3> QED
      BY <1>5, <3>2, <3>3
  <2>2. \A e, f \in emprunts' : e.id = f.id => e = f
    BY <1>5, <1>8 DEF InvEdits
  <2> QED
    BY <2>1, <2>2 DEF Anciens
<1> QED
  BY <1>4, <1>7, <1>8

\* flush() of a new loan gives it a new id.
LEMMA PretInsereAnciens ==
    ASSUME TypeOK, InvEmprunts, InvEdits, NEW w \in Workers, PretInsere(w)
    PROVE  Anciens /\ \A e, f \in emprunts' : e.id = f.id => e = f
<1> DEFINE x == [id |-> seqEmprunt + 1, utilisateur |-> req[w].u,
                 livre |-> req[w].l, rendu |-> req[w].rendu]
<1>1. emprunts' = emprunts \cup {x} \/ emprunts' = emprunts
  BY DEF PretInsere
<1>2. x.id = seqEmprunt + 1
  OBVIOUS
<1> HIDE DEF x
<1>3. seqEmprunt \in Nat /\ \A e \in emprunts : e.id \in Nat /\ e.id <= seqEmprunt
  BY DEF TypeOK, Emprunt, InvEmprunts
<1>4. x.id > seqEmprunt /\ \A e \in emprunts : e.id # x.id
  BY <1>2, <1>3
<1>5. \A e, f \in emprunts' : e.id = f.id => e = f
  BY <1>1, <1>4 DEF InvEdits
<1>6. Anciens
  BY <1>1, <1>4 DEF Anciens, Actifs
<1> QED
  BY <1>5, <1>6

\* Every step of the screens, as long as no loan is reopened.
LEMMA EditsTient ==
    ASSUME "rouvrir" \notin Editions, TypeOK, InvEmprunts, InvEdits,
           Tick \/ EmpruntNext \/ UNCHANGED vars
    PROVE  InvEdits' /\ Anciens
<1>0. req \in [Workers -> Requete]
  BY DEF TypeOK
<1>1. ASSUME emprunts' \subseteq emprunts
      PROVE  Anciens /\ \A e, f \in emprunts' : e.id = f.id => e = f
  BY <1>1 DEF Anciens, Actifs, InvEdits
<1>2. ASSUME NEW w \in Workers, NEW q, req' = [req EXCEPT ![w] = q],
             q.etape \in EtapesEdit => SansReouverture(q)
      PROVE  \A v \in Workers : req'[v].etape \in EtapesEdit => SansReouverture(req'[v])
  <2>1. \A v \in Workers : req'[v] = IF v = w THEN q ELSE req[v]
    BY <1>0, <1>2
  <2> QED
    BY <1>2, <2>1 DEF InvEdits
<1>3. ASSUME NEW w \in Workers, Fin(w)
      PROVE  \A v \in Workers : req'[v].etape \in EtapesEdit => SansReouverture(req'[v])
  <2>1. Repos.etape \notin EtapesEdit
    BY DEF Repos, EtapesEdit
  <2> QED
    BY <1>2, <1>3, <2>1 DEF Fin
<1>4. CASE Tick \/ UNCHANGED vars \/ \E e \in emprunts : SupprPret(e)
  <2>1. emprunts' \subseteq emprunts /\ req' = req
    BY <1>4 DEF Tick, vars, base, SupprPret
  <2> QED
    BY <1>1, <2>1 DEF InvEdits
<1>5. ASSUME NEW w \in Workers, NEW u, NEW l, NEW rendu, PretDebut(w, u, l, rendu)
      PROVE  InvEdits' /\ Anciens
  <2> DEFINE q == [etape |-> "pret_reservation", u |-> u, l |-> l,
                   rendu |-> rendu, resa |-> NULL]
  <2>1. req' = [req EXCEPT ![w] = q] /\ emprunts' \subseteq emprunts
    BY <1>5 DEF PretDebut, Entre, base
  <2>2. q.etape \notin EtapesEdit
    BY DEF EtapesEdit
  <2> HIDE DEF q
  <2> QED
    BY <1>1, <1>2, <2>1, <2>2 DEF InvEdits
<1>6. ASSUME NEW w \in Workers, NEW e \in emprunts, NEW u, NEW l, NEW rendu \in BOOLEAN,
             EditDebut(w, e, u, l, rendu)
      PROVE  InvEdits' /\ Anciens
  <2> DEFINE q == [etape |-> "edit_livre", avant |-> e, u |-> u, l |-> l,
                   rendu |-> rendu, pointeur |-> NULL]
  <2>1. req' = [req EXCEPT ![w] = q] /\ emprunts' \subseteq emprunts
    BY <1>6 DEF EditDebut, Entre, base
  <2>2. q.avant = e /\ q.rendu = rendu
    OBVIOUS
  <2> HIDE DEF q
  <2>3. e.rendu => rendu
    BY <1>6, Zenon DEF EditDebut, EditionPossible
  <2>4. SansReouverture(q)
    BY <2>2, <2>3, Zenon DEF SansReouverture
  <2> QED
    BY <1>1, <1>2, <2>1, <2>4 DEF InvEdits
<1>7. ASSUME NEW w \in Workers, PretReservation(w) \/ PretLimite(w) \/ PretEnCours(w)
      PROVE  InvEdits' /\ Anciens
  <2>1. emprunts' \subseteq emprunts
    BY <1>7 DEF PretReservation, PretLimite, PretEnCours, base
  <2>2. req[w] \in RequetePret
    BY <1>7, FormeRequete DEF PretReservation, PretLimite, PretEnCours, EtapesPret
  <2>3. \A v \in Workers \ {w} : req'[v] = req[v]
    BY <1>0, <1>7 DEF PretReservation, PretLimite, PretEnCours, Fin, Passe
  <2>4. req'[w].etape \in {"repos", "pret_limite", "pret_encours", "pret_insere"}
    BY <1>0, <1>7, <2>2 DEF PretReservation, PretLimite, PretEnCours, Fin, Passe, Repos,
                            RequetePret
  <2>5. req'[w].etape \notin EtapesEdit
    BY <2>4 DEF EtapesEdit
  <2>6. ASSUME NEW v \in Workers, req'[v].etape \in EtapesEdit PROVE SansReouverture(req'[v])
    BY <2>3, <2>5, <2>6 DEF InvEdits
  <2> QED
    BY <1>1, <2>1, <2>6 DEF InvEdits
<1>8. ASSUME NEW w \in Workers, EditLivre(w)
      PROVE  InvEdits' /\ Anciens
  <2>1. emprunts' \subseteq emprunts
    BY <1>8 DEF EditLivre, base
  <2>2. req[w] \in RequeteEdit /\ SansReouverture(req[w])
    BY <1>8, FormeRequete DEF EditLivre, EtapesEdit, InvEdits
  <2> DEFINE q == [req[w] EXCEPT !.etape = "edit_flush",
                                 !.pointeur = livreEmprunt[req[w].l]]
  <2>3. q.avant = req[w].avant /\ q.rendu = req[w].rendu
    BY <2>2 DEF RequeteEdit
  <2>4. Fin(w) \/ req' = [req EXCEPT ![w] = q]
    BY <1>0, <1>8 DEF EditLivre
  <2> HIDE DEF q
  <2>5. SansReouverture(q)
    BY <2>2, <2>3, Zenon DEF SansReouverture
  <2> QED
    BY <1>1, <1>2, <1>3, <2>1, <2>4, <2>5 DEF InvEdits
<1>9. ASSUME NEW w \in Workers, PretInsere(w) \/ EditFlush(w)
      PROVE  InvEdits' /\ Anciens
  <2>1. Fin(w)
    BY <1>9 DEF PretInsere, EditFlush
  <2> QED
    BY <1>3, <1>9, <2>1, PretInsereAnciens, EditFlushAnciens DEF InvEdits
<1> QED
  BY <1>4, <1>5, <1>6, <1>7, <1>8, <1>9 DEF EmpruntNext, PretEtape

\* Ids of loans are given out in order.
LEMMA SeqCroit ==
    ASSUME TypeOK, Tick \/ EmpruntNext \/ UNCHANGED vars
    PROVE  seqEmprunt' >= seqEmprunt
<1>1. seqEmprunt \in Nat
  BY DEF TypeOK
<1>2. seqEmprunt' = seqEmprunt \/ seqEmprunt' = seqEmprunt + 1
  BY DEF Tick, vars, base, EmpruntNext, PretEtape, PretDebut, PretReservation, PretLimite,
         PretEnCours, PretInsere, EditDebut, EditLivre, EditFlush, SupprPret
<1> QED
  BY <1>1, <1>2

\* The loaded loans stay as they are while others end.
LEMMA LusTient ==
    ASSUME InvTableau, InvLus, Anciens, seqEmprunt' >= seqEmprunt, TypeOK',
           [TableauNext]_tableauVars
    PROVE  InvLus'
<1>1. seqEmprunt \in Nat /\ seqEmprunt' \in Nat /\ tableau.dernier \in Nat
  BY DEF InvTableau, TypeOK, TableauTypeOK
<1>2. \A e \in Actifs : e.id \in Nat /\ e.id <= seqEmprunt
  BY DEF InvTableau, InvEmprunts, TypeOK, Emprunt, Actifs
<1>3. \A e \in Actifs' : e.id \in Nat
  BY DEF TypeOK, Emprunt, Actifs
<1>4. CASE tableau' = tableau
  <2> SUFFICES ASSUME tableau.etape = "lu" PROVE
                      /\ tableau.dernier <= seqEmprunt'
                      /\ \A i \in tableau.lus : i <= tableau.dernier
                      /\ \A e \in Actifs' : e.id <= tableau.dernier => e.id \in tableau.lus
    BY <1>4 DEF InvLus
  <2>1. tableau.dernier <= seqEmprunt /\ \A i \in tableau.lus : i <= tableau.dernier
    BY DEF InvLus
  <2>2. ASSUME NEW e \in Actifs', e.id <= tableau.dernier PROVE e.id \in tableau.lus
    <3>1. ~(e.id > seqEmprunt)
      BY <1>1, <1>3, <2>1, <2>2
    <3>2. PICK f \in Actifs : f.id = e.id
      BY <2>2, <3>1 DEF Anciens
    <3> QED
      BY <2>2, <3>2 DEF InvLus
  <2>3. tableau.dernier <= seqEmprunt'
    BY <1>1, <2>1
  <2> QED
    BY <2>1, <2>2, <2>3
<1>5. CASE TableauSelect
  <2>1. UNCHANGED <<seqEmprunt, Actifs>>
    BY <1>5 DEF TableauSelect, vars, base, Actifs
  <2> DEFINE lus == {e.id : e \in Actifs}
  <2>2. tableau' = [etape |-> "lu", lus |-> lus, retards |-> 0, dernier |-> seqEmprunt]
    BY <1>5 DEF TableauSelect
  <2>3. /\ \A i \in lus : i <= seqEmprunt
        /\ \A e \in Actifs : e.id \in lus
    BY <1>2
  <2> HIDE DEF lus
  <2>4. tableau'.lus = lus /\ tableau'.dernier = seqEmprunt
    BY <2>2
  <2> QED
    BY <1>1, <2>1, <2>3, <2>4 DEF InvLus
<1>6. CASE TableauBoucle
  <2>1. tableau'.etape = "compte"
    BY <1>6 DEF TableauBoucle, InvTableau, TableauTypeOK
  <2> QED
    BY <2>1 DEF InvLus
<1>7. CASE TableauCompte
  <2>1. tableau'.etape = "repos"
    BY <1>7 DEF TableauCompte, AucunTableau
  <2> QED
    BY <2>1 DEF InvLus
<1>8. \/ tableau' = tableau \/ TableauSelect \/ TableauBoucle \/ TableauCompte
  BY DEF TableauNext, SansEffetSurDates, PretSaisi, PretDate, PretEnregistre, MesEmprunts,
         ecrans, tableauVars
<1> QED
  BY <1>4, <1>5, <1>6, <1>7, <1>8

\* The loop counts the late loans that still run, and at most those beside them
\* that have ended since they were loaded.
LEMMA BoucleEncadree ==
    ASSUME InvTableau, InvEdits, InvLus, TableauBoucle
    PROVE  LET tard == {e \in Actifs : e.id <= tableau.dernier /\ estEnRetard(e)}
               finis == tableau.lus \ {e.id : e \in Actifs}
           IN  tableau'.retards \in
                  Cardinality(tard) .. Cardinality(tard) + Cardinality(finis)
<1> DEFINE tard == {e \in Actifs : e.id <= tableau.dernier /\ estEnRetard(e)}
           finis == tableau.lus \ {e.id : e \in Actifs}
           comptes == {i \in tableau.lus : Echu(i)}
           ids == {e.id : e \in tard}
<1>1. tableau.etape = "lu" /\ tableau'.retards = Cardinality(comptes)
  BY DEF TableauBoucle, InvTableau, TableauTypeOK
<1>2. \A e \in tard : e.id \in comptes
  BY <1>1 DEF InvLus, estEnRetard
<1>3. \A i \in comptes : i \in ids \/ i \in finis
  <2> SUFFICES ASSUME NEW i \in comptes, i \notin finis PROVE i \in ids
    OBVIOUS
  <2>1. PICK e \in Actifs : e.id = i
    OBVIOUS
  <2>2. i <= tableau.dernier /\ Echu(i)
    BY <1>1 DEF InvLus
  <2>3. ~e.rendu
    BY DEF Actifs
  <2>4. e \in tard
    BY <2>1, <2>2, <2>3 DEF estEnRetard
  <2> QED
    BY <2>1, <2>4
<1>4. \A e, f \in tard : e.id = f.id => e = f
  BY DEF InvEdits, Actifs
<1>5. IsFiniteSet(tableau.lus)
  <2>1. tableau.lus \subseteq 1 .. MaxEmprunts
    BY DEF InvTableau, TableauTypeOK, Ids
  <2>2. 1 \in Int /\ MaxEmprunts \in Int
    BY ConstantesAssumption
  <2> QED
    BY <2>1, <2>2, FS_Interval, FS_Subset
<1>6. IsFiniteSet(finis) /\ IsFiniteSet(comptes)
  BY <1>5, FS_Subset
<1>7. IsFiniteSet(tard)
  BY FS_Subset DEF InvTableau, Actifs
<1> HIDE DEF tard, finis, comptes
<1>8. Cardinality(tard) <= Cardinality(comptes)
  <2> DEFINE f == [e \in tard |-> e.id]
  <2>1. f \in Injection(tard, comptes)
    BY <1>2, <1>4 DEF Injection, IsInjective
  <2> QED
    BY <1>6, <2>1, FS_Injection
<1>9. IsFiniteSet(ids) /\ Cardinality(ids) <= Cardinality(tard)
  <2> DEFINE f == [e \in tard |-> e.id]
  <2>1. f \in Surjection(tard, ids)
    BY DEF Surjection
  <2> QED
    BY <1>7, <2>1, FS_Surjection
<1> HIDE DEF ids
<1>10. /\ Cardinality(tard) \in Nat /\ Cardinality(finis) \in Nat
       /\ Cardinality(comptes) \in Nat /\ Cardinality(ids) \in Nat
  BY <1>6, <1>7, <1>9, FS_CardinalityType
<1>11. Cardinality(comptes) <= Cardinality(ids) + Cardinality(finis)
  <2>1. /\ IsFiniteSet(ids \cup finis)
        /\ Cardinality(ids \cup finis)
              = Cardinality(ids) + Cardinality(finis) - Cardinality(ids \cap finis)
    BY <1>6, <1>9, FS_Union
  <2>2. IsFiniteSet(ids \cap finis)
    BY <1>6, FS_Subset
  <2>3. Cardinality(ids \cap finis) \in Nat
    BY <2>2, FS_CardinalityType
  <2>4. comptes \subseteq ids \cup finis
    BY <1>3
  <2>5. Cardinality(comptes) <= Cardinality(ids \cup finis)
    BY <2>1, <2>4, FS_Subset
  <2> QED
    BY <1>10, <2>1, <2>3, <2>5
<1>12. Cardinality(comptes) \in Cardinality(tard) .. Cardinality(tard) + Cardinality(finis)
  BY <1>8, <1>9, <1>10, <1>11
<1> QED
  BY <1>1, <1>12 DEF tard, finis

\* The figure 'Retards detectes' (DashboardController.php:24-46) is exact up to the
\* loans that end while it is computed, for any number of loans and workers, as
\* long as no loan is reopened.
THEOREM RetardsToujoursEncadres ==
    ASSUME "rouvrir" \notin Editions
    PROVE  TableauSpec => RetardsEncadres
<1> DEFINE Inv == InvTableau /\ InvEdits /\ InvLus
           A == TableauBoucle =>
                   LET tard == {e \in Actifs : e.id <= tableau.dernier /\ estEnRetard(e)}
                       finis == tableau.lus \ {e.id : e \in Actifs}
                   IN  tableau'.retards \in
                          Cardinality(tard) .. Cardinality(tard) + Cardinality(finis)
<1>1. TableauInit => Inv
  <2> SUFFICES ASSUME TableauInit PROVE Inv
    OBVIOUS
  <2>1. InvEdits
    <3>1. emprunts = {} /\ \A w \in Workers : req[w] = Repos
      BY DEF TableauInit, Init
    <3>2. Repos.etape = "repos"
      BY DEF Repos
    <3> QED
      BY <3>1, <3>2 DEF InvEdits, EtapesEdit
  <2>2. InvLus
    <3>1. tableau.etape = "repos"
      BY DEF TableauInit, AucunTableau
    <3> QED
      BY <3>1 DEF InvLus
  <2> QED
    BY <2>1, <2>2, TableauDepart
<1>2. Inv /\ [TableauNext]_tableauVars => Inv'
  <2> SUFFICES ASSUME Inv, [TableauNext]_tableauVars PROVE Inv'
    OBVIOUS
  <2>1. InvTableau' /\ TypeOK'
    BY TableauTient DEF InvTableau
  <2>2. Tick \/ EmpruntNext \/ UNCHANGED vars
    BY TableauSurPrets
  <2>3. InvEdits' /\ Anciens
    BY <2>2, EditsTient DEF InvTableau
  <2>4. seqEmprunt' >= seqEmprunt
    BY <2>2, SeqCroit DEF InvTableau
  <2> QED
    BY <2>1, <2>3, <2>4, LusTient
<1>3. Inv /\ [TableauNext]_tableauVars => [A]_tableauVars
  BY BoucleEncadree
<1>4. TableauSpec => []Inv
  BY <1>1, <1>2, PTL DEF TableauSpec
<1> QED
  BY <1>3, <1>4, PTL DEF TableauSpec, RetardsEncadres
=============================================================================
