--------------------------- MODULE ReservationApi ---------------------------
(***************************************************************************)
(* ReservationController (the /api/reservation endpoints),                 *)
(* ReservationsRepository and the console command app:reservations:expire. *)
(***************************************************************************)
EXTENDS Base

\* (new \DateTimeImmutable())->modify('-7 days')
Cutoff == maintenant - Expiration

\* Faulty variant: a reservation expires on its seventh day already.
purgeExpiredInclus(cutoff) == {r \in reservations : ~(r.dateResa <= cutoff)}

purgeExpired(cutoff) == {r \in reservations : ~(r.dateResa < cutoff)}

countActiveForUser(u, cutoff) ==
    Cardinality({r \in ResasDe(u) : r.dateResa >= cutoff})

\* Faulty variant: a reservation on its last day is not seen.
findActiveByLivreStrict(l, cutoff) ==
    {r \in ResasDeLivre(l) : r.dateResa > cutoff}

findActiveByLivre(l, cutoff) == {r \in ResasDeLivre(l) : r.dateResa >= cutoff}

-----------------------------------------------------------------------------
(***************************************************************************)
(* POST /api/reservation.  The 400 and 404 answers change nothing and are  *)
(* left out: the request starts with the book found.                       *)
(***************************************************************************)
CreerDebut(w, u, l) ==
    /\ u \in utilisateurs
    /\ l \in livres
    /\ seqResa + Cardinality(EnCreation) < MaxResa
    /\ Entre(w, [etape |-> "creer_purge", u |-> u, l |-> l,
                 emprunteLu |-> livreEmprunt[l] # NULL, cutoff |-> 0])
    /\ UNCHANGED <<maintenant, base>>

\* Faulty variant: only the member's own expired reservations are purged.
CreerPurgePropre(w) ==
    /\ req[w].etape = "creer_purge"
    /\ reservations' = {r \in reservations :
                           r.utilisateur = req[w].u => r.dateResa >= Cutoff}
    /\ req' = [req EXCEPT ![w].etape = "creer_compte", ![w].cutoff = Cutoff]
    /\ UNCHANGED <<maintenant, emprunts, livreEmprunt, livres, utilisateurs,
                   seqResa, seqEmprunt>>

CreerPurge(w) ==
    /\ req[w].etape = "creer_purge"
    /\ reservations' = purgeExpired(Cutoff)
    /\ req' = [req EXCEPT ![w].etape = "creer_compte", ![w].cutoff = Cutoff]
    /\ UNCHANGED <<maintenant, emprunts, livreEmprunt, livres, utilisateurs,
                   seqResa, seqEmprunt>>

\* Faulty variant: the limit is compared with > instead of >=.
CreerCompteStrict(w) ==
    /\ req[w].etape = "creer_compte"
    /\ IF \/ countActiveForUser(req[w].u, req[w].cutoff) > LimiteResa
          \/ req[w].emprunteLu
       THEN Fin(w)
       ELSE Passe(w, "creer_conflit")
    /\ UNCHANGED <<maintenant, base>>

\* Faulty variant: the loan of the book is not looked at.
CreerCompteSansPret(w) ==
    /\ req[w].etape = "creer_compte"
    /\ IF countActiveForUser(req[w].u, req[w].cutoff) >= LimiteResa
       THEN Fin(w)
       ELSE Passe(w, "creer_conflit")
    /\ UNCHANGED <<maintenant, base>>

\* The two 409 answers the count and the hydrated book decide.
CreerCompte(w) ==
    /\ req[w].etape = "creer_compte"
    /\ IF \/ countActiveForUser(req[w].u, req[w].cutoff) >= LimiteResa
          \/ req[w].emprunteLu
       THEN Fin(w)
       ELSE Passe(w, "creer_conflit")
    /\ UNCHANGED <<maintenant, base>>

\* Faulty variant: a conflict restarts the checks instead of answering 409.
CreerConflitReessaie(w) ==
    /\ req[w].etape = "creer_conflit"
    /\ IF findActiveByLivre(req[w].l, req[w].cutoff) # {}
       THEN Passe(w, "creer_purge")
       ELSE Passe(w, "creer_insere")
    /\ UNCHANGED <<maintenant, base>>

CreerConflit(w) ==
    /\ req[w].etape = "creer_conflit"
    /\ IF findActiveByLivre(req[w].l, req[w].cutoff) # {}
       THEN Fin(w)
       ELSE Passe(w, "creer_insere")
    /\ UNCHANGED <<maintenant, base>>

\* Faulty variant: the row takes the last id given out, not the next one.
CreerInsereDernierId(w) ==
    /\ req[w].etape = "creer_insere"
    /\ \/ /\ req[w].u \in utilisateurs /\ req[w].l \in livres
          /\ reservations' = reservations \cup
                {[id |-> seqResa, utilisateur |-> req[w].u,
                  livre |-> req[w].l, dateResa |-> maintenant]}
          /\ seqResa' = seqResa + 1
       \/ /\ ~(req[w].u \in utilisateurs /\ req[w].l \in livres)
          /\ UNCHANGED <<reservations, seqResa>>
    /\ Fin(w)
    /\ UNCHANGED <<maintenant, emprunts, livreEmprunt, livres, utilisateurs,
                   seqEmprunt>>

\* flush(): the foreign keys to utilisateur and livre refuse the row when
\* either has been deleted meanwhile.
CreerInsere(w) ==
    /\ req[w].etape = "creer_insere"
    /\ \/ /\ req[w].u \in utilisateurs /\ req[w].l \in livres
          /\ reservations' = reservations \cup
                {[id |-> seqResa + 1, utilisateur |-> req[w].u,
                  livre |-> req[w].l, dateResa |-> maintenant]}
          /\ seqResa' = seqResa + 1
       \/ /\ ~(req[w].u \in utilisateurs /\ req[w].l \in livres)
          /\ UNCHANGED <<reservations, seqResa>>
    /\ Fin(w)
    /\ UNCHANGED <<maintenant, emprunts, livreEmprunt, livres, utilisateurs,
                   seqEmprunt>>

-----------------------------------------------------------------------------
\* GET /api/reservations purges before it lists; it needs a worker of its own
\* for its one statement that writes.
ListerReservations ==
    /\ \E w \in Workers : Libre(w)
    /\ reservations' = purgeExpired(Cutoff)
    /\ UNCHANGED <<maintenant, emprunts, livreEmprunt, livres, utilisateurs,
                   seqResa, seqEmprunt, req>>

\* app:reservations:expire, a process of its own.
ExpirerReservations ==
    /\ reservations' = purgeExpired(Cutoff)
    /\ UNCHANGED <<maintenant, emprunts, livreEmprunt, livres, utilisateurs,
                   seqResa, seqEmprunt, req>>

\* DELETE /api/reservation/{id} by member u: refused (403) unless the row is
\* the member's own.
Annuler(u, r) ==
    /\ \E w \in Workers : Libre(w)
    /\ u \in utilisateurs
    /\ r \in reservations
    /\ r.utilisateur = u
    /\ reservations' = reservations \ {r}
    /\ UNCHANGED <<maintenant, emprunts, livreEmprunt, livres, utilisateurs,
                   seqResa, seqEmprunt, req>>

CreerEtape(w) ==
    CreerPurge(w) \/ CreerCompte(w) \/ CreerConflit(w) \/ CreerInsere(w)

ReservationNext ==
    \/ \E w \in Workers :
          \/ \E u \in Utilisateurs, l \in Livres : CreerDebut(w, u, l)
          \/ CreerEtape(w)
    \/ ListerReservations
    \/ ExpirerReservations
    \/ \E r \in reservations : \E u \in Utilisateurs : Annuler(u, r)
=============================================================================
