----------------------- MODULE SessionCatalogueProofs -----------------------
(***************************************************************************)
(* The two components with a state of their own beside the loans.  The     *)
(* session of the browser, for any number of accounts, addresses and       *)
(* calls: AffichageSiNet and SessionFinie, by an inductive invariant that  *)
(* also says whose answer each GET /user/me under way can be.  The         *)
(* catalogue screens, for any number of books, authors, categories and     *)
(* librarians: the join tables stay sound, and a saved selection is saved  *)
(* as a whole.                                                             *)
(***************************************************************************)
EXTENDS Session, Catalogue, TLAPS

\* What an answer holds, by kind of call.
Sain(a) ==
    /\ a.type = "me" /\ a.etat = "200" => a.jeton # Aucun /\ a.email = a.jeton.email
    /\ a.type = "login" /\ a.etat = "200" => a.jeton \in Jeton
    /\ a.type = "put" => a.email \in Emails
    /\ a.etat = "charge" => a.compte \in Comptes

TousSains == \A a \in vols : Sain(a)

\* Every GET /user/me under way belongs to the session that is running.
Courants == net => \A a \in AppelsMe(vols) : a.jeton = jeton

IInv == SessionTypeOK /\ ConnecteSiJeton /\ AffichageSiNet /\ TousSains /\ Courants

-----------------------------------------------------------------------------
\* A new call has its type, and its fields are what it was made from.
LEMMA NouveauOK ==
    ASSUME numero \in Nat, NEW ty \in {"login", "me", "profil", "put", "reserver"},
           NEW t \in Jeton \cup {Aucun}, NEW e \in Emails \cup {Aucun}
    PROVE  /\ Nouveau(ty, t, e) \in Appel
           /\ Nouveau(ty, t, e).type = ty
           /\ Nouveau(ty, t, e).jeton = t
           /\ Nouveau(ty, t, e).email = e
           /\ Nouveau(ty, t, e).etat = "envoye"
BY DEF Nouveau, Appel

\* A call that nobody waits for any more.
LEMMA MortOK ==
    ASSUME NEW a \in Appel
    PROVE  /\ [a EXCEPT !.vivant = FALSE] \in Appel
           /\ ~[a EXCEPT !.vivant = FALSE].vivant
           /\ Sain(a) => Sain([a EXCEPT !.vivant = FALSE])
BY DEF Appel, Sain

\* A call that changes its state only.
LEMMA EtatOK ==
    ASSUME NEW a \in Appel, NEW s \in {"200", "401", "500"}
    PROVE  /\ [a EXCEPT !.etat = s] \in Appel
           /\ [a EXCEPT !.etat = s].type = a.type
           /\ [a EXCEPT !.etat = s].vivant = a.vivant
           /\ [a EXCEPT !.etat = s].jeton = a.jeton
           /\ [a EXCEPT !.etat = s].email = a.email
           /\ [a EXCEPT !.etat = s].etat = s
BY DEF Appel

\* getToken is the stored token or none.
LEMMA GetTokenOK ==
    ASSUME SessionTypeOK
    PROVE  getToken \in Jeton \cup {Aucun} /\ (getToken # Aucun => getToken = jeton)
BY DEF SessionTypeOK, getToken

\* The invariant on GET /user/me calls after a step: Suivi takes care of the
\* steps that change the token.
LEMMA CourantsSuit ==
    ASSUME Courants, Suivi,
           jeton' = jeton /\ net => \A b \in AppelsMe(vols)' :
              b.jeton = jeton \/ \E a \in AppelsMe(vols) : a.jeton = b.jeton
    PROVE  Courants'
BY DEF Courants, Suivi, AppelsMe

\* Steps that leave the session alone.
LEMMA SessionInchangee ==
    ASSUME IInv, Suivi, UNCHANGED session
    PROVE  ConnecteSiJeton' /\ AffichageSiNet'
BY DEF IInv, Suivi, session, stockage, signaux, ConnecteSiJeton, AffichageSiNet

\* Steps that clear it.
LEMMA SessionVidee ==
    ASSUME clearSession
    PROVE  ConnecteSiJeton' /\ AffichageSiNet'
BY DEF clearSession, ConnecteSiJeton, AffichageSiNet

\* The type of the session variables after either.
LEMMA SessionTypee ==
    ASSUME SessionTypeOK, clearSession \/ UNCHANGED session
    PROVE  /\ jeton' \in Jeton \cup {Aucun}
           /\ cache' \in Emails \cup {Aucun}
           /\ isLoggedIn' \in BOOLEAN
           /\ userEmail' \in Emails \cup {Aucun}
BY DEF SessionTypeOK, clearSession, session, stockage, signaux

\* net stays a Boolean.
LEMMA NetType == ASSUME Suivi PROVE net' \in BOOLEAN
BY DEF Suivi
-----------------------------------------------------------------------------
\* Sending a call other than GET /user/me through the interceptor.
LEMMA EnvoyerOK ==
    ASSUME IInv, Suivi, NEW ty \in {"login", "profil", "put", "reserver"},
           NEW e \in Emails \cup {Aucun}, ty = "put" => e \in Emails,
           numero' = numero + 1, EffetGetToken,
           vols' = vols \cup {Nouveau(ty, getToken, e)},
           UNCHANGED <<temps, email, profil, loading>>,
           saving' \in BOOLEAN, message' \in {"aucun", "succes", "erreur"}
    PROVE  IInv'
<1> DEFINE b == Nouveau(ty, getToken, e)
<1>0. /\ numero \in Nat
      /\ getToken \in Jeton \cup {Aucun}
      /\ ty \in {"login", "me", "profil", "put", "reserver"}
  BY GetTokenOK DEF IInv, SessionTypeOK
<1>1. b \in Appel /\ b.type = ty /\ b.etat = "envoye" /\ b.email = e
  BY <1>0, NouveauOK
<1> HIDE DEF b
<1>2. vols' = vols \cup {b}
  BY DEF b
<1>3. clearSession \/ UNCHANGED session
  BY DEF EffetGetToken
<1>4. SessionTypeOK'
  BY <1>1, <1>2, <1>3, SessionTypee, NetType DEF IInv, SessionTypeOK
<1>5. ConnecteSiJeton' /\ AffichageSiNet'
  BY <1>3, SessionVidee, SessionInchangee
<1>6. TousSains'
  BY <1>1, <1>2 DEF IInv, TousSains, Sain
<1>7. Courants'
  <2>1. AppelsMe(vols)' \subseteq AppelsMe(vols)
    BY <1>1, <1>2 DEF AppelsMe
  <2> QED
    BY <2>1, CourantsSuit DEF IInv
<1> QED
  BY <1>4, <1>5, <1>6, <1>7 DEF IInv

\* Steps that leave the session alone and change at most one call, which
\* keeps its kind, its token and nobody's attention but its own.
LEMMA AvanceOK ==
    ASSUME IInv, Suivi, UNCHANGED session, numero' = numero, temps' \in Nat,
           email' \in [Comptes -> Emails], NEW a \in vols, NEW b \in Appel,
           vols' \subseteq vols \cup {b}, Sain(b),
           b.type = "me" /\ b.vivant =>
              a.type = "me" /\ a.vivant /\ b.jeton = a.jeton,
           profil' \in {"absent", "charge"}, loading' \in BOOLEAN,
           saving' \in BOOLEAN, message' \in {"aucun", "succes", "erreur"}
    PROVE  IInv'
<1>1. SessionTypeOK'
  BY SessionTypee, NetType DEF IInv, SessionTypeOK
<1>2. ConnecteSiJeton' /\ AffichageSiNet'
  BY SessionInchangee
<1>3. TousSains'
  BY DEF IInv, TousSains
<1>4. Courants'
  <2>1. \A c \in AppelsMe(vols)' : \E d \in AppelsMe(vols) : d.jeton = c.jeton
    BY DEF AppelsMe
  <2> QED
    BY <2>1, CourantsSuit DEF IInv
<1> QED
  BY <1>1, <1>2, <1>3, <1>4 DEF IInv

-----------------------------------------------------------------------------
\* The forms and links that send a call.
LEMMA EnvoisOK ==
    ASSUME IInv, Suivi,
           reserver \/ \E e \in Emails : onSubmit(e) \/ sauvegarder(e)
    PROVE  IInv'
<1>1. profil \in {"absent", "charge"} /\ loading \in BOOLEAN
      /\ saving \in BOOLEAN /\ message \in {"aucun", "succes", "erreur"}
  BY DEF IInv, SessionTypeOK
<1>2. CASE reserver
  BY <1>1, <1>2, EnvoyerOK DEF reserver, Envoyer, page
<1>3. ASSUME NEW e \in Emails, onSubmit(e) PROVE IInv'
  BY <1>1, <1>3, EnvoyerOK DEF onSubmit, Envoyer, page
<1>4. ASSUME NEW e \in Emails, sauvegarder(e) PROVE IInv'
  BY <1>1, <1>4, EnvoyerOK DEF sauvegarder, Envoyer, page
<1> QED
  BY <1>2, <1>3, <1>4

\* A new profile page.
LEMMA OuvrirProfilOK == ASSUME IInv, Suivi, OuvrirProfil PROVE IInv'
<1> DEFINE b == Nouveau("profil", getToken, Aucun)
           f(a) == IF a.type \in {"profil", "put"} THEN [a EXCEPT !.vivant = FALSE]
                   ELSE a
<1>1. /\ numero \in Nat
      /\ getToken \in Jeton \cup {Aucun}
  BY GetTokenOK DEF IInv, SessionTypeOK
<1>2. b \in Appel /\ b.type = "profil" /\ b.etat = "envoye"
  BY <1>1, NouveauOK
<1>3. ASSUME NEW a \in vols
      PROVE  /\ f(a) \in Appel /\ Sain(f(a))
             /\ f(a).type = "me" /\ f(a).vivant => f(a) = a
  <2>1. a \in Appel /\ Sain(a)
    BY DEF IInv, SessionTypeOK, TousSains
  <2>2. CASE a.type \in {"profil", "put"}
    BY <2>1, <2>2, MortOK
  <2>3. CASE a.type \notin {"profil", "put"}
    BY <2>1, <2>3
  <2> QED
    BY <2>2, <2>3
<1>4. vols' = {f(a) : a \in vols} \cup {b}
  BY DEF OuvrirProfil
<1> HIDE DEF b, f
<1>5. clearSession \/ UNCHANGED session
  BY DEF OuvrirProfil, EffetGetToken
<1>6. vols' \subseteq Appel
  BY <1>2, <1>3, <1>4
<1>7. SessionTypeOK'
  <2>1. /\ jeton' \in Jeton \cup {Aucun}
        /\ cache' \in Emails \cup {Aucun}
        /\ isLoggedIn' \in BOOLEAN
        /\ userEmail' \in Emails \cup {Aucun}
        /\ net' \in BOOLEAN
    BY <1>5, SessionTypee, NetType DEF IInv
  <2>2. /\ temps' \in Nat /\ email' \in [Comptes -> Emails] /\ numero' \in Nat
        /\ profil' = "absent" /\ loading' = TRUE /\ saving' = FALSE
        /\ message' = "aucun"
    BY DEF IInv, SessionTypeOK, OuvrirProfil
  <2> QED
    BY <1>6, <2>1, <2>2 DEF SessionTypeOK
<1>8. ConnecteSiJeton' /\ AffichageSiNet'
  BY <1>5, SessionVidee, SessionInchangee
<1>9. TousSains'
  <2>1. Sain(b)
    BY <1>2 DEF Sain
  <2> QED
    BY <1>3, <1>4, <2>1 DEF TousSains
<1>10. Courants'
  <2>1. AppelsMe(vols)' \subseteq AppelsMe(vols)
    BY <1>2, <1>3, <1>4 DEF AppelsMe
  <2> QED
    BY <2>1, CourantsSuit DEF IInv
<1> QED
  BY <1>7, <1>8, <1>9, <1>10 DEF IInv

\* The end of a session by hand.
LEMMA LogoutOK == ASSUME IInv, Suivi, logout PROVE IInv'
<1>1. SessionTypeOK'
  BY SessionTypee, NetType DEF IInv, SessionTypeOK, logout, page
<1>2. ConnecteSiJeton' /\ AffichageSiNet'
  BY SessionVidee DEF logout
<1>3. TousSains'
  BY DEF IInv, TousSains, logout
<1>4. Courants'
  BY CourantsSuit DEF IInv, logout, AppelsMe
<1> QED
  BY <1>1, <1>2, <1>3, <1>4 DEF IInv

\* The answer to a login.
LEMMA RecevoirLoginOK ==
    ASSUME IInv, Suivi, NEW a \in vols, RecevoirLogin(a)
    PROVE  IInv'
<1>1. CASE a.etat = "401"
  <2>1. a \in Appel /\ Sain(a)
    BY DEF IInv, SessionTypeOK, TousSains
  <2>2. vols' \subseteq vols \cup {a} /\ UNCHANGED <<session, numero, temps, email, page>>
    BY <1>1 DEF RecevoirLogin
  <2> QED
    BY <2>1, <2>2, AvanceOK DEF IInv, SessionTypeOK, page
<1>2. CASE a.etat = "200"
  <2> DEFINE t == IF isTokenExpired(a.jeton) THEN Aucun ELSE a.jeton
             b == Nouveau("me", t, Aucun)
  <2>1. a.jeton \in Jeton /\ numero \in Nat
    BY <1>2 DEF IInv, SessionTypeOK, TousSains, Sain, RecevoirLogin
  <2>2. t \in Jeton \cup {Aucun}
    BY <2>1
  <2>3. b \in Appel /\ b.etat = "envoye" /\ b.type = "me" /\ b.jeton = t
    BY <2>1, <2>2, NouveauOK
  <2>4. vols' = (vols \ {a}) \cup {b} /\ jeton' = t
    BY <1>2 DEF RecevoirLogin, handleLoginSuccess, clearSession
  <2>5. UNCHANGED <<temps, email, page>> /\ numero' = numero + 1
    BY <1>2 DEF RecevoirLogin, handleLoginSuccess
  <2>6. \/ clearSession
        \/ jeton' = a.jeton /\ isLoggedIn' = TRUE /\ UNCHANGED <<cache, userEmail>>
    BY <1>2 DEF RecevoirLogin, handleLoginSuccess
  <2> HIDE DEF t, b
  <2>7. net' => net /\ jeton = Aucun
    BY <1>2 DEF Suivi
  <2>8. SessionTypeOK'
    <3>1. /\ jeton' \in Jeton \cup {Aucun}
          /\ cache' \in Emails \cup {Aucun}
          /\ isLoggedIn' \in BOOLEAN
          /\ userEmail' \in Emails \cup {Aucun}
      <4>1. CASE clearSession
        BY <4>1, SessionTypee DEF IInv
      <4>2. CASE ~clearSession
        BY <2>1, <2>6, <4>2 DEF IInv, SessionTypeOK
      <4> QED
        BY <4>1, <4>2
    <3>2. net' \in BOOLEAN
      BY NetType
    <3> QED
      BY <2>3, <2>4, <2>5, <3>1, <3>2 DEF IInv, SessionTypeOK, page
  <2>9. ConnecteSiJeton' /\ AffichageSiNet'
    <3>1. CASE clearSession
      BY <3>1, SessionVidee
    <3>2. CASE jeton' = a.jeton /\ isLoggedIn' = TRUE /\ UNCHANGED <<cache, userEmail>>
      BY <2>1, <2>7, <3>2, SessionAssumption
         DEF IInv, ConnecteSiJeton, AffichageSiNet, Jeton
    <3> QED
      BY <2>6, <3>1, <3>2
  <2>10. TousSains'
    BY <2>3, <2>4 DEF IInv, TousSains, Sain
  <2>11. Courants'
    <3>1. jeton' = jeton => \A c \in AppelsMe(vols)' : c.jeton = jeton \/ c \in AppelsMe(vols)
      BY <2>3, <2>4 DEF AppelsMe
    <3> QED
      BY <3>1, CourantsSuit DEF IInv
  <2> QED
    BY <2>8, <2>9, <2>10, <2>11 DEF IInv
<1> QED
  BY <1>1, <1>2 DEF RecevoirLogin

\* The answer to GET /user/me.
LEMMA RecevoirMeOK ==
    ASSUME IInv, Suivi, NEW a \in vols, RecevoirMe(a)
    PROVE  IInv'
<1>1. vols' = vols \ {a} /\ UNCHANGED <<temps, email, numero, page>>
  BY DEF RecevoirMe
<1>2. TousSains' /\ Courants'
  <2>1. AppelsMe(vols)' \subseteq AppelsMe(vols)
    BY <1>1 DEF AppelsMe
  <2> QED
    BY <1>1, <2>1, CourantsSuit DEF IInv, TousSains
<1>3. CASE a.etat = "401"
  <2>1. clearSession
    BY <1>3 DEF RecevoirMe, EchecMe
  <2>2. SessionTypeOK'
    BY <1>1, <2>1, SessionTypee, NetType DEF IInv, SessionTypeOK, page
  <2> QED
    BY <1>2, <2>1, <2>2, SessionVidee DEF IInv
<1>4. CASE a.etat = "200"
  <2>1. userEmail' = a.email /\ cache' = a.email /\ UNCHANGED <<jeton, isLoggedIn>>
    BY <1>4 DEF RecevoirMe
  <2>2. a.jeton # Aucun /\ a.email = a.jeton.email /\ a \in Appel
    BY <1>4 DEF IInv, TousSains, Sain, RecevoirMe, SessionTypeOK
  <2>3. a.email \in Emails \cup {Aucun}
    BY <2>2 DEF Appel
  <2>4. SessionTypeOK'
    BY <1>1, <2>1, <2>3, NetType DEF IInv, SessionTypeOK, page
  <2>5. net' => net /\ a.jeton = jeton
    BY DEF Suivi, IInv, Courants, AppelsMe, RecevoirMe
  <2>6. ConnecteSiJeton' /\ AffichageSiNet'
    BY <2>1, <2>2, <2>5 DEF IInv, ConnecteSiJeton, AffichageSiNet
  <2> QED
    BY <1>2, <2>4, <2>6 DEF IInv
<1> QED
  BY <1>3, <1>4 DEF RecevoirMe

\* The browser loads the application again.
LEMMA RechargerOK == ASSUME IInv, Suivi, Recharger PROVE IInv'
<1> DEFINE f(a) == [a EXCEPT !.vivant = FALSE]
           anciens == {f(a) : a \in vols}
           b == Nouveau("me", jeton, Aucun)
<1>1. ASSUME NEW a \in vols PROVE f(a) \in Appel /\ Sain(f(a)) /\ ~f(a).vivant
  BY MortOK DEF IInv, SessionTypeOK, TousSains
<1>2. numero \in Nat /\ jeton \in Jeton \cup {Aucun}
  BY DEF IInv, SessionTypeOK
<1>3. b \in Appel /\ b.type = "me" /\ b.etat = "envoye" /\ b.jeton = jeton
  BY <1>2, NouveauOK
<1>4. \/ /\ getToken # Aucun /\ vols' = anciens \cup {b}
         /\ isLoggedIn' = TRUE /\ userEmail' = cache /\ numero' = numero + 1
         /\ UNCHANGED <<jeton, cache>>
      \/ /\ getToken = Aucun /\ vols' = anciens /\ jeton' = Aucun
         /\ cache' = (IF jeton # Aucun THEN Aucun ELSE cache)
         /\ isLoggedIn' = FALSE /\ userEmail' = Aucun /\ numero' = numero
  BY DEF Recharger, stockage
<1> HIDE DEF f, b
<1>5. vols' \subseteq Appel
  BY <1>1, <1>3, <1>4
<1>6. SessionTypeOK'
  <2>1. /\ temps' \in Nat /\ email' \in [Comptes -> Emails]
        /\ profil' = "absent" /\ loading' = FALSE /\ saving' = FALSE
        /\ message' = "aucun"
    BY DEF IInv, SessionTypeOK, Recharger
  <2>2. /\ jeton' \in Jeton \cup {Aucun}
        /\ cache' \in Emails \cup {Aucun}
        /\ isLoggedIn' \in BOOLEAN
        /\ userEmail' \in Emails \cup {Aucun}
        /\ numero' \in Nat
    <3>1. /\ jeton' \in {jeton, Aucun} /\ cache' \in {cache, Aucun}
          /\ userEmail' \in {cache, Aucun} /\ isLoggedIn' \in BOOLEAN
          /\ numero' \in {numero, numero + 1}
      BY <1>4
    <3> QED
      BY <3>1 DEF IInv, SessionTypeOK
  <2> QED
    BY <1>5, <2>1, <2>2, NetType DEF SessionTypeOK
<1>7. ConnecteSiJeton' /\ AffichageSiNet'
  <2>1. getToken # Aucun => jeton # Aucun
    BY DEF getToken
  <2>2. net' => net
    BY DEF Suivi
  <2> QED
    BY <1>4, <2>1, <2>2 DEF IInv, ConnecteSiJeton, AffichageSiNet
<1>8. TousSains'
  <2>1. Sain(b)
    BY <1>3 DEF Sain
  <2> QED
    BY <1>1, <1>4, <2>1 DEF TousSains
<1>9. Courants'
  <2>1. \A c \in AppelsMe(vols)' : c.jeton = jeton
    BY <1>1, <1>3, <1>4 DEF AppelsMe
  <2> QED
    BY <2>1, CourantsSuit DEF IInv
<1> QED
  BY <1>6, <1>7, <1>8, <1>9 DEF IInv

\* The back end answers, the clock ticks, the network fails, the pages get
\* their answers: the session stays.
LEMMA AutresOK ==
    ASSUME IInv, Suivi,
           \/ Tick
           \/ \E c \in Comptes, e \in Emails : ModifierAilleurs(c, e)
           \/ \E a \in vols :
                 \/ RecevoirPage(a) \/ RecevoirReserver(a) \/ ServirLogin(a)
                 \/ ServirLecture(a) \/ ServirPutCharge(a) \/ ServirPutFlush(a)
                 \/ Echouer(a) \/ Oublier(a)
    PROVE  IInv'
<1>0. /\ temps \in Nat /\ email \in [Comptes -> Emails]
      /\ profil \in {"absent", "charge"} /\ loading \in BOOLEAN
      /\ saving \in BOOLEAN /\ message \in {"aucun", "succes", "erreur"}
      /\ \A a \in vols : a \in Appel /\ Sain(a)
  BY DEF IInv, SessionTypeOK, TousSains
<1>1. ASSUME vols' = vols, UNCHANGED <<session, numero, page>>,
             temps' \in Nat, email' \in [Comptes -> Emails]
      PROVE  IInv'
  <2>1. SessionTypeOK'
    BY <1>1, NetType DEF IInv, SessionTypeOK, session, stockage, signaux, page
  <2>2. TousSains' /\ Courants'
    BY <1>1, CourantsSuit DEF IInv, TousSains, AppelsMe
  <2> QED
    BY <1>1, <2>1, <2>2, SessionInchangee DEF IInv
<1>2. CASE Tick
  BY <1>0, <1>1, <1>2 DEF Tick
<1>3. ASSUME NEW c \in Comptes, NEW e \in Emails, ModifierAilleurs(c, e)
      PROVE  IInv'
  BY <1>0, <1>1, <1>3 DEF ModifierAilleurs
<1>4. ASSUME NEW a \in vols, RecevoirPage(a) \/ RecevoirReserver(a) \/ Oublier(a)
      PROVE  IInv'
  <2>1. /\ vols' \subseteq vols \cup {a}
        /\ UNCHANGED <<session, numero, temps, email>>
    BY <1>4 DEF RecevoirPage, RecevoirReserver, Oublier
  <2>2. /\ profil' \in {"absent", "charge"} /\ loading' \in BOOLEAN
        /\ saving' \in BOOLEAN /\ message' \in {"aucun", "succes", "erreur"}
    BY <1>0, <1>4 DEF RecevoirPage, RecevoirReserver, Oublier, RappelProfil, RappelPut, page
  <2> QED
    BY <1>0, <2>1, <2>2, AvanceOK
<1>5. ASSUME NEW a \in vols, NEW b \in Appel, Avance(a, b), Sain(b),
             b.type = "me" /\ b.vivant =>
                a.type = "me" /\ a.vivant /\ b.jeton = a.jeton,
             UNCHANGED <<temps, session, numero, page>>,
             email' \in [Comptes -> Emails]
      PROVE  IInv'
  <2>1. vols' \subseteq vols \cup {b}
    BY <1>5 DEF Avance
  <2> QED
    BY <1>0, <1>5, <2>1, AvanceOK DEF page
<1>6. ASSUME NEW a \in vols, ServirLogin(a) PROVE IInv'
  <2>1. ASSUME Avance(a, [a EXCEPT !.etat = "401"]) PROVE IInv'
    <3> DEFINE b == [a EXCEPT !.etat = "401"]
    <3>1. Avance(a, b)
      BY <2>1
    <3>2. /\ b \in Appel /\ b.type = a.type /\ b.etat = "401" /\ b.vivant = a.vivant
          /\ b.jeton = a.jeton /\ b.email = a.email
      BY <1>0, EtatOK
    <3> HIDE DEF b
    <3>3. Sain(b)
      BY <1>0, <1>6, <3>2 DEF ServirLogin, Sain
    <3>4. UNCHANGED <<temps, session, numero, page>> /\ UNCHANGED email
      BY <1>6 DEF ServirLogin
    <3> QED
      BY <1>0, <1>5, <3>1, <3>2, <3>3, <3>4
  <2>2. ASSUME \E c \in Comptes : email[c] = a.email,
               Avance(a, [a EXCEPT !.etat = "200",
                             !.jeton = [email |-> a.email, exp |-> Exp]])
        PROVE  IInv'
    <3> DEFINE t == [email |-> a.email, exp |-> Exp]
               b == [a EXCEPT !.etat = "200", !.jeton = t]
    <3>1. t \in Jeton
      BY <1>0, <2>2, SessionAssumption DEF Jeton, Exp
    <3> HIDE DEF t
    <3>2. b \in Appel /\ b.type = a.type /\ b.etat = "200" /\ b.jeton = t
      BY <1>0, <3>1 DEF Appel
    <3>3. Avance(a, b)
      BY <2>2 DEF t
    <3> HIDE DEF b
    <3>4. a.type = "login" /\ UNCHANGED <<temps, email, session, numero, page>>
      BY <1>6 DEF ServirLogin
    <3>5. Sain(b)
      BY <3>1, <3>2, <3>4 DEF Sain
    <3> QED
      BY <1>0, <1>5, <3>2, <3>3, <3>4, <3>5
  <2> QED
    BY <1>6, <2>1, <2>2 DEF ServirLogin
<1>7. ASSUME NEW a \in vols, ServirLecture(a) PROVE IInv'
  <2>0. /\ a.type \in {"me", "profil", "reserver"}
        /\ UNCHANGED <<temps, email, session, numero, page>>
    BY <1>7 DEF ServirLecture
  <2>1. CASE Identifies(a.jeton) = {}
    <3> DEFINE b == [a EXCEPT !.etat = "401"]
    <3>1. Avance(a, b)
      BY <1>7, <2>1 DEF ServirLecture
    <3>2. /\ b \in Appel /\ b.type = a.type /\ b.etat = "401" /\ b.vivant = a.vivant
          /\ b.jeton = a.jeton /\ b.email = a.email
      BY <1>0, EtatOK
    <3> HIDE DEF b
    <3>3. Sain(b)
      BY <1>0, <2>0, <3>2 DEF Sain
    <3> QED
      BY <1>0, <1>5, <2>0, <3>1, <3>2, <3>3
  <2>2. CASE Identifies(a.jeton) # {}
    <3> DEFINE b == [a EXCEPT !.etat = "200", !.email = a.jeton.email]
    <3>1. Avance(a, b)
      BY <1>7, <2>2 DEF ServirLecture
    <3>2. a.jeton # Aucun /\ a.jeton \in Jeton
      BY <1>0, <2>2 DEF Identifies, Appel
    <3>3. a.jeton.email \in Emails
      BY <3>2 DEF Jeton
    <3>4. /\ b \in Appel /\ b.type = a.type /\ b.etat = "200" /\ b.vivant = a.vivant
          /\ b.jeton = a.jeton /\ b.email = a.jeton.email
      BY <1>0, <3>3 DEF Appel
    <3> HIDE DEF b
    <3>5. Sain(b)
      BY <2>0, <3>2, <3>4 DEF Sain
    <3> QED
      BY <1>0, <1>5, <2>0, <3>1, <3>4, <3>5
  <2> QED
    BY <2>1, <2>2
<1>8. ASSUME NEW a \in vols, ServirPutCharge(a) PROVE IInv'
  <2>0. /\ a.type = "put" /\ a.email \in Emails
        /\ UNCHANGED <<temps, email, session, numero, page>>
    BY <1>0, <1>8 DEF ServirPutCharge, Sain
  <2>1. ASSUME Avance(a, [a EXCEPT !.etat = "401"]) PROVE IInv'
    <3> DEFINE b == [a EXCEPT !.etat = "401"]
    <3>1. Avance(a, b)
      BY <2>1
    <3>2. /\ b \in Appel /\ b.type = a.type /\ b.etat = "401" /\ b.vivant = a.vivant
          /\ b.jeton = a.jeton /\ b.email = a.email
      BY <1>0, EtatOK
    <3> HIDE DEF b
    <3>3. Sain(b)
      BY <1>0, <2>0, <3>2 DEF Sain
    <3> QED
      BY <1>0, <1>5, <2>0, <3>1, <3>2, <3>3
  <2>2. ASSUME NEW c \in Comptes,
               Avance(a, [a EXCEPT !.etat = "charge", !.compte = c])
        PROVE  IInv'
    <3> DEFINE b == [a EXCEPT !.etat = "charge", !.compte = c]
    <3>1. /\ b \in Appel /\ b.type = a.type /\ b.etat = "charge"
          /\ b.compte = c /\ b.email = a.email
      BY <1>0 DEF Appel
    <3>2. Avance(a, b)
      BY <2>2
    <3> HIDE DEF b
    <3>3. Sain(b)
      BY <2>0, <3>1 DEF Sain
    <3> QED
      BY <1>0, <1>5, <2>0, <3>1, <3>2, <3>3
  <2>3. \/ Avance(a, [a EXCEPT !.etat = "401"])
        \/ \E c \in Comptes : Avance(a, [a EXCEPT !.etat = "charge", !.compte = c])
    BY <1>8 DEF ServirPutCharge, Identifies
  <2> QED
    BY <2>1, <2>2, <2>3
<1>9. ASSUME NEW a \in vols, ServirPutFlush(a) PROVE IInv'
  <2>1. /\ a.type = "put" /\ a.email \in Emails /\ a.compte \in Comptes
        /\ UNCHANGED <<temps, session, numero, page>>
    BY <1>0, <1>9 DEF ServirPutFlush, Sain
  <2>2. PICK s \in {"200", "500"} : Avance(a, [a EXCEPT !.etat = s])
    BY <1>9 DEF ServirPutFlush
  <2>3. email' \in [Comptes -> Emails]
    BY <1>0, <1>9, <2>1 DEF ServirPutFlush
  <2> DEFINE b == [a EXCEPT !.etat = s]
  <2>4. Avance(a, b)
    BY <2>2
  <2>5. /\ b \in Appel /\ b.type = a.type /\ b.etat = s /\ b.vivant = a.vivant
        /\ b.jeton = a.jeton /\ b.email = a.email
    <3>1. a \in Appel
      BY <1>0
    <3>2. s \in {"200", "401", "500"}
      OBVIOUS
    <3> QED
      BY <3>1, <3>2, EtatOK
  <2> HIDE DEF b
  <2>6. Sain(b)
    BY <1>0, <2>1, <2>5 DEF Sain
  <2> QED
    BY <1>0, <1>5, <2>1, <2>3, <2>4, <2>5, <2>6
<1>10. ASSUME NEW a \in vols, Echouer(a) PROVE IInv'
  <2>1. /\ UNCHANGED session
        /\ profil' \in {"absent", "charge"} /\ loading' \in BOOLEAN
        /\ saving' \in BOOLEAN /\ message' \in {"aucun", "succes", "erreur"}
    BY <1>0, <1>10 DEF Echouer, EchecMe, RappelProfil, RappelPut, page
  <2>2. /\ UNCHANGED <<temps, email, numero>>
        /\ Avance(a, [a EXCEPT !.vivant = FALSE])
    BY <1>10 DEF Echouer
  <2>3. /\ [a EXCEPT !.vivant = FALSE] \in Appel
        /\ Sain([a EXCEPT !.vivant = FALSE])
        /\ ~[a EXCEPT !.vivant = FALSE].vivant
    BY <1>0, MortOK
  <2>4. vols' \subseteq vols \cup {[a EXCEPT !.vivant = FALSE]}
    BY <2>2 DEF Avance
  <2> QED
    BY <1>0, <2>1, <2>2, <2>3, <2>4, AvanceOK
<1> QED
  BY <1>2, <1>3, <1>4, <1>6, <1>7, <1>8, <1>9, <1>10

-----------------------------------------------------------------------------
\* Every step keeps the invariant.
LEMMA Inductif == IInv /\ [Next]_sessionVars => IInv'
<1> SUFFICES ASSUME IInv, [Next]_sessionVars PROVE IInv'
  OBVIOUS
<1>1. CASE UNCHANGED sessionVars
  BY <1>1, SMTT(60)
     DEF IInv, SessionTypeOK, ConnecteSiJeton, AffichageSiNet, TousSains,
         Courants, AppelsMe, sessionVars, session, stockage, signaux, page
<1>2. CASE Next
  <2>1. Etape /\ Suivi
    BY <1>2 DEF Next
  <2> QED
    BY <2>1, EnvoisOK, OuvrirProfilOK, LogoutOK, RecevoirLoginOK, RecevoirMeOK,
       RechargerOK, AutresOK DEF Etape
<1> QED
  BY <1>1, <1>2

\* It holds at the start.
LEMMA Depart == Init => IInv
<1> SUFFICES ASSUME Init PROVE IInv
  OBVIOUS
<1>1. SessionTypeOK
  BY DEF Init, SessionTypeOK
<1>2. ConnecteSiJeton
  BY Zenon DEF Init, ConnecteSiJeton
<1>3. AffichageSiNet
  BY DEF Init, AffichageSiNet
<1>4. TousSains /\ Courants
  BY DEF Init, TousSains, Courants, AppelsMe
<1> QED
  BY <1>1, <1>2, <1>3, <1>4 DEF IInv

\* The session variables are typed, the navigation bar agrees with the stored
\* token, and while sessions do not run into one another the address shown and
\* the address cached are those of the session (auth.service.ts), for any
\* number of accounts, calls and failures.
THEOREM SessionCoherente ==
    SessionSpec => [](SessionTypeOK /\ ConnecteSiJeton /\ AffichageSiNet)
<1>1. IInv => SessionTypeOK /\ ConnecteSiJeton /\ AffichageSiNet
  BY DEF IInv
<1> QED
  BY <1>1, Depart, Inductif, PTL DEF SessionSpec

\* A step that ends a session has one of the three reasons of SessionFinie.
LEMMA FinDeSession ==
    ASSUME IInv, Next, net', jeton # Aucun, jeton' = Aucun
    PROVE  \/ logout
           \/ isTokenExpired(jeton)
           \/ \E a \in vols : a.etat = "401" /\ a.jeton = jeton
<1>1. Etape /\ Suivi
  BY DEF Next
<1>2. net
  BY <1>1 DEF Suivi
<1>3. ASSUME EffetGetToken PROVE isTokenExpired(jeton)
  BY <1>3 DEF EffetGetToken, session, stockage
<1>4. ASSUME jeton' = jeton PROVE FALSE
  BY <1>4
<1>5. ASSUME NEW a \in vols, RecevoirLogin(a) PROVE FALSE
  <2>1. a.etat # "200"
    BY <1>1, <1>5 DEF Suivi
  <2> QED
    BY <1>4, <1>5, <2>1 DEF RecevoirLogin, session, stockage
<1>6. ASSUME NEW a \in vols, RecevoirMe(a)
      PROVE  a.etat = "401" /\ a.jeton = jeton
  <2>1. a.jeton = jeton
    BY <1>2, <1>6 DEF IInv, Courants, AppelsMe, RecevoirMe
  <2> QED
    BY <1>4, <1>6, <2>1 DEF RecevoirMe
<1>7. ASSUME Recharger PROVE isTokenExpired(jeton)
  <2>1. getToken = Aucun
    BY <1>4, <1>7 DEF Recharger, stockage
  <2> QED
    BY <2>1 DEF getToken
<1>8. ASSUME NEW a \in vols,
             \/ RecevoirPage(a) \/ RecevoirReserver(a) \/ ServirLogin(a)
             \/ ServirLecture(a) \/ ServirPutCharge(a) \/ ServirPutFlush(a)
             \/ Echouer(a) \/ Oublier(a)
      PROVE  FALSE
  <2>1. CASE Echouer(a)
    BY <1>4, <2>1 DEF Echouer, EchecMe, session, stockage
  <2> QED
    BY <1>4, <1>8, <2>1
       DEF RecevoirPage, RecevoirReserver, ServirLogin, ServirLecture,
           ServirPutCharge, ServirPutFlush, Oublier, session, stockage
<1>9. ASSUME \/ Tick \/ \E c \in Comptes, e \in Emails : ModifierAilleurs(c, e)
      PROVE  FALSE
  BY <1>4, <1>9 DEF Tick, ModifierAilleurs, session, stockage
<1>10. ASSUME \/ reserver \/ OuvrirProfil
              \/ \E e \in Emails : onSubmit(e) \/ sauvegarder(e)
       PROVE  isTokenExpired(jeton)
  <2>1. EffetGetToken
    BY <1>10 DEF reserver, OuvrirProfil, onSubmit, sauvegarder, Envoyer
  <2> QED
    BY <1>3, <2>1
<1> QED
  BY <1>1, <1>5, <1>6, <1>7, <1>8, <1>9, <1>10 DEF Etape

\* While sessions do not run into one another, a session ends only by logout,
\* by expiry, or because its own token was refused (auth.service.ts:70).
THEOREM FinJustifiee == SessionSpec => SessionFinie
<1>1. IInv /\ [Next]_sessionVars =>
         [net' /\ jeton # Aucun /\ jeton' = Aucun =>
             \/ logout
             \/ isTokenExpired(jeton)
             \/ \E a \in vols : a.etat = "401" /\ a.jeton = jeton]_sessionVars
  BY FinDeSession
<1> QED
  BY <1>1, Depart, Inductif, PTL DEF SessionSpec, SessionFinie

-----------------------------------------------------------------------------
(***************************************************************************)
(* The catalogue screens.                                                  *)
(***************************************************************************)

EtapesEdition == {"auteurs", "categories", "flush"}

Edition == [etape : EtapesEdition, livre : Livres, choix : SUBSET Fiches,
            lus : SUBSET Fiches, touches : SUBSET Fiches]

\* The collections an edit has loaded differ from the join tables only by what
\* other requests have changed since.
Suivie(q) ==
    q.etape \in EtapesEdition =>
        /\ q.lus \subseteq Charges(q.etape)
        /\ \A f \in Charges(q.etape) :
              f \in q.touches \/ (f \in q.lus <=> <<q.livre, f>> \in lies)

\* SelectionTenue, row by row.
Tenue(l) ==
    \A f \in Fiches : f \in disputes[l] \/ (f \in voulu[l] <=> <<l, f>> \in lies)

\* The inductive invariant.
InvCatalogue ==
    /\ CatalogueTypeOK
    /\ LiensIntegres
    /\ \A w \in Workers : Suivie(req[w])
    /\ \A l \in livres : Tenue(l)

-----------------------------------------------------------------------------
\* The local variables a request holds at each stage.
LEMMA FormeRequete ==
    ASSUME NEW q \in Requete
    PROVE  /\ q.etape \in EtapesEdition => q \in Edition
           /\ q.etape = "nouveau" => q.choix \in SUBSET Fiches
           /\ q.etape \in EtapesEdition \cup {"libre", "nouveau"}
BY DEF Requete, Edition, EtapesEdition

\* What each stage has loaded.
LEMMA ChargesType ==
    /\ Charges("auteurs") = {} /\ Charges("categories") = Auteurs
    /\ Charges("flush") = Fiches /\ Charges("libre") = {} /\ Charges("nouveau") = {}
BY DEF Charges

\* The two forms of SelectionTenue are equivalent.
LEMMA Formes == CatalogueTypeOK => (SelectionTenue <=> \A l \in livres : Tenue(l))
<1> SUFFICES ASSUME CatalogueTypeOK, NEW l \in livres
             PROVE  (LET liees == LieesDans(lies, l)
                     IN  (liees \ voulu[l]) \cup (voulu[l] \ liees) \subseteq disputes[l])
                    <=> Tenue(l)
  BY DEF SelectionTenue
<1>1. voulu[l] \in SUBSET Fiches
  BY DEF CatalogueTypeOK
<1> QED
  BY <1>1 DEF LieesDans, Tenue

\* A request that starts over, or holds no collection, is followed.
LEMMA SuivieLibre == Libre \in Requete /\ Suivie(Libre)
BY DEF Libre, Requete, Suivie, EtapesEdition

\* A write of the join tables keeps every request typed and followed.
LEMMA EcrireOK ==
    ASSUME InvCatalogue, NEW w, NEW liens, Ecrire(w, liens)
    PROVE  /\ req' \in [Workers -> Requete]
           /\ \A v \in Workers : Suivie(req[v])'
<1>1. ASSUME NEW v \in Workers
      PROVE  req'[v] \in Requete /\ Suivie(req[v])'
  <2>1. req[v] \in Requete /\ Suivie(req[v])
    BY DEF InvCatalogue, CatalogueTypeOK
  <2>2. CASE v = w
    <3>1. req'[v] = Libre
      BY <2>2 DEF Ecrire
    <3> QED
      BY <3>1, SuivieLibre DEF Suivie, Libre, EtapesEdition
  <2>3. CASE v # w /\ Charges(req[v].etape) = {}
    <3>1. req'[v] = req[v]
      BY <2>3 DEF Ecrire
    <3> QED
      BY <2>1, <2>3, <3>1 DEF Suivie
  <2>4. CASE v # w /\ Charges(req[v].etape) # {}
    <3> DEFINE l == req[v].livre
               change == {f \in Charges(req[v].etape) :
                             (<<l, f>> \in lies) # (<<l, f>> \in liens)}
    <3>1. req'[v] = [req[v] EXCEPT !.touches = @ \cup change]
      BY <2>4 DEF Ecrire
    <3>2. req[v] \in Edition
      BY <2>1, <2>4, FormeRequete, ChargesType
    <3>3. Charges(req[v].etape) \subseteq Fiches
      BY <3>2, ChargesType DEF Edition, EtapesEdition, Fiches
    <3>4. change \subseteq Fiches
      BY <3>3
    <3>5. \A f \in Charges(req[v].etape) :
             f \in change \/ (<<l, f>> \in lies <=> <<l, f>> \in liens)
      OBVIOUS
    <3> HIDE DEF change
    <3>6. /\ req'[v] \in Edition /\ req'[v].etape = req[v].etape
          /\ req'[v].livre = req[v].livre /\ req'[v].lus = req[v].lus
          /\ req'[v].touches = req[v].touches \cup change
      BY <3>1, <3>2, <3>4 DEF Edition
    <3>7. req'[v] \in Requete
      BY <3>6 DEF Edition, EtapesEdition, Requete
    <3>8. lies' = liens
      BY DEF Ecrire
    <3>9. req[v].etape \in EtapesEdition
      BY <3>2 DEF Edition
    <3>10. Suivie(req[v])'
      BY <2>1, <3>5, <3>6, <3>8, <3>9 DEF Suivie
    <3> QED
      BY <3>7, <3>10
  <2> QED
    BY <2>2, <2>3, <2>4
<1>2. DOMAIN req' = Workers /\ req' = [v \in Workers |-> req'[v]]
  BY DEF Ecrire
<1> QED
  BY <1>1, <1>2

\* The step of one worker that only changes its own request.
LEMMA EtapeOK ==
    ASSUME InvCatalogue, NEW w \in Workers, NEW q \in Requete, Suivie(q),
           req' = [req EXCEPT ![w] = q], UNCHANGED <<tables, voulu, disputes>>
    PROVE  InvCatalogue'
<1>1. CatalogueTypeOK' /\ LiensIntegres'
  BY DEF InvCatalogue, CatalogueTypeOK, LiensIntegres, tables
<1>2. \A l \in livres' : Tenue(l)'
  BY DEF InvCatalogue, Tenue, tables
<1>3. \A v \in Workers : req'[v] = IF v = w THEN q ELSE req[v]
  BY DEF InvCatalogue, CatalogueTypeOK
<1>4. \A v \in Workers : Suivie(req[v])'
  BY <1>3 DEF InvCatalogue, Suivie, tables
<1> QED
  BY <1>1, <1>2, <1>4 DEF InvCatalogue

-----------------------------------------------------------------------------
(***************************************************************************)
(* One lemma per action.                                                   *)
(***************************************************************************)

\* The fixtures.
LEMMA CatalogueDepart == CatalogueInit => InvCatalogue
<1> SUFFICES ASSUME CatalogueInit PROVE InvCatalogue
  OBVIOUS
<1>1. lies \subseteq Livres \X Fiches
  BY DEF CatalogueInit
<1>2. voulu \in [Livres -> SUBSET Fiches] /\ disputes \in [Livres -> SUBSET Fiches]
  BY DEF CatalogueInit, LieesDans
<1>3. req \in [Workers -> Requete] /\ \A w \in Workers : Suivie(req[w])
  BY SuivieLibre DEF CatalogueInit
<1>4. CatalogueTypeOK /\ LiensIntegres
  BY <1>1, <1>2, <1>3 DEF CatalogueInit, CatalogueTypeOK, LiensIntegres
<1>5. \A l \in livres : Tenue(l)
  BY DEF CatalogueInit, Tenue, LieesDans
<1> QED
  BY <1>3, <1>4, <1>5 DEF InvCatalogue

\* A form for a new book is submitted.
LEMMA NouveauDebutOK ==
    ASSUME InvCatalogue, NEW w \in Workers, NEW choix \in SUBSET Fiches,
           NouveauDebut(w, choix)
    PROVE  InvCatalogue'
<1> DEFINE q == [etape |-> "nouveau", choix |-> choix]
<1>1. q \in Requete /\ Suivie(q)
  BY DEF Requete, Suivie, EtapesEdition
<1>2. req' = [req EXCEPT ![w] = q] /\ UNCHANGED <<tables, voulu, disputes>>
  BY DEF NouveauDebut
<1> HIDE DEF q
<1> QED
  BY <1>1, <1>2, EtapeOK

\* The new book is inserted with its links, or nothing is.
LEMMA NouveauFlushOK ==
    ASSUME InvCatalogue, NEW w \in Workers, NouveauFlush(w)
    PROVE  InvCatalogue'
<1> DEFINE choix == req[w].choix
<1>1. choix \in SUBSET Fiches
  BY FormeRequete DEF InvCatalogue, CatalogueTypeOK, NouveauFlush
<1>2. CASE ~(choix \subseteq fiches)
  <2>1. req' = [req EXCEPT ![w] = Libre] /\ UNCHANGED <<tables, voulu, disputes>>
    BY <1>2 DEF NouveauFlush
  <2> QED
    BY <2>1, SuivieLibre, EtapeOK
<1>3. CASE choix \subseteq fiches
  <2>1. PICK l \in neufs \cap Livres :
           /\ livres' = livres \cup {l} /\ neufs' = neufs \ {l}
           /\ Ecrire(w, lies \cup ({l} \X choix))
           /\ voulu' = [voulu EXCEPT ![l] = choix]
           /\ UNCHANGED <<fiches, disputes>>
    BY <1>3 DEF NouveauFlush
  <2>2. req' \in [Workers -> Requete] /\ \A v \in Workers : Suivie(req[v])'
    BY <2>1, EcrireOK
  <2>3. lies' = lies \cup ({l} \X choix)
    BY <2>1 DEF Ecrire
  <2> HIDE DEF choix
  <2>4. CatalogueTypeOK' /\ LiensIntegres'
    BY <1>1, <1>3, <2>1, <2>2, <2>3 DEF InvCatalogue, CatalogueTypeOK, LiensIntegres
  <2>5. l \notin livres
    BY <2>1 DEF InvCatalogue, CatalogueTypeOK
  <2>6. ASSUME NEW m \in livres' PROVE Tenue(m)'
    <3>1. CASE m = l
      <4>1. voulu'[l] = choix
        BY <2>1 DEF InvCatalogue, CatalogueTypeOK
      <4>2. \A f \in Fiches : <<l, f>> \in lies' <=> f \in choix
        BY <2>3, <2>5 DEF InvCatalogue, LiensIntegres
      <4> QED
        BY <3>1, <4>1, <4>2 DEF Tenue
    <3>2. CASE m # l
      <4>1. m \in livres /\ voulu'[m] = voulu[m] /\ disputes'[m] = disputes[m]
        BY <2>1, <3>2 DEF InvCatalogue, CatalogueTypeOK
      <4>2. \A f \in Fiches : <<m, f>> \in lies' <=> <<m, f>> \in lies
        BY <2>3, <3>2
      <4> QED
        BY <4>1, <4>2 DEF InvCatalogue, Tenue
    <3> QED
      BY <3>1, <3>2
  <2> QED
    BY <2>2, <2>4, <2>6 DEF InvCatalogue
<1> QED
  BY <1>2, <1>3

\* An edit form is submitted.
LEMMA EditDebutOK ==
    ASSUME InvCatalogue, NEW w \in Workers, NEW l \in Livres,
           NEW choix \in SUBSET Fiches, EditDebut(w, l, choix)
    PROVE  InvCatalogue'
<1> DEFINE q == [etape |-> "auteurs", livre |-> l, choix |-> choix,
                 lus |-> {}, touches |-> {}]
<1>1. q \in Requete
  BY DEF Requete
<1>2. q.etape = "auteurs" /\ q.lus = {}
  OBVIOUS
<1>3. req' = [req EXCEPT ![w] = q] /\ UNCHANGED <<tables, voulu, disputes>>
  BY DEF EditDebut
<1> HIDE DEF q
<1>4. Suivie(q)
  BY <1>2, ChargesType DEF Suivie
<1> QED
  BY <1>1, <1>3, <1>4, EtapeOK

\* A field loads its collection: what it holds then is what is linked.
LEMMA EditChampOK ==
    ASSUME InvCatalogue, NEW w \in Workers, EditChamp(w)
    PROVE  InvCatalogue'
<1> DEFINE q == req[w]
           champ == Champ(q.etape)
           suivante == IF q.etape = "auteurs" THEN "categories" ELSE "flush"
           charge == LieesDans(lies, q.livre) \cap champ
           r == [q EXCEPT !.etape = suivante, !.lus = @ \cup charge]
<1>1. q \in Edition /\ Suivie(q) /\ q.etape \in {"auteurs", "categories"}
  BY FormeRequete DEF InvCatalogue, CatalogueTypeOK, EditChamp, EtapesEdition
<1>2. UNCHANGED <<tables, voulu, disputes>>
  BY DEF EditChamp
<1>3. CASE ~((q.choix \cap champ) \subseteq fiches)
  <2>1. req' = [req EXCEPT ![w] = Libre]
    BY <1>3 DEF EditChamp
  <2> QED
    BY <1>2, <2>1, SuivieLibre, EtapeOK
<1>4. CASE (q.choix \cap champ) \subseteq fiches
  <2>1. req' = [req EXCEPT ![w] = r]
    BY <1>4 DEF EditChamp
  <2>2. charge \subseteq Fiches /\ suivante \in EtapesEdition
    BY DEF LieesDans, EtapesEdition
  <2>3. \A f \in champ \cap Fiches : f \in charge <=> <<q.livre, f>> \in lies
    BY DEF LieesDans
  <2>4. charge \subseteq champ
    OBVIOUS
  <2> HIDE DEF charge
  <2>5. /\ r \in Edition /\ r.etape = suivante /\ r.livre = q.livre
        /\ r.lus = q.lus \cup charge /\ r.touches = q.touches
    BY <1>1, <2>2 DEF Edition
  <2> HIDE DEF r
  <2>6. r \in Requete
    BY <2>5 DEF Edition, EtapesEdition, Requete
  <2>7. Suivie(r)
    <3>1. CASE q.etape = "auteurs"
      <4>1. q.lus = {}
        BY <1>1, <3>1, ChargesType DEF Suivie, EtapesEdition
      <4>2. champ = Auteurs /\ r.etape = "categories" /\ Charges(r.etape) = Auteurs
        BY <2>5, <3>1, ChargesType DEF Champ
      <4>3. r.lus = charge
        BY <2>5, <4>1
      <4> QED
        BY <2>3, <2>4, <2>5, <4>2, <4>3 DEF Suivie, Fiches
    <3>2. CASE q.etape = "categories"
      <4>1. /\ q.lus \subseteq Auteurs
            /\ \A f \in Auteurs : f \in q.touches
                                  \/ (f \in q.lus <=> <<q.livre, f>> \in lies)
        BY <1>1, <3>2, ChargesType DEF Suivie, EtapesEdition
      <4>2. champ = Categories /\ r.etape = "flush" /\ Charges(r.etape) = Fiches
        BY <2>5, <3>2, ChargesType DEF Champ
      <4>3. r.lus \subseteq Fiches
        BY <2>5 DEF Edition
      <4>4. ASSUME NEW f \in Fiches
            PROVE  f \in r.touches \/ (f \in r.lus <=> <<r.livre, f>> \in lies)
        BY <2>3, <2>4, <2>5, <4>1, <4>2, CatalogueAssumption DEF Fiches
      <4> QED
        BY <4>2, <4>3, <4>4 DEF Suivie
    <3> QED
      BY <1>1, <3>1, <3>2
  <2> QED
    BY <1>2, <2>1, <2>6, <2>7, EtapeOK
<1> QED
  BY <1>3, <1>4

\* flush() of an edit: the two join tables take the selection, except for what
\* was touched since the collections were loaded.
LEMMA EditFlushOK ==
    ASSUME InvCatalogue, NEW w \in Workers, EditFlush(w)
    PROVE  InvCatalogue'
<1> DEFINE q == req[w]
           l == q.livre
           liens == (lies \ ({l} \X Retirees(q))) \cup ({l} \X Ajoutees(q))
<1>1. q \in Edition /\ Suivie(q) /\ q.etape = "flush"
  BY FormeRequete DEF InvCatalogue, CatalogueTypeOK, EditFlush, EtapesEdition
<1>2. UNCHANGED <<livres, fiches, neufs>>
  BY DEF EditFlush
<1>3. CASE ~ClesOk(q)
  <2>1. req' = [req EXCEPT ![w] = Libre] /\ UNCHANGED <<lies, voulu, disputes>>
    BY <1>3 DEF EditFlush
  <2>2. UNCHANGED <<tables, voulu, disputes>>
    BY <1>2, <2>1 DEF tables
  <2> QED
    BY <2>1, <2>2, SuivieLibre, EtapeOK
<1>4. CASE ClesOk(q)
  <2>1. /\ Ecrire(w, liens)
        /\ voulu' = [voulu EXCEPT ![l] = q.choix]
        /\ disputes' = [disputes EXCEPT ![l] = q.touches]
    BY <1>4 DEF EditFlush
  <2>2. req' \in [Workers -> Requete] /\ \A v \in Workers : Suivie(req[v])'
    BY <2>1, EcrireOK
  <2>3. lies' = liens
    BY <2>1 DEF Ecrire
  <2>4. l \in Livres /\ q.choix \in SUBSET Fiches /\ q.touches \in SUBSET Fiches
    BY <1>1 DEF Edition
  <2>5. \A f \in Fiches : f \in q.touches \/ (f \in q.lus <=> <<l, f>> \in lies)
    BY <1>1, ChargesType DEF Suivie, EtapesEdition
  <2>6. Retirees(q) = q.lus \ q.choix /\ Ajoutees(q) = q.choix \ q.lus
    BY DEF Retirees, Ajoutees
  <2>7. {l} \X Ajoutees(q) \subseteq livres \X fiches
    BY <1>4 DEF ClesOk
  <2> HIDE DEF q, l
  <2>8. LiensIntegres'
    BY <1>2, <2>3, <2>7 DEF InvCatalogue, LiensIntegres
  <2>9. CatalogueTypeOK'
    <3>1. lies' \subseteq Livres \X Fiches
      BY <1>2, <2>8 DEF LiensIntegres, InvCatalogue, CatalogueTypeOK
    <3>2. voulu' \in [Livres -> SUBSET Fiches] /\ disputes' \in [Livres -> SUBSET Fiches]
      BY <2>1, <2>4 DEF InvCatalogue, CatalogueTypeOK
    <3> QED
      BY <1>2, <2>2, <3>1, <3>2 DEF InvCatalogue, CatalogueTypeOK
  <2>10. ASSUME NEW m \in livres' PROVE Tenue(m)'
    <3>1. CASE m = l
      <4>1. voulu'[l] = q.choix /\ disputes'[l] = q.touches
        BY <2>1, <2>4 DEF InvCatalogue, CatalogueTypeOK
      <4>2. \A f \in Fiches :
               <<l, f>> \in lies' <=> \/ <<l, f>> \in lies /\ ~(f \in q.lus /\ f \notin q.choix)
                                      \/ f \in q.choix /\ f \notin q.lus
        BY <2>3, <2>6
      <4> QED
        BY <2>5, <3>1, <4>1, <4>2 DEF Tenue
    <3>2. CASE m # l
      <4>1. m \in livres /\ voulu'[m] = voulu[m] /\ disputes'[m] = disputes[m]
        BY <1>2, <2>1, <3>2 DEF InvCatalogue, CatalogueTypeOK
      <4>2. \A f \in Fiches : <<m, f>> \in lies' <=> <<m, f>> \in lies
        BY <2>3, <3>2
      <4> QED
        BY <4>1, <4>2 DEF InvCatalogue, Tenue
    <3> QED
      BY <3>1, <3>2
  <2> QED
    BY <2>2, <2>8, <2>9, <2>10 DEF InvCatalogue
<1> QED
  BY <1>3, <1>4

\* A new author or category is linked to nothing.
LEMMA CreerFicheOK ==
    ASSUME InvCatalogue, NEW f \in Fiches, CreerFiche(f)
    PROVE  InvCatalogue'
<1>1. CatalogueTypeOK' /\ LiensIntegres'
  BY DEF CreerFiche, InvCatalogue, CatalogueTypeOK, LiensIntegres
<1>2. \A w \in Workers : Suivie(req[w])'
  BY DEF CreerFiche, InvCatalogue, Suivie
<1>3. \A l \in livres' : Tenue(l)'
  BY DEF CreerFiche, InvCatalogue, Tenue
<1> QED
  BY <1>1, <1>2, <1>3 DEF InvCatalogue

\* A deleted author or category leaves every book, and is disputed in each.
LEMMA SupprFicheOK ==
    ASSUME InvCatalogue, NEW f \in Fiches, SupprFiche(f)
    PROVE  InvCatalogue'
<1>1. /\ Ecrire("aucun", lies \ (Livres \X {f})) /\ fiches' = fiches \ {f}
      /\ disputes' = [l \in Livres |-> disputes[l] \cup {f}]
      /\ UNCHANGED <<livres, neufs, voulu>>
  BY DEF SupprFiche
<1>2. req' \in [Workers -> Requete] /\ \A v \in Workers : Suivie(req[v])'
  BY <1>1, EcrireOK
<1>3. lies' = lies \ (Livres \X {f})
  BY <1>1 DEF Ecrire
<1>4. disputes' \in [Livres -> SUBSET Fiches]
  BY <1>1 DEF InvCatalogue, CatalogueTypeOK
<1>5. CatalogueTypeOK'
  BY <1>1, <1>2, <1>3, <1>4 DEF InvCatalogue, CatalogueTypeOK
<1>6. LiensIntegres'
  BY <1>1, <1>3 DEF InvCatalogue, CatalogueTypeOK, LiensIntegres
<1>7. ASSUME NEW m \in livres' PROVE Tenue(m)'
  <2>1. m \in livres /\ m \in Livres
    BY <1>1 DEF InvCatalogue, CatalogueTypeOK
  <2>2. voulu'[m] = voulu[m] /\ disputes'[m] = disputes[m] \cup {f}
    BY <1>1, <2>1
  <2>3. \A g \in Fiches : g # f => (<<m, g>> \in lies' <=> <<m, g>> \in lies)
    BY <1>3
  <2> QED
    BY <2>1, <2>2, <2>3 DEF InvCatalogue, Tenue
<1> QED
  BY <1>2, <1>5, <1>6, <1>7 DEF InvCatalogue

\* A deleted book takes its links along and no other.
LEMMA SupprLivreOK ==
    ASSUME InvCatalogue, NEW l \in Livres, SupprLivre(l)
    PROVE  InvCatalogue'
<1>1. /\ Ecrire("aucun", lies \ ({l} \X Fiches)) /\ livres' = livres \ {l}
      /\ UNCHANGED <<fiches, neufs, voulu, disputes>>
  BY DEF SupprLivre
<1>2. req' \in [Workers -> Requete] /\ \A v \in Workers : Suivie(req[v])'
  BY <1>1, EcrireOK
<1>3. lies' = lies \ ({l} \X Fiches)
  BY <1>1 DEF Ecrire
<1>4. CatalogueTypeOK'
  BY <1>1, <1>2, <1>3 DEF InvCatalogue, CatalogueTypeOK
<1>5. LiensIntegres'
  BY <1>1, <1>3 DEF InvCatalogue, CatalogueTypeOK, LiensIntegres
<1>6. \A m \in livres' : Tenue(m)'
  BY <1>1, <1>3 DEF InvCatalogue, Tenue
<1> QED
  BY <1>2, <1>4, <1>5, <1>6 DEF InvCatalogue

\* Every step keeps the invariant.
LEMMA CatalogueTient == InvCatalogue /\ [CatalogueNext]_vars => InvCatalogue'
<1> SUFFICES ASSUME InvCatalogue, [CatalogueNext]_vars PROVE InvCatalogue'
  OBVIOUS
<1>1. CASE UNCHANGED vars
  BY <1>1 DEF vars, tables, InvCatalogue, CatalogueTypeOK, LiensIntegres, Suivie, Tenue
<1>2. CASE CatalogueNext
  BY <1>2, NouveauDebutOK, NouveauFlushOK, EditDebutOK, EditChampOK, EditFlushOK,
     CreerFicheOK, SupprFicheOK, SupprLivreOK DEF CatalogueNext
<1> QED
  BY <1>1, <1>2

-----------------------------------------------------------------------------
\* The catalogue keeps its types: no id is given out twice, and every edit under
\* way holds rows of the catalogue (LivreCrudController.php:29-30).
THEOREM CatalogueBienType == CatalogueSpec => []CatalogueTypeOK
<1>1. InvCatalogue => CatalogueTypeOK
  BY DEF InvCatalogue
<1> QED
  BY <1>1, CatalogueDepart, CatalogueTient, PTL DEF CatalogueSpec

\* The join tables never link a row that is gone, whatever is deleted between
\* the loading of a form and its flush().
THEOREM LiensToujoursIntegres == CatalogueSpec => []LiensIntegres
<1>1. InvCatalogue => LiensIntegres
  BY DEF InvCatalogue
<1> QED
  BY <1>1, CatalogueDepart, CatalogueTient, PTL DEF CatalogueSpec

\* The links of a book are the selection saved last, except for rows that
\* others changed during that save or deleted since.
THEOREM SelectionToujoursTenue == CatalogueSpec => []SelectionTenue
<1>1. InvCatalogue => SelectionTenue
  BY Formes DEF InvCatalogue
<1> QED
  BY <1>1, CatalogueDepart, CatalogueTient, PTL DEF CatalogueSpec
=============================================================================
