------------------------------ MODULE Session ------------------------------
(***************************************************************************)
(* The session of one browser tab: AuthService (signals and localStorage), *)
(* the JWT interceptor, the login form, the profile page, and the calls of *)
(* AuthController they make.  A token names its account by the e-mail it   *)
(* had at login, and the profile page may change that e-mail.              *)
(*                                                                         *)
(* Nothing cancels a call: its callbacks run whenever the answer comes,    *)
(* whoever is logged in by then, until the browser reloads the application.*)
(***************************************************************************)
EXTENDS Integers, FiniteSets

CONSTANTS
    Comptes,    \* accounts of table utilisateur
    Emails,     \* e-mail addresses
    Aucun,      \* null, '' or a missing key
    Duree,      \* token_ttl
    Pannes,     \* whether calls may fail on the network
    Ailleurs,   \* addresses e-mails are changed to outside this browser
    MaxAppels,  \* bound: calls the browser makes
    MaxTemps    \* bound: last tick of the clock

ASSUME SessionAssumption ==
    /\ Aucun \notin Emails \cup Comptes
    /\ Aucun \notin [email : Emails, exp : Nat]
    /\ Duree \in Nat \ {0}
    /\ Pannes \in BOOLEAN
    /\ Ailleurs \subseteq Emails
    /\ {MaxAppels, MaxTemps} \subseteq Nat

VARIABLES
    temps,       \* seconds since the epoch
    email,       \* column utilisateur.email
    jeton,       \* localStorage 'jwt_token'
    cache,       \* localStorage 'user', its e-mail
    isLoggedIn,  \* signals of AuthService
    userEmail,
    numero,      \* number of the last call sent
    vols,        \* calls not yet answered
    profil,      \* the profile page: "absent" before and without data,
    loading,     \*   else "charge"
    saving,
    message,     \* its succes and erreur signals: "aucun", "succes", "erreur"
    net          \* history: no session has run into the next, see Suivi

stockage == <<jeton, cache>>
signaux == <<isLoggedIn, userEmail>>
session == <<stockage, signaux>>
page == <<profil, loading, saving, message>>
sessionVars == <<temps, email, session, numero, vols, page, net>>

Jeton == [email : Emails, exp : Nat]

\* jeton is what the interceptor attached, or what login_check gave back;
\* email what the call carries or brings back; compte the account update()
\* has loaded.
Appel == [n : Nat, type : {"login", "me", "profil", "put", "reserver"},
          vivant : BOOLEAN, etat : {"envoye", "charge", "200", "401", "500"},
          jeton : Jeton \cup {Aucun}, email : Emails \cup {Aucun},
          compte : Comptes \cup {Aucun}]

Init ==
    /\ temps = 0
    /\ email \in [Comptes -> Emails]
    /\ \A c, d \in Comptes : email[c] = email[d] => c = d
    /\ jeton = Aucun
    /\ cache = Aucun
    /\ isLoggedIn = FALSE
    /\ userEmail = Aucun
    /\ numero = 0
    /\ vols = {}
    /\ profil = "absent"
    /\ loading = FALSE
    /\ saving = FALSE
    /\ message = "aucun"
    /\ net = TRUE

-----------------------------------------------------------------------------
(***************************************************************************)
(* AuthService and the interceptor.                                        *)
(***************************************************************************)

isTokenExpired(t) == t.exp <= temps

\* Faulty variant: the keys go, the signals stay.
clearSessionCles ==
    /\ jeton' = Aucun
    /\ cache' = Aucun
    /\ UNCHANGED signaux

\* Faulty variant: the cached user stays in localStorage.
clearSessionSansCache ==
    /\ jeton' = Aucun
    /\ cache' = cache
    /\ isLoggedIn' = FALSE
    /\ userEmail' = Aucun

clearSession ==
    /\ jeton' = Aucun
    /\ cache' = Aucun
    /\ isLoggedIn' = FALSE
    /\ userEmail' = Aucun

\* getToken: its result, and the session it clears when the token it finds
\* has expired.
getToken == IF jeton # Aucun /\ ~isTokenExpired(jeton) THEN jeton ELSE Aucun
EffetGetToken ==
    IF jeton # Aucun /\ isTokenExpired(jeton) THEN clearSession
    ELSE UNCHANGED session

Nouveau(type, t, e) ==
    [n |-> numero + 1, type |-> type, vivant |-> TRUE, etat |-> "envoye",
     jeton |-> t, email |-> e, compte |-> Aucun]

\* Any call goes through jwtInterceptor.
Envoyer(type, e) ==
    /\ numero < MaxAppels
    /\ numero' = numero + 1
    /\ EffetGetToken
    /\ vols' = vols \cup {Nouveau(type, getToken, e)}

\* onSubmit of the login form.
onSubmit(e) ==
    /\ Envoyer("login", e)
    /\ UNCHANGED <<temps, email, page>>

\* handleLoginSuccess, with the GET /user/me of loadUserInfo; a token that
\* has expired on its way is cleared at once.
handleLoginSuccess(a) ==
    /\ numero < MaxAppels
    /\ numero' = numero + 1
    /\ IF isTokenExpired(a.jeton)
       THEN clearSession /\ vols' = (vols \ {a}) \cup {Nouveau("me", Aucun, Aucun)}
       ELSE /\ jeton' = a.jeton
            /\ isLoggedIn' = TRUE
            /\ UNCHANGED <<cache, userEmail>>
            /\ vols' = (vols \ {a}) \cup {Nouveau("me", a.jeton, Aucun)}

\* 401: errorMessage is set, which no property looks at.
RecevoirLogin(a) ==
    /\ a.type = "login"
    /\ a.vivant
    /\ \/ a.etat = "200" /\ handleLoginSuccess(a)
       \/ /\ a.etat = "401"
          /\ vols' = vols \ {a}
          /\ UNCHANGED <<session, numero>>
    /\ UNCHANGED <<temps, email, page>>

logout ==
    /\ isLoggedIn
    /\ clearSession
    /\ UNCHANGED <<temps, email, numero, vols, page>>

\* Faulty variant: any failure of /user/me logs out.
EchecMeTous(status) == clearSession

\* The error callback of loadUserInfo.
EchecMe(status) ==
    IF status \in {"401", "403"} THEN clearSession ELSE UNCHANGED session

\* The callbacks of loadUserInfo.
RecevoirMe(a) ==
    /\ a.type = "me"
    /\ a.vivant
    /\ \/ /\ a.etat = "200"
          /\ userEmail' = a.email
          /\ cache' = a.email
          /\ UNCHANGED <<jeton, isLoggedIn>>
       \/ a.etat = "401" /\ EchecMe("401")
    /\ vols' = vols \ {a}
    /\ UNCHANGED <<temps, email, numero, page>>

\* The browser loads the application again: the constructor.  The callbacks
\* of earlier calls are gone.
Recharger ==
    LET anciens == {[a EXCEPT !.vivant = FALSE] : a \in vols}
    IN  /\ IF getToken # Aucun
           THEN /\ numero < MaxAppels
                /\ numero' = numero + 1
                /\ isLoggedIn' = TRUE
                /\ userEmail' = cache
                /\ vols' = anciens \cup {Nouveau("me", jeton, Aucun)}
                /\ UNCHANGED stockage
           ELSE /\ jeton' = Aucun
                /\ cache' = IF jeton # Aucun THEN Aucun ELSE cache
                /\ isLoggedIn' = FALSE
                /\ userEmail' = Aucun
                /\ vols' = anciens
                /\ UNCHANGED numero
        /\ profil' = "absent"
        /\ loading' = FALSE
        /\ saving' = FALSE
        /\ message' = "aucun"
        /\ UNCHANGED <<temps, email>>

-----------------------------------------------------------------------------
(***************************************************************************)
(* The profile page, and a reservation as an example of the other calls.   *)
(***************************************************************************)

\* ngOnInit of a new page, behind authGuard; calls of an earlier page no
\* longer reach the screen.
OuvrirProfil ==
    /\ isLoggedIn
    /\ numero < MaxAppels
    /\ numero' = numero + 1
    /\ EffetGetToken
    /\ vols' = {IF a.type \in {"profil", "put"} THEN [a EXCEPT !.vivant = FALSE]
                ELSE a : a \in vols} \cup {Nouveau("profil", getToken, Aucun)}
    /\ profil' = "absent"
    /\ loading' = TRUE
    /\ saving' = FALSE
    /\ message' = "aucun"
    /\ UNCHANGED <<temps, email>>

RappelProfil(ok) ==
    /\ loading' = FALSE
    /\ profil' = IF ok THEN "charge" ELSE profil
    /\ message' = IF ok THEN message ELSE "erreur"
    /\ saving' = saving

\* The form is on the screen, the member has typed the address e.
sauvegarder(e) ==
    /\ profil = "charge" /\ ~loading /\ ~saving
    /\ Envoyer("put", e)
    /\ saving' = TRUE
    /\ message' = "aucun"
    /\ UNCHANGED <<temps, email, profil, loading>>

\* Faulty variant: the error callback leaves the button disabled.
RappelPutBloque(ok) ==
    /\ saving' = IF ok THEN FALSE ELSE saving
    /\ message' = IF ok THEN "succes" ELSE "erreur"
    /\ UNCHANGED <<profil, loading>>

RappelPut(ok) ==
    /\ saving' = FALSE
    /\ message' = IF ok THEN "succes" ELSE "erreur"
    /\ UNCHANGED <<profil, loading>>

RecevoirPage(a) ==
    /\ a.vivant
    /\ a.etat \in {"200", "401", "500"}
    /\ \/ a.type = "profil" /\ RappelProfil(a.etat = "200")
       \/ a.type = "put" /\ RappelPut(a.etat = "200")
    /\ vols' = vols \ {a}
    /\ UNCHANGED <<temps, email, session, numero>>

reserver ==
    /\ Envoyer("reserver", Aucun)
    /\ UNCHANGED <<temps, email, page>>

RecevoirReserver(a) ==
    /\ a.type = "reserver"
    /\ a.vivant
    /\ a.etat \in {"200", "401"}
    /\ vols' = vols \ {a}
    /\ UNCHANGED <<temps, email, session, numero, page>>
-----------------------------------------------------------------------------
(***************************************************************************)
(* The back end, and the network.                                          *)
(***************************************************************************)
Tick ==
    /\ temps < MaxTemps
    /\ temps' = temps + 1
    /\ UNCHANGED <<email, session, numero, vols, page>>

\* The account a call is made for: Lexik decodes the token and the provider
\* looks its e-mail up.
Identifies(t) ==
    {c \in Comptes : t # Aucun /\ t.exp > temps /\ email[c] = t.email}

Avance(a, b) == vols' = (vols \ {a}) \cup {b}

\* Faulty variant: the lifetime is taken off.
ExpPassee == temps - Duree

\* The exp claim of a new token.
Exp == temps + Duree

\* POST /api/login_check, with the right password or a wrong one.
ServirLogin(a) ==
    /\ a.type = "login"
    /\ a.etat = "envoye"
    /\ \/ /\ \E c \in Comptes : email[c] = a.email
          /\ Avance(a, [a EXCEPT !.etat = "200",
                           !.jeton = [email |-> a.email, exp |-> Exp]])
       \/ Avance(a, [a EXCEPT !.etat = "401"])
    /\ UNCHANGED <<temps, email, session, numero, page>>

\* me(), and the other reads: 401 when nobody is identified.
ServirLecture(a) ==
    /\ a.type \in {"me", "profil", "reserver"}
    /\ a.etat = "envoye"
    /\ Avance(a, IF Identifies(a.jeton) = {} THEN [a EXCEPT !.etat = "401"]
                 ELSE [a EXCEPT !.etat = "200", !.email = a.jeton.email])
    /\ UNCHANGED <<temps, email, session, numero, page>>

\* update(): the account is loaded ...
ServirPutCharge(a) ==
    /\ a.type = "put"
    /\ a.etat = "envoye"
    /\ \/ /\ Identifies(a.jeton) = {}
          /\ Avance(a, [a EXCEPT !.etat = "401"])
       \/ \E c \in Identifies(a.jeton) :
             Avance(a, [a EXCEPT !.etat = "charge", !.compte = c])
    /\ UNCHANGED <<temps, email, session, numero, page>>

\* ... and flush() writes the e-mail when it differs from the one loaded;
\* the UNIQUE key refuses one that is taken.
ServirPutFlush(a) ==
    /\ a.type = "put"
    /\ a.etat = "charge"
    /\ LET pris == \E d \in Comptes \ {a.compte} : email[d] = a.email
       IN  IF a.email = a.jeton.email
           THEN Avance(a, [a EXCEPT !.etat = "200"]) /\ UNCHANGED email
           ELSE IF pris
           THEN Avance(a, [a EXCEPT !.etat = "500"]) /\ UNCHANGED email
           ELSE /\ Avance(a, [a EXCEPT !.etat = "200"])
                /\ email' = [email EXCEPT ![a.compte] = a.email]
    /\ UNCHANGED <<temps, session, numero, page>>

\* The account changes its e-mail from another browser, or a librarian does.
ModifierAilleurs(c, e) ==
    /\ e \in Ailleurs
    /\ \A d \in Comptes : email[d] # e
    /\ email' = [email EXCEPT ![c] = e]
    /\ UNCHANGED <<temps, session, numero, vols, page>>

\* A call fails on the network: its error callback runs with status 0; the
\* back end may have handled the call, or still do so.
Echouer(a) ==
    /\ Pannes
    /\ a.vivant
    /\ Avance(a, [a EXCEPT !.vivant = FALSE])
    /\ CASE a.type = "me" -> EchecMe("0") /\ UNCHANGED page
         [] a.type = "profil" -> RappelProfil(FALSE) /\ UNCHANGED session
         [] a.type = "put" -> RappelPut(FALSE) /\ UNCHANGED session
         [] OTHER -> UNCHANGED <<session, page>>
    /\ UNCHANGED <<temps, email, numero>>

\* An answer that nobody waits for.
Oublier(a) ==
    /\ ~a.vivant
    /\ vols' = vols \ {a}
    /\ UNCHANGED <<temps, email, session, numero, page>>

-----------------------------------------------------------------------------
Etape ==
    \/ Tick
    \/ \E e \in Emails : onSubmit(e) \/ sauvegarder(e)
    \/ logout \/ Recharger \/ OuvrirProfil \/ reserver
    \/ \E a \in vols :
          \/ RecevoirLogin(a) \/ RecevoirMe(a) \/ RecevoirPage(a)
          \/ RecevoirReserver(a)
          \/ ServirLogin(a) \/ ServirLecture(a)
          \/ ServirPutCharge(a) \/ ServirPutFlush(a)
          \/ Echouer(a) \/ Oublier(a)
    \/ \E c \in Comptes, e \in Emails : ModifierAilleurs(c, e)

AppelsMe(vol) == {a \in vol : a.type = "me" /\ a.vivant}

\* The history: so far every login was answered when no token was stored, and
\* whenever the token was set or cleared no GET /user/me of another session
\* was still under way.
Suivi ==
    net' = /\ net
           /\ jeton # Aucun => \A a \in vols : ~(a.etat = "200" /\ RecevoirLogin(a))
           /\ jeton' # jeton => \A a \in AppelsMe(vols') : a.jeton = jeton'

Next == Etape /\ Suivi

SessionSpec == Init /\ [][Next]_sessionVars

\* The back end handles the profile's PUT, and the browser delivers what it
\* has received.
EtapePut(a) == ServirPutCharge(a) \/ ServirPutFlush(a)
ProfilFair ==
    /\ SessionSpec
    /\ WF_sessionVars(\E a \in vols : EtapePut(a) /\ a.vivant /\ Suivi)
    /\ WF_sessionVars(\E a \in vols : a.type = "put" /\ RecevoirPage(a) /\ Suivi)

-----------------------------------------------------------------------------
(***************************************************************************)
(* Properties.                                                             *)
(***************************************************************************)

\* Type invariant.
SessionTypeOK ==
    /\ temps \in Nat
    /\ email \in [Comptes -> Emails]
    /\ jeton \in Jeton \cup {Aucun}
    /\ cache \in Emails \cup {Aucun}
    /\ isLoggedIn \in BOOLEAN
    /\ userEmail \in Emails \cup {Aucun}
    /\ numero \in Nat
    /\ vols \subseteq Appel
    /\ profil \in {"absent", "charge"}
    /\ loading \in BOOLEAN
    /\ saving \in BOOLEAN
    /\ message \in {"aucun", "succes", "erreur"}
    /\ net \in BOOLEAN

\* The navigation bar and authGuard (isLoggedIn) agree with what the
\* interceptor will send (the stored token), across logins, expiry met in
\* getToken, late 401 answers and reloads.
ConnecteSiJeton == isLoggedIn <=> jeton # Aucun

\* As long as no session has run into the next, the address in the navigation
\* bar is the one the back end knows the token by, or none, and nothing is
\* left behind after a logout, not even for the next reload: the cached user
\* of the constructor (auth.service.ts:23) never is an earlier one.
AffichageSiNet ==
    net => /\ userEmail \in IF jeton = Aucun THEN {Aucun} ELSE {Aucun, jeton.email}
           /\ cache \in IF jeton = Aucun THEN {Aucun} ELSE {Aucun, jeton.email}

\* Under the same condition a session ends only because the member logs out,
\* because its token has expired, or because the back end has refused that
\* very token (auth.service.ts:70): a call that fails on the network, or one
\* of an earlier session, does not end it.
SessionFinie ==
    [][net' /\ jeton # Aucun /\ jeton' = Aucun =>
          \/ logout
          \/ isTokenExpired(jeton)
          \/ \E a \in vols : a.etat = "401" /\ a.jeton = jeton]_sessionVars

\* 'Enregistrement...' does not stay: sauvegarder ends for every answer and
\* every failure, or the page is left.
SauvegardeFinit == saving ~> ~saving

-----------------------------------------------------------------------------
(***************************************************************************)
(* What the pages say, and the code does not keep.                         *)
(***************************************************************************)

\* {{ auth.userEmail() || 'Mon compte' }} (app.html:22): the address shown is
\* that of the account that is logged in.
AffichageDuCompte ==
    isLoggedIn => userEmail \in {Aucun, jeton.email}

\* 'Vous devez etre connecte pour reserver.' (livres-list.ts:127) is not said
\* to a member who clicked in a session that is still running, its token not
\* expired.
ConnexionDemandee ==
    [][\A a \in vols :
          a.etat = "401" /\ RecevoirReserver(a) =>
             jeton = Aucun \/ a.jeton # jeton \/ isTokenExpired(jeton)]_sessionVars

\* 'Impossible de charger votre profil.' (mon-profil.ts:38): the template
\* shows erreur() inside the block for a loaded profile only
\* (mon-profil.html:8, 38), so an error must come with one.
ErreurVisible == message = "erreur" => ~loading /\ profil = "charge"

=============================================================================
