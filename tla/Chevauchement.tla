--------------------------- MODULE Chevauchement ---------------------------
(***************************************************************************)
(* Bibliotheque with a history of its requests: what create() and          *)
(* persistEntity would have met had they run alone from the moment they    *)
(* started.  The code has no such record; it tells a conflict that two     *)
(* overlapping requests make from one that a check has let through.        *)
(***************************************************************************)
EXTENDS Bibliotheque

VARIABLES
    pointeurAvant,  \* history: emprunt_id of the book when create() started
    resaAvant       \* history: last reservation id when persistEntity started

chevVars == <<vars, pointeurAvant, resaAvant>>

Commence(w, etape) == Libre(w) /\ req'[w].etape = etape

\* A request notes what it meets when it starts, and forgets it when it ends.
Noter ==
    /\ pointeurAvant' =
          [w \in Workers |-> IF Commence(w, "creer_purge") THEN livreEmprunt[req'[w].l]
                             ELSE IF Libre(w)' THEN NULL ELSE pointeurAvant[w]]
    /\ resaAvant' =
          [w \in Workers |-> IF Commence(w, "pret_reservation") THEN seqResa
                             ELSE IF Libre(w)' THEN NULL ELSE resaAvant[w]]

ChevInit ==
    /\ Init
    /\ pointeurAvant = [w \in Workers |-> NULL]
    /\ resaAvant = [w \in Workers |-> NULL]

ChevNext == Next /\ Noter

ChevSpec == ChevInit /\ [][ChevNext]_chevVars

-----------------------------------------------------------------------------
\* create() reads the pointer of the book at line 54 and persistEntity looks
\* for a reservation at line 38, both well before their flush(): a book that
\* is on loan can still be reserved, and a reserved book lent, but only by
\* requests that overlap.  A reservation is inserted beside a loan only when
\* the book got that loan while create() ran, and a loan that uses up no
\* reservation is inserted beside reservations only when every one of them was
\* made while persistEntity ran, whatever librarians edit or delete meanwhile.
ConflitParChevauchement ==
    [][\A w \in Workers :
          /\ req[w].etape = "creer_insere" /\ seqResa' # seqResa /\ CreerInsere(w) =>
                \/ livreEmprunt[req[w].l] = NULL
                \/ livreEmprunt[req[w].l] # pointeurAvant[w]
          /\ req[w].etape = "pret_insere" /\ seqEmprunt' # seqEmprunt /\ PretInsere(w)
             /\ req[w].resa = NULL =>
                \A r \in ResasDeLivre(req[w].l) : r.id > resaAvant[w]]_chevVars
=============================================================================
