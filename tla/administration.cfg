SPECIFICATION ChevSpec
CONSTANTS
    Livres = {l1, l2}
    Utilisateurs = {u1, u2}
    Workers = {w1, w2}
    Expiration = 0
    LimiteResa = 1
    LimiteEmprunts = 1
    DatesEditables = {0}
    Editions = {"rouvrir", "deplacer", "reattribuer"}
    MaxResa = 1
    MaxEmprunts = 1
    MaxTemps = 1
SYMMETRY Symetrie
INVARIANT TypeOK
INVARIANT IntegriteReferentielle
PROPERTY DisparitionJustifiee
 
