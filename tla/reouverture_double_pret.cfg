SPECIFICATION Spec
CONSTANTS
    Livres = {l1}
    Utilisateurs = {u1, u2}
    Workers = {w1}
    Expiration = 7
    LimiteResa = 3
    LimiteEmprunts = 5
    DatesEditables = {}
    Editions = {"rouvrir"}
    MaxResa = 0
    MaxEmprunts = 2
    MaxTemps = 0
SYMMETRY Symetrie
INVARIANT LivrePreteUneFois
