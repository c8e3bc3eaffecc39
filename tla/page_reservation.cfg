SPECIFICATION ListeSpec
CONSTANTS
    Livres = {l1, l2}
    Utilisateurs = {u1}
    Workers = {w1}
    Expiration = 1
    LimiteResa = 1
    LimiteEmprunts = 1
    DatesEditables = {}
    Editions = {}
    MaxResa = 2
    MaxEmprunts = 1
    MaxTemps = 0
    moi = u1
    AucunLivre = AucunLivre
    Pannes = TRUE
    Voisins = {"api", "prets", "livres"}
    MaxAppels = 3
SYMMETRY Symetrie
PROPERTY RefusFidele
INVARIANT ListeTypeOK
INVARIANT BoutonAttend
INVARIANT SuccesInsere
