SPECIFICATION ListeFair
CONSTANTS
    Livres = {l1, l2}
    Utilisateurs = {u1}
    Workers = {w1}
    Expiration = 1
    LimiteResa = 2
    LimiteEmprunts = 1
    DatesEditables = {}
    Editions = {}
    MaxResa = 3
    MaxEmprunts = 1
    MaxTemps = 0
    moi = u1
    AucunLivre = AucunLivre
    Pannes = TRUE
    Voisins = {"prets"}
    MaxAppels = 3
PROPERTY BoutonRevient
PROPERTY RefusFidele
