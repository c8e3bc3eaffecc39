SPECIFICATION TableauSpec
CONSTANTS
    Livres = {l1, l2}
    Utilisateurs = {u1}
    Workers = {w1}
    Expiration = 7
    LimiteResa = 3
    LimiteEmprunts = 5
    DatesEditables = {}
    Editions = {}
    MaxResa = 0
    MaxEmprunts = 2
    MaxTemps = 3
    Jour = 2
    Delai = 1
SYMMETRY Symetrie
INVARIANT TableauTypeOK
INVARIANT RetardEncadre
PROPERTY RetardsEncadres
