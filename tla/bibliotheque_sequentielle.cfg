SPECIFICATION Spec
CONSTANTS
    Livres = {l1, l2}
    Utilisateurs = {u1, u2}
    Workers = {w1}
    Expiration = 1
    LimiteResa = 1
    LimiteEmprunts = 1
    DatesEditables = {0}
    Editions = {"reattribuer"}
    MaxResa = 2
    MaxEmprunts = 3
    MaxTemps = 2
SYMMETRY Symetrie
INVARIANT DisponibiliteExacte
INVARIANT PasReserveEtPrete
PROPERTY TientPromesse
