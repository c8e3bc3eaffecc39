SPECIFICATION Spec
CONSTANTS
    Livres = {l1, l2}
    Utilisateurs = {u1, u2}
    Workers = {w1, w2}
    Expiration = 1
    LimiteResa = 1
    LimiteEmprunts = 1
    DatesEditables = {}
    Editions = {}
    MaxResa = 0
    MaxEmprunts = 3
    MaxTemps = 0
SYMMETRY Symetrie
INVARIANT EmpruntsParLivre
INVARIANT LimiteEmpruntsParWorker
