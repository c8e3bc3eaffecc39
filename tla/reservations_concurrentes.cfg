SPECIFICATION Spec
CONSTANTS
    Livres = {l1, l2, l3}
    Utilisateurs = {u1, u2}
    Workers = {w1, w2}
    Expiration = 1
    LimiteResa = 2
    LimiteEmprunts = 1
    DatesEditables = {}
    Editions = {}
    MaxResa = 4
    MaxEmprunts = 0
    MaxTemps = 2
SYMMETRY Symetrie
INVARIANT PurgeTient
INVARIANT LimiteResaParWorker
INVARIANT ReservationsParLivre
PROPERTY DisparitionJustifiee
