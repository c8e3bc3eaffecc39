SPECIFICATION CatalogueSpec
CONSTANTS
    Livres = {l1, l2}
    Auteurs = {a1}
    Categories = {c1}
    Workers = {w1, w2}
SYMMETRY Symetrie
CHECK_DEADLOCK FALSE
INVARIANT CatalogueTypeOK
INVARIANT LiensIntegres
INVARIANT SelectionTenue
