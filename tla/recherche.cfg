SPECIFICATION Spec
CONSTANTS
    Livres = {l1, l2}
    Auteurs = {a1, a2}
    Categories = {c1, c2}
    Pannes = TRUE
    MaxAppels = 2
SYMMETRY Symetrie
INVARIANT RechercheTypeOK
INVARIANT RechercheExacte
INVARIANT CollectionsFiltrees
