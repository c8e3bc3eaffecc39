SPECIFICATION SessionSpec
CONSTANTS
    Comptes = {c1}
    Emails = {e1, e2}
    Aucun = Aucun
    Duree = 1
    Pannes = FALSE
    Ailleurs = {}
    MaxAppels = 5
    MaxTemps = 0
SYMMETRY Symetrie
PROPERTY ConnexionDemandee
