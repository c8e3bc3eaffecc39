SPECIFICATION ProfilFair
CONSTANTS
    Comptes = {c1}
    Emails = {e1, e2}
    Aucun = Aucun
    Duree = 1
    Pannes = TRUE
    Ailleurs = {e2}
    MaxAppels = 4
    MaxTemps = 1
INVARIANT SessionTypeOK
INVARIANT ConnecteSiJeton
INVARIANT AffichageSiNet
PROPERTY SessionFinie
PROPERTY SauvegardeFinit
