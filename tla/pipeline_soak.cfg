\* The daily promotions and the syncs, with nothing going wrong.
SPECIFICATION Smooth
CONSTANTS
    b1 = b1
    b2 = b2
    None = None
    Deployments <- MCMonth
    Opr = {1}
    FetchBudget = 2
    MaxAttempts = 2
    MaxRows = 1
    Soak = 1440
PROPERTIES StableMoves
