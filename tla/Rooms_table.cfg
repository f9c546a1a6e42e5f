SPECIFICATION FairSpec
CONSTANTS
    None = None
    Workers = {w1, w2, w3}
    Ids = {r1, r2}
 
PROPERTY DestroyedLeaves
CHECK_DEADLOCK FALSE
