SPECIFICATION Spec
CONSTANTS
    ann = ann
    ann0 = ann0
    bob = bob
    cat = cat
    Ann = Ann
    Bob = Bob
    Cat = Cat
    None = None
    UserOf <- MCUserOf
    Resourceless = {}
    Clients = {ann, bob}
    Users = {Ann, Bob}
    Nicks = {n1, n2}
    AclTables <- MCTwoAcls
    ConfigFlags = {}
    Limits = {}
    MaxItems = 1
SYMMETRY NickSymmetry
INVARIANTS
    LookupReturns
CHECK_DEADLOCK FALSE
