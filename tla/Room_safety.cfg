SPECIFICATION Spec
CONSTANTS
    ann = ann
    ann0 = ann0
    bob = bob
    cat = cat
    Ann = Ann
    Bob = Bob
    Cat = Cat
    None = None
    UserOf <- MCUserOf
    Resourceless = {ann0}
    Clients = {ann, ann0, bob}
    Users = {Ann, Bob}
    Nicks = {n1, n2}
    AclTables <- MCTwoAcls
    ConfigFlags = {"membersonly"}
    Limits = {1}
    MaxItems = 1
SYMMETRY NickSymmetry
INVARIANTS
    ViewsAgree
CHECK_DEADLOCK FALSE
