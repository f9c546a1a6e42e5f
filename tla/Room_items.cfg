SPECIFICATION Spec
CONSTANTS
    ann = ann
    ann0 = ann0
    bob = bob
    cat = cat
    Ann = Ann
    Bob = Bob
    Cat = Cat
    None = None
    UserOf <- MCUserOf
    Resourceless = {}
    Clients = {ann, bob}
    Users = {Ann, Bob}
    Nicks = {n1, n2}
    AclTables <- MCOneAcl
    ConfigFlags = {"membersonly", "persistent", "passwordprotected", "password"}
    Limits = {}
    MaxItems = 2
SYMMETRY NickSymmetry
VIEW WithoutView
INVARIANTS
    RoomSound
    NoGhosts
    EmptyRoomGoes
PROPERTY OwnersKeepOne
CHECK_DEADLOCK FALSE
