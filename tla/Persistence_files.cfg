SPECIFICATION FilesSpec
CONSTANTS
    Clients = {c1, a}
    Admins = {a}
    Limits = {1, 2}
    NoFile = NoFile
    Partial = Partial
    Null = Null
    MaxPart = 3
    Senders <- MCSenders
    Targets <- MCTargets
    Files <- MCFiles
    NoRole = NoRole
    Roles = {0, 3}
    Limit = 2
    MaxEntries = 2
VIEW State
INVARIANTS
    FilesTypeOK
    OwnersLostOnce
    AddressesHold
    SizeCovers
PROPERTIES
    
    RoleOfFirstLine
