---------------------------- MODULE RoomProofs ----------------------------
(***************************************************************************)
(* What holds of a room for any clients, nicks, ACLs and configuration,    *)
(* and for muc#admin requests of any length, along four arguments:         *)
(*   RoomInv     the types, that nicks are distinct, that a user is on one *)
(*               affiliation list, that admins are moderators;             *)
(*   StayInv     who may not stay is marked or gone, and so is a temporary *)
(*               room that nobody is in;                                   *)
(*   ViewsInv    what every occupant has been told is the room;            *)
(* and that the owner list is not emptied by its last owner, which needs   *)
(* no invariant.                                                           *)
(***************************************************************************)
EXTENDS Room, TLAPS

RoomInv == TypeOK /\ NicksDistinct /\ EntriesUnique /\ AdminsModerate

\* Every entry of every list is on that list only.
Unique(l) ==
    /\ l[AFFIL_NONE] = {}
    /\ \A a, b \in Affils : a # b => l[a] \cap l[b] = {}

\* The first list of a search is one of those that match.
LEMMA LowestIsIn ==
    ASSUME NEW S \in SUBSET Affils, S # {}
    PROVE  Lowest(S) \in S /\ Lowest(S) \in Affils
<1>1. \E a \in S : \A b \in S : a <= b
  <2>1. CASE 0 \in S
    BY <2>1 DEF Affils
  <2>2. CASE 0 \notin S /\ 1 \in S
    BY <2>2 DEF Affils
  <2>3. CASE 0 \notin S /\ 1 \notin S /\ 2 \in S
    BY <2>3 DEF Affils
  <2>4. CASE 0 \notin S /\ 1 \notin S /\ 2 \notin S /\ 3 \in S
    BY <2>4 DEF Affils
  <2>5. CASE 0 \notin S /\ 1 \notin S /\ 2 \notin S /\ 3 \notin S
    <3>1. \A x \in S : x = 4
      BY <2>5 DEF Affils
    <3>2. PICK x \in S : TRUE
      OBVIOUS
    <3>3. \A b \in S : x <= b
      BY <3>1
    <3> QED
      BY <3>2, <3>3
  <2> QED
    BY <2>1, <2>2, <2>3, <2>4, <2>5
<1> QED
  BY <1>1 DEF Lowest

\* A lookup that does not fault returns an affiliation.
LEMMA LookupIsAffil ==
    ASSUME NEW l, NEW c, NEW a \in affiliationss_get_by_jid(l, c), a # None
    PROVE  a \in Affils
  BY DEF affiliationss_get_by_jid, AFFIL_OWNER, Affils

\* affiliationss_add keeps the lists disjoint, given that they were: the
\* only list that had the entry is the one it is deleted from.
LEMMA MovedIsUnique ==
    ASSUME NEW l \in [Affils -> SUBSET Users], Unique(l),
           NEW a \in Affils, NEW u \in Users
    PROVE  Moved(l, a, u) \in [Affils -> SUBSET Users] /\ Unique(Moved(l, a, u))
<1> DEFINE old == ListsWith(l, u)
           m == Moved(l, a, u)
<1>1. m \in [Affils -> SUBSET Users]
  BY DEF Moved
<1>2. \A b \in Affils : u \in l[b] => b = Lowest(old)
  <2> SUFFICES ASSUME NEW b \in Affils, u \in l[b] PROVE b = Lowest(old)
    OBVIOUS
  <2>1. old \in SUBSET Affils /\ old # {}
    BY DEF ListsWith
  <2>2. Lowest(old) \in old
    BY <2>1, LowestIsIn
  <2>3. u \in l[Lowest(old)] /\ Lowest(old) \in Affils
    BY <2>2 DEF ListsWith
  <2> QED
    BY <2>3 DEF Unique
<1>3. \A b \in Affils : m[b] \subseteq (l[b] \ {u}) \cup (IF b = a /\ a # AFFIL_NONE THEN {u} ELSE {})
  <2> SUFFICES ASSUME NEW b \in Affils, NEW v \in m[b]
               PROVE  v \in (l[b] \ {u}) \cup (IF b = a /\ a # AFFIL_NONE THEN {u} ELSE {})
    OBVIOUS
  <2>1. m[b] = (IF old # {} /\ b = Lowest(old) THEN l[b] \ {u} ELSE l[b])
                 \cup (IF b = a /\ a # AFFIL_NONE THEN {u} ELSE {})
    BY DEF Moved
  <2>2. CASE v # u
    BY <2>1, <2>2
  <2>3. CASE v = u /\ v \in l[b]
    <3>1. b = Lowest(old) /\ old # {}
      BY <1>2, <2>3 DEF ListsWith
    <3> QED
      BY <2>1, <2>3, <3>1
  <2>4. CASE v = u /\ v \notin l[b]
    BY <2>1, <2>4
  <2> QED
    BY <2>2, <2>3, <2>4
<1>4. AFFIL_NONE \in Affils
  BY DEF AFFIL_NONE, Affils
<1>5. m[AFFIL_NONE] = {}
  BY <1>3, <1>4 DEF Unique
<1>6. \A b, d \in Affils : b # d => m[b] \cap m[d] = {}
  BY <1>3 DEF Unique
<1> QED
  BY <1>1, <1>5, <1>6 DEF Unique

\* What a presence says of an occupant.
LEMMA PresenceIsSeen ==
    ASSUME NEW a \in Affils, NEW r \in Roles PROVE Presence(a, r) \in Seen
  BY DEF Presence, Seen

\* A broadcast leaves views that are views.
LEMMA BroadcastType ==
    ASSUME NEW v \in [Clients -> [Nicks -> Seen]], NEW S, NEW n, NEW p \in Seen
    PROVE  room_broadcast_presence(v, S, n, p) \in [Clients -> [Nicks -> Seen]]
  BY DEF room_broadcast_presence

\* The view of somebody who is not in the room, and that of a newcomer.
LEMMA ViewTypes ==
    ASSUME TypeOK, NEW c
    PROVE  EmptyView \in [Nicks -> Seen] /\ room_presences_send(c) \in [Nicks -> Seen]
<1>1. Absent \in Seen
  BY DEF Seen
<1>2. EmptyView \in [Nicks -> Seen]
  BY <1>1 DEF EmptyView
<1>3. ASSUME NEW n \in Nicks
      PROVE  (LET holders == participants_find_by_nick(n) \ {c}
              IN  IF holders = {} THEN Absent
                  ELSE LET p == CHOOSE p \in holders : TRUE
                       IN  <<affiliation[p], role[p]>>) \in Seen
  <2> DEFINE holders == participants_find_by_nick(n) \ {c}
             p == CHOOSE p \in holders : TRUE
  <2>1. CASE holders = {}
    BY <1>1, <2>1
  <2>2. CASE holders # {}
    <3>1. p \in holders
      BY <2>2
    <3>2. p \in Clients
      BY <3>1 DEF participants_find_by_nick, TypeOK
    <3>3. affiliation[p] \in Affils /\ role[p] \in Roles
      BY <3>2 DEF TypeOK
    <3> QED
      BY <2>2, <3>3 DEF Seen
  <2> QED
    BY <2>1, <2>2
<1> QED
  BY <1>2, <1>3 DEF room_presences_send

\* room_leave takes an occupant away and touches none of the others.
LEMMA LeaveInv ==
    ASSUME RoomInv, NEW c \in Clients, NEW v \in [Clients -> [Nicks -> Seen]],
           room_leave(c, v),
           UNCHANGED <<alive, exists, default_role, max_size, lists, acl, phase,
                       sender, items>>,
           affected' \in SUBSET Clients
    PROVE  RoomInv'
<1> USE DEF RoomInv, room_leave
<1>1. flags' \subseteq Flags
  BY DEF TypeOK, Flags
<1>2. AFFIL_NONE \in Affils /\ ROLE_NONE \in Roles
  BY DEF AFFIL_NONE, Affils, ROLE_NONE, Roles
<1>3. view' \in [Clients -> [Nicks -> Seen]]
  BY ViewTypes
<1>4. included' \in [Clients -> BOOLEAN]
  BY DEF TypeOK
<1>5. TypeOK'
  BY <1>1, <1>2, <1>3, <1>4 DEF TypeOK
<1>6. NicksDistinct'
  BY DEF TypeOK, NicksDistinct
<1>7. EntriesUnique'
  BY DEF EntriesUnique
<1>8. AdminsModerate'
  BY DEF TypeOK, AdminsModerate
<1> QED
  BY <1>5, <1>6, <1>7, <1>8

\* room_join: the newcomer's nick is free, its entry moves to one list, and
\* its role follows from its affiliation.
LEMMA JoinInv ==
    ASSUME RoomInv, NEW c \in Clients, NEW n \in Nicks, WantsToJoin(c, n),
           NEW a \in Affils, room_join(c, n, a)
    PROVE  RoomInv'
<1> USE DEF RoomInv, room_join
<1> DEFINE r == room_role_for_affiliation(a)
<1>1. r \in Roles
  BY DEF room_role_for_affiliation, TypeOK, Roles, ROLE_PARTICIPANT, ROLE_MODERATOR
<1>2. a >= AFFIL_ADMIN => r = ROLE_MODERATOR
  BY DEF room_role_for_affiliation, AFFIL_MEMBER, AFFIL_ADMIN, AFFIL_OWNER, Affils
<1>3. view' \in [Clients -> [Nicks -> Seen]]
  <2>1. [view EXCEPT ![c] = room_presences_send(c)] \in [Clients -> [Nicks -> Seen]]
    BY ViewTypes DEF TypeOK
  <2>2. Presence(a, r) \in Seen
    BY <1>1, PresenceIsSeen
  <2> QED
    BY <2>1, <2>2, BroadcastType
<1>4. lists' \in [Affils -> SUBSET Users] /\ EntriesUnique'
  <2>1. UserOf[c] \in Users /\ AFFIL_OWNER \in Affils
    BY RoomAssumption DEF AFFIL_OWNER, Affils
  <2>2. Unique(lists)
    BY DEF Unique, EntriesUnique
  <2>3. JoinLists(c) \in [Affils -> SUBSET Users] /\ Unique(JoinLists(c))
    BY <2>1, <2>2, MovedIsUnique DEF JoinLists, TypeOK
  <2> QED
    BY <2>3 DEF Unique, EntriesUnique
<1>5. TypeOK'
  <2>1. flags' \subseteq Flags
    BY DEF TypeOK
  <2>2. participants' \subseteq Clients /\ nick' \in [Clients -> Nicks \cup {None}]
    BY DEF TypeOK
  <2>3. affiliation' \in [Clients -> Affils] /\ role' \in [Clients -> Roles]
    BY <1>1 DEF TypeOK
  <2> QED
    BY <1>3, <1>4, <2>1, <2>2, <2>3 DEF TypeOK, request
<1>6. NicksDistinct'
  <2>1. \A p \in participants : nick[p] # n
    BY DEF WantsToJoin, participants_find_by_nick
  <2>2. n # None
    BY RoomAssumption
  <2> QED
    BY <2>1, <2>2 DEF TypeOK, NicksDistinct
<1>7. AdminsModerate'
  BY <1>2 DEF TypeOK, AdminsModerate
<1> QED
  BY <1>4, <1>5, <1>6, <1>7

\* A refused newcomer only changes the lists, and by one move.
LEMMA JoinListsInv ==
    ASSUME RoomInv, NEW c \in Clients, lists' = JoinLists(c),
           UNCHANGED <<alive, exists, config, occupants, acl, request>>
    PROVE  RoomInv'
<1> USE DEF RoomInv, config, occupants, request
<1>1. UserOf[c] \in Users /\ AFFIL_OWNER \in Affils
  BY RoomAssumption DEF AFFIL_OWNER, Affils
<1>2. Unique(lists)
  BY DEF Unique, EntriesUnique
<1>3. lists' \in [Affils -> SUBSET Users] /\ Unique(lists')
  BY <1>1, <1>2, MovedIsUnique DEF JoinLists, TypeOK
<1>4. TypeOK'
  BY <1>3 DEF TypeOK
<1> QED
  BY <1>3, <1>4 DEF Unique, EntriesUnique, NicksDistinct, AdminsModerate

\* participant_set_affected marks clients and adds clients.
LEMMA SetAffectedType ==
    ASSUME TypeOK, NEW S \in SUBSET Clients, participant_set_affected(S)
    PROVE  included' \in [Clients -> BOOLEAN] /\ affected' \subseteq Clients
<1>1. \A p \in Clients : (included[p] \/ p \in S) \in BOOLEAN
  OBVIOUS
<1> QED
  BY <1>1 DEF participant_set_affected, TypeOK

\* A new nick is free: the others keep theirs.
LEMMA ChangeNickInv ==
    ASSUME RoomInv, NEW c \in Clients, NEW n \in Nicks, ChangeNick(c, n)
    PROVE  RoomInv'
<1> USE DEF RoomInv
<1>1. PICK s \in participants_find_by_jid(c) :
        /\ nick' = [nick EXCEPT ![s] = n]
        /\ view' = room_broadcast_presence(
                     room_broadcast_presence(view, participants, nick[s], Absent),
                     participants, n, Presence(affiliation[s], role[s]))
  BY DEF ChangeNick
<1>2. s \in participants /\ s \in Clients
  BY DEF participants_find_by_jid, TypeOK
<1>3. view' \in [Clients -> [Nicks -> Seen]]
  <2>1. Absent \in Seen /\ Presence(affiliation[s], role[s]) \in Seen
    BY <1>2, PresenceIsSeen DEF Seen, TypeOK
  <2>2. room_broadcast_presence(view, participants, nick[s], Absent)
          \in [Clients -> [Nicks -> Seen]]
    BY <2>1, BroadcastType DEF TypeOK
  <2> QED
    BY <1>1, <2>1, <2>2, BroadcastType
<1>4. TypeOK'
  <2>1. nick' \in [Clients -> Nicks \cup {None}] /\ flags' \subseteq Flags
    BY <1>1, <1>2 DEF ChangeNick, TypeOK
  <2> QED
    BY <1>3, <2>1 DEF ChangeNick, TypeOK, request
<1>5. NicksDistinct'
  <2>1. \A p \in participants : nick[p] # n
    BY DEF ChangeNick, participants_find_by_nick
  <2>2. n # None /\ participants' = participants
    BY RoomAssumption DEF ChangeNick
  <2> QED
    BY <1>1, <1>2, <2>1, <2>2 DEF TypeOK, NicksDistinct
<1> QED
  BY <1>4, <1>5 DEF ChangeNick, EntriesUnique, AdminsModerate

\* <item role/> spares admins and owners.
LEMMA AdminRoleInv ==
    ASSUME RoomInv, NEW n \in Nicks, NEW r \in Roles, AdminRole(n, r)
    PROVE  RoomInv'
<1> USE DEF RoomInv
<1>1. PICK t \in participants_find_by_nick(n) :
        /\ affiliation[t] < AFFIL_ADMIN
        /\ role' = [role EXCEPT ![t] = r]
        /\ participant_set_affected({t})
  BY DEF AdminRole
<1>2. t \in participants /\ t \in Clients
  BY DEF participants_find_by_nick, TypeOK
<1>3. included' \in [Clients -> BOOLEAN] /\ affected' \subseteq Clients
  BY <1>1, <1>2, SetAffectedType
<1>4. role' \in [Clients -> Roles] /\ items' \in Nat
  <2>1. role' \in [Clients -> Roles]
    BY <1>1, <1>2 DEF TypeOK
  <2>2. items' = items + 1
    BY DEF AdminRole, NextItem
  <2> QED
    BY <2>1, <2>2 DEF TypeOK
<1>5. TypeOK'
  <2>1. UNCHANGED <<alive, exists, flags, default_role, max_size, participants,
                    nick, affiliation, view, lists, acl, phase, sender>>
    BY DEF AdminRole, config
  <2> QED
    BY <1>3, <1>4, <2>1 DEF TypeOK
<1>6. AdminsModerate'
  <2> SUFFICES ASSUME NEW p \in participants, affiliation[p] >= AFFIL_ADMIN
               PROVE  role'[p] = ROLE_MODERATOR
    BY DEF AdminRole, AdminsModerate
  <2>1. affiliation[p] \in Int /\ affiliation[t] \in Int /\ AFFIL_ADMIN \in Int
    BY <1>2 DEF TypeOK, Affils, AFFIL_ADMIN
  <2>2. p # t
    BY <1>1, <2>1
  <2> QED
    BY <1>1, <2>2 DEF TypeOK, AdminsModerate
<1> QED
  BY <1>5, <1>6 DEF AdminRole, NicksDistinct, EntriesUnique

\* <item affiliation/>: one move in the lists, and everybody whose affiliation
\* changes gets the role that goes with it.
LEMMA AdminAffiliationInv ==
    ASSUME RoomInv, NEW u \in Users, NEW a \in Affils, AdminAffiliation(u, a)
    PROVE  RoomInv'
<1> USE DEF RoomInv
<1> DEFINE m == Moved(lists, a, u)
           changed(got) == {p \in participants : got[p] # affiliation[p]}
<1>1. PICK got \in LookedUp(m) :
        /\ \A p \in participants : got[p] # None
        /\ affiliation' = [p \in Clients |-> IF p \in changed(got) THEN got[p]
                                              ELSE affiliation[p]]
        /\ role' = [p \in Clients |-> IF p \in changed(got)
                                       THEN RoleAfterChange(got[p])
                                       ELSE role[p]]
        /\ participant_set_affected(changed(got))
  BY DEF AdminAffiliation
<1>2. \A p \in participants : got[p] \in Affils
  <2>1. \A p \in participants : got[p] \in Affils \cup {None}
    BY DEF LookedUp, affiliationss_get_by_jid, AFFIL_OWNER, Affils
  <2> QED
    BY <1>1, <2>1
<1>3. \A x \in Affils : /\ RoleAfterChange(x) \in Roles
                        /\ x >= AFFIL_ADMIN => RoleAfterChange(x) = ROLE_MODERATOR
  BY DEF RoleAfterChange, Roles, ROLE_MODERATOR, ROLE_NONE, ROLE_PARTICIPANT
<1>4. included' \in [Clients -> BOOLEAN] /\ affected' \subseteq Clients
  BY <1>1, SetAffectedType DEF TypeOK
<1>5. lists' \in [Affils -> SUBSET Users] /\ Unique(lists')
  BY MovedIsUnique DEF AdminAffiliation, TypeOK, EntriesUnique, Unique
<1>6. affiliation' \in [Clients -> Affils]
  BY <1>1, <1>2 DEF TypeOK
<1>7. role' \in [Clients -> Roles]
  BY <1>1, <1>2, <1>3 DEF TypeOK
<1>8. items' \in Nat
  BY DEF AdminAffiliation, NextItem, TypeOK
<1>9. TypeOK'
  <2>1. UNCHANGED <<alive, exists, flags, default_role, max_size, participants,
                    nick, view, acl, phase, sender>>
    BY DEF AdminAffiliation, config
  <2> QED
    BY <1>4, <1>5, <1>6, <1>7, <1>8, <2>1 DEF TypeOK
<1>10. AdminsModerate'
  <2> SUFFICES ASSUME NEW p \in participants, affiliation'[p] >= AFFIL_ADMIN
               PROVE  role'[p] = ROLE_MODERATOR
    BY DEF AdminAffiliation, AdminsModerate
  <2>1. p \in Clients
    BY DEF TypeOK
  <2>2. CASE p \in changed(got)
    BY <1>1, <1>2, <1>3, <2>1, <2>2
  <2>3. CASE p \notin changed(got)
    BY <1>1, <2>1, <2>3 DEF AdminsModerate
  <2> QED
    BY <2>2, <2>3
<1> QED
  BY <1>5, <1>9, <1>10 DEF AdminAffiliation, NicksDistinct, EntriesUnique, Unique

\* <destroy/> leaves no affiliation that would ask for a role.
LEMMA OwnerDestroyInv ==
    ASSUME RoomInv, NEW c \in Clients, OwnerDestroy(c)
    PROVE  RoomInv'
<1> USE DEF RoomInv
<1>1. PICK s \in participants_find_by_jid(c) : sender' = s
  BY DEF OwnerDestroy
<1>2. s \in Clients
  BY DEF participants_find_by_jid, TypeOK
<1>3. included' \in [Clients -> BOOLEAN] /\ affected' \subseteq Clients
  BY SetAffectedType DEF OwnerDestroy, TypeOK
<1>4. flags' \subseteq Flags
  BY DEF OwnerDestroy, TypeOK, Flags
<1>5. role' \in [Clients -> Roles] /\ affiliation' \in [Clients -> Affils]
  BY DEF OwnerDestroy, Roles, Affils, ROLE_NONE, AFFIL_NONE
<1>6. UNCHANGED <<alive, exists, default_role, max_size, participants, nick,
                  view, lists, acl, items>>
  BY DEF OwnerDestroy
<1>7. phase' \in {"idle", "items", "affected"} /\ sender' \in Clients \cup {None}
  BY <1>1, <1>2 DEF OwnerDestroy
<1>8. TypeOK'
  BY <1>3, <1>4, <1>5, <1>6, <1>7 DEF TypeOK
<1>9. AdminsModerate'
  BY DEF OwnerDestroy, AdminsModerate, TypeOK, AFFIL_NONE, AFFIL_ADMIN
<1> QED
  BY <1>6, <1>8, <1>9 DEF NicksDistinct, EntriesUnique

\* A form takes the role only from those who are not even members.
LEMMA OwnerConfigInv ==
    ASSUME RoomInv, NEW c \in Clients, NEW on \in SUBSET ConfigFlags,
           NEW off \in SUBSET (ConfigFlags \ on),
           NEW limit \in Limits \cup {max_size},
           NEW default \in {ROLE_VISITOR, ROLE_PARTICIPANT},
           OwnerConfig(c, on, off, limit, default)
    PROVE  RoomInv'
<1> USE DEF RoomInv
<1> DEFINE out == IF "membersonly" \in flags'
                  THEN {p \in participants : affiliation[p] < AFFIL_MEMBER}
                  ELSE {}
<1>1. PICK s \in participants_find_by_jid(c) :
        sender' = s /\ flags' = room_config_option_set(s, on, off)
  BY DEF OwnerConfig
<1>2. s \in Clients
  BY DEF participants_find_by_jid, TypeOK
<1>3. flags' \subseteq Flags
  <2>1. ConfigFlags \subseteq Flags /\ flags \subseteq Flags
    BY RoomAssumption DEF TypeOK
  <2> QED
    BY <1>1, <2>1 DEF room_config_option_set
<1>4. max_size' \in 1 .. PARTICIPANTS_LIMIT
  <2>1. limit \in Int
    BY RoomAssumption DEF TypeOK, PARTICIPANTS_LIMIT
  <2> QED
    BY <2>1 DEF OwnerConfig, MaxUsers, PARTICIPANTS_LIMIT
<1>5. default_role' \in Roles
  BY DEF OwnerConfig, Roles, ROLE_VISITOR, ROLE_PARTICIPANT
<1>6. role' = [p \in Clients |-> IF p \in out THEN ROLE_NONE ELSE role[p]]
      /\ participant_set_affected(out)
  BY DEF OwnerConfig
<1>7. included' \in [Clients -> BOOLEAN] /\ affected' \subseteq Clients
  <2>1. out \in SUBSET Clients
    BY DEF TypeOK
  <2> QED
    BY <1>6, <2>1, SetAffectedType
<1>8. role' \in [Clients -> Roles]
  BY <1>6 DEF TypeOK, Roles, ROLE_NONE
<1>9. UNCHANGED <<alive, exists, participants, nick, affiliation, view, lists,
                  acl, items>>
  BY DEF OwnerConfig
<1>10. phase' \in {"idle", "items", "affected"} /\ sender' \in Clients \cup {None}
  BY <1>1, <1>2 DEF OwnerConfig
<1>11. TypeOK'
  BY <1>3, <1>4, <1>5, <1>7, <1>8, <1>9, <1>10 DEF TypeOK
<1>12. AdminsModerate'
  <2> SUFFICES ASSUME NEW p \in participants, affiliation[p] >= AFFIL_ADMIN
               PROVE  role'[p] = ROLE_MODERATOR
    BY <1>9 DEF AdminsModerate
  <2>1. p \in Clients /\ affiliation[p] \in Affils
    BY DEF TypeOK
  <2>2. p \notin out
    BY <2>1 DEF Affils, AFFIL_ADMIN, AFFIL_MEMBER
  <2> QED
    BY <1>6, <2>1, <2>2 DEF AdminsModerate
<1> QED
  BY <1>9, <1>11, <1>12 DEF NicksDistinct, EntriesUnique

\* A turn of the affected loop removes one occupant or tells about one.
LEMMA AffectInv ==
    ASSUME RoomInv, NEW c \in Clients, Affect(c)
    PROVE  RoomInv'
<1> USE DEF RoomInv
<1>1. /\ UNCHANGED <<alive, exists, default_role, max_size, lists, acl, phase,
                     sender, items>>
      /\ affected' \in SUBSET Clients
  BY DEF Affect, TypeOK
<1>2. CASE room_leave(c, room_broadcast_presence(view, participants, nick[c], Absent))
  <2>1. Absent \in Seen
    BY DEF Seen
  <2>2. room_broadcast_presence(view, participants, nick[c], Absent)
          \in [Clients -> [Nicks -> Seen]]
    BY <2>1, BroadcastType DEF TypeOK
  <2> QED
    BY <1>1, <1>2, <2>2, LeaveInv
<1>3. CASE /\ included' = [included EXCEPT ![c] = FALSE]
           /\ view' = room_broadcast_presence(view, participants, nick[c],
                                Presence(affiliation[c], role[c]))
           /\ UNCHANGED <<flags, participants, nick, affiliation, role>>
  <2>1. Presence(affiliation[c], role[c]) \in Seen
    BY PresenceIsSeen DEF TypeOK
  <2>2. view' \in [Clients -> [Nicks -> Seen]]
    BY <1>3, <2>1, BroadcastType DEF TypeOK
  <2>3. included' \in [Clients -> BOOLEAN]
    BY <1>3 DEF TypeOK
  <2>4. TypeOK'
    BY <1>1, <1>3, <2>2, <2>3 DEF TypeOK
  <2> QED
    BY <1>1, <1>3, <2>4 DEF NicksDistinct, EntriesUnique, AdminsModerate
<1> QED
  BY <1>2, <1>3 DEF Affect

\* An empty room with empty lists satisfies the invariant.
LEMMA EmptyRoom ==
    ASSUME participants = {}, lists = [a \in Affils |-> {}]
    PROVE  NicksDistinct /\ EntriesUnique /\ AdminsModerate
<1>1. AFFIL_NONE \in Affils
  BY DEF AFFIL_NONE, Affils
<1> QED
  BY <1>1 DEF NicksDistinct, EntriesUnique, AdminsModerate

\* The first state: no room, with an ACL loaded.
LEMMA RoomInit == Init => RoomInv
<1> SUFFICES ASSUME Init PROVE RoomInv
  OBVIOUS
<1>1. PICK t \in AclTables : Fresh(t)
  BY DEF Init
<1>2. Absent \in Seen
  BY DEF Seen
<1>3. view \in [Clients -> [Nicks -> Seen]]
  BY <1>1, <1>2 DEF Fresh, EmptyView
<1>4. AFFIL_NONE \in Affils /\ ROLE_NONE \in Roles /\ ROLE_PARTICIPANT \in Roles
  BY DEF AFFIL_NONE, Affils, ROLE_NONE, ROLE_PARTICIPANT, Roles
<1>5. flags \subseteq Flags /\ max_size \in 1 .. PARTICIPANTS_LIMIT
  BY <1>1 DEF Fresh, Flags, PARTICIPANTS_LIMIT
<1>6. alive \in BOOLEAN /\ exists \in BOOLEAN
  BY <1>1 DEF Fresh, Init
<1>7. TypeOK
  BY <1>1, <1>3, <1>4, <1>5, <1>6 DEF Fresh, TypeOK
<1> QED
  BY <1>1, <1>7, EmptyRoom DEF Fresh, RoomInv

\* rooms_destroy_room leaves what room_init makes.
LEMMA DestroyInv ==
    ASSUME RoomInv, rooms_destroy_room
    PROVE  RoomInv'
<1> USE DEF RoomInv, rooms_destroy_room
<1>1. Absent \in Seen
  BY DEF Seen
<1>2. view' \in [Clients -> [Nicks -> Seen]]
  BY <1>1 DEF EmptyView
<1>3. AFFIL_NONE \in Affils /\ ROLE_NONE \in Roles /\ ROLE_PARTICIPANT \in Roles
  BY DEF AFFIL_NONE, Affils, ROLE_NONE, ROLE_PARTICIPANT, Roles
<1>4. flags' \subseteq Flags /\ max_size' \in 1 .. PARTICIPANTS_LIMIT
  BY DEF Flags, PARTICIPANTS_LIMIT
<1>5. UNCHANGED <<alive, acl, phase, sender, items, affected>> /\ exists' = FALSE
  BY DEF request
<1>6. TypeOK'
  BY <1>2, <1>3, <1>4, <1>5 DEF TypeOK
<1>7. NicksDistinct' /\ EntriesUnique' /\ AdminsModerate'
  <2>1. AFFIL_NONE \in Affils
    BY DEF AFFIL_NONE, Affils
  <2> QED
    BY <2>1 DEF NicksDistinct, EntriesUnique, AdminsModerate
<1> QED
  BY <1>6, <1>7

\* Every step keeps the invariant.
LEMMA RoomStep == RoomInv /\ [Next]_vars => RoomInv'
<1> SUFFICES ASSUME RoomInv, [Next]_vars PROVE RoomInv'
  OBVIOUS
<1> USE DEF RoomInv
\* What is left as it was.
<1> DEFINE Lists == UNCHANGED lists
           Occupants == UNCHANGED <<participants, nick, affiliation, role>>
<1>kept. ASSUME TypeOK', Lists, Occupants PROVE RoomInv'
  BY <1>kept DEF NicksDistinct, EntriesUnique, AdminsModerate
<1>dead. ASSUME Crash PROVE RoomInv'
  BY <1>dead, <1>kept DEF Crash, TypeOK, config, occupants, request
<1>1. ASSUME NEW c \in Clients, rooms_create_room(c) PROVE RoomInv'
  BY <1>1, <1>kept DEF rooms_create_room, TypeOK, config, occupants, request
<1>2. CASE rooms_destroy_room
  BY <1>2, DestroyInv
<1>3. CASE acl_deserialize
  BY <1>3, <1>kept DEF acl_deserialize, TypeOK, config, occupants, request
<1>4. ASSUME NEW c \in Clients, NEW n \in Nicks, NEW right \in BOOLEAN,
             Join(c, n, right)
      PROVE  RoomInv'
  BY <1>4, LookupIsAffil, JoinInv DEF Join
<1>5. ASSUME NEW c \in Clients, NEW n \in Nicks, NEW right \in BOOLEAN,
             JoinRefused(c, n, right)
      PROVE  RoomInv'
  BY <1>5, JoinListsInv DEF JoinRefused
<1>6. ASSUME NEW c \in Clients, NEW n \in Nicks, JoinFaults(c, n) PROVE RoomInv'
  BY <1>6, <1>dead DEF JoinFaults
<1>7. ASSUME NEW c \in Clients, UpdatePresence(c) PROVE RoomInv'
  <2>1. PICK s \in participants_find_by_jid(c) :
          view' = room_broadcast_presence(view, participants, nick[s],
                                          Presence(affiliation[s], role[s]))
    BY <1>7 DEF UpdatePresence
  <2>2. s \in Clients
    BY DEF participants_find_by_jid, TypeOK
  <2>3. Presence(affiliation[s], role[s]) \in Seen
    BY <2>2, PresenceIsSeen DEF TypeOK
  <2>4. view' \in [Clients -> [Nicks -> Seen]]
    BY <2>1, <2>3, BroadcastType DEF TypeOK
  <2>5. flags' \subseteq Flags
    BY <1>7 DEF UpdatePresence, TypeOK
  <2> QED
    BY <1>7, <1>kept, <2>4, <2>5 DEF UpdatePresence, TypeOK, request
<1>8. ASSUME NEW c \in Clients, NEW n \in Nicks, ChangeNick(c, n) PROVE RoomInv'
  BY <1>8, ChangeNickInv
<1>9. ASSUME NEW c \in Clients, Leave(c) PROVE RoomInv'
  <2>1. PICK s \in participants_find_by_jid(c) :
          room_leave(s, room_broadcast_presence(view, participants, nick[s], Absent))
    BY <1>9 DEF Leave
  <2>2. s \in Clients
    BY DEF participants_find_by_jid, TypeOK
  <2>3. room_broadcast_presence(view, participants, nick[s], Absent)
          \in [Clients -> [Nicks -> Seen]]
    BY BroadcastType DEF TypeOK, Seen
  <2>4. UNCHANGED <<alive, exists, default_role, max_size, lists, acl, phase,
                    sender, items, affected>>
    BY <1>9 DEF Leave, request
  <2> QED
    BY <2>1, <2>2, <2>3, <2>4, LeaveInv DEF TypeOK
<1>10. ASSUME NEW c \in Clients, AdminStart(c) PROVE RoomInv'
  <2>1. PICK s \in participants_find_by_jid(c) : sender' = s
    BY <1>10 DEF AdminStart
  <2>2. sender' \in Clients \cup {None}
    BY <2>1 DEF participants_find_by_jid, TypeOK
  <2> QED
    BY <1>10, <1>kept, <2>2 DEF AdminStart, TypeOK, config, occupants
<1>11. ASSUME NEW n \in Nicks, NEW r \in Roles, AdminRole(n, r) PROVE RoomInv'
  BY <1>11, AdminRoleInv
<1>12. ASSUME NEW u \in Users, NEW a \in Affils, AdminAffiliation(u, a)
       PROVE  RoomInv'
  BY <1>12, AdminAffiliationInv
<1>13. ASSUME NEW u \in Users, NEW a \in Affils, AdminFaults(u, a) PROVE RoomInv'
  BY <1>13, <1>dead DEF AdminFaults
<1>14. CASE AdminBounce
  BY <1>14, <1>kept DEF AdminBounce, TypeOK, config, occupants
<1>15. CASE AdminDone
  BY <1>15, <1>kept DEF AdminDone, TypeOK, config, occupants
<1>16. ASSUME NEW c \in Clients, OwnerDestroy(c) PROVE RoomInv'
  BY <1>16, OwnerDestroyInv
<1>17. ASSUME NEW c \in Clients, NEW on \in SUBSET ConfigFlags,
              NEW off \in SUBSET (ConfigFlags \ on),
              NEW limit \in Limits \cup {max_size},
              NEW default \in {ROLE_VISITOR, ROLE_PARTICIPANT},
              OwnerConfig(c, on, off, limit, default)
       PROVE  RoomInv'
  BY <1>17, OwnerConfigInv
<1>18. ASSUME NEW c \in Clients, Affect(c) PROVE RoomInv'
  BY <1>18, AffectInv
<1>19. CASE Reply
  BY <1>19, <1>kept DEF Reply, TypeOK, config, occupants
<1>20. CASE UNCHANGED vars
  BY <1>20, <1>kept DEF vars, TypeOK, config, occupants, request
<1> QED
  BY <1>1, <1>2, <1>3, <1>4, <1>5, <1>6, <1>7, <1>8, <1>9, <1>10, <1>11, <1>12,
     <1>13, <1>14, <1>15, <1>16, <1>17, <1>18, <1>19, <1>20 DEF Next

\* The room's invariant, from which the theorems below are read off.
THEOREM RoomAlways == Spec => []RoomInv
  BY RoomInit, RoomStep, PTL DEF Spec

\* The state of a room is well formed whatever stanzas arrive (room.c): in
\* particular max_size stays between 1 and the size of an AID.
THEOREM RoomTypeCorrect == Spec => []TypeOK
<1>1. RoomInv => TypeOK
  BY DEF RoomInv
<1> QED
  BY <1>1, RoomAlways, PTL

\* No two occupants ever share a nick (route_presence's searches by nick).
THEOREM NicksAlwaysDistinct == Spec => []NicksDistinct
<1>1. RoomInv => NicksDistinct
  BY DEF RoomInv
<1> QED
  BY <1>1, RoomAlways, PTL

\* affiliationss_add never leaves a user on two lists, however many moves are
\* made and even when the lookup reads through the wrong cast.
THEOREM EntriesAlwaysUnique == Spec => []EntriesUnique
<1>1. RoomInv => EntriesUnique
  BY DEF RoomInv
<1> QED
  BY <1>1, RoomAlways, PTL

\* An admin or owner who is in the room is a moderator (room_join and the two
\* kinds of <item/> of route_iq).
THEOREM AdminsAlwaysModerate == Spec => []AdminsModerate
<1>1. RoomInv => AdminsModerate
  BY DEF RoomInv
<1> QED
  BY <1>1, RoomAlways, PTL

\* Whoever a handler of room.c finds, by nick or by address, is one occupant
\* with the rights that one entry gives him.
THEOREM RoomAlwaysSound == Spec => []RoomSound
<1>1. RoomInv => RoomSound
  BY DEF RoomInv, RoomSound
<1> QED
  BY <1>1, RoomAlways, PTL

---------------------------------------------------------------------------
(* Who may stay, and when an empty room goes: inductive without a look at  *)
(* the phase, because a request marks whomever it changes.                 *)

\* An occupant whom the loop over the affected list would keep.
Entitled(p) ==
    /\ role[p] # ROLE_NONE /\ affiliation[p] # AFFIL_OUTCAST
    /\ "membersonly" \in flags => affiliation[p] >= AFFIL_MEMBER

NobodyLingers ==
    "destroyed" \notin flags =>
        \A p \in participants : ~included[p] => Entitled(p)

EmptyIsMarked ==
    participants = {} /\ "persistent" \notin flags =>
        flags \cap {"destroyed", "justcreated"} # {}

StayInv == RoomInv /\ default_role # ROLE_NONE /\ NobodyLingers /\ EmptyIsMarked


\* Who is in the room may stay there or is marked.
LEMMA StayStep == StayInv /\ [Next]_vars => StayInv'
<1> SUFFICES ASSUME StayInv, [Next]_vars PROVE StayInv'
  OBVIOUS
<1> USE DEF StayInv
<1>0. RoomInv' /\ TypeOK
  BY RoomStep DEF RoomInv
<1> DEFINE Rest == default_role # ROLE_NONE /\ NobodyLingers /\ EmptyIsMarked
\* The steps that change nobody, and at most take "justcreated" from a room
\* that is not empty.
<1>kept. ASSUME UNCHANGED <<participants, affiliation, role, included, default_role>>,
                \/ flags' = flags
                \/ participants # {} /\ flags' = flags \ {"justcreated"}
         PROVE  Rest'
  BY <1>kept DEF NobodyLingers, EmptyIsMarked, Entitled
<1>left. ASSUME NEW c \in Clients, NEW v, room_leave(c, v), UNCHANGED default_role
         PROVE  Rest'
  <2>1. /\ "persistent" \in flags' <=> "persistent" \in flags
        /\ "membersonly" \in flags' <=> "membersonly" \in flags
        /\ "destroyed" \in flags => "destroyed" \in flags'
        /\ "justcreated" \in flags => "justcreated" \in flags'
    BY <1>left DEF room_leave
  <2>2. \A p \in participants' :
          /\ p \in participants /\ affiliation'[p] = affiliation[p]
          /\ role'[p] = role[p] /\ included'[p] = included[p]
    BY <1>left, <1>0 DEF room_leave, TypeOK
  <2>3. NobodyLingers'
    BY <2>1, <2>2 DEF NobodyLingers, Entitled
  <2>4. ASSUME participants' = {}, "persistent" \notin flags'
        PROVE  flags' \cap {"destroyed", "justcreated"} # {}
    <3>1. CASE participants = {}
      BY <2>1, <2>4, <3>1 DEF EmptyIsMarked
    <3>2. CASE participants # {}
      <4>1. participants = {c}
        BY <1>left, <2>4, <3>2 DEF room_leave
      <4> QED
        BY <1>left, <2>1, <2>4, <4>1 DEF room_leave
    <3> QED
      BY <3>1, <3>2
  <2> QED
    BY <1>left, <2>3, <2>4 DEF EmptyIsMarked
<1>dead. ASSUME Crash PROVE Rest'
  BY <1>dead, <1>kept DEF Crash, config, occupants
<1>1. ASSUME NEW c \in Clients, rooms_create_room(c) PROVE Rest'
  BY <1>1, <1>kept DEF rooms_create_room, config, occupants
<1>2. ASSUME rooms_destroy_room PROVE Rest'
  BY <1>2 DEF rooms_destroy_room, NobodyLingers, EmptyIsMarked, ROLE_NONE, ROLE_PARTICIPANT
<1>3. ASSUME acl_deserialize PROVE Rest'
  BY <1>3, <1>kept DEF acl_deserialize, config, occupants
<1>4. ASSUME NEW c \in Clients, NEW n \in Nicks, NEW right \in BOOLEAN,
             Join(c, n, right)
      PROVE  Rest'
  <2>1. PICK a \in affiliationss_get_by_jid(JoinLists(c), c) \ {None} :
          Admitted(c, a, right) /\ room_join(c, n, a)
    BY <1>4 DEF Join
  <2>2. a \in Affils
    BY <2>1, LookupIsAffil
  <2>3. a # AFFIL_OUTCAST /\ ("membersonly" \in flags => a >= AFFIL_MEMBER)
    <3>1. CASE acl[c] >= ACL_MUC_ADMIN
      <4>1. a = AFFIL_OWNER
        BY <2>1, <3>1 DEF affiliationss_get_by_jid
      <4> QED
        BY <4>1 DEF AFFIL_OWNER, AFFIL_OUTCAST, AFFIL_MEMBER
    <3>2. CASE ~(acl[c] >= ACL_MUC_ADMIN)
      BY <2>1, <3>2 DEF Admitted
    <3> QED
      BY <3>1, <3>2
  <2>4. room_role_for_affiliation(a) # ROLE_NONE
    BY DEF room_role_for_affiliation, ROLE_NONE, ROLE_PARTICIPANT, ROLE_MODERATOR
  <2>5. /\ c \in participants' /\ default_role' = default_role
        /\ "membersonly" \in flags' <=> "membersonly" \in flags
        /\ "destroyed" \in flags' <=> "destroyed" \in flags
        /\ affiliation'[c] = a /\ role'[c] = room_role_for_affiliation(a)
    BY <1>0, <2>1 DEF room_join, TypeOK
  <2>6. \A p \in participants' : p # c =>
          /\ p \in participants /\ affiliation'[p] = affiliation[p]
          /\ role'[p] = role[p] /\ included'[p] = included[p]
    BY <1>0, <2>1 DEF room_join, TypeOK
  <2>7. NobodyLingers'
    BY <2>3, <2>4, <2>5, <2>6 DEF NobodyLingers, Entitled
  <2> QED
    BY <2>5, <2>7 DEF EmptyIsMarked
<1>5. ASSUME NEW c \in Clients, NEW n \in Nicks, NEW right \in BOOLEAN,
             JoinRefused(c, n, right)
      PROVE  Rest'
  BY <1>5, <1>kept DEF JoinRefused, config, occupants
<1>6. ASSUME NEW c \in Clients, NEW n \in Nicks, JoinFaults(c, n) PROVE Rest'
  BY <1>6, <1>dead DEF JoinFaults
<1>7. ASSUME NEW c \in Clients, UpdatePresence(c) PROVE Rest'
  BY <1>7, <1>kept DEF UpdatePresence, participants_find_by_jid
<1>8. ASSUME NEW c \in Clients, NEW n \in Nicks, ChangeNick(c, n) PROVE Rest'
  BY <1>8, <1>kept DEF ChangeNick, participants_find_by_jid
<1>9. ASSUME NEW c \in Clients, Leave(c) PROVE Rest'
  <2>1. PICK s \in participants_find_by_jid(c) :
          room_leave(s, room_broadcast_presence(view, participants, nick[s], Absent))
    BY <1>9 DEF Leave
  <2>2. s \in Clients
    BY <1>0 DEF participants_find_by_jid, TypeOK
  <2> QED
    BY <1>9, <1>left, <2>1, <2>2 DEF Leave
<1>10. ASSUME NEW c \in Clients, AdminStart(c) PROVE Rest'
  BY <1>10, <1>kept DEF AdminStart, config, occupants
\* The steps that mark whomever they change.
<1>marked. ASSUME NEW S \in SUBSET Clients, participant_set_affected(S),
                  \A p \in participants \ S :
                     affiliation'[p] = affiliation[p] /\ role'[p] = role[p],
                  UNCHANGED <<participants, flags, default_role>>
           PROVE  Rest'
  <2>1. \A p \in participants : ~included'[p] => ~included[p] /\ p \notin S
    BY <1>marked, <1>0 DEF participant_set_affected, TypeOK
  <2> QED
    BY <1>marked, <2>1 DEF NobodyLingers, EmptyIsMarked, Entitled
<1>11. ASSUME NEW n \in Nicks, NEW r \in Roles, AdminRole(n, r) PROVE Rest'
  <2>1. PICK t \in participants_find_by_nick(n) :
          role' = [role EXCEPT ![t] = r] /\ participant_set_affected({t})
    BY <1>11 DEF AdminRole
  <2>2. t \in Clients
    BY <1>0 DEF participants_find_by_nick, TypeOK
  <2>3. \A p \in participants \ {t} : role'[p] = role[p]
    BY <1>0, <2>1 DEF TypeOK
  <2> QED
    BY <1>11, <1>marked, <2>1, <2>2, <2>3 DEF AdminRole, config
<1>12. ASSUME NEW u \in Users, NEW a \in Affils, AdminAffiliation(u, a) PROVE Rest'
  <2>1. PICK got \in LookedUp(Moved(lists, a, u)) :
          LET changed == {p \in participants : got[p] # affiliation[p]}
          IN  /\ affiliation' = [p \in Clients |-> IF p \in changed THEN got[p]
                                                   ELSE affiliation[p]]
              /\ role' = [p \in Clients |-> IF p \in changed
                                            THEN RoleAfterChange(got[p])
                                            ELSE role[p]]
              /\ participant_set_affected(changed)
    BY <1>12 DEF AdminAffiliation
  <2> DEFINE changed == {p \in participants : got[p] # affiliation[p]}
  <2>2. changed \in SUBSET Clients /\ participant_set_affected(changed)
    BY <1>0, <2>1 DEF TypeOK
  <2>3. \A p \in participants \ changed :
           affiliation'[p] = affiliation[p] /\ role'[p] = role[p]
    BY <1>0, <2>1 DEF TypeOK
  <2> HIDE DEF changed
  <2> QED
    BY <1>12, <1>marked, <2>2, <2>3 DEF AdminAffiliation, config
<1>13. ASSUME NEW u \in Users, NEW a \in Affils, AdminFaults(u, a) PROVE Rest'
  BY <1>13, <1>dead DEF AdminFaults
<1>14. ASSUME AdminBounce PROVE Rest'
  BY <1>14, <1>kept DEF AdminBounce, config, occupants
<1>15. ASSUME AdminDone PROVE Rest'
  BY <1>15, <1>kept DEF AdminDone, config, occupants
<1>16. ASSUME NEW c \in Clients, OwnerDestroy(c) PROVE Rest'
  BY <1>16 DEF OwnerDestroy, NobodyLingers, EmptyIsMarked
<1>17. ASSUME NEW c \in Clients, NEW on \in SUBSET ConfigFlags,
              NEW off \in SUBSET (ConfigFlags \ on),
              NEW limit \in Limits \cup {max_size},
              NEW default \in {ROLE_VISITOR, ROLE_PARTICIPANT},
              OwnerConfig(c, on, off, limit, default)
       PROVE  Rest'
  <2> DEFINE out == IF "membersonly" \in flags'
                    THEN {p \in participants : affiliation[p] < AFFIL_MEMBER}
                    ELSE {}
  <2>1. PICK s \in participants_find_by_jid(c) :
          flags' = room_config_option_set(s, on, off)
    BY <1>17 DEF OwnerConfig
  <2>2. participants # {} /\ UNCHANGED <<participants, affiliation>>
    BY <1>17, <2>1 DEF participants_find_by_jid, OwnerConfig
  <2>3. "destroyed" \in flags => "destroyed" \in flags'
    <3>1. "destroyed" \notin off
      BY RoomAssumption
    <3> QED
      BY <2>1, <3>1 DEF room_config_option_set
  <2>4. default_role' # ROLE_NONE
    BY <1>17 DEF OwnerConfig, ROLE_VISITOR, ROLE_PARTICIPANT, ROLE_NONE
  <2>5. /\ participant_set_affected(out)
        /\ role' = [p \in Clients |-> IF p \in out THEN ROLE_NONE ELSE role[p]]
    BY <1>17 DEF OwnerConfig
  <2>6. ASSUME NEW p \in participants, ~included'[p], "destroyed" \notin flags'
        PROVE  Entitled(p)'
    <3>1. p \in Clients /\ affiliation[p] \in Affils
      BY <1>0 DEF TypeOK
    <3>2. p \notin out /\ ~included[p]
      BY <2>5, <2>6, <3>1 DEF participant_set_affected
    <3>3. role'[p] = role[p] /\ role[p] # ROLE_NONE /\ affiliation[p] # AFFIL_OUTCAST
      BY <2>3, <2>5, <2>6, <3>1, <3>2 DEF NobodyLingers, Entitled
    <3>4. "membersonly" \in flags' => affiliation[p] >= AFFIL_MEMBER
      BY <3>1, <3>2 DEF Affils, AFFIL_MEMBER
    <3> QED
      BY <2>2, <3>3, <3>4 DEF Entitled
  <2> QED
    BY <2>2, <2>4, <2>6 DEF NobodyLingers, EmptyIsMarked
<1>18. ASSUME NEW c \in Clients, Affect(c) PROVE Rest'
  <2>1. CASE \E v : room_leave(c, v)
    BY <1>18, <1>left, <2>1 DEF Affect
  <2>2. CASE ~\E v : room_leave(c, v)
    <3>1. /\ role[c] # ROLE_NONE /\ affiliation[c] # AFFIL_OUTCAST
          /\ "membersonly" \in flags => ~(affiliation[c] < AFFIL_MEMBER)
          /\ included' = [included EXCEPT ![c] = FALSE]
          /\ UNCHANGED <<flags, participants, affiliation, role, default_role>>
      BY <1>18, <2>2 DEF Affect
    <3>2. Entitled(c)
      <4>1. affiliation[c] \in Affils
        BY <1>0 DEF TypeOK
      <4> QED
        BY <3>1, <4>1 DEF Entitled, Affils, AFFIL_MEMBER
    <3>3. \A p \in participants : p # c => included'[p] = included[p]
      BY <1>0, <3>1 DEF TypeOK
    <3> QED
      BY <3>1, <3>2, <3>3 DEF NobodyLingers, EmptyIsMarked, Entitled
  <2> QED
    BY <2>1, <2>2
<1>19. ASSUME Reply PROVE Rest'
  BY <1>19, <1>kept DEF Reply, config, occupants
<1>20. ASSUME UNCHANGED vars PROVE Rest'
  BY <1>20, <1>kept DEF vars, config, occupants
<1> QED
  BY <1>0, <1>1, <1>2, <1>3, <1>4, <1>5, <1>6, <1>7, <1>8, <1>9, <1>10, <1>11,
     <1>12, <1>13, <1>14, <1>15, <1>16, <1>17, <1>18, <1>19, <1>20 DEF Next

\* The invariant of who may stay holds from the first room on.
LEMMA StayAlways == Spec => []StayInv
<1>1. Init => StayInv
  BY RoomInit DEF Init, Fresh, StayInv, NobodyLingers, EmptyIsMarked, ROLE_NONE,
     ROLE_PARTICIPANT
<1> QED
  BY <1>1, StayStep, PTL DEF Spec

\* No stanza leaves somebody in the room who should have been removed, unless
\* it was bounced after it had marked him (the loops of route_iq), however
\* many <item/>s it has and even when lookups read through the wrong cast.
THEOREM NeverGhosts == Spec => []NoGhosts
<1>1. StayInv => NoGhosts
  BY DEF StayInv, NobodyLingers, Entitled, NoGhosts
<1> QED
  BY <1>1, StayAlways, PTL

\* A temporary room is marked for its end with the last occupant's departure
\* (room_leave), whichever way that occupant goes.
THEOREM EmptyRoomAlwaysGoes == Spec => []EmptyRoomGoes
<1>1. StayInv => EmptyRoomGoes
  BY DEF StayInv, EmptyIsMarked, EmptyRoomGoes
<1> QED
  BY <1>1, StayAlways, PTL

---------------------------------------------------------------------------
(* What the occupants have been told: a request that is half way may have  *)
(* changed only those it has marked, and works off a list of occupants.    *)

AffectedHere ==
    affected \subseteq participants /\ (phase = "idle" => affected = {})

Pictures ==
    "destroyed" \notin flags =>
        \A c \in participants, n \in Nicks :
            LET holders == participants_find_by_nick(n)
            IN  /\ holders = {} => view[c][n] = Absent
                /\ \A p \in holders : ~included[p] =>
                      view[c][n] = Presence(affiliation[p], role[p])

ViewsInv == RoomInv /\ StayInv /\ AffectedHere /\ Pictures


\* What a broadcast changes of one occupant's picture: the entry of one nick.
LEMMA Broadcast ==
    ASSUME NEW v \in [Clients -> [Nicks -> Seen]], NEW S \in SUBSET Clients,
           NEW n \in Nicks, NEW p, NEW c \in S
    PROVE  /\ room_broadcast_presence(v, S, n, p)[c][n] = p
           /\ \A m \in Nicks : m # n =>
                 room_broadcast_presence(v, S, n, p)[c][m] = v[c][m]
  BY DEF room_broadcast_presence

\* The occupant who holds a nick is the only one.
LEMMA Holder ==
    ASSUME RoomInv, NEW p \in participants
    PROVE  nick[p] \in Nicks /\ participants_find_by_nick(nick[p]) = {p}
  BY DEF RoomInv, TypeOK, NicksDistinct, participants_find_by_nick

\* Pictures, one nick and one holder at a time.
Right(c, n) ==
    /\ (\A p \in participants : nick[p] # n) => view[c][n] = Absent
    /\ \A p \in participants : nick[p] = n /\ ~included[p] =>
          view[c][n] = Presence(affiliation[p], role[p])

\* What the occupants were told, one client and one nick at a time.
LEMMA PicturesRight ==
    Pictures <=> ("destroyed" \notin flags =>
                    \A c \in participants, n \in Nicks : Right(c, n))
  BY DEF Pictures, Right, participants_find_by_nick

\* room_leave: the others hear of it, and the nick is free.
LEMMA LeavePictures ==
    ASSUME ViewsInv, NEW s \in participants,
           room_leave(s, room_broadcast_presence(view, participants, nick[s], Absent))
    PROVE  "destroyed" \notin flags' =>
              \A c \in participants', n \in Nicks : Right(c, n)'
<1> SUFFICES ASSUME "destroyed" \notin flags',
                    NEW c \in participants', NEW n \in Nicks
             PROVE  Right(c, n)'
  OBVIOUS
<1>1. TypeOK /\ NicksDistinct
  BY DEF ViewsInv, RoomInv
<1>2. "destroyed" \notin flags
  BY DEF room_leave
<1>3. Right(c, n) /\ c \in participants /\ c # s /\ c \in Clients
  BY <1>1, <1>2, PicturesRight DEF ViewsInv, room_leave, TypeOK
<1>4. nick[s] \in Nicks
  BY Holder DEF ViewsInv
<1>5. view'[c] = room_broadcast_presence(view, participants, nick[s], Absent)[c]
  BY <1>3 DEF room_leave, room_broadcast_presence
<1>6. /\ view'[c][nick[s]] = Absent
      /\ n # nick[s] => view'[c][n] = view[c][n]
  <2>1. view \in [Clients -> [Nicks -> Seen]] /\ participants \in SUBSET Clients
    BY <1>1 DEF TypeOK
  <2> QED
    BY <1>3, <1>4, <1>5, <2>1, Broadcast
<1>7. \A p \in participants' :
         /\ p \in participants /\ p # s /\ nick'[p] = nick[p]
         /\ included'[p] = included[p]
         /\ affiliation'[p] = affiliation[p] /\ role'[p] = role[p]
  BY <1>1 DEF room_leave, TypeOK
<1>8. \A p \in participants : p # s => p \in participants'
  BY DEF room_leave
<1>9. CASE n = nick[s]
  <2>1. \A p \in participants' : nick'[p] # n
    BY <1>1, <1>7, <1>9 DEF NicksDistinct
  <2> QED
    BY <1>6, <1>9, <2>1 DEF Right
<1>10. CASE n # nick[s]
  <2>1. (\A p \in participants' : nick'[p] # n) => \A p \in participants : nick[p] # n
    BY <1>7, <1>8, <1>10
  <2>2. view'[c][n] = view[c][n]
    BY <1>6, <1>10
  <2> QED
    BY <1>3, <1>7, <2>1, <2>2 DEF Right
<1> QED
  BY <1>9, <1>10

\* room_join: the newcomer hears of everybody, and everybody of the newcomer.
LEMMA JoinPictures ==
    ASSUME ViewsInv, NEW c \in Clients, NEW n \in Nicks, WantsToJoin(c, n),
           NEW a \in Affils, room_join(c, n, a)
    PROVE  "destroyed" \notin flags' =>
              \A d \in participants', m \in Nicks : Right(d, m)'
<1> SUFFICES ASSUME "destroyed" \notin flags',
                    NEW d \in participants', NEW m \in Nicks
             PROVE  Right(d, m)'
  OBVIOUS
<1> DEFINE r == room_role_for_affiliation(a)
           told == [view EXCEPT ![c] = room_presences_send(c)]
<1>1. TypeOK /\ NicksDistinct /\ d \in Clients
  BY DEF ViewsInv, RoomInv, room_join, TypeOK
<1>2. "destroyed" \notin flags
  BY DEF room_join
<1>3. c \notin participants /\ (\A p \in participants : nick[p] # n)
  BY DEF WantsToJoin, participants_find_by_jid, participants_find_by_nick
<1>4. told \in [Clients -> [Nicks -> Seen]]
  BY <1>1, ViewTypes DEF TypeOK
<1>5. /\ view'[d][n] = Presence(a, r)
      /\ m # n => view'[d][m] = told[d][m]
  <2>1. participants \cup {c} \in SUBSET Clients /\ d \in participants \cup {c}
    BY <1>1 DEF TypeOK, room_join
  <2>2. view' = room_broadcast_presence(told, participants \cup {c}, n, Presence(a, r))
    BY DEF room_join
  <2> HIDE DEF told, r
  <2> QED
    BY <1>4, <2>1, <2>2, Broadcast
<1>6. \A p \in participants :
         /\ p \in participants' /\ p # c /\ nick'[p] = nick[p]
         /\ included'[p] = included[p]
         /\ affiliation'[p] = affiliation[p] /\ role'[p] = role[p]
  BY <1>1, <1>3 DEF room_join, TypeOK
<1>7. /\ participants' = participants \cup {c} /\ nick'[c] = n
      /\ affiliation'[c] = a /\ role'[c] = r
  BY <1>1 DEF room_join, TypeOK
<1>8. CASE m = n
  <2>1. \A p \in participants' : nick'[p] = n => p = c
    BY <1>3, <1>6, <1>7
  <2> QED
    BY <1>5, <1>7, <1>8, <2>1 DEF Right
<1>9. CASE m # n /\ d # c
  <2>1. Right(d, m) /\ told[d] = view[d]
    BY <1>1, <1>2, <1>7, <1>9, PicturesRight DEF ViewsInv, TypeOK
  <2>2. view'[d][m] = view[d][m]
    BY <1>5, <1>9, <2>1
  <2>3. \A p \in participants' : nick'[p] = m => p \in participants /\ nick[p] = m
    BY <1>6, <1>7, <1>9
  <2> QED
    BY <1>6, <2>1, <2>2, <2>3 DEF Right
<1>10. CASE m # n /\ d = c
  <2>1. view'[d][m] = room_presences_send(c)[m]
    BY <1>1, <1>5, <1>10 DEF TypeOK
  <2>2. ASSUME \A p \in participants' : nick'[p] # m PROVE view'[d][m] = Absent
    <3>1. participants_find_by_nick(m) \ {c} = {}
      BY <1>6, <2>2 DEF participants_find_by_nick
    <3> QED
      BY <2>1, <3>1 DEF room_presences_send
  <2>3. ASSUME NEW p \in participants', nick'[p] = m, ~included'[p]
        PROVE  view'[d][m] = Presence(affiliation'[p], role'[p])
    <3>1. p \in participants /\ nick[p] = m
      BY <1>6, <1>7, <1>10, <2>3
    <3>4. role[p] # ROLE_NONE
      BY <1>2, <1>6, <2>3, <3>1 DEF ViewsInv, StayInv, NobodyLingers, Entitled
    <3>2. participants_find_by_nick(m) \ {c} = {p}
      BY <1>3, <3>1, Holder DEF ViewsInv
    <3>3. room_presences_send(c)[m] = Presence(affiliation[p], role[p])
      BY <3>2, <3>4 DEF room_presences_send, Presence
    <3> QED
      BY <1>6, <2>1, <3>1, <3>3
  <2> QED
    BY <2>2, <2>3 DEF Right
<1> QED
  BY <1>8, <1>9, <1>10

\* A presence of an occupant as it is brings every picture of it up to date.
LEMMA TellPictures ==
    ASSUME ViewsInv, NEW s \in participants,
           view' = room_broadcast_presence(view, participants, nick[s],
                                           Presence(affiliation[s], role[s])),
           UNCHANGED <<participants, nick, affiliation, role>>,
           \A p \in participants : p # s => included'[p] = included[p],
           "destroyed" \notin flags' => "destroyed" \notin flags
    PROVE  "destroyed" \notin flags' =>
              \A c \in participants', n \in Nicks : Right(c, n)'
<1> SUFFICES ASSUME "destroyed" \notin flags',
                    NEW c \in participants, NEW n \in Nicks
             PROVE  Right(c, n)'
  OBVIOUS
<1>1. TypeOK /\ NicksDistinct /\ c \in Clients /\ Right(c, n)
  BY PicturesRight DEF ViewsInv, RoomInv, TypeOK
<1>2. nick[s] \in Nicks
  BY Holder DEF ViewsInv
<1>3. /\ view'[c][nick[s]] = Presence(affiliation[s], role[s])
      /\ n # nick[s] => view'[c][n] = view[c][n]
  <2>1. view \in [Clients -> [Nicks -> Seen]] /\ participants \in SUBSET Clients
    BY <1>1 DEF TypeOK
  <2> QED
    BY <1>2, <2>1, Broadcast
<1>4. CASE n = nick[s]
  <2>1. \A p \in participants : nick[p] = n => p = s
    BY <1>1, <1>4 DEF NicksDistinct
  <2> QED
    BY <1>3, <1>4, <2>1 DEF Right
<1>5. CASE n # nick[s]
  <2>1. view'[c][n] = view[c][n]
    BY <1>3, <1>5
  <2>2. \A p \in participants : nick[p] = n => included'[p] = included[p]
    BY <1>5
  <2> QED
    BY <1>1, <2>1, <2>2 DEF Right
<1> QED
  BY <1>4, <1>5

\* A change of nick: the old one goes, the new one comes.
LEMMA ChangeNickPictures ==
    ASSUME ViewsInv, NEW c \in Clients, NEW n \in Nicks, ChangeNick(c, n)
    PROVE  "destroyed" \notin flags' =>
              \A d \in participants', m \in Nicks : Right(d, m)'
<1> SUFFICES ASSUME "destroyed" \notin flags',
                    NEW d \in participants', NEW m \in Nicks
             PROVE  Right(d, m)'
  OBVIOUS
<1>1. PICK s \in participants_find_by_jid(c) :
        /\ nick' = [nick EXCEPT ![s] = n]
        /\ view' = room_broadcast_presence(
                     room_broadcast_presence(view, participants, nick[s], Absent),
                     participants, n, Presence(affiliation[s], role[s]))
  BY DEF ChangeNick
<1> DEFINE gone == room_broadcast_presence(view, participants, nick[s], Absent)
<1>2. TypeOK /\ NicksDistinct
  BY DEF ViewsInv, RoomInv
<1>3. /\ s \in participants /\ d \in participants /\ d \in Clients
      /\ UNCHANGED <<participants, affiliation, role, included>>
      /\ "destroyed" \notin flags
      /\ \A p \in participants : nick[p] # n
  BY <1>2 DEF ChangeNick, participants_find_by_jid, participants_find_by_nick, TypeOK
<1>4. nick[s] \in Nicks /\ nick[s] # n
  BY <1>3, Holder DEF ViewsInv
<1>5. view \in [Clients -> [Nicks -> Seen]] /\ participants \in SUBSET Clients
  BY <1>2 DEF TypeOK
<1>6. gone \in [Clients -> [Nicks -> Seen]]
  BY <1>5, BroadcastType DEF Seen
<1>7. gone[d][nick[s]] = Absent /\ (m # nick[s] => gone[d][m] = view[d][m])
  BY <1>3, <1>4, <1>5, Broadcast
<1>8. /\ view'[d][n] = Presence(affiliation[s], role[s])
      /\ m # n => view'[d][m] = gone[d][m]
  <2> HIDE DEF gone
  <2>1. view' = room_broadcast_presence(gone, participants, n,
                                        Presence(affiliation[s], role[s]))
    BY <1>1 DEF gone
  <2> DEFINE p == Presence(affiliation[s], role[s])
             b == room_broadcast_presence(gone, participants, n, p)
  <2>2. b[d][n] = p /\ \A x \in Nicks : x # n => b[d][x] = gone[d][x]
    <3> HIDE DEF p
    <3> QED
      BY <1>3, <1>5, <1>6, Broadcast
  <2>3. view' = b
    BY <2>1
  <2> QED
    BY <2>2, <2>3
<1>9. nick'[s] = n /\ \A p \in participants : p # s => nick'[p] = nick[p]
  BY <1>1, <1>2, <1>3 DEF TypeOK
<1>10. Right(d, m)
  BY <1>3, PicturesRight DEF ViewsInv
<1> HIDE DEF gone
<1>11. CASE m = n
  <2>1. \A p \in participants : nick'[p] = n => p = s
    BY <1>3, <1>9
  <2> QED
    BY <1>3, <1>8, <1>9, <1>11, <2>1 DEF Right
<1>12. CASE m = nick[s]
  <2>1. \A p \in participants : nick'[p] # m
    BY <1>2, <1>3, <1>4, <1>9, <1>12 DEF NicksDistinct
  <2>2. view'[d][m] = Absent
    BY <1>4, <1>7, <1>8, <1>12
  <2> QED
    BY <1>3, <2>1, <2>2 DEF Right
<1>13. CASE m # n /\ m # nick[s]
  <2>1. view'[d][m] = view[d][m]
    BY <1>7, <1>8, <1>13
  <2>2. \A p \in participants : nick'[p] = m <=> nick[p] = m
    BY <1>3, <1>9, <1>13
  <2> QED
    BY <1>3, <1>10, <2>1, <2>2 DEF Right
<1> QED
  BY <1>11, <1>12, <1>13

\* Every step keeps the pictures.
LEMMA ViewsStep == ViewsInv /\ [Next]_vars => ViewsInv'
<1> SUFFICES ASSUME ViewsInv, [Next]_vars PROVE ViewsInv'
  OBVIOUS
<1>0. RoomInv /\ AffectedHere /\ Pictures /\ RoomInv' /\ StayInv' /\ TypeOK
  BY RoomStep, StayStep DEF ViewsInv, RoomInv
<1> DEFINE Told == "destroyed" \notin flags =>
                      \A c \in participants, n \in Nicks : Right(c, n)
<1>here. ASSUME UNCHANGED <<participants, affected, phase>> PROVE AffectedHere'
  BY <1>0, <1>here DEF AffectedHere
<1>idle. ASSUME phase = "idle", UNCHANGED <<affected, phase>> PROVE AffectedHere'
  BY <1>0, <1>idle DEF AffectedHere
\* The steps that tell nobody anything, and mark whom they change.
<1>kept. ASSUME UNCHANGED <<participants, nick, view>>,
                \A p \in participants : ~included'[p] =>
                   /\ ~included[p]
                   /\ affiliation'[p] = affiliation[p] /\ role'[p] = role[p],
                "destroyed" \notin flags' => "destroyed" \notin flags
         PROVE  Told'
  BY <1>0, <1>kept, PicturesRight DEF Right
<1>same. ASSUME UNCHANGED <<participants, nick, view, included, affiliation, role>>,
                "destroyed" \notin flags' => "destroyed" \notin flags
         PROVE  Told'
  BY <1>same, <1>kept
<1>dead. ASSUME Crash PROVE AffectedHere' /\ Told'
  BY <1>dead, <1>here, <1>same DEF Crash, config, occupants, request
<1>1. ASSUME NEW c \in Clients, rooms_create_room(c) PROVE AffectedHere' /\ Told'
  BY <1>1, <1>here, <1>same DEF rooms_create_room, config, occupants, request
<1>2. ASSUME rooms_destroy_room PROVE AffectedHere' /\ Told'
  BY <1>0, <1>2 DEF rooms_destroy_room, request, AffectedHere
<1>3. ASSUME acl_deserialize PROVE AffectedHere' /\ Told'
  BY <1>3, <1>here, <1>same DEF acl_deserialize, config, occupants, request
<1>4. ASSUME NEW c \in Clients, NEW n \in Nicks, NEW right \in BOOLEAN,
             Join(c, n, right)
      PROVE  AffectedHere' /\ Told'
  <2>1. PICK a \in affiliationss_get_by_jid(JoinLists(c), c) \ {None} :
          room_join(c, n, a)
    BY <1>4 DEF Join
  <2>2. a \in Affils
    BY <2>1, LookupIsAffil
  <2>3. Told'
    BY <1>4, <2>1, <2>2, JoinPictures DEF Join
  <2> QED
    BY <1>4, <1>idle, <2>1, <2>3 DEF Join, WantsToJoin, Idle, room_join, request
<1>5. ASSUME NEW c \in Clients, NEW n \in Nicks, NEW right \in BOOLEAN,
             JoinRefused(c, n, right)
      PROVE  AffectedHere' /\ Told'
  BY <1>5, <1>here, <1>same DEF JoinRefused, config, occupants, request
<1>6. ASSUME NEW c \in Clients, NEW n \in Nicks, JoinFaults(c, n)
      PROVE  AffectedHere' /\ Told'
  BY <1>6, <1>dead DEF JoinFaults
<1>7. ASSUME NEW c \in Clients, UpdatePresence(c) PROVE AffectedHere' /\ Told'
  <2>1. PICK s \in participants_find_by_jid(c) :
          view' = room_broadcast_presence(view, participants, nick[s],
                                          Presence(affiliation[s], role[s]))
    BY <1>7 DEF UpdatePresence
  <2>2. s \in participants
    BY DEF participants_find_by_jid
  <2>3. /\ UNCHANGED <<participants, nick, affiliation, role, included>>
        /\ "destroyed" \notin flags' => "destroyed" \notin flags
        /\ UNCHANGED <<affected, phase>>
    BY <1>7 DEF UpdatePresence, request
  <2> QED
    BY <1>here, <2>1, <2>2, <2>3, TellPictures
<1>8. ASSUME NEW c \in Clients, NEW n \in Nicks, ChangeNick(c, n)
      PROVE  AffectedHere' /\ Told'
  BY <1>8, <1>here, ChangeNickPictures DEF ChangeNick, request
<1>9. ASSUME NEW c \in Clients, Leave(c) PROVE AffectedHere' /\ Told'
  <2>1. PICK s \in participants_find_by_jid(c) :
          room_leave(s, room_broadcast_presence(view, participants, nick[s], Absent))
    BY <1>9 DEF Leave
  <2>2. s \in participants
    BY DEF participants_find_by_jid
  <2>3. Told'
    BY <2>1, <2>2, LeavePictures
  <2> QED
    BY <1>9, <1>idle, <2>3 DEF Leave, Idle, request
<1>10. ASSUME NEW c \in Clients, AdminStart(c) PROVE AffectedHere' /\ Told'
  <2>1. AffectedHere'
    BY <1>0, <1>10 DEF AdminStart, AffectedHere, occupants
  <2> QED
    BY <1>10, <1>same, <2>1 DEF AdminStart, config, occupants
\* The steps that mark whomever they change.
<1>marked. ASSUME NEW S \in SUBSET participants, participant_set_affected(S),
                  \A p \in participants \ S :
                     affiliation'[p] = affiliation[p] /\ role'[p] = role[p],
                  UNCHANGED <<participants, nick, view>>, phase' # "idle",
                  "destroyed" \notin flags' => "destroyed" \notin flags
           PROVE  AffectedHere' /\ Told'
  <2>1. \A p \in participants : ~included'[p] => ~included[p] /\ p \notin S
    BY <1>marked, <1>0 DEF participant_set_affected, TypeOK
  <2>2. AffectedHere'
    BY <1>marked, <1>0 DEF participant_set_affected, AffectedHere
  <2> QED
    BY <1>marked, <1>kept, <2>1, <2>2
<1>11. ASSUME NEW n \in Nicks, NEW r \in Roles, AdminRole(n, r)
       PROVE  AffectedHere' /\ Told'
  <2>1. PICK t \in participants_find_by_nick(n) :
          role' = [role EXCEPT ![t] = r] /\ participant_set_affected({t})
    BY <1>11 DEF AdminRole
  <2>2. {t} \in SUBSET participants
    BY DEF participants_find_by_nick
  <2>3. \A p \in participants \ {t} : role'[p] = role[p]
    BY <1>0, <2>1 DEF TypeOK
  <2> QED
    BY <1>11, <1>marked, <2>1, <2>2, <2>3 DEF AdminRole, NextItem, config
<1>12. ASSUME NEW u \in Users, NEW a \in Affils, AdminAffiliation(u, a)
       PROVE  AffectedHere' /\ Told'
  <2>1. PICK got \in LookedUp(Moved(lists, a, u)) :
          LET changed == {p \in participants : got[p] # affiliation[p]}
          IN  /\ affiliation' = [p \in Clients |-> IF p \in changed THEN got[p]
                                                   ELSE affiliation[p]]
              /\ role' = [p \in Clients |-> IF p \in changed
                                            THEN RoleAfterChange(got[p])
                                            ELSE role[p]]
              /\ participant_set_affected(changed)
    BY <1>12 DEF AdminAffiliation
  <2> DEFINE changed == {p \in participants : got[p] # affiliation[p]}
  <2>2. changed \in SUBSET participants /\ participant_set_affected(changed)
    BY <2>1
  <2>3. \A p \in participants \ changed :
           affiliation'[p] = affiliation[p] /\ role'[p] = role[p]
    BY <1>0, <2>1 DEF TypeOK
  <2> HIDE DEF changed
  <2> QED
    BY <1>12, <1>marked, <2>2, <2>3 DEF AdminAffiliation, NextItem, config
<1>13. ASSUME NEW u \in Users, NEW a \in Affils, AdminFaults(u, a)
       PROVE  AffectedHere' /\ Told'
  BY <1>13, <1>dead DEF AdminFaults
<1>14. ASSUME AdminBounce PROVE AffectedHere' /\ Told'
  <2>1. AffectedHere'
    BY <1>14 DEF AdminBounce, AffectedHere
  <2> QED
    BY <1>14, <1>same, <2>1 DEF AdminBounce, config, occupants
<1>15. ASSUME AdminDone PROVE AffectedHere' /\ Told'
  <2>1. AffectedHere'
    BY <1>0, <1>15 DEF AdminDone, AffectedHere, occupants
  <2> QED
    BY <1>15, <1>same, <2>1 DEF AdminDone, config, occupants
<1>16. ASSUME NEW c \in Clients, OwnerDestroy(c) PROVE AffectedHere' /\ Told'
  BY <1>0, <1>16 DEF OwnerDestroy, AffectedHere, participant_set_affected
<1>17. ASSUME NEW c \in Clients, NEW on \in SUBSET ConfigFlags,
              NEW off \in SUBSET (ConfigFlags \ on),
              NEW limit \in Limits \cup {max_size},
              NEW default \in {ROLE_VISITOR, ROLE_PARTICIPANT},
              OwnerConfig(c, on, off, limit, default)
       PROVE  AffectedHere' /\ Told'
  <2> DEFINE out == IF "membersonly" \in flags'
                    THEN {p \in participants : affiliation[p] < AFFIL_MEMBER}
                    ELSE {}
  <2>1. PICK s \in participants_find_by_jid(c) :
          flags' = room_config_option_set(s, on, off)
    BY <1>17 DEF OwnerConfig
  <2>2. "destroyed" \notin flags' => "destroyed" \notin flags
    <3>1. "destroyed" \notin off
      BY RoomAssumption
    <3> QED
      BY <2>1, <3>1 DEF room_config_option_set
  <2>3. /\ participant_set_affected(out)
        /\ role' = [p \in Clients |-> IF p \in out THEN ROLE_NONE ELSE role[p]]
        /\ UNCHANGED <<participants, nick, affiliation, view>>
        /\ phase' = "affected"
    BY <1>17 DEF OwnerConfig
  <2>4. out \in SUBSET participants
    OBVIOUS
  <2>5. \A p \in participants \ out : role'[p] = role[p]
    BY <1>0, <2>3 DEF TypeOK
  <2> HIDE DEF out
  <2> QED
    BY <1>marked, <2>2, <2>3, <2>4, <2>5
<1>18. ASSUME NEW c \in Clients, Affect(c) PROVE AffectedHere' /\ Told'
  <2>1. /\ c \in participants /\ affected' = affected \ {c}
        /\ phase = "affected" /\ phase' = phase
    BY <1>0, <1>18 DEF Affect, AffectedHere
  <2>2. CASE room_leave(c, room_broadcast_presence(view, participants, nick[c], Absent))
    <3>1. AffectedHere'
      BY <1>0, <2>1, <2>2 DEF room_leave, AffectedHere
    <3> QED
      BY <2>1, <2>2, <3>1, LeavePictures
  <2>3. CASE /\ included' = [included EXCEPT ![c] = FALSE]
             /\ view' = room_broadcast_presence(view, participants, nick[c],
                                                Presence(affiliation[c], role[c]))
             /\ UNCHANGED <<flags, participants, nick, affiliation, role>>
    <3>1. AffectedHere'
      BY <1>0, <2>1, <2>3 DEF AffectedHere
    <3>2. \A p \in participants : p # c => included'[p] = included[p]
      BY <1>0, <2>3 DEF TypeOK
    <3> QED
      BY <2>1, <2>3, <3>1, <3>2, TellPictures
  <2> QED
    BY <1>18, <2>2, <2>3 DEF Affect
<1>19. ASSUME Reply PROVE AffectedHere' /\ Told'
  <2>1. AffectedHere'
    BY <1>19 DEF Reply, AffectedHere
  <2> QED
    BY <1>19, <1>same, <2>1 DEF Reply, config, occupants
<1>20. ASSUME UNCHANGED vars PROVE AffectedHere' /\ Told'
  BY <1>20, <1>here, <1>same DEF vars, config, occupants, request
<1>21. AffectedHere' /\ Told'
  BY <1>1, <1>2, <1>3, <1>4, <1>5, <1>6, <1>7, <1>8, <1>9, <1>10, <1>11,
     <1>12, <1>13, <1>14, <1>15, <1>16, <1>17, <1>18, <1>19, <1>20 DEF Next
<1>22. Pictures'
  BY <1>21 DEF Pictures, Right, participants_find_by_nick
<1> QED
  BY <1>0, <1>21, <1>22 DEF ViewsInv

\* Between stanzas every occupant's picture of the room, put together from the
\* presences route_presence and the loops of route_iq send, is the room: only
\* of somebody a bounced request left marked may it be out of date.
THEOREM ViewsAlwaysAgree == Spec => []ViewsAgree
<1>1. Init => ViewsInv
  BY RoomInit DEF Init, Fresh, ViewsInv, StayInv, NobodyLingers, EmptyIsMarked,
     ROLE_NONE, ROLE_PARTICIPANT, AffectedHere, Pictures
<1>2. ViewsInv => ViewsAgree
  BY DEF ViewsInv, Pictures, ViewsAgree
<1> QED
  BY <1>1, <1>2, ViewsStep, PTL DEF Spec

---------------------------------------------------------------------------
(* The owner list.  Only a join and an <item/> move entries while the room *)
(* exists.                                                                 *)

\* affiliationss_add empties the owner list only when it moves the last owner
\* somewhere else, which it refuses to do for that owner himself.
LEMMA LastOwnerMoves ==
    ASSUME NEW s, NEW u \in Users, NEW a \in Affils,
           affiliationss_add_allowed(s, a, u),
           lists[AFFIL_OWNER] # {}, Moved(lists, a, u)[AFFIL_OWNER] = {}
    PROVE  UserOf[s] \notin lists[AFFIL_OWNER]
<1> DEFINE old == ListsWith(lists, u)
<1>1. AFFIL_OWNER \in Affils
  BY DEF AFFIL_OWNER, Affils
<1>2. Moved(lists, a, u)[AFFIL_OWNER]
        = (IF old # {} /\ AFFIL_OWNER = Lowest(old)
           THEN lists[AFFIL_OWNER] \ {u} ELSE lists[AFFIL_OWNER])
          \cup (IF AFFIL_OWNER = a /\ a # AFFIL_NONE THEN {u} ELSE {})
  BY <1>1 DEF Moved
<1>3. old # {} /\ Lowest(old) = AFFIL_OWNER /\ lists[AFFIL_OWNER] = {u}
  BY <1>2
<1>4. UserOf[s] # u
  BY <1>3 DEF affiliationss_add_allowed
<1> QED
  BY <1>3, <1>4

\* Nobody who is on the owner list takes the last owner off it
\* (affiliationss_add's check): the list is emptied only by somebody who owns
\* the room through the ACL or through a lookup that misread the lists.
THEOREM OwnersAlwaysKeepOne == Spec => OwnersKeepOne
<1> DEFINE Emptied == lists[AFFIL_OWNER] # {} /\ lists'[AFFIL_OWNER] = {} /\ exists'
<1>1. ASSUME [Next]_vars, Emptied PROVE UserOf[sender] \notin lists[AFFIL_OWNER]
  <2>1. lists' # lists /\ exists'
    BY <1>1
  <2>2. ASSUME NEW c \in Clients, lists' = JoinLists(c) PROVE FALSE
    <3>1. "justcreated" \in flags /\ lists' = Moved(lists, AFFIL_OWNER, UserOf[c])
      BY <2>1, <2>2 DEF JoinLists
    <3>2. UserOf[c] \in lists'[AFFIL_OWNER]
      BY <3>1 DEF Moved, AFFIL_OWNER, AFFIL_NONE, Affils
    <3> QED
      BY <1>1, <3>2
  <2>3. \E u \in Users, a \in Affils : AdminAffiliation(u, a)
    <3>1. \A c \in Clients, n \in Nicks, right \in BOOLEAN :
             ~Join(c, n, right) /\ ~JoinRefused(c, n, right)
      BY <2>2 DEF Join, room_join, JoinRefused
    <3>2. \A c \in Clients : /\ ~rooms_create_room(c) /\ ~UpdatePresence(c)
                             /\ ~Leave(c) /\ ~AdminStart(c)
                             /\ ~OwnerDestroy(c) /\ ~Affect(c)
      BY <2>1 DEF rooms_create_room, UpdatePresence, Leave, AdminStart,
         OwnerDestroy, Affect
    <3>3. \A c \in Clients, n \in Nicks : ~ChangeNick(c, n) /\ ~JoinFaults(c, n)
      BY <2>1 DEF ChangeNick, JoinFaults, Crash
    <3>4. \A n \in Nicks, r \in Roles : ~AdminRole(n, r)
      BY <2>1 DEF AdminRole
    <3>5. \A u \in Users, a \in Affils : ~AdminFaults(u, a)
      BY <2>1 DEF AdminFaults, Crash
    <3>6. \A c, on, off, limit, default : ~OwnerConfig(c, on, off, limit, default)
      BY <2>1 DEF OwnerConfig
    <3>7. ~AdminBounce /\ ~AdminDone /\ ~Reply /\ ~rooms_destroy_room /\ ~acl_deserialize
      BY <2>1 DEF AdminBounce, AdminDone, Reply, rooms_destroy_room, acl_deserialize
    <3>8. vars' # vars
      BY <2>1 DEF vars
    <3> QED
      BY <1>1, <3>1, <3>2, <3>3, <3>4, <3>5, <3>6, <3>7, <3>8 DEF Next
  <2>4. PICK u \in Users, a \in Affils : AdminAffiliation(u, a)
    BY <2>3
  <2>5. affiliationss_add_allowed(sender, a, u) /\ lists' = Moved(lists, a, u)
    BY <2>4 DEF AdminAffiliation
  <2> QED
    BY <1>1, <2>5, LastOwnerMoves
<1>2. Spec => [][Emptied => UserOf[sender] \notin lists[AFFIL_OWNER]]_vars
  BY <1>1, PTL DEF Spec
<1> QED
  BY <1>2 DEF OwnersKeepOne
===========================================================================
