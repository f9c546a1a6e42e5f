------------------------------- MODULE Room -------------------------------
(***************************************************************************)
(* One conference room (room/room.c, affiliation/, participant/): who is   *)
(* in it, the affiliation lists, the configuration flags, and what each    *)
(* occupant has been told about the others.                                *)
(*                                                                         *)
(* A stanza handler runs to its end before the next one starts, as the     *)
(* room mutex of rooms.c intends (module Rooms is about that mutex).  The  *)
(* two loops of route_iq are unrolled: `phase' says where the handler is,  *)
(* and no other handler starts before it is "idle" again.                  *)
(*                                                                         *)
(* A stanza that is only bounced changes nothing and is not an action.     *)
(* Participants are keyed by the full JID they joined with: room_join runs *)
(* only when participants_find_by_jid has found nobody.  The order of the  *)
(* lists is abstracted: a search that may match several entries returns    *)
(* any of them, and the affected list is worked off in any order.          *)
(***************************************************************************)
EXTENDS Integers, FiniteSets

CONSTANTS
    Clients,        \* JIDs that stanzas come from
    Resourceless,   \* those of them that carry no resource
    Users,          \* JIDs without resource: what affiliation lists hold
    UserOf,         \* the node and host of a client
    Nicks,
    AclTables,      \* the ACLs an administrator may load
    ConfigFlags,    \* the flags the configuration form switches here
    Limits,         \* the values given for muc#roomconfig_maxusers
    MaxItems,       \* bound: <item/>s in one muc#admin request
    None

ROLE_NONE == 0
ROLE_VISITOR == 1
ROLE_PARTICIPANT == 2
ROLE_MODERATOR == 3
Roles == 0 .. 3

AFFIL_OUTCAST == 0
AFFIL_NONE == 1
AFFIL_MEMBER == 2
AFFIL_ADMIN == 3
AFFIL_OWNER == 4
Affils == 0 .. 4

PARTICIPANTS_LIMIT == 1024

ACL_MUC_CREATE == 1
ACL_MUC_PERSIST == 2
ACL_MUC_ADMIN == 3
AclRoles == 0 .. 4

\* The members of MUC_FLAGS that decide who may be in the room; "password"
\* stands for a room->password that is not NULL.
Flags == {"persistent", "membersonly", "passwordprotected", "password",
          "visitorpresence", "justcreated", "destroyed"}

ASSUME RoomAssumption ==
    /\ Resourceless \subseteq Clients
    /\ UserOf \in [Clients -> Users]
    /\ AclTables \subseteq [Clients -> AclRoles] /\ AclTables # {}
    /\ ConfigFlags \subseteq Flags \ {"justcreated", "destroyed"}
    /\ Limits \subseteq Int
    /\ MaxItems \in Nat
    /\ None \notin Nicks \cup Clients

VARIABLES
    alive,          \* FALSE: the process died of a memory fault
    exists,         \* the room is in the table of rooms
    flags, default_role, max_size,
    participants, nick, affiliation, role,
    included,       \* affected_list.included
    lists,          \* room->affiliations
    acl,            \* the loaded ACL
    view,           \* view[c][n]: what c was last told about nick n
    phase, sender,  \* the route_iq that is running, and its sender
    items,          \* <item/>s it has taken
    affected        \* the list from first_affected_participant on

occupants == <<participants, nick, affiliation, role, included, view>>
config == <<flags, default_role, max_size>>
request == <<phase, sender, items, affected>>
vars == <<alive, exists, config, occupants, lists, acl, request>>

Absent == <<>>
Seen == {Absent} \cup (Affils \X Roles)
EmptyView == [n \in Nicks |-> Absent]

TypeOK ==
    /\ alive \in BOOLEAN /\ exists \in BOOLEAN
    /\ flags \subseteq Flags
    /\ default_role \in Roles
    /\ max_size \in 1 .. PARTICIPANTS_LIMIT
    /\ participants \subseteq Clients
    /\ nick \in [Clients -> Nicks \cup {None}]
    /\ affiliation \in [Clients -> Affils]
    /\ role \in [Clients -> Roles]
    /\ included \in [Clients -> BOOLEAN]
    /\ lists \in [Affils -> SUBSET Users]
    /\ acl \in AclTables
    /\ view \in [Clients -> [Nicks -> Seen]]
    /\ phase \in {"idle", "items", "affected"}
    /\ sender \in Clients \cup {None}
    /\ items \in Nat
    /\ affected \subseteq Clients

---------------------------------------------------------------------------
(* Searches.                                                              *)

participants_find_by_jid(c) ==
    {p \in participants : IF c \in Resourceless THEN UserOf[p] = UserOf[c]
                                                ELSE p = c}

participants_find_by_nick(n) == {p \in participants : nick[p] = n}

\* The lists that hold an entry for user u.
ListsWith(l, u) == {a \in Affils : u \in l[a]}

Lowest(S) == CHOOSE a \in S : \A b \in S : a <= b

\* affiliationss_get_by_jid, for the lists l: what the compiled loops may
\* return.  Both callers cast AffiliationsList[5] to AffiliationsList**, so
\* that only the ACL is read as it was meant.  List 0 is read through the head
\* of the outcast list: a NULL dereference while nobody is banned, and the
\* bytes of a banned JID taken for an entry otherwise.  None is the fault.
affiliationss_get_by_jid(l, c) ==
    IF acl[c] >= ACL_MUC_ADMIN THEN {AFFIL_OWNER}
    ELSE IF l[AFFIL_OUTCAST] = {} THEN {None}
    ELSE Affils \cup {None}

MovedMutant(l, a, u) ==
    [b \in Affils |-> l[b] \cup (IF b = a /\ a # AFFIL_NONE THEN {u} ELSE {})]

\* affiliationss_add: the entry moves out of the first list that has it.
Moved(l, a, u) ==
    LET old == ListsWith(l, u)
    IN  [b \in Affils |->
            (IF old # {} /\ b = Lowest(old) THEN l[b] \ {u} ELSE l[b])
              \cup (IF b = a /\ a # AFFIL_NONE THEN {u} ELSE {})]

AddAllowedMutant(s, a, u) ==
    /\ affiliation[s] = AFFIL_OWNER \/ a < AFFIL_ADMIN
    /\ ListsWith(lists, u) # {} =>
         (affiliation[s] = AFFIL_OWNER \/ Lowest(ListsWith(lists, u)) < AFFIL_ADMIN)

\* The checks affiliationss_add makes for a sender s.
affiliationss_add_allowed(s, a, u) ==
    /\ affiliation[s] = AFFIL_OWNER \/ a < AFFIL_ADMIN
    /\ ListsWith(lists, u) # {} =>
         LET old == Lowest(ListsWith(lists, u))
         IN  /\ affiliation[s] = AFFIL_OWNER \/ old < AFFIL_ADMIN
             /\ ~ (old = AFFIL_OWNER /\ UserOf[s] = u /\ lists[old] = {u})

room_role_for_affiliation(a) ==
    CASE a = AFFIL_MEMBER -> ROLE_PARTICIPANT
      [] a \in {AFFIL_ADMIN, AFFIL_OWNER} -> ROLE_MODERATOR
      [] OTHER -> default_role

RoleAfterChangeMutant(a) ==
    IF a = AFFIL_OUTCAST THEN ROLE_NONE ELSE ROLE_PARTICIPANT

\* The role route_iq gives to a participant whose affiliation has changed.
RoleAfterChange(a) ==
    IF a >= AFFIL_ADMIN THEN ROLE_MODERATOR
    ELSE IF a = AFFIL_OUTCAST THEN ROLE_NONE
    ELSE ROLE_PARTICIPANT

---------------------------------------------------------------------------
(* Steps the handlers share.                                              *)

Presence(a, r) == IF r = ROLE_NONE THEN Absent ELSE <<a, r>>

\* room_broadcast_presence: what every receiver now knows about nick n.
room_broadcast_presence(v, receivers, n, p) ==
    [c \in Clients |-> IF c \in receivers THEN [v[c] EXCEPT ![n] = p] ELSE v[c]]

room_presences_sendMutant(c) == EmptyView

\* room_presences_send: the newcomer hears about everybody else, an available
\* presence even of who has no role any more.
room_presences_send(c) ==
    [n \in Nicks |-> LET holders == participants_find_by_nick(n) \ {c}
                     IN  IF holders = {} THEN Absent
                         ELSE LET p == CHOOSE p \in holders : TRUE
                              IN  <<affiliation[p], role[p]>>]

room_leaveMutant(c, v) ==
    /\ participants' = participants \ {c}
    /\ nick' = [nick EXCEPT ![c] = None]
    /\ affiliation' = [affiliation EXCEPT ![c] = AFFIL_NONE]
    /\ role' = [role EXCEPT ![c] = ROLE_NONE]
    /\ included' = [included EXCEPT ![c] = FALSE]
    /\ view' = [v EXCEPT ![c] = EmptyView]
    /\ flags' = flags \cup IF "persistent" \notin flags /\ participants = {}
                           THEN {"destroyed"} ELSE {}

\* room_leave, after the presence v has gone out: the participant is freed.
room_leave(c, v) ==
    /\ participants' = participants \ {c}
    /\ nick' = [nick EXCEPT ![c] = None]
    /\ affiliation' = [affiliation EXCEPT ![c] = AFFIL_NONE]
    /\ role' = [role EXCEPT ![c] = ROLE_NONE]
    /\ included' = [included EXCEPT ![c] = FALSE]
    /\ view' = [v EXCEPT ![c] = EmptyView]
    /\ flags' = flags \cup IF "persistent" \notin flags /\ participants = {c}
                           THEN {"destroyed"} ELSE {}

\* participant_set_affected for every member of S.
participant_set_affected(S) ==
    /\ affected' = affected \cup {p \in S : ~included[p]}
    /\ included' = [p \in Clients |-> included[p] \/ p \in S]

\* A worker may start the next stanza of this room.
Idle == alive /\ exists /\ phase = "idle" /\ "destroyed" \notin flags

Crash ==
    /\ alive' = FALSE
    /\ UNCHANGED <<exists, config, occupants, lists, acl, request>>

---------------------------------------------------------------------------
(* The room's life.                                                       *)

\* room_init: the state rooms_create_room leaves.
Fresh(t) ==
    /\ alive = TRUE
    /\ flags = {"justcreated"}
    /\ default_role = ROLE_PARTICIPANT
    /\ max_size = 100
    /\ participants = {}
    /\ nick = [c \in Clients |-> None]
    /\ affiliation = [c \in Clients |-> AFFIL_NONE]
    /\ role = [c \in Clients |-> ROLE_NONE]
    /\ included = [c \in Clients |-> FALSE]
    /\ view = [c \in Clients |-> EmptyView]
    /\ lists = [a \in Affils |-> {}]
    /\ acl = t
    /\ phase = "idle" /\ sender = None /\ items = 0 /\ affected = {}

Init == exists = FALSE /\ \E t \in AclTables : Fresh(t)

rooms_create_room(c) ==
    /\ alive /\ ~exists
    /\ acl[c] >= ACL_MUC_CREATE
    /\ exists' = TRUE
    /\ UNCHANGED <<alive, config, occupants, lists, acl, request>>

\* rooms_destroy_room and room_destroy; the next room of that name starts
\* from room_init.
rooms_destroy_room ==
    /\ alive /\ exists /\ phase = "idle" /\ "destroyed" \in flags
    /\ exists' = FALSE
    /\ flags' = {"justcreated"}
    /\ default_role' = ROLE_PARTICIPANT
    /\ max_size' = 100
    /\ participants' = {}
    /\ nick' = [c \in Clients |-> None]
    /\ affiliation' = [c \in Clients |-> AFFIL_NONE]
    /\ role' = [c \in Clients |-> ROLE_NONE]
    /\ included' = [c \in Clients |-> FALSE]
    /\ view' = [c \in Clients |-> EmptyView]
    /\ lists' = [a \in Affils |-> {}]
    /\ UNCHANGED <<alive, acl, request>>

\* SIGHUP: acl_deserialize replaces the table; the room is not touched.
acl_deserialize ==
    /\ alive
    /\ acl' \in AclTables
    /\ UNCHANGED <<alive, exists, config, occupants, lists, request>>

---------------------------------------------------------------------------
(* <presence/>                                                            *)

\* The lists a join looks at: the first to come owns a new room.
JoinLists(c) == IF "justcreated" \in flags
                THEN Moved(lists, AFFIL_OWNER, UserOf[c]) ELSE lists

WantsToJoin(c, n) ==
    /\ Idle
    /\ participants_find_by_jid(c) = {}
    /\ participants_find_by_nick(n) = {}

AdmittedMutant(c, a, right) ==
    \/ acl[c] >= ACL_MUC_ADMIN
    \/ /\ Cardinality(participants) < max_size
       /\ a # AFFIL_OUTCAST
       /\ ("passwordprotected" \in flags /\ "password" \in flags)
            => (right \/ a = AFFIL_OWNER)

\* The checks a joining user passes; right says the password was given.
Admitted(c, a, right) ==
    \/ acl[c] >= ACL_MUC_ADMIN
    \/ /\ Cardinality(participants) < max_size
       /\ a # AFFIL_OUTCAST
       /\ ("passwordprotected" \in flags /\ "password" \in flags)
            => (right \/ a = AFFIL_OWNER)
       /\ "membersonly" \in flags => a >= AFFIL_MEMBER

\* room_join, room_presences_send, the newcomer's own presence to everybody,
\* and the end of route_presence.
room_join(c, n, a) ==
    LET r == room_role_for_affiliation(a)
        told == [view EXCEPT ![c] = room_presences_send(c)]
    IN  /\ participants' = participants \cup {c}
        /\ nick' = [nick EXCEPT ![c] = n]
        /\ affiliation' = [affiliation EXCEPT ![c] = a]
        /\ role' = [role EXCEPT ![c] = r]
        /\ view' = room_broadcast_presence(told, participants \cup {c}, n,
                                           Presence(a, r))
        /\ flags' = flags \ {"justcreated"}
        /\ lists' = JoinLists(c)
        /\ UNCHANGED <<alive, exists, default_role, max_size, included, acl,
                       request>>

Join(c, n, right) ==
    /\ WantsToJoin(c, n)
    /\ \E a \in affiliationss_get_by_jid(JoinLists(c), c) \ {None} :
         Admitted(c, a, right) /\ room_join(c, n, a)

\* A refused newcomer of a new room stays on its owner list.
JoinRefused(c, n, right) ==
    /\ WantsToJoin(c, n)
    /\ \E a \in affiliationss_get_by_jid(JoinLists(c), c) \ {None} :
         ~Admitted(c, a, right)
    /\ lists' = JoinLists(c)
    /\ UNCHANGED <<alive, exists, config, occupants, acl, request>>

JoinFaults(c, n) ==
    /\ WantsToJoin(c, n)
    /\ acl[c] < ACL_MUC_ADMIN /\ Cardinality(participants) < max_size
    /\ None \in affiliationss_get_by_jid(JoinLists(c), c)
    /\ Crash

\* An occupant's new presence, to the room or to the own nick.
UpdatePresence(c) ==
    /\ Idle
    /\ \E s \in participants_find_by_jid(c) :
         view' = room_broadcast_presence(view, participants, nick[s],
                                         Presence(affiliation[s], role[s]))
    /\ flags' = flags \ {"justcreated"}
    /\ UNCHANGED <<alive, exists, default_role, max_size, participants, nick,
                   affiliation, role, included, lists, acl, request>>

\* The old nick goes unavailable for everybody, then the new one comes.
ChangeNick(c, n) ==
    /\ Idle
    /\ participants_find_by_nick(n) = {}
    /\ \E s \in participants_find_by_jid(c) :
         /\ role[s] > ROLE_VISITOR \/ "visitorpresence" \in flags
         /\ nick' = [nick EXCEPT ![s] = n]
         /\ view' = room_broadcast_presence(
                      room_broadcast_presence(view, participants, nick[s], Absent),
                      participants, n, Presence(affiliation[s], role[s]))
    /\ flags' = flags \ {"justcreated"}
    /\ UNCHANGED <<alive, exists, default_role, max_size, participants,
                   affiliation, role, included, lists, acl, request>>

\* type='unavailable', and a message or presence of type='error'
\* (room_route): the occupant goes, and everybody is told.  (The former also
\* drops "justcreated", which no room with an occupant has.)
Leave(c) ==
    /\ Idle
    /\ \E s \in participants_find_by_jid(c) :
         room_leave(s, room_broadcast_presence(view, participants, nick[s],
                                               Absent))
    /\ UNCHANGED <<alive, exists, default_role, max_size, lists, acl, request>>

---------------------------------------------------------------------------
(* <iq/>                                                                  *)

\* set of muc#admin: the sender's role is looked at once.
AdminStart(c) ==
    /\ Idle
    /\ \E s \in participants_find_by_jid(c) :
         role[s] >= ROLE_MODERATOR /\ sender' = s
    /\ phase' = "items"
    /\ UNCHANGED <<alive, exists, config, occupants, lists, acl, items, affected>>

NextItem ==
    /\ alive /\ phase = "items" /\ items < MaxItems
    /\ items' = items + 1

\* <item nick role/>
AdminRole(n, r) ==
    /\ NextItem
    /\ \E t \in participants_find_by_nick(n) :
         /\ affiliation[t] < AFFIL_ADMIN
         /\ \/ affiliation[sender] >= AFFIL_ADMIN
            \/ role[t] < ROLE_MODERATOR /\ r < ROLE_MODERATOR
         /\ role' = [role EXCEPT ![t] = r]
         /\ participant_set_affected({t})
    /\ UNCHANGED <<alive, exists, config, participants, nick, affiliation,
                   view, lists, acl, phase, sender>>

\* What looking every participant up again may return.
LookedUp(l) ==
    {f \in [participants -> Affils \cup {None}] :
        \A p \in participants : f[p] \in affiliationss_get_by_jid(l, p)}

\* <item jid affiliation/>: the entry moves, then every participant whose
\* affiliation is another one now gets it and a role to go with it.
AdminAffiliation(u, a) ==
    /\ NextItem
    /\ affiliation[sender] >= AFFIL_ADMIN
    /\ affiliationss_add_allowed(sender, a, u)
    /\ lists' = Moved(lists, a, u)
    /\ \E got \in LookedUp(Moved(lists, a, u)) :
         LET changed == {p \in participants : got[p] # affiliation[p]}
         IN  /\ \A p \in participants : got[p] # None
             /\ affiliation' = [p \in Clients |-> IF p \in changed THEN got[p]
                                                  ELSE affiliation[p]]
             /\ role' = [p \in Clients |-> IF p \in changed
                                           THEN RoleAfterChange(got[p])
                                           ELSE role[p]]
             /\ participant_set_affected(changed)
    /\ UNCHANGED <<alive, exists, config, participants, nick, view, acl,
                   phase, sender>>

AdminFaults(u, a) ==
    /\ alive /\ phase = "items" /\ items < MaxItems
    /\ affiliation[sender] >= AFFIL_ADMIN
    /\ affiliationss_add_allowed(sender, a, u)
    /\ \E p \in participants :
         None \in affiliationss_get_by_jid(Moved(lists, a, u), p)
    /\ Crash

\* A malformed item, one that names nobody, or one the sender may not ask
\* for: the handler returns, and the affected list is lost with its locals.
AdminBounce ==
    /\ alive /\ phase = "items" /\ items < MaxItems
    /\ phase' = "idle" /\ sender' = None /\ items' = 0 /\ affected' = {}
    /\ UNCHANGED <<alive, exists, config, occupants, lists, acl>>

AdminDone ==
    /\ alive /\ phase = "items"
    /\ phase' = "affected"
    /\ UNCHANGED <<alive, exists, config, occupants, lists, acl, sender, items,
                   affected>>

\* set of muc#owner with <destroy/>
OwnerDestroy(c) ==
    /\ Idle
    /\ \E s \in participants_find_by_jid(c) :
         affiliation[s] >= AFFIL_OWNER /\ sender' = s
    /\ flags' = flags \cup {"destroyed"}
    /\ role' = [p \in Clients |-> ROLE_NONE]
    /\ affiliation' = [p \in Clients |-> AFFIL_NONE]
    /\ participant_set_affected(participants)
    /\ phase' = "affected"
    /\ UNCHANGED <<alive, exists, default_role, max_size, participants, nick,
                   view, lists, acl, items>>

\* room_config_option_set for the fields of a form: on and off are the flags
\* it switches; only a user the ACL allows decides over "persistent".
room_config_option_set(s, on, off) ==
    LET mine == IF acl[s] >= ACL_MUC_PERSIST THEN {} ELSE {"persistent"}
    IN  (flags \cup (on \ mine)) \ (off \ mine)

MaxUsers(v) ==
    IF v <= 0 \/ v > PARTICIPANTS_LIMIT THEN PARTICIPANTS_LIMIT ELSE v

\* set of muc#owner with a form; a room that is now members-only loses
\* everybody else.
OwnerConfig(c, on, off, limit, default) ==
    /\ Idle
    /\ \E s \in participants_find_by_jid(c) :
         /\ affiliation[s] >= AFFIL_OWNER
         /\ sender' = s
         /\ flags' = room_config_option_set(s, on, off)
    /\ max_size' = MaxUsers(limit)
    /\ default_role' = default
    /\ LET out == IF "membersonly" \in flags'
                  THEN {p \in participants : affiliation[p] < AFFIL_MEMBER}
                  ELSE {}
       IN  /\ role' = [p \in Clients |-> IF p \in out THEN ROLE_NONE ELSE role[p]]
           /\ participant_set_affected(out)
    /\ phase' = "affected"
    /\ UNCHANGED <<alive, exists, participants, nick, affiliation, view, lists,
                   acl, items>>

\* One turn of the loop over the affected list.
Affect(c) ==
    /\ alive /\ phase = "affected" /\ c \in affected
    /\ affected' = affected \ {c}
    /\ LET gone == \/ "destroyed" \in flags
                   \/ affiliation[c] = AFFIL_OUTCAST
                   \/ "membersonly" \in flags /\ affiliation[c] < AFFIL_MEMBER
                   \/ role[c] = ROLE_NONE
       IN  \/ /\ gone
              /\ room_leave(c, room_broadcast_presence(view, participants,
                                                       nick[c], Absent))
           \/ /\ ~gone
              /\ included' = [included EXCEPT ![c] = FALSE]
              /\ view' = room_broadcast_presence(view, participants, nick[c],
                                     Presence(affiliation[c], role[c]))
              /\ UNCHANGED <<flags, participants, nick, affiliation, role>>
    /\ UNCHANGED <<alive, exists, default_role, max_size, lists, acl, phase,
                   sender, items>>

Reply ==
    /\ alive /\ phase = "affected" /\ affected = {}
    /\ phase' = "idle" /\ sender' = None /\ items' = 0
    /\ UNCHANGED <<alive, exists, config, occupants, lists, acl, affected>>

---------------------------------------------------------------------------

Next ==
    \/ \E c \in Clients : \/ rooms_create_room(c)
                          \/ UpdatePresence(c) \/ Leave(c)
                          \/ AdminStart(c) \/ OwnerDestroy(c) \/ Affect(c)
    \/ \E c \in Clients, n \in Nicks : \/ ChangeNick(c, n) \/ JoinFaults(c, n)
    \/ \E c \in Clients, n \in Nicks, right \in BOOLEAN :
          Join(c, n, right) \/ JoinRefused(c, n, right)
    \/ \E n \in Nicks, r \in Roles : AdminRole(n, r)
    \/ \E u \in Users, a \in Affils : AdminAffiliation(u, a) \/ AdminFaults(u, a)
    \/ \E c \in Clients, on \in SUBSET ConfigFlags :
          \E off \in SUBSET (ConfigFlags \ on), limit \in Limits \cup {max_size},
             default \in {ROLE_VISITOR, ROLE_PARTICIPANT} :
             OwnerConfig(c, on, off, limit, default)
    \/ AdminBounce \/ AdminDone \/ Reply
    \/ rooms_destroy_room \/ acl_deserialize

Spec == Init /\ [][Next]_vars

---------------------------------------------------------------------------
(* Properties.                                                            *)

\* A nick belongs to one occupant: what is sent to a nick, a private message
\* or a role change, reaches the occupant everybody knows under it.
NicksDistinct ==
    \A p, q \in participants :
        nick[p] # None /\ (nick[p] = nick[q] => p = q)

\* A user is on at most one affiliation list, whatever moves were made: the
\* search before a move, which takes the first list that matches, leaves none.
EntriesUnique ==
    /\ lists[AFFIL_NONE] = {}
    /\ \A a, b \in Affils : a # b => lists[a] \cap lists[b] = {}

\* Admins and owners are moderators at all times: neither a role change nor a
\* demotion and promotion leaves them with less.
AdminsModerate ==
    \A p \in participants :
        affiliation[p] >= AFFIL_ADMIN => role[p] = ROLE_MODERATOR

\* Whoever is found, by nick or by address, is one occupant with the rights that
\* one entry gives him.
RoomSound == TypeOK /\ NicksDistinct /\ EntriesUnique /\ AdminsModerate

\* Between stanzas nobody is in the room who should have been removed (no
\* role, banned, or no member of a members-only room), except participants a
\* request left marked when it stopped half way.
NoGhosts ==
    (alive /\ phase = "idle" /\ "destroyed" \notin flags) =>
        \A p \in participants : ~included[p] =>
            /\ role[p] # ROLE_NONE /\ affiliation[p] # AFFIL_OUTCAST
            /\ "membersonly" \in flags => affiliation[p] >= AFFIL_MEMBER

\* Between stanzas every occupant's picture of the room, put together from
\* the presences sent to it, is the room: the same nicks, with the same
\* affiliations and roles, and no others.  It may be out of date only about
\* participants a request left marked when it stopped half way.
ViewsAgree ==
    (alive /\ phase = "idle" /\ "destroyed" \notin flags) =>
        \A c \in participants, n \in Nicks :
            LET holders == participants_find_by_nick(n)
            IN  /\ holders = {} => view[c][n] = Absent
                /\ \A p \in holders : ~included[p] =>
                      view[c][n] = Presence(affiliation[p], role[p])

\* A temporary room nobody is in is on its way out, unless nobody has managed
\* to join it yet.
EmptyRoomGoes ==
    (exists /\ participants = {} /\ "persistent" \notin flags) =>
        flags \cap {"destroyed", "justcreated"} # {}

\* Nobody who is on the owner list takes the last owner off it: it is emptied
\* only by somebody who owns the room through the ACL or a misread list.
OwnersKeepOne ==
    [][(lists[AFFIL_OWNER] # {} /\ lists'[AFFIL_OWNER] = {} /\ exists') =>
         UserOf[sender] \notin lists[AFFIL_OWNER]]_vars

\* The lookup of an affiliation returns one: "First search by full JID", "Then
\* search by host only" (affiliations.c), and the process goes on.
LookupReturns == alive
===========================================================================
