------------------------------ MODULE Answers ------------------------------
(***************************************************************************)
(* What a worker does with one stanza: packet_parse, component_process,    *)
(* rooms_process and the handlers of a room, up to the stanzas it sends.   *)
(* Extends GroupChat, whose steps are the changes of the room.             *)
(*                                                                         *)
(* There is a room, which is persistent, and a name without a room: what   *)
(* becomes of the room that is created there is not followed, it is what   *)
(* becomes of any room.  The nick of an occupant is the occupant.  Who may *)
(* enter, administer or configure the room is in module Room: here such a  *)
(* request succeeds, and changes one occupant at most, or is refused.      *)
(* Stanzas fit into the output buffer.                                     *)
(***************************************************************************)
EXTENDS GroupChat, Sequences, FiniteSets

CONSTANTS
    AllowPM, VisitorsPM, IqProxy, PublicParticipants    \* flags of the room

ASSUME FlagsAssumption ==
    {AllowPM, VisitorsPM, IqProxy, PublicParticipants} \subseteq BOOLEAN

VARIABLES
    inside,         \* the clients that are participants
    found,          \* the other name has a room by now
    got,            \* the stanza the worker handled last
    sent            \* what it sent for it

allvars == <<vars, inside, found, got, sent>>

\* A type, or an address, that is not there.
Unset == ""

Types == [message |-> {"chat", "groupchat"},
          presence |-> {"unavailable"},
          iq |-> {"get", "set", "result"}]
Names == DOMAIN Types

\* "last" stands for a query that only the component knows, "long" for a
\* subject over USER_STRING_OPTION_LIMIT, "admin" for muc#admin and muc#owner.
Contents ==
    [message |-> {"text", "subject", "long"},
     presence |-> {"text"},
     iq |-> {"text", "info", "items", "admin", "last", "stats"}]

\* The addresses: of the component, of no JID at all, of the two rooms, with
\* and without a nick.
Room == "room"
Absent == {"absent", "absent/nick"}
Addresses == {"component", "malformed", Room} \cup Absent \cup Clients

ASSUME AddressAssumption ==
    Clients \cap ({Unset, "component", "malformed", Room} \cup Absent) = {}

\* What the server may send: a name, a type that is known, missing or not.
Stanzas ==
    UNION {[name : {n}, type : Types[n] \cup {Unset, "error", "other"},
            from : Clients, to : Addresses, content : Contents[n]] : n \in Names}

InitAnswers ==
    /\ Init
    /\ inside \in SUBSET Clients
    /\ found = FALSE
    /\ got = [name |-> "none"] /\ sent = {}

---------------------------------------------------------------------------
(* The header of a stanza: for every attribute its occurrences.            *)

Header(s) == [from |-> <<s.from>>, to |-> <<s.to>>,
              type |-> IF s.type = Unset THEN <<>> ELSE <<s.type>>]
NoHeader == [from |-> <<>>, to |-> <<>>, type |-> <<>>]

\* The type stays, and builder_build writes another one.
packet_cleanupMutant(header, mode) ==
    [from |-> IF "from" \in mode THEN <<>> ELSE header.from,
     to   |-> (IF "to" \in mode THEN <<>> ELSE header.to)
                 \o (IF "switch" \in mode THEN header.from ELSE <<>>),
     type |-> header.type]

\* packet_cleanup overwrites attributes with spaces, type always.  With
\* "switch" the name of from is replaced by to.
packet_cleanup(header, mode) ==
    [from |-> IF "from" \in mode THEN <<>> ELSE header.from,
     to   |-> (IF "to" \in mode THEN <<>> ELSE header.to)
                 \o (IF "switch" \in mode THEN header.from ELSE <<>>),
     type |-> <<>>]

Cleaned(s)  == packet_cleanup(Header(s), {"from", "to"})
Switched(s) == packet_cleanup(Header(s), {"from", "to", "switch"})

Pushed(attribute, value) ==
    IF value = Unset THEN attribute ELSE Append(attribute, value)

\* builder_build: the header, a from, and a to and a type if they are set.
builder_build(name, type, header, from, to) ==
    [name |-> name, from |-> Append(header.from, from),
     to |-> Pushed(header.to, to), type |-> Pushed(header.type, type)]

worker_bounce(s, from) ==
    builder_build(s.name, "error", Switched(s), from, Unset)

---------------------------------------------------------------------------
(* packet_parse                                                            *)

set_type(s) == s.type \in Types[s.name] \cup {Unset, "error"}

\* A message to a room, and not to an occupant, must be of type groupchat.
packet_parse(s) ==
    /\ set_type(s)
    /\ s.to # "malformed"
    /\ s.name \in {"message", "presence"} => s.to # "component"
    /\ (s.name = "message" /\ s.to \in {Room, "absent"}) => s.type = "groupchat"

Handle(s) == alive /\ got' = s

Dropped(s) ==
    /\ Handle(s) /\ ~packet_parse(s)
    /\ sent' = {}
    /\ UNCHANGED <<vars, inside, found>>

---------------------------------------------------------------------------
(* component_process: a query of type get is answered if a child has a     *)
(* namespace.  The record that build_stats reads is never filled in.       *)

component_process(s) ==
    /\ Handle(s) /\ packet_parse(s) /\ s.to = "component"
    /\ sent' = IF s.type = "get" /\ s.content \notin {"text", "stats"}
               THEN {builder_build("iq", IF s.content = "admin" THEN "error" ELSE "result",
                                   Switched(s), "component", Unset)}
               ELSE {}
    /\ alive' = ~(s.type = "get" /\ s.content = "stats")
    /\ UNCHANGED <<ticks, role, last, said, subject, entries, size, inside, found>>

---------------------------------------------------------------------------
(* rooms_process, for a name without a room.                               *)

Elsewhere(s) == Handle(s) /\ packet_parse(s) /\ s.to \in Absent /\ ~found

CreatesRoom(s) == s.name = "presence" /\ s.type = Unset

\* No room, and none is created: this client may not.
NoRoom(s) ==
    /\ Elsewhere(s)
    /\ sent' = IF s.type = "error" THEN {}
               ELSE {worker_bounce(s, IF CreatesRoom(s) THEN "absent" ELSE "component")}
    /\ UNCHANGED <<vars, inside, found>>

\* The room that is created takes the presence at once: without a nick it is
\* refused, and the room stays; with one the client joins, or the lookup of
\* its affiliation dies of the lists that are still empty (module Room).
rooms_create_room(s) ==
    /\ Elsewhere(s) /\ CreatesRoom(s)
    /\ found' = TRUE
    /\ \/ /\ s.to = "absent"
          /\ sent' = {worker_bounce(s, "absent")}
          /\ UNCHANGED alive
       \/ /\ s.to # "absent"
          /\ sent' = {builder_build("presence", Unset, NoHeader, s.from, s.from)}
          /\ UNCHANGED alive
       \/ /\ s.to # "absent"
          /\ sent' = {}
          /\ alive' = FALSE
    /\ UNCHANGED <<ticks, role, last, said, subject, entries, size, inside>>

---------------------------------------------------------------------------
(* room_route                                                              *)

InRoom(s, name) ==
    /\ Handle(s) /\ packet_parse(s)
    /\ UNCHANGED found
    /\ s.to \in Clients \cup {Room} /\ s.name = name

Bounce(s) == sent' = {worker_bounce(s, Room)}

\* Nothing changes, and there is an answer or not.
Refuse(s) == Bounce(s) /\ UNCHANGED <<vars, inside>>
Ignore    == sent' = {} /\ UNCHANGED <<vars, inside>>

\* room_broadcast_presence has a packet of its own, without a header.
room_broadcast_presence(c, type, receivers) ==
    {builder_build("presence", type, NoHeader, c, r) : r \in receivers}

\* The participant's fields are cleared when it goes, rather than when the
\* next one is made (participant_init).
room_leave(s) ==
    /\ sent' = room_broadcast_presence(s.from, "unavailable", inside)
    /\ Rejoin(s.from)
    /\ inside' = inside \ {s.from}

\* A message or presence of type error removes its sender.
OccupantError(s) ==
    /\ \E name \in {"message", "presence"} : InRoom(s, name)
    /\ s.type = "error"
    /\ IF s.from \in inside THEN room_leave(s) ELSE Ignore

---------------------------------------------------------------------------
(* route_message                                                           *)

IsMessage(s) == InRoom(s, "message") /\ s.type # "error"
IsPublic(s) == IsMessage(s) /\ s.to = Room

\* The conditions that bounce a private message.
NoPM(s) ==
    \/ s.from \notin inside
    \/ s.to \notin inside
    \/ role[s.from] = ROLE_VISITOR /\ ~VisitorsPM
    \/ ~AllowPM

\* A public message that is refused at once.
MessageRefused(s) ==
    /\ IsPublic(s)
    /\ s.from \notin inside \/ ~Accepted(s.from)
    /\ Refuse(s)

\* The old subject is freed before the new one is measured.
LongSubjectMutant(s) ==
    /\ IsPublic(s)
    /\ s.from \in inside /\ Accepted(s.from)
    /\ s.content = "long" /\ SubjectAllowed(s.from)
    /\ last' = [last EXCEPT ![s.from] = ticks]
    /\ subject' = Never
    /\ Bounce(s)
    /\ UNCHANGED <<alive, ticks, role, said, entries, size, inside>>

\* A subject that is too long is refused with the time noted.
LongSubject(s) ==
    /\ IsPublic(s)
    /\ s.from \in inside /\ Accepted(s.from)
    /\ s.content = "long" /\ SubjectAllowed(s.from)
    /\ last' = [last EXCEPT ![s.from] = ticks]
    /\ Bounce(s)
    /\ UNCHANGED <<alive, ticks, role, said, subject, entries, size, inside>>

NoSubject(s) ==
    /\ IsPublic(s)
    /\ s.from \in inside /\ s.content # "text"
    /\ SubjectRefused(s.from)
    /\ Bounce(s)
    /\ UNCHANGED inside

PublicMessage(s) ==
    /\ IsPublic(s)
    /\ s.from \in inside /\ s.content # "long"
    /\ route_message(s.from, s.content = "subject")
    /\ sent' = IF alive'
               THEN {builder_build("message", s.type, Cleaned(s), s.from, r) : r \in inside}
               ELSE {}
    /\ UNCHANGED inside

\* Without the test of the sender.
PrivateMessageMutant(s) ==
    /\ IsMessage(s) /\ s.to \in Clients
    /\ IF NoPM(s) /\ s.from \in inside
       THEN Refuse(s)
       ELSE /\ sent' = {builder_build("message", s.type, Cleaned(s), s.from, s.to)}
            /\ UNCHANGED <<vars, inside>>

PrivateMessage(s) ==
    /\ IsMessage(s) /\ s.to \in Clients
    /\ IF NoPM(s)
       THEN Refuse(s)
       ELSE /\ sent' = {builder_build("message", s.type, Cleaned(s), s.from, s.to)}
            /\ UNCHANGED <<vars, inside>>

---------------------------------------------------------------------------
(* route_presence.  A new nick is not followed here (module Room).         *)

IsPresence(s) == InRoom(s, "presence") /\ s.type # "error"

Conflict(s) ==
    /\ IsPresence(s) /\ s.type = Unset
    /\ s.to \in inside \ {s.from}
    /\ Refuse(s)

Presence(s) ==
    /\ IsPresence(s) /\ s.type = Unset
    /\ s.from \in inside /\ s.to \in {s.from, Room}
    /\ sent' = room_broadcast_presence(s.from, Unset, inside)
    /\ UNCHANGED <<vars, inside>>

Unavailable(s) ==
    /\ IsPresence(s) /\ s.type = "unavailable"
    /\ IF s.from \in inside THEN room_leave(s) ELSE Ignore

\* A limit, a ban, a password or members-only, or no nick.
JoinRefused(s) ==
    /\ IsPresence(s) /\ s.type = Unset
    /\ s.from \notin inside /\ s.to \in {s.from, Room}
    /\ Refuse(s)

\* The newcomer gets the presences of the others and the subject.
room_join(s) ==
    /\ IsPresence(s) /\ s.type = Unset
    /\ s.from \notin inside /\ s.to = s.from
    /\ \E r \in ROLE_VISITOR .. ROLE_MODERATOR : ChangeRole(s.from, r)
    /\ inside' = inside \cup {s.from}
    /\ sent' = (UNION {room_broadcast_presence(c, Unset, {s.from}) : c \in inside})
               \cup room_broadcast_presence(s.from, Unset, inside')
               \cup (IF subject = Never THEN {}
                     ELSE {builder_build("message", "groupchat", NoHeader,
                                         subject, s.from)})

---------------------------------------------------------------------------
(* route_iq.  Its egress packet has no name, no header and no node to be   *)
(* from.                                                                   *)

Nameless(type, from, to) ==
    builder_build("none", type, NoHeader, from, to)

\* The text of a type depends on the name: without one it is empty.
Empty == "''"
Answer == Nameless(Empty, "component", Unset)

ProxiedIq(s) ==
    /\ InRoom(s, "iq") /\ s.to \in Clients
    /\ IF s.from \notin inside \/ ~IqProxy \/ s.to \notin inside
       THEN Bounce(s)
       ELSE sent' = {Nameless(Unset, "component/nick", s.to)}
    /\ UNCHANGED <<vars, inside>>

\* Queries the room answers, if the sender may ask.
Answered(s) ==
    \/ s.type = "get" /\ s.content = "info"
    \/ s.type = "get" /\ s.content = "items" /\ PublicParticipants
    \/ s.type \in {"get", "set"} /\ s.content = "admin" /\ s.from \in inside

\* Without the bounce for what the room does not implement.
RoomIqMutant(s) ==
    /\ InRoom(s, "iq") /\ s.to = Room
    /\ \/ Answered(s) /\ sent' = {Answer}
       \/ s.content \in {"text", "admin"} /\ Bounce(s)
       \/ ~Answered(s) /\ s.content \notin {"text", "admin"} /\ sent' = {}
    /\ UNCHANGED <<vars, inside>>

\* What changes nobody.  Everything that is not implemented is bounced, results
\* and errors included.
RoomIq(s) ==
    /\ InRoom(s, "iq") /\ s.to = Room
    /\ \/ Answered(s) /\ sent' = {Answer}
       \/ (Answered(s) => s.content = "admin") /\ Bounce(s)
    /\ UNCHANGED <<vars, inside>>

\* A set request: the answer goes out first, then the presence of the occupant
\* that was given another role or affiliation, or has to leave.  Bound: a request
\* affects one occupant (several, and several items, are in module Room).
Affect(s) ==
    /\ InRoom(s, "iq") /\ s.to = Room
    /\ s.type = "set" /\ Answered(s)
    /\ \E c \in inside :
         \/ /\ \E r \in ROLE_VISITOR .. ROLE_MODERATOR : ChangeRole(c, r)
            /\ sent' = {Answer} \cup room_broadcast_presence(c, Unset, inside)
            /\ UNCHANGED inside
         \/ /\ Rejoin(c)
            /\ sent' = {Answer} \cup room_broadcast_presence(c, "unavailable", inside)
            /\ inside' = inside \ {c}

---------------------------------------------------------------------------

OnMessage(s) ==
    \/ MessageRefused(s) \/ LongSubject(s) \/ NoSubject(s)
    \/ PublicMessage(s) \/ PrivateMessage(s)

OnPresence(s) ==
    \/ Conflict(s) \/ Presence(s) \/ Unavailable(s)
    \/ JoinRefused(s) \/ room_join(s)

worker_thread_entry(s) ==
    \/ Dropped(s) \/ component_process(s) \/ NoRoom(s) \/ rooms_create_room(s)
    \/ OccupantError(s) \/ OnMessage(s) \/ OnPresence(s)
    \/ ProxiedIq(s) \/ RoomIq(s) \/ Affect(s)

\* Between two stanzas time passes.
Meanwhile == timer_thread_entry /\ UNCHANGED <<inside, found, got, sent>>

NextAnswers == Meanwhile \/ \E s \in Stanzas : worker_thread_entry(s)

AnswersSpec == InitAnswers /\ [][NextAnswers]_allvars

---------------------------------------------------------------------------
(* Properties of a step that handles a stanza.                             *)

Fresh == sent' # sent \/ got' # got
Refusal(m) == m.type = <<"error">>
ToRoom(s) == s.to \in Clients \cup {Room}

\* The attributes packet_cleanup overwrites are the ones builder_build writes
\* again: no stanza has two of one kind, is without a sender or goes nowhere.
\* (room.c:882 leaves out the name and, in answers, the receiver.)
WellFormed ==
    [][Fresh => \A m \in sent' :
         /\ Len(m.from) = 1 /\ Len(m.type) <= 1
         /\ m.name # "none" => Len(m.to) = 1]_allvars

\* A refusal goes to the sender and is all that happens: no one else gets a
\* stanza, and nothing that the others can see changes, whatever the handler
\* did before it refused.  The exception here is a first presence without a
\* nick, which is refused by the room it has created, and the room stays.  (A
\* request of several items that is refused half way, and the owner entry of a
\* newcomer who is refused in a new room, are in module Room.)
RefusalIsAll ==
    [][\A m \in sent' : (Fresh /\ Refusal(m)) =>
         /\ sent' = {m} /\ m.to = <<got'.from>>
         /\ UNCHANGED <<alive, role, said, subject, entries, size, inside>>
         /\ found' # found => CreatesRoom(got') /\ got'.to = "absent"]_allvars

\* What is said in a room stays there: it comes from somebody who was inside
\* or is now, and goes to somebody who is; a public message that goes to one
\* goes to all, a private one to the one it was meant for.  The answers of
\* the room to queries are for everybody.
StaysInside ==
    [][\A m \in sent' : (Fresh /\ ToRoom(got') /\ ~Refusal(m) /\ m.type # <<Empty>>) =>
         /\ got'.from \in inside \cup inside'
         /\ \E r \in inside \cup inside' : m.to = <<r>>
         /\ (got'.name = "message" /\ got'.type # "error") =>
               {x.to[1] : x \in sent'} = IF got'.to = Room THEN inside ELSE {got'.to}]_allvars

\* "stanza type error: ignored" (rooms.c:95): no error answers an error, or
\* two servers might exchange errors for ever.  route_iq does not look: an iq
\* of type error to a room that exists is refused like any other.
ErrorsUnanswered ==
    [][\A m \in sent' : (Fresh /\ got'.type = "error" /\ Refusal(m)) =>
         got'.name = "iq" /\ ToRoom(got')]_allvars

Replies == {m \in sent' : m.name # "presence"}

\* Every request to a room, or to a name without one, leads to one stanza, the
\* presences of whom it changed apart.  Only a refusal is one its sender can
\* take for the answer: what route_iq sends otherwise, answers and requests it
\* hands on, is not an <iq/> (room.c:882), and an answer has no receiver.
RequestAnswered ==
    [][(Fresh /\ got'.name = "iq" /\ got'.type \in {"get", "set"}
          /\ (ToRoom(got') \/ got'.to \in Absent)) =>
         /\ Cardinality(Replies) = 1
         /\ \A m \in Replies : m.name = "iq" <=> Refusal(m)]_allvars

\* What waits for an answer is not told twice, and no error gets another.
AnswersOnce == RequestAnswered /\ ErrorsUnanswered
===========================================================================
