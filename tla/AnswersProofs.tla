--------------------------- MODULE AnswersProofs ---------------------------
(***************************************************************************)
(* Proofs about the messages of a room and what a worker does with one     *)
(* stanza, for every set of clients and every setting of the flags.  What  *)
(* a stanza does to the room is a step of GroupChat, the time noted for a  *)
(* message that is then refused, the end of the process, or nothing; so    *)
(* the invariant is about the room alone.                                  *)
(***************************************************************************)
EXTENDS Answers, SequenceTheorems, FiniteSetTheorems, TLAPS

\* A message is refused after its time was noted.
Noted(c) ==
    /\ Accepted(c)
    /\ last' = [last EXCEPT ![c] = ticks]
    /\ UNCHANGED <<alive, ticks, role, said, subject, entries, size>>

\* The process ends, or does not.
Ends ==
    /\ alive' \in BOOLEAN
    /\ alive' => alive
    /\ UNCHANGED <<ticks, role, last, said, subject, entries, size>>

RoomStep == Next \/ Ends \/ \E c \in Clients : Noted(c)

\* The sender of a stanza is a client.
LEMMA SenderIsClient == \A s \in Stanzas : s.from \in Clients
<1> TAKE s \in Stanzas
<1>1. PICK n \in Names :
         s \in [name : {n}, type : Types[n] \cup {Unset, "error", "other"},
               from : Clients, to : Addresses, content : Contents[n]]
  BY Zenon DEF Stanzas
<1> QED
  BY <1>1

\* What the handling of a stanza does to the room.
LEMMA HandlingIsRoomStep ==
    ASSUME inside \subseteq Clients, NEW s \in Stanzas, worker_thread_entry(s)
    PROVE  RoomStep \/ UNCHANGED vars
<1> DEFINE c == s.from
<1>1. c \in Clients
  BY SenderIsClient
<1>2. CASE Dropped(s) \/ NoRoom(s) \/ ProxiedIq(s) \/ RoomIq(s)
  BY <1>2 DEF Dropped, NoRoom, ProxiedIq, RoomIq
<1>3. CASE component_process(s) \/ rooms_create_room(s)
  BY <1>3 DEF component_process, rooms_create_room, Elsewhere, Handle, RoomStep, Ends
<1>4. CASE OccupantError(s) \/ Unavailable(s)
  <2>1. Rejoin(c) \/ UNCHANGED vars
    BY <1>4 DEF OccupantError, Unavailable, room_leave, Ignore
  <2> QED
    BY <2>1, <1>1 DEF RoomStep, Next
<1>5. CASE MessageRefused(s) \/ PrivateMessage(s)
  BY <1>5 DEF MessageRefused, PrivateMessage, Refuse
<1>6. CASE LongSubject(s)
  BY <1>6, <1>1 DEF LongSubject, RoomStep, Noted
<1>7. CASE NoSubject(s)
  BY <1>7, <1>1 DEF NoSubject, RoomStep, Next
<1>8. CASE PublicMessage(s)
  <2>1. \E has_subject \in BOOLEAN : route_message(c, has_subject)
    BY <1>8 DEF PublicMessage
  <2> QED
    BY <2>1, <1>1 DEF RoomStep, Next
<1>9. CASE Conflict(s) \/ Presence(s) \/ JoinRefused(s)
  BY <1>9 DEF Conflict, Presence, JoinRefused, Refuse
<1>10. CASE room_join(s)
  BY <1>10, <1>1 DEF room_join, RoomStep, Next
<1>11. CASE Affect(s)
  BY <1>11 DEF Affect, RoomStep, Next
<1> QED
  BY <1>2, <1>3, <1>4, <1>5, <1>6, <1>7, <1>8, <1>9, <1>10, <1>11
     DEF worker_thread_entry, OnMessage, OnPresence

\* What any step does to the room.
LEMMA AnyStepIsRoomStep ==
    ASSUME inside \subseteq Clients, [NextAnswers]_allvars
    PROVE  RoomStep \/ UNCHANGED vars
<1>1. CASE Meanwhile
  BY <1>1 DEF Meanwhile, RoomStep, Next
<1>2. CASE \E s \in Stanzas : worker_thread_entry(s)
  BY <1>2, HandlingIsRoomStep
<1>3. CASE UNCHANGED allvars
  BY <1>3 DEF allvars
<1> QED
  BY <1>1, <1>2, <1>3 DEF NextAnswers

\* Only clients are inside.
LEMMA InsideStep ==
    ASSUME inside \subseteq Clients, [NextAnswers]_allvars
    PROVE  (inside \subseteq Clients)'
<1>1. \/ UNCHANGED inside
      \/ \E c \in Clients : inside' = inside \ {c} \/ inside' = inside \cup {c}
  BY SenderIsClient
     DEF NextAnswers, Meanwhile, worker_thread_entry, allvars, Dropped,
         component_process, NoRoom, rooms_create_room, Affect, OccupantError,
         OnMessage, OnPresence,
         ProxiedIq, RoomIq, room_leave, Ignore, Refuse, MessageRefused,
         LongSubject, NoSubject, PublicMessage, PrivateMessage, Conflict,
         Presence, Unavailable, JoinRefused, room_join
<1> QED
  BY <1>1

---------------------------------------------------------------------------
\* The invariant: types, and the double count of the entries of a loaded
\* history, which is what keeps size from falling below zero.
ChatInv ==
    /\ TypeOK
    /\ alive => size = 2 * entries

\* The room begins as room_init or room_deserialize leaves it.
LEMMA ChatInit == Init => ChatInv
<1> SUFFICES ASSUME Init PROVE ChatInv
  OBVIOUS
<1> USE ChatAssumption DEF Times, Init, ROLE_VISITOR, ROLE_MODERATOR
<1>1. entries \in 0 .. HistoryMax /\ size = 2 * entries
  OBVIOUS
<1>2. size \in 0 .. 2 * HistoryMax
  BY <1>1
<1> QED
  BY <1>1, <1>2 DEF ChatInv, TypeOK

\* Steps that leave the history and what was said alone.
LEMMA QuietInv ==
    ASSUME ChatInv,
           \/ timer_thread_entry \/ Ends
           \/ \E c \in Clients :
                 \/ Rejoin(c) \/ SubjectRefused(c) \/ Noted(c)
                 \/ \E r \in ROLE_VISITOR .. ROLE_MODERATOR : ChangeRole(c, r)
    PROVE  ChatInv'
<1> USE ChatAssumption DEF Times, ChatInv, TypeOK, ROLE_VISITOR, ROLE_MODERATOR
<1>1. CASE timer_thread_entry
  <2>1. ticks' \in Times
    BY <1>1 DEF timer_thread_entry
  <2> QED
    BY <1>1, <2>1 DEF timer_thread_entry
<1>2. CASE Ends
  BY <1>2 DEF Ends
<1>3. ASSUME NEW c \in Clients, Rejoin(c)
      PROVE  ChatInv'
  BY <1>3 DEF Rejoin
<1>4. ASSUME NEW c \in Clients, SubjectRefused(c) \/ Noted(c)
      PROVE  ChatInv'
  <2>1. /\ UNCHANGED <<alive, ticks, role, said, subject, entries, size>>
        /\ last' = [last EXCEPT ![c] = ticks]
    BY <1>4 DEF SubjectRefused, Noted
  <2> QED
    BY <2>1
<1>5. ASSUME NEW c \in Clients, NEW r \in ROLE_VISITOR .. ROLE_MODERATOR,
             ChangeRole(c, r)
      PROVE  ChatInv'
  BY <1>5 DEF ChangeRole
<1> QED
  BY <1>1, <1>2, <1>3, <1>4, <1>5

\* A message that is sent on.
LEMMA MessageInv ==
    ASSUME ChatInv, NEW c \in Clients, NEW has_subject \in BOOLEAN,
           route_message(c, has_subject)
    PROVE  ChatInv'
<1> USE ChatAssumption DEF Times, ChatInv, TypeOK, ROLE_VISITOR, ROLE_MODERATOR
<1>1. /\ alive
      /\ last' = [last EXCEPT ![c] = ticks]
      /\ subject' \in Clients \cup {Never}
      /\ said' = IF alive' THEN [said EXCEPT ![c] = ticks] ELSE said
      /\ UNCHANGED <<ticks, role>>
  BY DEF route_message, Accepted
<1>2. /\ alive' \in BOOLEAN
      /\ entries' \in 0 .. HistoryMax
      /\ size' \in 0 .. 2 * HistoryMax
      /\ alive' => size' = 2 * entries'
  <2>1. CASE /\ alive' = FALSE /\ entries' = 0 /\ size' = size - entries
    <3>1. entries \in 0 .. HistoryMax /\ size = 2 * entries /\ HistoryMax \in Nat
      BY <1>1
    <3>2. size' = entries
      BY <2>1, <3>1
    <3>3. entries' \in 0 .. HistoryMax /\ size' \in 0 .. 2 * HistoryMax
      BY <2>1, <3>1, <3>2
    <3> QED
      BY <2>1, <3>3
  <2>2. CASE UNCHANGED <<alive, entries, size>>
    BY <2>2, <1>1
  <2> QED
    BY <2>1, <2>2 DEF route_message, history_entries_push
<1>3. last' \in [Clients -> Times] /\ said' \in [Clients -> Times \cup {Never}]
  BY <1>1
<1> QED
  BY <1>1, <1>2, <1>3

\* What a stanza may do to the room keeps the invariant.
LEMMA RoomStepInv ==
    ASSUME ChatInv, RoomStep
    PROVE  ChatInv'
BY QuietInv, MessageInv DEF RoomStep, Next

\* The invariant holds in every reachable state.
AnswersInv == ChatInv /\ inside \subseteq Clients

\* A stanza, a tick or nothing.
LEMMA AnswersStep == AnswersInv /\ [NextAnswers]_allvars => AnswersInv'
<1> SUFFICES ASSUME AnswersInv, [NextAnswers]_allvars PROVE AnswersInv'
  OBVIOUS
<1>1. ChatInv'
  <2>1. CASE UNCHANGED vars
    BY <2>1 DEF AnswersInv, ChatInv, TypeOK, vars
  <2> QED
    BY <2>1, AnyStepIsRoomStep, RoomStepInv DEF AnswersInv
<1> QED
  BY <1>1, InsideStep DEF AnswersInv

\* The invariant of the room holds whatever the workers handle.
LEMMA AnswersAlways == AnswersSpec => []AnswersInv
<1>1. InitAnswers => AnswersInv
  BY ChatInit DEF InitAnswers, AnswersInv
<1> QED
  BY <1>1, AnswersStep, PTL DEF AnswersSpec

\* Every variable of the room has its type; above all, the size field of the
\* history does not fall below zero when history_entries_push empties it.
THEOREM ChatTypeCorrect == AnswersSpec => []TypeOK
BY AnswersAlways, PTL DEF AnswersInv, ChatInv

---------------------------------------------------------------------------
(* What is sent: every stanza is one of these two, or has no name.         *)

\* What is there is not nothing.
LEMMA UnsetDiffers ==
    /\ Unset # "error" /\ Unset # "result" /\ Unset # "unavailable"
    /\ Unset # "groupchat" /\ Unset # Empty /\ Unset # Room
  BY Zenon DEF Unset, Empty, Room

\* A stanza with one attribute of each kind, at most.
Built(name, type, from, to) ==
    [name |-> name, from |-> <<from>>, to |-> <<to>>,
     type |-> IF type = Unset THEN <<>> ELSE <<type>>]

\* What worker_bounce sends has one of each attribute it needs.
LEMMA BounceIsBuilt ==
    ASSUME NEW s, NEW from
    PROVE  worker_bounce(s, from) = Built(s.name, "error", from, s.from)
  BY DEF worker_bounce, builder_build, Switched, packet_cleanup, Header, Pushed, Built

\* An attribute that is written once.
LEMMA PushedOnce ==
    ASSUME NEW v
    PROVE  /\ Append(<<>>, v) = <<v>>
           /\ Pushed(<<>>, v) = IF v = Unset THEN <<>> ELSE <<v>>
           /\ <<>> \o <<>> = <<>> /\ <<>> \o <<v>> = <<v>>
<1>1. Append(<<>>, v) = <<v>>
  OBVIOUS
<1>2. <<>> \in Seq({v}) /\ <<v>> \in Seq({v})
  OBVIOUS
<1>3. <<>> \o <<>> = <<>> /\ <<>> \o <<v>> = <<v>>
  BY <1>2, ConcatEmptySeq
<1> QED
  BY <1>1, <1>3 DEF Pushed

\* A stanza without a header, or passed on with the attributes taken out.
LEMMA PassedIsBuilt ==
    ASSUME NEW s, NEW name, NEW type, NEW from, NEW to, to # Unset
    PROVE  /\ builder_build(name, type, NoHeader, from, to) = Built(name, type, from, to)
           /\ builder_build(name, type, Cleaned(s), from, to) = Built(name, type, from, to)
<1>1. Cleaned(s) = NoHeader
  <2>1. <<>> \o <<>> = <<>>
    BY PushedOnce
  <2> QED
    BY <2>1 DEF Cleaned, NoHeader, packet_cleanup
<1>2. builder_build(name, type, NoHeader, from, to)
        = [name |-> name, from |-> Append(<<>>, from),
           to |-> Pushed(<<>>, to), type |-> Pushed(<<>>, type)]
  BY DEF builder_build, NoHeader
<1> QED
  BY <1>1, <1>2, PushedOnce DEF Built

\* The answers of the component, and the one that has no name.
LEMMA AnswerIsBuilt ==
    ASSUME NEW s
    PROVE  /\ builder_build("iq", "error", Switched(s), "component", Unset)
                = Built("iq", "error", "component", s.from)
           /\ builder_build("iq", "result", Switched(s), "component", Unset)
                = Built("iq", "result", "component", s.from)
           /\ Nameless(Empty, "component", Unset)
                = [name |-> "none", from |-> <<"component">>, to |-> <<>>,
                   type |-> <<Empty>>]
<1>1. builder_build("iq", "error", Switched(s), "component", Unset)
        = Built("iq", "error", "component", s.from)
  BY DEF builder_build, Switched, packet_cleanup, Header, Pushed, Built
<1>2. builder_build("iq", "result", Switched(s), "component", Unset)
        = Built("iq", "result", "component", s.from)
  BY DEF builder_build, Switched, packet_cleanup, Header, Pushed, Built
<1>3. Nameless(Empty, "component", Unset)
        = [name |-> "none", from |-> <<"component">>, to |-> <<>>,
           type |-> <<Empty>>]
  BY PushedOnce, UnsetDiffers DEF Nameless, builder_build, NoHeader
<1> QED
  BY <1>1, <1>2, <1>3

\* The parts of a stanza that was built.
LEMMA BuiltParts ==
    ASSUME NEW name, NEW type, NEW from, NEW to, NEW m, m = Built(name, type, from, to)
    PROVE  /\ m.name = name /\ m.from = <<from>> /\ m.to = <<to>>
           /\ Len(m.from) = 1 /\ Len(m.to) = 1 /\ Len(m.type) <= 1
           /\ m.to[1] = to
           /\ m.type = <<"error">> <=> type = "error"
<1>1. /\ m.name = name /\ m.from = <<from>> /\ m.to = <<to>>
      /\ m.type = IF type = Unset THEN <<>> ELSE <<type>>
  BY DEF Built
<1>2. \A x : Len(<<x>>) = 1 /\ <<x>>[1] = x /\ <<x>> # <<>> /\ Len(<<>>) = 0
  OBVIOUS
<1>3. m.type = <<"error">> <=> type = "error"
  <2>1. CASE type = Unset
    <3>1. m.type = <<>>
      BY <1>1, <2>1
    <3>2. m.type # <<"error">>
      BY <1>2, <3>1
    <3> QED
      BY <2>1, <3>2, UnsetDiffers
  <2>2. CASE type # Unset
    <3>1. m.type = <<type>>
      BY <1>1, <2>2
    <3>2. <<type>> = <<"error">> => <<type>>[1] = <<"error">>[1]
      OBVIOUS
    <3> QED
      BY <1>2, <3>1, <3>2
  <2> QED
    BY <2>1, <2>2
<1>4. Len(m.from) = 1 /\ Len(m.to) = 1 /\ m.to[1] = to
  BY <1>1, <1>2
<1>5. Len(m.type) <= 1
  <2>1. CASE type = Unset
    <3>1. m.type = <<>>
      BY <1>1, <2>1
    <3>2. Len(m.type) = 0
      BY <1>2, <3>1
    <3> QED
      BY <3>2
  <2>2. CASE type # Unset
    <3>1. m.type = <<type>>
      BY <1>1, <2>2
    <3>2. Len(m.type) = 1
      BY <1>2, <3>1
    <3> QED
      BY <3>2
  <2> QED
    BY <2>1, <2>2
<1> QED
  BY <1>1, <1>3, <1>4, <1>5

---------------------------------------------------------------------------
(* The ways the handling of a stanza can end.  Every property of a step is *)
(* read off them.                                                          *)

Request(s) ==
    s.name = "iq" /\ s.type \in {"get", "set"} /\ (ToRoom(s) \/ s.to \in Absent)

Silent(s) == sent' = {} /\ ~Request(s)

Refused(s) ==
    /\ \E from : sent' = {Built(s.name, "error", from, s.from)}
    /\ UNCHANGED <<alive, role, said, subject, entries, size, inside>>
    /\ s.type = "error" => s.name = "iq" /\ ToRoom(s)
    /\ found' # found => CreatesRoom(s) /\ s.to = "absent"

ComponentAnswers(s) ==
    s.to = "component" /\ sent' = {Built("iq", "result", "component", s.from)}

TheAnswer == [name |-> "none", from |-> <<"component">>, to |-> <<>>,
              type |-> <<Empty>>]

RoomAnswers(s) == s.name = "iq" /\ sent' = {TheAnswer}

Changes(s) ==
    /\ s.name = "iq" /\ s.from \in inside
    /\ \E type \in {Unset, "unavailable"}, c \in inside :
         sent' = {TheAnswer} \cup {Built("presence", type, c, r) : r \in inside}

Enters(s) ==
    /\ s.name = "presence" /\ s.to \in Absent
    /\ sent' = {Built("presence", Unset, s.from, s.from)}

Proxied(s) ==
    /\ s.name = "iq" /\ s.from \in inside /\ s.to \in inside
    /\ sent' = {Built("none", Unset, "component/nick", s.to)}

Said(s) ==
    /\ s.name = "message" /\ s.type # "error" /\ s.from \in inside
    /\ LET receivers == IF s.to = Room THEN inside ELSE {s.to}
       IN  /\ receivers \subseteq inside
           /\ sent' = {Built("message", s.type, s.from, r) : r \in receivers}

Shown(s) ==
    /\ s.name = "presence" \/ (s.name = "message" /\ s.type = "error")
    /\ s.from \in inside \cup inside'
    /\ \A m \in sent' :
          \E name \in {"presence", "message"}, type \in {Unset, "unavailable", "groupchat"},
             from \in Clients, r \in inside \cup inside' :
             m = Built(name, type, from, r)

Outcome(s) ==
    \/ Silent(s) \/ Refused(s) \/ ComponentAnswers(s) \/ RoomAnswers(s)
    \/ Proxied(s) \/ Said(s) \/ Shown(s) \/ Changes(s) \/ Enters(s)

\* The parts of a stanza.
LEMMA StanzaParts ==
    ASSUME NEW s \in Stanzas
    PROVE  /\ s.name \in {"message", "presence", "iq"}
           /\ s.from \in Clients /\ s.to \in Addresses
<1>1. PICK n \in Names :
         s \in [name : {n}, type : Types[n] \cup {Unset, "error", "other"},
               from : Clients, to : Addresses, content : Contents[n]]
  BY Zenon DEF Stanzas
<1>2. n \in {"message", "presence", "iq"}
  BY DEF Names, Types
<1> QED
  BY <1>1, <1>2

\* The addresses differ.
LEMMA AddressesDiffer ==
    /\ \A c \in Clients : c # Unset /\ c # "component" /\ c # "malformed" /\ c # Room
                          /\ c \notin Absent
    /\ Room # Unset /\ Room # "component" /\ Room # "malformed" /\ Room \notin Absent
    /\ "component" \notin Absent /\ "malformed" \notin Absent
<1>1. /\ Room # "component" /\ Room # "malformed" /\ Room \notin Absent
      /\ "component" \notin Absent /\ "malformed" \notin Absent
  BY DEF Absent, Room
<1> QED
  BY <1>1, AddressAssumption, UnsetDiffers

\* The presences of one client for some of the others.
LEMMA PresencesBuilt ==
    ASSUME NEW c, NEW type, NEW S, S \subseteq Clients
    PROVE  room_broadcast_presence(c, type, S)
             = {Built("presence", type, c, r) : r \in S}
<1>1. \A r \in S : builder_build("presence", type, NoHeader, c, r)
                     = Built("presence", type, c, r)
  BY AddressesDiffer, PassedIsBuilt
<1> QED
  BY <1>1 DEF room_broadcast_presence

\* A bounce of something that is no error, or of an iq to the room.
LEMMA BounceRefuses ==
    ASSUME NEW s, Bounce(s),
           UNCHANGED <<alive, role, said, subject, entries, size, inside, found>>,
           s.type = "error" => s.name = "iq" /\ ToRoom(s)
    PROVE  Refused(s)
<1>1. sent' = {Built(s.name, "error", Room, s.from)}
  BY BounceIsBuilt DEF Bounce
<1> QED
  BY <1>1 DEF Refused

\* A departure is shown to whom it concerns.
LEMMA LeaveShows ==
    ASSUME AnswersInv, NEW s \in Stanzas, s.from \in inside, room_leave(s),
           s.name = "presence" \/ (s.name = "message" /\ s.type = "error")
    PROVE  Shown(s)
<1>1. sent' = {Built("presence", "unavailable", s.from, r) : r \in inside}
  BY PresencesBuilt DEF room_leave, AnswersInv
<1>2. s.from \in Clients
  BY StanzaParts
<1> QED
  BY <1>1, <1>2 DEF Shown

\* What is answered to anybody: the component, rooms that do not exist.
LEMMA OutsideOutcome ==
    ASSUME AnswersInv, NEW s \in Stanzas,
           Dropped(s) \/ component_process(s) \/ NoRoom(s) \/ rooms_create_room(s)
    PROVE  Outcome(s)
<1> USE DEF Outcome
<1>1. CASE Dropped(s)
  <2>1. ASSUME Request(s) PROVE packet_parse(s)
    <3>1. s.name = "iq" /\ s.type \in {"get", "set"} /\ s.to # "malformed"
      BY <2>1, AddressesDiffer DEF Request, ToRoom
    <3>2. Types["iq"] = {"get", "set", "result"}
      BY DEF Types
    <3>3. set_type(s)
      BY <3>1, <3>2 DEF set_type
    <3> QED
      BY <3>1, <3>3 DEF packet_parse
  <2> QED
    BY <1>1, <2>1 DEF Dropped, Silent
<1>2. CASE component_process(s)
  <2>1. s.name = "iq" /\ s.to = "component" /\ alive
    BY <1>2, StanzaParts DEF component_process, packet_parse, Handle
  <2>2. ~Request(s)
    BY <2>1, AddressesDiffer DEF Request, ToRoom
  <2>3. CASE ~(s.type = "get" /\ s.content \notin {"text", "stats"})
    BY <1>2, <2>2, <2>3 DEF component_process, Silent
  <2>4. CASE s.type = "get" /\ s.content \notin {"text", "stats"} /\ s.content = "admin"
    <3>1. sent' = {Built(s.name, "error", "component", s.from)}
      BY <1>2, <2>1, <2>4, AnswerIsBuilt DEF component_process
    <3>2. alive' = TRUE /\ alive = TRUE
      BY <1>2, <2>1, <2>4 DEF component_process, AnswersInv, ChatInv, TypeOK
    <3>3. UNCHANGED <<role, said, subject, entries, size, inside, found>>
      BY <1>2 DEF component_process
    <3> QED
      BY <2>4, <3>1, <3>2, <3>3 DEF Refused
  <2>5. CASE s.type = "get" /\ s.content \notin {"text", "stats"} /\ s.content # "admin"
    BY <1>2, <2>1, <2>5, AnswerIsBuilt DEF component_process, ComponentAnswers
  <2> QED
    BY <2>3, <2>4, <2>5
<1>3. CASE NoRoom(s)
  <2>1. CASE s.type = "error"
    BY <1>3, <2>1 DEF NoRoom, Silent, Request
  <2>2. CASE s.type # "error"
    <3>1. PICK from : sent' = {worker_bounce(s, from)}
      BY <1>3, <2>2 DEF NoRoom
    <3>2. UNCHANGED <<alive, role, said, subject, entries, size, inside, found>>
      BY <1>3 DEF NoRoom, vars
    <3> QED
      BY <2>2, <3>1, <3>2, BounceIsBuilt DEF Refused
  <2> QED
    BY <2>1, <2>2
<1>4. CASE rooms_create_room(s)
  <2>1. /\ s.name = "presence" /\ s.type = Unset /\ s.to \in Absent
        /\ UNCHANGED <<role, said, subject, entries, size, inside>>
    BY <1>4 DEF rooms_create_room, Elsewhere, CreatesRoom
  <2>2. ~Request(s)
    BY <2>1 DEF Request
  <2>3. CASE s.to = "absent"
    <3>1. sent' = {worker_bounce(s, "absent")} /\ UNCHANGED alive
      BY <1>4, <2>3 DEF rooms_create_room
    <3> QED
      BY <2>1, <2>3, <3>1, BounceIsBuilt, UnsetDiffers DEF Refused, CreatesRoom
  <2>4. CASE s.to # "absent"
    <3>1. \/ sent' = {builder_build("presence", Unset, NoHeader, s.from, s.from)}
          \/ sent' = {}
      BY <1>4, <2>4 DEF rooms_create_room
    <3>2. builder_build("presence", Unset, NoHeader, s.from, s.from)
            = Built("presence", Unset, s.from, s.from)
      BY StanzaParts, AddressesDiffer, PassedIsBuilt
    <3> QED
      BY <2>1, <2>2, <3>1, <3>2 DEF Enters, Silent
  <2> QED
    BY <2>3, <2>4
<1> QED
  BY <1>1, <1>2, <1>3, <1>4

\* What a message to the room or to an occupant leads to.
LEMMA MessageOutcome ==
    ASSUME AnswersInv, NEW s \in Stanzas, OccupantError(s) \/ OnMessage(s)
    PROVE  Outcome(s)
<1> USE DEF Outcome
<1>1. CASE OccupantError(s)
  <2>1. s.type = "error" /\ s.name \in {"message", "presence"}
    BY <1>1 DEF OccupantError, InRoom
  <2>2. CASE s.from \in inside
    BY <1>1, <2>1, <2>2, LeaveShows DEF OccupantError
  <2>3. CASE s.from \notin inside
    BY <1>1, <2>1, <2>3 DEF OccupantError, Ignore, Silent, Request
  <2> QED
    BY <2>2, <2>3
<1>2. CASE MessageRefused(s)
  BY <1>2, BounceRefuses DEF MessageRefused, IsPublic, IsMessage, InRoom, Refuse, vars
<1>3. CASE LongSubject(s)
  BY <1>3, BounceRefuses DEF LongSubject, IsPublic, IsMessage, InRoom
<1>4. CASE NoSubject(s)
  BY <1>4, BounceRefuses DEF NoSubject, SubjectRefused, IsPublic, IsMessage, InRoom
<1>5. CASE PublicMessage(s)
  <2>1. /\ s.name = "message" /\ s.type # "error" /\ s.to = Room /\ s.from \in inside
    BY <1>5 DEF PublicMessage, IsPublic, IsMessage, InRoom
  <2>2. \A r \in inside : builder_build("message", s.type, Cleaned(s), s.from, r)
                            = Built("message", s.type, s.from, r)
    <3>1. \A r \in inside : r # Unset
      BY AddressesDiffer DEF AnswersInv
    <3> QED
      BY <3>1, PassedIsBuilt
  <2>3. CASE alive'
    <3>1. sent' = {Built("message", s.type, s.from, r) : r \in inside}
      BY <1>5, <2>2, <2>3 DEF PublicMessage
    <3> QED
      BY <2>1, <3>1 DEF Said
  <2>4. CASE ~alive'
    BY <1>5, <2>1, <2>4 DEF PublicMessage, Silent, Request
  <2> QED
    BY <2>3, <2>4
<1>6. CASE PrivateMessage(s)
  <2>1. s.name = "message" /\ s.type # "error" /\ s.to \in Clients /\ s.to # Room
    BY <1>6, AddressesDiffer DEF PrivateMessage, IsMessage, InRoom
  <2>2. CASE NoPM(s)
    BY <1>6, <2>1, <2>2, BounceRefuses DEF PrivateMessage, IsMessage, InRoom, Refuse, vars
  <2>3. CASE ~NoPM(s)
    <3>1. sent' = {Built("message", s.type, s.from, s.to)}
      <4>1. s.to # Unset
        BY <2>1, AddressesDiffer
      <4>2. sent' = {builder_build("message", s.type, Cleaned(s), s.from, s.to)}
        BY <1>6, <2>3 DEF PrivateMessage
      <4> QED
        BY <4>1, <4>2, PassedIsBuilt
    <3>2. s.from \in inside /\ s.to \in inside
      BY <2>3 DEF NoPM
    <3> QED
      BY <2>1, <3>1, <3>2 DEF Said
  <2> QED
    BY <2>2, <2>3
<1> QED
  BY <1>1, <1>2, <1>3, <1>4, <1>5, <1>6 DEF OnMessage

\* What a presence leads to.
LEMMA PresenceOutcome ==
    ASSUME AnswersInv, NEW s \in Stanzas, OnPresence(s)
    PROVE  Outcome(s)
<1> USE DEF Outcome
<1>0. /\ s.name = "presence" /\ s.type # "error" /\ s.from \in Clients
      /\ inside \subseteq Clients
  BY StanzaParts DEF OnPresence, Conflict, Presence, Unavailable, JoinRefused, room_join,
     IsPresence, InRoom, AnswersInv
<1>1. CASE Conflict(s)
  BY <1>0, <1>1, BounceRefuses DEF Conflict, IsPresence, InRoom, Refuse, vars
<1>2. CASE Presence(s)
  <2>1. sent' = {Built("presence", Unset, s.from, r) : r \in inside}
    <3>1. sent' = room_broadcast_presence(s.from, Unset, inside)
      BY <1>2 DEF Presence
    <3> QED
      BY <1>0, <3>1, PresencesBuilt
  <2>2. s.from \in inside
    BY <1>2 DEF Presence
  <2>3. \A m \in sent' : \E r \in inside : m = Built("presence", Unset, s.from, r)
    BY <2>1
  <2>4. Shown(s)
    BY <1>0, <2>2, <2>3 DEF Shown
  <2> QED
    BY <2>4
<1>3. CASE Unavailable(s)
  <2>1. CASE s.from \in inside
    <3>1. room_leave(s)
      BY <1>3, <2>1 DEF Unavailable
    <3>2. Shown(s)
      BY <1>0, <2>1, <3>1, LeaveShows
    <3> QED
      BY <3>2
  <2>2. CASE s.from \notin inside
    BY <1>0, <1>3, <2>2 DEF Unavailable, Ignore, Silent, Request
  <2> QED
    BY <2>1, <2>2
<1>4. CASE JoinRefused(s)
  BY <1>0, <1>4, BounceRefuses DEF JoinRefused, IsPresence, InRoom, Refuse, vars
<1>5. CASE room_join(s)
  <2>1. inside' = inside \cup {s.from} /\ inside' \subseteq Clients
    BY <1>0, <1>5 DEF room_join
  <2>2. ASSUME NEW m \in sent'
        PROVE  \E name \in {"presence", "message"},
                  type \in {Unset, "unavailable", "groupchat"},
                  from \in Clients, r \in inside \cup inside' :
                  m = Built(name, type, from, r)
    <3>1. \/ \E c \in inside : m \in room_broadcast_presence(c, Unset, {s.from})
          \/ m \in room_broadcast_presence(s.from, Unset, inside')
          \/ subject # Never /\ m = builder_build("message", "groupchat", NoHeader,
                                                  subject, s.from)
      <4> DEFINE Others == {room_broadcast_presence(c, Unset, {s.from}) : c \in inside}
                 own == room_broadcast_presence(s.from, Unset, inside')
                 topic == builder_build("message", "groupchat", NoHeader, subject, s.from)
      <4>1. sent' = (UNION Others) \cup own \cup (IF subject = Never THEN {} ELSE {topic})
        BY <1>5 DEF room_join
      <4>2. m \in UNION Others
              => \E c \in inside : m \in room_broadcast_presence(c, Unset, {s.from})
        OBVIOUS
      <4> HIDE DEF Others, own, topic
      <4>3. m \in UNION Others \/ m \in own \/ (subject # Never /\ m = topic)
        BY <2>2, <4>1
      <4> QED
        BY <4>2, <4>3 DEF own, topic
    <3>2. ASSUME NEW c \in inside, m \in room_broadcast_presence(c, Unset, {s.from})
          PROVE  m = Built("presence", Unset, c, s.from) /\ c \in Clients
      <4>1. {s.from} \subseteq Clients /\ c \in Clients
        BY <1>0
      <4>2. room_broadcast_presence(c, Unset, {s.from})
              = {Built("presence", Unset, c, r) : r \in {s.from}}
        BY <4>1, PresencesBuilt
      <4> QED
        BY <3>2, <4>1, <4>2
    <3>3. ASSUME m \in room_broadcast_presence(s.from, Unset, inside')
          PROVE  \E r \in inside' : m = Built("presence", Unset, s.from, r)
      <4>1. room_broadcast_presence(s.from, Unset, inside')
              = {Built("presence", Unset, s.from, r) : r \in inside'}
        BY <2>1, PresencesBuilt
      <4> QED
        BY <3>3, <4>1
    <3>4. ASSUME subject # Never,
                 m = builder_build("message", "groupchat", NoHeader, subject, s.from)
          PROVE  m = Built("message", "groupchat", subject, s.from) /\ subject \in Clients
      BY <1>0, <3>4, AddressesDiffer, PassedIsBuilt DEF AnswersInv, ChatInv, TypeOK
    <3> QED
      BY <1>0, <2>1, <3>1, <3>2, <3>3, <3>4
  <2>3. Shown(s)
    BY <1>0, <2>1, <2>2 DEF Shown
  <2> QED
    BY <2>3
<1> QED
  BY <1>1, <1>2, <1>3, <1>4, <1>5 DEF OnPresence

\* What a query to the room or through it leads to.
LEMMA IqOutcome ==
    ASSUME AnswersInv, NEW s \in Stanzas, ProxiedIq(s) \/ RoomIq(s) \/ Affect(s)
    PROVE  Outcome(s)
<1> USE DEF Outcome
<1>0. s.name = "iq" /\ ToRoom(s) /\ found' = found
  BY DEF ProxiedIq, RoomIq, Affect, InRoom, ToRoom
<1>a. Answer = TheAnswer
  BY AnswerIsBuilt DEF Answer, TheAnswer
<1>1. CASE (ProxiedIq(s) \/ RoomIq(s)) /\ Bounce(s)
  <2>1. UNCHANGED <<alive, role, said, subject, entries, size, inside>>
    BY <1>1 DEF ProxiedIq, RoomIq, vars
  <2> QED
    BY <1>0, <1>1, <2>1, BounceRefuses
<1>2. CASE ProxiedIq(s) /\ ~Bounce(s)
  <2>1. /\ s.from \in inside /\ s.to \in inside /\ s.to \in Clients
        /\ sent' = {Nameless(Unset, "component/nick", s.to)}
    BY <1>2 DEF ProxiedIq
  <2>2. Nameless(Unset, "component/nick", s.to) = Built("none", Unset, "component/nick", s.to)
    BY <2>1, AddressesDiffer, PassedIsBuilt DEF Nameless
  <2> QED
    BY <1>0, <2>1, <2>2 DEF Proxied
<1>3. CASE RoomIq(s) /\ ~Bounce(s)
  BY <1>0, <1>a, <1>3 DEF RoomIq, RoomAnswers
<1>4. CASE Affect(s)
  <2>1. PICK c \in inside, type \in {Unset, "unavailable"} :
          sent' = {Answer} \cup room_broadcast_presence(c, type, inside)
    BY <1>4 DEF Affect
  <2>2. room_broadcast_presence(c, type, inside)
          = {Built("presence", type, c, r) : r \in inside}
    BY PresencesBuilt DEF AnswersInv
  <2>3. s.from \in inside
    BY <1>4 DEF Affect, Answered
  <2> QED
    BY <1>0, <1>a, <2>1, <2>2, <2>3 DEF Changes
<1> QED
  BY <1>1, <1>2, <1>3, <1>4

\* A step that handles a stanza has one of the outcomes.
LEMMA FreshOutcome ==
    ASSUME AnswersInv, [NextAnswers]_allvars, Fresh
    PROVE  got' \in Stanzas /\ Outcome(got')
<1>1. PICK s \in Stanzas : worker_thread_entry(s)
  BY DEF Fresh, NextAnswers, Meanwhile, allvars
<1>2. got' = s
  BY <1>1 DEF worker_thread_entry, Dropped, component_process, NoRoom, OccupantError,
     OnMessage, MessageRefused, LongSubject, NoSubject, PublicMessage, PrivateMessage,
     IsPublic, IsMessage, OnPresence, Conflict, Presence, Unavailable, JoinRefused,
     room_join, IsPresence, ProxiedIq, RoomIq, Affect, InRoom, Handle,
     rooms_create_room, Elsewhere
<1>3. Outcome(s)
  BY <1>1, OutsideOutcome, MessageOutcome, PresenceOutcome, IqOutcome
     DEF worker_thread_entry
<1> QED
  BY <1>1, <1>2, <1>3

\* A stanza that is sent: its attributes, and that it is a refusal only where
\* the sender is refused.
LEMMA SentParts ==
    ASSUME AnswersInv, [NextAnswers]_allvars, Fresh, NEW m, m \in sent'
    PROVE  /\ Len(m.from) = 1 /\ Len(m.type) <= 1
           /\ m.name # "none" => Len(m.to) = 1
           /\ Refusal(m) => Refused(got')
<1> DEFINE s == got'
<1>0. Outcome(s)
  BY FreshOutcome
<1> HIDE DEF s
<1>1. CASE Refused(s)
  <2>1. PICK from : m = Built(s.name, "error", from, s.from)
    BY <1>1 DEF Refused
  <2> QED
    BY <1>1, <2>1, BuiltParts DEF s
<1>2. CASE m = TheAnswer
  <2>1. m = [name |-> "none", from |-> <<"component">>, to |-> <<>>,
             type |-> <<Empty>>]
    BY <1>2 DEF TheAnswer
  <2>2. <<"error">>[1] = "error" /\ <<Empty>>[1] = Empty
    OBVIOUS
  <2>3. Empty # "error"
    BY DEF Empty
  <2>4. Len(<<"component">>) = 1 /\ Len(<<Empty>>) = 1
    OBVIOUS
  <2> QED
    BY <2>1, <2>2, <2>3, <2>4 DEF Refusal
<1>3. CASE /\ m # TheAnswer
          /\ \/ ComponentAnswers(s) \/ Proxied(s) \/ Said(s) \/ Shown(s)
             \/ Changes(s) \/ Enters(s)
  <2>1. PICK name, type, from, to : type # "error" /\ m = Built(name, type, from, to)
    <3>1. CASE ComponentAnswers(s)
      BY <3>1 DEF ComponentAnswers
    <3>2. CASE Proxied(s)
      BY <3>2, UnsetDiffers DEF Proxied
    <3>3. CASE Said(s)
      BY <3>3 DEF Said
    <3>4. CASE Shown(s)
      BY <3>4, UnsetDiffers DEF Shown
    <3>5. CASE Changes(s)
      BY <1>3, <3>5, UnsetDiffers DEF Changes
    <3>6. CASE Enters(s)
      BY <3>6, UnsetDiffers DEF Enters
    <3> QED
      BY <1>3, <3>1, <3>2, <3>3, <3>4, <3>5, <3>6
  <2> QED
    BY <2>1, BuiltParts DEF Refusal
<1>4. ~Silent(s)
  BY DEF Silent
<1>5. RoomAnswers(s) => m = TheAnswer
  BY DEF RoomAnswers
<1> QED
  BY <1>0, <1>1, <1>2, <1>3, <1>4, <1>5 DEF Outcome

\* No stanza has two attributes of a kind, is without a sender or goes
\* nowhere: what packet_cleanup takes out is what builder_build writes again,
\* in every handler a worker calls and for every stanza the server may send.
THEOREM StanzasWellFormed == AnswersSpec => WellFormed
<1> DEFINE A == Fresh => \A m \in sent' :
                   /\ Len(m.from) = 1 /\ Len(m.type) <= 1
                   /\ m.name # "none" => Len(m.to) = 1
<1>1. AnswersInv /\ [NextAnswers]_allvars => [A]_allvars
  BY SentParts
<1> QED
  BY <1>1, AnswersAlways, PTL DEF AnswersSpec, WellFormed

\* A refusal goes back to the sender, it is the only stanza, and nothing has
\* changed that the others can see, in whichever handler the stanza was
\* refused and whatever it did before that; but a first presence without a
\* nick may leave a room behind (rooms_process creates it before room_route
\* looks at the nick).
THEOREM RefusalsAreAll == AnswersSpec => RefusalIsAll
<1> DEFINE A == \A m \in sent' : (Fresh /\ Refusal(m)) =>
                   /\ sent' = {m} /\ m.to = <<got'.from>>
                   /\ UNCHANGED <<alive, role, said, subject, entries, size, inside>>
                   /\ found' # found => CreatesRoom(got') /\ got'.to = "absent"
<1>1. ASSUME AnswersInv, [NextAnswers]_allvars, Fresh, NEW m, m \in sent', Refusal(m)
      PROVE  /\ sent' = {m} /\ m.to = <<got'.from>>
             /\ UNCHANGED <<alive, role, said, subject, entries, size, inside>>
             /\ found' # found => CreatesRoom(got') /\ got'.to = "absent"
  <2>1. Refused(got')
    BY <1>1, SentParts
  <2>2. PICK from : sent' = {Built(got'.name, "error", from, got'.from)}
    BY <2>1 DEF Refused
  <2>3. m = Built(got'.name, "error", from, got'.from)
    BY <1>1, <2>2
  <2> QED
    BY <2>1, <2>2, <2>3, BuiltParts DEF Refused
<1>2. AnswersInv /\ [NextAnswers]_allvars => [A]_allvars
  BY <1>1
<1> QED
  BY <1>2, AnswersAlways, PTL DEF AnswersSpec, RefusalIsAll

\* What is said in a room comes from an occupant and goes to occupants; a
\* public message goes to all of them and a private one to the one it is for.
THEOREM RoomsKeepToThemselves == AnswersSpec => StaysInside
<1> DEFINE A == \A m \in sent' :
                   (Fresh /\ ToRoom(got') /\ ~Refusal(m) /\ m.type # <<Empty>>) =>
         /\ got'.from \in inside \cup inside'
         /\ \E r \in inside \cup inside' : m.to = <<r>>
         /\ (got'.name = "message" /\ got'.type # "error") =>
               {x.to[1] : x \in sent'} = IF got'.to = Room THEN inside ELSE {got'.to}
<1>1. ASSUME AnswersInv, [NextAnswers]_allvars, Fresh, NEW m, m \in sent',
             ToRoom(got'), ~Refusal(m), m.type # <<Empty>>
      PROVE  /\ got'.from \in inside \cup inside'
             /\ \E r \in inside \cup inside' : m.to = <<r>>
             /\ (got'.name = "message" /\ got'.type # "error") =>
                   {x.to[1] : x \in sent'} = IF got'.to = Room THEN inside ELSE {got'.to}
  <2> DEFINE s == got'
  <2>0. Outcome(s)
    BY <1>1, FreshOutcome
  <2>1. CASE Proxied(s)
    <3>1. m = Built("none", Unset, "component/nick", s.to)
      BY <1>1, <2>1 DEF Proxied
    <3>2. m.to = <<s.to>>
      BY <3>1, BuiltParts
    <3> QED
      BY <2>1, <3>2 DEF Proxied
  <2>2. CASE Said(s)
    <3> DEFINE receivers == IF s.to = Room THEN inside ELSE {s.to}
    <3>1. /\ s.from \in inside /\ receivers \subseteq inside
          /\ sent' = {Built("message", s.type, s.from, r) : r \in receivers}
      BY <2>2 DEF Said
    <3> HIDE DEF receivers, s
    <3>2. \A r : /\ Built("message", s.type, s.from, r).to = <<r>>
                 /\ Built("message", s.type, s.from, r).to[1] = r
      BY BuiltParts
    <3>3. {x.to[1] : x \in sent'} = receivers
      BY <3>1, <3>2
    <3>4. \E r \in inside : m.to = <<r>>
      BY <1>1, <3>1, <3>2
    <3> QED
      BY <3>1, <3>3, <3>4 DEF receivers, s
  <2>3. CASE Shown(s)
    <3>1. \A x \in sent' :
             \E name \in {"presence", "message"}, type \in {Unset, "unavailable", "groupchat"},
                from \in Clients, r \in inside \cup inside' :
                x = Built(name, type, from, r)
      BY <2>3 DEF Shown
    <3>2. PICK name, type, from, r : r \in inside \cup inside' /\ m = Built(name, type, from, r)
      BY <1>1, <3>1
    <3>3. m.to = <<r>>
      BY <3>2, BuiltParts
    <3>4. s.from \in inside \cup inside'
          /\ ~(s.name = "message" /\ s.type # "error")
      BY <2>3 DEF Shown
    <3> QED
      BY <3>2, <3>3, <3>4
  <2>5. CASE Changes(s)
    <3>1. PICK type, c : m = TheAnswer
                          \/ \E r \in inside : m = Built("presence", type, c, r)
      BY <1>1, <2>5 DEF Changes
    <3>2. m # TheAnswer
      BY <1>1 DEF TheAnswer
    <3>3. PICK r \in inside : m = Built("presence", type, c, r)
      BY <3>1, <3>2
    <3>4. m.to = <<r>>
      BY <3>3, BuiltParts
    <3>5. s.from \in inside /\ s.name # "message"
      BY <2>5 DEF Changes
    <3> QED
      BY <3>4, <3>5
  <2>4. ~Silent(s) /\ ~Refused(s) /\ ~ComponentAnswers(s) /\ ~RoomAnswers(s) /\ ~Enters(s)
    <3>1. ~Refused(s)
      <4>1. ASSUME NEW from, m = Built(s.name, "error", from, s.from) PROVE FALSE
        BY <1>1, <4>1, BuiltParts DEF Refusal
      <4> QED
        BY <1>1, <4>1 DEF Refused
    <3>2. ~ComponentAnswers(s)
      BY <1>1, AddressesDiffer DEF ComponentAnswers, ToRoom
    <3>3. ~RoomAnswers(s)
      BY <1>1 DEF RoomAnswers, TheAnswer
    <3>4. ~Enters(s)
      BY <1>1, AddressesDiffer DEF Enters, ToRoom
    <3> QED
      BY <1>1, <3>1, <3>2, <3>3, <3>4 DEF Silent
  <2> QED
    BY <2>0, <2>1, <2>2, <2>3, <2>4, <2>5 DEF Outcome
<1>2. AnswersInv /\ [NextAnswers]_allvars => [A]_allvars
  BY <1>1
<1> QED
  BY <1>2, AnswersAlways, PTL DEF AnswersSpec, StaysInside

\* A request leads to one stanza besides presences, whether the room exists or
\* not, and its sender can take it for the answer only if it is a refusal; and
\* an error is refused by nobody but route_iq.
THEOREM QueriesAnsweredOnce == AnswersSpec => AnswersOnce
<1> DEFINE A == (Fresh /\ got'.name = "iq" /\ got'.type \in {"get", "set"}
                   /\ (ToRoom(got') \/ got'.to \in Absent)) =>
                  /\ Cardinality(Replies) = 1
                  /\ \A m \in Replies : m.name = "iq" <=> Refusal(m)
           E == \A m \in sent' : (Fresh /\ got'.type = "error" /\ Refusal(m)) =>
                   got'.name = "iq" /\ ToRoom(got')
<1>1. ASSUME AnswersInv, [NextAnswers]_allvars, Fresh, Request(got')
      PROVE  /\ Cardinality(Replies) = 1
             /\ \A m \in Replies : m.name = "iq" <=> Refusal(m)
  <2> DEFINE s == got'
  <2>0. Outcome(s) /\ s.name = "iq"
    BY <1>1, FreshOutcome DEF Request
  <2>1. ~Silent(s) /\ ~Said(s) /\ ~Shown(s) /\ ~Enters(s)
    BY <1>1 DEF Silent, Said, Shown, Enters, Request
  <2>2. ~ComponentAnswers(s)
    BY <1>1, AddressesDiffer DEF ComponentAnswers, Request, ToRoom
  <2>3. TheAnswer.name = "none" /\ ~Refusal(TheAnswer)
    <3>1. <<"error">>[1] = "error" /\ <<Empty>>[1] = Empty /\ Empty # "error"
      BY DEF Empty
    <3> QED
      BY <3>1 DEF TheAnswer, Refusal
  <2>4. \E m : Replies = {m} /\ (m.name = "iq" <=> Refusal(m))
    <3>1. CASE Refused(s)
      <4>1. PICK from : sent' = {Built(s.name, "error", from, s.from)}
        BY <3>1 DEF Refused
      <4> DEFINE m == Built(s.name, "error", from, s.from)
      <4>2. m.name = "iq" /\ Refusal(m)
        BY <2>0, BuiltParts DEF Refusal
      <4> HIDE DEF m
      <4>3. sent' = {m}
        BY <4>1 DEF m
      <4> QED
        BY <4>2, <4>3 DEF Replies
    <3>2. CASE RoomAnswers(s)
      BY <2>3, <3>2 DEF RoomAnswers, Replies
    <3>3. CASE Proxied(s)
      <4> DEFINE m == Built("none", Unset, "component/nick", s.to)
      <4>1. m.name = "none" /\ ~Refusal(m)
        BY BuiltParts, UnsetDiffers DEF Refusal
      <4>2. sent' = {m}
        BY <3>3 DEF Proxied
      <4> HIDE DEF m
      <4> QED
        BY <4>1, <4>2 DEF Replies
    <3>4. CASE Changes(s)
      <4>1. PICK type, c :
              sent' = {TheAnswer} \cup {Built("presence", type, c, r) : r \in inside}
        BY <3>4 DEF Changes
      <4>2. \A r : Built("presence", type, c, r).name = "presence"
        BY BuiltParts
      <4>3. Replies = {TheAnswer}
        BY <2>3, <4>1, <4>2 DEF Replies
      <4> QED
        BY <2>3, <4>3
    <3> QED
      BY <2>0, <2>1, <2>2, <3>1, <3>2, <3>3, <3>4 DEF Outcome
  <2> QED
    BY <2>4, FS_Singleton
<1>2. ASSUME AnswersInv, [NextAnswers]_allvars
      PROVE  [A]_allvars
  BY <1>1, <1>2 DEF Request
<1>3. ASSUME AnswersInv, [NextAnswers]_allvars, Fresh, NEW m, m \in sent',
             got'.type = "error", Refusal(m)
      PROVE  got'.name = "iq" /\ ToRoom(got')
  <2>1. Refused(got')
    BY <1>3, SentParts
  <2> QED
    BY <1>3, <2>1 DEF Refused
<1>4. ASSUME AnswersInv, [NextAnswers]_allvars
      PROVE  [E]_allvars
  BY <1>3, <1>4
<1>5. AnswersInv /\ [NextAnswers]_allvars => [A]_allvars /\ [E]_allvars
  BY <1>2, <1>4
<1> QED
  BY <1>5, AnswersAlways, PTL
     DEF AnswersSpec, AnswersOnce, RequestAnswered, ErrorsUnanswered
============================================================================
