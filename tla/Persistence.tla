---------------------------- MODULE Persistence ----------------------------
(***************************************************************************)
(* The data file across restarts: serialize_data and deserialize_data of   *)
(* mukite.c over the container macros of utss.h, for a persistent room,    *)
(* its participants and its list of owners (the other lists of             *)
(* affiliations are written in the same way).                              *)
(*                                                                         *)
(* The signal handler opens the file, which empties it, and then writes    *)
(* the limit of participants, the participants and the lists one after the *)
(* other, while the workers go on and nothing is locked; the process may   *)
(* die at any point.  The walk over one list is one step.  The order of a  *)
(* list is abstracted: a list longer than its max_size loses any of its    *)
(* entries, not the last ones.                                             *)
(*                                                                         *)
(* Affiliations are looked up as the compiled code does, through the cast  *)
(* of room.c (see module Room).                                            *)
(***************************************************************************)
EXTENDS Integers, FiniteSets

CONSTANTS
    Clients,
    Admins,         \* by the ACL: the limit does not bind them, and they
                    \* are owners everywhere
    Limits,         \* the values of muc#roomconfig_maxusers
    NoFile, Partial \* no data file; one that was not completed, or was
                    \* written from freed memory

ROOMS_MAX == 10240
INIT_MAX == 100
LIST_MAX == 10240

\* What is written, and (history) how often owners were lost, this time
\* included, and whether the limit was moved under the writer.
Contents == [room : BOOLEAN, max_size : Nat, long : BOOLEAN,
             people : SUBSET Clients, crowned : SUBSET Clients,
             owners : SUBSET Clients, losses : Nat, moved : BOOLEAN]

ASSUME PersistenceAssumption ==
    /\ IsFiniteSet(Clients) /\ Admins \subseteq Clients
    /\ Limits \subseteq 1 .. 1024
    /\ NoFile # Partial /\ {NoFile, Partial} \cap Contents = {}

VARIABLES
    state,          \* "down", "running", "failed" (LFATAL), or what the
                    \* serializer has written: "opened", "header", "people",
                    \* "owners", or "spoilt" by what was freed under it
    doc,            \* the part of the file that was written
    file,
    rooms_max,      \* rooms.max_size
    room,           \* the room is in the table
    long,           \* its password is longer than USER_STRING_OPTION_LIMIT
    people, size, max_size,     \* its participants
    crowned,                    \* those whose affiliation field says owner
    owners, owners_max,         \* its list of owners
    losses          \* history: how often the room has lost owners by a restart

disk == <<state, doc, file>>
table == <<rooms_max, room>>
participants == <<people, size, max_size, crowned>>
affiliations == <<owners, owners_max>>
memory == <<table, long, participants, affiliations, losses>>
vars == <<disk, memory>>

InList == {"header", "people", "owners"}
Writing == {"opened", "spoilt"} \cup InList
Up == state \in {"running"} \cup Writing

\* The file of a process that has no room to write.
Empty == [room |-> FALSE, max_size |-> INIT_MAX, long |-> FALSE,
          people |-> {}, crowned |-> {}, owners |-> {}, losses |-> 0,
          moved |-> FALSE]

TypeOK ==
    /\ state \in {"down", "running", "failed"} \cup Writing
    /\ doc \in Contents
    /\ file \in Contents \cup {NoFile, Partial}
    /\ rooms_max \in {0, ROOMS_MAX}
    /\ room \in BOOLEAN /\ long \in BOOLEAN
    /\ people \subseteq Clients
    /\ size \in 0 .. 2 * Cardinality(Clients)
    /\ max_size \in Nat
    /\ crowned \subseteq people
    /\ owners \subseteq Clients /\ owners_max \in {0, LIST_MAX}
    /\ losses \in Nat

\* There is no room.  (room_init clears all of a room.)
NoRoom ==
    /\ room' = FALSE /\ long' = FALSE
    /\ people' = {} /\ size' = 0 /\ max_size' = INIT_MAX /\ crowned' = {}
    /\ owners' = {} /\ owners_max' = 0 /\ losses' = 0

Init ==
    /\ state = "down" /\ doc = Empty /\ file = NoFile
    /\ rooms_max = 0 /\ room = FALSE /\ long = FALSE
    /\ people = {} /\ size = 0 /\ max_size = INIT_MAX /\ crowned = {}
    /\ owners = {} /\ owners_max = 0 /\ losses = 0

---------------------------------------------------------------------------
(* A start.                                                               *)

\* _CONTAINER_DESERIALIZE: the k-th entry finds the counter at 2(k - 1), for
\* it and DLS_APPEND both count, and needs it not to pass 2 max_size.
Loads(n, max) == n = 0 \/ 2 * (n - 1) + 1 <= 2 * max

SizeAfterLoadingMutant(n) == 0

SizeAfterLoading(n) == 2 * n

\* room_deserialize, which sets the limits of the lists of affiliations.
room_deserializeMutant ==
    /\ room' = TRUE /\ long' = FALSE
    /\ people' = file.people /\ crowned' = file.crowned
    /\ size' = SizeAfterLoading(Cardinality(file.people))
    /\ max_size' = file.max_size
    /\ owners' = file.owners /\ owners_max' = 0
    /\ losses' = file.losses

room_deserialize ==
    /\ room' = TRUE /\ long' = FALSE
    /\ people' = file.people /\ crowned' = file.crowned
    /\ size' = SizeAfterLoading(Cardinality(file.people))
    /\ max_size' = file.max_size
    /\ owners' = file.owners /\ owners_max' = LIST_MAX
    /\ losses' = file.losses

\* A file room_deserialize reads to its end.
Readable ==
    /\ file \in Contents
    /\ ~file.long
    /\ Loads(Cardinality(file.people), file.max_size)

\* deserialize_data at the start of main: rooms_init has cleared the limit of
\* the table, and it is set only if there is a file.
deserialize_data ==
    /\ state = "down"
    /\ \/ /\ file = NoFile
          /\ state' = "running" /\ rooms_max' = 0
          /\ NoRoom
       \/ /\ Readable
          /\ state' = "running" /\ rooms_max' = ROOMS_MAX
          /\ IF file.room THEN room_deserialize ELSE NoRoom
       \/ /\ file # NoFile /\ ~Readable
          /\ state' = "failed"
          /\ UNCHANGED memory
    /\ UNCHANGED <<doc, file>>

\* The operator moves a file aside that cannot be read.
RemoveFile ==
    /\ state = "failed"
    /\ file' = NoFile /\ state' = "down"
    /\ UNCHANGED <<doc, memory>>

---------------------------------------------------------------------------
(* The workers.  A memory fault of theirs ends the process: Exit.         *)

\* What is freed in the room while the serializer is in it may be read on:
\* the file then holds anything, which is taken for one that cannot be read.
Spoils == state \in InList /\ state' = "spoilt" /\ doc' = Empty

\* The limit moves; history if that is between its writing and theirs.
MovesLimit ==
    /\ doc' = IF state = "header" THEN [doc EXCEPT !.moved = TRUE] ELSE doc
    /\ UNCHANGED state

\* rooms_create_room, the join of the administrator who asked, as its owner,
\* and the request that makes the room persistent.  (The join of anybody else
\* faults: nobody is banned in a new room.)
rooms_create_room(c) ==
    /\ Up /\ ~room /\ c \in Admins
    /\ room' = TRUE /\ long' = FALSE
    /\ people' = {c} /\ size' = 1 /\ max_size' = INIT_MAX /\ crowned' = {c}
    /\ owners' = {c} /\ owners_max' = 0 /\ losses' = 0
    /\ UNCHANGED <<disk, rooms_max>>

\* Administrators are owners.  For anybody else the lookup returns any
\* affiliation, unless it faults because nobody is banned; who is, is not kept
\* here.
room_join(c) ==
    /\ Up /\ room /\ c \notin people
    /\ c \in Admins \/ size < max_size
    /\ people' = people \cup {c} /\ size' = size + 1
    /\ crowned' \in (IF c \in Admins THEN {} ELSE {crowned}) \cup {crowned \cup {c}}
    /\ UNCHANGED <<disk, table, long, max_size, affiliations, losses>>

room_leave(c) ==
    /\ Up /\ c \in people
    /\ people' = people \ {c} /\ size' = size - 1 /\ crowned' = crowned \ {c}
    /\ UNCHANGED <<state, doc>> \/ Spoils
    /\ UNCHANGED <<file, table, long, max_size, affiliations, losses>>

\* Who may move the entry of c to the list a: an owner, but not himself as the
\* last one; or an administrator of the room (any occupant, here), when c is
\* no owner and is not to be one.
affiliationss_add_allowed(c, a) ==
    \/ \E sender \in crowned : ~(sender = c /\ owners = {c} /\ a # "owner")
    \/ people # {} /\ c \notin owners /\ a # "owner"

\* affiliationss_add, and the loop of route_iq over the occupants: all but the
\* administrators get what the lookup returns, and those it takes for outcasts
\* leave.
SetAffiliation(c, a) ==
    /\ Up /\ affiliationss_add_allowed(c, a)
    /\ owners' = IF a = "owner" THEN owners \cup {c} ELSE owners \ {c}
    /\ \E removed \in SUBSET (people \ Admins) :
          /\ people' = people \ removed
          /\ size' = size - Cardinality(removed)
    /\ crowned' \in {S \cup (people' \cap Admins) : S \in SUBSET people'}
    /\ UNCHANGED <<state, doc>> \/ Spoils
    /\ UNCHANGED <<file, table, long, max_size, owners_max, losses>>

\* muc#roomconfig_maxusers.
SetLimit(v) ==
    /\ Up /\ crowned # {}
    /\ max_size' = v
    /\ MovesLimit
    /\ UNCHANGED <<file, table, long, people, size, crowned, affiliations, losses>>

\* muc#roomconfig_roomsecret, the one text whose length is not checked.
SetSecret ==
    /\ Up /\ crowned # {}
    /\ long' \in BOOLEAN
    /\ UNCHANGED <<disk, table, participants, affiliations, losses>>

\* An owner destroys the room.  What the serializer finds there afterwards is
\* an empty room, a new one in the same place, or anything.
rooms_destroy_room ==
    /\ Up /\ crowned # {}
    /\ NoRoom
    /\ MovesLimit \/ Spoils
    /\ UNCHANGED <<file, rooms_max>>

---------------------------------------------------------------------------
(* The serializer.                                                        *)

WrittenMutant(S, max) == {S}

\* _CONTAINER_SERIALIZE writes at most max_size entries of a list.
Written(S, max) == {T \in SUBSET S : Cardinality(T) = IF Cardinality(S) <= max
                                                      THEN Cardinality(S) ELSE max}

\* SIGUSR1, SIGTERM: fopen(..., "w") ...
SerializeOpen ==
    /\ state = "running"
    /\ file' = Partial /\ state' = "opened"
    /\ UNCHANGED <<doc, memory>>

\* ... and the table of rooms, as far as rooms.max_size goes: first what
\* room_serialize writes before the lists,
SerializeRoom ==
    /\ state = "opened"
    /\ \/ /\ room /\ rooms_max >= 1
          /\ doc' = [Empty EXCEPT !.room = TRUE, !.max_size = max_size, !.long = long]
          /\ state' = "header"
          /\ UNCHANGED file
       \/ /\ ~room \/ rooms_max < 1
          /\ file' = Empty /\ state' = "running"
          /\ UNCHANGED doc
    /\ UNCHANGED memory

\* the participants, up to the limit they have by then,
participants_serialize ==
    /\ state = "header"
    /\ \E P \in Written(people, max_size) :
          doc' = [doc EXCEPT !.people = P, !.crowned = crowned \cap P]
    /\ state' = "people"
    /\ UNCHANGED <<file, memory>>

\* the owners,
affiliations_serialize ==
    /\ state = "people"
    /\ \E O \in Written(owners, owners_max) :
          doc' = [doc EXCEPT !.owners = O,
                             !.losses = losses + (IF O = owners THEN 0 ELSE 1)]
    /\ state' = "owners"
    /\ UNCHANGED <<file, memory>>

\* and the other lists; then fclose.
SerializeClose ==
    /\ state = "owners"
    /\ file' = doc
    /\ doc' = Empty /\ state' = "running"
    /\ UNCHANGED memory

\* A write fails, or what was written was no longer there.
SerializeFails ==
    /\ state \in Writing
    /\ doc' = Empty /\ state' = "running"
    /\ UNCHANGED <<file, memory>>

\* Orderly or not, the process ends; memory is gone.
Exit ==
    /\ Up
    /\ state' = "down" /\ doc' = Empty /\ rooms_max' = 0
    /\ NoRoom
    /\ UNCHANGED file

Next ==
    \/ deserialize_data \/ RemoveFile \/ Exit
    \/ SerializeOpen \/ SerializeRoom \/ participants_serialize
    \/ affiliations_serialize \/ SerializeClose \/ SerializeFails
    \/ SetSecret \/ rooms_destroy_room
    \/ \E v \in Limits : SetLimit(v)
    \/ \E c \in Clients :
          \/ rooms_create_room(c) \/ room_join(c) \/ room_leave(c)
          \/ \E a \in {"owner", "other"} : SetAffiliation(c, a)

Spec == Init /\ [][Next]_vars

---------------------------------------------------------------------------

\* "Not serializing the rest to avoid deserialization problems" (utss.h): a
\* file that was completed is refused by the next start only if it holds a
\* password that was stored without a look at its length (room.c:782), or the
\* limit of participants was moved between its own writing and theirs
\* (room.c:227 and 233), by a request or with the room itself.
CompleteFileLoads ==
    [][(state = "down" /\ state' = "failed" /\ file # Partial) =>
          file.long \/ file.moved]_vars

\* The size field never falls short of the list, through any sequence of
\* joins, departures and restarts: the limit on occupants binds everybody it
\* is meant for.
SizeCovers == Cardinality(people) <= size

\* A room loses owners at one restart at most: by the process that created it,
\* which never sets the limits of its lists and so writes them empty.  Whoever
\* is made an owner of a room that was loaded stays one at every later restart,
\* whatever the workers change while the lists are written.
OwnersLostOnce == losses <= 1
===========================================================================
