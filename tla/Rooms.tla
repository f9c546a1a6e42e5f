------------------------------- MODULE Rooms -------------------------------
(***************************************************************************)
(* The table of rooms (room/rooms.c) and the lifetime of its entries, for  *)
(* one room name: several workers run rooms_process, and the signal        *)
(* handler of the main thread runs rooms_serialize, all at once.           *)
(*                                                                         *)
(* The regions under rooms->sync are atomic.  A room that is found is not  *)
(* locked, one that is created is; both are unlocked after room_route.     *)
(* Nobody ever waits for room->sync: the only lock is taken on a mutex     *)
(* that was just initialised.                                              *)
(*                                                                         *)
(* Two workers may destroy one room.  uthash (external) is then handed the *)
(* links of a room that has left its table: without a table that is a NULL *)
(* dereference; with one, the table is freed, or it loses rooms or gets    *)
(* freed ones back.  The process may also die of the second room_destroy,  *)
(* and of a stanza routed in a room whose strings are gone.  The Room      *)
(* itself is never given back, so that its flags and links can be read.    *)
(***************************************************************************)
EXTENDS Integers, FiniteSets

CONSTANTS
    Workers,
    Ids,        \* bound: the room objects that may ever be allocated
    None

ASSUME RoomsAssumption == None \notin Ids

VARIABLES
    table,      \* rooms->head: the objects in the hash, all of one name
    heap,       \* "none", "live" or "freed" for every object
    destroyed,  \* the objects with MUC_FLAG_DESTROYED
    pc, room,   \* where a worker is in rooms_process, and its room
    cursor,     \* the object rooms_serialize is writing
    alive,      \* FALSE: the process died of a memory fault
    deleted,    \* history: the objects HASHS_DEL was run on
    twice,      \* history: it was run on one of them again
    overlapped  \* history: two workers held one room at the same time

faults == <<alive, deleted, twice>>
vars == <<table, heap, destroyed, pc, room, cursor, faults, overlapped>>

Locations == {"start", "missing", "enter", "inside", "check", "delete", "free"}

TypeOK ==
    /\ table \subseteq Ids
    /\ heap \in [Ids -> {"none", "live", "freed"}]
    /\ destroyed \subseteq Ids
    /\ pc \in [Workers -> Locations]
    /\ room \in [Workers -> Ids \cup {None}]
    /\ \A w \in Workers : room[w] = None <=> pc[w] \in {"start", "missing"}
    /\ cursor \in Ids \cup {None}
    /\ alive \in BOOLEAN /\ twice \in BOOLEAN /\ overlapped \in BOOLEAN
    /\ deleted \subseteq Ids

Init ==
    /\ table = {} /\ destroyed = {}
    /\ heap = [r \in Ids |-> "none"]
    /\ pc = [w \in Workers |-> "start"]
    /\ room = [w \in Workers |-> None]
    /\ cursor = None
    /\ alive = TRUE /\ deleted = {} /\ twice = FALSE /\ overlapped = FALSE

Goto(w, l) == pc' = [pc EXCEPT ![w] = l]

\* HASHS_FIND between rdlock and unlock.
Find(w) ==
    /\ pc[w] = "start"
    /\ \/ table = {} /\ Goto(w, "missing") /\ UNCHANGED <<room, overlapped>>
       \/ \E r \in table :
             /\ Goto(w, "enter")
             /\ room' = [room EXCEPT ![w] = r]
             /\ overlapped' = (overlapped \/ \E v \in Workers \ {w} : room[v] = r)
    /\ UNCHANGED <<table, heap, destroyed, cursor, faults>>

\* An error stanza, no presence, or no permission to create a room.
Refuse(w) ==
    /\ pc[w] = "missing"
    /\ Goto(w, "start")
    /\ UNCHANGED <<table, heap, destroyed, room, cursor, faults, overlapped>>

\* The table is not searched again after wrlock.
rooms_create_room(w) ==
    /\ pc[w] = "missing"
    /\ \E r \in Ids :
         /\ heap[r] = "none"
         /\ heap' = [heap EXCEPT ![r] = "live"]
         /\ table' = table \cup {r}
         /\ room' = [room EXCEPT ![w] = r]
    /\ Goto(w, "enter")
    /\ UNCHANGED <<destroyed, cursor, faults, overlapped>>

Enter(w) ==
    /\ pc[w] = "enter"
    /\ Goto(w, "inside")
    /\ UNCHANGED <<table, heap, destroyed, room, cursor, faults, overlapped>>

\* room_leave or <destroy/> within room_route: the room is marked, and the
\* worker goes on with its stanzas.
MarkDestroyed(w) ==
    /\ pc[w] = "inside"
    /\ destroyed' = destroyed \cup {room[w]}
    /\ UNCHANGED <<table, heap, pc, room, cursor, faults, overlapped>>

\* The end of room_route and pthread_mutex_unlock, when every worker_send in
\* between has found space in the output ring buffer.
room_route(w) ==
    /\ pc[w] = "inside"
    /\ Goto(w, "check")
    /\ UNCHANGED <<table, heap, destroyed, room, cursor, faults, overlapped>>

\* A stanza in a room whose strings have been freed.
RouteFaults(w) ==
    /\ pc[w] = "inside" /\ heap[room[w]] = "freed"
    /\ alive' = FALSE
    /\ UNCHANGED <<table, heap, destroyed, pc, room, cursor, deleted, twice,
                   overlapped>>

CheckDestroyedMutant(w) ==
    /\ pc[w] = "check"
    /\ Goto(w, "start")
    /\ room' = [room EXCEPT ![w] = None]
    /\ UNCHANGED <<table, heap, destroyed, cursor, faults, overlapped>>

\* The flag is read after the unlock.
CheckDestroyed(w) ==
    /\ pc[w] = "check"
    /\ Goto(w, IF room[w] \in destroyed THEN "delete" ELSE "start")
    /\ room' = IF room[w] \in destroyed THEN room
               ELSE [room EXCEPT ![w] = None]
    /\ UNCHANGED <<table, heap, destroyed, cursor, faults, overlapped>>

DeleteMutant(w) ==
    /\ pc[w] = "delete" /\ room[w] \notin deleted
    /\ deleted' = deleted \cup {room[w]}
    /\ Goto(w, "free")
    /\ UNCHANGED <<table, heap, destroyed, room, cursor, alive, twice, overlapped>>

\* rooms_destroy_room: HASHS_DEL between wrlock and unlock, ...
Delete(w) ==
    /\ pc[w] = "delete" /\ room[w] \notin deleted
    /\ table' = table \ {room[w]}
    /\ deleted' = deleted \cup {room[w]}
    /\ Goto(w, "free")
    /\ UNCHANGED <<heap, destroyed, room, cursor, alive, twice, overlapped>>

\* ... the same by a second worker, whose room has stale links.
DeleteAgain(w) ==
    /\ pc[w] = "delete" /\ room[w] \in deleted
    /\ twice' = TRUE
    /\ \/ /\ table = {}
          /\ alive' = FALSE
          /\ UNCHANGED <<table, pc>>
       \/ /\ table # {}
          /\ table' \in SUBSET {r \in Ids : heap[r] # "none"}
          /\ alive' \in BOOLEAN
          /\ Goto(w, "free")
    /\ UNCHANGED <<heap, destroyed, room, cursor, deleted, overlapped>>

\* ... then room_destroy outside of the lock; again, it frees again.
room_destroy(w) ==
    /\ pc[w] = "free"
    /\ heap' = [heap EXCEPT ![room[w]] = "freed"]
    /\ alive' \in IF heap[room[w]] = "freed" THEN BOOLEAN ELSE {TRUE}
    /\ Goto(w, "start")
    /\ room' = [room EXCEPT ![w] = None]
    /\ UNCHANGED <<table, destroyed, cursor, deleted, twice, overlapped>>

\* HASHS_ITER of rooms_serialize; its rdlock is commented out.
SerializeNext ==
    /\ alive
    /\ \/ cursor = None /\ cursor' \in table
       \/ cursor # None /\ cursor' \in {None} \cup (table \ {cursor})
    /\ UNCHANGED <<table, heap, destroyed, pc, room, faults, overlapped>>

\* rooms_process, step by step.
rooms_process(w) ==
    /\ alive
    /\ \/ Find(w) \/ Refuse(w) \/ rooms_create_room(w) \/ Enter(w)
       \/ MarkDestroyed(w) \/ room_route(w) \/ RouteFaults(w)
       \/ CheckDestroyed(w) \/ Delete(w) \/ DeleteAgain(w) \/ room_destroy(w)

Next == SerializeNext \/ \E w \in Workers : rooms_process(w)

Spec == Init /\ [][Next]_vars

\* The steps of a worker that has a room on which it sleeps for nobody; the
\* stanzas of room_route are not among them.
Proceed(w) ==
    alive /\ (Enter(w) \/ CheckDestroyed(w) \/ Delete(w) \/ DeleteAgain(w)
                \/ room_destroy(w))

FairSpec == Spec /\ \A w \in Workers : WF_vars(Proceed(w))

---------------------------------------------------------------------------

\* While no room has been deleted twice: what a search of the table returns
\* has not been freed, and a room that was not freed is found by a search,
\* unless a worker is about to free it.
TableHasTheLive ==
    ~twice =>
        /\ \A r \in table : heap[r] = "live"
        /\ \A r \in Ids : heap[r] = "live" /\ r \notin table =>
              \E w \in Workers : pc[w] = "free" /\ room[w] = r

\* A room is deleted twice, and the process dies here, only after two workers
\* held one room at the same time: with room->sync taken by the search as well
\* as by the creation neither would happen.
FaultsNeedOverlap == (twice \/ ~alive) => overlapped

\* The table and what the workers hold are rooms that were allocated, and the
\* table is right for as long as one worker at a time destroys a room.
TableSound == TypeOK /\ TableHasTheLive /\ FaultsNeedOverlap

\* A room that was marked destroyed leaves the table, whoever marked it, unless
\* a worker never gets space for a stanza of room_route (it sleeps in
\* ringbuffer_write for ever), a room was deleted twice, or the process died.
DestroyedLeaves ==
    (\A w \in Workers : []<>(pc[w] # "inside")) =>
        \A r \in Ids :
            (r \in destroyed) ~> (r \notin table \/ twice \/ ~alive)
===========================================================================
