---------------------------- MODULE RoomsProofs ----------------------------
(***************************************************************************)
(* For any number of workers: the table of rooms is sound until a room is  *)
(* deleted twice, and that takes two workers in one room.  The invariant   *)
(* adds how the history of deletions goes with the table and the heap, and *)
(* what a worker knows of the room it holds while it holds it alone.       *)
(***************************************************************************)
EXTENDS Rooms, TLAPS

\* The rooms that went through HASHS_DEL are those being or having been freed.
DeletedAreDone ==
    /\ \A r \in Ids : r \in deleted => heap[r] # "none"
    /\ \A r \in Ids : heap[r] = "freed" => r \in deleted
    /\ \A w \in Workers : pc[w] = "free" => room[w] \in deleted

\* A room some worker holds has been allocated.
HeldAreAllocated ==
    \A w \in Workers : room[w] # None => heap[room[w]] # "none"

\* So has what the table leads to, even when it has been corrupted.
InTable == \A r \in table : heap[r] # "none"

\* One deletion takes a room out of the table for good.
DeletedAreOut == ~twice => table \cap deleted = {}

\* As long as no two workers held one room, nobody holds a room that another
\* worker holds or has deleted.
Alone ==
    ~overlapped =>
        /\ ~twice /\ alive
        /\ \A v, w \in Workers : v # w /\ room[v] # None => room[v] # room[w]
        /\ \A w \in Workers : room[w] \in deleted =>
              pc[w] = "free" /\ heap[room[w]] = "live"

RoomsInv ==
    /\ TypeOK /\ TableHasTheLive
    /\ DeletedAreDone /\ HeldAreAllocated /\ InTable /\ DeletedAreOut /\ Alone

\* The empty table satisfies the invariant.
LEMMA RoomsInit == Init => RoomsInv
  BY RoomsAssumption DEF Init, RoomsInv, TypeOK, Locations, TableHasTheLive,
     DeletedAreDone, HeldAreAllocated, InTable, DeletedAreOut, Alone

\* A worker goes on with the room it has, or gives it back, and nothing else
\* changes that the invariant looks at but the flag of a room.
Moves(w) ==
    /\ pc[w] \notin {"delete", "free"}
    /\ pc' = [pc EXCEPT ![w] = pc'[w]] /\ pc'[w] \in Locations \ {"free"}
    /\ room' = [room EXCEPT ![w] = room'[w]]
    /\ room'[w] = room[w] \/ room'[w] = None
    /\ room'[w] = None <=> pc'[w] \in {"start", "missing"}
    /\ destroyed' \subseteq Ids
    /\ UNCHANGED <<table, heap, cursor, alive, deleted, twice, overlapped>>

\* Such a step preserves the invariant.
LEMMA MovesKeep ==
    ASSUME RoomsInv, NEW w \in Workers, Moves(w)
    PROVE  RoomsInv'
<1> USE RoomsAssumption DEF RoomsInv, Moves
<1>1. TypeOK'
  BY DEF TypeOK, Locations
<1>2. TableHasTheLive'
  <2>1. \A v \in Workers : pc[v] = "free" => pc'[v] = "free" /\ room'[v] = room[v]
    BY DEF TypeOK
  <2> QED
    BY <2>1 DEF TableHasTheLive
<1>3. DeletedAreDone' /\ InTable' /\ DeletedAreOut'
  BY DEF DeletedAreDone, InTable, DeletedAreOut, TypeOK
<1>4. HeldAreAllocated'
  BY DEF HeldAreAllocated, TypeOK
<1>5. Alone'
  <2> SUFFICES ASSUME ~overlapped PROVE Alone'
    BY DEF Alone
  <2>1. \A v \in Workers : room'[v] = room[v] \/ room'[v] = None
    BY DEF TypeOK
  <2>2. \A v \in Workers : v # w => pc'[v] = pc[v] /\ room'[v] = room[v]
    BY DEF TypeOK
  <2>3. room[w] \notin deleted
    BY DEF Alone
  <2>4. None \notin deleted
    BY DEF TypeOK
  <2> QED
    BY <2>1, <2>2, <2>3, <2>4 DEF Alone
<1> QED
  BY <1>1, <1>2, <1>3, <1>4, <1>5

\* Every step of a worker or of the serializing thread preserves it.
LEMMA RoomsStep == RoomsInv /\ [Next]_vars => RoomsInv'
<1> SUFFICES ASSUME RoomsInv, [Next]_vars PROVE RoomsInv'
  OBVIOUS
<1> USE RoomsAssumption
<1>0. /\ TypeOK /\ TableHasTheLive /\ DeletedAreDone /\ HeldAreAllocated
      /\ InTable /\ DeletedAreOut /\ Alone
  BY DEF RoomsInv
<1>1. ASSUME NEW w \in Workers, Find(w) PROVE RoomsInv'
  <2>1. CASE table = {} /\ Goto(w, "missing") /\ UNCHANGED <<room, overlapped>>
    BY <1>0, <1>1, <2>1, MovesKeep DEF Find, Moves, Goto, faults, TypeOK, Locations
  <2>2. ASSUME NEW r \in table, Goto(w, "enter"), room' = [room EXCEPT ![w] = r],
               overlapped' = (overlapped \/ \E v \in Workers \ {w} : room[v] = r)
        PROVE  RoomsInv'
    <3>1. /\ pc[w] = "start" /\ r \in Ids
          /\ UNCHANGED <<table, heap, destroyed, cursor, alive, deleted, twice>>
      BY <1>0, <1>1 DEF Find, faults, TypeOK
    <3>2. \A v \in Workers : v # w => pc'[v] = pc[v] /\ room'[v] = room[v]
      BY <1>0, <2>2 DEF Goto, TypeOK
    <3>3. pc'[w] = "enter" /\ room'[w] = r
      BY <1>0, <2>2 DEF Goto, TypeOK
    <3>4. TypeOK'
      BY <1>0, <2>2, <3>1, <3>2, <3>3 DEF TypeOK, Locations, Goto
    <3>5. TableHasTheLive'
      <4>1. \A v \in Workers : pc[v] = "free" => pc'[v] = "free" /\ room'[v] = room[v]
        BY <3>1, <3>2
      <4> QED
        BY <1>0, <3>1, <4>1 DEF TableHasTheLive
    <3>6. DeletedAreDone' /\ InTable' /\ DeletedAreOut'
      BY <1>0, <3>1, <3>2, <3>3 DEF DeletedAreDone, InTable, DeletedAreOut
    <3>7. HeldAreAllocated' /\ Alone'
      <4>1. CASE overlapped'
        BY <1>0, <3>1, <3>2, <3>3, <4>1 DEF HeldAreAllocated, Alone, InTable
      <4>2. CASE ~overlapped'
        <5>1. ~overlapped /\ (\A v \in Workers \ {w} : room[v] # r)
          BY <2>2, <4>2
        <5>2. ~twice /\ r \notin deleted /\ heap[r] = "live"
          BY <1>0, <3>1, <5>1 DEF Alone, DeletedAreOut, TableHasTheLive
        <5> QED
          BY <1>0, <3>1, <3>2, <3>3, <5>1, <5>2 DEF HeldAreAllocated, Alone
      <4> QED
        BY <4>1, <4>2
    <3> QED
      BY <3>4, <3>5, <3>6, <3>7 DEF RoomsInv
  <2> QED
    BY <1>1, <2>1, <2>2 DEF Find
<1>2. ASSUME NEW w \in Workers, Refuse(w) PROVE RoomsInv'
  BY <1>0, <1>2, MovesKeep DEF RoomsInv, Refuse, Moves, Goto, faults, TypeOK, Locations
<1>3. ASSUME NEW w \in Workers, rooms_create_room(w) PROVE RoomsInv'
  <2>1. PICK r \in Ids : /\ heap[r] = "none"
                         /\ heap' = [heap EXCEPT ![r] = "live"]
                         /\ table' = table \cup {r}
                         /\ room' = [room EXCEPT ![w] = r]
    BY <1>3 DEF rooms_create_room
  <2>2. /\ pc[w] = "missing" /\ pc'[w] = "enter" /\ room'[w] = r
        /\ \A v \in Workers : v # w => pc'[v] = pc[v] /\ room'[v] = room[v]
        /\ UNCHANGED <<destroyed, cursor, alive, deleted, twice, overlapped>>
    BY <1>0, <1>3, <2>1 DEF rooms_create_room, Goto, faults, TypeOK
  <2>3. \A q \in Ids : q # r => heap'[q] = heap[q]
    BY <1>0, <2>1 DEF TypeOK
  <2>4. heap'[r] = "live" /\ r \notin deleted
    BY <1>0, <2>1 DEF TypeOK, DeletedAreDone
  <2>5. \A v \in Workers : room[v] # r
    BY <1>0, <2>1 DEF HeldAreAllocated
  <2>6. TypeOK'
    BY <1>0, <1>3, <2>1, <2>2 DEF rooms_create_room, Goto, TypeOK, Locations
  <2>7. TableHasTheLive'
    <3>1. \A v \in Workers : pc[v] = "free" => pc'[v] = "free" /\ room'[v] = room[v]
      BY <2>2
    <3> QED
      BY <1>0, <2>1, <2>2, <2>3, <2>4, <3>1 DEF TableHasTheLive, TypeOK
  <2>8. DeletedAreDone' /\ InTable' /\ DeletedAreOut'
    BY <1>0, <2>1, <2>2, <2>3, <2>4 DEF DeletedAreDone, InTable, DeletedAreOut, TypeOK
  <2>9. HeldAreAllocated' /\ Alone'
    <3>1. \A v \in Workers : room[v] \in Ids \cup {None}
      BY <1>0 DEF TypeOK
    <3> QED
      BY <1>0, <2>2, <2>3, <2>4, <2>5, <3>1 DEF HeldAreAllocated, Alone, TypeOK
  <2> QED
    BY <2>6, <2>7, <2>8, <2>9 DEF RoomsInv
<1>4. ASSUME NEW w \in Workers, Enter(w) PROVE RoomsInv'
  BY <1>0, <1>4, MovesKeep DEF RoomsInv, Enter, Moves, Goto, faults, TypeOK, Locations
<1>5. ASSUME NEW w \in Workers, MarkDestroyed(w) PROVE RoomsInv'
  BY <1>0, <1>5, MovesKeep DEF RoomsInv, MarkDestroyed, Moves, faults, TypeOK, Locations
<1>6. ASSUME NEW w \in Workers, room_route(w) PROVE RoomsInv'
  BY <1>0, <1>6, MovesKeep DEF RoomsInv, room_route, Moves, Goto, faults, TypeOK, Locations
<1>7. ASSUME NEW w \in Workers, RouteFaults(w) PROVE RoomsInv'
  <2>1. overlapped
    BY <1>0, <1>7 DEF RouteFaults, Alone, DeletedAreDone, TypeOK
  <2> QED
    BY <1>0, <1>7, <2>1 DEF RouteFaults, RoomsInv, TypeOK, TableHasTheLive,
       DeletedAreDone, HeldAreAllocated, InTable, DeletedAreOut, Alone
<1>8. ASSUME NEW w \in Workers, CheckDestroyed(w) PROVE RoomsInv'
  BY <1>0, <1>8, MovesKeep DEF RoomsInv, CheckDestroyed, Moves, Goto, faults, TypeOK,
     Locations
<1>9. ASSUME NEW w \in Workers, Delete(w) PROVE RoomsInv'
  <2> DEFINE r == room[w]
  <2>1. /\ r \in Ids /\ r \notin deleted /\ pc[w] = "delete" /\ pc'[w] = "free"
        /\ \A v \in Workers : v # w => pc'[v] = pc[v]
        /\ table' = table \ {r} /\ deleted' = deleted \cup {r}
        /\ UNCHANGED <<heap, destroyed, room, cursor, alive, twice, overlapped>>
    BY <1>0, <1>9 DEF Delete, Goto, TypeOK
  <2>2. heap[r] = "live"
    BY <1>0, <2>1 DEF HeldAreAllocated, DeletedAreDone, TypeOK
  <2>3. TypeOK'
    BY <1>0, <1>9, <2>1 DEF Delete, Goto, TypeOK, Locations
  <2>4. TableHasTheLive'
    BY <1>0, <2>1 DEF TableHasTheLive
  <2>5. DeletedAreDone' /\ InTable' /\ DeletedAreOut' /\ HeldAreAllocated'
    BY <1>0, <2>1, <2>2 DEF DeletedAreDone, InTable, DeletedAreOut, HeldAreAllocated
  <2>6. Alone'
    <3>1. \A v \in Workers : v # w /\ ~overlapped => room[v] # r
      BY <1>0, <2>1 DEF Alone
    <3> QED
      BY <1>0, <2>1, <2>2, <3>1 DEF Alone
  <2> QED
    BY <2>3, <2>4, <2>5, <2>6 DEF RoomsInv
<1>10. ASSUME NEW w \in Workers, DeleteAgain(w) PROVE RoomsInv'
  <2>1. overlapped /\ overlapped' /\ twice'
    BY <1>0, <1>10 DEF DeleteAgain, Alone
  <2>2. TypeOK'
    BY <1>0, <1>10 DEF DeleteAgain, Goto, TypeOK, Locations
  <2>3. DeletedAreDone' /\ HeldAreAllocated' /\ InTable'
    BY <1>0, <1>10 DEF DeleteAgain, Goto, TypeOK, DeletedAreDone, HeldAreAllocated,
       InTable
  <2> QED
    BY <2>1, <2>2, <2>3 DEF RoomsInv, TableHasTheLive, DeletedAreOut, Alone
<1>11. ASSUME NEW w \in Workers, room_destroy(w) PROVE RoomsInv'
  <2> DEFINE r == room[w]
  <2>1. /\ r \in Ids /\ r \in deleted /\ heap[r] # "none"
        /\ heap'[r] = "freed" /\ \A q \in Ids : q # r => heap'[q] = heap[q]
        /\ pc'[w] = "start" /\ room'[w] = None
        /\ \A v \in Workers : v # w => pc'[v] = pc[v] /\ room'[v] = room[v]
        /\ UNCHANGED <<table, destroyed, cursor, deleted, twice, overlapped>>
    BY <1>0, <1>11 DEF room_destroy, Goto, TypeOK, DeletedAreDone
  <2>2. TypeOK'
    BY <1>0, <1>11, <2>1 DEF room_destroy, Goto, TypeOK, Locations
  <2>3. TableHasTheLive'
    <3> SUFFICES ASSUME ~twice PROVE TableHasTheLive'
      BY <2>1 DEF TableHasTheLive
    <3>1. r \notin table
      BY <1>0, <2>1 DEF DeletedAreOut
    <3>2. \A q \in table' : heap'[q] = "live"
      BY <1>0, <2>1, <3>1 DEF TableHasTheLive, TypeOK
    <3>3. ASSUME NEW q \in Ids, heap'[q] = "live", q \notin table'
          PROVE  \E v \in Workers : pc'[v] = "free" /\ room'[v] = q
      <4>1. q # r
        BY <2>1, <3>3
      <4>2. PICK v \in Workers : pc[v] = "free" /\ room[v] = q
        BY <1>0, <2>1, <3>3, <4>1 DEF TableHasTheLive
      <4> QED
        BY <2>1, <4>1, <4>2
    <3> QED
      BY <3>2, <3>3 DEF TableHasTheLive
  <2>4. DeletedAreDone' /\ InTable' /\ DeletedAreOut' /\ HeldAreAllocated'
    BY <1>0, <2>1 DEF DeletedAreDone, InTable, DeletedAreOut, HeldAreAllocated, TypeOK
  <2>5. Alone'
    <3> SUFFICES ASSUME ~overlapped PROVE Alone'
      BY <2>1 DEF Alone
    <3>1. heap[r] = "live" /\ \A v \in Workers : v # w => room[v] # r
      BY <1>0, <2>1 DEF Alone, TypeOK
    <3>2. alive' = TRUE
      BY <1>11, <3>1 DEF room_destroy
    <3>3. None \notin deleted
      BY <1>0 DEF TypeOK
    <3> QED
      BY <1>0, <2>1, <3>1, <3>2, <3>3 DEF Alone, TypeOK
  <2> QED
    BY <2>2, <2>3, <2>4, <2>5 DEF RoomsInv
<1>12. CASE SerializeNext
  BY <1>0, <1>12 DEF SerializeNext, faults, RoomsInv, TypeOK, TableHasTheLive,
     DeletedAreDone, HeldAreAllocated, InTable, DeletedAreOut, Alone
<1>13. CASE UNCHANGED vars
  BY <1>0, <1>13 DEF vars, faults, RoomsInv, TypeOK, TableHasTheLive,
     DeletedAreDone, HeldAreAllocated, InTable, DeletedAreOut, Alone
<1> QED
  BY <1>1, <1>2, <1>3, <1>4, <1>5, <1>6, <1>7, <1>8, <1>9, <1>10, <1>11, <1>12,
     <1>13 DEF Next, rooms_process

\* Until a room is deleted twice, searches of the table return the rooms that
\* have not been freed, and they return all of them; and a second deletion,
\* with the faults it leads to, takes two workers that held one room at once,
\* which rooms_process allows because a room that is found is not locked.
THEOREM TableAlwaysSound == Spec => []TableSound
<1>1. RoomsInv => TableSound
  BY DEF RoomsInv, Alone, TableSound, FaultsNeedOverlap
<1> QED
  BY <1>1, RoomsInit, RoomsStep, PTL DEF Spec
============================================================================
