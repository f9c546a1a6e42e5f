------------------------- MODULE PersistenceProofs -------------------------
(***************************************************************************)
(* The two files of a process, for any number of clients and any files.    *)
(*                                                                         *)
(* A restart replaces the memory by the data file, so the invariant says   *)
(* of the file (DiskSound) what it needs of memory (MemorySound): that is  *)
(* what lets a property of the room pass from one process to the next.     *)
(*                                                                         *)
(* For addresses the question is where jid_struct cuts a text (JidIs).     *)
(* The list of addresses then keeps, entry by entry, what lets a text be   *)
(* cut where it was put together (Bare, Whole), and the access control     *)
(* list is what its file gives (Loaded).                                   *)
(***************************************************************************)
EXTENDS MCPersistence, FiniteSetTheorems, SequenceTheorems,
        WellFoundedInduction, TLAPS

\* Memory: its types; without a room nothing is left of one, and without a
\* process there is no room.  The counter of participants passes their number
\* by at most the number there was when the room was loaded.
MemorySound ==
    /\ rooms_max \in {0, ROOMS_MAX} /\ room \in BOOLEAN /\ long \in BOOLEAN
    /\ people \in SUBSET Clients /\ size \in Int /\ max_size \in Nat
    /\ crowned \subseteq people
    /\ owners \in SUBSET Clients /\ owners_max \in {0, LIST_MAX} /\ losses \in Nat
    /\ ~room => people = {} /\ owners = {} /\ owners_max = 0 /\ losses = 0
    /\ ~Up => ~room
    /\ Cardinality(people) <= size
    /\ size <= Cardinality(people) + Cardinality(Clients)

\* What the next start accepts, unless the password is too long.
Sound(f) ==
    /\ f.moved \/ Loads(Cardinality(f.people), f.max_size)
    /\ f.crowned \subseteq f.people

\* The file, and what is written of it: until the participants are, the limit
\* that was written is the one the room has.
DiskSound ==
    /\ state \in {"down", "running", "failed"} \cup Writing
    /\ doc \in Contents /\ file \in Contents \cup {NoFile, Partial}
    /\ state = "header" =>
         /\ doc.people = {} /\ doc.crowned = {}
         /\ doc.moved \/ (room /\ doc.max_size = max_size)
    /\ state \in {"people", "owners"} => Sound(doc)
    /\ file \in Contents => Sound(file)

PersistenceInv == MemorySound /\ DiskSound

\* A list without a limit of its own belongs to the process that created the
\* room, so nothing was lost yet; what was, is counted in the file.
LossesInv ==
    /\ PersistenceInv
    /\ owners_max = 0 => losses = 0
    /\ losses <= 1 /\ doc.losses <= 1
    /\ file \in Contents => file.losses <= 1

---------------------------------------------------------------------------
\* A set of clients is finite, and no larger than the set of all.
LEMMA ClientSets ==
  ASSUME NEW S \in SUBSET Clients
  PROVE  /\ IsFiniteSet(S)
         /\ Cardinality(S) \in Nat /\ Cardinality(Clients) \in Nat
         /\ Cardinality(S) <= Cardinality(Clients)
  BY FS_Subset, FS_CardinalityType, PersistenceAssumption

\* One client more, one client less.
LEMMA OneMore ==
  ASSUME NEW S \in SUBSET Clients, NEW c \in Clients, c \notin S
  PROVE  Cardinality(S \cup {c}) = Cardinality(S) + 1
  BY ClientSets, FS_AddElement

\* Whoever goes makes the number of participants one smaller.
LEMMA OneLess ==
  ASSUME NEW S \in SUBSET Clients, NEW c \in S
  PROVE  Cardinality(S \ {c}) = Cardinality(S) - 1
  BY ClientSets, FS_RemoveElement

\* The empty room.
LEMMA Nobody == Cardinality({}) = 0 /\ Cardinality(Clients) \in Nat
  BY FS_EmptySet, ClientSets

\* _CONTAINER_SERIALIZE writes what the next start reads: its result is part
\* of the list and no longer than _CONTAINER_DESERIALIZE accepts.
LEMMA WrittenLoads ==
  ASSUME NEW S \in SUBSET Clients, NEW max \in Nat, NEW T \in Written(S, max)
  PROVE  T \subseteq S /\ Loads(Cardinality(T), max)
<1>1. T \in SUBSET Clients /\ T \subseteq S /\ Cardinality(T) <= max
  BY ClientSets DEF Written
<1>2. Cardinality(T) \in Nat
  BY <1>1, ClientSets
<1> QED
  BY <1>1, <1>2 DEF Loads

\* A list within its limit is written whole.
LEMMA WrittenWhole ==
  ASSUME NEW S \in SUBSET Clients, NEW max \in Nat, Cardinality(S) <= max,
         NEW T \in Written(S, max)
  PROVE  T = S
  BY ClientSets, FS_Subset DEF Written

---------------------------------------------------------------------------
\* What a process without a room would write.
LEMMA EmptyIs == Empty \in Contents /\ Sound(Empty)
<1>1. Empty \in Contents
  BY DEF Empty, Contents, INIT_MAX
<1>2. Sound(Empty)
  BY Nobody DEF Empty, Sound, Loads
<1> QED
  BY <1>1, <1>2

\* The first start.
LEMMA PersistenceInit == Init => PersistenceInv
<1> SUFFICES ASSUME Init PROVE PersistenceInv
  OBVIOUS
<1>1. MemorySound
  <2>1. INIT_MAX \in Nat
    BY DEF INIT_MAX
  <2>2. Cardinality(people) = 0 /\ Cardinality(Clients) \in Nat /\ size = 0
    BY Nobody DEF Init
  <2>3. ~room /\ max_size \in Nat
    BY <2>1 DEF Init
  <2>4. /\ people \in SUBSET Clients /\ owners \in SUBSET Clients
        /\ crowned \subseteq people
    BY DEF Init
  <2>5. /\ owners_max \in {0, LIST_MAX} /\ losses \in Nat /\ long \in BOOLEAN
        /\ room \in BOOLEAN /\ rooms_max \in {0, ROOMS_MAX}
    BY DEF Init
  <2>6. people = {} /\ owners = {} /\ owners_max = 0 /\ losses = 0
    BY DEF Init
  <2> QED
    BY <2>2, <2>3, <2>4, <2>5, <2>6 DEF MemorySound
<1>2. DiskSound
  BY PersistenceAssumption, EmptyIs DEF Init, DiskSound
<1> QED
  BY <1>1, <1>2 DEF PersistenceInv

---------------------------------------------------------------------------
(* The disk.                                                              *)

\* What a worker does to the disk, if it moves no limit without saying so.
LEMMA DiskKept ==
  ASSUME PersistenceInv, UNCHANGED file,
         \/ UNCHANGED <<state, doc>> /\ (state = "header" => room' = room /\ max_size' = max_size)
         \/ UNCHANGED <<state, doc>> /\ ~room
         \/ Spoils
         \/ MovesLimit
  PROVE  DiskSound' /\ (Up => Up')
<1> USE DEF PersistenceInv
<1>1. CASE UNCHANGED <<state, doc>> /\ (state = "header" => room' = room /\ max_size' = max_size)
  BY <1>1 DEF DiskSound, Sound, Up
<1>2. CASE UNCHANGED <<state, doc>> /\ ~room
  BY <1>2 DEF DiskSound, Sound, Up
<1>3. CASE Spoils
  BY <1>3, EmptyIs DEF Spoils, DiskSound, Sound, Up, Writing
<1>4. CASE MovesLimit
  <2>1. CASE state = "header"
    <3>1. doc' = [doc EXCEPT !.moved = TRUE] /\ state' = "header" /\ doc \in Contents
      BY <1>4, <2>1 DEF MovesLimit, DiskSound
    <3>2. doc' \in Contents /\ doc'.moved /\ doc'.people = doc.people /\ doc'.crowned = doc.crowned
      BY <3>1 DEF Contents
    <3> QED
      BY <2>1, <3>1, <3>2 DEF DiskSound, Sound, Up
  <2>2. CASE state # "header"
    BY <1>4, <2>2 DEF MovesLimit, DiskSound, Sound, Up
  <2> QED
    BY <2>1, <2>2
<1> QED
  BY <1>1, <1>2, <1>3, <1>4

\* The serializer leaves memory as it is, and the process up.
LEMMA MemoryKept ==
  ASSUME PersistenceInv, UNCHANGED memory, Up <=> Up'
  PROVE  MemorySound'
BY DEF PersistenceInv, MemorySound, memory, table, participants, affiliations

\* A file that is opened.
LEMMA OpenKeeps == PersistenceInv /\ SerializeOpen => PersistenceInv'
<1> SUFFICES ASSUME PersistenceInv, SerializeOpen PROVE PersistenceInv'
  OBVIOUS
<1>1. MemorySound'
  BY MemoryKept DEF SerializeOpen, Up, Writing
<1>2. DiskSound'
  BY PersistenceAssumption DEF PersistenceInv, SerializeOpen, DiskSound, Writing
<1> QED
  BY <1>1, <1>2 DEF PersistenceInv

\* The limit that is written is the one of the room.
LEMMA RoomKeeps == PersistenceInv /\ SerializeRoom => PersistenceInv'
<1> SUFFICES ASSUME PersistenceInv, SerializeRoom PROVE PersistenceInv'
  OBVIOUS
<1>1. MemorySound'
  BY MemoryKept DEF SerializeRoom, Up, Writing, InList
<1>2. UNCHANGED <<room, max_size>> /\ max_size \in Nat /\ long \in BOOLEAN
  BY DEF SerializeRoom, memory, table, participants, PersistenceInv, MemorySound
<1>3. CASE state' = "header"
  <2>1. /\ doc' = [Empty EXCEPT !.room = TRUE, !.max_size = max_size, !.long = long]
        /\ room /\ UNCHANGED file
    BY <1>3 DEF SerializeRoom
  <2>2. doc' \in Contents
    BY <1>2, <2>1, EmptyIs DEF Contents
  <2>3. doc'.people = {} /\ doc'.crowned = {} /\ doc'.max_size = max_size
    BY <2>1 DEF Empty
  <2> QED
    BY <1>1, <1>2, <1>3, <2>1, <2>2, <2>3 DEF PersistenceInv, DiskSound, Sound, Writing, InList
<1>4. CASE file' = Empty /\ state' = "running" /\ UNCHANGED doc
  BY <1>1, <1>4, EmptyIs DEF PersistenceInv, DiskSound, Sound
<1> QED
  BY <1>3, <1>4 DEF SerializeRoom

\* No more participants are written than the limit that was, unless it moved.
LEMMA ParticipantsKeep == PersistenceInv /\ participants_serialize => PersistenceInv'
<1> SUFFICES ASSUME PersistenceInv, participants_serialize PROVE PersistenceInv'
  OBVIOUS
<1>1. MemorySound'
  BY MemoryKept DEF participants_serialize, Up, Writing, InList
<1>2. PICK P \in Written(people, max_size) :
        doc' = [doc EXCEPT !.people = P, !.crowned = crowned \cap P]
  BY DEF participants_serialize
<1>3. P \subseteq people /\ Loads(Cardinality(P), max_size)
  BY WrittenLoads DEF PersistenceInv, MemorySound
<1>4. P \in SUBSET Clients /\ doc \in Contents /\ state = "header" /\ state' = "people"
      /\ UNCHANGED file
  BY <1>3 DEF PersistenceInv, MemorySound, DiskSound, participants_serialize
<1>5. /\ doc' \in Contents /\ doc'.people = P /\ doc'.crowned = crowned \cap P
      /\ doc'.moved = doc.moved /\ doc'.max_size = doc.max_size
  BY <1>2, <1>4 DEF Contents
<1>6. Sound(doc)'
  BY <1>3, <1>4, <1>5 DEF PersistenceInv, DiskSound, Sound
<1> QED
  BY <1>1, <1>4, <1>5, <1>6 DEF PersistenceInv, DiskSound, Sound, Writing, InList

\* The list of owners.
LEMMA OwnersKeep == PersistenceInv /\ affiliations_serialize => PersistenceInv'
<1> SUFFICES ASSUME PersistenceInv, affiliations_serialize PROVE PersistenceInv'
  OBVIOUS
<1>1. MemorySound'
  BY MemoryKept DEF affiliations_serialize, Up, Writing, InList
<1>2. PICK O \in Written(owners, owners_max) :
        doc' = [doc EXCEPT !.owners = O,
                           !.losses = losses + (IF O = owners THEN 0 ELSE 1)]
  BY DEF affiliations_serialize
<1>3. O \in SUBSET Clients /\ losses + (IF O = owners THEN 0 ELSE 1) \in Nat
  BY DEF Written, PersistenceInv, MemorySound
<1>4. doc \in Contents /\ state = "people" /\ state' = "owners" /\ UNCHANGED file
  BY DEF PersistenceInv, DiskSound, affiliations_serialize
<1>5. /\ doc' \in Contents /\ doc'.people = doc.people /\ doc'.crowned = doc.crowned
      /\ doc'.moved = doc.moved /\ doc'.max_size = doc.max_size
  BY <1>2, <1>3, <1>4 DEF Contents
<1>6. Sound(doc)'
  BY <1>4, <1>5 DEF PersistenceInv, DiskSound, Sound
<1> QED
  BY <1>1, <1>4, <1>5, <1>6 DEF PersistenceInv, DiskSound, Sound, Writing, InList

\* The file is complete, or is given up.
LEMMA CloseKeeps == PersistenceInv /\ (SerializeClose \/ SerializeFails) => PersistenceInv'
<1> SUFFICES ASSUME PersistenceInv, SerializeClose \/ SerializeFails PROVE PersistenceInv'
  OBVIOUS
<1>1. MemorySound'
  BY MemoryKept DEF SerializeClose, SerializeFails, Up, Writing, InList
<1>2. file' \in {file, doc} /\ (file' = doc => file' = file \/ state = "owners")
      /\ doc' = Empty /\ state' = "running"
  BY DEF SerializeClose, SerializeFails
<1>3. DiskSound'
  BY <1>2, EmptyIs DEF PersistenceInv, DiskSound, Sound
<1> QED
  BY <1>1, <1>3 DEF PersistenceInv

---------------------------------------------------------------------------
(* Memory.                                                                *)

\* No room, and whatever was not known about its limit is written as moved.
LEMMA NoRoomSound ==
  ASSUME PersistenceInv, NoRoom, rooms_max' \in {0, ROOMS_MAX}
  PROVE  MemorySound'
<1>1. max_size' \in Nat /\ ~room'
  BY DEF NoRoom, INIT_MAX
<1>2. Cardinality(people') = 0 /\ Cardinality(Clients) \in Nat /\ size' = 0
  BY Nobody DEF NoRoom
<1>3. /\ people' \in SUBSET Clients /\ owners' \in SUBSET Clients
      /\ crowned' \subseteq people'
  BY DEF NoRoom
<1>4. /\ owners_max' \in {0, LIST_MAX} /\ losses' \in Nat /\ long' \in BOOLEAN
      /\ room' \in BOOLEAN
  BY DEF NoRoom
<1>5. people' = {} /\ owners' = {} /\ owners_max' = 0 /\ losses' = 0
  BY DEF NoRoom
<1> QED
  BY <1>1, <1>2, <1>3, <1>4, <1>5 DEF MemorySound

\* deserialize_data makes of a sound file a sound memory.
LEMMA StartKeeps == PersistenceInv /\ deserialize_data => PersistenceInv'
<1> SUFFICES ASSUME PersistenceInv, deserialize_data PROVE PersistenceInv'
  OBVIOUS
<1>1. UNCHANGED <<doc, file>> /\ state' \in {"running", "failed"} /\ state = "down"
  BY DEF deserialize_data
<1>2. DiskSound'
  BY <1>1 DEF PersistenceInv, DiskSound, Sound
<1>3. ~room
  BY <1>1 DEF PersistenceInv, MemorySound, Up, Writing, InList
<1>4. CASE NoRoom /\ rooms_max' \in {0, ROOMS_MAX}
  BY <1>2, <1>4, NoRoomSound DEF PersistenceInv
<1>5. CASE file \in Contents /\ rooms_max' = ROOMS_MAX /\ room_deserialize /\ state' = "running"
  <2>1. /\ file.people \in SUBSET Clients /\ file.owners \in SUBSET Clients
        /\ file.crowned \subseteq file.people
        /\ file.max_size \in Nat /\ file.losses \in Nat
    BY <1>5 DEF PersistenceInv, DiskSound, Sound, Contents
  <2>2. /\ Cardinality(file.people) \in Nat /\ Cardinality(Clients) \in Nat
        /\ Cardinality(file.people) <= Cardinality(Clients)
    BY <2>1, ClientSets
  <2>3. /\ size' \in Int /\ Cardinality(people') <= size'
        /\ size' <= Cardinality(people') + Cardinality(Clients)
    BY <1>5, <2>2 DEF room_deserialize, SizeAfterLoading
  <2>4. MemorySound'
    BY <1>5, <2>1, <2>3 DEF room_deserialize, MemorySound, Up
  <2> QED
    BY <1>2, <2>4 DEF PersistenceInv
<1>6. CASE state' = "failed" /\ UNCHANGED memory
  <2>1. Up <=> Up'
    BY <1>1, <1>6 DEF Up, Writing, InList
  <2> QED
    BY <1>2, <1>6, <2>1, MemoryKept DEF PersistenceInv
<1> QED
  BY <1>4, <1>5, <1>6 DEF deserialize_data, Readable

\* A file moved aside promises nothing.
LEMMA AsideKeeps == PersistenceInv /\ RemoveFile => PersistenceInv'
<1> SUFFICES ASSUME PersistenceInv, RemoveFile PROVE PersistenceInv'
  OBVIOUS
<1>1. MemorySound'
  BY MemoryKept DEF RemoveFile, Up, Writing, InList
<1>2. DiskSound'
  BY PersistenceAssumption DEF PersistenceInv, RemoveFile, DiskSound
<1> QED
  BY <1>1, <1>2 DEF PersistenceInv

\* The memory a process leaves behind.
LEMMA ExitKeeps == PersistenceInv /\ Exit => PersistenceInv'
<1> SUFFICES ASSUME PersistenceInv, Exit PROVE PersistenceInv'
  OBVIOUS
<1>1. MemorySound'
  BY NoRoomSound DEF Exit
<1>2. DiskSound'
  BY EmptyIs DEF PersistenceInv, Exit, DiskSound, Sound
<1> QED
  BY <1>1, <1>2 DEF PersistenceInv

\* The one room_destroy leaves.
LEMMA DestroyKeeps == PersistenceInv /\ rooms_destroy_room => PersistenceInv'
<1> SUFFICES ASSUME PersistenceInv, rooms_destroy_room PROVE PersistenceInv'
  OBVIOUS
<1>1. MemorySound'
  BY NoRoomSound DEF rooms_destroy_room, PersistenceInv, MemorySound
<1>2. DiskSound'
  BY DiskKept DEF rooms_destroy_room
<1> QED
  BY <1>1, <1>2 DEF PersistenceInv

\* A room begins with its creator.
LEMMA CreateKeeps ==
  ASSUME NEW c \in Clients, PersistenceInv, rooms_create_room(c)
  PROVE  PersistenceInv'
<1>0. /\ Cardinality({c}) = 1 /\ Cardinality(Clients) \in Nat
      /\ 1 <= Cardinality(Clients)
  <2>1. {c} \in SUBSET Clients /\ Cardinality({c}) = 1
    BY FS_Singleton
  <2> QED
    BY <2>1, ClientSets
<1>1. DiskSound' /\ (Up => Up')
  BY DiskKept DEF rooms_create_room, disk
<1>2. /\ people' = {c} /\ size' = 1 /\ crowned' = {c} /\ owners' = {c} /\ owners_max' = 0
      /\ room' = TRUE /\ long' = FALSE /\ losses' = 0 /\ UNCHANGED rooms_max /\ Up
  BY DEF rooms_create_room
<1>3. Cardinality(people') = 1 /\ max_size' \in Nat
  BY <1>0, <1>2 DEF rooms_create_room, INIT_MAX
<1>4. /\ people' \in SUBSET Clients /\ owners' \in SUBSET Clients
      /\ crowned' \subseteq people'
  BY <1>2
<1>5. /\ owners_max' \in {0, LIST_MAX} /\ losses' \in Nat /\ long' \in BOOLEAN
      /\ room' = TRUE /\ rooms_max' \in {0, ROOMS_MAX}
  BY <1>2 DEF PersistenceInv, MemorySound
<1>6. Cardinality(people') <= size' /\ size' <= Cardinality(people') + Cardinality(Clients)
  BY <1>0, <1>2, <1>3
<1>7. MemorySound'
  BY <1>1, <1>2, <1>3, <1>4, <1>5, <1>6 DEF MemorySound
<1> QED
  BY <1>1, <1>7 DEF PersistenceInv

\* The number of participants and the counter grow together ...
LEMMA JoinKeeps ==
  ASSUME NEW c \in Clients, PersistenceInv, room_join(c)
  PROVE  PersistenceInv'
<1> USE DEF room_join
<1>0. people \in SUBSET Clients /\ people' \in SUBSET Clients /\ size \in Int
  BY DEF PersistenceInv, MemorySound
<1>1. /\ Cardinality(people') = Cardinality(people) + 1
      /\ Cardinality(people) \in Nat /\ Cardinality(Clients) \in Nat
  BY <1>0, OneMore, ClientSets
<1>2. DiskSound' /\ (Up => Up')
  BY DiskKept DEF disk, table
<1>3. crowned' \subseteq people'
  BY DEF PersistenceInv, MemorySound
<1>4. MemorySound'
  BY <1>0, <1>1, <1>2, <1>3 DEF PersistenceInv, MemorySound, table, affiliations
<1> QED
  BY <1>2, <1>4 DEF PersistenceInv

\* ... and shrink together.
LEMMA LeaveKeeps ==
  ASSUME NEW c \in Clients, PersistenceInv, room_leave(c)
  PROVE  PersistenceInv'
<1> USE DEF room_leave
<1>0. people \in SUBSET Clients /\ people' \in SUBSET Clients /\ size \in Int
  BY DEF PersistenceInv, MemorySound
<1>1. /\ Cardinality(people') = Cardinality(people) - 1
      /\ Cardinality(people) \in Nat /\ Cardinality(Clients) \in Nat
  BY <1>0, OneLess, ClientSets
<1>2. DiskSound' /\ (Up => Up')
  BY DiskKept DEF table
<1>3. crowned' \subseteq people'
  BY DEF PersistenceInv, MemorySound
<1>4. MemorySound'
  BY <1>0, <1>1, <1>2, <1>3 DEF PersistenceInv, MemorySound, table, affiliations
<1> QED
  BY <1>2, <1>4 DEF PersistenceInv

\* A change of the lists sends away those who are taken for outcasts.
LEMMA ChangeKeeps ==
  ASSUME NEW c \in Clients, NEW a, PersistenceInv, SetAffiliation(c, a)
  PROVE  PersistenceInv'
<1> USE DEF SetAffiliation
<1>1. PICK removed \in SUBSET (people \ Admins) :
        people' = people \ removed /\ size' = size - Cardinality(removed)
  OBVIOUS
<1>2. people \in SUBSET Clients /\ removed \in SUBSET people /\ size \in Int
  BY DEF PersistenceInv, MemorySound
<1>3. /\ Cardinality(people') = Cardinality(people) - Cardinality(removed)
      /\ Cardinality(people) \in Nat /\ Cardinality(removed) \in Nat
      /\ Cardinality(Clients) \in Nat
  <2>1. IsFiniteSet(people) /\ people \cap removed = removed
    BY <1>2, ClientSets
  <2>2. removed \in SUBSET Clients
    BY <1>2
  <2> QED
    BY <1>1, <1>2, <2>1, <2>2, ClientSets, FS_Difference
<1>4. DiskSound' /\ (Up => Up')
  BY DiskKept DEF table
<1>5. crowned' \subseteq people'
  OBVIOUS
<1>6. room /\ owners' \in SUBSET Clients
  <2>1. people # {} \/ owners # {} \/ crowned # {}
    BY DEF affiliationss_add_allowed
  <2> QED
    BY <2>1 DEF PersistenceInv, MemorySound
<1>7. MemorySound'
  BY <1>1, <1>2, <1>3, <1>4, <1>5, <1>6 DEF PersistenceInv, MemorySound, table
<1> QED
  BY <1>4, <1>7 DEF PersistenceInv

\* A request sets the limit of participants.
LEMMA LimitKeeps ==
  ASSUME NEW v \in Limits, PersistenceInv, SetLimit(v)
  PROVE  PersistenceInv'
<1> USE DEF SetLimit
<1>1. DiskSound' /\ (Up => Up')
  BY DiskKept
<1>2. v \in Nat
  BY PersistenceAssumption
<1>3. MemorySound'
  BY <1>1, <1>2 DEF PersistenceInv, MemorySound, table, affiliations
<1> QED
  BY <1>1, <1>3 DEF PersistenceInv

\* Or the password.
LEMMA SecretKeeps == PersistenceInv /\ SetSecret => PersistenceInv'
<1> SUFFICES ASSUME PersistenceInv, SetSecret PROVE PersistenceInv'
  OBVIOUS
<1> USE DEF SetSecret
<1>1. DiskSound' /\ (Up => Up')
  BY DiskKept DEF disk, table, participants
<1>2. MemorySound'
  BY <1>1 DEF PersistenceInv, MemorySound, table, participants, affiliations
<1> QED
  BY <1>1, <1>2 DEF PersistenceInv

---------------------------------------------------------------------------
\* Every step of the process, of its operator and of the next process.
LEMMA PersistenceStep == PersistenceInv /\ [Next]_vars => PersistenceInv'
<1> SUFFICES ASSUME PersistenceInv, [Next]_vars PROVE PersistenceInv'
  OBVIOUS
<1>1. CASE UNCHANGED vars
  <2>1. UNCHANGED <<disk, memory>> /\ (Up <=> Up')
    BY <1>1 DEF vars, disk, Up
  <2> QED
    BY <2>1, MemoryKept DEF PersistenceInv, DiskSound, Sound, disk, memory, table, participants
<1>2. CASE Next
  BY <1>2, StartKeeps, AsideKeeps, ExitKeeps, OpenKeeps, RoomKeeps, ParticipantsKeep,
     OwnersKeep, CloseKeeps, SecretKeeps, DestroyKeeps, LimitKeeps, CreateKeeps,
     JoinKeeps, LeaveKeeps, ChangeKeeps DEF Next
<1> QED
  BY <1>1, <1>2

\* The invariant of the data file.
LEMMA PersistenceAlways == Spec => []PersistenceInv
<1> QED
  BY PersistenceInit, PersistenceStep, PTL DEF Spec

\* Memory and file hold what their types say, in every process: among it, a
\* counter of participants that restarts have not led above twice the clients.
THEOREM PersistenceTypeCorrect == Spec => []TypeOK
<1>1. PersistenceInv => TypeOK
  <2> SUFFICES ASSUME PersistenceInv PROVE TypeOK
    OBVIOUS
  <2>1. /\ Cardinality(people) \in Nat /\ Cardinality(Clients) \in Nat
        /\ Cardinality(people) <= Cardinality(Clients)
    BY ClientSets DEF PersistenceInv, MemorySound
  <2>2. size \in 0 .. 2 * Cardinality(Clients)
    BY <2>1 DEF PersistenceInv, MemorySound
  <2> QED
    BY <2>2 DEF PersistenceInv, MemorySound, DiskSound, TypeOK
<1> QED
  BY <1>1, PersistenceAlways, PTL

\* The counter never falls short of the list (SizeCovers): room_join compares
\* it with the limit, and DLS_APPEND and the loader both count, so that the
\* limit binds everybody it is meant for after any number of restarts.
THEOREM SizeAlwaysCovers == Spec => []SizeCovers
<1>1. PersistenceInv => SizeCovers
  BY DEF PersistenceInv, MemorySound, SizeCovers
<1> QED
  BY <1>1, PersistenceAlways, PTL

\* Of the files that were completed the loader refuses only those with a
\* password that is too long or a limit that moved while the serializer was
\* between it and the participants (CompleteFileLoads), whatever the workers do
\* meanwhile.
THEOREM CompletedFilesLoad == Spec => CompleteFileLoads
<1>1. PersistenceInv /\ [Next]_vars
        => [(state = "down" /\ state' = "failed" /\ file # Partial) =>
              file.long \/ file.moved]_vars
  <2> SUFFICES ASSUME PersistenceInv, [Next]_vars, state = "down", state' = "failed",
                      file # Partial
               PROVE  file.long \/ file.moved
    OBVIOUS
  <2>1. deserialize_data
    BY DEF Next, RemoveFile, SerializeOpen, SerializeRoom, participants_serialize,
       affiliations_serialize, SerializeClose, SerializeFails, Exit, SetSecret,
       rooms_destroy_room, SetLimit, rooms_create_room, room_join, room_leave,
       SetAffiliation, Up, Writing, InList, vars, disk
  <2>2. file # NoFile /\ ~Readable
    BY <2>1 DEF deserialize_data
  <2>3. file \in Contents /\ Sound(file)
    BY <2>2 DEF PersistenceInv, DiskSound
  <2> QED
    BY <2>2, <2>3 DEF Readable, Sound
<1> QED
  BY <1>1, PersistenceAlways, PTL DEF Spec, CompleteFileLoads

---------------------------------------------------------------------------
\* While the list of owners is no longer than the limit a loaded list has, it
\* is lost once at most.
LEMMA LossesStep ==
  ASSUME Cardinality(Clients) <= LIST_MAX
  PROVE  LossesInv /\ [Next]_vars => LossesInv'
<1> SUFFICES ASSUME LossesInv, [Next]_vars PROVE LossesInv'
  OBVIOUS
<1>0. PersistenceInv /\ PersistenceInv' /\ doc \in Contents
  BY PersistenceStep DEF LossesInv, PersistenceInv, DiskSound
<1>1. losses \in Nat /\ owners \in SUBSET Clients /\ owners_max \in {0, LIST_MAX}
  BY <1>0 DEF PersistenceInv, MemorySound
<1>E. Empty.losses = 0
  BY DEF Empty
<1>2. CASE affiliations_serialize
  <2>1. UNCHANGED <<owners_max, losses, file>>
    BY <1>2 DEF affiliations_serialize, memory, affiliations
  <2>2. PICK O \in Written(owners, owners_max) :
          doc' = [doc EXCEPT !.owners = O,
                             !.losses = losses + (IF O = owners THEN 0 ELSE 1)]
    BY <1>2 DEF affiliations_serialize
  <2>3. losses + (IF O = owners THEN 0 ELSE 1) <= 1
    <3>1. CASE owners_max = 0
      BY <1>1, <3>1 DEF LossesInv
    <3>2. CASE owners_max = LIST_MAX
      <4>1. Cardinality(owners) <= owners_max
        BY <1>1, <3>2, ClientSets DEF LIST_MAX
      <4>2. O = owners
        BY <1>1, <3>2, <4>1, <2>2, WrittenWhole DEF LIST_MAX
      <4> QED
        BY <1>1, <4>2 DEF LossesInv
    <3> QED
      BY <1>1, <3>1, <3>2
  <2>4. doc'.losses = losses + (IF O = owners THEN 0 ELSE 1)
    BY <1>0, <2>2 DEF Contents
  <2> QED
    BY <1>0, <2>1, <2>3, <2>4 DEF LossesInv
<1>3. CASE deserialize_data
  <2>1. CASE NoRoom /\ UNCHANGED <<doc, file>>
    BY <1>0, <2>1 DEF NoRoom, LossesInv
  <2>2. CASE file \in Contents /\ room_deserialize /\ UNCHANGED <<doc, file>>
    BY <1>0, <2>2 DEF room_deserialize, LossesInv, LIST_MAX
  <2>3. CASE UNCHANGED <<memory, doc, file>>
    BY <1>0, <2>3 DEF LossesInv, memory, affiliations
  <2> QED
    BY <1>3, <2>1, <2>2, <2>3 DEF deserialize_data, Readable
<1>4. CASE RemoveFile \/ SerializeOpen
  BY <1>0, <1>4, PersistenceAssumption DEF RemoveFile, SerializeOpen, LossesInv, memory,
     affiliations
<1>5. CASE Exit
  BY <1>0, <1>5, <1>E DEF Exit, NoRoom, LossesInv
<1>6. CASE SerializeRoom
  <2>1. UNCHANGED <<owners_max, losses>> /\ Empty \in Contents
    BY <1>6, EmptyIs DEF SerializeRoom, memory, affiliations
  <2>2. doc' = [Empty EXCEPT !.room = TRUE, !.max_size = max_size, !.long = long]
          => doc'.losses = 0
    BY <2>1, <1>E DEF Contents
  <2> QED
    BY <1>0, <1>6, <1>E, <2>1, <2>2 DEF SerializeRoom, LossesInv
<1>7. CASE participants_serialize
  <2>1. PICK P : doc' = [doc EXCEPT !.people = P, !.crowned = crowned \cap P]
    BY <1>7 DEF participants_serialize
  <2>2. doc'.losses = doc.losses
    BY <1>0, <2>1 DEF Contents
  <2> QED
    BY <1>0, <1>7, <2>2 DEF participants_serialize, LossesInv, memory, affiliations
<1>8. CASE SerializeClose \/ SerializeFails
  BY <1>0, <1>8, <1>E DEF SerializeClose, SerializeFails, LossesInv, memory, affiliations
<1>9. Spoils \/ MovesLimit \/ UNCHANGED <<state, doc>> => doc'.losses \in {doc.losses, 0}
  <2>1. Spoils => doc'.losses = 0
    BY <1>E DEF Spoils
  <2>2. MovesLimit => doc'.losses = doc.losses
    BY <1>0 DEF MovesLimit, Contents
  <2> QED
    BY <2>1, <2>2
<1>10. CASE rooms_destroy_room
  BY <1>0, <1>9, <1>10 DEF rooms_destroy_room, NoRoom, LossesInv
<1>11. ASSUME NEW c \in Clients, rooms_create_room(c) PROVE LossesInv'
  BY <1>0, <1>11 DEF rooms_create_room, disk, LossesInv
<1>12. ASSUME UNCHANGED <<owners_max, losses, file>>,
              Spoils \/ MovesLimit \/ UNCHANGED <<state, doc>>
       PROVE  LossesInv'
  BY <1>0, <1>9, <1>12 DEF LossesInv
<1>13. ASSUME NEW c \in Clients,
              room_join(c) \/ room_leave(c) \/ \E a \in {"owner", "other"} : SetAffiliation(c, a)
       PROVE  LossesInv'
  BY <1>12, <1>13 DEF room_join, room_leave, SetAffiliation, disk, affiliations
<1>14. CASE SetSecret \/ \E v \in Limits : SetLimit(v)
  BY <1>12, <1>14 DEF SetSecret, SetLimit, disk, affiliations
<1>15. CASE UNCHANGED vars
  BY <1>12, <1>15 DEF vars, disk, memory, affiliations
<1> QED
  BY <1>2, <1>3, <1>4, <1>5, <1>6, <1>7, <1>8, <1>10, <1>11, <1>13, <1>14, <1>15 DEF Next

\* Owners are lost at one restart at most (OwnersLostOnce), whatever is changed
\* while the file is written.  The list of owners has to stay within the 10240
\* a loaded list may write (room_deserialize): nothing in the code keeps a list
\* shorter, and one that is longer loses owners at every restart.
THEOREM OwnersAlwaysKept ==
  ASSUME Cardinality(Clients) <= LIST_MAX
  PROVE  Spec => []OwnersLostOnce
<1>1. Init => LossesInv
  BY PersistenceInit, PersistenceAssumption DEF Init, LossesInv, Empty
<1>2. LossesInv /\ [Next]_vars => LossesInv'
  BY LossesStep
<1>3. LossesInv => OwnersLostOnce
  BY DEF LossesInv, OwnersLostOnce
<1> QED
  BY <1>1, <1>2, <1>3, PTL DEF Spec

---------------------------------------------------------------------------
(* Induction over sets of numbers, and functions defined by recursion.     *)

\* A set of natural numbers has a least element.
LEMMA LeastNumber ==
    ASSUME NEW T, T \subseteq Nat, T # {}
    PROVE  \E x \in T : \A y \in T : x <= y
<1> DEFINE Less == OpToRel(<, Nat)
<1>1. IsWellFoundedOn(Less, Nat)
  BY NatLessThanWellFounded
<1>2. PICK x \in T : \A y \in T : <<y, x>> \notin Less
  <2> HIDE DEF Less
  <2> QED
    BY <1>1, WFMin
<1>3. \A y \in T : y \in Nat /\ x \in Nat /\ ~(y < x)
  BY <1>2 DEF OpToRel
<1> QED
  BY <1>3

\* Induction up to n.
LEMMA Induct ==
    ASSUME NEW n \in Nat, NEW T, 0 \in T, \A i \in 1..n : i - 1 \in T => i \in T
    PROVE  0..n \subseteq T
<1> DEFINE Missing == {i \in 0..n : i \notin T}
<1>1. CASE Missing = {}
  BY <1>1
<1>2. CASE Missing # {}
  <2>1. PICK x \in Missing : \A y \in Missing : x <= y
    <3>1. Missing \subseteq Nat
      OBVIOUS
    <3> HIDE DEF Missing
    <3> QED
      BY <1>2, <3>1, LeastNumber
  <2>2. x \in 1..n /\ x - 1 \in 0..n /\ ~(x <= x - 1)
    BY <2>1
  <2>3. x - 1 \in T
    BY <2>1, <2>2
  <2> QED
    BY <2>1, <2>2, <2>3
<1> QED
  BY <1>1, <1>2

\* f starts with a and is continued by step up to n.
Steps(step, n, S) == \A i \in 1..n : \A x \in S : step[i][x] \in S

Iterates(f, step, n, S, a) ==
    /\ \A i \in 0..n : f[i] \in S
    /\ f[0] = a
    /\ \A i \in 1..n : f[i] = step[i][f[i - 1]]

\* What is defined from one number to the next exists.
LEMMA Iterate ==
    ASSUME NEW n \in Nat, NEW S, NEW a \in S, NEW step, Steps(step, n, S)
    PROVE  \E f : Iterates(f, step, n, S, a)
<1> DEFINE T == {m \in 0..n : \E f : Iterates(f, step, m, S, a)}
<1>1. 0 \in T
  <2> DEFINE f == [i \in 0..0 |-> a]
  <2>1. Iterates(f, step, 0, S, a)
    BY DEF Iterates
  <2> HIDE DEF f
  <2> QED
    BY <2>1
<1>2. ASSUME NEW m \in 1..n, m - 1 \in T
      PROVE  m \in T
  <2>1. PICK f : Iterates(f, step, m - 1, S, a)
    BY <1>2
  <2> DEFINE b == step[m][f[m - 1]]
             g == [i \in 0..m |-> IF i = m THEN b ELSE f[i]]
  <2>2. f[m - 1] \in S /\ b \in S
    BY <2>1 DEF Iterates, Steps
  <2>3. (\A i \in 0..m : g[i] \in S) /\ g[0] = a
    BY <2>1, <2>2 DEF Iterates
  <2>4. ASSUME NEW i \in 1..m PROVE g[i] = step[i][g[i - 1]]
    <3>1. CASE i = m
      <4>1. i - 1 # m /\ i - 1 \in 0..m
        BY <3>1
      <4>2. g[i - 1] = f[m - 1] /\ g[i] = b
        BY <3>1, <4>1
      <4> QED
        BY <3>1, <4>2
    <3>2. CASE i # m
      BY <2>1, <3>2 DEF Iterates
    <3> QED
      BY <3>1, <3>2
  <2>5. Iterates(g, step, m, S, a)
    BY <2>3, <2>4 DEF Iterates
  <2> HIDE DEF g
  <2> QED
    BY <2>5
<1>3. 0..n \subseteq T
  <2> HIDE DEF T
  <2> QED
    BY <1>1, <1>2, Induct
<1> QED
  BY <1>3

\* The first of a set of places.
LEMMA SmallestIs ==
    ASSUME NEW S, S \subseteq Nat, S # {}
    PROVE  Smallest(S) \in S /\ \A m \in S : Smallest(S) <= m
BY LeastNumber DEF Smallest

\* What precedes every place of a set and is in it is its first.
LEMMA SmallestOf ==
    ASSUME NEW S, S \subseteq Nat, NEW a \in S, \A m \in S : a <= m
    PROVE  Smallest(S) = a
<1>1. Smallest(S) \in S /\ Smallest(S) <= a
  BY SmallestIs
<1>2. a <= Smallest(S) /\ a \in Nat /\ Smallest(S) \in Nat
  BY <1>1
<1> QED
  BY <1>1, <1>2

---------------------------------------------------------------------------
(* An address and its text.                                                *)

Texts == Seq(Chars)
Parts == Texts \cup {Null}
Jids == [node : Parts, host : Texts, resource : Parts]

\* The text without the characters before from.
Rest(text, from) == SubSeq(text, from, Len(text))

\* A piece of a text is a text.
LEMMA TextParts ==
    ASSUME NEW text \in Texts, NEW a \in Nat \ {0}, NEW b \in Nat, b <= Len(text)
    PROVE  SubSeq(text, a, b) \in Texts
<1>1. \A i \in a..b : text[i] \in Chars
  BY DEF Texts
<1> QED
  BY <1>1, SubSeqProperties DEF Texts

\* The loop of jid_struct.
Loops == [reads : {"node", "host", "resource"}, start : Nat \ {0}, node : Parts,
          host : Parts]
LoopStart == [reads |-> "node", start |-> 1, node |-> Null, host |-> Null]

\* The parts, once the loop has ended with p.
Ended(text, p) ==
    [node     |-> p.node,
     host     |-> IF p.reads = "resource" THEN p.host ELSE Rest(text, p.start),
     resource |-> IF p.reads = "resource" THEN Rest(text, p.start) ELSE Null]

AtNode(text, p, i) == [p EXCEPT !.node = SubSeq(text, p.start, i - 1),
                                !.reads = "host", !.start = i + 1]
AtHost(text, p, i) == [p EXCEPT !.host = SubSeq(text, p.start, i - 1),
                                !.reads = "resource", !.start = i + 1]

\* A turn of the loop in jid_struct, case by case.
LEMMA NextPartIs ==
    ASSUME NEW text, NEW p, NEW i
    PROVE  /\ (p.reads = "node" /\ text[i] = "@") => NextPart(text, p, i) = AtNode(text, p, i)
           /\ (p.reads # "resource" /\ text[i] = "/") =>
                 NextPart(text, p, i) = AtHost(text, p, i)
           /\ (~(p.reads = "node" /\ text[i] = "@") /\ ~(p.reads # "resource" /\ text[i] = "/")) =>
                 NextPart(text, p, i) = p
<1>1. NextPart(text, p, i) =
        CASE p.reads = "node" /\ text[i] = "@" -> AtNode(text, p, i)
          [] p.reads # "resource" /\ text[i] = "/" -> AtHost(text, p, i)
          [] OTHER -> p
  BY DEF NextPart, AtNode, AtHost
<1> QED
  BY <1>1

\* Its types.
LEMMA LoopTyped ==
    ASSUME NEW text \in Texts, NEW p \in Loops, NEW i \in 1..Len(text)
    PROVE  NextPart(text, p, i) \in Loops
<1>1. i \in Nat /\ i + 1 \in Nat \ {0} /\ i - 1 \in Nat /\ i - 1 <= Len(text)
  BY DEF Texts
<1> DEFINE piece == SubSeq(text, p.start, i - 1)
<1>2. piece \in Parts
  BY <1>1, TextParts DEF Loops, Parts
<1> HIDE DEF piece
<1>3. AtNode(text, p, i) \in Loops
  <2>1. AtNode(text, p, i) = [p EXCEPT !.node = piece, !.reads = "host", !.start = i + 1]
    BY DEF AtNode, piece
  <2> QED
    BY <1>1, <1>2, <2>1 DEF Loops
<1>4. AtHost(text, p, i) \in Loops
  <2>1. AtHost(text, p, i) = [p EXCEPT !.host = piece, !.reads = "resource", !.start = i + 1]
    BY DEF AtHost, piece
  <2> QED
    BY <1>1, <1>2, <2>1 DEF Loops
<1> QED
  BY <1>3, <1>4, NextPartIs

Looped(f, text) ==
    /\ \A i \in 0..Len(text) : f[i] \in Loops
    /\ f[0] = LoopStart
    /\ \A i \in 1..Len(text) : f[i] = NextPart(text, f[i - 1], i)

\* The loop as a function of the number of turns.
LEMMA LoopTrace ==
    ASSUME NEW text \in Texts
    PROVE  \E f : Looped(f, text) /\ jid_struct(text) = Ended(text, f[Len(text)])
<1> DEFINE n == Len(text)
           Read(p, i) == NextPart(text, p, i)
           step == [i \in 1..n |-> [p \in Loops |-> Read(p, i)]]
<1>1. n \in Nat
  BY DEF Texts
<1>2. LoopStart \in Loops
  BY DEF LoopStart, Loops, Parts
<1>3. Steps(step, n, Loops)
  BY LoopTyped DEF Steps
<1>4. PICK f : Iterates(f, step, n, Loops, LoopStart)
  <2> HIDE DEF step, n
  <2> QED
    BY <1>1, <1>2, <1>3, Iterate
<1>5. \A i \in 1..n : f[i] = Read(f[i - 1], i)
  <2> TAKE i \in 1..n
  <2>1. i - 1 \in 0..n
    BY <1>1
  <2>2. f[i - 1] \in Loops
    BY <1>4, <2>1 DEF Iterates
  <2> HIDE DEF Read
  <2> QED
    BY <1>4, <2>2 DEF Iterates
<1>6. Looped(f, text)
  BY <1>4, <1>5 DEF Looped, Iterates
<1> DEFINE Runs(g) == g = [i \in 0..n |-> IF i = 0 THEN LoopStart ELSE Read(g[i - 1], i)]
           loop == CHOOSE g : Runs(g)
<1>7. jid_struct(text) = Ended(text, loop[n])
  BY DEF jid_struct, Ended, Rest, LoopStart
<1> HIDE DEF Read
<1>8. Runs(loop)
  <2> DEFINE h == [i \in 0..n |-> f[i]]
  <2>1. ASSUME NEW i \in 0..n
        PROVE  h[i] = IF i = 0 THEN LoopStart ELSE Read(h[i - 1], i)
    <3>1. CASE i = 0
      BY <1>4, <3>1 DEF Iterates
    <3>2. CASE i # 0
      <4>1. i \in 1..n /\ i - 1 \in 0..n
        BY <3>2, <1>1
      <4>2. h[i] = f[i] /\ h[i - 1] = f[i - 1]
        BY <4>1
      <4> HIDE DEF h
      <4> QED
        BY <1>5, <3>2, <4>1, <4>2
    <3> QED
      BY <3>1, <3>2
  <2>2. Runs(h)
    BY <2>1
  <2> HIDE DEF Runs, h
  <2> QED
    BY <2>2
<1>9. loop[n] = f[n]
  <2> DEFINE T == {i \in 0..n : loop[i] = f[i]}
  <2> HIDE DEF loop
  <2>1. loop[0] = LoopStart /\ \A i \in 1..n : loop[i] = Read(loop[i - 1], i)
    <3>1. \A i \in 0..n : loop[i] = IF i = 0 THEN LoopStart ELSE Read(loop[i - 1], i)
      BY <1>8
    <3>2. 0 \in 0..n /\ \A i \in 1..n : i \in 0..n /\ i # 0
      BY <1>1
    <3> QED
      BY <3>1, <3>2
  <2>2. 0 \in T
    BY <1>1, <1>4, <2>1 DEF Iterates
  <2>3. ASSUME NEW i \in 1..n, i - 1 \in T PROVE i \in T
    BY <1>1, <1>5, <2>1, <2>3
  <2>4. 0..n \subseteq T
    <3> HIDE DEF T, n
    <3> QED
      BY <1>1, <2>2, <2>3, Induct
  <2>5. n \in T
    BY <1>1, <2>4
  <2> QED
    BY <2>5
<1> HIDE DEF loop, n
<1>10. jid_struct(text) = Ended(text, f[n])
  BY <1>7, <1>9
<1> QED
  BY <1>6, <1>10 DEF n

\* No character of the first i is c, and the i-th is the first c.
Free(text, c, i) == \A j \in 1..i : text[j] # c
First(text, c, i) == text[i] = c /\ Free(text, c, i - 1)

\* What the loop of jid_struct has found in the first i characters: neither
\* separator, the "@" at a, the "/" at b, or both.
CutNone(p, text, i) == p = LoopStart /\ Free(text, "@", i) /\ Free(text, "/", i)
CutNode(p, text, i, a) ==
    /\ First(text, "@", a) /\ Free(text, "/", i)
    /\ p = [reads |-> "host", start |-> a + 1,
            node |-> SubSeq(text, 1, a - 1), host |-> Null]
CutHost(p, text, b) ==
    /\ First(text, "/", b) /\ Free(text, "@", b - 1)
    /\ p = [reads |-> "resource", start |-> b + 1,
            node |-> Null, host |-> SubSeq(text, 1, b - 1)]
CutBoth(p, text, a, b) ==
    /\ First(text, "/", b) /\ First(text, "@", a) /\ a < b
    /\ p = [reads |-> "resource", start |-> b + 1,
            node |-> SubSeq(text, 1, a - 1), host |-> SubSeq(text, a + 1, b - 1)]
Cut(p, text, i) ==
    \/ CutNone(p, text, i)
    \/ \E a \in 1..i : CutNode(p, text, i, a)
    \/ \E b \in 1..i : CutHost(p, text, b)
    \/ \E b \in 1..i : \E a \in 1..i : CutBoth(p, text, a, b)

\* A turn keeps the account of the separators that were found.
LEMMA CutStep ==
    ASSUME NEW text, NEW i \in Nat \ {0}, NEW p, Cut(p, text, i - 1)
    PROVE  Cut(NextPart(text, p, i), text, i)
<1> DEFINE q == NextPart(text, p, i)
<1>1. /\ q \in {AtNode(text, p, i), AtHost(text, p, i), p}
      /\ \A c : Free(text, c, i - 1) /\ text[i] # c => Free(text, c, i)
      /\ \A j \in 1..i - 1 : j \in 1..i
      /\ i \in 1..i
  BY NextPartIs DEF Free
<1>2. ASSUME CutNone(p, text, i - 1) PROVE Cut(q, text, i)
  <2>0. p = LoopStart /\ Free(text, "@", i - 1) /\ Free(text, "/", i - 1)
    BY <1>2 DEF CutNone
  <2>1. p.reads = "node" /\ p.start = 1
    BY <2>0 DEF LoopStart
  <2>2. CASE text[i] = "@"
    <3>1. q = AtNode(text, p, i) /\ text[i] # "/"
      BY <2>1, <2>2, NextPartIs
    <3>2. q = [reads |-> "host", start |-> i + 1, node |-> SubSeq(text, 1, i - 1), host |-> Null]
      BY <2>0, <3>1 DEF AtNode, LoopStart
    <3> HIDE DEF q
    <3>3. First(text, "@", i) /\ Free(text, "/", i)
      BY <1>1, <2>0, <2>2, <3>1 DEF First
    <3>4. Cut(q, text, i)
      BY <1>1, <3>2, <3>3 DEF Cut, CutNode
    <3> QED
      BY <3>4 DEF q
  <2>3. CASE text[i] = "/"
    <3>1. q = AtHost(text, p, i)
      BY <2>1, <2>3, NextPartIs
    <3>2. q = [reads |-> "resource", start |-> i + 1, node |-> Null, host |-> SubSeq(text, 1, i - 1)]
      BY <2>0, <3>1 DEF AtHost, LoopStart
    <3> HIDE DEF q
    <3>3. First(text, "/", i)
      BY <2>0, <2>3 DEF First
    <3>4. Cut(q, text, i)
      BY <1>1, <2>0, <3>2, <3>3 DEF Cut, CutHost
    <3> QED
      BY <3>4 DEF q
  <2>4. CASE text[i] # "@" /\ text[i] # "/"
    <3>1. q = p
      BY <2>4, NextPartIs
    <3> HIDE DEF q
    <3>2. Cut(q, text, i)
      BY <1>1, <2>0, <2>4, <3>1 DEF Cut, CutNone
    <3> QED
      BY <3>2 DEF q
  <2> QED
    BY <2>2, <2>3, <2>4
<1>3. ASSUME NEW a \in 1..i - 1, CutNode(p, text, i - 1, a) PROVE Cut(q, text, i)
  <2>0. /\ First(text, "@", a) /\ Free(text, "/", i - 1)
        /\ p = [reads |-> "host", start |-> a + 1,
                node |-> SubSeq(text, 1, a - 1), host |-> Null]
    BY <1>3 DEF CutNode
  <2>1. p.reads = "host" /\ p.start = a + 1 /\ a \in 1..i /\ a < i
    BY <1>1, <2>0
  <2>2. CASE text[i] = "/"
    <3>1. q = AtHost(text, p, i)
      BY <2>1, <2>2, NextPartIs
    <3>2. q = [reads |-> "resource", start |-> i + 1, node |-> SubSeq(text, 1, a - 1),
               host |-> SubSeq(text, a + 1, i - 1)]
      BY <2>0, <3>1 DEF AtHost
    <3> HIDE DEF q
    <3>3. First(text, "/", i)
      BY <2>0, <2>2 DEF First
    <3>4. Cut(q, text, i)
      BY <1>1, <2>0, <2>1, <3>2, <3>3 DEF Cut, CutBoth
    <3> QED
      BY <3>4 DEF q
  <2>3. CASE text[i] # "/"
    <3>1. q = p
      BY <2>1, <2>3, NextPartIs
    <3> HIDE DEF q
    <3>2. Cut(q, text, i)
      BY <1>1, <2>0, <2>1, <2>3, <3>1 DEF Cut, CutNode
    <3> QED
      BY <3>2 DEF q
  <2> QED
    BY <2>2, <2>3
<1>4. ASSUME p.reads = "resource" PROVE q = p
  BY <1>4, NextPartIs
<1>5. ASSUME NEW b \in 1..i - 1, CutHost(p, text, b) PROVE Cut(q, text, i)
  <2>1. q = p /\ b \in 1..i
    BY <1>1, <1>4, <1>5 DEF CutHost
  <2> HIDE DEF q
  <2> QED
    BY <1>5, <2>1 DEF Cut
<1>6. ASSUME NEW b \in 1..i - 1, NEW a \in 1..i - 1, CutBoth(p, text, a, b)
      PROVE  Cut(q, text, i)
  <2>1. q = p /\ b \in 1..i /\ a \in 1..i
    BY <1>1, <1>4, <1>6 DEF CutBoth
  <2> HIDE DEF q
  <2> QED
    BY <1>6, <2>1 DEF Cut
<1> HIDE DEF q
<1>7. \/ CutNone(p, text, i - 1)
      \/ \E a \in 1..i - 1 : CutNode(p, text, i - 1, a)
      \/ \E b \in 1..i - 1 : CutHost(p, text, b)
      \/ \E b \in 1..i - 1 : \E a \in 1..i - 1 : CutBoth(p, text, a, b)
  BY DEF Cut
<1>8. Cut(q, text, i)
  BY <1>2, <1>3, <1>5, <1>6, <1>7
<1> QED
  BY <1>8 DEF q

\* What jid_struct returns: a text without separators is a host; the first "@"
\* of what precedes the first "/" ends the node.
JidNone(j, text) ==
    /\ Free(text, "@", Len(text)) /\ Free(text, "/", Len(text))
    /\ j = [node |-> Null, host |-> text, resource |-> Null]
JidNode(j, text, a) ==
    /\ First(text, "@", a) /\ Free(text, "/", Len(text))
    /\ j = [node |-> SubSeq(text, 1, a - 1), host |-> Rest(text, a + 1), resource |-> Null]
JidHost(j, text, b) ==
    /\ First(text, "/", b) /\ Free(text, "@", b - 1)
    /\ j = [node |-> Null, host |-> SubSeq(text, 1, b - 1), resource |-> Rest(text, b + 1)]
JidBoth(j, text, a, b) ==
    /\ First(text, "/", b) /\ First(text, "@", a) /\ a < b
    /\ j = [node |-> SubSeq(text, 1, a - 1), host |-> SubSeq(text, a + 1, b - 1),
            resource |-> Rest(text, b + 1)]
JidIs(j, text) ==
    \/ JidNone(j, text)
    \/ \E a \in 1..Len(text) : JidNode(j, text, a)
    \/ \E b \in 1..Len(text) : JidHost(j, text, b)
    \/ \E b \in 1..Len(text) : \E a \in 1..Len(text) : JidBoth(j, text, a, b)

\* Where jid_struct cuts a text.
LEMMA JidStruct ==
    ASSUME NEW text \in Texts
    PROVE  JidIs(jid_struct(text), text)
<1> DEFINE n == Len(text)
<1>1. n \in Nat
  BY DEF Texts
<1>2. PICK f : Looped(f, text) /\ jid_struct(text) = Ended(text, f[n])
  BY LoopTrace
<1> HIDE DEF n
<1>3. Cut(f[n], text, n)
  <2> DEFINE T == {i \in 0..n : Cut(f[i], text, i)}
  <2>1. 0 \in T
    BY <1>1, <1>2 DEF Looped, Cut, CutNone, Free
  <2>2. ASSUME NEW i \in 1..n, i - 1 \in T PROVE i \in T
    <3>1. i \in Nat \ {0} /\ Cut(f[i - 1], text, i - 1)
      BY <2>2
    <3>2. f[i] = NextPart(text, f[i - 1], i)
      BY <1>2 DEF Looped, n
    <3>3. Cut(f[i], text, i)
      BY <3>1, <3>2, CutStep
    <3> QED
      BY <1>1, <3>3
  <2>3. 0..n \subseteq T
    <3> HIDE DEF T
    <3> QED
      BY <1>1, <2>1, <2>2, Induct
  <2> QED
    BY <1>1, <2>3
<1> DEFINE p == f[n]
           j == jid_struct(text)
<1>4. j = Ended(text, p)
  BY <1>2
<1> HIDE DEF p, j
<1>5. ASSUME CutNone(p, text, n) PROVE JidNone(j, text)
  <2>1. j = [node |-> Null, host |-> Rest(text, 1), resource |-> Null]
    BY <1>4, <1>5 DEF CutNone, LoopStart, Ended
  <2>2. Rest(text, 1) = text
    BY SubSeqFull DEF Rest, Texts
  <2> QED
    BY <1>5, <2>1, <2>2 DEF CutNone, JidNone, n
<1>6. ASSUME NEW a \in 1..n, CutNode(p, text, n, a) PROVE JidNode(j, text, a)
  <2>1. p = [reads |-> "host", start |-> a + 1, node |-> SubSeq(text, 1, a - 1), host |-> Null]
    BY <1>6 DEF CutNode
  <2>2. j = [node |-> SubSeq(text, 1, a - 1), host |-> Rest(text, a + 1), resource |-> Null]
    BY <1>4, <2>1 DEF Ended
  <2> QED
    BY <1>6, <2>2 DEF CutNode, JidNode, n
<1>7. ASSUME NEW b \in 1..n, CutHost(p, text, b) PROVE JidHost(j, text, b)
  <2>1. p = [reads |-> "resource", start |-> b + 1, node |-> Null, host |-> SubSeq(text, 1, b - 1)]
    BY <1>7 DEF CutHost
  <2>2. j = [node |-> Null, host |-> SubSeq(text, 1, b - 1), resource |-> Rest(text, b + 1)]
    BY <1>4, <2>1 DEF Ended
  <2> QED
    BY <1>7, <2>2 DEF CutHost, JidHost
<1>8. ASSUME NEW b \in 1..n, NEW a \in 1..n, CutBoth(p, text, a, b)
      PROVE  JidBoth(j, text, a, b)
  <2>1. p = [reads |-> "resource", start |-> b + 1,
             node |-> SubSeq(text, 1, a - 1), host |-> SubSeq(text, a + 1, b - 1)]
    BY <1>8 DEF CutBoth
  <2>2. j = [node |-> SubSeq(text, 1, a - 1), host |-> SubSeq(text, a + 1, b - 1),
             resource |-> Rest(text, b + 1)]
    BY <1>4, <2>1 DEF Ended
  <2> QED
    BY <1>8, <2>2 DEF CutBoth, JidBoth
<1>9. Cut(p, text, n)
  BY <1>3 DEF p
<1>10. JidIs(j, text)
  BY <1>5, <1>6, <1>7, <1>8, <1>9 DEF Cut, JidIs, n
<1> QED
  BY <1>10 DEF j

\* A part of a text, and a part of what precedes a place.
LEMMA PieceIs ==
    ASSUME NEW text \in Texts, NEW a \in Nat \ {0}, NEW b \in Nat, a <= b + 1, b <= Len(text)
    PROVE  /\ SubSeq(text, a, b) \in Texts
           /\ Len(SubSeq(text, a, b)) = b - a + 1
           /\ \A i \in 1..b - a + 1 : SubSeq(text, a, b)[i] = text[a + i - 1]
<1>1. \A i \in a..b : text[i] \in Chars
  BY DEF Texts
<1>2. /\ SubSeq(text, a, b) \in Seq(Chars)
      /\ Len(SubSeq(text, a, b)) = IF a <= b THEN b - a + 1 ELSE 0
      /\ \A i \in 1..b - a + 1 : SubSeq(text, a, b)[i] = text[a + i - 1]
  BY <1>1, SubSeqProperties
<1>3. ~(a <= b) => b - a + 1 = 0
  OBVIOUS
<1> QED
  BY <1>2, <1>3 DEF Texts

\* A piece of a piece.
LEMMA PieceOfPiece ==
    ASSUME NEW text \in Texts, NEW c \in Nat, c <= Len(text),
           NEW a \in Nat \ {0}, NEW b \in Nat, a <= b + 1, b <= c
    PROVE  SubSeq(SubSeq(text, 1, c), a, b) = SubSeq(text, a, b)
<1> DEFINE bare == SubSeq(text, 1, c)
           x == SubSeq(bare, a, b)
           y == SubSeq(text, a, b)
<1>1. Len(text) \in Nat /\ b <= Len(text) /\ 1 <= c + 1 /\ c - 1 + 1 = c
  BY DEF Texts
<1>2. bare \in Texts /\ Len(bare) = c /\ \A i \in 1..c : bare[i] = text[1 + i - 1]
  BY <1>1, PieceIs
<1> HIDE DEF bare
<1>3. x \in Texts /\ Len(x) = b - a + 1 /\ \A i \in 1..b - a + 1 : x[i] = bare[a + i - 1]
  BY <1>2, PieceIs
<1>4. y \in Texts /\ Len(y) = b - a + 1 /\ \A i \in 1..b - a + 1 : y[i] = text[a + i - 1]
  BY <1>1, PieceIs
<1>5. \A i \in 1..b - a + 1 : bare[a + i - 1] = text[a + i - 1]
  <2> TAKE i \in 1..b - a + 1
  <2>1. a + i - 1 \in 1..c /\ 1 + (a + i - 1) - 1 = a + i - 1
    OBVIOUS
  <2> QED
    BY <1>2, <2>1
<1> HIDE DEF x, y
<1>6. x = y
  BY <1>3, <1>4, <1>5, SeqEqual DEF Texts
<1> QED
  BY <1>6 DEF x, y, bare

\* The parts of an address are texts, or absent.
LEMMA JidTyped ==
    ASSUME NEW text \in Texts
    PROVE  jid_struct(text) \in Jids
<1> DEFINE j == jid_struct(text)
           n == Len(text)
<1>1. JidIs(j, text) /\ n \in Nat
  BY JidStruct DEF Texts
<1> HIDE DEF j
<1>2. ASSUME NEW a \in Nat \ {0}, NEW b \in Nat, a <= b + 1, b <= n
      PROVE  SubSeq(text, a, b) \in Texts
  BY <1>2, PieceIs
<1>3. ASSUME JidNone(j, text) PROVE j \in Jids
  BY <1>3 DEF JidNone, Jids, Parts
<1>4. ASSUME NEW a \in 1..n, JidNode(j, text, a) PROVE j \in Jids
  <2>1. SubSeq(text, 1, a - 1) \in Texts /\ Rest(text, a + 1) \in Texts
    BY <1>1, <1>2 DEF Rest
  <2>2. j = [node |-> SubSeq(text, 1, a - 1), host |-> Rest(text, a + 1), resource |-> Null]
    BY <1>4 DEF JidNode
  <2> QED
    BY <2>1, <2>2 DEF Jids, Parts
<1>5. ASSUME NEW b \in 1..n, JidHost(j, text, b) PROVE j \in Jids
  <2>1. SubSeq(text, 1, b - 1) \in Texts /\ Rest(text, b + 1) \in Texts
    BY <1>1, <1>2 DEF Rest
  <2>2. j = [node |-> Null, host |-> SubSeq(text, 1, b - 1), resource |-> Rest(text, b + 1)]
    BY <1>5 DEF JidHost
  <2> QED
    BY <2>1, <2>2 DEF Jids, Parts
<1>6. ASSUME NEW b \in 1..n, NEW a \in 1..n, JidBoth(j, text, a, b) PROVE j \in Jids
  <2>1. a < b
    BY <1>6 DEF JidBoth
  <2>2. /\ SubSeq(text, 1, a - 1) \in Texts /\ SubSeq(text, a + 1, b - 1) \in Texts
        /\ Rest(text, b + 1) \in Texts
    BY <1>1, <1>2, <2>1 DEF Rest
  <2>3. j = [node |-> SubSeq(text, 1, a - 1), host |-> SubSeq(text, a + 1, b - 1),
             resource |-> Rest(text, b + 1)]
    BY <1>6 DEF JidBoth
  <2> QED
    BY <2>2, <2>3 DEF Jids, Parts
<1>7. j \in Jids
  BY <1>1, <1>3, <1>4, <1>5, <1>6 DEF JidIs
<1> QED
  BY <1>7 DEF j

\* Where a text is split.
LEMMA SplitNone ==
    ASSUME NEW text \in Texts, NEW c, Free(text, c, Len(text))
    PROVE  Split(text, c) = <<Null, text>>
<1>1. DOMAIN text = 1..Len(text)
  BY DEF Texts
<1>2. {i \in DOMAIN text : text[i] = c} = {}
  BY <1>1 DEF Free
<1> QED
  BY <1>2 DEF Split

\* A text is split at the first separator.
LEMMA SplitFirst ==
    ASSUME NEW text \in Texts, NEW c, NEW a \in 1..Len(text), First(text, c, a)
    PROVE  Split(text, c) = <<SubSeq(text, 1, a - 1), Rest(text, a + 1)>>
<1> DEFINE places == {i \in DOMAIN text : text[i] = c}
<1>1. DOMAIN text = 1..Len(text) /\ Len(text) \in Nat
  BY DEF Texts
<1>2. places \subseteq Nat /\ a \in places
  BY <1>1 DEF First
<1>3. ASSUME NEW m \in places PROVE a <= m
  <2>1. m \in 1..Len(text) /\ text[m] = c
    BY <1>1
  <2>2. m \notin 1..a - 1
    BY <2>1 DEF First, Free
  <2> QED
    BY <1>1, <2>1, <2>2
<1>4. Split(text, c) = IF places = {} THEN <<Null, text>>
                       ELSE <<SubSeq(text, 1, Smallest(places) - 1),
                              Rest(text, Smallest(places) + 1)>>
  BY DEF Split, Rest
<1> HIDE DEF places
<1>5. Smallest(places) = a
  BY <1>2, <1>3, SmallestOf
<1> QED
  BY <1>2, <1>4, <1>5

\* Null is no text.
LEMMA NullIsNoText == ASSUME NEW text \in Texts PROVE text # Null
BY JidAssumption DEF Texts

\* jid_struct finds the address.
LEMMA JidIsAddress ==
    ASSUME NEW text \in Texts
    PROVE  jid_struct(text) = Address(text)
<1> DEFINE j == jid_struct(text)
           n == Len(text)
           slash == Split(text, "/")
           bare == IF slash[1] = Null THEN text ELSE slash[1]
           at == Split(bare, "@")
<1>1. JidIs(j, text) /\ n \in Nat
  BY JidStruct DEF Texts
<1>2. Address(text) = [node |-> at[1], host |-> at[2],
                       resource |-> IF bare = text THEN Null ELSE slash[2]]
  BY DEF Address
<1> HIDE DEF j
<1>3. ASSUME Free(text, "/", n) PROVE bare = text
  BY <1>3, SplitNone
<1>4. ASSUME NEW b \in 1..n, First(text, "/", b)
      PROVE  /\ bare = SubSeq(text, 1, b - 1) /\ bare # text /\ slash[2] = Rest(text, b + 1)
             /\ bare \in Texts /\ Len(bare) = b - 1
             /\ \A i \in 1..b - 1 : bare[i] = text[i]
  <2>1. slash = <<SubSeq(text, 1, b - 1), Rest(text, b + 1)>>
    BY <1>4, SplitFirst
  <2> DEFINE x == SubSeq(text, 1, b - 1)
  <2>2. b - 1 \in Nat /\ b - 1 <= n /\ 1 <= (b - 1) + 1 /\ (b - 1) - 1 + 1 = b - 1
    BY <1>1
  <2>3. x \in Texts /\ Len(x) = b - 1 /\ \A i \in 1..b - 1 : x[i] = text[1 + i - 1]
    <3> DEFINE m == b - 1
    <3>1. m \in Nat /\ 1 <= m + 1 /\ m <= Len(text) /\ 1 \in Nat \ {0} /\ m - 1 + 1 = m
      BY <2>2
    <3> HIDE DEF m
    <3>2. /\ SubSeq(text, 1, m) \in Texts
          /\ Len(SubSeq(text, 1, m)) = m - 1 + 1
          /\ \A i \in 1..m - 1 + 1 : SubSeq(text, 1, m)[i] = text[1 + i - 1]
      BY <3>1, PieceIs
    <3>3. /\ SubSeq(text, 1, m) \in Texts /\ Len(SubSeq(text, 1, m)) = m
          /\ \A i \in 1..m : SubSeq(text, 1, m)[i] = text[1 + i - 1]
      BY <3>1, <3>2
    <3> QED
      BY <3>3 DEF m
  <2>4. \A i \in 1..b - 1 : x[i] = text[i]
    <3> HIDE DEF x
    <3> TAKE i \in 1..b - 1
    <3>1. 1 + i - 1 = i
      OBVIOUS
    <3> QED
      BY <2>3, <3>1
  <2>5. x # Null /\ x # text
    <3> HIDE DEF x
    <3>1. b - 1 # n
      BY <1>1
    <3> QED
      BY <2>3, <3>1, NullIsNoText
  <2>6. slash[1] = x /\ slash[2] = Rest(text, b + 1)
    BY <2>1
  <2> HIDE DEF x, slash
  <2>7. bare = x
    BY <2>5, <2>6
  <2> HIDE DEF bare
  <2> QED
    BY <2>3, <2>4, <2>5, <2>6, <2>7 DEF x
<1> HIDE DEF slash, bare
<1>5. ASSUME JidNone(j, text) PROVE j = Address(text)
  <2>1. at = <<Null, text>> /\ bare = text
    BY <1>3, <1>5, SplitNone DEF JidNone, n
  <2> HIDE DEF at
  <2> QED
    BY <1>2, <1>5, <2>1 DEF JidNone
<1>6. ASSUME NEW a \in 1..n, JidNode(j, text, a) PROVE j = Address(text)
  <2>1. at = <<SubSeq(text, 1, a - 1), Rest(text, a + 1)>> /\ bare = text
    BY <1>3, <1>6, SplitFirst DEF JidNode, n
  <2> HIDE DEF at
  <2> QED
    BY <1>2, <1>6, <2>1 DEF JidNode
<1>7. ASSUME NEW b \in 1..n, JidHost(j, text, b) PROVE j = Address(text)
  <2>1. /\ bare = SubSeq(text, 1, b - 1) /\ bare # text /\ slash[2] = Rest(text, b + 1)
        /\ bare \in Texts /\ Len(bare) = b - 1 /\ \A i \in 1..b - 1 : bare[i] = text[i]
    BY <1>4, <1>7 DEF JidHost
  <2>2. Free(bare, "@", Len(bare))
    BY <1>7, <2>1 DEF JidHost, Free
  <2>3. at = <<Null, bare>>
    BY <2>1, <2>2, SplitNone
  <2> HIDE DEF at
  <2> QED
    BY <1>2, <1>7, <2>1, <2>3 DEF JidHost
<1>8. ASSUME NEW b \in 1..n, NEW a \in 1..n, JidBoth(j, text, a, b)
      PROVE  j = Address(text)
  <2>1. /\ bare = SubSeq(text, 1, b - 1) /\ bare # text /\ slash[2] = Rest(text, b + 1)
        /\ bare \in Texts /\ Len(bare) = b - 1 /\ \A i \in 1..b - 1 : bare[i] = text[i]
    BY <1>4, <1>8 DEF JidBoth
  <2>2. a \in 1..Len(bare) /\ a <= b - 1 /\ a < b
    BY <1>1, <1>8, <2>1 DEF JidBoth
  <2>3. First(bare, "@", a)
    <3>1. \A i \in 1..a - 1 : i \in 1..b - 1
      BY <1>1, <2>2
    <3> QED
      BY <1>8, <2>1, <2>2, <3>1 DEF JidBoth, First, Free
  <2>4. at = <<SubSeq(bare, 1, a - 1), SubSeq(bare, a + 1, b - 1)>>
    BY <2>1, <2>2, <2>3, SplitFirst DEF Rest
  <2>5. /\ SubSeq(bare, 1, a - 1) = SubSeq(text, 1, a - 1)
        /\ SubSeq(bare, a + 1, b - 1) = SubSeq(text, a + 1, b - 1)
    <3>1. /\ b - 1 \in Nat /\ b - 1 <= Len(text) /\ a - 1 \in Nat /\ 1 <= (a - 1) + 1
          /\ a - 1 <= b - 1 /\ a + 1 \in Nat \ {0} /\ a + 1 <= (b - 1) + 1
      BY <1>1, <2>2 DEF n
    <3> QED
      BY <2>1, <3>1, PieceOfPiece
  <2> HIDE DEF at
  <2> QED
    BY <1>2, <1>8, <2>1, <2>4, <2>5 DEF JidBoth
<1>9. j = Address(text)
  BY <1>1, <1>5, <1>6, <1>7, <1>8 DEF JidIs, n
<1> QED
  BY <1>9 DEF j

\* An entry of a list of affiliations has no resource, and no "/" anywhere.
NoChar(part, c) == part # Null => Free(part, c, Len(part))
Bare(e) == e \in Jids /\ e.resource = Null /\ NoChar(e.node, "/") /\ NoChar(e.host, "/")

\* Its parts are those of its text.
Whole(e) == NoChar(e.node, "@") /\ (e.node = Null => NoChar(e.host, "@"))

\* A piece in front of the separators has none.
LEMMA PieceFree ==
    ASSUME NEW text \in Texts, NEW c, NEW k \in Nat, Free(text, c, k),
           NEW a \in Nat \ {0}, NEW b \in Nat, a <= b + 1, b <= k, k <= Len(text)
    PROVE  NoChar(SubSeq(text, a, b), c)
<1> DEFINE x == SubSeq(text, a, b)
<1>1. Len(x) = b - a + 1 /\ \A i \in 1..b - a + 1 : x[i] = text[a + i - 1]
  <2>1. b <= Len(text)
    BY DEF Texts
  <2> QED
    BY <2>1, PieceIs
<1> HIDE DEF x
<1>2. \A i \in 1..b - a + 1 : a + i - 1 \in 1..k
  OBVIOUS
<1>3. NoChar(x, c)
  BY <1>1, <1>2 DEF NoChar, Free
<1> QED
  BY <1>3 DEF x

\* No part of an address holds a separator that would end it.
LEMMA JidWhole ==
    ASSUME NEW text \in Texts
    PROVE  LET j == jid_struct(text) IN
              NoChar(j.node, "/") /\ NoChar(j.host, "/") /\ Whole(j)
<1> DEFINE j == jid_struct(text)
           n == Len(text)
           Parted(x) == NoChar(x.node, "/") /\ NoChar(x.host, "/") /\ Whole(x)
<1>1. JidIs(j, text) /\ n \in Nat
  BY JidStruct DEF Texts
<1> HIDE DEF j
<1>2. ASSUME JidNone(j, text) PROVE Parted(j)
  BY <1>2 DEF JidNone, NoChar, Whole
<1>3. ASSUME NEW a \in 1..n, JidNode(j, text, a) PROVE Parted(j)
  <2>1. j.node = SubSeq(text, 1, a - 1) /\ j.host = SubSeq(text, a + 1, n)
    BY <1>3 DEF JidNode, Rest
  <2>2. Free(text, "/", n) /\ Free(text, "@", a - 1)
    BY <1>3 DEF JidNode, First
  <2>3. /\ a - 1 \in Nat /\ 1 <= (a - 1) + 1 /\ a - 1 <= n /\ a + 1 \in Nat \ {0}
        /\ a + 1 <= n + 1 /\ n <= n
    BY <1>1
  <2>4. /\ NoChar(SubSeq(text, 1, a - 1), "/") /\ NoChar(SubSeq(text, 1, a - 1), "@")
        /\ NoChar(SubSeq(text, a + 1, n), "/")
    BY <1>1, <2>2, <2>3, PieceFree
  <2>5. SubSeq(text, 1, a - 1) # Null
    <3>1. SubSeq(text, 1, a - 1) \in Texts
      BY <2>3, TextParts
    <3> QED
      BY <3>1, NullIsNoText
  <2> QED
    BY <2>1, <2>4, <2>5 DEF Whole
<1>4. ASSUME NEW b \in 1..n, JidHost(j, text, b) PROVE Parted(j)
  <2>1. j.node = Null /\ j.host = SubSeq(text, 1, b - 1)
    BY <1>4 DEF JidHost
  <2>2. Free(text, "/", b - 1) /\ Free(text, "@", b - 1)
    BY <1>4 DEF JidHost, First
  <2>3. b - 1 \in Nat /\ 1 <= (b - 1) + 1 /\ b - 1 <= n /\ b - 1 <= b - 1
    BY <1>1
  <2>4. NoChar(SubSeq(text, 1, b - 1), "/") /\ NoChar(SubSeq(text, 1, b - 1), "@")
    BY <1>1, <2>2, <2>3, PieceFree
  <2> QED
    BY <2>1, <2>4 DEF Whole, NoChar
<1>5. ASSUME NEW b \in 1..n, NEW a \in 1..n, JidBoth(j, text, a, b) PROVE Parted(j)
  <2>1. j.node = SubSeq(text, 1, a - 1) /\ j.host = SubSeq(text, a + 1, b - 1)
    BY <1>5 DEF JidBoth
  <2>2. Free(text, "/", b - 1) /\ Free(text, "@", a - 1) /\ a < b
    BY <1>5 DEF JidBoth, First
  <2>3. /\ a - 1 \in Nat /\ 1 <= (a - 1) + 1 /\ a - 1 <= n /\ a + 1 \in Nat \ {0}
        /\ a + 1 <= (b - 1) + 1 /\ b - 1 <= n /\ b - 1 \in Nat /\ a - 1 <= b - 1
        /\ a - 1 <= a - 1 /\ b - 1 <= b - 1
    BY <1>1, <2>2
  <2>4. /\ NoChar(SubSeq(text, 1, a - 1), "/") /\ NoChar(SubSeq(text, 1, a - 1), "@")
        /\ NoChar(SubSeq(text, a + 1, b - 1), "/")
    BY <1>1, <2>2, <2>3, PieceFree
  <2>5. SubSeq(text, 1, a - 1) # Null
    <3>1. SubSeq(text, 1, a - 1) \in Texts
      BY <2>3, PieceIs
    <3> QED
      BY <3>1, NullIsNoText
  <2> QED
    BY <2>1, <2>4, <2>5 DEF Whole
<1>6. Parted(j)
  BY <1>1, <1>2, <1>3, <1>4, <1>5 DEF JidIs, n
<1> QED
  BY <1>6 DEF j

\* The copy that is stored.
LEMMA CopyIs ==
    ASSUME NEW j \in Jids
    PROVE  jid_set(j, {"node", "host"}) =
             [node |-> IF Size(j.node) > 0 THEN j.node ELSE Null, host |-> j.host,
              resource |-> Null]
BY DEF jid_set, Jids

\* The length of a part that may be absent.
LEMMA SizeIs ==
    ASSUME NEW part \in Parts
    PROVE  /\ Size(part) \in Nat
           /\ ~Blank(part) => (IF Size(part) > 0 THEN part ELSE Null) = part
<1>1. part # Null => Len(part) \in Nat /\ part \in Texts
  BY DEF Parts, Texts
<1> QED
  BY <1>1 DEF Size, Blank

\* What jid_set copies from a valid address is an entry of a list.
LEMMA CopyIsEntry ==
    ASSUME NEW text \in Texts, Valid(jid_struct(text))
    PROVE  LET j == jid_struct(text)
               copy == jid_set(j, {"node", "host"}) IN
           /\ Bare(copy) /\ Valid(copy) /\ copy.host = j.host
           /\ ~Blank(j.node) => copy.node = j.node /\ Whole(copy)
<1> DEFINE j == jid_struct(text)
           copy == jid_set(j, {"node", "host"})
           m == IF Size(j.node) > 0 THEN j.node ELSE Null
<1>1. j \in Jids /\ NoChar(j.node, "/") /\ NoChar(j.host, "/") /\ Whole(j) /\ Valid(j)
  BY JidTyped, JidWhole
<1> HIDE DEF j
<1>2. copy = [node |-> m, host |-> j.host, resource |-> Null]
  BY <1>1, CopyIs
<1>3. j.node \in Parts /\ j.host \in Texts /\ m \in Parts /\ m \in {j.node, Null}
  BY <1>1 DEF Jids, Parts
<1>4. ~Blank(j.node) => m = j.node
  BY <1>3, SizeIs
<1> HIDE DEF copy, m
<1>5. copy \in Jids /\ copy.node = m /\ copy.host = j.host /\ copy.resource = Null
  BY <1>2, <1>3 DEF Jids, Parts
<1>6. Bare(copy)
  BY <1>1, <1>3, <1>5 DEF Bare, NoChar
<1>7. Valid(copy)
  <2>1. Size(Null) = 0 /\ MaxPart \in Nat
    BY JidAssumption DEF Size
  <2>2. Size(m) <= MaxPart /\ Size(j.host) > 0 /\ Size(j.host) <= MaxPart
    BY <1>1, <1>3, <2>1 DEF Valid
  <2> QED
    BY <1>5, <2>1, <2>2 DEF Valid
<1>8. ~Blank(j.node) => copy.node = j.node /\ Whole(copy)
  BY <1>1, <1>4, <1>5 DEF Whole
<1>9. Bare(copy) /\ Valid(copy) /\ copy.host = j.host
      /\ (~Blank(j.node) => copy.node = j.node /\ Whole(copy))
  BY <1>5, <1>6, <1>7, <1>8
<1> QED
  BY <1>9 DEF j, copy

\* The text of an entry.
LEMMA TextIs ==
    ASSUME NEW e, Bare(e)
    PROVE  LET t == Text(e)
               k == Len(e.node) + 1 IN
           /\ t \in Texts /\ Free(t, "/", Len(t))
           /\ e.node = Null => t = e.host
           /\ e.node # Null =>
                /\ Len(e.node) \in Nat /\ Len(t) = k + Len(e.host) /\ t[k] = "@"
                /\ \A i \in 1..k - 1 : t[i] = e.node[i]
                /\ \A i \in 1..Len(e.host) : t[k + i] = e.host[i]
<1> DEFINE node == e.node
           host == e.host
           t == Text(e)
           k == Len(node) + 1
<1>1. /\ node \in Parts /\ host \in Texts /\ e.resource = Null
      /\ NoChar(node, "/") /\ NoChar(host, "/")
  BY DEF Bare, Jids
<1>2. Len(host) \in Nat /\ Free(host, "/", Len(host)) /\ host # Null
  BY <1>1, NullIsNoText DEF Texts, NoChar
<1>3. t = ((IF node = Null THEN <<>> ELSE node \o <<"@">>) \o host) \o <<>>
  BY <1>1 DEF Text, Size
<1> HIDE DEF node, host, t
<1>4. CASE node = Null
  <2>1. <<>> \o host = host /\ host \o <<>> = host
    BY <1>1, ConcatEmptySeq DEF Texts
  <2>2. t = host
    BY <1>3, <1>4, <2>1
  <2>3. t \in Texts /\ Free(t, "/", Len(t))
    BY <1>1, <1>2, <2>2
  <2> QED
    BY <1>4, <2>2, <2>3 DEF node, host, t
<1>5. CASE node # Null
  <2> DEFINE pre == node \o <<"@">>
             at == <<"@">>
  <2>1. node \in Texts /\ Len(node) \in Nat /\ Free(node, "/", Len(node))
    BY <1>1, <1>5 DEF Parts, Texts, NoChar
  <2>2. at \in Texts /\ Len(at) = 1 /\ at[1] = "@"
    BY DEF Texts, Chars, Separators
  <2>3. pre = node \o at
    OBVIOUS
  <2> HIDE DEF pre, at
  <2>4. /\ pre \in Texts /\ Len(pre) = k
        /\ \A i \in 1..k : pre[i] = IF i <= Len(node) THEN node[i] ELSE at[i - Len(node)]
    BY <2>1, <2>2, <2>3, ConcatProperties DEF Texts
  <2>5. k \in Nat /\ k >= 1
    BY <2>1
  <2>6. pre[k] = "@" /\ \A i \in 1..k - 1 : pre[i] = node[i]
    <3>1. k \in 1..k /\ ~(k <= Len(node)) /\ k - Len(node) = 1
      BY <2>1
    <3>2. \A i \in 1..k - 1 : i \in 1..k /\ i <= Len(node)
      BY <2>1
    <3> QED
      BY <2>2, <2>4, <3>1, <3>2
  <2> HIDE DEF k
  <2>7. t = pre \o host
    <3>1. pre \o host \in Texts
      BY <1>1, <2>4, ConcatProperties DEF Texts
    <3>2. (pre \o host) \o <<>> = pre \o host
      BY <3>1, ConcatEmptySeq DEF Texts
    <3> QED
      BY <1>3, <1>5, <3>2 DEF pre
  <2>8. /\ t \in Texts /\ Len(t) = k + Len(host)
        /\ \A i \in 1..k + Len(host) : t[i] = IF i <= k THEN pre[i] ELSE host[i - k]
    BY <1>1, <2>4, <2>7, ConcatProperties DEF Texts
  <2>9. t[k] = "@" /\ \A i \in 1..k - 1 : t[i] = node[i]
    <3>1. k \in 1..k + Len(host) /\ k <= k
      BY <1>2, <2>5
    <3>2. \A i \in 1..k - 1 : i \in 1..k + Len(host) /\ i <= k
      BY <1>2, <2>5
    <3> QED
      BY <2>6, <2>8, <3>1, <3>2
  <2>10. \A i \in 1..Len(host) : t[k + i] = host[i]
    <3> TAKE i \in 1..Len(host)
    <3>1. k + i \in 1..k + Len(host) /\ ~(k + i <= k) /\ (k + i) - k = i
      BY <1>2, <2>5
    <3> QED
      BY <2>8, <3>1
  <2>11. Free(t, "/", Len(t))
    <3> SUFFICES ASSUME NEW j \in 1..Len(t) PROVE t[j] # "/"
      BY DEF Free
    <3>1. CASE j < k
      <4>1. j \in 1..k - 1 /\ j \in 1..Len(node)
        BY <2>1, <2>5, <3>1 DEF k
      <4> QED
        BY <2>1, <2>9, <4>1 DEF Free
    <3>2. CASE j = k
      BY <2>9, <3>2
    <3>3. CASE j > k
      <4>1. j - k \in 1..Len(host) /\ k + (j - k) = j
        BY <1>2, <2>5, <2>8, <3>3
      <4>2. t[k + (j - k)] = host[j - k] /\ host[j - k] # "/"
        BY <1>2, <2>10, <4>1 DEF Free
      <4> QED
        BY <4>1, <4>2
    <3> QED
      BY <1>2, <2>5, <2>8, <3>1, <3>2, <3>3
  <2> QED
    BY <1>5, <2>1, <2>8, <2>9, <2>10, <2>11 DEF node, host, t, k
<1> QED
  BY <1>4, <1>5

\* An entry that is written and read stays an entry ...
LEMMA BackIsEntry ==
    ASSUME NEW e, Bare(e)
    PROVE  Bare(jid_struct(Text(e)))
<1> DEFINE t == Text(e)
           j == jid_struct(t)
           n == Len(t)
<1>1. t \in Texts /\ Free(t, "/", n)
  BY TextIs
<1> HIDE DEF t
<1>2. JidIs(j, t) /\ j \in Jids /\ NoChar(j.node, "/") /\ NoChar(j.host, "/")
  BY <1>1, JidStruct, JidTyped, JidWhole
<1> HIDE DEF j
<1>3. \A b \in 1..n : ~First(t, "/", b)
  BY <1>1 DEF First, Free
<1>4. j.resource = Null
  BY <1>2, <1>3 DEF JidIs, JidNone, JidNode, JidHost, JidBoth
<1>5. Bare(j)
  BY <1>2, <1>4 DEF Bare
<1> QED
  BY <1>5 DEF j, t

\* ... and the same, if its parts are those of its text.
LEMMA TextBack ==
    ASSUME NEW e, Bare(e), Whole(e)
    PROVE  jid_struct(Text(e)) = e
<1> DEFINE t == Text(e)
           j == jid_struct(t)
           n == Len(t)
           k == Len(e.node) + 1
<1>1. /\ t \in Texts /\ Free(t, "/", n)
      /\ e.node = Null => t = e.host
      /\ e.node # Null =>
           /\ Len(e.node) \in Nat /\ n = k + Len(e.host) /\ t[k] = "@"
           /\ \A i \in 1..k - 1 : t[i] = e.node[i]
           /\ \A i \in 1..Len(e.host) : t[k + i] = e.host[i]
  BY TextIs
<1> HIDE DEF t
<1>2. JidIs(j, t) /\ n \in Nat
  BY <1>1, JidStruct DEF Texts
<1> HIDE DEF j
<1>3. \A b \in 1..n : ~First(t, "/", b)
  BY <1>1 DEF First, Free
<1>4. /\ e \in Jids /\ e.resource = Null /\ e.host \in Texts /\ e.host # Null
      /\ e.node \in Parts
  BY NullIsNoText DEF Bare, Jids
<1>5. e = [node |-> e.node, host |-> e.host, resource |-> Null]
  BY <1>4 DEF Jids
<1>6. JidNone(j, t) \/ \E a \in 1..n : JidNode(j, t, a)
  BY <1>2, <1>3 DEF JidIs, JidHost, JidBoth
<1>7. CASE e.node = Null
  <2>1. t = e.host /\ Free(t, "@", n)
    BY <1>1, <1>4, <1>7 DEF Whole, NoChar
  <2>2. \A a \in 1..n : ~First(t, "@", a)
    BY <2>1 DEF First, Free
  <2>3. j = [node |-> Null, host |-> t, resource |-> Null]
    BY <1>6, <2>2 DEF JidNone, JidNode
  <2> QED
    BY <1>5, <1>7, <2>1, <2>3 DEF j, t
<1>8. CASE e.node # Null
  <2>1. /\ Len(e.node) \in Nat /\ e.node \in Texts /\ Len(e.host) \in Nat
        /\ k = Len(e.node) + 1 /\ k \in 1..n /\ n = k + Len(e.host) /\ t[k] = "@"
        /\ \A i \in 1..k - 1 : t[i] = e.node[i]
        /\ \A i \in 1..Len(e.host) : t[k + i] = e.host[i]
    <3>1. Len(e.node) \in Nat /\ e.node \in Texts /\ Len(e.host) \in Nat
      BY <1>4, <1>8 DEF Parts, Texts
    <3>2. k = Len(e.node) + 1 /\ n = k + Len(e.host)
      BY <1>1, <1>8
    <3>3. k \in 1..n
      <4> DEFINE x == Len(e.node)
                 y == Len(e.host)
      <4>1. x \in Nat /\ y \in Nat /\ k = x + 1 /\ n = k + y
        BY <3>1, <3>2
      <4> HIDE DEF x, y, k, n
      <4> QED
        BY <4>1
    <3> QED
      BY <1>1, <1>8, <3>1, <3>2, <3>3
  <2>2. Free(t, "@", k - 1)
    <3>1. \A i \in 1..k - 1 : i \in 1..Len(e.node)
      BY <2>1
    <3> QED
      BY <1>1, <1>8, <3>1 DEF Whole, NoChar, Free
  <2>3. PICK a \in 1..n : JidNode(j, t, a)
    BY <1>6, <2>1 DEF JidNone, Free
  <2> DEFINE m == Len(e.node)
             h == Len(e.host)
  <2>m. m \in Nat /\ h \in Nat /\ k \in Nat /\ k = m + 1 /\ n = k + h
    BY <2>1
  <2> HIDE DEF k, m, h, n
  <2>4. a = k
    <3>1. t[a] = "@" /\ \A i \in 1..a - 1 : t[i] # "@"
      BY <2>3 DEF JidNode, First, Free
    <3>2. a \notin 1..k - 1 /\ k \notin 1..a - 1
      BY <2>1, <2>2, <3>1 DEF Free
    <3> QED
      BY <1>2, <2>1, <3>2
  <2>5. j = [node |-> SubSeq(t, 1, k - 1), host |-> SubSeq(t, k + 1, n), resource |-> Null]
    BY <2>3, <2>4 DEF JidNode, Rest, n
  <2>6. SubSeq(t, 1, k - 1) = e.node
    <3> DEFINE x == SubSeq(t, 1, k - 1)
    <3>1. k - 1 \in Nat /\ 1 <= (k - 1) + 1 /\ k - 1 <= n /\ (k - 1) - 1 + 1 = k - 1
          /\ k - 1 = m
      BY <1>2, <2>m
    <3>2. x \in Texts /\ Len(x) = k - 1 /\ \A i \in 1..k - 1 : x[i] = t[1 + i - 1]
      BY <1>1, <3>1, PieceIs DEF n
    <3>3. \A i \in 1..k - 1 : t[i] = e.node[i] /\ 1 + i - 1 = i
      <4> TAKE i \in 1..k - 1
      <4>1. i \in Nat /\ 1 + i - 1 = i
        BY <2>m
      <4> QED
        BY <2>1, <4>1
    <3> HIDE DEF x
    <3>4. \A i \in 1..Len(x) : x[i] = e.node[i]
      BY <3>2, <3>3
    <3>5. x = e.node
      BY <2>1, <3>1, <3>2, <3>4, SeqEqual DEF Texts, m
    <3> QED
      BY <3>5 DEF x
  <2>7. SubSeq(t, k + 1, n) = e.host
    <3> DEFINE x == SubSeq(t, k + 1, n)
    <3>1. k + 1 \in Nat \ {0} /\ k + 1 <= n + 1 /\ n <= n /\ n - (k + 1) + 1 = h
      BY <1>2, <2>m
    <3>2. x \in Texts /\ Len(x) = n - (k + 1) + 1
          /\ \A i \in 1..n - (k + 1) + 1 : x[i] = t[(k + 1) + i - 1]
      BY <1>1, <1>2, <3>1, PieceIs DEF n
    <3>3. \A i \in 1..Len(e.host) : t[k + i] = e.host[i]
      BY <2>1
    <3> HIDE DEF x
    <3>4. ASSUME NEW i \in 1..Len(x) PROVE x[i] = e.host[i]
      <4>1. (k + 1) + i - 1 = k + i /\ i \in 1..h /\ i \in 1..n - (k + 1) + 1
        BY <2>m, <3>1, <3>2
      <4> QED
        BY <3>2, <3>3, <4>1 DEF h
    <3>5. x = e.host
      BY <1>4, <3>1, <3>2, <3>4, SeqEqual DEF Texts, h
    <3> QED
      BY <3>5 DEF x
  <2> QED
    BY <1>5, <2>5, <2>6, <2>7 DEF j, t, n
<1> QED
  BY <1>7, <1>8

---------------------------------------------------------------------------
(* The access control list and the list of addresses.                      *)

Lines == [role : Roles \cup {NoRole}, text : Seq(STRING)]
EntryOf(line) == [jid |-> jid_struct(line.text), role |-> line.role]
Entries == {e \in Jids : Bare(e) /\ Valid(e)}

\* Two addresses of one user, for jid_cmp.
SameUser(a, b) == Fold(a.node) = Fold(b.node) /\ Fold(a.host) = Fold(b.host)
Distinct(l) == \A i, j \in DOMAIN l : SameUser(l[i], l[j]) => i = j

\* The access control list is what acl_deserialize makes of the first n lines.
Loaded(n) ==
    /\ n \in LinesRead(acl_file) /\ \A m \in LinesRead(acl_file) : m <= n
    /\ acl = [i \in 1..n |-> EntryOf(acl_file[i])]

AclInv ==
    /\ default_role \in Roles /\ reloading \in BOOLEAN /\ plain \in BOOLEAN
    /\ acl_file \in Seq(Lines) /\ \E n \in Nat : Loaded(n)
    /\ list \in Seq(Entries)
    /\ plain => Distinct(list) /\ \A i \in DOMAIN list : Whole(list[i])
    /\ asked.role \in Roles \cup {NoRole}

\* The fields of an entry of the access control list.
LEMMA EntryIs ==
    ASSUME NEW line
    PROVE  EntryOf(line).jid = jid_struct(line.text) /\ EntryOf(line).role = line.role
BY DEF EntryOf

\* A sequence of characters is a text,
LEMMA StringIsText == ASSUME NEW text \in Seq(STRING) PROVE text \in Texts
BY SeqMonotonic DEF Texts, Chars

\* and so is every address that arrives.
LEMMA GivenTexts == ASSUME NEW text \in Senders \cup Targets PROVE text \in Texts
BY AclAssumption, StringIsText

\* jid_cmp by node and host.
LEMMA CmpUser ==
    ASSUME NEW a, NEW b
    PROVE  jid_cmp(a, b, {"node", "host"}) <=> SameUser(a, b)
BY DEF jid_cmp, Same, SameUser

\* jid_cmp as acl_role calls it.
LEMMA CmpWild ==
    ASSUME NEW a, NEW b
    PROVE  jid_cmp(a, b, JID_FULL \cup {"nullwc"}) <=>
             /\ a.node = Null \/ Fold(a.node) = Fold(b.node)
             /\ Fold(a.host) = Fold(b.host)
             /\ a.resource = Null \/ a.resource = b.resource
BY DEF jid_cmp, Same, JID_FULL

\* The access control list, entry by entry.
LEMMA AclIs ==
    ASSUME AclInv, NEW n \in Nat, Loaded(n)
    PROVE  /\ DOMAIN acl = 1..n /\ Len(acl) = n /\ n <= Limit
           /\ \A i \in 1..n : /\ acl[i] = EntryOf(acl_file[i])
                              /\ i \in 1..Len(acl_file) /\ acl_file[i] \in Lines
                              /\ Good(acl_file[i]) /\ acl_file[i].role \in Roles
<1>1. /\ acl_file \in Seq(Lines) /\ n \in 0..Len(acl_file) /\ n <= Limit
      /\ \A i \in 1..n : Good(acl_file[i])
      /\ acl = [i \in 1..n |-> EntryOf(acl_file[i])]
  BY DEF AclInv, Loaded, LinesRead
<1>2. \A i \in 1..n : i \in 1..Len(acl_file) /\ acl_file[i] \in Lines
  BY <1>1
<1>3. \A i \in 1..n : acl_file[i].role \in Roles
  BY <1>1, <1>2 DEF Lines, Good
<1> QED
  BY <1>1, <1>2, <1>3

\* Whoever is looked up gets a role.
LEMMA RoleTyped ==
    ASSUME AclInv, NEW jid
    PROVE  acl_role(jid) \in Roles
<1>1. PICK n \in Nat : Loaded(n)
  BY DEF AclInv
<1> DEFINE matches == {i \in DOMAIN acl : jid_cmp(acl[i].jid, jid, JID_FULL \cup {"nullwc"})}
<1>2. matches \subseteq 1..n
  BY <1>1, AclIs
<1>3. acl_role(jid) = IF matches = {} THEN default_role ELSE acl[Smallest(matches)].role
  BY DEF acl_role
<1> HIDE DEF matches
<1>4. CASE matches = {}
  BY <1>3, <1>4 DEF AclInv
<1>5. CASE matches # {}
  <2>1. matches \subseteq Nat
    BY <1>2
  <2>2. Smallest(matches) \in 1..n
    BY <1>2, <1>5, <2>1, SmallestIs
  <2>3. acl[Smallest(matches)].role \in Roles
    <3>1. \A i \in 1..n : acl[i] = EntryOf(acl_file[i]) /\ acl_file[i].role \in Roles
      BY <1>1, AclIs
    <3>2. \A i \in 1..n : acl[i].role \in Roles
      BY <3>1, EntryIs
    <3> QED
      BY <2>2, <3>2
  <2> QED
    BY <1>3, <1>5, <2>3
<1> QED
  BY <1>4, <1>5

\* A list without its i-th entry.
LEMMA WithoutIs ==
    ASSUME list \in Seq(Entries), NEW i \in 1..Len(list)
    PROVE  /\ Without(i) \in Seq(Entries) /\ Len(Without(i)) = Len(list) - 1
           /\ \A j \in 1..Len(list) - 1 :
                 Without(i)[j] = IF j < i THEN list[j] ELSE list[j + 1]
<1> DEFINE a == SubSeq(list, 1, i - 1)
           b == SubSeq(list, i + 1, Len(list))
           n == Len(list)
<1>1. n \in Nat /\ \A j \in 1..n : list[j] \in Entries
  OBVIOUS
<1>2. /\ a \in Seq(Entries) /\ Len(a) = i - 1
      /\ \A j \in 1..i - 1 : a[j] = list[j]
  <2>1. \A j \in 1..i - 1 : list[j] \in Entries /\ 1 + j - 1 = j
    BY <1>1
  <2>2. /\ a \in Seq(Entries) /\ Len(a) = IF 1 <= i - 1 THEN (i - 1) - 1 + 1 ELSE 0
        /\ \A j \in 1..(i - 1) - 1 + 1 : a[j] = list[1 + j - 1]
    BY <1>1, <2>1, SubSeqProperties
  <2>3. (i - 1) - 1 + 1 = i - 1 /\ (~(1 <= i - 1) => i - 1 = 0)
    BY <1>1
  <2> HIDE DEF a
  <2> QED
    BY <2>1, <2>2, <2>3
<1>3. /\ b \in Seq(Entries) /\ Len(b) = n - i
      /\ \A j \in 1..n - i : b[j] = list[i + j]
  <2>1. \A j \in i + 1..n : list[j] \in Entries
    BY <1>1
  <2>2. /\ b \in Seq(Entries) /\ Len(b) = IF i + 1 <= n THEN n - (i + 1) + 1 ELSE 0
        /\ \A j \in 1..n - (i + 1) + 1 : b[j] = list[(i + 1) + j - 1]
    BY <1>1, <2>1, SubSeqProperties
  <2>3. n - (i + 1) + 1 = n - i /\ (~(i + 1 <= n) => n - i = 0)
    BY <1>1
  <2>4. \A j \in 1..n - i : (i + 1) + j - 1 = i + j
    BY <1>1
  <2> HIDE DEF b, n
  <2> QED
    BY <2>2, <2>3, <2>4
<1>4. Without(i) = a \o b
  BY DEF Without
<1> HIDE DEF a, b, n
<1>5. /\ Without(i) \in Seq(Entries) /\ Len(Without(i)) = (i - 1) + (n - i)
      /\ \A j \in 1..(i - 1) + (n - i) :
            Without(i)[j] = IF j <= i - 1 THEN a[j] ELSE b[j - (i - 1)]
  BY <1>2, <1>3, <1>4, ConcatProperties
<1>6. i \in Nat /\ i >= 1 /\ i <= n /\ (i - 1) + (n - i) = n - 1
  BY <1>1 DEF n
<1>7. ASSUME NEW j \in 1..n - 1
      PROVE  Without(i)[j] = IF j < i THEN list[j] ELSE list[j + 1]
  <2>1. CASE j < i
    <3>1. j <= i - 1 /\ j \in 1..i - 1 /\ j \in 1..(i - 1) + (n - i)
      BY <1>1, <1>6, <2>1
    <3> QED
      BY <1>2, <1>5, <2>1, <3>1
  <2>2. CASE ~(j < i)
    <3>1. /\ ~(j <= i - 1) /\ j - (i - 1) \in 1..n - i /\ j \in 1..(i - 1) + (n - i)
          /\ i + (j - (i - 1)) = j + 1
      BY <1>1, <1>6, <2>2
    <3>2. Without(i)[j] = b[j - (i - 1)] /\ b[j - (i - 1)] = list[i + (j - (i - 1))]
      BY <1>3, <1>5, <3>1
    <3> QED
      BY <2>2, <3>1, <3>2
  <2> QED
    BY <2>1, <2>2
<1> QED
  BY <1>5, <1>6, <1>7 DEF n

\* Both lists begin empty.
LEMMA AclInit == InitAcl => AclInv
<1> SUFFICES ASSUME InitAcl PROVE AclInv
  OBVIOUS
<1> USE DEF InitAcl
<1>1. acl_file \in Seq(Lines) /\ list \in Seq(Entries) /\ DOMAIN list = {} /\ Len(acl_file) = 0
  OBVIOUS
<1>2. LinesRead(acl_file) = {0}
  BY <1>1, AclAssumption DEF LinesRead
<1>3. Loaded(0)
  BY <1>2 DEF Loaded
<1>4. Distinct(list) /\ \A i \in DOMAIN list : Whole(list[i])
  BY <1>1 DEF Distinct
<1> QED
  BY <1>1, <1>3, <1>4 DEF AclInv

\* The file is read.
LEMMA ReadKeeps == ASSUME AclInv, acl_deserialize PROVE AclInv'
<1>1. PICK f \in Files : /\ acl_file' = f
                         /\ \E n \in LinesRead(f) :
                              /\ \A m \in LinesRead(f) : m <= n
                              /\ acl' = [i \in 1..n |-> [jid |-> jid_struct(f[i].text),
                                                         role |-> f[i].role]]
  BY DEF acl_deserialize
<1>2. PICK n \in LinesRead(f) :
         /\ \A m \in LinesRead(f) : m <= n
         /\ acl' = [i \in 1..n |-> [jid |-> jid_struct(f[i].text), role |-> f[i].role]]
  BY <1>1
<1>3. acl' = [i \in 1..n |-> EntryOf(acl_file'[i])]
  BY <1>1, <1>2 DEF EntryOf
<1>4. f \in Seq(Lines) /\ n \in Nat
  <2>1. f \in Seq(Lines)
    BY AclAssumption DEF Lines
  <2> QED
    BY <2>1 DEF LinesRead
<1>5. /\ n \in LinesRead(acl_file') /\ \A m \in LinesRead(acl_file') : m <= n
      /\ acl_file' \in Seq(Lines)
  BY <1>1, <1>2, <1>4
<1>6. Loaded(n)'
  BY <1>3, <1>5 DEF Loaded, EntryOf, LinesRead, Good, Valid, jid_struct
<1>7. reloading' = FALSE /\ UNCHANGED <<default_role, list, plain, asked>>
  BY DEF acl_deserialize
<1>8. plain' => Distinct(list') /\ \A i \in DOMAIN list' : Whole(list'[i])
  BY <1>7 DEF AclInv
<1> QED
  BY <1>4, <1>5, <1>6, <1>7, <1>8 DEF AclInv, Distinct, Whole, SameUser, NoChar, Free

\* The access control list stays what the file gave.
LEMMA LoadedStays ==
    ASSUME AclInv, acl' = acl, acl_file' = acl_file
    PROVE  acl_file' \in Seq(Lines) /\ \E n \in Nat : Loaded(n)'
<1>1. PICK n \in Nat : Loaded(n)
  BY DEF AclInv
<1>2. /\ n \in LinesRead(acl_file') /\ \A m \in LinesRead(acl_file') : m <= n
      /\ acl' = [i \in 1..n |-> EntryOf(acl_file'[i])]
  BY <1>1 DEF Loaded
<1>3. Loaded(n)'
  BY <1>2 DEF Loaded, EntryOf, LinesRead, Good, Valid, jid_struct
<1>4. acl_file' \in Seq(Lines)
  BY DEF AclInv
<1> QED
  BY <1>3, <1>4

\* Steps that leave the access control list and the list of addresses alone.
LEMMA AclIdle ==
    ASSUME AclInv, UNCHANGED <<acl, acl_file, list, plain>>, default_role' \in Roles,
           reloading' \in BOOLEAN, asked'.role \in Roles \cup {NoRole}
    PROVE  AclInv'
<1>2. acl_file' \in Seq(Lines) /\ \E n \in Nat : Loaded(n)'
  BY LoadedStays
<1>3. plain' => Distinct(list') /\ \A i \in DOMAIN list' : Whole(list'[i])
  BY DEF AclInv
<1> QED
  BY <1>2, <1>3 DEF AclInv, Distinct, Whole, SameUser, NoChar, Free

\* Steps that change the list of addresses.
LEMMA ListBy ==
    ASSUME AclInv, UNCHANGED <<default_role, acl, acl_file, asked, reloading>>,
           NEW l \in Seq(Entries), list' = l, plain' \in BOOLEAN,
           plain' => Distinct(l) /\ \A i \in DOMAIN l : Whole(l[i])
    PROVE  AclInv'
<1>2. acl_file' \in Seq(Lines) /\ \E n \in Nat : Loaded(n)'
  BY LoadedStays
<1> QED
  BY <1>2 DEF AclInv, Distinct, Whole, SameUser, NoChar, Free

\* What was distinct stays distinct without one entry.
LEMMA WithoutKeeps ==
    ASSUME list \in Seq(Entries), NEW i \in 1..Len(list)
    PROVE  /\ Distinct(list) => Distinct(Without(i))
           /\ (\A j \in DOMAIN list : Whole(list[j])) =>
                 \A j \in DOMAIN Without(i) : Whole(Without(i)[j])
<1> DEFINE w == Without(i)
           n == Len(list)
           From(j) == IF j < i THEN j ELSE j + 1
<1>1. /\ w \in Seq(Entries) /\ Len(w) = n - 1 /\ n \in Nat /\ DOMAIN list = 1..n
      /\ \A j \in 1..n - 1 : w[j] = IF j < i THEN list[j] ELSE list[j + 1]
  BY WithoutIs
<1> HIDE DEF w
<1>2. DOMAIN w = 1..n - 1
  BY <1>1
<1> HIDE DEF n
<1>3. \A j \in 1..n - 1 : From(j) \in 1..n /\ w[j] = list[From(j)]
  BY <1>1
<1>4. \A j, k \in 1..n - 1 : From(j) = From(k) => j = k
  BY <1>1
<1> HIDE DEF From
<1>5. Distinct(list) => Distinct(w)
  BY <1>1, <1>2, <1>3, <1>4 DEF Distinct
<1>6. (\A j \in DOMAIN list : Whole(list[j])) => \A j \in DOMAIN w : Whole(w[j])
  BY <1>1, <1>2, <1>3
<1> QED
  BY <1>5, <1>6 DEF w

\* A new user is appended.
LEMMA AppendKeeps ==
    ASSUME NEW w \in Seq(Entries), NEW e \in Entries
    PROVE  /\ Append(w, e) \in Seq(Entries)
           /\ (Distinct(w) /\ \A j \in DOMAIN w : ~SameUser(w[j], e)) =>
                 Distinct(Append(w, e))
           /\ (Whole(e) /\ \A j \in DOMAIN w : Whole(w[j])) =>
                 \A j \in DOMAIN Append(w, e) : Whole(Append(w, e)[j])
<1> DEFINE l == Append(w, e)
           n == Len(w)
<1>1. /\ l \in Seq(Entries) /\ Len(l) = n + 1 /\ l[n + 1] = e /\ n \in Nat
      /\ \A j \in 1..n : l[j] = w[j]
  BY AppendProperties
<1> HIDE DEF l
<1>2. DOMAIN l = 1..n + 1 /\ DOMAIN w = 1..n
  BY <1>1
<1> HIDE DEF n
<1>3. \A j \in 1..n + 1 : j \in 1..n \/ j = n + 1
  BY <1>1
<1>4. \A a, b : SameUser(a, b) => SameUser(b, a)
  BY DEF SameUser
<1>5. (Distinct(w) /\ \A j \in DOMAIN w : ~SameUser(w[j], e)) => Distinct(l)
  BY <1>1, <1>2, <1>3, <1>4 DEF Distinct
<1>6. (Whole(e) /\ \A j \in DOMAIN w : Whole(w[j])) => \A j \in DOMAIN l : Whole(l[j])
  BY <1>1, <1>2, <1>3
<1> QED
  BY <1>1, <1>5, <1>6 DEF l

\* The entries that a request for an address finds.
LEMMA FoundIs ==
    ASSUME AclInv, NEW jid
    PROVE  affiliations_find_by_jid(jid) = {i \in 1..Len(list) : SameUser(list[i], jid)}
<1>1. DOMAIN list = 1..Len(list)
  BY DEF AclInv
<1> QED
  BY <1>1, CmpUser DEF affiliations_find_by_jid

\* The affiliation of an address is set.
LEMMA AddKeeps ==
    ASSUME AclInv, NEW text \in Targets, affiliationss_add(text)
    PROVE  AclInv'
<1> DEFINE jid == jid_struct(text)
           found == affiliations_find_by_jid(jid)
           copy == jid_set(jid, {"node", "host"})
<1>1. /\ Valid(jid)
      /\ \/ found = {} /\ list' = Append(list, copy)
         \/ found # {} /\ list' = Append(Without(Smallest(found)), copy)
      /\ plain' = (plain /\ ~Blank(jid.node))
      /\ UNCHANGED <<default_role, acl, reloading, acl_file, asked>>
  BY DEF affiliationss_add
<1>2. /\ Bare(copy) /\ Valid(copy) /\ copy.host = jid.host
      /\ ~Blank(jid.node) => copy.node = jid.node /\ Whole(copy)
  BY <1>1, GivenTexts, CopyIsEntry
<1>3. found = {i \in 1..Len(list) : SameUser(list[i], jid)}
  BY FoundIs
<1>4. list \in Seq(Entries) /\ DOMAIN list = 1..Len(list) /\ Len(list) \in Nat
  BY DEF AclInv
<1>5. copy \in Entries
  BY <1>2 DEF Entries, Bare
<1> HIDE DEF jid, found, copy
<1>6. ASSUME plain'
      PROVE  /\ Distinct(list) /\ \A i \in DOMAIN list : Whole(list[i])
             /\ Whole(copy) /\ \A a : SameUser(a, copy) <=> SameUser(a, jid)
  <2>1. plain /\ ~Blank(jid.node)
    BY <1>1, <1>6
  <2>2. copy.node = jid.node /\ copy.host = jid.host /\ Whole(copy)
    BY <1>2, <2>1
  <2> QED
    BY <2>1, <2>2 DEF AclInv, SameUser
<1>7. CASE found = {}
  <2>1. list' = Append(list, copy)
    BY <1>1, <1>7
  <2>2. Append(list, copy) \in Seq(Entries)
    BY <1>4, <1>5, AppendKeeps
  <2>3. ASSUME plain'
        PROVE  /\ Distinct(Append(list, copy))
               /\ \A j \in DOMAIN Append(list, copy) : Whole(Append(list, copy)[j])
    <3>1. \A j \in DOMAIN list : ~SameUser(list[j], copy)
      BY <1>3, <1>4, <1>6, <1>7, <2>3
    <3> QED
      BY <1>4, <1>5, <1>6, <2>3, <3>1, AppendKeeps
  <2>4. plain' \in BOOLEAN
    BY <1>1 DEF AclInv
  <2> DEFINE l == Append(list, copy)
  <2>5. l \in Seq(Entries) /\ list' = l
        /\ (plain' => Distinct(l) /\ \A i \in DOMAIN l : Whole(l[i]))
    BY <2>1, <2>2, <2>3
  <2> HIDE DEF l
  <2> QED
    BY <1>1, <2>4, <2>5, ListBy
<1>8. CASE found # {}
  <2> DEFINE i == Smallest(found)
             w == Without(i)
  <2>1. list' = Append(w, copy)
    BY <1>1, <1>8
  <2>2. i \in found /\ i \in 1..Len(list)
    <3>1. found \subseteq Nat
      BY <1>3, <1>4
    <3> QED
      BY <1>3, <1>8, <3>1, SmallestIs
  <2> HIDE DEF i
  <2>3. /\ w \in Seq(Entries) /\ Len(w) = Len(list) - 1
        /\ \A j \in 1..Len(list) - 1 : w[j] = IF j < i THEN list[j] ELSE list[j + 1]
        /\ Distinct(list) => Distinct(w)
        /\ (\A j \in DOMAIN list : Whole(list[j])) => \A j \in DOMAIN w : Whole(w[j])
    BY <1>4, <2>2, WithoutIs, WithoutKeeps
  <2> HIDE DEF w
  <2>4. Append(w, copy) \in Seq(Entries)
    BY <1>5, <2>3, AppendKeeps
  <2>5. ASSUME plain'
        PROVE  /\ Distinct(Append(w, copy))
               /\ \A j \in DOMAIN Append(w, copy) : Whole(Append(w, copy)[j])
    <3>1. ASSUME NEW j \in DOMAIN w, SameUser(w[j], copy) PROVE FALSE
      <4>1. j \in 1..Len(list) - 1
        BY <1>4, <2>3
      <4>2. PICK k \in 1..Len(list) : k # i /\ w[j] = list[k]
        <5>1. CASE j < i
          <6>1. j \in 1..Len(list) /\ j # i /\ w[j] = list[j]
            BY <1>4, <2>2, <2>3, <4>1, <5>1
          <6> QED
            BY <6>1
        <5>2. CASE ~(j < i)
          <6>1. j + 1 \in 1..Len(list) /\ j + 1 # i /\ w[j] = list[j + 1]
            BY <1>4, <2>2, <2>3, <4>1, <5>2
          <6> QED
            BY <6>1
        <5> QED
          BY <5>1, <5>2
      <4>3. SameUser(list[k], jid) /\ SameUser(list[i], jid)
        BY <1>3, <1>6, <2>2, <2>5, <3>1, <4>2
      <4>4. SameUser(list[k], list[i])
        BY <4>3 DEF SameUser
      <4> QED
        BY <1>4, <1>6, <2>2, <2>5, <4>2, <4>4 DEF Distinct
    <3> QED
      BY <1>5, <1>6, <2>3, <2>5, <3>1, AppendKeeps
  <2>6. plain' \in BOOLEAN
    BY <1>1 DEF AclInv
  <2> DEFINE l == Append(w, copy)
  <2>7. l \in Seq(Entries) /\ list' = l
        /\ (plain' => Distinct(l) /\ \A k \in DOMAIN l : Whole(l[k]))
    BY <2>1, <2>4, <2>5
  <2> HIDE DEF l
  <2> QED
    BY <1>1, <2>6, <2>7, ListBy
<1> QED
  BY <1>7, <1>8

\* The affiliation of an address is set to none.
LEMMA RemoveKeeps ==
    ASSUME AclInv, NEW text \in Targets, RemoveEntry(text)
    PROVE  AclInv'
<1> DEFINE found == affiliations_find_by_jid(jid_struct(text))
           i == Smallest(found)
           l == Without(i)
<1>1. /\ found # {} /\ list' = l
      /\ UNCHANGED <<default_role, acl, reloading, acl_file, plain, asked>>
  BY DEF RemoveEntry
<1>2. found = {k \in 1..Len(list) : SameUser(list[k], jid_struct(text))}
  BY FoundIs
<1>3. list \in Seq(Entries) /\ Len(list) \in Nat
  BY DEF AclInv
<1> HIDE DEF found
<1>4. i \in 1..Len(list)
  <2>1. found \subseteq Nat
    BY <1>2, <1>3
  <2>2. i \in found
    BY <1>1, <2>1, SmallestIs
  <2> QED
    BY <1>2, <2>2
<1> HIDE DEF i
<1>5. /\ l \in Seq(Entries)
      /\ Distinct(list) => Distinct(l)
      /\ (\A j \in DOMAIN list : Whole(list[j])) => \A j \in DOMAIN l : Whole(l[j])
  BY <1>3, <1>4, WithoutIs, WithoutKeeps
<1> HIDE DEF l
<1>6. plain' => Distinct(l) /\ \A j \in DOMAIN l : Whole(l[j])
  BY <1>1, <1>5 DEF AclInv
<1>7. plain' \in BOOLEAN
  BY <1>1 DEF AclInv
<1> QED
  BY <1>1, <1>5, <1>6, <1>7, ListBy

\* What a restart reads back.
LEMMA BackList ==
    ASSUME AclInv, \A i \in DOMAIN list : Valid(jid_struct(Text(list[i])))
    PROVE  LET l == [i \in DOMAIN list |-> jid_struct(Text(list[i]))] IN
           l \in Seq(Entries) /\ (plain => l = list)
<1> DEFINE Back(i) == jid_struct(Text(list[i]))
           n == Len(list)
           l == [i \in DOMAIN list |-> Back(i)]
<1>1. list \in Seq(Entries) /\ DOMAIN list = 1..n /\ n \in Nat
  BY DEF AclInv
<1>2. ASSUME NEW i \in 1..n
      PROVE  Back(i) \in Entries /\ (plain => Back(i) = list[i])
  <2>1. Bare(list[i])
    BY <1>1 DEF Entries
  <2>2. Bare(Back(i)) /\ Valid(Back(i))
    BY <1>1, <2>1, BackIsEntry
  <2>3. Back(i) \in Entries
    BY <2>2 DEF Entries, Bare
  <2>4. plain => Back(i) = list[i]
    BY <1>1, <2>1, TextBack DEF AclInv
  <2> QED
    BY <2>3, <2>4
<1> HIDE DEF Back, n
<1>3. l \in Seq(Entries)
  BY <1>1, <1>2
<1>4. plain => l = list
  BY <1>1, <1>2
<1> QED
  BY <1>3, <1>4 DEF Back

\* A restart: the list of addresses is written and read, the access control
\* list is empty until its file is found.
LEMMA RestartsKeep ==
    ASSUME AclInv, Restart
    PROVE  AclInv'
<1> DEFINE l == [i \in DOMAIN list |-> jid_struct(Text(list[i]))]
<1>1. /\ \A i \in DOMAIN list : Valid(jid_struct(Text(list[i])))
      /\ list' = l
      /\ default_role' \in Roles /\ acl' = <<>> /\ reloading' = FALSE
      /\ acl_file' = <<>> /\ UNCHANGED <<plain, asked>>
  BY DEF Restart
<1>2. l \in Seq(Entries) /\ (plain => l = list)
  BY <1>1, BackList
<1> HIDE DEF l
<1>3. Loaded(0)'
  <2>1. acl_file' = <<>> /\ Len(<<>>) = 0 /\ Limit \in Nat
    BY <1>1, AclAssumption
  <2>2. LinesRead(acl_file') = {0}
    BY <2>1 DEF LinesRead
  <2>3. /\ 0 \in LinesRead(acl_file') /\ \A m \in LinesRead(acl_file') : m <= 0
        /\ acl' = [i \in 1..0 |-> EntryOf(acl_file'[i])]
    BY <1>1, <2>2
  <2> QED
    BY <2>3 DEF Loaded, EntryOf, LinesRead, Good, Valid, jid_struct
<1>4. acl_file' \in Seq(Lines)
  BY <1>1
<1>5. plain' => Distinct(list') /\ \A i \in DOMAIN list' : Whole(list'[i])
  BY <1>1, <1>2 DEF AclInv
<1>6. plain' \in BOOLEAN /\ list' \in Seq(Entries) /\ asked'.role \in Roles \cup {NoRole}
  BY <1>1, <1>2 DEF AclInv
<1> QED
  BY <1>1, <1>3, <1>4, <1>5, <1>6 DEF AclInv, Distinct, Whole, SameUser, NoChar, Free

\* A sender is looked up.
LEMMA AskKeeps ==
    ASSUME AclInv, NEW text, Ask(text)
    PROVE  AclInv'
<1>1. /\ asked' = [text |-> text,
                   role |-> IF Valid(jid_struct(text)) THEN acl_role(jid_struct(text))
                            ELSE NoRole]
      /\ UNCHANGED <<default_role, acl, reloading, list, acl_file, plain>>
  BY DEF Ask
<1>2. asked'.role \in Roles \cup {NoRole}
  BY <1>1, RoleTyped
<1> QED
  BY <1>1, <1>2, AclIdle DEF AclInv

\* Every action keeps both lists.
LEMMA AclStep == AclInv /\ [NextAcl]_aclvars => AclInv'
<1> SUFFICES ASSUME AclInv, [NextAcl]_aclvars PROVE AclInv'
  OBVIOUS
<1>1. CASE apply_config
  BY <1>1, AclIdle DEF apply_config, AclInv
<1>2. CASE acl_deserialize
  BY <1>2, ReadKeeps
<1>3. CASE Unreadable
  BY <1>3, AclIdle DEF Unreadable, AclInv
<1>4. CASE Restart
  BY <1>4, RestartsKeep
<1>5. CASE \E text \in Senders : Ask(text)
  BY <1>5, AskKeeps
<1>6. CASE \E text \in Targets : affiliationss_add(text) \/ RemoveEntry(text)
  BY <1>6, AddKeeps, RemoveKeeps
<1>7. CASE UNCHANGED aclvars
  BY <1>7, AclIdle DEF aclvars, AclInv
<1> QED
  BY <1>1, <1>2, <1>3, <1>4, <1>5, <1>6, <1>7 DEF NextAcl

\* The invariant of both lists.
LEMMA AclAlways == AclSpec => []AclInv
BY AclInit, AclStep, PTL DEF AclSpec

---------------------------------------------------------------------------
(* Both files.                                                             *)

\* A part of a text in lower case is a text.
LEMMA FoldIsText ==
    ASSUME NEW part \in Texts
    PROVE  Fold(part) # Null
<1>1. part # Null /\ Len(part) \in Nat /\ \A i \in 1..Len(part) : part[i] \in Chars
  BY NullIsNoText DEF Texts
<1>2. \A c \in Chars : Folded(c) \in Chars
  BY DEF Folded, Chars, Upper, Lower
<1>3. Fold(part) = [i \in 1..Len(part) |-> Folded(part[i])]
  BY <1>1 DEF Fold
<1>4. Fold(part) \in Texts
  BY <1>1, <1>2, <1>3 DEF Texts
<1> QED
  BY <1>4, NullIsNoText

\* jid_struct refuses what is no address.
LEMMA ValidIsAddress ==
    ASSUME NEW text \in Texts
    PROVE  Valid(jid_struct(text)) <=> IsAddress(text)
<1> DEFINE j == jid_struct(text)
<1>1. j = Address(text) /\ j \in Jids
  BY JidIsAddress, JidTyped
<1> HIDE DEF j
<1>2. j.host \in Texts /\ j.host # Null
  BY <1>1, NullIsNoText DEF Jids
<1>3. Size(j.host) = Len(j.host) /\ (Len(j.host) > 0 <=> j.host # <<>>)
  BY <1>2 DEF Size, Texts
<1>4. IsAddress(text) <=>
         /\ j.host # <<>>
         /\ \A part \in {j.node, j.host, j.resource} : Size(part) <= MaxPart
  BY <1>1 DEF IsAddress
<1> QED
  BY <1>3, <1>4 DEF Valid, j

\* jid_cmp, with the entry of a line, finds who the line is about.
LEMMA EntryCovers ==
    ASSUME NEW line \in Lines, NEW text \in Texts
    PROVE  jid_cmp(EntryOf(line).jid, jid_struct(text), JID_FULL \cup {"nullwc"})
             <=> Covers(line, text)
<1> DEFINE l == jid_struct(line.text)
           s == jid_struct(text)
<1>1. line.text \in Texts
  BY StringIsText DEF Lines
<1>2. l = Address(line.text) /\ s = Address(text) /\ l \in Jids /\ s \in Jids
  BY <1>1, JidIsAddress, JidTyped
<1>3. EntryOf(line).jid = l
  BY EntryIs
<1> HIDE DEF l, s
<1>4. jid_cmp(l, s, JID_FULL \cup {"nullwc"}) <=>
        /\ l.node = Null \/ Fold(l.node) = Fold(s.node)
        /\ Fold(l.host) = Fold(s.host)
        /\ l.resource = Null \/ l.resource = s.resource
  BY CmpWild
<1>5. Covers(line, text) <=>
        /\ Fold(l.host) = Fold(s.host)
        /\ l.node = Null \/ (s.node # Null /\ Fold(l.node) = Fold(s.node))
        /\ l.resource \in {Null, s.resource}
  BY <1>2 DEF Covers
<1>6. l.node # Null /\ Fold(l.node) = Fold(s.node) => s.node # Null
  <2>1. l.node \in Texts \cup {Null}
    BY <1>2 DEF Jids, Parts
  <2>2. l.node # Null => Fold(l.node) # Null
    BY <2>1, FoldIsText
  <2>3. s.node = Null => Fold(s.node) = Null
    BY DEF Fold
  <2> QED
    BY <2>2, <2>3
<1> QED
  BY <1>3, <1>4, <1>5, <1>6 DEF s

\* The list holds the lines of the file that precede the first malformed one.
LEMMA LinesAreGiven ==
    ASSUME AclInv, NEW n \in Nat, Loaded(n)
    PROVE  LinesGiven = 1..n
<1>1. /\ acl_file \in Seq(Lines) /\ n \in LinesRead(acl_file)
      /\ \A m \in LinesRead(acl_file) : m <= n
  BY DEF AclInv, Loaded
<1>2. Len(acl_file) \in Nat /\ \A j \in 1..Len(acl_file) : acl_file[j] \in Lines
  BY <1>1
<1>3. ASSUME NEW j \in 1..Len(acl_file)
      PROVE  Good(acl_file[j]) <=> acl_file[j].role # NoRole /\ IsAddress(acl_file[j].text)
  <2>1. acl_file[j].text \in Texts
    BY <1>2, StringIsText DEF Lines
  <2> QED
    BY <2>1, ValidIsAddress DEF Good
<1>4. ASSUME NEW i \in 1..Len(acl_file)
      PROVE  i \in LinesGiven <=> i \in LinesRead(acl_file)
  <2>1. 1..i \subseteq 1..Len(acl_file) /\ i \in 0..Len(acl_file)
    BY <1>2
  <2>2. i \in LinesGiven <=>
          i <= Limit /\ \A j \in 1..i : acl_file[j].role # NoRole /\ IsAddress(acl_file[j].text)
    BY DEF LinesGiven
  <2>3. i \in LinesRead(acl_file) <=> i <= Limit /\ \A j \in 1..i : Good(acl_file[j])
    BY <2>1 DEF LinesRead
  <2> QED
    BY <1>3, <2>1, <2>2, <2>3
<1>5. LinesGiven \subseteq 1..Len(acl_file)
  BY DEF LinesGiven
<1>6. n \in 0..Len(acl_file) /\ n <= Limit /\ \A j \in 1..n : Good(acl_file[j])
  BY <1>1 DEF LinesRead
<1>7. ASSUME NEW i \in 1..n PROVE i \in LinesGiven
  <2>1. i \in 1..Len(acl_file) /\ i \in 0..Len(acl_file) /\ i <= Limit /\ 1..i \subseteq 1..n
    BY <1>2, <1>6, AclAssumption
  <2>2. i \in LinesRead(acl_file)
    BY <1>6, <2>1 DEF LinesRead
  <2> QED
    BY <1>4, <2>1, <2>2
<1>8. ASSUME NEW i \in LinesGiven PROVE i \in 1..n
  <2>1. i \in 1..Len(acl_file) /\ i \in LinesRead(acl_file)
    BY <1>4, <1>5
  <2>2. i <= n
    BY <1>1, <2>1
  <2> QED
    BY <1>2, <2>1, <2>2
<1> QED
  BY <1>7, <1>8

\* Whoever asks gets the role of the first line about him.
LEMMA RoleIs ==
    ASSUME AclInv, NEW text \in Texts
    PROVE  LET covering == {i \in LinesGiven : Covers(acl_file[i], text)} IN
           acl_role(jid_struct(text)) =
             IF covering = {} THEN default_role ELSE acl_file[Smallest(covering)].role
<1> DEFINE Matches(i) == jid_cmp(acl[i].jid, jid_struct(text), JID_FULL \cup {"nullwc"})
           matches == {i \in DOMAIN acl : Matches(i)}
           covering == {i \in LinesGiven : Covers(acl_file[i], text)}
<1>1. PICK n \in Nat : Loaded(n)
  BY DEF AclInv
<1>2. /\ DOMAIN acl = 1..n /\ LinesGiven = 1..n
      /\ \A i \in 1..n : acl[i] = EntryOf(acl_file[i]) /\ acl_file[i] \in Lines
  BY <1>1, AclIs, LinesAreGiven
<1>3. ASSUME NEW i \in 1..n
      PROVE  Matches(i) <=> Covers(acl_file[i], text)
  BY <1>2, EntryCovers
<1>4. acl_role(jid_struct(text)) =
        IF matches = {} THEN default_role ELSE acl[Smallest(matches)].role
  BY DEF acl_role
<1> HIDE DEF Matches
<1>5. matches = covering /\ matches \subseteq 1..n
  BY <1>2, <1>3
<1> HIDE DEF matches
<1>6. ASSUME matches # {}
      PROVE  acl[Smallest(matches)].role = acl_file[Smallest(matches)].role
  <2>1. matches \subseteq Nat
    BY <1>5
  <2>2. Smallest(matches) \in 1..n
    BY <1>5, <1>6, <2>1, SmallestIs
  <2>3. acl[Smallest(matches)] = EntryOf(acl_file[Smallest(matches)])
    BY <1>2, <2>2
  <2> QED
    BY <2>3, EntryIs
<1> HIDE DEF covering
<1>7. acl_role(jid_struct(text)) =
        IF covering = {} THEN default_role ELSE acl_file[Smallest(covering)].role
  BY <1>4, <1>5, <1>6
<1> QED
  BY <1>7 DEF covering

\* What it says of types and limits,
LEMMA AclTyped == AclInv => AclTypeOK
<1> SUFFICES ASSUME AclInv PROVE AclTypeOK
  OBVIOUS
<1>1. PICK n \in Nat : Loaded(n)
  BY DEF AclInv
<1>2. /\ DOMAIN acl = 1..n /\ Len(acl) = n /\ n <= Limit
      /\ \A i \in 1..n : /\ acl[i] = EntryOf(acl_file[i])
                         /\ Good(acl_file[i]) /\ acl_file[i].role \in Roles
  BY <1>1, AclIs
<1>3. \A i \in 1..n : Valid(acl[i].jid) /\ acl[i].role \in Roles
  BY <1>2, EntryIs DEF Good
<1>4. \A i \in DOMAIN list : Valid(list[i]) /\ list[i].resource = Null
  BY DEF AclInv, Entries, Bare
<1> QED
  BY <1>2, <1>3, <1>4 DEF AclInv, AclTypeOK

\* and of addresses.
LEMMA AclHolds == AclInv => AddressesHold
<1> SUFFICES ASSUME AclInv PROVE AddressesHold
  OBVIOUS
<1>1. EntriesDistinct
  BY DEF AclInv, EntriesDistinct, Distinct, SameUser
<1>2. ASSUME plain, NEW i \in DOMAIN list
      PROVE  Valid(jid_struct(Text(list[i]))) /\ jid_struct(Text(list[i])) = list[i]
  <2>1. Bare(list[i]) /\ Valid(list[i]) /\ Whole(list[i])
    BY <1>2 DEF AclInv, Entries
  <2>2. jid_struct(Text(list[i])) = list[i]
    BY <2>1, TextBack
  <2> QED
    BY <2>1, <2>2
<1>3. RestartKeeps
  BY <1>2 DEF RestartKeeps
<1> QED
  BY <1>1, <1>3 DEF AddressesHold

\* Only a stanza looks a sender up.
LEMMA AskedStep ==
    AclInv /\ [NextAcl]_aclvars =>
      (asked' # asked => \E text \in Senders : Ask(text))
BY DEF NextAcl, apply_config, acl_deserialize, Unreadable, Restart, affiliationss_add,
       RemoveEntry, aclvars

\* And then the answer is that of the first line about him.
LEMMA RoleStep ==
    AclInv /\ [NextAcl]_aclvars =>
      (asked' # asked =>
         LET covering == {i \in LinesGiven : Covers(acl_file[i], asked'.text)} IN
         asked'.role = CASE ~IsAddress(asked'.text) -> NoRole
                         [] IsAddress(asked'.text) /\ covering = {} -> default_role
                         [] IsAddress(asked'.text) /\ covering # {} ->
                               acl_file[Smallest(covering)].role)
<1> SUFFICES ASSUME AclInv, [NextAcl]_aclvars, asked' # asked
             PROVE  LET covering == {i \in LinesGiven : Covers(acl_file[i], asked'.text)} IN
                    asked'.role =
                      CASE ~IsAddress(asked'.text) -> NoRole
                        [] IsAddress(asked'.text) /\ covering = {} -> default_role
                        [] IsAddress(asked'.text) /\ covering # {} ->
                              acl_file[Smallest(covering)].role
  OBVIOUS
<1>1. PICK text \in Senders : Ask(text)
  BY AskedStep
<1>2. /\ asked'.text = text
      /\ asked'.role = IF Valid(jid_struct(text)) THEN acl_role(jid_struct(text)) ELSE NoRole
  BY <1>1 DEF Ask
<1>3. text \in Texts
  BY GivenTexts
<1>4. Valid(jid_struct(text)) <=> IsAddress(text)
  BY <1>3, ValidIsAddress
<1> DEFINE covering == {i \in LinesGiven : Covers(acl_file[i], text)}
<1>5. acl_role(jid_struct(text)) =
        IF covering = {} THEN default_role ELSE acl_file[Smallest(covering)].role
  BY <1>3, RoleIs
<1> HIDE DEF covering
<1>6. asked'.role = CASE ~IsAddress(text) -> NoRole
                      [] IsAddress(text) /\ covering = {} -> default_role
                      [] IsAddress(text) /\ covering # {} -> acl_file[Smallest(covering)].role
  BY <1>2, <1>4, <1>5
<1> QED
  BY <1>2, <1>6 DEF covering

\* A step of the two files is a step of one of them.
LEMMA FilesAreBoth == FilesSpec => Spec /\ AclSpec
<1>1. FilesInit => Init /\ InitAcl
  BY DEF FilesInit
<1>2. [FilesNext]_<<vars, aclvars>> => [Next]_vars /\ [NextAcl]_aclvars
  BY DEF FilesNext
<1> QED
  BY <1>1, <1>2, PTL DEF FilesSpec, Spec, AclSpec

\* Types and limits, of the data file and its lists (src/src/room/rooms.c,
\* src/src/affiliation/) and of the access control list, whose entries and
\* those of a list of affiliations are always addresses (src/src/acl.c).
THEOREM FilesTypeCorrect == FilesSpec => []FilesTypeOK
BY FilesAreBoth, PersistenceTypeCorrect, AclAlways, AclTyped, PTL DEF FilesTypeOK

\* A list of affiliations keeps one entry for a user, however the requests
\* spell him, and what it writes at its end it reads at the next start
\* (src/src/affiliation/affiliations.c, src/src/jid.c): for addresses of any
\* length in any characters.
THEOREM AddressesAlwaysHold == FilesSpec => []AddressesHold
BY FilesAreBoth, AclAlways, AclHolds, PTL

\* A sender is given the role of the first line of the ACL file that covers
\* him (src/src/acl.c: acl_role), whatever the file holds and wherever the
\* reload stopped reading it.
THEOREM AlwaysRoleOfFirstLine == FilesSpec => RoleOfFirstLine
BY FilesAreBoth, AclAlways, RoleStep, PTL DEF RoleOfFirstLine, AclSpec
===========================================================================
