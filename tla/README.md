# Mukite in TLA+

Mukite is an XMPP multi-user chat component: a process with a reader thread, a
writer thread, a pool of workers, a timer thread and a main thread that runs
signal handlers. These modules model its threads and queues, its rooms and the
files it keeps across restarts. TLC checks them on small instances, and TLAPS
proves every safety property of the passing runs for every value of the
constants.

Every definition of a module is translated from the code; `PROJECT.json` lists
the lines under `map`, the runs, the hazards they are aimed at, and what was
found.

## The system

    server --> reader --> stanza queue --> workers --> ring buffer --> writer --> server
                                             |  |
                         ACL (SIGHUP) -------+  +--- table of rooms --- rooms
                                                          |
                              signal handlers -------- data file

| component | state it keeps | operations | hard behaviour |
|---|---|---|---|
| stanza queue (`xmcomp/src/queue.c`) | two linked lists of blocks, two mutexes and condition variables | `queue_pop_free`, `queue_push_data`, `queue_pop_data`, `queue_push_free` | pushes and pops of many threads, one signal per push, no free block |
| reader (`reader.c`) | circular network buffer, the block in hand | `reader_thread_entry`, `get_continuous_block`, `realloc_ring_buffer` | wrap-around, resizing, stanzas that do not fit |
| worker pool (`worker.c`, `mukite.c`) | `worker_threads.size`, `enabled` of every slot | `apply_config`, `worker_thread_entry`, `worker_send` | reload while workers sleep |
| ring buffer (`ringbuffer.c`) | positions, `data_size`, `online` | `ringbuffer_write`, `_get_chunk`, `_release_chunk`, `_offline`, `_clear` | wrap-around, full buffer, loads and stores without the mutex |
| writer (`writer.c`) | the chunk it sends | `writer_thread_entry` | short sends, errors, the end of the session |
| main and signals (`mukite.c`, `sighelper.c`) | `running`, thread handles | `main`, `terminate`, `reload_config`, `serialize_data` | order of shutdown, handlers between any two steps |
| room (`room/room.c`) | participants, configuration, lists, subject, history | `route_presence`, `route_iq`, `route_message`, `room_join`, `room_leave` | requests of several items that stop half way, senders who change their own rights |
| affiliations (`affiliation/`) | five lists of entries | `affiliationss_get_by_jid`, `affiliationss_add` | entries that move, copies held by participants |
| table of rooms (`room/rooms.c`) | hash of rooms | `rooms_process`, `rooms_create_room`, `rooms_destroy_room`, `rooms_serialize` | find, create and destroy by several workers, the serializer of a signal handler |
| ACL (`acl.c`) | list of JIDs and roles | `acl_role`, `acl_deserialize` | reload under users who are in |
| history, timer (`history_entry/`, `timer.c`) | list with limit, ticks | `history_entries_push`, `timer_thread_entry` | the list at its limit, the clock |
| persistence (`utss.h`, serializers) | data file | `serialize_data`, `deserialize_data` | truncation before writing, limits on both sides |
| scanner (`xmlfsm.c`) | none | `xmlfsm_skip_node` | distances of cells across a wrap |
| packets, builder (`packet.c`, `builder.c`) | none | `packet_parse`, `packet_cleanup`, `builder_build` | a header that is overwritten in place and written again |
| JIDs (`jid.c`, `buffer.h`) | none | `jid_struct`, `jid_cmp`, `jid_set`, serialization | missing and empty parts, case |
| services (`component.c`) | none | `component_process` | none |
| configuration, registered nicks, logger, mewcat | none that anything depends on | reading lines, output | none |

What should hold of each of them (where the code does not keep it, the
properties name the exception, and "Disagreements" below says why):

- the queue hands over every stanza once and in order, loses no block and leaves
  nobody asleep who has work to do;
- the reader hands over the stanzas of the stream, each cut off where it ends,
  however they arrive, and ends only of one that is too long;
- the ring buffer sends the bytes the workers wrote, each once and in order, and
  never reaches outside of its area;
- a session ends when the server goes, and the program when it is told to;
- in a room, nicks are unique, a user is on one list, roles go with
  affiliations, whoever lost the right to be in is out, and what the occupants
  were told adds up to the room. That affiliations are those of the lists fails:
  the lookup is not given the lists;
- a name has one room, and nobody uses a room that was freed. Both fail, and so
  does more after it: what holds is what `Rooms` says of one deletion;
- a request leads to one answer, a refusal does nothing else, and what is said
  in a room stays there; the history keeps its length. That messages keep their
  distance fails, and most answers of a room do not reach who asked;
- what is written to the file is complete and can be read again, addresses
  included, and owners stay owners: but for the exceptions named.

## The modules

| module | models | extends or instantiates |
|---|---|---|
| `Reader` | the reader's circular buffer and the scanner | |
| `StanzaChannel` | what the queue promises: a bounded first-in first-out channel | |
| `StanzaQueue` | the queue with reader, workers and the reload of the pool | instantiates `StanzaChannel` |
| `OutputStream` | what the ring buffer promises: a stream of bytes | |
| `RingBuffer` | the ring buffer with workers, writer thread and main | instantiates `OutputStream` |
| `Session` | all threads from connect to disconnect, signals, the server | |
| `Room` | one room: presences, administration, configuration | |
| `Rooms` | the table of rooms and the lifetime of its entries | |
| `GroupChat` | groupchat messages, subject, history, timer | |
| `Answers` | everything a worker does with one stanza | extends `GroupChat` |
| `Jid` | addresses as operators on texts | |
| `Acl` | the access control list and a list of addresses | extends `Jid` |
| `Persistence` | the data file across restarts | |
| `MC...` | symmetry, views and constant definitions for TLC | the module named; `MCGroupChat` extends `Answers`, `MCPersistence` both `Persistence` and `Acl` |
| `...Proofs` | theorems about the module named | the module named, `TLAPS`; `PersistenceProofs` extends `MCPersistence`, and so has both files |

How they compose: `StanzaQueue`, `RingBuffer` and `Reader` each have one buffer
in full detail and its neighbours as far as they call it; `Session` puts all
threads together with the buffers reduced to counters, for questions about who
waits for whom. `Answers` is `GroupChat` with every other kind of stanza, and
reduces `Room` to requests that succeed or are refused. `Room` has one name of
`Rooms`, and its ACL is a table of roles, which `Acl` derives from a file.

### Reader

Pointers are offsets into the cells of the buffer, so that a wrap, a piece that
ends anywhere and the distances `xmlfsm_skip_node` computes across the end of
the buffer are as in the code. The scanner is a recursive function over the
pending characters, of which there are as many kinds as it tells apart. A turn
of the outer loop is `Resize` or `KeepSize`, then `Take` for every complete
node, then `MakeRoom` or `Overflow`, then `Receive`. What is handed over is
compared with what the server sent.

Two faults put the reader out of step with the stream, and `confused` notes
them: a wrapped buffer that is filled to the last cell has `data = end` and
looks empty, and `realloc_ring_buffer` takes an empty or a wrapped buffer for
one of another length. A third is an empty node whose `/` and `>` are parted by
the end of the buffer, which is taken for an end tag. The properties say that
nothing else does. A stanza that wraps also gets a wrong size (`StanzaSize`):
`Faithful` says what its entry may then be. `StreamKept` is the type invariant
and `InStep`, both of which are about where the pointers are.

`small` is a history variable too: a buffer of `Enlarged` (1 MB) was asked for
while the thread has a smaller one, by a reload that came behind its look at the
size, or because `ResizeFails`, for want of memory. `DiesOnlyOfLength` names it.
`NodeAssumption` says which stanzas are sent: their first node is all of them.
That leaves out text outside of tags with an unescaped quote, which XML allows
and the scanner takes for the begin of a value (`xmlfsm.c:74-77`).

### StanzaQueue

A critical section of `queue.c` is one action, since each touches only what its
mutex protects. The next pointers are kept as in the code, and two history
variables, `dataQ` and `freeQ`, say what the lists should be; `ListsIntact`
compares them, and `QueueIntact` adds that every block is in one place.
`pthread_cond_wait` is a step that sleeps and a later one that tests again; a
signal wakes any one sleeper; sleepers also wake up for no reason.
`apply_config` switches slots and starts threads; `WorkerLoop` is the only place
where a worker sees that its slot is off. A stanza that does not fit leaves
`Dropped` in the block. `SlotsStaffed` says that a slot that is switched on has
a worker; it may have two.

### RingBuffer

The mutex is a variable, because `ringbuffer_get_chunk` loads `data_size` and
`online` without it and `ringbuffer_offline` and `ringbuffer_clear` store
without it; those loads and stores are actions of their own. `WriteCopy` and
`WriteAccount` split `ringbuffer_write` between the new position and the new
size, where an unlocked load can see the difference. Two outcomes of that load
depend on the build: `ReloadsSize` says whether `data_size` is loaded twice.
Released memory becomes `Junk`, so that sending it would show in `out`.

`OutputStream` says what comes of it for one connection: a byte is a worker and
its place in that worker's stanza, `Accept` appends the next bytes of the stanza
in hand and nothing else, and bytes are dropped once, by `Drop`, when the line
is down.

### Session

`main` is the call main is in or what it does next; a handler runs in main's
thread, between any two of its steps, and makes its `connect` or `recv` fail or
its `sleep` return. `TerminateReader` and `Kill` are the two steps of
`terminate` when there is a reader: the store of the flags and `pthread_kill`,
which interrupts a reader only while it is in `recv`; then the handler returns.
`peer` is what the kernel knows of the connection; a send on one that is
`broken` raises SIGPIPE.

`ReaderStart` installs the handler of SIGUSR2 (`armed`) and allocates the
network buffer. Without memory the thread ends there and leaves its flag up
(`reader.c:92-95`): `stale` notes it, until main raises the flag for the next. A
SIGUSR2 that comes before the first handler ends the process, and one without a
thread to go to may. `KillHasTarget` names the two states in which there is no
such thread.

The two liveness properties name what keeps an end from coming rather than
assume it away. `lost` is a SIGTERM that fell where nobody looks at a flag again
before a call that may last for ever; `Oversleeps` a writer that saw the flag
before main stored it and waits after main has signalled; `Starving` a reader
that waits for a block while all workers wait for space in the ring buffer,
which the writer of a dead connection no longer makes.

### Room

A handler is one action, except the two loops of `route_iq`, over `<item/>`s and
over the affected list: `phase` says where they are. That no other handler runs
meanwhile is what `room->sync` is for; that the code does not hold it is the
subject of `Rooms`. `view[c][n]` is what client `c` was last told about nick
`n`, the sum of all presences. Stanzas that are only bounced are not actions. A
search that could match several entries returns any of them.

The callers of `affiliationss_get_by_jid` cast `AffiliationsList[5]` to
`AffiliationsList **`, and the lookup does what that gives. Administrators of
the service are owners before any list is looked at. For everybody else it
dereferences NULL while nobody is banned, which ends the process, and otherwise
returns anything, since bytes of an entry are read as a list. So in every run
`ann` is an administrator by one of the ACLs, and bans somebody before others
can be in the room. The properties are those that hold all the same.

### Rooms

The table holds the rooms of one name. `rooms_process` is cut where its locks
are taken and released, where it reads the flag after the unlock, and inside of
`room_route`: `MarkDestroyed` sets the flag, and the stanzas that follow may
wait for space in the ring buffer. A `Room` that was destroyed is never given
back, only what it points to: a worker that is still in it reads its flag, and
dies, or not, of a stanza it routes there (`RouteFaults`).

`Delete` is the first `HASHS_DEL` of a room and `DeleteAgain` a second, by
another worker, with links that were left as they were: the process dies, or the
table is anything. `deleted`, `twice` and `overlapped` are history.
`TableHasTheLive` is about a table no room was deleted from twice, and
`FaultsNeedOverlap` says what it takes to get beyond: two workers that held one
room at the same time.

### GroupChat

The groupchat branch of `route_message`, with `ticks` set by the timer thread:
it counts, and is set from the wall clock now and then, which may have been set
back. `min_message_interval` is 0, as the code has it; `Documented` is the
interval of the configuration. A room begins as `room_init` leaves it or with
history entries loaded from a file, each counted twice.

### Answers

What a worker does with a stanza and what it sends for it, in one step: `got` is
the stanza handled last, `sent` what came of it. A stanza has a name, a type
that is known, missing or not, a sender, an address and a kind of content.
Headers are the occurrences of each attribute, since `packet_cleanup` overwrites
attributes and `builder_build` writes others: that they add up to one of each
kind is `WellFormed`. There is one room, which is persistent, and one that does
not exist, which a sender may create or not; the nick of an occupant is the
occupant. A first presence without a nick creates the room (`found`) and is then
refused. A set request that succeeds is `Affect`: the answer, and then the
presence of the one occupant whom it changes or removes. Requests of several
items or about several occupants, which may be refused half way, stay in `Room`.
The properties are about steps; `got` and `sent` decide nothing about the next
step and are left out of the view TLC explores.

### Jid and Acl

Texts are sequences of characters. `jid_struct` follows its loop, `jid_cmp` its
modes with NULL parts as wildcards; `Text` is what `JID_STR` and `JID_LEN` span,
and so what is written to a file. `Acl` reads files of lines, whole, too long,
or with a line that cannot be read, and stores the default role a step earlier,
as `apply_config` does without the lock. A list of affiliations by its addresses
goes through `affiliationss_add`, removals and restarts. What an address is
(`Address`, `IsAddress`) and which line is about whom (`Covers`) is defined
anew, from the text, for `RoleOfFirstLine` to compare with. `AddressesHold` says
that a stored address is found once and comes back from the data file.

### Persistence

A persistent room with its participants, whose size field is kept apart from the
set of those who are there, its limit and its password, and its list of owners,
beside the affiliation every participant carries. The serializer goes list by
list: `SerializeOpen` empties the file, `SerializeRoom` writes the limit and the
password, `participants_serialize` and `affiliations_serialize` their lists,
`SerializeClose` ends it. Between any two of them the workers go on, for nothing
is locked, and the process may die. What a worker frees under the serializer may
be read by it: the file is then `spoilt`, and taken for one that cannot be read
(`Spoils`).

`long` is a password that was stored without a look at its length
(`room.c:782`), and `moved`, a history variable in the file, that the limit
changed between its own writing and the participants'. `CompleteFileLoads` says
that a completed file is refused for nothing else. `losses` counts, through the
files, how often owners were not written; `OwnersLostOnce` is that this happens
once at most.

## The runs

| run | instance | what it shows |
|---|---|---|
| `StanzaQueue_channel` | 2 blocks, 2 slots, 3 threads, fair | queue intact, wake-ups suffice, slots staffed; implements the channel; every stanza is handled; the reader gets its block |
| `Reader_stream` | 3 stanzas of three kinds, buffers of 5 and 9 characters, enlarged at 9, blocks of 6 or as needed, fair | pointers inside; in step with the stream; stanzas in order and without waiting; ends only of a stanza that is too long, or behind a resize it missed |
| `RingBuffer_session` | area of 2, 2 workers, stanzas of 1 and 3, fair | ring sound (positions agree, chunks inside), sleeping workers are not forgotten; implements the stream: the bytes of the stanzas, whole and in order, dropped with the connection only; bytes are sent |
| `RingBuffer_reconnect` | the same with 2 sessions and `data_size` loaded twice | the writer sleeps on data only by its race, stanzas are torn only by a full buffer |
| `Session_end` | 2 workers, 2 blocks, room for 1 answer, fair | `pthread_kill` has a target; SIGTERM ends the program; a lost connection ends the session: each but for the races named |
| `Room_safety` | 2 users, one of them with and without a resource, 2 ACLs, members-only, a limit of 1, 1 item | views agree |
| `Room_items` | 2 users, 2 nicks, members-only, persistent and with a password, 2 items | room sound (types, nicks and entries unique, admins moderate), no ghosts, empty rooms go, an owner stays |
| `Room_cast` | 2 users, 2 ACLs, no flags | a violation, see below |
| `Rooms_table` | 3 workers, 2 room objects, fair | table sound (no freed room in it until one is deleted twice; faults only after two workers held one room); destroyed rooms leave it |
| `GroupChat_safety` | 2 clients, every stanza of `Answers`, 2 ticks | types (the history at its limit); stanzas are well-formed, refusals do nothing else, nothing leaves the room, errors are not answered, requests lead to one answer |
| `GroupChat_interval` | 1 client, 2 ticks between messages, 4 ticks | a violation, see below |
| `Persistence_files` | data file: a client and an administrator, limits 1 and 2; ACL files of up to 3 lines, limit 2, all senders of up to 4 characters | completed files load, but for two reasons; the size never undercounts; owners are lost once at most; a sender has the role of the first line about him; addresses are told apart and kept |

The bounds and why they suffice:

- queue: two blocks make a list with distinct ends; three threads for two slots
  are the least with which a slot is reused while its first thread lives. The
  proofs cover the rest;
- reader: the stanzas have 4, 7 and 11 characters, so that one fits every
  buffer, one fits only the larger one and one fits none; of the sizes one is
  below `Enlarged` and one is not, so that a reload may cross it, in both
  directions; with the pieces of any length every position in the stream meets
  every cell. Once `confused`, the reader is followed to its next `recv` only,
  since no property speaks of it;
- ring buffer: in an area of 2 a write or a chunk ends inside, at the end of and
  across the area; a stanza of 3 is longer than the area; `MaxBacklog` bounds
  `data_size`, which otherwise grows in a session whose sends fail;
- session: two workers can both wait for the room of one answer, while one of
  two blocks is still free or none is. There are finitely many states without
  another bound, the doubling of `reconnect_delay` included;
- room: `ann` is who gets in while nobody is banned, and `bob` whoever comes
  after; two nicks allow a change and leave one user without; `MaxItems = 2` is
  the least with which an item runs after another has changed the sender or
  stopped half way. `Room_items` leaves `view` out of its fingerprints, since no
  action reads it, and of its properties only the type invariant, which is
  proved; with views, two items and three clients the states are too many, so
  `ViewsAgree` runs with one item;
- limits: a limit of one is passed by the occupants who were there before it was
  set; that a limit of 0 means the largest one is in `RoomSound`, proved for
  every limit;
- table: two workers race, the third finds what they left; `Ids` bounds the
  rooms ever allocated, and two are enough for a deletion that puts back, or
  loses, another room;
- chat: in two ticks a clock is set back and messages follow each other at once
  and later; in the four of `GroupChat_interval` the distance may be kept and is
  not. A stanza has one sender and one address, so two clients are a sender with
  somebody else inside, outside or alone;
- files: two participants pass a limit of one, and every start counts them
  twice; of the texts of up to four characters over `a`, `@` and `/` some have
  every part, no part, parts that are empty and parts longer than `MaxPart = 3`;
  a file of three lines passes the limit of two. The data file and the two lists
  of addresses share no state, so `FilesSpec` moves one while the other stays as
  it began, the ACL with one of its default roles.

Deadlock is checked where the system cannot stop (`StanzaQueue_channel`,
`Reader_stream`, `Persistence_files`). It is off for the ring buffer (sessions
are bounded), for the session (the program ends), for the rooms, their table and
the chat (the process may fault).

### Disagreements with docs and comments

Two runs end in a violation. `Room_cast`: `affiliations.c:37` says that the
lookup searches by node and host, and the code, as it is called, dereferences
NULL first. `GroupChat_interval`: `config.example:37` promises a minimum time
between messages, and the line that would pass it on is commented out
(`mukite.c:48`), so that two messages of one tick are both sent.

More of this kind is in the models as the code has it, and is why a property one
might expect is not among those above:

- `StanzaQueue`: a slot that is switched off and on before its thread has looked
  keeps that thread and gets another, so that there are more threads than
  `config.example:29` speaks of.
- `Reader`: besides the faults that set `confused`, a stanza that wraps gets a
  size that is larger than the buffer (`reader.c:123` subtracts a negative
  number where it should be added); with a fixed block it may be dropped
  although it fits, else junk follows it. A reload to 1 MB or more, once the
  thread has looked at the size and before its smaller buffer is full, is taken
  for an enlargement that was not enough (`reader.c:175`), and so is one there
  is no memory for (`reader.c:24-27`): the thread dies with the smaller buffer,
  of a stanza the larger one would hold, against `config.example:57-61`.
  `DiesOnlyOfLength` leaves out exactly these (`small`).
- `RingBuffer`: with `MaxSessions = 2`, `ringbuffer_clear` without the mutex
  leaves positions and size that disagree; with `ReloadsSize = TRUE` a chunk may
  pass the end of the area. `PositionsAgree` and `ChunkInside` are about one
  session of an optimised build.
- `Session`: a SIGTERM while the reader scans, waits for a block or is about to
  call `recv` waits for the server, and so does one that falls before main waits
  for an answer of the handshake; `mukite.c:219-220` says the writer terminates
  once its job is done, and it may sleep instead. The reader's flag is set
  before its thread exists, so that `terminate` may kill a thread of the last
  session; it stays up when the thread gets no memory, so that one may be killed
  that is long gone (`reader.c:92-95`); and SIGUSR2 ends the process if the
  first reader has not yet installed its handler. The farewell of `net_unstream`
  on a connection that was reset ends the process by SIGPIPE, which is blocked
  in the other threads only.
- `Room`: a request that stops half way leaves participants marked as affected,
  whom nobody is told about; `NoGhosts` and `ViewsAgree` leave out exactly
  these. A sender whose first item takes his role goes on with the second. With
  somebody banned, whoever is no service administrator has an affiliation that
  is no list's.
- `Rooms`: nothing locks a room that is found, so that two workers may be in it,
  and one may go on in a room the other has freed; two first joins make two
  rooms of one name; the serializer reads a table that changes. Two workers that
  find one room marked both delete it (`rooms.c:48`) and free it: the second
  deletion follows stale links, and the process dies, or the table loses a room
  or leads to a freed one.
- `GroupChat`: the loop that should trim a history that is too long trims one
  that is too short, down to NULL.
- `Answers`: the egress packet of `route_iq` (`room.c:882`) has neither name nor
  header, so that an answer of a room is no iq, has no receiver and no id, and
  does not reach who asked (`AnswersOnce` counts what is sent, and says what it
  is not), and a proxied iq has no name; a first presence without a nick creates
  a room and is then refused, and the room stays, empty (`rooms.c:103`); an iq
  of type error to a room is answered with an error, though `rooms.c:95` ignores
  those to a room that does not exist; the query for statistics reads a record
  nobody filled in and ends the process.
- `Acl`: an address whose node is present but empty is stored without it
  (`jid.c:139`) and not found again, so that it is stored once per request.
  `AddressesHold` is about lists without one (`plain`).
- `Persistence`: every participant read from the file counts twice, so that the
  limit is reached too early; a process that found no file at its start writes
  none of its rooms; one that created a room writes its lists of affiliations
  empty, for only `room_deserialize` sets their limit, so that its owners are
  lost at the first restart. `OwnersLostOnce` says that this is the only time. A
  password is stored without a look at its length and refused on loading
  (`room.c:782-784` and 249), with the whole file; the limit is written before
  the participants are counted against it (227 and 233); the lists in a file are
  not of one moment, so that an occupant may be an owner there whom the list
  leaves out; and entries may be freed under the writer.

Two more are below the level of the models: `build_presence_mucadm`
(`builder.c:79-87`) writes one status code where `room.c:324` asks for several,
and `BUF_PUSH_FMT` (`builder.c:40`) needs one byte more than it checks for when
a text fits exactly.

### Fairness

`StanzaQueue`: weak fairness of the reader's steps inside the queue and of each
worker's steps: a thread that holds a block or waits for a free mutex runs. No
fairness for stanzas that arrive, for reloads or for spurious wake-ups.
`Reader`: weak fairness of the thread's own steps; what was received is worked
off, but nothing makes the server send. `RingBuffer`: weak fairness of each
worker inside a write and of main; strong fairness of the writer, which needs
the mutex that workers take again and again; `send` returns. `Session`: weak
fairness of main, of `pthread_kill` once the handler has come to it, of reader
and writer and of each worker. `send` returns, and so do `connect` and `sleep`,
which have timeouts; `recv` does not, and nothing makes the server answer, send
or close, or a signal arrive. `Rooms`: weak fairness of what a worker does with
its room before and after `room_route`, where it waits for nobody; none inside,
where a stanza may wait for space for ever: `DestroyedLeaves` is about workers
that get out of there again and again. Nothing makes users act.

## The proofs

`tlapm` checks every theorem; nothing is assumed but the named assumptions on
the constants.

**StanzaQueueProofs.** `QueueAlwaysIntact`, which joins `TypeCorrect`,
`ListsAlwaysIntact` and `BlocksNeverLeak`, `NoLostWakeup`, `SlotsAlwaysStaffed`
and `QueueImplementsChannel`, for any number of blocks, slots and threads.
`ListsIntact` alone is not inductive: that a push does not break the free list
needs that the pushed block is in neither list, which is `BlockInOnePlace`, and
that in turn needs both lists to be as `dataQ` and `freeQ` say. `WakeupsSuffice`
needs the count of threads that are awake, so the set of threads is assumed
finite. `SlotsStaffed` needs that a thread ends only when it finds its slot off.
The refinement maps each action to one of the channel or to a stutter; what it
needs of the invariant is that a block in hand is not written by anybody else.

**RingBufferProofs.** `RingAlwaysSound`, which joins `RingTypeCorrect`,
`PositionsAlwaysAgree` and `ChunkAlwaysInside`, for any size and any stanzas,
under `ReloadsSize = FALSE` and `MaxSessions = 1`: without them the invariant is
false (see above). The inductive invariant says where the mutex is, how the
bytes in flight (`Pending`) count and what the writer's local size may be at
each of its steps; the wrap is case analysis on the two values `write_position`
can have. Over it, and under the same two conditions,
`SleepingWorkersAlwaysHaveHope` and the refinement `RingImplementsStream`, whose
invariant `StreamInv` adds that the cells between the positions hold bytes that
workers wrote, those copied and not yet accounted for included, and that what
`send()` took is kept until it is released. Every accepted byte is the next one
of its worker's stanza, and the only step that drops any is the writer's end,
after an error of `send()` or behind the end of the reader.
`AlwaysSleepsOnlyByRace` and `AlwaysTornOnlyByOverflow` need neither condition:
they are about who holds the mutex and what was seen without it (`RaceSeen`,
`StanzaHeld`).

**RoomsProofs.** `TableAlwaysSound` for any number of workers and rooms. The
invariant has two halves. Until a room is deleted twice, a deleted room is out
of the table for good (`DeletedAreOut`), and the deleted ones are those that are
freed or about to be (`DeletedAreDone`). Until two workers held one room, nobody
holds a room that another holds or has deleted (`Alone`), and so nobody deletes
one again. What a corrupted table leads to was allocated all the same
(`InTable`), and so is what a worker holds (`HeldAreAllocated`).

**RoomProofs.** `RoomAlwaysSound`, which joins `RoomTypeCorrect`,
`NicksAlwaysDistinct`, `EntriesAlwaysUnique` and `AdminsAlwaysModerate`, for
every value the lookup may return. Together they are inductive: what else an
occupant is, or a list holds, at the moment of a step does not matter to them.

`NeverGhosts` and `EmptyRoomAlwaysGoes` follow from `StayInv`, and
`ViewsAlwaysAgree` from `ViewsInv`. Both are inductive without a look at the
phase: a request marks whomever it changes, so that at every step who has lost
the right to be in the room, and about whom the pictures are out of date, is
marked. The affected list is empty between stanzas, and an empty room is marked
for its end. `OwnersAlwaysKeepOne` is about steps: a list that one move empties
had one entry, which is not the sender's, or the check would have refused.

**AnswersProofs.** `ChatTypeCorrect` for `Answers`, hence with every stanza a
worker may handle. A lemma says that handling a stanza does to the room a step
of `GroupChat`, notes the time of a message that is then refused, ends the
process, or nothing, so that the invariant is about the room alone: while the
process lives, `size` is twice `entries`. `StanzasWellFormed`, `RefusalsAreAll`,
`RoomsKeepToThemselves` and `QueriesAnsweredOnce` are about single steps:
handler by handler, what is sent is one of a few kinds of sets (`Outcome`), and
each property is read off the kinds. `RefusalsAreAll` names the room that a
refused first presence has created; `QueriesAnsweredOnce` counts what is sent
besides the presences of those a request changed. `AddressAssumption` says that
no client has the address of the room, of the component or of nobody.

**PersistenceProofs.** For the data file: `SizeAlwaysCovers`,
`CompletedFilesLoad` and `OwnersAlwaysKept`. A restart replaces the memory by
the file, so the invariant says of a file (`DiskSound`), and of the part of it
that was written, what it says of memory (`MemorySound`): as long as the limit
was not moved, the one in the header is the one the participants are counted
against. For the owners (`LossesInv`), a room whose lists have no limit was
created by this process and has lost nothing yet, and one that was read from a
file has limits that lose nothing. `OwnersAlwaysKept` assumes that a list can
hold all clients (`LIST_MAX` is 10240): nothing in the code keeps it shorter,
and the serializer leaves out the rest at every restart.

For addresses, `JidStruct` says where `jid_struct` cuts a text, and
`JidIsAddress` that this is the address as its definition has it, for every
text. `TextBack` says that the text of an entry is cut into that entry again if
no part holds a separator that would end it earlier, which is the case for what
jid_struct cut itself. `AclInv` keeps this for every entry of the list, and says
that the access control list is what its file gives. From it `FilesTypeCorrect`,
`AddressesAlwaysHold` and `AlwaysRoleOfFirstLine`; for the last, the lines the
loader stored are those of `LinesGiven`, and `jid_cmp` with wildcards is
`Covers`. `JidAssumption` says that Null is no text. A step of the two files is
a step of one of them (`FilesAreBoth`).

**ReaderProofs.** `StreamAlwaysKept`: `ReaderInv` says of every pending cell
which character of the stream it holds, and the wrap is case analysis on where a
cell lies. `HandedAlwaysInOrder`: `OrderInv` says that what was consumed ends
where a stanza ends; the scanner finds in the buffer the end it finds in the
stanza itself (`NodeFound`), because an interval of the buffer that does not
split an empty tag keeps the distances the scanner looks at, and
`NodeAssumption` says of the stanzas that their first node is all of them.
`AlwaysDiesOfLength` holds for any configured sizes: where the thread may die,
`Grown` says that its buffer has been enlarged or is `small`.

**SessionProofs.** `SessionTypeCorrect`, with the count of blocks over free
list, data list and workers, and `KillAlwaysHasTarget`. The invariant adds that
the reader's flag is up only while there is a reader that has not ended, or main
is about to create it, or it is `stale`, and that what a thread has seen and
acts on next is still so (an answer to send, a stanza to hand over).

*Induction over data.* The library's induction theorems take an operator as a
parameter and cannot be used. A function that is defined by recursion is taken
apart without them: every non-empty set of numbers has a least element
(`LeastNumber`, from well-foundedness), so a set that contains 0 and with each
number the next one contains all of them (`Induct`), and so a function that is
iterated from a first value exists and stays in its set (`Iterate`). The
scanner, the loop of `jid_struct` and the concatenation of the stanzas are
instances. `ReaderProofs` and `PersistenceProofs` both state these three lemmas.

**Model-checked only.** Liveness: `QueueMoves`, `EveryStanzaTaken`,
`BytesAreSent`, `Terminates`, `SessionEnds`, `DestroyedLeaves`. It depends on
fairness and `ENABLED`, which the prover does not handle. Every invariant and
every action property that a passing run checks is a theorem, under the
conditions named. The two violations are TLC's.

## Not modelled

The bytes of the handshake and SHA-1 (`network.c`, `sha1.c`), payloads and their
escaping (`builder.c`), and the attributes of a node that was cut out
(`xmlfsm.c`): no state survives a call, and no property tells them apart.
Reading the configuration, logger and mewcat change nothing the others depend
on. Registered nicks are written and read, but nothing adds one. Reasons,
titles, cached presences and the text of messages are data.

Of what is modelled, these steps are left out: an `apply_config` that another
signal interrupts half way; a worker's read of `builder_buffer_size`, while a
reload stores it; the clearing of the ring buffer by main while a worker that
outlived the session is inside a write (`RingBuffer` has the clearing, and no
property says what is left after it, since nothing is).

## The plan

The order the project was built in: `StanzaQueue`, `RingBuffer`, `Room`,
`Rooms`, `GroupChat` and `Persistence` with their runs and the proofs of their
main invariants; then `Reader`, `Session`, `Answers`, `Jid` and `Acl`, the
owners in `Persistence`, and the proofs about the chat; then the proofs of the
remaining safety properties: the files and their addresses, the reader, the
session, the views and exits of the room, the stream of the ring buffer and the
answers. What is left, in the order in which it is worth doing:

1. The step before liveness, as theorems: for `DestroyedLeaves`, that what a
   worker still has to do with a room only gets less; for `QueueMoves`, that a
   queued block never moves back.
2. What holds of the ring buffer in every session and in both builds: `TypeOK`
   without the sizes that `ringbuffer_clear` may leave behind.
3. `Room` under the table of `Rooms`: what two requests in one room at the same
   time do to each other, which is where the assumption of `Room`, one handler
   at a time, stops.
