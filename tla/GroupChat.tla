----------------------------- MODULE GroupChat -----------------------------
(***************************************************************************)
(* Groupchat messages in one room: the branch of route_message for a       *)
(* message without a resource, the timer it reads, the room's subject, and *)
(* history_entries_push.  Private messages change no state of the room and *)
(* are not actions.                                                        *)
(*                                                                         *)
(* The occupants stay; what module Room does to them is reduced to a       *)
(* change of role and to a client that leaves and joins again.             *)
(***************************************************************************)
EXTENDS Integers

CONSTANTS
    Clients,
    Documented,     \* worker.deciseconds_limit of the configuration
    MaxTicks,       \* bound on the clock
    HistoryMax,     \* history.max_size
    Loaded,         \* history entries a room may have been loaded with
    Moderated, ChangeSubject,   \* two flags of the room
    Never

ROLE_VISITOR == 1
ROLE_PARTICIPANT == 2
ROLE_MODERATOR == 3

Times == (0 - 1) .. MaxTicks

ASSUME ChatAssumption ==
    /\ Documented \in Nat /\ MaxTicks \in Nat
    /\ HistoryMax \in Nat /\ Loaded \subseteq 0 .. HistoryMax
    /\ Moderated \in BOOLEAN /\ ChangeSubject \in BOOLEAN
    /\ Never \notin Int

VARIABLES
    alive,
    ticks,          \* timer_config.ticks
    role,
    last,           \* last_message_time of every participant
    said,           \* ticks at the last message that was sent on, or Never
    subject,        \* who set the subject, or Never
    entries, size   \* the history list: its entries and its size field

vars == <<alive, ticks, role, last, said, subject, entries, size>>

TypeOK ==
    /\ alive \in BOOLEAN
    /\ ticks \in Times
    /\ role \in [Clients -> ROLE_VISITOR .. ROLE_MODERATOR]
    /\ last \in [Clients -> Times]
    /\ said \in [Clients -> Times \cup {Never}]
    /\ subject \in Clients \cup {Never}
    /\ entries \in 0 .. HistoryMax
    /\ size \in 0 .. 2 * HistoryMax

\* room_init, or room_deserialize: every entry read counts twice, once in
\* _CONTAINER_DESERIALIZE and once in the DLS_APPEND it makes.
Init ==
    /\ alive = TRUE /\ ticks = 0
    /\ role \in [Clients -> ROLE_VISITOR .. ROLE_MODERATOR]
    /\ last = [c \in Clients |-> 0]
    /\ said = [c \in Clients |-> Never]
    /\ subject = Never
    /\ entries \in Loaded /\ size = 2 * entries

\* One turn of the timer thread, or its resynchronisation with time(), which
\* may have been set forward or back, even to before the start.
timer_thread_entry ==
    /\ alive
    /\ ticks' \in Times
    /\ UNCHANGED <<alive, role, last, said, subject, entries, size>>

\* A muc#admin request (module Room).
ChangeRole(c, r) ==
    /\ alive
    /\ role' = [role EXCEPT ![c] = r]
    /\ UNCHANGED <<alive, ticks, last, said, subject, entries, size>>

\* participant_init clears what room_leave has freed.
Rejoin(c) ==
    /\ alive
    /\ last' = [last EXCEPT ![c] = 0]
    /\ said' = [said EXCEPT ![c] = Never]
    /\ UNCHANGED <<alive, ticks, role, subject, entries, size>>

history_entries_pushMutant ==
    /\ entries' = entries + 1 /\ size' = size + 1
    /\ UNCHANGED alive

\* history_entries_push.  The first loop deletes the head while there is
\* room left, down to the NULL of an empty list; a list that is full gives
\* up its first entry for the new one.
history_entries_push ==
    \/ /\ HistoryMax > size \/ entries = 0
       /\ alive' = FALSE
       /\ entries' = 0 /\ size' = size - entries
    \/ /\ HistoryMax <= size /\ entries > 0
       /\ UNCHANGED <<alive, entries, size>>

\* rooms->limits.min_message_interval: rooms_init clears it, and the line of
\* apply_config that would set it is commented out.
min_message_interval == 0

\* The checks a message passes before its time is noted.
Accepted(c) ==
    /\ alive
    /\ Moderated => role[c] >= ROLE_PARTICIPANT
    /\ ticks - last[c] >= min_message_interval

SubjectAllowed(c) == role[c] >= ROLE_MODERATOR \/ ChangeSubject

\* A subject the sender may not set: the time is noted all the same.
SubjectRefused(c) ==
    /\ Accepted(c) /\ ~SubjectAllowed(c)
    /\ last' = [last EXCEPT ![c] = ticks]
    /\ UNCHANGED <<alive, ticks, role, said, subject, entries, size>>

\* The message goes into the history and to every participant; the subject
\* is replaced first if there is one.
route_message(c, has_subject) ==
    /\ Accepted(c)
    /\ has_subject => SubjectAllowed(c)
    /\ last' = [last EXCEPT ![c] = ticks]
    /\ subject' = IF has_subject THEN c ELSE subject
    /\ history_entries_push
    /\ said' = IF alive' THEN [said EXCEPT ![c] = ticks] ELSE said
    /\ UNCHANGED <<ticks, role>>

Next ==
    \/ timer_thread_entry
    \/ \E c \in Clients :
          \/ Rejoin(c) \/ SubjectRefused(c)
          \/ \E r \in ROLE_VISITOR .. ROLE_MODERATOR : ChangeRole(c, r)
          \/ \E has_subject \in BOOLEAN : route_message(c, has_subject)

Spec == Init /\ [][Next]_vars

---------------------------------------------------------------------------

\* "Minimum time interval between groupchat messages, 1/10 seconds"
\* (config.example:36): two messages of a client's stay that are sent on are
\* that far apart.
MinInterval ==
    [][\A c \in Clients :
         (said'[c] # said[c] /\ said[c] # Never /\ said'[c] # Never)
           => said'[c] - said[c] >= Documented]_vars
===========================================================================
