--------------------------- MODULE StanzaChannel ---------------------------
(***************************************************************************)
(* What the stanza queue promises to the threads on both of its ends: a    *)
(* bounded first-in first-out channel of stanzas.  The reader first gets a *)
(* slot, then puts one stanza into the channel; a worker takes the oldest  *)
(* stanza, holds it while it handles it, and gives the slot back.  Nothing *)
(* is lost, duplicated, reordered or changed on the way, and at most       *)
(* Capacity stanzas are in flight.                                         *)
(***************************************************************************)
EXTENDS Naturals, Sequences

CONSTANTS
    Capacity,  \* the number of slots
    Values,    \* what can be in a slot
    Threads    \* the consumers

VARIABLES
    chan,      \* the stanzas in the channel, oldest first
    free,      \* the number of free slots
    writing,   \* does the producer hold a slot?
    hand       \* what each consumer holds: <<>> or <<v>>

vars == <<chan, free, writing, hand>>

Init ==
    /\ chan = <<>>
    /\ free = Capacity
    /\ writing = FALSE
    /\ hand = [t \in Threads |-> <<>>]

TakeSlot ==
    /\ ~writing
    /\ free > 0
    /\ free' = free - 1
    /\ writing' = TRUE
    /\ UNCHANGED <<chan, hand>>

Put(v) ==
    /\ writing
    /\ chan' = Append(chan, v)
    /\ writing' = FALSE
    /\ UNCHANGED <<free, hand>>

Take(t) ==
    /\ hand[t] = <<>>
    /\ chan # <<>>
    /\ hand' = [hand EXCEPT ![t] = <<Head(chan)>>]
    /\ chan' = Tail(chan)
    /\ UNCHANGED <<free, writing>>

GiveBack(t) ==
    /\ hand[t] # <<>>
    /\ hand' = [hand EXCEPT ![t] = <<>>]
    /\ free' = free + 1
    /\ UNCHANGED <<chan, writing>>

Next ==
    \/ TakeSlot
    \/ \E v \in Values : Put(v)
    \/ \E t \in Threads : Take(t) \/ GiveBack(t)

Spec == Init /\ [][Next]_vars
=============================================================================
