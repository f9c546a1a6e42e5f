---------------------------- MODULE OutputStream ----------------------------
(***************************************************************************)
(* What the output ring buffer promises to one network connection: a       *)
(* stream of bytes.  Every worker hands in its stanzas piece by piece and  *)
(* in order, bytes leave in the order in which they were accepted, each    *)
(* one once, and at most Capacity of them wait to be sent.  Bytes are      *)
(* dropped in one case only: the line is down and the sender gives up.     *)
(***************************************************************************)
EXTENDS Naturals, Sequences

CONSTANTS
    Capacity,
    Workers,
    Lengths   \* lengths of their stanzas

VARIABLES
    unsent,    \* the bytes accepted and not yet sent, oldest first
    out,       \* the bytes that send() took and that are not released yet
    stanza,    \* length of the stanza a worker hands in, or 0
    accepted,  \* bytes of it that were accepted
    line       \* the connection: "up", "down", or "over" for the sender too

vars == <<unsent, out, stanza, accepted, line>>

Init ==
    /\ unsent = <<>>
    /\ out = <<>>
    /\ stanza = [w \in Workers |-> 0]
    /\ accepted = [w \in Workers |-> 0]
    /\ line = "up"

Begin(w) ==
    /\ stanza[w] = 0
    /\ \E n \in Lengths : stanza' = [stanza EXCEPT ![w] = n]
    /\ UNCHANGED <<unsent, out, accepted, line>>

\* The next n bytes of the stanza of w, which already handed in k of them.
Piece(w, k, n) == [i \in 1..n |-> <<w, k + i>>]

\* A piece is added at the end.  What comes when the sender has given up is
\* not for this connection.
Accept(w) ==
    \E n \in 1..stanza[w] - accepted[w] :
        /\ unsent' = IF line = "over" THEN unsent
                     ELSE unsent \o Piece(w, accepted[w], n)
        /\ Len(unsent') <= Capacity
        /\ \/ /\ accepted[w] + n < stanza[w]
              /\ accepted' = [accepted EXCEPT ![w] = @ + n]
              /\ UNCHANGED stanza
           \/ /\ accepted[w] + n = stanza[w]
              /\ accepted' = [accepted EXCEPT ![w] = 0]
              /\ stanza' = [stanza EXCEPT ![w] = 0]
        /\ UNCHANGED <<out, line>>

Send ==
    /\ out = <<>>
    /\ \E n \in 1..Len(unsent) :
         /\ out' = SubSeq(unsent, 1, n)
         /\ unsent' = SubSeq(unsent, n + 1, Len(unsent))
    /\ UNCHANGED <<stanza, accepted, line>>

Release ==
    /\ out # <<>>
    /\ out' = <<>>
    /\ UNCHANGED <<unsent, stanza, accepted, line>>

\* The end of the stream, an error of send() or the end of the reader thread.
Break ==
    /\ line = "up"
    /\ line' = "down"
    /\ UNCHANGED <<unsent, out, stanza, accepted>>

\* The sender gives up and drops what was not sent.
Drop ==
    /\ line = "down"
    /\ line' = "over"
    /\ unsent' = <<>>
    /\ out' = <<>>
    /\ UNCHANGED <<stanza, accepted>>

Next ==
    \/ \E w \in Workers : Begin(w) \/ Accept(w)
    \/ Send \/ Release \/ Break \/ Drop

Spec == Init /\ [][Next]_vars
=============================================================================
