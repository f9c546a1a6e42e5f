--------------------------- MODULE MCGroupChat ---------------------------
(* Clients differ only in their roles and in who is inside.  The time of   *)
(* the message sent on last, the stanza that was handled last and its      *)
(* answers decide nothing about the next one; the properties about them    *)
(* are properties of steps, which TLC checks for every step it finds.      *)
EXTENDS Answers, TLC

Symmetry == Permutations(Clients)
RoomState ==
    <<alive, ticks, role, last, subject, entries, size, inside, found>>
==========================================================================
