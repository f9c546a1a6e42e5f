-------------------------------- MODULE Jid --------------------------------
(***************************************************************************)
(* Addresses (src/jid.c): an address arrives as text and is cut into parts *)
(* that may be NULL; parts are compared, copied, written to the data file  *)
(* as text and cut again.                                                  *)
(*                                                                         *)
(* A text is a sequence of characters; a part is a text or Null.           *)
(***************************************************************************)
EXTENDS Integers, Sequences

CONSTANTS
    Null,
    MaxPart     \* MAX_JID_PART_SIZE

Upper == {"A", "B"}
Lower == {"a", "b"}
Separators == {"@", "/"}

\* All characters.  (The last two add nothing to STRING.)
Chars == STRING \cup Lower \cup Separators

\* Null is no text.
ASSUME JidAssumption == MaxPart \in Nat /\ Null \notin Seq(Chars)

Folded(c) == CASE c = "A" -> "a" [] c = "B" -> "b" [] c \notin Upper -> c

\* BPT_SIZE
Size(part) == IF part = Null THEN 0 ELSE Len(part)

\* One turn of the loop in jid_struct: p says what is being read, since where,
\* and what is complete.
NextPart(text, p, i) ==
    CASE p.reads = "node" /\ text[i] = "@" ->
            [p EXCEPT !.node = SubSeq(text, p.start, i - 1),
                      !.reads = "host", !.start = i + 1]
      [] p.reads # "resource" /\ text[i] = "/" ->
            [p EXCEPT !.host = SubSeq(text, p.start, i - 1),
                      !.reads = "resource", !.start = i + 1]
      [] OTHER -> p

\* The parts jid_struct leaves.
jid_struct(text) ==
    LET loop[i \in 0..Len(text)] ==
          IF i = 0 THEN [reads |-> "node", start |-> 1, node |-> Null, host |-> Null]
                   ELSE NextPart(text, loop[i - 1], i)
        end  == loop[Len(text)]
        rest == SubSeq(text, end.start, Len(text))
    IN  [node     |-> end.node,
         host     |-> IF end.reads = "resource" THEN end.host ELSE rest,
         resource |-> IF end.reads = "resource" THEN rest ELSE Null]

\* ... and whether it returns TRUE.
Valid(jid) ==
    /\ Size(jid.host) > 0
    /\ \A part \in {jid.node, jid.host, jid.resource} : Size(part) <= MaxPart

Fold(part) == IF part = Null THEN Null
              ELSE [i \in 1..Len(part) |-> Folded(part[i])]

SameMutant(jid1, jid2, part, fold, nullwc) ==
    \/ nullwc /\ jid1[part] = Null
    \/ jid1[part] = jid2[part]

\* One part of jid_cmp.  With nullwc a part that jid1 lacks matches any.
Same(jid1, jid2, part, fold, nullwc) ==
    \/ nullwc /\ jid1[part] = Null
    \/ IF fold THEN Fold(jid1[part]) = Fold(jid2[part])
               ELSE jid1[part] = jid2[part]

\* jid_cmp returns 0.
jid_cmp(jid1, jid2, mode) ==
    LET nullwc == "nullwc" \in mode IN
    /\ "node" \in mode => Same(jid1, jid2, "node", TRUE, nullwc)
    /\ "host" \in mode => Same(jid1, jid2, "host", TRUE, FALSE)
    /\ "resource" \in mode => Same(jid1, jid2, "resource", FALSE, nullwc)

\* jid_set copies no part that is empty.
jid_set(jid, parts) ==
    [part \in {"node", "host", "resource"} |->
       IF part = "host" \/ (part \in parts /\ Size(jid[part]) > 0)
       THEN jid[part] ELSE Null]

\* JID_STR and JID_LEN: the memory from the first part to the end of the last.
Text(jid) ==
    (IF jid.node = Null THEN <<>> ELSE jid.node \o <<"@">>) \o jid.host
    \o (IF Size(jid.resource) > 0 THEN <<"/">> \o jid.resource ELSE <<>>)
===========================================================================
