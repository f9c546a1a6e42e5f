------------------------------- MODULE Reader -------------------------------
(***************************************************************************)
(* The reader thread (xmcomp/src/reader.c): a circular buffer between      *)
(* recv() and the scanner that finds the end of a stanza (xmlfsm.c).       *)
(*                                                                         *)
(* Pointers are offsets into the network buffer; data and end are          *)
(* network_data.data and network_data.end.  Characters are those the       *)
(* scanner tells apart: "<", "/", ">", a quote, and "a" for all others.    *)
(* What queue_pop_free and queue_push_data do is in StanzaQueue.           *)
(*                                                                         *)
(* malloc may fail for the network buffer, but not for a block (that drops *)
(* one stanza, as a block that is too small does); it returns Junk.        *)
(***************************************************************************)
EXTENDS Integers, Sequences, SequencesExt

CONSTANTS
    Stanzas,    \* sequences of characters
    MaxStanzas, \* bound: the stanzas the server sends
    Sizes,      \* the values of reader.buffer
    Blocks,     \* the values of reader.block; 0: as long as the stanza
    Enlarged    \* 1 << 20

ASSUME ReaderAssumption ==
    /\ Sizes \subseteq Nat \ {0} /\ Blocks \subseteq Nat
    /\ Enlarged \in Nat \ {0} /\ MaxStanzas \in Nat
    /\ \A s \in Stanzas : s \in Seq(STRING) /\ Len(s) > 0

Quote == "'"
Junk == "?"
NoTag == -1

VARIABLES
    sent,       \* what the server sends: a sequence of stanzas
    received,   \* the number of characters that recv() returned so far
    wanted,     \* queue->network_buffer_size
    block,      \* queue->fixed_block_buffer_size
    size, mem,  \* network_buffer_size and the buffer's cells
    data, end,
    pc,
    handed,     \* history: the entries that were pushed into the queue
    consumed,   \* history: the characters that were skipped
    confused,   \* history: was one of the faults below met?
    small       \* history: a buffer of Enlarged was asked for, and this turn
                \* goes on with the one it had

buffer == <<size, mem, data, end>>
config == <<wanted, block>>
vars == <<sent, received, config, buffer, pc, handed, consumed, confused, small>>

Cells == 0..size - 1
Larger(a, b) == IF a > b THEN a ELSE b
Smaller(a, b) == IF a < b THEN a ELSE b

Init ==
    /\ sent \in SeqOf(Stanzas, MaxStanzas)
    /\ received = 0
    /\ wanted \in Sizes /\ block \in Blocks
    /\ size = wanted
    /\ mem = [a \in Cells |-> Junk]
    /\ data = 0 /\ end = 0
    /\ pc = "top"
    /\ handed = <<>> /\ consumed = 0 /\ confused = FALSE /\ small = FALSE

Wrapped == data > end
Pending == IF Wrapped THEN size - data + end ELSE end - data
Cell(i) == (data + i - 1) % size        \* of the i-th pending character
Content == [i \in 1..Pending |-> mem[Cell(i)]]

---------------------------------------------------------------------------
(* xmlfsm_skip_node: the state of the scanner after the i-th character c,  *)
(* which is at place.  Its size is set to the length of the node once its  *)
(* end was seen.                                                           *)

Start == [quote |-> FALSE, tag |-> FALSE, closing |-> NoTag, level |-> 0,
          size |-> 0]

\* The level after a ">" that ends an empty node or an end tag.  The two are
\* told apart by the distance of the cells.
Closes(s, place) ==
    s.level - (IF place - s.closing = 1 THEN 1 ELSE 2)

NextInQuote(s, c) == [s EXCEPT !.quote = c # Quote]

NextChar(s, c, place, i) ==
    CASE c = "<" -> [s EXCEPT !.level = @ + 1, !.tag = TRUE]
      [] c = "/" /\ s.tag -> [s EXCEPT !.closing = place]
      [] c = ">" /\ s.tag /\ s.closing # NoTag ->
            [s EXCEPT !.level = Closes(s, place), !.tag = FALSE, !.closing = NoTag,
                      !.size = IF Closes(s, place) = 0 THEN i ELSE 0]
      [] c = ">" /\ ~(s.tag /\ s.closing # NoTag) ->
            [s EXCEPT !.tag = FALSE]
      [] c = Quote -> [s EXCEPT !.quote = TRUE]
      [] OTHER -> s

Scan(s, c, place, i) ==
    CASE s.size # 0 -> s
      [] s.size = 0 /\ s.quote -> NextInQuote(s, c)
      [] s.size = 0 /\ ~s.quote -> NextChar(s, c, place, i)

\* The length of the first node of a text; 0: XMLPARSE_FAILURE.  scan[i] is the
\* one state after i characters (in a set, which makes TLC compute it once).
NodeSize(text, places) ==
    LET scan[i \in 0..Len(text)] ==
          IF i = 0 THEN {Start}
          ELSE {Scan(s, text[i], places[i], i) : s \in scan[i - 1]}
    IN  (CHOOSE s \in scan[Len(text)] : TRUE).size

xmlfsm_skip_node == NodeSize(Content, [i \in 1..Pending |-> Cell(i)])

\* A stanza is a node, and it ends with its last character.  (Left out: text
\* with an apostrophe or a quote outside of a tag, which is legal and which the
\* scanner takes for the start of a value, xmlfsm.c:74-77.)
ASSUME NodeAssumption ==
    \A s \in Stanzas : NodeSize(s, [i \in 1..Len(s) |-> i]) = Len(s)

---------------------------------------------------------------------------
(* What throws the reader out of step with the stream.                     *)

\* An empty node whose "/" is in the last cell and whose ">" in the first.
SplitTag ==
    \E i \in 1..Pending - 1 :
        /\ Cell(i) = size - 1 /\ Cell(i + 1) = 0
        /\ mem[Cell(i)] = "/" /\ mem[Cell(i + 1)] = ">"

\* The data size realloc_ring_buffer computes.
ReallocDataSize == IF end > data THEN end - data ELSE size - (end - data)

---------------------------------------------------------------------------
ResizeMutant ==
    /\ pc = "top"
    /\ wanted # size
    /\ size' = Larger(wanted, ReallocDataSize)
    /\ mem' = [a \in 0..size' - 1 |-> IF a \in Cells THEN mem[a] ELSE Junk]
    /\ data' = 0
    /\ end' = ReallocDataSize
    /\ pc' = "scan"
    /\ confused' = (confused \/ ReallocDataSize # Pending)
    /\ small' = FALSE
    /\ UNCHANGED <<sent, received, config, handed, consumed>>

\* realloc_ring_buffer, when the configured size is not the actual one.
Resize ==
    /\ pc = "top"
    /\ wanted # size
    /\ size' = Larger(wanted, ReallocDataSize)
    /\ mem' = [a \in 0..size' - 1 |->
                 IF a < Pending THEN mem[Cell(a + 1)] ELSE Junk]
    /\ data' = 0
    /\ end' = ReallocDataSize
    /\ pc' = "scan"
    /\ confused' = (confused \/ ReallocDataSize # Pending)
    /\ small' = FALSE
    /\ UNCHANGED <<sent, received, config, handed, consumed>>

KeepSize ==
    /\ pc = "top"
    /\ wanted = size
    /\ pc' = "scan" /\ small' = FALSE
    /\ UNCHANGED <<sent, received, config, buffer, handed, consumed, confused>>

\* realloc_ring_buffer finds no memory; the next turn tries again.
ResizeFails ==
    /\ pc = "top"
    /\ wanted # size
    /\ pc' = "scan" /\ small' = (size < Enlarged /\ Enlarged <= wanted)
    /\ UNCHANGED <<sent, received, config, buffer, handed, consumed, confused>>

\* current_stanza_size: the node ends before cell e.
StanzaSize(e) == IF e - data < 0 THEN size - (e - data) ELSE e - data

EntryDataMutant(n, e) ==
    [i \in 1..StanzaSize(e) |-> IF i <= n THEN mem[Cell(i)] ELSE Junk]

\* The entry's data: nothing if the stanza does not fit.  The memcpy moves the
\* n characters of the node; the size may say more.
EntryData(n, e) ==
    IF block # 0 /\ block < StanzaSize(e) THEN <<>>
    ELSE [i \in 1..StanzaSize(e) |-> IF i <= n THEN mem[Cell(i)] ELSE Junk]

TakeOnce ==
    /\ pc = "scan"
    /\ xmlfsm_skip_node # 0
    /\ LET n == xmlfsm_skip_node
           e == Cell(n) + 1 IN
         /\ handed' = Append(handed, [data |-> EntryData(n, e), limit |-> block,
                                      wrapped |-> e < data])
         /\ consumed' = consumed + n
         /\ data' = e
    /\ pc' = "recv"
    /\ confused' = (confused \/ SplitTag)
    /\ UNCHANGED <<sent, received, config, size, mem, end, small>>

\* One turn of the inner loop: a node is copied into a block and pushed.
Take ==
    /\ pc = "scan"
    /\ xmlfsm_skip_node # 0
    /\ LET n == xmlfsm_skip_node
           e == Cell(n) + 1 IN
         /\ handed' = Append(handed, [data |-> EntryData(n, e), limit |-> block,
                                      wrapped |-> e < data])
         /\ consumed' = consumed + n
         /\ data' = e
    /\ confused' = (confused \/ SplitTag)
    /\ UNCHANGED <<sent, received, config, size, mem, end, pc, small>>

\* The start and the length of the area recv() may write to.
get_continuous_block ==
    CASE data = end -> [start |-> 0, length |-> size]
      [] data # end /\ end = size -> [start |-> 0, length |-> data]
      [] data < end /\ end # size -> [start |-> end, length |-> size - end]
      [] Wrapped /\ end # size -> [start |-> end, length |-> data - end]

\* No complete node, and there is space to receive more.
MakeRoom ==
    /\ pc = "scan"
    /\ xmlfsm_skip_node = 0
    /\ get_continuous_block.length # 0
    /\ IF data = end THEN data' = 0 /\ end' = 0 ELSE UNCHANGED <<data, end>>
    /\ pc' = "recv"
    /\ confused' = (confused \/ SplitTag)
    /\ UNCHANGED <<sent, received, config, size, mem, handed, consumed, small>>

OverflowMutant ==
    /\ pc = "scan"
    /\ xmlfsm_skip_node = 0
    /\ get_continuous_block.length = 0
    /\ pc' = "dead"
    /\ UNCHANGED <<sent, received, config, buffer, handed, consumed, confused, small>>

\* No complete node in a full buffer: it is enlarged, once.
Overflow ==
    /\ pc = "scan"
    /\ xmlfsm_skip_node = 0
    /\ get_continuous_block.length = 0
    /\ IF wanted < Enlarged THEN wanted' = Enlarged /\ pc' = "top"
                            ELSE wanted' = wanted /\ pc' = "dead"
    /\ UNCHANGED <<sent, received, block, buffer, handed, consumed, confused, small>>

\* net_recv: any part of the stream that fits.  A wrapped buffer that is
\* filled completely looks like an empty one.  Bound: a reader that is out of
\* step is not followed further.
Receive ==
    /\ pc = "recv"
    /\ ~confused
    /\ LET to == get_continuous_block
           stream == FlattenSeq(sent) IN
       \E n \in 1..Smaller(to.length, Len(stream) - received) :
           /\ received' = received + n
           /\ end' = to.start + n
           /\ mem' = [a \in Cells |->
                        IF a \in to.start..to.start + n - 1
                        THEN stream[received + a - to.start + 1] ELSE mem[a]]
           /\ confused' = (confused \/ end' = data)
    /\ pc' = "top"
    /\ UNCHANGED <<sent, config, size, data, handed, consumed, small>>

\* apply_config of a signal handler.
Reload ==
    /\ wanted' \in Sizes /\ block' \in Blocks
    /\ small' = (small \/ (/\ pc = "scan" /\ size < Enlarged
                           /\ wanted < Enlarged /\ Enlarged <= wanted'))
    /\ UNCHANGED <<sent, received, buffer, pc, handed, consumed, confused>>

Step == Resize \/ ResizeFails \/ KeepSize \/ Take \/ MakeRoom \/ Overflow

Next == Step \/ Receive \/ Reload

Spec == Init /\ [][Next]_vars

\* The thread runs; nothing makes the server send.
FairSpec == Spec /\ WF_vars(Step)

---------------------------------------------------------------------------
(* Properties.                                                             *)

\* The pointers stay inside the buffer, through every wrap and resize.
TypeOK ==
    /\ sent \in Seq(Stanzas) /\ received \in 0..Len(FlattenSeq(sent))
    /\ wanted \in Nat /\ block \in Nat /\ size \in Nat \ {0}
    /\ DOMAIN mem = Cells
    /\ data \in 0..size /\ end \in 0..size
    /\ pc \in {"top", "scan", "recv", "dead"}
    /\ consumed \in Nat /\ confused \in BOOLEAN /\ small \in BOOLEAN

\* What lies between data and end is what was received and not yet skipped:
\* nothing lost, repeated or overwritten, however the buffer wraps and is
\* resized, until one of the known faults happens: a wrapped buffer filled
\* completely, or a resize of an empty or wrapped one.
InStep ==
    ~confused => Content = SubSeq(FlattenSeq(sent), consumed + 1, received)

\* recv() and the scanner stay inside the buffer, and in step with the stream.
StreamKept == TypeOK /\ InStep

\* The entry of a stanza.  One that fits is handed over as it was sent, one
\* that is too long is dropped.  One that wraps around the end of the buffer
\* gets the wrong size: it is dropped, or, with automatic blocks, is followed
\* by junk.
Faithful(entry, stanza) ==
    CASE ~entry.wrapped ->
            entry.data = IF entry.limit # 0 /\ entry.limit < Len(stanza)
                         THEN <<>> ELSE stanza
      [] entry.wrapped -> entry.data = <<>> \/ IsPrefix(stanza, entry.data)

\* Entries are the stanzas of the stream, in order, each cut off where it
\* ends, whatever the boundaries of the received pieces.
HandedInOrder ==
    ~confused =>
        /\ Len(handed) <= Len(sent)
        /\ \A i \in 1..Len(handed) : Faithful(handed[i], sent[i])

\* config.example:57-58: a buffer too small for a stanza is enlarged, and the
\* thread dies only if that is not enough.  It also dies with the smaller
\* buffer when a reload asks for 1 MB or more after the turn has compared the
\* sizes and before it finds the buffer full (reader.c:99 and 175), or when
\* the enlarged one could not be allocated (reader.c:24-27): nothing else.
DiesOnlyOfLength ==
    pc = "dead" /\ ~confused =>
        /\ size >= Enlarged \/ small
        /\ Len(sent[Len(handed) + 1]) > size

Ends(k) == Len(FlattenSeq(SubSeq(sent, 1, k)))

\* A stanza that was received completely is handed over without waiting for
\* more data.
EveryStanzaTaken ==
    \A k \in 1..MaxStanzas :
        (k <= Len(sent) /\ received >= Ends(k))
            ~> (Len(handed) >= k \/ confused \/ pc = "dead")
===========================================================================
