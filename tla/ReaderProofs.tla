--------------------------- MODULE ReaderProofs ---------------------------
(***************************************************************************)
(* Proofs about the reader thread, for every stream, every buffer size and *)
(* every way recv() cuts the stream into pieces.                           *)
(*                                                                         *)
(* ReaderInv: the pending characters are those of the stream that follow   *)
(* what was consumed (Kept).  OrderInv: what was handed over ends where a  *)
(* stanza of the stream ends, since the scanner finds the same end in the  *)
(* buffer as in the stanza (NodeFound).  DeathInv: the buffer had its full *)
(* size when the thread died, or what kept it smaller is known, and it     *)
(* held no complete stanza.                                                *)
(***************************************************************************)
EXTENDS Reader, SequenceTheorems, WellFoundedInduction, TLAPS

---------------------------------------------------------------------------
(* Induction over sets of numbers, and functions defined by recursion.     *)

\* A set of natural numbers has a least element.
LEMMA LeastNumber ==
    ASSUME NEW T, T \subseteq Nat, T # {}
    PROVE  \E x \in T : \A y \in T : x <= y
<1> DEFINE Less == OpToRel(<, Nat)
<1>1. IsWellFoundedOn(Less, Nat)
  BY NatLessThanWellFounded
<1>2. PICK x \in T : \A y \in T : <<y, x>> \notin Less
  <2> HIDE DEF Less
  <2> QED
    BY <1>1, WFMin
<1>3. \A y \in T : y \in Nat /\ x \in Nat /\ ~(y < x)
  BY <1>2 DEF OpToRel
<1> QED
  BY <1>3

\* Induction up to n.
LEMMA Induct ==
    ASSUME NEW n \in Nat, NEW T, 0 \in T, \A i \in 1..n : i - 1 \in T => i \in T
    PROVE  0..n \subseteq T
<1> DEFINE Missing == {i \in 0..n : i \notin T}
<1>1. CASE Missing = {}
  BY <1>1
<1>2. CASE Missing # {}
  <2>1. PICK x \in Missing : \A y \in Missing : x <= y
    <3>1. Missing \subseteq Nat
      OBVIOUS
    <3> HIDE DEF Missing
    <3> QED
      BY <1>2, <3>1, LeastNumber
  <2>2. x \in 1..n /\ x - 1 \in 0..n /\ ~(x <= x - 1)
    BY <2>1
  <2>3. x - 1 \in T
    BY <2>1, <2>2
  <2> QED
    BY <2>1, <2>2, <2>3
<1> QED
  BY <1>1, <1>2

\* f starts with a and is continued by step up to n.
Steps(step, n, S) == \A i \in 1..n : \A x \in S : step[i][x] \in S

Iterates(f, step, n, S, a) ==
    /\ \A i \in 0..n : f[i] \in S
    /\ f[0] = a
    /\ \A i \in 1..n : f[i] = step[i][f[i - 1]]

\* What is defined from one number to the next exists.
LEMMA Iterate ==
    ASSUME NEW n \in Nat, NEW S, NEW a \in S, NEW step, Steps(step, n, S)
    PROVE  \E f : Iterates(f, step, n, S, a)
<1> DEFINE T == {m \in 0..n : \E f : Iterates(f, step, m, S, a)}
<1>1. 0 \in T
  <2> DEFINE f == [i \in 0..0 |-> a]
  <2>1. Iterates(f, step, 0, S, a)
    BY DEF Iterates
  <2> HIDE DEF f
  <2> QED
    BY <2>1
<1>2. ASSUME NEW m \in 1..n, m - 1 \in T
      PROVE  m \in T
  <2>1. PICK f : Iterates(f, step, m - 1, S, a)
    BY <1>2
  <2> DEFINE b == step[m][f[m - 1]]
             g == [i \in 0..m |-> IF i = m THEN b ELSE f[i]]
  <2>2. f[m - 1] \in S /\ b \in S
    BY <2>1 DEF Iterates, Steps
  <2>3. (\A i \in 0..m : g[i] \in S) /\ g[0] = a
    BY <2>1, <2>2 DEF Iterates
  <2>4. ASSUME NEW i \in 1..m PROVE g[i] = step[i][g[i - 1]]
    <3>1. CASE i = m
      <4>1. i - 1 # m /\ i - 1 \in 0..m
        BY <3>1
      <4>2. g[i - 1] = f[m - 1] /\ g[i] = b
        BY <3>1, <4>1
      <4> QED
        BY <3>1, <4>2
    <3>2. CASE i # m
      BY <2>1, <3>2 DEF Iterates
    <3> QED
      BY <3>1, <3>2
  <2>5. Iterates(g, step, m, S, a)
    BY <2>3, <2>4 DEF Iterates
  <2> HIDE DEF g
  <2> QED
    BY <2>5
<1>3. 0..n \subseteq T
  <2> HIDE DEF T
  <2> QED
    BY <1>1, <1>2, Induct
<1> QED
  BY <1>3

---------------------------------------------------------------------------
(* The circular buffer.                                                    *)

\* A number that goes around at most once.
LEMMA Around ==
    ASSUME NEW n \in Nat \ {0}, NEW x \in 0..2 * n - 1
    PROVE  x % n = IF x < n THEN x ELSE x - n
OBVIOUS

\* Pending and Cell for any pointers d and e into a buffer of n cells.
PendingOf(d, e, n) == IF d > e THEN n - d + e ELSE e - d
CellOf(d, n, i) == (d + i - 1) % n

\* Where the pending characters are.
LEMMA Places ==
    ASSUME NEW n \in Nat \ {0}, NEW d \in 0..n, NEW e \in 0..n
    PROVE  /\ PendingOf(d, e, n) \in 0..n
           /\ \A i \in 1..PendingOf(d, e, n) :
                 /\ CellOf(d, n, i) \in 0..n - 1
                 /\ CellOf(d, n, i) = IF d + i - 1 < n THEN d + i - 1 ELSE d + i - 1 - n
<1>1. PendingOf(d, e, n) \in 0..n
  BY DEF PendingOf
<1>2. ASSUME NEW i \in 1..PendingOf(d, e, n)
      PROVE  /\ CellOf(d, n, i) \in 0..n - 1
             /\ CellOf(d, n, i) = IF d + i - 1 < n THEN d + i - 1 ELSE d + i - 1 - n
  <2> DEFINE x == d + i - 1
  <2>1. x \in 0..2 * n - 1
    BY DEF PendingOf
  <2>2. CellOf(d, n, i) = x % n
    BY DEF CellOf
  <2> HIDE DEF x
  <2>3. CellOf(d, n, i) = IF x < n THEN x ELSE x - n
    BY <2>1, <2>2, Around
  <2>4. CellOf(d, n, i) \in 0..n - 1
    BY <2>1, <2>3
  <2>5. d \in Nat /\ i \in Nat /\ n \in Nat
    BY <1>1
  <2> QED
    BY <2>3, <2>4, <2>5 DEF x
<1> QED
  BY <1>1, <1>2

\* The pointer is moved behind the k-th of them.
LEMMA Shift ==
    ASSUME NEW n \in Nat \ {0}, NEW d \in 0..n, NEW e \in 0..n,
           NEW k \in 1..PendingOf(d, e, n), NEW f, f = CellOf(d, n, k) + 1
    PROVE  /\ f \in 1..n
           /\ PendingOf(f, e, n) = PendingOf(d, e, n) - k
           /\ \A i \in 1..PendingOf(f, e, n) : CellOf(f, n, i) = CellOf(d, n, k + i)
<1>1. /\ PendingOf(d, e, n) \in 0..n /\ k \in Nat
      /\ f = IF d + k - 1 < n THEN d + k ELSE d + k - n
  <2>1. /\ PendingOf(d, e, n) \in 0..n
        /\ CellOf(d, n, k) = IF d + k - 1 < n THEN d + k - 1 ELSE d + k - 1 - n
    BY Places
  <2> QED
    BY <2>1
<1>2. f \in 1..n /\ PendingOf(f, e, n) = PendingOf(d, e, n) - k
  BY <1>1 DEF PendingOf
<1>3. ASSUME NEW i \in 1..PendingOf(f, e, n)
      PROVE  CellOf(f, n, i) = CellOf(d, n, k + i)
  <2>1. k + i \in 1..PendingOf(d, e, n) /\ i \in Nat
    BY <1>1, <1>2
  <2>2. CellOf(f, n, i) = IF f + i - 1 < n THEN f + i - 1 ELSE f + i - 1 - n
    <3>1. f \in 0..n
      BY <1>2
    <3> QED
      BY <3>1, Places
  <2>3. CellOf(d, n, k + i)
          = IF d + (k + i) - 1 < n THEN d + (k + i) - 1 ELSE d + (k + i) - 1 - n
    BY <2>1, Places
  <2>4. /\ PendingOf(f, e, n) = PendingOf(d, e, n) - k
        /\ PendingOf(d, e, n) <= n - d + e /\ (d <= e => PendingOf(d, e, n) = e - d)
    BY <1>1, <1>2 DEF PendingOf
  <2> QED
    BY <1>1, <1>2, <2>1, <2>2, <2>3, <2>4
<1> QED
  BY <1>2, <1>3

\* Pointers that lie inside.
Pointers == size \in Nat \ {0} /\ data \in 0..size /\ end \in 0..size

\* The number of pending characters, and their cells.
LEMMA PendingCells ==
    /\ Pending = PendingOf(data, end, size)
    /\ \A i : Cell(i) = CellOf(data, size, i)
BY DEF Pending, Wrapped, PendingOf, Cell, CellOf

\* Pending characters are in cells of the buffer.
LEMMA CellPlaces ==
    ASSUME Pointers
    PROVE  Pending \in 0..size /\ \A i \in 1..Pending : Cell(i) \in Cells
BY PendingCells, Places DEF Pointers, Cells

---------------------------------------------------------------------------
(* The scanner: after the i-th character it is in the state f[i].          *)

States == [quote : BOOLEAN, tag : BOOLEAN, closing : Int, level : Int, size : Nat]

\* The types of the scanner's state.
LEMMA ScanTyped ==
    ASSUME NEW s \in States, NEW c, NEW place \in Int, NEW i \in Nat
    PROVE  /\ Scan(s, c, place, i) \in States
           /\ Scan(s, c, place, i).size \in {s.size, i, 0}
           /\ s.size # 0 => Scan(s, c, place, i) = s
<1>1. place \in Int /\ i \in Nat
  OBVIOUS
<1>2. NextInQuote(s, c) \in States /\ NextInQuote(s, c).size = s.size
  BY DEF NextInQuote, States
<1>3. Closes(s, place) \in Int
  BY <1>1 DEF Closes, States
<1>4. /\ NextChar(s, c, place, i) \in States
      /\ NextChar(s, c, place, i).size \in {s.size, i, 0}
  <2> DEFINE level == Closes(s, place)
             opened == [s EXCEPT !.level = @ + 1, !.tag = TRUE]
             slashed == [s EXCEPT !.closing = place]
             closed == [s EXCEPT !.level = level, !.tag = FALSE, !.closing = NoTag,
                                 !.size = IF level = 0 THEN i ELSE 0]
             ended == [s EXCEPT !.tag = FALSE]
             quoted == [s EXCEPT !.quote = TRUE]
  <2>1. opened \in States /\ opened.size = s.size
    <3>1. s.level + 1 \in Int
      BY DEF States
    <3> QED
      BY <3>1 DEF States
  <2>2. slashed \in States /\ slashed.size = s.size
    BY <1>1 DEF States
  <2>3. closed \in States /\ closed.size \in {i, 0}
    <3> DEFINE n == IF level = 0 THEN i ELSE 0
    <3>1. n \in Nat /\ n \in {i, 0} /\ NoTag \in Int
      BY <1>1 DEF NoTag
    <3>2. closed = [s EXCEPT !.level = level, !.tag = FALSE, !.closing = NoTag,
                             !.size = n]
      OBVIOUS
    <3>3. level \in Int
      BY <1>3
    <3> HIDE DEF n, level, closed
    <3> QED
      BY <3>1, <3>2, <3>3 DEF States
  <2>4. ended \in States /\ ended.size = s.size
    BY DEF States
  <2>5. quoted \in States /\ quoted.size = s.size
    BY DEF States
  <2>6. NextChar(s, c, place, i) \in {opened, slashed, closed, ended, quoted, s}
    <3>1. NextChar(s, c, place, i) =
            CASE c = "<" -> opened
              [] c = "/" /\ s.tag -> slashed
              [] c = ">" /\ s.tag /\ s.closing # NoTag -> closed
              [] c = ">" /\ ~(s.tag /\ s.closing # NoTag) -> ended
              [] c = Quote -> quoted
              [] OTHER -> s
      BY DEF NextChar
    <3> HIDE DEF opened, slashed, closed, ended, quoted
    <3> QED
      BY <3>1
  <2> HIDE DEF opened, slashed, closed, ended, quoted
  <2> QED
    BY <2>1, <2>2, <2>3, <2>4, <2>5, <2>6
<1>5. s.size \in Nat /\ s.quote \in BOOLEAN
  BY DEF States
<1> QED
  BY <1>2, <1>4, <1>5 DEF Scan

Scanned(f, text, places) ==
    /\ \A i \in 0..Len(text) : f[i] \in States
    /\ f[0] = Start
    /\ \A i \in 1..Len(text) : f[i] = Scan(f[i - 1], text[i], places[i], i)

\* The scanner's state as a function of the characters it has seen.
LEMMA ScanTrace ==
    ASSUME NEW text, Len(text) \in Nat,
           NEW places, \A i \in 1..Len(text) : places[i] \in Int
    PROVE  \E f : Scanned(f, text, places) /\ NodeSize(text, places) = f[Len(text)].size
<1> DEFINE n == Len(text)
           Read(s, i) == Scan(s, text[i], places[i], i)
           step == [i \in 1..n |-> [s \in States |-> Read(s, i)]]
<1>1. n \in Nat
  OBVIOUS
<1>2. Start \in States
  BY DEF Start, States, NoTag
<1>3. Steps(step, n, States)
  BY ScanTyped DEF Steps
<1>4. PICK f : Iterates(f, step, n, States, Start)
  <2> HIDE DEF step, n
  <2> QED
    BY <1>1, <1>2, <1>3, Iterate
<1>5. \A i \in 1..n : f[i] = Read(f[i - 1], i)
  <2> TAKE i \in 1..n
  <2>1. i - 1 \in 0..n
    BY <1>1
  <2>2. f[i - 1] \in States
    BY <1>4, <2>1 DEF Iterates
  <2> HIDE DEF Read
  <2> QED
    BY <1>4, <2>2 DEF Iterates
<1>6. Scanned(f, text, places)
  BY <1>4, <1>5 DEF Scanned, Iterates
<1> DEFINE Scans(g) == g = [i \in 0..n |-> IF i = 0 THEN {Start}
                                          ELSE {Read(s, i) : s \in g[i - 1]}]
           scan == CHOOSE g : Scans(g)
<1>7. NodeSize(text, places) = (CHOOSE s \in scan[n] : TRUE).size
  BY DEF NodeSize
<1> HIDE DEF Read
<1>8. Scans(scan)
  <2> DEFINE h == [i \in 0..n |-> {f[i]}]
  <2>1. ASSUME NEW i \in 0..n
        PROVE  h[i] = IF i = 0 THEN {Start} ELSE {Read(s, i) : s \in h[i - 1]}
    <3>1. CASE i = 0
      BY <1>4, <3>1 DEF Iterates
    <3>2. CASE i # 0
      <4>1. i \in 1..n /\ i - 1 \in 0..n
        BY <3>2, <1>1
      <4>2. h[i] = {f[i]} /\ h[i - 1] = {f[i - 1]}
        BY <4>1
      <4> HIDE DEF h
      <4> QED
        BY <1>5, <3>2, <4>1, <4>2
    <3> QED
      BY <3>1, <3>2
  <2>2. Scans(h)
    BY <2>1
  <2> HIDE DEF Scans, h
  <2> QED
    BY <2>2
<1>9. \A i \in 0..n : scan[i] = {f[i]}
  <2> DEFINE T == {i \in 0..n : scan[i] = {f[i]}}
  <2> HIDE DEF scan
  <2>1. scan[0] = {Start} /\ \A i \in 1..n : scan[i] = {Read(s, i) : s \in scan[i - 1]}
    <3>1. \A i \in 0..n : scan[i] = IF i = 0 THEN {Start}
                                    ELSE {Read(s, i) : s \in scan[i - 1]}
      BY <1>8
    <3>2. 0 \in 0..n /\ \A i \in 1..n : i \in 0..n /\ i # 0
      BY <1>1
    <3> QED
      BY <3>1, <3>2
  <2>2. 0 \in T
    BY <1>1, <1>4, <2>1 DEF Iterates
  <2>3. ASSUME NEW i \in 1..n, i - 1 \in T PROVE i \in T
    BY <1>1, <1>5, <2>1, <2>3
  <2>4. 0..n \subseteq T
    <3> HIDE DEF T, n
    <3> QED
      BY <1>1, <2>2, <2>3, Induct
  <2> QED
    BY <2>4
<1>10. NodeSize(text, places) = f[n].size
  <2> HIDE DEF scan, n
  <2>1. scan[n] = {f[n]}
    BY <1>1, <1>9
  <2> QED
    BY <1>7, <2>1
<1> QED
  BY <1>6, <1>10

\* After i characters no node is longer than i, and a node that was found
\* stays.
LEMMA SizesGrow ==
    ASSUME NEW text, Len(text) \in Nat,
           NEW places, \A i \in 1..Len(text) : places[i] \in Int,
           NEW f, Scanned(f, text, places)
    PROVE  /\ \A i \in 0..Len(text) : f[i].size \in 0..i
           /\ \A i \in 0..Len(text) : f[i].size # 0 => f[Len(text)].size = f[i].size
<1> DEFINE n == Len(text)
<1>1. n \in Nat
  OBVIOUS
<1>2. ASSUME NEW i \in 1..n
      PROVE  /\ f[i].size \in {f[i - 1].size, i, 0}
             /\ f[i - 1].size # 0 => f[i].size = f[i - 1].size
  <2>1. /\ i - 1 \in 0..n /\ f[i - 1] \in States /\ i \in Nat /\ places[i] \in Int
        /\ f[i] = Scan(f[i - 1], text[i], places[i], i)
    BY <1>1 DEF Scanned
  <2> QED
    BY <2>1, ScanTyped
<1>3. \A i \in 0..n : f[i].size \in 0..i
  <2> DEFINE T == {i \in 0..n : f[i].size \in 0..i}
  <2>1. 0 \in T
    BY <1>1 DEF Scanned, Start
  <2>2. ASSUME NEW i \in 1..n, i - 1 \in T PROVE i \in T
    BY <1>1, <1>2, <2>2
  <2>3. 0..n \subseteq T
    <3> HIDE DEF T, n
    <3> QED
      BY <1>1, <2>1, <2>2, Induct
  <2> QED
    BY <2>3
<1>4. ASSUME NEW i \in 0..n, f[i].size # 0
      PROVE  f[n].size = f[i].size
  <2> DEFINE T == {j \in 0..n : i <= j => f[j].size = f[i].size}
  <2>1. 0 \in T
    <3>1. i <= 0 => i = 0
      BY <1>1
    <3> QED
      BY <1>1, <3>1
  <2>2. ASSUME NEW j \in 1..n, j - 1 \in T PROVE j \in T
    <3>1. CASE i <= j - 1
      BY <1>1, <1>2, <1>4, <2>2, <3>1
    <3>2. CASE ~(i <= j - 1)
      <4>1. i <= j => i = j
        BY <1>1, <3>2
      <4> QED
        BY <1>1, <4>1
    <3> QED
      BY <3>1, <3>2
  <2>3. 0..n \subseteq T
    <3> HIDE DEF T, n
    <3> QED
      BY <1>1, <2>1, <2>2, Induct
  <2>4. n \in T /\ i <= n
    BY <1>1, <2>3
  <2> QED
    BY <2>4
<1> QED
  BY <1>3, <1>4

\* The pending characters as a text, and the cells they are in.
Spots == [i \in 1..Pending |-> Cell(i)]

\* The pending characters are a text.
LEMMA ContentTyped ==
    ASSUME Pointers
    PROVE  /\ Pending \in 0..size /\ Len(Content) = Pending /\ Len(Content) \in Nat
           /\ \A i \in 1..Pending : Content[i] = mem[Cell(i)] /\ Spots[i] = Cell(i)
           /\ \A i \in 1..Len(Content) : Spots[i] \in Int
           /\ xmlfsm_skip_node = NodeSize(Content, Spots)
<1>1. Pending \in 0..size /\ Pending \in Nat /\ \A i \in 1..Pending : Cell(i) \in Int
  BY CellPlaces DEF Pointers, Cells
<1>2. Len(Content) = Pending
  BY <1>1 DEF Content
<1>3. xmlfsm_skip_node = NodeSize(Content, Spots)
  BY DEF xmlfsm_skip_node, Spots
<1> QED
  BY <1>1, <1>2, <1>3 DEF Content, Spots

\* A node that is found ends among the pending characters.
LEMMA NodeFits ==
    ASSUME Pointers
    PROVE  xmlfsm_skip_node \in 0..Pending
<1>1. /\ Len(Content) = Pending /\ Len(Content) \in Nat
      /\ \A i \in 1..Len(Content) : Spots[i] \in Int
      /\ xmlfsm_skip_node = NodeSize(Content, Spots)
  BY ContentTyped
<1>2. PICK f : Scanned(f, Content, Spots) /\ xmlfsm_skip_node = f[Len(Content)].size
  BY <1>1, ScanTrace
<1>3. f[Len(Content)].size \in 0..Len(Content)
  BY <1>1, <1>2, SizesGrow
<1> QED
  BY <1>1, <1>2, <1>3

---------------------------------------------------------------------------
(* The stream: f[i] is what the first i stanzas make.                      *)

Flattens(f, seqs, C) ==
    /\ f[0] = <<>>
    /\ \A i \in 0..Len(seqs) : f[i] \in Seq(C)
    /\ \A i \in 1..Len(seqs) : f[i] = f[i - 1] \o seqs[i]

\* A sequence of stanzas, put end to end, one stanza at a time.
LEMMA Flattened ==
    ASSUME NEW C, NEW seqs \in Seq(Seq(C))
    PROVE  \E f : Flattens(f, seqs, C) /\ FlattenSeq(seqs) = f[Len(seqs)]
<1> DEFINE n == Len(seqs)
           step == [i \in 1..n |-> [x \in Seq(C) |-> x \o seqs[i]]]
<1>1. n \in Nat /\ <<>> \in Seq(C) /\ \A i \in 1..n : seqs[i] \in Seq(C)
  OBVIOUS
<1>2. Steps(step, n, Seq(C))
  BY <1>1, ConcatProperties DEF Steps
<1>3. PICK f : Iterates(f, step, n, Seq(C), <<>>)
  <2> HIDE DEF step, n
  <2> QED
    BY <1>1, <1>2, Iterate
<1>4. Flattens(f, seqs, C)
  <2>1. \A i \in 0..n : f[i] \in Seq(C)
    BY <1>3 DEF Iterates
  <2>2. ASSUME NEW i \in 1..n PROVE f[i] = f[i - 1] \o seqs[i]
    <3>1. i - 1 \in 0..n
      BY <1>1
    <3>2. f[i] = step[i][f[i - 1]] /\ f[i - 1] \in Seq(C)
      BY <1>3, <2>1, <3>1 DEF Iterates
    <3> QED
      BY <3>2
  <2>3. f[0] = <<>>
    BY <1>3 DEF Iterates
  <2> QED
    BY <2>1, <2>2, <2>3 DEF Flattens
<1>5. CASE n = 0
  <2>1. FlattenSeq(seqs) = <<>>
    BY <1>5 DEF FlattenSeq
  <2> QED
    BY <1>4, <1>5, <2>1 DEF Flattens
<1>6. CASE n # 0
  <2> DEFINE Flat(g) == g = [i \in 1..n |-> IF i = 1 THEN seqs[i] ELSE g[i - 1] \o seqs[i]]
             flatten == CHOOSE g : Flat(g)
             T == {i \in 0..n : i # 0 => flatten[i] = f[i]}
  <2>1. f[1] = seqs[1]
    <3>1. 1 \in 1..n /\ 1 - 1 = 0
      BY <1>1, <1>6
    <3>2. seqs[1] \in Seq(C) /\ <<>> \o seqs[1] = seqs[1]
      BY <1>1, <3>1, ConcatEmptySeq
    <3>3. f[1] = f[1 - 1] \o seqs[1] /\ f[0] = <<>>
      BY <1>4, <3>1 DEF Flattens
    <3>4. f[1] = f[0] \o seqs[1]
      BY <3>1, <3>3
    <3> QED
      BY <3>2, <3>3, <3>4
  <2>2. Flat(flatten)
    <3> DEFINE h == [i \in 1..n |-> f[i]]
    <3>1. ASSUME NEW i \in 1..n
          PROVE  h[i] = IF i = 1 THEN seqs[i] ELSE h[i - 1] \o seqs[i]
      <4>1. CASE i = 1
        BY <2>1, <4>1
      <4>2. CASE i # 1
        <5>1. i - 1 \in 1..n
          BY <1>1, <4>2
        <5>2. f[i] = f[i - 1] \o seqs[i]
          BY <1>4 DEF Flattens
        <5>3. h[i] = f[i] /\ h[i - 1] = f[i - 1]
          BY <5>1
        <5> HIDE DEF h
        <5> QED
          BY <4>2, <5>2, <5>3
      <4> QED
        BY <4>1, <4>2
    <3>2. Flat(h)
      BY <3>1
    <3> HIDE DEF Flat, h
    <3> QED
      BY <3>2
  <2>3. ASSUME NEW i \in 1..n, i - 1 \in T PROVE i \in T
    <3> HIDE DEF flatten
    <3>1. flatten[i] = IF i = 1 THEN seqs[i] ELSE flatten[i - 1] \o seqs[i]
      BY <2>2
    <3>2. f[i] = f[i - 1] \o seqs[i]
      BY <1>4 DEF Flattens
    <3>3. CASE i = 1
      BY <1>1, <2>1, <3>1, <3>3
    <3>4. CASE i # 1
      <4>1. flatten[i - 1] = f[i - 1]
        BY <2>3, <3>4
      <4>2. flatten[i] = flatten[i - 1] \o seqs[i]
        BY <3>1, <3>4
      <4>3. flatten[i] = f[i]
        BY <3>2, <4>1, <4>2, Zenon
      <4> QED
        BY <1>1, <4>3
    <3> QED
      BY <3>3, <3>4
  <2>4. 0 \in T
    BY <1>1
  <2>5. 0..n \subseteq T
    <3> HIDE DEF T, n
    <3> QED
      BY <1>1, <2>3, <2>4, Induct
  <2>6. FlattenSeq(seqs) = flatten[n]
    BY <1>6 DEF FlattenSeq
  <2>7. flatten[n] = f[n]
    <3> HIDE DEF flatten
    <3> QED
      BY <1>1, <1>6, <2>5
  <2> QED
    BY <1>4, <2>6, <2>7
<1> QED
  BY <1>5, <1>6

Stream == FlattenSeq(sent)

\* The stream is a text.
LEMMA StreamTyped ==
    ASSUME sent \in Seq(Stanzas)
    PROVE  Stream \in Seq(STRING) /\ Len(Stream) \in Nat
<1>1. sent \in Seq(Seq(STRING))
  BY ReaderAssumption
<1>2. PICK f : Flattens(f, sent, STRING) /\ FlattenSeq(sent) = f[Len(sent)]
  BY <1>1, Flattened
<1>3. Len(sent) \in 0..Len(sent)
  BY <1>1
<1>4. Stream \in Seq(STRING)
  BY <1>2, <1>3 DEF Flattens, Stream
<1> QED
  BY <1>4

---------------------------------------------------------------------------
\* The invariant behind InStep: the pending characters are the part of the
\* stream behind the consumed ones; and a buffer that is empty when recv() is
\* called begins at its first cell, where recv() will write.
Kept ==
    ~confused => /\ consumed + Pending = received
                 /\ \A i \in 1..Pending : mem[Cell(i)] = Stream[consumed + i]

ReaderInv ==
    /\ TypeOK
    /\ wanted > 0
    /\ pc = "recv" /\ data = end => data = 0
    /\ Kept

\* What InStep says of the pointers is part of the invariant.
LEMMA KeptIsInStep == ReaderInv => InStep
<1> SUFFICES ASSUME ReaderInv, ~confused
             PROVE  Content = SubSeq(Stream, consumed + 1, received)
  BY DEF InStep, Stream
<1>1. Pointers /\ Pending \in Nat
  BY CellPlaces DEF ReaderInv, TypeOK, Pointers
<1>2. /\ Stream \in Seq(STRING) /\ Len(Stream) \in Nat
      /\ consumed \in Nat /\ received \in Nat /\ received <= Len(Stream)
  BY StreamTyped DEF ReaderInv, TypeOK, Stream
<1>3. /\ consumed + Pending = received
      /\ \A i \in 1..Pending : mem[Cell(i)] = Stream[consumed + i]
  BY DEF ReaderInv, Kept
<1> DEFINE part == SubSeq(Stream, consumed + 1, received)
<1>4. /\ part \in Seq(STRING) /\ Len(part) = Pending
      /\ \A i \in 1..Pending : part[i] = Stream[consumed + i]
  <2>1. /\ consumed + 1 \in 1..Len(Stream) + 1 /\ received \in consumed..Len(Stream)
        /\ \A i \in consumed + 1..received : i \in 1..Len(Stream)
    BY <1>1, <1>2, <1>3
  <2>2. part = [i \in 1..Pending |-> Stream[consumed + i]]
    BY <1>1, <1>2, <1>3
  <2>3. \A i \in 1..Pending : Stream[consumed + i] \in STRING
    BY <1>1, <1>2, <1>3
  <2> HIDE DEF part
  <2> QED
    BY <1>1, <2>2, <2>3
<1>5. Content \in Seq(STRING) /\ Len(Content) = Pending
      /\ \A i \in 1..Pending : Content[i] = part[i]
  <2>1. \A i \in 1..Pending : mem[Cell(i)] = part[i] /\ part[i] \in STRING
    BY <1>3, <1>4
  <2> HIDE DEF part
  <2> QED
    BY <1>1, <2>1 DEF Content
<1> HIDE DEF part
<1>6. Content = part
  BY <1>4, <1>5, SeqEqual
<1> QED
  BY <1>6 DEF part

\* What a step does to the buffer, for the invariant.
LEMMA KeptBy ==
    ASSUME TypeOK', UNCHANGED sent,
           ~confused' => /\ consumed' + PendingOf(data', end', size') = received'
                         /\ \A i \in 1..PendingOf(data', end', size') :
                               mem'[CellOf(data', size', i)] = Stream[consumed' + i]
    PROVE  Kept'
BY DEF Kept, Stream, Pending, Wrapped, PendingOf, Cell, CellOf

\* The buffer begins empty.
LEMMA ReaderInit == Init => ReaderInv
<1> SUFFICES ASSUME Init PROVE ReaderInv
  OBVIOUS
<1> USE DEF Init
<1>1. sent \in Seq(Stanzas)
  BY ReaderAssumption DEF SeqOf
<1>2. wanted \in Nat \ {0} /\ block \in Nat
  BY ReaderAssumption
<1>3. TypeOK
  <2>1. 0 \in 0..Len(Stream) /\ 0 \in 0..size
    BY <1>1, <1>2, StreamTyped
  <2> QED
    BY <1>1, <1>2, <2>1 DEF TypeOK, Stream
<1>4. Kept
  BY <1>2 DEF Kept, Pending, Wrapped
<1> QED
  BY <1>2, <1>3, <1>4 DEF ReaderInv

\* realloc_ring_buffer at the top of the loop.
LEMMA ResizeKeeps == ASSUME ReaderInv, Resize PROVE ReaderInv'
<1> USE DEF ReaderInv, Resize
<1>1. /\ size \in Nat \ {0} /\ data \in 0..size /\ end \in 0..size
      /\ wanted \in Nat \ {0}
  BY DEF TypeOK
<1>2. ReallocDataSize \in Nat
  BY <1>1 DEF ReallocDataSize
<1>3. size' \in Nat \ {0} /\ data' = 0 /\ end' = ReallocDataSize /\ end' \in 0..size'
  BY <1>1, <1>2 DEF Larger
<1>4. TypeOK'
  <2>1. small' \in BOOLEAN
    BY Zenon
  <2> QED
    BY <1>3, <2>1 DEF TypeOK, config, Cells
<1>5. ASSUME ~confused'
      PROVE  /\ consumed' + PendingOf(data', end', size') = received'
             /\ \A i \in 1..PendingOf(data', end', size') :
                   mem'[CellOf(data', size', i)] = Stream[consumed' + i]
  <2>1. ~confused /\ end' = Pending /\ Pending \in Nat
    <3>1. ~confused /\ ReallocDataSize = Pending
      BY <1>5, Zenon
    <3>2. Pending \in 0..size
      BY <1>1, CellPlaces DEF Pointers
    <3> QED
      BY <1>1, <1>3, <3>1, <3>2
  <2>2. PendingOf(data', end', size') = Pending
    BY <1>3, <2>1 DEF PendingOf
  <2>3. consumed + Pending = received
        /\ \A i \in 1..Pending : mem[Cell(i)] = Stream[consumed + i]
    BY <2>1 DEF Kept
  <2>4. ASSUME NEW i \in 1..Pending
        PROVE  mem'[CellOf(data', size', i)] = Stream[consumed' + i]
    <3>1. CellOf(data', size', i) = i - 1
      <4>1. /\ i \in 1..PendingOf(data', end', size') /\ data' \in 0..size'
            /\ i <= size' /\ i \in Nat /\ i - 1 < size'
        BY <1>3, <2>1, <2>2
      <4>2. CellOf(data', size', i) = IF data' + i - 1 < size' THEN data' + i - 1
                                      ELSE data' + i - 1 - size'
        BY <1>3, <4>1, Places
      <4> QED
        BY <1>3, <4>1, <4>2
    <3>2. i - 1 \in 0..size' - 1 /\ i - 1 < Pending /\ i - 1 + 1 = i
      BY <1>3, <2>1
    <3>3. mem'[i - 1] = mem[Cell(i)]
      BY <3>2
    <3> QED
      BY <2>3, <3>1, <3>3
  <2> QED
    BY <2>2, <2>3, <2>4
<1>6. Kept'
  BY <1>4, <1>5, KeptBy
<1> QED
  BY <1>4, <1>6 DEF config

\* Steps that leave the buffer and the stream alone.
LEMMA IdleKeeps ==
    ASSUME ReaderInv, UNCHANGED <<sent, received, buffer, consumed, confused>>,
           wanted' \in Nat \ {0}, block' \in Nat, small' \in BOOLEAN,
           pc' \in {"top", "scan", "dead"} \/ pc' = pc
    PROVE  ReaderInv'
<1> USE DEF ReaderInv, buffer
<1>1. TypeOK'
  BY DEF TypeOK, Cells
<1>2. Kept'
  BY DEF Kept, Stream, Pending, Wrapped, Cell
<1> QED
  BY <1>1, <1>2

\* A node is handed over.
LEMMA TakeKeeps == ASSUME ReaderInv, Take PROVE ReaderInv'
<1> USE DEF ReaderInv
<1> DEFINE n == xmlfsm_skip_node
           P == PendingOf(data, end, size)
<1>1. /\ size \in Nat \ {0} /\ data \in 0..size /\ end \in 0..size /\ Pointers
      /\ consumed \in Nat /\ received \in Nat
  BY StreamTyped DEF TypeOK, Pointers, Stream
<1>2. n \in 1..P /\ P \in Nat
  <2>1. n \in 0..Pending /\ Pending = P
    BY <1>1, NodeFits, PendingCells
  <2>2. n # 0 /\ P \in 0..size
    BY <1>1, Places DEF Take
  <2> HIDE DEF n, P
  <2> QED
    BY <1>1, <2>1, <2>2
<1>3. /\ data' = CellOf(data, size, n) + 1 /\ consumed' = consumed + n
      /\ UNCHANGED <<sent, received, config, size, mem, end, pc>>
      /\ confused' = (confused \/ SplitTag) /\ pc = "scan"
  BY PendingCells DEF Take
<1> HIDE DEF n, P
<1>4. /\ data' \in 1..size
      /\ PendingOf(data', end, size) = P - n
      /\ \A i \in 1..PendingOf(data', end, size) :
            CellOf(data', size, i) = CellOf(data, size, n + i)
  BY <1>1, <1>2, <1>3, Shift DEF P
<1>5. TypeOK'
  <2>1. small' \in BOOLEAN
    BY <1>1, Zenon DEF TypeOK, Take
  <2> QED
    BY <1>1, <1>2, <1>3, <1>4, <2>1 DEF TypeOK, config, Cells
<1>6. ASSUME ~confused'
      PROVE  /\ consumed' + PendingOf(data', end', size') = received'
             /\ \A i \in 1..PendingOf(data', end', size') :
                   mem'[CellOf(data', size', i)] = Stream[consumed' + i]
  <2>1. /\ consumed + P = received
        /\ \A i \in 1..P : mem[CellOf(data, size, i)] = Stream[consumed + i]
    BY <1>3, <1>6, PendingCells DEF Kept, P
  <2>2. consumed' + PendingOf(data', end, size) = received
    BY <1>1, <1>2, <1>3, <1>4, <2>1
  <2>3. ASSUME NEW i \in 1..PendingOf(data', end, size)
        PROVE  mem[CellOf(data', size, i)] = Stream[consumed' + i]
    <3>1. n + i \in 1..P /\ consumed + (n + i) = consumed' + i
      BY <1>1, <1>2, <1>3, <1>4
    <3>2. mem[CellOf(data, size, n + i)] = Stream[consumed + (n + i)]
      BY <2>1, <3>1
    <3> QED
      BY <1>4, <3>1, <3>2
  <2> QED
    BY <1>3, <2>2, <2>3
<1>7. Kept'
  BY <1>3, <1>5, <1>6, KeptBy
<1> QED
  BY <1>3, <1>5, <1>7 DEF config

\* get_continuous_block.
LEMMA MakeRoomKeeps == ASSUME ReaderInv, MakeRoom PROVE ReaderInv'
<1> USE DEF ReaderInv
<1>1. /\ size \in Nat \ {0} /\ data \in 0..size /\ end \in 0..size
      /\ consumed \in Nat /\ received \in Nat
  BY StreamTyped DEF TypeOK, Stream
<1>2. /\ (data = end /\ data' = 0 /\ end' = 0) \/ (data # end /\ data' = data /\ end' = end)
      /\ pc' = "recv" /\ confused' = (confused \/ SplitTag)
      /\ UNCHANGED <<sent, received, wanted, block, size, mem, consumed>>
  BY DEF MakeRoom, config
<1>3. TypeOK'
  <2>1. small' \in BOOLEAN
    BY Zenon DEF TypeOK, MakeRoom
  <2> QED
    BY <1>1, <1>2, <2>1 DEF TypeOK, Cells
<1>4. ASSUME ~confused'
      PROVE  /\ consumed' + PendingOf(data', end', size') = received'
             /\ \A i \in 1..PendingOf(data', end', size') :
                   mem'[CellOf(data', size', i)] = Stream[consumed' + i]
  <2>1. ~confused
    BY <1>2, <1>4
  <2>2. /\ consumed + PendingOf(data, end, size) = received
        /\ \A i \in 1..PendingOf(data, end, size) :
              mem[CellOf(data, size, i)] = Stream[consumed + i]
    BY <2>1, PendingCells DEF Kept
  <2>3. CASE data = end
    <3>1. PendingOf(data, end, size) = 0 /\ PendingOf(data', end', size') = 0
      BY <1>1, <1>2, <2>3 DEF PendingOf
    <3> QED
      BY <1>1, <1>2, <2>2, <3>1
  <2>4. CASE data # end
    BY <1>2, <2>2, <2>4
  <2> QED
    BY <2>3, <2>4
<1>5. Kept'
  BY <1>2, <1>3, <1>4, KeptBy
<1> QED
  BY <1>2, <1>3, <1>5

\* Where recv() writes n characters to cell f and those that follow, in a buffer
\* of m cells with p pending characters from d to e: the i-th of all those
\* characters is in its cell a, which is written if it is a new one.
WrittenAt(m, d, e, f, n, p, i, a) ==
    /\ m \in Nat /\ d \in 0..m /\ e \in 0..m /\ f \in Nat /\ n \in Nat
    /\ p = PendingOf(d, e, m) /\ i \in 1..p + n /\ a \in Int
    /\ \/ d = e /\ d = 0 /\ f = 0 /\ n <= m
       \/ d < e /\ e = m /\ f = 0 /\ n <= d
       \/ d < e /\ e # m /\ f = e /\ n <= m - e
       \/ d > e /\ f = e /\ n <= d - e
    /\ a = IF d + i - 1 < m THEN d + i - 1 ELSE d + i - 1 - m

LEMMA WrittenPlaces ==
    ASSUME NEW m, NEW d, NEW e, NEW f, NEW n, NEW p, NEW i, NEW a,
           WrittenAt(m, d, e, f, n, p, i, a)
    PROVE  IF i <= p THEN a \notin f..f + n - 1
                     ELSE a \in f..f + n - 1 /\ a - f + 1 = i - p
<1> USE DEF WrittenAt
<1>1. CASE d = e /\ d = 0 /\ f = 0 /\ n <= m
  <2>1. p = 0
    BY <1>1 DEF PendingOf
  <2> QED
    BY <1>1, <2>1
<1>2. CASE d < e /\ e = m /\ f = 0 /\ n <= d
  <2>1. p = e - d
    BY <1>2 DEF PendingOf
  <2> QED
    BY <1>2, <2>1
<1>3. CASE d < e /\ e # m /\ f = e /\ n <= m - e
  <2>1. p = e - d
    BY <1>3 DEF PendingOf
  <2> QED
    BY <1>3, <2>1
<1>4. CASE d > e /\ f = e /\ n <= d - e
  <2>1. p = m - d + e
    BY <1>4 DEF PendingOf
  <2> QED
    BY <1>4, <2>1
<1> QED
  BY <1>1, <1>2, <1>3, <1>4

\* recv() writes behind the pending characters.
LEMMA ReceiveKeeps == ASSUME ReaderInv, Receive PROVE ReaderInv'
<1> USE DEF ReaderInv
<1> DEFINE from == get_continuous_block.start
           length == get_continuous_block.length
           P == PendingOf(data, end, size)
<1>1. /\ size \in Nat \ {0} /\ data \in 0..size /\ end \in 0..size
      /\ consumed \in Nat /\ received \in Nat /\ DOMAIN mem = Cells
      /\ received <= Len(Stream) /\ Len(Stream) \in Nat
  BY StreamTyped DEF TypeOK, Stream
<1>2. /\ pc = "recv" /\ ~confused /\ pc' = "top"
      /\ UNCHANGED <<sent, wanted, block, size, data, consumed>>
  BY DEF Receive, config
<1>3. \/ data = end /\ data = 0 /\ from = 0 /\ length = size
      \/ data < end /\ end = size /\ from = 0 /\ length = data
      \/ data < end /\ end # size /\ from = end /\ length = size - end
      \/ data > end /\ from = end /\ length = data - end
  <2>1. data = end => data = 0
    BY <1>2
  <2> QED
    BY <1>1, <2>1 DEF get_continuous_block, Wrapped
<1>4. PICK n \in 1..Smaller(length, Len(Stream) - received) :
         /\ received' = received + n
         /\ end' = from + n
         /\ mem' = [a \in Cells |->
                      IF a \in from..from + n - 1
                      THEN Stream[received + a - from + 1] ELSE mem[a]]
         /\ confused' = (confused \/ end' = data)
  BY DEF Receive, Stream
<1> HIDE DEF from, length
<1>5. /\ n \in Nat /\ n >= 1 /\ n <= length /\ n <= Len(Stream) - received
      /\ length \in Nat /\ from \in Nat
  BY <1>1, <1>3 DEF Smaller
<1>6. /\ from + n <= size
      /\ P \in 0..size /\ consumed + P = received
      /\ \A i \in 1..P : mem[CellOf(data, size, i)] = Stream[consumed + i]
  <2>1. from + n <= size
    BY <1>1, <1>3, <1>5
  <2>2. P \in 0..size
    BY <1>1, Places
  <2>3. /\ consumed + P = received
        /\ \A i \in 1..P : mem[CellOf(data, size, i)] = Stream[consumed + i]
    BY <1>2, PendingCells DEF Kept
  <2> QED
    BY <2>1, <2>2, <2>3
<1>7. TypeOK'
  <2>1. end' \in 0..size /\ received' \in 0..Len(Stream)
    BY <1>1, <1>4, <1>5, <1>6
  <2>2. DOMAIN mem' = Cells /\ confused' \in BOOLEAN
    BY <1>4
  <2>3. small' \in BOOLEAN
    BY Zenon DEF TypeOK, Receive
  <2> QED
    BY <1>2, <2>1, <2>2, <2>3 DEF TypeOK, Cells, Stream
<1>8. ASSUME ~confused'
      PROVE  /\ consumed' + PendingOf(data', end', size') = received'
             /\ \A i \in 1..PendingOf(data', end', size') :
                   mem'[CellOf(data', size', i)] = Stream[consumed' + i]
  <2>1. end' # data
    BY <1>4, <1>8
  <2>2. PendingOf(data, end', size) = P + n
    BY <1>1, <1>3, <1>4, <1>5, <1>6, <2>1 DEF PendingOf
  <2>3. ASSUME NEW i \in 1..P + n
        PROVE  mem'[CellOf(data, size, i)] = Stream[consumed + i]
    <3> DEFINE a == CellOf(data, size, i)
    <3>1. /\ a = IF data + i - 1 < size THEN data + i - 1 ELSE data + i - 1 - size
          /\ a \in Cells
      <4>1. end' \in 0..size /\ i \in 1..PendingOf(data, end', size)
        BY <1>1, <1>4, <1>5, <1>6, <2>2
      <4> QED
        BY <1>1, <4>1, Places DEF Cells
    <3> HIDE DEF a
    <3>0. IF i <= P THEN a \notin from..from + n - 1
                    ELSE a \in from..from + n - 1 /\ a - from + 1 = i - P
      <4>1. /\ size \in Nat /\ data \in 0..size /\ end \in 0..size
            /\ i \in 1..P + n /\ a \in Int /\ P = PendingOf(data, end, size)
        BY <1>1, <3>1 DEF Cells
      <4>2. \/ data = end /\ data = 0 /\ from = 0 /\ n <= size
            \/ data < end /\ end = size /\ from = 0 /\ n <= data
            \/ data < end /\ end # size /\ from = end /\ n <= size - end
            \/ data > end /\ from = end /\ n <= data - end
        BY <1>3, <1>5
      <4> HIDE DEF P
      <4>3. WrittenAt(size, data, end, from, n, P, i, a)
        BY <1>5, <3>1, <4>1, <4>2 DEF WrittenAt
      <4> QED
        BY <4>3, WrittenPlaces
    <3>2. CASE i <= P
      <4>1. i \in 1..P /\ a \notin from..from + n - 1
        BY <1>6, <3>0, <3>2
      <4> QED
        BY <1>4, <1>6, <3>1, <4>1 DEF a
    <3>3. CASE i > P
      <4>1. a \in from..from + n - 1 /\ received + a - from + 1 = consumed + i
        <5>1. a \in from..from + n - 1 /\ a - from + 1 = i - P /\ a \in Int
          BY <1>6, <3>0, <3>1, <3>3 DEF Cells
        <5>2. i \in Int /\ P \in Int /\ consumed \in Nat /\ received = consumed + P
          BY <1>1, <1>6
        <5> HIDE DEF P
        <5> QED
          BY <1>5, <5>1, <5>2
      <4> QED
        BY <1>4, <3>1, <4>1 DEF a
    <3>4. i <= P \/ i > P
      BY <1>5, <1>6
    <3> HIDE DEF P
    <3> QED
      BY <3>2, <3>3, <3>4
  <2>4. consumed + (P + n) = received'
    BY <1>1, <1>4, <1>5, <1>6
  <2> HIDE DEF P
  <2> QED
    BY <1>2, <2>2, <2>3, <2>4
<1>9. Kept'
  BY <1>2, <1>7, <1>8, KeptBy
<1> QED
  BY <1>2, <1>7, <1>9

\* Every action keeps the buffer in step with the stream, or is a known fault.
LEMMA ReaderStep == ReaderInv /\ [Next]_vars => ReaderInv'
<1> SUFFICES ASSUME ReaderInv, [Next]_vars PROVE ReaderInv'
  OBVIOUS
<1>0. wanted \in Nat \ {0} /\ block \in Nat /\ small \in BOOLEAN
  BY DEF ReaderInv, TypeOK
<1>1. CASE Resize
  BY <1>1, ResizeKeeps
<1>9. CASE ResizeFails
  <2>1. small' \in BOOLEAN
    BY <1>9, Zenon DEF ResizeFails
  <2> QED
    BY <1>0, <1>9, <2>1, IdleKeeps DEF ResizeFails, config
<1>2. CASE KeepSize
  BY <1>0, <1>2, IdleKeeps DEF KeepSize, config
<1>3. CASE Take
  BY <1>3, TakeKeeps
<1>4. CASE MakeRoom
  BY <1>4, MakeRoomKeeps
<1>5. CASE Overflow
  <2>1. wanted' \in Nat \ {0} /\ block' \in Nat
    BY <1>0, <1>5, ReaderAssumption DEF Overflow
  <2>2. small' \in BOOLEAN
    BY <1>0, <1>5, Zenon DEF Overflow
  <2>3. pc' \in {"top", "dead"} /\ UNCHANGED <<sent, received, buffer, consumed, confused>>
    BY <1>5 DEF Overflow
  <2> QED
    BY <2>1, <2>2, <2>3, IdleKeeps
<1>6. CASE Receive
  BY <1>6, ReceiveKeeps
<1>7. CASE Reload
  <2>1. wanted' \in Nat \ {0} /\ block' \in Nat
    BY <1>7, ReaderAssumption DEF Reload
  <2>2. small' \in BOOLEAN
    BY <1>7, Zenon DEF Reload
  <2> QED
    BY <1>7, <2>1, <2>2, IdleKeeps DEF Reload
<1>8. CASE UNCHANGED vars
  BY <1>0, <1>8, IdleKeeps DEF vars, config
<1> QED
  BY <1>1, <1>2, <1>3, <1>4, <1>5, <1>6, <1>7, <1>8, <1>9 DEF Next, Step

\* The invariant of the buffer.
LEMMA ReaderAlways == Spec => []ReaderInv
BY ReaderInit, ReaderStep, PTL DEF Spec

\* The pointers stay inside the buffer, and what lies between them is the part
\* of the stream that was received and not yet handed over, through every wrap
\* of the buffer, every resize and every reload, until one of the known faults.
THEOREM StreamAlwaysKept == Spec => []StreamKept
<1>1. ReaderInv => StreamKept
  BY KeptIsInStep DEF ReaderInv, StreamKept
<1> QED
  BY <1>1, ReaderAlways, PTL

---------------------------------------------------------------------------
(* The scanner finds in the buffer what it would find in the text alone.   *)

\* The distance of two cells tells whether "/" and ">" stand together.
Straight(text, places, k) ==
    /\ \A i \in 1..k : places[i] \in Nat
    /\ \A i \in 1..k : \A j \in 1..i - 1 : places[i] - places[j] = 1 => j = i - 1
    /\ \A i \in 2..k : (text[i - 1] = "/" /\ text[i] = ">")
                          => places[i] - places[i - 1] = 1

\* Two scanners that have seen the same characters in different places.
Alike(a, b, text, places, i) ==
    /\ a.quote = b.quote /\ a.tag = b.tag /\ a.level = b.level /\ a.size = b.size
    /\ \/ a.closing = NoTag /\ b.closing = NoTag
       \/ \E j \in 1..i : a.closing = places[j] /\ b.closing = j /\ text[j] = "/"

\* The states NextChar may lead to.
Opened(s) == [s EXCEPT !.level = @ + 1, !.tag = TRUE]
Slashed(s, place) == [s EXCEPT !.closing = place]
Closed(s, level, i) ==
    [s EXCEPT !.level = level, !.tag = FALSE, !.closing = NoTag,
              !.size = IF level = 0 THEN i ELSE 0]
Untagged(s) == [s EXCEPT !.tag = FALSE]
Quoted(s) == [s EXCEPT !.quote = TRUE]

\* A character that the scanner reads outside of a quote, case by case.
LEMMA NextCharIs ==
    ASSUME NEW s, NEW c, NEW place, NEW i
    PROVE  /\ c = "<" => NextChar(s, c, place, i) = Opened(s)
           /\ (c = "/" /\ s.tag) => NextChar(s, c, place, i) = Slashed(s, place)
           /\ (c = ">" /\ s.tag /\ s.closing # NoTag) =>
                NextChar(s, c, place, i) = Closed(s, Closes(s, place), i)
           /\ (c = ">" /\ ~(s.tag /\ s.closing # NoTag)) =>
                NextChar(s, c, place, i) = Untagged(s)
           /\ c = Quote => NextChar(s, c, place, i) = Quoted(s)
           /\ (c # "<" /\ ~(c = "/" /\ s.tag) /\ c # ">" /\ c # Quote) =>
                NextChar(s, c, place, i) = s
<1>1. NextChar(s, c, place, i) =
        CASE c = "<" -> Opened(s)
          [] c = "/" /\ s.tag -> Slashed(s, place)
          [] c = ">" /\ s.tag /\ s.closing # NoTag -> Closed(s, Closes(s, place), i)
          [] c = ">" /\ ~(s.tag /\ s.closing # NoTag) -> Untagged(s)
          [] c = Quote -> Quoted(s)
          [] OTHER -> s
  BY DEF NextChar, Opened, Slashed, Closed, Untagged, Quoted
<1> QED
  BY <1>1 DEF Quote

\* Scanners that see the same characters at the same distances agree.
LEMMA ScanAlike ==
    ASSUME NEW text, NEW places, NEW k \in Nat, Straight(text, places, k),
           NEW i \in 1..k, NEW a \in States, NEW b \in States,
           Alike(a, b, text, places, i - 1)
    PROVE  Alike(Scan(a, text[i], places[i], i), Scan(b, text[i], i, i), text, places, i)
<1> DEFINE c == text[i]
           p == places[i]
<1>1. p \in Nat /\ i \in Nat /\ NoTag = -1
  BY DEF Straight, NoTag
<1>2. /\ a.quote = b.quote /\ a.tag = b.tag /\ a.level = b.level /\ a.size = b.size
      /\ a.quote \in BOOLEAN /\ a.tag \in BOOLEAN /\ a.size \in Nat /\ a.level \in Int
  BY DEF Alike, States
<1>3. \/ a.closing = NoTag /\ b.closing = NoTag
      \/ \E j \in 1..i : a.closing = places[j] /\ b.closing = j /\ text[j] = "/"
  BY DEF Alike
<1>4. a.closing = NoTag <=> b.closing = NoTag
  <2>1. \A j \in 1..i : places[j] \in Nat /\ j \in Nat
    BY DEF Straight
  <2> QED
    BY <1>1, <1>3, <2>1
<1>5. ASSUME a.closing # NoTag, c = ">"
      PROVE  Closes(a, p) = Closes(b, i)
  <2>1. PICK j \in 1..i - 1 : a.closing = places[j] /\ b.closing = j /\ text[j] = "/"
    BY <1>5 DEF Alike
  <2>2. p - places[j] = 1 <=> i - j = 1
    <3>1. CASE j = i - 1
      <4>1. i \in 2..k /\ text[i - 1] = "/" /\ text[i] = ">"
        BY <1>5, <2>1, <3>1
      <4> QED
        BY <1>1, <3>1, <4>1 DEF Straight
    <3>2. CASE j # i - 1
      BY <1>1, <2>1, <3>2 DEF Straight
    <3> QED
      BY <3>1, <3>2
  <2> QED
    BY <1>2, <2>1, <2>2 DEF Closes
<1>6. CASE a.size # 0
  <2>1. Scan(a, c, p, i) = a /\ Scan(b, c, i, i) = b
    BY <1>1, <1>2, <1>6, ScanTyped
  <2> HIDE DEF c, p
  <2> QED
    BY <1>2, <1>3, <2>1 DEF Alike, c, p
<1>7. CASE a.size = 0 /\ a.quote
  <2>1. Scan(a, c, p, i) = NextInQuote(a, c) /\ Scan(b, c, i, i) = NextInQuote(b, c)
    BY <1>2, <1>7 DEF Scan
  <2> DEFINE q == c # Quote
  <2>2. /\ NextInQuote(a, c) = [a EXCEPT !.quote = q]
        /\ NextInQuote(b, c) = [b EXCEPT !.quote = q]
    BY DEF NextInQuote
  <2> HIDE DEF c, p, q
  <2> QED
    BY <1>2, <1>3, <2>1, <2>2 DEF Alike, States, c, p
<1>8. CASE a.size = 0 /\ ~a.quote
  <2>1. /\ Scan(a, c, p, i) = NextChar(a, c, p, i)
        /\ Scan(b, c, i, i) = NextChar(b, c, i, i)
    BY <1>2, <1>8 DEF Scan
  <2>2. /\ a \in States /\ b \in States /\ ~a.quote /\ ~b.quote
        /\ a.tag = b.tag /\ a.level = b.level /\ a.size = b.size
    BY <1>2, <1>8
  <2>3. Alike(NextChar(a, c, p, i), NextChar(b, c, i, i), text, places, i)
    <3> HIDE DEF c, p
    <3>1. CASE c = "<"
      <4>1. /\ NextChar(a, c, p, i) = Opened(a)
            /\ NextChar(b, c, i, i) = Opened(b)
        BY <3>1, NextCharIs
      <4> QED
        BY <1>2, <1>3, <4>1 DEF Alike, States, Opened
    <3>2. CASE c = "/" /\ a.tag
      <4>1. /\ NextChar(a, c, p, i) = Slashed(a, p)
            /\ NextChar(b, c, i, i) = Slashed(b, i)
        BY <3>2, <2>2, NextCharIs
      <4>2. text[i] = "/" /\ p = places[i] /\ i \in 1..i
        BY <3>2, <1>1 DEF c, p
      <4> QED
        BY <1>2, <4>1, <4>2 DEF Alike, States, Slashed
    <3>3. CASE c = ">" /\ a.tag /\ a.closing # NoTag
      <4> DEFINE m == Closes(a, p)
      <4>1. Closes(a, p) = Closes(b, i)
        BY <1>5, <3>3
      <4>2. NextChar(a, c, p, i) = Closed(a, m, i)
        BY <3>3, NextCharIs
      <4>3. NextChar(b, c, i, i) = Closed(b, m, i)
        BY <3>3, <1>4, <2>2, <4>1, NextCharIs
      <4> HIDE DEF m
      <4> QED
        BY <1>2, <4>2, <4>3 DEF Alike, States, Closed
    <3>4. CASE c = ">" /\ ~(a.tag /\ a.closing # NoTag)
      <4>1. /\ NextChar(a, c, p, i) = Untagged(a)
            /\ NextChar(b, c, i, i) = Untagged(b)
        BY <3>4, <1>4, <2>2, NextCharIs
      <4> QED
        BY <1>2, <1>3, <4>1 DEF Alike, States, Untagged
    <3>5. CASE c = Quote
      <4>1. /\ NextChar(a, c, p, i) = Quoted(a)
            /\ NextChar(b, c, i, i) = Quoted(b)
        BY <3>5, NextCharIs
      <4> QED
        BY <1>2, <1>3, <4>1 DEF Alike, States, Quoted
    <3>6. CASE c # "<" /\ ~(c = "/" /\ a.tag) /\ c # ">" /\ c # Quote
      <4>1. NextChar(a, c, p, i) = a /\ NextChar(b, c, i, i) = b
        BY <3>6, <2>2, NextCharIs
      <4> QED
        BY <1>2, <1>3, <4>1 DEF Alike
    <3> QED
      BY <3>1, <3>2, <3>3, <3>4, <3>5, <3>6
  <2> QED
    BY <2>1, <2>3
<1> QED
  BY <1>2, <1>6, <1>7, <1>8

\* The places of the characters of a text that stands alone.
Own(t) == [i \in 1..Len(t) |-> i]

\* As long as the characters are the same, so is the size that was found.
LEMMA SameSize ==
    ASSUME NEW text, Len(text) \in Nat, NEW t, Len(t) \in Nat,
           NEW places, Straight(text, places, Len(text)),
           NEW f, Scanned(f, text, places),
           NEW g, Scanned(g, t, Own(t)),
           NEW k \in Nat, k <= Len(text), k <= Len(t),
           \A i \in 1..k : text[i] = t[i]
    PROVE  f[k].size = g[k].size
<1> DEFINE T == {i \in 0..k : Alike(f[i], g[i], text, places, i)}
<1>1. 0 \in T
  BY DEF Scanned, Alike, Start
<1>2. ASSUME NEW i \in 1..k, i - 1 \in T PROVE i \in T
  <2>1. /\ i \in 1..Len(text) /\ i \in 1..Len(t)
        /\ i - 1 \in 0..Len(text) /\ i - 1 \in 0..Len(t)
    OBVIOUS
  <2>2. /\ f[i - 1] \in States /\ f[i] = Scan(f[i - 1], text[i], places[i], i)
        /\ g[i - 1] \in States
    BY <2>1 DEF Scanned
  <2>3. g[i] = Scan(g[i - 1], text[i], i, i)
    <3>1. g[i] = Scan(g[i - 1], t[i], Own(t)[i], i)
      BY <2>1 DEF Scanned
    <3>2. Own(t)[i] = i /\ t[i] = text[i]
      BY <2>1 DEF Own
    <3> QED
      BY <3>1, <3>2
  <2>4. Alike(f[i - 1], g[i - 1], text, places, i - 1)
    BY <1>2
  <2>5. Alike(Scan(f[i - 1], text[i], places[i], i), Scan(g[i - 1], text[i], i, i),
              text, places, i)
    BY <2>1, <2>2, <2>4, ScanAlike
  <2>6. Alike(f[i], g[i], text, places, i)
    BY <2>2, <2>3, <2>5
  <2> QED
    BY <2>6
<1>3. k \in T
  <2>1. 0..k \subseteq T
    <3> HIDE DEF T
    <3> QED
      BY <1>1, <1>2, Induct
  <2> QED
    BY <2>1
<1> QED
  BY <1>3 DEF Alike

\* Unless a tag is split, the scanner can tell the cells apart.
LEMMA StraightCells ==
    ASSUME Pointers, ~SplitTag
    PROVE  Straight(Content, Spots, Pending)
<1>1. /\ size \in Nat /\ size > 0 /\ data \in 0..size /\ end \in 0..size
      /\ Pending \in 0..size
      /\ \A i \in 1..Pending : Content[i] = mem[Cell(i)] /\ Spots[i] = Cell(i)
  BY ContentTyped DEF Pointers
<1>2. \A i \in 1..Pending :
         /\ Cell(i) \in 0..size - 1
         /\ Cell(i) = IF data + i - 1 < size THEN data + i - 1 ELSE data + i - 1 - size
  BY PendingCells, Places DEF Pointers
<1>3. ASSUME NEW i \in 1..Pending, NEW j \in 1..i - 1, Cell(i) - Cell(j) = 1
      PROVE  j = i - 1
  <2>1. j \in 1..Pending
    BY <1>1
  <2> QED
    BY <1>1, <1>2, <1>3, <2>1
<1>4. ASSUME NEW i \in 2..Pending, Content[i - 1] = "/", Content[i] = ">"
      PROVE  Cell(i) - Cell(i - 1) = 1
  <2>1. i - 1 \in 1..Pending - 1 /\ i \in 1..Pending /\ i - 1 \in 1..Pending /\ (i - 1) + 1 = i
    BY <1>1
  <2>2. mem[Cell(i - 1)] = "/" /\ mem[Cell((i - 1) + 1)] = ">"
    BY <1>1, <1>4, <2>1
  <2>3. ~(Cell(i - 1) = size - 1 /\ Cell((i - 1) + 1) = 0)
    BY <2>1, <2>2 DEF SplitTag
  <2> QED
    BY <1>1, <1>2, <2>1, <2>3
<1>5. \A i \in 1..Pending : Spots[i] \in Nat
  BY <1>1, <1>2
<1>6. \A i \in 1..Pending : \A j \in 1..i - 1 : j \in 1..Pending
  BY <1>1
<1>7. \A i \in 2..Pending : i \in 1..Pending /\ i - 1 \in 1..Pending
  BY <1>1
<1> QED
  BY <1>1, <1>3, <1>4, <1>5, <1>6, <1>7 DEF Straight

\* A stanza in the buffer is found when it is complete, and not before.
LEMMA NodeFound ==
    ASSUME Pointers, ~SplitTag, NEW s \in Stanzas,
           \A i \in 1..Smaller(Pending, Len(s)) : mem[Cell(i)] = s[i]
    PROVE  xmlfsm_skip_node = IF Len(s) <= Pending THEN Len(s) ELSE 0
<1>1. /\ Len(Content) = Pending /\ Len(Content) \in Nat /\ Pending \in Nat
      /\ \A i \in 1..Pending : Content[i] = mem[Cell(i)]
      /\ \A i \in 1..Len(Content) : Spots[i] \in Int
      /\ xmlfsm_skip_node = NodeSize(Content, Spots)
  BY ContentTyped DEF Pointers
<1>2. PICK f : Scanned(f, Content, Spots) /\ xmlfsm_skip_node = f[Pending].size
  BY <1>1, ScanTrace
<1>3. /\ s \in Seq(STRING) /\ Len(s) \in Nat /\ Len(s) > 0
      /\ NodeSize(s, Own(s)) = Len(s) /\ \A i \in 1..Len(s) : Own(s)[i] \in Int
  BY ReaderAssumption, NodeAssumption DEF Own
<1>4. PICK g : Scanned(g, s, Own(s)) /\ NodeSize(s, Own(s)) = g[Len(s)].size
  BY <1>3, ScanTrace
<1>5. /\ \A i \in 0..Len(s) : g[i].size \in 0..i
      /\ \A i \in 0..Len(s) : g[i].size # 0 => g[Len(s)].size = g[i].size
  BY <1>3, <1>4, SizesGrow
<1>6. \A i \in 0..Len(Content) : f[i].size # 0 => f[Len(Content)].size = f[i].size
  BY <1>1, <1>2, SizesGrow
<1>7. ASSUME NEW k \in Nat, k <= Pending, k <= Len(s)
      PROVE  f[k].size = g[k].size
  <2>1. Straight(Content, Spots, Len(Content))
    BY <1>1, StraightCells
  <2>2. \A i \in 1..k : Content[i] = s[i]
    <3>1. \A i \in 1..k : i \in 1..Smaller(Pending, Len(s)) /\ i \in 1..Pending
      BY <1>1, <1>3, <1>7 DEF Smaller
    <3> QED
      BY <1>1, <3>1
  <2>3. /\ Len(Content) \in Nat /\ Len(s) \in Nat /\ k <= Len(Content) /\ k <= Len(s)
        /\ Scanned(f, Content, Spots) /\ Scanned(g, s, Own(s)) /\ k \in Nat
    BY <1>1, <1>2, <1>3, <1>4, <1>7
  <2> QED
    BY <2>1, <2>2, <2>3, SameSize
<1>8. CASE Len(s) <= Pending
  <2>1. f[Len(s)].size = Len(s)
    BY <1>3, <1>4, <1>7, <1>8
  <2>2. Len(s) \in 0..Len(Content) /\ Len(s) # 0
    BY <1>1, <1>3, <1>8
  <2> QED
    BY <1>1, <1>2, <1>6, <1>8, <2>1, <2>2
<1>9. CASE ~(Len(s) <= Pending)
  <2>1. Pending \in 0..Len(s) /\ Pending <= Len(s) /\ Pending # Len(s)
    BY <1>1, <1>3, <1>9
  <2>2. f[Pending].size = g[Pending].size
    BY <1>1, <1>7, <2>1
  <2>3. g[Pending].size \in 0..Pending
    BY <1>5, <2>1
  <2>4. g[Pending].size # 0 => Len(s) = g[Pending].size
    BY <1>3, <1>4, <1>5, <2>1
  <2>5. g[Pending].size = 0
    BY <1>1, <1>3, <1>9, <2>3, <2>4
  <2> QED
    BY <1>2, <1>9, <2>2, <2>5
<1> QED
  BY <1>8, <1>9

---------------------------------------------------------------------------
(* What is handed over.                                                    *)

\* Where the k-th part of a flattened sequence is.
PieceAt(f, seqs, k) ==
    /\ Len(f[k - 1]) \in Nat /\ Len(f[k]) = Len(f[k - 1]) + Len(seqs[k])
    /\ Len(f[k]) <= Len(f[Len(seqs)])
    /\ \A i \in 1..Len(seqs[k]) : f[Len(seqs)][Len(f[k - 1]) + i] = seqs[k][i]

\* Pieces of a sequence, put together.
LEMMA Pieces ==
    ASSUME NEW C, NEW seqs \in Seq(Seq(C)), NEW f, Flattens(f, seqs, C),
           NEW k \in 1..Len(seqs)
    PROVE  PieceAt(f, seqs, k)
<1> DEFINE n == Len(seqs)
<1>1. /\ n \in Nat /\ n \in 0..n /\ k \in 0..n /\ k - 1 \in 0..n /\ k <= n
      /\ \A i \in 1..n : seqs[i] \in Seq(C)
  OBVIOUS
<1> HIDE DEF n
<1>2. \A i \in 0..n : f[i] \in Seq(C) /\ Len(f[i]) \in Nat
  BY DEF Flattens, n
<1>3. ASSUME NEW j \in 1..n
      PROVE  /\ Len(f[j]) = Len(f[j - 1]) + Len(seqs[j])
             /\ \A i \in 1..Len(f[j - 1]) : f[j][i] = f[j - 1][i]
             /\ \A i \in 1..Len(seqs[j]) : f[j][Len(f[j - 1]) + i] = seqs[j][i]
  <2> DEFINE a == f[j - 1]
             b == seqs[j]
  <2>1. j - 1 \in 0..n
    BY <1>1
  <2>2. a \in Seq(C) /\ b \in Seq(C) /\ f[j] = a \o b
    BY <1>1, <1>2, <2>1 DEF Flattens, n
  <2> HIDE DEF a, b
  <2>3. /\ Len(f[j]) = Len(a) + Len(b) /\ Len(a) \in Nat /\ Len(b) \in Nat
        /\ \A i \in 1..Len(a) + Len(b) :
              f[j][i] = IF i <= Len(a) THEN a[i] ELSE b[i - Len(a)]
    BY <2>2, ConcatProperties
  <2>4. \A i \in 1..Len(a) : f[j][i] = a[i]
    BY <2>3
  <2>5. \A i \in 1..Len(b) : f[j][Len(a) + i] = b[i]
    <3> TAKE i \in 1..Len(b)
    <3>1. /\ Len(a) + i \in 1..Len(a) + Len(b) /\ ~(Len(a) + i <= Len(a))
          /\ (Len(a) + i) - Len(a) = i
      BY <2>3
    <3> QED
      BY <2>3, <3>1
  <2> QED
    BY <2>3, <2>4, <2>5 DEF a, b
<1> DEFINE T == {j \in 0..n : k <= j => /\ Len(f[k]) <= Len(f[j])
                                        /\ \A i \in 1..Len(f[k]) : f[j][i] = f[k][i]}
<1>4. n \in T
  <2>1. 0 \in T
    BY <1>1
  <2>2. ASSUME NEW j \in 1..n, j - 1 \in T PROVE j \in T
    <3>1. CASE k <= j - 1
      <4>1. /\ Len(f[k]) <= Len(f[j - 1])
            /\ \A i \in 1..Len(f[k]) : f[j - 1][i] = f[k][i]
        BY <2>2, <3>1
      <4>2. /\ j - 1 \in 0..n /\ j \in 0..n /\ Len(f[j - 1]) \in Nat
            /\ Len(f[k]) \in Nat /\ Len(seqs[j]) \in Nat
        BY <1>1, <1>2
      <4>3. /\ Len(f[j]) = Len(f[j - 1]) + Len(seqs[j])
            /\ \A i \in 1..Len(f[j - 1]) : f[j][i] = f[j - 1][i]
        BY <1>3
      <4>4. Len(f[k]) <= Len(f[j])
        <5> DEFINE x == Len(f[k])
                   y == Len(f[j - 1])
                   z == Len(seqs[j])
        <5>1. x \in Nat /\ y \in Nat /\ z \in Nat /\ x <= y /\ Len(f[j]) = y + z
          BY <4>1, <4>2, <4>3
        <5> HIDE DEF x, y, z
        <5>2. x <= Len(f[j])
          BY <5>1
        <5> QED
          BY <5>2 DEF x
      <4>5. \A i \in 1..Len(f[k]) : f[j][i] = f[k][i]
        <5> TAKE i \in 1..Len(f[k])
        <5>1. i \in 1..Len(f[j - 1])
          BY <4>1, <4>2
        <5> QED
          BY <4>1, <4>3, <5>1
      <4> QED
        BY <4>2, <4>4, <4>5
    <3>2. CASE ~(k <= j - 1)
      <4>1. k <= j => k = j
        BY <1>1, <3>2
      <4>2. j \in 0..n /\ Len(f[j]) \in Nat
        BY <1>1, <1>2
      <4> QED
        BY <4>1, <4>2
    <3> QED
      BY <3>1, <3>2
  <2>3. 0..n \subseteq T
    <3> HIDE DEF T
    <3> QED
      BY <1>1, <2>1, <2>2, Induct
  <2> QED
    BY <1>1, <2>3
<1>5. /\ Len(f[k]) <= Len(f[n])
      /\ \A i \in 1..Len(f[k]) : f[n][i] = f[k][i]
  BY <1>1, <1>4
<1>6. /\ Len(f[k]) = Len(f[k - 1]) + Len(seqs[k])
      /\ \A i \in 1..Len(seqs[k]) : f[k][Len(f[k - 1]) + i] = seqs[k][i]
  BY <1>1, <1>3 DEF n
<1>7. Len(f[k - 1]) \in Nat /\ Len(seqs[k]) \in Nat
  BY <1>1, <1>2
<1>8. \A i \in 1..Len(seqs[k]) : f[n][Len(f[k - 1]) + i] = seqs[k][i]
  <2> TAKE i \in 1..Len(seqs[k])
  <2>1. Len(f[k - 1]) + i \in 1..Len(f[k])
    <3> DEFINE x == Len(f[k - 1])
               y == Len(seqs[k])
    <3>1. x \in Nat /\ y \in Nat /\ Len(f[k]) = x + y /\ i \in 1..y
      BY <1>6, <1>7
    <3> HIDE DEF x, y
    <3>2. x + i \in 1..Len(f[k])
      BY <3>1
    <3> QED
      BY <3>2 DEF x
  <2> QED
    BY <1>5, <1>6, <2>1
<1> QED
  BY <1>5, <1>6, <1>7, <1>8 DEF n, PieceAt

\* The entry of a complete stanza.
LEMMA EntryFaithful ==
    ASSUME Pointers, block \in Nat, NEW s \in Stanzas, Len(s) <= Pending,
           \A i \in 1..Len(s) : mem[Cell(i)] = s[i],
           NEW e, e = Cell(Len(s)) + 1
    PROVE  Faithful([data |-> EntryData(Len(s), e), limit |-> block,
                     wrapped |-> e < data], s)
<1> DEFINE n == Len(s)
           Chars == STRING \cup {Junk}
           entry == [data |-> EntryData(n, e), limit |-> block, wrapped |-> e < data]
<1>1. s \in Seq(Chars) /\ n \in Nat /\ n > 0
  BY ReaderAssumption
<1>2. /\ size \in Nat /\ data \in 0..size /\ end \in 0..size /\ Pending \in Nat
      /\ Pending = IF data > end THEN size - data + end ELSE end - data
  BY CellPlaces DEF Pointers, Pending, Wrapped
<1>3. e = IF data + n - 1 < size THEN data + n ELSE data + n - size
  <2>1. n \in 1..Pending
    BY <1>1, <1>2
  <2>2. Cell(n) = IF data + n - 1 < size THEN data + n - 1 ELSE data + n - 1 - size
    BY <2>1, PendingCells, Places DEF Pointers
  <2> QED
    BY <1>1, <1>2, <2>2
<1>4. e \in Nat
  BY <1>1, <1>2, <1>3
<1>5. /\ ~(e < data) => StanzaSize(e) = n
      /\ e < data => StanzaSize(e) \in Nat /\ StanzaSize(e) >= n
  <2>1. ~(e < data) => e = data + n
    BY <1>1, <1>2, <1>3
  <2>2. e < data => e = data + n - size
    BY <1>1, <1>2, <1>3
  <2> QED
    BY <1>1, <1>2, <1>4, <2>1, <2>2 DEF StanzaSize
<1> DEFINE m == StanzaSize(e)
           copy == [i \in 1..m |-> IF i <= n THEN mem[Cell(i)] ELSE Junk]
<1>6. EntryData(n, e) = IF block # 0 /\ block < m THEN <<>> ELSE copy
  BY DEF EntryData
<1>7. m \in Nat /\ m >= n
  BY <1>1, <1>5
<1> HIDE DEF m, n
<1>8. /\ copy \in Seq(Chars) /\ Len(copy) = m
      /\ \A i \in 1..n : copy[i] = s[i]
  <2>1. \A i \in 1..n : mem[Cell(i)] = s[i] /\ s[i] \in Chars
    BY <1>1 DEF n
  <2>3. \A i \in 1..m : (IF i <= n THEN mem[Cell(i)] ELSE Junk) \in Chars
    <3> TAKE i \in 1..m
    <3>1. i <= n => i \in 1..n
      BY <1>1, <1>7
    <3> QED
      BY <2>1, <3>1
  <2>4. \A i \in 1..n : i \in 1..m /\ i <= n
    BY <1>1, <1>7
  <2> QED
    BY <1>7, <2>1, <2>3, <2>4
<1>9. entry.data = EntryData(n, e) /\ entry.limit = block /\ entry.wrapped = (e < data)
  OBVIOUS
<1> HIDE DEF entry, Chars
<1>10. CASE ~(e < data)
  <2>1. m = n
    BY <1>5, <1>10 DEF m
  <2>2. copy = s
    <3> HIDE DEF copy, Chars
    <3> QED
      BY <1>1, <1>8, <2>1, SeqEqual DEF n
  <2>3. EntryData(n, e) = IF block # 0 /\ block < n THEN <<>> ELSE s
    BY <1>6, <2>1, <2>2
  <2> QED
    BY <1>9, <1>10, <2>3 DEF Faithful, n, entry
<1>11. CASE e < data
  <2>1. IsPrefix(s, copy)
    <3> HIDE DEF copy, Chars
    <3>1. n \in Int /\ 1 \in Int /\ n - 1 + 1 = n
      BY <1>1
    <3>2. \A i \in 1..n : s[i] \in Chars /\ copy[i] \in Chars
      BY <1>1, <1>8 DEF n
    <3>3. /\ SubSeq(s, 1, n) \in Seq(Chars) /\ Len(SubSeq(s, 1, n)) = n
          /\ \A i \in 1..n : SubSeq(s, 1, n)[i] = s[i]
      BY <1>1, <3>1, <3>2, SubSeqProperties
    <3>4. /\ SubSeq(copy, 1, n) \in Seq(Chars) /\ Len(SubSeq(copy, 1, n)) = n
          /\ \A i \in 1..n : SubSeq(copy, 1, n)[i] = copy[i]
      BY <1>1, <3>1, <3>2, SubSeqProperties
    <3>5. SubSeq(s, 1, n) = SubSeq(copy, 1, n)
      BY <1>8, <3>3, <3>4, SeqEqual
    <3> QED
      BY <1>7, <1>8, <3>5 DEF IsPrefix, n
  <2>2. entry.data = <<>> \/ IsPrefix(s, entry.data)
    <3> HIDE DEF copy, Chars
    <3> QED
      BY <1>6, <1>9, <2>1
  <2> QED
    BY <1>9, <1>11, <2>2 DEF Faithful, entry, n
<1> QED
  BY <1>10, <1>11

\* f[i] is what the first i stanzas of the stream make, and the reader stands
\* behind those it handed over.
Ordered(f) ==
    /\ Flattens(f, sent, STRING) /\ Stream = f[Len(sent)]
    /\ Len(handed) \in 0..Len(sent)
    /\ consumed = Len(f[Len(handed)])
    /\ \A i \in 1..Len(handed) : Faithful(handed[i], sent[i])

OrderInv ==
    /\ ReaderInv
    /\ \E S : handed \in Seq(S)
    /\ ~confused => \E f : Ordered(f)

\* The next node the scanner finds is the next stanza, once it is complete.
LEMMA NextNode ==
    ASSUME ReaderInv, ~confused, ~SplitTag, NEW f, Ordered(f)
    PROVE  \/ Len(handed) = Len(sent) /\ Pending = 0 /\ xmlfsm_skip_node = 0
           \/ LET s == sent[Len(handed) + 1] IN
                 /\ Len(handed) < Len(sent)
                 /\ \A i \in 1..Smaller(Pending, Len(s)) : mem[Cell(i)] = s[i]
                 /\ xmlfsm_skip_node = IF Len(s) <= Pending THEN Len(s) ELSE 0
<1>1. /\ Pointers /\ Pending \in Nat /\ consumed + Pending = received
      /\ \A i \in 1..Pending : mem[Cell(i)] = Stream[consumed + i]
  BY CellPlaces DEF ReaderInv, TypeOK, Kept, Pointers
<1>2. /\ sent \in Seq(Stanzas) /\ sent \in Seq(Seq(STRING))
      /\ received <= Len(Stream) /\ Len(Stream) \in Nat /\ received \in Nat
      /\ consumed \in Nat
  BY ReaderAssumption, StreamTyped DEF ReaderInv, TypeOK, Stream
<1> DEFINE k == Len(handed)
           n == Len(sent)
<1>3. /\ n \in Nat /\ k \in 0..n /\ Flattens(f, sent, STRING) /\ Stream = f[n]
      /\ consumed = Len(f[k])
  BY <1>2 DEF Ordered
<1>4. xmlfsm_skip_node \in 0..Pending
  BY <1>1, NodeFits
<1>5. CASE k = n
  <2>1. consumed = Len(Stream)
    BY <1>3, <1>5
  <2>2. Pending = 0
    BY <1>1, <1>2, <2>1
  <2>3. xmlfsm_skip_node = 0
    BY <1>4, <2>2
  <2> QED
    BY <1>5, <2>2, <2>3
<1>6. CASE k # n
  <2> DEFINE s == sent[k + 1]
  <2>1. k < n /\ k + 1 \in 1..n /\ (k + 1) - 1 = k
    BY <1>3, <1>6
  <2>2. s \in Stanzas /\ Len(s) \in Nat
    BY <1>2, <2>1, ReaderAssumption
  <2>3. \A i \in 1..Len(s) : Stream[consumed + i] = s[i]
    <3>1. \A i \in 1..Len(s) : f[n][Len(f[(k + 1) - 1]) + i] = s[i]
      <4> DEFINE j == k + 1
      <4>1. j \in 1..Len(sent) /\ sent \in Seq(Seq(STRING)) /\ Flattens(f, sent, STRING)
        BY <1>2, <1>3, <2>1
      <4> HIDE DEF j
      <4>2. PieceAt(f, sent, j)
        BY <4>1, Pieces
      <4> QED
        BY <4>2 DEF j, PieceAt
    <3> QED
      BY <1>3, <2>1, <3>1
  <2>4. \A i \in 1..Smaller(Pending, Len(s)) : mem[Cell(i)] = s[i]
    <3>1. \A i \in 1..Smaller(Pending, Len(s)) : i \in 1..Pending /\ i \in 1..Len(s)
      BY <1>1, <2>2 DEF Smaller
    <3> QED
      BY <1>1, <2>3, <3>1
  <2>5. xmlfsm_skip_node = IF Len(s) <= Pending THEN Len(s) ELSE 0
    <3> HIDE DEF s
    <3> QED
      BY <1>1, <2>2, <2>4, NodeFound
  <2> QED
    BY <2>1, <2>4, <2>5
<1> QED
  BY <1>5, <1>6

\* Nothing was handed over at first.
LEMMA OrderInit == Init => OrderInv
<1> SUFFICES ASSUME Init PROVE OrderInv
  OBVIOUS
<1>1. ReaderInv /\ sent \in Seq(Seq(STRING))
  BY ReaderInit, ReaderAssumption DEF ReaderInv, TypeOK
<1>2. handed = <<>> /\ consumed = 0
  BY DEF Init
<1>3. handed \in Seq({}) /\ Len(handed) = 0
  BY <1>2
<1>4. PICK f : Flattens(f, sent, STRING) /\ FlattenSeq(sent) = f[Len(sent)]
  BY <1>1, Flattened
<1>5. Ordered(f)
  <2>1. f[Len(handed)] = <<>> /\ Len(sent) \in Nat
    BY <1>1, <1>3, <1>4 DEF Flattens
  <2> QED
    BY <1>2, <1>3, <1>4, <2>1 DEF Ordered, Stream
<1> QED
  BY <1>1, <1>3, <1>5 DEF OrderInv

\* A stanza is handed over.
LEMMA TakeOrders == ASSUME OrderInv, Take PROVE OrderInv'
<1>1. ReaderInv /\ ReaderInv'
  BY TakeKeeps DEF OrderInv
<1> DEFINE n == xmlfsm_skip_node
           e == Cell(n) + 1
           entry == [data |-> EntryData(n, e), limit |-> block, wrapped |-> e < data]
<1>2. /\ handed' = Append(handed, entry) /\ consumed' = consumed + n /\ n # 0
      /\ confused' = (confused \/ SplitTag) /\ UNCHANGED sent
  BY DEF Take
<1>3. PICK S : handed \in Seq(S)
  BY DEF OrderInv
<1>4. /\ handed' \in Seq(S \cup {entry}) /\ Len(handed) \in Nat
      /\ Len(handed') = Len(handed) + 1
      /\ handed'[Len(handed) + 1] = entry
      /\ \A i \in 1..Len(handed) : handed'[i] = handed[i]
  <2> HIDE DEF entry
  <2>1. handed \in Seq(S \cup {entry}) /\ entry \in S \cup {entry}
    BY <1>3
  <2> QED
    BY <1>2, <2>1, AppendProperties
<1>5. ASSUME ~confused'
      PROVE  \E f : Ordered(f)'
  <2>1. ~confused /\ ~SplitTag
    BY <1>2, <1>5
  <2>2. PICK f : Ordered(f)
    BY <2>1 DEF OrderInv
  <2> DEFINE k == Len(handed)
             s == sent[k + 1]
  <2>3. /\ k < Len(sent) /\ n = Len(s) /\ Len(s) <= Pending
        /\ \A i \in 1..Smaller(Pending, Len(s)) : mem[Cell(i)] = s[i]
    <3> HIDE DEF entry
    <3>1. n # 0
      BY <1>2
    <3> QED
      BY <1>1, <2>1, <2>2, <3>1, NextNode
  <2>4. /\ Pointers /\ block \in Nat /\ sent \in Seq(Stanzas)
        /\ sent \in Seq(Seq(STRING)) /\ Pending \in Nat
    BY <1>1, ReaderAssumption, CellPlaces DEF ReaderInv, TypeOK, Pointers
  <2>5. k + 1 \in 1..Len(sent) /\ (k + 1) - 1 = k /\ s \in Stanzas /\ Len(s) \in Nat
    BY <1>4, <2>3, <2>4, ReaderAssumption
  <2>6. \A i \in 1..Len(s) : mem[Cell(i)] = s[i]
    <3>1. Smaller(Pending, Len(s)) = Len(s)
      BY <2>3, <2>4, <2>5 DEF Smaller
    <3> QED
      BY <2>3, <3>1
  <2>7. Faithful(entry, s)
    <3> HIDE DEF s
    <3>1. Faithful([data |-> EntryData(Len(s), Cell(Len(s)) + 1), limit |-> block,
                    wrapped |-> Cell(Len(s)) + 1 < data], s)
      BY <2>3, <2>4, <2>5, <2>6, EntryFaithful
    <3>2. n = Len(s)
      BY <2>3
    <3> QED
      BY <3>1, <3>2
  <2>8. consumed' = Len(f[k + 1])
    <3>1. Len(f[k + 1]) = Len(f[(k + 1) - 1]) + Len(s)
      <4> DEFINE j == k + 1
      <4>1. j \in 1..Len(sent) /\ sent \in Seq(Seq(STRING)) /\ Flattens(f, sent, STRING)
        BY <2>2, <2>4, <2>5 DEF Ordered
      <4> HIDE DEF j
      <4>2. PieceAt(f, sent, j)
        BY <4>1, Pieces
      <4> QED
        BY <4>2 DEF j, PieceAt
    <3>2. consumed = Len(f[k])
      BY <2>2 DEF Ordered
    <3> QED
      BY <1>2, <2>3, <2>5, <3>1, <3>2
  <2>9. \A i \in 1..Len(handed') : Faithful(handed'[i], sent[i])
    <3> HIDE DEF entry
    <3> TAKE i \in 1..Len(handed')
    <3>1. CASE i = k + 1
      BY <1>4, <2>7, <3>1
    <3>2. CASE i # k + 1
      <4>1. i \in 1..k
        BY <1>4, <3>2
      <4> QED
        BY <1>4, <2>2, <4>1 DEF Ordered
    <3> QED
      BY <3>1, <3>2
  <2>10. Len(handed') \in 0..Len(sent')
    BY <1>2, <1>4, <2>3, <2>4
  <2>11. /\ Flattens(f, sent', STRING) /\ Stream' = f[Len(sent')]
         /\ consumed' = Len(f[Len(handed')])
         /\ \A i \in 1..Len(handed') : Faithful(handed'[i], sent'[i])
    BY <1>2, <1>4, <2>2, <2>8, <2>9 DEF Ordered, Stream
  <2> QED
    BY <2>10, <2>11 DEF Ordered, Flattens, Faithful, Stream
<1> QED
  BY <1>1, <1>4, <1>5 DEF OrderInv

\* What is handed over next is the next stanza.
LEMMA OrderStep == OrderInv /\ [Next]_vars => OrderInv'
<1> SUFFICES ASSUME OrderInv, [Next]_vars PROVE OrderInv'
  OBVIOUS
<1>1. CASE Take
  BY <1>1, TakeOrders
<1>2. CASE ~Take
  <2>1. UNCHANGED <<sent, handed, consumed>> /\ (~confused' => ~confused)
    <3>1. CASE Resize
      BY <3>1 DEF Resize
    <3>2. CASE MakeRoom
      BY <3>2 DEF MakeRoom
    <3>3. CASE Receive
      BY <3>3 DEF Receive
    <3>4. CASE KeepSize \/ ResizeFails \/ Overflow \/ Reload \/ UNCHANGED vars
      BY <3>4 DEF KeepSize, ResizeFails, Overflow, Reload, vars, config, buffer
    <3> QED
      BY <1>2, <3>1, <3>2, <3>3, <3>4 DEF Next, Step
  <2>2. ReaderInv'
    BY ReaderStep DEF OrderInv
  <2>3. ASSUME ~confused' PROVE \E f : Ordered(f)'
    <3>1. PICK f : Ordered(f)
      BY <2>1, <2>3 DEF OrderInv
    <3>2. /\ Flattens(f, sent', STRING) /\ Stream' = f[Len(sent')]
          /\ Len(handed') \in 0..Len(sent') /\ consumed' = Len(f[Len(handed')])
          /\ \A i \in 1..Len(handed') : Faithful(handed'[i], sent'[i])
      BY <2>1, <3>1 DEF Ordered, Stream
    <3> QED
      BY <3>2 DEF Ordered, Flattens, Faithful, Stream
  <2> QED
    BY <2>1, <2>2, <2>3 DEF OrderInv
<1> QED
  BY <1>1, <1>2

\* The invariant of what was handed over.
LEMMA OrderAlways == Spec => []OrderInv
BY OrderInit, OrderStep, PTL DEF Spec

\* The stanzas come out of the buffer one by one, in the order they were sent
\* and each cut off where it ends, however recv() cuts the stream and however
\* the buffer wraps and is resized, until one of the known faults.
THEOREM HandedAlwaysInOrder == Spec => []HandedInOrder
<1>1. OrderInv => HandedInOrder
  <2> SUFFICES ASSUME OrderInv, ~confused
               PROVE  /\ Len(handed) <= Len(sent)
                      /\ \A i \in 1..Len(handed) : Faithful(handed[i], sent[i])
    BY DEF HandedInOrder
  <2>1. PICK f : Ordered(f)
    BY DEF OrderInv
  <2>2. Len(sent) \in Nat
    BY DEF OrderInv, ReaderInv, TypeOK
  <2> QED
    BY <2>1, <2>2 DEF Ordered
<1> QED
  BY <1>1, OrderAlways, PTL

---------------------------------------------------------------------------
(* The death of the reader.                                                *)

\* The scanner is started with the buffer that was asked for, or what kept it
\* smaller is known.
Grown == pc = "scan" /\ wanted >= Enlarged => size >= Enlarged \/ small

Doomed ==
    pc = "dead" /\ ~confused =>
        /\ size >= Enlarged \/ small
        /\ Len(handed) < Len(sent) /\ Len(sent[Len(handed) + 1]) > size

DeathInv == OrderInv /\ Grown /\ Doomed

\* A full buffer holds nothing but the begin of the next stanza.
LEMMA FullOfOne ==
    ASSUME OrderInv, Overflow, ~confused
    PROVE  Len(handed) < Len(sent) /\ Len(sent[Len(handed) + 1]) > size
<1>1. ReaderInv /\ \E f : Ordered(f)
  BY DEF OrderInv
<1>2. /\ size \in Nat /\ size > 0 /\ data \in 0..size /\ end \in 0..size
      /\ sent \in Seq(Stanzas)
  BY <1>1 DEF ReaderInv, TypeOK
<1>3. xmlfsm_skip_node = 0 /\ get_continuous_block.length = 0
  BY DEF Overflow
<1>4. data = 0 /\ end = size
  BY <1>2, <1>3 DEF get_continuous_block, Wrapped
<1>5. Pending = size
  BY <1>2, <1>4 DEF Pending, Wrapped
<1>6. ~SplitTag
  <2>1. \A i \in 1..size - 1 : Cell(i) = i - 1
    <3> TAKE i \in 1..size - 1
    <3>1. i - 1 \in 0..2 * size - 1 /\ size \in Nat \ {0} /\ i - 1 < size
      BY <1>2
    <3>2. (i - 1) % size = i - 1
      BY <3>1, Around
    <3> QED
      BY <1>2, <1>4, <3>2 DEF Cell
  <2>2. \A i \in 1..Pending - 1 : Cell(i) # size - 1
    BY <1>2, <1>5, <2>1
  <2> QED
    BY <2>2 DEF SplitTag
<1>7. PICK f : Ordered(f)
  BY <1>1
<1> DEFINE s == sent[Len(handed) + 1]
<1>8. /\ Len(handed) < Len(sent)
      /\ xmlfsm_skip_node = IF Len(s) <= Pending THEN Len(s) ELSE 0
  BY <1>1, <1>2, <1>5, <1>6, <1>7, NextNode
<1>9. s \in Stanzas /\ Len(s) \in Nat /\ Len(s) > 0
  <2>1. Len(handed) + 1 \in 1..Len(sent)
    BY <1>2, <1>7, <1>8 DEF Ordered
  <2> QED
    BY <1>2, <2>1, ReaderAssumption
<1> HIDE DEF s
<1>10. Len(s) > size
  BY <1>2, <1>3, <1>5, <1>8, <1>9
<1> QED
  BY <1>8, <1>10 DEF s

\* The thread ends with its buffer full and without a node in it.
LEMMA DeathStep ==
    ASSUME DeathInv, [Next]_vars
    PROVE  DeathInv'
<1> USE DEF DeathInv
<1>1. OrderInv'
  BY OrderStep
<1>2. /\ wanted \in Nat /\ size \in Nat /\ Enlarged \in Nat
      /\ ReallocDataSize \in Int /\ sent \in Seq(Stanzas)
  BY ReaderAssumption DEF OrderInv, ReaderInv, TypeOK, ReallocDataSize
<1>3. Grown'
  <2>1. CASE Resize
    BY <1>2, <2>1 DEF Grown, Resize, Larger, config
  <2>2. CASE KeepSize
    BY <1>2, <2>2 DEF Grown, KeepSize, config, buffer
  <2>3. CASE ResizeFails
    <3> SUFFICES ASSUME wanted' >= Enlarged, ~(size' >= Enlarged) PROVE small'
      BY DEF Grown
    <3>1. size < Enlarged /\ Enlarged <= wanted
      BY <1>2, <2>3 DEF ResizeFails, config, buffer
    <3>2. small' = (size < Enlarged /\ Enlarged <= wanted)
      BY <2>3, Zenon DEF ResizeFails
    <3> QED
      BY <3>1, <3>2, Zenon
  <2>4. CASE Take
    BY <2>4 DEF Grown, Take, config
  <2>5. CASE MakeRoom \/ Overflow \/ Receive
    BY <2>5 DEF Grown, MakeRoom, Overflow, Receive
  <2>6. CASE Reload
    <3> SUFFICES ASSUME pc' = "scan", wanted' >= Enlarged, ~(size' >= Enlarged), ~small
                 PROVE  small'
      BY <2>6, Zenon DEF Grown, Reload
    <3>1. pc = "scan" /\ size = size' /\ wanted' \in Nat
      BY <2>6, ReaderAssumption DEF Reload, buffer
    <3>2. size < Enlarged /\ wanted < Enlarged /\ Enlarged <= wanted'
      BY <1>2, <3>1 DEF Grown
    <3>3. small' = (small \/ (/\ pc = "scan" /\ size < Enlarged
                            /\ wanted < Enlarged /\ Enlarged <= wanted'))
      BY <2>6, Zenon DEF Reload
    <3> QED
      BY <3>1, <3>2, <3>3, Zenon
  <2>7. CASE UNCHANGED vars
    BY <2>7 DEF Grown, vars, config, buffer
  <2> QED
    BY <2>1, <2>2, <2>3, <2>4, <2>5, <2>6, <2>7 DEF Next, Step
<1>4. Doomed'
  <2>1. CASE Overflow
    <3> SUFFICES ASSUME pc' = "dead", ~confused' PROVE Doomed'
      BY DEF Doomed
    <3>1. /\ ~(wanted < Enlarged) /\ pc = "scan" /\ ~confused
          /\ UNCHANGED <<sent, size, handed, small>>
      BY <2>1 DEF Overflow, buffer
    <3>2. size >= Enlarged \/ small
      BY <1>2, <3>1 DEF Grown
    <3>3. Len(handed) < Len(sent) /\ Len(sent[Len(handed) + 1]) > size
      BY <2>1, <3>1, FullOfOne
    <3> QED
      BY <3>1, <3>2, <3>3 DEF Doomed
  <2>2. CASE Resize \/ KeepSize \/ ResizeFails \/ Take \/ MakeRoom \/ Receive
    BY <2>2 DEF Doomed, Resize, KeepSize, ResizeFails, Take, MakeRoom, Receive
  <2>3. CASE Reload
    <3>1. small => small'
      BY <2>3, Zenon DEF Reload
    <3>2. UNCHANGED <<sent, size, pc, handed, confused>>
      BY <2>3 DEF Reload, buffer
    <3> QED
      BY <3>1, <3>2 DEF Doomed
  <2>4. CASE UNCHANGED vars
    BY <2>4 DEF Doomed, vars, config, buffer
  <2> QED
    BY <2>1, <2>2, <2>3, <2>4 DEF Next, Step
<1> QED
  BY <1>1, <1>3, <1>4

\* The reader gives up only before a stanza that does not fit into its buffer,
\* and that has the enlarged size (the overflow of reader_thread_entry) unless
\* a reload asked for it between the resize and the overflow or the resize
\* found no memory: for any configured sizes, changed at any moment.
THEOREM AlwaysDiesOfLength == Spec => []DiesOnlyOfLength
<1>1. Init => DeathInv
  <2>1. Init => pc = "top"
    BY DEF Init
  <2> QED
    BY <2>1, OrderInit DEF DeathInv, Grown, Doomed
<1>2. DeathInv /\ [Next]_vars => DeathInv'
  BY DeathStep
<1>3. DeathInv => DiesOnlyOfLength
  BY DEF DeathInv, Doomed, DiesOnlyOfLength
<1> QED
  BY <1>1, <1>2, <1>3, PTL DEF Spec
===========================================================================
