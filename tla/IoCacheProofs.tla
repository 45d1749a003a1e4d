---------------------------- MODULE IoCacheProofs ---------------------------
(***************************************************************************)
(* Theorems about IoCacheAhead: the cache file holds what the entries and  *)
(* the saved map say of it, and to the demuxer the cache is a plain stream *)
(* (module ByteStream), for any length of stream, any capacity of the file *)
(* and of the read ahead, and any reads and seeks.                         *)
(***************************************************************************)
EXTENDS IoCacheAhead, WellFoundedInduction, SequenceTheorems, TLAPS

(* What a player does without a map older than the cache file (StaleMaps)  *)
(* and without the two faults after which the file lies.                   *)
KeepsFile == ~StaleMaps /\ "recreate" \notin Faults /\ "seek" \notin Faults

Bytes == Seq(Nat)

Entry == [logical : Nat, physical : Nat, size : Nat \ {0}]
Trees == {NULL} \cup SUBSET Entry

Covers(e, p) == e.logical <= p /\ p < e.logical + e.size
Covered(p)   == \E e \in Entries : Covers(e, p)

(* None of the entries has one of the n bytes of the stream from p on.     *)
FreeIn(entries, p, n) == \A e \in entries : e.logical + e.size <= p \/ p + n <= e.logical
Free(p, n)            == FreeIn(Entries, p, n)

Apart(entries) ==
  \A e, f \in entries : e # f => \/ e.logical + e.size <= f.logical
                                 \/ f.logical + f.size <= e.logical

(* The entries are parts of the stream that do not overlap, within the     *)
(* first "last" bytes of the file.                                         *)
Fits(entries, last) ==
  /\ \A e \in entries : e.physical + e.size <= last /\ e.logical + e.size <= Size
  /\ Apart(entries)

(* Honest, of any file.                                                    *)
HonestIn(file, entries) ==
  \A e \in entries : \A i \in 0 .. e.size - 1 :
    e.physical + i < Len(file) /\ file[e.physical + i + 1] = e.logical + i

IsPiece(data, p) == data = Piece(p, Len(data))

-----------------------------------------------------------------------------
(* Numbers and sequences.                                                  *)

LEMMA Least ==
  ASSUME NEW S, S \subseteq Nat, S # {}
  PROVE  \E x \in S : \A y \in S : x <= y
<1>1. \E x \in S : \A y \in S : <<y, x>> \notin OpToRel(<, Nat)
  BY NatLessThanWellFounded, WFMin, Zenon
<1>2. PICK x \in S : \A y \in S : ~(y < x)
  BY <1>1, Zenon DEF OpToRel
<1> QED
  BY <1>2

(* The greatest of a set of numbers that are not above n.                  *)
LEMMA Greatest ==
  ASSUME NEW n \in Nat, NEW S, S \subseteq 0 .. n, S # {}
  PROVE  \E x \in S : \A y \in S : y <= x
<1> DEFINE D == {n - x : x \in S}
<1>1. PICK d \in D : \A c \in D : d <= c
  <2>1. \A x \in S : n - x \in Nat
    OBVIOUS
  <2>2. D \subseteq Nat
    BY <2>1, Zenon
  <2>3. D # {}
    BY Zenon
  <2> QED
    BY <2>2, <2>3, Least, Zenon
<1>2. PICK x \in S : d = n - x
  OBVIOUS
<1>3. \A y \in S : n - x <= n - y
  BY <1>1, <1>2
<1> QED
  BY <1>3

LEMMA PieceIs ==
  ASSUME NEW p \in Nat, NEW n \in Nat
  PROVE  /\ Piece(p, n) \in Seq(Nat) /\ Len(Piece(p, n)) = n
         /\ \A i \in 1 .. n : Piece(p, n)[i] = p + i - 1
  BY DEF Piece

(* Being a piece of the stream, byte by byte.                              *)
LEMMA PieceByByte ==
  ASSUME NEW data \in Seq(Nat), NEW p \in Nat
  PROVE  IsPiece(data, p) <=> \A i \in 1 .. Len(data) : data[i] = p + i - 1
<1>1. Len(data) \in Nat
  OBVIOUS
<1>2. ASSUME \A i \in 1 .. Len(data) : data[i] = p + i - 1 PROVE data = Piece(p, Len(data))
  BY <1>1, <1>2, PieceIs, SeqEqual
<1> QED
  BY <1>1, <1>2, PieceIs DEF IsPiece

LEMMA FirstBytes ==
  ASSUME NEW data \in Seq(Nat), NEW n \in 0 .. Len(data)
  PROVE  /\ SubSeq(data, 1, n) \in Seq(Nat) /\ Len(SubSeq(data, 1, n)) = n
         /\ \A i \in 1 .. n : SubSeq(data, 1, n)[i] = data[i]
<1>1. \A i \in 1 .. n : data[i] \in Nat
  OBVIOUS
<1> QED
  BY <1>1, SubSeqProperties

LEMMA PiecesJoin ==
  ASSUME NEW p \in Nat, NEW a \in Seq(Nat), IsPiece(a, p),
         NEW b \in Seq(Nat), IsPiece(b, p + Len(a))
  PROVE  /\ a \o b \in Seq(Nat) /\ IsPiece(a \o b, p) /\ Len(a \o b) = Len(a) + Len(b)
<1>1. Len(a) \in Nat /\ Len(b) \in Nat
  OBVIOUS
<1>2. /\ a \o b \in Seq(Nat) /\ Len(a \o b) = Len(a) + Len(b)
      /\ \A i \in 1 .. Len(a) + Len(b) : (a \o b)[i] = IF i <= Len(a) THEN a[i] ELSE b[i - Len(a)]
  BY ConcatProperties
<1>3. ASSUME NEW i \in 1 .. Len(a) + Len(b) PROVE (a \o b)[i] = p + i - 1
  <2>1. CASE i <= Len(a)
    BY <1>1, <1>2, <2>1, PieceByByte
  <2>2. CASE i > Len(a)
    <3>1. i - Len(a) \in 1 .. Len(b)
      BY <1>1, <2>2
    <3>2. b[i - Len(a)] = p + Len(a) + (i - Len(a)) - 1
      BY <1>1, <3>1, PieceByByte
    <3> QED
      BY <1>1, <1>2, <2>2, <3>2
  <2> QED
    BY <1>1, <2>1, <2>2
<1> QED
  BY <1>2, <1>3, PieceByByte

(* A write changes what is between "from" and the end of what is written.  *)
LEMMA OverwriteIs ==
  ASSUME disk \in Seq(Nat), NEW data \in Seq(Nat), NEW from \in 0 .. Len(disk)
  PROVE  /\ Overwrite(from, data) \in Seq(Nat)
         /\ Len(disk) <= Len(Overwrite(from, data))
         /\ from + Len(data) <= Len(Overwrite(from, data))
         /\ \A i \in 1 .. from : Overwrite(from, data)[i] = disk[i]
         /\ \A i \in 1 .. Len(data) : Overwrite(from, data)[from + i] = data[i]
<1> DEFINE a == SubSeq(disk, 1, from)
           z == SubSeq(disk, from + Len(data) + 1, Len(disk))
<1>1. Len(disk) \in Nat /\ Len(data) \in Nat /\ from \in Nat
  OBVIOUS
<1>2. a \in Seq(Nat) /\ Len(a) = from /\ \A i \in 1 .. from : a[i] = disk[i]
  BY FirstBytes
<1>3. z \in Seq(Nat) /\ Len(z) = IF from + Len(data) + 1 <= Len(disk) THEN Len(disk) - from - Len(data) ELSE 0
  <2>1. \A i \in from + Len(data) + 1 .. Len(disk) : disk[i] \in Nat
    BY <1>1
  <2>2. /\ z \in Seq(Nat)
        /\ Len(z) = IF from + Len(data) + 1 <= Len(disk)
                    THEN Len(disk) - (from + Len(data) + 1) + 1 ELSE 0
    BY <1>1, <2>1, SubSeqProperties
  <2> QED
    BY <1>1, <2>2
<1> HIDE DEF a, z
<1>4. /\ a \o data \in Seq(Nat) /\ Len(a \o data) = from + Len(data)
      /\ \A i \in 1 .. from + Len(data) : (a \o data)[i] = IF i <= from THEN a[i] ELSE data[i - from]
  BY <1>2, ConcatProperties
<1> DEFINE ad == a \o data
<1>5. Overwrite(from, data) = ad \o z
  BY DEF Overwrite, a, z
<1> HIDE DEF ad
<1>6. /\ ad \o z \in Seq(Nat) /\ Len(ad \o z) = Len(ad) + Len(z)
      /\ \A i \in 1 .. Len(ad) + Len(z) : (ad \o z)[i] = IF i <= Len(ad) THEN ad[i] ELSE z[i - Len(ad)]
  BY <1>3, <1>4, ConcatProperties DEF ad
<1>7. \A i \in 1 .. from + Len(data) : Overwrite(from, data)[i] = IF i <= from THEN a[i] ELSE data[i - from]
  <2>1. Len(ad) = from + Len(data) /\ Len(z) \in Nat
    BY <1>1, <1>3, <1>4 DEF ad
  <2>2. \A i \in 1 .. from + Len(data) : ad[i] = IF i <= from THEN a[i] ELSE data[i - from]
    BY <1>4 DEF ad
  <2>3. \A i \in 1 .. from + Len(data) : Overwrite(from, data)[i] = ad[i]
    BY <1>1, <1>5, <1>6, <2>1
  <2> QED
    BY <2>2, <2>3
<1>8. ASSUME NEW i \in 1 .. Len(data) PROVE Overwrite(from, data)[from + i] = data[i]
  <2>1. from + i \in 1 .. from + Len(data) /\ ~(from + i <= from) /\ (from + i) - from = i
    BY <1>1
  <2> QED
    BY <1>7, <2>1
<1>9. ASSUME NEW i \in 1 .. from PROVE Overwrite(from, data)[i] = disk[i]
  <2>1. i \in 1 .. from + Len(data) /\ i <= from
    BY <1>1
  <2> QED
    BY <1>2, <1>7, <2>1
<1>10. /\ Overwrite(from, data) \in Seq(Nat)
       /\ Len(disk) <= Len(Overwrite(from, data)) /\ from + Len(data) <= Len(Overwrite(from, data))
  <2>1. Len(ad) = from + Len(data)
    BY <1>4 DEF ad
  <2>2. Len(z) \in Nat /\ Len(disk) - from - Len(data) <= Len(z)
    BY <1>1, <1>3
  <2>3. Overwrite(from, data) \in Seq(Nat) /\ Len(Overwrite(from, data)) = Len(ad) + Len(z)
    BY <1>5, <1>6
  <2> QED
    BY <1>1, <2>1, <2>2, <2>3
<1> QED
  BY <1>8, <1>9, <1>10, Zenon

-----------------------------------------------------------------------------
(* Entries.                                                                *)

LEMMA NullIsNoTree == ASSUME NEW t \in SUBSET Entry PROVE t # NULL
<1> DEFINE e == [logical |-> -1, physical |-> -1, size |-> 0]
<1>1. e \in NULL
  BY DEF NULL
<1>2. e.logical = -1
  OBVIOUS
<1> HIDE DEF e
<1>3. e \notin Entry
  BY <1>2 DEF Entry
<1> QED
  BY <1>1, <1>3

LEMMA EntriesAre ==
  ASSUME tree \in Trees
  PROVE  /\ Entries \in SUBSET Entry
         /\ (tree # NULL => Entries = tree) /\ (tree = NULL => Entries = {})
<1>1. tree = NULL \/ tree \in SUBSET Entry
  BY Zenon DEF Trees
<1>2. (tree # NULL => Entries = tree) /\ (tree = NULL => Entries = {})
  BY Zenon DEF Entries
<1> QED
  BY <1>1, <1>2

\* An entry found for a position has it.
LEMMA CachedHas ==
  ASSUME NEW p, NEW e \in Cached(p)
  PROVE  e \in Entries /\ Covers(e, p)
  BY DEF Cached, LastBefore, Covers

\* What is covered is found: entries do not overlap.
LEMMA CoveredIsFound ==
  ASSUME tree \in Trees, Apart(Entries), NEW p \in Nat, Covered(p)
  PROVE  Cached(p) # {}
<1>1. PICK e \in Entries : Covers(e, p)
  BY DEF Covered
<1>2. Entries \subseteq Entry
  BY EntriesAre
<1>3. ASSUME NEW f \in Entries, f.logical <= p PROVE f.logical <= e.logical
  <2>1. e \in Entry /\ f \in Entry
    BY <1>2
  <2> QED
    BY <1>1, <1>3, <2>1 DEF Apart, Covers, Entry
<1>4. e \in LastBefore(Entries, p)
  BY <1>1, <1>3 DEF LastBefore, Covers
<1> QED
  BY <1>1, <1>4 DEF Cached, Covers

\* What is not found up to the next entry is free.
LEMMA NotFoundIsFree ==
  ASSUME tree \in Trees, Apart(Entries), NEW p \in Nat, Cached(p) = {},
         NEW n \in Nat, \A q \in After(p) : n <= q - p
  PROVE  Free(p, n)
<1> SUFFICES ASSUME NEW e \in Entries PROVE e.logical + e.size <= p \/ p + n <= e.logical
  BY DEF Free, FreeIn
<1>1. e \in Entry
  BY EntriesAre
<1>2. ~Covers(e, p)
  BY CoveredIsFound DEF Covered
<1>3. CASE e.logical > p
  <2>1. e.logical \in After(p)
    BY <1>3 DEF After
  <2>2. n <= e.logical - p
    BY <2>1
  <2> QED
    BY <1>1, <2>2 DEF Entry
<1> QED
  BY <1>1, <1>2, <1>3 DEF Covers, Entry

\* So is what follows an entry that was found, up to the next.
LEMMA AfterFoundIsFree ==
  ASSUME tree \in Trees, Apart(Entries), NEW p \in Nat, NEW e \in Cached(p),
         NEW n \in Nat, \A q \in After(p) : n <= q - (e.logical + e.size)
  PROVE  Free(e.logical + e.size, n)
<1> SUFFICES ASSUME NEW f \in Entries
             PROVE  f.logical + f.size <= e.logical + e.size \/ e.logical + e.size + n <= f.logical
  BY DEF Free, FreeIn
<1>1. e \in Entry /\ f \in Entry /\ e \in Entries /\ Covers(e, p)
  BY EntriesAre, CachedHas
<1>2. CASE f.logical > p
  <2>1. f.logical \in After(p)
    BY <1>2 DEF After
  <2>2. n <= f.logical - (e.logical + e.size)
    BY <2>1
  <2> QED
    BY <1>1, <2>2 DEF Entry
<1>3. CASE f.logical <= p
  BY <1>1, <1>3 DEF Covers, Entry, Apart
<1> QED
  BY <1>1, <1>2, <1>3 DEF Entry

(* The entries that end where the new bytes begin.                         *)
Extended(t, p, ph) ==
  {e \in LastBefore(t, p) : e.logical + e.size = p /\ e.physical + e.size = ph}

Added(e, n) == [logical |-> e.logical, physical |-> e.physical, size |-> e.size + n]

LEMMA LongerIs ==
  ASSUME NEW t, t \subseteq Entry, NEW p, NEW ph, NEW n
  PROVE  /\ Extended(t, p, ph) \subseteq t
         /\ \A e \in Extended(t, p, ph) : e.logical + e.size = p /\ e.physical + e.size = ph
         /\ Longer(t, p, ph, n) =
              (t \ Extended(t, p, ph)) \cup
                IF Extended(t, p, ph) = {} THEN {[logical |-> p, physical |-> ph, size |-> n]}
                ELSE {Added(e, n) : e \in Extended(t, p, ph)}
<1> DEFINE x == Extended(t, p, ph)
<1>1. x \subseteq t
  BY DEF LastBefore, Extended
<1>2. \A e \in x : e.logical + e.size = p /\ e.physical + e.size = ph
  BY DEF Extended
<1>3. \A e \in Entry : [e EXCEPT !.size = @ + n] = Added(e, n)
  BY DEF Entry, Added
<1>4. {[e EXCEPT !.size = @ + n] : e \in x} = {Added(e, n) : e \in x}
  BY <1>1, <1>3
<1>5. Longer(t, p, ph, n) = (t \ x) \cup IF x = {} THEN {[logical |-> p, physical |-> ph, size |-> n]}
                                         ELSE {[e EXCEPT !.size = @ + n] : e \in x}
  BY DEF Longer, Extended
<1> HIDE DEF x
<1>6. Longer(t, p, ph, n) = (t \ x) \cup IF x = {} THEN {[logical |-> p, physical |-> ph, size |-> n]}
                                         ELSE {Added(e, n) : e \in x}
  BY <1>4, <1>5
<1> QED
  BY <1>1, <1>2, <1>6 DEF x

\* An entry of the longer tree is an old one, or ends with the n new bytes; what it has
\* before them an old one had.
LEMMA LongerHas ==
  ASSUME NEW t, t \subseteq Entry, NEW p \in Nat, NEW ph \in Nat, NEW n \in Nat \ {0},
         NEW g \in Longer(t, p, ph, n)
  PROVE  /\ g \in Entry
         /\ \/ g \in t
            \/ /\ g.logical + g.size = p + n /\ g.physical + g.size = ph + n
               /\ \/ g.size = n
                  \/ \E e \in t : /\ e.logical = g.logical /\ e.physical = g.physical
                                  /\ e.size + n = g.size
<1> DEFINE x == Extended(t, p, ph)
<1>1. /\ x \subseteq t /\ \A e \in x : e.logical + e.size = p /\ e.physical + e.size = ph
      /\ Longer(t, p, ph, n) =
           (t \ x) \cup IF x = {} THEN {[logical |-> p, physical |-> ph, size |-> n]}
                        ELSE {Added(e, n) : e \in x}
  BY LongerIs
<1> HIDE DEF x
<1>2. CASE g \in t
  BY <1>2
<1>3. CASE g = [logical |-> p, physical |-> ph, size |-> n]
  BY <1>3 DEF Entry
<1>4. ASSUME NEW e \in x, g = Added(e, n)
      PROVE  /\ g \in Entry /\ g.logical + g.size = p + n /\ g.physical + g.size = ph + n
             /\ e.logical = g.logical /\ e.physical = g.physical /\ e.size + n = g.size
  <2>1. e \in Entry /\ e.logical + e.size = p /\ e.physical + e.size = ph
    BY <1>1
  <2> QED
    BY <1>4, <2>1 DEF Entry, Added
<1> QED
  BY <1>1, <1>2, <1>3, <1>4

\* What was covered still is, and so are the new bytes.
LEMMA LongerCovers ==
  ASSUME NEW t, t \subseteq Entry, NEW p \in Nat, NEW ph \in Nat, NEW n \in Nat \ {0}
  PROVE  /\ \A e \in t : \E g \in Longer(t, p, ph, n) :
              g.logical = e.logical /\ e.logical + e.size <= g.logical + g.size
         /\ \E g \in Longer(t, p, ph, n) : g.logical <= p /\ p + n <= g.logical + g.size
<1> DEFINE x == Extended(t, p, ph)
<1>1. /\ x \subseteq t /\ \A e \in x : e.logical + e.size = p /\ e.physical + e.size = ph
      /\ Longer(t, p, ph, n) =
           (t \ x) \cup IF x = {} THEN {[logical |-> p, physical |-> ph, size |-> n]}
                        ELSE {Added(e, n) : e \in x}
  BY LongerIs
<1> HIDE DEF x
<1>2. ASSUME NEW e \in x
      PROVE  /\ Added(e, n) \in Longer(t, p, ph, n)
             /\ Added(e, n).logical = e.logical
             /\ e.logical + e.size <= Added(e, n).logical + Added(e, n).size
             /\ Added(e, n).logical <= p /\ p + n <= Added(e, n).logical + Added(e, n).size
  <2>1. e \in Entry /\ e.logical + e.size = p
    BY <1>1
  <2>2. Added(e, n) \in Longer(t, p, ph, n)
    BY <1>1
  <2> QED
    BY <2>1, <2>2 DEF Entry, Added
<1>3. ASSUME NEW e \in t
      PROVE  \E g \in Longer(t, p, ph, n) :
               g.logical = e.logical /\ e.logical + e.size <= g.logical + g.size
  <2>1. CASE e \in x
    BY <1>2, <2>1
  <2>2. CASE e \notin x
    <3>1. e \in Longer(t, p, ph, n) /\ e \in Entry
      BY <1>1, <2>2
    <3> QED
      BY <3>1 DEF Entry
  <2> QED
    BY <2>1, <2>2
<1>4. \E g \in Longer(t, p, ph, n) : g.logical <= p /\ p + n <= g.logical + g.size
  <2>1. CASE x = {}
    <3> DEFINE g == [logical |-> p, physical |-> ph, size |-> n]
    <3>1. g \in Longer(t, p, ph, n)
      BY <1>1, <2>1
    <3> QED
      BY <3>1
  <2>2. CASE x # {}
    BY <1>2, <2>2
  <2> QED
    BY <2>1, <2>2
<1> QED
  BY <1>3, <1>4

\* Bytes that were free, at the end of the file, keep the entries apart.
LEMMA LongerFits ==
  ASSUME NEW t, t \subseteq Entry, NEW p \in Nat, NEW ph \in Nat, NEW n \in Nat \ {0},
         Fits(t, ph), FreeIn(t, p, n), p + n <= Size
  PROVE  Fits(Longer(t, p, ph, n), ph + n)
<1> DEFINE x == Extended(t, p, ph)
           l == Longer(t, p, ph, n)
<1>1. /\ x \subseteq t /\ \A e \in x : e.logical + e.size = p /\ e.physical + e.size = ph
      /\ l = (t \ x) \cup IF x = {} THEN {[logical |-> p, physical |-> ph, size |-> n]}
                          ELSE {Added(e, n) : e \in x}
  BY LongerIs
<1> HIDE DEF x
<1>2. ASSUME NEW g \in l PROVE g.physical + g.size <= ph + n /\ g.logical + g.size <= Size
  <2>1. g \in Entry
    BY LongerHas
  <2>2. CASE g \in t
    <3>1. g.physical + g.size <= ph /\ g.logical + g.size <= Size
      BY <2>2 DEF Fits
    <3> QED
      BY <2>1, <3>1 DEF Entry
  <2>3. CASE g.logical + g.size = p + n /\ g.physical + g.size = ph + n
    BY <2>3
  <2> QED
    BY <2>2, <2>3, LongerHas
<1>3. \A g \in l : g \in t \ x \/ (x = {} /\ g.logical = p /\ g.size = n)
                              \/ \E e \in x : g = Added(e, n)
  BY <1>1
<1>4. ASSUME NEW e \in x, NEW g \in t, e # g
      PROVE  g.logical + g.size <= e.logical \/ p + n <= g.logical
  <2>1. e \in Entry /\ g \in Entry /\ e \in t /\ e.logical + e.size = p
    BY <1>1
  <2>2. e.logical + e.size <= g.logical \/ g.logical + g.size <= e.logical
    BY <1>4, <2>1 DEF Fits, Apart
  <2>3. g.logical + g.size <= p \/ p + n <= g.logical
    BY DEF FreeIn
  <2> QED
    BY <2>1, <2>2, <2>3 DEF Entry
<1>5. \A e, f \in x : e = f
  <2> SUFFICES ASSUME NEW e \in x, NEW f \in x, e # f PROVE FALSE
    OBVIOUS
  <2>1. e \in Entry /\ f \in Entry /\ e.logical + e.size = p /\ f.logical + f.size = p /\ f \in t
    BY <1>1
  <2>2. f.logical + f.size <= e.logical \/ p + n <= f.logical
    BY <1>4, <2>1
  <2> QED
    BY <2>1, <2>2 DEF Entry
<1>6. ASSUME NEW g \in l, NEW h \in l, g # h
      PROVE  g.logical + g.size <= h.logical \/ h.logical + h.size <= g.logical
  <2>0. \A e \in Entry : Added(e, n).logical = e.logical /\ Added(e, n).size = e.size + n
    BY DEF Added
  <2>1. CASE g \in t \ x /\ h \in t \ x
    BY <1>6, <2>1 DEF Fits, Apart
  <2>2. CASE x = {} /\ g.logical = p /\ g.size = n /\ h \in t
    BY <2>2 DEF FreeIn
  <2>3. CASE x = {} /\ h.logical = p /\ h.size = n /\ g \in t
    BY <2>3 DEF FreeIn
  <2>4. ASSUME NEW e \in x, g = Added(e, n), h \in t \ x
        PROVE  g.logical + g.size <= h.logical \/ h.logical + h.size <= g.logical
    <3>1. h.logical + h.size <= e.logical \/ p + n <= h.logical
      BY <1>1, <1>4, <2>4
    <3>2. e \in Entry /\ e.logical + e.size = p
      BY <1>1
    <3> QED
      BY <2>0, <2>4, <3>1, <3>2 DEF Entry
  <2>5. ASSUME NEW e \in x, h = Added(e, n), g \in t \ x
        PROVE  g.logical + g.size <= h.logical \/ h.logical + h.size <= g.logical
    <3>1. g.logical + g.size <= e.logical \/ p + n <= g.logical
      BY <1>4, <2>5
    <3>2. e \in Entry /\ e.logical + e.size = p
      BY <1>1
    <3> QED
      BY <2>0, <2>5, <3>1, <3>2 DEF Entry
  <2>6. ASSUME NEW e \in x, g = Added(e, n), NEW f \in x, h = Added(f, n) PROVE FALSE
    BY <1>5, <1>6, <2>6
  <2>7. CASE x = {} /\ g \notin t /\ h \notin t
    <3>1. g = [logical |-> p, physical |-> ph, size |-> n] /\ h = [logical |-> p, physical |-> ph, size |-> n]
      BY <1>1, <2>7
    <3> QED
      BY <1>6, <3>1
  <2> QED
    BY <1>3, <2>1, <2>2, <2>3, <2>4, <2>5, <2>6, <2>7
<1> QED
  BY <1>2, <1>6 DEF Fits, Apart

(* f is d with n bytes of the stream, from p on, at ph.                    *)
Written(f, d, p, ph, n) ==
  /\ ph + n <= Len(f)
  /\ \A i \in 1 .. ph : f[i] = d[i]
  /\ \A i \in 1 .. n : f[ph + i] = p + i - 1

\* A file to whose end the bytes were written holds what the longer tree says.
LEMMA LongerHonest ==
  ASSUME NEW t, t \subseteq Entry, NEW p \in Nat, NEW ph \in Nat, NEW n \in Nat \ {0},
         NEW d \in Bytes, NEW f \in Bytes, Fits(t, ph), HonestIn(d, t),
         Written(f, d, p, ph, n)
  PROVE  HonestIn(f, Longer(t, p, ph, n))
<1> SUFFICES ASSUME NEW g \in Longer(t, p, ph, n), NEW i \in 0 .. g.size - 1
             PROVE  g.physical + i < Len(f) /\ f[g.physical + i + 1] = g.logical + i
  BY DEF HonestIn
<1>1. g \in Entry /\ Len(f) \in Nat
  BY LongerHas DEF Bytes
<1>0. g.logical \in Nat /\ g.physical \in Nat /\ g.size \in Nat /\ i \in Nat /\ i < g.size
  BY <1>1 DEF Entry
<1>2. ASSUME NEW e \in t, e.logical = g.logical, e.physical = g.physical, i < e.size
      PROVE  g.physical + i < Len(f) /\ f[g.physical + i + 1] = g.logical + i
  <2>0. e.logical \in Nat /\ e.physical \in Nat /\ e.size \in Nat
    BY DEF Entry
  <2>1. i \in 0 .. e.size - 1 /\ e.physical + e.size <= ph
    BY <1>0, <1>2, <2>0 DEF Fits
  <2>2. d[e.physical + i + 1] = e.logical + i
    BY <2>1 DEF HonestIn
  <2>3. e.physical + i + 1 \in 1 .. ph
    BY <2>0, <2>1
  <2>4. f[e.physical + i + 1] = d[e.physical + i + 1]
    BY <2>3 DEF Written
  <2>5. ph <= Len(f)
    BY <1>1 DEF Written
  <2> QED
    BY <1>0, <1>1, <1>2, <2>0, <2>2, <2>3, <2>4, <2>5
<1>3. ASSUME g.logical + g.size = p + n, g.physical + g.size = ph + n, ~(i < g.size - n)
      PROVE  g.physical + i < Len(f) /\ f[g.physical + i + 1] = g.logical + i
  <2> DEFINE j == i - (g.size - n) + 1
  <2>1. j \in 1 .. n /\ g.physical + i + 1 = ph + j /\ g.logical + i = p + j - 1
    BY <1>0, <1>3
  <2> HIDE DEF j
  <2>2. f[ph + j] = p + j - 1
    BY <2>1 DEF Written
  <2>3. g.physical + i < Len(f)
    BY <1>0, <1>1, <1>3 DEF Written
  <2> QED
    BY <2>1, <2>2, <2>3
<1>4. CASE g \in t
  <2>1. i < g.size
    BY <1>1 DEF Entry
  <2> QED
    BY <1>2, <1>4, <2>1
<1>5. CASE g.logical + g.size = p + n /\ g.physical + g.size = ph + n
  <2>1. CASE g.size = n
    BY <1>1, <1>3, <1>5, <2>1 DEF Entry
  <2>2. ASSUME NEW e \in t, e.logical = g.logical, e.physical = g.physical, e.size + n = g.size
        PROVE  g.physical + i < Len(f) /\ f[g.physical + i + 1] = g.logical + i
    <3>1. e \in Entry
      OBVIOUS
    <3>2. g.size - n = e.size
      BY <1>1, <2>2, <3>1 DEF Entry
    <3> QED
      BY <1>2, <1>3, <1>5, <2>2, <3>2
  <2> QED
    BY <1>4, <2>1, <2>2, LongerHas
<1> QED
  BY <1>4, <1>5, LongerHas

(* The bytes of the stream from p on, n at most, that the entry has.       *)
Stretch(e, p, n) ==
  LET from == e.physical + (p - e.logical)
  IN  SubSeq(disk, from + 1, from + Smaller(n, e.size - (p - e.logical)))

\* What an entry that was found lets one read of the file.
LEMMA ReadIsPiece ==
  ASSUME tree \in Trees, disk \in Bytes, Fits(Entries, last_physical_pos), HonestIn(disk, Entries),
         NEW p \in Nat, NEW e \in Cached(p), NEW n \in Nat \ {0}
  PROVE  /\ Stretch(e, p, n) \in Bytes /\ IsPiece(Stretch(e, p, n), p)
         /\ Len(Stretch(e, p, n)) \in 1 .. n /\ p + Len(Stretch(e, p, n)) <= Size
<1> DEFINE k == Smaller(n, e.size - (p - e.logical))
           b == p - e.logical
           from == e.physical + b
           data == Stretch(e, p, n)
<1>1. e \in Entry /\ e \in Entries /\ e.logical <= p /\ p < e.logical + e.size
  BY EntriesAre, CachedHas DEF Covers
<1>0. e.logical \in Nat /\ e.physical \in Nat /\ e.size \in Nat
  BY <1>1 DEF Entry
<1>6. data = SubSeq(disk, from + 1, from + k)
  BY DEF Stretch
<1> HIDE DEF data, k
<1>2. /\ b \in 0 .. e.size - 1 /\ from = e.physical + b /\ from \in Nat
      /\ k \in 1 .. n /\ k <= e.size - b /\ p + k <= e.logical + e.size
  <2>1. b \in 0 .. e.size - 1 /\ from = e.physical + b /\ from \in Nat
    BY <1>0, <1>1
  <2>2. k = IF n < e.size - b THEN n ELSE e.size - b
    BY DEF k, Smaller
  <2>3. k \in 1 .. n /\ k <= e.size - b
    BY <1>0, <2>1, <2>2
  <2> QED
    BY <1>0, <1>1, <2>1, <2>3
<1>3. e.logical + e.size <= Size
  BY <1>1 DEF Fits
<1> HIDE DEF b, from
<1>4. ASSUME NEW i \in 1 .. k
      PROVE  /\ from + i \in 1 .. Len(disk) /\ disk[from + i] = p + i - 1
  <2> DEFINE o == b + i - 1
  <2>1. o \in 0 .. e.size - 1 /\ e.physical + o + 1 = from + i /\ e.logical + o = p + i - 1
    BY <1>0, <1>1, <1>2 DEF b, from
  <2> HIDE DEF o
  <2>2. e.physical + o < Len(disk) /\ disk[e.physical + o + 1] = e.logical + o
    BY <1>1, <2>1 DEF HonestIn
  <2>3. Len(disk) \in Nat
    BY DEF Bytes
  <2>4. from + i <= Len(disk)
    BY SMTT(20), <1>0, <1>2, <2>1, <2>2, <2>3
  <2>5. disk[from + i] = p + i - 1
    BY <2>1, <2>2
  <2> QED
    BY <1>2, <2>3, <2>4, <2>5
<1>5. \A i \in from + 1 .. from + k : disk[i] \in Nat
  <2> SUFFICES ASSUME NEW i \in from + 1 .. from + k PROVE disk[i] \in Nat
    OBVIOUS
  <2>1. i - from \in 1 .. k /\ from + (i - from) = i
    BY <1>2
  <2>2. i \in 1 .. Len(disk)
    BY <1>4, <2>1
  <2> QED
    BY <2>2 DEF Bytes
<1>7. /\ data \in Bytes /\ Len(data) = k
      /\ \A i \in 1 .. k : data[i] = disk[from + i]
  <2> DEFINE v == from + 1
             w == from + k
  <2>0. v \in Int /\ w \in Int /\ v <= w /\ w - v + 1 = k /\ k \in Nat
    BY <1>2
  <2>1. \A i \in v .. w : disk[i] \in Nat
    BY <1>5
  <2>2. data = SubSeq(disk, v, w)
    BY <1>6
  <2>3. \A i \in 1 .. k : v + i - 1 = from + i
    BY <1>2
  <2> HIDE DEF v, w
  <2>4. /\ SubSeq(disk, v, w) \in Seq(Nat)
        /\ Len(SubSeq(disk, v, w)) = IF v <= w THEN w - v + 1 ELSE 0
        /\ \A i \in 1 .. w - v + 1 : SubSeq(disk, v, w)[i] = disk[v + i - 1]
    BY <2>0, <2>1, SubSeqProperties
  <2> QED
    BY <2>0, <2>2, <2>3, <2>4 DEF Bytes
<1>8. IsPiece(data, p)
  BY <1>4, <1>7, PieceByByte DEF Bytes
<1>9. data \in Bytes /\ Len(data) \in 1 .. n
  BY <1>2, <1>7
<1>10. p + Len(data) <= Size
  <2>1. Len(data) = k
    BY <1>7
  <2> QED
    BY <1>0, <1>2, <1>3, <2>1, SizesAssumption
<1> QED
  BY <1>8, <1>9, <1>10 DEF data

\* What is asked for when nothing was found ends before the next entry.
Gap(p, n) ==
  CHOOSE k \in 1 .. n : /\ \A q \in After(p) : k <= q - p
                        /\ k = n \/ p + k \in After(p)

LEMMA GapIs ==
  ASSUME tree \in Trees, NEW p \in Nat, NEW n \in Nat \ {0}
  PROVE  Gap(p, n) \in 1 .. n /\ \A q \in After(p) : Gap(p, n) <= q - p
<1>1. \A q \in After(p) : q \in Nat /\ q > p
  BY EntriesAre DEF After, Entry
<1> DEFINE S == {n} \cup {q - p : q \in After(p)}
<1>2. PICK k \in S : \A j \in S : k <= j
  <2>1. S \subseteq Nat /\ S # {}
    BY <1>1
  <2> QED
    BY <2>1, Least, Zenon
<1>3. k <= n /\ \A q \in After(p) : k <= q - p
  BY <1>2
<1>4. k \in 1 .. n /\ (k = n \/ p + k \in After(p))
  BY <1>1, <1>2, <1>3
<1> HIDE DEF S
<1>5. \E j \in 1 .. n : /\ \A q \in After(p) : j <= q - p
                        /\ j = n \/ p + j \in After(p)
  BY <1>3, <1>4
<1> QED
  BY <1>5, Zenon DEF Gap

(* What the task skips, and how much it asks for then.                     *)
Found == {e.logical + e.size : e \in Cached(file_logical_pos)}
Following == IF Found = {} THEN file_logical_pos ELSE CHOOSE p \in Found : TRUE
Room == {0} \cup {k \in 1 .. MaxRead : \A p \in After(file_logical_pos) : k <= p - Following}
Most == CHOOSE k \in Room : \A j \in Room : j <= k

LEMMA MostIs == Most \in Room
<1>1. MaxRead \in Nat
  BY SizesAssumption
<1>2. Room \subseteq 0 .. MaxRead /\ Room # {}
  BY <1>1 DEF Room
<1>3. \E k \in Room : \A j \in Room : j <= k
  BY <1>1, <1>2, Greatest
<1> QED
  BY <1>3, Zenon DEF Most

\* The bytes up to "Following" are in the file, those the task asks for then are not.
LEMMA FindsIs ==
  ASSUME tree \in Trees, Fits(Entries, last_physical_pos), file_logical_pos \in 0 .. Size
  PROVE  /\ Following \in file_logical_pos .. Size /\ Most \in 0 .. MaxRead
         /\ \A p \in file_logical_pos .. Following - 1 : Covered(p)
         /\ Most > 0 => Free(Following, Most)
<1>1. Apart(Entries) /\ Entries \subseteq Entry
  BY EntriesAre DEF Fits
<1>2. /\ file_logical_pos \in Nat /\ file_logical_pos <= Size /\ Size \in Nat /\ MaxRead \in Nat
  BY SizesAssumption
<1>3. /\ Most \in 0 .. MaxRead
      /\ Most > 0 => \A q \in After(file_logical_pos) : Most <= q - Following
  BY <1>2, MostIs DEF Room
<1>4. CASE Cached(file_logical_pos) = {}
  <2>1. Following = file_logical_pos
    BY <1>4 DEF Following, Found
  <2>2. ASSUME Most > 0 PROVE Free(Following, Most)
    <3>1. Most \in Nat
      BY <1>2, <1>3
    <3> QED
      BY <1>1, <1>2, <1>3, <1>4, <2>1, <2>2, <3>1, NotFoundIsFree
  <2> QED
    BY <1>2, <1>3, <2>1, <2>2
<1>5. CASE Cached(file_logical_pos) # {}
  <2>1. PICK e \in Cached(file_logical_pos) : Following = e.logical + e.size
    <3>1. Found # {}
      BY <1>5 DEF Found
    <3>2. Following \in Found
      BY <3>1, Zenon DEF Following
    <3> QED
      BY <3>2 DEF Found
  <2>2. e \in Entry /\ e \in Entries /\ Covers(e, file_logical_pos)
    BY <1>1, CachedHas
  <2>3. Following <= Size
    BY <2>1, <2>2 DEF Fits
  <2>4. Following \in file_logical_pos .. Size
    BY <1>2, <2>1, <2>2, <2>3 DEF Covers, Entry
  <2>5. \A p \in file_logical_pos .. Following - 1 : Covered(p)
    BY <1>2, <2>1, <2>2, <2>4 DEF Covered, Covers, Entry
  <2>6. ASSUME Most > 0 PROVE Free(Following, Most)
    <3>1. Most \in Nat
      BY <1>2, <1>3
    <3>2. \A q \in After(file_logical_pos) : Most <= q - (e.logical + e.size)
      BY <1>3, <2>1, <2>6
    <3> QED
      BY <1>1, <1>2, <2>1, <3>1, <3>2, AfterFoundIsFree
  <2> QED
    BY <1>3, <2>4, <2>5, <2>6
<1> QED
  BY <1>4, <1>5

-----------------------------------------------------------------------------
(* The invariant.                                                          *)

FileTypes ==
  /\ disk \in Bytes /\ map_file \in [tree : Trees, last : Nat] /\ rewritten \in BOOLEAN
  /\ tree \in Trees /\ last_physical_pos \in Nat
  /\ fd \in BOOLEAN

ReaderTypes ==
  /\ fd_pos \in Nat /\ cache_physical_pos \in Nat
  /\ cache_file_close \in BOOLEAN /\ async_open \in BOOLEAN /\ interrupted \in BOOLEAN
  /\ read_logical_pos \in 0 .. Size /\ read_inner_pos \in 0 .. Size /\ inner_pos \in 0 .. Size
  /\ caller_pos \in 0 .. Size
  /\ to_copy \in Nat /\ buf \in Bytes
  /\ at \in {"reads", "read_waits"} => to_copy # 0

TaskTypes ==
  /\ forwards \in Nat /\ task_buf \in Bytes
  /\ file_logical_pos \in 0 .. Size /\ file_inner_pos \in 0 .. Size
  /\ io_eof_reached \in BOOLEAN /\ io_error \in BOOLEAN /\ broken \in BOOLEAN
  /\ abort_request \in BOOLEAN
  /\ seek_request \in {NoSeek} \cup 0 .. Size

Sync == forwards = 0 /\ ~cache_file_close

(* Where the reader and the task can be together, and with which file.     *)
PlaceInv ==
  /\ fd <=> tree # NULL
  /\ at \in {"opening", "open", "fetch", "store", "reads", "read_waits", "seeks", "seek_waits",
             "closing", "pausing", "paused"} /\ forwards > 0 /\ ~cache_file_close => fd
  /\ at = "opening" => fd \/ cache_file_close
  /\ at = "closed" => ~cache_file_close
  /\ at \in {"fetch", "store"} => Sync
  /\ at \in {"reads", "read_waits", "seeks", "seek_waits", "closing", "pausing", "paused"} =>
       forwards > 0
  /\ task # "none" => forwards > 0 /\ fd /\ at \notin {"closed", "opening", "paused"}
  /\ task \notin {"none", "ending"} => ~cache_file_close
  /\ task = "seeks" => seek_request # NoSeek

(* What is saved was appended after: it stays as long as nothing is begun  *)
(* again.                                                                  *)
FileInv ==
  /\ fd => last_physical_pos <= Len(disk)
  /\ Fits(Entries, last_physical_pos)
  /\ HonestIn(disk, Entries)
  /\ map_file.tree # NULL => Fits(map_file.tree, map_file.last)
  /\ fd /\ ~rewritten /\ map_file # NoMap => map_file.last <= last_physical_pos
  /\ MapHonest

DescriptorInv ==
  /\ forwards = 0 /\ at # "closed" => fd_pos = cache_physical_pos
  /\ forwards > 0 /\ at # "closed" => cache_physical_pos = last_physical_pos

(* The inner protocol is where the reader, or the task, takes it to be.    *)
InnerInv ==
  /\ at \in {"closed", "opening"} =>
       read_logical_pos = 0 /\ read_inner_pos = 0 /\ inner_pos = 0 /\ caller_pos = 0
  /\ at = "opening" => file_logical_pos = 0 /\ file_inner_pos = 0
  /\ Sync => inner_pos = read_inner_pos
  /\ async_open /\ Sync => inner_pos = 0 /\ read_inner_pos = 0
  /\ Ahead /\ at # "closed" => inner_pos = file_inner_pos

(* What is fetched is what follows, and is not in the file yet.            *)
FetchInv ==
  /\ at = "fetch" => Free(read_logical_pos, to_copy)
  /\ at = "store" => /\ IsPiece(buf, read_logical_pos) /\ Len(buf) > 0
                     /\ read_logical_pos + Len(buf) <= Size
                     /\ Free(read_logical_pos, Len(buf))
  /\ task \in {"fetches", "stores"} => Free(file_logical_pos, Len(task_buf))
  /\ task = "stores" => /\ IsPiece(task_buf, file_logical_pos)
                        /\ file_logical_pos + Len(task_buf) <= Size

CacheTypes == FileTypes /\ ReaderTypes /\ TaskTypes
CacheInv == CacheTypes /\ PlaceInv /\ FileInv /\ DescriptorInv /\ InnerInv /\ FetchInv

LEMMA EmptyFits ==
  /\ {} \in Trees /\ {} # NULL /\ NULL \in Trees
  /\ \A n : Fits({}, n)
  /\ \A file : HonestIn(file, {})
  /\ \A p, n : FreeIn({}, p, n)
<1>1. {} \in Trees /\ {} # NULL /\ NULL \in Trees
  BY NullIsNoTree DEF Trees
<1> QED
  BY <1>1 DEF Fits, Apart, HonestIn, FreeIn

LEMMA MapIs ==
  MapHonest <=> (~rewritten /\ map_file # NoMap /\ Len(disk) >= map_file.last => HonestIn(disk, map_file.tree))
  BY DEF MapHonest, Honest, HonestIn

\* "Entries" is the tree if there is one.
LEMMA PrimedEntries ==
  /\ tree' = NULL => Entries' = {}
  /\ tree' # NULL => Entries' = tree'
  BY DEF Entries

LEMMA NoBytes == <<>> \in Bytes /\ Len(<<>>) = 0
  BY DEF Bytes

LEMMA InitHolds == ASSUME AheadInit PROVE CacheInv
<1>1. /\ disk = <<>> /\ map_file = NoMap /\ rewritten = FALSE
      /\ tree = NULL /\ last_physical_pos = 0
      /\ fd = FALSE /\ fd_pos = 0 /\ cache_physical_pos = 0
      /\ at = "closed" /\ cache_file_close = FALSE /\ async_open = FALSE
      /\ read_logical_pos = 0 /\ read_inner_pos = 0 /\ inner_pos = 0
      /\ to_copy = 0 /\ buf = <<>>
  BY DEF AheadInit, Init
<1>2. /\ forwards = 0 /\ task = "none" /\ task_buf = <<>>
      /\ file_logical_pos = 0 /\ file_inner_pos = 0
      /\ io_eof_reached = FALSE /\ io_error = FALSE /\ broken = FALSE
      /\ seek_request = NoSeek /\ caller_pos = 0
      /\ abort_request = FALSE /\ interrupted = FALSE
  BY DEF AheadInit
<1>3. CacheTypes
  <2>1. NoMap \in [tree : Trees, last : Nat]
    BY EmptyFits DEF NoMap
  <2>2. FileTypes
    BY <1>1, <2>1, EmptyFits, NoBytes DEF FileTypes
  <2>3. 0 \in 0 .. Size
    BY SizesAssumption
  <2>4. ReaderTypes
    BY <1>1, <1>2, <2>3, NoBytes DEF ReaderTypes
  <2>5. TaskTypes
    BY <1>2, <2>3, NoBytes DEF TaskTypes
  <2> QED
    BY <2>2, <2>4, <2>5 DEF CacheTypes
<1>4. PlaceInv
  BY <1>1, <1>2 DEF PlaceInv, Sync
<1>5. Entries = {} /\ map_file.tree = NULL
  BY <1>1 DEF Entries, NoMap
<1>6. FileInv
  BY <1>1, <1>5, EmptyFits DEF FileInv, MapHonest
<1>7. DescriptorInv /\ InnerInv /\ FetchInv
  BY <1>1, <1>2 DEF DescriptorInv, InnerInv, FetchInv, Sync, Ahead
<1> QED
  BY <1>3, <1>4, <1>6, <1>7 DEF CacheInv

-----------------------------------------------------------------------------
(* What the actions do that are more than a few assignments.               *)

\* The file that is opened: the one that is open already, the one the map speaks of, a new
\* one, or none.
LEMMA OpenFileIs ==
  ASSUME CacheInv, OpenFile
  PROVE  \/ /\ fd /\ fd'
            /\ UNCHANGED <<disk, tree, last_physical_pos, rewritten, cache_file_close>>
         \/ /\ ~fd /\ fd' /\ UNCHANGED <<disk, rewritten, cache_file_close>>
            /\ tree' = map_file.tree /\ last_physical_pos' = map_file.last
            /\ map_file.tree # NULL /\ Len(disk) >= map_file.last
            /\ ~StaleMaps => ~rewritten
         \/ /\ ~fd /\ fd' /\ UNCHANGED cache_file_close
            /\ disk' \in Bytes /\ tree' = {} /\ last_physical_pos' = 0 /\ rewritten'
         \/ /\ ~fd /\ ~fd' /\ tree' = NULL /\ last_physical_pos' = 0
            /\ cache_file_close' /\ UNCHANGED <<disk, rewritten>>
<1> DEFINE kept == Parsed.tree # NULL /\ Len(disk) >= Parsed.last
<1>1. \/ fd /\ UNCHANGED <<fd, disk, cache, rewritten, cache_file_close>>
      \/ /\ ~fd /\ fd' = TRUE
         /\ disk' = IF Parsed.tree = NULL THEN <<>> ELSE disk
         /\ tree' = IF kept THEN Parsed.tree ELSE {}
         /\ last_physical_pos' = IF kept THEN Parsed.last ELSE 0
         /\ rewritten' = (rewritten \/ ~kept)
         /\ UNCHANGED cache_file_close
      \/ /\ ~fd /\ UNCHANGED fd
         /\ tree' = NULL /\ last_physical_pos' = 0
         /\ cache_file_close' = TRUE
         /\ UNCHANGED <<disk, rewritten>>
  BY DEF OpenFile
<1>2. StaleMaps \/ ~rewritten \/ tree # NULL \/ map_file = NoMap
  BY DEF OpenFile
<1>3. CASE fd
  BY <1>1, <1>3 DEF cache
<1>4. CASE ~fd /\ ~fd'
  BY <1>1, <1>4
<1>5. CASE ~fd /\ fd'
  <2>1. tree = NULL
    BY <1>5 DEF CacheInv, PlaceInv
  <2>2. Parsed = map_file
    BY <2>1 DEF Parsed
  <2>3. CASE kept
    <3>1. map_file # NoMap
      BY <2>2, <2>3 DEF NoMap
    <3>2. rewritten' = rewritten
      BY <1>1, <1>5, <2>3 DEF CacheInv, CacheTypes, FileTypes
    <3> QED
      BY <1>1, <1>2, <1>5, <2>1, <2>2, <2>3, <3>1, <3>2
  <2>4. CASE ~kept
    <3>1. disk' \in Bytes
      BY <1>1, <1>5, NoBytes DEF CacheInv, CacheTypes, FileTypes
    <3> QED
      BY <1>1, <1>5, <2>4, <3>1
  <2> QED
    BY <2>3, <2>4
<1> QED
  BY <1>3, <1>4, <1>5

\* What stays where it was in the file is still what the entries say.
LEMMA KeptHonest ==
  ASSUME NEW t, t \subseteq Entry, NEW last \in Nat, NEW d \in Bytes, NEW f \in Bytes,
         Fits(t, last), HonestIn(d, t), last <= Len(f), \A i \in 1 .. last : f[i] = d[i]
  PROVE  HonestIn(f, t)
<1> SUFFICES ASSUME NEW e \in t, NEW i \in 0 .. e.size - 1
             PROVE  e.physical + i < Len(f) /\ f[e.physical + i + 1] = e.logical + i
  BY DEF HonestIn
<1>1. e.logical \in Nat /\ e.physical \in Nat /\ e.size \in Nat /\ Len(f) \in Nat
  BY DEF Entry, Bytes
<1>2. e.physical + e.size <= last /\ d[e.physical + i + 1] = e.logical + i
  BY DEF Fits, HonestIn
<1>3. e.physical + i + 1 \in 1 .. last
  BY <1>1, <1>2
<1> QED
  BY <1>1, <1>2, <1>3

\* Entries that fit into nothing are none.
LEMMA NothingFits ==
  ASSUME NEW t, t \subseteq Entry, Fits(t, 0)
  PROVE  t = {}
<1> SUFFICES ASSUME NEW e \in t PROVE FALSE
  OBVIOUS
<1>1. e.physical \in Nat /\ e.size \in Nat \ {0}
  BY DEF Entry
<1>2. e.physical + e.size <= 0
  BY DEF Fits
<1> QED
  BY <1>1, <1>2

File == FileTypes /\ FileInv

LEMMA FileStays ==
  ASSUME File, UNCHANGED <<stored, cache, fd>>
  PROVE  File'
BY DEF File, FileTypes, FileInv, stored, cache, Entries, MapHonest, Honest, HonestIn

\* A file that is begun again has no entries, and no map that was saved speaks of it.
LEMMA FileBegunAgain ==
  ASSUME File, UNCHANGED map_file, fd' \in BOOLEAN,
         tree' \in {{}, NULL}, last_physical_pos' = 0, disk' \in Bytes,
         \/ rewritten' = TRUE
         \/ fd' = FALSE /\ UNCHANGED <<disk, rewritten>>
  PROVE  File'
<1>1. FileTypes'
  BY EmptyFits DEF File, FileTypes
<1>2. Entries' = {}
  BY EmptyFits, PrimedEntries
<1>3. Len(disk') \in Nat
  BY DEF Bytes
<1>4. MapHonest'
  BY DEF File, FileInv, MapHonest, Honest
<1> QED
  BY <1>1, <1>2, <1>3, <1>4, EmptyFits DEF File, FileTypes, FileInv

\* A map that is saved says what the entries say.
LEMMA MapSaved ==
  ASSUME File, PlaceInv, map_file' = Map, rewritten' = FALSE, UNCHANGED disk, fd' \in BOOLEAN,
         \/ UNCHANGED <<cache, fd>>
         \/ tree' = NULL /\ last_physical_pos' = 0 /\ fd' = FALSE
  PROVE  File'
<1>1. Map.tree = tree /\ (tree = NULL => Map = NoMap) /\ (tree # NULL => Map.last = last_physical_pos)
  BY DEF Map, NoMap
<1>2. Map \in [tree : Trees, last : Nat]
  BY EmptyFits DEF File, FileTypes, Map, NoMap
<1>3. tree' = NULL \/ tree' = tree
  BY DEF cache
<1>4. FileTypes'
  <2>1. tree' \in Trees /\ last_physical_pos' \in Nat
    BY EmptyFits DEF File, FileTypes, cache
  <2> QED
    BY <1>2, <2>1 DEF File, FileTypes
<1>5. tree # NULL => Fits(tree, last_physical_pos) /\ HonestIn(disk, tree)
  BY DEF File, FileInv, Entries
<1>6. MapHonest'
  BY <1>1, <1>5 DEF MapHonest, Honest, HonestIn
<1>7. Fits(Entries, last_physical_pos)' /\ HonestIn(disk, Entries)'
  <2>1. CASE tree' = NULL
    <3>1. Entries' = {}
      BY <2>1, PrimedEntries
    <3> QED
      BY <3>1, EmptyFits
  <2>2. CASE tree' # NULL
    <3>1. tree' = tree /\ last_physical_pos' = last_physical_pos /\ Entries' = tree
      BY <2>2, PrimedEntries DEF cache
    <3> QED
      BY <1>5, <2>2, <3>1
  <2> QED
    BY <2>1, <2>2
<1>8. fd' => last_physical_pos' <= Len(disk')
  BY DEF File, FileInv, cache
<1>9. fd' /\ map_file' # NoMap => map_file'.last <= last_physical_pos'
  BY <1>1, <1>2 DEF cache, File, FileTypes
<1>10. map_file'.tree # NULL => Fits(map_file'.tree, map_file'.last)
  BY <1>1, <1>5
<1> QED
  BY <1>4, <1>6, <1>7, <1>8, <1>9, <1>10 DEF File, FileInv

LEMMA FileIsLost ==
  ASSUME File, PlaceInv, ~fd, disk' = <<>>, UNCHANGED <<map_file, rewritten, cache, fd>>
  PROVE  File'
<1>1. tree = NULL /\ tree' = NULL /\ last_physical_pos' = last_physical_pos
  BY DEF PlaceInv, cache
<1>2. Entries' = {}
  BY <1>1, PrimedEntries
<1>3. FileTypes'
  BY NoBytes DEF File, FileTypes, cache
<1>4. ASSUME map_file # NoMap, Len(disk') >= map_file.last PROVE HonestIn(disk', map_file.tree)
  <2>1. map_file \in [tree : Trees, last : Nat]
    BY DEF File, FileTypes
  <2>2. map_file.last = 0
    BY <1>4, <2>1, NoBytes
  <2>3. CASE map_file.tree = NULL
    <3>1. map_file = NoMap
      BY <2>1, <2>2, <2>3 DEF NoMap
    <3> QED
      BY <1>4, <3>1
  <2>4. CASE map_file.tree # NULL
    <3>1. map_file.tree \subseteq Entry
      BY <2>1, <2>4 DEF Trees
    <3>2. map_file.tree = {}
      BY <2>2, <2>4, <3>1, NothingFits DEF File, FileInv
    <3> QED
      BY <3>2, EmptyFits
  <2> QED
    BY <2>3, <2>4
<1>5. MapHonest'
  BY <1>4 DEF MapHonest, Honest, HonestIn
<1> QED
  BY <1>2, <1>3, <1>5, EmptyFits DEF File, FileInv

\* A file that is opened for what the map says.
LEMMA FileIsParsed ==
  ASSUME File, ~rewritten, fd' = TRUE, UNCHANGED <<disk, rewritten, map_file>>,
         tree' = map_file.tree, last_physical_pos' = map_file.last,
         map_file.tree # NULL, Len(disk) >= map_file.last
  PROVE  File'
<1>1. FileTypes'
  BY DEF File, FileTypes
<1>2. map_file # NoMap
  BY DEF NoMap
<1>3. Fits(map_file.tree, map_file.last) /\ HonestIn(disk, map_file.tree)
  BY <1>2 DEF File, FileInv, MapHonest, Honest, HonestIn
<1>4. Entries' = map_file.tree
  BY PrimedEntries
<1>5. MapHonest'
  BY DEF File, FileInv, MapHonest, Honest
<1>6. map_file.last \in Nat /\ Len(disk) \in Nat
  BY DEF File, FileTypes, Bytes
<1> QED
  BY <1>1, <1>3, <1>4, <1>5, <1>6 DEF File, FileInv

\* Bytes of the stream from p on are written at "pos", n of them, and entered after the
\* entries t: those there are, at the end of the file, or none, at its beginning.
LEMMA FileIsWritten ==
  ASSUME File, fd, fd' = TRUE, UNCHANGED map_file, rewritten' \in BOOLEAN,
         NEW t \in SUBSET Entry, NEW pos \in Nat, NEW p \in Nat, NEW n \in Nat, NEW data \in Bytes,
         \/ t = Entries /\ pos = last_physical_pos /\ rewritten' = rewritten
         \/ t = {} /\ pos = 0 /\ rewritten' = TRUE,
         Len(data) = n, IsPiece(data, p), p + n <= Size, FreeIn(t, p, n),
         disk' = Overwrite(pos, data), last_physical_pos' = pos + n,
         tree' = IF n = 0 THEN t ELSE Longer(t, p, pos, n)
  PROVE  File' /\ tree' # NULL
<1>1. /\ disk' \in Bytes /\ Len(disk) \in Nat /\ Len(disk') \in Nat
      /\ Len(disk) <= Len(disk') /\ pos + n <= Len(disk')
      /\ \A i \in 1 .. pos : disk'[i] = disk[i]
      /\ \A i \in 1 .. n : disk'[pos + i] = data[i]
  <2>1. Len(disk) \in Nat /\ disk \in Bytes
    BY DEF File, FileTypes, Bytes
  <2>2. pos \in 0 .. Len(disk)
    BY <2>1 DEF File, FileInv
  <2>3. disk' \in Seq(Nat) => Len(disk') \in Nat
    OBVIOUS
  <2> QED
    BY <2>1, <2>2, <2>3, OverwriteIs DEF Bytes
<1>2. Written(disk', disk, p, pos, n)
  BY <1>1, PieceByByte DEF Written, Bytes
<1>3. Fits(t, pos) /\ HonestIn(disk, t)
  BY EmptyFits DEF File, FileInv
<1>4. /\ tree' \in SUBSET Entry /\ Fits(tree', pos + n) /\ HonestIn(disk', tree')
  <2>1. CASE n = 0
    <3>1. tree' = t /\ pos + n = pos
      BY <2>1
    <3>2. HonestIn(disk', t)
      BY <1>1, <1>3, <2>1, KeptHonest DEF File, FileTypes
    <3> QED
      BY <1>3, <3>1, <3>2
  <2>2. CASE n # 0
    <3>1. n \in Nat \ {0} /\ tree' = Longer(t, p, pos, n)
      BY <2>2
    <3>2. tree' \subseteq Entry
      BY <3>1, LongerHas
    <3>3. Fits(tree', pos + n)
      BY <1>3, <3>1, LongerFits
    <3>4. HonestIn(disk', tree')
      BY <1>1, <1>2, <1>3, <3>1, LongerHonest DEF File, FileTypes
    <3> QED
      BY <3>2, <3>3, <3>4
  <2> QED
    BY <2>1, <2>2
<1>5. Entries' = tree' /\ tree' \in Trees /\ tree' # NULL
  BY <1>4, NullIsNoTree, PrimedEntries DEF Trees
<1>6. FileTypes'
  BY <1>1, <1>5 DEF File, FileTypes
<1>7. ASSUME ~rewritten', map_file # NoMap
      PROVE  map_file.last <= last_physical_pos' /\ HonestIn(disk', map_file.tree)
  <2>1. pos = last_physical_pos /\ ~rewritten
    BY <1>7
  <2>2. map_file.last \in Nat /\ map_file.tree \in Trees /\ map_file.last <= pos
    BY <1>7, <2>1 DEF File, FileTypes, FileInv
  <2>3. pos <= Len(disk)
    BY <2>1 DEF File, FileInv
  <2>4. Len(disk) >= map_file.last /\ map_file.last <= Len(disk')
    BY <1>1, <2>2, <2>3
  <2>5. HonestIn(disk, map_file.tree)
    BY <1>7, <2>1, <2>4 DEF File, FileInv, MapHonest, Honest, HonestIn
  <2>6. HonestIn(disk', map_file.tree)
    <3>1. CASE map_file.tree = NULL
      BY <3>1 DEF NULL, HonestIn
    <3>2. CASE map_file.tree # NULL
      <4>1. map_file.tree \subseteq Entry /\ Fits(map_file.tree, map_file.last)
        BY <2>2, <3>2 DEF Trees, File, FileInv
      <4>2. \A i \in 1 .. map_file.last : disk'[i] = disk[i]
        BY <1>1, <2>2
      <4> QED
        BY <1>1, <2>2, <2>4, <2>5, <4>1, <4>2, KeptHonest DEF File, FileTypes
    <3> QED
      BY <3>1, <3>2
  <2> QED
    BY <2>2, <2>6
<1>8. MapHonest'
  BY <1>7 DEF MapHonest, Honest, HonestIn
<1>9. last_physical_pos' <= Len(disk') /\ (map_file'.tree # NULL => Fits(map_file'.tree, map_file'.last))
  BY <1>1 DEF File, FileInv
<1> QED
  BY <1>4, <1>5, <1>6, <1>7, <1>8, <1>9 DEF File, FileInv

\* The first bytes of a piece that is free are a piece that is free.
LEMMA FirstIsPiece ==
  ASSUME NEW data \in Bytes, NEW p \in 0 .. Size, IsPiece(data, p), p + Len(data) <= Size,
         NEW t \in SUBSET Entry, FreeIn(t, p, Len(data)), NEW n \in 0 .. Len(data)
  PROVE  /\ SubSeq(data, 1, n) \in Bytes /\ Len(SubSeq(data, 1, n)) = n
         /\ IsPiece(SubSeq(data, 1, n), p) /\ p + n <= Size /\ FreeIn(t, p, n)
<1>1. /\ SubSeq(data, 1, n) \in Bytes /\ Len(SubSeq(data, 1, n)) = n
      /\ \A i \in 1 .. n : SubSeq(data, 1, n)[i] = data[i]
  BY FirstBytes DEF Bytes
<1>2. Len(data) \in Nat /\ p \in Nat /\ Size \in Nat
  BY SizesAssumption DEF Bytes
<1>3. \A i \in 1 .. n : SubSeq(data, 1, n)[i] = p + i - 1
  BY <1>1, <1>2, PieceByByte DEF Bytes
<1>4. IsPiece(SubSeq(data, 1, n), p)
  BY <1>1, <1>2, <1>3, PieceByByte DEF Bytes
<1>5. FreeIn(t, p, n)
  <2> SUFFICES ASSUME NEW e \in t PROVE e.logical + e.size <= p \/ p + n <= e.logical
    BY DEF FreeIn
  <2>1. e.logical \in Nat /\ e.size \in Nat
    BY DEF Entry
  <2>2. e.logical + e.size <= p \/ p + Len(data) <= e.logical
    BY DEF FreeIn
  <2> QED
    BY <1>2, <2>1, <2>2
<1>6. p + n <= Size
  BY <1>2
<1> QED
  BY <1>1, <1>4, <1>5, <1>6

LEMMA StoreKeepsFile ==
  ASSUME CacheInv, Store
  PROVE  File' /\ tree' # NULL
<1>1. /\ at = "store" /\ fd /\ tree # NULL /\ fd' = TRUE
      /\ UNCHANGED map_file
  BY DEF Store, Handed, Storing
<1>2. /\ IsPiece(buf, read_logical_pos) /\ read_logical_pos + Len(buf) <= Size
      /\ Free(read_logical_pos, Len(buf)) /\ buf \in Bytes /\ read_logical_pos \in 0 .. Size
  BY <1>1 DEF CacheInv, FetchInv, CacheTypes, ReaderTypes
<1>3. Sought = last_physical_pos
  <2>1. forwards = 0
    BY <1>1 DEF CacheInv, PlaceInv, Sync
  <2> QED
    BY <1>1, <2>1 DEF CacheInv, DescriptorInv, Sought
<1>4. File /\ tree \in SUBSET Entry /\ Entries = tree /\ last_physical_pos \in Nat /\ rewritten \in BOOLEAN
  BY <1>1, EntriesAre DEF CacheInv, CacheTypes, FileTypes, File
<1>5. PICK n \in 0 .. Len(buf) :
        LET pos     == IF Full THEN 0 ELSE last_physical_pos
            from    == IF Full THEN 0 ELSE Sought
            entries == IF Full THEN {} ELSE tree
        IN  /\ disk' = Overwrite(from, SubSeq(buf, 1, n))
            /\ last_physical_pos' = pos + n
            /\ tree' = IF n = 0 THEN entries ELSE Longer(entries, read_logical_pos, pos, n)
  BY DEF Store
<1>6. ~(Full /\ shared) /\ rewritten' = (rewritten \/ (Full /\ ~shared))
  BY DEF Store, Refused
<1> DEFINE t   == IF Full THEN {} ELSE tree
           pos == IF Full THEN 0 ELSE last_physical_pos
           data == SubSeq(buf, 1, n)
<1>7. t \in SUBSET Entry /\ pos \in Nat /\ FreeIn(t, read_logical_pos, Len(buf))
  BY <1>2, <1>4 DEF Free, FreeIn
<1>8. \/ t = Entries /\ pos = last_physical_pos /\ rewritten' = rewritten
      \/ t = {} /\ pos = 0 /\ rewritten' = TRUE
  BY <1>4, <1>6
<1>9. /\ disk' = Overwrite(pos, data) /\ last_physical_pos' = pos + n
      /\ tree' = IF n = 0 THEN t ELSE Longer(t, read_logical_pos, pos, n)
  BY <1>3, <1>5
<1> HIDE DEF t, pos
<1>10. /\ data \in Bytes /\ Len(data) = n
       /\ IsPiece(data, read_logical_pos) /\ read_logical_pos + n <= Size
       /\ FreeIn(t, read_logical_pos, n)
  BY <1>2, <1>7, FirstIsPiece
<1> HIDE DEF data
<1>11. n \in Nat /\ read_logical_pos \in Nat /\ rewritten' \in BOOLEAN
  BY <1>2, <1>4, <1>6 DEF Bytes
<1> QED
  BY <1>1, <1>4, <1>7, <1>8, <1>9, <1>10, <1>11, FileIsWritten

LEMMA TaskStoresKeepsFile ==
  ASSUME CacheInv, TaskStores
  PROVE  File' /\ tree' # NULL
<1>1. task = "stores" /\ UNCHANGED <<fd, map_file, rewritten>>
  BY DEF TaskStores, TaskOnly
<1>2. /\ IsPiece(task_buf, file_logical_pos) /\ file_logical_pos + Len(task_buf) <= Size
      /\ Free(file_logical_pos, Len(task_buf)) /\ task_buf \in Bytes
      /\ file_logical_pos \in 0 .. Size
  BY <1>1 DEF CacheInv, FetchInv, CacheTypes, TaskTypes
<1>3. fd = TRUE /\ tree # NULL
  BY <1>1 DEF CacheInv, PlaceInv, CacheTypes, FileTypes
<1>4. File /\ tree \in SUBSET Entry /\ Entries = tree /\ last_physical_pos \in Nat /\ rewritten \in BOOLEAN
  BY <1>3, EntriesAre DEF CacheInv, CacheTypes, FileTypes, File
<1>5. PICK n \in 1 .. Len(task_buf) :
        /\ disk' = Overwrite(last_physical_pos, SubSeq(task_buf, 1, n))
        /\ last_physical_pos' = last_physical_pos + n
        /\ tree' = Longer(tree, file_logical_pos, last_physical_pos, n)
  BY DEF TaskStores
<1>6. n \in 0 .. Len(task_buf) /\ n \in Nat /\ n # 0 /\ file_logical_pos \in Nat
  BY <1>2 DEF Bytes
<1> DEFINE data == SubSeq(task_buf, 1, n)
<1>7. /\ data \in Bytes /\ Len(data) = n
      /\ IsPiece(data, file_logical_pos) /\ file_logical_pos + n <= Size
      /\ FreeIn(tree, file_logical_pos, n)
  BY <1>2, <1>4, <1>6, FirstIsPiece DEF Free
<1> HIDE DEF data
<1>8. /\ disk' = Overwrite(last_physical_pos, data)
      /\ tree' = IF n = 0 THEN tree ELSE Longer(tree, file_logical_pos, last_physical_pos, n)
  BY <1>5, <1>6 DEF data
<1>9. fd' = TRUE /\ UNCHANGED map_file /\ rewritten' = rewritten /\ rewritten' \in BOOLEAN
  BY <1>1, <1>3, <1>4
<1> QED
  BY <1>3, <1>4, <1>5, <1>6, <1>7, <1>8, <1>9, FileIsWritten

LEMMA OpenKeepsFile ==
  ASSUME KeepsFile, CacheInv, OpenFile
  PROVE  File'
<1>1. File /\ UNCHANGED map_file /\ fd \in BOOLEAN /\ rewritten \in BOOLEAN
  BY DEF OpenFile, CacheInv, CacheTypes, FileTypes, File
<1>2. fd' \in BOOLEAN
  BY <1>1 DEF OpenFile
<1>3. CASE fd /\ fd' /\ UNCHANGED <<disk, tree, last_physical_pos, rewritten, cache_file_close>>
  BY <1>1, <1>2, <1>3, FileStays DEF stored, cache
<1>4. CASE /\ ~fd /\ fd' /\ UNCHANGED <<disk, rewritten, cache_file_close>>
           /\ tree' = map_file.tree /\ last_physical_pos' = map_file.last
           /\ map_file.tree # NULL /\ Len(disk) >= map_file.last
           /\ ~StaleMaps => ~rewritten
  BY <1>1, <1>2, <1>4, FileIsParsed DEF KeepsFile
<1>5. CASE /\ ~fd /\ fd' /\ UNCHANGED cache_file_close
           /\ disk' \in Bytes /\ tree' = {} /\ last_physical_pos' = 0 /\ rewritten'
  <2>1. rewritten' = TRUE
    BY <1>1, <1>5 DEF OpenFile
  <2> QED
    BY <1>1, <1>2, <1>5, <2>1, FileBegunAgain
<1>6. CASE /\ ~fd /\ ~fd' /\ tree' = NULL /\ last_physical_pos' = 0
           /\ cache_file_close' /\ UNCHANGED <<disk, rewritten>>
  <2>1. disk \in Bytes
    BY <1>1 DEF File, FileTypes
  <2> QED
    BY <1>1, <1>2, <1>6, <2>1, FileBegunAgain
<1> QED
  BY <1>3, <1>4, <1>5, <1>6, OpenFileIs

LEMMA FileStep ==
  ASSUME KeepsFile, CacheInv, AheadNext
  PROVE  File'
<1>1. File /\ PlaceInv /\ disk \in Bytes /\ fd \in BOOLEAN
  BY DEF CacheInv, CacheTypes, FileTypes, File
<1>2. CASE AheadOpenFile
  BY <1>2, OpenKeepsFile DEF AheadOpenFile
<1>3. CASE \/ AheadOpenInner \/ NotQueued \/ BeginClose \/ EndClose \/ Pause \/ EndPause
           \/ ClosePaused \/ Resume \/ Interrupt \/ CloseInTurn
  <2>1. UNCHANGED <<stored, cache, fd>>
    BY <1>3 DEF AheadOpenInner, OpenInner, NotQueued, BeginClose, EndClose, Pause, StopTask,
                EndPause, ClosePaused, Resume, Interrupt, CloseInTurn, Close, vars, handle
  <2> QED
    BY <1>1, <2>1, FileStays
<1>4. CASE Reader
  <2>1. ReaderOnly
    BY <1>4 DEF Reader, BeginRead, BeginSeek, ReadInterrupted, ReadFile, ReadNothing,
                ReadFileFails, MadeAnew, ReadInner, SeekLoop, KeepsFile
  <2> QED
    BY <1>1, <2>1, FileStays DEF ReaderOnly
<1>5. CASE Task
  <2>1. CASE TaskStores
    BY <2>1, TaskStoresKeepsFile
  <2>2. CASE TaskBeginsAgain
    <3>1. /\ UNCHANGED <<map_file, fd, disk>>
          /\ tree' = {} /\ last_physical_pos' = 0 /\ rewritten' = TRUE
      BY <2>2 DEF TaskBeginsAgain, TaskOnly
    <3> QED
      BY <1>1, <3>1, FileBegunAgain
  <2>3. CASE ~TaskStores /\ ~TaskBeginsAgain
    <3>1. TaskOnly /\ UNCHANGED <<disk, rewritten, cache>>
      BY <1>5, <2>3 DEF Task, TaskStarts, TaskTop, TaskSeeks, TaskAhead, TaskSleeps, TaskFinds,
                        TaskFetches, TaskFails, TaskTells, TaskGivesUp, TaskCannotStore, MadeAnew,
                        TaskSignals, TaskEnds, LooksOnly, KeepsFile
    <3> QED
      BY <1>1, <3>1, FileStays DEF TaskOnly, stored
  <2> QED
    BY <2>1, <2>2, <2>3
<1>6. CASE InTurn
  <2>1. CASE Store
    BY <2>1, StoreKeepsFile
  <2>2. ASSUME NEW n \in 1 .. MaxRead, ReadBad(n) PROVE File'
    <3>1. /\ UNCHANGED map_file /\ fd' \in BOOLEAN /\ tree' \in {{}, NULL}
          /\ last_physical_pos' = 0 /\ disk' \in Bytes /\ rewritten' = TRUE
      BY <1>1, <2>2, NoBytes DEF ReadBad
    <3> QED
      BY <1>1, <3>1, FileBegunAgain
  <2>3. CASE ~Store /\ \A n \in 1 .. MaxRead : ~ReadBad(n)
    <3>1. UNCHANGED <<stored, cache, fd>>
      BY <1>6, <2>3 DEF InTurn, Read, ReadHit, ReadMiss, PassRead, FetchOpens, Fetch,
                        StoreNothing, StoreRefused, Seek, Handed, handle, stored
    <3> QED
      BY <1>1, <3>1, FileStays
  <2> QED
    BY <2>1, <2>2, <2>3
<1>7. CASE Destroy \/ Share
  <2>1. /\ map_file' = Map /\ rewritten' = FALSE /\ UNCHANGED disk
        /\ \/ UNCHANGED <<cache, fd>>
           \/ tree' = NULL /\ last_physical_pos' = 0 /\ fd' = FALSE
    BY <1>7 DEF Destroy, Share, Forgotten, handle
  <2> QED
    BY <1>1, <2>1, MapSaved
<1>8. CASE DidShare
  BY <1>1, <1>8, FileStays DEF DidShare, handle
<1>9. CASE FileLost
  BY <1>1, <1>9, FileIsLost DEF FileLost, handle
<1>10. CASE KilledAhead
  <2>1. /\ UNCHANGED <<disk, map_file, rewritten>>
        /\ tree' = NULL /\ last_physical_pos' = 0 /\ fd' = FALSE
    BY <1>10 DEF KilledAhead, Killed, Forgotten, stored
  <2> QED
    BY <1>1, <2>1, FileBegunAgain
<1> QED
  BY <1>2, <1>3, <1>4, <1>5, <1>6, <1>7, <1>8, <1>9, <1>10 DEF AheadNext, Elsewhere

-----------------------------------------------------------------------------
(* What is read of the file, by the reader alone and beside the task.      *)

\* Wherever the descriptor is, what the entry has is read from where it is.
LEMMA FromIs ==
  ASSUME CacheInv, at # "closed", forwards = 0 \/ forwards > 0, NEW p \in 0 .. Size, NEW e \in Cached(p)
  PROVE  LET target == e.physical + (p - e.logical)
         IN  /\ target \in Nat
             /\ (IF cache_physical_pos = target THEN fd_pos ELSE target) = target
<1>1. e \in Entries /\ Covers(e, p) /\ e \in Entry /\ p \in Nat
  BY CachedHas, EntriesAre, SizesAssumption DEF CacheInv, CacheTypes, FileTypes
<1>2. e.physical + e.size <= last_physical_pos
  BY <1>1 DEF CacheInv, FileInv, Fits
<1>3. /\ e.physical \in Nat /\ e.logical \in Nat /\ e.size \in Nat /\ p - e.logical \in Nat
      /\ p - e.logical < e.size
  BY <1>1 DEF Entry, Covers
<1>4. last_physical_pos \in Nat /\ cache_physical_pos \in Nat
  BY DEF CacheInv, CacheTypes, FileTypes, ReaderTypes
<1>5. fd_pos = cache_physical_pos \/ cache_physical_pos = last_physical_pos
  BY DEF CacheInv, DescriptorInv
<1> QED
  BY <1>2, <1>3, <1>4, <1>5

LEMMA HitIs ==
  ASSUME CacheInv, at = "open", forwards = 0, NEW n \in 1 .. MaxRead, ReadHit(n)
  PROVE  \E e \in Cached(read_logical_pos), data \in Bytes :
           /\ IsPiece(data, read_logical_pos) /\ Len(data) \in 1 .. n
           /\ read_logical_pos + Len(data) <= Size
           /\ Answer(data) /\ read_logical_pos' = read_logical_pos + Len(data)
           /\ fd_pos' \in Nat /\ cache_physical_pos' = fd_pos'
<1>1. read_logical_pos \in 0 .. Size /\ read_logical_pos \in Nat /\ n \in Nat \ {0}
  BY SizesAssumption DEF CacheInv, CacheTypes, ReaderTypes
<1>2. PICK e \in Cached(read_logical_pos) :
        LET inBlock == read_logical_pos - e.logical
            target  == e.physical + inBlock
            from    == IF cache_physical_pos = target THEN fd_pos ELSE target
            data    == SubSeq(disk, from + 1, from + Smaller(n, e.size - inBlock))
        IN  /\ Answer(data)
            /\ fd_pos' = from + Len(data)
            /\ cache_physical_pos' = target + Len(data)
            /\ read_logical_pos' = read_logical_pos + Len(data)
  BY DEF ReadHit
<1> DEFINE target == e.physical + (read_logical_pos - e.logical)
           data == Stretch(e, read_logical_pos, n)
<1>3. /\ target \in Nat
      /\ (IF cache_physical_pos = target THEN fd_pos ELSE target) = target
  BY <1>1, FromIs
<1>4. data = SubSeq(disk, target + 1, target + Smaller(n, e.size - (read_logical_pos - e.logical)))
  BY DEF Stretch
<1>5. /\ Answer(data) /\ fd_pos' = target + Len(data) /\ cache_physical_pos' = target + Len(data)
      /\ read_logical_pos' = read_logical_pos + Len(data)
  BY <1>2, <1>3, <1>4, Zenon
<1>6. /\ data \in Bytes /\ IsPiece(data, read_logical_pos)
      /\ Len(data) \in 1 .. n /\ read_logical_pos + Len(data) <= Size
  BY <1>1, ReadIsPiece DEF CacheInv, CacheTypes, FileTypes, FileInv
<1> HIDE DEF target, data
<1>7. fd_pos' \in Nat /\ cache_physical_pos' = fd_pos'
  BY <1>3, <1>5, <1>6
<1> QED
  BY <1>5, <1>6, <1>7

LEMMA FromFileIs ==
  ASSUME CacheInv, at = "reads", NEW e \in Cached(read_logical_pos)
  PROVE  /\ FromFile(e) \in Bytes /\ IsPiece(FromFile(e), read_logical_pos)
         /\ Len(FromFile(e)) \in 1 .. to_copy /\ read_logical_pos + Len(FromFile(e)) <= Size
         /\ e.physical + read_logical_pos - e.logical \in Nat
<1>1. read_logical_pos \in 0 .. Size /\ read_logical_pos \in Nat /\ to_copy \in Nat \ {0}
  BY SizesAssumption DEF CacheInv, CacheTypes, ReaderTypes
<1>2. forwards > 0
  BY DEF CacheInv, PlaceInv
<1> DEFINE target == e.physical + (read_logical_pos - e.logical)
<1>3. /\ target \in Nat
      /\ (IF cache_physical_pos = target THEN fd_pos ELSE target) = target
  BY <1>1, <1>2, FromIs
<1>4. FromFile(e) = Stretch(e, read_logical_pos, to_copy)
  BY <1>3 DEF FromFile, Stretch
<1>5. /\ Stretch(e, read_logical_pos, to_copy) \in Bytes
      /\ IsPiece(Stretch(e, read_logical_pos, to_copy), read_logical_pos)
      /\ Len(Stretch(e, read_logical_pos, to_copy)) \in 1 .. to_copy
      /\ read_logical_pos + Len(Stretch(e, read_logical_pos, to_copy)) <= Size
  BY <1>1, ReadIsPiece DEF CacheInv, CacheTypes, FileTypes, FileInv
<1>6. e.physical + read_logical_pos - e.logical = target
  <2>1. e \in Entry
    BY CachedHas, EntriesAre DEF CacheInv, CacheTypes, FileTypes
  <2> QED
    BY <1>1, <2>1 DEF Entry
<1> QED
  BY <1>3, <1>4, <1>5, <1>6

-----------------------------------------------------------------------------
(* Types.                                                                  *)

LEMMA Sizes ==
  /\ Size \in Nat /\ MaxRead \in Nat /\ SeekTo \subseteq 0 .. Size /\ 0 \in 0 .. Size
  /\ Forwards \subseteq Nat
BY SizesAssumption, ForwardsAssumption

PosTypes ==
  /\ fd_pos \in Nat /\ cache_physical_pos \in Nat
  /\ read_logical_pos \in 0 .. Size /\ read_inner_pos \in 0 .. Size /\ inner_pos \in 0 .. Size
  /\ to_copy \in Nat /\ buf \in Bytes

FlagTypes == cache_file_close \in BOOLEAN /\ async_open \in BOOLEAN

LEMMA MissAsks ==
  ASSUME NEW n \in 1 .. MaxRead, ReadMiss(n)
  PROVE  \/ at' = at /\ to_copy' = to_copy /\ Answer(<<>>) /\ read_logical_pos >= Size
         \/ at' = "fetch" /\ to_copy' = Gap(read_logical_pos, n) /\ NoAnswer
<1>1. CASE read_logical_pos >= Size
  BY <1>1, Zenon DEF ReadMiss
<1>2. CASE ~(read_logical_pos >= Size)
  BY <1>2, Zenon DEF ReadMiss, Gap
<1> QED
  BY <1>1, <1>2

LEMMA CallTypes ==
  ASSUME CacheInv, InTurn
  PROVE  (PosTypes /\ FlagTypes)' /\ at' \in {"open", "fetch", "store"}
<1>1. PosTypes /\ FlagTypes /\ (forwards = 0 \/ cache_file_close)
  BY DEF CacheInv, CacheTypes, ReaderTypes, PosTypes, FlagTypes, InTurn
<1>2. ASSUME NEW n \in 1 .. MaxRead, ReadHit(n) PROVE (PosTypes /\ FlagTypes)' /\ at' = "open"
  <2>1. /\ at = "open" /\ forwards = 0
        /\ UNCHANGED <<at, cache_file_close, async_open, read_inner_pos, inner_pos, to_copy, buf>>
    BY <1>1, <1>2 DEF ReadHit, opening, inner, reading
  <2>2. PICK e \in Cached(read_logical_pos), data \in Bytes :
           /\ Len(data) \in 1 .. n /\ read_logical_pos + Len(data) <= Size
           /\ read_logical_pos' = read_logical_pos + Len(data)
           /\ fd_pos' \in Nat /\ cache_physical_pos' = fd_pos'
    BY <1>2, <2>1, HitIs
  <2>3. read_logical_pos' \in 0 .. Size
    BY <1>1, <2>2, Sizes DEF PosTypes
  <2> QED
    BY <1>1, <2>1, <2>2, <2>3 DEF PosTypes, FlagTypes
<1>3. ASSUME NEW n \in 1 .. MaxRead, ReadBad(n) \/ ReadMiss(n)
      PROVE  (PosTypes /\ FlagTypes)' /\ at' \in {"open", "fetch"}
  <2>1. CASE ReadBad(n)
    <3>1. to_copy' \in Nat
      BY <2>1, Sizes DEF ReadBad
    <3> QED
      BY <1>1, <2>1, <3>1 DEF ReadBad, PosTypes, FlagTypes, opening, inner
  <2>2. CASE ReadMiss(n)
    <3>1. /\ UNCHANGED <<fd_pos, cache_physical_pos, cache_file_close, async_open, read_logical_pos,
                         read_inner_pos, inner_pos, buf>>
          /\ at = "open"
          /\ (at' = at /\ to_copy' = to_copy) \/ (at' = "fetch" /\ to_copy' = Gap(read_logical_pos, n))
      <4>1. (at' = at /\ to_copy' = to_copy) \/ (at' = "fetch" /\ to_copy' = Gap(read_logical_pos, n))
        BY <2>2, MissAsks, Zenon
      <4> QED
        BY <2>2, <4>1 DEF ReadMiss, handle, opening, inner
    <3>2. Gap(read_logical_pos, n) \in Nat
      <4>1. read_logical_pos \in Nat /\ n \in Nat \ {0}
        BY <1>1, Sizes DEF PosTypes
      <4>2. Gap(read_logical_pos, n) \in 1 .. n
        BY <4>1, GapIs DEF CacheInv, CacheTypes, FileTypes
      <4> QED
        BY <4>2
    <3> QED
      BY <1>1, <3>1, <3>2 DEF PosTypes, FlagTypes
  <2> QED
    BY <1>3, <2>1, <2>2
<1>4. ASSUME NEW n \in 1 .. MaxRead, PassRead(n) PROVE (PosTypes /\ FlagTypes)' /\ at' = "open"
  <2>1. inner_pos' \in 0 .. Size
    <3>1. \/ inner_pos' = inner_pos
          \/ \E k \in 1 .. Smaller(n, Size - inner_pos) : inner_pos' = inner_pos + k
      BY <1>4 DEF PassRead
    <3> QED
      BY <1>1, <3>1, Sizes DEF PosTypes, Smaller
  <2> QED
    BY <1>1, <1>4, <2>1 DEF PassRead, PosTypes, FlagTypes, handle, opening, reading
<1>5. CASE FetchOpens
  BY <1>1, <1>5, Sizes DEF FetchOpens, PosTypes, FlagTypes, handle, reading
<1>6. CASE Fetch
  <2>1. /\ UNCHANGED <<fd_pos, cache_physical_pos, cache_file_close, async_open, read_logical_pos,
                       to_copy>>
        /\ at = "fetch" /\ at' \in {"open", "store"}
    BY <1>6 DEF Fetch, handle, opening
  <2>2. inner_pos = read_inner_pos
    BY <2>1 DEF CacheInv, PlaceInv, InnerInv
  <2>3. \/ \E k \in 1 .. Smaller(to_copy, Size - read_logical_pos) :
              /\ buf' = Piece(read_logical_pos, k)
              /\ inner_pos' = read_logical_pos + k /\ read_inner_pos' = read_logical_pos + k
        \/ inner_pos' = read_logical_pos /\ read_inner_pos' = read_logical_pos /\ UNCHANGED buf
        \/ UNCHANGED <<inner, buf>>
    <3>1. (IF read_inner_pos = read_logical_pos THEN inner_pos ELSE read_logical_pos)
             = read_logical_pos
      BY <2>2
    <3> HIDE <2>2
    <3> QED
      BY <1>6, <3>1 DEF Fetch
  <2>4. CASE \E k \in 1 .. Smaller(to_copy, Size - read_logical_pos) :
              /\ buf' = Piece(read_logical_pos, k)
              /\ inner_pos' = read_logical_pos + k /\ read_inner_pos' = read_logical_pos + k
    <3>1. PICK k \in 1 .. Smaller(to_copy, Size - read_logical_pos) :
              /\ buf' = Piece(read_logical_pos, k)
              /\ inner_pos' = read_logical_pos + k /\ read_inner_pos' = read_logical_pos + k
      BY <2>4
    <3>2. k \in Nat /\ read_logical_pos \in Nat /\ read_logical_pos + k \in 0 .. Size
      BY <1>1, Sizes DEF PosTypes, Smaller
    <3>3. buf' \in Bytes
      BY <3>1, <3>2, PieceIs DEF Bytes
    <3> QED
      BY <1>1, <2>1, <3>1, <3>2, <3>3 DEF PosTypes, FlagTypes
  <2> QED
    BY <1>1, <2>1, <2>3, <2>4 DEF PosTypes, FlagTypes, inner
<1>7. CASE StoreNothing \/ StoreRefused \/ Store
  <2>1. /\ at = "store" /\ at' = "open" /\ read_logical_pos' = read_logical_pos + Len(buf)
        /\ to_copy' = 0 /\ buf' = <<>>
        /\ UNCHANGED <<cache_file_close, async_open, read_inner_pos, inner_pos>>
    BY <1>7 DEF StoreNothing, StoreRefused, Store, Handed, opening, inner
  <2>2. read_logical_pos' \in 0 .. Size
    <3>1. Len(buf) \in Nat /\ read_logical_pos + Len(buf) <= Size
      BY <1>1, <2>1 DEF CacheInv, FetchInv, PosTypes, Bytes
    <3> QED
      BY <1>1, <2>1, <3>1, Sizes DEF PosTypes
  <2>3. last_physical_pos \in Nat
    BY DEF CacheInv, CacheTypes, FileTypes
  <2>4. fd_pos' \in Nat /\ cache_physical_pos' \in Nat
    <3>1. CASE StoreNothing \/ StoreRefused
      BY <1>1, <2>3, <3>1 DEF StoreNothing, StoreRefused, Sought, PosTypes
    <3>2. CASE Store
      <4>1. PICK n \in 0 .. Len(buf) :
              /\ fd_pos' = (IF Full THEN 0 ELSE Sought) + n
              /\ cache_physical_pos' = (IF Full THEN 0 ELSE last_physical_pos) + n
        BY <3>2 DEF Store
      <4>2. Sought \in Nat
        BY <1>1, <2>3 DEF Sought, PosTypes
      <4> QED
        BY <2>3, <4>1, <4>2
    <3> QED
      BY <1>7, <3>1, <3>2
  <2> QED
    BY <1>1, <2>1, <2>2, <2>4, NoBytes DEF PosTypes, FlagTypes
<1>8. ASSUME NEW t \in SeekTo, Seek(t) PROVE (PosTypes /\ FlagTypes)' /\ at' = "open"
  BY <1>1, <1>8, Sizes DEF Seek, PosTypes, FlagTypes, handle, opening, reading
<1> QED
  BY <1>2, <1>3, <1>4, <1>5, <1>6, <1>7, <1>8 DEF InTurn, Read

LEMMA OpenCloseTypes ==
  ASSUME CacheInv, File',
         \/ AheadOpenFile \/ AheadOpenInner \/ NotQueued \/ BeginClose \/ EndClose \/ Pause
         \/ EndPause \/ ClosePaused \/ Resume \/ Interrupt \/ CloseInTurn \/ Elsewhere
         \/ KilledAhead
  PROVE  (ReaderTypes /\ TaskTypes)'
<1>1. /\ ReaderTypes /\ TaskTypes /\ last_physical_pos \in Nat /\ last_physical_pos' \in Nat
      /\ 0 \in 0 .. Size /\ 0 \in Nat
  BY Sizes DEF CacheInv, CacheTypes, File, FileTypes
<1>2. CASE AheadOpenFile
  <2>1. forwards' \in Nat
    BY <1>2, Sizes DEF AheadOpenFile
  <2>2. /\ fd_pos' = last_physical_pos' /\ cache_physical_pos' = last_physical_pos'
        /\ at' = "opening"
        /\ UNCHANGED <<async_open, read_logical_pos, read_inner_pos, inner_pos, to_copy, buf>>
        /\ cache_file_close' = cache_file_close \/ cache_file_close' = TRUE
    BY <1>2 DEF AheadOpenFile, OpenFile, inner, reading
  <2>3. ReaderTypes'
    BY <1>1, <1>2, <2>2 DEF ReaderTypes, AheadOpenFile, Zeroed
  <2>4. TaskTypes'
    BY <1>1, <1>2, <2>1, NoBytes DEF TaskTypes, AheadOpenFile, Zeroed
  <2> QED
    BY <2>3, <2>4
<1>3. CASE AheadOpenInner \/ NotQueued
  BY <1>1, <1>3 DEF AheadOpenInner, OpenInner, NotQueued, ReaderTypes, TaskTypes, handle, opening,
                    inner, reading, ahead, taskPos, taskEnd
<1>4. CASE BeginClose \/ Pause \/ EndPause \/ ClosePaused \/ Interrupt
  <2>1. \/ StopTask("closing") \/ StopTask("pausing") \/ EndPause \/ ClosePaused \/ Interrupt
    BY <1>4 DEF BeginClose, Pause
  <2>2. /\ UNCHANGED <<fd_pos, cache_physical_pos, cache_file_close, async_open, read_logical_pos,
                       read_inner_pos, inner_pos, caller_pos, to_copy, buf, forwards, task_buf,
                       file_logical_pos, file_inner_pos, io_eof_reached, io_error, broken,
                       seek_request>>
        /\ interrupted' \in BOOLEAN /\ abort_request' \in BOOLEAN
        /\ at' \in {"closing", "pausing", "paused"} \/ at' = at
    BY <1>1, <2>1 DEF StopTask, EndPause, ClosePaused, Interrupt, ReaderTypes, TaskTypes, handle,
                      opening, inner, reading, ahead, taskPos, taskEnd, vars
  <2> QED
    BY <1>1, <2>2 DEF ReaderTypes, TaskTypes
<1>5. CASE Resume
  <2>1. /\ UNCHANGED <<cache_file_close, async_open, read_logical_pos,
                       read_inner_pos, inner_pos, caller_pos, to_copy, buf, forwards, task_buf,
                       file_logical_pos, file_inner_pos, io_eof_reached, io_error, broken,
                       seek_request, interrupted>>
        /\ at' \in {"open", "paused"}
        /\ abort_request' \in BOOLEAN
    BY <1>5 DEF Resume, opening, inner, reading, taskPos, taskEnd
  <2>2. fd_pos' \in Nat /\ cache_physical_pos' \in Nat
    BY <1>1, <1>5 DEF Resume, ReaderTypes
  <2> QED
    BY <1>1, <2>1, <2>2 DEF ReaderTypes, TaskTypes
<1>6. CASE EndClose \/ CloseInTurn \/ KilledAhead
  <2>1. Closed /\ Zeroed /\ forwards' \in Nat /\ fd_pos' \in Nat /\ cache_physical_pos' \in Nat
    BY <1>1, <1>6 DEF EndClose, CloseInTurn, Close, KilledAhead, Killed, Forgotten, handle,
                      ReaderTypes, TaskTypes
  <2> QED
    BY <1>1, <2>1, NoBytes DEF Closed, Zeroed, ReaderTypes, TaskTypes
<1>7. CASE Elsewhere
  <2>1. /\ UNCHANGED <<at, cache_file_close, async_open, read_logical_pos,
                       read_inner_pos, inner_pos, to_copy, buf>>
        /\ UNCHANGED <<forwards, task_buf, file_logical_pos, file_inner_pos, io_eof_reached,
                       io_error, broken, seek_request, interrupted, abort_request, caller_pos>>
    BY <1>7 DEF Elsewhere, Destroy, Share, DidShare, FileLost, opening, inner, reading, ahead,
                taskPos, taskEnd
  <2>2. fd_pos' \in Nat /\ cache_physical_pos' \in Nat
    BY <1>1, <1>7 DEF Elsewhere, Destroy, Share, DidShare, FileLost, Forgotten, handle, ReaderTypes
  <2> QED
    BY <1>1, <2>1, <2>2 DEF ReaderTypes, TaskTypes
<1> QED
  BY <1>2, <1>3, <1>4, <1>5, <1>6, <1>7

\* What a read of the file does, whether it is the end of the call or not.
LEMMA ReadFileIs ==
  ASSUME CacheInv, ReadFile
  PROVE  \E data \in Bytes :
           /\ IsPiece(data, read_logical_pos) /\ Len(data) \in 1 .. to_copy
           /\ read_logical_pos + Len(data) <= Size /\ buf \o data \in Bytes
           /\ fd_pos' \in Nat /\ read_logical_pos' = read_logical_pos + Len(data)
           /\ \/ Len(data) = to_copy /\ Returns(buf \o data, broken)
              \/ /\ Len(data) # to_copy /\ at' = "read_waits"
                 /\ buf' = buf \o data /\ to_copy' = to_copy - Len(data)
                 /\ UNCHANGED <<answer, caller_pos>>
<1>1. at = "reads" /\ buf \in Bytes
  BY DEF ReadFile, CacheInv, CacheTypes, ReaderTypes
<1>2. PICK e \in Cached(read_logical_pos) :
        /\ fd_pos' = e.physical + read_logical_pos - e.logical + Len(FromFile(e))
        /\ read_logical_pos' = read_logical_pos + Len(FromFile(e))
        /\ \/ Len(FromFile(e)) = to_copy /\ Returns(buf \o FromFile(e), broken)
           \/ /\ Len(FromFile(e)) # to_copy /\ at' = "read_waits"
              /\ buf' = buf \o FromFile(e) /\ to_copy' = to_copy - Len(FromFile(e))
              /\ UNCHANGED <<answer, caller_pos>>
  BY Zenon DEF ReadFile
<1>3. /\ FromFile(e) \in Bytes /\ IsPiece(FromFile(e), read_logical_pos)
      /\ Len(FromFile(e)) \in 1 .. to_copy /\ read_logical_pos + Len(FromFile(e)) <= Size
      /\ e.physical + read_logical_pos - e.logical \in Nat
  BY <1>1, FromFileIs
<1> DEFINE data == FromFile(e)
<1>4. buf \o data \in Bytes
  BY <1>1, <1>3, ConcatProperties DEF Bytes
<1>5. fd_pos' \in Nat
  <2>1. Len(data) \in Nat
    BY <1>3
  <2> QED
    BY <1>2, <1>3, <2>1
<1> QED
  BY <1>2, <1>3, <1>4, <1>5

\* What a read does that has got nothing of the file: it waits, or ends with what it has.
LEMMA NothingIs ==
  ASSUME "recreate" \notin Faults, CacheInv, ReadNothing \/ ReadFileFails
  PROVE  /\ at = "reads" /\ ~abort_request /\ ~cache_file_close
         /\ ReaderOnly /\ WakeTask /\ fd_pos' \in Nat
         /\ UNCHANGED <<cache_physical_pos, read_logical_pos, inner, seek_request, abort_request>>
         /\ \/ at' = "read_waits" /\ UNCHANGED <<answer, reading, caller_pos>>
            \/ io_eof_reached /\ Returns(buf, TRUE)
            \/ io_eof_reached /\ Cached(read_logical_pos) = {} /\ Returns(buf, broken)
<1>1. fd_pos \in Nat /\ read_logical_pos \in Nat
  BY Sizes DEF CacheInv, CacheTypes, ReaderTypes
<1>2. CASE ReadNothing
  BY <1>1, <1>2 DEF ReadNothing, NothingRead
<1>3. CASE ReadFileFails
  <2>1. PICK e \in Cached(read_logical_pos) :
          fd_pos' \in {fd_pos, e.physical + read_logical_pos - e.logical}
    BY <1>3 DEF ReadFileFails, MadeAnew
  <2>2. fd_pos' \in Nat
    <3>1. e \in Entry /\ e.logical <= read_logical_pos
      BY <2>1, EntriesAre DEF Cached, LastBefore, CacheInv, CacheTypes, FileTypes
    <3> QED
      BY <1>1, <2>1, <3>1 DEF Entry
  <2> QED
    BY <1>3, <2>2 DEF ReadFileFails, MadeAnew, NothingRead
<1> QED
  BY <1>2, <1>3

LEMMA ReadsTypes ==
  ASSUME KeepsFile, CacheInv, Reader
  PROVE  (ReaderTypes /\ TaskTypes)'
<1>1. ReaderTypes /\ TaskTypes /\ ReaderOnly
  BY NothingIs DEF KeepsFile, CacheInv, CacheTypes, Reader, BeginRead, BeginSeek, ReadInterrupted,
                   ReadFile, ReadInner, SeekLoop
<1>2. UNCHANGED <<cache_file_close, async_open, forwards, task_buf, file_logical_pos, file_inner_pos,
                  io_eof_reached, io_error, broken, interrupted>>
  BY <1>1 DEF ReaderOnly, opening, taskPos, taskEnd
<1>3. CASE \/ \E n \in 1 .. MaxRead : BeginRead(n)
           \/ \E t \in SeekTo : BeginSeek(t)
           \/ ReadInterrupted \/ SeekLoop
  <2>1. /\ UNCHANGED <<fd_pos, cache_physical_pos, read_logical_pos, read_inner_pos, inner_pos,
                       abort_request>>
        /\ caller_pos' \in {caller_pos, read_logical_pos}
        /\ seek_request' \in {seek_request} \cup SeekTo
    BY <1>3 DEF BeginRead, BeginSeek, ReadInterrupted, SeekLoop, inner
  <2>2. /\ to_copy' \in Nat /\ buf' \in Bytes
        /\ at' \in {"reads", "read_waits"} => to_copy' # 0
    BY <1>1, <1>3, NoBytes, Sizes DEF BeginRead, BeginSeek, ReadInterrupted, SeekLoop, reading,
                                      ReaderTypes
  <2> QED
    BY <1>1, <1>2, <2>1, <2>2, Sizes DEF ReaderTypes, TaskTypes
<1>4. CASE ReadFile
  <2>1. PICK data \in Bytes :
           /\ Len(data) \in 1 .. to_copy
           /\ read_logical_pos + Len(data) <= Size /\ buf \o data \in Bytes
           /\ fd_pos' \in Nat /\ read_logical_pos' = read_logical_pos + Len(data)
           /\ \/ Len(data) = to_copy /\ Returns(buf \o data, broken)
              \/ /\ Len(data) # to_copy /\ at' = "read_waits"
                 /\ buf' = buf \o data /\ to_copy' = to_copy - Len(data)
                 /\ UNCHANGED <<answer, caller_pos>>
    BY <1>4, ReadFileIs
  <2>2. UNCHANGED <<cache_physical_pos, read_inner_pos, inner_pos, seek_request, abort_request>>
    BY <1>4 DEF ReadFile, inner
  <2>3. read_logical_pos' \in 0 .. Size
    BY <1>1, <2>1, Sizes DEF ReaderTypes
  <2>4. /\ to_copy' \in Nat /\ buf' \in Bytes /\ caller_pos' \in 0 .. Size
        /\ at' \in {"reads", "read_waits"} => to_copy' # 0
    <3>1. CASE Len(data) = to_copy /\ Returns(buf \o data, broken)
      BY <2>3, <3>1, NoBytes DEF Returns
    <3>2. CASE /\ Len(data) # to_copy /\ at' = "read_waits"
               /\ buf' = buf \o data /\ to_copy' = to_copy - Len(data)
               /\ UNCHANGED <<answer, caller_pos>>
      <4>1. to_copy' \in Nat /\ to_copy' # 0
        BY <1>1, <2>1, <3>2 DEF ReaderTypes
      <4> QED
        BY <1>1, <2>1, <3>2, <4>1 DEF ReaderTypes
    <3> QED
      BY <2>1, <3>1, <3>2
  <2> QED
    BY <1>1, <1>2, <2>1, <2>2, <2>3, <2>4 DEF ReaderTypes, TaskTypes
<1>5. CASE ReadNothing \/ ReadFileFails
  <2>1. /\ fd_pos' \in Nat
        /\ UNCHANGED <<cache_physical_pos, read_logical_pos, read_inner_pos, inner_pos,
                       seek_request, abort_request>>
        /\ \/ /\ at' = "open" /\ to_copy' = 0 /\ buf' = <<>> /\ caller_pos' = read_logical_pos'
           \/ at = "reads" /\ UNCHANGED <<to_copy, buf, caller_pos>>
    BY <1>5, NothingIs DEF KeepsFile, Returns, inner, reading
  <2> QED
    BY <1>1, <1>2, <2>1, NoBytes DEF ReaderTypes, TaskTypes
<1>6. CASE ReadInner
  <2>1. /\ UNCHANGED <<fd_pos, cache_physical_pos, read_logical_pos, read_inner_pos,
                       seek_request, abort_request>>
        /\ at' = "open" /\ to_copy' = 0 /\ buf' = <<>>
    BY <1>6 DEF ReadInner
  <2>2. inner_pos' \in 0 .. Size /\ caller_pos' \in 0 .. Size
    <3>1. \/ \E k \in 0 .. Smaller(to_copy, Size - read_logical_pos) :
               inner_pos' = read_logical_pos + k /\ caller_pos' = read_logical_pos + k
          \/ inner_pos' \in {inner_pos, read_logical_pos} /\ caller_pos' = caller_pos
      BY <1>6 DEF ReadInner
    <3> QED
      BY <1>1, <3>1, Sizes DEF ReaderTypes, Smaller
  <2> QED
    BY <1>1, <1>2, <2>1, <2>2, NoBytes DEF ReaderTypes, TaskTypes
<1> QED
  BY <1>3, <1>4, <1>5, <1>6 DEF Reader

-----------------------------------------------------------------------------
(* What the task finds and fetches.                                        *)

LEMMA TaskIsAhead ==
  ASSUME CacheInv, task \notin {"none", "ending"}
  PROVE  /\ Ahead /\ at \notin {"closed", "opening", "paused"} /\ fd /\ tree # NULL
         /\ tree \in SUBSET Entry /\ Entries = tree /\ inner_pos = file_inner_pos
<1>1. Ahead /\ at \notin {"closed", "opening", "paused"} /\ fd /\ tree # NULL
  BY DEF CacheInv, PlaceInv, Ahead
<1>2. tree \in SUBSET Entry /\ Entries = tree
  BY <1>1, EntriesAre DEF CacheInv, CacheTypes, FileTypes
<1>3. inner_pos = file_inner_pos
  BY <1>1 DEF CacheInv, InnerInv
<1> QED
  BY <1>1, <1>2, <1>3

LEMMA TaskFindsIs ==
  ASSUME CacheInv, TaskFinds
  PROVE  /\ file_logical_pos' = Following
         /\ Following \in file_logical_pos .. Size
         /\ \A p \in file_logical_pos .. Following - 1 : Covered(p)
         /\ \/ /\ task' = "top" /\ task_buf' = <<>>
               /\ (io_eof_reached' = TRUE /\ Following = Size) \/ UNCHANGED io_eof_reached
            \/ /\ task' = "fetches" /\ task_buf' = Piece(Following, Most)
               /\ Most \in Nat \ {0} /\ Following < Size /\ Free(Following, Most)
               /\ UNCHANGED io_eof_reached
<1>1. /\ Following \in file_logical_pos .. Size /\ Most \in 0 .. MaxRead
      /\ \A p \in file_logical_pos .. Following - 1 : Covered(p)
      /\ Most > 0 => Free(Following, Most)
  BY FindsIs DEF CacheInv, CacheTypes, FileTypes, FileInv, TaskTypes
<1>2. /\ file_logical_pos' = Following
      /\ task' = IF Most = 0 \/ Following >= Size THEN "top" ELSE "fetches"
      /\ io_eof_reached' = (io_eof_reached \/ (Most > 0 /\ Following >= Size))
      /\ task_buf' = IF task' = "fetches" THEN Piece(Following, Most) ELSE <<>>
  BY Zenon DEF TaskFinds, Following, Found, Most, Room
<1>3. io_eof_reached \in BOOLEAN /\ Following <= Size /\ file_logical_pos \in 0 .. Size
  BY <1>1, Sizes DEF CacheInv, CacheTypes, TaskTypes
<1>4. CASE Most = 0 \/ Following >= Size
  <2>1. task' = "top" /\ task_buf' = <<>>
    BY <1>2, <1>4
  <2>2. (io_eof_reached' = TRUE /\ Following = Size) \/ UNCHANGED io_eof_reached
    <3>1. CASE Most > 0 /\ Following >= Size
      <4>1. io_eof_reached' = TRUE
        BY <1>2, <3>1
      <4>2. Following = Size
        BY <1>1, <3>1, Sizes
      <4> QED
        BY <4>1, <4>2
    <3>2. CASE ~(Most > 0 /\ Following >= Size)
      BY <1>2, <1>3, <3>2
    <3> QED
      BY <3>1, <3>2
  <2> QED
    BY <1>1, <1>2, <2>1, <2>2
<1>5. CASE Most # 0 /\ ~(Following >= Size)
  <2>1. task' = "fetches" /\ task_buf' = Piece(Following, Most)
    BY <1>2, <1>5
  <2>2. Most \in Nat \ {0} /\ Following < Size /\ Free(Following, Most) /\ UNCHANGED io_eof_reached
    BY <1>1, <1>2, <1>3, <1>5, Sizes
  <2> QED
    BY <1>1, <1>2, <2>1, <2>2
<1> QED
  BY <1>4, <1>5

LEMMA TaskFetchesIs ==
  ASSUME CacheInv, TaskFetches
  PROVE  \E k \in Nat \ {0} :
           /\ k <= Len(task_buf) /\ file_logical_pos + k <= Size
           /\ task_buf' = Piece(file_logical_pos, k) /\ task_buf' \in Bytes /\ Len(task_buf') = k
           /\ inner_pos' = file_logical_pos + k /\ file_inner_pos' = file_logical_pos + k
<1>1. task = "fetches"
  BY DEF TaskFetches
<1>2. inner_pos = file_inner_pos
  BY <1>1, TaskIsAhead
<1>3. Seeks = file_logical_pos
  BY <1>2 DEF Seeks
<1>4. file_logical_pos \in Nat /\ file_logical_pos <= Size /\ Size \in Nat /\ Len(task_buf) \in Nat
  BY Sizes DEF CacheInv, CacheTypes, TaskTypes, Bytes
<1>5. PICK k \in 1 .. Smaller(Len(task_buf), Size - file_logical_pos) :
        /\ task_buf' = Piece(file_logical_pos, k)
        /\ inner_pos' = file_logical_pos + k /\ file_inner_pos' = file_logical_pos + k
  BY <1>3 DEF TaskFetches
<1>6. k \in Nat \ {0} /\ k <= Len(task_buf) /\ file_logical_pos + k <= Size
  BY <1>4 DEF Smaller
<1>7. task_buf' \in Bytes /\ Len(task_buf') = k
  BY <1>4, <1>5, <1>6, PieceIs DEF Bytes
<1> QED
  BY <1>5, <1>6, <1>7

LEMMA TasksTypes ==
  ASSUME CacheInv, Task, File'
  PROVE  (ReaderTypes /\ TaskTypes)'
<1>1. ReaderTypes /\ TaskTypes /\ TaskOnly /\ last_physical_pos \in Nat /\ last_physical_pos' \in Nat
  BY DEF CacheInv, CacheTypes, File, FileTypes, Task, TaskStarts, TaskTop, TaskSeeks, TaskAhead,
         TaskSleeps, TaskFinds, TaskFetches, TaskFails, TaskTells, TaskStores, TaskBeginsAgain,
         TaskGivesUp, TaskCannotStore, MadeAnew, TaskSignals, TaskEnds
<1>2. UNCHANGED <<read_inner_pos, to_copy, buf, forwards, interrupted, caller_pos>>
  BY <1>1 DEF TaskOnly, reading
<1>3. UNCHANGED abort_request /\ at' \in {at, Woken}
  BY DEF Task, TaskStarts, TaskTop, TaskSeeks, TaskAhead, TaskSleeps, TaskFinds, TaskFetches,
         TaskFails, TaskTells, TaskStores, TaskBeginsAgain, TaskGivesUp, TaskCannotStore, MadeAnew,
         TaskSignals, TaskEnds
<1>4. at' \in {"reads", "read_waits"} => to_copy' # 0
  BY <1>1, <1>2, <1>3 DEF ReaderTypes, Woken
<1>5. CASE \/ TaskStarts \/ TaskTop \/ TaskAhead \/ TaskSleeps \/ TaskTells \/ TaskSignals
           \/ TaskEnds
  <2>1. LooksOnly /\ io_eof_reached' \in BOOLEAN /\ io_error' \in BOOLEAN /\ broken' \in BOOLEAN
        /\ UNCHANGED <<task_buf, file_logical_pos, file_inner_pos, seek_request>>
    BY <1>1, <1>5 DEF TaskStarts, TaskTop, TaskAhead, TaskSleeps, TaskTells, TaskSignals, TaskEnds,
                      TaskTypes, taskPos, taskEnd
  <2> QED
    BY <1>1, <1>2, <1>3, <1>4, <2>1 DEF LooksOnly, opening, ReaderTypes, TaskTypes
<1>6. CASE TaskSeeks
  <2>1. seek_request # NoSeek => seek_request \in 0 .. Size
    BY <1>1 DEF TaskTypes
  <2>2. task = "seeks" /\ read_logical_pos' = seek_request /\ file_logical_pos' = seek_request
    BY <1>6 DEF TaskSeeks
  <2>3. seek_request \in 0 .. Size
    BY <2>1, <2>2 DEF CacheInv, PlaceInv
  <2> QED
    BY <1>1, <1>2, <1>3, <1>4, <1>6, <2>3 DEF TaskSeeks, Afresh, opening, ReaderTypes, TaskTypes
<1>7. CASE TaskFinds
  <2>1. file_logical_pos' \in 0 .. Size /\ task_buf' \in Bytes /\ io_eof_reached' \in BOOLEAN
    <3>1. /\ file_logical_pos' = Following /\ Following \in file_logical_pos .. Size
          /\ \/ task_buf' = <<>> /\ io_eof_reached' \in {TRUE, io_eof_reached}
             \/ /\ task_buf' = Piece(Following, Most) /\ Most \in Nat \ {0}
                /\ UNCHANGED io_eof_reached
      BY <1>7, TaskFindsIs
    <3>2. file_logical_pos' \in 0 .. Size /\ Following \in Nat
      BY <1>1, <3>1, Sizes DEF TaskTypes
    <3>3. Most \in Nat \ {0} => Piece(Following, Most) \in Bytes
      BY <3>2, PieceIs DEF Bytes
    <3> QED
      BY <1>1, <3>1, <3>2, <3>3, NoBytes DEF TaskTypes
  <2> QED
    BY <1>1, <1>2, <1>3, <1>4, <1>7, <2>1 DEF TaskFinds, LooksOnly, opening, ReaderTypes, TaskTypes
<1>8. CASE TaskFetches
  <2>1. /\ task_buf' \in Bytes /\ inner_pos' \in 0 .. Size /\ file_inner_pos' \in 0 .. Size
    <3>1. PICK k \in Nat \ {0} :
             /\ file_logical_pos + k <= Size /\ task_buf' \in Bytes
             /\ inner_pos' = file_logical_pos + k /\ file_inner_pos' = file_logical_pos + k
      BY <1>8, TaskFetchesIs
    <3> QED
      BY <1>1, <3>1, Sizes DEF TaskTypes
  <2> QED
    BY <1>1, <1>2, <1>3, <1>4, <1>8, <2>1 DEF TaskFetches, taskEnd, ReaderTypes, TaskTypes
<1>9. CASE TaskFails
  BY <1>1, <1>2, <1>3, <1>4, <1>9, NoBytes, Sizes DEF TaskFails, ReaderTypes, TaskTypes
<1>10. CASE TaskStores
  <2>1. PICK n \in 1 .. Len(task_buf) :
          /\ fd_pos' = last_physical_pos + n /\ cache_physical_pos' = last_physical_pos + n
          /\ file_logical_pos' = file_logical_pos + n
    BY <1>10 DEF TaskStores
  <2>2. task = "stores" /\ Len(task_buf) \in Nat
    BY <1>1, <1>10 DEF TaskStores, TaskTypes, Bytes
  <2>3. file_logical_pos + Len(task_buf) <= Size
    BY <2>2 DEF CacheInv, FetchInv
  <2>4. fd_pos' \in Nat /\ cache_physical_pos' \in Nat /\ file_logical_pos' \in 0 .. Size
    BY <1>1, <2>1, <2>2, <2>3, Sizes DEF TaskTypes
  <2> QED
    BY <1>1, <1>2, <1>3, <1>4, <1>10, <2>4, NoBytes DEF TaskStores, opening, taskEnd, ReaderTypes,
                                                       TaskTypes
<1>11. CASE TaskBeginsAgain \/ TaskGivesUp \/ TaskCannotStore
  BY <1>1, <1>2, <1>3, <1>4, <1>11, NoBytes, Sizes
     DEF TaskBeginsAgain, TaskGivesUp, TaskCannotStore, MadeAnew, opening, taskPos, taskEnd,
         ReaderTypes, TaskTypes
<1> QED
  BY <1>5, <1>6, <1>7, <1>8, <1>9, <1>10, <1>11 DEF Task

-----------------------------------------------------------------------------
(* Places.                                                                 *)

LEMMA PlacesTurn ==
  ASSUME CacheInv, InTurn
  PROVE  PlaceInv'
<1>1. /\ PlaceInv /\ (forwards = 0 \/ cache_file_close) /\ forwards \in Nat
      /\ cache_file_close \in BOOLEAN /\ fd \in BOOLEAN
      /\ UNCHANGED <<forwards, task, seek_request>>
  BY DEF CacheInv, CacheTypes, FileTypes, ReaderTypes, TaskTypes, InTurn
<1>2. CASE Store
  <2>1. tree' # NULL /\ tree # NULL
    BY <1>2, StoreKeepsFile DEF Store, Storing
  <2> QED
    BY <1>1, <1>2, <2>1 DEF PlaceInv, Sync, Store, Storing, Handed, opening
<1>3. ASSUME NEW n \in 1 .. MaxRead, ReadBad(n) PROVE PlaceInv'
  BY <1>1, <1>3, EmptyFits DEF PlaceInv, Sync, ReadBad, opening
<1>4. CASE ~Store /\ \A n \in 1 .. MaxRead : ~ReadBad(n)
  <2>1. /\ UNCHANGED <<fd, tree, cache_file_close>>
        /\ \/ UNCHANGED at
           \/ at = "open" /\ at' = "fetch" /\ ~cache_file_close
           \/ at = "fetch" /\ at' \in {"open", "store"}
           \/ at = "store" /\ at' = "open"
    BY <1>4 DEF InTurn, Read, ReadHit, ReadMiss, PassRead, FetchOpens, Fetch, StoreNothing,
                StoreRefused, Seek, Handed, handle, cache, opening
  <2> QED
    BY <1>1, <2>1 DEF PlaceInv, Sync
<1> QED
  BY <1>2, <1>3, <1>4

LEMMA PlacesTask ==
  ASSUME CacheInv, Task
  PROVE  PlaceInv'
<1>1. /\ PlaceInv /\ task # "none" /\ forwards > 0 /\ fd /\ tree # NULL
      /\ cache_file_close \in BOOLEAN /\ fd \in BOOLEAN
      /\ at \notin {"closed", "opening", "fetch", "store", "paused"}
  BY DEF CacheInv, PlaceInv, CacheTypes, FileTypes, ReaderTypes, Sync, Task, TaskStarts, TaskTop,
         TaskSeeks, TaskAhead, TaskSleeps, TaskFinds, TaskFetches, TaskFails, TaskTells, TaskStores,
         TaskBeginsAgain, TaskGivesUp, TaskCannotStore, MadeAnew, TaskSignals, TaskEnds
<1>2. UNCHANGED <<fd, forwards>> /\ (at' = at \/ at' = Woken)
  BY DEF TaskOnly, Task, TaskStarts, TaskTop, TaskSeeks, TaskAhead, TaskSleeps, TaskFinds,
         TaskFetches, TaskFails, TaskTells, TaskStores, TaskBeginsAgain, TaskGivesUp,
         TaskCannotStore, MadeAnew, TaskSignals, TaskEnds
<1>3. tree' # NULL
  <2>1. CASE TaskStores
    BY <2>1, TaskStoresKeepsFile
  <2>2. CASE ~TaskStores
    <3>1. tree' = tree \/ tree' = {}
      BY <2>2 DEF LooksOnly, cache, Task, TaskStarts, TaskTop, TaskSeeks, TaskAhead, TaskSleeps,
                  TaskFinds, TaskFetches, TaskFails, TaskTells, TaskBeginsAgain, TaskGivesUp,
                  TaskCannotStore, MadeAnew, TaskSignals, TaskEnds
    <3> QED
      BY <1>1, <3>1, EmptyFits
  <2> QED
    BY <2>1, <2>2
<1>4. \/ at' = at
      \/ at = "read_waits" /\ at' = "reads"
      \/ at = "seek_waits" /\ at' = "seeks"
  BY <1>2 DEF Woken
<1>5. /\ task' \notin {"none", "ending"} => ~cache_file_close'
      /\ task' = "seeks" => seek_request' # NoSeek
      /\ ~cache_file_close' => ~cache_file_close
  BY <1>1 DEF PlaceInv, LooksOnly, opening, Task, TaskStarts, TaskTop, TaskSeeks, TaskAhead,
              TaskSleeps, TaskFinds, TaskFetches, TaskFails, TaskTells, TaskStores, TaskBeginsAgain,
              TaskGivesUp, TaskCannotStore, MadeAnew, TaskSignals, TaskEnds
<1> QED
  BY <1>1, <1>2, <1>3, <1>4, <1>5 DEF PlaceInv, Sync

LEMMA PlacesReader ==
  ASSUME KeepsFile, CacheInv, Reader
  PROVE  PlaceInv'
<1>1. PlaceInv /\ ReaderOnly /\ cache_file_close \in BOOLEAN /\ forwards \in Nat /\ fd \in BOOLEAN
  BY NothingIs DEF KeepsFile, CacheInv, CacheTypes, FileTypes, ReaderTypes, TaskTypes, Reader,
                   BeginRead, BeginSeek, ReadInterrupted, ReadFile, ReadInner, SeekLoop
<1>2. UNCHANGED <<fd, tree, cache_file_close, forwards>>
  BY <1>1 DEF ReaderOnly, cache, opening
<1>3. /\ at \in {"open", "reads", "seeks"} /\ forwards > 0
      /\ at' \in {"open", "reads", "read_waits", "seeks", "seek_waits"}
  BY <1>1, ReadFileIs, NothingIs
     DEF KeepsFile, PlaceInv, Ahead, Returns, Reader, BeginRead, BeginSeek, ReadInterrupted, ReadFile,
         ReadInner, SeekLoop
<1>4. (task' = task \/ (task = "asleep" /\ task' = "top")) /\ (task = "seeks" => seek_request' # NoSeek)
  <2>1. ASSUME NEW t \in SeekTo PROVE t # NoSeek
    BY Sizes DEF NoSeek
  <2> QED
    BY <1>1, <2>1, NothingIs
       DEF KeepsFile, PlaceInv, WakeTask, Reader, BeginRead, BeginSeek, ReadInterrupted, ReadFile,
           ReadInner, SeekLoop
<1> QED
  BY <1>1, <1>2, <1>3, <1>4 DEF PlaceInv, Sync

LEMMA PlacesOpenClose ==
  ASSUME CacheInv,
         \/ AheadOpenFile \/ AheadOpenInner \/ NotQueued \/ BeginClose \/ EndClose \/ Pause
         \/ EndPause \/ ClosePaused \/ Resume \/ Interrupt \/ CloseInTurn \/ Elsewhere
         \/ KilledAhead
  PROVE  PlaceInv'
<1>1. /\ PlaceInv /\ cache_file_close \in BOOLEAN /\ fd \in BOOLEAN /\ forwards \in Nat
  BY DEF CacheInv, CacheTypes, FileTypes, ReaderTypes, TaskTypes
<1>2. CASE AheadOpenFile
  <2>1. /\ at' = "opening" /\ task' = "none" /\ at = "closed" /\ ~cache_file_close
    BY <1>1, <1>2 DEF AheadOpenFile, OpenFile, PlaceInv
  <2>2. /\ fd' <=> tree' # NULL
        /\ fd' \/ cache_file_close'
    BY <1>1, <1>2, OpenFileIs, EmptyFits DEF AheadOpenFile, PlaceInv
  <2> QED
    BY <2>1, <2>2 DEF PlaceInv, Sync
<1>3. CASE AheadOpenInner \/ NotQueued
  BY <1>1, <1>3 DEF AheadOpenInner, OpenInner, NotQueued, PlaceInv, Sync, Ahead, handle, opening,
                    cache, ahead
<1>4. CASE BeginClose \/ Pause \/ EndPause \/ ClosePaused \/ Interrupt
  <2>1. \/ StopTask("closing") \/ StopTask("pausing") \/ EndPause \/ ClosePaused \/ Interrupt
    BY <1>4 DEF BeginClose, Pause
  <2>2. UNCHANGED <<fd, tree, cache_file_close, forwards, seek_request>>
    BY <2>1 DEF StopTask, EndPause, ClosePaused, Interrupt, handle, cache, opening, ahead, vars
  <2>3. CASE StopTask("closing") \/ StopTask("pausing")
    BY <1>1, <2>2, <2>3 DEF PlaceInv, Sync, StopTask, WakeTask
  <2>4. CASE EndPause \/ ClosePaused \/ Interrupt
    BY <1>1, <2>2, <2>4 DEF PlaceInv, Sync, EndPause, ClosePaused, Interrupt, ahead, vars
  <2> QED
    BY <2>1, <2>3, <2>4
<1>5. CASE Resume
  BY <1>1, <1>5 DEF Resume, PlaceInv, Sync, cache, opening
<1>6. CASE EndClose \/ CloseInTurn
  <2>1. UNCHANGED <<fd, tree>> /\ at' = "closed" /\ task' = "none" /\ cache_file_close' = FALSE
    BY <1>1, <1>6 DEF EndClose, CloseInTurn, Close, Closed, PlaceInv, handle, cache
  <2> QED
    BY <1>1, <2>1 DEF PlaceInv, Sync
<1>7. CASE KilledAhead
  BY <1>1, <1>7, EmptyFits DEF KilledAhead, Killed, Closed, Forgotten, PlaceInv, Sync
<1>8. CASE Elsewhere
  BY <1>1, <1>8 DEF Elsewhere, Destroy, Share, DidShare, FileLost, Forgotten, ahead, handle, cache,
                    opening, PlaceInv, Sync
<1> QED
  BY <1>2, <1>3, <1>4, <1>5, <1>6, <1>7, <1>8

-----------------------------------------------------------------------------
(* The descriptor.                                                         *)

LEMMA DescriptorTurn ==
  ASSUME CacheInv, InTurn
  PROVE  DescriptorInv'
<1>1. /\ DescriptorInv /\ PlaceInv /\ (forwards = 0 \/ cache_file_close) /\ UNCHANGED forwards
      /\ at # "closed" /\ forwards \in Nat
  BY DEF CacheInv, CacheTypes, TaskTypes, InTurn, Read, ReadHit, ReadBad, ReadMiss, PassRead,
         FetchOpens, Fetch, StoreNothing, StoreRefused, Store, Handed, Seek
<1>2. ASSUME NEW n \in 1 .. MaxRead, ReadHit(n) PROVE DescriptorInv'
  <2>1. at = "open" /\ forwards = 0
    BY <1>1, <1>2 DEF ReadHit
  <2>2. fd_pos' = cache_physical_pos'
    BY <1>2, <2>1, HitIs
  <2> QED
    BY <1>1, <2>1, <2>2 DEF DescriptorInv
<1>3. ASSUME NEW n \in 1 .. MaxRead, ReadBad(n) PROVE DescriptorInv'
  BY <1>1, <1>3 DEF ReadBad, DescriptorInv
<1>4. CASE StoreRefused \/ Store
  <2>1. forwards = 0 /\ ~cache_file_close
    BY <1>1, <1>4 DEF StoreRefused, Store, Handed, PlaceInv, Sync
  <2>2. fd_pos = cache_physical_pos
    BY <1>1, <2>1 DEF DescriptorInv
  <2>3. Sought = last_physical_pos
    BY <2>2 DEF Sought
  <2>4. CASE StoreRefused
    BY <1>1, <2>1, <2>3, <2>4 DEF StoreRefused, DescriptorInv, cache
  <2>5. CASE Store
    <3>1. fd_pos' = cache_physical_pos'
      BY <2>3, <2>5 DEF Store
    <3> QED
      BY <1>1, <2>1, <3>1 DEF DescriptorInv
  <2> QED
    BY <1>4, <2>4, <2>5
<1>5. CASE /\ ~Store /\ ~StoreRefused
           /\ \A n \in 1 .. MaxRead : ~ReadBad(n) /\ ~ReadHit(n)
  <2>1. UNCHANGED <<fd_pos, cache_physical_pos, last_physical_pos>>
    BY <1>5 DEF InTurn, Read, ReadMiss, PassRead, FetchOpens, Fetch, StoreNothing, Seek, Handed,
                handle, cache
  <2> QED
    BY <1>1, <2>1 DEF DescriptorInv
<1> QED
  BY <1>2, <1>3, <1>4, <1>5

LEMMA DescriptorElse ==
  ASSUME KeepsFile, CacheInv,
         \/ AheadOpenFile \/ AheadOpenInner \/ NotQueued \/ BeginClose \/ EndClose \/ Pause
         \/ EndPause \/ ClosePaused \/ Resume \/ Interrupt \/ CloseInTurn \/ Elsewhere
         \/ KilledAhead \/ Reader \/ Task
  PROVE  DescriptorInv'
<1>1. DescriptorInv /\ PlaceInv /\ forwards \in Nat
  BY DEF CacheInv, CacheTypes, TaskTypes
<1>2. CASE AheadOpenFile
  BY <1>2 DEF AheadOpenFile, OpenFile, DescriptorInv
<1>3. CASE \/ AheadOpenInner \/ NotQueued \/ BeginClose \/ Pause \/ EndPause \/ ClosePaused
           \/ Interrupt
  <2>1. UNCHANGED <<fd_pos, cache_physical_pos, last_physical_pos, forwards>> /\ at # "closed"
    BY <1>3 DEF AheadOpenInner, OpenInner, NotQueued, BeginClose, Pause, StopTask, EndPause,
                ClosePaused, Interrupt, handle, cache, ahead, vars
  <2> QED
    BY <1>1, <2>1 DEF DescriptorInv
<1>4. CASE Resume
  <2>1. forwards > 0 /\ UNCHANGED <<forwards, last_physical_pos>>
    BY <1>1, <1>4 DEF Resume, PlaceInv, cache
  <2>2. \/ UNCHANGED <<fd_pos, cache_physical_pos>> /\ at # "closed"
        \/ fd_pos' = last_physical_pos /\ cache_physical_pos' = last_physical_pos
    BY <1>4 DEF Resume
  <2> QED
    BY <1>1, <2>1, <2>2 DEF DescriptorInv
<1>5. CASE EndClose \/ CloseInTurn \/ KilledAhead
  <2>1. at' = "closed"
    BY <1>5 DEF EndClose, CloseInTurn, Close, KilledAhead, Killed, Closed
  <2> QED
    BY <2>1 DEF DescriptorInv
<1>6. CASE Elsewhere
  BY <1>1, <1>6 DEF Elsewhere, Destroy, Share, DidShare, FileLost, ahead, handle, cache,
                    DescriptorInv
<1>7. CASE Reader
  <2>1. UNCHANGED <<forwards, last_physical_pos>>
    BY <1>7, NothingIs DEF KeepsFile, Reader, BeginRead, BeginSeek, ReadInterrupted, ReadFile,
                           ReadInner, SeekLoop, ReaderOnly, cache
  <2>2. CASE ReadFile
    <3>1. at = "reads" /\ ~cache_file_close /\ forwards > 0 /\ UNCHANGED cache_physical_pos
      BY <1>1, <2>2 DEF ReadFile, PlaceInv
    <3>2. PICK e \in Cached(read_logical_pos) :
            fd_pos' = e.physical + read_logical_pos - e.logical + Len(FromFile(e))
      BY <2>2 DEF ReadFile
    <3> QED
      BY <1>1, <2>1, <3>1 DEF DescriptorInv
  <2>3. CASE ReadFileFails
    <3>1. at = "reads" /\ forwards > 0 /\ UNCHANGED cache_physical_pos
      BY <1>1, <2>3, NothingIs DEF KeepsFile, PlaceInv
    <3> QED
      BY <1>1, <2>1, <3>1 DEF DescriptorInv
  <2>4. CASE ~ReadFile /\ ~ReadFileFails
    <3>1. UNCHANGED <<fd_pos, cache_physical_pos>> /\ at # "closed"
      BY <1>7, <2>4 DEF Reader, BeginRead, BeginSeek, ReadInterrupted, ReadNothing, ReadInner,
                        SeekLoop
    <3> QED
      BY <1>1, <2>1, <3>1 DEF DescriptorInv
  <2> QED
    BY <2>2, <2>3, <2>4
<1>8. CASE Task
  <2>1. UNCHANGED forwards /\ forwards > 0 /\ at # "closed"
    BY <1>1, <1>8 DEF PlaceInv, TaskOnly, Task, TaskStarts, TaskTop, TaskSeeks, TaskAhead,
                      TaskSleeps, TaskFinds, TaskFetches, TaskFails, TaskTells, TaskStores,
                      TaskBeginsAgain, TaskGivesUp, TaskCannotStore, MadeAnew, TaskSignals, TaskEnds
  <2>2. \/ UNCHANGED <<fd_pos, cache_physical_pos, last_physical_pos>>
        \/ cache_physical_pos' = last_physical_pos'
    BY <1>8 DEF LooksOnly, cache, Task, TaskStarts, TaskTop, TaskSeeks, TaskAhead, TaskSleeps,
                TaskFinds, TaskFetches, TaskFails, TaskTells, TaskStores, TaskBeginsAgain,
                TaskGivesUp, TaskCannotStore, MadeAnew, TaskSignals, TaskEnds
  <2> QED
    BY <1>1, <2>1, <2>2 DEF DescriptorInv
<1> QED
  BY <1>2, <1>3, <1>4, <1>5, <1>6, <1>7, <1>8

-----------------------------------------------------------------------------
(* The inner protocol.                                                     *)

LEMMA InnerTurn ==
  ASSUME CacheInv, InTurn
  PROVE  InnerInv'
<1>1. /\ InnerInv /\ at \notin {"closed", "opening"} /\ (forwards = 0 \/ cache_file_close)
      /\ at' \notin {"closed", "opening"} /\ cache_file_close \in BOOLEAN /\ forwards \in Nat
      /\ UNCHANGED <<forwards, cache_file_close>>
  <2>1. at' \in {"open", "fetch", "store"}
    BY CallTypes
  <2>2. UNCHANGED <<forwards, cache_file_close>> /\ at \notin {"closed", "opening"}
    BY DEF InTurn, Read, ReadHit, ReadBad, ReadMiss, PassRead, FetchOpens, Fetch, StoreNothing,
           StoreRefused, Store, Handed, Seek, opening
  <2> QED
    BY <2>1, <2>2 DEF CacheInv, CacheTypes, ReaderTypes, TaskTypes, InTurn
<1>2. ~Ahead'
  BY <1>1 DEF Ahead
<1>3. Sync' => Sync
  BY <1>1 DEF Sync
<1>4. CASE cache_file_close
  BY <1>1, <1>2, <1>4 DEF InnerInv, Sync
<1>5. CASE ~cache_file_close
  <2>1. Sync /\ inner_pos = read_inner_pos /\ (async_open => inner_pos = 0 /\ read_inner_pos = 0)
    BY <1>1, <1>5 DEF Sync, InnerInv
  <2>2. CASE FetchOpens
    BY <1>1, <1>2, <2>1, <2>2 DEF FetchOpens, InnerInv
  <2>3. CASE Fetch
    <3>1. ~async_open /\ UNCHANGED async_open
      BY <2>3 DEF Fetch, opening
    <3>2. inner_pos' = read_inner_pos'
      <4>1. (IF read_inner_pos = read_logical_pos THEN inner_pos ELSE read_logical_pos)
              = read_logical_pos
        BY <2>1
      <4>2. \/ \E k \in 1 .. Smaller(to_copy, Size - read_logical_pos) :
                 inner_pos' = read_logical_pos + k /\ read_inner_pos' = read_logical_pos + k
            \/ inner_pos' = read_logical_pos /\ read_inner_pos' = read_logical_pos
            \/ UNCHANGED inner
        BY <2>3, <4>1 DEF Fetch
      <4> QED
        BY <2>1, <4>2 DEF inner
    <3> QED
      BY <1>1, <1>2, <3>1, <3>2 DEF InnerInv
  <2>4. CASE ~FetchOpens /\ ~Fetch
    <3>1. UNCHANGED <<async_open, read_inner_pos, inner_pos>>
      BY <1>5, <2>4 DEF InTurn, Read, ReadHit, ReadBad, ReadMiss, PassRead, StoreNothing,
                        StoreRefused, Store, Handed, Seek, opening, inner
    <3> QED
      BY <1>1, <1>2, <2>1, <3>1 DEF InnerInv
  <2> QED
    BY <2>2, <2>3, <2>4
<1> QED
  BY <1>1, <1>4, <1>5

LEMMA InnerElse ==
  ASSUME KeepsFile, CacheInv,
         \/ AheadOpenFile \/ AheadOpenInner \/ NotQueued \/ BeginClose \/ EndClose \/ Pause
         \/ EndPause \/ ClosePaused \/ Resume \/ Interrupt \/ CloseInTurn \/ Elsewhere
         \/ KilledAhead \/ Reader \/ Task
  PROVE  InnerInv'
<1>1. InnerInv /\ PlaceInv /\ forwards \in Nat /\ cache_file_close \in BOOLEAN
  BY DEF CacheInv, CacheTypes, TaskTypes, ReaderTypes
<1>2. CASE AheadOpenFile
  <2>1. /\ at = "closed" /\ at' = "opening" /\ Zeroed
        /\ UNCHANGED <<async_open, read_logical_pos, inner>>
    BY <1>2 DEF AheadOpenFile, OpenFile
  <2> QED
    BY <1>1, <2>1 DEF Zeroed, inner, InnerInv
<1>3. CASE AheadOpenInner \/ NotQueued
  <2>1. /\ at = "opening" /\ at' \in {"open", "closed"}
        /\ UNCHANGED <<read_logical_pos, read_inner_pos, inner_pos, file_logical_pos, file_inner_pos,
                       caller_pos>>
    BY <1>3 DEF AheadOpenInner, OpenInner, NotQueued, ahead, taskPos, inner
  <2> QED
    BY <1>1, <2>1 DEF InnerInv
<1>4. CASE BeginClose \/ Pause \/ EndPause \/ ClosePaused \/ Interrupt \/ Resume
  <2>1. \/ StopTask("closing") \/ StopTask("pausing") \/ EndPause \/ ClosePaused \/ Interrupt
        \/ Resume
    BY <1>4 DEF BeginClose, Pause
  <2>2. /\ at \notin {"closed", "opening"} /\ at' \notin {"closed", "opening"}
        /\ UNCHANGED <<async_open, cache_file_close, forwards, read_inner_pos, inner_pos,
                       file_inner_pos>>
    BY <2>1 DEF StopTask, EndPause, ClosePaused, Interrupt, Resume, ahead, taskPos, inner, opening,
                vars
  <2> QED
    BY <1>1, <2>2 DEF InnerInv, Sync, Ahead
<1>5. CASE EndClose \/ CloseInTurn \/ KilledAhead
  <2>1. Closed /\ Zeroed
    BY <1>5 DEF EndClose, CloseInTurn, Close, KilledAhead, Killed
  <2> QED
    BY <2>1 DEF Closed, Zeroed, InnerInv
<1>6. CASE Elsewhere
  BY <1>1, <1>6 DEF Elsewhere, Destroy, Share, DidShare, FileLost, ahead, taskPos, inner, opening,
                    InnerInv, Sync, Ahead
<1>7. CASE Reader
  <2>1. /\ forwards > 0 /\ at \notin {"closed", "opening"} /\ at' \notin {"closed", "opening"}
        /\ UNCHANGED <<forwards, cache_file_close, file_inner_pos>>
        /\ UNCHANGED inner_pos \/ cache_file_close
    BY <1>1, <1>7, ReadFileIs, NothingIs
       DEF KeepsFile, PlaceInv, Ahead, Reader, BeginRead, BeginSeek, ReadInterrupted, ReadFile, ReadInner,
           SeekLoop, Returns, ReaderOnly, opening, taskPos, inner
  <2> QED
    BY <1>1, <2>1 DEF InnerInv, Sync, Ahead
<1>8. CASE Task
  <2>1. /\ forwards > 0 /\ UNCHANGED forwards /\ at \notin {"closed", "opening"}
    BY <1>1, <1>8 DEF PlaceInv, TaskOnly, Task, TaskStarts, TaskTop, TaskSeeks, TaskAhead,
                      TaskSleeps, TaskFinds, TaskFetches, TaskFails, TaskTells, TaskStores,
                      TaskBeginsAgain, TaskGivesUp, TaskCannotStore, MadeAnew, TaskSignals, TaskEnds
  <2>2. at' \notin {"closed", "opening"}
    BY <1>8, <2>1 DEF Woken, Task, TaskStarts, TaskTop, TaskSeeks, TaskAhead, TaskSleeps, TaskFinds,
                      TaskFetches, TaskFails, TaskTells, TaskStores, TaskBeginsAgain, TaskGivesUp,
                      TaskCannotStore, MadeAnew, TaskSignals, TaskEnds
  <2>3. ~cache_file_close' => inner_pos' = file_inner_pos'
    <3>1. CASE TaskFetches
      BY <3>1, TaskFetchesIs
    <3>2. CASE TaskEnds
      BY <1>1, <2>1, <3>2 DEF TaskEnds, LooksOnly, opening, taskPos, InnerInv, Ahead
    <3>3. CASE ~TaskFetches /\ ~TaskEnds
      <4>1. task \notin {"none", "ending"}
        BY <1>8, <3>3 DEF Task, TaskStarts, TaskTop, TaskSeeks, TaskAhead, TaskSleeps, TaskFinds,
                          TaskFails, TaskTells, TaskStores, TaskBeginsAgain, TaskGivesUp,
                          TaskCannotStore, MadeAnew, TaskSignals
      <4>2. inner_pos = file_inner_pos
        BY <4>1, TaskIsAhead
      <4>3. \/ UNCHANGED <<inner_pos, file_inner_pos>>
            \/ inner_pos' = file_logical_pos /\ file_inner_pos' = file_logical_pos
        BY <1>8, <3>3 DEF KeepsFile, LooksOnly, taskPos, Task, TaskStarts, TaskTop, TaskSeeks,
                          TaskAhead, TaskSleeps, TaskFinds, TaskFails, TaskTells, TaskStores,
                          TaskBeginsAgain, TaskGivesUp, TaskCannotStore, MadeAnew, TaskSignals
      <4> QED
        BY <4>2, <4>3
    <3> QED
      BY <3>1, <3>2, <3>3
  <2> QED
    BY <2>1, <2>2, <2>3 DEF InnerInv, Sync, Ahead
<1> QED
  BY <1>2, <1>3, <1>4, <1>5, <1>6, <1>7, <1>8

-----------------------------------------------------------------------------
(* What is fetched.                                                        *)

LEMMA FreeLess ==
  ASSUME tree \in Trees, NEW p \in Nat, NEW n \in Nat, NEW k \in Nat, k <= n, Free(p, n)
  PROVE  Free(p, k)
<1> SUFFICES ASSUME NEW e \in Entries PROVE e.logical + e.size <= p \/ p + k <= e.logical
  BY DEF Free, FreeIn
<1>1. e.logical \in Nat
  BY EntriesAre DEF Entry
<1>2. e.logical + e.size <= p \/ p + n <= e.logical
  BY DEF Free, FreeIn
<1> QED
  BY <1>1, <1>2

LEMMA SameEntries ==
  ASSUME UNCHANGED tree
  PROVE  Entries' = Entries /\ \A p, n : Free(p, n)' <=> FreeIn(Entries, p, n)
BY DEF Entries, Free

LEMMA FetchStays ==
  ASSUME CacheInv,
         at' \in {"fetch", "store"} =>
           at' = at /\ UNCHANGED <<tree, read_logical_pos, to_copy, buf>>,
         task' \in {"fetches", "stores"} =>
           task' = task /\ UNCHANGED <<tree, file_logical_pos, task_buf>>
  PROVE  FetchInv'
<1>1. FetchInv
  BY DEF CacheInv
<1>2. CASE UNCHANGED tree
  BY <1>1, <1>2, SameEntries DEF FetchInv, Free
<1>3. CASE tree' # tree
  BY <1>3 DEF FetchInv
<1> QED
  BY <1>2, <1>3

LEMMA FetchTurn ==
  ASSUME CacheInv, InTurn
  PROVE  FetchInv'
<1>1. /\ UNCHANGED <<task, file_logical_pos, task_buf>> /\ task \notin {"fetches", "stores"}
      /\ tree \in Trees /\ read_logical_pos \in 0 .. Size /\ read_logical_pos \in Nat /\ to_copy \in Nat
      /\ Size \in Nat
  BY Sizes DEF InTurn, taskPos, CacheInv, PlaceInv, CacheTypes, FileTypes, ReaderTypes, TaskTypes
<1>2. ASSUME NEW n \in 1 .. MaxRead, ReadBad(n) PROVE FetchInv'
  <2>1. at' = "fetch" /\ Entries' = {}
    BY <1>2, PrimedEntries, EmptyFits DEF ReadBad
  <2>2. Free(read_logical_pos, to_copy)'
    BY <2>1, EmptyFits DEF Free
  <2> QED
    BY <1>1, <2>1, <2>2 DEF FetchInv
<1>3. ASSUME NEW n \in 1 .. MaxRead, ReadMiss(n) PROVE FetchInv'
  <2>1. CASE at' = at /\ to_copy' = to_copy
    <3>1. at' = "open"
      BY <1>3, <2>1 DEF ReadMiss
    <3> QED
      BY <1>1, <3>1 DEF FetchInv
  <2>2. CASE at' = "fetch" /\ to_copy' = Gap(read_logical_pos, n)
    <3>1. n \in Nat \ {0} /\ Cached(read_logical_pos) = {} /\ UNCHANGED <<tree, read_logical_pos>>
      BY <1>3, Sizes DEF ReadMiss, cache
    <3>2. /\ Gap(read_logical_pos, n) \in 1 .. n
          /\ \A q \in After(read_logical_pos) : Gap(read_logical_pos, n) <= q - read_logical_pos
      BY <1>1, <3>1, GapIs
    <3>3. Gap(read_logical_pos, n) \in Nat /\ Apart(Entries)
      BY <3>2 DEF CacheInv, FileInv, Fits
    <3>4. Free(read_logical_pos, Gap(read_logical_pos, n))
      BY <1>1, <3>1, <3>2, <3>3, NotFoundIsFree
    <3>5. Free(read_logical_pos, to_copy)'
      BY <2>2, <3>1, <3>4, SameEntries DEF Free
    <3> QED
      BY <1>1, <2>2, <3>5 DEF FetchInv
  <2> QED
    BY <1>3, <2>1, <2>2, MissAsks
<1>4. CASE FetchOpens
  <2>1. UNCHANGED <<tree, read_logical_pos, to_copy, buf>> /\ (at' \in {"fetch", "store"} => at' = at)
    BY <1>4 DEF FetchOpens, cache, reading
  <2> QED
    BY <1>1, <2>1, FetchStays
<1>5. CASE Fetch
  <2>1. at = "fetch" /\ at' \in {"open", "store"} /\ UNCHANGED <<tree, read_logical_pos>>
    BY <1>5 DEF Fetch, cache
  <2>2. CASE at' = "store"
    <3>1. inner_pos = read_inner_pos
      BY <2>1 DEF CacheInv, PlaceInv, InnerInv
    <3>2. (IF read_inner_pos = read_logical_pos THEN inner_pos ELSE read_logical_pos)
            = read_logical_pos
      BY <3>1
    <3>3. PICK k \in 1 .. Smaller(to_copy, Size - read_logical_pos) :
            buf' = Piece(read_logical_pos, k)
      BY <1>5, <2>2, <3>2 DEF Fetch
    <3>4. k \in Nat /\ k > 0 /\ k <= to_copy /\ read_logical_pos + k <= Size
      BY <1>1 DEF Smaller
    <3>5. Len(buf') = k
      BY <1>1, <3>3, <3>4, PieceIs
    <3>6. Free(read_logical_pos, k)
      <4>1. Free(read_logical_pos, to_copy)
        BY <2>1 DEF CacheInv, FetchInv
      <4> QED
        BY <1>1, <3>4, <4>1, FreeLess
    <3>7. Free(read_logical_pos, Len(buf))'
      BY <2>1, <3>5, <3>6, SameEntries DEF Free
    <3>8. IsPiece(buf, read_logical_pos)'
      BY <2>1, <3>3, <3>5 DEF IsPiece
    <3>9. Len(buf') > 0 /\ read_logical_pos' + Len(buf') <= Size
      BY <2>1, <3>4, <3>5
    <3> QED
      BY <1>1, <2>2, <3>7, <3>8, <3>9 DEF FetchInv
  <2> QED
    BY <1>1, <2>1, <2>2 DEF FetchInv
<1>6. CASE /\ ~FetchOpens /\ ~Fetch
           /\ \A n \in 1 .. MaxRead : ~ReadBad(n) /\ ~ReadMiss(n)
  <2>1. at' = "open"
    BY <1>6 DEF InTurn, Read, ReadHit, PassRead, StoreNothing, StoreRefused, Store, Handed, Seek
  <2> QED
    BY <1>1, <2>1 DEF FetchInv
<1> QED
  BY <1>2, <1>3, <1>4, <1>5, <1>6

LEMMA FetchElse ==
  ASSUME KeepsFile, CacheInv,
         \/ AheadOpenFile \/ AheadOpenInner \/ NotQueued \/ BeginClose \/ EndClose \/ Pause
         \/ EndPause \/ ClosePaused \/ Resume \/ Interrupt \/ CloseInTurn \/ Elsewhere
         \/ KilledAhead \/ Reader
  PROVE  FetchInv'
<1>1. PlaceInv
  BY DEF CacheInv
<1>2. CASE AheadOpenFile \/ AheadOpenInner \/ NotQueued
  <2>1. at' \notin {"fetch", "store"} /\ task' \notin {"fetches", "stores"}
    BY <1>1, <1>2 DEF AheadOpenFile, OpenFile, AheadOpenInner, OpenInner, NotQueued, PlaceInv, ahead
  <2> QED
    BY <2>1, FetchStays
<1>3. CASE BeginClose \/ Pause \/ EndPause \/ ClosePaused \/ Interrupt \/ Resume \/ EndClose
  <2>1. \/ StopTask("closing") \/ StopTask("pausing") \/ EndPause \/ ClosePaused \/ Interrupt
        \/ Resume \/ EndClose
    BY <1>3 DEF BeginClose, Pause
  <2>2. /\ at' \notin {"fetch", "store"}
        /\ task' \in {"fetches", "stores"} =>
             task' = task /\ UNCHANGED <<tree, file_logical_pos, task_buf>>
    BY <2>1 DEF StopTask, WakeTask, EndPause, ClosePaused, Interrupt, Resume, EndClose, Closed, ahead,
                taskPos, cache, vars
  <2> QED
    BY <2>2, FetchStays
<1>4. CASE CloseInTurn \/ KilledAhead
  <2>1. at' \notin {"fetch", "store"} /\ task' \notin {"fetches", "stores"}
    BY <1>1, <1>4 DEF CloseInTurn, Close, KilledAhead, Killed, Closed, PlaceInv
  <2> QED
    BY <2>1, FetchStays
<1>5. CASE Elsewhere
  <2>1. CASE Destroy \/ FileLost
    <3>1. at' \notin {"fetch", "store"} /\ task' \notin {"fetches", "stores"}
      BY <1>1, <1>5, <2>1 DEF Elsewhere, Destroy, FileLost, PlaceInv, ahead
    <3> QED
      BY <3>1, FetchStays
  <2>2. CASE Share \/ DidShare
    <3>1. UNCHANGED <<at, tree, read_logical_pos, to_copy, buf, task, file_logical_pos, task_buf>>
      BY <1>5, <2>2 DEF Elsewhere, Share, DidShare, ahead, taskPos, cache, reading
    <3> QED
      BY <3>1, FetchStays
  <2> QED
    BY <1>5, <2>1, <2>2 DEF Elsewhere
<1>6. CASE Reader
  <2>1. /\ at' \notin {"fetch", "store"}
        /\ UNCHANGED <<tree, file_logical_pos, task_buf>>
        /\ task' \in {"fetches", "stores"} => task' = task
    BY <1>6, ReadFileIs, NothingIs
       DEF KeepsFile, Reader, BeginRead, BeginSeek, ReadInterrupted, ReadFile, ReadInner, SeekLoop,
           Returns, WakeTask, ReaderOnly, cache, taskPos
  <2> QED
    BY <2>1, FetchStays
<1> QED
  BY <1>2, <1>3, <1>4, <1>5, <1>6

LEMMA FetchTask ==
  ASSUME CacheInv, Task
  PROVE  FetchInv'
<1>1. /\ at \notin {"fetch", "store"} /\ tree \in Trees /\ file_logical_pos \in 0 .. Size
      /\ file_logical_pos \in Nat /\ Size \in Nat
  BY Sizes DEF CacheInv, PlaceInv, CacheTypes, FileTypes, TaskTypes, Sync, Task, TaskStarts,
               TaskTop, TaskSeeks, TaskAhead, TaskSleeps, TaskFinds, TaskFetches, TaskFails,
               TaskTells, TaskStores, TaskBeginsAgain, TaskGivesUp, TaskCannotStore, MadeAnew,
               TaskSignals, TaskEnds
<1>2. at' \notin {"fetch", "store"}
  BY <1>1 DEF Woken, Task, TaskStarts, TaskTop, TaskSeeks, TaskAhead, TaskSleeps, TaskFinds,
              TaskFetches, TaskFails, TaskTells, TaskStores, TaskBeginsAgain, TaskGivesUp,
              TaskCannotStore, MadeAnew, TaskSignals, TaskEnds
<1>3. CASE TaskFinds
  <2>1. UNCHANGED tree
    BY <1>3 DEF TaskFinds, LooksOnly, cache
  <2>2. CASE task' = "top"
    BY <1>2, <2>2 DEF FetchInv
  <2>3. CASE /\ task' = "fetches" /\ task_buf' = Piece(Following, Most) /\ Following \in Nat
             /\ Most \in Nat \ {0} /\ Free(Following, Most) /\ file_logical_pos' = Following
    <3>1. Len(task_buf') = Most
      BY <2>3, PieceIs
    <3>2. Free(file_logical_pos, Len(task_buf))'
      BY <2>1, <2>3, <3>1, SameEntries DEF Free
    <3> QED
      BY <1>2, <2>3, <3>2 DEF FetchInv
  <2>4. Following \in file_logical_pos .. Size /\ file_logical_pos' = Following
    BY <1>3, TaskFindsIs
  <2>5. Following \in Nat
    BY <1>1, <2>4
  <2> QED
    BY <1>3, <2>2, <2>3, <2>4, <2>5, TaskFindsIs
<1>4. CASE TaskFetches
  <2>1. task = "fetches" /\ UNCHANGED <<tree, file_logical_pos>> /\ task' = "stores"
    BY <1>4 DEF TaskFetches, cache
  <2>2. PICK k \in Nat \ {0} :
           /\ k <= Len(task_buf) /\ file_logical_pos + k <= Size
           /\ task_buf' = Piece(file_logical_pos, k) /\ Len(task_buf') = k
    BY <1>4, TaskFetchesIs
  <2>3. Free(file_logical_pos, k)
    <3>1. Free(file_logical_pos, Len(task_buf)) /\ Len(task_buf) \in Nat
      BY <2>1 DEF CacheInv, FetchInv, CacheTypes, TaskTypes, Bytes
    <3> QED
      BY <1>1, <2>2, <3>1, FreeLess
  <2>4. Free(file_logical_pos, Len(task_buf))'
    BY <2>1, <2>2, <2>3, SameEntries DEF Free
  <2>5. IsPiece(task_buf, file_logical_pos)' /\ (file_logical_pos + Len(task_buf) <= Size)'
    BY <2>1, <2>2 DEF IsPiece
  <2> QED
    BY <1>2, <2>1, <2>4, <2>5 DEF FetchInv
<1>5. CASE ~TaskFinds /\ ~TaskFetches
  <2>1. task' \notin {"fetches", "stores"}
    BY <1>5 DEF Task, TaskStarts, TaskTop, TaskSeeks, TaskAhead, TaskSleeps, TaskFails, TaskTells,
                TaskStores, TaskBeginsAgain, TaskGivesUp, TaskCannotStore, MadeAnew, TaskSignals,
                TaskEnds
  <2> QED
    BY <1>2, <2>1 DEF FetchInv
<1> QED
  BY <1>3, <1>4, <1>5

-----------------------------------------------------------------------------
(* The invariant holds.                                                    *)

LEMMA CacheStep ==
  ASSUME KeepsFile, CacheInv, AheadNext
  PROVE  CacheInv'
<1>1. File'
  BY FileStep
<1>2. CASE InTurn
  <2>1. TaskTypes'
    BY <1>2 DEF InTurn, taskPos, taskEnd, CacheInv, CacheTypes, TaskTypes
  <2>2. ReaderTypes'
    <3>1. (PosTypes /\ FlagTypes)' /\ at' \in {"open", "fetch", "store"}
      BY <1>2, CallTypes
    <3>2. interrupted' \in BOOLEAN /\ caller_pos' \in 0 .. Size
      BY <1>2, <3>1 DEF InTurn, CacheInv, CacheTypes, ReaderTypes, PosTypes
    <3> QED
      BY <3>1, <3>2 DEF PosTypes, FlagTypes, ReaderTypes
  <2> QED
    BY <1>1, <1>2, <2>1, <2>2, PlacesTurn, DescriptorTurn, InnerTurn, FetchTurn
       DEF CacheInv, CacheTypes, File
<1>3. CASE Reader
  BY <1>1, <1>3, ReadsTypes, PlacesReader, DescriptorElse, InnerElse, FetchElse
     DEF CacheInv, CacheTypes, File
<1>4. CASE Task
  BY <1>1, <1>4, TasksTypes, PlacesTask, DescriptorElse, InnerElse, FetchTask
     DEF CacheInv, CacheTypes, File
<1>5. CASE \/ AheadOpenFile \/ AheadOpenInner \/ NotQueued \/ BeginClose \/ EndClose \/ Pause
           \/ EndPause \/ ClosePaused \/ Resume \/ Interrupt \/ CloseInTurn \/ Elsewhere
           \/ KilledAhead
  BY <1>1, <1>5, OpenCloseTypes, PlacesOpenClose, DescriptorElse, InnerElse, FetchElse
     DEF CacheInv, CacheTypes, File
<1> QED
  BY <1>2, <1>3, <1>4, <1>5 DEF AheadNext

LEMMA CacheStutters ==
  ASSUME CacheInv, UNCHANGED allVars
  PROVE  CacheInv'
<1>1. /\ UNCHANGED <<disk, map_file, rewritten, tree, last_physical_pos, fd, fd_pos,
                     cache_physical_pos, at, cache_file_close, async_open, read_logical_pos>>
      /\ UNCHANGED <<read_inner_pos, inner_pos, to_copy, buf>>
      /\ UNCHANGED <<forwards, task, task_buf, file_logical_pos, file_inner_pos, io_eof_reached,
                     io_error, broken, seek_request, abort_request, interrupted, caller_pos>>
  BY DEF allVars, vars, ahead, stored, cache, handle, opening, inner, reading, taskPos, taskEnd
<1>2. (ReaderTypes /\ TaskTypes)'
  BY <1>1 DEF CacheInv, CacheTypes, ReaderTypes, TaskTypes
<1>3. File'
  BY <1>1, FileStays DEF CacheInv, CacheTypes, File, stored, cache
<1>4. PlaceInv' /\ DescriptorInv' /\ InnerInv'
  BY <1>1 DEF CacheInv, PlaceInv, DescriptorInv, InnerInv, Sync, Ahead
<1>5. FetchInv'
  BY <1>1, FetchStays
<1> QED
  BY <1>2, <1>3, <1>4, <1>5 DEF CacheInv, CacheTypes, File

LEMMA CacheInvHolds ==
  ASSUME KeepsFile
  PROVE  AheadSpec => []CacheInv
<1>1. AheadInit => CacheInv
  BY InitHolds
<1>2. CacheInv /\ [AheadNext]_allVars => CacheInv'
  BY CacheStep, CacheStutters
<1> QED
  BY <1>1, <1>2, PTL DEF AheadSpec

(* The cache file holds what the entries say, as long as no map older than *)
(* the file is read, the file never fails so often that it is made anew    *)
(* under the task, and no seek of the task to the beginning fails          *)
(* (ijkiocache.c:441, :788, :809, :880).                                   *)
THEOREM FileIsHonest ==
  ASSUME KeepsFile
  PROVE  AheadSpec => []EntriesHonest
<1>1. CacheInv => EntriesHonest
  BY DEF CacheInv, FileInv, EntriesHonest, Honest, HonestIn
<1> QED
  BY <1>1, CacheInvHolds, PTL

(* So does a saved map, for the next player, as long as the file has not   *)
(* been begun again since (ijkiomanager.c:138, ijkiocache.c:609).          *)
THEOREM MapIsHonest ==
  ASSUME KeepsFile
  PROVE  AheadSpec => []MapHonest
<1>1. CacheInv => MapHonest
  BY DEF CacheInv, FileInv
<1> QED
  BY <1>1, CacheInvHolds, PTL

-----------------------------------------------------------------------------
(* The stream the demuxer sees.                                            *)

LEMMA StreamReads ==
  ASSUME NEW data \in Bytes, Len(data) > 0, caller_pos \in 0 .. Size, IsPiece(data, caller_pos),
         caller_pos + Len(data) <= Size,
         Answer(data), caller_pos' = caller_pos + Len(data)
  PROVE  Stream!Next
<1>1. Len(data) \in 1 .. Size - caller_pos
  BY Sizes DEF Bytes
<1>2. data # <<>>
  BY NoBytes
<1>3. dest' = [i \in 1 .. Len(data) |-> caller_pos + i - 1] /\ ret' = Len(data)
  BY <1>2 DEF Answer, IsPiece, Piece
<1>4. Stream!Read
  BY <1>1, <1>3 DEF Stream!Read
<1> QED
  BY <1>4 DEF Stream!Next

LEMMA StreamFails ==
  ASSUME Fails, UNCHANGED caller_pos
  PROVE  Stream!Next
BY DEF Fails, Stream!ReadFails, Stream!Next

LEMMA StreamEnds ==
  ASSUME Answer(<<>>), caller_pos = Size, UNCHANGED caller_pos
  PROVE  Stream!Next
BY DEF Answer, Stream!ReadFails, Stream!Next

LEMMA StreamIsCut ==
  ASSUME EndsEarly, UNCHANGED caller_pos
  PROVE  Stream!Next
BY DEF EndsEarly, Stream!ReadFails, Stream!Next

LEMMA StreamBegins ==
  ASSUME NoAnswer, UNCHANGED caller_pos
  PROVE  Stream!Next
BY DEF NoAnswer, Stream!Begin, Stream!Next

LEMMA StreamSeeks ==
  ASSUME caller_pos' \in 0 .. Size, ret' = caller_pos', UNCHANGED dest
  PROVE  Stream!Next
BY DEF Stream!Seek, Stream!Next

LEMMA StreamCannotSeek ==
  ASSUME ret' = EIO, UNCHANGED <<dest, caller_pos>>
  PROVE  Stream!Next
BY DEF Stream!SeekFails, Stream!Next

LEMMA StreamStutters ==
  ASSUME UNCHANGED <<answer, caller_pos>>
  PROVE  UNCHANGED Stream!streamVars
BY DEF answer, Stream!streamVars

(* Where the demuxer is, in terms of what the reader and the task know.    *)
CallerInv ==
  /\ at \in {"open", "fetch", "store"} /\ Sync => caller_pos = read_logical_pos
  /\ at \in {"open", "pausing", "paused"} /\ cache_file_close /\ ~interrupted =>
       caller_pos = inner_pos
  /\ at \in {"open", "pausing", "paused"} /\ Ahead /\ ~interrupted =>
       caller_pos = read_logical_pos /\ seek_request = NoSeek
  /\ at \in {"reads", "read_waits"} =>
       /\ IsPiece(buf, caller_pos) /\ read_logical_pos = caller_pos + Len(buf)
       /\ seek_request = NoSeek
  /\ at \in {"seeks", "seek_waits"} => ~cache_file_close
  /\ at = "opening" => seek_request = NoSeek
  /\ at \in {"opening", "open", "fetch", "store", "reads", "read_waits", "seeks", "seek_waits"} =>
       (abort_request => interrupted)

(* The file has all that is between the reader and the task, and the end   *)
(* is only seen at the end.                                                *)
CoverInv ==
  Ahead /\ at # "closed" =>
    /\ \A p \in read_logical_pos .. file_logical_pos - 1 : Covered(p)
    /\ io_eof_reached /\ ~io_error /\ ~broken => file_logical_pos >= Size

StreamInv == CacheInv /\ CallerInv /\ CoverInv

LEMMA TurnImplements ==
  ASSUME StreamInv, InTurn
  PROVE  Stream!Next \/ UNCHANGED Stream!streamVars
<1>1. /\ CacheInv /\ CallerInv /\ (forwards = 0 \/ cache_file_close) /\ ~interrupted
      /\ caller_pos' = IF cache_file_close THEN inner_pos' ELSE read_logical_pos'
      /\ caller_pos \in 0 .. Size /\ read_logical_pos \in 0 .. Size /\ inner_pos \in 0 .. Size
      /\ cache_file_close \in BOOLEAN
  BY DEF StreamInv, InTurn, CacheInv, CacheTypes, ReaderTypes
<1>2. ASSUME at \in {"open", "fetch", "store"}, ~cache_file_close
      PROVE  forwards = 0 /\ caller_pos = read_logical_pos /\ caller_pos' = read_logical_pos'
  BY <1>1, <1>2 DEF CallerInv, Sync
<1>3. ASSUME NEW n \in 1 .. MaxRead, ReadHit(n) PROVE Stream!Next
  <2>1. at = "open" /\ ~cache_file_close
    BY <1>3 DEF ReadHit
  <2>2. PICK e \in Cached(read_logical_pos), data \in Bytes :
           /\ IsPiece(data, read_logical_pos) /\ Len(data) \in 1 .. n
           /\ read_logical_pos + Len(data) <= Size
           /\ Answer(data) /\ read_logical_pos' = read_logical_pos + Len(data)
    BY <1>1, <1>2, <1>3, <2>1, HitIs
  <2>3. Len(data) > 0
    BY <2>2
  <2> QED
    BY <1>1, <1>2, <2>1, <2>2, <2>3, StreamReads
<1>4. ASSUME NEW n \in 1 .. MaxRead, ReadBad(n) PROVE Stream!Next
  <2>1. at = "open" /\ ~cache_file_close /\ NoAnswer /\ UNCHANGED read_logical_pos
    BY <1>4 DEF ReadBad
  <2> QED
    BY <1>2, <2>1, StreamBegins
<1>5. ASSUME NEW n \in 1 .. MaxRead, ReadMiss(n) PROVE Stream!Next
  <2>1. at = "open" /\ ~cache_file_close /\ UNCHANGED read_logical_pos
    BY <1>5 DEF ReadMiss
  <2>2. read_logical_pos >= Size => read_logical_pos = Size
    BY <1>1, Sizes
  <2> QED
    BY <1>2, <1>5, <2>1, <2>2, MissAsks, StreamBegins, StreamEnds
<1>6. ASSUME NEW n \in 1 .. MaxRead, PassRead(n) PROVE Stream!Next
  <2>1. at = "open" /\ cache_file_close
    BY <1>6 DEF PassRead
  <2>2. caller_pos = inner_pos /\ caller_pos' = inner_pos'
    BY <1>1, <2>1 DEF CallerInv
  <2>3. CASE \E k \in 1 .. Smaller(n, Size - inner_pos) :
               Answer(Piece(inner_pos, k)) /\ inner_pos' = inner_pos + k
    <3>1. PICK k \in 1 .. Smaller(n, Size - inner_pos) :
            Answer(Piece(inner_pos, k)) /\ inner_pos' = inner_pos + k
      BY <2>3
    <3>2. k \in Nat /\ k > 0 /\ inner_pos + k <= Size /\ inner_pos \in Nat
      BY <1>1, Sizes DEF Smaller
    <3>3. /\ Piece(inner_pos, k) \in Bytes /\ Len(Piece(inner_pos, k)) = k
          /\ IsPiece(Piece(inner_pos, k), inner_pos)
      BY <3>2, PieceIs DEF Bytes, IsPiece
    <3> QED
      BY <1>1, <2>2, <3>1, <3>2, <3>3, StreamReads
  <2>4. CASE inner_pos = Size /\ Answer(<<>>) /\ UNCHANGED inner_pos
    BY <2>2, <2>4, StreamEnds
  <2>5. CASE InnerFails /\ UNCHANGED inner_pos
    BY <2>2, <2>5, StreamFails, StreamIsCut DEF InnerFails
  <2> QED
    BY <1>6, <2>3, <2>4, <2>5 DEF PassRead
<1>7. CASE FetchOpens \/ Fetch
  <2>1. /\ at = "fetch" /\ UNCHANGED read_logical_pos
        /\ Fails \/ EndsEarly \/ UNCHANGED answer
    BY <1>7 DEF FetchOpens, Fetch, InnerFails
  <2>2. ~cache_file_close
    BY <1>1, <2>1 DEF CacheInv, PlaceInv, Sync
  <2> QED
    BY <1>2, <2>1, <2>2, StreamFails, StreamIsCut, StreamStutters
<1>8. CASE StoreNothing \/ StoreRefused \/ Store
  <2>1. at = "store" /\ Answer(buf) /\ read_logical_pos' = read_logical_pos + Len(buf)
    BY <1>8 DEF StoreNothing, StoreRefused, Store, Handed
  <2>2. ~cache_file_close
    BY <1>1, <2>1 DEF CacheInv, PlaceInv, Sync
  <2>3. /\ IsPiece(buf, read_logical_pos) /\ Len(buf) > 0 /\ read_logical_pos + Len(buf) <= Size
        /\ buf \in Bytes
    BY <1>1, <2>1 DEF CacheInv, FetchInv, CacheTypes, ReaderTypes
  <2> QED
    BY <1>1, <1>2, <2>1, <2>2, <2>3, StreamReads
<1>9. ASSUME NEW t \in SeekTo, Seek(t) PROVE Stream!Next
  <2>1. at = "open" /\ UNCHANGED dest /\ t \in 0 .. Size
    BY <1>9, Sizes DEF Seek
  <2>2. CASE cache_file_close
    <3>1. caller_pos = inner_pos /\ caller_pos' = inner_pos'
      BY <1>1, <2>1, <2>2 DEF CallerInv
    <3>2. (inner_pos' = t /\ ret' = t) \/ (ret' = EIO /\ UNCHANGED inner_pos)
      BY <1>9, <2>2 DEF Seek
    <3> QED
      BY <2>1, <3>1, <3>2, StreamSeeks, StreamCannotSeek
  <2>3. CASE ~cache_file_close
    <3>1. read_logical_pos' = t /\ ret' = t
      BY <1>9, <2>3 DEF Seek
    <3> QED
      BY <1>2, <2>1, <2>3, <3>1, StreamSeeks
  <2> QED
    BY <1>1, <2>2, <2>3
<1> QED
  BY <1>3, <1>4, <1>5, <1>6, <1>7, <1>8, <1>9 DEF InTurn, Read

\* At the end of what was read: the bytes there are, or the end of the stream, or an error.
LEMMA ReaderImplements ==
  ASSUME Faults = {}, StreamInv, Reader
  PROVE  Stream!Next \/ UNCHANGED Stream!streamVars
<1>1. /\ CacheInv /\ CallerInv /\ ReaderTypes /\ Size \in Nat
      /\ caller_pos \in 0 .. Size /\ read_logical_pos \in 0 .. Size /\ buf \in Bytes
      /\ Len(buf) \in Nat
  BY Sizes DEF StreamInv, CacheInv, CacheTypes, ReaderTypes, Bytes
<1>2. ASSUME at = "reads"
      PROVE  IsPiece(buf, caller_pos) /\ read_logical_pos = caller_pos + Len(buf)
  BY <1>1, <1>2 DEF CallerInv
<1>3. CASE (\E n \in 1 .. MaxRead : BeginRead(n)) \/ (\E t \in SeekTo : BeginSeek(t))
  <2>1. NoAnswer /\ UNCHANGED caller_pos
    BY <1>3 DEF BeginRead, BeginSeek
  <2> QED
    BY <2>1, StreamBegins
<1>4. CASE ReadInterrupted
  BY <1>4, StreamFails DEF ReadInterrupted
<1>5. CASE ReadFile
  <2>1. at = "reads"
    BY <1>5 DEF ReadFile
  <2>2. PICK data \in Bytes :
           /\ IsPiece(data, read_logical_pos) /\ Len(data) \in 1 .. to_copy
           /\ read_logical_pos + Len(data) <= Size
           /\ read_logical_pos' = read_logical_pos + Len(data)
           /\ \/ Len(data) = to_copy /\ Returns(buf \o data, broken)
              \/ UNCHANGED <<answer, caller_pos>>
    BY <1>1, <1>5, ReadFileIs
  <2>3. CASE Returns(buf \o data, broken)
    <3>1. /\ buf \o data \in Bytes /\ IsPiece(buf \o data, caller_pos)
          /\ Len(buf \o data) = Len(buf) + Len(data)
      BY <1>1, <1>2, <2>1, <2>2, PiecesJoin DEF Bytes
    <3>2. Len(data) \in Nat /\ Len(data) > 0
      BY <2>2
    <3>3. Len(buf \o data) > 0
      BY <1>1, <3>1, <3>2
    <3>4. caller_pos + Len(buf \o data) = read_logical_pos'
      BY <1>1, <1>2, <2>1, <2>2, <3>1, <3>2
    <3>5. caller_pos + Len(buf \o data) <= Size
      BY <2>2, <3>4
    <3>6. buf \o data # <<>>
      BY <3>3, NoBytes
    <3>7. Answer(buf \o data) /\ caller_pos' = read_logical_pos'
      BY <2>3, <3>6 DEF Returns
    <3> QED
      BY <1>1, <3>1, <3>3, <3>4, <3>5, <3>7, StreamReads
  <2>4. CASE UNCHANGED <<answer, caller_pos>>
    BY <2>4, StreamStutters
  <2> QED
    BY <2>2, <2>3, <2>4
<1>6. CASE ReadNothing \/ ReadFileFails
  <2>1. at = "reads" /\ ~cache_file_close /\ UNCHANGED read_logical_pos
    BY <1>1, <1>6, NothingIs
  <2>2. CASE UNCHANGED <<answer, caller_pos>>
    BY <2>2, StreamStutters
  <2>3. ASSUME NEW early \in BOOLEAN, io_eof_reached, Returns(buf, early),
               ~early => ~broken /\ Cached(read_logical_pos) = {}
        PROVE  Stream!Next
    <3>1. caller_pos' = read_logical_pos
      BY <2>1, <2>3 DEF Returns
    <3>2. CASE buf # <<>>
      <4>1. Len(buf) > 0
        BY <1>1, <3>2, EmptySeq DEF Bytes
      <4>2. Answer(buf)
        BY <2>3, <3>2 DEF Returns
      <4> QED
        BY <1>1, <1>2, <2>1, <3>1, <4>1, <4>2, StreamReads
    <3>3. CASE buf = <<>>
      <4>1. caller_pos = read_logical_pos
        BY <1>1, <1>2, <2>1, <3>3, NoBytes
      <4>2. CASE io_error
        BY <2>3, <3>1, <3>3, <4>1, <4>2, StreamFails DEF Returns
      <4>3. CASE ~io_error /\ early
        BY <2>3, <3>1, <3>3, <4>1, <4>3, StreamIsCut DEF Returns
      <4>4. CASE ~io_error /\ ~early
        <5>1. Ahead
          BY <1>1, <2>1 DEF CacheInv, PlaceInv, Ahead
        <5>2. /\ \A p \in read_logical_pos .. file_logical_pos - 1 : Covered(p)
              /\ file_logical_pos >= Size
          BY <2>1, <2>3, <4>4, <5>1 DEF StreamInv, CoverInv
        <5>3. file_logical_pos \in Nat /\ read_logical_pos \in Nat
          BY <1>1 DEF CacheInv, CacheTypes, TaskTypes
        <5>4. ~Covered(read_logical_pos)
          BY <1>1, <2>1, <2>3, <4>4, <5>3, CoveredIsFound DEF CacheInv, CacheTypes, FileTypes, FileInv, Fits
        <5>5. ~(read_logical_pos < file_logical_pos)
          BY <5>2, <5>3, <5>4
        <5>6. read_logical_pos = Size
          BY <1>1, <5>2, <5>3, <5>5
        <5>7. Answer(<<>>)
          BY <2>3, <3>3, <4>4 DEF Returns
        <5> QED
          BY <3>1, <4>1, <5>6, <5>7, StreamEnds
      <4> QED
        BY <4>2, <4>3, <4>4
    <3> QED
      BY <3>2, <3>3
  <2> QED
    BY <1>1, <1>6, <2>2, <2>3, NothingIs DEF CacheInv, CacheTypes, TaskTypes
<1>7. CASE ReadInner
  <2>1. at = "reads"
    BY <1>7 DEF ReadInner
  <2>2. PICK k \in 0 .. Smaller(to_copy, Size - read_logical_pos) :
          /\ k = 0 => read_logical_pos = Size
          /\ Answer(buf \o Piece(read_logical_pos, k))
          /\ caller_pos' = read_logical_pos + k
    BY <1>7 DEF ReadInner
  <2>3. k \in Nat /\ read_logical_pos + k <= Size /\ read_logical_pos \in Nat
    BY <1>1 DEF Smaller, ReaderTypes
  <2> DEFINE rest == Piece(read_logical_pos, k)
  <2>4. rest \in Bytes /\ Len(rest) = k /\ IsPiece(rest, read_logical_pos)
    BY <2>3, PieceIs DEF Bytes, IsPiece
  <2> HIDE DEF rest
  <2>5. /\ buf \o rest \in Bytes /\ IsPiece(buf \o rest, caller_pos)
        /\ Len(buf \o rest) = Len(buf) + k
    <3>1. caller_pos \in Nat /\ IsPiece(buf, caller_pos) /\ IsPiece(rest, caller_pos + Len(buf))
      BY <1>1, <1>2, <2>1, <2>4
    <3> QED
      BY <1>1, <2>4, <3>1, PiecesJoin DEF Bytes
  <2>6. caller_pos' = caller_pos + Len(buf \o rest)
    BY <1>1, <1>2, <2>1, <2>2, <2>3, <2>5
  <2>7. Answer(buf \o rest)
    BY <2>2 DEF rest
  <2>8. CASE Len(buf \o rest) > 0
    BY <1>1, <1>2, <2>1, <2>2, <2>3, <2>5, <2>6, <2>7, <2>8, StreamReads
  <2>9. CASE ~(Len(buf \o rest) > 0)
    <3>1. k = 0 /\ Len(buf) = 0 /\ Len(buf \o rest) = 0
      BY <1>1, <2>3, <2>5, <2>9
    <3>2. buf \o rest = <<>>
      BY <2>5, <3>1, EmptySeq DEF Bytes
    <3>3. caller_pos = Size /\ caller_pos' = caller_pos
      BY <1>1, <1>2, <2>1, <2>2, <3>1
    <3> QED
      BY <2>7, <3>2, <3>3, StreamEnds
  <2> QED
    BY <2>8, <2>9
<1>8. CASE SeekLoop
  <2>1. \/ Fails /\ UNCHANGED caller_pos
        \/ UNCHANGED <<dest, ret, caller_pos>>
        \/ UNCHANGED dest /\ ret' = read_logical_pos /\ caller_pos' = read_logical_pos
    BY <1>8 DEF SeekLoop
  <2> QED
    BY <1>1, <2>1, StreamFails, StreamSeeks DEF Stream!streamVars
<1> QED
  BY <1>3, <1>4, <1>5, <1>6, <1>7, <1>8 DEF Reader

LEMMA ElseImplements ==
  ASSUME StreamInv,
         \/ AheadOpenFile \/ AheadOpenInner \/ NotQueued \/ BeginClose \/ EndClose \/ Pause
         \/ EndPause \/ ClosePaused \/ Resume \/ Interrupt \/ CloseInTurn \/ Elsewhere
         \/ KilledAhead \/ Task
  PROVE  Stream!Next \/ UNCHANGED Stream!streamVars
<1>1. CASE AheadOpenFile
  <2>1. NoAnswer /\ caller_pos' = 0 /\ at = "closed"
    BY <1>1 DEF AheadOpenFile, OpenFile, Zeroed
  <2>2. caller_pos = 0
    BY <2>1 DEF StreamInv, CacheInv, InnerInv
  <2> QED
    BY <2>1, <2>2, StreamBegins
<1>2. CASE \/ AheadOpenInner \/ NotQueued \/ BeginClose \/ Pause \/ EndPause \/ ClosePaused
           \/ Interrupt \/ Elsewhere
  <2>1. (NoAnswer \/ UNCHANGED answer) /\ UNCHANGED caller_pos
    BY <1>2 DEF AheadOpenInner, OpenInner, NotQueued, BeginClose, Pause, StopTask, EndPause, ClosePaused,
                Interrupt, Elsewhere, Destroy, Share, DidShare, FileLost, ahead
  <2> QED
    BY <2>1, StreamBegins, StreamStutters
<1>3. CASE EndClose \/ CloseInTurn \/ KilledAhead
  <2>1. caller_pos' = 0 /\ ret' = 0 /\ UNCHANGED dest
    BY <1>3 DEF EndClose, CloseInTurn, Close, KilledAhead, Killed, Closed, Zeroed
  <2> QED
    BY <2>1, Sizes, StreamSeeks
<1>4. CASE Resume
  <2>1. UNCHANGED caller_pos /\ (NoAnswer \/ Fails)
    BY <1>4 DEF Resume
  <2> QED
    BY <2>1, StreamBegins, StreamFails
<1>5. CASE Task
  <2>1. NoAnswer /\ UNCHANGED caller_pos
    BY <1>5 DEF TaskOnly, Task, TaskStarts, TaskTop, TaskSeeks, TaskAhead, TaskSleeps, TaskFinds,
                TaskFetches, TaskFails, TaskTells, TaskStores, TaskBeginsAgain, TaskGivesUp,
                TaskCannotStore, MadeAnew, TaskSignals, TaskEnds
  <2> QED
    BY <2>1, StreamBegins
<1> QED
  BY <1>1, <1>2, <1>3, <1>4, <1>5

LEMMA CallerStays ==
  ASSUME CallerInv, PlaceInv,
         UNCHANGED <<forwards, cache_file_close, read_logical_pos, inner_pos, caller_pos, buf,
                     seek_request>>,
         (interrupted' <=> interrupted) \/ at' = "closing",
         at' = at \/ at' \notin {"opening", "open", "fetch", "store", "reads", "seeks", "paused",
                                 "read_waits", "seek_waits", "pausing"}
                  \/ (at \in {"open", "pausing", "paused"} /\ at' \in {"pausing", "paused"})
                  \/ (at = "read_waits" /\ at' = "reads") \/ (at = "seek_waits" /\ at' = "seeks"),
         abort_request' = abort_request \/ at' \in {"closing", "pausing", "paused"} \/ interrupted
  PROVE  CallerInv'
BY DEF CallerInv, PlaceInv, Sync, Ahead

LEMMA CallerElse ==
  ASSUME StreamInv,
         \/ AheadOpenFile \/ AheadOpenInner \/ NotQueued \/ BeginClose \/ EndClose \/ Pause
         \/ EndPause \/ ClosePaused \/ Resume \/ Interrupt \/ CloseInTurn \/ Elsewhere
         \/ KilledAhead
  PROVE  CallerInv'
<1>1. CacheInv /\ CallerInv /\ PlaceInv
  BY DEF StreamInv, CacheInv
<1>2. CASE AheadOpenFile
  <2>1. at' = "opening" /\ abort_request' = FALSE /\ seek_request' = NoSeek
    BY <1>2 DEF AheadOpenFile, OpenFile, Zeroed
  <2> QED
    BY <2>1 DEF CallerInv
<1>3. CASE AheadOpenInner
  <2>1. /\ at = "opening" /\ at' \in {"open", "closed"}
        /\ UNCHANGED <<read_logical_pos, inner_pos, caller_pos, seek_request, abort_request, interrupted>>
    BY <1>3 DEF AheadOpenInner, OpenInner, inner
  <2>2. read_logical_pos = 0 /\ inner_pos = 0 /\ caller_pos = 0
    BY <1>1, <2>1 DEF CacheInv, InnerInv
  <2> QED
    BY <1>1, <2>1, <2>2 DEF CallerInv
<1>4. CASE NotQueued \/ EndClose \/ CloseInTurn \/ KilledAhead
  <2>1. at' = "closed"
    BY <1>4 DEF NotQueued, EndClose, CloseInTurn, Close, KilledAhead, Killed, Closed
  <2> QED
    BY <2>1 DEF CallerInv
<1>5. CASE BeginClose \/ Pause \/ EndPause \/ ClosePaused
  <2>1. StopTask("closing") \/ (StopTask("pausing") /\ ~interrupted) \/ EndPause \/ ClosePaused
    BY <1>5 DEF BeginClose, Pause
  <2>2. /\ UNCHANGED <<forwards, cache_file_close, read_logical_pos, inner_pos, caller_pos, buf,
                       seek_request>>
        /\ at \in {"open", "pausing", "paused"} /\ at' \in {"closing", "pausing", "paused"}
        /\ (interrupted' <=> interrupted) \/ at' = "closing"
    BY <2>1 DEF StopTask, EndPause, ClosePaused, ahead, opening, inner, reading
  <2> QED
    BY <1>1, <2>2, CallerStays
<1>6. CASE Resume
  <2>1. /\ UNCHANGED <<forwards, cache_file_close, read_logical_pos, inner_pos, caller_pos,
                       interrupted, buf, seek_request>>
        /\ at = "paused"
        /\ at' = "paused" \/ (at' = "open" /\ abort_request' = FALSE)
    BY <1>6 DEF Resume, opening, inner, reading
  <2>2. forwards > 0
    BY <1>1, <2>1 DEF PlaceInv
  <2> QED
    BY <1>1, <2>1, <2>2 DEF CallerInv, Sync, Ahead
<1>7. CASE Interrupt
  <2>1. /\ interrupted' = TRUE /\ Ahead /\ forwards' = forwards
        /\ UNCHANGED <<at, cache_file_close, read_logical_pos, caller_pos, buf, seek_request>>
    BY <1>7 DEF Interrupt, vars, opening, reading
  <2>2. at # "opening"
    BY <1>7 DEF Interrupt
  <2> QED
    BY <1>1, <2>1, <2>2 DEF CallerInv, Sync, Ahead
<1>8. CASE Elsewhere
  <2>1. UNCHANGED <<forwards, cache_file_close, read_logical_pos, inner_pos, caller_pos,
                    interrupted, buf, seek_request, at, abort_request>>
    BY <1>8 DEF Elsewhere, Destroy, Share, DidShare, FileLost, ahead, opening, inner, reading
  <2> QED
    BY <1>1, <2>1, CallerStays
<1> QED
  BY <1>2, <1>3, <1>4, <1>5, <1>6, <1>7, <1>8

LEMMA CallerTurn ==
  ASSUME StreamInv, InTurn
  PROVE  CallerInv'
<1>1. /\ CacheInv /\ CallerInv /\ (forwards = 0 \/ cache_file_close) /\ forwards \in Nat
      /\ UNCHANGED <<forwards, seek_request, abort_request, interrupted>>
      /\ caller_pos' = IF cache_file_close THEN inner_pos' ELSE read_logical_pos'
      /\ cache_file_close \in BOOLEAN
  BY DEF StreamInv, InTurn, CacheInv, CacheTypes, ReaderTypes, TaskTypes
<1>2. at' \in {"open", "fetch", "store"}
  BY <1>1, CallTypes
<1>3. UNCHANGED cache_file_close /\ at \in {"open", "fetch", "store"}
  BY DEF InTurn, Read, ReadHit, ReadBad, ReadMiss, PassRead, FetchOpens, Fetch, StoreNothing,
         StoreRefused, Store, Handed, Seek, opening
<1> QED
  BY <1>1, <1>2, <1>3 DEF CallerInv, Sync, Ahead

LEMMA CallerTask ==
  ASSUME Faults = {}, StreamInv, Task
  PROVE  CallerInv'
<1>1. CacheInv /\ CallerInv /\ PlaceInv /\ forwards > 0
  BY DEF StreamInv, CacheInv, PlaceInv, Task, TaskStarts, TaskTop, TaskSeeks, TaskAhead, TaskSleeps,
         TaskFinds, TaskFetches, TaskFails, TaskTells, TaskStores, TaskBeginsAgain, TaskGivesUp,
         TaskCannotStore, MadeAnew, TaskSignals, TaskEnds
<1>2. /\ UNCHANGED <<forwards, caller_pos, interrupted, buf, abort_request>>
      /\ at' \in {at, Woken}
  BY DEF TaskOnly, reading, Task, TaskStarts, TaskTop, TaskSeeks, TaskAhead, TaskSleeps, TaskFinds,
         TaskFetches, TaskFails, TaskTells, TaskStores, TaskBeginsAgain, TaskGivesUp,
         TaskCannotStore, MadeAnew, TaskSignals, TaskEnds
<1>3. \/ at' = at
      \/ at = "read_waits" /\ at' = "reads"
      \/ at = "seek_waits" /\ at' = "seeks"
  BY <1>2 DEF Woken
<1>4. CASE TaskSeeks
  <2>1. task = "seeks" /\ UNCHANGED <<cache_file_close, inner_pos>>
    BY <1>4 DEF TaskSeeks, opening
  <2>2. seek_request # NoSeek /\ ~cache_file_close
    BY <1>1, <2>1 DEF PlaceInv
  <2>3. at \notin {"reads", "read_waits", "opening"} /\ (at \in {"open", "pausing", "paused"} => interrupted)
    BY <1>1, <2>2 DEF CallerInv, Ahead
  <2> QED
    BY <1>1, <1>2, <1>3, <2>1, <2>2, <2>3 DEF CallerInv, Sync, Ahead
<1>5. CASE TaskGivesUp
  <2>1. at \in {"reads", "read_waits"} /\ UNCHANGED <<read_logical_pos, seek_request>> /\ at' = at
    BY <1>5 DEF TaskGivesUp
  <2> QED
    BY <1>1, <1>2, <2>1 DEF CallerInv
<1>6. CASE TaskFetches \/ TaskFails
  <2>1. ~cache_file_close /\ UNCHANGED <<cache_file_close, read_logical_pos, seek_request, at>>
    BY <1>1, <1>6 DEF TaskFetches, TaskFails, PlaceInv
  <2> QED
    BY <1>1, <1>2, <2>1 DEF CallerInv, Sync, Ahead
<1>7. CASE ~TaskSeeks /\ ~TaskGivesUp /\ ~TaskFetches /\ ~TaskFails
  <2>1. UNCHANGED <<cache_file_close, read_logical_pos, seek_request, inner_pos>>
    BY <1>7 DEF LooksOnly, opening, Task, TaskStarts, TaskTop, TaskAhead, TaskSleeps, TaskFinds,
                TaskTells, TaskStores, TaskBeginsAgain, TaskCannotStore, MadeAnew, TaskSignals,
                TaskEnds
  <2> QED
    BY <1>1, <1>2, <1>3, <2>1, CallerStays
<1> QED
  BY <1>4, <1>5, <1>6, <1>7

LEMMA CallerReader ==
  ASSUME Faults = {}, StreamInv, Reader
  PROVE  CallerInv'
<1>1. CacheInv /\ CallerInv /\ PlaceInv /\ ReaderTypes
  BY DEF StreamInv, CacheInv, CacheTypes
<1>2. UNCHANGED <<cache_file_close, forwards, interrupted>>
  BY <1>1, NothingIs
     DEF Reader, BeginRead, BeginSeek, ReadInterrupted, ReadFile, ReadInner, SeekLoop, ReaderOnly,
         opening
<1>3. forwards > 0 /\ UNCHANGED abort_request /\ at \in {"open", "reads", "seeks"}
  BY <1>1, NothingIs
     DEF PlaceInv, Ahead, Reader, BeginRead, BeginSeek, ReadInterrupted, ReadFile, ReadInner,
         SeekLoop
<1>4. ASSUME NEW n \in 1 .. MaxRead, BeginRead(n) PROVE CallerInv'
  <2>1. /\ at = "open" /\ Ahead /\ ~interrupted /\ at' = "reads" /\ buf' = <<>>
        /\ UNCHANGED <<read_logical_pos, seek_request, caller_pos>>
    BY <1>4 DEF BeginRead
  <2>2. caller_pos = read_logical_pos /\ seek_request = NoSeek /\ (abort_request => interrupted)
    BY <1>1, <2>1 DEF CallerInv
  <2>3. IsPiece(<<>>, caller_pos) /\ caller_pos = caller_pos + Len(<<>>)
    <3>1. caller_pos \in Nat
      BY <1>1, Sizes DEF ReaderTypes
    <3>2. Piece(caller_pos, 0) \in Seq(Nat) /\ Len(Piece(caller_pos, 0)) = 0
      BY <3>1, PieceIs
    <3>3. Piece(caller_pos, 0) = <<>>
      BY <3>2, EmptySeq
    <3> QED
      BY <3>1, <3>3, NoBytes DEF IsPiece
  <2> QED
    BY <1>2, <1>3, <2>1, <2>2, <2>3 DEF CallerInv
<1>5. ASSUME NEW t \in SeekTo, BeginSeek(t) PROVE CallerInv'
  <2>1. at = "open" /\ ~cache_file_close /\ at' = "seeks"
    BY <1>5 DEF BeginSeek, Ahead
  <2> QED
    BY <1>1, <1>2, <1>3, <2>1 DEF CallerInv
<1>6. CASE ReadInterrupted
  <2>1. at = "reads" /\ abort_request /\ at' = "open"
    BY <1>6 DEF ReadInterrupted
  <2> QED
    BY <1>1, <1>2, <1>3, <2>1 DEF CallerInv, Sync
<1>7. CASE ReadFile
  <2>1. at = "reads" /\ ~cache_file_close /\ ~abort_request /\ UNCHANGED seek_request
    BY <1>7 DEF ReadFile
  <2>2. /\ IsPiece(buf, caller_pos) /\ read_logical_pos = caller_pos + Len(buf)
        /\ seek_request = NoSeek
    BY <1>1, <2>1 DEF CallerInv
  <2>3. PICK data \in Bytes :
           /\ IsPiece(data, read_logical_pos) /\ Len(data) \in 1 .. to_copy
           /\ read_logical_pos' = read_logical_pos + Len(data)
           /\ \/ Len(data) = to_copy /\ Returns(buf \o data, broken)
              \/ /\ at' = "read_waits" /\ buf' = buf \o data
                 /\ UNCHANGED <<answer, caller_pos>>
    BY <1>1, <1>7, ReadFileIs
  <2>4. CASE Returns(buf \o data, broken)
    <3>1. at' = "open" /\ caller_pos' = read_logical_pos'
      BY <2>4 DEF Returns
    <3> QED
      BY <1>2, <1>3, <2>1, <2>2, <3>1 DEF CallerInv, Sync, Ahead
  <2>5. CASE at' = "read_waits" /\ buf' = buf \o data /\ UNCHANGED caller_pos
    <3>1. buf \in Bytes /\ caller_pos \in Nat
      BY <1>1, Sizes DEF ReaderTypes
    <3>2. IsPiece(buf \o data, caller_pos) /\ Len(buf \o data) = Len(buf) + Len(data)
      BY <2>2, <2>3, <3>1, PiecesJoin DEF Bytes
    <3>3. Len(buf) \in Nat /\ Len(data) \in Nat
      BY <3>1 DEF Bytes
    <3>4. IsPiece(buf, caller_pos)' /\ read_logical_pos' = caller_pos' + Len(buf')
      BY <2>2, <2>3, <2>5, <3>1, <3>2, <3>3 DEF IsPiece
    <3> QED
      BY <1>2, <1>3, <2>1, <2>2, <2>5, <3>4 DEF CallerInv
  <2> QED
    BY <2>3, <2>4, <2>5
<1>8. CASE ReadNothing \/ ReadFileFails
  <2>1. /\ at = "reads" /\ ~cache_file_close /\ ~abort_request
        /\ UNCHANGED <<seek_request, read_logical_pos>>
        /\ \/ at' = "open" /\ caller_pos' = read_logical_pos'
           \/ at' = "read_waits" /\ UNCHANGED <<buf, caller_pos>>
    BY <1>1, <1>8, NothingIs DEF Returns, reading
  <2> QED
    BY <1>1, <1>2, <1>3, <2>1 DEF CallerInv, Sync, Ahead
<1>9. CASE ReadInner
  <2>1. /\ at = "reads" /\ cache_file_close /\ ~abort_request /\ at' = "open"
        /\ inner_pos' = caller_pos'
    BY <1>9 DEF ReadInner
  <2> QED
    BY <1>2, <1>3, <2>1 DEF CallerInv, Sync, Ahead
<1>10. CASE SeekLoop
  <2>1. at = "seeks" /\ UNCHANGED <<read_logical_pos, seek_request>>
    BY <1>10 DEF SeekLoop
  <2>2. ~cache_file_close /\ (abort_request => interrupted)
    BY <1>1, <2>1 DEF CallerInv
  <2>3. \/ abort_request /\ at' = "open"
        \/ ~abort_request /\ seek_request = NoSeek /\ at' = "open" /\ caller_pos' = read_logical_pos
        \/ ~abort_request /\ at' = "seek_waits"
    BY <1>10 DEF SeekLoop
  <2> QED
    BY <1>2, <1>3, <2>1, <2>2, <2>3 DEF CallerInv, Sync, Ahead
<1> QED
  BY <1>4, <1>5, <1>6, <1>7, <1>8, <1>9, <1>10 DEF Reader

LEMMA CoverStays ==
  ASSUME StreamInv, UNCHANGED <<tree, file_logical_pos>>,
         Ahead' /\ at' # "closed" => Ahead /\ at # "closed",
         read_logical_pos' \in Nat, read_logical_pos <= read_logical_pos',
         UNCHANGED <<io_eof_reached, io_error, broken>> \/ io_error' = TRUE \/ broken' = TRUE
  PROVE  CoverInv'
<1>1. read_logical_pos \in Nat /\ file_logical_pos \in Nat
  BY Sizes DEF StreamInv, CacheInv, CacheTypes, ReaderTypes, TaskTypes
<1>2. ASSUME Ahead', at' # "closed"
      PROVE  /\ \A p \in read_logical_pos' .. file_logical_pos' - 1 : Covered(p)'
             /\ io_eof_reached' /\ ~io_error' /\ ~broken' => file_logical_pos' >= Size
  <2>1. /\ \A p \in read_logical_pos .. file_logical_pos - 1 : Covered(p)
        /\ io_eof_reached /\ ~io_error /\ ~broken => file_logical_pos >= Size
    BY <1>2 DEF StreamInv, CoverInv
  <2>2. \A p : Covered(p)' <=> Covered(p)
    BY SameEntries DEF Covered
  <2>3. \A p \in read_logical_pos' .. file_logical_pos' - 1 :
          p \in read_logical_pos .. file_logical_pos - 1
    BY <1>1
  <2> QED
    BY <2>1, <2>2, <2>3
<1> QED
  BY <1>2 DEF CoverInv

LEMMA CoverElse ==
  ASSUME Faults = {}, StreamInv,
         \/ AheadOpenFile \/ AheadOpenInner \/ NotQueued \/ BeginClose \/ EndClose \/ Pause
         \/ EndPause \/ ClosePaused \/ Resume \/ Interrupt \/ CloseInTurn \/ Elsewhere
         \/ KilledAhead \/ Reader \/ InTurn
  PROVE  CoverInv'
<1>1. CacheInv /\ PlaceInv /\ read_logical_pos \in Nat /\ file_logical_pos \in Nat /\ forwards \in Nat
  BY Sizes DEF StreamInv, CacheInv, CacheTypes, ReaderTypes, TaskTypes
<1>2. CASE AheadOpenFile
  <2>1. /\ at = "closed" /\ UNCHANGED read_logical_pos /\ file_logical_pos' = 0
        /\ io_eof_reached' = FALSE
    BY <1>2 DEF AheadOpenFile, OpenFile, Zeroed
  <2>2. read_logical_pos' = 0
    BY <1>1, <2>1 DEF CacheInv, InnerInv
  <2>3. \A p \in 0 .. 0 - 1 : FALSE
    OBVIOUS
  <2> QED
    BY <2>1, <2>2, <2>3 DEF CoverInv
<1>3. CASE EndClose \/ CloseInTurn \/ KilledAhead
  <2>1. at' = "closed"
    BY <1>3 DEF EndClose, CloseInTurn, Close, KilledAhead, Killed, Closed
  <2> QED
    BY <2>1 DEF CoverInv
<1>4. CASE \/ AheadOpenInner \/ NotQueued \/ BeginClose \/ Pause \/ EndPause \/ ClosePaused
           \/ Resume \/ Interrupt
  <2>1. /\ UNCHANGED <<tree, file_logical_pos, read_logical_pos, io_eof_reached, io_error, broken,
                       forwards>>
        /\ at # "closed"
        /\ cache_file_close' = cache_file_close \/ at' = "closed"
    BY <1>4 DEF AheadOpenInner, OpenInner, NotQueued, BeginClose, Pause, StopTask, EndPause, ClosePaused,
                Resume, Interrupt, ahead, vars, cache, opening, taskPos, taskEnd
  <2> QED
    BY <1>1, <2>1, CoverStays DEF Ahead
<1>5. CASE InTurn
  <2>1. ~Ahead'
    <3>1. UNCHANGED <<forwards, cache_file_close>> /\ (forwards = 0 \/ cache_file_close)
      BY <1>5 DEF InTurn, Read, ReadHit, ReadBad, ReadMiss, PassRead, FetchOpens, Fetch, StoreNothing,
                  StoreRefused, Store, Handed, Seek, opening
    <3> QED
      BY <1>1, <3>1 DEF Ahead
  <2> QED
    BY <2>1 DEF CoverInv
<1>6. CASE Elsewhere
  <2>1. CASE Destroy \/ FileLost
    <3>1. at' = "closed"
      BY <2>1 DEF Destroy, FileLost
    <3> QED
      BY <3>1 DEF CoverInv
  <2>2. CASE Share \/ DidShare
    <3>1. UNCHANGED <<tree, file_logical_pos, read_logical_pos, io_eof_reached, io_error, broken,
                      forwards, cache_file_close, at>>
      BY <1>6, <2>2 DEF Elsewhere, Share, DidShare, ahead, cache, opening, taskPos, taskEnd
    <3> QED
      BY <1>1, <3>1, CoverStays DEF Ahead
  <2> QED
    BY <1>6, <2>1, <2>2 DEF Elsewhere
<1>7. CASE Reader
  <2>1. /\ UNCHANGED <<tree, file_logical_pos, io_eof_reached, io_error, broken, forwards,
                       cache_file_close>>
        /\ at # "closed"
    BY <1>1, <1>7, NothingIs
       DEF Reader, BeginRead, BeginSeek, ReadInterrupted, ReadFile, ReadInner, SeekLoop, ReaderOnly,
           cache, opening, taskPos, taskEnd
  <2>2. read_logical_pos' \in Nat /\ read_logical_pos <= read_logical_pos'
    <3>1. CASE ReadFile
      <4>1. PICK data \in Bytes :
              Len(data) \in 1 .. to_copy /\ read_logical_pos' = read_logical_pos + Len(data)
        BY <1>1, <3>1, ReadFileIs
      <4>2. Len(data) \in Nat
        BY <4>1
      <4> QED
        BY <1>1, <4>1, <4>2
    <3>2. CASE ~ReadFile
      <4>1. UNCHANGED read_logical_pos
        BY <1>1, <1>7, <3>2, NothingIs
           DEF Reader, BeginRead, BeginSeek, ReadInterrupted, ReadInner, SeekLoop
      <4> QED
        BY <1>1, <4>1
    <3> QED
      BY <3>1, <3>2
  <2> QED
    BY <2>1, <2>2, CoverStays DEF Ahead
<1> QED
  BY <1>2, <1>3, <1>4, <1>5, <1>6, <1>7

LEMMA CoverTask ==
  ASSUME Faults = {}, StreamInv, Task
  PROVE  CoverInv'
<1>1. CacheInv /\ PlaceInv /\ read_logical_pos \in Nat /\ file_logical_pos \in Nat /\ forwards > 0
  BY Sizes DEF StreamInv, CacheInv, CacheTypes, ReaderTypes, TaskTypes, PlaceInv, Task, TaskStarts,
               TaskTop, TaskSeeks, TaskAhead, TaskSleeps, TaskFinds, TaskFetches, TaskFails,
               TaskTells, TaskStores, TaskBeginsAgain, TaskGivesUp, TaskCannotStore, MadeAnew,
               TaskSignals, TaskEnds
<1>2. UNCHANGED forwards /\ at # "closed"
  BY <1>1 DEF TaskOnly, PlaceInv, Task, TaskStarts, TaskTop, TaskSeeks, TaskAhead, TaskSleeps,
              TaskFinds, TaskFetches, TaskFails, TaskTells, TaskStores, TaskBeginsAgain,
              TaskGivesUp, TaskCannotStore, MadeAnew, TaskSignals, TaskEnds
<1>3. CASE TaskSeeks
  <2>1. task = "seeks" /\ read_logical_pos' = seek_request /\ file_logical_pos' = seek_request
        /\ io_eof_reached' = FALSE
    BY <1>3 DEF TaskSeeks, Afresh
  <2>2. seek_request \in Nat
    BY <1>1, <2>1, Sizes DEF PlaceInv, CacheInv, CacheTypes, TaskTypes
  <2>3. \A p \in seek_request .. seek_request - 1 : FALSE
    BY <2>2
  <2> QED
    BY <2>1, <2>3 DEF CoverInv
<1>4. CASE TaskBeginsAgain
  <2>1. file_logical_pos' = read_logical_pos /\ UNCHANGED read_logical_pos /\ io_eof_reached' = FALSE
    BY <1>4 DEF TaskBeginsAgain
  <2>2. \A p \in read_logical_pos .. read_logical_pos - 1 : FALSE
    BY <1>1
  <2> QED
    BY <2>1, <2>2 DEF CoverInv
<1>5. CASE TaskGivesUp
  BY <1>5 DEF TaskGivesUp, CoverInv, Ahead
<1>6. CASE TaskFinds
  <2>1. Ahead
    <3>1. task \notin {"none", "ending"}
      BY <1>6 DEF TaskFinds
    <3> QED
      BY <1>1, <3>1, TaskIsAhead
  <2>2. UNCHANGED <<tree, read_logical_pos, io_error, broken>>
    BY <1>6 DEF TaskFinds, LooksOnly, cache
  <2>3. /\ file_logical_pos' = Following /\ Following \in file_logical_pos .. Size
        /\ \A p \in file_logical_pos .. Following - 1 : Covered(p)
        /\ (io_eof_reached' = TRUE /\ Following = Size) \/ UNCHANGED io_eof_reached
    BY <1>1, <1>6, TaskFindsIs
  <2>4. /\ \A p \in read_logical_pos .. file_logical_pos - 1 : Covered(p)
        /\ io_eof_reached /\ ~io_error /\ ~broken => file_logical_pos >= Size
    BY <1>2, <2>1 DEF StreamInv, CoverInv
  <2>5. \A p \in read_logical_pos .. Following - 1 : Covered(p)
    <3> SUFFICES ASSUME NEW p \in read_logical_pos .. Following - 1 PROVE Covered(p)
      OBVIOUS
    <3>1. p \in read_logical_pos .. file_logical_pos - 1 \/ p \in file_logical_pos .. Following - 1
      BY <1>1, <2>3
    <3> QED
      BY <2>3, <2>4, <3>1
  <2>6. \A p : Covered(p)' <=> Covered(p)
    BY <2>2, SameEntries DEF Covered
  <2>7. io_eof_reached' /\ ~io_error' /\ ~broken' => Following >= Size
    <3>1. CASE io_eof_reached' = TRUE /\ Following = Size
      BY <3>1, Sizes
    <3>2. CASE UNCHANGED io_eof_reached
      <4>1. ASSUME file_logical_pos >= Size PROVE Following >= Size
        BY <1>1, <2>3, <4>1, Sizes
      <4> QED
        BY <2>2, <2>4, <3>2, <4>1
    <3> QED
      BY <2>3, <3>1, <3>2
  <2> QED
    BY <2>2, <2>3, <2>5, <2>6, <2>7 DEF CoverInv
<1>7. CASE TaskStores
  <2>1. task = "stores" /\ UNCHANGED <<read_logical_pos, io_eof_reached, io_error, broken>>
    BY <1>7 DEF TaskStores, taskEnd
  <2>2. Ahead /\ tree \in SUBSET Entry /\ Entries = tree
    BY <2>1, TaskIsAhead, <1>1
  <2>3. PICK n \in 1 .. Len(task_buf) :
          /\ tree' = Longer(tree, file_logical_pos, last_physical_pos, n)
          /\ file_logical_pos' = file_logical_pos + n
    BY <1>7 DEF TaskStores
  <2>4. n \in Nat \ {0} /\ last_physical_pos \in Nat
    BY <1>1 DEF CacheInv, CacheTypes, TaskTypes, FileTypes, Bytes
  <2>5. tree' \in SUBSET Entry /\ Entries' = tree'
    <3>1. tree' \in SUBSET Entry
      BY <1>1, <2>2, <2>3, <2>4, LongerHas
    <3> QED
      BY <3>1, NullIsNoTree, PrimedEntries
  <2>6. /\ \A e \in tree : \E g \in tree' :
              g.logical = e.logical /\ e.logical + e.size <= g.logical + g.size
        /\ \E g \in tree' : g.logical <= file_logical_pos /\ file_logical_pos + n <= g.logical + g.size
    <3> DEFINE l == Longer(tree, file_logical_pos, last_physical_pos, n)
    <3>1. /\ \A e \in tree : \E g \in l :
                g.logical = e.logical /\ e.logical + e.size <= g.logical + g.size
          /\ \E g \in l : g.logical <= file_logical_pos /\ file_logical_pos + n <= g.logical + g.size
      BY <1>1, <2>2, <2>4, LongerCovers
    <3>2. tree' = l
      BY <2>3
    <3> HIDE DEF l
    <3> QED
      BY <3>1, <3>2
  <2>7. /\ \A p \in read_logical_pos .. file_logical_pos - 1 : Covered(p)
        /\ io_eof_reached /\ ~io_error /\ ~broken => file_logical_pos >= Size
    BY <1>2, <2>2 DEF StreamInv, CoverInv
  <2>8. ASSUME NEW p \in read_logical_pos .. file_logical_pos + n - 1
        PROVE  \E g \in tree' : g.logical <= p /\ p < g.logical + g.size
    <3>1. p \in Nat
      BY <1>1, <2>4
    <3>2. CASE p < file_logical_pos
      <4>1. PICK e \in tree : e.logical <= p /\ p < e.logical + e.size
        BY <1>1, <2>2, <2>7, <3>1, <3>2 DEF Covered, Covers
      <4>2. PICK g \in tree' : g.logical = e.logical /\ e.logical + e.size <= g.logical + g.size
        BY <2>6
      <4>3. e \in Entry /\ g \in Entry
        BY <2>2, <2>5
      <4>4. e.logical + e.size \in Nat /\ g.logical + g.size \in Nat
        BY <4>3 DEF Entry
      <4> QED
        BY <3>1, <4>1, <4>2, <4>4
    <3>3. CASE ~(p < file_logical_pos)
      <4>1. PICK g \in tree' : g.logical <= file_logical_pos /\ file_logical_pos + n <= g.logical + g.size
        BY <2>6
      <4>2. g \in Entry
        BY <2>5
      <4>3. g.logical \in Nat /\ g.logical + g.size \in Nat
        BY <4>2 DEF Entry
      <4>4. p < file_logical_pos + n /\ file_logical_pos <= p
        BY <1>1, <2>4, <3>1, <3>3
      <4> QED
        BY <1>1, <2>4, <3>1, <4>1, <4>3, <4>4
    <3> QED
      BY <3>2, <3>3
  <2>9. \A p \in read_logical_pos' .. file_logical_pos' - 1 : Covered(p)'
    <3> SUFFICES ASSUME NEW p \in read_logical_pos' .. file_logical_pos' - 1
                 PROVE  Covered(p)'
      OBVIOUS
    <3>1. p \in read_logical_pos .. file_logical_pos + n - 1
      BY <1>1, <2>1, <2>3, <2>4
    <3>2. PICK g \in tree' : g.logical <= p /\ p < g.logical + g.size
      BY <2>8, <3>1
    <3> QED
      BY <2>5, <3>2 DEF Covered, Covers
  <2>10. io_eof_reached' /\ ~io_error' /\ ~broken' => file_logical_pos' >= Size
    <3>1. ASSUME file_logical_pos >= Size PROVE file_logical_pos' >= Size
      BY <1>1, <2>3, <2>4, <3>1, Sizes
    <3> QED
      BY <2>1, <2>7, <3>1
  <2> QED
    BY <2>9, <2>10 DEF CoverInv
<1>8. CASE ~TaskSeeks /\ ~TaskBeginsAgain /\ ~TaskGivesUp /\ ~TaskFinds /\ ~TaskStores
  <2>1. UNCHANGED <<tree, file_logical_pos, read_logical_pos, cache_file_close>>
    BY <1>8 DEF LooksOnly, cache, opening, taskPos, Task, TaskStarts, TaskTop, TaskAhead,
                TaskSleeps, TaskFetches, TaskFails, TaskTells, TaskCannotStore, MadeAnew,
                TaskSignals, TaskEnds
  <2>2. UNCHANGED <<io_eof_reached, io_error, broken>> \/ io_error' = TRUE \/ broken' = TRUE
    BY <1>8 DEF taskEnd, Task, TaskStarts, TaskTop, TaskAhead, TaskSleeps, TaskFetches, TaskFails,
                TaskTells, TaskCannotStore, MadeAnew, TaskSignals, TaskEnds
  <2> QED
    <3>1. Ahead' /\ at' # "closed" => Ahead /\ at # "closed"
      BY <1>2, <2>1 DEF Ahead
    <3>2. read_logical_pos' \in Nat /\ read_logical_pos <= read_logical_pos'
      BY <1>1, <2>1
    <3> QED
      BY <2>1, <2>2, <3>1, <3>2, CoverStays
<1> QED
  BY <1>3, <1>4, <1>5, <1>6, <1>7, <1>8

(* To the demuxer the cache is a plain seekable stream: every read gives   *)
(* the bytes that follow and every seek goes where it says, with read      *)
(* ahead or without, and the end is only told before the end where the     *)
(* inner protocol has failed, for the task since the last seek, or the     *)
(* file could not be read (ijkiocache.c:494, :884, :995, :1008).           *)
THEOREM CacheIsAStream ==
  ASSUME Faults = {}, ~StaleMaps
  PROVE  AheadSpec => ImplementsStream
<1>1. KeepsFile
  BY DEF KeepsFile
<1>2. AheadInit => StreamInv /\ Stream!Init
  <2> SUFFICES ASSUME AheadInit PROVE StreamInv /\ Stream!Init
    OBVIOUS
  <2>1. CacheInv
    BY InitHolds
  <2>2. at = "closed" /\ caller_pos = 0 /\ dest = <<>> /\ ret = 0
    BY DEF AheadInit, Init
  <2> QED
    BY <2>1, <2>2 DEF StreamInv, CallerInv, CoverInv, Stream!Init
<1>3. StreamInv /\ [AheadNext]_allVars => StreamInv' /\ [Stream!Next]_(Stream!streamVars)
  <2> SUFFICES ASSUME StreamInv, [AheadNext]_allVars
               PROVE  StreamInv' /\ (Stream!Next \/ UNCHANGED Stream!streamVars)
    OBVIOUS
  <2>1. CASE AheadNext
    <3>1. CacheInv'
      BY <1>1, <2>1, CacheStep DEF StreamInv
    <3>2. CASE InTurn
      BY <3>1, <3>2, CallerTurn, CoverElse, TurnImplements DEF StreamInv
    <3>3. CASE Reader
      BY <3>1, <3>3, CallerReader, CoverElse, ReaderImplements DEF StreamInv
    <3>4. CASE Task
      BY <3>1, <3>4, CallerTask, CoverTask, ElseImplements DEF StreamInv
    <3>5. CASE \/ AheadOpenFile \/ AheadOpenInner \/ NotQueued \/ BeginClose \/ EndClose \/ Pause
               \/ EndPause \/ ClosePaused \/ Resume \/ Interrupt \/ CloseInTurn \/ Elsewhere
               \/ KilledAhead
      BY <3>1, <3>5, CallerElse, CoverElse, ElseImplements DEF StreamInv
    <3> QED
      BY <2>1, <3>2, <3>3, <3>4, <3>5 DEF AheadNext
  <2>2. CASE UNCHANGED allVars
    <3>1. CacheInv'
      BY <2>2, CacheStutters DEF StreamInv
    <3>2. /\ UNCHANGED <<tree, at, cache_file_close, read_logical_pos, inner_pos, buf, answer>>
          /\ UNCHANGED <<forwards, file_logical_pos, io_eof_reached,
                         io_error, broken, seek_request, abort_request, interrupted, caller_pos>>
      BY <2>2 DEF allVars, vars, ahead, stored, cache, handle, opening, inner, reading, taskPos, taskEnd
    <3>3. CallerInv'
      BY <3>2, CallerStays DEF StreamInv, CacheInv
    <3>4. CoverInv'
      <4>1. read_logical_pos \in Nat
        BY Sizes DEF StreamInv, CacheInv, CacheTypes, ReaderTypes
      <4> QED
        BY <3>2, <4>1, CoverStays DEF Ahead
    <3> QED
      BY <3>1, <3>2, <3>3, <3>4, StreamStutters DEF StreamInv
  <2> QED
    BY <2>1, <2>2
<1> QED
  BY <1>2, <1>3, PTL DEF AheadSpec, ImplementsStream, Stream!Spec
=============================================================================
