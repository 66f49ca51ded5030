-------------------------- MODULE FsLogStoreProofs --------------------------
(***************************************************************************)
(* Theorems about FsLogStore, for stores, entries and buffers of any size. *)
(*                                                                         *)
(* The invariant has two parts.  FilesInv: the index file holds strictly   *)
(* increasing positions within the data file (Layout), the memory counts   *)
(* its cells, the disk ends up as the files once every write is flushed,   *)
(* and on the way there the entries the last write left alone stay         *)
(* readable, the last of them perhaps with a tail.  BufferInv: the buffer  *)
(* is the newest entries of the files.                                     *)
(* FilesInv needs packs that are applied at the data positions they were   *)
(* made at; BufferInv also needs callers that write within the buffer and  *)
(* do not leave a tail in the data file.                                   *)
(*                                                                         *)
(* Both hold until the first crash.  A crash within apply_pack, between    *)
(* the flushes of the index and of the data file, can leave an index file  *)
(* that mixes old and new positions and does not increase, which the       *)
(* constructor only notices within the newest BufSize entries.             *)
(***************************************************************************)
EXTENDS FsLogStore, TLAPS, SequenceTheorems

-----------------------------------------------------------------------------
(* Sums and sequences. *)

\* The order of numbers is transitive.
LEMMA NatOrder ==
    \A m, n, o \in Nat : (m > n /\ m <= o => o > n) /\ (m >= n /\ m <= o => o >= n)
OBVIOUS

\* Adding the same number to both sides.
LEMMA SumsEqual ==
    \A m, n, o, j \in Nat : (m + o) + j = (m + n) + 1 => o + j = n + 1
OBVIOUS

\* The elements of a part of a sequence.
LEMMA SliceFacts ==
    ASSUME NEW S, NEW s \in Seq(S), NEW m \in Nat, NEW n \in Nat,
           m <= n, n <= Len(s)
    PROVE  /\ SubSeq(s, m + 1, n) \in Seq(S)
           /\ Len(SubSeq(s, m + 1, n)) = n - m
           /\ \A i \in 1..(n - m) : SubSeq(s, m + 1, n)[i] = s[m + i]
<1>1. \A i \in (m + 1)..n : s[i] \in S
    OBVIOUS
<1>2. /\ SubSeq(s, m + 1, n) \in Seq(S)
      /\ Len(SubSeq(s, m + 1, n)) = IF m + 1 <= n THEN n - (m + 1) + 1 ELSE 0
      /\ \A i \in 1..(n - (m + 1) + 1) : SubSeq(s, m + 1, n)[i] = s[m + 1 + i - 1]
    BY <1>1, SubSeqProperties
<1>3. QED
    BY <1>2

\* The first elements of a sequence.
LEMMA FirstFacts ==
    ASSUME NEW S, NEW s \in Seq(S), NEW n \in Nat, n <= Len(s)
    PROVE  /\ SubSeq(s, 1, n) \in Seq(S) /\ Len(SubSeq(s, 1, n)) = n
           /\ \A i \in 1..n : SubSeq(s, 1, n)[i] = s[i]
OBVIOUS

\* The elements of s after the m-th, up to the n-th.
Part(s, m, n) == SubSeq(s, m + 1, n)

\* s between m and n is t between p and q.
SamePart(s, m, n, t, p, q) ==
    /\ s \in Seq(Cell) /\ t \in Seq(Cell)
    /\ m \in Nat /\ n \in Nat /\ p \in Nat /\ q \in Nat
    /\ m <= n /\ n <= Len(s) /\ p <= q /\ q <= Len(t) /\ q - p = n - m
    /\ \A i \in 1..(n - m) : s[m + i] = t[p + i]

\* Equal parts of two sequences.
LEMMA SlicesEqual ==
    \A s, t, m, n, p, q :
        SamePart(s, m, n, t, p, q) => Part(s, m, n) = Part(t, p, q)
<1> SUFFICES ASSUME NEW s, NEW t, NEW m, NEW n, NEW p, NEW q,
                    SamePart(s, m, n, t, p, q)
             PROVE  Part(s, m, n) = Part(t, p, q)
    OBVIOUS
<1> USE DEF SamePart
<1> DEFINE a == SubSeq(s, m + 1, n)
           b == SubSeq(t, p + 1, q)
<1>1. a \in Seq(Cell) /\ Len(a) = n - m /\ \A i \in 1..(n - m) : a[i] = s[m + i]
    BY SliceFacts
<1>2. b \in Seq(Cell) /\ Len(b) = q - p /\ \A i \in 1..(q - p) : b[i] = t[p + i]
    BY SliceFacts
<1>3. Len(a) = Len(b) /\ \A i \in 1..Len(a) : a[i] = b[i]
    BY <1>1, <1>2
<1> HIDE DEF a, b
<1>4. a = b
    BY <1>1, <1>2, <1>3, SeqEqual
<1>5. QED
    BY <1>4 DEF a, b, Part

\* g is f with w written over it from pos on.
Overwritten(g, f, pos, w) ==
    /\ Len(g) = Larger(Len(f), pos + Len(w))
    /\ \A i \in 1..pos : g[i] = f[i]
    /\ \A i \in 1..Len(w) : g[pos + i] = w[i]

\* Writing over a sequence, without a gap.
LEMMA OverwriteFacts ==
    ASSUME NEW S, NEW f \in Seq(S), NEW w \in Seq(S),
           NEW pos \in Nat, pos <= Len(f)
    PROVE  /\ Overwrite(f, pos, w) \in Seq(S)
           /\ Overwritten(Overwrite(f, pos, w), f, pos, w)
<1> DEFINE n == Larger(Len(f), pos + Len(w))
           El(k) == IF k \in (pos + 1)..(pos + Len(w)) THEN w[k - pos]
                    ELSE IF k <= Len(f) THEN f[k] ELSE Hole
           g == [k \in 1..n |-> El(k)]
<1>1. n \in Nat /\ n >= Len(f) /\ n >= pos + Len(w)
    BY DEF Larger
<1>2. ASSUME NEW k \in 1..n PROVE El(k) \in S
    <2>1. CASE k \in (pos + 1)..(pos + Len(w))
        <3>1. k - pos \in 1..Len(w)
            BY <2>1
        <3>2. QED
            BY <2>1, <3>1
    <2>2. CASE k \notin (pos + 1)..(pos + Len(w))
        <3>1. k \in 1..Len(f)
            BY <1>1, <2>2 DEF Larger
        <3>2. QED
            BY <2>2, <3>1
    <2>3. QED
        BY <2>1, <2>2
<1>3. g \in Seq(S)
    <2> HIDE DEF n, El
    <2>1. QED
        BY <1>1, <1>2, IsASeq
<1>4. Len(g) = n
    BY <1>1, <1>3
<1>5. \A i \in 1..pos : g[i] = f[i]
    BY <1>1
<1>6. ASSUME NEW i \in 1..Len(w) PROVE g[pos + i] = w[i]
    <2>1. pos + i \in 1..n /\ pos + i \in (pos + 1)..(pos + Len(w)) /\ pos + i - pos = i
        BY <1>1
    <2>2. QED
        BY <2>1
<1>7. Overwrite(f, pos, w) = g
    BY DEF Overwrite
<1> HIDE DEF g
<1>8. QED
    BY <1>3, <1>4, <1>5, <1>6, <1>7 DEF Overwritten

-----------------------------------------------------------------------------
(* The files. *)

\* Where entry k of the index file ends; for k = 0, where the first begins.
EndOf(f, k) == IF k < Len(f.idx) THEN f.idx[k + 1] ELSE Len(f.data)

\* The data file is cut into entries, none of them empty.
Layout(f) ==
    /\ f.idx \in Seq(Nat) /\ f.data \in Seq(Cell)
    /\ Len(f.idx) = 0 => Len(f.data) = 0
    /\ Len(f.idx) > 0 => f.idx[1] = 0
    /\ \A k \in 1..Len(f.idx) : f.idx[k] < Len(f.data)
    /\ \A j, k \in 1..Len(f.idx) : j < k => f.idx[j] < f.idx[k]

\* d has the first k entries of f, which end at data position pos.
Holds(d, f, k, pos) ==
    /\ Len(d.idx) >= k /\ \A j \in 1..k : d.idx[j] = f.idx[j]
    /\ EndOf(d, k) = pos
    /\ Len(d.data) >= pos /\ \A j \in 1..pos : d.data[j] = f.data[j]

\* Entry k of laid out files is where the index file says.
LEMMA EntryFacts ==
    ASSUME NEW f \in Files, Layout(f), NEW k \in 1..Len(f.idx)
    PROVE  /\ f.idx[k] \in Nat /\ EndOf(f, k) \in Nat
           /\ f.idx[k] < EndOf(f, k) /\ EndOf(f, k) <= Len(f.data)
           /\ FillEntry(f, k) = Part(f.data, f.idx[k], EndOf(f, k))
           /\ FillEntry(f, k) \in Seq(Cell) /\ FillEntry(f, k) # <<>>
           /\ Head(FillEntry(f, k)) = f.data[f.idx[k] + 1]
           /\ k < Len(f.idx) => ReadEntry(f, k) = FillEntry(f, k)
<1>1. f.idx \in Seq(Nat) /\ f.data \in Seq(Cell) /\ f.idx[k] \in Nat
    BY DEF Layout
<1>2. EndOf(f, k) \in Nat /\ f.idx[k] < EndOf(f, k) /\ EndOf(f, k) <= Len(f.data)
    <2>1. CASE k < Len(f.idx)
        <3>1. k + 1 \in 1..Len(f.idx)
            BY <1>1, <2>1
        <3>2. /\ f.idx[k + 1] \in Nat /\ f.idx[k] < f.idx[k + 1]
              /\ f.idx[k + 1] < Len(f.data)
            BY <1>1, <3>1 DEF Layout
        <3>3. QED
            BY <1>1, <2>1, <3>2 DEF EndOf
    <2>2. CASE ~(k < Len(f.idx))
        BY <1>1, <2>2 DEF EndOf, Layout
    <2>3. QED
        BY <2>1, <2>2
<1>3. FillEntry(f, k) = SubSeq(f.data, f.idx[k] + 1, EndOf(f, k))
    BY <1>2 DEF FillEntry, ReadTo, EndOf
<1>30. FillEntry(f, k) = Part(f.data, f.idx[k], EndOf(f, k))
    BY <1>3 DEF Part
<1>4. k < Len(f.idx) => ReadEntry(f, k) = FillEntry(f, k)
    BY DEF ReadEntry, FillEntry
<1>5. PICK a \in Nat, b \in Nat : a = f.idx[k] /\ b = EndOf(f, k)
    BY <1>1, <1>2
<1>6. /\ SubSeq(f.data, a + 1, b) \in Seq(Cell)
      /\ Len(SubSeq(f.data, a + 1, b)) = b - a
      /\ \A i \in 1..(b - a) : SubSeq(f.data, a + 1, b)[i] = f.data[a + i]
    <2>1. a <= b /\ b <= Len(f.data) /\ f.data \in Seq(Cell)
        BY <1>1, <1>2, <1>5
    <2>2. QED
        BY <2>1, SliceFacts, Zenon
<1>7. PICK x \in Seq(Cell) : x = FillEntry(f, k)
    BY <1>3, <1>5, <1>6
<1>8. Len(x) > 0 /\ x[1] = f.data[a + 1]
    <2>1. 1 \in 1..(b - a) /\ b - a > 0
        BY <1>2, <1>5
    <2>2. x = SubSeq(f.data, a + 1, b)
        BY <1>3, <1>5, <1>7
    <2>3. Len(x) = b - a /\ \A i \in 1..(b - a) : x[i] = f.data[a + i]
        BY <1>6, <2>2
    <2>4. QED
        BY <2>1, <2>3
<1>9. x # <<>> /\ Head(x) = x[1]
    BY <1>7, <1>8
<1>10. QED
    BY <1>1, <1>2, <1>30, <1>4, <1>5, <1>7, <1>8, <1>9

\* Files that hold the first entries of others return the same entries.
LEMMA HoldsEntries ==
    ASSUME NEW f \in Files, Layout(f), NEW d \in Files,
           NEW k \in 0..Len(f.idx), Holds(d, f, k, EndOf(f, k)),
           NEW j \in 1..k
    PROVE  FillEntry(d, j) = FillEntry(f, j)
<1>1. /\ f.idx \in Seq(Nat) /\ f.data \in Seq(Cell)
      /\ d.idx \in Seq(Nat) /\ d.data \in Seq(Cell)
    BY DEF Files
<1>2. j \in 1..Len(f.idx) /\ j \in 1..Len(d.idx)
    BY <1>1 DEF Holds
<1>3. /\ f.idx[j] \in Nat /\ EndOf(f, j) \in Nat
      /\ f.idx[j] < EndOf(f, j) /\ EndOf(f, j) <= Len(f.data)
      /\ FillEntry(f, j) = Part(f.data, f.idx[j], EndOf(f, j))
    BY <1>2, EntryFacts
<1>4. EndOf(d, j) = EndOf(f, j)
    <2>1. CASE j = k
        BY <2>1 DEF Holds
    <2>2. CASE j < k
        <3>1. j + 1 \in 1..k /\ j < Len(f.idx) /\ j < Len(d.idx)
            BY <1>1, <2>2 DEF Holds
        <3>2. QED
            BY <3>1 DEF Holds, EndOf
    <2>3. QED
        BY <2>1, <2>2
<1>5. EndOf(f, j) <= EndOf(f, k)
    <2>1. CASE j = k
        BY <1>3, <2>1
    <2>2. CASE j < k /\ k = Len(f.idx)
        BY <1>3, <2>2 DEF EndOf
    <2>3. CASE j < k /\ k < Len(f.idx)
        <3>1. /\ j + 1 \in 1..Len(f.idx) /\ k + 1 \in 1..Len(f.idx)
              /\ j + 1 < k + 1 /\ j < Len(f.idx)
            BY <1>1, <2>3
        <3>2. f.idx[j + 1] \in Nat /\ f.idx[k + 1] \in Nat
            <4>1. \A i \in 1..Len(f.idx) : f.idx[i] \in Nat
                BY <1>1
            <4>2. QED
                BY <3>1, <4>1, Zenon
        <3>3. f.idx[j + 1] < f.idx[k + 1]
            BY <3>1 DEF Layout
        <3>4. QED
            BY <2>3, <3>1, <3>2, <3>3 DEF EndOf
    <2>4. QED
        BY <1>1, <2>1, <2>2, <2>3
<1>6. PICK a \in Nat, b \in Nat : a = f.idx[j] /\ b = EndOf(f, j)
    BY <1>3
<1>7. EndOf(f, k) \in Nat
    <2>1. CASE k < Len(f.idx)
        <3>1. k + 1 \in 1..Len(f.idx)
            BY <1>1, <2>1
        <3>2. QED
            BY <1>1, <2>1, <3>1 DEF EndOf
    <2>2. CASE ~(k < Len(f.idx))
        BY <1>1, <2>2 DEF EndOf
    <2>3. QED
        BY <2>1, <2>2
<1>8. b <= Len(d.data) /\ \A i \in 1..(b - a) : d.data[a + i] = f.data[a + i]
    <2>1. b <= EndOf(f, k)
        BY <1>5, <1>6
    <2>2. Len(d.data) \in Nat /\ Len(d.data) >= EndOf(f, k)
        BY <1>1 DEF Holds
    <2>3. b <= Len(d.data)
        BY <1>7, <2>1, <2>2
    <2>4. ASSUME NEW i \in 1..(b - a) PROVE d.data[a + i] = f.data[a + i]
        <3>1. a + i \in 1..EndOf(f, k)
            BY <1>7, <2>1
        <3>2. QED
            BY <3>1 DEF Holds
    <2>5. QED
        BY <2>3, <2>4
<1>9. FillEntry(d, j) = Part(d.data, a, b)
    <2>1. d.idx[j] = a
        BY <1>6 DEF Holds
    <2>2. QED
        BY <1>1, <1>3, <1>4, <1>6, <1>8, <2>1 DEF FillEntry, ReadTo, EndOf, Part
<1>10. Part(d.data, a, b) = Part(f.data, a, b)
    <2>1. PICK x \in Seq(Cell), y \in Seq(Cell) : x = d.data /\ y = f.data
        BY <1>1
    <2>2. SamePart(x, a, b, y, a, b)
        BY <1>3, <1>6, <1>8, <2>1 DEF SamePart
    <2>3. Part(x, a, b) = Part(y, a, b)
        BY <2>2, SlicesEqual
    <2>4. QED
        BY <2>1, <2>3
<1>11. QED
    BY <1>3, <1>6, <1>9, <1>10

-----------------------------------------------------------------------------
(* What append, write_at and apply_pack do to the files. *)

\* g keeps the first k entries of d, and a next one, if any, starts at pos.
Written(d, g, k, pos) ==
    /\ Len(g.idx) >= k /\ (Len(g.idx) > k => g.idx[k + 1] = pos)
    /\ \A j \in 1..k : g.idx[j] = d.idx[j]
    /\ Len(g.data) >= pos /\ \A j \in 1..pos : g.data[j] = d.data[j]

\* g is d with everything after entry k replaced.
Spliced(d, g, k, pos, widx, wdata) ==
    /\ Len(g.idx) = k + Len(widx)
    /\ \A j \in 1..k : g.idx[j] = d.idx[j]
    /\ \A j \in 1..Len(widx) : g.idx[k + j] = widx[j]
    /\ Len(g.data) >= pos + Len(wdata)
    /\ \/ Len(g.data) = pos + Len(wdata)
       \/ Len(d.idx) <= k + Len(widx) /\ Len(d.data) > pos + Len(wdata)
    /\ \A j \in 1..pos : g.data[j] = d.data[j]
    /\ \A j \in 1..Len(wdata) : g.data[pos + j] = wdata[j]

\* The states of the disk while it is spliced, and the last of them.
LEMMA SpliceFacts ==
    ASSUME NEW d \in Files, NEW k \in 0..Len(d.idx),
           NEW pos \in Nat, pos <= Len(d.data),
           NEW widx \in Seq(Nat), NEW wdata \in Seq(Cell), Len(widx) > 0,
           widx[1] = pos, k < Len(d.idx) => d.idx[k + 1] = pos,
           NEW early \in BOOLEAN
    PROVE  LET st == Splice(d, k, pos, widx, wdata, early)
           IN  /\ st \in Seq(Files) /\ Len(st) > 0
               /\ \A j \in 1..Len(st) : Written(d, st[j], k, pos)
               /\ Spliced(d, st[Len(st)], k, pos, widx, wdata)
<1>1. /\ d.idx \in Seq(Nat) /\ d.data \in Seq(Cell) /\ d.sti \in Nat
      /\ d = [idx |-> d.idx, data |-> d.data, sti |-> d.sti]
    BY DEF Files
<1>2. PICK fi \in Seq(Nat), fd \in Seq(Cell) : fi = d.idx /\ fd = d.data
    BY <1>1
<1> k \in Nat /\ k <= Len(fi) /\ pos <= Len(fd)
    BY <1>2
<1>0. PICK n \in Nat, l \in Nat : n = k + Len(widx) /\ l = pos + Len(wdata)
    <2>1. Len(widx) \in Nat /\ Len(wdata) \in Nat
        OBVIOUS
    <2>2. k + Len(widx) \in Nat /\ pos + Len(wdata) \in Nat
        BY <2>1
    <2>3. QED
        BY <2>2, Zenon
<1>3. PICK i1 \in Seq(Nat) :
          i1 = Overwrite(fi, k, widx) /\ Overwritten(i1, fi, k, widx)
    BY OverwriteFacts
<1>4. PICK d1 \in Seq(Cell) :
          d1 = Overwrite(fd, pos, wdata) /\ Overwritten(d1, fd, pos, wdata)
    BY OverwriteFacts
<1>5. Len(i1) \in Nat /\ n <= Len(i1) /\ Len(d1) \in Nat /\ l <= Len(d1)
    <2>1. Len(fi) \in Nat /\ Len(fd) \in Nat /\ Len(i1) \in Nat /\ Len(d1) \in Nat
        OBVIOUS
    <2>2. Len(i1) = Larger(Len(fi), n) /\ Len(d1) = Larger(Len(fd), l)
        BY <1>0, <1>3, <1>4 DEF Overwritten
    <2>3. QED
        BY <2>1, <2>2 DEF Larger
<1>6. PICK i2 \in Seq(Nat) : /\ i2 = SubSeq(i1, 1, n) /\ Len(i2) = n
                             /\ \A j \in 1..n : i2[j] = i1[j]
    <2>1. /\ SubSeq(i1, 1, n) \in Seq(Nat) /\ Len(SubSeq(i1, 1, n)) = n
          /\ \A j \in 1..n : SubSeq(i1, 1, n)[j] = i1[j]
        BY <1>5, FirstFacts
    <2>2. QED
        BY <2>1
<1>7. PICK d2 \in Seq(Cell) : /\ d2 = SubSeq(d1, 1, l) /\ Len(d2) = l
                              /\ \A j \in 1..l : d2[j] = d1[j]
    <2>1. /\ SubSeq(d1, 1, l) \in Seq(Cell) /\ Len(SubSeq(d1, 1, l)) = l
          /\ \A j \in 1..l : SubSeq(d1, 1, l)[j] = d1[j]
        BY <1>5, FirstFacts
    <2>2. QED
        BY <2>1
<1>8. PICK f1 \in Files, f2 \in Files, f3 \in Files, f4 \in Files :
          /\ f1 = IF early THEN [d EXCEPT !.data = d1] ELSE [d EXCEPT !.idx = i1]
          /\ f2 = [d EXCEPT !.idx = i1, !.data = d1]
          /\ f3 = [d EXCEPT !.idx = i2, !.data = d1]
          /\ f4 = [d EXCEPT !.idx = i2, !.data = d2]
    <2>1. /\ [d EXCEPT !.idx = i1] \in Files /\ [d EXCEPT !.data = d1] \in Files
          /\ [d EXCEPT !.idx = i1, !.data = d1] \in Files
          /\ [d EXCEPT !.idx = i2, !.data = d1] \in Files
          /\ [d EXCEPT !.idx = i2, !.data = d2] \in Files
        BY DEF Files
    <2>2. QED
        BY <2>1
<1>9. /\ \/ f1.idx = i1 /\ f1.data = fd
         \/ f1.idx = fi /\ f1.data = d1
      /\ f2.idx = i1 /\ f2.data = d1
      /\ f3.idx = i2 /\ f3.data = d1 /\ f4.idx = i2 /\ f4.data = d2
    BY <1>2, <1>8 DEF Files
<1>10. n > k /\ l >= pos /\ i1[k + 1] = widx[1]
    <2>1. n > k /\ l >= pos /\ 1 \in 1..Len(widx)
        BY <1>0, SMTT(30)
    <2>2. QED
        BY <1>3, <2>1 DEF Overwritten
<1>11. /\ \A j \in 1..k : i1[j] = fi[j]
       /\ \A j \in 1..Len(widx) : i1[k + j] = widx[j]
       /\ \A j \in 1..pos : d1[j] = fd[j]
       /\ \A j \in 1..Len(wdata) : d1[pos + j] = wdata[j]
    BY <1>3, <1>4 DEF Overwritten
<1>12. /\ \A j \in 1..k : i2[j] = fi[j]
       /\ \A j \in 1..Len(widx) : i2[k + j] = widx[j]
       /\ \A j \in 1..pos : d2[j] = fd[j]
       /\ \A j \in 1..Len(wdata) : d2[pos + j] = wdata[j]
       /\ i2[k + 1] = widx[1]
    <2>1. ASSUME NEW j \in 1..k PROVE i2[j] = fi[j]
        <3>1. j \in 1..n
            BY <1>10
        <3>2. QED
            BY <1>6, <1>11, <3>1
    <2>2. ASSUME NEW j \in 1..Len(widx) PROVE i2[k + j] = widx[j]
        <3>1. k + j \in 1..n
            BY <1>0
        <3>2. QED
            BY <1>6, <1>11, <3>1
    <2>3. ASSUME NEW j \in 1..pos PROVE d2[j] = fd[j]
        <3>1. j \in 1..l
            BY <1>10
        <3>2. QED
            BY <1>7, <1>11, <3>1
    <2>4. ASSUME NEW j \in 1..Len(wdata) PROVE d2[pos + j] = wdata[j]
        <3>1. pos + j \in 1..l
            BY <1>0
        <3>2. QED
            BY <1>7, <1>11, <3>1
    <2>5. i2[k + 1] = widx[1]
        <3>1. 1 \in 1..Len(widx)
            OBVIOUS
        <3>2. QED
            BY <2>2, <3>1
    <2>6. QED
        BY <2>1, <2>2, <2>3, <2>4, <2>5
<1>13. /\ Written(d, f1, k, pos) /\ Written(d, f2, k, pos)
       /\ Written(d, f3, k, pos) /\ Written(d, f4, k, pos)
    <2>1. /\ Len(i1) >= k /\ Len(i2) >= k /\ Len(fd) >= pos /\ Len(d1) >= pos
          /\ Len(d2) >= pos /\ Len(fi) >= k
        <3>0. n > k /\ l >= pos
            BY <1>10
        <3>1. Len(i1) >= k /\ Len(d1) >= pos
            <4>1. Len(i1) > k
                BY <1>5, <3>0, NatOrder
            <4>2. Len(d1) >= pos
                BY <1>5, <3>0, NatOrder
            <4>3. QED
                BY <4>1, <4>2
        <3>2. Len(i2) >= k /\ Len(d2) >= pos
            BY <1>6, <1>7, <3>0
        <3>3. Len(fd) >= pos /\ Len(fi) >= k
            OBVIOUS
        <3>4. QED
            BY <3>1, <3>2, <3>3
    <2>2. /\ i1[k + 1] = pos /\ i2[k + 1] = pos
          /\ Len(fi) > k => fi[k + 1] = pos
        BY <1>2, <1>10, <1>12
    <2>3. Written(d, f1, k, pos)
        <3>1. CASE f1.idx = i1 /\ f1.data = fd
            BY <1>2, <1>11, <2>1, <2>2, <3>1 DEF Written
        <3>2. CASE f1.idx = fi /\ f1.data = d1
            BY <1>2, <1>11, <2>1, <2>2, <3>2 DEF Written
        <3>3. QED
            BY <1>9, <3>1, <3>2
    <2>4. Written(d, f2, k, pos)
        BY <1>2, <1>9, <1>11, <2>1, <2>2 DEF Written
    <2>5. Written(d, f3, k, pos)
        BY <1>2, <1>9, <1>11, <1>12, <2>1, <2>2 DEF Written
    <2>6. Written(d, f4, k, pos)
        BY <1>2, <1>9, <1>12, <2>1, <2>2 DEF Written
    <2>7. QED
        BY <2>3, <2>4, <2>5, <2>6
<1> DEFINE st == Splice(d, k, pos, widx, wdata, early)
<1>14. CASE n < Len(i1)
    <2>1. st = <<f1, f2>> \o <<f3, f4>>
        BY <1>0, <1>2, <1>3, <1>4, <1>6, <1>7, <1>8, <1>14 DEF Splice
    <2>2. /\ st \in Seq(Files) /\ Len(st) = 4
          /\ st[1] = f1 /\ st[2] = f2 /\ st[3] = f3 /\ st[4] = f4
        BY <2>1
    <2>3. Spliced(d, f4, k, pos, widx, wdata)
        <3>1. Len(f4.idx) = k + Len(widx) /\ Len(f4.data) = pos + Len(wdata)
            BY <1>0, <1>6, <1>7, <1>9
        <3>2. Len(f4.data) >= pos + Len(wdata)
            BY <1>0, <1>7, <1>9
        <3>3. QED
            BY <1>2, <1>9, <1>12, <3>1, <3>2 DEF Spliced
    <2>4. QED
        BY <1>13, <2>2, <2>3
<1>15. CASE ~(n < Len(i1))
    <2>1. st = <<f1, f2>> \o <<>>
        BY <1>0, <1>2, <1>3, <1>4, <1>6, <1>7, <1>8, <1>15 DEF Splice
    <2>2. st \in Seq(Files) /\ Len(st) = 2 /\ st[1] = f1 /\ st[2] = f2
        BY <2>1
    <2>3. Len(i1) = n /\ Len(d.idx) <= n
        BY <1>0, <1>2, <1>3, <1>5, <1>15, SMTT(30) DEF Larger, Overwritten
    <2>4. Len(d1) = l \/ Len(d.data) > l
        BY <1>0, <1>2, <1>4 DEF Larger, Overwritten
    <2>5. Spliced(d, f2, k, pos, widx, wdata)
        BY <1>0, <1>2, <1>5, <1>9, <1>11, <2>3, <2>4 DEF Spliced
    <2>6. QED
        BY <1>13, <2>2, <2>5
<1>16. QED
    BY <1>14, <1>15

\* Entries end inside the data file, one after the other.
LEMMA EndFacts ==
    ASSUME NEW f \in Files, Layout(f), NEW k \in 0..Len(f.idx)
    PROVE  /\ EndOf(f, k) \in Nat /\ EndOf(f, k) <= Len(f.data)
           /\ \A j \in 1..k : f.idx[j] < EndOf(f, k)
           /\ k = 0 => EndOf(f, k) = 0
<1>1. PICK fi \in Seq(Nat), fd \in Seq(Cell) : fi = f.idx /\ fd = f.data
    BY DEF Files
<1>2. Len(fi) \in Nat /\ Len(fd) \in Nat /\ k \in 0..Len(fi)
    BY <1>1
<1>3. CASE k < Len(fi)
    <2>1. k + 1 \in 1..Len(fi) /\ EndOf(f, k) = fi[k + 1] /\ fi[k + 1] \in Nat
        BY <1>1, <1>2, <1>3 DEF EndOf
    <2>2. fi[k + 1] < Len(fd)
        BY <1>1, <2>1 DEF Layout
    <2>3. ASSUME NEW j \in 1..k PROVE fi[j] < fi[k + 1]
        <3>1. j \in 1..Len(fi) /\ j < k + 1
            BY <1>2
        <3>2. QED
            BY <1>1, <2>1, <3>1 DEF Layout
    <2>4. k = 0 => fi[k + 1] = 0
        BY <1>1, <1>2, <1>3 DEF Layout
    <2>5. QED
        BY <1>1, <1>2, <2>1, <2>2, <2>3, <2>4
<1>4. CASE k = Len(fi)
    <2>1. EndOf(f, k) = Len(fd)
        BY <1>1, <1>2, <1>4 DEF EndOf
    <2>2. \A j \in 1..k : fi[j] < Len(fd)
        BY <1>1, <1>4 DEF Layout
    <2>3. k = 0 => Len(fd) = 0
        BY <1>1, <1>4 DEF Layout
    <2>4. QED
        BY <1>1, <1>2, <2>1, <2>2, <2>3
<1>5. QED
    BY <1>2, <1>3, <1>4

\* Index cells and data that may be written at data position pos.
Segment(pos, widx, wdata) ==
    /\ Len(widx) > 0 /\ widx[1] = pos
    /\ \A j \in 1..Len(widx) : widx[j] < pos + Len(wdata)
    /\ \A i, j \in 1..Len(widx) : i < j => widx[i] < widx[j]

\* Splicing keeps files laid out, and the entries before.
LEMMA SplicedLayout ==
    ASSUME NEW f \in Files, Layout(f), NEW k \in 0..Len(f.idx),
           NEW pos \in Nat, pos = EndOf(f, k),
           NEW widx \in Seq(Nat), NEW wdata \in Seq(Cell),
           Segment(pos, widx, wdata),
           NEW g \in Files, Spliced(f, g, k, pos, widx, wdata)
    PROVE  Layout(g) /\ Holds(g, f, k, pos)
<1>1. PICK fi \in Seq(Nat), fd \in Seq(Cell), gi \in Seq(Nat), gd \in Seq(Cell) :
          fi = f.idx /\ fd = f.data /\ gi = g.idx /\ gd = g.data
    BY DEF Files
<1>2. /\ Len(fi) \in Nat /\ Len(gi) \in Nat /\ Len(gd) \in Nat
      /\ Len(widx) \in Nat /\ Len(wdata) \in Nat /\ k \in Nat /\ k <= Len(fi)
      /\ Len(gi) = k + Len(widx) /\ Len(widx) > 0
      /\ Len(gd) >= pos + Len(wdata)
    <2>1. Len(fi) \in Nat /\ Len(gi) \in Nat /\ Len(gd) \in Nat
        BY <1>1
    <2>2. Len(widx) \in Nat /\ Len(wdata) \in Nat
        OBVIOUS
    <2>3. k \in Nat /\ k <= Len(fi)
        BY <1>1, <2>1
    <2>4. Len(gi) = k + Len(widx) /\ Len(gd) >= pos + Len(wdata)
        BY <1>1 DEF Spliced
    <2>5. Len(widx) > 0
        BY DEF Segment
    <2>6. QED
        BY <2>1, <2>2, <2>3, <2>4, <2>5
<1>3. ASSUME NEW j \in 1..k PROVE gi[j] = fi[j] /\ fi[j] < pos /\ fi[j] \in Nat
    <2>1. fi[j] \in Nat
        <3>1. j \in 1..Len(fi)
            BY <1>2
        <3>2. QED
            BY <1>1, <3>1
    <2>2. QED
        BY <1>1, <2>1, EndFacts DEF Spliced
<1>4. ASSUME NEW j \in (k + 1)..Len(gi)
      PROVE  /\ j - k \in 1..Len(widx) /\ gi[j] = widx[j - k] /\ gi[j] \in Nat
             /\ gi[j] < pos + Len(wdata) /\ pos <= gi[j]
    <2>1. j - k \in 1..Len(widx) /\ k + (j - k) = j
        BY <1>2
    <2>2. gi[j] = widx[j - k] /\ widx[j - k] \in Nat
        <3>1. gi[k + (j - k)] = widx[j - k]
            BY <1>1, <2>1 DEF Spliced
        <3>2. widx[j - k] \in Nat
            BY <2>1, ElementOfSeq, Zenon
        <3>3. gi[k + (j - k)] = gi[j]
            BY <2>1, Zenon
        <3>4. QED
            BY <3>1, <3>2, <3>3, Zenon
    <2>3. widx[j - k] < pos + Len(wdata)
        BY <2>1 DEF Segment
    <2>4. CASE j - k = 1
        BY <2>1, <2>2, <2>3, <2>4, SMTT(30) DEF Segment
    <2>5. CASE j - k > 1
        <3>1. 1 \in 1..Len(widx)
            BY <1>2
        <3>2. pos < widx[j - k]
            BY <2>1, <2>5, <3>1 DEF Segment
        <3>3. pos <= gi[j]
            BY <2>2, <3>2, SMTT(30)
        <3>4. QED
            BY <2>1, <2>2, <2>3, <3>3
    <2>6. QED
        BY <2>1, <2>4, <2>5
<1>5. \A j \in 1..Len(gi) : gi[j] < Len(gd)
    <2> SUFFICES ASSUME NEW j \in 1..Len(gi) PROVE gi[j] < Len(gd)
        OBVIOUS
    <2>1. CASE j <= k
        <3>1. j \in 1..k
            BY <1>2, <2>1
        <3>2. gi[j] \in Nat /\ gi[j] < pos
            BY <1>3, <3>1
        <3>3. QED
            BY <1>2, <3>2
    <2>2. CASE j > k
        <3>1. j \in (k + 1)..Len(gi)
            BY <1>2, <2>2
        <3>2. QED
            BY <1>2, <1>4, <3>1, SMTT(30)
    <2>3. QED
        BY <1>2, <2>1, <2>2
<1>6. \A i, j \in 1..Len(gi) : i < j => gi[i] < gi[j]
    <2> SUFFICES ASSUME NEW i \in 1..Len(gi), NEW j \in 1..Len(gi), i < j
                 PROVE  gi[i] < gi[j]
        OBVIOUS
    <2>1. CASE j <= k
        <3>1. i \in 1..k /\ j \in 1..k
            BY <1>2, <2>1
        <3>2. i \in 1..Len(fi) /\ j \in 1..Len(fi)
            <4>1. k <= Len(fi) /\ Len(fi) \in Nat /\ k \in Nat
                BY <1>2
            <4>2. ASSUME NEW n \in 1..k PROVE n \in 1..Len(fi)
                BY <4>1
            <4>3. QED
                BY <3>1, <4>2
        <3>3. fi[i] < fi[j]
            BY <1>1, <3>2 DEF Layout
        <3>4. QED
            BY <1>3, <3>1, <3>3
    <2>2. CASE i <= k /\ j > k
        <3>1. i \in 1..k /\ j \in (k + 1)..Len(gi)
            BY <1>2, <2>2
        <3>2. gi[i] \in Nat /\ gi[i] < pos
            BY <1>3, <3>1
        <3>3. gi[j] \in Nat /\ pos <= gi[j]
            BY <1>4, <3>1
        <3>4. QED
            BY <3>2, <3>3, SMTT(30)
    <2>3. CASE i > k
        <3>1. i \in (k + 1)..Len(gi) /\ j \in (k + 1)..Len(gi) /\ i - k < j - k
            BY <1>2, <2>3
        <3>2. widx[i - k] < widx[j - k]
            BY <1>4, <3>1 DEF Segment
        <3>3. QED
            BY <1>4, <3>1, <3>2
    <2>4. QED
        BY <1>2, <2>1, <2>2, <2>3
<1>7. gi[1] = 0
    <2>1. CASE k = 0
        <3>1. 1 \in (k + 1)..Len(gi) /\ 1 - k = 1
            BY <1>2, <2>1
        <3>2. QED
            BY <1>4, <2>1, <3>1, EndFacts DEF Segment
    <2>2. CASE k > 0
        <3>1. 1 \in 1..k /\ Len(fi) > 0
            BY <1>2, <2>2
        <3>2. QED
            BY <1>1, <1>3, <3>1 DEF Layout
    <2>3. QED
        BY <1>2, <2>1, <2>2
<1>8. Layout(g)
    <2>1. Len(gi) > 0
        BY <1>2
    <2>2. QED
        BY <1>1, <1>5, <1>6, <1>7, <2>1 DEF Layout
<1>9. EndOf(g, k) = pos
    <2>1. k < Len(gi) /\ k + 1 \in (k + 1)..Len(gi) /\ k + 1 - k = 1
        BY <1>2, SMTT(30)
    <2>2. QED
        BY <1>1, <1>4, <2>1 DEF EndOf, Segment
<1>10. Holds(g, f, k, pos)
    BY <1>1, <1>2, <1>9, SMTT(30) DEF Holds, Spliced
<1>11. QED
    BY <1>8, <1>10

\* The i-th of the written entries goes from a to b.
NewAt(pos, widx, wdata, i, a, b) ==
    /\ i \in 1..Len(widx) /\ a \in Nat /\ b \in Nat
    /\ a = widx[i]
    /\ b = IF i < Len(widx) THEN widx[i + 1] ELSE pos + Len(wdata)
\* Splicing laid out files with nothing left behind what was written.
CleanSplice(f, g, k, pos, widx, wdata) ==
    /\ f \in Files /\ g \in Files /\ Layout(g) /\ k \in Nat /\ pos \in Nat
    /\ widx \in Seq(Nat) /\ wdata \in Seq(Cell) /\ Segment(pos, widx, wdata)
    /\ Spliced(f, g, k, pos, widx, wdata)
    /\ Len(g.data) = pos + Len(wdata)
\* The data from a to b, in a file in which wdata starts at pos, are t from q
\* to r.
Copied(pos, wdata, a, b, t, q, r) ==
    /\ t \in Seq(Cell) /\ q \in Nat /\ r \in Nat
    /\ r = q + (b - a) /\ r <= Len(t)
    /\ \A c \in 1..(b - a) : wdata[(a - pos) + c] = t[q + c]

\* The entries that were written are what the new data say.
LEMMA SplicedEntry ==
    \A f, g, k, pos, widx, wdata, i, a, b, t, q, r :
        /\ CleanSplice(f, g, k, pos, widx, wdata)
        /\ NewAt(pos, widx, wdata, i, a, b)
        /\ Copied(pos, wdata, a, b, t, q, r)
        => FillEntry(g, k + i) = Part(t, q, r)
<1> SUFFICES ASSUME NEW f, NEW g, NEW k, NEW pos, NEW widx, NEW wdata,
                    NEW i, NEW a, NEW b, NEW t, NEW q, NEW r,
                    CleanSplice(f, g, k, pos, widx, wdata),
                    NewAt(pos, widx, wdata, i, a, b),
                    Copied(pos, wdata, a, b, t, q, r)
             PROVE  FillEntry(g, k + i) = Part(t, q, r)
    OBVIOUS
<1> /\ f \in Files /\ g \in Files /\ Layout(g) /\ k \in Nat /\ pos \in Nat
    /\ widx \in Seq(Nat) /\ wdata \in Seq(Cell) /\ Segment(pos, widx, wdata)
    /\ Spliced(f, g, k, pos, widx, wdata)
    /\ i \in 1..Len(widx) /\ a \in Nat /\ b \in Nat
    /\ t \in Seq(Cell) /\ q \in Nat /\ r \in Nat
    BY DEF CleanSplice, NewAt, Copied
<1>1. PICK gi \in Seq(Nat), gd \in Seq(Cell) : gi = g.idx /\ gd = g.data
    BY DEF Files
<1>2. /\ Len(gi) \in Nat /\ Len(gd) \in Nat /\ Len(widx) \in Nat
      /\ Len(wdata) \in Nat /\ Len(t) \in Nat /\ i \in Nat /\ 1 <= i /\ i <= Len(widx)
    OBVIOUS
<1>3. Len(gi) = k + Len(widx) /\ Len(gd) = pos + Len(wdata)
    BY <1>1 DEF Spliced, CleanSplice
<1>4. PICK n \in 1..Len(gi) : n = k + i
    <2>1. k + i \in 1..Len(gi)
        BY <1>2, <1>3
    <2>2. QED
        BY <2>1
<1>5. gi[n] = a
    BY <1>1, <1>4 DEF Spliced, NewAt
<1>6. EndOf(g, n) = b
    <2>1. CASE i < Len(widx)
        <3>1. n < Len(gi) /\ i + 1 \in 1..Len(widx) /\ n + 1 = k + (i + 1)
            <4>1. i + 1 \in 1..Len(widx)
                BY <1>2, <2>1
            <4>2. k + i < Len(gi) /\ k + i + 1 = k + (i + 1)
                BY <1>2, <1>3, <2>1
            <4>3. QED
                BY <1>4, <4>1, <4>2
        <3>2. gi[k + (i + 1)] = widx[i + 1]
            BY <1>1, <3>1 DEF Spliced
        <3>3. gi[n + 1] = b
            BY <2>1, <3>1, <3>2 DEF NewAt
        <3>4. QED
            BY <1>1, <3>1, <3>3 DEF EndOf
    <2>2. CASE ~(i < Len(widx))
        <3>1. ~(n < Len(gi)) /\ b = Len(gd)
            BY <1>2, <1>3, <1>4, <2>2 DEF NewAt
        <3>2. QED
            BY <1>1, <3>1 DEF EndOf
    <2>3. QED
        BY <2>1, <2>2
<1>7. /\ a < b /\ b <= Len(gd) /\ FillEntry(g, n) = Part(gd, a, b)
    BY <1>1, <1>5, <1>6, EntryFacts
<1>8. pos <= a
    <2>1. CASE i = 1
        <3>1. a = pos
            BY <2>1 DEF Segment, NewAt
        <3>2. QED
            BY <3>1
    <2>2. CASE i # 1
        <3>1. 1 \in 1..Len(widx) /\ 1 < i
            BY <1>2, <2>2
        <3>2. widx[1] < widx[i] /\ widx[1] = pos /\ widx[i] = a
            BY <3>1 DEF Segment, NewAt
        <3>3. QED
            BY <3>2
    <2>3. QED
        BY <2>1, <2>2
<1>9. ASSUME NEW c \in 1..(b - a) PROVE gd[a + c] = t[q + c]
    <2>1. (a - pos) + c \in 1..Len(wdata) /\ pos + ((a - pos) + c) = a + c
        <3>1. c \in Nat /\ 1 <= c /\ a + c <= b
            BY <1>7
        <3>2. b <= pos + Len(wdata)
            BY <1>3, <1>7
        <3>3. (a - pos) + c >= 1 /\ pos + ((a - pos) + c) = a + c
            BY <1>8, <3>1
        <3>4. (a - pos) + c <= Len(wdata)
            BY <1>2, <1>8, <3>1, <3>2
        <3>5. QED
            BY <1>2, <3>1, <3>3, <3>4
    <2>2. gd[pos + ((a - pos) + c)] = wdata[(a - pos) + c]
        BY <1>1, <2>1 DEF Spliced
    <2>3. wdata[(a - pos) + c] = t[q + c]
        BY DEF Copied
    <2>4. QED
        BY <2>1, <2>2, <2>3
<1>10. SamePart(gd, a, b, t, q, r)
    <2>1. r = q + (b - a) /\ r <= Len(t)
        BY DEF Copied
    <2>2. q <= r /\ r - q = b - a /\ a <= b
        BY <1>7, <2>1
    <2>3. QED
        BY <1>7, <1>9, <2>1, <2>2 DEF SamePart
<1>11. Part(gd, a, b) = Part(t, q, r)
    BY <1>10, SlicesEqual
<1>12. QED
    BY <1>4, <1>7, <1>11

\* A serialized entry.
LEMMA CellsFacts ==
    ASSUME NEW e \in Entry
    PROVE  Cells(e) \in Seq(Cell) /\ Len(Cells(e)) = Size[e] /\ Size[e] \in Nat \ {0}
<1>1. Size[e] \in Nat \ {0}
    BY StoreAssumption
<1>2. \A k \in 1..Size[e] : <<e, k>> \in Cell
    BY <1>1 DEF Cell
<1>3. Cells(e) \in [1..Size[e] -> Cell]
    BY <1>2 DEF Cells
<1>4. PICK n \in Nat : n = Size[e] /\ Cells(e) \in [1..n -> Cell]
    BY <1>1, <1>3
<1>5. QED
    BY <1>1, <1>4

\* One entry written as append and write_at do it.
LEMMA OneEntry ==
    ASSUME NEW f \in Files, Layout(f), NEW k \in 0..Len(f.idx),
           NEW pos \in Nat, pos = EndOf(f, k), NEW e \in Entry,
           NEW g \in Files, Spliced(f, g, k, pos, <<pos>>, Cells(e))
    PROVE  /\ Segment(pos, <<pos>>, Cells(e)) /\ Layout(g) /\ Holds(g, f, k, pos)
           /\ Len(g.idx) = k + 1
           /\ Len(g.data) = pos + Size[e] => FillEntry(g, k + 1) = Cells(e)
<1>1. PICK w \in Seq(Nat), t \in Seq(Cell), l \in Nat \ {0} :
          /\ w = <<pos>> /\ t = Cells(e) /\ l = Size[e]
          /\ Len(w) = 1 /\ w[1] = pos /\ Len(t) = l
    <2>1. <<pos>> \in Seq(Nat) /\ Len(<<pos>>) = 1 /\ <<pos>>[1] = pos
        OBVIOUS
    <2>2. Cells(e) \in Seq(Cell) /\ Len(Cells(e)) = Size[e] /\ Size[e] \in Nat \ {0}
        BY CellsFacts
    <2>3. QED
        BY <2>1, <2>2, Zenon
<1>2. Segment(pos, w, t)
    <2>1. \A j \in 1..Len(w) : j = 1
        BY <1>1
    <2>2. QED
        BY <1>1, <2>1 DEF Segment
<1>3. Spliced(f, g, k, pos, w, t)
    BY <1>1
<1>4. Layout(g) /\ Holds(g, f, k, pos)
    BY <1>2, <1>3, SplicedLayout
<1>5. Len(g.idx) = k + 1
    BY <1>1, <1>3 DEF Spliced
<1>6. ASSUME Len(g.data) = pos + Size[e] PROVE FillEntry(g, k + 1) = Cells(e)
    <2>1. PICK b \in Nat, o \in Nat, i \in 1..Len(w), kk \in Nat :
              b = pos + l /\ o = 0 /\ i = 1 /\ kk = k
        BY <1>1
    <2>2. NewAt(pos, w, t, i, pos, b)
        BY <1>1, <2>1 DEF NewAt
    <2>3. Copied(pos, t, pos, b, t, o, l)
        BY <1>1, <2>1 DEF Copied
    <2>4. FillEntry(g, kk + i) = Part(t, o, l)
        <3>1. CleanSplice(f, g, kk, pos, w, t)
            BY <1>1, <1>2, <1>3, <1>4, <1>6, <2>1 DEF CleanSplice
        <3>2. QED
            BY <2>2, <2>3, <3>1, SplicedEntry
    <2>5. SubSeq(t, 1, l) = t
        BY <1>1
    <2>6. QED
        <3>1. o + 1 = 1 /\ kk + i = k + 1
            BY <2>1
        <3>2. QED
            BY <1>1, <2>4, <2>5, <3>1 DEF Part
<1>7. QED
    BY <1>1, <1>2, <1>4, <1>5, <1>6

\* Files that hold the entries after the off-th of f, up to the end-th.
Packed(f, off, end, widx, wdata) ==
    /\ f \in Files /\ Layout(f) /\ off \in Nat /\ end \in Nat
    /\ off < end /\ end <= Len(f.idx)
    /\ widx = Part(f.idx, off, end)
    /\ wdata = Part(f.data, EndOf(f, off), EndOf(f, end))

\* A pack may be written at the data position its first entry had.
LEMMA PackSegment ==
    ASSUME NEW f, NEW off, NEW end, NEW widx, NEW wdata,
           Packed(f, off, end, widx, wdata)
    PROVE  /\ widx \in Seq(Nat) /\ wdata \in Seq(Cell) /\ Len(widx) = end - off
           /\ EndOf(f, off) = widx[1]
           /\ \A i \in 1..(end - off) : widx[i] = f.idx[off + i]
           /\ Len(wdata) = EndOf(f, end) - EndOf(f, off)
           /\ \A c \in 1..Len(wdata) : wdata[c] = f.data[EndOf(f, off) + c]
           /\ EndOf(f, off) \in Nat /\ EndOf(f, end) \in Nat
           /\ Segment(EndOf(f, off), widx, wdata)
<1>0. /\ f \in Files /\ Layout(f) /\ off \in Nat /\ end \in Nat
      /\ off < end /\ end <= Len(f.idx)
      /\ widx = Part(f.idx, off, end)
      /\ wdata = Part(f.data, EndOf(f, off), EndOf(f, end))
    BY DEF Packed
<1>1. PICK fi \in Seq(Nat), fd \in Seq(Cell) : fi = f.idx /\ fd = f.data
    BY <1>0 DEF Files
<1>2. /\ off \in 0..Len(f.idx) /\ end \in 0..Len(f.idx) /\ off + 1 \in 1..Len(fi)
      /\ off + 1 \in 1..end
    BY <1>0, <1>1
<1>3. PICK p \in Nat, r \in Nat : p = EndOf(f, off) /\ r = EndOf(f, end)
    BY <1>0, <1>2, EndFacts
<1>4. p = fi[off + 1] /\ p < r /\ r <= Len(fd)
    <2>1. EndOf(f, off) = f.idx[off + 1]
        BY <1>0, <1>1 DEF EndOf
    <2>2. f.idx[off + 1] < EndOf(f, end) /\ EndOf(f, end) <= Len(f.data)
        BY <1>0, <1>2, EndFacts
    <2>3. QED
        BY <1>1, <1>3, <2>1, <2>2
<1>5. /\ widx \in Seq(Nat) /\ Len(widx) = end - off
      /\ \A i \in 1..(end - off) : widx[i] = fi[off + i]
    <2>1. widx = SubSeq(fi, off + 1, end) /\ off <= end /\ end <= Len(fi)
        BY <1>0, <1>1 DEF Part
    <2>2. /\ SubSeq(fi, off + 1, end) \in Seq(Nat)
          /\ Len(SubSeq(fi, off + 1, end)) = end - off
          /\ \A i \in 1..(end - off) : SubSeq(fi, off + 1, end)[i] = fi[off + i]
        BY <1>0, <2>1, SliceFacts
    <2>3. QED
        BY <2>1, <2>2
<1>6. /\ wdata \in Seq(Cell) /\ Len(wdata) = r - p
      /\ \A c \in 1..(r - p) : wdata[c] = fd[p + c]
    <2>1. wdata = SubSeq(fd, p + 1, r) /\ p <= r /\ r <= Len(fd)
        BY <1>0, <1>1, <1>3, <1>4, SMTT(30) DEF Part
    <2>2. /\ SubSeq(fd, p + 1, r) \in Seq(Cell)
          /\ Len(SubSeq(fd, p + 1, r)) = r - p
          /\ \A c \in 1..(r - p) : SubSeq(fd, p + 1, r)[c] = fd[p + c]
        BY <2>1, SliceFacts
    <2>3. QED
        BY <2>1, <2>2
<1>7. ASSUME NEW i \in 1..(end - off)
      PROVE  /\ off + i \in 1..end /\ off + i \in 1..Len(f.idx)
             /\ widx[i] = f.idx[off + i] /\ f.idx[off + i] < r
    <2>1. off + i \in 1..end /\ off + i \in 1..Len(f.idx)
        BY <1>0, <1>1
    <2>2. f.idx[off + i] < EndOf(f, end)
        BY <1>0, <1>2, <2>1, EndFacts
    <2>3. QED
        BY <1>1, <1>3, <1>5, <2>1, <2>2
<1>8. ASSUME NEW i \in 1..(end - off), NEW j \in 1..(end - off), i < j
      PROVE  widx[i] < widx[j]
    <2>1. off + i < off + j
        BY <1>0, <1>8
    <2>2. f.idx[off + i] < f.idx[off + j]
        BY <1>0, <1>7, <2>1 DEF Layout
    <2>3. QED
        BY <1>7, <2>2
<1>9. widx[1] = p
    <2>1. 1 \in 1..(end - off)
        BY <1>0
    <2>2. QED
        BY <1>4, <1>5, <2>1
<1>10. Segment(p, widx, wdata)
    <2>1. Len(widx) = end - off /\ Len(widx) > 0 /\ p + Len(wdata) = r
        BY <1>0, <1>4, <1>5, <1>6
    <2>2. \A j \in 1..Len(widx) : widx[j] < p + Len(wdata)
        BY <1>7, <2>1
    <2>3. \A i, j \in 1..Len(widx) : i < j => widx[i] < widx[j]
        BY <1>8, <2>1
    <2>4. QED
        BY <1>9, <2>1, <2>2, <2>3 DEF Segment
<1>11. QED
    BY <1>1, <1>3, <1>5, <1>6, <1>9, <1>10

\* Writing a pack copies the packed entries.
LEMMA PackCopied ==
    ASSUME NEW f, NEW off, NEW end, NEW widx, NEW wdata,
           Packed(f, off, end, widx, wdata),
           NEW d, NEW g, NEW k,
           CleanSplice(d, g, k, EndOf(f, off), widx, wdata),
           NEW i \in 1..(end - off)
    PROVE  FillEntry(g, k + i) = FillEntry(f, off + i)
<1>0. /\ f \in Files /\ Layout(f) /\ off \in Nat /\ end \in Nat
      /\ off < end /\ end <= Len(f.idx)
    BY DEF Packed
<1>1. PICK fi \in Seq(Nat), fd \in Seq(Cell) : fi = f.idx /\ fd = f.data
    BY <1>0 DEF Files
<1>2. PICK p \in Nat, r \in Nat :
          /\ p = EndOf(f, off) /\ r = EndOf(f, end)
          /\ Len(wdata) = r - p /\ \A c \in 1..(r - p) : wdata[c] = fd[p + c]
    <2>1. /\ EndOf(f, off) \in Nat /\ EndOf(f, end) \in Nat
          /\ Len(wdata) = EndOf(f, end) - EndOf(f, off)
          /\ \A c \in 1..Len(wdata) : wdata[c] = f.data[EndOf(f, off) + c]
        BY PackSegment
    <2>2. PICK p \in Nat, r \in Nat : p = EndOf(f, off) /\ r = EndOf(f, end)
        BY <2>1
    <2>3. /\ Len(wdata) = r - p
          /\ \A c \in 1..Len(wdata) : wdata[c] = f.data[p + c]
        BY <2>1, <2>2
    <2>4. \A c \in 1..(r - p) : wdata[c] = fd[p + c]
        BY <1>1, <2>3, Zenon
    <2>5. QED
        BY <2>2, <2>3, <2>4, Zenon
<1>3. Len(widx) = end - off /\ \A j \in 1..(end - off) : widx[j] = fi[off + j]
    BY <1>1, PackSegment
<1>4. PICK n \in 1..Len(f.idx) : n = off + i /\ n \in 1..end
    <2>1. off + i \in 1..Len(f.idx) /\ off + i \in 1..end
        BY <1>0, <1>1
    <2>2. QED
        BY <2>1
<1>5. PICK a \in Nat, b \in Nat :
          /\ a = f.idx[n] /\ b = EndOf(f, n) /\ a < b /\ b <= Len(f.data)
          /\ FillEntry(f, n) = Part(f.data, a, b)
    <2>1. /\ f.idx[n] \in Nat /\ EndOf(f, n) \in Nat
          /\ f.idx[n] < EndOf(f, n) /\ EndOf(f, n) <= Len(f.data)
          /\ FillEntry(f, n) = Part(f.data, f.idx[n], EndOf(f, n))
        BY <1>0, EntryFacts
    <2>2. QED
        BY <2>1
<1>6. b = IF i < Len(widx) THEN widx[i + 1] ELSE p + Len(wdata)
    <2>1. CASE i < Len(widx)
        <3>1. i + 1 \in 1..(end - off) /\ n < Len(fi) /\ off + (i + 1) = n + 1
            BY <1>0, <1>1, <1>3, <1>4, <2>1, SMTT(30)
        <3>2. widx[i + 1] = fi[n + 1]
            <4>1. widx[i + 1] = fi[off + (i + 1)]
                BY <1>3, <3>1, Zenon
            <4>2. QED
                BY <3>1, <4>1, Zenon
        <3>3. QED
            BY <1>1, <1>5, <2>1, <3>1, <3>2 DEF EndOf
    <2>2. CASE ~(i < Len(widx))
        <3>1. n = end /\ p + Len(wdata) = r
            BY <1>0, <1>2, <1>3, <1>4, <2>2
        <3>2. QED
            BY <1>2, <1>5, <2>2, <3>1
    <2>3. QED
        BY <2>1, <2>2
<1>7. NewAt(p, widx, wdata, i, a, b)
    <2>1. a = widx[i]
        BY <1>1, <1>3, <1>4, <1>5
    <2>2. QED
        BY <1>3, <1>5, <1>6, <2>1 DEF NewAt
<1>8. p <= a /\ b <= r
    <2>1. n \in 1..Len(fi) /\ off + 1 \in 1..Len(fi) /\ EndOf(f, off) = fi[off + 1]
        BY <1>0, <1>1, <1>4 DEF EndOf
    <2>2. p <= a
        <3>1. CASE n = off + 1
            BY <1>1, <1>2, <1>5, <2>1, <3>1
        <3>2. CASE n # off + 1
            <4>1. off + 1 < n
                BY <1>0, <1>4, <3>2
            <4>2. fi[off + 1] < fi[n]
                BY <1>0, <1>1, <2>1, <4>1 DEF Layout
            <4>3. fi[off + 1] = p /\ fi[n] = a
                BY <1>1, <1>2, <1>5, <2>1
            <4>4. QED
                BY <4>2, <4>3
        <3>3. QED
            BY <3>1, <3>2
    <2>3. b <= r
        <3>1. CASE n = end
            BY <1>2, <1>5, <3>1
        <3>2. CASE n # end
            <4>1. n + 1 \in 1..end /\ n < Len(f.idx) /\ end \in 0..Len(f.idx)
                BY <1>0, <1>1, <1>4, <3>2
            <4>2. f.idx[n + 1] < EndOf(f, end)
                BY <1>0, <4>1, EndFacts
            <4>3. b = f.idx[n + 1]
                BY <1>5, <4>1 DEF EndOf
            <4>4. b < r
                BY <1>2, <4>2, <4>3
            <4>5. QED
                BY <1>2, <1>5, <4>4
        <3>3. QED
            BY <3>1, <3>2
    <2>4. QED
        BY <2>2, <2>3
<1>9. Copied(p, wdata, a, b, fd, a, b)
    <2>1. ASSUME NEW c \in 1..(b - a) PROVE wdata[(a - p) + c] = fd[a + c]
        <3>1. (a - p) + c \in 1..(r - p) /\ p + ((a - p) + c) = a + c
            <4>1. a - p \in Nat /\ c \in Nat /\ 1 <= c /\ a + c <= b
                BY <1>5, <1>8, SMTT(30)
            <4>2. QED
                BY <1>8, <4>1
        <3>2. QED
            BY <1>2, <3>1
    <2>2. b = a + (b - a) /\ b <= Len(fd)
        BY <1>1, <1>5
    <2>3. QED
        BY <2>1, <2>2 DEF Copied
<1>10. CleanSplice(d, g, k, p, widx, wdata)
    BY <1>2
<1>11. FillEntry(g, k + i) = Part(fd, a, b)
    BY <1>7, <1>9, <1>10, SplicedEntry
<1>12. QED
    BY <1>1, <1>4, <1>5, <1>11

-----------------------------------------------------------------------------
(* The buffer. *)

\* r is b with c pushed.
Pushed(r, b, c) ==
    /\ r.start_idx >= b.start_idx
    /\ LastIdx(r) = LastIdx(b) + 1 /\ Len(r.items) > 0
    /\ \A j \in 1..Len(r.items) :
           /\ r.start_idx + j = LastIdx(b) + 1 => r.items[j] = c
           /\ r.start_idx + j <= LastIdx(b) =>
                  r.items[j] = b.items[(r.start_idx - b.start_idx) + j]

\* Pushing one entry.
LEMMA PushFacts ==
    ASSUME NEW b \in Buffer, NEW c \in Seq(Cell)
    PROVE  PushAll(b, <<c>>) \in Buffer /\ Pushed(PushAll(b, <<c>>), b, c)
<1>1. PICK m \in Nat, x \in Seq(Seq(Cell)) : m = b.start_idx /\ x = b.items
    BY DEF Buffer
<1>2. PICK all \in Seq(Seq(Cell)), n \in Nat :
          /\ all = x \o <<c>> /\ n = Len(x) /\ Len(all) = n + 1
          /\ all[n + 1] = c /\ \A j \in 1..n : all[j] = x[j]
    <2>1. x \o <<c>> \in Seq(Seq(Cell)) /\ Len(x) \in Nat
        OBVIOUS
    <2>2. Len(x \o <<c>>) = Len(x) + 1 /\ (x \o <<c>>)[Len(x) + 1] = c
        OBVIOUS
    <2>3. \A j \in 1..Len(x) : (x \o <<c>>)[j] = x[j]
        OBVIOUS
    <2>4. QED
        BY <2>1, <2>2, <2>3
<1>3. PICK o \in Nat : o = Larger(Len(all) - BufSize, 0) /\ o <= n
    <2>1. BufSize \in Nat /\ BufSize > 0
        BY StoreAssumption
    <2>2. Larger(Len(all) - BufSize, 0) \in Nat /\ Larger(Len(all) - BufSize, 0) <= n
        BY <1>2, <2>1 DEF Larger
    <2>3. QED
        BY <2>2
<1>4. PICK y \in Seq(Seq(Cell)) :
          /\ y = SubSeq(all, o + 1, n + 1) /\ Len(y) = (n + 1) - o
          /\ \A j \in 1..((n + 1) - o) : y[j] = all[o + j]
    <2>1. n + 1 \in Nat /\ o <= n + 1 /\ n + 1 <= Len(all)
        BY <1>2, <1>3
    <2>2. /\ SubSeq(all, o + 1, n + 1) \in Seq(Seq(Cell))
          /\ Len(SubSeq(all, o + 1, n + 1)) = (n + 1) - o
          /\ \A j \in 1..((n + 1) - o) : SubSeq(all, o + 1, n + 1)[j] = all[o + j]
        BY <2>1, SliceFacts
    <2>3. QED
        BY <2>2
<1>5. PICK r : r = PushAll(b, <<c>>)
    OBVIOUS
<1>6. r = [start_idx |-> m + o, items |-> y]
    BY <1>1, <1>2, <1>3, <1>4, <1>5 DEF PushAll
<1>7. r \in Buffer /\ r.start_idx = m + o /\ r.items = y
    <2>1. m + o \in Nat
        OBVIOUS
    <2>2. QED
        BY <1>6, <2>1 DEF Buffer
<1>8. LastIdx(b) = m + n /\ LastIdx(r) = (m + n) + 1
    <2>1. Len(y) \in Nat /\ (m + o) + ((n + 1) - o) = (m + n) + 1
        BY <1>4
    <2>2. LastIdx(b) = m + n
        BY <1>1, <1>2 DEF LastIdx
    <2>3. LastIdx(r) = (m + o) + ((n + 1) - o)
        BY <1>4, <1>7 DEF LastIdx
    <2>4. QED
        BY <2>1, <2>2, <2>3
<1>9. ASSUME NEW j \in 1..Len(y)
      PROVE  /\ (m + o) + j = (m + n) + 1 => y[j] = c
             /\ (m + o) + j <= m + n => y[j] = x[((m + o) - m) + j]
    <2>0. j \in 1..((n + 1) - o)
        BY <1>4
    <2>1. j \in Nat /\ 1 <= j /\ j <= (n + 1) - o /\ y[j] = all[o + j]
        BY <1>4, <2>0
    <2>2. (m + o) + j = (m + n) + 1 => o + j = n + 1
        BY <2>1, SumsEqual
    <2>3. (m + o) + j <= m + n => o + j \in 1..n /\ ((m + o) - m) + j = o + j
        BY <2>1
    <2>4. QED
        BY <1>2, <2>1, <2>2, <2>3
<1>10. Len(y) > 0
    BY <1>3, <1>4
<1>11. Pushed(r, b, c)
    BY <1>1, <1>7, <1>8, <1>9, <1>10 DEF Pushed
<1>12. QED
    BY <1>5, <1>7, <1>11

\* t is b without the entries from index on.
Trimmed(t, b, index) ==
    /\ t.start_idx = b.start_idx /\ LastIdx(t) = index
    /\ Len(t.items) <= Len(b.items)
    /\ \A j \in 1..Len(t.items) : t.items[j] = b.items[j]

\* Trimming the buffer at an index it holds, or at its end.
LEMMA TrimFacts ==
    ASSUME NEW b \in Buffer, NEW index \in Nat
    PROVE  /\ Trim(b, index) \in Buffer
           /\ index >= b.start_idx /\ index <= LastIdx(b) =>
                  Trimmed(Trim(b, index), b, index)
<1>1. PICK m \in Nat, x \in Seq(Seq(Cell)), n \in Nat :
          m = b.start_idx /\ x = b.items /\ n = Len(x)
    <2>1. PICK m \in Nat, x \in Seq(Seq(Cell)) : m = b.start_idx /\ x = b.items
        BY DEF Buffer
    <2>2. Len(x) \in Nat
        OBVIOUS
    <2>3. QED
        BY <2>1, <2>2
<1>2. LastIdx(b) = m + n
    BY <1>1 DEF LastIdx
<1>3. CASE InBuffer(b, index)
    <2>1. index >= m /\ index < m + n
        BY <1>1, <1>2, <1>3 DEF InBuffer
    <2>2. PICK l \in Nat : l = index - m /\ l <= n
        <3>1. index - m \in Nat /\ index - m <= n
            BY <2>1
        <3>2. QED
            BY <3>1
    <2>3. PICK y \in Seq(Seq(Cell)) :
              /\ y = SubSeq(x, 1, l) /\ Len(y) = l /\ \A j \in 1..l : y[j] = x[j]
        <3>1. /\ SubSeq(x, 1, l) \in Seq(Seq(Cell)) /\ Len(SubSeq(x, 1, l)) = l
              /\ \A j \in 1..l : SubSeq(x, 1, l)[j] = x[j]
            BY <1>1, <2>2, FirstFacts
        <3>2. QED
            BY <3>1
    <2>4. PICK t : t = Trim(b, index)
        OBVIOUS
    <2>5. t = [b EXCEPT !.items = y]
        BY <1>1, <1>3, <2>2, <2>3, <2>4 DEF Trim
    <2>6. t \in Buffer /\ t.start_idx = m /\ t.items = y
        BY <1>1, <2>5 DEF Buffer
    <2>7. LastIdx(t) = index
        BY <2>1, <2>2, <2>3, <2>6 DEF LastIdx
    <2>8. Trimmed(t, b, index)
        BY <1>1, <2>2, <2>3, <2>6, <2>7 DEF Trimmed
    <2>9. QED
        BY <2>4, <2>6, <2>8
<1>4. CASE ~InBuffer(b, index)
    <2>1. Trim(b, index) = b
        BY <1>4 DEF Trim
    <2>2. ASSUME index >= b.start_idx, index <= LastIdx(b) PROVE LastIdx(b) = index
        BY <1>1, <1>2, <1>4, <2>2, SMTT(30) DEF InBuffer
    <2>3. QED
        BY <1>1, <2>1, <2>2 DEF Trimmed
<1>5. QED
    BY <1>3, <1>4

\* The buffer b holds the newest entries of files f that start at index start.
Buffered(f, start, b) ==
    /\ b.start_idx >= start
    /\ LastIdx(b) = start + Len(f.idx)
    /\ Len(f.idx) > 0 => Len(b.items) > 0
    /\ \A j \in 1..Len(b.items) :
           b.items[j] = FillEntry(f, (b.start_idx - start) + j)

\* What fill_buffer reads from laid out files.
LEMMA FillFacts ==
    ASSUME NEW f \in Files, Layout(f), NEW start \in Nat
    PROVE  /\ Fillable(f, start, Len(f.idx))
           /\ FillBuffer(f, start, Len(f.idx)) \in Buffer
           /\ Buffered(f, start, FillBuffer(f, start, Len(f.idx)))
<1>1. PICK n \in Nat : n = Len(f.idx)
    BY DEF Files
<1>2. PICK size \in Nat : size = BufSize /\ size > 0
    BY StoreAssumption
<1>3. PICK o \in Nat : /\ FirstBuffered(start, n) = start + o /\ o <= n
                       /\ n - o <= size /\ (n > 0 => o < n)
    <2>1. CASE n > size
        <3>1. PICK o \in Nat : o = n - size
            BY <2>1
        <3>2. FirstBuffered(start, n) = start + o
            BY <1>2, <2>1, <3>1 DEF FirstBuffered
        <3>3. o <= n /\ n - o <= size /\ o < n
            BY <1>2, <2>1, <3>1
        <3>4. QED
            BY <3>2, <3>3
    <2>2. CASE ~(n > size)
        <3>1. FirstBuffered(start, n) = start + 0
            BY <1>2, <2>2 DEF FirstBuffered
        <3>2. QED
            BY <2>2, <3>1
    <2>3. QED
        BY <2>1, <2>2
<1>4. PICK l \in Nat, first \in Nat : l = n - o /\ first = start + o /\ l <= size
    <2>1. n - o \in Nat /\ start + o \in Nat /\ n - o <= size
        BY <1>3
    <2>2. QED
        BY <2>1
<1>5. ASSUME NEW k \in 1..l
      PROVE  /\ FillEntry(f, o + k) \in Seq(Cell) /\ FillEntry(f, o + k) # <<>>
    <2>1. PICK j \in 1..Len(f.idx) : j = o + k
        <3>1. o + k \in 1..n
            BY <1>4
        <3>2. QED
            BY <1>1, <3>1
    <2>2. FillEntry(f, j) \in Seq(Cell) /\ FillEntry(f, j) # <<>>
        BY EntryFacts
    <2>3. QED
        BY <2>1, <2>2
<1>6. Fillable(f, start, n)
    <2> SUFFICES ASSUME NEW k \in (FirstBuffered(start, n) - start + 1)..Len(f.idx)
                 PROVE  FillEntry(f, k) # <<>>
        BY DEF Fillable
    <2>1. k \in (o + 1)..n
        <3>1. FirstBuffered(start, n) - start + 1 = o + 1
            BY <1>3
        <3>2. QED
            BY <1>1, <3>1
    <2>2. PICK j \in 1..l : j = k - o /\ o + j = k
        <3>1. k - o \in 1..l /\ o + (k - o) = k
            BY <1>4, <2>1
        <3>2. QED
            BY <3>1
    <2>3. QED
        BY <1>5, <2>2
<1>7. PICK x : x = [k \in 1..l |-> FillEntry(f, o + k)]
    OBVIOUS
<1>8. x \in Seq(Seq(Cell)) /\ Len(x) = l /\ \A k \in 1..l : x[k] = FillEntry(f, o + k)
    <2>1. x \in [1..l -> Seq(Cell)]
        BY <1>5, <1>7
    <2>2. x \in Seq(Seq(Cell)) /\ Len(x) = l
        BY <2>1
    <2>3. QED
        BY <1>7, <2>2
<1>9. FillBuffer(f, start, n) = [start_idx |-> first, items |-> x]
    <2>1. Len(f.idx) - (first - start) = l /\ first - start = o
        BY <1>1, <1>4
    <2>2. FillBuffer(f, start, n) = PushAll([start_idx |-> first, items |-> <<>>], x)
        BY <1>3, <1>4, <1>7, <2>1 DEF FillBuffer
    <2>3. <<>> \o x = x /\ Larger(Len(x) - BufSize, 0) = 0 /\ SubSeq(x, 0 + 1, Len(x)) = x
        <3>1. <<>> \o x = x
            BY <1>8
        <3>2. Larger(Len(x) - BufSize, 0) = 0
            BY <1>2, <1>4, <1>8 DEF Larger
        <3>3. SubSeq(x, 1, Len(x)) = x
            BY <1>8
        <3>4. QED
            BY <3>1, <3>2, <3>3
    <2>4. first + 0 = first
        OBVIOUS
    <2>5. QED
        BY <2>2, <2>3, <2>4 DEF PushAll
<1>10. PICK b : b = FillBuffer(f, start, n)
    OBVIOUS
<1>11. b \in Buffer /\ b.start_idx = first /\ b.items = x
    BY <1>8, <1>9, <1>10 DEF Buffer
<1>12. Buffered(f, start, b)
    <2>1. first >= start /\ first - start = o /\ first + l = start + n
          /\ (n > 0 => l > 0)
        BY <1>3, <1>4
    <2>2. LastIdx(b) = start + n
        BY <1>8, <1>11, <2>1 DEF LastIdx
    <2>3. QED
        BY <1>1, <1>8, <1>11, <2>1, <2>2 DEF Buffered
<1>13. QED
    BY <1>1, <1>6, <1>10, <1>11, <1>12

\* One entry was written behind the first k: g is f after that.
OneWritten(f, g, k, c) ==
    /\ f \in Files /\ g \in Files /\ Layout(f) /\ Layout(g)
    /\ k \in 0..Len(f.idx) /\ c \in Seq(Cell)
    /\ Holds(g, f, k, EndOf(f, k))
    /\ Len(g.idx) = k + 1 /\ FillEntry(g, k + 1) = c

\* append and write_at keep the buffer in step with the files.
LEMMA BufferAfterWrite ==
    ASSUME NEW f, NEW g, NEW k, NEW c, OneWritten(f, g, k, c),
           NEW start \in Nat, NEW b \in Buffer, Buffered(f, start, b),
           NEW index \in Nat, index = start + k, index >= b.start_idx
    PROVE  /\ PushAll(Trim(b, index), <<c>>) \in Buffer
           /\ Buffered(g, start, PushAll(Trim(b, index), <<c>>))
<1>0. /\ f \in Files /\ g \in Files /\ Layout(f) /\ Layout(g)
      /\ k \in 0..Len(f.idx) /\ c \in Seq(Cell)
      /\ Holds(g, f, k, EndOf(f, k))
      /\ Len(g.idx) = k + 1 /\ FillEntry(g, k + 1) = c
    BY DEF OneWritten
<1>1. PICK n \in Nat : n = Len(f.idx) /\ k \in Nat /\ k <= n
    BY <1>0 DEF Files
<1>2. PICK m \in Nat, x \in Seq(Seq(Cell)) : m = b.start_idx /\ x = b.items
    BY DEF Buffer
<1>3. /\ m >= start /\ LastIdx(b) = start + n
      /\ \A j \in 1..Len(x) : x[j] = FillEntry(f, (m - start) + j)
    BY <1>1, <1>2 DEF Buffered
<1>4. index <= LastIdx(b) /\ index >= m
    BY <1>1, <1>2, <1>3
<1>5. PICK t \in Buffer : t = Trim(b, index) /\ Trimmed(t, b, index)
    BY <1>2, <1>4, TrimFacts
<1>6. PICK y \in Seq(Seq(Cell)) :
          /\ t.start_idx = m /\ y = t.items /\ LastIdx(t) = index
          /\ Len(y) <= Len(x) /\ \A j \in 1..Len(y) : y[j] = x[j]
    BY <1>2, <1>5 DEF Trimmed, Buffer
<1>7. PICK r \in Buffer : r = PushAll(t, <<c>>) /\ Pushed(r, t, c)
    BY <1>0, PushFacts
<1>8. PICK o \in Nat, z \in Seq(Seq(Cell)) : o = r.start_idx /\ z = r.items
    BY DEF Buffer
<1>9. /\ o >= m /\ LastIdx(r) = index + 1 /\ Len(z) > 0
      /\ \A j \in 1..Len(z) :
             /\ o + j = index + 1 => z[j] = c
             /\ o + j <= index => z[j] = y[(o - m) + j]
    BY <1>6, <1>7, <1>8 DEF Pushed
<1>10. o + Len(z) = index + 1 /\ m + Len(y) = index
    BY <1>6, <1>8, <1>9 DEF LastIdx
<1>11. ASSUME NEW j \in 1..Len(z) PROVE z[j] = FillEntry(g, (o - start) + j)
    <2>1. j \in Nat /\ 1 <= j /\ j <= Len(z) /\ Len(z) \in Nat
        OBVIOUS
    <2>2. CASE o + j = index + 1
        <3>1. (o - start) + j = k + 1
            BY <1>1, <2>1, <2>2
        <3>2. QED
            BY <1>0, <1>9, <2>2, <3>1
    <2>3. CASE o + j # index + 1
        <3>0. PICK len \in Nat : len = Len(z)
            BY <2>1
        <3>1. o + j <= index
            <4>1. o + len = index + 1 /\ j <= len
                BY <1>10, <2>1, <3>0
            <4>2. QED
                BY <2>1, <2>3, <4>1, SMTT(30)
        <3>2. PICK i \in Nat : i = (o - m) + j /\ i \in 1..Len(y)
            <4>1. (o - m) + j \in Nat /\ (o - m) + j >= 1
                BY <1>9, <2>1
            <4>2. (o - m) + j <= Len(y)
                BY <1>10, <2>1, <3>1
            <4>3. QED
                BY <4>1, <4>2
        <3>3. PICK p \in Nat : p = (m - start) + i /\ p \in 1..k
            <4>1. (m - start) + i \in Nat /\ (m - start) + i >= 1
                BY <1>3, <3>2
            <4>2. (m - start) + i <= k
                BY <1>1, <1>10, <3>2
            <4>3. QED
                BY <1>1, <4>1, <4>2
        <3>4. (o - start) + j = p
            BY <2>1, <3>2, <3>3
        <3>5. z[j] = x[i] /\ x[i] = FillEntry(f, p)
            <4>1. z[j] = y[i]
                BY <1>9, <3>1, <3>2
            <4>2. y[i] = x[i]
                BY <1>6, <3>2
            <4>3. i \in 1..Len(x)
                BY <1>6, <3>2
            <4>4. QED
                BY <1>3, <3>3, <4>1, <4>2, <4>3
        <3>6. FillEntry(g, p) = FillEntry(f, p)
            BY <1>0, <3>3, HoldsEntries
        <3>7. QED
            BY <3>4, <3>5, <3>6
    <2>4. QED
        BY <2>2, <2>3
<1>12. Buffered(g, start, r)
    <2>1. o >= start /\ index + 1 = start + (k + 1)
        BY <1>1, <1>3, <1>9
    <2>2. QED
        BY <1>0, <1>8, <1>9, <1>11, <2>1 DEF Buffered
<1>13. QED
    BY <1>5, <1>7, <1>12

\* g is f without its first k entries.
Shifted(f, g, k) ==
    /\ f \in Files /\ g \in Files /\ Layout(f)
    /\ k \in Nat /\ k < Len(f.idx)
    /\ g.idx = [j \in 1..(Len(f.idx) - k) |-> f.idx[j + k] - f.idx[k + 1]]
    /\ g.data = SubSeq(f.data, f.idx[k + 1] + 1, Len(f.data))

\* Dropping entries and counting the positions from the first one kept.
LEMMA ShiftedFacts ==
    ASSUME NEW f, NEW g, NEW k, Shifted(f, g, k)
    PROVE  /\ Layout(g) /\ Len(g.idx) = Len(f.idx) - k
           /\ \A j \in 1..(Len(f.idx) - k) : FillEntry(g, j) = FillEntry(f, k + j)
<1>0. /\ f \in Files /\ g \in Files /\ Layout(f) /\ k \in Nat /\ k < Len(f.idx)
    BY DEF Shifted
<1>1. PICK fi \in Seq(Nat), fd \in Seq(Cell), gi \in Seq(Nat), gd \in Seq(Cell) :
          fi = f.idx /\ fd = f.data /\ gi = g.idx /\ gd = g.data
    BY <1>0 DEF Files
<1>2. PICK n \in Nat, l \in Nat : n = Len(fi) /\ l = n - k /\ l > 0
    <2>1. Len(fi) \in Nat /\ Len(fi) - k \in Nat /\ Len(fi) - k > 0
        BY <1>0, <1>1
    <2>2. QED
        BY <2>1
<1>3. k + 1 \in 1..n /\ k + 1 \in 1..Len(f.idx)
    BY <1>0, <1>1, <1>2
<1>4. PICK p \in Nat, w \in Nat : p = fi[k + 1] /\ w = Len(fd) /\ p < w
    <2>1. fi[k + 1] \in Nat /\ Len(fd) \in Nat /\ fi[k + 1] < Len(fd)
        BY <1>0, <1>1, <1>3 DEF Layout
    <2>2. QED
        BY <2>1
<1>5. gi = [j \in 1..l |-> fi[j + k] - p]
    BY <1>1, <1>2, <1>4 DEF Shifted
<1>6. Len(gi) = l
    BY <1>5
<1>7. /\ Len(gd) = w - p /\ \A c \in 1..(w - p) : gd[c] = fd[p + c]
    <2>1. gd = SubSeq(fd, p + 1, w)
        BY <1>1, <1>4 DEF Shifted
    <2>2. /\ Len(SubSeq(fd, p + 1, w)) = w - p
          /\ \A c \in 1..(w - p) : SubSeq(fd, p + 1, w)[c] = fd[p + c]
        <3>1. p <= w /\ w <= Len(fd)
            BY <1>4
        <3>2. QED
            BY <3>1, SliceFacts, SMTT(30)
    <2>3. QED
        BY <2>1, <2>2
<1>8. ASSUME NEW j \in 1..l
      PROVE  /\ j + k \in 1..n /\ fi[j + k] \in Nat /\ fi[j + k] < w
             /\ p <= fi[j + k] /\ gi[j] = fi[j + k] - p
             /\ (j > 1 => p < fi[j + k])
    <2>1. PICK i \in 1..n : i = j + k
        <3>1. j + k \in 1..n
            BY <1>0, <1>2
        <3>2. QED
            BY <3>1
    <2>2. PICK v \in Nat : v = fi[i] /\ v < w
        <3>1. fi[i] \in Nat
            BY <1>2, <2>1
        <3>2. fi[i] < w
            BY <1>0, <1>1, <1>2, <1>4, <2>1 DEF Layout
        <3>3. QED
            BY <3>1, <3>2
    <2>3. gi[j] = fi[j + k] - p
        BY <1>5
    <2>4. p <= v /\ (j > 1 => p < v)
        <3>1. CASE j = 1
            <4>1. v = p
                BY <1>0, <1>4, <2>1, <2>2, <3>1
            <4>2. QED
                BY <3>1, <4>1
        <3>2. CASE j # 1
            <4>1. k + 1 < i
                BY <1>0, <2>1, <3>2
            <4>2. fi[k + 1] < fi[i]
                BY <1>0, <1>1, <1>2, <1>3, <4>1 DEF Layout
            <4>3. p < v
                BY <1>4, <2>2, <4>2
            <4>4. QED
                BY <4>3
        <3>3. QED
            BY <3>1, <3>2
    <2>5. QED
        BY <2>1, <2>2, <2>3, <2>4
<1>9. gi[1] = 0
    <2>1. 1 \in 1..l /\ 1 + k = k + 1
        BY <1>0, <1>2
    <2>2. QED
        BY <1>4, <1>8, <2>1
<1>10. ASSUME NEW j \in 1..l PROVE gi[j] < Len(gd)
    <2>1. PICK v \in Nat : v = fi[j + k] /\ v < w /\ p <= v /\ gi[j] = v - p
        BY <1>8
    <2>2. v - p < w - p
        BY <2>1
    <2>3. QED
        BY <1>7, <2>1, <2>2
<1>11. ASSUME NEW i \in 1..l, NEW j \in 1..l, i < j PROVE gi[i] < gi[j]
    <2>1. i + k < j + k
        BY <1>0, <1>11
    <2>2. fi[i + k] < fi[j + k]
        BY <1>0, <1>1, <1>2, <1>8, <2>1 DEF Layout
    <2>3. PICK u \in Nat, v \in Nat :
              u = fi[i + k] /\ v = fi[j + k] /\ gi[i] = u - p /\ gi[j] = v - p
        BY <1>8
    <2>4. u < v
        BY <2>2, <2>3
    <2>5. u - p < v - p
        BY <2>4
    <2>6. QED
        BY <2>3, <2>5
<1>12. Layout(g)
    BY <1>1, <1>2, <1>6, <1>9, <1>10, <1>11 DEF Layout
<1>13. ASSUME NEW j \in 1..l PROVE FillEntry(g, j) = FillEntry(f, k + j)
    <2>1. PICK i \in 1..Len(f.idx) : i = j + k /\ i = k + j
        <3>1. j + k \in 1..Len(f.idx) /\ j + k = k + j
            BY <1>0, <1>1, <1>2
        <3>2. QED
            BY <3>1
    <2>2. PICK a \in Nat, b \in Nat :
              /\ a = f.idx[i] /\ b = EndOf(f, i) /\ a < b /\ b <= Len(f.data)
              /\ FillEntry(f, i) = Part(f.data, a, b)
        <3>1. /\ f.idx[i] \in Nat /\ EndOf(f, i) \in Nat
              /\ f.idx[i] < EndOf(f, i) /\ EndOf(f, i) <= Len(f.data)
              /\ FillEntry(f, i) = Part(f.data, f.idx[i], EndOf(f, i))
            BY <1>0, EntryFacts
        <3>2. QED
            BY <3>1
    <2>3. PICK a2 \in Nat, b2 \in Nat :
              /\ a2 = g.idx[j] /\ b2 = EndOf(g, j) /\ a2 < b2 /\ b2 <= Len(g.data)
              /\ FillEntry(g, j) = Part(g.data, a2, b2)
        <3>1. j \in 1..Len(g.idx)
            BY <1>1, <1>6
        <3>2. /\ g.idx[j] \in Nat /\ EndOf(g, j) \in Nat
              /\ g.idx[j] < EndOf(g, j) /\ EndOf(g, j) <= Len(g.data)
              /\ FillEntry(g, j) = Part(g.data, g.idx[j], EndOf(g, j))
            BY <1>0, <1>12, <3>1, EntryFacts
        <3>3. QED
            BY <3>2
    <2>4. a2 = a - p /\ p <= a
        BY <1>1, <1>8, <2>1, <2>2, <2>3
    <2>5. b2 = b - p
        <3>1. CASE j < l
            <4>1. PICK jj \in 1..l : jj = j + 1
                BY <1>2, <3>1
            <4>2. gi[jj] = fi[jj + k] - p
                BY <1>8
            <4>3. jj + k = i + 1 /\ i < Len(f.idx) /\ j < Len(g.idx)
                BY <1>0, <1>1, <1>2, <1>6, <2>1, <3>1, <4>1
            <4>4. b2 = gi[jj] /\ b = fi[i + 1]
                BY <1>1, <2>2, <2>3, <4>1, <4>3 DEF EndOf
            <4>5. QED
                BY <4>2, <4>3, <4>4
        <3>2. CASE ~(j < l)
            <4>1. ~(i < Len(f.idx)) /\ ~(j < Len(g.idx))
                BY <1>0, <1>1, <1>2, <1>6, <2>1, <3>2
            <4>2. b = w /\ b2 = w - p
                BY <1>1, <1>4, <1>7, <2>2, <2>3, <4>1 DEF EndOf
            <4>3. QED
                BY <4>2
        <3>3. QED
            BY <3>1, <3>2
    <2>6. SamePart(gd, a2, b2, fd, a, b)
        <3>1. b2 - a2 = b - a /\ b2 <= Len(gd) /\ b <= Len(fd)
            BY <1>1, <2>2, <2>3, <2>4, <2>5, SMTT(30)
        <3>2. ASSUME NEW c \in 1..(b2 - a2) PROVE gd[a2 + c] = fd[a + c]
            <4>1. c \in Nat /\ 1 <= c /\ a2 + c <= b2
                BY <2>3
            <4>2. b2 <= w - p
                BY <1>1, <1>7, <2>3
            <4>3. a2 + c \in 1..(w - p)
                <5>1. a2 + c \in Nat /\ 1 <= a2 + c /\ a2 + c <= w - p
                    BY <4>1, <4>2
                <5>2. QED
                    BY <5>1
            <4>4. p + (a2 + c) = a + c
                BY <2>4, <4>1
            <4>5. QED
                BY <1>7, <4>3, <4>4
        <3>3. a2 <= b2 /\ a <= b /\ b - a = b2 - a2
            <4>1. a2 < b2
                BY <2>3, Zenon
            <4>2. a < b
                BY <2>2, Zenon
            <4>3. b - a = b2 - a2
                BY <3>1, Zenon
            <4>4. QED
                BY <4>1, <4>2, <4>3
        <3>4. QED
            BY <3>1, <3>2, <3>3 DEF SamePart
    <2>7. Part(gd, a2, b2) = Part(fd, a, b)
        BY <2>6, SlicesEqual
    <2>8. QED
        BY <1>1, <2>1, <2>2, <2>3, <2>7
<1>14. QED
    BY <1>1, <1>2, <1>6, <1>12, <1>13

-----------------------------------------------------------------------------
(* The files of one store and their way to the disk. *)

\* When all writes have reached the disk, it holds what the streams hold.
InStep(f, d, pd) ==
    LET last == IF pd = <<>> THEN d ELSE pd[Len(pd)]
    IN  last.idx = f.idx /\ last.data = f.data

\* The first k entries of f can be read from d; the last one there may have a
\* tail.
Legible(d, f, k) ==
    \A j \in 1..k :
        /\ j <= Len(d.idx)
        /\ j < Len(d.idx) => FillEntry(d, j) = FillEntry(f, j)
        /\ Begins(FillEntry(d, j), FillEntry(f, j))

\* On their way the first k entries can always be read.
Survives(f, d, pd, k) ==
    /\ Legible(d, f, k)
    /\ \A i \in 1..Len(pd) : Legible(pd[i], f, k)

\* g is f after the stages st of a splice of d, which holds what f holds.
SplicedInto(f, d, g, k, pos, widx, wdata, early) ==
    LET st == Splice(d, k, pos, widx, wdata, early)
    IN  /\ early \in BOOLEAN /\ f \in Files /\ d \in Files /\ Layout(f)
        /\ d.idx = f.idx /\ d.data = f.data
        /\ k \in 0..Len(f.idx) /\ pos \in Nat /\ pos = EndOf(f, k)
        /\ widx \in Seq(Nat) /\ wdata \in Seq(Cell) /\ Segment(pos, widx, wdata)
        /\ g = [f EXCEPT !.idx = st[Len(st)].idx, !.data = st[Len(st)].data]

\* The first entries of f can be read from files that keep them.
LEMMA WrittenLegible ==
    ASSUME NEW f \in Files, Layout(f), NEW x \in Files, NEW g \in Files,
           NEW k \in 0..Len(f.idx), NEW pos \in Nat, pos = EndOf(f, k),
           Written(f, x, k, pos),
           \A j \in 1..k : FillEntry(g, j) = FillEntry(f, j)
    PROVE  Legible(x, g, k)
<1>1. /\ f.idx \in Seq(Nat) /\ f.data \in Seq(Cell)
      /\ x.idx \in Seq(Nat) /\ x.data \in Seq(Cell)
    BY DEF Files
<1>2. PICK n \in Nat, l \in Nat : n = Len(x.idx) /\ l = Len(x.data)
    BY <1>1
<1>3. k \in Nat /\ k <= n /\ pos <= l
    BY <1>1, <1>2 DEF Written
<1> SUFFICES ASSUME NEW j \in 1..k
             PROVE  /\ j <= Len(x.idx)
                    /\ j < Len(x.idx) => FillEntry(x, j) = FillEntry(f, j)
                    /\ Begins(FillEntry(x, j), FillEntry(f, j))
    BY DEF Legible
<1>4. j \in Nat /\ j <= n /\ j \in 1..Len(f.idx) /\ 1 <= j
    BY <1>1, <1>3
<1>5. /\ f.idx[j] \in Nat /\ EndOf(f, j) \in Nat /\ f.idx[j] < EndOf(f, j)
      /\ EndOf(f, j) <= Len(f.data)
      /\ FillEntry(f, j) = Part(f.data, f.idx[j], EndOf(f, j))
      /\ FillEntry(f, j) \in Seq(Cell)
    BY <1>4, EntryFacts
<1>6. FillEntry(f, j) = FillEntry(x, j) => Begins(FillEntry(x, j), FillEntry(f, j))
    BY <1>5 DEF Begins
<1>7. CASE k < n
    <2>1. Holds(x, f, k, EndOf(f, k))
        BY <1>2, <1>3, <1>7 DEF Holds, Written, EndOf
    <2>2. FillEntry(x, j) = FillEntry(f, j)
        BY <2>1, HoldsEntries
    <2>3. QED
        BY <1>2, <1>4, <1>6, <2>2
<1>8. CASE k = n /\ j < k
    <2>1. PICK m \in Nat : m = k - 1
        BY <1>4, <1>8
    <2>2. j \in 1..m /\ m \in 0..Len(f.idx) /\ m + 1 \in 1..k /\ m < n
        BY <1>1, <1>4, <1>8, <2>1
    <2>3. m < Len(f.idx) /\ f.idx[m + 1] \in Nat
        BY <1>1, <2>1, <2>2
    <2>4. f.idx[m + 1] < pos
        <3>1. k \in 1..Len(f.idx) /\ m + 1 = k
            BY <1>1, <1>4, <2>1
        <3>2. QED
            BY <3>1, EntryFacts
    <2>5. Holds(x, f, m, EndOf(f, m))
        <3>1. EndOf(x, m) = x.idx[m + 1] /\ EndOf(f, m) = f.idx[m + 1]
            BY <1>2, <2>2, <2>3 DEF EndOf
        <3>2. x.idx[m + 1] = f.idx[m + 1]
            BY <2>2 DEF Written
        <3>3. Len(x.idx) >= m /\ \A i \in 1..m : x.idx[i] = f.idx[i]
            BY <1>2, <1>3, <2>1, <2>2 DEF Written
        <3>4. /\ Len(x.data) >= f.idx[m + 1]
              /\ \A i \in 1..f.idx[m + 1] : x.data[i] = f.data[i]
            BY <1>2, <1>3, <2>3, <2>4 DEF Written
        <3>5. QED
            BY <3>1, <3>2, <3>3, <3>4 DEF Holds
    <2>6. FillEntry(x, j) = FillEntry(f, j)
        BY <2>2, <2>5, HoldsEntries
    <2>7. QED
        BY <1>2, <1>4, <1>6, <2>6
<1>9. CASE k = n /\ j = k
    <2>1. PICK a \in Nat, v \in Seq(Cell), w \in Seq(Cell) :
              a = f.idx[j] /\ v = f.data /\ w = x.data
        BY <1>1, <1>5
    <2>2. a < pos /\ pos <= Len(v) /\ x.idx[j] = a /\ l = Len(w) /\ pos <= l
        BY <1>2, <1>3, <1>5, <1>9, <2>1 DEF Written
    <2>3. FillEntry(f, j) = SubSeq(v, a + 1, pos)
        BY <1>5, <1>9, <2>1 DEF Part
    <2>4. FillEntry(x, j) = SubSeq(w, a + 1, l)
        <3>1. ~(j < Len(x.idx)) /\ a < l
            BY <1>2, <1>9, <2>2
        <3>2. FillEntry(x, j) = ReadTo(x, j, l)
            BY <1>2, <3>1, Zenon DEF FillEntry
        <3>3. x.idx[j] < l /\ l <= Len(x.data)
            BY <1>2, <2>2, <3>1
        <3>4. ReadTo(x, j, l) = SubSeq(x.data, x.idx[j] + 1, l)
            BY <3>3, Zenon DEF ReadTo
        <3>5. QED
            BY <2>1, <2>2, <3>2, <3>4
    <2>5. /\ Len(SubSeq(v, a + 1, pos)) = pos - a
          /\ \A i \in 1..(pos - a) : SubSeq(v, a + 1, pos)[i] = v[a + i]
        BY <2>2, SliceFacts
    <2>6. /\ Len(SubSeq(w, a + 1, l)) = l - a
          /\ \A i \in 1..(l - a) : SubSeq(w, a + 1, l)[i] = w[a + i]
        BY <2>2, SliceFacts
    <2>7. ASSUME NEW i \in 1..(pos - a)
          PROVE  SubSeq(w, a + 1, l)[i] = SubSeq(v, a + 1, pos)[i]
        <3>1. i \in 1..(l - a) /\ a + i \in 1..pos
            BY <2>2
        <3>2. w[a + i] = v[a + i]
            BY <2>1, <3>1 DEF Written
        <3>3. QED
            BY <2>5, <2>6, <3>1, <3>2
    <2>8. pos - a <= l - a
        BY <2>2
    <2>9. Begins(FillEntry(x, j), FillEntry(f, j))
        <3>1. PICK p, q : p = SubSeq(v, a + 1, pos) /\ q = SubSeq(w, a + 1, l)
            OBVIOUS
        <3>2. Len(p) <= Len(q) /\ \A i \in 1..Len(p) : q[i] = p[i]
            BY <2>5, <2>6, <2>7, <2>8, <3>1
        <3>3. QED
            BY <2>3, <2>4, <3>1, <3>2 DEF Begins
    <2>10. QED
        BY <1>2, <1>4, <1>9, <2>9
<1>10. QED
    BY <1>3, <1>4, <1>7, <1>8, <1>9

\* What holds for the files after append, write_at and apply_pack.
LEMMA AfterSplice ==
    ASSUME NEW f, NEW d, NEW g, NEW k, NEW pos, NEW widx, NEW wdata,
           NEW early, SplicedInto(f, d, g, k, pos, widx, wdata, early)
    PROVE  /\ Splice(d, k, pos, widx, wdata, early) \in Seq(Files)
           /\ Splice(d, k, pos, widx, wdata, early) # <<>>
           /\ g \in Files /\ g.sti = f.sti /\ Layout(g) /\ Holds(g, f, k, pos)
           /\ Len(g.idx) = k + Len(widx) /\ Len(widx) > 0
           /\ Spliced(f, g, k, pos, widx, wdata)
           /\ InStep(g, d, Splice(d, k, pos, widx, wdata, early))
           /\ Survives(g, d, Splice(d, k, pos, widx, wdata, early), k)
<1> DEFINE S == Splice(d, k, pos, widx, wdata, early)
<1>0. /\ early \in BOOLEAN /\ f \in Files /\ d \in Files /\ Layout(f)
      /\ d.idx = f.idx /\ d.data = f.data
      /\ k \in 0..Len(f.idx) /\ pos \in Nat /\ pos = EndOf(f, k)
      /\ widx \in Seq(Nat) /\ wdata \in Seq(Cell) /\ Segment(pos, widx, wdata)
      /\ g = [f EXCEPT !.idx = S[Len(S)].idx, !.data = S[Len(S)].data]
    BY DEF SplicedInto
<1>1. Len(widx) > 0 /\ widx[1] = pos
    BY <1>0 DEF Segment
<1>2. k \in 0..Len(d.idx) /\ pos <= Len(d.data)
    BY <1>0, EndFacts
<1>3. /\ S \in Seq(Files) /\ Len(S) > 0
      /\ \A j \in 1..Len(S) : Written(d, S[j], k, pos)
      /\ Spliced(d, S[Len(S)], k, pos, widx, wdata)
    <2>1. k < Len(d.idx) => d.idx[k + 1] = pos
        BY <1>0 DEF EndOf
    <2>2. QED
        BY <1>0, <1>1, <1>2, <2>1, SpliceFacts
<1> HIDE DEF S
<1>4. PICK l \in Files : l = S[Len(S)]
    <2>1. Len(S) \in 1..Len(S)
        BY <1>3
    <2>2. QED
        BY <1>3, <2>1
<1>5. g \in Files /\ g.idx = l.idx /\ g.data = l.data /\ g.sti = f.sti
    BY <1>0, <1>4 DEF Files
<1>6. Spliced(f, g, k, pos, widx, wdata)
    BY <1>0, <1>3, <1>4, <1>5 DEF Spliced
<1>7. Layout(g) /\ Holds(g, f, k, pos)
    BY <1>0, <1>5, <1>6, SplicedLayout
<1>8. Len(g.idx) = k + Len(widx)
    BY <1>6 DEF Spliced
<1>15. S # <<>>
    BY <1>3
<1>9. InStep(g, d, S)
    BY <1>4, <1>5, <1>15 DEF InStep
<1>10. ASSUME NEW j \in 1..k PROVE FillEntry(g, j) = FillEntry(f, j)
    BY <1>0, <1>5, <1>7, HoldsEntries
<1>11. ASSUME NEW x \in Files, Written(d, x, k, pos) PROVE Legible(x, g, k)
    <2>1. Written(f, x, k, pos)
        BY <1>0, <1>11 DEF Written
    <2>2. QED
        BY <1>0, <1>5, <1>10, <2>1, WrittenLegible
<1>12. Written(d, d, k, pos)
    <2>1. Len(d.idx) >= k
        BY <1>0 DEF Files
    <2>2. Len(d.idx) > k => d.idx[k + 1] = pos
        <3>1. Len(d.idx) > k => k < Len(d.idx)
            BY <1>0 DEF Files
        <3>2. QED
            BY <1>0, <3>1 DEF EndOf
    <2>3. Len(d.data) >= pos
        BY <1>0, <1>2 DEF Files
    <2>4. QED
        BY <2>1, <2>2, <2>3 DEF Written
<1>13. Survives(g, d, S, k)
    <2>1. Legible(d, g, k)
        BY <1>0, <1>11, <1>12
    <2>2. ASSUME NEW i \in 1..Len(S) PROVE Legible(S[i], g, k)
        <3>1. PICK x \in Files : x = S[i] /\ Written(d, x, k, pos)
            BY <1>3
        <3>2. QED
            BY <1>11, <3>1
    <2>3. QED
        BY <2>1, <2>2 DEF Survives
<1>14. QED
    BY <1>1, <1>3, <1>5, <1>6, <1>7, <1>8, <1>9, <1>13, <1>15 DEF S

-----------------------------------------------------------------------------
(* The invariant. *)

\* No crash, and no crash and no I/O error during compact, so far.
NoCrashYet == budget.crashes = 0
NoFailureYet == budget.crashes = 0 /\ budget.errors = 0

\* Memory and disk of a store fit its files.
FilesFit(s) ==
    /\ Layout(files[s])
    /\ mem[s].entries_in_store = Len(files[s].idx)
    /\ mem[s].start_idx = files[s].sti /\ mem[s].start_idx >= 1
    /\ InStep(files[s], disk[s], pend[s])
    /\ Survives(files[s], disk[s], pend[s], keep[s])

\* The buffer holds the newest entries of the files.
BufferFits(s) == Buffered(files[s], mem[s].start_idx, mem[s].buf)

FilesInv == TypeOK /\ \A s \in Store \ broken : FilesFit(s)
BufferInv == \A s \in Store \ broken : BufferFits(s)

\* The state of store s is unchanged.
Same(s) ==
    /\ files'[s] = files[s] /\ disk'[s] = disk[s] /\ pend'[s] = pend[s]
    /\ keep'[s] = keep[s] /\ mem'[s] = mem[s]

\* Nothing happens to any store but s.
OnlyIn(s) ==
    /\ \A x \in Store : x # s => Same(x)
    /\ \A x \in Store : x # s /\ x \notin broken' => x \notin broken

\* A step of one store keeps the invariant if it does so for that store.
LEMMA OneStoreStep ==
    ASSUME NEW s \in Store, FilesInv, OnlyIn(s), TypeOK',
           s \notin broken' => FilesFit(s)'
    PROVE  /\ FilesInv'
           /\ BufferInv /\ (s \notin broken' => BufferFits(s)') => BufferInv'
<1>1. ASSUME NEW x \in Store \ broken' PROVE FilesFit(x)'
    <2>1. CASE x = s
        BY <1>1, <2>1
    <2>2. CASE x # s
        <3>1. FilesFit(x)
            BY <2>2 DEF OnlyIn, FilesInv
        <3>2. QED
            BY <2>2, <3>1 DEF OnlyIn, Same, FilesFit
    <2>3. QED
        BY <2>1, <2>2
<1>2. ASSUME BufferInv, s \notin broken' => BufferFits(s)',
             NEW x \in Store \ broken'
      PROVE  BufferFits(x)'
    <2>1. CASE x = s
        BY <1>2, <2>1
    <2>2. CASE x # s
        <3>1. BufferFits(x)
            BY <1>2, <2>2 DEF OnlyIn, BufferInv
        <3>2. QED
            BY <2>2, <3>1 DEF OnlyIn, Same, BufferFits
    <2>3. QED
        BY <2>1, <2>2
<1>3. QED
    BY <1>1, <1>2 DEF FilesInv, BufferInv

\* The parts of the state of one store.
LEMMA StoreTypes ==
    ASSUME TypeOK, NEW s \in Store
    PROVE  /\ files[s] \in Files /\ disk[s] \in Files /\ pend[s] \in Seq(Files)
           /\ keep[s] \in Nat /\ mem[s] \in Memory
           /\ mem[s].start_idx \in Nat /\ mem[s].entries_in_store \in Nat
           /\ mem[s].buf \in Buffer /\ mem[s].buf.start_idx \in Nat
<1>1. /\ files[s] \in Files /\ disk[s] \in Files /\ pend[s] \in Seq(Files)
      /\ keep[s] \in Nat /\ mem[s] \in Memory
    BY DEF TypeOK
<1>2. QED
    BY <1>1 DEF Memory, Buffer

-----------------------------------------------------------------------------
(* Steps that write entries. *)

\* append, write_at and apply_pack, as far as the files are concerned.
SpliceStep(s, k, pos, widx, wdata) ==
    /\ TypeOK /\ s \in Store /\ FilesFit(s) /\ pend[s] = <<>>
    /\ k \in 0..Len(files[s].idx) /\ pos \in Nat /\ pos = EndOf(files[s], k)
    /\ widx \in Seq(Nat) /\ wdata \in Seq(Cell) /\ Segment(pos, widx, wdata)
    /\ \E early \in BOOLEAN :
           Perform(s, Splice(disk[s], k, pos, widx, wdata, early), k)
    /\ UNCHANGED <<disk, budget>>

\* What such a step does to the files.
SplicedFiles(s, k, pos, widx, wdata) ==
    /\ files' \in [Store -> Files] /\ disk' \in [Store -> Files]
    /\ pend' \in [Store -> Seq(Files)] /\ keep' \in [Store -> Nat]
    /\ \A x \in Store : x # s =>
           /\ files'[x] = files[x] /\ disk'[x] = disk[x]
           /\ pend'[x] = pend[x] /\ keep'[x] = keep[x]
    /\ files'[s].sti = files[s].sti /\ Layout(files'[s])
    /\ Holds(files'[s], files[s], k, pos)
    /\ Len(files'[s].idx) = k + Len(widx) /\ Len(widx) > 0
    /\ Spliced(files[s], files'[s], k, pos, widx, wdata)
    /\ pend'[s] # <<>> /\ InStep(files'[s], disk'[s], pend'[s])
    /\ Survives(files'[s], disk'[s], pend'[s], keep'[s])

\* The files after a write of append, write_at or apply_pack.
LEMMA SpliceStepFiles ==
    ASSUME NEW s, NEW k, NEW pos, NEW widx, NEW wdata,
           SpliceStep(s, k, pos, widx, wdata)
    PROVE  SplicedFiles(s, k, pos, widx, wdata)
<1>0. /\ TypeOK /\ s \in Store /\ FilesFit(s) /\ pend[s] = <<>>
      /\ k \in 0..Len(files[s].idx) /\ pos \in Nat /\ pos = EndOf(files[s], k)
      /\ widx \in Seq(Nat) /\ wdata \in Seq(Cell) /\ Segment(pos, widx, wdata)
      /\ disk' = disk
    BY DEF SpliceStep
<1>20. PICK early \in BOOLEAN :
           Perform(s, Splice(disk[s], k, pos, widx, wdata, early), k)
    BY DEF SpliceStep
<1>1. PICK f \in Files, d \in Files : f = files[s] /\ d = disk[s]
    BY <1>0, StoreTypes
<1>2. Layout(f) /\ d.idx = f.idx /\ d.data = f.data
    BY <1>0, <1>1 DEF FilesFit, InStep
<1>3. PICK S : S = Splice(d, k, pos, widx, wdata, early)
    OBVIOUS
<1>4. PICK g : g = [f EXCEPT !.idx = S[Len(S)].idx, !.data = S[Len(S)].data]
    OBVIOUS
<1>5. SplicedInto(f, d, g, k, pos, widx, wdata, early)
    BY <1>0, <1>1, <1>2, <1>3, <1>4 DEF SplicedInto
<1>6. /\ S \in Seq(Files) /\ S # <<>>
      /\ g \in Files /\ g.sti = f.sti /\ Layout(g) /\ Holds(g, f, k, pos)
      /\ Len(g.idx) = k + Len(widx) /\ Len(widx) > 0
      /\ Spliced(f, g, k, pos, widx, wdata)
      /\ InStep(g, d, S) /\ Survives(g, d, S, k)
    BY <1>3, <1>5, AfterSplice
<1>7. /\ files \in [Store -> Files] /\ disk \in [Store -> Files]
      /\ pend \in [Store -> Seq(Files)] /\ keep \in [Store -> Nat]
    BY <1>0 DEF TypeOK
<1>8. /\ pend' = [pend EXCEPT ![s] = S]
      /\ files' = [files EXCEPT ![s].idx = S[Len(S)].idx,
                                ![s].data = S[Len(S)].data]
      /\ keep' = [keep EXCEPT ![s] = k]
    BY <1>1, <1>3, <1>20 DEF Perform
<1>9. files' = [files EXCEPT ![s] = g]
    BY <1>0, <1>1, <1>4, <1>7, <1>8
<1>10. k \in Nat
    BY <1>0, <1>1 DEF Files
<1>11. /\ files'[s] = g /\ pend'[s] = S /\ keep'[s] = k /\ disk'[s] = d
       /\ files' \in [Store -> Files] /\ pend' \in [Store -> Seq(Files)]
       /\ keep' \in [Store -> Nat]
    BY <1>0, <1>1, <1>6, <1>7, <1>8, <1>9, <1>10
<1>12. \A x \in Store : x # s =>
           /\ files'[x] = files[x] /\ disk'[x] = disk[x]
           /\ pend'[x] = pend[x] /\ keep'[x] = keep[x]
    BY <1>0, <1>7, <1>8, <1>9
<1>13. QED
    BY <1>0, <1>1, <1>6, <1>7, <1>11, <1>12 DEF SplicedFiles

\* The memory of a store after a write.
Updated(u, m, n, b) ==
    /\ m \in Memory /\ n \in Nat /\ b \in Buffer
    /\ u = [m EXCEPT !.buf = b, !.entries_in_store = n]

\* The memory of a store after append or write_at.
LEMMA MemoryUpdate ==
    ASSUME NEW u, NEW m, NEW n, NEW b, Updated(u, m, n, b)
    PROVE  /\ u \in Memory /\ u.start_idx = m.start_idx
           /\ u.entries_in_store = n /\ u.buf = b
BY DEF Memory, Updated

\* Writing one entry: append and write_at.
LEMMA WriteStep ==
    ASSUME NEW s, NEW k, NEW pos, NEW e \in Entry, NEW nb \in Buffer,
           SpliceStep(s, k, pos, <<pos>>, Cells(e)),
           mem' = [mem EXCEPT ![s].buf = nb, ![s].entries_in_store = k + 1],
           broken' = broken
    PROVE  /\ TypeOK' /\ OnlyIn(s) /\ FilesFit(s)'
           /\ mem'[s].buf = nb /\ mem'[s].start_idx = mem[s].start_idx
           /\ Len(files'[s].idx) = k + 1
           /\ Holds(files'[s], files[s], k, EndOf(files[s], k))
           /\ \/ OneWritten(files[s], files'[s], k, Cells(e))
              \/ Len(files[s].idx) <= k + 1 /\ Len(files[s].data) > pos + Size[e]
<1>0. /\ TypeOK /\ s \in Store /\ FilesFit(s) /\ k \in 0..Len(files[s].idx)
      /\ pos \in Nat /\ pos = EndOf(files[s], k) /\ budget' = budget
    BY DEF SpliceStep
<1>1. /\ files' \in [Store -> Files] /\ disk' \in [Store -> Files]
      /\ pend' \in [Store -> Seq(Files)] /\ keep' \in [Store -> Nat]
      /\ \A x \in Store : x # s =>
             /\ files'[x] = files[x] /\ disk'[x] = disk[x]
             /\ pend'[x] = pend[x] /\ keep'[x] = keep[x]
      /\ files'[s].sti = files[s].sti /\ Layout(files'[s])
      /\ Holds(files'[s], files[s], k, pos)
      /\ Len(files'[s].idx) = k + Len(<<pos>>)
      /\ Spliced(files[s], files'[s], k, pos, <<pos>>, Cells(e))
      /\ InStep(files'[s], disk'[s], pend'[s])
      /\ Survives(files'[s], disk'[s], pend'[s], keep'[s])
    <2>1. PICK w, c : w = <<pos>> /\ c = Cells(e)
        OBVIOUS
    <2>2. SpliceStep(s, k, pos, w, c)
        BY <2>1
    <2>3. SplicedFiles(s, k, pos, w, c)
        BY <2>2, SpliceStepFiles
    <2>4. QED
        BY <2>1, <2>3 DEF SplicedFiles
<1>2. k \in Nat
    BY <1>0, StoreTypes DEF Files
<1>3. /\ mem[s].start_idx \in Nat /\ mem \in [Store -> Memory]
      /\ broken \subseteq Store
      /\ budget \in [compacts : Nat, reopens : Nat, crashes : Nat, errors : Nat]
    BY <1>0, StoreTypes DEF TypeOK
<1>4. /\ mem'[s] \in Memory /\ mem'[s].start_idx = mem[s].start_idx
      /\ mem'[s].entries_in_store = k + 1 /\ mem'[s].buf = nb
    <2>1. PICK m \in Memory, n \in Nat : m = mem[s] /\ n = k + 1
        BY <1>0, <1>2, <1>3
    <2>2. PICK u : u = mem'[s]
        OBVIOUS
    <2>3. Updated(u, m, n, nb)
        BY <1>0, <1>3, <2>1, <2>2 DEF Updated
    <2>4. /\ u \in Memory /\ u.start_idx = m.start_idx
          /\ u.entries_in_store = n /\ u.buf = nb
        BY <2>3, MemoryUpdate
    <2>5. QED
        BY <2>1, <2>2, <2>4
<1>5. mem' \in [Store -> Memory] /\ \A x \in Store : x # s => mem'[x] = mem[x]
    BY <1>0, <1>3, <1>4
<1>6. TypeOK'
    BY <1>0, <1>1, <1>3, <1>4, <1>5 DEF TypeOK
<1>7. OnlyIn(s)
    BY <1>1, <1>5 DEF OnlyIn, Same
<1>8. Len(files'[s].idx) = k + 1
    BY <1>1
<1>9. FilesFit(s)'
    BY <1>0, <1>1, <1>4, <1>5, <1>8 DEF FilesFit
<1>10. \/ OneWritten(files[s], files'[s], k, Cells(e))
       \/ Len(files[s].idx) <= k + 1 /\ Len(files[s].data) > pos + Size[e]
    <2>1. PICK f \in Files, g \in Files : f = files[s] /\ g = files'[s]
        BY <1>0, <1>1, StoreTypes
    <2>2. /\ Layout(f) /\ Layout(g) /\ k \in 0..Len(f.idx) /\ pos = EndOf(f, k)
          /\ Spliced(f, g, k, pos, <<pos>>, Cells(e)) /\ Holds(g, f, k, pos)
        BY <1>0, <1>1, <2>1 DEF FilesFit
    <2>3. Len(Cells(e)) = Size[e] /\ Cells(e) \in Seq(Cell)
        BY CellsFacts
    <2>4. CASE Len(g.data) = pos + Size[e]
        <3>1. Len(g.idx) = k + 1 /\ FillEntry(g, k + 1) = Cells(e)
            BY <1>0, <2>2, <2>4, OneEntry
        <3>2. OneWritten(f, g, k, Cells(e))
            BY <2>2, <2>3, <3>1 DEF OneWritten
        <3>3. QED
            BY <2>1, <3>2
    <2>5. CASE Len(g.data) # pos + Size[e]
        <3>1. Len(f.idx) <= k + Len(<<pos>>) /\ Len(f.data) > pos + Len(Cells(e))
            BY <2>2, <2>3, <2>5 DEF Spliced
        <3>2. QED
            BY <2>1, <2>3, <3>1
    <2>6. QED
        BY <2>4, <2>5
<1>11. QED
    BY <1>0, <1>1, <1>4, <1>5, <1>6, <1>7, <1>8, <1>9, <1>10

\* A single entry is a segment of index cells and data.
LEMMA OneSegment ==
    ASSUME NEW pos \in Nat, NEW e \in Entry
    PROVE  <<pos>> \in Seq(Nat) /\ Segment(pos, <<pos>>, Cells(e))
<1>1. PICK w \in Seq(Nat) : w = <<pos>> /\ Len(w) = 1 /\ w[1] = pos
    <2>1. <<pos>> \in Seq(Nat) /\ Len(<<pos>>) = 1 /\ <<pos>>[1] = pos
        OBVIOUS
    <2>2. QED
        BY <2>1, Zenon
<1>2. PICK l \in Nat \ {0} : l = Len(Cells(e))
    BY CellsFacts
<1>3. \A j \in 1..Len(w) : j = 1
    BY <1>1
<1>4. pos < pos + l
    OBVIOUS
<1>5. Segment(pos, w, Cells(e))
    BY <1>1, <1>2, <1>3, <1>4 DEF Segment
<1>6. QED
    BY <1>1, <1>5

\* A step of store s after which its memory and disk fit its files.
FittingStep(s) == TypeOK' /\ OnlyIn(s) /\ FilesFit(s)' /\ broken' = broken

\* append.

\* append adds its entry after the last one.
LEMMA AppendStep ==
    ASSUME FilesInv, NEW s \in Store, NEW e \in Entry, AppendEntry(s, e)
    PROVE  /\ FittingStep(s) /\ mem'[s].start_idx = mem[s].start_idx
           /\ OneWritten(files[s], files'[s], Len(files[s].idx), Cells(e))
           /\ BufferFits(s) => BufferFits(s)'
<1>1. PICK f \in Files, d \in Files, b \in Buffer, start \in Nat :
          f = files[s] /\ d = disk[s] /\ b = mem[s].buf /\ start = mem[s].start_idx
    BY StoreTypes DEF FilesInv
<1>2. TypeOK /\ FilesFit(s) /\ pend[s] = <<>>
    BY DEF AppendEntry, Ready, FilesInv
<1>3. d.idx = f.idx /\ d.data = f.data /\ mem[s].entries_in_store = Len(f.idx)
    BY <1>1, <1>2 DEF FilesFit, InStep
<1>4. PICK k \in Nat, pos \in Nat : k = Len(f.idx) /\ pos = Len(f.data)
    BY DEF Files
<1>5. k \in 0..Len(files[s].idx) /\ pos = EndOf(files[s], k)
    BY <1>1, <1>4 DEF EndOf
<1>6. <<pos>> \in Seq(Nat) /\ Segment(pos, <<pos>>, Cells(e)) /\ Cells(e) \in Seq(Cell)
    BY OneSegment, CellsFacts
<1>7. \E early \in BOOLEAN :
          Perform(s, Splice(disk[s], k, pos, <<pos>>, Cells(e), early), k)
    BY <1>1, <1>3, <1>4 DEF AppendEntry, Early
<1>8. SpliceStep(s, k, pos, <<pos>>, Cells(e))
    BY <1>2, <1>5, <1>6, <1>7 DEF SpliceStep, AppendEntry
<1>9. PICK nb \in Buffer : nb = PushAll(b, <<Cells(e)>>)
    BY <1>6, PushFacts
<1>10. mem' = [mem EXCEPT ![s].buf = nb, ![s].entries_in_store = k + 1]
    <2>1. mem' = [mem EXCEPT ![s].buf = PushAll(mem[s].buf, <<Cells(e)>>),
                             ![s].entries_in_store = mem[s].entries_in_store + 1]
        BY DEF AppendEntry
    <2>2. QED
        BY <1>1, <1>3, <1>4, <1>9, <2>1
<1>11. broken' = broken /\ budget' = budget
    BY DEF AppendEntry
<1>12. /\ TypeOK' /\ OnlyIn(s) /\ FilesFit(s)'
       /\ mem'[s].buf = nb /\ mem'[s].start_idx = mem[s].start_idx
       /\ \/ OneWritten(files[s], files'[s], k, Cells(e))
          \/ Len(files[s].idx) <= k + 1 /\ Len(files[s].data) > pos + Size[e]
    BY <1>8, <1>10, <1>11, WriteStep
<1>13. OneWritten(files[s], files'[s], k, Cells(e))
    <2>1. PICK l \in Nat : l = Size[e]
        BY CellsFacts
    <2>2. ~(pos > pos + l)
        OBVIOUS
    <2>3. QED
        BY <1>1, <1>4, <1>12, <2>1, <2>2
<1>14. ASSUME BufferFits(s) PROVE BufferFits(s)'
    <2>1. Buffered(f, start, b)
        BY <1>1, <1>14 DEF BufferFits
    <2>2. PICK index \in Nat : index = start + k
        BY <1>4
    <2>3. index = LastIdx(b) /\ Trim(b, index) = b
        BY <1>4, <2>1, <2>2 DEF Buffered, Trim, InBuffer
    <2>4. index >= b.start_idx
        BY <2>3 DEF LastIdx, Buffer
    <2>5. Buffered(files'[s], start, nb)
        <3>1. PICK g, c : g = files'[s] /\ c = Cells(e)
            OBVIOUS
        <3>2. OneWritten(f, g, k, c)
            BY <1>1, <1>13, <3>1
        <3>3. Buffered(g, start, PushAll(Trim(b, index), <<c>>))
            BY <2>1, <2>2, <2>4, <3>2, BufferAfterWrite
        <3>4. QED
            BY <1>9, <2>3, <3>1, <3>3
    <2>6. QED
        BY <1>1, <1>12, <2>5 DEF BufferFits
<1>15. QED
    BY <1>1, <1>4, <1>11, <1>12, <1>13, <1>14 DEF FittingStep

\* write_at.
LEMMA WriteAtStep ==
    ASSUME FilesInv, NEW s \in Store, NEW e \in Entry, NEW index \in Nat,
           WriteAt(s, index, e)
    PROVE  /\ FittingStep(s) /\ mem'[s].start_idx = mem[s].start_idx
           /\ index \in mem[s].start_idx..(mem[s].start_idx + Len(files[s].idx))
           /\ ~ShrinkingRewrites =>
                  OneWritten(files[s], files'[s], index - mem[s].start_idx, Cells(e))
           /\ ~ShrinkingRewrites /\ ~WritesBelowBuffer /\ BufferFits(s)
                  => BufferFits(s)'
<1>1. PICK f \in Files, d \in Files, b \in Buffer, start \in Nat :
          f = files[s] /\ d = disk[s] /\ b = mem[s].buf /\ start = mem[s].start_idx
    BY StoreTypes DEF FilesInv
<1>2. TypeOK /\ FilesFit(s) /\ pend[s] = <<>> /\ Layout(f)
    BY <1>1 DEF WriteAt, Ready, FilesInv, FilesFit
<1>3. d.idx = f.idx /\ d.data = f.data /\ mem[s].entries_in_store = Len(f.idx)
    BY <1>1, <1>2 DEF FilesFit, InStep
<1>4. PICK n \in Nat, len \in Nat : n = Len(f.idx) /\ len = Len(f.data)
    BY DEF Files
<1>5. index \in start..(start + n)
    BY <1>1, <1>3, <1>4 DEF WriteAt, NextSlot
<1>6. PICK k \in Nat : k = index - start /\ k \in 0..n /\ index = start + k
    <2>1. index - start \in Nat /\ index - start \in 0..n /\ index = start + (index - start)
        BY <1>5
    <2>2. QED
        BY <2>1
<1>7. PICK pos \in Nat : pos = EndOf(f, k)
    BY <1>2, <1>4, <1>6, EndFacts
<1>8. DataPos(s, k) = pos
    BY <1>1, <1>3, <1>7 DEF DataPos, EndOf
<1>9. <<pos>> \in Seq(Nat) /\ Segment(pos, <<pos>>, Cells(e)) /\ Cells(e) \in Seq(Cell)
    BY OneSegment, CellsFacts
<1>10. \E early \in BOOLEAN :
           Perform(s, Splice(disk[s], k, pos, <<pos>>, Cells(e), early), k)
    BY <1>1, <1>6, <1>8 DEF WriteAt, Early
<1>11. SpliceStep(s, k, pos, <<pos>>, Cells(e))
    BY <1>1, <1>2, <1>4, <1>6, <1>7, <1>9, <1>10 DEF SpliceStep, WriteAt
<1>12. PICK t \in Buffer :
           /\ t = IF k < mem[s].entries_in_store THEN Trim(b, index) ELSE b
           /\ k < n => t = Trim(b, index)
           /\ ~(k < n) => t = b
    <2>1. Trim(b, index) \in Buffer
        BY TrimFacts
    <2>2. QED
        BY <1>3, <1>4, <2>1
<1>13. PICK nb \in Buffer : nb = PushAll(t, <<Cells(e)>>)
    BY <1>9, PushFacts
<1>14. mem' = [mem EXCEPT ![s].buf = nb, ![s].entries_in_store = k + 1]
    <2>1. mem' = [mem EXCEPT ![s].buf =
                      PushAll(IF index - mem[s].start_idx < mem[s].entries_in_store
                              THEN Trim(mem[s].buf, index) ELSE mem[s].buf,
                              <<Cells(e)>>),
                  ![s].entries_in_store = index - mem[s].start_idx + 1]
        BY DEF WriteAt
    <2>2. QED
        BY <1>1, <1>6, <1>12, <1>13, <2>1
<1>15. broken' = broken /\ budget' = budget
    BY DEF WriteAt
<1>16. /\ TypeOK' /\ OnlyIn(s) /\ FilesFit(s)'
       /\ mem'[s].buf = nb /\ mem'[s].start_idx = mem[s].start_idx
       /\ \/ OneWritten(files[s], files'[s], k, Cells(e))
          \/ Len(files[s].idx) <= k + 1 /\ Len(files[s].data) > pos + Size[e]
    BY <1>11, <1>14, <1>15, WriteStep
<1>17. ASSUME ~ShrinkingRewrites PROVE OneWritten(files[s], files'[s], k, Cells(e))
    <2>1. ~LeavesTail(s, k + 1, pos + Size[e])
        BY <1>1, <1>6, <1>8, <1>17 DEF WriteAt
    <2>2. QED
        BY <1>1, <1>3, <1>16, <2>1 DEF LeavesTail
<1>18. ASSUME ~ShrinkingRewrites, ~WritesBelowBuffer, BufferFits(s)
       PROVE  BufferFits(s)'
    <2>1. Buffered(f, start, b)
        BY <1>1, <1>18 DEF BufferFits
    <2>2. index >= b.start_idx
        BY <1>1, <1>18 DEF WriteAt
    <2>3. t = Trim(b, index)
        <3>1. CASE k < n
            BY <1>12, <3>1
        <3>2. CASE ~(k < n)
            <4>1. index = LastIdx(b)
                <5>1. k = n
                    BY <1>6, <3>2
                <5>2. QED
                    BY <1>4, <1>6, <2>1, <5>1 DEF Buffered
            <4>2. Trim(b, index) = b
                BY <4>1 DEF Trim, InBuffer
            <4>3. QED
                BY <1>12, <3>2, <4>2
        <3>3. QED
            BY <3>1, <3>2
    <2>4. Buffered(files'[s], start, nb)
        <3>1. PICK g, c : g = files'[s] /\ c = Cells(e)
            OBVIOUS
        <3>2. OneWritten(f, g, k, c)
            BY <1>1, <1>17, <1>18, <3>1
        <3>3. Buffered(g, start, PushAll(Trim(b, index), <<c>>))
            BY <1>6, <2>1, <2>2, <3>2, BufferAfterWrite
        <3>4. QED
            BY <1>13, <2>3, <3>1, <3>3
    <2>5. QED
        BY <1>1, <1>16, <2>4 DEF BufferFits
<1>19. QED
    BY <1>1, <1>4, <1>5, <1>6, <1>15, <1>16, <1>17, <1>18 DEF FittingStep

\* fill_buffer on laid out files succeeds.
LEMMA RefillFacts ==
    ASSUME NEW s \in Store, NEW l \in Files, Layout(l), NEW start \in Nat,
           NEW n, n = Len(l.idx), TypeOK, s \notin broken, Refill(s, l, start, n)
    PROVE  /\ broken' = broken /\ mem' \in [Store -> Memory]
           /\ mem'[s].start_idx = start /\ mem'[s].entries_in_store = n
           /\ Buffered(l, start, mem'[s].buf)
           /\ \A x \in Store : x # s => mem'[x] = mem[x]
<1>1. PICK b \in Buffer : b = FillBuffer(l, start, n) /\ Buffered(l, start, b)
    BY FillFacts
<1>2. /\ mem' = [mem EXCEPT ![s] =
             [start_idx |-> start, entries_in_store |-> n, buf |-> b]]
      /\ broken' = broken \ {s}
    BY <1>1, FillFacts DEF Refill
<1>3. n \in Nat
    BY DEF Files
<1>4. [start_idx |-> start, entries_in_store |-> n, buf |-> b] \in Memory
    BY <1>3 DEF Memory
<1>5. mem \in [Store -> Memory]
    BY DEF TypeOK
<1>6. mem'[s] = [start_idx |-> start, entries_in_store |-> n, buf |-> b]
    BY <1>2, <1>5
<1>7. mem' \in [Store -> Memory] /\ \A x \in Store : x # s => mem'[x] = mem[x]
    BY <1>2, <1>4, <1>5
<1>8. broken' = broken
    BY <1>2
<1>9. QED
    BY <1>1, <1>6, <1>7, <1>8

\* What pack takes from laid out files.
LEMMA PackFacts ==
    ASSUME FilesInv, NEW src \in Store, src \notin broken, NEW index \in Nat,
           NEW cnt \in Nat \ {0}, InStore(src, index),
           NEW off, off = index - mem[src].start_idx,
           NEW end, end = Smaller(off + cnt, Len(files[src].idx))
    PROVE  Packed(files[src], off, end, Pack(src, index, cnt).idx,
                  Pack(src, index, cnt).data)
<1>1. PICK f \in Files, start \in Nat : f = files[src] /\ start = mem[src].start_idx
    BY StoreTypes DEF FilesInv
<1>2. Layout(f) /\ mem[src].entries_in_store = Len(f.idx)
    BY <1>1 DEF FilesInv, FilesFit
<1>3. PICK n \in Nat : n = Len(f.idx)
    BY DEF Files
<1>4. off \in Nat /\ off < n
    <2>1. index \in start..((start + n) - 1)
        BY <1>1, <1>2, <1>3 DEF InStore, NextSlot
    <2>2. index - start \in Nat /\ index - start < n
        BY <2>1
    <2>3. QED
        BY <1>1, <2>2
<1>5. end = Smaller(off + cnt, n)
    BY <1>1, <1>3
<1>6. end \in Nat /\ off < end /\ end <= n
    <2>1. cnt \in Nat /\ cnt > 0 /\ off \in Nat /\ off < n
        BY <1>4
    <2>2. PICK m \in Nat : m = off + cnt /\ off < m
        BY <2>1
    <2>3. end = IF m <= n THEN m ELSE n
        BY <1>5, <2>2, Zenon DEF Smaller
    <2>4. QED
        BY <2>1, <2>2, <2>3
<1>7. EndOf(f, off) = f.idx[off + 1]
    BY <1>3, <1>4 DEF EndOf
<1>8. EndOf(f, end) = IF end = n THEN Len(f.data) ELSE f.idx[end + 1]
    <2>1. end < n <=> end # n
        BY <1>6
    <2>2. QED
        BY <1>3, <2>1 DEF EndOf
<1>9. PICK a, b : a = EndOf(f, off) /\ b = EndOf(f, end)
    OBVIOUS
<1>10. Pack(src, index, cnt) = [idx |-> SubSeq(f.idx, off + 1, end),
                                data |-> SubSeq(f.data, a + 1, b)]
    BY <1>1, <1>2, <1>3, <1>5, <1>7, <1>8, <1>9 DEF Pack
<1>11. /\ Pack(src, index, cnt).idx = Part(f.idx, off, end)
       /\ Pack(src, index, cnt).data = Part(f.data, a, b)
    <2>1. PICK x, y : x = Part(f.idx, off, end) /\ y = Part(f.data, a, b)
        OBVIOUS
    <2>2. Pack(src, index, cnt) = [idx |-> x, data |-> y]
        BY <1>10, <2>1, Zenon DEF Part
    <2>3. QED
        BY <2>1, <2>2
<1>12. QED
    BY <1>1, <1>2, <1>3, <1>4, <1>6, <1>9, <1>11 DEF Packed

\* g is f with the entries of h after off, up to end, after its entry k.
PackArrived(h, f, g, off, end, k) ==
    /\ off \in Nat /\ end \in Nat /\ off < end /\ end <= Len(h.idx)
    /\ k \in 0..Len(f.idx) /\ Layout(f) /\ Layout(g)
    /\ Len(g.idx) = k + (end - off)
    /\ Holds(g, f, k, EndOf(f, k))
    /\ ~ShrinkingRewrites => \A i \in 1..(end - off) :
           FillEntry(g, k + i) = FillEntry(h, off + i)

\* pack on one store and apply_pack on another.
LEMMA CopyPackStep ==
    ASSUME FilesInv, ~ShiftedPacks, NEW src \in Store, NEW dst \in Store,
           NEW index \in Nat, NEW cnt \in Nat \ {0}, CopyPack(src, dst, index, cnt),
           NEW off, off = index - mem[src].start_idx,
           NEW end, end = Smaller(off + cnt, Len(files[src].idx)),
           NEW k, k = index - mem[dst].start_idx
    PROVE  /\ FittingStep(dst) /\ mem'[dst].start_idx = mem[dst].start_idx
           /\ BufferFits(dst)'
           /\ PackArrived(files[src], files[dst], files'[dst], off, end, k)
<1>1. PICK f \in Files, d \in Files, h \in Files, start \in Nat :
          /\ f = files[dst] /\ d = disk[dst] /\ h = files[src]
          /\ start = mem[dst].start_idx
    BY StoreTypes DEF FilesInv
<1>2. /\ TypeOK /\ FilesFit(dst) /\ pend[dst] = <<>> /\ Layout(f) /\ Layout(h)
      /\ src \notin broken /\ dst \notin broken /\ InStore(src, index)
    BY <1>1 DEF CopyPack, Ready, FilesInv, FilesFit
<1>3. d.idx = f.idx /\ d.data = f.data /\ mem[dst].entries_in_store = Len(f.idx)
    BY <1>1, <1>2 DEF FilesFit, InStep
<1>4. PICK n \in Nat : n = Len(f.idx)
    BY DEF Files
<1>5. index \in start..(start + n)
    BY <1>1, <1>3, <1>4 DEF CopyPack, NextSlot
<1>6. k \in Nat /\ k \in 0..n
    BY <1>1, <1>5
<1>7. PICK pos \in Nat : pos = EndOf(f, k)
    BY <1>2, <1>4, <1>6, EndFacts
<1>8. DataPos(dst, k) = pos
    BY <1>1, <1>3, <1>7 DEF DataPos, EndOf
<1>9. PICK widx, wdata : /\ widx = Pack(src, index, cnt).idx
                         /\ wdata = Pack(src, index, cnt).data
    OBVIOUS
<1>10. Packed(h, off, end, widx, wdata)
    BY <1>1, <1>2, <1>9, PackFacts
<1>11. /\ widx \in Seq(Nat) /\ wdata \in Seq(Cell) /\ Len(widx) = end - off
       /\ EndOf(h, off) = widx[1] /\ Segment(EndOf(h, off), widx, wdata)
    BY <1>10, PackSegment
<1>12. EndOf(h, off) = pos
    BY <1>8, <1>9, <1>11 DEF CopyPack
<1>14. \E early \in BOOLEAN :
           Perform(dst, Splice(disk[dst], k, pos, widx, wdata, early), k)
    BY <1>1, <1>8, <1>9 DEF CopyPack, Early
<1>15. SpliceStep(dst, k, pos, widx, wdata)
    BY <1>1, <1>2, <1>4, <1>6, <1>7, <1>11, <1>12, <1>14
       DEF SpliceStep, CopyPack
<1>16. SplicedFiles(dst, k, pos, widx, wdata)
    BY <1>15, SpliceStepFiles
<1>17. PICK g \in Files : g = files'[dst]
    BY <1>16 DEF SplicedFiles
<1>18. /\ Layout(g) /\ Holds(g, f, k, pos) /\ Len(g.idx) = k + Len(widx)
       /\ Spliced(f, g, k, pos, widx, wdata) /\ g.sti = f.sti
    BY <1>1, <1>16, <1>17 DEF SplicedFiles
<1>23. Refill(dst, g, start, k + Len(widx))
    BY <1>1, <1>9, <1>17 DEF CopyPack
<1>24. PICK m \in Nat : m = k + Len(widx)
    BY <1>6, <1>11
<1>25. /\ broken' = broken /\ mem' \in [Store -> Memory]
       /\ mem'[dst].start_idx = start /\ mem'[dst].entries_in_store = m
       /\ Buffered(g, start, mem'[dst].buf)
       /\ \A x \in Store : x # dst => mem'[x] = mem[x]
    BY <1>2, <1>18, <1>23, <1>24, RefillFacts
<1>26. BufferFits(dst)'
    BY <1>17, <1>25 DEF BufferFits
<1>27. TypeOK'
    <2>1. broken \subseteq Store /\ budget' = budget
          /\ budget \in [compacts : Nat, reopens : Nat, crashes : Nat, errors : Nat]
        BY <1>2 DEF CopyPack, TypeOK
    <2>2. QED
        BY <1>16, <1>25, <2>1 DEF TypeOK, SplicedFiles
<1>28. OnlyIn(dst)
    BY <1>16, <1>25 DEF OnlyIn, Same, SplicedFiles
<1>29. FilesFit(dst)'
    <2>1. start = f.sti /\ start >= 1
        BY <1>1, <1>2 DEF FilesFit
    <2>2. QED
        BY <1>16, <1>17, <1>18, <1>24, <1>25, <2>1 DEF FilesFit, SplicedFiles
<1>30. ASSUME ~ShrinkingRewrites, NEW i \in 1..(end - off)
       PROVE  FillEntry(g, k + i) = FillEntry(h, off + i)
    <2>1. ~LeavesTail(dst, k + Len(widx), pos + Len(wdata))
        BY <1>8, <1>9, <1>30 DEF CopyPack
    <2>2. Len(g.data) = pos + Len(wdata)
        BY <1>1, <1>3, <1>18, <2>1 DEF LeavesTail, Spliced
    <2>3. CleanSplice(f, g, k, EndOf(h, off), widx, wdata)
        BY <1>6, <1>11, <1>12, <1>18, <2>2 DEF CleanSplice
    <2>4. QED
        BY <1>10, <2>3, PackCopied
<1>31. off \in Nat /\ end \in Nat /\ off < end /\ end <= Len(h.idx)
    BY <1>10 DEF Packed
<1>32. PackArrived(h, f, g, off, end, k)
    BY <1>2, <1>4, <1>6, <1>7, <1>11, <1>18, <1>30, <1>31 DEF PackArrived
<1>33. QED
    BY <1>1, <1>17, <1>25, <1>26, <1>27, <1>28, <1>29, <1>32 DEF FittingStep

-----------------------------------------------------------------------------
(* Compaction, flushes and reopening. *)

Counters == [compacts : Nat, reopens : Nat, crashes : Nat, errors : Nat]

\* Counting a call of compact, or a store that was opened again.
LEMMA CounterFacts ==
    \A c \in Counters :
        /\ [c EXCEPT !.compacts = @ + 1] \in Counters
        /\ [c EXCEPT !.compacts = @ + 1].crashes = c.crashes
        /\ [c EXCEPT !.reopens = @ + 1] \in Counters
        /\ [c EXCEPT !.reopens = @ + 1].crashes = c.crashes
BY DEF Counters

\* Removing the index file, then both files.
LEMMA RemoveFacts ==
    ASSUME NEW d \in Files
    PROVE  \E f1, f2 \in Files :
               /\ f1 = [d EXCEPT !.idx = <<>>]
               /\ f2 = [d EXCEPT !.idx = <<>>, !.data = <<>>]
               /\ f2.idx = <<>> /\ f2.data = <<>>
<1>1. <<>> \in Seq(Nat) /\ <<>> \in Seq(Cell)
    OBVIOUS
<1>2. PICK i \in Seq(Nat), c \in Seq(Cell) : i = <<>> /\ c = <<>>
    BY <1>1
<1>3. /\ [d EXCEPT !.idx = i] \in Files /\ [d EXCEPT !.idx = i, !.data = c] \in Files
      /\ [d EXCEPT !.idx = i, !.data = c].idx = i
      /\ [d EXCEPT !.idx = i, !.data = c].data = c
    BY DEF Files
<1>4. QED
    BY <1>2, <1>3

\* compact, when nothing is left.
LEMMA CompactAllStep ==
    ASSUME FilesInv, NEW s \in Store, NEW last \in Nat, CompactAll(s, last)
    PROVE  /\ FittingStep(s) /\ mem'[s].start_idx = last + 1
           /\ BufferFits(s)' /\ Len(files'[s].idx) = 0
<1>1. PICK d \in Files, start \in Nat : d = disk[s] /\ start = mem[s].start_idx
    BY StoreTypes DEF FilesInv
<1>2. PICK n \in Nat : n = last + 1 /\ n >= 1
    OBVIOUS
<1>3. /\ files \in [Store -> Files] /\ disk \in [Store -> Files]
      /\ pend \in [Store -> Seq(Files)] /\ keep \in [Store -> Nat]
      /\ mem \in [Store -> Memory] /\ broken \subseteq Store
      /\ budget \in [compacts : Nat, reopens : Nat, crashes : Nat, errors : Nat]
    BY DEF FilesInv, TypeOK
<1>4. PICK g \in Files : /\ g = [idx |-> <<>>, data |-> <<>>, sti |-> n]
                         /\ g.idx = <<>> /\ g.data = <<>> /\ g.sti = n
    <2>1. [idx |-> <<>>, data |-> <<>>, sti |-> n] \in Files
        BY DEF Files
    <2>2. PICK g \in Files : g = [idx |-> <<>>, data |-> <<>>, sti |-> n]
        BY <2>1
    <2>3. g.idx = <<>> /\ g.data = <<>> /\ g.sti = n
        BY <2>2
    <2>4. QED
        BY <2>2, <2>3
<1>5. PICK f1 \in Files, f2 \in Files :
          /\ f1 = [d EXCEPT !.idx = <<>>]
          /\ f2 = [d EXCEPT !.idx = <<>>, !.data = <<>>]
          /\ f2.idx = <<>> /\ f2.data = <<>>
    BY RemoveFacts
<1>6. PICK S \in Seq(Files) : S = <<f1, f2>> /\ S # <<>> /\ S[Len(S)] = f2
    <2>0. <<f1, f2>> \in Seq(Files)
        OBVIOUS
    <2>1. PICK S \in Seq(Files) : S = <<f1, f2>>
        BY <2>0
    <2>2. Len(S) = 2 /\ S[2] = f2
        BY <2>1
    <2>3. QED
        BY <2>1, <2>2
<1>7. PICK b \in Buffer : /\ b = [start_idx |-> n, items |-> <<>>]
                          /\ b.start_idx = n /\ b.items = <<>>
    <2>1. [start_idx |-> n, items |-> <<>>] \in Buffer
        BY DEF Buffer
    <2>2. PICK b \in Buffer : b = [start_idx |-> n, items |-> <<>>]
        BY <2>1
    <2>3. b.start_idx = n /\ b.items = <<>>
        BY <2>2
    <2>4. QED
        BY <2>2, <2>3
<1>8. PICK m \in Memory :
          /\ m = [start_idx |-> n, entries_in_store |-> 0, buf |-> b]
          /\ m.start_idx = n /\ m.entries_in_store = 0 /\ m.buf = b
    <2>1. [start_idx |-> n, entries_in_store |-> 0, buf |-> b] \in Memory
        BY DEF Memory
    <2>2. PICK m \in Memory :
              m = [start_idx |-> n, entries_in_store |-> 0, buf |-> b]
        BY <2>1
    <2>3. m.start_idx = n /\ m.entries_in_store = 0 /\ m.buf = b
        BY <2>2
    <2>4. QED
        BY <2>2, <2>3
<1>9. /\ pend' = [pend EXCEPT ![s] = S] /\ files' = [files EXCEPT ![s] = g]
      /\ mem' = [mem EXCEPT ![s] = m] /\ keep' = [keep EXCEPT ![s] = 0]
      /\ disk' = disk /\ broken' = broken
      /\ budget' = [budget EXCEPT !.compacts = @ + 1]
    BY <1>1, <1>2, <1>4, <1>5, <1>6, <1>7, <1>8 DEF CompactAll
<1>10. /\ pend'[s] = S /\ files'[s] = g /\ mem'[s] = m /\ keep'[s] = 0
       /\ disk'[s] = d
    BY <1>1, <1>3, <1>9
<1>11. TypeOK'
    <2>1. /\ files' \in [Store -> Files] /\ pend' \in [Store -> Seq(Files)]
          /\ keep' \in [Store -> Nat] /\ mem' \in [Store -> Memory]
        BY <1>3, <1>9
    <2>2. budget' \in [compacts : Nat, reopens : Nat, crashes : Nat, errors : Nat]
        BY <1>3, <1>9, CounterFacts DEF Counters
    <2>3. QED
        BY <1>3, <1>9, <2>1, <2>2 DEF TypeOK
<1>12. OnlyIn(s)
    BY <1>3, <1>9 DEF OnlyIn, Same
<1>13. Len(g.idx) = 0 /\ Len(g.data) = 0 /\ Layout(g)
    BY <1>4 DEF Layout
<1>14. InStep(g, d, S) /\ Survives(g, d, S, 0)
    <2>1. InStep(g, d, S)
        BY <1>4, <1>5, <1>6 DEF InStep
    <2>2. \A j \in 1..0 : FALSE
        OBVIOUS
    <2>3. QED
        BY <2>1, <2>2 DEF Survives, Legible
<1>15. FilesFit(s)'
    BY <1>2, <1>4, <1>8, <1>10, <1>13, <1>14 DEF FilesFit
<1>16. Buffered(g, n, b)
    BY <1>7, <1>13 DEF Buffered, LastIdx
<1>17. BufferFits(s)'
    BY <1>8, <1>10, <1>16 DEF BufferFits
<1>18. QED
    BY <1>2, <1>8, <1>9, <1>10, <1>11, <1>12, <1>13, <1>15, <1>17 DEF FittingStep

\* compact, when entries remain.
LEMMA CompactPartStep ==
    ASSUME FilesInv, NEW s \in Store, NEW last \in Nat, CompactPart(s, last),
           NEW k, k = last - mem[s].start_idx + 1
    PROVE  /\ FittingStep(s) /\ mem'[s].start_idx = last + 1
           /\ BufferFits(s)' /\ Shifted(files[s], files'[s], k)
           /\ k \in Nat /\ k < Len(files[s].idx)
<1>1. PICK f \in Files, d \in Files, start \in Nat :
          f = files[s] /\ d = disk[s] /\ start = mem[s].start_idx
    BY StoreTypes DEF FilesInv
<1>2. TypeOK /\ FilesFit(s) /\ pend[s] = <<>> /\ s \notin broken /\ Layout(f)
    BY <1>1 DEF CompactPart, Ready, FilesInv, FilesFit
<1>3. d.idx = f.idx /\ d.data = f.data /\ mem[s].entries_in_store = Len(f.idx)
    BY <1>1, <1>2 DEF FilesFit, InStep
<1>4. PICK fi \in Seq(Nat), fd \in Seq(Cell), n \in Nat, len \in Nat :
          fi = f.idx /\ fd = f.data /\ n = Len(fi) /\ len = Len(fd)
    BY DEF Files
<1>5. last >= start /\ last < (start + n) - 1
    BY <1>1, <1>3, <1>4 DEF CompactPart, NextSlot
<1>6. k \in Nat /\ k < n /\ k >= 1
    <2>1. k = (last - start) + 1
        BY <1>1
    <2>2. QED
        BY <1>5, <2>1
<1>7. PICK p \in Nat : p = fi[k + 1] /\ p < len
    <2>1. k + 1 \in 1..Len(f.idx)
        BY <1>4, <1>6
    <2>2. f.idx[k + 1] < Len(f.data) /\ fi[k + 1] \in Nat
        BY <1>2, <1>4, <2>1, SMTT(30) DEF Layout
    <2>3. QED
        BY <1>4, <2>2
<1>8. PICK data \in Seq(Cell) : data = SubSeq(fd, p + 1, len)
    <2>1. p <= len /\ len <= Len(fd)
        BY <1>4, <1>7, SMTT(30)
    <2>2. SubSeq(fd, p + 1, len) \in Seq(Cell)
        BY <2>1, SliceFacts
    <2>3. QED
        BY <2>2
<1>9. PICK idx \in Seq(Nat) : idx = [j \in 1..(n - k) |-> fi[j + k] - p]
    <2>1. ASSUME NEW j \in 1..(n - k) PROVE fi[j + k] - p \in Nat
        <3>1. PICK i \in 1..n : i = j + k /\ i >= k + 1
            <4>1. j + k \in 1..n /\ j + k >= k + 1
                BY <1>6, SMTT(30)
            <4>2. QED
                BY <4>1
        <3>2. PICK v \in Nat : v = fi[i]
            BY <1>4
        <3>3. v >= p
            <4>1. CASE i = k + 1
                BY <1>7, <3>2, <4>1
            <4>2. CASE i # k + 1
                <5>1. k + 1 < i /\ k + 1 \in 1..n
                    <6>1. i \in Nat /\ i >= k + 1 /\ k \in Nat
                        BY <1>6, <3>1
                    <6>2. k + 1 < i
                        BY <4>2, <6>1, SMTT(30)
                    <6>3. k + 1 \in 1..n
                        BY <1>6
                    <6>4. QED
                        BY <6>2, <6>3
                <5>2. fi[k + 1] < fi[i]
                    BY <1>2, <1>4, <5>1 DEF Layout
                <5>3. p < v
                    BY <1>7, <3>2, <5>2
                <5>4. QED
                    BY <5>3
            <4>3. QED
                BY <4>1, <4>2
        <3>4. v - p \in Nat
            BY <3>3
        <3>5. QED
            BY <3>1, <3>2, <3>4
    <2>2. PICK l \in Nat : l = n - k
        BY <1>6
    <2>3. [j \in 1..l |-> fi[j + k] - p] \in Seq(Nat)
        <3>1. \A j \in 1..l : fi[j + k] - p \in Nat
            BY <2>1, <2>2
        <3>2. QED
            BY <3>1, IsASeq
    <2>4. QED
        BY <2>2, <2>3
<1>10. PICK g \in Files : /\ g = [idx |-> idx, data |-> data, sti |-> last + 1]
                          /\ g.idx = idx /\ g.data = data /\ g.sti = last + 1
    <2>1. last + 1 \in Nat
        OBVIOUS
    <2>2. [idx |-> idx, data |-> data, sti |-> last + 1] \in Files
        BY <2>1 DEF Files
    <2>3. PICK g \in Files : g = [idx |-> idx, data |-> data, sti |-> last + 1]
        BY <2>2
    <2>4. g.idx = idx /\ g.data = data /\ g.sti = last + 1
        BY <2>3
    <2>5. QED
        BY <2>3, <2>4
<1>11. Shifted(f, g, k)
    BY <1>2, <1>4, <1>6, <1>7, <1>8, <1>9, <1>10 DEF Shifted
<1>12. Layout(g) /\ Len(g.idx) = n - k
    BY <1>4, <1>11, ShiftedFacts
<1>13. PICK f1 \in Files, f2 \in Files, f3 \in Files, f4 \in Files :
           /\ f1 = [d EXCEPT !.data = Overwrite(d.data, 0, data)]
           /\ f2 = [d EXCEPT !.data = data]
           /\ f3 = [d EXCEPT !.data = data, !.idx = Overwrite(d.idx, 0, idx)]
           /\ f4 = [d EXCEPT !.data = data, !.idx = idx]
    <2>1. Overwrite(d.data, 0, data) \in Seq(Cell)
        BY <1>3, <1>4, OverwriteFacts
    <2>2. Overwrite(d.idx, 0, idx) \in Seq(Nat)
        BY <1>3, <1>4, OverwriteFacts
    <2>3. QED
        BY <2>1, <2>2 DEF Files
<1>14. PICK S \in Seq(Files) :
           S = <<f1, f2, f3, f4, g>> /\ S # <<>> /\ S[Len(S)] = g
    <2>0. <<f1, f2, f3, f4, g>> \in Seq(Files)
        OBVIOUS
    <2>1. PICK S \in Seq(Files) : S = <<f1, f2, f3, f4, g>>
        BY <2>0
    <2>2. Len(S) = 5 /\ S[5] = g
        BY <2>1
    <2>3. QED
        BY <2>1, <2>2
<1>15. SubSeq(d.data, d.idx[k + 1] + 1, Len(d.data)) = data
    BY <1>3, <1>4, <1>7, <1>8
<1>16. [j \in 1..(Len(d.idx) - k) |-> Rebased(d.idx[j + k], d.idx[k + 1])] = idx
    BY <1>3, <1>4, <1>7, <1>9 DEF Rebased
<1>17. /\ pend' = [pend EXCEPT ![s] = S] /\ files' = [files EXCEPT ![s] = g]
       /\ Refill(s, g, last + 1, mem[s].entries_in_store - k)
       /\ keep' = [keep EXCEPT ![s] = 0] /\ disk' = disk
       /\ budget' = [budget EXCEPT !.compacts = @ + 1]
    <2>1. /\ pend' = [pend EXCEPT ![s] =
                 << [d EXCEPT !.data = Overwrite(d.data, 0, data)],
                    [d EXCEPT !.data = data],
                    [d EXCEPT !.data = data, !.idx = Overwrite(d.idx, 0, idx)],
                    [d EXCEPT !.data = data, !.idx = idx],
                    [idx |-> idx, data |-> data, sti |-> last + 1] >>]
          /\ files' = [files EXCEPT ![s] =
                 [idx |-> idx, data |-> data, sti |-> last + 1]]
          /\ Refill(s, [idx |-> idx, data |-> data, sti |-> last + 1], last + 1,
                    mem[s].entries_in_store - k)
          /\ keep' = [keep EXCEPT ![s] = 0] /\ disk' = disk
          /\ budget' = [budget EXCEPT !.compacts = @ + 1]
        BY <1>1, <1>15, <1>16, Zenon DEF CompactPart
    <2>2. QED
        BY <1>10, <1>13, <1>14, <2>1
<1>18. PICK m \in Nat, first \in Nat : /\ m = mem[s].entries_in_store - k
                                       /\ m = Len(g.idx) /\ first = last + 1
    BY <1>3, <1>4, <1>6, <1>12
<1>19. /\ broken' = broken /\ mem' \in [Store -> Memory]
       /\ mem'[s].start_idx = first /\ mem'[s].entries_in_store = m
       /\ Buffered(g, first, mem'[s].buf)
       /\ \A x \in Store : x # s => mem'[x] = mem[x]
    BY <1>2, <1>12, <1>17, <1>18, RefillFacts, SMTT(30)
<1>20. /\ files \in [Store -> Files] /\ disk \in [Store -> Files]
       /\ pend \in [Store -> Seq(Files)] /\ keep \in [Store -> Nat]
       /\ broken \subseteq Store
       /\ budget \in [compacts : Nat, reopens : Nat, crashes : Nat, errors : Nat]
    BY <1>2 DEF TypeOK
<1>21. pend'[s] = S /\ files'[s] = g /\ keep'[s] = 0 /\ disk'[s] = d
    BY <1>1, <1>17, <1>20
<1>22. TypeOK'
    <2>1. /\ files' \in [Store -> Files] /\ pend' \in [Store -> Seq(Files)]
          /\ keep' \in [Store -> Nat]
        BY <1>17, <1>20
    <2>2. budget' \in [compacts : Nat, reopens : Nat, crashes : Nat, errors : Nat]
        BY <1>17, <1>20, CounterFacts DEF Counters
    <2>3. QED
        BY <1>17, <1>19, <1>20, <2>1, <2>2 DEF TypeOK
<1>23. OnlyIn(s)
    BY <1>17, <1>19, <1>20 DEF OnlyIn, Same
<1>24. InStep(g, d, S) /\ Survives(g, d, S, 0)
    BY <1>14 DEF InStep, Survives, Legible
<1>25. FilesFit(s)'
    <2>1. first >= 1
        BY <1>18
    <2>2. QED
        BY <1>10, <1>12, <1>18, <1>19, <1>21, <1>24, <2>1 DEF FilesFit
<1>26. BufferFits(s)'
    BY <1>19, <1>21 DEF BufferFits
<1>27. QED
    BY <1>1, <1>4, <1>6, <1>11, <1>18, <1>19, <1>21, <1>22, <1>23, <1>25, <1>26
       DEF FittingStep

\* The disk moves on to the next of its states.
LEMMA FlushFacts ==
    ASSUME NEW f \in Files, NEW d \in Files, NEW pd \in Seq(Files), pd # <<>>,
           NEW k \in Nat
    PROVE  /\ Head(pd) \in Files /\ Tail(pd) \in Seq(Files)
           /\ InStep(f, d, pd) => InStep(f, Head(pd), Tail(pd))
           /\ Survives(f, d, pd, k) => Survives(f, Head(pd), Tail(pd), k)
<1>1. PICK n \in Nat : n = Len(pd) /\ n > 0
    BY EmptySeq
<1>2. PICK x \in Files : x = Head(pd) /\ x = pd[1]
    BY <1>1
<1>3. PICK t \in Seq(Files) : /\ t = Tail(pd) /\ Len(t) = n - 1
                              /\ \A i \in 1..(n - 1) : t[i] = pd[i + 1]
    <2>1. /\ Tail(pd) \in Seq(Files) /\ Len(Tail(pd)) = Len(pd) - 1
          /\ \A i \in 1..Len(Tail(pd)) : Tail(pd)[i] = pd[i + 1]
        BY HeadTailProperties
    <2>2. PICK t \in Seq(Files) :
              /\ t = Tail(pd) /\ Len(t) = Len(pd) - 1
              /\ \A i \in 1..Len(t) : t[i] = pd[i + 1]
        BY <2>1
    <2>3. QED
        BY <1>1, <2>2
<1>4. ASSUME InStep(f, d, pd) PROVE InStep(f, x, t)
    <2>1. pd[n].idx = f.idx /\ pd[n].data = f.data
        BY <1>1, <1>4 DEF InStep
    <2>2. CASE n = 1
        BY <1>2, <1>3, <2>1, <2>2 DEF InStep
    <2>3. CASE n # 1
        <3>1. n - 1 \in 1..(n - 1) /\ (n - 1) + 1 = n
            BY <1>1, <2>3
        <3>2. t[Len(t)] = pd[n] /\ t # <<>>
            <4>1. PICK l \in Nat : l = n - 1 /\ l \in 1..l /\ l + 1 = n
                BY <3>1
            <4>2. Len(t) = l /\ t[l] = pd[l + 1] /\ l > 0
                BY <1>3, <4>1
            <4>3. QED
                BY <4>1, <4>2
        <3>3. QED
            BY <2>1, <3>2 DEF InStep
    <2>4. QED
        BY <2>2, <2>3
<1>5. ASSUME Survives(f, d, pd, k) PROVE Survives(f, x, t, k)
    <2>1. \A i \in 1..n : Legible(pd[i], f, k)
        BY <1>1, <1>5 DEF Survives
    <2>2. Legible(x, f, k)
        <3>1. 1 \in 1..n
            BY <1>1
        <3>2. QED
            BY <1>2, <2>1, <3>1
    <2>3. ASSUME NEW i \in 1..Len(t) PROVE Legible(t[i], f, k)
        <3>1. i \in 1..(n - 1) /\ i + 1 \in 1..n
            BY <1>1, <1>3
        <3>2. QED
            BY <1>3, <2>1, <3>1
    <2>4. QED
        BY <2>2, <2>3 DEF Survives
<1>6. QED
    BY <1>2, <1>3, <1>4, <1>5

\* A flush changes the disk only, and keeps it in step with the files.
LEMMA FlushStep ==
    ASSUME FilesInv, NEW s \in Store, Flush(s)
    PROVE  /\ TypeOK' /\ OnlyIn(s) /\ (s \notin broken' => FilesFit(s)')
           /\ UNCHANGED <<files, mem, broken, budget>>
<1>1. PICK f \in Files, d \in Files, pd \in Seq(Files), k \in Nat :
          f = files[s] /\ d = disk[s] /\ pd = pend[s] /\ k = keep[s]
    BY StoreTypes DEF FilesInv
<1>2. /\ pd # <<>> /\ disk' = [disk EXCEPT ![s] = Head(pd)]
      /\ pend' = [pend EXCEPT ![s] = Tail(pd)]
      /\ files' = files /\ keep' = keep /\ mem' = mem /\ broken' = broken
      /\ budget' = budget
    BY <1>1 DEF Flush
<1>3. PICK x \in Files, t \in Seq(Files) :
          /\ x = Head(pd) /\ t = Tail(pd)
          /\ InStep(f, d, pd) => InStep(f, x, t)
          /\ Survives(f, d, pd, k) => Survives(f, x, t, k)
    BY <1>2, FlushFacts
<1>4. TypeOK
    BY DEF FilesInv
<1>5. disk'[s] = x /\ pend'[s] = t
    BY <1>2, <1>3, <1>4 DEF TypeOK
<1>6. disk' \in [Store -> Files] /\ pend' \in [Store -> Seq(Files)]
    BY <1>2, <1>3, <1>4 DEF TypeOK
<1>7. TypeOK'
    BY <1>2, <1>4, <1>6 DEF TypeOK
<1>8. OnlyIn(s)
    BY <1>2, <1>4 DEF OnlyIn, Same, TypeOK
<1>9. ASSUME s \notin broken' PROVE FilesFit(s)'
    <2>1. FilesFit(s)
        BY <1>2, <1>9 DEF FilesInv
    <2>2. QED
        BY <1>1, <1>2, <1>3, <1>5, <2>1 DEF FilesFit
<1>10. QED
    BY <1>2, <1>7, <1>8, <1>9

\* close and the constructor.
LEMMA ReopenStep ==
    ASSUME FilesInv, NEW s \in Store, Reopen(s)
    PROVE  /\ FittingStep(s) /\ BufferFits(s)'
           /\ files' = files /\ mem'[s].start_idx = mem[s].start_idx
           /\ s \notin broken
<1>1. PICK f \in Files, start \in Nat : f = files[s] /\ start = mem[s].start_idx
    BY StoreTypes DEF FilesInv
<1>2. TypeOK /\ FilesFit(s) /\ s \notin broken /\ Layout(f)
    BY <1>1 DEF Reopen, Ready, FilesInv, FilesFit
<1>3. start = f.sti /\ start >= 1 /\ f.sti # 0
    BY <1>1, <1>2 DEF FilesFit
<1>4. PICK n \in Nat : n = Len(f.idx)
    BY DEF Files
<1>5. [f EXCEPT !.sti = start] = f
    BY <1>3 DEF Files
<1>6. /\ files' = [files EXCEPT ![s] = f] /\ disk' = [disk EXCEPT ![s] = f]
      /\ pend' = [pend EXCEPT ![s] = <<>>] /\ keep' = [keep EXCEPT ![s] = 0]
      /\ Refill(s, f, start, n)
      /\ budget' = [budget EXCEPT !.reopens = @ + 1]
    <2>1. Open(s, f) /\ budget' = [budget EXCEPT !.reopens = @ + 1]
        BY <1>1 DEF Reopen, Closed
    <2>2. /\ files' = [files EXCEPT ![s] = [f EXCEPT !.sti = start]]
          /\ disk' = [disk EXCEPT ![s] = f]
          /\ pend' = [pend EXCEPT ![s] = <<>>] /\ keep' = [keep EXCEPT ![s] = 0]
          /\ Refill(s, f, start, n)
        BY <1>3, <1>4, <2>1 DEF Open, Counted
    <2>3. QED
        BY <1>5, <2>1, <2>2
<1>7. /\ files \in [Store -> Files] /\ disk \in [Store -> Files]
      /\ pend \in [Store -> Seq(Files)] /\ keep \in [Store -> Nat]
      /\ broken \subseteq Store
      /\ budget \in [compacts : Nat, reopens : Nat, crashes : Nat, errors : Nat]
    BY <1>2 DEF TypeOK
<1>8. files' = files
    BY <1>1, <1>6, <1>7
<1>9. /\ broken' = broken /\ mem' \in [Store -> Memory]
      /\ mem'[s].start_idx = start /\ mem'[s].entries_in_store = n
      /\ Buffered(f, start, mem'[s].buf)
      /\ \A x \in Store : x # s => mem'[x] = mem[x]
    BY <1>2, <1>4, <1>6, RefillFacts
<1>10. disk'[s] = f /\ pend'[s] = <<>> /\ keep'[s] = 0
    BY <1>6, <1>7
<1>11. TypeOK'
    <2>1. /\ disk' \in [Store -> Files] /\ keep' \in [Store -> Nat]
        BY <1>6, <1>7
    <2>2. pend' \in [Store -> Seq(Files)]
        <3>1. PICK em \in Seq(Files) : em = <<>>
            <4>1. <<>> \in Seq(Files)
                OBVIOUS
            <4>2. QED
                BY <4>1
        <3>2. QED
            BY <1>6, <1>7, <3>1
    <2>3. budget' \in [compacts : Nat, reopens : Nat, crashes : Nat, errors : Nat]
        BY <1>6, <1>7, CounterFacts DEF Counters
    <2>4. QED
        BY <1>7, <1>8, <1>9, <2>1, <2>2, <2>3 DEF TypeOK
<1>12. OnlyIn(s)
    BY <1>6, <1>7, <1>9 DEF OnlyIn, Same
<1>13. InStep(f, f, <<>>) /\ Survives(f, f, <<>>, 0)
    <2>1. \A j \in 1..0 : FALSE
        OBVIOUS
    <2>2. QED
        BY <2>1 DEF InStep, Survives, Legible
<1>14. FilesFit(s)'
    BY <1>1, <1>2, <1>3, <1>4, <1>8, <1>9, <1>10, <1>13 DEF FilesFit
<1>15. BufferFits(s)'
    BY <1>1, <1>8, <1>9 DEF BufferFits
<1>16. QED
    BY <1>1, <1>2, <1>8, <1>9, <1>11, <1>12, <1>14, <1>15 DEF FittingStep

\* compact, when it fails.
LEMMA CompactFailsStep ==
    ASSUME FilesInv, NEW s \in Store, CompactFails(s)
    PROVE  TypeOK' /\ OnlyIn(s) /\ s \in broken'
<1>1. /\ files \in [Store -> Files] /\ disk \in [Store -> Files]
      /\ pend \in [Store -> Seq(Files)] /\ keep \in [Store -> Nat]
      /\ mem \in [Store -> Memory] /\ broken \subseteq Store
      /\ budget \in [compacts : Nat, reopens : Nat, crashes : Nat, errors : Nat]
    BY DEF FilesInv, TypeOK
<1>2. /\ files' = [files EXCEPT ![s] = EmptyFiles]
      /\ disk' = [disk EXCEPT ![s] = EmptyFiles]
      /\ broken' = broken \cup {s} /\ keep' = [keep EXCEPT ![s] = 0]
      /\ budget' = [budget EXCEPT !.errors = @ + 1]
      /\ pend' = pend /\ mem' = mem
    BY DEF CompactFails
<1>3. EmptyFiles \in Files
    BY DEF EmptyFiles, Files
<1>4. /\ files' \in [Store -> Files] /\ disk' \in [Store -> Files]
      /\ keep' \in [Store -> Nat] /\ broken' \subseteq Store
    BY <1>1, <1>2, <1>3
<1>5. budget' \in [compacts : Nat, reopens : Nat, crashes : Nat, errors : Nat]
    <2>1. PICK c \in Counters : c = budget
        BY <1>1 DEF Counters
    <2>2. [c EXCEPT !.errors = @ + 1] \in Counters
        BY DEF Counters
    <2>3. QED
        BY <1>2, <2>1, <2>2 DEF Counters
<1>6. TypeOK'
    BY <1>1, <1>2, <1>4, <1>5 DEF TypeOK
<1>7. OnlyIn(s)
    BY <1>1, <1>2 DEF OnlyIn, Same
<1>8. QED
    BY <1>2, <1>6, <1>7

-----------------------------------------------------------------------------
(* The invariant holds until a crash. *)

\* Every step but a crash keeps the invariant.
LEMMA StoreNext ==
    ASSUME ~ShiftedPacks, FilesInv, Next, NoCrashYet'
    PROVE  /\ FilesInv'
           /\ ~WritesBelowBuffer /\ ~ShrinkingRewrites /\ BufferInv => BufferInv'
<1>1. PICK s \in Store :
          \/ \E e \in Entry : AppendEntry(s, e)
          \/ \E e \in Entry, index \in 1..Last : WriteAt(s, index, e)
          \/ \E src \in Store, index \in 1..Last, cnt \in 1..MaxLen :
                 InStore(src, index) /\ CopyPack(src, s, index, cnt)
          \/ \E last \in 1..Last : CompactAll(s, last)
          \/ \E last \in 1..Last : CompactPart(s, last)
          \/ CompactFails(s)
          \/ Flush(s)
          \/ Reopen(s)
          \/ Crash(s)
    BY DEF Next
<1>2. Last \in Nat /\ MaxLen \in Nat
    BY StoreAssumption
<1> DEFINE Well == ~WritesBelowBuffer /\ ~ShrinkingRewrites
           Goal == /\ FilesInv'
                   /\ Well /\ BufferInv => BufferInv'
<1>3. ASSUME FittingStep(s), s \notin broken,
             Well /\ BufferFits(s) => BufferFits(s)'
      PROVE  Goal
    <2>1. TypeOK' /\ OnlyIn(s) /\ FilesFit(s)'
        BY <1>3 DEF FittingStep
    <2>2. BufferInv => BufferFits(s)
        BY <1>3 DEF BufferInv
    <2>3. QED
        BY <1>3, <2>1, <2>2, OneStoreStep
<1>4. ASSUME NEW e \in Entry, AppendEntry(s, e) PROVE Goal
    <2>1. s \notin broken
        BY <1>4 DEF AppendEntry, Ready
    <2>2. FittingStep(s) /\ (BufferFits(s) => BufferFits(s)')
        BY <1>4, AppendStep
    <2> HIDE DEF Goal
    <2>3. QED
        BY <1>3, <2>1, <2>2
<1>5. ASSUME NEW e \in Entry, NEW index \in 1..Last, WriteAt(s, index, e) PROVE Goal
    <2>1. s \notin broken /\ index \in Nat
        BY <1>2, <1>5 DEF WriteAt, Ready
    <2>2. FittingStep(s) /\ (Well /\ BufferFits(s) => BufferFits(s)')
        BY <1>5, <2>1, WriteAtStep
    <2> HIDE DEF Goal
    <2>3. QED
        BY <1>3, <2>1, <2>2
<1>6. ASSUME NEW src \in Store, NEW index \in 1..Last, NEW cnt \in 1..MaxLen,
             CopyPack(src, s, index, cnt)
      PROVE  Goal
    <2>1. s \notin broken /\ index \in Nat /\ cnt \in Nat \ {0}
        BY <1>2, <1>6 DEF CopyPack, Ready
    <2>2. PICK off, end, k : /\ off = index - mem[src].start_idx
                             /\ end = Smaller(off + cnt, Len(files[src].idx))
                             /\ k = index - mem[s].start_idx
        OBVIOUS
    <2>3. FittingStep(s) /\ BufferFits(s)'
        BY <1>6, <2>1, <2>2, CopyPackStep
    <2> HIDE DEF Goal
    <2>4. QED
        BY <1>3, <2>1, <2>3
<1>7. ASSUME NEW last \in 1..Last, CompactAll(s, last) PROVE Goal
    <2>1. s \notin broken /\ last \in Nat
        BY <1>2, <1>7 DEF CompactAll, Ready
    <2>2. FittingStep(s) /\ BufferFits(s)'
        BY <1>7, <2>1, CompactAllStep
    <2> HIDE DEF Goal
    <2>3. QED
        BY <1>3, <2>1, <2>2
<1>8. ASSUME NEW last \in 1..Last, CompactPart(s, last) PROVE Goal
    <2>1. s \notin broken /\ last \in Nat
        <3>1. Ready(s)
            BY <1>8, Zenon DEF CompactPart
        <3>2. QED
            BY <1>2, <3>1 DEF Ready
    <2>2. PICK k : k = last - mem[s].start_idx + 1
        OBVIOUS
    <2>3. FittingStep(s) /\ BufferFits(s)'
        BY <1>8, <2>1, <2>2, CompactPartStep
    <2> HIDE DEF Goal
    <2>4. QED
        BY <1>3, <2>1, <2>3
<1>9. ASSUME CompactFails(s) PROVE Goal
    <2>1. TypeOK' /\ OnlyIn(s) /\ s \in broken'
        BY <1>9, CompactFailsStep
    <2>2. QED
        BY <2>1, OneStoreStep
<1>10. ASSUME Flush(s) PROVE Goal
    <2>1. /\ TypeOK' /\ OnlyIn(s) /\ (s \notin broken' => FilesFit(s)')
          /\ files' = files /\ mem' = mem /\ broken' = broken
        BY <1>10, FlushStep
    <2>2. BufferInv => (s \notin broken' => BufferFits(s)')
        BY <2>1 DEF BufferInv, BufferFits
    <2>3. QED
        BY <2>1, <2>2, OneStoreStep
<1>11. ASSUME Reopen(s) PROVE Goal
    <2>1. FittingStep(s) /\ BufferFits(s)' /\ s \notin broken
        BY <1>11, ReopenStep
    <2> HIDE DEF Goal
    <2>2. QED
        BY <1>3, <2>1
<1>12. ~Crash(s)
    <2>1. ASSUME Crash(s) PROVE FALSE
        <3>1. PICK c \in Counters : c = budget
            BY DEF FilesInv, TypeOK, Counters
        <3>2. budget' = [c EXCEPT !.crashes = @ + 1]
            BY <2>1, <3>1 DEF Crash
        <3>3. budget'.crashes = c.crashes + 1 /\ c.crashes \in Nat
            BY <3>2 DEF Counters
        <3>4. QED
            BY <3>3 DEF NoCrashYet
    <2>2. QED
        BY <2>1
<1> HIDE DEF Goal
<1>13. Goal
    BY <1>1, <1>4, <1>5, <1>6, <1>7, <1>8, <1>9, <1>10, <1>11, <1>12
<1>14. QED
    BY <1>13 DEF Goal, Well

\* The counters are numbers and only grow.
LEMMA BudgetNext ==
    ASSUME budget \in Counters, [Next]_vars
    PROVE  budget' \in Counters /\ (NoCrashYet' => NoCrashYet)
<1>1. PICK c \in Counters : c = budget
    OBVIOUS
<1>2. \/ budget' = c
      \/ budget' = [c EXCEPT !.compacts = @ + 1]
      \/ budget' = [c EXCEPT !.errors = @ + 1]
      \/ budget' = [c EXCEPT !.reopens = @ + 1]
      \/ budget' = [c EXCEPT !.crashes = @ + 1]
    <2>1. CASE UNCHANGED vars
        BY <1>1, <2>1 DEF vars
    <2>2. CASE Next
        <3>1. ASSUME NEW s, NEW e, AppendEntry(s, e) PROVE budget' = c
            BY <1>1, <3>1, Zenon DEF AppendEntry
        <3>2. ASSUME NEW s, NEW index, NEW e, WriteAt(s, index, e) PROVE budget' = c
            BY <1>1, <3>2, Zenon DEF WriteAt
        <3>3. ASSUME NEW src, NEW s, NEW index, NEW cnt, CopyPack(src, s, index, cnt)
              PROVE  budget' = c
            BY <1>1, <3>3, Zenon DEF CopyPack
        <3>4. ASSUME NEW s, NEW last, CompactAll(s, last) \/ CompactPart(s, last)
              PROVE  budget' = [c EXCEPT !.compacts = @ + 1]
            BY <1>1, <3>4, Zenon DEF CompactAll, CompactPart
        <3>5. ASSUME NEW s, CompactFails(s)
              PROVE  budget' = [c EXCEPT !.errors = @ + 1]
            BY <1>1, <3>5, Zenon DEF CompactFails
        <3>6. ASSUME NEW s, Flush(s) PROVE budget' = c
            BY <1>1, <3>6, Zenon DEF Flush
        <3>7. ASSUME NEW s, Reopen(s) PROVE budget' = [c EXCEPT !.reopens = @ + 1]
            BY <1>1, <3>7, Zenon DEF Reopen
        <3>8. ASSUME NEW s, Crash(s) PROVE budget' = [c EXCEPT !.crashes = @ + 1]
            BY <1>1, <3>8, Zenon DEF Crash
        <3>9. QED
            BY <2>2, <3>1, <3>2, <3>3, <3>4, <3>5, <3>6, <3>7, <3>8 DEF Next
    <2>3. QED
        BY <2>1, <2>2
<1>3. c.crashes \in Nat
    BY DEF Counters
<1>4. CASE budget' = c
    BY <1>1, <1>4 DEF NoCrashYet
<1>5. CASE budget' = [c EXCEPT !.compacts = @ + 1]
    BY <1>1, <1>5 DEF NoCrashYet, Counters
<1>6. CASE budget' = [c EXCEPT !.errors = @ + 1]
    BY <1>1, <1>6 DEF NoCrashYet, Counters
<1>7. CASE budget' = [c EXCEPT !.reopens = @ + 1]
    BY <1>1, <1>7 DEF NoCrashYet, Counters
<1>8. CASE budget' = [c EXCEPT !.crashes = @ + 1]
    BY <1>1, <1>3, <1>8 DEF NoCrashYet, Counters
<1>9. QED
    BY <1>2, <1>4, <1>5, <1>6, <1>7, <1>8

\* The invariants hold when the stores are created.
LEMMA StoreInit ==
    ASSUME Init
    PROVE  budget \in Counters /\ FilesInv /\ BufferInv
<1>1. PICK f \in Files, d \in Files, m \in Memory, b \in Buffer :
          /\ f = [EmptyFiles EXCEPT !.sti = 1] /\ d = EmptyFiles /\ m = InitMemory
          /\ f.idx = <<>> /\ f.data = <<>> /\ f.sti = 1
          /\ d.idx = <<>> /\ d.data = <<>>
          /\ m.start_idx = 1 /\ m.entries_in_store = 0 /\ m.buf = b
          /\ b.start_idx = 1 /\ b.items = <<>>
    <2>1. PICK d \in Files : d = EmptyFiles /\ d.idx = <<>> /\ d.data = <<>>
        <3>1. EmptyFiles \in Files
            BY DEF EmptyFiles, Files
        <3>2. EmptyFiles.idx = <<>> /\ EmptyFiles.data = <<>>
            BY DEF EmptyFiles
        <3>3. QED
            BY <3>1, <3>2
    <2>2. PICK f \in Files : /\ f = [EmptyFiles EXCEPT !.sti = 1]
                             /\ f.idx = <<>> /\ f.data = <<>> /\ f.sti = 1
        <3>1. PICK f : f = [d EXCEPT !.sti = 1]
            OBVIOUS
        <3>2. f \in Files /\ f.idx = d.idx /\ f.data = d.data /\ f.sti = 1
            BY <3>1 DEF Files
        <3>3. QED
            BY <2>1, <3>1, <3>2
    <2>3. PICK b \in Buffer : /\ b = [start_idx |-> 1, items |-> <<>>]
                              /\ b.start_idx = 1 /\ b.items = <<>>
        <3>1. [start_idx |-> 1, items |-> <<>>] \in Buffer
            BY DEF Buffer
        <3>2. PICK b \in Buffer : b = [start_idx |-> 1, items |-> <<>>]
            BY <3>1
        <3>3. b.start_idx = 1 /\ b.items = <<>>
            BY <3>2
        <3>4. QED
            BY <3>2, <3>3
    <2>4. PICK m \in Memory :
              /\ m = InitMemory
              /\ m.start_idx = 1 /\ m.entries_in_store = 0 /\ m.buf = b
        <3>1. [start_idx |-> 1, entries_in_store |-> 0, buf |-> b] \in Memory
            BY DEF Memory
        <3>2. PICK m \in Memory :
                  m = [start_idx |-> 1, entries_in_store |-> 0, buf |-> b]
            BY <3>1
        <3>3. m.start_idx = 1 /\ m.entries_in_store = 0 /\ m.buf = b
            BY <3>2
        <3>4. m = InitMemory
            BY <2>3, <3>2 DEF InitMemory
        <3>5. QED
            BY <3>3, <3>4
    <2>5. QED
        BY <2>1, <2>2, <2>3, <2>4
<1>2. PICK em \in Seq(Files) : em = <<>>
    <2>1. <<>> \in Seq(Files)
        OBVIOUS
    <2>2. QED
        BY <2>1
<1>3. /\ files = [s \in Store |-> f] /\ disk = [s \in Store |-> d]
      /\ pend = [s \in Store |-> em] /\ keep = [s \in Store |-> 0]
      /\ mem = [s \in Store |-> m] /\ broken = {}
      /\ budget = [compacts |-> 0, reopens |-> 0, crashes |-> 0, errors |-> 0]
    BY <1>1, <1>2 DEF Init
<1>4. budget \in Counters
    BY <1>3 DEF Counters
<1>5. TypeOK
    BY <1>3, <1>4 DEF TypeOK, Counters
<1>6. Layout(f) /\ Len(f.idx) = 0
    <2>1. f.idx \in Seq(Nat) /\ f.data \in Seq(Cell)
        BY DEF Files
    <2>2. Len(f.idx) = 0 /\ Len(f.data) = 0
        BY <1>1
    <2>3. \A j \in 1..0 : FALSE
        OBVIOUS
    <2>4. QED
        BY <2>1, <2>2, <2>3 DEF Layout
<1>7. InStep(f, d, em) /\ Survives(f, d, em, 0)
    <2>1. \A j \in 1..0 : FALSE
        OBVIOUS
    <2>2. QED
        BY <1>1, <1>2, <2>1 DEF InStep, Survives, Legible
<1>8. Buffered(f, 1, b)
    BY <1>1, <1>6 DEF Buffered, LastIdx
<1>9. ASSUME NEW s \in Store PROVE FilesFit(s) /\ BufferFits(s)
    <2>1. /\ files[s] = f /\ disk[s] = d /\ pend[s] = em /\ keep[s] = 0
          /\ mem[s] = m
        BY <1>3
    <2>2. QED
        BY <1>1, <1>6, <1>7, <1>8, <2>1 DEF FilesFit, BufferFits
<1>10. QED
    BY <1>4, <1>5, <1>9 DEF FilesInv, BufferInv

StoreInv == budget \in Counters /\ (NoCrashYet => FilesInv)
WellUsedInv == StoreInv /\ (NoCrashYet => BufferInv)

\* Stuttering keeps the invariants.
LEMMA StoreStutter ==
    ASSUME UNCHANGED vars
    PROVE  (FilesInv => FilesInv') /\ (BufferInv => BufferInv')
<1>1. /\ files' = files /\ disk' = disk /\ pend' = pend /\ keep' = keep
      /\ mem' = mem /\ broken' = broken /\ budget' = budget
    BY DEF vars
<1>2. TypeOK => TypeOK'
    BY <1>1 DEF TypeOK
<1>3. \A s : (FilesFit(s) => FilesFit(s)') /\ (BufferFits(s) => BufferFits(s)')
    BY <1>1 DEF FilesFit, BufferFits
<1>4. QED
    BY <1>1, <1>2, <1>3 DEF FilesInv, BufferInv

\* Every step keeps the invariant of the files until the first crash.
LEMMA StoreInvNext ==
    ASSUME ~ShiftedPacks, StoreInv, [Next]_vars
    PROVE  StoreInv'
<1>1. budget' \in Counters /\ (NoCrashYet' => NoCrashYet)
    BY BudgetNext DEF StoreInv
<1>2. ASSUME NoCrashYet' PROVE FilesInv'
    BY <1>1, <1>2, StoreNext, StoreStutter DEF StoreInv
<1>3. QED
    BY <1>1, <1>2 DEF StoreInv

\* Every step keeps the invariant of the buffer too, for stores used well.
LEMMA WellUsedNext ==
    ASSUME ~ShiftedPacks, ~WritesBelowBuffer, ~ShrinkingRewrites,
           WellUsedInv, [Next]_vars
    PROVE  WellUsedInv'
<1>1. StoreInv' /\ StoreInv
    BY StoreInvNext DEF WellUsedInv
<1>2. NoCrashYet' => NoCrashYet
    BY <1>1, BudgetNext DEF StoreInv
<1>3. ASSUME NoCrashYet' PROVE BufferInv'
    BY <1>1, <1>2, <1>3, StoreNext, StoreStutter DEF StoreInv, WellUsedInv
<1>4. QED
    BY <1>1, <1>3 DEF WellUsedInv

\* TypeOK holds until the first crash, and EarlierEntriesOnDisk (which speaks of
\* the time until then) always, for stores of any size that are used in any way
\* but with packs from a store with other data positions: whichever writes of
\* append, write_at, apply_pack or compact have reached the disk, in whichever
\* order, the entries before the written ones can be read from the files.
THEOREM EarlierOnDisk ==
    ASSUME ~ShiftedPacks
    PROVE  Spec => [](EarlierEntriesOnDisk /\ (NoCrashYet => TypeOK))
<1>1. Init => StoreInv
    BY StoreInit DEF StoreInv
<1>2. StoreInv /\ [Next]_vars => StoreInv'
    BY StoreInvNext
<1>3. StoreInv => EarlierEntriesOnDisk /\ (NoCrashYet => TypeOK)
    <2>1. ASSUME StoreInv, NoCrashYet PROVE TypeOK
        BY <2>1 DEF StoreInv, FilesInv
    <2>2. ASSUME StoreInv, NEW s \in Store, Opened(s), budget.crashes = 0
          PROVE  Legible(disk[s], files[s], keep[s])
        <3>1. FilesFit(s)
            BY <2>2 DEF StoreInv, NoCrashYet, FilesInv, Opened
        <3>2. QED
            BY <3>1 DEF FilesFit, Survives
    <2>3. QED
        BY <2>1, <2>2 DEF EarlierEntriesOnDisk, Legible
<1>4. QED
    BY <1>1, <1>2, <1>3, PTL DEF Spec

\* Where the buffer keeps the k-th entry.
InBufferAt(start, n, m, len, k, index) ==
    /\ start \in Nat /\ n \in Nat /\ m \in Nat /\ len \in Nat
    /\ k \in Nat /\ index \in Nat
    /\ m + len = start + n /\ k <= n
    /\ index = (start + k) - 1 /\ ~(index < m)

\* The place in the buffer of the entry at an index.
LEMMA BufferPosition ==
    ASSUME NEW start, NEW n, NEW m, NEW len, NEW k, NEW index,
           InBufferAt(start, n, m, len, k, index)
    PROVE  index - m + 1 \in 1..len /\ (m - start) + (index - m + 1) = k
BY DEF InBufferAt

\* entry_at reads an entry from the buffer or from the files.
LEMMA EntryAtFacts ==
    ASSUME FilesInv, BufferInv, NEW s \in Store, s \notin broken,
           NEW k \in 1..Len(files[s].idx), NEW index \in Nat,
           index = (mem[s].start_idx + k) - 1
    PROVE  /\ EntryAt(s, index) = FillEntry(files[s], k)
           /\ TermAt(s, index) = Head(FillEntry(files[s], k))
           /\ InBuffer(mem[s].buf, index) <=> ~(index < mem[s].buf.start_idx)
<1>1. PICK f \in Files, b \in Buffer, start \in Nat :
          f = files[s] /\ b = mem[s].buf /\ start = mem[s].start_idx
    BY StoreTypes DEF FilesInv
<1>2. PICK n \in Nat, m \in Nat, x \in Seq(Seq(Cell)), len \in Nat :
          n = Len(f.idx) /\ m = b.start_idx /\ x = b.items /\ len = Len(x)
    BY DEF Files, Buffer
<1>3. Layout(f) /\ Buffered(f, start, b) /\ k \in 1..Len(f.idx)
    BY <1>1 DEF FilesInv, FilesFit, BufferInv, BufferFits
<1>4. /\ m >= start /\ m + len = start + n /\ (n > 0 => len > 0)
      /\ \A j \in 1..len : x[j] = FillEntry(f, (m - start) + j)
    BY <1>2, <1>3 DEF Buffered, LastIdx
<1>5. k \in Nat /\ 1 <= k /\ k <= n /\ index = (start + k) - 1
    BY <1>1, <1>2
<1>6. LastIdx(b) = m + len
    BY <1>2 DEF LastIdx
<1>7. InBuffer(b, index) <=> ~(index < m)
    <2>1. InBuffer(b, index) <=> index >= m /\ index < m + len
        BY <1>2, <1>6, Zenon DEF InBuffer
    <2>2. index < m + len /\ (index >= m <=> ~(index < m))
        BY <1>4, <1>5
    <2>3. QED
        BY <2>1, <2>2, Zenon
<1>8. /\ FillEntry(f, k) # <<>> /\ Head(FillEntry(f, k)) = f.data[f.idx[k] + 1]
      /\ k < Len(f.idx) => ReadEntry(f, k) = FillEntry(f, k)
    BY <1>3, EntryFacts
<1>9. CASE ~(index < m)
    <2>1. PICK j \in 1..len : j = index - m + 1 /\ (m - start) + j = k
        <3>1. index - m + 1 \in 1..len /\ (m - start) + (index - m + 1) = k
            <4>1. m + len = start + n
                BY <1>4
            <4>2. InBufferAt(start, n, m, len, k, index)
                BY <1>5, <1>9, <4>1 DEF InBufferAt
            <4>3. QED
                BY <4>2, BufferPosition
        <3>2. QED
            BY <3>1
    <2>2. x[index - m + 1] = FillEntry(f, k)
        BY <1>4, <2>1
    <2>3. EntryAt(s, index) = x[index - m + 1]
        BY <1>1, <1>2, <1>7, <1>9 DEF EntryAt
    <2>4. TermAt(s, index) = Head(x[index - m + 1])
        BY <1>1, <1>2, <1>7, <1>9 DEF TermAt
    <2>5. QED
        BY <1>1, <1>2, <1>7, <2>2, <2>3, <2>4
<1>10. CASE index < m
    <2>1. (index - start) + 1 = k /\ k < n
        <3>1. m >= start /\ m + len = start + n /\ (n > 0 => len > 0)
            BY <1>4
        <3>2. QED
            BY <1>5, <1>10, <3>1
    <2>2. EntryAt(s, index) = ReadEntry(f, k)
        BY <1>1, <1>2, <1>7, <1>10, <2>1 DEF EntryAt
    <2>3. TermAt(s, index) = f.data[f.idx[k] + 1]
        BY <1>1, <1>2, <1>7, <1>10, <2>1 DEF TermAt
    <2>4. QED
        BY <1>1, <1>2, <1>7, <1>8, <2>1, <2>2, <2>3
<1>11. QED
    BY <1>9, <1>10

\* last_entry, term_at and log_entries agree with entry_at.
LEMMA ReadersFacts ==
    ASSUME FilesInv, BufferInv
    PROVE  BufferEndsWithStore /\ ReadersAgree
<1>1. ASSUME NEW s \in Store, s \notin broken
      PROVE  LastIdx(mem[s].buf) = NextSlot(s)
    BY <1>1 DEF FilesInv, FilesFit, BufferInv, BufferFits, Buffered, NextSlot
<1>2. ASSUME NEW s \in Store, s \notin broken, mem[s].entries_in_store > 0
      PROVE  /\ LastEntry(s) = EntryAt(s, NextSlot(s) - 1)
             /\ \A from \in mem[s].start_idx..(NextSlot(s) - 1) :
                    /\ TermAt(s, from) = Head(EntryAt(s, from))
                    /\ \A to \in (from + 1)..NextSlot(s) :
                           LogEntriesDefined(s, to) =>
                               LogEntries(s, from, to) =
                                   [k \in 1..(to - from) |->
                                       EntryAt(s, from + k - 1)]
    <2>1. PICK b \in Buffer, start \in Nat, n \in Nat :
              /\ b = mem[s].buf /\ start = mem[s].start_idx
              /\ n = mem[s].entries_in_store
        BY StoreTypes DEF FilesInv
    <2>2. n = Len(files[s].idx) /\ NextSlot(s) = start + n /\ n > 0
        BY <1>2, <2>1 DEF FilesInv, FilesFit, NextSlot
    <2>3. PICK m \in Nat, x \in Seq(Seq(Cell)), len \in Nat :
              m = b.start_idx /\ x = b.items /\ len = Len(x)
        BY DEF Buffer
    <2>4. m >= start /\ m + len = start + n /\ len > 0
        <3>1. Buffered(files[s], start, b)
            BY <1>2, <2>1 DEF BufferInv, BufferFits
        <3>2. QED
            BY <2>2, <2>3, <3>1 DEF Buffered, LastIdx
    <2>5. ASSUME NEW index \in start..((start + n) - 1)
          PROVE  \E k \in 1..Len(files[s].idx) :
                     index \in Nat /\ index = (start + k) - 1
        <3>1. (index - start) + 1 \in 1..n
            BY <2>2
        <3>2. index \in Nat /\ index = (start + ((index - start) + 1)) - 1
            OBVIOUS
        <3>3. QED
            BY <2>2, <3>1, <3>2
    <2>6. ASSUME NEW index \in start..((start + n) - 1)
          PROVE  /\ TermAt(s, index) = Head(EntryAt(s, index))
                 /\ InBuffer(b, index) <=> ~(index < m)
        <3>1. PICK k \in 1..Len(files[s].idx) :
                  index \in Nat /\ index = (mem[s].start_idx + k) - 1
            BY <2>1, <2>5
        <3>2. QED
            BY <1>2, <2>1, <2>3, <3>1, EntryAtFacts
    <2>7. LastEntry(s) = EntryAt(s, NextSlot(s) - 1)
        <3>1. PICK index \in start..((start + n) - 1) :
                  index = (start + n) - 1 /\ ~(index < m) /\ index - m + 1 = len
            <4>1. /\ (start + n) - 1 \in start..((start + n) - 1)
                  /\ ~((start + n) - 1 < m) /\ ((start + n) - 1) - m + 1 = len
                BY <2>2, <2>4
            <4>2. QED
                BY <4>1
        <3>2. EntryAt(s, index) = x[len]
            BY <2>1, <2>3, <2>6, <3>1 DEF EntryAt
        <3>3. LastEntry(s) = x[len]
            BY <2>1, <2>3 DEF LastEntry
        <3>4. QED
            BY <2>2, <3>1, <3>2, <3>3
    <2>8. ASSUME NEW from \in start..((start + n) - 1),
                 NEW to \in (from + 1)..(start + n)
          PROVE  LogEntries(s, from, to) =
                     [k \in 1..(to - from) |-> EntryAt(s, from + k - 1)]
        <3> DEFINE From(i) == IF i < mem[s].buf.start_idx
                              THEN ReadEntry(files[s], i - mem[s].start_idx + 1)
                              ELSE mem[s].buf.items[i - mem[s].buf.start_idx + 1]
        <3>1. LogEntries(s, from, to) = [k \in 1..(to - from) |-> From(from + k - 1)]
            BY DEF LogEntries
        <3>2. ASSUME NEW index \in start..((start + n) - 1)
              PROVE  EntryAt(s, index) = From(index)
            BY <2>1, <2>3, <2>6 DEF EntryAt
        <3> HIDE DEF From
        <3>3. ASSUME NEW k \in 1..(to - from)
              PROVE  EntryAt(s, from + k - 1) = From(from + k - 1)
            <4>1. from + k - 1 \in start..((start + n) - 1)
                OBVIOUS
            <4>2. QED
                BY <3>2, <4>1
        <3>4. QED
            BY <3>1, <3>3
    <2>9. QED
        BY <2>1, <2>2, <2>6, <2>7, <2>8
<1>3. QED
    BY <1>1, <1>2 DEF BufferEndsWithStore, ReadersAgree, Opened

\* BufferEndsWithStore and ReadersAgree hold until the first crash, for stores
\* of any size whose callers write within the buffer, do not shrink the last
\* entry and apply packs at the data positions they were made with.
THEOREM ReadersAgreeUntilCrash ==
    ASSUME ~ShiftedPacks, ~WritesBelowBuffer, ~ShrinkingRewrites
    PROVE  Spec => [](NoCrashYet => BufferEndsWithStore /\ ReadersAgree)
<1>1. Init => WellUsedInv
    BY StoreInit DEF StoreInv, WellUsedInv
<1>2. WellUsedInv /\ [Next]_vars => WellUsedInv'
    BY WellUsedNext
<1>3. WellUsedInv => (NoCrashYet => BufferEndsWithStore /\ ReadersAgree)
    BY ReadersFacts DEF WellUsedInv, StoreInv
<1>4. QED
    BY <1>1, <1>2, <1>3, PTL DEF Spec

-----------------------------------------------------------------------------
(* The log a store holds. *)

Log(f) == [k \in 1..Len(f.idx) |-> FillEntry(f, k)]

\* The log has one entry for each cell of the index file.
LEMMA LogFacts ==
    ASSUME NEW f \in Files, Layout(f)
    PROVE  /\ Log(f) \in Seq(Seq(Cell)) /\ Len(Log(f)) = Len(f.idx)
           /\ \A k \in 1..Len(f.idx) : Log(f)[k] = FillEntry(f, k)
<1>1. PICK n \in Nat : n = Len(f.idx)
    BY DEF Files
<1>2. \A k \in 1..n : FillEntry(f, k) \in Seq(Cell)
    BY <1>1, EntryFacts
<1>3. PICK x : x = [k \in 1..n |-> FillEntry(f, k)]
    OBVIOUS
<1>4. x \in [1..n -> Seq(Cell)]
    BY <1>2, <1>3
<1>5. x \in Seq(Seq(Cell)) /\ Len(x) = n
    BY <1>4
<1>6. \A k \in 1..n : x[k] = FillEntry(f, k)
    BY <1>3
<1>7. Log(f) = x
    BY <1>1, <1>3 DEF Log
<1>8. QED
    BY <1>1, <1>5, <1>6, <1>7

\* g is f with everything after entry k replaced by the entries es.
Replaced(f, g, k, es) ==
    /\ f \in Files /\ g \in Files /\ Layout(f) /\ Layout(g)
    /\ k \in 0..Len(f.idx) /\ es \in Seq(Seq(Cell))
    /\ Holds(g, f, k, EndOf(f, k)) /\ Len(g.idx) = k + Len(es)
    /\ \A i \in 1..Len(es) : FillEntry(g, k + i) = es[i]

\* The first k elements of x, followed by es.
Kept(x, k, es) == SubSeq(x, 1, k) \o es

\* What the log becomes when the entries after the k-th are replaced.
LEMMA ReplacedLog ==
    ASSUME NEW f, NEW g, NEW k, NEW es, Replaced(f, g, k, es)
    PROVE  Log(g) = Kept(Log(f), k, es)
<1>0. /\ f \in Files /\ g \in Files /\ Layout(f) /\ Layout(g)
      /\ k \in 0..Len(f.idx) /\ es \in Seq(Seq(Cell))
      /\ Holds(g, f, k, EndOf(f, k)) /\ Len(g.idx) = k + Len(es)
      /\ \A i \in 1..Len(es) : FillEntry(g, k + i) = es[i]
    BY DEF Replaced
<1>1. PICK n \in Nat, l \in Nat : n = Len(f.idx) /\ l = Len(es)
    BY <1>0 DEF Files
<1>2. k \in Nat /\ k <= n
    BY <1>0, <1>1
<1>3. PICK x \in Seq(Seq(Cell)) : /\ x = Log(f) /\ Len(x) = n
                                  /\ \A j \in 1..n : x[j] = FillEntry(f, j)
    BY <1>0, <1>1, LogFacts
<1>4. PICK y \in Seq(Seq(Cell)) : /\ y = Log(g) /\ Len(y) = k + l
                                  /\ \A j \in 1..(k + l) : y[j] = FillEntry(g, j)
    <2>1. /\ Log(g) \in Seq(Seq(Cell)) /\ Len(Log(g)) = Len(g.idx)
          /\ \A j \in 1..Len(g.idx) : Log(g)[j] = FillEntry(g, j)
        BY <1>0, LogFacts
    <2>2. Len(g.idx) = k + l
        BY <1>0, <1>1
    <2>3. QED
        BY <2>1, <2>2
<1>5. PICK z \in Seq(Seq(Cell)) : /\ z = SubSeq(x, 1, k) /\ Len(z) = k
                                  /\ \A j \in 1..k : z[j] = x[j]
    <2>1. /\ SubSeq(x, 1, k) \in Seq(Seq(Cell)) /\ Len(SubSeq(x, 1, k)) = k
          /\ \A j \in 1..k : SubSeq(x, 1, k)[j] = x[j]
        BY <1>2, <1>3, FirstFacts
    <2>2. QED
        BY <2>1
<1>6. PICK w \in Seq(Seq(Cell)) :
          /\ w = z \o es /\ Len(w) = k + l
          /\ \A j \in 1..(k + l) : w[j] = IF j <= k THEN z[j] ELSE es[j - k]
    <2>1. /\ z \o es \in Seq(Seq(Cell)) /\ Len(z \o es) = Len(z) + Len(es)
          /\ \A j \in 1..(Len(z) + Len(es)) :
                 (z \o es)[j] = IF j <= Len(z) THEN z[j] ELSE es[j - Len(z)]
        BY <1>0, ConcatProperties
    <2>2. PICK w \in Seq(Seq(Cell)) :
              /\ w = z \o es /\ Len(w) = Len(z) + Len(es)
              /\ \A j \in 1..(Len(z) + Len(es)) :
                     w[j] = IF j <= Len(z) THEN z[j] ELSE es[j - Len(z)]
        BY <2>1
    <2>3. PICK a, c : a = Len(z) /\ c = Len(es)
        OBVIOUS
    <2>4. /\ w = z \o es /\ Len(w) = a + c
          /\ \A j \in 1..(a + c) : w[j] = IF j <= a THEN z[j] ELSE es[j - a]
        BY <2>2, <2>3, Zenon
    <2>5. a = k /\ c = l
        BY <1>1, <1>5, <2>3
    <2>6. QED
        BY <2>4, <2>5, Zenon
<1>7. ASSUME NEW j \in 1..(k + l) PROVE y[j] = w[j]
    <2>1. CASE j <= k
        <3>1. j \in 1..k /\ j \in 1..n
            BY <1>2, <2>1
        <3>2. FillEntry(g, j) = FillEntry(f, j)
            BY <1>0, <3>1, HoldsEntries
        <3>3. y[j] = FillEntry(g, j) /\ w[j] = z[j] /\ z[j] = x[j]
            BY <1>4, <1>5, <1>6, <2>1, <3>1
        <3>4. x[j] = FillEntry(f, j)
            BY <1>3, <3>1
        <3>5. QED
            BY <3>2, <3>3, <3>4
    <2>2. CASE ~(j <= k)
        <3>1. PICK i \in 1..l : i = j - k /\ k + i = j
            <4>1. j - k \in 1..l /\ k + (j - k) = j
                BY <1>2, <2>2
            <4>2. QED
                BY <4>1
        <3>2. FillEntry(g, j) = es[i]
            BY <1>0, <1>1, <3>1
        <3>3. y[j] = FillEntry(g, j) /\ w[j] = es[i]
            BY <1>4, <1>6, <2>2, <3>1
        <3>4. QED
            BY <3>2, <3>3
    <2>3. QED
        BY <2>1, <2>2
<1>8. y = w
    <2>1. Len(y) = Len(w) /\ \A j \in 1..Len(y) : y[j] = w[j]
        BY <1>4, <1>6, <1>7
    <2>2. QED
        BY <2>1, SeqEqual
<1>9. QED
    BY <1>3, <1>4, <1>5, <1>6, <1>8 DEF Kept

\* Compaction drops the first k entries from the log.
LEMMA ShiftedLog ==
    ASSUME NEW f, NEW g, NEW k, Shifted(f, g, k), g \in Files
    PROVE  Log(g) = SubSeq(Log(f), k + 1, Len(Log(f)))
<1>0. /\ f \in Files /\ g \in Files /\ Layout(f) /\ k \in Nat /\ k < Len(f.idx)
    BY DEF Shifted
<1>1. PICK n \in Nat, l \in Nat : n = Len(f.idx) /\ l = n - k
    <2>1. PICK n \in Nat : n = Len(f.idx)
        BY <1>0 DEF Files
    <2>2. n - k \in Nat
        BY <1>0, <2>1
    <2>3. QED
        BY <2>1, <2>2
<1>2. /\ Layout(g) /\ Len(g.idx) = l
      /\ \A j \in 1..l : FillEntry(g, j) = FillEntry(f, k + j)
    BY <1>1, ShiftedFacts
<1>3. PICK x \in Seq(Seq(Cell)) : /\ x = Log(f) /\ Len(x) = n
                                  /\ \A j \in 1..n : x[j] = FillEntry(f, j)
    BY <1>0, <1>1, LogFacts
<1>4. PICK y \in Seq(Seq(Cell)) : /\ y = Log(g) /\ Len(y) = l
                                  /\ \A j \in 1..l : y[j] = FillEntry(g, j)
    BY <1>0, <1>2, LogFacts
<1>5. PICK z \in Seq(Seq(Cell)) : /\ z = SubSeq(x, k + 1, n) /\ Len(z) = n - k
                                  /\ \A j \in 1..(n - k) : z[j] = x[k + j]
    <2>1. k <= n /\ n <= Len(x)
        BY <1>0, <1>1, <1>3
    <2>2. /\ SubSeq(x, k + 1, n) \in Seq(Seq(Cell)) /\ Len(SubSeq(x, k + 1, n)) = n - k
          /\ \A j \in 1..(n - k) : SubSeq(x, k + 1, n)[j] = x[k + j]
        BY <1>0, <2>1, SliceFacts
    <2>3. QED
        BY <2>2
<1>6. ASSUME NEW j \in 1..l PROVE y[j] = z[j]
    <2>1. k + j \in 1..n
        BY <1>0, <1>1
    <2>2. QED
        BY <1>1, <1>2, <1>3, <1>4, <1>5, <2>1
<1>7. y = z
    <2>1. Len(y) = Len(z) /\ \A j \in 1..Len(y) : y[j] = z[j]
        BY <1>1, <1>4, <1>5, <1>6
    <2>2. QED
        BY <2>1, SeqEqual
<1>8. QED
    BY <1>3, <1>4, <1>5, <1>7

\* A caller who reads the whole log gets what the files hold.
LEMMA ContentsFacts ==
    ASSUME FilesInv, BufferInv
    PROVE  \A s \in Store \ broken :
               Contents(s) = Log(files[s]) /\ mem[s].start_idx \in Nat
<1>1. SUFFICES ASSUME NEW s \in Store, s \notin broken
               PROVE  Contents(s) = Log(files[s]) /\ mem[s].start_idx \in Nat
    OBVIOUS
<1>2. mem[s].entries_in_store = Len(files[s].idx)
    BY <1>1 DEF FilesInv, FilesFit
<1>3. PICK n \in Nat : n = Len(files[s].idx)
    BY <1>1, StoreTypes DEF FilesInv, Files
<1>4. PICK start \in Nat : start = mem[s].start_idx
    BY <1>1, StoreTypes DEF FilesInv, Memory
<1>5. ASSUME NEW k \in 1..n
      PROVE  EntryAt(s, mem[s].start_idx + k - 1) = FillEntry(files[s], k)
    <2>1. PICK index \in Nat : index = (start + k) - 1
        BY <1>5
    <2>2. EntryAt(s, index) = FillEntry(files[s], k)
        BY <1>1, <1>3, <1>4, <2>1, EntryAtFacts
    <2>3. QED
        BY <1>4, <2>1, <2>2
<1>6. Contents(s) = [k \in 1..n |-> EntryAt(s, mem[s].start_idx + k - 1)]
    BY <1>2, <1>3 DEF Contents
<1>7. Log(files[s]) = [k \in 1..n |-> FillEntry(files[s], k)]
    BY <1>3 DEF Log
<1>8. QED
    BY <1>4, <1>5, <1>6, <1>7

\* The same after a step.
LEMMA ContentsNext ==
    FilesInv' /\ BufferInv' =>
        (\A s \in Store \ broken : Contents(s) = Log(files[s]))'
<1>1. FilesInv /\ BufferInv => \A s \in Store \ broken : Contents(s) = Log(files[s])
    BY ContentsFacts
<1>2. QED
    BY <1>1, PTL

\* EntryAtFacts after a step.
LEMMA EntryAtNext ==
    FilesInv' /\ BufferInv' =>
        (\A s \in Store \ broken : \A k \in 1..Len(files[s].idx), index \in Nat :
             index = (mem[s].start_idx + k) - 1 =>
                 EntryAt(s, index) = FillEntry(files[s], k))'
<1>1. FilesInv /\ BufferInv =>
        \A s \in Store \ broken : \A k \in 1..Len(files[s].idx), index \in Nat :
             index = (mem[s].start_idx + k) - 1 =>
                 EntryAt(s, index) = FillEntry(files[s], k)
    BY EntryAtFacts
<1>2. QED
    BY <1>1, PTL

\* close and the constructor leave the log as it was.
LEMMA ReopenedContents ==
    ASSUME FilesInv, BufferInv, FilesInv', BufferInv', NEW s \in Store, Reopen(s)
    PROVE  Contents(s)' = Contents(s)
<1>1. files' = files /\ s \notin broken /\ broken' = broken
    BY ReopenStep DEF FittingStep
<1>2. Contents(s) = Log(files[s])
    BY <1>1, ContentsFacts
<1>3. (\A x \in Store \ broken : Contents(x) = Log(files[x]))'
    BY ContentsNext
<1>4. Contents(s)' = Log(files'[s])
    BY <1>1, <1>3 DEF Log, FillEntry, ReadTo
<1>5. QED
    BY <1>1, <1>2, <1>4

\* apply_pack puts the packed entries at their index in the other store.
LEMMA PackedEntries ==
    ASSUME ~ShiftedPacks, ~ShrinkingRewrites,
           FilesInv, BufferInv, FilesInv', BufferInv',
           NEW src \in Store, NEW dst \in Store, NEW index \in Nat,
           NEW cnt \in Nat \ {0}, InStore(src, index),
           CopyPack(src, dst, index, cnt)
    PROVE  /\ dst \notin broken'
           /\ \A k \in 1..Len(Pack(src, index, cnt).idx) :
                  EntryAt(dst, index + k - 1)' = EntryAt(src, index + k - 1)
<1>1. src \notin broken /\ dst \notin broken /\ src # dst
    BY DEF CopyPack, Ready
<1>2. PICK sa \in Nat, sb \in Nat : sa = mem[src].start_idx /\ sb = mem[dst].start_idx
    BY StoreTypes DEF FilesInv, Memory
<1>3. PICK off, end, k : /\ off = index - mem[src].start_idx
                         /\ end = Smaller(off + cnt, Len(files[src].idx))
                         /\ k = index - mem[dst].start_idx
    OBVIOUS
<1>4. /\ FittingStep(dst) /\ mem'[dst].start_idx = mem[dst].start_idx
      /\ PackArrived(files[src], files[dst], files'[dst], off, end, k)
    BY <1>3, CopyPackStep
<1>40. PICK p, q : p = Len(files[src].idx) /\ q = Len(files'[dst].idx)
    OBVIOUS
<1>41. /\ off \in Nat /\ end \in Nat /\ off < end /\ end <= p
       /\ k \in Nat /\ q = k + (end - off)
       /\ \A i \in 1..(end - off) :
              FillEntry(files'[dst], k + i) = FillEntry(files[src], off + i)
    BY <1>4, <1>40 DEF PackArrived
<1>42. p \in Nat /\ index = sa + off /\ index = sb + k
    <2>1. p \in Nat
        BY <1>40, StoreTypes DEF FilesInv, Files
    <2>2. off = index - sa /\ k = index - sb
        BY <1>2, <1>3
    <2>3. QED
        BY <1>41, <2>1, <2>2
<1>5. dst \notin broken'
    BY <1>1, <1>4 DEF FittingStep
<1>6. Packed(files[src], off, end, Pack(src, index, cnt).idx,
             Pack(src, index, cnt).data)
    BY <1>1, <1>3, PackFacts
<1>7. Len(Pack(src, index, cnt).idx) = end - off
    <2>1. PICK px : px = Pack(src, index, cnt).idx
        OBVIOUS
    <2>2. px = SubSeq(files[src].idx, off + 1, end) /\ files[src].idx \in Seq(Nat)
        BY <1>6, <2>1 DEF Packed, Part, Files
    <2>3. Len(px) = end - off
        BY <1>40, <1>41, <2>2, SliceFacts
    <2>4. QED
        BY <2>1, <2>3
<1>8. ASSUME NEW i \in 1..(end - off)
      PROVE  EntryAt(dst, index + i - 1)' = EntryAt(src, index + i - 1)
    <2>1. PICK at \in Nat : at = index + i - 1
        OBVIOUS
    <2>2. PICK a \in 1..Len(files[src].idx) : a = off + i /\ at = (sa + a) - 1
        <3>1. off + i \in 1..p /\ at = (sa + (off + i)) - 1
            BY <1>41, <1>42, <2>1
        <3>2. QED
            BY <1>40, <3>1
    <2>3. EntryAt(src, at) = FillEntry(files[src], a)
        BY <1>1, <1>2, <2>2, EntryAtFacts
    <2>4. PICK b \in 1..Len(files'[dst].idx) : b = k + i /\ at = (sb + b) - 1
        <3>1. k + i \in 1..q /\ at = (sb + (k + i)) - 1
            BY <1>41, <1>42, <2>1
        <3>2. QED
            BY <1>40, <3>1
    <2>5. (\A x \in Store \ broken : \A j \in 1..Len(files[x].idx), y \in Nat :
              y = (mem[x].start_idx + j) - 1 =>
                  EntryAt(x, y) = FillEntry(files[x], j))'
        BY EntryAtNext
    <2>6. EntryAt(dst, at)' = FillEntry(files'[dst], b)
        BY <1>2, <1>4, <1>5, <2>4, <2>5
    <2>7. FillEntry(files'[dst], b) = FillEntry(files[src], a)
        BY <1>41, <2>2, <2>4
    <2>8. QED
        BY <2>1, <2>3, <2>6, <2>7
<1>9. QED
    BY <1>5, <1>7, <1>8

\* ReopenKeepsEntries, until the first crash: close and the constructor lose,
\* add and change no entry, for stores of any size that are used as above.
THEOREM ReopenKeeps ==
    ASSUME ~ShiftedPacks, ~WritesBelowBuffer, ~ShrinkingRewrites
    PROVE  Spec /\ []NoCrashYet => ReopenKeepsEntries
<1>1. Init => WellUsedInv
    BY StoreInit DEF StoreInv, WellUsedInv
<1>2. WellUsedInv /\ [Next]_vars => WellUsedInv'
    BY WellUsedNext
<1>3. WellUsedInv /\ NoCrashYet => FilesInv /\ BufferInv
    BY DEF WellUsedInv, StoreInv
<1>4. FilesInv /\ BufferInv /\ (FilesInv /\ BufferInv)' =>
          \A s \in Store : Reopen(s) => Contents(s)' = Contents(s)
    BY ReopenedContents
<1>5. QED
    BY <1>1, <1>2, <1>3, <1>4, PTL DEF Spec, ReopenKeepsEntries

\* PackCopiesEntries, until the first crash: a pack applied at its own index
\* and at the data position it was made at puts exactly the packed entries
\* there, and apply_pack does not throw, for stores of any size.
THEOREM PackCopies ==
    ASSUME ~ShiftedPacks, ~WritesBelowBuffer, ~ShrinkingRewrites
    PROVE  Spec /\ []NoCrashYet => PackCopiesEntries
<1>1. Init => WellUsedInv
    BY StoreInit DEF StoreInv, WellUsedInv
<1>2. WellUsedInv /\ [Next]_vars => WellUsedInv'
    BY WellUsedNext
<1>3. WellUsedInv /\ NoCrashYet => FilesInv /\ BufferInv
    BY DEF WellUsedInv, StoreInv
<1>4. FilesInv /\ BufferInv /\ (FilesInv /\ BufferInv)' =>
          \A src, dst \in Store : \A index \in 1..Last, cnt \in 1..MaxLen :
              InStore(src, index) /\ CopyPack(src, dst, index, cnt) =>
                  /\ dst \notin broken'
                  /\ \A k \in 1..Len(Pack(src, index, cnt).idx) :
                         EntryAt(dst, index + k - 1)' = EntryAt(src, index + k - 1)
    <2>1. Last \in Nat /\ MaxLen \in Nat
        BY StoreAssumption
    <2>2. 1..Last \subseteq Nat /\ 1..MaxLen \subseteq Nat \ {0}
        BY <2>1
    <2>3. QED
        BY <2>2, PackedEntries
<1>5. QED
    BY <1>1, <1>2, <1>3, <1>4, PTL DEF Spec, PackCopiesEntries

-----------------------------------------------------------------------------
(* The refinement of LogStore. *)

\* The invariant behind the refinement, as long as nothing has failed.
SoundInv == FilesInv /\ BufferInv /\ broken = {}

\* Before and after a step, callers read what the files hold.
LEMMA SoundLogs ==
    ASSUME SoundInv, SoundInv'
    PROVE  \A s \in Store : /\ Contents(s) = Log(files[s])
                            /\ Contents(s)' = Log(files'[s])
                            /\ Len(Contents(s)) = Len(files[s].idx)
                            /\ Log(files[s]) \in Seq(Seq(Cell))
                            /\ mem[s].start_idx \in Nat
                            /\ Layout(files[s]) /\ files[s] \in Files
                            /\ Layout(files'[s]) /\ files'[s] \in Files
<1>1. SUFFICES ASSUME NEW s \in Store
               PROVE  /\ Contents(s) = Log(files[s])
                      /\ Contents(s)' = Log(files'[s])
                      /\ Len(Contents(s)) = Len(files[s].idx)
                      /\ Log(files[s]) \in Seq(Seq(Cell))
                      /\ mem[s].start_idx \in Nat
                      /\ Layout(files[s]) /\ files[s] \in Files
                      /\ Layout(files'[s]) /\ files'[s] \in Files
    OBVIOUS
<1>2. Contents(s) = Log(files[s]) /\ mem[s].start_idx \in Nat
    BY <1>1, ContentsFacts DEF SoundInv
<1>3. Contents(s)' = Log(files'[s])
    <2>1. (\A x \in Store \ broken : Contents(x) = Log(files[x]))'
        BY ContentsNext DEF SoundInv
    <2>2. s \notin broken'
        BY DEF SoundInv
    <2>3. QED
        BY <2>1, <2>2 DEF Log, FillEntry, ReadTo
<1>4. Layout(files[s]) /\ files[s] \in Files
    BY <1>1 DEF SoundInv, FilesInv, FilesFit, TypeOK
<1>5. Layout(files'[s]) /\ files'[s] \in Files
    BY <1>1 DEF SoundInv, FilesInv, FilesFit, TypeOK
<1>6. Log(files[s]) \in Seq(Seq(Cell)) /\ Len(Log(files[s])) = Len(files[s].idx)
    BY <1>4, LogFacts
<1>7. QED
    BY <1>2, <1>3, <1>4, <1>5, <1>6

\* In a step of one store, the others keep their start index and their log.
LEMMA OthersKeep ==
    ASSUME SoundInv, SoundInv', NEW s \in Store, OnlyIn(s)
    PROVE  \A x \in Store : x # s =>
               /\ mem'[x].start_idx = mem[x].start_idx
               /\ Contents(x)' = Contents(x)
    BY SoundLogs DEF OnlyIn, Same

\* A function on the stores that changes at one of them.
LEMMA MapUpdate ==
    ASSUME NEW f, NEW g, NEW s \in Store, NEW v,
           f = [x \in Store |-> f[x]], g = [x \in Store |-> g[x]],
           \A x \in Store : x # s => g[x] = f[x], g[s] = v
    PROVE  g = [f EXCEPT ![s] = v]
OBVIOUS

\* What the step of store s does to the abstract store: the entries after the
\* first k are replaced by es.
LogReplaced(s, k, es) ==
    /\ OnlyIn(s) /\ mem'[s].start_idx = mem[s].start_idx
    /\ k \in Nat /\ k <= Len(files[s].idx)
    /\ Log(files'[s]) = SubSeq(Log(files[s]), 1, k) \o es

\* Replacing the entries after the first k is the abstract Write.
LEMMA MappedWrite ==
    ASSUME SoundInv, SoundInv', NEW s \in Store, NEW k, NEW es, NEW index,
           LogReplaced(s, k, es), index = mem[s].start_idx + k
    PROVE  /\ Abs!Write(s, index, es)
           /\ index \in mem[s].start_idx..(mem[s].start_idx + Len(Contents(s)))
<1> DEFINE st == [x \in Store |-> mem[x].start_idx]
           it == [x \in Store |-> Contents(x)]
<1>1. /\ OnlyIn(s) /\ mem'[s].start_idx = mem[s].start_idx
      /\ k \in Nat /\ k <= Len(files[s].idx)
      /\ Log(files'[s]) = SubSeq(Log(files[s]), 1, k) \o es
    BY DEF LogReplaced
<1>2. PICK start \in Nat : start = mem[s].start_idx
    BY SoundLogs
<1>3. PICK n \in Nat : n = Len(Contents(s)) /\ n = Len(files[s].idx)
    <2>1. files[s] \in Files /\ Len(Contents(s)) = Len(files[s].idx)
        BY SoundLogs
    <2>2. Len(files[s].idx) \in Nat
        BY <2>1 DEF Files
    <2>3. QED
        BY <2>1, <2>2
<1>4. st[s] = start /\ it[s] = Contents(s)
    BY <1>2
<1>5. index = start + k /\ k <= n
    BY <1>1, <1>2, <1>3
<1>6. index \in start..(start + n) /\ index - start = k
    BY <1>1, <1>5
<1>7. st' = st
    <2>1. \A x \in Store : mem'[x].start_idx = mem[x].start_idx
        BY <1>1, OthersKeep
    <2>2. QED
        BY <2>1
<1>8. it' = [it EXCEPT ![s] = SubSeq(it[s], 1, index - st[s]) \o es]
    <2>1. Contents(s)' = SubSeq(Contents(s), 1, k) \o es
        BY <1>1, SoundLogs
    <2>2. PICK v : v = SubSeq(Contents(s), 1, k) \o es
        OBVIOUS
    <2>3. PICK f, g : f = it /\ g = it'
        OBVIOUS
    <2>4. /\ f = [x \in Store |-> f[x]] /\ g = [x \in Store |-> g[x]]
          /\ \A x \in Store : f[x] = Contents(x)
          /\ \A x \in Store : g[x] = Contents(x)'
        BY <2>3
    <2>5. \A x \in Store : x # s => g[x] = f[x]
        BY <1>1, <2>4, OthersKeep
    <2>6. g[s] = v
        BY <2>1, <2>2, <2>4
    <2>7. g = [f EXCEPT ![s] = v]
        BY <2>4, <2>5, <2>6, MapUpdate
    <2>8. v = SubSeq(it[s], 1, index - st[s]) \o es
        BY <1>4, <1>6, <2>2
    <2>9. QED
        BY <2>3, <2>7, <2>8
<1>9. Abs!NextSlotOf(s) = start + n
    BY <1>3, <1>4 DEF Abs!NextSlotOf
<1>10. Abs!Write(s, index, es)
    BY <1>4, <1>6, <1>7, <1>8, <1>9 DEF Abs!Write
<1>11. QED
    BY <1>2, <1>3, <1>6, <1>10

\* One written entry replaces everything after entry k.
LEMMA OneReplaced ==
    ASSUME NEW f, NEW g, NEW k, NEW c, OneWritten(f, g, k, c)
    PROVE  Replaced(f, g, k, <<c>>)
<1>1. PICK es : es = <<c>>
    OBVIOUS
<1>2. c \in Seq(Cell) /\ Len(g.idx) = k + 1 /\ FillEntry(g, k + 1) = c
    BY DEF OneWritten
<1>3. es \in Seq(Seq(Cell)) /\ Len(es) = 1 /\ es[1] = c
    BY <1>1, <1>2
<1>4. \A i \in 1..1 : FillEntry(g, k + i) = es[i]
    BY <1>2, <1>3
<1>5. Replaced(f, g, k, es)
    BY <1>2, <1>3, <1>4 DEF Replaced, OneWritten
<1>6. QED
    BY <1>1, <1>5

\* A store whose files were replaced after entry k has its log replaced.
LEMMA StepReplaces ==
    ASSUME NEW s \in Store, NEW k, NEW es, OnlyIn(s),
           mem'[s].start_idx = mem[s].start_idx,
           Replaced(files[s], files'[s], k, es)
    PROVE  LogReplaced(s, k, es)
<1>1. Log(files'[s]) = SubSeq(Log(files[s]), 1, k) \o es
    <2>1. PICK f, g : f = files[s] /\ g = files'[s]
        OBVIOUS
    <2>2. Replaced(f, g, k, es)
        BY <2>1
    <2>3. Log(g) = Kept(Log(f), k, es)
        BY <2>2, ReplacedLog
    <2>4. QED
        BY <2>1, <2>3 DEF Kept
<1>2. k \in Nat /\ k <= Len(files[s].idx)
    <2>1. PICK n : n = Len(files[s].idx)
        OBVIOUS
    <2>2. n \in Nat /\ k \in 0..n
        BY <2>1 DEF Replaced, Files
    <2>3. QED
        BY <2>1, <2>2
<1>3. QED
    BY <1>1, <1>2 DEF LogReplaced

\* append implements the abstract AppendEntry.
LEMMA AppendRefines ==
    ASSUME SoundInv, SoundInv', NEW s \in Store, NEW e \in Entry, AppendEntry(s, e)
    PROVE  Abs!AppendEntry(s, Cells(e))
<1>1. PICK k \in Nat : k = Len(files[s].idx) /\ k = Len(Contents(s))
    <2>1. files[s] \in Files /\ Len(Contents(s)) = Len(files[s].idx)
        BY SoundLogs
    <2>2. Len(files[s].idx) \in Nat
        BY <2>1 DEF Files
    <2>3. QED
        BY <2>1, <2>2
<1>2. PICK c : c = Cells(e)
    OBVIOUS
<1>3. /\ FittingStep(s) /\ mem'[s].start_idx = mem[s].start_idx
      /\ OneWritten(files[s], files'[s], k, c)
    BY <1>1, <1>2, AppendStep DEF SoundInv
<1>4. PICK es : es = <<c>>
    OBVIOUS
<1>5. LogReplaced(s, k, es)
    <2>1. Replaced(files[s], files'[s], k, es)
        BY <1>3, <1>4, OneReplaced
    <2>2. QED
        BY <1>3, <2>1, StepReplaces DEF FittingStep
<1>6. Abs!Write(s, mem[s].start_idx + k, es)
    BY <1>5, MappedWrite
<1>7. Abs!NextSlotOf(s) = mem[s].start_idx + k
    BY <1>1 DEF Abs!NextSlotOf
<1>8. QED
    BY <1>2, <1>4, <1>6, <1>7 DEF Abs!AppendEntry

\* write_at implements the abstract WriteAt.
LEMMA WriteAtRefines ==
    ASSUME SoundInv, SoundInv', ~ShrinkingRewrites, NEW s \in Store,
           NEW e \in Entry, NEW index \in Nat, WriteAt(s, index, e)
    PROVE  /\ Abs!WriteAt(s, index, Cells(e))
           /\ index \in mem[s].start_idx..(mem[s].start_idx + Len(Contents(s)))
<1>1. PICK start \in Nat : start = mem[s].start_idx
    BY SoundLogs
<1>2. PICK c : c = Cells(e)
    OBVIOUS
<1>3. PICK k : k = index - start
    OBVIOUS
<1>4. /\ FittingStep(s) /\ mem'[s].start_idx = mem[s].start_idx
      /\ OneWritten(files[s], files'[s], k, c)
    BY <1>1, <1>2, <1>3, WriteAtStep DEF SoundInv
<1>5. PICK es : es = <<c>>
    OBVIOUS
<1>6. LogReplaced(s, k, es)
    <2>1. Replaced(files[s], files'[s], k, es)
        BY <1>4, <1>5, OneReplaced
    <2>2. QED
        BY <1>4, <2>1, StepReplaces DEF FittingStep
<1>7. index = start + k
    BY <1>1, <1>3
<1>8. /\ Abs!Write(s, index, es)
      /\ index \in mem[s].start_idx..(mem[s].start_idx + Len(Contents(s)))
    BY <1>1, <1>6, <1>7, MappedWrite
<1>9. QED
    BY <1>2, <1>5, <1>8 DEF Abs!WriteAt

\* pack and apply_pack implement the abstract CopyPack.
LEMMA CopyPackRefines ==
    ASSUME SoundInv, SoundInv', ~ShiftedPacks, ~ShrinkingRewrites,
           NEW src \in Store, NEW s \in Store, NEW index \in Nat,
           NEW cnt \in Nat \ {0}, CopyPack(src, s, index, cnt)
    PROVE  /\ index \in mem[s].start_idx..(mem[s].start_idx + Len(Contents(s)))
           /\ \E c \in 1..Len(Contents(src)) : Abs!CopyPack(src, s, index, c)
<1>1. PICK sa \in Nat, sb \in Nat : sa = mem[src].start_idx /\ sb = mem[s].start_idx
    BY SoundLogs
<1>2. PICK off, end, k : /\ off = index - mem[src].start_idx
                         /\ end = Smaller(off + cnt, Len(files[src].idx))
                         /\ k = index - mem[s].start_idx
    OBVIOUS
<1>3. /\ FittingStep(s) /\ mem'[s].start_idx = mem[s].start_idx
      /\ PackArrived(files[src], files[s], files'[s], off, end, k)
    BY <1>2, CopyPackStep DEF SoundInv
<1>4. PICK n \in Nat, m \in Nat : /\ n = Len(files[src].idx) /\ n = Len(Contents(src))
                                  /\ m = Len(files[s].idx)
    <2>1. /\ files[src] \in Files /\ Len(Contents(src)) = Len(files[src].idx)
          /\ files[s] \in Files
        BY SoundLogs
    <2>2. Len(files[src].idx) \in Nat /\ Len(files[s].idx) \in Nat
        BY <2>1 DEF Files
    <2>3. QED
        BY <2>1, <2>2
<1>5. /\ off \in Nat /\ end \in Nat /\ off < end /\ end <= n
      /\ k \in Nat /\ k <= m
    BY <1>3, <1>4 DEF PackArrived
<1>6. index = sa + off /\ index = sb + k
    <2>1. off = index - sa /\ k = index - sb
        BY <1>1, <1>2
    <2>2. QED
        BY <1>5, <2>1
<1>7. PICK h \in Seq(Seq(Cell)) : h = Contents(src) /\ h = Log(files[src]) /\ Len(h) = n
    BY <1>4, SoundLogs
<1>8. \A i \in 1..n : h[i] = FillEntry(files[src], i)
    BY <1>4, <1>7, SoundLogs, LogFacts
<1>9. PICK es \in Seq(Seq(Cell)) : /\ es = SubSeq(h, off + 1, end)
                                   /\ Len(es) = end - off
                                   /\ \A i \in 1..(end - off) : es[i] = h[off + i]
    <2>1. off <= end /\ end <= Len(h)
        BY <1>5, <1>7
    <2>2. /\ SubSeq(h, off + 1, end) \in Seq(Seq(Cell))
          /\ Len(SubSeq(h, off + 1, end)) = end - off
          /\ \A i \in 1..(end - off) : SubSeq(h, off + 1, end)[i] = h[off + i]
        BY <1>5, <2>1, SliceFacts
    <2>3. QED
        BY <2>2
<1>10. ASSUME NEW i \in 1..(end - off) PROVE FillEntry(files'[s], k + i) = es[i]
    <2>1. off + i \in 1..n
        BY <1>5
    <2>2. FillEntry(files'[s], k + i) = FillEntry(files[src], off + i)
        BY <1>3 DEF PackArrived
    <2>3. QED
        BY <1>8, <1>9, <2>1, <2>2
<1>11. Replaced(files[s], files'[s], k, es)
    <2>1. \A i \in 1..Len(es) : FillEntry(files'[s], k + i) = es[i]
        BY <1>9, <1>10
    <2>2. files[s] \in Files /\ files'[s] \in Files
        BY SoundLogs
    <2>3. Len(files'[s].idx) = k + Len(es) /\ k \in 0..Len(files[s].idx)
        BY <1>3, <1>9 DEF PackArrived
    <2>4. Layout(files[s]) /\ Layout(files'[s]) /\ Holds(files'[s], files[s], k, EndOf(files[s], k))
        BY <1>3 DEF PackArrived
    <2>5. QED
        BY <2>1, <2>2, <2>3, <2>4 DEF Replaced
<1>12. LogReplaced(s, k, es)
    BY <1>3, <1>11, StepReplaces DEF FittingStep
<1>13. /\ Abs!Write(s, index, es)
       /\ index \in mem[s].start_idx..(mem[s].start_idx + Len(Contents(s)))
    BY <1>1, <1>6, <1>12, MappedWrite
<1>14. PICK c \in 1..n : c = end - off
    <2>1. end - off \in 1..n
        BY <1>5
    <2>2. QED
        BY <2>1
<1>15. Abs!CopyPack(src, s, index, c)
    <2> DEFINE st == [x \in Store |-> mem[x].start_idx]
               it == [x \in Store |-> Contents(x)]
    <2>1. st[src] = sa /\ it[src] = h
        BY <1>1, <1>7
    <2>2. PICK first \in Nat : first = off + 1
        BY <1>5
    <2>3. index - sa + 1 = first /\ first + c - 1 = end
        BY <1>5, <1>6, <1>14, <2>2
    <2>4. (IF first + c - 1 < Len(h) THEN first + c - 1 ELSE Len(h)) = end
        BY <1>5, <1>7, <2>3
    <2>5. Abs!NextSlotOf(src) = sa + n
        BY <1>7, <2>1 DEF Abs!NextSlotOf
    <2>6. index \in sa..(sa + n - 1)
        BY <1>5, <1>6
    <2>7. src # s
        BY DEF CopyPack
    <2>8. es = SubSeq(h, first, end)
        BY <1>9, <2>2
    <2>9. PICK last : last = IF first + c - 1 < Len(h) THEN first + c - 1 ELSE Len(h)
        OBVIOUS
    <2>10. Abs!Write(s, index, SubSeq(h, first, last))
        BY <1>13, <2>4, <2>8, <2>9
    <2>11. Abs!Write(s, index,
                SubSeq(it[src], index - st[src] + 1,
                       IF (index - st[src] + 1) + c - 1 < Len(it[src])
                       THEN (index - st[src] + 1) + c - 1 ELSE Len(it[src])))
        BY <2>1, <2>3, <2>9, <2>10
    <2>12. index \in st[src]..(Abs!NextSlotOf(src) - 1)
        BY <2>1, <2>5, <2>6
    <2>13. QED
        BY <2>7, <2>11, <2>12 DEF Abs!CopyPack
<1>16. QED
    BY <1>4, <1>13, <1>14, <1>15

\* What compact does to the abstract store.
LogShifted(s, last) ==
    /\ OnlyIn(s) /\ mem'[s].start_idx = last + 1 /\ last >= mem[s].start_idx
    /\ Log(files'[s]) = SubSeq(Log(files[s]), last - mem[s].start_idx + 2,
                               Len(Log(files[s])))

\* Dropping the entries up to last is the abstract Compact.
LEMMA MappedCompact ==
    ASSUME SoundInv, SoundInv', NEW s \in Store, NEW last \in Nat, LogShifted(s, last)
    PROVE  Abs!Compact(s, last) /\ last >= mem[s].start_idx
<1> DEFINE st == [x \in Store |-> mem[x].start_idx]
           it == [x \in Store |-> Contents(x)]
<1>1. /\ OnlyIn(s) /\ mem'[s].start_idx = last + 1 /\ last >= mem[s].start_idx
      /\ Log(files'[s]) = SubSeq(Log(files[s]), last - mem[s].start_idx + 2,
                                 Len(Log(files[s])))
    BY DEF LogShifted
<1>2. st[s] = mem[s].start_idx /\ it[s] = Contents(s)
    OBVIOUS
<1>3. st' = [st EXCEPT ![s] = last + 1]
    <2>1. PICK f, g, v : f = st /\ g = st' /\ v = last + 1
        OBVIOUS
    <2>2. /\ f = [x \in Store |-> f[x]] /\ g = [x \in Store |-> g[x]]
          /\ \A x \in Store : f[x] = mem[x].start_idx
          /\ \A x \in Store : g[x] = mem'[x].start_idx
        BY <2>1
    <2>3. (\A x \in Store : x # s => g[x] = f[x]) /\ g[s] = v
        BY <1>1, <2>1, <2>2, OthersKeep
    <2>4. g = [f EXCEPT ![s] = v]
        BY <2>2, <2>3, MapUpdate
    <2>5. QED
        BY <2>1, <2>4
<1>4. it' = [it EXCEPT ![s] = SubSeq(it[s], last - st[s] + 2, Len(it[s]))]
    <2>1. PICK f, g, v : f = it /\ g = it' /\ v = SubSeq(it[s], last - st[s] + 2, Len(it[s]))
        OBVIOUS
    <2>2. /\ f = [x \in Store |-> f[x]] /\ g = [x \in Store |-> g[x]]
          /\ \A x \in Store : f[x] = Contents(x)
          /\ \A x \in Store : g[x] = Contents(x)'
        BY <2>1
    <2>3. Contents(s)' = SubSeq(Contents(s), last - mem[s].start_idx + 2, Len(Contents(s)))
        BY <1>1, SoundLogs
    <2>4. g[s] = v
        BY <1>2, <2>1, <2>2, <2>3
    <2>5. \A x \in Store : x # s => g[x] = f[x]
        BY <1>1, <2>2, OthersKeep
    <2>6. g = [f EXCEPT ![s] = v]
        BY <2>2, <2>4, <2>5, MapUpdate
    <2>7. QED
        BY <2>1, <2>6
<1>5. last >= st[s]
    BY <1>1, <1>2
<1>6. QED
    BY <1>1, <1>3, <1>4, <1>5 DEF Abs!Compact

\* compact of the whole log implements the abstract Compact.
LEMMA CompactAllRefines ==
    ASSUME SoundInv, SoundInv', NEW s \in Store, NEW last \in Nat, CompactAll(s, last)
    PROVE  Abs!Compact(s, last) /\ last >= mem[s].start_idx
<1>1. /\ FittingStep(s) /\ mem'[s].start_idx = last + 1 /\ Len(files'[s].idx) = 0
    BY CompactAllStep DEF SoundInv
<1>2. PICK start \in Nat : start = mem[s].start_idx
    BY SoundLogs
<1>3. PICK h \in Seq(Seq(Cell)), n \in Nat :
          h = Log(files[s]) /\ n = Len(h) /\ n = Len(files[s].idx)
    <2>1. files[s] \in Files /\ Layout(files[s])
        BY SoundLogs
    <2>2. Log(files[s]) \in Seq(Seq(Cell)) /\ Len(Log(files[s])) = Len(files[s].idx)
        BY <2>1, LogFacts
    <2>3. PICK h \in Seq(Seq(Cell)) : h = Log(files[s]) /\ Len(h) = Len(files[s].idx)
        BY <2>2
    <2>4. Len(h) \in Nat
        OBVIOUS
    <2>5. QED
        BY <2>3, <2>4
<1>4. mem[s].entries_in_store = n
    BY <1>3 DEF SoundInv, FilesInv, FilesFit
<1>5. last >= start /\ last >= start + n - 1
    BY <1>2, <1>4 DEF CompactAll, NextSlot
<1>6. PICK g \in Seq(Seq(Cell)) : g = Log(files'[s]) /\ Len(g) = 0
    <2>1. files'[s] \in Files /\ Layout(files'[s])
        BY SoundLogs
    <2>2. PICK x \in Files : x = files'[s] /\ Layout(x) /\ Len(x.idx) = 0
        BY <1>1, <2>1
    <2>3. Log(x) \in Seq(Seq(Cell)) /\ Len(Log(x)) = 0
        BY <2>2, LogFacts
    <2>4. QED
        BY <2>2, <2>3
<1>7. PICK z \in Seq(Seq(Cell)) : z = SubSeq(h, last - start + 2, n) /\ Len(z) = 0
    <2>1. PICK m \in Nat : m = last - start + 2 /\ m > n
        <3>1. last - start + 2 \in Nat /\ last - start + 2 > n
            BY <1>5
        <3>2. QED
            BY <3>1
    <2>2. \A i \in m..n : FALSE
        BY <2>1
    <2>3. /\ SubSeq(h, m, n) \in Seq(Seq(Cell)) /\ Len(SubSeq(h, m, n)) = 0
        BY <2>1, <2>2, SubSeqProperties
    <2>4. QED
        BY <2>1, <2>3
<1>8. g = z
    <2>1. \A i \in 1..Len(g) : g[i] = z[i]
        BY <1>6
    <2>2. QED
        BY <1>6, <1>7, <2>1, SeqEqual
<1>9. LogShifted(s, last)
    BY <1>1, <1>2, <1>3, <1>5, <1>6, <1>7, <1>8 DEF LogShifted, FittingStep
<1>10. QED
    BY <1>9, MappedCompact

\* compact of a part of the log implements the abstract Compact.
LEMMA CompactPartRefines ==
    ASSUME SoundInv, SoundInv', NEW s \in Store, NEW last \in Nat, CompactPart(s, last)
    PROVE  Abs!Compact(s, last) /\ last >= mem[s].start_idx
<1>1. PICK start \in Nat : start = mem[s].start_idx
    BY SoundLogs
<1>2. PICK k : k = last - mem[s].start_idx + 1
    OBVIOUS
<1>3. /\ FittingStep(s) /\ mem'[s].start_idx = last + 1
      /\ Shifted(files[s], files'[s], k) /\ k \in Nat
    BY <1>2, CompactPartStep DEF SoundInv
<1>4. PICK f, g : f = files[s] /\ g = files'[s]
    OBVIOUS
<1>5. Shifted(f, g, k) /\ g \in Files
    BY <1>3, <1>4, SoundLogs
<1>6. Log(g) = SubSeq(Log(f), k + 1, Len(Log(f)))
    BY <1>5, ShiftedLog
<1>7. last >= start
    BY <1>1, Zenon DEF CompactPart
<1>8. k + 1 = last - mem[s].start_idx + 2
    BY <1>1, <1>2
<1>9. LogShifted(s, last)
    BY <1>1, <1>3, <1>4, <1>6, <1>7, <1>8 DEF LogShifted, FittingStep
<1>10. QED
    BY <1>9, MappedCompact

\* Flushing, and closing and opening again, change nothing a caller sees.
LEMMA UnseenSteps ==
    ASSUME SoundInv, SoundInv', NEW s \in Store, Flush(s) \/ Reopen(s)
    PROVE  UNCHANGED Abs!absVars
<1>1. \A x \in Store : mem'[x].start_idx = mem[x].start_idx /\ Contents(x)' = Contents(x)
    <2>1. CASE Flush(s)
        <3>1. files' = files /\ mem' = mem
            BY <2>1, FlushStep DEF SoundInv
        <3>2. QED
            BY <3>1, SoundLogs
    <2>2. CASE Reopen(s)
        <3>1. files' = files /\ OnlyIn(s) /\ mem'[s].start_idx = mem[s].start_idx
            BY <2>2, ReopenStep DEF SoundInv, FittingStep
        <3>2. QED
            BY <3>1, SoundLogs, OthersKeep
    <2>3. QED
        BY <2>1, <2>2
<1>2. [x \in Store |-> mem[x].start_idx]' = [x \in Store |-> mem[x].start_idx]
    BY <1>1
<1>3. [x \in Store |-> Contents(x)]' = [x \in Store |-> Contents(x)]
    BY <1>1
<1>4. QED
    BY <1>2, <1>3 DEF Abs!absVars

\* A step in which nothing fails breaks no store.
LEMMA SoundNext ==
    ASSUME ~ShiftedPacks, ~WritesBelowBuffer, ~ShrinkingRewrites,
           SoundInv, Next, NoFailureYet'
    PROVE  SoundInv'
<1>1. FilesInv' /\ BufferInv'
    BY StoreNext DEF SoundInv, NoFailureYet, NoCrashYet
<1>2. ASSUME NEW s \in Store, FittingStep(s) PROVE broken' = {}
    BY <1>2 DEF FittingStep, SoundInv
<1>3. Last \in Nat /\ MaxLen \in Nat /\ 1..Last \subseteq Nat
      /\ 1..MaxLen \subseteq Nat \ {0}
    <2>1. Last \in Nat /\ MaxLen \in Nat
        BY StoreAssumption
    <2>2. QED
        BY <2>1
<1>4. FilesInv
    BY DEF SoundInv
<1>5. ASSUME NEW s \in Store, NEW e \in Entry, AppendEntry(s, e) PROVE FittingStep(s)
    BY <1>4, <1>5, AppendStep
<1>6. ASSUME NEW s \in Store, NEW e \in Entry, NEW index \in 1..Last,
             WriteAt(s, index, e)
      PROVE  FittingStep(s)
    BY <1>3, <1>4, <1>6, WriteAtStep
<1>7. ASSUME NEW s \in Store, NEW src \in Store, NEW index \in 1..Last,
             NEW cnt \in 1..MaxLen, CopyPack(src, s, index, cnt)
      PROVE  FittingStep(s)
    <2>1. PICK off, end, k : /\ off = index - mem[src].start_idx
                             /\ end = Smaller(off + cnt, Len(files[src].idx))
                             /\ k = index - mem[s].start_idx
        OBVIOUS
    <2>2. QED
        BY <1>3, <1>4, <1>7, <2>1, CopyPackStep
<1>8. ASSUME NEW s \in Store, NEW last \in 1..Last, CompactAll(s, last)
      PROVE  FittingStep(s)
    BY <1>3, <1>4, <1>8, CompactAllStep
<1>9. ASSUME NEW s \in Store, NEW last \in 1..Last, CompactPart(s, last)
      PROVE  FittingStep(s)
    <2>1. PICK k : k = last - mem[s].start_idx + 1
        OBVIOUS
    <2>2. QED
        BY <1>3, <1>4, <1>9, <2>1, CompactPartStep
<1>10. ASSUME NEW s \in Store, Flush(s) PROVE broken' = {}
    BY <1>10, Zenon DEF Flush, SoundInv
<1>11. ASSUME NEW s \in Store, Reopen(s) PROVE FittingStep(s)
    BY <1>4, <1>11, ReopenStep
<1>12. PICK c \in Counters : c = budget
    BY DEF SoundInv, FilesInv, TypeOK, Counters
<1>13. ASSUME NEW s \in Store, Crash(s) PROVE FALSE
    <2>1. budget' = [c EXCEPT !.crashes = @ + 1]
        BY <1>12, <1>13, Zenon DEF Crash
    <2>2. budget'.crashes = c.crashes + 1 /\ c.crashes \in Nat
        BY <2>1 DEF Counters
    <2>3. QED
        BY <2>2 DEF NoFailureYet
<1>14. ASSUME NEW s \in Store, CompactFails(s) PROVE FALSE
    <2>1. budget' = [c EXCEPT !.errors = @ + 1]
        BY <1>12, <1>14, Zenon DEF CompactFails
    <2>2. budget'.errors = c.errors + 1 /\ c.errors \in Nat
        BY <2>1 DEF Counters
    <2>3. QED
        BY <2>2 DEF NoFailureYet
<1>15. broken' = {}
    BY <1>2, <1>5, <1>6, <1>7, <1>8, <1>9, <1>10, <1>11, <1>13, <1>14 DEF Next
<1>16. QED
    BY <1>1, <1>15 DEF SoundInv

\* Every step in which nothing fails is a step of LogStore or invisible there.
LEMMA StepRefines ==
    ASSUME ~ShiftedPacks, ~ShrinkingRewrites, SoundInv, SoundInv',
           [Next]_vars, NoFailureYet'
    PROVE  [Abs!AbsNext]_(Abs!absVars)
<1> DEFINE st == [x \in Store |-> mem[x].start_idx]
           it == [x \in Store |-> Contents(x)]
           AbsEntry == {Cells(e) : e \in Entry}
<1>1. ASSUME NEW s \in Store
      PROVE  /\ st[s] = mem[s].start_idx /\ it[s] = Contents(s)
             /\ Abs!NextSlotOf(s) = mem[s].start_idx + Len(Contents(s))
    BY DEF Abs!NextSlotOf
<1>2. Last \in Nat /\ MaxLen \in Nat /\ 1..Last \subseteq Nat
      /\ 1..MaxLen \subseteq Nat \ {0}
    <2>1. Last \in Nat /\ MaxLen \in Nat
        BY StoreAssumption
    <2>2. QED
        BY <2>1
<1>3. ASSUME NEW s \in Store, NEW e \in Entry, AppendEntry(s, e) PROVE Abs!AbsNext
    <2>1. Abs!AppendEntry(s, Cells(e)) /\ Cells(e) \in AbsEntry
        BY <1>3, AppendRefines
    <2>2. QED
        BY <2>1 DEF Abs!AbsNext
<1>4. ASSUME NEW s \in Store, NEW e \in Entry, NEW index \in 1..Last,
             WriteAt(s, index, e)
      PROVE  Abs!AbsNext
    <2>1. /\ Abs!WriteAt(s, index, Cells(e)) /\ Cells(e) \in AbsEntry
          /\ index \in mem[s].start_idx..(mem[s].start_idx + Len(Contents(s)))
        BY <1>2, <1>4, WriteAtRefines
    <2>2. index \in st[s]..Abs!NextSlotOf(s)
        BY <1>1, <2>1
    <2>3. QED
        BY <2>1, <2>2 DEF Abs!AbsNext
<1>5. ASSUME NEW s \in Store, NEW src \in Store, NEW index \in 1..Last,
             NEW cnt \in 1..MaxLen, CopyPack(src, s, index, cnt)
      PROVE  Abs!AbsNext
    <2>1. /\ index \in mem[s].start_idx..(mem[s].start_idx + Len(Contents(s)))
          /\ \E c \in 1..Len(Contents(src)) : Abs!CopyPack(src, s, index, c)
        BY <1>2, <1>5, CopyPackRefines
    <2>2. /\ index \in st[s]..Abs!NextSlotOf(s)
          /\ \E c \in 1..Len(it[src]) : Abs!CopyPack(src, s, index, c)
        BY <1>1, <2>1
    <2>3. QED
        BY <2>2 DEF Abs!AbsNext
<1>6. ASSUME NEW s \in Store, NEW last \in 1..Last,
             CompactAll(s, last) \/ CompactPart(s, last)
      PROVE  Abs!AbsNext
    <2>1. Abs!Compact(s, last) /\ last >= mem[s].start_idx
        BY <1>2, <1>6, CompactAllRefines, CompactPartRefines
    <2>2. PICK start \in Nat : start = mem[s].start_idx
        BY SoundLogs
    <2>3. last \in start..Last
        BY <1>2, <2>1, <2>2
    <2>4. last \in st[s]..Last
        BY <1>1, <2>2, <2>3
    <2>5. QED
        BY <2>1, <2>4 DEF Abs!AbsNext
<1>7. ASSUME NEW s \in Store, Flush(s) \/ Reopen(s) PROVE UNCHANGED Abs!absVars
    BY <1>7, UnseenSteps
<1>8. ASSUME NEW s \in Store PROVE ~Crash(s) /\ ~CompactFails(s)
    <2>1. PICK c \in Counters : c = budget
        BY DEF SoundInv, FilesInv, TypeOK, Counters
    <2>2. ASSUME Crash(s) PROVE FALSE
        <3>1. budget' = [c EXCEPT !.crashes = @ + 1]
            BY <2>1, <2>2, Zenon DEF Crash
        <3>2. budget'.crashes = c.crashes + 1 /\ c.crashes \in Nat
            BY <3>1 DEF Counters
        <3>3. QED
            BY <3>2 DEF NoFailureYet
    <2>3. ASSUME CompactFails(s) PROVE FALSE
        <3>1. budget' = [c EXCEPT !.errors = @ + 1]
            BY <2>1, <2>3, Zenon DEF CompactFails
        <3>2. budget'.errors = c.errors + 1 /\ c.errors \in Nat
            BY <3>1 DEF Counters
        <3>3. QED
            BY <3>2 DEF NoFailureYet
    <2>4. QED
        BY <2>2, <2>3
<1>9. CASE UNCHANGED vars
    <2>1. files' = files /\ mem' = mem
        BY <1>9 DEF vars
    <2>2. \A x \in Store : mem'[x].start_idx = mem[x].start_idx /\ Contents(x)' = Contents(x)
        BY <2>1, SoundLogs
    <2>3. st' = st /\ it' = it
        BY <2>2
    <2>4. QED
        BY <2>3 DEF Abs!absVars
<1>10. CASE Next
    BY <1>3, <1>4, <1>5, <1>6, <1>7, <1>8, <1>10 DEF Next
<1>11. QED
    BY <1>9, <1>10

\* New stores are empty logs that start at index 1.
LEMMA InitRefines ==
    ASSUME Init
    PROVE  Abs!AbsInit
<1>1. FilesInv /\ BufferInv /\ broken = {}
    BY StoreInit DEF Init
<1>2. ASSUME NEW s \in Store PROVE mem[s].start_idx = 1 /\ Contents(s) = <<>>
    <2>1. mem[s] = InitMemory
        BY DEF Init
    <2>2. mem[s].start_idx = 1 /\ mem[s].entries_in_store = 0
        BY <2>1 DEF InitMemory
    <2>3. QED
        BY <2>2 DEF Contents
<1>3. QED
    BY <1>2 DEF Abs!AbsInit

\* fs_log_store keeps the promises of log_store: as long as no crash and no
\* I/O error happens, append, write_at, apply_pack and compact do to the log a
\* caller reads exactly what the interface says, for stores of any size, with
\* any buffer size, that are used as above.
THEOREM StoreImplementsLogStore ==
    ASSUME ~ShiftedPacks, ~WritesBelowBuffer, ~ShrinkingRewrites
    PROVE  Spec /\ []NoFailureYet => ImplementsLogStore
<1> DEFINE Inv == NoFailureYet => SoundInv
<1>1. Init => Inv
    BY StoreInit DEF SoundInv, Init
<1>2. Inv /\ [Next]_vars /\ NoFailureYet /\ NoFailureYet' => Inv'
    <2>1. SUFFICES ASSUME SoundInv, [Next]_vars, NoFailureYet' PROVE SoundInv'
        OBVIOUS
    <2>2. CASE Next
        BY <2>1, <2>2, SoundNext
    <2>3. CASE UNCHANGED vars
        BY <2>1, <2>3, StoreStutter DEF SoundInv, vars
    <2>4. QED
        BY <2>1, <2>2, <2>3
<1>3. Inv /\ Inv' /\ [Next]_vars /\ NoFailureYet /\ NoFailureYet'
          => [Abs!AbsNext]_(Abs!absVars)
    BY StepRefines
<1>4. Init => Abs!AbsInit
    BY InitRefines
<1>5. QED
    BY <1>1, <1>2, <1>3, <1>4, PTL DEF Spec, ImplementsLogStore, Abs!AbsSpec
=============================================================================
