----------------------------- MODULE FsLogStore -----------------------------
(***************************************************************************)
(* fs_log_store.cxx: a log store in three files (an index file of data     *)
(* positions, a data file of serialized entries, a start-index file) with  *)
(* an in-memory buffer of the newest entries.                              *)
(*                                                                         *)
(* A file is a sequence of cells.  Every operation holds store_lock_, so   *)
(* its effect on memory and on what the streams hold is one action; the    *)
(* writes then reach the disk one by one (Flush), and a crash may come     *)
(* between any two of them.                                                *)
(***************************************************************************)
EXTENDS Integers, Sequences

CONSTANTS
    Store,             \* the log stores, one per server
    Entry,             \* log entries
    Size,              \* Size[e]: cells of the serialized entry e
    BufSize,           \* buf_size_
    StreamBuf,         \* cells from which on a stream may not buffer a write
    WritesBelowBuffer, \* does a caller write_at below the buffer?
    ShrinkingRewrites, \* does a caller rewrite the last entry with a shorter one?
    ShiftedPacks,      \* do packs come from a store with other data positions?
    MaxLen,            \* bound: entries in a store
    Last,              \* bound: the largest index
    MaxCompacts,       \* bound: calls of compact
    MaxReopens,        \* bound: times a store is closed and opened again
    MaxCrashes,        \* bound: crashes
    MaxIoErrors        \* bound: I/O errors during compact

ASSUME StoreAssumption ==
    /\ Size \in [Entry -> Nat \ {0}]
    /\ BufSize \in Nat \ {0} /\ StreamBuf \in Nat
    /\ {WritesBelowBuffer, ShrinkingRewrites, ShiftedPacks} \subseteq BOOLEAN
    /\ {MaxLen, Last, MaxCompacts, MaxReopens, MaxCrashes, MaxIoErrors}
           \subseteq Nat

VARIABLES
    files,    \* files[s]: the three files as the streams of s see them
    disk,     \* disk[s]: the three files as a crash would leave them
    pend,     \* pend[s]: the states the disk still passes through
    keep,     \* keep[s]: how many entries the last write left alone
    mem,      \* mem[s]: start_idx_, entries_in_store_ and the buffer
    broken,   \* stores that threw: they could not be opened or restored
    budget    \* counters for the bounds

vars == <<files, disk, pend, keep, mem, broken, budget>>

-----------------------------------------------------------------------------
(* Serialized entries.  A deserialized entry is the cells it was read from. *)

Cells(e) == [k \in 1..Size[e] |-> <<e, k>>]
Hole == <<>>  \* a cell that was skipped by seeking past the end of a file
Cell == (Entry \X (Nat \ {0})) \cup {Hole}

Buffer == [start_idx : Nat, items : Seq(Seq(Cell))]
Files == [idx : Seq(Nat), data : Seq(Cell), sti : Nat]
Memory == [start_idx : Nat, entries_in_store : Nat, buf : Buffer]
EmptyFiles == [idx |-> <<>>, data |-> <<>>, sti |-> 0]

\* Write w over file f from position pos (counted from 0), as a stream does.
Larger(a, b) == IF a >= b THEN a ELSE b
Smaller(a, b) == IF a <= b THEN a ELSE b
Overwrite(f, pos, w) ==
    [k \in 1..Larger(Len(f), pos + Len(w)) |->
        IF k \in (pos + 1)..(pos + Len(w)) THEN w[k - pos]
        ELSE IF k <= Len(f) THEN f[k] ELSE Hole]

\* The entry at position k (from 1) of the index file, up to data position
\* end; <<>> if the read fails.
ReadTo(f, k, end) ==
    IF f.idx[k] < end /\ end <= Len(f.data)
    THEN SubSeq(f.data, f.idx[k] + 1, end) ELSE <<>>

\* fill_buffer takes the last entry to run to the end of the data file; the
\* other readers look for its end in the index file and fail.
FillEntry(f, k) ==
    ReadTo(f, k, IF k < Len(f.idx) THEN f.idx[k + 1] ELSE Len(f.data))
ReadEntry(f, k) == IF k < Len(f.idx) THEN ReadTo(f, k, f.idx[k + 1]) ELSE <<>>

-----------------------------------------------------------------------------
(* log_store_buffer. *)

LastIdx(b) == b.start_idx + Len(b.items)
InBuffer(b, index) == index >= b.start_idx /\ index < LastIdx(b)
Trim(b, start) ==
    IF InBuffer(b, start)
    THEN [b EXCEPT !.items = SubSeq(@, 1, start - b.start_idx)] ELSE b

\* Push es one after the other: past BufSize each one drops the oldest.
PushAllKeepingStart(b, es) ==
    LET all == b.items \o es
        excess == Larger(Len(all) - BufSize, 0)
    IN  [start_idx |-> b.start_idx, items |-> SubSeq(all, excess + 1, Len(all))]
PushAll(b, es) ==
    LET all == b.items \o es
        excess == Larger(Len(all) - BufSize, 0)
    IN  [start_idx |-> b.start_idx + excess,
         items |-> SubSeq(all, excess + 1, Len(all))]

\* fill_buffer, after the buffer was reset to the newest BufSize entries of
\* the n the store counts: it reads to the end of the index file.
FirstBuffered(start, n) == IF n > BufSize THEN n + start - BufSize ELSE start
FillBuffer(f, start, n) ==
    LET first == FirstBuffered(start, n)
        skip == first - start
    IN  PushAll([start_idx |-> first, items |-> <<>>],
                [k \in 1..(Len(f.idx) - skip) |-> FillEntry(f, skip + k)])
Fillable(f, start, n) ==
    \A k \in (FirstBuffered(start, n) - start + 1)..Len(f.idx) :
        FillEntry(f, k) # <<>>

-----------------------------------------------------------------------------
(* What the readers return. *)

NextSlot(s) == mem[s].start_idx + mem[s].entries_in_store
InStore(s, index) == index \in mem[s].start_idx..(NextSlot(s) - 1)

EntryAt(s, index) ==
    IF InBuffer(mem[s].buf, index)
    THEN mem[s].buf.items[index - mem[s].buf.start_idx + 1]
    ELSE ReadEntry(files[s], index - mem[s].start_idx + 1)

LastEntry(s) == mem[s].buf.items[Len(mem[s].buf.items)]

\* term_at reads the head of the entry; its length does not matter.
TermAt(s, index) ==
    IF InBuffer(mem[s].buf, index)
    THEN Head(mem[s].buf.items[index - mem[s].buf.start_idx + 1])
    ELSE files[s].data[files[s].idx[index - mem[s].start_idx + 1] + 1]

\* log_entries.  log_store_buffer::fill makes no room for the entries to be
\* read from the file when end is below the buffer, and they are then written
\* past the end of the result: undefined behaviour.
LogEntriesDefined(s, end) == end >= mem[s].buf.start_idx
LogEntriesOneTooFar(s, start, end) ==
    LET b == mem[s].buf
        From(index) == IF index <= b.start_idx
                       THEN ReadEntry(files[s], index - mem[s].start_idx + 1)
                       ELSE b.items[index - b.start_idx + 1]
    IN  [k \in 1..(end - start) |-> From(start + k - 1)]
LogEntries(s, start, end) ==
    LET b == mem[s].buf
        From(index) == IF index < b.start_idx
                       THEN ReadEntry(files[s], index - mem[s].start_idx + 1)
                       ELSE b.items[index - b.start_idx + 1]
    IN  [k \in 1..(end - start) |-> From(start + k - 1)]

\* pack: the raw index cells and the data they cover.
Pack(s, index, cnt) ==
    LET f == files[s]
        n == mem[s].entries_in_store
        offset == index - mem[s].start_idx
        end == Smaller(offset + cnt, n)
        eod == IF end = n THEN Len(f.data) ELSE f.idx[end + 1]
    IN  [idx |-> SubSeq(f.idx, offset + 1, end),
         data |-> SubSeq(f.data, f.idx[offset + 1] + 1, eod)]

-----------------------------------------------------------------------------
(* Operations. *)

Ready(s) == s \notin broken /\ pend[s] = <<>>

\* Is the data w written through before the index file is flushed?  The stream
\* buffers a short write until its own flush; a long one may go straight to
\* the file.
Early(w) == IF Len(w) < StreamBuf THEN {FALSE} ELSE BOOLEAN

\* What append, write_at and apply_pack do to the files: write index cells
\* from entry k + 1 on and data from pos on; if the index file was longer,
\* cut both files after what was written.  The states of the disk, in order:
\* the index file is flushed before the data file, which is written early, on
\* its own, if it is long.
SpliceCuttingOneMore(d, k, pos, widx, wdata, early) ==
    LET i1 == Overwrite(d.idx, k, widx)
        d1 == Overwrite(d.data, pos, wdata)
        cut == k + Len(widx) < Len(i1)
        i2 == SubSeq(i1, 1, k + Len(widx) - 1)
        d2 == SubSeq(d1, 1, pos + Len(wdata))
    IN  << IF early THEN [d EXCEPT !.data = d1] ELSE [d EXCEPT !.idx = i1],
           [d EXCEPT !.idx = i1, !.data = d1] >> \o
        (IF cut THEN << [d EXCEPT !.idx = i2, !.data = d1],
                        [d EXCEPT !.idx = i2, !.data = d2] >>
         ELSE <<>>)
Splice(d, k, pos, widx, wdata, early) ==
    LET i1 == Overwrite(d.idx, k, widx)
        d1 == Overwrite(d.data, pos, wdata)
        cut == k + Len(widx) < Len(i1)
        i2 == SubSeq(i1, 1, k + Len(widx))
        d2 == SubSeq(d1, 1, pos + Len(wdata))
    IN  << IF early THEN [d EXCEPT !.data = d1] ELSE [d EXCEPT !.idx = i1],
           [d EXCEPT !.idx = i1, !.data = d1] >> \o
        (IF cut THEN << [d EXCEPT !.idx = i2, !.data = d1],
                        [d EXCEPT !.idx = i2, !.data = d2] >>
         ELSE <<>>)

\* The streams hold the outcome at once; the disk gets there by Flush.  The
\* start-index file is only as far as it was flushed.
Perform(s, stages, left) ==
    LET end == stages[Len(stages)]
    IN  /\ pend' = [pend EXCEPT ![s] = stages]
        /\ files' = [files EXCEPT ![s].idx = end.idx, ![s].data = end.data]
        /\ keep' = [keep EXCEPT ![s] = left]

AppendEntry(s, e) ==
    LET d == disk[s]
    IN  /\ Ready(s) /\ mem[s].entries_in_store < MaxLen /\ NextSlot(s) <= Last
        /\ \E early \in Early(Cells(e)) :
               Perform(s, Splice(d, Len(d.idx), Len(d.data), <<Len(d.data)>>,
                                 Cells(e), early), Len(d.idx))
        /\ mem' = [mem EXCEPT ![s].buf = PushAll(@, <<Cells(e)>>),
                              ![s].entries_in_store = @ + 1]
        /\ UNCHANGED <<disk, broken, budget>>

\* Where entry k + 1 is to be written in the data file.
DataPosOneBack(s, k) == IF k < mem[s].entries_in_store
                        THEN disk[s].idx[k + 1] - 1 ELSE Len(disk[s].data)
DataPos(s, k) == IF k < mem[s].entries_in_store
                 THEN disk[s].idx[k + 1] ELSE Len(disk[s].data)

\* Does a write that ends at index cell k and data position pos leave a tail?
LeavesTail(s, k, pos) == Len(disk[s].idx) <= k /\ Len(disk[s].data) > pos

WriteAt(s, index, e) ==
    LET k == index - mem[s].start_idx
        pos == DataPos(s, k)
        old == k < mem[s].entries_in_store
        b == mem[s].buf
    IN  /\ Ready(s) /\ index \in mem[s].start_idx..NextSlot(s)
        /\ k < MaxLen /\ index <= Last
        /\ WritesBelowBuffer \/ index >= b.start_idx
        /\ ShrinkingRewrites \/ ~LeavesTail(s, k + 1, pos + Size[e])
        /\ \E early \in Early(Cells(e)) :
               Perform(s, Splice(disk[s], k, pos, <<pos>>, Cells(e), early), k)
        /\ mem' = [mem EXCEPT
               ![s].buf = PushAll(IF old THEN Trim(b, index) ELSE b,
                                  <<Cells(e)>>),
               ![s].entries_in_store = k + 1]
        /\ UNCHANGED <<disk, broken, budget>>

\* The memory of a store whose n entries from start on are in the files f;
\* if fill_buffer cannot read them, it throws.
Refill(s, f, start, n) ==
    IF Fillable(f, start, n)
    THEN /\ mem' = [mem EXCEPT ![s] =
                [start_idx |-> start, entries_in_store |-> n,
                 buf |-> FillBuffer(f, start, n)]]
         /\ broken' = broken \ {s}
    ELSE /\ broken' = broken \cup {s}
         /\ UNCHANGED mem

\* src packs cnt entries from index on, dst applies the pack there.
CopyPack(src, dst, index, cnt) ==
    LET p == Pack(src, index, cnt)
        k == index - mem[dst].start_idx
        pos == DataPos(dst, k)
    IN  /\ src # dst /\ Ready(src) /\ Ready(dst) /\ InStore(src, index)
        /\ index \in mem[dst].start_idx..NextSlot(dst)
        /\ k + Len(p.idx) <= MaxLen
        /\ ShiftedPacks \/ p.idx[1] = pos
        /\ ShrinkingRewrites
               \/ ~LeavesTail(dst, k + Len(p.idx), pos + Len(p.data))
        /\ \E early \in Early(p.data) :
               Perform(dst, Splice(disk[dst], k, pos, p.idx, p.data, early), k)
        /\ Refill(dst, files'[dst], mem[dst].start_idx, k + Len(p.idx))
        /\ UNCHANGED <<disk, budget>>

\* compact, when nothing is left: both files are removed and created again.
\* The new start index is written but not flushed.
CompactAll(s, last) ==
    LET d == disk[s]
    IN  /\ Ready(s) /\ budget.compacts < MaxCompacts
        /\ last >= mem[s].start_idx /\ last >= NextSlot(s) - 1
        /\ pend' = [pend EXCEPT ![s] =
               << [d EXCEPT !.idx = <<>>],
                  [d EXCEPT !.idx = <<>>, !.data = <<>>] >>]
        /\ files' = [files EXCEPT ![s] =
               [idx |-> <<>>, data |-> <<>>, sti |-> last + 1]]
        /\ mem' = [mem EXCEPT ![s] =
               [start_idx |-> last + 1, entries_in_store |-> 0,
                buf |-> [start_idx |-> last + 1, items |-> <<>>]]]
        /\ keep' = [keep EXCEPT ![s] = 0]
        /\ budget' = [budget EXCEPT !.compacts = @ + 1]
        /\ UNCHANGED <<disk, broken>>

\* Data positions count from the first entry kept.
NotRebased(pos, base) == pos
Rebased(pos, base) == pos - base

\* compact, when entries after last remain: the data file, then the index
\* file are moved to the front and cut, and the start index is flushed.
CompactPart(s, last) ==
    LET d == disk[s]
        k == last - mem[s].start_idx + 1
        base == d.idx[k + 1]
        data == SubSeq(d.data, base + 1, Len(d.data))
        idx == [j \in 1..(Len(d.idx) - k) |-> Rebased(d.idx[j + k], base)]
        end == [idx |-> idx, data |-> data, sti |-> last + 1]
    IN  /\ Ready(s) /\ budget.compacts < MaxCompacts
        /\ last >= mem[s].start_idx /\ last < NextSlot(s) - 1
        /\ pend' = [pend EXCEPT ![s] =
               << [d EXCEPT !.data = Overwrite(@, 0, data)],
                  [d EXCEPT !.data = data],
                  [d EXCEPT !.data = data, !.idx = Overwrite(@, 0, idx)],
                  [d EXCEPT !.data = data, !.idx = idx],
                  end >>]
        /\ files' = [files EXCEPT ![s] = end]
        /\ Refill(s, end, last + 1, mem[s].entries_in_store - k)
        /\ keep' = [keep EXCEPT ![s] = 0]
        /\ budget' = [budget EXCEPT !.compacts = @ + 1]
        /\ UNCHANGED disk

\* compact, when a file cannot be removed, truncated or opened again: all
\* three files are removed and the wrong data file (the backup) is created,
\* which empties it; the data file cannot be opened and compact throws.
CompactFails(s) ==
    /\ Ready(s) /\ budget.errors < MaxIoErrors
    /\ files' = [files EXCEPT ![s] = EmptyFiles]
    /\ disk' = [disk EXCEPT ![s] = EmptyFiles]
    /\ broken' = broken \cup {s}
    /\ keep' = [keep EXCEPT ![s] = 0]
    /\ budget' = [budget EXCEPT !.errors = @ + 1]
    /\ UNCHANGED <<pend, mem>>

-----------------------------------------------------------------------------
(* Flushes, reopening and crashes. *)

Flush(s) ==
    /\ pend[s] # <<>>
    /\ disk' = [disk EXCEPT ![s] = Head(pend[s])]
    /\ pend' = [pend EXCEPT ![s] = Tail(@)]
    /\ UNCHANGED <<files, keep, mem, broken, budget>>

\* The entries the constructor counts in the files d.
CountedOneLess(d) == IF d.sti = 0 \/ d.idx = <<>> THEN 0 ELSE Len(d.idx) - 1
Counted(d) == IF d.sti = 0 THEN 0 ELSE Len(d.idx)

\* The constructor on the files d.  Without a start index it takes the store
\* to be empty, and leaves the index it writes in the stream's buffer.
Open(s, d) ==
    LET start == IF d.sti = 0 THEN 1 ELSE d.sti
    IN  /\ files' = [files EXCEPT ![s] = [d EXCEPT !.sti = start]]
        /\ disk' = [disk EXCEPT ![s] = d]
        /\ pend' = [pend EXCEPT ![s] = <<>>]
        /\ keep' = [keep EXCEPT ![s] = 0]
        /\ Refill(s, d, start, Counted(d))

\* What close leaves on the disk.
Unclosed(s) == disk[s]
Closed(s) == files[s]

Reopen(s) ==
    /\ Ready(s) /\ budget.reopens < MaxReopens
    /\ budget' = [budget EXCEPT !.reopens = @ + 1]
    /\ Open(s, Closed(s))

Crash(s) ==
    /\ budget.crashes < MaxCrashes
    /\ budget' = [budget EXCEPT !.crashes = @ + 1]
    /\ Open(s, disk[s])

-----------------------------------------------------------------------------
InitMemory == [start_idx |-> 1, entries_in_store |-> 0,
               buf |-> [start_idx |-> 1, items |-> <<>>]]

Init ==
    /\ files = [s \in Store |-> [EmptyFiles EXCEPT !.sti = 1]]
    /\ disk = [s \in Store |-> EmptyFiles]
    /\ pend = [s \in Store |-> <<>>]
    /\ keep = [s \in Store |-> 0]
    /\ mem = [s \in Store |-> InitMemory]
    /\ broken = {}
    /\ budget = [compacts |-> 0, reopens |-> 0, crashes |-> 0, errors |-> 0]

Next ==
    \E s \in Store :
        \/ \E e \in Entry : AppendEntry(s, e)
        \/ \E e \in Entry, index \in 1..Last : WriteAt(s, index, e)
        \/ \E src \in Store, index \in 1..Last, cnt \in 1..MaxLen :
               InStore(src, index) /\ CopyPack(src, s, index, cnt)
        \/ \E last \in 1..Last : CompactAll(s, last)
        \/ \E last \in 1..Last : CompactPart(s, last)
        \/ CompactFails(s)
        \/ Flush(s)
        \/ Reopen(s)
        \/ Crash(s)

Spec == Init /\ [][Next]_vars

-----------------------------------------------------------------------------
(* Properties. *)

\* The files, the buffer and the counters keep their types.
TypeOK ==
    /\ files \in [Store -> Files]
    /\ disk \in [Store -> Files]
    /\ pend \in [Store -> Seq(Files)]
    /\ keep \in [Store -> Nat]
    /\ mem \in [Store -> Memory]
    /\ broken \subseteq Store
    /\ budget \in [compacts : Nat, reopens : Nat, crashes : Nat, errors : Nat]

Opened(s) == s \notin broken

\* Cells that begin with the cells of an entry.
Begins(cells, entry) ==
    /\ Len(entry) <= Len(cells)
    /\ \A i \in 1..Len(entry) : cells[i] = entry[i]

\* The log a caller sees through entry_at.
Contents(s) == [k \in 1..mem[s].entries_in_store |->
                   EntryAt(s, mem[s].start_idx + k - 1)]

\* fs_log_store keeps the promises of log_store: whatever mixture of buffer
\* and files entry_at reads from, it returns what was last written.
Abs == INSTANCE LogStore WITH
           Entry <- {Cells(e) : e \in Entry},
           start <- [s \in Store |-> mem[s].start_idx],
           items <- [s \in Store |-> Contents(s)]
ImplementsLogStore == Abs!AbsSpec

\* "Assumption: buffer.last_index() == entries_in_store_ + start_idx_", which
\* entry_at and log_entries rely on.
BufferEndsWithStore ==
    \A s \in Store : Opened(s) => LastIdx(mem[s].buf) = NextSlot(s)

\* last_entry, term_at and log_entries (for every range [from, to) it can
\* serve) agree with entry_at, wherever each of them reads.
ReadersAgree ==
    \A s \in Store : Opened(s) /\ mem[s].entries_in_store > 0 =>
        /\ LastEntry(s) = EntryAt(s, NextSlot(s) - 1)
        /\ \A from \in mem[s].start_idx..(NextSlot(s) - 1) :
               /\ TermAt(s, from) = Head(EntryAt(s, from))
               /\ \A to \in (from + 1)..NextSlot(s) :
                      LogEntriesDefined(s, to) =>
                          LogEntries(s, from, to) =
                              [k \in 1..(to - from) |-> EntryAt(s, from + k - 1)]

\* While append, write_at or apply_pack is under way, whichever writes a crash
\* would cut off, the files on disk hold every entry before the written ones:
\* as it is or, if it is the last one there and so read to the end of the data
\* file, with a tail, the data that was written through before its index.
EarlierEntriesOnDisk ==
    \A s \in Store : Opened(s) /\ budget.crashes = 0 =>
        \A k \in 1..keep[s] :
            /\ k <= Len(disk[s].idx)
            /\ k < Len(disk[s].idx) =>
                   FillEntry(disk[s], k) = FillEntry(files[s], k)
            /\ Begins(FillEntry(disk[s], k), FillEntry(files[s], k))

\* The entries of s that no operation under way writes or moves.
Settled(s) == IF pend[s] = <<>> THEN mem[s].entries_in_store ELSE keep[s]

\* A start index that compact or the constructor wrote but did not flush: on
\* the disk there is none, or the one from before compact emptied the store.
StartIndexUnflushed(s) == disk[s].sti # files[s].sti

\* When the process is killed and the log opened again, the constructor finds
\* every entry that no operation under way writes or moves, at its index, as
\* it was or with a tail; it throws only if an operation was cut off.  The one
\* exception is an unflushed start index: with none the constructor counts no
\* entry, with an old one it numbers the entries from there.  (This is said of
\* the first crash: a second one may find what the first left behind.)
CrashKeepsEntries ==
    [][\A s \in Store : Crash(s) /\ Opened(s) /\ budget.crashes = 0 =>
        \/ StartIndexUnflushed(s)
        \/ s \in broken' /\ pend[s] # <<>>
        \/ \A k \in 1..Settled(s) :
               LET index == mem[s].start_idx + k - 1
               IN  /\ InStore(s, index)'
                   /\ Begins(EntryAt(s, index)', EntryAt(s, index))]_vars

\* Closing a store and opening it again changes no entry.  ShrinkingRewrites
\* break it: the last entry is read to the end of the data file.
ReopenKeepsEntries ==
    [][\A s \in Store : Reopen(s) => Contents(s)' = Contents(s)]_vars

\* A pack applied at its own index puts the packed entries there.  ShiftedPacks
\* break it: the positions in a pack are those of the sender's data file.
PackCopiesEntries ==
    [][\A src, dst \in Store : \A index \in 1..Last, cnt \in 1..MaxLen :
        InStore(src, index) /\ CopyPack(src, dst, index, cnt) =>
            /\ dst \notin broken'
            /\ \A k \in 1..Len(Pack(src, index, cnt).idx) :
                   EntryAt(dst, index + k - 1)' = EntryAt(src, index + k - 1)]_vars
=============================================================================
