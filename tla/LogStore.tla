------------------------------ MODULE LogStore ------------------------------
(***************************************************************************)
(* What log_store.hxx promises: each store is a window of a log, from a    *)
(* start index on.  Overwriting an entry drops every later one.  RaftServer *)
(* relies on exactly this, with the start index at 1.                      *)
(***************************************************************************)
EXTENDS Integers, Sequences

CONSTANTS
    Store,  \* the log stores, one per server
    Entry,  \* log entries
    Last    \* compaction may go up to this index

VARIABLES
    start,  \* start[s]: start_index()
    items   \* items[s]: the entries from there up to next_slot() - 1

absVars == <<start, items>>

NextSlotOf(s) == start[s] + Len(items[s])

Write(s, index, es) ==
    /\ index \in start[s]..NextSlotOf(s)
    /\ items' = [items EXCEPT ![s] = SubSeq(@, 1, index - start[s]) \o es]
    /\ UNCHANGED start

AppendEntry(s, e) == Write(s, NextSlotOf(s), <<e>>)

WriteAt(s, index, e) == Write(s, index, <<e>>)

\* pack on one store, apply_pack at the same index on another.
CopyPack(src, dst, index, cnt) ==
    LET first == index - start[src] + 1
    IN  /\ src # dst
        /\ index \in start[src]..(NextSlotOf(src) - 1)
        /\ Write(dst, index,
                 SubSeq(items[src], first,
                        IF first + cnt - 1 < Len(items[src])
                        THEN first + cnt - 1 ELSE Len(items[src])))

Compact(s, last) ==
    /\ last >= start[s]
    /\ start' = [start EXCEPT ![s] = last + 1]
    /\ items' = [items EXCEPT ![s] = SubSeq(@, last - start[s] + 2, Len(@))]

AbsInit ==
    /\ start = [s \in Store |-> 1]
    /\ items = [s \in Store |-> <<>>]

AbsNext ==
    \E s \in Store :
        \/ \E e \in Entry : AppendEntry(s, e)
        \/ \E e \in Entry, index \in start[s]..NextSlotOf(s) :
               WriteAt(s, index, e)
        \/ \E src \in Store, index \in start[s]..NextSlotOf(s) :
               \E cnt \in 1..Len(items[src]) : CopyPack(src, s, index, cnt)
        \/ \E last \in start[s]..Last : Compact(s, last)

AbsSpec == AbsInit /\ [][AbsNext]_absVars
=============================================================================
