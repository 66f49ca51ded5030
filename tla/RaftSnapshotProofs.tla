------------------------- MODULE RaftSnapshotProofs -------------------------
(***************************************************************************)
(* Proofs about RaftSnapshot.                                              *)
(*                                                                         *)
(* IndexInv says how the indexes of one server stay ordered while its      *)
(* commit thread, its snapshots and the installation of the leader's       *)
(* snapshot move them, and what the leader's requests can ask for.         *)
(*                                                                         *)
(* The other three are about the followers that no request overtook the    *)
(* callback of.  CallInv says that the response a handler sees belongs to  *)
(* the last request made to that peer, and that a block of a snapshot is   *)
(* only sent when the ones before it are stored; ContentInv that the state *)
(* machine reflects what it is thought to; and LevelInv where the          *)
(* follower's log ends as long as no RPC was lost.                         *)
(***************************************************************************)
EXTENDS RaftSnapshot, FiniteSetTheorems, WellFoundedInduction, TLAPS

-----------------------------------------------------------------------------
(* Shapes of messages and peer objects. *)

PeerObjects == [next : Nat, matched : Nat, busy : BOOLEAN, pending : BOOLEAN,
                sync : Sync]
AppendReqs ==
    [type : {"append_req"}, peer : Follower, prev : Nat, n : Nat,
     commit_idx : Nat, live : BOOLEAN, queued : {FALSE}]
SnapshotReqs ==
    [type : {"snapshot_req"}, peer : Follower, idx : Nat, offset : Nat,
     done : BOOLEAN, live : BOOLEAN, queued : {FALSE}]
Responses ==
    [type : {"append_resp", "snapshot_resp"}, peer : Follower,
     accepted : BOOLEAN, next : Nat, live : {TRUE}, queued : BOOLEAN]

\* The type field tells which kind of message a record is.
LEMMA MessageKinds ==
    ASSUME NEW m \in Messages
    PROVE  /\ m.type = "append_req" => m \in AppendReqs
           /\ m.type = "snapshot_req" => m \in SnapshotReqs
           /\ m.type = "append_resp" => m \in Responses
           /\ m.type = "snapshot_resp" => m \in Responses
           /\ m.type \in {"append_req", "snapshot_req", "append_resp",
                          "snapshot_resp"}
           /\ m.peer \in Follower /\ m.live \in BOOLEAN /\ m.queued \in BOOLEAN
           /\ m.queued => m \in Responses
           /\ ~IsReq(m) => m \in Responses
BY DEF Messages, AppendReqs, SnapshotReqs, Responses, IsReq

\* A request that was made is well-formed and asks for entries the leader has.
LEMMA ReqFacts ==
    ASSUME NEW f \in Follower, NEW p \in PeerObjects, NEW end \in Nat,
           NEW qc \in Nat, Outcome(p, end) = "made",
           start[Leader] \in Nat, snap[Leader] \in Nat
    PROVE  /\ PrevIdx(p, end) \in Nat /\ PrevIdx(p, end) <= end
           /\ Req(f, p, end, qc) \in Messages
           /\ Req(f, p, end, qc).peer = f /\ Req(f, p, end, qc).live
           /\ ~Req(f, p, end, qc).queued
           /\ PeerAfter(p, end) \in PeerObjects
           /\ PeerAfter(p, end).next = PrevIdx(p, end) + 1
           /\ PeerAfter(p, end).busy
           /\ PeerAfter(p, end).sync =
                  IF NeedsSnapshot(PrevIdx(p, end), start[Leader])
                  THEN SyncOf(p) ELSE p.sync
           /\ Req(f, p, end, qc).type =
                  IF NeedsSnapshot(PrevIdx(p, end), start[Leader])
                  THEN "snapshot_req" ELSE "append_req"
           /\ NeedsSnapshot(PrevIdx(p, end), start[Leader]) =>
                  /\ Req(f, p, end, qc).idx = SyncOf(p).idx
                  /\ Req(f, p, end, qc).offset = SyncOf(p).offset
                  /\ Req(f, p, end, qc).done = Done(SyncOf(p).offset)
           /\ ~NeedsSnapshot(PrevIdx(p, end), start[Leader]) =>
                  /\ Req(f, p, end, qc).prev = PrevIdx(p, end)
                  /\ Req(f, p, end, qc).prev + Req(f, p, end, qc).n <= end
<1> DEFINE prev == PrevIdx(p, end)
<1>1. prev \in Nat /\ prev <= end
    BY DEF PrevIdx, Outcome, PeerObjects
<1>2. SyncOf(p) \in Sync
    BY DEF SyncOf, Sync, PeerObjects
<1>3. /\ PeerAfter(p, end) \in PeerObjects
      /\ PeerAfter(p, end).next = prev + 1
      /\ PeerAfter(p, end).busy
      /\ PeerAfter(p, end).sync =
             IF NeedsSnapshot(prev, start[Leader]) THEN SyncOf(p) ELSE p.sync
    <2> DEFINE sy == IF NeedsSnapshot(prev, start[Leader])
                     THEN SyncOf(p) ELSE p.sync
    <2>1. sy \in Sync
        BY <1>2 DEF PeerObjects
    <2>2. PeerAfter(p, end) = [p EXCEPT !.next = prev + 1, !.busy = TRUE,
                                        !.sync = sy]
        BY DEF PeerAfter
    <2>3. prev + 1 \in Nat
        BY <1>1
    <2> HIDE DEF prev, sy
    <2>4. QED
        BY <2>1, <2>2, <2>3 DEF PeerObjects, sy
<1>4. CASE NeedsSnapshot(prev, start[Leader])
    <2>1. Req(f, p, end, qc) =
              [type |-> "snapshot_req", peer |-> f, idx |-> SyncOf(p).idx,
               offset |-> SyncOf(p).offset, done |-> Done(SyncOf(p).offset),
               live |-> TRUE, queued |-> FALSE]
        BY <1>4 DEF Req
    <2>2. SyncOf(p).idx \in Nat /\ SyncOf(p).offset \in Nat
        BY <1>2 DEF Sync
    <2>3. Done(SyncOf(p).offset) \in BOOLEAN
        BY DEF Done
    <2>4. Req(f, p, end, qc) \in SnapshotReqs
        BY <2>1, <2>2, <2>3 DEF SnapshotReqs
    <2>5. Req(f, p, end, qc) \in Messages
        BY <2>4 DEF SnapshotReqs, Messages
    <2> HIDE DEF prev
    <2>6. QED
        BY <1>1, <1>3, <1>4, <2>1, <2>5 DEF prev
<1>5. CASE ~NeedsSnapshot(prev, start[Leader])
    <2>1. Req(f, p, end, qc) =
              [type |-> "append_req", peer |-> f, prev |-> prev,
               n |-> Smaller(end - prev, MaxAppendSize), commit_idx |-> qc,
               live |-> TRUE, queued |-> FALSE]
        BY <1>5 DEF Req
    <2> HIDE DEF prev
    <2>2. /\ Smaller(end - prev, MaxAppendSize) \in Nat
          /\ prev + Smaller(end - prev, MaxAppendSize) <= end
        BY <1>1, SnapshotAssumption DEF Smaller
    <2>4. Req(f, p, end, qc) \in AppendReqs
        BY <1>1, <2>1, <2>2 DEF AppendReqs
    <2>5. Req(f, p, end, qc) \in Messages
        BY <2>4 DEF AppendReqs, Messages
    <2>6. QED
        BY <1>1, <1>3, <1>5, <2>1, <2>2, <2>5 DEF prev
<1>6. QED
    BY <1>4, <1>5

\* What request_append_entries to dests leaves behind: each peer is as before,
\* or was free and is now busy with a request of its own, or was free and is
\* busy because its request could not be made.  A request that overtakes the
\* callback of a response is noted.
Sent(dests, end, qc, ps, ms) ==
    /\ peer' \in [Follower -> PeerObjects]
    /\ \A f \in Follower :
           \/ peer'[f] = ps[f]
           \/ f \in dests /\ ~ps[f].busy /\ peer'[f] = [ps[f] EXCEPT !.busy = TRUE]
           \/ /\ f \in dests /\ ~ps[f].busy /\ Outcome(ps[f], end) = "made"
              /\ peer'[f] = PeerAfter(ps[f], end)
              /\ Req(f, ps[f], end, qc) \in net'
    /\ net' \subseteq Messages /\ ms \subseteq net'
    /\ \A m \in net' :
           \/ m \in ms
           \/ /\ m.peer \in dests /\ ~ps[m.peer].busy
              /\ Outcome(ps[m.peer], end) = "made"
              /\ m = Req(m.peer, ps[m.peer], end, qc)
              /\ peer'[m.peer] = PeerAfter(ps[m.peer], end)
              /\ Waiting(m.peer, ms) => m.peer \in overtaken'
    /\ overtaken \subseteq overtaken' /\ overtaken' \subseteq overtaken \cup dests
    /\ \/ up' = up
       \/ \E f \in dests :
              /\ Outcome(ps[f], end) \notin {"made", "throws"}
              /\ up' = [up EXCEPT ![Leader] = Outcome(ps[f], end)]

\* What request_append_entries does is Sent.
LEMMA RequestSends ==
    ASSUME NEW dests \in SUBSET Follower, NEW end \in Nat, NEW qc \in Nat,
           NEW ps \in [Follower -> PeerObjects], NEW ms \in SUBSET Messages,
           RequestAppendEntries(dests, end, qc, ps, ms),
           start[Leader] \in Nat, snap[Leader] \in Nat
    PROVE  Sent(dests, end, qc, ps, ms)
<1> DEFINE free == {f \in dests : ~ps[f].busy}
           bad == {f \in free : Outcome(ps[f], end) # "made"}
           Send(fs) == /\ peer' = [f \in Follower |->
                              IF f \in fs THEN PeerAfter(ps[f], end)
                              ELSE IF f \in bad /\ fs # free
                              THEN [ps[f] EXCEPT !.busy = TRUE] ELSE ps[f]]
                       /\ net' = ms \cup {Req(f, ps[f], end, qc) : f \in fs}
                       /\ overtaken' = overtaken \cup {f \in fs : Waiting(f, ms)}
<1>1. PICK fs \in SUBSET (free \ bad) : Send(fs)
    BY DEF RequestAppendEntries
<1>2. \/ up' = up
      \/ \E f \in dests :
             /\ Outcome(ps[f], end) \notin {"made", "throws"}
             /\ up' = [up EXCEPT ![Leader] = Outcome(ps[f], end)]
    BY DEF RequestAppendEntries
<1>3. ASSUME NEW f \in fs
      PROVE  /\ f \in dests /\ f \in Follower /\ ~ps[f].busy
             /\ Outcome(ps[f], end) = "made"
             /\ ps[f] \in PeerObjects
             /\ PeerAfter(ps[f], end) \in PeerObjects
             /\ Req(f, ps[f], end, qc) \in Messages
             /\ Req(f, ps[f], end, qc).peer = f
    <2>1. /\ f \in dests /\ f \in Follower /\ ~ps[f].busy
          /\ Outcome(ps[f], end) = "made" /\ ps[f] \in PeerObjects
        OBVIOUS
    <2>2. QED
        BY <2>1, ReqFacts
<1>4. ASSUME NEW f \in Follower
      PROVE  [ps[f] EXCEPT !.busy = TRUE] \in PeerObjects /\ ps[f] \in PeerObjects
    BY DEF PeerObjects
<1>5. ASSUME NEW f \in Follower
      PROVE  peer'[f] = IF f \in fs THEN PeerAfter(ps[f], end)
                        ELSE IF f \in bad /\ fs # free
                        THEN [ps[f] EXCEPT !.busy = TRUE] ELSE ps[f]
    BY <1>1
<1>6. peer' \in [Follower -> PeerObjects]
    <2> DEFINE F(f) == IF f \in fs THEN PeerAfter(ps[f], end)
                       ELSE IF f \in bad /\ fs # free
                       THEN [ps[f] EXCEPT !.busy = TRUE] ELSE ps[f]
    <2>1. \A f \in Follower : F(f) \in PeerObjects
        BY <1>3, <1>4
    <2>2. peer' = [f \in Follower |-> F(f)]
        BY <1>1
    <2> HIDE DEF F
    <2>3. QED
        BY <2>1, <2>2
<1>7. \A f \in Follower :
           \/ peer'[f] = ps[f]
           \/ f \in dests /\ ~ps[f].busy /\ peer'[f] = [ps[f] EXCEPT !.busy = TRUE]
           \/ /\ f \in dests /\ ~ps[f].busy /\ Outcome(ps[f], end) = "made"
              /\ peer'[f] = PeerAfter(ps[f], end)
              /\ Req(f, ps[f], end, qc) \in net'
    BY <1>1, <1>3, <1>5
<1>8. net' \subseteq Messages /\ ms \subseteq net'
    BY <1>1, <1>3
<1>9. \A m \in net' :
           \/ m \in ms
           \/ /\ m.peer \in dests /\ ~ps[m.peer].busy
              /\ Outcome(ps[m.peer], end) = "made"
              /\ m = Req(m.peer, ps[m.peer], end, qc)
              /\ peer'[m.peer] = PeerAfter(ps[m.peer], end)
              /\ Waiting(m.peer, ms) => m.peer \in overtaken'
    BY <1>1, <1>3, <1>5
<1>10. overtaken \subseteq overtaken' /\ overtaken' \subseteq overtaken \cup dests
    BY <1>1
<1>11. QED
    BY <1>2, <1>6, <1>7, <1>8, <1>9, <1>10 DEF Sent
-----------------------------------------------------------------------------
(* The index a majority has reached. *)

\* There are finitely many servers.
LEMMA ServerIsFinite == IsFiniteSet(Server)
BY SnapshotAssumption, FS_Singleton, FS_Union DEF Server

\* Every set of naturals with an element has a least one.
LEMMA LeastNatural ==
    ASSUME NEW T \in SUBSET Nat, T # {}
    PROVE  \E x \in T : \A y \in T : x <= y
<1> DEFINE Less == {ss \in Nat \X Nat : ss[1] < ss[2]}
<1>1. OpToRel(<, Nat) = Less
    BY Zenon DEF OpToRel
<1>2. IsWellFoundedOn(Less, Nat)
    BY <1>1, NatLessThanWellFounded, Zenon
<1> HIDE DEF Less
<1>3. \E x \in T : \A y \in T : ~ (<<y, x>> \in Less)
    BY <1>2, WFMin, Zenon
<1>4. \A x, y \in Nat : x < y => <<x, y>> \in Less
    BY SMT DEF Less
<1>5. PICK x \in T : \A y \in T : ~ (<<y, x>> \in Less)
    BY <1>3, Zenon
<1>6. ASSUME NEW y \in T PROVE x <= y
    <2>1. x \in Nat /\ y \in Nat
        OBVIOUS
    <2>2. ~ (y < x)
        BY <1>4, <1>5, <2>1, Zenon
    <2>3. QED
        BY <2>1, <2>2
<1>7. QED
    BY <1>6

\* Some server's index is exceeded by no majority and reached by one: the
\* position handle_append_entries_resp reads in the sorted indexes exists.
Most(S) == 2 * Cardinality(S) > Cardinality(Server)

\* The servers have an index that no majority exceeds and one reaches.
LEMMA MedianExists ==
    ASSUME NEW f \in [Server -> Nat]
    PROVE  \E j \in Server :
               /\ ~Most({l \in Server : f[l] > f[j]})
               /\ Most({l \in Server : f[l] >= f[j]})
<1> DEFINE Above(j) == {l \in Server : f[l] > f[j]}
           From(j) == {l \in Server : f[l] >= f[j]}
           D == {j \in Server : Most(From(j))}
           Sizes == {Cardinality(From(j)) : j \in D}
<1>1. Cardinality(Server) \in Nat \ {0} /\ Server # {}
    BY ServerIsFinite, FS_CardinalityType, FS_EmptySet DEF Server
<1>2. ASSUME NEW S \in SUBSET Server, S # {}
      PROVE  \E l \in S : \A k \in S : f[l] <= f[k]
    <2> DEFINE T == {f[l] : l \in S}
    <2>1. T \in SUBSET Nat /\ T # {}
        BY <1>2
    <2>2. PICK x \in T : \A y \in T : x <= y
        BY <2>1, LeastNatural
    <2>3. QED
        BY <2>2
<1>3. \A S \in SUBSET Server : IsFiniteSet(S) /\ Cardinality(S) \in Nat
    BY ServerIsFinite, FS_Subset, FS_CardinalityType
<1>4. D # {}
    <2>1. PICK l \in Server : \A k \in Server : f[l] <= f[k]
        BY <1>1, <1>2
    <2>2. From(l) = Server
        BY <2>1
    <2>3. Most(From(l))
        BY <1>1, <2>2 DEF Most
    <2>4. QED
        BY <2>3
<1>5. PICK j \in D : \A k \in D : Cardinality(From(j)) <= Cardinality(From(k))
    <2>1. Sizes \in SUBSET Nat /\ Sizes # {}
        BY <1>3, <1>4
    <2>2. PICK x \in Sizes : \A y \in Sizes : x <= y
        BY <2>1, LeastNatural
    <2>3. PICK j \in D : x = Cardinality(From(j))
        BY <2>2, Zenon
    <2>4. \A k \in D : Cardinality(From(k)) \in Sizes
        BY Zenon
    <2>5. \A k \in D : Cardinality(From(j)) <= Cardinality(From(k))
        BY <2>2, <2>3, <2>4, Zenon
    <2>6. QED
        BY <2>5, Zenon
<1>6. ~Most(Above(j))
    <2>1. SUFFICES ASSUME Most(Above(j)) PROVE FALSE
        OBVIOUS
    <2>2. Above(j) # {}
        <3>1. Cardinality({}) = 0
            BY FS_EmptySet
        <3>2. ~Most({})
            BY <1>1, <3>1 DEF Most
        <3>3. QED
            BY <2>1, <3>2
    <2>3. PICK l \in Above(j) : \A k \in Above(j) : f[l] <= f[k]
        BY <1>2, <2>2
    <2>4. From(l) = Above(j)
        <3>1. From(l) \subseteq Above(j)
            BY <2>3
        <3>2. Above(j) \subseteq From(l)
            BY <2>3
        <3>3. QED
            BY <3>1, <3>2
    <2>5. l \in D
        BY <2>1, <2>4
    <2>6. Above(j) \subseteq From(j) /\ j \in From(j) /\ j \notin Above(j)
        OBVIOUS
    <2>7. Cardinality(Above(j)) < Cardinality(From(j))
        <3>1. From(j) \in SUBSET Server
            OBVIOUS
        <3> HIDE DEF From, Above
        <3>2. IsFiniteSet(From(j))
            BY <3>1, <1>3
        <3>3. /\ Cardinality(Above(j)) <= Cardinality(From(j))
              /\ Cardinality(From(j)) = Cardinality(Above(j)) => From(j) = Above(j)
            BY <3>2, <2>6, FS_Subset
        <3>4. Cardinality(From(j)) \in Nat /\ Cardinality(Above(j)) \in Nat
            BY <3>2, <2>6, FS_Subset, FS_CardinalityType
        <3>5. QED
            BY <3>3, <3>4, <2>6
    <2>8. Cardinality(From(j)) <= Cardinality(Above(j))
        BY <1>5, <2>4, <2>5
    <2>9. Cardinality(From(j)) \in Nat /\ Cardinality(Above(j)) \in Nat
        BY <1>3
    <2>10. QED
        BY <2>7, <2>8, <2>9
<1>7. QED
    BY <1>6

\* The index handle_append_entries_resp commits is an index.
LEMMA MajorityMatchedType ==
    ASSUME NEW ps \in [Follower -> PeerObjects], last \in [Server -> Nat]
    PROVE  MajorityMatched(ps) \in Nat
<1> DEFINE Matched(s) == IF s = Leader THEN last[Leader] ELSE ps[s].matched
           f == [s \in Server |-> Matched(s)]
           V == {Matched(s) : s \in Server}
           Mid(x) == /\ ~Most({s \in Server : Matched(s) > x})
                     /\ Most({s \in Server : Matched(s) >= x})
<1>1. \A s \in Server : Matched(s) \in Nat
    BY DEF Server, PeerObjects
<1>2. f \in [Server -> Nat]
    BY <1>1
<1>3. \A s \in Server : f[s] = Matched(s)
    OBVIOUS
<1>4. PICK j \in Server : /\ ~Most({l \in Server : f[l] > f[j]})
                          /\ Most({l \in Server : f[l] >= f[j]})
    BY <1>2, MedianExists
<1>5. Mid(f[j])
    <2>1. {l \in Server : f[l] > f[j]} = {l \in Server : Matched(l) > f[j]}
        BY <1>3
    <2>2. {l \in Server : f[l] >= f[j]} = {l \in Server : Matched(l) >= f[j]}
        BY <1>3
    <2>3. QED
        BY <1>4, <2>1, <2>2
<1>6. f[j] \in V /\ V \subseteq Nat
    BY <1>1, <1>3
<1>7. MajorityMatched(ps) = CHOOSE x \in V : Mid(x)
    BY DEF MajorityMatched, Most
<1> HIDE DEF V, Mid, f
<1>8. QED
    BY <1>5, <1>6, <1>7

-----------------------------------------------------------------------------
(* How the indexes of a server are ordered. *)

Causes == {"up", "too_large", "no_snapshot", "bad_term", "bad_install",
           "bad_commit"}
Typed ==
    /\ up \in [Server -> Causes]
    /\ start \in [Server -> Nat] /\ last \in [Server -> Nat]
    /\ quick \in [Server -> Nat] /\ commit \in [Server -> Nat]
    /\ saved \in [Server -> Nat] /\ applying \in [Server -> Nat]
    /\ snap \in [Server -> Nat]
    /\ making \in [Server -> [idx : Nat, done : BOOLEAN]]
    /\ content \in [Server -> SUBSET Nat]
    /\ chunks \in [Follower -> SUBSET (Nat \X Nat)]
    /\ peer \in [Follower -> PeerObjects]
    /\ net \subseteq Messages
    /\ errors \in Nat /\ restarts \in Nat
    /\ marks \subseteq Follower \X {"raced", "behind", "torn"}

Marked(s, why) == <<s, why>> \in marks

\* The commit thread works inside the log and never overtakes quick_commit_idx_;
\* the snapshot being made is behind both of its indexes.
IndexOrder(s) ==
    /\ start[s] >= 1 /\ start[s] <= last[s] + 1
    /\ commit[s] <= last[s] /\ saved[s] <= last[s]
    /\ applying[s] <= last[s] /\ snap[s] <= last[s]
    /\ applying[s] <= commit[s] + 1
    /\ commit[s] <= quick[s] /\ applying[s] <= quick[s]
    /\ making[s].idx <= commit[s]
    /\ applying[s] # 0 => making[s].idx < applying[s]
    /\ making[s].done => making[s].idx # 0 /\ making[s].idx <= snap[s]

\* The saved index is behind the ones in memory, unless an installation that
\* met an apply saved it.
SavedOrder(s) ==
    /\ saved[s] <= commit[s] \/ saved[s] < start[s]
    /\ applying[s] # 0 => saved[s] <= applying[s] \/ saved[s] < start[s]

\* The next entry to commit is in the log, except after the three mishaps; a
\* server that met an apply with an installation is up only until it notices.
CompactOrder(s) ==
    /\ ~Marked(s, "torn") => start[s] - 1 <= snap[s]
    /\ ~Marked(s, "torn") /\ ~Marked(s, "behind") /\ ~Marked(s, "raced") =>
           /\ start[s] <= commit[s] + 1
           /\ applying[s] # 0 => start[s] <= applying[s] + 1
    /\ Up(s) /\ ~Marked(s, "torn") /\ ~Marked(s, "behind") =>
           start[s] <= commit[s] + 1

ExitOrder(s) ==
    /\ up[s] # "no_snapshot"
    /\ up[s] = "bad_install" => Marked(s, "behind") \/ Marked(s, "torn")
    /\ up[s] = "bad_commit" =>
           Marked(s, "raced") \/ Marked(s, "behind") \/ Marked(s, "torn")

ServerOrder(s) ==
    IndexOrder(s) /\ SavedOrder(s) /\ CompactOrder(s) /\ ExitOrder(s)

\* The leader's last snapshot is the one its log was compacted to, except
\* between the making of a snapshot and its compaction.
LeaderSnapshot ==
    /\ ~making[Leader].done => snap[Leader] = start[Leader] - 1
    /\ making[Leader].done => snap[Leader] = making[Leader].idx
    /\ making[Leader].idx # 0 => making[Leader].idx >= start[Leader]
    /\ up[Leader] = "bad_term" => making[Leader].done

\* What was asked for and answered is within the leader's log.
MessageFits(m) ==
    /\ m.type = "append_req" => m.prev + m.n <= last[Leader]
    /\ m.type = "snapshot_req" =>
           m.done = Done(m.offset) /\ m.idx <= snap[Leader]
    /\ m.type = "append_resp" => m.next > 0
    /\ m.type = "append_resp" /\ m.accepted => m.next <= last[Leader] + 1
RequestsFit ==
    /\ \A m \in net : MessageFits(m)
    /\ \A f \in Follower : peer[f].sync.idx <= snap[Leader]

IndexInv ==
    /\ Typed
    /\ \A s \in Server : ServerOrder(s)
    /\ LeaderSnapshot
    /\ RequestsFit

\* The initial state.
LEMMA InitIndexes == Init => IndexInv
<1> SUFFICES ASSUME Init PROVE IndexInv
    OBVIOUS
<1>0. \A s \in Server : Has(s) \in 0..1
    BY DEF Has
<1>1. Leader \in Server /\ Has(Leader) = 1 /\ Follower \subseteq Server
    BY SnapshotAssumption DEF Server, Has
<1>2. Typed
    <2>1. /\ up \in [Server -> Causes]
          /\ start \in [Server -> Nat] /\ last \in [Server -> Nat]
          /\ quick \in [Server -> Nat] /\ commit \in [Server -> Nat]
          /\ saved \in [Server -> Nat] /\ applying \in [Server -> Nat]
          /\ snap \in [Server -> Nat]
        BY <1>0 DEF Init, Causes
    <2>2. None \in [idx : Nat, done : BOOLEAN] /\ NoSync \in Sync
        BY DEF None, NoSync, Sync
    <2>3. making \in [Server -> [idx : Nat, done : BOOLEAN]]
        BY <2>2 DEF Init
    <2>4. content \in [Server -> SUBSET Nat]
        BY <1>0 DEF Init
    <2>5. chunks \in [Follower -> SUBSET (Nat \X Nat)]
        BY DEF Init
    <2>6. peer \in [Follower -> PeerObjects]
        <3>1. \A f \in Follower :
                  [next |-> 2, matched |-> Has(f), busy |-> FALSE,
                   pending |-> FALSE, sync |-> NoSync] \in PeerObjects
            BY <1>0, <1>1, <2>2 DEF PeerObjects
        <3>2. QED
            BY <3>1 DEF Init
    <2>7. QED
        BY <2>1, <2>3, <2>4, <2>5, <2>6 DEF Init, Typed
<1>3. ASSUME NEW s \in Server PROVE ServerOrder(s)
    <2>1. /\ start[s] = 1 /\ last[s] = Has(s) /\ quick[s] = Has(s)
          /\ commit[s] = Has(s) /\ saved[s] = Has(s) /\ applying[s] = 0
          /\ snap[s] = 0 /\ making[s].idx = 0 /\ ~making[s].done
          /\ up[s] = "up"
        BY DEF Init, None
    <2>2. QED
        BY <1>0, <2>1 DEF ServerOrder, IndexOrder, SavedOrder, CompactOrder,
                          ExitOrder
<1>4. LeaderSnapshot
    BY <1>1 DEF Init, LeaderSnapshot, None
<1>5. RequestsFit
    <2>1. \A f \in Follower : peer[f].sync.idx = 0 /\ snap[Leader] = 0
        BY <1>1 DEF Init, NoSync
    <2>2. QED
        BY <2>1 DEF Init, RequestsFit
<1>6. QED
    BY <1>2, <1>3, <1>4, <1>5 DEF IndexInv

\* The order stays when the log grows, quick_commit_idx_ rises or the process
\* ends in an explained way.
LEMMA OrderStays ==
    ASSUME NEW s \in Server, Typed, Typed', ServerOrder(s),
           start'[s] = start[s], commit'[s] = commit[s], saved'[s] = saved[s],
           applying'[s] = applying[s], snap'[s] = snap[s],
           making'[s] = making[s],
           \A why : (<<s, why>> \in marks') = (<<s, why>> \in marks),
           last'[s] >= last[s], quick'[s] >= quick[s],
           \/ up'[s] = up[s]
           \/ up'[s] \in {"too_large", "bad_term"}
           \/ /\ up'[s] = "bad_install"
              /\ Marked(s, "behind") \/ Marked(s, "torn")
    PROVE  ServerOrder(s)'
<1>1. IndexOrder(s)'
    BY DEF ServerOrder, IndexOrder, Typed
<1>2. SavedOrder(s)'
    BY DEF ServerOrder, SavedOrder, Typed
<1>3. CompactOrder(s)'
    BY DEF ServerOrder, CompactOrder, Typed, Up, Marked
<1>4. ExitOrder(s)'
    BY DEF ServerOrder, ExitOrder, Marked
<1>5. QED
    BY <1>1, <1>2, <1>3, <1>4 DEF ServerOrder

\* No mishap ever happens to the leader.
LEMMA LeaderUnmarked ==
    ASSUME Typed
    PROVE  /\ Leader \in Server /\ Leader \notin Follower
           /\ \A why : <<Leader, why>> \notin marks
BY SnapshotAssumption DEF Typed, Server

\* A request that fits the log, or the end of the leader's process with a
\* term that it does not know.
LEMMA SentFits ==
    ASSUME IndexInv, NEW dests \in SUBSET Follower, NEW end \in Nat,
           NEW qc \in Nat, NEW ps \in [Follower -> PeerObjects],
           NEW ms \in SUBSET Messages, Sent(dests, end, qc, ps, ms),
           \A f \in Follower : ps[f].sync.idx <= snap[Leader],
           \A m \in ms : MessageFits(m),
           last'[Leader] \in Nat, end <= last'[Leader],
           last[Leader] <= last'[Leader], snap'[Leader] = snap[Leader]
    PROVE  /\ RequestsFit'
           /\ up' \in [Server -> Causes]
           /\ \A s \in Server : \/ up'[s] = up[s]
                                \/ up'[s] \in {"too_large", "bad_term"}
           /\ \A s \in Follower : up'[s] = up[s]
           /\ up'[Leader] = "bad_term" =>
                  up[Leader] = "bad_term" \/ making[Leader].done
<1>1. /\ Typed /\ LeaderSnapshot /\ ServerOrder(Leader)
      /\ Leader \in Server /\ Leader \notin Follower
      /\ \A why : <<Leader, why>> \notin marks
      /\ start[Leader] \in Nat /\ snap[Leader] \in Nat /\ last[Leader] \in Nat
    BY LeaderUnmarked DEF IndexInv, Typed
<1>2. start[Leader] - 1 <= snap[Leader] /\ start[Leader] >= 1
    BY <1>1 DEF ServerOrder, CompactOrder, IndexOrder, Marked
<1>3. ASSUME NEW p \in PeerObjects, p.sync.idx <= snap[Leader]
      PROVE  SyncOf(p).idx <= snap[Leader]
    BY <1>1, <1>3 DEF SyncOf, PeerObjects, Sync
<1>4. ASSUME NEW f \in Follower PROVE peer'[f].sync.idx <= snap[Leader]
    <2>1. ps[f] \in PeerObjects /\ ps[f].sync.idx <= snap[Leader]
        OBVIOUS
    <2>2. CASE peer'[f] = ps[f]
        BY <2>1, <2>2
    <2>3. CASE peer'[f] = [ps[f] EXCEPT !.busy = TRUE]
        BY <2>1, <2>3 DEF PeerObjects
    <2>4. CASE /\ Outcome(ps[f], end) = "made"
               /\ peer'[f] = PeerAfter(ps[f], end)
        <3>1. PeerAfter(ps[f], end).sync =
                  IF NeedsSnapshot(PrevIdx(ps[f], end), start[Leader])
                  THEN SyncOf(ps[f]) ELSE ps[f].sync
            BY <1>1, <2>1, <2>4, ReqFacts
        <3>2. QED
            BY <1>3, <2>1, <2>4, <3>1
    <2>5. QED
        BY <2>2, <2>3, <2>4 DEF Sent
<1>5. ASSUME NEW m \in net' PROVE MessageFits(m)'
    <2>1. CASE m \in ms
        <3>1. m \in Messages /\ MessageFits(m)
            BY <2>1
        <3>2. /\ m.type = "append_req" => m.prev \in Nat /\ m.n \in Nat
              /\ m.type = "append_resp" => m.next \in Nat
            BY <3>1, MessageKinds DEF AppendReqs, Responses
        <3>3. QED
            BY <1>1, <3>1, <3>2 DEF MessageFits
    <2>2. CASE m \notin ms
        <3> DEFINE f == m.peer
        <3>1. /\ f \in Follower /\ ps[f] \in PeerObjects
              /\ Outcome(ps[f], end) = "made"
              /\ m = Req(f, ps[f], end, qc)
              /\ ps[f].sync.idx <= snap[Leader]
            BY <2>2 DEF Sent
        <3> HIDE DEF f
        <3>2. CASE NeedsSnapshot(PrevIdx(ps[f], end), start[Leader])
            <4>1. /\ m.type = "snapshot_req" /\ m.idx = SyncOf(ps[f]).idx
                  /\ m.offset = SyncOf(ps[f]).offset
                  /\ m.done = Done(SyncOf(ps[f]).offset)
                BY <1>1, <3>1, <3>2, ReqFacts
            <4>2. m.idx <= snap[Leader]
                BY <1>3, <3>1, <4>1
            <4>3. QED
                BY <4>1, <4>2 DEF MessageFits, Done
        <3>3. CASE ~NeedsSnapshot(PrevIdx(ps[f], end), start[Leader])
            <4>1. m.type = "append_req" /\ m.prev + m.n <= end /\ m \in Messages
                BY <1>1, <3>1, <3>3, ReqFacts
            <4>2. m.prev \in Nat /\ m.n \in Nat
                BY <4>1, MessageKinds DEF AppendReqs
            <4>3. QED
                BY <4>1, <4>2 DEF MessageFits
        <3>4. QED
            BY <3>2, <3>3
    <2>3. QED
        BY <2>1, <2>2
<1>6. RequestsFit'
    BY <1>4, <1>5 DEF RequestsFit
<1>7. CASE up' = up
    BY <1>1, <1>6, <1>7 DEF Typed, Server
<1>8. CASE up' # up
    <2>1. PICK f \in dests :
              /\ Outcome(ps[f], end) \notin {"made", "throws"}
              /\ up' = [up EXCEPT ![Leader] = Outcome(ps[f], end)]
        BY <1>8 DEF Sent
    <2> DEFINE prev == PrevIdx(ps[f], end)
    <2>2. ps[f] \in PeerObjects /\ prev \in Nat
        BY DEF PrevIdx, PeerObjects
    <2>3. Outcome(ps[f], end) \in {"too_large", "bad_term"}
        <3>1. NeedsSnapshot(prev, start[Leader]) =>
                  snap[Leader] # 0 /\ ~(prev > snap[Leader])
            BY <1>1, <1>2, <2>2 DEF NeedsSnapshot
        <3>2. QED
            BY <2>1, <3>1 DEF Outcome
    <2>4. Outcome(ps[f], end) = "bad_term" => making[Leader].done
        <3>1. SUFFICES ASSUME Outcome(ps[f], end) = "bad_term"
                       PROVE  making[Leader].done
            OBVIOUS
        <3>2. /\ ~NeedsSnapshot(prev, start[Leader])
              /\ prev # 0 /\ ~(prev >= start[Leader]) /\ prev # snap[Leader]
            BY <3>1 DEF Outcome
        <3>3. prev = start[Leader] - 1
            BY <1>1, <1>2, <2>2, <3>2 DEF NeedsSnapshot
        <3>4. QED
            BY <1>1, <3>2, <3>3 DEF LeaderSnapshot
    <2>5. QED
        BY <1>1, <1>6, <2>1, <2>3, <2>4 DEF Typed, Causes, Server
<1>9. QED
    BY <1>7, <1>8

\* An action of the leader that ends in request_append_entries.
LEMMA RequestKeepsIndexes ==
    ASSUME IndexInv, NEW dests \in SUBSET Follower, NEW end \in Nat,
           NEW qc \in Nat, NEW ps \in [Follower -> PeerObjects],
           NEW ms \in SUBSET Messages,
           RequestAppendEntries(dests, end, qc, ps, ms),
           \A f \in Follower : ps[f].sync.idx <= snap[Leader],
           \A m \in ms : MessageFits(m),
           last' \in [Server -> Nat], \A s \in Server : last[s] <= last'[s],
           end <= last'[Leader],
           quick' \in [Server -> Nat], \A s \in Server : quick[s] <= quick'[s],
           UNCHANGED <<start, commit, saved, applying, snap, making, content,
                       chunks, errors, restarts, marks>>
    PROVE  IndexInv' /\ Sent(dests, end, qc, ps, ms)
<1>1. /\ Typed /\ LeaderSnapshot /\ Leader \in Server
      /\ start[Leader] \in Nat /\ snap[Leader] \in Nat
    BY LeaderUnmarked DEF IndexInv, Typed
<1>2. Sent(dests, end, qc, ps, ms)
    BY <1>1, RequestSends
<1>3. last'[Leader] \in Nat /\ last[Leader] <= last'[Leader]
    BY <1>1
<1>4. /\ RequestsFit'
      /\ up' \in [Server -> Causes]
      /\ \A s \in Server : \/ up'[s] = up[s]
                           \/ up'[s] \in {"too_large", "bad_term"}
      /\ up'[Leader] = "bad_term" =>
             up[Leader] = "bad_term" \/ making[Leader].done
    BY <1>2, <1>3, SentFits
<1>5. Typed'
    BY <1>1, <1>2, <1>4 DEF Typed, Sent
<1>6. ASSUME NEW s \in Server PROVE ServerOrder(s)'
    <2>1. ServerOrder(s)
        BY DEF IndexInv
    <2>2. last'[s] >= last[s] /\ quick'[s] >= quick[s]
        BY <1>1 DEF Typed
    <2>3. QED
        BY <1>1, <1>4, <1>5, <2>1, <2>2, OrderStays
<1>7. LeaderSnapshot'
    BY <1>1, <1>4 DEF LeaderSnapshot
<1>8. QED
    BY <1>2, <1>4, <1>5, <1>6, <1>7 DEF IndexInv

\* A client's request.
LEMMA CliReqIndexes ==
    ASSUME IndexInv, HandleCliReq
    PROVE  /\ IndexInv'
           /\ Sent(Follower, last[Leader] + 1, quick[Leader], peer, net)
<1>1. /\ Typed /\ RequestsFit /\ Leader \in Server /\ last[Leader] \in Nat
      /\ quick[Leader] \in Nat
    BY LeaderUnmarked DEF IndexInv, Typed
<1>2. /\ last' \in [Server -> Nat] /\ last'[Leader] = last[Leader] + 1
      /\ \A s \in Server : last[s] <= last'[s]
    BY <1>1 DEF HandleCliReq, Typed
<1>3. quick' = quick /\ \A s \in Server : quick[s] <= quick'[s]
    BY <1>1 DEF HandleCliReq, Typed
<1>4. /\ peer \in [Follower -> PeerObjects] /\ net \in SUBSET Messages
      /\ \A f \in Follower : peer[f].sync.idx <= snap[Leader]
      /\ \A m \in net : MessageFits(m)
    BY <1>1 DEF RequestsFit, Typed
<1>5. RequestAppendEntries(Follower, last[Leader] + 1, quick[Leader], peer, net)
    BY DEF HandleCliReq
<1>6. UNCHANGED <<start, commit, saved, applying, snap, making, content,
                  chunks, errors, restarts, marks>>
    BY DEF HandleCliReq
<1>7. /\ last[Leader] + 1 \in Nat /\ last[Leader] + 1 <= last'[Leader]
      /\ quick' \in [Server -> Nat]
    BY <1>1, <1>2, <1>3 DEF Typed
<1>8. QED
    BY <1>1, <1>2, <1>3, <1>4, <1>5, <1>6, <1>7, RequestKeepsIndexes

\* The heartbeat timer of a free peer.
LEMMA HbTimeoutIndexes ==
    ASSUME IndexInv, NEW f \in Follower, HandleHbTimeout(f)
    PROVE  /\ IndexInv'
           /\ Sent({f}, last[Leader], quick[Leader], peer, net)
<1>1. /\ Typed /\ RequestsFit /\ Leader \in Server /\ last[Leader] \in Nat
      /\ quick[Leader] \in Nat
    BY LeaderUnmarked DEF IndexInv, Typed
<1>2. /\ last' = last /\ quick' = quick
      /\ last' \in [Server -> Nat] /\ quick' \in [Server -> Nat]
      /\ \A s \in Server : last[s] <= last'[s] /\ quick[s] <= quick'[s]
    BY <1>1 DEF HandleHbTimeout, Typed
<1>3. /\ peer \in [Follower -> PeerObjects] /\ net \in SUBSET Messages
      /\ \A g \in Follower : peer[g].sync.idx <= snap[Leader]
      /\ \A m \in net : MessageFits(m)
    BY <1>1 DEF RequestsFit, Typed
<1>4. RequestAppendEntries({f}, last[Leader], quick[Leader], peer, net)
    BY DEF HandleHbTimeout
<1>5. UNCHANGED <<start, commit, saved, applying, snap, making, content,
                  chunks, errors, restarts, marks>>
    BY DEF HandleHbTimeout
<1>6. last[Leader] <= last'[Leader]
    BY <1>1, <1>2
<1>7. QED
    BY <1>1, <1>2, <1>3, <1>4, <1>5, <1>6, RequestKeepsIndexes

\* An accepted append_entries request: which peer objects the leader goes on
\* with, and what it sends.
AcceptedPeers(m) ==
    LET ps == [peer EXCEPT ![m.peer].next = m.next,
                           ![m.peer].matched = m.next - 1]
        raised == MajorityMatched(ps) > quick[Leader]
    IN  [g \in Follower |-> [ps[g] EXCEPT !.pending =
            g # m.peer /\ (@ \/ (raised /\ ps[g].busy))]]
AcceptedDests(m) ==
    LET ps == [peer EXCEPT ![m.peer].next = m.next,
                           ![m.peer].matched = m.next - 1]
    IN  IF MajorityMatched(ps) > quick[Leader] THEN Follower
        ELSE IF ps[m.peer].pending \/ m.next < last[Leader] + 1
        THEN {m.peer} ELSE {}

\* handle_append_entries_resp with an accepted request keeps the indexes in order.
LEMMA AcceptedIndexes ==
    ASSUME IndexInv, NEW m \in net, HandleAppendAccepted(m)
    PROVE  /\ IndexInv'
           /\ AcceptedPeers(m) \in [Follower -> PeerObjects]
           /\ \A g \in Follower :
                  /\ AcceptedPeers(m)[g].busy = peer[g].busy
                  /\ AcceptedPeers(m)[g].sync = peer[g].sync
                  /\ AcceptedPeers(m)[g].next =
                         IF g = m.peer THEN m.next ELSE peer[g].next
           /\ AcceptedDests(m) \in SUBSET Follower
           /\ Sent(AcceptedDests(m), last[Leader], quick'[Leader],
                   AcceptedPeers(m), net \ {m})
<1> DEFINE f == m.peer
           ps == [peer EXCEPT ![f].next = m.next, ![f].matched = m.next - 1]
           p == [peer[f] EXCEPT !.next = m.next, !.matched = m.next - 1]
           target == MajorityMatched(ps)
           raised == target > quick[Leader]
           Pending(g) == g # f /\ (ps[g].pending \/ (raised /\ ps[g].busy))
           marked == [g \in Follower |-> [ps[g] EXCEPT !.pending = Pending(g)]]
<1>1. /\ Typed /\ RequestsFit /\ Leader \in Server /\ last[Leader] \in Nat
      /\ quick[Leader] \in Nat
    BY LeaderUnmarked DEF IndexInv, Typed
<1>2. /\ f \in Follower /\ m \in Responses /\ m.next \in Nat
      /\ m.next - 1 \in Nat
    <2>1. m \in Messages /\ m.type = "append_resp"
        BY <1>1 DEF Typed, HandleAppendAccepted
    <2>2. m \in Responses /\ m.next > 0
        BY <1>1, <2>1, MessageKinds DEF RequestsFit, MessageFits
    <2>3. m.next \in Nat /\ m.peer \in Follower
        BY <2>2 DEF Responses
    <2>4. QED
        BY <2>2, <2>3
<1>3. /\ p \in PeerObjects /\ p.busy = peer[f].busy /\ p.sync = peer[f].sync
      /\ p.next = m.next
    <2>1. peer[f] \in PeerObjects
        BY <1>1, <1>2 DEF Typed
    <2>2. QED
        BY <1>2, <2>1 DEF PeerObjects
<1>4. ps = [peer EXCEPT ![f] = p]
    BY <1>1, <1>2 DEF Typed
<1>5. /\ ps \in [Follower -> PeerObjects]
      /\ \A g \in Follower : ps[g] = IF g = f THEN p ELSE peer[g]
    <2> HIDE DEF p, ps, f
    <2>1. QED
        BY <1>1, <1>2, <1>3, <1>4 DEF Typed
<1>6. target \in Nat
    <2> HIDE DEF ps
    <2>1. QED
        BY <1>1, <1>5, MajorityMatchedType DEF Typed
<1>7. ASSUME NEW g \in Follower
      PROVE  /\ [ps[g] EXCEPT !.pending = Pending(g)] \in PeerObjects
             /\ [ps[g] EXCEPT !.pending = Pending(g)].busy = peer[g].busy
             /\ [ps[g] EXCEPT !.pending = Pending(g)].sync = peer[g].sync
             /\ [ps[g] EXCEPT !.pending = Pending(g)].next =
                    IF g = f THEN m.next ELSE peer[g].next
    <2>1. Pending(g) \in BOOLEAN
        OBVIOUS
    <2>2. /\ ps[g] \in PeerObjects /\ ps[g].busy = peer[g].busy
          /\ ps[g].sync = peer[g].sync
          /\ ps[g].next = IF g = f THEN m.next ELSE peer[g].next
        BY <1>3, <1>5
    <2> HIDE DEF Pending, ps, f
    <2>3. QED
        BY <2>1, <2>2 DEF PeerObjects
<1>8. AcceptedPeers(m) = marked
    BY DEF AcceptedPeers
<1>9. /\ AcceptedPeers(m) \in [Follower -> PeerObjects]
      /\ \A g \in Follower :
             /\ AcceptedPeers(m)[g].busy = peer[g].busy
             /\ AcceptedPeers(m)[g].sync = peer[g].sync
             /\ AcceptedPeers(m)[g].next =
                    IF g = f THEN m.next ELSE peer[g].next
    <2> HIDE DEF ps, Pending, f
    <2>1. QED
        BY <1>7, <1>8
<1>10. AcceptedDests(m) \in SUBSET Follower
    BY <1>2 DEF AcceptedDests
<1>11. quick' = [quick EXCEPT ![Leader] = Larger(quick[Leader], target)]
    BY DEF HandleAppendAccepted
<1>12. RequestAppendEntries(AcceptedDests(m), last[Leader], quick'[Leader],
                            AcceptedPeers(m), net \ {m})
    BY DEF HandleAppendAccepted, AcceptedPeers, AcceptedDests
<1>13. UNCHANGED <<start, last, commit, saved, applying, snap, making, content,
                   chunks, errors, restarts, marks>>
    BY DEF HandleAppendAccepted
<1>14. /\ \A g \in Follower : peer[g].sync.idx <= snap[Leader]
       /\ \A k \in net \ {m} : MessageFits(k)
       /\ net \ {m} \in SUBSET Messages
    BY <1>1 DEF RequestsFit, Typed
<1> HIDE DEF target, raised, marked, ps, p, f, Pending
<1>15. /\ quick' \in [Server -> Nat] /\ quick'[Leader] \in Nat
       /\ \A s \in Server : quick[s] <= quick'[s]
    BY <1>1, <1>6, <1>11 DEF Larger, Typed
<1>16. /\ last' \in [Server -> Nat] /\ last[Leader] <= last'[Leader]
       /\ \A s \in Server : last[s] <= last'[s]
    BY <1>1, <1>13 DEF Typed
<1>17. \A g \in Follower : AcceptedPeers(m)[g].sync.idx <= snap[Leader]
    BY <1>9, <1>14
<1>18. QED
    BY <1>1, <1>9, <1>10, <1>12, <1>13, <1>14, <1>15, <1>16, <1>17,
       RequestKeepsIndexes DEF f

\* A refused append_entries request.
RefusedPeers(m) ==
    [peer EXCEPT ![m.peer].next = IF peer[m.peer].next > m.next THEN m.next
                                  ELSE UlongDec(peer[m.peer].next)]

\* handle_append_entries_resp with a refused one does, too.
LEMMA RefusedIndexes ==
    ASSUME IndexInv, NEW m \in net, HandleAppendRefused(m)
    PROVE  /\ IndexInv'
           /\ RefusedPeers(m) \in [Follower -> PeerObjects]
           /\ \A g \in Follower :
                  /\ RefusedPeers(m)[g].busy = peer[g].busy
                  /\ RefusedPeers(m)[g].sync = peer[g].sync
                  /\ RefusedPeers(m)[g].next =
                         IF g # m.peer THEN peer[g].next
                         ELSE IF peer[g].next > m.next THEN m.next
                         ELSE UlongDec(peer[g].next)
           /\ Sent({m.peer}, last[Leader], quick[Leader], RefusedPeers(m),
                   net \ {m})
<1> DEFINE f == m.peer
           nn == IF peer[f].next > m.next THEN m.next ELSE UlongDec(peer[f].next)
           p == [peer[f] EXCEPT !.next = nn]
<1>1. /\ Typed /\ RequestsFit /\ Leader \in Server /\ last[Leader] \in Nat
      /\ quick[Leader] \in Nat
    BY LeaderUnmarked DEF IndexInv, Typed
<1>2. m \in Responses
    BY <1>1, MessageKinds DEF Typed, HandleAppendRefused
<1>3. f \in Follower /\ m.next \in Nat /\ peer[f] \in PeerObjects
    BY <1>1, <1>2 DEF Responses, Typed
<1>4. nn \in Nat
    BY <1>3, SnapshotAssumption DEF UlongDec, PeerObjects
<1>5. RefusedPeers(m) = [peer EXCEPT ![f] = p]
    BY <1>1, <1>3 DEF RefusedPeers, Typed
<1> HIDE DEF nn, f
<1>6. /\ p \in PeerObjects /\ p.busy = peer[f].busy /\ p.sync = peer[f].sync
      /\ p.next = nn
    BY <1>3, <1>4 DEF PeerObjects
<1> HIDE DEF p
<1>7. /\ RefusedPeers(m) \in [Follower -> PeerObjects]
      /\ \A g \in Follower :
             /\ RefusedPeers(m)[g].busy = peer[g].busy
             /\ RefusedPeers(m)[g].sync = peer[g].sync
             /\ RefusedPeers(m)[g].next = IF g # f THEN peer[g].next ELSE nn
    BY <1>1, <1>3, <1>5, <1>6 DEF Typed
<1>8. RequestAppendEntries({f}, last[Leader], quick[Leader], RefusedPeers(m),
                           net \ {m})
    BY DEF HandleAppendRefused, RefusedPeers, f
<1>9. UNCHANGED <<start, last, quick, commit, saved, applying, snap, making,
                  content, chunks, errors, restarts, marks>>
    BY DEF HandleAppendRefused
<1>10. /\ last' \in [Server -> Nat] /\ quick' \in [Server -> Nat]
       /\ last[Leader] <= last'[Leader]
       /\ \A s \in Server : last[s] <= last'[s] /\ quick[s] <= quick'[s]
    BY <1>1, <1>9 DEF Typed
<1>11. /\ \A g \in Follower : RefusedPeers(m)[g].sync.idx <= snap[Leader]
       /\ \A k \in net \ {m} : MessageFits(k)
       /\ net \ {m} \in SUBSET Messages
    BY <1>1, <1>7 DEF RequestsFit, Typed
<1>12. {f} \in SUBSET Follower
    BY <1>3
<1>13. IndexInv' /\ Sent({f}, last[Leader], quick[Leader], RefusedPeers(m),
                         net \ {m})
    BY <1>1, <1>7, <1>8, <1>9, <1>10, <1>11, <1>12, RequestKeepsIndexes
<1>14. QED
    BY <1>7, <1>13 DEF f, nn

\* The answer to a block of a snapshot.
BlockPeers(m) ==
    IF m.accepted /\ peer[m.peer].sync.idx # 0
    THEN [peer EXCEPT ![m.peer] = AfterBlock(peer[m.peer], m)] ELSE peer
BlockDests(m) ==
    IF ~m.accepted \/ (/\ peer[m.peer].sync.idx # 0
                       /\ m.next >= Blocks =>
                              \/ peer[m.peer].pending
                              \/ m.next < last[Leader] + 1)
    THEN {m.peer} ELSE {}

\* What the answer to a block makes of a peer object.
LEMMA AfterBlockFacts ==
    ASSUME NEW p \in PeerObjects, NEW m \in Responses
    PROVE  /\ AfterBlock(p, m) \in PeerObjects
           /\ AfterBlock(p, m).busy = p.busy
           /\ AfterBlock(p, m).next =
                  IF m.next >= Blocks THEN p.sync.idx + 1 ELSE p.next
           /\ AfterBlock(p, m).sync =
                  IF m.next >= Blocks THEN NoSync
                  ELSE [idx |-> p.sync.idx, offset |-> m.next]
<1>1. m.next \in Nat /\ p.sync \in Sync /\ p.sync.idx \in Nat
    BY DEF Responses, PeerObjects, Sync
<1>2. CASE m.next >= Blocks
    <2>1. AfterBlock(p, m) =
              [p EXCEPT !.next = p.sync.idx + 1, !.matched = p.sync.idx,
                        !.sync = NoSync, !.pending = FALSE]
        BY <1>2 DEF AfterBlock
    <2>2. NoSync \in Sync
        BY DEF NoSync, Sync
    <2>3. PICK i \in Nat : i = p.sync.idx + 1
        BY <1>1
    <2>4. PICK j \in Nat : j = p.sync.idx
        BY <1>1
    <2>5. PICK q : q = AfterBlock(p, m)
        OBVIOUS
    <2>6. q = [p EXCEPT !.next = i, !.matched = j, !.sync = NoSync,
                        !.pending = FALSE]
        BY <2>1, <2>3, <2>4, <2>5
    <2>7. q \in PeerObjects /\ q.busy = p.busy /\ q.next = i /\ q.sync = NoSync
        BY <2>2, <2>6 DEF PeerObjects
    <2>8. QED
        BY <1>2, <2>3, <2>5, <2>7
<1>3. CASE ~(m.next >= Blocks)
    <2>1. AfterBlock(p, m) = [p EXCEPT !.sync.offset = m.next]
        BY <1>3 DEF AfterBlock
    <2>2. [p.sync EXCEPT !.offset = m.next] =
              [idx |-> p.sync.idx, offset |-> m.next]
        BY <1>1 DEF Sync
    <2>3. [idx |-> p.sync.idx, offset |-> m.next] \in Sync
        BY <1>1 DEF Sync
    <2>4. AfterBlock(p, m) =
              [p EXCEPT !.sync = [idx |-> p.sync.idx, offset |-> m.next]]
        BY <2>1, <2>2 DEF PeerObjects
    <2>5. QED
        BY <1>1, <1>3, <2>3, <2>4 DEF PeerObjects
<1>4. QED
    BY <1>2, <1>3

\* handle_install_snapshot_resp keeps the indexes in order.
LEMMA BlockIndexes ==
    ASSUME IndexInv, NEW m \in net, HandleInstallSnapshotResp(m)
    PROVE  /\ IndexInv'
           /\ BlockPeers(m) \in [Follower -> PeerObjects]
           /\ \A g \in Follower :
                  BlockPeers(m)[g] =
                      IF g = m.peer /\ m.accepted /\ peer[m.peer].sync.idx # 0
                      THEN AfterBlock(peer[g], m) ELSE peer[g]
           /\ BlockDests(m) \in SUBSET Follower
           /\ Sent(BlockDests(m), last[Leader], quick[Leader], BlockPeers(m),
                   net \ {m})
<1>1. /\ Typed /\ RequestsFit /\ Leader \in Server /\ last[Leader] \in Nat
      /\ quick[Leader] \in Nat /\ snap[Leader] \in Nat
    BY LeaderUnmarked DEF IndexInv, Typed
<1>2. m \in Responses
    BY <1>1, MessageKinds DEF Typed, HandleInstallSnapshotResp
<1>3. m.peer \in Follower /\ peer[m.peer] \in PeerObjects
    BY <1>1, <1>2 DEF Responses, Typed
<1>4. /\ AfterBlock(peer[m.peer], m) \in PeerObjects
      /\ AfterBlock(peer[m.peer], m).sync =
             IF m.next >= Blocks THEN NoSync
             ELSE [idx |-> peer[m.peer].sync.idx, offset |-> m.next]
    BY <1>2, <1>3, AfterBlockFacts
<1>5. /\ BlockPeers(m) \in [Follower -> PeerObjects]
      /\ \A g \in Follower :
             BlockPeers(m)[g] =
                 IF g = m.peer /\ m.accepted /\ peer[m.peer].sync.idx # 0
                 THEN AfterBlock(peer[g], m) ELSE peer[g]
    BY <1>1, <1>3, <1>4 DEF BlockPeers, Typed
<1>6. BlockDests(m) \in SUBSET Follower
    BY <1>3 DEF BlockDests
<1>7. RequestAppendEntries(BlockDests(m), last[Leader], quick[Leader],
                           BlockPeers(m), net \ {m})
    BY DEF HandleInstallSnapshotResp, BlockDests, BlockPeers
<1>8. UNCHANGED <<start, last, quick, commit, saved, applying, snap, making,
                  content, chunks, errors, restarts, marks>>
    BY DEF HandleInstallSnapshotResp
<1>9. /\ last' \in [Server -> Nat] /\ quick' \in [Server -> Nat]
      /\ last[Leader] <= last'[Leader]
      /\ \A s \in Server : last[s] <= last'[s] /\ quick[s] <= quick'[s]
    BY <1>1, <1>8 DEF Typed
<1>10. /\ \A k \in net \ {m} : MessageFits(k)
       /\ net \ {m} \in SUBSET Messages
    BY <1>1 DEF RequestsFit, Typed
<1>11. ASSUME NEW g \in Follower
       PROVE  BlockPeers(m)[g].sync.idx <= snap[Leader]
    <2>1. peer[g].sync.idx <= snap[Leader] /\ peer[m.peer].sync.idx <= snap[Leader]
        BY <1>1, <1>3 DEF RequestsFit
    <2>2. NoSync.idx = 0
        BY DEF NoSync
    <2>3. QED
        BY <1>1, <1>4, <1>5, <2>1, <2>2
<1>12. QED
    BY <1>1, <1>5, <1>6, <1>7, <1>8, <1>9, <1>10, <1>11, RequestKeepsIndexes

-----------------------------------------------------------------------------
(* Steps of one server. *)

\* The requests still fit when nothing of the leader's moves back.
LEMMA FitStays ==
    ASSUME IndexInv, Typed', last'[Leader] = last[Leader],
           snap[Leader] <= snap'[Leader],
           \A m \in net' : m \in net \/ MessageFits(m)',
           \A f \in Follower : peer'[f].sync = peer[f].sync
    PROVE  RequestsFit'
<1>1. /\ Typed /\ RequestsFit /\ Leader \in Server
      /\ snap[Leader] \in Nat /\ snap'[Leader] \in Nat
    BY LeaderUnmarked DEF IndexInv, Typed
<1>2. ASSUME NEW m \in net' PROVE MessageFits(m)'
    <2>1. CASE m \in net
        <3>1. m \in Messages /\ MessageFits(m)
            BY <1>1, <2>1 DEF Typed, RequestsFit
        <3>2. m.type = "snapshot_req" => m.idx \in Nat
            BY <3>1, MessageKinds DEF SnapshotReqs
        <3>3. QED
            BY <1>1, <3>1, <3>2 DEF MessageFits
    <2>2. QED
        BY <2>1
<1>3. ASSUME NEW f \in Follower PROVE peer'[f].sync.idx <= snap'[Leader]
    <2>1. /\ peer[f].sync.idx <= snap[Leader] /\ peer[f].sync.idx \in Nat
          /\ peer'[f].sync = peer[f].sync
        BY <1>1 DEF RequestsFit, Typed, PeerObjects, Sync
    <2>2. QED
        BY <1>1, <2>1
<1>4. QED
    BY <1>2, <1>3 DEF RequestsFit

\* A server that a step does not touch.
Untouched(t) ==
    /\ up'[t] = up[t] /\ start'[t] = start[t] /\ last'[t] = last[t]
    /\ quick'[t] = quick[t] /\ commit'[t] = commit[t] /\ saved'[t] = saved[t]
    /\ applying'[t] = applying[t] /\ snap'[t] = snap[t]
    /\ making'[t] = making[t]
    /\ \A why : (<<t, why>> \in marks') = (<<t, why>> \in marks)

\* The order of indexes that a step leaves alone stays.
LEMMA UntouchedStays ==
    ASSUME IndexInv, Typed', NEW t \in Server, Untouched(t)
    PROVE  ServerOrder(t)' /\ (t = Leader => LeaderSnapshot')
<1>1. Typed /\ ServerOrder(t) /\ LeaderSnapshot
    BY DEF IndexInv
<1>2. last'[t] >= last[t] /\ quick'[t] >= quick[t]
    BY <1>1 DEF Typed, Untouched
<1>3. ServerOrder(t)'
    BY <1>1, <1>2, OrderStays DEF Untouched
<1>4. t = Leader => LeaderSnapshot'
    BY <1>1 DEF LeaderSnapshot, Untouched
<1>5. QED
    BY <1>3, <1>4

\* A step of one server s.
LEMMA OneServerStep ==
    ASSUME IndexInv, Typed', NEW s \in Server,
           \A t \in Server \ {s} : Untouched(t),
           ServerOrder(s)', s = Leader => LeaderSnapshot', RequestsFit'
    PROVE  IndexInv'
<1>1. \A t \in Server : ServerOrder(t)'
    BY UntouchedStays
<1>2. LeaderSnapshot'
    BY UntouchedStays, LeaderUnmarked DEF IndexInv
<1>3. QED
    BY <1>1, <1>2 DEF IndexInv

\* A step that touches no server.
LEMMA NoServerStep ==
    ASSUME IndexInv, Typed', \A t \in Server : Untouched(t), RequestsFit'
    PROVE  IndexInv'
<1>1. \A t \in Server : ServerOrder(t)'
    BY UntouchedStays
<1>2. LeaderSnapshot'
    BY UntouchedStays, LeaderUnmarked DEF IndexInv
<1>3. QED
    BY <1>1, <1>2 DEF IndexInv

\* An answer is a response, and is put under way only if somebody waits.
LEMMA AnswerFacts ==
    ASSUME Typed, NEW m \in net, IsReq(m), NEW ok \in BOOLEAN, NEW next \in Nat
    PROVE  LET r == Resp(m, ok, next)
           IN  /\ r \in Messages /\ r \in Responses
               /\ r.type = IF m.type = "append_req"
                           THEN "append_resp" ELSE "snapshot_resp"
               /\ r.peer = m.peer /\ r.accepted = ok /\ r.next = next
               /\ r.live /\ ~r.queued
               /\ Answered(m, r) \subseteq Messages
               /\ \A k \in Answered(m, r) :
                      (k \in net /\ k # m) \/ (k = r /\ m.live)
<1> DEFINE r == Resp(m, ok, next)
<1>1. m.peer \in Follower
    BY MessageKinds DEF Typed
<1>2. /\ r \in Responses
      /\ r.type = IF m.type = "append_req" THEN "append_resp" ELSE "snapshot_resp"
      /\ r.peer = m.peer /\ r.accepted = ok /\ r.next = next
      /\ r.live /\ ~r.queued
    BY <1>1 DEF Resp, Responses
<1>3. r \in Messages
    BY <1>2 DEF Responses, Messages
<1> HIDE DEF r
<1>4. Answered(m, r) \subseteq Messages
    BY <1>3 DEF Answered, Typed
<1>5. \A k \in Answered(m, r) : (k \in net /\ k # m) \/ (k = r /\ m.live)
    BY DEF Answered
<1>6. QED
    BY <1>2, <1>3, <1>4, <1>5 DEF r

\* The end of a follower's process in the middle of a request.
LEMMA ExitsFacts ==
    ASSUME Typed, NEW m \in net, NEW why \in Causes, Exits(m, why)
    PROVE  /\ up' \in [Server -> Causes] /\ up'[m.peer] = why
           /\ \A t \in Server \ {m.peer} : up'[t] = up[t]
           /\ peer' \in [Follower -> PeerObjects]
           /\ \A f \in Follower :
                  /\ peer'[f].sync = peer[f].sync /\ peer'[f].next = peer[f].next
                  /\ peer'[f].busy => peer[f].busy
                  /\ f # m.peer => peer'[f] = peer[f]
           /\ net' = net \ {m}
<1>1. m.peer \in Follower /\ m.peer \in Server /\ peer[m.peer] \in PeerObjects
    BY MessageKinds DEF Typed, Server
<1>2. up' = [up EXCEPT ![m.peer] = why] /\ net' = net \ {m}
    BY DEF Exits
<1>3. PICK q : q = [peer[m.peer] EXCEPT !.busy = FALSE]
    OBVIOUS
<1>4. /\ q \in PeerObjects /\ q.sync = peer[m.peer].sync /\ ~q.busy
      /\ q.next = peer[m.peer].next
    BY <1>1, <1>3 DEF PeerObjects
<1>5. peer' = peer \/ peer' = [peer EXCEPT ![m.peer] = q]
    BY <1>3 DEF Exits
<1>6. QED
    BY <1>1, <1>2, <1>4, <1>5 DEF Typed

\* Entries arrive.
LEMMA AppendEntriesIndexes ==
    ASSUME IndexInv, NEW m \in net, HandleAppendEntries(m)
    PROVE  IndexInv'
<1> DEFINE f == m.peer
           inside == m.prev <= last[f]
           next == IF inside THEN m.prev + m.n + 1 ELSE last[f] + 1
<1>0. PICK r : r = Resp(m, inside, next)
    OBVIOUS
<1>1. /\ Typed /\ m \in Messages /\ m.type = "append_req" /\ MessageFits(m)
      /\ Up(f)
    BY DEF IndexInv, Typed, HandleAppendEntries, RequestsFit
<1>2. /\ m \in AppendReqs /\ m.prev \in Nat /\ m.n \in Nat
      /\ m.commit_idx \in Nat /\ f \in Follower /\ IsReq(m)
    BY <1>1, MessageKinds DEF AppendReqs, IsReq
<1>3. f \in Server /\ f # Leader /\ Leader \in Server /\ last[f] \in Nat
    BY <1>1, <1>2, SnapshotAssumption DEF Server, Typed
<1>4. UNCHANGED <<start, commit, saved, applying, snap, making, content,
                  chunks, errors, restarts, marks>>
    BY DEF HandleAppendEntries
<1>5. CASE inside /\ ~TermKnown(f, m.prev)
    <2>1. Exits(m, "bad_term") /\ UNCHANGED <<last, quick>>
        BY <1>5 DEF HandleAppendEntries
    <2> HIDE DEF f
    <2>2. /\ up' \in [Server -> Causes] /\ up'[f] = "bad_term"
          /\ \A t \in Server \ {f} : up'[t] = up[t]
          /\ peer' \in [Follower -> PeerObjects] /\ net' = net \ {m}
          /\ \A g \in Follower : peer'[g].sync = peer[g].sync
        BY <1>1, <2>1, ExitsFacts DEF Causes, f
    <2>3. Typed'
        BY <1>1, <1>4, <2>1, <2>2 DEF Typed
    <2>4. RequestsFit'
        <3>1. snap[Leader] <= snap'[Leader] /\ last'[Leader] = last[Leader]
            BY <1>1, <1>3, <1>4, <2>1 DEF Typed
        <3>2. QED
            BY <2>2, <2>3, <3>1, FitStays
    <2>5. \A t \in Server \ {f} : Untouched(t)
        BY <1>4, <2>1, <2>2 DEF Untouched
    <2>6. ServerOrder(f)'
        <3>1. ServerOrder(f) /\ last'[f] >= last[f] /\ quick'[f] >= quick[f]
            BY <1>1, <1>3, <2>1 DEF IndexInv, Typed
        <3>2. QED
            BY <1>1, <1>3, <1>4, <2>2, <2>3, <3>1, OrderStays
    <2>7. QED
        BY <1>3, <2>3, <2>4, <2>5, <2>6, OneServerStep
<1>6. CASE ~(inside /\ ~TermKnown(f, m.prev))
    <2>1. /\ last' = [last EXCEPT ![f] =
                 IF inside THEN Larger(last[f], m.prev + m.n) ELSE last[f]]
          /\ quick' = [quick EXCEPT ![f] =
                 IF inside THEN Larger(quick[f], m.commit_idx) ELSE quick[f]]
          /\ net' = Answered(m, r) /\ UNCHANGED <<up, peer>>
        BY <1>0, <1>6 DEF HandleAppendEntries
    <2>2. inside \in BOOLEAN /\ next \in Nat
        BY <1>2, <1>3
    <2>3. /\ r \in Messages /\ r.type = "append_resp" /\ r.accepted = inside
          /\ r.next = next
          /\ net' \subseteq Messages
          /\ \A k \in net' : (k \in net /\ k # m) \/ (k = r /\ m.live)
        <3> HIDE DEF inside, next
        <3>1. QED
            BY <1>0, <1>1, <1>2, <2>1, <2>2, AnswerFacts
    <2>4. MessageFits(r)'
        <3>1. last'[Leader] = last[Leader] /\ last[Leader] \in Nat
            BY <1>1, <1>3, <2>1 DEF Typed
        <3>2. next > 0 /\ (inside => next <= last[Leader] + 1)
            BY <1>1, <1>2, <1>3, <3>1 DEF MessageFits
        <3> HIDE DEF next, inside
        <3>3. QED
            BY <2>3, <3>1, <3>2 DEF MessageFits
    <2> HIDE DEF next, f
    <2>5. /\ last' \in [Server -> Nat] /\ last'[f] >= last[f]
          /\ quick' \in [Server -> Nat] /\ quick'[f] >= quick[f]
          /\ \A t \in Server \ {f} : last'[t] = last[t] /\ quick'[t] = quick[t]
        BY <1>1, <1>2, <1>3, <2>1 DEF Typed, Larger
    <2>6. Typed'
        BY <1>1, <1>4, <2>1, <2>3, <2>5 DEF Typed
    <2>7. RequestsFit'
        <3>1. snap[Leader] <= snap'[Leader] /\ last'[Leader] = last[Leader]
            BY <1>1, <1>3, <1>4, <2>5 DEF Typed
        <3>2. \A g \in Follower : peer'[g].sync = peer[g].sync
            BY <2>1
        <3>3. QED
            BY <2>3, <2>4, <2>6, <3>1, <3>2, FitStays
    <2>8. \A t \in Server \ {f} : Untouched(t)
        BY <1>4, <2>1, <2>5 DEF Untouched
    <2>9. ServerOrder(f)'
        <3>1. ServerOrder(f) /\ up'[f] = up[f]
            BY <1>3, <2>1 DEF IndexInv
        <3>2. QED
            BY <1>1, <1>3, <1>4, <2>5, <2>6, <3>1, OrderStays
    <2>10. QED
        BY <1>3, <2>6, <2>7, <2>8, <2>9, OneServerStep
<1>7. QED
    BY <1>5, <1>6

\* A snapshot request, and what it asks of the server it reaches.
LEMMA SnapshotReqFacts ==
    ASSUME IndexInv, NEW m \in net, m.type = "snapshot_req"
    PROVE  /\ Typed /\ m \in SnapshotReqs /\ IsReq(m)
           /\ m.idx \in Nat /\ m.offset \in Nat /\ m.live \in BOOLEAN
           /\ m.peer \in Follower /\ m.peer \in Server /\ m.peer # Leader
           /\ Leader \in Server
           /\ chunks[m.peer] \cup {<<m.idx, m.offset>>} \in SUBSET (Nat \X Nat)
<1>1. Typed /\ m \in Messages
    BY DEF IndexInv, Typed
<1>2. /\ m \in SnapshotReqs /\ m.idx \in Nat /\ m.offset \in Nat
      /\ m.live \in BOOLEAN /\ m.peer \in Follower
    BY <1>1, MessageKinds DEF SnapshotReqs
<1>3. /\ m.peer \in Server /\ m.peer # Leader /\ Leader \in Server
      /\ chunks[m.peer] \in SUBSET (Nat \X Nat)
    BY <1>1, <1>2, SnapshotAssumption DEF Server, Typed
<1>4. QED
    BY <1>1, <1>2, <1>3 DEF IsReq

\* A block is stored or declined.
LEMMA SaveBlockIndexes ==
    ASSUME IndexInv, NEW m \in net, SaveBlock(m)
    PROVE  IndexInv'
<1> DEFINE old == m.idx <= commit[m.peer]
           next == IF old THEN 0 ELSE m.offset + 1
<1>0. PICK r : r = Resp(m, ~old, next)
    OBVIOUS
<1>1. m.type = "snapshot_req" /\ net' = Answered(m, r)
    BY <1>0 DEF SaveBlock
<1>2. /\ Typed /\ IsReq(m) /\ m.offset \in Nat /\ m.peer \in Follower
      /\ Leader \in Server
      /\ chunks[m.peer] \cup {<<m.idx, m.offset>>} \in SUBSET (Nat \X Nat)
    BY <1>1, SnapshotReqFacts
<1>3. UNCHANGED <<up, start, last, quick, commit, saved, applying, snap,
                  making, content, peer, errors, restarts, marks>>
    BY DEF SaveBlock
<1>4. chunks' = chunks \/ chunks' = [chunks EXCEPT ![m.peer] =
                              chunks[m.peer] \cup {<<m.idx, m.offset>>}]
    BY DEF SaveBlock
<1>5. (~old) \in BOOLEAN /\ next \in Nat
    BY <1>2
<1>6. /\ net' \subseteq Messages /\ r.type = "snapshot_resp"
      /\ \A k \in net' : (k \in net /\ k # m) \/ (k = r /\ m.live)
    <2>1. PICK ok \in BOOLEAN : ok = ~old
        OBVIOUS
    <2>2. PICK nx \in Nat : nx = next
        BY <1>5
    <2>3. r = Resp(m, ok, nx)
        BY <1>0, <2>1, <2>2
    <2>4. QED
        BY <1>1, <1>2, <2>3, AnswerFacts
<1>7. chunks' \in [Follower -> SUBSET (Nat \X Nat)]
    BY <1>2, <1>4 DEF Typed
<1>8. Typed'
    BY <1>2, <1>3, <1>6, <1>7 DEF Typed
<1>9. RequestsFit'
    <2>1. snap[Leader] <= snap'[Leader] /\ last'[Leader] = last[Leader]
        BY <1>2, <1>3 DEF Typed
    <2>2. \A g \in Follower : peer'[g].sync = peer[g].sync
        BY <1>3
    <2>3. MessageFits(r)'
        BY <1>6 DEF MessageFits
    <2>4. QED
        BY <1>6, <1>8, <2>1, <2>2, <2>3, FitStays
<1>10. \A t \in Server : Untouched(t)
    BY <1>3 DEF Untouched
<1>11. QED
    BY <1>8, <1>9, <1>10, NoServerStep

\* A snapshot is installed, or the log already starts behind it.
LEMMA InstallIndexes ==
    ASSUME IndexInv, NEW m \in net, InstallSnapshot(m)
    PROVE  IndexInv'
<1> DEFINE f == m.peer
           got == chunks[f] \cup {<<m.idx, m.offset>>}
<1>1. /\ m.type = "snapshot_req" /\ Up(f) /\ m.idx > commit[f] /\ m.done
      /\ chunks' = [chunks EXCEPT ![f] = got]
      /\ UNCHANGED <<applying, making, errors, restarts>>
    BY DEF InstallSnapshot
<1>2. /\ Typed /\ IsReq(m) /\ m.idx \in Nat /\ m.offset \in Nat
      /\ f \in Follower /\ f \in Server /\ f # Leader /\ Leader \in Server
      /\ got \in SUBSET (Nat \X Nat)
    BY <1>1, SnapshotReqFacts
<1>3. chunks' \in [Follower -> SUBSET (Nat \X Nat)]
    <2> HIDE DEF got, f
    <2>1. QED
        BY <1>1, <1>2 DEF Typed
<1>4. ServerOrder(f)
    BY <1>2 DEF IndexInv
<1>5. CASE m.idx >= start[f]
    <2>0. PICK r : r = Resp(m, TRUE, m.offset + 1)
        OBVIOUS
    <2>1. /\ start' = [start EXCEPT ![f] = m.idx + 1]
          /\ last' = [last EXCEPT ![f] = Larger(last[f], m.idx)]
          /\ quick' = [quick EXCEPT ![f] = m.idx]
          /\ commit' = [commit EXCEPT ![f] = m.idx]
          /\ saved' = [saved EXCEPT ![f] = m.idx]
          /\ snap' = [snap EXCEPT ![f] = m.idx]
          /\ marks' = IF applying[f] = 0 THEN marks
                      ELSE marks \cup {<<f, "raced">>}
          /\ net' = Answered(m, r) /\ UNCHANGED <<up, peer>>
        <3>1. m.idx < start[f] => FALSE
            BY <1>2, <1>5 DEF Typed
        <3>2. QED
            BY <2>0, <3>1 DEF InstallSnapshot, CompactTo, CommitIdxOf, Installed
    <2>2. content' \in [Server -> SUBSET Nat]
        <3>1. PICK c \in SUBSET Nat : content' = [content EXCEPT ![f] = c]
            <4>1. 1..m.idx \in SUBSET Nat /\ {} \in SUBSET Nat
                BY <1>2
            <4>2. m.idx < start[f] => FALSE
                BY <1>2, <1>5 DEF Typed
            <4>3. \/ content' = [content EXCEPT ![f] = 1..m.idx]
                  \/ content' = [content EXCEPT ![f] = {}]
                BY <4>2 DEF InstallSnapshot, Installed
            <4>4. QED
                BY <4>1, <4>3
        <3>2. QED
            BY <1>2, <3>1 DEF Typed
    <2>3. /\ net' \subseteq Messages /\ r.type = "snapshot_resp"
          /\ \A k \in net' : (k \in net /\ k # m) \/ (k = r /\ m.live)
        <3>1. PICK ok \in BOOLEAN : ok = TRUE
            OBVIOUS
        <3>2. PICK nx \in Nat : nx = m.offset + 1
            BY <1>2
        <3>3. r = Resp(m, ok, nx) /\ net' = Answered(m, r)
            BY <2>0, <2>1, <3>1, <3>2
        <3>4. QED
            BY <1>1, <1>2, <3>3, AnswerFacts
    <2> HIDE DEF f
    <2>4. Larger(last[f], m.idx) \in Nat /\ Larger(last[f], m.idx) >= m.idx
        BY <1>2 DEF Larger, Typed
    <2>5. Typed'
        <3>1. /\ start' \in [Server -> Nat] /\ last' \in [Server -> Nat]
              /\ quick' \in [Server -> Nat] /\ commit' \in [Server -> Nat]
              /\ saved' \in [Server -> Nat] /\ snap' \in [Server -> Nat]
            BY <1>2, <2>1, <2>4 DEF Typed
        <3>2. marks' \subseteq Follower \X {"raced", "behind", "torn"}
            BY <1>2, <2>1 DEF Typed
        <3>3. QED
            BY <1>1, <1>2, <1>3, <2>1, <2>2, <2>3, <3>1, <3>2 DEF Typed
    <2>6. RequestsFit'
        <3>1. snap[Leader] <= snap'[Leader] /\ last'[Leader] = last[Leader]
            BY <1>2, <2>1 DEF Typed
        <3>2. \A g \in Follower : peer'[g].sync = peer[g].sync
            BY <2>1
        <3>3. MessageFits(r)'
            BY <2>3 DEF MessageFits
        <3>4. QED
            BY <2>3, <2>5, <3>1, <3>2, <3>3, FitStays
    <2>7. \A t \in Server \ {f} : Untouched(t)
        BY <1>1, <1>2, <2>1 DEF Untouched, Typed
    <2>8. ServerOrder(f)'
        <3>1. /\ start'[f] = m.idx + 1 /\ last'[f] >= m.idx
              /\ last'[f] >= last[f]
              /\ quick'[f] = m.idx /\ commit'[f] = m.idx /\ saved'[f] = m.idx
              /\ snap'[f] = m.idx /\ applying'[f] = applying[f]
              /\ making'[f] = making[f] /\ up'[f] = up[f] /\ last'[f] \in Nat
            BY <1>1, <1>2, <2>1, <2>4 DEF Typed, Larger
        <3>2. /\ applying[f] \in Nat /\ making[f].idx \in Nat /\ last[f] \in Nat
              /\ commit[f] \in Nat
            BY <1>2 DEF Typed
        <3>3. IndexOrder(f)'
            BY <1>1, <1>2, <1>4, <3>1, <3>2 DEF ServerOrder, IndexOrder
        <3>4. SavedOrder(f)'
            BY <1>2, <3>1, <3>2 DEF SavedOrder
        <3>5. CompactOrder(f)'
            <4>1. applying[f] # 0 => Marked(f, "raced")'
                BY <2>1 DEF Marked
            <4>2. QED
                BY <1>2, <3>1, <3>2, <4>1 DEF CompactOrder
        <3>6. ExitOrder(f)'
            BY <1>1, <3>1 DEF ExitOrder, Up
        <3>7. QED
            BY <3>3, <3>4, <3>5, <3>6 DEF ServerOrder
    <2>9. QED
        BY <1>2, <2>5, <2>6, <2>7, <2>8, OneServerStep
<1>6. CASE ~(m.idx >= start[f])
    <2>1. /\ Exits(m, "bad_install")
          /\ UNCHANGED <<start, last, snap, content, quick, commit, saved, marks>>
        BY <1>6 DEF InstallSnapshot
    <2> HIDE DEF f
    <2>2. /\ up' \in [Server -> Causes] /\ up'[f] = "bad_install"
          /\ \A t \in Server \ {f} : up'[t] = up[t]
          /\ peer' \in [Follower -> PeerObjects] /\ net' = net \ {m}
          /\ \A g \in Follower : peer'[g].sync = peer[g].sync
        BY <1>2, <2>1, ExitsFacts DEF Causes, f
    <2>3. Typed'
        BY <1>1, <1>2, <1>3, <2>1, <2>2 DEF Typed
    <2>4. RequestsFit'
        <3>1. snap[Leader] <= snap'[Leader] /\ last'[Leader] = last[Leader]
            BY <1>2, <2>1 DEF Typed
        <3>2. QED
            BY <2>2, <2>3, <3>1, FitStays
    <2>5. \A t \in Server \ {f} : Untouched(t)
        BY <1>1, <2>1, <2>2 DEF Untouched
    <2>6. Marked(f, "behind") \/ Marked(f, "torn")
        <3>1. start[f] \in Nat /\ commit[f] \in Nat
            BY <1>2 DEF Typed
        <3>2. QED
            BY <1>1, <1>2, <1>4, <1>6, <3>1 DEF ServerOrder, CompactOrder
    <2>7. ServerOrder(f)'
        <3>1. last'[f] >= last[f] /\ quick'[f] >= quick[f]
            BY <1>2, <2>1 DEF Typed
        <3>2. QED
            BY <1>1, <1>2, <1>4, <2>1, <2>2, <2>3, <2>6, <3>1, OrderStays
    <2>8. QED
        BY <1>2, <2>3, <2>4, <2>5, <2>7, OneServerStep
<1>7. QED
    BY <1>5, <1>6

\* A peer is set free, with the callback of its response queued.
QueuedOf(m) == [m EXCEPT !.queued = TRUE]

\* handle_rpc_result keeps the indexes in order and the response as it is.
LEMMA SetFreeIndexes ==
    ASSUME IndexInv, NEW m \in net, SetFree(m)
    PROVE  /\ IndexInv'
           /\ m \in Responses /\ QueuedOf(m) \in Responses
           /\ QueuedOf(m).type = m.type /\ QueuedOf(m).peer = m.peer
           /\ QueuedOf(m).accepted = m.accepted /\ QueuedOf(m).next = m.next
           /\ QueuedOf(m).queued /\ QueuedOf(m).live
           /\ net' = (net \ {m}) \cup {QueuedOf(m)}
           /\ \A f \in Follower :
                  /\ peer'[f].sync = peer[f].sync /\ peer'[f].next = peer[f].next
                  /\ f # m.peer => peer'[f] = peer[f]
<1>1. /\ Typed /\ m \in Messages /\ ~IsReq(m) /\ MessageFits(m)
      /\ Leader \in Server
    BY LeaderUnmarked DEF IndexInv, Typed, SetFree, RequestsFit
<1>2. m \in Responses
    BY <1>1, MessageKinds
<1>3. PICK k : k = QueuedOf(m)
    OBVIOUS
<1>4. /\ k \in Responses /\ k.type = m.type /\ k.peer = m.peer
      /\ k.accepted = m.accepted /\ k.next = m.next /\ k.queued /\ k.live
    BY <1>2, <1>3 DEF Responses, QueuedOf
<1>5. k \in Messages /\ m.peer \in Follower
    BY <1>2, <1>4 DEF Responses, Messages
<1>6. net' = (net \ {m}) \cup {k}
    BY <1>3 DEF SetFree, QueuedOf
<1>7. UNCHANGED <<up, start, last, quick, commit, saved, applying, snap,
                  making, content, chunks, errors, restarts, marks>>
    BY DEF SetFree
<1>8. /\ peer' \in [Follower -> PeerObjects]
      /\ \A f \in Follower :
             /\ peer'[f].sync = peer[f].sync /\ peer'[f].next = peer[f].next
             /\ f # m.peer => peer'[f] = peer[f]
    <2>1. PICK q : q = [peer[m.peer] EXCEPT !.busy = FALSE]
        OBVIOUS
    <2>2. /\ q \in PeerObjects /\ q.sync = peer[m.peer].sync
          /\ q.next = peer[m.peer].next
        BY <1>1, <1>5, <2>1 DEF PeerObjects, Typed
    <2>3. peer' = [peer EXCEPT ![m.peer] = q]
        BY <2>1 DEF SetFree
    <2>4. QED
        BY <1>1, <1>5, <2>2, <2>3 DEF Typed
<1>9. Typed'
    BY <1>1, <1>5, <1>6, <1>7, <1>8 DEF Typed
<1>10. MessageFits(k)'
    <2>1. m.type \in {"append_resp", "snapshot_resp"}
        BY <1>2 DEF Responses
    <2>2. QED
        BY <1>1, <1>4, <1>7, <2>1 DEF MessageFits
<1>11. RequestsFit'
    <2>1. snap[Leader] <= snap'[Leader] /\ last'[Leader] = last[Leader]
        BY <1>1, <1>7 DEF Typed
    <2>2. QED
        BY <1>6, <1>8, <1>9, <1>10, <2>1, FitStays
<1>12. \A t \in Server : Untouched(t)
    BY <1>7 DEF Untouched
<1>13. IndexInv'
    BY <1>9, <1>11, <1>12, NoServerStep
<1>14. QED
    BY <1>2, <1>3, <1>4, <1>6, <1>8, <1>13

\* A step that leaves the requests and the peer objects alone.
LEMMA ServerOnlyStep ==
    ASSUME IndexInv, Typed', NEW s \in Server, UNCHANGED <<peer, net>>,
           \A t \in Server \ {s} : Untouched(t),
           last'[Leader] = last[Leader], snap[Leader] <= snap'[Leader],
           ServerOrder(s)', s = Leader => LeaderSnapshot'
    PROVE  IndexInv'
<1>1. RequestsFit'
    BY FitStays
<1>2. QED
    BY <1>1, OneServerStep

\* The commit thread takes an entry.
LEMMA StartEntryIndexes ==
    ASSUME IndexInv, NEW s \in Server, StartEntry(s)
    PROVE  IndexInv'
<1> DEFINE idx == commit[s] + 1
<1>1. /\ Typed /\ ServerOrder(s) /\ LeaderSnapshot /\ Leader \in Server
      /\ Up(s) /\ applying[s] = 0 /\ quick[s] >= idx /\ last[s] >= idx
      /\ UNCHANGED <<start, last, quick, commit, saved, snap, making, chunks,
                     peer, net, errors, restarts, marks>>
    BY LeaderUnmarked DEF IndexInv, StartEntry
<1>2. /\ commit[s] \in Nat /\ start[s] \in Nat /\ idx \in Nat /\ idx # 0
      /\ last[s] \in Nat /\ quick[s] \in Nat /\ saved[s] \in Nat
      /\ making[s].idx \in Nat
    BY <1>1 DEF Typed
<1>3. last'[Leader] = last[Leader] /\ snap[Leader] <= snap'[Leader]
    BY <1>1 DEF Typed
<1>4. CASE idx >= start[s]
    <2>1. /\ applying' = [applying EXCEPT ![s] = idx] /\ up' = up
          /\ content' = [content EXCEPT ![s] = @ \cup {idx}]
        BY <1>2, <1>4 DEF StartEntry
    <2> HIDE DEF idx
    <2>2. Typed'
        <3>1. /\ applying' \in [Server -> Nat]
              /\ content' \in [Server -> SUBSET Nat]
            BY <1>1, <1>2, <2>1 DEF Typed
        <3>2. QED
            BY <1>1, <2>1, <3>1 DEF Typed
    <2>3. applying'[s] = idx /\ \A t \in Server \ {s} : Untouched(t)
        BY <1>1, <2>1 DEF Untouched, Typed
    <2>4. ServerOrder(s)'
        <3>1. IndexOrder(s)'
            BY <1>1, <1>2, <2>3 DEF ServerOrder, IndexOrder, idx
        <3>2. SavedOrder(s)'
            BY <1>1, <1>2, <2>3 DEF ServerOrder, SavedOrder, idx
        <3>3. CompactOrder(s)'
            BY <1>1, <1>2, <1>4, <2>1, <2>3
            DEF ServerOrder, CompactOrder, Marked, Up, idx
        <3>4. ExitOrder(s)'
            BY <1>1, <2>1 DEF ServerOrder, ExitOrder, Marked
        <3>5. QED
            BY <3>1, <3>2, <3>3, <3>4 DEF ServerOrder
    <2>5. LeaderSnapshot'
        BY <1>1, <2>1 DEF LeaderSnapshot
    <2>6. QED
        BY <1>1, <1>3, <2>2, <2>3, <2>4, <2>5, ServerOnlyStep
<1>5. CASE ~(idx >= start[s])
    <2>1. up' = [up EXCEPT ![s] = "bad_commit"] /\ UNCHANGED <<applying, content>>
        BY <1>5 DEF StartEntry
    <2>2. Typed'
        BY <1>1, <2>1 DEF Typed, Causes
    <2>3. /\ up'[s] = "bad_commit" /\ \A t \in Server \ {s} : Untouched(t)
        BY <1>1, <2>1 DEF Untouched, Typed
    <2>4. Marked(s, "torn") \/ Marked(s, "behind")
        BY <1>1, <1>2, <1>5 DEF ServerOrder, CompactOrder
    <2>5. ServerOrder(s)'
        BY <1>1, <2>1, <2>3, <2>4
        DEF ServerOrder, IndexOrder, SavedOrder, CompactOrder, ExitOrder, Marked,
            Up
    <2>6. s = Leader => LeaderSnapshot'
        BY <1>1, <2>3 DEF LeaderSnapshot
    <2>7. QED
        BY <1>1, <1>3, <2>1, <2>2, <2>3, <2>5, <2>6, ServerOnlyStep
<1>6. QED
    BY <1>4, <1>5

\* An entry is applied; a snapshot may be due, and the thread goes on.
LEMMA FinishEntryIndexes ==
    ASSUME IndexInv, NEW s \in Server, FinishEntry(s)
    PROVE  IndexInv'
<1> DEFINE idx == applying[s]
           more == quick[s] > idx /\ last[s] > idx
           readable == idx + 1 >= start[s]
<1>1. /\ Typed /\ ServerOrder(s) /\ LeaderSnapshot /\ Leader \in Server
      /\ Up(s) /\ idx # 0
      /\ commit' = [commit EXCEPT ![s] = idx]
      /\ making' = IF Due(s, idx)
                   THEN [making EXCEPT ![s] = [idx |-> idx - 1, done |-> FALSE]]
                   ELSE making
      /\ applying' = [applying EXCEPT ![s] =
                         IF more /\ readable THEN idx + 1 ELSE 0]
      /\ content' = IF more /\ readable
                    THEN [content EXCEPT ![s] = @ \cup {idx + 1}] ELSE content
      /\ up' = IF more /\ ~readable
               THEN [up EXCEPT ![s] = "bad_commit"] ELSE up
      /\ saved' = IF more THEN saved ELSE [saved EXCEPT ![s] = idx]
      /\ UNCHANGED <<start, last, quick, snap, chunks, peer, net, errors,
                     restarts, marks>>
    BY LeaderUnmarked DEF IndexInv, FinishEntry
<1>2. /\ commit[s] \in Nat /\ start[s] \in Nat /\ idx \in Nat /\ idx # 0
      /\ last[s] \in Nat /\ quick[s] \in Nat /\ saved[s] \in Nat
      /\ making[s].idx \in Nat /\ snap[s] \in Nat /\ idx + 1 \in Nat
      /\ idx - 1 \in Nat
    BY <1>1 DEF Typed
<1>3. last'[Leader] = last[Leader] /\ snap[Leader] <= snap'[Leader]
    BY <1>1 DEF Typed
<1> HIDE DEF idx
<1>4. /\ commit'[s] = idx
      /\ applying'[s] = IF more /\ readable THEN idx + 1 ELSE 0
      /\ saved'[s] = IF more THEN saved[s] ELSE idx
      /\ up'[s] = IF more /\ ~readable THEN "bad_commit" ELSE up[s]
      /\ \A t \in Server \ {s} : Untouched(t)
    BY <1>1 DEF Typed, Untouched
<1>5. \/ making'[s] = making[s]
      \/ /\ Due(s, idx) /\ making'[s].idx = idx - 1 /\ ~making'[s].done
         /\ idx - 1 >= start[s]
    <2>1. CASE Due(s, idx)
        <3>1. making'[s] = [idx |-> idx - 1, done |-> FALSE]
            BY <1>1, <2>1 DEF Typed
        <3>2. Distance[s] \in Nat
            BY SnapshotAssumption
        <3>3. idx - 1 >= start[s]
            BY <1>2, <2>1, <3>2 DEF Due
        <3>4. QED
            BY <2>1, <3>1, <3>3
    <2>2. QED
        BY <1>1, <2>1
<1>6. Typed'
    <2>1. /\ commit' \in [Server -> Nat] /\ applying' \in [Server -> Nat]
          /\ saved' \in [Server -> Nat] /\ content' \in [Server -> SUBSET Nat]
          /\ up' \in [Server -> Causes]
        BY <1>1, <1>2 DEF Typed, Causes
    <2>2. making' \in [Server -> [idx : Nat, done : BOOLEAN]]
        <3>1. [idx |-> idx - 1, done |-> FALSE] \in [idx : Nat, done : BOOLEAN]
            BY <1>2
        <3>2. QED
            BY <1>1, <3>1 DEF Typed
    <2>3. QED
        BY <1>1, <2>1, <2>2 DEF Typed
<1>7. ServerOrder(s)'
    <2>1. IndexOrder(s)'
        BY <1>1, <1>2, <1>4, <1>5 DEF ServerOrder, IndexOrder, idx
    <2>2. SavedOrder(s)'
        BY <1>1, <1>2, <1>4 DEF ServerOrder, SavedOrder, IndexOrder, idx
    <2>3. CompactOrder(s)'
        <3>1. /\ ~Marked(s, "torn") => start[s] - 1 <= snap[s]
            BY <1>1 DEF ServerOrder, CompactOrder
        <3>2. ASSUME ~Marked(s, "torn"), ~Marked(s, "behind"),
                     ~Marked(s, "raced")
              PROVE  start[s] <= idx + 1
            BY <1>1, <1>2, <3>2 DEF ServerOrder, CompactOrder, idx
        <3>3. ASSUME ~Marked(s, "torn"), ~Marked(s, "behind"), up'[s] = "up"
              PROVE  start[s] <= idx + 1
            <4>1. start[s] <= commit[s] + 1
                BY <1>1, <3>3 DEF ServerOrder, CompactOrder
            <4>2. commit[s] <= quick[s] /\ commit[s] <= last[s]
                BY <1>1 DEF ServerOrder, IndexOrder
            <4>3. QED
                BY <1>2, <1>4, <3>3, <4>1, <4>2
        <3>4. QED
            BY <1>1, <1>2, <1>4, <3>1, <3>2, <3>3 DEF CompactOrder, Marked, Up
    <2>4. ExitOrder(s)'
        <3>1. ASSUME more, ~readable
              PROVE  Marked(s, "torn") \/ Marked(s, "behind") \/ Marked(s, "raced")
            BY <1>1, <1>2, <3>1 DEF ServerOrder, CompactOrder, idx
        <3>2. QED
            BY <1>1, <1>4, <3>1 DEF ServerOrder, ExitOrder, Marked
    <2>5. QED
        BY <2>1, <2>2, <2>3, <2>4 DEF ServerOrder
<1>8. s = Leader => LeaderSnapshot'
    <2>1. SUFFICES ASSUME s = Leader PROVE LeaderSnapshot'
        OBVIOUS
    <2>2. up'[Leader] # "bad_term"
        BY <1>1, <1>4, <2>1 DEF Up
    <2>3. CASE making'[s] = making[s]
        BY <1>1, <2>1, <2>2, <2>3 DEF LeaderSnapshot
    <2>4. CASE /\ Due(s, idx) /\ making'[s].idx = idx - 1 /\ ~making'[s].done
               /\ idx - 1 >= start[s]
        <3>1. ~making[s].done
            BY <1>1, <1>2, <2>1, <2>4
            DEF Due, LeaderSnapshot, ServerOrder, IndexOrder
        <3>2. QED
            BY <1>1, <1>2, <2>1, <2>2, <2>4, <3>1 DEF LeaderSnapshot
    <2>5. QED
        BY <1>5, <2>3, <2>4
<1>9. QED
    BY <1>1, <1>3, <1>4, <1>6, <1>7, <1>8, ServerOnlyStep

\* The state machine makes the snapshot, or refuses to.
LEMMA CreateSnapshotIndexes ==
    ASSUME IndexInv, NEW s \in Server, CreateSnapshot(s)
    PROVE  IndexInv'
<1>1. /\ Typed /\ ServerOrder(s) /\ LeaderSnapshot /\ Leader \in Server
      /\ Up(s) /\ making[s].idx # 0 /\ ~making[s].done
      /\ UNCHANGED <<up, start, last, quick, commit, saved, applying, content,
                     chunks, peer, net, errors, restarts, marks>>
    BY LeaderUnmarked DEF IndexInv, CreateSnapshot
<1>2. /\ commit[s] \in Nat /\ start[s] \in Nat /\ last[s] \in Nat
      /\ making[s].idx \in Nat /\ snap[s] \in Nat
      /\ making[s] \in [idx : Nat, done : BOOLEAN]
    BY <1>1 DEF Typed
<1>3. PICK k \in [idx : Nat, done : BOOLEAN], i \in Nat :
          /\ making' = [making EXCEPT ![s] = k] /\ snap' = [snap EXCEPT ![s] = i]
          /\ \/ k.idx = making[s].idx /\ k.done /\ i = Larger(snap[s], making[s].idx)
             \/ k.idx = 0 /\ ~k.done /\ i = snap[s]
    <2>1. CASE /\ making' = [making EXCEPT ![s].done = TRUE]
               /\ snap' = [snap EXCEPT ![s] = Larger(@, making[s].idx)]
        <3>1. PICK k : k = [making[s] EXCEPT !.done = TRUE]
            OBVIOUS
        <3>2. k \in [idx : Nat, done : BOOLEAN] /\ k.idx = making[s].idx /\ k.done
            BY <1>2, <3>1
        <3>3. Larger(snap[s], making[s].idx) \in Nat
            BY <1>2 DEF Larger
        <3>4. /\ making' = [making EXCEPT ![s] = k]
              /\ snap' = [snap EXCEPT ![s] = Larger(snap[s], making[s].idx)]
            BY <2>1, <3>1
        <3>5. QED
            BY <3>2, <3>3, <3>4
    <2>2. CASE making' = [making EXCEPT ![s] = None] /\ UNCHANGED snap
        <3>1. None \in [idx : Nat, done : BOOLEAN] /\ None.idx = 0 /\ ~None.done
            BY DEF None
        <3>2. snap' = [snap EXCEPT ![s] = snap[s]]
            BY <1>1, <2>2 DEF Typed
        <3>3. QED
            BY <1>2, <2>2, <3>1, <3>2
    <2>3. QED
        BY <2>1, <2>2 DEF CreateSnapshot
<1>4. Typed'
    BY <1>1, <1>3 DEF Typed
<1>5. /\ making'[s] = k /\ snap'[s] = i /\ i >= snap[s]
      /\ k.done => i >= k.idx
      /\ \A t \in Server \ {s} : Untouched(t)
    BY <1>1, <1>2, <1>3 DEF Untouched, Typed, Larger
<1>6. last'[Leader] = last[Leader] /\ snap[Leader] <= snap'[Leader]
    BY <1>1, <1>3, <1>5 DEF Typed
<1>7. ServerOrder(s)'
    <2>1. k.idx = making[s].idx \/ k.idx = 0
        BY <1>3
    <2>2. i <= last[s]
        BY <1>1, <1>2, <1>3 DEF ServerOrder, IndexOrder, Larger
    <2>3. IndexOrder(s)'
        <3>1. /\ k.idx <= making[s].idx /\ k.idx \in Nat /\ applying[s] \in Nat
              /\ k.done => k.idx # 0
            BY <1>1, <1>2, <1>3, <2>1 DEF Typed
        <3>2. /\ making[s].idx <= commit[s]
              /\ applying[s] # 0 => making[s].idx < applying[s]
            BY <1>1 DEF ServerOrder, IndexOrder
        <3>3. /\ k.idx <= commit[s]
              /\ applying[s] # 0 => k.idx < applying[s]
            BY <1>2, <3>1, <3>2
        <3>4. QED
            BY <1>1, <1>5, <2>2, <3>1, <3>3 DEF ServerOrder, IndexOrder
    <2>4. SavedOrder(s)' /\ ExitOrder(s)'
        BY <1>1 DEF ServerOrder, SavedOrder, ExitOrder, Marked
    <2>5. CompactOrder(s)'
        BY <1>1, <1>2, <1>3, <1>5 DEF ServerOrder, CompactOrder, Marked, Up
    <2>6. QED
        BY <2>3, <2>4, <2>5 DEF ServerOrder
<1>8. s = Leader => LeaderSnapshot'
    <2>1. SUFFICES ASSUME s = Leader PROVE LeaderSnapshot'
        OBVIOUS
    <2>2. up'[Leader] = "up" /\ start'[Leader] = start[Leader]
        BY <1>1, <2>1 DEF Up
    <2>3. snap[Leader] = start[Leader] - 1 /\ making[Leader].idx >= start[Leader]
        BY <1>1, <2>1 DEF LeaderSnapshot
    <2>4. QED
        BY <1>2, <1>3, <1>5, <2>1, <2>2, <2>3 DEF LeaderSnapshot, Larger
<1>9. QED
    BY <1>1, <1>4, <1>5, <1>6, <1>7, <1>8, ServerOnlyStep

\* The log is compacted to the snapshot made.
LEMMA SnapshotCompletedIndexes ==
    ASSUME IndexInv, NEW s \in Server, OnSnapshotCompleted(s)
    PROVE  /\ IndexInv' /\ UNCHANGED last
           /\ start' = [start EXCEPT ![s] = making[s].idx + 1]
           /\ start'[s] >= start[s]
<1> DEFINE idx == making[s].idx
<1>1. /\ Typed /\ ServerOrder(s) /\ LeaderSnapshot /\ Leader \in Server
      /\ Up(s) /\ making[s].done /\ idx >= start[s]
      /\ start' = [start EXCEPT ![s] = idx + 1]
      /\ last' = [last EXCEPT ![s] = Larger(last[s], idx)]
      /\ making' = [making EXCEPT ![s] = None]
      /\ UNCHANGED <<up, quick, commit, saved, applying, snap, content, chunks,
                     peer, net, errors, restarts, marks>>
    BY LeaderUnmarked DEF IndexInv, OnSnapshotCompleted, CompactTo
<1>2. /\ commit[s] \in Nat /\ start[s] \in Nat /\ last[s] \in Nat
      /\ idx \in Nat /\ snap[s] \in Nat /\ saved[s] \in Nat
      /\ applying[s] \in Nat
    BY <1>1 DEF Typed
<1>3. Larger(last[s], idx) = last[s] /\ idx <= snap[s] /\ idx <= commit[s]
    BY <1>1, <1>2 DEF ServerOrder, IndexOrder, Larger
<1>4. last' = last
    BY <1>1, <1>3 DEF Typed
<1>5. None \in [idx : Nat, done : BOOLEAN] /\ None.idx = 0 /\ ~None.done
    BY DEF None
<1> HIDE DEF idx
<1>6. Typed'
    <2>1. /\ start' \in [Server -> Nat]
          /\ making' \in [Server -> [idx : Nat, done : BOOLEAN]]
        BY <1>1, <1>2, <1>5 DEF Typed
    <2>2. QED
        BY <1>1, <1>4, <2>1 DEF Typed
<1>7. /\ start'[s] = idx + 1 /\ making'[s].idx = 0 /\ ~making'[s].done
      /\ \A t \in Server \ {s} : Untouched(t)
    BY <1>1, <1>4, <1>5 DEF Untouched, Typed
<1>8. last'[Leader] = last[Leader] /\ snap[Leader] <= snap'[Leader]
    BY <1>1, <1>4 DEF Typed
<1>9. ServerOrder(s)'
    <2>1. IndexOrder(s)'
        BY <1>1, <1>2, <1>3, <1>4, <1>7 DEF ServerOrder, IndexOrder
    <2>2. SavedOrder(s)' /\ ExitOrder(s)'
        BY <1>1, <1>2, <1>7 DEF ServerOrder, SavedOrder, ExitOrder, Marked
    <2>3. CompactOrder(s)'
        BY <1>1, <1>2, <1>3, <1>7
        DEF ServerOrder, IndexOrder, CompactOrder, Marked, Up, idx
    <2>4. QED
        BY <2>1, <2>2, <2>3 DEF ServerOrder
<1>10. s = Leader => LeaderSnapshot'
    <2>1. SUFFICES ASSUME s = Leader PROVE LeaderSnapshot'
        OBVIOUS
    <2>2. snap[Leader] = idx /\ up'[Leader] = "up"
        BY <1>1, <2>1 DEF LeaderSnapshot, Up, idx
    <2>3. QED
        BY <1>1, <1>2, <1>7, <2>1, <2>2 DEF LeaderSnapshot
<1>11. IndexInv'
    BY <1>1, <1>6, <1>7, <1>8, <1>9, <1>10, ServerOnlyStep
<1>12. QED
    BY <1>1, <1>2, <1>4, <1>7, <1>11 DEF idx

\* A message is lost; a request may become one that nobody waits for.
OrphanOf(m) == [m EXCEPT !.live = FALSE]

\* A lost message keeps the indexes in order.
LEMMA RpcErrorIndexes ==
    ASSUME IndexInv, NEW m \in net, RpcError(m)
    PROVE  /\ IndexInv'
           /\ m.peer \in Follower /\ m.peer \notin Quiet /\ m.live
           /\ \A f \in Follower :
                  /\ peer'[f].sync = peer[f].sync /\ peer'[f].next = peer[f].next
                  /\ f # m.peer => peer'[f] = peer[f]
           /\ errors' = errors + 1
           /\ \/ net' = net \ {m}
              \/ /\ IsReq(m) /\ net' = (net \ {m}) \cup {OrphanOf(m)}
                 /\ OrphanOf(m) \in Messages /\ ~OrphanOf(m).live
                 /\ ~OrphanOf(m).queued
                 /\ OrphanOf(m).peer = m.peer /\ OrphanOf(m).type = m.type
                 /\ m.type = "snapshot_req" =>
                        /\ OrphanOf(m).idx = m.idx
                        /\ OrphanOf(m).offset = m.offset
<1>1. Typed /\ m \in Messages /\ MessageFits(m) /\ Leader \in Server
    BY LeaderUnmarked DEF IndexInv, Typed, RequestsFit
<1>2. /\ m.peer \in Follower /\ m.peer \notin Quiet /\ m.live
      /\ errors' = errors + 1
    BY <1>1, MessageKinds DEF RpcError
<1>3. UNCHANGED <<up, start, last, quick, commit, saved, applying, snap,
                  making, content, chunks, restarts, marks>>
    BY DEF RpcError
<1>4. /\ peer' \in [Follower -> PeerObjects]
      /\ \A f \in Follower :
             /\ peer'[f].sync = peer[f].sync /\ peer'[f].next = peer[f].next
             /\ f # m.peer => peer'[f] = peer[f]
    <2>1. PICK q : q = [peer[m.peer] EXCEPT !.busy = FALSE]
        OBVIOUS
    <2>2. /\ q \in PeerObjects /\ q.sync = peer[m.peer].sync
          /\ q.next = peer[m.peer].next
        BY <1>1, <1>2, <2>1 DEF PeerObjects, Typed
    <2>3. peer' = [peer EXCEPT ![m.peer] = q]
        BY <2>1 DEF RpcError
    <2>4. QED
        BY <1>1, <1>2, <2>2, <2>3 DEF Typed
<1>5. PICK k : k = OrphanOf(m)
    OBVIOUS
<1>6. \/ net' = net \ {m}
      \/ IsReq(m) /\ net' = (net \ {m}) \cup {k}
    BY <1>5 DEF RpcError, OrphanOf
<1>7. ASSUME IsReq(m)
      PROVE  /\ k \in Messages /\ ~k.live /\ k.peer = m.peer /\ k.type = m.type
             /\ ~k.queued
             /\ m.type = "snapshot_req" =>
                    /\ k.idx = m.idx /\ k.offset = m.offset
                    /\ k.done = m.done
             /\ m.type = "append_req" => k.prev = m.prev /\ k.n = m.n
    <2>1. CASE m.type = "append_req"
        <3>1. m \in AppendReqs
            BY <1>1, <2>1, MessageKinds
        <3>2. /\ k \in AppendReqs /\ ~k.live /\ k.peer = m.peer
              /\ k.type = m.type /\ k.prev = m.prev /\ k.n = m.n /\ ~k.queued
            BY <1>5, <3>1 DEF AppendReqs, OrphanOf
        <3>3. QED
            BY <2>1, <3>2 DEF Messages, AppendReqs
    <2>2. CASE m.type = "snapshot_req"
        <3>1. m \in SnapshotReqs
            BY <1>1, <2>2, MessageKinds
        <3>2. /\ k \in SnapshotReqs /\ ~k.live /\ k.peer = m.peer
              /\ k.type = m.type /\ k.idx = m.idx /\ k.offset = m.offset
              /\ k.done = m.done /\ ~k.queued
            BY <1>5, <3>1 DEF SnapshotReqs, OrphanOf
        <3>3. QED
            BY <2>2, <3>2 DEF Messages, SnapshotReqs
    <2>3. QED
        BY <1>7, <2>1, <2>2 DEF IsReq
<1>8. Typed'
    <2>1. net' \subseteq Messages /\ errors' \in Nat
        BY <1>1, <1>2, <1>6, <1>7 DEF Typed
    <2>2. QED
        BY <1>1, <1>3, <1>4, <2>1 DEF Typed
<1>9. ASSUME IsReq(m) PROVE MessageFits(k)'
    BY <1>1, <1>3, <1>7, <1>9 DEF MessageFits, IsReq, Done
<1>10. RequestsFit'
    <2>1. snap[Leader] <= snap'[Leader] /\ last'[Leader] = last[Leader]
        BY <1>1, <1>3 DEF Typed
    <2>2. QED
        BY <1>4, <1>6, <1>8, <1>9, <2>1, FitStays
<1>11. \A t \in Server : Untouched(t)
    BY <1>3 DEF Untouched
<1>12. IndexInv'
    BY <1>8, <1>10, <1>11, NoServerStep
<1>13. QED
    BY <1>2, <1>4, <1>5, <1>6, <1>7, <1>12

\* What a restart makes of a follower's indexes.
LEMMA RestartedFacts ==
    ASSUME Typed, NEW f \in Server, Restarted(f)
    PROVE  /\ up' \in [Server -> Causes] /\ quick' \in [Server -> Nat]
           /\ commit' \in [Server -> Nat] /\ applying' \in [Server -> Nat]
           /\ making' \in [Server -> [idx : Nat, done : BOOLEAN]]
           /\ restarts' \in Nat
           /\ up'[f] = "up" /\ quick'[f] = saved[f] /\ commit'[f] = saved[f]
           /\ applying'[f] = 0 /\ making'[f].idx = 0 /\ ~making'[f].done
           /\ \A t \in Server \ {f} :
                  /\ up'[t] = up[t] /\ quick'[t] = quick[t]
                  /\ commit'[t] = commit[t] /\ applying'[t] = applying[t]
                  /\ making'[t] = making[t]
<1>1. None \in [idx : Nat, done : BOOLEAN] /\ None.idx = 0 /\ ~None.done
    BY DEF None
<1>2. QED
    BY <1>1 DEF Restarted, Typed, Causes

\* A follower is started again.
LEMMA RestartIndexes ==
    ASSUME IndexInv, NEW f \in Follower, Restart(f)
    PROVE  IndexInv'
<1>1. /\ Typed /\ ServerOrder(f) /\ Leader \in Server /\ f \in Server
      /\ f # Leader /\ Restarted(f)
      /\ marks' = IF saved[f] < start[f] - 1
                  THEN marks \cup {<<f, "behind">>} ELSE marks
      /\ UNCHANGED <<start, last, saved, snap, content, chunks, peer, net,
                     errors>>
    BY LeaderUnmarked DEF IndexInv, Restart, Server
<1>2. /\ start[f] \in Nat /\ last[f] \in Nat /\ saved[f] \in Nat
    BY <1>1 DEF Typed
<1>3. /\ up' \in [Server -> Causes] /\ quick' \in [Server -> Nat]
      /\ commit' \in [Server -> Nat] /\ applying' \in [Server -> Nat]
      /\ making' \in [Server -> [idx : Nat, done : BOOLEAN]]
      /\ restarts' \in Nat
      /\ up'[f] = "up" /\ quick'[f] = saved[f] /\ commit'[f] = saved[f]
      /\ applying'[f] = 0 /\ making'[f].idx = 0 /\ ~making'[f].done
      /\ \A t \in Server \ {f} :
             /\ up'[t] = up[t] /\ quick'[t] = quick[t]
             /\ commit'[t] = commit[t] /\ applying'[t] = applying[t]
             /\ making'[t] = making[t]
    BY <1>1, RestartedFacts
<1>4. marks' \subseteq Follower \X {"raced", "behind", "torn"}
    BY <1>1 DEF Typed
<1>5. Typed'
    BY <1>1, <1>3, <1>4 DEF Typed
<1>6. \A t \in Server \ {f} : Untouched(t)
    BY <1>1, <1>3 DEF Untouched
<1>7. last'[Leader] = last[Leader] /\ snap[Leader] <= snap'[Leader]
    BY <1>1 DEF Typed
<1>8. ServerOrder(f)'
    <2>1. IndexOrder(f)'
        BY <1>1, <1>2, <1>3 DEF ServerOrder, IndexOrder
    <2>2. SavedOrder(f)' /\ ExitOrder(f)'
        BY <1>1, <1>2, <1>3 DEF SavedOrder, ExitOrder
    <2>3. CompactOrder(f)'
        <3>1. /\ ~Marked(f, "torn")' => start[f] - 1 <= snap[f]
            BY <1>1 DEF ServerOrder, CompactOrder, Marked
        <3>2. ~Marked(f, "behind")' => start[f] <= saved[f] + 1
            BY <1>1, <1>2 DEF Marked
        <3>3. QED
            BY <1>1, <1>3, <3>1, <3>2 DEF CompactOrder
    <2>4. QED
        BY <2>1, <2>2, <2>3 DEF ServerOrder
<1>9. QED
    BY <1>1, <1>5, <1>6, <1>7, <1>8, ServerOnlyStep

\* A follower dies while it installs a snapshot.
LEMMA CrashIndexes ==
    ASSUME IndexInv, NEW m \in net, CrashInInstall(m)
    PROVE  IndexInv'
<1> DEFINE f == m.peer
           got == chunks[f] \cup {<<m.idx, m.offset>>}
<1>1. /\ m.type = "snapshot_req" /\ Up(f) /\ m.idx > commit[f] /\ m.done
      /\ m.idx >= start[f] /\ Restarted(f)
      /\ start' = [start EXCEPT ![f] = m.idx + 1]
      /\ last' = [last EXCEPT ![f] = Larger(last[f], m.idx)]
      /\ chunks' = [chunks EXCEPT ![f] = got]
      /\ marks' = marks \cup {<<f, "torn">>} /\ net' = net \ {m}
      /\ UNCHANGED <<saved, errors>>
    BY DEF CrashInInstall, CompactTo
<1>2. /\ Typed /\ m.idx \in Nat
      /\ f \in Follower /\ f \in Server /\ f # Leader /\ Leader \in Server
      /\ got \in SUBSET (Nat \X Nat)
    BY <1>1, SnapshotReqFacts
<1>3. /\ ServerOrder(f) /\ start[f] \in Nat /\ last[f] \in Nat
      /\ saved[f] \in Nat /\ commit[f] \in Nat /\ snap[f] \in Nat
    BY <1>2 DEF IndexInv, Typed
<1>4. /\ peer' \in [Follower -> PeerObjects]
      /\ \A g \in Follower : peer'[g].sync = peer[g].sync
    <2>1. PICK q : q = [peer[f] EXCEPT !.busy = FALSE]
        OBVIOUS
    <2>2. q \in PeerObjects /\ q.sync = peer[f].sync
        BY <1>2, <2>1 DEF PeerObjects, Typed
    <2>3. peer' = peer \/ peer' = [peer EXCEPT ![f] = q]
        BY <2>1 DEF CrashInInstall
    <2>4. QED
        BY <1>2, <2>2, <2>3 DEF Typed
<1>5. PICK c \in SUBSET Nat, i \in {snap[f], m.idx} :
          content' = [content EXCEPT ![f] = c] /\ snap' = [snap EXCEPT ![f] = i]
    <2>1. CASE Installed(f, m, got)
        <3>1. 1..m.idx \in SUBSET Nat /\ {} \in SUBSET Nat
            BY <1>2
        <3>2. QED
            BY <2>1, <3>1 DEF Installed
    <2>2. CASE UNCHANGED <<content, snap>>
        <3>1. /\ content[f] \in SUBSET Nat
              /\ content' = [content EXCEPT ![f] = content[f]]
              /\ snap' = [snap EXCEPT ![f] = snap[f]]
            BY <1>2, <2>2 DEF Typed
        <3>2. QED
            BY <3>1
    <2>3. QED
        BY <2>1, <2>2 DEF CrashInInstall
<1>6. chunks' \in [Follower -> SUBSET (Nat \X Nat)]
    <2> HIDE DEF got, f
    <2>1. QED
        BY <1>1, <1>2 DEF Typed
<1> HIDE DEF f
<1>7. /\ up' \in [Server -> Causes] /\ quick' \in [Server -> Nat]
      /\ commit' \in [Server -> Nat] /\ applying' \in [Server -> Nat]
      /\ making' \in [Server -> [idx : Nat, done : BOOLEAN]]
      /\ restarts' \in Nat
      /\ up'[f] = "up" /\ quick'[f] = saved[f] /\ commit'[f] = saved[f]
      /\ applying'[f] = 0 /\ making'[f].idx = 0 /\ ~making'[f].done
      /\ \A t \in Server \ {f} :
             /\ up'[t] = up[t] /\ quick'[t] = quick[t]
             /\ commit'[t] = commit[t] /\ applying'[t] = applying[t]
             /\ making'[t] = making[t]
    BY <1>1, <1>2, RestartedFacts
<1>8. /\ Larger(last[f], m.idx) \in Nat /\ Larger(last[f], m.idx) >= m.idx
      /\ Larger(last[f], m.idx) >= last[f]
    BY <1>2, <1>3 DEF Larger
<1>9. Typed'
    <2>1. /\ start' \in [Server -> Nat] /\ last' \in [Server -> Nat]
          /\ snap' \in [Server -> Nat] /\ content' \in [Server -> SUBSET Nat]
        BY <1>1, <1>2, <1>3, <1>5, <1>8 DEF Typed
    <2>2. marks' \subseteq Follower \X {"raced", "behind", "torn"}
        BY <1>1, <1>2 DEF Typed
    <2>3. QED
        BY <1>1, <1>2, <1>4, <1>6, <1>7, <2>1, <2>2 DEF Typed
<1>10. RequestsFit'
    <2>1. snap[Leader] <= snap'[Leader] /\ last'[Leader] = last[Leader]
        BY <1>1, <1>2, <1>5 DEF Typed
    <2>2. QED
        BY <1>1, <1>4, <1>9, <2>1, FitStays
<1>11. \A t \in Server \ {f} : Untouched(t)
    BY <1>1, <1>2, <1>5, <1>7 DEF Untouched, Typed
<1>12. ServerOrder(f)'
    <2>1. /\ start'[f] = m.idx + 1 /\ last'[f] >= m.idx /\ last'[f] >= last[f]
          /\ saved'[f] = saved[f] /\ snap'[f] = i /\ last'[f] \in Nat
        BY <1>1, <1>2, <1>5, <1>8 DEF Typed
    <2>2. IndexOrder(f)'
        BY <1>2, <1>3, <1>5, <1>7, <2>1 DEF ServerOrder, IndexOrder
    <2>3. SavedOrder(f)' /\ ExitOrder(f)'
        BY <1>3, <1>7, <2>1 DEF SavedOrder, ExitOrder
    <2>4. Marked(f, "torn")'
        BY <1>1 DEF Marked
    <2>5. CompactOrder(f)'
        BY <2>4 DEF CompactOrder
    <2>6. QED
        BY <2>2, <2>3, <2>5 DEF ServerOrder
<1>13. QED
    BY <1>2, <1>9, <1>10, <1>11, <1>12, OneServerStep

-----------------------------------------------------------------------------
(* IndexInv is an invariant. *)

\* Every step keeps the indexes in order.
LEMMA NextIndexes == IndexInv /\ [Next]_vars => IndexInv'
<1> SUFFICES ASSUME IndexInv, [Next]_vars PROVE IndexInv'
    OBVIOUS
<1>1. CASE UNCHANGED vars
    <2>1. Typed'
        BY <1>1 DEF vars, IndexInv, Typed
    <2>2. \A s \in Server : ServerOrder(s)'
        BY <1>1 DEF vars, IndexInv, ServerOrder, IndexOrder, SavedOrder,
                    CompactOrder, ExitOrder, Marked, Up
    <2>3. LeaderSnapshot' /\ RequestsFit'
        BY <1>1 DEF vars, IndexInv, LeaderSnapshot, RequestsFit, MessageFits
    <2>4. QED
        BY <2>1, <2>2, <2>3 DEF IndexInv
<1>2. ASSUME NEW m \in net, Receive(m) PROVE IndexInv'
    BY <1>2, AppendEntriesIndexes, SaveBlockIndexes, InstallIndexes,
       SetFreeIndexes, AcceptedIndexes, RefusedIndexes, BlockIndexes DEF Receive
<1>3. ASSUME NEW s \in Server, CommitInBg(s) \/ Compaction(s) PROVE IndexInv'
    BY <1>3, StartEntryIndexes, FinishEntryIndexes, CreateSnapshotIndexes,
       SnapshotCompletedIndexes DEF CommitInBg, Compaction
<1>4. QED
    BY <1>1, <1>2, <1>3, RpcErrorIndexes, CrashIndexes, CliReqIndexes,
       HbTimeoutIndexes, RestartIndexes DEF Next

\* IndexInv is an invariant.
LEMMA IndexesInvariant == Spec => []IndexInv
BY InitIndexes, NextIndexes, PTL DEF Spec

\* Only followers are overtaken, and they stay so.
LEMMA OvertakenGrows ==
    ASSUME IndexInv, [Next]_vars
    PROVE  overtaken \subseteq overtaken' /\ overtaken' \subseteq overtaken \cup Follower
<1>1. CASE UNCHANGED vars
    BY <1>1 DEF vars
<1>2. CASE HandleCliReq
    BY <1>2, CliReqIndexes DEF Sent
<1>3. ASSUME NEW f \in Follower, HandleHbTimeout(f)
      PROVE  overtaken \subseteq overtaken' /\ overtaken' \subseteq overtaken \cup Follower
    BY <1>3, HbTimeoutIndexes DEF Sent
<1>4. ASSUME NEW m \in net, HandleAppendAccepted(m)
      PROVE  overtaken \subseteq overtaken' /\ overtaken' \subseteq overtaken \cup Follower
    BY <1>4, AcceptedIndexes DEF Sent
<1>5. ASSUME NEW m \in net, HandleAppendRefused(m)
      PROVE  overtaken \subseteq overtaken' /\ overtaken' \subseteq overtaken \cup Follower
    <2>1. m.peer \in Follower
        BY MessageKinds DEF IndexInv, Typed
    <2>2. Sent({m.peer}, last[Leader], quick[Leader], RefusedPeers(m), net \ {m})
        BY <1>5, RefusedIndexes
    <2>3. QED
        BY <2>1, <2>2 DEF Sent
<1>6. ASSUME NEW m \in net, HandleInstallSnapshotResp(m)
      PROVE  overtaken \subseteq overtaken' /\ overtaken' \subseteq overtaken \cup Follower
    BY <1>6, BlockIndexes DEF Sent
<1>7. QED
    BY <1>1, <1>2, <1>3, <1>4, <1>5, <1>6
    DEF Next, Receive, HandleAppendEntries, SaveBlock, InstallSnapshot, SetFree,
        RpcError, CrashInInstall, Restart, CommitInBg, StartEntry, FinishEntry,
        Compaction, CreateSnapshot, OnSnapshotCompleted

\* Types, and logs that end neither before their start index nor before the
\* commit index, whatever is installed, compacted, lost or restarted.
THEOREM SnapshotTypes == Spec => []TypeOK
<1>1. IndexInv /\ overtaken \subseteq Follower => TypeOK
    <2> SUFFICES ASSUME IndexInv, overtaken \subseteq Follower PROVE TypeOK
        OBVIOUS
    <2>1. Typed
        BY DEF IndexInv
    <2>2. ASSUME NEW s \in Server
          PROVE  start[s] \in 1..(last[s] + 1) /\ commit[s] \in 0..last[s]
        BY <2>1 DEF IndexInv, Typed, ServerOrder, IndexOrder
    <2>3. QED
        BY <2>1, <2>2 DEF Typed, TypeOK, Causes, PeerObjects
<1>2. Init => IndexInv /\ overtaken \subseteq Follower
    BY InitIndexes DEF Init
<1>3. IndexInv /\ overtaken \subseteq Follower /\ [Next]_vars =>
          (IndexInv /\ overtaken \subseteq Follower)'
    BY NextIndexes, OvertakenGrows
<1>4. QED
    BY <1>1, <1>2, <1>3, PTL DEF Spec

\* What compaction removes is in the last snapshot, so that term_for_log finds
\* the term before the start index, with any number of servers and faults.
THEOREM CompactionIsCovered == Spec => []CompactedIsInSnapshot
<1>1. IndexInv => CompactedIsInSnapshot
    BY DEF IndexInv, ServerOrder, CompactOrder, Marked, CompactedIsInSnapshot
<1>2. QED
    BY <1>1, IndexesInvariant, PTL

-----------------------------------------------------------------------------
(* One call per peer.  As long as no request overtakes the callback of a     *)
(* response, the answer a handler sees belongs to the last request made to   *)
(* that peer.                                                                *)

\* The peer object agrees with the call under way.
CallMatches(m) ==
    /\ m.type = "append_req" /\ m.live => peer[m.peer].next = m.prev + 1
    /\ m.type = "snapshot_req" /\ m.live =>
           peer[m.peer].sync.idx = m.idx /\ peer[m.peer].sync.offset = m.offset
    /\ m.type = "append_resp" /\ ~m.accepted => m.next < peer[m.peer].next

\* A block is only sent when the ones before it are stored.
Stored(f, i, n) == \A o \in Nat : o < n => <<i, o>> \in chunks[f]
BlocksBefore(m) ==
    /\ m.type = "snapshot_req" => Stored(m.peer, m.idx, m.offset)
    /\ m.type = "snapshot_resp" /\ m.accepted =>
           Stored(m.peer, peer[m.peer].sync.idx, m.next)

PeerFits(f, p, end) ==
    /\ p.next >= 1 /\ p.next <= end + 1
    /\ Stored(f, p.sync.idx, p.sync.offset)

\* The calls to f.
CallsOf(f) ==
    /\ \A m, n \in net : m.peer = f /\ n.peer = f /\ m.live /\ n.live => m = n
    /\ \A m \in net : m.peer = f /\ m.live /\ ~m.queued => peer[f].busy
    /\ \A m \in net : m.peer = f => CallMatches(m) /\ BlocksBefore(m)
    /\ PeerFits(f, peer[f], last[Leader])

CallInv ==
    /\ \A f \in Follower \ overtaken : CallsOf(f)
    /\ \A s \in Server : up[s] = "too_large" => s = Leader /\ overtaken # {}

\* The initial state: nothing is under way.
LEMMA InitCalls == Init => CallInv
<1> SUFFICES ASSUME Init PROVE CallInv
    OBVIOUS
<1>1. net = {} /\ Leader \in Server /\ last[Leader] = 1
    BY SnapshotAssumption DEF Init, Server, Has
<1>2. ASSUME NEW f \in Follower
      PROVE  peer[f].next = 2 /\ peer[f].sync.offset = 0
    BY DEF Init, NoSync
<1>3. \A s \in Server : up[s] = "up"
    BY DEF Init
<1>4. \A f \in Follower : PeerFits(f, peer[f], last[Leader])
    BY <1>1, <1>2 DEF Stored, PeerFits
<1>5. QED
    BY <1>1, <1>3, <1>4 DEF CallInv, CallsOf

\* Messages that stay, and a peer object that keeps its indexes.
LEMMA MatchesStay ==
    ASSUME NEW k, CallMatches(k), BlocksBefore(k),
           peer'[k.peer].next = peer[k.peer].next,
           peer'[k.peer].sync = peer[k.peer].sync,
           chunks[k.peer] \subseteq chunks'[k.peer]
    PROVE  CallMatches(k)' /\ BlocksBefore(k)'
<1>1. CallMatches(k)'
    BY DEF CallMatches
<1>2. BlocksBefore(k)'
    BY DEF BlocksBefore, Stored
<1>3. QED
    BY <1>1, <1>2

\* So does the peer object fit.
LEMMA PeerStays ==
    ASSUME NEW f, PeerFits(f, peer[f], last[Leader]),
           peer'[f].next = peer[f].next, peer'[f].sync = peer[f].sync,
           last'[Leader] = last[Leader], chunks[f] \subseteq chunks'[f]
    PROVE  PeerFits(f, peer[f], last[Leader])'
BY DEF PeerFits, Stored

\* What a request leaves of the calls to f: ms are the messages that stay, and
\* ps the peer objects.
LEMMA SentCalls ==
    ASSUME IndexInv, IndexInv', UNCHANGED <<chunks, start, snap>>,
           NEW dests \in SUBSET Follower, NEW end \in Nat, NEW qc \in Nat,
           NEW ps \in [Follower -> PeerObjects], NEW ms \in SUBSET net,
           Sent(dests, end, qc, ps, ms), end = last'[Leader],
           NEW f \in Follower \ overtaken', CallsOf(f),
           ps[f].busy = peer[f].busy, PeerFits(f, ps[f], end),
           \A k \in ms : k.live /\ k.peer = f =>
               /\ ps[f].next = peer[f].next /\ ps[f].sync = peer[f].sync
    PROVE  CallsOf(f)'
<1>1. /\ Typed /\ Typed' /\ Leader \in Server /\ ms \subseteq Messages
      /\ start[Leader] \in Nat /\ snap[Leader] \in Nat
      /\ f \in Follower /\ ps[f] \in PeerObjects
    BY LeaderUnmarked DEF IndexInv, Typed
<1>2. ASSUME NEW k \in net' PROVE k.peer \in Follower /\ k \in Messages
    BY <1>1, MessageKinds DEF Typed
<1>3. ASSUME NEW k \in ms, k.live, k.peer = f, ~ps[f].busy PROVE k.queued
    BY <1>3 DEF CallsOf
<1>4. SyncOf(ps[f]) = ps[f].sync \/ SyncOf(ps[f]).offset = 0
    BY DEF SyncOf
<1>5. Stored(f, SyncOf(ps[f]).idx, SyncOf(ps[f]).offset)
    BY <1>4 DEF Stored, PeerFits
<1>6. CASE /\ f \in dests /\ ~ps[f].busy /\ Outcome(ps[f], end) = "made"
           /\ peer'[f] = PeerAfter(ps[f], end)
           /\ Req(f, ps[f], end, qc) \in net'
    <2>1. PICK r \in net' : r = Req(f, ps[f], end, qc)
        BY <1>6
    <2>2. /\ PrevIdx(ps[f], end) \in Nat /\ PrevIdx(ps[f], end) <= end
          /\ peer'[f].next = PrevIdx(ps[f], end) + 1 /\ peer'[f].busy
          /\ r.peer = f /\ r.live /\ ~r.queued
        BY <1>1, <1>6, <2>1, ReqFacts
    <2>3. r \notin ms
        BY <1>3, <1>6, <2>2
    <2>4. ~Waiting(f, ms)
        BY <2>2, <2>3 DEF Sent
    <2>5. ASSUME NEW k \in ms, k.peer = f PROVE ~k.live
        BY <1>3, <1>6, <2>4, <2>5 DEF Waiting
    <2>6. ASSUME NEW k \in net', k.peer = f PROVE k \in ms \/ k = r
        BY <2>1, <2>6 DEF Sent
    <2>7. \A m, n \in net' : m.peer = f /\ n.peer = f /\ m.live /\ n.live => m = n
        BY <2>5, <2>6
    <2>8. CallMatches(r)' /\ BlocksBefore(r)'
        <3>1. CASE NeedsSnapshot(PrevIdx(ps[f], end), start[Leader])
            <4>1. /\ r.type = "snapshot_req" /\ r.idx = SyncOf(ps[f]).idx
                  /\ r.offset = SyncOf(ps[f]).offset
                  /\ peer'[f].sync = SyncOf(ps[f])
                BY <1>1, <1>6, <2>1, <3>1, ReqFacts
            <4>2. QED
                BY <1>5, <2>2, <4>1 DEF CallMatches, BlocksBefore, Stored
        <3>2. CASE ~NeedsSnapshot(PrevIdx(ps[f], end), start[Leader])
            <4>1. /\ r.type = "append_req" /\ r.prev = PrevIdx(ps[f], end)
                BY <1>1, <1>6, <2>1, <3>2, ReqFacts
            <4>2. QED
                BY <2>2, <4>1 DEF CallMatches, BlocksBefore
        <3>3. QED
            BY <3>1, <3>2
    <2>9. ASSUME NEW k \in ms, k.peer = f PROVE CallMatches(k)' /\ BlocksBefore(k)'
        <3>1. CallMatches(k) /\ BlocksBefore(k) /\ ~k.live
            BY <2>5, <2>9 DEF CallsOf
        <3>2. k.type \in {"append_req", "snapshot_req"}
            BY <1>1, <3>1, MessageKinds DEF Responses
        <3>3. QED
            BY <3>1, <3>2 DEF CallMatches, BlocksBefore, Stored
    <2>10. peer'[f].sync = SyncOf(ps[f]) \/ peer'[f].sync = ps[f].sync
        BY <1>1, <1>6, ReqFacts
    <2>11. PeerFits(f, peer[f], last[Leader])'
        BY <1>5, <2>2, <2>10 DEF PeerFits, Stored
    <2>12. \A k \in net' : k.peer = f => CallMatches(k)' /\ BlocksBefore(k)'
        BY <2>6, <2>8, <2>9
    <2>13. QED
        BY <2>2, <2>7, <2>11, <2>12 DEF CallsOf
<1>7. CASE peer'[f] = ps[f] \/ (~ps[f].busy /\ peer'[f] = [ps[f] EXCEPT !.busy = TRUE])
    <2>1. /\ peer'[f].next = ps[f].next /\ peer'[f].sync = ps[f].sync
          /\ ps[f].busy => peer'[f].busy
        BY <1>1, <1>7 DEF PeerObjects
    <2>2. CASE \E k \in net' : k \notin ms /\ k.peer = f
        <3>1. PICK k \in net' : k \notin ms /\ k.peer = f
            BY <2>2
        <3>2. /\ f \in dests /\ ~ps[f].busy /\ Outcome(ps[f], end) = "made"
              /\ peer'[f] = PeerAfter(ps[f], end)
              /\ Req(f, ps[f], end, qc) \in net'
            BY <3>1 DEF Sent
        <3>3. QED
            BY <1>6, <3>2
    <2>3. CASE \A k \in net' : k.peer = f => k \in ms
        <3>1. ASSUME NEW k \in ms, k.peer = f
              PROVE  CallMatches(k)' /\ BlocksBefore(k)'
            <4>1. CallMatches(k) /\ BlocksBefore(k)
                BY <3>1 DEF CallsOf
            <4>2. CASE k.live
                <5>1. peer'[f].next = peer[f].next /\ peer'[f].sync = peer[f].sync
                    BY <2>1, <3>1, <4>2
                <5>2. QED
                    BY <3>1, <4>1, <5>1, MatchesStay
            <4>3. CASE ~k.live
                <5>1. k.type \in {"append_req", "snapshot_req"}
                    BY <1>1, <4>3, MessageKinds DEF Responses
                <5>2. QED
                    BY <4>1, <4>3, <5>1 DEF CallMatches, BlocksBefore, Stored
            <4>4. QED
                BY <4>2, <4>3
        <3>2. PeerFits(f, peer[f], last[Leader])'
            BY <2>1 DEF PeerFits, Stored
        <3>3. /\ \A m, n \in net' : m.peer = f /\ n.peer = f /\ m.live /\ n.live => m = n
              /\ \A m \in net' : m.peer = f /\ m.live /\ ~m.queued => peer'[f].busy
            BY <2>1, <2>3 DEF CallsOf
        <3>4. QED
            BY <2>3, <3>1, <3>2, <3>3 DEF CallsOf
    <2>4. QED
        BY <2>2, <2>3
<1>8. QED
    BY <1>1, <1>6, <1>7 DEF Sent

\* The leader's own end for a next_log_idx_ beyond its log, which only a peer
\* that was overtaken can have.
LEMMA SentTooLarge ==
    ASSUME IndexInv, CallInv, NEW dests \in SUBSET Follower, NEW end \in Nat,
           NEW qc \in Nat, NEW ps \in [Follower -> PeerObjects], NEW ms,
           Sent(dests, end, qc, ps, ms),
           \A f \in Follower \ overtaken : ps[f].next <= end + 1
    PROVE  \A s \in Server : up'[s] = "too_large" => s = Leader /\ overtaken' # {}
<1>1. Typed /\ Leader \in Server
    BY LeaderUnmarked DEF IndexInv
<1>2. ASSUME NEW f \in dests, Outcome(ps[f], end) = "too_large"
      PROVE  f \in overtaken
    <2>1. f \in Follower /\ ps[f] \in PeerObjects
        OBVIOUS
    <2>2. PrevIdx(ps[f], end) > end
        BY <1>2 DEF Outcome
    <2>3. ~(ps[f].next <= end + 1)
        BY <2>1, <2>2 DEF PrevIdx, PeerObjects
    <2>4. QED
        BY <2>1, <2>3
<1>3. overtaken \subseteq overtaken'
    BY DEF Sent
<1>4. CASE up' = up
    BY <1>3, <1>4 DEF CallInv
<1>5. ASSUME NEW f \in dests, up' = [up EXCEPT ![Leader] = Outcome(ps[f], end)]
      PROVE  \A s \in Server : up'[s] = "too_large" => s = Leader /\ overtaken' # {}
    BY <1>1, <1>2, <1>3, <1>5 DEF CallInv, Typed
<1>6. QED
    BY <1>4, <1>5 DEF Sent

\* An action of the leader that ends in request_append_entries.
LEMMA SentCallInv ==
    ASSUME IndexInv, IndexInv', CallInv, UNCHANGED <<chunks, start, snap>>,
           NEW dests \in SUBSET Follower, NEW end \in Nat, NEW qc \in Nat,
           NEW ps \in [Follower -> PeerObjects], NEW ms \in SUBSET net,
           Sent(dests, end, qc, ps, ms), end = last'[Leader],
           \A f \in Follower \ overtaken :
               ps[f].busy = peer[f].busy /\ PeerFits(f, ps[f], end),
           \A k \in ms : k.live /\ k.peer \notin overtaken =>
               /\ ps[k.peer].next = peer[k.peer].next
               /\ ps[k.peer].sync = peer[k.peer].sync
    PROVE  CallInv'
<1>1. overtaken \subseteq overtaken'
    BY DEF Sent
<1>2. ASSUME NEW f \in Follower \ overtaken' PROVE CallsOf(f)'
    <2>1. f \in Follower \ overtaken /\ CallsOf(f)
        BY <1>1 DEF CallInv
    <2>2. /\ ps[f].busy = peer[f].busy /\ PeerFits(f, ps[f], end)
          /\ \A k \in ms : k.live /\ k.peer = f =>
                 ps[f].next = peer[f].next /\ ps[f].sync = peer[f].sync
        BY <2>1
    <2>3. QED
        BY <2>1, <2>2, SentCalls
<1>3. \A f \in Follower \ overtaken : ps[f].next <= end + 1
    BY DEF PeerFits
<1>4. \A s \in Server : up'[s] = "too_large" => s = Leader /\ overtaken' # {}
    BY <1>3, SentTooLarge
<1>5. QED
    BY <1>2, <1>4 DEF CallInv

\* A response whose callback waits for lock_.
LEMMA QueuedFacts ==
    ASSUME IndexInv, CallInv, NEW m \in net, m.queued
    PROVE  /\ m \in Responses /\ m.peer \in Follower /\ m.live /\ m.next \in Nat
           /\ m.peer \notin overtaken =>
                  \A k \in net \ {m} : k.live => k.peer # m.peer
<1>1. /\ Typed /\ m \in Messages /\ m \in Responses
    BY MessageKinds DEF IndexInv, Typed
<1>2. m.peer \in Follower /\ m.live /\ m.next \in Nat
    BY <1>1 DEF Responses
<1>3. m.peer \notin overtaken => \A k \in net \ {m} : k.live => k.peer # m.peer
    BY <1>2 DEF CallInv, CallsOf
<1>4. QED
    BY <1>1, <1>2, <1>3

\* A client's request is sent to the peers without a call under way.
LEMMA CliReqCalls ==
    ASSUME IndexInv, CallInv, HandleCliReq
    PROVE  CallInv'
<1>1. IndexInv' /\ Sent(Follower, last[Leader] + 1, quick[Leader], peer, net)
    BY CliReqIndexes
<1>2. /\ Typed /\ Leader \in Server /\ last[Leader] \in Nat
      /\ quick[Leader] \in Nat
    BY LeaderUnmarked DEF IndexInv, Typed
<1>3. last'[Leader] = last[Leader] + 1 /\ UNCHANGED <<chunks, start, snap>>
    BY <1>2 DEF HandleCliReq, Typed
<1>4. PICK end \in Nat : end = last[Leader] + 1
    BY <1>2
<1>5. ASSUME NEW f \in Follower \ overtaken PROVE PeerFits(f, peer[f], end)
    <2>1. peer[f].next \in Nat
        BY <1>2 DEF Typed, PeerObjects
    <2>2. PeerFits(f, peer[f], last[Leader])
        BY DEF CallInv, CallsOf
    <2>3. QED
        BY <1>2, <1>4, <2>1, <2>2 DEF PeerFits
<1>6. QED
    BY <1>1, <1>2, <1>3, <1>4, <1>5, SentCallInv DEF Typed

\* The heartbeat timer sends to a peer without a call under way.
LEMMA HbTimeoutCalls ==
    ASSUME IndexInv, CallInv, NEW f \in Follower, HandleHbTimeout(f)
    PROVE  CallInv'
<1>1. IndexInv' /\ Sent({f}, last[Leader], quick[Leader], peer, net)
    BY HbTimeoutIndexes
<1>2. /\ Typed /\ Leader \in Server /\ last[Leader] \in Nat
      /\ quick[Leader] \in Nat
    BY LeaderUnmarked DEF IndexInv, Typed
<1>3. last' = last /\ UNCHANGED <<chunks, start, snap>>
    BY DEF HandleHbTimeout
<1>4. \A g \in Follower \ overtaken : PeerFits(g, peer[g], last[Leader])
    BY DEF CallInv, CallsOf
<1>5. PICK end \in Nat : end = last[Leader]
    BY <1>2
<1>6. {f} \in SUBSET Follower /\ net \in SUBSET net
    OBVIOUS
<1>7. QED
    BY <1>1, <1>2, <1>3, <1>4, <1>5, <1>6, SentCallInv DEF Typed

\* An accepted request: the peer that answered may get the next one.
LEMMA AcceptedCalls ==
    ASSUME IndexInv, CallInv, NEW m \in net, HandleAppendAccepted(m)
    PROVE  CallInv'
<1>1. /\ IndexInv'
      /\ AcceptedPeers(m) \in [Follower -> PeerObjects]
      /\ \A g \in Follower :
             /\ AcceptedPeers(m)[g].busy = peer[g].busy
             /\ AcceptedPeers(m)[g].sync = peer[g].sync
             /\ AcceptedPeers(m)[g].next =
                    IF g = m.peer THEN m.next ELSE peer[g].next
      /\ AcceptedDests(m) \in SUBSET Follower
      /\ Sent(AcceptedDests(m), last[Leader], quick'[Leader],
              AcceptedPeers(m), net \ {m})
    BY AcceptedIndexes
<1>2. /\ Typed /\ Typed' /\ Leader \in Server /\ last[Leader] \in Nat
      /\ quick'[Leader] \in Nat
    BY <1>1, LeaderUnmarked DEF IndexInv, Typed
<1>3. /\ last' = last /\ UNCHANGED <<chunks, start, snap>> /\ m.queued
      /\ m.type = "append_resp" /\ m.accepted
    BY DEF HandleAppendAccepted
<1>4. /\ m.peer \in Follower /\ m.next \in Nat
      /\ m.peer \notin overtaken => \A k \in net \ {m} : k.live => k.peer # m.peer
    BY <1>3, QueuedFacts
<1>5. m.next >= 1 /\ m.next <= last[Leader] + 1
    BY <1>3, <1>4 DEF IndexInv, RequestsFit, MessageFits
<1>6. \A g \in Follower \ overtaken :
          /\ AcceptedPeers(m)[g].busy = peer[g].busy
          /\ PeerFits(g, AcceptedPeers(m)[g], last[Leader])
    BY <1>1, <1>5 DEF CallInv, CallsOf, PeerFits
<1>7. \A k \in net \ {m} : k.peer \in Follower
    BY <1>2, MessageKinds DEF Typed
<1>8. \A k \in net \ {m} : k.live /\ k.peer \notin overtaken =>
          /\ AcceptedPeers(m)[k.peer].next = peer[k.peer].next
          /\ AcceptedPeers(m)[k.peer].sync = peer[k.peer].sync
    BY <1>1, <1>4, <1>7
<1>9. PICK end \in Nat : end = last[Leader]
    BY <1>2
<1>10. net \ {m} \in SUBSET net
    OBVIOUS
<1>11. PICK qc \in Nat : qc = quick'[Leader]
    BY <1>2
<1>12. QED
    BY <1>1, <1>2, <1>3, <1>6, <1>8, <1>9, <1>10, <1>11, SentCallInv

\* A refused request: next_log_idx_ goes back, and stays above zero.
LEMMA RefusedCalls ==
    ASSUME IndexInv, CallInv, NEW m \in net, HandleAppendRefused(m)
    PROVE  CallInv'
<1>1. /\ IndexInv'
      /\ RefusedPeers(m) \in [Follower -> PeerObjects]
      /\ \A g \in Follower :
             /\ RefusedPeers(m)[g].busy = peer[g].busy
             /\ RefusedPeers(m)[g].sync = peer[g].sync
             /\ RefusedPeers(m)[g].next =
                    IF g # m.peer THEN peer[g].next
                    ELSE IF peer[g].next > m.next THEN m.next
                    ELSE UlongDec(peer[g].next)
      /\ Sent({m.peer}, last[Leader], quick[Leader], RefusedPeers(m), net \ {m})
    BY RefusedIndexes
<1>2. /\ Typed /\ Leader \in Server /\ last[Leader] \in Nat
      /\ quick[Leader] \in Nat
    BY <1>1, LeaderUnmarked DEF IndexInv, Typed
<1>3. /\ last' = last /\ UNCHANGED <<chunks, start, snap>> /\ m.queued
      /\ m.type = "append_resp" /\ ~m.accepted
    BY DEF HandleAppendRefused
<1>4. /\ m.peer \in Follower /\ m.next \in Nat
      /\ m.peer \notin overtaken => \A k \in net \ {m} : k.live => k.peer # m.peer
    BY <1>3, QueuedFacts
<1>5. ASSUME m.peer \notin overtaken
      PROVE  /\ peer[m.peer].next > m.next
             /\ m.next >= 1 /\ m.next <= last[Leader] + 1
    <2>1. peer[m.peer].next \in Nat
        BY <1>2, <1>4 DEF Typed, PeerObjects
    <2>2. /\ m.next < peer[m.peer].next
          /\ peer[m.peer].next <= last[Leader] + 1 /\ m.next > 0
        BY <1>3, <1>4, <1>5 DEF IndexInv, RequestsFit, MessageFits, CallInv,
                               CallsOf, CallMatches, PeerFits
    <2>3. QED
        BY <1>2, <1>4, <2>1, <2>2
<1>6. \A g \in Follower \ overtaken :
          /\ RefusedPeers(m)[g].busy = peer[g].busy
          /\ PeerFits(g, RefusedPeers(m)[g], last[Leader])
    BY <1>1, <1>5 DEF CallInv, CallsOf, PeerFits
<1>7. \A k \in net \ {m} : k.peer \in Follower
    BY <1>2, MessageKinds DEF Typed
<1>8. \A k \in net \ {m} : k.live /\ k.peer \notin overtaken =>
          /\ RefusedPeers(m)[k.peer].next = peer[k.peer].next
          /\ RefusedPeers(m)[k.peer].sync = peer[k.peer].sync
    BY <1>1, <1>4, <1>7
<1>9. PICK end \in Nat : end = last[Leader]
    BY <1>2
<1>10. net \ {m} \in SUBSET net /\ {m.peer} \in SUBSET Follower
    BY <1>4
<1>11. QED
    BY <1>1, <1>2, <1>3, <1>6, <1>8, <1>9, <1>10, SentCallInv

\* A block was stored or declined, and the next one is sent.
LEMMA BlockCalls ==
    ASSUME IndexInv, CallInv, NEW m \in net, HandleInstallSnapshotResp(m)
    PROVE  CallInv'
<1>1. /\ IndexInv'
      /\ BlockPeers(m) \in [Follower -> PeerObjects]
      /\ \A g \in Follower :
             BlockPeers(m)[g] =
                 IF g = m.peer /\ m.accepted /\ peer[m.peer].sync.idx # 0
                 THEN AfterBlock(peer[g], m) ELSE peer[g]
      /\ BlockDests(m) \in SUBSET Follower
      /\ Sent(BlockDests(m), last[Leader], quick[Leader], BlockPeers(m),
              net \ {m})
    BY BlockIndexes
<1>2. /\ Typed /\ Leader \in Server /\ last[Leader] \in Nat
      /\ quick[Leader] \in Nat /\ snap[Leader] \in Nat
    BY <1>1, LeaderUnmarked DEF IndexInv, Typed
<1>3. /\ last' = last /\ UNCHANGED <<chunks, start, snap>> /\ m.queued
      /\ m.type = "snapshot_resp"
    BY DEF HandleInstallSnapshotResp
<1>4. /\ m \in Responses /\ m.peer \in Follower /\ m.next \in Nat
      /\ m.peer \notin overtaken => \A k \in net \ {m} : k.live => k.peer # m.peer
    BY <1>3, QueuedFacts
<1>5. ASSUME NEW g \in Follower \ overtaken
      PROVE  /\ BlockPeers(m)[g].busy = peer[g].busy
             /\ PeerFits(g, BlockPeers(m)[g], last[Leader])
    <2>0. g \in Follower /\ CallsOf(g) /\ PeerFits(g, peer[g], last[Leader])
        BY DEF CallInv, CallsOf
    <2>1. /\ peer[g] \in PeerObjects /\ peer[g].sync.idx \in Nat
          /\ peer[g].sync.idx <= snap[Leader] /\ snap[Leader] <= last[Leader]
        BY <1>2, <2>0 DEF IndexInv, RequestsFit, ServerOrder, IndexOrder, Typed,
                    PeerObjects, Sync
    <2>2. CASE ~(g = m.peer /\ m.accepted /\ peer[m.peer].sync.idx # 0)
        <3>1. BlockPeers(m)[g] = peer[g]
            BY <1>1, <2>0, <2>2
        <3>2. QED
            BY <2>0, <3>1
    <2>3. CASE g = m.peer /\ m.accepted
        <3>1. Stored(g, peer[g].sync.idx, m.next)
            BY <1>3, <2>0, <2>3 DEF CallsOf, BlocksBefore
        <3>2. PICK p : p = AfterBlock(peer[g], m)
            OBVIOUS
        <3>3. /\ p.busy = peer[g].busy
              /\ p.next = IF m.next >= Blocks THEN peer[g].sync.idx + 1
                          ELSE peer[g].next
              /\ p.sync = IF m.next >= Blocks THEN NoSync
                          ELSE [idx |-> peer[g].sync.idx, offset |-> m.next]
            BY <1>4, <2>1, <3>2, AfterBlockFacts
        <3>4. Stored(g, p.sync.idx, p.sync.offset)
            BY <3>1, <3>3 DEF Stored, NoSync
        <3>5. peer[g].next >= 1 /\ peer[g].next <= last[Leader] + 1
            BY <2>0 DEF PeerFits
        <3>6. p.next >= 1 /\ p.next <= last[Leader] + 1
            BY <1>2, <2>1, <3>3, <3>5
        <3>7. CASE BlockPeers(m)[g] = p
            BY <3>3, <3>4, <3>6, <3>7 DEF PeerFits
        <3>8. CASE BlockPeers(m)[g] = peer[g]
            BY <2>0, <3>8
        <3>9. QED
            BY <1>1, <2>0, <3>2, <3>7, <3>8
    <2>4. QED
        BY <2>2, <2>3
<1>6. \A k \in net \ {m} : k.peer \in Follower
    BY <1>2, MessageKinds DEF Typed
<1>7. \A k \in net \ {m} : k.live /\ k.peer \notin overtaken =>
          /\ BlockPeers(m)[k.peer].next = peer[k.peer].next
          /\ BlockPeers(m)[k.peer].sync = peer[k.peer].sync
    BY <1>1, <1>4, <1>6
<1>8. PICK end \in Nat : end = last[Leader]
    BY <1>2
<1>9. net \ {m} \in SUBSET net
    OBVIOUS
<1>10. QED
    BY <1>1, <1>2, <1>3, <1>5, <1>7, <1>8, <1>9, SentCallInv

\* A follower answers: the response takes the place of the request.
LEMMA AnswerCalls ==
    ASSUME IndexInv, CallInv, NEW m \in net, IsReq(m),
           NEW r \in Responses, r.peer = m.peer, ~r.queued,
           \A k \in net' : (k \in net /\ k # m) \/ (k = r /\ m.live),
           UNCHANGED <<peer, up, overtaken>>, last'[Leader] = last[Leader],
           \A f \in Follower : chunks[f] \subseteq chunks'[f],
           m.live /\ m.peer \notin overtaken => CallMatches(r)' /\ BlocksBefore(r)'
    PROVE  CallInv'
<1>1. /\ Typed /\ ~m.queued /\ m.peer \in Follower /\ r.live
    BY MessageKinds DEF IndexInv, Typed, IsReq, Responses, Messages
<1>2. ASSUME NEW f \in Follower \ overtaken PROVE CallsOf(f)'
    <2>1. CallsOf(f) /\ f \in Follower
        BY DEF CallInv
    <2>2. \A k, n \in net' : k.peer = f /\ n.peer = f /\ k.live /\ n.live => k = n
        BY <1>1, <2>1 DEF CallsOf
    <2>3. \A k \in net' : k.peer = f /\ k.live /\ ~k.queued => peer'[f].busy
        BY <1>1, <2>1 DEF CallsOf
    <2>4. ASSUME NEW k \in net', k.peer = f PROVE CallMatches(k)' /\ BlocksBefore(k)'
        <3>1. CASE k = r /\ m.live
            BY <2>4, <3>1
        <3>2. CASE k \in net
            <4>1. CallMatches(k) /\ BlocksBefore(k)
                BY <2>1, <2>4, <3>2 DEF CallsOf
            <4>2. QED
                BY <2>1, <2>4, <4>1, MatchesStay
        <3>3. QED
            BY <3>1, <3>2
    <2>5. PeerFits(f, peer[f], last[Leader])'
        BY <2>1, PeerStays DEF CallsOf
    <2>6. QED
        BY <2>2, <2>3, <2>4, <2>5 DEF CallsOf
<1>3. QED
    BY <1>2 DEF CallInv

\* A call ends without an answer: the peer is free, and the request may become
\* one that nobody waits for.
LEMMA EndedCalls ==
    ASSUME IndexInv, CallInv, NEW m \in net, NEW dead,
           \A k \in net' : (k \in net /\ k # m) \/ k = dead,
           dead \in net' =>
               /\ ~dead.live /\ ~dead.queued /\ dead.peer = m.peer
               /\ dead.type \in {"append_req", "snapshot_req"}
               /\ dead.type = "snapshot_req" /\ m.peer \notin overtaken =>
                      Stored(dead.peer, dead.idx, dead.offset),
           peer' = peer \/ m.live,
           \A f \in Follower :
               /\ peer'[f].sync = peer[f].sync /\ peer'[f].next = peer[f].next
               /\ f # m.peer => peer'[f] = peer[f],
           last'[Leader] = last[Leader], overtaken' = overtaken,
           \A s \in Server : up'[s] = up[s] \/ up'[s] # "too_large",
           \A f \in Follower : chunks[f] \subseteq chunks'[f]
    PROVE  CallInv'
<1>1. Typed /\ m.peer \in Follower
    BY MessageKinds DEF IndexInv, Typed
<1>2. ASSUME NEW f \in Follower \ overtaken PROVE CallsOf(f)'
    <2>1. CallsOf(f) /\ f \in Follower
        BY DEF CallInv
    <2>2. \A k, n \in net' : k.peer = f /\ n.peer = f /\ k.live /\ n.live => k = n
        BY <2>1 DEF CallsOf
    <2>3. \A k \in net' : k.peer = f /\ k.live /\ ~k.queued => peer'[f].busy
        <3> SUFFICES ASSUME NEW k \in net', k.peer = f, k.live, ~k.queued
                     PROVE  peer'[f].busy
            OBVIOUS
        <3>1. k \in net /\ k # m /\ peer[f].busy
            BY <2>1 DEF CallsOf
        <3>2. peer'[f] = peer[f]
            BY <2>1, <3>1 DEF CallsOf
        <3>3. QED
            BY <3>1, <3>2
    <2>4. ASSUME NEW k \in net', k.peer = f PROVE CallMatches(k)' /\ BlocksBefore(k)'
        <3>1. CASE k \notin net
            <4>1. /\ ~k.live /\ k.type \in {"append_req", "snapshot_req"}
                  /\ k.type = "snapshot_req" => Stored(f, k.idx, k.offset)
                BY <2>1, <2>4, <3>1
            <4>2. QED
                BY <2>1, <2>4, <4>1 DEF CallMatches, BlocksBefore, Stored
        <3>2. CASE k \in net
            <4>1. CallMatches(k) /\ BlocksBefore(k)
                BY <2>1, <2>4, <3>2 DEF CallsOf
            <4>2. QED
                BY <2>1, <2>4, <4>1, MatchesStay
        <3>3. QED
            BY <3>1, <3>2
    <2>5. PeerFits(f, peer[f], last[Leader])'
        BY <2>1, PeerStays DEF CallsOf
    <2>6. QED
        BY <2>2, <2>3, <2>4, <2>5 DEF CallsOf
<1>3. QED
    BY <1>2 DEF CallInv

\* A step that leaves the calls alone.
LEMMA UntouchedCalls ==
    ASSUME CallInv, UNCHANGED <<peer, net, chunks, overtaken>>,
           last'[Leader] = last[Leader],
           \A s \in Server : up'[s] = up[s] \/ up'[s] # "too_large"
    PROVE  CallInv'
<1>1. ASSUME NEW f \in Follower \ overtaken PROVE CallsOf(f)'
    <2>1. CallsOf(f)
        BY DEF CallInv
    <2>2. \A k \in net' : k.peer = f => CallMatches(k)' /\ BlocksBefore(k)'
        BY <2>1, MatchesStay DEF CallsOf
    <2>3. PeerFits(f, peer[f], last[Leader])'
        BY <2>1, PeerStays DEF CallsOf
    <2>4. QED
        BY <2>1, <2>2, <2>3 DEF CallsOf
<1>2. QED
    BY <1>1 DEF CallInv

\* A peer is set free, and its response waits for lock_.
LEMMA SetFreeCalls ==
    ASSUME IndexInv, CallInv, NEW m \in net, SetFree(m)
    PROVE  CallInv'
<1>1. PICK q : q = QueuedOf(m)
    OBVIOUS
<1>2. /\ IndexInv' /\ m \in Responses /\ q \in Responses
      /\ q.type = m.type /\ q.peer = m.peer
      /\ q.accepted = m.accepted /\ q.next = m.next /\ q.queued /\ q.live
      /\ net' = (net \ {m}) \cup {q}
      /\ \A f \in Follower :
             /\ peer'[f].sync = peer[f].sync /\ peer'[f].next = peer[f].next
             /\ f # m.peer => peer'[f] = peer[f]
    BY <1>1, SetFreeIndexes
<1>3. UNCHANGED <<up, last, chunks, overtaken>>
    BY DEF SetFree
<1>4. Typed /\ m.peer \in Follower /\ m.live
    BY <1>2, MessageKinds DEF IndexInv, Typed, Responses
<1>5. ASSUME NEW f \in Follower \ overtaken PROVE CallsOf(f)'
    <2>1. CallsOf(f) /\ f \in Follower
        BY DEF CallInv
    <2>2. \A k, n \in net' : k.peer = f /\ n.peer = f /\ k.live /\ n.live => k = n
        BY <1>2, <1>4, <2>1 DEF CallsOf
    <2>3. \A k \in net' : k.peer = f /\ k.live /\ ~k.queued => peer'[f].busy
        <3> SUFFICES ASSUME NEW k \in net', k.peer = f, k.live, ~k.queued
                     PROVE  peer'[f].busy
            OBVIOUS
        <3>1. k \in net \ {m} /\ peer[f].busy
            BY <1>2, <2>1 DEF CallsOf
        <3>2. f # m.peer
            BY <1>4, <2>1, <3>1 DEF CallsOf
        <3>3. QED
            BY <1>2, <2>1, <3>1, <3>2
    <2>4. ASSUME NEW k \in net', k.peer = f PROVE CallMatches(k)' /\ BlocksBefore(k)'
        <3>1. CASE k = q
            <4>1. CallMatches(m) /\ BlocksBefore(m)
                BY <1>2, <2>1, <2>4, <3>1 DEF CallsOf
            <4>2. m.type \in {"append_resp", "snapshot_resp"}
                BY <1>2 DEF Responses
            <4>3. /\ q.type = m.type /\ q.peer = m.peer
                  /\ q.accepted = m.accepted /\ q.next = m.next
                  /\ peer'[m.peer].sync = peer[m.peer].sync
                  /\ peer'[m.peer].next = peer[m.peer].next
                BY <1>2, <1>4
            <4>4. CallMatches(q)'
                BY <4>1, <4>2, <4>3 DEF CallMatches
            <4>5. BlocksBefore(q)'
                BY <1>3, <4>1, <4>2, <4>3 DEF BlocksBefore, Stored
            <4>6. QED
                BY <3>1, <4>4, <4>5
        <3>2. CASE k \in net
            <4>1. CallMatches(k) /\ BlocksBefore(k)
                BY <2>1, <2>4, <3>2 DEF CallsOf
            <4>2. QED
                BY <1>2, <1>3, <2>1, <2>4, <4>1, MatchesStay
        <3>3. QED
            BY <1>2, <3>1, <3>2
    <2>5. PeerFits(f, peer[f], last[Leader])'
        BY <1>2, <1>3, <2>1, PeerStays DEF CallsOf
    <2>6. QED
        BY <2>2, <2>3, <2>4, <2>5 DEF CallsOf
<1>6. QED
    BY <1>3, <1>5 DEF CallInv

\* Entries arrive: accepted, refused, or the follower ends.
LEMMA AppendEntriesCalls ==
    ASSUME IndexInv, CallInv, NEW m \in net, HandleAppendEntries(m)
    PROVE  CallInv'
<1> DEFINE f == m.peer
           inside == m.prev <= last[f]
           next == IF inside THEN m.prev + m.n + 1 ELSE last[f] + 1
<1>0. PICK r : r = Resp(m, inside, next)
    OBVIOUS
<1>1. /\ Typed /\ IndexInv' /\ m \in Messages /\ m.type = "append_req"
    BY AppendEntriesIndexes DEF IndexInv, Typed, HandleAppendEntries
<1>2. /\ m \in AppendReqs /\ m.prev \in Nat /\ m.n \in Nat
      /\ f \in Follower /\ IsReq(m)
    BY <1>1, MessageKinds DEF AppendReqs, IsReq
<1>3. /\ f \in Server /\ f # Leader /\ Leader \in Server /\ last[f] \in Nat
      /\ last[Leader] \in Nat
    BY <1>1, <1>2, SnapshotAssumption DEF Server, Typed
<1>4. UNCHANGED <<chunks, overtaken>>
    BY DEF HandleAppendEntries
<1>5. CASE inside /\ ~TermKnown(f, m.prev)
    <2>1. Exits(m, "bad_term") /\ UNCHANGED <<last, quick>>
        BY <1>5 DEF HandleAppendEntries
    <2>2. /\ up'[f] = "bad_term" /\ net' = net \ {m}
          /\ \A t \in Server \ {f} : up'[t] = up[t]
          /\ \A g \in Follower :
                 /\ peer'[g].sync = peer[g].sync /\ peer'[g].next = peer[g].next
                 /\ g # m.peer => peer'[g] = peer[g]
        BY <1>1, <2>1, ExitsFacts DEF Causes
    <2>3. peer' = peer \/ m.live
        BY <2>1 DEF Exits
    <2>4. \A s \in Server : up'[s] = up[s] \/ up'[s] # "too_large"
        BY <2>2
    <2>5. PICK dead : dead = m
        OBVIOUS
    <2> HIDE DEF f
    <2>6. QED
        BY <1>1, <1>4, <2>1, <2>2, <2>3, <2>4, <2>5, EndedCalls
<1>6. CASE ~(inside /\ ~TermKnown(f, m.prev))
    <2>1. /\ net' = Answered(m, r) /\ UNCHANGED <<up, peer>>
          /\ last'[Leader] = last[Leader]
        <3>1. /\ net' = Answered(m, r) /\ UNCHANGED <<up, peer>>
              /\ last' = [last EXCEPT ![f] =
                             IF inside THEN Larger(@, m.prev + m.n) ELSE @]
            BY <1>0, <1>6 DEF HandleAppendEntries
        <3>2. last'[Leader] = last[Leader]
            BY <1>1, <1>3, <3>1 DEF Typed
        <3>3. QED
            BY <3>1, <3>2
    <2>2. PICK ok \in BOOLEAN : ok = inside
        <3>1. inside \in BOOLEAN
            OBVIOUS
        <3> HIDE DEF inside
        <3>2. QED
            BY <3>1
    <2>3. PICK nx \in Nat : nx = next
        BY <1>2, <1>3
    <2>4. r = Resp(m, ok, nx)
        BY <1>0, <2>2, <2>3
    <2>5. /\ r \in Responses /\ r.type = "append_resp" /\ r.peer = m.peer
          /\ r.accepted = ok /\ r.next = nx /\ ~r.queued
          /\ \A k \in net' : (k \in net /\ k # m) \/ (k = r /\ m.live)
        BY <1>1, <1>2, <2>1, <2>4, AnswerFacts
    <2>6. ASSUME m.live, m.peer \notin overtaken
          PROVE  CallMatches(r)' /\ BlocksBefore(r)'
        <3>1. peer[f].next = m.prev + 1
            BY <1>1, <1>2, <2>6 DEF CallInv, CallsOf, CallMatches
        <3>2. ~ok => nx < peer[f].next
            <4>1. ~ok => nx = last[f] + 1 /\ ~(m.prev <= last[f])
                BY <2>2, <2>3
            <4> HIDE DEF f
            <4>2. QED
                BY <1>2, <1>3, <3>1, <4>1
        <3>3. QED
            BY <2>1, <2>5, <3>2 DEF CallMatches, BlocksBefore
    <2>7. QED
        BY <1>1, <1>2, <1>4, <2>1, <2>5, <2>6, AnswerCalls
<1>7. QED
    BY <1>5, <1>6

\* The answer to a block that was stored.
LEMMA StoredBlock ==
    ASSUME IndexInv, CallInv, NEW m \in net, m.type = "snapshot_req", m.live,
           m.peer \notin overtaken,
           chunks' = [chunks EXCEPT ![m.peer] =
                         chunks[m.peer] \cup {<<m.idx, m.offset>>}],
           peer' = peer, NEW r, r.type = "snapshot_resp", r.peer = m.peer,
           r.next = m.offset + 1
    PROVE  CallMatches(r)' /\ BlocksBefore(r)'
<1>1. /\ Typed /\ m.idx \in Nat /\ m.offset \in Nat /\ m.peer \in Follower
    BY SnapshotReqFacts
<1>2. /\ peer[m.peer].sync.idx = m.idx /\ Stored(m.peer, m.idx, m.offset)
    BY <1>1 DEF CallInv, CallsOf, CallMatches, BlocksBefore
<1>3. chunks'[m.peer] = chunks[m.peer] \cup {<<m.idx, m.offset>>}
    BY <1>1 DEF Typed
<1>4. \A o \in Nat : o < m.offset + 1 => <<m.idx, o>> \in chunks'[m.peer]
    <2> SUFFICES ASSUME NEW o \in Nat, o < m.offset + 1
                 PROVE  <<m.idx, o>> \in chunks'[m.peer]
        OBVIOUS
    <2>1. o < m.offset \/ o = m.offset
        BY <1>1
    <2>2. QED
        BY <1>2, <1>3, <2>1 DEF Stored
<1>5. CallMatches(r)'
    BY DEF CallMatches
<1>6. BlocksBefore(r)'
    BY <1>2, <1>4 DEF BlocksBefore, Stored
<1>7. QED
    BY <1>5, <1>6

\* What a follower has stored it keeps.
LEMMA ChunksGrow ==
    ASSUME Typed, NEW f \in Follower, NEW c,
           chunks' = chunks \/ chunks' = [chunks EXCEPT ![f] = chunks[f] \cup c]
    PROVE  \A g \in Follower : chunks[g] \subseteq chunks'[g]
BY DEF Typed

\* A block arrives.
LEMMA SaveBlockCalls ==
    ASSUME IndexInv, CallInv, NEW m \in net, SaveBlock(m)
    PROVE  CallInv'
<1> DEFINE old == m.idx <= commit[m.peer]
           next == IF old THEN 0 ELSE m.offset + 1
<1>0. PICK r : r = Resp(m, ~old, next)
    OBVIOUS
<1>1. m.type = "snapshot_req" /\ net' = Answered(m, r) /\ IndexInv'
    BY <1>0, SaveBlockIndexes DEF SaveBlock
<1>2. /\ Typed /\ IsReq(m) /\ m.offset \in Nat /\ m.peer \in Follower
      /\ m.live \in BOOLEAN
    BY <1>1, SnapshotReqFacts
<1>3. UNCHANGED <<up, last, peer, overtaken>>
    BY DEF SaveBlock
<1>4. chunks' = IF old THEN chunks
                ELSE [chunks EXCEPT ![m.peer] =
                         chunks[m.peer] \cup {<<m.idx, m.offset>>}]
    BY DEF SaveBlock
<1>5. PICK ok \in BOOLEAN : ok = ~old
    OBVIOUS
<1>6. PICK nx \in Nat : nx = next
    BY <1>2
<1>7. r = Resp(m, ok, nx)
    BY <1>0, <1>5, <1>6
<1>8. /\ r \in Responses /\ r.type = "snapshot_resp" /\ r.peer = m.peer
      /\ r.accepted = ok /\ r.next = nx /\ ~r.queued
      /\ \A k \in net' : (k \in net /\ k # m) \/ (k = r /\ m.live)
    BY <1>1, <1>2, <1>7, AnswerFacts
<1>9. ASSUME m.live, m.peer \notin overtaken
      PROVE  CallMatches(r)' /\ BlocksBefore(r)'
    <2>1. CASE old
        BY <1>5, <1>8, <2>1 DEF CallMatches, BlocksBefore
    <2>2. CASE ~old
        BY <1>1, <1>3, <1>4, <1>6, <1>8, <1>9, <2>2, StoredBlock
    <2>3. QED
        BY <2>1, <2>2
<1>10. \A g \in Follower : chunks[g] \subseteq chunks'[g]
    BY <1>2, <1>4, ChunksGrow
<1>11. QED
    BY <1>1, <1>2, <1>3, <1>8, <1>9, <1>10, AnswerCalls

\* The last block arrives.
LEMMA InstallCalls ==
    ASSUME IndexInv, CallInv, NEW m \in net, InstallSnapshot(m)
    PROVE  CallInv'
<1>1. /\ m.type = "snapshot_req" /\ IndexInv' /\ overtaken' = overtaken
      /\ chunks' = [chunks EXCEPT ![m.peer] =
                       chunks[m.peer] \cup {<<m.idx, m.offset>>}]
    BY InstallIndexes DEF InstallSnapshot
<1>2. /\ Typed /\ IsReq(m) /\ m.offset \in Nat /\ m.idx \in Nat
      /\ m.peer \in Follower /\ m.peer \in Server /\ m.peer # Leader
      /\ m.live \in BOOLEAN /\ start[m.peer] \in Nat
    BY <1>1, SnapshotReqFacts DEF Typed
<1>3. \A g \in Follower : chunks[g] \subseteq chunks'[g]
    BY <1>1, <1>2, ChunksGrow
<1>4. CASE m.idx >= start[m.peer]
    <2>a. PICK ok \in BOOLEAN : ok = TRUE
        OBVIOUS
    <2>b. PICK nx \in Nat : nx = m.offset + 1
        BY <1>2
    <2>0. ok /\ nx = m.offset + 1
        BY <2>a, <2>b
    <2>1. PICK r : r = Resp(m, ok, nx)
        OBVIOUS
    <2>2. /\ net' = Answered(m, r) /\ UNCHANGED <<up, peer>>
          /\ last'[Leader] = last[Leader]
        <3>1. m.idx < start[m.peer] => FALSE
            BY <1>2, <1>4
        <3>2. ok = TRUE
            BY <2>0
        <3>3. /\ net' = Answered(m, r) /\ UNCHANGED <<up, peer>>
              /\ CompactTo(m.peer, m.idx)
            BY <2>0, <2>1, <3>1, <3>2 DEF InstallSnapshot
        <3>4. last' = [last EXCEPT ![m.peer] = Larger(@, m.idx)]
            BY <3>3 DEF CompactTo
        <3>5. last'[Leader] = last[Leader]
            BY <1>2, <3>4 DEF Typed
        <3>6. QED
            BY <3>3, <3>5
    <2>3. /\ r \in Responses /\ r.type = "snapshot_resp" /\ r.peer = m.peer
          /\ r.next = nx /\ ~r.queued
          /\ \A k \in net' : (k \in net /\ k # m) \/ (k = r /\ m.live)
        BY <1>1, <1>2, <2>1, <2>2, AnswerFacts
    <2>4. m.live /\ m.peer \notin overtaken => CallMatches(r)' /\ BlocksBefore(r)'
        BY <1>1, <2>0, <2>2, <2>3, StoredBlock
    <2>5. QED
        BY <1>1, <1>2, <1>3, <2>2, <2>3, <2>4, AnswerCalls
<1>5. CASE ~(m.idx >= start[m.peer])
    <2>1. Exits(m, "bad_install") /\ last' = last
        BY <1>5 DEF InstallSnapshot
    <2>2. /\ up'[m.peer] = "bad_install" /\ net' = net \ {m}
          /\ \A t \in Server \ {m.peer} : up'[t] = up[t]
          /\ \A g \in Follower :
                 /\ peer'[g].sync = peer[g].sync /\ peer'[g].next = peer[g].next
                 /\ g # m.peer => peer'[g] = peer[g]
        BY <1>2, <2>1, ExitsFacts DEF Causes
    <2>3. peer' = peer \/ m.live
        BY <2>1 DEF Exits
    <2>4. \A s \in Server : up'[s] = up[s] \/ up'[s] # "too_large"
        BY <2>2
    <2>5. PICK dead : dead = m
        OBVIOUS
    <2>6. QED
        BY <1>1, <1>3, <2>1, <2>2, <2>3, <2>4, <2>5, EndedCalls
<1>6. QED
    BY <1>4, <1>5

\* A message is lost.
LEMMA RpcErrorCalls ==
    ASSUME IndexInv, CallInv, NEW m \in net, RpcError(m)
    PROVE  CallInv'
<1>1. PICK dead : dead = OrphanOf(m)
    OBVIOUS
<1>2. /\ IndexInv'
      /\ m.peer \in Follower /\ m.live
      /\ \A f \in Follower :
             /\ peer'[f].sync = peer[f].sync /\ peer'[f].next = peer[f].next
             /\ f # m.peer => peer'[f] = peer[f]
      /\ \/ net' = net \ {m}
         \/ /\ IsReq(m) /\ net' = (net \ {m}) \cup {dead}
            /\ dead \in Messages /\ ~dead.live /\ ~dead.queued
            /\ dead.peer = m.peer /\ dead.type = m.type
            /\ m.type = "snapshot_req" =>
                   dead.idx = m.idx /\ dead.offset = m.offset
    BY <1>1, RpcErrorIndexes
<1>3. UNCHANGED <<up, last, chunks, overtaken>>
    BY DEF RpcError
<1>4. m.type = "snapshot_req" /\ m.peer \notin overtaken =>
          Stored(m.peer, m.idx, m.offset)
    BY <1>2 DEF CallInv, CallsOf, BlocksBefore
<1>5. CASE net' = net \ {m}
    <2>1. PICK none : none = m
        OBVIOUS
    <2>2. \A k \in net' : k \in net /\ k # m
        BY <1>5
    <2>3. QED
        BY <1>2, <1>3, <2>1, <2>2, EndedCalls
<1>6. CASE /\ IsReq(m) /\ net' = (net \ {m}) \cup {dead}
           /\ dead \in Messages /\ ~dead.live /\ ~dead.queued
           /\ dead.peer = m.peer /\ dead.type = m.type
           /\ m.type = "snapshot_req" =>
                  dead.idx = m.idx /\ dead.offset = m.offset
    <2>1. dead.type \in {"append_req", "snapshot_req"}
        BY <1>6 DEF IsReq
    <2>2. dead.type = "snapshot_req" /\ m.peer \notin overtaken =>
              Stored(dead.peer, dead.idx, dead.offset)
        BY <1>4, <1>6
    <2>3. QED
        BY <1>2, <1>3, <1>6, <2>1, <2>2, EndedCalls
<1>7. QED
    BY <1>2, <1>5, <1>6

\* A follower dies in an installation.
LEMMA CrashCalls ==
    ASSUME IndexInv, CallInv, NEW m \in net, CrashInInstall(m)
    PROVE  CallInv'
<1>1. /\ m.type = "snapshot_req" /\ IndexInv' /\ Restarted(m.peer)
      /\ chunks' = [chunks EXCEPT ![m.peer] =
                       chunks[m.peer] \cup {<<m.idx, m.offset>>}]
      /\ net' = net \ {m} /\ overtaken' = overtaken
    BY CrashIndexes DEF CrashInInstall
<1>2. /\ Typed /\ m.peer \in Follower /\ m.peer \in Server /\ m.peer # Leader
    BY <1>1, SnapshotReqFacts
<1>3. last'[Leader] = last[Leader]
    BY <1>2 DEF CrashInInstall, CompactTo, Typed
<1>4. \A g \in Follower : chunks[g] \subseteq chunks'[g]
    BY <1>1, <1>2, ChunksGrow
<1>5. peer' = peer \/ m.live
    BY DEF CrashInInstall
<1>6. \A f \in Follower :
          /\ peer'[f].sync = peer[f].sync /\ peer'[f].next = peer[f].next
          /\ f # m.peer => peer'[f] = peer[f]
    <2>1. PICK q : q = [peer[m.peer] EXCEPT !.busy = FALSE]
        OBVIOUS
    <2>2. q.sync = peer[m.peer].sync /\ q.next = peer[m.peer].next
        BY <1>2, <2>1 DEF PeerObjects, Typed
    <2>3. peer' = peer \/ peer' = [peer EXCEPT ![m.peer] = q]
        BY <2>1 DEF CrashInInstall
    <2>4. QED
        BY <1>2, <2>2, <2>3 DEF Typed
<1>7. \A s \in Server : up'[s] = up[s] \/ up'[s] # "too_large"
    BY <1>1, <1>2, RestartedFacts
<1>8. PICK dead : dead = m
    OBVIOUS
<1>9. QED
    BY <1>1, <1>3, <1>4, <1>5, <1>6, <1>7, <1>8, EndedCalls

\* Every step keeps one call per peer.
LEMMA NextCalls == IndexInv /\ CallInv /\ [Next]_vars => CallInv'
<1> SUFFICES ASSUME IndexInv, CallInv, [Next]_vars PROVE CallInv'
    OBVIOUS
<1>1. CASE UNCHANGED vars
    BY <1>1, UntouchedCalls DEF vars
<1>2. ASSUME NEW m \in net, Receive(m) PROVE CallInv'
    BY <1>2, AppendEntriesCalls, SaveBlockCalls, InstallCalls, SetFreeCalls,
       AcceptedCalls, RefusedCalls, BlockCalls DEF Receive
<1>3. ASSUME NEW s \in Server, CommitInBg(s) PROVE CallInv'
    <2>1. UNCHANGED <<peer, net, chunks, last, overtaken>>
        BY <1>3 DEF CommitInBg, StartEntry, FinishEntry
    <2>2. \A t \in Server : up'[t] = up[t] \/ up'[t] # "too_large"
        BY <1>3 DEF CommitInBg, StartEntry, FinishEntry, IndexInv, Typed
    <2>3. QED
        BY <2>1, <2>2, UntouchedCalls
<1>4. ASSUME NEW s \in Server, Compaction(s) PROVE CallInv'
    <2>1. CASE CreateSnapshot(s)
        BY <2>1, UntouchedCalls DEF CreateSnapshot
    <2>2. CASE OnSnapshotCompleted(s)
        <3>1. UNCHANGED last
            BY <2>2, SnapshotCompletedIndexes
        <3>2. QED
            BY <2>2, <3>1, UntouchedCalls DEF OnSnapshotCompleted
    <2>3. QED
        BY <1>4, <2>1, <2>2 DEF Compaction
<1>5. ASSUME NEW f \in Follower, Restart(f) PROVE CallInv'
    <2>1. UNCHANGED <<peer, net, chunks, last, overtaken>> /\ Restarted(f) /\ f \in Server
        BY <1>5 DEF Restart, Server
    <2>2. \A t \in Server : up'[t] = up[t] \/ up'[t] # "too_large"
        BY <2>1, RestartedFacts DEF IndexInv
    <2>3. QED
        BY <2>1, <2>2, UntouchedCalls
<1>6. QED
    BY <1>1, <1>2, <1>3, <1>4, <1>5, RpcErrorCalls, CrashCalls, CliReqCalls,
       HbTimeoutCalls DEF Next

-----------------------------------------------------------------------------
(* The state machine.  It reflects what is committed in memory, what a      *)
(* restart takes for committed, and what the commit thread is applying.     *)

Reflects(s) ==
    \A i \in Nat :
        i >= 1 /\ (i <= commit[s] \/ i <= saved[s] \/ i <= applying[s]) =>
            i \in content[s]
ContentInv == \A s \in Server \ overtaken : Reflects(s)

\* The initial state: nothing, or the first entry.
LEMMA InitContent == Init => ContentInv
<1> SUFFICES ASSUME Init, NEW s \in Server PROVE Reflects(s)
    BY DEF ContentInv
<1>1. Has(s) \in Nat
    BY DEF Has
<1>2. /\ commit[s] = Has(s) /\ saved[s] = Has(s) /\ applying[s] = 0
      /\ content[s] = 1..Has(s)
    BY DEF Init
<1>3. QED
    BY <1>1, <1>2 DEF Reflects

\* A step that leaves a server's indexes and its state machine alone.
SameContent(t) ==
    /\ commit'[t] = commit[t] /\ saved'[t] = saved[t]
    /\ applying'[t] = applying[t] /\ content'[t] = content[t]

\* A step of one server.
LEMMA OneServerContent ==
    ASSUME ContentInv, overtaken' = overtaken, NEW s \in Server,
           s \notin overtaken => Reflects(s)',
           \A t \in Server \ {s} : SameContent(t)
    PROVE  ContentInv'
<1> SUFFICES ASSUME NEW t \in Server \ overtaken PROVE Reflects(t)'
    BY DEF ContentInv
<1>1. CASE t = s
    BY <1>1
<1>2. CASE t # s
    BY <1>2 DEF ContentInv, Reflects, SameContent
<1>3. QED
    BY <1>1, <1>2

\* No index and no state machine changes.
LEMMA SameContentStays ==
    ASSUME ContentInv, UNCHANGED <<commit, saved, applying, content>>,
           overtaken \subseteq overtaken'
    PROVE  ContentInv'
BY DEF ContentInv, Reflects

\* An entry is handed to the state machine.
LEMMA StartEntryContent ==
    ASSUME IndexInv, ContentInv, NEW s \in Server, StartEntry(s)
    PROVE  ContentInv'
<1>1. /\ commit[s] \in Nat /\ saved[s] \in Nat /\ applying[s] = 0
      /\ content[s] \in SUBSET Nat /\ Typed
      /\ s \notin overtaken => Reflects(s)
    BY DEF IndexInv, Typed, StartEntry, ContentInv
<1>2. UNCHANGED <<commit, saved, overtaken>>
    BY DEF StartEntry
<1>3. PICK idx \in Nat : idx = commit[s] + 1
    BY <1>1
<1>4. CASE /\ applying' = [applying EXCEPT ![s] = idx]
           /\ content' = [content EXCEPT ![s] = @ \cup {idx}]
    <2>1. /\ applying'[s] = idx /\ content'[s] = content[s] \cup {idx}
          /\ \A t \in Server \ {s} : SameContent(t)
        BY <1>1, <1>2, <1>4 DEF Typed, SameContent
    <2>2. s \notin overtaken => Reflects(s)'
        BY <1>1, <1>2, <1>3, <2>1 DEF Reflects
    <2>3. QED
        BY <1>2, <2>1, <2>2, OneServerContent
<1>5. CASE UNCHANGED <<applying, content>>
    BY <1>2, <1>5, SameContentStays
<1>6. QED
    BY <1>3, <1>4, <1>5 DEF StartEntry

\* An entry is applied, and perhaps the next one handed over.
LEMMA FinishEntryContent ==
    ASSUME IndexInv, ContentInv, NEW s \in Server, FinishEntry(s)
    PROVE  ContentInv'
<1>1. /\ applying[s] \in Nat /\ saved[s] \in Nat /\ applying[s] # 0
      /\ content[s] \in SUBSET Nat /\ Typed /\ overtaken' = overtaken
      /\ s \notin overtaken => Reflects(s)
    BY DEF IndexInv, Typed, FinishEntry, ContentInv
<1>2. PICK idx \in Nat : idx = applying[s]
    BY <1>1
<1>3. PICK more \in BOOLEAN : more = (quick[s] > idx /\ last[s] > idx)
    OBVIOUS
<1>4. PICK go \in BOOLEAN : go = (more /\ idx + 1 >= start[s])
    OBVIOUS
<1>5. /\ commit' = [commit EXCEPT ![s] = idx]
      /\ applying' = [applying EXCEPT ![s] = IF go THEN idx + 1 ELSE 0]
      /\ content' = IF go THEN [content EXCEPT ![s] = @ \cup {idx + 1}]
                    ELSE content
      /\ saved' = IF more THEN saved ELSE [saved EXCEPT ![s] = idx]
    BY <1>2, <1>3, <1>4 DEF FinishEntry
<1>6. /\ commit'[s] = idx /\ applying'[s] = (IF go THEN idx + 1 ELSE 0)
      /\ content'[s] = IF go THEN content[s] \cup {idx + 1} ELSE content[s]
      /\ saved'[s] = IF more THEN saved[s] ELSE idx
      /\ \A t \in Server \ {s} : SameContent(t)
    BY <1>1, <1>5 DEF Typed, SameContent
<1>7. s \notin overtaken => Reflects(s)'
    BY <1>1, <1>2, <1>6 DEF Reflects
<1>8. QED
    BY <1>1, <1>6, <1>7, OneServerContent

\* A restart takes the saved index for the commit index.
LEMMA RestartContent ==
    ASSUME IndexInv, ContentInv, NEW f \in Follower, Restart(f)
    PROVE  ContentInv'
<1>1. /\ Typed /\ f \in Server /\ Restarted(f)
      /\ UNCHANGED <<saved, content, overtaken>>
    BY DEF IndexInv, Restart, Server
<1>2. /\ commit'[f] = saved[f] /\ applying'[f] = 0
      /\ \A t \in Server \ {f} : SameContent(t)
    BY <1>1, RestartedFacts DEF SameContent
<1>3. f \notin overtaken => Reflects(f)'
    BY <1>1, <1>2 DEF ContentInv, Reflects
<1>4. QED
    BY <1>1, <1>2, <1>3, OneServerContent

\* The last block completes the snapshot: all blocks are there.
LEMMA SnapshotIsWhole ==
    ASSUME IndexInv, CallInv, NEW m \in net, m.type = "snapshot_req", m.done,
           m.peer \notin overtaken
    PROVE  \A o \in 0..(Blocks - 1) :
               <<m.idx, o>> \in chunks[m.peer] \cup {<<m.idx, m.offset>>}
<1>1. Stored(m.peer, m.idx, m.offset)
    BY SnapshotReqFacts DEF CallInv, CallsOf, BlocksBefore
<1>2. Done(m.offset) /\ m.offset \in Nat
    BY SnapshotReqFacts DEF IndexInv, RequestsFit, MessageFits
<1>3. SUFFICES ASSUME NEW o \in 0..(Blocks - 1)
               PROVE  <<m.idx, o>> \in chunks[m.peer] \cup {<<m.idx, m.offset>>}
    OBVIOUS
<1>4. o \in Nat /\ (o < m.offset \/ o = m.offset)
    BY <1>2, SnapshotAssumption DEF Done
<1>5. QED
    BY <1>1, <1>4 DEF Stored

\* What the follower had committed, saved or begun to apply is in a snapshot
\* that it installs.
LEMMA InstalledCovers ==
    ASSUME IndexInv, NEW m \in net, m.type = "snapshot_req",
           m.idx > commit[m.peer], m.idx >= start[m.peer]
    PROVE  saved[m.peer] <= m.idx /\ applying[m.peer] <= m.idx
<1>1. /\ m.peer \in Server /\ Typed /\ m.idx \in Nat /\ ServerOrder(m.peer)
    BY SnapshotReqFacts DEF IndexInv
<1>2. /\ commit[m.peer] \in Nat /\ start[m.peer] \in Nat
      /\ saved[m.peer] \in Nat /\ applying[m.peer] \in Nat
    BY <1>1 DEF Typed
<1>3. QED
    BY <1>1, <1>2 DEF ServerOrder, IndexOrder, SavedOrder

\* What apply_snapshot makes of a whole snapshot.
LEMMA InstalledContent ==
    ASSUME IndexInv, CallInv, NEW m \in net, m.type = "snapshot_req", m.done,
           Installed(m.peer, m, chunks[m.peer] \cup {<<m.idx, m.offset>>})
    PROVE  /\ m.peer \notin overtaken => content'[m.peer] = 1..m.idx
           /\ \A t \in Server \ {m.peer} : content'[t] = content[t]
<1>1. Typed /\ m.peer \in Server
    BY SnapshotReqFacts
<1>2. PICK got : got = chunks[m.peer] \cup {<<m.idx, m.offset>>}
    OBVIOUS
<1>3. content' = [content EXCEPT ![m.peer] =
           IF \A o \in 0..(Blocks - 1) : <<m.idx, o>> \in got
           THEN 1..m.idx ELSE {}]
    BY <1>2 DEF Installed
<1>4. m.peer \notin overtaken => \A o \in 0..(Blocks - 1) : <<m.idx, o>> \in got
    BY <1>2, SnapshotIsWhole
<1>5. m.peer \notin overtaken => content' = [content EXCEPT ![m.peer] = 1..m.idx]
    BY <1>3, <1>4
<1>6. \A t \in Server \ {m.peer} : content'[t] = content[t]
    BY <1>1, <1>3 DEF Typed
<1>7. QED
    BY <1>1, <1>5, <1>6 DEF Typed

\* A snapshot is installed.
LEMMA InstallContent ==
    ASSUME IndexInv, CallInv, ContentInv, NEW m \in net, InstallSnapshot(m)
    PROVE  ContentInv'
<1>1. /\ m.type = "snapshot_req" /\ m.idx > commit[m.peer] /\ m.done
      /\ UNCHANGED <<applying, overtaken>>
    BY DEF InstallSnapshot
<1>2. /\ Typed /\ m.peer \in Server /\ m.idx \in Nat
      /\ applying[m.peer] \in Nat /\ start[m.peer] \in Nat
    BY <1>1, SnapshotReqFacts DEF Typed
<1>3. CASE m.idx >= start[m.peer]
    <2>1. /\ Installed(m.peer, m, chunks[m.peer] \cup {<<m.idx, m.offset>>})
          /\ CommitIdxOf(m)
        <3>1. ~(m.idx < start[m.peer])
            BY <1>2, <1>3
        <3>2. QED
            BY <3>1 DEF InstallSnapshot
    <2>2. /\ m.peer \notin overtaken => content'[m.peer] = 1..m.idx
          /\ \A t \in Server \ {m.peer} : content'[t] = content[t]
        BY <1>1, <2>1, InstalledContent
    <2>3. /\ commit'[m.peer] = m.idx /\ saved'[m.peer] = m.idx
          /\ \A t \in Server \ {m.peer} :
                 commit'[t] = commit[t] /\ saved'[t] = saved[t]
        BY <1>2, <2>1 DEF CommitIdxOf, Typed
    <2>4. applying[m.peer] <= m.idx
        BY <1>1, <1>3, InstalledCovers
    <2>5. m.peer \notin overtaken => Reflects(m.peer)'
        BY <1>1, <1>2, <2>2, <2>3, <2>4 DEF Reflects
    <2>6. \A t \in Server \ {m.peer} : SameContent(t)
        BY <1>1, <2>2, <2>3 DEF SameContent
    <2>7. QED
        BY <1>1, <1>2, <2>5, <2>6, OneServerContent
<1>4. CASE ~(m.idx >= start[m.peer])
    <2>1. UNCHANGED <<commit, saved, content>>
        BY <1>4 DEF InstallSnapshot
    <2>2. QED
        BY <1>1, <2>1, SameContentStays
<1>5. QED
    BY <1>3, <1>4

\* A follower dies in an installation, before or after apply_snapshot.
LEMMA CrashContent ==
    ASSUME IndexInv, CallInv, ContentInv, NEW m \in net, CrashInInstall(m)
    PROVE  ContentInv'
<1>1. /\ m.type = "snapshot_req" /\ m.idx > commit[m.peer] /\ m.done
      /\ m.idx >= start[m.peer] /\ Restarted(m.peer)
      /\ UNCHANGED <<saved, overtaken>>
    BY DEF CrashInInstall
<1>2. /\ Typed /\ m.peer \in Server /\ m.idx \in Nat /\ saved[m.peer] \in Nat
    BY <1>1, SnapshotReqFacts DEF Typed
<1>3. /\ commit'[m.peer] = saved[m.peer] /\ applying'[m.peer] = 0
      /\ \A t \in Server \ {m.peer} :
             commit'[t] = commit[t] /\ applying'[t] = applying[t]
    BY <1>1, <1>2, RestartedFacts
<1>4. saved[m.peer] <= m.idx
    BY <1>1, InstalledCovers
<1>5. CASE Installed(m.peer, m, chunks[m.peer] \cup {<<m.idx, m.offset>>})
    <2>1. /\ m.peer \notin overtaken => content'[m.peer] = 1..m.idx
          /\ \A t \in Server \ {m.peer} : content'[t] = content[t]
        BY <1>1, <1>5, InstalledContent
    <2>2. m.peer \notin overtaken => Reflects(m.peer)'
        BY <1>1, <1>2, <1>3, <1>4, <2>1 DEF Reflects
    <2>3. \A t \in Server \ {m.peer} : SameContent(t)
        BY <1>1, <1>3, <2>1 DEF SameContent
    <2>4. QED
        BY <1>1, <1>2, <2>2, <2>3, OneServerContent
<1>6. CASE UNCHANGED content
    <2>1. m.peer \notin overtaken => Reflects(m.peer)'
        BY <1>1, <1>2, <1>3, <1>6 DEF ContentInv, Reflects
    <2>2. \A t \in Server \ {m.peer} : SameContent(t)
        BY <1>1, <1>3, <1>6 DEF SameContent
    <2>3. QED
        BY <1>1, <1>2, <2>1, <2>2, OneServerContent
<1>7. QED
    BY <1>5, <1>6 DEF CrashInInstall

\* Every step keeps the state machine level with the three indexes.
LEMMA NextContent ==
    ASSUME IndexInv, CallInv, ContentInv, [Next]_vars
    PROVE  ContentInv'
<1>0. overtaken \subseteq overtaken'
    BY OvertakenGrows
<1>1. CASE UNCHANGED vars
    BY <1>0, <1>1, SameContentStays DEF vars
<1>2. ASSUME NEW m \in net, Receive(m) PROVE ContentInv'
    <2>1. CASE InstallSnapshot(m)
        BY <2>1, InstallContent
    <2>2. CASE ~InstallSnapshot(m)
        <3>1. UNCHANGED <<commit, saved, applying, content>>
            BY <1>2, <2>2
            DEF Receive, HandleAppendEntries, SaveBlock, SetFree,
                HandleAppendAccepted, HandleAppendRefused,
                HandleInstallSnapshotResp
        <3>2. QED
            BY <1>0, <3>1, SameContentStays
    <2>3. QED
        BY <2>1, <2>2
<1>3. ASSUME NEW m \in net, RpcError(m) PROVE ContentInv'
    BY <1>0, <1>3, SameContentStays DEF RpcError
<1>4. ASSUME NEW s \in Server, CommitInBg(s) PROVE ContentInv'
    BY <1>4, StartEntryContent, FinishEntryContent DEF CommitInBg
<1>5. ASSUME NEW s \in Server, Compaction(s) PROVE ContentInv'
    BY <1>0, <1>5, SameContentStays DEF Compaction, CreateSnapshot, OnSnapshotCompleted
<1>6. CASE HandleCliReq
    BY <1>0, <1>6, SameContentStays DEF HandleCliReq
<1>7. ASSUME NEW f \in Follower, HandleHbTimeout(f) PROVE ContentInv'
    BY <1>0, <1>7, SameContentStays DEF HandleHbTimeout
<1>8. QED
    BY <1>1, <1>2, <1>3, <1>4, <1>5, <1>6, <1>7, CrashContent, RestartContent
    DEF Next

\* Nothing is skipped: however entries reach a server, by commit_in_bg or by a
\* snapshot that apply_snapshot installs, its state machine reflects all of
\* them up to the commit index, in every order of applies, installations,
\* losses and restarts, unless a request to it overtook the callback of one of
\* its responses.
THEOREM NoEntryIsSkipped == Spec => []NothingSkipped
<1>1. Init => IndexInv /\ CallInv /\ ContentInv
    BY InitIndexes, InitCalls, InitContent
<1>2. IndexInv /\ CallInv /\ ContentInv /\ [Next]_vars =>
          (IndexInv /\ CallInv /\ ContentInv)'
    BY NextIndexes, NextCalls, NextContent
<1>3. IndexInv /\ ContentInv => NothingSkipped
    <2> SUFFICES ASSUME IndexInv, ContentInv, NEW s \in Server \ overtaken
                 PROVE  1..commit[s] \subseteq content[s]
        BY DEF NothingSkipped
    <2>1. commit[s] \in Nat
        BY DEF IndexInv, Typed
    <2>2. QED
        BY <2>1 DEF ContentInv, Reflects
<1>4. QED
    BY <1>1, <1>2, <1>3, PTL DEF Spec

-----------------------------------------------------------------------------
(* Without a lost RPC, or a request that overtook a callback, the leader     *)
(* knows where a log ends.  The log reaches beyond what its peer object says *)
(* only while the answer that tells so is under way, or when a snapshot is   *)
(* what it gets next.                                                        *)

Level(f) == start[f] - 1 <= snap[f]
Whole(m) == m.type = "snapshot_resp" /\ m.accepted /\ m.next >= Blocks
Moves(m) == m.type = "append_resp" \/ Whole(m)

\* The message m agrees with the log it is about; p is the peer object.
InStep(m, p) ==
    /\ m.live
    /\ m.type = "append_req" => last[m.peer] <= m.prev /\ Level(m.peer)
    /\ m.type = "append_resp" => last[m.peer] + 1 = m.next /\ Level(m.peer)
    /\ m.type = "snapshot_req" =>
           last[m.peer] <= m.idx /\ NeedsSnapshot(p.next - 1, start[Leader])
    /\ Whole(m) =>
           last[m.peer] <= p.sync.idx /\ Level(m.peer) /\ p.sync.idx # 0

\* The log of f agrees with its peer object p, when the messages are ms.
Follows(f, p, ms) ==
    \/ \E m \in ms : m.peer = f /\ Moves(m)
    \/ last[f] < p.next /\ Level(f)
    \/ NeedsSnapshot(p.next - 1, start[Leader]) /\ last[f] <= snap[Leader]

LevelOf(f) ==
    /\ \A m \in net : m.peer = f => InStep(m, peer[m.peer])
    /\ Follows(f, peer[f], net) /\ up[f] # "bad_term"

LevelInv == errors = 0 => \A f \in Follower \ overtaken : LevelOf(f)

\* The initial state: every peer is taken to end where the leader does.
LEMMA InitLevel == Init => LevelInv
<1> SUFFICES ASSUME Init PROVE LevelInv
    OBVIOUS
<1>1. net = {}
    BY DEF Init
<1>2. ASSUME NEW f \in Follower
      PROVE  Follows(f, peer[f], net) /\ up[f] # "bad_term"
    <2>1. f \in Server /\ peer[f].next = 2
        BY DEF Init, Server
    <2>2. last[f] < 2 /\ start[f] = 1 /\ snap[f] = 0 /\ up[f] = "up"
        BY <2>1 DEF Init, Has
    <2>3. QED
        BY <2>1, <2>2 DEF Follows, Level
<1>3. QED
    BY <1>1, <1>2 DEF LevelInv, LevelOf

\* The numbers that the relations compare.
LEMMA LevelTypes ==
    ASSUME IndexInv
    PROVE  /\ Leader \in Server /\ start[Leader] \in Nat /\ snap[Leader] \in Nat
           /\ last[Leader] \in Nat /\ quick[Leader] \in Nat
           /\ start[Leader] - 1 <= snap[Leader]
           /\ \A f \in Follower :
                  /\ f \in Server /\ f # Leader
                  /\ last[f] \in Nat /\ start[f] \in Nat /\ snap[f] \in Nat
                  /\ peer[f] \in PeerObjects /\ peer[f].next \in Nat
                  /\ peer[f].sync.idx \in Nat
                  /\ peer[f].sync.idx <= snap[Leader]
           /\ \A m \in net : m \in Messages /\ m.peer \in Follower
<1>1. Typed /\ Leader \in Server /\ LeaderSnapshot
    BY LeaderUnmarked DEF IndexInv
<1>2. \A f \in Follower : f \in Server /\ f # Leader
    BY SnapshotAssumption DEF Server
<1>3. /\ start[Leader] \in Nat /\ snap[Leader] \in Nat /\ last[Leader] \in Nat
      /\ quick[Leader] \in Nat
      /\ making[Leader].idx \in Nat /\ making[Leader].done \in BOOLEAN
    BY <1>1 DEF Typed
<1>4. making[Leader].done => making[Leader].idx # 0
    BY <1>1 DEF IndexInv, ServerOrder, IndexOrder
<1>5. start[Leader] - 1 <= snap[Leader]
    BY <1>1, <1>3, <1>4 DEF LeaderSnapshot
<1>6. ASSUME NEW f \in Follower
      PROVE  /\ last[f] \in Nat /\ start[f] \in Nat /\ snap[f] \in Nat
             /\ peer[f] \in PeerObjects /\ peer[f].next \in Nat
             /\ peer[f].sync.idx \in Nat /\ peer[f].sync.idx <= snap[Leader]
    BY <1>1, <1>2 DEF Typed, PeerObjects, Sync, IndexInv, RequestsFit
<1>7. \A m \in net : m \in Messages /\ m.peer \in Follower
    BY <1>1, MessageKinds DEF Typed
<1>8. QED
    BY <1>1, <1>2, <1>3, <1>5, <1>6, <1>7

\* The snapshot the leader offers is always its last one.
LEMMA SyncIsLast ==
    ASSUME NEW p \in PeerObjects, snap[Leader] \in Nat, p.sync.idx <= snap[Leader]
    PROVE  SyncOf(p).idx = snap[Leader]
<1>1. p.sync.idx \in Nat
    BY DEF PeerObjects, Sync
<1>2. QED
    BY <1>1 DEF SyncOf

\* A request agrees with the log it goes to.
LEMMA RequestInStep ==
    ASSUME IndexInv, NEW f \in Follower, NEW p \in PeerObjects, NEW end \in Nat,
           NEW qc \in Nat, Outcome(p, end) = "made", p.next >= 1,
           p.sync.idx <= snap[Leader],
           \/ last[f] < p.next /\ Level(f)
           \/ NeedsSnapshot(p.next - 1, start[Leader]) /\ last[f] <= snap[Leader]
    PROVE  /\ InStep(Req(f, p, end, qc), PeerAfter(p, end))
           /\ PeerAfter(p, end).next = p.next
<1>1. /\ start[Leader] \in Nat /\ snap[Leader] \in Nat /\ last[f] \in Nat
      /\ start[Leader] - 1 <= snap[Leader] /\ p.next \in Nat
    BY LevelTypes DEF PeerObjects
<1>2. PICK prev \in Nat : prev = PrevIdx(p, end)
    BY <1>1, ReqFacts
<1>3. prev = p.next - 1
    BY <1>1, <1>2 DEF PrevIdx
<1>4. PICK r : r = Req(f, p, end, qc)
    OBVIOUS
<1>5. PICK q : q = PeerAfter(p, end)
    OBVIOUS
<1>6. q.next = p.next
    <2>1. q.next = PrevIdx(p, end) + 1
        BY <1>1, <1>5, ReqFacts
    <2>2. PrevIdx(p, end) = p.next - 1
        BY <1>2, <1>3
    <2>3. PICK n \in Nat : n = p.next
        BY <1>1
    <2>4. q.next = n
        BY <2>1, <2>2, <2>3
    <2>5. QED
        BY <2>3, <2>4
<1>7. CASE NeedsSnapshot(prev, start[Leader])
    <2>1. /\ r.peer = f /\ r.live /\ r.type = "snapshot_req"
          /\ r.idx = SyncOf(p).idx
        BY <1>1, <1>2, <1>4, <1>7, ReqFacts
    <2>2. r.idx = snap[Leader]
        BY <1>1, <2>1, SyncIsLast
    <2>3. last[f] <= snap[Leader]
        BY <1>1, <1>3, <1>7 DEF NeedsSnapshot
    <2>4. NeedsSnapshot(q.next - 1, start[Leader])
        BY <1>3, <1>6, <1>7
    <2>5. InStep(r, q)
        BY <2>1, <2>2, <2>3, <2>4 DEF InStep, Whole
    <2>6. QED
        BY <1>4, <1>5, <1>6, <2>5
<1>8. CASE ~NeedsSnapshot(prev, start[Leader])
    <2>1. /\ r.peer = f /\ r.live /\ r.type = "append_req" /\ r.prev = prev
        BY <1>1, <1>2, <1>4, <1>8, ReqFacts
    <2>2. last[f] <= prev /\ Level(f)
        BY <1>1, <1>3, <1>8
    <2>3. InStep(r, q)
        BY <2>1, <2>2 DEF InStep, Whole
    <2>4. QED
        BY <1>4, <1>5, <1>6, <2>3
<1>9. QED
    BY <1>7, <1>8

\* An action of the leader that ends in request_append_entries: ms are the
\* messages that stay, and ps the peer objects.
LEMMA SentLevel ==
    ASSUME IndexInv, UNCHANGED <<start, snap>>,
           NEW dests \in SUBSET Follower, NEW end \in Nat, NEW qc \in Nat,
           NEW ps \in [Follower -> PeerObjects], NEW ms \in SUBSET net,
           Sent(dests, end, qc, ps, ms),
           NEW f \in Follower \ overtaken', CallsOf(f),
           ps[f].busy = peer[f].busy, ps[f].next >= 1,
           ps[f].sync.idx <= snap[Leader], last'[f] = last[f],
           Follows(f, ps[f], ms), up[f] # "bad_term",
           \A k \in ms : k.peer = f => InStep(k, ps[f])
    PROVE  LevelOf(f)'
<1>1. /\ f \in Follower /\ f \in Server /\ f # Leader /\ ps[f] \in PeerObjects
      /\ start[Leader] \in Nat /\ snap[Leader] \in Nat
    BY LevelTypes
<1>2. up'[f] # "bad_term"
    <2>1. up \in [Server -> Causes]
        BY DEF IndexInv, Typed
    <2>2. up'[f] = up[f]
        BY <1>1, <2>1 DEF Sent
    <2>3. QED
        BY <2>2
<1>3. ASSUME NEW k \in ms, k.peer = f, ~ps[f].busy PROVE k.queued
    BY <1>3 DEF CallsOf, InStep
<1>4. SUFFICES /\ \A k \in net' : k.peer = f => InStep(k, peer'[f])
               /\ Follows(f, peer'[f], net')
    BY <1>2 DEF LevelOf, InStep, Follows, Level, Whole, Moves
<1>5. CASE /\ f \in dests /\ ~ps[f].busy /\ Outcome(ps[f], end) = "made"
           /\ peer'[f] = PeerAfter(ps[f], end)
           /\ Req(f, ps[f], end, qc) \in net'
    <2>1. PICK r \in net' : r = Req(f, ps[f], end, qc)
        BY <1>5
    <2>2. r.peer = f /\ r.live /\ ~r.queued
        BY <1>1, <1>5, <2>1, ReqFacts
    <2>3. r \notin ms
        BY <1>3, <1>5, <2>2
    <2>4. ~Waiting(f, ms)
        BY <2>2, <2>3 DEF Sent
    <2>5. ASSUME NEW k \in ms PROVE k.peer # f
        BY <1>3, <1>5, <2>4 DEF Waiting
    <2>6. \/ last[f] < ps[f].next /\ Level(f)
          \/ NeedsSnapshot(ps[f].next - 1, start[Leader]) /\ last[f] <= snap[Leader]
        BY <2>5 DEF Follows
    <2>7. PICK p \in PeerObjects : p = ps[f]
        BY <1>1
    <2>8. /\ InStep(Req(f, p, end, qc), PeerAfter(p, end))
          /\ PeerAfter(p, end).next = p.next
        BY <1>1, <1>5, <2>6, <2>7, RequestInStep
    <2>9. ASSUME NEW k \in net', k.peer = f PROVE k = r
        BY <2>1, <2>5, <2>9 DEF Sent
    <2>10. InStep(r, peer'[f]) /\ peer'[f].next = ps[f].next
        BY <1>5, <2>1, <2>7, <2>8
    <2>11. QED
        BY <2>6, <2>9, <2>10 DEF Follows
<1>6. CASE peer'[f] = ps[f] \/ (~ps[f].busy /\ peer'[f] = [ps[f] EXCEPT !.busy = TRUE])
    <2>1. peer'[f].next = ps[f].next /\ peer'[f].sync = ps[f].sync
        BY <1>1, <1>6 DEF PeerObjects
    <2>2. CASE \E k \in net' : k \notin ms /\ k.peer = f
        <3>1. PICK k \in net' : k \notin ms /\ k.peer = f
            BY <2>2
        <3>2. /\ f \in dests /\ ~ps[f].busy /\ Outcome(ps[f], end) = "made"
              /\ peer'[f] = PeerAfter(ps[f], end)
              /\ Req(f, ps[f], end, qc) \in net'
            BY <3>1 DEF Sent
        <3>3. QED
            BY <1>5, <3>2
    <2>3. CASE \A k \in net' : k.peer = f => k \in ms
        <3>1. \A k \in net' : k.peer = f => InStep(k, peer'[f])
            BY <2>1, <2>3 DEF InStep
        <3>2. ms \subseteq net'
            BY DEF Sent
        <3>3. Follows(f, peer'[f], net')
            BY <2>1, <3>2 DEF Follows
        <3>4. QED
            BY <3>1, <3>3
    <2>4. QED
        BY <2>2, <2>3
<1>7. QED
    BY <1>1, <1>5, <1>6 DEF Sent

\* A client's request.
LEMMA CliReqLevel ==
    ASSUME IndexInv, CallInv, LevelInv, HandleCliReq
    PROVE  LevelInv'
<1>1. Sent(Follower, last[Leader] + 1, quick[Leader], peer, net)
    BY CliReqIndexes
<1>2. /\ Typed /\ last[Leader] \in Nat /\ quick[Leader] \in Nat
      /\ \A f \in Follower : f \in Server /\ f # Leader
    BY LevelTypes DEF IndexInv
<1>3. /\ UNCHANGED <<start, snap, errors>>
      /\ \A f \in Follower : last'[f] = last[f]
    BY <1>2 DEF HandleCliReq, Typed
<1>4. SUFFICES ASSUME errors = 0, NEW f \in Follower \ overtaken'
               PROVE  LevelOf(f)'
    BY <1>3 DEF LevelInv
<1>5. f \in Follower \ overtaken
    BY <1>1 DEF Sent
<1>6. /\ CallsOf(f) /\ LevelOf(f) /\ peer[f].next >= 1
      /\ peer[f].sync.idx <= snap[Leader]
    BY <1>4, <1>5, LevelTypes DEF CallInv, CallsOf, PeerFits, LevelInv
<1>7. /\ \A k \in net : k.peer = f => InStep(k, peer[f])
      /\ Follows(f, peer[f], net) /\ up[f] # "bad_term"
    BY <1>6 DEF LevelOf
<1>8. PICK end \in Nat : end = last[Leader] + 1
    BY <1>2
<1>9. QED
    BY <1>1, <1>2, <1>3, <1>6, <1>7, <1>8, SentLevel DEF Typed

\* The heartbeat timer of a free peer.
LEMMA HbTimeoutLevel ==
    ASSUME IndexInv, CallInv, LevelInv, NEW g \in Follower, HandleHbTimeout(g)
    PROVE  LevelInv'
<1>1. Sent({g}, last[Leader], quick[Leader], peer, net)
    BY HbTimeoutIndexes
<1>2. /\ Typed /\ last[Leader] \in Nat /\ quick[Leader] \in Nat
    BY LevelTypes DEF IndexInv
<1>3. UNCHANGED <<start, snap, last, errors>>
    BY DEF HandleHbTimeout
<1>4. SUFFICES ASSUME errors = 0, NEW f \in Follower \ overtaken'
               PROVE  LevelOf(f)'
    BY <1>3 DEF LevelInv
<1>5. f \in Follower \ overtaken
    BY <1>1 DEF Sent
<1>6. /\ CallsOf(f) /\ LevelOf(f) /\ peer[f].next >= 1
      /\ peer[f].sync.idx <= snap[Leader]
    BY <1>4, <1>5, LevelTypes DEF CallInv, CallsOf, PeerFits, LevelInv
<1>7. /\ \A k \in net : k.peer = f => InStep(k, peer[f])
      /\ Follows(f, peer[f], net) /\ up[f] # "bad_term"
    BY <1>6 DEF LevelOf
<1>8. PICK dests \in SUBSET Follower : dests = {g}
    OBVIOUS
<1>9. QED
    BY <1>1, <1>2, <1>3, <1>6, <1>7, <1>8, SentLevel DEF Typed

\* A response is handled: ps are the peer objects after it, which differ from
\* the ones before only for the peer that answered.
LEMMA HandledLevel ==
    ASSUME IndexInv, CallInv, LevelInv, errors = 0, NEW m \in net,
           m.queued, UNCHANGED <<start, snap, last, errors>>,
           NEW dests \in SUBSET Follower, NEW end \in Nat, NEW qc \in Nat,
           NEW ps \in [Follower -> PeerObjects],
           Sent(dests, end, qc, ps, net \ {m}),
           \A g \in Follower \ overtaken :
               /\ ps[g].busy = peer[g].busy /\ ps[g].next >= 1
               /\ ps[g].sync.idx <= snap[Leader]
               /\ g # m.peer => /\ ps[g].next = peer[g].next
                                /\ ps[g].sync = peer[g].sync,
           m.peer \notin overtaken =>
               \/ last[m.peer] < ps[m.peer].next /\ Level(m.peer)
               \/ ~Moves(m) /\ ps[m.peer].next = peer[m.peer].next
    PROVE  LevelInv'
<1>1. SUFFICES ASSUME NEW f \in Follower \ overtaken'
               PROVE  LevelOf(f)'
    BY DEF LevelInv
<1>2. f \in Follower \ overtaken
    BY DEF Sent
<1>3. CallsOf(f) /\ LevelOf(f)
    BY <1>2 DEF CallInv, LevelInv
<1>4. PICK ms \in SUBSET net : ms = net \ {m}
    OBVIOUS
<1>5. ASSUME NEW k \in ms, k.peer = f PROVE InStep(k, ps[f])
    <2>1. InStep(k, peer[f]) /\ k.live /\ k \in net /\ k # m
        BY <1>3, <1>4, <1>5 DEF LevelOf, InStep
    <2>2. f # m.peer
        BY <1>2, <1>5, <2>1, QueuedFacts
    <2>3. ps[f].next = peer[f].next /\ ps[f].sync = peer[f].sync
        BY <1>2, <2>2
    <2>4. QED
        BY <2>1, <2>3 DEF InStep
<1>6. Follows(f, ps[f], ms) /\ up[f] # "bad_term"
    <2>1. Follows(f, peer[f], net) /\ up[f] # "bad_term"
        BY <1>3 DEF LevelOf
    <2>2. CASE f # m.peer
        BY <1>2, <1>4, <2>1, <2>2 DEF Follows
    <2>3. CASE f = m.peer /\ last[f] < ps[f].next /\ Level(f)
        BY <2>1, <2>3 DEF Follows
    <2>4. CASE f = m.peer /\ ~Moves(m) /\ ps[f].next = peer[f].next
        BY <1>4, <2>1, <2>4 DEF Follows
    <2>5. QED
        BY <1>2, <2>2, <2>3, <2>4
<1>7. QED
    BY <1>2, <1>3, <1>4, <1>5, <1>6, SentLevel

\* Entries were accepted, and the response says where the log ends now.
LEMMA AcceptedLevel ==
    ASSUME IndexInv, CallInv, LevelInv, NEW m \in net,
           HandleAppendAccepted(m)
    PROVE  LevelInv'
<1> SUFFICES ASSUME errors = 0 PROVE LevelInv'
    BY DEF LevelInv, HandleAppendAccepted
<1>1. /\ IndexInv'
      /\ AcceptedPeers(m) \in [Follower -> PeerObjects]
      /\ \A g \in Follower :
             /\ AcceptedPeers(m)[g].busy = peer[g].busy
             /\ AcceptedPeers(m)[g].sync = peer[g].sync
             /\ AcceptedPeers(m)[g].next =
                    IF g = m.peer THEN m.next ELSE peer[g].next
      /\ AcceptedDests(m) \in SUBSET Follower
      /\ Sent(AcceptedDests(m), last[Leader], quick'[Leader],
              AcceptedPeers(m), net \ {m})
    BY AcceptedIndexes
<1>2. /\ Leader \in Server /\ last[Leader] \in Nat /\ quick'[Leader] \in Nat
    BY <1>1, LevelTypes DEF IndexInv, Typed
<1>3. /\ UNCHANGED <<start, snap, last, errors>> /\ m.queued
      /\ m.type = "append_resp"
    BY DEF HandleAppendAccepted
<1>4. m.peer \in Follower /\ m.next \in Nat /\ last[m.peer] \in Nat
    BY <1>3, QueuedFacts, LevelTypes
<1>5. m.peer \notin overtaken => last[m.peer] + 1 = m.next /\ Level(m.peer)
    BY <1>3, <1>4 DEF LevelInv, LevelOf, InStep
<1>6. \A g \in Follower \ overtaken :
          peer[g].next >= 1 /\ peer[g].sync.idx <= snap[Leader]
    BY LevelTypes DEF CallInv, CallsOf, PeerFits
<1>7. PICK ps \in [Follower -> PeerObjects] : ps = AcceptedPeers(m)
    BY <1>1
<1>8. \A g \in Follower \ overtaken :
          /\ ps[g].busy = peer[g].busy /\ ps[g].next >= 1
          /\ ps[g].sync.idx <= snap[Leader]
          /\ g # m.peer => /\ ps[g].next = peer[g].next
                           /\ ps[g].sync = peer[g].sync
    BY <1>1, <1>4, <1>5, <1>6, <1>7
<1>9. m.peer \notin overtaken => last[m.peer] < ps[m.peer].next
    BY <1>1, <1>4, <1>5, <1>7
<1>10. PICK end \in Nat : end = last[Leader]
    BY <1>2
<1>11. PICK qc \in Nat : qc = quick'[Leader]
    BY <1>2
<1>12. PICK dests \in SUBSET Follower : dests = AcceptedDests(m)
    BY <1>1
<1>13. Sent(dests, end, qc, ps, net \ {m})
    BY <1>1, <1>7, <1>10, <1>11, <1>12
<1>14. QED
    BY <1>3, <1>5, <1>8, <1>9, <1>13, HandledLevel

\* Entries were refused, and the response says where the log ends.
LEMMA RefusedLevel ==
    ASSUME IndexInv, CallInv, LevelInv, NEW m \in net,
           HandleAppendRefused(m)
    PROVE  LevelInv'
<1> SUFFICES ASSUME errors = 0 PROVE LevelInv'
    BY DEF LevelInv, HandleAppendRefused
<1>1. /\ RefusedPeers(m) \in [Follower -> PeerObjects]
      /\ \A g \in Follower :
             /\ RefusedPeers(m)[g].busy = peer[g].busy
             /\ RefusedPeers(m)[g].sync = peer[g].sync
             /\ RefusedPeers(m)[g].next =
                    IF g # m.peer THEN peer[g].next
                    ELSE IF peer[g].next > m.next THEN m.next
                    ELSE UlongDec(peer[g].next)
      /\ Sent({m.peer}, last[Leader], quick[Leader], RefusedPeers(m), net \ {m})
    BY RefusedIndexes
<1>2. /\ last[Leader] \in Nat /\ quick[Leader] \in Nat
    BY LevelTypes
<1>3. /\ UNCHANGED <<start, snap, last, errors>> /\ m.queued
      /\ m.type = "append_resp"
      /\ ~m.accepted
    BY DEF HandleAppendRefused
<1>4. /\ m.peer \in Follower /\ m.next \in Nat /\ last[m.peer] \in Nat
      /\ peer[m.peer].next \in Nat
    BY <1>3, QueuedFacts, LevelTypes
<1>5. m.peer \notin overtaken =>
          /\ last[m.peer] + 1 = m.next /\ Level(m.peer)
          /\ m.next < peer[m.peer].next
    BY <1>3, <1>4 DEF LevelInv, LevelOf, InStep, CallInv, CallsOf, CallMatches
<1>6. \A g \in Follower \ overtaken :
          peer[g].next >= 1 /\ peer[g].sync.idx <= snap[Leader]
    BY LevelTypes DEF CallInv, CallsOf, PeerFits
<1>7. PICK ps \in [Follower -> PeerObjects] : ps = RefusedPeers(m)
    BY <1>1
<1>8. m.peer \notin overtaken => ps[m.peer].next = m.next
    BY <1>1, <1>4, <1>5, <1>7
<1>9. \A g \in Follower \ overtaken :
          /\ ps[g].busy = peer[g].busy /\ ps[g].next >= 1
          /\ ps[g].sync.idx <= snap[Leader]
          /\ g # m.peer => /\ ps[g].next = peer[g].next
                           /\ ps[g].sync = peer[g].sync
    BY <1>1, <1>4, <1>5, <1>6, <1>7, <1>8
<1>10. m.peer \notin overtaken => last[m.peer] < ps[m.peer].next
    BY <1>4, <1>5, <1>8
<1>11. PICK end \in Nat : end = last[Leader]
    BY <1>2
<1>12. PICK qc \in Nat : qc = quick[Leader]
    BY <1>2
<1>13. PICK dests \in SUBSET Follower : dests = {m.peer}
    BY <1>4
<1>14. Sent(dests, end, qc, ps, net \ {m})
    BY <1>1, <1>7, <1>11, <1>12, <1>13
<1>15. QED
    BY <1>3, <1>5, <1>9, <1>10, <1>14, HandledLevel

\* A block was stored, declined, or completed the snapshot.
LEMMA BlockLevel ==
    ASSUME IndexInv, CallInv, LevelInv, NEW m \in net,
           HandleInstallSnapshotResp(m)
    PROVE  LevelInv'
<1> SUFFICES ASSUME errors = 0 PROVE LevelInv'
    BY DEF LevelInv, HandleInstallSnapshotResp
<1>1. /\ BlockPeers(m) \in [Follower -> PeerObjects]
      /\ \A g \in Follower :
             BlockPeers(m)[g] =
                 IF g = m.peer /\ m.accepted /\ peer[m.peer].sync.idx # 0
                 THEN AfterBlock(peer[g], m) ELSE peer[g]
      /\ BlockDests(m) \in SUBSET Follower
      /\ Sent(BlockDests(m), last[Leader], quick[Leader], BlockPeers(m),
              net \ {m})
    BY BlockIndexes
<1>2. /\ last[Leader] \in Nat /\ quick[Leader] \in Nat /\ snap[Leader] \in Nat
    BY LevelTypes
<1>3. /\ UNCHANGED <<start, snap, last, errors>> /\ m.queued
      /\ m.type = "snapshot_resp"
    BY DEF HandleInstallSnapshotResp
<1>4. /\ m \in Responses /\ m.peer \in Follower /\ m.next \in Nat
      /\ last[m.peer] \in Nat /\ peer[m.peer] \in PeerObjects
      /\ peer[m.peer].sync.idx \in Nat
    BY <1>3, QueuedFacts, LevelTypes
<1>5. \A g \in Follower \ overtaken :
          peer[g].next >= 1 /\ peer[g].sync.idx <= snap[Leader]
    BY LevelTypes DEF CallInv, CallsOf, PeerFits
<1>6. Whole(m) /\ m.peer \notin overtaken =>
          /\ last[m.peer] <= peer[m.peer].sync.idx
          /\ Level(m.peer) /\ peer[m.peer].sync.idx # 0
    BY <1>4 DEF LevelInv, LevelOf, InStep
<1>7. PICK ps \in [Follower -> PeerObjects] : ps = BlockPeers(m)
    BY <1>1
<1>8. PICK p : p = AfterBlock(peer[m.peer], m)
    OBVIOUS
<1>9. /\ p.busy = peer[m.peer].busy
      /\ p.next = IF m.next >= Blocks THEN peer[m.peer].sync.idx + 1
                  ELSE peer[m.peer].next
      /\ p.sync = IF m.next >= Blocks THEN NoSync
                  ELSE [idx |-> peer[m.peer].sync.idx, offset |-> m.next]
    BY <1>4, <1>8, AfterBlockFacts
<1>10. m.peer \notin overtaken => p.next >= 1 /\ p.sync.idx <= snap[Leader]
    BY <1>2, <1>4, <1>5, <1>9 DEF NoSync
<1>11. \A g \in Follower \ overtaken :
          /\ ps[g].busy = peer[g].busy /\ ps[g].next >= 1
          /\ ps[g].sync.idx <= snap[Leader]
          /\ g # m.peer => /\ ps[g].next = peer[g].next
                           /\ ps[g].sync = peer[g].sync
    BY <1>1, <1>5, <1>7, <1>8, <1>9, <1>10
<1>12. ASSUME m.peer \notin overtaken
       PROVE  \/ last[m.peer] < ps[m.peer].next /\ Level(m.peer)
              \/ ~Moves(m) /\ ps[m.peer].next = peer[m.peer].next
    <2>1. CASE Whole(m)
        <3>1. ps[m.peer] = p /\ p.next = peer[m.peer].sync.idx + 1
            BY <1>1, <1>4, <1>6, <1>7, <1>8, <1>9, <1>12, <2>1 DEF Whole
        <3>2. QED
            BY <1>4, <1>6, <1>12, <2>1, <3>1
    <2>2. CASE ~Whole(m)
        <3>1. ~Moves(m)
            BY <1>3, <2>2 DEF Moves
        <3>2. ps[m.peer].next = peer[m.peer].next
            BY <1>1, <1>3, <1>4, <1>7, <1>8, <1>9, <2>2 DEF Whole
        <3>3. QED
            BY <3>1, <3>2
    <2>3. QED
        BY <2>1, <2>2
<1>13. PICK end \in Nat : end = last[Leader]
    BY <1>2
<1>14. PICK qc \in Nat : qc = quick[Leader]
    BY <1>2
<1>15. PICK dests \in SUBSET Follower : dests = BlockDests(m)
    BY <1>1
<1>16. Sent(dests, end, qc, ps, net \ {m})
    BY <1>1, <1>7, <1>13, <1>14, <1>15
<1>17. QED
    BY <1>3, <1>11, <1>12, <1>16, HandledLevel

\* A step that moves only what belongs to the follower f.
OnlyAt(f) ==
    /\ \A t \in Server \ {f} :
           /\ start'[t] = start[t] /\ last'[t] = last[t]
           /\ snap'[t] = snap[t] /\ up'[t] = up[t]
    /\ \A g \in Follower \ {f} : peer'[g] = peer[g]
    /\ \A k \in net' : k \in net \/ k.peer = f
    /\ \A k \in net : k \in net' \/ k.peer = f
    /\ overtaken' = overtaken /\ errors' = errors

\* The steps that take the call m further at its follower.
LEMMA OnlyAtFollower ==
    ASSUME IndexInv, NEW m \in net,
           \/ HandleAppendEntries(m) \/ SaveBlock(m) \/ InstallSnapshot(m)
           \/ SetFree(m) \/ CrashInInstall(m)
    PROVE  OnlyAt(m.peer)
<1>1. Typed /\ m.peer \in Follower /\ m.peer \in Server
    BY LevelTypes DEF IndexInv
<1>2. ASSUME NEW ok, NEW nx PROVE Resp(m, ok, nx).peer = m.peer
    BY DEF Resp
<1>3. ASSUME NEW why, Exits(m, why)
      PROVE  /\ \A t \in Server \ {m.peer} : up'[t] = up[t]
             /\ \A g \in Follower \ {m.peer} : peer'[g] = peer[g]
             /\ net' = net \ {m}
    BY <1>1, <1>3 DEF Exits, Typed
<1>4. CASE HandleAppendEntries(m)
    <2>1. /\ UNCHANGED <<start, snap, overtaken, errors>>
          /\ \A t \in Server \ {m.peer} : last'[t] = last[t]
        BY <1>1, <1>4 DEF HandleAppendEntries, Typed
    <2>2. CASE Exits(m, "bad_term")
        BY <1>3, <2>1, <2>2 DEF OnlyAt
    <2>3. CASE UNCHANGED <<up, peer>> /\ \E ok, nx : net' = Answered(m, Resp(m, ok, nx))
        BY <1>2, <2>1, <2>3 DEF OnlyAt, Answered
    <2>4. QED
        BY <1>4, <2>2, <2>3 DEF HandleAppendEntries
<1>5. CASE SaveBlock(m)
    <2>1. UNCHANGED <<up, start, last, snap, peer, overtaken, errors>>
        BY <1>5 DEF SaveBlock
    <2>2. \E ok, nx : net' = Answered(m, Resp(m, ok, nx))
        BY <1>5 DEF SaveBlock
    <2>3. QED
        BY <1>2, <2>1, <2>2 DEF OnlyAt, Answered
<1>6. CASE InstallSnapshot(m)
    <2>1. UNCHANGED <<overtaken, errors>>
        BY <1>6 DEF InstallSnapshot
    <2>2. \A t \in Server \ {m.peer} :
              start'[t] = start[t] /\ last'[t] = last[t] /\ snap'[t] = snap[t]
        BY <1>1, <1>6 DEF InstallSnapshot, CompactTo, Installed, Typed
    <2>3. CASE Exits(m, "bad_install")
        BY <1>3, <2>1, <2>2, <2>3 DEF OnlyAt
    <2>4. CASE UNCHANGED <<up, peer>> /\ \E ok, nx : net' = Answered(m, Resp(m, ok, nx))
        BY <1>2, <2>1, <2>2, <2>4 DEF OnlyAt, Answered
    <2>5. QED
        BY <1>6, <2>3, <2>4 DEF InstallSnapshot
<1>7. CASE SetFree(m)
    <2>1. UNCHANGED <<up, start, last, snap, overtaken, errors>>
        BY <1>7 DEF SetFree
    <2>2. /\ net' = (net \ {m}) \cup {QueuedOf(m)} /\ QueuedOf(m).peer = m.peer
          /\ \A g \in Follower : g # m.peer => peer'[g] = peer[g]
        BY <1>7, SetFreeIndexes
    <2>3. QED
        BY <2>1, <2>2 DEF OnlyAt
<1>8. CASE CrashInInstall(m)
    <2>1. /\ UNCHANGED <<overtaken, errors>> /\ net' = net \ {m}
          /\ Restarted(m.peer)
        BY <1>8 DEF CrashInInstall
    <2>2. \A t \in Server \ {m.peer} :
              start'[t] = start[t] /\ last'[t] = last[t] /\ snap'[t] = snap[t]
        BY <1>1, <1>8 DEF CrashInInstall, CompactTo, Installed, Typed
    <2>3. \A g \in Follower \ {m.peer} : peer'[g] = peer[g]
        BY <1>1, <1>8 DEF CrashInInstall, Typed
    <2>4. \A t \in Server \ {m.peer} : up'[t] = up[t]
        BY <1>1, <2>1, RestartedFacts
    <2>5. QED
        BY <2>1, <2>2, <2>3, <2>4 DEF OnlyAt
<1>9. QED
    BY <1>4, <1>5, <1>6, <1>7, <1>8

\* The other followers are where they were.
LEMMA MessageLevel ==
    ASSUME IndexInv, LevelInv, errors = 0, NEW f \in Follower, OnlyAt(f),
           f \notin overtaken => LevelOf(f)'
    PROVE  LevelInv'
<1>1. SUFFICES ASSUME NEW g \in Follower \ overtaken, g # f
               PROVE  LevelOf(g)'
    BY DEF LevelInv, OnlyAt
<1>2. /\ g \in Server \ {f} /\ Leader \in Server \ {f} /\ LevelOf(g)
      /\ g \in Follower \ {f}
    BY <1>1, LevelTypes DEF LevelInv
<1>3. /\ start'[g] = start[g] /\ last'[g] = last[g] /\ snap'[g] = snap[g]
      /\ start'[Leader] = start[Leader] /\ snap'[Leader] = snap[Leader]
      /\ up'[g] = up[g] /\ peer'[g] = peer[g]
      /\ \A k \in net' : k.peer = g => k \in net
      /\ \A k \in net : k.peer = g => k \in net'
    BY <1>1, <1>2 DEF OnlyAt
<1>4. \A k \in net' : k.peer = g => InStep(k, peer[k.peer])'
    <2> SUFFICES ASSUME NEW k \in net', k.peer = g PROVE InStep(k, peer[k.peer])'
        OBVIOUS
    <2>1. InStep(k, peer[g])
        BY <1>2, <1>3 DEF LevelOf
    <2>2. QED
        BY <1>3, <2>1 DEF InStep, Level, Whole
<1>5. Follows(g, peer[g], net)' /\ up'[g] # "bad_term"
    <2>1. Follows(g, peer[g], net) /\ up[g] # "bad_term"
        BY <1>2 DEF LevelOf
    <2>2. QED
        BY <1>3, <2>1 DEF Follows, Level, Moves, Whole
<1>6. QED
    BY <1>4, <1>5 DEF LevelOf

\* The follower that is called: m is the only call to it.
LEMMA CallLevel ==
    ASSUME IndexInv, CallInv, LevelInv, errors = 0, NEW m \in net,
           m.peer \notin overtaken, up'[m.peer] # "bad_term",
           \A k \in net' : \/ k \in net /\ k # m
                           \/ k.peer = m.peer /\ InStep(k, peer[k.peer])',
           Follows(m.peer, peer[m.peer], net)'
    PROVE  LevelOf(m.peer)'
<1>1. m.peer \in Follower /\ CallsOf(m.peer) /\ LevelOf(m.peer)
    BY LevelTypes DEF CallInv, LevelInv
<1>2. ASSUME NEW k \in net', k.peer = m.peer PROVE InStep(k, peer[k.peer])'
    <2>1. CASE k \in net /\ k # m
        <3>1. k.live /\ m.live
            BY <1>1, <1>2, <2>1 DEF LevelOf, InStep
        <3>2. QED
            BY <1>1, <1>2, <2>1, <3>1 DEF CallsOf
    <2>2. QED
        BY <2>1
<1>3. QED
    BY <1>2 DEF LevelOf

\* A step of a server's own threads: only the leader's log may move on.
LEMMA BackgroundLevel ==
    ASSUME IndexInv, IndexInv', LevelInv,
           UNCHANGED <<peer, net, errors, overtaken>>,
           start[Leader] <= start'[Leader], snap[Leader] <= snap'[Leader],
           \A f \in Follower :
               /\ last'[f] = last[f]
               /\ Level(f) => Level(f)'
               /\ up'[f] = up[f] \/ up'[f] # "bad_term"
    PROVE  LevelInv'
<1>0. SUFFICES ASSUME errors = 0, NEW f \in Follower \ overtaken
               PROVE  LevelOf(f)'
    BY DEF LevelInv
<1>1. /\ start[Leader] \in Nat /\ start'[Leader] \in Nat
      /\ snap[Leader] \in Nat /\ snap'[Leader] \in Nat
      /\ peer[f].next \in Nat /\ last[f] \in Nat /\ f \in Follower
      /\ LevelOf(f)
    BY <1>0, LevelTypes DEF IndexInv, Typed, LevelInv
<1>2. NeedsSnapshot(peer[f].next - 1, start[Leader]) =>
          NeedsSnapshot(peer[f].next - 1, start'[Leader])
    BY <1>1 DEF NeedsSnapshot
<1>3. ASSUME NEW m \in net, m.peer = f PROVE InStep(m, peer[m.peer])'
    <2>1. InStep(m, peer[f])
        BY <1>1, <1>3 DEF LevelOf
    <2>2. QED
        BY <1>1, <1>2, <1>3, <2>1 DEF InStep, Whole
<1>4. Follows(f, peer[f], net)' /\ up'[f] # "bad_term"
    <2>1. Follows(f, peer[f], net) /\ up[f] # "bad_term"
        BY <1>1 DEF LevelOf
    <2>2. CASE \E m \in net : m.peer = f /\ Moves(m)
        BY <1>1, <2>1, <2>2 DEF Follows, Moves, Whole
    <2>3. CASE last[f] < peer[f].next /\ Level(f)
        BY <1>1, <2>1, <2>3 DEF Follows
    <2>4. CASE /\ NeedsSnapshot(peer[f].next - 1, start[Leader])
               /\ last[f] <= snap[Leader]
        <3>1. last'[f] <= snap'[Leader]
            BY <1>1, <2>4
        <3>2. QED
            BY <1>1, <1>2, <2>1, <2>4, <3>1 DEF Follows
    <2>5. QED
        BY <2>1, <2>2, <2>3, <2>4 DEF Follows
<1>5. QED
    BY <1>3, <1>4 DEF LevelOf

\* Entries arrive.  The follower knows the term before them, because its log
\* ends there or before, and what was compacted is in its snapshot.
LEMMA AppendEntriesLevel ==
    ASSUME IndexInv, CallInv, LevelInv, NEW m \in net,
           HandleAppendEntries(m)
    PROVE  LevelInv'
<1>0. OnlyAt(m.peer) /\ m.peer \in Follower
    BY OnlyAtFollower, LevelTypes
<1> SUFFICES ASSUME errors = 0, m.peer \notin overtaken PROVE LevelOf(m.peer)'
    BY <1>0, MessageLevel DEF LevelInv, OnlyAt
<1>1. PICK f \in Follower : f = m.peer
    BY LevelTypes
<1>2. /\ m \in Messages /\ m.type = "append_req" /\ Typed /\ ServerOrder(f)
      /\ f \in Server /\ f # Leader
      /\ last[f] \in Nat /\ start[f] \in Nat /\ snap[f] \in Nat
    BY <1>1, LevelTypes DEF HandleAppendEntries, IndexInv
<1>3. /\ m.prev \in Nat /\ m.n \in Nat /\ IsReq(m)
    BY <1>2, MessageKinds DEF AppendReqs, IsReq
<1>4. m.live /\ last[f] <= m.prev /\ Level(f)
    BY <1>1, <1>2 DEF LevelInv, LevelOf, InStep
<1>5. m.prev <= last[f] => TermKnown(f, m.prev)
    BY <1>2, <1>3, <1>4 DEF TermKnown, Level, ServerOrder, IndexOrder
<1>6. PICK ok \in BOOLEAN : ok = (m.prev <= last[f])
    <2> DEFINE inside == m.prev <= last[f]
    <2>1. inside \in BOOLEAN
        OBVIOUS
    <2> HIDE DEF inside
    <2>2. PICK ok \in BOOLEAN : ok = inside
        BY <2>1
    <2>3. QED
        BY <2>2 DEF inside
<1>7. PICK nx \in Nat : nx = IF ok THEN m.prev + m.n + 1 ELSE last[f] + 1
    BY <1>2, <1>3
<1>8. PICK r : r = Resp(m, ok, nx)
    OBVIOUS
<1>9. /\ last' = [last EXCEPT ![f] = IF ok THEN Larger(last[f], m.prev + m.n)
                                     ELSE last[f]]
      /\ net' = Answered(m, r) /\ UNCHANGED <<up, peer, start, snap>>
    BY <1>1, <1>5, <1>6, <1>7, <1>8 DEF HandleAppendEntries
<1>10. /\ r.type = "append_resp" /\ r.peer = m.peer /\ r.next = nx /\ r.live
       /\ \A k \in net' : (k \in net /\ k # m) \/ (k = r /\ m.live)
    BY <1>2, <1>3, <1>8, <1>9, AnswerFacts
<1>11. last'[f] + 1 = nx /\ \A t \in Server \ {f} : last'[t] = last[t]
    <2>1. /\ last'[f] = IF ok THEN Larger(last[f], m.prev + m.n) ELSE last[f]
          /\ \A t \in Server \ {f} : last'[t] = last[t]
        BY <1>2, <1>9 DEF Typed
    <2>2. CASE ok
        BY <1>2, <1>3, <1>4, <1>6, <1>7, <2>1, <2>2 DEF Larger
    <2>3. CASE ~ok
        BY <1>2, <1>7, <2>1, <2>3
    <2>4. QED
        BY <2>1, <2>2, <2>3
<1>12. InStep(r, peer[r.peer])'
    BY <1>1, <1>4, <1>9, <1>10, <1>11 DEF InStep, Level, Whole
<1>13. r \in net' /\ net \ {m} \subseteq net'
    BY <1>4, <1>9 DEF Answered
<1>14. Follows(m.peer, peer[m.peer], net)'
    BY <1>10, <1>13 DEF Follows, Moves
<1>15. up'[m.peer] # "bad_term"
    BY <1>1, <1>9 DEF LevelInv, LevelOf
<1>16. QED
    BY <1>1, <1>9, <1>10, <1>11, <1>12, <1>13, <1>14, <1>15, CallLevel

\* A follower's log while a snapshot request is on its way to it: whatever
\* becomes of the request, the next thing it gets is a snapshot.
LEMMA OfferedFollows ==
    ASSUME IndexInv, LevelInv, errors = 0, NEW m \in net, m.type = "snapshot_req",
           m.peer \notin overtaken
    PROVE  /\ m.live /\ last[m.peer] <= m.idx /\ m.idx <= snap[Leader]
           /\ NeedsSnapshot(peer[m.peer].next - 1, start[Leader])
<1>1. InStep(m, peer[m.peer]) /\ MessageFits(m)
    BY LevelTypes DEF LevelInv, LevelOf, IndexInv, RequestsFit
<1>2. QED
    BY <1>1 DEF InStep, MessageFits

\* A block is stored or declined: it was not the last one.
LEMMA SaveBlockLevel ==
    ASSUME IndexInv, CallInv, LevelInv, NEW m \in net, SaveBlock(m)
    PROVE  LevelInv'
<1>0. OnlyAt(m.peer) /\ m.peer \in Follower
    BY OnlyAtFollower, LevelTypes
<1> SUFFICES ASSUME errors = 0, m.peer \notin overtaken PROVE LevelOf(m.peer)'
    BY <1>0, MessageLevel DEF LevelInv, OnlyAt
<1>1. /\ m.type = "snapshot_req" /\ UNCHANGED <<up, peer, start, snap, last>>
    BY DEF SaveBlock
<1>2. /\ Typed /\ IsReq(m) /\ m.offset \in Nat /\ m.peer \in Follower
      /\ m.done = Done(m.offset) /\ last[m.peer] \in Nat /\ m.idx \in Nat
      /\ snap[Leader] \in Nat
    BY <1>1, SnapshotReqFacts, LevelTypes DEF IndexInv, RequestsFit, MessageFits
<1>3. /\ m.live /\ last[m.peer] <= m.idx /\ m.idx <= snap[Leader]
      /\ NeedsSnapshot(peer[m.peer].next - 1, start[Leader])
    BY <1>1, OfferedFollows
<1>4. PICK ok \in BOOLEAN : ok = ~(m.idx <= commit[m.peer])
    OBVIOUS
<1>5. PICK nx \in Nat : nx = IF ok THEN m.offset + 1 ELSE 0
    BY <1>2
<1>6. PICK r : r = Resp(m, ok, nx)
    OBVIOUS
<1>7. net' = Answered(m, r)
    <2>1. CASE ok
        BY <1>4, <1>5, <1>6, <2>1 DEF SaveBlock
    <2>2. CASE ~ok
        BY <1>4, <1>5, <1>6, <2>2 DEF SaveBlock
    <2>3. QED
        BY <2>1, <2>2
<1>8. /\ r.type = "snapshot_resp" /\ r.peer = m.peer /\ r.next = nx /\ r.live
      /\ r.accepted = ok
      /\ \A k \in net' : (k \in net /\ k # m) \/ (k = r /\ m.live)
    BY <1>1, <1>2, <1>6, <1>7, AnswerFacts
<1>9. ~Whole(r)
    <2>1. ok => ~Done(m.offset)
        BY <1>2, <1>4 DEF SaveBlock
    <2>2. QED
        BY <1>2, <1>5, <1>8, <2>1, SnapshotAssumption DEF Whole, Done
<1>10. InStep(r, peer[r.peer])'
    <2>1. ~Whole(r)' /\ r.live
        BY <1>8, <1>9 DEF Whole
    <2>2. QED
        BY <1>8, <2>1 DEF InStep
<1>11. net \ {m} \subseteq net'
    BY <1>7 DEF Answered
<1>12. Follows(m.peer, peer[m.peer], net)'
    <2>1. last[m.peer] <= snap[Leader]
        BY <1>2, <1>3
    <2>2. QED
        BY <1>1, <1>3, <2>1 DEF Follows
<1>13. up'[m.peer] # "bad_term"
    BY <1>1, <1>2 DEF LevelInv, LevelOf
<1>14. QED
    BY <1>1, <1>8, <1>10, <1>11, <1>12, <1>13, CallLevel

\* What compact does to the log of a follower that gets a snapshot.
LEMMA CompactedLevel ==
    ASSUME IndexInv, LevelInv, errors = 0, NEW m \in net,
           m.type = "snapshot_req", m.peer \notin overtaken, CompactTo(m.peer, m.idx)
    PROVE  /\ last'[m.peer] = m.idx /\ start'[m.peer] = m.idx + 1
           /\ \A t \in Server \ {m.peer} :
                  last'[t] = last[t] /\ start'[t] = start[t]
<1>1. /\ Typed /\ m.peer \in Server /\ m.idx \in Nat /\ last[m.peer] \in Nat
    BY SnapshotReqFacts DEF Typed
<1>2. last[m.peer] <= m.idx
    BY OfferedFollows
<1>3. PICK i \in Nat : i = m.idx
    BY <1>1
<1>4. /\ last' = [last EXCEPT ![m.peer] = Larger(last[m.peer], i)]
      /\ start' = [start EXCEPT ![m.peer] = i + 1]
    BY <1>3 DEF CompactTo
<1>5. Larger(last[m.peer], i) = i
    BY <1>1, <1>2, <1>3 DEF Larger
<1>6. QED
    BY <1>1, <1>3, <1>4, <1>5 DEF Typed

\* A snapshot is installed, or the process ends over it.
LEMMA InstallLevel ==
    ASSUME IndexInv, CallInv, LevelInv, NEW m \in net, InstallSnapshot(m)
    PROVE  LevelInv'
<1>0. OnlyAt(m.peer) /\ m.peer \in Follower
    BY OnlyAtFollower, LevelTypes
<1> SUFFICES ASSUME errors = 0, m.peer \notin overtaken PROVE LevelOf(m.peer)'
    BY <1>0, MessageLevel DEF LevelInv, OnlyAt
<1>1. /\ m.type = "snapshot_req" /\ m.idx > commit[m.peer] /\ m.done
    BY DEF InstallSnapshot
<1>2. /\ Typed /\ IsReq(m) /\ m.offset \in Nat /\ m.idx \in Nat
      /\ m.peer \in Follower /\ m.peer \in Server /\ m.peer # Leader
      /\ Leader \in Server /\ start[m.peer] \in Nat /\ commit[m.peer] \in Nat
      /\ last[m.peer] \in Nat /\ snap[Leader] \in Nat /\ Done(m.offset)
    BY <1>1, SnapshotReqFacts, LevelTypes
    DEF Typed, IndexInv, RequestsFit, MessageFits
<1>3. /\ m.live /\ last[m.peer] <= m.idx /\ m.idx <= snap[Leader]
      /\ NeedsSnapshot(peer[m.peer].next - 1, start[Leader])
    BY <1>1, OfferedFollows
<1>4. CASE m.idx >= start[m.peer]
    <2>1. PICK ok \in BOOLEAN : ok = TRUE
        OBVIOUS
    <2>2. PICK nx \in Nat : nx = m.offset + 1
        BY <1>2
    <2>3. PICK r : r = Resp(m, ok, nx)
        OBVIOUS
    <2>4. /\ net' = Answered(m, r) /\ UNCHANGED <<up, peer>>
          /\ CompactTo(m.peer, m.idx)
          /\ snap' = [snap EXCEPT ![m.peer] = m.idx]
        <3>1. ~(m.idx < start[m.peer])
            BY <1>2, <1>4
        <3>2. QED
            BY <2>1, <2>2, <2>3, <3>1 DEF InstallSnapshot, Installed
    <2>5. /\ last'[m.peer] = m.idx /\ start'[m.peer] = m.idx + 1
          /\ \A t \in Server \ {m.peer} :
                 last'[t] = last[t] /\ start'[t] = start[t]
        BY <1>1, <2>4, CompactedLevel
    <2>6. snap'[m.peer] = m.idx /\ \A t \in Server \ {m.peer} : snap'[t] = snap[t]
        BY <1>2, <2>4 DEF Typed
    <2>7. /\ r.type = "snapshot_resp" /\ r.peer = m.peer /\ r.next = nx
          /\ r.live /\ r.accepted
          /\ \A k \in net' : (k \in net /\ k # m) \/ (k = r /\ m.live)
        <3>1. /\ r.type = "snapshot_resp" /\ r.peer = m.peer /\ r.next = nx
              /\ r.live /\ r.accepted = ok
              /\ \A k \in net' : (k \in net /\ k # m) \/ (k = r /\ m.live)
            BY <1>1, <1>2, <2>3, <2>4, AnswerFacts
        <3>2. QED
            BY <2>1, <3>1
    <2>8. Whole(r)
        BY <1>2, <2>2, <2>7, SnapshotAssumption DEF Whole, Done
    <2>9. peer[m.peer].sync.idx = m.idx
        BY <1>1, <1>2, <1>3 DEF CallInv, CallsOf, CallMatches
    <2>10. Level(m.peer)'
        BY <1>2, <2>5, <2>6 DEF Level
    <2>11. InStep(r, peer[r.peer])'
        BY <1>1, <1>2, <2>4, <2>5, <2>7, <2>9, <2>10 DEF InStep
    <2>12. r \in net' /\ net \ {m} \subseteq net'
        BY <1>3, <2>4 DEF Answered
    <2>13. Follows(m.peer, peer[m.peer], net)'
        BY <2>7, <2>8, <2>12 DEF Follows, Moves, Whole
    <2>14. up'[m.peer] # "bad_term"
        BY <1>2, <2>4 DEF LevelInv, LevelOf
    <2>15. QED
        BY <2>4, <2>5, <2>6, <2>7, <2>11, <2>12, <2>13, <2>14, CallLevel
<1>5. CASE ~(m.idx >= start[m.peer])
    <2>1. Exits(m, "bad_install") /\ UNCHANGED <<start, last, snap>>
        BY <1>5 DEF InstallSnapshot
    <2>2. /\ up'[m.peer] = "bad_install" /\ net' = net \ {m}
          /\ \A t \in Server \ {m.peer} : up'[t] = up[t]
          /\ \A g \in Follower :
                 /\ peer'[g].sync = peer[g].sync /\ peer'[g].next = peer[g].next
        BY <1>2, <2>1, ExitsFacts DEF Causes
    <2>3. Follows(m.peer, peer[m.peer], net)'
        <3>1. last[m.peer] <= snap[Leader]
            BY <1>2, <1>3
        <3>2. QED
            BY <1>2, <1>3, <2>1, <2>2, <3>1 DEF Follows
    <2>4. QED
        BY <2>1, <2>2, <2>3, CallLevel
<1>6. QED
    BY <1>4, <1>5

\* A follower dies in an installation: its log may end where its snapshot does
\* not, and a snapshot is what it gets next.
LEMMA CrashLevel ==
    ASSUME IndexInv, CallInv, LevelInv, NEW m \in net, CrashInInstall(m)
    PROVE  LevelInv'
<1>0. OnlyAt(m.peer) /\ m.peer \in Follower
    BY OnlyAtFollower, LevelTypes
<1> SUFFICES ASSUME errors = 0, m.peer \notin overtaken PROVE LevelOf(m.peer)'
    BY <1>0, MessageLevel DEF LevelInv, OnlyAt
<1>1. /\ m.type = "snapshot_req" /\ Restarted(m.peer) /\ net' = net \ {m}
      /\ CompactTo(m.peer, m.idx)
    BY DEF CrashInInstall
<1>2. /\ Typed /\ m.peer \in Follower /\ m.peer \in Server /\ m.peer # Leader
      /\ Leader \in Server /\ m.idx \in Nat
    BY <1>1, SnapshotReqFacts
<1>3. /\ m.idx <= snap[Leader]
      /\ NeedsSnapshot(peer[m.peer].next - 1, start[Leader])
    BY <1>1, OfferedFollows
<1>4. /\ last'[m.peer] = m.idx
      /\ \A t \in Server \ {m.peer} :
             last'[t] = last[t] /\ start'[t] = start[t]
    BY <1>1, CompactedLevel
<1>5. \A t \in Server \ {m.peer} : snap'[t] = snap[t]
    BY <1>2 DEF CrashInInstall, Installed, Typed
<1>6. \A f \in Follower :
          /\ peer'[f].sync = peer[f].sync /\ peer'[f].next = peer[f].next
    <2>1. PICK q : q = [peer[m.peer] EXCEPT !.busy = FALSE]
        OBVIOUS
    <2>2. q.sync = peer[m.peer].sync /\ q.next = peer[m.peer].next
        BY <1>2, <2>1 DEF PeerObjects, Typed
    <2>3. peer' = peer \/ peer' = [peer EXCEPT ![m.peer] = q]
        BY <2>1 DEF CrashInInstall
    <2>4. QED
        BY <1>2, <2>2, <2>3 DEF Typed
<1>7. up'[m.peer] = "up" /\ \A t \in Server \ {m.peer} : up'[t] = up[t]
    BY <1>1, <1>2, RestartedFacts
<1>8. Follows(m.peer, peer[m.peer], net)'
    <2>1. Leader \in Server \ {m.peer}
        BY <1>2
    <2>2. snap'[Leader] = snap[Leader] /\ start'[Leader] = start[Leader]
        BY <1>4, <1>5, <2>1
    <2>3. QED
        BY <1>2, <1>3, <1>4, <1>6, <2>2 DEF Follows
<1>9. QED
    BY <1>1, <1>7, <1>8, CallLevel

\* A peer is set free: its response is the same, and queued.
LEMMA SetFreeLevel ==
    ASSUME IndexInv, CallInv, LevelInv, NEW m \in net, SetFree(m)
    PROVE  LevelInv'
<1>0. OnlyAt(m.peer) /\ m.peer \in Follower
    BY OnlyAtFollower, LevelTypes
<1> SUFFICES ASSUME errors = 0, m.peer \notin overtaken PROVE LevelOf(m.peer)'
    BY <1>0, MessageLevel DEF LevelInv, OnlyAt
<1>1. PICK q : q = QueuedOf(m)
    OBVIOUS
<1>2. /\ m \in Responses /\ q \in Responses /\ q.type = m.type
      /\ q.peer = m.peer /\ q.accepted = m.accepted /\ q.next = m.next /\ q.live
      /\ net' = (net \ {m}) \cup {q}
      /\ \A f \in Follower :
             /\ peer'[f].sync = peer[f].sync /\ peer'[f].next = peer[f].next
    BY <1>1, SetFreeIndexes
<1>3. /\ UNCHANGED <<up, start, last, snap>>
    BY DEF SetFree
<1>4. /\ m.peer \in Follower /\ InStep(m, peer[m.peer])
      /\ Follows(m.peer, peer[m.peer], net) /\ up[m.peer] # "bad_term"
    BY LevelTypes DEF LevelInv, LevelOf
<1>5. q.type # "snapshot_req" /\ q.type # "append_req"
    BY <1>2 DEF Responses
<1>6. InStep(q, peer[q.peer])'
    BY <1>2, <1>3, <1>4, <1>5 DEF InStep, Level, Whole
<1>7. Follows(m.peer, peer[m.peer], net)'
    <2>1. CASE \E k \in net : k.peer = m.peer /\ Moves(k)
        <3>1. PICK k \in net : k.peer = m.peer /\ Moves(k)
            BY <2>1
        <3>2. CASE k = m
            BY <1>2, <3>1, <3>2 DEF Follows, Moves, Whole
        <3>3. CASE k # m
            BY <1>2, <3>1, <3>3 DEF Follows, Moves, Whole
        <3>4. QED
            BY <3>2, <3>3
    <2>2. CASE ~\E k \in net : k.peer = m.peer /\ Moves(k)
        BY <1>2, <1>3, <1>4, <2>2 DEF Follows, Level
    <2>3. QED
        BY <2>1, <2>2
<1>8. net \ {m} \subseteq net' /\ \A k \in net' : (k \in net /\ k # m) \/ k = q
    BY <1>2
<1>9. QED
    BY <1>2, <1>3, <1>4, <1>6, <1>7, <1>8, CallLevel

\* The commit thread moves no log and no snapshot.
LEMMA StartOrFinishLevel ==
    ASSUME IndexInv, LevelInv, NEW s \in Server, CommitInBg(s)
    PROVE  LevelInv'
<1>1. /\ UNCHANGED <<start, last, snap, peer, net, errors, overtaken>> /\ IndexInv'
    BY StartEntryIndexes, FinishEntryIndexes
    DEF CommitInBg, StartEntry, FinishEntry
<1>2. \A f \in Follower : up'[f] = up[f] \/ up'[f] # "bad_term"
    <2>1. up \in [Server -> Causes] /\ \A f \in Follower : f \in Server
        BY LevelTypes DEF IndexInv, Typed
    <2>2. up' = up \/ up' = [up EXCEPT ![s] = "bad_commit"]
        BY DEF CommitInBg, StartEntry, FinishEntry
    <2>3. QED
        BY <2>1, <2>2
<1>3. start[Leader] <= start'[Leader] /\ snap[Leader] <= snap'[Leader]
    BY <1>1, LevelTypes
<1>4. \A f \in Follower : Level(f) => Level(f)'
    BY <1>1 DEF Level
<1>5. QED
    BY <1>1, <1>2, <1>3, <1>4, BackgroundLevel

\* The last snapshot's index only grows.
LEMMA CreateSnapshotLevel ==
    ASSUME IndexInv, LevelInv, NEW s \in Server, CreateSnapshot(s)
    PROVE  LevelInv'
<1>1. /\ UNCHANGED <<up, start, last, peer, net, errors, overtaken>> /\ IndexInv'
    BY CreateSnapshotIndexes DEF CreateSnapshot
<1>2. ASSUME NEW t \in Server PROVE snap[t] <= snap'[t]
    <2>1. /\ snap \in [Server -> Nat] /\ snap[t] \in Nat /\ snap[s] \in Nat
          /\ making[s].idx \in Nat
        BY DEF IndexInv, Typed
    <2>2. CASE snap' = snap
        BY <2>1, <2>2
    <2>3. CASE snap' = [snap EXCEPT ![s] = Larger(@, making[s].idx)]
        <3>1. snap'[t] = IF t = s THEN Larger(snap[s], making[s].idx) ELSE snap[t]
            BY <2>1, <2>3
        <3>2. QED
            BY <2>1, <3>1 DEF Larger
    <2>4. QED
        BY <2>2, <2>3 DEF CreateSnapshot
<1>3. start[Leader] <= start'[Leader] /\ snap[Leader] <= snap'[Leader]
    BY <1>1, <1>2, LevelTypes
<1>4. ASSUME NEW f \in Follower PROVE Level(f) => Level(f)'
    <2>1. /\ f \in Server /\ start[f] \in Nat /\ snap[f] \in Nat
          /\ snap'[f] \in Nat
        BY <1>1, LevelTypes DEF IndexInv, Typed
    <2>2. QED
        BY <1>1, <1>2, <2>1 DEF Level
<1>5. QED
    BY <1>1, <1>3, <1>4, BackgroundLevel

\* A log is compacted to a snapshot that was made.
LEMMA SnapshotCompletedLevel ==
    ASSUME IndexInv, LevelInv, NEW s \in Server, OnSnapshotCompleted(s)
    PROVE  LevelInv'
<1>1. /\ IndexInv' /\ UNCHANGED last
      /\ start' = [start EXCEPT ![s] = making[s].idx + 1]
      /\ start'[s] >= start[s]
    BY SnapshotCompletedIndexes
<1>2. /\ making[s].done /\ UNCHANGED <<up, snap, peer, net, errors, overtaken>>
    BY DEF OnSnapshotCompleted
<1>3. /\ start \in [Server -> Nat] /\ snap \in [Server -> Nat]
      /\ making[s].idx \in Nat /\ making[s].idx <= snap[s]
      /\ Leader \in Server /\ start[Leader] \in Nat /\ snap[Leader] \in Nat
      /\ start' \in [Server -> Nat]
    BY <1>1, <1>2, LevelTypes DEF IndexInv, Typed, ServerOrder, IndexOrder
<1>4. start[Leader] <= start'[Leader] /\ snap[Leader] <= snap'[Leader]
    BY <1>1, <1>2, <1>3
<1>5. ASSUME NEW f \in Follower PROVE Level(f) => Level(f)'
    <2>1. f \in Server
        BY LevelTypes
    <2>2. CASE f = s
        BY <1>1, <1>2, <1>3, <2>1, <2>2 DEF Level
    <2>3. CASE f # s
        BY <1>1, <1>2, <1>3, <2>1, <2>3 DEF Level
    <2>4. QED
        BY <2>2, <2>3
<1>6. QED
    BY <1>1, <1>2, <1>4, <1>5, BackgroundLevel

\* A restart leaves logs and snapshots alone.
LEMMA RestartLevel ==
    ASSUME IndexInv, LevelInv, NEW f \in Follower, Restart(f)
    PROVE  LevelInv'
<1>1. /\ UNCHANGED <<start, last, snap, peer, net, errors, overtaken>> /\ Restarted(f)
      /\ IndexInv' /\ Typed /\ f \in Server
    BY RestartIndexes, LevelTypes DEF Restart, IndexInv
<1>2. \A g \in Follower : up'[g] = up[g] \/ up'[g] # "bad_term"
    BY <1>1, LevelTypes, RestartedFacts
<1>3. start[Leader] <= start'[Leader] /\ snap[Leader] <= snap'[Leader]
    BY <1>1, LevelTypes
<1>4. \A g \in Follower : Level(g) => Level(g)'
    BY <1>1 DEF Level
<1>5. QED
    BY <1>1, <1>2, <1>3, <1>4, BackgroundLevel

\* Every step; a lost message ends the promise.
LEMMA NextLevel ==
    ASSUME IndexInv, CallInv, LevelInv, [Next]_vars
    PROVE  LevelInv'
<1>1. CASE UNCHANGED vars
    BY <1>1 DEF vars, LevelInv, LevelOf, InStep, Follows, Level, Moves, Whole
<1>2. ASSUME NEW m \in net, Receive(m) PROVE LevelInv'
    BY <1>2, AppendEntriesLevel, SaveBlockLevel, InstallLevel, SetFreeLevel,
       AcceptedLevel, RefusedLevel, BlockLevel DEF Receive
<1>3. ASSUME NEW m \in net, RpcError(m) PROVE LevelInv'
    <2>1. errors \in Nat /\ errors' = errors + 1
        BY <1>3 DEF IndexInv, Typed, RpcError
    <2>2. errors' # 0
        BY <2>1
    <2>3. QED
        BY <2>2 DEF LevelInv
<1>4. ASSUME NEW s \in Server, Compaction(s) PROVE LevelInv'
    BY <1>4, CreateSnapshotLevel, SnapshotCompletedLevel DEF Compaction
<1>5. QED
    BY <1>1, <1>2, <1>3, <1>4, CrashLevel, CliReqLevel, HbTimeoutLevel,
       RestartLevel, StartOrFinishLevel DEF Next

\* Exits are explained: a leader never misses the snapshot somebody needs; its
\* term_for_log fails only between the making of a snapshot and its compaction,
\* and meets an index beyond the log only after a request overtook a callback;
\* a follower's fails only after that or after an RPC was lost; and an
\* installation or the commit thread fails only after one of the mishaps that
\* marks records.
THEOREM EveryExitIsExplained == Spec => []ExitsExplained
<1>1. Init => IndexInv /\ CallInv /\ LevelInv
    BY InitIndexes, InitCalls, InitLevel
<1>2. IndexInv /\ CallInv /\ LevelInv /\ [Next]_vars =>
          (IndexInv /\ CallInv /\ LevelInv)'
    BY NextIndexes, NextCalls, NextLevel
<1>3. IndexInv /\ CallInv /\ LevelInv => ExitsExplained
    <2> SUFFICES ASSUME IndexInv, CallInv, LevelInv PROVE ExitsExplained
        OBVIOUS
    <2>1. \A s \in Server :
              /\ up[s] # "no_snapshot"
              /\ up[s] = "too_large" => s = Leader /\ overtaken # {}
        BY DEF CallInv, IndexInv, ServerOrder, ExitOrder
    <2>2. up[Leader] = "bad_term" => making[Leader].done
        BY DEF IndexInv, LeaderSnapshot
    <2>3. ASSUME NEW f \in Follower, up[f] = "bad_term", f \notin overtaken
          PROVE  errors > 0
        <3>1. errors \in Nat /\ errors # 0
            BY <2>3 DEF LevelInv, LevelOf, IndexInv, Typed
        <3>2. QED
            BY <3>1
    <2>4. ASSUME NEW f \in Follower, up[f] = "bad_install"
          PROVE  \E why \in {"behind", "torn"} : <<f, why>> \in marks
        BY <2>4, LevelTypes DEF IndexInv, ServerOrder, ExitOrder, Marked
    <2>5. ASSUME NEW s \in Server, up[s] = "bad_commit"
          PROVE  \E why \in {"raced", "behind", "torn"} : <<s, why>> \in marks
        BY <2>5 DEF IndexInv, ServerOrder, ExitOrder, Marked
    <2>6. QED
        BY <2>1, <2>2, <2>3, <2>4, <2>5 DEF ExitsExplained
<1>4. QED
    BY <1>1, <1>2, <1>3, PTL DEF Spec
=============================================================================
