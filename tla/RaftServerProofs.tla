-------------------------- MODULE RaftServerProofs --------------------------
(***************************************************************************)
(* Machine-checked facts about RaftServer, for every cluster and every     *)
(* value of the bounds.                                                    *)
(***************************************************************************)
EXTENDS RaftServer, FiniteSetTheorems, WellFoundedInduction, TLAPS

-----------------------------------------------------------------------------
(* Arithmetic and the operators of the model. *)

\* Every set of naturals with an element has a least one.
LEMMA LeastNatural ==
    ASSUME NEW T \in SUBSET Nat, T # {}
    PROVE  \E x \in T : \A y \in T : x <= y
<1> DEFINE Less == {ss \in Nat \X Nat : ss[1] < ss[2]}
<1>1. OpToRel(<, Nat) = Less
    BY Zenon DEF OpToRel
<1>2. IsWellFoundedOn(Less, Nat)
    BY <1>1, NatLessThanWellFounded, Zenon
<1> HIDE DEF Less
<1>3. \E x \in T : \A y \in T : ~ (<<y, x>> \in Less)
    BY <1>2, WFMin, Zenon
<1>4. \A x, y \in Nat : x < y => <<x, y>> \in Less
    BY SMT DEF Less
<1>5. PICK x \in T : \A y \in T : ~ (<<y, x>> \in Less)
    BY <1>3, Zenon
<1>6. ASSUME NEW y \in T PROVE x <= y
    <2>1. x \in Nat /\ y \in Nat
        OBVIOUS
    <2>2. ~ (y < x)
        BY <1>4, <1>5, <2>1, Zenon
    <2>3. QED
        BY <2>1, <2>2
<1>7. QED
    BY <1>6

\* The scan of handle_append_entries stops, within the log and the entries.
LEMMA OverlapBounds ==
    ASSUME NEW lg \in Seq(LogEntry), NEW idx \in Nat, idx <= Len(lg),
           NEW es \in Seq(LogEntry)
    PROVE  /\ Overlap(lg, idx, es) \in 0..Len(es)
           /\ idx + Overlap(lg, idx, es) <= Len(lg)
<1> DEFINE S == Stops(lg, idx, es)
           reach == IF Len(es) <= Len(lg) - idx THEN Len(es) ELSE Len(lg) - idx
<1>1. S \in SUBSET Nat
    BY DEF Stops
<1>2. reach \in S
    BY DEF Stops
<1>3. \E k \in S : \A n \in S : k <= n
    BY <1>1, <1>2, LeastNatural
<1>4. Overlap(lg, idx, es) \in S /\ \A n \in S : Overlap(lg, idx, es) <= n
    BY <1>3 DEF Overlap
<1>5. Overlap(lg, idx, es) <= reach
    BY <1>2, <1>4
<1>6. QED
    BY <1>4, <1>5 DEF Stops

\* What the log store holds after handle_append_entries is a log.
LEMMA WriteEntriesType ==
    ASSUME NEW lg \in Seq(LogEntry), NEW idx \in Nat, idx <= Len(lg),
           NEW es \in Seq(LogEntry)
    PROVE  WriteEntries(lg, idx, es) \in Seq(LogEntry)
<1> DEFINE k == Overlap(lg, idx, es)
<1>1. k \in 0..Len(es) /\ idx + k <= Len(lg)
    BY OverlapBounds
<1> HIDE DEF k
<1>2. SubSeq(lg, 1, idx + k) \in Seq(LogEntry)
    BY <1>1
<1>3. SubSeq(es, k + 1, Len(es)) \in Seq(LogEntry)
    BY <1>1
<1>4. SubSeq(lg, 1, idx + k) \o SubSeq(es, k + 1, Len(es)) \in Seq(LogEntry)
    BY <1>2, <1>3
<1>5. QED
    BY <1>4 DEF WriteEntries, k

\* Some server's index is exceeded by no majority and reached by one: the
\* position handle_append_entries_resp reads in the sorted indexes exists.
LEMMA MedianExists ==
    ASSUME NEW f \in [Server -> Nat]
    PROVE  \E j \in Server :
               /\ ~IsMajority(Cardinality({l \in Server : f[l] > f[j]}))
               /\ IsMajority(Cardinality({l \in Server : f[l] >= f[j]}))
<1> DEFINE Above(j) == {l \in Server : f[l] > f[j]}
           From(j) == {l \in Server : f[l] >= f[j]}
           D == {j \in Server : IsMajority(Cardinality(From(j)))}
           Sizes == {Cardinality(From(j)) : j \in D}
<1>1. ClusterSize \in Nat \ {0}
    BY ServerAssumption, FS_CardinalityType, FS_EmptySet DEF ClusterSize
<1>2. ASSUME NEW S \in SUBSET Server, S # {}
      PROVE  \E l \in S : \A k \in S : f[l] <= f[k]
    <2> DEFINE T == {f[l] : l \in S}
    <2>1. T \in SUBSET Nat /\ T # {}
        BY <1>2
    <2>2. PICK x \in T : \A y \in T : x <= y
        BY <2>1, LeastNatural
    <2>3. QED
        BY <2>2
<1>3. \A S \in SUBSET Server : IsFiniteSet(S) /\ Cardinality(S) \in Nat
    BY ServerAssumption, FS_Subset, FS_CardinalityType
<1>4. D # {}
    <2>1. PICK l \in Server : \A k \in Server : f[l] <= f[k]
        BY <1>2, ServerAssumption
    <2>2. From(l) = Server
        BY <2>1
    <2>3. IsMajority(Cardinality(From(l)))
        BY <1>1, <2>2 DEF IsMajority, ClusterSize
    <2>4. QED
        BY <2>3
<1>5. PICK j \in D : \A k \in D : Cardinality(From(j)) <= Cardinality(From(k))
    <2>1. Sizes \in SUBSET Nat /\ Sizes # {}
        BY <1>3, <1>4
    <2>2. PICK x \in Sizes : \A y \in Sizes : x <= y
        BY <2>1, LeastNatural
    <2>3. QED
        BY <2>2
<1>6. ~IsMajority(Cardinality(Above(j)))
    <2>1. SUFFICES ASSUME IsMajority(Cardinality(Above(j))) PROVE FALSE
        OBVIOUS
    <2>2. Above(j) # {}
        BY <1>1, <2>1, FS_EmptySet DEF IsMajority
    <2>3. PICK l \in Above(j) : \A k \in Above(j) : f[l] <= f[k]
        BY <1>2, <2>2
    <2>4. From(l) = Above(j)
        <3>1. From(l) \subseteq Above(j)
            BY <2>3
        <3>2. Above(j) \subseteq From(l)
            BY <2>3
        <3>3. QED
            BY <3>1, <3>2
    <2>5. l \in D
        BY <2>1, <2>4
    <2>6. Above(j) \subseteq From(j) /\ j \in From(j) /\ j \notin Above(j)
        OBVIOUS
    <2>7. Cardinality(Above(j)) < Cardinality(From(j))
        <3>1. From(j) \in SUBSET Server
            OBVIOUS
        <3> HIDE DEF From, Above
        <3>2. IsFiniteSet(From(j))
            BY <3>1, <1>3
        <3>3. /\ Cardinality(Above(j)) <= Cardinality(From(j))
              /\ Cardinality(From(j)) = Cardinality(Above(j)) => From(j) = Above(j)
            BY <3>2, <2>6, FS_Subset
        <3>4. Cardinality(From(j)) \in Nat /\ Cardinality(Above(j)) \in Nat
            BY <3>2, <2>6, FS_Subset, FS_CardinalityType
        <3>5. QED
            BY <3>3, <3>4, <2>6
    <2>8. Cardinality(From(j)) <= Cardinality(Above(j))
        BY <1>5, <2>4, <2>5
    <2>9. Cardinality(From(j)) \in Nat /\ Cardinality(Above(j)) \in Nat
        BY <1>3
    <2>10. QED
        BY <2>7, <2>8, <2>9
<1>7. QED
    BY <1>6

\* The index handle_append_entries_resp commits is a log index that a majority
\* has reached.
LEMMA MajorityMatchedType ==
    ASSUME NEW i \in Server, NEW lg \in Seq(LogEntry),
           NEW ps \in [Server -> Peer]
    PROVE  /\ MajorityMatched(i, lg, ps) \in Nat
           /\ IsMajority(Cardinality({j \in Server :
                  (IF j = i THEN Len(lg) ELSE ps[j].matched_idx)
                      >= MajorityMatched(i, lg, ps)}))
<1> DEFINE f == [j \in Server |->
                    IF j = i THEN Len(lg) ELSE ps[j].matched_idx]
<1>1. f \in [Server -> Nat]
    BY DEF Peer
<1>2. PICK j \in Server :
          /\ ~IsMajority(Cardinality({l \in Server : f[l] > f[j]}))
          /\ IsMajority(Cardinality({l \in Server : f[l] >= f[j]}))
    BY <1>1, MedianExists
<1> DEFINE Matched(l) == IF l = i THEN Len(lg) ELSE ps[l].matched_idx
           V == {Matched(l) : l \in Server}
           Mid(x) == /\ ~IsMajority(Cardinality({l \in Server : Matched(l) > x}))
                     /\ IsMajority(Cardinality({l \in Server : Matched(l) >= x}))
<1>3. \A l \in Server : f[l] = Matched(l)
    OBVIOUS
<1>4. Mid(f[j])
    <2>1. {l \in Server : f[l] > f[j]} = {l \in Server : Matched(l) > f[j]}
        BY <1>3
    <2>2. {l \in Server : f[l] >= f[j]} = {l \in Server : Matched(l) >= f[j]}
        BY <1>3
    <2>3. QED
        BY <1>2, <2>1, <2>2
<1>5. f[j] \in V
    BY <1>3
<1>6. V \subseteq Nat
    BY <1>1, <1>3
<1>7. MajorityMatched(i, lg, ps) = CHOOSE x \in V : Mid(x)
    BY DEF MajorityMatched
<1> HIDE DEF V, Mid, f
<1>8. (CHOOSE x \in V : Mid(x)) \in V /\ Mid(CHOOSE x \in V : Mid(x))
    BY <1>4, <1>5
<1>9. Mid(MajorityMatched(i, lg, ps))
    BY <1>7, <1>8
<1>10. IsMajority(Cardinality({l \in Server :
           (IF l = i THEN Len(lg) ELSE ps[l].matched_idx)
               >= MajorityMatched(i, lg, ps)}))
    BY <1>9 DEF Mid
<1>11. QED
    BY <1>6, <1>7, <1>8, <1>10

-----------------------------------------------------------------------------
(* Messages. *)

\* The type field tells which kind of message a record is.
LEMMA MessageKinds ==
    ASSUME NEW m \in Messages
    PROVE  /\ m.type = "vote_req" => m \in VoteReqs
           /\ m.type = "append_req" => m \in AppendReqs
           /\ m.type = "vote_resp" => m \in VoteResps
           /\ m.type = "append_resp" => m \in AppendResps
           /\ m.type \in {"vote_req", "append_req", "vote_resp", "append_resp"}
           /\ m.term \in Nat /\ m.src \in Server /\ m.dst \in Server
BY DEF Messages, VoteReqs, AppendReqs, VoteResps, AppendResps

\* A request nobody waits for is still a request.
LEMMA OrphanType ==
    ASSUME NEW m \in Messages, IsReq(m)
    PROVE  [m EXCEPT !.live = FALSE] \in Messages
<1>1. CASE m.type = "vote_req"
    <2>1. m \in VoteReqs
        BY <1>1, MessageKinds
    <2>2. [m EXCEPT !.live = FALSE] \in VoteReqs
        BY <2>1 DEF VoteReqs
    <2>3. QED
        BY <2>2 DEF Messages
<1>2. CASE m.type = "append_req"
    <2>1. m \in AppendReqs
        BY <1>2, MessageKinds
    <2>2. [m EXCEPT !.live = FALSE] \in AppendReqs
        BY <2>1 DEF AppendReqs
    <2>3. QED
        BY <2>2 DEF Messages
<1>3. QED
    BY <1>1, <1>2 DEF IsReq

\* What the end of a process leaves under way.
LEMMA AbandonType ==
    ASSUME NEW i, NEW ms \in SUBSET Messages
    PROVE  Abandon(i, ms) \in SUBSET Messages
BY OrphanType DEF Abandon

\* create_append_entries_req makes a well-formed request.
LEMMA AppendReqType ==
    ASSUME NEW i \in Server, NEW j \in Server, NEW term \in Nat,
           NEW lg \in Seq(LogEntry), NEW p \in Peer, NEW ci \in Nat,
           ~TooLarge(p, lg)
    PROVE  AppendReq(i, j, term, lg, p, ci) \in Messages
<1> DEFINE last == NextLogIdx(p, lg) - 1
           end == IF last + MaxAppendSize < Len(lg)
                  THEN last + MaxAppendSize ELSE Len(lg)
<1>1. last \in Nat /\ last <= Len(lg)
    BY DEF NextLogIdx, NextSlot, TooLarge, Peer
<1> HIDE DEF last
<1>2. end \in Nat /\ end <= Len(lg)
    BY <1>1, NumberAssumption
<1> HIDE DEF end
<1>3. SubSeq(lg, last + 1, end) \in Seq(LogEntry)
    BY <1>1, <1>2
<1>4. TermForLog(lg, last) \in Nat
    <2>1. CASE last = 0
        BY <2>1 DEF TermForLog
    <2>2. CASE last # 0
        <3>1. lg[last] \in LogEntry
            BY <1>1, <2>2
        <3>2. QED
            BY <3>1, <2>2 DEF TermForLog, LogEntry
    <2>3. QED
        BY <2>1, <2>2
<1>5. AppendReq(i, j, term, lg, p, ci) =
          [type |-> "append_req", term |-> term, src |-> i, dst |-> j,
           last_log_term |-> TermForLog(lg, last), last_log_idx |-> last,
           entries |-> SubSeq(lg, last + 1, end),
           commit_idx |-> ci, live |-> TRUE]
    BY DEF AppendReq, last, end
<1>6. AppendReq(i, j, term, lg, p, ci) \in AppendReqs
    BY <1>1, <1>3, <1>4, <1>5 DEF AppendReqs
<1>7. QED
    BY <1>6 DEF Messages

\* The last entry of a log has a term.
LEMMA LastTermType ==
    ASSUME NEW lg \in Seq(LogEntry)
    PROVE  LastTerm(lg) \in Nat
<1>1. CASE Len(lg) = 0
    BY <1>1 DEF LastTerm, TermForLog
<1>2. CASE Len(lg) # 0
    <2>1. lg[Len(lg)] \in LogEntry
        BY <1>2
    <2>2. QED
        BY <2>1, <1>2 DEF LastTerm, TermForLog, LogEntry
<1>3. QED
    BY <1>1, <1>2

\* request_vote makes well-formed requests.
LEMMA VoteReqType ==
    ASSUME NEW i \in Server, NEW j \in Server, NEW term \in Nat,
           NEW lg \in Seq(LogEntry)
    PROVE  VoteReq(i, j, term, lg) \in Messages
<1>1. LastTerm(lg) \in Nat /\ Len(lg) \in Nat
    BY LastTermType
<1>2. VoteReq(i, j, term, lg) \in VoteReqs
    BY <1>1 DEF VoteReq, VoteReqs
<1>3. QED
    BY <1>2 DEF Messages

\* Sending to peers keeps the types of the variables it changes.
LEMMA RequestAppendEntriesType ==
    ASSUME TypeOK, NEW i \in Server, NEW dests \in SUBSET Server,
           NEW r \in Roles, NEW term \in Nat, NEW lg \in Seq(LogEntry),
           NEW ci \in Nat, NEW ps \in [Server -> Peer],
           NEW ms \in SUBSET Messages,
           RequestAppendEntries(i, dests, r, term, lg, ci, ps, ms)
    PROVE  /\ role' \in [Server -> Roles]
           /\ peers' \in [Server -> [Server -> Peer]]
           /\ net' \in SUBSET Messages
<1> DEFINE free == {j \in dests : ~ps[j].busy}
           bad == {j \in free : TooLarge(ps[j], lg)}
           Req(j) == AppendReq(i, j, term, lg, ps[j], ci)
           sentTo(j) == [ps[j] EXCEPT !.next_log_idx = NextLogIdx(ps[j], lg),
                                      !.busy = TRUE]
<1>1. \A j \in free \ bad : Req(j) \in Messages
    BY AppendReqType
<1>2. CASE bad = {}
    <2>1. /\ role' = [role EXCEPT ![i] = r]
          /\ peers' = [peers EXCEPT ![i] = [j \in Server |->
                 IF j \in free THEN sentTo(j) ELSE ps[j]]]
          /\ net' = ms \cup {Req(j) : j \in free}
        BY <1>2 DEF RequestAppendEntries
    <2>2. ASSUME NEW j \in Server
          PROVE  sentTo(j) \in Peer
        <3>1. NextLogIdx(ps[j], lg) \in Nat
            BY DEF NextLogIdx, NextSlot, Peer
        <3>2. QED
            BY <3>1 DEF Peer
    <2>3. peers' \in [Server -> [Server -> Peer]]
        BY <2>1, <2>2 DEF TypeOK
    <2>4. net' \in SUBSET Messages
        BY <1>1, <1>2, <2>1
    <2>5. role' \in [Server -> Roles]
        BY <2>1 DEF TypeOK
    <2>6. QED
        BY <2>3, <2>4, <2>5
<1>3. CASE bad # {}
    <2>1. /\ role' = [role EXCEPT ![i] = "exited"]
          /\ peers' = [peers EXCEPT ![i] = ps]
          /\ \E sent \in SUBSET (free \ bad) :
                 net' = Abandon(i, ms \cup {Req(j) : j \in sent})
        BY <1>3 DEF RequestAppendEntries
    <2>2. PICK sent \in SUBSET (free \ bad) :
              net' = Abandon(i, ms \cup {Req(j) : j \in sent})
        BY <2>1
    <2>3. ms \cup {Req(j) : j \in sent} \in SUBSET Messages
        BY <1>1
    <2>4. net' \in SUBSET Messages
        BY <2>2, <2>3, AbandonType
    <2>5. role' \in [Server -> Roles] /\ peers' \in [Server -> [Server -> Peer]]
        BY <2>1 DEF TypeOK, Roles
    <2>6. QED
        BY <2>4, <2>5
<1>4. QED
    BY <1>2, <1>3

\* What a new leader sends: it may append its configuration first, and it
\* marks no peer busy itself.
LEMMA BecomeLeaderSends ==
    ASSUME TypeOK, NEW i \in Server, NEW term \in Nat, NEW ms,
           BecomeLeader(i, term, ms)
    PROVE  \E lg \in Seq(LogEntry), ps \in [Server -> Peer] :
               /\ lg = log[i] \/ \E e \in LogEntry : lg = Append(log[i], e)
               /\ log' = [log EXCEPT ![i] = lg]
               /\ quick_commit' = [quick_commit EXCEPT ![i] =
                      IF Peers(i) = {} THEN Larger(@, Len(lg)) ELSE @]
               /\ RequestAppendEntries(i, Peers(i), "leader", term, lg,
                                       quick_commit[i], ps, ms)
               /\ \A j \in Server :
                      /\ ps[j].busy => peers[i][j].busy
                      /\ ps[j].matched_idx = peers[i][j].matched_idx
<1> DEFINE slot == NextSlot(log[i])
           fresh == conf[i].idx = 0
           entry == [term |-> term, type |-> "conf", val |-> slot]
           lg == IF fresh THEN Append(log[i], entry) ELSE log[i]
           ps == [j \in Server |->
                     IF j = i THEN peers[i][j]
                     ELSE [peers[i][j] EXCEPT !.next_log_idx = slot,
                                              !.busy = FALSE]]
<1>1. /\ log' = [log EXCEPT ![i] = lg]
      /\ quick_commit' = [quick_commit EXCEPT ![i] =
             IF Peers(i) = {} THEN Larger(@, Len(lg)) ELSE @]
      /\ RequestAppendEntries(i, Peers(i), "leader", term, lg,
                              quick_commit[i], ps, ms)
    BY DEF BecomeLeader
<1>2. log[i] \in Seq(LogEntry) /\ slot \in Nat
    BY DEF TypeOK, NextSlot
<1> HIDE DEF slot
<1>3. entry \in LogEntry
    BY <1>2 DEF LogEntry
<1> HIDE DEF entry
<1>4. /\ lg \in Seq(LogEntry)
      /\ lg = log[i] \/ \E e \in LogEntry : lg = Append(log[i], e)
    BY <1>2, <1>3
<1> HIDE DEF lg
<1> DEFINE p(j) == [peers[i][j] EXCEPT !.next_log_idx = slot, !.busy = FALSE]
<1>5. ASSUME NEW j \in Server
      PROVE  /\ p(j) \in Peer /\ ~p(j).busy
             /\ p(j).matched_idx = peers[i][j].matched_idx
    <2>1. peers[i][j] \in Peer
        BY DEF TypeOK
    <2>2. QED
        BY <1>2, <2>1 DEF Peer
<1>6. peers[i] \in [Server -> Peer]
    BY DEF TypeOK
<1>7. ps \in [Server -> Peer]
    BY <1>5, <1>6
<1>8. \A j \in Server : /\ ps[j].busy => peers[i][j].busy
                        /\ ps[j].matched_idx = peers[i][j].matched_idx
    BY <1>5
<1> HIDE DEF ps, p
<1>9. QED
    BY <1>1, <1>4, <1>7, <1>8

\* A new leader, with its log, configuration and peers, is well-formed.
LEMMA BecomeLeaderType ==
    ASSUME TypeOK, NEW i \in Server, NEW term \in Nat,
           NEW ms \in SUBSET Messages, BecomeLeader(i, term, ms)
    PROVE  /\ role' \in [Server -> Roles]
           /\ peers' \in [Server -> [Server -> Peer]]
           /\ net' \in SUBSET Messages
           /\ leader' \in [Server -> Server \cup {Nobody}]
           /\ log' \in [Server -> Seq(LogEntry)]
           /\ conf' \in [Server -> Conf]
           /\ quick_commit' \in [Server -> Nat]
<1>1. PICK lg \in Seq(LogEntry), ps \in [Server -> Peer] :
          /\ log' = [log EXCEPT ![i] = lg]
          /\ quick_commit' = [quick_commit EXCEPT ![i] =
                 IF Peers(i) = {} THEN Larger(@, Len(lg)) ELSE @]
          /\ RequestAppendEntries(i, Peers(i), "leader", term, lg,
                                  quick_commit[i], ps, ms)
    BY BecomeLeaderSends
<1>2. quick_commit[i] \in Nat /\ Peers(i) \in SUBSET Server /\ "leader" \in Roles
    BY DEF TypeOK, Peers, Roles
<1>3. /\ role' \in [Server -> Roles]
      /\ peers' \in [Server -> [Server -> Peer]]
      /\ net' \in SUBSET Messages
    BY <1>1, <1>2, RequestAppendEntriesType
<1>4. leader' \in [Server -> Server \cup {Nobody}]
    BY DEF BecomeLeader, TypeOK
<1>5. log' \in [Server -> Seq(LogEntry)]
    BY <1>1 DEF TypeOK
<1>6. conf' \in [Server -> Conf]
    <2>1. PICK slot \in Nat : slot = NextSlot(log[i])
        BY DEF TypeOK, NextSlot
    <2>2. conf' = IF conf[i].idx = 0
                  THEN [conf EXCEPT ![i].idx = slot, ![i].changing = TRUE]
                  ELSE conf
        BY <2>1 DEF BecomeLeader
    <2>3. QED
        BY <2>2 DEF TypeOK, Conf
<1>7. quick_commit' \in [Server -> Nat]
    <2>1. Len(lg) \in Nat
        OBVIOUS
    <2>2. QED
        BY <1>1, <2>1 DEF TypeOK, Larger
<1>8. QED
    BY <1>3, <1>4, <1>5, <1>6, <1>7

\* What update_term makes of a server is well-formed.
LEMMA UpdateTermType ==
    ASSUME TypeOK, NEW i \in Server, NEW term \in Nat
    PROVE  /\ StateAt(i, term) \in SrvState
           /\ SavedAt(i, term) \in SrvState
           /\ RoleAt(i, term) \in Roles
           /\ ElectionAt(i, term) \in Election
           /\ StaleAt(i, term) \in SUBSET Server
<1>1. StateAt(i, term) \in SrvState
    <2>1. state[i] \in SrvState
        BY DEF TypeOK
    <2>2. [state[i] EXCEPT !.term = term, !.voted_for = Nobody] \in SrvState
        BY <2>1 DEF SrvState
    <2>3. QED
        BY <2>1, <2>2 DEF StateAt
<1>2. SavedAt(i, term) \in SrvState
    BY <1>1 DEF TypeOK, SavedAt
<1>3. RoleAt(i, term) \in Roles
    BY DEF TypeOK, RoleAt, Roles
<1>4. ElectionAt(i, term) \in Election
    BY DEF TypeOK, ElectionAt, Election, NoVotes
<1>5. StaleAt(i, term) \in SUBSET Server
    BY DEF TypeOK, StaleAt
<1>6. QED
    BY <1>1, <1>2, <1>3, <1>4, <1>5

\* The same for the sender-following part of handle_append_entries.
LEMMA FollowSenderType ==
    ASSUME TypeOK, NEW m \in Messages, FollowSender(m)
    PROVE  /\ state' \in [Server -> SrvState]
           /\ saved' \in [Server -> SrvState]
           /\ role' \in [Server -> Roles]
           /\ election' \in [Server -> Election]
           /\ stale' \in SUBSET Server
<1> DEFINE i == m.dst
<1>1. i \in Server /\ m.term \in Nat
    BY MessageKinds
<1>2. /\ StateAt(i, m.term) \in SrvState
      /\ SavedAt(i, m.term) \in SrvState
      /\ RoleAt(i, m.term) \in Roles
      /\ ElectionAt(i, m.term) \in Election
      /\ StaleAt(i, m.term) \in SUBSET Server
    BY <1>1, UpdateTermType
<1>3. "follower" \in Roles
    BY DEF Roles
<1>4. QED
    BY <1>1, <1>2, <1>3 DEF FollowSender, TypeOK

\* An answer joins the messages under way.
LEMMA AnsweredType ==
    ASSUME TypeOK, NEW m \in net, NEW resp \in Messages
    PROVE  Answered(m, resp) \in SUBSET Messages
BY DEF Answered, TypeOK

-----------------------------------------------------------------------------
(* Type correctness: every action keeps TypeOK. *)

\* The history of elections keeps its type.
LEMMA ElectedType ==
    ASSUME TypeOK, NEW i \in Server, NEW term \in Nat, NEW c \in BOOLEAN,
           elected' = elected \cup {[srv |-> i, term |-> term, clean |-> c]}
    PROVE  elected' \in SUBSET [srv : Server, term : Nat, clean : BOOLEAN]
<1> DEFINE R == [srv : Server, term : Nat, clean : BOOLEAN]
           r == [srv |-> i, term |-> term, clean |-> c]
<1>1. r \in R
    BY Zenon
<1>2. elected \in SUBSET R
    BY DEF TypeOK
<1> HIDE DEF R, r
<1>3. elected' = elected \cup {r}
    BY DEF r
<1>4. elected' \in SUBSET R
    BY <1>1, <1>2, <1>3
<1>5. QED
    BY <1>4 DEF R

\* A new raft_server on an empty log and a fresh srv_state is well-typed.
LEMMA InitType == Init => TypeOK
<1> SUFFICES ASSUME Init PROVE TypeOK
    OBVIOUS
<1>1. InitState \in SrvState
    BY DEF InitState, SrvState
<1>2. InitPeer \in Peer
    BY DEF InitPeer, Peer
<1>3. InitThread \in CommitThread
    BY <1>1 DEF InitThread, CommitThread
<1>4. [granted |-> 0, responded |-> 0, completed |-> TRUE] \in Election
    BY DEF Election
<1>5. [idx |-> 0, saved_idx |-> 0, changing |-> FALSE] \in Conf
    BY DEF Conf
<1>6. <<>> \in Seq(LogEntry)
    OBVIOUS
<1>7. QED
    BY <1>1, <1>2, <1>3, <1>4, <1>5, <1>6 DEF Init, TypeOK, Roles

\* handle_hb_timeout preserves the types.
LEMMA HeartbeatType ==
    ASSUME TypeOK, NEW i \in Server, NEW j \in Server, HandleHbTimeout(i, j)
    PROVE  TypeOK'
<1>1. /\ state[i].term \in Nat /\ log[i] \in Seq(LogEntry)
      /\ quick_commit[i] \in Nat /\ peers[i] \in [Server -> Peer]
      /\ net \in SUBSET Messages /\ "leader" \in Roles
    BY DEF TypeOK, SrvState, Roles
<1>2. RequestAppendEntries(i, {j}, "leader", state[i].term, log[i],
                           quick_commit[i], peers[i], net)
    BY DEF HandleHbTimeout
<1>3. /\ role' \in [Server -> Roles]
      /\ peers' \in [Server -> [Server -> Peer]]
      /\ net' \in SUBSET Messages
    BY <1>1, <1>2, RequestAppendEntriesType
<1>4. QED
    BY <1>3 DEF HandleHbTimeout, TypeOK

\* handle_cli_req preserves the types.
LEMMA ClientType ==
    ASSUME TypeOK, NEW i \in Server, NEW val \in Value, HandleCliReq(i, val)
    PROVE  TypeOK'
<1> DEFINE entry == [term |-> 0, type |-> "app_log", val |-> val]
           lg == Append(log[i], entry)
<1>1. /\ log' = [log EXCEPT ![i] = lg]
      /\ quick_commit' = [quick_commit EXCEPT ![i] =
             IF Peers(i) = {} THEN Larger(@, Len(lg)) ELSE @]
      /\ RequestAppendEntries(i, Peers(i), "leader", state[i].term, lg,
                              quick_commit[i], peers[i], net)
    BY DEF HandleCliReq
<1>2. entry \in LogEntry
    BY DEF LogEntry
<1> HIDE DEF entry
<1>3. lg \in Seq(LogEntry) /\ Len(lg) \in Nat
    BY <1>2 DEF TypeOK
<1> HIDE DEF lg
<1>4. /\ state[i].term \in Nat /\ quick_commit[i] \in Nat
      /\ peers[i] \in [Server -> Peer] /\ net \in SUBSET Messages
      /\ "leader" \in Roles /\ Peers(i) \in SUBSET Server
    BY DEF TypeOK, SrvState, Roles, Peers
<1>5. /\ role' \in [Server -> Roles]
      /\ peers' \in [Server -> [Server -> Peer]]
      /\ net' \in SUBSET Messages
    BY <1>1, <1>3, <1>4, RequestAppendEntriesType
<1>6. log' \in [Server -> Seq(LogEntry)]
    BY <1>1, <1>3 DEF TypeOK
<1>7. quick_commit' \in [Server -> Nat]
    BY <1>1, <1>3 DEF TypeOK, Larger
<1>8. QED
    BY <1>5, <1>6, <1>7 DEF HandleCliReq, TypeOK

\* handle_election_timeout and request_vote preserve the types.
LEMMA ElectionTimeoutType ==
    ASSUME TypeOK, NEW i \in Server, HandleElectionTimeout(i)
    PROVE  TypeOK'
<1> DEFINE term == state[i].term + 1
           st == [state[i] EXCEPT !.term = term, !.voted_for = i]
           won == IsMajority(1)
           e == [granted |-> 1, responded |-> 1, completed |-> won]
<1>1. state[i] \in SrvState /\ term \in Nat
    BY DEF TypeOK, SrvState
<1> HIDE DEF term
<1>2. st \in SrvState
    BY <1>1 DEF SrvState
<1>3. won \in BOOLEAN /\ e \in Election
    BY DEF IsMajority, Election
<1> HIDE DEF st, won, e
<1>4. /\ state' = [state EXCEPT ![i] = st]
      /\ saved' = [saved EXCEPT ![i] = st]
      /\ votes' = votes \cup {<<i, term, i>>}
      /\ election' = [election EXCEPT ![i] = e]
      /\ stale' = stale \ {i}
      /\ \/ /\ elected' = elected \cup
                   {[srv |-> i, term |-> term, clean |-> TRUE]}
            /\ BecomeLeader(i, term, net)
         \/ /\ role' = [role EXCEPT ![i] = "candidate"]
            /\ net' = net \cup {VoteReq(i, j, term, log[i]) : j \in Peers(i)}
            /\ UNCHANGED <<elected, leader, log, conf, quick_commit, peers>>
      /\ UNCHANGED <<bg, applied, errors, restarts>>
    BY DEF HandleElectionTimeout, term, st, won, e
<1>5. /\ state' \in [Server -> SrvState] /\ saved' \in [Server -> SrvState]
      /\ election' \in [Server -> Election] /\ stale' \in SUBSET Server
      /\ votes' \in SUBSET (Server \X Nat \X Server)
    BY <1>1, <1>2, <1>3, <1>4 DEF TypeOK
<1>6. CASE /\ elected' = elected \cup
                  {[srv |-> i, term |-> term, clean |-> TRUE]}
           /\ BecomeLeader(i, term, net)
    <2>1. net \in SUBSET Messages
        BY DEF TypeOK
    <2>2. /\ role' \in [Server -> Roles]
          /\ peers' \in [Server -> [Server -> Peer]]
          /\ net' \in SUBSET Messages
          /\ leader' \in [Server -> Server \cup {Nobody}]
          /\ log' \in [Server -> Seq(LogEntry)]
          /\ conf' \in [Server -> Conf]
          /\ quick_commit' \in [Server -> Nat]
        BY <1>1, <1>6, <2>1, BecomeLeaderType
    <2>3. elected' \in SUBSET [srv : Server, term : Nat, clean : BOOLEAN]
        BY <1>1, <1>6, ElectedType
    <2>4. QED
        BY <1>4, <1>5, <2>2, <2>3 DEF TypeOK
<1>7. CASE /\ role' = [role EXCEPT ![i] = "candidate"]
           /\ net' = net \cup {VoteReq(i, j, term, log[i]) : j \in Peers(i)}
           /\ UNCHANGED <<elected, leader, log, conf, quick_commit, peers>>
    <2>1. \A j \in Peers(i) : VoteReq(i, j, term, log[i]) \in Messages
        BY <1>1, VoteReqType DEF TypeOK, Peers
    <2>2. net' \in SUBSET Messages
        BY <1>7, <2>1 DEF TypeOK
    <2>3. role' \in [Server -> Roles]
        BY <1>7 DEF TypeOK, Roles
    <2>4. QED
        BY <1>4, <1>5, <1>7, <2>2, <2>3 DEF TypeOK
<1>8. QED
    BY <1>4, <1>6, <1>7

\* handle_vote_req preserves the types.
LEMMA VoteReqHandlerType ==
    ASSUME TypeOK, NEW m \in net, HandleVoteReq(m)
    PROVE  TypeOK'
<1> DEFINE i == m.dst
           st == StateAt(i, m.term)
           grant == Grants(m, st, log[i])
           voted == [st EXCEPT !.voted_for = m.src]
<1>1. m \in Messages /\ i \in Server /\ m.src \in Server /\ m.term \in Nat
    BY MessageKinds DEF TypeOK
<1>2. /\ st \in SrvState
      /\ SavedAt(i, m.term) \in SrvState
      /\ RoleAt(i, m.term) \in Roles
      /\ ElectionAt(i, m.term) \in Election
      /\ StaleAt(i, m.term) \in SUBSET Server
    BY <1>1, UpdateTermType
<1>3. grant \in BOOLEAN
    BY DEF Grants
<1>4. voted \in SrvState
    <2> HIDE DEF st
    <2>1. QED
        BY <1>1, <1>2 DEF SrvState
<1>5. VoteResp(m, st.term, grant) \in Messages
    <2>1. st.term \in Nat
        BY <1>2 DEF SrvState
    <2> HIDE DEF st, grant
    <2>2. VoteResp(m, st.term, grant) \in VoteResps
        BY <1>1, <1>3, <2>1 DEF VoteResp, VoteResps
    <2>3. QED
        BY <2>2 DEF Messages
<1>6. /\ state' = [state EXCEPT ![i] = IF grant THEN voted ELSE st]
      /\ saved' = [saved EXCEPT ![i] =
             IF grant THEN voted ELSE SavedAt(i, m.term)]
      /\ votes' = IF grant THEN votes \cup {<<i, m.term, m.src>>} ELSE votes
      /\ role' = [role EXCEPT ![i] = RoleAt(i, m.term)]
      /\ election' = [election EXCEPT ![i] = ElectionAt(i, m.term)]
      /\ stale' = StaleAt(i, m.term)
      /\ net' = Answered(m, VoteResp(m, st.term, grant))
      /\ UNCHANGED <<log, leader, peers, quick_commit, conf, bg, applied,
                     errors, restarts, elected>>
    BY DEF HandleVoteReq
<1> HIDE DEF i, st, grant, voted
<1>7. net' \in SUBSET Messages
    BY <1>5, <1>6, AnsweredType
<1>8. /\ state' \in [Server -> SrvState] /\ saved' \in [Server -> SrvState]
      /\ role' \in [Server -> Roles] /\ election' \in [Server -> Election]
      /\ stale' \in SUBSET Server
    BY <1>1, <1>2, <1>4, <1>6 DEF TypeOK
<1>9. votes' \in SUBSET (Server \X Nat \X Server)
    BY <1>1, <1>6 DEF TypeOK
<1>10. QED
    BY <1>6, <1>7, <1>8, <1>9 DEF TypeOK

\* handle_peer_resp preserves the types on a response of a later term.
LEMMA LaterRespType ==
    ASSUME TypeOK, NEW m \in net, HandleLaterResp(m)
    PROVE  TypeOK'
<1> DEFINE i == m.dst
<1>1. m \in Messages /\ i \in Server /\ m.term \in Nat
    BY MessageKinds DEF TypeOK
<1>2. /\ StateAt(i, m.term) \in SrvState
      /\ SavedAt(i, m.term) \in SrvState
      /\ RoleAt(i, m.term) \in Roles
      /\ ElectionAt(i, m.term) \in Election
      /\ StaleAt(i, m.term) \in SUBSET Server
    BY <1>1, UpdateTermType
<1>3. QED
    BY <1>1, <1>2 DEF HandleLaterResp, TypeOK

\* handle_voting_resp, become_leader included, preserves the types.
LEMMA VotingRespType ==
    ASSUME TypeOK, NEW m \in net, HandleVotingResp(m)
    PROVE  TypeOK'
<1> DEFINE i == m.dst
           e == election[i]
           counts == ~e.completed
           granted == e.granted + (IF counts /\ m.accepted THEN 1 ELSE 0)
           won == counts /\ IsMajority(granted)
           done == e.completed \/ won \/ e.responded + 1 >= ClusterSize
           tally == IF counts /\ m.accepted /\ m.term < state[i].term
                    THEN stale \cup {i} ELSE stale
           clean == i \notin tally
           ee == [granted |-> granted, responded |-> e.responded + 1,
                  completed |-> done]
           rec == [srv |-> i, term |-> state[i].term, clean |-> clean]
<1>1. m \in Messages /\ i \in Server /\ state[i].term \in Nat
    BY MessageKinds DEF TypeOK, SrvState
<1>2. e \in Election
    BY <1>1 DEF TypeOK
<1>3. ee \in Election
    <2>1. granted \in Nat /\ e.responded + 1 \in Nat
        <3> HIDE DEF e
        <3>1. QED
            BY <1>2 DEF Election
    <2>2. done \in BOOLEAN
        <3>1. e.completed \in BOOLEAN
            BY <1>2, Zenon DEF Election
        <3> HIDE DEF e, won
        <3>2. QED
            BY <3>1, Zenon
    <2> HIDE DEF e, granted, done
    <2>3. QED
        BY <2>1, <2>2, Zenon DEF Election
<1>4. tally \in SUBSET Server /\ clean \in BOOLEAN
    <2> HIDE DEF e
    <2>1. QED
        BY <1>1 DEF TypeOK
<1>5. /\ election' = [election EXCEPT ![i] = ee]
      /\ stale' = tally
      /\ \/ /\ elected' = elected \cup {rec}
            /\ BecomeLeader(i, state[i].term, net \ {m})
         \/ /\ net' = net \ {m}
            /\ UNCHANGED <<elected, role, leader, log, conf, quick_commit,
                           peers>>
      /\ UNCHANGED <<state, saved, bg, applied, errors, restarts, votes>>
    BY DEF HandleVotingResp
<1> HIDE DEF e, counts, granted, won, done, tally, clean, ee
<1>6. election' \in [Server -> Election] /\ stale' \in SUBSET Server
    BY <1>1, <1>3, <1>4, <1>5 DEF TypeOK
<1>7. CASE /\ elected' = elected \cup {rec}
           /\ BecomeLeader(i, state[i].term, net \ {m})
    <2>1. net \ {m} \in SUBSET Messages
        BY DEF TypeOK
    <2>2. /\ role' \in [Server -> Roles]
          /\ peers' \in [Server -> [Server -> Peer]]
          /\ net' \in SUBSET Messages
          /\ leader' \in [Server -> Server \cup {Nobody}]
          /\ log' \in [Server -> Seq(LogEntry)]
          /\ conf' \in [Server -> Conf]
          /\ quick_commit' \in [Server -> Nat]
        BY <1>1, <1>7, <2>1, BecomeLeaderType
    <2>3. elected' \in SUBSET [srv : Server, term : Nat, clean : BOOLEAN]
        BY <1>1, <1>4, <1>7, ElectedType
    <2>4. QED
        BY <1>5, <1>6, <2>2, <2>3 DEF TypeOK
<1>8. CASE /\ net' = net \ {m}
           /\ UNCHANGED <<elected, role, leader, log, conf, quick_commit,
                          peers>>
    <2>1. net' \in SUBSET Messages
        BY <1>8 DEF TypeOK
    <2>2. QED
        BY <1>5, <1>6, <1>8, <2>1 DEF TypeOK
<1>9. QED
    BY <1>5, <1>7, <1>8

\* handle_append_entries preserves the types when it writes to the log.
LEMMA AcceptAppendType ==
    ASSUME TypeOK, NEW m \in net, AcceptAppendEntries(m)
    PROVE  TypeOK'
<1> DEFINE i == m.dst
           idx == m.last_log_idx
           next == idx + Len(m.entries) + 1
           resp == AppendResp(m, state'[i].term, TRUE, next)
<1>1. /\ FollowSender(m) /\ LogOkay(log[i], m)
      /\ log' = [log EXCEPT ![i] = WriteEntries(log[i], idx, m.entries)]
      /\ conf' = [conf EXCEPT ![i].changing =
             ConfChanging(@, log[i], idx, m.entries)]
      /\ leader' = [leader EXCEPT ![i] = m.src]
      /\ quick_commit' = [quick_commit EXCEPT ![i] = Larger(@, m.commit_idx)]
      /\ net' = Answered(m, resp)
      /\ UNCHANGED <<peers, bg, applied, errors, restarts, votes, elected>>
      /\ m.type = "append_req"
    BY DEF AcceptAppendEntries
<1>2. m \in Messages /\ m \in AppendReqs
    BY <1>1, MessageKinds DEF TypeOK
<1>3. /\ i \in Server /\ m.src \in Server /\ idx \in Nat
      /\ m.entries \in Seq(LogEntry) /\ m.commit_idx \in Nat
    BY <1>2 DEF AppendReqs
<1>4. /\ state' \in [Server -> SrvState] /\ saved' \in [Server -> SrvState]
      /\ role' \in [Server -> Roles] /\ election' \in [Server -> Election]
      /\ stale' \in SUBSET Server
    BY <1>1, <1>2, FollowSenderType
<1>5. log[i] \in Seq(LogEntry) /\ idx <= Len(log[i])
    BY <1>1, <1>3 DEF LogOkay, TypeOK, NextSlot
<1>6. log' \in [Server -> Seq(LogEntry)]
    <2>1. WriteEntries(log[i], idx, m.entries) \in Seq(LogEntry)
        BY <1>3, <1>5, WriteEntriesType
    <2>2. QED
        BY <1>1, <1>3, <2>1 DEF TypeOK
<1>7. conf' \in [Server -> Conf]
    <2>1. ConfChanging(conf[i].changing, log[i], idx, m.entries) \in BOOLEAN
        BY DEF ConfChanging
    <2>2. conf[i] \in Conf
        BY <1>3 DEF TypeOK
    <2>3. [conf[i] EXCEPT !.changing =
               ConfChanging(conf[i].changing, log[i], idx, m.entries)] \in Conf
        BY <2>1, <2>2, Zenon DEF Conf
    <2>4. QED
        BY <1>1, <1>3, <2>3 DEF TypeOK
<1>8. net' \in SUBSET Messages
    <2>1. next \in Nat \ {0} /\ state'[i].term \in Nat
        BY <1>3, <1>4 DEF SrvState
    <2> HIDE DEF next
    <2>2. resp \in AppendResps
        BY <1>2, <1>3, <2>1 DEF AppendResp, AppendResps
    <2>3. resp \in Messages
        BY <2>2 DEF Messages
    <2> HIDE DEF resp
    <2>4. QED
        BY <1>1, <2>3, AnsweredType
<1>9. quick_commit' \in [Server -> Nat]
    BY <1>1, <1>3 DEF TypeOK, Larger
<1>10. leader' \in [Server -> Server \cup {Nobody}]
    BY <1>1, <1>3 DEF TypeOK
<1>11. QED
    BY <1>1, <1>4, <1>6, <1>7, <1>8, <1>9, <1>10 DEF TypeOK

\* handle_append_entries preserves the types when it refuses.
LEMMA RefuseAppendType ==
    ASSUME TypeOK, NEW m \in net, RefuseAppendEntries(m)
    PROVE  TypeOK'
<1> DEFINE i == m.dst
           resp == AppendResp(m, state'[i].term, FALSE, NextSlot(log[i]))
<1>1. /\ FollowSender(m) /\ net' = Answered(m, resp)
      /\ UNCHANGED <<log, leader, peers, quick_commit, conf, bg, applied,
                     errors, restarts, votes, elected>>
    BY DEF RefuseAppendEntries
<1>2. m \in Messages /\ i \in Server /\ m.src \in Server
    BY MessageKinds DEF TypeOK
<1>3. /\ state' \in [Server -> SrvState] /\ saved' \in [Server -> SrvState]
      /\ role' \in [Server -> Roles] /\ election' \in [Server -> Election]
      /\ stale' \in SUBSET Server
    BY <1>1, <1>2, FollowSenderType
<1>4. net' \in SUBSET Messages
    <2>1. NextSlot(log[i]) \in Nat \ {0} /\ state'[i].term \in Nat
        BY <1>2, <1>3 DEF SrvState, TypeOK, NextSlot
    <2>2. resp \in AppendResps
        BY <1>2, <2>1 DEF AppendResp, AppendResps
    <2>3. resp \in Messages
        BY <2>2 DEF Messages
    <2> HIDE DEF resp
    <2>4. QED
        BY <1>1, <2>3, AnsweredType
<1>5. QED
    BY <1>1, <1>3, <1>4 DEF TypeOK

\* Clearing a busy flag keeps the peers well-formed.
LEMMA FreedType ==
    ASSUME TypeOK, NEW i \in Server, NEW j \in Server
    PROVE  Freed(i, j) \in [Server -> [Server -> Peer]]
<1>1. peers[i][j] \in Peer /\ peers[i] \in [Server -> Peer]
    BY DEF TypeOK
<1>2. [peers[i][j] EXCEPT !.busy = FALSE] \in Peer
    BY <1>1 DEF Peer
<1>3. [peers[i] EXCEPT ![j] = [peers[i][j] EXCEPT !.busy = FALSE]]
          \in [Server -> Peer]
    BY <1>1, <1>2
<1>4. Freed(i, j) = [peers EXCEPT ![i] =
          [peers[i] EXCEPT ![j] = [peers[i][j] EXCEPT !.busy = FALSE]]]
    BY DEF Freed
<1>5. QED
    BY <1>3, <1>4 DEF TypeOK

\* handle_append_entries preserves the types when the server exits.
LEMMA MeetRivalType ==
    ASSUME TypeOK, NEW m \in net, MeetRivalLeader(m)
    PROVE  TypeOK'
<1>1. m \in Messages /\ m.dst \in Server /\ m.src \in Server
    BY MessageKinds DEF TypeOK
<1>2. peers' \in [Server -> [Server -> Peer]]
    BY <1>1, FreedType DEF MeetRivalLeader, TypeOK
<1>3. net \ {m} \in SUBSET Messages
    BY DEF TypeOK
<1>4. net' \in SUBSET Messages
    BY <1>3, AbandonType DEF MeetRivalLeader
<1>5. role' \in [Server -> Roles]
    BY <1>1 DEF MeetRivalLeader, TypeOK, Roles
<1>6. QED
    BY <1>2, <1>4, <1>5 DEF MeetRivalLeader, TypeOK

\* peer::handle_rpc_result preserves the types.
LEMMA SetFreeType ==
    ASSUME TypeOK, NEW m \in net, SetFree(m)
    PROVE  TypeOK'
<1>1. m \in Messages /\ m.type = "append_resp"
    BY DEF TypeOK, SetFree
<1>2. m \in AppendResps /\ m.dst \in Server /\ m.src \in Server
    BY <1>1, MessageKinds
<1>3. peers' \in [Server -> [Server -> Peer]]
    BY <1>2, FreedType DEF SetFree
<1>4. PICK n \in 1..MaxQueued :
          net' = (net \ {m}) \cup {[m EXCEPT !.queued = n]}
    BY DEF SetFree
<1>5. n \in Nat
    BY NumberAssumption
<1>6. [m EXCEPT !.queued = n] \in AppendResps
    BY <1>2, <1>5 DEF AppendResps
<1>7. [m EXCEPT !.queued = n] \in Messages
    BY <1>6, Zenon DEF Messages
<1>8. net' \in SUBSET Messages
    BY <1>4, <1>7, Zenon DEF TypeOK
<1>9. QED
    BY <1>3, <1>8 DEF SetFree, TypeOK

\* What handle_append_entries_resp sends on an accepted request: whichever
\* peers it picks, it leaves their busy flags to request_append_entries.
LEMMA AppendAcceptedSends ==
    ASSUME TypeOK, NEW m \in net, HandleAppendAccepted(m)
    PROVE  /\ quick_commit' \in [Server -> Nat]
           /\ \E dests \in SUBSET Server, ps \in [Server -> Peer], ci \in Nat :
                  /\ RequestAppendEntries(m.dst, dests, role[m.dst],
                         state[m.dst].term, log[m.dst], ci, ps, net \ {m})
                  /\ \A j \in Server :
                         /\ ps[j].busy = peers[m.dst][j].busy
                         /\ ps[j].matched_idx = IF j = m.src THEN m.next_idx - 1
                                                ELSE peers[m.dst][j].matched_idx
                  /\ dests \subseteq Peers(m.dst) \cup {m.src}
                  /\ \/ quick_commit' = quick_commit
                     \/ /\ quick_commit' = [quick_commit EXCEPT ![m.dst] = ci]
                        /\ ci >= quick_commit[m.dst]
                        /\ IsMajority(Cardinality({j \in Server :
                               (IF j = m.dst THEN Len(log[m.dst])
                                             ELSE ps[j].matched_idx) >= ci}))
<1> DEFINE i == m.dst
           p == [peers[i][m.src] EXCEPT !.next_log_idx = m.next_idx,
                                        !.matched_idx = m.next_idx - 1]
           ps == [peers[i] EXCEPT ![m.src].next_log_idx = m.next_idx,
                                  ![m.src].matched_idx = m.next_idx - 1]
           target == MajorityMatched(i, log[i], ps)
           raised == target > quick_commit[i]
           notify == raised /\ role[i] = "leader"
           catchup == ps[m.src].pending_commit \/ m.next_idx < NextSlot(log[i])
           dests == IF role[i] # "leader" THEN {}
                    ELSE IF raised THEN Peers(i)
                    ELSE IF catchup THEN {m.src} ELSE {}
           Pending(j) == /\ j # m.src
                         /\ \/ ps[j].pending_commit
                            \/ (notify /\ j # i /\ ps[j].busy)
           marked == [j \in Server |->
                         [ps[j] EXCEPT !.pending_commit = Pending(j)]]
<1>1. m \in Messages /\ m.type = "append_resp"
    BY DEF TypeOK, HandleAppendAccepted
<1>2. /\ m \in AppendResps /\ i \in Server /\ m.src \in Server
      /\ m.next_idx \in Nat \ {0}
    BY <1>1, MessageKinds DEF AppendResps
<1>3. ps \in [Server -> Peer]
    <2>1. peers[i] \in [Server -> Peer] /\ peers[i][m.src] \in Peer
        BY <1>2 DEF TypeOK
    <2>2. m.next_idx \in Nat /\ m.next_idx - 1 \in Nat
        BY <1>2
    <2>3. p \in Peer
        BY <2>1, <2>2 DEF Peer
    <2>4. ps = [peers[i] EXCEPT ![m.src] = p]
        BY <1>2, <2>1
    <2> HIDE DEF p, ps
    <2>5. QED
        BY <2>1, <2>3, <2>4
<1>4. \A j \in Server :
          /\ ps[j].busy = peers[i][j].busy
          /\ ps[j].matched_idx = IF j = m.src THEN m.next_idx - 1
                                 ELSE peers[i][j].matched_idx
    <2>1. peers[i] \in [Server -> Peer] /\ peers[i][m.src] \in Peer
        BY <1>2 DEF TypeOK
    <2>2. p.busy = peers[i][m.src].busy /\ p.matched_idx = m.next_idx - 1
        BY <2>1 DEF Peer
    <2>3. ps = [peers[i] EXCEPT ![m.src] = p]
        BY <1>2, <2>1
    <2> HIDE DEF p, ps
    <2>4. QED
        BY <1>2, <2>1, <2>2, <2>3
<1>5. /\ quick_commit' = [quick_commit EXCEPT ![i] = Larger(@, target)]
      /\ RequestAppendEntries(i, dests, role[i], state[i].term, log[i],
                              quick_commit'[i], marked, net \ {m})
      /\ UNCHANGED <<state, saved, log, leader, election, conf, bg, applied,
                     errors, restarts, votes, stale, elected>>
    BY DEF HandleAppendAccepted
<1> HIDE DEF ps
<1>6. /\ target \in Nat
      /\ IsMajority(Cardinality({j \in Server :
             (IF j = i THEN Len(log[i]) ELSE ps[j].matched_idx) >= target}))
    <2>1. log[i] \in Seq(LogEntry)
        BY <1>2 DEF TypeOK
    <2>2. QED
        BY <1>2, <1>3, <2>1, MajorityMatchedType, Zenon
<1>7. marked \in [Server -> Peer]
    <2>1. ASSUME NEW j \in Server
          PROVE  [ps[j] EXCEPT !.pending_commit = Pending(j)] \in Peer
        <3>1. ps[j] \in Peer
            BY <1>3
        <3>2. Pending(j) \in BOOLEAN
            OBVIOUS
        <3> HIDE DEF Pending
        <3>3. QED
            BY <3>1, <3>2, Zenon DEF Peer
    <2> HIDE DEF Pending
    <2>2. QED
        BY <2>1, Zenon
<1>8. \A j \in Server : /\ marked[j].busy = ps[j].busy
                        /\ marked[j].matched_idx = ps[j].matched_idx
    <2> HIDE DEF Pending
    <2>1. QED
        BY <1>3 DEF Peer
<1>9. dests \in SUBSET Server /\ dests \subseteq Peers(i) \cup {m.src}
    BY <1>2 DEF Peers
<1> HIDE DEF target, dests, marked
<1>10. quick_commit' \in [Server -> Nat]
    BY <1>2, <1>5, <1>6 DEF TypeOK, Larger
<1>11. quick_commit'[i] \in Nat
    BY <1>2, <1>10
<1>12. \A j \in Server :
           /\ marked[j].busy = peers[i][j].busy
           /\ marked[j].matched_idx = IF j = m.src THEN m.next_idx - 1
                                      ELSE peers[i][j].matched_idx
    BY <1>4, <1>8
<1>13. \/ quick_commit' = quick_commit
       \/ /\ quick_commit' = [quick_commit EXCEPT ![i] = quick_commit'[i]]
          /\ quick_commit'[i] >= quick_commit[i]
          /\ IsMajority(Cardinality({j \in Server :
                 (IF j = i THEN Len(log[i]) ELSE marked[j].matched_idx)
                     >= quick_commit'[i]}))
    <2>1. CASE target > quick_commit[i]
        <3>1. target \in Nat /\ quick_commit[i] \in Nat
            BY <1>2, <1>6 DEF TypeOK
        <3>2. target >= quick_commit[i] /\ Larger(quick_commit[i], target) = target
            BY <2>1, <3>1 DEF Larger
        <3>3. /\ quick_commit'[i] = target
              /\ quick_commit' = [quick_commit EXCEPT ![i] = target]
            BY <1>2, <1>5, <3>2 DEF TypeOK
        <3>4. {j \in Server :
                  (IF j = i THEN Len(log[i]) ELSE ps[j].matched_idx) >= target}
              = {j \in Server :
                  (IF j = i THEN Len(log[i]) ELSE marked[j].matched_idx) >= target}
            BY <1>8
        <3>5. QED
            BY <1>6, <3>2, <3>3, <3>4
    <2>2. CASE ~(target > quick_commit[i])
        <3>1. quick_commit' = quick_commit
            BY <1>2, <1>5, <1>6, <2>2 DEF TypeOK, Larger
        <3>2. QED
            BY <3>1
    <2>3. QED
        BY <2>1, <2>2
<1> DEFINE ci == quick_commit'[i]
<1>14. /\ ci \in Nat
       /\ RequestAppendEntries(i, dests, role[i], state[i].term, log[i],
                               ci, marked, net \ {m})
    BY <1>5, <1>11
<1>15. \/ quick_commit' = quick_commit
       \/ /\ quick_commit' = [quick_commit EXCEPT ![i] = ci]
          /\ ci >= quick_commit[i]
          /\ IsMajority(Cardinality({j \in Server :
                 (IF j = i THEN Len(log[i]) ELSE marked[j].matched_idx) >= ci}))
    BY <1>13
<1> HIDE DEF ci
<1>16. \E ds \in SUBSET Server, qs \in [Server -> Peer], c \in Nat :
           /\ RequestAppendEntries(i, ds, role[i], state[i].term, log[i],
                                   c, qs, net \ {m})
           /\ \A j \in Server :
                  /\ qs[j].busy = peers[i][j].busy
                  /\ qs[j].matched_idx = IF j = m.src THEN m.next_idx - 1
                                         ELSE peers[i][j].matched_idx
           /\ ds \subseteq Peers(i) \cup {m.src}
           /\ \/ quick_commit' = quick_commit
              \/ /\ quick_commit' = [quick_commit EXCEPT ![i] = c]
                 /\ c >= quick_commit[i]
                 /\ IsMajority(Cardinality({j \in Server :
                        (IF j = i THEN Len(log[i]) ELSE qs[j].matched_idx) >= c}))
    <2>1. dests \in SUBSET Server /\ marked \in [Server -> Peer] /\ ci \in Nat
        BY <1>7, <1>9, <1>14
    <2> USE <2>1
    <2> WITNESS dests \in SUBSET Server, marked \in [Server -> Peer], ci \in Nat
    <2>2. QED
        BY <1>9, <1>12, <1>14, <1>15, Zenon
<1>17. QED
    BY <1>10, <1>16, Zenon

\* handle_append_entries_resp and commit preserve the types.
LEMMA AppendAcceptedType ==
    ASSUME TypeOK, NEW m \in net, HandleAppendAccepted(m)
    PROVE  TypeOK'
<1>1. /\ m.dst \in Server /\ role[m.dst] \in Roles
      /\ state[m.dst].term \in Nat /\ log[m.dst] \in Seq(LogEntry)
      /\ net \ {m} \in SUBSET Messages
    BY MessageKinds DEF TypeOK, SrvState
<1>2. /\ quick_commit' \in [Server -> Nat]
      /\ role' \in [Server -> Roles]
      /\ peers' \in [Server -> [Server -> Peer]]
      /\ net' \in SUBSET Messages
    BY <1>1, AppendAcceptedSends, RequestAppendEntriesType
<1>3. UNCHANGED <<state, saved, log, leader, election, conf, bg, applied,
                  errors, restarts, votes, stale, elected>>
    BY DEF HandleAppendAccepted
<1>4. QED
    BY <1>2, <1>3 DEF TypeOK

\* The same on a refusal: the index it steps back to is a natural number
\* even when it wraps around.
LEMMA AppendRefusedSends ==
    ASSUME TypeOK, NEW m \in net, HandleAppendRefused(m)
    PROVE  \E dests \in SUBSET Server, ps \in [Server -> Peer], ci \in Nat :
               /\ RequestAppendEntries(m.dst, dests, role[m.dst],
                      state[m.dst].term, log[m.dst], ci, ps, net \ {m})
               /\ \A j \in Server :
                      /\ ps[j].busy = peers[m.dst][j].busy
                      /\ ps[j].matched_idx = peers[m.dst][j].matched_idx
               /\ dests \subseteq {m.src}
<1> DEFINE i == m.dst
           next == peers[i][m.src].next_log_idx
           nn == IF next > m.next_idx THEN m.next_idx ELSE UlongDec(next)
           ps == [peers[i] EXCEPT ![m.src].next_log_idx = nn]
           dests == IF role[i] = "leader" THEN {m.src} ELSE {}
<1>1. m \in Messages /\ m.type = "append_resp"
    BY DEF TypeOK, HandleAppendRefused
<1>2. /\ m \in AppendResps /\ i \in Server /\ m.src \in Server
      /\ m.next_idx \in Nat \ {0}
    BY <1>1, MessageKinds DEF AppendResps
<1>3. peers[i] \in [Server -> Peer] /\ peers[i][m.src] \in Peer
    BY <1>2 DEF TypeOK
<1>4. nn \in Nat
    <2>1. next \in Nat
        BY <1>3 DEF Peer
    <2> HIDE DEF next
    <2>2. QED
        BY <1>2, <2>1, NumberAssumption DEF UlongDec
<1>5. /\ RequestAppendEntries(i, dests, role[i], state[i].term, log[i],
                              quick_commit[i], ps, net \ {m})
      /\ UNCHANGED <<state, saved, log, leader, election, quick_commit, conf,
                     bg, applied, errors, restarts, votes, stale, elected>>
    BY DEF HandleAppendRefused
<1>6. ps \in [Server -> Peer]
    <2> HIDE DEF nn
    <2>1. [peers[i][m.src] EXCEPT !.next_log_idx = nn] \in Peer
        BY <1>3, <1>4 DEF Peer
    <2>2. ps = [peers[i] EXCEPT ![m.src] =
                    [peers[i][m.src] EXCEPT !.next_log_idx = nn]]
        BY <1>2, <1>3
    <2>3. QED
        BY <1>3, <2>1, <2>2
<1>7. dests \in SUBSET Server /\ dests \subseteq {m.src}
    BY <1>2
<1>8. quick_commit[i] \in Nat
    BY <1>2 DEF TypeOK
<1>9. \A j \in Server : /\ ps[j].busy = peers[i][j].busy
                        /\ ps[j].matched_idx = peers[i][j].matched_idx
    <2> HIDE DEF nn
    <2>1. QED
        BY <1>2, <1>3 DEF Peer
<1> HIDE DEF ps, dests
<1>10. QED
    BY <1>5, <1>6, <1>7, <1>8, <1>9

\* handle_append_entries_resp preserves the types on a refusal.
LEMMA AppendRefusedType ==
    ASSUME TypeOK, NEW m \in net, HandleAppendRefused(m)
    PROVE  TypeOK'
<1>1. /\ m.dst \in Server /\ role[m.dst] \in Roles
      /\ state[m.dst].term \in Nat /\ log[m.dst] \in Seq(LogEntry)
      /\ net \ {m} \in SUBSET Messages
    BY MessageKinds DEF TypeOK, SrvState
<1>2. /\ role' \in [Server -> Roles]
      /\ peers' \in [Server -> [Server -> Peer]]
      /\ net' \in SUBSET Messages
    BY <1>1, AppendRefusedSends, RequestAppendEntriesType
<1>3. UNCHANGED <<state, saved, log, leader, election, quick_commit, conf,
                  bg, applied, errors, restarts, votes, stale, elected>>
    BY DEF HandleAppendRefused
<1>4. QED
    BY <1>2, <1>3 DEF TypeOK

\* commit_in_bg preserves the types when it applies an entry.
LEMMA CommitEntryType ==
    ASSUME TypeOK, NEW i \in Server, CommitEntry(i)
    PROVE  TypeOK'
<1> DEFINE idx == state[i].commit_idx + 1
           entry == log[i][idx]
           newConf == [idx |-> Larger(conf[i].idx, entry.val),
                       saved_idx |-> entry.val, changing |-> FALSE]
<1>1. state[i] \in SrvState /\ idx \in Nat /\ idx \in 1..Len(log[i])
    BY DEF CommitEntry, CanCommit, TypeOK, SrvState
<1>2. entry \in LogEntry
    BY <1>1 DEF TypeOK
<1> HIDE DEF entry
<1>3. applied' \in [Server -> SUBSET (Nat \X LogEntry)]
    <2>1. applied' = [applied EXCEPT ![i] = @ \cup {<<idx, entry>>}]
        BY DEF CommitEntry, entry
    <2> HIDE DEF idx
    <2>2. applied[i] \cup {<<idx, entry>>} \in SUBSET (Nat \X LogEntry)
        BY <1>1, <1>2 DEF TypeOK
    <2>3. QED
        BY <2>1, <2>2 DEF TypeOK
<1>4. conf' \in [Server -> Conf]
    <2>1. conf' = IF entry.type = "conf"
                  THEN [conf EXCEPT ![i] = newConf] ELSE conf
        BY DEF CommitEntry, entry
    <2>2. CASE entry.type = "conf"
        <3>1. entry.val \in Nat
            BY <1>2, <2>2 DEF LogEntry
        <3>2. newConf \in Conf
            BY <3>1 DEF TypeOK, Conf, Larger
        <3>3. QED
            BY <2>1, <2>2, <3>2 DEF TypeOK
    <2>3. QED
        BY <2>1, <2>2 DEF TypeOK
<1>5. state' \in [Server -> SrvState]
    <2>1. state' = [state EXCEPT ![i] = [state[i] EXCEPT !.commit_idx = idx]]
        BY DEF CommitEntry
    <2>2. [state[i] EXCEPT !.commit_idx = idx] \in SrvState
        BY <1>1 DEF SrvState
    <2>3. QED
        BY <2>1, <2>2 DEF TypeOK
<1>6. bg' \in [Server -> CommitThread]
    <2>1. bg' = [bg EXCEPT ![i] = [bg[i] EXCEPT !.at = "commit"]]
        BY DEF CommitEntry
    <2>2. bg[i] \in CommitThread
        BY DEF TypeOK
    <2>3. [bg[i] EXCEPT !.at = "commit"] \in CommitThread
        BY <2>2 DEF CommitThread
    <2>4. QED
        BY <2>1, <2>3 DEF TypeOK
<1>7. QED
    BY <1>3, <1>4, <1>5, <1>6 DEF CommitEntry, TypeOK

\* A fresh commit thread is well-formed.
LEMMA InitThreadType == InitThread \in CommitThread
<1>1. InitState \in SrvState
    BY DEF InitState, SrvState
<1>2. QED
    BY <1>1 DEF InitThread, CommitThread

\* commit_in_bg preserves the types when it saves the state.
LEMMA SaveType ==
    ASSUME TypeOK, NEW i \in Server, SaveCommitted(i) \/ FinishSave(i)
    PROVE  TypeOK'
<1>1. /\ state[i] \in SrvState /\ bg[i] \in CommitThread
      /\ InitThread \in CommitThread
    BY InitThreadType DEF TypeOK
<1>2. bg[i].copy \in SrvState
    BY <1>1 DEF CommitThread
<1>3. [at |-> "save", copy |-> state[i]] \in CommitThread
    BY <1>1 DEF CommitThread
<1>4. CASE SaveCommitted(i)
    BY <1>1, <1>3, <1>4 DEF SaveCommitted, TypeOK
<1>5. CASE FinishSave(i)
    BY <1>1, <1>2, <1>5 DEF FinishSave, TypeOK
<1>6. QED
    BY <1>4, <1>5

\* An RPC error preserves the types.
LEMMA RpcErrorType ==
    ASSUME TypeOK, NEW m \in net, RpcError(m)
    PROVE  TypeOK'
<1>1. m \in Messages /\ m.src \in Server /\ m.dst \in Server
    BY MessageKinds DEF TypeOK
<1>2. peers' \in [Server -> [Server -> Peer]]
    <2>1. /\ Freed(m.src, m.dst) \in [Server -> [Server -> Peer]]
          /\ Freed(m.dst, m.src) \in [Server -> [Server -> Peer]]
          /\ peers \in [Server -> [Server -> Peer]]
        BY <1>1, FreedType DEF TypeOK
    <2>2. peers' \in {Freed(m.src, m.dst), Freed(m.dst, m.src), peers}
        BY DEF RpcError
    <2>3. QED
        BY <2>1, <2>2, Zenon
<1>3. net' \in SUBSET Messages
    <2>1. \/ net' = net \ {m}
          \/ IsReq(m) /\ net' = (net \ {m}) \cup {[m EXCEPT !.live = FALSE]}
        BY DEF RpcError
    <2>2. IsReq(m) => [m EXCEPT !.live = FALSE] \in Messages
        BY <1>1, OrphanType, Zenon
    <2>3. net \in SUBSET Messages
        BY DEF TypeOK
    <2>4. QED
        BY <2>1, <2>2, <2>3, Zenon
<1>4. errors' \in Nat
    BY DEF RpcError, TypeOK
<1>5. QED
    BY <1>2, <1>3, <1>4 DEF RpcError, TypeOK

\* The constructor of raft_server on the saved state preserves the types.
LEMMA RestartType ==
    ASSUME TypeOK, NEW i \in Server, Restart(i)
    PROVE  TypeOK'
<1> DEFINE c == [conf[i] EXCEPT !.idx = conf[i].saved_idx,
                                !.changing =
               \E k \in (saved[i].commit_idx + 1)..Len(log[i]) :
                   log[i][k].type = "conf"]
           e == [granted |-> 0, responded |-> 0, completed |-> TRUE]
<1>1. saved[i] \in SrvState /\ conf[i] \in Conf
    BY DEF TypeOK
<1>2. InitPeer \in Peer
    BY DEF InitPeer, Peer
<1>3. e \in Election
    BY DEF Election
<1>4. c \in Conf
    BY <1>1, Zenon DEF Conf
<1>5. conf' = [conf EXCEPT ![i] = c]
    BY DEF Restart, Restored
<1>6. /\ restarts' = restarts + 1
      /\ role' = [role EXCEPT ![i] = "follower"]
      /\ state' = [state EXCEPT ![i] = saved[i]]
      /\ leader' = [leader EXCEPT ![i] = Nobody]
      /\ election' = [election EXCEPT ![i] = e]
      /\ peers' = [peers EXCEPT ![i] = [j \in Server |-> InitPeer]]
      /\ quick_commit' = [quick_commit EXCEPT ![i] = saved[i].commit_idx]
      /\ bg' = [bg EXCEPT ![i] = InitThread]
      /\ stale' = stale \ {i}
      /\ net' = Abandon(i, net)
      /\ UNCHANGED <<saved, log, applied, errors, votes, elected>>
    BY DEF Restart, Restored
<1>7. net' \in SUBSET Messages
    BY <1>6, AbandonType DEF TypeOK
<1> HIDE DEF c, e
<1>8. /\ conf' \in [Server -> Conf] /\ election' \in [Server -> Election]
      /\ state' \in [Server -> SrvState] /\ bg' \in [Server -> CommitThread]
      /\ leader' \in [Server -> Server \cup {Nobody}]
    BY <1>1, <1>3, <1>4, <1>5, <1>6, InitThreadType DEF TypeOK
<1>9. peers' \in [Server -> [Server -> Peer]]
    BY <1>2, <1>6 DEF TypeOK
<1>10. quick_commit' \in [Server -> Nat] /\ restarts' \in Nat
    BY <1>1, <1>6 DEF TypeOK, SrvState
<1>11. role' \in [Server -> Roles]
    BY <1>6 DEF TypeOK, Roles
<1>12. QED
    BY <1>6, <1>7, <1>8, <1>9, <1>10, <1>11 DEF TypeOK

\* Every reachable state of raft_server is well-formed: no handler, callback,
\* commit step, error or restart leaves a field outside its type, and no
\* request is built from a log index the log does not have.
THEOREM TypeCorrect == Spec => []TypeOK
<1>1. Init => TypeOK
    BY InitType
<1>2. TypeOK /\ [Next]_vars => TypeOK'
    <2> SUFFICES ASSUME TypeOK, [Next]_vars PROVE TypeOK'
        OBVIOUS
    <2>1. ASSUME NEW m \in net, Receive(m) PROVE TypeOK'
        BY <2>1, VoteReqHandlerType, AcceptAppendType, RefuseAppendType,
           MeetRivalType, LaterRespType, VotingRespType, SetFreeType,
           AppendAcceptedType, AppendRefusedType DEF Receive
    <2>2. ASSUME NEW m \in net, RpcError(m) PROVE TypeOK'
        BY <2>2, RpcErrorType
    <2>3. ASSUME NEW m \in net, LoseRequest(m) PROVE TypeOK'
        BY <2>3 DEF LoseRequest, TypeOK
    <2>4. ASSUME NEW i \in Server, HandleElectionTimeout(i) PROVE TypeOK'
        BY <2>4, ElectionTimeoutType
    <2>5. ASSUME NEW i \in Server, NEW j \in Server, HandleHbTimeout(i, j)
          PROVE  TypeOK'
        BY <2>5, HeartbeatType
    <2>6. ASSUME NEW i \in Server, NEW val \in Value, HandleCliReq(i, val)
          PROVE  TypeOK'
        BY <2>6, ClientType
    <2>7. ASSUME NEW i \in Server, CommitInBg(i) PROVE TypeOK'
        BY <2>7, CommitEntryType, SaveType DEF CommitInBg
    <2>8. ASSUME NEW i \in Server, Restart(i) PROVE TypeOK'
        BY <2>8, RestartType
    <2>9. CASE UNCHANGED vars
        BY <2>9 DEF vars, TypeOK
    <2>10. QED
        BY <2>1, <2>2, <2>3, <2>4, <2>5, <2>6, <2>7, <2>8, <2>9 DEF Next
<1>3. QED
    BY <1>1, <1>2, PTL DEF Spec

-----------------------------------------------------------------------------
(* One vote per term. *)

\* The vote bookkeeping is unchanged by a step that leaves votes alone and
\* saves at most a newer commit index.
LEMMA VotesKept ==
    ASSUME TypeOK, TypeOK', VotesAreRemembered, votes' = votes,
           \A i \in Server :
               /\ bg'[i].at # "save"
               /\ state'[i].term = state[i].term
               /\ state'[i].voted_for = state[i].voted_for
               /\ saved'[i].term = state[i].term
               /\ saved'[i].voted_for = state[i].voted_for
    PROVE  VotesAreRemembered'
<1>1. \A v \in votes : v[1] \in Server
    BY DEF TypeOK
<1>2. \A i \in Server : /\ saved'[i].term = saved[i].term
                        /\ saved'[i].voted_for = saved[i].voted_for
    BY DEF VotesAreRemembered
<1>3. QED
    BY <1>1, <1>2 DEF VotesAreRemembered

\* update_term: a server that moves to a later term, with no vote in it.
LEMMA VotesOlder ==
    ASSUME TypeOK, VotesAreRemembered, NEW i \in Server, NEW term \in Nat,
           votes' = votes, bg' = bg,
           state' = [state EXCEPT ![i] = StateAt(i, term)],
           saved' = [saved EXCEPT ![i] = SavedAt(i, term)]
    PROVE  VotesAreRemembered'
<1>1. \A v \in votes : v[1] \in Server /\ v[2] \in Nat
    BY DEF TypeOK
<1>2. \A j \in Server : state[j] \in SrvState /\ saved[j] \in SrvState
    BY DEF TypeOK
<1>3. CASE Later(i, term)
    <2> DEFINE st == [state[i] EXCEPT !.term = term, !.voted_for = Nobody]
    <2>1. /\ st.term = term /\ st.voted_for = Nobody
          /\ state[i].term \in Nat
        BY <1>2 DEF SrvState
    <2>2. state' = [state EXCEPT ![i] = st] /\ saved' = [saved EXCEPT ![i] = st]
        BY <1>3 DEF StateAt, SavedAt
    <2> HIDE DEF st
    <2>3. \A j \in Server : state'[j] = IF j = i THEN st ELSE state[j]
        BY <2>2 DEF TypeOK
    <2>4. \A j \in Server : saved'[j] = IF j = i THEN st ELSE saved[j]
        BY <2>2 DEF TypeOK
    <2>5. \A v \in votes : v[1] = i => v[2] < term
        BY <1>1, <1>3, <2>1 DEF VotesAreRemembered, Later
    <2>6. QED
        BY <1>1, <2>1, <2>3, <2>4, <2>5 DEF VotesAreRemembered
<1>4. CASE ~Later(i, term)
    <2>1. state' = state /\ saved' = saved
        BY <1>4 DEF StateAt, SavedAt, TypeOK
    <2>2. QED
        BY <2>1 DEF VotesAreRemembered
<1>5. QED
    BY <1>3, <1>4

\* A server gives its vote and saves it, in a term it has not voted in for
\* anyone else.
LEMMA VoteGiven ==
    ASSUME TypeOK, VotesAreRemembered, NEW i \in Server, NEW c \in Server,
           NEW st \in SrvState, st.voted_for = c,
           \/ st.term > state[i].term
           \/ st.term = state[i].term /\ state[i].voted_for \in {c, Nobody},
           votes' = votes \cup {<<i, st.term, c>>}, bg' = bg,
           state' = [state EXCEPT ![i] = st],
           saved' = [saved EXCEPT ![i] = st]
    PROVE  VotesAreRemembered'
<1>1. \A v \in votes : v[1] \in Server /\ v[2] \in Nat /\ v[3] \in Server
    BY DEF TypeOK
<1>2. st.term \in Nat /\ state[i].term \in Nat
    BY DEF TypeOK, SrvState
<1>3. \A j \in Server : state'[j] = IF j = i THEN st ELSE state[j]
    BY DEF TypeOK
<1>4. \A j \in Server : saved'[j] = IF j = i THEN st ELSE saved[j]
    BY DEF TypeOK
<1>5. ASSUME NEW v \in votes, v[1] = i
      PROVE  v[2] < st.term \/ (v[2] = st.term /\ v[3] = c)
    <2>1. \/ v[2] < state[i].term
          \/ v[2] = state[i].term /\ v[3] = state[i].voted_for
        BY <1>5 DEF VotesAreRemembered
    <2>2. v[2] \in Nat /\ v[3] # Nobody
        BY <1>1, ServerAssumption
    <2>3. CASE st.term > state[i].term
        BY <1>2, <2>1, <2>2, <2>3
    <2>4. CASE st.term = state[i].term /\ state[i].voted_for \in {c, Nobody}
        BY <2>1, <2>2, <2>4
    <2>5. QED
        BY <2>3, <2>4
<1>6. ASSUME NEW v \in votes'
      PROVE  \/ v[2] < saved'[v[1]].term
             \/ v[2] = saved'[v[1]].term /\ v[3] = saved'[v[1]].voted_for
    <2>1. CASE v = <<i, st.term, c>>
        BY <1>4, <2>1
    <2>2. CASE v \in votes /\ v[1] = i
        BY <1>4, <1>5, <2>2
    <2>3. CASE v \in votes /\ v[1] # i
        BY <1>1, <1>4, <2>3 DEF VotesAreRemembered
    <2>4. QED
        BY <2>1, <2>2, <2>3
<1>7. QED
    BY <1>3, <1>4, <1>6 DEF VotesAreRemembered

\* A step that leaves the votes and every copy of the srv_state alone.
LEMMA VotesUntouched ==
    ASSUME VotesAreRemembered,
           UNCHANGED <<votes, bg, state, saved>>
    PROVE  VotesAreRemembered'
BY DEF VotesAreRemembered

\* handle_vote_req keeps the vote bookkeeping: the vote is on disk before the
\* response leaves.
LEMMA VoteReqHandlerVotes ==
    ASSUME TypeOK, VotesAreRemembered, NEW m \in net, HandleVoteReq(m)
    PROVE  VotesAreRemembered'
<1> DEFINE i == m.dst
           st == StateAt(i, m.term)
           voted == [st EXCEPT !.voted_for = m.src]
<1>1. i \in Server /\ m.src \in Server /\ m.term \in Nat
    <2>1. m \in VoteReqs
        BY MessageKinds DEF TypeOK, HandleVoteReq
    <2>2. QED
        BY <2>1 DEF VoteReqs
<1>2. st \in SrvState
    BY <1>1, UpdateTermType
<1>3. CASE Grants(m, st, log[i])
    <2>1. m.term = st.term /\ st.voted_for \in {m.src, Nobody}
        BY <1>3 DEF Grants
    <2>2. /\ voted \in SrvState /\ voted.voted_for = m.src
          /\ voted.term = m.term
        BY <1>1, <1>2, <2>1 DEF SrvState
    <2>3. \/ voted.term > state[i].term
          \/ /\ voted.term = state[i].term
             /\ state[i].voted_for \in {m.src, Nobody}
        <3>1. CASE Later(i, m.term)
            BY <2>2, <3>1 DEF Later
        <3>2. CASE ~Later(i, m.term)
            BY <2>1, <2>2, <3>2 DEF StateAt
        <3>3. QED
            BY <3>1, <3>2
    <2>4. /\ votes' = votes \cup {<<i, voted.term, m.src>>} /\ bg' = bg
          /\ state' = [state EXCEPT ![i] = voted]
          /\ saved' = [saved EXCEPT ![i] = voted]
        BY <1>3, <2>2 DEF HandleVoteReq
    <2> HIDE DEF i, st, voted
    <2>5. QED
        BY <1>1, <2>2, <2>3, <2>4, VoteGiven
<1>4. CASE ~Grants(m, st, log[i])
    <2>1. /\ votes' = votes /\ bg' = bg
          /\ state' = [state EXCEPT ![i] = StateAt(i, m.term)]
          /\ saved' = [saved EXCEPT ![i] = SavedAt(i, m.term)]
        BY <1>4 DEF HandleVoteReq
    <2>2. QED
        BY <1>1, <2>1, VotesOlder
<1>5. QED
    BY <1>3, <1>4

\* handle_append_entries and handle_peer_resp change the term and the vote by
\* update_term only.
LEMMA TermUpdateVotes ==
    ASSUME TypeOK, VotesAreRemembered, NEW m \in net,
           \/ AcceptAppendEntries(m)
           \/ RefuseAppendEntries(m)
           \/ HandleLaterResp(m)
    PROVE  VotesAreRemembered'
<1>1. m.dst \in Server /\ m.term \in Nat
    <2>1. m \in AppendReqs \cup VoteResps \cup AppendResps
        BY MessageKinds DEF TypeOK, AcceptAppendEntries, RefuseAppendEntries,
           HandleLaterResp
    <2>2. QED
        BY <2>1 DEF AppendReqs, VoteResps, AppendResps
<1>2. /\ votes' = votes /\ bg' = bg
      /\ state' = [state EXCEPT ![m.dst] = StateAt(m.dst, m.term)]
      /\ saved' = [saved EXCEPT ![m.dst] = SavedAt(m.dst, m.term)]
    BY DEF AcceptAppendEntries, RefuseAppendEntries, HandleLaterResp,
       FollowSender
<1>3. QED
    BY <1>1, <1>2, VotesOlder

\* request_vote: a candidate votes for itself in a term it just entered.
LEMMA ElectionTimeoutVotes ==
    ASSUME TypeOK, VotesAreRemembered, NEW i \in Server,
           HandleElectionTimeout(i)
    PROVE  VotesAreRemembered'
<1> DEFINE term == state[i].term + 1
           st == [state[i] EXCEPT !.term = term, !.voted_for = i]
<1>1. state[i] \in SrvState /\ term \in Nat /\ term > state[i].term
    BY DEF TypeOK, SrvState
<1>2. /\ votes' = votes \cup {<<i, term, i>>} /\ bg' = bg
      /\ state' = [state EXCEPT ![i] = st]
      /\ saved' = [saved EXCEPT ![i] = st]
    BY DEF HandleElectionTimeout
<1> HIDE DEF term
<1>3. st \in SrvState /\ st.voted_for = i /\ st.term = term
    BY <1>1 DEF SrvState
<1> HIDE DEF st
<1>4. QED
    BY <1>1, <1>2, <1>3, VoteGiven

\* The commit thread changes the commit index and nothing else of the state;
\* with serialized saves it never writes a copy it read earlier.
LEMMA CommitThreadVotes ==
    ASSUME TypeOK, TypeOK', VotesAreRemembered, SavesSerialized,
           NEW i \in Server, CommitInBg(i)
    PROVE  VotesAreRemembered'
<1>1. \A j \in Server : state[j] \in SrvState /\ saved[j] \in SrvState
    BY DEF TypeOK
<1>2. CASE CommitEntry(i)
    <2> DEFINE st == [state[i] EXCEPT !.commit_idx = state[i].commit_idx + 1]
    <2>1. st.term = state[i].term /\ st.voted_for = state[i].voted_for
        BY <1>1 DEF SrvState
    <2>2. state' = [state EXCEPT ![i] = st] /\ saved' = saved
        BY <1>2 DEF CommitEntry
    <2> HIDE DEF st
    <2>3. \A j \in Server : state'[j] = IF j = i THEN st ELSE state[j]
        BY <2>2 DEF TypeOK
    <2>4. \A j \in Server :
              bg'[j].at = IF j = i THEN "commit" ELSE bg[j].at
        BY <1>2 DEF CommitEntry, TypeOK, CommitThread
    <2>5. votes' = votes
        BY <1>2 DEF CommitEntry
    <2>6. QED
        BY <2>1, <2>2, <2>3, <2>4, <2>5, VotesKept DEF VotesAreRemembered
<1>3. CASE SaveCommitted(i)
    <2>1. /\ saved' = [saved EXCEPT ![i] = state[i]]
          /\ bg' = [bg EXCEPT ![i] = InitThread]
          /\ UNCHANGED <<state, votes>>
        BY <1>3 DEF SaveCommitted
    <2>2. \A j \in Server : saved'[j] = IF j = i THEN state[i] ELSE saved[j]
        BY <2>1 DEF TypeOK
    <2>3. \A j \in Server : bg'[j] = IF j = i THEN InitThread ELSE bg[j]
        BY <2>1 DEF TypeOK
    <2>4. InitThread.at # "save"
        BY DEF InitThread
    <2>5. QED
        BY <2>1, <2>2, <2>3, <2>4, VotesKept DEF VotesAreRemembered
<1>4. CASE FinishSave(i)
    BY <1>4 DEF FinishSave, VotesAreRemembered
<1>5. QED
    BY <1>2, <1>3, <1>4 DEF CommitInBg

\* A restarted server remembers the vote of the term it wakes up in.
LEMMA RestartVotes ==
    ASSUME TypeOK, TypeOK', VotesAreRemembered, NEW i \in Server, Restart(i)
    PROVE  VotesAreRemembered'
<1>1. /\ state' = [state EXCEPT ![i] = saved[i]]
      /\ bg' = [bg EXCEPT ![i] = InitThread]
      /\ UNCHANGED <<saved, votes>>
    BY DEF Restart, Restored
<1>2. \A j \in Server : state'[j] = IF j = i THEN saved[i] ELSE state[j]
    BY <1>1 DEF TypeOK
<1>3. \A j \in Server : bg'[j] = IF j = i THEN InitThread ELSE bg[j]
    BY <1>1 DEF TypeOK
<1>4. InitThread.at # "save"
    BY DEF InitThread
<1>5. QED
    BY <1>1, <1>2, <1>3, <1>4, VotesKept DEF VotesAreRemembered

\* If state_mgr serializes save_state, then at every moment lock_ is free the
\* term and vote on disk are those in memory and record the last vote given,
\* through elections, term updates, commits, RPC errors and restarts.
THEOREM VotesRemembered ==
    ASSUME SavesSerialized
    PROVE  Spec => []VotesAreRemembered
<1>1. Init => VotesAreRemembered
    BY DEF Init, InitThread, VotesAreRemembered
<1>2. TypeOK /\ TypeOK' /\ VotesAreRemembered /\ [Next]_vars
          => VotesAreRemembered'
    <2> SUFFICES ASSUME TypeOK, TypeOK', VotesAreRemembered, [Next]_vars
                 PROVE  VotesAreRemembered'
        OBVIOUS
    <2>1. ASSUME NEW m \in net, Receive(m) PROVE VotesAreRemembered'
        <3>1. CASE HandleVoteReq(m)
            BY <3>1, VoteReqHandlerVotes
        <3>2. CASE AcceptAppendEntries(m) \/ RefuseAppendEntries(m)
                       \/ HandleLaterResp(m)
            BY <3>2, TermUpdateVotes
        <3>3. CASE MeetRivalLeader(m)
            BY <3>3, VotesUntouched DEF MeetRivalLeader
        <3>4. CASE HandleVotingResp(m)
            BY <3>4, VotesUntouched DEF HandleVotingResp
        <3>5. CASE SetFree(m)
            BY <3>5, VotesUntouched DEF SetFree
        <3>6. CASE HandleAppendAccepted(m)
            BY <3>6, VotesUntouched DEF HandleAppendAccepted
        <3>7. CASE HandleAppendRefused(m)
            BY <3>7, VotesUntouched DEF HandleAppendRefused
        <3>8. QED
            BY <2>1, <3>1, <3>2, <3>3, <3>4, <3>5, <3>6, <3>7 DEF Receive
    <2>2. ASSUME NEW m \in net, RpcError(m) \/ LoseRequest(m)
          PROVE  VotesAreRemembered'
        BY <2>2, VotesUntouched DEF RpcError, LoseRequest
    <2>3. ASSUME NEW i \in Server, HandleElectionTimeout(i)
          PROVE  VotesAreRemembered'
        BY <2>3, ElectionTimeoutVotes
    <2>4. ASSUME NEW i \in Server, NEW j \in Server, HandleHbTimeout(i, j)
          PROVE  VotesAreRemembered'
        BY <2>4, VotesUntouched DEF HandleHbTimeout
    <2>5. ASSUME NEW i \in Server, NEW val \in Value, HandleCliReq(i, val)
          PROVE  VotesAreRemembered'
        BY <2>5, VotesUntouched DEF HandleCliReq
    <2>6. ASSUME NEW i \in Server, CommitInBg(i) PROVE VotesAreRemembered'
        BY <2>6, CommitThreadVotes
    <2>7. ASSUME NEW i \in Server, Restart(i) PROVE VotesAreRemembered'
        BY <2>7, RestartVotes
    <2>8. CASE UNCHANGED vars
        BY <2>8, VotesUntouched DEF vars
    <2>9. QED
        BY <2>1, <2>2, <2>3, <2>4, <2>5, <2>6, <2>7, <2>8 DEF Next
<1>3. QED
    BY <1>1, <1>2, TypeCorrect, PTL DEF Spec

\* A step that gives at most the vote it saves keeps votes unique: an older
\* vote of that server is of an earlier term or the same vote.
LEMMA SavedVoteIsOnly ==
    ASSUME TypeOK', VotesAreRemembered', VoteOncePerTerm,
           NEW i \in Server, NEW v, v[1] = i,
           v[2] = saved'[i].term, v[3] = saved'[i].voted_for,
           votes' \subseteq votes \cup {v}
    PROVE  VoteOncePerTerm'
<1> SUFFICES ASSUME NEW a \in votes', NEW b \in votes',
                    a[1] = b[1], a[2] = b[2]
             PROVE  a[3] = b[3]
    BY DEF VoteOncePerTerm
<1>1. saved'[i].term \in Nat
    BY DEF TypeOK, SrvState
<1>2. ASSUME NEW w \in votes', w[1] = i, w[2] = v[2]
      PROVE  w[3] = v[3]
    <2>1. \/ w[2] < saved'[w[1]].term
          \/ w[2] = saved'[w[1]].term /\ w[3] = saved'[w[1]].voted_for
        BY DEF VotesAreRemembered
    <2>2. QED
        BY <1>1, <1>2, <2>1
<1>3. CASE a \in votes /\ b \in votes
    BY <1>3 DEF VoteOncePerTerm
<1>4. CASE a = v \/ b = v
    BY <1>2, <1>4
<1>5. QED
    BY <1>3, <1>4

\* The two steps that give a vote keep votes unique.
LEMMA VotingStepsOnce ==
    ASSUME TypeOK, TypeOK', VotesAreRemembered', VoteOncePerTerm,
           \/ \E m \in net : HandleVoteReq(m)
           \/ \E i \in Server : HandleElectionTimeout(i)
    PROVE  VoteOncePerTerm'
<1>1. ASSUME NEW m \in net, HandleVoteReq(m), votes' # votes
      PROVE  VoteOncePerTerm'
    <2> DEFINE i == m.dst
               st == StateAt(i, m.term)
               voted == [st EXCEPT !.voted_for = m.src]
    <2>1. i \in Server /\ m.term \in Nat
        BY MessageKinds DEF TypeOK
    <2>2. st \in SrvState
        BY <2>1, UpdateTermType
    <2>3. /\ Grants(m, st, log[i])
          /\ votes' = votes \cup {<<i, m.term, m.src>>}
          /\ saved' = [saved EXCEPT ![i] = voted]
        BY <1>1 DEF HandleVoteReq
    <2>4. voted.term = m.term /\ voted.voted_for = m.src
        BY <2>2, <2>3 DEF Grants, SrvState
    <2> HIDE DEF i, st, voted
    <2>5. saved'[i] = voted
        BY <2>1, <2>3 DEF TypeOK
    <2>6. QED
        BY <2>1, <2>3, <2>4, <2>5, SavedVoteIsOnly
<1>2. ASSUME NEW i \in Server, HandleElectionTimeout(i)
      PROVE  VoteOncePerTerm'
    <2> DEFINE term == state[i].term + 1
               st == [state[i] EXCEPT !.term = term, !.voted_for = i]
    <2>1. /\ votes' = votes \cup {<<i, term, i>>}
          /\ saved' = [saved EXCEPT ![i] = st]
        BY <1>2 DEF HandleElectionTimeout
    <2>2. state[i] \in SrvState
        BY DEF TypeOK
    <2> HIDE DEF term
    <2>3. st.term = term /\ st.voted_for = i
        BY <2>2 DEF SrvState
    <2> HIDE DEF st
    <2>4. saved'[i] = st
        BY <2>1 DEF TypeOK
    <2>5. QED
        BY <2>1, <2>3, <2>4, SavedVoteIsOnly
<1>3. CASE votes' = votes
    BY <1>3 DEF VoteOncePerTerm
<1>4. QED
    BY <1>1, <1>2, <1>3

\* Every other step leaves the votes as they are.
LEMMA OtherStepsGiveNoVote ==
    ASSUME [Next]_vars,
           ~ \E m \in net : HandleVoteReq(m),
           ~ \E i \in Server : HandleElectionTimeout(i)
    PROVE  votes' = votes
<1>1. ASSUME NEW m \in net, Receive(m) PROVE votes' = votes
    BY <1>1 DEF Receive, AcceptAppendEntries, RefuseAppendEntries,
       MeetRivalLeader, HandleLaterResp, HandleVotingResp, SetFree,
       HandleAppendAccepted, HandleAppendRefused
<1>2. ASSUME NEW m \in net, RpcError(m) \/ LoseRequest(m)
      PROVE  votes' = votes
    BY <1>2 DEF RpcError, LoseRequest
<1>3. ASSUME NEW i \in Server, NEW j \in Server, HandleHbTimeout(i, j)
      PROVE  votes' = votes
    BY <1>3 DEF HandleHbTimeout
<1>4. ASSUME NEW i \in Server, NEW val \in Value, HandleCliReq(i, val)
      PROVE  votes' = votes
    BY <1>4 DEF HandleCliReq
<1>5. ASSUME NEW i \in Server, CommitInBg(i) \/ Restart(i)
      PROVE  votes' = votes
    BY <1>5 DEF CommitInBg, CommitEntry, SaveCommitted, FinishSave, Restart
<1>6. CASE UNCHANGED vars
    BY <1>6 DEF vars
<1>7. QED
    BY <1>1, <1>2, <1>3, <1>4, <1>5, <1>6 DEF Next

\* Under the same assumption no server ever votes for two candidates in one
\* term, whatever crashes, delays and errors happen between the two requests.
THEOREM OneVotePerTerm ==
    ASSUME SavesSerialized
    PROVE  Spec => []VoteOncePerTerm
<1>1. Init => VoteOncePerTerm
    BY DEF Init, VoteOncePerTerm
<1>2. TypeOK /\ TypeOK' /\ VotesAreRemembered' /\ VoteOncePerTerm
          /\ [Next]_vars => VoteOncePerTerm'
    <2> SUFFICES ASSUME TypeOK, TypeOK', VotesAreRemembered',
                        VoteOncePerTerm, [Next]_vars
                 PROVE  VoteOncePerTerm'
        OBVIOUS
    <2>1. CASE \/ \E m \in net : HandleVoteReq(m)
               \/ \E i \in Server : HandleElectionTimeout(i)
        BY <2>1, VotingStepsOnce
    <2>2. CASE ~ \/ \E m \in net : HandleVoteReq(m)
                 \/ \E i \in Server : HandleElectionTimeout(i)
        BY <2>2, OtherStepsGiveNoVote DEF VoteOncePerTerm
    <2>3. QED
        BY <2>1, <2>2
<1>3. QED
    BY <1>1, <1>2, TypeCorrect, VotesRemembered, PTL DEF Spec
=============================================================================
