------------------------ MODULE RaftReplicationProofs ------------------------
(***************************************************************************)
(* What RaftServer's log replication and commit thread keep, for every     *)
(* cluster and every value of the bounds: a leader only appends, a restart *)
(* never skips an entry, and a busy peer is waiting for something.  Up to  *)
(* the first change of leader, all servers apply the same entries, and     *)
(* what the leader counts as committed is on a majority.  After a change   *)
(* of leader neither holds (the runs that expect a violation show how), so *)
(* this is where agreement ends.                                           *)
(***************************************************************************)
EXTENDS RaftServerProofs, SequenceTheorems

-----------------------------------------------------------------------------
(* A leader only appends. *)

\* Appending keeps what was there.
LEMMA AppendKeeps ==
    ASSUME NEW lg \in Seq(LogEntry), NEW new,
           new = lg \/ \E e \in LogEntry : new = Append(lg, e)
    PROVE  /\ new \in Seq(LogEntry) /\ Len(new) >= Len(lg)
           /\ \A k \in 1..Len(lg) : new[k] = lg[k]
           /\ SubSeq(new, 1, Len(lg)) = lg
<1>1. /\ new \in Seq(LogEntry) /\ Len(new) >= Len(lg)
      /\ \A k \in 1..Len(lg) : new[k] = lg[k]
    BY AppendProperties, LenProperties
<1>2. SubSeq(new, 1, Len(lg)) = lg
    <2>1. /\ SubSeq(new, 1, Len(lg)) \in Seq(LogEntry)
          /\ Len(SubSeq(new, 1, Len(lg))) = Len(lg)
          /\ \A k \in 1..Len(lg) : SubSeq(new, 1, Len(lg))[k] = new[k]
        BY <1>1
    <2>2. QED
        BY <1>1, <2>1, SeqEqual
<1>3. QED
    BY <1>1, <1>2

\* handle_cli_req appends its entry to the log.
LEMMA ClientAppends ==
    ASSUME NEW i \in Server, NEW val \in Value, HandleCliReq(i, val)
    PROVE  \E e \in LogEntry :
               /\ log' = [log EXCEPT ![i] = Append(log[i], e)]
               /\ quick_commit' = [quick_commit EXCEPT ![i] =
                      IF Peers(i) = {} THEN Larger(@, Len(Append(log[i], e)))
                                       ELSE @]
               /\ RequestAppendEntries(i, Peers(i), "leader", state[i].term,
                      Append(log[i], e), quick_commit[i], peers[i], net)
<1> DEFINE e == [term |-> 0, type |-> "app_log", val |-> val]
<1>1. e \in LogEntry
    BY DEF LogEntry
<1>2. /\ log' = [log EXCEPT ![i] = Append(log[i], e)]
      /\ quick_commit' = [quick_commit EXCEPT ![i] =
             IF Peers(i) = {} THEN Larger(@, Len(Append(log[i], e))) ELSE @]
      /\ RequestAppendEntries(i, Peers(i), "leader", state[i].term,
             Append(log[i], e), quick_commit[i], peers[i], net)
    BY DEF HandleCliReq
<1> HIDE DEF e
<1>3. QED
    BY <1>1, <1>2

\* A server leads by winning an election.
LEMMA ElectionStep ==
    ASSUME TypeOK, \/ \E m \in net : HandleVotingResp(m)
                   \/ \E i \in Server : HandleElectionTimeout(i)
    PROVE  \/ UNCHANGED <<log, quick_commit, peers>> /\ elected' = elected
           \/ \E i \in Server, term \in Nat, ms \in SUBSET net :
                  /\ BecomeLeader(i, term, ms)
                  /\ \E w : elected' = elected \cup {w} /\ w.srv = i
                  /\ \A m \in net : m \in ms \/ m.type = "vote_resp"
<1> DEFINE Wins(i) ==
           \E term \in Nat, ms \in SUBSET net :
               /\ BecomeLeader(i, term, ms)
               /\ \E w : elected' = elected \cup {w} /\ w.srv = i
               /\ \A m \in net : m \in ms \/ m.type = "vote_resp"
<1>1. ASSUME NEW m \in net, HandleVotingResp(m)
      PROVE  \/ UNCHANGED <<log, quick_commit, peers>> /\ elected' = elected
             \/ m.dst \in Server /\ Wins(m.dst)
    <2>1. /\ m.dst \in Server /\ state[m.dst].term \in Nat
          /\ m.type = "vote_resp" /\ net \ {m} \in SUBSET net
        BY <1>1, MessageKinds DEF TypeOK, SrvState, HandleVotingResp
    <2>2. \/ /\ UNCHANGED <<log, quick_commit, peers>> /\ elected' = elected
          \/ /\ BecomeLeader(m.dst, state[m.dst].term, net \ {m})
             /\ \E c : elected' = elected \cup
                    {[srv |-> m.dst, term |-> state[m.dst].term, clean |-> c]}
        BY <1>1 DEF HandleVotingResp
    <2>3. ASSUME NEW c, elected' = elected \cup
                    {[srv |-> m.dst, term |-> state[m.dst].term, clean |-> c]}
          PROVE  \E w : elected' = elected \cup {w} /\ w.srv = m.dst
        <3> DEFINE w == [srv |-> m.dst, term |-> state[m.dst].term, clean |-> c]
        <3>1. elected' = elected \cup {w} /\ w.srv = m.dst
            BY <2>3
        <3> HIDE DEF w
        <3>2. QED
            BY <3>1
    <2>4. QED
        BY <2>1, <2>2, <2>3
<1>2. ASSUME NEW i \in Server, HandleElectionTimeout(i)
      PROVE  \/ UNCHANGED <<log, quick_commit, peers>> /\ elected' = elected
             \/ Wins(i)
    <2>1. PICK term \in Nat : term = state[i].term + 1
        BY DEF TypeOK, SrvState
    <2> DEFINE w == [srv |-> i, term |-> term, clean |-> TRUE]
    <2>2. \/ /\ UNCHANGED <<log, quick_commit, peers>> /\ elected' = elected
          \/ /\ BecomeLeader(i, term, net)
             /\ elected' = elected \cup {w}
        BY <1>2, <2>1 DEF HandleElectionTimeout
    <2>3. w.srv = i
        OBVIOUS
    <2> HIDE DEF w
    <2>4. QED
        BY <2>2, <2>3
<1>3. QED
    BY <1>1, <1>2

\* A server that accepts append_entries while it leads stops leading: the
\* request is of a later term.
LEMMA LeaderSteppedDown ==
    ASSUME TypeOK, NEW m \in net, AcceptAppendEntries(m), role[m.dst] = "leader"
    PROVE  role'[m.dst] = "follower"
<1>1. m.dst \in Server /\ m.term \in Nat /\ state[m.dst].term \in Nat
    BY MessageKinds DEF TypeOK, SrvState
<1>2. m.term >= state[m.dst].term /\ m.term # state[m.dst].term
    BY DEF AcceptAppendEntries, FromRival
<1>3. Later(m.dst, m.term)
    BY <1>1, <1>2 DEF Later
<1>4. role' = [role EXCEPT ![m.dst] = "follower"]
    BY <1>2, <1>3 DEF AcceptAppendEntries, FollowSender, RoleAt
<1>5. QED
    BY <1>1, <1>4 DEF TypeOK

\* Which steps change a log, and how: only a server that leads, or has just
\* won an election, appends on its own.
LEMMA LogSteps ==
    ASSUME TypeOK, [Next]_vars
    PROVE  \/ log' = log
           \/ \E i \in Server, e \in LogEntry :
                  /\ log' = [log EXCEPT ![i] = Append(log[i], e)]
                  /\ role[i] = "leader" \/ \E w \in elected' : w.srv = i
           \/ \E m \in net : AcceptAppendEntries(m)
<1> DEFINE Appends ==
               \E i \in Server, e \in LogEntry :
                   /\ log' = [log EXCEPT ![i] = Append(log[i], e)]
                   /\ role[i] = "leader" \/ \E w \in elected' : w.srv = i
<1>1. ASSUME NEW m \in net, Receive(m), ~AcceptAppendEntries(m),
             ~HandleVotingResp(m)
      PROVE  log' = log
    BY <1>1 DEF Receive, HandleVoteReq, RefuseAppendEntries, MeetRivalLeader,
       HandleLaterResp, SetFree, HandleAppendAccepted, HandleAppendRefused
<1>2. ASSUME \/ \E m \in net : HandleVotingResp(m)
             \/ \E i \in Server : HandleElectionTimeout(i)
      PROVE  log' = log \/ Appends
    <2>1. CASE UNCHANGED log
        BY <2>1
    <2>2. ASSUME NEW i \in Server, NEW term \in Nat, NEW ms \in SUBSET net,
                 BecomeLeader(i, term, ms), \E w \in elected' : w.srv = i
          PROVE  log' = log \/ Appends
        <3>1. PICK lg \in Seq(LogEntry) :
                  /\ lg = log[i] \/ \E e \in LogEntry : lg = Append(log[i], e)
                  /\ log' = [log EXCEPT ![i] = lg]
            BY <2>2, BecomeLeaderSends
        <3>2. CASE lg = log[i]
            BY <3>1, <3>2 DEF TypeOK
        <3>3. CASE \E e \in LogEntry : lg = Append(log[i], e)
            BY <2>2, <3>1, <3>3
        <3>4. QED
            BY <3>1, <3>2, <3>3
    <2>3. QED
        BY <1>2, <2>1, <2>2, ElectionStep
<1>3. ASSUME NEW i \in Server, NEW val \in Value, HandleCliReq(i, val)
      PROVE  Appends
    <2>1. role[i] = "leader"
        BY <1>3 DEF HandleCliReq
    <2>2. QED
        BY <1>3, <2>1, ClientAppends
<1>4. ASSUME NEW m \in net, RpcError(m) \/ LoseRequest(m)
      PROVE  log' = log
    BY <1>4 DEF RpcError, LoseRequest
<1>5. ASSUME NEW i \in Server, NEW j \in Server, HandleHbTimeout(i, j)
      PROVE  log' = log
    BY <1>5 DEF HandleHbTimeout
<1>6. ASSUME NEW i \in Server, CommitInBg(i) \/ Restart(i)
      PROVE  log' = log
    BY <1>6 DEF CommitInBg, CommitEntry, SaveCommitted, FinishSave, Restart
<1>7. ASSUME UNCHANGED vars PROVE log' = log
    BY <1>7 DEF vars
<1> DEFINE Explained ==
        log' = log \/ Appends \/ \E m \in net : AcceptAppendEntries(m)
<1>8. ASSUME NEW m \in net, Receive(m) PROVE Explained
    <2>1. CASE HandleVotingResp(m)
        BY <1>2, <2>1
    <2>2. CASE AcceptAppendEntries(m)
        BY <2>2
    <2>3. QED
        BY <1>1, <1>8, <2>1, <2>2
<1>9. ASSUME NEW i \in Server, HandleElectionTimeout(i) PROVE Explained
    BY <1>2, <1>9
<1>10. ASSUME log' = log PROVE Explained
    BY <1>10
<1>11. ASSUME Appends PROVE Explained
    BY <1>11
<1>12. Explained
    <2> HIDE DEF Explained, Appends
    <2>1. QED
        BY <1>3, <1>4, <1>5, <1>6, <1>7, <1>8, <1>9, <1>10, <1>11 DEF Next
<1>13. QED
    BY <1>12

\* A server that leads before and after a step has not lost or changed an
\* entry of its log, whatever requests of older leaders reach it.
THEOREM LeadersOnlyAppend == Spec => LeaderAppendOnly
<1> DEFINE Keeps == \A i \in Server :
               role[i] = "leader" /\ role'[i] = "leader" =>
                   /\ Len(log'[i]) >= Len(log[i])
                   /\ SubSeq(log'[i], 1, Len(log[i])) = log[i]
<1>1. TypeOK /\ [Next]_vars => Keeps
    <2> SUFFICES ASSUME TypeOK, [Next]_vars, NEW i \in Server,
                        role[i] = "leader", role'[i] = "leader"
                 PROVE  /\ Len(log'[i]) >= Len(log[i])
                        /\ SubSeq(log'[i], 1, Len(log[i])) = log[i]
        OBVIOUS
    <2>1. log[i] \in Seq(LogEntry)
        BY DEF TypeOK
    <2>2. log'[i] = log[i] \/ \E e \in LogEntry : log'[i] = Append(log[i], e)
        <3>1. CASE log' = log
            BY <3>1
        <3>2. ASSUME NEW j \in Server, NEW e \in LogEntry,
                     log' = [log EXCEPT ![j] = Append(log[j], e)]
              PROVE  log'[i] = log[i] \/ log'[i] = Append(log[i], e)
            BY <3>2 DEF TypeOK
        <3>3. ASSUME NEW m \in net, AcceptAppendEntries(m)
              PROVE  log'[i] = log[i]
            <4>1. m.dst # i
                BY <3>3, LeaderSteppedDown
            <4>2. QED
                BY <3>3, <4>1 DEF AcceptAppendEntries, TypeOK
        <3>4. QED
            BY <3>1, <3>2, <3>3, LogSteps
    <2>3. QED
        BY <2>1, <2>2, AppendKeeps
<1>2. QED
    BY <1>1, TypeCorrect, PTL DEF Spec, LeaderAppendOnly

-----------------------------------------------------------------------------
(* No entry is skipped. *)

AppliedUpTo(i, n) == \A k \in 1..n : \E a \in applied[i] : a[1] = k
\* The commit index in memory, on disk, and the one about to be saved.
CommitIndexes(i) ==
    {state[i].commit_idx, saved[i].commit_idx, bg[i].copy.commit_idx}
IndexesApplied ==
    \A i \in Server : \A n \in CommitIndexes(i) : AppliedUpTo(i, n)

\* Nothing is applied, and no server has a new commit index.
IndexesStay ==
    /\ applied' = applied
    /\ \A i \in Server : CommitIndexes(i)' \subseteq CommitIndexes(i) \cup {0}

\* What is applied stays applied, so an index that was reached stays reached.
LEMMA IndexesKept ==
    ASSUME IndexesApplied, IndexesStay
    PROVE  IndexesApplied'
<1> SUFFICES ASSUME NEW i \in Server, NEW n \in CommitIndexes(i)', NEW k \in 1..n
             PROVE  \E a \in applied'[i] : a[1] = k
    BY DEF IndexesApplied, AppliedUpTo
<1>1. n \in CommitIndexes(i)
    <2>1. n \in CommitIndexes(i) \/ n = 0
        BY DEF IndexesStay
    <2>2. QED
        BY <2>1
<1>2. \E a \in applied[i] : a[1] = k
    BY <1>1 DEF IndexesApplied, AppliedUpTo
<1>3. QED
    BY <1>2 DEF IndexesStay

\* The handlers that change the term and the vote copy the commit index.
LEMMA TermStepsIndexes ==
    ASSUME TypeOK,
           NEW i \in Server, NEW st \in SrvState, NEW sv \in SrvState,
           st.commit_idx = state[i].commit_idx,
           sv.commit_idx \in {state[i].commit_idx, saved[i].commit_idx},
           state' = [state EXCEPT ![i] = st],
           saved' = [saved EXCEPT ![i] = sv],
           UNCHANGED <<bg, applied>>
    PROVE  IndexesStay
<1>1. \A j \in Server :
          /\ state'[j].commit_idx = state[j].commit_idx
          /\ saved'[j].commit_idx \in {state[j].commit_idx, saved[j].commit_idx}
    BY DEF TypeOK
<1>2. \A j \in Server : CommitIndexes(j)' \subseteq CommitIndexes(j)
    BY <1>1 DEF CommitIndexes
<1>3. QED
    BY <1>2 DEF IndexesStay

\* update_term leaves the commit index alone.
LEMMA UpdateTermIndex ==
    ASSUME TypeOK, NEW i \in Server, NEW term \in Nat
    PROVE  /\ StateAt(i, term).commit_idx = state[i].commit_idx
           /\ SavedAt(i, term).commit_idx
                  \in {state[i].commit_idx, saved[i].commit_idx}
<1>1. state[i] \in SrvState
    BY DEF TypeOK
<1>2. StateAt(i, term).commit_idx = state[i].commit_idx
    BY <1>1 DEF StateAt, SrvState
<1>3. QED
    BY <1>2 DEF SavedAt

\* Requests, responses and elections do not touch the commit index.
LEMMA HandlersIndexes ==
    ASSUME TypeOK,
           \/ \E m \in net : \/ HandleVoteReq(m) \/ AcceptAppendEntries(m)
                             \/ RefuseAppendEntries(m) \/ HandleLaterResp(m)
           \/ \E i \in Server : HandleElectionTimeout(i)
    PROVE  IndexesStay
<1>1. ASSUME NEW m \in net, \/ AcceptAppendEntries(m)
                            \/ RefuseAppendEntries(m) \/ HandleLaterResp(m)
      PROVE  IndexesStay
    <2>1. m.dst \in Server /\ m.term \in Nat
        BY MessageKinds DEF TypeOK
    <2>2. /\ state' = [state EXCEPT ![m.dst] = StateAt(m.dst, m.term)]
          /\ saved' = [saved EXCEPT ![m.dst] = SavedAt(m.dst, m.term)]
          /\ UNCHANGED <<bg, applied>>
        BY <1>1 DEF AcceptAppendEntries, RefuseAppendEntries, HandleLaterResp,
           FollowSender
    <2>3. QED
        BY <2>1, <2>2, UpdateTermType, UpdateTermIndex, TermStepsIndexes
<1>2. ASSUME NEW m \in net, HandleVoteReq(m) PROVE IndexesStay
    <2> DEFINE i == m.dst
               st == StateAt(i, m.term)
               voted == [st EXCEPT !.voted_for = m.src]
    <2>1. i \in Server /\ m.src \in Server /\ m.term \in Nat
        BY MessageKinds DEF TypeOK
    <2>2. /\ st \in SrvState /\ SavedAt(i, m.term) \in SrvState
          /\ st.commit_idx = state[i].commit_idx
          /\ SavedAt(i, m.term).commit_idx
                 \in {state[i].commit_idx, saved[i].commit_idx}
        BY <2>1, UpdateTermType, UpdateTermIndex
    <2>3. voted \in SrvState /\ voted.commit_idx = st.commit_idx
        BY <2>1, <2>2 DEF SrvState
    <2>4. UNCHANGED <<bg, applied>>
        BY <1>2 DEF HandleVoteReq
    <2>5. CASE Grants(m, st, log[i])
        <3>1. /\ state' = [state EXCEPT ![i] = voted]
              /\ saved' = [saved EXCEPT ![i] = voted]
            BY <1>2, <2>5 DEF HandleVoteReq
        <3> HIDE DEF i, st, voted
        <3>2. QED
            BY <2>1, <2>2, <2>3, <2>4, <3>1, TermStepsIndexes
    <2>6. CASE ~Grants(m, st, log[i])
        <3>1. /\ state' = [state EXCEPT ![i] = st]
              /\ saved' = [saved EXCEPT ![i] = SavedAt(i, m.term)]
            BY <1>2, <2>6 DEF HandleVoteReq
        <3> HIDE DEF i, st, voted
        <3>2. QED
            BY <2>1, <2>2, <2>4, <3>1, TermStepsIndexes
    <2>7. QED
        BY <2>5, <2>6
<1>3. ASSUME NEW i \in Server, HandleElectionTimeout(i) PROVE IndexesStay
    <2>1. PICK term \in Nat : term = state[i].term + 1
        BY DEF TypeOK, SrvState
    <2> DEFINE st == [state[i] EXCEPT !.term = term, !.voted_for = i]
    <2>2. st \in SrvState /\ st.commit_idx = state[i].commit_idx
        <3>1. state[i] \in SrvState
            BY DEF TypeOK
        <3>2. QED
            BY <3>1 DEF SrvState
    <2>3. /\ state' = [state EXCEPT ![i] = st]
          /\ saved' = [saved EXCEPT ![i] = st]
          /\ UNCHANGED <<bg, applied>>
        BY <1>3, <2>1 DEF HandleElectionTimeout
    <2> HIDE DEF st
    <2>4. QED
        BY <2>2, <2>3, TermStepsIndexes
<1>4. QED
    BY <1>1, <1>2, <1>3

\* commit_in_bg applies the entry before it counts it.
LEMMA CommitEntryIndexes ==
    ASSUME TypeOK, IndexesApplied, NEW i \in Server, CommitEntry(i)
    PROVE  IndexesApplied'
<1>1. PICK idx \in Nat : idx = state[i].commit_idx + 1
    BY DEF TypeOK, SrvState
<1> DEFINE st == [state[i] EXCEPT !.commit_idx = idx]
           entry == log[i][idx]
<1>2. /\ state' = [state EXCEPT ![i] = st] /\ saved' = saved
      /\ applied' = [applied EXCEPT ![i] = applied[i] \cup {<<idx, entry>>}]
      /\ bg' = [bg EXCEPT ![i].at = "commit"]
    BY <1>1 DEF CommitEntry
<1>3. st.commit_idx = idx
    BY DEF TypeOK, SrvState
<1>4. \A j \in Server : bg'[j].copy = bg[j].copy
    BY <1>2 DEF TypeOK, CommitThread
<1> HIDE DEF st, entry
<1>5. \A j \in Server : state'[j] = IF j = i THEN st ELSE state[j]
    BY <1>2 DEF TypeOK
<1>6. \A j \in Server : applied'[j] =
          IF j = i THEN applied[i] \cup {<<idx, entry>>} ELSE applied[j]
    BY <1>2 DEF TypeOK
<1> SUFFICES ASSUME NEW j \in Server, NEW n \in CommitIndexes(j)', NEW k \in 1..n
             PROVE  \E a \in applied'[j] : a[1] = k
    BY DEF IndexesApplied, AppliedUpTo
<1>7. n \in CommitIndexes(j) \/ (j = i /\ n = idx)
    BY <1>2, <1>3, <1>4, <1>5 DEF CommitIndexes
<1>8. CASE n \in CommitIndexes(j)
    <2>1. \E a \in applied[j] : a[1] = k
        BY <1>8 DEF IndexesApplied, AppliedUpTo
    <2>2. QED
        BY <1>6, <2>1
<1>9. CASE j = i /\ n = idx
    <2>1. CASE k = idx
        <3>1. <<idx, entry>> \in applied'[i] /\ <<idx, entry>>[1] = k
            BY <1>6, <2>1
        <3>2. QED
            BY <1>9, <3>1
    <2>2. CASE k # idx
        <3>1. state[i].commit_idx \in Nat
            BY DEF TypeOK, SrvState
        <3>2. k \in 1..state[i].commit_idx
            BY <1>1, <1>9, <2>2, <3>1
        <3>3. \E a \in applied[i] : a[1] = k
            BY <3>2 DEF IndexesApplied, AppliedUpTo, CommitIndexes
        <3>4. QED
            BY <1>6, <1>9, <3>3
    <2>3. QED
        BY <2>1, <2>2
<1>10. QED
    BY <1>7, <1>8, <1>9

\* commit_in_bg saves what it counted; a restarted server resumes from what was
\* saved.
LEMMA SavesIndexes ==
    ASSUME TypeOK, NEW i \in Server,
           SaveCommitted(i) \/ FinishSave(i) \/ Restart(i)
    PROVE  IndexesStay
<1>1. InitThread.copy.commit_idx = 0
    BY DEF InitThread, InitState
<1>2. applied' = applied
    BY DEF SaveCommitted, FinishSave, Restart
<1>3. \A j \in Server :
          /\ state'[j] \in {state[j], saved[j]}
          /\ saved'[j] \in {state[j], saved[j], bg[j].copy}
          /\ bg'[j].copy \in {state[j], bg[j].copy, InitThread.copy}
    <2>1. CASE SaveCommitted(i)
        <3> DEFINE b == [at |-> "save", copy |-> state[i]]
        <3>1. b.copy = state[i]
            OBVIOUS
        <3>2. /\ saved' = saved \/ saved' = [saved EXCEPT ![i] = state[i]]
              /\ \/ bg' = [bg EXCEPT ![i] = b]
                 \/ bg' = [bg EXCEPT ![i] = InitThread]
              /\ state' = state
            BY <2>1 DEF SaveCommitted
        <3> HIDE DEF b
        <3>3. QED
            BY <3>1, <3>2 DEF TypeOK
    <2>2. CASE FinishSave(i)
        BY <2>2 DEF FinishSave, TypeOK
    <2>3. CASE Restart(i)
        BY <2>3 DEF Restart, Restored, TypeOK
    <2>4. QED
        BY <2>1, <2>2, <2>3
<1>4. \A j \in Server : CommitIndexes(j)' \subseteq CommitIndexes(j) \cup {0}
    BY <1>1, <1>3 DEF CommitIndexes
<1>5. QED
    BY <1>2, <1>4 DEF IndexesStay

\* Only commit_in_bg raises a commit index, by one entry that it applies.
LEMMA IndexSteps ==
    ASSUME TypeOK, [Next]_vars
    PROVE  IndexesStay \/ \E i \in Server : CommitEntry(i)
<1>1. ASSUME UNCHANGED <<state, saved, bg, applied>> PROVE IndexesStay
    BY <1>1 DEF IndexesStay, CommitIndexes
<1>2. ASSUME NEW m \in net, Receive(m) PROVE IndexesStay
    <2>1. CASE \/ HandleVoteReq(m) \/ AcceptAppendEntries(m)
               \/ RefuseAppendEntries(m) \/ HandleLaterResp(m)
        BY <2>1, HandlersIndexes
    <2>2. CASE \/ MeetRivalLeader(m) \/ HandleVotingResp(m) \/ SetFree(m)
               \/ HandleAppendAccepted(m) \/ HandleAppendRefused(m)
        BY <1>1, <2>2 DEF MeetRivalLeader, HandleVotingResp, SetFree,
           HandleAppendAccepted, HandleAppendRefused
    <2>3. QED
        BY <1>2, <2>1, <2>2 DEF Receive
<1>3. ASSUME NEW m \in net, RpcError(m) \/ LoseRequest(m) PROVE IndexesStay
    BY <1>1, <1>3 DEF RpcError, LoseRequest
<1>4. ASSUME NEW i \in Server, HandleElectionTimeout(i) PROVE IndexesStay
    BY <1>4, HandlersIndexes
<1>5. ASSUME NEW i \in Server, NEW j \in Server, HandleHbTimeout(i, j)
      PROVE  IndexesStay
    BY <1>1, <1>5 DEF HandleHbTimeout
<1>6. ASSUME NEW i \in Server, NEW val \in Value, HandleCliReq(i, val)
      PROVE  IndexesStay
    BY <1>1, <1>6 DEF HandleCliReq
<1>7. ASSUME NEW i \in Server, CommitInBg(i) \/ Restart(i), ~CommitEntry(i)
      PROVE  IndexesStay
    BY <1>7, SavesIndexes DEF CommitInBg
<1>8. CASE UNCHANGED vars
    BY <1>1, <1>8 DEF vars
<1>9. QED
    BY <1>2, <1>3, <1>4, <1>5, <1>6, <1>7, <1>8 DEF Next

\* Every index a server may resume from was applied by it: the one in memory,
\* the one on disk and the one that a save under way is about to write.
THEOREM NoEntrySkipped == Spec => []SavedCommitIsApplied
<1>1. Init => IndexesApplied
    BY DEF Init, InitState, InitThread, IndexesApplied, CommitIndexes, AppliedUpTo
<1>2. TypeOK /\ IndexesApplied /\ [Next]_vars => IndexesApplied'
    BY IndexSteps, IndexesKept, CommitEntryIndexes
<1>3. IndexesApplied => SavedCommitIsApplied
    BY DEF IndexesApplied, CommitIndexes, AppliedUpTo, SavedCommitIsApplied
<1>4. QED
    BY <1>1, <1>2, <1>3, TypeCorrect, PTL DEF Spec

-----------------------------------------------------------------------------
(* A busy peer is waiting for something. *)

\* The server whose callback gets the outcome of m, if it waits for one.
Caller(m) == IF IsReq(m) THEN m.src ELSE m.dst
Awaited(m) == ~IsReq(m) \/ m.live
\* m will clear the busy flag that i keeps for j.
Frees(m, i, j) ==
    \/ m.type = "append_req" /\ m.live /\ m.src = i /\ m.dst = j
    \/ m.type = "append_resp" /\ m.queued = 0 /\ m.dst = i /\ m.src = j

\* A process that ended gets no callbacks.
CallersUp == \A m \in net : Awaited(m) => Up(Caller(m))
BusyInv == CallersUp /\ BusyPeerAwaitsReply

\* The busy flags in terms of Frees.
LEMMA BusyMeans ==
    BusyPeerAwaitsReply <=>
        \A i, j \in Server : Up(i) /\ peers[i][j].busy => \E m \in net : Frees(m, i, j)
BY DEF BusyPeerAwaitsReply, Frees

\* A step that adds no caller and no busy flag, and loses no message that a
\* busy flag waits for.
LEMMA BusyKept ==
    ASSUME BusyInv,
           \A n \in net' : Awaited(n) =>
               \E m \in net : Awaited(m) /\ Caller(m) = Caller(n),
           \A m \in net : Caller(m) \in Server,
           \A i \in Server : \/ Up(i) => Up(i)'
                             \/ \A n \in net' : Awaited(n) => Caller(n) # i,
           \A i, j \in Server : Up(i)' /\ peers'[i][j].busy =>
               /\ Up(i) /\ peers[i][j].busy
               /\ \A m \in net : Frees(m, i, j) => \E n \in net' : Frees(n, i, j)
    PROVE  BusyInv'
<1>1. CallersUp'
    <2> SUFFICES ASSUME NEW n \in net', Awaited(n) PROVE Up(Caller(n))'
        BY DEF CallersUp, Awaited, Caller, IsReq
    <2>1. PICK m \in net : Awaited(m) /\ Caller(m) = Caller(n)
        OBVIOUS
    <2>2. Caller(n) \in Server /\ Up(Caller(n))
        BY <2>1 DEF BusyInv, CallersUp
    <2>3. QED
        BY <2>2
<1>2. ASSUME NEW i \in Server, NEW j \in Server, Up(i)', peers'[i][j].busy
      PROVE  \E n \in net' : Frees(n, i, j)
    BY <1>2, BusyMeans DEF BusyInv
<1>3. BusyPeerAwaitsReply'
    BY <1>2 DEF BusyPeerAwaitsReply, Frees, Up
<1>4. QED
    BY <1>1, <1>3 DEF BusyInv

\* Every message has a caller.
LEMMA CallerType ==
    ASSUME NEW m \in Messages PROVE Caller(m) \in Server
BY MessageKinds DEF Caller

\* Nobody waits for a request that was given up.
LEMMA OrphanUnawaited ==
    ASSUME NEW m \in Messages, IsReq(m)
    PROVE  ~Awaited([m EXCEPT !.live = FALSE])
<1>1. m \in VoteReqs \/ m \in AppendReqs
    BY MessageKinds DEF IsReq
<1>2. /\ [m EXCEPT !.live = FALSE].type = m.type
      /\ ~[m EXCEPT !.live = FALSE].live
    BY <1>1 DEF VoteReqs, AppendReqs
<1>3. QED
    BY <1>2 DEF Awaited, IsReq

\* The end of a process takes its own callbacks away and no others.
LEMMA AbandonCallers ==
    ASSUME NEW i, NEW ms \in SUBSET Messages
    PROVE  /\ \A n \in Abandon(i, ms) : Awaited(n) => n \in ms /\ Caller(n) # i
           /\ \A m \in ms : Caller(m) # i => m \in Abandon(i, ms)
<1> DEFINE Orphan(m) == [m EXCEPT !.live = FALSE]
           gone == {r \in ms : IsReq(r) /\ r.src = i}
           left == {m \in ms : IF IsReq(m) THEN m.src # i ELSE m.dst # i}
<1>1. Abandon(i, ms) = left \cup {Orphan(m) : m \in gone}
    BY DEF Abandon
<1>2. \A m \in gone : ~Awaited(Orphan(m))
    BY OrphanUnawaited
<1> HIDE DEF Orphan
<1>3. \A m \in ms : m \in left <=> Caller(m) # i
    BY DEF Caller
<1> HIDE DEF left
<1>4. left \subseteq ms
    BY DEF left
<1>5. QED
    BY <1>1, <1>2, <1>3, <1>4

\* handle_vote_req and handle_append_entries pass the wait on to their
\* response.
LEMMA AnswerBusy ==
    ASSUME TypeOK, BusyInv, NEW m \in net,
           \/ HandleVoteReq(m) \/ AcceptAppendEntries(m)
           \/ RefuseAppendEntries(m)
    PROVE  BusyInv'
<1>1. /\ m \in Messages /\ m.dst \in Server /\ m.src \in Server
      /\ \A n \in net : Caller(n) \in Server
    BY MessageKinds, CallerType DEF TypeOK
<1>2. /\ IsReq(m) /\ Up(m.dst) /\ peers' = peers
      /\ \E r \in {"follower", role[m.dst]} : role' = [role EXCEPT ![m.dst] = r]
    BY DEF HandleVoteReq, AcceptAppendEntries, RefuseAppendEntries, IsReq,
       FollowSender, RoleAt
<1>3. \A i \in Server : Up(i)' <=> Up(i)
    BY <1>1, <1>2 DEF Up, TypeOK
<1>4. \E resp : /\ net' = Answered(m, resp)
                /\ ~IsReq(resp) /\ resp.src = m.dst /\ resp.dst = m.src
                /\ m.type = "append_req" =>
                       resp.type = "append_resp" /\ resp.queued = 0
    <2>1. CASE HandleVoteReq(m)
        <3> DEFINE st == StateAt(m.dst, m.term)
                   resp == VoteResp(m, st.term, Grants(m, st, log[m.dst]))
        <3>1. net' = Answered(m, resp) /\ m.type = "vote_req"
            BY <2>1 DEF HandleVoteReq
        <3>2. ~IsReq(resp) /\ resp.src = m.dst /\ resp.dst = m.src
            BY DEF VoteResp, IsReq
        <3> HIDE DEF resp
        <3>3. QED
            BY <3>1, <3>2
    <2>2. ASSUME NEW t, NEW ok, NEW next, m.type = "append_req",
                 net' = Answered(m, AppendResp(m, t, ok, next))
          PROVE  \E resp : /\ net' = Answered(m, resp)
                           /\ ~IsReq(resp) /\ resp.src = m.dst
                           /\ resp.dst = m.src
                           /\ resp.type = "append_resp" /\ resp.queued = 0
        <3> DEFINE resp == AppendResp(m, t, ok, next)
        <3>1. /\ ~IsReq(resp) /\ resp.src = m.dst /\ resp.dst = m.src
              /\ resp.type = "append_resp" /\ resp.queued = 0
            BY DEF AppendResp, IsReq
        <3>2. net' = Answered(m, resp)
            BY <2>2
        <3> HIDE DEF resp
        <3>3. QED
            BY <3>1, <3>2
    <2>3. QED
        BY <2>1, <2>2 DEF AcceptAppendEntries, RefuseAppendEntries
<1>5. PICK resp : /\ net' = (net \ {m}) \cup (IF m.live THEN {resp} ELSE {})
                  /\ ~IsReq(resp) /\ resp.src = m.dst /\ resp.dst = m.src
                  /\ m.type = "append_req" =>
                         resp.type = "append_resp" /\ resp.queued = 0
    BY <1>4 DEF Answered
<1>6. Caller(resp) = m.src /\ Caller(m) = m.src
    BY <1>2, <1>5 DEF Caller
<1>7. \A n \in net' : Awaited(n) =>
          \E l \in net : Awaited(l) /\ Caller(l) = Caller(n)
    BY <1>5, <1>6 DEF Awaited
<1>8. ASSUME NEW i \in Server, NEW j \in Server, NEW l \in net, Frees(l, i, j)
      PROVE  \E n \in net' : Frees(n, i, j)
    <2>1. CASE l # m
        BY <1>5, <1>8, <2>1
    <2>2. CASE l = m
        <3>1. m.type = "append_req" /\ m.live /\ m.src = i /\ m.dst = j
            BY <1>2, <1>8, <2>2 DEF Frees, IsReq
        <3>2. resp \in net' /\ Frees(resp, i, j)
            BY <1>5, <3>1 DEF Frees
        <3>3. QED
            BY <3>2
    <2>3. QED
        BY <2>1, <2>2
<1>9. QED
    BY <1>1, <1>2, <1>3, <1>7, <1>8, BusyKept

\* Freeing a peer leaves no flag behind and touches no other.
LEMMA FreedBusy ==
    ASSUME TypeOK, NEW a \in Server, NEW b \in Server,
           NEW i \in Server, NEW j \in Server, Freed(a, b)[i][j].busy
    PROVE  peers[i][j].busy /\ ~(i = a /\ j = b)
<1>1. peers[a][b] \in Peer /\ peers[a] \in [Server -> Peer]
    BY DEF TypeOK
<1> DEFINE p == [peers[a][b] EXCEPT !.busy = FALSE]
<1>2. ~p.busy
    BY <1>1 DEF Peer
<1>3. Freed(a, b) = [peers EXCEPT ![a] = [peers[a] EXCEPT ![b] = p]]
    BY <1>1 DEF Freed, TypeOK
<1> HIDE DEF p
<1>4. Freed(a, b)[i][j] = IF i = a /\ j = b THEN p ELSE peers[i][j]
    BY <1>1, <1>3 DEF TypeOK
<1>5. QED
    BY <1>2, <1>4

\* One message goes away, or is replaced by one that nobody else waits for,
\* and whichever flag it would have cleared is clear.
LEMMA DropBusy ==
    ASSUME TypeOK, BusyInv, NEW m \in net,
           \A i \in Server : Up(i)' <=> Up(i),
           \A n \in net : n # m => n \in net',
           \A n \in net' : Awaited(n) =>
               n \in net \/ (Awaited(m) /\ Caller(n) = Caller(m)),
           \A i, j \in Server : peers'[i][j].busy =>
               peers[i][j].busy /\ ~Frees(m, i, j)
    PROVE  BusyInv'
<1>1. \A n \in net : Caller(n) \in Server
    BY CallerType DEF TypeOK
<1>2. \A n \in net' : Awaited(n) =>
          \E l \in net : Awaited(l) /\ Caller(l) = Caller(n)
    OBVIOUS
<1>3. QED
    BY <1>1, <1>2, BusyKept

\* The steps that take one message away.
LEMMA LosingBusy ==
    ASSUME TypeOK, BusyInv, NEW m \in net,
           \/ HandleLaterResp(m) \/ SetFree(m) \/ RpcError(m) \/ LoseRequest(m)
    PROVE  BusyInv'
<1>1. m \in Messages /\ m.dst \in Server /\ m.src \in Server
    BY MessageKinds DEF TypeOK
<1>2. CASE HandleLaterResp(m)
    <2>1. /\ ~IsReq(m) /\ \A i, j : ~Frees(m, i, j)
          /\ net' = net \ {m} /\ peers' = peers
          /\ role' = [role EXCEPT ![m.dst] = "follower"]
        <3>1. m.type = "vote_resp" \/ (m.type = "append_resp" /\ m.queued > 0)
            BY <1>2 DEF HandleLaterResp
        <3>2. ~IsReq(m) /\ \A i, j : ~Frees(m, i, j)
            BY <3>1 DEF IsReq, Frees
        <3>3. QED
            BY <1>2, <3>2 DEF HandleLaterResp, RoleAt
    <2>2. Up(m.dst)
        BY <2>1 DEF BusyInv, CallersUp, Awaited, Caller
    <2>3. \A i \in Server : Up(i)' <=> Up(i)
        BY <1>1, <2>1, <2>2 DEF Up, TypeOK
    <2>4. QED
        BY <2>1, <2>3, DropBusy
<1>3. CASE SetFree(m)
    <2>1. PICK k \in 1..MaxQueued : net' = (net \ {m}) \cup {[m EXCEPT !.queued = k]}
        BY <1>3 DEF SetFree
    <2> DEFINE c == [m EXCEPT !.queued = k]
    <2>2. m \in AppendResps /\ m.type = "append_resp"
        BY <1>1, <1>3, MessageKinds DEF SetFree
    <2>3. c.type = m.type /\ c.dst = m.dst
        BY <2>2 DEF AppendResps
    <2>4. net' = (net \ {m}) \cup {c}
        BY <2>1
    <2> HIDE DEF c
    <2>5. ~IsReq(m) /\ Awaited(m) /\ Caller(c) = Caller(m)
        BY <2>2, <2>3 DEF IsReq, Awaited, Caller
    <2>6. peers' = Freed(m.dst, m.src) /\ role' = role
        BY <1>3 DEF SetFree
    <2>7. \A i, j \in Server : peers'[i][j].busy =>
              peers[i][j].busy /\ ~(i = m.dst /\ j = m.src)
        BY <1>1, <2>6, FreedBusy
    <2>8. \A i, j : Frees(m, i, j) => i = m.dst /\ j = m.src
        BY <2>2 DEF Frees
    <2>9. \A i \in Server : Up(i)' <=> Up(i)
        BY <2>6 DEF Up
    <2>10. QED
        BY <2>4, <2>5, <2>7, <2>8, <2>9, DropBusy
<1>4. CASE RpcError(m)
    <2>1. role' = role /\ \A i \in Server : Up(i)' <=> Up(i)
        BY <1>4 DEF RpcError, Up
    <2>2. \/ net' = net \ {m}
          \/ IsReq(m) /\ net' = (net \ {m}) \cup {[m EXCEPT !.live = FALSE]}
        BY <1>4 DEF RpcError
    <2>3. \A n \in net' : Awaited(n) => n \in net
        BY <1>1, <2>2, OrphanUnawaited
    <2>4. \A n \in net : n # m => n \in net'
        BY <2>2
    <2>5. CASE m.type = "append_req"
        <3>1. peers' = Freed(m.src, m.dst)
            BY <1>4, <2>5 DEF RpcError, IsReq
        <3>2. \A i, j \in Server : peers'[i][j].busy =>
                  peers[i][j].busy /\ ~(i = m.src /\ j = m.dst)
            BY <1>1, <3>1, FreedBusy
        <3>3. \A i, j : Frees(m, i, j) => i = m.src /\ j = m.dst
            BY <2>5 DEF Frees
        <3>4. QED
            BY <2>1, <2>3, <2>4, <3>2, <3>3, DropBusy
    <2>6. CASE m.type = "append_resp"
        <3>1. peers' = Freed(m.dst, m.src)
            BY <1>4, <2>6 DEF RpcError, IsReq
        <3>2. \A i, j \in Server : peers'[i][j].busy =>
                  peers[i][j].busy /\ ~(i = m.dst /\ j = m.src)
            BY <1>1, <3>1, FreedBusy
        <3>3. \A i, j : Frees(m, i, j) => i = m.dst /\ j = m.src
            BY <2>6 DEF Frees
        <3>4. QED
            BY <2>1, <2>3, <2>4, <3>2, <3>3, DropBusy
    <2>7. CASE m.type # "append_req" /\ m.type # "append_resp"
        <3>1. peers' = peers /\ \A i, j : ~Frees(m, i, j)
            BY <1>4, <2>7 DEF RpcError, Frees
        <3>2. QED
            BY <2>1, <2>3, <2>4, <3>1, DropBusy
    <2>8. QED
        BY <2>5, <2>6, <2>7
<1>5. CASE LoseRequest(m)
    <2>1. /\ net' = net \ {m} /\ peers' = peers /\ role' = role
          /\ \A i, j : ~Frees(m, i, j)
        BY <1>5 DEF LoseRequest, Frees, IsReq
    <2>2. \A i \in Server : Up(i)' <=> Up(i)
        BY <2>1 DEF Up
    <2>3. QED
        BY <2>1, <2>2, DropBusy
<1>6. QED
    BY <1>2, <1>3, <1>4, <1>5

\* An exit takes its own callbacks away; the leader whose request made the
\* server exit gets an error.
LEMMA RivalBusy ==
    ASSUME TypeOK, BusyInv, NEW m \in net, MeetRivalLeader(m)
    PROVE  BusyInv'
<1>1. /\ m \in Messages /\ m.dst \in Server /\ m.src \in Server
      /\ net \ {m} \in SUBSET Messages
      /\ \A n \in net : Caller(n) \in Server
    BY MessageKinds, CallerType DEF TypeOK
<1>2. /\ role' = [role EXCEPT ![m.dst] = "exited"]
      /\ peers' = IF m.live THEN Freed(m.src, m.dst) ELSE peers
      /\ net' = Abandon(m.dst, net \ {m})
      /\ m.type = "append_req"
    BY DEF MeetRivalLeader
<1>3. /\ \A n \in net' : Awaited(n) => n \in net /\ Caller(n) # m.dst
      /\ \A n \in net : n # m /\ Caller(n) # m.dst => n \in net'
    BY <1>1, <1>2, AbandonCallers
<1>4. \A i \in Server : Up(i)' <=> Up(i) /\ i # m.dst
    BY <1>1, <1>2 DEF Up, TypeOK
<1>5. ASSUME NEW i \in Server, NEW j \in Server, Up(i)', peers'[i][j].busy
      PROVE  peers[i][j].busy /\ ~Frees(m, i, j)
    <2>1. CASE m.live
        <3>1. peers[i][j].busy /\ ~(i = m.src /\ j = m.dst)
            BY <1>1, <1>2, <1>5, <2>1, FreedBusy
        <3>2. QED
            BY <1>2, <3>1 DEF Frees
    <2>2. CASE ~m.live
        BY <1>2, <1>5, <2>2 DEF Frees
    <2>3. QED
        BY <2>1, <2>2
<1>6. \A n, i, j : Frees(n, i, j) => Caller(n) = i
    BY DEF Frees, Caller, IsReq
<1>7. ASSUME NEW i \in Server, NEW j \in Server, Up(i)', peers'[i][j].busy,
             NEW n \in net, Frees(n, i, j)
      PROVE  n \in net'
    BY <1>3, <1>4, <1>5, <1>6, <1>7
<1>8. QED
    BY <1>1, <1>3, <1>4, <1>5, <1>7, BusyKept

\* A restarted server has no busy peer and waits for nothing.
LEMMA RestartBusy ==
    ASSUME TypeOK, BusyInv, NEW i \in Server, Restart(i)
    PROVE  BusyInv'
<1>1. /\ net \in SUBSET Messages /\ \A n \in net : Caller(n) \in Server
    BY CallerType DEF TypeOK
<1>2. /\ role' = [role EXCEPT ![i] = "follower"]
      /\ peers' = [peers EXCEPT ![i] = [j \in Server |-> InitPeer]]
      /\ net' = Abandon(i, net)
    BY DEF Restart
<1>3. /\ \A n \in net' : Awaited(n) => n \in net /\ Caller(n) # i
      /\ \A n \in net : Caller(n) # i => n \in net'
    BY <1>1, <1>2, AbandonCallers
<1>4. \A c \in Server : c # i => (Up(c)' <=> Up(c))
    BY <1>2 DEF Up, TypeOK
<1>5. \A c, j \in Server : peers'[c][j].busy => c # i /\ peers[c][j].busy
    BY <1>2 DEF TypeOK, InitPeer
<1>6. \A n, c, j : Frees(n, c, j) => Caller(n) = c
    BY DEF Frees, Caller, IsReq
<1>7. QED
    BY <1>1, <1>3, <1>4, <1>5, <1>6, BusyKept

\* request_append_entries marks a peer busy exactly when it sends it a
\* request; if it ends the process instead, nobody waits any more.
LEMMA SendBusy ==
    ASSUME TypeOK, BusyInv, NEW i \in Server, Up(i),
           NEW dests \in SUBSET Server, NEW r \in Roles, r # "exited",
           NEW term \in Nat, NEW lg \in Seq(LogEntry), NEW ci \in Nat,
           NEW ps \in [Server -> Peer], NEW ms \in SUBSET net,
           \A j \in Server : ps[j].busy => peers[i][j].busy,
           \A n \in net : n \in ms \/ \A a, b : ~Frees(n, a, b),
           RequestAppendEntries(i, dests, r, term, lg, ci, ps, ms)
    PROVE  BusyInv'
<1> DEFINE free == {j \in dests : ~ps[j].busy}
           bad == {j \in free : TooLarge(ps[j], lg)}
           Req(j) == AppendReq(i, j, term, lg, ps[j], ci)
<1>1. \A a, b \in Server : Up(a) /\ peers[a][b].busy => \E n \in ms : Frees(n, a, b)
    BY BusyMeans DEF BusyInv
<1>2. \A n \in ms : Awaited(n) => Up(Caller(n)) /\ Caller(n) \in Server
    BY CallerType DEF BusyInv, CallersUp, TypeOK
<1>3. \A j \in Server : /\ Req(j).type = "append_req" /\ Req(j).live
                         /\ Req(j).src = i /\ Req(j).dst = j
    BY DEF AppendReq
<1>4. ASSUME NEW j \in free \ bad PROVE Req(j) \in Messages
    BY AppendReqType
<1>5. CASE bad = {}
    <2> DEFINE np == [j \in Server |->
                   IF j \in free
                   THEN [ps[j] EXCEPT !.next_log_idx = NextLogIdx(ps[j], lg),
                                      !.busy = TRUE]
                   ELSE ps[j]]
    <2>1. /\ role' = [role EXCEPT ![i] = r]
          /\ peers' = [peers EXCEPT ![i] = np]
          /\ net' = ms \cup {Req(j) : j \in free}
        BY <1>5 DEF RequestAppendEntries
    <2>2. \A j \in Server : np[j].busy => j \in free \/ peers[i][j].busy
        OBVIOUS
    <2> HIDE DEF np, Req, free
    <2>3. /\ \A a, b \in Server : peers'[a][b] = IF a = i THEN np[b] ELSE peers[a][b]
          /\ \A a \in Server : Up(a)' <=> Up(a)
        BY <2>1 DEF TypeOK, Up
    <2>4. free \subseteq Server
        BY DEF free
    <2>5. \A n \in net' : Awaited(n) => Up(Caller(n))'
        <3> SUFFICES ASSUME NEW n \in net', Awaited(n) PROVE Up(Caller(n))'
            OBVIOUS
        <3>1. CASE n \in ms
            BY <1>2, <2>3, <3>1
        <3>2. ASSUME NEW j \in free, n = Req(j) PROVE Up(Caller(n))'
            <4>1. Caller(n) = i
                BY <1>3, <2>4, <3>2 DEF Caller, IsReq
            <4>2. QED
                BY <2>3, <4>1
        <3>3. QED
            BY <2>1, <3>1, <3>2
    <2>6. ASSUME NEW a \in Server, NEW b \in Server, Up(a)', peers'[a][b].busy
          PROVE  \E n \in net' : Frees(n, a, b)
        <3>1. CASE peers[a][b].busy
            BY <1>1, <2>1, <2>3, <2>6, <3>1
        <3>2. CASE a = i /\ b \in free
            <4>1. Req(b) \in net' /\ Frees(Req(b), a, b)
                BY <1>3, <2>1, <3>2 DEF Frees
            <4>2. QED
                BY <4>1
        <3>3. QED
            BY <2>2, <2>3, <2>6, <3>1, <3>2
    <2>7. CallersUp'
        BY <2>5 DEF CallersUp, Awaited, Caller, IsReq
    <2>8. BusyPeerAwaitsReply'
        BY <2>6 DEF BusyPeerAwaitsReply, Frees, Up
    <2>9. QED
        BY <2>7, <2>8 DEF BusyInv
<1>6. CASE bad # {}
    <2>1. PICK sent \in SUBSET (free \ bad) :
              net' = Abandon(i, ms \cup {Req(j) : j \in sent})
        BY <1>6 DEF RequestAppendEntries
    <2>2. /\ role' = [role EXCEPT ![i] = "exited"]
          /\ peers' = [peers EXCEPT ![i] = ps]
        BY <1>6 DEF RequestAppendEntries
    <2> DEFINE all == ms \cup {Req(j) : j \in sent}
    <2>3. \A n \in all : n \in ms \/ Caller(n) = i
        BY <1>3 DEF Caller, IsReq
    <2> HIDE DEF Req
    <2>4. all \in SUBSET Messages
        BY <1>4 DEF TypeOK
    <2>5. net' = Abandon(i, all) /\ ms \subseteq all
        BY <2>1
    <2> HIDE DEF all
    <2>6. /\ \A n \in net' : Awaited(n) => n \in all /\ Caller(n) # i
          /\ \A n \in ms : Caller(n) # i => n \in net'
        BY <2>4, <2>5, AbandonCallers
    <2>7. \A a \in Server : Up(a)' <=> Up(a) /\ a # i
        BY <2>2 DEF Up, TypeOK
    <2>8. \A a, b \in Server : a # i => peers'[a][b] = peers[a][b]
        BY <2>2 DEF TypeOK
    <2>9. CallersUp'
        <3>1. \A n \in net' : Awaited(n) => Up(Caller(n))'
            BY <1>2, <2>3, <2>6, <2>7
        <3>2. QED
            BY <3>1 DEF CallersUp, Awaited, Caller, IsReq
    <2>10. BusyPeerAwaitsReply'
        <3>1. \A n, a, b : Frees(n, a, b) => Caller(n) = a
            BY DEF Frees, Caller, IsReq
        <3>2. ASSUME NEW a \in Server, NEW b \in Server, Up(a)', peers'[a][b].busy
              PROVE  \E n \in net' : Frees(n, a, b)
            BY <1>1, <2>6, <2>7, <2>8, <3>1, <3>2
        <3>3. QED
            BY <3>2 DEF BusyPeerAwaitsReply, Frees, Up
    <2>11. QED
        BY <2>9, <2>10 DEF BusyInv
<1>7. QED
    BY <1>5, <1>6

\* The steps that send append_entries requests.
LEMMA SendingBusy ==
    ASSUME TypeOK, BusyInv,
           \/ \E i, j \in Server : HandleHbTimeout(i, j)
           \/ \E i \in Server, val \in Value : HandleCliReq(i, val)
           \/ \E m \in net : HandleAppendAccepted(m) \/ HandleAppendRefused(m)
    PROVE  BusyInv'
<1>1. \A i \in Server :
          /\ role[i] \in Roles /\ state[i].term \in Nat
          /\ log[i] \in Seq(LogEntry) /\ quick_commit[i] \in Nat
          /\ peers[i] \in [Server -> Peer]
    BY DEF TypeOK, SrvState
<1>2. "leader" \in Roles
    BY DEF Roles
<1>3. ASSUME NEW i \in Server, NEW j \in Server, HandleHbTimeout(i, j)
      PROVE  BusyInv'
    <2>1. /\ Up(i)
          /\ RequestAppendEntries(i, {j}, "leader", state[i].term, log[i],
                                  quick_commit[i], peers[i], net)
        BY <1>3 DEF HandleHbTimeout, Up
    <2>2. QED
        BY <1>1, <1>2, <2>1, SendBusy
<1>4. ASSUME NEW i \in Server, NEW val \in Value, HandleCliReq(i, val)
      PROVE  BusyInv'
    <2>1. PICK e \in LogEntry :
              RequestAppendEntries(i, Peers(i), "leader", state[i].term,
                  Append(log[i], e), quick_commit[i], peers[i], net)
        BY <1>4, ClientAppends
    <2>2. Append(log[i], e) \in Seq(LogEntry) /\ Peers(i) \in SUBSET Server
        BY <1>1 DEF Peers
    <2>3. Up(i)
        BY <1>4 DEF HandleCliReq, Up
    <2>4. QED
        BY <1>1, <1>2, <2>1, <2>2, <2>3, SendBusy
<1>5. ASSUME NEW m \in net, HandleAppendAccepted(m) \/ HandleAppendRefused(m)
      PROVE  BusyInv'
    <2>1. m.type = "append_resp" /\ m.queued > 0 /\ m.dst \in Server
        BY <1>5, MessageKinds DEF HandleAppendAccepted, HandleAppendRefused, TypeOK
    <2>2. Up(m.dst)
        BY <2>1 DEF BusyInv, CallersUp, Awaited, Caller, IsReq
    <2>3. \A a, b : ~Frees(m, a, b)
        BY <2>1 DEF Frees
    <2>4. PICK dests \in SUBSET Server, ps \in [Server -> Peer], ci \in Nat :
              /\ RequestAppendEntries(m.dst, dests, role[m.dst],
                     state[m.dst].term, log[m.dst], ci, ps, net \ {m})
              /\ \A j \in Server : ps[j].busy = peers[m.dst][j].busy
        <3>1. CASE HandleAppendAccepted(m)
            <4>1. PICK dests \in SUBSET Server, ps \in [Server -> Peer], ci \in Nat :
                      /\ RequestAppendEntries(m.dst, dests, role[m.dst],
                             state[m.dst].term, log[m.dst], ci, ps, net \ {m})
                      /\ \A j \in Server :
                             /\ ps[j].busy = peers[m.dst][j].busy
                             /\ ps[j].matched_idx = IF j = m.src THEN m.next_idx - 1
                                                    ELSE peers[m.dst][j].matched_idx
                      /\ dests \subseteq Peers(m.dst) \cup {m.src}
                      /\ \/ quick_commit' = quick_commit
                         \/ /\ quick_commit' = [quick_commit EXCEPT ![m.dst] = ci]
                            /\ ci >= quick_commit[m.dst]
                            /\ IsMajority(Cardinality({j \in Server :
                                   (IF j = m.dst THEN Len(log[m.dst])
                                                 ELSE ps[j].matched_idx) >= ci}))
                BY <3>1, AppendAcceptedSends, Zenon
            <4>2. \A j \in Server : ps[j].busy = peers[m.dst][j].busy
                BY <4>1
            <4>3. QED
                BY <4>1, <4>2
        <3>2. CASE HandleAppendRefused(m)
            <4>1. PICK dests \in SUBSET Server, ps \in [Server -> Peer], ci \in Nat :
                      /\ RequestAppendEntries(m.dst, dests, role[m.dst],
                             state[m.dst].term, log[m.dst], ci, ps, net \ {m})
                      /\ \A j \in Server :
                             /\ ps[j].busy = peers[m.dst][j].busy
                             /\ ps[j].matched_idx = peers[m.dst][j].matched_idx
                      /\ dests \subseteq {m.src}
                BY <3>2, AppendRefusedSends, Zenon
            <4>2. \A j \in Server : ps[j].busy = peers[m.dst][j].busy
                BY <4>1
            <4>3. QED
                BY <4>1, <4>2
        <3>3. QED
            BY <1>5, <3>1, <3>2
    <2>5. \A n \in net : n \in net \ {m} \/ \A a, b : ~Frees(n, a, b)
        BY <2>3
    <2>6. role[m.dst] # "exited" /\ net \ {m} \in SUBSET net
        BY <2>2 DEF Up
    <2>7. QED
        BY <1>1, <2>1, <2>2, <2>4, <2>5, <2>6, SendBusy, ZenonT(60)
<1>6. QED
    BY <1>3, <1>4, <1>5

\* A new leader forgets which peers were busy and sends to all of them.
LEMMA ElectionBusy ==
    ASSUME TypeOK, BusyInv,
           \/ \E m \in net : HandleVotingResp(m)
           \/ \E i \in Server : HandleElectionTimeout(i)
    PROVE  BusyInv'
<1>1. ASSUME NEW i \in Server, NEW term \in Nat, NEW ms \in SUBSET net,
             Up(i), BecomeLeader(i, term, ms),
             \A n \in net : n \in ms \/ n.type = "vote_resp"
      PROVE  BusyInv'
    <2>1. PICK lg \in Seq(LogEntry), ps \in [Server -> Peer] :
              /\ RequestAppendEntries(i, Peers(i), "leader", term, lg,
                                      quick_commit[i], ps, ms)
              /\ \A j \in Server : ps[j].busy => peers[i][j].busy
        BY <1>1, BecomeLeaderSends
    <2>2. /\ "leader" \in Roles /\ "leader" # "exited"
          /\ Peers(i) \in SUBSET Server /\ quick_commit[i] \in Nat
        BY DEF Roles, Peers, TypeOK
    <2>3. \A n \in net : n \in ms \/ \A a, b : ~Frees(n, a, b)
        BY <1>1 DEF Frees
    <2>4. QED
        BY <1>1, <2>1, <2>2, <2>3, SendBusy
<1>2. ASSUME NEW m \in net, HandleVotingResp(m) PROVE BusyInv'
    <2>1. /\ m.type = "vote_resp" /\ m.dst \in Server
          /\ state[m.dst].term \in Nat
        BY <1>2, MessageKinds DEF HandleVotingResp, TypeOK, SrvState
    <2>2. Up(m.dst)
        BY <2>1 DEF BusyInv, CallersUp, Awaited, Caller, IsReq
    <2>3. CASE BecomeLeader(m.dst, state[m.dst].term, net \ {m})
        BY <1>1, <2>1, <2>2, <2>3
    <2>4. CASE net' = net \ {m} /\ UNCHANGED <<role, peers>>
        <3>1. \A a, b : ~Frees(m, a, b)
            BY <2>1 DEF Frees
        <3>2. \A i \in Server : Up(i)' <=> Up(i)
            BY <2>4 DEF Up
        <3>3. QED
            BY <2>4, <3>1, <3>2, DropBusy
    <2>5. QED
        BY <1>2, <2>3, <2>4 DEF HandleVotingResp
<1>3. ASSUME NEW i \in Server, HandleElectionTimeout(i) PROVE BusyInv'
    <2>1. PICK term \in Nat : term = state[i].term + 1
        BY DEF TypeOK, SrvState
    <2>2. Up(i)
        BY <1>3 DEF HandleElectionTimeout, Up
    <2>3. CASE BecomeLeader(i, term, net)
        BY <1>1, <2>2, <2>3
    <2> DEFINE reqs == {VoteReq(i, j, term, log[i]) : j \in Peers(i)}
    <2>4. CASE /\ net' = net \cup reqs /\ peers' = peers
               /\ role' = [role EXCEPT ![i] = "candidate"]
        <3>1. \A n \in reqs : Caller(n) = i
            BY DEF VoteReq, Caller, IsReq
        <3> HIDE DEF reqs
        <3>2. \A a \in Server : Up(a)' <=> Up(a)
            BY <2>2, <2>4 DEF Up, TypeOK
        <3>3. \A n \in net : Caller(n) \in Server
            BY CallerType DEF TypeOK
        <3>4. CallersUp'
            <4>1. \A n \in net' : Awaited(n) => Up(Caller(n))'
                BY <2>2, <2>4, <3>1, <3>2, <3>3 DEF BusyInv, CallersUp
            <4>2. QED
                BY <4>1 DEF CallersUp, Awaited, Caller, IsReq
        <3>5. BusyPeerAwaitsReply'
            <4>1. ASSUME NEW a \in Server, NEW b \in Server, Up(a)', peers'[a][b].busy
                  PROVE  \E n \in net' : Frees(n, a, b)
                BY <2>4, <3>2, <4>1, BusyMeans DEF BusyInv
            <4>2. QED
                BY <4>1 DEF BusyPeerAwaitsReply, Frees, Up
        <3>6. QED
            BY <3>4, <3>5 DEF BusyInv
    <2>5. \/ BecomeLeader(i, term, net)
          \/ /\ net' = net \cup reqs /\ peers' = peers
             /\ role' = [role EXCEPT ![i] = "candidate"]
        BY <1>3, <2>1 DEF HandleElectionTimeout
    <2>6. QED
        BY <2>3, <2>4, <2>5
<1>4. QED
    BY <1>2, <1>3

\* A peer that is marked busy always has a request or a response under way
\* that will clear the flag, whichever requests fail, whoever exits and
\* whenever a new leader resets the flags of requests still under way.
THEOREM BusyPeersAwaitReplies == Spec => []BusyPeerAwaitsReply
<1>1. Init => BusyInv
    BY DEF Init, InitPeer, BusyInv, CallersUp, BusyPeerAwaitsReply
<1>2. TypeOK /\ BusyInv /\ [Next]_vars => BusyInv'
    <2> SUFFICES ASSUME TypeOK, BusyInv, [Next]_vars PROVE BusyInv'
        OBVIOUS
    <2>1. ASSUME UNCHANGED <<role, peers, net>> PROVE BusyInv'
        BY <2>1 DEF BusyInv, CallersUp, BusyPeerAwaitsReply, Awaited, Caller, Up
    <2>2. ASSUME NEW m \in net, Receive(m) PROVE BusyInv'
        <3>1. CASE \/ HandleVoteReq(m) \/ AcceptAppendEntries(m)
                   \/ RefuseAppendEntries(m)
            BY <3>1, AnswerBusy
        <3>2. CASE HandleLaterResp(m) \/ SetFree(m)
            BY <3>2, LosingBusy
        <3>3. CASE MeetRivalLeader(m)
            BY <3>3, RivalBusy
        <3>4. CASE HandleVotingResp(m)
            BY <3>4, ElectionBusy
        <3>5. CASE HandleAppendAccepted(m) \/ HandleAppendRefused(m)
            BY <3>5, SendingBusy
        <3>6. QED
            BY <2>2, <3>1, <3>2, <3>3, <3>4, <3>5 DEF Receive
    <2>3. ASSUME NEW m \in net, RpcError(m) \/ LoseRequest(m) PROVE BusyInv'
        BY <2>3, LosingBusy
    <2>4. ASSUME NEW i \in Server, HandleElectionTimeout(i) PROVE BusyInv'
        BY <2>4, ElectionBusy
    <2>5. ASSUME NEW i \in Server, NEW j \in Server, HandleHbTimeout(i, j)
          PROVE  BusyInv'
        BY <2>5, SendingBusy
    <2>6. ASSUME NEW i \in Server, NEW val \in Value, HandleCliReq(i, val)
          PROVE  BusyInv'
        BY <2>6, SendingBusy
    <2>7. ASSUME NEW i \in Server, CommitInBg(i) PROVE BusyInv'
        BY <2>1, <2>7 DEF CommitInBg, CommitEntry, SaveCommitted, FinishSave
    <2>8. ASSUME NEW i \in Server, Restart(i) PROVE BusyInv'
        BY <2>8, RestartBusy
    <2>9. CASE UNCHANGED vars
        BY <2>1, <2>9 DEF vars
    <2>10. QED
        BY <2>2, <2>3, <2>4, <2>5, <2>6, <2>7, <2>8, <2>9 DEF Next
<1>3. BusyInv => BusyPeerAwaitsReply
    BY DEF BusyInv
<1>4. QED
    BY <1>1, <1>2, <1>3, TypeCorrect, PTL DEF Spec

-----------------------------------------------------------------------------
(* Agreement.  The invariant is about the server e that has won every      *)
(* election so far: every log is an initial part of its log, every request *)
(* carries a piece of it, and every acknowledged index is in the log of    *)
(* whoever acknowledged it.                                                *)

\* Only one server has ever won an election.
OneLeaderSoFar == \A a, b \in elected : a.srv = b.srv

\* lg is an initial part of full.
Agrees(lg, full) ==
    Len(lg) <= Len(full) /\ \A k \in 1..Len(lg) : lg[k] = full[k]
\* What e sends is in its log, and what was acknowledged to it is in the log
\* of the server that did.
MessageAgrees(m, e, lgs) ==
    /\ m.type = "append_req" =>
           /\ m.src = e /\ m.dst # e
           /\ m.last_log_idx + Len(m.entries) <= Len(lgs[e])
           /\ \A k \in 1..Len(m.entries) :
                  m.entries[k] = lgs[e][m.last_log_idx + k]
    /\ m.type = "append_resp" =>
           /\ m.dst = e /\ m.src # e
           /\ m.accepted => m.next_idx - 1 <= Len(lgs[m.src])
\* A majority of the logs reach n.
Holding(n, lgs) == IsMajority(Cardinality({j \in Server : Len(lgs[j]) >= n}))

LeadsAlone(e) == \A j \in Server : role[j] = "leader" => j = e
MessagesAgree(e) == \A m \in net : MessageAgrees(m, e, log)
LogsAgree(e) == \A j \in Server : Agrees(log[j], log[e])
AppliedAgree(e) ==
    \A j \in Server : \A a \in applied[j] :
        a[1] \in 1..Len(log[e]) /\ a[2] = log[e][a[1]]
MatchedAgree(e) ==
    \A j \in Peers(e) : peers[e][j].matched_idx <= Len(log[j])
CommitsHeld(e) ==
    /\ Holding(quick_commit[e], log)
    /\ \A n \in CommitIndexes(e) : n <= quick_commit[e]
\* The cluster while e is the only server that has ever led.
FollowsOnly(e) ==
    /\ LeadsAlone(e) /\ MessagesAgree(e) /\ LogsAgree(e)
    /\ AppliedAgree(e) /\ MatchedAgree(e) /\ CommitsHeld(e)
OneLeaderInv ==
    \A e \in Server : (\A w \in elected : w.srv = e) => FollowsOnly(e)

-----------------------------------------------------------------------------
(* Logs and messages. *)

\* write_at and append of entries that agree with what is there, and with the
\* leader's log, leave an initial part of the leader's log and drop nothing.
LEMMA WriteAgrees ==
    ASSUME NEW full \in Seq(LogEntry), NEW lg \in Seq(LogEntry), Agrees(lg, full),
           NEW idx \in Nat, idx <= Len(lg), NEW es \in Seq(LogEntry),
           idx + Len(es) <= Len(full),
           \A k \in 1..Len(es) : es[k] = full[idx + k]
    PROVE  /\ WriteEntries(lg, idx, es) \in Seq(LogEntry)
           /\ Agrees(lg, WriteEntries(lg, idx, es))
           /\ Agrees(WriteEntries(lg, idx, es), full)
           /\ Len(WriteEntries(lg, idx, es)) >= idx + Len(es)
<1> DEFINE S == Stops(lg, idx, es)
<1>1. PICK k \in Nat : k = Overlap(lg, idx, es) /\ k <= Len(es) /\ idx + k <= Len(lg)
    BY OverlapBounds
<1>2. k \in S
    <2>1. S \in SUBSET Nat /\ Len(es) \in S
        BY DEF Stops
    <2>2. \E l \in S : \A n \in S : l <= n
        BY <2>1, LeastNatural
    <2>3. QED
        BY <1>1, <2>2 DEF Overlap
<1>3. CASE k = Len(es)
    <2>1. WriteEntries(lg, idx, es) = lg
        BY <1>1, <1>3 DEF WriteEntries
    <2>2. QED
        BY <1>1, <1>3, <2>1 DEF Agrees
<1>4. CASE k # Len(es)
    <2>1. idx + k = Len(lg)
        <3>1. idx + k >= Len(lg) \/ lg[idx + k + 1].term # es[k + 1].term
            BY <1>2, <1>4 DEF Stops
        <3>2. ASSUME idx + k < Len(lg) PROVE FALSE
            <4>1. lg[idx + k + 1] = full[idx + k + 1]
                BY <1>1, <3>2, SMTT(40) DEF Agrees
            <4>2. k + 1 \in 1..Len(es) /\ idx + (k + 1) = idx + k + 1
                BY <1>1, <1>4
            <4>3. es[k + 1] = full[idx + k + 1]
                BY <4>2
            <4>4. QED
                BY <1>1, <3>1, <3>2, <4>1, <4>3
        <3>3. QED
            BY <1>1, <3>2
    <2> DEFINE a == SubSeq(lg, 1, idx + k)
               b == SubSeq(es, k + 1, Len(es))
    <2>2. WriteEntries(lg, idx, es) = a \o b
        BY <1>1, <1>4 DEF WriteEntries
    <2>3. /\ a \in Seq(LogEntry) /\ Len(a) = Len(lg)
          /\ \A n \in 1..Len(lg) : a[n] = lg[n]
        BY <1>1, <2>1
    <2>4. /\ b \in Seq(LogEntry) /\ Len(b) = Len(es) - k
          /\ \A n \in 1..(Len(es) - k) : b[n] = es[k + n]
        BY <1>1
    <2> HIDE DEF a, b
    <2>5. /\ a \o b \in Seq(LogEntry)
          /\ Len(a \o b) = Len(a) + Len(b)
          /\ \A n \in 1 .. Len(a) + Len(b) :
                 (a \o b)[n] = IF n <= Len(a) THEN a[n] ELSE b[n - Len(a)]
        <3>1. a \in Seq(LogEntry) /\ b \in Seq(LogEntry)
            BY <2>3, <2>4
        <3>2. /\ a \o b \in Seq(LogEntry)
              /\ Len(a \o b) = Len(a) + Len(b)
            BY <3>1
        <3>3. ASSUME NEW n \in 1 .. Len(a) + Len(b)
              PROVE  (a \o b)[n] = IF n <= Len(a) THEN a[n] ELSE b[n - Len(a)]
            BY <3>1
        <3>4. QED
            BY <3>2, <3>3
    <2>6. Len(a \o b) = idx + Len(es)
        BY <1>1, <2>1, <2>3, <2>4, <2>5
    <2>7. Agrees(lg, a \o b)
        <3>1. Len(lg) \in Nat /\ Len(b) \in Nat
            BY <2>4
        <3>2. \A n \in 1..Len(lg) : (a \o b)[n] = lg[n]
            BY <2>3, <2>5, <3>1
        <3>3. QED
            BY <2>3, <2>5, <3>1, <3>2 DEF Agrees
    <2>8. ASSUME NEW n \in 1..Len(a \o b) PROVE (a \o b)[n] = full[n]
        <3>1. CASE n <= Len(lg)
            BY <2>3, <2>4, <2>5, <3>1 DEF Agrees
        <3>2. CASE n > Len(lg)
            <4>1. n - Len(lg) \in 1..(Len(es) - k)
                BY <1>1, <2>1, <2>6, <3>2
            <4>2. (a \o b)[n] = es[k + (n - Len(lg))]
                <5>1. (a \o b)[n] = b[n - Len(lg)]
                    BY <2>3, <2>5, <3>2
                <5>2. QED
                    BY <2>4, <4>1, <5>1
            <4>3. k + (n - Len(lg)) \in 1..Len(es) /\ idx + (k + (n - Len(lg))) = n
                <5>1. Len(lg) \in Nat /\ Len(es) \in Nat /\ n \in Nat
                    BY <2>6
                <5>2. k \in Nat /\ idx \in Nat /\ idx + k = Len(lg)
                    BY <1>1, <2>1
                <5>3. n - Len(lg) >= 1 /\ n - Len(lg) <= Len(es) - k
                    BY <4>1, <5>1, <5>2
                <5>4. k + (n - Len(lg)) >= 1 /\ k + (n - Len(lg)) <= Len(es)
                    BY <5>1, <5>2, <5>3
                <5>5. idx + (k + (n - Len(lg))) = n
                    BY <5>1, <5>2
                <5>6. QED
                    BY <5>1, <5>2, <5>4, <5>5
            <4>4. QED
                BY <4>2, <4>3
        <3>3. QED
            BY <3>1, <3>2, <2>3, <2>4, <2>6
    <2>9. Agrees(a \o b, full)
        BY <2>6, <2>8 DEF Agrees
    <2>10. QED
        BY <2>2, <2>5, <2>6, <2>7, <2>9
<1>5. QED
    BY <1>3, <1>4

\* create_append_entries_req sends a piece of the log.
LEMMA ReqAgrees ==
    ASSUME NEW lgs \in [Server -> Seq(LogEntry)], NEW e \in Server,
           NEW j \in Server, j # e, NEW term, NEW p \in Peer, NEW ci,
           ~TooLarge(p, lgs[e])
    PROVE  MessageAgrees(AppendReq(e, j, term, lgs[e], p, ci), e, lgs)
<1>1. PICK lg \in Seq(LogEntry) : lg = lgs[e]
    OBVIOUS
<1> DEFINE last == NextLogIdx(p, lg) - 1
           end == IF last + MaxAppendSize < Len(lg)
                  THEN last + MaxAppendSize ELSE Len(lg)
           m == AppendReq(e, j, term, lg, p, ci)
<1>2. last \in Nat /\ last <= Len(lg)
    BY <1>1 DEF NextLogIdx, NextSlot, TooLarge, Peer
<1>3. /\ m.type = "append_req" /\ m.src = e /\ m.dst = j
      /\ m.last_log_idx = last /\ m.entries = SubSeq(lg, last + 1, end)
    BY DEF AppendReq
<1> HIDE DEF last, m
<1>4. end \in Nat /\ last <= end /\ end <= Len(lg)
    BY <1>2, NumberAssumption
<1> HIDE DEF end
<1>5. /\ Len(m.entries) = end - last
      /\ \A k \in 1..(end - last) : m.entries[k] = lg[last + k]
    BY <1>2, <1>3, <1>4
<1>6. m.last_log_idx + Len(m.entries) <= Len(lg)
    BY <1>2, <1>3, <1>4, <1>5
<1>7. MessageAgrees(m, e, lgs)
    BY <1>1, <1>3, <1>5, <1>6 DEF MessageAgrees
<1>8. QED
    BY <1>1, <1>7 DEF m

\* A request that was given up still carries what it carried.
LEMMA OrphanAgrees ==
    ASSUME NEW m \in Messages, IsReq(m), NEW e, NEW lgs, MessageAgrees(m, e, lgs)
    PROVE  MessageAgrees([m EXCEPT !.live = FALSE], e, lgs)
<1> DEFINE o == [m EXCEPT !.live = FALSE]
<1>1. m \in VoteReqs \/ m \in AppendReqs
    BY MessageKinds DEF IsReq
<1>2. CASE m \in VoteReqs
    <2>1. o.type = "vote_req"
        BY <1>2 DEF VoteReqs
    <2>2. QED
        BY <2>1 DEF MessageAgrees
<1>3. CASE m \in AppendReqs
    <2>1. /\ o.type = "append_req" /\ o.src = m.src /\ o.dst = m.dst
          /\ o.last_log_idx = m.last_log_idx /\ o.entries = m.entries
          /\ m.type = "append_req"
        BY <1>3 DEF AppendReqs
    <2> HIDE DEF o
    <2>2. MessageAgrees(o, e, lgs)
        BY <2>1 DEF MessageAgrees
    <2>3. QED
        BY <2>2 DEF o
<1>4. QED
    BY <1>1, <1>2, <1>3

\* The messages left by a process that ended.
LEMMA AbandonAgrees ==
    ASSUME NEW i, NEW ms \in SUBSET Messages, NEW e, NEW lgs,
           \A m \in ms : MessageAgrees(m, e, lgs)
    PROVE  \A m \in Abandon(i, ms) : MessageAgrees(m, e, lgs)
<1>1. \A m \in ms : IsReq(m) => MessageAgrees([m EXCEPT !.live = FALSE], e, lgs)
    BY OrphanAgrees
<1>2. ASSUME NEW n \in Abandon(i, ms)
      PROVE  \/ n \in ms
             \/ \E m \in ms : IsReq(m) /\ n = [m EXCEPT !.live = FALSE]
    BY <1>2 DEF Abandon
<1>3. QED
    BY <1>1, <1>2

\* A log agrees with itself and with what is appended to it.
LEMMA AgreesAppend ==
    ASSUME NEW lg \in Seq(LogEntry), NEW new,
           new = lg \/ \E e \in LogEntry : new = Append(lg, e)
    PROVE  Agrees(lg, new)
BY AppendKeeps DEF Agrees

\* Initial parts of initial parts.
LEMMA AgreesTransitive ==
    ASSUME NEW a \in Seq(LogEntry), NEW b \in Seq(LogEntry),
           NEW c \in Seq(LogEntry), Agrees(a, b), Agrees(b, c)
    PROVE  Agrees(a, c)
BY DEF Agrees

\* While e leads alone, no log loses an entry, and all stay initial parts of
\* the log of e.
LEMMA LogsGrow ==
    ASSUME TypeOK, TypeOK', NEW e \in Server, FollowsOnly(e), [Next]_vars,
           \A w \in elected' : w.srv = e
    PROVE  /\ \A j \in Server : Agrees(log[j], log'[j])
           /\ \A j \in Server : Agrees(log'[j], log'[e])
           /\ \A m \in net : AcceptAppendEntries(m) =>
                  Len(log'[m.dst]) >= m.last_log_idx + Len(m.entries)
<1>1. \A j \in Server : log[j] \in Seq(LogEntry) /\ log'[j] \in Seq(LogEntry)
    BY DEF TypeOK
<1>2. \A j \in Server : Agrees(log[j], log[e]) /\ Agrees(log[j], log[j])
    BY <1>1, AgreesAppend DEF FollowsOnly, LogsAgree
<1>3. ASSUME NEW m \in net, AcceptAppendEntries(m)
      PROVE  /\ \A j \in Server : Agrees(log[j], log'[j])
             /\ \A j \in Server : Agrees(log'[j], log'[e])
             /\ Len(log'[m.dst]) >= m.last_log_idx + Len(m.entries)
    <2>1. /\ m.type = "append_req" /\ LogOkay(log[m.dst], m)
          /\ log' = [log EXCEPT ![m.dst] =
                         WriteEntries(log[m.dst], m.last_log_idx, m.entries)]
        BY <1>3 DEF AcceptAppendEntries
    <2>2. m \in AppendReqs
        BY <2>1, MessageKinds DEF TypeOK
    <2>3. /\ m.dst \in Server /\ m.last_log_idx \in Nat
          /\ m.entries \in Seq(LogEntry)
        BY <2>2 DEF AppendReqs
    <2>4. m.last_log_idx <= Len(log[m.dst])
        BY <1>1, <2>1, <2>3 DEF LogOkay, NextSlot
    <2>5. MessageAgrees(m, e, log)
        BY DEF FollowsOnly, MessagesAgree
    <2>6. /\ m.dst # e /\ m.last_log_idx + Len(m.entries) <= Len(log[e])
          /\ \A k \in 1..Len(m.entries) :
                 m.entries[k] = log[e][m.last_log_idx + k]
        BY <2>1, <2>5 DEF MessageAgrees
    <2> DEFINE new == WriteEntries(log[m.dst], m.last_log_idx, m.entries)
    <2>7. /\ Agrees(log[m.dst], new) /\ Agrees(new, log[e])
          /\ Len(new) >= m.last_log_idx + Len(m.entries)
        BY <1>1, <1>2, <2>3, <2>4, <2>6, WriteAgrees
    <2>8. log'[m.dst] = new /\ \A j \in Server : j # m.dst => log'[j] = log[j]
        BY <2>1, <2>3 DEF TypeOK
    <2> HIDE DEF new
    <2>9. QED
        BY <1>2, <2>3, <2>6, <2>7, <2>8
<1>4. CASE log' = log
    BY <1>2, <1>3, <1>4
<1>5. ASSUME NEW i \in Server, NEW entry \in LogEntry,
             log' = [log EXCEPT ![i] = Append(log[i], entry)],
             role[i] = "leader" \/ \E w \in elected' : w.srv = i
      PROVE  /\ \A j \in Server : Agrees(log[j], log'[j])
             /\ \A j \in Server : Agrees(log'[j], log'[e])
    <2>1. i = e
        BY <1>5 DEF FollowsOnly, LeadsAlone
    <2>2. /\ log'[e] = Append(log[e], entry)
          /\ \A j \in Server : j # e => log'[j] = log[j]
        BY <1>5, <2>1 DEF TypeOK
    <2>3. Agrees(log[e], log'[e]) /\ Agrees(log'[e], log'[e])
        BY <1>1, <2>2, AgreesAppend
    <2>4. \A j \in Server : Agrees(log[j], log'[e])
        BY <1>1, <1>2, <2>3, AgreesTransitive
    <2>5. QED
        BY <1>2, <2>2, <2>3, <2>4
<1>6. QED
    BY <1>3, <1>4, <1>5, LogSteps

\* More servers than a majority are a majority.
LEMMA MajorityGrows ==
    ASSUME NEW B \in SUBSET Server, NEW A \in SUBSET B, IsMajority(Cardinality(A))
    PROVE  IsMajority(Cardinality(B))
<1>1. IsFiniteSet(B) /\ IsFiniteSet(A)
    BY ServerAssumption, FS_Subset
<1>2. Cardinality(A) <= Cardinality(B)
    BY <1>1, FS_Subset
<1>3. Cardinality(A) \in Nat /\ Cardinality(B) \in Nat /\ ClusterSize \in Nat
    BY <1>1, ServerAssumption, FS_CardinalityType DEF ClusterSize
<1>4. QED
    BY <1>2, <1>3 DEF IsMajority

\* Longer logs, or a lower index: no fewer servers hold it.
LEMMA HoldingMore ==
    ASSUME NEW old \in [Server -> Seq(LogEntry)],
           NEW new \in [Server -> Seq(LogEntry)],
           \A j \in Server : Len(old[j]) <= Len(new[j]),
           NEW n \in Nat, NEW k \in Nat, k <= n, Holding(n, old)
    PROVE  Holding(k, new)
<1> DEFINE A == {j \in Server : Len(old[j]) >= n}
           B == {j \in Server : Len(new[j]) >= k}
<1>1. A \in SUBSET B /\ B \in SUBSET Server
    OBVIOUS
<1>2. IsMajority(Cardinality(A))
    BY DEF Holding
<1> HIDE DEF A, B
<1>3. IsMajority(Cardinality(B))
    BY <1>1, <1>2, MajorityGrows
<1>4. QED
    BY <1>3 DEF B, Holding

\* What agreed with the logs agrees with the longer ones.
LEMMA GrowthKeeps ==
    ASSUME NEW old \in [Server -> Seq(LogEntry)],
           NEW new \in [Server -> Seq(LogEntry)],
           \A j \in Server : Agrees(old[j], new[j]), NEW e \in Server
    PROVE  /\ \A m \in Messages :
                  MessageAgrees(m, e, old) => MessageAgrees(m, e, new)
           /\ \A n \in Nat : Holding(n, old) => Holding(n, new)
<1>1. \A j \in Server : /\ Len(old[j]) \in Nat /\ Len(new[j]) \in Nat
                         /\ Len(old[j]) <= Len(new[j])
    BY DEF Agrees
<1>2. ASSUME NEW m \in Messages, MessageAgrees(m, e, old)
      PROVE  MessageAgrees(m, e, new)
    <2>1. CASE m.type = "append_req"
        <3>1. m \in AppendReqs
            BY <2>1, MessageKinds
        <3>2. m.last_log_idx \in Nat /\ Len(m.entries) \in Nat
            BY <3>1 DEF AppendReqs
        <3>3. /\ m.src = e /\ m.dst # e
              /\ m.last_log_idx + Len(m.entries) <= Len(old[e])
              /\ \A k \in 1..Len(m.entries) :
                     m.entries[k] = old[e][m.last_log_idx + k]
            BY <1>2, <2>1 DEF MessageAgrees
        <3>4. m.last_log_idx + Len(m.entries) <= Len(new[e])
            BY <1>1, <3>2, <3>3
        <3>5. ASSUME NEW k \in 1..Len(m.entries)
              PROVE  m.entries[k] = new[e][m.last_log_idx + k]
            <4>1. m.last_log_idx + k \in 1..Len(old[e])
                BY <1>1, <3>2, <3>3
            <4>2. QED
                BY <3>3, <4>1 DEF Agrees
        <3>6. QED
            BY <2>1, <3>3, <3>4, <3>5 DEF MessageAgrees
    <2>2. CASE m.type = "append_resp"
        <3>1. m \in AppendResps
            BY <2>2, MessageKinds
        <3>2. m.next_idx \in Nat /\ m.src \in Server
            BY <3>1 DEF AppendResps
        <3>3. m.accepted => m.next_idx - 1 <= Len(new[m.src])
            BY <1>1, <1>2, <2>2, <3>2 DEF MessageAgrees
        <3>4. QED
            BY <1>2, <2>2, <3>3 DEF MessageAgrees
    <2>3. CASE m.type # "append_req" /\ m.type # "append_resp"
        BY <2>3 DEF MessageAgrees
    <2>4. QED
        BY <2>1, <2>2, <2>3
<1>3. ASSUME NEW n \in Nat, Holding(n, old) PROVE Holding(n, new)
    <2>1. n <= n
        OBVIOUS
    <2>2. QED
        BY <1>1, <1>3, <2>1, HoldingMore
<1>4. QED
    BY <1>2, <1>3

\* request_append_entries of e: the requests agree with the logs, and no
\* matched index changes on the way.
LEMMA SendAgrees ==
    ASSUME TypeOK, NEW lgs \in [Server -> Seq(LogEntry)], NEW e \in Server,
           NEW dests \in SUBSET Server, e \notin dests, NEW r, NEW term \in Nat,
           NEW ci \in Nat, NEW ps \in [Server -> Peer], NEW ms \in SUBSET Messages,
           RequestAppendEntries(e, dests, r, term, lgs[e], ci, ps, ms),
           \A m \in ms : MessageAgrees(m, e, lgs)
    PROVE  /\ \A m \in net' : MessageAgrees(m, e, lgs)
           /\ \A j \in Server : peers'[e][j].matched_idx = ps[j].matched_idx
           /\ \A j \in Server : role'[j] = "leader" => role[j] = "leader" \/ j = e
<1> DEFINE free == {j \in dests : ~ps[j].busy}
           bad == {j \in free : TooLarge(ps[j], lgs[e])}
           Req(j) == AppendReq(e, j, term, lgs[e], ps[j], ci)
           sentTo(j) == [ps[j] EXCEPT !.next_log_idx = NextLogIdx(ps[j], lgs[e]),
                                      !.busy = TRUE]
<1>1. \A j \in free \ bad : Req(j) \in Messages
    BY AppendReqType
<1>2. \A j \in free \ bad : MessageAgrees(Req(j), e, lgs)
    BY ReqAgrees
<1>3. ASSUME NEW j \in Server
      PROVE  sentTo(j).matched_idx = ps[j].matched_idx
    BY DEF Peer
<1>4. CASE bad = {}
    <2>1. /\ role' = [role EXCEPT ![e] = r]
          /\ peers' = [peers EXCEPT ![e] = [j \in Server |->
                 IF j \in free THEN sentTo(j) ELSE ps[j]]]
          /\ net' = ms \cup {Req(j) : j \in free}
        BY <1>4 DEF RequestAppendEntries
    <2> HIDE DEF Req, sentTo
    <2>2. \A m \in net' : MessageAgrees(m, e, lgs)
        BY <1>2, <1>4, <2>1
    <2>3. \A j \in Server : peers'[e][j].matched_idx = ps[j].matched_idx
        BY <1>3, <2>1 DEF TypeOK
    <2>4. \A j \in Server : role'[j] = "leader" => role[j] = "leader" \/ j = e
        BY <2>1 DEF TypeOK
    <2>5. QED
        BY <2>2, <2>3, <2>4
<1>5. CASE bad # {}
    <2>1. PICK sent \in SUBSET (free \ bad) :
              net' = Abandon(e, ms \cup {Req(j) : j \in sent})
        BY <1>5 DEF RequestAppendEntries
    <2>2. /\ role' = [role EXCEPT ![e] = "exited"]
          /\ peers' = [peers EXCEPT ![e] = ps]
        BY <1>5 DEF RequestAppendEntries
    <2> HIDE DEF Req
    <2> DEFINE all == ms \cup {Req(j) : j \in sent}
    <2>3. all \in SUBSET Messages /\ \A m \in all : MessageAgrees(m, e, lgs)
        BY <1>1, <1>2
    <2>4. net' = Abandon(e, all)
        BY <2>1
    <2> HIDE DEF all
    <2>5. \A m \in net' : MessageAgrees(m, e, lgs)
        BY <2>3, <2>4, AbandonAgrees
    <2>6. /\ \A j \in Server : peers'[e][j].matched_idx = ps[j].matched_idx
          /\ \A j \in Server : role'[j] = "leader" => role[j] = "leader" \/ j = e
        BY <2>2 DEF TypeOK
    <2>7. QED
        BY <2>5, <2>6
<1>6. QED
    BY <1>4, <1>5

-----------------------------------------------------------------------------
(* Every step keeps the invariant. *)

\* What a step of the cluster has to keep, given that the logs grew.
Kept(e) ==
    /\ \A m \in net' : MessageAgrees(m, e, log')
    /\ \A j \in Peers(e) : peers'[e][j].matched_idx <= Len(log'[j])
    /\ \A j \in Server : role'[j] = "leader" => j = e
    /\ Holding(quick_commit'[e], log')
    /\ quick_commit'[e] >= quick_commit[e]

\* The situation in which the lemmas below look at a step.
Growing(e) ==
    /\ TypeOK /\ log' \in [Server -> Seq(LogEntry)] /\ LeadsAlone(e)
    /\ \A m \in net : MessageAgrees(m, e, log')
    /\ \A j \in Peers(e) : peers[e][j].matched_idx <= Len(log'[j])
    /\ Holding(quick_commit[e], log')
    /\ \A w \in elected' : w.srv = e

\* A heartbeat, a client's entry and a won election send pieces of the log.
LEMMA LeaderKeeps ==
    ASSUME NEW e \in Server, Growing(e), NEW term \in Nat,
           NEW ps \in [Server -> Peer], NEW dests \in SUBSET Peers(e),
           NEW ci \in Nat, NEW ms \in SUBSET net,
           RequestAppendEntries(e, dests, "leader", term, log'[e], ci, ps, ms),
           \A j \in Server : ps[j].matched_idx = peers[e][j].matched_idx,
           \/ quick_commit' = quick_commit
           \/ /\ Peers(e) = {}
              /\ quick_commit' = [quick_commit EXCEPT ![e] =
                                     Larger(@, Len(log'[e]))]
    PROVE  Kept(e)
<1>1. /\ dests \in SUBSET Server /\ e \notin dests /\ ms \in SUBSET Messages
      /\ \A m \in ms : MessageAgrees(m, e, log')
      /\ TypeOK /\ log' \in [Server -> Seq(LogEntry)]
    BY DEF Peers, Growing, TypeOK
<1>2. /\ \A m \in net' : MessageAgrees(m, e, log')
      /\ \A j \in Server : peers'[e][j].matched_idx = ps[j].matched_idx
      /\ \A j \in Server : role'[j] = "leader" => role[j] = "leader" \/ j = e
    BY <1>1, SendAgrees
<1>3. \A j \in Peers(e) : peers'[e][j].matched_idx <= Len(log'[j])
    BY <1>2 DEF Peers, Growing
<1>4. \A j \in Server : role'[j] = "leader" => j = e
    BY <1>2 DEF Growing, LeadsAlone
<1>5. /\ Holding(quick_commit'[e], log')
      /\ quick_commit'[e] >= quick_commit[e]
    <2>1. quick_commit[e] \in Nat /\ Len(log'[e]) \in Nat
        BY <1>1 DEF TypeOK
    <2>2. CASE quick_commit' = quick_commit
        BY <2>1, <2>2 DEF Growing
    <2>3. CASE /\ Peers(e) = {}
               /\ quick_commit' = [quick_commit EXCEPT ![e] =
                                      Larger(@, Len(log'[e]))]
        <3>1. quick_commit'[e] = Larger(quick_commit[e], Len(log'[e]))
            BY <1>1, <2>3 DEF TypeOK
        <3>2. CASE quick_commit[e] >= Len(log'[e])
            BY <2>1, <3>1, <3>2 DEF Larger, Growing
        <3>3. CASE quick_commit[e] < Len(log'[e])
            <4>1. quick_commit'[e] = Len(log'[e])
                BY <2>1, <3>1, <3>3 DEF Larger
            <4>2. Server = {e}
                BY <2>3 DEF Peers
            <4>3. {j \in Server : Len(log'[j]) >= Len(log'[e])} = Server
                BY <2>1, <4>2
            <4>4. Cardinality(Server) = 1
                BY <4>2, FS_Singleton
            <4>5. IsMajority(Cardinality(Server))
                BY <4>4 DEF IsMajority, ClusterSize
            <4>6. Holding(Len(log'[e]), log')
                BY <4>3, <4>5 DEF Holding
            <4>7. QED
                BY <2>1, <3>3, <4>1, <4>6
        <3>4. QED
            BY <2>1, <3>2, <3>3
    <2>4. QED
        BY <2>2, <2>3
<1>6. QED
    BY <1>2, <1>3, <1>4, <1>5 DEF Kept

\* The commit index of a leader alone in its cluster follows its log, that of
\* any other waits for responses.
LEMMA QuickCommitAlone ==
    ASSUME TypeOK, NEW e \in Server, NEW n,
           quick_commit' = [quick_commit EXCEPT ![e] =
               IF Peers(e) = {} THEN Larger(@, n) ELSE @]
    PROVE  \/ quick_commit' = quick_commit
           \/ /\ Peers(e) = {}
              /\ quick_commit' = [quick_commit EXCEPT ![e] = Larger(@, n)]
BY DEF TypeOK

\* The leader's own steps.
LEMMA LeaderStepsKeep ==
    ASSUME NEW e \in Server, Growing(e),
           \/ \E i, j \in Server : HandleHbTimeout(i, j)
           \/ \E i \in Server, val \in Value : HandleCliReq(i, val)
    PROVE  Kept(e)
<1>1. /\ state[e].term \in Nat /\ log[e] \in Seq(LogEntry)
      /\ quick_commit[e] \in Nat /\ peers[e] \in [Server -> Peer]
      /\ net \in SUBSET net
    BY DEF Growing, TypeOK, SrvState
<1>2. ASSUME NEW i \in Server, NEW j \in Server, HandleHbTimeout(i, j)
      PROVE  Kept(e)
    <2>1. i = e /\ {j} \in SUBSET Peers(e)
        BY <1>2 DEF HandleHbTimeout, Growing, LeadsAlone, Peers
    <2>2. /\ RequestAppendEntries(e, {j}, "leader", state[e].term, log'[e],
                                  quick_commit[e], peers[e], net)
          /\ quick_commit' = quick_commit
        BY <1>2, <2>1 DEF HandleHbTimeout
    <2>3. QED
        BY <1>1, <2>1, <2>2, LeaderKeeps
<1>3. ASSUME NEW i \in Server, NEW val \in Value, HandleCliReq(i, val)
      PROVE  Kept(e)
    <2>1. i = e
        BY <1>3 DEF HandleCliReq, Growing, LeadsAlone
    <2>2. PICK entry \in LogEntry :
              /\ log' = [log EXCEPT ![e] = Append(log[e], entry)]
              /\ quick_commit' = [quick_commit EXCEPT ![e] =
                     IF Peers(e) = {} THEN Larger(@, Len(Append(log[e], entry)))
                                      ELSE @]
              /\ RequestAppendEntries(e, Peers(e), "leader", state[e].term,
                     Append(log[e], entry), quick_commit[e], peers[e], net)
        BY <1>3, <2>1, ClientAppends
    <2>3. log'[e] = Append(log[e], entry)
        BY <2>2 DEF Growing, TypeOK
    <2>4. \/ quick_commit' = quick_commit
          \/ /\ Peers(e) = {}
             /\ quick_commit' = [quick_commit EXCEPT ![e] =
                                    Larger(@, Len(log'[e]))]
        BY <2>2, <2>3, QuickCommitAlone DEF Growing
    <2>5. RequestAppendEntries(e, Peers(e), "leader", state[e].term, log'[e],
                               quick_commit[e], peers[e], net)
        BY <2>2, <2>3
    <2>6. Peers(e) \in SUBSET Peers(e)
        OBVIOUS
    <2>7. QED
        BY <1>1, <2>4, <2>5, <2>6, LeaderKeeps
<1>4. QED
    BY <1>2, <1>3

\* Steps that touch neither matched indexes nor quick_commit_idx_.
LEMMA QuietKeeps ==
    ASSUME NEW e \in Server, Growing(e), quick_commit'[e] = quick_commit[e],
           \A n \in net' : n \in net \/ MessageAgrees(n, e, log'),
           \A j \in Server : peers'[e][j].matched_idx = peers[e][j].matched_idx,
           \A j \in Server : role'[j] = "leader" => role[j] = "leader"
    PROVE  Kept(e)
<1>1. quick_commit[e] \in Nat
    BY DEF Growing, TypeOK
<1>2. \A m \in net' : MessageAgrees(m, e, log')
    BY DEF Growing
<1>3. \A j \in Peers(e) : peers'[e][j].matched_idx <= Len(log'[j])
    BY DEF Growing, Peers
<1>4. \A j \in Server : role'[j] = "leader" => j = e
    BY DEF Growing, LeadsAlone
<1>5. Holding(quick_commit'[e], log') /\ quick_commit'[e] >= quick_commit[e]
    BY <1>1 DEF Growing
<1>6. QED
    BY <1>2, <1>3, <1>4, <1>5 DEF Kept

\* Elections: the winner can only be e.
LEMMA ElectionKeeps ==
    ASSUME NEW e \in Server, Growing(e),
           \/ \E m \in net : HandleVotingResp(m)
           \/ \E i \in Server : HandleElectionTimeout(i)
    PROVE  Kept(e)
<1>1. ASSUME NEW i \in Server, NEW term \in Nat, NEW ms \in SUBSET net,
             BecomeLeader(i, term, ms), \E w \in elected' : w.srv = i
      PROVE  Kept(e)
    <2>1. i = e /\ TypeOK
        BY <1>1 DEF Growing
    <2>2. PICK lg \in Seq(LogEntry), ps \in [Server -> Peer] :
              /\ lg = log[e] \/ \E entry \in LogEntry : lg = Append(log[e], entry)
              /\ log' = [log EXCEPT ![e] = lg]
              /\ quick_commit' = [quick_commit EXCEPT ![e] =
                     IF Peers(e) = {} THEN Larger(@, Len(lg)) ELSE @]
              /\ RequestAppendEntries(e, Peers(e), "leader", term, lg,
                                      quick_commit[e], ps, ms)
              /\ \A j \in Server :
                     /\ ps[j].busy => peers[e][j].busy
                     /\ ps[j].matched_idx = peers[e][j].matched_idx
        BY <1>1, <2>1, BecomeLeaderSends
    <2>3. log'[e] = lg
        BY <2>1, <2>2 DEF TypeOK
    <2>4. \/ quick_commit' = quick_commit
          \/ /\ Peers(e) = {}
             /\ quick_commit' = [quick_commit EXCEPT ![e] =
                                    Larger(@, Len(log'[e]))]
        BY <2>1, <2>2, <2>3, QuickCommitAlone
    <2>5. RequestAppendEntries(e, Peers(e), "leader", term, log'[e],
                               quick_commit[e], ps, ms)
        BY <2>2, <2>3
    <2>6. Peers(e) \in SUBSET Peers(e) /\ quick_commit[e] \in Nat
        BY <2>1 DEF TypeOK
    <2>7. QED
        BY <1>1, <2>2, <2>4, <2>5, <2>6, LeaderKeeps
<1>2. ASSUME NEW m \in net, HandleVotingResp(m) PROVE Kept(e)
    <2>1. /\ m.dst \in Server /\ state[m.dst].term \in Nat
          /\ net \ {m} \in SUBSET net
        BY MessageKinds DEF Growing, TypeOK, SrvState
    <2>2. CASE net' = net \ {m} /\ UNCHANGED <<role, quick_commit, peers>>
        BY <2>2, QuietKeeps
    <2>3. ASSUME NEW c, BecomeLeader(m.dst, state[m.dst].term, net \ {m}),
                 elected' = elected \cup
                    {[srv |-> m.dst, term |-> state[m.dst].term, clean |-> c]}
          PROVE  Kept(e)
        <3> DEFINE w == [srv |-> m.dst, term |-> state[m.dst].term, clean |-> c]
        <3>1. w \in elected' /\ w.srv = m.dst
            BY <2>3
        <3> HIDE DEF w
        <3>2. QED
            BY <1>1, <2>1, <2>3, <3>1
    <2>4. QED
        BY <1>2, <2>2, <2>3 DEF HandleVotingResp
<1>3. ASSUME NEW i \in Server, HandleElectionTimeout(i) PROVE Kept(e)
    <2>1. PICK term \in Nat : term = state[i].term + 1
        BY DEF Growing, TypeOK, SrvState
    <2> DEFINE reqs == {VoteReq(i, j, term, log[i]) : j \in Peers(i)}
               w == [srv |-> i, term |-> term, clean |-> TRUE]
    <2>2. \/ /\ net' = net \cup reqs /\ UNCHANGED <<quick_commit, peers>>
             /\ role' = [role EXCEPT ![i] = "candidate"]
          \/ BecomeLeader(i, term, net) /\ elected' = elected \cup {w}
        <3>1. CASE IsMajority(1)
            BY <1>3, <2>1, <3>1 DEF HandleElectionTimeout
        <3>2. CASE ~IsMajority(1)
            <4>1. net' = net \cup reqs
                BY <1>3, <2>1, <3>2 DEF HandleElectionTimeout
            <4>2. /\ UNCHANGED <<quick_commit, peers>>
                  /\ role' = [role EXCEPT ![i] = "candidate"]
                BY <1>3, <3>2 DEF HandleElectionTimeout
            <4>3. QED
                BY <4>1, <4>2
        <3>3. QED
            BY <3>1, <3>2
    <2>3. \A n \in reqs : n.type = "vote_req"
        BY DEF VoteReq
    <2>4. w.srv = i
        OBVIOUS
    <2> HIDE DEF reqs, w
    <2>5. CASE BecomeLeader(i, term, net) /\ elected' = elected \cup {w}
        BY <1>1, <2>4, <2>5
    <2>6. CASE /\ net' = net \cup reqs /\ UNCHANGED <<quick_commit, peers>>
               /\ role' = [role EXCEPT ![i] = "candidate"]
        <3>1. \A n \in net' : n \in net \/ MessageAgrees(n, e, log')
            BY <2>3, <2>6 DEF MessageAgrees
        <3>2. \A j \in Server : role'[j] = "leader" => role[j] = "leader"
            BY <2>6 DEF Growing, TypeOK
        <3>3. QED
            BY <2>6, <3>1, <3>2, QuietKeeps
    <2>7. QED
        BY <2>2, <2>5, <2>6
<1>4. QED
    BY <1>2, <1>3

\* handle_append_entries_resp: what a peer acknowledged is in its log, so what
\* a majority has matched is in the logs of a majority.
LEMMA ResponseKeeps ==
    ASSUME NEW e \in Server, Growing(e), log' = log, NEW m \in net,
           HandleAppendAccepted(m) \/ HandleAppendRefused(m)
    PROVE  Kept(e)
<1>1. m.type = "append_resp" /\ TypeOK /\ m \in Messages
    BY DEF HandleAppendAccepted, HandleAppendRefused, Growing, TypeOK
<1>2. /\ m.dst = e /\ m.src # e
      /\ m.accepted => m.next_idx - 1 <= Len(log'[m.src])
    BY <1>1 DEF Growing, MessageAgrees
<1>3. /\ m.src \in Server /\ m.next_idx \in Nat \ {0}
    BY <1>1, MessageKinds DEF AppendResps
<1>4. /\ state[e].term \in Nat /\ net \ {m} \in SUBSET Messages
      /\ log' \in [Server -> Seq(LogEntry)] /\ quick_commit[e] \in Nat
      /\ \A n \in net \ {m} : MessageAgrees(n, e, log')
    BY <1>1 DEF TypeOK, SrvState, Growing
<1>5. ASSUME NEW dests \in SUBSET Server, NEW ps \in [Server -> Peer],
             NEW ci \in Nat, e \notin dests,
             RequestAppendEntries(m.dst, dests, role[m.dst], state[m.dst].term,
                                  log[m.dst], ci, ps, net \ {m})
      PROVE  /\ \A n \in net' : MessageAgrees(n, e, log')
             /\ \A j \in Server : peers'[e][j].matched_idx = ps[j].matched_idx
             /\ \A j \in Server : role'[j] = "leader" => j = e
    <2>1. PICK ms \in SUBSET Messages, term \in Nat,
               lgs \in [Server -> Seq(LogEntry)] :
              /\ ms = net \ {m} /\ term = state[e].term /\ lgs = log'
        BY <1>4
    <2>2. RequestAppendEntries(e, dests, role[e], term, lgs[e], ci, ps, ms)
        BY <1>2, <1>5, <2>1
    <2>3. \A n \in ms : MessageAgrees(n, e, lgs)
        BY <1>4, <2>1
    <2>4. e \notin dests
        BY <1>5
    <2>5. /\ \A n \in net' : MessageAgrees(n, e, lgs)
          /\ \A j \in Server : peers'[e][j].matched_idx = ps[j].matched_idx
          /\ \A j \in Server : role'[j] = "leader" => role[j] = "leader" \/ j = e
        BY <1>1, <2>2, <2>3, <2>4, SendAgrees
    <2>6. QED
        BY <2>1, <2>5 DEF Growing, LeadsAlone
<1>6. CASE HandleAppendAccepted(m)
    <2>1. PICK dests \in SUBSET Server, ps \in [Server -> Peer], ci \in Nat :
              /\ RequestAppendEntries(m.dst, dests, role[m.dst],
                     state[m.dst].term, log[m.dst], ci, ps, net \ {m})
              /\ \A j \in Server :
                     /\ ps[j].busy = peers[m.dst][j].busy
                     /\ ps[j].matched_idx = IF j = m.src THEN m.next_idx - 1
                                            ELSE peers[m.dst][j].matched_idx
              /\ dests \subseteq Peers(m.dst) \cup {m.src}
              /\ \/ quick_commit' = quick_commit
                 \/ /\ quick_commit' = [quick_commit EXCEPT ![m.dst] = ci]
                    /\ ci >= quick_commit[m.dst]
                    /\ IsMajority(Cardinality({j \in Server :
                           (IF j = m.dst THEN Len(log[m.dst])
                                         ELSE ps[j].matched_idx) >= ci}))
        BY <1>1, <1>6, AppendAcceptedSends, Zenon
    <2>2. e \notin dests
        BY <1>2, <2>1 DEF Peers
    <2>3. /\ \A n \in net' : MessageAgrees(n, e, log')
          /\ \A j \in Server : peers'[e][j].matched_idx = ps[j].matched_idx
          /\ \A j \in Server : role'[j] = "leader" => j = e
        BY <1>5, <2>1, <2>2
    <2>4. m.accepted
        BY <1>6 DEF HandleAppendAccepted
    <2>5. \A j \in Peers(e) : ps[j].matched_idx <= Len(log'[j])
        BY <1>2, <2>1, <2>4 DEF Growing, Peers
    <2>6. Holding(quick_commit'[e], log') /\ quick_commit'[e] >= quick_commit[e]
        <3>1. CASE quick_commit' = quick_commit
            BY <1>4, <3>1 DEF Growing
        <3> DEFINE A == {j \in Server :
                           (IF j = m.dst THEN Len(log[m.dst])
                                         ELSE ps[j].matched_idx) >= ci}
                   B == {j \in Server : Len(log'[j]) >= ci}
        <3>2. CASE /\ quick_commit' = [quick_commit EXCEPT ![m.dst] = ci]
                   /\ ci >= quick_commit[m.dst]
                   /\ IsMajority(Cardinality(A))
            <4>1. quick_commit'[e] = ci /\ ci >= quick_commit[e]
                BY <1>1, <1>2, <3>2 DEF TypeOK
            <4>2. \A j \in Server : Len(log'[j]) \in Nat /\ ps[j].matched_idx \in Nat
                BY <1>4 DEF Peer
            <4>3. A \in SUBSET B /\ B \in SUBSET Server
                BY <1>2, <2>5, <4>2 DEF Peers
            <4> HIDE DEF A, B
            <4>4. IsMajority(Cardinality(B))
                BY <3>2, <4>3, MajorityGrows
            <4>5. Holding(ci, log')
                BY <4>4 DEF B, Holding
            <4>6. QED
                BY <4>1, <4>5
        <3>3. QED
            BY <2>1, <3>1, <3>2
    <2>7. \A j \in Peers(e) : peers'[e][j].matched_idx <= Len(log'[j])
        BY <2>3, <2>5 DEF Peers
    <2>8. QED
        BY <2>3, <2>6, <2>7 DEF Kept
<1>7. CASE HandleAppendRefused(m)
    <2>1. PICK dests \in SUBSET Server, ps \in [Server -> Peer], ci \in Nat :
              /\ RequestAppendEntries(m.dst, dests, role[m.dst],
                     state[m.dst].term, log[m.dst], ci, ps, net \ {m})
              /\ \A j \in Server :
                     /\ ps[j].busy = peers[m.dst][j].busy
                     /\ ps[j].matched_idx = peers[m.dst][j].matched_idx
              /\ dests \subseteq {m.src}
        BY <1>1, <1>7, AppendRefusedSends, Zenon
    <2>2. /\ \A n \in net' : MessageAgrees(n, e, log')
          /\ \A j \in Server : peers'[e][j].matched_idx = ps[j].matched_idx
          /\ \A j \in Server : role'[j] = "leader" => j = e
        BY <1>2, <1>5, <2>1
    <2>3. \A j \in Peers(e) : peers'[e][j].matched_idx <= Len(log'[j])
        BY <1>2, <2>1, <2>2 DEF Growing, Peers
    <2>4. quick_commit' = quick_commit
        BY <1>7 DEF HandleAppendRefused
    <2>5. QED
        BY <1>4, <2>2, <2>3, <2>4 DEF Growing, Kept
<1>8. QED
    BY <1>6, <1>7

\* handle_vote_req and handle_append_entries: an accepted request is answered
\* with an index that the log has reached.
LEMMA AnswerKeeps ==
    ASSUME NEW e \in Server, Growing(e), NEW m \in net,
           \/ HandleVoteReq(m) \/ RefuseAppendEntries(m)
           \/ /\ AcceptAppendEntries(m)
              /\ Len(log'[m.dst]) >= m.last_log_idx + Len(m.entries)
    PROVE  Kept(e)
<1>1. /\ TypeOK /\ m \in Messages /\ m.dst \in Server
      /\ MessageAgrees(m, e, log')
    BY MessageKinds DEF Growing, TypeOK
<1>2. /\ peers' = peers
      /\ \E r \in {"follower", role[m.dst]} : role' = [role EXCEPT ![m.dst] = r]
    BY DEF HandleVoteReq, AcceptAppendEntries, RefuseAppendEntries,
       FollowSender, RoleAt
<1>3. \A j \in Server : role'[j] = "leader" => role[j] = "leader"
    BY <1>1, <1>2 DEF TypeOK
<1>4. ASSUME NEW resp, net' = Answered(m, resp), MessageAgrees(resp, e, log')
      PROVE  \A n \in net' : n \in net \/ MessageAgrees(n, e, log')
    BY <1>4 DEF Answered
<1>5. CASE HandleVoteReq(m)
    <2> DEFINE st == StateAt(m.dst, m.term)
               resp == VoteResp(m, st.term, Grants(m, st, log[m.dst]))
    <2>1. net' = Answered(m, resp) /\ quick_commit' = quick_commit
        BY <1>5 DEF HandleVoteReq
    <2>2. resp.type = "vote_resp"
        BY DEF VoteResp
    <2> HIDE DEF resp
    <2>3. MessageAgrees(resp, e, log')
        BY <2>2 DEF MessageAgrees
    <2>4. QED
        BY <1>2, <1>3, <1>4, <2>1, <2>3, QuietKeeps
<1>6. ASSUME NEW t, NEW ok, NEW next, m.type = "append_req",
             ok => next - 1 <= Len(log'[m.dst])
      PROVE  MessageAgrees(AppendResp(m, t, ok, next), e, log')
    <2> DEFINE resp == AppendResp(m, t, ok, next)
    <2>1. /\ resp.type = "append_resp" /\ resp.src = m.dst /\ resp.dst = m.src
          /\ resp.accepted = ok /\ resp.next_idx = next
        BY DEF AppendResp
    <2>2. m.src = e /\ m.dst # e
        BY <1>1, <1>6 DEF MessageAgrees
    <2> HIDE DEF resp
    <2>3. MessageAgrees(resp, e, log')
        BY <1>6, <2>1, <2>2 DEF MessageAgrees
    <2>4. QED
        BY <2>3 DEF resp
<1>7. CASE RefuseAppendEntries(m)
    <2> DEFINE resp == AppendResp(m, state'[m.dst].term, FALSE,
                                  NextSlot(log[m.dst]))
    <2>1. /\ net' = Answered(m, resp) /\ quick_commit' = quick_commit
          /\ m.type = "append_req"
        BY <1>7 DEF RefuseAppendEntries
    <2>2. MessageAgrees(resp, e, log')
        BY <1>6, <2>1
    <2> HIDE DEF resp
    <2>3. QED
        BY <1>2, <1>3, <1>4, <2>1, <2>2, QuietKeeps
<1>8. CASE /\ AcceptAppendEntries(m)
           /\ Len(log'[m.dst]) >= m.last_log_idx + Len(m.entries)
    <2>1. PICK next : next = m.last_log_idx + Len(m.entries) + 1
        OBVIOUS
    <2> DEFINE resp == AppendResp(m, state'[m.dst].term, TRUE, next)
    <2>2. /\ net' = Answered(m, resp) /\ m.type = "append_req"
          /\ quick_commit' = [quick_commit EXCEPT ![m.dst] =
                                 Larger(@, m.commit_idx)]
        BY <1>8, <2>1 DEF AcceptAppendEntries
    <2>3. m \in AppendReqs
        BY <1>1, <2>2, MessageKinds
    <2>4. m.last_log_idx \in Nat /\ Len(m.entries) \in Nat
        BY <2>3 DEF AppendReqs
    <2>5. next - 1 <= Len(log'[m.dst])
        BY <1>8, <2>1, <2>4
    <2>6. MessageAgrees(resp, e, log')
        BY <1>6, <2>2, <2>5
    <2>7. quick_commit'[e] = quick_commit[e]
        BY <1>1, <2>2 DEF MessageAgrees, TypeOK
    <2> HIDE DEF resp
    <2>8. QED
        BY <1>2, <1>3, <1>4, <2>2, <2>6, <2>7, QuietKeeps
<1>9. QED
    BY <1>5, <1>7, <1>8

\* set_free leaves the matched indexes alone.
LEMMA FreedMatched ==
    ASSUME TypeOK, NEW a \in Server, NEW b \in Server,
           NEW i \in Server, NEW j \in Server
    PROVE  Freed(a, b)[i][j].matched_idx = peers[i][j].matched_idx
<1>1. peers[a][b] \in Peer /\ peers[a] \in [Server -> Peer]
    BY DEF TypeOK
<1> DEFINE p == [peers[a][b] EXCEPT !.busy = FALSE]
<1>2. p.matched_idx = peers[a][b].matched_idx
    BY <1>1 DEF Peer
<1>3. Freed(a, b) = [peers EXCEPT ![a] = [peers[a] EXCEPT ![b] = p]]
    BY <1>1 DEF Freed, TypeOK
<1> HIDE DEF p
<1>4. Freed(a, b)[i][j] = IF i = a /\ j = b THEN p ELSE peers[i][j]
    BY <1>1, <1>3 DEF TypeOK
<1>5. QED
    BY <1>2, <1>4

\* A response whose callback waits for lock_ says what it said.
LEMMA QueuedAgrees ==
    ASSUME NEW m \in AppendResps, NEW n, NEW e, NEW lgs, MessageAgrees(m, e, lgs)
    PROVE  MessageAgrees([m EXCEPT !.queued = n], e, lgs)
<1> DEFINE c == [m EXCEPT !.queued = n]
<1>1. /\ c.type = "append_resp" /\ c.dst = m.dst /\ c.src = m.src
      /\ c.accepted = m.accepted /\ c.next_idx = m.next_idx
      /\ m.type = "append_resp"
    BY DEF AppendResps
<1> HIDE DEF c
<1>2. MessageAgrees(c, e, lgs)
    BY <1>1 DEF MessageAgrees
<1>3. QED
    BY <1>2 DEF c

\* The steps that lose or requeue a message, and those of the commit thread.
LEMMA OtherStepsKeep ==
    ASSUME NEW e \in Server, Growing(e),
           \/ \E m \in net : \/ HandleLaterResp(m) \/ SetFree(m)
                             \/ MeetRivalLeader(m)
                             \/ RpcError(m) \/ LoseRequest(m)
           \/ \E i \in Server : CommitInBg(i)
           \/ UNCHANGED vars
    PROVE  Kept(e)
<1>1. TypeOK /\ \A m \in net : /\ m \in Messages /\ m.src \in Server
                                /\ m.dst \in Server /\ MessageAgrees(m, e, log')
    BY MessageKinds DEF Growing, TypeOK
<1>2. CASE UNCHANGED <<role, net, peers, quick_commit>>
    BY <1>2, QuietKeeps
<1>3. ASSUME NEW m \in net, HandleLaterResp(m) PROVE Kept(e)
    <2>1. /\ net' = net \ {m} /\ UNCHANGED <<peers, quick_commit>>
          /\ role' = [role EXCEPT ![m.dst] = "follower"]
        BY <1>3 DEF HandleLaterResp, RoleAt
    <2>2. \A j \in Server : role'[j] = "leader" => role[j] = "leader"
        BY <1>1, <2>1 DEF TypeOK
    <2>3. QED
        BY <2>1, <2>2, QuietKeeps
<1>4. ASSUME NEW m \in net, SetFree(m) PROVE Kept(e)
    <2>1. PICK k \in 1..MaxQueued :
              net' = (net \ {m}) \cup {[m EXCEPT !.queued = k]}
        BY <1>4 DEF SetFree
    <2>2. /\ m.type = "append_resp" /\ UNCHANGED <<role, quick_commit>>
          /\ peers' = Freed(m.dst, m.src)
        BY <1>4 DEF SetFree
    <2>3. m \in AppendResps
        BY <1>1, <2>2, MessageKinds
    <2>4. MessageAgrees([m EXCEPT !.queued = k], e, log')
        BY <1>1, <2>3, QueuedAgrees
    <2>5. \A j \in Server : peers'[e][j].matched_idx = peers[e][j].matched_idx
        BY <1>1, <2>2, FreedMatched
    <2>6. \A n \in net' : n \in net \/ MessageAgrees(n, e, log')
        BY <2>1, <2>4
    <2>7. QED
        BY <2>2, <2>5, <2>6, QuietKeeps
<1>5. ASSUME NEW m \in net, MeetRivalLeader(m) PROVE Kept(e)
    <2>1. /\ net' = Abandon(m.dst, net \ {m}) /\ quick_commit' = quick_commit
          /\ role' = [role EXCEPT ![m.dst] = "exited"]
          /\ peers' = Freed(m.src, m.dst) \/ peers' = peers
        BY <1>5 DEF MeetRivalLeader
    <2>2. \A j \in Server : peers'[e][j].matched_idx = peers[e][j].matched_idx
        BY <1>1, <2>1, FreedMatched
    <2>3. net \ {m} \in SUBSET Messages /\ \A n \in net \ {m} : MessageAgrees(n, e, log')
        BY <1>1
    <2>4. \A n \in net' : MessageAgrees(n, e, log')
        BY <2>1, <2>3, AbandonAgrees
    <2>5. \A j \in Server : role'[j] = "leader" => role[j] = "leader"
        BY <1>1, <2>1 DEF TypeOK
    <2>6. QED
        BY <2>1, <2>2, <2>4, <2>5, QuietKeeps
<1>6. ASSUME NEW m \in net, RpcError(m) PROVE Kept(e)
    <2>1. /\ UNCHANGED <<role, quick_commit>>
          /\ peers' \in {Freed(m.src, m.dst), Freed(m.dst, m.src), peers}
          /\ \/ net' = net \ {m}
             \/ IsReq(m) /\ net' = (net \ {m}) \cup {[m EXCEPT !.live = FALSE]}
        BY <1>6 DEF RpcError
    <2>2. \A j \in Server : peers'[e][j].matched_idx = peers[e][j].matched_idx
        BY <1>1, <2>1, FreedMatched
    <2>3. IsReq(m) => MessageAgrees([m EXCEPT !.live = FALSE], e, log')
        BY <1>1, OrphanAgrees
    <2>4. \A n \in net' : n \in net \/ MessageAgrees(n, e, log')
        BY <2>1, <2>3
    <2>5. QED
        BY <2>1, <2>2, <2>4, QuietKeeps
<1>7. ASSUME NEW m \in net, LoseRequest(m) PROVE Kept(e)
    <2>1. net' = net \ {m} /\ UNCHANGED <<role, peers, quick_commit>>
        BY <1>7 DEF LoseRequest
    <2>2. QED
        BY <2>1, QuietKeeps
<1>8. ASSUME NEW i \in Server, CommitInBg(i) PROVE Kept(e)
    BY <1>2, <1>8 DEF CommitInBg, CommitEntry, SaveCommitted, FinishSave
<1>9. CASE UNCHANGED vars
    BY <1>2, <1>9 DEF vars
<1>10. QED
    BY <1>3, <1>4, <1>5, <1>6, <1>7, <1>8, <1>9

\* The messages, roles, matched indexes and committed indexes, whatever step
\* is taken; only the restart of e may set quick_commit_idx_ back.
LEMMA StepKeeps ==
    ASSUME NEW e \in Server, Growing(e), [Next]_vars,
           \A m \in net : AcceptAppendEntries(m) =>
               Len(log'[m.dst]) >= m.last_log_idx + Len(m.entries)
    PROVE  Kept(e) \/ \E i \in Server : Restart(i)
<1>1. ASSUME NEW m \in net, Receive(m) PROVE Kept(e)
    <2>1. CASE \/ HandleVoteReq(m) \/ RefuseAppendEntries(m)
               \/ AcceptAppendEntries(m)
        BY <2>1, AnswerKeeps
    <2>2. CASE HandleLaterResp(m) \/ SetFree(m) \/ MeetRivalLeader(m)
        BY <2>2, OtherStepsKeep
    <2>3. CASE HandleVotingResp(m)
        BY <2>3, ElectionKeeps
    <2>4. CASE HandleAppendAccepted(m) \/ HandleAppendRefused(m)
        <3>1. log' = log
            BY <2>4 DEF HandleAppendAccepted, HandleAppendRefused
        <3>2. QED
            BY <2>4, <3>1, ResponseKeeps
    <2>5. QED
        BY <1>1, <2>1, <2>2, <2>3, <2>4 DEF Receive
<1>2. ASSUME NEW m \in net, RpcError(m) \/ LoseRequest(m) PROVE Kept(e)
    BY <1>2, OtherStepsKeep
<1>3. ASSUME NEW i \in Server, HandleElectionTimeout(i) PROVE Kept(e)
    BY <1>3, ElectionKeeps
<1>4. ASSUME NEW i \in Server, NEW j \in Server, HandleHbTimeout(i, j)
      PROVE  Kept(e)
    BY <1>4, LeaderStepsKeep
<1>5. ASSUME NEW i \in Server, NEW val \in Value, HandleCliReq(i, val)
      PROVE  Kept(e)
    BY <1>5, LeaderStepsKeep
<1>6. ASSUME NEW i \in Server, CommitInBg(i) PROVE Kept(e)
    BY <1>6, OtherStepsKeep
<1>7. CASE UNCHANGED vars
    BY <1>7, OtherStepsKeep
<1>8. QED
    BY <1>1, <1>2, <1>3, <1>4, <1>5, <1>6, <1>7 DEF Next

\* A restarted server forgets what it counted as committed beyond what was
\* saved, and what its peers had matched.
LEMMA RestartAgrees ==
    ASSUME TypeOK, NEW e \in Server, FollowsOnly(e), NEW i \in Server, Restart(i)
    PROVE  /\ LeadsAlone(e)' /\ MessagesAgree(e)' /\ MatchedAgree(e)'
           /\ CommitsHeld(e)'
<1>1. /\ role' = [role EXCEPT ![i] = "follower"] /\ net' = Abandon(i, net)
      /\ peers' = [peers EXCEPT ![i] = [j \in Server |-> InitPeer]]
      /\ quick_commit' = [quick_commit EXCEPT ![i] = saved[i].commit_idx]
      /\ state' = [state EXCEPT ![i] = saved[i]]
      /\ bg' = [bg EXCEPT ![i] = InitThread] /\ saved' = saved /\ log' = log
    BY DEF Restart, Restored
<1>2. LeadsAlone(e)'
    BY <1>1 DEF FollowsOnly, LeadsAlone, TypeOK
<1>3. MessagesAgree(e)'
    <2>1. net \in SUBSET Messages /\ \A m \in net : MessageAgrees(m, e, log)
        BY DEF TypeOK, FollowsOnly, MessagesAgree
    <2>2. \A m \in net' : MessageAgrees(m, e, log)
        BY <1>1, <2>1, AbandonAgrees
    <2>3. \A m \in net' : MessageAgrees(m, e, log')
        BY <1>1, <2>2
    <2>4. QED
        BY <2>3 DEF MessagesAgree, MessageAgrees
<1>4. MatchedAgree(e)'
    <2>1. InitPeer.matched_idx = 0
        BY DEF InitPeer
    <2>2. \A j \in Server : Len(log[j]) \in Nat
        BY DEF TypeOK
    <2>3. \A j \in Server : peers'[e][j].matched_idx \in {0, peers[e][j].matched_idx}
        BY <1>1, <2>1 DEF TypeOK
    <2>4. \A j \in Peers(e) : peers'[e][j].matched_idx <= Len(log[j])
        BY <2>2, <2>3 DEF FollowsOnly, MatchedAgree, Peers
    <2>5. QED
        BY <1>1, <2>4 DEF MatchedAgree, Peers
<1>5. CommitsHeld(e)'
    <2>1. /\ quick_commit[e] \in Nat /\ saved[e].commit_idx \in Nat
          /\ log \in [Server -> Seq(LogEntry)]
        BY DEF TypeOK, SrvState
    <2>2. /\ Holding(quick_commit[e], log)
          /\ \A n \in CommitIndexes(e) : n <= quick_commit[e]
        BY DEF FollowsOnly, CommitsHeld
    <2>3. saved[e].commit_idx <= quick_commit[e]
        BY <2>2 DEF CommitIndexes
    <2>4. CASE i = e
        <3>1. /\ quick_commit'[e] = saved[e].commit_idx
              /\ state'[e] = saved[e] /\ saved'[e] = saved[e]
              /\ bg'[e].copy = InitThread.copy
            BY <1>1, <2>4 DEF TypeOK
        <3>2. InitThread.copy.commit_idx = 0
            BY DEF InitThread, InitState
        <3>3. \A n \in CommitIndexes(e)' : n <= quick_commit'[e]
            BY <2>1, <3>1, <3>2 DEF CommitIndexes
        <3>4. \A j \in Server : Len(log[j]) <= Len(log[j])
            BY <2>1
        <3>5. Holding(saved[e].commit_idx, log)
            BY <2>1, <2>2, <2>3, <3>4, HoldingMore
        <3>6. Holding(quick_commit'[e], log')
            BY <1>1, <3>1, <3>5
        <3>7. QED
            BY <3>3, <3>6 DEF CommitsHeld, Holding
    <2>5. CASE i # e
        <3>1. /\ quick_commit'[e] = quick_commit[e]
              /\ state'[e] = state[e] /\ saved'[e] = saved[e] /\ bg'[e] = bg[e]
            BY <1>1, <2>5 DEF TypeOK
        <3>2. Holding(quick_commit'[e], log')
            BY <1>1, <2>2, <3>1
        <3>3. \A n \in CommitIndexes(e)' : n <= quick_commit'[e]
            BY <2>2, <3>1 DEF CommitIndexes
        <3>4. QED
            BY <3>2, <3>3 DEF CommitsHeld, Holding
    <2>6. QED
        BY <2>4, <2>5
<1>6. QED
    BY <1>2, <1>3, <1>4, <1>5

\* commit_in_bg applies an entry of its own log, and only one that it was told
\* is committed.
LEMMA CommitEntryAgrees ==
    ASSUME TypeOK, NEW e \in Server, FollowsOnly(e), NEW i \in Server,
           CommitEntry(i)
    PROVE  AppliedAgree(e)' /\ \A n \in CommitIndexes(e)' : n <= quick_commit'[e]
<1>1. PICK idx \in Nat : idx = state[i].commit_idx + 1
    BY DEF TypeOK, SrvState
<1> DEFINE st == [state[i] EXCEPT !.commit_idx = idx]
           entry == log[i][idx]
<1>2. /\ state' = [state EXCEPT ![i] = st] /\ saved' = saved
      /\ applied' = [applied EXCEPT ![i] = applied[i] \cup {<<idx, entry>>}]
      /\ bg' = [bg EXCEPT ![i].at = "commit"]
      /\ log' = log /\ quick_commit' = quick_commit
    BY <1>1 DEF CommitEntry
<1>3. st.commit_idx = idx
    BY DEF TypeOK, SrvState
<1>4. \A j \in Server : bg'[j].copy = bg[j].copy
    BY <1>2 DEF TypeOK, CommitThread
<1>5. idx <= quick_commit[i] /\ idx \in 1..Len(log[i])
    BY <1>1 DEF CommitEntry, CanCommit, TypeOK, SrvState
<1>6. entry = log[e][idx] /\ idx \in 1..Len(log[e])
    <2>1. Agrees(log[i], log[e]) /\ Len(log[e]) \in Nat /\ Len(log[i]) \in Nat
        BY DEF FollowsOnly, LogsAgree, TypeOK
    <2>2. QED
        BY <1>5, <2>1 DEF Agrees
<1> HIDE DEF st, entry
<1>7. \A n \in CommitIndexes(e)' : n <= quick_commit'[e]
    <2>1. state'[e] = IF e = i THEN st ELSE state[e]
        BY <1>2 DEF TypeOK
    <2>2. \A n \in CommitIndexes(e)' : n \in CommitIndexes(e) \/ (e = i /\ n = idx)
        BY <1>2, <1>3, <1>4, <2>1 DEF CommitIndexes
    <2>3. \A n \in CommitIndexes(e) : n <= quick_commit[e]
        BY DEF FollowsOnly, CommitsHeld
    <2>4. QED
        BY <1>2, <1>5, <2>2, <2>3
<1>8. AppliedAgree(e)'
    <2>1. \A j \in Server : \A a \in applied'[j] :
              a \in applied[j] \/ a = <<idx, entry>>
        BY <1>2 DEF TypeOK
    <2>2. \A j \in Server : \A a \in applied'[j] :
              a[1] \in 1..Len(log[e]) /\ a[2] = log[e][a[1]]
        <3>1. /\ <<idx, entry>>[1] = idx /\ <<idx, entry>>[2] = entry
            OBVIOUS
        <3>2. QED
            BY <1>6, <2>1, <3>1 DEF FollowsOnly, AppliedAgree
    <2>3. QED
        BY <1>2, <2>2 DEF AppliedAgree
<1>9. QED
    BY <1>7, <1>8

\* Every step keeps the cluster behind its only leader.
LEMMA OneLeaderStep ==
    ASSUME TypeOK, TypeOK', NEW e \in Server, FollowsOnly(e), [Next]_vars,
           \A w \in elected' : w.srv = e
    PROVE  FollowsOnly(e)'
<1>1. /\ \A j \in Server : Agrees(log[j], log'[j])
      /\ \A j \in Server : Agrees(log'[j], log'[e])
      /\ \A m \in net : AcceptAppendEntries(m) =>
             Len(log'[m.dst]) >= m.last_log_idx + Len(m.entries)
    BY LogsGrow
<1>2. /\ log \in [Server -> Seq(LogEntry)] /\ log' \in [Server -> Seq(LogEntry)]
      /\ quick_commit[e] \in Nat /\ quick_commit'[e] \in Nat
      /\ net \in SUBSET Messages /\ peers[e] \in [Server -> Peer]
    BY DEF TypeOK
<1>3. Growing(e)
    <2>1. \A m \in net : MessageAgrees(m, e, log')
        BY <1>1, <1>2, GrowthKeeps DEF FollowsOnly, MessagesAgree
    <2>2. Holding(quick_commit[e], log')
        BY <1>1, <1>2, GrowthKeeps DEF FollowsOnly, CommitsHeld
    <2>3. \A j \in Peers(e) : peers[e][j].matched_idx <= Len(log'[j])
        <3>1. ASSUME NEW j \in Peers(e)
              PROVE  peers[e][j].matched_idx <= Len(log'[j])
            <4>1. /\ j \in Server /\ peers[e][j].matched_idx \in Nat
                  /\ Len(log[j]) \in Nat /\ Len(log'[j]) \in Nat
                BY <1>2 DEF Peers, Peer
            <4>2. /\ peers[e][j].matched_idx <= Len(log[j])
                  /\ Len(log[j]) <= Len(log'[j])
                BY <1>1, <4>1 DEF FollowsOnly, MatchedAgree, Agrees
            <4>3. QED
                BY <4>1, <4>2
        <3>2. QED
            BY <3>1
    <2>4. QED
        BY <1>2, <2>1, <2>2, <2>3 DEF Growing, FollowsOnly
<1>4. LogsAgree(e)'
    BY <1>1 DEF LogsAgree, Agrees
<1>5. ASSUME applied' = applied PROVE AppliedAgree(e)'
    <2> SUFFICES ASSUME NEW j \in Server, NEW a \in applied[j]
                 PROVE  a[1] \in 1..Len(log'[e]) /\ a[2] = log'[e][a[1]]
        BY <1>5 DEF AppliedAgree
    <2>1. a[1] \in 1..Len(log[e]) /\ a[2] = log[e][a[1]]
        BY DEF FollowsOnly, AppliedAgree
    <2>2. /\ Len(log[e]) \in Nat /\ Len(log'[e]) \in Nat
          /\ Len(log[e]) <= Len(log'[e]) /\ log[e][a[1]] = log'[e][a[1]]
        BY <1>1, <1>2, <2>1 DEF Agrees
    <2>3. QED
        BY <2>1, <2>2
<1>6. AppliedAgree(e)'
    <2>1. CASE IndexesStay
        BY <1>5, <2>1 DEF IndexesStay
    <2>2. QED
        BY <2>1, IndexSteps, CommitEntryAgrees
<1>7. CASE \E i \in Server : Restart(i)
    <2>1. /\ LeadsAlone(e)' /\ MessagesAgree(e)' /\ MatchedAgree(e)'
          /\ CommitsHeld(e)'
        BY <1>7, RestartAgrees
    <2>2. QED
        BY <1>4, <1>6, <2>1 DEF FollowsOnly
<1>8. CASE Kept(e)
    <2>1. LeadsAlone(e)' /\ MatchedAgree(e)'
        BY <1>8 DEF Kept, LeadsAlone, MatchedAgree, Peers
    <2>2. MessagesAgree(e)'
        BY <1>8 DEF Kept, MessagesAgree, MessageAgrees
    <2>3. \A n \in CommitIndexes(e)' : n <= quick_commit'[e]
        <3>1. CASE IndexesStay
            <4> SUFFICES ASSUME NEW n \in CommitIndexes(e)'
                         PROVE  n <= quick_commit'[e]
                OBVIOUS
            <4>1. n \in CommitIndexes(e) \/ n = 0
                BY <3>1 DEF IndexesStay
            <4>2. CASE n = 0
                BY <1>2, <4>2
            <4>3. CASE n \in CommitIndexes(e)
                <5>1. n \in Nat
                    BY <4>3 DEF CommitIndexes, TypeOK, SrvState, CommitThread
                <5>2. n <= quick_commit[e] /\ quick_commit[e] <= quick_commit'[e]
                    BY <1>2, <1>8, <4>3 DEF FollowsOnly, CommitsHeld, Kept
                <5>3. QED
                    BY <1>2, <5>1, <5>2
            <4>4. QED
                BY <4>1, <4>2, <4>3
        <3>2. QED
            BY <3>1, IndexSteps, CommitEntryAgrees
    <2>4. CommitsHeld(e)'
        BY <1>8, <2>3 DEF Kept, CommitsHeld, Holding
    <2>5. QED
        BY <1>4, <1>6, <2>1, <2>2, <2>4 DEF FollowsOnly
<1>9. QED
    BY <1>1, <1>3, <1>7, <1>8, StepKeeps

-----------------------------------------------------------------------------
(* Agreement. *)

\* The history of elections only grows.
LEMMA ElectedGrows ==
    ASSUME TypeOK, [Next]_vars PROVE elected \subseteq elected'
<1>1. ASSUME NEW m \in net, Receive(m), ~HandleVotingResp(m)
      PROVE  elected' = elected
    BY <1>1 DEF Receive, HandleVoteReq, AcceptAppendEntries, RefuseAppendEntries,
       MeetRivalLeader, HandleLaterResp, SetFree, HandleAppendAccepted,
       HandleAppendRefused
<1>2. ASSUME \/ \E m \in net : HandleVotingResp(m)
             \/ \E i \in Server : HandleElectionTimeout(i)
      PROVE  elected \subseteq elected'
    BY <1>2, ElectionStep
<1>3. ASSUME NEW m \in net, RpcError(m) \/ LoseRequest(m) PROVE elected' = elected
    BY <1>3 DEF RpcError, LoseRequest
<1>4. ASSUME NEW i \in Server, NEW j \in Server, HandleHbTimeout(i, j)
      PROVE  elected' = elected
    BY <1>4 DEF HandleHbTimeout
<1>5. ASSUME NEW i \in Server, NEW val \in Value, HandleCliReq(i, val)
      PROVE  elected' = elected
    BY <1>5 DEF HandleCliReq
<1>6. ASSUME NEW i \in Server, CommitInBg(i) \/ Restart(i)
      PROVE  elected' = elected
    BY <1>6 DEF CommitInBg, CommitEntry, SaveCommitted, FinishSave, Restart
<1>7. ASSUME UNCHANGED vars PROVE elected' = elected
    BY <1>7 DEF vars
<1>8. QED
    BY <1>1, <1>2, <1>3, <1>4, <1>5, <1>6, <1>7 DEF Next

\* The cluster starts behind any leader.
LEMMA InitFollows == Init => OneLeaderInv
<1> SUFFICES ASSUME Init, NEW e \in Server PROVE FollowsOnly(e)
    BY DEF OneLeaderInv
<1>1. LeadsAlone(e) /\ MessagesAgree(e) /\ AppliedAgree(e)
    BY DEF Init, LeadsAlone, MessagesAgree, AppliedAgree
<1>2. \A j \in Server : log[j] = <<>>
    BY DEF Init
<1>3. LogsAgree(e)
    BY <1>2 DEF LogsAgree, Agrees
<1>4. MatchedAgree(e)
    BY <1>2 DEF Init, InitPeer, MatchedAgree, Peers
<1>5. \A n \in CommitIndexes(e) : n <= quick_commit[e]
    BY DEF Init, InitState, InitThread, CommitIndexes
<1>6. Holding(quick_commit[e], log)
    <2>1. quick_commit[e] = 0
        BY DEF Init
    <2>2. {j \in Server : Len(log[j]) >= 0} = Server
        BY <1>2
    <2>3. ClusterSize \in Nat \ {0}
        BY ServerAssumption, FS_CardinalityType, FS_EmptySet DEF ClusterSize
    <2>4. IsMajority(Cardinality(Server))
        BY <2>3 DEF IsMajority, ClusterSize
    <2>5. QED
        BY <2>1, <2>2, <2>4 DEF Holding
<1>7. QED
    BY <1>1, <1>3, <1>4, <1>5, <1>6 DEF FollowsOnly, CommitsHeld

\* What the invariant says of applied entries and of committed ones.
LEMMA FollowersAgree ==
    ASSUME TypeOK, OneLeaderInv, OneLeaderSoFar
    PROVE  StateMachineSafety /\ CommittedOnMajority
<1>1. PICK e \in Server : \A w \in elected : w.srv = e
    <2>1. CASE elected = {}
        BY <2>1, ServerAssumption
    <2>2. CASE elected # {}
        BY <2>2 DEF OneLeaderSoFar, TypeOK
    <2>3. QED
        BY <2>1, <2>2
<1>2. FollowsOnly(e)
    BY <1>1 DEF OneLeaderInv
<1>3. StateMachineSafety
    BY <1>2 DEF FollowsOnly, AppliedAgree, StateMachineSafety
<1>4. CommittedOnMajority
    <2> SUFFICES ASSUME NEW k \in 1..quick_commit[e]
                 PROVE  Cardinality({j \in Server :
                            /\ Len(log[j]) >= k /\ Len(log[e]) >= k
                            /\ log[j][k] = log[e][k]}) * 2 > ClusterSize
        BY <1>2 DEF FollowsOnly, LeadsAlone, CommittedOnMajority
    <2> DEFINE A == {j \in Server : Len(log[j]) >= quick_commit[e]}
               B == {j \in Server : /\ Len(log[j]) >= k /\ Len(log[e]) >= k
                                    /\ log[j][k] = log[e][k]}
    <2>1. /\ quick_commit[e] \in Nat /\ k \in Nat /\ k <= quick_commit[e]
          /\ k >= 1 /\ \A j \in Server : Len(log[j]) \in Nat
        BY DEF TypeOK
    <2>2. ASSUME NEW j \in A PROVE j \in B
        <3>1. Len(log[j]) >= k
            BY <2>1
        <3>2. /\ Len(log[j]) <= Len(log[e])
              /\ \A n \in 1..Len(log[j]) : log[j][n] = log[e][n]
            BY <1>2 DEF FollowsOnly, LogsAgree, Agrees
        <3>3. QED
            BY <2>1, <3>1, <3>2
    <2>3. A \in SUBSET B /\ B \in SUBSET Server
        BY <2>2
    <2>4. IsMajority(Cardinality(A))
        BY <1>2 DEF FollowsOnly, CommitsHeld, Holding
    <2> HIDE DEF A, B
    <2>5. IsMajority(Cardinality(B))
        BY <2>3, <2>4, MajorityGrows
    <2>6. Cardinality(B) \in Nat /\ ClusterSize \in Nat
        BY <2>3, ServerAssumption, FS_Subset, FS_CardinalityType DEF ClusterSize
    <2>7. Cardinality(B) * 2 > ClusterSize
        BY <2>5, <2>6 DEF IsMajority
    <2>8. QED
        BY <2>7 DEF B
<1>5. QED
    BY <1>3, <1>4

\* As long as one server has won all elections, through any restarts, errors
\* and late messages: no two servers apply different entries for an index, and
\* what the leader counts as committed is in the logs of a majority.
THEOREM AgreementUnderOneLeader ==
    Spec => [](OneLeaderSoFar => StateMachineSafety /\ CommittedOnMajority)
<1>1. Init => OneLeaderInv
    BY InitFollows
<1>2. TypeOK /\ TypeOK' /\ OneLeaderInv /\ [Next]_vars => OneLeaderInv'
    <2> SUFFICES ASSUME TypeOK, TypeOK', OneLeaderInv, [Next]_vars,
                        NEW e \in Server, \A w \in elected' : w.srv = e
                 PROVE  FollowsOnly(e)'
        BY DEF OneLeaderInv
    <2>1. FollowsOnly(e)
        BY ElectedGrows DEF OneLeaderInv
    <2>2. QED
        BY <2>1, OneLeaderStep
<1>3. TypeOK /\ OneLeaderInv =>
          (OneLeaderSoFar => StateMachineSafety /\ CommittedOnMajority)
    BY FollowersAgree
<1>4. QED
    BY <1>1, <1>2, <1>3, TypeCorrect, PTL DEF Spec
=============================================================================
