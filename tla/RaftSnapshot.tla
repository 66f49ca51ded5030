---------------------------- MODULE RaftSnapshot ----------------------------
(***************************************************************************)
(* Snapshots and log compaction of raft_server.cxx: a leader that stays in *)
(* office, its followers, the snapshots each of them takes of its own      *)
(* state machine, and the installation of the leader's snapshot on a       *)
(* follower that lags behind the leader's start index.                     *)
(*                                                                         *)
(* Under one leader all logs are windows of one log, so a log is given by  *)
(* its start index and its last index; whose terms disagree is             *)
(* RaftServer's subject.  A snapshot is named by its last index and sent   *)
(* in Blocks blocks.                                                       *)
(***************************************************************************)
EXTENDS Integers, FiniteSets

CONSTANTS
    Leader, Follower,
    Distance,        \* raft_params::snapshot_distance_ of each server
    Blocks,          \* snapshot::size in units of the block size
    MaxAppendSize,   \* raft_params::max_append_size_
    UlongMax,        \* stands for 2^64 - 1, the largest ulong
    EmptyLogs,       \* followers that have not received anything yet
    Quiet,           \* bound: followers that only acknowledge, and at once
    MaxLog,          \* bound: the last index of the leader's log
    MaxFaults        \* bound: RPC errors, restarts of followers, and followers
                     \* that a request reaches before a callback

Server == {Leader} \cup Follower

ASSUME SnapshotAssumption ==
    /\ Leader \notin Follower /\ IsFiniteSet(Follower)
    /\ Quiet \subseteq Follower /\ EmptyLogs \subseteq Follower
    /\ Distance \in [Server -> Nat]
    /\ Blocks \in Nat \ {0} /\ MaxAppendSize \in Nat \ {0} /\ UlongMax \in Nat
    /\ MaxLog \in Nat /\ MaxFaults \in Nat

VARIABLES
    up,        \* "up", or why the process ended
    start,     \* log_store::start_index
    last,      \* log_store::next_slot - 1
    quick,     \* quick_commit_idx_
    commit,    \* srv_state::commit_idx_ in memory
    saved,     \* srv_state::commit_idx_ as last saved
    applying,  \* the entry state_machine::commit is running for, or 0
    snap,      \* state_machine::last_snapshot, or 0
    making,    \* the snapshot being made, while snp_in_progress_
    content,   \* the entries that the state machine reflects
    chunks,    \* what save_snapshot_data was given: <<snapshot, offset>>
    peer,      \* the leader's peer objects
    net,       \* RPC requests and responses under way
    errors, restarts,
    marks,     \* history: installations that met an apply or a crash
    overtaken  \* history: followers that were sent a request between the
               \* set_free and the callback of a response

vars == <<up, start, last, quick, commit, saved, applying, snap, making,
          content, chunks, peer, net, errors, restarts, marks, overtaken>>

Larger(a, b) == IF a >= b THEN a ELSE b
Smaller(a, b) == IF a <= b THEN a ELSE b
UlongDec(n) == IF n = 0 THEN UlongMax ELSE n - 1
None == [idx |-> 0, done |-> FALSE]
NoSync == [idx |-> 0, offset |-> 0]
Up(s) == up[s] = "up"
IsReq(m) == m.type \in {"append_req", "snapshot_req"}

Faults == errors + restarts + Cardinality(overtaken)

\* What happens on the wire of a quiet follower happens at once; its threads
\* and failures are left out.
Urgent(m) == m.peer \in Quiet
Calm == \A m \in net : ~Urgent(m)
Turn(m) == Urgent(m) \/ Calm

-----------------------------------------------------------------------------
(* The leader's requests. *)

\* create_append_entries_req for a peer object p when the log ends at end.
PrevIdx(p, end) == (IF p.next = 0 THEN end + 1 ELSE p.next) - 1
NeedsSnapshotLate(prev, st) == prev > 0 /\ prev < st - 2
NeedsSnapshot(prev, st) == prev > 0 /\ prev < st - 1

\* What becomes of a request: it is made, or the process ends (term_for_log
\* and create_sync_snapshot_req call exit), or the log store throws because
\* entries it no longer has are asked for.
Outcome(p, end) ==
    LET prev == PrevIdx(p, end)
        renew == p.sync.idx = 0 \/ snap[Leader] > p.sync.idx
    IN  IF prev > end THEN "too_large"
        ELSE IF NeedsSnapshot(prev, start[Leader])
        THEN IF renew /\ (snap[Leader] = 0 \/ prev > snap[Leader])
             THEN "no_snapshot" ELSE "made"
        ELSE IF prev = 0 THEN IF start[Leader] > 1 THEN "throws" ELSE "made"
        ELSE IF prev >= start[Leader] \/ prev = snap[Leader] THEN "made"
        ELSE "bad_term"

SyncOf(p) == IF p.sync.idx = 0 \/ snap[Leader] > p.sync.idx
             THEN [idx |-> snap[Leader], offset |-> 0] ELSE p.sync

DoneOneEarly(offset) == offset + 2 >= Blocks
Done(offset) == offset + 1 >= Blocks

Req(f, p, end, qc) ==
    LET prev == PrevIdx(p, end)
    IN  IF NeedsSnapshot(prev, start[Leader])
        THEN [type |-> "snapshot_req", peer |-> f, idx |-> SyncOf(p).idx,
              offset |-> SyncOf(p).offset,
              done |-> Done(SyncOf(p).offset),
              live |-> TRUE, queued |-> FALSE]
        ELSE [type |-> "append_req", peer |-> f, prev |-> prev,
              n |-> Smaller(end - prev, MaxAppendSize), commit_idx |-> qc,
              live |-> TRUE, queued |-> FALSE]

PeerAfter(p, end) ==
    [p EXCEPT !.next = PrevIdx(p, end) + 1, !.busy = TRUE,
              !.sync = IF NeedsSnapshot(PrevIdx(p, end), start[Leader])
                       THEN SyncOf(p) ELSE @]

\* Among the messages ms is a response of f whose callback waits for lock_.
Waiting(f, ms) == \E m \in ms : m.peer = f /\ m.queued

\* request_append_entries to the free peers of dests; ps are the peer objects
\* and ms the messages before.  One bad peer ends the loop over the others.
RequestAppendEntries(dests, end, qc, ps, ms) ==
    LET free == {f \in dests : ~ps[f].busy}
        bad == {f \in free : Outcome(ps[f], end) # "made"}
        Send(fs) == /\ peer' = [f \in Follower |->
                           IF f \in fs THEN PeerAfter(ps[f], end)
                           ELSE IF f \in bad /\ fs # free
                           THEN [ps[f] EXCEPT !.busy = TRUE] ELSE ps[f]]
                    /\ net' = ms \cup {Req(f, ps[f], end, qc) : f \in fs}
                    /\ overtaken' = overtaken \cup {f \in fs : Waiting(f, ms)}
    IN  IF bad = {} THEN Send(free) /\ UNCHANGED up
        ELSE \E f \in bad, fs \in SUBSET (free \ bad) :
                 /\ Send(fs)
                 /\ up' = IF Outcome(ps[f], end) = "throws" THEN up
                          ELSE [up EXCEPT ![Leader] = Outcome(ps[f], end)]

\* handle_cli_req and handle_hb_timeout.
MayOvertake(f) == Waiting(f, net) => Faults < MaxFaults
HandleCliReq ==
    /\ Up(Leader) /\ Calm /\ last[Leader] < MaxLog
    /\ \A f \in Follower : peer[f].busy \/ MayOvertake(f)
    /\ last' = [last EXCEPT ![Leader] = @ + 1]
    /\ RequestAppendEntries(Follower, last[Leader] + 1, quick[Leader], peer,
                            net)
    /\ UNCHANGED <<start, quick, commit, saved, applying, snap, making,
                   content, chunks, errors, restarts, marks>>

HandleHbTimeout(f) ==
    /\ Up(Leader) /\ Calm /\ ~peer[f].busy /\ MayOvertake(f)
    /\ RequestAppendEntries({f}, last[Leader], quick[Leader], peer, net)
    /\ UNCHANGED <<start, last, quick, commit, saved, applying, snap, making,
                   content, chunks, errors, restarts, marks>>

-----------------------------------------------------------------------------
(* The followers. *)

Resp(m, ok, next) ==
    [type |-> IF m.type = "append_req" THEN "append_resp" ELSE "snapshot_resp",
     peer |-> m.peer, accepted |-> ok, next |-> next, live |-> TRUE,
     queued |-> FALSE]
Answered(m, resp) == (net \ {m}) \cup (IF m.live THEN {resp} ELSE {})

\* The follower ends, and the connection with it: the sender gets an error.
Exits(m, why) ==
    /\ up' = [up EXCEPT ![m.peer] = why]
    /\ net' = net \ {m}
    /\ peer' = IF m.live THEN [peer EXCEPT ![m.peer].busy = FALSE] ELSE peer

\* term_for_log on a follower, for an index inside its log.
TermKnown(f, prev) == prev = 0 \/ prev >= start[f] \/ prev = snap[f]

HandleAppendEntries(m) ==
    LET f == m.peer
        inside == m.prev <= last[f]
    IN  /\ m.type = "append_req" /\ Up(f) /\ Turn(m)
        /\ IF inside /\ ~TermKnown(f, m.prev)
           THEN Exits(m, "bad_term") /\ UNCHANGED <<last, quick>>
           ELSE /\ last' = [last EXCEPT ![f] =
                       IF inside THEN Larger(@, m.prev + m.n) ELSE @]
                /\ quick' = [quick EXCEPT ![f] =
                       IF inside THEN Larger(@, m.commit_idx) ELSE @]
                /\ net' = Answered(m, Resp(m, inside,
                       IF inside THEN m.prev + m.n + 1 ELSE last[f] + 1))
                /\ UNCHANGED <<up, peer>>
        /\ UNCHANGED <<start, commit, saved, applying, snap, making, content,
                       chunks, errors, restarts, marks, overtaken>>

\* handle_install_snapshot_req with nothing to install yet: the snapshot is
\* not newer than what is committed, or more blocks follow.
SaveBlock(m) ==
    LET f == m.peer
        old == m.idx <= commit[f]
    IN  /\ m.type = "snapshot_req" /\ Up(f) /\ Turn(m)
        /\ old \/ ~m.done
        /\ chunks' = IF old THEN chunks
                     ELSE [chunks EXCEPT ![f] = @ \cup {<<m.idx, m.offset>>}]
        /\ net' = Answered(m, Resp(m, ~old, IF old THEN 0 ELSE m.offset + 1))
        /\ UNCHANGED <<up, start, last, quick, commit, saved, applying, snap,
                       making, content, peer, errors, restarts, marks,
                       overtaken>>

\* log_store::compact
CompactPast(s, idx) ==
    /\ start' = [start EXCEPT ![s] = idx + 2]
    /\ last' = [last EXCEPT ![s] = Larger(@, idx + 1)]
CompactKeepingEnd(s, idx) ==
    /\ start' = [start EXCEPT ![s] = idx + 1]
    /\ UNCHANGED last
CompactTo(s, idx) ==
    /\ start' = [start EXCEPT ![s] = idx + 1]
    /\ last' = [last EXCEPT ![s] = Larger(@, idx)]

\* state_machine::apply_snapshot makes of the blocks what it can.
Installed(f, m, got) ==
    /\ content' = [content EXCEPT ![f] =
           IF \A o \in 0..(Blocks - 1) : <<m.idx, o>> \in got
           THEN 1..m.idx ELSE {}]
    /\ snap' = [snap EXCEPT ![f] = m.idx]

\* handle_snapshot_sync_req with the last block: the log is compacted, the
\* snapshot applied and the new commit index saved.  compact throws if the
\* log already starts behind the snapshot, which ends the process.
CommitIdxOf(m) ==
    /\ quick' = [quick EXCEPT ![m.peer] = m.idx]
    /\ commit' = [commit EXCEPT ![m.peer] = m.idx]
    /\ saved' = [saved EXCEPT ![m.peer] = m.idx]
InstallSnapshot(m) ==
    LET f == m.peer
        got == chunks[f] \cup {<<m.idx, m.offset>>}
    IN  /\ m.type = "snapshot_req" /\ Up(f) /\ Turn(m)
        /\ m.idx > commit[f] /\ m.done
        /\ chunks' = [chunks EXCEPT ![f] = got]
        /\ \/ /\ m.idx >= start[f]
              /\ CompactTo(f, m.idx)
              /\ Installed(f, m, got)
              /\ CommitIdxOf(m)
              /\ net' = Answered(m, Resp(m, TRUE, m.offset + 1))
              /\ marks' = IF applying[f] = 0 THEN marks
                          ELSE marks \cup {<<f, "raced">>}
              /\ UNCHANGED <<up, peer>>
           \/ /\ m.idx < start[f]
              /\ Exits(m, "bad_install")
              /\ UNCHANGED <<start, last, snap, content, quick, commit, saved,
                             marks>>
        /\ UNCHANGED <<applying, making, errors, restarts, overtaken>>

-----------------------------------------------------------------------------
(* Responses. *)

\* peer::handle_rpc_result frees the peer before its callback gets lock_.
SetFree(m) ==
    /\ ~IsReq(m) /\ ~m.queued /\ Up(Leader) /\ Turn(m)
    /\ [m EXCEPT !.queued = TRUE] \notin net
    /\ peer' = [peer EXCEPT ![m.peer].busy = FALSE]
    /\ net' = (net \ {m}) \cup {[m EXCEPT !.queued = TRUE]}
    /\ UNCHANGED <<up, start, last, quick, commit, saved, applying, snap,
                   making, content, chunks, errors, restarts, marks,
                   overtaken>>

MajorityMatched(ps) ==
    LET Matched(s) == IF s = Leader THEN last[Leader] ELSE ps[s].matched
        Many(S) == 2 * Cardinality(S) > Cardinality(Server)
    IN  CHOOSE x \in {Matched(s) : s \in Server} :
            /\ ~Many({s \in Server : Matched(s) > x})
            /\ Many({s \in Server : Matched(s) >= x})

\* handle_append_entries_resp.
HandleAppendAccepted(m) ==
    LET f == m.peer
        ps == [peer EXCEPT ![f].next = m.next, ![f].matched = m.next - 1]
        target == MajorityMatched(ps)
        raised == target > quick[Leader]
        catchup == ps[f].pending \/ m.next < last[Leader] + 1
        marked == [g \in Follower |-> [ps[g] EXCEPT !.pending =
                      g # f /\ (@ \/ (raised /\ ps[g].busy))]]
    IN  /\ m.type = "append_resp" /\ m.queued /\ m.accepted /\ Up(Leader)
        /\ quick' = [quick EXCEPT ![Leader] = Larger(@, target)]
        /\ RequestAppendEntries(
               IF raised THEN Follower ELSE IF catchup THEN {f} ELSE {},
               last[Leader], quick'[Leader], marked, net \ {m})
        /\ UNCHANGED <<start, last, commit, saved, applying, snap, making,
                       content, chunks, errors, restarts, marks>>

HandleAppendRefused(m) ==
    LET f == m.peer
        next == peer[f].next
        ps == [peer EXCEPT ![f].next = IF next > m.next THEN m.next
                                       ELSE UlongDec(next)]
    IN  /\ m.type = "append_resp" /\ m.queued /\ ~m.accepted /\ Up(Leader)
        /\ RequestAppendEntries({f}, last[Leader], quick[Leader], ps, net \ {m})
        /\ UNCHANGED <<start, last, quick, commit, saved, applying, snap,
                       making, content, chunks, errors, restarts, marks>>

\* handle_install_snapshot_resp.  It does not say which snapshot it is about,
\* and compares its offset with an index of the log (line 400).
AfterBlockOfAny(p, m) ==
    [p EXCEPT !.next = p.sync.idx + 1, !.matched = p.sync.idx,
              !.sync = NoSync, !.pending = FALSE]
AfterBlock(p, m) ==
    IF m.next >= Blocks
    THEN [p EXCEPT !.next = p.sync.idx + 1, !.matched = p.sync.idx,
                   !.sync = NoSync, !.pending = FALSE]
    ELSE [p EXCEPT !.sync.offset = m.next]
HandleInstallSnapshotResp(m) ==
    LET f == m.peer
        p == peer[f]
        known == p.sync.idx # 0
        whole == m.next >= Blocks
        catchup == IF ~m.accepted THEN TRUE
                   ELSE /\ known
                        /\ whole => p.pending \/ m.next < last[Leader] + 1
        ps == IF m.accepted /\ known
              THEN [peer EXCEPT ![f] = AfterBlock(p, m)] ELSE peer
    IN  /\ m.type = "snapshot_resp" /\ m.queued /\ Up(Leader)
        /\ RequestAppendEntries(IF catchup THEN {f} ELSE {}, last[Leader],
                                quick[Leader], ps, net \ {m})
        /\ UNCHANGED <<start, last, quick, commit, saved, applying, snap,
                       making, content, chunks, errors, restarts, marks>>

-----------------------------------------------------------------------------
(* commit_in_bg and snapshot_and_compact.  Neither holds lock_. *)

\* An entry is read and given to the state machine.  The store throws if it
\* no longer has the entry, and that ends the process.
StartEntry(s) ==
    LET idx == commit[s] + 1
    IN  /\ Up(s) /\ Calm /\ s \notin Quiet /\ applying[s] = 0
        /\ quick[s] >= idx /\ last[s] >= idx
        /\ \/ /\ idx >= start[s]
              /\ applying' = [applying EXCEPT ![s] = idx]
              /\ content' = [content EXCEPT ![s] = @ \cup {idx}]
              /\ UNCHANGED up
           \/ /\ idx < start[s]
              /\ up' = [up EXCEPT ![s] = "bad_commit"]
              /\ UNCHANGED <<applying, content>>
        /\ UNCHANGED <<start, last, quick, commit, saved, snap, making, chunks,
                       peer, net, errors, restarts, marks, overtaken>>

\* A snapshot is due after idx: far enough from the start index, none under
\* way, and not a recent one (the difference is unsigned).
Due(s, idx) ==
    /\ Distance[s] > 0 /\ idx > start[s] + Distance[s]
    /\ making[s].idx = 0
    /\ ~(snap[s] > 0 /\ idx >= snap[s] /\ idx - snap[s] < Distance[s])

\* The entry is applied, and the loop goes on with its own count of the index
\* to the next one, or ends with the state saved.
FinishEntry(s) ==
    LET idx == applying[s]
        more == quick[s] > idx /\ last[s] > idx
        readable == idx + 1 >= start[s]
    IN  /\ Up(s) /\ Calm /\ idx # 0
        /\ commit' = [commit EXCEPT ![s] = idx]
        /\ making' = IF Due(s, idx)
                     THEN [making EXCEPT ![s] = [idx |-> idx - 1, done |-> FALSE]]
                     ELSE making
        /\ applying' = [applying EXCEPT ![s] =
                           IF more /\ readable THEN idx + 1 ELSE 0]
        /\ content' = IF more /\ readable
                      THEN [content EXCEPT ![s] = @ \cup {idx + 1}] ELSE content
        /\ up' = IF more /\ ~readable
                 THEN [up EXCEPT ![s] = "bad_commit"] ELSE up
        /\ saved' = IF more THEN saved ELSE [saved EXCEPT ![s] = idx]
        /\ UNCHANGED <<start, last, quick, snap, chunks, peer, net, errors,
                       restarts, marks, overtaken>>

\* The state machine has made the snapshot, or refuses to.  Its last snapshot
\* is the one with the largest index.
CreateSnapshot(s) ==
    /\ Up(s) /\ Calm /\ making[s].idx # 0 /\ ~making[s].done
    /\ \/ /\ making' = [making EXCEPT ![s].done = TRUE]
          /\ snap' = [snap EXCEPT ![s] = Larger(@, making[s].idx)]
       \/ making' = [making EXCEPT ![s] = None] /\ UNCHANGED snap
    /\ UNCHANGED <<up, start, last, quick, commit, saved, applying, content,
                   chunks, peer, net, errors, restarts, marks, overtaken>>

\* on_snapshot_completed: under lock_, the log is compacted.  If it already
\* starts behind the snapshot compact throws, and snp_in_progress_ stays set.
OnSnapshotCompleted(s) ==
    /\ Up(s) /\ Calm /\ making[s].done /\ making[s].idx >= start[s]
    /\ CompactTo(s, making[s].idx)
    /\ making' = [making EXCEPT ![s] = None]
    /\ UNCHANGED <<up, quick, commit, saved, applying, snap, content, chunks,
                   peer, net, errors, restarts, marks, overtaken>>

-----------------------------------------------------------------------------
(* Failures. *)

\* A request or response is lost; a lost request may still get through.
RpcError(m) ==
    /\ Faults < MaxFaults /\ m.live /\ ~m.queued
    /\ Turn(m) /\ m.peer \notin Quiet
    /\ errors' = errors + 1
    /\ peer' = [peer EXCEPT ![m.peer].busy = FALSE]
    /\ \/ net' = net \ {m}
       \/ IsReq(m) /\ net' = (net \ {m}) \cup {[m EXCEPT !.live = FALSE]}
    /\ UNCHANGED <<up, start, last, quick, commit, saved, applying, snap,
                   making, content, chunks, restarts, marks, overtaken>>

\* The process of a follower ends and is started again.
Restarted(f) ==
    /\ Faults < MaxFaults /\ restarts' = restarts + 1
    /\ up' = [up EXCEPT ![f] = "up"]
    /\ quick' = [quick EXCEPT ![f] = saved[f]]
    /\ commit' = [commit EXCEPT ![f] = saved[f]]
    /\ applying' = [applying EXCEPT ![f] = 0]
    /\ making' = [making EXCEPT ![f] = None]
Restart(f) ==
    /\ Calm /\ f \notin Quiet
    /\ Restarted(f)
    /\ marks' = IF saved[f] < start[f] - 1
                THEN marks \cup {<<f, "behind">>} ELSE marks
    /\ UNCHANGED <<start, last, saved, snap, content, chunks, peer, net,
                   errors, overtaken>>

\* The process dies while it installs a snapshot: the log is compacted, and
\* the new commit index is not saved.
CrashInInstall(m) ==
    LET f == m.peer
        got == chunks[f] \cup {<<m.idx, m.offset>>}
    IN  /\ m.type = "snapshot_req" /\ Up(f) /\ Turn(m)
        /\ m.idx > commit[f] /\ m.done /\ m.idx >= start[f]
        /\ Restarted(f)
        /\ CompactTo(f, m.idx)
        /\ chunks' = [chunks EXCEPT ![f] = got]
        /\ Installed(f, m, got) \/ UNCHANGED <<content, snap>>
        /\ marks' = marks \cup {<<f, "torn">>}
        /\ net' = net \ {m}
        /\ peer' = IF m.live THEN [peer EXCEPT ![f].busy = FALSE] ELSE peer
        /\ UNCHANGED <<saved, errors, overtaken>>

-----------------------------------------------------------------------------
\* The leader has been elected with one entry in its log, which everyone but
\* the followers of EmptyLogs has, and takes each peer to end where it does.
Has(s) == IF s \in EmptyLogs THEN 0 ELSE 1
Init ==
    /\ up = [s \in Server |-> "up"]
    /\ start = [s \in Server |-> 1]
    /\ last = [s \in Server |-> Has(s)]
    /\ quick = [s \in Server |-> Has(s)]
    /\ commit = [s \in Server |-> Has(s)]
    /\ saved = [s \in Server |-> Has(s)]
    /\ applying = [s \in Server |-> 0]
    /\ snap = [s \in Server |-> 0]
    /\ making = [s \in Server |-> None]
    /\ content = [s \in Server |-> 1..Has(s)]
    /\ chunks = [f \in Follower |-> {}]
    /\ peer = [f \in Follower |->
           [next |-> 2, matched |-> Has(f), busy |-> FALSE,
            pending |-> FALSE, sync |-> NoSync]]
    /\ net = {}
    /\ errors = 0 /\ restarts = 0 /\ marks = {} /\ overtaken = {}

Receive(m) ==
    \/ HandleAppendEntries(m) \/ SaveBlock(m) \/ InstallSnapshot(m)
    \/ SetFree(m)
    \/ HandleAppendAccepted(m) \/ HandleAppendRefused(m)
    \/ HandleInstallSnapshotResp(m)

CommitInBg(s) == StartEntry(s) \/ FinishEntry(s)
Compaction(s) == CreateSnapshot(s) \/ OnSnapshotCompleted(s)

Next ==
    \/ \E m \in net : Receive(m) \/ RpcError(m) \/ CrashInInstall(m)
    \/ HandleCliReq
    \/ \E f \in Follower : HandleHbTimeout(f) \/ Restart(f)
    \/ \E s \in Server : CommitInBg(s) \/ Compaction(s)

Spec == Init /\ [][Next]_vars

\* Messages are delivered, timers fire and threads run.  Clients, errors,
\* restarts and the speed of the state machine are not promised.  Strong
\* fairness is for what Calm holds back while a message is urgent: a bound of
\* the model, which must not starve a thread that the code lets run.
FairSpec ==
    /\ Spec
    /\ WF_vars(\E m \in net : Receive(m))
    /\ \A f \in Follower \ Quiet :
           /\ SF_vars(\E m \in net : m.peer = f /\ Receive(m))
           /\ SF_vars(HandleHbTimeout(f))
           /\ SF_vars(CommitInBg(f))

-----------------------------------------------------------------------------
(* Properties. *)

Sync == [idx : Nat, offset : Nat]
Messages ==
    [type : {"append_req"}, peer : Follower, prev : Nat, n : Nat,
     commit_idx : Nat, live : BOOLEAN, queued : {FALSE}] \cup
    [type : {"snapshot_req"}, peer : Follower, idx : Nat, offset : Nat,
     done : BOOLEAN, live : BOOLEAN, queued : {FALSE}] \cup
    [type : {"append_resp", "snapshot_resp"}, peer : Follower,
     accepted : BOOLEAN, next : Nat, live : {TRUE}, queued : BOOLEAN]

\* Types; a log may be empty, but ends neither before its start index nor
\* before the commit index.
TypeOK ==
    /\ up \in [Server -> {"up", "too_large", "no_snapshot", "bad_term",
                          "bad_install", "bad_commit"}]
    /\ last \in [Server -> Nat] /\ quick \in [Server -> Nat]
    /\ \A s \in Server : start[s] \in 1..(last[s] + 1) /\ commit[s] \in 0..last[s]
    /\ saved \in [Server -> Nat] /\ applying \in [Server -> Nat]
    /\ snap \in [Server -> Nat]
    /\ making \in [Server -> [idx : Nat, done : BOOLEAN]]
    /\ content \in [Server -> SUBSET Nat]
    /\ chunks \in [Follower -> SUBSET (Nat \X Nat)]
    /\ peer \in [Follower -> [next : Nat, matched : Nat, busy : BOOLEAN,
                              pending : BOOLEAN, sync : Sync]]
    /\ net \subseteq Messages
    /\ errors \in Nat /\ restarts \in Nat
    /\ marks \subseteq Follower \X {"raced", "behind", "torn"}
    /\ overtaken \subseteq Follower

\* What compaction removes from a log is in the last snapshot, so that
\* term_for_log finds the term of the entry before the start index.  (Unless
\* a follower died in the middle of an installation.)
CompactedIsInSnapshot ==
    \A s \in Server : <<s, "torn">> \notin marks => start[s] - 1 <= snap[s]

\* Compaction and installation lose nothing: the state machine reflects every
\* entry up to the commit index, however it got there.  (Unless a request
\* overtook the callback of a response: peer::handle_rpc_result frees the peer
\* before that gets lock_, and the response may then be taken for the answer
\* to a block of a later snapshot.)
NothingSkipped ==
    \A s \in Server \ overtaken : 1..commit[s] \subseteq content[s]

\* The checks that end a process fire only where they must: a leader always
\* has a snapshot for whoever needs one; its term_for_log fails only between
\* the making of a snapshot and its compaction; a follower meets an unknown
\* term only after an RPC was lost, an installation fails only after a crash
\* within one or one that lost a commit index the log was compacted past, and
\* the commit thread misses its entry only after one of those or if a snapshot
\* was installed while it applied an entry.  A request that overtook the
\* callback of a response explains a follower's unknown term, and a leader's
\* next_log_idx_ beyond its own log.
ExitsExplained ==
    /\ \A s \in Server : up[s] # "no_snapshot"
    /\ up[Leader] = "bad_term" => making[Leader].done
    /\ \A s \in Server : up[s] = "too_large" => s = Leader /\ overtaken # {}
    /\ \A f \in Follower :
           /\ up[f] = "bad_term" => errors > 0 \/ f \in overtaken
           /\ up[f] = "bad_install" =>
                  \E why \in {"behind", "torn"} : <<f, why>> \in marks
    /\ \A s \in Server :
           up[s] = "bad_commit" =>
               \E why \in {"raced", "behind", "torn"} : <<s, why>> \in marks

\* The leader offers f a snapshot that f has already: f declines it, the
\* leader "will retry", and nothing changes.
Offered(f) == peer[f].sync.idx # 0 /\ peer[f].sync.idx <= commit[f]
\* The log store threw for a follower that had nothing, and its peer object
\* stays busy although no call is under way.
Dropped(f) ==
    /\ start[Leader] > 1 /\ peer[f].busy
    /\ \A m \in net : m.peer = f => ~m.live \/ m.queued

\* A follower catches up with the leader's log, by entries or by a snapshot,
\* unless a process ended or the leader is caught in one of the two loops.
FollowerCatchesUp ==
    \A f \in Follower \ Quiet :
        last[Leader] = MaxLog ~>
            \/ commit[f] = MaxLog
            \/ ~Up(Leader) \/ ~Up(f)
            \/ [](Offered(f) \/ Dropped(f))
=============================================================================
