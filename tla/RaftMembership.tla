--------------------------- MODULE RaftMembership ---------------------------
(***************************************************************************)
(* Adding and removing servers (raft_server.cxx, the extended messages,    *)
(* reconfigure and the configuration branch of commit_in_bg), under one    *)
(* leader that stays in office.  Elections are RaftServer's subject; here  *)
(* a property asks who could win one.                                      *)
(*                                                                         *)
(* Every log is a prefix of the leader's, so it is given by its length; an *)
(* entry is the set of servers of a configuration, or {} for any other     *)
(* entry; a configuration in use is given by its index in the log, and 0   *)
(* is the configuration of a server that has not been invited yet.  As one *)
(* server leads, the configurations carry one term.                        *)
(***************************************************************************)
EXTENDS Integers, Sequences, FiniteSets

CONSTANTS
    Leader,
    Member,            \* the servers of the first configuration but the leader
    Joiner,            \* the servers that may be added
    Nobody,            \* no srv_to_join_
    StopGap,           \* raft_params::log_sync_stop_gap_
    BatchSize,         \* raft_params::log_sync_batch_size_
    MaxSlow,           \* backoffs until max_hb_interval is reached
    ChangesSerialized, \* a change is asked for only once the last one's
                       \* configuration is in the log, or it was given up
    LateRequests,      \* may a request arrive after its error was reported?
    Failing,           \* bound: types of requests that fail at a running server
    MaxLog,            \* bound: clients write to a shorter log only
    MaxChanges,        \* bound: servers added or removed
    MaxFaults          \* bound: RPC errors, restarts and crashes

Server == {Leader} \cup Member \cup Joiner
Other == Member \cup Joiner

ASSUME MembershipAssumption ==
    /\ Leader \notin Other /\ Member \cap Joiner = {} /\ Nobody \notin Server
    /\ IsFiniteSet(Other)
    /\ StopGap \in Nat \ {0} /\ BatchSize \in Nat \ {0} /\ MaxSlow \in Nat \ {0}
    /\ ChangesSerialized \in BOOLEAN /\ LateRequests \in BOOLEAN
    /\ Failing \subseteq {"append", "join", "sync", "leave"}
    /\ MaxLog \in Nat /\ MaxChanges \in Nat /\ MaxFaults \in Nat

VARIABLES
    log,       \* the leader's log
    len,       \* how much of it each server has
    quick,     \* quick_commit_idx_
    commit,    \* srv_state::commit_idx_: what commit_in_bg has applied
    conf,      \* config_, as an index into log
    changing,  \* config_changing_
    catching,  \* catching_up_
    steps,     \* steps_to_down_
    down,      \* the processes that have ended
    peers,     \* the leader's peers_
    peer,      \* and the objects in it: next, matched, busy, slow
    join,      \* srv_to_join_ and conf_to_add_ of the leader
    reqs, resps,  \* RPC requests and responses under way
    changes, faults,
    declined   \* history: a server declined to join, to sync or to leave

vars == <<log, len, quick, commit, conf, changing, catching, steps, down,
          peers, peer, join, reqs, resps, changes, faults, declined>>

Larger(a, b) == IF a >= b THEN a ELSE b
Smaller(a, b) == IF a <= b THEN a ELSE b
Up(s) == s \notin down
NoJoin == [srv |-> Nobody, next |-> 0, slow |-> 0]
NewPeer == [next |-> 0, matched |-> 0, busy |-> FALSE, pending |-> FALSE,
            slow |-> 0]

Confs == {i \in 1..Len(log) : log[i] # {}}
Uncommitted == {i \in Confs : i > commit[Leader]}
\* The servers of the configuration that s uses.
Servers(s) == IF conf[s] = 0 THEN {s} ELSE log[conf[s]]

-----------------------------------------------------------------------------
(* Requests of the leader. *)

\* create_append_entries_req; a peer without a next index gets the end.
NextOf(p, l) == IF p.next = 0 THEN Len(l) + 1 ELSE p.next
AppendReq(s, p, l, qc) ==
    [type |-> "append", srv |-> s, prev |-> NextOf(p, l) - 1,
     n |-> Len(l) + 1 - NextOf(p, l), commit |-> qc, live |-> TRUE]

\* request_append_entries for the free peers among dests, with log l, quick
\* commit index qc, peers P, their objects ps, and the requests rs before.
SendAppend(dests, l, qc, P, ps, rs) ==
    LET free == {s \in dests : ~ps[s].busy}
    IN  /\ peers' = P
        /\ peer' = [s \in Other |->
               IF s \in free
               THEN [ps[s] EXCEPT !.busy = TRUE, !.next = NextOf(ps[s], l)]
               ELSE ps[s]]
        /\ reqs' = rs \cup {AppendReq(s, ps[s], l, qc) : s \in free}
        /\ quick' = [quick EXCEPT ![Leader] = qc]

\* request_append_entries for everyone; a leader without peers commits.
RequestAppendEntries(l, P, ps, rs) ==
    SendAppend(P, l, IF P = {} THEN Len(l) ELSE quick[Leader], P, ps, rs)

\* A new configuration is appended to the leader's log.
AppendConf(servers, P, ps, rs) ==
    /\ log' = Append(log, servers)
    /\ len' = [len EXCEPT ![Leader] = @ + 1]
    /\ changing' = [changing EXCEPT ![Leader] = TRUE]
    /\ RequestAppendEntries(log', P, ps, rs)

\* rm_srv_from_cluster
RmSrvFromCluster(s, P, ps, rs) == AppendConf(Servers(Leader) \ {s}, P, ps, rs)

\* sync_log_to_new_srv for the joiner j.  The log store throws for index 0.
SyncLogToNewSrv(start, j, rs) ==
    LET gap == quick[Leader] - start
    IN  /\ join' = j
        /\ IF gap < StopGap
           THEN AppendConf(Servers(Leader) \cup {j.srv}, peers, peer, rs)
           ELSE /\ reqs' = IF start = 0 THEN rs ELSE rs \cup
                       {[type |-> "sync", srv |-> j.srv, start |-> start,
                         n |-> Smaller(gap, BatchSize), live |-> TRUE]}
                /\ UNCHANGED <<log, len, quick, changing, peers, peer>>

-----------------------------------------------------------------------------
(* What the application asks of the leader. *)

\* Nothing of an earlier change is under way but its configuration.
Idle ==
    /\ \A m \in reqs : m.live => m.type = "append"
    /\ \A r \in resps : r.req.type = "append"

CanChangeAnyTime == changes < MaxChanges /\ (ChangesSerialized => Idle)
CanChange ==
    /\ changes < MaxChanges /\ (ChangesSerialized => Idle)
    /\ ~changing[Leader]

\* handle_add_srv_req; a server is added once (a bound).
HandleAddSrvReq(s) ==
    /\ CanChange /\ s \notin peers /\ \A i \in Confs : s \notin log[i]
    /\ changes' = changes + 1
    /\ join' = [NoJoin EXCEPT !.srv = s]
    /\ reqs' = reqs \cup {[type |-> "join", srv |-> s, conf |-> conf[Leader],
                           live |-> TRUE]}
    /\ UNCHANGED <<log, len, quick, commit, conf, changing, catching, steps,
                   down, peers, peer, resps, faults, declined>>

\* handle_rm_srv_req
HandleRmSrvReq(s) ==
    /\ CanChange /\ s \in peers
    /\ changes' = changes + 1
    /\ reqs' = reqs \cup {[type |-> "leave", srv |-> s, live |-> TRUE]}
    /\ UNCHANGED <<log, len, quick, commit, conf, changing, catching, steps,
                   down, peers, peer, join, resps, faults, declined>>

\* handle_cli_req.  A bound: clients write while no peer is busy.
HandleCliReq ==
    /\ Len(log) < MaxLog /\ \A s \in peers : ~peer[s].busy
    /\ log' = Append(log, {})
    /\ len' = [len EXCEPT ![Leader] = @ + 1]
    /\ RequestAppendEntries(log', peers, peer, reqs)
    /\ UNCHANGED <<commit, conf, changing, catching, steps, down, join, resps,
                   changes, faults, declined>>

\* A bound: a heartbeat that would change nothing at s is left out.
Tells(s) ==
    \/ peer[s].next <= Len(log) \/ peer[s].slow > 0
    \/ quick[s] < quick[Leader] \/ steps[s] > 0
HandleHbTimeout(s) ==
    /\ s \in peers /\ ~peer[s].busy /\ Tells(s)
    /\ SendAppend({s}, log, quick[Leader], peers, peer, reqs)
    /\ UNCHANGED <<log, len, commit, conf, changing, catching, steps, down,
                   join, resps, changes, faults, declined>>

-----------------------------------------------------------------------------
(* The other servers. *)

Reply(m, ok, next) ==
    /\ reqs' = reqs \ {m}
    /\ resps' = IF m.live THEN resps \cup {[req |-> m, ok |-> ok, next |-> next]}
                ELSE resps

\* process_req and handle_append_entries.
HandleAppendEntries(m) ==
    LET s == m.srv
        okay == m.prev <= len[s]
        end == m.prev + m.n
    IN  /\ m.type = "append" /\ Up(s)
        /\ steps' = [steps EXCEPT ![s] = IF @ > 0 THEN 2 ELSE 0]
        /\ len' = [len EXCEPT ![s] = IF okay THEN Larger(@, end) ELSE @]
        /\ changing' = [changing EXCEPT ![s] =
               @ \/ (okay /\ \E i \in (len[s] + 1)..end : i \in Confs)]
        /\ quick' = [quick EXCEPT ![s] =
               IF okay THEN Larger(@, m.commit) ELSE @]
        /\ Reply(m, okay, IF okay THEN end + 1 ELSE len[s] + 1)
        /\ UNCHANGED <<log, commit, conf, catching, down, peers, peer, join,
                       changes, faults, declined>>

\* handle_join_cluster_req: the server forgets what it was.
HandleJoinClusterReq(m) ==
    LET s == m.srv
    IN  /\ m.type = "join" /\ Up(s)
        /\ IF catching[s] THEN UNCHANGED <<catching, commit, quick, conf>>
           ELSE /\ catching' = [catching EXCEPT ![s] = TRUE]
                /\ commit' = [commit EXCEPT ![s] = 0]
                /\ quick' = [quick EXCEPT ![s] = 0]
                /\ conf' = [conf EXCEPT ![s] = m.conf]
        /\ Reply(m, ~catching[s], 0)
        /\ UNCHANGED <<log, len, changing, steps, down, peers, peer, join,
                       changes, faults, declined>>

\* The last index of a pack of n entries from start on.
PackEnd(start, n) == start + n - 1

\* handle_log_sync_req: apply_pack leaves nothing behind the pack.
HandleLogSyncReq(m) ==
    LET s == m.srv
        end == PackEnd(m.start, m.n)
    IN  /\ m.type = "sync" /\ Up(s)
        /\ len' = [len EXCEPT ![s] = IF catching[s] THEN end ELSE @]
        /\ quick' = [quick EXCEPT ![s] =
               IF catching[s] THEN Larger(@, end) ELSE @]
        /\ Reply(m, catching[s], IF catching[s] THEN end + 1 ELSE 0)
        /\ UNCHANGED <<log, commit, conf, changing, catching, steps, down,
                       peers, peer, join, changes, faults, declined>>

HandleLeaveClusterReq(m) ==
    LET s == m.srv
    IN  /\ m.type = "leave" /\ Up(s)
        /\ steps' = [steps EXCEPT ![s] = IF changing[s] THEN @ ELSE 2]
        /\ Reply(m, ~changing[s], 0)
        /\ UNCHANGED <<log, len, quick, commit, conf, changing, catching, down,
                       peers, peer, join, changes, faults, declined>>

-----------------------------------------------------------------------------
(* Responses. *)

\* The value at the middle of the sorted match indexes of P and the leader.
LargestMatched(ps, P) ==
    LET Matched(s) == IF s = Leader THEN Len(log) ELSE ps[s].matched
    IN  CHOOSE x \in {Matched(s) : s \in P \cup {Leader}} :
            \A s \in P \cup {Leader} : x >= Matched(s)
MajorityMatched(ps, P) ==
    LET Voters == P \cup {Leader}
        Matched(s) == IF s = Leader THEN Len(log) ELSE ps[s].matched
        Many(S) == 2 * Cardinality(S) > Cardinality(Voters)
    IN  CHOOSE x \in {Matched(s) : s \in Voters} :
            /\ ~Many({s \in Voters : Matched(s) > x})
            /\ Many({s \in Voters : Matched(s) >= x})

\* handle_append_entries_resp and commit; a removed peer is unknown.
HandleAppendEntriesResp(r) ==
    LET s == r.req.srv
        p == [peer[s] EXCEPT !.busy = FALSE, !.slow = 0]
        ps == [peer EXCEPT ![s] =
                  IF r.ok THEN [p EXCEPT !.next = r.next, !.matched = r.next - 1]
                  ELSE [p EXCEPT !.next = IF r.next > 0 /\ @ > r.next
                                          THEN r.next ELSE @ - 1]]
        target == MajorityMatched(ps, peers)
        raised == r.ok /\ target > quick[Leader]
        \* what the loop of commit leaves for the peers
        told == [t \in Other |-> [ps[t] EXCEPT !.pending =
                    t # s /\ (@ \/ (t \in peers /\ raised /\ ps[t].busy))]]
        again == ~r.ok \/ peer[s].pending \/ r.next < Len(log) + 1
    IN  /\ r.req.type = "append"
        /\ resps' = resps \ {r}
        /\ IF s \in peers
           THEN SendAppend(IF raised THEN peers ELSE IF again THEN {s} ELSE {},
                           log, IF raised THEN target ELSE quick[Leader],
                           peers, IF r.ok THEN told ELSE ps, reqs)
           ELSE UNCHANGED <<quick, peers, peer, reqs>>
        /\ UNCHANGED <<log, len, commit, conf, changing, catching, steps, down,
                       join, changes, faults, declined>>

\* handle_ext_resp for join_cluster_response and sync_log_response.  It does
\* not ask which server the response is from, nor whether a sync was accepted.
HandleJoinResp(r) ==
    /\ r.req.type = "join"
    /\ resps' = resps \ {r}
    /\ IF join.srv # Nobody /\ r.ok
       THEN SyncLogToNewSrv(1, [join EXCEPT !.slow = 0], reqs)
       ELSE /\ join' = [join EXCEPT !.slow = 0]
            /\ UNCHANGED <<log, len, quick, changing, peers, peer, reqs>>
    /\ declined' = (declined \/ ~r.ok)
    /\ UNCHANGED <<commit, conf, catching, steps, down, changes, faults>>

HandleSyncResp(r) ==
    /\ r.req.type = "sync"
    /\ resps' = resps \ {r}
    /\ IF join.srv # Nobody
       THEN SyncLogToNewSrv(r.next, [join EXCEPT !.slow = 0, !.next = r.next],
                            reqs)
       ELSE UNCHANGED <<log, len, quick, changing, peers, peer, join, reqs>>
    /\ declined' = (declined \/ ~r.ok)
    /\ UNCHANGED <<commit, conf, catching, steps, down, changes, faults>>

\* handle_ext_resp for leave_cluster_response.
HandleLeaveResp(r) ==
    LET ps == [peer EXCEPT ![r.req.srv].slow = 0]
    IN  /\ r.req.type = "leave"
        /\ resps' = resps \ {r}
        /\ IF r.ok THEN RmSrvFromCluster(r.req.srv, peers, ps, reqs)
           ELSE peer' = ps /\ UNCHANGED <<log, len, quick, changing, peers, reqs>>
        /\ declined' = (declined \/ ~r.ok)
        /\ UNCHANGED <<commit, conf, catching, steps, down, join, changes, faults>>

-----------------------------------------------------------------------------
(* commit_in_bg and reconfigure. *)

\* The leader's peers for the configuration at idx.
NewPeers(idx) == log[idx] \ {Leader}
Reconfigure(idx) ==
    LET added == NewPeers(idx) \ peers
    IN  /\ peers' = NewPeers(idx)
        /\ peer' = [s \in Other |->
               IF s \in added
               THEN [NewPeer EXCEPT !.next = IF s = join.srv THEN join.next
                                             ELSE Len(log) + 1]
               ELSE peer[s]]
        /\ join' = IF join.srv \in added THEN NoJoin ELSE join

CommitInBg(s) ==
    LET idx == commit[s] + 1
        servers == log[idx]
        newer == idx \in Confs /\ conf[s] < idx
        removed == newer /\ s \notin servers /\ ~catching[s]
    IN  /\ Up(s) /\ idx <= quick[s] /\ idx <= len[s]
        /\ commit' = [commit EXCEPT ![s] = idx]
        /\ changing' = IF idx \in Confs
                       THEN [changing EXCEPT ![s] = FALSE] ELSE changing
        /\ conf' = IF newer /\ ~removed THEN [conf EXCEPT ![s] = idx] ELSE conf
        /\ down' = IF removed THEN down \cup {s} ELSE down
        /\ catching' = [catching EXCEPT ![s] =
               @ /\ ~(idx \in Confs /\ s \in servers)]
        /\ IF newer /\ s = Leader THEN Reconfigure(idx)
           ELSE UNCHANGED <<peers, peer, join>>
        /\ UNCHANGED <<log, len, quick, steps, reqs, resps, changes, faults,
                       declined>>

\* handle_election_timeout of a server that was asked to leave.
StepsLeftAtLeastOne(k) == Larger(k - 1, 1)
StepsLeft(k) == k - 1
HandleElectionTimeout(s) ==
    /\ Up(s) /\ steps[s] > 0
    /\ steps' = [steps EXCEPT ![s] = StepsLeft(@)]
    /\ down' = IF StepsLeft(steps[s]) = 0 THEN down \cup {s} ELSE down
    /\ UNCHANGED <<log, len, quick, commit, conf, changing, catching, peers,
                   peer, join, reqs, resps, changes, faults, declined>>

-----------------------------------------------------------------------------
(* Failures. *)

SlowerNever(k) == k
SlowerUncapped(k) == k + 1
Slower(k) == Smaller(k + 1, MaxSlow)

\* handle_ext_resp_err for request m; rs are the requests under way.  Each
\* error slows the peer down twice, and at max_hb_interval there is no retry.
ExtErr(m, rs) ==
    LET leaving == m.type = "leave"
        known == IF leaving THEN m.srv \in peers ELSE join.srv # Nobody
        slow == Slower(IF leaving THEN peer[m.srv].slow ELSE join.slow)
    IN  IF ~known
        THEN /\ reqs' = rs
             /\ UNCHANGED <<log, len, quick, changing, peers, peer, join>>
        ELSE IF slow < MaxSlow
        THEN /\ reqs' = rs \cup {m}
             /\ IF leaving
                THEN /\ peer' = [peer EXCEPT ![m.srv].slow = Slower(slow)]
                     /\ UNCHANGED join
                ELSE join' = [join EXCEPT !.slow = Slower(slow)] /\ UNCHANGED peer
             /\ UNCHANGED <<log, len, quick, changing, peers>>
        ELSE IF leaving
        THEN /\ RmSrvFromCluster(
                    m.srv, IF Cardinality(peers) = 1 THEN {} ELSE peers,
                    [peer EXCEPT ![m.srv].slow = slow], rs)
             /\ UNCHANGED join
        ELSE /\ reqs' = rs /\ join' = NoJoin
             /\ changing' = [changing EXCEPT ![Leader] = FALSE]
             /\ UNCHANGED <<log, len, quick, peers, peer>>

\* The peer object gets the error first, and an append request is not retried.
Failed(m, rs) ==
    IF m.type = "append"
    THEN /\ reqs' = rs
         /\ peer' = [peer EXCEPT ![m.srv].busy = FALSE,
                                 ![m.srv].slow = Slower(@)]
         /\ UNCHANGED <<log, len, quick, changing, peers, join>>
    ELSE ExtErr(m, rs)

\* A request fails, because its server is down or for another reason, and
\* may even arrive later; or its response is lost.
RequestFails(m) ==
    /\ m.live
    /\ \/ ~Up(m.srv) /\ UNCHANGED faults
       \/ Up(m.srv) /\ m.type \in Failing
          /\ faults < MaxFaults /\ faults' = faults + 1
    /\ \E late \in {FALSE, LateRequests} :
           Failed(m, (reqs \ {m}) \cup
                     (IF late THEN {[m EXCEPT !.live = FALSE]} ELSE {}))
    /\ UNCHANGED <<commit, conf, catching, steps, down, resps, changes,
                   declined>>

ResponseFails(r) ==
    /\ r.req.type \in Failing /\ faults < MaxFaults /\ faults' = faults + 1
    /\ resps' = resps \ {r}
    /\ Failed(r.req, reqs)
    /\ UNCHANGED <<commit, conf, catching, steps, down, changes, declined>>

Crash(s) ==
    /\ Up(s) /\ faults < MaxFaults /\ faults' = faults + 1
    /\ down' = down \cup {s}
    /\ UNCHANGED <<log, len, quick, commit, conf, changing, catching, steps,
                   peers, peer, join, reqs, resps, changes, declined>>

\* The constructor of raft_server: the last configuration that was committed,
\* and a flag for one in the log that was not; catching_up_ and steps_to_down_
\* are not saved.
LastConf(i) == LET S == {j \in Confs : j <= i}
               IN  IF S = {} THEN 0 ELSE CHOOSE j \in S : \A k \in S : k <= j
Restart(s) ==
    /\ Up(s) /\ faults < MaxFaults /\ faults' = faults + 1
    /\ quick' = [quick EXCEPT ![s] = commit[s]]
    /\ conf' = [conf EXCEPT ![s] = LastConf(commit[s])]
    /\ changing' = [changing EXCEPT ![s] =
           \E i \in (commit[s] + 1)..len[s] : i \in Confs]
    /\ catching' = [catching EXCEPT ![s] = FALSE]
    /\ steps' = [steps EXCEPT ![s] = 0]
    /\ UNCHANGED <<log, len, commit, down, peers, peer, join, reqs, resps,
                   changes, declined>>

-----------------------------------------------------------------------------
\* The first configuration is committed and applied.
Init ==
    LET Has(s) == IF s \in Joiner THEN 0 ELSE 1
    IN  /\ log = <<{Leader} \cup Member>>
        /\ len = [s \in Server |-> Has(s)]
        /\ quick = [s \in Server |-> Has(s)]
        /\ commit = [s \in Server |-> Has(s)]
        /\ conf = [s \in Server |-> Has(s)]
        /\ changing = [s \in Server |-> FALSE]
        /\ catching = [s \in Server |-> FALSE]
        /\ steps = [s \in Server |-> 0]
        /\ down = {}
        /\ peers = Member
        /\ peer = [s \in Other |-> IF s \in Member
               THEN [NewPeer EXCEPT !.next = 2, !.matched = 1] ELSE NewPeer]
        /\ join = NoJoin
        /\ reqs = {} /\ resps = {}
        /\ changes = 0 /\ faults = 0
        /\ declined = FALSE

HandleRequest(m) ==
    \/ HandleAppendEntries(m) \/ HandleJoinClusterReq(m)
    \/ HandleLogSyncReq(m) \/ HandleLeaveClusterReq(m)
HandleResponse(r) ==
    \/ HandleAppendEntriesResp(r) \/ HandleJoinResp(r)
    \/ HandleSyncResp(r) \/ HandleLeaveResp(r)

Next ==
    \/ \E s \in Other :
           \/ HandleAddSrvReq(s) \/ HandleRmSrvReq(s) \/ HandleHbTimeout(s)
           \/ HandleElectionTimeout(s) \/ Crash(s) \/ Restart(s)
    \/ HandleCliReq
    \/ \E m \in reqs : HandleRequest(m) \/ RequestFails(m)
    \/ \E r \in resps : HandleResponse(r) \/ ResponseFails(r)
    \/ \E s \in Server : CommitInBg(s)

Spec == Init /\ [][Next]_vars

\* What is under way to or from s, or of the extended messages, is handled or
\* fails because the server is down.
Handled(m) == HandleRequest(m) \/ (~Up(m.srv) /\ RequestFails(m))
AppendDelivered(s) ==
    \/ \E m \in reqs : m.type = "append" /\ m.srv = s /\ Handled(m)
    \/ \E r \in resps : r.req.srv = s /\ HandleAppendEntriesResp(r)
ExtDelivered ==
    \/ \E m \in reqs : m.type # "append" /\ Handled(m)
    \/ \E r \in resps : r.req.type # "append" /\ HandleResponse(r)

\* Messages are delivered, timers fire and commit threads run.  One weak
\* fairness condition is enough for all commits, which are bounded, and one
\* for all extended messages, which come one after another.
FairSpec ==
    /\ Spec
    /\ WF_vars(ExtDelivered)
    /\ WF_vars(\E s \in Server : CommitInBg(s))
    /\ WF_vars(\E s \in Other : HandleElectionTimeout(s))
    /\ \A s \in Other : WF_vars(AppendDelivered(s) \/ HandleHbTimeout(s))

-----------------------------------------------------------------------------
(* Properties. *)

TypeOK ==
    /\ log \in Seq(SUBSET Server)
    /\ len \in [Server -> 0..Len(log)]
    /\ quick \in [Server -> 0..Len(log)]
    /\ \A s \in Server : commit[s] \in 0..len[s] /\ conf[s] \in Confs \cup {0}
    /\ changing \in [Server -> BOOLEAN] /\ catching \in [Server -> BOOLEAN]
    /\ steps \in [Server -> 0..2]
    /\ down \subseteq Other /\ peers \subseteq Other
    /\ peer \in [Other -> [next : Nat, matched : Nat, busy : BOOLEAN,
                           pending : BOOLEAN, slow : 0..MaxSlow]]
    /\ join \in [srv : Other \cup {Nobody}, next : Nat, slow : 0..MaxSlow]
    /\ changes \in Nat /\ faults \in Nat /\ declined \in BOOLEAN

\* "we only allow one server to be added or removed at a time" (reconfigure):
\* the leader's log holds at most one configuration that is not committed,
\* config_changing_ says whether it does, and each configuration differs from
\* the one before it by one server.
OneChangeAtATime ==
    /\ Cardinality(Uncommitted) <= 1
    /\ changing[Leader] <=> Uncommitted # {}
    /\ \A i, j \in Confs :
           i < j /\ (\A k \in Confs : k <= i \/ k >= j) =>
               Cardinality((log[i] \ log[j]) \cup (log[j] \ log[i])) = 1

\* The term of the last entry of s.  Configurations carry the leader's term;
\* client entries carry 0, as does the entry that stands for an empty log.
LastTerm(s) == IF len[s] \in Confs THEN 1 ELSE 0

\* log_okay of handle_vote_req, for the voter v and the candidate s: the last
\* terms are compared first.
LogOkay(v, s) ==
    \/ LastTerm(s) > LastTerm(v)
    \/ LastTerm(s) = LastTerm(v) /\ len[v] <= len[s]

\* s, a server of its own configuration, would be elected if it asked now.
Granting(s) == {v \in Servers(s) : Up(v) /\ LogOkay(v, s)}
Elects(votes, s) == 2 * Cardinality(votes) > Cardinality(Servers(s))
CouldWin(s) ==
    /\ Up(s) /\ ~catching[s] /\ steps[s] = 0
    /\ conf[s] # 0 /\ s \in Servers(s)
    /\ Elects(Granting(s), s)

\* Who would vote for s with a longer log: its last entry is a client's, with
\* term 0, and that of s is a configuration.
Misled(s) == {v \in Granting(s) : len[v] > len[s]}
NeedsMisled(s) == ~Elects(Granting(s) \ Misled(s), s)

\* "A cannot be elected to leader if any logs/configs has been committed" that
\* it does not have (the constructor's comment on its last committed server
\* set): also while servers disagree on the configuration, because each uses
\* the last one it saw committed.  That the terms of client entries mislead
\* voters is another matter, and left out.  It is not so for a server outside
\* its own configuration: a joiner that restarts while it catches up forgets
\* catching_up_, and counts itself among the voters.
OldServerNotElected ==
    \A s \in Server :
        CouldWin(s) /\ ~NeedsMisled(s) => len[s] >= quick[Leader]

\* The committed configurations that s has not taken up.
Missed(s) == {i \in Confs : conf[s] < i /\ i <= quick[Leader]}

\* What is left of it: there are only two ways for a server to be elected
\* without all that is committed.  It missed two committed configurations, and
\* then the voters of its own need not have anything that was committed since;
\* or it needs the vote of a server that the term 0 of its last entry misleads.
ElectableHasCommitted ==
    \A s \in Server :
        CouldWin(s) =>
            \/ len[s] >= quick[Leader]
            \/ Cardinality(Missed(s)) > 1
            \/ NeedsMisled(s)

\* Again and again there is no server that agreed to leave (steps_to_down_)
\* and still runs; unless one agreed, was asked again because its answer got
\* lost, and declined then.
LeaversGoDown ==
    []<>(declined \/ \A s \in Other : steps[s] = 0 \/ ~Up(s))

\* Again and again there is no srv_to_join_: an invitation ends with a new
\* member, or because the server cannot be reached or declines; unless so many
\* servers are down that nothing commits.
QuorumUp == LET voters == peers \cup {Leader}
            IN  2 * Cardinality(voters \ down) > Cardinality(voters)
InvitationsEnd == []<>(declined \/ ~QuorumUp \/ join.srv = Nobody)
=============================================================================
