----------------------------- MODULE RaftServer -----------------------------
(***************************************************************************)
(* The consensus core of raft_server.cxx: election, log replication and    *)
(* the background commit thread of a cluster whose membership is fixed,    *)
(* with snapshots off (raft_params::snapshot_distance_ is 0 by default).   *)
(*                                                                         *)
(* Every handler runs under raft_server::lock_, so a handler is one        *)
(* action.  What runs outside that lock is an action of its own: the       *)
(* busy flag being cleared by peer::handle_rpc_result, and the steps of    *)
(* commit_in_bg.  An RPC is answered at most once, in any order, and each  *)
(* request gets exactly one callback, a response or an error.              *)
(***************************************************************************)
EXTENDS Integers, Sequences, FiniteSets

CONSTANTS
    Server,          \* the members of the cluster
    Value,           \* payloads of client entries
    Nobody,          \* the -1 of voted_for_ and leader_
    MaxAppendSize,   \* raft_params::max_append_size_
    UlongMax,        \* stands for 2^64 - 1, the largest ulong
    SavesSerialized, \* does state_mgr::save_state read and write in one piece?
    Electors,        \* bound: the servers whose election timer fires
    Beating,         \* bound: the servers whose heartbeat timers fire
    Hearing,         \* bound: the servers that append requests reach
    MaxInFlight,     \* bound: messages under way when a timer or client acts
    MaxQueued,       \* bound: equal responses waiting for lock_
    MaxTerm,         \* bound: no election starts from this term on
    MaxLog,          \* bound: no client request is taken by a longer log
    MaxErrors,       \* bound: RPCs that end in an error
    MaxRestarts      \* bound: crashes (or exits) followed by a restart

ASSUME ServerAssumption ==
    /\ IsFiniteSet(Server) /\ Server # {} /\ Nobody \notin Server
    /\ Electors \subseteq Server /\ Beating \subseteq Server
    /\ Hearing \subseteq Server
ASSUME NumberAssumption ==
    /\ MaxAppendSize \in Nat \ {0} /\ UlongMax \in Nat
    /\ MaxInFlight \in Nat /\ MaxQueued \in Nat
    /\ MaxTerm \in Nat /\ MaxLog \in Nat
    /\ MaxErrors \in Nat /\ MaxRestarts \in Nat
    /\ SavesSerialized \in BOOLEAN

VARIABLES
    role,            \* srv_role, or "exited" once the process called exit()
    state,           \* srv_state in memory: term, voted_for, commit_idx
    saved,           \* srv_state as state_mgr::save_state last wrote it
    log,             \* the log store (durable)
    leader,          \* leader_
    election,        \* votes_granted_, votes_responded_, election_completed_
    peers,           \* peers[i][j]: the peer object server i keeps for j
    quick_commit,    \* quick_commit_idx_
    conf,            \* log_idx of config_, its saved copy, config_changing_
    bg,              \* the commit thread: where it is, the state it is saving
    applied,         \* what each commit thread has applied: {<<index, entry>>}
    net,             \* RPC requests and responses under way
    errors, restarts,\* counters for the bounds
    votes,           \* history: every vote given, <<voter, term, candidate>>
    stale,           \* history: servers whose tally holds a vote of an older term
    elected          \* history: every election won, [srv, term, clean]

vars == <<role, state, saved, log, leader, election, peers, quick_commit,
          conf, bg, applied, net, errors, restarts, votes, stale, elected>>

Quiet == Cardinality(net) <= MaxInFlight
Up(i) == role[i] # "exited"
Peers(i) == Server \ {i}
ClusterSize == Cardinality(Server)
IsMajorityOffByOne(n) == n >= ClusterSize \div 2
IsMajority(n) == n > ClusterSize \div 2

-----------------------------------------------------------------------------
(* Types. *)

Roles == {"follower", "candidate", "leader", "exited"}
SrvState == [term : Nat, voted_for : Server \cup {Nobody}, commit_idx : Nat]
LogEntry == [term : Nat, type : {"app_log"}, val : Value] \cup
            [term : Nat, type : {"conf"}, val : Nat]
Election == [granted : Nat, responded : Nat, completed : BOOLEAN]
Peer == [next_log_idx : Nat, matched_idx : Nat,
         busy : BOOLEAN, pending_commit : BOOLEAN]
Conf == [idx : Nat, saved_idx : Nat, changing : BOOLEAN]
CommitThread == [at : {"wait", "commit", "save"}, copy : SrvState]

\* live: the sender still waits for the outcome of this request.
VoteReqs == [type : {"vote_req"}, term : Nat, src : Server, dst : Server,
             last_log_term : Nat, last_log_idx : Nat, live : BOOLEAN]
AppendReqs == [type : {"append_req"}, term : Nat, src : Server, dst : Server,
               last_log_term : Nat, last_log_idx : Nat,
               entries : Seq(LogEntry), commit_idx : Nat, live : BOOLEAN]
VoteResps == [type : {"vote_resp"}, term : Nat, src : Server, dst : Server,
              accepted : BOOLEAN]
\* queued: 0 until peer::handle_rpc_result freed the peer; then the callback
\* waits for lock_, and a number tells equal waiting callbacks apart.
AppendResps == [type : {"append_resp"}, term : Nat, src : Server,
                dst : Server, accepted : BOOLEAN,
                next_idx : Nat \ {0}, queued : Nat]
Messages == VoteReqs \cup AppendReqs \cup VoteResps \cup AppendResps

IsReq(m) == m.type \in {"vote_req", "append_req"}

-----------------------------------------------------------------------------
(* Helpers over logs, peers and messages. *)

NextSlot(lg) == Len(lg) + 1
TermForLog(lg, idx) == IF idx = 0 THEN 0 ELSE lg[idx].term
LastTerm(lg) == TermForLog(lg, Len(lg))
Larger(a, b) == IF a >= b THEN a ELSE b
UlongDec(n) == IF n = 0 THEN UlongMax ELSE n - 1

InitState == [term |-> 0, voted_for |-> Nobody, commit_idx |-> 0]
InitPeer == [next_log_idx |-> 0, matched_idx |-> 0,
             busy |-> FALSE, pending_commit |-> FALSE]
InitThread == [at |-> "wait", copy |-> InitState]
NoVotes == [granted |-> 0, responded |-> 0, completed |-> FALSE]

VoteReq(i, j, term, lg) ==
    [type |-> "vote_req", term |-> term, src |-> i, dst |-> j,
     last_log_term |-> LastTerm(lg), last_log_idx |-> Len(lg), live |-> TRUE]
VoteResp(m, term, granted) ==
    [type |-> "vote_resp", term |-> term, src |-> m.dst, dst |-> m.src,
     accepted |-> granted]
AppendRespShort(m, term, ok, next) ==
    [type |-> "append_resp", term |-> term, src |-> m.dst, dst |-> m.src,
     accepted |-> ok, next_idx |-> next - 1, queued |-> 0]
AppendRespLong(m, term, ok, next) ==
    [type |-> "append_resp", term |-> term, src |-> m.dst, dst |-> m.src,
     accepted |-> ok, next_idx |-> next + 1, queued |-> 0]
AppendResp(m, term, ok, next) ==
    [type |-> "append_resp", term |-> term, src |-> m.dst, dst |-> m.src,
     accepted |-> ok, next_idx |-> next, queued |-> 0]

\* A request whose sender gave up on it can be processed but not answered.
Answered(m, resp) == (net \ {m}) \cup (IF m.live THEN {resp} ELSE {})

\* peer::set_free
NotFreed(i, j) == peers
Freed(i, j) == [peers EXCEPT ![i][j].busy = FALSE]

\* The process of i ends: nobody waits for its requests any more, and
\* responses to it have nowhere to go.
Abandon(i, ms) ==
    {m \in ms : IF IsReq(m) THEN m.src # i ELSE m.dst # i} \cup
    {[m EXCEPT !.live = FALSE] : m \in {r \in ms : IsReq(r) /\ r.src = i}}

-----------------------------------------------------------------------------
(* update_term: every vote and append request, and every response, first   *)
(* brings the server to the message's term if that is a later one.         *)

Later(i, term) == term > state[i].term
StateAt(i, term) ==
    IF Later(i, term)
    THEN [state[i] EXCEPT !.term = term, !.voted_for = Nobody] ELSE state[i]
NotSaved(i, term) == saved[i]
SavedAt(i, term) == IF Later(i, term) THEN StateAt(i, term) ELSE saved[i]
RoleKept(i, term) == role[i]
RoleAt(i, term) == IF Later(i, term) THEN "follower" ELSE role[i]
ElectionAt(i, term) == IF Later(i, term) THEN NoVotes ELSE election[i]
StaleAt(i, term) == IF Later(i, term) THEN stale \ {i} ELSE stale

-----------------------------------------------------------------------------
(* Replication. *)

\* create_append_entries_req; last is last_log_idx.
NextLogIdx(p, lg) ==
    IF p.next_log_idx = 0 THEN NextSlot(lg) ELSE p.next_log_idx
TooLarge(p, lg) == NextLogIdx(p, lg) - 1 >= NextSlot(lg)
AppendReq(i, j, term, lg, p, commit_idx) ==
    LET last == NextLogIdx(p, lg) - 1
        end == IF last + MaxAppendSize < Len(lg)
               THEN last + MaxAppendSize ELSE Len(lg)
    IN  [type |-> "append_req", term |-> term, src |-> i, dst |-> j,
         last_log_term |-> TermForLog(lg, last), last_log_idx |-> last,
         entries |-> SubSeq(lg, last + 1, end),
         commit_idx |-> commit_idx, live |-> TRUE]

\* request_append_entries to each peer in dests that is not busy, by server i
\* in role r; ps are its peer objects and ms the messages under way before.
\* A next_log_idx_ beyond the log ends the process before the rest is sent.
RequestAppendEntries(i, dests, r, term, lg, commit_idx, ps, ms) ==
    LET free == {j \in dests : ~ps[j].busy}
        bad == {j \in free : TooLarge(ps[j], lg)}
        Req(j) == AppendReq(i, j, term, lg, ps[j], commit_idx)
    IN  IF bad = {}
        THEN /\ role' = [role EXCEPT ![i] = r]
             /\ peers' = [peers EXCEPT ![i] = [j \in Server |->
                    IF j \in free
                    THEN [ps[j] EXCEPT !.next_log_idx = NextLogIdx(ps[j], lg),
                                       !.busy = TRUE]
                    ELSE ps[j]]]
             /\ net' = ms \cup {Req(j) : j \in free}
        ELSE /\ role' = [role EXCEPT ![i] = "exited"]
             /\ peers' = [peers EXCEPT ![i] = ps]
             /\ \E sent \in SUBSET (free \ bad) :
                    net' = Abandon(i, ms \cup {Req(j) : j \in sent})

\* The heartbeat timer of a peer fires.
HandleHbTimeout(i, j) ==
    /\ i \in Beating /\ Quiet
    /\ role[i] = "leader" /\ j # i
    /\ ~peers[i][j].busy
    /\ RequestAppendEntries(i, {j}, "leader", state[i].term, log[i],
                            quick_commit[i], peers[i], net)
    /\ UNCHANGED <<state, saved, log, leader, election, quick_commit, conf,
                   bg, applied, errors, restarts, votes, stale, elected>>

\* A client's entry reaches the leader.  The entry keeps the term its sender
\* gave it, which raft_server::append_entries sets to 0.
HandleCliReq(i, val) ==
    LET lg == Append(log[i], [term |-> 0, type |-> "app_log", val |-> val])
    IN  /\ role[i] = "leader"
        /\ Len(log[i]) < MaxLog /\ Quiet
        /\ log' = [log EXCEPT ![i] = lg]
        /\ quick_commit' = [quick_commit EXCEPT ![i] =
               IF Peers(i) = {} THEN Larger(@, Len(lg)) ELSE @]
        /\ RequestAppendEntries(i, Peers(i), "leader", state[i].term, lg,
                                quick_commit[i], peers[i], net)
        /\ UNCHANGED <<state, saved, leader, election, conf, bg, applied,
                       errors, restarts, votes, stale, elected>>

-----------------------------------------------------------------------------
(* Elections. *)

\* become_leader, in term term, with the messages ms under way.  A server
\* whose configuration was never logged appends it first.
BecomeLeader(i, term, ms) ==
    LET slot == NextSlot(log[i])
        fresh == conf[i].idx = 0
        lg == IF fresh
              THEN Append(log[i], [term |-> term, type |-> "conf", val |-> slot])
              ELSE log[i]
        ps == [j \in Server |->
                  IF j = i THEN peers[i][j]
                  ELSE [peers[i][j] EXCEPT !.next_log_idx = slot,
                                           !.busy = FALSE]]
    IN  /\ leader' = [leader EXCEPT ![i] = i]
        /\ log' = [log EXCEPT ![i] = lg]
        /\ conf' = IF fresh
                   THEN [conf EXCEPT ![i].idx = slot, ![i].changing = TRUE]
                   ELSE conf
        /\ quick_commit' = [quick_commit EXCEPT ![i] =
               IF Peers(i) = {} THEN Larger(@, Len(lg)) ELSE @]
        /\ RequestAppendEntries(i, Peers(i), "leader", term, lg,
                                quick_commit[i], ps, ms)

\* handle_election_timeout and request_vote.  Alone in the cluster, the
\* server's own vote is a majority.
HandleElectionTimeout(i) ==
    LET term == state[i].term + 1
        st == [state[i] EXCEPT !.term = term, !.voted_for = i]
        won == IsMajority(1)
    IN  /\ i \in Electors /\ state[i].term < MaxTerm /\ Quiet
        /\ role[i] \in {"follower", "candidate"}
        /\ state' = [state EXCEPT ![i] = st]
        /\ saved' = [saved EXCEPT ![i] = st]
        /\ votes' = votes \cup {<<i, term, i>>}
        /\ election' = [election EXCEPT ![i] =
               [granted |-> 1, responded |-> 1, completed |-> won]]
        /\ stale' = stale \ {i}
        /\ \/ /\ won
              /\ elected' = elected \cup
                     {[srv |-> i, term |-> term, clean |-> TRUE]}
              /\ BecomeLeader(i, term, net)
           \/ /\ ~won
              /\ role' = [role EXCEPT ![i] = "candidate"]
              /\ net' = net \cup {VoteReq(i, j, term, log[i]) : j \in Peers(i)}
              /\ UNCHANGED <<elected, leader, log, conf, quick_commit, peers>>
        /\ UNCHANGED <<bg, applied, errors, restarts>>

\* Does a server in state st with log lg give its vote to the sender of m?
UpToDate(m, lg) ==
    \/ m.last_log_term > LastTerm(lg)
    \/ m.last_log_term = LastTerm(lg) /\ Len(lg) <= m.last_log_idx
GrantsForgettingVote(m, st, lg) == m.term = st.term /\ UpToDate(m, lg)
Grants(m, st, lg) ==
    /\ m.term = st.term
    /\ UpToDate(m, lg)
    /\ st.voted_for \in {m.src, Nobody}

\* update_term and handle_vote_req.
HandleVoteReq(m) ==
    LET i == m.dst
        st == StateAt(i, m.term)
        grant == Grants(m, st, log[i])
        voted == [st EXCEPT !.voted_for = m.src]
    IN  /\ m.type = "vote_req" /\ Up(i)
        /\ state' = [state EXCEPT ![i] = IF grant THEN voted ELSE st]
        /\ saved' = [saved EXCEPT ![i] =
               IF grant THEN voted ELSE SavedAt(i, m.term)]
        /\ votes' = IF grant THEN votes \cup {<<i, m.term, m.src>>} ELSE votes
        /\ role' = [role EXCEPT ![i] = RoleAt(i, m.term)]
        /\ election' = [election EXCEPT ![i] = ElectionAt(i, m.term)]
        /\ stale' = StaleAt(i, m.term)
        /\ net' = Answered(m, VoteResp(m, st.term, grant))
        /\ UNCHANGED <<log, leader, peers, quick_commit, conf, bg, applied,
                       errors, restarts, elected>>

\* handle_peer_resp on a response of a later term: update_term, no more.
HandleLaterResp(m) ==
    LET i == m.dst
    IN  /\ \/ m.type = "vote_resp"
           \/ m.type = "append_resp" /\ m.queued > 0
        /\ Later(i, m.term)
        /\ state' = [state EXCEPT ![i] = StateAt(i, m.term)]
        /\ saved' = [saved EXCEPT ![i] = SavedAt(i, m.term)]
        /\ role' = [role EXCEPT ![i] = RoleAt(i, m.term)]
        /\ election' = [election EXCEPT ![i] = ElectionAt(i, m.term)]
        /\ stale' = StaleAt(i, m.term)
        /\ net' = net \ {m}
        /\ UNCHANGED <<log, leader, peers, quick_commit, conf, bg, applied,
                       errors, restarts, votes, elected>>

\* handle_voting_resp: neither the term of the response nor the role of the
\* receiver is looked at.
HandleVotingResp(m) ==
    LET i == m.dst
        e == election[i]
        counts == ~e.completed
        granted == e.granted + (IF counts /\ m.accepted THEN 1 ELSE 0)
        won == counts /\ IsMajority(granted)
        done == e.completed \/ won \/ e.responded + 1 >= ClusterSize
        tally == IF counts /\ m.accepted /\ m.term < state[i].term
                 THEN stale \cup {i} ELSE stale
    IN  /\ m.type = "vote_resp" /\ ~Later(i, m.term)
        /\ election' = [election EXCEPT ![i] =
               [granted |-> granted, responded |-> e.responded + 1,
                completed |-> done]]
        /\ stale' = tally
        /\ \/ /\ won
              /\ elected' = elected \cup {[srv |-> i, term |-> state[i].term,
                                           clean |-> i \notin tally]}
              /\ BecomeLeader(i, state[i].term, net \ {m})
           \/ /\ ~won
              /\ net' = net \ {m}
              /\ UNCHANGED <<elected, role, leader, log, conf, quick_commit,
                             peers>>
        /\ UNCHANGED <<state, saved, bg, applied, errors, restarts, votes>>

-----------------------------------------------------------------------------
(* handle_append_entries. *)

LogOkay(lg, m) ==
    \/ m.last_log_idx = 0
    \/ /\ m.last_log_idx < NextSlot(lg)
       /\ m.last_log_term = TermForLog(lg, m.last_log_idx)

\* How many leading entries of es are already at idx + 1, idx + 2, ...: the
\* scan stops at the end of es or of the log, or where the terms differ.
Stops(lg, idx, es) ==
    {k \in 0..Len(es) :
        \/ k = Len(es)
        \/ idx + k >= Len(lg)
        \/ lg[idx + k + 1].term # es[k + 1].term}
Overlap(lg, idx, es) ==
    CHOOSE k \in Stops(lg, idx, es) :
        \A n \in Stops(lg, idx, es) : k <= n

WriteAllAgain(lg, idx, es) == lg \o es

\* Skip what is there, write_at the first entry that differs (which drops all
\* that follows it) and append the rest.
WriteEntries(lg, idx, es) ==
    LET k == Overlap(lg, idx, es)
    IN  IF k = Len(es) THEN lg
        ELSE SubSeq(lg, 1, idx + k) \o SubSeq(es, k + 1, Len(es))

\* config_changing_ afterwards: cleared when the overwritten entry is a
\* configuration, set when an appended (not an overwriting) one is.
ConfChanging(changing, lg, idx, es) ==
    LET k == Overlap(lg, idx, es)
        overwrites == k < Len(es) /\ idx + k < Len(lg)
        appended == (IF overwrites THEN k + 2 ELSE k + 1)..Len(es)
    IN  \/ \E n \in appended : es[n].type = "conf"
        \/ /\ changing
           /\ ~(overwrites /\ lg[idx + k + 1].type = "conf")

\* What both outcomes share: update_term, and a candidate that hears from
\* the leader of its term follows it.
FollowSender(m) ==
    LET i == m.dst
    IN  /\ state' = [state EXCEPT ![i] = StateAt(i, m.term)]
        /\ saved' = [saved EXCEPT ![i] = SavedAt(i, m.term)]
        /\ role' = [role EXCEPT ![i] =
               IF m.term = state[i].term /\ role[i] = "candidate"
               THEN "follower" ELSE RoleAt(i, m.term)]
        /\ election' = [election EXCEPT ![i] = ElectionAt(i, m.term)]
        /\ stale' = StaleAt(i, m.term)

FromRival(m) == m.term = state[m.dst].term /\ role[m.dst] = "leader"

AcceptAppendEntries(m) ==
    LET i == m.dst
        idx == m.last_log_idx
    IN  /\ m.type = "append_req" /\ i \in Hearing /\ Up(i) /\ ~FromRival(m)
        /\ m.term >= state[i].term /\ LogOkay(log[i], m)
        /\ FollowSender(m)
        /\ log' = [log EXCEPT ![i] = WriteEntries(log[i], idx, m.entries)]
        /\ conf' = [conf EXCEPT ![i].changing =
               ConfChanging(@, log[i], idx, m.entries)]
        /\ leader' = [leader EXCEPT ![i] = m.src]
        /\ quick_commit' = [quick_commit EXCEPT ![i] = Larger(@, m.commit_idx)]
        /\ net' = Answered(m, AppendResp(m, state'[i].term, TRUE,
                                         idx + Len(m.entries) + 1))
        /\ UNCHANGED <<peers, bg, applied, errors, restarts, votes, elected>>

RefuseAppendEntries(m) ==
    LET i == m.dst
    IN  /\ m.type = "append_req" /\ i \in Hearing /\ Up(i) /\ ~FromRival(m)
        /\ m.term < state[i].term \/ ~LogOkay(log[i], m)
        /\ FollowSender(m)
        /\ net' = Answered(m, AppendResp(m, state'[i].term, FALSE,
                                         NextSlot(log[i])))
        /\ UNCHANGED <<log, leader, peers, quick_commit, conf, bg, applied,
                       errors, restarts, votes, elected>>

\* "there must be a bug, server exits": no answer is sent, the connection
\* breaks and the sender's callback gets an error.
MeetRivalLeader(m) ==
    /\ m.type = "append_req" /\ m.dst \in Hearing /\ FromRival(m)
    /\ role' = [role EXCEPT ![m.dst] = "exited"]
    /\ peers' = IF m.live THEN Freed(m.src, m.dst) ELSE peers
    /\ net' = Abandon(m.dst, net \ {m})
    /\ UNCHANGED <<state, saved, log, leader, election, quick_commit, conf, bg,
                   applied, errors, restarts, votes, stale, elected>>

-----------------------------------------------------------------------------
(* Responses to append_entries requests. *)

\* peer::handle_rpc_result frees the peer before its callback gets lock_.
SetFree(m) ==
    LET Copy(n) == [m EXCEPT !.queued = n]
    IN  /\ m.type = "append_resp" /\ m.queued = 0
        /\ peers' = Freed(m.dst, m.src)
        /\ \E n \in 1..MaxQueued :
               /\ Copy(n) \notin net
               /\ \A l \in 1..(n - 1) : Copy(l) \in net
               /\ net' = (net \ {m}) \cup {Copy(n)}
        /\ UNCHANGED <<role, state, saved, log, leader, election, quick_commit,
                       conf, bg, applied, errors, restarts, votes, stale,
                       elected>>

\* The entry at position ClusterSize \div 2 (from 0) of the matched indexes
\* sorted from the largest down.
MajorityMatched(i, lg, ps) ==
    LET Matched(j) == IF j = i THEN Len(lg) ELSE ps[j].matched_idx
    IN  CHOOSE x \in {Matched(j) : j \in Server} :
            /\ ~IsMajority(Cardinality({j \in Server : Matched(j) > x}))
            /\ IsMajority(Cardinality({j \in Server : Matched(j) >= x}))

\* handle_append_entries_resp on an accepted request.  commit() asks every
\* free peer to commit and marks the busy ones; neither the term of the
\* response nor the term of the committed entry is looked at.
HandleAppendAccepted(m) ==
    LET i == m.dst
        ps == [peers[i] EXCEPT ![m.src].next_log_idx = m.next_idx,
                               ![m.src].matched_idx = m.next_idx - 1]
        target == MajorityMatched(i, log[i], ps)
        raised == target > quick_commit[i]
        notify == raised /\ role[i] = "leader"
        catchup == ps[m.src].pending_commit \/ m.next_idx < NextSlot(log[i])
        dests == IF role[i] # "leader" THEN {}
                 ELSE IF raised THEN Peers(i)
                 ELSE IF catchup THEN {m.src} ELSE {}
        marked == [j \in Server |->
                      [ps[j] EXCEPT !.pending_commit =
                          /\ j # m.src
                          /\ @ \/ (notify /\ j # i /\ ps[j].busy)]]
    IN  /\ m.type = "append_resp" /\ m.queued > 0 /\ ~Later(i, m.term)
        /\ m.accepted
        /\ quick_commit' = [quick_commit EXCEPT ![i] = Larger(@, target)]
        /\ RequestAppendEntries(i, dests, role[i], state[i].term, log[i],
                                quick_commit'[i], marked, net \ {m})
        /\ UNCHANGED <<state, saved, log, leader, election, conf, bg, applied,
                       errors, restarts, votes, stale, elected>>

\* handle_append_entries_resp on a refused request.
HandleAppendRefused(m) ==
    LET i == m.dst
        next == peers[i][m.src].next_log_idx
        ps == [peers[i] EXCEPT ![m.src].next_log_idx =
                  IF next > m.next_idx THEN m.next_idx ELSE UlongDec(next)]
        dests == IF role[i] = "leader" THEN {m.src} ELSE {}
    IN  /\ m.type = "append_resp" /\ m.queued > 0 /\ ~Later(i, m.term)
        /\ ~m.accepted
        /\ RequestAppendEntries(i, dests, role[i], state[i].term, log[i],
                                quick_commit[i], ps, net \ {m})
        /\ UNCHANGED <<state, saved, log, leader, election, quick_commit, conf,
                       bg, applied, errors, restarts, votes, stale, elected>>

-----------------------------------------------------------------------------
(* commit_in_bg: one entry at a time, then save_state.  It takes lock_ only  *)
(* for a configuration entry.                                                *)

CanCommitOneBehind(i) ==
    /\ quick_commit[i] > state[i].commit_idx + 1
    /\ Len(log[i]) > state[i].commit_idx
CanCommit(i) ==
    /\ quick_commit[i] > state[i].commit_idx
    /\ Len(log[i]) > state[i].commit_idx

CommitEntry(i) ==
    LET idx == state[i].commit_idx + 1
        entry == log[i][idx]
    IN  /\ Up(i) /\ bg[i].at \in {"wait", "commit"} /\ CanCommit(i)
        /\ applied' = [applied EXCEPT ![i] = @ \cup {<<idx, entry>>}]
        /\ conf' = IF entry.type = "conf"
                   THEN [conf EXCEPT ![i] = [idx |-> Larger(@.idx, entry.val),
                                             saved_idx |-> entry.val,
                                             changing |-> FALSE]]
                   ELSE conf
        /\ state' = [state EXCEPT ![i].commit_idx = idx]
        /\ bg' = [bg EXCEPT ![i].at = "commit"]
        /\ UNCHANGED <<role, saved, log, leader, election, peers, quick_commit,
                       net, errors, restarts, votes, stale, elected>>

\* save_state runs without lock_: unless state_mgr serializes its callers,
\* what it read of the state may reach the disk after a later save.
SaveCommitted(i) ==
    /\ Up(i) /\ bg[i].at = "commit" /\ ~CanCommit(i)
    /\ IF SavesSerialized
       THEN /\ saved' = [saved EXCEPT ![i] = state[i]]
            /\ bg' = [bg EXCEPT ![i] = InitThread]
       ELSE /\ bg' = [bg EXCEPT ![i] = [at |-> "save", copy |-> state[i]]]
            /\ UNCHANGED saved
    /\ UNCHANGED <<role, state, log, leader, election, peers, quick_commit,
                   conf, applied, net, errors, restarts, votes, stale, elected>>

FinishSave(i) ==
    /\ Up(i) /\ bg[i].at = "save"
    /\ saved' = [saved EXCEPT ![i] = bg[i].copy]
    /\ bg' = [bg EXCEPT ![i] = InitThread]
    /\ UNCHANGED <<role, state, log, leader, election, peers, quick_commit,
                   conf, applied, net, errors, restarts, votes, stale, elected>>

-----------------------------------------------------------------------------
(* Failures. *)

\* An RPC ends in an error at its sender: peer::handle_rpc_result frees the
\* peer and handle_peer_resp returns.  A request may still get through.
RpcError(m) ==
    LET i == IF IsReq(m) THEN m.src ELSE m.dst
        j == IF IsReq(m) THEN m.dst ELSE m.src
    IN  /\ errors < MaxErrors
        /\ errors' = errors + 1
        /\ IF m.type = "append_req" \/ m.type = "append_resp"
           THEN peers' = Freed(i, j)
           ELSE UNCHANGED peers
        /\ \/ net' = net \ {m}
           \/ IsReq(m) /\ net' = (net \ {m}) \cup {[m EXCEPT !.live = FALSE]}
        /\ CASE IsReq(m) -> m.live
             [] m.type = "append_resp" -> m.queued = 0
             [] OTHER -> TRUE
        /\ UNCHANGED <<role, state, saved, log, leader, election, quick_commit,
                       conf, bg, applied, restarts, votes, stale, elected>>

\* An abandoned request is lost.
LoseRequest(m) ==
    /\ IsReq(m) /\ ~m.live
    /\ net' = net \ {m}
    /\ UNCHANGED <<role, state, saved, log, leader, election, peers,
                   quick_commit, conf, bg, applied, errors, restarts, votes,
                   stale, elected>>

\* The srv_state a starting server reads.
RestoredToLogEnd(i) == [saved[i] EXCEPT !.commit_idx = Len(log[i])]
Restored(i) == saved[i]

\* The process ends, by a crash or because it had exited, and is started
\* again: the constructor of raft_server on what state_mgr kept.
Restart(i) ==
    LET st == Restored(i)
    IN  /\ restarts < MaxRestarts
        /\ restarts' = restarts + 1
        /\ role' = [role EXCEPT ![i] = "follower"]
        /\ state' = [state EXCEPT ![i] = st]
        /\ leader' = [leader EXCEPT ![i] = Nobody]
        /\ election' = [election EXCEPT ![i] =
               [granted |-> 0, responded |-> 0, completed |-> TRUE]]
        /\ peers' = [peers EXCEPT ![i] = [j \in Server |-> InitPeer]]
        /\ quick_commit' = [quick_commit EXCEPT ![i] = st.commit_idx]
        /\ conf' = [conf EXCEPT ![i].idx = conf[i].saved_idx,
                                ![i].changing =
               \E k \in (st.commit_idx + 1)..Len(log[i]) :
                   log[i][k].type = "conf"]
        /\ bg' = [bg EXCEPT ![i] = InitThread]
        /\ stale' = stale \ {i}
        /\ net' = Abandon(i, net)
        /\ UNCHANGED <<saved, log, applied, errors, votes, elected>>

-----------------------------------------------------------------------------
Init ==
    /\ role = [i \in Server |-> "follower"]
    /\ state = [i \in Server |-> InitState]
    /\ saved = [i \in Server |-> InitState]
    /\ log = [i \in Server |-> <<>>]
    /\ leader = [i \in Server |-> Nobody]
    /\ election = [i \in Server |->
           [granted |-> 0, responded |-> 0, completed |-> TRUE]]
    /\ peers = [i \in Server |-> [j \in Server |-> InitPeer]]
    /\ quick_commit = [i \in Server |-> 0]
    /\ conf = [i \in Server |->
           [idx |-> 0, saved_idx |-> 0, changing |-> FALSE]]
    /\ bg = [i \in Server |-> InitThread]
    /\ applied = [i \in Server |-> {}]
    /\ net = {}
    /\ errors = 0 /\ restarts = 0
    /\ votes = {} /\ stale = {} /\ elected = {}

\* One message is taken from the network by its receiver, or a response by
\* the server that waits for it.
Receive(m) ==
    \/ HandleVoteReq(m)
    \/ AcceptAppendEntries(m)
    \/ RefuseAppendEntries(m)
    \/ MeetRivalLeader(m)
    \/ HandleLaterResp(m)
    \/ HandleVotingResp(m)
    \/ SetFree(m)
    \/ HandleAppendAccepted(m)
    \/ HandleAppendRefused(m)

CommitInBg(i) == CommitEntry(i) \/ SaveCommitted(i) \/ FinishSave(i)

Next ==
    \/ \E m \in net : Receive(m)
    \/ \E m \in net : RpcError(m)
    \/ \E m \in net : LoseRequest(m)
    \/ \E i \in Server : HandleElectionTimeout(i)
    \/ \E i, j \in Server : HandleHbTimeout(i, j)
    \/ \E i \in Server, val \in Value : HandleCliReq(i, val)
    \/ \E i \in Server : CommitInBg(i)
    \/ \E i \in Server : Restart(i)

Spec == Init /\ [][Next]_vars

\* The io_service threads deliver what arrives and run what is scheduled:
\* every message between two servers is handled in the end, heartbeats keep
\* firing and the commit thread keeps running.  Elections, clients, errors
\* and restarts are not promised.
Fairness ==
    /\ \A i \in Server : \A j \in Peers(i) :
           /\ WF_vars(\E m \in net : m.src = i /\ m.dst = j /\ Receive(m))
           /\ WF_vars(HandleHbTimeout(i, j))
    /\ \A i \in Server : WF_vars(CommitInBg(i))

FairSpec == Spec /\ Fairness

-----------------------------------------------------------------------------
(* Properties. *)

\* Every variable keeps its type; the fields are those of srv_state, peer,
\* req_msg and resp_msg.
TypeOK ==
    /\ role \in [Server -> Roles]
    /\ state \in [Server -> SrvState]
    /\ saved \in [Server -> SrvState]
    /\ log \in [Server -> Seq(LogEntry)]
    /\ leader \in [Server -> Server \cup {Nobody}]
    /\ election \in [Server -> Election]
    /\ peers \in [Server -> [Server -> Peer]]
    /\ quick_commit \in [Server -> Nat]
    /\ conf \in [Server -> Conf]
    /\ bg \in [Server -> CommitThread]
    /\ applied \in [Server -> SUBSET (Nat \X LogEntry)]
    /\ net \subseteq Messages
    /\ errors \in Nat /\ restarts \in Nat
    /\ votes \subseteq Server \X Nat \X Server
    /\ stale \subseteq Server
    /\ elected \subseteq [srv : Server, term : Nat, clean : BOOLEAN]

\* handle_vote_req and request_vote, across crashes and saves of the commit
\* thread: no server ever gives two candidates its vote in a term.  (True if
\* SavesSerialized.)
VoteOncePerTerm ==
    \A a, b \in votes : a[1] = b[1] /\ a[2] = b[2] => a[3] = b[3]

\* Why: the term and the vote on disk are those in memory whenever lock_ is
\* free, no save of the commit thread is about to overwrite them, and every
\* vote ever given is older than them or is the one they record.
VotesAreRemembered ==
    /\ \A i \in Server :
           /\ bg[i].at # "save"
           /\ saved[i].term = state[i].term
           /\ saved[i].voted_for = state[i].voted_for
    /\ \A v \in votes :
           \/ v[2] < saved[v[1]].term
           \/ v[2] = saved[v[1]].term /\ v[3] = saved[v[1]].voted_for

\* Raft's election safety: no term has two leaders.
ElectionSafety ==
    \A a, b \in elected : a.term = b.term => a.srv = b.srv

\* Election safety among the elections in which handle_voting_resp counted
\* only votes given in the term it is won for.
CleanElectionSafety ==
    \A a, b \in elected :
        a.clean /\ b.clean /\ a.term = b.term => a.srv = b.srv

\* Raft's state machine safety: commit_in_bg never applies different entries
\* for the same index on two servers.
StateMachineSafety ==
    \A i, j \in Server : \A a \in applied[i], b \in applied[j] :
        a[1] = b[1] => a[2] = b[2]

\* A peer marked busy is waiting for the outcome of an append_entries
\* request, so its busy flag will be cleared again.
BusyPeerAwaitsReply ==
    \A i, j \in Server : Up(i) /\ peers[i][j].busy =>
        \E m \in net :
            \/ /\ m.type = "append_req" /\ m.live
               /\ m.src = i /\ m.dst = j
            \/ /\ m.type = "append_resp" /\ m.queued = 0
               /\ m.dst = i /\ m.src = j

\* What is saved as committed was applied: a restart never makes commit_in_bg
\* resume past an entry that the state machine was not given.
SavedCommitIsApplied ==
    \A i \in Server : \A k \in 1..saved[i].commit_idx :
        \E a \in applied[i] : a[1] = k

\* What a leader counts as committed (quick_commit_idx_, which it tells its
\* followers to commit) is in the log of a majority of the servers.
CommittedOnMajority ==
    \A i \in Server : role[i] = "leader" =>
        \A k \in 1..quick_commit[i] :
            Cardinality({j \in Server :
                /\ Len(log[j]) >= k /\ Len(log[i]) >= k
                /\ log[j][k] = log[i][k]}) * 2 > ClusterSize

\* config_changing_ says whether the log holds a configuration entry past
\* the commit index ("the previous config has not committed yet").  Changes of
\* leader break it: overwriting or dropping an entry leaves the flag alone.
ConfigChangingMatchesLog ==
    \A i \in Server : Up(i) =>
        (conf[i].changing <=>
            \E k \in (state[i].commit_idx + 1)..Len(log[i]) :
                log[i][k].type = "conf")

\* A leader never overwrites or removes entries of its log while it leads.
LeaderAppendOnly ==
    [][\A i \in Server :
        role[i] = "leader" /\ role'[i] = "leader" =>
            /\ Len(log'[i]) >= Len(log[i])
            /\ SubSeq(log'[i], 1, Len(log[i])) = log[i]]_vars

\* An entry in the log of a leader that stays in office is applied by every
\* server, whichever requests fail on the way.
EntriesGetApplied ==
    \A i, j \in Server : \A k \in 1..MaxLog :
        (role[i] = "leader" /\ Len(log[i]) >= k) ~>
            (role[i] # "leader" \/ \E a \in applied[j] : a[1] = k)
=============================================================================
