# Cornerstone in TLA+

This directory specifies and verifies parts of *cornerstone*, a C++ library that
replicates a state machine with the Raft protocol.

| module | subject |
|---|---|
| `RaftServer` | the consensus core: elections, replication, commit |
| `RaftServerProofs`, `RaftElectionProofs`, `RaftReplicationProofs` | theorems about it: types and votes; elections; logs, saves, busy flags and agreement |
| `RaftSnapshot`, `RaftSnapshotProofs` | snapshots, log compaction, installation on a slow follower; and theorems about them |
| `RaftMembership`, `RaftMembershipProofs` | servers that join and leave; and theorems about them |
| `ServerThreads`, `ServerThreadsProofs` | one server at the grain of its locks: timers, commit thread, shutdown; and theorems about its timers |
| `AsioRpc`, `RpcChannel`, `AsioRpcProofs` | the RPC layer on sockets, what the servers assume of it, and the proof that it provides it |
| `FsLogStore`, `LogStore`, `FsLogStoreProofs` | the log store on files, the store it promises to be, and the proof that it is |

`PROJECT.json` maps every definition to the lines it models, and lists the runs,
the mutants, the theorems, the findings and the hazards of the code.

To check a run, `tlc -config X.cfg M`, where `M` is `MCRaftServer` for
`Elections`, `Faults`, `Handover`, `StaleVotes` and `Divergence`,
`MCServerThreads` for `Threads`, `MCAsioRpc` for `Rpc`, `MCRaftSnapshot` for
`Snapshot`, `MCRaftMembership` for `Membership` and `OldServers`, and `MCFsLogStore`
for `FsStore` and `FsCrashes`. To check the proofs: `tlapm M.tla` with `M` one of
`RaftServerProofs`, `RaftElectionProofs`, `RaftReplicationProofs`,
`RaftSnapshotProofs`, `RaftMembershipProofs`, `ServerThreadsProofs`,
`AsioRpcProofs`, `FsLogStoreProofs` (several minutes).

## 1. The system

| part | state it keeps | operations | talks to |
|---|---|---|---|
| `raft_server` | `role_`, `state_` (term, vote, commit index), `leader_`, the tally of the election, `quick_commit_idx_`, `config_`, `config_changing_`, `steps_to_down_`, `catching_up_` | `process_req` and its handlers, `handle_peer_resp`, `handle_ext_resp`, the election and heartbeat timeouts, `append_entries`, `add_srv`, `remove_srv` | all of the parts below; everything holds `lock_` unless said otherwise |
| `commit_in_bg` (a thread of `raft_server`) | the entry it is at | apply committed entries, save the state, take snapshots; waits on `commit_cv_`, takes `lock_` only for configurations | `log_store`, `state_machine`, `state_mgr` |
| `peer` | `next_log_idx_`, `matched_idx_`, `busy_flag_`, `pending_commit_flag_`, heartbeat interval, snapshot being sent | `send_req`, `handle_rpc_result` (outside `lock_`), `make_busy`, `set_free` | `rpc_client` |
| `log_store` (interface), `fs_log_store` | index, data and start-index files, a buffer of the newest entries | `append`, `write_at`, readers, `pack`, `apply_pack`, `compact`, `close` | called by handlers (under `lock_`) and by the commit thread |
| `state_mgr`, `state_machine` (interfaces) | what the application keeps | save and load state and configuration; commit, pre-commit, roll back, snapshots | called by handlers and by the commit thread, not always under `lock_` |
| snapshots | `snp_in_progress_`, `snapshot_sync_ctx` per peer | create, compact, send in chunks, install | `state_machine`, `log_store` |
| membership | `conf_to_add_`, `srv_to_join_`, `srv_to_leave_`, `config_changing_` | add, join, sync the log, leave, `reconfigure` | `log_store` packs, peers |
| timers, `asio_service` | scheduled tasks, sockets, sessions | schedule, cancel, send, receive, stop | call the handlers from several threads |
| `async_result`, `ptr`, `buffer` | a result with its waiters; two reference counts; bytes with a position | utilities of the parts above | |

What is hard: handlers of several threads interleave at `lock_`; the commit
thread and the callbacks of RPCs run outside it; responses come late, out of
order, or to a server that is in another term or role by then; servers crash
between two saves; the store's files are written one after the other; the
newest entries live both in a buffer and in a file.

What makes the parts correct:

* elections: one vote per term, across restarts; one leader per term;
* replication: what a leader counts as committed is on a majority; no two state
  machines apply different entries at one index; a leader only appends;
* peers: a busy peer always waits for something; entries reach everyone in the
  end;
* commit thread: what is recorded as committed was applied;
* membership: one change at a time; whoever can be elected has what is committed,
  although servers use different configurations (true if they are one apart); leavers
  end, invitations too;
* snapshots: what compaction drops is in a snapshot; nothing is skipped; a process
  ends itself only where it must; a slow follower catches up;
* timers and threads: no interleaving loses a timer or a wake-up for good; the
  destructor ends;
* the RPC layer: each request gets one callback at most, and in the end, whatever fails;
* the store: its readers return what was last written, in every mixture of
  buffer and files, after reopening, compaction and crashes.

## 2. Modules

**`RaftServer`**: `raft_server.cxx` with a fixed membership and snapshots off
(the defaults of a running cluster; the next two modules add them). One action per handler, as every
handler holds `lock_`:

| action | code |
|---|---|
| `HandleElectionTimeout` | `handle_election_timeout`, `request_vote` |
| `HandleVoteReq`, `HandleVotingResp` | `handle_vote_req`, `handle_voting_resp`, `become_leader` |
| `HandleHbTimeout`, `HandleCliReq` | `handle_hb_timeout`, `handle_cli_req` (entries from `append_entries` carry term 0) |
| `AcceptAppendEntries`, `RefuseAppendEntries`, `MeetRivalLeader` | the outcomes of `handle_append_entries`; the last one is `exit(-1)` |
| `HandleAppendAccepted`, `HandleAppendRefused` | `handle_append_entries_resp`, with `commit` and the requests it sends |
| `HandleLaterResp` | `handle_peer_resp` on a response of a later term |
| `SetFree`, `RpcError` | `peer::handle_rpc_result`, which runs before the callback gets `lock_` |
| `CommitEntry`, `SaveCommitted`, `FinishSave` | `commit_in_bg` |
| `Restart` | the end of a process, by a crash or by `exit`, and the constructor on what was saved |
| `LoseRequest` | (external) the connection of a process that gave up |

`StateAt`, `SavedAt`, `RoleAt`, `ElectionAt` are `update_term`, which every
handler starts with. `RequestAppendEntries` is `request_append_entries` to a set
of peers with everything `create_append_entries_req` does, the exit on a bad
index included. The network is a set: a request has one outcome, messages are
delivered in any order, and a request whose sender gave up (`live` is FALSE) may
still be processed, unanswered. History variables (`votes`, `stale`, `elected`)
record what the properties speak of; no action reads them except to update them,
and `applied` is the state machine.

**`LogStore`**: the promises of `log_store.hxx`: a window of a log that starts
at an index; overwriting drops what follows. `RaftServer` uses a log in exactly
this way, with start index 1.

**`FsLogStore`**: `fs_log_store.cxx` for several stores (one per server). Entries are
sequences of cells, files sequences of cells or positions. `files` is what the
streams see, `disk` what a crash leaves, `pend` the states the disk still goes
through; `Flush` moves along one of them. `Splice` is the writing and cutting that
`append`, `write_at` and `apply_pack` share. The index file is flushed before the data
file (297-298), but a stream passes a large write straight to its file: data of `StreamBuf`
cells or more may reach the disk before the index (`Early`). A start index stays in its stream
until something flushes it, so `disk` has none before a store is first closed or compacted. `EntryAt`, `LastEntry`, `TermAt`,
`LogEntries` are the readers. The constants `WritesBelowBuffer`,
`ShrinkingRewrites` and `ShiftedPacks` say whether callers do the three things
the store does not cope with (section 4): with them FALSE the store keeps its
promises, with them TRUE it does not. `Abs == INSTANCE LogStore` is the refinement mapping:
the abstract entries are what `entry_at` returns.

**`RaftSnapshot`**: a leader that stays in office and its followers. All logs are
windows of one log, so a log is a start index and a last index. Requests
(`RequestAppendEntries`) are those of `create_append_entries_req` and
`create_sync_snapshot_req` with each of their exits (`Outcome`). `SaveBlock` and
`InstallSnapshot` are `handle_install_snapshot_req`; `HandleInstallSnapshotResp`
its response; `StartEntry` and `FinishEntry` the commit thread, which holds no
lock between reading an entry and setting the commit index; `CreateSnapshot` and
`OnSnapshotCompleted` the asynchronous making of a snapshot; `CrashInInstall` a
crash between the steps of an installation. `content` is what the state machine
reflects. `SetFree` is the first half of `peer::handle_rpc_result`, which runs without
`lock_`: until the callback gets it (`Waiting`), a heartbeat or a client may send to that
peer again. Two histories are for the properties: `marks`, which follower met a crash or a race, and
`overtaken`, which was sent a request while the callback of a response waited.

**`RaftMembership`**: again one leader, so that a log is a length; an entry is a
configuration (a set of servers) or not. One action per request and response of
`handle_extended_msg` and `handle_ext_resp`; `ExtErr` is `handle_ext_resp_err`
with its retries, which are counted by the heartbeat interval; `CommitInBg` is
the configuration branch of the commit thread with `reconfigure`.
`ElectableHasCommitted` asks in every state who could win an election, with the
configuration that each server has, and so stands for the changes of leader that
the module does not have. A vote is granted as in `handle_vote_req` (162-164): `LogOkay`
compares the terms of the last entries first (`LastTerm`: a client entry has term 0, a
configuration the leader's term), then the lengths. The property names two
exceptions: a server that missed two committed configurations, and one that wins only
with voters whose longer log ends in a client entry (`NeedsMisled`). `OldServerNotElected`
is the constructor's claim, which leaves out only the second.

**`ServerThreads`**: one server. A handler holds `lock_` for its whole body, so
it is one step once a thread (`entered`) has it in hand; between the moment a timer
hands its handler to the io_service, the test of `cancelled_` and the body,
anything may happen. `Bg...` are the steps of the commit thread between its
locks, `Owner...` those of the destructor. What a handler does to the protocol is
reduced to its effect on role, timers, log end and commit index. Requests to join and to leave
may arrive at any time: while `catching_up_` is set (`join = "catching"`), `restart_election_timer`
does nothing (465), nor does clearing it start the timer (`join = "unarmed"` until the
next restart); a server that agreed to leave (`leaving`) restarts its timer in place of an election.

**`RpcChannel`** states what `rpc_client::send` promises; **`AsioRpc`** is the
client, its one socket, and a session per connection, with each callback of asio
as an action. `Channel == INSTANCE RpcChannel` is the refinement mapping. This is
the layer under `RaftServer`'s network: one outcome per request, which may be an
error although the request was carried out.

The `MC` modules instantiate these for TLC (symmetry that respects the bounds in
`MCRaftServer` and `MCFsLogStore`; entry sizes; snapshot distances).

## 3. Runs that pass

Bounds of `RaftServer`: `Electors`, `Beating` and `Hearing` say whose election and heartbeat
timers fire and whom append requests reach; `MaxInFlight` how many messages may be
under way when a timer or client acts (handlers may exceed it); `MaxQueued` how
many equal responses wait for `lock_`; `MaxTerm`, `MaxLog`, `MaxErrors`,
`MaxRestarts` what they say. `UlongMax` (here and in `RaftSnapshot`) stands for 2^64-1 and only has to be
larger than every index. All configurations set `CHECK_DEADLOCK FALSE`: with its
budgets spent the instance stops, the system does not.

| run | instance | what it shows |
|---|---|---|
| `elections` | 3 servers, 2 candidates, 2 terms, 1 restart | no server votes twice in a term (`VoteOncePerTerm`, `VotesAreRemembered`); elections won with votes of their own term are unique (`CleanElectionSafety`); a leader only appends (`LeaderAppendOnly`) |
| `faults` | 2 servers, 1 leader, 2 entries, 1 failed RPC, 1 restart, fairness | every order of requests, responses, busy flags and commit threads keeps `StateMachineSafety`, `CommittedOnMajority` and `BusyPeerAwaitsReply`, with failed RPCs that did or did not get through, and crashes of either; every entry of a leader that stays in office is applied everywhere (`EntriesGetApplied`) |
| `handover` | 2 servers, 2 terms, both lead in turn, 1 restart, the commit thread's saves in two steps | `SavedCommitIsApplied`: a restart skips no entry; a busy peer waits for something under way (`BusyPeerAwaitsReply`), although `become_leader` and callbacks of an earlier leadership clear the flag too; `TypeOK` |
| `threads` | 2 io_service threads, 2 entries of which one is a configuration, requests to join and to leave, fairness | a follower or candidate has its election timer unless it is joining (`ElectionTimerArmed`), and a joiner gets it back from the next message (`JoinerIsArmed`); a leader has its heartbeat (`HeartbeatArmed`) and, unless it leaves, no election timer (`LeaderTimerOff`); what may be committed is (`CommitsInTheEnd`); the destructor ends if the commit thread was asleep (`ShutdownCompletes`); `TypeOK` |
| `rpc` | 3 requests, one without entries, 2 connections, 1 that breaks, fairness | refinement of `RpcChannel` (`ImplementsChannel`); a callback comes unless it was lost before the host was resolved or the peer never reads (`CallbackComes`); no callback twice (`TypeOK`) |
| `snapshot` | leader, a prompt follower and one that has nothing, snapshots of 2 blocks, 3 entries, 1 fault (a failed RPC, a crash, or a request that overtakes a callback), fairness | `CompactedIsInSnapshot`; `NothingSkipped` on servers no request overtook; `ExitsExplained`, `FollowerCatchesUp`, `TypeOK` |
| `membership` | 2 members, 1 joiner, 2 changes, 1 fault, fairness | `OneChangeAtATime`, `ElectableHasCommitted`, `LeaversGoDown`, `InvitationsEnd`, `TypeOK` |
| `fsstore` | 2 stores, buffer of 1, 3 entries, 1 compaction, 1 reopening | `BufferEndsWithStore`, `ReadersAgree` and refinement of `LogStore` (`ImplementsLogStore`), through rewrites, packs, compaction and reopening; `TypeOK` |
| `fscrashes` | 1 store, 3 entries, 1 crash between any two writes, index or large data first, 1 compaction, 1 failed one, 1 reopening | earlier entries stay in the files (`EarlierEntriesOnDisk`), and after the crash the constructor finds all that no operation was writing, unless the start index was not flushed (`CrashKeepsEntries`) |

Why these bounds are enough to be worth something: two terms give responses and
requests of a term that is over; three servers give a majority that is not
everyone; two entries and `MaxAppendSize = 2` give requests with zero, one and
two entries and overlaps of each kind; one restart at any point meets every
step. `MaxInFlight` is the bound that cuts most: with 1 or 2, timers and clients act on
nearly empty networks, but each action may send to everyone. In `faults` one server
leads in one term: with a second leader the properties are not true of the code
(`divergence`). Its invariants also pass with three servers (`Hearing = {s2, s3}`), with
`MaxLog = 2` and no faults, or `MaxLog = 1`, a failed RPC and a restart; the theorem
`AgreementUnderOneLeader` is about clusters of any size. A buffer smaller than the log makes readers
go to the files, two entry sizes move every position.

In `snapshot`, a distance of 1 makes the leader compact after the second entry
while the slow follower is anywhere between nothing and the end; two blocks give
a transfer that is cut in the middle; the prompt follower f1 (`Quiet`) keeps the majority
without adding interleavings. `MaxFaults` bounds failed RPCs, crashes and overtaken
followers together. The invariants also pass with `MaxLog = 5` and no faults (592,000 states). In `membership`, three servers are the
smallest cluster in which one joins and one leaves, `MaxSlow = 2` gives one retry
before the leader gives up; the safety part also passes with `MaxLog = 3` (1.7 million
states), where the exception `NeedsMisled` is met; with `MaxLog = 2` it is not. In `threads`, a second thread is what lets a
handler wait for `lock_` while another runs; `MaxExpired = 1` handler of a timer
may wait besides. In `rpc`, the third request meets a socket that the first two share.
In `fscrashes`, `StreamBuf = 2` makes the longer of the two entries a large write. In `fsstore`, without
crashes, the order of writes makes no difference, and `StreamBuf = 9` leaves one of them.

*Fairness*. In `faults`, `FairSpec` asks that between each two servers messages
keep being delivered, that heartbeat timers keep firing and that the commit
thread keeps running. The io_service threads run every completion, the
heartbeat task reschedules itself in each `handle_hb_timeout`, and
the commit thread loops; its `commit_cv_.wait` can miss a notification, but with two servers
every later heartbeat response calls `commit`, which notifies again (`threads`
shows just this). Nothing is assumed of elections, clients, errors or restarts.
In `threads`, the handlers in hand, the commit thread and the destructor are
weakly fair; strongly fair is that a message between leader and follower is read
now and then, which heartbeats bring about as long as a thread is ever idle. In `rpc`, the
client's pending operations complete, as its io_service threads run what is ready and TCP reports a
connection that is closed; nothing is assumed of the peer's sessions. In `snapshot` and `membership` messages are
delivered, timers fire and commit threads run, per follower. `snapshot` asks for strong
fairness where the model's own bound (`Calm`: nothing else moves while a message of the prompt
follower is under way) switches actions off for a step; the code has no
such pause.

Each property of a passing run has a mutant in `PROJECT.json`: a plausible slip in one
mapped definition (a lost vote, a majority off by one, a flag not freed, a timer not
rescheduled, a notification left out, a block too few, a buffer start not moved,
an index cell too many cut off) that TLC must catch.

## 4. Runs that fail: where the code and its documentation differ

Each run checks one property stated by a comment, a document or a test of the
repository, and TLC finds a behaviour that breaks it. Quotations are in
`PROJECT.json` under `findings`.

| run | property | what happens |
|---|---|---|
| `stalevotes` | `ElectionSafety` | a vote response of term 1 is counted in term 2: two leaders of term 2 |
| `divergence` | `StateMachineSafety` | client entries have term 0: an entry of an old leader passes for the new leader's |
| `oldservers` | `OldServerNotElected` | s2 is removed and s4 added; s1 and s4 commit an entry; s3, whose commit thread has applied neither change, wins in its first configuration with the vote of s2, without the entry. The proof in the constructor (raft_server.hxx:63-65) counts who has committed the first change, and misses that A and its voters may have it too |

Other places where the models show the code to fall short of its comments, by
changing a constant of a configuration or by inspection of an action. Consensus and
store:

* `ConfigChangingMatchesLog` ("the previous config has not committed yet",
  raft_server.cxx:1066) fails with three servers, two of which lead in turn
  (`Electors = {s1, s2}`, `Hearing = {s1}`, `MaxInFlight = 3`, `MaxLog = 0`): overwriting or
  dropping an uncommitted configuration leaves `config_changing_` as it was.
* `ReopenKeepsEntries` fails with `ShrinkingRewrites = TRUE`, one reopening: a
  shorter last entry keeps the old tail in the data file (fs_log_store.cxx:339),
  against tests/test_log_store.cxx:152.
* `PackCopiesEntries` fails with `ShiftedPacks = TRUE`, two stores: packs carry the
  sender's data positions (fs_log_store.cxx:554), against log_store.hxx:71.
* `SavesSerialized = FALSE` with two servers, two candidates and one restart:
  `VoteOncePerTerm` fails, because the commit thread's `save_state`
  (raft_server.cxx:1351) holds no lock and can put an old vote back.
* `WritesBelowBuffer = TRUE` with a buffer smaller than the log:
  `BufferEndsWithStore` ("for sure, we need to enforce this assumption",
  fs_log_store.cxx:395) fails, because `trim` ignores an index below the buffer.
* `LogEntriesDefined`: `log_entries` for a range that ends below the buffer writes
  past the end of its result (fs_log_store.cxx:98, 416).
* `CompactFails`: the restoration after a failed `compact` opens the backup for
  output (fs_log_store.cxx:744) and nothing is restored.
* Start indexes that are not flushed: a store that was never closed has its own only in the
  stream's buffer (fs_log_store.cxx:258), and after a crash the constructor counts no entry
  (259); `compact` of the whole log does not flush the new one either (662, unlike 726), and
  after a crash what was appended since is numbered from the old one.
  `CrashKeepsEntries` without `StartIndexUnflushed` fails.
* An entry large enough to be written through before the index file is flushed (294, 331, 555): a crash in
  between leaves its bytes behind the last entry of the index file, and the constructor reads them
  as part of it. `EarlierEntriesOnDisk` and `CrashKeepsEntries` with equality in place
  of `Begins` fail.
* A crash within `apply_pack` (fs_log_store.cxx:556) between the flush of the index
  file and that of the data file. If a pack of two entries of 3 cells is applied over four entries of
  1 cell, the index file is then `<<0, 3, 2, 3>>`; with `BufSize = 1` the constructor
  reads only the last entry and accepts it, and the next `compact` computes a negative
  position (`TypeOK` fails; in the code the unsigned number wraps). TLC finds it in
  four steps from the state after the appends; the bounds of the runs do not reach it.

Threads and RPC:

* A handler of the election timer that has read `cancelled_` and waits for `lock_`
  while the server wins its election ends the new leader (raft_server.cxx:225-228,
  "A leader should never encounter election timeout"): `role = "exited"` is reached.
* The destructor waits for ever if the commit thread is not asleep when it is
  notified (raft_server.hxx:96-100): `ShutdownCompletes` without its condition fails.
* `if (resp)` in asio_service.cxx:191 is inverted (its message says "no response is
  returned"): no response is ever written, and every request ends with an error;
  raft_server.cxx:68 has the same slip. `AsioRpc` models it as it is; `RaftServer` models
  the layer that the repository's tests use, which answers.
* Requests without entries are processed twice (asio_service.cxx:127-132).
* What the resolver's handler refers to may be gone when it runs (asio_service.cxx:294; the
  callback is a local variable of `peer::send_req`, peer.cxx:7): `CallbackComes` without
  `~req[r].good` fails, and the peer stays busy.
* A peer that keeps its connection and never reads keeps a request waiting (339, no timeout):
  `CallbackComes` without `AwaitsPeer` fails.
* The election timer of a joiner that expires is lost (raft_server.cxx:465), and clearing
  `catching_up_` (1343) does not start it: until the next message of a leader the new
  member would not notice that there is none. `ElectionTimerArmed` without `join = "no"` fails; a joiner that
  was a leader has no timer from the start. The commit index that a join request resets can be
  overwritten by the commit thread, which sets it without `lock_` (1347).

Snapshots:

* A leader ends itself in `term_for_log` if it sends to a follower at its old
  snapshot between the making of a new one and the compaction
  (raft_server.cxx:1294; line 682 says "we can check with last snapshot").
* A follower that lost the response to the last block declines the snapshot, and
  the leader "will retry" it for ever (409): `Offered`.
* A follower with an empty log is not sent a snapshot (683, `last_log_idx > 0`); the
  store throws and the peer stays busy: `Dropped`.
* A heartbeat between `set_free` (peer.cxx:15) and the callback of a response repeats a
  request, and the later of the two responses is taken for the answer to something else.
  `ExitsExplained` without `overtaken` fails in `Snapshot.cfg`. `NothingSkipped` without it
  fails with `MaxLog = 5`, `MaxFaults = 2` and `EmptyLogs = {}`: the response to a block of the old snapshot raises
  the offset of a newer one, whose first block is never sent (46 states).
* After a crash within an installation, or while the commit thread has not saved
  what a compaction removed, the restarted server ends itself again and again
  ("torn", "behind"), in the commit thread or in the next installation, whose
  compaction the store refuses; so it does if a snapshot is installed while the
  commit thread applies an entry ("raced").
* If `compact` throws in `on_snapshot_completed`, `snp_in_progress_` stays set.

Membership:

* `ElectableHasCommitted` without `NeedsMisled` fails with `MaxLog = 3`, or with `Member =
  {s2, s3}`, `Joiner = {}`, `MaxChanges = 0` and `MaxLog = 2`: a voter that has a committed client entry, of term 0
  (raft_server.cxx:1377), takes a shorter log that ends in a configuration for the newer one (162-164).
* `ChangesSerialized = FALSE`: `OneChangeAtATime` ("we only allow one server to be added
  or removed at a time", raft_server.cxx:713) fails, because `config_changing_` is set
  only when the configuration is appended.
* `LateRequests = TRUE`: `ElectableHasCommitted` fails: a `sync_log_request` that
  arrives late cuts off entries that its receiver has acknowledged as a member.
* A joiner that restarts while it catches up forgets `catching_up_`, and may be
  elected although its configuration does not contain it (`CouldWin` leaves servers
  outside their own configuration out; with them `OldServerNotElected` fails for
  `MaxLog = 3`).
* A server that agreed to leave, and whose answer was lost, declines the retry: it
  goes down only when it hears from no one. A joiner that accepted and is asked
  again declines too, and `srv_to_join_` stays.
* A refused `sync_log_request` has next index 0, for which the store throws.

## 5. What is proved

`RaftServerProofs`, for every value of the constants that satisfies
`ServerAssumption` and `NumberAssumption` (any cluster, any bounds):

* `TypeCorrect`: `Spec => []TypeOK`. `TypeOK` is inductive. The argument is about what reaches
  a log or a message: a request holds entries between an index inside the log
  and its end, because `RequestAppendEntries` exits otherwise; `Overlap` and
  `MajorityMatched` choose from sets that are not empty (a finite set of naturals has a least
  element; the median of the matched indexes exists), lemmas of their own.
* `VotesRemembered`: if `SavesSerialized`, `Spec => []VotesAreRemembered`. One step per
  action: the term on disk never falls, and a vote is recorded in the
  step that gives it.
* `OneVotePerTerm`: if `SavesSerialized`, `Spec => []VoteOncePerTerm`. Not
  inductive by itself: that a new vote conflicts with no old one needs that
  every old vote is older than the term on disk or is the one recorded there,
  which is `VotesAreRemembered`. Without `SavesSerialized` the statement is
  false (section 4).

`RaftElectionProofs`, if `SavesSerialized`:

* `CleanElectionsAreSafe`: `Spec => []CleanElectionSafety`. Two majorities share a
  server, which voted once (`OneVotePerTerm`); what remains is that a tally
  without stale votes counts servers. `EInv` says so: for every
  vote of the current term there is at most one ballot (the request, its response,
  or the response already counted), each granted response stands for a recorded vote
  (`BallotsSane`), the tally is at most the number of servers whose response has
  arrived (`TallySane`), and an election that is over was won with a majority
  (`ElectedByMajority`). `VotesCountedOnce` is this invariant. Orphaned requests,
  restarts of the candidate and repeated elections are what makes it long.

`RaftReplicationProofs`, without further assumptions:

* `LeadersOnlyAppend`: `Spec => LeaderAppendOnly`, one step per action from `TypeOK`.
* `NoEntrySkipped`: `Spec => []SavedCommitIsApplied`. The inductive form
  `IndexesApplied` speaks of three indexes: the one in memory, the one on disk and the copy
  that the commit thread is about to save, since each becomes one of the others. It needs
  no serialization of `save_state`: every copy that can reach the disk was applied once.
* `BusyPeersAwaitReplies`: `Spec => []BusyPeerAwaitsReply`. `BusyInv` adds that a process
  that ended waits for no callback (`CallersUp`), without which a restart
  would inherit answers that free its new flags.
* `AgreementUnderOneLeader`: `Spec => [](OneLeaderSoFar => StateMachineSafety /\
  CommittedOnMajority)`. `OneLeaderSoFar` says that one server has won all
  elections, in however many terms. Without it both
  properties are false (`divergence`), so this is the part of them that the code has.
  The invariant `FollowsOnly(e)` says of the only leader e: every log, every list of entries in a
  request and everything applied is an initial part of, or agrees with, e's log; a
  positive response, live or late, and every matched index is at most the length of that follower's
  log; logs of followers never shrink; every commit index known anywhere is
  held by a majority. The last rests on `MajorityMatched` being a median.

`RaftSnapshotProofs`, for any followers, snapshot sizes, distances and batch sizes:

* `SnapshotTypes` and `CompactionIsCovered`: `Spec => []TypeOK`, `Spec =>
  []CompactedIsInSnapshot`. Neither is inductive. `IndexInv` orders the indexes of every server
  (start, snapshot, commit, last, and those of a snapshot being made, also for a
  server that crashed), and bounds what messages and sync contexts refer to by the
  leader's.
* `NoEntryIsSkipped`: `Spec => []NothingSkipped`. A follower installs a snapshot when the
  last block arrives, so the proof has to show that it has all blocks of *that* snapshot,
  although a response names neither snapshot nor block. `CallInv`: a follower that no request
  overtook has one live call, which agrees with its peer object and sync context, and a block is
  under way, or accepted, only if all before it are stored. `ContentInv`: the state machine reflects what is
  committed in memory, what a restart will take for committed, and what the commit
  thread is applying. Both are stated follower by follower, for those that are not
  `overtaken`: what happens to the others does not reach them. Of an overtaken follower the statement is
  false (section 4).
* `EveryExitIsExplained`: `Spec => []ExitsExplained`. `LevelInv`: as
  long as no RPC was lost, a follower that no request overtook ends before its peer's next index, or is about to be sent a snapshot,
  so that no follower is asked for the term of an entry it has dropped. The attempt to prove an earlier
  form of `ExitsExplained` failed, and TLC confirmed why: an installation also fails on
  a follower that restarted "behind" its own compacted log.

`RaftMembershipProofs`, for any members, joiners, batch sizes and bounds, if an application
asks for a change only when the one before is in the log or given up (`ChangesSerialized`):

* `OneChangeAlways`: `Spec => []OneChangeAtATime`. Nothing is assumed of the network. The
  inductive invariant `MembershipInv` is about the time between a request that was accepted and
  `config_changing_`: at most one extended request or response is under way (`OneExt`),
  none while a configuration is uncommitted, and the invitation or peer that the answer will be
  applied to is still the one it was sent for (`AwaitsOK`); the server invited is in no
  configuration of the log; `peers_` is the last configuration applied, or
  empty once a configuration of the leader alone was appended (`ChangeOK`); a server
  removed is not added again (`NeverBack`), so that what a peer object says is about one membership.
* `CommittedInvariant`, if also no request arrives after its error was reported
  (`~LateRequests`): `Spec => [](MembershipInv /\ CommittedInv)`. `SyncInv`: a pack for a
  server that catches up ends behind all that the server takes for committed, so that it
  cuts off nothing applied. `MatchInv`: matched indexes, and positive responses to come, are
  at most the length of a member's log. `QuorumInv`: what the leader
  committed is on a majority of a configuration since which one more was committed
  at most. It moves when the median of the matched indexes does: that median is taken over `peers_`,
  which is one configuration behind while a change commits.
* `MembershipTypes`: `Spec => []TypeOK`, from both; `commit[s] <= len[s]` is where
  `SyncInv` is needed.
* `ElectableAlways`: `Spec => []ElectableHasCommitted`. Majorities of the same configuration,
  or of neighbours, which differ by one server, have a server in common. The
  proof of the unrestricted claim failed where two configurations lie between
  voters and committers, and TLC then found the behaviour of `oldservers`. Voters outside `Misled`
  have no longer log than the candidate (`LogOkay`), so the argument goes through for
  whoever does not need the others; for who does the statement is false (section 4). Without `~LateRequests` the
  theorem is false (section 4).

`ServerThreadsProofs`, for any set of io_service threads, any configuration
entries and any bounds:

* `ElectionTimerNeverLost`, `HeartbeatNeverLost`, `LeaderHasNoElectionTimer`: the three
  timer invariants, and `ThreadsTypeCorrect`. The first leaves out a server that was asked to
  join and whose timer no restart has touched since, the last one that agreed to leave. None of the timer invariants is inductive
  alone. `IInv` joins them with `TimersSane` (a task that waits is not
  cancelled, so its expiry does run the handler; a leader's peers have their heartbeats
  enabled, so the handler schedules the next one) and with `ApplyInside`: once the
  commit thread has seen entries to apply, which it tests without `lock_`, they stay there
  until it has applied them, because nobody else moves `sm_commit_index_`.

`AsioRpcProofs`, for any requests, connections and failures, whether or not the resolver's handler
finds its callback:

* `RpcTypeCorrect` (no callback runs twice) and `RpcImplementsChannel`: `Spec => Channel!Spec`. A
  step of `AsioRpc` is a `Send`, a `ProcessReq` or a `WhenDone` of
  `RpcChannel`, or leaves its variables alone. That a session may hand on a
  request once more needs to know how often it did so: `IInv` says that a request that left
  the client is on one wire, once, or was read by one session (`OnePlace`),
  that the count of a request follows from where that session is
  (`CountsMatch`), that a connection has no session before the client is connected
  (`SocketFresh`, or a reused connection would lose what was read), and that the callback
  came exactly for the requests that are over and did not lose it (`CallsMatch`). In the channel a
  lost callback is one that has not come yet.

`FsLogStoreProofs`, for any number of stores, entries of any size and a buffer of any
size, if packs are applied at the data positions they were made at
(`~ShiftedPacks`). `NoCrashYet` is "no crash so far":

* `EarlierOnDisk`: until the first crash, `TypeOK` and `EarlierEntriesOnDisk`, also with
  shrinking rewrites and writes below the buffer. The inductive invariant `FilesInv` says
  of every store that is open: the index file holds strictly increasing positions, from 0
  on, below the end of the data file (`Layout`); memory counts the cells of the
  index file; the last of the pending writes makes the disk equal to the files
  (`InStep`); and the disk as it is, and as each pending write will leave it, in whichever order index
  and data get there, holds the first `keep` entries with their end, the last one in the index perhaps
  with a tail (`Survives`, `Legible`). `EarlierEntriesOnDisk` alone
  says nothing of the writes still to come. It asks for nothing of the start index, so that it covers
  stores that were never closed.
* `ReadersAgreeUntilCrash`: if callers also write inside the buffer and do not
  shrink the last entry, `BufferEndsWithStore` and `ReadersAgree` until the first
  crash. `BufferInv` adds that the buffer is the newest entries of the files, read with
  `FillEntry`, and is not empty unless the store is.
* `ReopenKeeps` and `PackCopies`, under the same conditions: `ReopenKeepsEntries` (close
  and the constructor change no entry) and `PackCopiesEntries` (a pack puts exactly the
  packed entries at their index, and `apply_pack` does not throw). No run lists them:
  `ImplementsLogStore` covers what they say of the abstract log.
* `StoreImplementsLogStore`: `Spec /\ []NoFailureYet => ImplementsLogStore`, the
  refinement of `LogStore`, as long as there is no crash and no I/O error. With the invariant
  `SoundInv` the log a caller reads is `Log(files[s])`, cut out of the data file by
  the index file; `Splice` replaces its tail (`ReplacedLog`), `compact` drops its head
  and rebases the positions (`ShiftedLog`), and flushing and reopening leave it as it is.

The theorems end at the first crash because the invariant does: a crash within
`apply_pack` can leave an index file whose positions do not increase, and the
constructor may accept it (section 4). What the constructor makes of the disk after the first crash,
`CrashKeepsEntries`, is checked by `FsCrashes` for one store, without packs. The I/O error of `CompactFails`
leaves the store broken, and the first four theorems speak of the stores that are not.

Everything else is model-checked only. Liveness under fairness is out of the
prover's reach and stays with TLC: `EntriesGetApplied`, `CommitsInTheEnd`,
`JoinerIsArmed`, `ShutdownCompletes`, `CallbackComes`, `FollowerCatchesUp`, `LeaversGoDown`,
`InvitationsEnd`. `ElectionSafety`, the unrestricted `StateMachineSafety` and
`OldServerNotElected` are false of the code. Not proved: `CrashKeepsEntries`, and `FsLogStore` after a crash.

## 6. What the models leave out

* `RaftServer`: `pre_commit` and `rollback` (calls of the application that
  leave no trace in the library; by reading, entries that `write_at` drops behind an overwritten one
  are not rolled back, 129). Client requests carry one entry. A crash between the two saves of
  one handler (`update_term` and the vote) is not distinguished: between them
  nothing is sent. When a server exits in `MeetRivalLeader` its sender learns of
  it at once. The history variables make `CleanElectionSafety` expressible.
* `RaftSnapshot`: changes of leader, crashes of the leader, the configuration inside a snapshot,
  snapshots that the state machine fails to apply. The state machine keeps its
  blocks and its snapshots over a restart.
* `RaftMembership`: changes of leader, a joining server that needs a snapshot
  (raft_server.cxx:939-974, 1159-1161), crashes between applying and saving,
  `max_append_size_`; a server is added once. A refused request at a server that
  is down fails in the end.
* `ServerThreads`: one peer; the retry timers of extended requests; the stop and restart of the
  election timer around the installation of a snapshot; the count in `steps_to_down_`. The threads of the io_service do not end.
* `AsioRpc`: one client and one listener; headers that are malformed; the bytes of messages.
  Of what a dangling reference may do (294), only that the callback is lost: neither a
  crash nor the callback of another request in its place.
* `FsLogStore`: a stream that was flushed is on the disk (the page cache of the
  operating system is not modelled); calls out of range throw without changing
  anything and are not actions; readers return what they read, with cells in
  place of bytes; `term_at` reads the head of an entry. `log_store_buffer::pack`
  is never called and is left out.

### Not modelled

`async_result` (only its callback form is used by the library), `ptr` (the models
have values, not pointers), `buffer` and serialization (sequential byte layouts),
the flush of the loggers with `asio_service::stop`, logging, parameters, tests.
`PROJECT.json` gives the reason for each.

## 7. Plan

1. done: `RaftServer`, `LogStore`, `FsLogStore`, their runs, `RaftServerProofs`.
2. done: `ServerThreads`, `RpcChannel`, `AsioRpc`, `RaftSnapshot`, `RaftMembership`.
3. done: the timer invariants of `ServerThreads`; that `AsioRpc` implements
   `RpcChannel`; the safety of `RaftServer` (elections, agreement, saves, busy flags); the
   safety of `RaftSnapshot` and of `RaftMembership`; that `FsLogStore` implements
   `LogStore`.
4. To prove: `CrashKeepsEntries` (what `FsLogStore` keeps through a crash).
5. `pre_commit` and `rollback` in `RaftServer`; `asio_service::stop` in `AsioRpc`; the
   snapshot of a joining server, which composes `RaftSnapshot` and `RaftMembership`.
