--------------------------- MODULE ServerThreads ---------------------------
(***************************************************************************)
(* One raft_server at the grain of its locks: the io_service threads that  *)
(* run timer tasks and handlers, the thread of commit_in_bg with the       *)
(* condition variable it sleeps on, and the thread that destroys the       *)
(* server.                                                                 *)
(*                                                                         *)
(* A handler holds lock_ from its first statement to its last, so its body *)
(* is one step that needs lock_ to be free; only the destructor is seen    *)
(* holding it.  A message is read in the same step: one that waits for     *)
(* lock_ is one that was delivered later.  The handler of a timer is seen  *)
(* waiting, because it reads its task's cancelled_ flag before it waits.   *)
(* What a handler does to the protocol is RaftServer's subject: here a     *)
(* body keeps its effect on the role, on the timers and on the indexes the *)
(* commit thread reads.                                                    *)
(***************************************************************************)
EXTENDS Integers

CONSTANTS
    Threads,     \* how many threads run asio::io_service::run
    ConfIdx,     \* the indexes of the log that hold a configuration
    MaxLog,      \* bound: the last index of the log
    MaxExpired   \* bound: handlers of one timer waiting for a thread

ASSUME ThreadsAssumption ==
    /\ Threads \in Nat /\ MaxLog \in Nat /\ MaxExpired \in Nat
    /\ ConfIdx \subseteq 1..MaxLog

VARIABLES
    role,        \* role_, or "exited" once the process called exit()
    completed,   \* election_completed_
    entered,     \* entered[t]: threads about to run the handler of t
    timer,       \* timer[t]: asio timer and delayed_task of t
    hb_enabled,  \* peer::hb_enabled_
    last,        \* log_store_->next_slot() - 1
    quick,       \* quick_commit_idx_
    committed,   \* state_->get_commit_idx()
    current,     \* current_commit_idx while entries are applied, or 0
    bg,          \* where the commit thread is
    owner,       \* where the destructor is
    leaving,     \* steps_to_down_ > 0
    join         \* "catching": catching_up_; "unarmed": it was cleared and the
                 \* election timer was not restarted since; "no": neither

vars == <<role, completed, entered, timer, hb_enabled, last, quick, committed,
          current, bg, owner, leaving, join>>
\* What the handlers of joining and leaving change.
members == <<leaving, join>>

Timers == {"election_timeout", "hb_timeout"}

\* waiting: an async_wait is pending; expired: handlers that the timer handed
\* to the io_service and no thread runs yet; cancelled: delayed_task::cancelled_
Timer == [waiting : BOOLEAN, expired : Nat, cancelled : BOOLEAN]

Up == role # "exited"
Locked == owner \notin {"none", "done"}  \* the destructor holds lock_
Stopping == owner # "none"               \* stopping_
CatchingUp == join = "catching"          \* catching_up_
CommitLocked == owner = "notifying"      \* the destructor holds commit_lock_

-----------------------------------------------------------------------------
(* asio_service: schedule and cancel.  A handler already handed to the       *)
(* io_service is past recall: cancelling it only sets the task's flag, and   *)
(* scheduling the task again clears that flag.                               *)

Cancelled(tm) == [tm EXCEPT !.waiting = FALSE, !.cancelled = TRUE]
Scheduled(tm) == [tm EXCEPT !.waiting = TRUE, !.cancelled = FALSE]
CancelledAfterReset(tm) == [tm EXCEPT !.waiting = TRUE, !.cancelled = TRUE]
Restarted(tm) == Scheduled(Cancelled(tm))

\* restart_election_timer, with tms what the handler did to the timers before.
\* It does nothing while catching_up_, also to a timer that has fired.
RestartWhenArmed(tms) ==
    IF join # "no"
    THEN timer' = tms /\ UNCHANGED join
    ELSE /\ timer' = [tms EXCEPT !["election_timeout"] = Restarted(@)]
         /\ join' = "no"
RestartElectionTimer(tms) ==
    IF CatchingUp
    THEN timer' = tms /\ UNCHANGED join
    ELSE /\ timer' = [tms EXCEPT !["election_timeout"] = Restarted(@)]
         /\ join' = "no"

TimerExpires(t) ==
    /\ Up /\ timer[t].waiting /\ timer[t].expired < MaxExpired
    /\ timer' = [timer EXCEPT ![t].waiting = FALSE, ![t].expired = @ + 1]
    /\ UNCHANGED <<role, completed, entered, hb_enabled, last, quick, committed,
                   current, bg, owner, members>>

\* A thread of the io_service has nothing to do.
ThreadIdle == entered["election_timeout"] + entered["hb_timeout"] < Threads

\* _timer_handler_ and delayed_task::execute: the flag is read before the
\* handler asks for lock_.
RunTask(t) ==
    /\ Up /\ ThreadIdle /\ timer[t].expired > 0
    /\ timer' = [timer EXCEPT ![t].expired = @ - 1]
    /\ entered' = IF timer[t].cancelled THEN entered
                  ELSE [entered EXCEPT ![t] = @ + 1]
    /\ UNCHANGED <<role, completed, hb_enabled, last, quick, committed,
                   current, bg, owner, members>>

-----------------------------------------------------------------------------
(* The bodies of the handlers, each under lock_. *)

Runs(t) ==
    /\ Up /\ owner = "none" /\ entered[t] > 0
    /\ entered' = [entered EXCEPT ![t] = @ - 1]

\* A thread reads a request, or the response to one.
Receives ==
    /\ Up /\ owner = "none" /\ ThreadIdle
    /\ UNCHANGED entered

\* commit(): raises quick_commit_idx_, and notifies the commit thread
\* whenever there is something for it to do; end is the last index of the log.
CommitNotifyIfRaised(to, end) ==
    LET most == IF to > quick THEN to ELSE quick
    IN  /\ quick' = most
        /\ bg' = IF /\ bg = "asleep" /\ to > quick
                    /\ end > committed /\ most > committed
                 THEN "woken" ELSE bg
Commit(to, end) ==
    LET most == IF to > quick THEN to ELSE quick
    IN  /\ quick' = most
        /\ bg' = IF bg = "asleep" /\ end > committed /\ most > committed
                 THEN "woken" ELSE bg

\* become_follower: heartbeats off, election timer restarted.
BecomeFollower ==
    /\ role' = "follower"
    /\ hb_enabled' = FALSE
    /\ RestartElectionTimer([timer EXCEPT !["hb_timeout"] = Cancelled(@)])

\* become_leader: election timer stopped, heartbeats on.
BecomeLeaderKeepingTimer ==
    /\ role' = "leader"
    /\ hb_enabled' = TRUE
    /\ timer' = [timer EXCEPT !["hb_timeout"] = Scheduled(@)]
BecomeLeader ==
    /\ role' = "leader"
    /\ hb_enabled' = TRUE
    /\ timer' = [timer EXCEPT !["election_timeout"] = Cancelled(@),
                              !["hb_timeout"] = Scheduled(@)]

\* handle_election_timeout.  In a server that agreed to leave it counts down and
\* ends the process (RaftMembership has the count), in one that catches up it
\* does nothing, and it ends the process of a leader.
HandleElectionTimeout ==
    /\ Runs("election_timeout")
    /\ \/ /\ leaving
          /\ \/ RestartElectionTimer(timer) /\ UNCHANGED role
             \/ role' = "exited" /\ UNCHANGED <<timer, join>>
          /\ UNCHANGED completed
       \/ /\ ~leaving /\ CatchingUp
          /\ RestartElectionTimer(timer)
          /\ UNCHANGED <<role, completed>>
       \/ /\ ~leaving /\ ~CatchingUp /\ role = "leader"
          /\ role' = "exited"
          /\ UNCHANGED <<completed, timer, join>>
       \/ /\ ~leaving /\ ~CatchingUp /\ role # "leader"
          /\ role' = "candidate"
          /\ completed' = FALSE
          /\ RestartElectionTimer(timer)
    /\ UNCHANGED <<hb_enabled, last, quick, committed, current, bg, owner,
                   leaving>>

\* handle_hb_timeout.
HbNotRescheduled == timer
HbRescheduled == IF role = "leader" /\ hb_enabled
                 THEN [timer EXCEPT !["hb_timeout"] = Scheduled(@)] ELSE timer
HandleHbTimeout ==
    /\ Runs("hb_timeout")
    /\ timer' = HbRescheduled
    /\ UNCHANGED <<role, completed, hb_enabled, last, quick, committed,
                   current, bg, owner, members>>

\* update_term.
HandleLaterTerm ==
    /\ Receives
    /\ BecomeFollower
    /\ completed' = FALSE
    /\ UNCHANGED <<last, quick, committed, current, bg, owner, leaving>>

\* handle_voting_resp: a vote that completes a majority, or one too many.
HandleVotingResp ==
    /\ Receives
    /\ \/ /\ ~completed
          /\ completed' = TRUE
          /\ BecomeLeader
       \/ /\ completed
          /\ UNCHANGED <<role, hb_enabled, timer, completed>>
    /\ UNCHANGED <<last, quick, committed, current, bg, owner, members>>

\* handle_cli_req.
HandleCliReq ==
    /\ Receives
    /\ last' = IF role = "leader" /\ last < MaxLog THEN last + 1 ELSE last
    /\ UNCHANGED <<role, completed, timer, hb_enabled, quick, committed,
                   current, bg, owner, members>>

\* handle_append_entries_resp on the leader, handle_append_entries (with a
\* heartbeat, entries or a new commit index) on the others; a server that
\* catches up gets its entries by handle_log_sync_req as well.
HandlePeerMsg ==
    /\ Receives
    /\ \/ /\ role = "leader"
          /\ \E to \in 0..last : Commit(to, last)
          /\ UNCHANGED <<role, timer, hb_enabled, last, join>>
       \/ /\ role = "follower"
          /\ \E end \in last..MaxLog, to \in 0..MaxLog :
                 last' = end /\ Commit(to, end)
          /\ RestartElectionTimer(timer)
          /\ UNCHANGED <<role, hb_enabled>>
       \/ /\ role = "candidate"
          /\ \E end \in last..MaxLog, to \in 0..MaxLog :
                 last' = end /\ Commit(to, end)
          /\ BecomeFollower
    /\ UNCHANGED <<completed, committed, current, owner, leaving>>

\* handle_join_cluster_req: a follower from the start, whatever the server was
\* before, and without touching any timer.
HandleJoinReq ==
    /\ Receives
    /\ \/ /\ ~CatchingUp
          /\ join' = "catching"
          /\ role' = "follower"
          /\ quick' = 0 /\ committed' = 0
       \/ /\ CatchingUp
          /\ UNCHANGED <<role, quick, committed, join>>
    /\ UNCHANGED <<completed, timer, hb_enabled, last, current, bg, owner,
                   leaving>>

\* handle_leave_cluster_req: declined while config_changing_.
HandleLeaveReq ==
    /\ Receives
    /\ leaving' \in {leaving, TRUE}
    /\ UNCHANGED <<role, completed, timer, hb_enabled, last, quick, committed,
                   current, bg, owner, join>>

HandleTimer == HandleElectionTimeout \/ HandleHbTimeout

HandleMessage ==
    \/ HandleLaterTerm
    \/ HandleVotingResp
    \/ HandleCliReq
    \/ HandlePeerMsg
    \/ HandleJoinReq
    \/ HandleLeaveReq

-----------------------------------------------------------------------------
(* commit_in_bg. *)

MoreThan(k) == quick > k /\ last > k

BgMove(from, to) ==
    /\ Up /\ bg = from /\ bg' = to
    /\ UNCHANGED <<role, completed, entered, timer, hb_enabled, last, quick,
                   owner, leaving>>

\* The test of the outer loop, made with no lock held.
BgTest ==
    /\ BgMove("test", IF MoreThan(committed) THEN "apply" ELSE "to_wait")
    /\ current' = IF MoreThan(committed) THEN committed ELSE 0
    /\ UNCHANGED <<committed, join>>

\* commit_lock_ is taken and given up by commit_cv_.wait.
BgWait ==
    /\ ~CommitLocked /\ BgMove("to_wait", "asleep")
    /\ UNCHANGED <<committed, current, join>>

\* A condition variable may wake its waiter without a notification.
WakeSpuriously ==
    BgMove("asleep", "woken") /\ UNCHANGED <<committed, current, join>>

\* wait returns with commit_lock_ taken again.
BgWakeUnasked ==
    /\ ~CommitLocked /\ BgMove("woken", "test")
    /\ UNCHANGED <<committed, current, join>>
BgWake ==
    /\ ~CommitLocked /\ BgMove("woken", IF Stopping THEN "stop" ELSE "test")
    /\ UNCHANGED <<committed, current, join>>

\* One entry.  A configuration is applied under lock_; one that names this
\* server clears catching_up_, and leaves the election timer as it is.
BgApply ==
    /\ BgMove("apply", "record")
    /\ current' = current + 1
    /\ \/ current + 1 \notin ConfIdx /\ UNCHANGED join
       \/ /\ current + 1 \in ConfIdx /\ ~Locked
          /\ join' \in IF CatchingUp THEN {join, "unarmed"} ELSE {join}
    /\ UNCHANGED committed

\* set_commit_idx, after lock_ was given back, and the test of the inner loop.
BgRecordOneMore ==
    /\ BgMove("record", IF MoreThan(current - 1) THEN "apply" ELSE "test")
    /\ committed' = current
    /\ UNCHANGED <<current, join>>
BgRecord ==
    /\ BgMove("record", IF MoreThan(current) THEN "apply" ELSE "test")
    /\ committed' = current
    /\ current' = IF MoreThan(current) THEN current ELSE 0
    /\ UNCHANGED join

\* ready_to_stop_cv_.notify_all, and the thread ends.
BgReady ==
    /\ Up /\ bg = "stop"
    /\ bg' = "done"
    /\ owner' = IF owner = "waiting" THEN "told" ELSE owner
    /\ UNCHANGED <<role, completed, entered, timer, hb_enabled, last, quick,
                   committed, current, members>>

CommitInBg == BgTest \/ BgWait \/ BgWake \/ BgApply \/ BgRecord \/ BgReady

-----------------------------------------------------------------------------
(* The destructor. *)

OwnerMove(from, to) ==
    /\ Up /\ owner = from /\ owner' = to
    /\ UNCHANGED <<role, completed, entered, hb_enabled, last, quick, committed,
                   current, members>>

\* lock_ is taken, stopping_ is set.
OwnerLocks == OwnerMove("none", "locked") /\ UNCHANGED <<bg, timer>>

\* commit_lock_ is taken and everyone who sleeps on commit_cv_ is woken.
OwnerNotifies ==
    /\ OwnerMove("locked", "notifying") /\ UNCHANGED timer
    /\ bg' = IF bg = "asleep" THEN "woken" ELSE bg

\* stopping_lock_ is taken, commit_lock_ is given back, and the wait gives up
\* stopping_lock_.
OwnerWaits == OwnerMove("notifying", "waiting") /\ UNCHANGED <<bg, timer>>

\* The tasks are cancelled and lock_ is given back.
OwnerLeaves ==
    /\ OwnerMove("told", "done")
    /\ timer' = [t \in Timers |-> Cancelled(timer[t])]
    /\ UNCHANGED bg

Destroy == OwnerNotifies \/ OwnerWaits \/ OwnerLeaves

-----------------------------------------------------------------------------
Init ==
    /\ role = "follower" /\ completed = TRUE
    /\ entered = [t \in Timers |-> 0]
    /\ timer = [t \in Timers |->
           [waiting |-> t = "election_timeout", expired |-> 0,
            cancelled |-> FALSE]]
    /\ hb_enabled = FALSE
    /\ last = 0 /\ quick = 0 /\ committed = 0 /\ current = 0
    /\ bg = "test"
    /\ owner = "none"
    /\ leaving = FALSE /\ join = "no"

Next ==
    \/ \E t \in Timers : TimerExpires(t)
    \/ \E t \in Timers : RunTask(t)
    \/ HandleTimer
    \/ HandleMessage
    \/ CommitInBg
    \/ WakeSpuriously
    \/ OwnerLocks
    \/ Destroy

Spec == Init /\ [][Next]_vars

\* The threads run, and leader and followers keep hearing from each other
\* (heartbeats and their responses).  Nothing is assumed of clients, votes,
\* later terms, joining, leaving, spurious wake-ups or the start of the
\* destructor.
Fairness ==
    /\ WF_vars(CommitInBg)
    /\ WF_vars(Destroy)
    /\ WF_vars(HandleTimer)
    /\ SF_vars(HandlePeerMsg)

FairSpec == Spec /\ Fairness

-----------------------------------------------------------------------------
(* Properties. *)

TypeOK ==
    /\ role \in {"follower", "candidate", "leader", "exited"}
    /\ completed \in BOOLEAN /\ hb_enabled \in BOOLEAN
    /\ entered \in [Timers -> 0..Threads]
    /\ timer \in [Timers -> Timer]
    /\ last \in 0..MaxLog /\ quick \in 0..MaxLog
    /\ committed \in 0..last /\ current \in 0..last
    /\ bg \in {"test", "to_wait", "asleep", "woken", "apply", "record", "stop",
              "done"}
    /\ owner \in {"none", "locked", "notifying", "waiting", "told", "done"}
    /\ leaving \in BOOLEAN /\ join \in {"no", "catching", "unarmed"}

\* t will be handled unless it is cancelled first.
Armed(t) ==
    \/ timer[t].waiting
    \/ timer[t].expired > 0 /\ ~timer[t].cancelled
    \/ entered[t] > 0

\* However restarts, expiries and cancellations interleave, a server that does
\* not lead never loses its election timer: it will notice that the leader is
\* gone.  The exception is a server that was asked to join: from the request on,
\* and after catching_up_ was cleared until a message restarts the timer, it may
\* have none.
ElectionTimerArmed ==
    role \in {"follower", "candidate"} /\ join = "no" /\ owner # "done" =>
        Armed("election_timeout")

\* A server that became a member gets its election timer back as long as a
\* leader talks to it: clearing catching_up_ starts none, the next message does.
JoinerIsArmed ==
    (join = "unarmed" /\ role = "follower") ~>
        (join # "unarmed" \/ role # "follower" \/ Stopping)

\* A leader always has a heartbeat coming for its peer.
HeartbeatArmed == role = "leader" /\ owner # "done" => Armed("hb_timeout")

\* "A leader should never encounter election timeout": the timer of a leader
\* is off.  What can still end it is a handler that read the cancelled_ flag
\* before the election was won and has been waiting for lock_ since.  In a
\* server that agreed to leave, that handler starts the timer again.
LeaderTimerOff ==
    role = "leader" /\ ~leaving =>
        ~timer["election_timeout"].waiting /\ timer["election_timeout"].cancelled

\* A wake-up of the commit thread can be lost between its test and its wait,
\* but the next message makes up for it: what may be committed is committed,
\* unless a join request takes quick_commit_idx_ back first.
CommitsInTheEnd ==
    MoreThan(committed) ~> (~MoreThan(committed) \/ Stopping \/ ~Up)

\* The destructor comes to its end if the commit thread was asleep when it was
\* told to stop.  (Otherwise it waits for ever, with lock_ held.)
ShutdownCompletes ==
    (owner = "notifying" /\ bg = "woken") ~> (owner = "done" \/ ~Up)
=============================================================================
