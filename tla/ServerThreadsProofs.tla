------------------------ MODULE ServerThreadsProofs ------------------------
(***************************************************************************)
(* Machine-checked facts about ServerThreads, for every number of          *)
(* io_service threads and every value of the bounds.                       *)
(***************************************************************************)
EXTENDS ServerThreads, TLAPS

\* A task that waits is not cancelled, and a leader's peers have heartbeats.
TimersSane ==
    /\ \A t \in Timers : timer[t].waiting => ~timer[t].cancelled
    /\ role = "leader" => hb_enabled

\* The commit thread applies entries that are there.  Nothing is said of
\* quick_commit_idx_, which a join request may have taken back.
ApplyInside == bg = "apply" => last > current

IInv ==
    /\ TypeOK /\ ApplyInside /\ TimersSane
    /\ ElectionTimerArmed /\ HeartbeatArmed /\ LeaderTimerOff

-----------------------------------------------------------------------------
(* The operations on a timer. *)

\* What cancel, schedule and restart leave of a timer.
LEMMA TimerOps ==
    ASSUME NEW tm \in Timer
    PROVE  /\ Cancelled(tm) \in Timer /\ Scheduled(tm) \in Timer
           /\ Restarted(tm) \in Timer
           /\ ~Cancelled(tm).waiting /\ Cancelled(tm).cancelled
           /\ Scheduled(tm).waiting /\ ~Scheduled(tm).cancelled
           /\ Restarted(tm).waiting /\ ~Restarted(tm).cancelled
    BY DEF Timer, Cancelled, Scheduled, Restarted

\* restart_election_timer does nothing while catching_up_, and otherwise arms
\* the election timer and leaves the others alone.
LEMMA RestartStep ==
    ASSUME NEW tms \in [Timers -> Timer],
           join \in {"no", "catching", "unarmed"},
           RestartElectionTimer(tms)
    PROVE  /\ timer' \in [Timers -> Timer]
           /\ join' \in {"no", "catching", "unarmed"}
           /\ timer'["hb_timeout"] = tms["hb_timeout"]
           /\ \/ /\ join = "catching" /\ join' = "catching" /\ timer' = tms
              \/ /\ join # "catching" /\ join' = "no"
                 /\ timer'["election_timeout"].waiting
                 /\ ~timer'["election_timeout"].cancelled
<1>1. tms["election_timeout"] \in Timer
    BY DEF Timers
<1>2. CASE join = "catching"
    BY <1>2 DEF RestartElectionTimer, CatchingUp
<1>3. CASE join # "catching"
    BY <1>1, <1>3, TimerOps DEF RestartElectionTimer, CatchingUp, Timers
<1>4. QED
    BY <1>2, <1>3

\* commit() keeps the indexes in range, and only ever wakes the commit thread.
LEMMA CommitStep ==
    ASSUME IInv, NEW to \in 0..MaxLog, NEW end \in 0..MaxLog, Commit(to, end)
    PROVE  /\ quick' \in 0..MaxLog /\ quick' >= quick
           /\ bg' = bg \/ (bg = "asleep" /\ bg' = "woken")
    BY ThreadsAssumption DEF IInv, TypeOK, Commit

-----------------------------------------------------------------------------
(* Each action preserves the invariant. *)

\* A server that has just started.
LEMMA InitInv == Init => IInv
<1> SUFFICES ASSUME Init PROVE IInv
    OBVIOUS
<1>1. timer \in [Timers -> Timer]
    <2>1. ASSUME NEW t \in Timers
          PROVE  [waiting |-> t = "election_timeout", expired |-> 0,
                  cancelled |-> FALSE] \in Timer
        <3>1. (t = "election_timeout") \in BOOLEAN
            OBVIOUS
        <3>2. QED
            BY <3>1, Zenon DEF Timer
    <2>2. QED
        BY <2>1, Zenon DEF Init
<1>2. TypeOK
    <2>1. completed \in BOOLEAN /\ hb_enabled \in BOOLEAN /\ leaving \in BOOLEAN
        BY Zenon DEF Init
    <2>2. entered \in [Timers -> 0..Threads]
        BY ThreadsAssumption DEF Init
    <2>3. /\ last \in 0..MaxLog /\ quick \in 0..MaxLog
          /\ committed \in 0..last /\ current \in 0..last
        BY ThreadsAssumption DEF Init
    <2>4. QED
        BY <1>1, <2>1, <2>2, <2>3, Zenon DEF Init, TypeOK
<1>3. ApplyInside /\ TimersSane /\ HeartbeatArmed /\ LeaderTimerOff
    BY DEF Init, ApplyInside, TimersSane, HeartbeatArmed, LeaderTimerOff
<1>4. ElectionTimerArmed
    BY DEF Init, ElectionTimerArmed, Armed, Timers
<1>5. QED
    BY <1>2, <1>3, <1>4 DEF IInv

\* A timer expires.
LEMMA ExpireInv ==
    ASSUME IInv, NEW t \in Timers, TimerExpires(t)
    PROVE  IInv'
    BY DEF IInv, TypeOK, ApplyInside, TimersSane, ElectionTimerArmed,
        HeartbeatArmed, LeaderTimerOff, Armed, Timer, Timers, TimerExpires,
        members

\* A thread takes up the task of an expired timer.
LEMMA RunTaskInv ==
    ASSUME IInv, NEW t \in Timers, RunTask(t)
    PROVE  IInv'
<1>1. /\ timer' = [timer EXCEPT ![t].expired = @ - 1] /\ timer[t].expired > 0
      /\ entered' = IF timer[t].cancelled THEN entered
                    ELSE [entered EXCEPT ![t] = @ + 1]
      /\ UNCHANGED <<role, completed, hb_enabled, last, quick, committed,
                     current, bg, owner, leaving, join>>
    BY DEF RunTask, members
<1>2. entered' \in [Timers -> 0..Threads]
    <2>1. /\ entered["election_timeout"] \in 0..Threads
          /\ entered["hb_timeout"] \in 0..Threads
          /\ entered["election_timeout"] + entered["hb_timeout"] < Threads
        BY DEF IInv, TypeOK, RunTask, ThreadIdle, Timers
    <2>2. entered[t] + 1 \in 0..Threads
        BY <2>1, ThreadsAssumption DEF Timers
    <2>3. QED
        BY <1>1, <2>2 DEF IInv, TypeOK
<1>3. timer' \in [Timers -> Timer]
    BY <1>1 DEF IInv, TypeOK, Timer
<1>4. TypeOK'
    BY <1>1, <1>2, <1>3 DEF IInv, TypeOK
<1>5. QED
    BY <1>1, <1>2, <1>4 DEF IInv, TypeOK, ApplyInside, TimersSane,
        ElectionTimerArmed, HeartbeatArmed, LeaderTimerOff, Armed, Timer,
        Timers

\* The handler of a timer runs under lock_.
LEMMA HandleTimerInv ==
    ASSUME IInv, HandleTimer
    PROVE  IInv'
<1> USE ThreadsAssumption
<1>e. entered' \in [Timers -> 0..Threads]
    BY DEF IInv, TypeOK, Timers, HandleTimer, HandleElectionTimeout,
        HandleHbTimeout, Runs
<1>1. CASE HandleElectionTimeout
    <2>1. CASE role' = "exited"
        BY <1>1, <1>e, <2>1, RestartStep DEF IInv, TypeOK, ApplyInside,
            TimersSane, ElectionTimerArmed, HeartbeatArmed, LeaderTimerOff,
            Armed, Timers, HandleElectionTimeout
    <2>2. CASE role' # "exited"
        <3>1. RestartElectionTimer(timer)
            BY <1>1, <2>2 DEF HandleElectionTimeout
        <3>2. CASE join = "catching"
            <4>1. role' = role /\ timer' = timer /\ join' = "catching"
                BY <1>1, <2>2, <3>1, <3>2 DEF HandleElectionTimeout,
                    RestartElectionTimer, CatchingUp
            <4>2. QED
                BY <1>1, <1>e, <3>2, <4>1 DEF IInv, TypeOK, ApplyInside,
                    TimersSane, ElectionTimerArmed, HeartbeatArmed,
                    LeaderTimerOff, Armed, Timers, Runs, HandleElectionTimeout
        <3>3. CASE join # "catching"
            <4>1. /\ timer' \in [Timers -> Timer] /\ join' = "no"
                  /\ timer'["hb_timeout"] = timer["hb_timeout"]
                  /\ timer'["election_timeout"].waiting
                  /\ ~timer'["election_timeout"].cancelled
                BY <3>1, <3>3, RestartStep DEF IInv, TypeOK
            <4>2. role' = "candidate" \/ (role' = role /\ leaving' = TRUE)
                BY <1>1, <2>2, <3>3 DEF HandleElectionTimeout, CatchingUp,
                    IInv, TypeOK
            <4>3. QED
                BY <1>1, <1>e, <2>2, <3>3, <4>1, <4>2 DEF IInv, TypeOK,
                    ApplyInside, TimersSane, ElectionTimerArmed,
                    HeartbeatArmed, LeaderTimerOff, Armed, Timers, Runs,
                    HandleElectionTimeout
        <3>4. QED
            BY <3>2, <3>3
    <2>3. QED
        BY <2>1, <2>2
<1>2. CASE HandleHbTimeout
    BY <1>2, <1>e, TimerOps DEF IInv, TypeOK, ApplyInside, TimersSane,
        ElectionTimerArmed, HeartbeatArmed, LeaderTimerOff, Armed, Timers,
        Runs, HandleHbTimeout, HbRescheduled, members
<1>3. QED
    BY <1>1, <1>2 DEF HandleTimer

\* become_follower arms the election timer unless the server catches up.
LEMMA FollowerStep ==
    ASSUME IInv, BecomeFollower
    PROVE  /\ role' = "follower" /\ hb_enabled' = FALSE
           /\ timer' \in [Timers -> Timer]
           /\ join' \in {"no", "catching", "unarmed"}
           /\ \A t \in Timers : timer'[t].waiting => ~timer'[t].cancelled
           /\ join' = "no" => timer'["election_timeout"].waiting
<1> DEFINE tms == [timer EXCEPT !["hb_timeout"] = Cancelled(@)]
<1>1. /\ tms \in [Timers -> Timer] /\ ~tms["hb_timeout"].waiting
      /\ tms["election_timeout"] = timer["election_timeout"]
    BY TimerOps DEF IInv, TypeOK, Timers
<1>2. RestartElectionTimer(tms) /\ role' = "follower" /\ hb_enabled' = FALSE
    BY DEF BecomeFollower
<1> HIDE DEF tms
<1>3. QED
    BY <1>1, <1>2, RestartStep DEF IInv, TypeOK, TimersSane, Timers

\* A message is handled under lock_, whichever it is.
LEMMA HandleMessageInv ==
    ASSUME IInv, HandleMessage
    PROVE  IInv'
<1> USE ThreadsAssumption
<1>1. CASE HandleLaterTerm
    BY <1>1, FollowerStep DEF IInv, TypeOK, ApplyInside, TimersSane,
        ElectionTimerArmed, HeartbeatArmed, LeaderTimerOff, Armed, Timers,
        Receives, HandleLaterTerm
<1>2. CASE HandleVotingResp
    <2>1. CASE completed
        BY <1>2, <2>1 DEF IInv, TypeOK, ApplyInside, TimersSane,
            ElectionTimerArmed, HeartbeatArmed, LeaderTimerOff, Armed, Timers,
            Receives, HandleVotingResp, members
    <2>2. CASE ~completed
        <3> DEFINE et == timer["election_timeout"]
                   hb == timer["hb_timeout"]
        <3>t. et \in Timer /\ hb \in Timer
            BY DEF IInv, TypeOK, Timers
        <3>1. /\ role' = "leader" /\ hb_enabled' = TRUE /\ completed' = TRUE
              /\ timer' = [timer EXCEPT !["election_timeout"] = Cancelled(et),
                                        !["hb_timeout"] = Scheduled(hb)]
            BY <1>2, <2>2 DEF HandleVotingResp, BecomeLeader
        <3>2. QED
            BY <1>2, <3>t, <3>1, TimerOps DEF IInv, TypeOK, ApplyInside,
                TimersSane, ElectionTimerArmed, HeartbeatArmed, LeaderTimerOff,
                Armed, Timers, Receives, HandleVotingResp, members
    <2>3. QED
        BY <2>1, <2>2
<1>3. CASE HandleCliReq
    BY <1>3 DEF IInv, TypeOK, ApplyInside, TimersSane, ElectionTimerArmed,
        HeartbeatArmed, LeaderTimerOff, Armed, Timers, Receives, HandleCliReq,
        members
<1>4. CASE HandlePeerMsg
    <2>1. /\ last' \in 0..MaxLog /\ last' >= last
          /\ quick' \in 0..MaxLog
          /\ bg' = bg \/ (bg = "asleep" /\ bg' = "woken")
        BY <1>4, CommitStep DEF IInv, TypeOK, HandlePeerMsg
    <2>2. CASE role = "leader"
        BY <1>4, <2>1, <2>2 DEF IInv, TypeOK, ApplyInside, TimersSane,
            ElectionTimerArmed, HeartbeatArmed, LeaderTimerOff, Armed, Timers,
            Receives, HandlePeerMsg
    <2>3. CASE role = "follower"
        <3>1. RestartElectionTimer(timer) /\ UNCHANGED <<role, hb_enabled>>
            BY <1>4, <2>3 DEF HandlePeerMsg
        <3>2. QED
            BY <1>4, <2>1, <2>3, <3>1, RestartStep DEF IInv, TypeOK,
                ApplyInside, TimersSane, ElectionTimerArmed, HeartbeatArmed,
                LeaderTimerOff, Armed, Timers, Receives, HandlePeerMsg
    <2>4. CASE role = "candidate"
        <3>1. BecomeFollower
            BY <1>4, <2>4 DEF HandlePeerMsg
        <3>2. /\ role' = "follower" /\ hb_enabled' = FALSE
              /\ timer' \in [Timers -> Timer]
              /\ join' \in {"no", "catching", "unarmed"}
              /\ \A t \in Timers : timer'[t].waiting => ~timer'[t].cancelled
              /\ join' = "no" => timer'["election_timeout"].waiting
            BY <3>1, FollowerStep
        <3>3. UNCHANGED <<completed, committed, current, owner, leaving,
                          entered>>
            BY <1>4 DEF HandlePeerMsg, Receives
        <3>4. TypeOK'
            <4>1. /\ completed' \in BOOLEAN /\ hb_enabled' \in BOOLEAN
                  /\ leaving' \in BOOLEAN /\ entered' \in [Timers -> 0..Threads]
                BY <3>2, <3>3, Zenon DEF IInv, TypeOK
            <4>2. committed' \in 0..last' /\ current' \in 0..last'
                BY <2>1, <3>3 DEF IInv, TypeOK
            <4>3. /\ bg' \in {"test", "to_wait", "asleep", "woken", "apply",
                             "record", "stop", "done"}
                  /\ owner' \in {"none", "locked", "notifying", "waiting",
                                "told", "done"}
                BY <2>1, <3>3 DEF IInv, TypeOK
            <4>4. QED
                BY <2>1, <3>2, <4>1, <4>2, <4>3, Zenon DEF TypeOK
        <3>5. ApplyInside' /\ TimersSane'
            BY <2>1, <3>2, <3>3 DEF IInv, TypeOK, ApplyInside, TimersSane
        <3>6. ElectionTimerArmed' /\ HeartbeatArmed' /\ LeaderTimerOff'
            BY <3>2 DEF ElectionTimerArmed, HeartbeatArmed, LeaderTimerOff,
                Armed
        <3>7. QED
            BY <3>4, <3>5, <3>6 DEF IInv
    <2>5. QED
        BY <1>4, <2>2, <2>3, <2>4 DEF HandlePeerMsg
<1>5. CASE HandleJoinReq
    BY <1>5 DEF IInv, TypeOK, ApplyInside, TimersSane, ElectionTimerArmed,
        HeartbeatArmed, LeaderTimerOff, Armed, Timers, Receives, HandleJoinReq
<1>6. CASE HandleLeaveReq
    <2>1. leaving' = leaving \/ leaving' = TRUE
        BY <1>6, Zenon DEF HandleLeaveReq
    <2>t. leaving' \in BOOLEAN /\ (~leaving' => ~leaving)
        BY <2>1, Zenon DEF IInv, TypeOK
    <2>2. QED
        BY <1>6, <2>t DEF IInv, TypeOK, ApplyInside, TimersSane,
            ElectionTimerArmed, HeartbeatArmed, LeaderTimerOff, Armed, Timers,
            Receives, HandleLeaveReq
<1>7. QED
    BY <1>1, <1>2, <1>3, <1>4, <1>5, <1>6 DEF HandleMessage

\* The steps of the commit thread.
LEMMA CommitInBgInv ==
    ASSUME IInv, CommitInBg \/ WakeSpuriously
    PROVE  IInv'
    BY ThreadsAssumption
    DEF IInv, TypeOK, ApplyInside, TimersSane, ElectionTimerArmed,
        HeartbeatArmed, LeaderTimerOff, Armed, Timers, CommitInBg,
        WakeSpuriously, BgMove, BgTest, BgWait, BgWake, BgApply, BgRecord,
        BgReady, MoreThan, CatchingUp, members

\* The steps of the destructor.
LEMMA OwnerInv ==
    ASSUME IInv, OwnerLocks \/ Destroy
    PROVE  IInv'
    BY TimerOps
    DEF IInv, TypeOK, ApplyInside, TimersSane, ElectionTimerArmed,
        HeartbeatArmed, LeaderTimerOff, Armed, Timers, Destroy, OwnerMove,
        OwnerLocks, OwnerNotifies, OwnerWaits, OwnerLeaves, members

\* Every step preserves the invariant.
LEMMA NextInv == IInv /\ [Next]_vars => IInv'
<1> SUFFICES ASSUME IInv, [Next]_vars PROVE IInv'
    OBVIOUS
<1>1. CASE Next
    BY <1>1, ExpireInv, RunTaskInv, HandleTimerInv, HandleMessageInv,
       CommitInBgInv, OwnerInv DEF Next
<1>2. CASE UNCHANGED vars
    BY <1>2 DEF vars, IInv, TypeOK, ApplyInside, TimersSane,
        ElectionTimerArmed, HeartbeatArmed, LeaderTimerOff, Armed
<1>3. QED
    BY <1>1, <1>2

-----------------------------------------------------------------------------
\* IInv is an invariant of the specification.
LEMMA InvariantHolds == Spec => []IInv
    BY InitInv, NextInv, PTL DEF Spec

\* However many threads run timer tasks and handlers, in every order of
\* expiry, cancel and schedule: a follower or candidate has its election timer,
\* unless it was asked to join and no restart took effect since.
THEOREM ElectionTimerNeverLost == Spec => []ElectionTimerArmed
<1>1. IInv => ElectionTimerArmed
    BY DEF IInv
<1>2. QED
    BY InvariantHolds, <1>1, PTL

\* A leader has a heartbeat coming, for every number of threads.
THEOREM HeartbeatNeverLost == Spec => []HeartbeatArmed
<1>1. IInv => HeartbeatArmed
    BY DEF IInv
<1>2. QED
    BY InvariantHolds, <1>1, PTL

\* become_leader leaves no election timer behind, and nothing starts one while
\* the server leads.
THEOREM LeaderHasNoElectionTimer == Spec => []LeaderTimerOff
<1>1. IInv => LeaderTimerOff
    BY DEF IInv
<1>2. QED
    BY InvariantHolds, <1>1, PTL

\* Every reachable state is well-typed: the commit thread, which reads the
\* indexes without lock_, never applies past the end of the log.
THEOREM ThreadsTypeCorrect == Spec => []TypeOK
<1>1. IInv => TypeOK
    BY DEF IInv
<1>2. QED
    BY InvariantHolds, <1>1, PTL
=============================================================================
