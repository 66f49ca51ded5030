------------------------- MODULE RaftElectionProofs -------------------------
(***************************************************************************)
(* Election safety of RaftServer, as far as the code has it, for every     *)
(* cluster and every value of the bounds: the elections that count no vote *)
(* of an older term elect one server per term.                             *)
(***************************************************************************)
EXTENDS RaftServerProofs

\* m carries the vote of j that c asked for in term t: the request, or the
\* response that grants it.
IsBallot(m, j, c, t) ==
    /\ m.term = t
    /\ \/ m.type = "vote_req" /\ m.src = c /\ m.dst = j
       \/ m.type = "vote_resp" /\ m.accepted /\ m.src = j /\ m.dst = c

\* No two messages of ms carry one vote.
OnceIn(ms) ==
    \A a, b \in ms : \A j, c \in Server, t \in Nat :
        IsBallot(a, j, c, t) /\ IsBallot(b, j, c, t) => a = b

\* Every vote that some message of ms carries was carried by one of old.
NoNewBallots(ms, old) ==
    \A n \in ms : \A j, c \in Server, t \in Nat :
        IsBallot(n, j, c, t) => \E m \in old : IsBallot(m, j, c, t)

\* A granted vote was given; a ballot under way is not of a later term than
\* the candidate's, and is under way once.
BallotsSane ==
    /\ OnceIn(net)
    /\ \A m \in net : \A j, c \in Server, t \in Nat :
           IsBallot(m, j, c, t) => t <= state[c].term
    /\ \A m \in net : m.type = "vote_resp" /\ m.accepted =>
                          <<m.src, m.term, m.dst>> \in votes

Voters(c, t) == {j \in Server : <<j, t, c>> \in votes}
\* The servers whose vote for c in its term is no longer under way.
Arrived(c) ==
    {j \in Voters(c, state[c].term) :
        \A m \in net : ~IsBallot(m, j, c, state[c].term)}

\* votes_granted_ counts no vote twice and none that was not given, unless
\* one of an older term was counted.
TallySane ==
    \A c \in Server : c \notin stale =>
        election[c].granted <= Cardinality(Arrived(c))

ElectedByMajority ==
    \A e \in elected : e.clean =>
        IsMajority(Cardinality(Voters(e.srv, e.term)))

EInv == BallotsSane /\ TallySane /\ ElectedByMajority

-----------------------------------------------------------------------------
(* What sending and abandoning do to the ballots. *)

\* The votes of the cluster are finite in number.
LEMMA VotersFinite ==
    ASSUME NEW S \in SUBSET Server
    PROVE  IsFiniteSet(S) /\ Cardinality(S) \in Nat
BY ServerAssumption, FS_Subset, FS_CardinalityType

\* Giving up on a request leaves its ballot what it is.
LEMMA OrphanBallot ==
    ASSUME NEW m \in Messages, IsReq(m),
           NEW j, NEW c, NEW t
    PROVE  /\ IsBallot([m EXCEPT !.live = FALSE], j, c, t) <=> IsBallot(m, j, c, t)
           /\ [m EXCEPT !.live = FALSE].type = m.type
           /\ [m EXCEPT !.live = FALSE].src = m.src
           /\ [m EXCEPT !.live = FALSE].type # "vote_resp"
<1>1. CASE m.type = "vote_req"
    <2>1. m \in VoteReqs
        BY <1>1, MessageKinds
    <2>2. QED
        BY <1>1, <2>1 DEF VoteReqs, IsBallot
<1>2. CASE m.type = "append_req"
    <2>1. m \in AppendReqs
        BY <1>2, MessageKinds
    <2>2. QED
        BY <1>2, <2>1 DEF AppendReqs, IsBallot
<1>3. QED
    BY <1>1, <1>2 DEF IsReq

\* The end of a process loses ballots and makes none.
LEMMA AbandonBallots ==
    ASSUME NEW i, NEW ms \in SUBSET Messages, OnceIn(ms)
    PROVE  /\ OnceIn(Abandon(i, ms))
           /\ NoNewBallots(Abandon(i, ms), ms)
           /\ \A n \in Abandon(i, ms) : n.type = "vote_resp" => n \in ms
<1> DEFINE Orphan(m) == [m EXCEPT !.live = FALSE]
           gone == {r \in ms : IsReq(r) /\ r.src = i}
           left == {m \in ms : IF IsReq(m) THEN m.src # i ELSE m.dst # i}
<1>1. Abandon(i, ms) = left \cup {Orphan(m) : m \in gone}
    BY DEF Abandon
<1>2. ASSUME NEW m \in gone, NEW j, NEW c, NEW t
      PROVE  /\ IsBallot(Orphan(m), j, c, t) <=> IsBallot(m, j, c, t)
             /\ Orphan(m).type = m.type /\ Orphan(m).src = i
             /\ Orphan(m).type # "vote_resp"
    BY OrphanBallot
<1> HIDE DEF Orphan
<1>3. ASSUME NEW n \in Abandon(i, ms), NEW j, NEW c, NEW t, IsBallot(n, j, c, t)
      PROVE  \E m \in ms : /\ IsBallot(m, j, c, t)
                           /\ n = IF IsReq(m) /\ m.src = i THEN Orphan(m) ELSE m
    BY <1>1, <1>2, <1>3
<1>4. OnceIn(Abandon(i, ms))
    <2> SUFFICES ASSUME NEW a \in Abandon(i, ms), NEW b \in Abandon(i, ms),
                        NEW j \in Server, NEW c \in Server, NEW t \in Nat,
                        IsBallot(a, j, c, t), IsBallot(b, j, c, t)
                 PROVE  a = b
        BY DEF OnceIn
    <2>1. PICK m \in ms : /\ IsBallot(m, j, c, t)
                          /\ a = IF IsReq(m) /\ m.src = i THEN Orphan(m) ELSE m
        BY <1>3
    <2>2. PICK n \in ms : /\ IsBallot(n, j, c, t)
                          /\ b = IF IsReq(n) /\ n.src = i THEN Orphan(n) ELSE n
        BY <1>3
    <2>3. m = n
        BY <2>1, <2>2 DEF OnceIn
    <2>4. QED
        BY <2>1, <2>2, <2>3
<1>5. NoNewBallots(Abandon(i, ms), ms)
    BY <1>3 DEF NoNewBallots
<1>6. \A n \in Abandon(i, ms) : n.type = "vote_resp" => n \in ms
    BY <1>1, <1>2
<1>7. QED
    BY <1>4, <1>5, <1>6

\* request_append_entries sends no ballots, and may end the process.
LEMMA RequestBallots ==
    ASSUME TypeOK, NEW i \in Server, NEW dests \in SUBSET Server,
           NEW r, NEW term \in Nat, NEW lg \in Seq(LogEntry),
           NEW ci \in Nat, NEW ps \in [Server -> Peer],
           NEW ms \in SUBSET Messages, OnceIn(ms),
           RequestAppendEntries(i, dests, r, term, lg, ci, ps, ms)
    PROVE  /\ OnceIn(net') /\ NoNewBallots(net', ms)
           /\ \A n \in net' : n.type = "vote_resp" => n \in ms
<1> DEFINE free == {j \in dests : ~ps[j].busy}
           bad == {j \in free : TooLarge(ps[j], lg)}
           Req(j) == AppendReq(i, j, term, lg, ps[j], ci)
<1>1. PICK sent \in SUBSET (free \ bad) :
          LET all == ms \cup {Req(j) : j \in sent}
          IN  net' = all \/ net' = Abandon(i, all)
    <2>1. CASE bad = {}
        <3>1. net' = ms \cup {Req(j) : j \in free}
            BY <2>1 DEF RequestAppendEntries
        <3>2. free \in SUBSET (free \ bad)
            BY <2>1
        <3>3. QED
            BY <3>1, <3>2
    <2>2. CASE bad # {}
        <3>1. \E sent \in SUBSET (free \ bad) :
                 net' = Abandon(i, ms \cup {Req(j) : j \in sent})
            BY <2>2 DEF RequestAppendEntries
        <3>2. QED
            BY <3>1
    <2>3. QED
        BY <2>1, <2>2
<1> DEFINE all == ms \cup {Req(j) : j \in sent}
<1>2. \A j \in sent : Req(j) \in Messages /\ Req(j).type = "append_req"
    BY AppendReqType DEF AppendReq
<1> HIDE DEF Req
<1>3. all \in SUBSET Messages
    BY <1>2
<1>4. \A n \in all : n \in ms \/ n.type = "append_req"
    BY <1>2
<1> HIDE DEF all
<1>5. OnceIn(all) /\ NoNewBallots(all, ms)
      /\ \A n \in all : n.type = "vote_resp" => n \in ms
    BY <1>4 DEF OnceIn, NoNewBallots, IsBallot
<1>6. CASE net' = all
    BY <1>5, <1>6
<1>7. CASE net' = Abandon(i, all)
    BY <1>3, <1>5, <1>7, AbandonBallots DEF NoNewBallots
<1>8. QED
    BY <1>1, <1>6, <1>7 DEF all

\* So does become_leader.
LEMMA BecomeLeaderBallots ==
    ASSUME TypeOK, NEW i \in Server, NEW term \in Nat,
           NEW ms \in SUBSET Messages, OnceIn(ms), BecomeLeader(i, term, ms)
    PROVE  /\ OnceIn(net') /\ NoNewBallots(net', ms)
           /\ \A n \in net' : n.type = "vote_resp" => n \in ms
<1>1. PICK lg \in Seq(LogEntry), ps \in [Server -> Peer] :
          RequestAppendEntries(i, Peers(i), "leader", term, lg,
                               quick_commit[i], ps, ms)
    BY BecomeLeaderSends
<1>2. quick_commit[i] \in Nat /\ Peers(i) \in SUBSET Server
    BY DEF TypeOK, Peers
<1>3. QED
    BY <1>1, <1>2, RequestBallots

-----------------------------------------------------------------------------
(* What a step must not do to the votes counted and under way. *)

\* Votes given are never taken back, so a counted vote stays counted.
LEMMA TallyKept ==
    ASSUME TypeOK, TypeOK', TallySane, votes \subseteq votes',
           NoNewBallots(net', net),
           NEW c \in Server,
           \/ c \in stale'
           \/ election'[c].granted = 0
           \/ /\ state'[c].term = state[c].term
              /\ election'[c].granted = election[c].granted
              /\ c \notin stale
    PROVE  c \notin stale' =>
               election'[c].granted <= Cardinality(Arrived(c))'
<1>1. Arrived(c)' \in SUBSET Server /\ Arrived(c) \in SUBSET Server
    BY DEF Arrived, Voters
<1>2. Cardinality(Arrived(c)') \in Nat /\ IsFiniteSet(Arrived(c)')
    BY <1>1, VotersFinite
<1>3. CASE election'[c].granted = 0
    BY <1>2, <1>3
<1>4. CASE /\ state'[c].term = state[c].term
           /\ election'[c].granted = election[c].granted
           /\ c \notin stale
    <2>1. PICK t \in Nat : t = state[c].term
        BY DEF TypeOK, SrvState
    <2>2. Voters(c, t) \subseteq Voters(c, t)'
        BY DEF Voters
    <2>3. Arrived(c) = {j \in Voters(c, t) : \A m \in net : ~IsBallot(m, j, c, t)}
        BY <2>1 DEF Arrived
    <2>4. Arrived(c)' =
              {j \in Voters(c, t)' : \A m \in net' : ~IsBallot(m, j, c, t)}
        BY <1>4, <2>1 DEF Arrived, Voters
    <2>5. \A j \in Server : (\E n \in net' : IsBallot(n, j, c, t))
                               => \E m \in net : IsBallot(m, j, c, t)
        BY <2>1 DEF NoNewBallots
    <2>6. Arrived(c) \subseteq Arrived(c)'
        BY <1>1, <2>2, <2>3, <2>4, <2>5
    <2>7. Cardinality(Arrived(c)) <= Cardinality(Arrived(c)')
        BY <1>2, <2>6, FS_Subset
    <2>8. election[c].granted <= Cardinality(Arrived(c))
        BY <1>4 DEF TallySane
    <2>9. election[c].granted \in Nat /\ Cardinality(Arrived(c)) \in Nat
        BY <1>1, VotersFinite DEF TypeOK, Election
    <2>10. QED
        BY <1>2, <1>4, <2>7, <2>8, <2>9
<1>5. QED
    BY <1>3, <1>4

\* A step that makes no ballot, and whose granting responses are for votes
\* given, keeps the ballots sane as long as no term falls.
LEMMA BallotsKept ==
    ASSUME TypeOK, TypeOK', BallotsSane, votes \subseteq votes',
           OnceIn(net'), NoNewBallots(net', net),
           \A n \in net' : n.type = "vote_resp" /\ n.accepted =>
               n \in net \/ <<n.src, n.term, n.dst>> \in votes',
           \A c \in Server : state[c].term <= state'[c].term
    PROVE  BallotsSane'
<1>1. \A c \in Server : state[c].term \in Nat /\ state'[c].term \in Nat
    BY DEF TypeOK, SrvState
<1>2. \A m \in net' : \A j, c \in Server, t \in Nat :
          IsBallot(m, j, c, t) => t <= state'[c].term
    <2> SUFFICES ASSUME NEW n \in net', NEW j \in Server, NEW c \in Server,
                        NEW t \in Nat, IsBallot(n, j, c, t)
                 PROVE  t <= state'[c].term
        OBVIOUS
    <2>1. PICK m \in net : IsBallot(m, j, c, t)
        BY DEF NoNewBallots
    <2>2. t <= state[c].term
        BY <2>1 DEF BallotsSane
    <2>3. QED
        BY <1>1, <2>2
<1>3. \A n \in net' : n.type = "vote_resp" /\ n.accepted =>
          <<n.src, n.term, n.dst>> \in votes'
    BY DEF BallotsSane
<1>4. QED
    BY <1>2, <1>3 DEF BallotsSane

\* More votes do not undo a majority.
LEMMA MajorityKept ==
    ASSUME NEW A \in SUBSET Server, NEW B \in SUBSET Server, A \subseteq B,
           IsMajority(Cardinality(A))
    PROVE  IsMajority(Cardinality(B))
<1>1. /\ IsFiniteSet(B) /\ Cardinality(A) \in Nat /\ Cardinality(B) \in Nat
      /\ ClusterSize \in Nat
    BY VotersFinite, ServerAssumption, FS_CardinalityType DEF ClusterSize
<1>2. Cardinality(A) <= Cardinality(B)
    BY <1>1, FS_Subset
<1>3. QED
    BY <1>1, <1>2 DEF IsMajority

\* An election won stays won by a majority.
LEMMA ElectedKept ==
    ASSUME ElectedByMajority, votes \subseteq votes', NEW e \in elected, e.clean
    PROVE  IsMajority(Cardinality(Voters(e.srv, e.term)'))
<1>1. IsMajority(Cardinality(Voters(e.srv, e.term)))
    BY DEF ElectedByMajority
<1>2. /\ Voters(e.srv, e.term) \in SUBSET Server
      /\ Voters(e.srv, e.term)' \in SUBSET Server
      /\ Voters(e.srv, e.term) \subseteq Voters(e.srv, e.term)'
    BY DEF Voters
<1>3. QED
    BY <1>1, <1>2, MajorityKept

\* What most steps do to elections: nothing but lose, move or answer ballots
\* and abandon a tally.
LEMMA NobodyWins ==
    ASSUME TypeOK, TypeOK', EInv, votes \subseteq votes', elected' = elected,
           OnceIn(net'), NoNewBallots(net', net),
           \A n \in net' : n.type = "vote_resp" /\ n.accepted =>
               n \in net \/ <<n.src, n.term, n.dst>> \in votes',
           \A c \in Server : state[c].term <= state'[c].term,
           \A c \in Server :
               \/ c \in stale'
               \/ election'[c].granted = 0
               \/ /\ state'[c].term = state[c].term
                  /\ election'[c].granted = election[c].granted
                  /\ c \notin stale
    PROVE  EInv'
<1>1. BallotsSane'
    BY BallotsKept DEF EInv
<1>2. TallySane'
    BY TallyKept DEF EInv, TallySane
<1>3. ElectedByMajority'
    BY ElectedKept DEF EInv, ElectedByMajority
<1>4. QED
    BY <1>1, <1>2, <1>3 DEF EInv

\* A step that leaves the tallies and the votes alone.
LEMMA Bystander ==
    ASSUME TypeOK, TypeOK', EInv, UNCHANGED <<votes, elected, election, stale>>,
           \A c \in Server : state'[c].term = state[c].term,
           OnceIn(net'), NoNewBallots(net', net),
           \A n \in net' : n.type = "vote_resp" => n \in net
    PROVE  EInv'
<1>1. \A c \in Server : state[c].term <= state'[c].term
    BY DEF TypeOK, SrvState
<1>2. QED
    BY <1>1, NobodyWins

\* A subset of the messages under way holds no new ballot.
LEMMA FewerBallots ==
    ASSUME NEW ms, NEW old, ms \subseteq old, OnceIn(old)
    PROVE  OnceIn(ms) /\ NoNewBallots(ms, old)
BY DEF OnceIn, NoNewBallots

\* Ballots of a part are ballots of the whole.
LEMMA BallotsWithin ==
    ASSUME NEW a, NEW b, NEW c, NoNewBallots(a, b), b \subseteq c
    PROVE  NoNewBallots(a, c)
BY DEF NoNewBallots

\* update_term drops the tally with the term it belongs to.
LEMMA TermUpdateTally ==
    ASSUME TypeOK, TypeOK', NEW i \in Server, NEW term \in Nat,
           \A c \in Server : state'[c].term =
               IF c = i THEN StateAt(i, term).term ELSE state[c].term,
           election' = [election EXCEPT ![i] = ElectionAt(i, term)],
           stale' = StaleAt(i, term)
    PROVE  /\ \A c \in Server : state[c].term <= state'[c].term
           /\ \A c \in Server :
                  \/ c \in stale'
                  \/ election'[c].granted = 0
                  \/ /\ state'[c].term = state[c].term
                     /\ election'[c].granted = election[c].granted
                     /\ c \notin stale
<1>1. state[i] \in SrvState /\ \A c \in Server : state[c].term \in Nat
    BY DEF TypeOK, SrvState
<1>2. \A c \in Server : election'[c] = IF c = i THEN ElectionAt(i, term)
                                               ELSE election[c]
    BY DEF TypeOK
<1>3. CASE Later(i, term)
    <2>1. StateAt(i, term).term = term /\ state[i].term <= term
        BY <1>1, <1>3 DEF StateAt, SrvState, Later
    <2>2. ElectionAt(i, term).granted = 0
        BY <1>3 DEF ElectionAt, NoVotes
    <2>3. stale' = stale \ {i}
        BY <1>3 DEF StaleAt
    <2>4. QED
        BY <1>1, <1>2, <2>1, <2>2, <2>3
<1>4. CASE ~Later(i, term)
    <2>1. StateAt(i, term).term = state[i].term
        BY <1>4 DEF StateAt
    <2>2. ElectionAt(i, term) = election[i]
        BY <1>4 DEF ElectionAt
    <2>3. stale' = stale
        BY <1>4 DEF StaleAt
    <2>4. QED
        BY <1>1, <1>2, <2>1, <2>2, <2>3
<1>5. QED
    BY <1>3, <1>4

-----------------------------------------------------------------------------
(* Every action keeps EInv. *)

\* handle_append_entries and handle_peer_resp count and give no vote.
LEMMA TermUpdateElections ==
    ASSUME TypeOK, TypeOK', EInv, NEW m \in net,
           \/ AcceptAppendEntries(m)
           \/ RefuseAppendEntries(m)
           \/ HandleLaterResp(m)
    PROVE  EInv'
<1> DEFINE i == m.dst
<1>1. i \in Server /\ m.term \in Nat /\ m \in Messages
    BY MessageKinds DEF TypeOK
<1>2. /\ votes' = votes /\ elected' = elected
      /\ state' = [state EXCEPT ![i] = StateAt(i, m.term)]
      /\ election' = [election EXCEPT ![i] = ElectionAt(i, m.term)]
      /\ stale' = StaleAt(i, m.term)
    BY DEF AcceptAppendEntries, RefuseAppendEntries, HandleLaterResp,
       FollowSender
<1>3. \A c \in Server : state'[c].term =
          IF c = i THEN StateAt(i, m.term).term ELSE state[c].term
    BY <1>2 DEF TypeOK
<1>4. \A n \in net' : n \in net \/ n.type = "append_resp"
    BY DEF AcceptAppendEntries, RefuseAppendEntries, HandleLaterResp,
       Answered, AppendResp
<1>5. /\ OnceIn(net') /\ NoNewBallots(net', net)
      /\ \A n \in net' : n.type = "vote_resp" => n \in net
    BY <1>4 DEF EInv, BallotsSane, OnceIn, NoNewBallots, IsBallot
<1> HIDE DEF i
<1>6. QED
    BY <1>1, <1>2, <1>3, <1>5, TermUpdateTally, NobodyWins

\* handle_vote_req turns the request into the response that carries its
\* vote, or drops it.
LEMMA VoteReqElections ==
    ASSUME TypeOK, TypeOK', EInv, NEW m \in net, HandleVoteReq(m)
    PROVE  EInv'
<1> DEFINE i == m.dst
           st == StateAt(i, m.term)
           grant == Grants(m, st, log[i])
           voted == [st EXCEPT !.voted_for = m.src]
           resp == VoteResp(m, st.term, grant)
<1>1. /\ i \in Server /\ m.src \in Server /\ m.term \in Nat
      /\ m \in Messages /\ m.type = "vote_req"
    BY MessageKinds DEF TypeOK, HandleVoteReq
<1>2. st \in SrvState
    BY <1>1, UpdateTermType
<1>3. /\ elected' = elected
      /\ state' = [state EXCEPT ![i] = IF grant THEN voted ELSE st]
      /\ election' = [election EXCEPT ![i] = ElectionAt(i, m.term)]
      /\ stale' = StaleAt(i, m.term)
      /\ votes' = IF grant THEN votes \cup {<<i, m.term, m.src>>} ELSE votes
      /\ net' = Answered(m, resp)
    BY DEF HandleVoteReq
<1>4. voted.term = st.term /\ (grant => st.term = m.term)
    BY <1>2 DEF SrvState, Grants
<1>5. \A c \in Server : state'[c].term = IF c = i THEN st.term ELSE state[c].term
    <2> HIDE DEF st, grant, voted
    <2>1. \A c \in Server : state'[c] =
              IF c = i THEN (IF grant THEN voted ELSE st) ELSE state[c]
        BY <1>1, <1>3 DEF TypeOK
    <2>2. QED
        BY <1>4, <2>1
<1>6. /\ resp.type = "vote_resp" /\ resp.accepted = grant
      /\ resp.term = st.term /\ resp.src = i /\ resp.dst = m.src
    BY DEF VoteResp
<1>7. \A n \in net' : n = resp \/ (n \in net /\ n # m)
    BY <1>3 DEF Answered
<1>8. votes \subseteq votes' /\ (grant => <<i, m.term, m.src>> \in votes')
    BY <1>3
<1> HIDE DEF i, st, grant, voted, resp
<1>9. \A j, c, t : IsBallot(resp, j, c, t) => IsBallot(m, j, c, t)
    BY <1>1, <1>4, <1>6 DEF IsBallot, i
<1>10. NoNewBallots(net', net)
    BY <1>7, <1>9 DEF NoNewBallots
<1>11. OnceIn(net')
    <2> SUFFICES ASSUME NEW a \in net', NEW b \in net',
                        NEW j \in Server, NEW c \in Server, NEW t \in Nat,
                        IsBallot(a, j, c, t), IsBallot(b, j, c, t)
                 PROVE  a = b
        BY DEF OnceIn
    <2>1. \A x, y \in net : IsBallot(x, j, c, t) /\ IsBallot(y, j, c, t) => x = y
        BY DEF EInv, BallotsSane, OnceIn
    <2>2. QED
        BY <1>7, <1>9, <2>1
<1>12. \A n \in net' : n.type = "vote_resp" /\ n.accepted =>
           n \in net \/ <<n.src, n.term, n.dst>> \in votes'
    BY <1>4, <1>6, <1>7, <1>8
<1>13. \A c \in Server : state'[c].term =
           IF c = i THEN StateAt(i, m.term).term ELSE state[c].term
    BY <1>5 DEF st
<1>14. QED
    BY <1>1, <1>3, <1>8, <1>10, <1>11, <1>12, <1>13, TermUpdateTally, NobodyWins

\* Steps that send or drop append requests and responses, and RPC errors,
\* make no ballot.
LEMMA SendingElections ==
    ASSUME TypeOK, TypeOK', EInv,
           \/ \E i, j \in Server : HandleHbTimeout(i, j)
           \/ \E i \in Server, val \in Value : HandleCliReq(i, val)
           \/ \E m \in net : HandleAppendAccepted(m) \/ HandleAppendRefused(m)
    PROVE  EInv'
<1> DEFINE Sends ==
           \E i \in Server, dests \in SUBSET Server, r \in Roles, term \in Nat,
              lg \in Seq(LogEntry), ci \in Nat, ps \in [Server -> Peer],
              ms \in SUBSET net :
                  RequestAppendEntries(i, dests, r, term, lg, ci, ps, ms)
<1>1. Sends
    <2>0. \A i \in Server :
              /\ role[i] \in Roles /\ state[i].term \in Nat
              /\ log[i] \in Seq(LogEntry) /\ quick_commit[i] \in Nat
              /\ peers[i] \in [Server -> Peer]
        BY DEF TypeOK, SrvState
    <2>1. ASSUME NEW i \in Server, NEW j \in Server, HandleHbTimeout(i, j)
          PROVE  Sends
        BY <2>0, <2>1 DEF HandleHbTimeout, Roles
    <2>2. ASSUME NEW i \in Server, NEW val \in Value, HandleCliReq(i, val)
          PROVE  Sends
        <3> DEFINE entry == [term |-> 0, type |-> "app_log", val |-> val]
                   lg == Append(log[i], entry)
        <3>1. RequestAppendEntries(i, Peers(i), "leader", state[i].term, lg,
                                   quick_commit[i], peers[i], net)
            BY <2>2 DEF HandleCliReq
        <3>2. entry \in LogEntry
            BY DEF LogEntry
        <3> HIDE DEF entry
        <3>3. lg \in Seq(LogEntry) /\ Peers(i) \in SUBSET Server
            BY <2>0, <3>2 DEF Peers
        <3> HIDE DEF lg
        <3>4. "leader" \in Roles
            BY DEF Roles
        <3>5. QED
            BY <2>0, <3>1, <3>3, <3>4
    <2>3. ASSUME NEW m \in net, HandleAppendAccepted(m) \/ HandleAppendRefused(m)
          PROVE  Sends
        <3>1. m.dst \in Server
            BY MessageKinds DEF TypeOK
        <3>2. \E dests \in SUBSET Server, ps \in [Server -> Peer], ci \in Nat :
                  RequestAppendEntries(m.dst, dests, role[m.dst],
                         state[m.dst].term, log[m.dst], ci, ps, net \ {m})
            BY <2>3, AppendAcceptedSends, AppendRefusedSends
        <3>3. QED
            BY <2>0, <3>1, <3>2
    <2>4. QED
        BY <2>1, <2>2, <2>3
<1>2. PICK i \in Server, dests \in SUBSET Server, r \in Roles, term \in Nat,
          lg \in Seq(LogEntry), ci \in Nat, ps \in [Server -> Peer],
          ms \in SUBSET net :
             RequestAppendEntries(i, dests, r, term, lg, ci, ps, ms)
    BY <1>1
<1>3. OnceIn(ms) /\ ms \in SUBSET Messages
    BY FewerBallots DEF EInv, BallotsSane, TypeOK
<1>4. /\ OnceIn(net') /\ NoNewBallots(net', ms)
      /\ \A n \in net' : n.type = "vote_resp" => n \in ms
    BY <1>2, <1>3, RequestBallots
<1>5. NoNewBallots(net', net)
    BY <1>4, BallotsWithin
<1>6. UNCHANGED <<state, votes, elected, election, stale>>
    BY DEF HandleHbTimeout, HandleCliReq, HandleAppendAccepted,
       HandleAppendRefused
<1>7. QED
    BY <1>4, <1>5, <1>6, Bystander

\* RPC errors and losses, busy flags and exits lose ballots at most.
LEMMA LosingElections ==
    ASSUME TypeOK, TypeOK', EInv, NEW m \in net,
           \/ MeetRivalLeader(m) \/ SetFree(m)
           \/ RpcError(m) \/ LoseRequest(m)
    PROVE  EInv'
<1>0. /\ OnceIn(net) /\ OnceIn(net \ {m})
      /\ NoNewBallots(net \ {m}, net)
      /\ m \in Messages /\ net \ {m} \in SUBSET Messages
    BY FewerBallots DEF EInv, BallotsSane, TypeOK
<1>1. UNCHANGED <<state, votes, elected, election, stale>>
    BY DEF MeetRivalLeader, SetFree, RpcError, LoseRequest
<1>2. CASE net' = net \ {m}
    BY <1>0, <1>1, <1>2, Bystander
<1>3. CASE MeetRivalLeader(m)
    <2>1. net' = Abandon(m.dst, net \ {m})
        BY <1>3 DEF MeetRivalLeader
    <2>2. /\ OnceIn(net') /\ NoNewBallots(net', net \ {m})
          /\ \A n \in net' : n.type = "vote_resp" => n \in net \ {m}
        BY <1>0, <2>1, AbandonBallots
    <2>3. NoNewBallots(net', net)
        BY <2>2, BallotsWithin
    <2>4. QED
        BY <1>1, <2>2, <2>3, Bystander
<1>4. CASE SetFree(m)
    <2>1. PICK k \in 1..MaxQueued : net' = (net \ {m}) \cup {[m EXCEPT !.queued = k]}
        BY <1>4 DEF SetFree
    <2>2. [m EXCEPT !.queued = k].type = "append_resp"
        <3>1. m \in AppendResps
            BY <1>0, <1>4, MessageKinds DEF SetFree
        <3>2. QED
            BY <3>1 DEF AppendResps
    <2>3. \A n \in net' : n \in net \/ n.type = "append_resp"
        BY <2>1, <2>2
    <2>4. /\ OnceIn(net') /\ NoNewBallots(net', net)
          /\ \A n \in net' : n.type = "vote_resp" => n \in net
        BY <1>0, <2>3 DEF OnceIn, NoNewBallots, IsBallot
    <2>5. QED
        BY <1>1, <2>4, Bystander
<1>5. CASE IsReq(m) /\ net' = (net \ {m}) \cup {[m EXCEPT !.live = FALSE]}
    <2> DEFINE o == [m EXCEPT !.live = FALSE]
    <2>1. /\ \A j, c, t : IsBallot(o, j, c, t) <=> IsBallot(m, j, c, t)
          /\ o.type # "vote_resp"
        BY <1>0, <1>5, OrphanBallot
    <2>2. net' = (net \ {m}) \cup {o}
        BY <1>5
    <2> HIDE DEF o
    <2>3. OnceIn(net') /\ NoNewBallots(net', net)
        BY <1>0, <2>1, <2>2 DEF OnceIn, NoNewBallots
    <2>4. QED
        BY <1>1, <2>1, <2>2, <2>3, Bystander
<1>6. QED
    BY <1>2, <1>3, <1>4, <1>5 DEF RpcError, LoseRequest

\* The commit thread has no part in elections.
LEMMA CommitElections ==
    ASSUME TypeOK, TypeOK', EInv, NEW i \in Server, CommitInBg(i)
    PROVE  EInv'
<1>1. UNCHANGED <<votes, elected, election, stale, net>>
    BY DEF CommitInBg, CommitEntry, SaveCommitted, FinishSave
<1>2. \A c \in Server : state'[c].term = state[c].term
    <2>1. CASE CommitEntry(i)
        <3> DEFINE st == [state[i] EXCEPT !.commit_idx = state[i].commit_idx + 1]
        <3>1. state' = [state EXCEPT ![i] = st]
            BY <2>1 DEF CommitEntry
        <3>2. st.term = state[i].term
            BY DEF TypeOK, SrvState
        <3> HIDE DEF st
        <3>3. QED
            BY <3>1, <3>2 DEF TypeOK
    <2>2. CASE SaveCommitted(i) \/ FinishSave(i)
        BY <2>2 DEF SaveCommitted, FinishSave
    <2>3. QED
        BY <2>1, <2>2 DEF CommitInBg
<1>3. OnceIn(net') /\ NoNewBallots(net', net)
    BY <1>1, FewerBallots DEF EInv, BallotsSane
<1>4. QED
    BY <1>1, <1>2, <1>3, Bystander

\* A restarted server is still in the term it left, and has no tally.
LEMMA RestartElections ==
    ASSUME TypeOK, TypeOK', VotesAreRemembered, EInv,
           NEW i \in Server, Restart(i)
    PROVE  EInv'
<1> DEFINE e == [granted |-> 0, responded |-> 0, completed |-> TRUE]
<1>1. /\ state' = [state EXCEPT ![i] = saved[i]]
      /\ election' = [election EXCEPT ![i] = e]
      /\ stale' = stale \ {i} /\ net' = Abandon(i, net)
      /\ UNCHANGED <<votes, elected>>
    BY DEF Restart, Restored
<1>2. e.granted = 0
    OBVIOUS
<1> HIDE DEF e
<1>3. \A c \in Server : election'[c] = IF c = i THEN e ELSE election[c]
    BY <1>1 DEF TypeOK
<1>4. \A c \in Server : state'[c].term = state[c].term /\ state[c].term \in Nat
    BY <1>1 DEF TypeOK, VotesAreRemembered, SrvState
<1>5. /\ OnceIn(net') /\ NoNewBallots(net', net)
      /\ \A n \in net' : n.type = "vote_resp" => n \in net
    BY <1>1, AbandonBallots DEF EInv, BallotsSane, TypeOK
<1>6. \A c \in Server : state[c].term <= state'[c].term
    BY <1>4
<1>7. QED
    BY <1>1, <1>2, <1>3, <1>4, <1>5, <1>6, NobodyWins

\* A tally of votes that were given is a majority only if a majority gave
\* them.
LEMMA CleanWinner ==
    ASSUME NEW V \in SUBSET Server, NEW A \in SUBSET V, NEW g \in Nat,
           g <= Cardinality(A), IsMajority(g)
    PROVE  IsMajority(Cardinality(V))
<1>1. Cardinality(A) \in Nat /\ ClusterSize \in Nat
    BY VotersFinite, ServerAssumption, FS_CardinalityType DEF ClusterSize
<1>2. IsMajority(Cardinality(A))
    BY <1>1 DEF IsMajority
<1>3. QED
    BY <1>2, MajorityKept

\* One more vote has arrived.
LEMMA OneMoreArrived ==
    ASSUME NEW A \in SUBSET Server, NEW B \in SUBSET Server, NEW j \in B,
           j \notin A, A \subseteq B
    PROVE  Cardinality(A) + 1 <= Cardinality(B)
<1>1. IsFiniteSet(A) /\ IsFiniteSet(B) /\ Cardinality(A) \in Nat
      /\ Cardinality(B) \in Nat
    BY VotersFinite
<1>2. /\ Cardinality(A \cup {j}) = Cardinality(A) + 1
      /\ IsFiniteSet(A \cup {j})
    BY <1>1, FS_AddElement
<1>3. A \cup {j} \subseteq B
    OBVIOUS
<1>4. Cardinality(A \cup {j}) <= Cardinality(B)
    BY <1>1, <1>3, FS_Subset
<1>5. QED
    BY <1>2, <1>4

\* handle_voting_resp counts a vote that was given and not counted before,
\* or marks the tally stale.
LEMMA VotingRespElections ==
    ASSUME TypeOK, TypeOK', EInv, NEW m \in net, HandleVotingResp(m)
    PROVE  EInv'
<1> DEFINE i == m.dst
           e == election[i]
           counts == ~e.completed
           granted == e.granted + (IF counts /\ m.accepted THEN 1 ELSE 0)
           won == counts /\ IsMajority(granted)
           done == e.completed \/ won \/ e.responded + 1 >= ClusterSize
           tally == IF counts /\ m.accepted /\ m.term < state[i].term
                    THEN stale \cup {i} ELSE stale
           ne == [granted |-> granted, responded |-> e.responded + 1,
                  completed |-> done]
<1>1. /\ m \in Messages /\ m.type = "vote_resp" /\ i \in Server
      /\ m.src \in Server /\ m.term \in Nat
    BY MessageKinds DEF TypeOK, HandleVotingResp
<1>2. /\ state[i].term \in Nat /\ e.granted \in Nat
      /\ m.term <= state[i].term
    <2>1. state[i].term \in Nat /\ e.granted \in Nat
        BY <1>1 DEF TypeOK, SrvState, Election
    <2>2. ~(m.term > state[i].term)
        BY DEF HandleVotingResp, Later
    <2>3. QED
        BY <1>1, <2>1, <2>2
<1>3. /\ election' = [election EXCEPT ![i] = ne] /\ stale' = tally
      /\ UNCHANGED <<state, votes>>
      /\ \/ /\ won
            /\ elected' = elected \cup {[srv |-> i, term |-> state[i].term,
                                         clean |-> i \notin tally]}
            /\ BecomeLeader(i, state[i].term, net \ {m})
         \/ /\ ~won
            /\ net' = net \ {m}
            /\ UNCHANGED <<elected>>
    BY DEF HandleVotingResp
<1>4. ne.granted = granted
    OBVIOUS
<1>5. /\ OnceIn(net) /\ OnceIn(net \ {m}) /\ NoNewBallots(net \ {m}, net)
      /\ net \ {m} \in SUBSET Messages
    BY FewerBallots DEF EInv, BallotsSane, TypeOK
<1> HIDE DEF i, e, counts, granted, won, tally, ne
<1>6. /\ OnceIn(net') /\ NoNewBallots(net', net \ {m})
      /\ \A n \in net' : n.type = "vote_resp" => n \in net \ {m}
    <2>1. CASE net' = net \ {m}
        BY <1>5, <2>1 DEF NoNewBallots
    <2>2. CASE BecomeLeader(i, state[i].term, net \ {m})
        BY <1>1, <1>2, <1>5, <2>2, BecomeLeaderBallots
    <2>3. QED
        BY <1>3, <2>1, <2>2
<1>7. NoNewBallots(net', net)
    BY <1>6, BallotsWithin
<1>8. BallotsSane'
    <2>1. \A c \in Server : state[c].term <= state'[c].term
        BY <1>3 DEF TypeOK, SrvState
    <2>2. QED
        BY <1>3, <1>6, <1>7, <2>1, BallotsKept DEF EInv
<1>9. \A c \in Server : election'[c] = IF c = i THEN ne ELSE election[c]
    BY <1>1, <1>3 DEF TypeOK
<1>10. TallySane'
    <2> SUFFICES ASSUME NEW c \in Server, c \notin stale'
                 PROVE  election'[c].granted <= Cardinality(Arrived(c))'
        BY DEF TallySane
    <2>1. c \notin stale
        BY <1>3 DEF tally
    <2>2. CASE c # i \/ ~(counts /\ m.accepted)
        <3>1. election'[c].granted = election[c].granted
            BY <1>2, <1>4, <1>9, <2>2 DEF granted, e
        <3>2. QED
            BY <1>3, <1>7, <2>1, <3>1, TallyKept DEF EInv
    <2>3. CASE c = i /\ counts /\ m.accepted
        <3>1. m.term = state[i].term
            BY <1>1, <1>2, <1>3, <2>3 DEF tally
        <3>2. election'[i].granted = e.granted + 1
            BY <1>1, <1>4, <1>9, <2>3 DEF granted
        <3>3. e.granted <= Cardinality(Arrived(i))
            BY <2>1, <2>3 DEF EInv, TallySane, e
        <3>4. PICK t \in Nat : t = m.term
            BY <1>1
        <3>5. /\ Arrived(i) = {j \in Voters(i, t) :
                                  \A n \in net : ~IsBallot(n, j, i, t)}
              /\ Arrived(i)' = {j \in Voters(i, t)' :
                                  \A n \in net' : ~IsBallot(n, j, i, t)}
            BY <1>3, <3>1, <3>4 DEF Arrived, Voters, i
        <3>6. Voters(i, t)' = Voters(i, t)
            BY <1>3 DEF Voters, i
        <3>7. IsBallot(m, m.src, i, t)
            BY <1>1, <2>3, <3>4 DEF IsBallot, i
        <3>8. m.src \in Voters(i, t)
            BY <1>1, <2>3, <3>4 DEF EInv, BallotsSane, Voters, i
        <3>9. \A n \in net \ {m} : ~IsBallot(n, m.src, i, t)
            BY <1>1, <1>5, <3>7 DEF OnceIn
        <3>10. \A n \in net' : ~IsBallot(n, m.src, i, t)
            BY <1>1, <1>6, <3>9 DEF NoNewBallots
        <3>11. \A j \in Server : (\E n \in net' : IsBallot(n, j, i, t))
                                  => \E n \in net : IsBallot(n, j, i, t)
            BY <1>1, <1>7 DEF NoNewBallots
        <3>12. /\ Arrived(i) \in SUBSET Server /\ Arrived(i)' \in SUBSET Server
              BY DEF Arrived, Voters
        <3>13. m.src \in Arrived(i)' /\ m.src \notin Arrived(i)
            BY <3>5, <3>6, <3>7, <3>8, <3>10
        <3>14. Arrived(i) \subseteq Arrived(i)'
            BY <3>5, <3>6, <3>11, <3>12
        <3>15. Cardinality(Arrived(i)) + 1 <= Cardinality(Arrived(i)')
            BY <3>12, <3>13, <3>14, OneMoreArrived
        <3>16. Cardinality(Arrived(i)) \in Nat /\ Cardinality(Arrived(i)') \in Nat
            BY <3>12, VotersFinite
        <3>17. e.granted + 1 <= Cardinality(Arrived(i)')
            BY <1>2, <3>3, <3>15, <3>16
        <3>18. QED
            BY <2>3, <3>2, <3>17
    <2>4. QED
        BY <2>2, <2>3
<1>11. ElectedByMajority'
    <2> SUFFICES ASSUME NEW w \in elected', w.clean
                 PROVE  IsMajority(Cardinality(Voters(w.srv, w.term)'))
        BY DEF ElectedByMajority
    <2>1. CASE w \in elected
        BY <1>3, <2>1, ElectedKept DEF EInv
    <2>2. CASE w \notin elected
        <3>1. won /\ w = [srv |-> i, term |-> state[i].term, clean |-> i \notin tally]
            BY <1>3, <2>2
        <3>2. w.srv = i /\ w.term = state[i].term /\ i \notin stale'
            BY <1>3, <3>1
        <3>3. IsMajority(election'[i].granted)
            BY <1>1, <1>4, <1>9, <3>1 DEF won
        <3>4. election'[i].granted <= Cardinality(Arrived(i)')
            BY <1>1, <1>10, <3>2 DEF TallySane
        <3>5. /\ Arrived(i)' \in SUBSET Voters(w.srv, w.term)'
              /\ Voters(w.srv, w.term)' \in SUBSET Server
            BY <1>3, <3>2 DEF Arrived, Voters
        <3>6. election'[i].granted \in Nat
            BY <1>1 DEF TypeOK, Election
        <3>7. QED
            BY <3>3, <3>4, <3>5, <3>6, CleanWinner
    <2>3. QED
        BY <2>1, <2>2
<1>12. QED
    BY <1>8, <1>10, <1>11 DEF EInv

\* handle_election_timeout starts a term none of whose ballots is under way,
\* sends one to each other server and counts its own vote.
LEMMA ElectionTimeoutElections ==
    ASSUME TypeOK, TypeOK', EInv, NEW i \in Server, HandleElectionTimeout(i)
    PROVE  EInv'
<1>1. PICK term \in Nat : term = state[i].term + 1
    BY DEF TypeOK, SrvState
<1> DEFINE st == [state[i] EXCEPT !.term = term, !.voted_for = i]
           won == IsMajority(1)
           e == [granted |-> 1, responded |-> 1, completed |-> won]
           reqs == {VoteReq(i, j, term, log[i]) : j \in Peers(i)}
<1>2. /\ state' = [state EXCEPT ![i] = st]
      /\ votes' = votes \cup {<<i, term, i>>}
      /\ election' = [election EXCEPT ![i] = e]
      /\ stale' = stale \ {i}
      /\ \/ /\ won
            /\ elected' = elected \cup {[srv |-> i, term |-> term, clean |-> TRUE]}
            /\ BecomeLeader(i, term, net)
         \/ /\ ~won
            /\ net' = net \cup reqs
            /\ UNCHANGED elected
    BY <1>1 DEF HandleElectionTimeout
<1>3. st.term = term /\ e.granted = 1
    BY DEF TypeOK, SrvState
<1>4. \A n \in reqs : /\ n.type = "vote_req" /\ n.term = term
                        /\ n.src = i /\ n.dst \in Peers(i)
                        /\ n = VoteReq(i, n.dst, term, log[i])
    BY DEF VoteReq
<1> HIDE DEF st, e, won, reqs
<1>5. \A c \in Server :
          /\ state'[c].term = IF c = i THEN term ELSE state[c].term
          /\ state[c].term \in Nat
          /\ election'[c] = IF c = i THEN e ELSE election[c]
    BY <1>2, <1>3 DEF TypeOK, SrvState
<1>6. \A m \in net : \A j \in Server, t \in Nat :
          IsBallot(m, j, i, t) => t < term
    BY <1>1, <1>5 DEF EInv, BallotsSane
<1>7. /\ OnceIn(net) /\ net \in SUBSET Messages
    BY DEF EInv, BallotsSane, TypeOK
<1>8. ASSUME NEW n \in reqs, NEW j, NEW c, NEW t, IsBallot(n, j, c, t)
      PROVE  c = i /\ t = term /\ j \in Peers(i) /\ j = n.dst
    BY <1>4, <1>8 DEF IsBallot
<1>9. /\ OnceIn(net') /\ NoNewBallots(net', net \cup reqs)
      /\ \A n \in net' : n.type = "vote_resp" => n \in net
    <2>1. CASE BecomeLeader(i, term, net)
        <3>1. /\ OnceIn(net') /\ NoNewBallots(net', net)
              /\ \A n \in net' : n.type = "vote_resp" => n \in net
            BY <1>7, <2>1, BecomeLeaderBallots
        <3>2. QED
            BY <3>1, BallotsWithin
    <2>2. CASE net' = net \cup reqs
        <3>1. OnceIn(net')
            <4> SUFFICES ASSUME NEW a \in net', NEW b \in net',
                                NEW j \in Server, NEW c \in Server, NEW t \in Nat,
                                IsBallot(a, j, c, t), IsBallot(b, j, c, t)
                         PROVE  a = b
                BY DEF OnceIn
            <4>1. CASE a \in net /\ b \in net
                BY <1>7, <4>1 DEF OnceIn
            <4>2. CASE a \in reqs /\ b \in reqs
                BY <1>4, <1>8, <4>2
            <4>3. CASE (a \in reqs /\ b \in net) \/ (a \in net /\ b \in reqs)
                <5>1. c = i /\ t = term
                    BY <1>8, <4>3
                <5>2. t < term
                    BY <1>6, <4>3, <5>1
                <5>3. QED
                    BY <5>1, <5>2
            <4>4. QED
                BY <2>2, <4>1, <4>2, <4>3
        <3>2. QED
            BY <1>4, <2>2, <3>1 DEF NoNewBallots
    <2>3. QED
        BY <1>2, <2>1, <2>2
<1>10. ASSUME NEW n \in net', NEW j \in Server, NEW c \in Server, NEW t \in Nat,
             IsBallot(n, j, c, t)
       PROVE  \/ \E m \in net : IsBallot(m, j, c, t)
              \/ c = i /\ t = term /\ j # i
    <2>1. PICK m \in net \cup reqs : IsBallot(m, j, c, t)
        BY <1>9, <1>10 DEF NoNewBallots
    <2>2. QED
        BY <1>8, <2>1 DEF Peers
<1>11. BallotsSane'
    <2>1. \A m \in net' : \A j, c \in Server, t \in Nat :
              IsBallot(m, j, c, t) => t <= state'[c].term
        <3> SUFFICES ASSUME NEW n \in net', NEW j \in Server, NEW c \in Server,
                            NEW t \in Nat, IsBallot(n, j, c, t)
                     PROVE  t <= state'[c].term
            OBVIOUS
        <3>1. CASE \E m \in net : IsBallot(m, j, c, t)
            <4>1. t <= state[c].term
                BY <3>1 DEF EInv, BallotsSane
            <4>2. QED
                BY <1>1, <1>5, <4>1
        <3>2. CASE c = i /\ t = term
            BY <1>5, <3>2
        <3>3. QED
            BY <1>10, <3>1, <3>2
    <2>2. \A n \in net' : n.type = "vote_resp" /\ n.accepted =>
              <<n.src, n.term, n.dst>> \in votes'
        BY <1>2, <1>9 DEF EInv, BallotsSane
    <2>3. QED
        BY <1>9, <2>1, <2>2 DEF BallotsSane
<1>12. ASSUME NEW c \in Server, c # i, c \notin stale'
       PROVE  election'[c].granted <= Cardinality(Arrived(c)')
    <2>1. c \notin stale /\ election'[c] = election[c]
        BY <1>2, <1>5, <1>12
    <2>2. PICK t \in Nat : t = state[c].term /\ t = state'[c].term
        BY <1>5, <1>12
    <2>3. /\ Arrived(c) = {j \in Voters(c, t) :
                              \A m \in net : ~IsBallot(m, j, c, t)}
          /\ Arrived(c)' = {j \in Voters(c, t)' :
                              \A m \in net' : ~IsBallot(m, j, c, t)}
        BY <2>2 DEF Arrived, Voters
    <2>4. Voters(c, t) \subseteq Voters(c, t)' /\ Voters(c, t)' \in SUBSET Server
          /\ Voters(c, t) \in SUBSET Server
        BY <1>2 DEF Voters
    <2>5. Arrived(c) \subseteq Arrived(c)'
        BY <1>10, <1>12, <2>3, <2>4
    <2>6. Arrived(c) \in SUBSET Server /\ Arrived(c)' \in SUBSET Server
        BY <2>3, <2>4
    <2>7. Cardinality(Arrived(c)) <= Cardinality(Arrived(c)')
        BY <2>5, <2>6, VotersFinite, FS_Subset
    <2>8. election[c].granted <= Cardinality(Arrived(c))
        BY <2>1 DEF EInv, TallySane
    <2>9. /\ election[c].granted \in Nat /\ Cardinality(Arrived(c)) \in Nat
          /\ Cardinality(Arrived(c)') \in Nat
        BY <2>6, VotersFinite DEF TypeOK, Election
    <2>10. QED
        BY <2>1, <2>7, <2>8, <2>9
<1>13. election'[i].granted = 1 /\ 1 <= Cardinality(Arrived(i)')
    <2>1. election'[i].granted = 1
        BY <1>3, <1>5
    <2>2. Arrived(i)' = {j \in Voters(i, term)' :
                            \A m \in net' : ~IsBallot(m, j, i, term)}
        BY <1>5 DEF Arrived, Voters
    <2>3. i \in Voters(i, term)'
        BY <1>2 DEF Voters
    <2>4. \A m \in net' : ~IsBallot(m, i, i, term)
        BY <1>6, <1>10
    <2>5. i \in Arrived(i)' /\ Arrived(i)' \in SUBSET Server
        BY <2>2, <2>3, <2>4 DEF Voters
    <2>6. Cardinality({}) + 1 <= Cardinality(Arrived(i)')
        BY <2>5, OneMoreArrived
    <2>7. QED
        BY <2>1, <2>6, FS_EmptySet
<1>14. TallySane'
    BY <1>12, <1>13 DEF TallySane
<1>15. ElectedByMajority'
    <2> SUFFICES ASSUME NEW w \in elected', w.clean
                 PROVE  IsMajority(Cardinality(Voters(w.srv, w.term)'))
        BY DEF ElectedByMajority
    <2>1. CASE w \in elected
        BY <1>2, <2>1, ElectedKept DEF EInv
    <2>2. CASE w \notin elected
        <3>1. won /\ w.srv = i /\ w.term = term
            BY <1>2, <2>2
        <3>2. /\ Arrived(i)' \in SUBSET Voters(i, term)'
              /\ Voters(i, term)' \in SUBSET Server
            BY <1>5 DEF Arrived, Voters
        <3>3. IsMajority(1)
            BY <3>1 DEF won
        <3>4. QED
            BY <1>13, <3>1, <3>2, <3>3, CleanWinner
    <2>3. QED
        BY <2>1, <2>2
<1>16. QED
    BY <1>11, <1>14, <1>15 DEF EInv

-----------------------------------------------------------------------------
(* Election safety. *)

\* Two majorities of the cluster share a server.
LEMMA MajoritiesMeet ==
    ASSUME NEW A \in SUBSET Server, NEW B \in SUBSET Server,
           IsMajority(Cardinality(A)), IsMajority(Cardinality(B))
    PROVE  A \cap B # {}
<1>1. /\ IsFiniteSet(Server) /\ ClusterSize \in Nat
      /\ Cardinality(A) \in Nat /\ Cardinality(B) \in Nat
    BY VotersFinite, ServerAssumption, FS_CardinalityType DEF ClusterSize
<1>2. Cardinality(A) + Cardinality(B) > Cardinality(Server)
    BY <1>1 DEF IsMajority, ClusterSize
<1>3. QED
    BY <1>1, <1>2, FS_MajoritiesIntersect

\* What the votes are worth: a vote under way is under way once, each counted
\* vote was given to the candidate in its term and counted once, and each
\* clean winner has the votes of a majority, whatever is lost or restarted.
THEOREM VotesCountedOnce ==
    ASSUME SavesSerialized
    PROVE  Spec => []EInv
<1>1. Init => EInv
    <2> SUFFICES ASSUME Init PROVE EInv
        OBVIOUS
    <2>1. BallotsSane /\ ElectedByMajority
        BY DEF Init, BallotsSane, OnceIn, ElectedByMajority
    <2>2. ASSUME NEW c \in Server
          PROVE  election[c].granted <= Cardinality(Arrived(c))
        <3>1. election[c].granted = 0
            BY DEF Init
        <3>2. Arrived(c) \in SUBSET Server
            BY DEF Arrived, Voters
        <3>3. Cardinality(Arrived(c)) \in Nat
            BY <3>2, VotersFinite
        <3>4. QED
            BY <3>1, <3>3
    <2>3. QED
        BY <2>1, <2>2 DEF EInv, TallySane
<1>2. TypeOK /\ TypeOK' /\ VotesAreRemembered /\ EInv /\ [Next]_vars => EInv'
    <2> SUFFICES ASSUME TypeOK, TypeOK', VotesAreRemembered, EInv, [Next]_vars
                 PROVE  EInv'
        OBVIOUS
    <2>1. ASSUME NEW m \in net, Receive(m) PROVE EInv'
        <3>1. CASE HandleVoteReq(m)
            BY <3>1, VoteReqElections
        <3>2. CASE AcceptAppendEntries(m) \/ RefuseAppendEntries(m)
                       \/ HandleLaterResp(m)
            BY <3>2, TermUpdateElections
        <3>3. CASE MeetRivalLeader(m) \/ SetFree(m)
            BY <3>3, LosingElections
        <3>4. CASE HandleVotingResp(m)
            BY <3>4, VotingRespElections
        <3>5. CASE HandleAppendAccepted(m) \/ HandleAppendRefused(m)
            BY <3>5, SendingElections
        <3>6. QED
            BY <2>1, <3>1, <3>2, <3>3, <3>4, <3>5 DEF Receive
    <2>2. ASSUME NEW m \in net, RpcError(m) \/ LoseRequest(m) PROVE EInv'
        BY <2>2, LosingElections
    <2>3. ASSUME NEW i \in Server, HandleElectionTimeout(i) PROVE EInv'
        BY <2>3, ElectionTimeoutElections
    <2>4. ASSUME NEW i \in Server, NEW j \in Server, HandleHbTimeout(i, j)
          PROVE  EInv'
        BY <2>4, SendingElections
    <2>5. ASSUME NEW i \in Server, NEW val \in Value, HandleCliReq(i, val)
          PROVE  EInv'
        BY <2>5, SendingElections
    <2>6. ASSUME NEW i \in Server, CommitInBg(i) PROVE EInv'
        BY <2>6, CommitElections
    <2>7. ASSUME NEW i \in Server, Restart(i) PROVE EInv'
        BY <2>7, RestartElections
    <2>8. CASE UNCHANGED vars
        <3>1. /\ UNCHANGED <<votes, elected, election, stale, net, state>>
            BY <2>8 DEF vars
        <3>2. OnceIn(net') /\ NoNewBallots(net', net)
            BY <3>1, FewerBallots DEF EInv, BallotsSane
        <3>3. QED
            BY <3>1, <3>2, Bystander
    <2>9. QED
        BY <2>1, <2>2, <2>3, <2>4, <2>5, <2>6, <2>7, <2>8 DEF Next
<1>3. QED
    BY <1>1, <1>2, TypeCorrect, VotesRemembered, PTL DEF Spec

\* If state_mgr serializes save_state, two elections won in one term without
\* a vote of an older term were won by one server: the majorities that
\* voted share a server, and it voted once.
THEOREM CleanElectionsAreSafe ==
    ASSUME SavesSerialized
    PROVE  Spec => []CleanElectionSafety
<1>1. TypeOK /\ EInv /\ VoteOncePerTerm => CleanElectionSafety
    <2> SUFFICES ASSUME TypeOK, EInv, VoteOncePerTerm,
                        NEW a \in elected, NEW b \in elected,
                        a.clean, b.clean, a.term = b.term
                 PROVE  a.srv = b.srv
        BY DEF CleanElectionSafety
    <2>1. /\ IsMajority(Cardinality(Voters(a.srv, a.term)))
          /\ IsMajority(Cardinality(Voters(b.srv, b.term)))
        BY DEF EInv, ElectedByMajority
    <2>2. /\ Voters(a.srv, a.term) \in SUBSET Server
          /\ Voters(b.srv, b.term) \in SUBSET Server
        BY DEF Voters
    <2>3. PICK v \in Voters(a.srv, a.term) : v \in Voters(b.srv, b.term)
        BY <2>1, <2>2, MajoritiesMeet
    <2>4. <<v, a.term, a.srv>> \in votes /\ <<v, b.term, b.srv>> \in votes
        BY <2>3 DEF Voters
    <2>5. QED
        BY <2>4 DEF VoteOncePerTerm
<1>2. QED
    BY <1>1, TypeCorrect, VotesCountedOnce, OneVotePerTerm, PTL
=============================================================================
