------------------------ MODULE RaftMembershipProofs ------------------------
(***************************************************************************)
(* What RaftMembership keeps for every set of servers and every value of   *)
(* the bounds, if changes are asked for one after another.                 *)
(*                                                                         *)
(* MembershipInv is the inductive invariant behind "one server is added or *)
(* removed at a time": at most one extended message is under way, none     *)
(* while a configuration waits to be committed, and each carries what the  *)
(* handlers rely on.  It needs nothing of the network.                     *)
(*                                                                         *)
(* If no request arrives after its error was reported, CommittedInv holds  *)
(* as well: a pack never cuts off what was committed (SyncInv), the leader *)
(* believes of no member more than it has (MatchInv), and what it had      *)
(* committed is on a majority of the last committed configuration or the   *)
(* one before it (QuorumInv), which meets every majority of a neighbour.   *)
(***************************************************************************)
EXTENDS RaftMembership, FiniteSetTheorems, SequenceTheorems,
        WellFoundedInduction, TLAPS

-----------------------------------------------------------------------------
(* The inductive invariant. *)

PeerObject == [next : Nat, matched : Nat, busy : BOOLEAN, pending : BOOLEAN,
               slow : 0..MaxSlow]
Invitation == [srv : Other \cup {Nobody}, next : Nat, slow : 0..MaxSlow]

AppendMsg == [type : {"append"}, srv : Other, prev : Nat, n : Nat,
              commit : Nat, live : BOOLEAN]
JoinMsg == [type : {"join"}, srv : Other, conf : Nat, live : BOOLEAN]
SyncMsg == [type : {"sync"}, srv : Other, start : Nat, n : Nat, live : BOOLEAN]
LeaveMsg == [type : {"leave"}, srv : Other, live : BOOLEAN]
Request == AppendMsg \cup JoinMsg \cup SyncMsg \cup LeaveMsg
Response == [req : Request, ok : BOOLEAN, next : Nat]

\* Some configuration that the leader has applied contains s.
WasMember(s) == \E i \in Confs : i <= conf[Leader] /\ s \in log[i]
\* No configuration in the leader's log does.
Unknown(s) == \A i \in Confs : s \notin log[i]

RestOK ==
    /\ changing \in [Server -> BOOLEAN] /\ catching \in [Server -> BOOLEAN]
    /\ steps \in [Server -> 0..2]
    /\ down \subseteq Other
    /\ changes \in Nat /\ faults \in Nat /\ declined \in BOOLEAN

IndexesOK ==
    /\ len \in [Server -> Nat] /\ quick \in [Server -> Nat]
    /\ commit \in [Server -> Nat] /\ conf \in [Server -> Nat]
    /\ \A s \in Server :
           /\ len[s] <= Len(log)
           /\ quick[s] <= quick[Leader] /\ commit[s] <= quick[s]
           /\ conf[s] \in Confs \cup {0} /\ conf[s] <= quick[Leader]
    /\ len[Leader] = Len(log) /\ quick[Leader] <= Len(log)

\* The objects ps fit a log of k entries.
PeersFit(ps, k) ==
    /\ ps \in [Other -> PeerObject]
    /\ \A s \in Other : ps[s].next <= k + 1 /\ ps[s].matched <= k
PeersOK ==
    /\ peers \subseteq Other /\ PeersFit(peer, Len(log))
    /\ join \in Invitation /\ join.next <= Len(log) + 1

\* i and j are configurations of lg with none between them.
Neighbours(lg, i, j) ==
    /\ i \in 1..Len(lg) /\ j \in 1..Len(lg) /\ lg[i] # {} /\ lg[j] # {} /\ i < j
    /\ \A k \in 1..Len(lg) : lg[k] # {} => k <= i \/ k >= j
\* One other server more, or one less.
OneApart(S, T) == \E s \in Other : \/ s \notin S /\ T = S \cup {s}
                                   \/ s \in S /\ T = S \ {s}
\* A server that was removed is not added again.
NeverBack(lg) ==
    \A i, j, k \in 1..Len(lg) :
        (i < j /\ j < k /\ lg[j] # {}) => lg[i] \cap lg[k] \subseteq lg[j]
LogFine(lg) ==
    /\ lg \in Seq(SUBSET Server)
    /\ \A i \in 1..Len(lg) : lg[i] # {} => Leader \in lg[i]
    /\ NeverBack(lg)
    /\ \A i, j \in 1..Len(lg) : Neighbours(lg, i, j) => OneApart(lg[i], lg[j])
LogOK == LogFine(log)

ChangeOK ==
    /\ conf[Leader] \in Confs /\ conf[Leader] <= commit[Leader]
    /\ \A i \in Confs : i <= conf[Leader] \/ i > commit[Leader]
    /\ changing[Leader] <=> Uncommitted # {}
    /\ \A i, j \in Uncommitted : i = j
    /\ ~catching[Leader]
    /\ \/ peers = log[conf[Leader]] \ {Leader}
       \/ peers = {} /\ \E i \in Uncommitted : log[i] = {Leader}

ReqOK(m) ==
    /\ m \in Request
    /\ m.type = "append" =>
           /\ m.prev + m.n <= Len(log) /\ m.commit <= quick[Leader]
           /\ WasMember(m.srv)
    /\ m.type = "join" => m.conf \in Confs /\ m.conf <= quick[Leader]
    /\ m.type = "sync" => /\ m.start >= 1 /\ m.n >= 1
                          /\ m.start + m.n <= quick[Leader]
RespOK(r) ==
    /\ r \in Response /\ ReqOK(r.req) /\ r.req.live
    /\ r.next <= Len(log) + 1
    /\ r.req.type = "append" =>
           r.next >= 1 /\ (r.ok => r.next = r.req.prev + r.req.n + 1)
    /\ r.req.type = "sync" =>
           r.next = IF r.ok THEN r.req.start + r.req.n ELSE 0
MsgsOK == (\A m \in reqs : ReqOK(m)) /\ (\A r \in resps : RespOK(r))

\* What the leader relies on while request m is under way, or its response.
AwaitOK(m) ==
    /\ m.type = "append" => peer[m.srv].next >= 1
    /\ m.type # "append" => ~changing[Leader]
    /\ m.type = "leave" => m.srv \in peers
    /\ m.type \in {"join", "sync"} => join.srv = m.srv /\ Unknown(m.srv)
AwaitsOK ==
    /\ \A m \in reqs : m.live => AwaitOK(m)
    /\ \A r \in resps : AwaitOK(r.req)

Ext(m) == m.type # "append"
OneExt ==
    /\ \A m, k \in reqs : m.live /\ k.live /\ Ext(m) /\ Ext(k) => m = k
    /\ \A r, q \in resps : Ext(r.req) /\ Ext(q.req) => r = q
    /\ \A m \in reqs, r \in resps : ~(m.live /\ Ext(m) /\ Ext(r.req))

MembershipInv ==
    /\ RestOK /\ IndexesOK /\ PeersOK /\ LogOK /\ ChangeOK
    /\ MsgsOK /\ AwaitsOK /\ OneExt

-----------------------------------------------------------------------------
(* The servers, the messages and the log. *)

\* What the assumptions on the constants say of the servers.
LEMMA ServerFacts ==
    /\ Leader \in Server /\ Leader \notin Other /\ Nobody \notin Other
    /\ Other \subseteq Server /\ Server = {Leader} \cup Other
    /\ IsFiniteSet(Server)
<1>1. Server = Other \cup {Leader}
    BY DEF Server, Other
<1>2. IsFiniteSet(Other \cup {Leader})
    BY MembershipAssumption, FS_AddElement
<1>3. QED
    BY <1>1, <1>2, MembershipAssumption DEF Server, Other

\* The kinds of requests are told apart by their type.
LEMMA RequestFields ==
    ASSUME NEW m \in Request
    PROVE  /\ m.srv \in Other /\ m.live \in BOOLEAN
           /\ m.type \in {"append", "join", "sync", "leave"}
           /\ m.type = "append" =>
                  m \in AppendMsg /\ m.prev \in Nat /\ m.n \in Nat /\ m.commit \in Nat
           /\ m.type = "join" => m \in JoinMsg /\ m.conf \in Nat
           /\ m.type = "sync" => m \in SyncMsg /\ m.start \in Nat /\ m.n \in Nat
           /\ m.type = "leave" => m \in LeaveMsg
<1>1. CASE m \in AppendMsg
    BY <1>1 DEF AppendMsg
<1>2. CASE m \in JoinMsg
    BY <1>2 DEF JoinMsg
<1>3. CASE m \in SyncMsg
    BY <1>3 DEF SyncMsg
<1>4. CASE m \in LeaveMsg
    BY <1>4 DEF LeaveMsg
<1>5. QED
    BY <1>1, <1>2, <1>3, <1>4 DEF Request

\* A request whose error was reported is the same request otherwise.
LEMMA DeadRequest ==
    ASSUME NEW m \in Request
    PROVE  LET d == [m EXCEPT !.live = FALSE]
           IN  /\ d \in Request /\ ~d.live /\ d.type = m.type /\ d.srv = m.srv
               /\ m.type = "append" => /\ d.prev = m.prev /\ d.n = m.n
                                       /\ d.commit = m.commit
               /\ m.type = "join" => d.conf = m.conf
               /\ m.type = "sync" => d.start = m.start /\ d.n = m.n
<1>1. CASE m.type = "append"
    BY <1>1, RequestFields DEF AppendMsg, Request
<1>2. CASE m.type = "join"
    BY <1>2, RequestFields DEF JoinMsg, Request
<1>3. CASE m.type = "sync"
    BY <1>3, RequestFields DEF SyncMsg, Request
<1>4. CASE m.type = "leave"
    BY <1>4, RequestFields DEF LeaveMsg, Request
<1>5. QED
    BY <1>1, <1>2, <1>3, <1>4, RequestFields

\* The leader's log is kept, or one entry is added to it.
Grows == \/ log' = log
         \/ \E e \in SUBSET Server : log' = Append(log, e)

\* What was in the log stays, and what is new comes last.
LEMMA GrowsKeeps ==
    ASSUME log \in Seq(SUBSET Server), Grows
    PROVE  /\ log' \in Seq(SUBSET Server)
           /\ Len(log) \in Nat /\ Len(log') \in Nat /\ Len(log) <= Len(log')
           /\ Len(log') <= Len(log) + 1
           /\ \A i \in 1..Len(log) : log'[i] = log[i]
           /\ Confs \subseteq Confs'
           /\ \A i \in Confs' : i \in Confs \/ i = Len(log) + 1
<1>1. /\ log' \in Seq(SUBSET Server)
      /\ Len(log) \in Nat /\ Len(log') \in Nat /\ Len(log) <= Len(log')
      /\ Len(log') <= Len(log) + 1
      /\ \A i \in 1..Len(log) : log'[i] = log[i]
    <2>1. CASE log' = log
        BY <2>1
    <2>2. CASE \E e \in SUBSET Server : log' = Append(log, e)
        <3>1. PICK e \in SUBSET Server : log' = Append(log, e)
            BY <2>2
        <3>2. QED
            BY <3>1, AppendProperties, LenProperties
    <2>3. QED
        BY <2>1, <2>2 DEF Grows
<1>2. QED
    BY <1>1 DEF Confs

\* Configurations are numbered by positive indexes.
LEMMA ConfsNat ==
    ASSUME log \in Seq(SUBSET Server)
    PROVE  /\ Confs \subseteq 1..Len(log) /\ Len(log) \in Nat
           /\ \A i \in Confs : /\ i \in Nat /\ i >= 1 /\ i <= Len(log)
                               /\ log[i] \in SUBSET Server /\ log[i] # {}
BY DEF Confs

\* A request stays right while the log grows and the leader commits.
LEMMA ReqKept ==
    ASSUME log \in Seq(SUBSET Server), Grows,
           quick[Leader] \in Nat, quick'[Leader] \in Nat,
           quick'[Leader] >= quick[Leader],
           conf[Leader] \in Nat, conf'[Leader] \in Nat,
           conf'[Leader] >= conf[Leader],
           NEW m, ReqOK(m)
    PROVE  ReqOK(m)'
<1>1. /\ Len(log) <= Len(log') /\ Len(log) \in Nat /\ Len(log') \in Nat
      /\ \A i \in 1..Len(log) : log'[i] = log[i]
      /\ Confs \subseteq Confs'
    BY GrowsKeeps
<1>2. m \in Request
    BY DEF ReqOK
<1>3. ASSUME NEW s, WasMember(s)
      PROVE  WasMember(s)'
    <2>1. PICK i \in Confs : i <= conf[Leader] /\ s \in log[i]
        BY <1>3 DEF WasMember
    <2>2. i \in Nat /\ i \in 1..Len(log)
        BY ConfsNat
    <2>3. i \in Confs' /\ i <= conf'[Leader] /\ s \in log'[i]
        BY <1>1, <2>1, <2>2
    <2>4. QED
        BY <2>3 DEF WasMember
<1>4. m.type = "append" => (m.prev + m.n <= Len(log') /\ m.commit <= quick'[Leader])
    BY <1>1, <1>2, RequestFields DEF ReqOK
<1>5. m.type = "append" => WasMember(m.srv)'
    BY <1>3 DEF ReqOK
<1>6. m.type = "join" => (m.conf \in Confs' /\ m.conf <= quick'[Leader])
    BY <1>1, <1>2, RequestFields DEF ReqOK
<1>7. m.type = "sync" => /\ m.start >= 1 /\ m.n >= 1
                         /\ m.start + m.n <= quick'[Leader]
    BY <1>1, <1>2, RequestFields DEF ReqOK
<1>8. QED
    BY <1>2, <1>4, <1>5, <1>6, <1>7 DEF ReqOK

\* So does a response.
LEMMA RespKept ==
    ASSUME log \in Seq(SUBSET Server), Grows,
           quick[Leader] \in Nat, quick'[Leader] \in Nat,
           quick'[Leader] >= quick[Leader],
           conf[Leader] \in Nat, conf'[Leader] \in Nat,
           conf'[Leader] >= conf[Leader],
           NEW r, RespOK(r)
    PROVE  RespOK(r)'
<1>1. ReqOK(r.req)'
    BY ReqKept DEF RespOK
<1>2. r.next \in Nat
    BY DEF RespOK, Response
<1>3. r.next <= Len(log') + 1
    BY <1>2, GrowsKeeps DEF RespOK
<1>4. QED
    BY <1>1, <1>3 DEF RespOK

-----------------------------------------------------------------------------
(* Requests of the leader. *)

\* create_append_entries_req for a peer that fits the log.
LEMMA AppendReqFits ==
    ASSUME NEW s \in Other, NEW p \in PeerObject, NEW l \in Seq(SUBSET Server),
           NEW qc \in Nat, p.next <= Len(l) + 1
    PROVE  /\ NextOf(p, l) \in Nat /\ NextOf(p, l) >= 1
           /\ NextOf(p, l) <= Len(l) + 1
           /\ p.next >= 1 => NextOf(p, l) = p.next
           /\ AppendReq(s, p, l, qc) \in AppendMsg
           /\ AppendReq(s, p, l, qc).srv = s /\ AppendReq(s, p, l, qc).live
           /\ AppendReq(s, p, l, qc).prev + AppendReq(s, p, l, qc).n = Len(l)
           /\ AppendReq(s, p, l, qc).commit = qc
<1>1. Len(l) \in Nat /\ p.next \in Nat
    BY LenProperties DEF PeerObject
<1>2. /\ NextOf(p, l) \in Nat /\ NextOf(p, l) >= 1
      /\ NextOf(p, l) <= Len(l) + 1
      /\ p.next >= 1 => NextOf(p, l) = p.next
    BY <1>1 DEF NextOf
<1>3. NextOf(p, l) - 1 \in Nat /\ Len(l) + 1 - NextOf(p, l) \in Nat
    BY <1>1, <1>2
<1>4. NextOf(p, l) - 1 + (Len(l) + 1 - NextOf(p, l)) = Len(l)
    BY <1>1, <1>2
<1>5. /\ AppendReq(s, p, l, qc) \in AppendMsg
      /\ AppendReq(s, p, l, qc).srv = s /\ AppendReq(s, p, l, qc).live
      /\ AppendReq(s, p, l, qc).prev = NextOf(p, l) - 1
      /\ AppendReq(s, p, l, qc).n = Len(l) + 1 - NextOf(p, l)
      /\ AppendReq(s, p, l, qc).commit = qc
    BY <1>3 DEF AppendReq, AppendMsg
<1>6. QED
    BY <1>2, <1>4, <1>5

\* A request that the leader has just sent, with k entries in its log.
Fresh(m, dests, k, qc) ==
    /\ m \in AppendMsg /\ m.live /\ m.srv \in dests
    /\ m.prev + m.n = k /\ m.commit = qc

\* request_append_entries: what it sends and what it does to the peers.
LEMMA SendEffect ==
    ASSUME NEW dests \in SUBSET Other, NEW l \in Seq(SUBSET Server),
           NEW qc \in Nat, NEW P, NEW ps, PeersFit(ps, Len(l)), NEW rs,
           SendAppend(dests, l, qc, P, ps, rs)
    PROVE  /\ peers' = P /\ quick' = [quick EXCEPT ![Leader] = qc]
           /\ PeersFit(peer', Len(l))
           /\ \A s \in Other :
                  /\ peer'[s].matched = ps[s].matched
                  /\ ps[s].next >= 1 => peer'[s].next >= 1
                  /\ s \in dests /\ ~ps[s].busy => peer'[s].next >= 1
           /\ rs \subseteq reqs'
           /\ \A m \in reqs' :
                  m \in rs \/ (Fresh(m, dests, Len(l), qc) /\ peer'[m.srv].next >= 1)
<1> DEFINE free == {s \in dests : ~ps[s].busy}
<1>1. /\ peers' = P /\ quick' = [quick EXCEPT ![Leader] = qc]
      /\ peer' = [s \in Other |->
               IF s \in free
               THEN [ps[s] EXCEPT !.busy = TRUE, !.next = NextOf(ps[s], l)]
               ELSE ps[s]]
      /\ reqs' = rs \cup {AppendReq(s, ps[s], l, qc) : s \in free}
    BY DEF SendAppend
<1>2. \A s \in Other : /\ ps[s] \in PeerObject /\ ps[s].next <= Len(l) + 1
                       /\ ps[s].matched <= Len(l)
    BY DEF PeersFit
<1>3. free \subseteq Other /\ free \subseteq dests
    OBVIOUS
<1>4. ASSUME NEW s \in Other
      PROVE  /\ peer'[s] \in PeerObject /\ peer'[s].next <= Len(l) + 1
             /\ peer'[s].matched <= Len(l) /\ peer'[s].matched = ps[s].matched
             /\ ps[s].next >= 1 => peer'[s].next >= 1
             /\ s \in free => peer'[s].next >= 1
    <2>1. CASE s \in free
        <3>1. PICK p \in PeerObject : p = ps[s]
            BY <1>2
        <3>2. PICK k \in Nat : k = NextOf(p, l)
            BY <1>2, <3>1, AppendReqFits
        <3>3. peer'[s] = [p EXCEPT !.busy = TRUE, !.next = k]
            BY <1>1, <2>1, <3>1, <3>2
        <3>4. k >= 1 /\ k <= Len(l) + 1
            BY <1>2, <3>1, <3>2, AppendReqFits
        <3>5. /\ peer'[s] \in PeerObject /\ peer'[s].next = k
              /\ peer'[s].matched = p.matched
            BY <3>3 DEF PeerObject
        <3>6. QED
            BY <1>2, <3>1, <3>4, <3>5
    <2>2. CASE s \notin free
        <3>1. peer'[s] = ps[s]
            BY <1>1, <2>2
        <3>2. QED
            BY <1>2, <2>2, <3>1
    <2>3. QED
        BY <2>1, <2>2
<1>5. PeersFit(peer', Len(l))
    <2>1. peer' = [s \in Other |-> peer'[s]]
        BY <1>1
    <2>2. peer' \in [Other -> PeerObject]
        BY <1>4, <2>1
    <2>3. QED
        BY <1>4, <2>2 DEF PeersFit
<1>6. ASSUME NEW m \in reqs', m \notin rs
      PROVE  Fresh(m, dests, Len(l), qc) /\ peer'[m.srv].next >= 1
    <2>1. PICK s \in free : m = AppendReq(s, ps[s], l, qc)
        BY <1>1, <1>6
    <2>2. PICK p \in PeerObject : p = ps[s]
        BY <1>2, <1>3
    <2>3. p.next <= Len(l) + 1
        BY <1>2, <1>3, <2>2
    <2>4. m = AppendReq(s, p, l, qc)
        BY <2>1, <2>2
    <2>5. /\ m \in AppendMsg /\ m.live /\ m.srv = s
          /\ m.prev + m.n = Len(l) /\ m.commit = qc
        BY <1>3, <2>3, <2>4, AppendReqFits
    <2>6. peer'[s].next >= 1
        BY <1>3, <1>4
    <2>7. QED
        BY <1>3, <2>5, <2>6 DEF Fresh
<1>7. rs \subseteq reqs'
    BY <1>1
<1>8. QED
    BY <1>1, <1>4, <1>5, <1>6, <1>7

\* A client's entry changes nothing about the configurations.
LEMMA PlainEntry ==
    ASSUME NEW lg, LogFine(lg)
    PROVE  LogFine(Append(lg, {}))
<1> DEFINE new == Append(lg, {})
<1>1. lg \in Seq(SUBSET Server) /\ Len(lg) \in Nat
    BY LenProperties DEF LogFine
<1>2. /\ new \in Seq(SUBSET Server) /\ Len(new) = Len(lg) + 1
      /\ \A i \in 1..Len(lg) : new[i] = lg[i]
      /\ new[Len(lg) + 1] = {}
    BY <1>1, AppendProperties
<1> HIDE DEF new
<1>3. \A i \in 1..Len(new) : new[i] # {} => i \in 1..Len(lg) /\ new[i] = lg[i]
    BY <1>1, <1>2
<1>4. \A i \in 1..Len(new) : new[i] # {} => Leader \in new[i]
    BY <1>3 DEF LogFine
<1>5. NeverBack(new)
    <2>1. SUFFICES ASSUME NEW i \in 1..Len(new), NEW j \in 1..Len(new),
                          NEW k \in 1..Len(new), i < j, j < k, new[j] # {},
                          NEW s \in new[i] \cap new[k]
                   PROVE  s \in new[j]
        BY DEF NeverBack
    <2>2. new[i] # {} /\ new[k] # {}
        OBVIOUS
    <2>3. /\ i \in 1..Len(lg) /\ j \in 1..Len(lg) /\ k \in 1..Len(lg)
          /\ new[i] = lg[i] /\ new[j] = lg[j] /\ new[k] = lg[k]
        BY <1>3, <2>1, <2>2
    <2>4. QED
        BY <2>1, <2>3 DEF LogFine, NeverBack
<1>6. ASSUME NEW i \in 1..Len(new), NEW j \in 1..Len(new), Neighbours(new, i, j)
      PROVE  OneApart(new[i], new[j])
    <2>1. /\ i \in 1..Len(lg) /\ j \in 1..Len(lg)
          /\ new[i] = lg[i] /\ new[j] = lg[j]
        BY <1>3, <1>6 DEF Neighbours
    <2>2. Neighbours(lg, i, j)
        BY <1>1, <1>2, <1>6, <2>1 DEF Neighbours
    <2>3. QED
        BY <2>1, <2>2 DEF LogFine
<1>7. QED
    BY <1>2, <1>4, <1>5, <1>6 DEF LogFine, new

\* A configuration next to the last one, with no server that was removed.
LEMMA NewConfiguration ==
    ASSUME NEW lg, LogFine(lg), NEW c \in 1..Len(lg), lg[c] # {},
           \A i \in 1..Len(lg) : lg[i] # {} => i <= c,
           NEW S \in SUBSET Server, Leader \in S, OneApart(lg[c], S),
           \A i \in 1..Len(lg) : lg[i] \cap S \subseteq lg[c]
    PROVE  LogFine(Append(lg, S))
<1> DEFINE new == Append(lg, S)
           e == Len(lg) + 1
<1>1. lg \in Seq(SUBSET Server) /\ Len(lg) \in Nat
    BY LenProperties DEF LogFine
<1>2. /\ new \in Seq(SUBSET Server) /\ Len(new) = e
      /\ \A i \in 1..Len(lg) : new[i] = lg[i]
      /\ new[e] = S
    BY <1>1, AppendProperties
<1> HIDE DEF new
<1>3. \A i \in 1..Len(new) : (i \in 1..Len(lg) /\ new[i] = lg[i]) \/ i = e
    BY <1>1, <1>2
<1>4. \A i \in 1..Len(new) : new[i] # {} => Leader \in new[i]
    BY <1>2, <1>3 DEF LogFine
<1>5. NeverBack(new)
    <2>1. SUFFICES ASSUME NEW i \in 1..Len(new), NEW j \in 1..Len(new),
                          NEW k \in 1..Len(new), i < j, j < k, new[j] # {},
                          NEW s \in new[i] \cap new[k]
                   PROVE  s \in new[j]
        BY DEF NeverBack
    <2>2. /\ i \in 1..Len(lg) /\ j \in 1..Len(lg)
          /\ new[i] = lg[i] /\ new[j] = lg[j]
        BY <1>1, <1>2, <2>1
    <2>3. CASE k # e
        <3>1. k \in 1..Len(lg) /\ new[k] = lg[k]
            BY <1>3, <2>3
        <3>2. QED
            BY <2>1, <2>2, <3>1 DEF LogFine, NeverBack
    <2>4. CASE k = e
        <3>1. s \in lg[i] /\ s \in lg[c]
            BY <1>2, <2>1, <2>2, <2>4
        <3>2. j <= c
            BY <2>1, <2>2
        <3>3. CASE j = c
            BY <2>2, <3>1, <3>3
        <3>4. CASE j # c
            <4>1. j < c
                BY <3>2, <3>4, <1>1, <2>2
            <4>2. lg[i] \cap lg[c] \subseteq lg[j]
                BY <2>1, <2>2, <4>1 DEF LogFine, NeverBack
            <4>3. QED
                BY <2>2, <3>1, <4>2
        <3>5. QED
            BY <3>3, <3>4
    <2>5. QED
        BY <2>3, <2>4
<1>6. ASSUME NEW i \in 1..Len(new), NEW j \in 1..Len(new), Neighbours(new, i, j)
      PROVE  OneApart(new[i], new[j])
    <2>1. i < j /\ new[i] # {} /\ new[j] # {}
        BY <1>6 DEF Neighbours
    <2>2. i \in 1..Len(lg) /\ new[i] = lg[i]
        BY <1>1, <1>2, <2>1
    <2>3. CASE j # e
        <3>1. j \in 1..Len(lg) /\ new[j] = lg[j]
            BY <1>3, <2>3
        <3>2. Neighbours(lg, i, j)
            BY <1>1, <1>2, <1>6, <2>2, <3>1 DEF Neighbours
        <3>3. QED
            BY <2>2, <3>1, <3>2 DEF LogFine
    <2>4. CASE j = e
        <3>1. i <= c
            BY <2>1, <2>2
        <3>2. c <= i \/ c >= e
            BY <1>1, <1>2, <1>6, <2>4 DEF Neighbours
        <3>3. i = c
            BY <1>1, <2>2, <3>1, <3>2
        <3>4. QED
            BY <1>2, <2>2, <2>4, <3>3
    <2>5. QED
        BY <2>3, <2>4
<1>7. QED
    BY <1>2, <1>4, <1>5, <1>6 DEF LogFine, new

-----------------------------------------------------------------------------
(* What keeps the parts of the invariant. *)

\* Facts about the leader that every step needs.
LEMMA LeaderFacts ==
    ASSUME MembershipInv
    PROVE  /\ log \in Seq(SUBSET Server) /\ Len(log) \in Nat
           /\ quick[Leader] \in Nat /\ conf[Leader] \in Nat
           /\ commit[Leader] \in Nat /\ len[Leader] = Len(log)
           /\ quick[Leader] <= Len(log) /\ commit[Leader] <= quick[Leader]
           /\ conf[Leader] \in Confs /\ conf[Leader] <= commit[Leader]
           /\ Leader \in Server /\ Servers(Leader) = log[conf[Leader]]
           /\ log[conf[Leader]] \in SUBSET Server /\ Leader \in log[conf[Leader]]
           /\ peers \subseteq Other /\ peers \subseteq log[conf[Leader]]
<1>1. log \in Seq(SUBSET Server) /\ Len(log) \in Nat
    BY LenProperties DEF MembershipInv, LogOK, LogFine
<1>2. Leader \in Server
    BY ServerFacts
<1>3. /\ quick[Leader] \in Nat /\ conf[Leader] \in Nat
      /\ commit[Leader] \in Nat /\ len[Leader] = Len(log)
      /\ quick[Leader] <= Len(log) /\ commit[Leader] <= quick[Leader]
    BY <1>2 DEF MembershipInv, IndexesOK
<1>4. conf[Leader] \in Confs /\ conf[Leader] <= commit[Leader]
    BY DEF MembershipInv, ChangeOK
<1>5. conf[Leader] \in 1..Len(log) /\ log[conf[Leader]] # {} /\ conf[Leader] # 0
    BY <1>1, <1>4, ConfsNat
<1>6. log[conf[Leader]] \in SUBSET Server /\ Leader \in log[conf[Leader]]
    BY <1>1, <1>5 DEF MembershipInv, LogOK, LogFine
<1>7. Servers(Leader) = log[conf[Leader]]
    BY <1>5 DEF Servers
<1>8. peers \subseteq Other /\ peers \subseteq log[conf[Leader]]
    BY DEF MembershipInv, PeersOK, ChangeOK
<1>9. QED
    BY <1>1, <1>2, <1>3, <1>4, <1>6, <1>7, <1>8

\* The leader's peers have been members.
LEMMA PeersWereMembers ==
    ASSUME MembershipInv, NEW s \in peers
    PROVE  WasMember(s) /\ s \in Other
BY LeaderFacts DEF WasMember

\* A larger log still fits the peers.
LEMMA FitsMore ==
    ASSUME NEW ps, NEW k \in Nat, NEW l \in Nat, k <= l, PeersFit(ps, k)
    PROVE  PeersFit(ps, l)
BY DEF PeersFit, PeerObject

\* The leader's handlers that send append requests: rs are the requests that
\* are left, ps the peers' objects before.
LEMMA SendKeeps ==
    ASSUME MembershipInv, Grows, len' = [len EXCEPT ![Leader] = Len(log')],
           UNCHANGED <<commit, conf>>,
           NEW dests \in SUBSET Other, \A s \in dests : WasMember(s),
           NEW qc \in Nat, quick[Leader] <= qc, qc <= Len(log'),
           NEW P \in SUBSET Other, NEW ps, PeersFit(ps, Len(log)),
           \A s \in Other : peer[s].next >= 1 =>
               ps[s].next >= 1 \/ (s \in dests /\ ~ps[s].busy),
           NEW rs, \A m \in rs : ReqOK(m) /\ (m.live => AwaitOK(m)),
           resps' \subseteq resps,
           SendAppend(dests, log', qc, P, ps, rs),
           join' \in Invitation, join'.next <= Len(log') + 1
    PROVE  /\ IndexesOK' /\ PeersOK' /\ MsgsOK'
           /\ peers' = P /\ quick'[Leader] = qc
           /\ \A m \in reqs' : m \in rs \/ m.type = "append"
           /\ \A m \in reqs' : m.live /\ ~Ext(m) => AwaitOK(m)'
           /\ \A r \in resps' : ~Ext(r.req) => AwaitOK(r.req)'
<1>1. /\ log \in Seq(SUBSET Server) /\ Len(log) \in Nat
      /\ quick[Leader] \in Nat /\ conf[Leader] \in Nat /\ Leader \in Server
    BY LeaderFacts
<1>2. /\ log' \in Seq(SUBSET Server) /\ Len(log') \in Nat /\ Len(log) <= Len(log')
      /\ Confs \subseteq Confs'
    BY <1>1, GrowsKeeps
<1>3. PICK l \in Seq(SUBSET Server) : l = log'
    BY <1>2
<1>4. SendAppend(dests, l, qc, P, ps, rs)
    BY <1>3
<1>5. PeersFit(ps, Len(l))
    BY <1>1, <1>2, <1>3, FitsMore
<1>6. /\ peers' = P /\ quick' = [quick EXCEPT ![Leader] = qc]
      /\ PeersFit(peer', Len(l))
      /\ \A s \in Other :
             /\ ps[s].next >= 1 => peer'[s].next >= 1
             /\ s \in dests /\ ~ps[s].busy => peer'[s].next >= 1
      /\ \A m \in reqs' :
             m \in rs \/ (Fresh(m, dests, Len(l), qc) /\ peer'[m.srv].next >= 1)
    BY <1>4, <1>5, SendEffect
<1>7. IndexesOK'
    <2>1. quick \in [Server -> Nat] /\ len \in [Server -> Nat]
        BY DEF MembershipInv, IndexesOK
    <2>2. /\ quick' \in [Server -> Nat] /\ len' \in [Server -> Nat]
          /\ quick'[Leader] = qc /\ len'[Leader] = Len(log')
          /\ \A s \in Server : s # Leader => quick'[s] = quick[s] /\ len'[s] = len[s]
        BY <1>1, <1>2, <1>6, <2>1
    <2>3. commit' \in [Server -> Nat] /\ conf' \in [Server -> Nat]
        BY DEF MembershipInv, IndexesOK
    <2>4. ASSUME NEW s \in Server
          PROVE  /\ len'[s] <= Len(log') /\ quick'[s] <= quick'[Leader]
                 /\ commit'[s] <= quick'[s] /\ conf'[s] \in Confs' \cup {0}
                 /\ conf'[s] <= quick'[Leader]
        <3>1. /\ len[s] \in Nat /\ quick[s] \in Nat /\ commit[s] \in Nat
              /\ conf[s] \in Nat /\ commit'[s] = commit[s] /\ conf'[s] = conf[s]
              /\ len[s] <= Len(log) /\ quick[s] <= quick[Leader]
              /\ commit[s] <= quick[s] /\ conf[s] \in Confs \cup {0}
              /\ conf[s] <= quick[Leader]
            BY DEF MembershipInv, IndexesOK
        <3>2. QED
            BY <1>1, <1>2, <2>2, <3>1
    <2>5. QED
        BY <2>2, <2>3, <2>4 DEF IndexesOK
<1>8. PeersOK'
    BY <1>3, <1>6 DEF PeersOK
<1>9. quick'[Leader] = qc
    BY <1>1, <1>6 DEF MembershipInv, IndexesOK
<1>10. ASSUME NEW m, ReqOK(m)
       PROVE  ReqOK(m)'
    BY <1>1, <1>9, <1>10, ReqKept
<1>11. ASSUME NEW m, Fresh(m, dests, Len(l), qc)
       PROVE  ReqOK(m)' /\ m.type = "append"
    <2>1. /\ m \in AppendMsg /\ m.srv \in dests /\ m.type = "append"
          /\ m.prev + m.n = Len(log') /\ m.commit = qc
        BY <1>3, <1>11 DEF Fresh, AppendMsg
    <2>2. WasMember(m.srv)'
        <3>1. PICK i \in Confs : i <= conf[Leader] /\ m.srv \in log[i]
            BY <2>1 DEF WasMember
        <3>2. i \in 1..Len(log)
            BY <1>1, ConfsNat
        <3>3. i \in Confs' /\ log'[i] = log[i] /\ i <= conf'[Leader]
            BY <1>1, <1>2, <3>1, <3>2, GrowsKeeps
        <3>4. QED
            BY <3>1, <3>3 DEF WasMember
    <2>3. m \in Request
        BY <2>1 DEF Request
    <2>4. m.prev + m.n <= Len(log') /\ m.commit <= quick'[Leader]
        BY <1>2, <1>9, <2>1
    <2>5. QED
        BY <2>1, <2>2, <2>3, <2>4 DEF ReqOK
<1>12. MsgsOK'
    <2>1. \A m \in reqs' : ReqOK(m)'
        BY <1>6, <1>10, <1>11
    <2>2. ASSUME NEW r \in resps'
          PROVE  RespOK(r)'
        <3>1. RespOK(r)
            BY DEF MembershipInv, MsgsOK
        <3>2. QED
            BY <1>1, <1>9, <3>1, RespKept
    <2>3. QED
        BY <2>1, <2>2 DEF MsgsOK
<1>13. \A s \in Other : peer[s].next >= 1 => peer'[s].next >= 1
    BY <1>6
<1>14. ASSUME NEW m \in Request, AwaitOK(m), m.type = "append"
       PROVE  AwaitOK(m)'
    <2>1. m.srv \in Other
        BY RequestFields
    <2>2. QED
        BY <1>13, <1>14, <2>1 DEF AwaitOK
<1>15. ASSUME NEW m \in reqs', m.live, ~Ext(m)
       PROVE  AwaitOK(m)'
    <2>1. CASE m \in rs
        BY <1>14, <1>15, <2>1 DEF Ext, ReqOK
    <2>2. CASE m \notin rs
        BY <1>6, <1>15, <2>2 DEF AwaitOK, Ext
    <2>3. QED
        BY <2>1, <2>2
<1>16. ASSUME NEW r \in resps', ~Ext(r.req)
       PROVE  AwaitOK(r.req)'
    <2>1. RespOK(r) /\ AwaitOK(r.req)
        BY DEF MembershipInv, MsgsOK, AwaitsOK
    <2>2. QED
        BY <1>14, <1>16, <2>1 DEF Ext, RespOK, ReqOK
<1>17. QED
    BY <1>6, <1>7, <1>8, <1>9, <1>11, <1>12, <1>15, <1>16

\* When no extended message is left under way only the others matter.
LEMMA NoExtLeft ==
    ASSUME \A m \in reqs' : m.live => ~Ext(m), \A r \in resps' : ~Ext(r.req),
           \A m \in reqs' : m.live /\ ~Ext(m) => AwaitOK(m)',
           \A r \in resps' : ~Ext(r.req) => AwaitOK(r.req)'
    PROVE  AwaitsOK' /\ OneExt'
BY DEF AwaitsOK, OneExt

\* When the leader's state stays, an extended message that was under way may
\* still be.
LEMMA ExtStays ==
    ASSUME AwaitsOK, OneExt,
           \A m \in reqs' : m \in reqs \/ m.type = "append" \/ ~m.live,
           resps' \subseteq resps,
           ~changing[Leader] => ~changing'[Leader],
           peers \subseteq peers', join'.srv = join.srv,
           \A s : Unknown(s) => Unknown(s)',
           \A m \in reqs' : m.live /\ ~Ext(m) => AwaitOK(m)',
           \A r \in resps' : ~Ext(r.req) => AwaitOK(r.req)'
    PROVE  AwaitsOK' /\ OneExt'
<1>1. ASSUME NEW m, Ext(m), AwaitOK(m)
      PROVE  AwaitOK(m)'
    <2>1. m.type # "append"
        BY <1>1 DEF Ext
    <2>2. ~changing'[Leader]
        BY <1>1, <2>1 DEF AwaitOK
    <2>3. m.type = "leave" => m.srv \in peers'
        BY <1>1 DEF AwaitOK
    <2>4. m.type \in {"join", "sync"} => join'.srv = m.srv /\ Unknown(m.srv)'
        BY <1>1 DEF AwaitOK
    <2>5. QED
        BY <2>1, <2>2, <2>3, <2>4 DEF AwaitOK
<1>2. \A m \in reqs' : m.live => AwaitOK(m)'
    BY <1>1 DEF AwaitsOK, Ext
<1>3. \A r \in resps' : AwaitOK(r.req)'
    BY <1>1 DEF AwaitsOK
<1>4. OneExt'
    BY DEF OneExt, Ext
<1>5. QED
    BY <1>2, <1>3, <1>4 DEF AwaitsOK

\* A client's entry, or none, does not touch a change that is under way.
LEMMA ChangeStays ==
    ASSUME ChangeOK, LogOK, log' = log \/ log' = Append(log, {}),
           conf'[Leader] = conf[Leader], commit'[Leader] = commit[Leader],
           changing'[Leader] = changing[Leader],
           catching'[Leader] = catching[Leader], peers' = peers
    PROVE  /\ ChangeOK' /\ LogOK' /\ Grows /\ Confs' = Confs
           /\ \A i \in Confs : log'[i] = log[i]
           /\ \A s : Unknown(s) => Unknown(s)'
<1>1. Grows
    BY DEF Grows
<1>2. log \in Seq(SUBSET Server) /\ Len(log) \in Nat
    BY LenProperties DEF LogOK, LogFine
<1>3. LogOK'
    BY PlainEntry DEF LogOK
<1>4. Confs' = Confs /\ \A i \in Confs : log'[i] = log[i]
    <2>1. CASE log' = log
        BY <2>1 DEF Confs
    <2>2. CASE log' = Append(log, {})
        <3>1. /\ Len(log') = Len(log) + 1 /\ log'[Len(log) + 1] = {}
              /\ \A i \in 1..Len(log) : log'[i] = log[i]
            BY <1>2, <2>2, AppendProperties
        <3>2. QED
            BY <1>2, <3>1 DEF Confs
    <2>3. QED
        BY <2>1, <2>2
<1>5. Uncommitted' = Uncommitted
    BY <1>4 DEF Uncommitted
<1>6. Uncommitted \subseteq Confs
    BY DEF Uncommitted
<1>7. ChangeOK'
    <2>1. conf[Leader] \in Confs
        BY DEF ChangeOK
    <2>2. log'[conf'[Leader]] = log[conf[Leader]]
        BY <1>4, <2>1
    <2>3. \A i \in Uncommitted : log'[i] = log[i]
        BY <1>4, <1>6
    <2>4. QED
        BY <1>4, <1>5, <2>2, <2>3 DEF ChangeOK
<1>8. \A s : Unknown(s) => Unknown(s)'
    BY <1>4 DEF Unknown
<1>9. QED
    BY <1>1, <1>3, <1>4, <1>7, <1>8

\* While no change is under way the leader's configuration is the last one.
LEMMA LastConfiguration ==
    ASSUME MembershipInv, ~changing[Leader]
    PROVE  /\ Uncommitted = {} /\ \A i \in Confs : i <= conf[Leader]
           /\ peers = log[conf[Leader]] \ {Leader}
<1>1. Uncommitted = {}
    BY DEF MembershipInv, ChangeOK
<1>2. \A i \in Confs : i \in Nat
    BY LeaderFacts, ConfsNat
<1>3. \A i \in Confs : i <= conf[Leader]
    BY <1>1, <1>2, LeaderFacts DEF MembershipInv, ChangeOK, Uncommitted
<1>4. QED
    BY <1>1, <1>3 DEF MembershipInv, ChangeOK

\* A new configuration is appended while nothing else is under way.
LEMMA AppendConfKeeps ==
    ASSUME MembershipInv, ~changing[Leader], UNCHANGED <<commit, conf, catching>>,
           NEW S \in SUBSET Server, Leader \in S, OneApart(log[conf[Leader]], S),
           \A i \in 1..Len(log) : log[i] \cap S \subseteq log[conf[Leader]],
           NEW P, P = peers \/ (P = {} /\ S = {Leader}),
           NEW ps, PeersFit(ps, Len(log)),
           \A s \in Other : peer[s].next >= 1 => ps[s].next >= 1,
           NEW rs, \A m \in rs : ReqOK(m) /\ (m.live => AwaitOK(m) /\ ~Ext(m)),
           resps' \subseteq resps, \A r \in resps' : ~Ext(r.req),
           AppendConf(S, P, ps, rs),
           join' \in Invitation, join'.next <= Len(log) + 1
    PROVE  /\ IndexesOK' /\ PeersOK' /\ LogOK' /\ ChangeOK'
           /\ MsgsOK' /\ AwaitsOK' /\ OneExt'
           /\ changing' = [changing EXCEPT ![Leader] = TRUE]
<1>1. /\ log \in Seq(SUBSET Server) /\ Len(log) \in Nat
      /\ quick[Leader] \in Nat /\ conf[Leader] \in Confs /\ Leader \in Server
      /\ commit[Leader] \in Nat /\ conf[Leader] <= commit[Leader]
      /\ quick[Leader] <= Len(log) /\ commit[Leader] <= quick[Leader]
      /\ peers \subseteq Other /\ len[Leader] = Len(log)
      /\ peers \subseteq log[conf[Leader]]
    BY LeaderFacts
<1>2. Uncommitted = {} /\ \A i \in Confs : i <= conf[Leader]
    BY LastConfiguration
<1>3. peers = log[conf[Leader]] \ {Leader}
    BY LastConfiguration
<1>4. /\ log' = Append(log, S)
      /\ len' = [len EXCEPT ![Leader] = @ + 1]
      /\ changing' = [changing EXCEPT ![Leader] = TRUE]
      /\ SendAppend(P, log', IF P = {} THEN Len(log') ELSE quick[Leader], P, ps, rs)
    BY Zenon DEF AppendConf, RequestAppendEntries
<1>5. Grows
    BY <1>4 DEF Grows
<1>6. /\ log' \in Seq(SUBSET Server) /\ Len(log') = Len(log) + 1
      /\ log'[Len(log) + 1] = S
      /\ \A i \in 1..Len(log) : log'[i] = log[i]
    BY <1>1, <1>4, AppendProperties
<1>7. len' = [len EXCEPT ![Leader] = Len(log')]
    BY <1>1, <1>4, <1>6
<1>8. PICK qc \in Nat : qc = IF P = {} THEN Len(log') ELSE quick[Leader]
    BY <1>1, <1>6
<1>9. SendAppend(P, log', qc, P, ps, rs)
    BY <1>4, <1>8
<1>10. quick[Leader] <= qc /\ qc <= Len(log')
    BY <1>1, <1>6, <1>8
<1>11. P \in SUBSET Other /\ \A s \in P : WasMember(s)
    BY <1>1, PeersWereMembers
<1>12. join'.next <= Len(log') + 1
    <2>1. join'.next \in Nat
        BY DEF Invitation
    <2>2. QED
        BY <1>1, <1>6, <2>1
<1>13. \A m \in rs : ReqOK(m) /\ (m.live => AwaitOK(m))
    OBVIOUS
<1>14. \A s \in Other : peer[s].next >= 1 =>
           ps[s].next >= 1 \/ (s \in P /\ ~ps[s].busy)
    OBVIOUS
<1>15. UNCHANGED <<commit, conf>>
    OBVIOUS
<1>16. /\ IndexesOK' /\ PeersOK' /\ MsgsOK'
       /\ peers' = P /\ quick'[Leader] = qc
       /\ \A m \in reqs' : m \in rs \/ m.type = "append"
       /\ \A m \in reqs' : m.live /\ ~Ext(m) => AwaitOK(m)'
       /\ \A r \in resps' : ~Ext(r.req) => AwaitOK(r.req)'
    BY <1>5, <1>7, <1>9, <1>10, <1>11, <1>12, <1>13, <1>14, <1>15, SendKeeps
<1>17. AwaitsOK' /\ OneExt'
    <2>1. \A m \in reqs' : m.live => ~Ext(m)
        BY <1>16 DEF Ext
    <2>2. QED
        BY <1>16, <2>1, NoExtLeft
<1>18. LogOK'
    <2>1. PICK c \in 1..Len(log) : c = conf[Leader] /\ log[c] # {}
        BY <1>1, ConfsNat
    <2>2. \A i \in 1..Len(log) : log[i] # {} => i <= c
        BY <1>2, <2>1 DEF Confs
    <2>3. LogFine(log)
        BY DEF MembershipInv, LogOK
    <2>4. LogFine(Append(log, S))
        BY <2>1, <2>2, <2>3, NewConfiguration
    <2>5. QED
        BY <1>4, <2>4 DEF LogOK
<1>19. ChangeOK'
    <2>1. Confs' = Confs \cup {Len(log) + 1}
        BY <1>1, <1>6 DEF Confs
    <2>2. commit'[Leader] = commit[Leader] /\ conf'[Leader] = conf[Leader]
        OBVIOUS
    <2>3. Uncommitted' = {Len(log) + 1}
        BY <1>1, <1>2, <2>1, <2>2 DEF Uncommitted
    <2>4. changing'[Leader] = TRUE
        BY <1>1, <1>4 DEF MembershipInv, RestOK
    <2>5. conf[Leader] \in 1..Len(log) /\ log'[conf'[Leader]] = log[conf[Leader]]
        BY <1>1, <1>6, <2>2, ConfsNat
    <2>6. \/ peers' = log'[conf'[Leader]] \ {Leader}
          \/ peers' = {} /\ \E i \in Uncommitted' : log'[i] = {Leader}
        BY <1>3, <1>6, <1>16, <2>3, <2>5
    <2>7. \A i \in Confs' : i <= conf'[Leader] \/ i > commit'[Leader]
        BY <1>1, <1>2, <2>1, <2>2
    <2>8. ~catching'[Leader]
        BY DEF MembershipInv, ChangeOK
    <2>9. conf'[Leader] \in Confs' /\ conf'[Leader] <= commit'[Leader]
        BY <1>1, <2>1, <2>2
    <2>10. QED
        BY <2>3, <2>4, <2>6, <2>7, <2>8, <2>9 DEF ChangeOK
<1>20. QED
    BY <1>4, <1>16, <1>17, <1>18, <1>19

-----------------------------------------------------------------------------
(* The steps of the leader's application and its timers. *)

\* The first message of a change.
LEMMA FirstMessage ==
    ASSUME MembershipInv, Idle, NEW k, ReqOK(k)', AwaitOK(k)',
           reqs' = reqs \cup {k},
           UNCHANGED <<log, quick, conf, changing, peers, peer, resps>>
    PROVE  MsgsOK' /\ AwaitsOK' /\ OneExt'
<1>1. /\ \A m \in reqs : ReqOK(m) /\ (m.live => AwaitOK(m))
      /\ \A r \in resps : RespOK(r) /\ AwaitOK(r.req)
    BY DEF MembershipInv, MsgsOK, AwaitsOK
<1>2. \A m : ReqOK(m) => ReqOK(m)'
    BY DEF ReqOK, WasMember, Confs
<1>3. \A r : RespOK(r) => RespOK(r)'
    BY <1>2 DEF RespOK
<1>4. MsgsOK'
    BY <1>1, <1>2, <1>3 DEF MsgsOK
<1>5. \A m : m.type = "append" /\ AwaitOK(m) => AwaitOK(m)'
    BY DEF AwaitOK
<1>6. AwaitsOK'
    BY <1>1, <1>5 DEF AwaitsOK, Idle
<1>7. OneExt'
    BY DEF OneExt, Ext, Idle
<1>8. QED
    BY <1>4, <1>6, <1>7

\* handle_add_srv_req
LEMMA AddSrvKeeps ==
    ASSUME MembershipInv, ChangesSerialized, NEW s \in Other, HandleAddSrvReq(s)
    PROVE  MembershipInv'
<1>1. PICK k : k = [type |-> "join", srv |-> s, conf |-> conf[Leader], live |-> TRUE]
    OBVIOUS
<1>2. /\ Idle /\ ~changing[Leader] /\ Unknown(s)
      /\ changes' = changes + 1
      /\ join' = [NoJoin EXCEPT !.srv = s]
      /\ reqs' = reqs \cup {k}
      /\ UNCHANGED <<log, len, quick, commit, conf, changing, catching, steps,
                     down, peers, peer, resps, faults, declined>>
    BY <1>1 DEF HandleAddSrvReq, CanChange, Unknown
<1>3. RestOK'
    BY <1>2 DEF MembershipInv, RestOK
<1>4. IndexesOK' /\ LogOK' /\ ChangeOK'
    BY <1>2 DEF MembershipInv, IndexesOK, LogOK, ChangeOK, Confs, Uncommitted
<1>5. join' = [srv |-> s, next |-> 0, slow |-> 0]
    BY <1>2 DEF NoJoin
<1>6. PeersOK'
    <2>1. join' \in Invitation
        BY <1>5, MembershipAssumption DEF Invitation
    <2>2. join'.next <= Len(log') + 1
        BY <1>2, <1>5, LeaderFacts
    <2>3. QED
        BY <1>2, <2>1, <2>2 DEF MembershipInv, PeersOK
<1>7. /\ conf[Leader] \in Confs /\ conf[Leader] \in Nat
      /\ conf[Leader] <= quick[Leader]
    BY LeaderFacts
<1>8. k \in Request /\ k.type = "join" /\ k.srv = s /\ k.conf = conf[Leader]
    BY <1>1, <1>7 DEF Request, JoinMsg
<1>9. ReqOK(k)'
    BY <1>2, <1>7, <1>8 DEF ReqOK, Confs
<1>10. AwaitOK(k)'
    BY <1>2, <1>5, <1>8 DEF AwaitOK, Unknown, Confs
<1>11. MsgsOK' /\ AwaitsOK' /\ OneExt'
    BY <1>2, <1>9, <1>10, FirstMessage
<1>12. QED
    BY <1>3, <1>4, <1>6, <1>11 DEF MembershipInv

\* handle_rm_srv_req
LEMMA RmSrvKeeps ==
    ASSUME MembershipInv, ChangesSerialized, NEW s \in Other, HandleRmSrvReq(s)
    PROVE  MembershipInv'
<1>1. PICK k : k = [type |-> "leave", srv |-> s, live |-> TRUE]
    OBVIOUS
<1>2. /\ Idle /\ ~changing[Leader] /\ s \in peers
      /\ changes' = changes + 1
      /\ reqs' = reqs \cup {k}
      /\ UNCHANGED <<log, len, quick, commit, conf, changing, catching, steps,
                     down, peers, peer, join, resps, faults, declined>>
    BY <1>1 DEF HandleRmSrvReq, CanChange
<1>3. RestOK'
    BY <1>2 DEF MembershipInv, RestOK
<1>4. IndexesOK' /\ LogOK' /\ ChangeOK' /\ PeersOK'
    BY <1>2 DEF MembershipInv, IndexesOK, LogOK, ChangeOK, PeersOK, Confs,
                Uncommitted
<1>5. k \in Request /\ k.type = "leave" /\ k.srv = s
    BY <1>1 DEF Request, LeaveMsg
<1>6. ReqOK(k)' /\ AwaitOK(k)'
    BY <1>2, <1>5 DEF ReqOK, AwaitOK
<1>7. MsgsOK' /\ AwaitsOK' /\ OneExt'
    BY <1>2, <1>6, FirstMessage
<1>8. QED
    BY <1>3, <1>4, <1>7 DEF MembershipInv

\* Requests and responses that were there before are as they should be.
LEMMA OldMessages ==
    ASSUME MembershipInv
    PROVE  /\ \A m \in reqs : ReqOK(m) /\ (m.live => AwaitOK(m)) /\ m \in Request
           /\ \A r \in resps : /\ RespOK(r) /\ AwaitOK(r.req) /\ r \in Response
                               /\ r.req \in Request /\ r.req.live /\ ReqOK(r.req)
BY DEF MembershipInv, MsgsOK, AwaitsOK, ReqOK, RespOK

\* Sending append requests about the log as it is, or with a client's entry.
LEMMA PlainSend ==
    ASSUME MembershipInv, log' = log \/ log' = Append(log, {}),
           len' = [len EXCEPT ![Leader] = Len(log')],
           UNCHANGED <<commit, conf, changing, catching, join>>,
           NEW dests \in SUBSET peers,
           NEW qc \in Nat, quick[Leader] <= qc, qc <= Len(log'),
           NEW ps, PeersFit(ps, Len(log)),
           \A s \in Other : peer[s].next >= 1 =>
               ps[s].next >= 1 \/ (s \in dests /\ ~ps[s].busy),
           resps' \subseteq resps,
           SendAppend(dests, log', qc, peers, ps, reqs)
    PROVE  /\ IndexesOK' /\ PeersOK' /\ LogOK' /\ ChangeOK'
           /\ MsgsOK' /\ AwaitsOK' /\ OneExt'
<1>1. /\ peers \subseteq Other /\ log \in Seq(SUBSET Server)
      /\ Len(log) \in Nat
    BY LeaderFacts
<1>2. Grows
    BY DEF Grows
<1>3. Len(log') \in Nat /\ Len(log) <= Len(log')
    BY <1>1, <1>2, GrowsKeeps
<1>4. join' \in Invitation /\ join'.next <= Len(log') + 1
    <2>1. join \in Invitation /\ join.next <= Len(log) + 1
        BY DEF MembershipInv, PeersOK
    <2>2. join.next \in Nat
        BY <2>1 DEF Invitation
    <2>3. QED
        BY <1>1, <1>3, <2>1, <2>2
<1>5. dests \in SUBSET Other /\ \A s \in dests : WasMember(s)
    BY <1>1, PeersWereMembers
<1>6. PICK P \in SUBSET Other : P = peers
    BY <1>1
<1>7. PICK rs : rs = reqs
    OBVIOUS
<1>8. SendAppend(dests, log', qc, P, ps, rs)
    BY <1>6, <1>7
<1>9. \A m \in rs : ReqOK(m) /\ (m.live => AwaitOK(m))
    BY <1>7, OldMessages
<1>10. UNCHANGED <<commit, conf>>
    OBVIOUS
<1>11. /\ IndexesOK' /\ PeersOK' /\ MsgsOK'
       /\ peers' = P
       /\ \A m \in reqs' : m \in rs \/ m.type = "append"
       /\ \A m \in reqs' : m.live /\ ~Ext(m) => AwaitOK(m)'
       /\ \A r \in resps' : ~Ext(r.req) => AwaitOK(r.req)'
    BY <1>2, <1>4, <1>5, <1>8, <1>9, <1>10, SendKeeps
<1>12. /\ ChangeOK /\ LogOK /\ AwaitsOK /\ OneExt
    BY DEF MembershipInv
<1>13. ChangeOK' /\ LogOK' /\ \A s : Unknown(s) => Unknown(s)'
    BY <1>6, <1>11, <1>12, ChangeStays
<1>14. AwaitsOK' /\ OneExt'
    <2>1. \A m \in reqs' : m \in reqs \/ m.type = "append" \/ ~m.live
        BY <1>7, <1>11
    <2>2. peers \subseteq peers' /\ join'.srv = join.srv
        BY <1>6, <1>11
    <2>3. ~changing[Leader] => ~changing'[Leader]
        OBVIOUS
    <2>4. QED
        BY <1>11, <1>12, <1>13, <2>1, <2>2, <2>3, ExtStays
<1>15. QED
    BY <1>11, <1>13, <1>14

\* handle_cli_req
LEMMA CliKeeps ==
    ASSUME MembershipInv, HandleCliReq
    PROVE  MembershipInv'
<1>1. /\ log' = Append(log, {}) /\ len' = [len EXCEPT ![Leader] = @ + 1]
      /\ SendAppend(peers, log', IF peers = {} THEN Len(log') ELSE quick[Leader],
                    peers, peer, reqs)
      /\ UNCHANGED <<commit, conf, changing, catching, steps, down, join, resps,
                     changes, faults, declined>>
    BY Zenon DEF HandleCliReq, RequestAppendEntries
<1>2. RestOK'
    BY <1>1 DEF MembershipInv, RestOK
<1>3. /\ log \in Seq(SUBSET Server) /\ Len(log) \in Nat /\ quick[Leader] \in Nat
      /\ quick[Leader] <= Len(log) /\ len[Leader] = Len(log)
    BY LeaderFacts
<1>4. Len(log') = Len(log) + 1
    BY <1>1, <1>3, AppendProperties
<1>5. len' = [len EXCEPT ![Leader] = Len(log')]
    BY <1>1, <1>3, <1>4
<1>6. PICK qc \in Nat : qc = IF peers = {} THEN Len(log') ELSE quick[Leader]
    BY <1>3, <1>4
<1>7. quick[Leader] <= qc /\ qc <= Len(log')
    BY <1>3, <1>4, <1>6
<1>8. PICK ps : ps = peer
    OBVIOUS
<1>9. PICK dests \in SUBSET peers : dests = peers
    OBVIOUS
<1>10. SendAppend(dests, log', qc, peers, ps, reqs)
    BY <1>1, <1>6, <1>8, <1>9
<1>11. PeersFit(ps, Len(log)) /\ \A s \in Other : peer[s].next >= 1 => ps[s].next >= 1
    BY <1>8 DEF MembershipInv, PeersOK
<1>12. /\ IndexesOK' /\ PeersOK' /\ LogOK' /\ ChangeOK'
       /\ MsgsOK' /\ AwaitsOK' /\ OneExt'
    BY <1>1, <1>5, <1>7, <1>10, <1>11, PlainSend
<1>13. QED
    BY <1>2, <1>12 DEF MembershipInv

\* handle_hb_timeout
LEMMA HbTimeoutKeeps ==
    ASSUME MembershipInv, NEW s \in Other, HandleHbTimeout(s)
    PROVE  MembershipInv'
<1>1. /\ s \in peers /\ log' = log /\ len' = len
      /\ SendAppend({s}, log, quick[Leader], peers, peer, reqs)
      /\ UNCHANGED <<commit, conf, changing, catching, steps, down,
                     join, resps, changes, faults, declined>>
    BY DEF HandleHbTimeout
<1>2. RestOK'
    BY <1>1 DEF MembershipInv, RestOK
<1>3. /\ Len(log) \in Nat /\ quick[Leader] \in Nat /\ quick[Leader] <= Len(log)
      /\ len[Leader] = Len(log) /\ Leader \in Server
    BY LeaderFacts
<1>4. len' = [len EXCEPT ![Leader] = Len(log')]
    <2>1. len \in [Server -> Nat]
        BY DEF MembershipInv, IndexesOK
    <2>2. QED
        BY <1>1, <1>3, <2>1
<1>5. PICK qc \in Nat : qc = quick[Leader]
    BY <1>3
<1>6. PICK ps : ps = peer
    OBVIOUS
<1>7. PICK dests \in SUBSET peers : dests = {s}
    BY <1>1
<1>8. SendAppend(dests, log', qc, peers, ps, reqs)
    BY <1>1, <1>5, <1>6, <1>7
<1>9. PeersFit(ps, Len(log)) /\ \A t \in Other : peer[t].next >= 1 => ps[t].next >= 1
    BY <1>6 DEF MembershipInv, PeersOK
<1>10. quick[Leader] <= qc /\ qc <= Len(log')
    BY <1>1, <1>3, <1>5
<1>11. /\ IndexesOK' /\ PeersOK' /\ LogOK' /\ ChangeOK'
       /\ MsgsOK' /\ AwaitsOK' /\ OneExt'
    BY <1>1, <1>4, <1>8, <1>9, <1>10, PlainSend
<1>12. QED
    BY <1>2, <1>11 DEF MembershipInv

-----------------------------------------------------------------------------
(* The steps of the other servers. *)

\* An answer takes the place of its request.
LEMMA ReplyKeeps ==
    ASSUME MembershipInv, NEW m \in reqs, NEW ok \in BOOLEAN, NEW next \in Nat,
           Reply(m, ok, next), next <= Len(log) + 1,
           m.type = "append" => next >= 1 /\ (ok => next = m.prev + m.n + 1),
           m.type = "sync" => next = IF ok THEN m.start + m.n ELSE 0,
           UNCHANGED <<log, peers, peer, join>>,
           changing'[Leader] = changing[Leader],
           quick'[Leader] = quick[Leader], conf'[Leader] = conf[Leader]
    PROVE  /\ MsgsOK' /\ AwaitsOK' /\ OneExt'
<1>1. PICK k : k = [req |-> m, ok |-> ok, next |-> next]
    OBVIOUS
<1>2. /\ reqs' = reqs \ {m}
      /\ resps' = IF m.live THEN resps \cup {k} ELSE resps
    BY <1>1 DEF Reply
<1>3. /\ m \in Request /\ ReqOK(m) /\ (m.live => AwaitOK(m))
      /\ \A q \in reqs : ReqOK(q) /\ (q.live => AwaitOK(q))
      /\ \A r \in resps : RespOK(r) /\ AwaitOK(r.req)
    BY OldMessages
<1>4. /\ k \in Response /\ k.req = m /\ k.ok = ok /\ k.next = next
    BY <1>1, <1>3 DEF Response
<1>5. m.live => RespOK(k) /\ AwaitOK(k.req)
    BY <1>3, <1>4 DEF RespOK
<1>6. \A q : ReqOK(q) => ReqOK(q)'
    BY DEF ReqOK, WasMember, Confs
<1>7. \A r : RespOK(r) => RespOK(r)'
    BY <1>6 DEF RespOK
<1>8. \A q : AwaitOK(q) => AwaitOK(q)'
    BY DEF AwaitOK, Unknown, Confs
<1>9. MsgsOK'
    BY <1>2, <1>3, <1>5, <1>6, <1>7 DEF MsgsOK
<1>10. AwaitsOK'
    BY <1>2, <1>3, <1>5, <1>8 DEF AwaitsOK
<1>11. OneExt
    BY DEF MembershipInv
<1>12. OneExt'
    <2>1. \A q \in reqs' : q \in reqs /\ q # m
        BY <1>2
    <2>2. \A r \in resps' : r \in resps \/ (r = k /\ m.live)
        BY <1>2
    <2>3. \A q, p \in reqs' : q.live /\ p.live /\ Ext(q) /\ Ext(p) => q = p
        BY <1>11, <2>1 DEF OneExt
    <2>4. \A r, q \in resps' : Ext(r.req) /\ Ext(q.req) => r = q
        BY <1>4, <1>11, <2>2 DEF OneExt
    <2>5. \A q \in reqs', r \in resps' : ~(q.live /\ Ext(q) /\ Ext(r.req))
        BY <1>4, <1>11, <2>1, <2>2 DEF OneExt
    <2>6. QED
        BY <2>3, <2>4, <2>5 DEF OneExt
<1>13. QED
    BY <1>9, <1>10, <1>12

\* The larger of two numbers.
LEMMA LargerFacts ==
    ASSUME NEW a \in Nat, NEW b \in Nat
    PROVE  /\ Larger(a, b) \in Nat /\ Larger(a, b) >= a /\ Larger(a, b) >= b
           /\ Larger(a, b) = a \/ Larger(a, b) = b
BY DEF Larger

\* Another server than the leader takes up new indexes.
LEMMA FollowerIndexes ==
    ASSUME MembershipInv, NEW s \in Other, NEW nl \in Nat, NEW nq \in Nat,
           NEW nc \in Nat, NEW nf \in Nat,
           log' = log, len' = [len EXCEPT ![s] = nl],
           quick' = [quick EXCEPT ![s] = nq],
           commit' = [commit EXCEPT ![s] = nc],
           conf' = [conf EXCEPT ![s] = nf],
           nl <= Len(log), nq <= quick[Leader], nc <= nq,
           nf \in Confs \cup {0}, nf <= quick[Leader]
    PROVE  /\ IndexesOK'
           /\ quick'[Leader] = quick[Leader] /\ conf'[Leader] = conf[Leader]
           /\ commit'[Leader] = commit[Leader]
<1>1. Leader \in Server /\ s \in Server /\ s # Leader
    BY ServerFacts
<1>2. IndexesOK
    BY DEF MembershipInv
<1>3. Confs' = Confs
    BY DEF Confs
<1>4. /\ len' \in [Server -> Nat] /\ quick' \in [Server -> Nat]
      /\ commit' \in [Server -> Nat] /\ conf' \in [Server -> Nat]
      /\ len'[s] = nl /\ quick'[s] = nq /\ commit'[s] = nc /\ conf'[s] = nf
      /\ \A t \in Server : t # s =>
             /\ len'[t] = len[t] /\ quick'[t] = quick[t]
             /\ commit'[t] = commit[t] /\ conf'[t] = conf[t]
    BY <1>1, <1>2 DEF IndexesOK
<1>5. quick'[Leader] = quick[Leader] /\ len'[Leader] = len[Leader]
    BY <1>1, <1>4
<1>6. ASSUME NEW t \in Server
      PROVE  /\ len'[t] <= Len(log') /\ quick'[t] <= quick'[Leader]
             /\ commit'[t] <= quick'[t] /\ conf'[t] \in Confs' \cup {0}
             /\ conf'[t] <= quick'[Leader]
    <2>1. CASE t = s
        BY <1>3, <1>4, <1>5, <2>1
    <2>2. CASE t # s
        BY <1>2, <1>3, <1>4, <1>5, <2>2 DEF IndexesOK
    <2>3. QED
        BY <2>1, <2>2
<1>7. len'[Leader] = Len(log') /\ quick'[Leader] <= Len(log')
    BY <1>2, <1>5 DEF IndexesOK
<1>8. QED
    BY <1>1, <1>4, <1>6, <1>7 DEF IndexesOK

\* The indexes of a server are natural numbers.
LEMMA IndexTypes ==
    ASSUME MembershipInv, NEW s \in Server
    PROVE  /\ len[s] \in Nat /\ quick[s] \in Nat /\ commit[s] \in Nat
           /\ conf[s] \in Nat /\ len[s] <= Len(log) /\ quick[s] <= quick[Leader]
           /\ commit[s] <= quick[s] /\ conf[s] \in Confs \cup {0}
           /\ conf[s] <= quick[Leader]
           /\ len = [len EXCEPT ![s] = len[s]]
           /\ quick = [quick EXCEPT ![s] = quick[s]]
           /\ commit = [commit EXCEPT ![s] = commit[s]]
           /\ conf = [conf EXCEPT ![s] = conf[s]]
BY DEF MembershipInv, IndexesOK

\* Parts that a server's handler leaves alone.
LEMMA LeaderStays ==
    ASSUME MembershipInv, UNCHANGED <<log, peers, peer, join>>,
           changing'[Leader] = changing[Leader],
           catching'[Leader] = catching[Leader],
           conf'[Leader] = conf[Leader], commit'[Leader] = commit[Leader]
    PROVE  PeersOK' /\ LogOK' /\ ChangeOK'
<1>1. ChangeOK /\ LogOK /\ PeersOK
    BY DEF MembershipInv
<1>2. PeersOK'
    BY <1>1 DEF PeersOK
<1>3. QED
    BY <1>1, <1>2, ChangeStays

\* handle_append_entries
LEMMA AppendEntriesKeeps ==
    ASSUME MembershipInv, NEW m \in reqs, HandleAppendEntries(m)
    PROVE  MembershipInv'
<1>1. PICK s : s = m.srv
    OBVIOUS
<1>2. PICK okay \in BOOLEAN : okay = (m.prev <= len[s])
    <2>1. m.prev \in Nat /\ len[s] \in Nat
        <3>1. m.type = "append"
            BY DEF HandleAppendEntries
        <3>2. m.prev \in Nat /\ m.srv \in Other
            BY <3>1, OldMessages, RequestFields
        <3>3. QED
            BY <1>1, <3>2, ServerFacts, IndexTypes
    <2>2. (m.prev <= len[s]) \in BOOLEAN
        BY <2>1
    <2>3. QED
        BY <2>2, Zenon
<1>3. PICK end : end = m.prev + m.n
    OBVIOUS
<1>4. /\ m.type = "append"
      /\ steps' = [steps EXCEPT ![s] = IF @ > 0 THEN 2 ELSE 0]
      /\ len' = [len EXCEPT ![s] = IF okay THEN Larger(@, end) ELSE @]
      /\ changing' = [changing EXCEPT ![s] =
             @ \/ (okay /\ \E i \in (len[s] + 1)..end : i \in Confs)]
      /\ quick' = [quick EXCEPT ![s] = IF okay THEN Larger(@, m.commit) ELSE @]
      /\ Reply(m, okay, IF okay THEN end + 1 ELSE len[s] + 1)
      /\ UNCHANGED <<log, commit, conf, catching, down, peers, peer, join,
                     changes, faults, declined>>
    BY <1>1, <1>2, <1>3, Zenon DEF HandleAppendEntries
<1>5. /\ m \in Request /\ ReqOK(m) /\ m.srv \in Other
      /\ m.prev \in Nat /\ m.n \in Nat /\ m.commit \in Nat
    BY <1>4, OldMessages, RequestFields
<1>6. end \in Nat /\ end <= Len(log) /\ m.commit <= quick[Leader]
    BY <1>3, <1>4, <1>5 DEF ReqOK
<1>7. s \in Other /\ s \in Server /\ s # Leader /\ Leader \in Server
    BY <1>1, <1>5, ServerFacts
<1>8. /\ len[s] \in Nat /\ quick[s] \in Nat /\ commit[s] \in Nat
      /\ conf[s] \in Nat /\ len[s] <= Len(log) /\ quick[s] <= quick[Leader]
      /\ commit[s] <= quick[s] /\ conf[s] \in Confs \cup {0}
      /\ conf[s] <= quick[Leader]
      /\ commit = [commit EXCEPT ![s] = commit[s]]
      /\ conf = [conf EXCEPT ![s] = conf[s]]
    BY <1>7, IndexTypes
<1>9. PICK nl \in Nat : /\ nl = IF okay THEN Larger(len[s], end) ELSE len[s]
                        /\ nl <= Len(log)
    BY <1>6, <1>8, LargerFacts
<1>10. PICK nq \in Nat : /\ nq = IF okay THEN Larger(quick[s], m.commit) ELSE quick[s]
                         /\ nq <= quick[Leader] /\ commit[s] <= nq
    <2>1. PICK q \in Nat : q = Larger(quick[s], m.commit)
        BY <1>5, <1>8, LargerFacts
    <2>2. q <= quick[Leader] /\ commit[s] <= q
        <3>1. (q = quick[s] \/ q = m.commit) /\ q >= quick[s]
            BY <1>5, <1>8, <2>1, LargerFacts
        <3>2. QED
            BY <1>6, <1>8, <3>1
    <2>3. QED
        BY <1>8, <2>1, <2>2
<1>11. PICK nc \in Nat, nf \in Nat : nc = commit[s] /\ nf = conf[s]
    BY <1>8
<1>12. /\ len' = [len EXCEPT ![s] = nl] /\ quick' = [quick EXCEPT ![s] = nq]
       /\ commit' = [commit EXCEPT ![s] = nc] /\ conf' = [conf EXCEPT ![s] = nf]
       /\ log' = log
    BY <1>4, <1>8, <1>9, <1>10, <1>11
<1>13. nc <= nq /\ nf \in Confs \cup {0} /\ nf <= quick[Leader]
    BY <1>8, <1>10, <1>11
<1>14. /\ IndexesOK' /\ quick'[Leader] = quick[Leader]
       /\ conf'[Leader] = conf[Leader] /\ commit'[Leader] = commit[Leader]
    BY <1>7, <1>9, <1>10, <1>12, <1>13, FollowerIndexes
<1>15. RestOK
    BY DEF MembershipInv
<1>16. RestOK' /\ changing'[Leader] = changing[Leader]
    <2>1. PICK b \in BOOLEAN :
              b = (changing[s] \/ (okay /\ \E i \in (len[s] + 1)..end : i \in Confs))
        BY <1>7, <1>15 DEF RestOK
    <2>2. changing' = [changing EXCEPT ![s] = b]
        BY <1>4, <2>1
    <2>3. changing' \in [Server -> BOOLEAN] /\ changing'[Leader] = changing[Leader]
        BY <1>7, <1>15, <2>2 DEF RestOK
    <2>4. steps' \in [Server -> 0..2]
        BY <1>4, <1>7, <1>15 DEF RestOK
    <2>5. QED
        BY <1>4, <1>15, <2>3, <2>4 DEF RestOK
<1>17. PICK next \in Nat : next = IF okay THEN end + 1 ELSE len[s] + 1
    BY <1>6, <1>8
<1>18. Reply(m, okay, next) /\ next <= Len(log) + 1 /\ next >= 1
       /\ (okay => next = m.prev + m.n + 1)
    BY <1>3, <1>4, <1>6, <1>8, <1>17, LeaderFacts
<1>19. MsgsOK' /\ AwaitsOK' /\ OneExt'
    BY <1>4, <1>14, <1>16, <1>18, ReplyKeeps
<1>20. PeersOK' /\ LogOK' /\ ChangeOK'
    BY <1>4, <1>14, <1>16, LeaderStays
<1>21. QED
    BY <1>14, <1>16, <1>19, <1>20 DEF MembershipInv

\* handle_join_cluster_req
LEMMA JoinClusterKeeps ==
    ASSUME MembershipInv, NEW m \in reqs, HandleJoinClusterReq(m)
    PROVE  MembershipInv'
<1>1. PICK s : s = m.srv
    OBVIOUS
<1>2. /\ m.type = "join"
      /\ IF catching[s] THEN UNCHANGED <<catching, commit, quick, conf>>
         ELSE /\ catching' = [catching EXCEPT ![s] = TRUE]
              /\ commit' = [commit EXCEPT ![s] = 0]
              /\ quick' = [quick EXCEPT ![s] = 0]
              /\ conf' = [conf EXCEPT ![s] = m.conf]
      /\ Reply(m, ~catching[s], 0)
      /\ UNCHANGED <<log, len, changing, steps, down, peers, peer, join,
                     changes, faults, declined>>
    BY <1>1, Zenon DEF HandleJoinClusterReq
<1>3. /\ m \in Request /\ ReqOK(m) /\ m.srv \in Other /\ m.conf \in Nat
      /\ m.conf \in Confs /\ m.conf <= quick[Leader]
    BY <1>2, OldMessages, RequestFields DEF ReqOK
<1>4. s \in Other /\ s \in Server /\ s # Leader /\ Leader \in Server
    BY <1>1, <1>3, ServerFacts
<1>5. RestOK
    BY DEF MembershipInv
<1>6. RestOK' /\ catching'[Leader] = catching[Leader]
    BY <1>2, <1>4, <1>5 DEF RestOK
<1>7. /\ IndexesOK' /\ quick'[Leader] = quick[Leader]
      /\ conf'[Leader] = conf[Leader] /\ commit'[Leader] = commit[Leader]
    <2>1. CASE catching[s]
        BY <1>2, <2>1 DEF MembershipInv, IndexesOK, Confs
    <2>2. CASE ~catching[s]
        <3>1. /\ len[s] \in Nat /\ len[s] <= Len(log)
              /\ len = [len EXCEPT ![s] = len[s]]
            BY <1>4, IndexTypes
        <3>2. PICK nl \in Nat, nf \in Nat : nl = len[s] /\ nf = m.conf
            BY <1>3, <3>1
        <3>3. PICK z \in Nat : z = 0
            OBVIOUS
        <3>4. /\ len' = [len EXCEPT ![s] = nl] /\ quick' = [quick EXCEPT ![s] = z]
              /\ commit' = [commit EXCEPT ![s] = z]
              /\ conf' = [conf EXCEPT ![s] = nf] /\ log' = log
            BY <1>2, <2>2, <3>1, <3>2, <3>3
        <3>5. /\ nl <= Len(log) /\ z <= quick[Leader] /\ z <= z
              /\ nf \in Confs \cup {0} /\ nf <= quick[Leader]
            BY <1>3, <3>1, <3>2, <3>3, LeaderFacts
        <3>6. QED
            BY <1>4, <3>4, <3>5, FollowerIndexes
    <2>3. QED
        BY <2>1, <2>2
<1>8. MsgsOK' /\ AwaitsOK' /\ OneExt'
    <2>1. (~catching[s]) \in BOOLEAN
        BY <1>4, <1>5 DEF RestOK
    <2>2. PICK ok \in BOOLEAN : ok = ~catching[s]
        BY <2>1, Zenon
    <2>3. PICK z \in Nat : z = 0
        OBVIOUS
    <2>4. Reply(m, ok, z) /\ z <= Len(log) + 1
        BY <1>2, <2>2, <2>3, LeaderFacts
    <2>5. QED
        BY <1>2, <1>7, <2>4, ReplyKeeps
<1>9. PeersOK' /\ LogOK' /\ ChangeOK'
    BY <1>2, <1>6, <1>7, LeaderStays
<1>10. QED
    BY <1>6, <1>7, <1>8, <1>9 DEF MembershipInv

\* The pack of a sync_log_request ends within what the leader committed.
LEMMA PackEnds ==
    ASSUME MembershipInv, NEW m \in Request, ReqOK(m), m.type = "sync"
    PROVE  /\ m.start \in Nat /\ m.n \in Nat /\ m.start >= 1 /\ m.n >= 1
           /\ PackEnd(m.start, m.n) \in Nat
           /\ PackEnd(m.start, m.n) + 1 = m.start + m.n
           /\ PackEnd(m.start, m.n) < quick[Leader]
           /\ PackEnd(m.start, m.n) < Len(log)
<1>1. /\ m.start \in Nat /\ m.n \in Nat /\ m.start >= 1 /\ m.n >= 1
      /\ m.start + m.n <= quick[Leader]
    BY RequestFields DEF ReqOK
<1>2. QED
    BY <1>1, LeaderFacts DEF PackEnd

\* handle_log_sync_req
LEMMA LogSyncKeeps ==
    ASSUME MembershipInv, NEW m \in reqs, HandleLogSyncReq(m)
    PROVE  MembershipInv'
<1>1. PICK s : s = m.srv
    OBVIOUS
<1>2. m.type = "sync"
    BY DEF HandleLogSyncReq
<1>3. m \in Request /\ ReqOK(m) /\ m.srv \in Other
    BY OldMessages, RequestFields
<1>4. PICK end \in Nat : end = PackEnd(m.start, m.n)
    BY <1>2, <1>3, PackEnds
<1>5. /\ len' = [len EXCEPT ![s] = IF catching[s] THEN end ELSE @]
      /\ quick' = [quick EXCEPT ![s] = IF catching[s] THEN Larger(@, end) ELSE @]
      /\ Reply(m, catching[s], IF catching[s] THEN end + 1 ELSE 0)
      /\ UNCHANGED <<log, commit, conf, changing, catching, steps, down,
                     peers, peer, join, changes, faults, declined>>
    BY <1>1, <1>4, Zenon DEF HandleLogSyncReq
<1>6. end + 1 = m.start + m.n /\ end <= quick[Leader] /\ end + 1 <= Len(log) + 1
    BY <1>2, <1>3, <1>4, PackEnds, LeaderFacts
<1>7. s \in Other /\ s \in Server /\ s # Leader /\ Leader \in Server
    BY <1>1, <1>3, ServerFacts
<1>8. RestOK /\ RestOK'
    BY <1>5 DEF MembershipInv, RestOK
<1>9. /\ IndexesOK' /\ quick'[Leader] = quick[Leader]
      /\ conf'[Leader] = conf[Leader] /\ commit'[Leader] = commit[Leader]
    <2>1. /\ len[s] \in Nat /\ quick[s] \in Nat /\ commit[s] \in Nat
          /\ conf[s] \in Nat /\ len[s] <= Len(log) /\ quick[s] <= quick[Leader]
          /\ commit[s] <= quick[s] /\ conf[s] \in Confs \cup {0}
          /\ conf[s] <= quick[Leader]
          /\ commit = [commit EXCEPT ![s] = commit[s]]
          /\ conf = [conf EXCEPT ![s] = conf[s]]
        BY <1>7, IndexTypes
    <2>2. PICK nl \in Nat : nl = IF catching[s] THEN end ELSE len[s]
        BY <2>1
    <2>3. nl <= Len(log)
        BY <1>6, <2>1, <2>2, LeaderFacts
    <2>4. PICK q \in Nat : q = Larger(quick[s], end) /\ (q = quick[s] \/ q = end)
                           /\ q >= quick[s]
        BY <2>1, LargerFacts
    <2>5. PICK nq \in Nat : nq = IF catching[s] THEN q ELSE quick[s]
        BY <2>1
    <2>6. nq <= quick[Leader] /\ commit[s] <= nq
        BY <1>6, <2>1, <2>4, <2>5
    <2>7. PICK nc \in Nat, nf \in Nat : nc = commit[s] /\ nf = conf[s]
        BY <2>1
    <2>8. /\ len' = [len EXCEPT ![s] = nl] /\ quick' = [quick EXCEPT ![s] = nq]
          /\ commit' = [commit EXCEPT ![s] = nc] /\ conf' = [conf EXCEPT ![s] = nf]
          /\ log' = log
        BY <1>5, <2>1, <2>2, <2>4, <2>5, <2>7
    <2>9. nc <= nq /\ nf \in Confs \cup {0} /\ nf <= quick[Leader]
        BY <2>1, <2>6, <2>7
    <2>10. QED
        BY <1>7, <2>3, <2>6, <2>8, <2>9, FollowerIndexes
<1>10. MsgsOK' /\ AwaitsOK' /\ OneExt'
    <2>1. PICK ok \in BOOLEAN : ok = catching[s]
        BY <1>7, <1>8 DEF RestOK
    <2>2. PICK next \in Nat : next = IF catching[s] THEN end + 1 ELSE 0
        OBVIOUS
    <2>3. Reply(m, ok, next)
        BY <1>5, <2>1, <2>2
    <2>4. next <= Len(log) + 1 /\ next = IF ok THEN m.start + m.n ELSE 0
        BY <1>6, <2>1, <2>2, LeaderFacts
    <2>5. QED
        BY <1>2, <1>5, <1>9, <2>3, <2>4, ReplyKeeps
<1>11. PeersOK' /\ LogOK' /\ ChangeOK'
    BY <1>5, <1>9, LeaderStays
<1>12. QED
    BY <1>8, <1>9, <1>10, <1>11 DEF MembershipInv

\* Steps that leave the indexes alone.
LEMMA IndexesStay ==
    ASSUME MembershipInv, UNCHANGED <<log, len, quick, commit, conf>>
    PROVE  IndexesOK'
BY DEF MembershipInv, IndexesOK, Confs

\* handle_leave_cluster_req
LEMMA LeaveClusterKeeps ==
    ASSUME MembershipInv, NEW m \in reqs, HandleLeaveClusterReq(m)
    PROVE  MembershipInv'
<1>1. PICK s : s = m.srv
    OBVIOUS
<1>2. /\ m.type = "leave"
      /\ steps' = [steps EXCEPT ![s] = IF changing[s] THEN @ ELSE 2]
      /\ Reply(m, ~changing[s], 0)
      /\ UNCHANGED <<log, len, quick, commit, conf, changing, catching, down,
                     peers, peer, join, changes, faults, declined>>
    BY <1>1, Zenon DEF HandleLeaveClusterReq
<1>3. s \in Other /\ s \in Server
    BY <1>1, OldMessages, RequestFields, ServerFacts
<1>4. RestOK
    BY DEF MembershipInv
<1>5. RestOK'
    BY <1>2, <1>3, <1>4 DEF RestOK
<1>6. IndexesOK'
    BY <1>2, IndexesStay
<1>7. MsgsOK' /\ AwaitsOK' /\ OneExt'
    <2>1. (~changing[s]) \in BOOLEAN
        BY <1>3, <1>4 DEF RestOK
    <2>2. PICK ok \in BOOLEAN : ok = ~changing[s]
        BY <2>1, Zenon
    <2>3. PICK z \in Nat : z = 0
        OBVIOUS
    <2>4. Reply(m, ok, z) /\ z <= Len(log) + 1
        BY <1>2, <2>2, <2>3, LeaderFacts
    <2>5. QED
        BY <1>2, <2>4, ReplyKeeps
<1>8. PeersOK' /\ LogOK' /\ ChangeOK'
    BY <1>2, LeaderStays
<1>9. QED
    BY <1>5, <1>6, <1>7, <1>8 DEF MembershipInv

\* No message is added, and nothing that one relies on changes.
LEMMA MessagesStay ==
    ASSUME MembershipInv, UNCHANGED <<log, peers, peer, join>>,
           reqs' \subseteq reqs, resps' \subseteq resps,
           changing'[Leader] = changing[Leader],
           quick'[Leader] = quick[Leader], conf'[Leader] = conf[Leader]
    PROVE  MsgsOK' /\ AwaitsOK' /\ OneExt'
<1>1. \A q : ReqOK(q) => ReqOK(q)'
    BY DEF ReqOK, WasMember, Confs
<1>2. \A r : RespOK(r) => RespOK(r)'
    BY <1>1 DEF RespOK
<1>3. \A q : AwaitOK(q) => AwaitOK(q)'
    BY DEF AwaitOK, Unknown, Confs
<1>4. MsgsOK' /\ AwaitsOK'
    BY <1>1, <1>2, <1>3, OldMessages DEF MsgsOK, AwaitsOK
<1>5. OneExt'
    BY DEF MembershipInv, OneExt
<1>6. QED
    BY <1>4, <1>5

\* handle_election_timeout
LEMMA ElectionTimeoutKeeps ==
    ASSUME MembershipInv, NEW s \in Other, HandleElectionTimeout(s)
    PROVE  MembershipInv'
<1>1. /\ steps[s] > 0
      /\ steps' = [steps EXCEPT ![s] = @ - 1]
      /\ down' = IF steps[s] - 1 = 0 THEN down \cup {s} ELSE down
      /\ UNCHANGED <<log, len, quick, commit, conf, changing, catching, peers,
                     peer, join, reqs, resps, changes, faults, declined>>
    BY DEF HandleElectionTimeout, StepsLeft
<1>2. RestOK
    BY DEF MembershipInv
<1>3. RestOK'
    BY <1>1, <1>2, ServerFacts DEF RestOK
<1>4. IndexesOK' /\ PeersOK' /\ LogOK' /\ ChangeOK'
    BY <1>1, IndexesStay, LeaderStays
<1>5. MsgsOK' /\ AwaitsOK' /\ OneExt'
    BY <1>1, MessagesStay
<1>6. QED
    BY <1>3, <1>4, <1>5 DEF MembershipInv

\* A process that ends.
LEMMA CrashKeeps ==
    ASSUME MembershipInv, NEW s \in Other, Crash(s)
    PROVE  MembershipInv'
<1>1. /\ faults' = faults + 1 /\ down' = down \cup {s}
      /\ UNCHANGED <<log, len, quick, commit, conf, changing, catching, steps,
                     peers, peer, join, reqs, resps, changes, declined>>
    BY DEF Crash
<1>2. RestOK'
    BY <1>1 DEF MembershipInv, RestOK
<1>3. IndexesOK' /\ PeersOK' /\ LogOK' /\ ChangeOK'
    BY <1>1, IndexesStay, LeaderStays
<1>4. MsgsOK' /\ AwaitsOK' /\ OneExt'
    BY <1>1, MessagesStay
<1>5. QED
    BY <1>2, <1>3, <1>4 DEF MembershipInv

\* A set of natural numbers that is not empty has a least element.
LEMMA LeastNatural ==
    ASSUME NEW T \in SUBSET Nat, T # {}
    PROVE  \E x \in T : \A y \in T : x <= y
<1> DEFINE Less == {ss \in Nat \X Nat : ss[1] < ss[2]}
<1>1. OpToRel(<, Nat) = Less
    BY Zenon DEF OpToRel
<1>2. IsWellFoundedOn(Less, Nat)
    BY <1>1, NatLessThanWellFounded, Zenon
<1> HIDE DEF Less
<1>3. \E x \in T : \A y \in T : ~ (<<y, x>> \in Less)
    BY <1>2, WFMin, Zenon
<1>4. \A x, y \in Nat : x < y => <<x, y>> \in Less
    BY SMT DEF Less
<1>5. PICK x \in T : \A y \in T : ~ (<<y, x>> \in Less)
    BY <1>3, Zenon
<1>6. ASSUME NEW y \in T PROVE x <= y
    <2>1. x \in Nat /\ y \in Nat
        OBVIOUS
    <2>2. ~ (y < x)
        BY <1>4, <1>5, <2>1, Zenon
    <2>3. QED
        BY <2>1, <2>2
<1>7. QED
    BY <1>6

\* A set of natural numbers up to k that is not empty has a largest element.
LEMMA LargestNatural ==
    ASSUME NEW k \in Nat, NEW T \in SUBSET (0..k), T # {}
    PROVE  \E x \in T : \A y \in T : y <= x
<1> DEFINE U == {k - y : y \in T}
<1>1. U \in SUBSET Nat /\ U # {}
    <2>1. \A y \in T : k - y \in Nat
        OBVIOUS
    <2>2. QED
        BY <2>1
<1>2. PICK z \in U : \A y \in U : z <= y
    BY <1>1, LeastNatural
<1>3. PICK x \in T : z = k - x
    BY <1>2
<1>4. ASSUME NEW y \in T
      PROVE  y <= x
    <2>1. k - y \in U
        OBVIOUS
    <2>2. k - x <= k - y
        BY <1>2, <1>3, <2>1
    <2>3. x \in 0..k /\ y \in 0..k
        OBVIOUS
    <2>4. QED
        BY <2>2, <2>3
<1>5. QED
    BY <1>4

\* The last configuration up to an index.
LEMMA LastConfFacts ==
    ASSUME log \in Seq(SUBSET Server), NEW i \in Nat
    PROVE  LastConf(i) \in Nat /\ LastConf(i) \in Confs \cup {0} /\ LastConf(i) <= i
<1> DEFINE S == {j \in Confs : j <= i}
<1>1. S \in SUBSET (0..i) /\ S \subseteq Confs
    BY ConfsNat
<1>2. LastConf(i) = IF S = {} THEN 0 ELSE CHOOSE j \in S : \A k \in S : k <= j
    BY DEF LastConf
<1> HIDE DEF S
<1>3. CASE S = {}
    BY <1>2, <1>3
<1>4. CASE S # {}
    <2>1. \E j \in S : \A k \in S : k <= j
        BY <1>1, <1>4, LargestNatural
    <2>2. LastConf(i) \in S
        BY <1>2, <1>4, <2>1
    <2>3. LastConf(i) \in 0..i /\ LastConf(i) \in Confs
        BY <1>1, <2>2
    <2>4. QED
        BY <2>3
<1>5. QED
    BY <1>3, <1>4

\* The constructor of a server that starts again.
LEMMA RestartKeeps ==
    ASSUME MembershipInv, NEW s \in Other, Restart(s)
    PROVE  MembershipInv'
<1>1. /\ faults' = faults + 1
      /\ quick' = [quick EXCEPT ![s] = commit[s]]
      /\ conf' = [conf EXCEPT ![s] = LastConf(commit[s])]
      /\ changing' = [changing EXCEPT ![s] =
             \E i \in (commit[s] + 1)..len[s] : i \in Confs]
      /\ catching' = [catching EXCEPT ![s] = FALSE]
      /\ steps' = [steps EXCEPT ![s] = 0]
      /\ UNCHANGED <<log, len, commit, down, peers, peer, join, reqs, resps,
                     changes, declined>>
    BY Zenon DEF Restart
<1>2. s \in Server /\ s # Leader /\ Leader \in Server
    BY ServerFacts
<1>3. /\ len[s] \in Nat /\ quick[s] \in Nat /\ commit[s] \in Nat
      /\ len[s] <= Len(log) /\ quick[s] <= quick[Leader]
      /\ commit[s] <= quick[s]
      /\ commit = [commit EXCEPT ![s] = commit[s]]
      /\ len = [len EXCEPT ![s] = len[s]]
    BY <1>2, IndexTypes
<1>4. /\ log \in Seq(SUBSET Server) /\ quick[Leader] \in Nat
    BY LeaderFacts
<1>5. PICK nl \in Nat, nc \in Nat : nl = len[s] /\ nc = commit[s]
    BY <1>3
<1>6. PICK nf \in Nat : nf = LastConf(nc) /\ nf \in Confs \cup {0} /\ nf <= nc
    BY <1>4, LastConfFacts
<1>7. /\ len' = [len EXCEPT ![s] = nl] /\ quick' = [quick EXCEPT ![s] = nc]
      /\ commit' = [commit EXCEPT ![s] = nc] /\ conf' = [conf EXCEPT ![s] = nf]
      /\ log' = log
    BY <1>1, <1>3, <1>5, <1>6
<1>8. /\ nl <= Len(log) /\ nc <= quick[Leader] /\ nc <= nc /\ nf <= quick[Leader]
    BY <1>3, <1>4, <1>5, <1>6
<1>9. /\ IndexesOK' /\ quick'[Leader] = quick[Leader]
      /\ conf'[Leader] = conf[Leader] /\ commit'[Leader] = commit[Leader]
    BY <1>6, <1>7, <1>8, FollowerIndexes
<1>10. RestOK
    BY DEF MembershipInv
<1>11. RestOK' /\ changing'[Leader] = changing[Leader]
       /\ catching'[Leader] = catching[Leader]
    <2>1. PICK b \in BOOLEAN : b = (\E i \in (commit[s] + 1)..len[s] : i \in Confs)
        OBVIOUS
    <2>2. changing' = [changing EXCEPT ![s] = b]
        BY <1>1, <2>1
    <2>3. changing' \in [Server -> BOOLEAN] /\ changing'[Leader] = changing[Leader]
        BY <1>2, <1>10, <2>2 DEF RestOK
    <2>4. catching' \in [Server -> BOOLEAN] /\ catching'[Leader] = catching[Leader]
        BY <1>1, <1>2, <1>10 DEF RestOK
    <2>5. steps' \in [Server -> 0..2]
        BY <1>1, <1>2, <1>10 DEF RestOK
    <2>6. down' \subseteq Other /\ changes' \in Nat /\ declined' \in BOOLEAN
        BY <1>1, <1>10 DEF RestOK
    <2>7. faults' \in Nat
        BY <1>1, <1>10 DEF RestOK
    <2>8. RestOK'
        BY <2>3, <2>4, <2>5, <2>6, <2>7 DEF RestOK
    <2>9. QED
        BY <2>3, <2>4, <2>8
<1>12. PeersOK' /\ LogOK' /\ ChangeOK'
    BY <1>1, <1>9, <1>11, LeaderStays
<1>13. MsgsOK' /\ AwaitsOK' /\ OneExt'
    BY <1>1, <1>9, <1>11, MessagesStay
<1>14. QED
    BY <1>9, <1>11, <1>12, <1>13 DEF MembershipInv

-----------------------------------------------------------------------------
(* The commit thread. *)

\* commit_in_bg of another server than the leader.
LEMMA FollowerCommits ==
    ASSUME MembershipInv, NEW s \in Other, CommitInBg(s)
    PROVE  MembershipInv'
<1>1. s \in Server /\ s # Leader /\ Leader \in Server
    BY ServerFacts
<1>2. /\ len[s] \in Nat /\ quick[s] \in Nat /\ commit[s] \in Nat
      /\ conf[s] \in Nat /\ len[s] <= Len(log) /\ quick[s] <= quick[Leader]
      /\ conf[s] \in Confs \cup {0} /\ conf[s] <= quick[Leader]
      /\ len = [len EXCEPT ![s] = len[s]]
      /\ quick = [quick EXCEPT ![s] = quick[s]]
      /\ conf = [conf EXCEPT ![s] = conf[s]]
    BY <1>1, IndexTypes
<1>3. PICK idx \in Nat : idx = commit[s] + 1
    BY <1>2
<1> DEFINE newer == idx \in Confs /\ conf[s] < idx
           removed == newer /\ s \notin log[idx] /\ ~catching[s]
<1>4. /\ idx <= quick[s]
      /\ commit' = [commit EXCEPT ![s] = idx]
      /\ changing' = IF idx \in Confs
                     THEN [changing EXCEPT ![s] = FALSE] ELSE changing
      /\ conf' = IF newer /\ ~removed THEN [conf EXCEPT ![s] = idx] ELSE conf
      /\ down' = IF removed THEN down \cup {s} ELSE down
      /\ catching' = [catching EXCEPT ![s] =
             @ /\ ~(idx \in Confs /\ s \in log[idx])]
      /\ UNCHANGED <<peers, peer, join>>
      /\ UNCHANGED <<log, len, quick, steps, reqs, resps, changes, faults,
                     declined>>
    BY <1>1, <1>3, Zenon DEF CommitInBg
<1>5. PICK nl \in Nat, nq \in Nat : nl = len[s] /\ nq = quick[s]
    BY <1>2
<1>6. PICK nf \in Nat : /\ nf = IF newer /\ ~removed THEN idx ELSE conf[s]
                        /\ nf \in Confs \cup {0}
    BY <1>2
<1> HIDE DEF removed
<1>7. /\ len' = [len EXCEPT ![s] = nl] /\ quick' = [quick EXCEPT ![s] = nq]
      /\ commit' = [commit EXCEPT ![s] = idx] /\ conf' = [conf EXCEPT ![s] = nf]
      /\ log' = log
    BY <1>2, <1>4, <1>5, <1>6
<1>8. /\ nl <= Len(log) /\ nq <= quick[Leader] /\ idx <= nq
      /\ nf <= quick[Leader]
    BY <1>2, <1>4, <1>5, <1>6, LeaderFacts
<1>9. /\ IndexesOK' /\ quick'[Leader] = quick[Leader]
      /\ conf'[Leader] = conf[Leader] /\ commit'[Leader] = commit[Leader]
    BY <1>6, <1>7, <1>8, FollowerIndexes
<1>10. RestOK
    BY DEF MembershipInv
<1>11. /\ RestOK' /\ changing'[Leader] = changing[Leader]
       /\ catching'[Leader] = catching[Leader]
    <2>1. changing' \in [Server -> BOOLEAN] /\ changing'[Leader] = changing[Leader]
        BY <1>1, <1>4, <1>10 DEF RestOK
    <2>2. PICK b \in BOOLEAN :
              b = (catching[s] /\ ~(idx \in Confs /\ s \in log[idx]))
        BY <1>1, <1>10 DEF RestOK
    <2>3. catching' = [catching EXCEPT ![s] = b]
        BY <1>4, <2>2
    <2>4. catching' \in [Server -> BOOLEAN] /\ catching'[Leader] = catching[Leader]
        BY <1>1, <1>10, <2>3 DEF RestOK
    <2>5. down' \subseteq Other
        BY <1>4, <1>10 DEF RestOK
    <2>6. /\ steps' \in [Server -> 0..2] /\ changes' \in Nat /\ faults' \in Nat
          /\ declined' \in BOOLEAN
        BY <1>4, <1>10 DEF RestOK
    <2>7. RestOK'
        BY <2>1, <2>4, <2>5, <2>6 DEF RestOK
    <2>8. QED
        BY <2>1, <2>4, <2>7
<1>12. PeersOK' /\ LogOK' /\ ChangeOK'
    BY <1>4, <1>9, <1>11, LeaderStays
<1>13. MsgsOK' /\ AwaitsOK' /\ OneExt'
    BY <1>4, <1>9, <1>11, MessagesStay
<1>14. QED
    BY <1>9, <1>11, <1>12, <1>13 DEF MembershipInv

\* commit_in_bg of the leader: its effect, without what cannot happen.
LEMMA LeaderCommit ==
    ASSUME MembershipInv, CommitInBg(Leader)
    PROVE  LET idx == commit[Leader] + 1
           IN  /\ idx \in Nat /\ idx <= quick[Leader]
               /\ commit' = [commit EXCEPT ![Leader] = idx]
               /\ catching' = catching /\ down' = down
               /\ UNCHANGED <<log, len, quick, steps, reqs, resps, changes,
                              faults, declined>>
               /\ IF idx \in Confs
                  THEN /\ changing' = [changing EXCEPT ![Leader] = FALSE]
                       /\ conf' = [conf EXCEPT ![Leader] = idx]
                       /\ Reconfigure(idx)
                  ELSE UNCHANGED <<changing, conf, peers, peer, join>>
<1>1. /\ commit[Leader] \in Nat /\ conf[Leader] \in Nat
      /\ conf[Leader] <= commit[Leader] /\ log \in Seq(SUBSET Server)
      /\ Leader \in Server
    BY LeaderFacts
<1>2. PICK idx \in Nat : idx = commit[Leader] + 1
    BY <1>1
<1> DEFINE newer == idx \in Confs /\ conf[Leader] < idx
           removed == newer /\ Leader \notin log[idx] /\ ~catching[Leader]
<1>3. /\ idx <= quick[Leader]
      /\ commit' = [commit EXCEPT ![Leader] = idx]
      /\ changing' = IF idx \in Confs
                     THEN [changing EXCEPT ![Leader] = FALSE] ELSE changing
      /\ conf' = IF newer /\ ~removed THEN [conf EXCEPT ![Leader] = idx] ELSE conf
      /\ down' = IF removed THEN down \cup {Leader} ELSE down
      /\ catching' = [catching EXCEPT ![Leader] =
             @ /\ ~(idx \in Confs /\ Leader \in log[idx])]
      /\ IF newer THEN Reconfigure(idx) ELSE UNCHANGED <<peers, peer, join>>
      /\ UNCHANGED <<log, len, quick, steps, reqs, resps, changes, faults,
                     declined>>
    BY <1>2, Zenon DEF CommitInBg
<1>4. idx \in Confs => Leader \in log[idx] /\ conf[Leader] < idx
    BY <1>1, <1>2, ConfsNat DEF MembershipInv, LogOK, LogFine
<1>5. catching' = catching
    <2>1. catching \in [Server -> BOOLEAN] /\ ~catching[Leader]
        BY DEF MembershipInv, RestOK, ChangeOK
    <2>2. catching' = [catching EXCEPT ![Leader] = FALSE]
        BY <1>3, <2>1
    <2>3. QED
        BY <1>1, <2>1, <2>2
<1>6. newer <=> idx \in Confs
    BY <1>4
<1>7. ~removed
    BY <1>4
<1> HIDE DEF newer, removed
<1>8. QED
    BY <1>2, <1>3, <1>5, <1>6, <1>7, Zenon

\* What the new configuration adds has never been a member.
LEMMA AddedIsNew ==
    ASSUME MembershipInv, NEW idx \in Uncommitted, NEW s \in NewPeers(idx) \ peers
    PROVE  ~WasMember(s) /\ s \in Other
<1>1. /\ log \in Seq(SUBSET Server) /\ conf[Leader] \in Confs
      /\ conf[Leader] \in Nat /\ commit[Leader] \in Nat
      /\ conf[Leader] <= commit[Leader]
    BY LeaderFacts
<1>2. idx \in Confs /\ idx > commit[Leader] /\ idx \in Nat /\ idx \in 1..Len(log)
    BY <1>1, ConfsNat DEF Uncommitted
<1>3. s \in log[idx] /\ s # Leader /\ s \notin peers
    BY DEF NewPeers
<1>4. s \in Other
    BY <1>1, <1>2, <1>3, ConfsNat, ServerFacts
<1>5. peers = log[conf[Leader]] \ {Leader}
    <2>1. CASE peers = {} /\ \E i \in Uncommitted : log[i] = {Leader}
        <3>1. log[idx] = {Leader}
            BY <2>1 DEF MembershipInv, ChangeOK
        <3>2. QED
            BY <1>3, <3>1
    <2>2. QED
        BY <2>1 DEF MembershipInv, ChangeOK
<1>6. s \notin log[conf[Leader]]
    BY <1>3, <1>5
<1>7. ASSUME WasMember(s)
      PROVE  FALSE
    <2>1. PICK i \in Confs : i <= conf[Leader] /\ s \in log[i]
        BY <1>7 DEF WasMember
    <2>2. i \in Nat /\ i \in 1..Len(log)
        BY <1>1, ConfsNat
    <2>3. i < conf[Leader] /\ conf[Leader] < idx
        BY <1>1, <1>2, <1>6, <2>1, <2>2
    <2>4. conf[Leader] \in 1..Len(log) /\ log[conf[Leader]] # {}
        BY <1>1, ConfsNat
    <2>5. log[i] \cap log[idx] \subseteq log[conf[Leader]]
        BY <1>2, <2>2, <2>3, <2>4 DEF MembershipInv, LogOK, LogFine, NeverBack
    <2>6. QED
        BY <1>3, <1>6, <2>1, <2>5
<1>8. QED
    BY <1>4, <1>7

\* reconfigure: the leader's peers fit their log, and old ones are kept.
LEMMA ReconfigureFits ==
    ASSUME MembershipInv, NEW idx \in Uncommitted, Reconfigure(idx)
    PROVE  /\ peers' = log[idx] \ {Leader} /\ peers' \subseteq Other
           /\ PeersFit(peer', Len(log))
           /\ join' \in Invitation /\ join'.next <= Len(log) + 1
           /\ \A s \in Other : WasMember(s) => peer'[s] = peer[s]
           /\ \A s \in Other : peer'[s] = peer[s] \/ peer'[s].matched = 0
           /\ \A s \in Other : s \in NewPeers(idx) \ peers => peer'[s].matched = 0
<1> DEFINE added == NewPeers(idx) \ peers
<1>1. /\ peers' = NewPeers(idx)
      /\ peer' = [s \in Other |->
             IF s \in added
             THEN [NewPeer EXCEPT !.next = IF s = join.srv THEN join.next
                                           ELSE Len(log) + 1]
             ELSE peer[s]]
      /\ join' = IF join.srv \in added THEN NoJoin ELSE join
    BY DEF Reconfigure
<1>2. /\ log \in Seq(SUBSET Server) /\ Len(log) \in Nat
    BY LeaderFacts
<1>3. idx \in Confs /\ log[idx] \in SUBSET Server
    BY <1>2, ConfsNat DEF Uncommitted
<1>4. peers' = log[idx] \ {Leader} /\ peers' \subseteq Other
    BY <1>1, <1>3, ServerFacts DEF NewPeers
<1>5. /\ join \in Invitation /\ join.next \in Nat /\ join.next <= Len(log) + 1
      /\ PeersFit(peer, Len(log))
    BY DEF MembershipInv, PeersOK, Invitation
<1>6. /\ NoJoin \in Invitation /\ NoJoin.next = 0
    BY MembershipAssumption DEF NoJoin, Invitation
<1>7. join' \in Invitation /\ join'.next <= Len(log) + 1
    BY <1>1, <1>2, <1>5, <1>6
<1>8. ASSUME NEW s \in Other
      PROVE  /\ peer'[s] \in PeerObject /\ peer'[s].next <= Len(log) + 1
             /\ peer'[s].matched <= Len(log)
             /\ s \notin added => peer'[s] = peer[s]
             /\ s \in added => peer'[s].matched = 0
    <2>1. CASE s \in added
        <3>1. PICK k \in Nat : /\ k = IF s = join.srv THEN join.next ELSE Len(log) + 1
                               /\ k <= Len(log) + 1
            BY <1>2, <1>5
        <3>2. peer'[s] = [NewPeer EXCEPT !.next = k]
            BY <1>1, <2>1, <3>1
        <3>3. peer'[s] \in PeerObject /\ peer'[s].next = k /\ peer'[s].matched = 0
            <4>1. peer'[s] = [next |-> k, matched |-> 0, busy |-> FALSE,
                              pending |-> FALSE, slow |-> 0]
                BY <3>2 DEF NewPeer
            <4>2. 0 \in 0..MaxSlow
                BY MembershipAssumption
            <4>3. QED
                BY <4>1, <4>2 DEF PeerObject
        <3>4. QED
            BY <1>2, <2>1, <3>1, <3>3
    <2>2. CASE s \notin added
        <3>1. peer'[s] = peer[s]
            BY <1>1, <2>2
        <3>2. QED
            BY <1>5, <2>2, <3>1 DEF PeersFit
    <2>3. QED
        BY <2>1, <2>2
<1>9. PeersFit(peer', Len(log))
    <2>1. peer' = [s \in Other |-> peer'[s]]
        BY <1>1
    <2>2. peer' \in [Other -> PeerObject]
        BY <1>8, <2>1
    <2>3. QED
        BY <1>8, <2>2 DEF PeersFit
<1>10. \A s \in Other : WasMember(s) => s \notin added
    BY AddedIsNew
<1>11. QED
    BY <1>4, <1>7, <1>8, <1>9, <1>10

\* commit_in_bg of the leader
LEMMA LeaderCommits ==
    ASSUME MembershipInv, CommitInBg(Leader)
    PROVE  MembershipInv'
<1>1. /\ log \in Seq(SUBSET Server) /\ Len(log) \in Nat
      /\ quick[Leader] \in Nat /\ conf[Leader] \in Nat
      /\ commit[Leader] \in Nat /\ conf[Leader] <= commit[Leader]
      /\ quick[Leader] <= Len(log) /\ Leader \in Server
      /\ conf[Leader] \in Confs
    BY LeaderFacts
<1>2. PICK idx \in Nat : idx = commit[Leader] + 1
    BY <1>1
<1>3. /\ idx <= quick[Leader]
      /\ commit' = [commit EXCEPT ![Leader] = idx]
      /\ catching' = catching /\ down' = down
      /\ UNCHANGED <<log, len, quick, steps, reqs, resps, changes, faults,
                     declined>>
      /\ IF idx \in Confs
         THEN /\ changing' = [changing EXCEPT ![Leader] = FALSE]
              /\ conf' = [conf EXCEPT ![Leader] = idx]
              /\ Reconfigure(idx)
         ELSE UNCHANGED <<changing, conf, peers, peer, join>>
    BY <1>2, LeaderCommit
<1>4. IndexesOK /\ RestOK /\ PeersOK /\ LogOK /\ ChangeOK
    BY DEF MembershipInv
<1>5. /\ commit' \in [Server -> Nat] /\ commit'[Leader] = idx
      /\ \A s \in Server : s # Leader => commit'[s] = commit[s]
    BY <1>1, <1>3, <1>4 DEF IndexesOK
<1>6. Confs' = Confs
    BY <1>3 DEF Confs
<1>7. LogOK'
    BY <1>3, <1>4 DEF LogOK
<1>8. CASE idx \notin Confs
    <2>1. UNCHANGED <<changing, conf, peers, peer, join>>
        BY <1>3, <1>8
    <2>2. RestOK' /\ PeersOK'
        BY <1>3, <1>4, <2>1 DEF RestOK, PeersOK
    <2>3. IndexesOK'
        BY <1>1, <1>2, <1>3, <1>4, <1>5, <1>6, <2>1 DEF IndexesOK
    <2>4. Uncommitted' = Uncommitted
        <3>1. \A i \in Confs : i > commit[Leader] <=> i > idx
            BY <1>1, <1>2, <1>8, ConfsNat
        <3>2. QED
            BY <1>5, <1>6, <3>1 DEF Uncommitted
    <2>5. ChangeOK'
        <3>1. \A i \in Confs : i <= conf[Leader] \/ i > idx
            BY <1>1, <1>2, <1>4, <1>8, ConfsNat DEF ChangeOK
        <3>2. conf[Leader] <= idx
            BY <1>1, <1>2
        <3>3. QED
            BY <1>3, <1>4, <1>5, <1>6, <2>1, <2>4, <3>1, <3>2 DEF ChangeOK
    <2>6. MsgsOK' /\ AwaitsOK' /\ OneExt'
        BY <1>3, <2>1, MessagesStay
    <2>7. QED
        BY <1>7, <2>2, <2>3, <2>5, <2>6 DEF MembershipInv
<1>9. CASE idx \in Confs
    <2>1. /\ changing' = [changing EXCEPT ![Leader] = FALSE]
          /\ conf' = [conf EXCEPT ![Leader] = idx]
          /\ Reconfigure(idx)
        BY <1>3, <1>9
    <2>2. idx \in Uncommitted
        BY <1>1, <1>2, <1>9 DEF Uncommitted
    <2>3. /\ peers' = log[idx] \ {Leader} /\ peers' \subseteq Other
          /\ PeersFit(peer', Len(log))
          /\ join' \in Invitation /\ join'.next <= Len(log) + 1
          /\ \A s \in Other : WasMember(s) => peer'[s] = peer[s]
        BY <2>1, <2>2, ReconfigureFits
    <2>4. changing[Leader]
        BY <1>4, <2>2 DEF ChangeOK
    <2>5. changing' \in [Server -> BOOLEAN] /\ ~changing'[Leader]
        BY <1>1, <1>4, <2>1 DEF RestOK
    <2>6. RestOK'
        BY <1>3, <1>4, <2>5 DEF RestOK
    <2>7. PeersOK'
        BY <1>3, <2>3 DEF PeersOK
    <2>8. /\ conf' \in [Server -> Nat] /\ conf'[Leader] = idx
          /\ \A s \in Server : s # Leader => conf'[s] = conf[s]
        BY <1>1, <1>4, <2>1 DEF IndexesOK
    <2>9. IndexesOK'
        <3>1. ASSUME NEW s \in Server
              PROVE  /\ len'[s] <= Len(log') /\ quick'[s] <= quick'[Leader]
                     /\ commit'[s] <= quick'[s] /\ conf'[s] \in Confs' \cup {0}
                     /\ conf'[s] <= quick'[Leader]
            <4>1. CASE s = Leader
                BY <1>3, <1>4, <1>5, <1>6, <1>9, <2>8, <4>1 DEF IndexesOK
            <4>2. CASE s # Leader
                BY <1>3, <1>4, <1>5, <1>6, <2>8, <4>2 DEF IndexesOK
            <4>3. QED
                BY <4>1, <4>2
        <3>2. QED
            BY <1>3, <1>4, <1>5, <2>8, <3>1 DEF IndexesOK
    <2>10. \A i \in Confs : i <= idx
        BY <1>1, <1>2, <1>4, <2>2, ConfsNat DEF ChangeOK, Uncommitted
    <2>11. Uncommitted' = {}
        BY <1>1, <1>5, <1>6, <2>10, ConfsNat DEF Uncommitted
    <2>12. ChangeOK'
        <3>1. ~catching'[Leader]
            BY <1>3, <1>4 DEF ChangeOK
        <3>2. peers' = log'[conf'[Leader]] \ {Leader}
            BY <1>3, <2>3, <2>8
        <3>3. conf'[Leader] \in Confs' /\ conf'[Leader] <= commit'[Leader]
            BY <1>5, <1>6, <1>9, <2>8
        <3>4. \A i \in Confs' : i <= conf'[Leader] \/ i > commit'[Leader]
            BY <1>6, <2>8, <2>10
        <3>5. QED
            BY <2>5, <2>11, <3>1, <3>2, <3>3, <3>4 DEF ChangeOK
    <2>13. Grows /\ quick'[Leader] = quick[Leader] /\ conf'[Leader] \in Nat
           /\ conf'[Leader] >= conf[Leader]
        BY <1>1, <1>2, <1>3, <2>8 DEF Grows
    <2>14. MsgsOK'
        <3>1. \A m \in reqs : ReqOK(m)'
            BY <1>1, <2>13, OldMessages, ReqKept
        <3>2. \A r \in resps : RespOK(r)'
            BY <1>1, <2>13, OldMessages, RespKept
        <3>3. QED
            BY <1>3, <3>1, <3>2 DEF MsgsOK
    <2>15. ASSUME NEW m, ReqOK(m), AwaitOK(m)
           PROVE  ~Ext(m) /\ AwaitOK(m)'
        <3>1. m.type = "append"
            BY <2>4, <2>15 DEF AwaitOK
        <3>2. WasMember(m.srv) /\ m.srv \in Other
            BY <2>15, <3>1, RequestFields DEF ReqOK
        <3>3. peer'[m.srv] = peer[m.srv]
            BY <2>3, <3>2
        <3>4. QED
            BY <2>15, <3>1, <3>3 DEF AwaitOK, Ext
    <2>16. AwaitsOK' /\ OneExt'
        BY <1>3, <2>15, OldMessages, NoExtLeft
    <2>17. QED
        BY <1>7, <2>6, <2>7, <2>9, <2>12, <2>14, <2>16 DEF MembershipInv
<1>10. QED
    BY <1>8, <1>9

-----------------------------------------------------------------------------
(* Responses to append requests. *)

\* More than half of the servers of V.
Most(S, V) == 2 * Cardinality(S) > Cardinality(V)

\* Some server's index is exceeded by no majority and reached by one: the
\* position that handle_append_entries_resp reads in the sorted indexes exists.
LEMMA MedianExists ==
    ASSUME NEW V, IsFiniteSet(V), V # {}, NEW f \in [V -> Nat]
    PROVE  \E j \in V :
               /\ ~Most({l \in V : f[l] > f[j]}, V)
               /\ Most({l \in V : f[l] >= f[j]}, V)
<1> DEFINE Above(j) == {l \in V : f[l] > f[j]}
           From(j) == {l \in V : f[l] >= f[j]}
           D == {j \in V : Most(From(j), V)}
           Sizes == {Cardinality(From(j)) : j \in D}
<1>1. Cardinality(V) \in Nat \ {0}
    BY FS_CardinalityType, FS_EmptySet
<1>2. ASSUME NEW S \in SUBSET V, S # {}
      PROVE  \E l \in S : \A k \in S : f[l] <= f[k]
    <2> DEFINE T == {f[l] : l \in S}
    <2>1. T \in SUBSET Nat /\ T # {}
        BY <1>2
    <2>2. PICK x \in T : \A y \in T : x <= y
        BY <2>1, LeastNatural
    <2>3. QED
        BY <2>2
<1>3. \A S \in SUBSET V : IsFiniteSet(S) /\ Cardinality(S) \in Nat
    BY FS_Subset, FS_CardinalityType
<1>4. D # {}
    <2>1. PICK l \in V : \A k \in V : f[l] <= f[k]
        BY <1>2
    <2>2. From(l) = V
        BY <2>1
    <2>3. Most(From(l), V)
        <3>1. Most(V, V)
            BY <1>1 DEF Most
        <3>2. QED
            BY <2>2, <3>1
    <2>4. QED
        BY <2>3
<1>5. PICK j \in D : \A k \in D : Cardinality(From(j)) <= Cardinality(From(k))
    <2>1. Sizes \in SUBSET Nat /\ Sizes # {}
        BY <1>3, <1>4
    <2>2. PICK x \in Sizes : \A y \in Sizes : x <= y
        BY <2>1, LeastNatural
    <2>3. QED
        BY <2>2
<1>6. ~Most(Above(j), V)
    <2>1. SUFFICES ASSUME Most(Above(j), V) PROVE FALSE
        OBVIOUS
    <2>2. Above(j) # {}
        BY <1>1, <2>1, FS_EmptySet DEF Most
    <2>3. PICK l \in Above(j) : \A k \in Above(j) : f[l] <= f[k]
        BY <1>2, <2>2
    <2>4. From(l) = Above(j)
        <3>1. From(l) \subseteq Above(j)
            BY <2>3
        <3>2. Above(j) \subseteq From(l)
            BY <2>3
        <3>3. QED
            BY <3>1, <3>2
    <2>5. l \in D
        BY <2>1, <2>4
    <2>6. Above(j) \subseteq From(j) /\ j \in From(j) /\ j \notin Above(j)
        OBVIOUS
    <2>7. Cardinality(Above(j)) < Cardinality(From(j))
        <3>1. From(j) \in SUBSET V
            OBVIOUS
        <3> HIDE DEF From, Above
        <3>2. IsFiniteSet(From(j))
            BY <3>1, <1>3
        <3>3. /\ Cardinality(Above(j)) <= Cardinality(From(j))
              /\ Cardinality(From(j)) = Cardinality(Above(j)) => From(j) = Above(j)
            BY <3>2, <2>6, FS_Subset
        <3>4. Cardinality(From(j)) \in Nat /\ Cardinality(Above(j)) \in Nat
            BY <3>2, <2>6, FS_Subset, FS_CardinalityType
        <3>5. QED
            BY <3>3, <3>4, <2>6
    <2>8. Cardinality(From(j)) <= Cardinality(Above(j))
        BY <1>5, <2>4, <2>5
    <2>9. Cardinality(From(j)) \in Nat /\ Cardinality(Above(j)) \in Nat
        BY <1>3
    <2>10. QED
        BY <2>7, <2>8, <2>9
<1>7. QED
    BY <1>6

\* What a server has of the log as far as the leader knows.
Known(ps, s) == IF s = Leader THEN Len(log) ELSE ps[s].matched

\* The index that handle_append_entries_resp commits: a majority has it.
LEMMA MajorityMatchedFacts ==
    ASSUME log \in Seq(SUBSET Server), NEW ps, PeersFit(ps, Len(log)),
           NEW P \in SUBSET Other
    PROVE  /\ MajorityMatched(ps, P) \in Nat /\ MajorityMatched(ps, P) <= Len(log)
           /\ Most({s \in P \cup {Leader} : Known(ps, s) >= MajorityMatched(ps, P)},
                   P \cup {Leader})
<1> DEFINE V == P \cup {Leader}
           f == [s \in V |-> Known(ps, s)]
<1>1. IsFiniteSet(V) /\ V # {}
    <2>1. V \subseteq Server
        BY ServerFacts
    <2>2. QED
        BY <2>1, ServerFacts, FS_Subset
<1>2. \A s \in V : Known(ps, s) \in Nat /\ Known(ps, s) <= Len(log)
    BY LenProperties DEF Known, PeersFit, PeerObject
<1>3. f \in [V -> Nat]
    BY <1>2
<1>4. PICK j \in V : /\ ~Most({l \in V : f[l] > f[j]}, V)
                     /\ Most({l \in V : f[l] >= f[j]}, V)
    BY <1>1, <1>3, MedianExists
<1> DEFINE W == {Known(ps, l) : l \in V}
           Mid(x) == /\ ~Most({l \in V : Known(ps, l) > x}, V)
                     /\ Most({l \in V : Known(ps, l) >= x}, V)
<1>5. \A l \in V : f[l] = Known(ps, l)
    OBVIOUS
<1>6. Mid(f[j])
    <2>1. {l \in V : f[l] > f[j]} = {l \in V : Known(ps, l) > f[j]}
        BY <1>5
    <2>2. {l \in V : f[l] >= f[j]} = {l \in V : Known(ps, l) >= f[j]}
        BY <1>5
    <2>3. QED
        BY <1>4, <2>1, <2>2
<1>7. f[j] \in W
    BY <1>5
<1>8. \A x \in W : x \in Nat /\ x <= Len(log)
    BY <1>2
<1>9. MajorityMatched(ps, P) = CHOOSE x \in W : Mid(x)
    BY DEF MajorityMatched, Known, Most
<1> HIDE DEF W, Mid, f
<1>10. (CHOOSE x \in W : Mid(x)) \in W /\ Mid(CHOOSE x \in W : Mid(x))
    BY <1>6, <1>7
<1>11. Mid(MajorityMatched(ps, P)) /\ MajorityMatched(ps, P) \in W
    BY <1>9, <1>10
<1>12. Most({l \in V : Known(ps, l) >= MajorityMatched(ps, P)}, V)
    BY <1>11 DEF Mid
<1>13. QED
    BY <1>8, <1>11, <1>12

\* The object of a peer after handle_append_entries_resp, before it sends more.
PeerAfter(p, ok, next) ==
    LET b == [p EXCEPT !.busy = FALSE, !.slow = 0]
    IN  IF ok THEN [b EXCEPT !.next = next, !.matched = next - 1]
        ELSE [b EXCEPT !.next = IF next > 0 /\ @ > next THEN next ELSE @ - 1]

\* It still fits the leader's log.
LEMMA AnsweredPeer ==
    ASSUME NEW p \in PeerObject, NEW ok \in BOOLEAN, NEW next \in Nat,
           NEW k \in Nat, p.next >= 1, p.next <= k + 1, p.matched <= k,
           next >= 1, next <= k + 1
    PROVE  LET a == PeerAfter(p, ok, next)
           IN  /\ a \in PeerObject /\ a.next <= k + 1 /\ a.matched <= k
               /\ ~a.busy /\ (ok => a.next >= 1)
               /\ a.matched = IF ok THEN next - 1 ELSE p.matched
<1>1. PICK b : b = [p EXCEPT !.busy = FALSE, !.slow = 0]
    OBVIOUS
<1>2. /\ b \in PeerObject /\ b.next = p.next /\ b.matched = p.matched
      /\ ~b.busy /\ p.next \in Nat /\ p.matched \in Nat
    <2>1. 0 \in 0..MaxSlow
        BY MembershipAssumption
    <2>2. QED
        BY <1>1, <2>1 DEF PeerObject
<1>3. CASE ok
    <2>1. PICK z \in Nat : z = next - 1
        OBVIOUS
    <2>2. PICK a : a = [b EXCEPT !.next = next, !.matched = z]
        OBVIOUS
    <2>3. a \in PeerObject /\ a.next = next /\ a.matched = z /\ ~a.busy
        BY <1>2, <2>2 DEF PeerObject
    <2>4. QED
        BY <1>1, <1>2, <1>3, <2>1, <2>2, <2>3 DEF PeerAfter
<1>4. CASE ~ok
    <2>1. PICK x \in Nat : /\ x = IF next > 0 /\ b.next > next THEN next ELSE b.next - 1
                           /\ x <= k + 1
        BY <1>2 DEF PeerObject
    <2>2. PICK a : a = [b EXCEPT !.next = x]
        OBVIOUS
    <2>3. a \in PeerObject /\ a.next = x /\ a.matched = b.matched /\ ~a.busy
        BY <1>2, <2>2 DEF PeerObject
    <2>4. QED
        BY <1>1, <1>2, <1>4, <2>1, <2>2, <2>3 DEF PeerAfter
<1>5. QED
    BY <1>3, <1>4

\* Marking peers that miss a commit leaves the rest of the objects alone.
LEMMA ToldPeer ==
    ASSUME NEW p \in PeerObject, NEW b \in BOOLEAN
    PROVE  LET a == [p EXCEPT !.pending = b]
           IN  /\ a \in PeerObject /\ a.next = p.next /\ a.matched = p.matched
               /\ a.busy = p.busy
BY DEF PeerObject

\* What handle_append_entries_resp does for a peer, before it sends more.
Answered(r, ps, dests, qc) ==
    /\ PeersFit(ps, Len(log))
    /\ \A t \in Other : peer[t].next >= 1 =>
           ps[t].next >= 1 \/ (t \in dests /\ ~ps[t].busy)
    /\ \A t \in Other : \/ ps[t].matched = peer[t].matched
                        \/ t = r.req.srv /\ r.ok /\ ps[t].matched = r.next - 1
    /\ quick[Leader] <= qc /\ qc <= Len(log)
    /\ \/ qc = quick[Leader]
       \/ Most({t \in peers \cup {Leader} : Known(ps, t) >= qc},
               peers \cup {Leader})

\* handle_append_entries_resp: the objects, the receivers and the commit index.
LEMMA AppendRespEffect ==
    ASSUME MembershipInv, NEW r \in resps, HandleAppendEntriesResp(r),
           r.req.srv \in peers
    PROVE  /\ \E dests \in SUBSET peers, qc \in Nat, ps \in [Other -> PeerObject] :
                  /\ Answered(r, ps, dests, qc)
                  /\ SendAppend(dests, log, qc, peers, ps, reqs)
           /\ r.req.type = "append" /\ resps' = resps \ {r}
           /\ UNCHANGED <<log, len, commit, conf, changing, catching, steps, down,
                          join, changes, faults, declined>>
<1>1. /\ r.req.type = "append" /\ resps' = resps \ {r}
      /\ UNCHANGED <<log, len, commit, conf, changing, catching, steps, down,
                     join, changes, faults, declined>>
    BY Zenon DEF HandleAppendEntriesResp
<1>2. /\ RespOK(r) /\ AwaitOK(r.req) /\ r \in Response /\ r.req \in Request
    BY OldMessages
<1> DEFINE s == r.req.srv
           p == [peer[s] EXCEPT !.busy = FALSE, !.slow = 0]
           a == IF r.ok THEN [p EXCEPT !.next = r.next, !.matched = r.next - 1]
                ELSE [p EXCEPT !.next = IF r.next > 0 /\ @ > r.next
                                        THEN r.next ELSE @ - 1]
           ps == [peer EXCEPT ![s] = a]
           target == MajorityMatched(ps, peers)
           raised == r.ok /\ target > quick[Leader]
           told == [t \in Other |-> [ps[t] EXCEPT !.pending =
                       t # s /\ (@ \/ (t \in peers /\ raised /\ ps[t].busy))]]
           again == ~r.ok \/ peer[s].pending \/ r.next < Len(log) + 1
           dests == IF raised THEN peers ELSE IF again THEN {s} ELSE {}
           qc == IF raised THEN target ELSE quick[Leader]
           pt == IF r.ok THEN told ELSE ps
<1>3. SendAppend(dests, log, qc, peers, pt, reqs)
    BY Zenon DEF HandleAppendEntriesResp
<1>4. s = r.req.srv
    OBVIOUS
<1>5. ps = [peer EXCEPT ![s] = a]
    OBVIOUS
<1>6. target = MajorityMatched(ps, peers)
    OBVIOUS
<1> HIDE DEF s, ps, target
<1>7. /\ r.ok \in BOOLEAN /\ r.next \in Nat /\ r.next >= 1
      /\ r.next <= Len(log) + 1
    BY <1>1, <1>2 DEF RespOK, Response
<1>8. /\ s \in Other /\ s \in peers /\ peer[s].next >= 1 /\ peers \subseteq Other
    BY <1>1, <1>2, <1>4, RequestFields, LeaderFacts DEF AwaitOK
<1>9. /\ log \in Seq(SUBSET Server) /\ Len(log) \in Nat
      /\ quick[Leader] \in Nat /\ quick[Leader] <= Len(log)
    BY LeaderFacts
<1>10. /\ peer \in [Other -> PeerObject]
       /\ \A t \in Other : peer[t].next <= Len(log) + 1 /\ peer[t].matched <= Len(log)
    BY DEF MembershipInv, PeersOK, PeersFit
<1>11. /\ a \in PeerObject /\ a.next <= Len(log) + 1 /\ a.matched <= Len(log)
       /\ ~a.busy /\ (r.ok => a.next >= 1)
       /\ a.matched = IF r.ok THEN r.next - 1 ELSE peer[s].matched
    <2>1. PICK p0 \in PeerObject : p0 = peer[s]
        BY <1>8, <1>10
    <2>2. PICK ok \in BOOLEAN, next \in Nat, k \in Nat :
              ok = r.ok /\ next = r.next /\ k = Len(log)
        BY <1>7, <1>9
    <2>3. /\ p0.next >= 1 /\ p0.next <= k + 1 /\ p0.matched <= k
          /\ next >= 1 /\ next <= k + 1
        BY <1>7, <1>8, <1>10, <2>1, <2>2
    <2>4. PICK aa : aa = PeerAfter(p0, ok, next)
        OBVIOUS
    <2>5. a = aa
        BY <2>1, <2>2, <2>4 DEF PeerAfter
    <2>6. /\ aa \in PeerObject /\ aa.next <= k + 1 /\ aa.matched <= k
          /\ ~aa.busy /\ (ok => aa.next >= 1)
          /\ aa.matched = IF ok THEN next - 1 ELSE p0.matched
        BY <2>3, <2>4, AnsweredPeer
    <2> HIDE DEF a
    <2>7. QED
        BY <2>1, <2>2, <2>5, <2>6
<1> HIDE DEF a
<1>12. /\ ps \in [Other -> PeerObject] /\ ps[s] = a
       /\ \A t \in Other : t # s => ps[t] = peer[t]
    BY <1>5, <1>8, <1>10, <1>11
<1>13. PeersFit(ps, Len(log))
    BY <1>10, <1>11, <1>12 DEF PeersFit
<1>14. /\ target \in Nat /\ target <= Len(log)
       /\ Most({t \in peers \cup {Leader} : Known(ps, t) >= target},
               peers \cup {Leader})
    <2>1. PICK P \in SUBSET Other : P = peers
        BY <1>8
    <2>2. target = MajorityMatched(ps, P)
        BY <1>6, <2>1
    <2>3. /\ MajorityMatched(ps, P) \in Nat /\ MajorityMatched(ps, P) <= Len(log)
          /\ Most({t \in P \cup {Leader} : Known(ps, t) >= MajorityMatched(ps, P)},
                  P \cup {Leader})
        BY <1>9, <1>13, MajorityMatchedFacts
    <2>4. QED
        BY <2>1, <2>2, <2>3
<1>15. ASSUME NEW t \in Other
       PROVE  /\ pt[t] \in PeerObject /\ pt[t].next = ps[t].next
              /\ pt[t].matched = ps[t].matched /\ pt[t].busy = ps[t].busy
    <2>1. CASE ~r.ok
        BY <1>12, <2>1
    <2>2. CASE r.ok
        <3>1. PICK q \in PeerObject : q = ps[t]
            BY <1>12
        <3>2. PICK b \in BOOLEAN :
                  b = (t # s /\ (ps[t].pending \/ (t \in peers /\ raised /\ ps[t].busy)))
            <4>1. ps[t].pending \in BOOLEAN
                BY <3>1 DEF PeerObject
            <4> HIDE DEF raised
            <4>2. QED
                BY <4>1
        <3>3. told[t] = [q EXCEPT !.pending = b]
            BY <3>1, <3>2
        <3>4. pt[t] = told[t]
            BY <2>2
        <3> HIDE DEF pt, told
        <3>5. PICK c : c = [q EXCEPT !.pending = b]
            OBVIOUS
        <3>6. /\ c \in PeerObject /\ c.next = q.next /\ c.matched = q.matched
              /\ c.busy = q.busy
            BY <3>5, ToldPeer
        <3>7. QED
            BY <3>1, <3>3, <3>4, <3>5, <3>6
    <2>3. QED
        BY <1>7, <2>1, <2>2
<1>16. PeersFit(pt, Len(log))
    <2>1. pt = [t \in Other |-> pt[t]]
        BY <1>12
    <2> HIDE DEF pt
    <2>2. pt \in [Other -> PeerObject]
        BY <1>15, <2>1
    <2>3. QED
        BY <1>13, <1>15, <2>2 DEF PeersFit
<1>17. raised => r.ok
    OBVIOUS
<1>18. ~r.ok => dests = {s}
    OBVIOUS
<1>19. dests \in SUBSET peers /\ qc \in Nat /\ quick[Leader] <= qc /\ qc <= Len(log)
    BY <1>8, <1>9, <1>14
<1>20. qc = quick[Leader] \/ qc = target
    OBVIOUS
<1> HIDE DEF dests, qc, pt
<1>21. Answered(r, pt, dests, qc)
    <2>1. \A t \in Other : peer[t].next >= 1 =>
              pt[t].next >= 1 \/ (t \in dests /\ ~pt[t].busy)
        BY <1>11, <1>12, <1>15, <1>18
    <2>2. \A t \in Other : \/ pt[t].matched = peer[t].matched
                           \/ t = r.req.srv /\ r.ok /\ pt[t].matched = r.next - 1
        BY <1>4, <1>11, <1>12, <1>15
    <2>3. \A t \in peers \cup {Leader} : Known(pt, t) = Known(ps, t)
        BY <1>8, <1>15 DEF Known
    <2>4. {t \in peers \cup {Leader} : Known(pt, t) >= target}
            = {t \in peers \cup {Leader} : Known(ps, t) >= target}
        BY <2>3
    <2>5. \/ qc = quick[Leader]
          \/ Most({t \in peers \cup {Leader} : Known(pt, t) >= qc},
                  peers \cup {Leader})
        BY <1>14, <1>20, <2>4
    <2>6. QED
        BY <1>16, <1>19, <2>1, <2>2, <2>5 DEF Answered
<1>22. \E d \in SUBSET peers, c \in Nat, q \in [Other -> PeerObject] :
           /\ Answered(r, q, d, c) /\ SendAppend(d, log, c, peers, q, reqs)
    <2>1. pt \in [Other -> PeerObject]
        BY <1>21 DEF Answered, PeersFit
    <2>2. QED
        BY <1>3, <1>19, <1>21, <2>1, Zenon
<1>23. QED
    BY <1>1, <1>22

\* handle_append_entries_resp
LEMMA AppendRespKeeps ==
    ASSUME MembershipInv, NEW r \in resps, HandleAppendEntriesResp(r)
    PROVE  MembershipInv'
<1>1. CASE r.req.srv \in peers
    <2>1. /\ resps' = resps \ {r}
          /\ UNCHANGED <<log, len, commit, conf, changing, catching, steps, down,
                         join, changes, faults, declined>>
        BY <1>1, AppendRespEffect
    <2>2. PICK dests \in SUBSET peers, qc \in Nat, ps \in [Other -> PeerObject] :
                  /\ Answered(r, ps, dests, qc)
                  /\ SendAppend(dests, log, qc, peers, ps, reqs)
        BY <1>1, AppendRespEffect
    <2>3. len' = [len EXCEPT ![Leader] = Len(log')]
        <3>1. len \in [Server -> Nat] /\ len[Leader] = Len(log) /\ Leader \in Server
            BY LeaderFacts DEF MembershipInv, IndexesOK
        <3>2. QED
            BY <2>1, <3>1
    <2>4. SendAppend(dests, log', qc, peers, ps, reqs)
        BY <2>1, <2>2
    <2>5. /\ PeersFit(ps, Len(log)) /\ quick[Leader] <= qc /\ qc <= Len(log')
          /\ \A t \in Other : peer[t].next >= 1 =>
                 ps[t].next >= 1 \/ (t \in dests /\ ~ps[t].busy)
        BY <2>1, <2>2 DEF Answered
    <2>6. /\ IndexesOK' /\ PeersOK' /\ LogOK' /\ ChangeOK'
          /\ MsgsOK' /\ AwaitsOK' /\ OneExt'
        BY <2>1, <2>3, <2>4, <2>5, PlainSend
    <2>7. RestOK'
        BY <2>1 DEF MembershipInv, RestOK
    <2>8. QED
        BY <2>6, <2>7 DEF MembershipInv
<1>2. CASE r.req.srv \notin peers
    <2>1. /\ resps' = resps \ {r}
          /\ UNCHANGED <<quick, peers, peer, reqs>>
          /\ UNCHANGED <<log, len, commit, conf, changing, catching, steps, down,
                         join, changes, faults, declined>>
        BY <1>2, Zenon DEF HandleAppendEntriesResp
    <2>2. RestOK'
        BY <2>1 DEF MembershipInv, RestOK
    <2>3. IndexesOK' /\ PeersOK' /\ LogOK' /\ ChangeOK'
        BY <2>1, IndexesStay, LeaderStays
    <2>4. MsgsOK' /\ AwaitsOK' /\ OneExt'
        BY <2>1, MessagesStay
    <2>5. QED
        BY <2>2, <2>3, <2>4 DEF MembershipInv
<1>3. QED
    BY <1>1, <1>2

-----------------------------------------------------------------------------
(* The extended messages at the leader. *)

\* A change has one message under way: without it there is none.
LEMMA OnlyExt ==
    ASSUME MembershipInv
    PROVE  /\ \A m \in reqs : m.live /\ Ext(m) =>
                  /\ \A q \in reqs \ {m} : q.live => ~Ext(q)
                  /\ \A r \in resps : ~Ext(r.req)
           /\ \A r \in resps : Ext(r.req) =>
                  /\ \A q \in reqs : q.live => ~Ext(q)
                  /\ \A q \in resps \ {r} : ~Ext(q.req)
BY DEF MembershipInv, OneExt

\* The messages rs are left, and those of K, one at most, are new.
Left(rs) == \A m \in rs : ReqOK(m) /\ (m.live => AwaitOK(m) /\ ~Ext(m))

\* One message of a change takes the place of another.
LEMMA NextMessage ==
    ASSUME MembershipInv, NEW rs, Left(rs), NEW K, \A k, q \in K : k = q,
           \A k \in K : ReqOK(k)' /\ AwaitOK(k)', reqs' = rs \cup K,
           resps' \subseteq resps, \A r \in resps' : ~Ext(r.req),
           UNCHANGED <<log, quick, conf>>,
           \A s \in Other : peer[s].next >= 1 => peer'[s].next >= 1
    PROVE  MsgsOK' /\ AwaitsOK' /\ OneExt'
<1>1. \A m : ReqOK(m) => ReqOK(m)'
    BY DEF ReqOK, WasMember, Confs
<1>2. \A r : RespOK(r) => RespOK(r)'
    BY <1>1 DEF RespOK
<1>3. \A r \in resps : RespOK(r) /\ AwaitOK(r.req) /\ r.req \in Request
    BY OldMessages
<1>4. MsgsOK'
    BY <1>1, <1>2, <1>3 DEF MsgsOK, Left
<1>5. ASSUME NEW m \in Request, ~Ext(m), AwaitOK(m)
      PROVE  AwaitOK(m)'
    <2>1. m.srv \in Other /\ m.type = "append"
        BY <1>5, RequestFields DEF Ext
    <2>2. QED
        BY <1>5, <2>1 DEF AwaitOK
<1>6. AwaitsOK'
    <2>1. \A m \in rs : m.live => AwaitOK(m)'
        BY <1>5 DEF Left, ReqOK
    <2>2. \A r \in resps' : AwaitOK(r.req)'
        BY <1>3, <1>5
    <2>3. QED
        BY <2>1, <2>2 DEF AwaitsOK
<1>7. OneExt'
    BY DEF OneExt, Left
<1>8. QED
    BY <1>4, <1>6, <1>7

\* The leader's state but its peers' objects and its invitation stays.
LEMMA PeersChange ==
    ASSUME MembershipInv, UNCHANGED <<log, len, quick, commit, conf, catching, peers>>,
           changing'[Leader] = changing[Leader],
           PeersFit(peer', Len(log)), join' \in Invitation,
           join'.next <= Len(log) + 1
    PROVE  IndexesOK' /\ PeersOK' /\ LogOK' /\ ChangeOK'
<1>1. IndexesOK'
    BY IndexesStay
<1>2. PeersOK'
    BY DEF MembershipInv, PeersOK
<1>3. LogOK' /\ ChangeOK'
    BY ChangeStays DEF MembershipInv
<1>4. QED
    BY <1>1, <1>2, <1>3

\* sync_log_to_new_srv, once the message before was answered.
LEMMA SyncLogKeeps ==
    ASSUME MembershipInv, NEW r \in resps, r.req.type \in {"join", "sync"},
           resps' = resps \ {r}, UNCHANGED <<commit, conf, catching>>,
           NEW start \in Nat, start <= Len(log) + 1, NEW j \in Invitation,
           j.srv = join.srv, j.next <= Len(log) + 1,
           SyncLogToNewSrv(start, j, reqs)
    PROVE  /\ IndexesOK' /\ PeersOK' /\ LogOK' /\ ChangeOK'
           /\ MsgsOK' /\ AwaitsOK' /\ OneExt'
           /\ changing' \in [Server -> BOOLEAN]
<1>1. /\ log \in Seq(SUBSET Server) /\ Len(log) \in Nat
      /\ quick[Leader] \in Nat /\ conf[Leader] \in Confs /\ Leader \in Server
      /\ Servers(Leader) = log[conf[Leader]] /\ Leader \in log[conf[Leader]]
      /\ log[conf[Leader]] \in SUBSET Server
    BY LeaderFacts
<1>2. /\ RespOK(r) /\ AwaitOK(r.req) /\ r.req \in Request /\ Ext(r.req)
      /\ r.req.srv \in Other
    BY OldMessages, RequestFields DEF Ext
<1>3. ~changing[Leader] /\ j.srv = r.req.srv /\ Unknown(j.srv) /\ j.srv \in Other
    BY <1>2 DEF AwaitOK
<1>4. PICK rs : rs = reqs
    OBVIOUS
<1>5. Left(rs) /\ \A q \in resps' : ~Ext(q.req)
    BY <1>2, <1>4, OnlyExt, OldMessages DEF Left
<1>6. changing \in [Server -> BOOLEAN] /\ PeersFit(peer, Len(log))
    BY DEF MembershipInv, RestOK, PeersOK
<1> DEFINE gap == quick[Leader] - start
<1>7. /\ join' = j
      /\ IF gap < StopGap
         THEN AppendConf(Servers(Leader) \cup {j.srv}, peers, peer, rs)
         ELSE /\ reqs' = IF start = 0 THEN rs ELSE rs \cup
                     {[type |-> "sync", srv |-> j.srv, start |-> start,
                       n |-> Smaller(gap, BatchSize), live |-> TRUE]}
              /\ UNCHANGED <<log, len, quick, changing, peers, peer>>
    BY <1>4, Zenon DEF SyncLogToNewSrv
<1>8. gap \in Int
    BY <1>1
<1> HIDE DEF gap
<1>9. CASE gap < StopGap
    <2>1. PICK S \in SUBSET Server : S = log[conf[Leader]] \cup {j.srv}
        BY <1>1, <1>3, ServerFacts
    <2>2. PICK P, ps : P = peers /\ ps = peer
        OBVIOUS
    <2>3. AppendConf(S, P, ps, rs)
        BY <1>1, <1>7, <1>9, <2>1, <2>2
    <2>4. Leader \in S
        BY <1>1, <2>1
    <2>5. j.srv \notin log[conf[Leader]]
        BY <1>1, <1>3 DEF Unknown
    <2>6. OneApart(log[conf[Leader]], S)
        BY <1>3, <2>1, <2>5 DEF OneApart
    <2>7. \A i \in 1..Len(log) : log[i] \cap S \subseteq log[conf[Leader]]
        BY <1>3, <2>1 DEF Unknown, Confs
    <2>8. PeersFit(ps, Len(log)) /\ \A s \in Other : peer[s].next >= 1 => ps[s].next >= 1
        BY <1>6, <2>2
    <2>9. join' \in Invitation /\ join'.next <= Len(log) + 1
        BY <1>7
    <2>10. P = peers \/ (P = {} /\ S = {Leader})
        BY <2>2
    <2>11. \A m \in rs : ReqOK(m) /\ (m.live => AwaitOK(m) /\ ~Ext(m))
        BY <1>5 DEF Left
    <2>12. /\ IndexesOK' /\ PeersOK' /\ LogOK' /\ ChangeOK'
           /\ MsgsOK' /\ AwaitsOK' /\ OneExt'
           /\ changing' = [changing EXCEPT ![Leader] = TRUE]
        BY <1>3, <1>5, <2>3, <2>4, <2>6, <2>7, <2>8, <2>9, <2>10, <2>11,
           AppendConfKeeps
    <2>13. QED
        BY <1>1, <1>6, <2>12
<1>10. CASE ~(gap < StopGap)
    <2>1. PICK k : k = [type |-> "sync", srv |-> j.srv, start |-> start,
                        n |-> Smaller(gap, BatchSize), live |-> TRUE]
        OBVIOUS
    <2>2. PICK K : K = IF start = 0 THEN {} ELSE {k}
        OBVIOUS
    <2>3. /\ reqs' = rs \cup K /\ join' = j
          /\ UNCHANGED <<log, len, quick, changing, peers, peer>>
        BY <1>7, <1>10, <2>1, <2>2
    <2>4. IndexesOK' /\ PeersOK' /\ LogOK' /\ ChangeOK'
        BY <1>6, <2>3, PeersChange
    <2>5. ASSUME start # 0
          PROVE  ReqOK(k)' /\ AwaitOK(k)'
        <3>1. PICK n : n = Smaller(gap, BatchSize)
            OBVIOUS
        <3>2. n \in Nat /\ n >= 1 /\ n <= gap
            BY <1>8, <1>10, <3>1, MembershipAssumption DEF Smaller
        <3>3. start + n <= quick[Leader]
            BY <1>1, <3>2 DEF gap
        <3>4. /\ k \in Request /\ k.type = "sync" /\ k.srv = j.srv
              /\ k.start = start /\ k.n = n
            BY <1>3, <2>1, <3>1, <3>2 DEF Request, SyncMsg
        <3>5. start >= 1
            BY <2>5
        <3>6. ReqOK(k)'
            BY <2>3, <3>2, <3>3, <3>4, <3>5 DEF ReqOK
        <3>7. AwaitOK(k)'
            BY <1>3, <2>3, <3>4 DEF AwaitOK, Unknown, Confs
        <3>8. QED
            BY <3>6, <3>7
    <2>6. (\A q, l \in K : q = l) /\ \A q \in K : ReqOK(q)' /\ AwaitOK(q)'
        BY <2>2, <2>5
    <2>7. MsgsOK' /\ AwaitsOK' /\ OneExt'
        BY <1>5, <2>3, <2>6, NextMessage
    <2>8. QED
        BY <1>6, <2>3, <2>4, <2>7
<1>11. QED
    BY <1>9, <1>10

\* An answer that the leader has no use for.
LEMMA DroppedAnswer ==
    ASSUME MembershipInv, NEW r \in resps, Ext(r.req), resps' = resps \ {r},
           UNCHANGED <<log, len, quick, commit, conf, changing, catching, peers,
                       reqs>>,
           PeersFit(peer', Len(log)), join' \in Invitation,
           join'.next <= Len(log) + 1,
           \A s \in Other : peer[s].next >= 1 => peer'[s].next >= 1
    PROVE  /\ IndexesOK' /\ PeersOK' /\ LogOK' /\ ChangeOK'
           /\ MsgsOK' /\ AwaitsOK' /\ OneExt'
<1>1. IndexesOK' /\ PeersOK' /\ LogOK' /\ ChangeOK'
    BY PeersChange
<1>2. PICK rs : rs = reqs
    OBVIOUS
<1>3. Left(rs) /\ \A q \in resps' : ~Ext(q.req)
    BY <1>2, OnlyExt, OldMessages DEF Left
<1>4. PICK K : K = {}
    OBVIOUS
<1>5. reqs' = rs \cup K
    BY <1>2, <1>4
<1>6. (\A q, l \in K : q = l) /\ \A q \in K : ReqOK(q)' /\ AwaitOK(q)'
    BY <1>4
<1>7. MsgsOK' /\ AwaitsOK' /\ OneExt'
    BY <1>3, <1>5, <1>6, NextMessage
<1>8. QED
    BY <1>1, <1>7

\* The rest of what an answer to an extended message leaves alone.
LEMMA RestStays ==
    ASSUME MembershipInv, changing' \in [Server -> BOOLEAN],
           declined' \in BOOLEAN, faults' \in Nat,
           UNCHANGED <<catching, steps, down, changes>>
    PROVE  RestOK'
BY DEF MembershipInv, RestOK

\* The invitation as it is after an answer.
LEMMA Invited ==
    ASSUME MembershipInv, NEW n \in Nat, n <= Len(log) + 1, NEW k \in 0..MaxSlow
    PROVE  /\ join \in Invitation /\ join.next \in Nat /\ join.next <= Len(log) + 1
           /\ [join EXCEPT !.slow = k] \in Invitation
           /\ [join EXCEPT !.slow = k].srv = join.srv
           /\ [join EXCEPT !.slow = k].next = join.next
           /\ [join EXCEPT !.slow = k, !.next = n] \in Invitation
           /\ [join EXCEPT !.slow = k, !.next = n].srv = join.srv
           /\ [join EXCEPT !.slow = k, !.next = n].next = n
BY DEF MembershipInv, PeersOK, Invitation

\* handle_ext_resp for join_cluster_response
LEMMA JoinRespKeeps ==
    ASSUME MembershipInv, NEW r \in resps, HandleJoinResp(r)
    PROVE  MembershipInv'
<1>1. PICK one \in Nat : one = 1
    OBVIOUS
<1>2. PICK j : j = [join EXCEPT !.slow = 0]
    OBVIOUS
<1>3. /\ r.req.type = "join" /\ resps' = resps \ {r}
      /\ IF join.srv # Nobody /\ r.ok
         THEN SyncLogToNewSrv(one, j, reqs)
         ELSE /\ join' = j
              /\ UNCHANGED <<log, len, quick, changing, peers, peer, reqs>>
      /\ declined' = (declined \/ ~r.ok)
      /\ UNCHANGED <<commit, conf, catching, steps, down, changes, faults>>
    BY <1>1, <1>2, Zenon DEF HandleJoinResp
<1>4. Len(log) \in Nat
    BY LeaderFacts
<1>5. /\ 0 \in 0..MaxSlow /\ 1 <= Len(log) + 1
    BY <1>4, MembershipAssumption
<1>6. j \in Invitation /\ j.srv = join.srv /\ j.next <= Len(log) + 1
    BY <1>2, <1>5, Invited
<1>7. RestOK
    BY DEF MembershipInv
<1>8. /\ IndexesOK' /\ PeersOK' /\ LogOK' /\ ChangeOK'
      /\ MsgsOK' /\ AwaitsOK' /\ OneExt'
      /\ changing' \in [Server -> BOOLEAN]
    <2>1. CASE join.srv # Nobody /\ r.ok
        <3>1. SyncLogToNewSrv(one, j, reqs) /\ one <= Len(log) + 1
            BY <1>1, <1>3, <1>5, <2>1
        <3>2. QED
            BY <1>3, <1>6, <3>1, SyncLogKeeps
    <2>2. CASE ~(join.srv # Nobody /\ r.ok)
        <3>1. join' = j /\ UNCHANGED <<log, len, quick, changing, peers, peer, reqs>>
            BY <1>3, <2>2
        <3>2. Ext(r.req) /\ PeersFit(peer', Len(log))
            BY <1>3, <3>1 DEF Ext, MembershipInv, PeersOK
        <3>3. /\ IndexesOK' /\ PeersOK' /\ LogOK' /\ ChangeOK'
              /\ MsgsOK' /\ AwaitsOK' /\ OneExt'
            BY <1>3, <1>6, <3>1, <3>2, DroppedAnswer
        <3>4. QED
            BY <1>7, <3>1, <3>3 DEF RestOK
    <2>3. QED
        BY <2>1, <2>2
<1>9. declined' \in BOOLEAN /\ faults' \in Nat
    BY <1>3, <1>7 DEF RestOK
<1>10. RestOK'
    BY <1>3, <1>8, <1>9, RestStays
<1>11. QED
    BY <1>8, <1>10 DEF MembershipInv

\* handle_ext_resp for sync_log_response
LEMMA SyncRespKeeps ==
    ASSUME MembershipInv, NEW r \in resps, HandleSyncResp(r)
    PROVE  MembershipInv'
<1>1. PICK j : j = [join EXCEPT !.slow = 0, !.next = r.next]
    OBVIOUS
<1>2. /\ r.req.type = "sync" /\ resps' = resps \ {r}
      /\ IF join.srv # Nobody
         THEN SyncLogToNewSrv(r.next, j, reqs)
         ELSE UNCHANGED <<log, len, quick, changing, peers, peer, join, reqs>>
      /\ declined' = (declined \/ ~r.ok)
      /\ UNCHANGED <<commit, conf, catching, steps, down, changes, faults>>
    BY <1>1, Zenon DEF HandleSyncResp
<1>3. Len(log) \in Nat
    BY LeaderFacts
<1>4. PICK start \in Nat : start = r.next /\ start <= Len(log) + 1
    BY OldMessages DEF RespOK, Response
<1>5. 0 \in 0..MaxSlow
    BY MembershipAssumption
<1>6. /\ j \in Invitation /\ j.srv = join.srv /\ j.next <= Len(log) + 1
      /\ join \in Invitation /\ join.next <= Len(log) + 1
    BY <1>1, <1>4, <1>5, Invited
<1>7. RestOK
    BY DEF MembershipInv
<1>8. /\ IndexesOK' /\ PeersOK' /\ LogOK' /\ ChangeOK'
      /\ MsgsOK' /\ AwaitsOK' /\ OneExt'
      /\ changing' \in [Server -> BOOLEAN]
    <2>1. CASE join.srv # Nobody
        <3>1. SyncLogToNewSrv(start, j, reqs)
            BY <1>2, <1>4, <2>1
        <3>2. QED
            BY <1>2, <1>4, <1>6, <3>1, SyncLogKeeps
    <2>2. CASE join.srv = Nobody
        <3>1. UNCHANGED <<log, len, quick, changing, peers, peer, join, reqs>>
            BY <1>2, <2>2
        <3>2. Ext(r.req) /\ PeersFit(peer', Len(log))
            BY <1>2, <3>1 DEF Ext, MembershipInv, PeersOK
        <3>3. /\ IndexesOK' /\ PeersOK' /\ LogOK' /\ ChangeOK'
              /\ MsgsOK' /\ AwaitsOK' /\ OneExt'
            BY <1>2, <1>6, <3>1, <3>2, DroppedAnswer
        <3>4. QED
            BY <1>7, <3>1, <3>3 DEF RestOK
    <2>3. QED
        BY <2>1, <2>2
<1>9. declined' \in BOOLEAN /\ faults' \in Nat
    BY <1>2, <1>7 DEF RestOK
<1>10. RestOK'
    BY <1>2, <1>8, <1>9, RestStays
<1>11. QED
    BY <1>8, <1>10 DEF MembershipInv

\* The objects after server s answered, or failed once more.
Paced(s, k) == [peer EXCEPT ![s].slow = k]

\* Such a server's object is the same but for its pace.
LEMMA PaceOnly ==
    ASSUME MembershipInv, NEW s \in Other, NEW k \in 0..MaxSlow,
           NEW ps, ps = Paced(s, k)
    PROVE  /\ PeersFit(ps, Len(log))
           /\ \A t \in Other : ps[t].next = peer[t].next
           /\ \A t \in Other : ps[t].matched = peer[t].matched
<1>1. PeersFit(peer, Len(log))
    BY DEF MembershipInv, PeersOK
<1>2. PICK p \in PeerObject : p = peer[s]
    BY <1>1 DEF PeersFit
<1>3. PICK a : a = [p EXCEPT !.slow = k]
    OBVIOUS
<1>4. a \in PeerObject /\ a.next = p.next /\ a.matched = p.matched
    BY <1>3 DEF PeerObject
<1>5. ps = [peer EXCEPT ![s] = a]
    BY <1>2, <1>3 DEF Paced
<1>6. /\ ps \in [Other -> PeerObject] /\ ps[s] = a
      /\ \A t \in Other : t # s => ps[t] = peer[t]
    BY <1>1, <1>4, <1>5 DEF PeersFit
<1>7. QED
    BY <1>1, <1>2, <1>4, <1>6 DEF PeersFit

\* rm_srv_from_cluster for a peer that has answered or was given up.
LEMMA RmSrvFromClusterKeeps ==
    ASSUME MembershipInv, ~changing[Leader], NEW s \in peers,
           UNCHANGED <<commit, conf, catching, join>>,
           NEW P, P = peers \/ (P = {} /\ peers = {s}),
           NEW k \in 0..MaxSlow, NEW ps, ps = Paced(s, k),
           NEW rs, Left(rs), resps' \subseteq resps, \A r \in resps' : ~Ext(r.req),
           RmSrvFromCluster(s, P, ps, rs)
    PROVE  /\ IndexesOK' /\ PeersOK' /\ LogOK' /\ ChangeOK'
           /\ MsgsOK' /\ AwaitsOK' /\ OneExt'
           /\ changing' \in [Server -> BOOLEAN]
<1>1. /\ log \in Seq(SUBSET Server) /\ Leader \in Server
      /\ Servers(Leader) = log[conf[Leader]] /\ Leader \in log[conf[Leader]]
      /\ log[conf[Leader]] \in SUBSET Server /\ peers \subseteq Other
      /\ peers \subseteq log[conf[Leader]]
    BY LeaderFacts
<1>2. peers = log[conf[Leader]] \ {Leader}
    BY LastConfiguration
<1>3. s \in Other /\ s # Leader
    BY <1>1, ServerFacts
<1>4. PICK S \in SUBSET Server : S = log[conf[Leader]] \ {s}
    BY <1>1
<1>5. AppendConf(S, P, ps, rs)
    BY <1>1, <1>4 DEF RmSrvFromCluster
<1>6. Leader \in S
    BY <1>1, <1>3, <1>4
<1>7. OneApart(log[conf[Leader]], S)
    BY <1>1, <1>3, <1>4 DEF OneApart
<1>8. \A i \in 1..Len(log) : log[i] \cap S \subseteq log[conf[Leader]]
    BY <1>4
<1>9. P = peers \/ (P = {} /\ S = {Leader})
    BY <1>2, <1>4, <1>6
<1>10. /\ PeersFit(ps, Len(log))
       /\ \A t \in Other : peer[t].next >= 1 => ps[t].next >= 1
    BY <1>3, PaceOnly
<1>11. join' \in Invitation /\ join'.next <= Len(log) + 1
    BY DEF MembershipInv, PeersOK
<1>12. \A m \in rs : ReqOK(m) /\ (m.live => AwaitOK(m) /\ ~Ext(m))
    BY DEF Left
<1>13. UNCHANGED <<commit, conf, catching>>
    OBVIOUS
<1>14. /\ IndexesOK' /\ PeersOK' /\ LogOK' /\ ChangeOK'
       /\ MsgsOK' /\ AwaitsOK' /\ OneExt'
       /\ changing' = [changing EXCEPT ![Leader] = TRUE]
    BY <1>5, <1>6, <1>7, <1>8, <1>9, <1>10, <1>11, <1>12, <1>13, AppendConfKeeps
<1>15. changing \in [Server -> BOOLEAN]
    BY DEF MembershipInv, RestOK
<1>16. QED
    BY <1>1, <1>14, <1>15

\* handle_ext_resp for leave_cluster_response
LEMMA LeaveRespKeeps ==
    ASSUME MembershipInv, NEW r \in resps, HandleLeaveResp(r)
    PROVE  MembershipInv'
<1>1. PICK s, k, rs : s = r.req.srv /\ k = 0 /\ rs = reqs
    BY Zenon
<1>2. PICK ps : ps = Paced(s, k)
    OBVIOUS
<1>3. /\ r.req.type = "leave" /\ resps' = resps \ {r}
      /\ IF r.ok THEN RmSrvFromCluster(s, peers, ps, rs)
         ELSE peer' = ps /\ UNCHANGED <<log, len, quick, changing, peers, reqs>>
      /\ declined' = (declined \/ ~r.ok)
      /\ UNCHANGED <<commit, conf, catching, steps, down, join, changes, faults>>
    BY <1>1, <1>2, Zenon DEF HandleLeaveResp, Paced
<1>4. AwaitOK(r.req) /\ r.req \in Request /\ Ext(r.req)
    BY <1>3, OldMessages DEF Ext
<1>5. s \in peers /\ s \in Other /\ ~changing[Leader]
    BY <1>1, <1>3, <1>4, RequestFields DEF AwaitOK
<1>6. k \in 0..MaxSlow
    BY <1>1, MembershipAssumption
<1>7. Left(rs) /\ \A q \in resps' : ~Ext(q.req)
    BY <1>1, <1>3, <1>4, OnlyExt, OldMessages DEF Left
<1>8. RestOK
    BY DEF MembershipInv
<1>9. /\ IndexesOK' /\ PeersOK' /\ LogOK' /\ ChangeOK'
      /\ MsgsOK' /\ AwaitsOK' /\ OneExt'
      /\ changing' \in [Server -> BOOLEAN]
    <2>1. CASE r.ok
        <3>1. PICK P : P = peers
            OBVIOUS
        <3>2. RmSrvFromCluster(s, P, ps, rs)
            BY <1>3, <2>1, <3>1
        <3>3. resps' \subseteq resps
            BY <1>3
        <3>4. QED
            BY <1>2, <1>3, <1>5, <1>6, <1>7, <3>1, <3>2, <3>3, RmSrvFromClusterKeeps
    <2>2. CASE ~r.ok
        <3>1. peer' = ps /\ UNCHANGED <<log, len, quick, changing, peers, reqs>>
            BY <1>3, <2>2
        <3>2. /\ PeersFit(peer', Len(log))
              /\ \A t \in Other : peer[t].next >= 1 => peer'[t].next >= 1
            <4>1. /\ PeersFit(ps, Len(log))
                  /\ \A t \in Other : ps[t].next = peer[t].next
                BY <1>2, <1>5, <1>6, PaceOnly
            <4>2. QED
                BY <3>1, <4>1
        <3>3. join' \in Invitation /\ join'.next <= Len(log) + 1
            BY <1>3 DEF MembershipInv, PeersOK
        <3>4. /\ IndexesOK' /\ PeersOK' /\ LogOK' /\ ChangeOK'
              /\ MsgsOK' /\ AwaitsOK' /\ OneExt'
            BY <1>3, <1>4, <3>1, <3>2, <3>3, DroppedAnswer
        <3>5. QED
            BY <1>8, <3>1, <3>4 DEF RestOK
    <2>3. QED
        BY <2>1, <2>2
<1>10. declined' \in BOOLEAN /\ faults' \in Nat
    BY <1>3, <1>8 DEF RestOK
<1>11. RestOK'
    BY <1>3, <1>9, <1>10, RestStays
<1>12. QED
    BY <1>9, <1>11 DEF MembershipInv

-----------------------------------------------------------------------------
(* Failures. *)

\* slow_down_hb stops at max_hb_interval.
LEMMA SlowerFacts ==
    ASSUME NEW k \in 0..MaxSlow
    PROVE  Slower(k) \in 0..MaxSlow
BY MembershipAssumption DEF Slower, Smaller

\* handle_ext_resp_err for the message of a change; rs are the ones left.
LEMMA ExtErrKeeps ==
    ASSUME MembershipInv, NEW m \in Request, Ext(m), ReqOK(m), AwaitOK(m),
           NEW rs, Left(rs), resps' \subseteq resps, \A r \in resps' : ~Ext(r.req),
           UNCHANGED <<commit, conf, catching>>, ExtErr(m, rs)
    PROVE  /\ IndexesOK' /\ PeersOK' /\ LogOK' /\ ChangeOK'
           /\ MsgsOK' /\ AwaitsOK' /\ OneExt'
           /\ changing' \in [Server -> BOOLEAN]
<1> DEFINE leaving == m.type = "leave"
           known == IF leaving THEN m.srv \in peers ELSE join.srv # Nobody
           slow == Slower(IF leaving THEN peer[m.srv].slow ELSE join.slow)
           Dropped == /\ reqs' = rs
                      /\ UNCHANGED <<log, len, quick, changing, peers, peer, join>>
           Again == /\ reqs' = rs \cup {m}
                    /\ IF leaving
                       THEN /\ peer' = [peer EXCEPT ![m.srv].slow = Slower(slow)]
                            /\ UNCHANGED join
                       ELSE /\ join' = [join EXCEPT !.slow = Slower(slow)]
                            /\ UNCHANGED peer
                    /\ UNCHANGED <<log, len, quick, changing, peers>>
           Removed == /\ RmSrvFromCluster(
                             m.srv, IF Cardinality(peers) = 1 THEN {} ELSE peers,
                             [peer EXCEPT ![m.srv].slow = slow], rs)
                      /\ UNCHANGED join
           GivenUp == /\ reqs' = rs /\ join' = NoJoin
                      /\ changing' = [changing EXCEPT ![Leader] = FALSE]
                      /\ UNCHANGED <<log, len, quick, peers, peer>>
<1>1. Dropped \/ Again \/ (leaving /\ Removed) \/ (~leaving /\ GivenUp)
    BY Zenon DEF ExtErr
<1>2. /\ m.srv \in Other /\ ~changing[Leader]
      /\ leaving => m.srv \in peers
      /\ ~leaving => join.srv = m.srv /\ Unknown(m.srv)
    BY RequestFields DEF AwaitOK, Ext
<1>3. /\ PeersFit(peer, Len(log)) /\ join \in Invitation
      /\ join.next <= Len(log) + 1 /\ changing \in [Server -> BOOLEAN]
      /\ Len(log) \in Nat /\ Leader \in Server /\ peers \subseteq Other
    BY LeaderFacts DEF MembershipInv, PeersOK, RestOK
<1>4. peer[m.srv].slow \in 0..MaxSlow /\ join.slow \in 0..MaxSlow
    BY <1>2, <1>3 DEF PeersFit, PeerObject, Invitation
<1>5. PICK sl \in 0..MaxSlow : sl = slow
    BY <1>4, SlowerFacts
<1>6. PICK sl2 \in 0..MaxSlow : sl2 = Slower(sl)
    BY SlowerFacts
<1> HIDE DEF slow
<1>7. CASE Dropped
    <2>1. PICK K : K = {}
        OBVIOUS
    <2>2. /\ reqs' = rs \cup K /\ UNCHANGED <<log, len, quick, changing, peers, peer, join>>
        BY <1>7, <2>1
    <2>3. IndexesOK' /\ PeersOK' /\ LogOK' /\ ChangeOK'
        BY <1>3, <2>2, PeersChange
    <2>4. (\A q, l \in K : q = l) /\ \A q \in K : ReqOK(q)' /\ AwaitOK(q)'
        BY <2>1
    <2>5. MsgsOK' /\ AwaitsOK' /\ OneExt'
        BY <2>2, <2>4, NextMessage
    <2>6. QED
        BY <1>3, <2>2, <2>3, <2>5
<1>8. CASE Again
    <2>1. PICK K : K = {m}
        OBVIOUS
    <2>2. PICK ps : ps = Paced(m.srv, sl2)
        OBVIOUS
    <2>3. PICK j : j = [join EXCEPT !.slow = sl2]
        OBVIOUS
    <2>4. /\ reqs' = rs \cup K /\ UNCHANGED <<log, len, quick, changing, peers>>
          /\ (peer' = ps /\ join' = join) \/ (peer' = peer /\ join' = j)
        BY <1>5, <1>6, <1>8, <2>1, <2>2, <2>3 DEF Paced
    <2>5. /\ PeersFit(ps, Len(log))
          /\ \A t \in Other : ps[t].next = peer[t].next
        <3>1. PICK s \in Other : s = m.srv
            BY <1>2
        <3>2. ps = Paced(s, sl2)
            BY <2>2, <3>1
        <3>3. QED
            BY <1>6, <3>1, <3>2, PaceOnly
    <2>6. /\ j \in Invitation /\ j.srv = join.srv /\ j.next = join.next
        BY <1>3, <2>3 DEF Invitation
    <2>7. /\ PeersFit(peer', Len(log)) /\ join' \in Invitation
          /\ join'.next <= Len(log) + 1 /\ join'.srv = join.srv
          /\ \A t \in Other : peer[t].next >= 1 => peer'[t].next >= 1
        BY <1>3, <2>4, <2>5, <2>6
    <2>8. IndexesOK' /\ PeersOK' /\ LogOK' /\ ChangeOK'
        BY <2>4, <2>7, PeersChange
    <2>9. ReqOK(m)'
        BY <2>4 DEF ReqOK, WasMember, Confs
    <2>10. AwaitOK(m)'
        BY <2>4, <2>7 DEF AwaitOK, Ext, Unknown, Confs
    <2>11. (\A q, l \in K : q = l) /\ \A q \in K : ReqOK(q)' /\ AwaitOK(q)'
        BY <2>1, <2>9, <2>10
    <2>12. UNCHANGED <<log, quick, conf>>
        BY <2>4
    <2>13. MsgsOK' /\ AwaitsOK' /\ OneExt'
        BY <2>4, <2>7, <2>11, <2>12, NextMessage
    <2>14. QED
        BY <1>3, <2>4, <2>8, <2>13
<1>9. CASE leaving /\ Removed
    <2>1. PICK ps : ps = Paced(m.srv, sl)
        OBVIOUS
    <2>2. PICK P : P = IF Cardinality(peers) = 1 THEN {} ELSE peers
        OBVIOUS
    <2>3. PICK s \in peers : s = m.srv
        BY <1>2, <1>9
    <2>4. RmSrvFromCluster(s, P, ps, rs) /\ join' = join
        BY <1>5, <1>9, <2>1, <2>2, <2>3 DEF Paced
    <2>5. IsFiniteSet(peers)
        BY <1>3, MembershipAssumption, FS_Subset
    <2>6. Cardinality(peers) = 1 => peers = {s}
        BY <2>5, FS_Singleton
    <2>7. P = peers \/ (P = {} /\ peers = {s})
        BY <2>2, <2>6
    <2>8. ps = Paced(s, sl)
        BY <2>1, <2>3
    <2>9. QED
        BY <1>2, <2>4, <2>7, <2>8, RmSrvFromClusterKeeps
<1>10. CASE ~leaving /\ GivenUp
    <2>1. PICK K : K = {}
        OBVIOUS
    <2>2. /\ reqs' = rs \cup K /\ UNCHANGED <<log, len, quick, peers, peer>>
          /\ join' = [srv |-> Nobody, next |-> 0, slow |-> 0]
          /\ changing' = [changing EXCEPT ![Leader] = FALSE]
        BY <1>10, <2>1 DEF NoJoin
    <2>3. changing' \in [Server -> BOOLEAN] /\ changing'[Leader] = changing[Leader]
        BY <1>2, <1>3, <2>2
    <2>4. join' \in Invitation /\ join'.next <= Len(log) + 1
        BY <1>3, <2>2, MembershipAssumption DEF Invitation
    <2>5. IndexesOK' /\ PeersOK' /\ LogOK' /\ ChangeOK'
        BY <1>3, <2>2, <2>3, <2>4, PeersChange
    <2>6. (\A q, l \in K : q = l) /\ \A q \in K : ReqOK(q)' /\ AwaitOK(q)'
        BY <2>1
    <2>7. MsgsOK' /\ AwaitsOK' /\ OneExt'
        BY <2>2, <2>6, NextMessage
    <2>8. QED
        BY <2>3, <2>5, <2>7
<1>11. QED
    BY <1>1, <1>7, <1>8, <1>9, <1>10

\* The peer object of a request that failed is free again, and slower.
LEMMA FailedPeer ==
    ASSUME PeersFit(peer, Len(log)), NEW s \in Other,
           peer' = [peer EXCEPT ![s].busy = FALSE, ![s].slow = Slower(@)]
    PROVE  /\ PeersFit(peer', Len(log))
           /\ \A t \in Other : peer'[t].next = peer[t].next
           /\ \A t \in Other : peer'[t].matched = peer[t].matched
<1>1. PICK p \in PeerObject : p = peer[s]
    BY DEF PeersFit
<1>2. PICK sl \in 0..MaxSlow : sl = Slower(p.slow)
    BY <1>1, SlowerFacts DEF PeerObject
<1>3. PICK a : a = [p EXCEPT !.busy = FALSE, !.slow = sl]
    OBVIOUS
<1>4. a \in PeerObject /\ a.next = p.next /\ a.matched = p.matched
    BY <1>3 DEF PeerObject
<1>5. peer' = [peer EXCEPT ![s] = a]
    <2>1. peer \in [Other -> PeerObject]
        BY DEF PeersFit
    <2>2. QED
        BY <1>1, <1>2, <1>3, <2>1 DEF PeerObject
<1>6. /\ peer' \in [Other -> PeerObject] /\ peer'[s] = a
      /\ \A t \in Other : t # s => peer'[t] = peer[t]
    BY <1>4, <1>5 DEF PeersFit
<1>7. QED
    BY <1>1, <1>4, <1>6 DEF PeersFit

\* An append request that failed; an extended message may be under way.
LEMMA AppendFailedKeeps ==
    ASSUME MembershipInv, NEW m \in Request, ~Ext(m),
           NEW rs, \A q \in rs : ReqOK(q) /\ (q \in reqs \/ ~q.live),
           resps' \subseteq resps, UNCHANGED <<commit, conf, catching>>, Failed(m, rs)
    PROVE  /\ IndexesOK' /\ PeersOK' /\ LogOK' /\ ChangeOK'
           /\ MsgsOK' /\ AwaitsOK' /\ OneExt'
           /\ changing' \in [Server -> BOOLEAN]
<1>1. m.type = "append" /\ m.srv \in Other
    BY RequestFields DEF Ext
<1>2. /\ reqs' = rs
      /\ peer' = [peer EXCEPT ![m.srv].busy = FALSE, ![m.srv].slow = Slower(@)]
      /\ UNCHANGED <<log, len, quick, changing, peers, join>>
    BY <1>1, Zenon DEF Failed
<1>3. /\ PeersFit(peer, Len(log)) /\ join \in Invitation
      /\ join.next <= Len(log) + 1 /\ changing \in [Server -> BOOLEAN]
    BY DEF MembershipInv, PeersOK, RestOK
<1>4. /\ PeersFit(peer', Len(log))
      /\ \A t \in Other : peer'[t].next = peer[t].next
      /\ \A t \in Other : peer'[t].matched = peer[t].matched
    BY <1>1, <1>2, <1>3, FailedPeer
<1>5. IndexesOK' /\ PeersOK' /\ LogOK' /\ ChangeOK'
    BY <1>2, <1>3, <1>4, PeersChange
<1>6. \A q : ReqOK(q) => ReqOK(q)'
    BY <1>2 DEF ReqOK, WasMember, Confs
<1>7. \A q : RespOK(q) => RespOK(q)'
    BY <1>2, <1>6 DEF RespOK
<1>8. MsgsOK'
    BY <1>2, <1>6, <1>7, OldMessages DEF MsgsOK
<1>9. ASSUME NEW q \in Request, AwaitOK(q), ~Ext(q)
       PROVE  AwaitOK(q)'
    <2>1. q.srv \in Other /\ q.type = "append"
        BY <1>9, RequestFields DEF Ext
    <2>2. QED
        BY <1>4, <1>9, <2>1 DEF AwaitOK
<1>10. AwaitsOK' /\ OneExt'
    <2>1. AwaitsOK /\ OneExt
        BY DEF MembershipInv
    <2>2. \A q \in reqs' : q \in reqs \/ q.type = "append" \/ ~q.live
        BY <1>2
    <2>3. \A q \in reqs' : q.live /\ ~Ext(q) => AwaitOK(q)'
        BY <1>2, <1>9, OldMessages
    <2>4. \A r \in resps' : ~Ext(r.req) => AwaitOK(r.req)'
        BY <1>9, OldMessages
    <2>5. \A s : Unknown(s) => Unknown(s)'
        BY <1>2 DEF Unknown, Confs
    <2>6. ~changing[Leader] => ~changing'[Leader]
        BY <1>2
    <2>7. peers \subseteq peers' /\ join'.srv = join.srv
        BY <1>2
    <2>8. QED
        BY <2>1, <2>2, <2>3, <2>4, <2>5, <2>6, <2>7, ExtStays
<1>11. QED
    BY <1>2, <1>3, <1>5, <1>8, <1>10

\* The error of a request: it may be left as one that arrives later.
LEMMA RequestFailsKeeps ==
    ASSUME MembershipInv, NEW m \in reqs, RequestFails(m)
    PROVE  MembershipInv'
<1>1. PICK late \in {FALSE, LateRequests} :
          Failed(m, (reqs \ {m}) \cup
                    (IF late THEN {[m EXCEPT !.live = FALSE]} ELSE {}))
    BY Zenon DEF RequestFails
<1>2. PICK d : d = [m EXCEPT !.live = FALSE]
    OBVIOUS
<1>3. PICK rs : rs = (reqs \ {m}) \cup (IF late THEN {d} ELSE {})
    OBVIOUS
<1>4. Failed(m, rs)
    BY <1>1, <1>2, <1>3
<1>5. /\ m.live /\ (faults' = faults \/ faults' = faults + 1)
      /\ UNCHANGED <<commit, conf, catching, steps, down, resps, changes, declined>>
    BY Zenon DEF RequestFails
<1>6. m \in Request /\ ReqOK(m) /\ AwaitOK(m)
    BY <1>5, OldMessages
<1>7. ReqOK(d) /\ ~d.live
    BY <1>2, <1>6, DeadRequest DEF ReqOK
<1>8. \A q \in rs : ReqOK(q) /\ ((q \in reqs /\ q # m) \/ ~q.live)
    BY <1>3, <1>7, OldMessages
<1>9. resps' \subseteq resps /\ UNCHANGED <<commit, conf, catching>>
    BY <1>5
<1>10. /\ IndexesOK' /\ PeersOK' /\ LogOK' /\ ChangeOK'
       /\ MsgsOK' /\ AwaitsOK' /\ OneExt'
       /\ changing' \in [Server -> BOOLEAN]
    <2>1. CASE Ext(m)
        <3>1. ExtErr(m, rs)
            BY <1>4, <2>1 DEF Failed, Ext
        <3>2. \A q \in reqs \ {m} : q.live => ~Ext(q) /\ AwaitOK(q)
            BY <1>5, <2>1, OnlyExt, OldMessages
        <3>3. Left(rs)
            BY <1>8, <3>2 DEF Left
        <3>4. \A r \in resps' : ~Ext(r.req)
            BY <1>5, <1>9, <2>1, OnlyExt
        <3>5. QED
            BY <1>6, <1>9, <2>1, <3>1, <3>3, <3>4, ExtErrKeeps
    <2>2. CASE ~Ext(m)
        BY <1>4, <1>6, <1>8, <1>9, <2>2, AppendFailedKeeps
    <2>3. QED
        BY <2>1, <2>2
<1>11. RestOK
    BY DEF MembershipInv
<1>12. declined' \in BOOLEAN /\ faults' \in Nat
    BY <1>5, <1>11 DEF RestOK
<1>13. RestOK'
    BY <1>5, <1>10, <1>12, RestStays
<1>14. QED
    BY <1>10, <1>13 DEF MembershipInv

\* A response that is lost.
LEMMA ResponseFailsKeeps ==
    ASSUME MembershipInv, NEW r \in resps, ResponseFails(r)
    PROVE  MembershipInv'
<1>1. PICK m, rs : m = r.req /\ rs = reqs
    OBVIOUS
<1>2. /\ faults' = faults + 1 /\ resps' = resps \ {r} /\ Failed(m, rs)
      /\ UNCHANGED <<commit, conf, catching, steps, down, changes, declined>>
    BY <1>1, Zenon DEF ResponseFails
<1>3. m \in Request /\ ReqOK(m) /\ AwaitOK(m)
    BY <1>1, OldMessages
<1>4. \A q \in rs : ReqOK(q) /\ (q \in reqs \/ ~q.live)
    BY <1>1, OldMessages
<1>5. resps' \subseteq resps /\ UNCHANGED <<commit, conf, catching>>
    BY <1>2
<1>6. /\ IndexesOK' /\ PeersOK' /\ LogOK' /\ ChangeOK'
      /\ MsgsOK' /\ AwaitsOK' /\ OneExt'
      /\ changing' \in [Server -> BOOLEAN]
    <2>1. CASE Ext(m)
        <3>1. ExtErr(m, rs)
            BY <1>2, <2>1 DEF Failed, Ext
        <3>2. Left(rs)
            BY <1>1, <2>1, OnlyExt, OldMessages DEF Left
        <3>3. \A q \in resps' : ~Ext(q.req)
            BY <1>1, <1>2, <2>1, OnlyExt
        <3>4. QED
            BY <1>3, <1>5, <2>1, <3>1, <3>2, <3>3, ExtErrKeeps
    <2>2. CASE ~Ext(m)
        BY <1>2, <1>3, <1>4, <1>5, <2>2, AppendFailedKeeps
    <2>3. QED
        BY <2>1, <2>2
<1>7. RestOK
    BY DEF MembershipInv
<1>8. declined' \in BOOLEAN /\ faults' \in Nat
    BY <1>2, <1>7 DEF RestOK
<1>9. RestOK'
    BY <1>2, <1>6, <1>8, RestStays
<1>10. QED
    BY <1>6, <1>9 DEF MembershipInv

-----------------------------------------------------------------------------
(* One server is added or removed at a time. *)

\* The first configuration is the only entry of every member's log.
LEMMA MembershipInit ==
    ASSUME Init
    PROVE  MembershipInv
<1>1. PICK c : c = {Leader} \cup Member
    OBVIOUS
<1>2. c \in SUBSET Server /\ c # {} /\ Leader \in c /\ c \ {Leader} = Member
    BY <1>1, MembershipAssumption DEF Server, Other
<1>3. /\ log = <<c>> /\ peers = Member /\ join = NoJoin
      /\ reqs = {} /\ resps = {} /\ down = {}
      /\ changes = 0 /\ faults = 0 /\ declined = FALSE
      /\ changing = [s \in Server |-> FALSE] /\ catching = [s \in Server |-> FALSE]
      /\ steps = [s \in Server |-> 0]
    BY <1>1, Zenon DEF Init
<1>4. /\ len = [s \in Server |-> IF s \in Joiner THEN 0 ELSE 1]
      /\ quick = [s \in Server |-> IF s \in Joiner THEN 0 ELSE 1]
      /\ commit = [s \in Server |-> IF s \in Joiner THEN 0 ELSE 1]
      /\ conf = [s \in Server |-> IF s \in Joiner THEN 0 ELSE 1]
    BY DEF Init
<1>5. Len(log) = 1 /\ log[1] = c /\ log \in Seq(SUBSET Server)
    BY <1>2, <1>3
<1>6. Confs = {1}
    BY <1>2, <1>5 DEF Confs
<1>7. Leader \in Server /\ Leader \notin Joiner /\ Member \subseteq Other
    BY MembershipAssumption DEF Server, Other
<1>8. RestOK
    <2>1. changing \in [Server -> BOOLEAN] /\ catching \in [Server -> BOOLEAN]
        BY <1>3, Zenon
    <2>2. steps \in [Server -> 0..2] /\ down \subseteq Other
        BY <1>3
    <2>3. changes \in Nat /\ faults \in Nat /\ declined \in BOOLEAN
        BY <1>3
    <2>4. QED
        BY <2>1, <2>2, <2>3 DEF RestOK
<1>9. /\ len[Leader] = 1 /\ quick[Leader] = 1 /\ commit[Leader] = 1 /\ conf[Leader] = 1
    BY <1>4, <1>7
<1>10. IndexesOK
    BY <1>4, <1>5, <1>6, <1>9 DEF IndexesOK
<1>11. PeersOK
    <2>1. /\ peer = [s \in Other |-> IF s \in Member
               THEN [NewPeer EXCEPT !.next = 2, !.matched = 1] ELSE NewPeer]
        BY DEF Init
    <2>2. PICK a, b : a = [NewPeer EXCEPT !.next = 2, !.matched = 1] /\ b = NewPeer
        BY Zenon
    <2>3. /\ a \in PeerObject /\ a.next = 2 /\ a.matched = 1
          /\ b \in PeerObject /\ b.next = 0 /\ b.matched = 0
        <3>1. 0 \in 0..MaxSlow
            BY MembershipAssumption
        <3>2. a = [next |-> 2, matched |-> 1, busy |-> FALSE, pending |-> FALSE,
                   slow |-> 0]
            BY <2>2 DEF NewPeer
        <3>3. b = [next |-> 0, matched |-> 0, busy |-> FALSE, pending |-> FALSE,
                   slow |-> 0]
            BY <2>2 DEF NewPeer
        <3>4. a \in PeerObject /\ a.next = 2 /\ a.matched = 1
            BY <3>1, <3>2 DEF PeerObject
        <3>5. b \in PeerObject /\ b.next = 0 /\ b.matched = 0
            BY <3>1, <3>3 DEF PeerObject
        <3>6. QED
            BY <3>4, <3>5
    <2>4. \A s \in Other : peer[s] = a \/ peer[s] = b
        BY <2>1, <2>2
    <2>5. peer \in [Other -> PeerObject]
        BY <2>1, <2>2, <2>3
    <2>6. PeersFit(peer, Len(log))
        BY <1>5, <2>3, <2>4, <2>5 DEF PeersFit
    <2>7. join \in Invitation /\ join.next <= Len(log) + 1
        BY <1>3, <1>5, MembershipAssumption DEF NoJoin, Invitation
    <2>8. QED
        BY <1>3, <1>7, <2>6, <2>7 DEF PeersOK
<1>12. LogOK
    <2>1. NeverBack(log)
        BY <1>5 DEF NeverBack
    <2>2. \A i, j \in 1..Len(log) : ~Neighbours(log, i, j)
        BY <1>5 DEF Neighbours
    <2>3. QED
        BY <1>2, <1>5, <2>1, <2>2 DEF LogOK, LogFine
<1>13. Uncommitted = {}
    BY <1>6, <1>9 DEF Uncommitted
<1>14. ChangeOK
    BY <1>2, <1>3, <1>5, <1>6, <1>7, <1>9, <1>13 DEF ChangeOK
<1>15. MsgsOK /\ AwaitsOK /\ OneExt
    BY <1>3 DEF MsgsOK, AwaitsOK, OneExt
<1>16. QED
    BY <1>8, <1>10, <1>11, <1>12, <1>14, <1>15 DEF MembershipInv

\* A step that changes nothing.
LEMMA MembershipStutters ==
    ASSUME MembershipInv, UNCHANGED vars
    PROVE  MembershipInv'
<1>1. RestOK'
    BY DEF MembershipInv, RestOK, vars
<1>2. /\ UNCHANGED <<log, len, quick, commit, conf>>
      /\ UNCHANGED <<log, peers, peer, join>>
      /\ changing' = changing /\ catching' = catching
      /\ reqs' = reqs /\ resps' = resps
    BY DEF vars
<1>3. IndexesOK' /\ PeersOK' /\ LogOK' /\ ChangeOK'
    BY <1>2, IndexesStay, LeaderStays
<1>4. MsgsOK' /\ AwaitsOK' /\ OneExt'
    BY <1>2, MessagesStay
<1>5. QED
    BY <1>1, <1>3, <1>4 DEF MembershipInv

\* Every step keeps the invariant.
LEMMA MembershipStep ==
    ASSUME ChangesSerialized, MembershipInv, [Next]_vars
    PROVE  MembershipInv'
<1>1. CASE \E s \in Other :
               \/ HandleAddSrvReq(s) \/ HandleRmSrvReq(s) \/ HandleHbTimeout(s)
               \/ HandleElectionTimeout(s) \/ Crash(s) \/ Restart(s)
    BY <1>1, AddSrvKeeps, RmSrvKeeps, HbTimeoutKeeps, ElectionTimeoutKeeps,
       CrashKeeps, RestartKeeps
<1>2. CASE HandleCliReq
    BY <1>2, CliKeeps
<1>3. CASE \E m \in reqs : HandleRequest(m) \/ RequestFails(m)
    BY <1>3, AppendEntriesKeeps, JoinClusterKeeps, LogSyncKeeps,
       LeaveClusterKeeps, RequestFailsKeeps DEF HandleRequest
<1>4. CASE \E r \in resps : HandleResponse(r) \/ ResponseFails(r)
    BY <1>4, AppendRespKeeps, JoinRespKeeps, SyncRespKeeps, LeaveRespKeeps,
       ResponseFailsKeeps DEF HandleResponse
<1>5. CASE \E s \in Server : CommitInBg(s)
    BY <1>5, ServerFacts, FollowerCommits, LeaderCommits
<1>6. CASE UNCHANGED vars
    BY <1>6, MembershipStutters
<1>7. QED
    BY <1>1, <1>2, <1>3, <1>4, <1>5, <1>6 DEF Next

\* MembershipInv is an inductive invariant, whatever the network does, if
\* changes are asked for one after another.
THEOREM MembershipInvariant ==
    ASSUME ChangesSerialized
    PROVE  Spec => []MembershipInv
<1>1. Init => MembershipInv
    BY MembershipInit
<1>2. MembershipInv /\ [Next]_vars => MembershipInv'
    BY MembershipStep
<1>3. QED
    BY <1>1, <1>2, PTL DEF Spec

\* What the invariant says of the configurations.
LEMMA OneChangeFollows ==
    ASSUME MembershipInv
    PROVE  OneChangeAtATime
<1>1. /\ changing[Leader] <=> Uncommitted # {}
      /\ \A i, j \in Uncommitted : i = j
    BY DEF MembershipInv, ChangeOK
<1>2. Cardinality(Uncommitted) <= 1
    <2>1. CASE Uncommitted = {}
        BY <2>1, FS_EmptySet
    <2>2. CASE Uncommitted # {}
        <3>1. PICK i \in Uncommitted : TRUE
            BY <2>2
        <3>2. Uncommitted = {i}
            BY <1>1, <3>1
        <3>3. Cardinality({i}) = 1
            BY FS_Singleton
        <3>4. QED
            BY <3>2, <3>3
    <2>3. QED
        BY <2>1, <2>2
<1>3. ASSUME NEW i \in Confs, NEW j \in Confs, i < j,
             \A k \in Confs : k <= i \/ k >= j
      PROVE  Cardinality((log[i] \ log[j]) \cup (log[j] \ log[i])) = 1
    <2>1. i \in 1..Len(log) /\ j \in 1..Len(log) /\ log[i] # {} /\ log[j] # {}
        BY DEF Confs
    <2>2. Neighbours(log, i, j)
        BY <1>3, <2>1 DEF Neighbours, Confs
    <2>3. OneApart(log[i], log[j])
        BY <2>1, <2>2 DEF MembershipInv, LogOK, LogFine
    <2>4. PICK s \in Other : \/ s \notin log[i] /\ log[j] = log[i] \cup {s}
                             \/ s \in log[i] /\ log[j] = log[i] \ {s}
        BY <2>3 DEF OneApart
    <2>5. (log[i] \ log[j]) \cup (log[j] \ log[i]) = {s}
        BY <2>4
    <2>6. QED
        BY <2>5, FS_Singleton
<1>4. QED
    BY <1>1, <1>2, <1>3 DEF OneChangeAtATime

\* "we only allow one server to be added or removed at a time" (reconfigure):
\* config_changing_ tells whether a configuration in the log waits to be
\* committed, there is never a second one, and neighbouring configurations
\* differ by one server; also with errors, restarts and late requests.
THEOREM OneChangeAlways ==
    ASSUME ChangesSerialized
    PROVE  Spec => []OneChangeAtATime
<1>1. MembershipInv => OneChangeAtATime
    BY OneChangeFollows
<1>2. Spec => []MembershipInv
    BY MembershipInvariant
<1>3. QED
    BY <1>1, <1>2, PTL

-----------------------------------------------------------------------------
(* What was committed is never cut off, and stays with a majority. *)

\* A pack for m.srv ends behind all that the server takes for committed.
PackInStep(m) == catching[m.srv] => quick[m.srv] < m.start + m.n

SyncInv ==
    /\ \A m \in reqs : m.live /\ (m.type = "sync" => PackInStep(m))
    /\ \A r \in resps : r.req.type = "sync" => PackInStep(r.req)
    /\ \A r \in resps : r.req.type = "join" /\ r.ok =>
           (catching[r.req.srv] => quick[r.req.srv] = 0)
    /\ \A s \in Other : commit[s] <= len[s]

\* The leader believes of no member that it has more than it has.
MatchInv ==
    /\ \A s \in Other : WasMember(s) => peer[s].matched <= len[s]
    /\ \A r \in resps : r.req.type = "append" /\ r.ok =>
           r.next - 1 <= len[r.req.srv]

\* The majority of a configuration has all that was committed, and one more
\* configuration at most was committed since.
Holders(c) == {v \in log[c] : len[v] >= quick[Leader]}
QuorumInv ==
    \E c \in Confs :
        /\ c <= quick[Leader] /\ Most(Holders(c), log[c])
        /\ \A i, j \in Confs : (/\ c < i /\ i <= quick[Leader]
                                /\ c < j /\ j <= quick[Leader]) => i = j

\* A server is a member of the configurations the leader has applied for good.
LEMMA NoNewMembers ==
    ASSUME MembershipInv, Grows, conf'[Leader] = conf[Leader]
    PROVE  \A s : WasMember(s)' => WasMember(s)
<1>1. /\ log \in Seq(SUBSET Server) /\ Len(log) \in Nat /\ conf[Leader] \in Nat
      /\ quick[Leader] \in Nat /\ commit[Leader] \in Nat
      /\ conf[Leader] <= commit[Leader] /\ commit[Leader] <= quick[Leader]
      /\ quick[Leader] <= Len(log)
    BY LeaderFacts
<1>2. TAKE s
<1>3. HAVE WasMember(s)'
<1>4. PICK i \in Confs' : i <= conf'[Leader] /\ s \in log'[i]
    BY <1>3 DEF WasMember
<1>5. i \in Confs \/ i = Len(log) + 1
    BY <1>1, <1>4, GrowsKeeps
<1>6. i \in Confs
    BY <1>1, <1>4, <1>5
<1>7. i \in 1..Len(log)
    BY <1>1, <1>6, ConfsNat
<1>8. log'[i] = log[i]
    BY <1>1, <1>7, GrowsKeeps
<1>9. QED
    BY <1>4, <1>6, <1>8 DEF WasMember

\* A member is not unknown.
LEMMA MemberKnown ==
    ASSUME NEW s, WasMember(s)
    PROVE  ~Unknown(s)
BY DEF WasMember, Unknown

\* What a step of the leader does to the others and to the messages.
LeaderStep ==
    /\ Grows /\ resps' \subseteq resps
    /\ \A s \in Other : /\ len'[s] = len[s] /\ quick'[s] = quick[s]
                        /\ commit'[s] = commit[s] /\ catching'[s] = catching[s]
    /\ \A m \in reqs' : m.live /\ (m.type = "sync" => PackInStep(m))
    /\ \A s \in Other : WasMember(s)' => peer'[s].matched <= len[s]

\* Such a step disturbs neither the packs nor what the leader believes.
LEMMA LeaderStepKeeps ==
    ASSUME MembershipInv, MembershipInv', SyncInv, MatchInv, LeaderStep
    PROVE  SyncInv' /\ MatchInv'
<1>1. \A m \in reqs' : m.srv \in Other
    <2>1. \A m \in reqs' : m \in Request
        BY DEF MembershipInv, MsgsOK, ReqOK
    <2>2. QED
        BY <2>1, RequestFields
<1>2. \A r \in resps' : r \in resps /\ r.req.srv \in Other
    <2>1. \A r \in resps : r.req \in Request
        BY OldMessages
    <2>2. QED
        BY <2>1, RequestFields DEF LeaderStep
<1>3. \A m : m.srv \in Other => (PackInStep(m) => PackInStep(m)')
    BY DEF PackInStep, LeaderStep
<1>4. \A m \in reqs' : m.live /\ (m.type = "sync" => PackInStep(m)')
    BY <1>1, <1>3 DEF LeaderStep
<1>5. \A r \in resps' : r.req.type = "sync" => PackInStep(r.req)'
    BY <1>2, <1>3 DEF SyncInv
<1>6. \A r \in resps' : r.req.type = "join" /\ r.ok =>
          (catching'[r.req.srv] => quick'[r.req.srv] = 0)
    BY <1>2 DEF SyncInv, LeaderStep
<1>7. \A s \in Other : commit'[s] <= len'[s]
    BY DEF SyncInv, LeaderStep
<1>8. SyncInv'
    BY <1>4, <1>5, <1>6, <1>7 DEF SyncInv
<1>9. \A s \in Other : WasMember(s)' => peer'[s].matched <= len'[s]
    BY DEF LeaderStep
<1>10. \A r \in resps' : r.req.type = "append" /\ r.ok =>
           r.next - 1 <= len'[r.req.srv]
    BY <1>2 DEF MatchInv, LeaderStep
<1>11. MatchInv'
    BY <1>9, <1>10 DEF MatchInv
<1>12. QED
    BY <1>8, <1>11

\* A larger part of a majority's set is one, too.
LEMMA MostMore ==
    ASSUME NEW V, IsFiniteSet(V), NEW S \in SUBSET V, NEW T \in SUBSET V,
           S \subseteq T, Most(S, V)
    PROVE  Most(T, V)
<1>1. IsFiniteSet(T) /\ IsFiniteSet(S)
    BY FS_Subset
<1>2. Cardinality(S) <= Cardinality(T)
    BY <1>1, FS_Subset
<1>3. Cardinality(S) \in Nat /\ Cardinality(T) \in Nat /\ Cardinality(V) \in Nat
    BY <1>1, FS_CardinalityType
<1>4. QED
    BY <1>2, <1>3 DEF Most

\* Configurations are finite.
LEMMA FiniteConfs ==
    ASSUME log \in Seq(SUBSET Server), NEW c \in Confs
    PROVE  IsFiniteSet(log[c]) /\ log[c] \in SUBSET Server
<1>1. log[c] \in SUBSET Server
    BY ConfsNat
<1>2. QED
    BY <1>1, ServerFacts, FS_Subset

\* Nothing new is committed, and no server of a configuration loses entries.
LEMMA QuorumStays ==
    ASSUME MembershipInv, MembershipInv', QuorumInv, Grows,
           quick'[Leader] = quick[Leader],
           \A s \in Server : ~Unknown(s) => len'[s] >= len[s]
    PROVE  QuorumInv'
<1>1. PICK c \in Confs :
          /\ c <= quick[Leader] /\ Most(Holders(c), log[c])
          /\ \A i, j \in Confs : (/\ c < i /\ i <= quick[Leader]
                                  /\ c < j /\ j <= quick[Leader]) => i = j
    BY DEF QuorumInv
<1>2. /\ log \in Seq(SUBSET Server) /\ Len(log) \in Nat /\ quick[Leader] \in Nat
      /\ quick[Leader] <= Len(log)
    BY LeaderFacts
<1>3. /\ \A i \in 1..Len(log) : log'[i] = log[i]
      /\ Confs \subseteq Confs' /\ Len(log') \in Nat
      /\ \A i \in Confs' : i \in Confs \/ i = Len(log) + 1
    BY <1>2, GrowsKeeps
<1>4. c \in 1..Len(log) /\ c \in Nat
    BY <1>2, ConfsNat
<1>5. IsFiniteSet(log[c]) /\ log[c] \in SUBSET Server
    BY <1>2, FiniteConfs
<1>6. Holders(c) \in SUBSET log[c] /\ Holders(c)' \in SUBSET log'[c]
    BY DEF Holders
<1>7. Holders(c) \subseteq Holders(c)'
    <2>1. SUFFICES ASSUME NEW v \in Holders(c)
                   PROVE  v \in Holders(c)'
        OBVIOUS
    <2>2. v \in log[c] /\ len[v] >= quick[Leader] /\ v \in Server
        BY <1>5 DEF Holders
    <2>3. ~Unknown(v)
        BY <2>2 DEF Unknown
    <2>4. len'[v] >= len[v] /\ len[v] \in Nat /\ len'[v] \in Nat
        BY <2>2, <2>3 DEF MembershipInv, IndexesOK
    <2>5. len'[v] >= quick'[Leader]
        BY <1>2, <2>2, <2>4
    <2>6. QED
        BY <1>3, <1>4, <2>2, <2>5 DEF Holders
<1>8. Most(Holders(c)', log'[c])
    <2>1. PICK V, S, T : V = log[c] /\ S = Holders(c) /\ T = Holders(c)'
        OBVIOUS
    <2>2. V = log'[c]
        BY <1>3, <1>4, <2>1
    <2>3. /\ IsFiniteSet(V) /\ S \in SUBSET V /\ T \in SUBSET V /\ S \subseteq T
          /\ Most(S, V)
        BY <1>1, <1>5, <1>6, <1>7, <2>1, <2>2
    <2>4. Most(T, V)
        BY <2>3, MostMore
    <2>5. QED
        BY <2>1, <2>2, <2>4
<1>9. \A i \in Confs' : i <= quick'[Leader] => i \in Confs
    BY <1>2, <1>3
<1>10. \A i, j \in Confs' : (/\ c < i /\ i <= quick'[Leader]
                             /\ c < j /\ j <= quick'[Leader]) => i = j
    BY <1>1, <1>9
<1>11. c \in Confs' /\ c <= quick'[Leader]
    BY <1>1, <1>3
<1>12. QED
    BY <1>8, <1>10, <1>11 DEF QuorumInv

\* Of the configurations from the leader's on at most one follows.
LEMMA OneAhead ==
    ASSUME MembershipInv, NEW c \in Confs, c >= conf[Leader],
           NEW i \in Confs, NEW j \in Confs, c < i, c < j
    PROVE  i = j
<1>1. c \in Nat /\ i \in Nat /\ j \in Nat /\ conf[Leader] \in Nat
    BY LeaderFacts, ConfsNat
<1>2. i > conf[Leader] /\ j > conf[Leader]
    BY <1>1
<1>3. i > commit[Leader] /\ j > commit[Leader]
    BY <1>1, <1>2 DEF MembershipInv, ChangeOK
<1>4. i \in Uncommitted /\ j \in Uncommitted
    BY <1>3 DEF Uncommitted
<1>5. QED
    BY <1>4 DEF MembershipInv, ChangeOK

\* A leader without peers is the majority of its configuration.
LEMMA AloneHolds ==
    ASSUME MembershipInv, peers = {}, quick[Leader] = Len(log)
    PROVE  QuorumInv
<1>1. /\ log \in Seq(SUBSET Server) /\ Len(log) \in Nat /\ conf[Leader] \in Confs
      /\ conf[Leader] \in Nat /\ commit[Leader] \in Nat /\ Leader \in log[conf[Leader]]
      /\ conf[Leader] <= commit[Leader] /\ len[Leader] = Len(log)
    BY LeaderFacts
<1>2. PICK c \in Confs : c >= conf[Leader] /\ log[c] = {Leader}
    <2>1. CASE peers = log[conf[Leader]] \ {Leader}
        <3>1. log[conf[Leader]] = {Leader}
            BY <1>1, <2>1
        <3>2. QED
            BY <1>1, <3>1
    <2>2. CASE \E i \in Uncommitted : log[i] = {Leader}
        <3>1. PICK i \in Uncommitted : log[i] = {Leader}
            BY <2>2
        <3>2. i \in Confs /\ i > commit[Leader] /\ i \in Nat
            BY <1>1, <3>1, ConfsNat DEF Uncommitted
        <3>3. QED
            BY <1>1, <3>1, <3>2
    <2>3. QED
        BY <2>1, <2>2 DEF MembershipInv, ChangeOK
<1>3. c <= quick[Leader]
    BY <1>1, ConfsNat
<1>4. Holders(c) = {Leader}
    BY <1>1, <1>2 DEF Holders
<1>5. Most(Holders(c), log[c])
    <2>1. Cardinality({Leader}) = 1
        BY FS_Singleton
    <2>2. QED
        BY <1>2, <1>4, <2>1 DEF Most
<1>6. \A i, j \in Confs : c < i /\ c < j => i = j
    BY <1>2, OneAhead
<1>7. QED
    BY <1>3, <1>5, <1>6 DEF QuorumInv

\* So after a step.
LEMMA AloneHoldsNext ==
    (MembershipInv /\ peers = {} /\ quick[Leader] = Len(log))' => QuorumInv'
<1>1. MembershipInv /\ peers = {} /\ quick[Leader] = Len(log) => QuorumInv
    BY AloneHolds
<1>2. QED
    BY <1>1, PTL

CommittedInv == SyncInv /\ MatchInv /\ QuorumInv

\* A step of the leader that learns nothing new about the others.
LEMMA QuietLeader ==
    ASSUME MembershipInv, MembershipInv', CommittedInv, Grows,
           resps' \subseteq resps, UNCHANGED <<conf, commit, catching>>,
           \A s \in Other : /\ len'[s] = len[s] /\ quick'[s] = quick[s]
                            /\ peer'[s].matched = peer[s].matched,
           \A m \in reqs' : \/ m \in reqs \/ \E r \in resps : m = r.req
                            \/ m.live /\ (m.type = "sync" => PackInStep(m)),
           \/ quick'[Leader] = quick[Leader]
           \/ peers' = {} /\ quick'[Leader] = Len(log')
    PROVE  CommittedInv'
<1>1. SyncInv /\ MatchInv /\ QuorumInv
    BY DEF CommittedInv
<1>2. \A m \in reqs' : m.live /\ (m.type = "sync" => PackInStep(m))
    <2>1. \A r \in resps : r.req.live
        BY OldMessages
    <2>2. QED
        BY <1>1, <2>1 DEF SyncInv
<1>3. \A s \in Other : WasMember(s)' => peer'[s].matched <= len[s]
    <2>1. \A s : WasMember(s)' => WasMember(s)
        BY NoNewMembers
    <2>2. QED
        BY <1>1, <2>1 DEF MatchInv
<1>4. LeaderStep
    BY <1>2, <1>3 DEF LeaderStep
<1>5. SyncInv' /\ MatchInv'
    BY <1>1, <1>4, LeaderStepKeeps
<1>6. \A s \in Server : len'[s] >= len[s]
    <2>1. len'[Leader] = Len(log') /\ len[Leader] = Len(log)
        BY DEF MembershipInv, IndexesOK
    <2>2. Len(log') >= Len(log) /\ Len(log) \in Nat /\ Len(log') \in Nat
        BY LeaderFacts, GrowsKeeps
    <2>3. \A s \in Other : len[s] \in Nat
        BY ServerFacts DEF MembershipInv, IndexesOK
    <2>4. QED
        BY <2>1, <2>2, <2>3, ServerFacts
<1>7. QuorumInv'
    <2>1. CASE quick'[Leader] = quick[Leader]
        BY <1>1, <1>6, <2>1, QuorumStays
    <2>2. CASE peers' = {} /\ quick'[Leader] = Len(log')
        <3>1. (MembershipInv /\ peers = {} /\ quick[Leader] = Len(log))'
            BY <2>2
        <3>2. QED
            BY <3>1, AloneHoldsNext
    <2>3. QED
        BY <2>1, <2>2
<1>8. QED
    BY <1>5, <1>7 DEF CommittedInv

\* request_append_entries, for the leader's view of the others.
LEMMA SendFacts ==
    ASSUME MembershipInv, Grows, NEW dests \in SUBSET Other, NEW qc \in Nat,
           NEW P, NEW ps, PeersFit(ps, Len(log)), NEW rs,
           SendAppend(dests, log', qc, P, ps, rs)
    PROVE  /\ peers' = P /\ quick'[Leader] = qc
           /\ \A s \in Other : /\ quick'[s] = quick[s]
                               /\ peer'[s].matched = ps[s].matched
           /\ \A m \in reqs' : m \in rs \/ (m.live /\ m.type = "append")
<1>1. /\ log \in Seq(SUBSET Server) /\ Len(log) \in Nat /\ Leader \in Server
    BY LeaderFacts
<1>2. /\ log' \in Seq(SUBSET Server) /\ Len(log') \in Nat /\ Len(log) <= Len(log')
    BY <1>1, GrowsKeeps
<1>3. PICK l \in Seq(SUBSET Server) : l = log'
    BY <1>2
<1>4. SendAppend(dests, l, qc, P, ps, rs)
    BY <1>3
<1>5. PeersFit(ps, Len(l))
    BY <1>1, <1>2, <1>3, FitsMore
<1>6. /\ peers' = P /\ quick' = [quick EXCEPT ![Leader] = qc]
      /\ \A s \in Other :
             /\ peer'[s].matched = ps[s].matched
             /\ ps[s].next >= 1 => peer'[s].next >= 1
             /\ s \in dests /\ ~ps[s].busy => peer'[s].next >= 1
      /\ \A m \in reqs' :
             m \in rs \/ (Fresh(m, dests, Len(l), qc) /\ peer'[m.srv].next >= 1)
    BY <1>4, <1>5, SendEffect
<1>7. quick \in [Server -> Nat]
    BY DEF MembershipInv, IndexesOK
<1>8. quick'[Leader] = qc /\ \A s \in Other : quick'[s] = quick[s]
    BY <1>1, <1>6, <1>7, ServerFacts
<1>9. \A m \in reqs' : m \in rs \/ (m.live /\ m.type = "append")
    BY <1>6 DEF Fresh, AppendMsg
<1>10. QED
    BY <1>6, <1>8, <1>9

\* A new configuration, for the leader's view of the others.
LEMMA AppendConfFacts ==
    ASSUME MembershipInv, NEW S \in SUBSET Server, NEW P \in SUBSET Other,
           NEW ps, PeersFit(ps, Len(log)), NEW rs, AppendConf(S, P, ps, rs)
    PROVE  /\ Grows /\ peers' = P
           /\ \A s \in Other : /\ len'[s] = len[s] /\ quick'[s] = quick[s]
                               /\ peer'[s].matched = ps[s].matched
           /\ \A m \in reqs' : m \in rs \/ (m.live /\ m.type = "append")
           /\ \/ quick'[Leader] = quick[Leader]
              \/ peers' = {} /\ quick'[Leader] = Len(log')
<1>1. /\ log' = Append(log, S)
      /\ len' = [len EXCEPT ![Leader] = @ + 1]
      /\ SendAppend(P, log', IF P = {} THEN Len(log') ELSE quick[Leader], P, ps, rs)
    BY Zenon DEF AppendConf, RequestAppendEntries
<1>2. Grows
    BY <1>1 DEF Grows
<1>3. log \in Seq(SUBSET Server) /\ quick[Leader] \in Nat
    BY LeaderFacts
<1>4. Len(log') \in Nat
    BY <1>2, <1>3, GrowsKeeps
<1>5. PICK qc \in Nat : qc = IF P = {} THEN Len(log') ELSE quick[Leader]
    BY <1>3, <1>4
<1>6. SendAppend(P, log', qc, P, ps, rs)
    BY <1>1, <1>5
<1>7. /\ peers' = P /\ quick'[Leader] = qc
      /\ \A s \in Other : /\ quick'[s] = quick[s]
                          /\ peer'[s].matched = ps[s].matched
      /\ \A m \in reqs' : m \in rs \/ (m.live /\ m.type = "append")
    BY <1>2, <1>6, SendFacts
<1>8. \A s \in Other : len'[s] = len[s]
    <2>1. len \in [Server -> Nat]
        BY DEF MembershipInv, IndexesOK
    <2>2. QED
        BY <1>1, <2>1, ServerFacts
<1>9. QED
    BY <1>2, <1>5, <1>7, <1>8

\* handle_add_srv_req, handle_rm_srv_req
LEMMA AddSrvHolds ==
    ASSUME MembershipInv, MembershipInv', CommittedInv, NEW s \in Other,
           HandleAddSrvReq(s) \/ HandleRmSrvReq(s)
    PROVE  CommittedInv'
<1>1. /\ UNCHANGED <<log, len, quick, commit, conf, catching, peer, resps>>
      /\ \A m \in reqs' : m \in reqs \/ (m.live /\ m.type # "sync")
    BY DEF HandleAddSrvReq, HandleRmSrvReq
<1>2. Grows /\ resps' \subseteq resps
    BY <1>1 DEF Grows
<1>3. QED
    BY <1>1, <1>2, QuietLeader

\* handle_cli_req
LEMMA CliHolds ==
    ASSUME MembershipInv, MembershipInv', CommittedInv, HandleCliReq
    PROVE  CommittedInv'
<1>1. /\ log' = Append(log, {}) /\ len' = [len EXCEPT ![Leader] = @ + 1]
      /\ SendAppend(peers, log', IF peers = {} THEN Len(log') ELSE quick[Leader],
                    peers, peer, reqs)
      /\ UNCHANGED <<commit, conf, catching, resps>>
    BY Zenon DEF HandleCliReq, RequestAppendEntries
<1>2. PICK P, ps, rs : P = peers /\ ps = peer /\ rs = reqs
    BY Zenon
<1>3. Grows /\ resps' \subseteq resps
    BY <1>1 DEF Grows
<1>4. log \in Seq(SUBSET Server) /\ quick[Leader] \in Nat /\ peers \subseteq Other
    BY LeaderFacts
<1>5. Len(log') \in Nat
    BY <1>3, <1>4, GrowsKeeps
<1>6. PICK qc \in Nat : qc = IF P = {} THEN Len(log') ELSE quick[Leader]
    BY <1>4, <1>5
<1>7. SendAppend(P, log', qc, P, ps, rs)
    BY <1>1, <1>2, <1>6
<1>8. P \in SUBSET Other /\ PeersFit(ps, Len(log))
    BY <1>2, <1>4 DEF MembershipInv, PeersOK
<1>9. /\ peers' = P /\ quick'[Leader] = qc
      /\ \A s \in Other : /\ quick'[s] = quick[s]
                          /\ peer'[s].matched = ps[s].matched
      /\ \A m \in reqs' : m \in rs \/ (m.live /\ m.type = "append")
    BY <1>3, <1>7, <1>8, SendFacts
<1>10. \A s \in Other : len'[s] = len[s]
    <2>1. len \in [Server -> Nat]
        BY DEF MembershipInv, IndexesOK
    <2>2. QED
        BY <1>1, <2>1, ServerFacts
<1>11. \/ quick'[Leader] = quick[Leader]
       \/ peers' = {} /\ quick'[Leader] = Len(log')
    BY <1>6, <1>9
<1>12. /\ \A m \in reqs' : m \in reqs \/ (m.live /\ m.type # "sync")
       /\ \A s \in Other : /\ len'[s] = len[s] /\ quick'[s] = quick[s]
                           /\ peer'[s].matched = peer[s].matched
    BY <1>2, <1>9, <1>10
<1>13. QED
    BY <1>1, <1>3, <1>11, <1>12, QuietLeader

\* handle_hb_timeout
LEMMA HbTimeoutHolds ==
    ASSUME MembershipInv, MembershipInv', CommittedInv, NEW s \in Other,
           HandleHbTimeout(s)
    PROVE  CommittedInv'
<1>1. /\ SendAppend({s}, log', quick[Leader], peers, peer, reqs)
      /\ UNCHANGED <<log, len, commit, conf, catching, resps>>
    BY DEF HandleHbTimeout
<1>2. PICK P, ps, rs : P = peers /\ ps = peer /\ rs = reqs
    BY Zenon
<1>3. PICK dests \in SUBSET Other : dests = {s}
    OBVIOUS
<1>4. PICK qc \in Nat : qc = quick[Leader]
    BY LeaderFacts
<1>5. SendAppend(dests, log', qc, P, ps, rs)
    BY <1>1, <1>2, <1>3, <1>4
<1>6. Grows /\ resps' \subseteq resps
    BY <1>1 DEF Grows
<1>7. PeersFit(ps, Len(log))
    BY <1>2 DEF MembershipInv, PeersOK
<1>8. /\ peers' = P /\ quick'[Leader] = qc
      /\ \A t \in Other : /\ quick'[t] = quick[t]
                          /\ peer'[t].matched = ps[t].matched
      /\ \A m \in reqs' : m \in rs \/ (m.live /\ m.type = "append")
    BY <1>5, <1>6, <1>7, SendFacts
<1>9. /\ \A m \in reqs' : m \in reqs \/ (m.live /\ m.type # "sync")
      /\ \A t \in Other : /\ len'[t] = len[t] /\ quick'[t] = quick[t]
                          /\ peer'[t].matched = peer[t].matched
      /\ quick'[Leader] = quick[Leader]
    BY <1>1, <1>2, <1>4, <1>8
<1>10. QED
    BY <1>1, <1>6, <1>9, QuietLeader

\* sync_log_to_new_srv: the next pack starts behind what the server has.
LEMMA SyncLogHolds ==
    ASSUME MembershipInv, MembershipInv', CommittedInv,
           resps' \subseteq resps, UNCHANGED <<commit, conf, catching>>,
           NEW start \in Nat, NEW j, j.srv \in Other,
           start # 0 => (catching[j.srv] => quick[j.srv] < start),
           SyncLogToNewSrv(start, j, reqs)
    PROVE  CommittedInv'
<1>1. /\ log \in Seq(SUBSET Server) /\ quick[Leader] \in Nat
      /\ Servers(Leader) = log[conf[Leader]] /\ log[conf[Leader]] \in SUBSET Server
      /\ peers \subseteq Other
    BY LeaderFacts
<1> DEFINE gap == quick[Leader] - start
<1>2. IF gap < StopGap
      THEN AppendConf(Servers(Leader) \cup {j.srv}, peers, peer, reqs)
      ELSE /\ reqs' = IF start = 0 THEN reqs ELSE reqs \cup
                  {[type |-> "sync", srv |-> j.srv, start |-> start,
                    n |-> Smaller(gap, BatchSize), live |-> TRUE]}
           /\ UNCHANGED <<log, len, quick, changing, peers, peer>>
    BY Zenon DEF SyncLogToNewSrv
<1>3. gap \in Int
    BY <1>1
<1> HIDE DEF gap
<1>4. CASE gap < StopGap
    <2>1. PICK S \in SUBSET Server : S = log[conf[Leader]] \cup {j.srv}
        BY <1>1, ServerFacts
    <2>2. PICK P \in SUBSET Other : P = peers
        BY <1>1
    <2>3. PICK ps, rs : ps = peer /\ rs = reqs
        OBVIOUS
    <2>4. AppendConf(S, P, ps, rs)
        BY <1>1, <1>2, <1>4, <2>1, <2>2, <2>3
    <2>5. PeersFit(ps, Len(log))
        BY <2>3 DEF MembershipInv, PeersOK
    <2>6. /\ Grows /\ peers' = P
          /\ \A s \in Other : /\ len'[s] = len[s] /\ quick'[s] = quick[s]
                              /\ peer'[s].matched = ps[s].matched
          /\ \A m \in reqs' : m \in rs \/ (m.live /\ m.type = "append")
          /\ \/ quick'[Leader] = quick[Leader]
             \/ peers' = {} /\ quick'[Leader] = Len(log')
        BY <2>4, <2>5, AppendConfFacts
    <2>7. /\ \A m \in reqs' : m \in reqs \/ (m.live /\ m.type # "sync")
          /\ \A s \in Other : /\ len'[s] = len[s] /\ quick'[s] = quick[s]
                              /\ peer'[s].matched = peer[s].matched
        BY <2>3, <2>6
    <2>8. UNCHANGED <<conf, commit, catching>>
        OBVIOUS
    <2>9. QED
        BY <2>6, <2>7, <2>8, QuietLeader
<1>5. CASE ~(gap < StopGap)
    <2>1. PICK n : n = Smaller(gap, BatchSize)
        OBVIOUS
    <2>2. n \in Nat
        BY <1>3, <1>5, <2>1, MembershipAssumption DEF Smaller
    <2>3. PICK k : k = [type |-> "sync", srv |-> j.srv, start |-> start,
                        n |-> n, live |-> TRUE]
        OBVIOUS
    <2>4. /\ UNCHANGED <<log, len, quick, peers, peer>>
          /\ \A m \in reqs' : m \in reqs \/ (m = k /\ start # 0)
        BY <1>2, <1>5, <2>1, <2>3
    <2>5. k.live /\ k.srv = j.srv /\ k.start = start /\ k.n = n
        BY <2>3
    <2>6. start # 0 => PackInStep(k)
        <3>1. quick[j.srv] \in Nat
            BY ServerFacts DEF MembershipInv, IndexesOK
        <3>2. QED
            BY <2>2, <2>5, <3>1 DEF PackInStep
    <2>7. Grows /\ UNCHANGED <<conf, commit, catching>>
        BY <2>4 DEF Grows
    <2>8. \A m \in reqs' : m \in reqs \/ (m.live /\ PackInStep(m))
        BY <2>4, <2>5, <2>6
    <2>9. QED
        BY <2>4, <2>7, <2>8, QuietLeader
<1>6. QED
    BY <1>4, <1>5

\* An answer after which the leader sends nothing.
LEMMA DroppedHolds ==
    ASSUME MembershipInv, MembershipInv', CommittedInv, resps' \subseteq resps,
           UNCHANGED <<log, len, quick, commit, conf, catching, reqs>>,
           \A s \in Other : peer'[s].matched = peer[s].matched
    PROVE  CommittedInv'
<1>1. Grows /\ UNCHANGED <<conf, commit, catching>>
    BY DEF Grows
<1>2. QED
    BY <1>1, QuietLeader

\* handle_ext_resp for join_cluster_response
LEMMA JoinRespHolds ==
    ASSUME MembershipInv, MembershipInv', CommittedInv, NEW r \in resps,
           HandleJoinResp(r)
    PROVE  CommittedInv'
<1>1. PICK j : j = [join EXCEPT !.slow = 0]
    OBVIOUS
<1>2. PICK one \in Nat : one = 1
    OBVIOUS
<1>3. /\ r.req.type = "join" /\ resps' = resps \ {r}
      /\ IF join.srv # Nobody /\ r.ok
         THEN SyncLogToNewSrv(one, j, reqs)
         ELSE UNCHANGED <<log, len, quick, peers, peer, reqs>>
      /\ UNCHANGED <<commit, conf, catching>>
    BY <1>1, <1>2, Zenon DEF HandleJoinResp
<1>4. resps' \subseteq resps
    BY <1>3
<1>5. AwaitOK(r.req) /\ r.req.srv \in Other
    BY OldMessages, RequestFields
<1>6. j.srv = r.req.srv
    <2>1. join.srv = r.req.srv
        BY <1>3, <1>5 DEF AwaitOK
    <2>2. join \in Invitation
        BY DEF MembershipInv, PeersOK
    <2>3. QED
        BY <1>1, <2>1, <2>2 DEF Invitation
<1>7. CASE join.srv # Nobody /\ r.ok
    <2>1. catching[j.srv] => quick[j.srv] < one
        BY <1>2, <1>3, <1>6, <1>7 DEF CommittedInv, SyncInv
    <2>2. SyncLogToNewSrv(one, j, reqs) /\ j.srv \in Other
        BY <1>3, <1>5, <1>6, <1>7
    <2>3. QED
        BY <1>3, <1>4, <2>1, <2>2, SyncLogHolds
<1>8. CASE ~(join.srv # Nobody /\ r.ok)
    BY <1>3, <1>4, <1>8, DroppedHolds
<1>9. QED
    BY <1>7, <1>8

\* handle_ext_resp for sync_log_response
LEMMA SyncRespHolds ==
    ASSUME MembershipInv, MembershipInv', CommittedInv, NEW r \in resps,
           HandleSyncResp(r)
    PROVE  CommittedInv'
<1>1. PICK j : j = [join EXCEPT !.slow = 0, !.next = r.next]
    OBVIOUS
<1>2. /\ r.req.type = "sync" /\ resps' = resps \ {r}
      /\ IF join.srv # Nobody
         THEN SyncLogToNewSrv(r.next, j, reqs)
         ELSE UNCHANGED <<log, len, quick, peers, peer, reqs>>
      /\ UNCHANGED <<commit, conf, catching>>
    BY <1>1, Zenon DEF HandleSyncResp
<1>3. resps' \subseteq resps
    BY <1>2
<1>4. AwaitOK(r.req) /\ r.req.srv \in Other /\ RespOK(r)
    BY OldMessages, RequestFields
<1>5. PICK start \in Nat : start = r.next
    BY <1>4 DEF RespOK, Response
<1>6. j.srv = r.req.srv
    <2>1. join.srv = r.req.srv
        BY <1>2, <1>4 DEF AwaitOK
    <2>2. join \in Invitation
        BY DEF MembershipInv, PeersOK
    <2>3. QED
        BY <1>1, <2>1, <2>2 DEF Invitation
<1>7. CASE join.srv # Nobody
    <2>1. start # 0 => start = r.req.start + r.req.n
        BY <1>2, <1>4, <1>5 DEF RespOK
    <2>2. start # 0 => (catching[j.srv] => quick[j.srv] < start)
        BY <1>2, <1>6, <2>1 DEF CommittedInv, SyncInv, PackInStep
    <2>3. SyncLogToNewSrv(start, j, reqs) /\ j.srv \in Other
        BY <1>2, <1>4, <1>5, <1>6, <1>7
    <2>4. QED
        BY <1>2, <1>3, <2>2, <2>3, SyncLogHolds
<1>8. CASE join.srv = Nobody
    BY <1>2, <1>3, <1>8, DroppedHolds
<1>9. QED
    BY <1>7, <1>8

\* rm_srv_from_cluster
LEMMA RmSrvFromClusterHolds ==
    ASSUME MembershipInv, MembershipInv', CommittedInv,
           resps' \subseteq resps, UNCHANGED <<commit, conf, catching>>,
           NEW s \in Other, NEW k \in 0..MaxSlow, NEW ps, ps = Paced(s, k),
           NEW P, P = peers \/ P = {},
           NEW rs, \A m \in rs : m \in reqs \/ \E r \in resps : m = r.req,
           RmSrvFromCluster(s, P, ps, rs)
    PROVE  CommittedInv'
<1>1. /\ log[conf[Leader]] \in SUBSET Server /\ peers \subseteq Other
      /\ Servers(Leader) = log[conf[Leader]]
    BY LeaderFacts
<1>2. PICK S \in SUBSET Server : S = log[conf[Leader]] \ {s}
    BY <1>1
<1>3. AppendConf(S, P, ps, rs)
    BY <1>1, <1>2 DEF RmSrvFromCluster
<1>4. /\ PeersFit(ps, Len(log))
      /\ \A t \in Other : ps[t].next = peer[t].next
      /\ \A t \in Other : ps[t].matched = peer[t].matched
    BY PaceOnly
<1>5. PICK Q, qs : Q = P /\ qs = ps
    OBVIOUS
<1>6. /\ AppendConf(S, Q, qs, rs) /\ PeersFit(qs, Len(log))
      /\ Q \in SUBSET Other
    BY <1>1, <1>3, <1>4, <1>5
<1>7. /\ Grows /\ peers' = Q
      /\ \A t \in Other : /\ len'[t] = len[t] /\ quick'[t] = quick[t]
                          /\ peer'[t].matched = qs[t].matched
      /\ \A m \in reqs' : m \in rs \/ (m.live /\ m.type = "append")
      /\ \/ quick'[Leader] = quick[Leader]
         \/ peers' = {} /\ quick'[Leader] = Len(log')
    BY <1>6, AppendConfFacts
<1>8. /\ \A m \in reqs' : \/ m \in reqs \/ \E r \in resps : m = r.req
                          \/ m.live /\ m.type # "sync"
      /\ \A t \in Other : /\ len'[t] = len[t] /\ quick'[t] = quick[t]
                          /\ peer'[t].matched = peer[t].matched
    BY <1>4, <1>5, <1>7
<1>9. UNCHANGED <<conf, commit, catching>>
    OBVIOUS
<1>10. QED
    BY <1>7, <1>8, <1>9, QuietLeader

\* handle_ext_resp for leave_cluster_response
LEMMA LeaveRespHolds ==
    ASSUME MembershipInv, MembershipInv', CommittedInv, NEW r \in resps,
           HandleLeaveResp(r)
    PROVE  CommittedInv'
<1>1. PICK s, k, rs : s = r.req.srv /\ k = 0 /\ rs = reqs
    BY Zenon
<1>2. PICK ps : ps = Paced(s, k)
    OBVIOUS
<1>3. /\ resps' = resps \ {r}
      /\ IF r.ok THEN RmSrvFromCluster(s, peers, ps, rs)
         ELSE peer' = ps /\ UNCHANGED <<log, len, quick, peers, reqs>>
      /\ UNCHANGED <<commit, conf, catching>>
    BY <1>1, <1>2, Zenon DEF HandleLeaveResp, Paced
<1>4. resps' \subseteq resps
    BY <1>3
<1>5. s \in Other /\ k \in 0..MaxSlow
    BY <1>1, OldMessages, RequestFields, MembershipAssumption
<1>6. /\ PeersFit(ps, Len(log))
      /\ \A t \in Other : ps[t].next = peer[t].next
      /\ \A t \in Other : ps[t].matched = peer[t].matched
    BY <1>2, <1>5, PaceOnly
<1>7. CASE r.ok
    <2>1. PICK P : P = peers
        OBVIOUS
    <2>2. RmSrvFromCluster(s, P, ps, rs) /\ (P = peers \/ P = {})
        BY <1>3, <1>7, <2>1
    <2>3. \A m \in rs : m \in reqs \/ \E q \in resps : m = q.req
        BY <1>1
    <2>4. QED
        BY <1>2, <1>3, <1>4, <1>5, <2>2, <2>3, RmSrvFromClusterHolds
<1>8. CASE ~r.ok
    BY <1>3, <1>4, <1>6, <1>8, DroppedHolds
<1>9. QED
    BY <1>7, <1>8

\* An error that was reported: the message is sent again, or not, or the
\* server is removed without its answer.
LEMMA FailedHolds ==
    ASSUME MembershipInv, MembershipInv', CommittedInv,
           NEW m \in Request, m \in reqs \/ \E r \in resps : m = r.req,
           NEW rs, rs \subseteq reqs, resps' \subseteq resps,
           UNCHANGED <<commit, conf, catching>>, Failed(m, rs)
    PROVE  CommittedInv'
<1> DEFINE leaving == m.type = "leave"
           slow == Slower(IF leaving THEN peer[m.srv].slow ELSE join.slow)
           Kept == UNCHANGED <<log, len, quick>>
           Again == /\ reqs' = rs \cup {m} /\ Kept
                    /\ IF leaving
                       THEN peer' = [peer EXCEPT ![m.srv].slow = Slower(slow)]
                       ELSE UNCHANGED peer
           Removed == RmSrvFromCluster(
                          m.srv, IF Cardinality(peers) = 1 THEN {} ELSE peers,
                          [peer EXCEPT ![m.srv].slow = slow], rs)
           Slowed == /\ peer' = [peer EXCEPT ![m.srv].busy = FALSE,
                                             ![m.srv].slow = Slower(@)]
                     /\ reqs' = rs /\ Kept
<1>1. Slowed \/ Again \/ Removed \/ (reqs' = rs /\ peer' = peer /\ Kept)
    BY Zenon DEF Failed, ExtErr
<1>2. m.srv \in Other /\ PeersFit(peer, Len(log)) /\ join \in Invitation
    BY RequestFields DEF MembershipInv, PeersOK
<1>3. peer[m.srv].slow \in 0..MaxSlow /\ join.slow \in 0..MaxSlow
    BY <1>2 DEF PeersFit, PeerObject, Invitation
<1>4. PICK sl \in 0..MaxSlow : sl = slow
    BY <1>3, SlowerFacts
<1>5. PICK sl2 \in 0..MaxSlow : sl2 = Slower(sl)
    BY SlowerFacts
<1>6. PICK s \in Other : s = m.srv
    BY <1>2
<1> HIDE DEF slow
<1>7. ASSUME Kept, \A t \in Other : peer'[t].matched = peer[t].matched,
             reqs' \subseteq rs \cup {m}
      PROVE  CommittedInv'
    <2>1. /\ Grows /\ quick'[Leader] = quick[Leader]
          /\ \A t \in Other : /\ len'[t] = len[t] /\ quick'[t] = quick[t]
                              /\ peer'[t].matched = peer[t].matched
        BY <1>7 DEF Grows
    <2>2. \A q \in reqs' : q \in reqs \/ \E r \in resps : q = r.req
        BY <1>7
    <2>3. UNCHANGED <<conf, commit, catching>>
        OBVIOUS
    <2>4. QED
        BY <2>1, <2>2, <2>3, QuietLeader
<1>8. CASE Slowed
    <2>1. peer' = [peer EXCEPT ![s].busy = FALSE, ![s].slow = Slower(@)]
        BY <1>6, <1>8
    <2>2. /\ PeersFit(peer', Len(log))
          /\ \A t \in Other : peer'[t].next = peer[t].next
          /\ \A t \in Other : peer'[t].matched = peer[t].matched
        BY <1>2, <2>1, FailedPeer
    <2>3. QED
        BY <1>7, <1>8, <2>2
<1>9. CASE Again
    <2>1. PICK ps : ps = Paced(s, sl2)
        OBVIOUS
    <2>2. \A t \in Other : ps[t].matched = peer[t].matched
        BY <2>1, PaceOnly
    <2>3. peer' = ps \/ peer' = peer
        BY <1>4, <1>5, <1>6, <1>9, <2>1 DEF Paced
    <2>4. QED
        BY <1>7, <1>9, <2>2, <2>3
<1>10. CASE Removed
    <2>1. PICK ps : ps = Paced(s, sl)
        OBVIOUS
    <2>2. PICK P : P = IF Cardinality(peers) = 1 THEN {} ELSE peers
        OBVIOUS
    <2>3. RmSrvFromCluster(s, P, ps, rs)
        BY <1>4, <1>6, <1>10, <2>1, <2>2 DEF Paced
    <2>4. P = peers \/ P = {}
        BY <2>2
    <2>5. \A q \in rs : q \in reqs \/ \E r \in resps : q = r.req
        OBVIOUS
    <2>6. QED
        BY <2>1, <2>3, <2>4, <2>5, RmSrvFromClusterHolds
<1>11. CASE reqs' = rs /\ peer' = peer /\ Kept
    BY <1>7, <1>11
<1>12. QED
    BY <1>1, <1>8, <1>9, <1>10, <1>11

\* The error of a request, when none arrives after its error was reported.
LEMMA RequestFailsHolds ==
    ASSUME ~LateRequests, MembershipInv, MembershipInv', CommittedInv,
           NEW m \in reqs, RequestFails(m)
    PROVE  CommittedInv'
<1>1. PICK late \in {FALSE, LateRequests} :
          Failed(m, (reqs \ {m}) \cup
                    (IF late THEN {[m EXCEPT !.live = FALSE]} ELSE {}))
    BY Zenon DEF RequestFails
<1>2. ~late
    BY <1>1
<1>3. PICK rs : rs = reqs \ {m}
    OBVIOUS
<1>4. Failed(m, rs)
    BY <1>1, <1>2, <1>3
<1>5. UNCHANGED <<commit, conf, catching>> /\ resps' \subseteq resps
    BY Zenon DEF RequestFails
<1>6. m \in Request /\ rs \subseteq reqs
    BY <1>3, OldMessages
<1>7. QED
    BY <1>4, <1>5, <1>6, FailedHolds

\* A response that is lost.
LEMMA ResponseFailsHolds ==
    ASSUME MembershipInv, MembershipInv', CommittedInv, NEW r \in resps,
           ResponseFails(r)
    PROVE  CommittedInv'
<1>1. PICK m, rs : m = r.req /\ rs = reqs
    OBVIOUS
<1>2. /\ Failed(m, rs) /\ resps' = resps \ {r}
      /\ UNCHANGED <<commit, conf, catching>>
    BY <1>1, Zenon DEF ResponseFails
<1>3. m \in Request /\ rs \subseteq reqs /\ \E q \in resps : m = q.req
    BY <1>1, OldMessages
<1>4. resps' \subseteq resps
    BY <1>2
<1>5. QED
    BY <1>2, <1>3, <1>4, FailedHolds

\* commit: the match indexes of a majority of the leader's peers are what
\* these servers have.
LEMMA RaisedHolds ==
    ASSUME MembershipInv, MembershipInv', UNCHANGED <<log, len, conf>>, peers # {},
           NEW ps, \A t \in peers : ps[t].matched \in Nat /\ ps[t].matched <= len[t],
           NEW qc \in Nat, quick'[Leader] = qc, quick[Leader] <= qc, qc <= Len(log),
           Most({t \in peers \cup {Leader} : Known(ps, t) >= qc},
                peers \cup {Leader})
    PROVE  QuorumInv'
<1>1. /\ log \in Seq(SUBSET Server) /\ Len(log) \in Nat /\ quick[Leader] \in Nat
      /\ conf[Leader] \in Confs /\ conf[Leader] \in Nat /\ commit[Leader] \in Nat
      /\ conf[Leader] <= commit[Leader] /\ commit[Leader] <= quick[Leader]
      /\ Leader \in log[conf[Leader]] /\ len[Leader] = Len(log)
      /\ peers \subseteq Other
    BY LeaderFacts
<1>2. PICK c \in Confs : c = conf[Leader]
    BY <1>1
<1>3. log[c] = peers \cup {Leader}
    BY <1>1, <1>2 DEF MembershipInv, ChangeOK
<1>4. Confs' = Confs /\ log'[c] = log[c]
    BY DEF Confs
<1>5. PICK V, S, T : /\ V = log[c] /\ T = Holders(c)'
                     /\ S = {t \in peers \cup {Leader} : Known(ps, t) >= qc}
    OBVIOUS
<1>6. IsFiniteSet(V)
    BY <1>1, <1>5, FiniteConfs
<1>7. S \in SUBSET V /\ T \in SUBSET V /\ Most(S, V)
    BY <1>3, <1>4, <1>5 DEF Holders
<1>8. S \subseteq T
    <2>1. SUFFICES ASSUME NEW t \in S
                   PROVE  t \in T
        OBVIOUS
    <2>2. t \in log[c] /\ Known(ps, t) >= qc
        BY <1>3, <1>5
    <2>3. len[t] >= qc
        <3>1. CASE t = Leader
            BY <1>1, <3>1
        <3>2. CASE t # Leader
            <4>1. t \in peers /\ Known(ps, t) = ps[t].matched
                BY <1>3, <2>2, <3>2 DEF Known
            <4>2. t \in Server
                BY <1>1, <4>1, ServerFacts
            <4>3. len[t] \in Nat
                BY <4>2 DEF MembershipInv, IndexesOK
            <4>4. QED
                BY <2>2, <4>1, <4>3
        <3>3. QED
            BY <3>1, <3>2
    <2>4. QED
        BY <1>4, <1>5, <2>2, <2>3 DEF Holders
<1>9. Most(T, V)
    BY <1>6, <1>7, <1>8, MostMore
<1>10. Most(Holders(c)', log'[c])
    BY <1>4, <1>5, <1>9
<1>11. \A i, j \in Confs : c < i /\ c < j => i = j
    <2>1. c >= conf[Leader]
        BY <1>1, <1>2
    <2>2. QED
        BY <2>1, OneAhead
<1>12. c \in Confs' /\ c <= quick'[Leader]
    BY <1>1, <1>2, <1>4
<1>13. QED
    BY <1>4, <1>10, <1>11, <1>12 DEF QuorumInv

\* handle_append_entries_resp
LEMMA AppendRespHolds ==
    ASSUME MembershipInv, MembershipInv', CommittedInv, NEW r \in resps,
           HandleAppendEntriesResp(r)
    PROVE  CommittedInv'
<1>1. CASE r.req.srv \in peers
    <2>1. /\ r.req.type = "append" /\ resps' = resps \ {r}
          /\ UNCHANGED <<log, len, commit, conf, changing, catching, steps, down,
                         join, changes, faults, declined>>
        BY <1>1, AppendRespEffect
    <2>2. PICK dests \in SUBSET peers, qc \in Nat, ps \in [Other -> PeerObject] :
                  /\ Answered(r, ps, dests, qc)
                  /\ SendAppend(dests, log, qc, peers, ps, reqs)
        BY <1>1, AppendRespEffect
    <2>3. /\ log \in Seq(SUBSET Server) /\ peers \subseteq Other
          /\ quick[Leader] \in Nat /\ Leader \in Server
        BY LeaderFacts
    <2>4. PICK to, P, rs : P = peers /\ rs = reqs /\ to = dests
        OBVIOUS
    <2>5. SendAppend(to, log', qc, P, ps, rs) /\ to \in SUBSET Other
        BY <2>1, <2>2, <2>3, <2>4
    <2>6. Grows /\ resps' \subseteq resps
        BY <2>1 DEF Grows
    <2>7. PeersFit(ps, Len(log))
        BY <2>2 DEF Answered
    <2>8. /\ peers' = P /\ quick'[Leader] = qc
          /\ \A t \in Other : /\ quick'[t] = quick[t]
                              /\ peer'[t].matched = ps[t].matched
          /\ \A m \in reqs' : m \in rs \/ (m.live /\ m.type = "append")
        BY <2>5, <2>6, <2>7, SendFacts
    <2>9. SyncInv /\ MatchInv /\ QuorumInv
        BY DEF CommittedInv
    <2>10. ASSUME NEW t \in Other, WasMember(t)
           PROVE  ps[t].matched <= len[t]
        <3>1. \/ ps[t].matched = peer[t].matched
              \/ t = r.req.srv /\ r.ok /\ ps[t].matched = r.next - 1
            BY <2>2 DEF Answered
        <3>2. QED
            BY <2>1, <2>9, <2>10, <3>1 DEF MatchInv
    <2>11. \A t : WasMember(t)' => WasMember(t)
        BY <2>1, <2>6, NoNewMembers
    <2>12. LeaderStep
        <3>1. \A m \in reqs' : m.live /\ (m.type = "sync" => PackInStep(m))
            BY <2>4, <2>8, <2>9 DEF SyncInv
        <3>2. \A t \in Other : WasMember(t)' => peer'[t].matched <= len[t]
            BY <2>8, <2>10, <2>11
        <3>3. \A t \in Other : /\ len'[t] = len[t] /\ quick'[t] = quick[t]
                               /\ commit'[t] = commit[t] /\ catching'[t] = catching[t]
            BY <2>1, <2>8
        <3>4. QED
            BY <2>6, <3>1, <3>2, <3>3 DEF LeaderStep
    <2>13. SyncInv' /\ MatchInv'
        BY <2>9, <2>12, LeaderStepKeeps
    <2>14. QuorumInv'
        <3>1. CASE qc = quick[Leader]
            <4>1. quick'[Leader] = quick[Leader]
                BY <2>8, <3>1
            <4>2. \A s \in Server : len'[s] >= len[s]
                BY <2>1 DEF MembershipInv, IndexesOK
            <4>3. QED
                BY <2>6, <2>9, <4>1, <4>2, QuorumStays
        <3>2. CASE qc # quick[Leader]
            <4>1. /\ quick[Leader] <= qc /\ qc <= Len(log)
                  /\ Most({t \in peers \cup {Leader} : Known(ps, t) >= qc},
                          peers \cup {Leader})
                BY <2>2, <3>2 DEF Answered
            <4>2. \A t \in peers : WasMember(t) /\ t \in Other
                BY PeersWereMembers
            <4>3. \A t \in peers : ps[t].matched \in Nat /\ ps[t].matched <= len[t]
                BY <2>7, <2>10, <4>2 DEF PeersFit, PeerObject
            <4>4. peers # {} /\ UNCHANGED <<log, len, conf>> /\ quick'[Leader] = qc
                BY <1>1, <2>1, <2>8
            <4>5. QED
                BY <4>1, <4>3, <4>4, RaisedHolds
        <3>3. QED
            BY <3>1, <3>2
    <2>15. QED
        BY <2>13, <2>14 DEF CommittedInv
<1>2. CASE r.req.srv \notin peers
    <2>1. /\ resps' = resps \ {r}
          /\ UNCHANGED <<log, len, quick, commit, conf, catching, peer, reqs>>
        BY <1>2, Zenon DEF HandleAppendEntriesResp
    <2>2. resps' \subseteq resps
        BY <2>1
    <2>3. QED
        BY <2>1, <2>2, DroppedHolds
<1>3. QED
    BY <1>1, <1>2

\* What is said of a response, for one server.
RespHolds(r) ==
    /\ r.req.type = "sync" => PackInStep(r.req)
    /\ r.req.type = "join" /\ r.ok =>
           (catching[r.req.srv] => quick[r.req.srv] = 0)
    /\ r.req.type = "append" /\ r.ok => r.next - 1 <= len[r.req.srv]

\* A step of server s.
LEMMA FollowerHolds ==
    ASSUME MembershipInv, MembershipInv', CommittedInv, NEW s \in Other,
           UNCHANGED <<log, peer>>, conf'[Leader] = conf[Leader],
           quick'[Leader] = quick[Leader],
           \A t \in Server : t # s =>
               /\ len'[t] = len[t] /\ quick'[t] = quick[t]
               /\ commit'[t] = commit[t] /\ catching'[t] = catching[t],
           ~Unknown(s) => len'[s] >= len[s], commit'[s] <= len'[s],
           reqs' \subseteq reqs,
           \A m \in reqs' : m.type = "sync" /\ m.srv = s => PackInStep(m)',
           \A r \in resps' : r \in resps \/ r.req.srv = s,
           \A r \in resps' : r.req.srv = s => RespHolds(r)'
    PROVE  CommittedInv'
<1>1. SyncInv /\ MatchInv /\ QuorumInv
    BY DEF CommittedInv
<1>2. \A t \in Other : t \in Server
    BY ServerFacts
<1>3. ASSUME NEW m \in reqs'
      PROVE  m.live /\ (m.type = "sync" => PackInStep(m)')
    <2>1. m \in reqs /\ m.srv \in Server
        BY <1>2, OldMessages, RequestFields
    <2>2. m.live /\ (m.type = "sync" => PackInStep(m))
        BY <1>1, <2>1 DEF SyncInv
    <2>3. CASE m.srv = s
        BY <2>2, <2>3
    <2>4. CASE m.srv # s
        BY <2>1, <2>2, <2>4 DEF PackInStep
    <2>5. QED
        BY <2>3, <2>4
<1>4. ASSUME NEW r \in resps'
      PROVE  RespHolds(r)'
    <2>1. CASE r.req.srv = s
        BY <2>1
    <2>2. CASE r.req.srv # s
        <3>1. r \in resps
            BY <2>2
        <3>2. r.req.srv \in Server
            BY <1>2, <3>1, OldMessages, RequestFields
        <3>3. RespHolds(r)
            BY <1>1, <3>1 DEF SyncInv, MatchInv, RespHolds
        <3>4. QED
            BY <2>2, <3>2, <3>3 DEF RespHolds, PackInStep
    <2>3. QED
        BY <2>1, <2>2
<1>5. \A t \in Other : commit'[t] <= len'[t]
    BY <1>1, <1>2 DEF SyncInv
<1>6. SyncInv'
    BY <1>3, <1>4, <1>5 DEF SyncInv, RespHolds
<1>7. ASSUME NEW t \in Other, WasMember(t)'
      PROVE  peer'[t].matched <= len'[t]
    <2>1. WasMember(t)
        BY <1>7 DEF WasMember, Confs
    <2>2. len'[t] >= len[t]
        <3>1. CASE t = s
            BY <2>1, <3>1, MemberKnown
        <3>2. CASE t # s
            BY <1>2, <3>2 DEF MembershipInv, IndexesOK
        <3>3. QED
            BY <3>1, <3>2
    <2>3. len[t] \in Nat /\ len'[t] \in Nat /\ peer[t].matched \in Nat
        BY <1>2 DEF MembershipInv, IndexesOK, PeersOK, PeersFit, PeerObject
    <2>4. QED
        BY <1>1, <2>1, <2>2, <2>3 DEF MatchInv
<1>8. MatchInv'
    BY <1>4, <1>7 DEF MatchInv, RespHolds
<1>9. QuorumInv'
    <2>1. Grows
        BY DEF Grows
    <2>2. ASSUME NEW t \in Server, ~Unknown(t)
          PROVE  len'[t] >= len[t]
        <3>1. CASE t = s
            BY <2>2, <3>1
        <3>2. CASE t # s
            <4>1. len'[t] = len[t] /\ len[t] \in Nat
                BY <3>2 DEF MembershipInv, IndexesOK
            <4>2. QED
                BY <4>1
        <3>3. QED
            BY <3>1, <3>2
    <2>3. QED
        BY <1>1, <2>1, <2>2, QuorumStays
<1>10. QED
    BY <1>6, <1>8, <1>9 DEF CommittedInv

\* handle_append_entries
LEMMA AppendEntriesHolds ==
    ASSUME MembershipInv, MembershipInv', CommittedInv, NEW m \in reqs,
           HandleAppendEntries(m)
    PROVE  CommittedInv'
<1>1. m.type = "append" /\ UNCHANGED <<log, commit, conf, catching, peer>>
    BY DEF HandleAppendEntries
<1>2. /\ m \in Request /\ ReqOK(m) /\ m.live /\ m.srv \in Other
      /\ m.prev \in Nat /\ m.n \in Nat /\ m.commit \in Nat
    BY <1>1, OldMessages, RequestFields DEF CommittedInv, SyncInv
<1>3. PICK s \in Other : s = m.srv
    BY <1>2
<1>4. s \in Server /\ s # Leader /\ len[s] \in Nat /\ quick[s] \in Nat
    BY ServerFacts DEF MembershipInv, IndexesOK
<1>5. PICK okay \in BOOLEAN : okay = (m.prev <= len[s])
    <2>1. (m.prev <= len[s]) \in BOOLEAN
        BY <1>2, <1>4
    <2>2. QED
        BY <2>1, Zenon
<1>6. PICK end \in Nat : end = m.prev + m.n
    BY <1>2
<1>7. PICK next : next = IF okay THEN end + 1 ELSE len[s] + 1
    OBVIOUS
<1>8. PICK k : k = [req |-> m, ok |-> okay, next |-> next]
    OBVIOUS
<1>9. /\ len' = [len EXCEPT ![s] = IF okay THEN Larger(@, end) ELSE @]
      /\ quick' = [quick EXCEPT ![s] = IF okay THEN Larger(@, m.commit) ELSE @]
      /\ Reply(m, okay, next)
    BY <1>3, <1>5, <1>6, <1>7, Zenon DEF HandleAppendEntries
<1>10. reqs' = reqs \ {m} /\ resps' = resps \cup {k}
    BY <1>2, <1>8, <1>9 DEF Reply
<1>11. /\ \A t \in Server : t # s => len'[t] = len[t] /\ quick'[t] = quick[t]
       /\ len'[s] = IF okay THEN Larger(len[s], end) ELSE len[s]
       /\ len'[s] \in Nat
    BY <1>4, <1>9 DEF MembershipInv, IndexesOK
<1>12. len'[s] >= len[s] /\ (okay => len'[s] >= end)
    BY <1>4, <1>11, LargerFacts
<1>13. ~Unknown(s)
    BY <1>1, <1>2, <1>3, MemberKnown DEF ReqOK
<1>14. \A q \in reqs' : ~(q.type = "sync" /\ q.srv = s)
    <2>1. \A q \in reqs' : q.live /\ AwaitOK(q)
        BY <1>10, OldMessages DEF CommittedInv, SyncInv
    <2>2. QED
        BY <1>13, <2>1 DEF AwaitOK
<1>15. ASSUME NEW r \in resps, r.req.srv = s
       PROVE  RespHolds(r)'
    <2>1. AwaitOK(r.req) /\ RespOK(r) /\ r.next \in Nat
        BY OldMessages DEF Response
    <2>2. r.req.type \notin {"join", "sync"}
        BY <1>13, <1>15, <2>1 DEF AwaitOK
    <2>3. r.req.type = "append" /\ r.ok => r.next - 1 <= len'[r.req.srv]
        BY <1>4, <1>11, <1>12, <1>15, <2>1 DEF CommittedInv, MatchInv
    <2>4. QED
        BY <2>2, <2>3 DEF RespHolds
<1>16. RespHolds(k)' /\ k.req.srv = s
    <2>1. k.req = m /\ k.ok = okay /\ k.next = next
        BY <1>8
    <2>2. okay => next - 1 <= len'[s]
        BY <1>7, <1>11, <1>12
    <2>3. QED
        BY <1>1, <1>3, <2>1, <2>2 DEF RespHolds
<1>17. commit'[s] <= len'[s]
    <2>1. commit[s] <= len[s] /\ commit[s] \in Nat
        BY <1>4 DEF CommittedInv, SyncInv, MembershipInv, IndexesOK
    <2>2. QED
        BY <1>1, <1>4, <1>11, <1>12, <2>1
<1>18. quick'[Leader] = quick[Leader]
    BY <1>4, <1>11, ServerFacts
<1>19. QED
    BY <1>1, <1>10, <1>11, <1>12, <1>14, <1>15, <1>16, <1>17, <1>18, FollowerHolds

\* While a live extended request is under way, the rest are append messages.
LEMMA ExtRequestAlone ==
    ASSUME MembershipInv, CommittedInv, NEW m \in reqs, Ext(m),
           NEW ok, NEW next, Reply(m, ok, next)
    PROVE  /\ \A q \in reqs' : q \in reqs /\ q.type = "append"
           /\ \A r \in resps : r.req.type = "append"
           /\ resps' = resps \cup {[req |-> m, ok |-> ok, next |-> next]}
<1>1. \A q \in reqs : q.live
    BY DEF CommittedInv, SyncInv
<1>2. /\ \A q \in reqs \ {m} : ~Ext(q)
      /\ \A r \in resps : ~Ext(r.req)
    BY <1>1, OnlyExt
<1>3. QED
    BY <1>1, <1>2 DEF Reply, Ext

\* handle_join_cluster_req
LEMMA JoinClusterHolds ==
    ASSUME MembershipInv, MembershipInv', CommittedInv, NEW m \in reqs,
           HandleJoinClusterReq(m)
    PROVE  CommittedInv'
<1>1. PICK s \in Other : s = m.srv
    BY OldMessages, RequestFields
<1>2. /\ m.type = "join" /\ UNCHANGED <<log, len, peer>>
      /\ IF catching[s] THEN UNCHANGED <<catching, commit, quick, conf>>
         ELSE /\ catching' = [catching EXCEPT ![s] = TRUE]
              /\ commit' = [commit EXCEPT ![s] = 0]
              /\ quick' = [quick EXCEPT ![s] = 0]
              /\ conf' = [conf EXCEPT ![s] = m.conf]
      /\ Reply(m, ~catching[s], 0)
    BY <1>1, Zenon DEF HandleJoinClusterReq
<1>3. s \in Server /\ s # Leader /\ Leader \in Server
    BY ServerFacts
<1>4. /\ commit \in [Server -> Nat] /\ quick \in [Server -> Nat]
      /\ conf \in [Server -> Nat] /\ len \in [Server -> Nat]
      /\ catching \in [Server -> BOOLEAN]
    BY DEF MembershipInv, IndexesOK, RestOK
<1>5. /\ \A t \in Server : t # s =>
             /\ len'[t] = len[t] /\ quick'[t] = quick[t]
             /\ commit'[t] = commit[t] /\ catching'[t] = catching[t]
      /\ conf'[Leader] = conf[Leader] /\ quick'[Leader] = quick[Leader]
    BY <1>2, <1>3, <1>4
<1>6. PICK k, ok : k = [req |-> m, ok |-> ok, next |-> 0] /\ ok = ~catching[s]
    OBVIOUS
<1>7. Ext(m) /\ Reply(m, ok, 0)
    BY <1>2, <1>6 DEF Ext
<1>8. /\ \A q \in reqs' : q \in reqs /\ q.type = "append"
      /\ \A r \in resps : r.req.type = "append"
      /\ resps' = resps \cup {[req |-> m, ok |-> ok, next |-> 0]}
    BY <1>7, ExtRequestAlone
<1>9. \A r \in resps' : r \in resps \/ r = k
    BY <1>6, <1>8
<1>10. \A r \in resps : RespHolds(r)'
    BY <1>2, <1>8 DEF RespHolds, CommittedInv, MatchInv
<1>11. RespHolds(k)' /\ k.req.srv = s
    <2>1. k.req = m /\ k.ok = ok
        BY <1>6
    <2>2. ok => quick'[s] = 0
        BY <1>2, <1>3, <1>4, <1>6
    <2>3. QED
        BY <1>1, <1>2, <2>1, <2>2 DEF RespHolds
<1>12. commit'[s] <= len'[s]
    <2>1. commit'[s] = commit[s] \/ commit'[s] = 0
        BY <1>2, <1>3, <1>4
    <2>2. QED
        BY <1>2, <1>3, <1>4, <2>1 DEF CommittedInv, SyncInv
<1>13. len'[s] >= len[s]
    BY <1>2, <1>3, <1>4
<1>14. \A q \in reqs' : ~(q.type = "sync")
    BY <1>8
<1>15. reqs' \subseteq reqs
    BY <1>8
<1>16. QED
    BY <1>2, <1>5, <1>9, <1>10, <1>11, <1>12, <1>13, <1>14, <1>15, FollowerHolds

\* handle_log_sync_req: the pack reaches behind what was committed.
LEMMA LogSyncHolds ==
    ASSUME MembershipInv, MembershipInv', CommittedInv, NEW m \in reqs,
           HandleLogSyncReq(m)
    PROVE  CommittedInv'
<1>1. PICK s \in Other : s = m.srv
    BY OldMessages, RequestFields
<1>2. m.type = "sync" /\ UNCHANGED <<log, commit, conf, catching, peer>>
    BY DEF HandleLogSyncReq
<1>3. /\ m \in Request /\ ReqOK(m) /\ m.live /\ AwaitOK(m) /\ PackInStep(m)
    BY <1>2, OldMessages DEF CommittedInv, SyncInv
<1>4. PICK end \in Nat : end = PackEnd(m.start, m.n) /\ end + 1 = m.start + m.n
    BY <1>2, <1>3, PackEnds
<1>5. PICK next : next = IF catching[s] THEN end + 1 ELSE 0
    OBVIOUS
<1>6. PICK k, ok : k = [req |-> m, ok |-> ok, next |-> next] /\ ok = catching[s]
    OBVIOUS
<1>7. /\ len' = [len EXCEPT ![s] = IF catching[s] THEN end ELSE @]
      /\ quick' = [quick EXCEPT ![s] = IF catching[s] THEN Larger(@, end) ELSE @]
      /\ Reply(m, ok, next)
    BY <1>1, <1>4, <1>5, <1>6, Zenon DEF HandleLogSyncReq
<1>8. s \in Server /\ s # Leader /\ Leader \in Server
    BY ServerFacts
<1>9. /\ quick \in [Server -> Nat] /\ len \in [Server -> Nat]
      /\ commit[s] \in Nat /\ commit[s] <= quick[s] /\ quick[s] \in Nat
      /\ len[s] \in Nat
    BY <1>8 DEF MembershipInv, IndexesOK
<1>10. /\ \A t \in Server : t # s => len'[t] = len[t] /\ quick'[t] = quick[t]
       /\ len'[s] = IF catching[s] THEN end ELSE len[s]
       /\ quick'[s] = IF catching[s] THEN Larger(quick[s], end) ELSE quick[s]
       /\ quick'[Leader] = quick[Leader]
    BY <1>7, <1>8, <1>9
<1>11. catching[s] => quick[s] < end + 1
    BY <1>1, <1>3, <1>4 DEF PackInStep
<1>12. catching[s] => quick'[s] = end
    BY <1>9, <1>10, <1>11 DEF Larger
<1>13. commit'[s] <= len'[s]
    <2>1. commit[s] <= len[s]
        BY DEF CommittedInv, SyncInv
    <2>2. QED
        BY <1>2, <1>9, <1>10, <1>11, <2>1
<1>14. Unknown(s)
    BY <1>1, <1>2, <1>3 DEF AwaitOK
<1>15. Ext(m)
    BY <1>2 DEF Ext
<1>16. /\ \A q \in reqs' : q \in reqs /\ q.type = "append"
       /\ \A r \in resps : r.req.type = "append"
       /\ resps' = resps \cup {[req |-> m, ok |-> ok, next |-> next]}
    BY <1>7, <1>15, ExtRequestAlone
<1>17. \A r \in resps : r.req.srv # s
    <2>1. \A r \in resps : WasMember(r.req.srv)
        BY <1>16, OldMessages DEF ReqOK
    <2>2. QED
        BY <1>14, <2>1, MemberKnown
<1>18. RespHolds(k)' /\ k.req.srv = s
    <2>1. k.req = m
        BY <1>6
    <2>2. PackInStep(m)'
        BY <1>1, <1>2, <1>4, <1>12 DEF PackInStep
    <2>3. QED
        BY <1>1, <1>2, <2>1, <2>2 DEF RespHolds
<1>19. /\ \A r \in resps' : r \in resps \/ r = k
       /\ \A q \in reqs' : ~(q.type = "sync")
       /\ reqs' \subseteq reqs
    BY <1>6, <1>16
<1>20. QED
    BY <1>2, <1>10, <1>13, <1>14, <1>17, <1>18, <1>19, FollowerHolds

\* handle_leave_cluster_req
LEMMA LeaveClusterHolds ==
    ASSUME MembershipInv, MembershipInv', CommittedInv, NEW m \in reqs,
           HandleLeaveClusterReq(m)
    PROVE  CommittedInv'
<1>1. PICK s \in Other : s = m.srv
    BY OldMessages, RequestFields
<1>2. PICK ok : ok = ~changing[s]
    OBVIOUS
<1>3. /\ m.type = "leave"
      /\ UNCHANGED <<log, len, quick, commit, conf, catching, peer>>
      /\ Reply(m, ok, 0)
    BY <1>1, <1>2, Zenon DEF HandleLeaveClusterReq
<1>4. PICK k : k = [req |-> m, ok |-> ok, next |-> 0]
    OBVIOUS
<1>5. Ext(m)
    BY <1>3 DEF Ext
<1>6. /\ \A q \in reqs' : q \in reqs /\ q.type = "append"
      /\ \A r \in resps : r.req.type = "append"
      /\ resps' = resps \cup {[req |-> m, ok |-> ok, next |-> 0]}
    BY <1>3, <1>5, ExtRequestAlone
<1>7. \A r \in resps : RespHolds(r)'
    BY <1>3, <1>6 DEF RespHolds, CommittedInv, MatchInv
<1>8. RespHolds(k)' /\ k.req.srv = s
    <2>1. k.req = m
        BY <1>4
    <2>2. QED
        BY <1>1, <1>3, <2>1 DEF RespHolds
<1>9. /\ \A r \in resps' : r \in resps \/ r = k
      /\ \A q \in reqs' : ~(q.type = "sync")
      /\ reqs' \subseteq reqs
    BY <1>4, <1>6
<1>10. len[s] \in Nat /\ commit[s] <= len[s]
    BY ServerFacts DEF CommittedInv, SyncInv, MembershipInv, IndexesOK
<1>11. QED
    BY <1>3, <1>7, <1>8, <1>9, <1>10, FollowerHolds

\* A step of server s that only forgets that it is catching up, or applies
\* more of its log.
LEMMA FollowerAppliesHolds ==
    ASSUME MembershipInv, MembershipInv', CommittedInv, NEW s \in Other,
           UNCHANGED <<log, len, peer, reqs, resps>>, conf'[Leader] = conf[Leader],
           \A t \in Server : t # s =>
               /\ quick'[t] = quick[t]
               /\ commit'[t] = commit[t] /\ catching'[t] = catching[t],
           commit'[s] <= len'[s],
           catching'[s] => catching[s] /\ quick'[s] = quick[s]
    PROVE  CommittedInv'
<1>1. Leader \in Server /\ s # Leader /\ s \in Server
    BY ServerFacts
<1>2. \A m : m.srv = s /\ PackInStep(m) => PackInStep(m)'
    BY DEF PackInStep
<1>3. \A m \in reqs' : m.type = "sync" /\ m.srv = s => PackInStep(m)'
    BY <1>2 DEF CommittedInv, SyncInv
<1>4. ASSUME NEW r \in resps', r.req.srv = s
      PROVE  RespHolds(r)'
    <2>1. RespHolds(r)
        BY DEF RespHolds, CommittedInv, SyncInv, MatchInv
    <2>2. QED
        BY <1>2, <1>4, <2>1 DEF RespHolds
<1>5. len[s] \in Nat
    BY <1>1 DEF MembershipInv, IndexesOK
<1>6. /\ quick'[Leader] = quick[Leader]
      /\ \A t \in Server : t # s =>
             /\ len'[t] = len[t] /\ quick'[t] = quick[t]
             /\ commit'[t] = commit[t] /\ catching'[t] = catching[t]
    BY <1>1
<1>7. UNCHANGED <<log, peer>>
    OBVIOUS
<1>8. len'[s] >= len[s] /\ reqs' \subseteq reqs /\ \A r \in resps' : r \in resps
    BY <1>5
<1>9. QED
    BY <1>3, <1>4, <1>6, <1>7, <1>8, FollowerHolds

\* commit_in_bg of another server
LEMMA FollowerCommitHolds ==
    ASSUME MembershipInv, MembershipInv', CommittedInv, NEW s \in Other,
           CommitInBg(s)
    PROVE  CommittedInv'
<1>1. s \in Server /\ s # Leader /\ Leader \in Server
    BY ServerFacts
<1> DEFINE idx == commit[s] + 1
           newer == idx \in Confs /\ conf[s] < idx
           removed == newer /\ s \notin log[idx] /\ ~catching[s]
<1>2. /\ idx <= len[s]
      /\ commit' = [commit EXCEPT ![s] = idx]
      /\ conf' = IF newer /\ ~removed THEN [conf EXCEPT ![s] = idx] ELSE conf
      /\ catching' = [catching EXCEPT ![s] = @ /\ ~(idx \in Confs /\ s \in log[idx])]
      /\ UNCHANGED <<peers, peer, join>>
      /\ UNCHANGED <<log, len, quick, reqs, resps>>
    BY <1>1, Zenon DEF CommitInBg
<1> HIDE DEF newer, removed
<1>3. /\ commit \in [Server -> Nat] /\ conf \in [Server -> Nat]
      /\ catching \in [Server -> BOOLEAN] /\ quick \in [Server -> Nat]
    BY DEF MembershipInv, IndexesOK, RestOK
<1>4. commit'[s] <= len'[s] /\ \A t \in Server : t # s => commit'[t] = commit[t]
    BY <1>1, <1>2, <1>3
<1>5. conf'[Leader] = conf[Leader]
    BY <1>1, <1>2, <1>3
<1>6. /\ catching'[s] => catching[s]
      /\ \A t \in Server : t # s => catching'[t] = catching[t]
    BY <1>1, <1>2, <1>3
<1>7. UNCHANGED <<log, len, peer, reqs, resps>> /\ quick' = quick
    BY <1>2
<1>8. QED
    BY <1>4, <1>5, <1>6, <1>7, FollowerAppliesHolds

\* The constructor: a server that restarts is not catching up.
LEMMA RestartHolds ==
    ASSUME MembershipInv, MembershipInv', CommittedInv, NEW s \in Other, Restart(s)
    PROVE  CommittedInv'
<1>1. s \in Server /\ s # Leader /\ Leader \in Server
    BY ServerFacts
<1>2. /\ quick' = [quick EXCEPT ![s] = commit[s]]
      /\ conf' = [conf EXCEPT ![s] = LastConf(commit[s])]
      /\ catching' = [catching EXCEPT ![s] = FALSE]
      /\ UNCHANGED <<log, len, commit, peer, reqs, resps>>
    BY Zenon DEF Restart
<1>3. /\ conf \in [Server -> Nat] /\ catching \in [Server -> BOOLEAN]
      /\ quick \in [Server -> Nat] /\ commit[s] <= len[s]
    BY DEF MembershipInv, IndexesOK, RestOK, CommittedInv, SyncInv
<1>4. conf'[Leader] = conf[Leader]
    BY <1>1, <1>2, <1>3
<1>5. ~catching'[s] /\ \A t \in Server : t # s => catching'[t] = catching[t]
    BY <1>1, <1>2, <1>3
<1>6. \A t \in Server : t # s => quick'[t] = quick[t]
    BY <1>1, <1>2, <1>3
<1>7. QED
    BY <1>2, <1>3, <1>4, <1>5, <1>6, FollowerAppliesHolds

\* commit_in_bg of the leader: the object of a new peer knows of nothing.
LEMMA LeaderCommitHolds ==
    ASSUME MembershipInv, MembershipInv', CommittedInv, CommitInBg(Leader)
    PROVE  CommittedInv'
<1>1. PICK idx \in Nat : idx = commit[Leader] + 1
    BY LeaderFacts
<1>2. /\ commit' = [commit EXCEPT ![Leader] = idx] /\ catching' = catching
      /\ UNCHANGED <<log, len, quick, reqs, resps>>
      /\ IF idx \in Confs
         THEN /\ conf' = [conf EXCEPT ![Leader] = idx] /\ Reconfigure(idx)
         ELSE UNCHANGED <<conf, peers, peer, join>>
    BY <1>1, LeaderCommit
<1>3. SyncInv /\ MatchInv /\ QuorumInv
    BY DEF CommittedInv
<1>4. Grows /\ resps' \subseteq resps
    BY <1>2 DEF Grows
<1>5. /\ commit \in [Server -> Nat] /\ conf \in [Server -> Nat]
      /\ len \in [Server -> Nat] /\ Leader \in Server
      /\ \A s \in Other : s \in Server /\ s # Leader
    BY ServerFacts DEF MembershipInv, IndexesOK
<1>6. \A s \in Other : commit'[s] = commit[s]
    BY <1>2, <1>5
<1>7. ASSUME NEW s \in Other, WasMember(s)'
      PROVE  peer'[s].matched <= len[s]
    <2>1. CASE idx \in Confs
        <3>1. /\ conf' = [conf EXCEPT ![Leader] = idx] /\ Reconfigure(idx)
              /\ idx \in Uncommitted
            BY <1>1, <1>2, <2>1, LeaderFacts DEF Uncommitted
        <3>2. PICK i \in Uncommitted : i = idx
            BY <3>1
        <3>3. /\ \A t \in Other : WasMember(t) => peer'[t] = peer[t]
              /\ \A t \in Other : peer'[t] = peer[t] \/ peer'[t].matched = 0
              /\ \A t \in Other : t \in NewPeers(i) \ peers => peer'[t].matched = 0
            BY <3>1, <3>2, ReconfigureFits
        <3>4. CASE WasMember(s)
            BY <1>3, <3>3, <3>4 DEF MatchInv
        <3>5. CASE ~WasMember(s)
            <4>1. PICK j \in Confs : j <= conf'[Leader] /\ s \in log[j]
                BY <1>2, <1>7 DEF WasMember, Confs
            <4>2. conf'[Leader] = idx
                BY <1>5, <3>1
            <4>3. j > conf[Leader]
                BY <3>5, <4>1, LeaderFacts, ConfsNat DEF WasMember
            <4>4. j > commit[Leader]
                BY <4>1, <4>3, LeaderFacts, ConfsNat DEF MembershipInv, ChangeOK
            <4>5. j \in Uncommitted
                BY <4>4 DEF Uncommitted
            <4>6. j = i
                BY <3>2, <4>5 DEF MembershipInv, ChangeOK
            <4>7. s \notin peers
                BY <3>5, PeersWereMembers
            <4>8. s \in NewPeers(i) \ peers
                BY <1>5, <4>1, <4>6, <4>7 DEF NewPeers
            <4>9. peer'[s].matched = 0
                BY <3>3, <4>8
            <4>10. QED
                BY <1>5, <4>9
        <3>6. QED
            BY <3>4, <3>5
    <2>2. CASE idx \notin Confs
        <3>1. peer' = peer /\ conf' = conf
            BY <1>2, <2>2
        <3>2. WasMember(s)
            BY <1>4, <1>7, <3>1, NoNewMembers
        <3>3. QED
            BY <1>3, <3>1, <3>2 DEF MatchInv
    <2>3. QED
        BY <2>1, <2>2
<1>8. \A m \in reqs' : m.live /\ (m.type = "sync" => PackInStep(m))
    BY <1>2, <1>3 DEF SyncInv
<1>9. LeaderStep
    BY <1>2, <1>4, <1>6, <1>7, <1>8 DEF LeaderStep
<1>10. SyncInv' /\ MatchInv'
    BY <1>3, <1>9, LeaderStepKeeps
<1>11. QuorumInv'
    <2>1. \A s \in Server : len'[s] >= len[s]
        BY <1>2, <1>5
    <2>2. quick'[Leader] = quick[Leader]
        BY <1>2
    <2>3. QED
        BY <1>3, <1>4, <2>1, <2>2, QuorumStays
<1>12. QED
    BY <1>10, <1>11 DEF CommittedInv

\* The first configuration is where it was committed.
LEMMA CommittedInit ==
    ASSUME Init
    PROVE  CommittedInv
<1>1. MembershipInv
    BY MembershipInit
<1>2. /\ log = <<{Leader} \cup Member>> /\ reqs = {} /\ resps = {}
      /\ len = [s \in Server |-> IF s \in Joiner THEN 0 ELSE 1]
      /\ quick = [s \in Server |-> IF s \in Joiner THEN 0 ELSE 1]
      /\ commit = [s \in Server |-> IF s \in Joiner THEN 0 ELSE 1]
    BY DEF Init
<1>3. /\ \A s \in Member : s \in Server /\ s \notin Joiner
      /\ Leader \in Server /\ Leader \notin Joiner
    BY MembershipAssumption DEF Server, Other
<1>4. Len(log) = 1 /\ log[1] = {Leader} \cup Member
    BY <1>2
<1>5. Confs = {1}
    BY <1>4 DEF Confs
<1>6. \A s \in log[1] : s \in Server /\ len[s] = 1
    BY <1>2, <1>3, <1>4
<1>7. SyncInv
    BY <1>2, ServerFacts DEF SyncInv
<1>8. MatchInv
    <2>1. peer = [s \in Other |-> IF s \in Member
               THEN [NewPeer EXCEPT !.next = 2, !.matched = 1] ELSE NewPeer]
        BY DEF Init
    <2>2. ASSUME NEW s \in Other, WasMember(s)
          PROVE  peer[s].matched <= len[s]
        <3>1. s \in log[1]
            BY <1>5, <2>2 DEF WasMember
        <3>2. s \in Member
            BY <1>4, <3>1, ServerFacts
        <3>3. peer[s].matched = 1
            BY <2>1, <3>2 DEF NewPeer
        <3>4. QED
            BY <1>6, <3>1, <3>3
    <2>3. QED
        BY <1>2, <2>2 DEF MatchInv
<1>9. QuorumInv
    <2>1. quick[Leader] = 1
        BY <1>2, <1>3
    <2>2. Holders(1) = log[1]
        BY <1>6, <2>1 DEF Holders
    <2>3. IsFiniteSet(log[1]) /\ log[1] # {}
        BY <1>1, <1>4, <1>5, LeaderFacts, FiniteConfs
    <2>4. Cardinality(log[1]) \in Nat /\ Cardinality(log[1]) # 0
        BY <2>3, FS_CardinalityType, FS_EmptySet
    <2>5. Most(Holders(1), log[1])
        BY <2>2, <2>4 DEF Most
    <2>6. QED
        BY <1>5, <2>1, <2>5 DEF QuorumInv
<1>10. QED
    BY <1>7, <1>8, <1>9 DEF CommittedInv

\* Every step keeps it, if no request arrives after its error was reported.
LEMMA CommittedStep ==
    ASSUME ~LateRequests, MembershipInv, MembershipInv', CommittedInv, [Next]_vars
    PROVE  CommittedInv'
<1>1. CASE \E s \in Other :
               \/ HandleAddSrvReq(s) \/ HandleRmSrvReq(s) \/ HandleHbTimeout(s)
               \/ HandleElectionTimeout(s) \/ Crash(s) \/ Restart(s)
    <2>1. PICK s \in Other :
               \/ HandleAddSrvReq(s) \/ HandleRmSrvReq(s) \/ HandleHbTimeout(s)
               \/ HandleElectionTimeout(s) \/ Crash(s) \/ Restart(s)
        BY <1>1
    <2>2. CASE HandleElectionTimeout(s) \/ Crash(s)
        <3>1. /\ UNCHANGED <<log, len, quick, commit, conf, catching, reqs>>
              /\ peer' = peer /\ resps' \subseteq resps
            BY <2>2 DEF HandleElectionTimeout, Crash
        <3>2. QED
            BY <3>1, DroppedHolds
    <2>3. QED
        BY <2>1, <2>2, AddSrvHolds, HbTimeoutHolds, RestartHolds
<1>2. CASE HandleCliReq
    BY <1>2, CliHolds
<1>3. CASE \E m \in reqs : HandleRequest(m) \/ RequestFails(m)
    BY <1>3, AppendEntriesHolds, JoinClusterHolds, LogSyncHolds,
       LeaveClusterHolds, RequestFailsHolds DEF HandleRequest
<1>4. CASE \E r \in resps : HandleResponse(r) \/ ResponseFails(r)
    BY <1>4, AppendRespHolds, JoinRespHolds, SyncRespHolds, LeaveRespHolds,
       ResponseFailsHolds DEF HandleResponse
<1>5. CASE \E s \in Server : CommitInBg(s)
    BY <1>5, ServerFacts, FollowerCommitHolds, LeaderCommitHolds
<1>6. CASE UNCHANGED vars
    <2>1. /\ UNCHANGED <<log, len, quick, commit, conf, catching, reqs>>
          /\ peer' = peer /\ resps' \subseteq resps
        BY <1>6 DEF vars
    <2>2. QED
        BY <2>1, DroppedHolds
<1>7. QED
    BY <1>1, <1>2, <1>3, <1>4, <1>5, <1>6 DEF Next

\* What was committed is never cut off by a pack, the leader believes of no
\* member more than it has, and the last index it committed is on a majority
\* of a configuration that is at most one behind.
THEOREM CommittedInvariant ==
    ASSUME ChangesSerialized, ~LateRequests
    PROVE  Spec => [](MembershipInv /\ CommittedInv)
<1>1. Init => MembershipInv /\ CommittedInv
    BY MembershipInit, CommittedInit
<1>2. MembershipInv /\ CommittedInv /\ [Next]_vars => (MembershipInv /\ CommittedInv)'
    BY MembershipStep, CommittedStep
<1>3. QED
    BY <1>1, <1>2, PTL DEF Spec

\* The types follow from the two invariants.
LEMMA TypeFollows ==
    ASSUME MembershipInv, CommittedInv
    PROVE  TypeOK
<1>1. /\ log \in Seq(SUBSET Server) /\ Len(log) \in Nat
      /\ quick[Leader] \in Nat /\ quick[Leader] <= Len(log)
      /\ len[Leader] = Len(log) /\ commit[Leader] <= quick[Leader]
      /\ commit[Leader] \in Nat
    BY LeaderFacts
<1>2. len \in [Server -> Nat] /\ quick \in [Server -> Nat]
    BY DEF MembershipInv, IndexesOK
<1>3. ASSUME NEW s \in Server
      PROVE  /\ len[s] \in 0..Len(log) /\ quick[s] \in 0..Len(log)
             /\ commit[s] \in 0..len[s] /\ conf[s] \in Confs \cup {0}
    <2>1. /\ len[s] \in Nat /\ quick[s] \in Nat /\ commit[s] \in Nat
          /\ len[s] <= Len(log) /\ quick[s] <= quick[Leader]
          /\ conf[s] \in Confs \cup {0}
        BY DEF MembershipInv, IndexesOK
    <2>2. commit[s] <= len[s]
        <3>1. CASE s = Leader
            BY <1>1, <3>1
        <3>2. CASE s # Leader
            BY <3>2, ServerFacts DEF CommittedInv, SyncInv
        <3>3. QED
            BY <3>1, <3>2
    <2>3. QED
        BY <1>1, <2>1, <2>2
<1>4. len \in [Server -> 0..Len(log)] /\ quick \in [Server -> 0..Len(log)]
    BY <1>2, <1>3
<1>5. /\ changing \in [Server -> BOOLEAN] /\ catching \in [Server -> BOOLEAN]
      /\ steps \in [Server -> 0..2] /\ down \subseteq Other
      /\ changes \in Nat /\ faults \in Nat /\ declined \in BOOLEAN
    BY DEF MembershipInv, RestOK
<1>6. /\ peers \subseteq Other
      /\ peer \in [Other -> [next : Nat, matched : Nat, busy : BOOLEAN,
                             pending : BOOLEAN, slow : 0..MaxSlow]]
      /\ join \in [srv : Other \cup {Nobody}, next : Nat, slow : 0..MaxSlow]
    BY DEF MembershipInv, PeersOK, PeersFit, PeerObject, Invitation
<1>7. QED
    BY <1>1, <1>3, <1>4, <1>5, <1>6 DEF TypeOK

\* Every variable keeps its type; among them, no server has applied an entry
\* that its log has lost.
THEOREM MembershipTypes ==
    ASSUME ChangesSerialized, ~LateRequests
    PROVE  Spec => []TypeOK
<1>1. MembershipInv /\ CommittedInv => TypeOK
    BY TypeFollows
<1>2. Spec => [](MembershipInv /\ CommittedInv)
    BY CommittedInvariant
<1>3. QED
    BY <1>1, <1>2, PTL

-----------------------------------------------------------------------------
(* Who can be elected. *)

\* Majorities of a set and of one with an element more meet.
LEMMA MajoritiesMeet ==
    ASSUME NEW X, NEW Y, IsFiniteSet(X), NEW e, Y = X \/ (e \notin X /\ Y = X \cup {e}),
           NEW A \in SUBSET X, NEW B \in SUBSET Y, Most(A, X), Most(B, Y)
    PROVE  A \cap B # {}
<1>1. SUFFICES ASSUME A \cap B = {}
               PROVE  FALSE
    OBVIOUS
<1>2. /\ IsFiniteSet(Y) /\ Cardinality(X) \in Nat /\ Cardinality(Y) \in Nat
      /\ Cardinality(Y) = Cardinality(X) \/ Cardinality(Y) = Cardinality(X) + 1
    BY FS_AddElement, FS_CardinalityType
<1>3. IsFiniteSet(A) /\ IsFiniteSet(B)
    BY <1>2, FS_Subset
<1>4. Cardinality(A) \in Nat /\ Cardinality(B) \in Nat
    BY <1>3, FS_CardinalityType
<1>5. Cardinality(A \cup B) = Cardinality(A) + Cardinality(B)
    <2>1. Cardinality(A \cap B) = 0
        BY <1>1, FS_EmptySet
    <2>2. Cardinality(A \cup B)
              = Cardinality(A) + Cardinality(B) - Cardinality(A \cap B)
        BY <1>3, FS_Union
    <2>3. QED
        BY <1>4, <2>1, <2>2
<1>6. A \cup B \subseteq Y
    OBVIOUS
<1>7. Cardinality(A \cup B) <= Cardinality(Y)
    BY <1>2, <1>6, FS_Subset
<1>8. 2 * Cardinality(A) > Cardinality(X) /\ 2 * Cardinality(B) > Cardinality(Y)
    BY DEF Most
<1>9. QED
    BY <1>2, <1>4, <1>5, <1>7, <1>8

\* Majorities of the same configuration, or of neighbours, meet.
LEMMA NeighboursMeet ==
    ASSUME MembershipInv, NEW i \in Confs, NEW j \in Confs, i <= j,
           \A k \in Confs : k <= i \/ k >= j,
           NEW A \in SUBSET log[i], NEW B \in SUBSET log[j],
           Most(A, log[i]), Most(B, log[j])
    PROVE  A \cap B # {}
<1>1. /\ i \in 1..Len(log) /\ j \in 1..Len(log) /\ log[i] # {} /\ log[j] # {}
      /\ log \in Seq(SUBSET Server) /\ i \in Nat /\ j \in Nat
    BY LeaderFacts, ConfsNat
<1>2. IsFiniteSet(log[i]) /\ IsFiniteSet(log[j])
    BY <1>1, FiniteConfs
<1>3. PICK X, Y : X = log[i] /\ Y = log[j]
    OBVIOUS
<1>4. /\ IsFiniteSet(X) /\ IsFiniteSet(Y) /\ A \in SUBSET X /\ B \in SUBSET Y
      /\ Most(A, X) /\ Most(B, Y)
    BY <1>2, <1>3
<1>5. PICK e : \/ Y = X \/ (e \notin X /\ Y = X \cup {e})
               \/ (e \notin Y /\ X = Y \cup {e})
    <2>1. CASE i = j
        BY <1>3, <2>1
    <2>2. CASE i # j
        <3>1. Neighbours(log, i, j)
            BY <1>1, <2>2 DEF Neighbours, Confs
        <3>2. OneApart(log[i], log[j])
            BY <1>1, <3>1 DEF MembershipInv, LogOK, LogFine
        <3>3. QED
            BY <1>3, <3>2 DEF OneApart
    <2>3. QED
        BY <2>1, <2>2
<1>6. CASE Y = X \/ (e \notin X /\ Y = X \cup {e})
    BY <1>4, <1>6, MajoritiesMeet
<1>7. CASE e \notin Y /\ X = Y \cup {e}
    <2>1. B \cap A # {}
        BY <1>4, <1>7, MajoritiesMeet
    <2>2. QED
        BY <2>1
<1>8. QED
    BY <1>5, <1>6, <1>7

\* Two configurations between which one was committed at most.
LEMMA ElectableFollows ==
    ASSUME MembershipInv, CommittedInv
    PROVE  ElectableHasCommitted
<1>1. SUFFICES ASSUME NEW s \in Server, CouldWin(s), ~NeedsMisled(s),
                      ~(Cardinality(Missed(s)) > 1), ~(len[s] >= quick[Leader])
               PROVE  FALSE
    BY DEF ElectableHasCommitted
<1>2. PICK c \in Confs :
          /\ c <= quick[Leader] /\ Most(Holders(c), log[c])
          /\ \A i, j \in Confs : (/\ c < i /\ i <= quick[Leader]
                                  /\ c < j /\ j <= quick[Leader]) => i = j
    BY DEF CommittedInv, QuorumInv
<1>3. /\ log \in Seq(SUBSET Server) /\ Len(log) \in Nat /\ quick[Leader] \in Nat
      /\ quick[Leader] <= Len(log)
    BY LeaderFacts
<1>4. \A i \in Confs : i \in Nat
    BY <1>3, ConfsNat
<1>5. /\ len[s] \in Nat /\ conf[s] \in Confs /\ conf[s] <= quick[Leader]
      /\ \A v \in Server : len[v] \in Nat
    BY <1>1 DEF CouldWin, MembershipInv, IndexesOK
<1>6. PICK d \in Confs : d = conf[s]
    BY <1>5
<1>7. PICK A : A = Granting(s) \ Misled(s)
    OBVIOUS
<1>8. A \in SUBSET log[d] /\ Most(A, log[d])
    <2>1. Servers(s) = log[d]
        BY <1>1, <1>6 DEF CouldWin, Servers
    <2>2. QED
        BY <1>1, <1>7, <2>1 DEF NeedsMisled, Elects, Granting, Most
<1>9. PICK B : B = Holders(c)
    OBVIOUS
<1>10. B \in SUBSET log[c] /\ Most(B, log[c])
    BY <1>2, <1>9 DEF Holders
<1>11. A \cap B = {}
    <2>1. SUFFICES ASSUME NEW v \in A, v \in B
                   PROVE  FALSE
        OBVIOUS
    <2>2. ~(len[v] > len[s]) /\ len[v] >= quick[Leader] /\ v \in log[d]
        BY <1>7, <1>8, <1>9, <2>1 DEF Holders, Misled
    <2>3. v \in Server
        BY <1>3, <2>2, FiniteConfs
    <2>4. QED
        BY <1>1, <1>3, <1>5, <2>2, <2>3
<1>12. CASE c <= d
    <2>1. \A k \in Confs : k <= c \/ k >= d
        BY <1>2, <1>4, <1>5, <1>6, <1>3
    <2>2. B \cap A # {}
        BY <1>8, <1>10, <1>12, <2>1, NeighboursMeet
    <2>3. QED
        BY <1>11, <2>2
<1>13. CASE d < c
    <2>1. Missed(s) \subseteq 1..Len(log)
        BY <1>3, ConfsNat DEF Missed
    <2>2. IsFiniteSet(Missed(s))
        <3>1. IsFiniteSet(1..Len(log))
            BY <1>3, FS_Interval
        <3>2. QED
            BY <2>1, <3>1, FS_Subset
    <2>3. c \in Missed(s)
        BY <1>2, <1>6, <1>13 DEF Missed
    <2>4. Missed(s) = {c}
        <3>1. Cardinality(Missed(s)) \in Nat /\ Cardinality(Missed(s)) # 0
            BY <2>2, <2>3, FS_CardinalityType, FS_EmptySet
        <3>2. Cardinality(Missed(s)) = 1
            BY <1>1, <3>1
        <3>3. PICK x : Missed(s) = {x}
            BY <2>2, <3>2, FS_Singleton
        <3>4. QED
            BY <2>3, <3>3
    <2>5. \A k \in Confs : k <= d \/ k >= c
        <3>1. SUFFICES ASSUME NEW k \in Confs, ~(k <= d), ~(k >= c)
                       PROVE  FALSE
            OBVIOUS
        <3>2. k \in Missed(s)
            BY <1>2, <1>3, <1>4, <1>6, <3>1 DEF Missed
        <3>3. QED
            BY <1>4, <2>4, <3>1, <3>2
    <2>6. A \cap B # {}
        <3>1. d <= c
            BY <1>4, <1>13
        <3>2. QED
            BY <1>8, <1>10, <2>5, <3>1, NeighboursMeet
    <2>7. QED
        BY <1>11, <2>6
<1>14. QED
    BY <1>4, <1>12, <1>13

\* A server that has missed one committed configuration at most, and does not
\* need a vote that the term of a last entry misleads, is elected only if its
\* log holds all that the leader has committed, because majorities of
\* neighbouring configurations meet.
THEOREM ElectableAlways ==
    ASSUME ChangesSerialized, ~LateRequests
    PROVE  Spec => []ElectableHasCommitted
<1>1. MembershipInv /\ CommittedInv => ElectableHasCommitted
    BY ElectableFollows
<1>2. Spec => [](MembershipInv /\ CommittedInv)
    BY CommittedInvariant
<1>3. QED
    BY <1>1, <1>2, PTL
=============================================================================
