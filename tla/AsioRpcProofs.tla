---------------------------- MODULE AsioRpcProofs ----------------------------
(***************************************************************************)
(* AsioRpc implements RpcChannel, for any number of requests, connections  *)
(* and failures, whether or not a callback is lost in the resolver.        *)
(***************************************************************************)
EXTENDS AsioRpc, TLAPS

Limit(r) == IF r \in Empty THEN 2 ELSE 1

\* The callback, if it is not lost, comes in the step that ends a request.
CallsMatch ==
    \A r \in Request :
        calls[r] = IF req[r].at = "done" /\ req[r].good THEN 1 ELSE 0

\* A request that left the client is on one wire, once, or was read by one
\* session.
Left(r) == req[r].at \in {"reading", "done"}
OnePlace ==
    /\ \A c \in Conns : \A i \in 1..Len(wire[c]) :
           Left(wire[c][i]) /\ handled[wire[c][i]] = 0
    /\ \A c, d \in Conns : \A i \in 1..Len(wire[c]), j \in 1..Len(wire[d]) :
           wire[c][i] = wire[d][j] => c = d /\ i = j
    /\ \A c, d \in Conns : \A i \in 1..Len(wire[c]) : wire[c][i] # session[d].cur
    /\ \A c, d \in Conns :
           session[c].cur = session[d].cur /\ session[c].cur # NoReq => c = d

\* How often it was handled follows from where its session is.
CountsMatch ==
    /\ \A c \in Conns :
           /\ session[c].cur # NoReq => Left(session[c].cur)
           /\ session[c].at \in {"none", "header"} => session[c].cur = NoReq
           /\ session[c].at = "data" =>
                  /\ session[c].cur \in Request \ Empty
                  /\ handled[session[c].cur] = 0
           /\ session[c].at = "nothing" =>
                  /\ session[c].cur \in Empty
                  /\ handled[session[c].cur] = 1
    /\ \A r \in Request : /\ handled[r] <= Limit(r)
                          /\ ~Left(r) => handled[r] = 0

\* A connection has no session before the client is connected.
SocketFresh ==
    \A c \in Conns :
        c > sock.conn \/ (c = sock.conn /\ sock.at = "connecting") =>
            session[c].at = "none"

IInv == TypeOK /\ CallsMatch /\ OnePlace /\ CountsMatch /\ SocketFresh

-----------------------------------------------------------------------------
\* Before anything is sent.
LEMMA InitInv == Init => IInv
<1> SUFFICES ASSUME Init PROVE IInv
    OBVIOUS
<1>1. TypeOK
    BY RpcAssumption DEF Init, TypeOK, Req, ReqStages, Sock, Session, Conns
<1>2. CallsMatch /\ OnePlace /\ CountsMatch /\ SocketFresh
    BY DEF Init, CallsMatch, OnePlace, CountsMatch, SocketFresh, Limit
<1>3. QED
    BY <1>1, <1>2 DEF IInv

\* A step that only moves the client's side of one request.
LEMMA ClientMove ==
    ASSUME IInv, NEW r \in Request, req' \in [Request -> Req],
           \A s \in Request \ {r} : req'[s] = req[s],
           req'[r].at # "done", ~Left(r),
           req[r].at # "done",
           sock' \in Sock, SocketFresh',
           UNCHANGED <<wire, handled, calls, breaks>>,
           session' \in [Conns -> Session],
           \A c \in Conns : session'[c].cur = session[c].cur,
           \A c \in Conns : \/ session'[c].at = session[c].at
                            \/ session'[c].at = "closed"
                            \/ session'[c].at = "header" /\ session[c].cur = NoReq
    PROVE  IInv'
<1>1. TypeOK'
    BY DEF IInv, TypeOK
<1>2. CallsMatch'
    BY DEF IInv, TypeOK, CallsMatch, Req
<1>3. \A s \in Request : Left(s) => Left(s)'
    BY DEF IInv, TypeOK, Left
<1>4. OnePlace'
    <2>1. wire' = wire /\ handled' = handled
        OBVIOUS
    <2>2. ASSUME NEW c \in Conns, NEW i \in 1..Len(wire[c])
          PROVE  Left(wire[c][i])' /\ handled[wire[c][i]] = 0
        <3>1. wire[c][i] \in Request
            BY DEF IInv, TypeOK
        <3>2. Left(wire[c][i]) /\ handled[wire[c][i]] = 0
            BY DEF IInv, OnePlace
        <3>3. QED
            BY <1>3, <2>1, <3>1, <3>2 DEF Left
    <2>3. \A c \in Conns : session'[c].cur = session[c].cur
        OBVIOUS
    <2>4. OnePlace
        BY DEF IInv
    <2>5. \A c \in Conns : \A i \in 1..Len(wire'[c]) :
              Left(wire[c][i])' /\ handled'[wire'[c][i]] = 0
        BY ONLY <2>1, <2>2 DEF Left
    <2>6. \A c, d \in Conns :
              \A i \in 1..Len(wire'[c]), j \in 1..Len(wire'[d]) :
                  wire'[c][i] = wire'[d][j] => c = d /\ i = j
        BY ONLY <2>1, <2>4 DEF OnePlace
    <2>7. \A c, d \in Conns : \A i \in 1..Len(wire'[c]) :
              wire'[c][i] # session'[d].cur
        BY ONLY <2>1, <2>3, <2>4 DEF OnePlace
    <2>8. \A c, d \in Conns :
              session'[c].cur = session'[d].cur /\ session'[c].cur # NoReq => c = d
        BY ONLY <2>3, <2>4 DEF OnePlace
    <2>9. QED
        BY ONLY <2>5, <2>6, <2>7, <2>8 DEF OnePlace, Left
<1>5. CountsMatch'
    <2>1. ASSUME NEW c \in Conns, session[c].cur # NoReq
          PROVE  Left(session[c].cur)'
        <3>1. session[c].cur \in Request /\ Left(session[c].cur)
            BY <2>1 DEF IInv, TypeOK, CountsMatch, Session
        <3>2. QED
            BY <1>3, <3>1 DEF Left
    <2>2. QED
        BY <1>3, <2>1 DEF IInv, CountsMatch, Left
<1>6. QED
    BY <1>1, <1>2, <1>4, <1>5 DEF IInv

\* A step that ends a request.
LEMMA FailedInv ==
    ASSUME IInv, NEW r \in Request, req[r].at # "done", Failed(r),
           sock' \in Sock, SocketFresh',
           UNCHANGED <<wire, session, handled, breaks>>
    PROVE  IInv'
<1>1. TypeOK'
    <2>1. req' \in [Request -> Req]
        BY DEF IInv, TypeOK, Failed, Req, ReqStages
    <2>2. calls' \in [Request -> 0..1]
        BY DEF IInv, TypeOK, CallsMatch, Failed
    <2>3. QED
        BY <2>1, <2>2 DEF IInv, TypeOK
<1>2. CallsMatch'
    BY DEF IInv, TypeOK, CallsMatch, Failed, Req
<1>3. \A s \in Request : Left(s) => Left(s)'
    BY DEF IInv, TypeOK, Left, Failed, Req
<1>4. OnePlace'
    BY <1>3 DEF IInv, TypeOK, OnePlace
<1>5. CountsMatch'
    BY <1>3 DEF IInv, TypeOK, CountsMatch, Session
<1>6. QED
    BY <1>1, <1>2, <1>4, <1>5 DEF IInv

-----------------------------------------------------------------------------
(* The client. *)

\* send: the request waits for the resolver or is written at once.
LEMMA SendInv ==
    ASSUME IInv, NEW r \in Request, Send(r)
    PROVE  IInv'
<1>1. /\ req' \in [Request -> Req]
      /\ \A s \in Request \ {r} : req'[s] = req[s]
      /\ req'[r].at \in {"resolving", "writing"}
    <2>1. CASE sock.at = "closed"
        <3>1. PICK ok \in BOOLEAN :
                  req' = [req EXCEPT ![r] = [at |-> "resolving", conn |-> 0,
                                             good |-> ok]]
            BY <2>1 DEF Send
        <3>2. [at |-> "resolving", conn |-> 0, good |-> ok] \in Req
            BY RpcAssumption DEF Req, ReqStages
        <3>3. QED
            BY <3>1, <3>2 DEF IInv, TypeOK
    <2>2. CASE sock.at # "closed"
        <3>1. req' = [req EXCEPT ![r] = [at |-> "writing", conn |-> sock.conn,
                                         good |-> TRUE]]
            BY <2>2 DEF Send
        <3>2. [at |-> "writing", conn |-> sock.conn, good |-> TRUE] \in Req
            BY DEF IInv, TypeOK, Sock, Req, ReqStages
        <3>3. QED
            BY <3>1, <3>2 DEF IInv, TypeOK
    <2>3. QED
        BY <2>1, <2>2
<1>2. SocketFresh'
    BY DEF Send, IInv, SocketFresh
<1>3. QED
    BY <1>1, <1>2, ClientMove DEF Send, IInv, TypeOK, Left

\* A new connection has no session yet.
LEMMA ResolvedInv ==
    ASSUME IInv, NEW r \in Request, Resolved(r)
    PROVE  IInv'
<1> sock.conn + 1 \in 0..MaxConns
    BY RpcAssumption DEF Resolved, IInv, TypeOK, Sock
<1>1. req' \in [Request -> Req] /\ sock' \in Sock
    <2>1. sock' \in Sock
        BY DEF Resolved, IInv, TypeOK, Sock
    <2>2. req' \in [Request -> Req]
        <3> DEFINE q == [req[r] EXCEPT !.at = "connecting", !.conn = sock.conn + 1]
        <3>1. req \in [Request -> Req] /\ req[r] \in Req
            BY DEF IInv, TypeOK
        <3>2. q \in Req
            BY <3>1 DEF Req, ReqStages
        <3>3. req' = [req EXCEPT ![r] = q]
            BY <3>1 DEF Resolved
        <3> HIDE DEF q
        <3>4. QED
            BY <3>1, <3>2, <3>3
    <2>3. QED
        BY <2>1, <2>2
<1>2. /\ req'[r].at = "connecting"
      /\ \A s \in Request \ {r} : req'[s] = req[s]
    BY DEF Resolved, IInv, TypeOK, CallsMatch, Req
<1>3. SocketFresh'
    BY DEF Resolved, IInv, TypeOK, SocketFresh, Sock, Conns
<1>4. QED
    BY <1>1, <1>2, <1>3, ClientMove DEF Resolved, IInv, TypeOK, Left

\* The session of a new connection has read nothing.
LEMMA ConnectedInv ==
    ASSUME IInv, NEW r \in Request, Connected(r)
    PROVE  IInv'
<1>1. req' \in [Request -> Req] /\ sock' \in Sock
    BY DEF Connected, IInv, TypeOK, Req, ReqStages, Sock
<1>2. /\ req'[r].at = "writing"
      /\ \A s \in Request \ {r} : req'[s] = req[s]
    BY DEF Connected, IInv, TypeOK, CallsMatch, Req
<1>3. \A c \in Conns : /\ session'[c].cur = session[c].cur
                        /\ session'[c].at = IF c = sock.conn THEN "header"
                                            ELSE session[c].at
    BY DEF Connected, IInv, TypeOK, Session
<1>4. session' \in [Conns -> Session]
    BY DEF Connected, IInv, TypeOK, Session
<1>5. SocketFresh'
    BY <1>3 DEF Connected, IInv, TypeOK, SocketFresh, Sock, Conns
<1>6. sock.conn \in Conns => session[sock.conn].cur = NoReq
    BY DEF Connected, IInv, SocketFresh, CountsMatch
<1>7. QED
    BY <1>1, <1>2, <1>3, <1>4, <1>5, <1>6, ClientMove
    DEF Connected, IInv, TypeOK, Left

\* Every way in which the client gives a request up.
LEMMA FailuresInv ==
    ASSUME IInv, NEW r \in Request,
           ResolveFails(r) \/ ConnectFails(r) \/ WriteFails(r) \/ ReadFails(r)
    PROVE  IInv'
<1>1. sock' \in Sock /\ SocketFresh'
    BY DEF IInv, TypeOK, SocketFresh, Sock, ResolveFails, ConnectFails,
           WriteFails, ReadFails
<1>2. QED
    BY <1>1, FailedInv DEF ResolveFails, ConnectFails, WriteFails, ReadFails

\* A request that is written was on no wire and in no session before.
LEMMA WrittenInv ==
    ASSUME IInv, NEW r \in Request, Written(r)
    PROVE  IInv'
<1> DEFINE k == sock.conn
<1>1. /\ req' \in [Request -> Req]
      /\ req'[r].at = "reading" /\ req'[r].good = req[r].good
      /\ \A s \in Request \ {r} : req'[s] = req[s]
    BY DEF Written, IInv, TypeOK, Req, ReqStages
<1>2. /\ wire' \in [Conns -> Seq(Request)]
      /\ \A c \in Conns \ {k} : wire'[c] = wire[c]
      /\ k \in Conns => wire'[k] = Append(wire[k], r)
    <2>1. wire \in [Conns -> Seq(Request)]
        BY DEF IInv, TypeOK
    <2>2. wire' = [wire EXCEPT ![k] = Append(wire[k], r)]
        BY DEF Written
    <2>3. k \in Conns => Append(wire[k], r) \in Seq(Request)
        BY <2>1
    <2> HIDE DEF k
    <2>4. QED
        BY <2>1, <2>2, <2>3
<1>3. TypeOK'
    BY <1>1, <1>2 DEF Written, IInv, TypeOK
<1>4. CallsMatch'
    BY <1>1 DEF Written, IInv, CallsMatch
<1>5. \A s \in Request : Left(s) => Left(s)'
    BY <1>1 DEF Left
<1>6. Left(r)' /\ ~Left(r) /\ handled[r] = 0
    <2>1. Left(r)' /\ ~Left(r)
        BY <1>1 DEF Written, Left
    <2>2. QED
        BY <2>1 DEF IInv, CountsMatch, Left
<1>7. /\ \A c \in Conns : session[c].cur # r
      /\ \A c \in Conns : \A i \in 1..Len(wire[c]) : wire[c][i] # r
    BY <1>6, RpcAssumption DEF IInv, CountsMatch, OnePlace
<1>8. ASSUME NEW c \in Conns, NEW i \in 1..Len(wire'[c])
      PROVE  \/ i \in 1..Len(wire[c]) /\ wire'[c][i] = wire[c][i]
             \/ c = k /\ i = Len(wire[k]) + 1 /\ wire'[c][i] = r
    <2>1. wire[c] \in Seq(Request)
        BY DEF IInv, TypeOK
    <2>2. CASE c # k
        BY <1>2, <2>2
    <2>3. CASE c = k
        BY <1>2, <2>1, <2>3
    <2>4. QED
        BY <2>2, <2>3
<1>9. OnePlace'
    <2>1. session' = session /\ handled' = handled
        BY DEF Written
    <2>2. ASSUME NEW c \in Conns, NEW i \in 1..Len(wire'[c])
          PROVE  Left(wire[c][i])' /\ handled[wire'[c][i]] = 0
        <3>1. CASE i \in 1..Len(wire[c]) /\ wire'[c][i] = wire[c][i]
            <4>1. wire[c][i] \in Request
                BY <3>1 DEF IInv, TypeOK
            <4>2. Left(wire[c][i]) /\ handled[wire[c][i]] = 0
                BY <3>1 DEF IInv, OnePlace
            <4>3. QED
                BY <1>5, <3>1, <4>1, <4>2 DEF Left
        <3>2. QED
            BY <1>6, <1>8, <3>1 DEF Left
    <2>3. ASSUME NEW c \in Conns, NEW d \in Conns,
                 NEW i \in 1..Len(wire'[c]), NEW j \in 1..Len(wire'[d]),
                 wire'[c][i] = wire'[d][j]
          PROVE  c = d /\ i = j
        BY <1>7, <1>8, <2>3 DEF IInv, OnePlace
    <2>4. ASSUME NEW c \in Conns, NEW d \in Conns, NEW i \in 1..Len(wire'[c])
          PROVE  wire'[c][i] # session[d].cur
        BY <1>7, <1>8 DEF IInv, OnePlace
    <2>5. \A c, d \in Conns :
              session[c].cur = session[d].cur /\ session[c].cur # NoReq => c = d
        BY DEF IInv, OnePlace
    <2>6. QED
        BY ONLY <2>1, <2>2, <2>3, <2>4, <2>5 DEF OnePlace, Left
<1>10. CountsMatch'
    <2>1. session' = session /\ handled' = handled
        BY DEF Written
    <2>2. \A c \in Conns : session[c].cur \in Request \cup {NoReq}
        BY DEF IInv, TypeOK, Session
    <2>3. QED
        BY <1>5, <2>1, <2>2 DEF IInv, CountsMatch, Left
<1>11. SocketFresh'
    BY DEF Written, IInv, SocketFresh
<1>12. QED
    BY <1>3, <1>4, <1>9, <1>10, <1>11 DEF IInv

-----------------------------------------------------------------------------
(* The sessions. *)

\* A session takes the first request from its wire.
LEMMA ReadHeaderInv ==
    ASSUME IInv, NEW c \in Conns, ReadHeader(c)
    PROVE  IInv'
<1> DEFINE r == Head(wire[c])
<1>1. /\ wire[c] \in Seq(Request) /\ wire[c] # <<>>
      /\ r \in Request /\ r = wire[c][1] /\ 1 \in 1..Len(wire[c])
      /\ session[c].at = "header"
    BY DEF ReadHeader, IInv, TypeOK
<1>2. /\ wire' \in [Conns -> Seq(Request)]
      /\ \A d \in Conns \ {c} : wire'[d] = wire[d]
      /\ wire'[c] = Tail(wire[c])
    BY <1>1 DEF ReadHeader, IInv, TypeOK
<1>3. /\ session' \in [Conns -> Session]
      /\ \A d \in Conns \ {c} : session'[d] = session[d]
      /\ session'[c].cur = r
      /\ session'[c].at = IF r \in Empty THEN "nothing" ELSE "data"
    BY <1>1 DEF ReadHeader, IInv, TypeOK, Session
<1>4. Left(r) /\ handled[r] = 0
    BY <1>1 DEF IInv, OnePlace
<1>5. /\ handled' \in [Request -> Nat]
      /\ \A s \in Request \ {r} : handled'[s] = handled[s]
      /\ handled'[r] = IF r \in Empty THEN 1 ELSE 0
    <2>1. handled \in [Request -> Nat]
        BY DEF IInv, TypeOK
    <2>2. CASE r \in Empty
        <3>1. handled' = [handled EXCEPT ![r] = handled[r] + 1]
            BY <2>2 DEF ReadHeader, ProcessReq
        <3>2. QED
            BY <1>1, <1>4, <2>1, <2>2, <3>1
    <2>3. CASE r \notin Empty
        <3>1. handled' = handled
            BY <2>3 DEF ReadHeader
        <3>2. QED
            BY <1>4, <2>1, <2>3, <3>1
    <2>4. QED
        BY <2>2, <2>3
<1>6. UNCHANGED <<req, sock, calls, breaks>>
    BY DEF ReadHeader
<1>7. TypeOK' /\ CallsMatch'
    BY <1>2, <1>3, <1>5, <1>6 DEF IInv, TypeOK, CallsMatch
<1>8. ASSUME NEW d \in Conns, NEW i \in 1..Len(wire'[d])
      PROVE  \E j \in 1..Len(wire[d]) :
                 /\ j = IF d = c THEN i + 1 ELSE i
                 /\ wire'[d][i] = wire[d][j] /\ wire[d][j] # r
                 /\ wire[d][j] \in Request
    <2>1. wire[d] \in Seq(Request)
        BY DEF IInv, TypeOK
    <2>2. \A x \in Conns : \A j \in 1..Len(wire[x]) : wire[x][j] = r => x = c /\ j = 1
        BY <1>1 DEF IInv, OnePlace
    <2>3. CASE d # c
        BY <1>2, <2>1, <2>2, <2>3
    <2>4. CASE d = c
        <3>1. i + 1 \in 1..Len(wire[c]) /\ wire'[c][i] = wire[c][i + 1] /\ i + 1 # 1
            BY <1>1, <1>2, <2>4
        <3>2. QED
            BY <2>1, <2>2, <2>4, <3>1
    <2>5. QED
        BY <2>3, <2>4
<1>9. \A d \in Conns : session[d].cur # r
    BY <1>1 DEF IInv, OnePlace
<1>10. OnePlace'
    <2>1. ASSUME NEW d \in Conns, NEW i \in 1..Len(wire'[d])
          PROVE  Left(wire[d][i])' /\ handled'[wire'[d][i]] = 0
        <3>1. PICK j \in 1..Len(wire[d]) :
                  wire'[d][i] = wire[d][j] /\ wire[d][j] # r /\ wire[d][j] \in Request
            BY <1>8
        <3>2. Left(wire[d][j]) /\ handled[wire[d][j]] = 0
            BY DEF IInv, OnePlace
        <3>3. QED
            BY <1>5, <1>6, <3>1, <3>2 DEF Left
    <2>2. ASSUME NEW d \in Conns, NEW e \in Conns,
                 NEW i \in 1..Len(wire'[d]), NEW j \in 1..Len(wire'[e]),
                 wire'[d][i] = wire'[e][j]
          PROVE  d = e /\ i = j
        <3>1. PICK m \in 1..Len(wire[d]) :
                  wire'[d][i] = wire[d][m] /\ m = IF d = c THEN i + 1 ELSE i
            BY <1>8
        <3>2. PICK n \in 1..Len(wire[e]) :
                  wire'[e][j] = wire[e][n] /\ n = IF e = c THEN j + 1 ELSE j
            BY <1>8
        <3>3. d = e /\ m = n
            <4>1. wire[d][m] = wire[e][n]
                BY <2>2, <3>1, <3>2
            <4>2. QED
                BY <4>1 DEF IInv, OnePlace
        <3>4. QED
            BY <3>1, <3>2, <3>3
    <2>3. ASSUME NEW d \in Conns, NEW e \in Conns, NEW i \in 1..Len(wire'[d])
          PROVE  wire'[d][i] # session'[e].cur
        <3>1. PICK j \in 1..Len(wire[d]) : wire'[d][i] = wire[d][j] /\ wire[d][j] # r
            BY <1>8
        <3>2. wire[d][j] # session[e].cur
            BY DEF IInv, OnePlace
        <3>3. QED
            BY <1>3, <3>1, <3>2
    <2>4. \A d, e \in Conns :
              session'[d].cur = session'[e].cur /\ session'[d].cur # NoReq => d = e
        BY <1>3, <1>9 DEF IInv, OnePlace
    <2>5. QED
        BY ONLY <2>1, <2>2, <2>3, <2>4 DEF OnePlace, Left
<1>11. CountsMatch'
    <2>1. ASSUME NEW d \in Conns
          PROVE  (/\ session[d].cur # NoReq => Left(session[d].cur)
                  /\ session[d].at \in {"none", "header"} => session[d].cur = NoReq
                  /\ session[d].at = "data" =>
                         /\ session[d].cur \in Request \ Empty
                         /\ handled[session[d].cur] = 0
                  /\ session[d].at = "nothing" =>
                         /\ session[d].cur \in Empty
                         /\ handled[session[d].cur] = 1)'
        <3>1. CASE d = c
            BY <1>1, <1>3, <1>4, <1>5, <1>6, <3>1 DEF Left
        <3>2. CASE d # c
            <4>1. session'[d] = session[d] /\ session[d].cur # r
                BY <1>3, <1>9, <3>2
            <4>2. session[d].cur \in Request => handled'[session[d].cur] = handled[session[d].cur]
                BY <1>5, <4>1
            <4>3. QED
                BY <1>6, <4>1, <4>2, RpcAssumption DEF IInv, CountsMatch, Left
        <3>3. QED
            BY <3>1, <3>2
    <2>2. ASSUME NEW s \in Request
          PROVE  handled'[s] <= Limit(s) /\ (~Left(s)' => handled'[s] = 0)
        <3>1. Left(s)' = Left(s)
            BY <1>6 DEF Left
        <3>2. handled[s] <= Limit(s) /\ (~Left(s) => handled[s] = 0)
            BY DEF IInv, CountsMatch, Left
        <3>3. CASE s = r
            BY <1>4, <1>5, <3>1, <3>3 DEF Limit
        <3>4. CASE s # r
            BY <1>5, <3>1, <3>2, <3>4
        <3>5. QED
            BY <3>3, <3>4
    <2>3. QED
        BY <2>1, <2>2 DEF CountsMatch, Limit
<1>12. SocketFresh'
    BY <1>1, <1>3, <1>6 DEF IInv, SocketFresh
<1>13. QED
    BY <1>7, <1>10, <1>11, <1>12 DEF IInv

\* The last call of process_req for the request of a session.
LEMMA ReadDataInv ==
    ASSUME IInv, NEW c \in Conns, ReadData(c)
    PROVE  IInv'
<1> DEFINE r == session[c].cur
<1>1. /\ r \in Request /\ Left(r)
      /\ handled[r] + 1 <= Limit(r) /\ handled[r] \in Nat
    <2>1. session[c].at \in {"data", "nothing"}
        BY DEF ReadData
    <2>2. r \in Request /\ handled[r] = IF r \in Empty THEN 1 ELSE 0
        BY <2>1, RpcAssumption DEF IInv, CountsMatch
    <2>3. Left(r)
        BY <2>2, RpcAssumption DEF IInv, CountsMatch
    <2>4. QED
        BY <2>2, <2>3 DEF Limit
<1>2. /\ session' \in [Conns -> Session]
      /\ \A d \in Conns : session'[d].cur = session[d].cur
      /\ \A d \in Conns \ {c} : session'[d] = session[d]
      /\ session'[c].at = "closed"
    BY DEF ReadData, IInv, TypeOK, Session
<1>3. /\ handled' \in [Request -> Nat]
      /\ \A s \in Request \ {r} : handled'[s] = handled[s]
      /\ handled'[r] = handled[r] + 1
    BY <1>1 DEF ReadData, ProcessReq, IInv, TypeOK
<1>4. UNCHANGED <<req, sock, wire, calls, breaks>>
    BY DEF ReadData
<1>5. TypeOK' /\ CallsMatch'
    BY <1>2, <1>3, <1>4 DEF IInv, TypeOK, CallsMatch
<1>6. OnePlace'
    <2>1. ASSUME NEW d \in Conns, NEW i \in 1..Len(wire[d])
          PROVE  /\ Left(wire[d][i]) /\ handled'[wire[d][i]] = 0
                 /\ \A e \in Conns : wire[d][i] # session[e].cur
        <3>1. wire[d][i] \in Request
            BY DEF IInv, TypeOK
        <3>2. QED
            BY <1>3, <3>1 DEF IInv, OnePlace
    <2>2. OnePlace
        BY DEF IInv
    <2>3. wire' = wire /\ req' = req
        BY <1>4
    <2>4. \A d \in Conns : session'[d].cur = session[d].cur
        BY <1>2
    <2>5. QED
        BY ONLY <2>1, <2>2, <2>3, <2>4 DEF OnePlace, Left
<1>7. CountsMatch'
    <2>1. ASSUME NEW d \in Conns
          PROVE  (/\ session[d].cur # NoReq => Left(session[d].cur)
                  /\ session[d].at \in {"none", "header"} => session[d].cur = NoReq
                  /\ session[d].at = "data" =>
                         /\ session[d].cur \in Request \ Empty
                         /\ handled[session[d].cur] = 0
                  /\ session[d].at = "nothing" =>
                         /\ session[d].cur \in Empty
                         /\ handled[session[d].cur] = 1)'
        <3>1. CASE d = c
            BY <1>1, <1>2, <1>4, <3>1 DEF Left
        <3>2. CASE d # c
            <4>1. session'[d] = session[d]
                BY <1>2, <3>2
            <4>2. session[d].cur # NoReq => session[d].cur # r
                BY <3>2 DEF IInv, OnePlace
            <4>3. session[d].cur \in Request => handled'[session[d].cur] = handled[session[d].cur]
                BY <1>3, <4>2, RpcAssumption
            <4>4. QED
                BY <1>4, <4>1, <4>3, RpcAssumption DEF IInv, CountsMatch, Left
        <3>3. QED
            BY <3>1, <3>2
    <2>2. ASSUME NEW s \in Request
          PROVE  handled'[s] <= Limit(s) /\ (~Left(s)' => handled'[s] = 0)
        <3>1. Left(s)' = Left(s)
            BY <1>4 DEF Left
        <3>2. handled[s] <= Limit(s) /\ (~Left(s) => handled[s] = 0)
            BY DEF IInv, CountsMatch, Left
        <3>3. CASE s = r
            BY <1>1, <1>3, <3>1, <3>3
        <3>4. CASE s # r
            BY <1>3, <3>1, <3>2, <3>4
        <3>5. QED
            BY <3>3, <3>4
    <2>3. QED
        BY <2>1, <2>2 DEF CountsMatch, Limit
<1>8. SocketFresh'
    BY <1>2, <1>4 DEF ReadData, IInv, SocketFresh
<1>9. QED
    BY <1>5, <1>6, <1>7, <1>8 DEF IInv

\* A session that stops keeps what it has counted.
LEMMA SessionFailsInv ==
    ASSUME IInv, NEW c \in Conns, SessionFails(c)
    PROVE  IInv'
<1>1. /\ session' \in [Conns -> Session]
      /\ \A d \in Conns : session'[d].cur = session[d].cur
      /\ \A d \in Conns : session'[d].at = IF d = c THEN "closed"
                                            ELSE session[d].at
    BY DEF SessionFails, IInv, TypeOK, Session
<1>2. UNCHANGED <<req, sock, wire, handled, calls, breaks>>
    BY DEF SessionFails
<1>3. TypeOK' /\ CallsMatch'
    BY <1>1, <1>2 DEF IInv, TypeOK, CallsMatch
<1>4. OnePlace' /\ CountsMatch'
    BY <1>1, <1>2 DEF IInv, OnePlace, CountsMatch, Left
<1>5. SocketFresh'
    BY <1>1, <1>2 DEF SessionFails, IInv, SocketFresh
<1>6. QED
    BY <1>3, <1>4, <1>5 DEF IInv

\* A connection that breaks changes no request.
LEMMA BreakInv ==
    ASSUME IInv, Break
    PROVE  IInv'
<1>1. TypeOK'
    <2>1. breaks' \in 0..MaxBreaks
        BY RpcAssumption DEF Break, IInv, TypeOK
    <2>2. sock' \in Sock
        BY DEF Break, IInv, TypeOK, Sock
    <2>3. QED
        BY <2>1, <2>2 DEF Break, IInv, TypeOK
<1>2. CallsMatch' /\ OnePlace' /\ CountsMatch'
    BY DEF Break, IInv, CallsMatch, OnePlace, CountsMatch, Left
<1>3. SocketFresh'
    BY DEF Break, IInv, TypeOK, SocketFresh, Sock
<1>4. QED
    BY <1>1, <1>2, <1>3 DEF IInv

-----------------------------------------------------------------------------
\* Every step preserves the invariant.
LEMMA NextInv ==
    ASSUME IInv, [Next]_vars
    PROVE  IInv'
<1>1. ASSUME NEW r \in Request, Send(r) \/ ClientStep(r)
      PROVE  IInv'
    BY <1>1, SendInv, ResolvedInv, ConnectedInv, FailuresInv, WrittenInv
    DEF ClientStep
<1>2. ASSUME NEW c \in Conns, SessionStep(c) \/ SessionFails(c)
      PROVE  IInv'
    BY <1>2, ReadHeaderInv, ReadDataInv, SessionFailsInv DEF SessionStep
<1>3. CASE UNCHANGED vars
    <2>1. TypeOK' /\ CallsMatch' /\ SocketFresh'
        BY <1>3 DEF vars, IInv, TypeOK, CallsMatch, SocketFresh
    <2>2. OnePlace'
        BY <1>3 DEF vars, IInv, OnePlace, Left
    <2>3. CountsMatch'
        BY <1>3 DEF vars, IInv, CountsMatch, Left
    <2>4. QED
        BY <2>1, <2>2, <2>3 DEF IInv
<1>4. QED
    BY <1>1, <1>2, <1>3, BreakInv DEF Next

\* The callback of a request never runs twice, and every request is where the
\* client and the sessions can deal with it.
THEOREM RpcTypeCorrect == Spec => []TypeOK
<1>1. IInv /\ [Next]_vars => IInv'
    BY NextInv
<1>2. IInv => TypeOK
    BY DEF IInv
<1>3. QED
    BY InitInv, <1>1, <1>2, PTL DEF Spec

-----------------------------------------------------------------------------
(* The refinement. *)

\* The bound of RpcChannel on how often a request is handled.
LEMMA LimitIsDeliveries ==
    \A r \in Request :
        [s \in Request |-> IF s \in Empty THEN 2 ELSE 1][r] = Limit(r)
    BY DEF Limit

\* The stage of a request in RpcChannel.
Stage == [r \in Request |-> IF req[r].at = "new" THEN "new"
                            ELSE IF calls[r] = 0 THEN "sent" ELSE "done"]

\* The initial states map to initial states.
LEMMA InitRefines == Init => Channel!Init
    BY DEF Init, Channel!Init

\* A step of the client that is none of RpcChannel's.
LEMMA ClientStutters ==
    ASSUME IInv, NEW r \in Request,
           Resolved(r) \/ Connected(r) \/ Written(r)
    PROVE  Stage' = Stage /\ handled' = handled
<1>1. \A s \in Request : req'[s].at = "new" <=> req[s].at = "new"
    BY DEF Resolved, Connected, Written, IInv, TypeOK, Req
<1>2. calls' = calls /\ handled' = handled
    BY DEF Resolved, Connected, Written
<1>3. QED
    BY <1>1, <1>2 DEF Stage

\* A failure is the callback, or nothing to RpcChannel if that was lost.
LEMMA FailedRefines ==
    ASSUME IInv, NEW r \in Request, handled' = handled, Failed(r),
           req[r].at \notin {"new", "done"}
    PROVE  /\ Stage[r] = "sent" /\ handled' = handled
           /\ Stage' = Stage \/ Stage' = [Stage EXCEPT ![r] = "done"]
<1>1. calls[r] = 0
    BY DEF IInv, CallsMatch
<1>2. /\ \A s \in Request \ {r} : req'[s] = req[s] /\ calls'[s] = calls[s]
      /\ req'[r].at = "done" /\ calls'[r] \in {0, 1}
    BY <1>1 DEF Failed, IInv, TypeOK, Req
<1>3. /\ Stage'[r] = IF calls'[r] = 0 THEN "sent" ELSE "done"
      /\ \A s \in Request \ {r} : Stage'[s] = Stage[s]
    BY <1>2 DEF Stage
<1>4. QED
    BY <1>1, <1>3 DEF Stage

\* send is RpcChannel's Send.
LEMMA SendRefines ==
    ASSUME IInv, NEW r \in Request, Send(r)
    PROVE  /\ Stage[r] = "new" /\ handled' = handled
           /\ Stage' = [Stage EXCEPT ![r] = "sent"]
<1>1. calls[r] = 0 /\ req[r].at = "new"
    BY DEF Send, IInv, CallsMatch
<1>2. /\ \A s \in Request \ {r} : req'[s] = req[s]
      /\ req'[r].at # "new"
    <2>1. req \in [Request -> Req]
        BY DEF IInv, TypeOK
    <2>2. CASE sock.at = "closed"
        <3>1. PICK ok \in BOOLEAN :
                  req' = [req EXCEPT ![r] = [at |-> "resolving", conn |-> 0,
                                             good |-> ok]]
            BY <2>2 DEF Send
        <3>2. QED
            BY <2>1, <3>1
    <2>3. CASE sock.at # "closed"
        <3>1. req' = [req EXCEPT ![r] = [at |-> "writing", conn |-> sock.conn,
                                         good |-> TRUE]]
            BY <2>3 DEF Send
        <3>2. QED
            BY <2>1, <3>1
    <2>4. QED
        BY <2>2, <2>3
<1>3. calls' = calls /\ handled' = handled
    BY DEF Send
<1>4. QED
    BY <1>1, <1>2, <1>3 DEF Stage

\* A session that reads a request, or the data of one, hands it on.
LEMMA SessionRefines ==
    ASSUME IInv, NEW c \in Conns, SessionStep(c)
    PROVE  /\ Stage' = Stage
           /\ \/ handled' = handled
              \/ \E r \in Request :
                     /\ Stage[r] # "new" /\ handled[r] < Limit(r)
                     /\ handled' = [handled EXCEPT ![r] = @ + 1]
<1>1. Stage' = Stage
    BY DEF SessionStep, ReadHeader, ReadData, Stage
<1>2. CASE ReadHeader(c)
    <2> DEFINE r == Head(wire[c])
    <2>1. /\ r \in Request /\ r = wire[c][1] /\ 1 \in 1..Len(wire[c])
        BY <1>2 DEF ReadHeader, IInv, TypeOK
    <2>2. Left(r) /\ handled[r] = 0
        BY <2>1 DEF IInv, OnePlace
    <2>3. Stage[r] # "new" /\ handled[r] < Limit(r)
        BY <2>1, <2>2 DEF Stage, Left, Limit
    <2>4. handled' = handled \/ handled' = [handled EXCEPT ![r] = @ + 1]
        BY <1>2 DEF ReadHeader, ProcessReq
    <2>5. QED
        BY <1>1, <2>1, <2>3, <2>4
<1>3. CASE ReadData(c)
    <2> DEFINE r == session[c].cur
    <2>1. session[c].at \in {"data", "nothing"}
        BY <1>3 DEF ReadData
    <2>2. r \in Request /\ handled[r] = IF r \in Empty THEN 1 ELSE 0
        BY <2>1, RpcAssumption DEF IInv, CountsMatch
    <2>3. Left(r)
        BY <2>2, RpcAssumption DEF IInv, CountsMatch
    <2>4. Stage[r] # "new" /\ handled[r] < Limit(r)
        BY <2>2, <2>3 DEF Stage, Left, Limit
    <2>5. QED
        BY <1>1, <1>3, <2>2, <2>4 DEF ReadData, ProcessReq
<1>4. QED
    BY <1>2, <1>3 DEF SessionStep

\* Every step is one of RpcChannel's or leaves its variables alone.
LEMMA StepRefines ==
    ASSUME IInv, [Next]_vars
    PROVE  [Channel!Next]_(Channel!cvars)
<1> USE DEF Stage
<1>1. ASSUME NEW r \in Request, Send(r)
      PROVE  Channel!Send(r)
    BY <1>1, SendRefines DEF Channel!Send
<1>2. ASSUME NEW r \in Request,
             ResolveFails(r) \/ ConnectFails(r) \/ WriteFails(r) \/ ReadFails(r)
      PROVE  UNCHANGED Channel!cvars \/ Channel!WhenDone(r)
    BY <1>2, FailedRefines
    DEF Channel!cvars, Channel!WhenDone, ResolveFails, ConnectFails, WriteFails, ReadFails
<1>3. ASSUME NEW r \in Request, Resolved(r) \/ Connected(r) \/ Written(r)
      PROVE  UNCHANGED Channel!cvars
    BY <1>3, ClientStutters DEF Channel!cvars
<1>4. ASSUME NEW c \in Conns, SessionStep(c)
      PROVE  \/ UNCHANGED Channel!cvars
             \/ \E r \in Request : Channel!ProcessReq(r)
    BY <1>4, SessionRefines, LimitIsDeliveries
    DEF Channel!cvars, Channel!ProcessReq
<1>5. CASE Break \/ UNCHANGED vars \/ \E c \in Conns : SessionFails(c)
    BY <1>5 DEF Break, vars, SessionFails, Channel!cvars
<1>6. QED
    BY <1>1, <1>2, <1>3, <1>4, <1>5
    DEF Next, ClientStep, Channel!Next

\* asio_rpc_client and rpc_session give raft_server the channel it assumes,
\* whatever fails: at most one callback for each request, each handled at most
\* once, or twice if it has no entries.  A callback lost because the resolver's
\* handler refers to what is gone is, to RpcChannel, one that has not come yet.
THEOREM RpcImplementsChannel == Spec => ImplementsChannel
<1> SUFFICES Spec => Channel!Spec
    BY DEF ImplementsChannel
<1>1. IInv /\ [Next]_vars => IInv'
    BY NextInv
<1>2. IInv /\ [Next]_vars => [Channel!Next]_(Channel!cvars)
    BY StepRefines
<1>3. QED
    BY InitInv, InitRefines, <1>1, <1>2, PTL DEF Spec, Channel!Spec
=============================================================================
