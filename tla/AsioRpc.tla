------------------------------ MODULE AsioRpc ------------------------------
(***************************************************************************)
(* The RPC layer of asio_service.cxx between one asio_rpc_client and the   *)
(* listener of the server it calls: resolve, connect, write the request,   *)
(* read the response; and on the other side a session per connection that  *)
(* reads a request and hands it to process_req.                            *)
(*                                                                         *)
(* The client has one socket_ and no queue: requests sent while another is *)
(* under way share the socket, and whoever fails closes it for all.  A     *)
(* session calls stop() when process_req returned a response (line 191):   *)
(* no response is ever written, so no read of one ever succeeds.           *)
(***************************************************************************)
EXTENDS Integers, Sequences

CONSTANTS
    Request,       \* the requests sent through the client
    NoReq,         \* a session that has read no request
    Empty,         \* those without log entries (votes, heartbeats)
    MaxConns,      \* bound: attempts to connect
    MaxBreaks      \* bound: connections that break

ASSUME RpcAssumption ==
    /\ Empty \subseteq Request /\ NoReq \notin Request
    /\ MaxConns \in Nat /\ MaxBreaks \in Nat

VARIABLES
    req,      \* req[r]: where r is, on which connection, and its callback
    sock,     \* socket_ of the client: which connection, and its state
    wire,     \* wire[c]: requests written to connection c and not yet read
    session,  \* session[c]: the rpc_session of connection c
    handled,  \* handled[r]: how often process_req was called with r
    calls,    \* calls[r]: how often when_done was called for r
    breaks

vars == <<req, sock, wire, session, handled, calls, breaks>>

Conns == 1..MaxConns

ReqStages == {"new", "resolving", "connecting", "writing", "reading", "done"}
\* good: the callback that the resolver's handler copied is the one passed in
Req == [at : ReqStages, conn : 0..MaxConns, good : BOOLEAN]
\* open: connected; broken: is_open() holds but nothing can be sent
Sock == [conn : 0..MaxConns, at : {"closed", "connecting", "open", "broken"}]
\* header, data: an async_read is pending; nothing: a read of no bytes is
\* pending on the socket that stop() already closed
Session == [at : {"none", "header", "data", "nothing", "closed"},
            cur : Request \cup {NoReq}]

\* The operation r waits for is still one of the socket as it is now.
OnSocket(r) == req[r].conn = sock.conn /\ sock.at # "closed"
Hung(c) == session[c].at \in {"nothing", "closed"}

-----------------------------------------------------------------------------
(* asio_rpc_client. *)

\* when_done(rsp, except): the request is over, with an error.
FailedTwice(r) ==
    /\ req' = [req EXCEPT ![r].at = "done"]
    /\ calls' = [calls EXCEPT ![r] = IF req[r].good THEN @ + 2 ELSE @]
NeverCalled(r) ==
    /\ req' = [req EXCEPT ![r].at = "done"]
    /\ UNCHANGED calls
Failed(r) ==
    /\ req' = [req EXCEPT ![r].at = "done"]
    /\ calls' = [calls EXCEPT ![r] = IF req[r].good THEN @ + 1 ELSE @]

\* send: on a socket that is open the request is written at once, even if
\* the socket is still connecting.  The handler of async_resolve holds a
\* reference to when_done, a local variable of peer::send_req that is gone
\* when it runs: what it copies may still work, or be no callback any more.
Send(r) ==
    /\ req[r].at = "new"
    /\ IF sock.at = "closed"
       THEN \E ok \in BOOLEAN :
                req' = [req EXCEPT ![r] = [at |-> "resolving", conn |-> 0,
                                           good |-> ok]]
       ELSE req' = [req EXCEPT ![r] = [at |-> "writing", conn |-> sock.conn,
                                       good |-> TRUE]]
    /\ UNCHANGED <<sock, wire, session, handled, calls, breaks>>

\* async_connect closes the socket before it opens it anew, whatever another
\* request is doing with it.
Resolved(r) ==
    /\ req[r].at = "resolving" /\ sock.conn < MaxConns
    /\ req' = [req EXCEPT ![r].at = "connecting", ![r].conn = sock.conn + 1]
    /\ sock' = [conn |-> sock.conn + 1, at |-> "connecting"]
    /\ UNCHANGED <<wire, session, handled, calls, breaks>>

\* Also the outcome when the resolver, a local variable of send, is destroyed
\* before it has run.
ResolveFails(r) ==
    /\ req[r].at = "resolving"
    /\ Failed(r)
    /\ UNCHANGED <<sock, wire, session, handled, breaks>>

\* connected without error: the listener accepts, its session starts to read
\* a header, and send is called again, with the socket open.
Connected(r) ==
    /\ req[r].at = "connecting" /\ OnSocket(r) /\ sock.at = "connecting"
    /\ sock' = [sock EXCEPT !.at = "open"]
    /\ session' = [session EXCEPT ![sock.conn].at = "header"]
    /\ req' = [req EXCEPT ![r].at = "writing"]
    /\ UNCHANGED <<wire, handled, calls, breaks>>

\* connected with an error: nobody is there, or the attempt was aborted.  The
\* socket is not closed.
ConnectFails(r) ==
    /\ req[r].at = "connecting"
    /\ Failed(r)
    /\ sock' = IF OnSocket(r) THEN [sock EXCEPT !.at = "broken"] ELSE sock
    /\ UNCHANGED <<wire, session, handled, breaks>>

\* sent without error.
Written(r) ==
    /\ req[r].at = "writing" /\ OnSocket(r) /\ sock.at = "open"
    /\ wire' = [wire EXCEPT ![sock.conn] = Append(@, r)]
    /\ req' = [req EXCEPT ![r].at = "reading"]
    /\ UNCHANGED <<sock, session, handled, calls, breaks>>

\* sent or response_read with an error: the socket is closed, also when it is
\* by now the connection of another request.
WriteFails(r) ==
    /\ req[r].at = "writing"
    /\ OnSocket(r) => sock.at # "open" \/ Hung(sock.conn)
    /\ sock' = [sock EXCEPT !.at = "closed"]
    /\ Failed(r)
    /\ UNCHANGED <<wire, session, handled, breaks>>

ReadFails(r) ==
    /\ req[r].at = "reading"
    /\ OnSocket(r) => sock.at # "open" \/ Hung(sock.conn)
    /\ sock' = [sock EXCEPT !.at = "closed"]
    /\ Failed(r)
    /\ UNCHANGED <<wire, session, handled, breaks>>

-----------------------------------------------------------------------------
(* rpc_session. *)

ProcessReq(r) == handled' = [handled EXCEPT ![r] = @ + 1]

\* The header has been read.  Without data read_complete runs at once, which
\* stops the session, and then start goes on to read no bytes of data.
ReadHeader(c) ==
    LET r == Head(wire[c])
    IN  /\ session[c].at = "header" /\ wire[c] # <<>>
        /\ wire' = [wire EXCEPT ![c] = Tail(@)]
        /\ session' = [session EXCEPT ![c] =
               [at |-> IF r \in Empty THEN "nothing" ELSE "data", cur |-> r]]
        /\ IF r \in Empty THEN ProcessReq(r) ELSE UNCHANGED handled
        /\ UNCHANGED <<req, sock, calls, breaks>>

\* read_log_data and read_complete: process_req, then stop.
ReadDataAgain(c) ==
    /\ session[c].at \in {"data", "nothing"}
    /\ ProcessReq(session[c].cur)
    /\ session' = [session EXCEPT ![c].at =
           IF @ = "data" THEN "nothing" ELSE "data"]
    /\ UNCHANGED <<req, sock, wire, calls, breaks>>
ReadData(c) ==
    /\ session[c].at \in {"data", "nothing"}
    /\ ProcessReq(session[c].cur)
    /\ session' = [session EXCEPT ![c].at = "closed"]
    /\ UNCHANGED <<req, sock, wire, calls, breaks>>

\* A read fails because the client is gone.
SessionFails(c) ==
    /\ session[c].at \in {"header", "data"}
    /\ sock.conn # c \/ sock.at # "open"
    /\ session' = [session EXCEPT ![c].at = "closed"]
    /\ UNCHANGED <<req, sock, wire, handled, calls, breaks>>

\* The connection breaks; the session may still read what was written.
Break ==
    /\ sock.at = "open" /\ breaks < MaxBreaks
    /\ sock' = [sock EXCEPT !.at = "broken"]
    /\ breaks' = breaks + 1
    /\ UNCHANGED <<req, wire, session, handled, calls>>

-----------------------------------------------------------------------------
Init ==
    /\ req = [r \in Request |-> [at |-> "new", conn |-> 0, good |-> TRUE]]
    /\ sock = [conn |-> 0, at |-> "closed"]
    /\ wire = [c \in Conns |-> <<>>]
    /\ session = [c \in Conns |-> [at |-> "none", cur |-> NoReq]]
    /\ handled = [r \in Request |-> 0]
    /\ calls = [r \in Request |-> 0]
    /\ breaks = 0

ClientStep(r) ==
    \/ Resolved(r) \/ ResolveFails(r)
    \/ Connected(r) \/ ConnectFails(r)
    \/ Written(r) \/ WriteFails(r)
    \/ ReadFails(r)
SessionStep(c) == ReadHeader(c) \/ ReadData(c)

Next ==
    \/ \E r \in Request : Send(r) \/ ClientStep(r)
    \/ \E c \in Conns : SessionStep(c) \/ SessionFails(c)
    \/ Break

Spec == Init /\ [][Next]_vars

\* The io_service threads of the client run what is ready.  Nothing is
\* assumed of the peer, which may stop reading without closing anything.
FairSpec == Spec /\ \A r \in Request : WF_vars(ClientStep(r))

-----------------------------------------------------------------------------
(* Properties. *)

\* Types; no callback runs twice, which would free a peer that is busy with
\* its next request.
TypeOK ==
    /\ req \in [Request -> Req]
    /\ sock \in Sock
    /\ wire \in [Conns -> Seq(Request)]
    /\ session \in [Conns -> Session]
    /\ handled \in [Request -> Nat]
    /\ calls \in [Request -> 0..1]
    /\ breaks \in 0..MaxBreaks

\* The client and the sessions implement what raft_server assumes of them:
\* one callback for each request, whatever fails and whoever closes the
\* socket, and each request handled once, or twice if it has no entries.
Channel ==
    INSTANCE RpcChannel WITH
        Deliveries <- [r \in Request |-> IF r \in Empty THEN 2 ELSE 1],
        stage <- [r \in Request |->
            IF req[r].at = "new" THEN "new"
            ELSE IF calls[r] = 0 THEN "sent" ELSE "done"]
ImplementsChannel == Channel!Spec

\* The client waits for a peer that has a request, or the rest of one, to
\* read: the client itself has no timeout.
AwaitsPeer(r) ==
    /\ req[r].at = "reading" /\ OnSocket(r) /\ sock.at = "open"
    /\ \/ session[sock.conn].at = "header" /\ wire[sock.conn] # <<>>
       \/ session[sock.conn].at = "data"

\* peer::busy_flag_ depends on it: a request that is sent gets its callback,
\* whoever else uses, closes or reopens the socket.  There are two ways to
\* wait for it in vain: the callback was lost before the host was resolved, or
\* the peer never gets to what it has to read.
CallbackComes ==
    \A r \in Request :
        (req[r].at # "new") ~> \/ calls[r] > 0
                               \/ ~req[r].good
                               \/ []AwaitsPeer(r)
=============================================================================
