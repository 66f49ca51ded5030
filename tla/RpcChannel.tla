----------------------------- MODULE RpcChannel -----------------------------
(***************************************************************************)
(* What rpc_client::send promises raft_server and peer, and what           *)
(* RaftServer assumes of its network: the callback of a request comes at   *)
(* most once, and only a request that was sent is ever handled, before its *)
(* callback or after it, at most Deliveries[r] times.                      *)
(***************************************************************************)
EXTENDS Naturals

CONSTANTS Request, Deliveries

VARIABLES
    stage,    \* stage[r]: "new", "sent", or "done" once its callback ran
    handled   \* handled[r]: how often process_req was called with r

cvars == <<stage, handled>>

Init ==
    /\ stage = [r \in Request |-> "new"]
    /\ handled = [r \in Request |-> 0]

Send(r) ==
    /\ stage[r] = "new"
    /\ stage' = [stage EXCEPT ![r] = "sent"]
    /\ UNCHANGED handled

ProcessReq(r) ==
    /\ stage[r] # "new" /\ handled[r] < Deliveries[r]
    /\ handled' = [handled EXCEPT ![r] = @ + 1]
    /\ UNCHANGED stage

WhenDone(r) ==
    /\ stage[r] = "sent"
    /\ stage' = [stage EXCEPT ![r] = "done"]
    /\ UNCHANGED handled

Next == \E r \in Request : Send(r) \/ ProcessReq(r) \/ WhenDone(r)

Spec == Init /\ [][Next]_cvars
=============================================================================
