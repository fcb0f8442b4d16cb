---------------------------- MODULE MCRpcClient ----------------------------
(***************************************************************************)
(* One client, one peer, at most one partition; the properties of the     *)
(* connection.                                                             *)
(***************************************************************************)
EXTENDS RpcClient

TypeOK ==
    /\ cancel \in {"nil", "set"} /\ ctxDone \in BOOLEAN
    /\ tcp \in {"nil", "conn"} /\ sock \in {"none", "open", "closed"}
    /\ rpc \in {"nil", "client"} /\ shut \in BOOLEAN
    /\ (tcp = "conn") = (rpc = "client")
    /\ deadline \in {"none", "armed"}
    /\ watcher \in {"none", "waiting", "disconnect", "cancelled", "closed", "done"}
    /\ spc \in {"idle", "checked", "deadlined", "calling", "panicked"}
    /\ phase \in {"new", "failed", "connected"}
    /\ {listening, backlog, serving, peerUp, partitioned} \subseteq BOOLEAN
    /\ faults \in 0..MaxFaults

(* Spec 4.5, Send is synchronous and bounded by the receive deadline:     *)
(* every Client.Send returns (or the process has died), even when the     *)
(* peer never answers because the network failed without a FIN or its    *)
(* listener was closed before it accepted the connection.                  *)
SendReturns ==
    spc \in {"checked", "deadlined", "calling"} ~> spc \in {"idle", "panicked"}

(* Spec 4.5, deadlines are per call: a connected client that is idle, to a *)
(* peer that runs, listens or serves it and is reachable, is not shut down *)
(* by a step.                                                              *)
IdleClientStaysUsable ==
    [][(/\ spc = "idle" /\ sock = "open" /\ ~shut
        /\ peerUp /\ ~partitioned /\ (serving \/ listening))
           => ~shut']_vars
=============================================================================
