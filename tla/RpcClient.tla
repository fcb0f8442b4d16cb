----------------------------- MODULE RpcClient -----------------------------
(***************************************************************************)
(* One rpc.Client of pkg/rpc/client.go, as onJoin makes it for a peer,    *)
(* and the peer's side of its connection in pkg/rpc/server.go: Connect,   *)
(* the steps of Send (the nil checks, SetDeadline, the net/rpc Call),     *)
(* the goroutine Connect starts that Disconnects when the context is      *)
(* cancelled, net/rpc's reader goroutine, the server's accept loop and    *)
(* the per-connection ServeCodec goroutine.                                *)
(*                                                                         *)
(* Time is abstracted: an armed socket deadline may pass at any moment.   *)
(* SetDeadline sets an absolute deadline (now + receiveTimeout) that      *)
(* nothing clears, so it stays armed after the call returns.  net/rpc's   *)
(* reader goroutine blocks on the socket between calls; a read error      *)
(* ends it and shuts the rpc.Client down for good (ErrShutdown).          *)
(***************************************************************************)
EXTENDS Naturals

CONSTANTS MaxFaults   \* bound: network partitions

VARIABLES cancel,      \* Client.cancel: "nil" or "set"
          ctxDone,     \* the context given to Connect is cancelled
          tcp,         \* Client.tcpConnection: "nil" or "conn"
          sock,        \* the client's socket: "none", "open", "closed"
          rpc,         \* Client.rpcClient: "nil" or "client"
          shut,        \* the rpc.Client's reader ended: every Call fails
          deadline,    \* the socket's deadline: "none" or "armed"
          watcher,     \* Connect's goroutine and the Disconnect it runs
          spc,         \* the goroutine in Client.Send (runBatch's flusher)
          phase,       \* "new", "failed" (Connect returned an error), "connected"
          listening,   \* the peer's listener accepts connections
          backlog,     \* the dialled connection waits to be Accepted
          serving,     \* handleConnection serves the connection
          peerUp,      \* the peer process runs
          partitioned, \* no packet passes between client and peer
          faults       \* partitions so far

vars == <<cancel, ctxDone, tcp, sock, rpc, shut, deadline, watcher, spc, phase,
          listening, backlog, serving, peerUp, partitioned, faults>>

Init ==
    /\ cancel = "nil" /\ ctxDone = FALSE
    /\ tcp = "nil" /\ sock = "none" /\ rpc = "nil" /\ shut = FALSE
    /\ deadline = "none" /\ watcher = "none" /\ spc = "idle" /\ phase = "new"
    /\ listening = TRUE /\ backlog = FALSE /\ serving = FALSE
    /\ peerUp = TRUE /\ partitioned = FALSE /\ faults = 0

Reachable == peerUp /\ listening /\ ~partitioned

(* Connect: a cancellable context, DialTCP, the socket options, the        *)
(* rpc.Client over the msgpack codec and the goroutine that Disconnects   *)
(* when the context ends.  A failed dial returns an error; onJoin then    *)
(* drops the client, whose cancel is never called.                        *)
Connect ==
    /\ phase = "new"
    /\ cancel' = "set"
    /\ IF Reachable
       THEN /\ phase' = "connected"
            /\ tcp' = "conn" /\ sock' = "open" /\ rpc' = "client"
            /\ watcher' = "waiting" /\ backlog' = TRUE
       ELSE /\ phase' = "failed"
            /\ UNCHANGED <<tcp, sock, rpc, watcher, backlog>>
    /\ UNCHANGED <<ctxDone, shut, deadline, spc, listening, serving, peerUp,
                   partitioned, faults>>

(* Send, first: "not connected" when either field is nil; Send returns nil.*)
SendCheck ==
    /\ phase = "connected"
    /\ spc = "idle"
    /\ spc' = IF tcp = "nil" \/ rpc = "nil" THEN "idle" ELSE "checked"
    /\ UNCHANGED <<cancel, ctxDone, tcp, sock, rpc, shut, deadline, watcher, phase,
                   listening, backlog, serving, peerUp, partitioned, faults>>

(* Fault-injected variant: Send calls without setting a deadline.         *)
SetDeadlineNone ==
    /\ spc = "checked"
    /\ spc' = IF tcp = "conn" /\ sock = "open" THEN "deadlined" ELSE "idle"
    /\ UNCHANGED <<cancel, ctxDone, tcp, sock, rpc, shut, deadline, watcher, phase,
                   listening, backlog, serving, peerUp, partitioned, faults>>

(* Send, second: SetDeadline(now + receiveTimeout) on the field read again; *)
(* on a nil or closed connection it fails and Send returns nil.            *)
SetDeadline ==
    /\ spc = "checked"
    /\ IF tcp = "conn" /\ sock = "open"
       THEN spc' = "deadlined" /\ deadline' = "armed"
       ELSE spc' = "idle" /\ UNCHANGED deadline
    /\ UNCHANGED <<cancel, ctxDone, tcp, sock, rpc, shut, watcher, phase,
                   listening, backlog, serving, peerUp, partitioned, faults>>

(* clientCodecMsgpack.WriteRequest: the header and body are encoded into   *)
(* the buffer and flushed; the flush fails on a socket already closed.     *)
(* A partitioned socket takes the bytes into its send buffer.              *)
WriteRequest == sock = "open"

(* Send, last: command.Send calls rpcClient.Call on the field read again.  *)
(* A nil rpcClient panics; a shut-down one returns ErrShutdown at once; a *)
(* failed write returns its error; otherwise the caller waits for the     *)
(* reply.                                                                  *)
Call ==
    /\ spc = "deadlined"
    /\ spc' = CASE rpc = "nil"    -> "panicked"
                [] shut           -> "idle"
                [] ~WriteRequest  -> "idle"
                [] OTHER          -> "calling"
    /\ UNCHANGED <<cancel, ctxDone, tcp, sock, rpc, shut, deadline, watcher, phase,
                   listening, backlog, serving, peerUp, partitioned, faults>>

(* The peer's ServeCodec runs the handler and writes the reply, which the  *)
(* reader goroutine delivers: Call returns.                                *)
Reply ==
    /\ spc = "calling"
    /\ serving /\ ~partitioned /\ ~shut
    /\ spc' = "idle"
    /\ UNCHANGED <<cancel, ctxDone, tcp, sock, rpc, shut, deadline, watcher, phase,
                   listening, backlog, serving, peerUp, partitioned, faults>>

(* net/rpc's reader goroutine gets a read error and shuts the client down, *)
(* failing the pending Call: the socket was closed by Disconnect, the      *)
(* armed deadline passed, the peer's process ended (EOF), or the peer's   *)
(* listener was closed before it accepted the connection (reset).         *)
InputFails ==
    /\ sock # "none" /\ ~shut
    /\ \/ sock = "closed"
       \/ deadline = "armed"
       \/ ~peerUp /\ ~partitioned
       \/ backlog /\ ~listening /\ ~partitioned
    /\ shut' = TRUE
    /\ spc' = IF spc = "calling" THEN "idle" ELSE spc
    /\ UNCHANGED <<cancel, ctxDone, tcp, sock, rpc, deadline, watcher, phase,
                   listening, backlog, serving, peerUp, partitioned, faults>>

(* AcceptConnections: Accept returns the connection, the socket options    *)
(* are set and a handleConnection goroutine serves it.                     *)
Accept ==
    /\ backlog /\ listening /\ ~partitioned
    /\ backlog' = FALSE
    /\ serving' = TRUE
    /\ UNCHANGED <<cancel, ctxDone, tcp, sock, rpc, shut, deadline, watcher, spc,
                   phase, listening, peerUp, partitioned, faults>>

(* handleConnection returns when ServeCodec's read fails: the client       *)
(* closed the socket, or keep-alive probes found the path dead.            *)
ServeEnds ==
    /\ serving
    /\ sock = "closed" \/ partitioned
    /\ serving' = FALSE
    /\ UNCHANGED <<cancel, ctxDone, tcp, sock, rpc, shut, deadline, watcher, spc,
                   phase, listening, backlog, peerUp, partitioned, faults>>

(* The peer's context is cancelled: the goroutine of AcceptConnections     *)
(* closes the listener and the loop breaks.  handleConnection ignores its  *)
(* context, so a served connection goes on being served.                   *)
ServerCancel ==
    /\ listening
    /\ listening' = FALSE
    /\ UNCHANGED <<cancel, ctxDone, tcp, sock, rpc, shut, deadline, watcher, spc,
                   phase, backlog, serving, peerUp, partitioned, faults>>

(* The peer's process ends; its sockets go with it.                        *)
PeerExit ==
    /\ peerUp
    /\ peerUp' = FALSE
    /\ listening' = FALSE /\ backlog' = FALSE /\ serving' = FALSE
    /\ UNCHANGED <<cancel, ctxDone, tcp, sock, rpc, shut, deadline, watcher, spc,
                   phase, partitioned, faults>>

(* The network between client and peer fails for good, without a FIN.     *)
Partition ==
    /\ ~partitioned
    /\ faults < MaxFaults
    /\ partitioned' = TRUE
    /\ faults' = faults + 1
    /\ UNCHANGED <<cancel, ctxDone, tcp, sock, rpc, shut, deadline, watcher, spc,
                   phase, listening, backlog, serving, peerUp>>

(* The context NewCluster was given, from which onJoin's comes, is        *)
(* cancelled.                                                              *)
CancelCtx ==
    /\ ~ctxDone
    /\ ctxDone' = TRUE
    /\ UNCHANGED <<cancel, tcp, sock, rpc, shut, deadline, watcher, spc, phase,
                   listening, backlog, serving, peerUp, partitioned, faults>>

(* Connect's goroutine: <-ctx.Done(), then Disconnect.                     *)
WatchWake ==
    /\ watcher = "waiting" /\ ctxDone
    /\ watcher' = "disconnect"
    /\ UNCHANGED <<cancel, ctxDone, tcp, sock, rpc, shut, deadline, spc, phase,
                   listening, backlog, serving, peerUp, partitioned, faults>>

(* Disconnect, first: cancel() and cancel = nil.                          *)
DisconnectCancel ==
    /\ watcher = "disconnect"
    /\ cancel' = "nil"
    /\ watcher' = "cancelled"
    /\ UNCHANGED <<ctxDone, tcp, sock, rpc, shut, deadline, spc, phase,
                   listening, backlog, serving, peerUp, partitioned, faults>>

(* Disconnect, then: when tcpConnection is set it is closed (an error is  *)
(* only logged); with no connection Disconnect is over.                   *)
DisconnectClose ==
    /\ watcher = "cancelled"
    /\ IF tcp = "conn"
       THEN sock' = "closed" /\ watcher' = "closed"
       ELSE watcher' = "done" /\ UNCHANGED sock
    /\ UNCHANGED <<cancel, ctxDone, tcp, rpc, shut, deadline, spc, phase,
                   listening, backlog, serving, peerUp, partitioned, faults>>

(* Fault-injected variant: only tcpConnection is cleared.                 *)
DisconnectClearTcpOnly ==
    /\ watcher = "closed"
    /\ tcp' = "nil"
    /\ watcher' = "done"
    /\ UNCHANGED <<cancel, ctxDone, sock, rpc, shut, deadline, spc, phase,
                   listening, backlog, serving, peerUp, partitioned, faults>>

(* Disconnect, last: tcpConnection = nil and rpcClient = nil.             *)
DisconnectClear ==
    /\ watcher = "closed"
    /\ tcp' = "nil" /\ rpc' = "nil"
    /\ watcher' = "done"
    /\ UNCHANGED <<cancel, ctxDone, sock, shut, deadline, spc, phase,
                   listening, backlog, serving, peerUp, partitioned, faults>>

Next ==
    \/ Connect \/ SendCheck \/ SetDeadline \/ Call \/ Reply \/ InputFails
    \/ Accept \/ ServeEnds \/ ServerCancel \/ PeerExit \/ Partition
    \/ CancelCtx \/ WatchWake \/ DisconnectCancel \/ DisconnectClose
    \/ DisconnectClear

(* The goroutines make progress: the caller inside Send, net/rpc's reader *)
(* (and time, which lets an armed deadline pass), the accept loop, the    *)
(* connection handler and Connect's goroutine.  Starting a Send, the      *)
(* contexts and the failures are not obliged to happen.                   *)
Fairness ==
    /\ WF_vars(SetDeadline) /\ WF_vars(Call) /\ WF_vars(Reply)
    /\ WF_vars(InputFails) /\ WF_vars(Accept) /\ WF_vars(ServeEnds)
    /\ WF_vars(WatchWake) /\ WF_vars(DisconnectCancel)
    /\ WF_vars(DisconnectClose) /\ WF_vars(DisconnectClear)

Spec == Init /\ [][Next]_vars /\ Fairness
=============================================================================
