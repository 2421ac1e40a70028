--------------------------- MODULE ServerLifecycle ---------------------------
(***************************************************************************)
(* The life of the server process: main in src/main.rs (server mode), the  *)
(* start of the gRPC, MCP and binary servers it spawns, their socket files *)
(* and the accept loop of transport/mod.rs, over crashes and restarts.     *)
(* BinaryConnection models what a connection does between accept and end.  *)
(***************************************************************************)
EXTENDS Naturals

CONSTANTS
  Conns,          (* clients of the binary transport                        *)
  BinaryEnabled,  (* --enable-binary-transport                              *)
  GrpcUds,        (* transport is not "tcp": gRPC has a socket file too     *)
  MaxStarts       (* bound: times the process is started                    *)

(* Assumed where the module is instantiated.                               *)
LifecycleAssumption ==
  /\ BinaryEnabled \in BOOLEAN /\ GrpcUds \in BOOLEAN /\ MaxStarts \in Nat

VARIABLES
  main,       (* where main is                                              *)
  starts,     (* starts of the process so far                               *)
  grpc, mcp, binary,     (* the spawned tasks; binary is the accept loop    *)
  grpcFile, binaryFile,  (* the socket files: none, bound by this process,  *)
                         (* or stale, left by an earlier one                *)
  interrupt,  (* ctrl_c was pressed                                         *)
  shutdown,   (* value of the binary transport's shutdown watch             *)
  allUp,      (* history: every task had started when main left its select  *)
  denied,     (* history: the system refused the binary socket to this process *)
  conn        (* each client's connection                                   *)

vars == <<main, starts, grpc, mcp, binary, grpcFile, binaryFile, interrupt,
          shutdown, allUp, denied, conn>>
tasks   == <<grpc, mcp, binary>>
files   == <<grpcFile, binaryFile, denied>>
control == <<main, starts, interrupt, shutdown, allUp>>

Task   == {"off", "starting", "serving", "ended"}
Socket == {"none", "stale", "bound"}

(* waiting: in the listener's backlog.  cut: ended by the process going    *)
(* after it signalled shutdown; lost: by its going in any other way.       *)
Connection == {"idle", "waiting", "open", "draining", "closed", "cut", "lost"}

(* Types, and that no connection survives the process.                     *)
TypeOK ==
  /\ main \in {"down", "select", "cleanGrpc", "cleanBinary", "return"}
  /\ starts \in 0 .. MaxStarts
  /\ {grpc, mcp, binary} \subseteq Task /\ {grpcFile, binaryFile} \subseteq Socket
  /\ {interrupt, shutdown, allUp, denied} \subseteq BOOLEAN
  /\ conn \in [Conns -> Connection]
  /\ main = "down" => conn \in [Conns -> Connection \ {"waiting", "open", "draining"}]

Init ==
  /\ main = "down" /\ starts = 0 /\ grpc = "off" /\ mcp = "off" /\ binary = "off"
  /\ grpcFile = "none" /\ binaryFile = "none"
  /\ interrupt = FALSE /\ shutdown = FALSE /\ allUp = FALSE /\ denied = FALSE
  /\ conn = [c \in Conns |-> "idle"]

-----------------------------------------------------------------------------
(* Up to the select: the servers are spawned, none has run yet.            *)
Start ==
  /\ main = "down" /\ starts < MaxStarts
  /\ starts' = starts + 1 /\ main' = "select"
  /\ grpc' = "starting" /\ mcp' = "starting"
  /\ binary' = IF BinaryEnabled THEN "starting" ELSE "off"
  /\ conn' = [c \in Conns |-> "idle"]
  /\ UNCHANGED <<files, interrupt, shutdown, allUp>>

(* Binding an address: free or not, a file in the way or not.              *)
Bound(file) == file' = "bound"
NotBound(file) == file' \in {"none"} \cup ({file} \cap {"stale"})

(* A task not yet run keeps running while main cleans up, until the        *)
(* runtime goes with the process.  gRPC goes on over TCP without its       *)
(* socket, and ends if TCP fails; MCP ends (panics) if its port is taken.  *)
GrpcStart ==
  /\ grpc = "starting"
  /\ grpc' \in {"serving", "ended"}
  /\ IF GrpcUds THEN Bound(grpcFile) \/ NotBound(grpcFile) ELSE UNCHANGED grpcFile
  /\ UNCHANGED <<control, mcp, binary, binaryFile, denied, conn>>

McpStart ==
  /\ mcp = "starting"
  /\ mcp' \in {"serving", "ended"}
  /\ UNCHANGED <<control, grpc, binary, files, conn>>

ServerFails ==
  /\ \/ grpc = "serving" /\ grpc' = "ended" /\ UNCHANGED mcp
     \/ mcp = "serving" /\ mcp' = "ended" /\ UNCHANGED grpc
  /\ UNCHANGED <<control, binary, files, conn>>

(* Fault model: a stale file is not removed before the bind.               *)
BinaryStartOverStale ==
  /\ binary = "starting"
  /\ \/ binaryFile = "none" /\ Bound(binaryFile) /\ binary' = "serving"
     \/ binaryFile # "none" /\ UNCHANGED binaryFile /\ binary' = "ended"
  /\ UNCHANGED <<control, grpc, mcp, grpcFile, denied, conn>>

(* start_binary_transport's task: remove a stale file, bind, listen; any   *)
(* error ends the task.                                                    *)
BinaryStart ==
  /\ binary = "starting"
  /\ \/ Bound(binaryFile) /\ binary' = "serving" /\ UNCHANGED denied
     \/ NotBound(binaryFile) /\ binary' = "ended" /\ denied' = TRUE
  /\ UNCHANGED <<control, grpc, mcp, grpcFile, conn>>

-----------------------------------------------------------------------------
(* The accept loop, and the connection tasks it spawns.                    *)
SetConn(c, s) == conn' = [conn EXCEPT ![c] = s]

Connect(c) ==
  /\ conn[c] = "idle" /\ binary = "serving" /\ binaryFile = "bound"
  /\ SetConn(c, "waiting") /\ UNCHANGED <<control, tasks, files>>

AcceptConn(c) ==
  /\ conn[c] = "waiting" /\ binary = "serving"
  /\ SetConn(c, "open") /\ UNCHANGED <<control, tasks, files>>

(* The loop sees the signal and drops the listener with its backlog.       *)
AcceptEnds ==
  /\ binary = "serving" /\ shutdown
  /\ binary' = "ended"
  /\ conn' = [c \in Conns |-> IF conn[c] = "waiting" THEN "lost" ELSE conn[c]]
  /\ UNCHANGED <<control, grpc, mcp, files>>

(* The connection sees the signal: the shutdown frame, then the drain.     *)
ConnDrains(c) ==
  /\ conn[c] = "open" /\ shutdown
  /\ SetConn(c, "draining") /\ UNCHANGED <<control, tasks, files>>

(* The client leaves, or the drain period is over.                         *)
ConnEnds(c) ==
  /\ conn[c] \in {"open", "draining"}
  /\ SetConn(c, "closed") /\ UNCHANGED <<control, tasks, files>>

-----------------------------------------------------------------------------
Interrupt ==
  /\ main = "select" /\ ~interrupt
  /\ interrupt' = TRUE
  /\ UNCHANGED <<main, starts, shutdown, allUp, tasks, files, conn>>

(* The third branch awaits the accept task; with the transport disabled    *)
(* there is none to await, and the branch is ready at once.                *)
BinaryBranchReady == binary \in {"off", "ended"}
Ready == grpc = "ended" \/ mcp = "ended" \/ BinaryBranchReady

LeaveSelect ==
  /\ main = "select" /\ main' = "cleanGrpc"
  /\ allUp' = ("starting" \notin {grpc, mcp, binary})
  /\ UNCHANGED <<starts, interrupt, tasks, files, conn>>

(* Fault model: the binary branch fires while the task is still starting.  *)
SelectServerEarly == (Ready \/ binary = "starting") /\ LeaveSelect /\ UNCHANGED shutdown

(* A server's branch: out of the select, without a signal to anybody.      *)
SelectServer == Ready /\ LeaveSelect /\ UNCHANGED shutdown

(* The ctrl_c branch: signal the binary transport, and out of the select.  *)
SelectInterrupt == interrupt /\ LeaveSelect /\ shutdown' = BinaryEnabled

CleanGrpc ==
  /\ main = "cleanGrpc" /\ main' = "cleanBinary"
  /\ grpcFile' = IF GrpcUds THEN "none" ELSE grpcFile
  /\ UNCHANGED <<starts, interrupt, shutdown, allUp, tasks, binaryFile, denied, conn>>

CleanBinary ==
  /\ main = "cleanBinary" /\ main' = "return"
  /\ binaryFile' = IF BinaryEnabled THEN "none" ELSE binaryFile
  /\ UNCHANGED <<starts, interrupt, shutdown, allUp, tasks, grpcFile, denied, conn>>

(* Files survive their process; tasks and connections do not.              *)
Leave(f) == IF f = "bound" THEN "stale" ELSE f
Live(c)  == conn[c] \in {"waiting", "open", "draining"}
EndProcess(s) ==
  /\ main' = "down" /\ interrupt' = FALSE /\ shutdown' = FALSE /\ allUp' = FALSE /\ denied' = FALSE
  /\ grpc' = "off" /\ mcp' = "off" /\ binary' = "off"
  /\ grpcFile' = Leave(grpcFile) /\ binaryFile' = Leave(binaryFile)
  /\ conn' = [c \in Conns |-> IF conn[c] = "waiting" THEN "lost"
                              ELSE IF Live(c) THEN s ELSE conn[c]]
  /\ UNCHANGED starts

(* main returns and awaits nothing: the runtime is dropped.                *)
Return == main = "return" /\ EndProcess(IF shutdown THEN "cut" ELSE "lost")

Crash == main # "down" /\ EndProcess("lost")

-----------------------------------------------------------------------------
MainStep == SelectServer \/ SelectInterrupt \/ CleanGrpc \/ CleanBinary \/ Return

Next ==
  \/ Start \/ MainStep \/ Crash \/ Interrupt
  \/ GrpcStart \/ McpStart \/ ServerFails \/ BinaryStart \/ AcceptEnds
  \/ \E c \in Conns : Connect(c) \/ AcceptConn(c) \/ ConnDrains(c) \/ ConnEnds(c)

Spec == Init /\ [][Next]_vars

(* main is polled whenever it can move; nothing else is owed.              *)
FairSpec == Spec /\ WF_vars(MainStep)

-----------------------------------------------------------------------------
(* Properties.                                                             *)

(* Over crashes and restarts, and whatever files earlier processes left, a *)
(* listening binary transport can be reached through its file.             *)
ListenerReachable ==
  binary = "serving" /\ main = "select" => binaryFile = "bound"

(* Unless the system refuses the socket, the accept loop ends only on the  *)
(* signal: a stale file never keeps a restarted server from listening.     *)
AcceptEndsOnSignal == binary = "ended" => shutdown \/ denied

(* A server that had come up leaves no socket file behind when it returns. *)
SocketsRemoved ==
  main = "return" /\ allUp => grpcFile # "bound" /\ binaryFile # "bound"

(* Together, over crashes and restarts: a server that runs is reached, and *)
(* one that has returned is not taken for one that runs.                   *)
SocketsUsable == TypeOK /\ ListenerReachable /\ AcceptEndsOnSignal /\ SocketsRemoved

(* main leaves its select on ctrl_c, or when a server it started has ended. *)
ExitHasCause ==
  [][main = "select" /\ main' = "cleanGrpc" =>
       interrupt \/ "ended" \in {grpc, mcp, binary}]_vars

(* After ctrl_c the process ends, whatever its clients do.                 *)
InterruptEnds == interrupt ~> main = "down"
=============================================================================
