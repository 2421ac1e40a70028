------------------------------ MODULE MCProcess ------------------------------
(***************************************************************************)
(* The server's process, its MCP loop on stdin/stdout and an ingestion     *)
(* job.  They share no state, so that a behaviour is one of one part:      *)
(* which, part says.                                                       *)
(***************************************************************************)
EXTENDS MCMcpStdio

CONSTANTS
  Writers, TotalRows, BatchSize, Capacity, ProgressEvery, MaxCancels, \* IngestJob
  Conns, BinaryEnabled, GrpcUds, MaxStarts                            \* ServerLifecycle

VARIABLES
  part,
  stage, status, chunk, queue, open, writer, hand, inserted, rejected, rowsInserted,
  rowsFailed, loaded, saved, registered, signal, cancels, received, after, panicked,
  main, starts, grpc, mcp, binary, grpcFile, binaryFile, interrupt, shutdown, allUp,
  denied, conn

job == <<stage, status, chunk, queue, open, writer, hand, inserted, rejected,
         rowsInserted, rowsFailed, loaded, saved, registered, signal, cancels,
         received, after, panicked>>
life == <<main, starts, grpc, mcp, binary, grpcFile, binaryFile, interrupt,
          shutdown, allUp, denied, conn>>
all == <<part, vars, job, life>>

J == INSTANCE IngestJob WITH pc <- stage, channel <- queue
P == INSTANCE ServerLifecycle

ASSUME ProcessAssumption == J!JobAssumption /\ P!LifecycleAssumption

-----------------------------------------------------------------------------
(* A part that is not the one keeps its initial state.                     *)
Start == part \in {"life", "stdio", "job"} /\ Init /\ J!Init /\ P!Init

On(p) ==
  /\ part = p /\ UNCHANGED part
  /\ p # "stdio" => UNCHANGED vars
  /\ p # "job" => UNCHANGED job
  /\ p # "life" => UNCHANGED life

Move ==
  \/ On("life") /\ P!Next
  \/ On("stdio") /\ Next
  \/ On("job") /\ J!Next

(* Each part's own fairness; only one is there at a time, so that one      *)
(* condition serves the task of each.                                      *)
OneTask ==
  \/ On("life") /\ P!MainStep
  \/ On("stdio") /\ (Loop \/ Handler)
  \/ On("job") /\ J!Producer
Fairness ==
  /\ WF_all(OneTask)
  /\ \A w \in Writers : WF_all(On("job") /\ J!Writer(w))

ProcessSpec == Start /\ [][Move]_all /\ Fairness

-----------------------------------------------------------------------------
(* The process (ServerLifecycle), over crashes and restarts: its sockets are*)
(* usable, and main leaves its select for a cause.                         *)
SocketsUsable == P!SocketsUsable
ExitHasCause  == P!ExitHasCause

(* A job (IngestJob): its rows and counts are exact, a cancellation stops  *)
(* it, and it is quiet once final.                                         *)
JobExact    == J!JobExact
CancelStops == J!CancelStops
JobQuiet    == J!JobQuiet

(* Nothing hangs: the host is answered (McpStdio), a job ends (IngestJob), *)
(* and so does the process after ctrl_c (ServerLifecycle).                 *)
NothingHangs == EventuallyAnswered /\ J!JobEnds /\ P!InterruptEnds
=============================================================================
