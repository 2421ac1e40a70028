------------------------------ MODULE MCServices ------------------------------
(***************************************************************************)
(* The MCP tools and the services behind them.  They share no state, so    *)
(* that a behaviour is one of one part: which, part says.                  *)
(***************************************************************************)
EXTENDS MCMcpTools

CONSTANTS
  Present,
  Rows, BatchSize, Ahead, Cuts, Bad,                      \* GrpcStreams
  Files, Matching, Debounce, Interval, MaxWrites,         \* DirectoryWatch
  Jobs, NoKey, Plans, Stored,                             \* SequentialIngest
  Tenants, Second, MaxRate, Tasks, Entries, MaxEntries, MaxUses, \* TenantLimits
  Callers, MaxBatch,                                      \* BatchEmbedder
  Recorders, Capacity, Latencies, MaxEvents, MaxFlushes,  \* Telemetry
  Requests, MaxChanges                                    \* SearchFallback

CONSTANTS fa, fb, ja, jb, no, x, y, z  \* model values

VARIABLES
  part,
  kind, bad, pos, batch, sent, kept, sum, errs, out, got, handed, producer, client,
  watcher, handle, stopping, noticed, waiting, idle, version, calm, seen, spawned, begun, read,
  coll, plan, step, offset, inserts, puts, tally, dead, cancel,
  limit, count, age, recent, lenient, verdict, cached, counts, task, uses, wiped,
  pending, phase, carries, channel, result, requests,
  ring, total, errors, made, pushed, spot, event, flush, stored,
  up, changes, capable, at, weak, answer

streams   == <<kind, bad, pos, batch, sent, kept, sum, errs, out, got, handed, producer,
               client>>
watch     == <<watcher, handle, stopping, noticed, waiting, idle, version, calm, seen,
               spawned, begun, read>>
dedup     == <<coll, plan, step, offset, inserts, puts, tally, dead, cancel>>
tenants   == <<limit, count, age, recent, lenient, verdict, cached, counts, task, uses, wiped>>
embedding == <<pending, phase, carries, channel, result, requests>>
telemetry == <<ring, total, errors, made, pushed, spot, event, flush, stored>>
search    == <<up, changes, capable, at, weak, answer>>
all       == <<part, vars, streams, watch, dedup, tenants, embedding, telemetry, search>>

R == INSTANCE GrpcStreams WITH count <- sent, stored <- kept, total <- sum, task <- producer
W == INSTANCE DirectoryWatch WITH
       task <- watcher, cancel <- stopping, events <- noticed, pending <- waiting
D == INSTANCE SequentialIngest
L == INSTANCE TenantLimits WITH answer <- verdict
B == INSTANCE BatchEmbedder WITH at <- phase
A == INSTANCE Telemetry WITH at <- spot
S == INSTANCE SearchFallback

ASSUME ServicesAssumption ==
  /\ R!StreamAssumption /\ W!WatchAssumption /\ D!SequentialAssumption
  /\ L!LimitsAssumption /\ B!BatchAssumption /\ A!TelemetryAssumption /\ S!SearchAssumption

-----------------------------------------------------------------------------
(* A part that is not the one has a fixed initial state and keeps it.      *)
Start ==
  /\ part \in Present
  /\ Init /\ (part # "tools" =>
       req = (CHOOSE f \in Scenes : TRUE) /\ readOnly = (CHOOSE m \in Modes : TRUE))
  /\ R!Init /\ (part # "streams" => kind = "insert" /\ bad = (CHOOSE s \in Bad : TRUE))
  /\ D!Init /\ (part # "dedup" => plan = CHOOSE p \in Plans : TRUE)
  /\ W!Init /\ L!Init /\ B!Init /\ A!Init /\ S!Init

Still(p) ==
  /\ UNCHANGED part
  /\ p # "tools" => UNCHANGED vars
  /\ p # "streams" => UNCHANGED streams
  /\ p # "watch" => UNCHANGED watch
  /\ p # "dedup" => UNCHANGED dedup
  /\ p \notin {"rates", "cache"} => UNCHANGED tenants
  /\ p # "embed" => UNCHANGED embedding
  /\ p # "telemetry" => UNCHANGED telemetry
  /\ p # "search" => UNCHANGED search
On(p) == part = p /\ Still(p)

Move ==
  \/ On("tools") /\ Next
  \/ On("streams") /\ R!Next
  \/ On("watch") /\ W!Next
  \/ On("dedup") /\ D!Next
  \/ On("rates") /\ L!NextLimits
  \/ On("cache") /\ L!NextCache
  \/ On("embed") /\ B!Next
  \/ On("telemetry") /\ A!Next
  \/ On("search") /\ S!Next

(* Tasks that can go on do, the loop of a watched directory takes each of  *)
(* its branches that stays ready, and time passes.  Only one part is there *)
(* at a time, and Install is enabled only where the other branches are     *)
(* not, so that one condition serves an action of each.                    *)
OneTask ==
  \/ On("tools") /\ Step(a)
  \/ On("streams") /\ R!Produce
  \/ On("watch") /\ (W!Install \/ W!Poll)
  \/ On("dedup") /\ D!Work(ja)
  \/ On("embed") /\ B!Progress(x)
AnotherTask ==
  \/ On("tools") /\ Step(b)
  \/ On("streams") /\ R!Receive
  \/ On("watch") /\ W!Receive
  \/ On("dedup") /\ D!Work(jb)
  \/ On("embed") /\ B!Progress(y)
ThirdTask ==
  \/ On("watch") /\ W!Cancelled
  \/ On("embed") /\ B!Progress(z)
Fairness ==
  /\ WF_all(OneTask) /\ WF_all(AnotherTask) /\ WF_all(ThirdTask)
  /\ WF_all(On("watch") /\ W!Pass)
  /\ \A f \in Matching : WF_all(On("watch") /\ W!Ingest(f))

ServicesSpec == Start /\ [][Move]_all /\ Fairness

-----------------------------------------------------------------------------
(* Streams (GrpcStreams): what they say of themselves is true, and a reader*)
(* gets what Delivery promises.                                            *)
StreamsHonest == R!StreamsHonest
KeepsPromise  == R!KeepsPromise

(* A watched directory (DirectoryWatch): one write, one ingestion at most, *)
(* of a quiet file.                                                        *)
IngestsJustified == W!IngestsJustified

(* Jobs with a key (SequentialIngest): documents and counts.               *)
DedupExact == D!DedupExact

(* Tenants (TenantLimits): their limits, and theirs only.                  *)
TenantsApart == L!TenantsApart

(* Embeddings (BatchEmbedder): each caller its own vector, each text once. *)
EachItsOwn == B!EachItsOwn

(* Analytics (Telemetry): ring, counters and documents tell the truth.     *)
TelemetryTrue == A!TelemetryTrue

(* Search (SearchFallback): the best method that can answer does.          *)
FallbackRight == S!FallbackRight

(* Everyone is served: calls are answered (McpTools), streams end          *)
(* (GrpcStreams), the last write is ingested and stop_watch stops          *)
(* (DirectoryWatch), jobs end (SequentialIngest), embeddings return        *)
(* (BatchEmbedder).                                                        *)
EveryoneServed ==
  /\ EveryCallAnswered /\ R!StreamEnds
  /\ W!LastWriteIngested /\ W!StopEnds
  /\ part = "dedup" => D!JobsEnd
  /\ B!EveryCallReturns

-----------------------------------------------------------------------------
(* The instance: five documents, any one of them bad; two jobs on files    *)
(* that share keys with each other and with what is stored.                *)
TwoThreeFive == <<2, 3, 5>>
AtMostOne == {{}, {1}, {2}, {3}, {5}}

BothFiles == {fa, fb}
OneOf     == {fa}
BothJobs  == {ja, jb}
Three     == {x, y, z}

Line(k, f, v) == [key |-> k, fields |-> [g \in {f} |-> v]]
Old   == <<Line("k", "f", "old")>>
FileA == <<Line("k", "g", "a1"), Line("l", "f", "a2"), Line("l", "g", "a3")>>
FileB == <<Line("l", "f", "b1"), Line(no, "g", "b2")>>
FileC == <<Line("l", "f", "c1"), Line("l", "g", "c2")>>
Ingest(r, s) == [rows |-> r, strategy |-> s]
Both(p, q)   == [j \in BothJobs |-> IF j = ja THEN p ELSE q]
Some ==
  {Both(Ingest(FileA, s), Ingest(FileB, s)) : s \in {"skip", "merge"}}
  \union {Both(Ingest(FileA, "overwrite"), Ingest(FileC, "merge"))}
=============================================================================
