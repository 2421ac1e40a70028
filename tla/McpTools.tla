------------------------------- MODULE McpTools -------------------------------
(***************************************************************************)
(* Calls of MCP tools: what is advertised, the safety gate, the executors, *)
(* pipelines of tools, analytics and the record of the session.            *)
(* src/mcp/tools.rs, safety.rs, session.rs, handler.rs.                    *)
(*                                                                         *)
(* One handler serves all clients of the HTTP server; calls run at once.   *)
(* A call is a tree: the tool it names, and for a pipeline its operations, *)
(* which are calls of tools themselves.                                    *)
(***************************************************************************)
EXTENDS Naturals, Sequences, SequencesExt, FiniteSets

CONSTANTS
  Clients,   (* calls under way at one time                                 *)
  Scenes,    (* functions that say what each of them asks for               *)
  Modes,     (* whether the safety configuration may be read-only           *)
  Services,  (* the optional parts that are configured                      *)
  MaxOps     (* most operations in a pipeline                               *)

-----------------------------------------------------------------------------
(* What tool_definitions advertises: names and required arguments.         *)
Tool(name, required) == [name |-> name, required |-> required]
InDb   == {"database"}
InColl == {"database", "collection"}

CrudTools ==
  {Tool("find", InColl), Tool("find_one", InColl),
   Tool("insert", InColl \union {"document"}), Tool("insert_many", InColl \union {"documents"}),
   Tool("update", InColl \union {"filter", "update"}),
   Tool("update_many", InColl \union {"filter", "update"}),
   Tool("delete", InColl \union {"filter"}), Tool("delete_many", InColl \union {"filter"})}
AdminTools ==
  {Tool("aggregate", InColl \union {"pipeline"}), Tool("create_collection", InColl),
   Tool("create_index", InColl \union {"keys"}), Tool("list_databases", {}),
   Tool("list_collections", InDb), Tool("run_command", InDb \union {"command"}),
   Tool("get_analytics", {})}
IngestTools ==
  {Tool("ingest", InColl \union {"file_path"}), Tool("ingest_status", {"job_id"}),
   Tool("list_ingest_jobs", {}), Tool("cancel_ingest", {"job_id"}),
   Tool("watch_directory", InColl \union {"path"}), Tool("stop_watch", {"watch_id"})}
QueryTools ==
  {Tool("pipeline", {"operations"}), Tool("collection_schema", InColl),
   Tool("ask", InDb \union {"question"}), Tool("explain_query", InDb \union {"question"}),
   Tool("generate_code", InColl), Tool("generate_model", InColl),
   Tool("generate_index", InColl \union {"filter"})}
OtherTools ==
  {Tool("embed_and_store", InColl \union {"documents", "embed_field"}),
   Tool("semantic_search", InColl \union {"query"}),
   Tool("ingest_and_embed", InColl \union {"file_path", "embed_field"}),
   Tool("list_skills", {}), Tool("get_skill", {"name"}),
   Tool("suggest_indexes", {}), Tool("slow_queries", {}),
   Tool("transaction_pipeline", {"steps"}),
   Tool("explain_last", {"language"}), Tool("explain_session", {"language"})}
Advertised == CrudTools \union AdminTools \union IngestTools \union QueryTools \union OtherTools

(* What the executors insist on: a part of the server, arguments; and      *)
(* whether they change something.  (An aggregation may, with $out.)        *)
Executor(name, needs, demands, writes) ==
  [name |-> name, needs |-> needs, demands |-> demands, writes |-> writes]

CrudReaders ==
  {Executor("find", {}, InColl, FALSE), Executor("find_one", {}, InColl, FALSE)}
Inserters ==
  {Executor("insert", {}, InColl \union {"document"}, TRUE),
   Executor("insert_many", {}, InColl \union {"documents"}, TRUE)}
Updaters ==
  {Executor(n, {}, InColl \union {"filter", "update"}, TRUE) : n \in {"update", "update_many"}}

Deleters ==
  {Executor(n, {}, InColl \union {"filter"}, TRUE) : n \in {"delete", "delete_many"}}
Administrators ==
  {Executor("aggregate", {}, InColl \union {"pipeline"}, FALSE),
   Executor("create_collection", {}, InColl, TRUE),
   Executor("create_index", {}, InColl \union {"keys"}, TRUE),
   Executor("list_databases", {}, {}, FALSE), Executor("list_collections", {}, InDb, FALSE)}
Commander == {Executor("run_command", {}, InDb \union {"command"}, TRUE)}
Analysts  == {Executor("get_analytics", {"analytics"}, {}, FALSE)}
Ingesters ==
  {Executor("ingest", {"ingestion"}, InColl \union {"file_path"}, TRUE)}
JobKeepers ==
  {Executor("ingest_status", {"ingestion"}, {"job_id"}, FALSE),
   Executor("list_ingest_jobs", {"ingestion"}, {}, FALSE),
   Executor("cancel_ingest", {"ingestion"}, {"job_id"}, TRUE)}
Watchers ==
  {Executor("watch_directory", {"watcher"}, InColl \union {"path"}, TRUE),
   Executor("stop_watch", {"watcher"}, {"watch_id"}, TRUE)}
Schemas    == {Executor("collection_schema", {}, InColl, FALSE)}
Generators ==
  {Executor("generate_code", {}, InColl, FALSE), Executor("generate_model", {}, InColl, FALSE),
   Executor("generate_index", {}, InColl \union {"filter"}, FALSE)}
Askers ==
  {Executor(n, {"translator"}, InColl \union {"question"}, FALSE) : n \in {"ask", "explain_query"}}
Embedders ==
  {Executor("embed_and_store", {"voyage"}, InColl \union {"documents", "embed_field"}, TRUE),
   Executor("semantic_search", {"voyage"}, InColl \union {"query"}, FALSE),
   Executor("ingest_and_embed", {"voyage"}, InColl \union {"file_path", "embed_field"}, FALSE)}
Advisers ==
  {Executor("list_skills", {}, {}, FALSE), Executor("get_skill", {}, {"name"}, FALSE),
   Executor("suggest_indexes", {"analytics"}, {}, FALSE),
   Executor("slow_queries", {"analytics"}, {}, FALSE)}
Explainers == {Executor(n, {}, {"language"}, FALSE) : n \in {"explain_last", "explain_session"}}
Transactor == {Executor("transaction_pipeline", {}, {"steps"}, TRUE)}
Pipeliner  == {Executor("pipeline", {}, {"operations"}, FALSE)}

Executors ==
  CrudReaders \union Inserters \union Updaters \union Deleters \union Administrators
  \union Commander \union Analysts \union Ingesters \union JobKeepers \union Watchers
  \union Schemas \union Generators \union Askers \union Embedders \union Advisers
  \union Explainers \union Transactor \union Pipeliner

Required(name) == (CHOOSE t \in Advertised : t.name = name).required
ExecutorOf(name) == CHOOSE e \in Executors : e.name = name
Known(name) == \E e \in Executors : e.name = name

(* The gate in read-only mode, for tools and for operations of a pipeline. *)
WriteTools ==
  {"insert", "insert_many", "update", "update_many", "delete", "delete_many",
   "create_collection", "create_index", "run_command", "transaction_pipeline"}
WriteOps == (WriteTools \ {"transaction_pipeline"}) \union {"find_and_modify"}

(* Tools whose calls analytics counts, and those the session leaves out.   *)
Counted ==
  {t.name : t \in CrudTools} \union {"aggregate", "run_command", "semantic_search", "ask",
   "explain_query", "list_databases", "list_collections", "create_collection",
   "create_index", "pipeline"}
Excluded == {"explain_last", "explain_session", "get_analytics", "collection_schema"}

(* A request: a tool, the arguments given, the operations of a pipeline,   *)
(* and of documents to embed whether they have the text.                   *)
Call(tool, given)  == [tool |-> tool, given |-> given, ops |-> <<>>, texts |-> <<>>]
Full(tool)         == Call(tool, Required(tool))
Pipeline(ops)      == [Full("pipeline") EXCEPT !.ops = ops]
Embed(texts)       == [Full("embed_and_store") EXCEPT !.texts = texts]

(* Paths lead from the call to its operations and to theirs.               *)
Paths(r) ==
  {<<>>} \union {<<i>> : i \in DOMAIN r.ops}
    \union UNION {{<<i, j>> : j \in DOMAIN r.ops[i].ops} : i \in DOMAIN r.ops}

ASSUME ToolsAssumption ==
  /\ IsFiniteSet(Clients)
  /\ \A f \in Scenes : DOMAIN f = Clients /\ \A c \in Clients : IsFiniteSet(Paths(f[c]))
  /\ Modes \subseteq BOOLEAN /\ MaxOps \in Nat \ {0}

VARIABLES
  readOnly, (* the safety configuration                                     *)
  req,      (* what each client asks for                                    *)
  reply,    (* "new", "open", "blocked", "result", "gone"                   *)
  node,     (* node[c]: the state of the operations of the call, by path    *)
  inFlight, (* operations whose effect may still come                       *)
  effects,  (* operations that have changed something                       *)
  events,   (* what analytics has counted                                   *)
  log,      (* the session: calls in the order they were recorded           *)
  before,   (* <<c, d>>: c was answered before d began                      *)
  told      (* told[c]: the calls that a script of the session repeats      *)

vars == <<readOnly, req, reply, node, inFlight, effects, events, log, before, told>>

NodeOf(c, p) ==
  CASE p = <<>> -> req[c]
    [] Len(p) = 1 -> req[c].ops[p[1]]
    [] OTHER -> req[c].ops[p[1]].ops[p[2]]
ToolOf(o) == NodeOf(o[1], o[2]).tool

Done      == {"ok", "failed", "blocked", "unknown", "missing", "disabled", "gone"}
Nodes     == UNION {{c} \X DOMAIN node[c] : c \in Clients}
At(o)     == node[o[1]][o[2]]
Children(c, p) == {q \in DOMAIN node[c] : Len(q) = Len(p) + 1 /\ \A k \in DOMAIN p : q[k] = p[k]}

TypeOK ==
  /\ req \in Scenes
  /\ reply \in [Clients -> {"new", "open", "blocked", "result", "gone"}]
  /\ \A o \in Nodes : At(o) \in Done \union {"idle", "ready", "sent", "open"}
  /\ inFlight \subseteq Nodes /\ effects \subseteq Nodes \ inFlight
  /\ events <= Cardinality(Nodes)
  /\ \A i \in DOMAIN log : log[i] \in Clients
  /\ before \subseteq Clients \X Clients

Init ==
  /\ readOnly \in Modes /\ req \in Scenes /\ reply = [c \in Clients |-> "new"]
  /\ node = [c \in Clients |-> [p \in Paths(req[c]) |-> "idle"]]
  /\ inFlight = {} /\ effects = {} /\ events = 0 /\ log = <<>>
  /\ before = {} /\ told = [c \in Clients |-> <<>>]

-----------------------------------------------------------------------------
(* A call comes in; what read-only mode forbids is answered at once.       *)
Blocks(tool) == readOnly /\ tool \in WriteTools

Begin(c) ==
  /\ reply[c] = "new"
  /\ before' = before \union {<<d, c>> : d \in {e \in Clients : reply[e] = "result"}}
  /\ IF Blocks(req[c].tool)
       THEN reply' = [reply EXCEPT ![c] = "blocked"] /\ UNCHANGED node
       ELSE /\ reply' = [reply EXCEPT ![c] = "open"]
            /\ node' = [node EXCEPT ![c][<<>>] = "ready"]
  /\ UNCHANGED <<readOnly, req, inFlight, effects, events, log, told>>

Ready(c, p) == reply[c] = "open" /\ node[c][p] = "ready"
Count(c, p) == events' = events + (IF NodeOf(c, p).tool \in Counted THEN 1 ELSE 0)

(* A pipeline with an operation that read-only mode forbids.               *)
Forbidden(r) ==
  readOnly /\ r.tool = "pipeline" /\ \E i \in DOMAIN r.ops : r.ops[i].tool \in WriteOps

(* The executor has nothing to do with the arguments it got.               *)
Refusal(r) ==
  CASE ~Known(r.tool) -> "unknown"
    [] Known(r.tool) /\ ~(ExecutorOf(r.tool).needs \subseteq Services) -> "disabled"
    [] Known(r.tool) /\ ~(ExecutorOf(r.tool).demands \subseteq r.given) -> "missing"
    [] r.tool = "transaction_pipeline" /\ Blocks(r.tool) -> "blocked"
    [] r.tool = "pipeline" /\ Len(r.ops) \notin 1 .. MaxOps -> "failed"
    [] Forbidden(r) -> "blocked"
    [] r.tool = "embed_and_store" /\ \A i \in DOMAIN r.texts : ~r.texts[i] -> "failed"
    [] r.tool \in {"explain_last", "explain_session"} /\ log = <<>> -> "failed"
    [] OTHER -> "none"

(* Fault model: the operations that are allowed are run all the same.      *)
RefusePartly(c, p) ==
  /\ Ready(c, p) /\ Refusal(NodeOf(c, p)) # "none"
  /\ node' = [node EXCEPT ![c] = [q \in DOMAIN @ |->
                IF q = p THEN Refusal(NodeOf(c, p))
                ELSE IF q \in Children(c, p) /\ NodeOf(c, q).tool \notin WriteOps THEN "ready"
                ELSE @[q]]]
  /\ Count(c, p)
  /\ UNCHANGED <<readOnly, req, reply, inFlight, effects, log, before, told>>

Refuse(c, p) ==
  /\ Ready(c, p) /\ Refusal(NodeOf(c, p)) # "none"
  /\ node' = [node EXCEPT ![c][p] = Refusal(NodeOf(c, p))] /\ Count(c, p)
  /\ UNCHANGED <<readOnly, req, reply, inFlight, effects, log, before, told>>

(* A pipeline that passes starts all of its operations.                    *)
Open(c, p) ==
  /\ Ready(c, p) /\ NodeOf(c, p).tool = "pipeline" /\ Refusal(NodeOf(c, p)) = "none"
  /\ node' = [node EXCEPT ![c] = [q \in DOMAIN @ |->
                IF q = p THEN "open" ELSE IF q \in Children(c, p) THEN "ready" ELSE @[q]]]
  /\ UNCHANGED <<readOnly, req, reply, inFlight, effects, events, log, before, told>>

(* Fault model: failed calls are repeated too.                             *)
SucceededOrNot(cs) == cs

(* The scripts of the session: of all that succeeded, each at the place it *)
(* has in the record, or of the last.                                      *)
Succeeded(cs) == [i \in {j \in DOMAIN cs : node[cs[j]][<<>>] = "ok"} |-> cs[i]]
Explain(c, p) ==
  /\ Ready(c, p) /\ NodeOf(c, p).tool \in {"explain_last", "explain_session"}
  /\ Refusal(NodeOf(c, p)) = "none"
  /\ told' = [told EXCEPT ![c] =
       IF NodeOf(c, p).tool = "explain_last" THEN <<log[Len(log)]>> ELSE Succeeded(log)]
  /\ node' = [node EXCEPT ![c][p] = "ok"] /\ Count(c, p)
  /\ UNCHANGED <<readOnly, req, reply, inFlight, effects, log, before>>

Composite == {"pipeline", "explain_last", "explain_session"}
Send(c, p) ==
  /\ Ready(c, p) /\ NodeOf(c, p).tool \notin Composite /\ Refusal(NodeOf(c, p)) = "none"
  /\ node' = [node EXCEPT ![c][p] = "sent"]
  /\ inFlight' = inFlight \union
       (IF ExecutorOf(NodeOf(c, p).tool).writes THEN {<<c, p>>} ELSE {})
  /\ UNCHANGED <<readOnly, req, reply, effects, events, log, before, told>>

(* What the tool changes, external.                                        *)
TakeEffect(o) ==
  /\ o \in inFlight /\ inFlight' = inFlight \ {o}
  /\ effects' = effects \union {o}
  /\ UNCHANGED <<readOnly, req, reply, node, events, log, before, told>>

Answer(c, p) ==
  /\ reply[c] = "open" /\ node[c][p] = "sent"
  /\ \E s \in {"ok", "failed"} :
       /\ s = "ok" /\ ExecutorOf(NodeOf(c, p).tool).writes => <<c, p>> \in effects
       /\ node' = [node EXCEPT ![c][p] = s]
  /\ Count(c, p)
  /\ UNCHANGED <<readOnly, req, reply, inFlight, effects, log, before, told>>

(* All operations of a pipeline have a result: it is a success, whatever   *)
(* they are.                                                               *)
Close(c, p) ==
  /\ reply[c] = "open" /\ node[c][p] = "open"
  /\ \A q \in Children(c, p) : node[c][q] \in Done
  /\ node' = [node EXCEPT ![c][p] = "ok"] /\ Count(c, p)
  /\ UNCHANGED <<readOnly, req, reply, inFlight, effects, log, before, told>>

(* The call is recorded, successful or not, and answered.                  *)
Finish(c) ==
  /\ reply[c] = "open" /\ node[c][<<>>] \in Done
  /\ reply' = [reply EXCEPT ![c] = "result"]
  /\ log' = IF req[c].tool \in Excluded THEN log ELSE Append(log, c)
  /\ UNCHANGED <<readOnly, req, node, inFlight, effects, events, before, told>>

(* A client of the HTTP server leaves; its call is dropped with all that   *)
(* it still had to do.                                                     *)
Leave(c) ==
  /\ reply[c] = "open" /\ reply' = [reply EXCEPT ![c] = "gone"]
  /\ node' = [node EXCEPT ![c] = [p \in DOMAIN @ |-> IF @[p] \in Done THEN @[p] ELSE "gone"]]
  /\ UNCHANGED <<readOnly, req, inFlight, effects, events, log, before, told>>

Step(c) ==
  \/ Finish(c)
  \/ \E p \in DOMAIN node[c] :
       Refuse(c, p) \/ Open(c, p) \/ Explain(c, p) \/ Send(c, p) \/ Answer(c, p) \/ Close(c, p)

Next ==
  \/ \E c \in Clients : Begin(c) \/ Step(c) \/ Leave(c)
  \/ \E o \in inFlight : TakeEffect(o)

Spec == Init /\ [][Next]_vars

(* The runtime polls a call that can go on; what it awaits answers, if     *)
(* only with a time-out.                                                   *)
FairSpec == Spec /\ \A c \in Clients : WF_vars(Step(c))

-----------------------------------------------------------------------------
(* Properties.                                                             *)

(* Read-only mode: no tool it lists changes anything, by whatever way the  *)
(* call came, directly, in a pipeline or in a pipeline of a pipeline.      *)
ReadOnlyHolds == readOnly => \A o \in effects : ToolOf(o) \notin WriteTools

(* A pipeline that is rejected has run nothing, not even what is allowed.  *)
AllOrNothing ==
  \A o \in Nodes : ToolOf(o) = "pipeline" /\ At(o) = "blocked" =>
    \A q \in Children(o[1], o[2]) :
      node[o[1]][q] \in {"idle", "gone"} /\ <<o[1], q>> \notin effects \union inFlight

(* A call with the arguments its definition requires is not turned away    *)
(* for one that is missing, and every tool advertised is known.  (ask and  *)
(* explain_query insist on a collection their definitions leave open.)     *)
AdvertisedWorks ==
  \A o \in Nodes : ToolOf(o) \in {t.name : t \in Advertised} \ {"ask", "explain_query"} =>
    /\ At(o) # "unknown"
    /\ At(o) = "missing" => ~(Required(ToolOf(o)) \subseteq NodeOf(o[1], o[2]).given)

(* Together: the three tables of tools agree, and none of them lets a      *)
(* pipeline round the gate.                                                *)
GateHolds == TypeOK /\ ReadOnlyHolds /\ AllOrNothing /\ AdvertisedWorks

(* Analytics counts each operation that came to an end, within a pipeline  *)
(* too, and the pipeline itself: no more, no less.                         *)
EventsTally ==
  events = Cardinality({o \in Nodes : At(o) \in Done \ {"gone"} /\ ToolOf(o) \in Counted})

(* The session has every call answered, and no other, once, and a call     *)
(* that was answered before another began comes before it.                 *)
SessionInOrder ==
  /\ {log[i] : i \in DOMAIN log} =
       {c \in Clients : reply[c] = "result" /\ req[c].tool \notin Excluded}
  /\ \A i, j \in DOMAIN log : i < j => log[i] # log[j] /\ <<log[j], log[i]>> \notin before

(* A script of the session has all that succeeded before it was asked for, *)
(* and each of its steps that changes something has.                       *)
ScriptTrue ==
  \A c \in Clients : req[c].tool = "explain_session" /\ node[c][<<>>] = "ok" =>
    LET script == {told[c][i] : i \in DOMAIN told[c]} IN
    /\ \A d \in Clients : <<d, c>> \in before /\ req[d].tool \notin Excluded /\ node[d][<<>>] = "ok"
                            => d \in script
    /\ \A d \in script : ExecutorOf(req[d].tool).writes => <<d, <<>>>> \in effects

(* Together: what analytics, the session and its script say of the calls of*)
(* all clients is what happened.                                           *)
SessionTrue == EventsTally /\ SessionInOrder /\ ScriptTrue

(* Every call is answered, and none begins twice.                          *)
EveryCallAnswered == <>[](\A c \in Clients : reply[c] # "open")
=============================================================================
