--------------------------- MODULE McpTools_proof ---------------------------
(***************************************************************************)
(* Proofs about McpTools, for every finite set of clients, every scene of  *)
(* finite requests, either mode and any number of pipelines.               *)
(***************************************************************************)
EXTENDS McpTools, SequenceTheorems, FiniteSetTheorems, TLAPS

-----------------------------------------------------------------------------
(* The tables of tools.  An executor asks for nothing its definition does  *)
(* not require, but for two of them; and those whose calls consist of other*)
(* calls, or of a look at the session, change nothing themselves.          *)
LEMMA Chosen ==
  /\ \A n : Known(n) => ExecutorOf(n) \in Executors /\ ExecutorOf(n).name = n
  /\ \A t \in Advertised : \E u \in Advertised : u.name = t.name /\ Required(t.name) = u.required
BY DEF Known, ExecutorOf, Required

LEMMA Demanded ==
  \A t \in Advertised, e \in Executors :
    e.name = t.name /\ t.name \notin {"ask", "explain_query"} => e.demands \subseteq t.required
<1> USE DEF Executors, CrudReaders, Inserters, Updaters, Deleters, Administrators, Commander, Analysts,
   Ingesters, JobKeepers, Watchers, Schemas, Generators, Askers, Embedders, Advisers, Explainers,
   Transactor, Pipeliner, Executor, Tool, InDb, InColl
<1>1. \A t \in CrudTools, e \in Executors : e.name = t.name => e.demands \subseteq t.required
  BY DEF CrudTools
<1>2. \A t \in AdminTools, e \in Executors : e.name = t.name => e.demands \subseteq t.required
  BY DEF AdminTools
<1>3. \A t \in IngestTools, e \in Executors : e.name = t.name => e.demands \subseteq t.required
  BY DEF IngestTools
<1>4. \A t \in QueryTools, e \in Executors :
        e.name = t.name /\ t.name \notin {"ask", "explain_query"} => e.demands \subseteq t.required
  BY DEF QueryTools
<1>5. \A t \in OtherTools, e \in Executors : e.name = t.name => e.demands \subseteq t.required
  BY DEF OtherTools
<1> QED
  BY <1>1, <1>2, <1>3, <1>4, <1>5 DEF Advertised

LEMMA Executed == \A t \in Advertised : Known(t.name)
<1>1. \A G : G \subseteq Executors => \A n : (\E e \in G : e.name = n) => Known(n)
  BY DEF Known
<1>2. \A n \in {"find", "find_one"} : Known(n)
  <2>1. \A n \in {"find", "find_one"} : \E e \in CrudReaders : e.name = n
    BY DEF CrudReaders, Executor
  <2>2. CrudReaders \subseteq Executors
    BY DEF Executors
  <2> QED
    BY <1>1, <2>1, <2>2
<1>3. \A n \in {"insert", "insert_many"} : Known(n)
  <2>1. \A n \in {"insert", "insert_many"} : \E e \in Inserters : e.name = n
    BY DEF Inserters, Executor
  <2>2. Inserters \subseteq Executors
    BY DEF Executors
  <2> QED
    BY <1>1, <2>1, <2>2
<1>4. \A n \in {"update", "update_many"} : Known(n)
  <2>1. \A n \in {"update", "update_many"} : \E e \in Updaters : e.name = n
    <3>1. \A n \in {"update", "update_many"} :
            Executor(n, {}, InColl \union {"filter", "update"}, TRUE) \in Updaters
      BY DEF Updaters
    <3>2. \A n : Executor(n, {}, InColl \union {"filter", "update"}, TRUE).name = n
      BY DEF Executor
    <3> QED
      BY <3>1, <3>2
  <2>2. Updaters \subseteq Executors
    BY DEF Executors
  <2> QED
    BY <1>1, <2>1, <2>2
<1>5. \A n \in {"delete", "delete_many"} : Known(n)
  <2>1. \A n \in {"delete", "delete_many"} : \E e \in Deleters : e.name = n
    <3>1. \A n \in {"delete", "delete_many"} :
            Executor(n, {}, InColl \union {"filter"}, TRUE) \in Deleters
      BY DEF Deleters
    <3>2. \A n : Executor(n, {}, InColl \union {"filter"}, TRUE).name = n
      BY DEF Executor
    <3> QED
      BY <3>1, <3>2
  <2>2. Deleters \subseteq Executors
    BY DEF Executors
  <2> QED
    BY <1>1, <2>1, <2>2
<1>6. \A n \in {"aggregate", "create_collection", "create_index", "list_databases", "list_collections"} : Known(n)
  <2>1. \A n \in {"aggregate", "create_collection", "create_index", "list_databases", "list_collections"} :
          \E e \in Administrators : e.name = n
    BY DEF Administrators, Executor
  <2>2. Administrators \subseteq Executors
    BY DEF Executors
  <2> QED
    BY <1>1, <2>1, <2>2
<1>7. \A n \in {"run_command"} : Known(n)
  <2>1. \A n \in {"run_command"} : \E e \in Commander : e.name = n
    BY DEF Commander, Executor
  <2>2. Commander \subseteq Executors
    BY DEF Executors
  <2> QED
    BY <1>1, <2>1, <2>2
<1>8. \A n \in {"get_analytics"} : Known(n)
  <2>1. \A n \in {"get_analytics"} : \E e \in Analysts : e.name = n
    BY DEF Analysts, Executor
  <2>2. Analysts \subseteq Executors
    BY DEF Executors
  <2> QED
    BY <1>1, <2>1, <2>2
<1>9. \A n \in {"ingest"} : Known(n)
  <2>1. \A n \in {"ingest"} : \E e \in Ingesters : e.name = n
    BY DEF Ingesters, Executor
  <2>2. Ingesters \subseteq Executors
    BY DEF Executors
  <2> QED
    BY <1>1, <2>1, <2>2
<1>10. \A n \in {"ingest_status", "list_ingest_jobs", "cancel_ingest"} : Known(n)
  <2>1. \A n \in {"ingest_status", "list_ingest_jobs", "cancel_ingest"} : \E e \in JobKeepers : e.name = n
    BY DEF JobKeepers, Executor
  <2>2. JobKeepers \subseteq Executors
    BY DEF Executors
  <2> QED
    BY <1>1, <2>1, <2>2
<1>11. \A n \in {"watch_directory", "stop_watch"} : Known(n)
  <2>1. \A n \in {"watch_directory", "stop_watch"} : \E e \in Watchers : e.name = n
    BY DEF Watchers, Executor
  <2>2. Watchers \subseteq Executors
    BY DEF Executors
  <2> QED
    BY <1>1, <2>1, <2>2
<1>12. \A n \in {"collection_schema"} : Known(n)
  <2>1. \A n \in {"collection_schema"} : \E e \in Schemas : e.name = n
    BY DEF Schemas, Executor
  <2>2. Schemas \subseteq Executors
    BY DEF Executors
  <2> QED
    BY <1>1, <2>1, <2>2
<1>13. \A n \in {"generate_code", "generate_model", "generate_index"} : Known(n)
  <2>1. \A n \in {"generate_code", "generate_model", "generate_index"} : \E e \in Generators : e.name = n
    BY DEF Generators, Executor
  <2>2. Generators \subseteq Executors
    BY DEF Executors
  <2> QED
    BY <1>1, <2>1, <2>2
<1>14. \A n \in {"ask", "explain_query"} : Known(n)
  <2>1. \A n \in {"ask", "explain_query"} : \E e \in Askers : e.name = n
    <3>1. \A n \in {"ask", "explain_query"} :
            Executor(n, {"translator"}, InColl \union {"question"}, FALSE) \in Askers
      BY DEF Askers
    <3>2. \A n : Executor(n, {"translator"}, InColl \union {"question"}, FALSE).name = n
      BY DEF Executor
    <3> QED
      BY <3>1, <3>2
  <2>2. Askers \subseteq Executors
    BY DEF Executors
  <2> QED
    BY <1>1, <2>1, <2>2
<1>15. \A n \in {"embed_and_store", "semantic_search", "ingest_and_embed"} : Known(n)
  <2>1. \A n \in {"embed_and_store", "semantic_search", "ingest_and_embed"} : \E e \in Embedders : e.name = n
    BY DEF Embedders, Executor
  <2>2. Embedders \subseteq Executors
    BY DEF Executors
  <2> QED
    BY <1>1, <2>1, <2>2
<1>16. \A n \in {"list_skills", "get_skill", "suggest_indexes", "slow_queries"} : Known(n)
  <2>1. \A n \in {"list_skills", "get_skill", "suggest_indexes", "slow_queries"} : \E e \in Advisers : e.name = n
    BY DEF Advisers, Executor
  <2>2. Advisers \subseteq Executors
    BY DEF Executors
  <2> QED
    BY <1>1, <2>1, <2>2
<1>17. \A n \in {"explain_last", "explain_session"} : Known(n)
  <2>1. \A n \in {"explain_last", "explain_session"} : \E e \in Explainers : e.name = n
    <3>1. \A n \in {"explain_last", "explain_session"} :
            Executor(n, {}, {"language"}, FALSE) \in Explainers
      BY DEF Explainers
    <3>2. \A n : Executor(n, {}, {"language"}, FALSE).name = n
      BY DEF Executor
    <3> QED
      BY <3>1, <3>2
  <2>2. Explainers \subseteq Executors
    BY DEF Executors
  <2> QED
    BY <1>1, <2>1, <2>2
<1>18. \A n \in {"transaction_pipeline"} : Known(n)
  <2>1. \A n \in {"transaction_pipeline"} : \E e \in Transactor : e.name = n
    BY DEF Transactor, Executor
  <2>2. Transactor \subseteq Executors
    BY DEF Executors
  <2> QED
    BY <1>1, <2>1, <2>2
<1>19. \A n \in {"pipeline"} : Known(n)
  <2>1. \A n \in {"pipeline"} : \E e \in Pipeliner : e.name = n
    BY DEF Pipeliner, Executor
  <2>2. Pipeliner \subseteq Executors
    BY DEF Executors
  <2> QED
    BY <1>1, <2>1, <2>2
<1> QED
  BY <1>2, <1>3, <1>4, <1>5, <1>6, <1>7, <1>8, <1>9, <1>10, <1>11,
     <1>12, <1>13, <1>14, <1>15, <1>16, <1>17, <1>18, <1>19
  DEF Advertised, CrudTools, AdminTools, IngestTools, QueryTools, OtherTools, Tool

LEMMA CompositesOnlyRead == \A e \in Executors : e.name \in Composite => ~e.writes
BY DEF Composite, Executors, CrudReaders, Inserters, Updaters, Deleters, Administrators, Commander, Analysts,
   Ingesters, JobKeepers, Watchers, Schemas, Generators, Askers, Embedders, Advisers, Explainers,
   Transactor, Pipeliner, Executor

LEMMA KnownComposites == \A n \in Composite : Known(n)
<1>1. /\ Tool("pipeline", {"operations"}) \in Advertised
      /\ \A n \in {"explain_last", "explain_session"} : Tool(n, {"language"}) \in Advertised
  BY DEF Advertised, QueryTools, OtherTools
<1>2. \A n, q : Tool(n, q).name = n
  BY DEF Tool
<1> QED
  BY <1>1, <1>2, Executed DEF Composite


(* The last element of a sequence, and the rest of it.                     *)
LEMMA Appended ==
  ASSUME NEW E, NEW s \in Seq(E), NEW e \in E
  PROVE  /\ Append(s, e) \in Seq(E) /\ Len(s) \in Nat /\ Len(Append(s, e)) = Len(s) + 1
         /\ DOMAIN Append(s, e) = DOMAIN s \union {Len(s) + 1} /\ DOMAIN s = 1 .. Len(s)
         /\ Append(s, e)[Len(s) + 1] = e /\ Len(s) + 1 \notin DOMAIN s
         /\ \A i \in DOMAIN s : Append(s, e)[i] = s[i]
OBVIOUS
-----------------------------------------------------------------------------
(* Calls of tools.  The state of a call is a function on its paths.        *)
P(c)      == Paths(req[c])
Live(s)   == s \notin {"idle", "gone"}
Begun(c, p) == <<c, p>> \in inFlight \union effects
ChildOf(p, q) == Len(q) = Len(p) + 1 /\ \A k \in DOMAIN p : q[k] = p[k]

Shape ==
  /\ req \in Scenes /\ readOnly \in BOOLEAN /\ events \in Nat
  /\ reply \in [Clients -> {"new", "open", "blocked", "result", "gone"}]
  /\ DOMAIN node = Clients /\ DOMAIN told = Clients /\ log \in Seq(Clients)
  /\ before \subseteq Clients \X Clients
  /\ \A c \in Clients :
       /\ DOMAIN node[c] = P(c)
       /\ \A p \in P(c) : node[c][p] \in Done \union {"idle", "ready", "sent", "open"}

(* Nothing happens to a call that has not begun or was turned away; and    *)
(* what an operation changes, it changes once it was sent.                 *)
Unopened ==
  \A c \in Clients : reply[c] \in {"new", "blocked"} => \A p \in P(c) : node[c][p] = "idle"
Here == \A c \in Clients : reply[c] = "open" => \A p \in P(c) : node[c][p] # "gone"
EffectsSent ==
  /\ inFlight \intersect effects = {}
  /\ \A o \in inFlight \union effects : \E c \in Clients : \E p \in P(c) :
       o = <<c, p>> /\ node[c][p] \notin {"idle", "ready"}

(* An operation goes on only within a pipeline that has opened.            *)
Nested ==
  \A c \in Clients : \A p, q \in P(c) : ChildOf(p, q) /\ (Live(node[c][q]) \/ Begun(c, q)) =>
    NodeOf(c, p).tool = "pipeline" /\ node[c][p] \in {"open", "ok", "gone"}
Rooted ==
  \A c \in Clients : \A q \in P(c) : q # <<>> /\ Live(node[c][q]) => req[c].tool = "pipeline"

(* What read-only mode forbids is not ready, but for a transactional       *)
(* pipeline, which its executor looks at again; and changes nothing.       *)
Allowed ==
  readOnly => \A c \in Clients : \A p \in P(c) :
    /\ node[c][p] = "ready" => NodeOf(c, p).tool \notin WriteTools \ {"transaction_pipeline"}
    /\ Begun(c, p) => NodeOf(c, p).tool \notin WriteTools

(* What the state of an operation says of it.                              *)
Says(n, o, E, s) ==
  /\ s = "unknown" => ~Known(n.tool)
  /\ s = "missing" => ~(ExecutorOf(n.tool).demands \subseteq n.given)
  /\ s = "sent" => n.tool \notin Composite
  /\ s = "open" => n.tool = "pipeline"
  /\ s = "ok" /\ ExecutorOf(n.tool).writes => o \in E
Told == \A c \in Clients : \A p \in P(c) : Says(NodeOf(c, p), <<c, p>>, effects, node[c][p])

Ended(c, p) == node[c][p] \in Done \ {"gone"} /\ NodeOf(c, p).tool \in Counted
Tallied == {o \in Clients \X UNION {P(c) : c \in Clients} : o[2] \in P(o[1]) /\ Ended(o[1], o[2])}
Tally   == IsFiniteSet(Tallied) /\ events = Cardinality(Tallied)

Recorded ==
  /\ SessionInOrder
  /\ \A c, d \in Clients : <<d, c>> \in before => reply[d] = "result" /\ reply[c] # "new"
  /\ \A c \in Clients : reply[c] = "result" => node[c][<<>>] \in Done

ToolsInv ==
  /\ Shape /\ Unopened /\ Here /\ EffectsSent /\ Nested /\ Rooted /\ Allowed /\ Told
  /\ Tally /\ Recorded /\ ScriptTrue

LEMMA PathLengths ==
  ASSUME NEW r, NEW p \in Paths(r) PROVE Len(p) \in Nat /\ (Len(p) = 0 <=> p = <<>>)
BY DEF Paths

LEMMA RootIsPath == \A r : <<>> \in Paths(r)
BY DEF Paths

LEMMA SaysMore ==
  \A n, o, s : \A E, F : E \subseteq F /\ Says(n, o, E, s) => Says(n, o, F, s)
BY DEF Says

(* The request never changes, so neither do its paths and operations.      *)
LEMMA SameRequest ==
  ASSUME req' = req
  PROVE  (\A c : P(c)' = P(c)) /\ (\A c, p : NodeOf(c, p)' = NodeOf(c, p))
BY DEF P, NodeOf

(* An operation that is under way takes its next state, and nothing else   *)
(* happens to any other.                                                   *)
Change(c, p, s) ==
  /\ node' = [node EXCEPT ![c][p] = s]
  /\ UNCHANGED <<readOnly, req, reply, effects, log, before>>
  /\ DOMAIN told' = Clients
  /\ \/ inFlight' = inFlight
     \/ /\ inFlight' = inFlight \union {<<c, p>>} /\ s = "sent" /\ node[c][p] = "ready"
        /\ readOnly => NodeOf(c, p).tool \notin WriteTools
  /\ events' = events + (IF s # "sent" /\ NodeOf(c, p).tool \in Counted THEN 1 ELSE 0)

LEMMA Changes ==
  ASSUME ToolsInv, NEW c \in Clients, NEW p \in P(c), NEW s \in (Done \ {"gone"}) \union {"sent"},
         reply[c] = "open", node[c][p] \in {"ready", "sent", "open"}, node[c][p] = "open" => s = "ok",
         Says(NodeOf(c, p), <<c, p>>, effects, s), Change(c, p, s)
  PROVE  /\ Shape' /\ Unopened' /\ Here' /\ EffectsSent' /\ Nested' /\ Rooted' /\ Allowed' /\ Told'
         /\ Tally' /\ Recorded'
<1>1. (\A d : P(d)' = P(d)) /\ (\A d, q : NodeOf(d, q)' = NodeOf(d, q))
  BY SameRequest DEF Change
<1>2. Shape /\ DOMAIN node = Clients /\ \A d \in Clients : DOMAIN node[d] = P(d)
  BY DEF ToolsInv, Shape
<1>3. /\ DOMAIN node' = Clients
      /\ \A d \in Clients : DOMAIN node'[d] = P(d) /\
           \A q \in P(d) : node'[d][q] = IF d = c /\ q = p THEN s ELSE node[d][q]
  BY <1>2 DEF Change
<1>4. /\ UNCHANGED <<readOnly, req, reply, effects, log, before>> /\ inFlight \subseteq inFlight'
      /\ \A d, q : Begun(d, q)' => Begun(d, q) \/ (d = c /\ q = p)
      /\ \A o : o \in inFlight' => o \in inFlight \/
                (o = <<c, p>> /\ s = "sent" /\ node[c][p] = "ready" /\ (readOnly => NodeOf(c, p).tool \notin WriteTools))
  BY DEF Change, Begun
<1>5. s \notin {"idle", "ready", "open", "gone"} /\ node[c][p] \notin Done
  BY DEF Done
<1>6. Shape'
  <2>1. events' \in Nat
    BY <1>2 DEF Change, Shape
  <2>2. DOMAIN told' = Clients
    BY DEF Change
  <2> QED
    BY <1>1, <1>2, <1>3, <1>4, <2>1, <2>2 DEF Shape
<1>7. Unopened'
  <2>1. Unopened
    BY DEF ToolsInv
  <2> QED
    BY <1>1, <1>3, <1>4, <2>1 DEF Unopened
<1>15. Here'
  BY <1>1, <1>3, <1>4, <1>5 DEF ToolsInv, Here
<1>8. EffectsSent'
  <2>1. EffectsSent
    BY DEF ToolsInv
  <2>2. node[c][p] = "ready" => <<c, p>> \notin inFlight \union effects
    BY <2>1 DEF EffectsSent
  <2>3. inFlight' \intersect effects' = {}
    BY <1>4, <2>1, <2>2 DEF EffectsSent
  <2>4. ASSUME NEW o \in inFlight' \union effects'
        PROVE  \E d \in Clients : \E q \in P(d) : o = <<d, q>> /\ node'[d][q] \notin {"idle", "ready"}
    <3>1. CASE o = <<c, p>>
      BY <1>3, <1>5, <3>1
    <3>2. CASE o # <<c, p>>
      <4>1. PICK d \in Clients : \E q \in P(d) : o = <<d, q>> /\ node[d][q] \notin {"idle", "ready"}
        BY <1>4, <2>1, <2>4, <3>2 DEF EffectsSent
      <4> QED
        BY <1>3, <3>2, <4>1
    <3> QED
      BY <3>1, <3>2
  <2> QED
    BY <1>1, <2>3, <2>4 DEF EffectsSent
<1>9. Nested'
  <2> SUFFICES ASSUME NEW d \in Clients, NEW g \in P(d), NEW q \in P(d),
                      ChildOf(g, q), Live(node'[d][q]) \/ Begun(d, q)'
               PROVE  NodeOf(d, g).tool = "pipeline" /\ node'[d][g] \in {"open", "ok", "gone"}
    BY <1>1 DEF Nested
  <2>1. g # q
    BY PathLengths DEF ChildOf, P
  <2>2. Live(node[d][q]) \/ Begun(d, q)
    BY <1>3, <1>4 DEF Live
  <2>3. NodeOf(d, g).tool = "pipeline" /\ node[d][g] \in {"open", "ok", "gone"}
    BY <2>2 DEF ToolsInv, Nested
  <2> QED
    BY <1>3, <2>3
<1>10. Rooted'
  BY <1>1, <1>3, <1>4, <1>5 DEF ToolsInv, Rooted, Live
<1>11. Allowed'
  <2> SUFFICES ASSUME readOnly, NEW d \in Clients, NEW q \in P(d)
               PROVE  /\ node'[d][q] = "ready" => NodeOf(d, q).tool \notin WriteTools \ {"transaction_pipeline"}
                      /\ Begun(d, q)' => NodeOf(d, q).tool \notin WriteTools
    BY <1>1, <1>4 DEF Allowed
  <2>1. /\ node[d][q] = "ready" => NodeOf(d, q).tool \notin WriteTools \ {"transaction_pipeline"}
        /\ Begun(d, q) => NodeOf(d, q).tool \notin WriteTools
    BY DEF ToolsInv, Allowed
  <2>2. Begun(d, q)' => Begun(d, q) \/ (d = c /\ q = p /\ NodeOf(c, p).tool \notin WriteTools)
    BY <1>4 DEF Begun
  <2> QED
    BY <1>3, <1>5, <2>1, <2>2
<1>12. Told'
  <2>1. Told
    BY DEF ToolsInv
  <2> SUFFICES ASSUME NEW d \in Clients, NEW q \in P(d)
               PROVE  Says(NodeOf(d, q), <<d, q>>, effects, node'[d][q])
    BY <1>1, <1>4 DEF Told
  <2> QED
    BY <1>3, <2>1 DEF Told
<1>13. Tally'
  <2>1. IsFiniteSet(Tallied) /\ events = Cardinality(Tallied)
    BY DEF ToolsInv, Tally
  <2>2. ~Ended(c, p) /\ (Ended(c, p)' <=> s # "sent" /\ NodeOf(c, p).tool \in Counted)
    BY <1>1, <1>3, <1>5 DEF Ended, Done
  <2>3. \A d \in Clients : \A q \in P(d) : (d # c \/ q # p) => (Ended(d, q)' <=> Ended(d, q))
    BY <1>1, <1>3 DEF Ended
  <2>4. Tallied' = IF s # "sent" /\ NodeOf(c, p).tool \in Counted THEN Tallied \union {<<c, p>>} ELSE Tallied
    BY <1>1, <2>2, <2>3 DEF Tallied
  <2>5. <<c, p>> \notin Tallied
    BY <2>2 DEF Tallied
  <2>6. IsFiniteSet(Tallied \union {<<c, p>>}) /\ Cardinality(Tallied \union {<<c, p>>}) = Cardinality(Tallied) + 1
    BY <2>1, <2>5, FS_AddElement
  <2>7. events' = events + (IF s # "sent" /\ NodeOf(c, p).tool \in Counted THEN 1 ELSE 0)
    BY DEF Change
  <2>8. events \in Nat
    BY <1>2 DEF Shape
  <2> QED
    BY <2>1, <2>4, <2>6, <2>7, <2>8 DEF Tally
<1>14. Recorded'
  <2>1. Recorded /\ \A d \in Clients : <<>> \in P(d)
    BY RootIsPath DEF ToolsInv, P
  <2>2. \A d \in Clients : reply[d] = "result" => d # c /\ node'[d][<<>>] \in Done
    BY <1>3, <2>1 DEF Recorded
  <2> QED
    BY <1>4, <2>1, <2>2 DEF Recorded, SessionInOrder
<1> QED
  BY <1>6, <1>7, <1>8, <1>9, <1>10, <1>11,
     <1>12, <1>13, <1>14, <1>15

(* Scripts that were made stay true when nothing they repeat can change.   *)
LEMMA ScriptsKept ==
  ASSUME ToolsInv, NEW c \in Clients, NEW p \in P(c), NEW s,
         reply[c] = "open", req[c].tool = "explain_session" /\ p = <<>> => s # "ok", Change(c, p, s), told' = told
  PROVE  ScriptTrue'
<1>1. Shape /\ DOMAIN node = Clients /\ \A d \in Clients : DOMAIN node[d] = P(d) /\ <<>> \in P(d)
  BY RootIsPath DEF ToolsInv, Shape, P
<1>2. \A d \in Clients : node'[d][<<>>] = IF d = c /\ <<>> = p THEN s ELSE node[d][<<>>]
  BY <1>1 DEF Change
<1>3. \A d, e \in Clients : <<d, e>> \in before => reply[d] = "result"
  BY DEF ToolsInv, Recorded
<1>4. UNCHANGED <<req, effects, before>>
  BY DEF Change
<1>5. ScriptTrue
  BY DEF ToolsInv
<1> QED
  BY <1>2, <1>3, <1>4, <1>5 DEF ScriptTrue

(* What an executor refuses is as its refusal says, and what it does not   *)
(* refuse it may do.                                                       *)
LEMMA Refusals ==
  ASSUME NEW n, NEW o, NEW E
  PROVE  /\ Refusal(n) # "none" => Refusal(n) \in Done \ {"gone", "ok"} /\ Says(n, o, E, Refusal(n))
         /\ Refusal(n) = "none" => Known(n.tool) /\ ~Forbidden(n)
                                   /\ (n.tool = "transaction_pipeline" => ~Blocks(n.tool))
<1>1. CASE Refusal(n) = "none"
  BY <1>1 DEF Refusal
<1>2. CASE Refusal(n) # "none"
  <2>1. Refusal(n) \in {"unknown", "disabled", "missing", "blocked", "failed"}
    BY <1>2 DEF Refusal
  <2>2. Refusal(n) = "unknown" => ~Known(n.tool)
    BY DEF Refusal
  <2>3. Refusal(n) = "missing" => ~(ExecutorOf(n.tool).demands \subseteq n.given)
    BY DEF Refusal
  <2> QED
    BY <1>2, <2>1, <2>2, <2>3 DEF Says, Done
<1> QED
  BY <1>1, <1>2

LEMMA ReadOnlyComposites == \A n : Known(n) /\ n \in Composite => ~ExecutorOf(n).writes
BY Chosen, CompositesOnlyRead

LEMMA ToolRefuse == ASSUME ToolsInv, NEW c \in Clients, NEW p \in P(c), Refuse(c, p) PROVE ToolsInv'
<1> DEFINE s == Refusal(NodeOf(c, p))
<1>1. s \in Done \ {"gone", "ok"} /\ Says(NodeOf(c, p), <<c, p>>, effects, s)
  BY Refusals DEF Refuse
<1>2. s # "sent"
  BY <1>1 DEF Done
<1>3. reply[c] = "open" /\ node[c][p] = "ready" /\ node' = [node EXCEPT ![c][p] = s]
      /\ Count(c, p) /\ UNCHANGED <<readOnly, req, reply, inFlight, effects, log, before, told>>
  BY DEF Refuse, Ready
<1>4. DOMAIN told = Clients
  BY DEF ToolsInv, Shape
<1> HIDE DEF s
<1>5. Change(c, p, s)
  BY <1>2, <1>3, <1>4 DEF Change, Count
<1> QED
  BY <1>1, <1>3, <1>5, Changes, ScriptsKept DEF ToolsInv

LEMMA ToolSend == ASSUME ToolsInv, NEW c \in Clients, NEW p \in P(c), Send(c, p) PROVE ToolsInv'
<1>1. /\ reply[c] = "open" /\ node[c][p] = "ready" /\ node' = [node EXCEPT ![c][p] = "sent"]
      /\ NodeOf(c, p).tool \notin Composite /\ Refusal(NodeOf(c, p)) = "none"
      /\ inFlight' = inFlight \union (IF ExecutorOf(NodeOf(c, p).tool).writes THEN {<<c, p>>} ELSE {})
      /\ UNCHANGED <<readOnly, req, reply, effects, events, log, before, told>>
  BY DEF Send, Ready
<1>2. DOMAIN told = Clients /\ events \in Nat
  BY DEF ToolsInv, Shape
<1>3. readOnly => NodeOf(c, p).tool \notin WriteTools
  <2>1. readOnly => NodeOf(c, p).tool \notin WriteTools \ {"transaction_pipeline"}
    BY <1>1 DEF ToolsInv, Allowed
  <2>2. NodeOf(c, p).tool = "transaction_pipeline" => ~Blocks(NodeOf(c, p).tool)
    BY <1>1, Refusals
  <2> QED
    BY <2>1, <2>2 DEF Blocks, WriteTools
<1>4. inFlight' = inFlight \/ inFlight' = inFlight \union {<<c, p>>}
  BY <1>1
<1>5. Change(c, p, "sent")
  BY <1>1, <1>2, <1>3, <1>4 DEF Change
<1>6. Says(NodeOf(c, p), <<c, p>>, effects, "sent")
  BY <1>1 DEF Says
<1> QED
  BY <1>1, <1>5, <1>6, Changes, ScriptsKept DEF ToolsInv

LEMMA ToolAnswer == ASSUME ToolsInv, NEW c \in Clients, NEW p \in P(c), Answer(c, p) PROVE ToolsInv'
<1>1. PICK s \in {"ok", "failed"} :
        /\ s = "ok" /\ ExecutorOf(NodeOf(c, p).tool).writes => <<c, p>> \in effects
        /\ node' = [node EXCEPT ![c][p] = s]
  BY DEF Answer
<1>2. /\ reply[c] = "open" /\ node[c][p] = "sent" /\ Count(c, p)
      /\ UNCHANGED <<readOnly, req, reply, inFlight, effects, log, before, told>>
  BY DEF Answer
<1>3. DOMAIN told = Clients /\ (NodeOf(c, p).tool \notin Composite)
  BY <1>2 DEF ToolsInv, Shape, Told, Says
<1>4. Change(c, p, s)
  BY <1>1, <1>2, <1>3 DEF Change, Count
<1>5. Says(NodeOf(c, p), <<c, p>>, effects, s)
  BY <1>1 DEF Says
<1>6. s \in Done \ {"gone"}
  BY DEF Done
<1>7. req[c].tool = "explain_session" => p # <<>>
  <2>1. p = <<>> => NodeOf(c, p) = req[c]
    BY DEF NodeOf
  <2>2. NodeOf(c, p).tool # "explain_session"
    BY <1>3 DEF Composite
  <2> QED
    BY <2>1, <2>2
<1> QED
  BY <1>2, <1>4, <1>5, <1>6, <1>7, Changes, ScriptsKept DEF ToolsInv

LEMMA ToolClose == ASSUME ToolsInv, NEW c \in Clients, NEW p \in P(c), Close(c, p) PROVE ToolsInv'
<1>1. /\ reply[c] = "open" /\ node[c][p] = "open" /\ node' = [node EXCEPT ![c][p] = "ok"] /\ Count(c, p)
      /\ UNCHANGED <<readOnly, req, reply, inFlight, effects, log, before, told>>
  BY DEF Close
<1>2. DOMAIN told = Clients /\ NodeOf(c, p).tool = "pipeline"
  BY <1>1 DEF ToolsInv, Shape, Told, Says
<1>3. Change(c, p, "ok")
  BY <1>1, <1>2 DEF Change, Count
<1>4. Says(NodeOf(c, p), <<c, p>>, effects, "ok")
  <2>1. Known("pipeline")
    BY KnownComposites DEF Composite
  <2> QED
    BY <1>2, <2>1, ReadOnlyComposites DEF Says, Composite
<1>5. "ok" \in Done \ {"gone"}
  BY DEF Done
<1>6. req[c].tool = "explain_session" => p # <<>>
  BY <1>2 DEF NodeOf
<1> QED
  BY <1>1, <1>3, <1>4, <1>5, <1>6, Changes, ScriptsKept DEF ToolsInv

(* A script is made of what the record says at that time.                  *)
LEMMA ToolExplain == ASSUME ToolsInv, NEW c \in Clients, NEW p \in P(c), Explain(c, p) PROVE ToolsInv'
<1>1. /\ reply[c] = "open" /\ node[c][p] = "ready" /\ node' = [node EXCEPT ![c][p] = "ok"] /\ Count(c, p)
      /\ NodeOf(c, p).tool \in {"explain_last", "explain_session"}
      /\ UNCHANGED <<readOnly, req, reply, inFlight, effects, log, before>>
  BY DEF Explain, Ready
<1>2. told' = [told EXCEPT ![c] =
        IF NodeOf(c, p).tool = "explain_last" THEN <<log[Len(log)]>> ELSE Succeeded(log)]
  BY DEF Explain
<1>3. DOMAIN told = Clients /\ DOMAIN node = Clients /\ \A d \in Clients : DOMAIN node[d] = P(d) /\ <<>> \in P(d)
  BY RootIsPath DEF ToolsInv, Shape, P
<1>4. Change(c, p, "ok")
  BY <1>1, <1>2, <1>3 DEF Change, Count
<1>5. Says(NodeOf(c, p), <<c, p>>, effects, "ok")
  <2>1. Known(NodeOf(c, p).tool) /\ NodeOf(c, p).tool \in Composite
    BY <1>1, KnownComposites DEF Composite
  <2> QED
    BY <2>1, ReadOnlyComposites DEF Says
<1>6. "ok" \in Done \ {"gone"}
  BY DEF Done
<1>7. /\ Shape' /\ Unopened' /\ Here' /\ EffectsSent' /\ Nested' /\ Rooted' /\ Allowed' /\ Told'
      /\ Tally' /\ Recorded'
  BY <1>1, <1>4, <1>5, <1>6, Changes
<1>8. ScriptTrue'
  <2> SUFFICES ASSUME NEW d \in Clients, req'[d].tool = "explain_session", node'[d][<<>>] = "ok"
               PROVE  /\ \A e \in Clients :
                           <<e, d>> \in before' /\ req'[e].tool \notin Excluded /\ node'[e][<<>>] = "ok"
                             => e \in {told'[d][i] : i \in DOMAIN told'[d]}
                      /\ \A e \in {told'[d][i] : i \in DOMAIN told'[d]} :
                           ExecutorOf(req'[e].tool).writes => <<e, <<>>>> \in effects'
    BY DEF ScriptTrue
  <2>0. before' = before /\ req' = req /\ effects' = effects /\ req[d].tool = "explain_session"
    BY <1>1
  <2> SUFFICES /\ \A e \in Clients :
                    <<e, d>> \in before /\ req[e].tool \notin Excluded /\ node'[e][<<>>] = "ok"
                      => \E i \in DOMAIN told'[d] : told'[d][i] = e
               /\ \A i \in DOMAIN told'[d] :
                    ExecutorOf(req[told'[d][i]].tool).writes => <<told'[d][i], <<>>>> \in effects
    BY <2>0
  <2>1. \A e \in Clients : node'[e][<<>>] = IF e = c /\ <<>> = p THEN "ok" ELSE node[e][<<>>]
    BY <1>1, <1>3
  <2>2. \A e \in Clients : <<e, d>> \in before => reply[e] = "result"
    BY DEF ToolsInv, Recorded
  <2>3. CASE d = c
    <3>1. p = <<>>
      <4>1. p # <<>> => req[c].tool = "pipeline"
        BY <1>1 DEF ToolsInv, Rooted, Live
      <4> QED
        BY <2>0, <2>3, <4>1
    <3>2. told'[d] = [i \in {j \in DOMAIN log : node[log[j]][<<>>] = "ok"} |-> log[i]]
      <4>1. NodeOf(c, p).tool = "explain_session"
        BY <2>0, <2>3, <3>1 DEF NodeOf
      <4> QED
        BY <1>2, <1>3, <2>3, <4>1 DEF Succeeded
    <3>3. {log[i] : i \in DOMAIN log} = {e \in Clients : reply[e] = "result" /\ req[e].tool \notin Excluded}
      BY DEF ToolsInv, Recorded, SessionInOrder
    <3>4. ASSUME NEW e \in Clients, <<e, d>> \in before, req[e].tool \notin Excluded, node'[e][<<>>] = "ok"
          PROVE  \E i \in DOMAIN told'[d] : told'[d][i] = e
      <4>1. reply[e] = "result" /\ e # c
        BY <1>1, <2>2, <3>4
      <4>2. PICK i \in DOMAIN log : log[i] = e
        BY <3>3, <3>4, <4>1
      <4>3. node[log[i]][<<>>] = "ok"
        BY <2>1, <3>4, <4>1, <4>2
      <4> QED
        BY <3>2, <4>2, <4>3
    <3>5. ASSUME NEW i \in DOMAIN told'[d], ExecutorOf(req[told'[d][i]].tool).writes
          PROVE  <<told'[d][i], <<>>>> \in effects
      <4>1. i \in DOMAIN log /\ told'[d][i] = log[i] /\ node[log[i]][<<>>] = "ok"
        BY <3>2, <3>5
      <4>2. log[i] \in Clients
        BY <3>3, <4>1
      <4>3. Says(NodeOf(log[i], <<>>), <<log[i], <<>>>>, effects, node[log[i]][<<>>])
        BY <1>3, <4>2 DEF ToolsInv, Told
      <4>4. NodeOf(log[i], <<>>) = req[log[i]]
        BY DEF NodeOf
      <4> QED
        BY <3>5, <4>1, <4>3, <4>4 DEF Says
    <3> QED
      BY <3>4, <3>5
  <2>4. CASE d # c
    <3>1. told'[d] = told[d]
      BY <1>2, <1>3, <2>4
    <3>2. \A e \in Clients : <<e, d>> \in before => e # c
      BY <1>1, <2>2
    <3>3. node[d][<<>>] = "ok"
      BY <2>1, <2>4
    <3>4. /\ \A e \in Clients :
               <<e, d>> \in before /\ req[e].tool \notin Excluded /\ node[e][<<>>] = "ok"
                 => \E i \in DOMAIN told[d] : told[d][i] = e
          /\ \A i \in DOMAIN told[d] :
               ExecutorOf(req[told[d][i]].tool).writes => <<told[d][i], <<>>>> \in effects
      BY <2>0, <3>3 DEF ToolsInv, ScriptTrue
    <3> QED
      BY <2>1, <3>1, <3>2, <3>4
  <2> QED
    BY <2>3, <2>4
<1> QED
  BY <1>7, <1>8 DEF ToolsInv

(* The operations of a pipeline are those of its request.                  *)
LEMMA Operations ==
  ASSUME NEW c, NEW p \in P(c), NEW q \in P(c), ChildOf(p, q)
  PROVE  \E i \in DOMAIN NodeOf(c, p).ops : NodeOf(c, q) = NodeOf(c, p).ops[i]
<1>1. CASE p = <<>>
  <2>1. Len(q) = 1 /\ q # <<>>
    BY <1>1 DEF ChildOf
  <2>2. PICK i \in DOMAIN req[c].ops : q = <<i>>
    BY <2>1 DEF P, Paths
  <2> QED
    BY <1>1, <2>1, <2>2 DEF NodeOf
<1>2. CASE \E i \in DOMAIN req[c].ops : p = <<i>>
  <2>1. PICK i \in DOMAIN req[c].ops : p = <<i>>
    BY <1>2
  <2>2. Len(q) = 2 /\ q[1] = i /\ q # <<>> /\ Len(p) = 1 /\ p # <<>>
    BY <2>1 DEF ChildOf
  <2>3. PICK k \in DOMAIN req[c].ops : \E j \in DOMAIN req[c].ops[k].ops : q = <<k, j>>
    BY <2>2 DEF P, Paths
  <2>4. PICK j \in DOMAIN req[c].ops[k].ops : q = <<k, j>>
    BY <2>3
  <2>5. k = i /\ q[2] = j
    BY <2>2, <2>4
  <2>6. NodeOf(c, p) = req[c].ops[i] /\ NodeOf(c, q) = req[c].ops[i].ops[j]
    BY <2>1, <2>2, <2>5 DEF NodeOf
  <2> QED
    BY <2>4, <2>5, <2>6
<1>3. CASE \E i \in DOMAIN req[c].ops : \E j \in DOMAIN req[c].ops[i].ops : p = <<i, j>>
  <2>1. Len(p) = 2
    BY <1>3
  <2>2. Len(q) # 3
    BY DEF P, Paths
  <2> QED
    BY <2>1, <2>2 DEF ChildOf
<1> QED
  BY <1>1, <1>2, <1>3 DEF P, Paths

(* An operation is within one other only.                                  *)
LEMMA OneParent ==
  ASSUME NEW r, NEW g \in Paths(r), NEW p \in Paths(r), NEW q \in Paths(r), ChildOf(g, q), ChildOf(p, q)
  PROVE  g = p
<1>1. Len(g) = Len(p) /\ \A k \in DOMAIN g : k \in DOMAIN p => g[k] = p[k]
  BY PathLengths DEF ChildOf
<1>2. CASE g = <<>> \/ p = <<>>
  BY <1>1, <1>2, PathLengths
<1>3. CASE \E i \in DOMAIN r.ops : g = <<i>>
  <2>1. PICK i \in DOMAIN r.ops : g = <<i>>
    BY <1>3
  <2>2. PICK k \in DOMAIN r.ops : p = <<k>>
    BY <1>1, <2>1 DEF Paths
  <2>3. g[1] = i /\ p[1] = k /\ g[1] = p[1]
    BY <1>1, <2>1, <2>2
  <2> QED
    BY <2>1, <2>2, <2>3
<1>4. CASE \E i \in DOMAIN r.ops : \E j \in DOMAIN r.ops[i].ops : g = <<i, j>>
  <2>1. Len(g) = 2 /\ Len(q) # 3
    BY SMTT(20), <1>4 DEF Paths
  <2> QED
    BY <2>1 DEF ChildOf
<1> QED
  BY <1>2, <1>3, <1>4 DEF Paths

LEMMA ToolOpen == ASSUME ToolsInv, NEW c \in Clients, NEW p \in P(c), Open(c, p) PROVE ToolsInv'
<1> DEFINE Mine(q) == ChildOf(p, q)
<1>0. /\ reply[c] = "open" /\ node[c][p] = "ready" /\ NodeOf(c, p).tool = "pipeline"
      /\ Refusal(NodeOf(c, p)) = "none"
      /\ UNCHANGED <<readOnly, req, reply, inFlight, effects, events, log, before, told>>
  BY DEF Open, Ready
<1>1. (\A d : P(d)' = P(d)) /\ (\A d, q : NodeOf(d, q)' = NodeOf(d, q)) /\ (\A d, q : Begun(d, q)' = Begun(d, q))
  BY <1>0, SameRequest DEF Begun
<1>2. Shape /\ DOMAIN node = Clients /\ \A d \in Clients : DOMAIN node[d] = P(d) /\ <<>> \in P(d)
  BY RootIsPath DEF ToolsInv, Shape, P
<1>3. /\ DOMAIN node' = Clients
      /\ \A d \in Clients : DOMAIN node'[d] = P(d) /\
           \A q \in P(d) : node'[d][q] = IF d = c /\ q = p THEN "open"
                                         ELSE IF d = c /\ Mine(q) THEN "ready" ELSE node[d][q]
  <2>1. node' = [node EXCEPT ![c] = [q \in DOMAIN node[c] |->
                   IF q = p THEN "open" ELSE IF q \in Children(c, p) THEN "ready" ELSE node[c][q]]]
    BY DEF Open
  <2>2. \A q \in P(c) : q \in Children(c, p) <=> Mine(q)
    BY <1>2 DEF Children, ChildOf
  <2> QED
    BY <1>2, <2>1, <2>2
<1> HIDE DEF Mine
<1>4. \A q \in P(c) : Mine(q) => node[c][q] \in {"idle", "gone"} /\ ~Begun(c, q) /\ q # p /\ q # <<>>
  <2>1. \A q \in P(c) : Mine(q) => q # p /\ q # <<>>
    BY PathLengths DEF ChildOf, P, Mine
  <2> QED
    BY <1>0, <2>1 DEF ToolsInv, Nested, Live, Mine
<1>5. Shape'
  BY <1>0, <1>1, <1>2, <1>3 DEF Shape
<1>6. Unopened'
  BY <1>0, <1>1, <1>3 DEF ToolsInv, Unopened
<1>7. EffectsSent'
  <2>1. EffectsSent
    BY DEF ToolsInv
  <2>2. ASSUME NEW o \in inFlight \union effects
        PROVE  \E d \in Clients : \E q \in P(d) : o = <<d, q>> /\ node'[d][q] \notin {"idle", "ready"}
    <3>1. PICK d \in Clients : \E q \in P(d) : o = <<d, q>> /\ node[d][q] \notin {"idle", "ready"}
      BY <2>1, <2>2 DEF EffectsSent
    <3>2. PICK q \in P(d) : o = <<d, q>> /\ node[d][q] \notin {"idle", "ready"}
      BY <3>1
    <3>3. d = c => ~Mine(q)
      BY <1>4, <2>2, <3>2 DEF Begun
    <3> QED
      BY <1>3, <3>2, <3>3
  <2> QED
    BY <1>0, <1>1, <2>1, <2>2 DEF EffectsSent
<1>8. Nested'
  <2> SUFFICES ASSUME NEW d \in Clients, NEW g \in P(d), NEW q \in P(d),
                      ChildOf(g, q), Live(node'[d][q]) \/ Begun(d, q)
               PROVE  NodeOf(d, g).tool = "pipeline" /\ node'[d][g] \in {"open", "ok", "gone"}
    BY <1>1 DEF Nested
  <2>1. CASE d = c /\ g = p
    BY <1>0, <1>3, <2>1
  <2>2. CASE ~(d = c /\ g = p)
    <3>1. d = c /\ Mine(q) => g = p
      <4>1. ASSUME d = c, Mine(q) PROVE g = p
        BY <4>1, OneParent DEF P, Mine
      <4> QED
        BY <4>1
    <3>2. Live(node[d][q]) \/ Begun(d, q)
      BY <1>0, <1>3, <2>2, <3>1 DEF Live
    <3>3. NodeOf(d, g).tool = "pipeline" /\ node[d][g] \in {"open", "ok", "gone"}
      BY <3>2 DEF ToolsInv, Nested
    <3>4. d = c => ~Mine(g)
      <4>1. ASSUME d = c, Mine(g) PROVE FALSE
        <5>1. node[c][g] = "gone"
          BY <1>4, <3>3, <4>1
        <5> QED
          BY <1>0, <4>1, <5>1 DEF ToolsInv, Here
      <4> QED
        BY <4>1
    <3> QED
      BY <1>3, <2>2, <3>3, <3>4
  <2> QED
    BY <2>1, <2>2
<1>9. Rooted'
  <2>1. \A q \in P(c) : Mine(q) => req[c].tool = "pipeline"
    <3>1. p = <<>> => NodeOf(c, p) = req[c]
      BY DEF NodeOf
    <3>2. p # <<>> => req[c].tool = "pipeline"
      BY <1>0 DEF ToolsInv, Rooted, Live
    <3> QED
      BY <1>0, <3>1, <3>2
  <2>2. p # <<>> => req[c].tool = "pipeline"
    BY <1>0 DEF ToolsInv, Rooted, Live
  <2> QED
    BY <1>0, <1>1, <1>3, <2>1, <2>2 DEF ToolsInv, Rooted, Live
<1>10. Allowed'
  <2> SUFFICES ASSUME readOnly, NEW d \in Clients, NEW q \in P(d)
               PROVE  /\ node'[d][q] = "ready" => NodeOf(d, q).tool \notin WriteTools \ {"transaction_pipeline"}
                      /\ Begun(d, q) => NodeOf(d, q).tool \notin WriteTools
    BY <1>0, <1>1 DEF Allowed
  <2>1. /\ node[d][q] = "ready" => NodeOf(d, q).tool \notin WriteTools \ {"transaction_pipeline"}
        /\ Begun(d, q) => NodeOf(d, q).tool \notin WriteTools
    BY DEF ToolsInv, Allowed
  <2>2. d = c /\ Mine(q) => NodeOf(d, q).tool \notin WriteTools \ {"transaction_pipeline"}
    <3>1. ASSUME d = c, Mine(q) PROVE NodeOf(d, q).tool \notin WriteOps
      <4>1. PICK i \in DOMAIN NodeOf(c, p).ops : NodeOf(c, q) = NodeOf(c, p).ops[i]
        BY <3>1, Operations DEF Mine
      <4>2. ~Forbidden(NodeOf(c, p))
        BY <1>0, Refusals
      <4> QED
        BY <1>0, <3>1, <4>1, <4>2 DEF Forbidden
    <3> QED
      BY <3>1 DEF WriteOps
  <2>3. node'[d][q] = "ready" => node[d][q] = "ready" \/ (d = c /\ Mine(q))
    BY <1>3
  <2> QED
    BY <2>1, <2>2, <2>3
<1>11. Told'
  <2> SUFFICES ASSUME NEW d \in Clients, NEW q \in P(d)
               PROVE  Says(NodeOf(d, q), <<d, q>>, effects, node'[d][q])
    BY <1>0, <1>1 DEF Told
  <2>1. Says(NodeOf(d, q), <<d, q>>, effects, node[d][q])
    BY DEF ToolsInv, Told
  <2>2. /\ Says(NodeOf(d, q), <<d, q>>, effects, "ready")
        /\ Says(NodeOf(c, p), <<c, p>>, effects, "open")
    BY <1>0 DEF Says
  <2>3. node'[d][q] = node[d][q] \/ node'[d][q] = "ready" \/ (d = c /\ q = p /\ node'[d][q] = "open")
    BY <1>3
  <2> QED
    BY <2>1, <2>2, <2>3
<1>12. Tally'
  <2>1. \A d \in Clients : \A q \in P(d) : Ended(d, q)' <=> Ended(d, q)
    <3>1. \A d \in Clients : \A q \in P(d) :
            node'[d][q] \in Done \ {"gone"} <=> node[d][q] \in Done \ {"gone"}
      BY <1>0, <1>3, <1>4 DEF Done
    <3> QED
      BY <1>1, <3>1 DEF Ended
  <2>2. Tallied' = Tallied
    BY <1>1, <2>1 DEF Tallied
  <2> QED
    BY <1>0, <2>2 DEF ToolsInv, Tally
<1>13. \A d \in Clients : node'[d][<<>>] = node[d][<<>>] \/ (d = c /\ node'[d][<<>>] = "open")
  BY <1>2, <1>3, <1>4
<1>14. Recorded'
  <2>1. \A d \in Clients : reply[d] = "result" => d # c
    BY <1>0
  <2> QED
    BY <1>0, <1>13, <2>1 DEF ToolsInv, Recorded, SessionInOrder
<1>15. ScriptTrue'
  <2>1. \A d \in Clients : node'[d][<<>>] = "ok" => node[d][<<>>] = "ok"
    BY <1>13
  <2> QED
    BY <1>0, <2>1 DEF ToolsInv, ScriptTrue
<1>16. Here'
  BY <1>0, <1>1, <1>3 DEF ToolsInv, Here
<1> QED
  BY <1>5, <1>6, <1>7, <1>8, <1>9, <1>10, <1>11, <1>12, <1>14, <1>15, <1>16 DEF ToolsInv

LEMMA ToolBegin == ASSUME ToolsInv, NEW c \in Clients, Begin(c) PROVE ToolsInv'
<1>0. /\ reply[c] = "new" /\ UNCHANGED <<readOnly, req, inFlight, effects, events, log, told>>
      /\ before' = before \union {<<d, c>> : d \in {e \in Clients : reply[e] = "result"}}
  BY DEF Begin
<1>1. (\A d : P(d)' = P(d)) /\ (\A d, q : NodeOf(d, q)' = NodeOf(d, q)) /\ (\A d, q : Begun(d, q)' = Begun(d, q))
  BY <1>0, SameRequest DEF Begun
<1>2. Shape /\ DOMAIN node = Clients /\ \A d \in Clients : DOMAIN node[d] = P(d) /\ <<>> \in P(d)
  BY RootIsPath DEF ToolsInv, Shape, P
<1>3. /\ DOMAIN node' = Clients
      /\ \A d \in Clients : DOMAIN node'[d] = P(d) /\
           \A q \in P(d) : node'[d][q] = IF d = c /\ q = <<>> /\ ~Blocks(req[c].tool) THEN "ready" ELSE node[d][q]
  <2>1. CASE Blocks(req[c].tool)
    BY <1>2, <2>1 DEF Begin
  <2>2. CASE ~Blocks(req[c].tool)
    <3>1. node' = [node EXCEPT ![c][<<>>] = "ready"]
      BY <2>2 DEF Begin
    <3> QED
      BY <1>2, <2>2, <3>1
  <2> QED
    BY <2>1, <2>2
<1>4. reply' = [reply EXCEPT ![c] = IF Blocks(req[c].tool) THEN "blocked" ELSE "open"]
  BY DEF Begin
<1>5. /\ reply' \in [Clients -> {"new", "open", "blocked", "result", "gone"}]
      /\ reply'[c] = (IF Blocks(req[c].tool) THEN "blocked" ELSE "open")
      /\ \A d \in Clients : d # c => reply'[d] = reply[d]
  BY <1>2, <1>4 DEF Shape
<1>6. \A q \in P(c) : node[c][q] = "idle" /\ ~Begun(c, q)
  <2>1. \A q \in P(c) : node[c][q] = "idle"
    BY <1>0 DEF ToolsInv, Unopened
  <2>2. ASSUME NEW q \in P(c), Begun(c, q) PROVE FALSE
    <3>1. PICK d \in Clients : \E g \in P(d) : <<c, q>> = <<d, g>> /\ node[d][g] \notin {"idle", "ready"}
      BY <2>2 DEF ToolsInv, EffectsSent, Begun
    <3> QED
      BY <2>1, <3>1
  <2> QED
    BY <2>1, <2>2
<1>7. Shape'
  <2>1. before' \subseteq Clients \X Clients
    BY <1>0, <1>2 DEF Shape
  <2> QED
    BY <1>0, <1>1, <1>2, <1>3, <1>5, <2>1 DEF Shape
<1>8. Unopened' /\ Here'
  <2>1. Unopened /\ Here
    BY DEF ToolsInv
  <2>2. Unopened'
    BY <1>1, <1>3, <1>5, <1>6, <2>1 DEF Unopened
  <2>3. Here'
    BY <1>1, <1>3, <1>5, <1>6, <2>1 DEF Here
  <2> QED
    BY <2>2, <2>3
<1>9. EffectsSent'
  <2>1. EffectsSent
    BY DEF ToolsInv
  <2>2. ASSUME NEW o \in inFlight \union effects
        PROVE  \E d \in Clients : \E q \in P(d) : o = <<d, q>> /\ node'[d][q] \notin {"idle", "ready"}
    <3>1. PICK d \in Clients : \E q \in P(d) : o = <<d, q>> /\ node[d][q] \notin {"idle", "ready"}
      BY <2>1, <2>2 DEF EffectsSent
    <3>2. PICK q \in P(d) : o = <<d, q>> /\ node[d][q] \notin {"idle", "ready"}
      BY <3>1
    <3> QED
      BY <1>3, <1>6, <3>2
  <2> QED
    BY <1>0, <1>1, <2>1, <2>2 DEF EffectsSent
<1>10. Nested'
  <2> SUFFICES ASSUME NEW d \in Clients, NEW g \in P(d), NEW q \in P(d),
                      ChildOf(g, q), Live(node'[d][q]) \/ Begun(d, q)
               PROVE  NodeOf(d, g).tool = "pipeline" /\ node'[d][g] \in {"open", "ok", "gone"}
    BY <1>1 DEF Nested
  <2>1. q # <<>>
    BY PathLengths DEF ChildOf, P
  <2>2. Live(node[d][q]) \/ Begun(d, q)
    BY <1>3, <2>1
  <2>3. d # c
    BY <1>6, <2>2 DEF Live
  <2>4. NodeOf(d, g).tool = "pipeline" /\ node[d][g] \in {"open", "ok", "gone"}
    BY <2>2 DEF ToolsInv, Nested
  <2> QED
    BY <1>3, <2>3, <2>4
<1>11. Rooted'
  BY <1>0, <1>1, <1>3 DEF ToolsInv, Rooted
<1>12. Allowed'
  <2> SUFFICES ASSUME readOnly, NEW d \in Clients, NEW q \in P(d)
               PROVE  /\ node'[d][q] = "ready" => NodeOf(d, q).tool \notin WriteTools \ {"transaction_pipeline"}
                      /\ Begun(d, q) => NodeOf(d, q).tool \notin WriteTools
    BY <1>0, <1>1 DEF Allowed
  <2>1. /\ node[d][q] = "ready" => NodeOf(d, q).tool \notin WriteTools \ {"transaction_pipeline"}
        /\ Begun(d, q) => NodeOf(d, q).tool \notin WriteTools
    BY DEF ToolsInv, Allowed
  <2>2. ~Blocks(req[c].tool) => NodeOf(c, <<>>).tool \notin WriteTools
    BY DEF Blocks, NodeOf
  <2> QED
    BY <1>3, <2>1, <2>2
<1>13. Told'
  <2> SUFFICES ASSUME NEW d \in Clients, NEW q \in P(d)
               PROVE  Says(NodeOf(d, q), <<d, q>>, effects, node'[d][q])
    BY <1>0, <1>1 DEF Told
  <2>1. Says(NodeOf(d, q), <<d, q>>, effects, node[d][q])
    BY DEF ToolsInv, Told
  <2>2. Says(NodeOf(d, q), <<d, q>>, effects, "ready")
    BY DEF Says
  <2> QED
    BY <1>3, <2>1, <2>2
<1>14. Tally'
  <2>1. \A d \in Clients : \A q \in P(d) : Ended(d, q)' <=> Ended(d, q)
    <3>1. \A d \in Clients : \A q \in P(d) :
            node'[d][q] \in Done \ {"gone"} <=> node[d][q] \in Done \ {"gone"}
      BY <1>3, <1>6 DEF Done
    <3> QED
      BY <1>1, <3>1 DEF Ended
  <2>2. Tallied' = Tallied
    BY <1>1, <2>1 DEF Tallied
  <2> QED
    BY <1>0, <2>2 DEF ToolsInv, Tally
<1>15. Recorded'
  <2>1. /\ {log[i] : i \in DOMAIN log} = {d \in Clients : reply[d] = "result" /\ req[d].tool \notin Excluded}
        /\ \A i, j \in DOMAIN log : i < j => log[i] # log[j] /\ <<log[j], log[i]>> \notin before
        /\ \A d, e \in Clients : <<e, d>> \in before => reply[e] = "result" /\ reply[d] # "new"
        /\ \A d \in Clients : reply[d] = "result" => node[d][<<>>] \in Done
    BY DEF ToolsInv, Recorded, SessionInOrder
  <2>2. \A d \in Clients : reply'[d] = "result" <=> reply[d] = "result"
    BY <1>0, <1>5
  <2>3. \A i \in DOMAIN log : log[i] # c
    BY <1>0, <2>1
  <2>4. \A d, e : <<e, d>> \in before' => <<e, d>> \in before \/ (d = c /\ e \in Clients /\ reply[e] = "result")
    BY <1>0
  <2>5. \A i, j \in DOMAIN log : i < j => log[i] # log[j] /\ <<log[j], log[i]>> \notin before'
    BY <2>1, <2>3, <2>4
  <2>6. \A d, e \in Clients : <<e, d>> \in before' => reply'[e] = "result" /\ reply'[d] # "new"
    BY <1>0, <1>5, <2>1, <2>4
  <2>7. \A d \in Clients : reply'[d] = "result" => node'[d][<<>>] \in Done
    BY <1>0, <1>2, <1>3, <2>1, <2>2
  <2>8. {d \in Clients : reply'[d] = "result" /\ req[d].tool \notin Excluded}
          = {d \in Clients : reply[d] = "result" /\ req[d].tool \notin Excluded}
    BY <2>2
  <2> QED
    BY <1>0, <2>1, <2>5, <2>6, <2>7, <2>8 DEF Recorded, SessionInOrder
<1>16. ScriptTrue'
  <2>1. \A d \in Clients : node'[d][<<>>] = "ok" => node[d][<<>>] = "ok" /\ d # c
    BY <1>2, <1>3, <1>6
  <2>2. \A d, e : d # c /\ <<e, d>> \in before' => <<e, d>> \in before
    BY <1>0
  <2>3. ScriptTrue
    BY DEF ToolsInv
  <2> QED
    BY <1>0, <2>1, <2>2, <2>3 DEF ScriptTrue
<1> QED
  BY <1>7, <1>8, <1>9, <1>10, <1>11,
     <1>12, <1>13, <1>14, <1>15, <1>16 DEF ToolsInv

(* The record grows by the call that is answered.                          *)
LEMMA ToolFinish == ASSUME ToolsInv, NEW c \in Clients, Finish(c) PROVE ToolsInv'
<1>0. /\ reply[c] = "open" /\ node[c][<<>>] \in Done /\ reply' = [reply EXCEPT ![c] = "result"]
      /\ log' = (IF req[c].tool \in Excluded THEN log ELSE Append(log, c))
      /\ UNCHANGED <<readOnly, req, node, inFlight, effects, events, before, told>>
  BY DEF Finish
<1>1. (\A d : P(d)' = P(d)) /\ (\A d, q : NodeOf(d, q)' = NodeOf(d, q)) /\ (\A d, q : Begun(d, q)' = Begun(d, q))
  BY <1>0, SameRequest DEF Begun
<1>2. /\ Shape /\ reply' \in [Clients -> {"new", "open", "blocked", "result", "gone"}]
      /\ reply'[c] = "result" /\ \A d \in Clients : d # c => reply'[d] = reply[d]
  BY <1>0 DEF ToolsInv, Shape
<1>3. log \in Seq(Clients) /\ log' \in Seq(Clients)
  BY <1>0, <1>2 DEF Shape
<1>4. Shape'
  BY <1>0, <1>1, <1>2, <1>3 DEF Shape
<1>5. Unopened' /\ Here' /\ EffectsSent' /\ Nested' /\ Rooted' /\ Allowed' /\ Told'
  <2>1. Unopened' /\ Here'
    BY <1>0, <1>1, <1>2 DEF ToolsInv, Unopened, Here
  <2>2. EffectsSent' /\ Told'
    BY <1>0, <1>1 DEF ToolsInv, EffectsSent, Told
  <2>3. Nested' /\ Rooted' /\ Allowed'
    BY <1>0, <1>1 DEF ToolsInv, Nested, Rooted, Allowed
  <2> QED
    BY <2>1, <2>2, <2>3
<1>6. Tally'
  <2>1. \A d, q : Ended(d, q)' <=> Ended(d, q)
    BY <1>0, <1>1 DEF Ended
  <2>2. Tallied' = Tallied
    BY <1>1, <2>1 DEF Tallied
  <2> QED
    BY <1>0, <2>2 DEF ToolsInv, Tally
<1>7. Recorded'
  <2>1. /\ {log[i] : i \in DOMAIN log} = {d \in Clients : reply[d] = "result" /\ req[d].tool \notin Excluded}
        /\ \A i, j \in DOMAIN log : i < j => log[i] # log[j] /\ <<log[j], log[i]>> \notin before
        /\ \A d, e \in Clients : <<e, d>> \in before => reply[e] = "result" /\ reply[d] # "new"
        /\ \A d \in Clients : reply[d] = "result" => node[d][<<>>] \in Done
    BY DEF ToolsInv, Recorded, SessionInOrder
  <2>2. \A i \in DOMAIN log : log[i] # c
    BY <1>0, <2>1
  <2>3. \A e \in Clients : <<c, e>> \notin before
    BY <1>0, <2>1
  <2>4. /\ \A d, e \in Clients : <<e, d>> \in before => reply'[e] = "result" /\ reply'[d] # "new"
        /\ \A d \in Clients : reply'[d] = "result" => node[d][<<>>] \in Done
    BY <1>0, <1>2, <2>1
  <2>5. CASE req[c].tool \in Excluded
    <3>1. {d \in Clients : reply'[d] = "result" /\ req[d].tool \notin Excluded}
            = {d \in Clients : reply[d] = "result" /\ req[d].tool \notin Excluded}
      BY <1>0, <1>2, <2>5
    <3> QED
      BY <1>0, <2>1, <2>4, <2>5, <3>1 DEF Recorded, SessionInOrder
  <2>6. CASE req[c].tool \notin Excluded
    <3> DEFINE s == Append(log, c)
               n == Len(log) + 1
    <3>1. /\ s \in Seq(Clients) /\ DOMAIN s = DOMAIN log \union {n} /\ n \notin DOMAIN log
          /\ s[n] = c /\ \A i \in DOMAIN log : s[i] = log[i]
      BY <1>3, Appended
    <3>2. \A i \in DOMAIN log : i < n
      BY <1>3
    <3>3. log' = s
      BY <1>0, <2>6
    <3> HIDE DEF s, n
    <3>4. {s[i] : i \in DOMAIN s} = {d \in Clients : reply'[d] = "result" /\ req[d].tool \notin Excluded}
      <4>1. {s[i] : i \in DOMAIN s} = {log[i] : i \in DOMAIN log} \union {c}
        BY <3>1
      <4>2. {d \in Clients : reply'[d] = "result" /\ req[d].tool \notin Excluded}
              = {d \in Clients : reply[d] = "result" /\ req[d].tool \notin Excluded} \union {c}
        BY <1>2, <2>6
      <4> QED
        BY <2>1, <4>1, <4>2
    <3>5. ASSUME NEW i \in DOMAIN s, NEW j \in DOMAIN s, i < j
          PROVE  s[i] # s[j] /\ <<s[j], s[i]>> \notin before
      <4>1. i \in DOMAIN log
        <5>1. n \in Nat /\ DOMAIN log \subseteq Nat /\ ~(n < n)
          BY <1>3 DEF n
        <5> QED
          BY <3>1, <3>2, <3>5, <5>1
      <4>2. CASE j = n
        <5>1. s[i] = log[i] /\ log[i] \in Clients /\ s[j] = c
          BY <1>3, <3>1, <4>1, <4>2
        <5> QED
          BY <2>2, <2>3, <4>1, <5>1
      <4>3. CASE j \in DOMAIN log
        BY <2>1, <3>1, <3>5, <4>1, <4>3
      <4> QED
        BY <3>1, <4>2, <4>3
    <3> QED
      BY <1>0, <2>4, <3>3, <3>4, <3>5 DEF Recorded, SessionInOrder
  <2> QED
    BY <2>5, <2>6
<1>8. ScriptTrue'
  BY <1>0 DEF ToolsInv, ScriptTrue
<1> QED
  BY <1>4, <1>5, <1>6, <1>7, <1>8 DEF ToolsInv

(* A call that is dropped leaves what is in flight to take its effect.     *)
LEMMA ToolLeave == ASSUME ToolsInv, NEW c \in Clients, Leave(c) PROVE ToolsInv'
<1>0. /\ reply[c] = "open" /\ reply' = [reply EXCEPT ![c] = "gone"]
      /\ UNCHANGED <<readOnly, req, inFlight, effects, events, log, before, told>>
  BY DEF Leave
<1>1. (\A d : P(d)' = P(d)) /\ (\A d, q : NodeOf(d, q)' = NodeOf(d, q)) /\ (\A d, q : Begun(d, q)' = Begun(d, q))
  BY <1>0, SameRequest DEF Begun
<1>2. Shape /\ DOMAIN node = Clients /\ \A d \in Clients : DOMAIN node[d] = P(d) /\ <<>> \in P(d)
  BY RootIsPath DEF ToolsInv, Shape, P
<1>3. /\ DOMAIN node' = Clients
      /\ \A d \in Clients : DOMAIN node'[d] = P(d) /\
           \A q \in P(d) : node'[d][q] = IF d = c /\ node[d][q] \notin Done THEN "gone" ELSE node[d][q]
  <2>1. node' = [node EXCEPT ![c] = [p \in DOMAIN node[c] |-> IF node[c][p] \in Done THEN node[c][p] ELSE "gone"]]
    BY DEF Leave
  <2> QED
    BY <1>2, <2>1
<1>4. /\ reply' \in [Clients -> {"new", "open", "blocked", "result", "gone"}]
      /\ reply'[c] = "gone" /\ \A d \in Clients : d # c => reply'[d] = reply[d]
  BY <1>0, <1>2 DEF Shape
<1>5. "gone" \in Done /\ "idle" \notin Done /\ "ready" \notin Done /\ "ok" \in Done
  BY DEF Done
<1>6. Shape'
  BY <1>0, <1>1, <1>2, <1>3, <1>4, <1>5 DEF Shape
<1>7. Unopened' /\ Here'
  <2>1. Unopened'
    BY <1>1, <1>3, <1>4 DEF ToolsInv, Unopened
  <2>2. Here'
    BY <1>1, <1>3, <1>4 DEF ToolsInv, Here
  <2> QED
    BY <2>1, <2>2
<1>8. EffectsSent'
  <2>1. EffectsSent
    BY DEF ToolsInv
  <2>2. ASSUME NEW o \in inFlight \union effects
        PROVE  \E d \in Clients : \E q \in P(d) : o = <<d, q>> /\ node'[d][q] \notin {"idle", "ready"}
    <3>1. PICK d \in Clients : \E q \in P(d) : o = <<d, q>> /\ node[d][q] \notin {"idle", "ready"}
      BY <2>1, <2>2 DEF EffectsSent
    <3> QED
      BY <1>3, <3>1
  <2> QED
    BY <1>0, <1>1, <2>1, <2>2 DEF EffectsSent
<1>9. Nested'
  <2> SUFFICES ASSUME NEW d \in Clients, NEW g \in P(d), NEW q \in P(d),
                      ChildOf(g, q), Live(node'[d][q]) \/ Begun(d, q)
               PROVE  NodeOf(d, g).tool = "pipeline" /\ node'[d][g] \in {"open", "ok", "gone"}
    BY <1>1 DEF Nested
  <2>1. Live(node[d][q]) \/ Begun(d, q)
    BY <1>3 DEF Live
  <2>2. NodeOf(d, g).tool = "pipeline" /\ node[d][g] \in {"open", "ok", "gone"}
    BY <2>1 DEF ToolsInv, Nested
  <2> QED
    BY <1>3, <2>2
<1>10. Rooted'
  BY <1>0, <1>1, <1>3 DEF ToolsInv, Rooted, Live
<1>11. Allowed'
  BY <1>0, <1>1, <1>3 DEF ToolsInv, Allowed
<1>12. Told'
  <2> SUFFICES ASSUME NEW d \in Clients, NEW q \in P(d)
               PROVE  Says(NodeOf(d, q), <<d, q>>, effects, node'[d][q])
    BY <1>0, <1>1 DEF Told
  <2>1. Says(NodeOf(d, q), <<d, q>>, effects, node[d][q])
    BY DEF ToolsInv, Told
  <2>2. Says(NodeOf(d, q), <<d, q>>, effects, "gone")
    BY DEF Says
  <2> QED
    BY <1>3, <2>1, <2>2
<1>13. Tally'
  <2>1. \A d \in Clients : \A q \in P(d) : Ended(d, q)' <=> Ended(d, q)
    <3>1. \A d \in Clients : \A q \in P(d) :
            node'[d][q] \in Done \ {"gone"} <=> node[d][q] \in Done \ {"gone"}
      BY <1>3
    <3> QED
      BY <1>1, <3>1 DEF Ended
  <2>2. Tallied' = Tallied
    BY <1>1, <2>1 DEF Tallied
  <2> QED
    BY <1>0, <2>2 DEF ToolsInv, Tally
<1>14. Recorded'
  <2>1. /\ {log[i] : i \in DOMAIN log} = {d \in Clients : reply[d] = "result" /\ req[d].tool \notin Excluded}
        /\ \A i, j \in DOMAIN log : i < j => log[i] # log[j] /\ <<log[j], log[i]>> \notin before
        /\ \A d, e \in Clients : <<e, d>> \in before => reply[e] = "result" /\ reply[d] # "new"
        /\ \A d \in Clients : reply[d] = "result" => node[d][<<>>] \in Done
    BY DEF ToolsInv, Recorded, SessionInOrder
  <2>2. \A d \in Clients : reply'[d] = "result" <=> reply[d] = "result"
    BY <1>0, <1>4
  <2>3. {d \in Clients : reply'[d] = "result" /\ req[d].tool \notin Excluded}
          = {d \in Clients : reply[d] = "result" /\ req[d].tool \notin Excluded}
    BY <2>2
  <2>4. \A d, e \in Clients : <<e, d>> \in before => reply'[e] = "result" /\ reply'[d] # "new"
    BY <1>4, <2>1, <2>2
  <2>5. \A d \in Clients : reply'[d] = "result" => node'[d][<<>>] \in Done
    BY <1>2, <1>3, <2>1, <2>2
  <2> QED
    BY <1>0, <2>1, <2>3, <2>4, <2>5 DEF Recorded, SessionInOrder
<1>15. ScriptTrue'
  <2>1. \A d \in Clients : node'[d][<<>>] = "ok" <=> node[d][<<>>] = "ok"
    BY <1>2, <1>3, <1>5
  <2> QED
    BY <1>0, <2>1 DEF ToolsInv, ScriptTrue
<1> QED
  BY <1>6, <1>7, <1>8, <1>9, <1>10, <1>11,
     <1>12, <1>13, <1>14, <1>15 DEF ToolsInv

LEMMA ToolEffect == ASSUME ToolsInv, NEW o \in inFlight, TakeEffect(o) PROVE ToolsInv'
<1>0. /\ inFlight' = inFlight \ {o} /\ effects' = effects \union {o}
      /\ UNCHANGED <<readOnly, req, reply, node, events, log, before, told>>
  BY DEF TakeEffect
<1>1. /\ (\A d : P(d)' = P(d)) /\ (\A d, q : NodeOf(d, q)' = NodeOf(d, q))
      /\ (\A d, q : Begun(d, q)' <=> Begun(d, q)) /\ inFlight' \union effects' = inFlight \union effects
  BY <1>0, SameRequest DEF Begun
<1>2. Shape' /\ Unopened' /\ Here'
  BY <1>0, <1>1 DEF ToolsInv, Shape, Unopened, Here
<1>3. EffectsSent'
  <2>1. inFlight' \intersect effects' = {}
    BY <1>0 DEF ToolsInv, EffectsSent
  <2> QED
    BY <1>0, <1>1, <2>1 DEF ToolsInv, EffectsSent
<1>4. Nested' /\ Rooted' /\ Allowed'
  BY <1>0, <1>1 DEF ToolsInv, Nested, Rooted, Allowed
<1>5. Told'
  <2>1. effects \subseteq effects'
    BY <1>0
  <2> QED
    BY <1>0, <1>1, <2>1, SaysMore DEF ToolsInv, Told
<1>6. Tally'
  <2>1. \A d, q : Ended(d, q)' <=> Ended(d, q)
    BY <1>0, <1>1 DEF Ended
  <2>2. Tallied' = Tallied
    BY <1>1, <2>1 DEF Tallied
  <2> QED
    BY <1>0, <2>2 DEF ToolsInv, Tally
<1>7. Recorded'
  BY <1>0 DEF ToolsInv, Recorded, SessionInOrder
<1>8. ScriptTrue'
  <2>1. effects \subseteq effects'
    BY <1>0
  <2> QED
    BY <1>0, <2>1 DEF ToolsInv, ScriptTrue
<1> QED
  BY <1>2, <1>3, <1>4, <1>5, <1>6, <1>7, <1>8 DEF ToolsInv

LEMMA ToolsStart == ASSUME Init PROVE ToolsInv
<1>1. /\ readOnly \in BOOLEAN /\ req \in Scenes /\ DOMAIN req = Clients
      /\ inFlight = {} /\ effects = {} /\ events = 0 /\ log = <<>> /\ before = {}
      /\ DOMAIN told = Clients /\ DOMAIN node = Clients
      /\ reply \in [Clients -> {"new", "open", "blocked", "result", "gone"}]
      /\ \A c \in Clients : reply[c] = "new" /\ DOMAIN node[c] = P(c) /\ \A p \in P(c) : node[c][p] = "idle"
  BY ToolsAssumption DEF ToolsAssumption, Init, P
<1>2. \A c \in Clients : <<>> \in P(c)
  BY RootIsPath DEF P
<1>3. Shape /\ Unopened /\ Here /\ EffectsSent
  <2>1. Shape
    BY <1>1 DEF Shape
  <2> QED
    BY <1>1, <2>1 DEF Unopened, Here, EffectsSent
<1>4. Nested /\ Rooted /\ Allowed /\ Told
  <2>1. Nested /\ Rooted
    BY <1>1 DEF Nested, Rooted, Live, Begun
  <2>2. Allowed
    BY <1>1 DEF Allowed, Begun
  <2>3. Told
    BY <1>1 DEF Told, Says
  <2> QED
    BY <2>1, <2>2, <2>3
<1>5. Tally
  <2>1. \A c \in Clients : \A p \in P(c) : ~Ended(c, p)
    BY <1>1 DEF Ended, Done
  <2>2. Tallied = {}
    BY <2>1 DEF Tallied
  <2> QED
    BY <1>1, <2>2, FS_EmptySet DEF Tally
<1>6. Recorded
  BY <1>1 DEF Recorded, SessionInOrder
<1>7. ScriptTrue
  BY <1>1, <1>2 DEF ScriptTrue
<1> QED
  BY <1>3, <1>4, <1>5, <1>6, <1>7 DEF ToolsInv

LEMMA ToolsStep == ASSUME ToolsInv, [Next]_vars PROVE ToolsInv'
<1>1. CASE UNCHANGED vars
  <2>1. /\ (\A d : P(d)' = P(d)) /\ (\A d, q : NodeOf(d, q)' = NodeOf(d, q))
        /\ (\A d, q : Begun(d, q)' = Begun(d, q)) /\ UNCHANGED vars
    BY <1>1, SameRequest DEF vars, Begun
  <2>2. \A d, q : Ended(d, q)' <=> Ended(d, q)
    BY <2>1 DEF Ended, vars
  <2>3. Tallied' = Tallied
    BY <2>1, <2>2 DEF Tallied
  <2>4. Tally'
    BY <2>1, <2>3 DEF ToolsInv, Tally, vars
  <2>5. Shape' /\ Unopened' /\ Here' /\ EffectsSent'
    BY <2>1 DEF ToolsInv, Shape, Unopened, Here, EffectsSent, vars
  <2>6. Nested' /\ Rooted' /\ Allowed' /\ Told'
    BY <2>1 DEF ToolsInv, Nested, Rooted, Allowed, Told, vars
  <2>7. Recorded' /\ ScriptTrue'
    BY <2>1 DEF ToolsInv, Recorded, SessionInOrder, ScriptTrue, vars
  <2> QED
    BY <2>4, <2>5, <2>6, <2>7 DEF ToolsInv
<1>2. CASE \E c \in Clients : Step(c)
  <2>1. PICK c \in Clients : Step(c)
    BY <1>2
  <2>2. DOMAIN node[c] = P(c)
    BY DEF ToolsInv, Shape
  <2> QED
    BY <2>1, <2>2, ToolFinish, ToolRefuse, ToolOpen, ToolExplain, ToolSend, ToolAnswer, ToolClose DEF Step
<1> QED
  BY <1>1, <1>2, ToolBegin, ToolLeave, ToolEffect DEF Next

LEMMA NodesAre ==
  ASSUME Shape
  PROVE  /\ \A c \in Clients : \A p \in P(c) : <<c, p>> \in Nodes
         /\ \A o \in Nodes : o[1] \in Clients /\ o[2] \in P(o[1]) /\ o = <<o[1], o[2]>>
         /\ IsFiniteSet(Nodes)
<1>1. \A c \in Clients : DOMAIN node[c] = P(c)
  BY DEF Shape
<1> DEFINE f == [c \in Clients |-> {c} \X P(c)]
           T == {f[c] : c \in Clients}
<1>2. Nodes = UNION T
  BY <1>1 DEF Nodes
<1>3. IsFiniteSet(T)
  <2>1. f \in Surjection(Clients, T)
    BY DEF Surjection
  <2> HIDE DEF f
  <2> QED
    BY <2>1, FS_Surjection, ToolsAssumption DEF ToolsAssumption
<1>4. \A U \in T : IsFiniteSet(U)
  <2> SUFFICES ASSUME NEW c \in Clients PROVE IsFiniteSet({c} \X P(c))
    OBVIOUS
  <2>1. IsFiniteSet({c}) /\ IsFiniteSet(P(c))
    BY FS_Singleton, ToolsAssumption DEF ToolsAssumption, Shape, P
  <2> QED
    BY <2>1, FS_Product
<1>5. IsFiniteSet(Nodes)
  <2> HIDE DEF T
  <2> QED
    BY <1>2, <1>3, <1>4, FS_UNION
<1> QED
  BY <1>2, <1>5

LEMMA ToolsHold == ASSUME ToolsInv PROVE GateHolds /\ SessionTrue
<1>1. /\ \A c \in Clients : \A p \in P(c) : <<c, p>> \in Nodes
      /\ \A o \in Nodes : o[1] \in Clients /\ o[2] \in P(o[1]) /\ o = <<o[1], o[2]>>
      /\ IsFiniteSet(Nodes) /\ Shape /\ \A c \in Clients : DOMAIN node[c] = P(c)
  BY NodesAre DEF ToolsInv, Shape
<1>2. inFlight \union effects \subseteq Nodes /\ inFlight \intersect effects = {}
  BY <1>1 DEF ToolsInv, EffectsSent
<1>3. Tallied = {o \in Nodes : At(o) \in Done \ {"gone"} /\ ToolOf(o) \in Counted}
  <2>1. \A o : o \in Tallied <=> o \in Nodes /\ Ended(o[1], o[2])
    BY <1>1 DEF Tallied
  <2> QED
    BY <2>1 DEF Ended, At, ToolOf
<1>4. TypeOK
  <2>1. events <= Cardinality(Nodes)
    <3>1. Tallied \subseteq Nodes
      BY <1>3
    <3> QED
      BY <1>1, <3>1, FS_Subset DEF ToolsInv, Tally
  <2>2. \A o \in Nodes : At(o) \in Done \union {"idle", "ready", "sent", "open"}
    BY <1>1 DEF Shape, At
  <2> QED
    BY <1>1, <1>2, <2>1, <2>2 DEF TypeOK, Shape
<1>5. ReadOnlyHolds
  <2>1. \A o \in effects : o \in Nodes /\ Begun(o[1], o[2])
    BY <1>1, <1>2 DEF Begun
  <2> QED
    BY <1>1, <2>1 DEF ToolsInv, Allowed, ReadOnlyHolds, ToolOf
<1>6. AllOrNothing
  <2> SUFFICES ASSUME NEW o \in Nodes, ToolOf(o) = "pipeline", At(o) = "blocked", NEW q \in Children(o[1], o[2])
               PROVE  node[o[1]][q] \in {"idle", "gone"} /\ <<o[1], q>> \notin effects \union inFlight
    BY DEF AllOrNothing
  <2>1. q \in P(o[1]) /\ ChildOf(o[2], q)
    BY <1>1 DEF Children, ChildOf
  <2>2. ~Live(node[o[1]][q]) /\ ~Begun(o[1], q)
    BY <1>1, <2>1 DEF ToolsInv, Nested, At
  <2> QED
    BY <2>2 DEF Live, Begun
<1>7. AdvertisedWorks
  <2> SUFFICES ASSUME NEW o \in Nodes, NEW t \in Advertised, ToolOf(o) = t.name, t.name \notin {"ask", "explain_query"}
               PROVE  /\ At(o) # "unknown"
                      /\ At(o) = "missing" => ~(Required(t.name) \subseteq NodeOf(o[1], o[2]).given)
    BY DEF AdvertisedWorks
  <2>1. Says(NodeOf(o[1], o[2]), <<o[1], o[2]>>, effects, At(o))
    BY <1>1 DEF ToolsInv, Told, At
  <2>2. Known(t.name)
    BY Executed
  <2>3. ExecutorOf(t.name).demands \subseteq Required(t.name)
    <3>1. ExecutorOf(t.name) \in Executors /\ ExecutorOf(t.name).name = t.name
      BY <2>2, Chosen
    <3>2. PICK u \in Advertised : u.name = t.name /\ Required(t.name) = u.required
      BY Chosen
    <3> QED
      BY <3>1, <3>2, Demanded
  <2> QED
    BY <2>1, <2>2, <2>3 DEF Says, ToolOf
<1>8. SessionTrue
  BY <1>3 DEF ToolsInv, Tally, Recorded, SessionTrue, EventsTally
<1> QED
  BY <1>4, <1>5, <1>6, <1>7, <1>8 DEF GateHolds

(* Whatever clients ask for at the same time, in pipelines or not, and     *)
(* whoever is dropped: no listed write passes the gate in read-only mode,  *)
(* a pipeline turned away has done nothing, and what is advertised is      *)
(* known and asks for no more than it says.                                *)
THEOREM TheGateHolds == Spec => []GateHolds
<1>1. Init => ToolsInv
  BY ToolsStart
<1>2. ToolsInv /\ [Next]_vars => ToolsInv'
  BY ToolsStep
<1>3. ToolsInv => GateHolds
  BY ToolsHold
<1> QED
  BY <1>1, <1>2, <1>3, PTL DEF Spec

(* The session: analytics counts what came to an end, the record has what  *)
(* was answered in an order that agrees with that of the calls, and its    *)
(* scripts repeat what succeeded.                                          *)
THEOREM TheSessionIsTrue == Spec => []SessionTrue
<1>1. Init => ToolsInv
  BY ToolsStart
<1>2. ToolsInv /\ [Next]_vars => ToolsInv'
  BY ToolsStep
<1>3. ToolsInv => SessionTrue
  BY ToolsHold
<1> QED
  BY <1>1, <1>2, <1>3, PTL DEF Spec
=============================================================================
