---------------------------- MODULE GrpcRequests ----------------------------
(***************************************************************************)
(* What can be asked of the unary calls and pipelines of MongoCoreService  *)
(* in src/grpc/service.rs: the handlers and the requests made of them.     *)
(***************************************************************************)
CONSTANT None  (* "no transaction" *)

(***************************************************************************)
(* What the handlers await: an operation on the data, which may change it, *)
(* mostly under a time-out (an aggregation that writes, $out, is left out);*)
(* the session of a transaction knows no time-out.                         *)
(***************************************************************************)
Crud(writes) == [writes |-> writes, timed |-> TRUE]
FindModify   == [writes |-> TRUE, timed |-> TRUE]
Aggregation  == [writes |-> FALSE, timed |-> TRUE]
Admin        == [writes |-> TRUE, timed |-> TRUE]
Raw          == [writes |-> TRUE, timed |-> FALSE]
Untimed      == [writes |-> FALSE, timed |-> FALSE]

(* The handlers.  input: it decodes or validates its arguments first and   *)
(* may refuse them; session: it takes a transaction id; event: its outcome *)
(* is recorded by analytics.                                               *)
Handler(name, input, session, event, op) ==
  [name |-> name, input |-> input, session |-> session, event |-> event, op |-> op]

Find             == Handler("find", TRUE, TRUE, TRUE, Crud(FALSE))
FindOne          == Handler("find_one", TRUE, FALSE, TRUE, Crud(FALSE))
Insert           == Handler("insert", TRUE, TRUE, TRUE, Crud(TRUE))
InsertMany       == Handler("insert_many", TRUE, FALSE, TRUE, Crud(TRUE))
Update           == Handler("update", TRUE, TRUE, TRUE, Crud(TRUE))
UpdateMany       == Handler("update_many", TRUE, FALSE, TRUE, Crud(TRUE))
Delete           == Handler("delete", TRUE, TRUE, TRUE, Crud(TRUE))
DeleteMany       == Handler("delete_many", TRUE, FALSE, TRUE, Crud(TRUE))
FindAndModify    == Handler("find_and_modify", TRUE, FALSE, TRUE, FindModify)
Aggregate        == Handler("aggregate", TRUE, FALSE, TRUE, Aggregation)
Search           == Handler("search", FALSE, FALSE, TRUE, Untimed)
CountDocuments   == Handler("count_documents", TRUE, FALSE, TRUE, Crud(FALSE))
RunCommand       == Handler("run_command", TRUE, FALSE, TRUE, Raw)
CreateCollection == Handler("create_collection", FALSE, FALSE, FALSE, Admin)
CreateIndex      == Handler("create_index", TRUE, FALSE, FALSE, Admin)
DropCollection   == Handler("drop_collection", FALSE, FALSE, FALSE, Admin)
ListDatabases    == Handler("list_databases", FALSE, FALSE, FALSE, Untimed)
ListCollections  == Handler("list_collections", FALSE, FALSE, FALSE, Untimed)
EndHandler       == Handler("transaction", FALSE, FALSE, FALSE, Untimed)

(* What a pipeline may hold, each run as its unary call is.                *)
PipelineReads  == {Find, FindOne}
PipelineWrites == {Insert, InsertMany, Update, UpdateMany, Delete, DeleteMany}
PipelineOther  == {Aggregate, FindAndModify, RunCommand, Search}
PipelineAdmin  == {CreateCollection, CreateIndex, ListDatabases, ListCollections}
PipelineTxn    == {EndHandler}
InPipeline ==
  PipelineReads \union PipelineWrites \union PipelineOther \union PipelineAdmin \union PipelineTxn

(* A request: one operation, or a pipeline of them.  An operation is a     *)
(* handler on the data or one of the three that touch the map of           *)
(* transactions themselves.                                                *)
Kinds == {"data", "begin", "commit", "abort"}
Data(h, t) == [kind |-> "data", h |-> h, txn |-> IF h.session THEN t ELSE None]
Begin      == [kind |-> "begin", h |-> EndHandler, txn |-> None]
Commit(t)  == [kind |-> "commit", h |-> EndHandler, txn |-> t]
Abort(t)   == [kind |-> "abort", h |-> EndHandler, txn |-> t]
Unary(op)     == [pipeline |-> FALSE, ops |-> <<op>>]
Pipeline(ops) == [pipeline |-> TRUE, ops |-> ops]
=============================================================================
