----------------------------- MODULE GrpcService -----------------------------
(***************************************************************************)
(* The gRPC calls of MongoCoreService that are not streams: unary calls,   *)
(* client transactions and pipelines of operations, in                     *)
(* src/grpc/service.rs with src/operations/transaction.rs.                 *)
(*                                                                         *)
(* Open transactions are kept in a DashMap.  An operation in a transaction *)
(* holds a guard of the map, which locks a whole shard, while it awaits    *)
(* MongoDB; whoever else wants the shard blocks its thread meanwhile, and  *)
(* a pipeline runs all of its operations within one task.                  *)
(***************************************************************************)
EXTENDS Naturals, Sequences, FiniteSets, GrpcRequests

CONSTANTS
  Calls,        (* the calls that may be under way at one time              *)
  Scenes,       (* functions that say what each of them asks for            *)
  TxnIds,       (* transaction ids                                          *)
  Opened,       (* those begun by earlier calls                             *)
  Shards, Shard,(* Shard[t]: where the map keeps t                          *)
  Workers,      (* threads of the runtime                                   *)
  MaxConcurrency(* permits of the pipeline semaphore                        *)

(* Assumed where the module is instantiated: an operation is made by one   *)
(* of the constructors of GrpcRequests.                                    *)
WellFormed(op) ==
  /\ op.kind \in Kinds /\ op.txn \in TxnIds \union {None}
  /\ op.kind = "begin" => op.txn = None
  /\ op.kind \in {"commit", "abort"} => op.txn # None /\ ~op.h.op.writes

ServiceAssumption ==
  /\ IsFiniteSet(Calls)
  /\ \A f \in Scenes : DOMAIN f \subseteq Calls
  /\ \A f \in Scenes : \A c \in DOMAIN f :
       LET r == f[c] IN
       /\ r.pipeline \in BOOLEAN /\ Len(r.ops) \in Nat \ {0}
       /\ DOMAIN r.ops = 1 .. Len(r.ops) /\ \A i \in DOMAIN r.ops : WellFormed(r.ops[i])
       /\ IF r.pipeline THEN \A i \in DOMAIN r.ops : r.ops[i].h \in InPipeline
          ELSE Len(r.ops) = 1
  /\ Opened \subseteq TxnIds /\ None \notin TxnIds \union (Calls \X Nat)
  /\ Shard \in [TxnIds -> Shards]
  /\ Workers \in Nat \ {0} /\ MaxConcurrency \in Nat \ {0}

VARIABLES
  req,      (* what each call asks for                                      *)
  reply,    (* "none", "open", and in the end "ok", "error", "deadline", "gone" *)
  st,       (* st[c][i]: where operation i of the call is                   *)
  begun,    (* <<o, t>>: operation o has started the new transaction t      *)
  registry, (* the map: transactions clients can name                       *)
  guard,    (* guard[s]: the operation holding a guard of shard s           *)
  permits,  (* free permits of the pipeline semaphore                       *)
  mongo,    (* MongoDB: state of each transaction                           *)
  inFlight, (* operations MongoDB may still execute                         *)
  executed, (* those it has executed                                        *)
  durable,  (* the writes among them that are there for good                *)
  total, errors (* analytics counters                                       *)

mapState == <<begun, registry, guard>>
dbState  == <<mongo, inFlight, executed, durable>>
counters == <<total, errors>>
vars == <<req, reply, st, begun, registry, guard, permits, mongo, inFlight,
          executed, durable, total, errors>>

Index(c) == IF c \in DOMAIN req THEN DOMAIN req[c].ops ELSE {}
Ops      == UNION {{c} \X Index(c) : c \in Calls}
At(o)    == st[o[1]][o[2]]
Asked(o) == req[o[1]].ops[o[2]]

OpDone   == {"ok", "error", "refused", "notfound", "dropped"}
OpStates == OpDone \union {"permit", "ready", "sent", "insert", "blocked"}

(* Types; a guard is held by an operation under way, and only then.        *)
TypeOK ==
  /\ req \in Scenes
  /\ reply \in [Calls -> {"none", "open", "ok", "error", "deadline", "gone"}]
  /\ \A o \in Ops : At(o) \in OpStates
  /\ begun \subseteq Ops \X TxnIds /\ registry \subseteq TxnIds
  /\ \A s \in Shards : guard[s] # None =>
       guard[s] \in Ops /\ At(guard[s]) = "sent" /\ Shard[Asked(guard[s]).txn] = s
  /\ permits \in 0 .. MaxConcurrency
  /\ mongo \in [TxnIds -> {"unused", "open", "committed", "aborted"}]
  /\ inFlight \subseteq Ops /\ executed \subseteq Ops /\ durable \subseteq executed
  /\ errors \in 0 .. total /\ total <= Cardinality(Calls)

Init ==
  /\ req \in Scenes
  /\ reply = [c \in Calls |-> IF c \in DOMAIN req THEN "open" ELSE "none"]
  /\ st = [c \in DOMAIN req |-> [i \in Index(c) |-> IF req[c].pipeline THEN "permit" ELSE "ready"]]
  /\ begun = {}
  /\ registry = Opened /\ guard = [s \in Shards |-> None]
  /\ permits = MaxConcurrency
  /\ mongo = [t \in TxnIds |-> IF t \in Opened THEN "open" ELSE "unused"]
  /\ inFlight = {} /\ executed = {} /\ durable = {}
  /\ total = 0 /\ errors = 0

-----------------------------------------------------------------------------
(* Threads.  A task that blocks keeps its worker; any other needs a free   *)
(* one for each of its steps.                                              *)
Blocked(c) == \E i \in Index(c) : st[c][i] = "blocked"
Runs(c) ==
  /\ reply[c] = "open" /\ ~Blocked(c)
  /\ Cardinality({d \in Calls : Blocked(d)}) < Workers

Go(c, i, s) == st' = [st EXCEPT ![c][i] = s]

(* The end of an operation: its permit and its guard come back.            *)
HoldsPermit(c, i) == req[c].pipeline /\ st[c][i] \notin OpDone \union {"permit"}
Unguard(os) == guard' = [s \in Shards |-> IF guard[s] \in os THEN None ELSE guard[s]]
End(c, i, s) ==
  /\ Go(c, i, s) /\ Unguard({<<c, i>>})
  /\ permits' = permits + (IF HoldsPermit(c, i) THEN 1 ELSE 0)

Acquire(c, i) ==
  /\ Runs(c) /\ st[c][i] = "permit" /\ permits > 0
  /\ permits' = permits - 1 /\ Go(c, i, "ready")
  /\ UNCHANGED <<req, reply, mapState, dbState, counters>>

(* Arguments that do not decode.                                           *)
Refuse(c, i) ==
  /\ Runs(c) /\ st[c][i] = "ready" /\ req[c].ops[i].h.input
  /\ End(c, i, "refused")
  /\ UNCHANGED <<req, reply, begun, registry, dbState, counters>>

Send(c, i) == Go(c, i, "sent") /\ inFlight' = inFlight \union {<<c, i>>}

(* Without a transaction: straight to MongoDB.                             *)
SendPlain(c, i) ==
  /\ Runs(c) /\ st[c][i] = "ready" /\ req[c].ops[i].txn = None
  /\ Send(c, i)
  /\ UNCHANGED <<req, reply, mapState, permits, mongo, executed, durable, counters>>

-----------------------------------------------------------------------------
(* The map.  An operation wants the shard of its transaction, a begin that *)
(* of the id it has made.                                                  *)
Wanted(c, i) ==
  IF req[c].ops[i].kind = "begin" THEN CHOOSE t \in TxnIds : <<<<c, i>>, t>> \in begun
  ELSE req[c].ops[i].txn
AtMap(c, i) ==
  \/ st[c][i] = "ready" /\ req[c].ops[i].txn # None
  \/ st[c][i] \in {"insert", "blocked"}
HasShard(c, i) ==
  AtMap(c, i) /\ (Runs(c) \/ st[c][i] = "blocked") /\ guard[Shard[Wanted(c, i)]] = None

Block(c, i) ==
  /\ Runs(c) /\ AtMap(c, i) /\ guard[Shard[Wanted(c, i)]] # None
  /\ Go(c, i, "blocked")
  /\ UNCHANGED <<req, reply, mapState, permits, dbState, counters>>

(* get_mut finds the transaction; the guard is held until MongoDB answers. *)
(* Fault model: the session is taken by a clone and the guard let go.      *)
LookupCloning(c, i) ==
  /\ HasShard(c, i) /\ req[c].ops[i].kind = "data" /\ Wanted(c, i) \in registry
  /\ Send(c, i)
  /\ UNCHANGED <<req, reply, mapState, permits, mongo, executed, durable, counters>>

Lookup(c, i) ==
  /\ HasShard(c, i) /\ req[c].ops[i].kind = "data" /\ Wanted(c, i) \in registry
  /\ guard' = [guard EXCEPT ![Shard[Wanted(c, i)]] = <<c, i>>] /\ Send(c, i)
  /\ UNCHANGED <<req, reply, begun, registry, permits, mongo, executed, durable, counters>>

(* Fault model: an operation whose transaction is gone runs without one.   *)
NotFoundRunsPlain(c, i) ==
  /\ HasShard(c, i) /\ req[c].ops[i].kind # "begin" /\ Wanted(c, i) \notin registry
  /\ End(c, i, "ok")
  /\ executed' = executed \union {<<c, i>>} /\ durable' = durable \union {<<c, i>>}
  /\ UNCHANGED <<req, reply, begun, registry, mongo, inFlight, counters>>

NotFound(c, i) ==
  /\ HasShard(c, i) /\ req[c].ops[i].kind # "begin" /\ Wanted(c, i) \notin registry
  /\ End(c, i, "notfound")
  /\ UNCHANGED <<req, reply, begun, registry, dbState, counters>>

Ends(c, i) == req[c].ops[i].kind \in {"commit", "abort"}

(* Fault models: commit and abort leave the entry in the map; or remove it *)
(* while they hold a guard of it, and wait for themselves.                 *)
TakeOutKeeping(c, i) ==
  /\ HasShard(c, i) /\ Ends(c, i) /\ Wanted(c, i) \in registry
  /\ Send(c, i)
  /\ UNCHANGED <<req, reply, mapState, permits, mongo, executed, durable, counters>>
TakeOutGuarded(c, i) ==
  /\ HasShard(c, i) /\ Ends(c, i) /\ Wanted(c, i) \in registry
  /\ guard' = [guard EXCEPT ![Shard[Wanted(c, i)]] = <<c, i>>] /\ Go(c, i, "blocked")
  /\ UNCHANGED <<req, reply, begun, registry, permits, dbState, counters>>

(* commit and abort remove the transaction from the map before they send.  *)
TakeOut(c, i) ==
  /\ HasShard(c, i) /\ Ends(c, i) /\ Wanted(c, i) \in registry
  /\ registry' = registry \ {Wanted(c, i)} /\ Send(c, i)
  /\ UNCHANGED <<req, reply, begun, guard, permits, mongo, executed, durable, counters>>

(* begin: the session is there, its new id goes into the map.              *)
Began(c, i) ==
  /\ Runs(c) /\ st[c][i] = "sent" /\ req[c].ops[i].kind = "begin"
  /\ \E t \in TxnIds :
       /\ mongo[t] = "unused" /\ \A p \in begun : p[2] # t
       /\ begun' = begun \union {<<<<c, i>>, t>>}
  /\ Go(c, i, "insert") /\ inFlight' = inFlight \ {<<c, i>>}
  /\ UNCHANGED <<req, reply, registry, guard, permits, mongo, executed, durable, counters>>

Enter(c, i) ==
  /\ HasShard(c, i) /\ req[c].ops[i].kind = "begin"
  /\ registry' = registry \union {Wanted(c, i)}
  /\ mongo' = [mongo EXCEPT ![Wanted(c, i)] = "open"]
  /\ Go(c, i, "ok") /\ permits' = permits + (IF HoldsPermit(c, i) THEN 1 ELSE 0)
  /\ UNCHANGED <<req, reply, begun, guard, inFlight, executed, durable, counters>>

-----------------------------------------------------------------------------
(* MongoDB, external: it executes what it was sent, though the sender may  *)
(* have gone; it gives up a transaction after a while.                     *)
WritesOf(t) == {o \in executed : Asked(o).kind = "data" /\ Asked(o).txn = t /\ Asked(o).h.op.writes}

Execute(o) ==
  LET asked == Asked(o) IN
  /\ o \in inFlight /\ asked.kind # "begin" /\ (asked.txn # None => mongo[asked.txn] = "open")
  /\ inFlight' = inFlight \ {o} /\ executed' = executed \union {o}
  /\ durable' = durable \union
       (IF asked.kind = "commit" THEN WritesOf(asked.txn)
        ELSE IF asked.kind = "data" /\ asked.txn = None /\ asked.h.op.writes THEN {o} ELSE {})
  /\ mongo' = IF asked.kind \in {"commit", "abort"}
                THEN [mongo EXCEPT ![asked.txn] = IF asked.kind = "commit" THEN "committed" ELSE "aborted"]
                ELSE mongo
  /\ UNCHANGED <<req, reply, st, mapState, permits, counters>>

Expire(t) ==
  /\ mongo[t] = "open" /\ mongo' = [mongo EXCEPT ![t] = "aborted"]
  /\ UNCHANGED <<req, reply, st, mapState, permits, inFlight, executed, durable, counters>>

-----------------------------------------------------------------------------
(* An answer, or an error of the driver whatever MongoDB has done or will  *)
(* do; the same when the time-out of the operation has passed.             *)
Answer(c, i) ==
  /\ Runs(c) /\ st[c][i] = "sent"
  /\ \/ <<c, i>> \in executed /\ End(c, i, "ok")
     \/ End(c, i, "error")
  /\ UNCHANGED <<req, reply, begun, registry, dbState, counters>>

TimedOut(c, i) ==
  /\ Runs(c) /\ st[c][i] = "sent" /\ req[c].ops[i].txn = None /\ req[c].ops[i].h.op.timed
  /\ End(c, i, "error")
  /\ UNCHANGED <<req, reply, begun, registry, dbState, counters>>

(* Analytics gets the outcomes of unary calls on data, and of pipelines.   *)
Record(c) ==
  LET failed == \E i \in Index(c) : st[c][i] # "ok"
      counts == \/ req[c].pipeline
                \/ req[c].ops[1].h.event /\ st[c][1] \in {"ok", "error"}
  IN  /\ total' = total + (IF counts THEN 1 ELSE 0)
      /\ errors' = errors + (IF counts /\ failed THEN 1 ELSE 0)

(* A pipeline answers "ok" with a result for each operation.               *)
Finish(c) ==
  /\ Runs(c) /\ \A i \in Index(c) : st[c][i] \in OpDone
  /\ reply' = [reply EXCEPT ![c] = IF req[c].pipeline \/ st[c][1] = "ok" THEN "ok" ELSE "error"]
  /\ Record(c)
  /\ UNCHANGED <<req, st, mapState, permits, dbState>>

(* Fault model: permits are handed back only by operations that end.       *)
DropKeepingPermits(c) ==
  /\ Runs(c) /\ \A i \in Index(c) : st[c][i] # "insert"
  /\ \/ req[c].pipeline /\ reply' = [reply EXCEPT ![c] = "deadline"]
     \/ reply' = [reply EXCEPT ![c] = "gone"]
  /\ st' = [st EXCEPT ![c] = [i \in Index(c) |-> IF st[c][i] \in OpDone THEN st[c][i] ELSE "dropped"]]
  /\ Unguard({c} \X Index(c))
  /\ UNCHANGED <<req, begun, registry, permits, dbState, counters>>

(* The pipeline's time-out, or a client that leaves: the operations under  *)
(* way are dropped with what they hold.                                    *)
Drop(c) ==
  /\ Runs(c) /\ \A i \in Index(c) : st[c][i] # "insert"
  /\ \/ req[c].pipeline /\ reply' = [reply EXCEPT ![c] = "deadline"]
     \/ reply' = [reply EXCEPT ![c] = "gone"]
  /\ st' = [st EXCEPT ![c] = [i \in Index(c) |-> IF st[c][i] \in OpDone THEN st[c][i] ELSE "dropped"]]
  /\ Unguard({c} \X Index(c))
  /\ permits' = permits + Cardinality({i \in Index(c) : HoldsPermit(c, i)})
  /\ UNCHANGED <<req, begun, registry, dbState, counters>>

OpStep(c, i) ==
  \/ Acquire(c, i) \/ Refuse(c, i) \/ SendPlain(c, i) \/ Block(c, i) \/ Lookup(c, i)
  \/ NotFound(c, i) \/ TakeOut(c, i) \/ Began(c, i) \/ Enter(c, i) \/ Answer(c, i)
  \/ TimedOut(c, i)

Step(c) == Finish(c) \/ \E i \in Index(c) : OpStep(c, i)

Next ==
  \/ \E c \in Calls : Step(c) \/ Drop(c)
  \/ \E o \in inFlight : Execute(o)
  \/ \E t \in TxnIds : Expire(t)

Spec == Init /\ [][Next]_vars

(* The runtime polls a call that can go on, and the driver returns, if     *)
(* only with a time-out.  MongoDB owes nothing, nor does a client.         *)
FairSpec == Spec /\ \A c \in Calls : WF_vars(Step(c))

-----------------------------------------------------------------------------
(* Properties.                                                             *)
Sent(t) == {o \in Ops : At(o) = "sent" /\ Asked(o).txn = t}

(* A session, which the driver allows one user at a time, has one: the map *)
(* guard excludes operations from each other and from commit and abort.    *)
SessionExclusive == \A t \in TxnIds : Cardinality(Sent(t)) <= 1

(* Nothing is sent in a transaction whose commit or abort was sent, nor is *)
(* a second of these, whatever came of the first.                          *)
Ending(o) == Asked(o).kind \in {"commit", "abort"} /\ At(o) \in {"sent", "ok", "error", "dropped"}
SentEnd(t) == \E o \in Ops : Asked(o).txn = t /\ Ending(o) /\ o \in inFlight \union executed
EndedIsGone ==
  [][\A t \in TxnIds : SentEnd(t) => Sent(t)' \subseteq Sent(t)]_vars

(* A committed transaction has all that was acknowledged in it; of one     *)
(* that is not, nothing is durable.                                        *)
TransactionAtomic ==
  \A t \in TxnIds :
    IF mongo[t] = "committed"
      THEN {o \in Ops : Asked(o).txn = t /\ Asked(o).h.op.writes /\ At(o) = "ok"} \subseteq durable
      ELSE \A o \in durable : Asked(o).txn # t

(* Each result, of a call or within a pipeline, tells the truth.           *)
ResultsHonest ==
  \A o \in Ops :
    /\ At(o) \in {"refused", "notfound", "permit"} => o \notin executed \union inFlight
    /\ At(o) = "ok" /\ Asked(o).kind = "commit" => mongo[Asked(o).txn] = "committed"
    /\ At(o) = "ok" /\ Asked(o).kind = "abort" => mongo[Asked(o).txn] = "aborted"
    /\ At(o) = "ok" /\ Asked(o).kind = "data" /\ Asked(o).h.op.writes /\ Asked(o).txn = None => o \in durable

(* Together: whatever the driver, the time-outs and the clients do, what a *)
(* call or an operation of a pipeline is told is what MongoDB has.         *)
ResultsTrue == TransactionAtomic /\ ResultsHonest

(* The semaphore is one for all pipelines; a pipeline that times out or is *)
(* left gives back what it has.                                            *)
PermitsConserved ==
  permits + Cardinality({o \in Ops : HoldsPermit(o[1], o[2])}) = MaxConcurrency

(* The counters tell of the calls answered with an outcome of MongoDB and  *)
(* of the pipelines answered, and of no other.                             *)
Counted(c) ==
  /\ reply[c] \in {"ok", "error"}
  /\ \/ req[c].pipeline
     \/ req[c].ops[1].h.event /\ st[c][1] \in {"ok", "error"}
CountersMatch ==
  /\ total = Cardinality({c \in Calls : Counted(c)})
  /\ errors = Cardinality({c \in Calls : Counted(c) /\ \E i \in Index(c) : st[c][i] # "ok"})

(* The books of the service balance: its types, guards among them, its     *)
(* semaphore and its counters, also when calls are dropped half way.       *)
Accounts == TypeOK /\ PermitsConserved /\ CountersMatch

(* Every call returns.  It takes a thread for each call that may block,    *)
(* and no two operations of one pipeline on the same shard: the second     *)
(* would block the thread that has to finish the first.                    *)
EveryCallReturns == <>(\A c \in Calls : reply[c] # "open")
=============================================================================
