------------------------- MODULE TransactionPipeline -------------------------
(***************************************************************************)
(* Transactional pipelines: validate_pipeline and                          *)
(* execute_transaction_pipeline in src/operations/transaction_pipeline.rs, *)
(* as the gRPC handler and the MCP tool call them.  MongoDB is external: a *)
(* transaction per attempt, write locks held until it ends, a commit whose *)
(* outcome may stay unknown, and expiry of transactions nobody ends.       *)
(***************************************************************************)
EXTENDS Naturals, Sequences, FiniteSets

CONSTANTS
  Calls,       (* concurrent calls                                          *)
  Plan,        (* the steps each call brings                                *)
  Names, Keys, (* step names, and the documents steps touch                 *)
  MaxSteps,    (* DEFAULT_TRANSACTION_PIPELINE_MAX_STEPS                    *)
  MaxRetries   (* DEFAULT_TRANSACTION_PIPELINE_MAX_RETRIES                  *)

(* wellFormed stands for the checks on a step by itself: names present and *)
(* well spelt, no nested transaction, limit within the cap.                *)
Step == [name : Names, wellFormed : BOOLEAN, writes : BOOLEAN, key : Keys,
         refs : SUBSET Names]

ASSUME PipelineAssumption ==
  /\ Plan \in [Calls -> Seq(Step)]
  /\ MaxSteps \in Nat /\ MaxRetries \in Nat

VARIABLES
  pc,       (* where each call is                                           *)
  attempt,  (* attempts begun                                               *)
  idx,      (* the step about to run                                        *)
  late,     (* more than max_time_ms have elapsed since the call began      *)
  reply,    (* what the caller was told                                     *)
  txn,      (* external: state of the call's current transaction            *)
  staged,   (* external: steps run in it                                    *)
  durable,  (* external: steps whose effects were committed                 *)
  stranded  (* history: an abort was sent and failed                        *)

vars == <<pc, attempt, idx, late, reply, txn, staged, durable, stranded>>
database == <<txn, staged, durable, stranded>>

Causes == {"invalid", "session", "timeout", "reference", "step", "conflict",
           "commit", "exhausted"}
NoReply == [ok |-> FALSE, cause |-> "none"]
Success(n) == [ok |-> TRUE, completed |-> n]
Failure(cause, at, n, rolledBack) ==
  [ok |-> FALSE, cause |-> cause, step_index |-> at, completed |-> n,
   rolled_back |-> rolledBack]
Replies ==
  {NoReply} \cup [ok : {TRUE}, completed : Nat]
    \cup [ok : {FALSE}, cause : Causes, step_index : Nat, completed : Nat,
          rolled_back : BOOLEAN]

PCs == {"validate", "session", "step", "commit", "done", "gone"}
Staged == [step : Nat, attempt : Nat]

(* Types, and the ranges of the two loop counters.                         *)
TypeOK ==
  /\ pc \in [Calls -> PCs]
  /\ attempt \in [Calls -> 0 .. MaxRetries]
  /\ idx \in [Calls -> Nat]
  /\ \A c \in Calls : idx[c] \in 1 .. Len(Plan[c]) + 1
  /\ late \in [Calls -> BOOLEAN]
  /\ reply \in [Calls -> Replies]
  /\ txn \in [Calls -> {"none", "active", "committed", "aborted"}]
  /\ staged \in [Calls -> Seq(Staged)] /\ durable \in [Calls -> Seq(Staged)]
  /\ stranded \in [Calls -> BOOLEAN]

Init ==
  /\ pc = [c \in Calls |-> "validate"]
  /\ attempt = [c \in Calls |-> 0] /\ idx = [c \in Calls |-> 1]
  /\ late = [c \in Calls |-> FALSE] /\ reply = [c \in Calls |-> NoReply]
  /\ txn = [c \in Calls |-> "none"]
  /\ staged = [c \in Calls |-> <<>>] /\ durable = [c \in Calls |-> <<>>]
  /\ stranded = [c \in Calls |-> FALSE]

-----------------------------------------------------------------------------
(* validate_pipeline.  A step's own name is in seen_names when its         *)
(* references are looked up, so a reference to itself passes.              *)
Valid(steps) ==
  /\ Len(steps) \in 1 .. MaxSteps
  /\ \A i \in DOMAIN steps : steps[i].wellFormed
  /\ \A i, j \in DOMAIN steps : steps[i].name = steps[j].name => i = j
  /\ \A i \in DOMAIN steps : steps[i].refs \subseteq {steps[j].name : j \in 1 .. i}

Current(c) == Plan[c][idx[c]]

(* Names in results_map: the steps run in this attempt.                    *)
Results(c) == {Plan[c][j].name : j \in 1 .. idx[c] - 1}

(* external: another open transaction has written the document.            *)
LockedFor(c) ==
  /\ Current(c).writes
  /\ \E d \in Calls \ {c} :
       /\ txn[d] = "active"
       /\ \E k \in DOMAIN staged[d] :
            LET s == Plan[d][staged[d][k].step] IN s.writes /\ s.key = Current(c).key

Return(c, r) == pc' = [pc EXCEPT ![c] = "done"] /\ reply' = [reply EXCEPT ![c] = r]

(* abort_transaction, its own failure ignored: then the transaction stays  *)
(* open until the server expires it.                                       *)
AbortTransaction(c) ==
  /\ \/ txn' = [txn EXCEPT ![c] = "aborted"] /\ UNCHANGED stranded
     \/ /\ txn[c] = "active"
        /\ stranded' = [stranded EXCEPT ![c] = TRUE] /\ UNCHANGED txn
  /\ UNCHANGED <<staged, durable>>

-----------------------------------------------------------------------------
Validate(c) ==
  /\ pc[c] = "validate"
  /\ IF Valid(Plan[c])
       THEN pc' = [pc EXCEPT ![c] = "session"] /\ UNCHANGED reply
       ELSE Return(c, Failure("invalid", 0, 0, FALSE))
  /\ UNCHANGED <<attempt, idx, late, database>>

(* Fault model: a retry reruns the last step only.                         *)
BeginAttemptResuming(c) ==
  /\ pc[c] = "session" /\ attempt[c] < MaxRetries
  /\ attempt' = [attempt EXCEPT ![c] = @ + 1]
  /\ idx' = [idx EXCEPT ![c] = IF attempt[c] = 0 THEN 1 ELSE Len(Plan[c])]
  /\ pc' = [pc EXCEPT ![c] = "step"]
  /\ txn' = [txn EXCEPT ![c] = "active"] /\ staged' = [staged EXCEPT ![c] = <<>>]
  /\ UNCHANGED <<late, reply, durable, stranded>>

(* Fault model: one attempt too many.                                      *)
BeginAttemptOnceMore(c) ==
  /\ pc[c] = "session" /\ attempt[c] <= MaxRetries
  /\ attempt' = [attempt EXCEPT ![c] = @ + 1]
  /\ idx' = [idx EXCEPT ![c] = 1] /\ pc' = [pc EXCEPT ![c] = "step"]
  /\ txn' = [txn EXCEPT ![c] = "active"] /\ staged' = [staged EXCEPT ![c] = <<>>]
  /\ UNCHANGED <<late, reply, durable, stranded>>

(* Top of the retry loop: a new session, a new transaction, no results.    *)
BeginAttempt(c) ==
  /\ pc[c] = "session" /\ attempt[c] < MaxRetries
  /\ attempt' = [attempt EXCEPT ![c] = @ + 1]
  /\ idx' = [idx EXCEPT ![c] = 1] /\ pc' = [pc EXCEPT ![c] = "step"]
  /\ txn' = [txn EXCEPT ![c] = "active"] /\ staged' = [staged EXCEPT ![c] = <<>>]
  /\ UNCHANGED <<late, reply, durable, stranded>>

(* start_session or start_transaction fails.                               *)
SessionFails(c) ==
  /\ pc[c] = "session" /\ attempt[c] < MaxRetries
  /\ attempt' = [attempt EXCEPT ![c] = @ + 1]
  /\ Return(c, Failure("session", 0, 0, FALSE))
  /\ UNCHANGED <<idx, late, database>>

Exhausted(c) ==
  /\ pc[c] = "session" /\ attempt[c] = MaxRetries
  /\ Return(c, Failure("exhausted", 0, 0, TRUE))
  /\ UNCHANGED <<attempt, idx, late, database>>

(* Fault models: no abort, or the steps counted one too many.              *)
FailStepLeavingOpen(c, cause) ==
  /\ Return(c, Failure(cause, idx[c], idx[c] - 1, TRUE))
  /\ UNCHANGED <<attempt, idx, late, database>>
FailStepCountingIt(c, cause) ==
  /\ AbortTransaction(c)
  /\ Return(c, Failure(cause, idx[c], idx[c], TRUE))
  /\ UNCHANGED <<attempt, idx, late>>

(* Abort and report the current step (counted from 1), and those before.   *)
FailStep(c, cause) ==
  /\ AbortTransaction(c)
  /\ Return(c, Failure(cause, idx[c], idx[c] - 1, TRUE))
  /\ UNCHANGED <<attempt, idx, late>>

(* The deadline is looked at before each step, and nowhere else.           *)
StepTimeout(c) == pc[c] = "step" /\ late[c] /\ FailStep(c, "timeout")

(* A reference names no result, or its path leads nowhere in it.           *)
BadReference(c) ==
  /\ pc[c] = "step" /\ ~late[c] /\ Current(c).refs # {}
  /\ FailStep(c, "reference")

(* Any error of the step, a transient one included, ends the call.         *)
StepFails(c) ==
  /\ pc[c] = "step" /\ ~late[c] /\ Current(c).refs \subseteq Results(c)
  /\ FailStep(c, IF LockedFor(c) THEN "conflict" ELSE "step")

RunStep(c) ==
  /\ pc[c] = "step" /\ ~late[c] /\ Current(c).refs \subseteq Results(c)
  /\ txn[c] = "active" /\ ~LockedFor(c)
  /\ staged' = [staged EXCEPT ![c] = Append(@, [step |-> idx[c], attempt |-> attempt[c]])]
  /\ idx' = [idx EXCEPT ![c] = @ + 1]
  /\ pc' = [pc EXCEPT ![c] = IF idx[c] = Len(Plan[c]) THEN "commit" ELSE "step"]
  /\ UNCHANGED <<attempt, late, reply, txn, durable, stranded>>

-----------------------------------------------------------------------------
(* external: the commit takes effect.                                      *)
MakeDurable(c) ==
  /\ txn[c] = "active"
  /\ txn' = [txn EXCEPT ![c] = "committed"]
  /\ durable' = [durable EXCEPT ![c] = @ \o staged[c]]
  /\ UNCHANGED <<staged, stranded>>

EndAborted(c) ==
  /\ txn' = [txn EXCEPT ![c] = "aborted"] /\ UNCHANGED <<staged, durable, stranded>>

Commit(c) ==
  /\ pc[c] = "commit" /\ MakeDurable(c)
  /\ Return(c, Success(Len(Plan[c])))
  /\ UNCHANGED <<attempt, idx, late>>

(* Fault model: the loop retries after every error.                        *)
CommitRetriesAnyError(c) ==
  /\ pc[c] = "commit" /\ (EndAborted(c) \/ MakeDurable(c))
  /\ pc' = [pc EXCEPT ![c] = "session"]
  /\ UNCHANGED <<attempt, idx, late, reply>>

(* An error labelled TransientTransactionError: nothing was committed.     *)
CommitTransient(c) ==
  /\ pc[c] = "commit" /\ EndAborted(c)
  /\ pc' = [pc EXCEPT ![c] = "session"]
  /\ UNCHANGED <<attempt, idx, late, reply>>

(* Any other error of the commit; the transaction may have committed.      *)
CommitError(c) ==
  /\ pc[c] = "commit" /\ (EndAborted(c) \/ MakeDurable(c))
  /\ Return(c, Failure("commit", Len(Plan[c]) + 1, Len(Plan[c]), TRUE))
  /\ UNCHANGED <<attempt, idx, late>>

-----------------------------------------------------------------------------
(* The environment: time passes, the server expires a transaction, the     *)
(* caller goes away and the future is dropped where it waits.              *)
Expire(c) ==
  /\ pc[c] \in {"session", "step", "commit"} /\ ~late[c]
  /\ late' = [late EXCEPT ![c] = TRUE]
  /\ UNCHANGED <<pc, attempt, idx, reply, database>>

ServerExpires(c) ==
  /\ txn[c] = "active" /\ EndAborted(c)
  /\ UNCHANGED <<pc, attempt, idx, late, reply>>

Abandon(c) ==
  /\ pc[c] \in {"session", "step", "commit"}
  /\ pc' = [pc EXCEPT ![c] = "gone"]
  /\ \/ txn[c] = "active" /\ AbortTransaction(c)
     \/ pc[c] = "commit" /\ MakeDurable(c)
     \/ txn[c] # "active" /\ UNCHANGED database
  /\ UNCHANGED <<attempt, idx, late, reply>>

Work(c) ==
  \/ Validate(c) \/ BeginAttempt(c) \/ SessionFails(c) \/ Exhausted(c)
  \/ StepTimeout(c) \/ BadReference(c) \/ StepFails(c) \/ RunStep(c)
  \/ Commit(c) \/ CommitTransient(c) \/ CommitError(c)

Environment(c) == Expire(c) \/ ServerExpires(c) \/ Abandon(c)

Next == \E c \in Calls : Work(c) \/ Environment(c)

Spec == Init /\ [][Next]_vars

(* The runtime polls every call, and every request to MongoDB returns.     *)
FairSpec == Spec /\ \A c \in Calls : WF_vars(Work(c))

-----------------------------------------------------------------------------
(* Properties.                                                             *)
Done(c) == pc[c] = "done"
Failed(c) == Done(c) /\ ~reply[c].ok
WholePlan(c, a) == [i \in 1 .. Len(Plan[c]) |-> [step |-> i, attempt |-> a]]

(* Whatever is retried, whoever else writes and wherever the caller leaves, *)
(* what becomes durable is nothing or the whole pipeline, run once, in     *)
(* order, by one single attempt.                                           *)
AllOrNothing ==
  \A c \in Calls :
    durable[c] = <<>> \/ \E a \in 1 .. MaxRetries : durable[c] = WholePlan(c, a)

(* The caller can trust the answer: success means the pipeline is durable; *)
(* a failure of any kind but a commit error means nothing is.              *)
AnswerMatchesOutcome ==
  \A c \in Calls : Done(c) =>
    IF reply[c].ok THEN durable[c] # <<>>
    ELSE reply[c].cause # "commit" => durable[c] = <<>>

(* No call returns with its transaction, and the locks it holds, left open *)
(* unless the abort it sent has failed.                                    *)
NoneLeftOpen ==
  \A c \in Calls : Done(c) /\ txn[c] = "active" => stranded[c]

(* The steps reported complete are those before the reported step, and     *)
(* they are exactly the steps the last transaction ran.                    *)
ReportsProgress ==
  \A c \in Calls :
    Failed(c) /\ reply[c].cause \notin {"invalid", "session", "exhausted"}
      => /\ reply[c].completed = reply[c].step_index - 1
         /\ Len(staged[c]) = reply[c].completed

(* Every call returns, unless its caller leaves.                           *)
EventuallyReturns == <>(\A c \in Calls : pc[c] \in {"done", "gone"})

-----------------------------------------------------------------------------
(* A statement of the documentation that the code does not keep, refuted   *)
(* by a run of its own.                                                    *)

(* docs/transactional-pipelines.md:206: rolled_back says whether the       *)
(* transaction was aborted, always true on failure.                        *)
RolledBackIsTrue ==
  \A c \in Calls : Failed(c) /\ reply[c].rolled_back => durable[c] = <<>>
=============================================================================
