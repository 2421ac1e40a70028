-------------------------- MODULE GrpcCalls_proof --------------------------
(***************************************************************************)
(* Proofs about MCGrpcService.  The pipelines of TransactionPipeline, for  *)
(* every set of calls, every plan and every number of retries; the calls   *)
(* behave as GrpcService says, so that what is proved there                *)
(* (GrpcService_proof) holds of them; and both stay so side by side.       *)
(***************************************************************************)
EXTENDS MCGrpcService, TLAPS

-----------------------------------------------------------------------------
(* The pipelines.                                                          *)

(* The steps the current attempt has run.                                  *)
Ran(c) == [i \in 1 .. idx[c] - 1 |-> [step |-> i, attempt |-> attempt[c]]]

(* Until a call commits nothing of it is durable, and its transaction      *)
(* holds exactly the steps of its current attempt.                         *)
Working(c) ==
  /\ pc[c] \in {"validate", "session", "step", "commit"} => durable[c] = <<>>
  /\ pc[c] \in {"validate", "session"} => txn[c] # "active"
  /\ pc[c] \in {"session", "step", "commit"} => Len(Plan[c]) >= 1
  /\ pc[c] = "step" => idx[c] <= Len(Plan[c])
  /\ pc[c] = "commit" => idx[c] = Len(Plan[c]) + 1
  /\ pc[c] \in {"step", "commit"} => attempt[c] >= 1 /\ staged[c] = Ran(c)

AllOrNothingFor(c) ==
  durable[c] = <<>> \/ \E n \in 1 .. MaxRetries : durable[c] = WholePlan(c, n)
AnswerMatchesFor(c) ==
  Done(c) =>
    IF reply[c].ok THEN durable[c] # <<>>
    ELSE reply[c].cause # "commit" => durable[c] = <<>>
NoneLeftOpenFor(c) == Done(c) /\ txn[c] = "active" => stranded[c]
ReportsFor(c) ==
  Failed(c) /\ reply[c].cause \notin {"invalid", "session", "exhausted"}
    => /\ reply[c].completed = reply[c].step_index - 1
       /\ Len(staged[c]) = reply[c].completed

Ended(c) ==
  AllOrNothingFor(c) /\ AnswerMatchesFor(c) /\ NoneLeftOpenFor(c) /\ ReportsFor(c)

CallInv(c) == Working(c) /\ Ended(c)

IInv == TypeOK /\ \A c \in Calls : CallInv(c)

-----------------------------------------------------------------------------
(* The plan of a call is a sequence, and its length a number.              *)
LEMMA PlanLength ==
  ASSUME NEW c \in Calls
  PROVE  Plan[c] \in Seq(Step) /\ Len(Plan[c]) \in Nat
BY PipelineAssumption

(* What a call is told has the type of a reply.                            *)
LEMMA ReplyTyped ==
  ASSUME NEW cause \in Causes, NEW at \in Nat, NEW n \in Nat, NEW rolledBack \in BOOLEAN
  PROVE  /\ Failure(cause, at, n, rolledBack) \in Replies
         /\ Success(n) \in Replies
BY DEF Failure, Success, Replies

(* A step of one call leaves what is known of the others.                  *)
LEMMA OtherCalls ==
  ASSUME NEW d \in Calls, CallInv(d),
         pc'[d] = pc[d], attempt'[d] = attempt[d], idx'[d] = idx[d],
         reply'[d] = reply[d], txn'[d] = txn[d], staged'[d] = staged[d],
         durable'[d] = durable[d], stranded'[d] = stranded[d]
  PROVE  CallInv(d)'
<1>1. Working(d)'
  BY DEF CallInv, Working, Ran
<1>2. Ended(d)'
  BY DEF CallInv, Ended, AllOrNothingFor, AnswerMatchesFor, NoneLeftOpenFor,
         ReportsFor, WholePlan, Done, Failed
<1>3. QED
  BY <1>1, <1>2 DEF CallInv

(* An aborted step: nothing durable changes, the transaction is closed or  *)
(* its abort has failed.                                                   *)
LEMMA AbortEffect ==
  ASSUME TypeOK, NEW c \in Calls, AbortTransaction(c)
  PROVE  /\ txn' \in [Calls -> {"none", "active", "committed", "aborted"}]
         /\ stranded' \in [Calls -> BOOLEAN]
         /\ staged' = staged /\ durable' = durable
         /\ txn'[c] = "active" => stranded'[c]
         /\ \A d \in Calls : d # c => txn'[d] = txn[d] /\ stranded'[d] = stranded[d]
BY DEF TypeOK, AbortTransaction

(* A commit, or the same outcome unreported, publishes what was staged.    *)
LEMMA CommitEffect ==
  ASSUME TypeOK, NEW c \in Calls, CallInv(c), pc[c] = "commit", MakeDurable(c)
  PROVE  /\ txn' = [txn EXCEPT ![c] = "committed"]
         /\ durable' \in [Calls -> Seq(Staged)]
         /\ staged' = staged /\ stranded' = stranded
         /\ attempt[c] \in 1 .. MaxRetries
         /\ durable'[c] = WholePlan(c, attempt[c]) /\ Len(staged[c]) = Len(Plan[c])
         /\ durable'[c] # <<>>
         /\ \A d \in Calls : d # c => durable'[d] = durable[d]
<1>1. durable[c] = <<>> /\ staged[c] = Ran(c) /\ idx[c] = Len(Plan[c]) + 1
      /\ attempt[c] >= 1
  BY DEF CallInv, Working
<1>2. attempt[c] \in 1 .. MaxRetries
  BY <1>1, PipelineAssumption DEF TypeOK
<1>3. staged[c] = WholePlan(c, attempt[c]) /\ Len(staged[c]) = Len(Plan[c])
  BY <1>1, PlanLength DEF Ran, WholePlan
<1>4. durable[c] \o staged[c] = staged[c] /\ staged[c] \in Seq(Staged)
  BY <1>1 DEF TypeOK
<1>5. durable'[c] = staged[c] /\ durable' \in [Calls -> Seq(Staged)]
  BY <1>4 DEF TypeOK, MakeDurable
<1>6. durable'[c] # <<>>
  BY <1>3, <1>5, PlanLength DEF CallInv, Working
<1>7. QED
  BY <1>2, <1>3, <1>5, <1>6 DEF TypeOK, MakeDurable

-----------------------------------------------------------------------------
(* One lemma per kind of step: the types and the acting call's invariant.  *)
LEMMA ValidateStep ==
  ASSUME TypeOK, NEW c \in Calls, CallInv(c), Validate(c)
  PROVE  TypeOK' /\ CallInv(c)'
<1> USE PlanLength
<1>1. CASE Valid(Plan[c])
  <2>1. pc' = [pc EXCEPT ![c] = "session"] /\ Len(Plan[c]) >= 1
        /\ UNCHANGED <<attempt, idx, late, reply, txn, staged, durable, stranded>>
    <3>1. Len(Plan[c]) \in 1 .. MaxSteps
      BY <1>1 DEF Valid
    <3>2. QED
      BY <1>1, <3>1, PipelineAssumption DEF Validate, database
  <2>2. pc[c] = "validate"
    BY DEF Validate
  <2>3. QED
    BY <2>1, <2>2 DEF TypeOK, PCs, CallInv, Working, Ended, AllOrNothingFor,
       AnswerMatchesFor, NoneLeftOpenFor, ReportsFor, WholePlan, Done, Failed
<1>2. CASE ~Valid(Plan[c])
  <2>1. /\ pc' = [pc EXCEPT ![c] = "done"]
        /\ reply' = [reply EXCEPT ![c] = Failure("invalid", 0, 0, FALSE)]
        /\ pc[c] = "validate"
        /\ UNCHANGED <<attempt, idx, late, txn, staged, durable, stranded>>
    BY <1>2 DEF Validate, Return, database
  <2>2. Failure("invalid", 0, 0, FALSE) \in Replies
    BY ReplyTyped DEF Causes
  <2>3. reply'[c].cause = "invalid" /\ reply'[c].ok = FALSE
    BY <2>1 DEF TypeOK, Failure
  <2>4. QED
    BY <2>1, <2>2, <2>3 DEF TypeOK, PCs, CallInv, Working, Ended, AllOrNothingFor,
       AnswerMatchesFor, NoneLeftOpenFor, ReportsFor, Done, Failed
<1>3. QED
  BY <1>1, <1>2

LEMMA SessionStep ==
  ASSUME TypeOK, NEW c \in Calls, CallInv(c),
         BeginAttempt(c) \/ SessionFails(c) \/ Exhausted(c)
  PROVE  TypeOK' /\ CallInv(c)'
<1> USE PlanLength, PipelineAssumption
<1>0. pc[c] = "session" /\ durable[c] = <<>> /\ txn[c] # "active" /\ Len(Plan[c]) >= 1
  BY DEF BeginAttempt, SessionFails, Exhausted, CallInv, Working
<1>1. CASE BeginAttempt(c)
  <2>1. TypeOK'
    BY SMTT(20), <1>0, <1>1 DEF TypeOK, PCs, BeginAttempt
  <2>2. idx'[c] = 1 /\ staged'[c] = <<>> /\ attempt'[c] >= 1 /\ pc'[c] = "step"
        /\ durable' = durable
    BY <1>1 DEF TypeOK, BeginAttempt
  <2>3. staged'[c] = Ran(c)'
    BY <2>2 DEF Ran
  <2>4. QED
    BY <1>0, <2>1, <2>2, <2>3 DEF CallInv, Working, Ended, AllOrNothingFor,
       AnswerMatchesFor, NoneLeftOpenFor, ReportsFor, Done, Failed
<1>2. ASSUME NEW cause \in {"session", "exhausted"}, NEW told \in BOOLEAN,
             Return(c, Failure(cause, 0, 0, told)),
             attempt' \in [Calls -> 0 .. MaxRetries],
             UNCHANGED <<idx, late, txn, staged, durable, stranded>>
      PROVE  TypeOK' /\ CallInv(c)'
  <2>1. Failure(cause, 0, 0, told) \in Replies
    BY ReplyTyped DEF Causes
  <2>2. reply'[c].cause = cause /\ reply'[c].ok = FALSE /\ pc'[c] = "done"
        /\ TypeOK'
    BY <1>2, <2>1 DEF TypeOK, PCs, Return, Failure
  <2>3. QED
    BY <1>0, <1>2, <2>2 DEF CallInv, Working, Ended, AllOrNothingFor,
       AnswerMatchesFor, NoneLeftOpenFor, ReportsFor, Done, Failed
<1>3. CASE SessionFails(c)
  <2>1. attempt' \in [Calls -> 0 .. MaxRetries]
    BY <1>3 DEF TypeOK, SessionFails
  <2>2. QED
    BY <1>2, <1>3, <2>1 DEF SessionFails, database
<1>4. CASE Exhausted(c)
  BY <1>2, <1>4 DEF TypeOK, Exhausted, database
<1>5. QED
  BY <1>1, <1>3, <1>4

LEMMA FailStepStep ==
  ASSUME TypeOK, NEW c \in Calls, CallInv(c), pc[c] = "step",
         NEW cause \in Causes, FailStep(c, cause)
  PROVE  TypeOK' /\ CallInv(c)'
<1> USE PlanLength
<1>1. durable[c] = <<>> /\ staged[c] = Ran(c) /\ idx[c] \in 1 .. Len(Plan[c])
  BY DEF CallInv, Working, TypeOK
<1>2. Failure(cause, idx[c], idx[c] - 1, TRUE) \in Replies
  <2>1. idx[c] \in Nat /\ idx[c] - 1 \in Nat /\ TRUE \in BOOLEAN
    BY <1>1
  <2>2. QED
    BY <2>1, ReplyTyped
<1>3. TypeOK'
  BY <1>2, AbortEffect DEF TypeOK, PCs, FailStep, Return
<1>4. /\ reply'[c].step_index = idx[c] /\ reply'[c].completed = idx[c] - 1
      /\ reply'[c].ok = FALSE /\ pc'[c] = "done"
  BY DEF TypeOK, FailStep, Return, Failure
<1>5. Len(staged[c]) = idx[c] - 1
  BY <1>1 DEF Ran
<1>6. QED
  BY <1>1, <1>3, <1>4, <1>5, AbortEffect DEF FailStep, CallInv, Working, Ended,
     AllOrNothingFor, AnswerMatchesFor, NoneLeftOpenFor, ReportsFor, Done, Failed

LEMMA RunStepStep ==
  ASSUME TypeOK, NEW c \in Calls, CallInv(c), RunStep(c)
  PROVE  TypeOK' /\ CallInv(c)'
<1> USE PlanLength
<1>1. /\ durable[c] = <<>> /\ staged[c] = Ran(c) /\ idx[c] \in 1 .. Len(Plan[c])
      /\ attempt[c] >= 1 /\ pc[c] = "step"
  BY DEF CallInv, Working, TypeOK, RunStep
<1> DEFINE e == [step |-> idx[c], attempt |-> attempt[c]]
<1>2. e \in Staged
  BY <1>1, PipelineAssumption DEF Staged, TypeOK
<1>3. TypeOK'
  <2>1. staged' \in [Calls -> Seq(Staged)]
    <3>1. Append(staged[c], e) \in Seq(Staged)
      BY <1>2 DEF TypeOK
    <3>2. QED
      BY <3>1 DEF TypeOK, RunStep
  <2>2. idx' \in [Calls -> Nat] /\ \A d \in Calls : idx'[d] \in 1 .. Len(Plan[d]) + 1
    <3>1. idx' = [idx EXCEPT ![c] = idx[c] + 1]
      BY DEF RunStep
    <3>2. idx[c] + 1 \in Nat /\ idx[c] + 1 \in 1 .. Len(Plan[c]) + 1
      BY <1>1
    <3>3. idx' \in [Calls -> Nat]
      BY <3>1, <3>2 DEF TypeOK
    <3>4. ASSUME NEW d \in Calls PROVE idx'[d] \in 1 .. Len(Plan[d]) + 1
      BY <3>1, <3>2 DEF TypeOK
    <3>5. QED
      BY <3>3, <3>4
  <2>3. pc' \in [Calls -> PCs]
    BY DEF TypeOK, PCs, RunStep
  <2>4. QED
    BY <2>1, <2>2, <2>3 DEF TypeOK, RunStep
<1>4. idx'[c] = idx[c] + 1 /\ attempt' = attempt /\ durable' = durable
      /\ staged'[c] = Append(staged[c], e)
      /\ pc'[c] = IF idx[c] = Len(Plan[c]) THEN "commit" ELSE "step"
  BY DEF TypeOK, RunStep
<1>5. Append(Ran(c), e) = [i \in 1 .. idx[c] |-> [step |-> i, attempt |-> attempt[c]]]
  <2>1. Ran(c) \in Seq(Staged) /\ Len(Ran(c)) = idx[c] - 1
    <3>1. Ran(c) \in Seq(Staged)
      BY <1>1 DEF TypeOK
    <3>2. idx[c] - 1 \in Nat /\ DOMAIN Ran(c) = 1 .. idx[c] - 1
      BY <1>1 DEF Ran
    <3>3. QED
      BY <3>1, <3>2
  <2>2. Append(Ran(c), e) = [i \in 1 .. Len(Ran(c)) + 1 |->
                               IF i = Len(Ran(c)) + 1 THEN e ELSE Ran(c)[i]]
    BY <2>1
  <2>3. QED
    BY <1>1, <2>1, <2>2 DEF Ran
<1>6. staged'[c] = Ran(c)'
  BY <1>1, <1>4, <1>5 DEF Ran
<1>7. QED
  BY <1>1, <1>3, <1>4, <1>6 DEF CallInv, Working, Ended,
     AllOrNothingFor, AnswerMatchesFor, NoneLeftOpenFor, ReportsFor, Done, Failed

LEMMA CommitStep ==
  ASSUME TypeOK, NEW c \in Calls, CallInv(c), Commit(c) \/ CommitTransient(c) \/ CommitError(c)
  PROVE  TypeOK' /\ CallInv(c)'
<1> USE PlanLength
<1>1. /\ pc[c] = "commit" /\ durable[c] = <<>> /\ idx[c] = Len(Plan[c]) + 1
      /\ staged[c] = Ran(c) /\ Len(Plan[c]) >= 1 /\ Len(staged[c]) = Len(Plan[c])
  <2>1. /\ pc[c] = "commit" /\ durable[c] = <<>> /\ idx[c] = Len(Plan[c]) + 1
        /\ staged[c] = Ran(c) /\ Len(Plan[c]) >= 1
    BY DEF CallInv, Working, Commit, CommitTransient, CommitError
  <2>2. Len(Ran(c)) = Len(Plan[c])
    BY <2>1 DEF Ran
  <2>3. QED
    BY <2>1, <2>2
<1>2. Len(Plan[c]) \in Nat /\ Len(Plan[c]) + 1 \in Nat /\ TRUE \in BOOLEAN
  OBVIOUS
<1>3. CASE Commit(c)
  <2>1. Success(Len(Plan[c])) \in Replies
    BY <1>2, ReplyTyped DEF Causes
  <2>2. TypeOK'
    BY <1>1, <1>3, <2>1, CommitEffect DEF Commit, Return, TypeOK, PCs
  <2>3. reply'[c].ok = TRUE /\ pc'[c] = "done" /\ txn'[c] = "committed"
    BY <1>1, <1>3, CommitEffect DEF Commit, Return, Success, TypeOK
  <2>4. AllOrNothingFor(c)'
    BY <1>1, <1>3, CommitEffect DEF Commit, AllOrNothingFor, WholePlan
  <2>5. AnswerMatchesFor(c)'
    BY <1>1, <1>3, <2>3, CommitEffect DEF Commit, AnswerMatchesFor
  <2>6. QED
    BY <2>2, <2>3, <2>4, <2>5 DEF CallInv, Working, Ended, NoneLeftOpenFor, ReportsFor, Failed
<1>4. CASE CommitTransient(c)
  BY <1>1, <1>4 DEF CommitTransient, EndAborted, TypeOK, PCs, CallInv, Working, Ended,
     AllOrNothingFor, AnswerMatchesFor, NoneLeftOpenFor, ReportsFor, Done, Failed
<1>5. CASE CommitError(c)
  <2> DEFINE r == Failure("commit", Len(Plan[c]) + 1, Len(Plan[c]), TRUE)
  <2>1. r \in Replies
    BY <1>2, ReplyTyped DEF Causes
  <2>2. /\ reply'[c].ok = FALSE /\ reply'[c].cause = "commit" /\ pc'[c] = "done"
        /\ reply'[c].completed = Len(Plan[c]) /\ reply'[c].step_index = Len(Plan[c]) + 1
    BY <1>5 DEF CommitError, Return, Failure, TypeOK
  <2>3. CASE EndAborted(c)
    <3>1. TypeOK' /\ txn'[c] = "aborted" /\ durable' = durable /\ staged' = staged
      BY <1>5, <2>1, <2>3 DEF CommitError, Return, EndAborted, TypeOK, PCs
    <3>2. QED
      BY <1>1, <2>2, <3>1 DEF CallInv, Working, Ended, AllOrNothingFor,
         AnswerMatchesFor, NoneLeftOpenFor, ReportsFor
  <2>4. CASE MakeDurable(c)
    <3>1. TypeOK'
      BY <1>1, <1>5, <2>1, <2>4, CommitEffect DEF CommitError, Return, TypeOK, PCs
    <3>2. txn'[c] = "committed" /\ staged' = staged
      BY <1>1, <2>4, CommitEffect DEF TypeOK
    <3>3. AllOrNothingFor(c)'
      BY <1>1, <2>4, CommitEffect DEF AllOrNothingFor, WholePlan
    <3>4. QED
      BY <1>1, <2>2, <3>1, <3>2, <3>3 DEF CallInv, Working, Ended,
         AnswerMatchesFor, NoneLeftOpenFor, ReportsFor
  <2>5. QED
    BY <1>5, <2>3, <2>4 DEF CommitError
<1>6. QED
  BY <1>3, <1>4, <1>5

LEMMA EnvironmentStep ==
  ASSUME TypeOK, NEW c \in Calls, CallInv(c), Environment(c)
  PROVE  TypeOK' /\ CallInv(c)'
<1> USE PlanLength
<1> DEFINE Bodies == AllOrNothingFor(c)' /\ AnswerMatchesFor(c)' /\ NoneLeftOpenFor(c)'
                     /\ ReportsFor(c)'
<1>1. CASE Expire(c)
  BY <1>1 DEF Expire, database, TypeOK, CallInv, Working, Ran, Ended, AllOrNothingFor,
     AnswerMatchesFor, NoneLeftOpenFor, ReportsFor, WholePlan, Done, Failed
<1>2. CASE ServerExpires(c)
  BY <1>2 DEF ServerExpires, EndAborted, TypeOK, CallInv, Working, Ran, Ended,
     AllOrNothingFor, AnswerMatchesFor, NoneLeftOpenFor, ReportsFor, WholePlan, Done, Failed
<1>3. CASE Abandon(c)
  <2>1. pc' = [pc EXCEPT ![c] = "gone"] /\ UNCHANGED <<attempt, idx, late, reply>>
        /\ pc[c] \in {"session", "step", "commit"} /\ durable[c] = <<>>
    BY <1>3 DEF Abandon, CallInv, Working
  <2>2. CASE AbortTransaction(c) \/ UNCHANGED database
    <3>1. TypeOK' /\ durable' = durable
      BY <2>1, <2>2, AbortEffect DEF TypeOK, PCs, database
    <3>2. QED
      BY <2>1, <3>1 DEF TypeOK, CallInv, Working, Ended, AllOrNothingFor,
         AnswerMatchesFor, NoneLeftOpenFor, ReportsFor, Done, Failed
  <2>3. CASE pc[c] = "commit" /\ MakeDurable(c)
    <3>1. TypeOK'
      BY <2>1, <2>3, CommitEffect DEF TypeOK, PCs
    <3>2. AllOrNothingFor(c)'
      BY <2>3, CommitEffect DEF AllOrNothingFor, WholePlan
    <3>3. QED
      BY <2>1, <3>1, <3>2 DEF TypeOK, CallInv, Working, Ended,
         AnswerMatchesFor, NoneLeftOpenFor, ReportsFor, Done, Failed
  <2>4. QED
    BY <1>3, <2>2, <2>3 DEF Abandon
<1>4. QED
  BY <1>1, <1>2, <1>3 DEF Environment

(* A step moves one call and leaves the variables of the others alone.     *)
LEMMA OnlyOneMoves ==
  ASSUME TypeOK, NEW c \in Calls, Work(c) \/ Environment(c), NEW d \in Calls, d # c
  PROVE  /\ pc'[d] = pc[d] /\ attempt'[d] = attempt[d] /\ idx'[d] = idx[d]
         /\ reply'[d] = reply[d] /\ txn'[d] = txn[d] /\ staged'[d] = staged[d]
         /\ durable'[d] = durable[d] /\ stranded'[d] = stranded[d]
<1> DEFINE Same == /\ pc'[d] = pc[d] /\ attempt'[d] = attempt[d] /\ idx'[d] = idx[d]
                   /\ reply'[d] = reply[d] /\ txn'[d] = txn[d] /\ staged'[d] = staged[d]
                   /\ durable'[d] = durable[d] /\ stranded'[d] = stranded[d]
<1> USE DEF TypeOK, Return, database
<1>1. CASE Validate(c) \/ BeginAttempt(c) \/ SessionFails(c) \/ Exhausted(c)
  BY <1>1 DEF Validate, BeginAttempt, SessionFails, Exhausted
<1>2. ASSUME NEW cause, FailStep(c, cause) PROVE Same
  BY <1>2 DEF FailStep, AbortTransaction
<1>3. CASE StepTimeout(c) \/ BadReference(c) \/ StepFails(c)
  BY <1>2, <1>3 DEF StepTimeout, BadReference, StepFails
<1>4. CASE RunStep(c)
  BY <1>4 DEF RunStep
<1>5. CASE Commit(c) \/ CommitTransient(c) \/ CommitError(c)
  BY <1>5 DEF Commit, CommitTransient, CommitError, MakeDurable, EndAborted
<1>6. CASE Environment(c)
  BY <1>6 DEF Environment, Expire, ServerExpires, Abandon, MakeDurable, EndAborted,
     AbortTransaction
<1>7. QED
  BY <1>1, <1>3, <1>4, <1>5, <1>6 DEF Work

LEMMA InitIInv == Init => IInv
<1> SUFFICES ASSUME Init PROVE IInv
  OBVIOUS
<1>1. TypeOK
  BY PlanLength, PipelineAssumption DEF Init, TypeOK, PCs, Replies
<1>2. ASSUME NEW c \in Calls PROVE CallInv(c)
  BY DEF Init, CallInv, Working, Ended, AllOrNothingFor, AnswerMatchesFor,
     NoneLeftOpenFor, ReportsFor, Done, Failed
<1>3. QED
  BY <1>1, <1>2 DEF IInv

LEMMA StepIInv == IInv /\ [Next]_vars => IInv'
<1>1. ASSUME IInv, NEW c \in Calls, Work(c) \/ Environment(c) PROVE IInv'
  <2>1. TypeOK /\ CallInv(c)
    BY <1>1 DEF IInv
  <2>2. TypeOK' /\ CallInv(c)'
    <3>1. CASE Validate(c)
      BY <2>1, <3>1, ValidateStep
    <3>2. CASE BeginAttempt(c) \/ SessionFails(c) \/ Exhausted(c)
      BY <2>1, <3>2, SessionStep
    <3>3. CASE StepTimeout(c)
      BY <2>1, <3>3, FailStepStep DEF StepTimeout, Causes
    <3>4. CASE BadReference(c)
      BY <2>1, <3>4, FailStepStep DEF BadReference, Causes
    <3>5. CASE StepFails(c)
      BY <2>1, <3>5, FailStepStep DEF StepFails, Causes
    <3>6. CASE RunStep(c)
      BY <2>1, <3>6, RunStepStep
    <3>7. CASE Commit(c) \/ CommitTransient(c) \/ CommitError(c)
      BY <2>1, <3>7, CommitStep
    <3>8. CASE Environment(c)
      BY <2>1, <3>8, EnvironmentStep
    <3>9. QED
      BY <1>1, <3>1, <3>2, <3>3, <3>4, <3>5, <3>6, <3>7, <3>8 DEF Work
  <2>3. ASSUME NEW d \in Calls, d # c PROVE CallInv(d)'
    <3>1. CallInv(d)
      BY <1>1 DEF IInv
    <3>2. QED
      BY <1>1, <2>1, <2>3, <3>1, OnlyOneMoves, OtherCalls
  <2>4. QED
    BY <2>2, <2>3 DEF IInv
<1>2. ASSUME IInv, UNCHANGED vars PROVE IInv'
  <2>1. TypeOK'
    BY <1>2 DEF IInv, TypeOK, vars
  <2>2. ASSUME NEW d \in Calls PROVE CallInv(d)'
    BY <1>2, OtherCalls DEF IInv, vars
  <2>3. QED
    BY <2>1, <2>2 DEF IInv
<1>3. QED
  BY <1>1, <1>2 DEF Next

-----------------------------------------------------------------------------
(* The inductive invariant holds in every reachable state.                 *)
THEOREM Invariance == Spec => []IInv
BY InitIInv, StepIInv, PTL DEF Spec

(* execute_transaction_pipeline keeps its variables within their types.    *)
THEOREM TypeCorrect == Spec => []TypeOK
BY Invariance, PTL DEF IInv

(* Whatever is retried, and wherever the caller leaves, what becomes       *)
(* durable is nothing or the whole pipeline, run once by one attempt.      *)
THEOREM AllOrNothingHolds == Spec => []AllOrNothing
<1>1. IInv => AllOrNothing
  BY DEF IInv, CallInv, Ended, AllOrNothingFor, AllOrNothing
<1>2. QED
  BY <1>1, Invariance, PTL

(* A reported success is durable, a failure before the commit is not.      *)
THEOREM AnswerHolds == Spec => []AnswerMatchesOutcome
<1>1. IInv => AnswerMatchesOutcome
  BY DEF IInv, CallInv, Ended, AnswerMatchesFor, AnswerMatchesOutcome
<1>2. QED
  BY <1>1, Invariance, PTL

(* No call returns with its transaction open unless its abort failed.      *)
THEOREM NoneLeftOpenHolds == Spec => []NoneLeftOpen
<1>1. IInv => NoneLeftOpen
  BY DEF IInv, CallInv, Ended, NoneLeftOpenFor, NoneLeftOpen
<1>2. QED
  BY <1>1, Invariance, PTL

(* The steps a failure reports are those the transaction ran.              *)
THEOREM ReportsHolds == Spec => []ReportsProgress
<1>1. IInv => ReportsProgress
  BY DEF IInv, CallInv, Ended, ReportsFor, ReportsProgress
<1>2. QED
  BY <1>1, Invariance, PTL

-----------------------------------------------------------------------------
(* The calls.                                                              *)
GP == INSTANCE GrpcService_proof WITH reply <- answer, durable <- lasting

LEMMA CallsAssumed == GP!ServiceAssumption
<1>1. G!InPipeline = GP!InPipeline
  BY DEF G!InPipeline, GP!InPipeline, G!PipelineReads, GP!PipelineReads,
         G!PipelineWrites, GP!PipelineWrites, G!PipelineOther,
         GP!PipelineOther, G!PipelineAdmin, GP!PipelineAdmin, G!PipelineTxn,
         GP!PipelineTxn, G!Handler, GP!Handler, G!Crud, GP!Crud,
         G!FindModify, GP!FindModify, G!Aggregation, GP!Aggregation,
         G!Admin, GP!Admin, G!Raw, GP!Raw, G!Untimed, GP!Untimed, G!Find,
         GP!Find, G!FindOne, GP!FindOne, G!Insert, GP!Insert, G!InsertMany,
         GP!InsertMany, G!Update, GP!Update, G!UpdateMany, GP!UpdateMany,
         G!Delete, GP!Delete, G!DeleteMany, GP!DeleteMany, G!Aggregate,
         GP!Aggregate, G!FindAndModify, GP!FindAndModify, G!RunCommand,
         GP!RunCommand, G!Search, GP!Search, G!CreateCollection,
         GP!CreateCollection, G!CreateIndex, GP!CreateIndex,
         G!ListDatabases, GP!ListDatabases, G!ListCollections,
         GP!ListCollections, G!EndHandler, GP!EndHandler
<1>2. \A op : G!WellFormed(op) <=> GP!WellFormed(op)
  BY DEF G!WellFormed, GP!WellFormed, G!Kinds, GP!Kinds
<1>3. IsFiniteSet(Calls) => GP!IsFiniteSet(Calls)
  BY DEF IsFiniteSet, GP!IsFiniteSet
<1> QED
  BY <1>1, <1>2, <1>3, CallsAssumption
  DEF G!ServiceAssumption, GP!ServiceAssumption, G!IsFiniteSet, IsFiniteSet

LEMMA CallsStart == G!Init => GP!Init
BY DEF G!Init, GP!Init, G!Index, GP!Index

LEMMA OperationSteps ==
  ASSUME NEW c \in Calls, NEW i \in G!Index(c)
  PROVE  i \in GP!Index(c) /\ (G!OpStep(c, i) => GP!OpStep(c, i))
<1> USE DEF G!mapState, GP!mapState, G!dbState, GP!dbState,
            G!counters, GP!counters, G!Index, GP!Index, G!At, GP!At,
            G!Asked, GP!Asked, G!Blocked, GP!Blocked, G!Runs, GP!Runs,
            G!Go, GP!Go, G!HoldsPermit, GP!HoldsPermit, G!Unguard, GP!Unguard,
            G!End, GP!End, G!Send, GP!Send, G!Wanted, GP!Wanted,
            G!AtMap, GP!AtMap, G!HasShard, GP!HasShard, G!Ends, GP!Ends,
            G!Cardinality, GP!Cardinality, G!OpDone, GP!OpDone
<1>1. G!Acquire(c, i) => GP!Acquire(c, i)
  BY DEF G!Acquire, GP!Acquire
<1>2. G!Refuse(c, i) => GP!Refuse(c, i)
  BY DEF G!Refuse, GP!Refuse
<1>3. G!SendPlain(c, i) => GP!SendPlain(c, i)
  BY DEF G!SendPlain, GP!SendPlain
<1>4. G!Block(c, i) => GP!Block(c, i)
  BY DEF G!Block, GP!Block
<1>5. G!Lookup(c, i) => GP!Lookup(c, i)
  BY DEF G!Lookup, GP!Lookup
<1>6. G!NotFound(c, i) => GP!NotFound(c, i)
  BY DEF G!NotFound, GP!NotFound
<1>7. G!TakeOut(c, i) => GP!TakeOut(c, i)
  BY DEF G!TakeOut, GP!TakeOut
<1>8. G!Began(c, i) => GP!Began(c, i)
  BY DEF G!Began, GP!Began
<1>9. G!Enter(c, i) => GP!Enter(c, i)
  BY DEF G!Enter, GP!Enter
<1>10. G!Answer(c, i) => GP!Answer(c, i)
  BY DEF G!Answer, GP!Answer
<1>11. G!TimedOut(c, i) => GP!TimedOut(c, i)
  BY DEF G!TimedOut, GP!TimedOut
<1> QED
  BY <1>1, <1>2, <1>3, <1>4, <1>5, <1>6, <1>7, <1>8, <1>9, <1>10, <1>11 DEF G!OpStep, GP!OpStep

LEMMA CallSteps == [Move]_all => [GP!Next]_GP!vars
<1> USE DEF G!mapState, GP!mapState, G!dbState, GP!dbState,
            G!counters, GP!counters, G!Index, GP!Index
<1>1. ASSUME NEW c \in Calls PROVE G!Finish(c) => GP!Finish(c)
  <2> USE DEF G!Runs, GP!Runs, G!Blocked, GP!Blocked,
              G!Cardinality, GP!Cardinality, G!OpDone, GP!OpDone,
              G!Record, GP!Record
  <2> QED
    BY DEF G!Finish, GP!Finish
<1>2. ASSUME NEW c \in Calls PROVE G!Drop(c) => GP!Drop(c)
  <2> USE DEF G!Runs, GP!Runs, G!Blocked, GP!Blocked,
              G!Cardinality, GP!Cardinality, G!OpDone, GP!OpDone,
              G!Unguard, GP!Unguard, G!HoldsPermit, GP!HoldsPermit
  <2> QED
    BY DEF G!Drop, GP!Drop
<1>3. ASSUME NEW o \in inFlight PROVE G!Execute(o) => GP!Execute(o)
  BY DEF G!Execute, GP!Execute, G!Asked, GP!Asked, G!WritesOf, GP!WritesOf
<1>4. ASSUME NEW t \in TxnIds PROVE G!Expire(t) => GP!Expire(t)
  BY DEF G!Expire, GP!Expire
<1>5. G!Next => GP!Next
  BY <1>1, <1>2, <1>3, <1>4, OperationSteps DEF G!Next, GP!Next, G!Step, GP!Step
<1>6. Move => GP!Next \/ UNCHANGED calls
  BY <1>5 DEF Move, On
<1> QED
  BY <1>6 DEF all, calls, GP!vars

LEMMA CallsBehave == CallsSpec => GP!Spec
<1>1. Start => GP!Init
  BY CallsStart DEF Start
<1> QED
  BY <1>1, CallSteps, PTL DEF CallsSpec, GP!Spec

(* A client transaction's session has one user at a time.                  *)
THEOREM SessionsHaveOneUser == CallsSpec => []SessionExclusive
<1>1. GP!Spec => []GP!SessionExclusive
  BY CallsAssumed, GP!SessionHasOneUser
<1>2. GP!SessionExclusive => SessionExclusive
  BY DEF SessionExclusive, G!SessionExclusive, GP!SessionExclusive, G!Sent, GP!Sent,
         G!Ops, GP!Ops, G!Index, GP!Index, G!At, GP!At, G!Asked, GP!Asked,
         G!Cardinality, GP!Cardinality
<1> QED
  BY <1>1, <1>2, CallsBehave, PTL

(* Nothing is sent in a transaction once its commit or abort was sent.     *)
THEOREM EndedStaysEnded == CallsSpec => EndedIsGone
<1>1. GP!Spec => GP!EndedIsGone
  BY CallsAssumed, GP!EndedStaysGone
<1>2. GP!EndedIsGone <=> G!EndedIsGone
  BY PTL DEF G!EndedIsGone, GP!EndedIsGone, G!SentEnd, GP!SentEnd, G!Ending,
             GP!Ending, G!Sent, GP!Sent, G!Ops, GP!Ops, G!Index, GP!Index,
             G!At, GP!At, G!Asked, GP!Asked, G!vars, GP!vars
<1> QED
  BY <1>1, <1>2, CallsBehave DEF EndedIsGone

(* Transactions are atomic and answers true.                               *)
THEOREM CallsAreTold == CallsSpec => []ResultsTrue
<1>1. GP!Spec => []GP!ResultsTrue
  BY CallsAssumed, GP!ResultsAreTrue
<1>2. GP!ResultsTrue => ResultsTrue
  BY DEF ResultsTrue, G!ResultsTrue, GP!ResultsTrue,
         G!TransactionAtomic, GP!TransactionAtomic,
         G!ResultsHonest, GP!ResultsHonest, G!Ops, GP!Ops, G!Index, GP!Index,
         G!At, GP!At, G!Asked, GP!Asked
<1> QED
  BY <1>1, <1>2, CallsBehave, PTL

(* Permits, guards and counters balance.                                   *)
THEOREM BooksBalance == CallsSpec => []Accounts
<1>1. GP!Spec => []GP!Accounts
  BY CallsAssumed, GP!AccountsBalance
<1>2. GP!Accounts => Accounts
  <2> USE DEF G!Ops, GP!Ops, G!Index, GP!Index, G!At, GP!At,
              G!Asked, GP!Asked, G!Cardinality, GP!Cardinality
  <2>1. GP!TypeOK => G!TypeOK
    BY DEF G!TypeOK, GP!TypeOK, G!OpStates, GP!OpStates, G!OpDone, GP!OpDone
  <2>2. GP!PermitsConserved => G!PermitsConserved
    BY DEF G!PermitsConserved, GP!PermitsConserved, G!HoldsPermit, GP!HoldsPermit,
G!OpDone, GP!OpDone
  <2>3. GP!CountersMatch => G!CountersMatch
    BY DEF G!CountersMatch, GP!CountersMatch, G!Counted, GP!Counted
  <2> QED
    BY <2>1, <2>2, <2>3 DEF Accounts, G!Accounts, GP!Accounts
<1> QED
  BY <1>1, <1>2, CallsBehave, PTL

(* Beside the calls the pipelines stay all or nothing, and what their      *)
(* callers are told stays true.                                            *)
THEOREM PipelinesBesideCalls ==
  CallsSpec => [](TypeOK /\ AllOrNothing /\ AnswerMatchesOutcome /\ NoneLeftOpen /\ ReportsProgress)
<1>1. Start => IInv
  BY InitIInv DEF Start
<1>2. IInv /\ [Move]_all => IInv'
  <2>1. [Move]_all => [Next]_vars
    BY DEF Move, On, all
  <2> QED
    BY <2>1, StepIInv
<1>3. IInv => TypeOK /\ AllOrNothing /\ AnswerMatchesOutcome /\ NoneLeftOpen /\ ReportsProgress
  BY DEF IInv, CallInv, Ended, AllOrNothingFor, AllOrNothing, AnswerMatchesFor, AnswerMatchesOutcome,
         NoneLeftOpenFor, NoneLeftOpen, ReportsFor, ReportsProgress
<1> QED
  BY <1>1, <1>2, <1>3, PTL DEF CallsSpec
=============================================================================
