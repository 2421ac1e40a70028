--------------------------- MODULE MCGrpcService ---------------------------
(***************************************************************************)
(* The gRPC calls and the transactional pipelines, which share no state: a *)
(* behaviour is one of one part: which, part says.                         *)
(***************************************************************************)
EXTENDS MCTransactionPipeline

CONSTANTS
  Parts,
  Scenes, TxnIds, None, Opened, Shards, Shard, Workers, MaxConcurrency, \* GrpcService
  t1, t2, s1                                                            \* model values

VARIABLES
  part,
  req, answer, st, begun, registry, guard, permits, mongo, inFlight, executed,
  lasting, total, errors

calls == <<req, answer, st, begun, registry, guard, permits, mongo, inFlight,
           executed, lasting, total, errors>>
all == <<part, vars, calls>>

G == INSTANCE GrpcService WITH reply <- answer, durable <- lasting
H == INSTANCE GrpcRequests

ASSUME CallsAssumption == G!ServiceAssumption

-----------------------------------------------------------------------------
(* The part that is not the one keeps a fixed initial state.               *)
Start ==
  /\ part \in Parts
  /\ Init
  /\ G!Init /\ (part # "calls" => req = (CHOOSE f \in Scenes : TRUE))

On(p) ==
  /\ part = p /\ UNCHANGED part
  /\ p # "pipelines" => UNCHANGED vars
  /\ p # "calls" => UNCHANGED calls

Move ==
  \/ On("pipelines") /\ Next
  \/ On("calls") /\ G!Next

(* The fairness of each part.                                              *)
CallsSpec ==
  Start /\ [][Move]_all /\ \A c \in Calls :
    WF_vars(part = "pipelines" /\ Work(c)) /\ WF_calls(part = "calls" /\ G!Step(c))

-----------------------------------------------------------------------------
(* The calls (GrpcService): a session has one user, a transaction is used  *)
(* no more once it ends, results are true, and the books balance.          *)
SessionExclusive == G!SessionExclusive
EndedIsGone      == G!EndedIsGone
ResultsTrue      == G!ResultsTrue
Accounts         == G!Accounts

(* Every call returns, of the pipelines' executor (TransactionPipeline) as *)
(* of the service (GrpcService).                                           *)
EveryCallReturns ==
  /\ part = "pipelines" => EventuallyReturns
  /\ part = "calls" => G!EveryCallReturns

-----------------------------------------------------------------------------
(* The instances: two transactions in one shard, one of them open.         *)
TwoTxns  == {t1, t2}
OneShard == {s1}
Together == [t \in TwoTxns |-> s1]
Begun    == {t1}

(* A pipeline of two operations against the end of its transaction, a      *)
(* second pipeline, or a call that leaves the map alone; three calls.      *)
Batch  == H!Pipeline(<<H!Data(H!Update, t1), H!Data(H!InsertMany, None)>>)
Single == H!Unary(H!Data(H!Insert, t1))
Enders == {H!Unary(H!Commit(t1)), H!Unary(H!Abort(t1))}
Plain  ==
  {H!Unary(H!Begin), H!Unary(H!Data(H!FindOne, None)), H!Unary(H!Data(H!RunCommand, None))}

Mixed ==
  {[c \in {c1, c2} |-> IF c = c1 THEN Batch ELSE r] : r \in Enders \union Plain \union {Batch}}
  \union {[c \in ThreeCalls |-> IF c = c1 THEN Single ELSE IF c = c2 THEN r ELSE q] :
             r \in Enders, q \in {Single, H!Unary(H!Begin), H!Unary(H!Commit(t1))}}

(* Two operations on one transaction in a pipeline.                        *)
Twice == {[c \in {c1} |-> H!Pipeline(<<H!Data(H!Insert, t1), H!Data(H!Update, t1)>>)]}
=============================================================================
