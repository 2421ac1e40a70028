----------------------------- MODULE GrpcStreams -----------------------------
(***************************************************************************)
(* Results and bulk inserts that come in batches: the streams of           *)
(* src/grpc/service.rs (find and aggregate, change streams, inserts with   *)
(* one answer, inserts with an answer for each batch) and the cursor of    *)
(* src/transport/prefetch.rs, which reads ahead of its consumer.           *)
(***************************************************************************)
EXTENDS Naturals, Sequences, FiniteSets

CONSTANTS
  Rows,      (* documents of the result, or documents to insert             *)
  BatchSize, (* documents in a batch of a result                            *)
  Ahead,     (* batches the prefetched cursor reads ahead                   *)
  Cuts,      (* the last document of each batch in which they arrive        *)
  Bad        (* which documents may turn out not to decode                  *)

(* Assumed where the module is instantiated.                                *)
StreamAssumption ==
  /\ Rows \in Nat /\ BatchSize \in Nat \ {0} /\ Ahead \in Nat \ {0}
  /\ Cuts \in Seq(0 .. Rows)
  /\ \A i \in DOMAIN Cuts : \A j \in DOMAIN Cuts : i < j => Cuts[i] <= Cuts[j]
  /\ \A s \in Bad : s \subseteq 1 .. Rows

(* A stream that is polled is at most one item ahead of its consumer.      *)
Reads == {"find", "aggregate"}
Kinds == Reads \union {"watch", "prefetch", "insert", "bidi"}
Inserts == {"insert", "bidi"}

VARIABLES
  kind, bad, (* which stream, and the documents that do not decode          *)
  pos,       (* documents taken from the cursor, or from the client         *)
  batch,     (* documents of the batch in hand                              *)
  count,     (* batches sent, or taken from the client                      *)
  stored,    (* inserts: the documents that are in the collection           *)
  total, errs, (* inserts: the summary so far                               *)
  out,       (* items sent and not yet received                             *)
  got,       (* items received                                              *)
  handed,    (* rows of the batches received                                *)
  task,      (* "on" or "done"                                              *)
  client     (* "on" or "left"                                              *)

source == <<kind, bad>>
writes == <<stored, total, errs>>
received == <<got, handed>>
vars   == <<source, pos, batch, count, writes, out, received, task, client>>

Batch(rows, i, more) == [type |-> "batch", rows |-> rows, index |-> i, more |-> more]
Ack(i, n, failed)    == [type |-> "ack", index |-> i, n |-> n, failed |-> failed]
Summary              == [type |-> "summary", total |-> total, errs |-> errs]
Failure              == [type |-> "failure"]

Size == IF kind = "watch" THEN 1 ELSE BatchSize
Room == Len(out) < IF kind = "prefetch" THEN Ahead ELSE 1

(* Types; a prefetching task is at most Ahead batches and the one in hand  *)
(* before its consumer, the others two batches.                            *)
TypeOK ==
  /\ kind \in Kinds /\ bad \in Bad /\ pos \in 0 .. Rows /\ count \in Nat
  /\ stored \subseteq 1 .. Rows /\ total \in 0 .. Rows
  /\ task \in {"on", "done"} /\ client \in {"on", "left"}
  /\ Len(batch) <= Size /\ Len(out) <= IF kind = "prefetch" THEN Ahead ELSE 1
  /\ \A i \in DOMAIN out : out[i].type = "batch" => Len(out[i].rows) <= Size

Init ==
  /\ kind \in Kinds /\ bad \in Bad
  /\ pos = 0 /\ batch = <<>> /\ count = 0
  /\ stored = {} /\ total = 0 /\ errs = {}
  /\ out = <<>> /\ got = <<>> /\ handed = <<>> /\ task = "on" /\ client = "on"

-----------------------------------------------------------------------------
(* Results.                                                                *)
Reading == kind \notin Inserts /\ task = "on" /\ Len(batch) < Size
Put(item) == Room /\ out' = Append(out, item)

(* A document that does not decode ends a stream; the prefetched cursor    *)
(* leaves it out.                                                          *)
Advance ==
  /\ Reading /\ pos < Rows /\ pos' = pos + 1
  /\ \/ pos' \notin bad /\ batch' = Append(batch, pos') /\ UNCHANGED <<out, task>>
     \/ pos' \in bad /\ kind = "prefetch" /\ UNCHANGED <<batch, out, task>>
     \/ pos' \in bad /\ kind # "prefetch"
          /\ Put(Failure) /\ batch' = <<>> /\ task' = "done"
  /\ UNCHANGED <<source, count, writes, received, client>>

(* A full batch; more may follow.                                          *)
Emit ==
  /\ kind \notin Inserts /\ task = "on" /\ Len(batch) = Size /\ client = "on"
  /\ Put(Batch(batch, count, TRUE)) /\ count' = count + 1
  /\ batch' = <<>>
  /\ UNCHANGED <<source, pos, writes, received, task, client>>

(* Exhausted.  Find and aggregate close with a batch, even an empty one,   *)
(* that says so; the prefetched cursor sends what it has left.             *)
Exhaust ==
  /\ Reading /\ pos = Rows
  /\ IF kind \in Reads \/ (kind = "prefetch" /\ batch # <<>> /\ client = "on")
       THEN Put(Batch(batch, count, FALSE)) ELSE UNCHANGED out
  /\ batch' = <<>> /\ task' = "done"
  /\ UNCHANGED <<source, pos, count, writes, received, client>>

(* Fault model: a cursor that fails has ended.                             *)
CursorErrorEnds ==
  /\ Reading
  /\ IF kind \in Reads \/ (kind = "prefetch" /\ batch # <<>> /\ client = "on")
       THEN Put(Batch(batch, count, FALSE)) ELSE UNCHANGED out
  /\ batch' = <<>> /\ task' = "done"
  /\ UNCHANGED <<source, pos, count, writes, received, client>>

(* The cursor fails: a stream ends with the error, the prefetched cursor   *)
(* as if it were exhausted.                                                *)
CursorError ==
  /\ Reading
  /\ IF kind = "prefetch"
       THEN IF batch # <<>> /\ client = "on" THEN Put(Batch(batch, count, FALSE)) ELSE UNCHANGED out
       ELSE Put(Failure)
  /\ batch' = <<>> /\ task' = "done"
  /\ UNCHANGED <<source, pos, count, writes, received, client>>

(* Find and aggregate wait for the cursor no longer than the idle time-out.*)
IdleTimeout ==
  /\ kind \in Reads /\ Reading
  /\ Put(Failure) /\ batch' = <<>> /\ task' = "done"
  /\ UNCHANGED <<source, pos, count, writes, received, client>>

(* The prefetching task learns with its next batch that nobody listens.    *)
Unheard ==
  /\ kind = "prefetch" /\ task = "on" /\ client = "left" /\ Len(batch) = Size
  /\ task' = "done" /\ batch' = <<>>
  /\ UNCHANGED <<source, pos, count, writes, out, received, client>>

-----------------------------------------------------------------------------
(* Inserts.  MongoDB stores a first part of a batch and fails, or all of   *)
(* it, whose answer may be lost.                                           *)
First(i)   == IF i = 1 THEN 1 ELSE Cuts[i - 1] + 1
Arrived(i) == Cuts[i] - (First(i) - 1)
InHand == (pos + 1) .. (pos + Arrived(count + 1))
More   == kind \in Inserts /\ task = "on" /\ count < Len(Cuts)

Store(done, ok) ==
  /\ stored' = stored \union done
  /\ total' = total + (IF ok THEN Cardinality(done) ELSE 0)
  /\ errs' = IF ok THEN errs ELSE errs \union {pos}
  /\ IF kind = "bidi"
       THEN Put(Ack(count, IF ok THEN Cardinality(done) ELSE 0, ~ok))
       ELSE UNCHANGED out

(* Fault model: only documents stored move the index.                      *)
InsertBatchBehind ==
  /\ More /\ InHand \cap bad = {}
  /\ \E k \in 0 .. Arrived(count + 1), ok \in BOOLEAN :
       /\ ok => k = Arrived(count + 1)
       /\ Store((pos + 1) .. (pos + k), ok) /\ pos' = pos + k
  /\ count' = count + 1
  /\ UNCHANGED <<source, batch, received, task, client>>

InsertBatch ==
  /\ More /\ InHand \cap bad = {}
  /\ \E k \in 0 .. Arrived(count + 1), ok \in BOOLEAN :
       /\ ok => k = Arrived(count + 1)
       /\ Store((pos + 1) .. (pos + k), ok)
  /\ pos' = pos + Arrived(count + 1) /\ count' = count + 1
  /\ UNCHANGED <<source, batch, received, task, client>>

(* A document that does not decode, or an error of the client's stream,    *)
(* ends the call with an error, whatever was inserted before.              *)
RefuseBatch ==
  /\ kind \in Inserts /\ task = "on"
  /\ Put(Failure) /\ task' = "done"
  /\ UNCHANGED <<source, pos, batch, count, writes, received, client>>

EndOfInput ==
  /\ kind \in Inserts /\ task = "on" /\ count = Len(Cuts)
  /\ IF kind = "insert" THEN Put(Summary) ELSE UNCHANGED out
  /\ task' = "done"
  /\ UNCHANGED <<source, pos, batch, count, writes, received, client>>

-----------------------------------------------------------------------------
Receive ==
  /\ client = "on" /\ out # <<>>
  /\ got' = Append(got, Head(out)) /\ out' = Tail(out)
  /\ handed' = IF Head(out).type = "batch" THEN handed \o Head(out).rows ELSE handed
  /\ UNCHANGED <<source, pos, batch, count, writes, task, client>>

(* The client leaves; a stream is dropped with it, a prefetching task not. *)
Leave ==
  /\ client = "on" /\ client' = "left" /\ out' = <<>>
  /\ task' = IF kind = "prefetch" THEN task ELSE "done"
  /\ UNCHANGED <<source, pos, batch, count, writes, received>>

Produce == Advance \/ Emit \/ Exhaust \/ IdleTimeout \/ Unheard
Next == Produce \/ CursorError \/ InsertBatch \/ RefuseBatch \/ EndOfInput \/ Receive \/ Leave

Spec == Init /\ [][Next]_vars

(* Cursors answer: the time-out of find and aggregate sees to it, of the   *)
(* others it is asked.  Nothing is asked of the client that inserts.       *)
FairSpec == Spec /\ WF_vars(Produce) /\ WF_vars(Receive)

-----------------------------------------------------------------------------
(* Properties.                                                             *)
Items    == got \o out
Readable == {i \in 1 .. Rows : kind = "prefetch" => i \notin bad}

(* A reader gets the rows in order, each once, and a batch that says it is *)
(* the last only after all of them: the promise of Delivery.  Prefetched   *)
(* batches do not tell a cursor that failed from one that ended, so they   *)
(* have the order only.                                                    *)
Verdict ==
  IF \E i \in DOMAIN got : got[i].type = "failure" THEN "cut"
  ELSE IF kind \in Reads /\ \E i \in DOMAIN got : got[i].type = "batch" /\ ~got[i].more
    THEN "complete" ELSE "open"
Promised == INSTANCE Delivery WITH source <- Readable, delivered <- handed,
                                   verdict <- Verdict
KeepsPromise == Promised!Spec

(* Batches are numbered without a gap, the last apart they are full, and   *)
(* nothing follows the last one or a failure.                              *)
NumberedFull ==
  kind \in Reads =>
    \A i \in DOMAIN Items :
      IF Items[i].type = "batch" /\ Items[i].more
        THEN Items[i].index = i - 1 /\ Len(Items[i].rows) = Size
        ELSE i = Len(Items) /\ (Items[i].type = "batch" => Items[i].index = i - 1)

(* A summary without errors, or with them, can be trusted: a document is   *)
(* stored or in a batch whose start is listed, and none is counted that is *)
(* not stored.                                                             *)
SummaryTrue ==
  kind \in Inserts =>
  /\ total <= Cardinality(stored)
  /\ errs \subseteq {First(i) - 1 : i \in 1 .. count}
  /\ \A i \in 1 .. count : First(i) - 1 \in errs \/ First(i) .. Cuts[i] \subseteq stored

(* Every batch inserted is answered once and in order, with a count of     *)
(* documents that are all stored, and only a failure may follow.           *)
AcksMatch ==
  kind = "bidi" /\ client = "on" =>
    /\ Len(Items) \in {count, count + 1}
    /\ \A i \in DOMAIN Items :
         IF i > count THEN Items[i].type = "failure"
         ELSE /\ Items[i].type = "ack" /\ Items[i].index = i - 1
              /\ Items[i].n <= Cardinality(stored \cap (First(i) .. Cuts[i]))

(* Together: what a stream says of itself, its numbers, its summary and its*)
(* answers, is true, whichever document fails and whoever leaves.          *)
StreamsHonest == TypeOK /\ NumberedFull /\ SummaryTrue /\ AcksMatch

(* A reader that keeps reading reaches the end, and a task whose reader    *)
(* has left does not go on.                                                *)
Over == task = "done" /\ out = <<>>
StreamEnds == (kind \notin Inserts) ~> Over
=============================================================================
