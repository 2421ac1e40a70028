----------------------------- MODULE IngestJob -----------------------------
(***************************************************************************)
(* One ingestion job without deduplication: IngestionEngine::ingest,       *)
(* run_concurrent_writes and cancel in src/ingestion/engine.rs, with the   *)
(* progress record of progress.rs.  A producer converts chunks of rows and *)
(* hands them to writers over a bounded channel; callers may cancel.  The  *)
(* target collection, the dead letters and the job record are external:    *)
(* any write to them may fail.                                             *)
(***************************************************************************)
EXTENDS Naturals, Sequences, FiniteSets

CONSTANTS
  Writers,        (* the writer tasks, `concurrency' of them                *)
  TotalRows,      (* height of the data frame                               *)
  BatchSize,      (* rows in a chunk                                        *)
  Capacity,       (* of the channel; the code takes 2 * concurrency         *)
  ProgressEvery,  (* chunks between two progress updates, 4 in the code     *)
  MaxCancels      (* bound: calls of cancel                                 *)

(* Assumed where the module is instantiated.                               *)
JobAssumption ==
  /\ Writers # {} (* options.concurrency.max(1) *)
  /\ TotalRows \in Nat /\ BatchSize \in Nat \ {0}
  /\ Capacity \in Nat \ {0} /\ ProgressEvery \in Nat \ {0} /\ MaxCancels \in Nat

VARIABLES
  pc,        (* where the producer is                                       *)
  status,    (* of the job record                                           *)
  chunk,     (* chunks the producer has done with; offset is Offset(chunk)  *)
  channel,   (* chunks sent and not yet taken                               *)
  open,      (* the sender of the channel is alive                          *)
  writer,    (* where each writer is                                        *)
  hand,      (* the chunk it has taken, 0 if none                           *)
  inserted, rejected,        (* history: times each row was written, or     *)
                             (* dead-lettered and counted failed            *)
  rowsInserted, rowsFailed,  (* the shared counters                         *)
  loaded,    (* rows_inserted as the producer has read it for an update     *)
  saved,     (* progress in the job record get_status answers from          *)
  registered,(* cancel_channels has the job                                 *)
  signal,    (* what try_recv would return: nothing, a cancellation, Lagged *)
  cancels,   (* cancel calls so far                                         *)
  received,  (* history: those made while the job was subscribed            *)
  after,     (* history: chunks begun since the first of those              *)
  panicked   (* history: a conversion has panicked                          *)

data     == <<inserted, rejected, rowsInserted, rowsFailed>>
progress == <<loaded, saved>>
cancel   == <<registered, signal, cancels, received, after>>
pool     == <<channel, open, writer, hand>>
vars == <<pc, status, chunk, channel, open, writer, hand, inserted, rejected,
          rowsInserted, rowsFailed, loaded, saved, registered, signal, cancels,
          received, after, panicked>>

Row       == 1 .. TotalRows
Offset(k) == IF k * BatchSize < TotalRows THEN k * BatchSize ELSE TotalRows
RowsOf(k) == Offset(k - 1) + 1 .. Offset(k)
Size(k)   == Offset(k) - Offset(k - 1)

PCs == {"new", "created", "spawned", "collect", "check", "convert", "send", "load",
        "save", "join", "joinCancelled", "final", "complete", "fail", "remove", "ended"}

(* Types; the channel keeps to its capacity, and a writer has a chunk      *)
(* exactly while it inserts or rejects it.                                 *)
TypeOK ==
  /\ pc \in PCs /\ status \in {"none", "running", "completed", "failed"}
  /\ chunk \in Nat /\ Offset(chunk) <= TotalRows
  /\ channel \in Seq(1 .. TotalRows) /\ Len(channel) <= Capacity /\ open \in BOOLEAN
  /\ writer \in [Writers -> {"recv", "insert", "reject", "ended"}]
  /\ hand \in [Writers -> 0 .. TotalRows]
  /\ \A w \in Writers : hand[w] # 0 <=> writer[w] \in {"insert", "reject"}
  /\ inserted \in [Row -> Nat] /\ rejected \in [Row -> Nat]
  /\ rowsInserted \in Nat /\ rowsFailed \in Nat /\ loaded \in Nat
  /\ saved \in [processed : Nat, inserted : Nat, failed : Nat]
  /\ registered \in BOOLEAN /\ signal \in {"none", "one", "lagged"}
  /\ cancels \in 0 .. MaxCancels /\ received \in 0 .. cancels /\ after \in Nat
  /\ panicked \in BOOLEAN

Init ==
  /\ pc = "new" /\ status = "none" /\ chunk = 0
  /\ channel = <<>> /\ open = TRUE
  /\ writer = [w \in Writers |-> "recv"] /\ hand = [w \in Writers |-> 0]
  /\ inserted = [r \in Row |-> 0] /\ rejected = [r \in Row |-> 0]
  /\ rowsInserted = 0 /\ rowsFailed = 0
  /\ loaded = 0 /\ saved = [processed |-> 0, inserted |-> 0, failed |-> 0]
  /\ registered = FALSE /\ signal = "none" /\ cancels = 0 /\ received = 0 /\ after = 0
  /\ panicked = FALSE

-----------------------------------------------------------------------------
(* ingest: the job record, then the cancel channel, then the task.  Before *)
(* the record exists any error is returned to the caller.                  *)
CreateJob ==
  /\ pc = "new"
  /\ \/ pc' = "created" /\ status' = "running"
     \/ pc' = "ended" /\ UNCHANGED status
  /\ UNCHANGED <<chunk, pool, data, progress, cancel, panicked>>

Register ==
  /\ pc = "created" /\ pc' = "spawned" /\ registered' = TRUE
  /\ UNCHANGED <<status, chunk, pool, data, progress, signal, cancels, received, after, panicked>>

(* The task runs; only from here on does it receive cancellations.         *)
Subscribe ==
  /\ pc = "spawned" /\ pc' = "collect"
  /\ UNCHANGED <<status, chunk, pool, data, progress, cancel, panicked>>

(* The lazy frame is collected: rows, or an error or a panic.              *)
Collect ==
  /\ pc = "collect" /\ pc' \in {"check", "fail"}
  /\ UNCHANGED <<status, chunk, pool, data, progress, cancel, panicked>>

-----------------------------------------------------------------------------
(* cancel: an error if the job is not registered (no step); otherwise the  *)
(* caller is told Ok.  The channel has one slot: nobody hears a send before *)
(* the subscription, and a second send makes the next receive fail.        *)
Subscribed == pc \notin {"new", "created", "spawned", "ended"}

Cancel ==
  /\ registered /\ cancels < MaxCancels
  /\ cancels' = cancels + 1
  /\ IF Subscribed
       THEN /\ signal' = IF signal = "none" THEN "one" ELSE "lagged"
            /\ received' = received + 1
       ELSE UNCHANGED <<signal, received>>
  /\ UNCHANGED <<pc, status, chunk, pool, data, progress, registered, after, panicked>>

-----------------------------------------------------------------------------
(* The producer.                                                           *)
MoreRows == Offset(chunk) < TotalRows

CancelSeen ==
  /\ pc = "check" /\ MoreRows /\ signal = "one"
  /\ pc' = "joinCancelled" /\ signal' = "none" /\ open' = FALSE
  /\ UNCHANGED <<status, chunk, channel, writer, hand, data, progress, registered,
                 cancels, received, after, panicked>>

Begin ==
  /\ pc = "check" /\ MoreRows /\ pc' = "convert"
  /\ after' = IF received > 0 THEN after + 1 ELSE after
  /\ UNCHANGED <<status, chunk, pool, data, progress, registered, cancels, received, panicked>>

(* Fault model: a cancellation is looked at every other chunk only.        *)
BeginCheckingRarely ==
  Begin /\ (chunk % 2 = 1 \/ signal # "one") /\ UNCHANGED signal

(* A receive that fails with Lagged is taken for no cancellation; the one  *)
(* kept in the slot comes with the next.                                   *)
BeginChunk ==
  Begin /\ signal # "one" /\ signal' = IF signal = "lagged" THEN "one" ELSE "none"

ChunkDone ==
  /\ chunk' = chunk + 1
  /\ pc' = IF (chunk + 1) % ProgressEvery = 0 THEN "load" ELSE "check"

CountRejected(k) ==
  /\ rejected' = [r \in Row |-> rejected[r] + (IF r \in RowsOf(k) THEN 1 ELSE 0)]
  /\ rowsFailed' = rowsFailed + Size(k)

Convert ==
  /\ pc = "convert" /\ pc' = "send"
  /\ UNCHANGED <<status, chunk, pool, data, progress, cancel, panicked>>

(* Every row of the chunk is dead-lettered; a failed push goes unnoticed.  *)
ConvertFails ==
  /\ pc = "convert" /\ ChunkDone /\ CountRejected(chunk + 1)
  /\ UNCHANGED <<status, pool, inserted, rowsInserted, progress, cancel, panicked>>

(* A panic unwinds run_ingestion: the sender is dropped, and the writers'  *)
(* handles with it, which leaves the writers running.                      *)
ConvertPanics ==
  /\ pc = "convert" /\ pc' = "fail" /\ open' = FALSE /\ panicked' = TRUE
  /\ UNCHANGED <<status, chunk, channel, writer, hand, data, progress, cancel>>

Send ==
  /\ pc = "send" /\ Len(channel) < Capacity /\ ChunkDone
  /\ channel' = Append(channel, chunk + 1)
  /\ UNCHANGED <<status, open, writer, hand, data, progress, cancel, panicked>>

(* The two counters are read one after the other while writers go on.      *)
LoadInserted ==
  /\ pc = "load" /\ pc' = "save" /\ loaded' = rowsInserted
  /\ UNCHANGED <<status, chunk, pool, data, saved, cancel, panicked>>

SavedAs(p, i, f) ==
  \/ saved' = [processed |-> p, inserted |-> i, failed |-> f]
  \/ UNCHANGED saved

SaveProgress ==
  /\ pc = "save" /\ pc' = "check" /\ SavedAs(Offset(chunk), loaded, rowsFailed)
  /\ UNCHANGED <<status, chunk, pool, data, loaded, cancel, panicked>>

(* Fault model: the sender is kept while the writers are awaited.          *)
LastChunkKeepingSender ==
  /\ pc = "check" /\ ~MoreRows /\ pc' = "join"
  /\ UNCHANGED <<status, chunk, pool, data, progress, cancel, panicked>>

LastChunkDone ==
  /\ pc = "check" /\ ~MoreRows /\ pc' = "join" /\ open' = FALSE
  /\ UNCHANGED <<status, chunk, channel, writer, hand, data, progress, cancel, panicked>>

WritersEnded == \A w \in Writers : writer[w] = "ended"

(* Fault model: a cancelled job does not wait for its writers.             *)
JoinAllButCancelled ==
  /\ \/ pc = "join" /\ WritersEnded /\ pc' = "final"
     \/ pc = "joinCancelled" /\ pc' = "fail"
  /\ UNCHANGED <<status, chunk, pool, data, progress, cancel, panicked>>

Join ==
  /\ WritersEnded
  /\ \/ pc = "join" /\ pc' = "final"
     \/ pc = "joinCancelled" /\ pc' = "fail"
  /\ UNCHANGED <<status, chunk, pool, data, progress, cancel, panicked>>

FinalProgress ==
  /\ pc = "final" /\ pc' = "complete" /\ SavedAs(TotalRows, rowsInserted, rowsFailed)
  /\ UNCHANGED <<status, chunk, pool, data, loaded, cancel, panicked>>

(* complete_job, fail_job: their own failure is ignored.                   *)
Finish ==
  /\ \/ pc = "complete" /\ status' \in {"completed", status}
     \/ pc = "fail" /\ status' \in {"failed", status}
  /\ pc' = "remove"
  /\ UNCHANGED <<chunk, pool, data, progress, cancel, panicked>>

Remove ==
  /\ pc = "remove" /\ pc' = "ended" /\ registered' = FALSE
  /\ UNCHANGED <<status, chunk, pool, data, progress, signal, cancels, received, after, panicked>>

Producer ==
  \/ CreateJob \/ Register \/ Subscribe \/ Collect \/ CancelSeen \/ BeginChunk
  \/ Convert \/ ConvertFails \/ ConvertPanics \/ Send \/ LoadInserted \/ SaveProgress
  \/ LastChunkDone \/ Join \/ FinalProgress \/ Finish \/ Remove

-----------------------------------------------------------------------------
(* The writers.  They share the receiver through a mutex that is held      *)
(* across recv: whoever has it takes the next chunk, the others wait.      *)
Goes(w, s, k) == writer' = [writer EXCEPT ![w] = s] /\ hand' = [hand EXCEPT ![w] = k]

Take(w) ==
  /\ writer[w] = "recv" /\ channel # <<>>
  /\ channel' = Tail(channel) /\ Goes(w, "insert", Head(channel))
  /\ UNCHANGED <<pc, status, chunk, open, data, progress, cancel, panicked>>

(* Fault model: a writer leaves when the sender is gone, chunks or not.    *)
WriterEndsAtClose(w) ==
  /\ writer[w] = "recv" /\ ~open /\ Goes(w, "ended", 0)
  /\ UNCHANGED <<pc, status, chunk, channel, open, data, progress, cancel, panicked>>

WriterEnds(w) ==
  /\ writer[w] = "recv" /\ ~open /\ channel = <<>> /\ Goes(w, "ended", 0)
  /\ UNCHANGED <<pc, status, chunk, channel, open, data, progress, cancel, panicked>>

Written(rows) == inserted' = [r \in Row |-> inserted[r] + (IF r \in rows THEN 1 ELSE 0)]

InsertAll(w) ==
  /\ writer[w] = "insert" /\ Goes(w, "recv", 0)
  /\ Written(RowsOf(hand[w])) /\ rowsInserted' = rowsInserted + Size(hand[w])
  /\ UNCHANGED <<pc, status, chunk, channel, open, rejected, rowsFailed, progress,
                 cancel, panicked>>

(* An ordered insert_many stops at the document that fails; a lost answer  *)
(* may even leave all of them written.                                     *)
InsertFails(w) ==
  /\ writer[w] = "insert" /\ Goes(w, "reject", hand[w])
  /\ \E n \in 0 .. Size(hand[w]) : Written({r \in RowsOf(hand[w]) : r <= Offset(hand[w] - 1) + n})
  /\ UNCHANGED <<pc, status, chunk, channel, open, rejected, rowsInserted, rowsFailed,
                 progress, cancel, panicked>>

(* The whole batch goes to the dead letters and counts as failed.          *)
Reject(w) ==
  /\ writer[w] = "reject" /\ Goes(w, "recv", 0) /\ CountRejected(hand[w])
  /\ UNCHANGED <<pc, status, chunk, channel, open, inserted, rowsInserted, progress,
                 cancel, panicked>>

Writer(w) == Take(w) \/ WriterEnds(w) \/ InsertAll(w) \/ InsertFails(w) \/ Reject(w)

-----------------------------------------------------------------------------
Next == Producer \/ Cancel \/ \E w \in Writers : Writer(w)

Spec == Init /\ [][Next]_vars

(* The runtime polls every task that can move, and MongoDB answers.        *)
FairSpec == Spec /\ WF_vars(Producer) /\ \A w \in Writers : WF_vars(Writer(w))

-----------------------------------------------------------------------------
(* Properties.                                                             *)
Final == status \in {"completed", "failed"}

(* However chunks are spread over writers, no row is written or rejected   *)
(* twice, and none is missing from a job reported complete.                *)
EveryRowOnce ==
  \A r \in Row :
    /\ inserted[r] <= 1 /\ rejected[r] <= 1
    /\ status = "completed" => inserted[r] + rejected[r] > 0

(* The counts of a complete job add up to its rows, and none claims a row  *)
(* inserted that is not.                                                   *)
CountsAddUp ==
  /\ rowsInserted <= Cardinality({r \in Row : inserted[r] > 0})
  /\ status = "completed" => rowsInserted + rowsFailed = TotalRows

(* Progress that is read from two counters while writers change them never *)
(* claims more outcomes than rows processed, nor more of these than exist. *)
ProgressConsistent ==
  /\ saved.inserted + saved.failed <= saved.processed
  /\ saved.processed <= TotalRows

(* Together: the rows, the counters and the job's record agree, whichever  *)
(* chunks fail and however their writers and the progress interleave.      *)
JobExact == TypeOK /\ EveryRowOnce /\ CountsAddUp /\ ProgressConsistent

(* A job's progress never goes back.                                       *)
ProgressMonotone ==
  [][/\ saved.processed <= saved'.processed
     /\ saved.inserted <= saved'.inserted
     /\ saved.failed <= saved'.failed]_vars

(* Once a job is reported complete, failed or cancelled, nothing is        *)
(* written for it any more, unless it failed by a panic.                   *)
FinalIsQuiet ==
  [][Final /\ ~panicked => inserted' = inserted /\ rejected' = rejected]_vars

(* Together: what a job has told stays true.                               *)
JobQuiet == ProgressMonotone /\ FinalIsQuiet

(* A job that has heard a cancellation begins no other chunk, but for one  *)
(* per repetition of the call (which makes the receiver lag).              *)
CancelStops == received > 0 => after < received

(* A job that was recorded ends, cancelled or not, full channel or not.    *)
JobEnds == pc = "created" ~> pc = "ended"
=============================================================================
