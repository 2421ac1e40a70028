--------------------------- MODULE SequentialIngest ---------------------------
(***************************************************************************)
(* Ingestion with a deduplication key: the path of src/ingestion/engine.rs *)
(* that writes one batch after the other and looks up each batch in the    *)
(* collection first (src/ingestion/dedup.rs).  Jobs on one collection run  *)
(* at the same time, as a watched directory starts them.                   *)
(*                                                                         *)
(* How a job begins, and its record, are those of IngestJob.               *)
(***************************************************************************)
EXTENDS Naturals, Sequences, FiniteSets, Functions

CONSTANTS
  Jobs,      (* ingestions of files into the collection                     *)
  NoKey,     (* the key of a row that lacks a field of dedup_key            *)
  Plans,     (* functions from Jobs to [rows, strategy]                     *)
  Stored,    (* the documents that are there before                         *)
  BatchSize

Strategies == {"skip", "overwrite", "merge"}
(* Assumed where the module is instantiated.                                *)
SequentialAssumption ==
  /\ IsFiniteSet(Jobs) /\ BatchSize \in Nat \ {0}
  /\ \A p \in Plans : \A j \in Jobs :
       p[j].strategy \in Strategies /\ p[j].rows \in Seq(Range(p[j].rows))
  /\ Stored \in Seq(Range(Stored)) /\ \A i \in DOMAIN Stored : Stored[i].key # NoKey

(* A row and a document: the value of the key, and its other fields, each  *)
(* with the value it holds.                                                *)
VARIABLES
  coll,      (* the collection, in its natural order                        *)
  plan,      (* what each job ingests and how                               *)
  step,      (* where each job is                                           *)
  offset,    (* rows of the batches that are done                           *)
  inserts,   (* rows of the batch that have no document                     *)
  puts,      (* documents to replace others of their key                    *)
  tally,     (* rows processed, inserted, skipped, failed                   *)
  dead,      (* rows of each job in the dead letter collection              *)
  cancel     (* the job's cancel channel has a message                      *)

work == <<inserts, puts>>
vars == <<coll, plan, step, offset, work, tally, dead, cancel>>

Row(j, i)  == plan[j].rows[i]
Length(j)  == Len(plan[j].rows)
End(j)     == IF offset[j] + BatchSize < Length(j) THEN offset[j] + BatchSize ELSE Length(j)
InBatch(j) == offset[j] + 1 .. End(j)
None == [processed |-> 0, inserted |-> 0, skipped |-> 0, failed |-> 0]

Final == {"completed", "failed"}
TypeOK ==
  /\ plan \in Plans
  /\ \A j \in Jobs :
       /\ step[j] \in {"poll", "convert", "check", "insert", "replace"} \union Final
       /\ offset[j] \in 0 .. Length(j) /\ dead[j] \subseteq 1 .. Length(j)
       /\ Range(inserts[j]) \subseteq InBatch(j)
       /\ Len(inserts[j]) + Len(puts[j]) <= BatchSize

Init ==
  /\ coll = Stored /\ plan \in Plans
  /\ step = [j \in Jobs |-> "poll"] /\ offset = [j \in Jobs |-> 0]
  /\ inserts = [j \in Jobs |-> <<>>] /\ puts = [j \in Jobs |-> <<>>]
  /\ tally = [j \in Jobs |-> None] /\ dead = [j \in Jobs |-> {}]
  /\ cancel = [j \in Jobs |-> FALSE]

Goto(j, s) == step' = [step EXCEPT ![j] = s]
Count(j, processed, inserted, skipped, failed) ==
  tally' = [tally EXCEPT ![j] =
    [processed |-> @.processed + processed, inserted |-> @.inserted + inserted,
     skipped |-> @.skipped + skipped, failed |-> @.failed + failed]]

-----------------------------------------------------------------------------

(* Each batch begins with a look at the cancel channel.  (Each job is      *)
(* cancelled once at most; IngestJob has repeated cancellation.)           *)
PollCancel(j) ==
  /\ step[j] = "poll"
  /\ Goto(j, IF offset[j] = Length(j) THEN "completed"
             ELSE IF cancel[j] THEN "failed" ELSE "convert")
  /\ UNCHANGED <<coll, plan, offset, work, tally, dead, cancel>>

Cancel(j) ==
  /\ ~cancel[j] /\ step[j] \notin Final /\ cancel' = [cancel EXCEPT ![j] = TRUE]
  /\ UNCHANGED <<coll, plan, step, offset, work, tally, dead>>

Convert(j) ==
  /\ step[j] = "convert" /\ Goto(j, "check")
  /\ UNCHANGED <<coll, plan, offset, work, tally, dead, cancel>>

(* The rows of a batch that cannot be converted go to the dead letters;    *)
(* the job's record is not updated for it.                                 *)
ConvertFails(j) ==
  /\ step[j] = "convert" /\ Goto(j, "poll")
  /\ dead' = [dead EXCEPT ![j] = @ \union InBatch(j)]
  /\ Count(j, End(j) - offset[j], 0, 0, End(j) - offset[j])
  /\ offset' = [offset EXCEPT ![j] = End(j)]
  /\ UNCHANGED <<coll, plan, work, cancel>>

-----------------------------------------------------------------------------
(* check_batch: one query for the whole batch.                             *)
Having(k)   == {n \in DOMAIN coll : coll[n].key = k}
FirstOf(k)  == CHOOSE n \in Having(k) : \A m \in Having(k) : n <= m
Known(j, i) == Row(j, i).key # NoKey /\ Having(Row(j, i).key) # {}
Found(j)    == {i \in InBatch(j) : Known(j, i)}

(* Fault model: a merge keeps nothing of the existing document.            *)
NewOnly(new, old) == new

(* merge_documents: the existing document, then what comes in.             *)
Overlay(new, old) ==
  [key |-> new.key,
   fields |-> [f \in DOMAIN new.fields \union DOMAIN old.fields |->
                 IF f \in DOMAIN new.fields THEN new.fields[f] ELSE old.fields[f]]]

Resolve(j, i) ==
  IF plan[j].strategy = "merge" THEN Overlay(Row(j, i), coll[FirstOf(Row(j, i).key)])
                                ELSE Row(j, i)
Ascending(S) ==
  CHOOSE s \in Bijection(1 .. Cardinality(S), S) :
    \A m \in DOMAIN s : \A n \in DOMAIN s : m < n => s[m] < s[n]
Replacements(j) ==
  LET s == Ascending(Found(j)) IN [n \in DOMAIN s |-> Resolve(j, s[n])]
CheckBatch(j) ==
  LET skip == plan[j].strategy = "skip"
  IN  /\ step[j] = "check" /\ Goto(j, "insert")
      /\ inserts' = [inserts EXCEPT ![j] = Ascending(InBatch(j) \ Found(j))]
      /\ puts' = [puts EXCEPT ![j] = IF skip THEN <<>> ELSE Replacements(j)]
      /\ Count(j, 0, 0, IF skip THEN Cardinality(Found(j)) ELSE 0, 0)
      /\ UNCHANGED <<coll, plan, offset, dead, cancel>>

(* The query fails, and the job with it.                                   *)
CheckFails(j) ==
  /\ step[j] = "check" /\ Goto(j, "failed")
  /\ UNCHANGED <<coll, plan, offset, work, tally, dead, cancel>>

-----------------------------------------------------------------------------
(* insert_many is ordered: it stops at the first document it rejects.      *)
Take(j, n) == [i \in 1 .. n |-> Row(j, inserts[j][i])]
InsertMany(j) ==
  /\ step[j] = "insert" /\ Goto(j, "replace")
  /\ coll' = coll \o Take(j, Len(inserts[j]))
  /\ Count(j, 0, Len(inserts[j]), 0, 0)
  /\ inserts' = [inserts EXCEPT ![j] = <<>>]
  /\ UNCHANGED <<plan, offset, puts, dead, cancel>>

(* All of them are dead-lettered and count as failed, also those that are  *)
(* in the collection.                                                      *)
InsertFails(j) ==
  /\ step[j] = "insert" /\ inserts[j] # <<>> /\ Goto(j, "replace")
  /\ \E n \in 0 .. Len(inserts[j]) : coll' = coll \o Take(j, n)
  /\ Count(j, 0, 0, 0, Len(inserts[j]))
  /\ dead' = [dead EXCEPT ![j] = @ \union Range(inserts[j])]
  /\ inserts' = [inserts EXCEPT ![j] = <<>>]
  /\ UNCHANGED <<plan, offset, puts, cancel>>

(* replace_one takes the first document of the key; the _id is not part of *)
(* the replacement, or is the document's own.                              *)
Replaced(d) == [coll EXCEPT ![FirstOf(d.key)] = d]
Replace(j) ==
  /\ step[j] = "replace" /\ puts[j] # <<>> /\ puts' = [puts EXCEPT ![j] = Tail(@)]
  /\ \/ coll' = Replaced(Head(puts[j])) /\ Count(j, 0, 1, 0, 0)
     \/ Count(j, 0, 0, 0, 1) /\ UNCHANGED coll
  /\ UNCHANGED <<plan, step, offset, inserts, dead, cancel>>

EndBatch(j) ==
  /\ step[j] = "replace" /\ puts[j] = <<>> /\ Goto(j, "poll")
  /\ offset' = [offset EXCEPT ![j] = End(j)]
  /\ Count(j, End(j) - offset[j], 0, 0, 0)
  /\ UNCHANGED <<coll, plan, work, dead, cancel>>

Work(j) ==
  \/ PollCancel(j) \/ Convert(j) \/ ConvertFails(j) \/ CheckBatch(j) \/ CheckFails(j)
  \/ InsertMany(j) \/ InsertFails(j) \/ Replace(j) \/ EndBatch(j)
Next == \E j \in Jobs : Work(j) \/ Cancel(j)

-----------------------------------------------------------------------------
Named(k, s) == Cardinality({i \in DOMAIN s : s[i].key = k})
Keys == {coll[i].key : i \in DOMAIN coll} \ {NoKey}

(* Rows of one key in one batch of a job, batches numbered from 0.         *)
Indices == UNION {0 .. Length(j) : j \in Jobs}
Alike(j, k, n) ==
  {i \in 1 .. Length(j) : Row(j, i).key = k /\ n * BatchSize < i /\ i <= (n + 1) * BatchSize}

(* A key that had a document before the jobs never gets another one, and a *)
(* new key gets no more than come together in one batch of each job: the   *)
(* query for a batch sees every batch before it, though not its own rows   *)
(* nor those another job is about to write.                                *)
DoublesOnlyTogether ==
  \A k \in Keys :
    LET before == Named(k, Stored)
    IN  IF before > 0 THEN Named(k, coll) <= before
        ELSE \E n \in [Jobs -> Indices] :
          Named(k, coll) <= Cardinality({p \in Jobs \X Indices : p[2] \in Alike(p[1], k, n[p[1]])})

(* While no job overwrites, what was there before stays: merges add to it  *)
(* and skips leave it alone, although each replacement was computed from a *)
(* document that another job, or a row of the same batch, has replaced.    *)
StoredKept ==
  (\A j \in Jobs : plan[j].strategy # "overwrite") =>
    \A i \in DOMAIN Stored :
      /\ DOMAIN Stored[i].fields \subseteq DOMAIN coll[i].fields
      /\ (\A j \in Jobs : plan[j].strategy = "skip") => coll[i] = Stored[i]

(* A job that completed without failures has a document for each row: of   *)
(* its key, or of its own where it has none.                               *)
CompleteIsComplete ==
  \A j \in Jobs :
    step[j] = "completed" /\ tally[j].failed = 0 =>
      /\ \A i \in 1 .. Length(j) : Having(Row(j, i).key) # {}
      /\ Named(NoKey, coll) >= Named(NoKey, plan[j].rows)

(* Between batches every row processed was inserted, skipped or failed,    *)
(* and a failed job never reports the rows it did not come to.             *)
TallyAdds ==
  \A j \in Jobs :
    LET t == tally[j]
    IN  step[j] \in {"poll", "completed"} =>
          t.processed = offset[j] /\ t.inserted + t.skipped + t.failed = offset[j]

(* Together: with rows of one key in one batch, in two jobs and in the     *)
(* collection, and failures at each step, documents and counts are exact.  *)
DedupExact ==
  TypeOK /\ DoublesOnlyTogether /\ StoredKept /\ CompleteIsComplete /\ TallyAdds

(* Each job ends, also one whose batches all fail.                         *)
JobsEnd == <>(\A j \in Jobs : step[j] \in Final)
=============================================================================
