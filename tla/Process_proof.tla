--------------------------- MODULE Process_proof ---------------------------
(***************************************************************************)
(* Proofs about the process of MCProcess: each part's behaviours are those *)
(* of its own module, so that what is proved of the job (IngestJob_proof)  *)
(* holds in the process; and the MCP loop answers its host in order.       *)
(***************************************************************************)
EXTENDS MCProcess, FiniteSetTheorems, TLAPS

JP == INSTANCE IngestJob_proof WITH pc <- stage, channel <- queue

-----------------------------------------------------------------------------
(* The job of the process is the job of IngestJob.                         *)
LEMMA JobAssumed == JP!JobAssumption
BY ProcessAssumption DEF JP!JobAssumption, J!JobAssumption

LEMMA JobStarts == J!Init => JP!Init
BY DEF J!Init, JP!Init, J!Row, JP!Row

LEMMA ProducerSteps == J!Producer => JP!Producer
<1> USE DEF J!data, JP!data, J!progress, JP!progress, J!cancel, JP!cancel,
           J!pool, JP!pool, J!MoreRows, JP!MoreRows, J!Offset, JP!Offset,
           J!RowsOf, JP!RowsOf, J!Size, JP!Size, J!Row, JP!Row,
           J!Begin, JP!Begin, J!ChunkDone, JP!ChunkDone,
           J!CountRejected, JP!CountRejected, J!SavedAs, JP!SavedAs,
           J!WritersEnded, JP!WritersEnded
<1>1. J!CreateJob => JP!CreateJob
  BY DEF J!CreateJob, JP!CreateJob
<1>2. J!Register => JP!Register
  BY DEF J!Register, JP!Register
<1>3. J!Subscribe => JP!Subscribe
  BY DEF J!Subscribe, JP!Subscribe
<1>4. J!Collect => JP!Collect
  BY DEF J!Collect, JP!Collect
<1>5. J!CancelSeen => JP!CancelSeen
  BY DEF J!CancelSeen, JP!CancelSeen
<1>6. J!BeginChunk => JP!BeginChunk
  BY DEF J!BeginChunk, JP!BeginChunk
<1>7. J!Convert => JP!Convert
  BY DEF J!Convert, JP!Convert
<1>8. J!ConvertFails => JP!ConvertFails
  BY DEF J!ConvertFails, JP!ConvertFails
<1>9. J!ConvertPanics => JP!ConvertPanics
  BY DEF J!ConvertPanics, JP!ConvertPanics
<1>10. J!Send => JP!Send
  BY DEF J!Send, JP!Send
<1>11. J!LoadInserted => JP!LoadInserted
  BY DEF J!LoadInserted, JP!LoadInserted
<1>12. J!SaveProgress => JP!SaveProgress
  BY DEF J!SaveProgress, JP!SaveProgress
<1>13. J!LastChunkDone => JP!LastChunkDone
  BY DEF J!LastChunkDone, JP!LastChunkDone
<1>14. J!Join => JP!Join
  BY DEF J!Join, JP!Join
<1>15. J!FinalProgress => JP!FinalProgress
  BY DEF J!FinalProgress, JP!FinalProgress
<1>16. J!Finish => JP!Finish
  BY DEF J!Finish, JP!Finish
<1>17. J!Remove => JP!Remove
  BY DEF J!Remove, JP!Remove
<1> QED
  BY <1>1, <1>2, <1>3, <1>4, <1>5, <1>6, <1>7, <1>8, <1>9,
     <1>10, <1>11, <1>12, <1>13, <1>14, <1>15, <1>16, <1>17
  DEF J!Producer, JP!Producer

LEMMA WriterSteps == ASSUME NEW w \in Writers PROVE J!Writer(w) => JP!Writer(w)
<1> USE DEF J!data, JP!data, J!progress, JP!progress, J!cancel, JP!cancel,
           J!Offset, JP!Offset, J!RowsOf, JP!RowsOf, J!Size, JP!Size,
           J!Row, JP!Row, J!CountRejected, JP!CountRejected, J!Goes, JP!Goes,
           J!Written, JP!Written
<1>1. J!Take(w) => JP!Take(w)
  BY DEF J!Take, JP!Take
<1>2. J!WriterEnds(w) => JP!WriterEnds(w)
  BY DEF J!WriterEnds, JP!WriterEnds
<1>3. J!InsertAll(w) => JP!InsertAll(w)
  BY DEF J!InsertAll, JP!InsertAll
<1>4. J!InsertFails(w) => JP!InsertFails(w)
  BY DEF J!InsertFails, JP!InsertFails
<1>5. J!Reject(w) => JP!Reject(w)
  BY DEF J!Reject, JP!Reject
<1> QED
  BY <1>1, <1>2, <1>3, <1>4, <1>5 DEF J!Writer, JP!Writer

LEMMA JobSteps == [Move]_all => [JP!Next]_JP!vars
<1>1. J!Cancel => JP!Cancel
  BY DEF J!Cancel, JP!Cancel, J!Subscribed, JP!Subscribed, J!data, JP!data,
         J!progress, JP!progress, J!pool, JP!pool
<1>2. J!Next => JP!Next
  BY <1>1, ProducerSteps, WriterSteps DEF J!Next, JP!Next
<1>3. Move => JP!Next \/ UNCHANGED job
  BY <1>2 DEF Move, On
<1> QED
  BY <1>3 DEF all, job, JP!vars

LEMMA JobBehaves == ProcessSpec => JP!Spec
<1>1. Start => JP!Init
  BY JobStarts DEF Start
<1> QED
  BY <1>1, JobSteps, PTL DEF ProcessSpec, JP!Spec

(* Whichever chunks fail, and however the writers and the progress of a    *)
(* job interleave, its rows, counters and record agree.                    *)
THEOREM JobIsExact == ProcessSpec => []JobExact
<1>1. JP!Spec => []JP!JobExact
  BY JobAssumed, JP!JobExactHolds
<1>2. JP!JobExact => JobExact
  <2> USE DEF J!Row, JP!Row
  <2>1. JP!TypeOK => J!TypeOK
    BY DEF JP!TypeOK, J!TypeOK, JP!Offset, J!Offset, JP!PCs, J!PCs
  <2>2. JP!EveryRowOnce => J!EveryRowOnce
    BY DEF JP!EveryRowOnce, J!EveryRowOnce
  <2>3. JP!CountsAddUp => J!CountsAddUp
    <3>1. {r \in JP!Row : inserted[r] > 0} = {r \in J!Row : inserted[r] > 0}
      OBVIOUS
    <3> HIDE DEF J!Row, JP!Row
    <3> QED
      BY <3>1 DEF JP!CountsAddUp, J!CountsAddUp, JP!Cardinality, J!Cardinality
  <2>4. JP!ProgressConsistent => J!ProgressConsistent
    BY DEF JP!ProgressConsistent, J!ProgressConsistent
  <2> QED
    BY <2>1, <2>2, <2>3, <2>4 DEF JP!JobExact, JobExact, J!JobExact
<1> QED
  BY <1>1, <1>2, JobBehaves, PTL

(* A job begins no more chunks after it has heard a cancellation than the  *)
(* repetitions of the call can hide it for.                                *)
THEOREM CancelStopsJob == ProcessSpec => []CancelStops
<1>1. JP!Spec => []JP!CancelStops
  BY JobAssumed, JP!CancelStopsHolds
<1>2. JP!CancelStops => CancelStops
  BY DEF JP!CancelStops, CancelStops, J!CancelStops
<1> QED
  BY <1>1, <1>2, JobBehaves, PTL

(* A job's progress never goes back, and a job reported complete, failed   *)
(* or cancelled writes nothing any more, unless a panic ended it.          *)
THEOREM JobStaysTrue == ProcessSpec => JobQuiet
<1>1. JP!Spec => JP!JobQuiet
  BY JobAssumed, JP!JobQuietHolds
<1>2. JP!FinalIsQuiet <=> J!FinalIsQuiet
  BY PTL DEF JP!FinalIsQuiet, J!FinalIsQuiet, JP!Final, J!Final, JP!vars, J!vars
<1>3. JP!ProgressMonotone <=> J!ProgressMonotone
  BY PTL DEF JP!ProgressMonotone, J!ProgressMonotone, JP!vars, J!vars
<1> QED
  BY <1>1, <1>2, <1>3, JobBehaves, PTL DEF JP!JobQuiet, JobQuiet, J!JobQuiet

-----------------------------------------------------------------------------
(* The MCP loop.  What is left of the host's requests in stdin are the     *)
(* last ones asked: at[i] of them were asked up to line i, n before all of *)
(* them.                                                                   *)
Follows(s, n, reqs) ==
  \E at \in [0 .. Len(s) -> 0 .. Len(reqs)] :
    /\ at[0] = n /\ at[Len(s)] = Len(reqs)
    /\ \A i \in 1 .. Len(s) :
         IF s[i].kind = "request"
           THEN at[i] = at[i - 1] + 1 /\ s[i].id = reqs[at[i]]
           ELSE at[i] = at[i - 1]

Busy == IF pc = "handling" THEN 1 ELSE 0
Done == AnswersTo(Len(stdout))
RequestsInOrder ==
  /\ Follows(stdin, Done + Busy, asked)
  /\ pc = "handling" => Done < Len(asked) /\ current = asked[Done + 1]

(* The sampling ids written to the host are those counted; each belongs to *)
(* one request, until it is completed.                                     *)
CompletionsKnown ==
  \A i \in 1 .. Len(stdin) : stdin[i].kind = "completion" => stdin[i].id \in 1 .. counter
SamplesKnown ==
  /\ SampleIds = 1 .. counter /\ CompletionsKnown
  /\ \A p, q \in pending : p[1] = q[1] => p = q
  /\ pc # "closed" =>
       \A n \in 1 .. counter : n \in completed <=> \A r \in Requests : <<n, r>> \notin pending

AtRest ==
  /\ current = None => waiting = {}
  /\ pc = "closed" => pending = {}

StdioInv == TypeOK /\ RequestsInOrder /\ AnsweredInOrder /\ SamplesKnown /\ AtRest

(* What reading and writing a line does to a sequence.                     *)
LEMMA TailOf ==
  ASSUME NEW S, NEW s \in Seq(S), s # <<>>
  PROVE  /\ Len(s) \in Nat /\ Len(s) > 0 /\ Head(s) = s[1] /\ s[1] \in S
         /\ Tail(s) \in Seq(S) /\ Len(Tail(s)) = Len(s) - 1
         /\ \A i \in 1 .. Len(s) - 1 : Tail(s)[i] = s[i + 1]
<1>1. Len(s) \in Nat /\ Len(s) > 0
  OBVIOUS
<1>2. Head(s) = s[1] /\ s[1] \in S
  BY <1>1
<1>3. Tail(s) \in Seq(S) /\ Len(Tail(s)) = Len(s) - 1
  BY <1>1
<1>4. \A i \in 1 .. Len(s) - 1 : Tail(s)[i] = s[i + 1]
  BY <1>1, <1>3
<1> QED
  BY <1>1, <1>2, <1>3, <1>4

LEMMA AppendOf ==
  ASSUME NEW S, NEW s \in Seq(S), NEW x \in S
  PROVE  /\ Append(s, x) \in Seq(S) /\ Len(s) \in Nat /\ Len(Append(s, x)) = Len(s) + 1
         /\ \A i \in 1 .. Len(s) : Append(s, x)[i] = s[i]
         /\ Append(s, x)[Len(s) + 1] = x
OBVIOUS

LEMMA LenOf == ASSUME NEW S, NEW s \in Seq(S) PROVE Len(s) \in Nat
OBVIOUS

(* A line read: the requests that are left are still the last ones.        *)
LEMMA LineRead ==
  ASSUME NEW S, NEW s \in Seq(S), s # <<>>, NEW Q, NEW reqs \in Seq(Q), NEW n \in Nat,
         Follows(s, n, reqs)
  PROVE  /\ s[1].kind = "request" =>
              n + 1 <= Len(reqs) /\ s[1].id = reqs[n + 1] /\ Follows(Tail(s), n + 1, reqs)
         /\ s[1].kind # "request" => Follows(Tail(s), n, reqs)
<1> DEFINE m == Len(s)
<1>1. m \in Nat /\ m > 0
  BY TailOf
<1>0. Len(reqs) \in Nat
  BY LenOf
<1>2. Len(Tail(s)) = m - 1 /\ \A i \in 1 .. m - 1 : Tail(s)[i] = s[i + 1]
  BY TailOf
<1>3. PICK at \in [0 .. m -> 0 .. Len(reqs)] :
        /\ at[0] = n /\ at[m] = Len(reqs)
        /\ \A i \in 1 .. m :
             IF s[i].kind = "request"
               THEN at[i] = at[i - 1] + 1 /\ s[i].id = reqs[at[i]]
               ELSE at[i] = at[i - 1]
  BY DEF Follows
<1> DEFINE rest == [i \in 0 .. m - 1 |-> at[i + 1]]
<1> HIDE DEF m
<1>4. rest \in [0 .. m - 1 -> 0 .. Len(reqs)] /\ rest[0] = at[1] /\ rest[m - 1] = at[m]
  <2>1. \A i \in 0 .. m - 1 : i + 1 \in 0 .. m
    BY <1>1
  <2>2. 0 \in 0 .. m - 1 /\ m - 1 \in 0 .. m - 1 /\ 0 + 1 = 1 /\ (m - 1) + 1 = m
    BY <1>1
  <2> QED
    BY <1>3, <2>1, <2>2
<1>5. ASSUME NEW i \in 1 .. m - 1
      PROVE  IF s[i + 1].kind = "request"
               THEN rest[i] = rest[i - 1] + 1 /\ s[i + 1].id = reqs[rest[i]]
               ELSE rest[i] = rest[i - 1]
  <2>1. i + 1 \in 1 .. m /\ i \in 0 .. m - 1 /\ i - 1 \in 0 .. m - 1 /\ (i + 1) - 1 = i
    BY <1>1
  <2>2. rest[i] = at[i + 1] /\ rest[i - 1] = at[i]
    BY <2>1
  <2> QED
    BY <1>3, <2>1, <2>2
<1>6. Follows(Tail(s), at[1], reqs)
  <2> HIDE DEF rest
  <2>1. \A i \in 1 .. m - 1 :
          IF Tail(s)[i].kind = "request"
            THEN rest[i] = rest[i - 1] + 1 /\ Tail(s)[i].id = reqs[rest[i]]
            ELSE rest[i] = rest[i - 1]
    BY <1>2, <1>5
  <2>2. rest[0] = at[1] /\ rest[m - 1] = Len(reqs)
    BY <1>3, <1>4
  <2> QED
    BY <1>2, <1>4, <2>1, <2>2 DEF Follows
<1>7. /\ s[1].kind = "request" => at[1] = n + 1 /\ s[1].id = reqs[n + 1]
      /\ s[1].kind # "request" => at[1] = n
      /\ at[1] \in 0 .. Len(reqs)
  BY <1>1, <1>3, <1>0
<1>9. CASE s[1].kind = "request"
  <2>1. at[1] = n + 1 /\ s[1].id = reqs[n + 1] /\ n + 1 <= Len(reqs)
    BY <1>7, <1>0, <1>9
  <2> QED
    BY <1>6, <1>9, <2>1
<1>10. CASE s[1].kind # "request"
  <2>1. at[1] = n
    BY <1>7, <1>10
  <2> QED
    BY <1>6, <1>10, <2>1
<1> QED
  BY <1>9, <1>10

(* A line written: a request is the last one asked, another line is none.  *)
LEMMA RequestWritten ==
  ASSUME NEW S, NEW s \in Seq(S), NEW l \in S, NEW Q, NEW reqs \in Seq(Q), NEW n \in Nat,
         NEW r \in Q, Follows(s, n, reqs), l.kind = "request", l.id = r
  PROVE  Follows(Append(s, l), n, Append(reqs, r))
<1> DEFINE m == Len(s)
           k == Len(reqs)
           t == Append(s, l)
<1>1. m \in Nat /\ Len(t) = m + 1 /\ t[m + 1] = l /\ \A i \in 1 .. m : t[i] = s[i]
  BY AppendOf
<1>2. /\ k \in Nat /\ Len(Append(reqs, r)) = k + 1 /\ Append(reqs, r)[k + 1] = r
      /\ \A i \in 1 .. k : Append(reqs, r)[i] = reqs[i]
  <2>1. reqs \in Seq(Q) /\ r \in Q
    OBVIOUS
  <2> QED
    BY <2>1, AppendOf
<1>3. PICK at \in [0 .. m -> 0 .. k] :
        /\ at[0] = n /\ at[m] = k
        /\ \A i \in 1 .. m :
             IF s[i].kind = "request"
               THEN at[i] = at[i - 1] + 1 /\ s[i].id = reqs[at[i]]
               ELSE at[i] = at[i - 1]
  BY DEF Follows
<1> HIDE DEF m, k, t
<1>4. Follows(t, n, Append(reqs, r))
  <2> DEFINE more == [i \in 0 .. m + 1 |-> IF i = m + 1 THEN k + 1 ELSE at[i]]
  <2>1. more \in [0 .. m + 1 -> 0 .. k + 1] /\ more[0] = n /\ more[m + 1] = k + 1
    BY <1>1, <1>2, <1>3
  <2>2. ASSUME NEW i \in 1 .. m + 1
        PROVE  IF t[i].kind = "request"
                 THEN more[i] = more[i - 1] + 1 /\ t[i].id = Append(reqs, r)[more[i]]
                 ELSE more[i] = more[i - 1]
    <3>1. CASE i = m + 1
      <4>1. i - 1 = m /\ m \in 0 .. m + 1 /\ more[i - 1] = k /\ more[i] = k + 1
        BY <1>1, <1>2, <1>3, <3>1
      <4> QED
        BY <1>1, <1>2, <3>1, <4>1
    <3>2. CASE i \in 1 .. m
      <4>1. i - 1 \in 0 .. m /\ more[i] = at[i] /\ more[i - 1] = at[i - 1]
        BY <1>1, <3>2
      <4>2. s[i].kind = "request" => at[i] \in 1 .. k
        <5>1. at[i] \in 0 .. k /\ at[i - 1] \in 0 .. k
          BY <1>1, <1>3, <3>2, <4>1
        <5> QED
          BY <1>2, <1>3, <3>2, <5>1
      <4>3. t[i] = s[i] /\ (at[i] \in 1 .. k => Append(reqs, r)[at[i]] = reqs[at[i]])
        BY <1>1, <1>2, <3>2
      <4> QED
        BY <1>3, <3>2, <4>1, <4>2, <4>3
    <3>3. i = m + 1 \/ i \in 1 .. m
      BY <1>1
    <3> HIDE DEF more
    <3> QED
      BY <3>1, <3>2, <3>3
  <2> HIDE DEF more
  <2>3. more \in [0 .. Len(t) -> 0 .. Len(Append(reqs, r))] /\ more[Len(t)] = Len(Append(reqs, r))
    BY <1>1, <1>2, <2>1
  <2>4. 1 .. Len(t) = 1 .. m + 1
    BY <1>1
  <2> QED
    BY <2>1, <2>2, <2>3, <2>4 DEF Follows
<1> QED
  BY <1>4 DEF t

LEMMA NoiseWritten ==
  ASSUME NEW S, NEW s \in Seq(S), NEW l \in S, NEW Q, NEW reqs \in Seq(Q), NEW n \in Nat,
         Follows(s, n, reqs), l.kind # "request"
  PROVE  Follows(Append(s, l), n, reqs)
<1> DEFINE m == Len(s)
           k == Len(reqs)
           t == Append(s, l)
<1>1. m \in Nat /\ Len(t) = m + 1 /\ t[m + 1] = l /\ \A i \in 1 .. m : t[i] = s[i]
  BY AppendOf
<1>2. k \in Nat
  BY LenOf
<1>3. PICK at \in [0 .. m -> 0 .. k] :
        /\ at[0] = n /\ at[m] = k
        /\ \A i \in 1 .. m :
             IF s[i].kind = "request"
               THEN at[i] = at[i - 1] + 1 /\ s[i].id = reqs[at[i]]
               ELSE at[i] = at[i - 1]
  BY DEF Follows
<1> HIDE DEF m, k, t
<1>4. Follows(t, n, reqs)
  <2> DEFINE more == [i \in 0 .. m + 1 |-> IF i = m + 1 THEN k ELSE at[i]]
  <2>1. more \in [0 .. m + 1 -> 0 .. k] /\ more[0] = n /\ more[m + 1] = k
    BY <1>1, <1>2, <1>3
  <2>2. ASSUME NEW i \in 1 .. m + 1
        PROVE  IF t[i].kind = "request"
                 THEN more[i] = more[i - 1] + 1 /\ t[i].id = reqs[more[i]]
                 ELSE more[i] = more[i - 1]
    <3>1. CASE i = m + 1
      BY <1>1, <1>2, <1>3, <3>1
    <3>2. CASE i \in 1 .. m
      <4>1. i - 1 \in 0 .. m /\ more[i] = at[i] /\ more[i - 1] = at[i - 1]
        BY <1>1, <3>2
      <4>2. t[i] = s[i]
        BY <1>1, <3>2
      <4> QED
        BY <1>3, <3>2, <4>1, <4>2
    <3>3. i = m + 1 \/ i \in 1 .. m
      BY <1>1
    <3> HIDE DEF more
    <3> QED
      BY <3>1, <3>2, <3>3
  <2> HIDE DEF more
  <2>3. more \in [0 .. Len(t) -> 0 .. k] /\ more[Len(t)] = k /\ 1 .. Len(t) = 1 .. m + 1
    BY <1>1, <1>2, <2>1
  <2> QED
    BY <2>1, <2>2, <2>3 DEF Follows, k
<1> QED
  BY <1>4 DEF t

(* The answers: counted as they are written, none lost or counted twice.   *)
LEMMA AnswerCount ==
  ASSUME NEW k \in Nat
  PROVE  AnswersTo(k) \in Nat /\ (IsAnswer(k) /\ k > 0 => AnswersTo(k) > 0)
<1> DEFINE A == {j \in 1 .. k : IsAnswer(j)}
<1>1. IsFiniteSet(1 .. k)
  BY FS_Interval
<1>2. IsFiniteSet(A)
  BY <1>1, FS_Subset
<1>3. Cardinality(A) \in Nat /\ (Cardinality(A) = 0 <=> A = {})
  BY <1>2, FS_CardinalityType, FS_EmptySet
<1>4. IsAnswer(k) /\ k > 0 => A # {}
  OBVIOUS
<1> HIDE DEF A
<1>5. IsAnswer(k) /\ k > 0 => Cardinality(A) > 0
  BY <1>3, <1>4
<1> QED
  BY <1>3, <1>5 DEF AnswersTo, A

LEMMA OutWritten ==
  ASSUME TypeOK, NEW l \in Out, WriteOut(l)
  PROVE  /\ Len(stdout) \in Nat /\ Len(stdout') = Len(stdout) + 1
         /\ \A k \in 1 .. Len(stdout) : /\ stdout'[k] = stdout[k]
                                        /\ IsAnswer(k)' = IsAnswer(k)
                                        /\ AnswersTo(k)' = AnswersTo(k)
         /\ stdout'[Len(stdout) + 1] = l
         /\ Done' = IF l.kind = "answer" THEN Done + 1 ELSE Done
<1>0. PICK m \in Nat : m = Len(stdout)
  BY LenOf DEF TypeOK
<1>1. /\ stdout \in Seq(Out) /\ Len(stdout') = m + 1 /\ stdout'[m + 1] = l
      /\ \A k \in 1 .. m : stdout'[k] = stdout[k]
  BY <1>0, AppendOf DEF TypeOK, WriteOut
<1>2. DOMAIN stdout = 1 .. m /\ DOMAIN stdout' = 1 .. m + 1
  BY <1>1, <1>0, AppendOf DEF WriteOut
<1>3. \A k \in 1 .. m : IsAnswer(k)' = IsAnswer(k)
  BY <1>1, <1>2 DEF IsAnswer
<1>4. ASSUME NEW k \in 0 .. m
      PROVE  AnswersTo(k)' = AnswersTo(k)
  <2>1. {j \in 1 .. k : IsAnswer(j)}' = {j \in 1 .. k : IsAnswer(j)}
    BY <1>1, <1>3
  <2> QED
    BY <2>1 DEF AnswersTo
<1>5. AnswersTo(m + 1)' = IF l.kind = "answer" THEN AnswersTo(m) + 1 ELSE AnswersTo(m)
  <2> DEFINE A == {j \in 1 .. m : IsAnswer(j)}
             B == {j \in 1 .. m + 1 : IsAnswer(j)}
  <2>1. IsFiniteSet(A) /\ m + 1 \notin A
    <3>1. IsFiniteSet(1 .. m)
      BY <1>1, FS_Interval
    <3> QED
      BY <1>1, <3>1, FS_Subset
  <2>2. IsAnswer(m + 1)' <=> l.kind = "answer"
    BY <1>1, <1>2 DEF IsAnswer
  <2>3. B' = IF l.kind = "answer" THEN A \cup {m + 1} ELSE A
    <3>1. \A j \in 1 .. m + 1 : j \in 1 .. m \/ j = m + 1
      BY <1>1
    <3>2. 1 .. m \subseteq 1 .. m + 1 /\ m + 1 \in 1 .. m + 1
      BY <1>1
    <3> QED
      BY <1>3, <2>2, <3>1, <3>2
  <2>4. Cardinality(A \cup {m + 1}) = Cardinality(A) + 1
    BY <2>1, FS_AddElement
  <2> HIDE DEF A, B
  <2>5. Cardinality(B)' = IF l.kind = "answer" THEN Cardinality(A) + 1 ELSE Cardinality(A)
    BY <2>3, <2>4
  <2> QED
    BY <2>5 DEF AnswersTo, A, B
<1> QED
  <2>1. Done = AnswersTo(m) /\ Done' = AnswersTo(m + 1)'
    BY <1>1, <1>0 DEF Done, AnswersTo
  <2> QED
    BY <1>1, <1>3, <1>4, <1>5, <1>0, <2>1

LEMMA OutSame ==
  ASSUME UNCHANGED stdout
  PROVE  /\ Done' = Done
         /\ \A k : IsAnswer(k)' = IsAnswer(k) /\ AnswersTo(k)' = AnswersTo(k)
BY DEF Done, IsAnswer, AnswersTo

(* Answers stay in order when others are written, or more is asked.        *)
LEMMA OrderKept ==
  ASSUME StdioInv, asked' = asked \/ \E r \in Requests : asked' = Append(asked, r),
         stdout' = stdout \/ \E l \in Out : l.kind # "answer" /\ WriteOut(l)
  PROVE  AnsweredInOrder' /\ Done' = Done
<1>1. \A n \in 1 .. Len(asked) : n <= Len(asked') /\ asked'[n] = asked[n]
  <2>1. Len(asked) \in Nat /\ asked \in Seq(Requests)
    BY LenOf DEF StdioInv, TypeOK
  <2>2. CASE asked' = asked
    BY <2>1, <2>2
  <2>3. ASSUME NEW r \in Requests, asked' = Append(asked, r)
        PROVE  \A n \in 1 .. Len(asked) : n <= Len(asked') /\ asked'[n] = asked[n]
    BY <2>1, <2>3, AppendOf
  <2> QED
    BY <2>2, <2>3
<1>2. DOMAIN stdout = 1 .. Len(stdout) /\ DOMAIN stdout' = 1 .. Len(stdout') /\ Len(stdout) \in Nat
  BY LenOf, AppendOf DEF StdioInv, TypeOK, WriteOut
<1> DEFINE Kept(k) == /\ k \in 1 .. Len(stdout) /\ IsAnswer(k)
                      /\ AnswersTo(k)' = AnswersTo(k) /\ stdout'[k] = stdout[k]
<1>3. \A k \in 1 .. Len(stdout') : IsAnswer(k)' => Kept(k)
  <2>1. CASE stdout' = stdout
    BY <2>1, OutSame
  <2>2. ASSUME NEW l \in Out, l.kind # "answer", WriteOut(l)
        PROVE  \A k \in 1 .. Len(stdout') : IsAnswer(k)' => Kept(k)
    <3>1. /\ Len(stdout') = Len(stdout) + 1 /\ stdout'[Len(stdout) + 1] = l
          /\ \A k \in 1 .. Len(stdout) : /\ stdout'[k] = stdout[k]
                                         /\ IsAnswer(k)' = IsAnswer(k)
                                         /\ AnswersTo(k)' = AnswersTo(k)
      BY <2>2, OutWritten DEF StdioInv
    <3>2. \A k \in 1 .. Len(stdout') : k \in 1 .. Len(stdout) \/ k = Len(stdout) + 1
      BY <1>2, <3>1
    <3>3. \A k \in 1 .. Len(stdout') : IsAnswer(k)' => stdout'[k].kind = "answer"
      BY DEF IsAnswer
    <3> QED
      BY <2>2, <3>1, <3>2, <3>3
  <2> QED
    BY <2>1, <2>2
<1>4. ASSUME NEW k \in 1 .. Len(stdout'), IsAnswer(k)'
      PROVE  AnswersTo(k)' <= Len(asked') /\ stdout'[k].id = asked'[AnswersTo(k)']
  <2>1. /\ k \in 1 .. Len(stdout) /\ IsAnswer(k) /\ AnswersTo(k)' = AnswersTo(k)
        /\ stdout'[k] = stdout[k]
    BY <1>3, <1>4
  <2>2. AnswersTo(k) \in Nat /\ AnswersTo(k) > 0
    BY <2>1, <1>2, AnswerCount
  <2>3. AnswersTo(k) <= Len(asked) /\ stdout[k].id = asked[AnswersTo(k)]
    BY <1>2, <2>1 DEF StdioInv, AnsweredInOrder
  <2>4. Len(asked) \in Nat
    BY LenOf DEF StdioInv, TypeOK
  <2>5. AnswersTo(k) \in 1 .. Len(asked)
    BY <2>2, <2>3, <2>4
  <2> QED
    BY <1>1, <2>1, <2>3, <2>5
<1>5. Done' = Done
  BY OutSame, OutWritten DEF StdioInv
<1> QED
  BY <1>2, <1>4, <1>5 DEF AnsweredInOrder

LEMMA OrderQuiet ==
  ASSUME StdioInv, UNCHANGED <<stdin, asked, current>>,
         pc' = "handling" <=> pc = "handling",
         stdout' = stdout \/ \E l \in Out : l.kind # "answer" /\ WriteOut(l)
  PROVE  RequestsInOrder' /\ AnsweredInOrder'
<1>1. AnsweredInOrder' /\ Done' = Done
  BY OrderKept
<1>2. Busy' = Busy
  BY DEF Busy
<1> QED
  BY <1>1, <1>2 DEF StdioInv, RequestsInOrder

LEMMA OrderWritten ==
  ASSUME StdioInv, NEW l \in Line, WriteStdin(l),
         \/ l.kind # "request" /\ asked' = asked
         \/ \E r \in Requests : l.kind = "request" /\ l.id = r /\ asked' = Append(asked, r)
  PROVE  RequestsInOrder' /\ AnsweredInOrder'
<1>1. AnsweredInOrder' /\ Done' = Done
  BY OrderKept DEF WriteStdin
<1>2. Busy' = Busy /\ Busy \in Nat
  BY DEF Busy, WriteStdin
<1>3. Done \in Nat
  BY AnswerCount, LenOf DEF Done, StdioInv, TypeOK
<1>4. stdin \in Seq(Line) /\ asked \in Seq(Requests) /\ Follows(stdin, Done + Busy, asked)
  BY DEF StdioInv, TypeOK, RequestsInOrder
<1>5. Follows(stdin', Done + Busy, asked')
  <2>1. Done + Busy \in Nat
    BY <1>2, <1>3
  <2>2. CASE l.kind # "request" /\ asked' = asked
    BY <1>4, <2>1, <2>2, NoiseWritten DEF WriteStdin
  <2>3. ASSUME NEW r \in Requests, l.kind = "request", l.id = r, asked' = Append(asked, r)
        PROVE  Follows(stdin', Done + Busy, asked')
    BY <1>4, <2>1, <2>3, RequestWritten DEF WriteStdin
  <2> QED
    BY <2>2, <2>3
<1>6. pc' = "handling" => Done < Len(asked') /\ current' = asked'[Done + 1]
  BY SMTT(20), <1>3, <1>4, AppendOf, LenOf DEF StdioInv, RequestsInOrder, WriteStdin
<1> QED
  BY <1>1, <1>2, <1>5, <1>6 DEF RequestsInOrder

LEMMA OrderRead ==
  ASSUME StdioInv, NEW kind, ReadLine(kind), kind # "request", UNCHANGED <<pc, current>>,
         stdout' = stdout \/ \E l \in Out : l.kind # "answer" /\ WriteOut(l)
  PROVE  RequestsInOrder' /\ AnsweredInOrder'
<1>1. AnsweredInOrder' /\ Done' = Done
  BY OrderKept DEF ReadLine
<1>2. Busy' = Busy /\ Busy \in Nat /\ Done \in Nat
  BY AnswerCount, LenOf DEF Busy, Done, StdioInv, TypeOK
<1>3. stdin \in Seq(Line) /\ asked \in Seq(Requests) /\ Follows(stdin, Done + Busy, asked)
  BY DEF StdioInv, TypeOK, RequestsInOrder
<1>4. stdin # <<>> /\ stdin[1].kind # "request"
  BY <1>3, TailOf DEF ReadLine
<1>5. Follows(stdin', Done + Busy, asked)
  <2>1. Done + Busy \in Nat
    BY <1>2
  <2> QED
    BY <1>3, <1>4, <2>1, LineRead DEF ReadLine
<1>6. pc' # "handling"
  BY DEF ReadLine
<1> QED
  BY <1>1, <1>2, <1>5, <1>6 DEF RequestsInOrder, ReadLine

LEMMA OrderRequest ==
  ASSUME StdioInv, ReadRequest
  PROVE  RequestsInOrder' /\ AnsweredInOrder'
<1>1. AnsweredInOrder' /\ Done' = Done
  BY OrderKept DEF ReadLine, ReadRequest
<1>2. Busy' = 1 /\ Busy = 0 /\ Done \in Nat
  BY AnswerCount, LenOf DEF Busy, Done, StdioInv, TypeOK, ReadLine, ReadRequest
<1>3. stdin \in Seq(Line) /\ asked \in Seq(Requests) /\ Follows(stdin, Done, asked)
  BY <1>2 DEF StdioInv, TypeOK, RequestsInOrder
<1>4. stdin # <<>> /\ stdin[1].kind = "request" /\ current' = stdin[1].id
  BY <1>3, TailOf DEF ReadLine, ReadRequest
<1>5. Done + 1 <= Len(asked) /\ current' = asked[Done + 1] /\ Follows(stdin', Done + 1, asked)
  BY <1>2, <1>3, <1>4, LineRead DEF ReadLine, ReadRequest
<1>6. Len(asked) \in Nat /\ asked' = asked
  BY <1>3, LenOf DEF ReadLine, ReadRequest
<1>7. Done < Len(asked)
  BY <1>2, <1>5, <1>6
<1> QED
  BY <1>1, <1>2, <1>5, <1>6, <1>7 DEF RequestsInOrder

LEMMA OrderAnswer ==
  ASSUME StdioInv, NEW ok \in BOOLEAN, pc = "handling", Respond(ok)
  PROVE  RequestsInOrder' /\ AnsweredInOrder'
<1> DEFINE l == [kind |-> "answer", id |-> current, ok |-> ok]
<1>1. l \in Out /\ WriteOut(l) /\ l.kind = "answer" /\ l.id = current
  BY DEF StdioInv, TypeOK, Out, Respond
<1> HIDE DEF l
<1>2. Done \in Nat /\ Busy = 1 /\ Busy' = 0 /\ Len(asked) \in Nat
  BY AnswerCount, LenOf DEF Busy, Done, StdioInv, TypeOK, Respond
<1>3. /\ Len(stdout) \in Nat /\ Len(stdout') = Len(stdout) + 1
      /\ \A k \in 1 .. Len(stdout) : /\ stdout'[k] = stdout[k]
                                     /\ IsAnswer(k)' = IsAnswer(k)
                                     /\ AnswersTo(k)' = AnswersTo(k)
      /\ stdout'[Len(stdout) + 1] = l
      /\ Done' = Done + 1
  BY <1>1, OutWritten DEF StdioInv
<1>4. UNCHANGED <<stdin, asked>> /\ pc' = "select"
  BY DEF Respond, host
<1>5. RequestsInOrder'
  BY <1>2, <1>3, <1>4 DEF RequestsInOrder, StdioInv
<1>6. ASSUME NEW k \in 1 .. Len(stdout'), IsAnswer(k)'
      PROVE  AnswersTo(k)' <= Len(asked) /\ stdout'[k].id = asked[AnswersTo(k)']
  <2>1. CASE k \in 1 .. Len(stdout)
    <3>1. k \in DOMAIN stdout
      BY <2>1 DEF StdioInv, TypeOK
    <3> QED
      BY <1>3, <1>6, <2>1, <3>1 DEF StdioInv, AnsweredInOrder
  <2>2. CASE k = Len(stdout) + 1
    <3>1. AnswersTo(k)' = Done + 1
      BY <1>3, <2>2 DEF Done, AnswersTo
    <3>2. Done + 1 <= Len(asked) /\ current = asked[Done + 1]
      BY <1>2 DEF StdioInv, RequestsInOrder
    <3> QED
      BY <1>1, <1>3, <2>2, <3>1, <3>2
  <2> QED
    BY <1>3, <2>1, <2>2
<1>7. DOMAIN stdout' = 1 .. Len(stdout')
  BY <1>1, AppendOf DEF StdioInv, TypeOK, WriteOut
<1> QED
  BY <1>4, <1>5, <1>6, <1>7 DEF AnsweredInOrder

LEMMA OrderStep ==
  ASSUME StdioAssumption, StdioInv, [Next]_vars
  PROVE  RequestsInOrder' /\ AnsweredInOrder'
<1>0. \A n \in Nat : [kind |-> "completion", id |-> n] \in Line
  BY DEF Line
<1>1. ASSUME NEW r \in Requests, HostAsks(r) PROVE RequestsInOrder' /\ AnsweredInOrder'
  <2> DEFINE l == [kind |-> "request", id |-> r]
  <2>1. l \in Line /\ l.kind = "request" /\ l.id = r
    BY DEF Line
  <2>2. WriteStdin(l) /\ asked' = Append(asked, r)
    BY <1>1 DEF HostAsks
  <2> HIDE DEF l
  <2> QED
    BY <2>1, <2>2, OrderWritten
<1>2. CASE HostNoise
  <2> DEFINE l == [kind |-> "noise"]
  <2>1. l \in Line /\ l.kind # "request" /\ WriteStdin(l) /\ asked' = asked
    BY <1>2 DEF Line, HostNoise
  <2> HIDE DEF l
  <2> QED
    BY <2>1, OrderWritten
<1>3. ASSUME NEW n \in 1 .. counter, HostCompletes(n) PROVE RequestsInOrder' /\ AnsweredInOrder'
  <2> DEFINE l == [kind |-> "completion", id |-> n]
  <2>1. l \in Line /\ l.kind # "request" /\ WriteStdin(l) /\ asked' = asked
    BY <1>0, <1>3 DEF HostCompletes, StdioInv, TypeOK
  <2> HIDE DEF l
  <2> QED
    BY <2>1, OrderWritten
<1>4. CASE HostCloses \/ EndOfInput \/ ProviderAsks \/ UNCHANGED vars
  BY <1>4, OrderQuiet DEF HostCloses, EndOfInput, ProviderAsks, vars, host
<1>5. CASE ReadRequest
  BY <1>5, OrderRequest
<1>6. CASE ReadNoise
  <2>1. [kind |-> "parseError"] \in Out /\ [kind |-> "parseError"].kind # "answer"
    BY DEF Out
  <2> QED
    BY <1>6, <2>1, OrderRead DEF ReadNoise
<1>7. CASE ReadCompletion
  <2>1. [kind |-> "parseError"] \in Out /\ [kind |-> "parseError"].kind # "answer"
    BY DEF Out
  <2> QED
    BY <1>7, <2>1, OrderRead DEF ReadCompletion, Route
<1>8. CASE TakeSample
  <2> DEFINE l == [kind |-> "sampling", id |-> counter']
  <2>1. l \in Out /\ l.kind # "answer"
    BY <1>8 DEF Out, TakeSample, StdioInv, TypeOK
  <2>2. WriteOut(l) /\ UNCHANGED <<stdin, asked, current, pc>>
    BY <1>8 DEF TakeSample, host
  <2> HIDE DEF l
  <2> QED
    BY <2>1, <2>2, OrderQuiet
<1>9. CASE HandlerAnswers \/ ProviderReturns
  <2>1. pc = "handling" /\ \E ok \in BOOLEAN : Respond(ok)
    BY <1>9 DEF HandlerAnswers, ProviderReturns
  <2> QED
    BY <2>1, OrderAnswer
<1> QED
  BY <1>1, <1>2, <1>3, <1>4, <1>5, <1>6, <1>7, <1>8, <1>9 DEF Next, Host, Loop, Handler

LEMMA StdioTypes ==
  ASSUME StdioAssumption, StdioInv, [Next]_vars
  PROVE  TypeOK'
<1> USE DEF StdioInv, TypeOK
<1>1. ASSUME NEW l \in Line, WriteStdin(l), asked' = asked \/ \E r \in Requests : asked' = Append(asked, r)
      PROVE  TypeOK'
  <2>1. stdin' \in Seq(Line)
    BY <1>1, AppendOf DEF WriteStdin
  <2>3. asked' \in Seq(Requests)
    <3>1. ASSUME NEW r \in Requests PROVE Append(asked, r) \in Seq(Requests)
      BY AppendOf
    <3> QED
      BY <1>1, <3>1
  <2>2. written' \in 0 .. MaxLines
    BY <1>1 DEF WriteStdin, StdioAssumption
  <2> QED
    BY <1>1, <2>1, <2>2, <2>3 DEF WriteStdin, samples
<1>2. ASSUME NEW r \in Requests, HostAsks(r) PROVE TypeOK'
  <2>1. [kind |-> "request", id |-> r] \in Line
    BY DEF Line
  <2> QED
    BY <1>1, <1>2, <2>1 DEF HostAsks
<1>3. CASE HostNoise
  <2>1. [kind |-> "noise"] \in Line
    BY DEF Line
  <2> QED
    BY <1>1, <1>3, <2>1 DEF HostNoise
<1>4. ASSUME NEW n \in 1 .. counter, HostCompletes(n) PROVE TypeOK'
  <2>1. [kind |-> "completion", id |-> n] \in Line
    BY DEF Line
  <2> QED
    BY <1>1, <1>4, <2>1 DEF HostCompletes
<1>5. CASE HostCloses \/ UNCHANGED vars
  BY <1>5 DEF HostCloses, vars, samples
<1>6. ASSUME NEW kind, ReadLine(kind)
      PROVE  /\ stdin' \in Seq(Line) /\ UNCHANGED <<written, asked, hostOpen>>
             /\ Head(stdin) \in Line /\ Head(stdin).kind = kind /\ pc = "select" /\ current = None
  BY <1>6, TailOf DEF ReadLine
<1>7. CASE ReadRequest
  <2>1. Head(stdin) \in Line /\ Head(stdin).kind = "request" /\ pc = "select" /\ current = None
    BY <1>6, <1>7 DEF ReadRequest
  <2>2. current' \in Requests /\ current' # None /\ pc' = "handling"
    BY <1>7, <2>1 DEF ReadRequest, Line, StdioAssumption
  <2>3. waiting \subseteq {} /\ waiting' = waiting /\ delivered' = delivered
    BY <1>7, <2>1 DEF ReadRequest, AtRest
  <2> QED
    BY <1>6, <1>7, <2>2, <2>3 DEF ReadRequest, samples
<1>8. [kind |-> "parseError"] \in Out
  BY DEF Out
<1>9. CASE ReadNoise
  <2>1. stdout' \in Seq(Out)
    BY <1>8, <1>9, AppendOf DEF ReadNoise, WriteOut
  <2> QED
    BY <1>6, <1>9, <2>1 DEF ReadNoise, samples
<1>10. CASE ReadCompletion
  <2>6. stdout' = stdout \/ stdout' = Append(stdout, [kind |-> "parseError"])
    BY <1>10 DEF ReadCompletion, Route, WriteOut
  <2>7. stdout' \in Seq(Out)
    <3>1. Append(stdout, [kind |-> "parseError"]) \in Seq(Out)
      <4> DEFINE l == [kind |-> "parseError"]
      <4>1. l \in Out
        BY <1>8
      <4> HIDE DEF l
      <4>2. Append(stdout, l) \in Seq(Out)
        BY <4>1, AppendOf
      <4> QED
        BY <4>2 DEF l
    <3> QED
      BY <2>6, <3>1
  <2>8. pending' \subseteq pending /\ delivered' \subseteq delivered \cup waiting
    BY <1>10 DEF ReadCompletion, Route
  <2>1. stdout' \in Seq(Out) /\ pending' \subseteq pending /\ delivered' \subseteq delivered \cup waiting
    BY <2>7, <2>8
  <2>2. Head(stdin).id \in 1 .. counter
    BY <1>10, TailOf DEF ReadCompletion, ReadLine, SamplesKnown, CompletionsKnown
  <2>3. UNCHANGED <<pc, current, waiting, channel, counter>> /\ completed' = completed \cup {Head(stdin).id}
    BY <1>10 DEF ReadCompletion
  <2>4. ReadLine("completion")
    BY <1>10 DEF ReadCompletion
  <2>5. /\ stdin' \in Seq(Line) /\ UNCHANGED <<written, asked, hostOpen>>
    BY <1>6, <2>4
  <2> QED
    BY <2>1, <2>2, <2>3, <2>5
<1>11. CASE EndOfInput
  BY <1>11 DEF EndOfInput, host
<1>12. CASE TakeSample
  <2>1. counter' \in Nat /\ counter' = counter + 1 /\ 1 .. counter \subseteq 1 .. counter'
    BY <1>12 DEF TakeSample
  <2>2. channel' \in Seq(Requests) /\ Len(channel') <= Channel /\ Head(channel) \in Requests
    BY <1>12, TailOf DEF TakeSample, StdioAssumption
  <2>3. pending' \subseteq (1 .. counter') \X Requests /\ completed' \subseteq 1 .. counter'
    BY <1>12, <2>1, <2>2 DEF TakeSample
  <2>4. stdout' \in Seq(Out)
    <3>1. [kind |-> "sampling", id |-> counter'] \in Out
      BY <2>1 DEF Out
    <3> QED
      BY <1>12, <3>1, AppendOf DEF TakeSample, WriteOut
  <2> QED
    BY <1>12, <2>1, <2>2, <2>3, <2>4 DEF TakeSample, host
<1>13. ASSUME NEW ok \in BOOLEAN, pc = "handling", Respond(ok) PROVE TypeOK'
  <2>1. [kind |-> "answer", id |-> current, ok |-> ok] \in Out
    BY <1>13 DEF Out
  <2>2. stdout' \in Seq(Out)
    BY <1>13, <2>1, AppendOf DEF Respond, WriteOut
  <2> QED
    BY <1>13, <2>2 DEF Respond, host, samples
<1>14. CASE ProviderAsks
  <2>1. channel' \in Seq(Requests) /\ Len(channel') <= Channel
    <3>1. current \in Requests /\ channel' = Append(channel, current) /\ Len(channel) < Channel
      BY <1>14 DEF ProviderAsks
    <3> QED
      BY <3>1, AppendOf DEF StdioAssumption
  <2> QED
    BY <1>14, <2>1 DEF ProviderAsks, host
<1>15. CASE HandlerAnswers \/ ProviderReturns
  <2>1. pc = "handling" /\ \E ok \in BOOLEAN : Respond(ok)
    BY <1>15 DEF HandlerAnswers, ProviderReturns
  <2> QED
    BY <1>13, <2>1
<1> QED
  BY <1>2, <1>3, <1>4, <1>5, <1>7, <1>9, <1>10, <1>11, <1>12, <1>14, <1>15
  DEF Next, Host, Loop, Handler

(* The ids of the sampling requests, as stdout grows.                      *)
LEMMA SampleWritten ==
  ASSUME TypeOK, NEW l \in Out, WriteOut(l)
  PROVE  SampleIds' = IF l.kind = "sampling" THEN SampleIds \cup {l.id} ELSE SampleIds
<1> DEFINE Sampled == {j \in DOMAIN stdout : stdout[j].kind = "sampling"}
<1>1. PICK m \in Nat : m = Len(stdout)
  BY LenOf DEF TypeOK
<1>2. /\ DOMAIN stdout = 1 .. m /\ DOMAIN stdout' = 1 .. m + 1 /\ stdout'[m + 1] = l
      /\ \A k \in 1 .. m : stdout'[k] = stdout[k]
  BY <1>1, AppendOf DEF TypeOK, WriteOut
<1>3. Sampled' = IF l.kind = "sampling" THEN Sampled \cup {m + 1} ELSE Sampled
  <2>1. \A k \in 1 .. m + 1 : k \in 1 .. m \/ k = m + 1
    OBVIOUS
  <2>2. 1 .. m \subseteq 1 .. m + 1 /\ m + 1 \in 1 .. m + 1
    OBVIOUS
  <2> QED
    BY <1>2, <2>1, <2>2
<1>4. \A k \in Sampled : stdout'[k] = stdout[k]
  BY <1>2
<1> HIDE DEF Sampled
<1>5. SampleIds = {stdout[k].id : k \in Sampled} /\ SampleIds' = {stdout'[k].id : k \in Sampled'}
  BY DEF SampleIds, Sampled
<1>6. CASE l.kind = "sampling"
  <2>1. Sampled' = Sampled \cup {m + 1} /\ stdout'[m + 1] = l
    BY <1>2, <1>3, <1>6
  <2>2. \A x : x \in SampleIds' <=> x \in SampleIds \/ x = l.id
    BY <1>4, <1>5, <2>1
  <2> QED
    BY <1>6, <2>2
<1>7. CASE l.kind # "sampling"
  <2>1. Sampled' = Sampled
    BY <1>3, <1>7
  <2>2. \A x : x \in SampleIds' <=> x \in SampleIds
    BY <1>4, <1>5, <2>1
  <2> QED
    BY <1>7, <2>2
<1> QED
  BY <1>6, <1>7

LEMMA CompletionsStep ==
  ASSUME StdioInv, counter' \in Nat, counter <= counter',
         stdin' = stdin \/ (\E l \in Line : l.kind # "completion" /\ WriteStdin(l))
                        \/ (\E n \in 1 .. counter : WriteStdin([kind |-> "completion", id |-> n]))
                        \/ (\E kind : ReadLine(kind))
  PROVE  CompletionsKnown'
<1> USE DEF CompletionsKnown
<1>0. stdin \in Seq(Line) /\ Len(stdin) \in Nat /\ CompletionsKnown
        /\ 1 .. counter \subseteq 1 .. counter'
  BY LenOf DEF StdioInv, TypeOK, SamplesKnown
<1>1. CASE stdin' = stdin
  BY <1>0, <1>1
<1>2. ASSUME NEW l \in Line, WriteStdin(l), l.kind = "completion" => l.id \in 1 .. counter
      PROVE  CompletionsKnown'
  <2>1. /\ Len(stdin') = Len(stdin) + 1 /\ stdin'[Len(stdin) + 1] = l
        /\ \A i \in 1 .. Len(stdin) : stdin'[i] = stdin[i]
    BY <1>0, <1>2, AppendOf DEF WriteStdin
  <2>2. \A i \in 1 .. Len(stdin') : i \in 1 .. Len(stdin) \/ i = Len(stdin) + 1
    BY <1>0, <2>1
  <2> QED
    BY <1>0, <1>2, <2>1, <2>2
<1>3. ASSUME NEW n \in 1 .. counter, WriteStdin([kind |-> "completion", id |-> n])
      PROVE  CompletionsKnown'
  <2> DEFINE l == [kind |-> "completion", id |-> n]
  <2>1. l \in Line /\ WriteStdin(l) /\ l.id \in 1 .. counter
    BY <1>3 DEF Line, StdioInv, TypeOK
  <2> HIDE DEF l
  <2> QED
    BY <1>2, <2>1
<1>4. ASSUME NEW kind, ReadLine(kind)
      PROVE  CompletionsKnown'
  <2>1. /\ Len(stdin') = Len(stdin) - 1
        /\ \A i \in 1 .. Len(stdin) - 1 : stdin'[i] = stdin[i + 1]
    BY <1>0, <1>4, TailOf DEF ReadLine
  <2>2. \A i \in 1 .. Len(stdin) - 1 : i + 1 \in 1 .. Len(stdin)
    BY <1>0
  <2> QED
    BY <1>0, <2>1, <2>2
<1> QED
  BY <1>1, <1>2, <1>3, <1>4

LEMMA SamplesQuiet ==
  ASSUME StdioInv, UNCHANGED <<counter, completed, pending>>, pc' # "closed" => pc # "closed",
         CompletionsKnown',
         stdout' = stdout \/ \E l \in Out : l.kind # "sampling" /\ WriteOut(l)
  PROVE  SamplesKnown'
<1>1. SampleIds' = SampleIds
  BY SampleWritten DEF StdioInv, SampleIds
<1> QED
  BY <1>1 DEF StdioInv, SamplesKnown

LEMMA SamplesStep ==
  ASSUME StdioAssumption, StdioInv, [Next]_vars
  PROVE  SamplesKnown'
<1>1. CompletionsKnown'
  <2>1. counter' \in Nat /\ counter <= counter'
    <3>1. counter' = counter \/ counter' = counter + 1
      BY DEF Next, Host, Loop, Handler, HostAsks, HostNoise, HostCompletes, HostCloses, WriteStdin,
             ReadRequest, ReadNoise, ReadCompletion, EndOfInput, TakeSample, HandlerAnswers,
             ProviderAsks, ProviderReturns, Respond, samples, vars
    <3> QED
      BY <3>1 DEF StdioInv, TypeOK
  <2>2. ASSUME NEW r \in Requests, HostAsks(r) PROVE CompletionsKnown'
    <3> DEFINE l == [kind |-> "request", id |-> r]
    <3>1. l \in Line /\ l.kind # "completion" /\ WriteStdin(l)
      BY <2>2 DEF Line, HostAsks
    <3> HIDE DEF l
    <3> QED
      BY <2>1, <3>1, CompletionsStep
  <2>3. CASE HostNoise
    <3> DEFINE l == [kind |-> "noise"]
    <3>1. l \in Line /\ l.kind # "completion" /\ WriteStdin(l)
      BY <2>3 DEF Line, HostNoise
    <3> HIDE DEF l
    <3> QED
      BY <2>1, <3>1, CompletionsStep
  <2>4. ASSUME NEW n \in 1 .. counter, HostCompletes(n) PROVE CompletionsKnown'
    BY <2>1, <2>4, CompletionsStep DEF HostCompletes
  <2>5. CASE ReadRequest \/ ReadNoise \/ ReadCompletion
    BY <2>1, <2>5, CompletionsStep DEF ReadRequest, ReadNoise, ReadCompletion
  <2>6. CASE HostCloses \/ EndOfInput \/ TakeSample \/ Handler \/ UNCHANGED vars
    <3>1. stdin' = stdin
      BY <2>6 DEF HostCloses, EndOfInput, TakeSample, Handler, HandlerAnswers, ProviderAsks,
                  ProviderReturns, Respond, host, vars
    <3> QED
      BY <2>1, <3>1, CompletionsStep
  <2> QED
    BY <2>2, <2>3, <2>4, <2>5, <2>6 DEF Next, Host, Loop
<1>2. CASE Host \/ ReadRequest \/ ProviderAsks \/ UNCHANGED vars
  <2>1. UNCHANGED <<counter, completed, pending, stdout>> /\ (pc' # "closed" => pc # "closed")
    BY <1>2 DEF Host, HostAsks, HostNoise, HostCompletes, HostCloses, WriteStdin, ReadRequest, ReadLine,
                ProviderAsks, samples, vars
  <2> QED
    BY <1>1, <2>1, SamplesQuiet
<1>3. CASE ReadNoise
  <2> DEFINE l == [kind |-> "parseError"]
  <2>1. l \in Out /\ l.kind # "sampling" /\ WriteOut(l)
    BY <1>3 DEF Out, ReadNoise
  <2> HIDE DEF l
  <2> QED
    BY <1>1, <1>3, <2>1, SamplesQuiet DEF ReadNoise, samples
<1>4. CASE HandlerAnswers \/ ProviderReturns
  <2>1. PICK ok \in BOOLEAN : pc = "handling" /\ Respond(ok)
    BY <1>4 DEF HandlerAnswers, ProviderReturns
  <2> DEFINE l == [kind |-> "answer", id |-> current, ok |-> ok]
  <2>2. l \in Out /\ l.kind # "sampling" /\ WriteOut(l)
    BY <2>1 DEF Out, Respond, StdioInv, TypeOK
  <2> HIDE DEF l
  <2> QED
    BY <1>1, <2>1, <2>2, SamplesQuiet DEF Respond, samples
<1>5. CASE EndOfInput
  <2>1. SampleIds' = SampleIds
    BY <1>5 DEF EndOfInput, SampleIds
  <2> QED
    BY <1>1, <1>5, <2>1 DEF EndOfInput, SamplesKnown, StdioInv
<1>6. CASE TakeSample
  <2> DEFINE l == [kind |-> "sampling", id |-> counter']
             r == Head(channel)
  <2>1. counter \in Nat /\ counter' = counter + 1 /\ pc' = pc /\ completed' = completed
    BY <1>6 DEF TakeSample, StdioInv, TypeOK
  <2>2. l \in Out /\ l.kind = "sampling" /\ WriteOut(l) /\ l.id = counter + 1
    BY <1>6, <2>1 DEF Out, TakeSample
  <2>3. r \in Requests /\ pending' = pending \cup {<<counter + 1, r>>}
    BY <1>6, <2>1, TailOf DEF TakeSample, StdioInv, TypeOK
  <2> HIDE DEF l, r
  <2>4. SampleIds' = 1 .. counter'
    <3>1. SampleIds' = 1 .. counter \cup {counter + 1}
      BY <2>2, SampleWritten DEF StdioInv, SamplesKnown
    <3> QED
      BY <2>1, <3>1
  <2>5. \A p \in pending : p[1] \in 1 .. counter
    BY DEF StdioInv, TypeOK
  <2>6. \A p, q \in pending' : p[1] = q[1] => p = q
    BY <2>1, <2>3, <2>5 DEF StdioInv, SamplesKnown
  <2>7. ASSUME pc # "closed", NEW n \in 1 .. counter'
        PROVE  n \in completed' <=> \A s \in Requests : <<n, s>> \notin pending'
    <3>1. CASE n = counter + 1
      <4>1. n \notin completed' /\ <<n, r>> \in pending'
        BY <2>1, <2>3, <3>1 DEF StdioInv, TypeOK
      <4> QED
        BY <2>3, <4>1
    <3>2. CASE n \in 1 .. counter
      <4>1. \A s : <<n, s>> \in pending' <=> <<n, s>> \in pending
        BY <2>1, <2>3, <3>2
      <4> QED
        BY <2>1, <2>7, <3>2, <4>1 DEF StdioInv, SamplesKnown
    <3> QED
      BY <2>1, <3>1, <3>2
  <2> QED
    BY <1>1, <2>1, <2>4, <2>6, <2>7 DEF SamplesKnown
<1>7. CASE ReadCompletion
  <2> DEFINE n == Head(stdin).id
  <2>1. n \in 1 .. counter /\ pc = "select"
    BY <1>7, TailOf DEF ReadCompletion, ReadLine, StdioInv, TypeOK, SamplesKnown, CompletionsKnown
  <2>2. completed' = completed \cup {n} /\ UNCHANGED <<counter, pc>>
    BY <1>7 DEF ReadCompletion
  <2>3. SampleIds' = SampleIds
    <3> DEFINE l == [kind |-> "parseError"]
    <3>1. l \in Out /\ l.kind # "sampling" /\ (stdout' = stdout \/ WriteOut(l))
      BY <1>7 DEF Out, ReadCompletion, Route
    <3> HIDE DEF l
    <3> QED
      BY <3>1, SampleWritten DEF StdioInv, SampleIds
  <2>4. \/ \E r \in Requests : <<n, r>> \in pending /\ pending' = pending \ {<<n, r>>}
        \/ (\A r \in Requests : <<n, r>> \notin pending) /\ pending' = pending
    BY <1>7 DEF ReadCompletion, Route
  <2> HIDE DEF n
  <2>5. \A p, q \in pending : p[1] = q[1] => p = q
    BY DEF StdioInv, SamplesKnown
  <2>6. \A m \in 1 .. counter : m \in completed <=> \A r \in Requests : <<m, r>> \notin pending
    BY <2>1 DEF StdioInv, SamplesKnown
  <2>7. \A r \in Requests : <<n, r>> \notin pending'
    BY <2>4, <2>5
  <2>8. \A m, r : m # n => (<<m, r>> \in pending' <=> <<m, r>> \in pending)
    BY <2>4
  <2>9. \A m \in 1 .. counter : m \in completed' <=> \A r \in Requests : <<m, r>> \notin pending'
    BY <2>2, <2>6, <2>7, <2>8
  <2>10. \A p, q \in pending' : p[1] = q[1] => p = q
    BY <2>4, <2>5
  <2> QED
    BY <1>1, <2>2, <2>3, <2>9, <2>10 DEF StdioInv, SamplesKnown
<1> QED
  BY <1>2, <1>3, <1>4, <1>5, <1>6, <1>7 DEF Next, Loop, Handler

LEMMA RestStep ==
  ASSUME StdioAssumption, StdioInv, [Next]_vars
  PROVE  AtRest'
BY DEF StdioInv, AtRest, TypeOK, StdioAssumption, Next, Host, Loop, Handler, HostAsks, HostNoise,
       HostCompletes, HostCloses, WriteStdin, ReadLine, ReadRequest, ReadNoise, ReadCompletion, Route,
       EndOfInput, TakeSample, HandlerAnswers, ProviderAsks, ProviderReturns, Respond, host, samples, vars

LEMMA StdioInvariance == Spec => []StdioInv
<1>1. Init => StdioInv
  <2> SUFFICES ASSUME Init PROVE StdioInv
    OBVIOUS
  <2>1. TypeOK /\ AtRest
    BY StdioAssumption DEF Init, TypeOK, AtRest, StdioAssumption
  <2>2. AnsweredInOrder
    BY DEF Init, AnsweredInOrder
  <2>3. Len(stdout) = 0 /\ Len(stdin) = 0 /\ Len(asked) = 0 /\ DOMAIN stdout = {}
    BY DEF Init
  <2>4. SamplesKnown
    BY <2>3 DEF Init, SamplesKnown, CompletionsKnown, SampleIds
  <2>5. Done = 0 /\ Busy = 0
    <3>1. {j \in 1 .. 0 : IsAnswer(j)} = {}
      OBVIOUS
    <3> QED
      BY <2>3, <3>1, FS_EmptySet DEF Init, Done, Busy, AnswersTo
  <2>6. RequestsInOrder
    <3> DEFINE at == [i \in 0 .. 0 |-> 0]
    <3>1. at \in [0 .. 0 -> 0 .. 0] /\ at[0] = 0 /\ 1 .. 0 = {}
      OBVIOUS
    <3> HIDE DEF at
    <3>2. Follows(stdin, 0, asked)
      BY <2>3, <3>1 DEF Follows
    <3> QED
      BY <2>5, <3>2 DEF RequestsInOrder, Init
  <2> QED
    BY <2>1, <2>2, <2>4, <2>6 DEF StdioInv
<1>2. StdioInv /\ [Next]_vars => StdioInv'
  BY StdioAssumption, StdioTypes, OrderStep, SamplesStep, RestStep DEF StdioInv
<1> QED
  BY <1>1, <1>2, PTL DEF Spec

(* The loop of the process is the loop of McpStdio.                        *)
LEMMA LoopBehaves == ProcessSpec => Spec
<1>1. [Move]_all => [Next]_vars
  BY DEF Move, On, all
<1>2. Start => Init
  BY DEF Start
<1> QED
  BY <1>1, <1>2, PTL DEF ProcessSpec, Spec

(* The host's requests are answered once each and in their order, and a    *)
(* sampling request can be routed until it is completed and not after,     *)
(* whatever the host writes, and nobody is left waiting at the end.        *)
THEOREM AnswersAreRouted == ProcessSpec => []AnswersRouted
<1>1. StdioInv => AnswersRouted
  <2> SUFFICES ASSUME StdioInv PROVE AnswersRouted
    OBVIOUS
  <2>1. ASSUME pc # "closed" PROVE {p[1] : p \in pending} = SampleIds \ completed
    <3>1. \A p \in pending : p[1] \in 1 .. counter /\ p[2] \in Requests /\ p = <<p[1], p[2]>>
      BY DEF StdioInv, TypeOK
    <3>2. \A n : (\E p \in pending : p[1] = n)
                   <=> n \in 1 .. counter /\ \E r \in Requests : <<n, r>> \in pending
      BY <3>1
    <3>3. \A n : n \in SampleIds \ completed
                   <=> n \in 1 .. counter /\ \E r \in Requests : <<n, r>> \in pending
      BY <2>1 DEF StdioInv, SamplesKnown
    <3>4. \A n : n \in {p[1] : p \in pending} <=> \E p \in pending : p[1] = n
      OBVIOUS
    <3> QED
      BY <3>2, <3>3, <3>4
  <2>2. pc = "closed" => waiting = {}
    BY DEF StdioInv, TypeOK, AtRest
  <2> QED
    BY <2>1, <2>2 DEF AnswersRouted, RoutableOnce, NoneForgottenAtEnd, StdioInv, AtRest
<1> QED
  BY <1>1, LoopBehaves, StdioInvariance, PTL

-----------------------------------------------------------------------------
(* The process.  Its tasks and files, while main runs and cleans up.       *)
LeftSelect == main \in {"cleanGrpc", "cleanBinary", "return"}
TasksKnown ==
  /\ binary # "off" => BinaryEnabled
  /\ main = "select" /\ BinaryEnabled => binary # "off"
  /\ main = "down" => grpc = "off" /\ mcp = "off" /\ binary = "off"
  /\ LeftSelect /\ allUp => "starting" \notin {grpc, mcp, binary}
FilesKnown ==
  /\ ~GrpcUds => grpcFile # "bound"
  /\ ~BinaryEnabled => binaryFile # "bound"
  /\ main \in {"cleanBinary", "return"} /\ allUp => grpcFile # "bound"
LifeInv == SocketsUsable /\ TasksKnown /\ FilesKnown

LEMMA ConnectionSteps ==
  ASSUME LifeInv, NEW c \in Conns,
         P!Connect(c) \/ P!AcceptConn(c) \/ P!ConnDrains(c) \/ P!ConnEnds(c)
  PROVE  LifeInv'
<1>1. UNCHANGED <<main, starts, grpc, mcp, binary, grpcFile, binaryFile, interrupt,
                  shutdown, allUp, denied>>
  BY DEF P!Connect, P!AcceptConn, P!ConnDrains, P!ConnEnds, P!control, P!tasks, P!files
<1>2. P!TypeOK'
  <2>1. /\ conn[c] \in {"idle", "waiting", "open", "draining"}
        /\ conn[c] \in {"idle", "waiting"} => binary = "serving"
    BY DEF P!Connect, P!AcceptConn, P!ConnDrains, P!ConnEnds
  <2>2. main # "down"
    BY <2>1 DEF LifeInv, SocketsUsable, P!SocketsUsable, P!TypeOK, P!Connection, TasksKnown
  <2>3. conn' \in [Conns -> P!Connection]
    BY DEF P!Connect, P!AcceptConn, P!ConnDrains, P!ConnEnds, P!SetConn, P!Connection,
           LifeInv, SocketsUsable, P!SocketsUsable, P!TypeOK
  <2> QED
    BY <1>1, <2>2, <2>3 DEF LifeInv, SocketsUsable, P!SocketsUsable, P!TypeOK
<1> QED
  BY <1>1, <1>2 DEF LifeInv, SocketsUsable, P!SocketsUsable, P!ListenerReachable,
     P!AcceptEndsOnSignal, P!SocketsRemoved, TasksKnown, FilesKnown, LeftSelect

(* The process goes: nothing of it is left but its files.                  *)
LEMMA EndOfProcess ==
  ASSUME LifeInv, NEW s \in {"cut", "lost"}, P!EndProcess(s)
  PROVE  LifeInv'
<1>1. P!TypeOK'
  <2> DEFINE End(c) == IF conn[c] = "waiting" THEN "lost" ELSE IF P!Live(c) THEN s ELSE conn[c]
  <2>1. conn' = [c \in Conns |-> End(c)]
    BY DEF P!EndProcess
  <2>2. \A c \in Conns : End(c) \in P!Connection \ {"waiting", "open", "draining"}
    BY DEF P!Connection, P!Live, LifeInv, SocketsUsable, P!SocketsUsable, P!TypeOK
  <2> HIDE DEF End
  <2>3. conn' \in [Conns -> P!Connection \ {"waiting", "open", "draining"}]
    BY <2>1, <2>2
  <2>4. conn' \in [Conns -> P!Connection]
    BY <2>1, <2>2
  <2> QED
    BY <2>3, <2>4 DEF P!EndProcess, P!Leave, P!Task, P!Socket,
       LifeInv, SocketsUsable, P!SocketsUsable, P!TypeOK
<1>2. /\ main' = "down" /\ allUp' = FALSE
      /\ grpc' = "off" /\ mcp' = "off" /\ binary' = "off"
      /\ grpcFile' # "bound" /\ binaryFile' # "bound"
  BY DEF P!EndProcess, P!Leave
<1> QED
  BY <1>1, <1>2 DEF LifeInv, SocketsUsable, P!SocketsUsable, P!ListenerReachable,
     P!AcceptEndsOnSignal, P!SocketsRemoved, TasksKnown, FilesKnown, LeftSelect

(* Steps of main and of the tasks it spawned.                              *)
LEMMA ProcessSteps ==
  ASSUME LifeInv, [P!Next]_P!vars
  PROVE  LifeInv'
<1> USE ProcessAssumption DEF P!LifecycleAssumption
<1> USE DEF LifeInv, SocketsUsable, P!SocketsUsable, P!TypeOK, P!ListenerReachable,
        P!AcceptEndsOnSignal, P!SocketsRemoved, TasksKnown, FilesKnown, LeftSelect,
        P!Task, P!Socket, P!control, P!tasks, P!files
<1>1. CASE P!Start
  <2>1. conn' \in [Conns -> P!Connection]
    BY <1>1 DEF P!Start, P!Connection
  <2> QED
    BY <1>1, <2>1 DEF P!Start
<1>2. CASE P!SelectServer
  BY <1>2 DEF P!SelectServer, P!LeaveSelect
<1>3. CASE P!SelectInterrupt
  BY <1>3 DEF P!SelectInterrupt, P!LeaveSelect
<1>4. CASE P!CleanGrpc
  BY <1>4 DEF P!CleanGrpc
<1>5. CASE P!CleanBinary
  BY <1>5 DEF P!CleanBinary
<1>6. CASE P!Return \/ P!Crash
  BY <1>6, EndOfProcess DEF P!Return, P!Crash
<1>7. CASE P!Interrupt
  BY <1>7 DEF P!Interrupt
<1>8. CASE P!GrpcStart
  BY <1>8 DEF P!GrpcStart, P!Bound, P!NotBound
<1>9. CASE P!McpStart
  BY <1>9 DEF P!McpStart
<1>10. CASE P!ServerFails
  BY <1>10 DEF P!ServerFails
<1>11. CASE P!BinaryStart
  BY <1>11 DEF P!BinaryStart, P!Bound, P!NotBound
<1>12. CASE P!AcceptEnds
  <2>1. conn' \in [Conns -> P!Connection] /\ main # "down"
    BY <1>12 DEF P!AcceptEnds, P!Connection
  <2> QED
    BY <1>12, <2>1 DEF P!AcceptEnds
<1>13. CASE UNCHANGED P!vars
  BY <1>13 DEF P!vars
<1> QED
  BY <1>1, <1>2, <1>3, <1>4, <1>5, <1>6, <1>7, <1>8, <1>9, <1>10, <1>11, <1>12, <1>13,
     ConnectionSteps DEF P!Next, P!MainStep

LEMMA LifeInvariance == ProcessSpec => []LifeInv
<1>1. Start => LifeInv
  <2> SUFFICES ASSUME P!Init PROVE LifeInv
    BY DEF Start
  <2>1. /\ conn \in [Conns -> P!Connection]
        /\ conn \in [Conns -> P!Connection \ {"waiting", "open", "draining"}]
    BY DEF P!Init, P!Connection
  <2>2. P!TypeOK
    <3>1. starts \in 0 .. MaxStarts
      BY ProcessAssumption DEF P!Init, P!LifecycleAssumption
    <3>2. {interrupt, shutdown, allUp, denied} \subseteq BOOLEAN
      BY DEF P!Init
    <3>3. {grpc, mcp, binary} \subseteq P!Task /\ {grpcFile, binaryFile} \subseteq P!Socket /\ main = "down"
      BY DEF P!Init, P!Task, P!Socket
    <3> QED
      BY <2>1, <3>1, <3>2, <3>3 DEF P!TypeOK
  <2> QED
    BY <2>2 DEF P!Init, LifeInv, SocketsUsable, P!SocketsUsable, P!ListenerReachable,
       P!AcceptEndsOnSignal, P!SocketsRemoved, TasksKnown, FilesKnown, LeftSelect
<1>2. [Move]_all => [P!Next]_P!vars
  BY DEF Move, On, all, life, P!vars
<1>3. LifeInv /\ [Move]_all => LifeInv'
  BY <1>2, ProcessSteps
<1> QED
  BY <1>1, <1>3, PTL DEF ProcessSpec

(* Over crashes and restarts and whatever files they leave, a listening    *)
(* server can be reached, and one that has returned left no socket behind. *)
THEOREM SocketsStayUsable == ProcessSpec => []SocketsUsable
<1>1. LifeInv => SocketsUsable
  BY DEF LifeInv
<1> QED
  BY <1>1, LifeInvariance, PTL

(* With its binary transport enabled, main leaves its select for a cause;  *)
(* with the transport disabled it does not (run server_disabled).          *)
THEOREM ExitsHaveCause == ASSUME BinaryEnabled PROVE ProcessSpec => ExitHasCause
<1>1. [Move]_all => [P!Next]_P!vars
  BY DEF Move, On, all, life, P!vars
<1>2. ASSUME LifeInv, [P!Next]_P!vars
      PROVE  [main = "select" /\ main' = "cleanGrpc" =>
                interrupt \/ "ended" \in {grpc, mcp, binary}]_P!vars
  <2>1. CASE P!SelectServer
    BY <1>2, <2>1 DEF P!SelectServer, P!Ready, P!BinaryBranchReady, LifeInv, TasksKnown
  <2>2. CASE P!SelectInterrupt
    BY <2>2 DEF P!SelectInterrupt
  <2>3. CASE ~P!SelectServer /\ ~P!SelectInterrupt
    BY <1>2, <2>3 DEF P!Next, P!MainStep, P!Start, P!CleanGrpc, P!CleanBinary, P!Return, P!Crash,
       P!EndProcess, P!Interrupt, P!GrpcStart, P!McpStart, P!ServerFails, P!BinaryStart,
       P!AcceptEnds, P!Connect, P!AcceptConn, P!ConnDrains, P!ConnEnds, P!control
  <2> QED
    BY <2>1, <2>2, <2>3
<1> QED
  BY <1>1, <1>2, LifeInvariance, PTL DEF ProcessSpec, ExitHasCause, P!ExitHasCause
=============================================================================
