-------------------------- MODULE IngestJob_proof --------------------------
(***************************************************************************)
(* Proofs about IngestJob for every number of writers, rows, rows in a     *)
(* chunk, room in the channel and calls of cancel.                         *)
(***************************************************************************)
EXTENDS IngestJob, FiniteSetTheorems, TLAPS

(* The chunks on their way to a result, in the channel or in a hand; each  *)
(* is in one place.                                                        *)
UnderWay ==
  {k \in 1 .. TotalRows : \/ \E i \in 1 .. Len(channel) : channel[i] = k
                          \/ \E w \in Writers : hand[w] = k}
Failing == {k \in 1 .. TotalRows : \E w \in Writers : hand[w] = k /\ writer[w] = "reject"}

ChunksApart ==
  /\ UnderWay \subseteq 1 .. chunk
  /\ \A i, j \in 1 .. Len(channel) : i # j => channel[i] # channel[j]
  /\ \A w, v \in Writers : w # v /\ hand[w] # 0 => hand[w] # hand[v]
  /\ \A w \in Writers, i \in 1 .. Len(channel) : hand[w] # channel[i]

(* The rows of the chunks under way have no result yet, though a failed    *)
(* insertion may have written some; the rows before have one, those after  *)
(* have not been touched.                                                  *)
Begun      == 1 .. Offset(chunk)
InProgress == {r \in Row : \E k \in UnderWay : r \in RowsOf(k)}
Settled    == Begun \ InProgress
Good       == {r \in Settled : rejected[r] = 0}
Bad        == {r \in Row : rejected[r] = 1}

RowsKnown ==
  /\ \A r \in Row : inserted[r] <= 1 /\ rejected[r] <= 1
  /\ \A r \in Row \ Begun : inserted[r] = 0 /\ rejected[r] = 0
  /\ \A r \in InProgress : rejected[r] = 0
  /\ \A k \in UnderWay \ Failing : \A r \in RowsOf(k) : inserted[r] = 0
  /\ \A r \in Settled : inserted[r] + rejected[r] > 0

CountsKnown ==
  /\ rowsInserted = Cardinality(Good)
  /\ rowsFailed = Cardinality(Bad)

(* Where the producer is, what of the job is over: a sender that is gone   *)
(* means no more chunks, writers that are, none under way.                 *)
Over == {"final", "complete", "fail", "remove", "ended"}
Idle == channel = <<>> /\ \A w \in Writers : hand[w] = 0
Control ==
  /\ pc \in {"new", "created", "spawned", "collect", "check", "convert", "send", "load", "save"} => open
  /\ pc \in {"new", "created", "spawned", "collect"} => chunk = 0
  /\ pc \in {"convert", "send"} => MoreRows
  /\ \A w \in Writers : writer[w] = "ended" => ~open /\ channel = <<>>
  /\ pc \in {"new", "created", "spawned", "collect"} => Idle
  /\ pc \in Over /\ ~panicked => Idle
  /\ pc = "join" => ~MoreRows
  /\ panicked => pc \in {"fail", "remove", "ended"}
  /\ pc \in {"final", "complete"} \/ status = "completed" => Idle /\ ~MoreRows /\ ~panicked
  /\ Final => pc \in {"remove", "ended"}

(* The record follows the counters, of which it may have the older value.  *)
RecordBehind ==
  /\ saved.inserted <= rowsInserted /\ saved.failed <= rowsFailed
  /\ saved.inserted + saved.failed <= saved.processed
  /\ saved.processed <= Offset(chunk)
  /\ pc = "save" => saved.inserted <= loaded /\ loaded <= rowsInserted

(* A cancellation heard waits in the slot until the producer looks there;  *)
(* one that overwrote another costs a chunk.                               *)
CancelWaits ==
  /\ pc \in {"new", "created", "spawned"} => received = 0
  /\ received = 0 => signal = "none" /\ after = 0
  /\ received > 0 =>
       /\ after < received
       /\ signal = "lagged" /\ pc \in {"collect", "check", "convert", "send", "load", "save"}
            => after + 1 < received
       /\ pc \in {"collect", "check", "convert", "send", "load", "save"} => signal # "none"

RowInv == TypeOK /\ ChunksApart /\ RowsKnown /\ CountsKnown /\ Control /\ RecordBehind
IInv == RowInv /\ CancelWaits

-----------------------------------------------------------------------------
(* Chunks: their rows lie one after the other.                             *)
LEMMA OffsetBounds ==
  ASSUME JobAssumption, NEW k \in Nat
  PROVE  /\ Offset(k) \in Nat /\ Offset(k) <= TotalRows
         /\ Offset(k) <= Offset(k + 1) /\ Offset(k + 1) \in Nat
         /\ Offset(k) < TotalRows => k < TotalRows
         /\ Offset(0) = 0
<1>1. k * BatchSize \in Nat /\ (k + 1) * BatchSize = k * BatchSize + BatchSize
      /\ 0 * BatchSize = 0
  BY DEF JobAssumption
<1>2. (k + 1) * BatchSize \in Nat
  BY <1>1 DEF JobAssumption
<1>3. k <= k * BatchSize
  <2>1. BatchSize - 1 \in Nat /\ k * (BatchSize - 1) \in Nat
    BY DEF JobAssumption
  <2>2. k * BatchSize = k + k * (BatchSize - 1)
    BY DEF JobAssumption
  <2>3. QED
    BY <1>1, <2>1, <2>2
<1>4. QED
  BY <1>1, <1>2, <1>3 DEF JobAssumption, Offset

LEMMA OffsetMonotone ==
  ASSUME JobAssumption, NEW j \in Nat, NEW k \in Nat, j <= k
  PROVE  Offset(j) <= Offset(k)
<1>1. PICK d \in Nat : k = j + d
  <2>1. k - j \in Nat /\ k = j + (k - j)
    OBVIOUS
  <2>2. QED
    BY <2>1
<1>2. d * BatchSize \in Nat /\ j * BatchSize \in Nat
  BY DEF JobAssumption
<1>3. (j + d) * BatchSize = j * BatchSize + d * BatchSize
  BY DEF JobAssumption
<1>4. k * BatchSize \in Nat /\ j * BatchSize <= k * BatchSize
  BY <1>1, <1>2, <1>3
<1>5. QED
  BY <1>2, <1>4 DEF JobAssumption, Offset

(* A chunk has as many rows as its size says, and shares none.             *)
LEMMA ChunkRows ==
  ASSUME JobAssumption, NEW k \in Nat \ {0}
  PROVE  /\ RowsOf(k) \subseteq Row /\ IsFiniteSet(RowsOf(k))
         /\ Cardinality(RowsOf(k)) = Size(k) /\ Size(k) \in Nat
         /\ RowsOf(k) \subseteq 1 .. Offset(k)
         /\ RowsOf(k) \intersect (1 .. Offset(k - 1)) = {}
<1>1. /\ Offset(k - 1) \in Nat /\ Offset(k) \in Nat
      /\ Offset(k - 1) <= Offset(k) /\ Offset(k) <= TotalRows
  <2>1. k - 1 \in Nat /\ (k - 1) + 1 = k
    OBVIOUS
  <2>2. QED
    BY <2>1, OffsetBounds
<1>2. Cardinality(RowsOf(k)) = Size(k) /\ IsFiniteSet(RowsOf(k))
  <2>1. Offset(k - 1) + 1 \in Int /\ Offset(k) \in Int
    BY <1>1
  <2>2. Cardinality(RowsOf(k)) =
          IF Offset(k - 1) + 1 > Offset(k) THEN 0 ELSE Offset(k) - (Offset(k - 1) + 1) + 1
    BY <2>1, FS_Interval DEF RowsOf
  <2>3. IsFiniteSet(RowsOf(k))
    BY <2>1, FS_Interval DEF RowsOf
  <2>4. QED
    BY <1>1, <2>2, <2>3 DEF Size
<1>3. QED
  BY <1>1, <1>2 DEF RowsOf, Row, Size, JobAssumption

LEMMA ChunksDisjoint ==
  ASSUME JobAssumption, NEW j \in Nat \ {0}, NEW k \in Nat \ {0}, j # k
  PROVE  RowsOf(j) \intersect RowsOf(k) = {}
<1>1. \A a, b \in Nat \ {0} : a < b => RowsOf(a) \intersect RowsOf(b) = {}
  <2>1. SUFFICES ASSUME NEW a \in Nat \ {0}, NEW b \in Nat \ {0}, a < b
                 PROVE  RowsOf(a) \intersect RowsOf(b) = {}
    OBVIOUS
  <2>2. Offset(a) <= Offset(b - 1) /\ Offset(a) \in Nat /\ Offset(b - 1) \in Nat
    <3>1. a \in Nat /\ b - 1 \in Nat /\ a <= b - 1
      BY <2>1
    <3>2. QED
      BY <3>1, OffsetMonotone, OffsetBounds
  <2>3. RowsOf(a) \subseteq 1 .. Offset(a)
    BY ChunkRows
  <2>4. RowsOf(b) \intersect (1 .. Offset(b - 1)) = {}
    BY ChunkRows
  <2>5. QED
    BY <2>2, <2>3, <2>4
<1>2. QED
  BY <1>1

LEMMA RowsFinite ==
  ASSUME JobAssumption
  PROVE  IsFiniteSet(Row) /\ Cardinality(Row) = TotalRows
BY FS_Interval DEF Row, JobAssumption

(* What the steps that move chunks do to the chunks under way.             *)
Pool ==
  /\ TotalRows \in Nat /\ chunk \in Nat /\ channel \in Seq(1 .. TotalRows)
  /\ writer \in [Writers -> {"recv", "insert", "reject", "ended"}]
  /\ hand \in [Writers -> 0 .. TotalRows]
  /\ \A w \in Writers : hand[w] # 0 <=> writer[w] \in {"insert", "reject"}
  /\ ChunksApart

LEMMA Appended ==
  ASSUME Pool, NEW n \in 1 .. TotalRows, n \notin 1 .. chunk, chunk' = n,
         channel' = Append(channel, n), UNCHANGED <<writer, hand>>
  PROVE  ChunksApart' /\ UnderWay' = UnderWay \union {n} /\ Failing' = Failing
<1> USE DEF Pool
<1>1. /\ Len(channel') = Len(channel) + 1 /\ Len(channel) \in Nat
      /\ \A i \in 1 .. Len(channel) : channel'[i] = channel[i]
      /\ channel'[Len(channel) + 1] = n
  OBVIOUS
<1>2. \A x : (\E i \in 1 .. Len(channel') : channel'[i] = x)
              <=> (\E i \in 1 .. Len(channel) : channel[i] = x) \/ x = n
  BY <1>1
<1>3. UnderWay' = UnderWay \union {n}
  BY <1>2 DEF UnderWay
<1>4. UnderWay' \subseteq 1 .. chunk'
  BY <1>3 DEF ChunksApart
<1>5. \A i \in 1 .. Len(channel) : channel[i] \in UnderWay /\ channel[i] # n
  BY DEF ChunksApart, UnderWay
<1>6. \A w \in Writers : hand[w] # 0 => hand[w] \in UnderWay /\ hand[w] # n
  BY DEF ChunksApart, UnderWay
<1>7. \A i, j \in 1 .. Len(channel') : i # j => channel'[i] # channel'[j]
  BY <1>1, <1>5 DEF ChunksApart
<1>8. \A w \in Writers, i \in 1 .. Len(channel') : hand'[w] # channel'[i]
  BY <1>1, <1>6 DEF ChunksApart
<1>9. QED
  BY <1>3, <1>4, <1>7, <1>8 DEF ChunksApart, Failing

LEMMA Taken ==
  ASSUME Pool, NEW w \in Writers, Take(w)
  PROVE  ChunksApart' /\ UnderWay' = UnderWay /\ Failing' = Failing
<1> USE DEF Pool
<1>1. /\ Len(channel) \in Nat /\ Len(channel) > 0
      /\ Head(channel) = channel[1] /\ channel[1] \in 1 .. TotalRows
      /\ Len(channel') = Len(channel) - 1 /\ Len(channel') \in Nat
      /\ \A i \in 1 .. Len(channel') : channel'[i] = channel[i + 1]
  <2>1. channel \in Seq(1 .. TotalRows) /\ channel # <<>> /\ channel' = Tail(channel)
    BY DEF Take
  <2>2. Len(channel) \in Nat /\ Len(channel) > 0
    BY <2>1
  <2>3. Head(channel) = channel[1] /\ channel[1] \in 1 .. TotalRows
    BY <2>1, <2>2
  <2>4. Len(channel') = Len(channel) - 1
    BY <2>1, <2>2
  <2>5. \A i \in 1 .. Len(channel') : channel'[i] = channel[i + 1]
    BY <2>1, <2>2, <2>4
  <2>6. QED
    BY <2>2, <2>3, <2>4, <2>5
<1>2. /\ hand' = [hand EXCEPT ![w] = channel[1]] /\ hand[w] = 0 /\ writer[w] = "recv"
      /\ writer' = [writer EXCEPT ![w] = "insert"] /\ chunk' = chunk
  BY <1>1 DEF Take, Goes
<1>3. \A v \in Writers : hand'[v] = (IF v = w THEN channel[1] ELSE hand[v])
                         /\ writer'[v] = (IF v = w THEN "insert" ELSE writer[v])
  BY <1>2
<1>4. \A i \in 2 .. Len(channel) : i - 1 \in 1 .. Len(channel') /\ channel'[i - 1] = channel[i]
  BY <1>1
<1>5. UnderWay' = UnderWay
  <2>1. ASSUME NEW x \in UnderWay PROVE x \in UnderWay'
    <3>1. CASE \E i \in 1 .. Len(channel) : channel[i] = x
      <4>1. PICK i \in 1 .. Len(channel) : channel[i] = x
        BY <3>1
      <4>2. CASE i = 1
        BY <1>1, <1>3, <4>1, <4>2 DEF UnderWay
      <4>3. CASE i # 1
        <5>1. i - 1 \in 1 .. Len(channel') /\ channel'[i - 1] = x
          BY <1>1, <1>4, <4>1, <4>3
        <5>2. QED
          BY <2>1, <5>1 DEF UnderWay
      <4>4. QED
        BY <4>2, <4>3
    <3>2. CASE \E v \in Writers : hand[v] = x
      BY <1>2, <1>3, <3>2 DEF UnderWay
    <3>3. QED
      BY <2>1, <3>1, <3>2 DEF UnderWay
  <2>2. ASSUME NEW x \in UnderWay' PROVE x \in UnderWay
    <3>1. CASE \E i \in 1 .. Len(channel') : channel'[i] = x
      <4>1. PICK i \in 1 .. Len(channel') : channel'[i] = x
        BY <3>1
      <4>2. i + 1 \in 1 .. Len(channel) /\ channel[i + 1] = x
        BY <1>1, <4>1
      <4>3. QED
        BY <2>2, <4>2 DEF UnderWay
    <3>2. CASE \E v \in Writers : hand'[v] = x
      BY <1>1, <1>3, <3>2 DEF UnderWay
    <3>3. QED
      BY <2>2, <3>1, <3>2 DEF UnderWay
  <2>3. QED
    BY <2>1, <2>2
<1>6. Failing' = Failing
  BY <1>2, <1>3 DEF Failing
<1>7. \A i, j \in 1 .. Len(channel') : i # j => channel'[i] # channel'[j]
  <2>1. TAKE i, j \in 1 .. Len(channel')
  <2>2. /\ i + 1 \in 1 .. Len(channel) /\ j + 1 \in 1 .. Len(channel)
        /\ channel'[i] = channel[i + 1] /\ channel'[j] = channel[j + 1]
        /\ i # j => i + 1 # j + 1
    BY <1>1
  <2>3. QED
    BY <2>2 DEF ChunksApart
<1>8. \A u, v \in Writers : u # v /\ hand'[u] # 0 => hand'[u] # hand'[v]
  BY <1>1, <1>3 DEF ChunksApart
<1>9. \A v \in Writers, i \in 1 .. Len(channel') : hand'[v] # channel'[i]
  BY SMTT(20), <1>1, <1>3 DEF ChunksApart
<1>10. QED
  BY <1>2, <1>5, <1>6, <1>7, <1>8, <1>9 DEF ChunksApart

LEMMA PutDown ==
  ASSUME Pool, NEW w \in Writers, hand[w] # 0, Goes(w, "recv", 0),
         UNCHANGED <<chunk, channel>>
  PROVE  /\ ChunksApart' /\ UnderWay' = UnderWay \ {hand[w]}
         /\ Failing' = Failing \ {hand[w]}
<1> USE DEF Pool
<1>1. \A v \in Writers : hand'[v] = (IF v = w THEN 0 ELSE hand[v])
                         /\ writer'[v] = (IF v = w THEN "recv" ELSE writer[v])
  BY DEF Goes
<1>2. UnderWay' = UnderWay \ {hand[w]}
  BY <1>1 DEF UnderWay, ChunksApart
<1>3. Failing' = Failing \ {hand[w]}
  BY <1>1 DEF Failing, ChunksApart
<1>4. UnderWay' \subseteq 1 .. chunk'
  BY <1>2 DEF ChunksApart
<1>5. QED
  BY <1>1, <1>2, <1>3, <1>4 DEF ChunksApart

LEMMA HandFails ==
  ASSUME Pool, NEW w \in Writers, hand[w] # 0, Goes(w, "reject", hand[w]),
         UNCHANGED <<chunk, channel>>
  PROVE  ChunksApart' /\ UnderWay' = UnderWay /\ Failing' = Failing \union {hand[w]}
<1> USE DEF Pool
<1>1. hand' = hand
  BY DEF Goes
<1>2. \A v \in Writers : writer'[v] = (IF v = w THEN "reject" ELSE writer[v])
  BY DEF Goes
<1>3. UnderWay' = UnderWay
  BY <1>1 DEF UnderWay
<1>4. Failing' = Failing \union {hand[w]}
  BY <1>1, <1>2 DEF Failing
<1>5. QED
  BY <1>1, <1>3, <1>4 DEF ChunksApart

LEMMA HandIsUnderWay ==
  ASSUME Pool, NEW w \in Writers, hand[w] # 0
  PROVE  /\ hand[w] \in UnderWay /\ hand[w] \in Nat \ {0} /\ hand[w] \in 1 .. chunk
         /\ writer[w] # "reject" => hand[w] \notin Failing
BY DEF Pool, UnderWay, Failing, ChunksApart

-----------------------------------------------------------------------------
(* The rows of the chunks, as these move.                                  *)
LEMMA NextChunk ==
  ASSUME JobAssumption, chunk \in Nat, MoreRows
  PROVE  /\ chunk + 1 \in 1 .. TotalRows /\ chunk + 1 \in Nat \ {0}
         /\ RowsOf(chunk + 1) \subseteq Row \ Begun
         /\ Begun \union RowsOf(chunk + 1) = 1 .. Offset(chunk + 1)
         /\ Offset(chunk + 1) <= TotalRows
<1>1. /\ Offset(chunk) \in Nat /\ Offset(chunk + 1) \in Nat
      /\ Offset(chunk) <= Offset(chunk + 1) /\ Offset(chunk + 1) <= TotalRows
      /\ chunk < TotalRows
  <2>1. chunk + 1 \in Nat
    OBVIOUS
  <2>2. QED
    BY <2>1, OffsetBounds DEF MoreRows
<1>2. (chunk + 1) - 1 = chunk
  OBVIOUS
<1>3. RowsOf(chunk + 1) = Offset(chunk) + 1 .. Offset(chunk + 1)
  BY <1>2 DEF RowsOf
<1>4. QED
  BY <1>1, <1>3 DEF Row, Begun, JobAssumption

LEMMA Places ==
  ASSUME JobAssumption, Pool
  PROVE  /\ InProgress \subseteq Begun /\ Begun \subseteq Row
         /\ \A k \in UnderWay : RowsOf(k) \subseteq InProgress
<1>1. \A k \in UnderWay : RowsOf(k) \subseteq Row /\ RowsOf(k) \subseteq Begun
  <2>1. TAKE k \in UnderWay
  <2>2. k \in Nat \ {0} /\ k \in Nat /\ k <= chunk /\ chunk \in Nat
    BY DEF Pool, ChunksApart
  <2>3. Offset(k) <= Offset(chunk) /\ Offset(k) \in Nat /\ Offset(chunk) \in Nat
    BY <2>2, OffsetMonotone, OffsetBounds
  <2>4. RowsOf(k) \subseteq Row /\ RowsOf(k) \subseteq 1 .. Offset(k)
    BY <2>2, ChunkRows
  <2>5. QED
    BY <2>3, <2>4 DEF Begun
<1>2. Offset(chunk) \in Nat /\ Offset(chunk) <= TotalRows
  BY OffsetBounds DEF Pool
<1>3. QED
  BY <1>1, <1>2 DEF InProgress, Begun, Row, JobAssumption

LEMMA ChunkLeaves ==
  ASSUME JobAssumption, Pool, NEW k \in UnderWay, UnderWay' = UnderWay \ {k}, chunk' = chunk
  PROVE  /\ InProgress' = InProgress \ RowsOf(k) /\ RowsOf(k) \subseteq InProgress
         /\ Settled' = Settled \union RowsOf(k) /\ Begun' = Begun
<1>1. \A j \in UnderWay : j # k => RowsOf(j) \intersect RowsOf(k) = {}
  <2>1. UnderWay \subseteq Nat \ {0}
    BY DEF Pool, ChunksApart
  <2>2. QED
    BY <2>1, ChunksDisjoint
<1>2. RowsOf(k) \subseteq InProgress /\ InProgress \subseteq Begun
  BY Places
<1>3. InProgress' = InProgress \ RowsOf(k)
  BY <1>1, <1>2 DEF InProgress
<1>4. QED
  BY <1>2, <1>3 DEF Settled, Begun

LEMMA ChunkArrives ==
  ASSUME JobAssumption, Pool, MoreRows, UnderWay' = UnderWay \union {chunk + 1},
         chunk' = chunk + 1
  PROVE  /\ InProgress' = InProgress \union RowsOf(chunk + 1) /\ Settled' = Settled
         /\ Begun' = Begun \union RowsOf(chunk + 1)
<1>1. chunk \in Nat
  BY DEF Pool
<1>2. /\ RowsOf(chunk + 1) \subseteq Row \ Begun
      /\ Begun \union RowsOf(chunk + 1) = 1 .. Offset(chunk + 1)
  BY <1>1, NextChunk
<1>3. InProgress' = InProgress \union RowsOf(chunk + 1)
  BY <1>2 DEF InProgress
<1>4. Begun' = Begun \union RowsOf(chunk + 1)
  BY <1>2 DEF Begun
<1>5. QED
  BY <1>2, <1>3, <1>4, Places DEF Settled

LEMMA ChunkSkipped ==
  ASSUME JobAssumption, Pool, MoreRows, UnderWay' = UnderWay, chunk' = chunk + 1
  PROVE  /\ InProgress' = InProgress /\ Settled' = Settled \union RowsOf(chunk + 1)
         /\ Begun' = Begun \union RowsOf(chunk + 1)
<1>1. chunk \in Nat
  BY DEF Pool
<1>2. /\ RowsOf(chunk + 1) \subseteq Row \ Begun
      /\ Begun \union RowsOf(chunk + 1) = 1 .. Offset(chunk + 1)
  BY <1>1, NextChunk
<1>3. InProgress' = InProgress
  BY DEF InProgress
<1>4. Begun' = Begun \union RowsOf(chunk + 1)
  BY <1>2 DEF Begun
<1>5. QED
  BY <1>2, <1>3, <1>4, Places DEF Settled

LEMMA CardinalityOfParts ==
  ASSUME NEW S, NEW T, IsFiniteSet(S), IsFiniteSet(T), S \intersect T = {}
  PROVE  Cardinality(S \union T) = Cardinality(S) + Cardinality(T)
<1>1. /\ Cardinality(S \union T) = Cardinality(S) + Cardinality(T) - Cardinality(S \intersect T)
      /\ Cardinality(S) \in Nat /\ Cardinality(T) \in Nat
  BY FS_Union, FS_CardinalityType
<1>2. Cardinality(S \intersect T) = 0
  BY FS_EmptySet
<1>3. QED
  BY <1>1, <1>2

-----------------------------------------------------------------------------
(* The steps that give rows a result, or begin or end the work on them.    *)
Rows ==
  /\ JobAssumption /\ Pool /\ RowsKnown /\ CountsKnown
  /\ inserted \in [Row -> Nat] /\ rejected \in [Row -> Nat]
  /\ rowsInserted \in Nat /\ rowsFailed \in Nat
  /\ pc \in {"convert", "send"} => MoreRows
RowsKept == ChunksApart' /\ RowsKnown' /\ CountsKnown'

LEMMA FiniteParts ==
  ASSUME Rows
  PROVE  /\ IsFiniteSet(Good) /\ IsFiniteSet(Bad)
         /\ Good \subseteq Row /\ Bad \subseteq Row
<1>1. Good \subseteq Row /\ Bad \subseteq Row
  BY Places DEF Good, Bad, Settled, Rows
<1>2. QED
  BY <1>1, RowsFinite, FS_Subset DEF Rows

LEMMA UnderWaySame ==
  ASSUME UNCHANGED <<channel, hand>> PROVE UnderWay' = UnderWay
BY DEF UnderWay

(* A chunk that does not convert: all of its rows are rejected.            *)
LEMMA RejectedRows ==
  ASSUME Rows, NEW k \in Nat \ {0}, CountRejected(k),
         \A r \in RowsOf(k) : rejected[r] = 0
  PROVE  /\ \A r \in Row : rejected'[r] = IF r \in RowsOf(k) THEN 1 ELSE rejected[r]
         /\ Bad' = Bad \union RowsOf(k) /\ rowsFailed' = Cardinality(Bad')
<1>1. RowsOf(k) \subseteq Row /\ IsFiniteSet(RowsOf(k)) /\ Cardinality(RowsOf(k)) = Size(k)
  BY ChunkRows DEF Rows
<1>2. \A r \in Row : rejected'[r] = rejected[r] + (IF r \in RowsOf(k) THEN 1 ELSE 0)
  BY DEF CountRejected
<1>3. \A r \in Row : rejected'[r] = IF r \in RowsOf(k) THEN 1 ELSE rejected[r]
  BY <1>1, <1>2 DEF Rows
<1>4. Bad' = Bad \union RowsOf(k) /\ Bad \intersect RowsOf(k) = {}
  BY <1>1, <1>3 DEF Bad
<1>5. Cardinality(Bad') = Cardinality(Bad) + Size(k)
  BY <1>1, <1>4, FiniteParts, CardinalityOfParts
<1>6. QED
  BY <1>3, <1>4, <1>5 DEF CountRejected, Rows, CountsKnown

LEMMA ConvertFailsKeeps ==
  ASSUME Rows, ConvertFails PROVE RowsKept
<1> DEFINE n == chunk + 1
<1>1. /\ chunk' = n /\ pc = "convert" /\ CountRejected(n)
      /\ UNCHANGED <<channel, writer, hand, inserted, rowsInserted>>
  BY DEF ConvertFails, ChunkDone, pool
<1>2. MoreRows /\ chunk \in Nat
  BY <1>1 DEF Rows, Pool
<1>3. /\ n \in Nat \ {0} /\ RowsOf(n) \subseteq Row \ Begun
  BY <1>2, NextChunk DEF Rows
<1>4. UnderWay' = UnderWay /\ Failing' = Failing
  BY <1>1 DEF UnderWay, Failing
<1>5. /\ InProgress' = InProgress /\ Settled' = Settled \union RowsOf(n)
      /\ Begun' = Begun \union RowsOf(n)
  BY <1>1, <1>2, <1>4, ChunkSkipped DEF Rows
<1>6. /\ \A r \in Row : rejected'[r] = IF r \in RowsOf(n) THEN 1 ELSE rejected[r]
      /\ rowsFailed' = Cardinality(Bad')
  <2>1. \A r \in RowsOf(n) : rejected[r] = 0
    BY <1>3 DEF Rows, RowsKnown
  <2>2. QED
    BY <1>1, <1>3, <2>1, RejectedRows
<1>7. InProgress \subseteq Begun /\ Begun \subseteq Row
  BY Places DEF Rows
<1>8. Good' = Good
  BY <1>3, <1>5, <1>6, <1>7 DEF Good, Settled
<1>9. RowsKnown'
  <2>1. \A r \in Row : inserted'[r] <= 1 /\ rejected'[r] <= 1
    BY <1>1, <1>6 DEF Rows, RowsKnown
  <2>2. \A r \in Row \ Begun' : inserted'[r] = 0 /\ rejected'[r] = 0
    BY <1>1, <1>5, <1>6 DEF Rows, RowsKnown
  <2>3. \A r \in InProgress' : rejected'[r] = 0
    BY <1>3, <1>5, <1>6, <1>7 DEF Rows, RowsKnown
  <2>4. \A k \in UnderWay' \ Failing' : \A r \in RowsOf(k) : inserted'[r] = 0
    BY <1>1, <1>4 DEF Rows, RowsKnown
  <2>5. \A r \in Settled' : inserted'[r] + rejected'[r] > 0
    <3>1. \A r \in Settled : inserted[r] + rejected[r] > 0 /\ r \in Row /\ r \notin RowsOf(n)
      BY <1>3, <1>7 DEF Rows, RowsKnown, Settled
    <3>2. \A r \in RowsOf(n) : r \in Row /\ inserted[r] \in Nat
      BY <1>3 DEF Rows
    <3>3. QED
      BY <1>1, <1>5, <1>6, <3>1, <3>2
  <2>6. QED
    BY <2>1, <2>2, <2>3, <2>4, <2>5 DEF RowsKnown
<1>10. ChunksApart'
  BY <1>1, <1>4 DEF Rows, Pool, ChunksApart
<1>11. CountsKnown'
  BY <1>1, <1>6, <1>8 DEF Rows, CountsKnown
<1>12. QED
  BY <1>9, <1>10, <1>11 DEF RowsKept

LEMMA SendKeeps ==
  ASSUME Rows, Send PROVE RowsKept
<1> DEFINE n == chunk + 1
<1>1. /\ chunk' = n /\ pc = "send" /\ channel' = Append(channel, n)
      /\ UNCHANGED <<writer, hand, inserted, rejected, rowsInserted, rowsFailed>>
  BY DEF Send, ChunkDone, data
<1>2. MoreRows /\ chunk \in Nat
  BY <1>1 DEF Rows, Pool
<1>3. n \in 1 .. TotalRows /\ RowsOf(n) \subseteq Row \ Begun
  BY <1>2, NextChunk DEF Rows
<1>4. n \notin 1 .. chunk
  BY <1>2
<1>5. ChunksApart' /\ UnderWay' = UnderWay \union {n} /\ Failing' = Failing
  BY <1>1, <1>3, <1>4, Appended DEF Rows
<1>6. /\ InProgress' = InProgress \union RowsOf(n) /\ Settled' = Settled
      /\ Begun' = Begun \union RowsOf(n)
  BY <1>1, <1>2, <1>5, ChunkArrives DEF Rows
<1>7. Good' = Good /\ Bad' = Bad
  BY <1>1, <1>6 DEF Good, Bad
<1>8. RowsKnown'
  BY <1>1, <1>3, <1>5, <1>6 DEF Rows, RowsKnown
<1>9. QED
  BY <1>1, <1>5, <1>7, <1>8 DEF RowsKept, CountsKnown, Rows

LEMMA TakeKeeps ==
  ASSUME Rows, NEW w \in Writers, Take(w) PROVE RowsKept
<1>1. UNCHANGED <<chunk, inserted, rejected, rowsInserted, rowsFailed>>
  BY DEF Take, data
<1>2. ChunksApart' /\ UnderWay' = UnderWay /\ Failing' = Failing
  BY Taken DEF Rows
<1>3. InProgress' = InProgress /\ Begun' = Begun /\ Settled' = Settled
  BY <1>1, <1>2 DEF InProgress, Begun, Settled
<1>4. QED
  BY <1>1, <1>2, <1>3 DEF Rows, RowsKept, RowsKnown, CountsKnown, Good, Bad

LEMMA InsertAllKeeps ==
  ASSUME Rows, NEW w \in Writers, InsertAll(w) PROVE RowsKept
<1>1. PICK k : k = hand[w]
  OBVIOUS
<1>2. /\ writer[w] = "insert" /\ hand[w] # 0 /\ Goes(w, "recv", 0)
      /\ Written(RowsOf(k)) /\ rowsInserted' = rowsInserted + Size(k)
      /\ UNCHANGED <<chunk, channel, rejected, rowsFailed>>
  BY <1>1 DEF InsertAll, Rows, Pool
<1>3. k \in UnderWay /\ k \notin Failing /\ k \in Nat \ {0}
  BY <1>1, <1>2, HandIsUnderWay DEF Rows
<1>4. ChunksApart' /\ UnderWay' = UnderWay \ {k} /\ Failing' = Failing \ {k}
  BY <1>1, <1>2, PutDown DEF Rows
<1>5. /\ InProgress' = InProgress \ RowsOf(k) /\ RowsOf(k) \subseteq InProgress
      /\ Settled' = Settled \union RowsOf(k) /\ Begun' = Begun
  BY <1>2, <1>3, <1>4, ChunkLeaves DEF Rows
<1>6. InProgress \subseteq Begun /\ Begun \subseteq Row
  BY Places DEF Rows
<1>7. \A r \in Row : inserted'[r] = IF r \in RowsOf(k) THEN 1 ELSE inserted[r]
  <2>1. \A r \in RowsOf(k) : inserted[r] = 0
    BY <1>3 DEF Rows, RowsKnown
  <2>2. QED
    BY <1>2, <2>1 DEF Written, Rows
<1>8. Good' = Good \union RowsOf(k) /\ Good \intersect RowsOf(k) = {} /\ Bad' = Bad
  BY <1>2, <1>5, <1>6 DEF Good, Bad, Settled, Rows, RowsKnown
<1>9. rowsInserted' = Cardinality(Good')
  <2>1. IsFiniteSet(RowsOf(k)) /\ Cardinality(RowsOf(k)) = Size(k)
    BY <1>3, ChunkRows DEF Rows
  <2>2. Cardinality(Good') = Cardinality(Good) + Size(k)
    BY <1>8, <2>1, FiniteParts, CardinalityOfParts
  <2>3. QED
    BY <1>2, <2>2 DEF Rows, CountsKnown
<1>10. RowsKnown'
  <2>1. \A r \in Row : inserted'[r] <= 1 /\ rejected'[r] <= 1
    BY <1>2, <1>7 DEF Rows, RowsKnown
  <2>2. \A r \in Row \ Begun' : inserted'[r] = 0 /\ rejected'[r] = 0
    BY <1>2, <1>5, <1>6, <1>7 DEF Rows, RowsKnown
  <2>3. \A r \in InProgress' : rejected'[r] = 0
    BY <1>2, <1>5 DEF Rows, RowsKnown
  <2>4. \A j \in UnderWay' \ Failing' : \A r \in RowsOf(j) : inserted'[r] = 0
    <3>1. TAKE j \in UnderWay' \ Failing'
    <3>2. j \in UnderWay \ Failing /\ j # k /\ j \in Nat \ {0}
      BY <1>4 DEF Rows, Pool, ChunksApart
    <3>3. RowsOf(j) \intersect RowsOf(k) = {} /\ RowsOf(j) \subseteq Row
      BY <1>3, <3>2, ChunksDisjoint, ChunkRows DEF Rows
    <3>4. QED
      BY <1>7, <3>2, <3>3 DEF Rows, RowsKnown
  <2>5. \A r \in Settled' : inserted'[r] + rejected'[r] > 0
    <3>1. \A r \in Settled : inserted[r] + rejected[r] > 0 /\ r \in Row /\ r \notin RowsOf(k)
      BY <1>5, <1>6 DEF Rows, RowsKnown, Settled
    <3>2. \A r \in RowsOf(k) : r \in Row /\ rejected[r] \in Nat
      BY <1>5, <1>6 DEF Rows
    <3>3. QED
      BY <1>2, <1>5, <1>7, <3>1, <3>2
  <2>6. QED
    BY <2>1, <2>2, <2>3, <2>4, <2>5 DEF RowsKnown
<1>11. QED
  BY <1>2, <1>4, <1>8, <1>9, <1>10 DEF RowsKept, CountsKnown, Rows

LEMMA InsertFailsKeeps ==
  ASSUME Rows, NEW w \in Writers, InsertFails(w) PROVE RowsKept
<1>1. PICK k : k = hand[w]
  OBVIOUS
<1>2. /\ writer[w] = "insert" /\ hand[w] # 0 /\ Goes(w, "reject", hand[w])
      /\ UNCHANGED <<chunk, channel, rejected, rowsInserted, rowsFailed>>
  BY DEF InsertFails, Rows, Pool
<1>3. PICK written \in SUBSET RowsOf(k) : Written(written)
  BY <1>1 DEF InsertFails
<1>4. k \in UnderWay /\ k \notin Failing /\ k \in Nat \ {0}
  BY <1>1, <1>2, HandIsUnderWay DEF Rows
<1>5. ChunksApart' /\ UnderWay' = UnderWay /\ Failing' = Failing \union {k}
  BY <1>1, <1>2, HandFails DEF Rows
<1>6. InProgress' = InProgress /\ Begun' = Begun /\ Settled' = Settled
  BY <1>2, <1>5 DEF InProgress, Begun, Settled
<1>7. /\ InProgress \subseteq Begun /\ Begun \subseteq Row /\ RowsOf(k) \subseteq InProgress
      /\ \A r \in RowsOf(k) : inserted[r] = 0
  BY <1>4, Places DEF Rows, RowsKnown
<1>8. /\ \A r \in Row \ RowsOf(k) : inserted'[r] = inserted[r]
      /\ \A r \in RowsOf(k) : inserted'[r] \in {0, 1}
  BY <1>3, <1>7 DEF Written, Rows
<1>9. Good' = Good /\ Bad' = Bad
  BY <1>2, <1>6 DEF Good, Bad
<1>10. RowsKnown'
  <2>1. \A r \in Row : inserted'[r] <= 1 /\ rejected'[r] <= 1
    BY <1>2, <1>8 DEF Rows, RowsKnown
  <2>2. \A r \in Row \ Begun' : inserted'[r] = 0 /\ rejected'[r] = 0
    BY <1>2, <1>6, <1>7, <1>8 DEF Rows, RowsKnown
  <2>3. \A j \in UnderWay' \ Failing' : \A r \in RowsOf(j) : inserted'[r] = 0
    <3>1. TAKE j \in UnderWay' \ Failing'
    <3>2. j \in UnderWay \ Failing /\ j # k /\ j \in Nat \ {0}
      BY <1>5 DEF Rows, Pool, ChunksApart
    <3>3. RowsOf(j) \intersect RowsOf(k) = {} /\ RowsOf(j) \subseteq Row
      BY <1>4, <3>2, ChunksDisjoint, ChunkRows DEF Rows
    <3>4. QED
      BY <1>8, <3>2, <3>3 DEF Rows, RowsKnown
  <2>4. \A r \in Settled' : inserted'[r] + rejected'[r] > 0
    BY <1>2, <1>6, <1>7, <1>8 DEF Rows, RowsKnown, Settled
  <2>5. QED
    BY <1>2, <1>6, <2>1, <2>2, <2>3, <2>4 DEF RowsKnown, Rows
<1>11. QED
  BY <1>2, <1>5, <1>9, <1>10 DEF RowsKept, CountsKnown, Rows

LEMMA RejectKeeps ==
  ASSUME Rows, NEW w \in Writers, Reject(w) PROVE RowsKept
<1>1. PICK k : k = hand[w]
  OBVIOUS
<1>2. /\ writer[w] = "reject" /\ hand[w] # 0 /\ Goes(w, "recv", 0) /\ CountRejected(k)
      /\ UNCHANGED <<chunk, channel, inserted, rowsInserted>>
  BY <1>1 DEF Reject, Rows, Pool
<1>3. k \in UnderWay /\ k \in Nat \ {0}
  BY <1>1, <1>2, HandIsUnderWay DEF Rows
<1>4. ChunksApart' /\ UnderWay' = UnderWay \ {k} /\ Failing' = Failing \ {k}
  BY <1>1, <1>2, PutDown DEF Rows
<1>5. /\ InProgress' = InProgress \ RowsOf(k) /\ RowsOf(k) \subseteq InProgress
      /\ Settled' = Settled \union RowsOf(k) /\ Begun' = Begun
  BY <1>2, <1>3, <1>4, ChunkLeaves DEF Rows
<1>6. InProgress \subseteq Begun /\ Begun \subseteq Row
  BY Places DEF Rows
<1>7. /\ \A r \in Row : rejected'[r] = IF r \in RowsOf(k) THEN 1 ELSE rejected[r]
      /\ rowsFailed' = Cardinality(Bad')
  <2>1. \A r \in RowsOf(k) : rejected[r] = 0
    BY <1>5 DEF Rows, RowsKnown
  <2>2. QED
    BY <1>2, <1>3, <2>1, RejectedRows
<1>8. Good' = Good
  BY <1>5, <1>6, <1>7 DEF Good, Settled
<1>9. RowsKnown'
  <2>1. \A r \in Row : inserted'[r] <= 1 /\ rejected'[r] <= 1
    BY <1>2, <1>7 DEF Rows, RowsKnown
  <2>2. \A r \in Row \ Begun' : inserted'[r] = 0 /\ rejected'[r] = 0
    BY <1>2, <1>5, <1>6, <1>7 DEF Rows, RowsKnown
  <2>3. \A r \in InProgress' : rejected'[r] = 0
    BY <1>5, <1>6, <1>7 DEF Rows, RowsKnown
  <2>4. \A j \in UnderWay' \ Failing' : \A r \in RowsOf(j) : inserted'[r] = 0
    BY <1>2, <1>4 DEF Rows, RowsKnown
  <2>5. \A r \in Settled' : inserted'[r] + rejected'[r] > 0
    <3>1. \A r \in Settled : inserted[r] + rejected[r] > 0 /\ r \in Row /\ r \notin RowsOf(k)
      BY <1>5, <1>6 DEF Rows, RowsKnown, Settled
    <3>2. \A r \in RowsOf(k) : r \in Row /\ inserted[r] \in Nat
      BY <1>5, <1>6 DEF Rows
    <3>3. QED
      BY <1>2, <1>5, <1>7, <3>1, <3>2
  <2>6. QED
    BY <2>1, <2>2, <2>3, <2>4, <2>5 DEF RowsKnown
<1>10. QED
  BY <1>2, <1>4, <1>7, <1>8, <1>9 DEF RowsKept, CountsKnown, Rows

(* Every step keeps chunks apart, rows known and counts right; those that  *)
(* are not about chunks leave all of it alone.                             *)
LEMMA RowsOfInvariant ==
  ASSUME JobAssumption, RowInv PROVE Rows
BY DEF RowInv, Rows, Pool, TypeOK, Control, JobAssumption

LEMMA RowStep ==
  ASSUME JobAssumption, RowInv, [Next]_vars
  PROVE  RowsKept
<1> DEFINE Still == UNCHANGED <<chunk, channel, writer, hand, inserted, rejected, rowsInserted, rowsFailed>>
<1>0. Rows
  BY RowsOfInvariant
<1>1. ASSUME Still PROVE RowsKept
  <2>1. /\ UnderWay' = UnderWay /\ Failing' = Failing
        /\ Begun' = Begun
    BY <1>1 DEF UnderWay, Failing, Begun
  <2>2. InProgress' = InProgress /\ Settled' = Settled
    BY <2>1 DEF InProgress, Settled
  <2>3. QED
    BY <1>0, <1>1, <2>1, <2>2 DEF RowsKept, Rows, Pool, ChunksApart, RowsKnown, CountsKnown, Good, Bad
<1>2. CASE Producer
  <2>1. CASE CreateJob \/ Register \/ Subscribe \/ Collect
    BY <1>1, <2>1 DEF CreateJob, Register, Subscribe, Collect, pool, data
  <2>2. CASE CancelSeen \/ BeginChunk \/ Convert \/ ConvertPanics
    BY <1>1, <2>2 DEF CancelSeen, BeginChunk, Begin, Convert, ConvertPanics, pool, data
  <2>3. CASE ConvertFails
    BY <1>0, <2>3, ConvertFailsKeeps
  <2>4. CASE Send
    BY <1>0, <2>4, SendKeeps
  <2>5. CASE LoadInserted \/ SaveProgress \/ LastChunkDone \/ Join
    BY <1>1, <2>5 DEF LoadInserted, SaveProgress, LastChunkDone, Join, pool, data
  <2>6. CASE FinalProgress \/ Finish \/ Remove
    BY <1>1, <2>6 DEF FinalProgress, Finish, Remove, pool, data
  <2>7. QED
    BY <1>2, <2>1, <2>2, <2>3, <2>4, <2>5, <2>6 DEF Producer
<1>3. CASE Cancel
  BY <1>1, <1>3 DEF Cancel, pool, data
<1>4. ASSUME NEW w \in Writers, Writer(w) PROVE RowsKept
  <2>1. CASE WriterEnds(w)
    <3>1. /\ UNCHANGED <<chunk, channel, inserted, rejected, rowsInserted, rowsFailed>>
          /\ hand[w] = 0 /\ writer[w] = "recv" /\ hand' = hand
          /\ writer' = [writer EXCEPT ![w] = "ended"]
      BY <1>0, <2>1 DEF WriterEnds, Goes, data, Rows, Pool
    <3>2. UnderWay' = UnderWay /\ Failing' = Failing /\ Begun' = Begun
      BY <1>0, <3>1 DEF UnderWay, Failing, Begun, Rows, Pool
    <3>3. InProgress' = InProgress /\ Settled' = Settled
      BY <3>2 DEF InProgress, Settled
    <3>4. QED
      BY <1>0, <3>1, <3>2, <3>3
      DEF RowsKept, Rows, Pool, ChunksApart, RowsKnown, CountsKnown, Good, Bad
  <2>2. QED
    BY <1>0, <1>4, <2>1, TakeKeeps, InsertAllKeeps, InsertFailsKeeps, RejectKeeps DEF Writer
<1>5. CASE UNCHANGED vars
  BY <1>1, <1>5 DEF vars
<1>6. QED
  BY <1>2, <1>3, <1>4, <1>5 DEF Next

(* Rows with a result are counted once: as many as have been begun, when   *)
(* nothing is under way.                                                   *)
LEMMA Tally ==
  ASSUME Rows
  PROVE  /\ rowsInserted + rowsFailed <= Offset(chunk)
         /\ Idle => rowsInserted + rowsFailed = Offset(chunk) /\ Settled = Begun
<1>1. /\ Offset(chunk) \in Nat /\ IsFiniteSet(Begun) /\ Cardinality(Begun) = Offset(chunk)
  <2>1. Offset(chunk) \in Nat
    BY OffsetBounds DEF Rows, Pool
  <2>2. QED
    BY <2>1, FS_Interval DEF Begun
<1>2. InProgress \subseteq Begun /\ Begun \subseteq Row
  BY Places DEF Rows
<1>3. Settled = Good \union Bad /\ Good \intersect Bad = {}
  BY <1>2 DEF Settled, Good, Bad, Rows, RowsKnown
<1>4. Cardinality(Settled) = rowsInserted + rowsFailed
  BY <1>3, FiniteParts, CardinalityOfParts DEF Rows, CountsKnown
<1>5. Cardinality(Settled) <= Cardinality(Begun)
  BY <1>1, FS_Subset DEF Settled
<1>6. Idle => Settled = Begun
  BY DEF Idle, Settled, InProgress, UnderWay, Rows, Pool
<1>7. QED
  BY <1>1, <1>4, <1>5, <1>6

LEMMA TakingFirst ==
  ASSUME NEW S, NEW s \in Seq(S), s # <<>>
  PROVE  Head(s) \in S /\ Tail(s) \in Seq(S) /\ Len(Tail(s)) = Len(s) - 1 /\ Len(s) \in Nat
OBVIOUS

LEMMA TypeStep ==
  ASSUME JobAssumption, RowInv, [Next]_vars
  PROVE  TypeOK'
<1> USE DEF TypeOK
<1>0. TypeOK /\ Rows
  BY RowsOfInvariant DEF RowInv
<1>1. TotalRows \in Nat /\ Offset(chunk) \in Nat /\ MaxCancels \in Nat
  BY <1>0, OffsetBounds DEF JobAssumption
<1>2. \A k \in Nat \ {0} : Size(k) \in Nat
  BY ChunkRows
<1>3. ASSUME NEW k \in Nat \ {0}, CountRejected(k)
      PROVE  rejected' \in [Row -> Nat] /\ rowsFailed' \in Nat
  BY SMTT(20), <1>0, <1>2, <1>3 DEF CountRejected
<1>4. ASSUME NEW rows, Written(rows) PROVE inserted' \in [Row -> Nat]
  BY <1>0, <1>4 DEF Written
<1>5. ASSUME ChunkDone, MoreRows
      PROVE  /\ chunk' \in Nat /\ chunk' = chunk + 1 /\ Offset(chunk') <= TotalRows
             /\ chunk + 1 \in 1 .. TotalRows /\ pc' \in PCs
  <2>1. chunk + 1 \in 1 .. TotalRows /\ Offset(chunk + 1) <= TotalRows
    BY <1>0, <1>5, NextChunk
  <2>2. QED
    BY <1>0, <1>5, <2>1 DEF ChunkDone, PCs
<1>6. CASE CreateJob \/ Register \/ Subscribe \/ Collect
  <2>1. CASE CreateJob
    BY <1>0, <2>1 DEF CreateJob, pool, data, progress, cancel, PCs
  <2>2. CASE Register
    BY <1>0, <2>2 DEF Register, pool, data, progress, cancel, PCs
  <2>3. CASE Subscribe
    BY <1>0, <2>3 DEF Subscribe, pool, data, progress, cancel, PCs
  <2>4. CASE Collect
    BY <1>0, <2>4 DEF Collect, pool, data, progress, cancel, PCs
  <2>5. QED
    BY <1>6, <2>1, <2>2, <2>3, <2>4
<1>7. CASE Cancel
  BY <1>0, <1>1, <1>7 DEF Cancel, pool, data, progress
<1>8. CASE CancelSeen \/ Convert \/ ConvertPanics \/ LastChunkDone
  <2>1. CASE CancelSeen
    BY <1>0, <2>1 DEF CancelSeen, pool, data, progress, cancel, PCs
  <2>2. CASE Convert
    BY <1>0, <2>2 DEF Convert, pool, data, progress, cancel, PCs
  <2>3. CASE ConvertPanics
    BY <1>0, <2>3 DEF ConvertPanics, pool, data, progress, cancel, PCs
  <2>4. CASE LastChunkDone
    BY <1>0, <2>4 DEF LastChunkDone, pool, data, progress, cancel, PCs
  <2>5. QED
    BY <1>8, <2>1, <2>2, <2>3, <2>4
<1>9. CASE BeginChunk
  BY <1>0, <1>9 DEF BeginChunk, Begin, pool, data, progress, PCs
<1>10. CASE ConvertFails
  <2>1. MoreRows
    BY <1>0, <1>10 DEF ConvertFails, Rows
  <2>2. chunk + 1 \in Nat \ {0} /\ CountRejected(chunk + 1) /\ ChunkDone
    BY <1>0, <1>10 DEF ConvertFails
  <2>3. QED
    BY <1>0, <1>3, <1>5, <1>10, <2>1, <2>2 DEF ConvertFails, pool, progress, cancel
<1>11. CASE Send
  <2>1. MoreRows /\ ChunkDone
    BY <1>0, <1>11 DEF Send, Rows
  <2>2. chunk + 1 \in 1 .. TotalRows
    BY <1>5, <2>1
  <2>3. channel' \in Seq(1 .. TotalRows) /\ Len(channel') = Len(channel) + 1 /\ Len(channel) < Capacity
    BY <1>0, <1>11, <2>2 DEF Send
  <2>4. Len(channel') <= Capacity
    BY <1>0, <2>3 DEF JobAssumption
  <2>5. QED
    BY <1>0, <1>5, <1>11, <2>1, <2>3, <2>4 DEF Send, data, progress, cancel
<1>12. ASSUME NEW p \in Nat, NEW i \in Nat, NEW f \in Nat, SavedAs(p, i, f)
       PROVE  saved' \in [processed : Nat, inserted : Nat, failed : Nat]
  BY <1>0, <1>12 DEF SavedAs
<1>13. CASE LoadInserted
  BY <1>0, <1>13 DEF LoadInserted, pool, data, cancel, PCs
<1>14. CASE SaveProgress
  <2>1. saved' \in [processed : Nat, inserted : Nat, failed : Nat]
    BY <1>0, <1>1, <1>12, <1>14 DEF SaveProgress
  <2>2. QED
    BY <1>0, <1>14, <2>1 DEF SaveProgress, pool, data, cancel, PCs
<1>15. CASE FinalProgress
  <2>1. saved' \in [processed : Nat, inserted : Nat, failed : Nat]
    BY <1>0, <1>1, <1>12, <1>15 DEF FinalProgress
  <2>2. QED
    BY <1>0, <1>15, <2>1 DEF FinalProgress, pool, data, cancel, PCs
<1>16. CASE Join \/ Finish \/ Remove
  <2>1. CASE Join
    BY <1>0, <2>1 DEF Join, pool, data, progress, cancel, PCs
  <2>2. CASE Finish
    BY <1>0, <2>2 DEF Finish, pool, data, progress, cancel, PCs
  <2>3. CASE Remove
    BY <1>0, <2>3 DEF Remove, pool, data, progress, cancel, PCs
  <2>4. QED
    BY <1>16, <2>1, <2>2, <2>3
<1>17. ASSUME NEW w \in Writers, Writer(w) PROVE TypeOK'
  <2>1. ASSUME NEW s \in {"recv", "insert", "reject", "ended"}, NEW k \in 0 .. TotalRows,
               k # 0 <=> s \in {"insert", "reject"}, Goes(w, s, k)
        PROVE  /\ writer' \in [Writers -> {"recv", "insert", "reject", "ended"}]
               /\ hand' \in [Writers -> 0 .. TotalRows]
               /\ \A v \in Writers : hand'[v] # 0 <=> writer'[v] \in {"insert", "reject"}
    BY <1>0, <2>1 DEF Goes
  <2>2. 0 \in 0 .. TotalRows /\ hand[w] \in 0 .. TotalRows
        /\ (writer[w] \in {"insert", "reject"} => hand[w] \in Nat \ {0})
    BY <1>0, <1>1
  <2>3. CASE Take(w)
    <3>1. /\ channel \in Seq(1 .. TotalRows) /\ channel # <<>> /\ channel' = Tail(channel)
          /\ Goes(w, "insert", Head(channel))
      BY <1>0, <2>3 DEF Take
    <3>2. Head(channel) \in 1 .. TotalRows /\ channel' \in Seq(1 .. TotalRows)
          /\ Len(channel') = Len(channel) - 1 /\ Len(channel) \in Nat
      BY <3>1, TakingFirst
    <3>3. Len(channel') <= Capacity
      BY <1>0, <3>2 DEF JobAssumption
    <3>4. Head(channel) \in 0 .. TotalRows /\ Head(channel) # 0
      BY <1>1, <3>2
    <3>5. QED
      BY <1>0, <2>1, <2>3, <3>1, <3>2, <3>3, <3>4 DEF Take, data, progress, cancel
  <2>4. CASE WriterEnds(w)
    BY <1>0, <2>1, <2>2, <2>4 DEF WriterEnds, data, progress, cancel
  <2>5. CASE InsertAll(w)
    <3>1. rowsInserted' \in Nat
      BY SMTT(20), <1>0, <1>2, <2>2, <2>5 DEF InsertAll
    <3>2. QED
      BY <1>0, <1>4, <2>1, <2>2, <2>5, <3>1 DEF InsertAll, progress, cancel
  <2>6. CASE InsertFails(w)
    <3>1. inserted' \in [Row -> Nat]
      BY <1>4, <2>6 DEF InsertFails
    <3>2. QED
      BY <1>0, <2>1, <2>2, <2>6, <3>1 DEF InsertFails, progress, cancel
  <2>7. CASE Reject(w)
    BY <1>0, <1>3, <2>1, <2>2, <2>7 DEF Reject, progress, cancel
  <2>8. QED
    BY <1>17, <2>3, <2>4, <2>5, <2>6, <2>7 DEF Writer
<1>18. CASE UNCHANGED vars
  BY <1>0, <1>18 DEF vars
<1>19. QED
  BY <1>6, <1>7, <1>8, <1>9, <1>10, <1>11, <1>13, <1>14, <1>15, <1>16, <1>17, <1>18
  DEF Next, Producer

LEMMA ControlStep ==
  ASSUME JobAssumption, RowInv, [Next]_vars
  PROVE  Control'
<1>0. TypeOK /\ Control /\ Rows /\ Writers # {}
  BY RowsOfInvariant DEF RowInv, JobAssumption
<1>1. CASE CreateJob \/ Register \/ Subscribe \/ Collect
  BY <1>0, <1>1 DEF CreateJob, Register, Subscribe, Collect, pool, data, progress, cancel,
     Control, TypeOK, Over, Idle, MoreRows, Final
<1>2. CASE Cancel
  BY <1>0, <1>2 DEF Cancel, pool, data, progress, Control, TypeOK, Over, Idle, MoreRows, Final
<1>3. CASE CancelSeen \/ Convert \/ ConvertPanics \/ LastChunkDone
  <2>1. CASE CancelSeen
    BY <1>0, <2>1 DEF CancelSeen, pool, data, progress,
       cancel, Control, TypeOK, Over, Idle, MoreRows, Final
  <2>2. CASE Convert
    BY <1>0, <2>2 DEF Convert, pool, data, progress,
       cancel, Control, TypeOK, Over, Idle, MoreRows, Final
  <2>3. CASE ConvertPanics
    BY <1>0, <2>3 DEF ConvertPanics, pool, data, progress,
       cancel, Control, TypeOK, Over, Idle, MoreRows, Final
  <2>4. CASE LastChunkDone
    BY <1>0, <2>4 DEF LastChunkDone, pool, data, progress,
       cancel, Control, TypeOK, Over, Idle, MoreRows, Final
  <2>5. QED
    BY <1>3, <2>1, <2>2, <2>3, <2>4
<1>4. CASE BeginChunk
  BY <1>0, <1>4 DEF BeginChunk, Begin, pool, data, progress, Control, TypeOK, Over, Idle,
     MoreRows, Final
<1>5. CASE ConvertFails \/ Send
  <2>1. /\ pc \in {"convert", "send"} /\ pc' \in {"load", "check"}
        /\ UNCHANGED <<status, open, writer, panicked>>
    BY <1>5 DEF ConvertFails, Send, ChunkDone, pool, data, progress, cancel
  <2>2. open /\ ~Final
    BY <1>0, <2>1 DEF Control, Final
  <2>3. \A w \in Writers : writer[w] # "ended"
    BY <1>0, <2>2 DEF Control
  <2>4. QED
    BY <1>0, <2>1, <2>2, <2>3 DEF Control, Over, Final
<1>6. CASE LoadInserted \/ SaveProgress
  BY <1>0, <1>6 DEF LoadInserted, SaveProgress, pool, data, cancel, Control, TypeOK, Over,
     Idle, MoreRows, Final
<1>7. CASE Join
  <2>1. Idle
    BY <1>0, <1>7 DEF Join, WritersEnded, Control, Idle, Rows, Pool
  <2>2. QED
    BY <1>0, <1>7, <2>1 DEF Join, pool, data, progress, cancel, Control, TypeOK, Over, Idle,
       MoreRows, Final, WritersEnded
<1>8. CASE FinalProgress \/ Finish \/ Remove
  <2>1. /\ pc \in {"final", "complete", "fail", "remove"}
        /\ pc' \in {"complete", "remove", "ended"} /\ (pc' = "complete" => pc = "final")
        /\ UNCHANGED <<chunk, channel, open, writer, hand, panicked>>
    BY <1>8 DEF FinalProgress, Finish, Remove, pool, data
  <2>2. /\ Final' => pc' \in {"remove", "ended"}
        /\ status' = "completed" => status = "completed" \/ pc = "complete"
    BY <1>0, <1>8 DEF FinalProgress, Finish, Remove, Control, Final
  <2>3. QED
    BY <1>0, <2>1, <2>2 DEF Control, Over, Idle, MoreRows
<1>9. ASSUME NEW w \in Writers, Writer(w) PROVE Control'
  <2>1. UNCHANGED <<pc, status, chunk, open, panicked>>
    BY <1>9 DEF Writer, Take, WriterEnds, InsertAll, InsertFails, Reject
  <2>2. ASSUME Idle PROVE Idle'
    <3>1. writer[w] \notin {"insert", "reject"} /\ channel = <<>>
      BY <1>0, <2>2 DEF Idle, TypeOK
    <3>2. WriterEnds(w)
      BY <1>9, <3>1 DEF Writer, Take, InsertAll, InsertFails, Reject
    <3>3. QED
      BY <1>0, <2>2, <3>2 DEF WriterEnds, Goes, Idle, TypeOK
  <2>3. \A v \in Writers : writer'[v] = "ended" => ~open' /\ channel' = <<>>
    <3>1. CASE WriterEnds(w)
      BY <1>0, <3>1 DEF WriterEnds, Control
    <3>2. CASE ~WriterEnds(w)
      <4>1. \A v \in Writers : writer'[v] = "ended" => writer[v] = "ended"
        BY <1>0, <1>9, <3>2 DEF Writer, Take, InsertAll, InsertFails, Reject, Goes, TypeOK
      <4>2. channel = <<>> => channel' = channel
        BY <1>9, <3>2 DEF Writer, Take, InsertAll, InsertFails, Reject
      <4>3. QED
        BY <1>0, <2>1, <4>1, <4>2 DEF Control
    <3>3. QED
      BY <3>1, <3>2
  <2>4. QED
    BY <1>0, <2>1, <2>2, <2>3 DEF Control, Over, MoreRows, Final
<1>10. CASE UNCHANGED vars
  BY <1>0, <1>10 DEF vars, Control, Over, Idle, MoreRows, Final
<1>11. QED
  BY <1>1, <1>2, <1>3, <1>4, <1>5, <1>6, <1>7, <1>8, <1>9, <1>10 DEF Next, Producer

(* The counters only grow, and the record is written from values of them   *)
(* that do not exceed what has been begun.                                 *)
LEMMA CountersGrow ==
  ASSUME JobAssumption, RowInv, [Next]_vars
  PROVE  rowsInserted <= rowsInserted' /\ rowsFailed <= rowsFailed'
<1>1. rowsInserted \in Nat /\ rowsFailed \in Nat /\ chunk \in Nat
  BY DEF RowInv, TypeOK
<1>2. \A k \in Nat \ {0} : Size(k) \in Nat
  BY ChunkRows
<1>3. \A k \in Nat \ {0} : CountRejected(k) => rowsFailed <= rowsFailed'
  BY <1>1, <1>2 DEF CountRejected
<1>4. CASE ConvertFails
  BY <1>1, <1>3, <1>4 DEF ConvertFails
<1>5. ASSUME NEW w \in Writers, Writer(w) PROVE rowsInserted <= rowsInserted' /\ rowsFailed <= rowsFailed'
  <2>1. writer[w] \in {"insert", "reject"} => hand[w] \in Nat \ {0}
    BY DEF RowInv, TypeOK, JobAssumption
  <2>2. QED
    BY <1>1, <1>2, <1>3, <1>5, <2>1 DEF Writer, Take, WriterEnds, InsertAll, InsertFails, Reject, data
<1>6. CASE UNCHANGED <<rowsInserted, rowsFailed>>
  BY <1>1, <1>6
<1>7. CASE Producer /\ ~ConvertFails
  BY <1>6, <1>7 DEF Producer, CreateJob, Register, Subscribe, Collect, CancelSeen, BeginChunk,
     Begin, Convert, ConvertPanics, Send, LoadInserted, SaveProgress, LastChunkDone, Join,
     FinalProgress, Finish, Remove, data
<1>8. CASE Cancel \/ UNCHANGED vars
  BY <1>6, <1>8 DEF Cancel, data, vars
<1>9. QED
  BY <1>4, <1>5, <1>7, <1>8 DEF Next

LEMMA RecordStep ==
  ASSUME JobAssumption, RowInv, [Next]_vars
  PROVE  /\ RecordBehind'
         /\ saved.processed <= saved'.processed
         /\ saved.inserted <= saved'.inserted /\ saved.failed <= saved'.failed
<1> DEFINE Grown == /\ saved.processed <= saved'.processed
                    /\ saved.inserted <= saved'.inserted /\ saved.failed <= saved'.failed
<1>0. Rows /\ Control /\ RecordBehind
  BY RowsOfInvariant DEF RowInv
<1>1. /\ saved.processed \in Nat /\ saved.inserted \in Nat /\ saved.failed \in Nat
      /\ loaded \in Nat /\ rowsInserted \in Nat /\ rowsFailed \in Nat /\ chunk \in Nat
      /\ TotalRows \in Nat /\ Offset(chunk) \in Nat /\ Offset(chunk + 1) \in Nat
      /\ Offset(chunk) <= Offset(chunk + 1) /\ Offset(chunk) <= TotalRows
  <2>1. saved.processed \in Nat /\ saved.inserted \in Nat /\ saved.failed \in Nat
    BY DEF RowInv, TypeOK
  <2>2. loaded \in Nat /\ rowsInserted \in Nat /\ rowsFailed \in Nat /\ chunk \in Nat
    BY DEF RowInv, TypeOK
  <2>3. QED
    BY <2>1, <2>2, OffsetBounds DEF JobAssumption
<1>2. /\ rowsInserted <= rowsInserted' /\ rowsFailed <= rowsFailed'
      /\ rowsInserted' \in Nat /\ rowsFailed' \in Nat
  <2>1. TypeOK'
    BY TypeStep
  <2>2. QED
    BY <2>1, CountersGrow DEF TypeOK
<1>3. ASSUME UNCHANGED <<saved, loaded>>, pc' # "save" \/ pc' = pc,
             chunk' = chunk \/ chunk' = chunk + 1
      PROVE  RecordBehind' /\ Grown
  <2>1. Offset(chunk') \in Nat /\ Offset(chunk) <= Offset(chunk')
    BY <1>1, <1>3
  <2>2. QED
    BY <1>0, <1>1, <1>2, <1>3, <2>1 DEF RecordBehind
<1>4. CASE LoadInserted
  BY <1>0, <1>1, <1>4 DEF LoadInserted, RecordBehind, data
<1>5. ASSUME NEW p \in Nat, NEW i \in Nat, NEW f \in Nat, SavedAs(p, i, f),
             saved.processed <= p, saved.inserted <= i, saved.failed <= f,
             p <= Offset(chunk), i <= rowsInserted, f <= rowsFailed, i + f <= p,
             chunk' = chunk, pc' # "save", UNCHANGED <<rowsInserted, rowsFailed>>
      PROVE  RecordBehind' /\ Grown
  <2>1. CASE UNCHANGED saved
    BY <1>0, <1>1, <1>5, <2>1 DEF RecordBehind
  <2>2. CASE saved' = [processed |-> p, inserted |-> i, failed |-> f]
    <3>1. saved'.processed = p /\ saved'.inserted = i /\ saved'.failed = f
      BY <2>2
    <3>2. QED
      BY <1>5, <3>1 DEF RecordBehind
  <2>3. QED
    BY <1>5, <2>1, <2>2 DEF SavedAs
<1>6. rowsInserted + rowsFailed <= Offset(chunk)
  BY <1>0, Tally
<1>7. CASE SaveProgress
  <2>1. /\ saved.inserted <= loaded /\ loaded <= rowsInserted /\ saved.failed <= rowsFailed
        /\ saved.processed <= Offset(chunk)
    BY <1>0, <1>7 DEF SaveProgress, RecordBehind
  <2>2. SavedAs(Offset(chunk), loaded, rowsFailed) /\ chunk' = chunk /\ pc' # "save"
        /\ UNCHANGED <<rowsInserted, rowsFailed>>
    BY <1>7 DEF SaveProgress, data
  <2>3. loaded + rowsFailed <= Offset(chunk)
    BY <1>1, <1>6, <2>1
  <2>4. QED
    BY <1>1, <1>5, <2>1, <2>2, <2>3
<1>8. CASE FinalProgress
  <2>1. Offset(chunk) = TotalRows
    BY <1>0, <1>1, <1>8 DEF FinalProgress, Control, MoreRows
  <2>2. SavedAs(TotalRows, rowsInserted, rowsFailed) /\ chunk' = chunk /\ pc' # "save"
        /\ UNCHANGED <<rowsInserted, rowsFailed>>
    BY <1>8 DEF FinalProgress, data
  <2>3. /\ saved.inserted <= rowsInserted /\ saved.failed <= rowsFailed
        /\ saved.processed <= TotalRows
    BY <1>0, <2>1 DEF RecordBehind
  <2>4. QED
    BY <1>1, <1>5, <1>6, <2>1, <2>2, <2>3
<1>9. CASE Producer /\ ~(LoadInserted \/ SaveProgress \/ FinalProgress)
  BY <1>3, <1>9 DEF Producer, CreateJob, Register, Subscribe, Collect, CancelSeen, BeginChunk,
     Begin, Convert, ConvertFails, ChunkDone, ConvertPanics, Send, LastChunkDone, Join,
     Finish, Remove, progress
<1>10. CASE Cancel \/ UNCHANGED vars
  BY <1>3, <1>10 DEF Cancel, progress, vars
<1>11. ASSUME NEW w \in Writers, Writer(w) PROVE RecordBehind' /\ Grown
  BY <1>3, <1>11 DEF Writer, Take, WriterEnds, InsertAll, InsertFails, Reject, progress
<1>12. QED
  BY <1>4, <1>7, <1>8, <1>9, <1>10, <1>11 DEF Next

LEMMA CancelStep ==
  ASSUME JobAssumption, TypeOK, CancelWaits, [Next]_vars
  PROVE  CancelWaits'
<1> DEFINE Heeds == {"collect", "check", "convert", "send", "load", "save"}
           Before == {"new", "created", "spawned"}
<1>0. received \in Nat /\ after \in Nat /\ pc \in PCs /\ signal \in {"none", "one", "lagged"}
  BY DEF TypeOK, JobAssumption
<1>1. ASSUME UNCHANGED <<signal, received, after>>, pc' \in Heeds => pc \in Heeds,
             pc' \in Before => pc \in Before
      PROVE  CancelWaits'
  BY <1>0, <1>1 DEF CancelWaits
<1>2. CASE Subscribe
  <2>1. /\ pc = "spawned" /\ pc' = "collect" /\ UNCHANGED <<signal, received, after>>
    BY <1>2 DEF Subscribe, cancel
  <2>2. QED
    BY <1>0, <2>1 DEF CancelWaits
<1>3. CASE CancelSeen
  BY <1>0, <1>3 DEF CancelSeen, CancelWaits
<1>4. CASE BeginChunk
  BY <1>0, <1>4 DEF BeginChunk, Begin, CancelWaits
<1>5. CASE Cancel
  <2>1. pc' = pc /\ after' = after
    BY <1>5 DEF Cancel
  <2>2. CASE Subscribed
    <3>1. pc \notin Before /\ received' = received + 1
          /\ signal' = IF signal = "none" THEN "one" ELSE "lagged"
      BY <1>5, <2>2 DEF Cancel, Subscribed
    <3>2. QED
      BY <1>0, <2>1, <3>1 DEF CancelWaits
  <2>3. CASE ~Subscribed
    BY <1>1, <1>5, <2>1, <2>3 DEF Cancel
  <2>4. QED
    BY <2>2, <2>3
<1>6. CASE CreateJob \/ Register \/ Collect \/ Convert \/ ConvertPanics \/ LoadInserted
  BY <1>1, <1>6 DEF CreateJob, Register, Collect, Convert, ConvertPanics, LoadInserted, cancel
<1>7. CASE ConvertFails \/ Send \/ SaveProgress \/ LastChunkDone \/ Join
  BY <1>1, <1>7 DEF ConvertFails, Send, ChunkDone, SaveProgress, LastChunkDone, Join, cancel
<1>8. CASE FinalProgress \/ Finish \/ Remove
  BY <1>1, <1>8 DEF FinalProgress, Finish, Remove, cancel
<1>9. ASSUME NEW w \in Writers, Writer(w) PROVE CancelWaits'
  BY <1>1, <1>9 DEF Writer, Take, WriterEnds, InsertAll, InsertFails, Reject, cancel
<1>10. CASE UNCHANGED vars
  BY <1>1, <1>10 DEF vars
<1>11. QED
  BY <1>2, <1>3, <1>4, <1>5, <1>6, <1>7, <1>8, <1>9, <1>10 DEF Next, Producer

-----------------------------------------------------------------------------
LEMMA InitInvariant == ASSUME JobAssumption, Init PROVE IInv
<1>1. Offset(0) = 0 /\ TotalRows \in Nat
  BY OffsetBounds DEF JobAssumption
<1>2. TypeOK
  <2>1. /\ chunk \in Nat /\ Offset(chunk) <= TotalRows
        /\ channel \in Seq(1 .. TotalRows) /\ Len(channel) <= Capacity
    BY <1>1 DEF Init, JobAssumption
  <2>2. /\ inserted \in [Row -> Nat] /\ rejected \in [Row -> Nat]
        /\ hand \in [Writers -> 0 .. TotalRows]
        /\ writer \in [Writers -> {"recv", "insert", "reject", "ended"}]
        /\ \A w \in Writers : hand[w] # 0 <=> writer[w] \in {"insert", "reject"}
    BY <1>1 DEF Init
  <2>3. /\ cancels \in 0 .. MaxCancels /\ received \in 0 .. cancels
        /\ saved \in [processed : Nat, inserted : Nat, failed : Nat]
    BY DEF Init, JobAssumption
  <2>4. QED
    BY <2>1, <2>2, <2>3 DEF Init, TypeOK, PCs
<1>3. UnderWay = {} /\ Begun = {} /\ InProgress = {} /\ Settled = {} /\ Good = {} /\ Bad = {}
  <2>1. UnderWay = {}
    BY DEF Init, UnderWay
  <2>2. Begun = {}
    BY <1>1 DEF Init, Begun
  <2>3. QED
    BY <2>1, <2>2 DEF Init, InProgress, Settled, Good, Bad
<1>4. ChunksApart
  BY <1>3 DEF Init, ChunksApart
<1>5. RowsKnown
  BY <1>3 DEF Init, RowsKnown
<1>6. CountsKnown
  BY <1>3, FS_EmptySet DEF Init, CountsKnown
<1>7. Control
  BY DEF Init, Control, Over, Idle, Final
<1>8. RecordBehind /\ CancelWaits
  BY <1>1 DEF Init, RecordBehind, CancelWaits
<1>9. QED
  BY <1>2, <1>4, <1>5, <1>6, <1>7, <1>8 DEF IInv, RowInv

LEMMA Invariance == ASSUME JobAssumption PROVE Spec => []IInv
<1>1. IInv /\ [Next]_vars => IInv'
  BY TypeStep, RowStep, ControlStep, RecordStep, CancelStep DEF IInv, RowInv, RowsKept
<1>2. QED
  BY <1>1, InitInvariant, PTL DEF Spec

(* Rows, counters and record of a job agree, whichever chunks fail and     *)
(* however the writers interleave: a row is written or rejected at most    *)
(* once, and a complete job has a result for each of its rows.             *)
THEOREM JobExactHolds == ASSUME JobAssumption PROVE Spec => []JobExact
<1>1. ASSUME IInv PROVE JobExact
  <2>0. Rows /\ TypeOK /\ Control /\ RecordBehind /\ RowsKnown /\ CountsKnown
    BY <1>1, RowsOfInvariant DEF IInv, RowInv
  <2>1. /\ Offset(chunk) \in Nat /\ TotalRows \in Nat /\ Offset(chunk) <= TotalRows
    BY <2>0, OffsetBounds DEF TypeOK, JobAssumption
  <2>2. status = "completed" =>
          Begun = Row /\ Settled = Begun /\ rowsInserted + rowsFailed = TotalRows
    BY <2>0, <2>1, Tally DEF Control, MoreRows, Begun, Row
  <2>3. EveryRowOnce
    BY <2>0, <2>2 DEF EveryRowOnce, RowsKnown
  <2>4. rowsInserted <= Cardinality({r \in Row : inserted[r] > 0})
    <3>1. Good \subseteq {r \in Row : inserted[r] > 0}
      <4>1. Settled \subseteq Row
        BY <2>0, Places DEF Rows, Settled
      <4>2. QED
        BY <2>0, <4>1 DEF Good, RowsKnown, TypeOK
    <3>2. IsFiniteSet({r \in Row : inserted[r] > 0})
      BY RowsFinite, FS_Subset
    <3>3. Cardinality(Good) <= Cardinality({r \in Row : inserted[r] > 0})
      BY <3>1, <3>2, FS_Subset
    <3>4. QED
      BY <2>0, <3>3 DEF CountsKnown
  <2>5. CountsAddUp
    BY <2>2, <2>4 DEF CountsAddUp
  <2>6. ProgressConsistent
    <3>1. saved.processed \in Nat
      BY <2>0 DEF TypeOK
    <3>2. QED
      BY <2>0, <2>1, <3>1 DEF ProgressConsistent, RecordBehind
  <2>7. QED
    BY <2>0, <2>3, <2>5, <2>6 DEF JobExact
<1>2. QED
  BY <1>1, Invariance, PTL

(* A cancellation that was heard stops the job before its next chunk, but  *)
(* for one chunk per repetition of the call.                               *)
THEOREM CancelStopsHolds == ASSUME JobAssumption PROVE Spec => []CancelStops
<1>1. IInv => CancelStops
  BY DEF IInv, CancelWaits, CancelStops
<1>2. QED
  BY <1>1, Invariance, PTL

(* What a job has told stays true: its progress never goes back, and       *)
(* nothing is written for a job reported over, unless it panicked.         *)
THEOREM JobQuietHolds == ASSUME JobAssumption PROVE Spec => JobQuiet
<1> DEFINE Grown == /\ saved.processed <= saved'.processed
                    /\ saved.inserted <= saved'.inserted /\ saved.failed <= saved'.failed
           Quiet == Final /\ ~panicked => inserted' = inserted /\ rejected' = rejected
<1>1. ASSUME IInv, [Next]_vars PROVE Grown
  BY <1>1, RecordStep DEF IInv
<1>2. ASSUME IInv, [Next]_vars PROVE Quiet
  <2>1. SUFFICES ASSUME Final, ~panicked PROVE UNCHANGED <<inserted, rejected>>
    OBVIOUS
  <2>2. pc \in {"remove", "ended"} /\ Idle /\ TypeOK
    BY <1>2, <2>1 DEF IInv, RowInv, Control, Over
  <2>3. \A w \in Writers : writer[w] \notin {"insert", "reject"}
    BY <2>2 DEF Idle, TypeOK
  <2>4. CASE Producer \/ Cancel
    BY <2>2, <2>4 DEF Producer, CreateJob, Register, Subscribe, Collect, CancelSeen,
       BeginChunk, Begin, Convert, ConvertFails, ConvertPanics, Send, LoadInserted,
       SaveProgress, LastChunkDone, Join, FinalProgress, Finish, Remove, Cancel, data
  <2>5. ASSUME NEW w \in Writers, Writer(w) PROVE UNCHANGED <<inserted, rejected>>
    BY <2>3, <2>5 DEF Writer, Take, WriterEnds, InsertAll, InsertFails, Reject, data
  <2>6. CASE UNCHANGED vars
    BY <2>6 DEF vars
  <2>7. QED
    BY <1>2, <2>4, <2>5, <2>6 DEF Next
<1>3. IInv /\ [Next]_vars => [Grown]_vars /\ [Quiet]_vars
  BY <1>1, <1>2
<1>4. QED
  BY <1>3, Invariance, PTL DEF Spec, JobQuiet, ProgressMonotone, FinalIsQuiet
=============================================================================
