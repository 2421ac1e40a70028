----------------------- MODULE CompiledQueries_proof -----------------------
(***************************************************************************)
(* Proofs about CompiledQueries for any callers, processes, questions and  *)
(* templates, and any size of the memory level.                            *)
(***************************************************************************)
EXTENDS CompiledQueries, FiniteSetTheorems, TLAPS

Entries == {e \in [q : Questions, from : {"llm", "template"}, scope : {Scope[q] : q \in Questions}, valid : BOOLEAN] :
              e.scope = Scope[e.q]}
Valid   == {e \in Entries : e.valid}
Jobs    == [q : Questions \union {None}, entry : Entries \union {None},
            last : {None, "memory", "disk", "atlas"}, template : Templates \union {None}]
Fields  == {"asked", "h1", "m1", "h2", "m2", "h3", "m3"}

(* The levels hold validated entries, each at its question's place.        *)
Levels ==
  /\ disk \in BOOLEAN /\ home \in [Callers -> Processes]
  /\ files \in [Processes -> [Questions -> Valid \union {None, Torn}]]
  /\ \A p \in Processes : \A q \in Questions : files[p][q] \notin {None, Torn} => files[p][q].q = q
  /\ atlas \in [Questions -> Valid \union {None}]
  /\ \A q \in Questions : atlas[q] # None => atlas[q].q = q
  /\ mixed \subseteq Callers

(* Memory has a question once; what was used last is the newest.           *)
Once(s) == \A i, j \in DOMAIN s : s[i].q = s[j].q => i = j
Memory ==
  /\ memory \in [Processes -> Seq(Valid)] /\ used \in [Processes -> Questions \union {None}]
  /\ \A p \in Processes :
       /\ Len(memory[p]) <= MaxSize /\ Once(memory[p])
       /\ used[p] # None => Len(memory[p]) > 0 /\ memory[p][Len(memory[p])].q = used[p]

(* What a caller has in hand: an answer to its question, validated before  *)
(* it is stored.                                                           *)
Fits(s, j) ==
  /\ s \notin {"idle", "gone"} => j.q \in Questions
  /\ s \in {"validate", "check"} => j.entry \in Entries /\ j.entry.q = j.q
  /\ s \in {"memory", "open", "write", "upsert", "ok"} => j.entry \in Valid /\ j.entry.q = j.q
InHand ==
  /\ pc \in [Callers -> Where] /\ job \in [Callers -> Jobs]
  /\ \A c \in Callers : Fits(pc[c], job[c]) /\ (pc[c] = "disk" => disk)

(* What Atlas could answer it still can.                                   *)
Fresh ==
  /\ fresh \subseteq Callers /\ PaidOnce
  /\ \A c \in fresh : pc[c] \in {"disk", "atlas"} => atlas[job[c].q] # None

Counts == stats \in [Processes -> [Fields -> Nat]] /\ crashes \in Nat /\ StatsAddUp

IInv == Levels /\ Memory /\ InHand /\ Fresh /\ Counts

-----------------------------------------------------------------------------
LEMMA EntryMade ==
  ASSUME NEW q \in Questions, NEW f \in {"llm", "template"}, NEW v \in BOOLEAN
  PROVE  /\ Entry(q, f, v) \in Entries /\ Entry(q, f, v).q = q /\ Entry(q, f, v).valid = v
         /\ [Entry(q, f, v) EXCEPT !.scope = Scope[q]] = Entry(q, f, v)
BY DEF Entry, Entries

LEMMA EntryIsSome == ASSUME NEW e \in Entries PROVE e \notin {None, Torn} /\ e.q \in Questions
<1>1. e = Entry(e.q, e.from, e.valid) /\ e.q \in Questions /\ e.from \in {"llm", "template"} /\ e.valid \in BOOLEAN
  BY DEF Entries, Entry
<1> QED
  BY <1>1, QueriesAssumption

(* Sequences: what is left when one place is removed.                      *)
LEMMA Removed ==
  ASSUME NEW E, NEW s \in Seq(E), NEW i \in DOMAIN s
  PROVE  /\ RemoveAt(s, i) \in Seq(E) /\ Len(RemoveAt(s, i)) = Len(s) - 1
         /\ \A j \in 1 .. Len(s) - 1 : RemoveAt(s, i)[j] = IF j < i THEN s[j] ELSE s[j + 1]
<1>1. i \in 1 .. Len(s) /\ Len(s) \in Nat
  OBVIOUS
<1>2. /\ SubSeq(s, 1, i - 1) \in Seq(E) /\ Len(SubSeq(s, 1, i - 1)) = i - 1
      /\ \A j \in 1 .. i - 1 : SubSeq(s, 1, i - 1)[j] = s[j]
  BY <1>1
<1>3. /\ SubSeq(s, i + 1, Len(s)) \in Seq(E) /\ Len(SubSeq(s, i + 1, Len(s))) = Len(s) - i
      /\ \A j \in 1 .. Len(s) - i : SubSeq(s, i + 1, Len(s))[j] = s[i + j]
  BY <1>1
<1> DEFINE l == SubSeq(s, 1, i - 1)
           r == SubSeq(s, i + 1, Len(s))
<1>4. l \in Seq(E) /\ Len(l) = i - 1 /\ (\A j \in 1 .. i - 1 : l[j] = s[j])
  BY <1>2
<1>5. r \in Seq(E) /\ Len(r) = Len(s) - i /\ (\A j \in 1 .. Len(s) - i : r[j] = s[i + j])
  BY <1>3
<1> HIDE DEF l, r
<1>6. /\ l \o r \in Seq(E) /\ Len(l \o r) = Len(l) + Len(r)
      /\ \A j \in 1 .. Len(l) + Len(r) : (l \o r)[j] = IF j <= Len(l) THEN l[j] ELSE r[j - Len(l)]
  BY SMTT(20), <1>4, <1>5
<1> DEFINE m == l \o r
<1>7. m \in Seq(E) /\ Len(m) = Len(s) - 1
  BY <1>1, <1>4, <1>5, <1>6
<1>8. \A j \in 1 .. i - 1 : m[j] = s[j]
  BY SMTT(20), <1>1, <1>4, <1>5, <1>6
<1>9. \A j \in i .. Len(s) - 1 : m[j] = s[j + 1]
  <2>1. SUFFICES ASSUME NEW j \in i .. Len(s) - 1 PROVE m[j] = s[j + 1]
    OBVIOUS
  <2>2. m[j] = r[j - (i - 1)]
    <3>1. j \in 1 .. Len(l) + Len(r) /\ ~(j <= Len(l)) /\ Len(l) = i - 1
      BY <1>1, <1>4, <1>5, <2>1
    <3>2. (l \o r)[j] = r[j - Len(l)]
      BY <1>6, <3>1
    <3> QED
      BY <3>1, <3>2
  <2>3. j - (i - 1) \in 1 .. Len(s) - i /\ i + (j - (i - 1)) = j + 1
    BY <1>1, <2>1
  <2>4. r[j - (i - 1)] = s[i + (j - (i - 1))]
    BY <1>5, <2>3
  <2> QED
    BY <2>2, <2>3, <2>4
<1>10. RemoveAt(s, i) = m
  BY DEF RemoveAt, l, r
<1> HIDE DEF m
<1>11. \A j \in 1 .. Len(s) - 1 : m[j] = IF j < i THEN s[j] ELSE s[j + 1]
  <2>1. SUFFICES ASSUME NEW j \in 1 .. Len(s) - 1 PROVE m[j] = IF j < i THEN s[j] ELSE s[j + 1]
    OBVIOUS
  <2>2. CASE j < i
    BY <1>1, <1>8, <2>2
  <2>3. CASE ~(j < i)
    <3>1. j \in i .. Len(s) - 1
      BY <1>1, <2>3
    <3> QED
      BY <1>9, <2>3, <3>1
  <2> QED
    BY <2>2, <2>3
<1> QED
  BY <1>7, <1>10, <1>11

(* An entry becomes the newest, and nothing else goes.                     *)
LEMMA Touched ==
  ASSUME NEW s \in Seq(Valid), NEW e \in Valid, Once(s)
  PROVE  /\ Touch(s, e) \in Seq(Valid) /\ Once(Touch(s, e))
         /\ Len(Touch(s, e)) = IF Has(s, e.q) THEN Len(s) ELSE Len(s) + 1
         /\ Touch(s, e)[Len(Touch(s, e))] = e
         /\ \A i \in DOMAIN s : \E j \in DOMAIN Touch(s, e) : Touch(s, e)[j].q = s[i].q
<1> DEFINE r == IF Has(s, e.q) THEN RemoveAt(s, Place(s, e.q)) ELSE s
           k == Place(s, e.q)
<1>1. Has(s, e.q) => k \in DOMAIN s /\ s[k].q = e.q
  BY DEF Has, Place
<1>2. /\ r \in Seq(Valid) /\ Len(r) = (IF Has(s, e.q) THEN Len(s) - 1 ELSE Len(s)) /\ Len(s) \in Nat
      /\ \A j \in 1 .. Len(r) : r[j] = IF Has(s, e.q) /\ ~(j < k) THEN s[j + 1] ELSE s[j]
  <2>1. CASE Has(s, e.q)
    BY <1>1, <2>1, Removed
  <2>2. CASE ~Has(s, e.q)
    BY <2>2
  <2> QED
    BY <2>1, <2>2
<1>3. Touch(s, e) = Append(r, e)
  BY DEF Touch
<1>4. k \in Nat \/ ~Has(s, e.q)
  BY <1>1
<1> HIDE DEF r, k
<1>5. /\ Append(r, e) \in Seq(Valid) /\ Len(Append(r, e)) = Len(r) + 1 /\ Append(r, e)[Len(r) + 1] = e
      /\ \A j \in 1 .. Len(r) : Append(r, e)[j] = r[j]
  BY <1>2
<1>6. \A j \in 1 .. Len(r) : r[j].q # e.q
  BY <1>1, <1>2, <1>4 DEF Once, Has
<1>7. \A i, j \in 1 .. Len(r) : r[i].q = r[j].q => i = j
  <2>1. CASE ~Has(s, e.q)
    BY <1>2, <2>1 DEF Once
  <2>2. CASE Has(s, e.q)
    <3>1. SUFFICES ASSUME NEW i \in 1 .. Len(r), NEW j \in 1 .. Len(r), r[i].q = r[j].q PROVE i = j
      OBVIOUS
    <3> DEFINE I == IF i < k THEN i ELSE i + 1
               J == IF j < k THEN j ELSE j + 1
    <3>2. I \in DOMAIN s /\ J \in DOMAIN s /\ k \in Nat
      BY <1>1, <1>2, <1>4, <2>2
    <3>3. r[i] = s[I] /\ r[j] = s[J]
      BY <1>2, <2>2
    <3>4. I = J
      BY <3>1, <3>2, <3>3 DEF Once
    <3> QED
      BY <3>2, <3>4
  <2> QED
    BY <2>1, <2>2
<1>8. \A i \in DOMAIN s : s[i].q # e.q => \E j \in 1 .. Len(r) : r[j] = s[i]
  <2>1. SUFFICES ASSUME NEW i \in DOMAIN s, s[i].q # e.q PROVE \E j \in 1 .. Len(r) : r[j] = s[i]
    OBVIOUS
  <2>2. CASE Has(s, e.q) /\ i > k
    <3>1. i - 1 \in 1 .. Len(r) /\ ~(i - 1 < k)
      BY <1>1, <1>2, <1>4, <2>2
    <3>2. r[i - 1] = s[i]
      BY <1>2, <2>2, <3>1
    <3> QED
      BY <3>1, <3>2
  <2>3. CASE ~(Has(s, e.q) /\ i > k)
    <3>1. i \in 1 .. Len(r) /\ (Has(s, e.q) => i < k)
      BY <1>1, <1>2, <1>4, <2>1, <2>3
    <3> QED
      BY <1>2, <3>1
  <2> QED
    BY <2>2, <2>3
<1> DEFINE t == Append(r, e)
<1>9. t \in Seq(Valid) /\ Len(t) = Len(r) + 1 /\ t[Len(t)] = e /\ \A j \in 1 .. Len(r) : t[j] = r[j]
  BY <1>2, <1>5
<1>10. DOMAIN t = 1 .. Len(r) + 1
  BY <1>2, <1>9
<1> HIDE DEF t
<1>11. Once(t)
  BY <1>2, <1>6, <1>7, <1>9, <1>10 DEF Once
<1>12. \A i \in DOMAIN s : \E j \in DOMAIN t : t[j].q = s[i].q
  <2>1. SUFFICES ASSUME NEW i \in DOMAIN s PROVE \E j \in DOMAIN t : t[j].q = s[i].q
    OBVIOUS
  <2>2. CASE s[i].q = e.q
    BY SMTT(20), <1>2, <1>9, <1>10, <2>2
  <2>3. CASE s[i].q # e.q
    <3>1. PICK j \in 1 .. Len(r) : r[j] = s[i]
      BY <1>8, <2>3
    <3> QED
      <4>1. t[j].q = s[i].q /\ j \in DOMAIN t
        BY <1>2, <1>9, <1>10, <3>1
      <4> QED
        BY <4>1
  <2> QED
    BY <2>2, <2>3
<1> QED
  BY <1>2, <1>3, <1>9, <1>11, <1>12 DEF t

LEMMA StoredOf ==
  ASSUME NEW s \in Seq(Valid), NEW e \in Valid, Once(s), Len(s) <= MaxSize
  PROVE  /\ Store(s, e) \in Seq(Valid) /\ Once(Store(s, e)) /\ Len(Store(s, e)) <= MaxSize
         /\ Len(Store(s, e)) > 0 /\ Store(s, e)[Len(Store(s, e))] = e
         /\ MaxSize > 1 /\ Len(s) > 0 => \E j \in DOMAIN Store(s, e) : Store(s, e)[j].q = s[Len(s)].q
<1>1. MaxSize \in Nat \ {0} /\ Len(s) \in Nat
  BY QueriesAssumption
<1>2. CASE Len(s) = MaxSize /\ ~Has(s, e.q)
  <2> DEFINE t == Tail(s)
  <2>1. /\ t \in Seq(Valid) /\ Len(t) = Len(s) - 1 /\ DOMAIN t = 1 .. Len(s) - 1
        /\ \A j \in 1 .. Len(s) - 1 : t[j] = s[j + 1]
    BY <1>1, <1>2
  <2>2. Store(s, e) = Touch(t, e)
    BY <1>2 DEF Store
  <2> HIDE DEF t
  <2>3. ~Has(t, e.q)
    <3>1. \A j \in DOMAIN t : t[j] = s[j + 1] /\ j + 1 \in DOMAIN s
      BY <1>1, <2>1
    <3> QED
      BY <1>2, <3>1 DEF Has
  <2>5. Once(t)
    <3>1. SUFFICES ASSUME NEW i \in 1 .. Len(s) - 1, NEW j \in 1 .. Len(s) - 1, t[i].q = t[j].q PROVE i = j
      BY <2>1 DEF Once
    <3>2. i + 1 \in DOMAIN s /\ j + 1 \in DOMAIN s /\ s[i + 1].q = s[j + 1].q
      BY <1>1, <2>1, <3>1
    <3>3. i + 1 = j + 1
      BY <3>2 DEF Once
    <3> QED
      BY <1>1, <3>3
  <2>4. MaxSize > 1 => Len(t) \in DOMAIN t /\ t[Len(t)] = s[Len(s)]
    BY <1>1, <1>2, <2>1
  <2>6. /\ Store(s, e) \in Seq(Valid) /\ Once(Store(s, e)) /\ Len(Store(s, e)) = Len(t) + 1
        /\ Store(s, e)[Len(Store(s, e))] = e
        /\ \A i \in DOMAIN t : \E j \in DOMAIN Store(s, e) : Store(s, e)[j].q = t[i].q
    <3>1. /\ Touch(t, e) \in Seq(Valid) /\ Once(Touch(t, e)) /\ Touch(t, e)[Len(Touch(t, e))] = e
          /\ Len(Touch(t, e)) = IF Has(t, e.q) THEN Len(t) ELSE Len(t) + 1
          /\ \A i \in DOMAIN t : \E j \in DOMAIN Touch(t, e) : Touch(t, e)[j].q = t[i].q
      BY <2>1, <2>5, Touched
    <3> QED
      BY <2>2, <2>3, <3>1
  <2> QED
    BY <1>1, <1>2, <2>1, <2>4, <2>6
<1>3. CASE ~(Len(s) = MaxSize /\ ~Has(s, e.q))
  <2>1. Store(s, e) = Touch(s, e)
    BY <1>3 DEF Store
  <2>2. Has(s, e.q) => Len(s) > 0
    BY <1>1 DEF Has
  <2>3. Len(s) > 0 => Len(s) \in DOMAIN s
    BY <1>1
  <2>4. /\ Store(s, e) \in Seq(Valid) /\ Once(Store(s, e))
        /\ Len(Store(s, e)) = IF Has(s, e.q) THEN Len(s) ELSE Len(s) + 1
        /\ Store(s, e)[Len(Store(s, e))] = e
        /\ \A i \in DOMAIN s : \E j \in DOMAIN Store(s, e) : Store(s, e)[j].q = s[i].q
    <3>1. /\ Touch(s, e) \in Seq(Valid) /\ Once(Touch(s, e)) /\ Touch(s, e)[Len(Touch(s, e))] = e
          /\ Len(Touch(s, e)) = IF Has(s, e.q) THEN Len(s) ELSE Len(s) + 1
          /\ \A i \in DOMAIN s : \E j \in DOMAIN Touch(s, e) : Touch(s, e)[j].q = s[i].q
      BY Touched
    <3> QED
      BY <2>1, <3>1
  <2>5. Len(Store(s, e)) <= MaxSize /\ Len(Store(s, e)) > 0
    BY <1>1, <1>3, <2>2, <2>4
  <2> QED
    BY <2>3, <2>4, <2>5
<1> QED
  BY <1>2, <1>3

-----------------------------------------------------------------------------
(* What the steps of a caller have in common: it alone moves.              *)
LEMMA CallerMoves ==
  ASSUME IInv, NEW c \in Callers, NEW s \in Where, NEW j \in Jobs, Fits(s, j),
         s = "disk" => disk, disk' = disk, Go(c, s), job' = [job EXCEPT ![c] = j]
  PROVE  /\ InHand' /\ pc'[c] = s /\ job'[c] = j
         /\ \A d \in Callers : d # c => pc'[d] = pc[d] /\ job'[d] = job[d]
BY DEF IInv, InHand, Go

LEMMA Counting ==
  ASSUME IInv, NEW c \in Callers, NEW s \in Where, Go(c, s), home' = home, NEW p \in Processes, NEW x
  PROVE  /\ Looking(p, x) \in Nat /\ Looking(p, x)' \in Nat
         /\ p # home[c] => Looking(p, x)' = Looking(p, x)
         /\ p = home[c] /\ pc[c] # x /\ s # x => Looking(p, x)' = Looking(p, x)
         /\ p = home[c] /\ pc[c] # x /\ s = x => Looking(p, x)' = Looking(p, x) + 1
         /\ p = home[c] /\ pc[c] = x /\ s # x => Looking(p, x)' = Looking(p, x) - 1
<1> DEFINE L == {d \in Callers : home[d] = p /\ pc[d] = x}
<1>1. /\ pc'[c] = s /\ \A d \in Callers : d # c => pc'[d] = pc[d]
  BY DEF Go, IInv, InHand
<1>2. L \subseteq Callers /\ L' \subseteq Callers
  OBVIOUS
<1>3. /\ \A d \in Callers : d # c => (d \in L' <=> d \in L)
      /\ c \in L <=> home[c] = p /\ pc[c] = x
      /\ c \in L' <=> home[c] = p /\ s = x
  BY <1>1
<1>4. Looking(p, x) = Cardinality(L) /\ Looking(p, x)' = Cardinality(L')
  BY DEF Looking
<1> HIDE DEF L
<1>5. /\ IsFiniteSet(L) /\ IsFiniteSet(L') /\ Cardinality(L) \in Nat /\ Cardinality(L') \in Nat
  <2>1. IsFiniteSet(Callers)
    BY QueriesAssumption
  <2>2. IsFiniteSet(L) /\ IsFiniteSet(L')
    BY <1>2, <2>1, FS_Subset
  <2> QED
    BY <2>2, FS_CardinalityType
<1>6. CASE p # home[c] \/ (pc[c] # x /\ s # x)
  <2>1. L' = L
    BY <1>2, <1>3, <1>6
  <2> QED
    BY <1>4, <1>5, <1>6, <2>1
<1>7. CASE p = home[c] /\ pc[c] # x /\ s = x
  <2>1. L' = L \union {c} /\ c \notin L
    BY <1>2, <1>3, <1>7
  <2>2. Cardinality(L') = Cardinality(L) + 1
    BY <1>5, <2>1, FS_AddElement
  <2> QED
    BY <1>4, <1>5, <1>7, <2>2
<1>8. CASE p = home[c] /\ pc[c] = x /\ s # x
  <2>1. L' = L \ {c} /\ c \in L
    BY <1>2, <1>3, <1>8
  <2>2. Cardinality(L') = Cardinality(L) - 1
    BY <1>5, <2>1, FS_RemoveElement
  <2> QED
    BY <1>4, <1>5, <1>8, <2>2
<1>9. CASE p = home[c] /\ pc[c] = x /\ s = x
  <2>1. L' = L
    BY <1>2, <1>3, <1>9
  <2> QED
    BY <1>4, <1>5, <1>9, <2>1
<1> QED
  BY <1>6, <1>7, <1>8, <1>9

(* What a process counts, while one of its callers moves.                  *)
Sums(p) ==
  LET s == stats[p] IN
  /\ s.asked = s.h1 + s.m1
  /\ IF disk THEN s.m1 = s.h2 + s.m2 + Looking(p, "disk") ELSE s.h2 + s.m2 = 0
  /\ (IF disk THEN s.m2 ELSE s.m1) = s.h3 + s.m3 + Looking(p, "atlas")

LEMMA Counted ==
  ASSUME IInv, NEW c \in Callers, NEW s \in Where, Go(c, s), UNCHANGED <<cfg, crashes>>,
         \/ UNCHANGED stats /\ pc[c] \notin {"disk", "atlas"} /\ s \notin {"disk", "atlas"}
         \/ Tally(home[c], {"asked", "h1"}) /\ pc[c] \notin {"disk", "atlas"} /\ s \notin {"disk", "atlas"}
         \/ Tally(home[c], {"asked", "m1"}) /\ pc[c] \notin {"disk", "atlas"} /\ s = AfterMemory
         \/ Tally(home[c], {"m2"}) /\ pc[c] = "disk" /\ s = "atlas" /\ disk
         \/ Tally(home[c], {"h2"}) /\ pc[c] = "disk" /\ s \notin {"disk", "atlas"} /\ disk
         \/ Tally(home[c], {"h3"}) /\ pc[c] = "atlas" /\ s \notin {"disk", "atlas"}
         \/ Tally(home[c], {"m3"}) /\ pc[c] = "atlas" /\ s \notin {"disk", "atlas"}
  PROVE  Counts'
<1>1. /\ stats \in [Processes -> [Fields -> Nat]] /\ crashes' = crashes /\ crashes \in Nat
      /\ disk' = disk /\ home' = home /\ disk \in BOOLEAN /\ home[c] \in Processes
      /\ \A p \in Processes : Sums(p)
  BY DEF cfg, IInv, Counts, Levels, StatsAddUp, Sums
<1>2. ASSUME NEW names, Tally(home[c], names)
      PROVE  /\ stats' \in [Processes -> [Fields -> Nat]]
             /\ \A p \in Processes : p # home[c] => stats'[p] = stats[p]
             /\ \A f \in Fields : stats'[home[c]][f] = stats[home[c]][f] + IF f \in names THEN 1 ELSE 0
  <2> DEFINE n == [f \in DOMAIN stats[home[c]] |-> stats[home[c]][f] + IF f \in names THEN 1 ELSE 0]
  <2>1. n \in [Fields -> Nat] /\ \A f \in Fields : n[f] = stats[home[c]][f] + IF f \in names THEN 1 ELSE 0
    BY <1>1
  <2>2. stats' = [stats EXCEPT ![home[c]] = n]
    BY <1>2 DEF Tally
  <2> HIDE DEF n
  <2> QED
    BY <1>1, <2>1, <2>2
<1>3. stats' \in [Processes -> [Fields -> Nat]] /\ \A p \in Processes : p # home[c] => stats'[p] = stats[p]
  BY <1>1, <1>2
<1>4. ASSUME NEW p \in Processes, p # home[c] PROVE Sums(p)'
  <2>1. Looking(p, "disk")' = Looking(p, "disk") /\ Looking(p, "atlas")' = Looking(p, "atlas")
    BY <1>1, <1>4, Counting
  <2> QED
    BY <1>1, <1>3, <1>4, <2>1 DEF Sums
<1>5. ASSUME NEW p \in Processes, p = home[c] PROVE Sums(p)'
  <2> DEFINE D == Looking(p, "disk")
             A == Looking(p, "atlas")
  <2>1. D \in Nat /\ A \in Nat /\ D' \in Nat /\ A' \in Nat /\ Sums(p)
    BY <1>1, Counting
  <2>2. /\ pc[c] # "disk" /\ s # "disk" => D' = D
        /\ pc[c] # "disk" /\ s = "disk" => D' = D + 1
        /\ pc[c] = "disk" /\ s # "disk" => D' = D - 1
        /\ pc[c] # "atlas" /\ s # "atlas" => A' = A
        /\ pc[c] # "atlas" /\ s = "atlas" => A' = A + 1
        /\ pc[c] = "atlas" /\ s # "atlas" => A' = A - 1
    BY <1>1, <1>5, Counting
  <2>3. Sums(p) <=>
          /\ stats[p].asked = stats[p].h1 + stats[p].m1
          /\ IF disk THEN stats[p].m1 = stats[p].h2 + stats[p].m2 + D ELSE stats[p].h2 + stats[p].m2 = 0
          /\ (IF disk THEN stats[p].m2 ELSE stats[p].m1) = stats[p].h3 + stats[p].m3 + A
    BY DEF Sums
  <2>4. Sums(p)' <=>
          /\ stats'[p].asked = stats'[p].h1 + stats'[p].m1
          /\ IF disk THEN stats'[p].m1 = stats'[p].h2 + stats'[p].m2 + D' ELSE stats'[p].h2 + stats'[p].m2 = 0
          /\ (IF disk THEN stats'[p].m2 ELSE stats'[p].m1) = stats'[p].h3 + stats'[p].m3 + A'
    BY <1>1, <2>1 DEF Sums
  <2>5. \A f \in Fields : stats[p][f] \in Nat /\ stats'[p][f] \in Nat
    BY <1>1, <1>3
  <2> HIDE DEF D, A, Sums
  <2>6. /\ stats[p].asked \in Nat /\ stats[p].h1 \in Nat /\ stats[p].m1 \in Nat /\ stats[p].h2 \in Nat
        /\ stats[p].m2 \in Nat /\ stats[p].h3 \in Nat /\ stats[p].m3 \in Nat
    BY <2>5 DEF Fields
  <2>7. ASSUME NEW names, Tally(home[c], names)
        PROVE  /\ stats'[p].asked = stats[p].asked + IF "asked" \in names THEN 1 ELSE 0
               /\ stats'[p].h1 = stats[p].h1 + IF "h1" \in names THEN 1 ELSE 0
               /\ stats'[p].m1 = stats[p].m1 + IF "m1" \in names THEN 1 ELSE 0
               /\ stats'[p].h2 = stats[p].h2 + IF "h2" \in names THEN 1 ELSE 0
               /\ stats'[p].m2 = stats[p].m2 + IF "m2" \in names THEN 1 ELSE 0
               /\ stats'[p].h3 = stats[p].h3 + IF "h3" \in names THEN 1 ELSE 0
               /\ stats'[p].m3 = stats[p].m3 + IF "m3" \in names THEN 1 ELSE 0
    BY <1>2, <1>5, <2>7 DEF Fields
  <2>8. CASE UNCHANGED stats /\ pc[c] \notin {"disk", "atlas"} /\ s \notin {"disk", "atlas"}
    BY <2>1, <2>2, <2>3, <2>4, <2>8
  <2>9. CASE Tally(home[c], {"asked", "h1"}) /\ pc[c] \notin {"disk", "atlas"} /\ s \notin {"disk", "atlas"}
    <3>1. /\ stats'[p].asked = stats[p].asked + 1 /\ stats'[p].h1 = stats[p].h1 + 1 /\ stats'[p].m1 = stats[p].m1
          /\ stats'[p].h2 = stats[p].h2 /\ stats'[p].m2 = stats[p].m2
          /\ stats'[p].h3 = stats[p].h3 /\ stats'[p].m3 = stats[p].m3
      BY <2>6, <2>7, <2>9
    <3> QED
      BY <2>1, <2>2, <2>3, <2>4, <2>6, <2>9, <3>1
  <2>10. CASE Tally(home[c], {"asked", "m1"}) /\ pc[c] \notin {"disk", "atlas"} /\ s = AfterMemory
    <3>1. /\ stats'[p].asked = stats[p].asked + 1 /\ stats'[p].h1 = stats[p].h1 /\ stats'[p].m1 = stats[p].m1 + 1
          /\ stats'[p].h2 = stats[p].h2 /\ stats'[p].m2 = stats[p].m2
          /\ stats'[p].h3 = stats[p].h3 /\ stats'[p].m3 = stats[p].m3
      BY <2>6, <2>7, <2>10
    <3>2. CASE disk
      <4>1. s = "disk"
        BY <2>10, <3>2 DEF AfterMemory
      <4> QED
        BY <2>1, <2>2, <2>3, <2>4, <2>6, <2>10, <3>1, <3>2, <4>1
    <3>3. CASE ~disk
      <4>1. s = "atlas"
        BY <2>10, <3>3 DEF AfterMemory
      <4> QED
        BY <2>1, <2>2, <2>3, <2>4, <2>6, <2>10, <3>1, <3>3, <4>1
    <3> QED
      BY <3>2, <3>3
  <2>11. CASE Tally(home[c], {"m2"}) /\ pc[c] = "disk" /\ s = "atlas" /\ disk
    <3>1. /\ stats'[p].asked = stats[p].asked /\ stats'[p].h1 = stats[p].h1 /\ stats'[p].m1 = stats[p].m1
          /\ stats'[p].h2 = stats[p].h2 /\ stats'[p].m2 = stats[p].m2 + 1
          /\ stats'[p].h3 = stats[p].h3 /\ stats'[p].m3 = stats[p].m3
      BY <2>6, <2>7, <2>11
    <3> QED
      BY <2>1, <2>2, <2>3, <2>4, <2>6, <2>11, <3>1
  <2>12. CASE Tally(home[c], {"h2"}) /\ pc[c] = "disk" /\ s \notin {"disk", "atlas"} /\ disk
    <3>1. /\ stats'[p].asked = stats[p].asked /\ stats'[p].h1 = stats[p].h1 /\ stats'[p].m1 = stats[p].m1
          /\ stats'[p].h2 = stats[p].h2 + 1 /\ stats'[p].m2 = stats[p].m2
          /\ stats'[p].h3 = stats[p].h3 /\ stats'[p].m3 = stats[p].m3
      BY <2>6, <2>7, <2>12
    <3> QED
      BY <2>1, <2>2, <2>3, <2>4, <2>6, <2>12, <3>1
  <2>13. CASE Tally(home[c], {"h3"}) /\ pc[c] = "atlas" /\ s \notin {"disk", "atlas"}
    <3>1. /\ stats'[p].asked = stats[p].asked /\ stats'[p].h1 = stats[p].h1 /\ stats'[p].m1 = stats[p].m1
          /\ stats'[p].h2 = stats[p].h2 /\ stats'[p].m2 = stats[p].m2
          /\ stats'[p].h3 = stats[p].h3 + 1 /\ stats'[p].m3 = stats[p].m3
      BY <2>6, <2>7, <2>13
    <3> QED
      BY <2>1, <2>2, <2>3, <2>4, <2>6, <2>13, <3>1
  <2>14. CASE Tally(home[c], {"m3"}) /\ pc[c] = "atlas" /\ s \notin {"disk", "atlas"}
    <3>1. /\ stats'[p].asked = stats[p].asked /\ stats'[p].h1 = stats[p].h1 /\ stats'[p].m1 = stats[p].m1
          /\ stats'[p].h2 = stats[p].h2 /\ stats'[p].m2 = stats[p].m2
          /\ stats'[p].h3 = stats[p].h3 /\ stats'[p].m3 = stats[p].m3 + 1
      BY <2>6, <2>7, <2>14
    <3> QED
      BY <2>1, <2>2, <2>3, <2>4, <2>6, <2>14, <3>1
  <2> QED
    BY <2>8, <2>9, <2>10, <2>11, <2>12, <2>13, <2>14
<1>6. \A p \in Processes : Sums(p)'
  BY <1>4, <1>5
<1> QED
  BY <1>1, <1>3, <1>6 DEF Counts, StatsAddUp, Sums

LEMMA FreshKept ==
  ASSUME IInv, NEW c \in Callers, fresh' \subseteq fresh \union {c},
         \A d \in Callers : d # c => pc'[d] = pc[d] /\ job'[d] = job[d],
         \A q \in Questions : atlas[q] # None => atlas'[q] # None,
         c \in fresh' => /\ pc'[c] \notin {"match", "validate", "llm", "check"}
                         /\ pc'[c] \in {"disk", "atlas"} => atlas'[job'[c].q] # None
  PROVE  Fresh'
<1>1. \A d \in Callers : pc[d] \in {"disk", "atlas"} => job[d].q \in Questions
  BY DEF IInv, InHand, Fits
<1>2. \A d \in fresh' : d # c => d \in fresh /\ d \in Callers
  BY DEF IInv, Fresh
<1>3. \A d \in fresh' : pc'[d] \notin {"match", "validate", "llm", "check"}
  BY <1>2 DEF IInv, Fresh, PaidOnce
<1>4. \A d \in fresh' : pc'[d] \in {"disk", "atlas"} => atlas'[job'[d].q] # None
  BY <1>1, <1>2 DEF IInv, Fresh
<1> QED
  BY <1>2, <1>3, <1>4 DEF IInv, Fresh, PaidOnce

(* A caller goes on, and the levels stay as they are.                      *)
LEMMA GoesOn ==
  ASSUME IInv, NEW c \in Callers, NEW s \in Where, NEW j \in Jobs, Fits(s, j),
         s # "disk", Go(c, s), job' = [job EXCEPT ![c] = j], UNCHANGED <<cfg, levels>>,
         fresh' \subseteq fresh,
         c \in fresh' => /\ s \notin {"match", "validate", "llm", "check"}
                         /\ s = "atlas" => pc[c] \in {"disk", "atlas"} /\ j.q = job[c].q,
         Counts'
  PROVE  IInv'
<1>1. /\ InHand' /\ pc'[c] = s /\ job'[c] = j
      /\ \A d \in Callers : d # c => pc'[d] = pc[d] /\ job'[d] = job[d]
  BY CallerMoves DEF cfg
<1>2. Fresh'
  <2>1. c \in fresh' /\ s = "atlas" => atlas[j.q] # None
    BY DEF IInv, Fresh
  <2>2. atlas' = atlas
    BY DEF levels
  <2> QED
    BY <1>1, <2>1, <2>2, FreshKept
<1>3. Levels' /\ Memory'
  BY DEF cfg, levels, IInv, Levels, Memory
<1> QED
  BY <1>1, <1>2, <1>3 DEF IInv

(* What a caller has in hand, field by field.                              *)
LEMMA Hand ==
  ASSUME IInv, NEW c \in Callers
  PROVE  /\ job[c] \in Jobs /\ pc[c] \in Where /\ Fits(pc[c], job[c]) /\ home[c] \in Processes
         /\ pc[c] = "disk" => disk
         /\ job = [job EXCEPT ![c] = job[c]]
BY DEF IInv, InHand, Levels

LEMMA StandsStill == ASSUME IInv, UNCHANGED vars PROVE IInv'
<1>1. Levels' /\ Memory' /\ InHand'
  BY DEF vars, cfg, levels, IInv, Levels, Memory, InHand
<1>2. Fresh'
  BY DEF vars, levels, IInv, Fresh, PaidOnce
<1>3. Counts'
  BY DEF vars, cfg, IInv, Counts, StatsAddUp, Looking
<1> QED
  BY <1>1, <1>2, <1>3 DEF IInv

LEMMA NewJob ==
  ASSUME NEW q \in Questions
  PROVE  /\ [NoJob EXCEPT !.q = q] \in Jobs /\ [NoJob EXCEPT !.q = q].q = q
         /\ \A e \in Valid : /\ [NoJob EXCEPT !.q = q, !.entry = e] \in Jobs
                             /\ [NoJob EXCEPT !.q = q, !.entry = e].q = q
                             /\ [NoJob EXCEPT !.q = q, !.entry = e].entry = e
BY DEF NoJob, Jobs, Valid

(* What one process uses or stores last is the newest of its entries.      *)
LEMMA MemoryKept ==
  ASSUME IInv, NEW p \in Processes, NEW q \in Questions, NEW u \in Seq(Valid),
         Len(u) <= MaxSize, Once(u), Len(u) > 0, u[Len(u)].q = q,
         memory' = [memory EXCEPT ![p] = u], used' = [used EXCEPT ![p] = q]
  PROVE  Memory'
<1>1. /\ memory' \in [Processes -> Seq(Valid)] /\ used' \in [Processes -> Questions \union {None}]
      /\ memory'[p] = u /\ used'[p] = q
      /\ \A r \in Processes : r # p => memory'[r] = memory[r] /\ used'[r] = used[r]
  BY DEF IInv, Memory
<1>2. ASSUME NEW r \in Processes
      PROVE  /\ Len(memory'[r]) <= MaxSize /\ Once(memory'[r])
             /\ used'[r] # None => Len(memory'[r]) > 0 /\ memory'[r][Len(memory'[r])].q = used'[r]
  <2>1. CASE r = p
    BY <1>1, <2>1
  <2>2. CASE r # p
    BY <1>1, <2>2 DEF IInv, Memory
  <2> QED
    BY <2>1, <2>2
<1> QED
  BY <1>1, <1>2 DEF Memory

LEMMA AskStep ==
  ASSUME IInv, NEW c \in Callers, NEW q \in Questions, Ask(c, q)
  PROVE  IInv'
<1> DEFINE p == home[c]
           s == memory[p]
           hit == s[Place(s, q)]
<1>1. /\ p \in Processes /\ pc[c] \in {"idle", "ok", "failed", "gone"}
      /\ fresh' = (IF atlas[q] # None THEN fresh \union {c} ELSE fresh \ {c})
      /\ UNCHANGED <<disk, home, files, mixed, atlas, crashes>>
  BY Hand DEF Ask, cfg
<1>2. s \in Seq(Valid) /\ Len(s) <= MaxSize /\ Once(s)
  BY <1>1 DEF IInv, Memory
<1>3. Levels'
  BY <1>1 DEF IInv, Levels
<1>4. CASE Has(s, q)
  <2> DEFINE j == [NoJob EXCEPT !.q = q, !.entry = hit]
  <2>1. hit \in Valid /\ hit.q = q
    <3>1. Place(s, q) \in DOMAIN s /\ s[Place(s, q)].q = q
      BY <1>4 DEF Has, Place
    <3> QED
      BY <1>2, <3>1
  <2>2. /\ Go(c, "ok") /\ job' = [job EXCEPT ![c] = j] /\ Tally(p, {"asked", "h1"})
        /\ memory' = [memory EXCEPT ![p] = Touch(s, hit)] /\ used' = [used EXCEPT ![p] = q]
    BY <1>4 DEF Ask
  <2> DEFINE u == Touch(s, hit)
  <2>3. u \in Seq(Valid) /\ Len(u) = Len(s) /\ Once(u) /\ u[Len(u)] = hit /\ Len(s) > 0
    <3>1. Has(s, hit.q)
      BY <1>4, <2>1
    <3>2. Len(s) > 0
      BY <1>2, <1>4 DEF Has
    <3> QED
      BY <1>2, <2>1, <3>1, <3>2, Touched
  <2> HIDE DEF hit, s, u
  <2>4. Memory'
    <3>1. memory' = [memory EXCEPT ![p] = u]
      BY <2>2 DEF u
    <3> HIDE DEF p
    <3> QED
      BY <1>1, <1>2, <2>1, <2>2, <2>3, <3>1, MemoryKept
  <2>5. j \in Jobs /\ j.q = q /\ j.entry = hit
    BY <2>1, NewJob
  <2> HIDE DEF j
  <2>6. Fits("ok", j) /\ "ok" \in Where
    BY <2>1, <2>5 DEF Fits, Where
  <2>7. /\ InHand' /\ pc'[c] = "ok"
        /\ \A d \in Callers : d # c => pc'[d] = pc[d] /\ job'[d] = job[d]
    BY <1>1, <2>2, <2>5, <2>6, CallerMoves
  <2>8. Fresh'
    <3>1. fresh' \subseteq fresh \union {c}
      BY <1>1
    <3> QED
      BY <1>1, <2>7, <3>1, FreshKept
  <2>9. Counts'
    BY <1>1, <2>2, <2>6, Counted DEF cfg
  <2> QED
    BY <1>3, <2>4, <2>7, <2>8, <2>9 DEF IInv
<1>5. CASE ~Has(s, q)
  <2> DEFINE j == [NoJob EXCEPT !.q = q]
             w == AfterMemory
  <2>1. /\ Go(c, w) /\ job' = [job EXCEPT ![c] = j] /\ Tally(p, {"asked", "m1"})
        /\ UNCHANGED <<memory, used>>
    BY <1>5 DEF Ask
  <2>2. w \in {"disk", "atlas"} /\ w \in Where
    BY DEF AfterMemory, Where
  <2>3. Memory'
    BY <2>1 DEF IInv, Memory
  <2>4. j \in Jobs /\ j.q = q
    BY NewJob
  <2>9. Counts'
    BY <1>1, <2>1, <2>2, Counted DEF cfg
  <2>10. \E v \in Where : v = w
    BY <2>2
  <2> HIDE DEF j
  <2>5. PICK v \in {"disk", "atlas"} : v = w
    BY <2>2
  <2>6. Fits(v, j) /\ v \in Where /\ Go(c, v) /\ (v = "disk" => disk) /\ disk' = disk
    BY <1>1, <2>1, <2>2, <2>4, <2>5 DEF Fits, AfterMemory
  <2>7. /\ InHand' /\ pc'[c] = v /\ job'[c] = j
        /\ \A d \in Callers : d # c => pc'[d] = pc[d] /\ job'[d] = job[d]
    BY <2>1, <2>4, <2>6, CallerMoves
  <2>8. Fresh'
    <3>1. fresh' \subseteq fresh \union {c} /\ (c \in fresh' => atlas[q] # None)
      BY <1>1
    <3>2. c \in fresh' => atlas'[job'[c].q] # None
      BY <1>1, <2>4, <2>7, <3>1
    <3> QED
      BY <1>1, <2>7, <3>1, <3>2, FreshKept
  <2> QED
    BY <1>3, <2>3, <2>7, <2>8, <2>9 DEF IInv
<1> QED
  BY <1>4, <1>5

(* What is found is a validated entry of the question.                     *)
LEMMA FoundJob ==
  ASSUME IInv, NEW c \in Callers, NEW e \in Valid, e.q = job[c].q,
         NEW last \in {"memory", "disk"}, Found(c, e, last)
  PROVE  \E j \in Jobs : /\ Fits("memory", j) /\ Go(c, "memory")
                         /\ job' = [job EXCEPT ![c] = j]
<1> DEFINE j == [job[c] EXCEPT !.entry = e, !.last = last]
<1>1. job[c] \in Jobs /\ e.q \in Questions /\ e \in Entries
  BY Hand, EntryIsSome DEF Valid
<1>2. j \in Jobs /\ j.q = job[c].q /\ j.entry = e
  BY <1>1 DEF Jobs
<1>3. job' = [job EXCEPT ![c] = j] /\ Go(c, "memory")
  BY DEF Found
<1> HIDE DEF j
<1>4. Fits("memory", j)
  BY <1>1, <1>2 DEF Fits
<1> QED
  BY <1>2, <1>3, <1>4

LEMMA LookOnDiskStep ==
  ASSUME IInv, NEW c \in Callers, LookOnDisk(c)
  PROVE  IInv'
<1> DEFINE e == files[home[c]][job[c].q]
<1>1. /\ pc[c] = "disk" /\ disk /\ job[c].q \in Questions /\ home[c] \in Processes /\ job[c] \in Jobs
      /\ UNCHANGED <<cfg, levels, fresh, crashes>>
  BY Hand DEF LookOnDisk, Fits
<1>2. e \in Valid \union {None, Torn} /\ (e \notin {None, Torn} => e.q = job[c].q)
  BY <1>1 DEF IInv, Levels
<1>3. CASE e \in {None, Torn}
  <2>1. Go(c, "atlas") /\ Tally(home[c], {"m2"}) /\ UNCHANGED job
    BY <1>3 DEF LookOnDisk
  <2>2. job' = [job EXCEPT ![c] = job[c]] /\ Fits("atlas", job[c]) /\ "atlas" \in Where
    BY <1>1, <2>1, Hand DEF Fits, Where
  <2>3. Counts'
    BY <1>1, <2>1, <2>2, Counted
  <2> QED
    BY <1>1, <2>1, <2>2, <2>3, GoesOn
<1>4. CASE e \notin {None, Torn}
  <2>1. Found(c, e, "memory") /\ Tally(home[c], {"h2"})
    BY <1>4 DEF LookOnDisk
  <2>2. PICK j \in Jobs : Fits("memory", j) /\ Go(c, "memory") /\ job' = [job EXCEPT ![c] = j]
    BY <1>2, <1>4, <2>1, FoundJob
  <2>3. "memory" \in Where
    BY DEF Where
  <2>4. Counts'
    BY <1>1, <2>1, <2>2, <2>3, Counted
  <2> QED
    BY <1>1, <2>2, <2>3, <2>4, GoesOn
<1> QED
  BY <1>3, <1>4

LEMMA LookInAtlasStep ==
  ASSUME IInv, NEW c \in Callers, LookInAtlas(c)
  PROVE  IInv'
<1> DEFINE e == atlas[job[c].q]
<1>1. /\ pc[c] = "atlas" /\ job[c].q \in Questions /\ home[c] \in Processes /\ job[c] \in Jobs
      /\ UNCHANGED <<cfg, levels, crashes>>
  BY Hand DEF LookInAtlas, Fits
<1>2. e \in Valid \union {None} /\ (e # None => e.q = job[c].q)
  BY <1>1 DEF IInv, Levels
<1>3. "memory" \in Where /\ "match" \in Where
  BY DEF Where
<1>4. CASE e # None /\ Found(c, e, "disk") /\ Tally(home[c], {"h3"}) /\ UNCHANGED fresh
  <2>1. PICK j \in Jobs : Fits("memory", j) /\ Go(c, "memory") /\ job' = [job EXCEPT ![c] = j]
    BY <1>2, <1>4, FoundJob
  <2>2. Counts'
    BY <1>1, <1>3, <1>4, <2>1, Counted
  <2> QED
    BY <1>1, <1>3, <1>4, <2>1, <2>2, GoesOn
<1>5. ASSUME Go(c, "match"), Tally(home[c], {"m3"}), UNCHANGED job, fresh' \subseteq fresh, c \notin fresh'
      PROVE  IInv'
  <2>1. job' = [job EXCEPT ![c] = job[c]] /\ Fits("match", job[c])
    BY <1>1, <1>5, Hand DEF Fits
  <2>2. Counts'
    BY <1>1, <1>3, <1>5, Counted
  <2> QED
    BY <1>1, <1>3, <1>5, <2>1, <2>2, GoesOn
<1>6. CASE e = None /\ Go(c, "match") /\ Tally(home[c], {"m3"}) /\ UNCHANGED <<job, fresh>>
  <2>1. c \notin fresh
    BY <1>1, <1>6 DEF IInv, Fresh
  <2> QED
    BY <1>5, <1>6, <2>1
<1>7. CASE Go(c, "match") /\ Tally(home[c], {"m3"}) /\ fresh' = fresh \ {c} /\ UNCHANGED job
  BY <1>5, <1>7
<1> QED
  BY <1>4, <1>6, <1>7 DEF LookInAtlas

(* The steps from a miss to a new query, which leave the levels alone.     *)
LEMMA TranslatingSteps ==
  ASSUME IInv, NEW c \in Callers, Match(c) \/ Answer(c) \/ Validate(c) \/ Check(c)
  PROVE  IInv'
<1>1. /\ pc[c] \in {"match", "llm", "validate", "check"} /\ UNCHANGED <<cfg, levels, fresh, stats, crashes>>
      /\ c \notin fresh
  <2>1. pc[c] \in {"match", "llm", "validate", "check"} /\ UNCHANGED <<cfg, levels, fresh, stats, crashes>>
    BY DEF Match, Answer, Validate, Check
  <2> QED
    BY <2>1 DEF IInv, Fresh, PaidOnce
<1>2. job[c] \in Jobs /\ job[c].q \in Questions /\ job = [job EXCEPT ![c] = job[c]]
  BY <1>1, Hand DEF Fits
<1>3. ASSUME NEW s \in {"llm", "validate", "failed", "check", "memory"}, NEW j \in Jobs, Fits(s, j),
             Go(c, s), job' = [job EXCEPT ![c] = j]
      PROVE  IInv'
  <2>1. s \in Where /\ s \notin {"disk", "atlas"}
    BY DEF Where
  <2>2. Counts'
    BY <1>1, <1>3, <2>1, Counted
  <2> QED
    BY <1>1, <1>3, <2>1, <2>2, GoesOn
<1>4. CASE Match(c)
  <2>1. CASE Go(c, "llm") /\ UNCHANGED job
    <3>1. Fits("llm", job[c])
      BY <1>2 DEF Fits
    <3> QED
      BY <1>2, <1>3, <2>1, <3>1
  <2>2. CASE ~(Go(c, "llm") /\ UNCHANGED job)
    <3>1. PICK i \in DOMAIN registry[home[c]] :
            /\ Matches(registry[home[c]][i], job[c].q) /\ Go(c, "validate")
            /\ job' = [job EXCEPT ![c].entry =
                 [Entry(job[c].q, "template", job[c].q \in registry[home[c]][i].good)
                    EXCEPT !.scope = registry[home[c]][i].scope]]
      BY <1>4, <2>2 DEF Match
    <3> DEFINE v == job[c].q \in registry[home[c]][i].good
               e == [Entry(job[c].q, "template", v) EXCEPT !.scope = registry[home[c]][i].scope]
               j == [job[c] EXCEPT !.entry = e]
    <3>2. registry[home[c]][i].scope = Scope[job[c].q] /\ v \in BOOLEAN
      BY <3>1 DEF Matches
    <3>3. e \in Entries /\ e.q = job[c].q
      <4>1. e = [Entry(job[c].q, "template", v) EXCEPT !.scope = Scope[job[c].q]]
        BY <3>2
      <4> HIDE DEF e, v
      <4> QED
        BY <1>2, <3>2, <4>1, EntryMade
    <3>4. job' = [job EXCEPT ![c] = j]
      BY <3>1
    <3> HIDE DEF e, v
    <3>5. j \in Jobs /\ j.q = job[c].q /\ j.entry = e
      BY <1>2, <3>3 DEF Jobs
    <3> HIDE DEF j
    <3>6. Fits("validate", j)
      BY <1>2, <3>3, <3>5 DEF Fits
    <3> QED
      BY <1>3, <3>1, <3>4, <3>5, <3>6
  <2> QED
    BY <2>1, <2>2
<1>5. CASE Answer(c)
  <2>1. CASE Go(c, "failed") /\ UNCHANGED job
    <3>1. Fits("failed", job[c])
      BY <1>2 DEF Fits
    <3> QED
      BY <1>2, <1>3, <2>1, <3>1
  <2>2. CASE ~(Go(c, "failed") /\ UNCHANGED job)
    <3>1. PICK v \in BOOLEAN, t \in {None} \union {u \in Templates : job[c].q \in u.covers} :
            /\ job' = [job EXCEPT ![c].entry = Entry(job[c].q, "llm", v), ![c].template = t]
            /\ Go(c, "check")
      BY <1>5, <2>2 DEF Answer
    <3> DEFINE e == Entry(job[c].q, "llm", v)
               j == [job[c] EXCEPT !.entry = e, !.template = t]
    <3>2. e \in Entries /\ e.q = job[c].q
      BY <1>2, EntryMade
    <3>3. job' = [job EXCEPT ![c] = j]
      BY <3>1
    <3> HIDE DEF e
    <3>4. j \in Jobs /\ j.q = job[c].q /\ j.entry = e
      BY <1>2, <3>2 DEF Jobs
    <3> HIDE DEF j
    <3>5. Fits("check", j)
      BY <1>2, <3>2, <3>4 DEF Fits
    <3> QED
      BY <1>3, <3>1, <3>3, <3>4, <3>5
  <2> QED
    BY <2>1, <2>2
<1>6. CASE Validate(c)
  <2> DEFINE j == [job[c] EXCEPT !.last = "atlas"]
  <2>1. /\ pc[c] = "validate" /\ job' = [job EXCEPT ![c] = j]
        /\ Go(c, IF job[c].entry.valid THEN "memory" ELSE "failed")
    BY <1>6 DEF Validate
  <2>2. job[c].entry \in Entries /\ job[c].entry.q = job[c].q
    BY <2>1, Hand DEF Fits
  <2>3. j \in Jobs /\ j.q = job[c].q /\ j.entry = job[c].entry
    BY <1>2 DEF Jobs
  <2> HIDE DEF j
  <2>4. CASE job[c].entry.valid
    <3>1. Fits("memory", j) /\ Go(c, "memory")
      BY <1>2, <2>1, <2>2, <2>3, <2>4 DEF Fits, Valid
    <3> QED
      BY <1>3, <2>1, <2>3, <3>1
  <2>5. CASE ~job[c].entry.valid
    <3>1. Fits("failed", j) /\ Go(c, "failed")
      BY <1>2, <2>1, <2>3, <2>5 DEF Fits
    <3> QED
      BY <1>3, <2>1, <2>3, <3>1
  <2> QED
    BY <2>4, <2>5
<1>7. CASE Check(c)
  <2>1. pc[c] = "check"
    BY <1>7 DEF Check
  <2>2. job[c].entry \in Entries /\ job[c].entry.q = job[c].q
    BY <2>1, Hand DEF Fits
  <2>3. CASE job[c].entry.valid
    <3> DEFINE j == [job[c] EXCEPT !.last = "atlas", !.template = None]
    <3>1. job' = [job EXCEPT ![c] = j] /\ Go(c, "memory")
      BY <1>7, <2>3 DEF Check
    <3>2. j \in Jobs /\ j.q = job[c].q /\ j.entry = job[c].entry
      BY <1>2 DEF Jobs
    <3> HIDE DEF j
    <3>3. Fits("memory", j)
      BY <1>2, <2>2, <2>3, <3>2 DEF Fits, Valid
    <3> QED
      BY <1>3, <3>1, <3>2, <3>3
  <2>4. CASE ~job[c].entry.valid
    <3> DEFINE j == [job[c] EXCEPT !.template = None]
    <3>1. job' = [job EXCEPT ![c] = j] /\ Go(c, "failed")
      BY <1>7, <2>4 DEF Check
    <3>2. j \in Jobs /\ j.q = job[c].q
      BY <1>2 DEF Jobs
    <3> HIDE DEF j
    <3>3. Fits("failed", j)
      BY <1>2, <3>2 DEF Fits
    <3> QED
      BY <1>3, <3>1, <3>2, <3>3
  <2> QED
    BY <2>3, <2>4
<1> QED
  BY <1>4, <1>5, <1>6, <1>7

-----------------------------------------------------------------------------
(* Stores.  The entry is the answer to the question in hand, so that each  *)
(* level stays as it should be wherever the caller stops.                  *)
LEMMA StoreMemoryStep ==
  ASSUME IInv, NEW c \in Callers, StoreMemory(c)
  PROVE  IInv'
<1> DEFINE p == home[c]
           s == memory[p]
           e == job[c].entry
           u == Store(s, e)
<1>1. /\ pc[c] = "memory" /\ p \in Processes /\ job[c] \in Jobs /\ job[c].q \in Questions
      /\ e \in Valid /\ e.q = job[c].q
      /\ UNCHANGED <<cfg, files, mixed, atlas, job, fresh, stats, crashes>>
      /\ memory' = [memory EXCEPT ![p] = u] /\ used' = [used EXCEPT ![p] = job[c].q]
  BY Hand DEF StoreMemory, Fits
<1>2. PICK v \in {"ok", "open", "upsert"} : Go(c, v)
  BY DEF StoreMemory
<1>3. v \in Where /\ v \notin {"disk", "atlas"} /\ Fits(v, job[c]) /\ job' = [job EXCEPT ![c] = job[c]]
  BY <1>1, <1>2, Hand DEF Where, Fits
<1>4. u \in Seq(Valid) /\ Len(u) <= MaxSize /\ Once(u) /\ Len(u) > 0 /\ u[Len(u)].q = job[c].q
  <2>1. s \in Seq(Valid) /\ Len(s) <= MaxSize /\ Once(s)
    BY <1>1 DEF IInv, Memory
  <2> HIDE DEF s, e
  <2> QED
    BY <1>1, <2>1, StoredOf
<1> HIDE DEF u
<1>5. Memory'
  BY <1>1, <1>4, MemoryKept
<1>6. /\ InHand' /\ pc'[c] = v /\ job'[c] = job[c]
      /\ \A d \in Callers : d # c => pc'[d] = pc[d] /\ job'[d] = job[d]
  BY <1>1, <1>2, <1>3, CallerMoves DEF cfg
<1>7. Fresh'
  BY <1>1, <1>2, <1>6, FreshKept
<1>8. Counts'
  BY <1>1, <1>2, <1>3, Counted
<1>9. Levels'
  BY <1>1 DEF cfg, IInv, Levels
<1> QED
  BY <1>5, <1>6, <1>7, <1>8, <1>9 DEF IInv

(* A step below memory, of a caller that has the answer.                   *)
LEMMA StoresBelow ==
  ASSUME IInv, NEW c \in Callers, NEW v \in {"write", "upsert", "ok"}, Go(c, v),
         pc[c] \in {"open", "write", "upsert"}, Levels',
         UNCHANGED <<cfg, memory, used, job, fresh, stats, crashes>>,
         \A q \in Questions : atlas[q] # None => atlas'[q] # None
  PROVE  IInv'
<1>1. v \in Where /\ v \notin {"disk", "atlas"} /\ Fits(v, job[c]) /\ job' = [job EXCEPT ![c] = job[c]]
      /\ job[c] \in Jobs
  BY Hand DEF Where, Fits
<1>2. /\ InHand' /\ pc'[c] = v
      /\ \A d \in Callers : d # c => pc'[d] = pc[d] /\ job'[d] = job[d]
  BY <1>1, CallerMoves DEF cfg
<1>3. Fresh'
  BY <1>2, FreshKept
<1>4. Counts'
  BY <1>1, Counted
<1>5. Memory'
  BY DEF IInv, Memory
<1> QED
  BY <1>2, <1>3, <1>4, <1>5 DEF IInv

(* What a file may hold while it is written: the entry, or nothing whole.  *)
LEMMA FileKept ==
  ASSUME IInv, NEW p \in Processes, NEW q \in Questions, NEW e \in Valid \union {Torn},
         e # Torn => e.q = q, files' = [files EXCEPT ![p][q] = e],
         UNCHANGED <<cfg, atlas>>, mixed' \subseteq Callers
  PROVE  Levels'
<1>1. /\ files \in [Processes -> [Questions -> Valid \union {None, Torn}]]
      /\ \A r \in Processes : \A x \in Questions : files[r][x] \notin {None, Torn} => files[r][x].q = x
  BY DEF IInv, Levels
<1>2. /\ files' \in [Processes -> [Questions -> Valid \union {None, Torn}]]
      /\ \A r \in Processes : \A x \in Questions : files'[r][x] = IF r = p /\ x = q THEN e ELSE files[r][x]
  BY <1>1
<1>3. \A r \in Processes : \A x \in Questions : files'[r][x] \notin {None, Torn} => files'[r][x].q = x
  BY <1>1, <1>2
<1> QED
  BY <1>2, <1>3 DEF cfg, IInv, Levels

LEMMA OpenFileStep ==
  ASSUME IInv, NEW c \in Callers, OpenFile(c)
  PROVE  IInv'
<1>1. /\ pc[c] = "open" /\ home[c] \in Processes /\ job[c].q \in Questions
      /\ UNCHANGED <<cfg, memory, used, atlas, job, fresh, stats, crashes>>
  BY Hand DEF OpenFile, Fits
<1>2. CASE /\ files' = [files EXCEPT ![home[c]][job[c].q] = Torn] /\ Go(c, "write")
           /\ mixed' = IF Beside(c) = {} THEN mixed \ {c} ELSE mixed \union {c} \union Beside(c)
  <2>1. mixed' \subseteq Callers
    BY <1>2 DEF IInv, Levels, Beside
  <2>2. Levels'
    BY <1>1, <1>2, <2>1, FileKept
  <2> QED
    BY <1>1, <1>2, <2>2, StoresBelow
<1>3. CASE Go(c, AfterDisk(c)) /\ UNCHANGED <<files, mixed>>
  <2>1. Levels'
    BY <1>1, <1>3 DEF cfg, IInv, Levels
  <2>2. AfterDisk(c) \in {"ok", "upsert"}
    BY DEF AfterDisk
  <2> QED
    BY <1>1, <1>3, <2>1, <2>2, StoresBelow
<1> QED
  BY <1>2, <1>3 DEF OpenFile

LEMMA WriteFileStep ==
  ASSUME IInv, NEW c \in Callers, WriteFile(c)
  PROVE  IInv'
<1>1. /\ pc[c] = "write" /\ home[c] \in Processes /\ job[c].q \in Questions
      /\ job[c].entry \in Valid /\ job[c].entry.q = job[c].q
      /\ Go(c, AfterDisk(c)) /\ mixed' = mixed \ {c}
      /\ UNCHANGED <<cfg, memory, used, atlas, job, fresh, stats, crashes>>
  BY Hand DEF WriteFile, Fits
<1>2. PICK e \in {job[c].entry, Torn} : files' = [files EXCEPT ![home[c]][job[c].q] = e]
  BY DEF WriteFile
<1>3. e \in Valid \union {Torn} /\ (e # Torn => e.q = job[c].q) /\ mixed' \subseteq Callers
  BY <1>1, <1>2 DEF IInv, Levels
<1>4. Levels'
  BY <1>1, <1>2, <1>3, FileKept
<1>5. AfterDisk(c) \in {"ok", "upsert"}
  BY DEF AfterDisk
<1> QED
  BY <1>1, <1>4, <1>5, StoresBelow

LEMMA UpsertStep ==
  ASSUME IInv, NEW c \in Callers, Upsert(c)
  PROVE  IInv'
<1> DEFINE q == job[c].q
<1>1. /\ pc[c] = "upsert" /\ q \in Questions /\ job[c].entry \in Valid /\ job[c].entry.q = q
      /\ Go(c, "ok") /\ UNCHANGED <<cfg, memory, used, files, mixed, job, fresh, stats, crashes>>
  BY Hand DEF Upsert, Fits
<1>2. PICK e \in {job[c].entry, atlas[q]} : atlas' = [atlas EXCEPT ![q] = e]
  BY DEF Upsert
<1>3. atlas \in [Questions -> Valid \union {None}] /\ \A x \in Questions : atlas[x] # None => atlas[x].q = x
  BY DEF IInv, Levels
<1>4. job[c].entry # None
  BY <1>1, EntryIsSome DEF Valid
<1> HIDE DEF q
<1>5. /\ atlas' \in [Questions -> Valid \union {None}]
      /\ \A x \in Questions : atlas'[x] = IF x = q THEN e ELSE atlas[x]
  BY <1>1, <1>2, <1>3
<1>6. \A x \in Questions : (atlas'[x] # None => atlas'[x].q = x) /\ (atlas[x] # None => atlas'[x] # None)
  BY <1>1, <1>2, <1>3, <1>4, <1>5
<1>7. Levels'
  BY <1>1, <1>5, <1>6 DEF cfg, IInv, Levels
<1> QED
  BY <1>1, <1>6, <1>7, StoresBelow

(* A crash takes memory and counters with it, and nobody of that process   *)
(* is on the way.                                                          *)
LEMMA CrashStep ==
  ASSUME IInv, NEW p \in Processes, Crash(p)
  PROVE  IInv'
<1>1. /\ UNCHANGED <<disk, home, files, atlas>> /\ crashes' = crashes + 1
      /\ memory' = [memory EXCEPT ![p] = <<>>] /\ used' = [used EXCEPT ![p] = None]
      /\ stats' = [stats EXCEPT ![p] = Zero]
      /\ pc' = [c \in Callers |-> IF home[c] = p THEN "gone" ELSE pc[c]]
      /\ job' = [c \in Callers |-> IF home[c] = p THEN NoJob ELSE job[c]]
      /\ mixed' = {c \in mixed : home[c] # p} /\ fresh' = {c \in fresh : home[c] # p}
  BY DEF Crash, cfg
<1>2. Levels'
  BY <1>1 DEF IInv, Levels
<1>3. Memory'
  <2>1. <<>> \in Seq(Valid) /\ Len(<<>>) = 0 /\ DOMAIN <<>> = {}
    OBVIOUS
  <2>2. Len(<<>>) <= MaxSize /\ Once(<<>>)
    BY <2>1, QueriesAssumption DEF Once
  <2>3. /\ memory' \in [Processes -> Seq(Valid)] /\ used' \in [Processes -> Questions \union {None}]
        /\ memory'[p] = <<>> /\ used'[p] = None
        /\ \A r \in Processes : r # p => memory'[r] = memory[r] /\ used'[r] = used[r]
    BY <1>1, <2>1 DEF IInv, Memory
  <2>4. ASSUME NEW r \in Processes
        PROVE  /\ Len(memory'[r]) <= MaxSize /\ Once(memory'[r])
               /\ used'[r] # None => Len(memory'[r]) > 0 /\ memory'[r][Len(memory'[r])].q = used'[r]
    <3>1. CASE r = p
      BY <2>2, <2>3, <3>1
    <3>2. CASE r # p
      BY <2>3, <3>2 DEF IInv, Memory
    <3> QED
      BY <3>1, <3>2
  <2> QED
    BY <2>3, <2>4 DEF Memory
<1>4. InHand'
  <2>1. NoJob \in Jobs /\ "gone" \in Where /\ Fits("gone", NoJob)
    BY DEF NoJob, Jobs, Where, Fits
  <2>2. pc' \in [Callers -> Where] /\ job' \in [Callers -> Jobs]
    BY <1>1, <2>1 DEF IInv, InHand
  <2>3. \A c \in Callers : Fits(pc'[c], job'[c]) /\ (pc'[c] = "disk" => disk')
    <3>1. SUFFICES ASSUME NEW c \in Callers PROVE Fits(pc'[c], job'[c]) /\ (pc'[c] = "disk" => disk')
      OBVIOUS
    <3>2. CASE home[c] = p
      BY <1>1, <2>1, <3>2
    <3>3. CASE home[c] # p
      BY <1>1, <3>3, Hand
    <3> QED
      BY <3>2, <3>3
  <2> QED
    BY <2>2, <2>3 DEF InHand
<1>5. Fresh'
  <2>1. \A c \in fresh' : c \in fresh /\ c \in Callers /\ pc'[c] = pc[c] /\ job'[c] = job[c]
    BY <1>1 DEF IInv, Fresh
  <2> QED
    BY <1>1, <2>1 DEF IInv, Fresh, PaidOnce
<1>6. Counts'
  <2>1. /\ Zero \in [Fields -> Nat] /\ Zero.asked = 0 /\ Zero.h1 = 0 /\ Zero.m1 = 0 /\ Zero.h2 = 0
        /\ Zero.m2 = 0 /\ Zero.h3 = 0 /\ Zero.m3 = 0
    BY DEF Zero, Fields
  <2>2. stats' \in [Processes -> [Fields -> Nat]] /\ crashes' \in Nat /\ stats'[p] = Zero
        /\ \A r \in Processes : r # p => stats'[r] = stats[r]
    BY <1>1, <2>1 DEF IInv, Counts
  <2>3. ASSUME NEW x, x \in {"disk", "atlas"} PROVE Looking(p, x)' = 0
    <3>1. {c \in Callers : home'[c] = p /\ pc'[c] = x} = {}
      BY <1>1, <2>3
    <3> QED
      BY <3>1, FS_EmptySet DEF Looking
  <2>4. ASSUME NEW r \in Processes, r # p, NEW x PROVE Looking(r, x)' = Looking(r, x)
    <3>1. {c \in Callers : home'[c] = r /\ pc'[c] = x} = {c \in Callers : home[c] = r /\ pc[c] = x}
      BY <1>1, <2>4
    <3> QED
      BY <3>1 DEF Looking
  <2>5. Sums(p)'
    <3>1. Looking(p, "disk")' = 0 /\ Looking(p, "atlas")' = 0
      BY <2>3
    <3>2. Sums(p)' <=>
            /\ stats'[p].asked = stats'[p].h1 + stats'[p].m1
            /\ IF disk' THEN stats'[p].m1 = stats'[p].h2 + stats'[p].m2 + Looking(p, "disk")'
               ELSE stats'[p].h2 + stats'[p].m2 = 0
            /\ (IF disk' THEN stats'[p].m2 ELSE stats'[p].m1) = stats'[p].h3 + stats'[p].m3 + Looking(p, "atlas")'
      BY DEF Sums
    <3> QED
      BY <2>1, <2>2, <3>1, <3>2
  <2>6. ASSUME NEW r \in Processes, r # p PROVE Sums(r)'
    <3>1. Sums(r)
      BY DEF IInv, Counts, StatsAddUp, Sums
    <3>2. Looking(r, "disk")' = Looking(r, "disk") /\ Looking(r, "atlas")' = Looking(r, "atlas")
      BY <2>4, <2>6
    <3> QED
      BY <1>1, <2>2, <2>6, <3>1, <3>2 DEF Sums
  <2>7. \A r \in Processes : Sums(r)'
    BY <2>5, <2>6
  <2> QED
    BY <2>2, <2>7 DEF Counts, StatsAddUp, Sums
<1> QED
  BY <1>2, <1>3, <1>4, <1>5, <1>6 DEF IInv

-----------------------------------------------------------------------------
(* A configuration has a question once among what was translated before,   *)
(* and then each level has what a caller would have stored there.          *)
LEMMA InitialState == Init => IInv
<1> SUFFICES ASSUME Init PROVE IInv
  OBVIOUS
<1> DEFINE made(x, q) == IF q \in ToSet(x.warm) THEN Entry(q, "llm", TRUE) ELSE None
           first(x)   == [i \in DOMAIN x.warm |-> made(x, x.warm[i])]
<1>1. PICK x \in Configs :
        /\ disk = x.disk /\ home = x.home
        /\ memory = [p \in Processes |-> first(x)]
        /\ used = [p \in Processes |-> IF Len(x.warm) = 0 THEN None ELSE x.warm[Len(x.warm)]]
        /\ files = [p \in Processes |-> [q \in Questions |-> IF x.disk THEN made(x, q) ELSE None]]
        /\ mixed = {} /\ atlas = [q \in Questions |-> made(x, q)]
        /\ pc = [c \in Callers |-> "idle"] /\ job = [c \in Callers |-> NoJob] /\ fresh = {}
        /\ stats = [p \in Processes |-> [Zero EXCEPT !.asked = Len(x.warm), !.m1 = Len(x.warm), !.m3 = Len(x.warm),
                                                     !.m2 = IF x.disk THEN Len(x.warm) ELSE 0]]
        /\ crashes = 0
  BY DEF Init
<1> DEFINE n == Len(x.warm)
<1>2. /\ x.disk \in BOOLEAN /\ x.home \in [Callers -> Processes] /\ x.warm \in Seq(Questions) /\ n <= MaxSize
      /\ \A i, j \in DOMAIN x.warm : x.warm[i] = x.warm[j] => i = j
      /\ n \in Nat /\ DOMAIN x.warm = 1 .. n
  BY QueriesAssumption
<1>3. \A q \in Questions : made(x, q) \in Valid \union {None} /\ (made(x, q) # None => made(x, q).q = q)
  BY EntryMade DEF Valid
<1>4. Levels
  <2> HIDE DEF made
  <2> QED
    BY <1>1, <1>2, <1>3 DEF Levels
<1>5. Memory
  <2>1. \A i \in 1 .. n : made(x, x.warm[i]) \in Valid /\ made(x, x.warm[i]).q = x.warm[i] /\ x.warm[i] \in Questions
    <3>1. SUFFICES ASSUME NEW i \in 1 .. n
                   PROVE  made(x, x.warm[i]) \in Valid /\ made(x, x.warm[i]).q = x.warm[i] /\ x.warm[i] \in Questions
      OBVIOUS
    <3>2. x.warm[i] \in ToSet(x.warm) /\ x.warm[i] \in Questions
      BY <1>2 DEF ToSet
    <3>3. made(x, x.warm[i]) = Entry(x.warm[i], "llm", TRUE)
      BY <3>2
    <3> QED
      BY <3>2, <3>3, EntryMade DEF Valid
  <2> DEFINE w == first(x)
  <2> HIDE DEF made
  <2>2. w \in Seq(Valid) /\ Len(w) = n /\ DOMAIN w = 1 .. n /\ \A i \in 1 .. n : w[i].q = x.warm[i]
    BY <1>2, <2>1
  <2> HIDE DEF w
  <2>3. Once(w)
    BY <1>2, <2>2 DEF Once
  <2>4. \A p \in Processes : memory[p] = w /\ used[p] = IF n = 0 THEN None ELSE x.warm[n]
    BY <1>1 DEF w
  <2>5. memory \in [Processes -> Seq(Valid)]
    BY <1>1, <2>2 DEF w
  <2>6. (IF n = 0 THEN None ELSE x.warm[n]) \in Questions \union {None}
    BY <1>2, <2>1
  <2>7. used \in [Processes -> Questions \union {None}]
    BY <1>1, <2>6
  <2> HIDE DEF n
  <2> QED
    BY <1>2, <2>2, <2>3, <2>4, <2>5, <2>7 DEF Memory
<1>6. InHand
  <2>1. NoJob \in Jobs /\ "idle" \in Where /\ Fits("idle", NoJob)
    BY DEF NoJob, Jobs, Where, Fits
  <2> QED
    BY <1>1, <2>1 DEF InHand
<1>7. Fresh
  BY <1>1 DEF Fresh, PaidOnce
<1>8. Counts
  <2> HIDE DEF n
  <2> DEFINE m == IF x.disk THEN n ELSE 0
             z == [Zero EXCEPT !.asked = n, !.m1 = n, !.m3 = n, !.m2 = m]
  <2>1. m \in Nat
    BY <1>2
  <2>2. /\ z \in [Fields -> Nat] /\ z.asked = n /\ z.h1 = 0 /\ z.m1 = n /\ z.h2 = 0
        /\ z.m2 = m /\ z.h3 = 0 /\ z.m3 = n
    <3> HIDE DEF m
    <3>1. /\ Zero \in [Fields -> Nat] /\ Zero.h1 = 0 /\ Zero.h2 = 0 /\ Zero.h3 = 0
          /\ {"asked", "h1", "m1", "h2", "m2", "h3", "m3"} \subseteq Fields
      BY DEF Zero, Fields
    <3>2. z \in [Fields -> Nat]
      BY <1>2, <2>1, <3>1
    <3>3. z.asked = n /\ z.m1 = n /\ z.m3 = n /\ z.m2 = m
      BY <3>1
    <3>4. z.h1 = Zero.h1 /\ z.h2 = Zero.h2 /\ z.h3 = Zero.h3
      BY <3>1
    <3> QED
      BY <3>1, <3>2, <3>3, <3>4
  <2>3. stats = [p \in Processes |-> z]
    BY <1>1 DEF n
  <2>4. ASSUME NEW p \in Processes, NEW s, s \in {"disk", "atlas"} PROVE Looking(p, s) = 0
    <3>1. {c \in Callers : home[c] = p /\ pc[c] = s} = {}
      BY <1>1, <2>4
    <3> QED
      BY <3>1, FS_EmptySet DEF Looking
  <2> HIDE DEF z
  <2>5. ASSUME NEW p \in Processes PROVE Sums(p)
    <3>1. stats[p] = z /\ Looking(p, "disk") = 0 /\ Looking(p, "atlas") = 0
      BY <2>3, <2>4
    <3>2. Sums(p) <=>
            /\ z.asked = z.h1 + z.m1
            /\ IF disk THEN z.m1 = z.h2 + z.m2 + 0 ELSE z.h2 + z.m2 = 0
            /\ (IF disk THEN z.m2 ELSE z.m1) = z.h3 + z.m3 + 0
      BY <3>1 DEF Sums
    <3>3. m = IF disk THEN n ELSE 0
      BY <1>1
    <3> HIDE DEF m
    <3> QED
      BY <1>2, <2>2, <3>2, <3>3
  <2>6. stats \in [Processes -> [Fields -> Nat]] /\ crashes \in Nat
    BY <1>1, <2>2, <2>3
  <2> QED
    BY <2>5, <2>6 DEF Counts, StatsAddUp, Sums
<1> QED
  BY <1>4, <1>5, <1>6, <1>7, <1>8 DEF IInv

LEMMA NextKeeps == ASSUME IInv, [Next]_vars PROVE IInv'
<1>1. CASE UNCHANGED vars
  BY <1>1, StandsStill
<1>2. ASSUME NEW c \in Callers, Step(c) \/ Answer(c) \/ \E q \in Questions : Ask(c, q) PROVE IInv'
  <2>1. CASE LookOnDisk(c)
    BY <2>1, LookOnDiskStep
  <2>2. CASE LookInAtlas(c)
    BY <2>2, LookInAtlasStep
  <2>3. CASE Match(c) \/ Answer(c) \/ Validate(c) \/ Check(c)
    BY <2>3, TranslatingSteps
  <2>4. CASE StoreMemory(c)
    BY <2>4, StoreMemoryStep
  <2>5. CASE OpenFile(c)
    BY <2>5, OpenFileStep
  <2>6. CASE WriteFile(c)
    BY <2>6, WriteFileStep
  <2>7. CASE Upsert(c)
    BY <2>7, UpsertStep
  <2>8. ASSUME NEW q \in Questions, Ask(c, q) PROVE IInv'
    BY <2>8, AskStep
  <2> QED
    BY <1>2, <2>1, <2>2, <2>3, <2>4, <2>5, <2>6, <2>7, <2>8 DEF Step
<1>3. ASSUME NEW p \in Processes, Crash(p) PROVE IInv'
  BY <1>3, CrashStep
<1> QED
  BY <1>1, <1>2, <1>3 DEF Next

LEMMA Invariance == Spec => []IInv
<1>1. IInv /\ [Next]_vars => IInv'
  BY NextKeeps
<1> QED
  BY <1>1, InitialState, PTL DEF Spec

-----------------------------------------------------------------------------
(* Whatever level holds an entry, after whatever was torn, evicted or lost *)
(* in a crash: what is stored or answered has passed validation, and is of *)
(* the collection asked about (translator.rs translate, cache/mod.rs get). *)
THEOREM AnswersAreTrusted == Spec => []AnswersTrusted
<1>1. IInv => AnswersTrusted
  <2> SUFFICES ASSUME IInv PROVE AnswersTrusted
    OBVIOUS
  <2>1. \A e \in Stored : e \in Valid
    <3>1. \A p \in Processes : \A i \in DOMAIN memory[p] : memory[p][i] \in Valid
      BY DEF IInv, Memory
    <3>2. \A p \in Processes : \A q \in Questions : files[p][q] \in Valid \union {None, Torn}
      BY DEF IInv, Levels
    <3>3. \A q \in Questions : atlas[q] \in Valid \union {None}
      BY DEF IInv, Levels
    <3>4. SUFFICES ASSUME NEW e \in Stored PROVE e \in Valid
      OBVIOUS
    <3>5. /\ e \notin {None, Torn}
          /\ \/ \E p \in Processes : \E i \in DOMAIN memory[p] : e = memory[p][i]
             \/ \E p \in Processes : \E q \in Questions : e = files[p][q]
             \/ \E q \in Questions : e = atlas[q]
      <4> DEFINE own(p) == {memory[p][i] : i \in DOMAIN memory[p]} \union {files[p][q] : q \in Questions}
                 all    == UNION {own(p) : p \in Processes}
                 shared == {atlas[q] : q \in Questions}
      <4>1. Stored = {x \in shared \union all : x \notin {None, Torn}}
        BY Zenon DEF Stored
      <4>2. e \in all => \E p \in Processes : e \in own(p)
        <5> HIDE DEF own
        <5> QED
          OBVIOUS
      <4>3. \A p \in Processes : e \in own(p) => \/ \E i \in DOMAIN memory[p] : e = memory[p][i]
                                               \/ \E q \in Questions : e = files[p][q]
        OBVIOUS
      <4>4. e \in shared => \E q \in Questions : e = atlas[q]
        OBVIOUS
      <4> HIDE DEF own, all, shared
      <4> QED
        BY <4>1, <4>2, <4>3, <4>4
    <3> QED
      BY <3>1, <3>2, <3>3, <3>5
  <2>2. \A e \in Returned : e \in Valid
    BY Hand DEF Returned, Fits
  <2> QED
    BY <2>1, <2>2 DEF AnswersTrusted, OnlyValid, Scoped, Valid, Entries
<1> QED
  BY <1>1, Invariance, PTL

(* A question Atlas could answer when it was asked costs no call of the    *)
(* LLM, though the levels are read and written without a common lock.      *)
THEOREM QuestionsArePaidOnce == Spec => []PaidOnce
<1>1. IInv => PaidOnce
  BY DEF IInv, Fresh
<1> QED
  BY <1>1, Invariance, PTL

(* The entries of memory are as many as the questions they answer.         *)
LEMMA EachOnce ==
  ASSUME IInv, NEW p \in Processes
  PROVE  Cardinality(Held(p)) = Len(memory[p])
<1> DEFINE s == memory[p]
           f == [i \in 1 .. Len(s) |-> s[i].q]
<1>1. s \in Seq(Valid) /\ Once(s) /\ DOMAIN s = 1 .. Len(s) /\ Len(s) \in Nat
  BY DEF IInv, Memory
<1>2. Held(p) = {s[i].q : i \in 1 .. Len(s)}
  BY <1>1 DEF Held
<1> HIDE DEF s
<1>3. f \in Bijection(1 .. Len(s), Held(p))
  <2>1. \A i, j \in 1 .. Len(s) : f[i] = f[j] => i = j
    BY <1>1 DEF Once
  <2>2. f \in [1 .. Len(s) -> Held(p)]
    BY <1>2
  <2>3. \A h \in Held(p) : \E i \in 1 .. Len(s) : f[i] = h
    BY <1>2
  <2> HIDE DEF f
  <2> QED
    BY <2>1, <2>2, <2>3 DEF Bijection, Injection, Surjection, IsInjective
<1>4. ExistsBijection(1 .. Len(s), Held(p))
  BY <1>3 DEF ExistsBijection
<1>5. IsFiniteSet(1 .. Len(s)) /\ Cardinality(1 .. Len(s)) = Len(s)
  BY SMTT(20), <1>1, FS_Interval
<1> QED
  BY <1>4, <1>5, FS_Bijection DEF s

LEMMA Typed == ASSUME IInv PROVE TypeOK
<1>1. ASSUME NEW p \in Processes
      PROVE  /\ Len(memory[p]) <= MaxSize /\ Cardinality(Held(p)) = Len(memory[p])
             /\ \A q \in Questions : files[p][q] \in {None, Torn} \/ files[p][q].q = q
  BY EachOnce DEF IInv, Memory, Levels
<1>2. ASSUME NEW c \in Callers PROVE pc[c] \in Where /\ job[c].q \in Questions \union {None}
  BY Hand DEF Jobs
<1> QED
  BY <1>1, <1>2 DEF TypeOK, IInv, Levels, Fresh

(* What was used last is the newest, and the oldest goes: with room for    *)
(* two it outlives the next use of another.                                *)
LEMMA RecentStaysStep ==
  ASSUME MaxSize > 1, IInv, [Next]_vars
  PROVE  \A p \in Processes : used[p] # None => used[p] \in Held(p)' \/ crashes' # crashes
<1> SUFFICES ASSUME NEW p \in Processes, used[p] # None PROVE used[p] \in Held(p)' \/ crashes' # crashes
  OBVIOUS
<1>1. /\ memory[p] \in Seq(Valid) /\ Len(memory[p]) <= MaxSize /\ Once(memory[p]) /\ Len(memory[p]) > 0
      /\ Len(memory[p]) \in DOMAIN memory[p] /\ memory[p][Len(memory[p])].q = used[p]
  BY DEF IInv, Memory
<1>2. memory \in [Processes -> Seq(Valid)]
  BY DEF IInv, Memory
<1>3. ASSUME memory'[p] = memory[p] PROVE used[p] \in Held(p)'
  BY <1>1, <1>3 DEF Held
<1>4. ASSUME NEW u, memory'[p] = u, \E j \in DOMAIN u : u[j].q = used[p] PROVE used[p] \in Held(p)'
  BY <1>4 DEF Held
<1>5. ASSUME NEW c \in Callers, NEW q \in Questions, Ask(c, q) PROVE used[p] \in Held(p)'
  <2> DEFINE s == memory[p]
             hit == s[Place(s, q)]
             u == Touch(s, hit)
  <2>1. CASE home[c] = p /\ Has(s, q)
    <3>1. memory' = [memory EXCEPT ![p] = u]
      BY <1>5, <2>1 DEF Ask
    <3>2. hit \in Valid
      <4>1. Place(s, q) \in DOMAIN s
        BY <2>1 DEF Has, Place
      <4> QED
        BY <1>1, <4>1
    <3> HIDE DEF hit
    <3>3. \A i \in DOMAIN s : \E j \in DOMAIN u : u[j].q = s[i].q
      BY <1>1, <3>2, Touched
    <3> HIDE DEF u
    <3>4. memory'[p] = u /\ \E j \in DOMAIN u : u[j].q = used[p]
      BY <1>1, <1>2, <3>1, <3>3
    <3> QED
      BY <1>4, <3>4
  <2>2. CASE ~(home[c] = p /\ Has(s, q))
    <3>1. memory'[p] = memory[p]
      BY <1>2, <1>5, <2>2 DEF Ask
    <3> QED
      BY <1>3, <3>1
  <2> QED
    BY <2>1, <2>2
<1>6. ASSUME NEW c \in Callers, StoreMemory(c) PROVE used[p] \in Held(p)'
  <2> DEFINE s == memory[p]
             e == job[c].entry
             u == Store(s, e)
  <2>1. memory' = [memory EXCEPT ![home[c]] = Store(@, e)] /\ e \in Valid
    BY <1>6, Hand DEF StoreMemory, Fits
  <2>2. CASE home[c] = p
    <3>1. memory'[p] = u
      BY <1>2, <2>1, <2>2
    <3> HIDE DEF e
    <3>2. \E j \in DOMAIN u : u[j].q = s[Len(s)].q
      BY <1>1, <2>1, StoredOf
    <3> HIDE DEF u
    <3> QED
      BY <1>1, <1>4, <3>1, <3>2
  <2>3. CASE home[c] # p
    <3>1. memory'[p] = memory[p]
      BY <1>2, <2>1, <2>3
    <3> QED
      BY <1>3, <3>1
  <2> QED
    BY <2>2, <2>3
<1>7. ASSUME NEW r \in Processes, Crash(r) PROVE crashes' # crashes
  BY <1>7 DEF Crash, IInv, Counts
<1>8. ASSUME NEW c \in Callers,
             \/ LookOnDisk(c) \/ LookInAtlas(c) \/ Match(c) \/ Validate(c) \/ Check(c)
             \/ OpenFile(c) \/ WriteFile(c) \/ Upsert(c) \/ Answer(c)
      PROVE  memory' = memory
  BY <1>8 DEF LookOnDisk, LookInAtlas, Match, Validate, Check, OpenFile, WriteFile, Upsert, Answer, levels
<1>9. CASE UNCHANGED vars
  BY <1>3, <1>9 DEF vars, levels
<1> QED
  BY <1>3, <1>5, <1>6, <1>7, <1>8, <1>9 DEF Next, Step

(* The levels keep to their size and count right, and what memory used     *)
(* last is not what it evicts next (memory.rs: a level of a single entry   *)
(* has no choice, hence MaxSize > 1).                                      *)
THEOREM LevelsDoAgree == ASSUME MaxSize > 1 PROVE Spec => LevelsAgree
<1>1. IInv => TypeOK /\ StatsAddUp
  BY Typed DEF IInv, Counts
<1>2. IInv /\ [Next]_vars =>
        [\A p \in Processes : used[p] # None => used[p] \in Held(p)' \/ crashes' # crashes]_vars
  BY RecentStaysStep
<1>3. Spec => RecentStays
  BY <1>2, Invariance, PTL DEF RecentStays, Spec
<1> QED
  BY <1>1, <1>3, Invariance, PTL DEF LevelsAgree
=============================================================================
