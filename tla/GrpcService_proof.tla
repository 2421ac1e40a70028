------------------------- MODULE GrpcService_proof -------------------------
(***************************************************************************)
(* Proofs about GrpcService for any calls, transactions and shards, and    *)
(* any number of worker threads and permits.                               *)
(***************************************************************************)
EXTENDS GrpcService, FiniteSetTheorems, TLAPS

(* What was sent to MongoDB, executed or not.                              *)
Ever == inFlight \union executed
IsEnd(o) == Asked(o).kind \in {"commit", "abort"}

(* Every operation of every call is somewhere, and nowhere else.           *)
Shape ==
  /\ guard \in [Shards -> Ops \union {None}]
  /\ DOMAIN st = DOMAIN req
  /\ \A c \in DOMAIN req : st[c] \in [Index(c) -> OpStates]
  /\ \A c \in DOMAIN req : reply[c] # "open" => \A i \in Index(c) : st[c][i] \in OpDone
  /\ \A c \in Calls : reply[c] = "open" => c \in DOMAIN req

(* An operation's state and what MongoDB has of it.                        *)
Progress ==
  \A o \in Ops :
    /\ At(o) = "sent" => o \in Ever
    /\ At(o) \in {"permit", "ready", "insert", "blocked", "refused", "notfound"} => o \notin Ever
    /\ At(o) = "ok" /\ Asked(o).kind # "begin" => o \in executed
    /\ At(o) = "permit" => req[o[1]].pipeline
    /\ At(o) = "insert" => Asked(o).kind = "begin"
    /\ At(o) = "blocked" => Asked(o).kind = "begin" \/ Asked(o).txn # None

(* A new transaction has one begin, which alone knows its id until it is   *)
(* in the map.                                                             *)
Beginnings ==
  /\ \A p, q \in begun : p[1] = q[1] \/ p[2] = q[2] => p = q
  /\ \A p \in begun : Asked(p[1]).kind = "begin" /\ At(p[1]) \in {"insert", "blocked", "ok"}
  /\ \A p \in begun : At(p[1]) # "ok" => mongo[p[2]] = "unused"
  /\ \A o \in Ops : At(o) \in {"insert", "blocked"} /\ Asked(o).kind = "begin" =>
       \E t \in TxnIds : <<o, t>> \in begun

(* Users of a session: those that hold its guard, then the one that took   *)
(* it out of the map.                                                      *)
Sessions ==
  /\ \A x \in Shards : guard[x] # None => Asked(guard[x]).txn # None
  /\ \A t \in TxnIds : mongo[t] = "unused" =>
       t \notin registry /\ \A o \in Ops : Asked(o).txn = t => o \notin Ever
  /\ \A o \in Ops : At(o) = "sent" /\ Asked(o).kind = "data" /\ Asked(o).txn # None =>
       guard[Shard[Asked(o).txn]] = o
  /\ \A o \in Ops : IsEnd(o) /\ o \in Ever => Asked(o).txn \notin registry
  /\ \A o, p \in Ops : IsEnd(o) /\ o \in Ever /\ Asked(p).txn = Asked(o).txn /\ p # o =>
       At(p) # "sent" /\ (IsEnd(p) => p \notin Ever)

(* What MongoDB has of a transaction.                                      *)
Outcomes ==
  /\ \A o \in executed : Asked(o).kind # "begin"
  /\ \A o \in executed : Asked(o).kind = "commit" => mongo[Asked(o).txn] = "committed"
  /\ \A o \in executed : Asked(o).kind = "abort" => mongo[Asked(o).txn] = "aborted"
  /\ \A o \in executed : Asked(o).kind = "data" /\ Asked(o).h.op.writes =>
       (Asked(o).txn = None \/ mongo[Asked(o).txn] = "committed" => o \in durable)
  /\ \A o \in durable : Asked(o).txn # None => mongo[Asked(o).txn] = "committed"

IInv == Accounts /\ Shape /\ Progress /\ Beginnings /\ Sessions /\ Outcomes

-----------------------------------------------------------------------------
LEMMA Operations ==
  ASSUME ServiceAssumption, req \in Scenes
  PROVE  /\ DOMAIN req \subseteq Calls
         /\ \A c \in Calls : \A i \in Index(c) : c \in DOMAIN req /\ i \in Nat \ {0} /\ <<c, i>> \in Ops
         /\ \A c \in DOMAIN req : Index(c) = 1 .. Len(req[c].ops) /\ 1 \in Index(c)
                                 /\ Len(req[c].ops) \in Nat /\ req[c].pipeline \in BOOLEAN
         /\ \A o \in Ops : /\ o[1] \in DOMAIN req /\ o[2] \in Index(o[1]) /\ o = <<o[1], o[2]>>
                           /\ o # None /\ WellFormed(Asked(o))
<1> USE DEF ServiceAssumption
<1>1. DOMAIN req \subseteq Calls
  OBVIOUS
<1>2. ASSUME NEW c \in DOMAIN req
      PROVE  /\ Index(c) = 1 .. Len(req[c].ops) /\ 1 \in Index(c) /\ Len(req[c].ops) \in Nat \ {0}
             /\ req[c].pipeline \in BOOLEAN
             /\ \A i \in Index(c) : WellFormed(req[c].ops[i])
  BY DEF Index
<1>3. \A c \in Calls : \A i \in Index(c) : c \in DOMAIN req
  BY DEF Index
<1>4. \A c \in Calls : \A i \in Index(c) : i \in Nat \ {0}
  BY <1>2, <1>3
<1>5. \A o : o \in Ops <=> \E c \in Calls : \E i \in Index(c) : o = <<c, i>>
  BY DEF Ops
<1>6. \A o \in Ops : o[1] \in DOMAIN req /\ o[2] \in Index(o[1]) /\ o = <<o[1], o[2]>>
  BY <1>3, <1>5
<1>7. \A o \in Ops : o # None
  BY <1>1, <1>4, <1>6
<1>8. \A o \in Ops : WellFormed(Asked(o))
  BY <1>2, <1>6 DEF Asked
<1> QED
  BY <1>1, <1>2, <1>3, <1>4, <1>5, <1>6, <1>7, <1>8

(* One operation moves, the others stay where they are.                    *)
Moves(o, s) ==
  /\ Ops' = Ops /\ req' = req
  /\ \A p : Asked(p)' = Asked(p)
  /\ At(o)' = s
  /\ \A p \in Ops : p # o => At(p)' = At(p)

LEMMA Located ==
  ASSUME ServiceAssumption, IInv, NEW c \in Calls, NEW i \in Index(c), NEW s \in OpStates,
         Go(c, i, s), req' = req
  PROVE  Moves(<<c, i>>, s)
<1>1. c \in DOMAIN req /\ \A o \in Ops : o[1] \in DOMAIN req /\ o[2] \in Index(o[1]) /\ o = <<o[1], o[2]>>
  BY Operations DEF IInv, Accounts, TypeOK
<1>2. Ops' = Ops /\ \A p : Asked(p)' = Asked(p)
  BY DEF Ops, Index, Asked
<1>3. /\ st' = [st EXCEPT ![c] = [st[c] EXCEPT ![i] = s]]
      /\ DOMAIN st = DOMAIN req /\ \A d \in DOMAIN req : st[d] \in [Index(d) -> OpStates]
  BY DEF Go, IInv, Shape
<1>4. st'[c] = [st[c] EXCEPT ![i] = s] /\ st'[c][i] = s
  BY <1>1, <1>3
<1>5. \A d \in DOMAIN req : d # c => st'[d] = st[d]
  BY <1>3
<1>6. \A j \in Index(c) : j # i => st'[c][j] = st[c][j]
  BY <1>1, <1>3, <1>4
<1>7. At(<<c, i>>)' = s
  BY <1>4 DEF At
<1>8. ASSUME NEW p \in Ops, p # <<c, i>> PROVE At(p)' = At(p)
  BY <1>1, <1>5, <1>6, <1>8 DEF At
<1> QED
  BY <1>2, <1>7, <1>8 DEF Moves

LEMMA Moved ==
  ASSUME ServiceAssumption, IInv, NEW c \in Calls, NEW i \in Index(c), NEW s \in OpStates,
         Go(c, i, s), reply[c] = "open", UNCHANGED <<req, reply>>,
         guard' \in [Shards -> Ops \union {None}]
  PROVE  Moves(<<c, i>>, s) /\ Shape'
<1> USE DEF IInv, Accounts, TypeOK
<1>1. c \in DOMAIN req
  BY Operations
<1>2. \A d : Index(d)' = Index(d)
  BY DEF Index
<1>3. /\ st' = [st EXCEPT ![c] = [st[c] EXCEPT ![i] = s]]
      /\ DOMAIN st = DOMAIN req /\ \A d \in DOMAIN req : st[d] \in [Index(d) -> OpStates]
  BY DEF Go, Shape
<1>4. st'[c] = [st[c] EXCEPT ![i] = s] /\ st'[c] \in [Index(c) -> OpStates]
  BY <1>1, <1>3
<1>5. \A d \in DOMAIN req : d # c => st'[d] = st[d]
  BY <1>3
<1>6. Moves(<<c, i>>, s)
  BY Located
<1>7. DOMAIN st' = DOMAIN req
  BY <1>3
<1>8. \A d \in DOMAIN req : st'[d] \in [Index(d) -> OpStates]
  BY <1>3, <1>4, <1>5
<1>9. \A d \in DOMAIN req : reply[d] # "open" => \A j \in Index(d) : st'[d][j] \in OpDone
  BY <1>5 DEF Shape
<1> QED
  BY <1>2, <1>6, <1>7, <1>8, <1>9 DEF Shape, Moves

LEMMA FiniteOps == ASSUME ServiceAssumption, req \in Scenes PROVE IsFiniteSet(Ops)
<1> DEFINE Mine(c) == {c} \X Index(c)
           F == {Mine(c) : c \in Calls}
           f == [c \in Calls |-> Mine(c)]
<1>1. ASSUME NEW c \in Calls PROVE IsFiniteSet(Mine(c))
  <2>1. IsFiniteSet(Index(c))
    <3>1. CASE c \in DOMAIN req
      <4>1. Index(c) = 1 .. Len(req[c].ops) /\ Len(req[c].ops) \in Nat
        BY <3>1, Operations
      <4> QED
        BY <4>1, FS_Interval
    <3>2. CASE c \notin DOMAIN req
      BY <3>2, FS_EmptySet DEF Index
    <3> QED
      BY <3>1, <3>2
  <2> QED
    BY <2>1, FS_Singleton, FS_Product
<1> HIDE DEF Mine
<1>2. f \in Surjection(Calls, F)
  BY DEF Surjection
<1>3. IsFiniteSet(F)
  BY <1>2, FS_Surjection DEF ServiceAssumption
<1>4. \A T \in F : IsFiniteSet(T)
  BY <1>1
<1>5. IsFiniteSet(UNION F)
  BY <1>3, <1>4, FS_UNION
<1> QED
  BY <1>5 DEF Ops, Mine

(* The semaphore.  A permit is taken by an operation that becomes a holder *)
(* and handed back by one that is no longer.                               *)
Holders == {o \in Ops : HoldsPermit(o[1], o[2])}

LEMMA PermitsOf ==
  ASSUME ServiceAssumption, req \in Scenes
  PROVE  /\ IsFiniteSet(Holders) /\ Cardinality(Holders) \in Nat
         /\ PermitsConserved <=> permits + Cardinality(Holders) = MaxConcurrency
         /\ \A o \in Ops : o \in Holders <=> req[o[1]].pipeline /\ At(o) \notin OpDone \union {"permit"}
<1>1. IsFiniteSet(Holders)
  BY FiniteOps, FS_Subset DEF Holders
<1>2. Cardinality(Holders) \in Nat
  BY <1>1, FS_CardinalityType
<1> QED
  BY <1>1, <1>2 DEF PermitsConserved, Holders, HoldsPermit, At

LEMMA PermitMoves ==
  ASSUME ServiceAssumption, IInv, NEW c \in Calls, NEW i \in Index(c), NEW s \in OpStates, Moves(<<c, i>>, s),
         \/ /\ s \notin OpDone \union {"permit"} /\ At(<<c, i>>) \notin OpDone \union {"permit"}
            /\ permits' = permits
         \/ s \in OpDone /\ permits' = permits + (IF HoldsPermit(c, i) THEN 1 ELSE 0)
         \/ /\ At(<<c, i>>) = "permit" /\ s = "ready" /\ permits > 0
            /\ permits' = permits - 1
  PROVE  PermitsConserved' /\ permits' \in 0 .. MaxConcurrency
<1> DEFINE o == <<c, i>>
<1>1. req \in Scenes /\ req' \in Scenes /\ permits \in Nat /\ MaxConcurrency \in Nat /\ o \in Ops
  BY Operations DEF IInv, Accounts, TypeOK, Moves, ServiceAssumption
<1>2. /\ IsFiniteSet(Holders) /\ Cardinality(Holders) \in Nat
      /\ permits + Cardinality(Holders) = MaxConcurrency
      /\ \A p \in Ops : p \in Holders <=> req[p[1]].pipeline /\ At(p) \notin OpDone \union {"permit"}
  BY <1>1, PermitsOf DEF IInv, Accounts
<1>3. /\ IsFiniteSet(Holders') /\ Cardinality(Holders') \in Nat
      /\ PermitsConserved' <=> permits' + Cardinality(Holders') = MaxConcurrency
      /\ \A p \in Ops : p \in Holders' <=> req[p[1]].pipeline /\ At(p)' \notin OpDone \union {"permit"}
  <2>1. Ops' = Ops /\ req' = req
    BY DEF Moves
  <2>2. IsFiniteSet(Ops) /\ Holders' \subseteq Ops
    BY <1>1, <2>1, FiniteOps DEF Holders
  <2>3. IsFiniteSet(Holders') /\ Cardinality(Holders') \in Nat
    BY <2>2, FS_Subset, FS_CardinalityType
  <2>4. \A p \in Ops : p \in Holders' <=> req[p[1]].pipeline /\ At(p)' \notin OpDone \union {"permit"}
    BY <2>1 DEF Holders, HoldsPermit, At
  <2>5. PermitsConserved' <=> permits' + Cardinality(Holders') = MaxConcurrency
    BY DEF PermitsConserved, Holders
  <2> QED
    BY <2>3, <2>4, <2>5
<1>4. Holders \subseteq Ops /\ Holders' \subseteq Ops
  BY DEF Holders, Moves
<1>5. At(o)' = s /\ \A p \in Ops : p # o => At(p)' = At(p)
  BY DEF Moves
<1>6. HoldsPermit(c, i) <=> o \in Holders
  BY <1>1, <1>2 DEF HoldsPermit, At
<1> HIDE DEF o
<1>7. CASE /\ s \notin OpDone \union {"permit"} /\ At(o) \notin OpDone \union {"permit"}
           /\ permits' = permits
  <2>1. Holders' = Holders
    BY <1>2, <1>3, <1>4, <1>5, <1>7
  <2> QED
    BY <1>1, <1>2, <1>3, <1>7, <2>1
<1>8. CASE s \in OpDone /\ permits' = permits + (IF HoldsPermit(c, i) THEN 1 ELSE 0)
  <2>1. Holders' = Holders \ {o}
    BY <1>2, <1>3, <1>4, <1>5, <1>8
  <2>2. Cardinality(Holders') = IF o \in Holders THEN Cardinality(Holders) - 1 ELSE Cardinality(Holders)
    BY <1>2, <2>1, FS_RemoveElement
  <2>3. permits' + Cardinality(Holders') = permits + Cardinality(Holders)
    BY <1>1, <1>2, <1>6, <1>8, <2>2
  <2> QED
    BY <1>1, <1>2, <1>3, <1>8, <2>3
<1>9. CASE /\ At(o) = "permit" /\ s = "ready" /\ permits > 0
           /\ permits' = permits - 1
  <2>1. req[o[1]].pipeline
    BY <1>1, <1>9 DEF IInv, Progress
  <2>2. o \notin Holders /\ o \in Holders'
    BY <1>1, <1>2, <1>3, <1>5, <1>9, <2>1 DEF OpDone
  <2>3. Holders' = Holders \union {o}
    BY <1>2, <1>3, <1>4, <1>5, <2>2
  <2>4. Cardinality(Holders') = Cardinality(Holders) + 1
    BY <1>2, <2>2, <2>3, FS_AddElement
  <2> QED
    BY <1>1, <1>2, <1>3, <1>9, <2>4
<1> QED
  BY <1>7, <1>8, <1>9 DEF o

(* The counters change only when a call returns.                           *)
LEMMA CountersKept ==
  ASSUME ServiceAssumption, IInv, UNCHANGED <<req, counters>>,
         \A c \in Calls : reply'[c] \in {"ok", "error"} <=> reply[c] \in {"ok", "error"},
         \A c \in Calls : reply[c] \in {"ok", "error"} => st'[c] = st[c]
  PROVE  CountersMatch'
<1>1. \A c \in Calls : /\ Counted(c)' <=> Counted(c)
                       /\ Counted(c) => \A i \in Index(c) : st'[c][i] = st[c][i]
  BY DEF Counted
<1>2. \A c : Index(c)' = Index(c)
  BY DEF Index
<1>3. {c \in Calls : Counted(c)}' = {c \in Calls : Counted(c)}
  BY <1>1
<1>4. {c \in Calls : Counted(c) /\ \E i \in Index(c) : st[c][i] # "ok"}'
        = {c \in Calls : Counted(c) /\ \E i \in Index(c) : st[c][i] # "ok"}
  BY <1>1, <1>2
<1> QED
  BY <1>3, <1>4 DEF CountersMatch, counters, IInv, Accounts

(* What the steps of an operation have in common.                          *)
LEMMA Mover ==
  ASSUME ServiceAssumption, IInv, NEW c \in Calls, NEW i \in Index(c)
  PROVE  /\ <<c, i>> \in Ops /\ c \in DOMAIN req /\ At(<<c, i>>) = st[c][i]
         /\ Asked(<<c, i>>) = req[c].ops[i] /\ At(<<c, i>>) \in OpStates
         /\ WellFormed(Asked(<<c, i>>)) /\ <<c, i>> # None
         /\ At(<<c, i>>) \notin OpDone => reply[c] = "open"
<1>1. req \in Scenes /\ reply \in [Calls -> {"none", "open", "ok", "error", "deadline", "gone"}]
  BY DEF IInv, Accounts, TypeOK
<1>2. <<c, i>> \in Ops /\ c \in DOMAIN req /\ WellFormed(Asked(<<c, i>>)) /\ <<c, i>> # None
  BY <1>1, Operations
<1> QED
  BY <1>2 DEF At, Asked, IInv, Shape

LEMMA AccountsKept ==
  ASSUME ServiceAssumption, IInv, NEW c \in Calls, NEW i \in Index(c), NEW s \in OpStates,
         Moves(<<c, i>>, s), Go(c, i, s), At(<<c, i>>) \notin OpDone, UNCHANGED <<reply, counters>>,
         PermitsConserved', permits' \in 0 .. MaxConcurrency,
         begun' \subseteq Ops \X TxnIds, registry' \subseteq TxnIds,
         mongo' \in [TxnIds -> {"unused", "open", "committed", "aborted"}],
         inFlight' \subseteq Ops, UNCHANGED <<executed, durable>>,
         \A x \in Shards : \A p \in Ops \union {None} : guard'[x] = p /\ p # None =>
           p \in Ops /\ At(p)' = "sent" /\ Shard[Asked(p).txn] = x,
         guard' \in [Shards -> Ops \union {None}]
  PROVE  Accounts'
<1>1. CountersMatch'
  <2>1. reply[c] = "open" /\ c \in DOMAIN req
    BY Mover
  <2>2. \A d \in Calls : d # c => st'[d] = st[d]
    BY DEF Go
  <2>3. \A d \in Calls : reply[d] \in {"ok", "error"} => st'[d] = st[d]
    BY <2>1, <2>2
  <2> QED
    BY <2>3, CountersKept DEF Moves
<1>2. \A o \in Ops : At(o)' \in OpStates
  BY DEF Moves, IInv, Accounts, TypeOK
<1>3. TypeOK'
  <2>1. Ops' = Ops /\ req' = req /\ reply' = reply /\ \A p : Asked(p)' = Asked(p)
    BY DEF Moves
  <2>2. req' \in Scenes /\ reply' \in [Calls -> {"none", "open", "ok", "error", "deadline", "gone"}]
    BY <2>1 DEF IInv, Accounts, TypeOK
  <2>3. \A o \in Ops' : At(o)' \in OpStates
    BY <1>2, <2>1
  <2>4. begun' \subseteq Ops' \X TxnIds /\ registry' \subseteq TxnIds
    BY <2>1
  <2>5. (\A x \in Shards : guard[x] # None =>
           guard[x] \in Ops /\ At(guard[x]) = "sent" /\ Shard[Asked(guard[x]).txn] = x)'
    <3>1. SUFFICES ASSUME NEW x \in Shards, NEW p \in Ops \union {None}, guard'[x] = p, p # None
                   PROVE  (guard[x] \in Ops /\ At(guard[x]) = "sent" /\ Shard[Asked(guard[x]).txn] = x)'
      OBVIOUS
    <3>2. p \in Ops /\ At(p)' = "sent" /\ Shard[Asked(p).txn] = x /\ Asked(p)' = Asked(p)
      BY <2>1, <3>1
    <3>3. p \in Ops' /\ At(p)' = "sent" /\ Shard[Asked(p)'.txn] = x
      BY <2>1, <3>2
    <3> QED
      BY <3>1, <3>3 DEF At, Asked
  <2>6. inFlight' \subseteq Ops' /\ executed' \subseteq Ops' /\ durable' \subseteq executed'
    BY <2>1 DEF IInv, Accounts, TypeOK
  <2>7. errors' \in 0 .. total' /\ total' <= Cardinality(Calls)
    BY DEF counters, IInv, Accounts, TypeOK
  <2> QED
    BY <2>2, <2>3, <2>4, <2>5, <2>6, <2>7 DEF TypeOK
<1> QED
  BY <1>1, <1>3 DEF Accounts

(* An operation goes on or ends, and MongoDB and the map have no part in it.*)
LEMMA Settles ==
  ASSUME ServiceAssumption, IInv, NEW c \in Calls, NEW i \in Index(c), NEW s \in OpStates, Go(c, i, s),
         UNCHANGED <<req, reply, begun, registry, dbState, counters>>,
         guard' \in [Shards -> Ops \union {None}],
         \A x \in Shards : guard'[x] = IF guard[x] = <<c, i>> THEN None ELSE guard[x],
         At(<<c, i>>) \notin OpDone, s \notin {"permit", "sent", "insert"},
         Asked(<<c, i>>).kind = "begin" /\ At(<<c, i>>) \in {"insert", "blocked"} => s = "blocked",
         s = "ready" => At(<<c, i>>) = "permit" /\ permits > 0 /\ permits' = permits - 1,
         s = "blocked" => /\ At(<<c, i>>) \in {"ready", "insert", "blocked"} /\ permits' = permits
                          /\ At(<<c, i>>) = "ready" => Asked(<<c, i>>).txn # None,
         s \in {"refused", "notfound"} => At(<<c, i>>) \in {"ready", "blocked"},
         s = "ok" => <<c, i>> \in executed,
         s \in OpDone => permits' = permits + (IF HoldsPermit(c, i) THEN 1 ELSE 0)
  PROVE  IInv'
<1> DEFINE o == <<c, i>>
<1>1. o \in Ops /\ reply[c] = "open" /\ WellFormed(Asked(o)) /\ o # None
  BY Mover
<1>2. Moves(o, s) /\ Shape'
  BY <1>1, Moved
<1>3. PermitsConserved' /\ permits' \in 0 .. MaxConcurrency
  <2>1. s \in OpDone \/ s \in {"ready", "blocked"}
    BY DEF OpStates, OpDone
  <2> QED
    BY <1>2, <2>1, PermitMoves DEF OpDone
<1> HIDE DEF o
<1>4. /\ Ops' = Ops /\ (\A p : Asked(p)' = Asked(p)) /\ At(o)' = s
      /\ \A p \in Ops : p # o => At(p)' = At(p)
  BY <1>2 DEF Moves
<1>5. Accounts'
  <2>1. \A x \in Shards : guard'[x] # None => guard'[x] = guard[x] /\ guard[x] # o
    BY DEF o
  <2>2. ASSUME NEW x \in Shards, NEW p \in Ops \union {None}, guard'[x] = p, p # None
        PROVE  p \in Ops /\ At(p)' = "sent" /\ Shard[Asked(p).txn] = x
    <3>1. guard[x] = p /\ p # o
      BY <2>1, <2>2
    <3>2. guard[x] \in Ops /\ At(guard[x]) = "sent" /\ Shard[Asked(guard[x]).txn] = x
      BY <2>2, <3>1 DEF IInv, Accounts, TypeOK
    <3> QED
      BY <1>4, <3>1, <3>2
  <2>3. /\ begun' \subseteq Ops \X TxnIds /\ registry' \subseteq TxnIds
        /\ mongo' \in [TxnIds -> {"unused", "open", "committed", "aborted"}]
        /\ inFlight' \subseteq Ops /\ UNCHANGED <<executed, durable>>
    BY DEF dbState, IInv, Accounts, TypeOK
  <2> QED
    BY <1>2, <1>3, <2>2, <2>3, AccountsKept DEF o
<1>6. UNCHANGED <<begun, registry, mongo, inFlight, executed, durable, Ever>>
  BY DEF dbState, Ever
<1>7. Progress'
  <2>1. ASSUME NEW p \in Ops, p # o
        PROVE  /\ At(p)' = "sent" => p \in Ever'
               /\ At(p)' \in {"permit", "ready", "insert", "blocked", "refused", "notfound"} => p \notin Ever'
               /\ At(p)' = "ok" /\ Asked(p)'.kind # "begin" => p \in executed'
               /\ At(p)' = "permit" => req'[p[1]].pipeline
               /\ At(p)' = "insert" => Asked(p)'.kind = "begin"
               /\ At(p)' = "blocked" => Asked(p)'.kind = "begin" \/ Asked(p)'.txn # None
    BY <1>4, <1>6, <2>1 DEF IInv, Progress
  <2>2. /\ s \in {"ready", "blocked", "refused", "notfound"} => o \notin Ever
        /\ s = "blocked" => Asked(o).kind = "begin" \/ Asked(o).txn # None
    BY <1>1 DEF IInv, Progress, o
  <2> QED
    BY <1>1, <1>4, <1>6, <2>1, <2>2 DEF Progress, o
<1>8. Beginnings'
  <2>1. \A p \in begun : p[1] \in Ops
    BY DEF IInv, Accounts, TypeOK
  <2>2. \A p \in begun : p[1] = o => At(o) \in {"insert", "blocked"} /\ Asked(o).kind = "begin"
    BY DEF IInv, Beginnings, o, OpDone
  <2>3. \A p \in begun : Asked(p[1])'.kind = "begin" /\ At(p[1])' \in {"insert", "blocked", "ok"}
                           /\ (At(p[1])' # "ok" => mongo[p[2]] = "unused")
    BY <1>4, <2>1, <2>2 DEF IInv, Beginnings, o
  <2>4. ASSUME NEW p \in Ops, At(p)' \in {"insert", "blocked"}, Asked(p).kind = "begin"
        PROVE  \E t \in TxnIds : <<p, t>> \in begun
    <3>1. CASE p # o
      BY <1>4, <2>4, <3>1 DEF IInv, Beginnings
    <3>2. CASE p = o
      <4>1. At(o) \in {"insert", "blocked"}
        BY <1>1, <1>4, <2>4, <3>2 DEF o, WellFormed
      <4> QED
        BY <1>1, <2>4, <3>2, <4>1 DEF IInv, Beginnings
    <3> QED
      BY <3>1, <3>2
  <2> QED
    BY <1>4, <1>6, <2>3, <2>4 DEF IInv, Beginnings
<1>9. Sessions'
  <2>1. \A p \in Ops : At(p)' = "sent" => p # o /\ At(p) = "sent"
    BY <1>4
  <2>2. ASSUME NEW p \in Ops, At(p)' = "sent", Asked(p).kind = "data", Asked(p).txn # None
        PROVE  guard'[Shard[Asked(p).txn]] = p
    <3>1. guard[Shard[Asked(p).txn]] = p /\ p # o
      BY <2>1, <2>2 DEF IInv, Sessions
    <3>2. Shard[Asked(p).txn] \in Shards
      BY <2>2, Operations DEF WellFormed, ServiceAssumption, IInv, Accounts, TypeOK
    <3> QED
      BY <3>1, <3>2 DEF o
  <2> QED
    BY <1>4, <1>6, <2>1, <2>2 DEF IInv, Sessions, IsEnd
<1>10. Outcomes'
  BY <1>4, <1>6 DEF IInv, Outcomes
<1> QED
  BY <1>2, <1>5, <1>7, <1>8, <1>9, <1>10 DEF IInv

(* A guard is held for an operation that was sent.                         *)
LEMMA Guards ==
  ASSUME ServiceAssumption, IInv, NEW o \in Ops, At(o) # "sent"
  PROVE  \A x \in Shards : guard[x] # o
<1>1. o # None
  BY Operations DEF IInv, Accounts, TypeOK
<1> QED
  BY <1>1 DEF IInv, Accounts, TypeOK

LEMMA SettlingSteps ==
  ASSUME ServiceAssumption, IInv, NEW c \in Calls, NEW i \in Index(c),
         \/ Acquire(c, i) \/ Refuse(c, i) \/ Block(c, i)
         \/ NotFound(c, i) \/ Answer(c, i) \/ TimedOut(c, i)
  PROVE  IInv'
<1> DEFINE o == <<c, i>>
<1>1. /\ o \in Ops /\ At(o) = st[c][i] /\ Asked(o) = req[c].ops[i] /\ At(o) \in OpStates
      /\ WellFormed(Asked(o))
  BY Mover
<1>2. guard \in [Shards -> Ops \union {None}]
  BY DEF IInv, Shape
<1>3. ASSUME Acquire(c, i) PROVE IInv'
  <2>1. /\ UNCHANGED <<req, reply, begun, registry, guard, dbState, counters>> /\ Go(c, i, "ready")
        /\ At(o) = "permit" /\ permits > 0 /\ permits' = permits - 1
    BY <1>1, <1>3 DEF Acquire, mapState
  <2>2. guard' = guard /\ \A x \in Shards : guard[x] # o
    BY <1>1, <2>1, Guards
  <2> QED
    BY <1>1, <1>2, <2>1, <2>2, Settles DEF OpStates, OpDone
<1>4. ASSUME Block(c, i) PROVE IInv'
  <2>1. /\ UNCHANGED <<req, reply, begun, registry, guard, dbState, counters>> /\ Go(c, i, "blocked")
        /\ permits' = permits /\ At(o) \in {"ready", "insert", "blocked"}
        /\ At(o) = "ready" => Asked(o).txn # None
    BY <1>1, <1>4 DEF Block, mapState, AtMap
  <2>2. guard' = guard /\ \A x \in Shards : guard[x] # o
    BY <1>1, <2>1, Guards
  <2> QED
    BY <1>1, <1>2, <2>1, <2>2, Settles DEF OpStates, OpDone
<1>5. ASSUME NEW s \in {"refused", "notfound", "ok", "error"}, End(c, i, s),
             UNCHANGED <<req, reply, begun, registry, dbState, counters>>,
             At(o) \in {"ready", "blocked", "sent"}, At(o) = "blocked" => Asked(o).kind # "begin",
             s \in {"refused", "notfound"} => At(o) # "sent",
             s = "ok" => o \in executed
      PROVE  IInv'
  <2>1. Go(c, i, s) /\ permits' = permits + (IF HoldsPermit(c, i) THEN 1 ELSE 0)
    BY <1>5 DEF End
  <2>2. /\ guard' \in [Shards -> Ops \union {None}]
        /\ \A x \in Shards : guard'[x] = IF guard[x] = o THEN None ELSE guard[x]
    BY <1>2, <1>5 DEF End, Unguard
  <2>3. s \in OpStates /\ s \notin {"permit", "sent", "insert", "ready", "blocked"} /\ s \in OpDone
    BY DEF OpStates, OpDone
  <2>4. At(o) \notin OpDone
    BY <1>5 DEF OpDone
  <2> HIDE DEF o
  <2> QED
    BY <1>1, <1>5, <2>1, <2>2, <2>3, <2>4, Settles DEF o
<1>6. ASSUME Refuse(c, i) PROVE IInv'
  BY <1>1, <1>5, <1>6 DEF Refuse
<1>7. ASSUME NotFound(c, i) PROVE IInv'
  <2>1. At(o) \in {"ready", "blocked", "insert"} /\ Asked(o).kind # "begin"
    BY <1>1, <1>7 DEF NotFound, HasShard, AtMap
  <2>2. At(o) # "insert"
    BY <1>1, <2>1 DEF IInv, Progress
  <2> QED
    BY <1>5, <1>7, <2>1, <2>2 DEF NotFound
<1>8. ASSUME Answer(c, i) PROVE IInv'
  <2>1. At(o) = "sent" /\ UNCHANGED <<req, reply, begun, registry, dbState, counters>>
    BY <1>1, <1>8 DEF Answer
  <2>2. CASE o \in executed /\ End(c, i, "ok")
    BY <1>5, <2>1, <2>2
  <2>3. CASE End(c, i, "error")
    BY <1>5, <2>1, <2>3
  <2> QED
    BY <1>8, <2>2, <2>3 DEF Answer
<1>9. ASSUME TimedOut(c, i) PROVE IInv'
  BY <1>1, <1>5, <1>9 DEF TimedOut
<1> QED
  BY <1>3, <1>4, <1>6, <1>7, <1>8, <1>9

(* The ids of transactions are those the map knows a shard of.             *)
LEMMA TxnOf ==
  ASSUME ServiceAssumption, IInv, NEW o \in Ops, Asked(o).txn # None
  PROVE  Asked(o).txn \in TxnIds /\ Shard[Asked(o).txn] \in Shards /\ Asked(o).kind # "begin"
BY Operations DEF IInv, Accounts, TypeOK, WellFormed, ServiceAssumption

(* An operation is sent: without a transaction, under the guard of one, or *)
(* by the one that took it out of the map.                                 *)
LEMMA Sends ==
  ASSUME ServiceAssumption, IInv, NEW c \in Calls, NEW i \in Index(c), Send(c, i),
         UNCHANGED <<req, reply, begun, permits, mongo, executed, durable, counters>>,
         At(<<c, i>>) \in {"ready", "blocked"},
         At(<<c, i>>) = "blocked" => Asked(<<c, i>>).kind # "begin",
         Asked(<<c, i>>).txn # None =>
           Asked(<<c, i>>).txn \in registry /\ guard[Shard[Asked(<<c, i>>).txn]] = None,
         guard' = IF Asked(<<c, i>>).kind = "data" /\ Asked(<<c, i>>).txn # None
                    THEN [guard EXCEPT ![Shard[Asked(<<c, i>>).txn]] = <<c, i>>] ELSE guard,
         registry' = IF IsEnd(<<c, i>>) THEN registry \ {Asked(<<c, i>>).txn} ELSE registry
  PROVE  IInv'
<1> DEFINE o == <<c, i>>
           t == Asked(o).txn
<1>1. /\ o \in Ops /\ reply[c] = "open" /\ WellFormed(Asked(o)) /\ o # None
      /\ At(o) \notin OpDone /\ At(o) = st[c][i]
  BY Mover DEF OpDone
<1>2. Go(c, i, "sent") /\ inFlight' = inFlight \union {o} /\ UNCHANGED <<req, reply, begun, permits, mongo, executed, durable>>
  BY DEF Send
<1>3. /\ t # None => t \in TxnIds /\ Shard[t] \in Shards /\ t \in registry /\ guard[Shard[t]] = None
      /\ guard \in [Shards -> Ops \union {None}]
      /\ \A x \in Shards : guard[x] # o
  BY <1>1, TxnOf, Guards DEF IInv, Shape
<1>4. /\ guard' \in [Shards -> Ops \union {None}]
      /\ \A x \in Shards : guard'[x] = IF Asked(o).kind = "data" /\ t # None /\ x = Shard[t] THEN o ELSE guard[x]
  BY <1>1, <1>3
<1>5. registry' \subseteq registry /\ (IsEnd(o) => t \notin registry')
  OBVIOUS
<1>6. Moves(o, "sent") /\ Shape'
  BY <1>1, <1>2, <1>4, Moved DEF OpStates
<1>7. PermitsConserved' /\ permits' \in 0 .. MaxConcurrency
  BY <1>1, <1>2, <1>6, PermitMoves DEF OpDone, OpStates
<1>8. UNCHANGED counters /\ At(o) \in {"ready", "blocked"} /\ (At(o) = "blocked" => Asked(o).kind # "begin")
  OBVIOUS
<1> HIDE DEF o
<1>9. /\ Ops' = Ops /\ (\A p : Asked(p)' = Asked(p)) /\ At(o)' = "sent"
      /\ \A p \in Ops : p # o => At(p)' = At(p)
  BY <1>6 DEF Moves
<1>10. Ever' = Ever \union {o} /\ o \notin Ever
  BY <1>1, <1>2, <1>8 DEF Ever, IInv, Progress
<1>11. Accounts'
  <2>1. ASSUME NEW x \in Shards, NEW p \in Ops \union {None}, guard'[x] = p, p # None
        PROVE  p \in Ops /\ At(p)' = "sent" /\ Shard[Asked(p).txn] = x
    <3>1. CASE Asked(o).kind = "data" /\ t # None /\ x = Shard[t]
      BY <1>1, <1>4, <1>9, <2>1, <3>1
    <3>2. CASE ~(Asked(o).kind = "data" /\ t # None /\ x = Shard[t])
      <4>1. guard[x] = p /\ p # o
        BY <1>3, <1>4, <2>1, <3>2
      <4>2. guard[x] \in Ops /\ At(guard[x]) = "sent" /\ Shard[Asked(guard[x]).txn] = x
        BY <2>1, <4>1 DEF IInv, Accounts, TypeOK
      <4> QED
        BY <1>9, <4>1, <4>2
    <3> QED
      BY <3>1, <3>2
  <2>2. /\ begun' \subseteq Ops \X TxnIds /\ registry' \subseteq TxnIds
        /\ mongo' \in [TxnIds -> {"unused", "open", "committed", "aborted"}]
        /\ inFlight' \subseteq Ops /\ UNCHANGED <<executed, durable>>
    BY <1>1, <1>2, <1>5 DEF IInv, Accounts, TypeOK
  <2>3. UNCHANGED <<reply, counters>> /\ "sent" \in OpStates
    BY <1>2, <1>8 DEF OpStates
  <2> QED
    BY <1>1, <1>2, <1>4, <1>6, <1>7, <2>1, <2>2, <2>3, AccountsKept DEF o
<1>12. Progress'
  <2>1. ASSUME NEW p \in Ops, p # o
        PROVE  /\ At(p)' = "sent" => p \in Ever'
               /\ At(p)' \in {"permit", "ready", "insert", "blocked", "refused", "notfound"} => p \notin Ever'
               /\ At(p)' = "ok" /\ Asked(p)'.kind # "begin" => p \in executed'
               /\ At(p)' = "permit" => req'[p[1]].pipeline
               /\ At(p)' = "insert" => Asked(p)'.kind = "begin"
               /\ At(p)' = "blocked" => Asked(p)'.kind = "begin" \/ Asked(p)'.txn # None
    BY <1>2, <1>9, <1>10, <2>1 DEF IInv, Progress
  <2> QED
    BY <1>9, <1>10, <2>1 DEF Progress
<1>13. Beginnings'
  <2>1. \A p \in begun : p[1] \in Ops /\ p[1] # o
    BY <1>8 DEF IInv, Accounts, TypeOK, Beginnings
  <2>2. \A p \in begun : Asked(p[1])'.kind = "begin" /\ At(p[1])' = At(p[1])
    BY <1>9, <2>1 DEF IInv, Beginnings
  <2>3. \A p \in Ops : At(p)' \in {"insert", "blocked"} => At(p) = At(p)'
    BY <1>9
  <2> QED
    BY <1>2, <1>9, <2>2, <2>3 DEF IInv, Beginnings
<1>14. Sessions'
  <2>1. (\A x \in Shards : guard[x] # None => Asked(guard[x]).txn # None)'
    <3>1. SUFFICES ASSUME NEW x \in Shards, NEW p, guard'[x] = p, p # None PROVE (Asked(guard[x]).txn # None)'
      OBVIOUS
    <3>2. Asked(p).txn # None
      BY <1>4, <3>1 DEF IInv, Sessions
    <3>3. Asked(p)'.txn # None
      BY <1>9, <3>2
    <3> QED
      BY <3>1, <3>3 DEF Asked
  <2>2. ASSUME NEW u \in TxnIds, mongo'[u] = "unused"
        PROVE  u \notin registry' /\ \A p \in Ops : Asked(p).txn = u => p \notin Ever'
    <3>1. u \notin registry /\ \A p \in Ops : Asked(p).txn = u => p \notin Ever
      BY <1>2, <2>2 DEF IInv, Sessions
    <3>2. u # None
      BY DEF ServiceAssumption
    <3> QED
      BY <1>3, <1>5, <1>10, <3>1, <3>2
  <2>3. ASSUME NEW p \in Ops, At(p)' = "sent", Asked(p).kind = "data", Asked(p).txn # None
        PROVE  guard'[Shard[Asked(p).txn]] = p
    <3>1. Shard[Asked(p).txn] \in Shards
      BY <2>3, TxnOf
    <3>2. CASE p = o
      BY <1>4, <2>3, <3>1, <3>2
    <3>3. CASE p # o
      <4>1. guard[Shard[Asked(p).txn]] = p /\ p # None
        BY <1>9, <2>3, <3>3, Operations DEF IInv, Sessions, Accounts, TypeOK
      <4> QED
        BY <1>3, <1>4, <3>1, <4>1
    <3> QED
      BY <3>2, <3>3
  <2>4. ASSUME NEW p \in Ops, IsEnd(p), p \in Ever' PROVE Asked(p).txn \notin registry'
    BY <1>5, <1>10, <2>4 DEF IInv, Sessions
  <2>5. ASSUME NEW p \in Ops, NEW q \in Ops, IsEnd(p), p \in Ever', Asked(q).txn = Asked(p).txn, q # p
        PROVE  At(q)' # "sent" /\ (IsEnd(q) => q \notin Ever')
    <3>1. Asked(p).txn # None
      BY <2>5, Operations DEF IInv, Accounts, TypeOK, WellFormed, IsEnd
    <3>2. CASE p = o
      <4>1. IsEnd(q) => q \notin Ever
        BY <1>3, <2>5, <3>1, <3>2 DEF IInv, Sessions
      <4>2. At(q) # "sent"
        <5>1. SUFFICES ASSUME At(q) = "sent" PROVE FALSE
          OBVIOUS
        <5>2. q \in Ever
          BY <5>1 DEF IInv, Progress
        <5>3. Asked(q).kind = "data"
          BY <2>5, <3>1, <4>1, <5>2, TxnOf, Operations
             DEF IInv, Accounts, TypeOK, WellFormed, Kinds, IsEnd
        <5>4. guard[Shard[Asked(q).txn]] = q /\ q # None
          BY <2>5, <3>1, <5>1, <5>3, Operations DEF IInv, Sessions, Accounts, TypeOK
        <5> QED
          BY <1>3, <2>5, <3>1, <3>2, <5>4
      <4> QED
        BY <1>9, <1>10, <2>5, <3>2, <4>1, <4>2
    <3>3. CASE p # o
      <4>1. p \in Ever
        BY <1>10, <2>5, <3>3
      <4>2. q # o
        BY <1>3, <2>5, <3>1, <4>1 DEF IInv, Sessions
      <4> QED
        BY <1>9, <1>10, <2>5, <4>1, <4>2 DEF IInv, Sessions
    <3> QED
      BY <3>2, <3>3
  <2> QED
    BY <1>9, <2>1, <2>2, <2>3, <2>4, <2>5 DEF Sessions, IsEnd
<1>15. Outcomes'
  BY <1>2, <1>9 DEF IInv, Outcomes
<1> QED
  BY <1>6, <1>11, <1>12, <1>13, <1>14, <1>15 DEF IInv

LEMMA SendingSteps ==
  ASSUME ServiceAssumption, IInv, NEW c \in Calls, NEW i \in Index(c),
         SendPlain(c, i) \/ Lookup(c, i) \/ TakeOut(c, i)
  PROVE  IInv'
<1> DEFINE o == <<c, i>>
<1>1. /\ o \in Ops /\ At(o) = st[c][i] /\ Asked(o) = req[c].ops[i] /\ At(o) \in OpStates
      /\ WellFormed(Asked(o))
  BY Mover
<1>2. ASSUME SendPlain(c, i) PROVE IInv'
  <2>1. Asked(o).txn = None /\ ~IsEnd(o) /\ At(o) = "ready"
    BY <1>1, <1>2 DEF SendPlain, WellFormed, IsEnd
  <2> QED
    BY <1>2, <2>1, Sends DEF SendPlain, mapState
<1>3. ASSUME HasShard(c, i), Asked(o).kind # "begin", Wanted(c, i) \in registry
      PROVE  /\ At(o) \in {"ready", "blocked"} /\ Wanted(c, i) = Asked(o).txn /\ Asked(o).txn # None
             /\ Asked(o).txn \in registry /\ guard[Shard[Asked(o).txn]] = None
  <2>1. At(o) \in {"ready", "insert", "blocked"} /\ (At(o) = "ready" => Asked(o).txn # None)
    BY <1>1, <1>3 DEF HasShard, AtMap
  <2>2. At(o) # "insert" /\ (At(o) = "blocked" => Asked(o).txn # None)
    BY <1>1, <1>3 DEF IInv, Progress
  <2>3. Wanted(c, i) = Asked(o).txn
    BY <1>1, <1>3 DEF Wanted
  <2> QED
    BY <1>3, <2>1, <2>2, <2>3 DEF HasShard
<1>4. ASSUME Lookup(c, i) PROVE IInv'
  <2>1. Asked(o).kind = "data" /\ HasShard(c, i) /\ Wanted(c, i) \in registry
    BY <1>1, <1>4 DEF Lookup
  <2>2. /\ ~IsEnd(o) /\ At(o) \in {"ready", "blocked"} /\ Wanted(c, i) = Asked(o).txn /\ Asked(o).txn # None
        /\ Asked(o).txn \in registry /\ guard[Shard[Asked(o).txn]] = None
    BY <1>3, <2>1 DEF IsEnd
  <2> QED
    BY <1>4, <2>1, <2>2, Sends DEF Lookup
<1>5. ASSUME TakeOut(c, i) PROVE IInv'
  <2>1. IsEnd(o) /\ HasShard(c, i) /\ Wanted(c, i) \in registry
    BY <1>1, <1>5 DEF TakeOut, Ends, IsEnd
  <2>2. /\ Asked(o).kind \notin {"begin", "data"} /\ At(o) \in {"ready", "blocked"}
        /\ Wanted(c, i) = Asked(o).txn /\ Asked(o).txn # None
        /\ Asked(o).txn \in registry /\ guard[Shard[Asked(o).txn]] = None
    BY <1>3, <2>1 DEF IsEnd
  <2> QED
    BY <1>5, <2>1, <2>2, Sends DEF TakeOut
<1> QED
  BY <1>2, <1>4, <1>5

(* begin: the session is there and has an id that nobody else knows.       *)
LEMMA BeganStep ==
  ASSUME ServiceAssumption, IInv, NEW c \in Calls, NEW i \in Index(c), Began(c, i)
  PROVE  IInv'
<1> DEFINE o == <<c, i>>
<1>1. /\ o \in Ops /\ At(o) = "sent" /\ Asked(o).kind = "begin" /\ Asked(o).txn = None
      /\ WellFormed(Asked(o)) /\ o # None /\ At(o) \notin OpDone /\ reply[c] = "open"
  BY Mover DEF Began, WellFormed, OpDone
<1>2. PICK t \in TxnIds : /\ mongo[t] = "unused" /\ \A p \in begun : p[2] # t
                          /\ begun' = begun \union {<<o, t>>}
  BY DEF Began
<1>3. /\ Go(c, i, "insert") /\ inFlight' = inFlight \ {o}
      /\ UNCHANGED <<req, reply, registry, guard, permits, mongo, executed, durable, counters>>
  BY DEF Began
<1>4. Moves(o, "insert") /\ Shape'
  <2>1. guard' \in [Shards -> Ops \union {None}] /\ "insert" \in OpStates
    BY <1>3 DEF IInv, Shape, OpStates
  <2> QED
    BY <1>1, <1>3, <2>1, Moved
<1>5. PermitsConserved' /\ permits' \in 0 .. MaxConcurrency
  BY <1>1, <1>3, <1>4, PermitMoves DEF OpDone, OpStates
<1> HIDE DEF o
<1>6. /\ Ops' = Ops /\ (\A p : Asked(p)' = Asked(p)) /\ At(o)' = "insert"
      /\ \A p \in Ops : p # o => At(p)' = At(p)
  BY <1>4 DEF Moves
<1>7. Ever' = Ever \ {o} /\ o \notin executed
  BY <1>1, <1>3 DEF Ever, IInv, Outcomes
<1>8. \A x \in Shards : guard[x] # o
  BY <1>1 DEF IInv, Sessions
<1>9. Accounts'
  <2>1. ASSUME NEW x \in Shards, NEW p \in Ops \union {None}, guard'[x] = p, p # None
        PROVE  p \in Ops /\ At(p)' = "sent" /\ Shard[Asked(p).txn] = x
    <3>1. guard[x] = p /\ p # o
      BY <1>3, <1>8, <2>1
    <3>2. guard[x] \in Ops /\ At(guard[x]) = "sent" /\ Shard[Asked(guard[x]).txn] = x
      BY <2>1, <3>1 DEF IInv, Accounts, TypeOK
    <3> QED
      BY <1>6, <3>1, <3>2
  <2>2. /\ begun' \subseteq Ops \X TxnIds /\ registry' \subseteq TxnIds
        /\ mongo' \in [TxnIds -> {"unused", "open", "committed", "aborted"}]
        /\ inFlight' \subseteq Ops /\ UNCHANGED <<reply, counters, executed, durable>>
    BY <1>1, <1>2, <1>3 DEF IInv, Accounts, TypeOK
  <2>3. guard' \in [Shards -> Ops \union {None}] /\ "insert" \in OpStates
    BY <1>3 DEF IInv, Shape, OpStates
  <2> QED
    BY <1>1, <1>3, <1>4, <1>5, <2>1, <2>2, <2>3, AccountsKept DEF o
<1>10. Progress'
  <2>1. ASSUME NEW p \in Ops, p # o
        PROVE  /\ At(p)' = "sent" => p \in Ever'
               /\ At(p)' \in {"permit", "ready", "insert", "blocked", "refused", "notfound"} => p \notin Ever'
               /\ At(p)' = "ok" /\ Asked(p)'.kind # "begin" => p \in executed'
               /\ At(p)' = "permit" => req'[p[1]].pipeline
               /\ At(p)' = "insert" => Asked(p)'.kind = "begin"
               /\ At(p)' = "blocked" => Asked(p)'.kind = "begin" \/ Asked(p)'.txn # None
    BY <1>3, <1>6, <1>7, <2>1 DEF IInv, Progress
  <2> QED
    BY <1>1, <1>6, <1>7, <2>1 DEF Progress
<1>11. Beginnings'
  <2>1. \A p \in begun : p[1] \in Ops /\ p[1] # o /\ p[2] # t
    BY <1>1, <1>2 DEF IInv, Accounts, TypeOK, Beginnings
  <2>2. (\A p, q \in begun : p[1] = q[1] \/ p[2] = q[2] => p = q)'
    BY <1>2, <2>1 DEF IInv, Beginnings
  <2>3. (\A p \in begun : Asked(p[1]).kind = "begin" /\ At(p[1]) \in {"insert", "blocked", "ok"})'
    <3>1. \A p \in begun : Asked(p[1])'.kind = "begin" /\ At(p[1])' \in {"insert", "blocked", "ok"}
      BY <1>6, <2>1 DEF IInv, Beginnings
    <3>2. Asked(o)'.kind = "begin" /\ At(o)' = "insert"
      BY <1>1, <1>6
    <3> QED
      BY <1>2, <3>1, <3>2
  <2>4. (\A p \in begun : At(p[1]) # "ok" => mongo[p[2]] = "unused")'
    <3>1. \A p \in begun : At(p[1])' # "ok" => mongo'[p[2]] = "unused"
      BY <1>3, <1>6, <2>1 DEF IInv, Beginnings
    <3>2. mongo'[t] = "unused"
      BY <1>2, <1>3
    <3> QED
      BY <1>2, <3>1, <3>2
  <2>5. ASSUME NEW p \in Ops, At(p)' \in {"insert", "blocked"}, Asked(p).kind = "begin"
        PROVE  \E u \in TxnIds : <<p, u>> \in begun'
    BY <1>2, <1>6, <2>5 DEF IInv, Beginnings
  <2> QED
    BY <1>6, <2>2, <2>3, <2>4, <2>5 DEF Beginnings
<1>12. Sessions'
  <2>1. \A p \in Ops : At(p)' = "sent" => p # o /\ At(p) = "sent"
    BY <1>6
  <2> QED
    BY <1>3, <1>6, <1>7, <2>1 DEF IInv, Sessions, IsEnd
<1>13. Outcomes'
  BY <1>3, <1>6 DEF IInv, Outcomes
<1> QED
  BY <1>4, <1>9, <1>10, <1>11, <1>12, <1>13 DEF IInv

(* begin: the new transaction is entered into the map, under its own id.   *)
LEMMA EnterStep ==
  ASSUME ServiceAssumption, IInv, NEW c \in Calls, NEW i \in Index(c), Enter(c, i)
  PROVE  IInv'
<1> DEFINE o == <<c, i>>
           t == Wanted(c, i)
<1>1. /\ o \in Ops /\ Asked(o).kind = "begin" /\ Asked(o).txn = None /\ At(o) = st[c][i]
      /\ WellFormed(Asked(o)) /\ o # None
  BY Mover DEF Enter, WellFormed
<1>2. At(o) \in {"insert", "blocked"} /\ At(o) \notin OpDone /\ reply[c] = "open"
  BY <1>1, Mover DEF Enter, HasShard, AtMap, OpDone
<1>3. t \in TxnIds /\ <<o, t>> \in begun
  <2>1. \E u \in TxnIds : <<o, u>> \in begun
    BY <1>1, <1>2 DEF IInv, Beginnings
  <2>2. t = CHOOSE u \in TxnIds : <<o, u>> \in begun
    BY DEF Wanted, Enter
  <2> QED
    BY <2>1, <2>2
<1>4. mongo[t] = "unused" /\ \A p \in begun : p[1] = o \/ p[2] = t => p = <<o, t>>
  BY <1>2, <1>3 DEF IInv, Beginnings, OpDone
<1>5. /\ Go(c, i, "ok") /\ permits' = permits + (IF HoldsPermit(c, i) THEN 1 ELSE 0)
      /\ registry' = registry \union {t} /\ mongo' = [mongo EXCEPT ![t] = "open"]
      /\ UNCHANGED <<req, reply, begun, guard, inFlight, executed, durable, counters>>
  BY DEF Enter
<1>6. Moves(o, "ok") /\ Shape'
  <2>1. guard' \in [Shards -> Ops \union {None}] /\ "ok" \in OpStates
    BY <1>5 DEF IInv, Shape, OpStates, OpDone
  <2> QED
    BY <1>2, <1>5, <2>1, Moved
<1>7. PermitsConserved' /\ permits' \in 0 .. MaxConcurrency
  BY <1>5, <1>6, PermitMoves DEF OpDone, OpStates
<1> HIDE DEF o, t
<1>8. /\ Ops' = Ops /\ (\A p : Asked(p)' = Asked(p)) /\ At(o)' = "ok"
      /\ \A p \in Ops : p # o => At(p)' = At(p)
  BY <1>6 DEF Moves
<1>9. Ever' = Ever
  BY <1>5 DEF Ever
<1>10. /\ mongo \in [TxnIds -> {"unused", "open", "committed", "aborted"}]
       /\ mongo'[t] = "open" /\ \A u \in TxnIds : u # t => mongo'[u] = mongo[u]
  BY <1>3, <1>5 DEF IInv, Accounts, TypeOK
<1>11. Accounts'
  <2>1. ASSUME NEW x \in Shards, NEW p \in Ops \union {None}, guard'[x] = p, p # None
        PROVE  p \in Ops /\ At(p)' = "sent" /\ Shard[Asked(p).txn] = x
    <3>1. guard[x] \in Ops /\ At(guard[x]) = "sent" /\ Shard[Asked(guard[x]).txn] = x /\ guard[x] = p
      BY <1>5, <2>1 DEF IInv, Accounts, TypeOK
    <3>2. p # o
      BY <1>2, <3>1
    <3> QED
      BY <1>8, <3>1, <3>2
  <2>2. /\ begun' \subseteq Ops \X TxnIds /\ registry' \subseteq TxnIds
        /\ mongo' \in [TxnIds -> {"unused", "open", "committed", "aborted"}]
        /\ inFlight' \subseteq Ops /\ UNCHANGED <<reply, counters, executed, durable>>
    BY <1>3, <1>5 DEF IInv, Accounts, TypeOK
  <2>3. guard' \in [Shards -> Ops \union {None}] /\ "ok" \in OpStates
    BY <1>5 DEF IInv, Shape, OpStates, OpDone
  <2> QED
    BY <1>2, <1>5, <1>6, <1>7, <2>1, <2>2, <2>3, AccountsKept DEF o
<1>12. Progress'
  <2>1. ASSUME NEW p \in Ops, p # o
        PROVE  /\ At(p)' = "sent" => p \in Ever'
               /\ At(p)' \in {"permit", "ready", "insert", "blocked", "refused", "notfound"} => p \notin Ever'
               /\ At(p)' = "ok" /\ Asked(p)'.kind # "begin" => p \in executed'
               /\ At(p)' = "permit" => req'[p[1]].pipeline
               /\ At(p)' = "insert" => Asked(p)'.kind = "begin"
               /\ At(p)' = "blocked" => Asked(p)'.kind = "begin" \/ Asked(p)'.txn # None
    BY <1>5, <1>8, <1>9, <2>1 DEF IInv, Progress
  <2> QED
    BY <1>1, <1>8, <1>9, <2>1 DEF Progress
<1>13. Beginnings'
  <2>1. \A p \in begun : p[1] \in Ops /\ p[2] \in TxnIds
    BY DEF IInv, Accounts, TypeOK
  <2>2. \A p \in begun : Asked(p[1])'.kind = "begin" /\ At(p[1])' \in {"insert", "blocked", "ok"}
    BY <1>8, <2>1 DEF IInv, Beginnings
  <2>3. ASSUME NEW p \in begun, At(p[1])' # "ok" PROVE mongo'[p[2]] = "unused"
    <3>1. p[1] # o /\ p[2] # t /\ At(p[1]) # "ok"
      BY <1>4, <1>8, <2>1, <2>3
    <3> QED
      BY <1>10, <2>1, <3>1 DEF IInv, Beginnings
  <2>4. \A p \in Ops : At(p)' \in {"insert", "blocked"} => At(p)' = At(p)
    BY <1>8
  <2> QED
    BY <1>5, <1>8, <2>2, <2>3, <2>4 DEF IInv, Beginnings
<1>14. Sessions'
  <2>1. \A p \in Ops : At(p)' = "sent" => p # o /\ At(p) = "sent"
    BY <1>8
  <2>2. ASSUME NEW u \in TxnIds, mongo'[u] = "unused"
        PROVE  u \notin registry' /\ \A p \in Ops : Asked(p).txn = u => p \notin Ever'
    BY <1>5, <1>9, <1>10, <2>2 DEF IInv, Sessions
  <2>3. ASSUME NEW p \in Ops, IsEnd(p), p \in Ever' PROVE Asked(p).txn \notin registry'
    <3>1. Asked(p).txn # t
      BY <1>3, <1>4, <1>9, <2>3 DEF IInv, Sessions
    <3> QED
      BY <1>5, <1>9, <2>3, <3>1 DEF IInv, Sessions
  <2>4. (\A x \in Shards : guard[x] # None => Asked(guard[x]).txn # None)'
    BY <1>5, <1>8 DEF IInv, Sessions
  <2> QED
    BY <1>5, <1>8, <1>9, <2>1, <2>2, <2>3, <2>4 DEF IInv, Sessions, IsEnd
<1>15. Outcomes'
  <2>1. executed \subseteq Ops /\ durable \subseteq executed
    BY DEF IInv, Accounts, TypeOK
  <2>2. \A p \in executed : Asked(p).txn # t
    BY <1>3, <1>4, <2>1 DEF IInv, Sessions, Ever
  <2>3. \A p \in executed : Asked(p).txn # None => mongo'[Asked(p).txn] = mongo[Asked(p).txn]
    BY <1>10, <2>1, <2>2, TxnOf
  <2>4. \A p \in executed : Asked(p).kind \in {"commit", "abort"} => Asked(p).txn # None
    BY <2>1, Operations DEF IInv, Accounts, TypeOK, WellFormed
  <2> QED
    BY <1>5, <1>8, <2>1, <2>3, <2>4 DEF IInv, Outcomes
<1> QED
  BY <1>6, <1>11, <1>12, <1>13, <1>14, <1>15 DEF IInv

(* A step of MongoDB changes what it has of one transaction at most, and   *)
(* nothing that the service holds.                                         *)
LEMMA External ==
  ASSUME ServiceAssumption, IInv, UNCHANGED <<req, reply, st, mapState, permits, counters>>,
         mongo' \in [TxnIds -> {"unused", "open", "committed", "aborted"}],
         \A t \in TxnIds : mongo'[t] = "unused" <=> mongo[t] = "unused",
         inFlight' \subseteq Ops, executed' \subseteq Ops, durable' \subseteq executed',
         executed \subseteq executed', Ever' = Ever
  PROVE  Accounts' /\ Shape' /\ Progress' /\ Beginnings' /\ Sessions'
<1>1. /\ Ops' = Ops /\ (\A p : Asked(p)' = Asked(p)) /\ (\A p : At(p)' = At(p))
      /\ (\A d : Index(d)' = Index(d))
      /\ UNCHANGED <<req, reply, st, begun, registry, guard, permits, total, errors>>
  BY DEF Ops, Index, Asked, At, mapState, counters
<1>2. TypeOK'
  <2>1. (\A x \in Shards : guard[x] # None =>
           guard[x] \in Ops /\ At(guard[x]) = "sent" /\ Shard[Asked(guard[x]).txn] = x)'
    BY <1>1 DEF IInv, Accounts, TypeOK
  <2>2. \A o \in Ops' : At(o)' \in OpStates
    BY <1>1 DEF IInv, Accounts, TypeOK
  <2> QED
    BY <1>1, <2>1, <2>2 DEF IInv, Accounts, TypeOK
<1>3. PermitsConserved' /\ CountersMatch'
  <2>1. PermitsConserved'
    BY <1>1 DEF IInv, Accounts, PermitsConserved, HoldsPermit
  <2> QED
    BY <1>1, <2>1, CountersKept
<1>4. Shape'
  BY <1>1 DEF IInv, Shape
<1>5. Progress'
  BY <1>1 DEF IInv, Progress
<1>6. Beginnings'
  <2>1. \A p \in begun : p[2] \in TxnIds
    BY DEF IInv, Accounts, TypeOK
  <2> QED
    BY <1>1, <2>1 DEF IInv, Beginnings
<1>7. Sessions'
  BY <1>1 DEF IInv, Sessions, IsEnd
<1> QED
  BY <1>2, <1>3, <1>4, <1>5, <1>6, <1>7 DEF Accounts

LEMMA ExecuteStep ==
  ASSUME ServiceAssumption, IInv, NEW o \in inFlight, Execute(o)
  PROVE  IInv'
<1> DEFINE t == Asked(o).txn
           k == Asked(o).kind
<1>1. /\ o \in Ops /\ WellFormed(Asked(o)) /\ k \in {"data", "commit", "abort"}
      /\ executed \subseteq Ops /\ durable \subseteq executed /\ inFlight \subseteq Ops
      /\ mongo \in [TxnIds -> {"unused", "open", "committed", "aborted"}]
  BY Operations DEF IInv, Accounts, TypeOK, Execute, WellFormed, Kinds
<1>2. t # None => t \in TxnIds /\ mongo[t] = "open"
  BY <1>1, TxnOf DEF Execute
<1>3. /\ UNCHANGED <<req, reply, st, mapState, permits, counters>>
      /\ inFlight' = inFlight \ {o} /\ executed' = executed \union {o}
      /\ durable' = durable \union (IF k = "commit" THEN WritesOf(t)
           ELSE IF k = "data" /\ t = None /\ Asked(o).h.op.writes THEN {o} ELSE {})
      /\ mongo' = IF k \in {"commit", "abort"}
           THEN [mongo EXCEPT ![t] = IF k = "commit" THEN "committed" ELSE "aborted"] ELSE mongo
  BY DEF Execute
<1>4. k \in {"commit", "abort"} => t # None
  BY <1>1 DEF WellFormed
<1>5. /\ mongo' \in [TxnIds -> {"unused", "open", "committed", "aborted"}]
      /\ \A u \in TxnIds : u # t \/ k = "data" => mongo'[u] = mongo[u]
      /\ k = "commit" => mongo'[t] = "committed"
      /\ k = "abort" => mongo'[t] = "aborted"
  BY <1>1, <1>2, <1>3, <1>4
<1>6. \A u \in TxnIds : mongo'[u] = "unused" <=> mongo[u] = "unused"
  BY <1>1, <1>2, <1>4, <1>5
<1>7. WritesOf(t) = {p \in executed : Asked(p).kind = "data" /\ Asked(p).txn = t /\ Asked(p).h.op.writes}
  BY DEF WritesOf
<1>8. /\ inFlight' \subseteq Ops /\ executed' \subseteq Ops /\ durable' \subseteq executed'
      /\ executed \subseteq executed' /\ Ever' = Ever
  BY <1>1, <1>3, <1>7 DEF Ever
<1>9. Accounts' /\ Shape' /\ Progress' /\ Beginnings' /\ Sessions'
  BY <1>3, <1>5, <1>6, <1>8, External
<1>10. \A p : Asked(p)' = Asked(p)
  BY <1>3 DEF Asked
<1>11. \A p \in executed : IsEnd(p) => Asked(p).txn \in TxnIds /\ Asked(p).txn # t
  <2>1. ASSUME NEW p \in executed, IsEnd(p) PROVE Asked(p).txn \in TxnIds /\ mongo[Asked(p).txn] # "open"
    <3>1. p \in Ops /\ Asked(p).txn # None
      BY <1>1, <2>1, Operations DEF IInv, Accounts, TypeOK, WellFormed, IsEnd
    <3> QED
      BY <2>1, <3>1, TxnOf DEF IInv, Outcomes, IsEnd
  <2> QED
    BY <1>2, <2>1, Operations DEF ServiceAssumption
<1>12. Outcomes'
  <2> HIDE DEF t, k
  <2>1. \A p \in executed' : Asked(p)'.kind # "begin"
    BY <1>1, <1>3, <1>10 DEF IInv, Outcomes, k
  <2>2. ASSUME NEW p \in executed', IsEnd(p)
        PROVE  /\ Asked(p).kind = "commit" => mongo'[Asked(p).txn] = "committed"
               /\ Asked(p).kind = "abort" => mongo'[Asked(p).txn] = "aborted"
    <3>1. CASE p = o
      BY <1>5, <3>1 DEF t, k
    <3>2. CASE p # o
      <4>1. p \in executed /\ mongo'[Asked(p).txn] = mongo[Asked(p).txn]
        BY <1>3, <1>5, <1>11, <2>2, <3>2
      <4> QED
        BY <4>1 DEF IInv, Outcomes
    <3> QED
      BY <3>1, <3>2
  <2>3. ASSUME NEW p \in executed', Asked(p).kind = "data", Asked(p).h.op.writes,
               Asked(p).txn = None \/ mongo'[Asked(p).txn] = "committed"
        PROVE  p \in durable'
    <3>1. CASE p = o
      <4>1. k = "data" /\ (t = None \/ mongo'[t] = "committed")
        BY <2>3, <3>1 DEF t, k
      <4>2. t = None
        BY <1>2, <1>5, <4>1
      <4> QED
        BY <1>3, <2>3, <3>1, <4>1, <4>2
    <3>2. CASE p # o
      <4>1. p \in executed /\ p \in Ops
        BY <1>1, <1>3, <3>2
      <4>2. CASE Asked(p).txn = None \/ mongo[Asked(p).txn] = "committed"
        BY <1>3, <2>3, <4>1, <4>2 DEF IInv, Outcomes
      <4>3. CASE Asked(p).txn # None /\ mongo[Asked(p).txn] # "committed"
        <5>1. Asked(p).txn \in TxnIds /\ mongo'[Asked(p).txn] = "committed"
          BY <2>3, <4>1, <4>3, TxnOf
        <5>2. Asked(p).txn = t /\ k = "commit"
          BY <1>1, <1>5, <4>3, <5>1
        <5>3. p \in WritesOf(t)
          BY <1>7, <2>3, <4>1, <5>2
        <5> QED
          BY <1>3, <5>2, <5>3
      <4> QED
        BY <4>2, <4>3
    <3> QED
      BY <3>1, <3>2
  <2>4. ASSUME NEW p \in durable', Asked(p).txn # None PROVE mongo'[Asked(p).txn] = "committed"
    <3>1. CASE p \in durable
      <4>1. mongo[Asked(p).txn] = "committed" /\ Asked(p).txn \in TxnIds
        BY <1>1, <2>4, <3>1, TxnOf DEF IInv, Outcomes
      <4>2. Asked(p).txn # t \/ k = "data"
        BY <1>2, <2>4, <4>1
      <4> QED
        BY <1>5, <4>1, <4>2
    <3>2. CASE p \notin durable
      <4>1. k = "commit" /\ p \in WritesOf(t)
        BY <1>1, <1>3, <2>4, <3>2 DEF t
      <4> QED
        BY <1>5, <1>7, <4>1
    <3> QED
      BY <3>1, <3>2
  <2> QED
    BY <1>10, <2>1, <2>2, <2>3, <2>4 DEF Outcomes, IsEnd
<1> QED
  BY <1>9, <1>12 DEF IInv

LEMMA ExpireStep ==
  ASSUME ServiceAssumption, IInv, NEW t \in TxnIds, Expire(t)
  PROVE  IInv'
<1>1. /\ executed \subseteq Ops /\ durable \subseteq executed /\ inFlight \subseteq Ops
      /\ mongo \in [TxnIds -> {"unused", "open", "committed", "aborted"}]
  BY DEF IInv, Accounts, TypeOK
<1>2. /\ mongo[t] = "open" /\ mongo' = [mongo EXCEPT ![t] = "aborted"]
      /\ UNCHANGED <<req, reply, st, mapState, permits, inFlight, executed, durable, counters>>
  BY DEF Expire
<1>3. /\ mongo' \in [TxnIds -> {"unused", "open", "committed", "aborted"}]
      /\ mongo'[t] = "aborted" /\ \A u \in TxnIds : u # t => mongo'[u] = mongo[u]
  BY <1>1, <1>2
<1>4. Accounts' /\ Shape' /\ Progress' /\ Beginnings' /\ Sessions'
  BY <1>1, <1>2, <1>3, External DEF Ever
<1>5. \A p : Asked(p)' = Asked(p)
  BY <1>2 DEF Asked
<1>6. \A p \in executed : Asked(p).txn # None => Asked(p).txn \in TxnIds
  BY <1>1, TxnOf
<1>7. \A p \in executed : IsEnd(p) => Asked(p).txn # None
  BY <1>1, Operations DEF IInv, Accounts, TypeOK, WellFormed, IsEnd
<1>8. Outcomes'
  <2>1. \A p \in executed : Asked(p).kind = "commit" => mongo'[Asked(p).txn] = "committed"
    BY <1>2, <1>3, <1>6, <1>7 DEF IInv, Outcomes, IsEnd
  <2>2. \A p \in executed : Asked(p).kind = "abort" => mongo'[Asked(p).txn] = "aborted"
    BY <1>2, <1>3, <1>6, <1>7 DEF IInv, Outcomes, IsEnd
  <2>3. \A p \in executed : Asked(p).kind = "data" /\ Asked(p).h.op.writes =>
          (Asked(p).txn = None \/ mongo'[Asked(p).txn] = "committed" => p \in durable)
    BY <1>3, <1>6 DEF IInv, Outcomes
  <2>4. \A p \in durable : Asked(p).txn # None => mongo'[Asked(p).txn] = "committed"
    BY <1>1, <1>2, <1>3, <1>6 DEF IInv, Outcomes
  <2> QED
    BY <1>2, <1>5, <2>1, <2>2, <2>3, <2>4 DEF IInv, Outcomes
<1> QED
  BY <1>4, <1>8 DEF IInv

(* A call returns: the counters are advanced once.                         *)
LEMMA FinishStep ==
  ASSUME ServiceAssumption, IInv, NEW c \in Calls, Finish(c)
  PROVE  IInv'
<1> DEFINE failed == \E i \in Index(c) : st[c][i] # "ok"
           counts == req[c].pipeline \/ (req[c].ops[1].h.event /\ st[c][1] \in {"ok", "error"})
           C == {d \in Calls : Counted(d)}
           F == {d \in Calls : Counted(d) /\ \E i \in Index(d) : st[d][i] # "ok"}
<1>1. /\ reply[c] = "open" /\ c \in DOMAIN req /\ \A i \in Index(c) : st[c][i] \in OpDone
      /\ UNCHANGED <<req, st, mapState, permits, dbState>>
  BY DEF Finish, Runs, IInv, Shape
<1>2. /\ reply \in [Calls -> {"none", "open", "ok", "error", "deadline", "gone"}]
      /\ total = Cardinality(C) /\ errors = Cardinality(F)
  BY DEF IInv, Accounts, TypeOK, CountersMatch
<1>3. /\ reply'[c] \in {"ok", "error"} /\ (\A d \in Calls : d # c => reply'[d] = reply[d])
      /\ reply' \in [Calls -> {"none", "open", "ok", "error", "deadline", "gone"}]
  BY <1>2 DEF Finish
<1>4. total' = total + (IF counts THEN 1 ELSE 0) /\ errors' = errors + (IF counts /\ failed THEN 1 ELSE 0)
  BY DEF Finish, Record
<1>5. /\ Ops' = Ops /\ (\A p : Asked(p)' = Asked(p)) /\ (\A p : At(p)' = At(p))
      /\ (\A d : Index(d)' = Index(d)) /\ Ever' = Ever
      /\ UNCHANGED <<begun, registry, guard, mongo, inFlight, executed, durable>>
  BY <1>1 DEF Ops, Index, Asked, At, mapState, dbState, Ever
<1>6. (Counted(c)' <=> counts) /\ ~Counted(c) /\ \A d \in Calls : d # c => (Counted(d)' <=> Counted(d))
  BY <1>1, <1>3 DEF Counted
<1>7. C' = IF counts THEN C \union {c} ELSE C
  BY <1>6
<1>8. F' = IF counts /\ failed THEN F \union {c} ELSE F
  <2>1. c \in F' <=> counts /\ failed
    BY <1>1, <1>5, <1>6
  <2>2. \A d \in Calls : d # c => (d \in F' <=> d \in F)
    BY <1>1, <1>5, <1>6
  <2>3. c \notin F /\ F \subseteq Calls /\ F' \subseteq Calls
    BY <1>6
  <2> HIDE DEF F, counts, failed
  <2> QED
    BY <2>1, <2>2, <2>3
<1>9. C \subseteq Calls /\ F \subseteq C /\ c \notin C /\ c \notin F /\ C' \subseteq Calls /\ F' \subseteq C'
  BY <1>6
<1>10. CountersMatch' <=> total' = Cardinality(C') /\ errors' = Cardinality(F')
  BY DEF CountersMatch
<1> HIDE DEF C, F, counts, failed
<1>11. /\ IsFiniteSet(Calls) /\ IsFiniteSet(C) /\ IsFiniteSet(F) /\ IsFiniteSet(C')
       /\ Cardinality(C') <= Cardinality(Calls) /\ Cardinality(F') <= Cardinality(C')
       /\ Cardinality(C) \in Nat /\ Cardinality(F) \in Nat /\ Cardinality(C') \in Nat /\ Cardinality(F') \in Nat
  <2>1. IsFiniteSet(Calls)
    BY DEF ServiceAssumption
  <2>2. IsFiniteSet(C) /\ IsFiniteSet(C') /\ Cardinality(C') <= Cardinality(Calls)
    BY <1>9, <2>1, FS_Subset
  <2>3. IsFiniteSet(F) /\ IsFiniteSet(F') /\ Cardinality(F') <= Cardinality(C')
    BY <1>9, <2>2, FS_Subset
  <2> QED
    BY <2>1, <2>2, <2>3, FS_CardinalityType
<1>12. total' = Cardinality(C')
  <2>1. Cardinality(C \union {c}) = Cardinality(C) + 1
    BY <1>9, <1>11, FS_AddElement
  <2> QED
    BY <1>2, <1>4, <1>7, <1>11, <2>1
<1>13. errors' = Cardinality(F')
  <2>1. Cardinality(F \union {c}) = Cardinality(F) + 1
    BY <1>9, <1>11, FS_AddElement
  <2> QED
    BY <1>2, <1>4, <1>8, <1>11, <2>1
<1>14. Accounts'
  <2>1. errors' \in 0 .. total' /\ total' <= Cardinality(Calls)
    BY <1>11, <1>12, <1>13
  <2>2. (\A x \in Shards : guard[x] # None =>
           guard[x] \in Ops /\ At(guard[x]) = "sent" /\ Shard[Asked(guard[x]).txn] = x)'
    BY <1>5 DEF IInv, Accounts, TypeOK
  <2>3. \A o \in Ops' : At(o)' \in OpStates
    BY <1>5 DEF IInv, Accounts, TypeOK
  <2>4. TypeOK'
    BY <1>1, <1>3, <1>5, <2>1, <2>2, <2>3 DEF IInv, Accounts, TypeOK
  <2>5. PermitsConserved'
    BY <1>1, <1>5 DEF IInv, Accounts, PermitsConserved, HoldsPermit
  <2> QED
    BY <1>10, <1>12, <1>13, <2>4, <2>5 DEF Accounts
<1>15. Shape'
  <2>1. \A d \in DOMAIN req : reply'[d] # "open" => \A i \in Index(d) : st[d][i] \in OpDone
    BY <1>1, <1>3, Operations DEF IInv, Shape, Accounts, TypeOK
  <2>2. \A d \in Calls : reply'[d] = "open" => d \in DOMAIN req
    BY <1>1, <1>3 DEF IInv, Shape
  <2> QED
    BY <1>1, <1>5, <2>1, <2>2 DEF IInv, Shape
<1>16. Progress'
  BY <1>1, <1>5 DEF IInv, Progress
<1>17. Beginnings'
  BY <1>5 DEF IInv, Beginnings
<1>18. Sessions'
  BY <1>5 DEF IInv, Sessions, IsEnd
<1>19. Outcomes'
  BY <1>5 DEF IInv, Outcomes
<1> QED
  BY <1>14, <1>15, <1>16, <1>17, <1>18, <1>19 DEF IInv

(* A call is dropped with all that its operations hold.                    *)
LEMMA DropStep ==
  ASSUME ServiceAssumption, IInv, NEW c \in Calls, Drop(c)
  PROVE  IInv'
<1> DEFINE H == {i \in Index(c) : HoldsPermit(c, i)}
<1>1. /\ reply[c] = "open" /\ c \in DOMAIN req
      /\ \A i \in Index(c) : st[c][i] \notin {"insert", "blocked"}
      /\ UNCHANGED <<req, begun, registry, mongo, inFlight, executed, durable, total, errors>>
      /\ permits' = permits + Cardinality(H)
  BY DEF Drop, Runs, Blocked, IInv, Shape, dbState, counters
<1>2. /\ reply' \in [Calls -> {"none", "open", "ok", "error", "deadline", "gone"}]
      /\ reply'[c] \in {"deadline", "gone"} /\ \A d \in Calls : d # c => reply'[d] = reply[d]
  BY DEF Drop, IInv, Accounts, TypeOK
<1>3. /\ Ops' = Ops /\ (\A p : Asked(p)' = Asked(p)) /\ (\A d : Index(d)' = Index(d)) /\ Ever' = Ever
  BY <1>1 DEF Ops, Index, Asked, Ever
<1>4. \A o \in Ops : /\ o[1] \in DOMAIN req /\ o[2] \in Index(o[1]) /\ o = <<o[1], o[2]>> /\ o # None
                     /\ WellFormed(Asked(o))
  BY Operations DEF IInv, Accounts, TypeOK
<1>5. DOMAIN st = DOMAIN req /\ \A d \in DOMAIN req : st[d] \in [Index(d) -> OpStates]
  BY DEF IInv, Shape
<1>6. /\ st' = [st EXCEPT ![c] = [i \in Index(c) |-> IF st[c][i] \in OpDone THEN st[c][i] ELSE "dropped"]]
  BY DEF Drop
<1>7. /\ DOMAIN st' = DOMAIN req /\ \A d \in DOMAIN req : d # c => st'[d] = st[d]
      /\ st'[c] = [i \in Index(c) |-> IF st[c][i] \in OpDone THEN st[c][i] ELSE "dropped"]
  BY <1>1, <1>5, <1>6
<1>8. \A i \in Index(c) : /\ st'[c][i] = IF st[c][i] \in OpDone THEN st[c][i] ELSE "dropped"
                          /\ st'[c][i] \in OpDone
  BY <1>7 DEF OpDone
<1>9. \A o \in Ops : /\ o[1] # c => At(o)' = At(o)
                     /\ o[1] = c => At(o)' = (IF At(o) \in OpDone THEN At(o) ELSE "dropped") /\ At(o)' \in OpDone
  BY <1>4, <1>7, <1>8 DEF At
<1>10. \A d \in DOMAIN req : st'[d] \in [Index(d) -> OpStates]
  <2>1. st'[c] \in [Index(c) -> OpStates]
    BY <1>7, <1>8 DEF OpStates
  <2> QED
    BY <1>5, <1>7, <2>1
<1>11. \A o : o \in Ops /\ o[1] = c <=> o \in {c} \X Index(c)
  <2>1. ASSUME NEW o \in {c} \X Index(c) PROVE o \in Ops /\ o[1] = c
    BY <2>1, Mover
  <2> QED
    BY <1>4, <2>1
<1>12. /\ guard' \in [Shards -> Ops \union {None}]
       /\ \A x \in Shards : guard'[x] = IF guard[x] \in Ops /\ guard[x][1] = c THEN None ELSE guard[x]
  <2>1. guard \in [Shards -> Ops \union {None}]
    BY DEF IInv, Shape
  <2>2. guard' = [x \in Shards |-> IF guard[x] \in {c} \X Index(c) THEN None ELSE guard[x]]
    BY DEF Drop, Unguard
  <2>3. \A x \in Shards : guard'[x] = IF guard[x] \in {c} \X Index(c) THEN None ELSE guard[x]
    BY <2>2
  <2> QED
    BY <1>11, <2>1, <2>2, <2>3
<1>13. /\ IsFiniteSet(Holders) /\ IsFiniteSet(Holders') /\ Cardinality(Holders) \in Nat
       /\ Cardinality(Holders') = Cardinality(Holders) - Cardinality(H)
       /\ Cardinality(H) \in Nat /\ Cardinality(Holders') \in Nat
  <2> DEFINE L == {c} \X H
  <2>1. IsFiniteSet(Holders) /\ IsFiniteSet(Ops)
    BY PermitsOf, FiniteOps DEF IInv, Accounts, TypeOK
  <2>2. IsFiniteSet(H)
    <3>1. Index(c) = 1 .. Len(req[c].ops) /\ Len(req[c].ops) \in Nat
      BY <1>1, Operations DEF IInv, Accounts, TypeOK
    <3>2. IsFiniteSet(Index(c))
      BY <3>1, FS_Interval
    <3> QED
      BY <3>2, FS_Subset
  <2>3. Cardinality(L) = Cardinality(H) /\ IsFiniteSet(L) /\ Cardinality(H) \in Nat
    <3> HIDE DEF H
    <3>1. IsFiniteSet({c}) /\ Cardinality({c}) = 1
      BY FS_Singleton
    <3>2. Cardinality({c} \X H) = Cardinality({c}) * Cardinality(H) /\ IsFiniteSet({c} \X H)
      BY <2>2, <3>1, FS_Product
    <3>3. Cardinality(H) \in Nat
      BY <2>2, FS_CardinalityType
    <3> QED
      BY <3>1, <3>2, <3>3
  <2>4. L \subseteq Holders
    <3>1. SUFFICES ASSUME NEW i \in H PROVE <<c, i>> \in Holders
      OBVIOUS
    <3>2. i \in Index(c) /\ HoldsPermit(c, i) /\ <<c, i>> \in Ops
      BY <3>1, Mover
    <3> QED
      BY <3>2 DEF Holders
  <2>5. Holders' = Holders \ L
    <3>1. \A o \in Ops : o[1] # c => (HoldsPermit(o[1], o[2])' <=> HoldsPermit(o[1], o[2]))
      BY <1>1, <1>4, <1>7 DEF HoldsPermit
    <3>2. \A o \in Ops : o[1] = c => ~HoldsPermit(o[1], o[2])'
      BY <1>4, <1>8 DEF HoldsPermit
    <3>3. \A o : o \in L <=> o \in Holders /\ o[1] = c
      <4>1. ASSUME NEW o \in L PROVE o[1] = c
        OBVIOUS
      <4>2. ASSUME NEW o \in Holders, o[1] = c PROVE o \in L
        <5>1. o = <<c, o[2]>> /\ o[2] \in Index(c) /\ HoldsPermit(c, o[2])
          BY <1>4, <4>2 DEF Holders
        <5> QED
          BY <5>1
      <4> QED
        BY <2>4, <4>1, <4>2
    <3>4. \A o : o \in Holders' <=> o \in Ops /\ HoldsPermit(o[1], o[2])'
      BY <1>3 DEF Holders
    <3>5. \A o : o \in Holders <=> o \in Ops /\ HoldsPermit(o[1], o[2])
      BY DEF Holders
    <3> HIDE DEF L
    <3>6. \A o : o \in Holders' <=> o \in Holders /\ o \notin L
      BY <3>1, <3>2, <3>3, <3>4, <3>5
    <3> QED
      BY <3>6
  <2> HIDE DEF L, H
  <2>6. Holders \cap L = L
    BY <2>4
  <2>7. IsFiniteSet(Holders') /\ Cardinality(Holders') = Cardinality(Holders) - Cardinality(L)
    <3>1. /\ IsFiniteSet(Holders \ L)
          /\ Cardinality(Holders \ L) = Cardinality(Holders) - Cardinality(Holders \cap L)
      BY <2>1, FS_Difference
    <3> QED
      BY <2>5, <2>6, <3>1
  <2> QED
    BY <2>1, <2>3, <2>7, FS_CardinalityType
<1> HIDE DEF H
<1>14. PermitsConserved' /\ permits' \in 0 .. MaxConcurrency
  <2>1. PermitsConserved' <=> permits' + Cardinality(Holders') = MaxConcurrency
    BY DEF PermitsConserved, Holders
  <2>2. permits + Cardinality(Holders) = MaxConcurrency /\ permits \in Nat /\ MaxConcurrency \in Nat
    BY DEF PermitsConserved, Holders, IInv, Accounts, TypeOK, ServiceAssumption
  <2> QED
    BY <1>1, <1>13, <2>1, <2>2
<1>15. CountersMatch'
  <2>1. \A d \in Calls : d # c /\ reply[d] \in {"ok", "error"} => st'[d] = st[d]
    BY <1>6
  <2>2. \A d \in Calls : reply[d] \in {"ok", "error"} => st'[d] = st[d]
    BY <1>1, <2>1
  <2>3. \A d \in Calls : reply'[d] \in {"ok", "error"} <=> reply[d] \in {"ok", "error"}
    BY <1>1, <1>2
  <2> QED
    BY <1>1, <2>2, <2>3, CountersKept DEF counters
<1>16. Accounts'
  <2>1. (\A x \in Shards : guard[x] # None =>
           guard[x] \in Ops /\ At(guard[x]) = "sent" /\ Shard[Asked(guard[x]).txn] = x)'
    <3>1. SUFFICES ASSUME NEW x \in Shards, NEW p, guard'[x] = p, p # None
                   PROVE  (guard[x] \in Ops /\ At(guard[x]) = "sent" /\ Shard[Asked(guard[x]).txn] = x)'
      OBVIOUS
    <3>2. guard[x] = p /\ ~(p \in Ops /\ p[1] = c)
      BY <1>12, <3>1
    <3>3. p \in Ops /\ At(p) = "sent" /\ Shard[Asked(p).txn] = x
      BY <3>1, <3>2 DEF IInv, Accounts, TypeOK
    <3>4. p \in Ops' /\ At(p)' = "sent" /\ Shard[Asked(p)'.txn] = x
      BY <1>3, <1>9, <3>2, <3>3
    <3> QED
      BY <3>1, <3>4 DEF At, Asked
  <2>2. \A o \in Ops' : At(o)' \in OpStates
    BY <1>3, <1>9 DEF IInv, Accounts, TypeOK, OpStates
  <2>3. TypeOK'
    BY <1>1, <1>2, <1>3, <1>14, <2>1, <2>2 DEF IInv, Accounts, TypeOK
  <2> QED
    BY <1>14, <1>15, <2>3 DEF Accounts
<1>17. Shape'
  <2>1. \A d \in DOMAIN req : reply'[d] # "open" => \A i \in Index(d) : st'[d][i] \in OpDone
    <3>1. SUFFICES ASSUME NEW d \in DOMAIN req, reply'[d] # "open" PROVE \A i \in Index(d) : st'[d][i] \in OpDone
      OBVIOUS
    <3>2. CASE d = c
      BY <1>8, <3>2
    <3>3. CASE d # c
      <4>1. d \in Calls /\ reply[d] # "open" /\ st'[d] = st[d]
        BY <1>2, <1>7, <3>1, <3>3, Operations DEF IInv, Accounts, TypeOK
      <4> QED
        BY <4>1 DEF IInv, Shape
    <3> QED
      BY <3>2, <3>3
  <2>2. \A d \in Calls : reply'[d] = "open" => d \in DOMAIN req
    BY <1>1, <1>2 DEF IInv, Shape
  <2> QED
    BY <1>1, <1>3, <1>7, <1>10, <1>12, <2>1, <2>2 DEF Shape
<1>18. Progress'
  <2>1. ASSUME NEW p \in Ops
        PROVE  /\ At(p)' = "sent" => p \in Ever'
               /\ At(p)' \in {"permit", "ready", "insert", "blocked", "refused", "notfound"} => p \notin Ever'
               /\ At(p)' = "ok" /\ Asked(p)'.kind # "begin" => p \in executed'
               /\ At(p)' = "permit" => req'[p[1]].pipeline
               /\ At(p)' = "insert" => Asked(p)'.kind = "begin"
               /\ At(p)' = "blocked" => Asked(p)'.kind = "begin" \/ Asked(p)'.txn # None
    <3>1. CASE At(p)' = At(p)
      BY <1>1, <1>3, <3>1 DEF IInv, Progress
    <3>2. CASE At(p)' # At(p)
      <4>1. At(p)' = "dropped"
        BY <1>9, <3>2
      <4> QED
        BY <4>1
    <3> QED
      BY <3>1, <3>2
  <2> QED
    BY <1>3, <2>1 DEF Progress
<1>19. Beginnings'
  <2>1. \A p \in begun : p[1] \in Ops
    BY DEF IInv, Accounts, TypeOK
  <2>2. \A p \in begun : At(p[1])' = At(p[1])
    <3>1. ASSUME NEW p \in begun, p[1][1] = c PROVE At(p[1]) = "ok"
      BY <1>1, <1>4, <2>1, <3>1 DEF IInv, Beginnings, At
    <3> QED
      BY <1>9, <2>1, <3>1 DEF OpDone
  <2>3. \A p \in Ops : At(p)' \in {"insert", "blocked"} => At(p)' = At(p)
    BY <1>9 DEF OpDone
  <2> QED
    BY <1>1, <1>3, <2>1, <2>2, <2>3 DEF IInv, Beginnings
<1>20. Sessions'
  <2>1. \A p \in Ops : At(p)' = "sent" => p[1] # c /\ At(p) = "sent"
    BY <1>9 DEF OpDone
  <2>2. (\A x \in Shards : guard[x] # None => Asked(guard[x]).txn # None)'
    BY <1>1, <1>12 DEF IInv, Sessions, Asked
  <2>3. ASSUME NEW p \in Ops, At(p)' = "sent", Asked(p).kind = "data", Asked(p).txn # None
        PROVE  guard'[Shard[Asked(p).txn]] = p
    BY <1>12, <2>1, <2>3, TxnOf DEF IInv, Sessions
  <2> QED
    BY <1>1, <1>3, <2>1, <2>2, <2>3 DEF IInv, Sessions, IsEnd
<1>21. Outcomes'
  BY <1>1, <1>3 DEF IInv, Outcomes
<1> QED
  BY <1>16, <1>17, <1>18, <1>19, <1>20, <1>21 DEF IInv

-----------------------------------------------------------------------------
LEMMA InitialState == ASSUME ServiceAssumption, Init PROVE IInv
<1>1. req \in Scenes /\ \A o \in Ops : o[1] \in DOMAIN req /\ o[2] \in Index(o[1]) /\ o = <<o[1], o[2]>>
  BY Operations DEF Init
<1>2. /\ DOMAIN st = DOMAIN req
      /\ \A c \in DOMAIN req : st[c] = [i \in Index(c) |-> IF req[c].pipeline THEN "permit" ELSE "ready"]
  BY DEF Init
<1>3. \A o \in Ops : At(o) = IF req[o[1]].pipeline THEN "permit" ELSE "ready"
  BY <1>1, <1>2 DEF At
<1>4. \A o \in Ops : At(o) \in {"permit", "ready"} /\ (At(o) = "permit" => req[o[1]].pipeline)
  BY <1>3
<1>5. Shape
  <2>1. \A c \in DOMAIN req : st[c] \in [Index(c) -> OpStates]
    BY <1>2 DEF OpStates
  <2>2. DOMAIN req \subseteq Calls
    BY <1>1 DEF ServiceAssumption
  <2>3. \A c \in Calls : reply[c] = "open" <=> c \in DOMAIN req
    BY DEF Init
  <2>4. guard \in [Shards -> Ops \union {None}]
    BY DEF Init
  <2> QED
    BY <1>2, <2>1, <2>2, <2>3, <2>4 DEF Shape
<1>6. Accounts
  <2>1. CountersMatch
    <3>1. \A c \in Calls : ~Counted(c)
      BY DEF Init, Counted
    <3>2. {c \in Calls : Counted(c)} = {}
          /\ {c \in Calls : Counted(c) /\ \E i \in Index(c) : st[c][i] # "ok"} = {}
      BY <3>1
    <3> QED
      BY <3>2, FS_EmptySet DEF CountersMatch, Init
  <2>2. PermitsConserved
    <3>1. \A o \in Ops : ~HoldsPermit(o[1], o[2])
      BY <1>3 DEF HoldsPermit, At
    <3>2. {o \in Ops : HoldsPermit(o[1], o[2])} = {}
      BY <3>1
    <3>3. Cardinality({o \in Ops : HoldsPermit(o[1], o[2])}) = 0
      BY <3>2, FS_EmptySet
    <3>4. permits + 0 = MaxConcurrency
      BY DEF Init, ServiceAssumption
    <3> QED
      BY <3>3, <3>4 DEF PermitsConserved
  <2>3. Cardinality(Calls) \in Nat
    BY FS_CardinalityType DEF ServiceAssumption
  <2>4. \A o \in Ops : At(o) \in OpStates
    BY <1>4 DEF OpStates
  <2>5. reply \in [Calls -> {"none", "open", "ok", "error", "deadline", "gone"}]
    BY DEF Init
  <2>6. mongo \in [TxnIds -> {"unused", "open", "committed", "aborted"}]
    BY DEF Init
  <2>7. TypeOK
    BY <2>3, <2>4, <2>5, <2>6 DEF Init, TypeOK, ServiceAssumption
  <2> QED
    BY <2>1, <2>2, <2>7 DEF Accounts
<1>7. Ever = {}
  BY DEF Init, Ever
<1>8. Progress
  BY <1>4, <1>7 DEF Progress
<1>9. Beginnings
  BY <1>4 DEF Init, Beginnings
<1>10. Sessions
  BY <1>4, <1>7 DEF Init, Sessions
<1>11. Outcomes
  BY DEF Init, Outcomes
<1> QED
  BY <1>5, <1>6, <1>8, <1>9, <1>10, <1>11 DEF IInv

LEMMA StandsStill == ASSUME ServiceAssumption, IInv, UNCHANGED vars PROVE IInv'
<1>1. Accounts' /\ Shape' /\ Progress' /\ Beginnings' /\ Sessions'
  BY External DEF vars, mapState, counters, Ever, IInv, Accounts, TypeOK
<1>2. Outcomes'
  BY DEF vars, IInv, Outcomes, Asked
<1> QED
  BY <1>1, <1>2 DEF IInv

LEMMA Invariance == ASSUME ServiceAssumption, IInv, [Next]_vars PROVE IInv'
<1>1. ASSUME NEW c \in Calls, NEW i \in Index(c), OpStep(c, i) PROVE IInv'
  BY <1>1, SettlingSteps, SendingSteps, BeganStep, EnterStep DEF OpStep
<1>2. ASSUME NEW c \in Calls, Step(c) \/ Drop(c) PROVE IInv'
  BY <1>1, <1>2, FinishStep, DropStep DEF Step
<1> QED
  BY <1>2, ExecuteStep, ExpireStep, StandsStill DEF Next

LEMMA Invariant == ASSUME ServiceAssumption PROVE Spec => []IInv
<1>1. Init => IInv
  BY InitialState
<1>2. IInv /\ [Next]_vars => IInv'
  BY Invariance
<1> QED
  BY <1>1, <1>2, PTL DEF Spec

-----------------------------------------------------------------------------
(* Who uses a session.                                                     *)
LEMMA OneUser ==
  ASSUME ServiceAssumption, IInv, NEW t \in TxnIds, NEW o \in Sent(t), NEW p \in Sent(t)
  PROVE  o = p
<1>1. /\ o \in Ops /\ At(o) = "sent" /\ Asked(o).txn = t /\ p \in Ops /\ At(p) = "sent" /\ Asked(p).txn = t
      /\ t # None
  BY DEF Sent, ServiceAssumption
<1>2. Asked(o).kind \in {"data", "commit", "abort"} /\ Asked(p).kind \in {"data", "commit", "abort"}
  BY <1>1, TxnOf, Operations DEF IInv, Accounts, TypeOK, WellFormed, Kinds
<1>3. o \in Ever /\ p \in Ever
  BY <1>1 DEF IInv, Progress
<1>4. CASE IsEnd(o) \/ IsEnd(p)
  BY <1>1, <1>3, <1>4 DEF IInv, Sessions
<1>5. CASE ~IsEnd(o) /\ ~IsEnd(p)
  BY <1>1, <1>2, <1>5 DEF IInv, Sessions, IsEnd
<1> QED
  BY <1>4, <1>5

(* No operation of a transaction is under way beside another: the driver's *)
(* session has one user at a time (the map guard held across the await in  *)
(* the handlers of src/grpc/service.rs).                                   *)
THEOREM SessionHasOneUser == ASSUME ServiceAssumption PROVE Spec => []SessionExclusive
<1>1. ASSUME IInv PROVE SessionExclusive
  <2>1. SUFFICES ASSUME NEW t \in TxnIds PROVE Cardinality(Sent(t)) <= 1
    BY DEF SessionExclusive
  <2>2. CASE Sent(t) = {}
    BY <2>2, FS_EmptySet
  <2>3. CASE Sent(t) # {}
    <3>1. PICK o \in Sent(t) : TRUE
      BY <2>3
    <3>2. Sent(t) = {o}
      BY <1>1, <3>1, OneUser
    <3>3. Cardinality(Sent(t)) = 1
      BY <3>2, FS_Singleton
    <3> QED
      BY <3>3
  <2> QED
    BY <2>2, <2>3
<1> QED
  BY <1>1, Invariant, PTL

(* The books of the service: types, guards, permits and counters.          *)
THEOREM AccountsBalance == ASSUME ServiceAssumption PROVE Spec => []Accounts
<1>1. IInv => Accounts
  BY DEF IInv
<1> QED
  BY <1>1, Invariant, PTL

(* Transactions are atomic, and what a call is told is what MongoDB has.   *)
THEOREM ResultsAreTrue == ASSUME ServiceAssumption PROVE Spec => []ResultsTrue
<1>1. ASSUME IInv PROVE TransactionAtomic
  <2>1. SUFFICES ASSUME NEW t \in TxnIds
                 PROVE  IF mongo[t] = "committed"
                          THEN {o \in Ops : Asked(o).txn = t /\ Asked(o).h.op.writes /\ At(o) = "ok"} \subseteq durable
                          ELSE \A o \in durable : Asked(o).txn # t
    BY DEF TransactionAtomic
  <2>2. t # None
    BY DEF ServiceAssumption
  <2>3. CASE mongo[t] = "committed"
    <3>1. SUFFICES ASSUME NEW o \in Ops, Asked(o).txn = t, Asked(o).h.op.writes, At(o) = "ok" PROVE o \in durable
      BY <2>3
    <3>2. Asked(o).kind = "data"
      BY <1>1, <2>2, <3>1, TxnOf, Operations DEF IInv, Accounts, TypeOK, WellFormed, Kinds
    <3>3. o \in executed
      BY <1>1, <3>1, <3>2 DEF IInv, Progress
    <3> QED
      BY <1>1, <2>3, <3>1, <3>2, <3>3 DEF IInv, Outcomes
  <2>4. CASE mongo[t] # "committed"
    BY <1>1, <2>2, <2>4 DEF IInv, Outcomes
  <2> QED
    BY <2>3, <2>4
<1>2. ASSUME IInv PROVE ResultsHonest
  <2>1. SUFFICES ASSUME NEW o \in Ops
                 PROVE  /\ At(o) \in {"refused", "notfound", "permit"} => o \notin Ever
                        /\ At(o) = "ok" /\ Asked(o).kind = "commit" => mongo[Asked(o).txn] = "committed"
                        /\ At(o) = "ok" /\ Asked(o).kind = "abort" => mongo[Asked(o).txn] = "aborted"
                        /\ At(o) = "ok" /\ Asked(o).kind = "data" /\ Asked(o).h.op.writes /\ Asked(o).txn = None
                             => o \in durable
    BY DEF ResultsHonest, Ever
  <2>2. At(o) = "ok" /\ Asked(o).kind # "begin" => o \in executed
    BY <1>2 DEF IInv, Progress
  <2> QED
    BY <1>2, <2>2 DEF IInv, Progress, Outcomes
<1>3. IInv => ResultsTrue
  BY <1>1, <1>2 DEF ResultsTrue
<1> QED
  BY <1>3, Invariant, PTL

(* What a step may send: what has no transaction, or has one in the map.   *)
LEMMA Senders ==
  ASSUME ServiceAssumption, IInv, [Next]_vars
  PROVE  /\ Ops' = Ops /\ \A p : Asked(p)' = Asked(p)
         /\ \A o \in Ops : At(o)' = "sent" /\ At(o) # "sent" =>
              Asked(o).txn = None \/ Asked(o).txn \in registry
<1>1. req' = req
  <2>1. \A c \in Calls : \A i \in Index(c) : OpStep(c, i) => req' = req
    BY DEF OpStep, Acquire, Refuse, SendPlain, Block, Lookup, NotFound, TakeOut, Began, Enter, Answer, TimedOut
  <2>2. \A c \in Calls : Finish(c) \/ Drop(c) => req' = req
    BY DEF Finish, Drop
  <2>3. \A o \in inFlight : Execute(o) => req' = req
    BY DEF Execute
  <2>4. \A t \in TxnIds : Expire(t) => req' = req
    BY DEF Expire
  <2>5. UNCHANGED vars => req' = req
    BY DEF vars
  <2> QED
    BY <2>1, <2>2, <2>3, <2>4, <2>5 DEF Next, Step
<1>2. Ops' = Ops /\ \A p : Asked(p)' = Asked(p)
  BY <1>1 DEF Ops, Index, Asked
<1>3. SUFFICES ASSUME NEW o \in Ops, At(o)' = "sent", At(o) # "sent"
               PROVE  Asked(o).txn = None \/ Asked(o).txn \in registry
  BY <1>2
<1>4. ASSUME NEW c \in Calls, NEW i \in Index(c), NEW s \in OpStates, Go(c, i, s)
      PROVE  s = "sent" /\ o = <<c, i>>
  BY <1>1, <1>3, <1>4, Located DEF Moves
<1>5. ASSUME NEW c \in Calls, NEW i \in Index(c), OpStep(c, i)
      PROVE  Asked(o).txn = None \/ Asked(o).txn \in registry
  <2>1. {"ready", "blocked", "insert", "refused", "notfound", "ok", "error", "sent"} \subseteq OpStates
    BY DEF OpStates, OpDone
  <2>2. CASE SendPlain(c, i)
    BY <1>4, <2>1, <2>2 DEF SendPlain, Send, Asked
  <2>3. CASE Lookup(c, i)
    BY <1>4, <2>1, <2>3 DEF Lookup, Send, Asked, Wanted
  <2>4. CASE TakeOut(c, i)
    BY <1>4, <2>1, <2>4 DEF TakeOut, Ends, Send, Asked, Wanted
  <2>5. CASE ~(SendPlain(c, i) \/ Lookup(c, i) \/ TakeOut(c, i))
    <3>1. \E s \in OpStates \ {"sent"} : Go(c, i, s)
      BY <1>5, <2>1, <2>5 DEF OpStep, Acquire, Refuse, Block, NotFound, Began, Enter, Answer, TimedOut, End
    <3> QED
      BY <1>4, <3>1
  <2> QED
    BY <2>2, <2>3, <2>4, <2>5
<1>6. ASSUME st' = st PROVE FALSE
  BY <1>3, <1>6 DEF At
<1>7. ASSUME NEW c \in Calls, Drop(c) PROVE FALSE
  <2>1. /\ o[1] \in DOMAIN req /\ o[2] \in Index(o[1]) /\ DOMAIN st = DOMAIN req
    BY Operations DEF IInv, Accounts, TypeOK, Shape
  <2>2. st' = [st EXCEPT ![c] = [i \in Index(c) |-> IF st[c][i] \in OpDone THEN st[c][i] ELSE "dropped"]]
    BY <1>7 DEF Drop
  <2>3. CASE o[1] = c
    <3>1. st'[c] = [i \in Index(c) |-> IF st[c][i] \in OpDone THEN st[c][i] ELSE "dropped"]
      BY <2>1, <2>2, <2>3
    <3>2. At(o)' = IF At(o) \in OpDone THEN At(o) ELSE "dropped"
      BY <2>1, <2>3, <3>1 DEF At
    <3> QED
      BY <1>3, <3>2
  <2>4. CASE o[1] # c
    BY <1>3, <2>1, <2>2, <2>4 DEF At
  <2> QED
    BY <2>3, <2>4
<1>8. ASSUME NEW c \in Calls, Finish(c) PROVE FALSE
  BY <1>6, <1>8 DEF Finish
<1>9. ASSUME NEW p \in inFlight, Execute(p) PROVE FALSE
  BY <1>6, <1>9 DEF Execute
<1>10. ASSUME NEW t \in TxnIds, Expire(t) PROVE FALSE
  BY <1>6, <1>10 DEF Expire
<1>11. ASSUME UNCHANGED vars PROVE FALSE
  BY <1>6, <1>11 DEF vars
<1> QED
  BY <1>5, <1>7, <1>8, <1>9, <1>10, <1>11 DEF Next, Step

(* Once its commit or abort was sent, nothing is sent in a transaction any *)
(* more: the handlers take it out of the map before they send.             *)
THEOREM EndedStaysGone == ASSUME ServiceAssumption PROVE Spec => EndedIsGone
<1>1. ASSUME IInv, [Next]_vars
      PROVE  [\A t \in TxnIds : SentEnd(t) => Sent(t)' \subseteq Sent(t)]_vars
  <2>1. SUFFICES ASSUME NEW t \in TxnIds, SentEnd(t), NEW o \in Ops', At(o)' = "sent", Asked(o)'.txn = t
                 PROVE  o \in Sent(t)
    BY DEF Sent
  <2>2. t \notin registry /\ t # None
    <3>1. PICK e \in Ops : Asked(e).txn = t /\ IsEnd(e) /\ e \in Ever
      BY <2>1 DEF SentEnd, Ending, IsEnd, Ever
    <3> QED
      BY <1>1, <3>1 DEF IInv, Sessions, ServiceAssumption
  <2>3. o \in Ops /\ Asked(o).txn = t
    BY <1>1, <2>1, Senders
  <2>4. At(o) = "sent"
    BY <1>1, <2>1, <2>2, <2>3, Senders
  <2> QED
    BY <2>3, <2>4 DEF Sent
<1> QED
  BY <1>1, Invariant, PTL DEF Spec, EndedIsGone
=============================================================================
