----------------------- MODULE BinaryConnection_proof -----------------------
(***************************************************************************)
(* Proofs about BinaryConnection for every set of frame shapes, number of  *)
(* frames and concurrency limit.                                           *)
(***************************************************************************)
EXTENDS BinaryConnection, FiniteSetTheorems, TLAPS

(* The invariant has a part about the program counter and one, Order,      *)
(* about where the frames read so far are.  Order does not mention the     *)
(* program counter, so it has one lemma for each way frames move.          *)
orderVars == <<sent, taken, queue, cur, handled, lost>>

Class(i) == ClassOf(sent[i])

QueueOrder ==
  \A c \in Classes : \A k \in 1 .. Len(queue[c]) :
    /\ queue[c][k] \in 2 .. taken /\ queue[c][k] \notin lost
    /\ Class(queue[c][k]) = c
    /\ \A j \in 1 .. Len(queue[c]) : j < k => queue[c][j] < queue[c][k]

HandledOrder ==
  \A k \in 1 .. Len(handled) :
    /\ handled[k] \in 2 .. taken /\ handled[k] \notin lost
    /\ \A j \in 1 .. Len(handled) :
         j < k /\ Class(handled[j]) = Class(handled[k]) => handled[j] < handled[k]

HandledBeforeQueued ==
  \A c \in Classes : \A k \in 1 .. Len(queue[c]) : \A j \in 1 .. Len(handled) :
    Class(handled[j]) = c => handled[j] < queue[c][k]

CurBetween ==
  cur # 0 =>
    /\ cur \in 2 .. taken /\ cur \notin lost
    /\ \A j \in 1 .. Len(handled) : Class(handled[j]) = Class(cur) => handled[j] < cur
    /\ \A c \in Classes : \A k \in 1 .. Len(queue[c]) : Class(cur) = c => cur < queue[c][k]

NoneMissing ==
  \A i \in 2 .. taken : Queued(i) \/ cur = i \/ Handled(i) \/ i \in lost

Order ==
  /\ QueueOrder /\ HandledOrder /\ HandledBeforeQueued /\ CurBetween /\ NoneMissing
  /\ lost \subseteq 1 .. taken

(* The greeting is frame 1 and comes first, so later frames are from 2 on. *)
Greeted ==
  /\ pc = "handshake" => taken = 0
  /\ pc \notin {"handshake", "closed"} => taken >= 1

IInv == TypeOK /\ Greeted /\ Order

-----------------------------------------------------------------------------
(* A frame the client may write has a class the queue knows.               *)
LEMMA ClassOfShape ==
  ASSUME NEW f \in Shapes
  PROVE  ClassOf(f) \in Classes
BY ConnAssumption DEF ClassOf, ResolvePriority, Classes, Shape, Priorities

(* The frame the reader is about to take is one the client has sent.       *)
LEMMA ReadyFrame ==
  ASSUME TypeOK, FrameReady \/ HalfReady
  PROVE  /\ Next1 \in 1 .. Len(sent) /\ Next1 \in Nat
         /\ sent[Next1] \in Shapes /\ taken \in Nat
BY DEF TypeOK, FrameReady, HalfReady, Next1

(* Processing a frame leaves lists of answers and goes back to the loop or *)
(* ends it.                                                                *)
LEMMA AnswersTyped ==
  ASSUME TypeOK, RejectEnvelope \/ Dispatch
  PROVE  pc' \in {"select", "closed"} /\ pending' \in Seq(Response) /\ out' \in Seq(Response)
<1> DEFINE Typed == pc' \in {"select", "closed"} /\ pending' \in Seq(Response)
                    /\ out' \in Seq(Response)
<1> USE DEF TypeOK
<1>1. ASSUME NEW rs \in Seq(Response), WriteAll(rs) \/ WriteFails(rs)
      PROVE  out' \in Seq(Response)
  <2>1. \A k \in 0 .. Len(rs) : SubSeq(rs, 1, k) \in Seq(Response)
    OBVIOUS
  <2>2. \A ts \in Seq(Response) : out \o ts \in Seq(Response)
    OBVIOUS
  <2>3. CASE WriteAll(rs)
    BY <2>2, <2>3 DEF WriteAll
  <2>4. CASE WriteFails(rs)
    BY <2>1, <2>2, <2>4 DEF WriteFails
  <2>5. QED
    BY <1>1, <2>3, <2>4
<1>2. ASSUME NEW r \in Response, Answer(r) PROVE Typed
  <2>1. Append(pending, r) \in Seq(Response)
    OBVIOUS
  <2>2. CASE Buffer(r)
    BY <2>1, <2>2 DEF Buffer
  <2>3. CASE FlushBatch(r)
    <3>1. pending' = <<>> /\ pc' \in {"select", "closed"}
      BY <2>3 DEF FlushBatch
    <3>2. out' \in Seq(Response)
      BY <1>1, <2>1, <2>3 DEF FlushBatch
    <3>3. QED
      BY <3>1, <3>2
  <2>4. QED
    BY <1>2, <2>2, <2>3 DEF Answer
<1>3. FlushPending => Typed
  BY <1>1 DEF FlushPending
<1>4. \A kind \in {"reply", "error"} : [id |-> cur, kind |-> kind] \in Response
  BY DEF Response
<1>5. CASE RejectEnvelope
  BY <1>2, <1>4, <1>5 DEF RejectEnvelope
<1>6. CASE Dispatch
  <2>1. PICK kind \in {"reply", "error"} :
          IF ~sent[cur].noReply
            THEN Answer([id |-> cur, kind |-> kind])
            ELSE IF sent[cur].batch
                   THEN pc' = "select" /\ UNCHANGED <<pending, out>>
                   ELSE FlushPending
    BY <1>6 DEF Dispatch
  <2>2. QED
    BY <1>2, <1>3, <1>4, <2>1
<1>7. QED
  BY <1>5, <1>6

(* Every action either leaves the socket's and queue's bookkeeping alone   *)
(* or keeps it within its types.                                           *)
LEMMA TypeStep == IInv /\ [Next]_vars => TypeOK'
<1> SUFFICES ASSUME IInv, [Next]_vars PROVE TypeOK'
  OBVIOUS
<1>0. TypeOK
  BY DEF IInv
<1> USE <1>0 DEF TypeOK
<1>1. ASSUME NEW f \in Shapes, SendFrame(f) PROVE TypeOK'
  <2>1. sent' \in Seq(Shapes) /\ Len(sent') = Len(sent) + 1
    BY <1>1 DEF SendFrame
  <2>2. half' \in BOOLEAN
    BY <1>1 DEF SendFrame
  <2>3. QED
    BY <1>1, <2>1, <2>2 DEF SendFrame, readVars, answerVars
<1>2. CASE SendRest
  BY <1>2 DEF SendRest, readVars, answerVars
<1>3. CASE PeerClose
  BY <1>3 DEF PeerClose, readVars, answerVars
<1>4. CASE SignalShutdown
  BY <1>4 DEF SignalShutdown, readVars, answerVars
<1>5. CASE Handshake
  <2>1. taken' \in 0 .. Len(sent) /\ taken' = taken + 1 /\ taken' \in Nat
    BY <1>5, ReadyFrame DEF Handshake, Next1
  <2>2. lost' \in SUBSET Nat /\ pc' \in {"select", "closed"} /\ control' \in SUBSET Control
    BY <1>5, <2>1 DEF Handshake, Tell, Next1, Control, PCs
  <2>3. QED
    BY <1>5, <2>1, <2>2 DEF Handshake, PCs, clientVars, answerVars
<1>6. CASE PopQueue
  <2>1. PICK c \in Classes : PopClass(c) /\ cur' = Head(queue[c])
                             /\ queue' = [queue EXCEPT ![c] = Tail(@)]
    BY <1>6 DEF PopQueue
  <2>2. queue' \in [Classes -> Seq(Nat)]
    BY <2>1 DEF PopClass, Nonempty
  <2>3. cur' \in 2 .. taken
    <3>1. 1 \in 1 .. Len(queue[c]) /\ cur' = queue[c][1]
      BY <2>1 DEF PopClass, Nonempty
    <3>2. QED
      BY <3>1 DEF IInv, Order, QueueOrder
  <2>4. QED
    BY SMTT(20), <1>6, <2>2, <2>3 DEF PopQueue, PCs, clientVars, readVars, answerVars
<1>7. CASE ReadFrame
  <2>1. taken' = taken + 1 /\ cur' = taken + 1 /\ taken + 1 \in 1 .. Len(sent)
    BY <1>7, ReadyFrame DEF ReadFrame, Next1
  <2>2. QED
    BY <1>7, <2>1 DEF ReadFrame, PCs, clientVars, answerVars
<1>8. CASE ReadMalformed
  <2>1. taken' = taken + 1 /\ taken + 1 \in 1 .. Len(sent) /\ lost' = lost \cup {taken + 1}
    BY <1>8, ReadyFrame DEF ReadMalformed, Next1
  <2>2. QED
    BY <1>8, <2>1 DEF ReadMalformed, PCs, clientVars, answerVars
<1>9. CASE ReadEof \/ ReadGarbage
  BY <1>9 DEF ReadEof, ReadGarbage, PCs, clientVars, readVars, answerVars
<1>10. CASE CoalesceRead
  <2>1. taken' = taken + 1 /\ taken + 1 \in 1 .. Len(sent) /\ sent[taken + 1] \in Shapes
    BY <1>10, ReadyFrame DEF CoalesceRead, Next1
  <2>2. queue' \in [Classes -> Seq(Nat)]
    BY <1>10, <2>1, ClassOfShape DEF CoalesceRead, Push, Next1
  <2>3. QED
    BY <1>10, <2>1, <2>2 DEF CoalesceRead, PCs, clientVars, answerVars
<1>11. CASE CoalesceMalformed \/ CoalesceTear
  <2>1. taken' = taken + 1 /\ taken + 1 \in 1 .. Len(sent) /\ lost' = lost \cup {taken + 1}
    BY <1>11, ReadyFrame DEF CoalesceMalformed, CoalesceTear, Next1
  <2>2. torn' \in BOOLEAN /\ pc = "coalesce" /\ pc' = "handle"
    BY <1>11 DEF CoalesceMalformed, CoalesceTear
  <2>3. QED
    BY <1>11, <2>1, <2>2 DEF CoalesceMalformed, CoalesceTear, PCs, clientVars, answerVars
<1>12. CASE CoalesceStop
  BY <1>12 DEF CoalesceStop, PCs, clientVars, readVars, answerVars
<1>13. CASE RejectEnvelope \/ Dispatch
  <2>1. pc' \in {"select", "closed"} /\ pending' \in Seq(Response) /\ out' \in Seq(Response)
    BY <1>13, AnswersTyped DEF IInv
  <2>2. Finish
    BY <1>13 DEF RejectEnvelope, Dispatch
  <2>3. cur \in Nat
    OBVIOUS
  <2>4. handled' \in Seq(Nat) /\ cur' = 0
    BY <2>2, <2>3 DEF Finish
  <2>5. QED
    BY <2>1, <2>2, <2>4 DEF Finish, PCs, clientVars, readVars
<1>14. CASE BeginDrain
  <2>1. control' \in SUBSET Control
    BY <1>14 DEF BeginDrain, Tell, Control
  <2>2. QED
    BY <1>14, <2>1 DEF BeginDrain, PCs, clientVars, readVars, answerVars
<1>15. CASE DrainRead
  <2>1. taken' = taken + 1 /\ taken + 1 \in 1 .. Len(sent) /\ lost' = lost \cup {taken + 1}
    BY <1>15, ReadyFrame DEF DrainRead, Next1
  <2>2. QED
    BY <1>15, <2>1 DEF DrainRead, PCs, clientVars, answerVars
<1>16. CASE DrainTimeout
  BY <1>16 DEF DrainTimeout, PCs, clientVars, readVars, answerVars
<1>17. CASE UNCHANGED vars
  BY <1>17 DEF vars
<1>18. QED
  BY <1>1, <1>2, <1>3, <1>4, <1>5, <1>6, <1>7, <1>8, <1>9, <1>10, <1>11, <1>12, <1>13,
     <1>14, <1>15, <1>16, <1>17 DEF Next, Client, Progress

-----------------------------------------------------------------------------
(* The client's writes do not touch what was read: frames keep their class. *)
LEMMA OrderSend ==
  ASSUME IInv, NEW f \in Shapes, SendFrame(f)
  PROVE  Order'
<1> USE DEF IInv, Order
<1>1. /\ taken \in 0 .. Len(sent) /\ sent \in Seq(Shapes)
      /\ UNCHANGED <<taken, queue, cur, handled, lost>> /\ sent' = Append(sent, f)
  BY DEF SendFrame, readVars, answerVars, TypeOK
<1>2. \A i \in 1 .. taken : Class(i)' = Class(i)
  BY <1>1 DEF Class
<1>3. QueueOrder'
  BY <1>1, <1>2 DEF QueueOrder
<1>4. HandledOrder'
  <2>1. \A k \in 1 .. Len(handled) : Class(handled[k])' = Class(handled[k])
    BY <1>1, <1>2 DEF HandledOrder
  <2>2. QED
    BY <1>1, <2>1 DEF HandledOrder
<1>5. HandledBeforeQueued'
  <2>1. \A k \in 1 .. Len(handled) : Class(handled[k])' = Class(handled[k])
    BY <1>1, <1>2 DEF HandledOrder
  <2>2. QED
    BY <1>1, <2>1 DEF HandledBeforeQueued
<1>6. CurBetween'
  <2>1. \A k \in 1 .. Len(handled) : Class(handled[k])' = Class(handled[k])
    BY <1>1, <1>2 DEF HandledOrder
  <2>2. cur # 0 => Class(cur)' = Class(cur)
    BY <1>1, <1>2 DEF CurBetween
  <2>3. QED
    BY <1>1, <2>1, <2>2 DEF CurBetween
<1>7. NoneMissing'
  BY <1>1 DEF NoneMissing, Queued, Handled
<1>8. QED
  BY <1>1, <1>3, <1>4, <1>5, <1>6, <1>7

(* A frame that is read and given up: everything else keeps its place.     *)
LEMMA OrderDiscard ==
  ASSUME IInv, taken' = taken + 1, lost' = lost \cup {taken + 1},
         UNCHANGED <<sent, queue, cur, handled>>
  PROVE  Order'
<1> USE DEF IInv, Order
<1>1. taken \in Nat /\ lost \in SUBSET Nat /\ taken + 1 \notin 2 .. taken
  BY DEF TypeOK
<1>2. QueueOrder'
  BY <1>1 DEF QueueOrder, Class
<1>3. HandledOrder'
  BY <1>1 DEF HandledOrder, Class
<1>4. HandledBeforeQueued'
  BY DEF HandledBeforeQueued, Class
<1>5. CurBetween'
  BY <1>1 DEF CurBetween, Class
<1>6. NoneMissing'
  <2>1. \A i \in 2 .. taken' : i \in 2 .. taken \/ i = taken + 1
    BY <1>1
  <2>2. QED
    BY <2>1 DEF NoneMissing, Queued, Handled
<1>7. (lost \subseteq 1 .. taken)'
  BY <1>1
<1>8. QED
  BY <1>2, <1>3, <1>4, <1>5, <1>6, <1>7

(* The first frame becomes neither current nor queued.                     *)
LEMMA GreetingOrder ==
  ASSUME IInv, taken = 0, taken' = 1, lost' \subseteq lost \cup {1},
         UNCHANGED <<sent, queue, cur, handled>>
  PROVE  Order'
<1> USE DEF IInv, Order
<1>1. 2 .. taken = {} /\ 2 .. taken' = {} /\ 1 .. taken = {}
  OBVIOUS
<1>2. lost = {} /\ (lost \subseteq 1 .. taken)'
  BY <1>1
<1>3. (\A c \in Classes : 1 .. Len(queue[c]) = {}) /\ 1 .. Len(handled) = {} /\ cur = 0
  BY <1>1 DEF QueueOrder, HandledOrder, CurBetween
<1>4. QED
  BY <1>1, <1>2, <1>3 DEF QueueOrder, HandledOrder, HandledBeforeQueued, CurBetween, NoneMissing

(* A frame read at the loop head: the queue is empty, every other frame    *)
(* read so far has been handled or given up.                               *)
LEMMA OrderRead ==
  ASSUME IInv, QueueEmpty, cur = 0, taken >= 1, taken' = taken + 1, cur' = taken + 1,
         UNCHANGED <<sent, queue, handled, lost>>
  PROVE  Order'
<1> USE DEF IInv, Order
<1>1. taken \in Nat /\ taken + 1 \notin lost /\ taken + 1 \in 2 .. taken'
  BY DEF TypeOK
<1>2. \A c \in Classes : queue[c] = <<>> /\ Len(queue[c]) = 0
  BY DEF QueueEmpty, Nonempty
<1>3. QueueOrder' /\ HandledBeforeQueued'
  BY <1>2 DEF QueueOrder, HandledBeforeQueued
<1>4. HandledOrder'
  BY <1>1 DEF HandledOrder, Class
<1>5. CurBetween'
  <2>1. \A j \in 1 .. Len(handled) : handled[j] < taken + 1
    BY <1>1 DEF HandledOrder
  <2>2. QED
    BY <1>1, <1>2, <2>1 DEF CurBetween
<1>6. NoneMissing'
  <2>1. \A i \in 2 .. taken' : i \in 2 .. taken \/ i = taken + 1
    BY <1>1
  <2>2. \A i \in 2 .. taken : Queued(i) \/ Handled(i) \/ i \in lost
    BY DEF NoneMissing
  <2>3. QED
    BY <2>1, <2>2 DEF NoneMissing, Queued, Handled
<1>7. QED
  BY <1>1, <1>3, <1>4, <1>5, <1>6

(* A coalesced frame goes to the back of its class: behind what is queued, *)
(* what is current and what has been handled, all of which came earlier.   *)
LEMMA OrderPush ==
  ASSUME IInv, taken + 1 \in 1 .. Len(sent), taken >= 1, taken' = taken + 1,
         Push(taken + 1), UNCHANGED <<sent, cur, handled, lost>>
  PROVE  Order'
<1> DEFINE n == taken + 1
           c == Class(n)
<1> USE DEF IInv, Order
<1>1. /\ taken \in Nat /\ n \in 2 .. taken' /\ n \notin lost /\ n \notin 2 .. taken
      /\ queue \in [Classes -> Seq(Nat)] /\ sent[n] \in Shapes
  BY DEF TypeOK
<1>2. c \in Classes
  BY <1>1, ClassOfShape DEF Class
<1>3. \A d \in Classes : queue'[d] = IF d = c THEN Append(queue[d], n) ELSE queue[d]
  <2>1. queue' = [queue EXCEPT ![c] = Append(@, n)]
    BY DEF Push, Class
  <2>2. QED
    BY <1>1, <1>2, <2>1
<1>4. /\ Len(queue'[c]) = Len(queue[c]) + 1 /\ queue'[c][Len(queue[c]) + 1] = n
      /\ \A k \in 1 .. Len(queue[c]) : queue'[c][k] = queue[c][k]
  <2>1. queue[c] \in Seq(Nat) /\ queue'[c] = Append(queue[c], n)
    BY <1>1, <1>2, <1>3
  <2>2. n \in Nat
    BY <1>1
  <2>3. QED
    BY <2>1, <2>2
<1>5. \A d \in Classes \ {c} : queue'[d] = queue[d]
  BY <1>3
<1>6. \A d \in Classes : \A k \in 1 .. Len(queue'[d]) :
        \/ k \in 1 .. Len(queue[d]) /\ queue'[d][k] = queue[d][k]
        \/ d = c /\ k = Len(queue[c]) + 1 /\ queue'[d][k] = n
  <2>1. Len(queue[c]) \in Nat
    BY <1>1, <1>2
  <2>2. QED
    BY <1>4, <1>5, <2>1
<1>7. QueueOrder'
  <2> SUFFICES ASSUME NEW d \in Classes, NEW k \in 1 .. Len(queue'[d])
               PROVE  /\ queue'[d][k] \in 2 .. taken' /\ queue'[d][k] \notin lost
                      /\ Class(queue'[d][k]) = d
                      /\ \A j \in 1 .. Len(queue'[d]) : j < k => queue'[d][j] < queue'[d][k]
    BY DEF QueueOrder, Class
  <2>0. Len(queue[d]) \in Nat
    BY <1>1
  <2>1. CASE k \in 1 .. Len(queue[d]) /\ queue'[d][k] = queue[d][k]
    <3>1. /\ queue[d][k] \in 2 .. taken /\ queue[d][k] \notin lost /\ Class(queue[d][k]) = d
          /\ \A j \in 1 .. Len(queue[d]) : j < k => queue[d][j] < queue[d][k]
      BY <2>1 DEF QueueOrder
    <3>2. \A j \in 1 .. Len(queue'[d]) : j < k =>
             j \in 1 .. Len(queue[d]) /\ queue'[d][j] = queue[d][j]
      BY <1>6, <2>0, <2>1
    <3>3. QED
      BY <1>1, <2>1, <3>1, <3>2
  <2>2. CASE d = c /\ k = Len(queue[c]) + 1 /\ queue'[d][k] = n
    <3>1. \A j \in 1 .. Len(queue'[d]) : j < k => queue'[d][j] = queue[d][j] /\ j \in 1 .. Len(queue[d])
      BY <1>6, <2>0, <2>2
    <3>2. \A j \in 1 .. Len(queue[d]) : queue[d][j] < n
      BY <1>1 DEF QueueOrder
    <3>3. QED
      BY <1>1, <2>2, <3>1, <3>2
  <2>3. QED
    BY <1>6, <2>1, <2>2
<1>8. HandledOrder'
  BY <1>1 DEF HandledOrder, Class
<1>9. \A j \in 1 .. Len(handled) : handled[j] < n
  BY <1>1 DEF HandledOrder
<1>10. HandledBeforeQueued'
  <2> SUFFICES ASSUME NEW d \in Classes, NEW k \in 1 .. Len(queue'[d]),
                      NEW j \in 1 .. Len(handled), Class(handled[j]) = d
               PROVE  handled[j] < queue'[d][k]
    BY DEF HandledBeforeQueued, Class
  <2>1. QED
    BY <1>6, <1>9 DEF HandledBeforeQueued
<1>11. CurBetween'
  <2> SUFFICES ASSUME cur # 0
               PROVE  /\ cur \in 2 .. taken' /\ cur \notin lost
                      /\ \A j \in 1 .. Len(handled) :
                           Class(handled[j]) = Class(cur) => handled[j] < cur
                      /\ \A d \in Classes : \A k \in 1 .. Len(queue'[d]) :
                           Class(cur) = d => cur < queue'[d][k]
    BY DEF CurBetween, Class
  <2>1. cur \in 2 .. taken /\ cur < n
    BY <1>1 DEF CurBetween
  <2>2. ASSUME NEW d \in Classes, NEW k \in 1 .. Len(queue'[d]), Class(cur) = d
        PROVE  cur < queue'[d][k]
    <3>1. CASE k \in 1 .. Len(queue[d]) /\ queue'[d][k] = queue[d][k]
      BY <2>2, <3>1 DEF CurBetween
    <3>2. CASE queue'[d][k] = n
      BY <2>1, <3>2
    <3>3. QED
      BY <1>6, <3>1, <3>2
  <2>3. QED
    BY <1>1, <2>1, <2>2 DEF CurBetween
<1>12. NoneMissing'
  <2>1. \A i \in 2 .. taken' : i \in 2 .. taken \/ i = n
    BY <1>1
  <2>2. \A d \in Classes : \A k \in 1 .. Len(queue[d]) :
          k \in 1 .. Len(queue'[d]) /\ queue'[d][k] = queue[d][k]
    <3>1. Len(queue[c]) \in Nat
      BY <1>1, <1>2
    <3>2. QED
      BY <1>4, <1>5, <3>1
  <2>3. \A i \in 2 .. taken : Queued(i) => Queued(i)'
    BY <2>2 DEF Queued
  <2>4. ASSUME NEW i, i = n PROVE Queued(i)'
    <3>1. Len(queue[c]) + 1 \in 1 .. Len(queue'[c])
      BY <1>1, <1>2, <1>4
    <3>2. QED
      BY <1>2, <1>4, <2>4, <3>1 DEF Queued
  <2>5. QED
    BY <2>1, <2>3, <2>4 DEF NoneMissing, Handled
<1>13. QED
  BY <1>1, <1>7, <1>8, <1>10, <1>11, <1>12

(* Pop takes the oldest frame of a class, so it becomes current before the *)
(* rest of its class and after everything of its class that was handled.   *)
LEMMA OrderPop ==
  ASSUME IInv, NEW c \in Classes, queue[c] # <<>>, cur = 0, cur' = Head(queue[c]),
         queue' = [queue EXCEPT ![c] = Tail(@)], UNCHANGED <<sent, taken, handled, lost>>
  PROVE  Order'
<1> USE DEF IInv, Order
<1>1. queue \in [Classes -> Seq(Nat)] /\ queue[c] \in Seq(Nat) /\ Len(queue[c]) \in Nat \ {0}
  BY DEF TypeOK
<1>2. /\ Len(queue'[c]) = Len(queue[c]) - 1 /\ cur' = queue[c][1]
      /\ \A k \in 1 .. Len(queue[c]) - 1 : queue'[c][k] = queue[c][k + 1]
      /\ \A d \in Classes \ {c} : queue'[d] = queue[d]
  BY <1>1
<1>3. \A d \in Classes : \A k \in 1 .. Len(queue'[d]) :
        \E m \in 1 .. Len(queue[d]) :
          m = (IF d = c THEN k + 1 ELSE k) /\ queue'[d][k] = queue[d][m]
  BY <1>1, <1>2
<1>4. QueueOrder'
  <2> SUFFICES ASSUME NEW d \in Classes, NEW k \in 1 .. Len(queue'[d])
               PROVE  /\ queue'[d][k] \in 2 .. taken /\ queue'[d][k] \notin lost
                      /\ Class(queue'[d][k]) = d
                      /\ \A j \in 1 .. Len(queue'[d]) : j < k => queue'[d][j] < queue'[d][k]
    BY DEF QueueOrder, Class
  <2>1. PICK m \in 1 .. Len(queue[d]) :
          m = (IF d = c THEN k + 1 ELSE k) /\ queue'[d][k] = queue[d][m]
    BY <1>3
  <2>2. \A j \in 1 .. Len(queue'[d]) : j < k =>
          \E l \in 1 .. Len(queue[d]) : l < m /\ queue'[d][j] = queue[d][l]
    BY <1>3, <2>1
  <2>3. QED
    BY <2>1, <2>2 DEF QueueOrder
<1>5. HandledOrder'
  BY DEF HandledOrder, Class
<1>6. HandledBeforeQueued'
  <2> SUFFICES ASSUME NEW d \in Classes, NEW k \in 1 .. Len(queue'[d]),
                      NEW j \in 1 .. Len(handled), Class(handled[j]) = d
               PROVE  handled[j] < queue'[d][k]
    BY DEF HandledBeforeQueued, Class
  <2>1. PICK m \in 1 .. Len(queue[d]) : queue'[d][k] = queue[d][m]
    BY <1>3
  <2>2. handled[j] < queue[d][m]
    BY <2>1 DEF HandledBeforeQueued
  <2>3. QED
    BY <2>1, <2>2
<1>7. 1 \in 1 .. Len(queue[c])
  BY <1>1
<1>8. CurBetween'
  <2>1. cur' \in 2 .. taken /\ cur' \notin lost /\ Class(cur') = c
    BY <1>2, <1>7 DEF QueueOrder
  <2>2. \A j \in 1 .. Len(handled) : Class(handled[j]) = c => handled[j] < cur'
    BY <1>2, <1>7 DEF HandledBeforeQueued
  <2>3. \A k \in 1 .. Len(queue'[c]) : cur' < queue'[c][k]
    BY <1>1, <1>2, <1>7 DEF QueueOrder
  <2>4. QED
    BY <2>1, <2>2, <2>3 DEF CurBetween, Class
<1>9. NoneMissing'
  <2> SUFFICES ASSUME NEW i \in 2 .. taken, Queued(i)
               PROVE  Queued(i)' \/ cur' = i
    BY DEF NoneMissing, Handled
  <2>0. PICK d \in Classes : \E k \in 1 .. Len(queue[d]) : queue[d][k] = i
    BY DEF Queued
  <2>1. PICK k \in 1 .. Len(queue[d]) : queue[d][k] = i
    BY <2>0
  <2>2. CASE d = c /\ k = 1
    BY <1>2, <2>1, <2>2
  <2>3. CASE d = c /\ k # 1
    <3>1. k - 1 \in 1 .. Len(queue'[c]) /\ queue'[c][k - 1] = i
      BY <1>1, <1>2, <2>1, <2>3
    <3>2. QED
      BY <3>1 DEF Queued
  <2>4. CASE d # c
    BY <1>2, <2>1, <2>4 DEF Queued
  <2>5. QED
    BY <2>2, <2>3, <2>4
<1>10. QED
  BY <1>4, <1>5, <1>6, <1>8, <1>9

(* The current frame is appended to the history: it is the youngest of its *)
(* class there, and older than everything of its class in the queue.       *)
LEMMA OrderFinish ==
  ASSUME IInv, cur # 0, Finish
  PROVE  Order'
<1> USE DEF IInv, Order
<1>1. /\ handled \in Seq(Nat) /\ cur \in Nat /\ handled' = Append(handled, cur) /\ cur' = 0
      /\ UNCHANGED <<sent, taken, queue, lost>>
  BY DEF TypeOK, Finish, clientVars, readVars
<1>2. /\ Len(handled') = Len(handled) + 1 /\ handled'[Len(handled) + 1] = cur
      /\ Len(handled) \in Nat
      /\ \A k \in 1 .. Len(handled) : handled'[k] = handled[k]
  BY <1>1
<1>3. QueueOrder'
  BY <1>1 DEF QueueOrder, Class
<1>4. HandledOrder'
  <2> SUFFICES ASSUME NEW k \in 1 .. Len(handled')
               PROVE  /\ handled'[k] \in 2 .. taken /\ handled'[k] \notin lost
                      /\ \A j \in 1 .. Len(handled') :
                           j < k /\ Class(handled'[j]) = Class(handled'[k])
                             => handled'[j] < handled'[k]
    BY <1>1 DEF HandledOrder, Class
  <2>1. CASE k \in 1 .. Len(handled)
    BY <1>2, <2>1 DEF HandledOrder
  <2>2. CASE k = Len(handled) + 1
    BY <1>2, <2>2 DEF CurBetween
  <2>3. QED
    BY <1>2, <2>1, <2>2
<1>5. HandledBeforeQueued'
  <2> SUFFICES ASSUME NEW d \in Classes, NEW k \in 1 .. Len(queue[d]),
                      NEW j \in 1 .. Len(handled'), Class(handled'[j]) = d
               PROVE  handled'[j] < queue[d][k]
    BY <1>1 DEF HandledBeforeQueued, Class
  <2>1. CASE j \in 1 .. Len(handled)
    BY <1>2, <2>1 DEF HandledBeforeQueued
  <2>2. CASE j = Len(handled) + 1
    BY <1>2, <2>2 DEF CurBetween
  <2>3. QED
    BY <1>2, <2>1, <2>2
<1>6. CurBetween'
  BY <1>1 DEF CurBetween
<1>7. NoneMissing'
  <2>1. ASSUME NEW i, i = cur PROVE Handled(i)'
    BY <1>2, <2>1 DEF Handled
  <2>2. \A i \in 2 .. taken : Handled(i) => Handled(i)'
    BY <1>2 DEF Handled
  <2>3. QED
    BY <1>1, <2>1, <2>2 DEF NoneMissing, Queued
<1>8. QED
  BY <1>1, <1>3, <1>4, <1>5, <1>6, <1>7

-----------------------------------------------------------------------------
(* Each action moves frames in one of the ways above, or not at all.       *)
LEMMA OrderStep == IInv /\ [Next]_vars => Order'
<1> SUFFICES ASSUME IInv, [Next]_vars PROVE Order'
  OBVIOUS
<1>0. TypeOK /\ Greeted /\ Order
  BY DEF IInv
<1>1. ASSUME UNCHANGED orderVars PROVE Order'
  BY <1>0, <1>1 DEF orderVars, Order, QueueOrder, HandledOrder, HandledBeforeQueued, CurBetween,
     NoneMissing, Queued, Handled, Class
<1>2. ASSUME NEW f \in Shapes, SendFrame(f) PROVE Order'
  BY <1>2, OrderSend
<1>3. CASE SendRest \/ PeerClose \/ SignalShutdown
  BY <1>1, <1>3 DEF SendRest, PeerClose, SignalShutdown, orderVars, readVars, answerVars
<1>4. CASE Handshake
  <2>1. /\ taken = 0 /\ taken' = 1 /\ lost' \subseteq lost \cup {1}
        /\ UNCHANGED <<sent, queue, cur, handled>>
    BY <1>0, <1>4 DEF Handshake, Greeted, Next1, clientVars, answerVars
  <2>2. QED
    BY <1>0, <2>1, GreetingOrder DEF IInv
<1>5. CASE PopQueue
  <2>1. PICK c \in Classes : /\ PopClass(c) /\ cur' = Head(queue[c])
                             /\ queue' = [queue EXCEPT ![c] = Tail(@)]
    BY <1>5 DEF PopQueue
  <2>2. queue[c] # <<>> /\ cur = 0 /\ UNCHANGED <<sent, taken, handled, lost>>
    BY <1>0, <1>5, <2>1 DEF PopQueue, PopClass, Nonempty, TypeOK, clientVars, readVars, answerVars
  <2>3. QED
    BY <2>1, <2>2, OrderPop
<1>6. CASE ReadFrame
  BY <1>0, <1>6, OrderRead DEF ReadFrame, Next1, Greeted, TypeOK, clientVars, answerVars
<1>7. CASE ReadMalformed \/ CoalesceMalformed \/ CoalesceTear \/ DrainRead
  BY <1>7, OrderDiscard DEF ReadMalformed, CoalesceMalformed, CoalesceTear, DrainRead, Next1,
     clientVars, answerVars
<1>8. CASE ReadEof \/ ReadGarbage \/ CoalesceStop \/ BeginDrain \/ DrainTimeout
  BY <1>1, <1>8 DEF ReadEof, ReadGarbage, CoalesceStop, BeginDrain, DrainTimeout, orderVars,
     clientVars, readVars, answerVars
<1>9. CASE CoalesceRead
  <2>1. taken + 1 \in 1 .. Len(sent) /\ taken >= 1
    BY <1>0, <1>9, ReadyFrame DEF CoalesceRead, Next1, Greeted
  <2>2. QED
    BY <1>9, <2>1, OrderPush DEF CoalesceRead, Next1, clientVars, answerVars
<1>10. CASE RejectEnvelope \/ Dispatch
  BY <1>0, <1>10, OrderFinish DEF RejectEnvelope, Dispatch, TypeOK
<1>11. CASE UNCHANGED vars
  BY <1>1, <1>11 DEF vars, orderVars
<1>12. QED
  BY <1>2, <1>3, <1>4, <1>5, <1>6, <1>7, <1>8, <1>9, <1>10, <1>11 DEF Next, Client, Progress

(* The task leaves the handshake only by taking frame 1.                   *)
LEMMA GreetedStep == IInv /\ [Next]_vars => Greeted'
<1> SUFFICES ASSUME IInv, [Next]_vars PROVE Greeted'
  OBVIOUS
<1>0. TypeOK /\ Greeted /\ taken \in Nat /\ taken' \in Nat
  BY TypeStep DEF IInv, TypeOK
<1>1. CASE UNCHANGED <<pc, taken>>
  BY <1>0, <1>1 DEF Greeted
<1>2. CASE Handshake
  <2>1. pc' \in {"select", "closed"} /\ taken' = taken + 1
    BY <1>2 DEF Handshake, Next1
  <2>2. QED
    BY <1>0, <2>1 DEF Greeted
<1>3. ASSUME pc \notin {"handshake", "closed"}, pc' # "handshake", taken' >= taken
      PROVE  Greeted'
  <2>1. taken' >= 1
    BY <1>0, <1>3 DEF Greeted
  <2>2. QED
    BY <1>3, <2>1 DEF Greeted
<1>4. CASE pc' = "closed"
  BY <1>4 DEF Greeted
<1>5. ASSUME NEW f \in Shapes, SendFrame(f) PROVE UNCHANGED <<pc, taken>>
  BY <1>5 DEF SendFrame, readVars
<1>6. ASSUME SendRest \/ PeerClose \/ SignalShutdown \/ UNCHANGED vars
      PROVE  UNCHANGED <<pc, taken>>
  BY <1>6 DEF SendRest, PeerClose, SignalShutdown, readVars, vars
<1>7. ASSUME ReadMalformed \/ ReadEof \/ ReadGarbage \/ DrainTimeout PROVE pc' = "closed"
  BY <1>7 DEF ReadMalformed, ReadEof, ReadGarbage, DrainTimeout
<1>8. ASSUME \/ PopQueue \/ ReadFrame \/ CoalesceRead \/ CoalesceMalformed \/ CoalesceTear
             \/ CoalesceStop \/ BeginDrain \/ DrainRead
      PROVE  pc \notin {"handshake", "closed"} /\ pc' # "handshake" /\ taken' >= taken
  BY <1>0, <1>8 DEF PopQueue, ReadFrame, CoalesceRead, CoalesceMalformed, CoalesceTear, CoalesceStop,
     BeginDrain, DrainRead, Next1, readVars
<1>9. ASSUME RejectEnvelope \/ Dispatch
      PROVE  pc \notin {"handshake", "closed"} /\ pc' # "handshake" /\ taken' >= taken
  <2>1. pc = "handle" /\ taken' = taken
    BY <1>9 DEF RejectEnvelope, Dispatch, Finish, readVars
  <2>2. pc' \in {"select", "closed"}
    BY <1>0, <1>9, AnswersTyped
  <2>3. QED
    BY <1>0, <2>1, <2>2
<1>10. QED
  BY <1>1, <1>2, <1>3, <1>4, <1>5, <1>6, <1>7, <1>8, <1>9 DEF Next, Client, Progress

(* Nothing has been read when a connection starts.                         *)
LEMMA InitIInv == Init => IInv
<1> SUFFICES ASSUME Init PROVE IInv
  OBVIOUS
<1> USE DEF Init
<1>1. TypeOK
  <2>1. sent \in Seq(Shapes) /\ pending \in Seq(Response) /\ out \in Seq(Response)
        /\ handled \in Seq(Nat) /\ queue \in [Classes -> Seq(Nat)]
    OBVIOUS
  <2>2. taken \in 0 .. Len(sent) /\ cur \in 0 .. taken
    OBVIOUS
  <2>3. QED
    BY <2>1, <2>2 DEF TypeOK, PCs
<1>2. Greeted
  BY DEF Greeted
<1>3. (\A c \in Classes : 1 .. Len(queue[c]) = {}) /\ 1 .. Len(handled) = {} /\ 2 .. taken = {}
  OBVIOUS
<1>4. Order
  BY <1>3 DEF Order, QueueOrder, HandledOrder, HandledBeforeQueued, CurBetween, NoneMissing
<1>5. QED
  BY <1>1, <1>2, <1>4 DEF IInv

(* The invariant is inductive.                                             *)
THEOREM Invariance == Spec => []IInv
<1>1. IInv /\ [Next]_vars => IInv'
  BY TypeStep, OrderStep, GreetedStep DEF IInv
<1>2. QED
  BY InitIInv, <1>1, PTL DEF Spec

(* The state of a connection task keeps its types, and a frame is current  *)
(* exactly while the loop of handle_connection is processing one.          *)
THEOREM TypeCorrect == Spec => []TypeOK
<1>1. IInv => TypeOK
  BY DEF IInv
<1>2. QED
  BY Invariance, <1>1, PTL

(* Requests of one priority class are dispatched in the order the client   *)
(* sent them, however reads, coalescing and pops interleave.               *)
THEOREM FifoHolds == Spec => []FifoWithinClass
<1>1. IInv => FifoWithinClass
  BY DEF IInv, Order, HandledOrder, FifoWithinClass, Class
<1>2. QED
  BY Invariance, <1>1, PTL

(* No request read from the socket is lost by the priority queue or        *)
(* dispatched twice.                                                       *)
THEOREM AccountingHolds == Spec => []EveryFrameAccounted
<1>1. ASSUME IInv PROVE EveryFrameAccounted
  <2> USE <1>1 DEF IInv, Order
  <2>1. \A i \in 2 .. taken : Queued(i) \/ cur = i \/ Handled(i) \/ i \in lost
    BY DEF NoneMissing
  <2>2. ASSUME NEW k \in 1 .. Len(handled)
        PROVE  /\ handled[k] \in 2 .. taken /\ ~Queued(handled[k]) /\ cur # handled[k]
               /\ handled[k] \notin lost
               /\ \A l \in 1 .. Len(handled) : handled[l] = handled[k] => l = k
    <3>1. handled[k] \in 2 .. taken /\ handled[k] \notin lost
      BY DEF HandledOrder
    <3>2. ~Queued(handled[k])
      <4> SUFFICES ASSUME NEW c \in Classes, NEW m \in 1 .. Len(queue[c]),
                          queue[c][m] = handled[k]
                   PROVE  FALSE
        BY DEF Queued
      <4>1. Class(handled[k]) = c
        BY DEF QueueOrder
      <4>2. handled[k] < queue[c][m]
        BY <4>1 DEF HandledBeforeQueued
      <4>3. QED
        BY <3>1, <4>2
    <3>3. cur # handled[k]
      BY <3>1 DEF CurBetween
    <3>4. ASSUME NEW l \in 1 .. Len(handled), handled[l] = handled[k] PROVE l = k
      BY <3>1, <3>4 DEF HandledOrder
    <3>5. QED
      BY <3>1, <3>2, <3>3, <3>4
  <2>3. QED
    BY <2>1, <2>2 DEF EveryFrameAccounted
<1>2. QED
  BY Invariance, <1>1, PTL

-----------------------------------------------------------------------------
(* Answers.  What a step of processing does to them: those given and those *)
(* buffered are, in order, what they were, with the answer to the current  *)
(* frame if it wants one; of these a closed peer gets some first ones.     *)
Prefix(s, t) == Len(s) <= Len(t) /\ \A k \in 1 .. Len(s) : s[k] = t[k]

LEMMA Concatenated ==
  ASSUME NEW E, NEW s \in Seq(E), NEW t \in Seq(E)
  PROVE  /\ s \o t \in Seq(E) /\ Len(s \o t) = Len(s) + Len(t) /\ Len(s) \in Nat /\ Len(t) \in Nat
         /\ \A k \in 1 .. Len(s) : (s \o t)[k] = s[k]
         /\ \A k \in 1 .. Len(t) : (s \o t)[Len(s) + k] = t[k]
OBVIOUS

LEMMA Written ==
  ASSUME TypeOK, NEW rs \in Seq(Response), WriteAll(rs) \/ WriteFails(rs), pending' = <<>>
  PROVE  /\ Prefix(Replies', out \o rs) /\ (peerOpen => Len(Replies') = Len(out) + Len(rs))
         /\ Prefix(out, out')
<1> DEFINE m == out \o rs
<1>1. out \in Seq(Response) /\ Len(out) \in Nat /\ Len(rs) \in Nat
  BY DEF TypeOK
<1>2. PICK k \in 0 .. Len(rs) : out' = out \o SubSeq(rs, 1, k) /\ (peerOpen => k = Len(rs))
  <2>1. CASE WriteAll(rs)
    <3>1. SubSeq(rs, 1, Len(rs)) = rs
      OBVIOUS
    <3>2. out' = out \o SubSeq(rs, 1, Len(rs)) /\ Len(rs) \in 0 .. Len(rs)
      BY <1>1, <2>1, <3>1 DEF WriteAll
    <3> QED
      BY <3>2
  <2>2. CASE WriteFails(rs)
    BY <2>2 DEF WriteFails
  <2> QED
    BY <2>1, <2>2
<1> DEFINE part == SubSeq(rs, 1, k)
<1>3. part \in Seq(Response) /\ Len(part) = k /\ \A i \in 1 .. k : part[i] = rs[i]
  BY <1>1
<1> HIDE DEF part
<1>4. out' \in Seq(Response) /\ Len(out') = Len(out) + k
  BY <1>1, <1>2, <1>3, Concatenated DEF part
<1>5. /\ \A i \in 1 .. Len(out) : out'[i] = out[i] /\ m[i] = out[i]
      /\ \A i \in 1 .. k : out'[Len(out) + i] = rs[i] /\ m[Len(out) + i] = rs[i]
      /\ Len(m) = Len(out) + Len(rs)
  BY <1>1, <1>2, <1>3, Concatenated DEF part
<1> HIDE DEF m
<1>6. \A i \in 1 .. Len(out') : out'[i] = m[i]
  <2> SUFFICES ASSUME NEW i \in 1 .. Len(out') PROVE out'[i] = m[i]
    OBVIOUS
  <2>1. CASE i \in 1 .. Len(out)
    BY <1>5, <2>1
  <2>2. CASE i \notin 1 .. Len(out)
    <3>1. i - Len(out) \in 1 .. k /\ Len(out) + (i - Len(out)) = i
      BY <1>1, <1>4, <2>2
    <3> QED
      BY <1>5, <3>1
  <2> QED
    BY <2>1, <2>2
<1>7. Replies' = out'
  BY <1>4 DEF Replies
<1>8. Len(out') <= Len(m) /\ Len(out) <= Len(out')
  BY <1>1, <1>4, <1>5
<1> QED
  BY <1>1, <1>2, <1>4, <1>5, <1>6, <1>7, <1>8 DEF Prefix, m

(* The replies after the current frame, were all of them written.          *)
Next1Replies(r) == IF sent[cur].noReply THEN Replies ELSE Append(Replies, r)

LEMMA Replying ==
  ASSUME TypeOK, RejectEnvelope \/ Dispatch
  PROVE  \E r \in Response :
           /\ r.id = cur /\ Prefix(Replies', Next1Replies(r))
           /\ peerOpen => Len(Replies') = Len(Next1Replies(r))
           /\ Prefix(out, out')
           /\ \/ pending' = <<>>
              \/ sent[cur].batch /\ pending' \in {pending, Append(pending, r)}
              \/ sent[cur].env = "bad" /\ sent[cur].noReply /\ pending' = pending
<1> DEFINE Fine(r) ==
             /\ Prefix(Replies', Next1Replies(r))
             /\ peerOpen => Len(Replies') = Len(Next1Replies(r))
             /\ Prefix(out, out')
             /\ \/ pending' = <<>>
                \/ sent[cur].batch /\ pending' \in {pending, Append(pending, r)}
                \/ sent[cur].env = "bad" /\ sent[cur].noReply /\ pending' = pending
<1>1. out \in Seq(Response) /\ pending \in Seq(Response) /\ cur \in Nat
  BY DEF TypeOK
<1>2. Replies \in Seq(Response) /\ Prefix(out, out)
  BY <1>1 DEF Replies, Prefix
<1>3. ASSUME NEW r \in Response, r.id = cur, Answer(r), ~sent[cur].noReply PROVE Fine(r)
  <2>1. Append(pending, r) \in Seq(Response) /\ out \o Append(pending, r) = Append(Replies, r)
    BY <1>1 DEF Replies
  <2>2. Append(Replies, r) \in Seq(Response)
    BY <1>2
  <2>3. CASE sent[cur].batch
    <3>1. pending' = Append(pending, r) /\ out' = out
      BY <1>3, <2>3 DEF Answer, Buffer
    <3>2. Replies' = Append(Replies, r)
      BY <2>1, <3>1 DEF Replies
    <3> QED
      BY <1>2, <1>3, <2>2, <2>3, <3>1, <3>2 DEF Prefix, Next1Replies
  <2>4. CASE ~sent[cur].batch
    <3>1. pending' = <<>> /\ (WriteAll(Append(pending, r)) \/ WriteFails(Append(pending, r)))
      BY <1>3, <2>4 DEF Answer, FlushBatch
    <3> DEFINE rs == Append(pending, r)
    <3>2. Len(Append(Replies, r)) = Len(out) + Len(rs)
      BY <1>1, <2>1, Concatenated
    <3> HIDE DEF rs
    <3>3. /\ Prefix(Replies', out \o rs) /\ (peerOpen => Len(Replies') = Len(out) + Len(rs))
          /\ Prefix(out, out')
      BY <2>1, <3>1, Written DEF rs
    <3> QED
      BY <1>3, <2>1, <3>1, <3>2, <3>3 DEF Next1Replies, rs
  <2> QED
    BY <2>3, <2>4
<1>4. \A kind \in {"reply", "error"} : [id |-> cur, kind |-> kind] \in Response /\ [id |-> cur, kind |-> kind].id = cur
  BY <1>1 DEF Response
<1>5. PICK a \in Response : a.id = cur
  BY <1>4
<1>6. ASSUME sent[cur].noReply, UNCHANGED <<pending, out>>,
             sent[cur].batch \/ (sent[cur].env = "bad" /\ sent[cur].noReply)
      PROVE  Fine(a)
  <2>1. Replies' = Replies
    BY <1>6 DEF Replies
  <2> QED
    BY <1>2, <1>6, <2>1 DEF Prefix, Next1Replies
<1>7. ASSUME sent[cur].noReply, FlushPending PROVE Fine(a)
  <2>1. pending' = <<>> /\ (WriteAll(pending) \/ WriteFails(pending))
    BY <1>7 DEF FlushPending
  <2>2. Len(Replies) = Len(out) + Len(pending)
    BY <1>1, Concatenated DEF Replies
  <2>3. /\ Prefix(Replies', out \o pending) /\ (peerOpen => Len(Replies') = Len(out) + Len(pending))
        /\ Prefix(out, out')
    BY <1>1, <2>1, Written
  <2> QED
    BY <1>7, <2>1, <2>2, <2>3 DEF Next1Replies, Replies
<1>8. \E r \in Response : r.id = cur /\ Fine(r)
  <2> HIDE DEF Fine
  <2>1. CASE RejectEnvelope
    BY <1>3, <1>4, <1>5, <1>6, <2>1 DEF RejectEnvelope
  <2>2. CASE Dispatch
    <3>1. PICK kind \in {"reply", "error"} :
            IF ~sent[cur].noReply
              THEN Answer([id |-> cur, kind |-> kind])
              ELSE IF sent[cur].batch
                     THEN pc' = "select" /\ UNCHANGED <<pending, out>>
                     ELSE FlushPending
      BY <2>2 DEF Dispatch
    <3> QED
      BY <1>3, <1>4, <1>5, <1>6, <1>7, <3>1
  <2> QED
    BY <2>1, <2>2
<1> QED
  BY <1>8

(* Which answers are owed depends on the frames handled only, and one more *)
(* handled frame owes its own answer or none.                              *)
LEMMA WantingFinite ==
  ASSUME NEW asked, NEW done, NEW k \in Nat
  PROVE  /\ IsFiniteSet(Wanting(asked, done, k)) /\ Cardinality(Wanting(asked, done, k)) \in Nat
         /\ Wanting(asked, done, k) \subseteq 1 .. k
<1>1. IsFiniteSet(1 .. k) /\ Wanting(asked, done, k) \subseteq 1 .. k
  BY FS_Interval DEF Wanting
<1> QED
  BY <1>1, FS_Subset, FS_CardinalityType

LEMMA WantingGrows ==
  ASSUME NEW asked, NEW done, NEW n \in Nat, NEW k \in Wanting(asked, done, n)
  PROVE  Cardinality(Wanting(asked, done, k)) \in 1 .. Cardinality(Wanting(asked, done, n))
<1>1. k \in 1 .. n /\ k \in Wanting(asked, done, k) /\ Wanting(asked, done, k) \subseteq Wanting(asked, done, n)
  BY DEF Wanting
<1>2. /\ IsFiniteSet(Wanting(asked, done, k)) /\ IsFiniteSet(Wanting(asked, done, n))
      /\ Cardinality(Wanting(asked, done, k)) \in Nat /\ Cardinality(Wanting(asked, done, n)) \in Nat
  BY <1>1, WantingFinite
<1>3. Cardinality(Wanting(asked, done, k)) <= Cardinality(Wanting(asked, done, n))
  BY <1>1, <1>2, FS_Subset
<1>4. Cardinality(Wanting(asked, done, k)) # 0
  BY <1>1, <1>2, FS_EmptySet
<1> QED
  BY <1>2, <1>3, <1>4

LEMMA InOrderMoreAsked ==
  ASSUME NEW asked, NEW more, NEW done \in Seq(Nat), NEW replies, InOrder(asked, done, replies),
         \A j \in 1 .. Len(done) : more[done[j]] = asked[done[j]]
  PROVE  InOrder(more, done, replies)
<1>1. \A k \in 0 .. Len(done) : Wanting(more, done, k) = Wanting(asked, done, k)
  BY DEF Wanting
<1>2. Len(done) \in 0 .. Len(done) /\ Wanting(asked, done, Len(done)) \subseteq 0 .. Len(done)
  BY DEF Wanting
<1> QED
  BY <1>1, <1>2 DEF InOrder

LEMMA InOrderOneMore ==
  ASSUME NEW asked, NEW done \in Seq(Nat), NEW c \in Nat, NEW replies \in Seq(Response), NEW now,
         NEW r \in Response, r.id = c, InOrder(asked, done, replies),
         LET due == IF asked[c].noReply THEN replies ELSE Append(replies, r)
         IN  Prefix(now, due) /\ Len(now) = Len(due)
  PROVE  InOrder(asked, Append(done, c), now)
<1> DEFINE n    == Len(done)
           then == Append(done, c)
           W(k) == Wanting(asked, done, k)
           V(k) == Wanting(asked, then, k)
<1>1. /\ n \in Nat /\ Len(then) = n + 1 /\ then[n + 1] = c
      /\ \A k \in 1 .. n : then[k] = done[k]
  OBVIOUS
<1>2. \A k \in 0 .. n : V(k) = W(k)
  <2> HIDE DEF then, n
  <2> QED
    BY <1>1 DEF Wanting
<1>3. /\ Len(replies) = Cardinality(W(n)) /\ Len(replies) \in Nat
      /\ \A k \in W(n) : replies[Cardinality(W(k))].id = done[k]
  BY DEF InOrder
<1>4. /\ W(n) \subseteq 1 .. n /\ IsFiniteSet(W(n)) /\ n + 1 \notin W(n)
      /\ \A k \in W(n) : k \in 0 .. n /\ k \in 1 .. n /\ Cardinality(W(k)) \in 1 .. Len(replies)
  BY <1>1, <1>3, WantingFinite, WantingGrows
<1>5. V(n + 1) = IF asked[c].noReply THEN W(n) ELSE W(n) \union {n + 1}
  <2> HIDE DEF then, n
  <2> QED
    BY <1>1 DEF Wanting
<1>6. Cardinality(V(n + 1)) = Len(now)
  <2>1. CASE asked[c].noReply
    BY <1>3, <1>5, <2>1
  <2>2. CASE ~asked[c].noReply
    <3>1. Cardinality(W(n) \union {n + 1}) = Cardinality(W(n)) + 1
      BY <1>4, FS_AddElement
    <3>2. Len(now) = Len(replies) + 1
      BY <2>2
    <3> QED
      BY <1>3, <1>5, <2>2, <3>1, <3>2
  <2> QED
    BY <2>1, <2>2
<1>7. \A i \in 1 .. Len(replies) : now[i] = replies[i]
  BY DEF Prefix
<1>8. ASSUME NEW k \in W(n) PROVE now[Cardinality(V(k))].id = then[k]
  <2>1. V(k) = W(k) /\ then[k] = done[k] /\ Cardinality(W(k)) \in 1 .. Len(replies)
    BY <1>1, <1>2, <1>4
  <2>2. now[Cardinality(W(k))] = replies[Cardinality(W(k))] /\ replies[Cardinality(W(k))].id = done[k]
    BY <1>3, <1>7, <2>1
  <2> QED
    BY <2>1, <2>2
<1>9. ASSUME ~asked[c].noReply PROVE now[Cardinality(V(n + 1))].id = then[n + 1]
  <2>1. Len(now) = Len(replies) + 1 /\ now[Len(replies) + 1] = r
    BY <1>9 DEF Prefix
  <2> QED
    BY <1>1, <1>6, <2>1
<1>10. \A k \in V(n + 1) : now[Cardinality(V(k))].id = then[k]
  <2> HIDE DEF V, W, then, n
  <2> QED
    BY <1>5, <1>8, <1>9
<1>11. /\ Len(now) = Cardinality(Wanting(asked, then, Len(then)))
       /\ \A k \in Wanting(asked, then, Len(then)) : now[Cardinality(Wanting(asked, then, k))].id = then[k]
  BY <1>1, <1>6, <1>10
<1> HIDE DEF then
<1>12. InOrder(asked, then, now)
  BY <1>11 DEF InOrder
<1> QED
  BY <1>12 DEF then

LEMMA InOrderStep == ASSUME IInv, AnswersInOrder, [Next]_vars PROVE AnswersInOrder'
<1>1. TypeOK /\ Order
  BY DEF IInv
<1>2. handled \in Seq(Nat) /\ sent \in Seq(Shapes) /\ Replies \in Seq(Response)
  BY <1>1 DEF TypeOK, Replies
<1>3. \A k \in 1 .. Len(handled) : handled[k] \in 1 .. Len(sent)
  BY <1>1 DEF TypeOK, Order, HandledOrder
<1>4. CASE RejectEnvelope \/ Dispatch
  <2>1. PICK r \in Response :
          /\ r.id = cur /\ Prefix(Replies', Next1Replies(r))
          /\ peerOpen => Len(Replies') = Len(Next1Replies(r))
    BY <1>1, <1>4, Replying
  <2>2. /\ handled' = Append(handled, cur) /\ UNCHANGED <<sent, peerOpen>> /\ cur \in Nat
    BY <1>1, <1>4 DEF RejectEnvelope, Dispatch, Finish, clientVars, TypeOK
  <2>3. ASSUME peerOpen PROVE InOrder(sent, Append(handled, cur), Replies')
    <3>1. InOrder(sent, handled, Replies)
      BY <2>3 DEF AnswersInOrder
    <3> QED
      BY <1>2, <2>1, <2>2, <2>3, <3>1, InOrderOneMore DEF Next1Replies
  <2> QED
    BY <2>2, <2>3 DEF AnswersInOrder
<1>5. ASSUME NEW f \in Shapes, SendFrame(f) PROVE AnswersInOrder'
  <2> DEFINE s == Append(sent, f)
  <2>1. \A k \in 1 .. Len(handled) : s[handled[k]] = sent[handled[k]]
    BY <1>2, <1>3
  <2>2. sent' = s /\ UNCHANGED <<peerOpen, handled, out, pending>>
    BY <1>5 DEF SendFrame, answerVars
  <2> HIDE DEF s
  <2>3. ASSUME peerOpen PROVE InOrder(s, handled, Replies)
    BY <1>2, <2>1, <2>3, InOrderMoreAsked DEF AnswersInOrder
  <2> QED
    BY <2>2, <2>3 DEF AnswersInOrder, Replies
<1>6. ASSUME UNCHANGED <<sent, handled, out, pending>>, peerOpen' => peerOpen PROVE AnswersInOrder'
  BY <1>6 DEF Replies, AnswersInOrder
<1>7. CASE \/ SendRest \/ PeerClose \/ SignalShutdown \/ Handshake \/ PopQueue \/ ReadFrame \/ ReadMalformed
           \/ ReadEof \/ ReadGarbage \/ CoalesceRead \/ CoalesceMalformed \/ CoalesceTear \/ CoalesceStop
           \/ BeginDrain \/ DrainRead \/ DrainTimeout \/ UNCHANGED vars
  BY <1>6, <1>7 DEF SendRest, PeerClose, SignalShutdown, Handshake, PopQueue, ReadFrame, ReadMalformed,
     ReadEof, ReadGarbage, CoalesceRead, CoalesceMalformed, CoalesceTear, CoalesceStop, BeginDrain,
     DrainRead, DrainTimeout, vars, clientVars, answerVars
<1> QED
  BY <1>4, <1>5, <1>7 DEF Next, Client, Progress

(* What a client has been answered, followed by what is buffered for it,   *)
(* is the order of dispatch without the requests that want no reply.       *)
THEOREM AnswersStayInOrder == Spec => []AnswersInOrder
<1>1. Init => AnswersInOrder
  <2> SUFFICES ASSUME Init PROVE AnswersInOrder
    OBVIOUS
  <2>1. Len(Replies) = 0 /\ Len(handled) = 0
    BY DEF Init, Replies
  <2>2. Wanting(sent, handled, 0) = {}
    BY DEF Wanting
  <2> QED
    BY <2>1, <2>2, FS_EmptySet DEF AnswersInOrder, InOrder
<1>2. IInv /\ AnswersInOrder /\ [Next]_vars => AnswersInOrder'
  BY InOrderStep
<1> QED
  BY <1>1, <1>2, Invariance, PTL DEF Spec

-----------------------------------------------------------------------------
(* Refinement.  Each answer, given or buffered, is for a frame handled     *)
(* that wants one, and no two are for the same: this holds for a closed    *)
(* peer too, whose last answers may be missing.                            *)
Owed == \A k \in 1 .. Len(Replies) :
          Handled(Replies[k].id) /\ ~sent[Replies[k].id].noReply
Once == \A j, k \in 1 .. Len(Replies) : Replies[j].id = Replies[k].id => j = k

(* The current frame is not yet handled.                                   *)
LEMMA CurIsNew ==
  ASSUME TypeOK, Order, cur # 0
  PROVE  cur \in 2 .. Len(sent) /\ ~Handled(cur)
<1>1. /\ cur \in 2 .. taken /\ taken \in 0 .. Len(sent) /\ Len(sent) \in Nat
      /\ \A j \in 1 .. Len(handled) : Class(handled[j]) = Class(cur) => handled[j] < cur
  BY DEF TypeOK, Order, CurBetween
<1>2. ~Handled(cur)
  BY <1>1 DEF Handled
<1> QED
  BY <1>1, <1>2

LEMMA AnswersStep == ASSUME IInv, Owed, Once, [Next]_vars PROVE Owed' /\ Once'
<1>1. TypeOK /\ Order
  BY DEF IInv
<1>2. handled \in Seq(Nat) /\ sent \in Seq(Shapes) /\ Replies \in Seq(Response)
  BY <1>1 DEF TypeOK, Replies
<1>3. \A k \in 1 .. Len(handled) : handled[k] \in 1 .. Len(sent)
  BY <1>1 DEF TypeOK, Order, HandledOrder
<1>4. CASE RejectEnvelope \/ Dispatch
  <2>1. PICK r \in Response : r.id = cur /\ Prefix(Replies', Next1Replies(r))
    BY <1>1, <1>4, Replying
  <2>2. /\ handled' = Append(handled, cur) /\ UNCHANGED sent /\ cur # 0 /\ cur \in Nat
    BY <1>1, <1>4 DEF RejectEnvelope, Dispatch, Finish, clientVars, TypeOK
  <2>3. ~Handled(cur)
    BY <1>1, <2>2, CurIsNew
  <2>4. \A i : Handled(i)' <=> Handled(i) \/ i = cur
    <3>1. Len(handled') = Len(handled) + 1 /\ handled'[Len(handled) + 1] = cur /\ Len(handled) \in Nat
          /\ \A k \in 1 .. Len(handled) : handled'[k] = handled[k]
      BY <1>2, <2>2
    <3> QED
      BY <3>1 DEF Handled
  <2> DEFINE due == Next1Replies(r)
  <2>5. /\ \A k \in 1 .. Len(due) : (Handled(due[k].id) \/ due[k].id = cur) /\ ~sent[due[k].id].noReply
        /\ \A j, k \in 1 .. Len(due) : due[j].id = due[k].id => j = k
        /\ Len(due) \in Nat
    <3>1. CASE sent[cur].noReply
      BY <1>2, <3>1 DEF Next1Replies, Owed, Once
    <3>2. CASE ~sent[cur].noReply
      <4>1. /\ Len(due) = Len(Replies) + 1 /\ due[Len(Replies) + 1] = r /\ Len(Replies) \in Nat
            /\ \A k \in 1 .. Len(Replies) : due[k] = Replies[k]
        BY <1>2, <3>2 DEF Next1Replies
      <4>2. \A k \in 1 .. Len(Replies) : Handled(due[k].id) /\ due[k].id # cur /\ ~sent[due[k].id].noReply
        BY <2>3, <4>1 DEF Owed
      <4>3. \A j, k \in 1 .. Len(Replies) : due[j].id = due[k].id => j = k
        BY <4>1 DEF Once
      <4> HIDE DEF due
      <4> QED
        BY <2>1, <3>2, <4>1, <4>2, <4>3
    <3> QED
      BY <3>1, <3>2
  <2>6. Len(Replies') <= Len(due) /\ \A k \in 1 .. Len(Replies') : Replies'[k] = due[k]
    BY <2>1 DEF Prefix
  <2> HIDE DEF due
  <2>7. Len(Replies') \in Nat
    <3>1. TypeOK'
      BY TypeStep
    <3> QED
      BY <3>1 DEF TypeOK, Replies
  <2>8. \A k \in 1 .. Len(Replies') : k \in 1 .. Len(due)
    BY <2>5, <2>6, <2>7
  <2>9. Owed'
    BY <2>2, <2>4, <2>5, <2>6, <2>8 DEF Owed
  <2>10. Once'
    BY <2>5, <2>6, <2>8 DEF Once
  <2> QED
    BY <2>9, <2>10
<1>5. ASSUME NEW f \in Shapes, SendFrame(f) PROVE Owed' /\ Once'
  <2> DEFINE s == Append(sent, f)
  <2>1. \A k \in 1 .. Len(handled) : s[handled[k]] = sent[handled[k]]
    BY <1>2, <1>3
  <2>2. sent' = s /\ UNCHANGED <<handled, out, pending>>
    BY <1>5 DEF SendFrame, answerVars
  <2> HIDE DEF s
  <2>3. \A i : Handled(i) => s[i] = sent[i]
    BY <2>1 DEF Handled
  <2> QED
    <3>1. Replies' = Replies /\ \A i : Handled(i)' = Handled(i)
      BY <2>2 DEF Replies, Handled
    <3>2. Once'
      BY <3>1 DEF Once
    <3>3. Owed'
      BY <2>2, <2>3, <3>1 DEF Owed
    <3> QED
      BY <3>2, <3>3
<1>6. ASSUME UNCHANGED <<sent, handled, out, pending>> PROVE Owed' /\ Once'
  BY <1>6 DEF Replies, Owed, Once, Handled
<1>7. CASE \/ SendRest \/ PeerClose \/ SignalShutdown \/ Handshake \/ PopQueue \/ ReadFrame \/ ReadMalformed
           \/ ReadEof \/ ReadGarbage \/ CoalesceRead \/ CoalesceMalformed \/ CoalesceTear \/ CoalesceStop
           \/ BeginDrain \/ DrainRead \/ DrainTimeout \/ UNCHANGED vars
  BY <1>6, <1>7 DEF SendRest, PeerClose, SignalShutdown, Handshake, PopQueue, ReadFrame, ReadMalformed,
     ReadEof, ReadGarbage, CoalesceRead, CoalesceMalformed, CoalesceTear, CoalesceStop, BeginDrain,
     DrainRead, DrainTimeout, vars, clientVars, answerVars
<1> QED
  BY <1>4, <1>5, <1>7 DEF Next, Client, Progress

(* Of those answers the ones written are the first, so they are owed and   *)
(* given once as well.                                                     *)
LEMMA WrittenAnswers ==
  ASSUME TypeOK, Owed, Once
  PROVE  /\ Service!Elements(Ids(out)) \subseteq Service!Elements(handled) \ {i \in 1 .. Len(sent) : sent[i].noReply}
         /\ Service!Distinct(Ids(out))
<1>1. out \in Seq(Response) /\ pending \in Seq(Response) /\ handled \in Seq(Nat)
  BY DEF TypeOK
<1>2. /\ Len(out) \in Nat /\ Len(Replies) \in Nat /\ Len(out) <= Len(Replies)
      /\ \A k \in 1 .. Len(out) : Replies[k] = out[k]
  BY <1>1, Concatenated DEF Replies
<1>3. /\ DOMAIN Ids(out) = 1 .. Len(out) /\ DOMAIN handled = 1 .. Len(handled)
      /\ \A k \in 1 .. Len(out) : Ids(out)[k] = out[k].id
  BY <1>1 DEF Ids
<1>4. \A k \in 1 .. Len(out) : k \in 1 .. Len(Replies)
  BY <1>2
<1>5. \A k \in 1 .. Len(out) : Handled(out[k].id) /\ ~sent[out[k].id].noReply
  BY <1>2, <1>4 DEF Owed
<1>6. \A j, k \in 1 .. Len(out) : out[j].id = out[k].id => j = k
  BY <1>2, <1>4 DEF Once
<1> QED
  BY SMTT(20), <1>3, <1>5, <1>6 DEF Service!Elements, Service!Distinct, Handled

Told ==
  /\ Service!Elements(Ids(out)) \subseteq Service!Elements(handled) \ {i \in 1 .. Len(sent) : sent[i].noReply}
  /\ Service!Distinct(Ids(out))

RInv == IInv /\ Owed /\ Once /\ Told

(* Every step of the connection is a step of the service or none.          *)
LEMMA ServiceStep == ASSUME RInv, RInv', [Next]_vars PROVE [Service!Next]_(Service!vars)
<1> DEFINE silent == {i \in 1 .. Len(sent) : sent[i].noReply}
<1>1. TypeOK /\ Order /\ TypeOK'
  BY DEF RInv, IInv
<1>2. handled \in Seq(Nat) /\ sent \in Seq(Shapes) /\ out \in Seq(Response) /\ out' \in Seq(Response)
  BY <1>1 DEF TypeOK
<1>3. ASSUME Prefix(out, out') PROVE Service!Extends(Ids(out), Ids(out'))
  <2>1. /\ Len(Ids(out)) = Len(out) /\ Len(Ids(out')) = Len(out') /\ Len(out) \in Nat /\ Len(out') \in Nat
        /\ DOMAIN Ids(out) = 1 .. Len(out) /\ DOMAIN Ids(out') = 1 .. Len(out')
        /\ \A k \in 1 .. Len(out) : Ids(out)[k] = out[k].id
        /\ \A k \in 1 .. Len(out') : Ids(out')[k] = out'[k].id
    BY <1>2 DEF Ids
  <2> QED
    BY <1>3, <2>1 DEF Prefix, Service!Extends
<1>4. /\ Service!Elements(Ids(out')) \subseteq Service!Elements(handled') \ {i \in 1 .. Len(sent') : sent'[i].noReply}
      /\ Service!Distinct(Ids(out'))
  BY DEF RInv, Told
<1>5. ASSUME NEW f \in Shapes, SendFrame(f) PROVE Service!Ask
  <2> DEFINE s == Append(sent, f)
  <2>1. sent' = s /\ UNCHANGED <<handled, out, pc>>
    BY <1>5 DEF SendFrame, answerVars
  <2>2. Len(s) = Len(sent) + 1 /\ Len(sent) \in Nat /\ s[Len(s)] = f /\ \A i \in 1 .. Len(sent) : s[i] = sent[i]
    BY <1>2
  <2> HIDE DEF s
  <2>3. {i \in 1 .. Len(s) : s[i].noReply} = silent \/ {i \in 1 .. Len(s) : s[i].noReply} = silent \union {Len(s)}
    BY <2>2
  <2> QED
    BY <2>1, <2>2, <2>3 DEF Service!Ask, Ids
<1>6. ASSUME UNCHANGED sent, pc # "closed", Prefix(out, out'),
             handled' = handled \/ (cur # 0 /\ handled' = Append(handled, cur))
      PROVE  Service!Work
  <2>1. handled' = handled \/ \E i \in (2 .. Len(sent)) \ Service!Elements(handled) : handled' = Append(handled, i)
    <3>1. CASE cur # 0 /\ handled' = Append(handled, cur)
      <4>1. cur \in 2 .. Len(sent) /\ ~Handled(cur)
        BY <1>1, <3>1, CurIsNew
      <4>2. cur \notin Service!Elements(handled)
        BY <1>2, <4>1 DEF Service!Elements, Handled
      <4> QED
        BY <3>1, <4>1, <4>2
    <3> QED
      BY <1>6, <3>1
  <2>2. Service!Extends(Ids(out), Ids(out'))
    BY <1>3, <1>6
  <2>3. (pc' # "closed") \in BOOLEAN
    OBVIOUS
  <2> QED
    BY <1>4, <1>6, <2>1, <2>2, <2>3 DEF Service!Work
<1>7. CASE RejectEnvelope \/ Dispatch
  <2>1. Prefix(out, out')
    BY <1>1, <1>7, Replying
  <2>2. UNCHANGED sent /\ pc # "closed" /\ cur # 0 /\ handled' = Append(handled, cur)
    BY <1>1, <1>7 DEF RejectEnvelope, Dispatch, Finish, clientVars, TypeOK
  <2> QED
    BY <1>6, <2>1, <2>2 DEF Service!Next
<1>8. ASSUME UNCHANGED <<sent, handled, out>>, pc # "closed" PROVE Service!Work
  <2>1. Prefix(out, out')
    BY <1>2, <1>8 DEF Prefix
  <2> QED
    BY <1>6, <1>8, <2>1
<1>9. CASE \/ Handshake \/ PopQueue \/ ReadFrame \/ ReadMalformed
           \/ ReadEof \/ ReadGarbage \/ CoalesceRead \/ CoalesceMalformed \/ CoalesceTear \/ CoalesceStop
           \/ BeginDrain \/ DrainRead \/ DrainTimeout
  <2>1. UNCHANGED <<sent, handled, out>> /\ pc # "closed"
    BY <1>9 DEF Handshake, PopQueue, ReadFrame, ReadMalformed,
       ReadEof, ReadGarbage, CoalesceRead, CoalesceMalformed, CoalesceTear, CoalesceStop, BeginDrain,
       DrainRead, DrainTimeout, clientVars, answerVars
  <2> QED
    BY <1>8, <2>1 DEF Service!Next
<1>10. CASE SendRest \/ PeerClose \/ SignalShutdown \/ UNCHANGED vars
  <2>1. UNCHANGED <<sent, handled, out, pc>>
    BY <1>10 DEF SendRest, PeerClose, SignalShutdown, vars, answerVars
  <2> QED
    BY <2>1 DEF Service!vars, Ids
<1> QED
  BY <1>5, <1>7, <1>9, <1>10 DEF Next, Client, Progress, Service!Next

(* The connection implements the service its clients are promised: every   *)
(* step of it serves one request or none, answers requests that were       *)
(* served, want an answer and have none, and nothing after it has closed.  *)
THEOREM ServiceImplemented == Spec => ImplementsService
<1>1. Init => Owed /\ Once
  BY DEF Init, Owed, Once, Replies
<1>2. IInv /\ Owed /\ Once /\ [Next]_vars => Owed' /\ Once'
  BY AnswersStep
<1>3. IInv /\ Owed /\ Once => Told
  BY WrittenAnswers DEF IInv, Told
<1>4. Spec => []RInv
  BY <1>1, <1>2, <1>3, Invariance, PTL DEF Spec, RInv
<1>5. Init => Service!Init
  <2> SUFFICES ASSUME Init PROVE Service!Init
    OBVIOUS
  <2>1. sent = <<>> /\ handled = <<>> /\ out = <<>> /\ pc = "handshake"
    BY DEF Init
  <2>2. Len(sent) = 0 /\ {i \in 1 .. Len(sent) : sent[i].noReply} = {} /\ Ids(out) = <<>>
    BY <2>1 DEF Ids
  <2> QED
    BY <2>1, <2>2 DEF Service!Init
<1>6. RInv /\ RInv' /\ [Next]_vars => [Service!Next]_(Service!vars)
  BY ServiceStep
<1> QED
  BY <1>4, <1>5, <1>6, PTL DEF Spec, ImplementsService, Service!Spec

-----------------------------------------------------------------------------
(* Batches.  When no frame outside a batch is more urgent than one in a    *)
(* batch, is malformed or is dropped for a bad envelope without flushing,  *)
(* the frame that ends a batch is handled after the batch's frames and     *)
(* flushes their answers.                                                  *)
AsUrgent(d, c) == d = "high" \/ (d = "normal" /\ c # "high") \/ c = "low"

BatchesFirst ==
  \A f \in Shapes : ~f.batch =>
    /\ f.framing = "ok" /\ ~(f.env = "bad" /\ f.noReply)
    /\ \A g \in Shapes : g.batch => AsUrgent(ClassOf(g), ClassOf(f))

(* A frame of a batch that is queued, current or has its answer buffered   *)
(* comes after every frame outside a batch that has been handled.          *)
Buffered(b) == \E k \in 1 .. Len(pending) : pending[k].id = b
BufferedAreBatched ==
  \A k \in 1 .. Len(pending) : pending[k].id \in 2 .. taken /\ sent[pending[k].id].batch
NotOvertaken ==
  \A b \in 2 .. taken :
    (Queued(b) \/ cur = b \/ Buffered(b)) /\ sent[b].batch =>
      \A j \in 1 .. Len(handled) : ~sent[handled[j]].batch => handled[j] < b
CurFirst ==
  cur # 0 /\ ~sent[cur].batch => \A b \in 2 .. taken : Queued(b) /\ sent[b].batch => cur < b
Waiting == BufferedAreBatched /\ NotOvertaken /\ CurFirst

(* While the reader is at a frame boundary it has lost malformed frames    *)
(* only.                                                                   *)
LostMalformed ==
  pc \notin {"drain", "closed"} /\ ~torn => \A i \in lost : sent[i].framing # "ok"

BInv == Waiting /\ LostMalformed

LEMMA LostStep == ASSUME IInv, LostMalformed, [Next]_vars PROVE LostMalformed'
<1>1. /\ sent \in Seq(Shapes) /\ taken \in 0 .. Len(sent) /\ lost \subseteq 1 .. taken /\ torn \in BOOLEAN
      /\ torn' \in BOOLEAN
  BY TypeStep DEF IInv, TypeOK, Order
<1>2. ASSUME NEW f \in Shapes, SendFrame(f) PROVE LostMalformed'
  <2> DEFINE s == Append(sent, f)
  <2>1. \A i \in lost : s[i] = sent[i]
    <3>1. \A i \in lost : i \in 1 .. Len(sent)
      BY <1>1
    <3>2. \A i \in 1 .. Len(sent) : s[i] = sent[i]
      BY <1>1
    <3> QED
      BY <3>1, <3>2
  <2>2. sent' = s /\ UNCHANGED <<pc, torn, lost>>
    BY <1>2 DEF SendFrame, readVars
  <2> HIDE DEF s
  <2> QED
    BY <2>1, <2>2 DEF LostMalformed
<1>3. ASSUME UNCHANGED <<sent, torn, lost>>, pc' \in {"drain", "closed"} \/ pc \notin {"drain", "closed"}
      PROVE  LostMalformed'
  BY <1>3 DEF LostMalformed
<1>4. CASE UNCHANGED <<sent, torn, lost, pc>>
  BY <1>4 DEF LostMalformed
<1>5. CASE RejectEnvelope \/ Dispatch
  BY <1>3, <1>5 DEF RejectEnvelope, Dispatch, Finish, clientVars, readVars
<1>6. CASE CoalesceMalformed
  BY <1>1, <1>6 DEF CoalesceMalformed, FrameReady, LostMalformed, clientVars, Next1
<1>7. CASE \/ PopQueue \/ ReadFrame \/ CoalesceRead \/ CoalesceStop
  BY <1>3, <1>7 DEF PopQueue, ReadFrame, CoalesceRead, CoalesceStop, clientVars, readVars
<1>8. CASE \/ ReadEof \/ ReadGarbage \/ BeginDrain \/ DrainTimeout \/ ReadMalformed \/ DrainRead
  BY <1>8 DEF LostMalformed, ReadEof, ReadGarbage, BeginDrain, DrainTimeout, ReadMalformed, DrainRead
<1>9. CASE CoalesceTear
  BY <1>9 DEF LostMalformed, CoalesceTear
<1>10. CASE Handshake
  <2>1. pc' = "closed" \/ (UNCHANGED <<sent, torn, lost>> /\ pc = "handshake")
    BY <1>10 DEF Handshake, clientVars
  <2> QED
    BY <1>3, <2>1 DEF LostMalformed
<1>11. CASE SendRest \/ PeerClose \/ SignalShutdown \/ UNCHANGED vars
  BY <1>4, <1>11 DEF SendRest, PeerClose, SignalShutdown, readVars, vars
<1> QED
  BY <1>2, <1>5, <1>6, <1>7, <1>8, <1>9, <1>10, <1>11 DEF Next, Client, Progress

LEMMA InitBInv == Init => BInv
<1> SUFFICES ASSUME Init PROVE BInv
  OBVIOUS
<1>1. taken = 0 /\ cur = 0 /\ pending = <<>> /\ lost = {}
  BY DEF Init
<1> QED
  BY <1>1 DEF BInv, Waiting, BufferedAreBatched, NotOvertaken, CurFirst, LostMalformed

(* Moves of frames.                                                        *)
LEMMA QueuedRead == ASSUME TypeOK, Order, NEW b, Queued(b) PROVE b \in 2 .. taken
BY DEF Order, QueueOrder, Queued

(* A step that queues and selects nothing new, handles nothing and buffers *)
(* nothing.                                                                *)
LEMMA WaitingKept ==
  ASSUME Waiting, TypeOK, TypeOK', \A b \in 2 .. taken' : Queued(b)' => Queued(b) /\ b \in 2 .. taken,
         taken <= taken', cur' = cur, cur \in 0 .. taken, \A i \in 1 .. taken : sent'[i] = sent[i],
         \A k \in 1 .. Len(handled) : handled[k] \in 2 .. taken,
         UNCHANGED <<pending, handled>>
  PROVE  Waiting'
<1>1. BufferedAreBatched'
  <2>1. ASSUME NEW k \in 1 .. Len(pending) PROVE pending[k].id \in 2 .. taken' /\ sent'[pending[k].id].batch
    <3>1. pending[k].id \in 2 .. taken /\ sent[pending[k].id].batch
      BY DEF Waiting, BufferedAreBatched
    <3>2. taken \in Nat /\ taken' \in Nat
      BY DEF TypeOK
    <3> QED
      BY <3>1, <3>2
  <2> QED
    BY <2>1 DEF BufferedAreBatched
<1>2. NotOvertaken'
  <2> SUFFICES ASSUME NEW b \in 2 .. taken', Queued(b)' \/ cur' = b \/ Buffered(b)', sent'[b].batch,
                      NEW j \in 1 .. Len(handled), ~sent'[handled[j]].batch
               PROVE  handled[j] < b
    BY DEF NotOvertaken
  <2>1. Queued(b) \/ cur = b \/ Buffered(b)
    BY DEF Buffered
  <2>2. b \in 2 .. taken
    <3>1. Buffered(b) => b \in 2 .. taken
      BY DEF Buffered, Waiting, BufferedAreBatched
    <3>2. cur = b => b \in 2 .. taken
      <4>1. taken \in Nat /\ taken' \in Nat
        BY DEF TypeOK
      <4> QED
        BY <4>1
    <3>3. Queued(b)' => b \in 2 .. taken
      OBVIOUS
    <3> QED
      BY <3>1, <3>2, <3>3 DEF Buffered
  <2>3. taken \in Nat /\ sent'[b] = sent[b] /\ sent'[handled[j]] = sent[handled[j]]
    BY SMTT(20), <2>2 DEF TypeOK
  <2> QED
    BY <2>1, <2>2, <2>3 DEF Waiting, NotOvertaken
<1>3. CurFirst'
  <2> SUFFICES ASSUME cur' # 0, ~sent'[cur'].batch, NEW b \in 2 .. taken', Queued(b)', sent'[b].batch
               PROVE  cur' < b
    BY DEF CurFirst
  <2>1. b \in 2 .. taken /\ Queued(b) /\ taken \in Nat
    BY DEF TypeOK
  <2>2. sent'[b] = sent[b] /\ sent'[cur] = sent[cur]
    BY <2>1
  <2> QED
    BY <2>1, <2>2 DEF Waiting, CurFirst
<1> QED
  BY <1>1, <1>2, <1>3 DEF Waiting

(* The current frame is done: if it ends a batch the buffer is empty, and  *)
(* the batch frames still queued are later ones.                           *)
LEMMA WaitingFinish ==
  ASSUME BatchesFirst, IInv, Waiting, RejectEnvelope \/ Dispatch
  PROVE  Waiting'
<1>1. TypeOK /\ Order
  BY DEF IInv
<1>2. /\ cur \in 2 .. taken /\ cur # 0 /\ handled \in Seq(Nat) /\ Len(handled) \in Nat /\ taken \in 0 .. Len(sent)
      /\ cur' = 0 /\ handled' = Append(handled, cur) /\ UNCHANGED <<sent, taken, queue>>
      /\ pending \in Seq(Response) /\ sent \in Seq(Shapes)
  BY <1>1 DEF RejectEnvelope, Dispatch, Finish, clientVars, readVars, TypeOK, Order, CurBetween
<1>3. /\ Len(handled') = Len(handled) + 1 /\ handled'[Len(handled) + 1] = cur
      /\ \A k \in 1 .. Len(handled) : handled'[k] = handled[k]
  BY <1>2
<1>4. PICK r \in Response :
        /\ r.id = cur
        /\ \/ pending' = <<>>
           \/ sent[cur].batch /\ pending' \in {pending, Append(pending, r)}
           \/ sent[cur].env = "bad" /\ sent[cur].noReply /\ pending' = pending
  BY <1>1, Replying
<1>5. sent[cur] \in Shapes
  <2>1. cur \in 1 .. Len(sent)
    BY <1>2
  <2> QED
    BY <1>2, <2>1
<1>6. pending' = <<>> \/ (sent[cur].batch /\ pending' \in {pending, Append(pending, r)})
  BY <1>4, <1>5 DEF BatchesFirst
<1>7. BufferedAreBatched'
  <2>1. CASE pending' = <<>>
    BY <2>1 DEF BufferedAreBatched
  <2>2. CASE pending' = pending
    BY <1>2, <2>2 DEF Waiting, BufferedAreBatched
  <2>3. CASE sent[cur].batch /\ pending' = Append(pending, r)
    <3>1. /\ Len(pending') = Len(pending) + 1 /\ pending'[Len(pending) + 1] = r /\ Len(pending) \in Nat
          /\ \A k \in 1 .. Len(pending) : pending'[k] = pending[k]
      BY <1>2, <2>3
    <3> QED
      BY <1>2, <1>4, <2>3, <3>1 DEF Waiting, BufferedAreBatched
  <2> QED
    BY <1>6, <2>1, <2>2, <2>3
<1>8. \A b : Buffered(b)' => Buffered(b) \/ b = cur
  <2>1. CASE pending' = <<>>
    BY <2>1 DEF Buffered
  <2>2. CASE pending' = pending
    BY <2>2 DEF Buffered
  <2>3. CASE pending' = Append(pending, r)
    <3>1. /\ Len(pending') = Len(pending) + 1 /\ pending'[Len(pending) + 1] = r /\ Len(pending) \in Nat
          /\ \A k \in 1 .. Len(pending) : pending'[k] = pending[k]
      BY <1>2, <2>3
    <3> QED
      BY <1>4, <3>1 DEF Buffered
  <2> QED
    BY <1>6, <2>1, <2>2, <2>3
<1>9. NotOvertaken'
  <2> SUFFICES ASSUME NEW b \in 2 .. taken, Queued(b)' \/ cur' = b \/ Buffered(b)', sent[b].batch,
                      NEW j \in 1 .. Len(handled'), ~sent[handled'[j]].batch
               PROVE  handled'[j] < b
    BY <1>2 DEF NotOvertaken
  <2>1. Queued(b)' <=> Queued(b)
    BY <1>2 DEF Queued
  <2>2. Queued(b) \/ cur = b \/ Buffered(b)
    BY <1>2, <1>8, <2>1
  <2>3. CASE j \in 1 .. Len(handled)
    BY <1>3, <2>2, <2>3 DEF Waiting, NotOvertaken
  <2>4. CASE j \notin 1 .. Len(handled)
    <3>1. handled'[j] = cur /\ ~sent[cur].batch
      BY <1>2, <1>3, <2>4
    <3>2. ~Buffered(b)'
      BY <1>6, <3>1 DEF Buffered
    <3>3. Queued(b)
      BY <1>2, <2>1, <3>2
    <3> QED
      BY <1>2, <3>1, <3>3 DEF Waiting, CurFirst
  <2> QED
    BY <2>3, <2>4
<1>10. CurFirst'
  BY <1>2 DEF CurFirst
<1> QED
  BY <1>7, <1>9, <1>10 DEF Waiting

(* The queue gives the oldest of its most urgent frames, so if that is no  *)
(* frame of a batch the queued frames of batches are younger.              *)
LEMMA WaitingPop == ASSUME BatchesFirst, IInv, Waiting, PopQueue PROVE Waiting'
<1>1. TypeOK /\ Order
  BY DEF IInv
<1>2. PICK c \in Classes : PopClass(c) /\ cur' = Head(queue[c]) /\ queue' = [queue EXCEPT ![c] = Tail(@)]
  BY DEF PopQueue
<1>3. /\ queue \in [Classes -> Seq(Nat)] /\ queue[c] \in Seq(Nat) /\ Len(queue[c]) \in Nat \ {0}
      /\ UNCHANGED <<sent, taken, handled, pending>> /\ sent \in Seq(Shapes) /\ taken \in 0 .. Len(sent)
  BY <1>1, <1>2 DEF PopQueue, PopClass, Nonempty, TypeOK, clientVars, readVars, answerVars
<1>4. /\ cur' = queue[c][1] /\ 1 \in 1 .. Len(queue[c])
      /\ \A d \in Classes : \A k \in 1 .. Len(queue'[d]) :
           \E m \in 1 .. Len(queue[d]) : (d = c => m > 1) /\ queue'[d][k] = queue[d][m]
  <2>1. /\ Len(queue'[c]) = Len(queue[c]) - 1 /\ cur' = queue[c][1]
        /\ \A k \in 1 .. Len(queue[c]) - 1 : queue'[c][k] = queue[c][k + 1]
        /\ \A d \in Classes \ {c} : queue'[d] = queue[d]
    BY <1>2, <1>3
  <2>2. Len(queue[c]) \in Nat \ {0}
    BY <1>3
  <2>3. ASSUME NEW d \in Classes, NEW k \in 1 .. Len(queue'[d])
        PROVE  \E m \in 1 .. Len(queue[d]) : (d = c => m > 1) /\ queue'[d][k] = queue[d][m]
    <3>1. CASE d = c
      <4>1. k \in 1 .. Len(queue[c]) - 1 /\ k + 1 \in 1 .. Len(queue[c]) /\ k + 1 > 1
        BY <2>1, <2>2, <3>1
      <4> QED
        BY <2>1, <3>1, <4>1
    <3>2. CASE d # c
      BY <2>1, <3>2
    <3> QED
      BY <3>1, <3>2
  <2>4. cur' = queue[c][1] /\ 1 \in 1 .. Len(queue[c])
    BY <2>1, <2>2
  <2> QED
    BY <2>3, <2>4
<1>5. Queued(cur') /\ \A b : Queued(b)' => Queued(b)
  BY <1>4 DEF Queued
<1>6. BufferedAreBatched'
  BY <1>3 DEF Waiting, BufferedAreBatched
<1>7. NotOvertaken'
  <2>1. \A b : (Queued(b) \/ cur = b \/ Buffered(b))' => Queued(b) \/ Buffered(b)
    BY <1>3, <1>5 DEF Buffered
  <2> QED
    BY <1>3, <2>1 DEF Waiting, NotOvertaken
<1>8. CurFirst'
  <2> SUFFICES ASSUME ~sent[cur'].batch, NEW b \in 2 .. taken, Queued(b)', sent[b].batch
               PROVE  cur' < b
    BY <1>3 DEF CurFirst
  <2>0. PICK d \in Classes : \E k \in 1 .. Len(queue'[d]) : queue'[d][k] = b
    BY DEF Queued
  <2>1. PICK m \in 1 .. Len(queue[d]) : (d = c => m > 1) /\ queue[d][m] = b
    BY SMTT(20), <1>4, <2>0
  <2>2. Class(b) = d /\ Class(cur') = c /\ cur' \in 2 .. taken
    BY <1>1, <1>4, <2>1 DEF Order, QueueOrder
  <2>3. sent[b] \in Shapes /\ sent[cur'] \in Shapes
    <3>1. b \in 1 .. Len(sent) /\ cur' \in 1 .. Len(sent)
      BY <1>3, <2>2
    <3> QED
      BY <1>3, <3>1
  <2>4. AsUrgent(d, c)
    BY <2>2, <2>3 DEF BatchesFirst, Class
  <2>5. queue[d] # <<>>
    BY <1>3, <2>1
  <2>6. d = c
    BY <1>2, <2>4, <2>5 DEF AsUrgent, PopClass, Nonempty, Classes
  <2> QED
    BY <1>1, <1>4, <2>1, <2>6 DEF Order, QueueOrder
<1> QED
  BY <1>6, <1>7, <1>8 DEF Waiting

(* A frame just read is the youngest, current or queued.                   *)
LEMMA WaitingRead ==
  ASSUME IInv, Waiting, ReadFrame \/ (CoalesceRead /\ taken >= 1)
  PROVE  Waiting'
<1>1. TypeOK /\ Order
  BY DEF IInv
<1>2. /\ taken \in Nat /\ taken' = taken + 1 /\ UNCHANGED <<sent, handled, pending>>
      /\ sent \in Seq(Shapes) /\ taken + 1 \in 1 .. Len(sent)
  BY <1>1, ReadyFrame DEF ReadFrame, CoalesceRead, TypeOK, clientVars, answerVars, Next1
<1>3. \A k \in 1 .. Len(handled) : handled[k] \in 2 .. taken
  BY <1>1 DEF Order, HandledOrder
<1>4. \A b : Queued(b) => b \in 2 .. taken
  BY <1>1, QueuedRead
<1>5. /\ \A b : Queued(b)' => Queued(b) \/ (b = taken + 1 /\ cur' = cur)
      /\ cur' = cur \/ (cur' = taken + 1 /\ \A b : ~Queued(b)')
  <2>1. CASE ReadFrame
    BY <1>1, <2>1 DEF ReadFrame, QueueEmpty, Nonempty, Queued, Next1, TypeOK
  <2>2. CASE CoalesceRead
    <3> DEFINE c == ClassOf(sent[taken + 1])
    <3>1. queue' = [queue EXCEPT ![c] = Append(@, taken + 1)] /\ cur' = cur
      BY <2>2 DEF CoalesceRead, Push, Next1
    <3>2. \A d \in Classes : queue[d] \in Seq(Nat) /\ queue'[d] \in {queue[d], Append(queue[d], taken + 1)}
      BY <1>1, <3>1 DEF TypeOK
    <3>3. \A d \in Classes : \A k \in 1 .. Len(queue'[d]) :
            queue'[d][k] = taken + 1 \/ (k \in 1 .. Len(queue[d]) /\ queue'[d][k] = queue[d][k])
      <4> SUFFICES ASSUME NEW d \in Classes, NEW k \in 1 .. Len(queue'[d])
                   PROVE  queue'[d][k] = taken + 1 \/ (k \in 1 .. Len(queue[d]) /\ queue'[d][k] = queue[d][k])
        OBVIOUS
      <4>1. CASE queue'[d] = queue[d]
        BY <4>1
      <4>2. CASE queue'[d] = Append(queue[d], taken + 1)
        BY <3>2, <4>2
      <4> QED
        BY <3>2, <4>1, <4>2
    <3> QED
      BY <3>1, <3>3 DEF Queued
  <2> QED
    BY <2>1, <2>2
<1>6. BufferedAreBatched'
  BY <1>2 DEF Waiting, BufferedAreBatched
<1>7. NotOvertaken'
  <2> SUFFICES ASSUME NEW b \in 2 .. taken + 1, Queued(b)' \/ cur' = b \/ Buffered(b)', sent[b].batch,
                      NEW j \in 1 .. Len(handled), ~sent[handled[j]].batch
               PROVE  handled[j] < b
    BY <1>2 DEF NotOvertaken
  <2>1. CASE b = taken + 1
    BY <1>2, <1>3, <2>1
  <2>2. CASE b # taken + 1
    <3>1. b \in 2 .. taken /\ (Queued(b) \/ cur = b \/ Buffered(b))
      BY <1>2, <1>5, <2>2 DEF Buffered
    <3> QED
      BY <3>1 DEF Waiting, NotOvertaken
  <2> QED
    BY <2>1, <2>2
<1>8. CurFirst'
  <2> SUFFICES ASSUME cur' # 0, ~sent[cur'].batch, NEW b \in 2 .. taken + 1, Queued(b)', sent[b].batch
               PROVE  cur' < b
    BY <1>2 DEF CurFirst
  <2>1. cur' = cur /\ cur \in 0 .. taken
    BY <1>1, <1>5 DEF TypeOK
  <2>2. CASE b = taken + 1
    BY <1>2, <2>1, <2>2
  <2>3. CASE b # taken + 1
    BY <1>2, <1>5, <2>1, <2>3 DEF Waiting, CurFirst
  <2> QED
    BY <2>2, <2>3
<1> QED
  BY <1>6, <1>7, <1>8 DEF Waiting

LEMMA WaitingStep == ASSUME BatchesFirst, IInv, Waiting, [Next]_vars PROVE Waiting'
<1>1. TypeOK /\ Order /\ TypeOK' /\ Greeted
  BY TypeStep DEF IInv
<1>2. /\ taken \in Nat /\ cur \in 0 .. taken /\ sent \in Seq(Shapes) /\ taken <= Len(sent)
      /\ \A k \in 1 .. Len(handled) : handled[k] \in 2 .. taken
      /\ \A b : Queued(b) => b \in 2 .. taken
  BY SMTT(20), <1>1, QueuedRead DEF TypeOK, Order, HandledOrder
<1>3. ASSUME UNCHANGED <<sent, queue, cur, pending, handled>>, taken <= taken' PROVE Waiting'
  BY <1>1, <1>2, <1>3, WaitingKept DEF Queued
<1>4. ASSUME NEW f \in Shapes, SendFrame(f) PROVE Waiting'
  <2> DEFINE s == Append(sent, f)
  <2>1. \A i \in 1 .. taken : s[i] = sent[i]
    BY <1>2
  <2>2. sent' = s /\ UNCHANGED <<taken, queue, cur, pending, handled>>
    BY <1>4 DEF SendFrame, readVars, answerVars
  <2> HIDE DEF s
  <2> QED
    BY <1>1, <1>2, <2>1, <2>2, WaitingKept DEF Queued
<1>5. CASE RejectEnvelope \/ Dispatch
  BY <1>5, WaitingFinish
<1>6. CASE PopQueue
  BY <1>6, WaitingPop
<1>7. CASE ReadFrame \/ CoalesceRead
  BY <1>1, <1>7, WaitingRead DEF Greeted, CoalesceRead
<1>8. CASE \/ SendRest \/ PeerClose \/ SignalShutdown \/ Handshake \/ ReadMalformed
           \/ ReadEof \/ ReadGarbage \/ CoalesceMalformed \/ CoalesceTear \/ CoalesceStop
           \/ BeginDrain \/ DrainRead \/ DrainTimeout \/ UNCHANGED vars
  <2>1. UNCHANGED <<sent, queue, cur, pending, handled>> /\ taken' \in {taken, taken + 1}
    BY <1>8 DEF SendRest, PeerClose, SignalShutdown, Handshake, ReadMalformed,
       ReadEof, ReadGarbage, CoalesceMalformed, CoalesceTear, CoalesceStop, BeginDrain,
       DrainRead, DrainTimeout, vars, clientVars, readVars, answerVars, Next1
  <2> QED
    BY <1>2, <1>3, <2>1
<1> QED
  BY <1>4, <1>5, <1>6, <1>7, <1>8 DEF Next, Client, Progress

(* Batching postpones answers only while the batch goes on: once its       *)
(* client has ended it and all is read and handled, none is left in the    *)
(* buffer, if the frames of batches are the more urgent ones.              *)
THEOREM BatchesAreFlushed == ASSUME BatchesFirst PROVE Spec => []BatchBoundaryFlushed
<1>1. Init => BInv
  BY InitBInv
<1>2. IInv /\ BInv /\ [Next]_vars => BInv'
  BY WaitingStep, LostStep DEF BInv
<1>3. IInv /\ BInv => BatchBoundaryFlushed
  <2> SUFFICES ASSUME IInv, BInv, Idle, ~BatchOpen, pending # <<>> PROVE FALSE
    BY DEF BatchBoundaryFlushed
  <2> DEFINE n == Len(sent)
             b == pending[1].id
  <2>1. TypeOK /\ Order
    BY DEF IInv
  <2>2. /\ pending \in Seq(Response) /\ 1 \in 1 .. Len(pending) /\ sent \in Seq(Shapes) /\ n \in Nat
        /\ taken = n /\ cur = 0 /\ pc = "select" /\ ~torn
    BY <2>1 DEF TypeOK, Idle
  <2>3. b \in 2 .. n /\ sent[b].batch /\ Buffered(b)
    BY <2>2 DEF BInv, Waiting, BufferedAreBatched, Buffered
  <2>4. ~sent[n].batch /\ sent[n] \in Shapes /\ n \in 2 .. n
    BY <2>2, <2>3 DEF BatchOpen
  <2>5. n \notin lost
    BY <2>2, <2>4 DEF BInv, LostMalformed, BatchesFirst
  <2>6. ~Queued(n)
    BY <2>2 DEF Idle, QueueEmpty, Nonempty, Queued
  <2>7. Handled(n)
    BY <2>1, <2>2, <2>4, <2>5, <2>6 DEF Order, NoneMissing
  <2>8. n < b
    BY <2>2, <2>3, <2>4, <2>7 DEF Handled, BInv, Waiting, NotOvertaken
  <2> QED
    BY <2>2, <2>3, <2>8
<1> QED
  BY <1>1, <1>2, <1>3, Invariance, PTL DEF Spec
=============================================================================
