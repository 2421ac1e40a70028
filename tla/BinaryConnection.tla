-------------------------- MODULE BinaryConnection --------------------------
(***************************************************************************)
(* One client connection of the binary Unix-socket transport:              *)
(* handle_connection in src/transport/connection.rs, with the frame reader *)
(* of frame.rs and the shutdown watch of transport/mod.rs.                 *)
(*                                                                         *)
(* Frames are numbered in the order the client writes them, frame 1 being  *)
(* the one the server takes for the handshake, so the socket's receive     *)
(* buffer is the interval taken+1 .. Len(sent) of the log `sent'.          *)
(***************************************************************************)
EXTENDS Naturals, Sequences, FiniteSets

CONSTANTS
  Shapes,         (* the frames this client may write                       *)
  MaxFrames,      (* bound: frames the client writes                        *)
  MaxConcurrent,  (* ConnectionConfig::max_concurrent                       *)
  SplitWrites     (* may a frame reach the socket in two pieces?            *)

Priorities == {"normal", "low", "high", "critical"}
Classes    == {"high", "normal", "low"}

(* What the server can tell about a frame.  "framing" is what the reader   *)
(* makes of it: badHeader fails before the payload is read (opcode, size), *)
(* badSplit after it (the envelope's length exceeds the payload).          *)
Shape == [opcode : {"op", "handshake"}, framing : {"ok", "badHeader", "badSplit"},
          env : {"ok", "bad"}, noReply : BOOLEAN, batch : BOOLEAN, prio : Priorities]

ASSUME ConnAssumption ==
  /\ Shapes \subseteq Shape
  /\ MaxFrames \in Nat
  /\ MaxConcurrent \in Nat
  /\ SplitWrites \in BOOLEAN

VARIABLES
  sent,      (* log of the frames the client has begun to write             *)
  half,      (* TRUE while the last of them is only partly on the socket    *)
  peerOpen,  (* the client still holds its end                              *)
  shutdown,  (* the value of the shutdown watch                             *)
  pc,        (* where the connection task is                                *)
  taken,     (* number of frames whose bytes the server has consumed        *)
  torn,      (* bytes of a frame were consumed and thrown away: the reader  *)
             (* is no longer at a frame boundary                            *)
  queue,     (* PriorityQueue: one FIFO of frame numbers per class          *)
  cur,       (* the frame being processed, 0 if none                        *)
  pending,   (* pending_responses                                           *)
  out,       (* answers written to the client                               *)
  control,   (* history: handshake, refusal, shutdown frames written        *)
  handled,   (* history: frames dispatched or refused, in that order        *)
  lost       (* history: frames read and forgotten                          *)

clientVars == <<sent, half, peerOpen, shutdown>>
readVars   == <<taken, torn, lost>>
vars == <<sent, half, peerOpen, shutdown, pc, taken, torn, queue, cur,
          pending, out, control, handled, lost>>
answerVars == <<pending, out, handled>>

PCs == {"handshake", "select", "coalesce", "handle", "drain", "closed"}
Response == [id : Nat, kind : {"reply", "error"}]
Control == {"handshake", "error", "shutdown"}

(* Types, and that a frame is current exactly while one is processed.      *)
TypeOK ==
  /\ sent \in Seq(Shapes)
  /\ half \in BOOLEAN /\ peerOpen \in BOOLEAN /\ shutdown \in BOOLEAN
  /\ pc \in PCs
  /\ taken \in 0 .. Len(sent) /\ torn \in BOOLEAN
  /\ queue \in [Classes -> Seq(Nat)]
  /\ cur \in 0 .. taken /\ (cur # 0 <=> pc \in {"coalesce", "handle"})
  /\ pending \in Seq(Response) /\ out \in Seq(Response) /\ control \in SUBSET Control
  /\ handled \in Seq(Nat) /\ lost \in SUBSET Nat

Init ==
  /\ sent = <<>> /\ half = FALSE /\ peerOpen = TRUE /\ shutdown = FALSE
  /\ pc = "handshake" /\ taken = 0 /\ torn = FALSE
  /\ queue = [c \in Classes |-> <<>>] /\ cur = 0
  /\ pending = <<>> /\ out = <<>> /\ control = {} /\ handled = <<>> /\ lost = {}

-----------------------------------------------------------------------------
(* resolve_priority, then PriorityQueue::push's choice of a FIFO: Critical *)
(* is downgraded to High for operations, and shares High's FIFO anyway.    *)
ResolvePriority(f) ==
  IF f.prio = "critical" /\ f.opcode # "handshake" THEN "high" ELSE f.prio

ClassOf(f) == IF ResolvePriority(f) = "critical" THEN "high" ELSE ResolvePriority(f)

(* Fault models: the FIFO keeps the newest frame, or grows at its head.    *)
PushReplacing(i) == queue' = [queue EXCEPT ![ClassOf(sent[i])] = <<i>>]
PushFront(i) == queue' = [queue EXCEPT ![ClassOf(sent[i])] = <<i>> \o @]
Push(i) == queue' = [queue EXCEPT ![ClassOf(sent[i])] = Append(@, i)]

(* PriorityQueue::pop: the first class with a frame, High first.           *)
Nonempty(c) == queue[c] # <<>>
PopClass(c) ==
  /\ Nonempty(c)
  /\ c \in {"normal", "low"} => ~Nonempty("high")
  /\ c = "low" => ~Nonempty("normal")

QueueEmpty == \A c \in Classes : ~Nonempty(c)

(* A whole frame is on the socket, or only the first bytes of one.         *)
FrameReady == ~torn /\ (taken + 1 < Len(sent) \/ (taken + 1 = Len(sent) /\ ~half))
HalfReady  == ~torn /\ taken + 1 = Len(sent) /\ half

Next1 == taken + 1

-----------------------------------------------------------------------------
(* The environment: the client writes frames, whole or in two pieces, and  *)
(* may close at any time; the server's owner signals shutdown.             *)
SendFrame(f) ==
  /\ peerOpen /\ ~half /\ Len(sent) < MaxFrames
  /\ sent' = Append(sent, f)
  /\ half' \in (IF SplitWrites THEN BOOLEAN ELSE {FALSE})
  /\ UNCHANGED <<peerOpen, shutdown, pc, readVars, queue, cur, control, answerVars>>

SendRest ==
  /\ peerOpen /\ half
  /\ half' = FALSE
  /\ UNCHANGED <<sent, peerOpen, shutdown, pc, readVars, queue, cur, control, answerVars>>

PeerClose ==
  /\ peerOpen
  /\ peerOpen' = FALSE
  /\ UNCHANGED <<sent, half, shutdown, pc, readVars, queue, cur, control, answerVars>>

SignalShutdown ==
  /\ ~shutdown
  /\ shutdown' = TRUE
  /\ UNCHANGED <<sent, half, peerOpen, pc, readVars, queue, cur, control, answerVars>>

-----------------------------------------------------------------------------
(* write_frame: the answers reach an open peer; to a closed one (which may  *)
(* have closed in the middle) only some of them went out before the error. *)
WriteAll(rs) == peerOpen /\ out' = out \o rs
WriteFails(rs) ==
  /\ ~peerOpen
  /\ \E k \in 0 .. Len(rs) : out' = out \o SubSeq(rs, 1, k)

(* The first frame must be a well-formed Handshake; a frame of another     *)
(* kind is refused with an error, one that cannot be read with nothing.    *)
Greeting(f) == f.opcode = "handshake" /\ f.env = "ok"
Tell(c) == control' = IF peerOpen THEN control \cup {c} ELSE control

Handshake ==
  LET f == sent[Next1] IN
  /\ pc = "handshake" /\ FrameReady
  /\ taken' = Next1
  /\ \/ /\ f.framing # "ok"
        /\ pc' = "closed" /\ lost' = lost \cup {Next1} /\ UNCHANGED control
     \/ /\ f.framing = "ok" /\ ~Greeting(f)
        /\ pc' = "closed" /\ Tell("error") /\ UNCHANGED lost
     \/ /\ f.framing = "ok" /\ Greeting(f)
        /\ pc' = IF peerOpen THEN "select" ELSE "closed"
        /\ Tell("handshake") /\ UNCHANGED lost
  /\ UNCHANGED <<clientVars, torn, queue, cur, answerVars>>

(* Top of the loop: the queue first; only when it is empty, the socket.    *)
PopQueue ==
  /\ pc = "select"
  /\ \E c \in Classes :
       /\ PopClass(c)
       /\ cur' = Head(queue[c])
       /\ queue' = [queue EXCEPT ![c] = Tail(@)]
  /\ pc' = "coalesce"
  /\ UNCHANGED <<clientVars, readVars, control, answerVars>>

ReadFrame ==
  /\ pc = "select" /\ QueueEmpty /\ FrameReady
  /\ sent[Next1].framing = "ok"
  /\ taken' = Next1 /\ cur' = Next1 /\ pc' = "coalesce"
  /\ UNCHANGED <<clientVars, torn, queue, lost, control, answerVars>>

(* A malformed frame ends the loop; nothing is sent to the client.         *)
ReadMalformed ==
  /\ pc = "select" /\ QueueEmpty /\ FrameReady
  /\ sent[Next1].framing # "ok"
  /\ taken' = Next1 /\ lost' = lost \cup {Next1} /\ pc' = "closed"
  /\ UNCHANGED <<clientVars, torn, queue, cur, control, answerVars>>

(* Off a frame boundary the bytes of a later frame are taken for a header: *)
(* the read fails, or waits for bytes that never come (no step).           *)
ReadGarbage ==
  /\ pc = "select" /\ QueueEmpty /\ torn /\ ~half
  /\ pc' = "closed"
  /\ UNCHANGED <<clientVars, readVars, queue, cur, control, answerVars>>

(* End of file.  A peer that closes with responses unread resets the       *)
(* socket, so the error may come before the frames still in the buffer.    *)
ReadEof ==
  /\ pc \in {"handshake", "drain"} \/ (pc = "select" /\ QueueEmpty)
  /\ ~peerOpen
  /\ pc' = "closed"
  /\ UNCHANGED <<clientVars, readVars, queue, cur, control, answerVars>>

-----------------------------------------------------------------------------
(* The coalescing loop: zero-timeout reads until one does not return a     *)
(* frame.  An error ends it silently; so does the timeout, and the bytes   *)
(* of a frame read so far go with the cancelled future.                    *)
CoalesceRead ==
  /\ pc = "coalesce" /\ FrameReady
  /\ sent[Next1].framing = "ok"
  /\ taken' = Next1 /\ Push(Next1)
  /\ UNCHANGED <<clientVars, pc, torn, cur, lost, control, answerVars>>

CoalesceMalformed ==
  /\ pc = "coalesce" /\ FrameReady
  /\ \/ sent[Next1].framing = "badSplit" /\ UNCHANGED torn
     \/ sent[Next1].framing = "badHeader" /\ torn' \in BOOLEAN
  /\ taken' = Next1 /\ lost' = lost \cup {Next1} /\ pc' = "handle"
  /\ UNCHANGED <<clientVars, queue, cur, control, answerVars>>

CoalesceTear ==
  /\ pc = "coalesce" /\ HalfReady
  /\ taken' = Next1 /\ torn' = TRUE /\ lost' = lost \cup {Next1}
  /\ pc' = "handle"
  /\ UNCHANGED <<clientVars, queue, cur, control, answerVars>>

(* Nothing noticed on the socket: tokio's readiness may lag the arrival.   *)
CoalesceStop ==
  /\ pc = "coalesce"
  /\ pc' = "handle"
  /\ UNCHANGED <<clientVars, readVars, queue, cur, control, answerVars>>

-----------------------------------------------------------------------------
(* Processing the current frame.                                           *)
(* Fault model: the buffer holds one answer only.                          *)
BufferReplacing(r) ==
  /\ pending' = <<r>> /\ pc' = "select" /\ UNCHANGED out
Buffer(r) ==
  /\ pending' = Append(pending, r) /\ pc' = "select" /\ UNCHANGED out

(* Fault model: the final answer is written before the buffered ones.      *)
FlushFinalFirst(r) ==
  LET rs == <<r>> \o pending IN
  /\ pending' = <<>>
  /\ \/ WriteAll(rs) /\ pc' = "select"
     \/ WriteFails(rs) /\ pc' = "closed"

(* flush_batch: the buffered responses, then r; a failed write leaves the  *)
(* loop, and pending.drain has emptied the buffer either way.              *)
FlushBatch(r) ==
  LET rs == Append(pending, r) IN
  /\ pending' = <<>>
  /\ \/ WriteAll(rs) /\ pc' = "select"
     \/ WriteFails(rs) /\ pc' = "closed"

(* Fault models: a no_reply frame flushes nothing, or does not drain.      *)
FlushSkipped == pc' = "select" /\ UNCHANGED <<pending, out>>
FlushWithoutDrain ==
  pc' = "select" /\ UNCHANGED pending /\ (WriteAll(pending) \/ WriteFails(pending))

(* The flush at a no_reply frame: a write error only ends the drain.       *)
FlushPending ==
  /\ pending' = <<>> /\ pc' = "select"
  /\ WriteAll(pending) \/ WriteFails(pending)

(* Fault model: the frame is handled and stays current.                    *)
FinishKeepingFrame ==
  /\ handled' = Append(handled, cur) /\ UNCHANGED cur
  /\ UNCHANGED <<clientVars, readVars, queue, control>>

Finish ==
  /\ handled' = Append(handled, cur) /\ cur' = 0
  /\ UNCHANGED <<clientVars, readVars, queue, control>>

Answer(r) == IF sent[cur].batch THEN Buffer(r) ELSE FlushBatch(r)

(* parse_envelope failed: an error answer, or nothing at all for no_reply. *)
RejectEnvelope ==
  /\ pc = "handle" /\ sent[cur].env = "bad"
  /\ IF sent[cur].noReply
       THEN pc' = "select" /\ UNCHANGED <<pending, out>>
       ELSE Answer([id |-> cur, kind |-> "error"])
  /\ Finish

(* A permit (Critical needs none), the operation, its answer.  The loop    *)
(* holds at most one permit, so one is free whenever there are any.        *)
Permit == ResolvePriority(sent[cur]) = "critical" \/ MaxConcurrent > 0

Dispatch ==
  /\ pc = "handle" /\ sent[cur].env = "ok" /\ Permit
  /\ \E kind \in (IF sent[cur].opcode = "handshake" THEN {"error"} ELSE {"reply", "error"}) :
       IF ~sent[cur].noReply
         THEN Answer([id |-> cur, kind |-> kind])
         ELSE IF sent[cur].batch
                THEN pc' = "select" /\ UNCHANGED <<pending, out>>
                ELSE FlushPending
  /\ Finish

-----------------------------------------------------------------------------
(* Shutdown is looked at only where the loop waits for the socket.         *)
BeginDrain ==
  /\ pc = "select" /\ QueueEmpty /\ shutdown
  /\ Tell("shutdown")
  /\ pc' = "drain"
  /\ UNCHANGED <<clientVars, readVars, queue, cur, answerVars>>

DrainRead ==
  /\ pc = "drain" /\ FrameReady
  /\ taken' = Next1 /\ lost' = lost \cup {Next1}
  /\ pc' = IF sent[Next1].framing = "ok" THEN "drain" ELSE "closed"
  /\ UNCHANGED <<clientVars, torn, queue, cur, control, answerVars>>

(* Fault model: no timeout around the drain, the client has to hang up.    *)
DrainWithoutTimeout ==
  /\ pc = "drain" /\ ~peerOpen
  /\ pc' = "closed"
  /\ UNCHANGED <<clientVars, readVars, queue, cur, control, answerVars>>

(* SHUTDOWN_DRAIN_MS elapsed.                                              *)
DrainTimeout ==
  /\ pc = "drain"
  /\ pc' = "closed"
  /\ UNCHANGED <<clientVars, readVars, queue, cur, control, answerVars>>

-----------------------------------------------------------------------------
Client == (\E f \in Shapes : SendFrame(f)) \/ SendRest \/ PeerClose

Progress ==
  \/ Handshake \/ PopQueue \/ ReadFrame \/ ReadMalformed \/ ReadEof
  \/ CoalesceRead \/ CoalesceMalformed \/ CoalesceTear \/ CoalesceStop
  \/ RejectEnvelope \/ Dispatch
  \/ BeginDrain \/ DrainRead \/ DrainTimeout

Next == Client \/ SignalShutdown \/ Progress \/ ReadGarbage

Spec == Init /\ [][Next]_vars

(* The runtime polls the task whenever it can move, and operations return. *)
(* The client owes nothing, and a read of garbage may wait for ever.       *)
FairSpec == Spec /\ WF_vars(Progress)

-----------------------------------------------------------------------------
(* Properties.                                                             *)
Queued(i)  == \E c \in Classes : \E k \in 1 .. Len(queue[c]) : queue[c][k] = i
Handled(i) == \E k \in 1 .. Len(handled) : handled[k] = i
Closed == pc = "closed"
BatchOpen == sent # <<>> /\ sent[Len(sent)].batch
Idle   == pc = "select" /\ QueueEmpty /\ taken = Len(sent) /\ ~half /\ ~torn

(* No request read from the socket disappears or is served twice: it is in *)
(* the queue, being processed, handled, or in the set of frames the reader *)
(* itself gave up, and in only one of them.                                *)
EveryFrameAccounted ==
  /\ \A i \in 2 .. taken : Queued(i) \/ cur = i \/ Handled(i) \/ i \in lost
  /\ \A k \in 1 .. Len(handled) :
       LET i == handled[k] IN
       /\ i \in 2 .. taken /\ ~Queued(i) /\ cur # i /\ i \notin lost
       /\ \A l \in 1 .. Len(handled) : handled[l] = i => l = k

(* Whatever the interleaving of reads, coalescing and pops, two requests   *)
(* of one priority class are dispatched in the order they were sent.       *)
FifoWithinClass ==
  \A j, k \in 1 .. Len(handled) :
    j < k /\ ClassOf(sent[handled[j]]) = ClassOf(sent[handled[k]])
      => handled[j] < handled[k]

(* What the client has been answered, followed by what is buffered for it, *)
(* is the dispatch order without the no_reply requests: batching delays    *)
(* answers but never reorders, repeats, drops or invents one.              *)
Wanting(asked, done, k) == {j \in 1 .. k : ~asked[done[j]].noReply}
InOrder(asked, done, replies) ==
  /\ Len(replies) = Cardinality(Wanting(asked, done, Len(done)))
  /\ \A k \in Wanting(asked, done, Len(done)) :
       replies[Cardinality(Wanting(asked, done, k))].id = done[k]
Replies        == out \o pending
AnswersInOrder == peerOpen => InOrder(sent, handled, Replies)

(* The connection implements the service its clients are promised.         *)
Ids(rs) == [k \in DOMAIN rs |-> rs[k].id]
Service == INSTANCE RequestService WITH
  asked <- Len(sent), silent <- {i \in 1 .. Len(sent) : sent[i].noReply},
  served <- handled, told <- Ids(out), open <- pc # "closed"
ImplementsService == Service!Spec

(* When the client has ended its batch and the server has nothing left to  *)
(* do, no answer sits in the buffer.                                       *)
BatchBoundaryFlushed ==
  Idle /\ ~BatchOpen => pending = <<>>

(* Every request that wants an answer gets it, unless the connection ends  *)
(* or the client leaves its batch open.                                    *)
AnsweredId(i) == \E k \in 1 .. Len(out) : out[k].id = i
EventuallyAnswered ==
  \A i \in 2 .. MaxFrames :
    (Len(sent) >= i /\ ~sent[i].noReply)
      ~> (AnsweredId(i) \/ Closed \/ BatchOpen)

(* Every request is eventually dispatched or refused, fire-and-forget ones *)
(* and Low ones behind High ones included, unless the connection ends.     *)
EventuallyHandled ==
  \A i \in 2 .. MaxFrames : Len(sent) >= i ~> Handled(i) \/ i \in lost \/ Closed

(* A connection owes both to its client: every request is dispatched, and  *)
(* answered when it wants to be.                                           *)
EventuallyServed == EventuallyHandled /\ EventuallyAnswered

(* A greeted connection closes after shutdown is signalled, whatever is    *)
(* queued and whether or not the client reacts.                            *)
ShutdownCloses == (shutdown /\ pc # "handshake") ~> Closed

-----------------------------------------------------------------------------
(* A statement of a comment that the code does not keep, refuted by a run  *)
(* of its own.                                                             *)

(* connection.rs:296: frames immediately available are enqueued; a frame   *)
(* that is not must not be touched.                                        *)
NoFrameTorn == ~torn
=============================================================================
