----------------------------- MODULE BatchEmbedder -----------------------------
(***************************************************************************)
(* Concurrent callers whose texts are embedded in common requests:         *)
(* src/voyage/batch.rs, over the client of src/voyage/client.rs.           *)
(*                                                                         *)
(* A caller's text is the caller.  The future of a call may be dropped at  *)
(* any await, also while it carries the batch of others.                   *)
(***************************************************************************)
EXTENDS Naturals, Sequences, Functions

CONSTANTS
  Callers,   (* calls of embed_one                                          *)
  MaxBatch   (* MAX_BATCH_SIZE                                              *)

(* Assumed where the module is instantiated.                                *)
BatchAssumption == MaxBatch \in Nat \ {0}

VARIABLES
  pending,   (* callers whose texts wait, in order                          *)
  at,        (* where each caller is                                        *)
  carries,   (* the batch each caller has taken                             *)
  channel,   (* what each caller's channel holds                            *)
  result,    (* what each caller was told                                   *)
  requests   (* the requests sent, each the texts it embeds                 *)

vars == <<pending, at, carries, channel, result, requests>>

Vector(c) == [type |-> "vector", of |-> c]
Empty     == [type |-> "empty"]     (* Vec::default() for a missing vector  *)
Failed    == [type |-> "error"]
Cancelled == [type |-> "cancelled"]
Unset     == [type |-> "none"]
Dropped   == [type |-> "dropped"]   (* the sender is gone                   *)

Over == {"answered", "gone"}
TypeOK ==
  /\ pending \in Seq(Callers) /\ Len(pending) < MaxBatch
  /\ at \in [Callers -> {"idle", "waiting", "flushing", "receiving"} \union Over]
  /\ \A c \in Callers : carries[c] # <<>> => at[c] = "flushing"

Init ==
  /\ pending = <<>> /\ at = [c \in Callers |-> "idle"]
  /\ carries = [c \in Callers |-> <<>>] /\ requests = <<>>
  /\ channel = [c \in Callers |-> Unset] /\ result = [c \in Callers |-> Unset]

Goto(c, s) == at' = [at EXCEPT ![c] = s]

-----------------------------------------------------------------------------

(* The call whose text fills the batch takes it, within the lock.          *)
Call(c) ==
  /\ at[c] = "idle"
  /\ IF Len(pending) + 1 >= MaxBatch
       THEN /\ carries' = [carries EXCEPT ![c] = Append(pending, c)]
            /\ pending' = <<>> /\ Goto(c, "flushing")
       ELSE /\ pending' = Append(pending, c) /\ Goto(c, "waiting")
            /\ UNCHANGED carries
  /\ UNCHANGED <<channel, result, requests>>

(* Fault model: the batch is read, and taken out when it has been sent.    *)
WindowPassesCopying(c) ==
  /\ at[c] = "waiting" /\ carries' = [carries EXCEPT ![c] = pending]
  /\ Goto(c, IF pending = <<>> THEN "receiving" ELSE "flushing")
  /\ UNCHANGED <<pending, channel, result, requests>>

(* The window has passed: the first to wake takes what is there, be its    *)
(* own text among it or not.                                               *)
WindowPasses(c) ==
  /\ at[c] = "waiting" /\ carries' = [carries EXCEPT ![c] = pending] /\ pending' = <<>>
  /\ Goto(c, IF pending = <<>> THEN "receiving" ELSE "flushing")
  /\ UNCHANGED <<channel, result, requests>>

(* The answer of the provider, vectors in the order of the texts; it may   *)
(* hold fewer.                                                             *)
VectorAt(batch, i, n) == IF i <= n THEN Vector(batch[i]) ELSE Empty

Deliver(c, outcome) ==
  /\ channel' = [d \in Callers |->
       IF d \in Range(carries[c]) /\ at[d] \notin Over
         THEN outcome[CHOOSE i \in DOMAIN carries[c] : carries[c][i] = d] ELSE channel[d]]
  /\ requests' = Append(requests, carries[c])
  /\ carries' = [carries EXCEPT ![c] = <<>>]
  /\ Goto(c, "receiving") /\ UNCHANGED <<pending, result>>

Flush(c) ==
  /\ at[c] = "flushing"
  /\ \/ \E n \in 0 .. Len(carries[c]) :
          Deliver(c, [i \in DOMAIN carries[c] |-> VectorAt(carries[c], i, n)])
     \/ Deliver(c, [i \in DOMAIN carries[c] |-> Failed])

Receive(c) ==
  /\ at[c] = "receiving" /\ channel[c] # Unset /\ Goto(c, "answered")
  /\ result' = [result EXCEPT ![c] = IF channel[c] = Dropped THEN Cancelled ELSE channel[c]]
  /\ UNCHANGED <<pending, carries, channel, requests>>

(* Fault model: those whose batch is lost are not told.                    *)
DropSilently(c) ==
  /\ at[c] \in {"waiting", "flushing", "receiving"} /\ Goto(c, "gone")
  /\ requests' = IF carries[c] = <<>> THEN requests ELSE Append(requests, carries[c])
  /\ carries' = [carries EXCEPT ![c] = <<>>]
  /\ UNCHANGED <<pending, result, channel>>

(* The future is dropped.  Senders of a batch it carried go with it; the   *)
(* request may have been sent.  Its own text stays where it is.            *)
Drop(c) ==
  /\ at[c] \in {"waiting", "flushing", "receiving"} /\ Goto(c, "gone")
  /\ channel' = [d \in Callers |-> IF d \in Range(carries[c]) THEN Dropped ELSE channel[d]]
  /\ requests' = IF carries[c] = <<>> THEN requests ELSE Append(requests, carries[c])
  /\ carries' = [carries EXCEPT ![c] = <<>>]
  /\ UNCHANGED <<pending, result>>

Progress(c) == WindowPasses(c) \/ Flush(c) \/ Receive(c)
Next == \E c \in Callers : Call(c) \/ Progress(c) \/ Drop(c)

-----------------------------------------------------------------------------
(* A caller that is handed a vector is handed the one of its own text,     *)
(* whoever flushed it and whoever was dropped from the batch meanwhile.    *)
OwnVector ==
  \A c \in Callers : result[c].type = "vector" => result[c] = Vector(c)

(* No text is sent twice, and no request is larger than the provider takes.*)
EachTextOnce ==
  /\ \A r, s \in DOMAIN requests :
       r # s => Range(requests[r]) \intersect Range(requests[s]) = {}
  /\ \A r \in DOMAIN requests :
       Len(requests[r]) <= MaxBatch /\ IsInjective(requests[r])

(* Together: batching is invisible to the callers, and to the provider's   *)
(* limits.                                                                 *)
EachItsOwn == TypeOK /\ OwnVector /\ EachTextOnce

(* Every call that is not dropped returns, also when the caller that       *)
(* carries its text is dropped: in the end no call is under way.           *)
EveryCallReturns == <>[](\A c \in Callers : at[c] \in {"idle"} \union Over)
=============================================================================
