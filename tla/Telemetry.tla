------------------------------- MODULE Telemetry -------------------------------
(***************************************************************************)
(* The analytics of the server: counters and ring buffer of                *)
(* src/analytics/collector.rs and ring_buffer.rs, and the summary of       *)
(* aggregator.rs that persistence.rs writes to MongoDB.                    *)
(***************************************************************************)
EXTENDS Naturals, Sequences, FiniteSets, Functions

CONSTANTS
  Recorders,  (* tasks that record what they have done                      *)
  Capacity,   (* of the ring                                                *)
  Latencies,  (* a set of numbers                                           *)
  MaxEvents,  (* bound: events recorded                                     *)
  MaxFlushes  (* bound: flushes                                             *)

(* Assumed where the module is instantiated.                                *)
TelemetryAssumption ==
  /\ Capacity \in Nat \ {0} /\ Latencies \subseteq Nat
  /\ MaxEvents \in Nat /\ MaxFlushes \in Nat

VARIABLES
  ring, total, errors, (* the collector                                     *)
  made,                (* events whose recording has begun                  *)
  pushed,              (* events that were put into the ring, in order      *)
  at, event,           (* each recorder: where it is, and with which event  *)
  flush, stored        (* the flush in progress, and the summaries stored   *)

readers == <<flush, stored>>
vars    == <<ring, total, errors, made, pushed, at, event, readers>>

Event(n, ok, ms) == [n |-> n, ok |-> ok, latency |-> ms]

TypeOK ==
  /\ Len(ring) <= Capacity /\ total \in 0 .. MaxEvents /\ errors <= total
  /\ made \in 0 .. MaxEvents /\ Len(pushed) <= made
  /\ at \in [Recorders -> {"idle", "counted", "tallied"}]

Init ==
  /\ ring = <<>> /\ total = 0 /\ errors = 0 /\ made = 0 /\ pushed = <<>>
  /\ at = [r \in Recorders |-> "idle"] /\ event = [r \in Recorders |-> <<>>]
  /\ flush = <<>> /\ stored = <<>>

-----------------------------------------------------------------------------
(* record: two counters and the ring, one after the other.                 *)
Goto(r, s) == at' = [at EXCEPT ![r] = s]

CountOperation(r) ==
  /\ at[r] = "idle" /\ made < MaxEvents /\ made' = made + 1 /\ total' = total + 1
  /\ \E ok \in BOOLEAN, ms \in Latencies :
       event' = [event EXCEPT ![r] = Event(made, ok, ms)]
  /\ Goto(r, "counted") /\ UNCHANGED <<ring, errors, pushed, readers>>

CountError(r) ==
  /\ at[r] = "counted" /\ errors' = IF event[r].ok THEN errors ELSE errors + 1
  /\ Goto(r, "tallied") /\ UNCHANGED <<ring, total, made, pushed, event, readers>>

(* Fault model: a full ring loses its youngest event.                      *)
RoomAtFront(s) == IF Len(s) >= Capacity THEN SubSeq(s, 1, Len(s) - 1) ELSE s
Room(s) == IF Len(s) >= Capacity THEN Tail(s) ELSE s

Push(r) ==
  /\ at[r] = "tallied" /\ ring' = Append(Room(ring), event[r])
  /\ pushed' = Append(pushed, event[r]) /\ Goto(r, "idle")
  /\ event' = [event EXCEPT ![r] = <<>>]
  /\ UNCHANGED <<total, errors, made, readers>>

-----------------------------------------------------------------------------
(* aggregate, of one snapshot.  percentile: nearest rank, in hundredths.   *)
Order(s) ==
  CHOOSE p \in Bijection(DOMAIN s, DOMAIN s) :
    \A i \in DOMAIN s : \A j \in DOMAIN s : i < j => s[p[i]].latency <= s[p[j]].latency
Sorted(s) == LET p == Order(s) IN [i \in DOMAIN s |-> s[p[i]].latency]
Ceiling(a, b) == (a + b - 1) \div b
Index(pct, n) == LET k == Ceiling(pct * n, 100) IN IF k < 1 THEN 1 ELSE IF k > n THEN n ELSE k
Percentile(s, pct) == Sorted(s)[Index(pct, Len(s))]

Failed(s) == Cardinality({i \in DOMAIN s : ~s[i].ok})
Summary(s) ==
  [events |-> s, operations |-> Len(s), errors |-> Failed(s),
   p50 |-> Percentile(s, 50), p95 |-> Percentile(s, 95), p99 |-> Percentile(s, 99)]

(* The flush: nothing to do for an empty ring, and the ring keeps its      *)
(* events; the insertion may fail, and is not repeated.                    *)
FlushSnapshot ==
  /\ flush = <<>> /\ ring # <<>> /\ Len(stored) < MaxFlushes
  /\ flush' = Summary(ring)
  /\ UNCHANGED <<ring, total, errors, made, pushed, at, event, stored>>

FlushInsert ==
  /\ flush # <<>> /\ flush' = <<>>
  /\ \/ stored' = Append(stored, flush)
     \/ UNCHANGED stored
  /\ UNCHANGED <<ring, total, errors, made, pushed, at, event>>

Next ==
  \/ FlushSnapshot \/ FlushInsert
  \/ \E r \in Recorders : CountOperation(r) \/ CountError(r) \/ Push(r)

-----------------------------------------------------------------------------
(* The ring holds the latest events, in the order they came, whoever       *)
(* pushed them.                                                            *)
RingIsLatest ==
  LET n == Len(pushed)
  IN  ring = SubSeq(pushed, IF n > Capacity THEN n - Capacity + 1 ELSE 1, n)

(* Counters and ring are updated apart; whenever nobody is between the     *)
(* two, they agree on all that was ever recorded, evicted events included. *)
TotalsSettle ==
  (\A r \in Recorders : at[r] = "idle") =>
    total = Len(pushed) /\ errors = Failed(pushed)

(* What is stored is true of one moment: so many operations, so many of    *)
(* them failed, and each percentile the least latency that so many of the  *)
(* hundred do not exceed.                                                  *)
Upto(s, v) == Cardinality({i \in DOMAIN s : s[i].latency <= v})
IsPercentile(s, pct, v) ==
  /\ 100 * Upto(s, v) >= pct * Len(s)
  /\ \A w \in Latencies : w < v => 100 * Upto(s, w) < pct * Len(s)
StoredIsTrue ==
  \A d \in Range(stored) :
    /\ d.operations <= Capacity /\ d.errors <= d.operations
    /\ IsPercentile(d.events, 50, d.p50) /\ IsPercentile(d.events, 95, d.p95)
    /\ IsPercentile(d.events, 99, d.p99)
    /\ \E i \in DOMAIN pushed : SubSeq(pushed, i, i + d.operations - 1) = d.events

(* Together: ring, counters and what is stored of them tell one story.     *)
TelemetryTrue == TypeOK /\ RingIsLatest /\ TotalsSettle /\ StoredIsTrue
=============================================================================
