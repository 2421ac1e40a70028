---------------------------- MODULE DirectoryWatch ----------------------------
(***************************************************************************)
(* A watched directory: src/ingestion/watch.rs, reached through            *)
(* watch_directory and stop_watch of src/grpc/service.rs.                  *)
(*                                                                         *)
(* Time is relative: how long a path has been quiet, how long the timer of *)
(* the loop has run; both stop counting once they no longer matter.        *)
(***************************************************************************)
EXTENDS Naturals, Sequences, FiniteSets, Functions

CONSTANTS
  Files,     (* files of the directory                                      *)
  Matching,  (* those whose name matches the pattern                        *)
  Debounce,  (* how long a file must be quiet (1000 ms from gRPC)           *)
  Interval,  (* the timer of the loop (500 ms)                              *)
  MaxWrites  (* bound: writes to one file                                   *)

(* Assumed where the module is instantiated.                                *)
WatchAssumption ==
  /\ Matching \subseteq Files /\ MaxWrites \in Nat
  /\ Debounce \in Nat /\ Interval \in Nat \ {0}

VARIABLES
  task,      (* the spawned task                                            *)
  handle,    (* the handle is in watches                                    *)
  cancel,    (* the cancel channel has a message                            *)
  events,    (* paths reported and not yet received                         *)
  pending,   (* path -> time since its last event, up to Debounce           *)
  idle,      (* time since the timer was set, up to Interval                *)
  version,   (* writes to each file                                         *)
  calm,      (* time since the last of them, up to Debounce                 *)
  seen,      (* writes to each file that were reported                      *)
  spawned,   (* ingestions started for each file                            *)
  begun,     (* those of them that have opened it                           *)
  read       (* the newest version ingested                                 *)

loop  == <<task, events, pending, idle>>
user  == <<handle, cancel>>
disk  == <<version, calm, seen>>
jobs  == <<spawned, begun, read>>
vars  == <<loop, user, disk, jobs>>

TypeOK ==
  /\ task \in {"none", "starting", "on", "ended", "dead"}
  /\ handle \in BOOLEAN /\ cancel \in BOOLEAN
  /\ events \in Seq(Files) /\ DOMAIN pending \subseteq Matching
  /\ \A f \in DOMAIN pending : pending[f] \in 0 .. Debounce
  /\ idle \in 0 .. Interval
  /\ \A f \in Files : /\ version[f] \in 0 .. MaxWrites /\ calm[f] \in 0 .. Debounce
                      /\ seen[f] <= version[f] /\ read[f] <= version[f]
                      /\ begun[f] <= spawned[f]

Zero == [f \in Files |-> 0]
Init ==
  /\ task = "none" /\ events = <<>> /\ pending = <<>> /\ idle = 0
  /\ handle = FALSE /\ cancel = FALSE
  /\ version = Zero /\ calm = [f \in Files |-> Debounce] /\ seen = Zero
  /\ spawned = Zero /\ begun = Zero /\ read = Zero

-----------------------------------------------------------------------------
(* start_watch and stop_watch.  The path and the pattern have been         *)
(* validated; a failed validation changes nothing.                         *)
StartWatch ==
  /\ task = "none" /\ task' = "starting" /\ handle' = TRUE
  /\ UNCHANGED <<events, pending, idle, cancel, disk, jobs>>

(* The handle is dropped with the sender after the message was sent.       *)
StopWatch ==
  /\ handle /\ handle' = FALSE /\ cancel' = TRUE
  /\ UNCHANGED <<loop, disk, jobs>>

(* The task installs the notifier only after start_watch has returned, or  *)
(* panics, and nobody is told.                                             *)
Install ==
  /\ task = "starting"
  /\ \/ task' = "on" /\ idle' = 0
     \/ task' = "dead" /\ UNCHANGED idle
  /\ UNCHANGED <<events, pending, user, disk, jobs>>

-----------------------------------------------------------------------------
(* A file is created or written to.                                        *)
Write(f) ==
  /\ version[f] < MaxWrites
  /\ version' = [version EXCEPT ![f] = @ + 1] /\ calm' = [calm EXCEPT ![f] = 0]
  /\ IF task = "on" THEN events' = Append(events, f) /\ seen' = [seen EXCEPT ![f] = @ + 1]
                    ELSE UNCHANGED <<events, seen>>
  /\ UNCHANGED <<task, pending, idle, user, jobs>>

With(f, t) == [g \in DOMAIN pending \union {f} |-> IF g = f THEN t ELSE pending[g]]

(* The branches of the select; each round of the loop sets the timer anew. *)
Receive ==
  /\ task = "on" /\ events # <<>> /\ events' = Tail(events)
  /\ pending' = IF Head(events) \in Matching THEN With(Head(events), 0) ELSE pending
  /\ idle' = 0
  /\ UNCHANGED <<task, user, disk, jobs>>

Ready == {f \in DOMAIN pending : pending[f] = Debounce}
Spawn(fs) == [f \in Files |-> IF f \in fs THEN spawned[f] + 1 ELSE spawned[f]]

(* Fault model: the paths that are ready stay pending.                     *)
PollKeeps ==
  /\ task = "on" /\ idle = Interval
  /\ idle' = 0 /\ spawned' = Spawn(Ready)
  /\ UNCHANGED <<task, events, pending, user, disk, begun, read>>

Poll ==
  /\ task = "on" /\ idle = Interval
  /\ idle' = 0 /\ spawned' = Spawn(Ready)
  /\ pending' = Restrict(pending, DOMAIN pending \ Ready)
  /\ UNCHANGED <<task, events, user, disk, begun, read>>

Cancelled ==
  /\ task = "on" /\ cancel
  /\ task' = "ended" /\ events' = <<>> /\ pending' = <<>>
  /\ UNCHANGED <<idle, user, disk, jobs>>

(* A spawned ingestion opens the file, in a task of its own.               *)
Ingest(f) ==
  /\ begun[f] < spawned[f] /\ begun' = [begun EXCEPT ![f] = @ + 1]
  /\ read' = [read EXCEPT ![f] = version[f]]
  /\ UNCHANGED <<loop, user, disk, spawned>>

Older(t, bound) == IF t < bound THEN t + 1 ELSE t
Pass ==
  /\ idle' = Older(idle, Interval)
  /\ pending' = [f \in DOMAIN pending |-> Older(pending[f], Debounce)]
  /\ calm' = [f \in Files |-> Older(calm[f], Debounce)]
  /\ UNCHANGED <<task, events, user, version, seen, jobs>>

Next ==
  \/ StartWatch \/ StopWatch \/ Install \/ Receive \/ Poll \/ Cancelled \/ Pass
  \/ \E f \in Files : Write(f) \/ Ingest(f)

-----------------------------------------------------------------------------
(* One write, one ingestion at most: what was started for a file, what is  *)
(* pending and what is queued never exceed the writes reported, however    *)
(* the loop, the timer and the writer interleave.                          *)
Reported(f) == {i \in DOMAIN events : events[i] = f}
WritesCoverIngests ==
  \A f \in Files :
    spawned[f] + (IF f \in DOMAIN pending THEN 1 ELSE 0) + Cardinality(Reported(f)) <= seen[f]

(* A file is handed to ingestion only when nobody has written to it for    *)
(* the debounce time; a write the loop has not heard of yet is the one     *)
(* exception, and brings a second ingestion.                               *)
OnlyQuietFiles ==
  [][\A f \in Files : spawned'[f] > spawned[f] =>
       calm[f] = Debounce \/ \E i \in DOMAIN events : events[i] = f]_vars

(* Together: each ingestion has its write, and a file at rest.             *)
IngestsJustified == [](TypeOK /\ WritesCoverIngests) /\ OnlyQuietFiles

(* Once the writers rest, the last write to each matching file that was    *)
(* made while the notifier was installed has been ingested.                *)
LastWriteIngested ==
  <>[](task = "on" => \A f \in Matching : seen[f] > 0 => read[f] = version[f])

(* stop_watch ends the task, whatever else its select has to choose from.  *)
StopEnds == [](task # "none" /\ ~handle => <>(task \in {"ended", "dead"}))
=============================================================================
