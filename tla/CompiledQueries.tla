---------------------------- MODULE CompiledQueries ----------------------------
(***************************************************************************)
(* Translations of questions into queries: the cache in memory, on disk    *)
(* and in Atlas, templates, the LLM and the validation of what it answers. *)
(* src/compiled/translator.rs, template_registry.rs, validator.rs, cache/. *)
(*                                                                         *)
(* Several processes share the Atlas level.  A question stands for the     *)
(* hash of its text with the database and collection it is about, its      *)
(* scope.                                                                  *)
(***************************************************************************)
EXTENDS Naturals, Sequences, SequencesExt, FiniteSets

CONSTANTS
  Callers,     (* translations under way at one time                        *)
  Processes,
  Configs,     (* where each caller runs, whether there is a disk level,    *)
               (* and what each process has translated before               *)
  Questions, Scope,  (* Scope[q]: the database and collection asked         *)
  Templates,   (* what an LLM may offer: the questions a pattern matches,   *)
               (* and those for which what it makes parses and is allowed   *)
  MaxSize,     (* entries in memory                                         *)
  MaxAsks, MaxCrashes, (* bounds                                            *)
  None, Torn

(* An entry: what it answers, where it came from, and whether validation   *)
(* would let it pass.                                                      *)
Entry(q, from, valid) == [q |-> q, from |-> from, scope |-> Scope[q], valid |-> valid]

ASSUME QueriesAssumption ==
  /\ \A x \in Configs : x.disk \in BOOLEAN /\ x.home \in [Callers -> Processes]
                       /\ x.warm \in Seq(Questions) /\ Len(x.warm) <= MaxSize
                       /\ \A i, j \in DOMAIN x.warm : x.warm[i] = x.warm[j] => i = j
  /\ \A t \in Templates : t.covers \subseteq Questions /\ t.good \subseteq t.covers
  /\ MaxSize \in Nat \ {0} /\ IsFiniteSet(Callers)
  /\ None \notin Questions
  /\ \A q \in Questions : \A f \in {"llm", "template"} : \A v \in BOOLEAN : Entry(q, f, v) \notin {None, Torn}

VARIABLES
  disk, home,  (* configuration                                             *)
  memory,      (* memory[p]: entries, the one used longest ago first        *)
  files,       (* files[p][q]: an entry, None, or Torn by a write           *)
  atlas,       (* atlas[q]: an entry or None                                *)
  registry,    (* registry[p]: templates in the order they came             *)
  pc, job,     (* where a caller is, what it has in hand                    *)
  mixed,       (* writers that have the same file open                      *)
  fresh,       (* callers that began when Atlas had their entry, and for    *)
               (* which it did not fail                                     *)
  used,        (* used[p]: the question whose entry memory used last        *)
  stats,       (* stats[p]: hits and misses                                 *)
  asks, crashes

cfg    == <<disk, home>>
levels == <<memory, used, files, mixed, atlas>>
vars   == <<cfg, levels, registry, pc, job, fresh, stats, asks, crashes>>

Where     == {"idle", "disk", "atlas", "match", "validate", "llm", "check",
              "memory", "open", "write", "upsert", "ok", "failed", "gone"}
Finished  == {"ok", "failed", "gone"}
NoJob     == [q |-> None, entry |-> None, last |-> None, template |-> None]
Zero      == [asked |-> 0, h1 |-> 0, m1 |-> 0, h2 |-> 0, m2 |-> 0, h3 |-> 0, m3 |-> 0]
Held(p)   == {memory[p][i].q : i \in DOMAIN memory[p]}
Writing(c) == pc[c] = "write"

TypeOK ==
  /\ \A p \in Processes :
       /\ Len(memory[p]) <= MaxSize /\ Cardinality(Held(p)) = Len(memory[p])
       /\ \A q \in Questions : files[p][q] \in {None, Torn} \/ files[p][q].q = q
  /\ \A q \in Questions : atlas[q] = None \/ atlas[q].q = q
  /\ \A c \in Callers : pc[c] \in Where /\ job[c].q \in Questions \union {None}
  /\ mixed \subseteq Callers /\ fresh \subseteq Callers

(* As it is at the start, or when each process has asked the LLM for some  *)
(* questions, one after the other.                                         *)
Init == \E x \in Configs :
  LET n == Len(x.warm)
      made(q) == IF q \in ToSet(x.warm) THEN Entry(q, "llm", TRUE) ELSE None
  IN
  /\ disk = x.disk /\ home = x.home
  /\ memory = [p \in Processes |-> [i \in DOMAIN x.warm |-> made(x.warm[i])]]
  /\ used = [p \in Processes |-> IF n = 0 THEN None ELSE x.warm[n]]
  /\ files = [p \in Processes |-> [q \in Questions |-> IF x.disk THEN made(q) ELSE None]]
  /\ mixed = {} /\ atlas = [q \in Questions |-> made(q)]
  /\ registry = [p \in Processes |-> <<>>]
  /\ pc = [c \in Callers |-> "idle"] /\ job = [c \in Callers |-> NoJob] /\ fresh = {}
  /\ stats = [p \in Processes |-> [Zero EXCEPT !.asked = n, !.m1 = n, !.m3 = n, !.m2 = IF x.disk THEN n ELSE 0]]
  /\ asks = 0 /\ crashes = 0

-----------------------------------------------------------------------------
(* The memory level, which has a question once.                            *)
Has(s, q)   == \E i \in DOMAIN s : s[i].q = q
Place(s, q) == CHOOSE i \in DOMAIN s : s[i].q = q

(* Fault model: a use does not count, so that the oldest goes.             *)
TouchNothing(s, e) == IF Has(s, e.q) THEN s ELSE Append(s, e)

(* An entry that is used or stored becomes the newest.                     *)
Touch(s, e) == Append(IF Has(s, e.q) THEN RemoveAt(s, Place(s, e.q)) ELSE s, e)

Store(s, e) ==
  IF Len(s) = MaxSize /\ ~Has(s, e.q) THEN Touch(Tail(s), e) ELSE Touch(s, e)

(* Counters; the one for evictions is never written.                       *)
Tally(p, names) == stats' = [stats EXCEPT ![p] = [f \in DOMAIN @ |-> @[f] + IF f \in names THEN 1 ELSE 0]]
Go(c, s)        == pc' = [pc EXCEPT ![c] = s]
AfterMemory     == IF disk THEN "disk" ELSE "atlas"

(* A question; the first look is into memory.                              *)
Ask(c, q) ==
  LET p   == home[c]
      hit == memory[p][Place(memory[p], q)]
  IN
  /\ pc[c] \in {"idle", "ok", "failed", "gone"} /\ asks < MaxAsks /\ asks' = asks + 1
  /\ fresh' = IF atlas[q] # None THEN fresh \union {c} ELSE fresh \ {c}
  /\ IF Has(memory[p], q)
       THEN /\ memory' = [memory EXCEPT ![p] = Touch(@, hit)] /\ used' = [used EXCEPT ![p] = q]
            /\ job' = [job EXCEPT ![c] = [NoJob EXCEPT !.q = q, !.entry = hit]]
            /\ Go(c, "ok") /\ Tally(p, {"asked", "h1"})
       ELSE /\ job' = [job EXCEPT ![c] = [NoJob EXCEPT !.q = q]] /\ Go(c, AfterMemory)
            /\ Tally(p, {"asked", "m1"}) /\ UNCHANGED <<memory, used>>
  /\ UNCHANGED <<cfg, files, mixed, atlas, registry, crashes>>

(* What is found below goes to the levels above it, memory first.          *)
Found(c, e, last) ==
  /\ job' = [job EXCEPT ![c].entry = e, ![c].last = last] /\ Go(c, "memory")

(* A file that does not parse is a miss.                                   *)
LookOnDisk(c) ==
  LET e == files[home[c]][job[c].q] IN
  /\ pc[c] = "disk"
  /\ IF e \in {None, Torn}
       THEN Go(c, "atlas") /\ Tally(home[c], {"m2"}) /\ UNCHANGED job
       ELSE Found(c, e, "memory") /\ Tally(home[c], {"h2"})
  /\ UNCHANGED <<cfg, levels, registry, fresh, asks, crashes>>

(* Fault model: a process that has a disk does without Atlas.              *)
LookInAtlasOrDisk(c) ==
  LET e == atlas[job[c].q] IN
  /\ pc[c] = "atlas"
  /\ IF e = None \/ disk
       THEN Go(c, "match") /\ Tally(home[c], {"m3"}) /\ UNCHANGED <<job, fresh>>
       ELSE Found(c, e, "disk") /\ Tally(home[c], {"h3"}) /\ UNCHANGED fresh
  /\ UNCHANGED <<cfg, levels, registry, asks, crashes>>

(* An error of Atlas is a miss.                                            *)
LookInAtlas(c) ==
  LET e == atlas[job[c].q] IN
  /\ pc[c] = "atlas"
  /\ \/ e # None /\ Found(c, e, "disk") /\ Tally(home[c], {"h3"}) /\ UNCHANGED fresh
     \/ e = None /\ Go(c, "match") /\ Tally(home[c], {"m3"}) /\ UNCHANGED <<job, fresh>>
     \/ Go(c, "match") /\ Tally(home[c], {"m3"}) /\ fresh' = fresh \ {c} /\ UNCHANGED job
  /\ UNCHANGED <<cfg, levels, registry, asks, crashes>>

-----------------------------------------------------------------------------

(* The first template of the same collection whose pattern matches.        *)
Matches(t, q) == t.scope = Scope[q] /\ q \in t.covers

Match(c) ==
  LET q  == job[c].q
      ts == registry[home[c]]
  IN
  /\ pc[c] = "match"
  /\ \/ /\ \A i \in DOMAIN ts : ~Matches(ts[i], q)
        /\ Go(c, "llm") /\ UNCHANGED job
     \/ \E i \in DOMAIN ts :
          /\ Matches(ts[i], q) /\ \A j \in 1 .. i - 1 : ~Matches(ts[j], q)
          /\ job' = [job EXCEPT ![c].entry =
               [Entry(q, "template", q \in ts[i].good) EXCEPT !.scope = ts[i].scope]]
          /\ Go(c, "validate")
  /\ UNCHANGED <<cfg, levels, registry, fresh, stats, asks, crashes>>

(* The LLM answers: with an error or what does not parse, or with a query, *)
(* which validation may not let pass, or which comes with a template.      *)
Answer(c) ==
  /\ pc[c] = "llm"
  /\ \/ Go(c, "failed") /\ UNCHANGED job
     \/ \E valid \in BOOLEAN, t \in {None} \union {u \in Templates : job[c].q \in u.covers} :
          /\ valid \/ t = None
          /\ job' = [job EXCEPT ![c].entry = Entry(job[c].q, "llm", valid), ![c].template = t]
          /\ Go(c, "check")
  /\ UNCHANGED <<cfg, levels, registry, fresh, stats, asks, crashes>>

(* Fault model: what a template makes is taken as it is.                   *)
ValidateTrusting(c) ==
  /\ pc[c] = "validate"
  /\ job' = [job EXCEPT ![c].last = "atlas"] /\ Go(c, "memory")
  /\ UNCHANGED <<cfg, levels, registry, fresh, stats, asks, crashes>>

(* A template's query that fails is an error of the call.                  *)
Validate(c) ==
  /\ pc[c] = "validate"
  /\ job' = [job EXCEPT ![c].last = "atlas"]
  /\ Go(c, IF job[c].entry.valid THEN "memory" ELSE "failed")
  /\ UNCHANGED <<cfg, levels, registry, fresh, stats, asks, crashes>>

(* The LLM's query; its template is registered once the query has passed.  *)
Check(c) ==
  LET t == job[c].template IN
  /\ pc[c] = "check"
  /\ IF job[c].entry.valid
       THEN /\ Go(c, "memory") /\ job' = [job EXCEPT ![c].last = "atlas", ![c].template = None]
            /\ registry' = IF t = None THEN registry
                 ELSE [registry EXCEPT ![home[c]] = Append(@,
                        [covers |-> t.covers, good |-> t.good, scope |-> Scope[job[c].q]])]
       ELSE Go(c, "failed") /\ job' = [job EXCEPT ![c].template = None] /\ UNCHANGED registry
  /\ UNCHANGED <<cfg, levels, fresh, stats, asks, crashes>>

-----------------------------------------------------------------------------

(* Stores, one level after the other; other callers go on in between.      *)
StoreMemory(c) ==
  LET p == home[c] IN
  /\ pc[c] = "memory"
  /\ memory' = [memory EXCEPT ![p] = Store(@, job[c].entry)] /\ used' = [used EXCEPT ![p] = job[c].q]
  /\ Go(c, IF job[c].last = "memory" THEN "ok" ELSE IF disk THEN "open"
           ELSE IF job[c].last = "disk" THEN "ok" ELSE "upsert")
  /\ UNCHANGED <<cfg, files, mixed, atlas, registry, job, fresh, stats, asks, crashes>>

AfterDisk(c) == IF job[c].last = "disk" THEN "ok" ELSE "upsert"
Beside(c)    == {d \in Callers \ {c} : Writing(d) /\ home[d] = home[c] /\ job[d].q = job[c].q}

(* A file is emptied when it is opened; errors are ignored.                *)
OpenFile(c) ==
  /\ pc[c] = "open"
  /\ \/ /\ files' = [files EXCEPT ![home[c]][job[c].q] = Torn] /\ Go(c, "write")
        /\ mixed' = IF Beside(c) = {} THEN mixed \ {c} ELSE mixed \union {c} \union Beside(c)
     \/ Go(c, AfterDisk(c)) /\ UNCHANGED <<files, mixed>>
  /\ UNCHANGED <<cfg, memory, used, atlas, registry, job, fresh, stats, asks, crashes>>

(* Fault model: who has a file open waits for the other to be done.        *)
WriteFileAlone(c) ==
  /\ pc[c] = "write" /\ Beside(c) = {} /\ Go(c, AfterDisk(c)) /\ mixed' = mixed \ {c}
  /\ files' = [files EXCEPT ![home[c]][job[c].q] = job[c].entry]
  /\ UNCHANGED <<cfg, memory, used, atlas, registry, job, fresh, stats, asks, crashes>>

(* Two that write one file may leave a mixture.                            *)
WriteFile(c) ==
  /\ pc[c] = "write" /\ Go(c, AfterDisk(c)) /\ mixed' = mixed \ {c}
  /\ \E e \in {job[c].entry} \union (IF c \in mixed THEN {Torn} ELSE {}) :
       files' = [files EXCEPT ![home[c]][job[c].q] = e]
  /\ UNCHANGED <<cfg, memory, used, atlas, registry, job, fresh, stats, asks, crashes>>

(* The upsert may fail, with or without effect; nobody is told.            *)
Upsert(c) ==
  /\ pc[c] = "upsert" /\ Go(c, "ok")
  /\ \E e \in {job[c].entry, atlas[job[c].q]} : atlas' = [atlas EXCEPT ![job[c].q] = e]
  /\ UNCHANGED <<cfg, memory, used, files, mixed, registry, job, fresh, stats, asks, crashes>>

(* A process crashes and starts again: without memory and templates.       *)
(* Nothing loads the cache from Atlas then.  (A process that has done      *)
(* nothing has nothing to lose.)                                           *)
Crash(p) ==
  /\ crashes < MaxCrashes /\ crashes' = crashes + 1 /\ stats[p] # Zero
  /\ memory' = [memory EXCEPT ![p] = <<>>] /\ used' = [used EXCEPT ![p] = None]
  /\ registry' = [registry EXCEPT ![p] = <<>>] /\ stats' = [stats EXCEPT ![p] = Zero]
  /\ pc' = [c \in Callers |-> IF home[c] = p THEN "gone" ELSE pc[c]]
  /\ mixed' = {c \in mixed : home[c] # p} /\ fresh' = {c \in fresh : home[c] # p}
  /\ job' = [c \in Callers |-> IF home[c] = p THEN NoJob ELSE job[c]]
  /\ UNCHANGED <<cfg, files, atlas, asks>>

Step(c) ==
  \/ LookOnDisk(c) \/ LookInAtlas(c) \/ Match(c) \/ Validate(c) \/ Check(c)
  \/ StoreMemory(c) \/ OpenFile(c) \/ WriteFile(c) \/ Upsert(c)

Next ==
  \/ \E c \in Callers : Step(c) \/ Answer(c) \/ \E q \in Questions : Ask(c, q)
  \/ \E p \in Processes : Crash(p)

Spec == Init /\ [][Next]_vars

(* Files and Atlas answer, the latter if only with an error.  A provider   *)
(* over HTTP sets no time-out, so nothing is asked of the LLM.             *)
FairSpec == Spec /\ \A c \in Callers : WF_vars(Step(c))

-----------------------------------------------------------------------------
(* Properties.                                                             *)
Stored ==
  {e \in {atlas[q] : q \in Questions} \union
         UNION {{memory[p][i] : i \in DOMAIN memory[p]} \union {files[p][q] : q \in Questions} :
                p \in Processes} : e \notin {None, Torn}}
Returned == {job[c].entry : c \in {d \in Callers : pc[d] = "ok"}}

(* Whatever level has it, process or restart: what is stored or answered   *)
(* has passed validation, also if a template made it.                      *)
OnlyValid == \A e \in Stored \union Returned : e.valid

(* A query of one collection is never the answer for another.              *)
Scoped == \A e \in Stored \union Returned : e.scope = Scope[e.q]

(* Together: a stored query is trusted without another look, and may be.   *)
AnswersTrusted == OnlyValid /\ Scoped

(* Hits and misses add up level by level: a miss above is a look below.    *)
Looking(p, s) == Cardinality({c \in Callers : home[c] = p /\ pc[c] = s})
StatsAddUp ==
  \A p \in Processes :
    LET s == stats[p] IN
    /\ s.asked = s.h1 + s.m1
    /\ IF disk THEN s.m1 = s.h2 + s.m2 + Looking(p, "disk") ELSE s.h2 + s.m2 = 0
    /\ (IF disk THEN s.m2 ELSE s.m1) = s.h3 + s.m3 + Looking(p, "atlas")

(* A question that Atlas could answer when it was asked does not go to the *)
(* LLM, whichever process translated it and whatever was evicted, crashed  *)
(* or torn meanwhile.                                                      *)
PaidOnce == \A c \in fresh : pc[c] \notin {"match", "validate", "llm", "check"}

(* What memory used last is not what it evicts next.                       *)
RecentStays ==
  [][\A p \in Processes : used[p] # None => used[p] \in Held(p)' \/ crashes' # crashes]_vars

(* Together: the levels keep to their size, evict in order and count right,*)
(* though nothing locks them as one.                                       *)
LevelsAgree == [](TypeOK /\ StatsAddUp) /\ RecentStays

(* A translation that does not wait for the LLM goes on to its end.        *)
TranslationGoesOn ==
  \A c \in Callers : pc[c] \notin Finished \union {"idle", "llm"} ~> pc[c] \in Finished \union {"llm"}
=============================================================================
