----------------------------- MODULE TenantLimits -----------------------------
(***************************************************************************)
(* What keeps tenants apart: the rate limiters of src/tenant/quota.rs, as  *)
(* check_tenant_quota of src/grpc/service.rs asks them, and the cache of   *)
(* src/tenant/isolation.rs with its quota of entries.                      *)
(*                                                                         *)
(* A limiter is used under the guard of its entry in the map and under the *)
(* mutex of its window, so that one request is one step; the cache's       *)
(* operations are several, on two maps.                                    *)
(***************************************************************************)
EXTENDS Naturals, Sequences, FiniteSets, Functions

CONSTANTS
  Tenants,
  Second,     (* moments in a second                                        *)
  MaxRate,    (* the limits that may be set                                 *)
  Tasks,      (* tasks that use the cache                                   *)
  Entries,    (* keys of one tenant's cache                                 *)
  MaxEntries, (* max_per_tenant                                             *)
  MaxUses     (* bound: calls of the cache                                  *)

(* Assumed where the module is instantiated.                                *)
LimitsAssumption ==
  /\ Second \in Nat \ {0} /\ MaxRate \in Nat \ {0}
  /\ MaxEntries \in Nat /\ MaxUses \in Nat
  /\ IsFiniteSet(Tasks) /\ Tasks # {}

VARIABLES
  limit,      (* tenant -> limit, for those with a limiter                  *)
  count,      (* requests counted in the limiter's window                   *)
  age,        (* of the window, up to Second                                *)
  recent,     (* tenant -> requests let through within the last second      *)
  lenient,    (* tenants whose limiter was set or removed within a second   *)
  answer,     (* the last request: tenant and verdict                       *)
  cached,     (* entries: pairs of tenant and key                           *)
  counts,     (* tenant -> entries counted, for those counted               *)
  task,       (* what each task does in the cache                           *)
  uses, wiped (* calls of the cache; tenants that were removed from it      *)

limits == <<limit, count, age, recent, lenient, answer>>
cache  == <<cached, counts, task, uses, wiped>>
vars   == <<limits, cache>>

Idle == [at |-> "idle"]

(* A request let through: how long ago, its place in its window, and       *)
(* whether that window is over.                                            *)
LetThrough(n) == [ago |-> 0, nth |-> n, past |-> FALSE]
Let(t)        == Cardinality(recent[t])
TypeOK ==
  /\ \A t \in DOMAIN limit : limit[t] \in 1 .. MaxRate /\ count[t] \in 0 .. limit[t]
  /\ \A t \in Tenants : age[t] \in 0 .. Second /\ lenient[t] \in 0 .. Second
  /\ cached \subseteq Tenants \X Entries /\ DOMAIN counts \subseteq Tenants
  /\ \A w \in Tasks : task[w].at \in {"idle", "checked", "room", "stored", "wiping"}

Init ==
  /\ limit = <<>> /\ count = [t \in Tenants |-> 0] /\ age = [t \in Tenants |-> 0]
  /\ recent = [t \in Tenants |-> {}] /\ lenient = [t \in Tenants |-> 0]
  /\ answer = <<>>
  /\ cached = {} /\ counts = <<>> /\ task = [w \in Tasks |-> Idle]
  /\ uses = 0 /\ wiped = {}

-----------------------------------------------------------------------------
(* Rate limits.                                                            *)
Put(f, x, v) == [y \in DOMAIN f \union {x} |-> IF y = x THEN v ELSE f[y]]

WindowOver(s) == {[ago |-> r.ago, nth |-> r.nth, past |-> TRUE] : r \in s}

(* set_limit replaces the limiter, and with it the window.  (Bound: limits *)
(* of a tenant change once a second at most.)                              *)
SetLimit(t, n) ==
  /\ lenient[t] = 0 /\ limit' = Put(limit, t, n)
  /\ count' = [count EXCEPT ![t] = 0] /\ age' = [age EXCEPT ![t] = 0]
  /\ lenient' = [lenient EXCEPT ![t] = Second]
  /\ recent' = [recent EXCEPT ![t] = WindowOver(@)]
  /\ answer' = <<>> /\ UNCHANGED cache

RemoveLimit(t) ==
  /\ lenient[t] = 0 /\ t \in DOMAIN limit /\ limit' = Restrict(limit, DOMAIN limit \ {t})
  /\ lenient' = [lenient EXCEPT ![t] = Second]
  /\ answer' = <<>> /\ UNCHANGED <<count, age, recent, cache>>

(* The count in the window that the request falls into.                    *)
InWindow(t) == IF age[t] = Second THEN 0 ELSE count[t]

Within(t) == InWindow(t) < limit[t]

Verdict(t) == IF t \in DOMAIN limit THEN Within(t) ELSE TRUE
Request(t) ==
  LET ok == Verdict(t)
      ns == IF ok THEN {LetThrough(InWindow(t) + 1)} ELSE {}
  IN  /\ t \in DOMAIN limit =>
           /\ count' = [count EXCEPT ![t] = IF ok THEN InWindow(t) + 1 ELSE InWindow(t)]
           /\ age' = [age EXCEPT ![t] = IF @ = Second THEN 0 ELSE @]
           /\ recent' = [recent EXCEPT ![t] = ns \union IF age[t] = Second THEN WindowOver(@) ELSE @]
      /\ t \notin DOMAIN limit => UNCHANGED <<count, age, recent>>
      /\ answer' = <<t, ok>>
      /\ UNCHANGED <<limit, lenient, cache>>

Older(s) == {[r EXCEPT !.ago = @ + 1] : r \in {q \in s : q.ago + 1 < Second}}
Pass ==
  /\ age' = [t \in Tenants |-> IF age[t] < Second THEN age[t] + 1 ELSE Second]
  /\ recent' = [t \in Tenants |-> Older(recent[t])]
  /\ lenient' = [t \in Tenants |-> IF lenient[t] = 0 THEN 0 ELSE lenient[t] - 1]
  /\ answer' = <<>>
  /\ UNCHANGED <<limit, count, cache>>

-----------------------------------------------------------------------------
(* The cache: insert and remove_tenant.                                    *)
Step(w, next) == task' = [task EXCEPT ![w] = next]
CountOf(t)    == IF t \in DOMAIN counts THEN counts[t] ELSE 0

(* A key that is there is replaced, in a step of its own that puts it back *)
(* if it has gone since.                                                   *)
Insert(w, t, k) ==
  /\ task[w] = Idle /\ uses < MaxUses /\ uses' = uses + 1
  /\ Step(w, [at |-> IF <<t, k>> \in cached THEN "room" ELSE "checked",
              tenant |-> t, key |-> k, new |-> <<t, k>> \notin cached])
  /\ UNCHANGED <<limits, cached, counts, wiped>>

(* Fault model: one entry too many is let in.                              *)
CheckRoomLate(w) ==
  /\ task[w].at = "checked"
  /\ Step(w, IF CountOf(task[w].tenant) > MaxEntries THEN Idle ELSE [task[w] EXCEPT !.at = "room"])
  /\ UNCHANGED <<limits, cached, counts, uses, wiped>>

CheckRoom(w) ==
  /\ task[w].at = "checked"
  /\ Step(w, IF CountOf(task[w].tenant) >= MaxEntries THEN Idle ELSE [task[w] EXCEPT !.at = "room"])
  /\ UNCHANGED <<limits, cached, counts, uses, wiped>>

Store(w) ==
  /\ task[w].at = "room" /\ cached' = cached \union {<<task[w].tenant, task[w].key>>}
  /\ Step(w, IF task[w].new THEN [task[w] EXCEPT !.at = "stored"] ELSE Idle)
  /\ UNCHANGED <<limits, counts, uses, wiped>>

CountEntry(w) ==
  /\ task[w].at = "stored" /\ Step(w, Idle)
  /\ counts' = Put(counts, task[w].tenant, CountOf(task[w].tenant) + 1)
  /\ UNCHANGED <<limits, cached, uses, wiped>>

RemoveTenant(w, t) ==
  /\ task[w] = Idle /\ uses < MaxUses /\ uses' = uses + 1
  /\ cached' = {e \in cached : e[1] # t} /\ wiped' = wiped \union {t}
  /\ Step(w, [at |-> "wiping", tenant |-> t])
  /\ UNCHANGED <<limits, counts>>

RemoveCount(w) ==
  /\ task[w].at = "wiping" /\ Step(w, Idle)
  /\ counts' = Restrict(counts, DOMAIN counts \ {task[w].tenant})
  /\ UNCHANGED <<limits, cached, uses, wiped>>

NextLimits ==
  \/ Pass
  \/ \E t \in Tenants : RemoveLimit(t) \/ Request(t) \/ \E n \in 1 .. MaxRate : SetLimit(t, n)
NextCache ==
  \E w \in Tasks :
    \/ CheckRoom(w) \/ Store(w) \/ CountEntry(w) \/ RemoveCount(w)
    \/ \E t \in Tenants : RemoveTenant(w, t) \/ \E k \in Entries : Insert(w, t, k)

-----------------------------------------------------------------------------
(* The window is fixed, not sliding: within any second a tenant may get as *)
(* much as two windows allow, and never more, unless its limiter was       *)
(* replaced meanwhile.                                                     *)
AtMostTwoWindows ==
  \A t \in DOMAIN limit : lenient[t] = 0 => Let(t) <= 2 * limit[t]

(* Only a tenant that has had its share within the last second is refused: *)
(* neither another tenant's requests, nor a window left over, nor refused  *)
(* requests count against it.                                              *)
RefusedHadItsShare ==
  answer # <<>> /\ ~answer[2] /\ answer[1] \in DOMAIN limit =>
    Let(answer[1]) >= limit[answer[1]]

(* The quota of entries is checked and used in separate steps: each task   *)
(* may let one entry more in, but no sequence of inserts lets in more.     *)
Held(t) == Cardinality({e \in cached : e[1] = t})
QuotaWithinTasks ==
  \A t \in Tenants \ wiped : Held(t) <= MaxEntries + Cardinality(Tasks) - 1

(* A tenant's entries go only when that tenant is removed.                 *)
OthersUntouched ==
  [][\A e \in cached : e \notin cached' => wiped' # {} /\ e[1] \in wiped']_vars

(* Together: no tenant gets more than its limits allow, is refused before  *)
(* it has had its share, or loses what is its own, because of another.     *)
TenantsApart ==
  [](TypeOK /\ AtMostTwoWindows /\ RefusedHadItsShare /\ QuotaWithinTasks) /\ OthersUntouched
=============================================================================
