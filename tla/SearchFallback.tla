----------------------------- MODULE SearchFallback -----------------------------
(***************************************************************************)
(* Search with its chain of methods: src/search/fallback.rs, against what  *)
(* src/connection/pool.rs found out about the deployment when the process  *)
(* started.  The deployment changes while requests run.                    *)
(***************************************************************************)
EXTENDS Naturals, FiniteSets

CONSTANTS
  Requests,   (* searches under way at one time                             *)
  MaxChanges  (* bound: changes of the deployment                           *)

(* Assumed where the module is instantiated.                                *)
SearchAssumption == MaxChanges \in Nat

(* What search relies on: the Atlas service, its two indexes, the text     *)
(* index, the embedding service, and MongoDB itself.                       *)
Parts == {"atlas", "vector_index", "search_index", "text_index", "voyage", "mongodb"}
Methods == {"vector", "fulltext", "filter"}

VARIABLES
  up,         (* the parts that are there                                   *)
  changes,    (* changes so far                                             *)
  capable,    (* the detected capability: "unknown", "yes" or "no"          *)
  at,         (* where each request is                                      *)
  weak,       (* requests during which a part was missing, or nothing found *)
  answer      (* what each request was answered                             *)

vars == <<up, changes, capable, at, weak, answer>>

Nothing == [type |-> "none"]
Found(method, found) == [type |-> "documents", method |-> method, found |-> found]
Error(why) == [type |-> "error", why |-> why]

TypeOK ==
  /\ up \subseteq Parts /\ changes \in 0 .. MaxChanges
  /\ capable \in {"unknown", "yes", "no"}
  /\ \A r \in Requests :
       /\ at[r] \in {"idle", "embed", "direct", "vector", "direct_vector",
                     "fulltext", "text", "scan", "over"}
       /\ answer[r].type = "documents" => answer[r].method \in Methods

Init ==
  /\ up = Parts /\ changes = 0 /\ capable = "unknown"
  /\ at = [r \in Requests |-> "idle"] /\ weak = {}
  /\ answer = [r \in Requests |-> Nothing]

Goto(r, s)      == at' = [at EXCEPT ![r] = s]
Answer(r, a)    == answer' = [answer EXCEPT ![r] = a] /\ Goto(r, "over")
Weakened(r)     == weak' = weak \union {r}
Has(needs)      == needs \subseteq up
VectorNeeds     == {"mongodb", "atlas", "vector_index"}
FulltextNeeds   == {"mongodb", "atlas", "search_index"}

(* Parts come and go.                                                      *)
Change ==
  /\ changes < MaxChanges /\ changes' = changes + 1
  /\ \E p \in Parts : up' = IF p \in up THEN up \ {p} ELSE up \union {p}
  /\ UNCHANGED <<capable, at, weak, answer>>

(* connect: any error of the probe but "not found" is read as its absence, *)
(* for the life of the process.  A start whose ping fails ends the process.*)
Connect ==
  /\ capable = "unknown" /\ "mongodb" \in up
  /\ \/ "atlas" \in up /\ capable' = "yes"
     \/ capable' = "no"
  /\ UNCHANGED <<up, changes, at, weak, answer>>

-----------------------------------------------------------------------------
(* search.  The embedding client is configured.                            *)
Search(r) ==
  /\ capable # "unknown" /\ at[r] = "idle"
  /\ Goto(r, IF capable = "yes" THEN "embed" ELSE "text")
  /\ UNCHANGED <<up, changes, capable, weak, answer>>

(* vector_search: no other method is tried.                                *)
VectorSearch(r) ==
  /\ capable # "unknown" /\ at[r] = "idle" /\ Goto(r, "direct")
  /\ UNCHANGED <<up, changes, capable, weak, answer>>

(* The query is embedded, and a vector is among the answer.                *)
Embed(r) ==
  /\ \/ /\ "voyage" \in up /\ UNCHANGED <<answer, weak>>
        /\ \/ at[r] = "embed" /\ Goto(r, "vector")
           \/ at[r] = "direct" /\ Goto(r, "direct_vector")
     \/ "voyage" \notin up /\ at[r] = "embed"
          /\ Goto(r, "fulltext") /\ Weakened(r) /\ UNCHANGED answer
     \/ "voyage" \notin up /\ at[r] = "direct"
          /\ Answer(r, Error("embedding")) /\ Weakened(r)
  /\ UNCHANGED <<up, changes, capable>>

(* Fault model: an error ends the search.                                  *)
MethodOrError(r, here, method, needs, next) ==
  /\ at[r] = here
  /\ \/ Has(needs) /\ Answer(r, Found(method, TRUE)) /\ UNCHANGED weak
     \/ Has(needs) /\ Goto(r, next) /\ Weakened(r) /\ UNCHANGED answer
     \/ ~Has(needs) /\ Answer(r, Error("operation")) /\ Weakened(r)

(* A method that fails, or finds nothing, leaves the search to the next.   *)
Method(r, here, method, needs, next) ==
  /\ at[r] = here
  /\ \/ Has(needs) /\ Answer(r, Found(method, TRUE)) /\ UNCHANGED weak
     \/ Goto(r, next) /\ Weakened(r) /\ UNCHANGED answer

Vector(r) ==
  Method(r, "vector", "vector", VectorNeeds, "fulltext") /\ UNCHANGED <<up, changes, capable>>
Fulltext(r) ==
  Method(r, "fulltext", "fulltext", FulltextNeeds, "text") /\ UNCHANGED <<up, changes, capable>>

DirectVector(r) ==
  /\ at[r] = "direct_vector"
  /\ \/ Has(VectorNeeds) /\ \E n \in BOOLEAN : Answer(r, Found("vector", n))
     \/ ~Has(VectorNeeds) /\ Answer(r, Error("operation"))
  /\ UNCHANGED <<up, changes, capable, weak>>

(* filter_fallback: without a text index, whatever documents there are.    *)
Text(r) ==
  /\ at[r] = "text"
  /\ \/ Has({"mongodb", "text_index"}) /\ \E n \in BOOLEAN : Answer(r, Found("filter", n))
     \/ ~Has({"mongodb", "text_index"}) /\ Goto(r, "scan") /\ UNCHANGED answer
  /\ UNCHANGED <<up, changes, capable, weak>>

Scan(r) ==
  /\ at[r] = "scan"
  /\ \/ "mongodb" \in up /\ \E n \in BOOLEAN : Answer(r, Found("filter", n))
     \/ "mongodb" \notin up /\ Answer(r, Error("mongodb"))
  /\ UNCHANGED <<up, changes, capable, weak>>

Next ==
  \/ Change \/ Connect
  \/ \E r \in Requests :
       Search(r) \/ VectorSearch(r) \/ Embed(r) \/ Vector(r) \/ Fulltext(r)
         \/ DirectVector(r) \/ Text(r) \/ Scan(r)

-----------------------------------------------------------------------------
(* Fallback hides every failure but the last: search, unlike vector_search,*)
(* fails only for want of MongoDB itself.                                  *)
FailsForMongoOnly ==
  [][\A r \in Requests : answer'[r].type = "error" /\ at[r] \notin {"over", "direct", "direct_vector"}
       => "mongodb" \notin up]_vars

(* A weaker method answers only where a stronger one was not detected, or  *)
(* failed or found nothing in this very request; and vectors and full text *)
(* never answer with nothing.                                              *)
BestMethodAnswers ==
  \A r \in Requests :
    answer[r].type = "documents" =>
      /\ answer[r].method = "filter" => capable = "no" \/ r \in weak
      /\ answer[r].method = "fulltext" => capable = "yes" /\ answer[r].found

(* Together: the chain of methods is tried to its end, and no further than *)
(* it has to be.                                                           *)
FallbackRight == [](TypeOK /\ BestMethodAnswers) /\ FailsForMongoOnly
=============================================================================
