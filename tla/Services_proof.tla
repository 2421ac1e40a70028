---------------------------- MODULE Services_proof ----------------------------
(***************************************************************************)
(* Proofs about the services behind the MCP tools, for every value of the  *)
(* constants.  A behaviour of MCServices is one of each part, so that what *)
(* holds of a part's own specification holds of ServicesSpec.              *)
(***************************************************************************)
EXTENDS MCServices, SequenceTheorems, FiniteSetTheorems, TLAPS

-----------------------------------------------------------------------------
(* Search.  Where a request is tells which methods it has gone through,    *)
(* and with what capability the process started.                           *)
Answers ==
  {S!Nothing} \union {S!Found(m, f) : m \in S!Methods, f \in BOOLEAN}
    \union {S!Error(w) : w \in {"embedding", "operation", "mongodb"}}

Stages ==
  {"idle", "embed", "direct", "vector", "direct_vector", "fulltext", "text", "scan", "over"}

SearchInv ==
  /\ S!TypeOK /\ S!BestMethodAnswers
  /\ answer \in [Requests -> Answers] /\ at \in [Requests -> Stages] /\ weak \subseteq Requests
  /\ \A r \in Requests :
       /\ answer[r].type # "none" => at[r] = "over"
       /\ at[r] \in {"embed", "vector", "fulltext"} => capable = "yes"
       /\ at[r] \in {"text", "scan"} => capable = "no" \/ r \in weak
       /\ capable = "unknown" => at[r] = "idle"

LEMMA SearchStart == ASSUME Start PROVE SearchInv
<1>1. S!Init
  BY DEF Start
<1>2. ServicesAssumption
  BY ServicesAssumption
<1> QED
  BY <1>1, <1>2 DEF S!Init, SearchInv, S!TypeOK, S!BestMethodAnswers, Answers, Stages, S!Nothing,
     ServicesAssumption, S!SearchAssumption

LEMMA SearchMoves == ASSUME [Move]_all PROVE [S!Next]_(S!vars)
BY DEF Move, On, Still, all, search, S!vars

(* A request that is answered: what has to be known of the answer.         *)
LEMMA SearchAnswered ==
  ASSUME SearchInv, NEW r \in Requests, NEW ans \in Answers, S!Answer(r, ans), weak \subseteq weak',
         weak' \subseteq Requests, UNCHANGED <<up, changes, capable>>, capable # "unknown",
         ans.type = "documents" =>
           /\ ans.method = "filter" => capable = "no" \/ r \in weak
           /\ ans.method = "fulltext" => capable = "yes" /\ ans.found
  PROVE  SearchInv'
<1>1. /\ answer' = [answer EXCEPT ![r] = ans] /\ at' = [at EXCEPT ![r] = "over"]
  BY DEF S!Answer, S!Goto
<1>2. /\ answer' \in [Requests -> Answers] /\ at' \in [Requests -> Stages]
      /\ answer'[r] = ans /\ at'[r] = "over"
      /\ \A q \in Requests : q # r => answer'[q] = answer[q] /\ at'[q] = at[q]
  BY <1>1 DEF SearchInv, Stages
<1>3. ans.type = "documents" => ans.method \in S!Methods
  BY DEF Answers, S!Nothing, S!Found, S!Error
<1>4. S!TypeOK'
  BY <1>2, <1>3 DEF SearchInv, S!TypeOK, Stages
<1>5. S!BestMethodAnswers'
  BY <1>2 DEF SearchInv, S!BestMethodAnswers
<1> QED
  BY <1>2, <1>4, <1>5 DEF SearchInv

(* A request that goes on to another stage.                                *)
LEMMA SearchGoesOn ==
  ASSUME SearchInv, NEW r \in Requests, NEW s \in Stages, S!Goto(r, s), weak \subseteq weak',
         weak' \subseteq Requests, UNCHANGED <<up, changes, capable, answer>>, capable # "unknown",
         answer[r].type = "none",
         s \in {"embed", "vector", "fulltext"} => capable = "yes",
         s \in {"text", "scan"} => capable = "no" \/ r \in weak'
  PROVE  SearchInv'
<1>1. /\ at' \in [Requests -> Stages] /\ at'[r] = s
      /\ \A q \in Requests : q # r => at'[q] = at[q]
  BY DEF SearchInv, S!Goto
<1>2. S!TypeOK' /\ S!BestMethodAnswers'
  BY <1>1 DEF SearchInv, S!TypeOK, S!BestMethodAnswers, Stages
<1> QED
  BY <1>1, <1>2 DEF SearchInv

LEMMA SearchStep == ASSUME SearchInv, [S!Next]_(S!vars) PROVE SearchInv'
<1>1. /\ changes \in Nat /\ answer \in [Requests -> Answers] /\ at \in [Requests -> Stages]
      /\ weak \subseteq Requests /\ MaxChanges \in Nat
      /\ \A r \in Requests : at[r] # "over" => answer[r].type = "none"
      /\ \A r \in Requests : at[r] # "idle" => capable # "unknown"
  BY ServicesAssumption DEF SearchInv, S!TypeOK, ServicesAssumption, S!SearchAssumption
<1>2. /\ \A m \in S!Methods, f \in BOOLEAN :
           /\ S!Found(m, f) \in Answers /\ S!Found(m, f).method = m /\ S!Found(m, f).found = f
      /\ \A w \in {"embedding", "operation", "mongodb"} :
           S!Error(w) \in Answers /\ S!Error(w).type = "error"
      /\ S!Methods = {"vector", "fulltext", "filter"}
  <2>1. \A m \in S!Methods, f \in BOOLEAN : S!Found(m, f) \in Answers
    BY DEF Answers
  <2>2. \A m, f : S!Found(m, f).method = m /\ S!Found(m, f).found = f
    BY DEF S!Found
  <2>3. \A w \in {"embedding", "operation", "mongodb"} : S!Error(w) \in Answers
    BY DEF Answers
  <2>4. \A w : S!Error(w).type = "error"
    BY DEF S!Error
  <2> QED
    BY <2>1, <2>2, <2>3, <2>4 DEF S!Methods
<1>3. CASE UNCHANGED S!vars
  BY <1>3 DEF S!vars, SearchInv, S!TypeOK, S!BestMethodAnswers
<1>4. CASE S!Change
  <2>1. up' \subseteq S!Parts /\ changes' \in 0 .. MaxChanges
    BY <1>1, <1>4 DEF S!Change, SearchInv, S!TypeOK
  <2>2. UNCHANGED <<capable, at, weak, answer>>
    BY <1>4 DEF S!Change
  <2> QED
    BY <2>1, <2>2 DEF SearchInv, S!TypeOK, S!BestMethodAnswers
<1>5. CASE S!Connect
  <2>1. capable = "unknown" /\ capable' \in {"yes", "no"} /\ UNCHANGED <<up, changes, at, weak, answer>>
    BY <1>5 DEF S!Connect
  <2>2. \A r \in Requests : at[r] = "idle" /\ answer[r].type = "none"
    BY <1>1, <2>1 DEF SearchInv
  <2> QED
    BY <2>1, <2>2 DEF SearchInv, S!TypeOK, S!BestMethodAnswers
<1>6. ASSUME NEW r \in Requests, S!Search(r) \/ S!VectorSearch(r) PROVE SearchInv'
  <2>1. PICK s \in {"embed", "text", "direct"} :
          /\ S!Goto(r, s) /\ at[r] = "idle" /\ capable # "unknown"
          /\ s = "embed" => capable = "yes"
          /\ s = "text" => capable = "no"
    BY <1>6 DEF S!Search, S!VectorSearch, SearchInv, S!TypeOK
  <2>2. UNCHANGED <<up, changes, capable, weak, answer>>
    BY <1>6 DEF S!Search, S!VectorSearch
  <2> QED
    BY <1>1, <2>1, <2>2, SearchGoesOn DEF Stages
<1>7. ASSUME NEW r \in Requests, S!Embed(r) PROVE SearchInv'
  <2>1. /\ UNCHANGED <<up, changes, capable>> /\ weak \subseteq weak' /\ weak' \subseteq Requests
        /\ capable # "unknown" /\ answer[r].type = "none"
        /\ at[r] = "embed" => capable = "yes"
    BY <1>1, <1>7 DEF S!Embed, S!Weakened, SearchInv
  <2>2. CASE S!Answer(r, S!Error("embedding"))
    BY <1>2, <2>1, <2>2, SearchAnswered
  <2>3. CASE at[r] = "embed" /\ UNCHANGED answer /\ (S!Goto(r, "vector") \/ S!Goto(r, "fulltext"))
    BY <2>1, <2>3, SearchGoesOn DEF Stages
  <2>4. CASE at[r] = "direct" /\ UNCHANGED answer /\ S!Goto(r, "direct_vector")
    BY <2>1, <2>4, SearchGoesOn DEF Stages
  <2> QED
    BY <1>7, <2>2, <2>3, <2>4 DEF S!Embed
<1>8. ASSUME NEW r \in Requests, S!Vector(r) PROVE SearchInv'
  <2>1. /\ UNCHANGED <<up, changes, capable>> /\ weak \subseteq weak' /\ weak' \subseteq Requests
        /\ capable = "yes" /\ answer[r].type = "none"
    BY <1>1, <1>8 DEF S!Vector, S!Method, S!Weakened, SearchInv
  <2>2. CASE S!Answer(r, S!Found("vector", TRUE))
    BY <1>2, <2>1, <2>2, SearchAnswered
  <2>3. CASE S!Goto(r, "fulltext") /\ UNCHANGED answer
    BY <2>1, <2>3, SearchGoesOn DEF Stages
  <2> QED
    BY <1>8, <2>2, <2>3 DEF S!Vector, S!Method
<1>9. ASSUME NEW r \in Requests, S!Fulltext(r) PROVE SearchInv'
  <2>1. /\ UNCHANGED <<up, changes, capable>> /\ weak \subseteq weak' /\ weak' \subseteq Requests
        /\ capable = "yes" /\ answer[r].type = "none"
    BY <1>1, <1>9 DEF S!Fulltext, S!Method, S!Weakened, SearchInv
  <2>2. CASE S!Answer(r, S!Found("fulltext", TRUE))
    BY <1>2, <2>1, <2>2, SearchAnswered
  <2>3. CASE S!Goto(r, "text") /\ S!Weakened(r) /\ UNCHANGED answer
    BY <2>1, <2>3, SearchGoesOn DEF Stages, S!Weakened
  <2> QED
    BY <1>9, <2>2, <2>3 DEF S!Fulltext, S!Method
<1>10. ASSUME NEW r \in Requests, S!DirectVector(r) PROVE SearchInv'
  <2>1. PICK ans \in Answers : S!Answer(r, ans) /\ (ans.type = "documents" => ans.method = "vector")
    BY <1>2, <1>10 DEF S!DirectVector
  <2>2. UNCHANGED <<up, changes, capable, weak>> /\ capable # "unknown"
    BY <1>1, <1>10 DEF S!DirectVector
  <2> QED
    BY <1>1, <2>1, <2>2, SearchAnswered
<1>11. ASSUME NEW r \in Requests, S!Text(r) \/ S!Scan(r) PROVE SearchInv'
  <2>1. /\ UNCHANGED <<up, changes, capable, weak>> /\ capable # "unknown" /\ answer[r].type = "none"
        /\ capable = "no" \/ r \in weak
    BY <1>1, <1>11 DEF S!Text, S!Scan, SearchInv
  <2>2. CASE S!Goto(r, "scan") /\ UNCHANGED answer
    BY <1>1, <2>1, <2>2, SearchGoesOn DEF Stages
  <2>3. CASE \E ans \in Answers : S!Answer(r, ans) /\ (ans.type = "documents" => ans.method = "filter")
    BY <1>1, <2>1, <2>3, SearchAnswered
  <2> QED
    BY <1>2, <1>11, <2>2, <2>3 DEF S!Text, S!Scan
<1> QED
  BY <1>3, <1>4, <1>5, <1>6, <1>7, <1>8, <1>9, <1>10, <1>11 DEF S!Next

(* Only MongoDB's absence fails a search, a stronger method that failed or *)
(* found nothing is behind every weaker answer, and full text never        *)
(* answers with nothing.                                                   *)
THEOREM SearchFallsBack == ServicesSpec => FallbackRight
<1> DEFINE Fails(r) == answer'[r].type = "error" /\ at[r] \notin {"over", "direct", "direct_vector"}
<1>1. SearchInv /\ [S!Next]_(S!vars) => \A r \in Requests : Fails(r) => "mongodb" \notin up
  <2> SUFFICES ASSUME SearchInv, [S!Next]_(S!vars), NEW r \in Requests, Fails(r)
               PROVE  "mongodb" \notin up
    OBVIOUS
  <2>1. answer[r].type = "none" /\ answer \in [Requests -> Answers]
    BY DEF SearchInv, Answers, S!Nothing, S!Found, S!Error
  <2>2. answer'[r] # answer[r]
    BY <2>1
  <2>3. \A q \in Requests : \A v : answer' = [answer EXCEPT ![q] = v] => q = r /\ answer'[r] = v
    BY <2>1, <2>2
  <2>4. PICK q \in Requests : S!Embed(q) \/ S!Vector(q) \/ S!Fulltext(q) \/ S!DirectVector(q) \/ S!Text(q) \/ S!Scan(q)
    BY <2>2 DEF S!Next, S!vars, S!Change, S!Connect, S!Search, S!VectorSearch
  <2>5. \A m, f : S!Found(m, f).type # "error"
    BY DEF S!Found
  <2>6. \A v : S!Answer(q, v) => q = r /\ answer'[r] = v /\ v.type = "error"
    BY <2>3 DEF S!Answer
  <2>7. CASE S!Embed(q)
    BY <2>2, <2>6, <2>7 DEF S!Embed
  <2>8. CASE S!Vector(q) \/ S!Fulltext(q)
    BY <2>2, <2>5, <2>6, <2>8 DEF S!Vector, S!Fulltext, S!Method
  <2>9. CASE S!DirectVector(q)
    BY <2>2, <2>6, <2>9 DEF S!DirectVector
  <2>10. CASE S!Text(q)
    BY <2>2, <2>5, <2>6, <2>10 DEF S!Text
  <2>11. CASE S!Scan(q)
    BY <2>2, <2>5, <2>6, <2>11 DEF S!Scan
  <2> QED
    BY <2>4, <2>7, <2>8, <2>9, <2>10, <2>11
<1>2. Start => SearchInv
  BY SearchStart
<1>3. SearchInv /\ [S!Next]_(S!vars) => SearchInv'
  BY SearchStep
<1>4. [Move]_all => [S!Next]_(S!vars)
  BY SearchMoves
<1>5. SearchInv => S!TypeOK /\ S!BestMethodAnswers
  BY DEF SearchInv
<1> QED
  BY <1>1, <1>2, <1>3, <1>4, <1>5, PTL DEF ServicesSpec, FallbackRight, S!FallbackRight, S!FailsForMongoOnly

-----------------------------------------------------------------------------
(* Embeddings.  Each text is in one place: with no one before its call,    *)
(* then pending, in the batch that some call carries, or in a request.     *)
Places == {"idle", "waiting", "flushing", "receiving"} \union B!Over
In(c, s) == c \in B!Range(s)

EmbedTypes ==
  /\ B!TypeOK
  /\ phase \in [Callers -> Places] /\ carries \in [Callers -> Seq(Callers)]
  /\ requests \in Seq(Seq(Callers))
  /\ channel \in [Callers -> {B!Unset, B!Dropped, B!Failed, B!Empty} \union {B!Vector(c) : c \in Callers}]
  /\ result \in [Callers -> {B!Unset, B!Cancelled, B!Failed, B!Empty} \union {B!Vector(c) : c \in Callers}]

(* A channel or a result with a vector has the vector of its caller.       *)
OwnChannel ==
  \A c \in Callers :
    /\ channel[c] \in {B!Unset, B!Dropped, B!Failed, B!Empty, B!Vector(c)}
    /\ result[c] \in {B!Unset, B!Cancelled, B!Failed, B!Empty, B!Vector(c)}

NoTwice ==
  /\ B!IsInjective(pending)
  /\ \A c \in Callers : B!IsInjective(carries[c]) /\ Len(carries[c]) <= MaxBatch
  /\ \A r \in DOMAIN requests : B!IsInjective(requests[r]) /\ Len(requests[r]) <= MaxBatch

OnePlace ==
  /\ \A c \in Callers : phase[c] = "idle" =>
       /\ ~In(c, pending) /\ \A d \in Callers : ~In(c, carries[d])
       /\ \A r \in DOMAIN requests : ~In(c, requests[r])
  /\ \A c, d \in Callers : In(c, carries[d]) =>
       /\ ~In(c, pending) /\ \A e \in Callers : In(c, carries[e]) => e = d
       /\ \A r \in DOMAIN requests : ~In(c, requests[r])
  /\ \A c \in Callers, r \in DOMAIN requests : In(c, requests[r]) =>
       ~In(c, pending) /\ \A s \in DOMAIN requests : In(c, requests[s]) => s = r

EmbedInv == EmbedTypes /\ OwnChannel /\ NoTwice /\ OnePlace

(* The last element of a sequence, and the rest of it.                     *)
LEMMA Appended ==
  ASSUME NEW E, NEW s \in Seq(E), NEW e \in E
  PROVE  /\ Append(s, e) \in Seq(E) /\ Len(s) \in Nat /\ Len(Append(s, e)) = Len(s) + 1
         /\ DOMAIN Append(s, e) = DOMAIN s \union {Len(s) + 1} /\ DOMAIN s = 1 .. Len(s)
         /\ Append(s, e)[Len(s) + 1] = e /\ Len(s) + 1 \notin DOMAIN s
         /\ \A i \in DOMAIN s : Append(s, e)[i] = s[i]
OBVIOUS

LEMMA BatchGrows ==
  ASSUME NEW s \in Seq(Callers), NEW c \in Callers
  PROVE  /\ \A d : In(d, Append(s, c)) <=> In(d, s) \/ d = c
         /\ B!IsInjective(s) /\ ~In(c, s) => B!IsInjective(Append(s, c))
<1> DEFINE t == Append(s, c)
<1>1. /\ DOMAIN t = DOMAIN s \union {Len(s) + 1} /\ t[Len(s) + 1] = c /\ Len(s) + 1 \notin DOMAIN s
      /\ \A i \in DOMAIN s : t[i] = s[i]
  BY Appended
<1> HIDE DEF t
<1>2. \A d : In(d, t) <=> In(d, s) \/ d = c
  BY <1>1 DEF In, B!Range
<1>3. B!IsInjective(s) /\ ~In(c, s) => B!IsInjective(t)
  BY <1>1 DEF In, B!Range, B!IsInjective
<1> QED
  BY <1>2, <1>3 DEF t

LEMMA EmptyBatch == B!IsInjective(<<>>) /\ Len(<<>>) = 0 /\ <<>> \in Seq(Callers) /\ \A c : ~In(c, <<>>)
<1>1. DOMAIN <<>> = {} /\ Len(<<>>) = 0 /\ <<>> \in Seq(Callers)
  OBVIOUS
<1> QED
  BY <1>1 DEF B!IsInjective, In, B!Range

(* Where nothing is told, and where no text moves.                         *)
LEMMA EmbedStart == ASSUME Start PROVE EmbedInv
<1>1. B!Init /\ MaxBatch \in Nat \ {0}
  BY ServicesAssumption DEF Start, ServicesAssumption, B!BatchAssumption
<1>2. /\ pending = <<>> /\ phase = [c \in Callers |-> "idle"] /\ carries = [c \in Callers |-> <<>>]
      /\ requests = <<>> /\ channel = [c \in Callers |-> B!Unset] /\ result = [c \in Callers |-> B!Unset]
  BY <1>1 DEF B!Init
<1>3. /\ requests \in Seq(Seq(Callers)) /\ DOMAIN requests = {}
  BY <1>2
<1>4. EmbedTypes /\ OwnChannel
  BY <1>1, <1>2, <1>3, EmptyBatch DEF EmbedTypes, OwnChannel, B!TypeOK, Places
<1>5. NoTwice /\ OnePlace
  BY <1>1, <1>2, <1>3, EmptyBatch DEF NoTwice, OnePlace
<1> QED
  BY <1>4, <1>5 DEF EmbedInv

LEMMA EmbedMoves == ASSUME [Move]_all PROVE [B!Next]_(B!vars)
BY DEF Move, On, Still, all, embedding, B!vars

(* A call whose batch goes into a request: NoTwice and OnePlace.           *)
LEMMA BatchSent ==
  ASSUME EmbedInv, NEW c \in Callers, NEW rs, rs \in {requests, Append(requests, carries[c])},
         rs = requests => carries[c] = <<>>,
         requests' = rs, carries' = [carries EXCEPT ![c] = <<>>], UNCHANGED pending,
         \A d \in Callers : phase'[d] = "idle" => phase[d] = "idle"
  PROVE  requests' \in Seq(Seq(Callers)) /\ NoTwice' /\ OnePlace'
<1>1. /\ carries \in [Callers -> Seq(Callers)] /\ carries[c] \in Seq(Callers) /\ requests \in Seq(Seq(Callers))
      /\ carries'[c] = <<>> /\ \A d \in Callers : d # c => carries'[d] = carries[d]
  BY DEF EmbedInv, EmbedTypes
<1>2. CASE rs = requests
  <2>1. \A d \in Callers : carries'[d] = carries[d]
    BY <1>1, <1>2
  <2> QED
    BY <1>1, <1>2, <2>1 DEF EmbedInv, NoTwice, OnePlace
<1>3. CASE rs = Append(requests, carries[c])
  <2> DEFINE n == Len(requests) + 1
  <2>1. /\ rs \in Seq(Seq(Callers)) /\ DOMAIN rs = DOMAIN requests \union {n} /\ n \notin DOMAIN requests
        /\ rs[n] = carries[c] /\ \A r \in DOMAIN requests : rs[r] = requests[r]
    <3>1. rs = Append(requests, carries[c])
      BY <1>3
    <3> QED
      BY <1>1, <3>1, Appended
  <2> HIDE DEF n
  <2>2. \A d \in Callers : \A e : In(e, carries'[d]) => d # c /\ In(e, carries[d])
    BY <1>1, EmptyBatch
  <2>3. NoTwice'
    BY <1>1, <2>1, EmptyBatch, ServicesAssumption
    DEF EmbedInv, NoTwice, ServicesAssumption, B!BatchAssumption
  <2>4. \A d, e \in Callers : In(d, carries[e]) =>
             /\ ~In(d, pending) /\ \A g \in Callers : In(d, carries[g]) => g = e
             /\ \A r \in DOMAIN requests : ~In(d, requests[r])
    BY DEF EmbedInv, OnePlace
  <2>5. \A d \in Callers : \A r \in DOMAIN requests : In(d, requests[r]) =>
             ~In(d, pending) /\ \A s \in DOMAIN requests : In(d, requests[s]) => s = r
    BY DEF EmbedInv, OnePlace
  <2>6. \A d \in Callers : phase[d] = "idle" =>
             /\ ~In(d, pending) /\ \A e \in Callers : ~In(d, carries[e])
             /\ \A r \in DOMAIN requests : ~In(d, requests[r])
    BY DEF EmbedInv, OnePlace
  <2>7. ASSUME NEW d \in Callers, phase'[d] = "idle"
        PROVE  /\ ~In(d, pending) /\ \A e \in Callers : ~In(d, carries'[e])
               /\ \A r \in DOMAIN rs : ~In(d, rs[r])
    BY <2>1, <2>2, <2>6, <2>7
  <2>8. ASSUME NEW d \in Callers, NEW e \in Callers, In(d, carries'[e])
        PROVE  /\ ~In(d, pending) /\ \A g \in Callers : In(d, carries'[g]) => g = e
               /\ \A r \in DOMAIN rs : ~In(d, rs[r])
    <3>1. In(d, carries[e]) /\ e # c
      BY <2>2, <2>8
    <3>2. ~In(d, pending) /\ \A g \in Callers : In(d, carries'[g]) => g = e
      BY <2>2, <2>4, <3>1
    <3>3. ~In(d, rs[n])
      BY <2>1, <2>4, <3>1
    <3>4. \A r \in DOMAIN requests : ~In(d, rs[r])
      BY <2>1, <2>4, <3>1
    <3> QED
      BY <2>1, <3>2, <3>3, <3>4
  <2>9. ASSUME NEW d \in Callers, NEW r \in DOMAIN rs, In(d, rs[r])
        PROVE  ~In(d, pending) /\ \A s \in DOMAIN rs : In(d, rs[s]) => s = r
    BY <2>1, <2>4, <2>5, <2>9
  <2>10. OnePlace'
    BY <2>7, <2>8, <2>9 DEF OnePlace
  <2> QED
    BY <2>1, <2>3, <2>10
<1> QED
  BY <1>2, <1>3

(* A batch taken by a call, and a text that starts to wait.                *)
LEMMA BatchTaken ==
  ASSUME EmbedInv, NEW c \in Callers, phase[c] # "flushing", NEW t \in Seq(Callers),
         B!IsInjective(t), Len(t) <= MaxBatch,
         \A d \in Callers : In(d, t) => In(d, pending) \/ (d = c /\ phase[c] = "idle"),
         carries' = [carries EXCEPT ![c] = t], pending' = <<>>, UNCHANGED requests,
         \A d \in Callers : phase'[d] = "idle" => phase[d] = "idle" /\ d # c
  PROVE  NoTwice' /\ OnePlace'
<1>1. /\ carries \in [Callers -> Seq(Callers)] /\ carries[c] = <<>>
      /\ carries'[c] = t /\ \A d \in Callers : d # c => carries'[d] = carries[d]
  BY DEF EmbedInv, EmbedTypes, B!TypeOK
<1>2. NoTwice'
  BY <1>1, EmptyBatch DEF EmbedInv, NoTwice
<1>3. \A d, e \in Callers : In(d, carries[e]) =>
           /\ ~In(d, pending) /\ phase[d] # "idle" /\ \A g \in Callers : In(d, carries[g]) => g = e
           /\ \A r \in DOMAIN requests : ~In(d, requests[r])
  BY DEF EmbedInv, OnePlace
<1>4. \A d \in Callers : \A r \in DOMAIN requests : In(d, requests[r]) =>
           ~In(d, pending) /\ phase[d] # "idle" /\ \A s \in DOMAIN requests : In(d, requests[s]) => s = r
  BY DEF EmbedInv, OnePlace
<1>5. \A d \in Callers : phase[d] = "idle" =>
           /\ ~In(d, pending) /\ \A e \in Callers : ~In(d, carries[e])
           /\ \A r \in DOMAIN requests : ~In(d, requests[r])
  BY DEF EmbedInv, OnePlace
<1>6. \A d \in Callers : ~In(d, pending')
  BY EmptyBatch
<1>7. \A d \in Callers : In(d, t) =>
           /\ \A e \in Callers : ~In(d, carries[e])
           /\ \A r \in DOMAIN requests : ~In(d, requests[r])
  BY <1>3, <1>4, <1>5
<1>8. ASSUME NEW d \in Callers, phase'[d] = "idle"
      PROVE  /\ \A e \in Callers : ~In(d, carries'[e])
             /\ \A r \in DOMAIN requests : ~In(d, requests[r])
  BY <1>1, <1>5, <1>8
<1>9. ASSUME NEW d \in Callers, NEW e \in Callers, In(d, carries'[e])
      PROVE  /\ \A g \in Callers : In(d, carries'[g]) => g = e
             /\ \A r \in DOMAIN requests : ~In(d, requests[r])
  BY <1>1, <1>3, <1>7, <1>9
<1>10. OnePlace'
  BY <1>4, <1>6, <1>8, <1>9 DEF OnePlace
<1> QED
  BY <1>2, <1>10

LEMMA TextWaits ==
  ASSUME EmbedInv, NEW c \in Callers, phase[c] = "idle", pending' = Append(pending, c),
         UNCHANGED <<carries, requests>>,
         \A d \in Callers : phase'[d] = "idle" => phase[d] = "idle" /\ d # c
  PROVE  NoTwice' /\ OnePlace'
<1>1. pending \in Seq(Callers)
  BY DEF EmbedInv, EmbedTypes, B!TypeOK
<1>2. /\ ~In(c, pending) /\ \A e \in Callers : ~In(c, carries[e])
      /\ \A r \in DOMAIN requests : ~In(c, requests[r])
  BY DEF EmbedInv, OnePlace
<1>3. \A d : In(d, pending') <=> In(d, pending) \/ d = c
  BY <1>1, BatchGrows
<1>4. NoTwice'
  BY <1>1, <1>2, BatchGrows DEF EmbedInv, NoTwice
<1>5. OnePlace'
  BY <1>2, <1>3 DEF EmbedInv, OnePlace
<1> QED
  BY <1>4, <1>5

(* The steps of a call.                                                    *)
LEMMA EmbedCall ==
  ASSUME EmbedInv, NEW c \in Callers, B!Call(c) \/ B!WindowPasses(c)
  PROVE  EmbedInv'
<1>1. /\ pending \in Seq(Callers) /\ Len(pending) \in Nat /\ Len(pending) < MaxBatch /\ MaxBatch \in Nat
      /\ phase \in [Callers -> Places] /\ carries \in [Callers -> Seq(Callers)] /\ carries[c] = <<>>
      /\ phase[c] # "flushing" /\ UNCHANGED <<channel, result, requests>>
      /\ \A d \in Callers : carries[d] # <<>> => phase[d] = "flushing"
  BY ServicesAssumption
  DEF EmbedInv, EmbedTypes, B!TypeOK, B!Call, B!WindowPasses, ServicesAssumption, B!BatchAssumption
<1>2. PICK s \in {"waiting", "flushing", "receiving"} : phase' = [phase EXCEPT ![c] = s]
  BY DEF B!Call, B!WindowPasses, B!Goto
<1>3. /\ phase' \in [Callers -> Places] /\ phase'[c] = s /\ \A d \in Callers : d # c => phase'[d] = phase[d]
      /\ \A d \in Callers : phase'[d] = "idle" => phase[d] = "idle" /\ d # c
  BY <1>1, <1>2 DEF Places
<1>4. OwnChannel'
  BY <1>1 DEF EmbedInv, OwnChannel
<1>5. ASSUME NEW t \in Seq(Callers), carries' = [carries EXCEPT ![c] = t], pending' = <<>>,
             t # <<>> => s = "flushing",
             B!IsInjective(t), Len(t) <= MaxBatch,
             \A d \in Callers : In(d, t) => In(d, pending) \/ (d = c /\ phase[c] = "idle")
      PROVE  EmbedInv'
  <2>1. NoTwice' /\ OnePlace'
    BY <1>1, <1>3, <1>5, BatchTaken
  <2>2. /\ carries' \in [Callers -> Seq(Callers)] /\ carries'[c] = t
        /\ \A d \in Callers : d # c => carries'[d] = carries[d]
    BY <1>1, <1>5
  <2>3. pending' \in Seq(Callers) /\ Len(pending') < MaxBatch
    BY <1>1, <1>5, EmptyBatch
  <2>4. EmbedTypes'
    BY <1>1, <1>3, <1>5, <2>2, <2>3 DEF EmbedInv, EmbedTypes, B!TypeOK, Places
  <2> QED
    BY <1>4, <2>1, <2>4 DEF EmbedInv
<1>6. CASE B!WindowPasses(c)
  <2>1. /\ carries' = [carries EXCEPT ![c] = pending] /\ pending' = <<>>
        /\ pending # <<>> => phase' = [phase EXCEPT ![c] = "flushing"]
    BY <1>6 DEF B!WindowPasses, B!Goto
  <2>2. pending # <<>> => s = "flushing"
    BY <1>1, <1>3, <2>1
  <2>3. B!IsInjective(pending)
    BY DEF EmbedInv, NoTwice
  <2>4. pending \in Seq(Callers) /\ Len(pending) <= MaxBatch
    BY <1>1
  <2> QED
    BY <1>5, <2>1, <2>2, <2>3, <2>4
<1>7. CASE B!Call(c)
  <2>1. phase[c] = "idle" /\ ~In(c, pending)
    BY <1>7 DEF B!Call, EmbedInv, OnePlace
  <2>2. /\ Append(pending, c) \in Seq(Callers) /\ Len(Append(pending, c)) = Len(pending) + 1
        /\ B!IsInjective(Append(pending, c)) /\ \A d : In(d, Append(pending, c)) <=> In(d, pending) \/ d = c
    BY <1>1, <2>1, BatchGrows DEF EmbedInv, NoTwice
  <2>3. CASE Len(pending) + 1 >= MaxBatch
    <3>1. /\ carries' = [carries EXCEPT ![c] = Append(pending, c)] /\ pending' = <<>>
          /\ phase' = [phase EXCEPT ![c] = "flushing"]
      BY <1>7, <2>3 DEF B!Call, B!Goto
    <3>2. s = "flushing" /\ Len(Append(pending, c)) <= MaxBatch
      BY <1>1, <1>3, <2>2, <3>1
    <3> QED
      BY <1>5, <2>1, <2>2, <3>1, <3>2
  <2>4. CASE ~(Len(pending) + 1 >= MaxBatch)
    <3>1. /\ pending' = Append(pending, c) /\ UNCHANGED carries
      BY <1>7, <2>4 DEF B!Call
    <3>2. NoTwice' /\ OnePlace'
      BY <1>1, <1>3, <2>1, <3>1, TextWaits
    <3>3. pending' \in Seq(Callers) /\ Len(pending') < MaxBatch
      BY <1>1, <2>2, <2>4, <3>1
    <3>4. EmbedTypes'
      BY <1>1, <1>3, <3>1, <3>3 DEF EmbedInv, EmbedTypes, B!TypeOK, Places
    <3> QED
      BY <1>4, <3>2, <3>4 DEF EmbedInv
  <2> QED
    BY <2>3, <2>4
<1> QED
  BY <1>6, <1>7

LEMMA EmbedReceive ==
  ASSUME EmbedInv, NEW c \in Callers, B!Receive(c)
  PROVE  EmbedInv'
<1>1. /\ phase[c] = "receiving" /\ phase' = [phase EXCEPT ![c] = "answered"]
      /\ result' = [result EXCEPT ![c] = IF channel[c] = B!Dropped THEN B!Cancelled ELSE channel[c]]
      /\ channel[c] # B!Unset /\ UNCHANGED <<pending, carries, channel, requests>>
  BY DEF B!Receive, B!Goto
<1>2. /\ phase \in [Callers -> Places]
      /\ result \in [Callers -> {B!Unset, B!Cancelled, B!Failed, B!Empty} \union {B!Vector(d) : d \in Callers}]
      /\ channel[c] \in {B!Unset, B!Dropped, B!Failed, B!Empty, B!Vector(c)}
  BY DEF EmbedInv, EmbedTypes, OwnChannel
<1>3. /\ phase' \in [Callers -> Places] /\ phase'[c] = "answered"
      /\ \A d \in Callers : d # c => phase'[d] = phase[d]
  BY <1>1, <1>2 DEF Places, B!Over
<1> DEFINE v == IF channel[c] = B!Dropped THEN B!Cancelled ELSE channel[c]
<1>4. v \in {B!Cancelled, B!Failed, B!Empty, B!Vector(c)}
  BY <1>1, <1>2
<1> HIDE DEF v
<1>5. /\ result' \in [Callers -> {B!Unset, B!Cancelled, B!Failed, B!Empty} \union {B!Vector(d) : d \in Callers}]
      /\ result'[c] = v /\ \A d \in Callers : d # c => result'[d] = result[d]
  BY <1>1, <1>2, <1>4 DEF v
<1>6. EmbedTypes'
  BY <1>1, <1>3, <1>5 DEF EmbedInv, EmbedTypes, B!TypeOK, Places
<1>7. OwnChannel'
  BY <1>1, <1>4, <1>5 DEF EmbedInv, OwnChannel
<1>8. NoTwice' /\ OnePlace'
  BY <1>1, <1>3 DEF EmbedInv, NoTwice, OnePlace
<1> QED
  BY <1>6, <1>7, <1>8 DEF EmbedInv

(* A batch leaves the call that carried it: its texts are in a request, or *)
(* it was empty, and each channel holds what it did, an outcome for the    *)
(* very text, or nothing but the news that the sender is gone.             *)
LEMMA BatchLeaves ==
  ASSUME EmbedInv, NEW c \in Callers, NEW s \in {"receiving", "gone"},
         phase' = [phase EXCEPT ![c] = s], phase[c] # "idle",
         carries' = [carries EXCEPT ![c] = <<>>], UNCHANGED <<pending, result>>,
         requests' \in {requests, Append(requests, carries[c])},
         requests' = requests => carries[c] = <<>>,
         NEW g \in [Callers -> {B!Unset, B!Dropped, B!Failed, B!Empty} \union {B!Vector(d) : d \in Callers}],
         channel' = g, \A d \in Callers : g[d] \in {channel[d], B!Dropped, B!Failed, B!Empty, B!Vector(d)}
  PROVE  EmbedInv'
<1>1. phase \in [Callers -> Places] /\ carries \in [Callers -> Seq(Callers)]
  BY DEF EmbedInv, EmbedTypes
<1>2. /\ phase' \in [Callers -> Places] /\ phase'[c] = s /\ s # "idle"
      /\ \A d \in Callers : d # c => phase'[d] = phase[d]
      /\ \A d \in Callers : phase'[d] = "idle" => phase[d] = "idle"
  BY <1>1 DEF Places, B!Over
<1>3. /\ carries' \in [Callers -> Seq(Callers)] /\ carries'[c] = <<>>
      /\ \A d \in Callers : d # c => carries'[d] = carries[d]
  BY <1>1
<1>4. requests' \in Seq(Seq(Callers)) /\ NoTwice' /\ OnePlace'
  BY <1>2, BatchSent
<1>5. EmbedTypes'
  BY <1>2, <1>3, <1>4 DEF EmbedInv, EmbedTypes, B!TypeOK, Places
<1>6. OwnChannel'
  BY DEF EmbedInv, OwnChannel
<1> QED
  BY <1>4, <1>5, <1>6 DEF EmbedInv

LEMMA NotSame == ASSUME NEW E, NEW s \in Seq(Seq(E)), NEW t \in Seq(E) PROVE Append(s, t) # s
<1>1. Len(Append(s, t)) = Len(s) + 1 /\ Len(s) \in Nat
  OBVIOUS
<1> QED
  BY <1>1

LEMMA EmbedDrop ==
  ASSUME EmbedInv, NEW c \in Callers, B!Drop(c)
  PROVE  EmbedInv'
<1> DEFINE g == [d \in Callers |-> IF d \in B!Range(carries[c]) THEN B!Dropped ELSE channel[d]]
<1>1. /\ phase' = [phase EXCEPT ![c] = "gone"] /\ phase[c] # "idle"
      /\ carries' = [carries EXCEPT ![c] = <<>>] /\ UNCHANGED <<pending, result>> /\ channel' = g
      /\ requests' = IF carries[c] = <<>> THEN requests ELSE Append(requests, carries[c])
  BY DEF B!Drop, B!Goto
<1>2. /\ channel \in [Callers -> {B!Unset, B!Dropped, B!Failed, B!Empty} \union {B!Vector(d) : d \in Callers}]
      /\ requests \in Seq(Seq(Callers)) /\ carries[c] \in Seq(Callers)
  BY DEF EmbedInv, EmbedTypes
<1>3. requests' = requests => carries[c] = <<>>
  BY <1>1, <1>2, NotSame
<1>4. /\ g \in [Callers -> {B!Unset, B!Dropped, B!Failed, B!Empty} \union {B!Vector(d) : d \in Callers}]
      /\ \A d \in Callers : g[d] \in {channel[d], B!Dropped, B!Failed, B!Empty, B!Vector(d)}
  BY <1>2
<1> HIDE DEF g
<1>5. requests' \in {requests, Append(requests, carries[c])}
  BY <1>1
<1> QED
  BY <1>1, <1>3, <1>4, <1>5, BatchLeaves

(* The outcome that a text finds in the batch is its own.                  *)
LEMMA EmbedFlush ==
  ASSUME EmbedInv, NEW c \in Callers, B!Flush(c)
  PROVE  EmbedInv'
<1>1. /\ channel \in [Callers -> {B!Unset, B!Dropped, B!Failed, B!Empty} \union {B!Vector(d) : d \in Callers}]
      /\ requests \in Seq(Seq(Callers)) /\ carries[c] \in Seq(Callers)
  BY DEF EmbedInv, EmbedTypes
<1>2. ASSUME NEW outcome, B!Deliver(c, outcome),
             \A i \in DOMAIN carries[c] : outcome[i] \in {B!Failed, B!Empty, B!Vector(carries[c][i])}
      PROVE  EmbedInv'
  <2> DEFINE Place(d) == CHOOSE i \in DOMAIN carries[c] : carries[c][i] = d
             g == [d \in Callers |->
                     IF d \in B!Range(carries[c]) /\ phase[d] \notin B!Over
                       THEN outcome[Place(d)] ELSE channel[d]]
  <2>1. /\ channel' = g /\ requests' = Append(requests, carries[c])
        /\ carries' = [carries EXCEPT ![c] = <<>>] /\ phase' = [phase EXCEPT ![c] = "receiving"]
        /\ UNCHANGED <<pending, result>>
    BY <1>2 DEF B!Deliver, B!Goto
  <2>2. phase[c] = "flushing"
    BY DEF B!Flush
  <2>3. \A d \in B!Range(carries[c]) : Place(d) \in DOMAIN carries[c] /\ carries[c][Place(d)] = d
    BY DEF B!Range
  <2>4. \A d \in Callers : g[d] \in {channel[d], B!Failed, B!Empty, B!Vector(d)}
    <3> HIDE DEF Place
    <3> QED
      BY <1>2, <2>3
  <2>5. g \in [Callers -> {B!Unset, B!Dropped, B!Failed, B!Empty} \union {B!Vector(d) : d \in Callers}]
    <3>1. \A d \in Callers : g[d] \in {B!Unset, B!Dropped, B!Failed, B!Empty} \union {B!Vector(e) : e \in Callers}
      <4> HIDE DEF g
      <4> QED
        BY <1>1, <2>4
    <3>2. DOMAIN g = Callers /\ g = [d \in Callers |-> g[d]]
      OBVIOUS
    <3> HIDE DEF g
    <3> QED
      BY <3>1, <3>2
  <2> HIDE DEF g
  <2>6. requests' # requests /\ requests' \in {requests, Append(requests, carries[c])}
    BY <1>1, <2>1, NotSame
  <2> QED
    BY <2>1, <2>2, <2>4, <2>5, <2>6, BatchLeaves
<1>3. CASE \E n \in 0 .. Len(carries[c]) :
             B!Deliver(c, [i \in DOMAIN carries[c] |-> B!VectorAt(carries[c], i, n)])
  <2>1. PICK n \in 0 .. Len(carries[c]) :
          B!Deliver(c, [i \in DOMAIN carries[c] |-> B!VectorAt(carries[c], i, n)])
    BY <1>3
  <2> DEFINE outcome == [i \in DOMAIN carries[c] |-> B!VectorAt(carries[c], i, n)]
  <2>2. \A i \in DOMAIN carries[c] : outcome[i] \in {B!Failed, B!Empty, B!Vector(carries[c][i])}
    BY DEF B!VectorAt
  <2> HIDE DEF outcome
  <2>3. B!Deliver(c, outcome)
    BY <2>1 DEF outcome
  <2> QED
    BY <1>2, <2>2, <2>3
<1>4. CASE B!Deliver(c, [i \in DOMAIN carries[c] |-> B!Failed])
  <2> DEFINE outcome == [i \in DOMAIN carries[c] |-> B!Failed]
  <2>1. \A i \in DOMAIN carries[c] : outcome[i] \in {B!Failed, B!Empty, B!Vector(carries[c][i])}
    OBVIOUS
  <2> HIDE DEF outcome
  <2>2. B!Deliver(c, outcome)
    BY <1>4 DEF outcome
  <2> QED
    BY <1>2, <2>1, <2>2
<1> QED
  BY <1>3, <1>4 DEF B!Flush

LEMMA EmbedHolds == ASSUME EmbedInv PROVE EachItsOwn
<1>1. B!OwnVector
  BY DEF EmbedInv, OwnChannel, B!OwnVector, B!Vector, B!Unset, B!Cancelled, B!Failed, B!Empty
<1>2. B!EachTextOnce
  <2>1. \A r, s \in DOMAIN requests : r # s => B!Range(requests[r]) \intersect B!Range(requests[s]) = {}
    <3> SUFFICES ASSUME NEW r \in DOMAIN requests, NEW s \in DOMAIN requests, r # s,
                        NEW c, In(c, requests[r]), In(c, requests[s])
                 PROVE  FALSE
      BY DEF In
    <3>1. requests[r] \in Seq(Callers)
      BY DEF EmbedInv, EmbedTypes
    <3>2. c \in Callers
      BY <3>1 DEF In, B!Range
    <3> QED
      BY <3>2 DEF EmbedInv, OnePlace
  <2> QED
    BY <2>1 DEF EmbedInv, NoTwice, B!EachTextOnce
<1> QED
  BY <1>1, <1>2 DEF EmbedInv, EmbedTypes, EachItsOwn, B!EachItsOwn

(* Batching is invisible: each caller gets the vector of its own text or   *)
(* none, and no text is sent twice or in a request that is too large,      *)
(* whoever takes the batch and whoever is dropped.                         *)
THEOREM EachGetsItsOwn == ServicesSpec => []EachItsOwn
<1>1. Start => EmbedInv
  BY EmbedStart
<1>2. EmbedInv /\ [B!Next]_(B!vars) => EmbedInv'
  <2> SUFFICES ASSUME EmbedInv, [B!Next]_(B!vars) PROVE EmbedInv'
    OBVIOUS
  <2>1. CASE UNCHANGED B!vars
    BY <2>1 DEF B!vars, EmbedInv, EmbedTypes, B!TypeOK, OwnChannel, NoTwice, OnePlace
  <2>2. CASE B!Next
    BY <2>2, EmbedCall, EmbedFlush, EmbedReceive, EmbedDrop DEF B!Next, B!Progress
  <2> QED
    BY <2>1, <2>2
<1>3. [Move]_all => [B!Next]_(B!vars)
  BY EmbedMoves
<1>4. EmbedInv => EachItsOwn
  BY EmbedHolds
<1> QED
  BY <1>1, <1>2, <1>3, <1>4, PTL DEF ServicesSpec

-----------------------------------------------------------------------------
(* Watched directories.  How often a path is among those reported and not  *)
(* yet received.                                                           *)
Times(s, f) == Cardinality({i \in DOMAIN s : s[i] = f})

LEMMA TimesCounts ==
  ASSUME NEW E, NEW s \in Seq(E), NEW f
  PROVE  IsFiniteSet({i \in DOMAIN s : s[i] = f}) /\ Times(s, f) \in Nat
<1>1. IsFiniteSet(1 .. Len(s)) /\ {i \in DOMAIN s : s[i] = f} \subseteq 1 .. Len(s)
  BY FS_Interval
<1> QED
  BY <1>1, FS_Subset, FS_CardinalityType DEF Times

LEMMA TimesEmpty == \A f : Times(<<>>, f) = 0
<1>1. \A f : {i \in DOMAIN <<>> : <<>>[i] = f} = {}
  OBVIOUS
<1> QED
  BY <1>1, FS_EmptySet DEF Times

LEMMA TimesAppend ==
  ASSUME NEW E, NEW s \in Seq(E), NEW e \in E, NEW f
  PROVE  Times(Append(s, e), f) = Times(s, f) + (IF e = f THEN 1 ELSE 0)
<1> DEFINE I == {i \in DOMAIN s : s[i] = f}
           t == Append(s, e)
           J == {i \in DOMAIN t : t[i] = f}
           n == Len(s) + 1
<1>1. /\ DOMAIN t = DOMAIN s \union {n} /\ t[n] = e /\ n \notin DOMAIN s
      /\ \A i \in DOMAIN s : t[i] = s[i]
  BY Appended
<1>2. J = IF e = f THEN I \union {n} ELSE I
  <2> HIDE DEF t, n
  <2> QED
    BY <1>1
<1>3. IsFiniteSet(I) /\ Cardinality(I) \in Nat /\ n \notin I
  BY <1>1, TimesCounts DEF Times
<1>4. Cardinality(I \union {n}) = Cardinality(I) + 1
  BY <1>3, FS_AddElement
<1>5. Cardinality(J) = Cardinality(I) + (IF e = f THEN 1 ELSE 0)
  <2> HIDE DEF I, J, n
  <2> QED
    BY <1>2, <1>3, <1>4
<1> QED
  BY <1>5 DEF Times

LEMMA TimesTail ==
  ASSUME NEW E, NEW s \in Seq(E), s # <<>>, NEW f
  PROVE  Times(s, f) = Times(Tail(s), f) + (IF Head(s) = f THEN 1 ELSE 0)
<1> DEFINE t == Tail(s)
           I == {i \in DOMAIN s : s[i] = f}
           J == {i \in DOMAIN t : t[i] = f}
           K == {i \in I : i # 1}
           down == [i \in K |-> i - 1]
<1>1. /\ t \in Seq(E) /\ Len(s) \in Nat \ {0} /\ DOMAIN s = 1 .. Len(s) /\ DOMAIN t = 1 .. Len(s) - 1
      /\ Head(s) = s[1] /\ \A i \in 1 .. Len(s) - 1 : t[i] = s[i + 1]
  OBVIOUS
<1>2. IsFiniteSet(I) /\ IsFiniteSet(K)
  <2>1. IsFiniteSet(I)
    BY TimesCounts
  <2> QED
    BY <2>1, FS_Subset
<1>3. down \in Bijection(K, J)
  <2> HIDE DEF t
  <2>1. \A i \in K : i - 1 \in J
    BY <1>1
  <2>2. \A j \in J : j + 1 \in K /\ down[j + 1] = j
    BY <1>1
  <2>3. \A i, j \in K : down[i] = down[j] => i = j
    BY <1>1
  <2>4. down \in [K -> J]
    BY <2>1
  <2> QED
    BY <2>2, <2>3, <2>4 DEF Bijection, Injection, Surjection, IsInjective
<1>4. Cardinality(J) = Cardinality(K)
  <2> HIDE DEF J, K, down
  <2>1. ExistsBijection(K, J)
    BY <1>3 DEF ExistsBijection
  <2> QED
    BY <1>2, <2>1, FS_Bijection
<1>5. IF Head(s) = f THEN I = K \union {1} ELSE I = K
  <2> HIDE DEF t
  <2> QED
    BY <1>1
<1>6. 1 \notin K /\ Cardinality(K) \in Nat /\ Cardinality(K \union {1}) = Cardinality(K) + 1
  <2>1. 1 \notin K
    OBVIOUS
  <2> QED
    BY <1>2, <2>1, FS_AddElement, FS_CardinalityType
<1>7. Cardinality(I) = Cardinality(J) + (IF Head(s) = f THEN 1 ELSE 0)
  <2> HIDE DEF t, I, J, K
  <2>1. CASE Head(s) = f
    <3>1. I = K \union {1}
      BY <1>5, <2>1
    <3>2. Cardinality(I) = Cardinality(K) + 1
      BY <1>6, <3>1
    <3> QED
      BY <1>4, <2>1, <3>2
  <2>2. CASE Head(s) # f
    <3>1. I = K
      BY <1>5, <2>2
    <3> QED
      BY <1>4, <1>6, <2>2, <3>1
  <2> QED
    BY <2>1, <2>2
<1> QED
  BY <1>7 DEF Times

(* A path waits for no longer than its file has been at rest, unless a     *)
(* write to it is still to be received; nothing waits without the task.    *)
Rested ==
  \A f \in DOMAIN waiting :
    calm[f] >= waiting[f] \/ \E i \in DOMAIN noticed : noticed[i] = f
Covered(f) ==
  spawned[f] + (IF f \in DOMAIN waiting THEN 1 ELSE 0) + Times(noticed, f) <= seen[f]

WatchInv ==
  /\ W!TypeOK /\ version \in [Files -> Nat] /\ calm \in [Files -> Nat] /\ seen \in [Files -> Nat]
  /\ spawned \in [Files -> Nat] /\ begun \in [Files -> Nat] /\ read \in [Files -> Nat]
  /\ \A f \in Files : Covered(f)
  /\ Rested
  /\ watcher # "on" => noticed = <<>> /\ DOMAIN waiting = {}

LEMMA WatchBounds ==
  /\ Matching \subseteq Files /\ MaxWrites \in Nat /\ Debounce \in Nat /\ Interval \in Nat \ {0}
BY ServicesAssumption DEF ServicesAssumption, W!WatchAssumption

LEMMA WatchStart == ASSUME Start PROVE WatchInv
<1>1. W!Init
  BY DEF Start
<1>2. /\ watcher = "none" /\ noticed = <<>> /\ DOMAIN waiting = {} /\ idle = 0
      /\ handle = FALSE /\ stopping = FALSE
      /\ \A f \in Files : /\ version[f] = 0 /\ calm[f] = Debounce /\ seen[f] = 0
                          /\ spawned[f] = 0 /\ begun[f] = 0 /\ read[f] = 0
  BY <1>1 DEF W!Init, W!Zero
<1>3. /\ version \in [Files -> Nat] /\ calm \in [Files -> Nat] /\ seen \in [Files -> Nat]
      /\ spawned \in [Files -> Nat] /\ begun \in [Files -> Nat] /\ read \in [Files -> Nat]
  BY <1>1, WatchBounds DEF W!Init, W!Zero
<1>4. W!TypeOK
  <2>1. noticed \in Seq(Files)
    BY <1>2
  <2>2. DOMAIN waiting \subseteq Matching /\ \A f \in DOMAIN waiting : waiting[f] \in 0 .. Debounce
    BY <1>2
  <2>3. \A f \in Files : /\ version[f] \in 0 .. MaxWrites /\ calm[f] \in 0 .. Debounce
                         /\ seen[f] <= version[f] /\ read[f] <= version[f] /\ begun[f] <= spawned[f]
    BY <1>2, WatchBounds
  <2>4. idle \in 0 .. Interval
    BY <1>2, WatchBounds
  <2> QED
    BY <1>2, <2>1, <2>2, <2>3, <2>4 DEF W!TypeOK
<1> QED
  BY <1>2, <1>3, <1>4, TimesEmpty DEF WatchInv, Covered, Rested

LEMMA WatchMoves == ASSUME [Move]_all PROVE [W!Next]_(W!vars)
BY DEF Move, On, Still, all, watch, W!vars, W!loop, W!user, W!disk, W!jobs

LEMMA WatchUser ==
  ASSUME WatchInv, W!StartWatch \/ W!StopWatch \/ W!Install \/ W!Cancelled PROVE WatchInv'
<1>1. UNCHANGED <<version, calm, seen, spawned, begun, read>>
  BY DEF W!StartWatch, W!StopWatch, W!Install, W!Cancelled, W!disk, W!jobs, W!loop
<1>2. CASE UNCHANGED <<noticed, waiting>> /\ (watcher' # "on" => watcher # "on")
  <2>0. /\ idle \in 0 .. Interval /\ handle \in BOOLEAN /\ stopping \in BOOLEAN /\ 0 \in 0 .. Interval
        /\ watcher \in {"none", "starting", "on", "ended", "dead"}
    BY WatchBounds DEF WatchInv, W!TypeOK
  <2>1. idle' \in 0 .. Interval /\ watcher' \in {"none", "starting", "on", "ended", "dead"}
        /\ handle' \in BOOLEAN /\ stopping' \in BOOLEAN
    <3>1. CASE W!StartWatch
      BY <2>0, <3>1 DEF W!StartWatch
    <3>2. CASE W!StopWatch
      BY <2>0, <3>2 DEF W!StopWatch, W!loop
    <3>3. CASE W!Install
      BY <2>0, <3>3 DEF W!Install, W!user
    <3>4. CASE W!Cancelled
      BY <2>0, <3>4 DEF W!Cancelled, W!user
    <3> QED
      BY <3>1, <3>2, <3>3, <3>4
  <2>2. W!TypeOK'
    BY <1>1, <1>2, <2>1 DEF WatchInv, W!TypeOK
  <2> QED
    BY <1>1, <1>2, <2>2 DEF WatchInv, Covered, Rested
<1>3. CASE W!Cancelled
  <2>1. /\ noticed' = <<>> /\ DOMAIN waiting' = {} /\ UNCHANGED <<idle, handle, stopping>> /\ watcher' = "ended"
    BY <1>3 DEF W!Cancelled, W!user
  <2>2. W!TypeOK'
    BY <1>1, <2>1 DEF WatchInv, W!TypeOK
  <2>3. \A f \in Files : Times(noticed, f) \in Nat
    BY TimesCounts DEF WatchInv, W!TypeOK
  <2>4. \A f \in Files : Covered(f)'
    <3> SUFFICES ASSUME NEW f \in Files PROVE Covered(f)'
      OBVIOUS
    <3>1. Times(noticed', f) = 0
      BY <2>1, TimesEmpty
    <3>2. spawned[f] \in Nat /\ seen[f] \in Nat /\ Covered(f) /\ Times(noticed, f) \in Nat
      BY <2>3 DEF WatchInv
    <3>3. spawned[f] <= seen[f]
      BY <3>2 DEF Covered
    <3> QED
      BY <1>1, <2>1, <3>1, <3>2, <3>3 DEF Covered
  <2>5. Rested'
    BY <2>1 DEF Rested
  <2> QED
    BY <1>1, <2>1, <2>2, <2>4, <2>5 DEF WatchInv
<1>4. CASE W!StartWatch \/ W!StopWatch \/ W!Install
  <2>1. UNCHANGED <<noticed, waiting>> /\ (watcher' # "on" => watcher # "on")
    BY <1>4 DEF W!StartWatch, W!StopWatch, W!Install, W!loop
  <2> QED
    BY <1>2, <2>1
<1> QED
  BY <1>3, <1>4

(* A write reported is a path more and a rest begun.                       *)
LEMMA WatchWrite == ASSUME WatchInv, NEW f \in Files, W!Write(f) PROVE WatchInv'
<1>1. /\ version \in [Files -> Nat] /\ calm \in [Files -> Nat] /\ seen \in [Files -> Nat] /\ noticed \in Seq(Files)
      /\ spawned \in [Files -> Nat] /\ begun \in [Files -> Nat] /\ read \in [Files -> Nat]
  BY DEF WatchInv, W!TypeOK
<1>2. /\ version[f] < MaxWrites /\ UNCHANGED <<watcher, waiting, idle, handle, stopping, spawned, begun, read>>
      /\ version' = [version EXCEPT ![f] = version[f] + 1] /\ calm' = [calm EXCEPT ![f] = 0]
      /\ IF watcher = "on" THEN noticed' = Append(noticed, f) /\ seen' = [seen EXCEPT ![f] = seen[f] + 1]
                           ELSE UNCHANGED <<noticed, seen>>
  BY DEF W!Write, W!user, W!jobs
<1>3. /\ version' \in [Files -> Nat] /\ calm' \in [Files -> Nat]
      /\ version'[f] = version[f] + 1 /\ calm'[f] = 0
      /\ \A g \in Files : g # f => version'[g] = version[g] /\ calm'[g] = calm[g]
  BY SMTT(20), <1>1, <1>2
<1>4. /\ seen' \in [Files -> Nat] /\ seen'[f] = IF watcher = "on" THEN seen[f] + 1 ELSE seen[f]
      /\ \A g \in Files : g # f => seen'[g] = seen[g]
  <2>1. CASE watcher = "on"
    <3>1. seen' = [seen EXCEPT ![f] = seen[f] + 1]
      BY <1>2, <2>1
    <3> QED
      BY <1>1, <2>1, <3>1
  <2>2. CASE watcher # "on"
    BY <1>1, <1>2, <2>2
  <2> QED
    BY <2>1, <2>2
<1>5. watcher = "on" =>
        /\ noticed' \in Seq(Files)
        /\ DOMAIN noticed' = DOMAIN noticed \union {Len(noticed) + 1} /\ noticed'[Len(noticed) + 1] = f
        /\ \A i \in DOMAIN noticed : noticed'[i] = noticed[i]
        /\ \A g : Times(noticed', g) = Times(noticed, g) + (IF f = g THEN 1 ELSE 0)
  <2> SUFFICES ASSUME watcher = "on"
               PROVE  /\ noticed' \in Seq(Files)
                      /\ DOMAIN noticed' = DOMAIN noticed \union {Len(noticed) + 1} /\ noticed'[Len(noticed) + 1] = f
                      /\ \A i \in DOMAIN noticed : noticed'[i] = noticed[i]
                      /\ \A g : Times(noticed', g) = Times(noticed, g) + (IF f = g THEN 1 ELSE 0)
    OBVIOUS
  <2> DEFINE t == Append(noticed, f)
  <2>1. noticed' = t
    BY <1>2
  <2>2. /\ t \in Seq(Files)
        /\ DOMAIN t = DOMAIN noticed \union {Len(noticed) + 1} /\ t[Len(noticed) + 1] = f
        /\ \A i \in DOMAIN noticed : t[i] = noticed[i]
    BY <1>1, Appended
  <2>3. \A g : Times(t, g) = Times(noticed, g) + (IF f = g THEN 1 ELSE 0)
    BY <1>1, TimesAppend
  <2> HIDE DEF t
  <2> QED
    BY <2>1, <2>2, <2>3
<1>6. W!TypeOK'
  <2>1. \A g \in Files : /\ version[g] \in 0 .. MaxWrites /\ calm[g] \in 0 .. Debounce
                         /\ seen[g] <= version[g] /\ read[g] <= version[g] /\ begun[g] <= spawned[g]
                         /\ version[g] \in Nat /\ seen[g] \in Nat /\ read[g] \in Nat
    BY <1>1 DEF WatchInv, W!TypeOK
  <2>2. version'[f] \in 0 .. MaxWrites /\ calm'[f] \in 0 .. Debounce /\ seen'[f] <= version'[f] /\ read[f] <= version'[f]
    BY <1>2, <1>3, <1>4, <2>1, WatchBounds
  <2>3. \A g \in Files : /\ version'[g] \in 0 .. MaxWrites /\ calm'[g] \in 0 .. Debounce
                         /\ seen'[g] <= version'[g] /\ read[g] <= version'[g]
    BY <1>3, <1>4, <2>1, <2>2
  <2>4. noticed' \in Seq(Files)
    BY <1>1, <1>2, <1>5
  <2> QED
    BY <1>2, <2>3, <2>4 DEF WatchInv, W!TypeOK
<1>7. ASSUME NEW g \in Files PROVE Covered(g)'
  <2>1. Times(noticed, g) \in Nat /\ Covered(g) /\ spawned[g] \in Nat /\ seen[g] \in Nat
    BY <1>1, TimesCounts DEF WatchInv
  <2>2. CASE watcher = "on"
    BY SMTT(20), <1>2, <1>4, <1>5, <2>1, <2>2 DEF Covered
  <2>3. CASE watcher # "on"
    BY <1>2, <2>1, <2>3 DEF Covered
  <2> QED
    BY <2>2, <2>3
<1>8. Rested'
  <2>1. DOMAIN waiting \subseteq Files
    BY WatchBounds DEF WatchInv, W!TypeOK
  <2>2. CASE watcher = "on"
    <3> SUFFICES ASSUME NEW g \in DOMAIN waiting
                 PROVE  calm'[g] >= waiting[g] \/ \E i \in DOMAIN noticed' : noticed'[i] = g
      BY <1>2 DEF Rested
    <3>1. CASE g = f
      BY <1>5, <2>2, <3>1
    <3>2. CASE g # f
      <4>1. calm'[g] = calm[g]
        BY <1>3, <2>1, <3>2
      <4>2. calm[g] >= waiting[g] \/ \E i \in DOMAIN noticed : noticed[i] = g
        BY DEF WatchInv, Rested
      <4> QED
        BY <1>5, <2>2, <4>1, <4>2
    <3> QED
      BY <3>1, <3>2
  <2>3. CASE watcher # "on"
    BY <1>2, <2>3 DEF WatchInv, Rested
  <2> QED
    BY <2>2, <2>3
<1> QED
  BY <1>1, <1>2, <1>3, <1>4, <1>6, <1>7, <1>8 DEF WatchInv

(* A path received waits, or is none the pattern matches.                  *)
LEMMA WatchReceive == ASSUME WatchInv, W!Receive PROVE WatchInv'
<1> DEFINE e == Head(noticed)
           t == Tail(noticed)
<1>1. /\ version \in [Files -> Nat] /\ calm \in [Files -> Nat] /\ seen \in [Files -> Nat] /\ noticed \in Seq(Files)
      /\ spawned \in [Files -> Nat] /\ begun \in [Files -> Nat] /\ read \in [Files -> Nat]
      /\ DOMAIN waiting \subseteq Matching /\ \A f \in DOMAIN waiting : waiting[f] \in 0 .. Debounce
  BY DEF WatchInv, W!TypeOK
<1>2. /\ watcher = "on" /\ noticed # <<>> /\ noticed' = t /\ idle' = 0
      /\ waiting' = IF e \in Matching THEN W!With(e, 0) ELSE waiting
      /\ UNCHANGED <<watcher, handle, stopping, version, calm, seen, spawned, begun, read>>
  BY DEF W!Receive, W!user, W!disk, W!jobs
<1>3. /\ t \in Seq(Files) /\ e \in Files /\ e = noticed[1] /\ DOMAIN noticed = 1 .. Len(noticed)
      /\ Len(noticed) \in Nat \ {0} /\ DOMAIN t = 1 .. Len(noticed) - 1
      /\ \A i \in 1 .. Len(noticed) - 1 : t[i] = noticed[i + 1]
  BY <1>1, <1>2
<1>4. \A f : Times(noticed, f) = Times(t, f) + (IF e = f THEN 1 ELSE 0)
  BY <1>1, <1>2, TimesTail
<1>5. \A f : Times(noticed, f) \in Nat /\ Times(t, f) \in Nat
  BY <1>1, <1>3, TimesCounts
<1> HIDE DEF e, t
<1>6. /\ DOMAIN waiting' = IF e \in Matching THEN DOMAIN waiting \union {e} ELSE DOMAIN waiting
      /\ \A f \in DOMAIN waiting' :
           IF f = e /\ e \in Matching THEN waiting'[f] = 0 ELSE f \in DOMAIN waiting /\ waiting'[f] = waiting[f]
  BY <1>2 DEF W!With
<1>7. W!TypeOK'
  <2>1. idle' \in 0 .. Interval
    BY <1>2, WatchBounds
  <2>2. DOMAIN waiting' \subseteq Matching /\ \A f \in DOMAIN waiting' : waiting'[f] \in 0 .. Debounce
    BY <1>1, <1>6, WatchBounds
  <2> QED
    BY <1>2, <1>3, <2>1, <2>2 DEF WatchInv, W!TypeOK
<1>8. ASSUME NEW f \in Files PROVE Covered(f)'
  <2>1. Covered(f) /\ spawned[f] \in Nat /\ seen[f] \in Nat
    BY <1>1 DEF WatchInv
  <2>2. f \in DOMAIN waiting' => f \in DOMAIN waiting \/ f = e
    BY <1>6
  <2> QED
    BY <1>2, <1>4, <1>5, <2>1, <2>2 DEF Covered
<1>9. Rested'
  <2> SUFFICES ASSUME NEW f \in DOMAIN waiting'
               PROVE  calm[f] >= waiting'[f] \/ \E i \in DOMAIN t : t[i] = f
    BY <1>2 DEF Rested
  <2>1. CASE f = e /\ e \in Matching
    BY <1>1, <1>3, <1>6, <2>1
  <2>2. CASE ~(f = e /\ e \in Matching)
    <3>1. f \in DOMAIN waiting /\ waiting'[f] = waiting[f] /\ f # e
      BY <1>1, <1>6, <2>2
    <3>2. ASSUME NEW i \in DOMAIN noticed, noticed[i] = f PROVE \E j \in DOMAIN t : t[j] = f
      <4>1. i # 1 /\ i - 1 \in DOMAIN t /\ t[i - 1] = noticed[i]
        BY <1>3, <3>1, <3>2
      <4> QED
        BY <3>2, <4>1
    <3> QED
      BY <3>1, <3>2 DEF WatchInv, Rested
  <2> QED
    BY <2>1, <2>2
<1> QED
  BY <1>1, <1>2, <1>7, <1>8, <1>9 DEF WatchInv

(* What has waited long enough is started, and waits no more.              *)
LEMMA WatchPoll == ASSUME WatchInv, W!Poll PROVE WatchInv'
<1>1. /\ spawned \in [Files -> Nat] /\ begun \in [Files -> Nat]
      /\ DOMAIN waiting \subseteq Matching /\ \A f \in DOMAIN waiting : waiting[f] \in 0 .. Debounce
  BY DEF WatchInv, W!TypeOK
<1>2. /\ watcher = "on" /\ idle' = 0
      /\ spawned' = [f \in Files |-> IF f \in W!Ready THEN spawned[f] + 1 ELSE spawned[f]]
      /\ DOMAIN waiting' = DOMAIN waiting \ W!Ready /\ \A f \in DOMAIN waiting' : waiting'[f] = waiting[f]
      /\ W!Ready \subseteq DOMAIN waiting
      /\ UNCHANGED <<watcher, noticed, handle, stopping, version, calm, seen, begun, read>>
  BY DEF W!Poll, W!Spawn, W!Restrict, W!Ready, W!user, W!disk
<1>3. spawned' \in [Files -> Nat] /\ \A f \in Files : spawned'[f] = IF f \in W!Ready THEN spawned[f] + 1 ELSE spawned[f]
  BY <1>1, <1>2
<1>4. W!TypeOK'
  <2>1. idle' \in 0 .. Interval
    BY <1>2, WatchBounds
  <2>2. ASSUME NEW f \in Files PROVE begun[f] <= spawned'[f]
    <3>1. begun[f] \in Nat /\ spawned[f] \in Nat /\ begun[f] <= spawned[f]
      BY <1>1 DEF WatchInv, W!TypeOK
    <3> QED
      BY <1>3, <3>1
  <2> QED
    BY <1>1, <1>2, <2>1, <2>2 DEF WatchInv, W!TypeOK
<1>5. \A f \in Files : Covered(f)'
  BY <1>1, <1>2, <1>3 DEF WatchInv, Covered
<1>6. Rested'
  BY <1>2 DEF WatchInv, Rested
<1> QED
  BY <1>2, <1>3, <1>4, <1>5, <1>6 DEF WatchInv

LEMMA WatchIngest == ASSUME WatchInv, NEW f \in Files, W!Ingest(f) PROVE WatchInv'
<1>1. /\ spawned \in [Files -> Nat] /\ begun \in [Files -> Nat] /\ read \in [Files -> Nat] /\ version \in [Files -> Nat]
      /\ begun[f] < spawned[f] /\ begun' = [begun EXCEPT ![f] = begun[f] + 1] /\ read' = [read EXCEPT ![f] = version[f]]
      /\ UNCHANGED <<watcher, noticed, waiting, idle, handle, stopping, version, calm, seen, spawned>>
  BY DEF WatchInv, W!Ingest, W!loop, W!user, W!disk
<1>2. /\ begun' \in [Files -> Nat] /\ read' \in [Files -> Nat] /\ begun'[f] <= spawned[f] /\ read'[f] = version[f]
      /\ \A g \in Files : g # f => begun'[g] = begun[g] /\ read'[g] = read[g]
  BY <1>1
<1>3. \A g \in Files : read'[g] <= version[g] /\ begun'[g] <= spawned[g]
  BY <1>1, <1>2 DEF WatchInv, W!TypeOK
<1>4. W!TypeOK'
  BY <1>1, <1>3 DEF WatchInv, W!TypeOK
<1> QED
  BY <1>1, <1>2, <1>4 DEF WatchInv, Covered, Rested

(* Time passes for what waits and for the files alike.                     *)
LEMMA WatchPass == ASSUME WatchInv, W!Pass PROVE WatchInv'
<1>1. /\ calm \in [Files -> Nat] /\ \A f \in Files : calm[f] \in 0 .. Debounce
      /\ DOMAIN waiting \subseteq Matching /\ \A f \in DOMAIN waiting : waiting[f] \in 0 .. Debounce
      /\ idle \in 0 .. Interval
  BY DEF WatchInv, W!TypeOK
<1>2. /\ idle' = W!Older(idle, Interval) /\ DOMAIN waiting' = DOMAIN waiting
      /\ \A f \in DOMAIN waiting : waiting'[f] = W!Older(waiting[f], Debounce)
      /\ calm' = [f \in Files |-> W!Older(calm[f], Debounce)]
      /\ UNCHANGED <<watcher, noticed, handle, stopping, version, seen, spawned, begun, read>>
  BY DEF W!Pass, W!user, W!jobs
<1>3. \A m \in Nat : \A n \in 0 .. m : W!Older(n, m) \in 0 .. m
  BY DEF W!Older
<1>4. \A m \in Nat : \A j, k \in 0 .. m : j >= k => W!Older(j, m) >= W!Older(k, m)
  BY DEF W!Older
<1>5. calm' \in [Files -> Nat] /\ \A f \in Files : calm'[f] \in 0 .. Debounce /\ calm'[f] = W!Older(calm[f], Debounce)
  <2>1. \A f \in Files : W!Older(calm[f], Debounce) \in 0 .. Debounce
    BY <1>1, <1>3, WatchBounds
  <2> QED
    BY <1>2, <2>1, WatchBounds
<1>6. W!TypeOK'
  <2>1. idle' \in 0 .. Interval /\ \A f \in DOMAIN waiting' : waiting'[f] \in 0 .. Debounce
    BY <1>1, <1>2, <1>3, WatchBounds
  <2> QED
    BY <1>1, <1>2, <1>5, <2>1 DEF WatchInv, W!TypeOK
<1>7. Rested'
  <2> SUFFICES ASSUME NEW f \in DOMAIN waiting
               PROVE  calm'[f] >= waiting'[f] \/ \E i \in DOMAIN noticed : noticed[i] = f
    BY <1>2 DEF Rested
  <2>1. f \in Files
    BY <1>1, WatchBounds
  <2>2. CASE calm[f] >= waiting[f]
    BY <1>1, <1>2, <1>4, <1>5, <2>1, <2>2, WatchBounds
  <2> QED
    BY <2>2 DEF WatchInv, Rested
<1> QED
  BY <1>2, <1>5, <1>6, <1>7 DEF WatchInv, Covered

(* One write, one ingestion at most, and of a file nobody has written to   *)
(* for the debounce time, unless the loop has yet to hear of a write.      *)
THEOREM IngestionsAreJustified == ServicesSpec => IngestsJustified
<1> DEFINE Quiet(f) == calm[f] = Debounce \/ \E i \in DOMAIN noticed : noticed[i] = f
<1>1. Start => WatchInv
  BY WatchStart
<1>2. WatchInv /\ [W!Next]_(W!vars) => WatchInv'
  <2> SUFFICES ASSUME WatchInv, [W!Next]_(W!vars) PROVE WatchInv'
    OBVIOUS
  <2>1. CASE UNCHANGED W!vars
    BY <2>1 DEF W!vars, W!loop, W!user, W!disk, W!jobs, WatchInv, W!TypeOK, Covered, Rested
  <2>2. CASE W!Next
    BY <2>2, WatchUser, WatchWrite, WatchReceive, WatchPoll, WatchIngest, WatchPass DEF W!Next
  <2> QED
    BY <2>1, <2>2
<1>3. WatchInv /\ [W!Next]_(W!vars) => \A f \in Files : spawned'[f] > spawned[f] => Quiet(f)
  <2> SUFFICES ASSUME WatchInv, [W!Next]_(W!vars), NEW f \in Files, spawned'[f] > spawned[f] PROVE Quiet(f)
    OBVIOUS
  <2>1. /\ spawned \in [Files -> Nat] /\ calm[f] \in 0 .. Debounce
        /\ \A g \in DOMAIN waiting : calm[g] >= waiting[g] \/ \E i \in DOMAIN noticed : noticed[i] = g
    BY DEF WatchInv, W!TypeOK, Rested
  <2>2. spawned' # spawned
    BY <2>1
  <2>3. W!Poll
    BY <2>2 DEF W!Next, W!vars, W!loop, W!user, W!disk, W!jobs, W!StartWatch, W!StopWatch, W!Install,
       W!Receive, W!Cancelled, W!Pass, W!Write, W!Ingest
  <2>4. f \in W!Ready
    BY <2>1, <2>3 DEF W!Poll, W!Spawn
  <2> QED
    BY <2>1, <2>4, WatchBounds DEF W!Ready
<1>4. [Move]_all => [W!Next]_(W!vars)
  BY WatchMoves
<1>5. WatchInv => W!TypeOK /\ W!WritesCoverIngests
  <2>1. \A f : Times(noticed, f) = Cardinality(W!Reported(f))
    BY DEF Times, W!Reported
  <2>2. WatchInv => W!TypeOK /\ \A f \in Files : Covered(f)
    BY DEF WatchInv
  <2>3. ASSUME NEW f \in Files, Covered(f)
        PROVE  spawned[f] + (IF f \in DOMAIN waiting THEN 1 ELSE 0) + Cardinality(W!Reported(f)) <= seen[f]
    <3>1. spawned[f] + (IF f \in DOMAIN waiting THEN 1 ELSE 0) + Times(noticed, f) <= seen[f]
      BY <2>3 DEF Covered
    <3> QED
      BY ONLY <2>1, <3>1
  <2>4. \A T : W!Cardinality(T) = Cardinality(T)
    BY DEF W!Cardinality, Cardinality
  <2>5. (\A f \in Files : Covered(f)) => W!WritesCoverIngests
    BY <2>3, <2>4 DEF W!WritesCoverIngests
  <2> QED
    BY <2>2, <2>5
<1> QED
  BY <1>1, <1>2, <1>3, <1>4, <1>5, PTL DEF ServicesSpec, IngestsJustified, W!IngestsJustified, W!OnlyQuietFiles

-----------------------------------------------------------------------------
(* Tenants.  A window lasts a second, so that what is left of the windows  *)
(* before, while the limit stays, is of one window; and the requests of a  *)
(* window have different places in it.                                     *)
Admissions == [ago : 0 .. Second - 1, nth : 1 .. MaxRate, past : BOOLEAN]
Apart(s)   == \A q \in s : \A r \in s : q.past = r.past /\ q.nth = r.nth => q = r

InStep(lim, cnt, old, len, rec) ==
  /\ lim > 0 => cnt <= lim /\ (len > 0 => old + len = Second)
  /\ \A r \in rec : IF r.past THEN r.ago >= old ELSE r.ago <= old /\ r.nth <= cnt
  /\ Apart({r \in rec : ~r.past})
  /\ lim > 0 /\ len = 0 => Apart(rec) /\ \A r \in rec : r.nth <= lim
  /\ old < Second => \A n \in 1 .. cnt : \E r \in rec : ~r.past /\ r.nth = n

LimitOf(t) == IF t \in DOMAIN limit THEN limit[t] ELSE 0
HadItsShare ==
  verdict # <<>> /\ ~verdict[2] /\ verdict[1] \in DOMAIN limit =>
    Cardinality(recent[verdict[1]]) >= limit[verdict[1]]
RateInv ==
  /\ DOMAIN limit \subseteq Tenants /\ \A t \in DOMAIN limit : limit[t] \in 1 .. MaxRate
  /\ count \in [Tenants -> 0 .. MaxRate] /\ recent \in [Tenants -> SUBSET Admissions]
  /\ age \in [Tenants -> 0 .. Second] /\ lenient \in [Tenants -> 0 .. Second]
  /\ \A t \in Tenants : InStep(LimitOf(t), count[t], age[t], lenient[t], recent[t])
  /\ verdict = <<>> \/ verdict \in Tenants \X BOOLEAN
  /\ HadItsShare

LEMMA LimitsBounds ==
  /\ Second \in Nat /\ Second > 0 /\ MaxRate \in Nat /\ MaxRate > 0
  /\ MaxEntries \in Nat /\ IsFiniteSet(Tasks) /\ Tasks # {}
<1>1. L!LimitsAssumption
  BY ServicesAssumption
<1>2. \A T : L!IsFiniteSet(T) = IsFiniteSet(T)
  BY DEF L!IsFiniteSet, IsFiniteSet
<1> QED
  BY <1>1, <1>2 DEF L!LimitsAssumption

LEMMA PassKeeps ==
  ASSUME NEW lim \in 0 .. MaxRate, NEW cnt \in 0 .. MaxRate, NEW old \in 0 .. Second, NEW len \in 0 .. Second,
         NEW rec \in SUBSET Admissions, InStep(lim, cnt, old, len, rec)
  PROVE  /\ L!Older(rec) \subseteq Admissions
         /\ InStep(lim, cnt, IF old < Second THEN old + 1 ELSE Second, IF len = 0 THEN 0 ELSE len - 1, L!Older(rec))
<1> DEFINE now == IF old < Second THEN old + 1 ELSE Second
           left == IF len = 0 THEN 0 ELSE len - 1
<1>1. \A r \in L!Older(rec) : \E q \in rec : q.ago + 1 < Second /\ r = [q EXCEPT !.ago = @ + 1]
  BY DEF L!Older
<1>2. \A q \in rec : q.ago \in Nat /\ q.ago < Second /\ q.nth \in 1 .. MaxRate /\ q.past \in BOOLEAN
               /\ q = [ago |-> q.ago, nth |-> q.nth, past |-> q.past]
  BY LimitsBounds DEF Admissions
<1>3. \A r \in L!Older(rec) : \E q \in rec : q.ago + 1 < Second /\ r = [ago |-> q.ago + 1, nth |-> q.nth, past |-> q.past]
  <2> SUFFICES ASSUME NEW r \in L!Older(rec)
               PROVE  \E q \in rec : q.ago + 1 < Second /\ r = [ago |-> q.ago + 1, nth |-> q.nth, past |-> q.past]
    OBVIOUS
  <2>1. PICK q \in rec : q.ago + 1 < Second /\ r = [q EXCEPT !.ago = @ + 1]
    BY <1>1
  <2>2. r = [ago |-> q.ago + 1, nth |-> q.nth, past |-> q.past]
    BY <2>1, <1>2
  <2> QED
    BY <2>1, <2>2
<1>4. \A q \in rec : q.ago + 1 < Second => [ago |-> q.ago + 1, nth |-> q.nth, past |-> q.past] \in L!Older(rec)
  <2>1. \A q \in rec : [q EXCEPT !.ago = @ + 1] = [ago |-> q.ago + 1, nth |-> q.nth, past |-> q.past]
    BY <1>2
  <2> QED
    BY <2>1 DEF L!Older
<1>5. L!Older(rec) \subseteq Admissions
  BY <1>2, <1>3, LimitsBounds DEF Admissions
<1>6. \A r \in L!Older(rec) : IF r.past THEN r.ago >= now ELSE r.ago <= now /\ r.nth <= cnt
  <2> SUFFICES ASSUME NEW r \in L!Older(rec) PROVE IF r.past THEN r.ago >= now ELSE r.ago <= now /\ r.nth <= cnt
    OBVIOUS
  <2>1. PICK q \in rec : q.ago + 1 < Second /\ r = [ago |-> q.ago + 1, nth |-> q.nth, past |-> q.past]
    BY <1>3
  <2>2. IF q.past THEN q.ago >= old ELSE q.ago <= old /\ q.nth <= cnt
    BY DEF InStep
  <2> QED
    BY <2>1, <2>2, <1>2, LimitsBounds
<1>7. ASSUME NEW s \in SUBSET rec, Apart(s) PROVE Apart(L!Older(s))
  <2> SUFFICES ASSUME NEW r1 \in L!Older(s), NEW r2 \in L!Older(s), r1.past = r2.past, r1.nth = r2.nth PROVE r1 = r2
    BY DEF Apart
  <2>1. PICK q1 \in s : r1 = [q1 EXCEPT !.ago = @ + 1]
    BY DEF L!Older
  <2>2. PICK q2 \in s : r2 = [q2 EXCEPT !.ago = @ + 1]
    BY DEF L!Older
  <2>3. q1.past = q2.past /\ q1.nth = q2.nth
    BY <2>1, <2>2, <1>2
  <2> QED
    BY <1>7, <2>1, <2>2, <2>3 DEF Apart
<1>8. {r \in L!Older(rec) : ~r.past} = L!Older({r \in rec : ~r.past})
  <2>1. \A q \in rec : [q EXCEPT !.ago = @ + 1].past = q.past
    BY <1>2
  <2> QED
    BY <2>1 DEF L!Older
<1>9. Apart({r \in L!Older(rec) : ~r.past})
  <2>1. Apart({r \in rec : ~r.past})
    BY DEF InStep
  <2> QED
    BY <1>7, <1>8, <2>1
<1>10. lim > 0 /\ left = 0 => Apart(L!Older(rec)) /\ \A r \in L!Older(rec) : r.nth <= lim
  <2>1. CASE len = 0 /\ lim > 0
    <3>1. Apart(rec) /\ \A r \in rec : r.nth <= lim
      BY <2>1 DEF InStep
    <3> QED
      BY <3>1, <1>3, <1>7
  <2>2. CASE len # 0 /\ lim > 0 /\ left = 0
    <3>1. len = 1 /\ old + 1 = Second /\ cnt <= lim
      BY <2>2, LimitsBounds DEF InStep
    <3>2. \A q \in rec : q.ago + 1 < Second => ~q.past /\ q.nth <= cnt
      BY <3>1, <1>2, LimitsBounds DEF InStep
    <3>3. \A r \in L!Older(rec) : ~r.past /\ r.nth <= lim
      BY <3>1, <3>2, <1>2, <1>3
    <3>4. {r \in L!Older(rec) : ~r.past} = L!Older(rec)
      BY <3>3
    <3> QED
      BY <1>9, <3>3, <3>4
  <2> QED
    BY <2>1, <2>2
<1>11. now < Second => \A n \in 1 .. cnt : \E r \in L!Older(rec) : ~r.past /\ r.nth = n
  <2> SUFFICES ASSUME now < Second, NEW n \in 1 .. cnt PROVE \E r \in L!Older(rec) : ~r.past /\ r.nth = n
    OBVIOUS
  <2>1. old + 1 < Second
    BY LimitsBounds
  <2>2. PICK q \in rec : ~q.past /\ q.nth = n /\ q.ago <= old
    BY <2>1, LimitsBounds DEF InStep
  <2>3. q.ago + 1 < Second
    BY <1>2, <2>1, <2>2, LimitsBounds
  <2> QED
    BY <1>4, <2>2, <2>3
<1>12. lim > 0 => cnt <= lim /\ (left > 0 => now + left = Second)
  BY LimitsBounds DEF InStep
<1> HIDE DEF now, left
<1>13. InStep(lim, cnt, now, left, L!Older(rec))
  BY <1>6, <1>9, <1>10, <1>11, <1>12 DEF InStep
<1> QED
  BY <1>5, <1>13 DEF now, left

LEMMA OverKeeps ==
  ASSUME NEW rec \in SUBSET Admissions
  PROVE  /\ L!WindowOver(rec) \subseteq Admissions /\ \A r \in L!WindowOver(rec) : r.past
         /\ \A r \in L!WindowOver(rec) : \E q \in rec : q.nth = r.nth /\ q.ago = r.ago
         /\ (\A q \in rec : ~q.past) /\ Apart(rec) => Apart(L!WindowOver(rec))
<1>1. \A q \in rec : q.ago \in 0 .. Second - 1 /\ q.nth \in 1 .. MaxRate
  BY DEF Admissions
<1>2. \A r \in L!WindowOver(rec) : \E q \in rec : r = [ago |-> q.ago, nth |-> q.nth, past |-> TRUE]
  BY DEF L!WindowOver
<1>3. L!WindowOver(rec) \subseteq Admissions /\ \A r \in L!WindowOver(rec) : r.past
  <2> SUFFICES ASSUME NEW r \in L!WindowOver(rec) PROVE r \in Admissions /\ r.past
    OBVIOUS
  <2>1. PICK q \in rec : r = [ago |-> q.ago, nth |-> q.nth, past |-> TRUE]
    BY <1>2
  <2> QED
    BY <1>1, <2>1 DEF Admissions
<1>4. \A r \in L!WindowOver(rec) : \E q \in rec : q.nth = r.nth /\ q.ago = r.ago
  BY <1>2
<1>5. ASSUME \A q \in rec : ~q.past, Apart(rec), NEW r1 \in L!WindowOver(rec), NEW r2 \in L!WindowOver(rec), r1.nth = r2.nth
      PROVE  r1 = r2
  <2>1. PICK q1 \in rec : r1 = [ago |-> q1.ago, nth |-> q1.nth, past |-> TRUE]
    BY <1>2
  <2>2. PICK q2 \in rec : r2 = [ago |-> q2.ago, nth |-> q2.nth, past |-> TRUE]
    BY <1>2
  <2>3. q1.past \in BOOLEAN /\ q2.past \in BOOLEAN
    BY DEF Admissions
  <2>4. q1 = q2
    BY <1>5, <2>1, <2>2, <2>3 DEF Apart
  <2> QED
    BY <2>1, <2>2, <2>4
<1> QED
  BY <1>3, <1>4, <1>5 DEF Apart

(* What is left of two windows of different requests each is no more than  *)
(* twice the limit; a window that still runs has all of its requests.      *)
LEMMA AdmissionsFinite == ASSUME NEW rec \in SUBSET Admissions PROVE IsFiniteSet(rec)
<1> DEFINE T == ((0 .. Second - 1) \X (1 .. MaxRate)) \X BOOLEAN
           f == [r \in Admissions |-> <<<<r.ago, r.nth>>, r.past>>]
<1>1. IsFiniteSet(0 .. Second - 1) /\ IsFiniteSet(1 .. MaxRate)
  BY LimitsBounds, FS_Interval
<1>2. IsFiniteSet(BOOLEAN)
  <2>1. BOOLEAN = {TRUE} \union {FALSE}
    OBVIOUS
  <2>2. IsFiniteSet({TRUE}) /\ IsFiniteSet({FALSE})
    BY FS_Singleton
  <2>3. IsFiniteSet({TRUE} \union {FALSE})
    BY <2>2, FS_Union
  <2> QED
    BY <2>1, <2>3
<1>3. IsFiniteSet(T)
  BY <1>1, <1>2, FS_Product
<1>4. f \in Injection(Admissions, T)
  <2>1. \A r \in Admissions : f[r] = <<<<r.ago, r.nth>>, r.past>> /\ f[r] \in T
                              /\ r = [ago |-> r.ago, nth |-> r.nth, past |-> r.past]
    BY DEF Admissions
  <2>2. f \in [Admissions -> T]
    BY <2>1
  <2>3. ASSUME NEW q \in Admissions, NEW r \in Admissions, f[q] = f[r] PROVE q = r
    <3>1. q.ago = r.ago /\ q.nth = r.nth /\ q.past = r.past
      BY <2>1, <2>3
    <3> QED
      BY <2>1, <3>1
  <2> HIDE DEF f, T
  <2> QED
    BY <2>2, <2>3 DEF Injection, IsInjective
<1>5. IsFiniteSet(Admissions)
  <2> HIDE DEF f, T
  <2> QED
    BY <1>3, <1>4, FS_Injection
<1> QED
  BY <1>5, FS_Subset

LEMMA AtMostTwice ==
  ASSUME NEW lim \in Nat, NEW rec \in SUBSET Admissions, Apart(rec), \A r \in rec : r.nth <= lim
  PROVE  Cardinality(rec) <= 2 * lim
<1>1. ASSUME NEW s \in SUBSET rec, NEW e, \A r \in s : r.past = e
      PROVE  IsFiniteSet(s) /\ Cardinality(s) <= lim
  <2> DEFINE f == [r \in s |-> r.nth]
  <2>1. f \in [s -> 1 .. lim]
    BY LimitsBounds DEF Admissions
  <2>2. \A q \in s : \A r \in s : f[q] = f[r] => q = r
    BY <1>1 DEF Apart
  <2>3. f \in Injection(s, 1 .. lim)
    <3> HIDE DEF f
    <3> QED
      BY <2>1, <2>2 DEF Injection, IsInjective
  <2>4. IsFiniteSet(1 .. lim) /\ Cardinality(1 .. lim) = lim
    BY FS_Interval
  <2> HIDE DEF f
  <2> QED
    BY <2>3, <2>4, FS_Injection
<1> DEFINE old == {r \in rec : r.past}
           new == {r \in rec : ~r.past}
<1>2. IsFiniteSet(old) /\ Cardinality(old) <= lim /\ IsFiniteSet(new) /\ Cardinality(new) <= lim
  <2>1. \A r \in rec : r.past \in BOOLEAN
    BY DEF Admissions
  <2>2. (\A r \in old : r.past = TRUE) /\ (\A r \in new : r.past = FALSE)
    BY <2>1
  <2> QED
    BY <1>1, <2>2
<1>3. rec = old \union new
  OBVIOUS
<1>4. Cardinality(old) \in Nat /\ Cardinality(new) \in Nat
      /\ IsFiniteSet(old \intersect new) /\ Cardinality(old \intersect new) \in Nat
  <2> HIDE DEF old, new
  <2> QED
    BY <1>2, FS_CardinalityType, FS_Intersection
<1> HIDE DEF old, new
<1>5. Cardinality(old \union new) = Cardinality(old) + Cardinality(new) - Cardinality(old \intersect new)
  BY <1>2, FS_Union
<1> QED
  BY <1>2, <1>3, <1>4, <1>5

LEMMA AtLeast ==
  ASSUME NEW cnt \in Nat, NEW rec \in SUBSET Admissions, \A n \in 1 .. cnt : \E r \in rec : ~r.past /\ r.nth = n
  PROVE  Cardinality(rec) \in Nat /\ cnt <= Cardinality(rec)
<1> DEFINE f == [n \in 1 .. cnt |-> CHOOSE r \in rec : r.nth = n]
<1>1. \A n \in 1 .. cnt : f[n] \in rec /\ f[n].nth = n
  OBVIOUS
<1>2. f \in Injection(1 .. cnt, rec)
  <2>1. f \in [1 .. cnt -> rec]
    BY <1>1
  <2> HIDE DEF f
  <2> QED
    BY <1>1, <2>1 DEF Injection, IsInjective
<1>3. IsFiniteSet(rec) /\ Cardinality(1 .. cnt) = cnt
  BY AdmissionsFinite, FS_Interval
<1> HIDE DEF f
<1> QED
  BY <1>2, <1>3, FS_Injection, FS_CardinalityType

LEMMA SetKeeps ==
  ASSUME NEW lim \in 1 .. MaxRate, NEW rec \in SUBSET Admissions
  PROVE  InStep(lim, 0, 0, Second, L!WindowOver(rec))
<1>1. \A r \in L!WindowOver(rec) : r.past /\ r \in Admissions
  BY OverKeeps
<1>2. \A r \in L!WindowOver(rec) : r.past /\ r.ago >= 0
  BY <1>1, LimitsBounds DEF Admissions
<1>3. {r \in L!WindowOver(rec) : ~r.past} = {}
  BY <1>1
<1> QED
  BY <1>2, <1>3, LimitsBounds DEF InStep, Apart

LEMMA RemoveKeeps ==
  ASSUME NEW lim, NEW cnt, NEW old, NEW len, NEW rec, InStep(lim, cnt, old, len, rec)
  PROVE  InStep(0, cnt, old, Second, rec)
BY DEF InStep

(* A request that is let through has the next place in its window, or the  *)
(* first of a new one.                                                     *)
LEMMA RequestKeeps ==
  ASSUME NEW lim \in 1 .. MaxRate, NEW cnt \in 0 .. MaxRate, NEW old \in 0 .. Second, NEW len \in 0 .. Second,
         NEW rec \in SUBSET Admissions, InStep(lim, cnt, old, len, rec), old < Second
  PROVE  /\ cnt < lim => /\ InStep(lim, cnt + 1, old, len, {L!LetThrough(cnt + 1)} \union rec)
                         /\ L!LetThrough(cnt + 1) \in Admissions
         /\ ~(cnt < lim) => lim <= Cardinality(rec)
<1> DEFINE e == L!LetThrough(cnt + 1)
<1>1. e.ago = 0 /\ e.nth = cnt + 1 /\ ~e.past
  BY DEF L!LetThrough
<1>2. ASSUME cnt < lim PROVE e \in Admissions
  BY <1>2, LimitsBounds DEF L!LetThrough, Admissions
<1>3. ASSUME cnt < lim PROVE InStep(lim, cnt + 1, old, len, {e} \union rec)
  <2> DEFINE now == {e} \union rec
  <2>1. \A r \in rec : r.past \in BOOLEAN /\ r.ago \in Nat /\ r.nth \in Nat
    BY LimitsBounds DEF Admissions
  <2>2. \A r \in rec : ~r.past => r.nth <= cnt /\ r.ago <= old
    BY DEF InStep
  <2>3. \A r \in now : IF r.past THEN r.ago >= old ELSE r.ago <= old /\ r.nth <= cnt + 1
    <3>1. \A r \in rec : IF r.past THEN r.ago >= old ELSE r.ago <= old /\ r.nth <= cnt + 1
      BY <2>1 DEF InStep
    <3> QED
      BY <3>1, <1>1
  <2>4. \A r \in rec : ~r.past => r.nth # e.nth
    BY <1>1, <2>1, <2>2
  <2>5. Apart({r \in now : ~r.past})
    <3>1. Apart({r \in rec : ~r.past})
      BY DEF InStep
    <3>2. \A r \in now : r = e \/ r \in rec
      OBVIOUS
    <3> HIDE DEF now, e
    <3> QED
      BY <3>1, <3>2, <2>4 DEF Apart
  <2>6. len = 0 => Apart(now) /\ \A r \in now : r.nth <= lim
    <3>1. len = 0 => Apart(rec) /\ \A r \in rec : r.nth <= lim
      BY LimitsBounds DEF InStep
    <3>2. e.nth <= lim
      BY <1>1, <1>3
    <3>3. \A r \in now : r = e \/ r \in rec
      OBVIOUS
    <3>4. \A r \in rec : r.past = e.past => ~r.past
      BY <1>1, <2>1
    <3> HIDE DEF now, e
    <3> QED
      BY <3>1, <3>2, <3>3, <3>4, <2>4 DEF Apart
  <2>7. \A n \in 1 .. (cnt + 1) : \E r \in now : ~r.past /\ r.nth = n
    <3> SUFFICES ASSUME NEW n \in 1 .. (cnt + 1) PROVE \E r \in now : ~r.past /\ r.nth = n
      OBVIOUS
    <3>1. CASE n = cnt + 1
      BY <3>1, <1>1
    <3>2. CASE n # cnt + 1
      <4>1. n \in 1 .. cnt
        BY <3>2
      <4>2. \E r \in rec : ~r.past /\ r.nth = n
        BY <4>1 DEF InStep
      <4> QED
        BY <4>2
    <3> QED
      BY <3>1, <3>2
  <2>8. len > 0 => old + len = Second
    BY LimitsBounds DEF InStep
  <2> HIDE DEF now, e
  <2>9. InStep(lim, cnt + 1, old, len, now)
    BY <1>3, <2>3, <2>5, <2>6, <2>7, <2>8, LimitsBounds DEF InStep
  <2> QED
    BY <2>9 DEF now
<1>4. ASSUME ~(cnt < lim) PROVE lim <= Cardinality(rec)
  <2>1. \A n \in 1 .. cnt : \E r \in rec : ~r.past /\ r.nth = n
    BY DEF InStep
  <2>2. cnt \in Nat /\ lim \in Nat /\ lim <= cnt
    BY <1>4, LimitsBounds
  <2>3. Cardinality(rec) \in Nat /\ cnt <= Cardinality(rec)
    BY <2>1, <2>2, AtLeast
  <2> QED
    BY <2>2, <2>3
<1> QED
  BY <1>2, <1>3, <1>4

LEMMA RenewKeeps ==
  ASSUME NEW lim \in 1 .. MaxRate, NEW cnt \in 0 .. MaxRate, NEW len \in 0 .. Second,
         NEW rec \in SUBSET Admissions, InStep(lim, cnt, Second, len, rec)
  PROVE  InStep(lim, 0, 0, len, L!WindowOver(rec))
<1>1. len = 0 /\ cnt <= lim
  BY LimitsBounds DEF InStep
<1>2. \A r \in rec : ~r.past /\ r.nth <= lim
  BY <1>1, LimitsBounds DEF InStep, Admissions
<1>3. Apart(rec)
  BY <1>1, LimitsBounds DEF InStep
<1>4. /\ \A r \in L!WindowOver(rec) : r.past /\ r \in Admissions /\ \E q \in rec : q.nth = r.nth
      /\ Apart(L!WindowOver(rec))
  BY <1>2, <1>3, OverKeeps
<1>5. \A r \in L!WindowOver(rec) : r.ago >= 0 /\ r.past /\ r.nth <= lim
  BY <1>2, <1>4, LimitsBounds DEF Admissions
<1>6. {r \in L!WindowOver(rec) : ~r.past} = {}
  BY <1>4
<1> QED
  BY <1>1, <1>4, <1>5, <1>6, LimitsBounds DEF InStep, Apart

LEMMA RatesStart == ASSUME Start PROVE RateInv
<1>0. L!Init
  BY DEF Start
<1>1. DOMAIN limit = {}
  BY <1>0 DEF L!Init
<1>2. \A t \in Tenants : InStep(LimitOf(t), count[t], age[t], lenient[t], recent[t])
  BY <1>0, <1>1, LimitsBounds DEF L!Init, LimitOf, InStep, Apart
<1> QED
  BY <1>0, <1>1, <1>2, LimitsBounds DEF L!Init, RateInv, HadItsShare

LEMMA PassStep == ASSUME RateInv, L!Pass PROVE RateInv'
<1>1. /\ limit' = limit /\ count' = count /\ verdict' = <<>>
      /\ age' = [t \in Tenants |-> IF age[t] < Second THEN age[t] + 1 ELSE Second]
      /\ lenient' = [t \in Tenants |-> IF lenient[t] = 0 THEN 0 ELSE lenient[t] - 1]
      /\ recent' = [t \in Tenants |-> L!Older(recent[t])]
  BY DEF L!Pass
<1>2. ASSUME NEW t \in Tenants
      PROVE  /\ recent'[t] \subseteq Admissions
             /\ InStep(LimitOf(t), count[t], age'[t], lenient'[t], recent'[t])
  <2>1. /\ LimitOf(t) \in 0 .. MaxRate /\ count[t] \in 0 .. MaxRate /\ age[t] \in 0 .. Second
        /\ lenient[t] \in 0 .. Second /\ recent[t] \in SUBSET Admissions
        /\ InStep(LimitOf(t), count[t], age[t], lenient[t], recent[t])
    BY LimitsBounds DEF RateInv, LimitOf
  <2> QED
    BY <1>1, <2>1, PassKeeps
<1>3. \A t : LimitOf(t)' = LimitOf(t)
  BY <1>1 DEF LimitOf
<1>4. age' \in [Tenants -> 0 .. Second] /\ lenient' \in [Tenants -> 0 .. Second]
  BY <1>1, LimitsBounds DEF RateInv
<1>5. recent' \in [Tenants -> SUBSET Admissions]
  BY <1>1, <1>2
<1> QED
  BY <1>1, <1>2, <1>3, <1>4, <1>5 DEF RateInv, HadItsShare

LEMMA SetStep == ASSUME RateInv, NEW t \in Tenants, NEW n \in 1 .. MaxRate, L!SetLimit(t, n) PROVE RateInv'
<1>1. /\ limit' = L!Put(limit, t, n) /\ count' = [count EXCEPT ![t] = 0] /\ age' = [age EXCEPT ![t] = 0]
      /\ lenient' = [lenient EXCEPT ![t] = Second] /\ recent' = [recent EXCEPT ![t] = L!WindowOver(recent[t])]
      /\ verdict' = <<>>
  BY DEF L!SetLimit
<1>2. /\ DOMAIN limit' = DOMAIN limit \union {t} /\ limit'[t] = n
      /\ \A d \in DOMAIN limit : d # t => limit'[d] = limit[d]
  BY <1>1 DEF L!Put
<1>3. recent[t] \in SUBSET Admissions /\ L!WindowOver(recent[t]) \in SUBSET Admissions
  BY OverKeeps DEF RateInv
<1>4. /\ count' \in [Tenants -> 0 .. MaxRate] /\ age' \in [Tenants -> 0 .. Second]
      /\ lenient' \in [Tenants -> 0 .. Second] /\ recent' \in [Tenants -> SUBSET Admissions]
  BY <1>1, <1>3, LimitsBounds DEF RateInv
<1>5. InStep(n, 0, 0, Second, L!WindowOver(recent[t]))
  BY <1>3, SetKeeps
<1>6. \A d \in Tenants : InStep(LimitOf(d)', count'[d], age'[d], lenient'[d], recent'[d])
  <2> SUFFICES ASSUME NEW d \in Tenants PROVE InStep(LimitOf(d)', count'[d], age'[d], lenient'[d], recent'[d])
    OBVIOUS
  <2>1. CASE d = t
    <3>1. /\ LimitOf(d)' = n /\ count'[d] = 0 /\ age'[d] = 0 /\ lenient'[d] = Second
          /\ recent'[d] = L!WindowOver(recent[t])
      BY <1>1, <1>2, <2>1 DEF LimitOf, RateInv
    <3> QED
      BY <1>5, <3>1
  <2>2. CASE d # t
    <3>1. /\ LimitOf(d)' = LimitOf(d) /\ count'[d] = count[d] /\ age'[d] = age[d] /\ lenient'[d] = lenient[d]
          /\ recent'[d] = recent[d]
      BY <1>1, <1>2, <2>2 DEF LimitOf, RateInv
    <3> QED
      BY <3>1 DEF RateInv
  <2> QED
    BY <2>1, <2>2
<1>7. DOMAIN limit' \subseteq Tenants /\ \A d \in DOMAIN limit' : limit'[d] \in 1 .. MaxRate
  BY <1>2 DEF RateInv
<1> QED
  BY <1>1, <1>4, <1>6, <1>7 DEF RateInv, HadItsShare

LEMMA RemoveStep == ASSUME RateInv, NEW t \in Tenants, L!RemoveLimit(t) PROVE RateInv'
<1>1. /\ limit' = L!Restrict(limit, DOMAIN limit \ {t}) /\ lenient' = [lenient EXCEPT ![t] = Second]
      /\ verdict' = <<>> /\ count' = count /\ age' = age /\ recent' = recent
  BY DEF L!RemoveLimit
<1>2. /\ DOMAIN limit' = DOMAIN limit \ {t}
      /\ \A d \in DOMAIN limit : d # t => limit'[d] = limit[d]
  BY <1>1 DEF L!Restrict
<1>3. lenient' \in [Tenants -> 0 .. Second]
  BY <1>1, LimitsBounds DEF RateInv
<1>4. \A d \in Tenants : InStep(LimitOf(d)', count'[d], age'[d], lenient'[d], recent'[d])
  <2> SUFFICES ASSUME NEW d \in Tenants PROVE InStep(LimitOf(d)', count'[d], age'[d], lenient'[d], recent'[d])
    OBVIOUS
  <2>1. InStep(LimitOf(d), count[d], age[d], lenient[d], recent[d])
    BY DEF RateInv
  <2>2. CASE d = t
    <3>1. LimitOf(d)' = 0 /\ lenient'[d] = Second
      BY <1>1, <1>2, <2>2 DEF LimitOf, RateInv
    <3> QED
      BY <1>1, <2>1, <3>1, RemoveKeeps
  <2>3. CASE d # t
    <3>1. LimitOf(d)' = LimitOf(d) /\ lenient'[d] = lenient[d]
      BY <1>1, <1>2, <2>3 DEF LimitOf, RateInv
    <3> QED
      BY <1>1, <2>1, <3>1
  <2> QED
    BY <2>2, <2>3
<1>5. DOMAIN limit' \subseteq Tenants /\ \A d \in DOMAIN limit' : limit'[d] \in 1 .. MaxRate
  BY <1>2 DEF RateInv
<1> QED
  BY <1>1, <1>3, <1>4, <1>5 DEF RateInv, HadItsShare

(* The count after a request, its window, and the requests let through.    *)
LEMMA RequestStep == ASSUME RateInv, NEW t \in Tenants, L!Request(t) PROVE RateInv'
<1> DEFINE lim == LimitOf(t)
           cnt == L!InWindow(t)
           old == IF age[t] = Second THEN 0 ELSE age[t]
           rec == IF age[t] = Second THEN L!WindowOver(recent[t]) ELSE recent[t]
           ok  == L!Verdict(t)
           now == (IF ok THEN {L!LetThrough(cnt + 1)} ELSE {}) \union rec
<1>1. /\ limit' = limit /\ lenient' = lenient /\ verdict' = <<t, ok>>
      /\ t \notin DOMAIN limit => count' = count /\ age' = age /\ recent' = recent
      /\ ok \in BOOLEAN /\ (t \notin DOMAIN limit => ok)
  <2>1. /\ limit' = limit /\ lenient' = lenient /\ verdict' = <<t, ok>>
        /\ t \notin DOMAIN limit => count' = count /\ age' = age /\ recent' = recent
    BY DEF L!Request
  <2>2. ok \in BOOLEAN
    <3>1. CASE t \in DOMAIN limit
      <4>1. ok = (L!InWindow(t) < limit[t])
        BY <3>1 DEF L!Verdict, L!Within
      <4> HIDE DEF ok
      <4> QED
        BY <4>1
    <3>2. CASE t \notin DOMAIN limit
      <4>1. ok = TRUE
        BY <3>2 DEF L!Verdict
      <4> QED
        BY <4>1
    <3> QED
      BY <3>1, <3>2
  <2>3. t \notin DOMAIN limit => ok
    BY DEF L!Verdict
  <2> QED
    BY <2>1, <2>2, <2>3
<1>2. CASE t \notin DOMAIN limit
  <2>1. \A d : LimitOf(d)' = LimitOf(d)
    BY <1>1 DEF LimitOf
  <2>2. verdict' \in Tenants \X BOOLEAN /\ verdict'[2]
    BY <1>1, <1>2
  <2>3. HadItsShare'
    BY <2>2 DEF HadItsShare
  <2>4. \A d \in Tenants : InStep(LimitOf(d)', count'[d], age'[d], lenient'[d], recent'[d])
    BY <1>1, <1>2, <2>1 DEF RateInv
  <2> QED
    BY <1>1, <1>2, <2>2, <2>3, <2>4 DEF RateInv
<1>3. CASE t \in DOMAIN limit
  <2>1. /\ count' = [count EXCEPT ![t] = IF ok THEN cnt + 1 ELSE cnt]
        /\ age' = [age EXCEPT ![t] = old] /\ recent' = [recent EXCEPT ![t] = now]
        /\ ok <=> cnt < lim
    BY <1>3 DEF L!Request, L!Verdict, L!Within, LimitOf
  <2>2. /\ lim \in 1 .. MaxRate /\ count[t] \in 0 .. MaxRate /\ age[t] \in 0 .. Second
        /\ lenient[t] \in 0 .. Second /\ recent[t] \in SUBSET Admissions
        /\ InStep(lim, count[t], age[t], lenient[t], recent[t])
    BY <1>3 DEF RateInv, LimitOf
  <2>3. /\ cnt \in 0 .. MaxRate /\ old \in 0 .. Second /\ old < Second /\ rec \in SUBSET Admissions
        /\ InStep(lim, cnt, old, lenient[t], rec)
    <3>1. CASE age[t] = Second
      <4>1. InStep(lim, 0, 0, lenient[t], L!WindowOver(recent[t]))
        BY <2>2, <3>1, RenewKeeps
      <4>2. L!WindowOver(recent[t]) \subseteq Admissions
        BY <2>2, OverKeeps
      <4> QED
        BY <3>1, <4>1, <4>2, LimitsBounds DEF L!InWindow
    <3>2. CASE age[t] # Second
      BY <2>2, <3>2, LimitsBounds DEF L!InWindow
    <3> QED
      BY <3>1, <3>2
  <2> DEFINE val == IF ok THEN cnt + 1 ELSE cnt
  <2> HIDE DEF lim, cnt, old, rec, ok
  <2>4. /\ val \in 0 .. MaxRate /\ now \in SUBSET Admissions /\ InStep(lim, val, old, lenient[t], now)
        /\ ~ok => lim <= Cardinality(now)
    <3>1. CASE ok
      <4>1. cnt < lim /\ now = {L!LetThrough(cnt + 1)} \union rec /\ val = cnt + 1
        BY <2>1, <3>1
      <4>2. InStep(lim, cnt + 1, old, lenient[t], {L!LetThrough(cnt + 1)} \union rec) /\ L!LetThrough(cnt + 1) \in Admissions
        BY <2>2, <2>3, <4>1, RequestKeeps
      <4>3. cnt + 1 \in 0 .. MaxRate
        BY <2>2, <2>3, <4>1, LimitsBounds
      <4>4. {L!LetThrough(cnt + 1)} \union rec \subseteq Admissions
        BY <2>3, <4>2
      <4> HIDE DEF now, val
      <4> QED
        BY <3>1, <4>1, <4>2, <4>3, <4>4
    <3>2. CASE ~ok
      <4>1. ~(cnt < lim) /\ now = rec /\ val = cnt
        BY <2>1, <3>2
      <4>2. lim <= Cardinality(rec)
        BY <2>2, <2>3, <4>1, RequestKeeps
      <4> HIDE DEF now, val
      <4> QED
        BY <2>3, <4>1, <4>2
    <3> QED
      BY <3>1, <3>2
  <2>5. count' = [count EXCEPT ![t] = val]
    BY <2>1
  <2> HIDE DEF now, val
  <2>6. \A d : LimitOf(d)' = LimitOf(d)
    BY <1>1 DEF LimitOf
  <2>7. /\ count' \in [Tenants -> 0 .. MaxRate] /\ age' \in [Tenants -> 0 .. Second]
        /\ lenient' \in [Tenants -> 0 .. Second] /\ recent' \in [Tenants -> SUBSET Admissions]
    BY <1>1, <2>1, <2>3, <2>4, <2>5 DEF RateInv
  <2>8. \A d \in Tenants : InStep(LimitOf(d)', count'[d], age'[d], lenient'[d], recent'[d])
    <3> SUFFICES ASSUME NEW d \in Tenants PROVE InStep(LimitOf(d)', count'[d], age'[d], lenient'[d], recent'[d])
      OBVIOUS
    <3>1. CASE d = t
      <4>1. LimitOf(d)' = lim /\ count'[d] = val /\ age'[d] = old /\ lenient'[d] = lenient[t] /\ recent'[d] = now
        BY <1>1, <2>1, <2>5, <2>6, <3>1 DEF RateInv, lim
      <4> QED
        BY <2>4, <4>1
    <3>2. CASE d # t
      <4>1. count'[d] = count[d] /\ age'[d] = age[d] /\ lenient'[d] = lenient[d] /\ recent'[d] = recent[d]
        BY <1>1, <2>1, <2>5, <3>2 DEF RateInv
      <4> QED
        BY <2>6, <4>1 DEF RateInv
    <3> QED
      BY <3>1, <3>2
  <2>9. HadItsShare'
    <3>1. recent'[t] = now /\ limit'[t] = lim
      BY <1>1, <1>3, <2>1 DEF RateInv, lim, LimitOf
    <3>2. verdict'[1] = t /\ verdict'[2] = ok
      BY <1>1
    <3>3. lim \in Nat /\ Cardinality(now) \in Nat
      BY <2>2, <2>4, AdmissionsFinite, FS_CardinalityType, LimitsBounds
    <3> QED
      BY <2>4, <3>1, <3>2, <3>3 DEF HadItsShare
  <2>10. verdict' \in Tenants \X BOOLEAN
    BY <1>1
  <2>11. DOMAIN limit' \subseteq Tenants /\ \A d \in DOMAIN limit' : limit'[d] \in 1 .. MaxRate
    BY <1>1 DEF RateInv
  <2> QED
    BY <2>7, <2>8, <2>9, <2>10, <2>11 DEF RateInv
<1> QED
  BY <1>2, <1>3

-----------------------------------------------------------------------------
(* The cache.  An entry that is held was counted, or its task is about to; *)
(* and the tasks that passed the check did so while there was room.        *)
Seats == {L!Idle} \union [at : {"wiping"}, tenant : Tenants]
           \union [at : {"checked", "room", "stored"}, tenant : Tenants, key : Entries, new : BOOLEAN]
HeldBy(s, t)    == {e \in s : e[1] = t}
Uncounted(f, t) == {w \in Tasks : f[w].at = "stored" /\ f[w].tenant = t}
Entering(f, t)  == {w \in Tasks : f[w].at \in {"room", "stored"} /\ f[w].new /\ f[w].tenant = t}
EntriesOf(f, t)   == IF t \in DOMAIN f THEN f[t] ELSE 0

Sound(c, n, f, t) ==
  /\ Cardinality(HeldBy(c, t)) <= EntriesOf(n, t) + Cardinality(Uncounted(f, t))
  /\ EntriesOf(n, t) + Cardinality(Entering(f, t)) + 1 <= MaxEntries + Cardinality(Tasks)
Keen(s, c, gone) ==
  /\ s.at = "wiping" => s.tenant \in gone
  /\ s.at \in {"checked", "stored"} => s.new
  /\ s.at = "room" /\ ~s.new /\ s.tenant \notin gone => <<s.tenant, s.key>> \in c

CacheInv ==
  /\ task \in [Tasks -> Seats] /\ cached \subseteq Tenants \X Entries /\ IsFiniteSet(cached)
  /\ DOMAIN counts \subseteq Tenants /\ \A t \in DOMAIN counts : counts[t] \in Nat
  /\ \A w \in Tasks : Keen(task[w], cached, wiped)
  /\ \A t \in Tenants \ wiped : Sound(cached, counts, task, t)

LEMMA TaskSets ==
  ASSUME NEW f, NEW t
  PROVE  /\ IsFiniteSet(Uncounted(f, t)) /\ Cardinality(Uncounted(f, t)) \in Nat
         /\ IsFiniteSet(Entering(f, t)) /\ Cardinality(Entering(f, t)) \in Nat
         /\ Cardinality(Tasks) \in Nat /\ Cardinality(Tasks) > 0
         /\ Cardinality(Entering(f, t)) <= Cardinality(Tasks)
<1>1. Uncounted(f, t) \subseteq Tasks /\ Entering(f, t) \subseteq Tasks
  BY DEF Uncounted, Entering
<1>2. Cardinality(Tasks) \in Nat /\ Cardinality(Tasks) # 0
  BY LimitsBounds, FS_CardinalityType, FS_EmptySet
<1>3. /\ IsFiniteSet(Uncounted(f, t)) /\ IsFiniteSet(Entering(f, t))
      /\ Cardinality(Entering(f, t)) <= Cardinality(Tasks)
  BY <1>1, LimitsBounds, FS_Subset
<1> QED
  BY <1>2, <1>3, FS_CardinalityType

(* What a task's seat says, and what changes when it takes another.        *)
LEMMA SeatsAre ==
  ASSUME NEW s \in Seats
  PROVE  /\ s.at \in {"idle", "wiping", "checked", "room", "stored"}
         /\ s.at = "idle" => s = L!Idle
         /\ s.at = "wiping" => s.tenant \in Tenants
         /\ s.at \in {"checked", "room", "stored"} =>
              /\ s.tenant \in Tenants /\ s.key \in Entries /\ s.new \in BOOLEAN
              /\ s = [at |-> s.at, tenant |-> s.tenant, key |-> s.key, new |-> s.new]
BY DEF Seats, L!Idle

Takes(f, w, s, g) == g = [f EXCEPT ![w] = s]

LEMMA OneMore ==
  ASSUME NEW s, NEW e, IsFiniteSet(s)
  PROVE  /\ Cardinality(s) \in Nat
         /\ e \notin s => Cardinality(s \union {e}) = Cardinality(s) + 1
         /\ Cardinality(s \union {e}) <= Cardinality(s) + 1
         /\ e \in s => Cardinality(s \ {e}) = Cardinality(s) - 1
         /\ Cardinality(s \ {e}) <= Cardinality(s)
<1>1. Cardinality(s) \in Nat
  BY FS_CardinalityType
<1>2. Cardinality(s \union {e}) = IF e \in s THEN Cardinality(s) ELSE Cardinality(s) + 1
  BY FS_AddElement
<1>3. Cardinality(s \ {e}) = IF e \in s THEN Cardinality(s) - 1 ELSE Cardinality(s)
  BY FS_RemoveElement
<1> QED
  BY <1>1, <1>2, <1>3

LEMMA CacheStart == ASSUME Start PROVE CacheInv
<1>0. L!Init
  BY DEF Start
<1>1. cached = {} /\ counts = <<>> /\ task = [w \in Tasks |-> L!Idle]
  BY <1>0 DEF L!Init
<1>2. DOMAIN counts = {}
  BY <1>1
<1>3. IsFiniteSet({}) /\ Cardinality({}) = 0
  BY FS_EmptySet
<1>4. task \in [Tasks -> Seats] /\ \A w \in Tasks : task[w].at = "idle"
  BY <1>1 DEF Seats, L!Idle
<1>5. ASSUME NEW t
      PROVE  HeldBy(cached, t) = {} /\ EntriesOf(counts, t) = 0 /\ Uncounted(task, t) = {} /\ Entering(task, t) = {}
  BY <1>1, <1>2, <1>4 DEF HeldBy, EntriesOf, Uncounted, Entering
<1>6. ASSUME NEW t
      PROVE  /\ Cardinality(HeldBy(cached, t)) <= EntriesOf(counts, t) + Cardinality(Uncounted(task, t))
             /\ EntriesOf(counts, t) + Cardinality(Entering(task, t)) + 1 <= MaxEntries + Cardinality(Tasks)
  BY <1>3, <1>5, TaskSets, LimitsBounds
<1> QED
  BY <1>1, <1>2, <1>3, <1>4, <1>6 DEF CacheInv, Sound, Keen

(* What is held and counted, as numbers.                                   *)
LEMMA HeldSets ==
  ASSUME NEW s, NEW t, IsFiniteSet(s)
  PROVE  /\ IsFiniteSet(HeldBy(s, t)) /\ Cardinality(HeldBy(s, t)) \in Nat
         /\ \A e : Cardinality(HeldBy(s \union {e}, t)) <= Cardinality(HeldBy(s, t)) + (IF e[1] = t THEN 1 ELSE 0)
<1>1. HeldBy(s, t) \subseteq s
  BY DEF HeldBy
<1>2. IsFiniteSet(HeldBy(s, t)) /\ Cardinality(HeldBy(s, t)) \in Nat
  BY <1>1, FS_Subset, FS_CardinalityType
<1>3. ASSUME NEW e
      PROVE  Cardinality(HeldBy(s \union {e}, t)) <= Cardinality(HeldBy(s, t)) + (IF e[1] = t THEN 1 ELSE 0)
  <2>1. CASE e[1] = t
    <3>1. HeldBy(s \union {e}, t) = HeldBy(s, t) \union {e}
      BY <2>1 DEF HeldBy
    <3>2. Cardinality(HeldBy(s, t) \union {e}) <= Cardinality(HeldBy(s, t)) + 1
      BY <1>2, OneMore
    <3> QED
      BY <2>1, <3>1, <3>2
  <2>2. CASE e[1] # t
    <3>1. HeldBy(s \union {e}, t) = HeldBy(s, t)
      BY <2>2 DEF HeldBy
    <3> QED
      BY <1>2, <2>2, <3>1
  <2> QED
    BY <2>1, <2>2
<1> QED
  BY <1>2, <1>3

(* A task that has no entry to count, and is none of those that may count  *)
(* one, changes seats.                                                     *)
LEMMA SeatLeft ==
  ASSUME NEW f \in [Tasks -> Seats], NEW w \in Tasks, NEW s \in Seats, NEW t, NEW g, Takes(f, w, s, g),
         f[w].at # "stored"
  PROVE  /\ ~(s.at = "stored" /\ s.tenant = t) => Uncounted(g, t) = Uncounted(f, t)
         /\ s.at = "stored" /\ s.tenant = t => Cardinality(Uncounted(g, t)) = Cardinality(Uncounted(f, t)) + 1
         /\ ~(s.at \in {"room", "stored"} /\ s.new /\ s.tenant = t) =>
              Cardinality(Entering(g, t)) <= Cardinality(Entering(f, t))
<1>1. w \notin Uncounted(f, t)
  BY DEF Uncounted
<1>2. IsFiniteSet(Uncounted(f, t)) /\ IsFiniteSet(Entering(f, t))
  BY TaskSets
<1>3. /\ Uncounted(g, t) = IF s.at = "stored" /\ s.tenant = t THEN Uncounted(f, t) \union {w}
                           ELSE Uncounted(f, t) \ {w}
      /\ Entering(g, t) = IF s.at \in {"room", "stored"} /\ s.new /\ s.tenant = t THEN Entering(f, t) \union {w}
                          ELSE Entering(f, t) \ {w}
  BY DEF Uncounted, Entering, Takes
<1>4. ~(s.at = "stored" /\ s.tenant = t) => Uncounted(g, t) = Uncounted(f, t)
  BY <1>1, <1>3
<1>5. s.at = "stored" /\ s.tenant = t => Cardinality(Uncounted(g, t)) = Cardinality(Uncounted(f, t)) + 1
  <2>1. Cardinality(Uncounted(f, t) \union {w}) = Cardinality(Uncounted(f, t)) + 1
    BY <1>1, <1>2, OneMore
  <2> QED
    BY <1>3, <2>1
<1>6. ~(s.at \in {"room", "stored"} /\ s.new /\ s.tenant = t) =>
        Cardinality(Entering(g, t)) <= Cardinality(Entering(f, t))
  <2>1. Cardinality(Entering(f, t) \ {w}) <= Cardinality(Entering(f, t))
    BY <1>2, OneMore
  <2>2. ~(s.at \in {"room", "stored"} /\ s.new /\ s.tenant = t) => Entering(g, t) = Entering(f, t) \ {w}
    BY <1>3
  <2> QED
    BY <2>1, <2>2
<1> QED
  BY <1>4, <1>5, <1>6

(* A tenant of whose entries and tasks a step changes nothing that counts. *)
LEMMA Undisturbed ==
  ASSUME CacheInv, NEW d \in Tenants \ wiped, NEW c, NEW n, NEW f, HeldBy(c, d) = HeldBy(cached, d),
         EntriesOf(n, d) = EntriesOf(counts, d), Uncounted(f, d) = Uncounted(task, d),
         Cardinality(Entering(f, d)) <= Cardinality(Entering(task, d))
  PROVE  Sound(c, n, f, d)
<1>1. Sound(cached, counts, task, d) /\ EntriesOf(counts, d) \in Nat
  BY DEF CacheInv, EntriesOf
<1>2. /\ Cardinality(Entering(task, d)) \in Nat /\ Cardinality(Entering(f, d)) \in Nat
      /\ Cardinality(Tasks) \in Nat
  BY TaskSets
<1> QED
  BY <1>1, <1>2, LimitsBounds DEF Sound

LEMMA InsertStep ==
  ASSUME CacheInv, NEW w \in Tasks, NEW t \in Tenants, NEW k \in Entries, L!Insert(w, t, k) PROVE CacheInv'
<1> DEFINE s == [at |-> IF <<t, k>> \in cached THEN "room" ELSE "checked",
                 tenant |-> t, key |-> k, new |-> <<t, k>> \notin cached]
<1>1. /\ task' = [task EXCEPT ![w] = s] /\ cached' = cached /\ counts' = counts /\ wiped' = wiped
      /\ task[w].at = "idle" /\ task \in [Tasks -> Seats]
  BY DEF L!Insert, L!Step, CacheInv, L!Idle
<1>2. s \in Seats
  <2>1. CASE <<t, k>> \in cached
    <3>1. s = [at |-> "room", tenant |-> t, key |-> k, new |-> FALSE]
      BY <2>1
    <3> QED
      BY <3>1 DEF Seats
  <2>2. CASE <<t, k>> \notin cached
    <3>1. s = [at |-> "checked", tenant |-> t, key |-> k, new |-> TRUE]
      BY <2>2
    <3> QED
      BY <3>1 DEF Seats
  <2> QED
    BY <2>1, <2>2
<1>3. /\ s.at \in {"room", "checked"} /\ (s.at = "checked" => s.new)
      /\ s.at = "room" => ~s.new /\ <<s.tenant, s.key>> \in cached
  OBVIOUS
<1> HIDE DEF s
<1>4. \A d \in Tenants \ wiped' : Sound(cached', counts', task', d)
  <2>1. task[w].at # "stored" /\ s.at # "stored" /\ ~(s.at \in {"room", "stored"} /\ s.new)
    BY <1>1, <1>3
  <2>2. Takes(task, w, s, task') /\ task \in [Tasks -> Seats]
    BY <1>1 DEF Takes
  <2>3. \A d : /\ Uncounted(task', d) = Uncounted(task, d)
               /\ Cardinality(Entering(task', d)) <= Cardinality(Entering(task, d))
    BY <1>2, <2>1, <2>2, SeatLeft
  <2> QED
    BY <1>1, <2>3, Undisturbed
<1>5. task' \in [Tasks -> Seats] /\ \A v \in Tasks : task'[v] = IF v = w THEN s ELSE task[v]
  BY <1>1, <1>2
<1>6. \A v \in Tasks : Keen(task'[v], cached', wiped')
  BY <1>1, <1>3, <1>5 DEF CacheInv, Keen
<1> QED
  BY <1>1, <1>4, <1>5, <1>6 DEF CacheInv

LEMMA SeatMoves ==
  ASSUME NEW s \in Seats, s.at \in {"checked", "room"}, NEW p
  PROVE  [s EXCEPT !.at = p] = [at |-> p, tenant |-> s.tenant, key |-> s.key, new |-> s.new]
BY DEF Seats, L!Idle

(* A task is let in while there is room, whatever the others do: however   *)
(* many are in, those beside it are one less than all.                     *)
LEMMA CheckStep == ASSUME CacheInv, NEW w \in Tasks, L!CheckRoom(w) PROVE CacheInv'
<1> DEFINE t == task[w].tenant
           full == L!CountOf(t) >= MaxEntries
           s == IF full THEN L!Idle ELSE [at |-> "room", tenant |-> t, key |-> task[w].key, new |-> task[w].new]
<1>1. /\ cached' = cached /\ counts' = counts /\ wiped' = wiped /\ task[w].at = "checked" /\ task[w].new
      /\ task \in [Tasks -> Seats] /\ t \in Tenants /\ task[w].key \in Entries
  BY SeatsAre DEF L!CheckRoom, CacheInv, Keen
<1>2. task' = [task EXCEPT ![w] = s]
  <2>1. [task[w] EXCEPT !.at = "room"] = [at |-> "room", tenant |-> t, key |-> task[w].key, new |-> task[w].new]
    BY <1>1, SeatMoves
  <2> QED
    BY <2>1 DEF L!CheckRoom, L!Step
<1>3. s \in Seats
  BY <1>1 DEF Seats
<1>4. /\ full => s.at = "idle"
      /\ ~full => s.at = "room" /\ s.new /\ s.tenant = t
  BY <1>1 DEF L!Idle
<1>5. L!CountOf(t) = EntriesOf(counts, t)
  BY DEF L!CountOf, EntriesOf
<1> HIDE DEF s, t, full
<1>6. \A d \in Tenants \ wiped' : Sound(cached', counts', task', d)
  <2> SUFFICES ASSUME NEW d \in Tenants \ wiped PROVE Sound(cached, counts, task', d)
    BY <1>1
  <2>1. Takes(task, w, s, task') /\ task[w].at # "stored" /\ s.at # "stored"
    BY <1>1, <1>2, <1>4 DEF Takes
  <2>2. /\ Uncounted(task', d) = Uncounted(task, d)
        /\ ~(s.at \in {"room", "stored"} /\ s.new /\ s.tenant = d) =>
             Cardinality(Entering(task', d)) <= Cardinality(Entering(task, d))
    BY <1>1, <1>3, <2>1, SeatLeft
  <2>3. CASE full \/ d # t
    <3>1. ~(s.at \in {"room", "stored"} /\ s.new /\ s.tenant = d)
      BY <1>4, <2>3
    <3> QED
      BY <2>2, <3>1, Undisturbed
  <2>4. CASE ~full /\ d = t
    <3>1. EntriesOf(counts, d) \in Nat /\ Sound(cached, counts, task, d)
      BY DEF CacheInv, EntriesOf
    <3>2. EntriesOf(counts, d) < MaxEntries
      BY <1>5, <2>4, <3>1, LimitsBounds DEF full
    <3>3. /\ Cardinality(Entering(task', d)) \in Nat /\ Cardinality(Tasks) \in Nat
          /\ Cardinality(Entering(task', d)) <= Cardinality(Tasks)
      BY TaskSets
    <3> QED
      BY <2>2, <3>1, <3>2, <3>3, LimitsBounds DEF Sound
  <2> QED
    BY <2>3, <2>4
<1>7. task' \in [Tasks -> Seats] /\ \A v \in Tasks : task'[v] = IF v = w THEN s ELSE task[v]
  BY <1>1, <1>2, <1>3
<1>8. \A v \in Tasks : Keen(task'[v], cached', wiped')
  BY <1>1, <1>4, <1>7 DEF CacheInv, Keen
<1> QED
  BY <1>1, <1>6, <1>7, <1>8 DEF CacheInv

(* An entry that is put is one its task will count, or is there already.   *)
LEMMA StoreStep == ASSUME CacheInv, NEW w \in Tasks, L!Store(w) PROVE CacheInv'
<1> DEFINE t == task[w].tenant
           e == <<t, task[w].key>>
           new == task[w].new
           s == IF new THEN [at |-> "stored", tenant |-> t, key |-> task[w].key, new |-> new] ELSE L!Idle
<1>1. /\ cached' = cached \union {e} /\ counts' = counts /\ wiped' = wiped /\ task[w].at = "room"
      /\ task \in [Tasks -> Seats] /\ t \in Tenants /\ task[w].key \in Entries /\ new \in BOOLEAN
      /\ e \in Tenants \X Entries
  BY SeatsAre DEF L!Store, CacheInv
<1>2. task' = [task EXCEPT ![w] = s]
  <2>1. [task[w] EXCEPT !.at = "stored"] = [at |-> "stored", tenant |-> t, key |-> task[w].key, new |-> new]
    BY <1>1, SeatMoves
  <2> QED
    BY <2>1 DEF L!Store, L!Step
<1>3. s \in Seats
  BY <1>1 DEF Seats
<1>4. /\ new => s.at = "stored" /\ s.new /\ s.tenant = t
      /\ ~new => s.at = "idle"
      /\ e[1] = t
  BY DEF L!Idle
<1>5. IsFiniteSet(cached) /\ IsFiniteSet(cached \union {e}) /\ cached \union {e} \subseteq Tenants \X Entries
  BY <1>1, FS_AddElement DEF CacheInv
<1>6. ~new /\ t \notin wiped => e \in cached
  BY <1>1 DEF CacheInv, Keen
<1>7. new => \A d : Entering(task', d) = Entering(task, d)
  BY <1>1, <1>2, <1>4 DEF Entering
<1> HIDE DEF s, t, e, new
<1>8. \A d \in Tenants \ wiped' : Sound(cached', counts', task', d)
  <2> SUFFICES ASSUME NEW d \in Tenants \ wiped PROVE Sound(cached \union {e}, counts, task', d)
    BY <1>1
  <2>1. Takes(task, w, s, task') /\ task[w].at # "stored"
    BY <1>1, <1>2 DEF Takes
  <2>2. /\ ~(s.at = "stored" /\ s.tenant = d) => Uncounted(task', d) = Uncounted(task, d)
        /\ s.at = "stored" /\ s.tenant = d => Cardinality(Uncounted(task', d)) = Cardinality(Uncounted(task, d)) + 1
        /\ ~(s.at \in {"room", "stored"} /\ s.new /\ s.tenant = d) =>
              Cardinality(Entering(task', d)) <= Cardinality(Entering(task, d))
    BY <1>1, <1>3, <2>1, SeatLeft
  <2>3. CASE d # t
    <3>1. Uncounted(task', d) = Uncounted(task, d) /\ Cardinality(Entering(task', d)) <= Cardinality(Entering(task, d))
      BY <1>4, <2>2, <2>3
    <3>2. HeldBy(cached \union {e}, d) = HeldBy(cached, d)
      BY <1>4, <2>3 DEF HeldBy
    <3> QED
      BY <3>1, <3>2, Undisturbed
  <2>4. CASE d = t /\ ~new
    <3>1. Uncounted(task', d) = Uncounted(task, d) /\ Cardinality(Entering(task', d)) <= Cardinality(Entering(task, d))
      BY <1>4, <2>2, <2>4
    <3>2. cached \union {e} = cached
      BY <1>6, <2>4
    <3> QED
      BY <3>1, <3>2, Undisturbed
  <2>5. CASE d = t /\ new
    <3>1. /\ Cardinality(Uncounted(task', d)) = Cardinality(Uncounted(task, d)) + 1
          /\ Entering(task', d) = Entering(task, d)
      BY <1>4, <1>7, <2>2, <2>5
    <3>2. Cardinality(HeldBy(cached \union {e}, d)) <= Cardinality(HeldBy(cached, d)) + 1
      BY <1>4, <1>5, <2>5, HeldSets
    <3>3. EntriesOf(counts, d) \in Nat /\ Sound(cached, counts, task, d)
      BY DEF CacheInv, EntriesOf
    <3>4. /\ Cardinality(HeldBy(cached, d)) \in Nat /\ Cardinality(HeldBy(cached \union {e}, d)) \in Nat
          /\ Cardinality(Uncounted(task, d)) \in Nat
      BY <1>5, HeldSets, TaskSets
    <3> QED
      BY <3>1, <3>2, <3>3, <3>4 DEF Sound
  <2> QED
    BY <2>3, <2>4, <2>5
<1>9. task' \in [Tasks -> Seats] /\ \A v \in Tasks : task'[v] = IF v = w THEN s ELSE task[v]
  BY <1>1, <1>2, <1>3
<1>10. \A v \in Tasks : Keen(task'[v], cached', wiped')
  BY <1>1, <1>4, <1>9 DEF CacheInv, Keen
<1> QED
  BY <1>1, <1>5, <1>8, <1>9, <1>10 DEF CacheInv

(* An entry is counted by the task that put it, which leaves.              *)
LEMMA CountStep == ASSUME CacheInv, NEW w \in Tasks, L!CountEntry(w) PROVE CacheInv'
<1> DEFINE t == task[w].tenant
<1>1. /\ cached' = cached /\ wiped' = wiped /\ task' = [task EXCEPT ![w] = L!Idle]
      /\ counts' = L!Put(counts, t, EntriesOf(counts, t) + 1)
      /\ task[w].at = "stored" /\ task[w].new /\ t \in Tenants
      /\ task \in [Tasks -> Seats] /\ L!Idle \in Seats /\ L!Idle.at = "idle"
  <2>1. task[w] \in Seats /\ Keen(task[w], cached, wiped) /\ task \in [Tasks -> Seats]
    BY DEF CacheInv
  <2> QED
    BY <2>1, SeatsAre DEF L!CountEntry, L!Step, Keen, L!CountOf, EntriesOf, Seats, L!Idle
<1>2. /\ DOMAIN counts' = DOMAIN counts \union {t} /\ counts'[t] = EntriesOf(counts, t) + 1
      /\ \A d \in DOMAIN counts : d # t => counts'[d] = counts[d]
  BY <1>1 DEF L!Put
<1>3. /\ DOMAIN counts \subseteq Tenants /\ \A d \in DOMAIN counts : counts[d] \in Nat
      /\ \A d : EntriesOf(counts, d) \in Nat
  BY DEF CacheInv, EntriesOf
<1>4. DOMAIN counts' \subseteq Tenants /\ \A d \in DOMAIN counts' : counts'[d] \in Nat
  <2> SUFFICES ASSUME NEW d \in DOMAIN counts' PROVE d \in Tenants /\ counts'[d] \in Nat
    OBVIOUS
  <2>1. CASE d = t
    BY <1>1, <1>2, <1>3, <2>1
  <2>2. CASE d # t
    BY <1>2, <1>3, <2>2
  <2> QED
    BY <2>1, <2>2
<1>5. \A d : EntriesOf(counts', d) = IF d = t THEN EntriesOf(counts, t) + 1 ELSE EntriesOf(counts, d)
  BY <1>2 DEF EntriesOf
<1>6. \A d : /\ Uncounted(task', d) = IF d = t THEN Uncounted(task, t) \ {w} ELSE Uncounted(task, d)
             /\ Entering(task', d) = IF d = t THEN Entering(task, t) \ {w} ELSE Entering(task, d)
             /\ w \in Uncounted(task, t) /\ w \in Entering(task, t)
  BY <1>1 DEF Uncounted, Entering
<1> HIDE DEF t
<1>7. \A d \in Tenants \ wiped' : Sound(cached', counts', task', d)
  <2> SUFFICES ASSUME NEW d \in Tenants \ wiped PROVE Sound(cached, counts', task', d)
    BY <1>1
  <2>1. CASE d # t
    <3>1. /\ EntriesOf(counts', d) = EntriesOf(counts, d) /\ Uncounted(task', d) = Uncounted(task, d)
          /\ Entering(task', d) = Entering(task, d)
      BY <1>5, <1>6, <2>1
    <3>2. Cardinality(Entering(task', d)) <= Cardinality(Entering(task, d))
      BY <3>1, TaskSets
    <3> QED
      BY <3>1, <3>2, Undisturbed
  <2>2. CASE d = t
    <3>1. EntriesOf(counts', d) = EntriesOf(counts, d) + 1 /\ Sound(cached, counts, task, d)
      BY <1>5, <2>2 DEF CacheInv
    <3>2. /\ Cardinality(Uncounted(task', d)) = Cardinality(Uncounted(task, d)) - 1
          /\ Cardinality(Entering(task', d)) = Cardinality(Entering(task, d)) - 1
      BY <1>6, <2>2, TaskSets, OneMore
    <3>3. /\ Cardinality(Uncounted(task, d)) \in Nat /\ Cardinality(Entering(task, d)) \in Nat
          /\ Cardinality(Tasks) \in Nat /\ EntriesOf(counts, d) \in Nat
      BY <1>3, TaskSets
    <3>4. Cardinality(HeldBy(cached, d)) \in Nat
      BY HeldSets DEF CacheInv
    <3> QED
      BY <3>1, <3>2, <3>3, <3>4, LimitsBounds DEF Sound
  <2> QED
    BY <2>1, <2>2
<1>8. task' \in [Tasks -> Seats] /\ \A v \in Tasks : task'[v] = IF v = w THEN L!Idle ELSE task[v]
  BY <1>1
<1>9. \A v \in Tasks : Keen(task'[v], cached', wiped')
  BY <1>1, <1>8 DEF CacheInv, Keen
<1> QED
  BY <1>1, <1>4, <1>7, <1>8, <1>9 DEF CacheInv

(* What is removed is the removed tenant's, of whom nothing is claimed     *)
(* from then on.                                                           *)
LEMMA WipeStep == ASSUME CacheInv, NEW w \in Tasks, NEW t \in Tenants, L!RemoveTenant(w, t) PROVE CacheInv'
<1> DEFINE s == [at |-> "wiping", tenant |-> t]
<1>1. /\ cached' = {e \in cached : e[1] # t} /\ wiped' = wiped \union {t} /\ counts' = counts
      /\ task' = [task EXCEPT ![w] = s] /\ task[w].at = "idle" /\ task \in [Tasks -> Seats]
  BY DEF L!RemoveTenant, L!Step, CacheInv, L!Idle
<1>2. s \in Seats /\ s.at = "wiping" /\ s.tenant = t
  BY DEF Seats
<1> HIDE DEF s
<1>3. cached' \subseteq Tenants \X Entries /\ IsFiniteSet(cached')
  <2>1. cached' \subseteq cached
    BY <1>1
  <2> QED
    BY <2>1, FS_Subset DEF CacheInv
<1>4. \A d \in Tenants \ wiped' : Sound(cached', counts', task', d)
  <2> SUFFICES ASSUME NEW d \in Tenants \ wiped, d # t PROVE Sound(cached', counts, task', d)
    BY <1>1
  <2>1. Takes(task, w, s, task') /\ task[w].at # "stored" /\ s.at \notin {"room", "stored"}
    BY <1>1, <1>2 DEF Takes
  <2>2. Uncounted(task', d) = Uncounted(task, d) /\ Cardinality(Entering(task', d)) <= Cardinality(Entering(task, d))
    BY <1>1, <1>2, <2>1, SeatLeft
  <2>3. HeldBy(cached', d) = HeldBy(cached, d)
    BY <1>1 DEF HeldBy
  <2> QED
    BY <2>2, <2>3, Undisturbed
<1>5. task' \in [Tasks -> Seats] /\ \A v \in Tasks : task'[v] = IF v = w THEN s ELSE task[v]
  BY <1>1, <1>2
<1>6. \A v \in Tasks : Keen(task'[v], cached', wiped')
  <2> SUFFICES ASSUME NEW v \in Tasks PROVE Keen(task'[v], cached', wiped')
    OBVIOUS
  <2>1. CASE v = w
    BY <1>1, <1>2, <1>5, <2>1 DEF Keen
  <2>2. CASE v # w
    <3>1. task'[v] = task[v] /\ Keen(task[v], cached, wiped)
      BY <1>5, <2>2 DEF CacheInv
    <3> QED
      BY <1>1, <3>1 DEF Keen
  <2> QED
    BY <2>1, <2>2
<1> QED
  BY <1>1, <1>3, <1>4, <1>5, <1>6 DEF CacheInv

LEMMA ForgetStep == ASSUME CacheInv, NEW w \in Tasks, L!RemoveCount(w) PROVE CacheInv'
<1> DEFINE t == task[w].tenant
<1>1. /\ cached' = cached /\ wiped' = wiped /\ task' = [task EXCEPT ![w] = L!Idle]
      /\ counts' = L!Restrict(counts, DOMAIN counts \ {t}) /\ task[w].at = "wiping" /\ t \in wiped
      /\ task \in [Tasks -> Seats] /\ L!Idle \in Seats /\ L!Idle.at = "idle"
  <2>1. Keen(task[w], cached, wiped) /\ task \in [Tasks -> Seats]
    BY DEF CacheInv
  <2> QED
    BY <2>1 DEF L!RemoveCount, L!Step, Keen, Seats, L!Idle
<1>2. DOMAIN counts' = DOMAIN counts \ {t} /\ \A d \in DOMAIN counts' : counts'[d] = counts[d]
  BY <1>1 DEF L!Restrict
<1>3. DOMAIN counts' \subseteq Tenants /\ \A d \in DOMAIN counts' : counts'[d] \in Nat
  BY <1>2 DEF CacheInv
<1> HIDE DEF t
<1>4. \A d \in Tenants \ wiped' : Sound(cached', counts', task', d)
  <2> SUFFICES ASSUME NEW d \in Tenants \ wiped PROVE Sound(cached, counts', task', d)
    BY <1>1
  <2>1. Takes(task, w, L!Idle, task') /\ task[w].at # "stored" /\ L!Idle.at \notin {"room", "stored"}
    BY <1>1 DEF Takes
  <2>2. Uncounted(task', d) = Uncounted(task, d) /\ Cardinality(Entering(task', d)) <= Cardinality(Entering(task, d))
    BY <1>1, <2>1, SeatLeft
  <2>3. EntriesOf(counts', d) = EntriesOf(counts, d)
    BY <1>1, <1>2 DEF EntriesOf
  <2> QED
    BY <2>2, <2>3, Undisturbed
<1>5. task' \in [Tasks -> Seats] /\ \A v \in Tasks : task'[v] = IF v = w THEN L!Idle ELSE task[v]
  BY <1>1
<1>6. \A v \in Tasks : Keen(task'[v], cached', wiped')
  BY <1>1, <1>5 DEF CacheInv, Keen
<1> QED
  BY <1>1, <1>3, <1>4, <1>5, <1>6 DEF CacheInv

(* A step of the tenants is one of their limits or one of their cache, and *)
(* leaves the others.                                                      *)
LEMMA TenantMoves ==
  ASSUME [Move]_all
  PROVE  \/ UNCHANGED tenants
         \/ L!NextLimits /\ UNCHANGED <<cached, counts, task, uses, wiped>>
         \/ L!NextCache /\ UNCHANGED <<limit, count, age, recent, lenient, verdict>>
<1>1. CASE UNCHANGED all
  BY <1>1 DEF all
<1>2. CASE On("rates") /\ L!NextLimits
  BY <1>2 DEF L!NextLimits, L!Pass, L!RemoveLimit, L!Request, L!SetLimit, L!cache
<1>3. CASE On("cache") /\ L!NextCache
  BY <1>3 DEF L!NextCache, L!CheckRoom, L!Store, L!CountEntry, L!RemoveCount, L!RemoveTenant, L!Insert, L!limits
<1>4. CASE \E p : p \notin {"rates", "cache"} /\ Still(p)
  BY <1>4 DEF Still
<1> QED
  BY <1>1, <1>2, <1>3, <1>4 DEF Move, On

LEMMA RatesGoOn == ASSUME RateInv, [Move]_all PROVE RateInv'
<1>1. ASSUME UNCHANGED <<limit, count, age, recent, lenient, verdict>> PROVE RateInv'
  BY <1>1 DEF RateInv, HadItsShare, LimitOf
<1>2. CASE L!NextLimits
  BY <1>2, PassStep, SetStep, RemoveStep, RequestStep DEF L!NextLimits
<1> QED
  BY <1>1, <1>2, TenantMoves DEF tenants

LEMMA CacheGoesOn == ASSUME CacheInv, [Move]_all PROVE CacheInv'
<1>1. ASSUME UNCHANGED <<cached, counts, task, uses, wiped>> PROVE CacheInv'
  BY <1>1 DEF CacheInv
<1>2. CASE L!NextCache
  BY <1>2, InsertStep, CheckStep, StoreStep, CountStep, WipeStep, ForgetStep DEF L!NextCache
<1> QED
  BY <1>1, <1>2, TenantMoves DEF tenants

(* Every entry is its tenant's until that tenant is removed.               *)
LEMMA EntriesStay ==
  ASSUME RateInv, CacheInv, [Move]_all, NEW e \in cached, e \notin cached' PROVE wiped' # {} /\ e[1] \in wiped'
<1>1. PICK w \in Tasks, t \in Tenants : L!RemoveTenant(w, t)
  BY TenantMoves DEF tenants, L!NextCache, L!CheckRoom, L!Store, L!CountEntry, L!RemoveCount, L!Insert
<1> QED
  BY <1>1 DEF L!RemoveTenant

LEMMA TenantsAreApart ==
  ASSUME RateInv, CacheInv
  PROVE  L!TypeOK /\ L!AtMostTwoWindows /\ L!RefusedHadItsShare /\ L!QuotaWithinTasks
<1>0. \A T : L!Cardinality(T) = Cardinality(T)
  BY DEF L!Cardinality, Cardinality
<1>1. \A t \in DOMAIN limit : t \in Tenants /\ limit[t] \in 1 .. MaxRate /\ count[t] \in 0 .. limit[t]
  <2> SUFFICES ASSUME NEW t \in DOMAIN limit
               PROVE  t \in Tenants /\ limit[t] \in 1 .. MaxRate /\ count[t] \in 0 .. limit[t]
    OBVIOUS
  <2>1. t \in Tenants /\ limit[t] \in 1 .. MaxRate /\ count[t] \in 0 .. MaxRate
    BY DEF RateInv
  <2>2. InStep(limit[t], count[t], age[t], lenient[t], recent[t])
    BY <2>1 DEF RateInv, LimitOf
  <2> QED
    BY <2>1, <2>2, LimitsBounds DEF InStep
<1>2. L!TypeOK
  <2>1. \A w \in Tasks : task[w].at \in {"idle", "checked", "room", "stored", "wiping"}
    BY SeatsAre DEF CacheInv
  <2> QED
    BY <1>1, <2>1 DEF L!TypeOK, RateInv, CacheInv
<1>3. L!AtMostTwoWindows
  <2> SUFFICES ASSUME NEW t \in DOMAIN limit, lenient[t] = 0 PROVE Cardinality(recent[t]) <= 2 * limit[t]
    BY <1>0 DEF L!AtMostTwoWindows, L!Let
  <2>1. limit[t] \in Nat /\ limit[t] > 0 /\ recent[t] \in SUBSET Admissions
        /\ InStep(limit[t], count[t], age[t], lenient[t], recent[t])
    BY <1>1, LimitsBounds DEF RateInv, LimitOf
  <2>2. Apart(recent[t]) /\ \A r \in recent[t] : r.nth <= limit[t]
    BY <2>1 DEF InStep
  <2> QED
    BY <2>1, <2>2, AtMostTwice
<1>4. L!RefusedHadItsShare
  BY <1>0 DEF RateInv, HadItsShare, L!RefusedHadItsShare, L!Let
<1>5. L!QuotaWithinTasks
  <2> SUFFICES ASSUME NEW t \in Tenants \ wiped
               PROVE  Cardinality(HeldBy(cached, t)) <= MaxEntries + Cardinality(Tasks) - 1
    BY <1>0 DEF L!QuotaWithinTasks, L!Held, HeldBy
  <2>1. Sound(cached, counts, task, t) /\ EntriesOf(counts, t) \in Nat
    BY DEF CacheInv, EntriesOf
  <2>2. Uncounted(task, t) \subseteq Entering(task, t)
    BY DEF CacheInv, Keen, Uncounted, Entering
  <2>3. /\ Cardinality(Uncounted(task, t)) <= Cardinality(Entering(task, t))
        /\ Cardinality(Uncounted(task, t)) \in Nat /\ Cardinality(Entering(task, t)) \in Nat
        /\ Cardinality(Tasks) \in Nat
    BY <2>2, TaskSets, FS_Subset
  <2>4. Cardinality(HeldBy(cached, t)) \in Nat
    BY HeldSets DEF CacheInv
  <2> QED
    BY <2>1, <2>3, <2>4, LimitsBounds DEF Sound
<1> QED
  BY <1>2, <1>3, <1>4, <1>5

(* Within any second a tenant gets what two windows allow at most, and is  *)
(* refused only after it has had its share; its cache holds no more than   *)
(* the quota and one entry for each other task; and what it holds goes     *)
(* only when it is removed: whatever the other tenants do.                 *)
THEOREM TenantsStayApart == ServicesSpec => TenantsApart
<1>1. Start => RateInv /\ CacheInv
  BY RatesStart, CacheStart
<1>2. RateInv /\ CacheInv /\ [Move]_all => RateInv' /\ CacheInv'
  BY RatesGoOn, CacheGoesOn
<1>3. RateInv /\ CacheInv => L!TypeOK /\ L!AtMostTwoWindows /\ L!RefusedHadItsShare /\ L!QuotaWithinTasks
  BY TenantsAreApart
<1>4. RateInv /\ CacheInv /\ [Move]_all => [\A e \in cached : e \notin cached' => wiped' # {} /\ e[1] \in wiped']_(L!vars)
  BY EntriesStay
<1> QED
  BY <1>1, <1>2, <1>3, <1>4, PTL DEF ServicesSpec, TenantsApart, L!TenantsApart, L!OthersUntouched

-----------------------------------------------------------------------------
(* Every set of numbers that is not empty has a least one: what an         *)
(* induction on numbers rests on.                                          *)
LEMMA LeastNumber == ASSUME NEW T \in SUBSET Nat, T # {} PROVE \E m \in T : \A k \in T : m <= k
<1> DEFINE Below == StrictSubsetOrdering(Nat)
           U == {1 .. n : n \in T}
<1>1. IsWellFoundedOn(Below, FiniteSubsetsOf(Nat))
  BY FS_StrictSubsetOrderingWellFounded
<1>2. \A n \in T : 1 .. n \in FiniteSubsetsOf(Nat)
  BY FS_Interval DEF FiniteSubsetsOf
<1>3. U \subseteq FiniteSubsetsOf(Nat) /\ U # {}
  BY <1>2
<1>4. PICK X \in U : \A Y \in U : <<Y, X>> \notin Below
  <2> HIDE DEF U, Below
  <2> QED BY <1>1, <1>3, WFMin
<1>5. PICK m \in T : X = 1 .. m
  OBVIOUS
<1>6. ASSUME NEW k \in T, ~(m <= k) PROVE FALSE
  <2>1. 1 .. k \subseteq 1 .. m /\ m \in 1 .. m /\ m \notin 1 .. k
    BY <1>6
  <2>2. 1 .. k \subseteq Nat /\ 1 .. m \subseteq Nat /\ 1 .. k # 1 .. m
    BY <2>1
  <2>3. <<1 .. k, 1 .. m>> \in Below
    BY <2>1, <2>2 DEF StrictSubsetOrdering
  <2>4. 1 .. k \in U
    OBVIOUS
  <2> QED BY <1>4, <1>5, <2>3, <2>4
<1> QED BY <1>6

(* Numbers can be put in ascending order: the least first, the others, one *)
(* fewer, after it.                                                        *)
Sorts(n, f, p) == \A i \in 1 .. n : \A j \in 1 .. n : i < j => f[p[i]] <= f[p[j]]
Sortable(n) == \A f \in [1 .. n -> Nat] : \E p \in Bijection(1 .. n, 1 .. n) : Sorts(n, f, p)

LEMMA BijectionIs ==
  ASSUME NEW E, NEW p
  PROVE  p \in Bijection(E, E) <=> /\ p \in [E -> E]
                                   /\ \A q \in E : \A r \in E : p[q] = p[r] => q = r
                                   /\ \A r \in E : \E q \in E : p[q] = r
BY DEF Bijection, Injection, Surjection, IsInjective

LEMMA OneMoreSorts == ASSUME NEW n \in Nat, Sortable(n) PROVE Sortable(n + 1)
<1> SUFFICES ASSUME NEW f \in [1 .. n + 1 -> Nat]
             PROVE  \E p \in Bijection(1 .. n + 1, 1 .. n + 1) : Sorts(n + 1, f, p)
  BY DEF Sortable
<1>1. PICK m \in 1 .. n + 1 : \A i \in 1 .. n + 1 : f[m] <= f[i]
  <2> DEFINE T == {f[i] : i \in 1 .. n + 1}
  <2>1. T \in SUBSET Nat /\ f[1] \in T
    OBVIOUS
  <2>2. \E v \in T : \A k \in T : v <= k
    <3> HIDE DEF T
    <3> QED
      BY <2>1, LeastNumber
  <2> QED
    BY <2>2
<1> DEFINE skip == [k \in 1 .. n |-> IF k < m THEN k ELSE k + 1]
           g == [i \in 1 .. n |-> f[skip[i]]]
<1>2. /\ skip \in [1 .. n -> 1 .. n + 1]
      /\ \A i \in 1 .. n : skip[i] \in 1 .. n + 1 /\ skip[i] # m
      /\ \A i \in 1 .. n : \A j \in 1 .. n : skip[i] = skip[j] => i = j
      /\ \A k \in 1 .. n + 1 : k # m => \E i \in 1 .. n : skip[i] = k
  <2>1. ASSUME NEW k \in 1 .. n + 1, k # m PROVE \E i \in 1 .. n : skip[i] = k
    <3>1. CASE k < m
      <4>1. k \in 1 .. n /\ skip[k] = k
        BY <3>1
      <4> QED
        BY <4>1
    <3>2. CASE ~(k < m)
      <4>1. k - 1 \in 1 .. n /\ skip[k - 1] = k
        BY <2>1, <3>2
      <4> QED
        BY <4>1
    <3> QED
      BY <3>1, <3>2
  <2> QED
    BY <2>1
<1>3. g \in [1 .. n -> Nat] /\ \A i \in 1 .. n : g[i] = f[skip[i]]
  BY <1>2
<1> HIDE DEF skip, g
<1>4. PICK q \in Bijection(1 .. n, 1 .. n) : Sorts(n, g, q)
  BY <1>3 DEF Sortable
<1>5. /\ q \in [1 .. n -> 1 .. n]
      /\ \A i \in 1 .. n : \A j \in 1 .. n : q[i] = q[j] => i = j
      /\ \A j \in 1 .. n : \E i \in 1 .. n : q[i] = j
  BY <1>4, BijectionIs
<1> DEFINE r == [i \in 2 .. n + 1 |-> skip[q[i - 1]]]
           p == [i \in 1 .. n + 1 |-> IF i = 1 THEN m ELSE r[i]]
<1>6. /\ \A i \in 2 .. n + 1 : i - 1 \in 1 .. n /\ r[i] = skip[q[i - 1]] /\ r[i] \in 1 .. n + 1 /\ r[i] # m
      /\ \A i \in 2 .. n + 1 : \A j \in 2 .. n + 1 : r[i] = r[j] => i = j
      /\ \A k \in 1 .. n + 1 : k # m => \E i \in 2 .. n + 1 : r[i] = k
  <2>1. \A i \in 2 .. n + 1 : i - 1 \in 1 .. n /\ r[i] = skip[q[i - 1]]
    OBVIOUS
  <2> HIDE DEF r
  <2>2. ASSUME NEW i \in 2 .. n + 1 PROVE r[i] \in 1 .. n + 1 /\ r[i] # m /\ q[i - 1] \in 1 .. n
    <3>1. i - 1 \in 1 .. n /\ r[i] = skip[q[i - 1]]
      BY <2>1
    <3>2. q[i - 1] \in 1 .. n
      BY <1>5, <3>1
    <3> QED
      BY <1>2, <3>1, <3>2
  <2>3. ASSUME NEW i \in 2 .. n + 1, NEW j \in 2 .. n + 1, r[i] = r[j] PROVE i = j
    <3>1. i - 1 \in 1 .. n /\ j - 1 \in 1 .. n /\ q[i - 1] \in 1 .. n /\ q[j - 1] \in 1 .. n
      BY <2>1, <2>2
    <3>4. skip[q[i - 1]] = skip[q[j - 1]]
      BY <2>1, <2>3
    <3>5. \A v \in 1 .. n : \A w \in 1 .. n : skip[v] = skip[w] => v = w
      BY <1>2
    <3>2. q[i - 1] = q[j - 1]
      BY <3>1, <3>4, <3>5
    <3>3. i - 1 = j - 1
      BY <1>5, <3>1, <3>2
    <3> QED
      BY <3>3
  <2>4. ASSUME NEW k \in 1 .. n + 1, k # m PROVE \E i \in 2 .. n + 1 : r[i] = k
    <3>1. PICK j \in 1 .. n : skip[j] = k
      BY <1>2, <2>4
    <3>2. PICK i \in 1 .. n : q[i] = j
      BY <1>5
    <3>3. i + 1 \in 2 .. n + 1 /\ (i + 1) - 1 = i
      OBVIOUS
    <3>4. r[i + 1] = k
      BY <2>1, <3>1, <3>2, <3>3
    <3> QED
      BY <3>3, <3>4
  <2> QED
    BY <2>1, <2>2, <2>3, <2>4
<1> HIDE DEF r
<1>7. /\ p \in [1 .. n + 1 -> 1 .. n + 1] /\ p[1] = m
      /\ \A i \in 2 .. n + 1 : p[i] = r[i]
      /\ \A i \in 1 .. n + 1 : i = 1 \/ i \in 2 .. n + 1
      /\ \A i \in 2 .. n + 1 : i \in 1 .. n + 1 /\ i # 1
  <2>1. /\ \A i \in 1 .. n + 1 : i = 1 \/ i \in 2 .. n + 1
        /\ \A i \in 2 .. n + 1 : i \in 1 .. n + 1 /\ i # 1
    OBVIOUS
  <2> QED
    BY <1>6, <2>1
<1> HIDE DEF p
<1>8. p \in Bijection(1 .. n + 1, 1 .. n + 1)
  <2>1. \A i \in 1 .. n + 1 : \A j \in 1 .. n + 1 : p[i] = p[j] => i = j
    <3> SUFFICES ASSUME NEW i \in 1 .. n + 1, NEW j \in 1 .. n + 1, p[i] = p[j] PROVE i = j
      OBVIOUS
    <3>1. CASE i = 1 /\ j = 1
      BY <3>1
    <3>2. CASE i = 1 /\ j \in 2 .. n + 1
      <4>1. p[j] = r[j] /\ r[j] # m /\ p[i] = m
        BY <1>6, <1>7, <3>2
      <4> QED
        BY <4>1
    <3>3. CASE i \in 2 .. n + 1 /\ j = 1
      <4>1. p[i] = r[i] /\ r[i] # m /\ p[j] = m
        BY <1>6, <1>7, <3>3
      <4> QED
        BY <4>1
    <3>4. CASE i \in 2 .. n + 1 /\ j \in 2 .. n + 1
      <4>1. r[i] = r[j]
        BY <1>7, <3>4
      <4> QED
        BY <1>6, <3>4, <4>1
    <3> QED
      BY <1>7, <3>1, <3>2, <3>3, <3>4
  <2>2. ASSUME NEW k \in 1 .. n + 1 PROVE \E i \in 1 .. n + 1 : p[i] = k
    <3>1. CASE k = m
      <4>1. 1 \in 1 .. n + 1
        OBVIOUS
      <4> QED
        BY <1>7, <3>1, <4>1
    <3>2. CASE k # m
      <4>1. PICK i \in 2 .. n + 1 : r[i] = k
        BY <1>6, <3>2
      <4>2. i \in 1 .. n + 1 /\ p[i] = k
        BY <1>7, <4>1
      <4> QED
        BY <4>2
    <3> QED
      BY <3>1, <3>2
  <2> QED
    BY <1>7, <2>1, <2>2, BijectionIs
<1>9. Sorts(n + 1, f, p)
  <2> SUFFICES ASSUME NEW i \in 1 .. n + 1, NEW j \in 1 .. n + 1, i < j PROVE f[p[i]] <= f[p[j]]
    BY DEF Sorts
  <2>1. CASE i = 1
    BY <1>1, <1>7, <2>1
  <2>2. CASE i # 1
    <3>1. i \in 2 .. n + 1 /\ j \in 2 .. n + 1 /\ i - 1 \in 1 .. n /\ j - 1 \in 1 .. n /\ i - 1 < j - 1
      BY <2>2
    <3>2. g[q[i - 1]] <= g[q[j - 1]]
      BY <1>4, <3>1 DEF Sorts
    <3>3. p[i] = skip[q[i - 1]] /\ p[j] = skip[q[j - 1]]
      BY <1>6, <1>7, <3>1
    <3>4. q[i - 1] \in 1 .. n /\ q[j - 1] \in 1 .. n
      BY <1>5, <3>1
    <3> QED
      BY <1>3, <3>2, <3>3, <3>4
  <2> QED
    BY <2>1, <2>2
<1> QED
  BY <1>8, <1>9

LEMMA AllSort == \A n \in Nat : Sortable(n)
<1> DEFINE T == {n \in Nat : ~Sortable(n)}
<1>1. SUFFICES ASSUME T # {} PROVE FALSE
  OBVIOUS
<1>2. PICK n \in T : \A k \in T : n <= k
  <2>1. T \in SUBSET Nat
    OBVIOUS
  <2> HIDE DEF T
  <2> QED
    BY <1>1, <2>1, LeastNumber
<1>3. Sortable(0)
  <2> SUFFICES ASSUME NEW f \in [1 .. 0 -> Nat] PROVE \E p \in Bijection(1 .. 0, 1 .. 0) : Sorts(0, f, p)
    BY DEF Sortable
  <2>1. 1 .. 0 = {}
    OBVIOUS
  <2>2. Sorts(0, f, f) /\ f \in [1 .. 0 -> 1 .. 0]
    BY <2>1 DEF Sorts
  <2>3. f \in Bijection(1 .. 0, 1 .. 0)
    BY <2>1, <2>2, BijectionIs
  <2> QED
    BY <2>2, <2>3
<1>4. n - 1 \in Nat /\ n - 1 \notin T
  BY <1>2, <1>3
<1>5. Sortable((n - 1) + 1)
  BY <1>4, OneMoreSorts
<1> QED
  BY <1>5
-----------------------------------------------------------------------------
LEMMA SameThere ==
  /\ \A T : A!Cardinality(T) = Cardinality(T)
  /\ \A T : A!Bijection(T, T) = Bijection(T, T)
<1>1. \A T : A!Cardinality(T) = Cardinality(T)
  BY DEF A!Cardinality, Cardinality
<1>2. \A T : A!Bijection(T, T) = Bijection(T, T)
  BY DEF A!Bijection, A!Injection, A!Surjection, A!IsInjective, Bijection, Injection, Surjection, IsInjective
<1> QED
  BY <1>1, <1>2

Happening == [n : Nat, ok : BOOLEAN, latency : Latencies]

LEMMA OrderSorts ==
  ASSUME A!TelemetryAssumption, NEW s \in Seq(Happening)
  PROVE  /\ Len(s) \in Nat /\ DOMAIN s = 1 .. Len(s)
         /\ A!Order(s) \in Bijection(1 .. Len(s), 1 .. Len(s))
         /\ \A i \in 1 .. Len(s) : s[i] \in Happening /\ s[i].latency \in Nat
         /\ \A i \in 1 .. Len(s) : \A j \in 1 .. Len(s) :
              i < j => s[A!Order(s)[i]].latency <= s[A!Order(s)[j]].latency
<1>1. Len(s) \in Nat /\ DOMAIN s = 1 .. Len(s)
  OBVIOUS
<1>2. \A i \in 1 .. Len(s) : s[i] \in Happening /\ s[i].latency \in Nat
  <2> SUFFICES ASSUME NEW i \in 1 .. Len(s) PROVE s[i] \in Happening /\ s[i].latency \in Nat
    OBVIOUS
  <2>1. s[i] \in Happening
    OBVIOUS
  <2>2. s[i].latency \in Latencies
    BY <2>1 DEF Happening
  <2> QED
    BY <2>1, <2>2 DEF A!TelemetryAssumption
<1> DEFINE n == Len(s)
           f == [i \in 1 .. n |-> s[i].latency]
<1>3. f \in [1 .. n -> Nat]
  BY <1>2
<1>4. PICK p \in Bijection(1 .. n, 1 .. n) : Sorts(n, f, p)
  <2> HIDE DEF f
  <2> QED
    BY <1>1, <1>3, AllSort DEF Sortable
<1>5. p \in [1 .. n -> 1 .. n]
  BY <1>4, BijectionIs
<1>6. \A i \in 1 .. n : \A j \in 1 .. n : i < j => s[p[i]].latency <= s[p[j]].latency
  <2> SUFFICES ASSUME NEW i \in 1 .. n, NEW j \in 1 .. n, i < j
               PROVE  s[p[i]].latency <= s[p[j]].latency
    OBVIOUS
  <2>1. f[p[i]] <= f[p[j]]
    BY <1>4 DEF Sorts
  <2>2. p[i] \in 1 .. n /\ p[j] \in 1 .. n
    BY <1>5
  <2> QED
    BY <2>1, <2>2
<1>7. /\ A!Order(s) \in Bijection(1 .. n, 1 .. n)
      /\ \A i \in 1 .. n : \A j \in 1 .. n :
           i < j => s[A!Order(s)[i]].latency <= s[A!Order(s)[j]].latency
  <2> HIDE DEF f, n
  <2> QED
    BY <1>1, <1>4, <1>6, SameThere DEF A!Order, n
<1> QED
  BY <1>1, <1>2, <1>7

Chosen(n, p, G) == {i \in 1 .. n : p[i] \in G}

(* As many events do not exceed a latency before the sorting as after it.  *)
LEMMA SortingKeepsCounts ==
  ASSUME NEW n \in Nat, NEW p \in Bijection(1 .. n, 1 .. n), NEW G \in SUBSET (1 .. n)
  PROVE  /\ IsFiniteSet(G)
         /\ IsFiniteSet(Chosen(n, p, G))
         /\ Cardinality(Chosen(n, p, G)) = Cardinality(G)
<1> DEFINE H == {i \in 1 .. n : p[i] \in G}
           q == [i \in H |-> p[i]]
<1>1. IsFiniteSet(H) /\ IsFiniteSet(G)
  <2>1. IsFiniteSet(1 .. n)
    BY FS_Interval
  <2> QED
    BY <2>1, FS_Subset
<1>2. /\ p \in [1 .. n -> 1 .. n]
      /\ \A i \in 1 .. n : \A j \in 1 .. n : p[i] = p[j] => i = j
      /\ \A j \in 1 .. n : \E i \in 1 .. n : p[i] = j
  BY BijectionIs
<1>3. q \in [H -> G] /\ DOMAIN q = H /\ \A i \in H : i \in 1 .. n /\ q[i] = p[i]
  OBVIOUS
<1>4. \A i \in H : \A j \in H : q[i] = q[j] => i = j
  BY <1>2, <1>3
<1>5. \A j \in G : \E i \in H : q[i] = j
  BY <1>2, <1>3
<1>6. q \in Bijection(H, G)
  <2> HIDE DEF q, H
  <2> QED
    BY <1>3, <1>4, <1>5 DEF Bijection, Injection, Surjection, IsInjective
<1>7. ExistsBijection(H, G)
  <2> HIDE DEF q, H
  <2> QED
    BY <1>6 DEF ExistsBijection
<1>8. Cardinality(G) = Cardinality(H)
  <2> HIDE DEF q, H
  <2> QED
    BY <1>1, <1>7, FS_Bijection
<1> QED
  BY <1>1, <1>8 DEF Chosen

Hundredths == {50, 95, 99}

LEMMA IndexRight ==
  ASSUME NEW pct \in Hundredths, NEW n \in Nat, n > 0
  PROVE  /\ A!Index(pct, n) \in 1 .. n
         /\ 100 * A!Index(pct, n) >= pct * n
         /\ 100 * (A!Index(pct, n) - 1) < pct * n
<1>1. CASE pct = 50
  BY <1>1 DEF A!Index, A!Ceiling
<1>2. CASE pct = 95
  BY <1>2 DEF A!Index, A!Ceiling
<1>3. CASE pct = 99
  BY <1>3 DEF A!Index, A!Ceiling
<1> QED
  BY <1>1, <1>2, <1>3 DEF Hundredths

LEMMA PercentileRight ==
  ASSUME A!TelemetryAssumption, NEW s \in Seq(Happening), Len(s) > 0, NEW pct \in Hundredths
  PROVE  A!IsPercentile(s, pct, A!Percentile(s, pct)) /\ A!Percentile(s, pct) \in Nat
<1> DEFINE n == Len(s)
           k == A!Index(pct, n)
           p == A!Order(s)
           v == A!Percentile(s, pct)
<1>1. /\ n \in Nat /\ n > 0 /\ DOMAIN s = 1 .. n /\ p \in Bijection(1 .. n, 1 .. n)
      /\ \A i \in 1 .. n : s[i] \in Happening /\ s[i].latency \in Nat
      /\ \A i \in 1 .. n : \A j \in 1 .. n : i < j => s[p[i]].latency <= s[p[j]].latency
  BY OrderSorts
<1>2. k \in 1 .. n /\ 100 * k >= pct * n /\ 100 * (k - 1) < pct * n
  BY <1>1, IndexRight
<1>3. p \in [1 .. n -> 1 .. n]
  BY <1>1, BijectionIs
<1>4. v = s[p[k]].latency /\ v \in Nat
  <2>1. v = A!Sorted(s)[k]
    BY DEF A!Percentile
  <2>2. A!Sorted(s)[k] = s[p[k]].latency
    BY <1>1, <1>2 DEF A!Sorted
  <2>3. p[k] \in 1 .. n
    BY <1>2, <1>3
  <2> QED
    BY <1>1, <2>1, <2>2, <2>3
<1> HIDE DEF n, k, p, v
<1>5. ASSUME NEW w \in Nat
      PROVE  LET H == {i \in 1 .. n : s[p[i]].latency <= w}
             IN  IsFiniteSet(H) /\ Cardinality(H) = A!Upto(s, w) /\ A!Upto(s, w) \in Nat
  <2> DEFINE G == {i \in 1 .. n : s[i].latency <= w}
             H == {i \in 1 .. n : s[p[i]].latency <= w}
  <2>1. H = Chosen(n, p, G)
    BY <1>3 DEF Chosen
  <2>2. A!Upto(s, w) = Cardinality(G)
    BY <1>1, SameThere DEF A!Upto
  <2>3. G \in SUBSET (1 .. n)
    OBVIOUS
  <2>4. IsFiniteSet(G) /\ IsFiniteSet(H) /\ Cardinality(H) = Cardinality(G)
    <3> HIDE DEF G, H
    <3> QED
      BY <1>1, <2>1, <2>3, SortingKeepsCounts
  <2> HIDE DEF G, H
  <2>5. IsFiniteSet(H) /\ Cardinality(H) = A!Upto(s, w) /\ A!Upto(s, w) \in Nat
    BY <2>2, <2>4, FS_CardinalityType
  <2> QED
    BY <2>5 DEF H
<1>6. 100 * A!Upto(s, v) >= pct * n
  <2> DEFINE H == {i \in 1 .. n : s[p[i]].latency <= v}
  <2>1. IsFiniteSet(H) /\ Cardinality(H) = A!Upto(s, v) /\ A!Upto(s, v) \in Nat
    BY <1>4, <1>5
  <2>2. ASSUME NEW i \in 1 .. k PROVE i \in H
    <3>1. i \in 1 .. n /\ (i < k \/ i = k)
      BY <1>1, <1>2
    <3>2. p[i] \in 1 .. n /\ s[p[i]].latency \in Nat
      BY <1>1, <1>3, <3>1
    <3>3. s[p[i]].latency <= v
      BY <1>1, <1>2, <1>4, <3>1, <3>2
    <3> QED
      BY <3>1, <3>3
  <2>3. 1 .. k \in SUBSET H
    <3> HIDE DEF H
    <3> QED
      BY <2>2
  <2>4. k \in Nat /\ Cardinality(1 .. k) = k
    <3>1. k \in Int /\ 1 \in Int /\ ~(1 > k) /\ k - 1 + 1 = k /\ k \in Nat
      BY <1>1, <1>2
    <3> HIDE DEF k
    <3> QED
      BY <3>1, FS_Interval
  <2>5. k <= A!Upto(s, v)
    <3> HIDE DEF H
    <3>1. Cardinality(1 .. k) <= Cardinality(H)
      BY <2>1, <2>3, FS_Subset
    <3> QED
      BY <2>1, <2>4, <3>1
  <2>6. 100 * A!Upto(s, v) >= 100 * k
    BY <2>1, <2>4, <2>5
  <2>7. pct * n \in Nat
    BY <1>1 DEF Hundredths
  <2> QED
    BY <1>2, <2>1, <2>4, <2>6, <2>7
<1>7. ASSUME NEW w \in Latencies, w < v PROVE 100 * A!Upto(s, w) < pct * n
  <2> DEFINE H == {i \in 1 .. n : s[p[i]].latency <= w}
  <2>0. w \in Nat
    BY DEF A!TelemetryAssumption
  <2>1. IsFiniteSet(H) /\ Cardinality(H) = A!Upto(s, w) /\ A!Upto(s, w) \in Nat
    BY <1>5, <2>0
  <2>2. ASSUME NEW i \in H PROVE i \in 1 .. k - 1
    <3>1. i \in 1 .. n /\ s[p[i]].latency <= w
      OBVIOUS
    <3>2. p[i] \in 1 .. n /\ s[p[i]].latency \in Nat
      BY <1>1, <1>3, <3>1
    <3>3. ~(s[p[k]].latency <= s[p[i]].latency)
      BY <1>4, <1>7, <2>0, <3>1, <3>2
    <3>4. i # k /\ ~(k < i)
      BY <1>1, <1>2, <3>1, <3>2, <3>3, <1>4
    <3> QED
      BY <1>1, <1>2, <3>1, <3>4
  <2>3. H \in SUBSET (1 .. k - 1)
    <3> HIDE DEF H
    <3> QED
      BY <2>2
  <2>4. k - 1 \in Nat /\ IsFiniteSet(1 .. k - 1) /\ Cardinality(1 .. k - 1) = k - 1
    <3>1. k - 1 \in Int /\ 1 \in Int /\ (1 > k - 1 => k - 1 = 0) /\ (k - 1) - 1 + 1 = k - 1 /\ k - 1 \in Nat
      BY <1>1, <1>2
    <3> HIDE DEF k
    <3> QED
      BY <3>1, FS_Interval
  <2>5. A!Upto(s, w) <= k - 1
    <3> HIDE DEF H
    <3>1. Cardinality(H) <= Cardinality(1 .. k - 1)
      BY <2>4, <2>3, FS_Subset
    <3> QED
      BY <2>1, <2>4, <3>1
  <2>6. 100 * A!Upto(s, w) <= 100 * (k - 1)
    BY <2>1, <2>4, <2>5
  <2>7. pct * n \in Nat
    BY <1>1 DEF Hundredths
  <2> QED
    BY <1>2, <2>1, <2>4, <2>6, <2>7
<1>8. A!IsPercentile(s, pct, v)
  BY <1>6, <1>7 DEF A!IsPercentile, n
<1> QED
  BY <1>4, <1>8 DEF v
-----------------------------------------------------------------------------
Summaries ==
  [events : Seq(Happening), operations : Nat, errors : Nat, p50 : Nat, p95 : Nat, p99 : Nat]

Truthful(d, s) ==
  /\ d \in Summaries /\ d.operations = Len(d.events) /\ d.operations <= Capacity
  /\ d.errors <= d.operations
  /\ A!IsPercentile(d.events, 50, d.p50) /\ A!IsPercentile(d.events, 95, d.p95)
  /\ A!IsPercentile(d.events, 99, d.p99)
  /\ \E i \in 1 .. Len(s) :
       i + d.operations - 1 <= Len(s) /\ SubSeq(s, i, i + d.operations - 1) = d.events

Latest(s) == SubSeq(s, IF Len(s) > Capacity THEN Len(s) - Capacity + 1 ELSE 1, Len(s))

Busy(f)      == {r \in Recorders : f[r] # "idle"}
Missing(f, g) == {r \in Recorders : f[r] = "tallied" /\ ~g[r].ok}

TelemetryInv ==
  /\ pushed \in Seq(Happening) /\ total \in Nat /\ errors \in Nat /\ made \in Nat
  /\ made <= MaxEvents
  /\ spot \in [Recorders -> {"idle", "counted", "tallied"}]
  /\ event \in [Recorders -> Happening \union {<<>>}]
  /\ \A r \in Recorders : spot[r] # "idle" => event[r] \in Happening
  /\ IsFiniteSet(Busy(spot)) /\ total = Len(pushed) + Cardinality(Busy(spot)) /\ total = made
  /\ errors = A!Failed(pushed) + Cardinality(Missing(spot, event))
  /\ ring = Latest(pushed)
  /\ flush # <<>> => Truthful(flush, pushed)
  /\ stored \in Seq(Summaries) /\ \A i \in 1 .. Len(stored) : Truthful(stored[i], pushed)

LEMMA FailedIs ==
  ASSUME NEW s \in Seq(Happening)
  PROVE  A!Failed(s) \in Nat /\ A!Failed(s) <= Len(s) /\ IsFiniteSet({i \in DOMAIN s : ~s[i].ok})
<1> DEFINE F == {i \in DOMAIN s : ~s[i].ok}
<1>1. Len(s) \in Nat /\ DOMAIN s = 1 .. Len(s) /\ A!Failed(s) = Cardinality(F)
  BY SameThere DEF A!Failed
<1>2. F \in SUBSET (1 .. Len(s))
  BY <1>1
<1>3. IsFiniteSet(1 .. Len(s)) /\ Cardinality(1 .. Len(s)) = Len(s)
  <2>1. Len(s) \in Int /\ 1 \in Int /\ (1 > Len(s) => Len(s) = 0) /\ Len(s) - 1 + 1 = Len(s)
    BY <1>1
  <2> QED
    BY <2>1, FS_Interval
<1> HIDE DEF F
<1>4. IsFiniteSet(F) /\ Cardinality(F) <= Cardinality(1 .. Len(s))
  BY <1>2, <1>3, FS_Subset
<1>5. Cardinality(F) \in Nat
  BY <1>4, FS_CardinalityType
<1> QED
  BY <1>1, <1>3, <1>4, <1>5 DEF F

LEMMA FailedAppend ==
  ASSUME NEW s \in Seq(Happening), NEW e \in Happening
  PROVE  A!Failed(Append(s, e)) = A!Failed(s) + (IF e.ok THEN 0 ELSE 1)
<1> DEFINE n == Len(s)
           t == Append(s, e)
           F == {i \in DOMAIN s : ~s[i].ok}
           G == {i \in DOMAIN t : ~t[i].ok}
<1>1. /\ n \in Nat /\ DOMAIN s = 1 .. n /\ DOMAIN t = 1 .. n + 1
      /\ t[n + 1] = e /\ \A i \in 1 .. n : t[i] = s[i]
  OBVIOUS
<1>2. IsFiniteSet(F) /\ A!Failed(s) = Cardinality(F) /\ A!Failed(t) = Cardinality(G)
  BY FailedIs, SameThere DEF A!Failed
<1>3. e.ok \in BOOLEAN
  BY DEF Happening
<1>4. n + 1 \notin F /\ (e.ok => G = F) /\ (~e.ok => G = F \union {n + 1})
  <2> HIDE DEF t, n
  <2>1. 1 .. n + 1 = (1 .. n) \union {n + 1} /\ n + 1 \notin 1 .. n
    BY <1>1
  <2> QED
    BY <1>1, <2>1
<1> HIDE DEF F, G, t
<1>5. CASE e.ok
  <2>1. A!Failed(t) = A!Failed(s) /\ A!Failed(s) \in Nat
    BY <1>2, <1>4, <1>5, FailedIs
  <2> QED
    BY <1>5, <2>1 DEF t
<1>6. CASE ~e.ok
  <2>1. A!Failed(t) = A!Failed(s) + 1
    BY <1>2, <1>4, <1>6, OneMore
  <2> QED
    BY <1>6, <2>1 DEF t
<1> QED
  BY <1>5, <1>6

(* What was a stretch of a sequence is still one after an append.          *)
LEMMA StretchStays ==
  ASSUME NEW E, NEW s \in Seq(E), NEW e \in E, NEW i \in 1 .. Len(s), NEW j \in Nat, j <= Len(s)
  PROVE  SubSeq(Append(s, e), i, j) = SubSeq(s, i, j)
BY SubSeqProperties

LEMMA TruthfulStays ==
  ASSUME NEW d, NEW s \in Seq(Happening), NEW e \in Happening, Truthful(d, s)
  PROVE  Truthful(d, Append(s, e))
<1>1. PICK i \in 1 .. Len(s) :
        i + d.operations - 1 <= Len(s) /\ SubSeq(s, i, i + d.operations - 1) = d.events
  BY DEF Truthful
<1>2. d.operations \in Nat
  BY DEF Truthful, Summaries
<1>3. Len(s) \in Nat /\ Len(Append(s, e)) = Len(s) + 1 /\ i + d.operations - 1 \in Nat
  BY <1>2
<1>4. SubSeq(Append(s, e), i, i + d.operations - 1) = d.events
  BY <1>1, <1>3, StretchStays
<1>5. i \in 1 .. Len(Append(s, e)) /\ i + d.operations - 1 <= Len(Append(s, e))
  BY <1>1, <1>2, <1>3
<1> QED
  BY <1>4, <1>5 DEF Truthful

(* The ring holds the latest events, one pushed into it as well.           *)
Lost(s) == IF Len(s) > Capacity THEN Len(s) - Capacity ELSE 0

LEMMA LatestIs ==
  ASSUME A!TelemetryAssumption, NEW s \in Seq(Happening)
  PROVE  /\ Capacity \in Nat /\ Capacity > 0 /\ Len(s) \in Nat
         /\ Lost(s) \in Nat /\ Lost(s) <= Len(s) /\ Len(s) - Lost(s) <= Capacity
         /\ Latest(s) \in Seq(Happening) /\ Len(Latest(s)) = Len(s) - Lost(s)
         /\ \A i \in 1 .. Len(s) - Lost(s) : Latest(s)[i] = s[Lost(s) + i]
         /\ Latest(s) = SubSeq(s, Lost(s) + 1, Len(s))
<1> DEFINE n == Len(s)
           m == Lost(s)
<1>1. Capacity \in Nat /\ Capacity > 0 /\ n \in Nat
  BY DEF A!TelemetryAssumption
<1>2. m \in Nat /\ m <= n /\ n - m <= Capacity
  BY <1>1 DEF Lost
<1>3. Latest(s) = SubSeq(s, m + 1, n)
  BY <1>1 DEF Latest, Lost
<1> HIDE DEF m
<1>4. /\ SubSeq(s, m + 1, n) \in Seq(Happening) /\ Len(SubSeq(s, m + 1, n)) = n - m
      /\ \A i \in 1 .. n - m : SubSeq(s, m + 1, n)[i] = s[m + i]
  <2>1. \A i \in m + 1 .. n : s[i] \in Happening
    BY <1>2
  <2> QED
    BY <1>1, <1>2, <2>1
<1> QED
  BY <1>1, <1>2, <1>3, <1>4 DEF m

LEMMA RoomForOne ==
  ASSUME A!TelemetryAssumption, NEW s \in Seq(Happening), NEW e \in Happening
  PROVE  Append(A!Room(Latest(s)), e) = Latest(Append(s, e))
<1> DEFINE n == Len(s)
           m == Lost(s)
           g == Latest(s)
           t == Append(s, e)
           k == Lost(t)
           h == Append(A!Room(g), e)
<1>1. /\ Capacity \in Nat /\ Capacity > 0 /\ n \in Nat /\ m \in Nat /\ m <= n
      /\ g \in Seq(Happening) /\ Len(g) = n - m /\ \A i \in 1 .. n - m : g[i] = s[m + i]
  BY LatestIs
<1>2. /\ t \in Seq(Happening) /\ Len(t) = n + 1 /\ t[n + 1] = e
      /\ \A i \in 1 .. n : t[i] = s[i]
  OBVIOUS
<1>3. /\ k \in Nat /\ k <= n + 1 /\ Latest(t) \in Seq(Happening) /\ Len(Latest(t)) = n + 1 - k
      /\ \A i \in 1 .. n + 1 - k : Latest(t)[i] = t[k + i]
  <2>1. Len(t) \in Nat /\ Lost(t) \in Nat /\ Lost(t) <= Len(t)
        /\ Latest(t) \in Seq(Happening) /\ Len(Latest(t)) = Len(t) - Lost(t)
        /\ \A i \in 1 .. Len(t) - Lost(t) : Latest(t)[i] = t[Lost(t) + i]
    <3> HIDE DEF t
    <3> QED
      BY <1>2, LatestIs
  <2> QED
    BY <1>2, <2>1
<1>9. m = (IF n > Capacity THEN n - Capacity ELSE 0)
      /\ k = (IF n + 1 > Capacity THEN n + 1 - Capacity ELSE 0)
  <2>1. n = Len(s) /\ m = Lost(s) /\ k = Lost(t) /\ Len(t) = n + 1
    BY <1>2
  <2>2. Lost(s) = (IF n > Capacity THEN n - Capacity ELSE 0)
    BY DEF Lost
  <2>3. Lost(t) = (IF Len(t) > Capacity THEN Len(t) - Capacity ELSE 0)
    BY DEF Lost
  <2> HIDE DEF n, m, k, t
  <2>4. Lost(t) = (IF n + 1 > Capacity THEN n + 1 - Capacity ELSE 0)
    <3>1. Len(t) = n + 1
      BY <2>1
    <3> QED
      BY <1>1, <2>3, <3>1
  <2> QED
    BY <2>1, <2>2, <2>4
<1> HIDE DEF k, m
<1>4. /\ A!Room(g) \in Seq(Happening) /\ Len(A!Room(g)) = n - k
      /\ \A i \in 1 .. n - k : A!Room(g)[i] = s[k + i]
  <2>1. CASE n - m >= Capacity
    <3>1. A!Room(g) = Tail(g) /\ g # <<>>
      BY <1>1, <2>1 DEF A!Room
    <3>2. /\ Tail(g) \in Seq(Happening) /\ Len(Tail(g)) = n - m - 1
          /\ \A i \in 1 .. n - m - 1 : Tail(g)[i] = g[i + 1]
      <4> HIDE DEF g
      <4> QED
        BY <1>1, <3>1
    <3>3. k = m + 1
      BY <1>1, <1>9, <2>1
    <3>4. ASSUME NEW i \in 1 .. n - k PROVE Tail(g)[i] = s[k + i]
      <4>1. i \in 1 .. n - m - 1 /\ i + 1 \in 1 .. n - m /\ m + (i + 1) = k + i
        BY <1>1, <3>3
      <4> HIDE DEF g
      <4>2. Tail(g)[i] = g[i + 1] /\ g[i + 1] = s[m + (i + 1)]
        BY <1>1, <3>2, <4>1
      <4> QED
        BY <4>1, <4>2
    <3>5. n - k = n - m - 1
      BY <1>1, <3>3
    <3> HIDE DEF g
    <3> QED
      BY <3>1, <3>2, <3>4, <3>5
  <2>2. CASE n - m < Capacity
    <3>1. A!Room(g) = g
      BY <1>1, <2>2 DEF A!Room
    <3>2. k = 0 /\ m = 0
      BY <1>1, <1>9, <2>2
    <3> HIDE DEF g
    <3> QED
      BY <1>1, <3>1, <3>2
  <2> QED
    BY <1>1, <2>1, <2>2
<1> HIDE DEF g
<1>5. k <= n
  BY <1>1, <1>9
<1>6. /\ h \in Seq(Happening) /\ Len(h) = n + 1 - k /\ h[n + 1 - k] = e
      /\ \A i \in 1 .. n - k : h[i] = s[k + i]
  <2>1. Len(A!Room(g)) + 1 = n + 1 - k
    BY <1>1, <1>3, <1>4
  <2> QED
    BY <1>1, <1>3, <1>4, <1>5, <2>1
<1> HIDE DEF h, t
<1>7. ASSUME NEW i \in 1 .. n + 1 - k PROVE h[i] = Latest(t)[i]
  <2>1. CASE i = n + 1 - k
    <3>1. k + i = n + 1
      BY <1>1, <1>3, <2>1
    <3> QED
      BY <1>2, <1>3, <1>6, <2>1, <3>1
  <2>2. CASE i # n + 1 - k
    <3>1. n \in Nat /\ k \in Nat
      BY <1>1, <1>3
    <3>2. i \in 1 .. n - k /\ k + i \in 1 .. n
      <4> HIDE DEF n
      <4> QED
        BY <2>2, <3>1
    <3>3. h[i] = s[k + i] /\ Latest(t)[i] = t[k + i] /\ t[k + i] = s[k + i]
      BY <1>2, <1>3, <1>6, <3>2
    <3> QED
      BY <3>3
  <2> QED
    BY <2>1, <2>2
<1>8. h = Latest(t)
  BY <1>3, <1>6, <1>7, SeqEqual
<1> QED
  BY <1>8 DEF h, t, g
-----------------------------------------------------------------------------
LEMMA TelemetryStarts == ASSUME A!TelemetryAssumption, A!Init PROVE TelemetryInv
<1>1. pushed = <<>> /\ Len(pushed) = 0 /\ stored = <<>> /\ pushed \in Seq(Happening)
  BY DEF A!Init
<1>2. A!Failed(pushed) = 0
  <2>1. A!Failed(pushed) \in Nat /\ A!Failed(pushed) <= Len(pushed)
    BY <1>1, FailedIs
  <2> QED
    BY <1>1, <2>1
<1>3. Busy(spot) = {} /\ Missing(spot, event) = {} /\ IsFiniteSet({}) /\ Cardinality({}) = 0
  BY FS_EmptySet DEF A!Init, Busy, Missing
<1>4. ring = Latest(pushed)
  <2>1. Len(Latest(pushed)) = Len(pushed) - Lost(pushed) /\ Lost(pushed) \in Nat
        /\ Lost(pushed) <= Len(pushed) /\ Latest(pushed) \in Seq(Happening)
    BY <1>1, LatestIs
  <2>2. Len(Latest(pushed)) = 0
    BY <1>1, <2>1
  <2>3. Latest(pushed) = <<>>
    BY <2>1, <2>2
  <2> QED
    BY <2>3 DEF A!Init
<1>5. total = 0 /\ errors = 0 /\ made = 0 /\ MaxEvents \in Nat /\ flush = <<>>
  BY DEF A!Init, A!TelemetryAssumption
<1>6. /\ spot \in [Recorders -> {"idle", "counted", "tallied"}]
      /\ event \in [Recorders -> Happening \union {<<>>}]
      /\ \A r \in Recorders : spot[r] = "idle"
  BY DEF A!Init
<1>7. stored \in Seq(Summaries) /\ Len(stored) = 0
  BY <1>1
<1> QED
  BY <1>1, <1>2, <1>3, <1>4, <1>5, <1>6, <1>7 DEF TelemetryInv

(* Where a recorder goes, and with which event: the sets of those at work. *)
Goes(f, r, s, h) == h = [f EXCEPT ![r] = s]
Spares(r, g, k)  == \A q \in Recorders : q # r => k[q] = g[q]

LEMMA BusyMoves ==
  ASSUME NEW f \in [Recorders -> {"idle", "counted", "tallied"}], NEW r \in Recorders,
         NEW s \in {"idle", "counted", "tallied"}, NEW h, Goes(f, r, s, h),
         IsFiniteSet(Busy(f))
  PROVE  /\ h \in [Recorders -> {"idle", "counted", "tallied"}] /\ h[r] = s
         /\ \A q \in Recorders : q # r => h[q] = f[q]
         /\ IsFiniteSet(Busy(h)) /\ Cardinality(Busy(h)) \in Nat /\ Cardinality(Busy(f)) \in Nat
         /\ f[r] = "idle" /\ s # "idle" => Cardinality(Busy(h)) = Cardinality(Busy(f)) + 1
         /\ f[r] # "idle" /\ s = "idle" => Cardinality(Busy(h)) = Cardinality(Busy(f)) - 1
         /\ (f[r] = "idle" <=> s = "idle") => Busy(h) = Busy(f)
<1>1. /\ h \in [Recorders -> {"idle", "counted", "tallied"}] /\ h[r] = s
      /\ \A q \in Recorders : q # r => h[q] = f[q]
  BY DEF Goes
<1>2. Busy(h) = IF s = "idle" THEN Busy(f) \ {r} ELSE Busy(f) \union {r}
  BY <1>1 DEF Busy
<1>3. r \in Busy(f) <=> f[r] # "idle"
  BY DEF Busy
<1>4. IsFiniteSet(Busy(f) \ {r}) /\ IsFiniteSet(Busy(f) \union {r})
  BY FS_AddElement, FS_RemoveElement
<1>5. IsFiniteSet(Busy(h)) /\ Cardinality(Busy(h)) \in Nat /\ Cardinality(Busy(f)) \in Nat
  BY <1>2, <1>4, FS_CardinalityType
<1>6. ASSUME f[r] = "idle", s # "idle" PROVE Cardinality(Busy(h)) = Cardinality(Busy(f)) + 1
  BY <1>2, <1>3, <1>6, OneMore
<1>7. ASSUME f[r] # "idle", s = "idle" PROVE Cardinality(Busy(h)) = Cardinality(Busy(f)) - 1
  BY <1>2, <1>3, <1>7, OneMore
<1>8. ASSUME f[r] = "idle" <=> s = "idle" PROVE Busy(h) = Busy(f)
  BY <1>2, <1>3, <1>8
<1> QED
  BY <1>1, <1>5, <1>6, <1>7, <1>8

LEMMA MissingMoves ==
  ASSUME NEW f \in [Recorders -> {"idle", "counted", "tallied"}], NEW r \in Recorders,
         NEW s \in {"idle", "counted", "tallied"}, NEW h, Goes(f, r, s, h),
         IsFiniteSet(Busy(f)), NEW g, NEW k, Spares(r, g, k)
  PROVE  /\ f[r] # "tallied" /\ s # "tallied" => Missing(h, k) = Missing(f, g)
         /\ f[r] # "tallied" /\ s = "tallied" /\ k[r].ok => Missing(h, k) = Missing(f, g)
         /\ f[r] # "tallied" /\ s = "tallied" /\ ~k[r].ok =>
              Cardinality(Missing(h, k)) = Cardinality(Missing(f, g)) + 1
         /\ f[r] = "tallied" /\ s # "tallied" /\ g[r].ok => Missing(h, k) = Missing(f, g)
         /\ f[r] = "tallied" /\ s # "tallied" /\ ~g[r].ok =>
              Cardinality(Missing(h, k)) = Cardinality(Missing(f, g)) - 1
         /\ IsFiniteSet(Missing(f, g)) /\ Cardinality(Missing(f, g)) \in Nat
         /\ Cardinality(Missing(f, g)) <= Cardinality(Busy(f))
<1>1. h[r] = s /\ \A q \in Recorders : q # r => h[q] = f[q]
  BY DEF Goes
<1>2. Missing(f, g) \in SUBSET Busy(f)
  BY DEF Missing, Busy
<1>3. /\ IsFiniteSet(Missing(f, g)) /\ Cardinality(Missing(f, g)) \in Nat
      /\ Cardinality(Missing(f, g)) <= Cardinality(Busy(f))
  BY <1>2, FS_Subset, FS_CardinalityType
<1>4. r \in Missing(f, g) <=> f[r] = "tallied" /\ ~g[r].ok
  BY DEF Missing
<1>5. Missing(h, k) = IF s = "tallied" /\ ~k[r].ok THEN Missing(f, g) \union {r} ELSE Missing(f, g) \ {r}
  BY <1>1 DEF Missing, Spares
<1>6. ASSUME f[r] # "tallied", s = "tallied", ~k[r].ok
      PROVE  Cardinality(Missing(h, k)) = Cardinality(Missing(f, g)) + 1
  <2>1. Missing(h, k) = Missing(f, g) \union {r} /\ r \notin Missing(f, g)
    BY <1>4, <1>5, <1>6
  <2> QED
    BY <1>3, <2>1, OneMore
<1>7. ASSUME f[r] = "tallied", s # "tallied", ~g[r].ok
      PROVE  Cardinality(Missing(h, k)) = Cardinality(Missing(f, g)) - 1
  <2>1. Missing(h, k) = Missing(f, g) \ {r} /\ r \in Missing(f, g)
    BY <1>4, <1>5, <1>7
  <2> QED
    BY <1>3, <2>1, OneMore
<1>8. ASSUME r \notin Missing(f, g), ~(s = "tallied" /\ ~k[r].ok) PROVE Missing(h, k) = Missing(f, g)
  BY <1>5, <1>8
<1> QED
  BY <1>3, <1>4, <1>6, <1>7, <1>8

LEMMA EventCounted ==
  ASSUME A!TelemetryAssumption, TelemetryInv, NEW r \in Recorders, A!CountOperation(r)
  PROVE  TelemetryInv'
<1>1. PICK ok \in BOOLEAN, ms \in Latencies : event' = [event EXCEPT ![r] = A!Event(made, ok, ms)]
  BY DEF A!CountOperation
<1>2. A!Event(made, ok, ms) \in Happening
  BY DEF A!Event, Happening, TelemetryInv
<1>3. /\ spot[r] = "idle" /\ made < MaxEvents /\ made' = made + 1 /\ total' = total + 1
      /\ Goes(spot, r, "counted", spot') /\ errors' = errors /\ pushed' = pushed /\ ring' = ring
      /\ flush' = flush /\ stored' = stored
  BY DEF A!CountOperation, A!Goto, Goes, A!readers
<1>4. /\ event' \in [Recorders -> Happening \union {<<>>}] /\ event'[r] = A!Event(made, ok, ms)
      /\ Spares(r, event, event')
  BY <1>1, <1>2 DEF TelemetryInv, Spares
<1>5. /\ spot' \in [Recorders -> {"idle", "counted", "tallied"}] /\ spot'[r] = "counted"
      /\ \A q \in Recorders : q # r => spot'[q] = spot[q]
      /\ IsFiniteSet(Busy(spot')) /\ Cardinality(Busy(spot)) \in Nat
      /\ Cardinality(Busy(spot')) = Cardinality(Busy(spot)) + 1
  <2>1. /\ spot \in [Recorders -> {"idle", "counted", "tallied"}] /\ IsFiniteSet(Busy(spot))
        /\ spot[r] = "idle" /\ Goes(spot, r, "counted", spot')
    BY <1>3 DEF TelemetryInv
  <2> QED
    BY <2>1, BusyMoves
<1>6. Missing(spot', event') = Missing(spot, event)
  <2>1. /\ spot \in [Recorders -> {"idle", "counted", "tallied"}] /\ IsFiniteSet(Busy(spot))
        /\ spot[r] = "idle" /\ Goes(spot, r, "counted", spot') /\ Spares(r, event, event')
    BY <1>3, <1>4 DEF TelemetryInv
  <2> QED
    BY <2>1, MissingMoves
<1>7. \A q \in Recorders : spot'[q] # "idle" => event'[q] \in Happening
  BY <1>2, <1>4, <1>5 DEF TelemetryInv, Spares
<1>8. Len(pushed) \in Nat /\ MaxEvents \in Nat
  BY DEF TelemetryInv, A!TelemetryAssumption
<1> QED
  BY <1>3, <1>4, <1>5, <1>6, <1>7, <1>8 DEF TelemetryInv

LEMMA ErrorCounted ==
  ASSUME A!TelemetryAssumption, TelemetryInv, NEW r \in Recorders, A!CountError(r)
  PROVE  TelemetryInv'
<1>1. /\ spot[r] = "counted" /\ made' = made /\ total' = total
      /\ Goes(spot, r, "tallied", spot') /\ pushed' = pushed /\ ring' = ring
      /\ flush' = flush /\ stored' = stored /\ event' = event
      /\ Spares(r, event, event)
      /\ errors' = IF event[r].ok THEN errors ELSE errors + 1
  BY DEF A!CountError, A!Goto, Goes, A!readers, Spares
<1>2. /\ spot' \in [Recorders -> {"idle", "counted", "tallied"}] /\ spot'[r] = "tallied"
      /\ \A q \in Recorders : q # r => spot'[q] = spot[q]
      /\ IsFiniteSet(Busy(spot')) /\ Cardinality(Busy(spot)) \in Nat
      /\ Cardinality(Busy(spot')) = Cardinality(Busy(spot))
  <2>1. /\ spot \in [Recorders -> {"idle", "counted", "tallied"}] /\ IsFiniteSet(Busy(spot))
        /\ spot[r] = "counted" /\ Goes(spot, r, "tallied", spot')
    BY <1>1 DEF TelemetryInv
  <2> QED
    BY <2>1, BusyMoves
<1>3. errors' = A!Failed(pushed) + Cardinality(Missing(spot', event')) /\ errors' \in Nat
  <2>1. A!Failed(pushed) \in Nat /\ errors = A!Failed(pushed) + Cardinality(Missing(spot, event))
        /\ Cardinality(Missing(spot, event)) \in Nat
    BY <1>1, FailedIs, MissingMoves DEF TelemetryInv
  <2>2. CASE event[r].ok
    <3>1. /\ spot \in [Recorders -> {"idle", "counted", "tallied"}] /\ IsFiniteSet(Busy(spot))
          /\ spot[r] = "counted" /\ Goes(spot, r, "tallied", spot') /\ Spares(r, event, event)
          /\ event[r].ok
      BY <1>1, <2>2 DEF TelemetryInv
    <3>2. Missing(spot', event) = Missing(spot, event)
      BY <3>1, MissingMoves
    <3> QED
      BY <1>1, <2>1, <2>2, <3>2
  <2>3. CASE ~event[r].ok
    <3>1. /\ spot \in [Recorders -> {"idle", "counted", "tallied"}] /\ IsFiniteSet(Busy(spot))
          /\ spot[r] = "counted" /\ Goes(spot, r, "tallied", spot') /\ Spares(r, event, event)
          /\ ~event[r].ok
      BY <1>1, <2>3 DEF TelemetryInv
    <3>2. Cardinality(Missing(spot', event)) = Cardinality(Missing(spot, event)) + 1
      BY <3>1, MissingMoves
    <3> QED
      BY <1>1, <2>1, <2>3, <3>2
  <2> QED
    BY <2>2, <2>3
<1>4. \A q \in Recorders : spot'[q] # "idle" => event'[q] \in Happening
  BY <1>1, <1>2 DEF TelemetryInv
<1> QED
  BY <1>1, <1>2, <1>3, <1>4 DEF TelemetryInv

LEMMA EventPushed ==
  ASSUME A!TelemetryAssumption, TelemetryInv, NEW r \in Recorders, A!Push(r)
  PROVE  TelemetryInv'
<1> DEFINE e == event[r]
<1>1. /\ spot[r] = "tallied" /\ made' = made /\ total' = total /\ errors' = errors
      /\ Goes(spot, r, "idle", spot') /\ pushed' = Append(pushed, e)
      /\ ring' = Append(A!Room(ring), e) /\ event' = [event EXCEPT ![r] = <<>>]
      /\ flush' = flush /\ stored' = stored
  BY DEF A!Push, A!Goto, Goes, A!readers
<1>2. e \in Happening /\ e.ok \in BOOLEAN
  BY <1>1 DEF TelemetryInv, Happening
<1>3. /\ event' \in [Recorders -> Happening \union {<<>>}]
      /\ Spares(r, event, event')
  BY <1>1 DEF TelemetryInv, Spares
<1>4. /\ spot' \in [Recorders -> {"idle", "counted", "tallied"}] /\ spot'[r] = "idle"
      /\ \A q \in Recorders : q # r => spot'[q] = spot[q]
      /\ IsFiniteSet(Busy(spot')) /\ Cardinality(Busy(spot)) \in Nat
      /\ Cardinality(Busy(spot')) = Cardinality(Busy(spot)) - 1
  <2>1. /\ spot \in [Recorders -> {"idle", "counted", "tallied"}] /\ IsFiniteSet(Busy(spot))
        /\ spot[r] # "idle" /\ Goes(spot, r, "idle", spot')
    BY <1>1 DEF TelemetryInv
  <2> QED
    BY <2>1, BusyMoves
<1>5. /\ pushed \in Seq(Happening) /\ Len(pushed) \in Nat
      /\ pushed' \in Seq(Happening) /\ Len(pushed') = Len(pushed) + 1
  BY <1>1, <1>2 DEF TelemetryInv
<1>6. A!Failed(pushed') = A!Failed(pushed) + (IF e.ok THEN 0 ELSE 1) /\ A!Failed(pushed) \in Nat
  BY <1>1, <1>2, <1>5, FailedAppend, FailedIs
<1>7. errors = A!Failed(pushed') + Cardinality(Missing(spot', event'))
  <2>1. errors = A!Failed(pushed) + Cardinality(Missing(spot, event))
        /\ Cardinality(Missing(spot, event)) \in Nat
    BY <1>1, <1>3, MissingMoves DEF TelemetryInv
  <2>2. CASE e.ok
    <3>1. /\ spot \in [Recorders -> {"idle", "counted", "tallied"}] /\ IsFiniteSet(Busy(spot))
          /\ spot[r] = "tallied" /\ Goes(spot, r, "idle", spot') /\ Spares(r, event, event')
          /\ event[r].ok
      BY <1>1, <1>3, <2>2 DEF TelemetryInv
    <3>2. Missing(spot', event') = Missing(spot, event)
      BY <3>1, MissingMoves
    <3> QED
      BY <1>6, <2>1, <2>2, <3>2
  <2>3. CASE ~e.ok
    <3>1. /\ spot \in [Recorders -> {"idle", "counted", "tallied"}] /\ IsFiniteSet(Busy(spot))
          /\ spot[r] = "tallied" /\ Goes(spot, r, "idle", spot') /\ Spares(r, event, event')
          /\ ~event[r].ok
      BY <1>1, <1>3, <2>3 DEF TelemetryInv
    <3>2. Cardinality(Missing(spot', event')) = Cardinality(Missing(spot, event)) - 1
      BY <3>1, MissingMoves
    <3> QED
      BY <1>6, <2>1, <2>3, <3>2
  <2> QED
    BY <2>2, <2>3
<1>8. \A q \in Recorders : spot'[q] # "idle" => event'[q] \in Happening
  BY <1>3, <1>4 DEF TelemetryInv, Spares
<1>9. ring' = Latest(pushed')
  BY <1>1, <1>2, <1>5, RoomForOne DEF TelemetryInv
<1>10. flush' # <<>> => Truthful(flush', pushed')
  BY <1>1, <1>2, <1>5, TruthfulStays DEF TelemetryInv
<1>11. \A i \in 1 .. Len(stored') : Truthful(stored'[i], pushed')
  BY <1>1, <1>2, <1>5, TruthfulStays DEF TelemetryInv
<1>12. total' = Len(pushed') + Cardinality(Busy(spot'))
  BY <1>1, <1>4, <1>5 DEF TelemetryInv
<1> QED
  BY <1>1, <1>3, <1>4, <1>5, <1>7, <1>8, <1>9, <1>10, <1>11, <1>12 DEF TelemetryInv

LEMMA SnapshotTaken ==
  ASSUME A!TelemetryAssumption, TelemetryInv, A!FlushSnapshot
  PROVE  TelemetryInv'
<1>1. /\ ring # <<>> /\ flush' = A!Summary(ring) /\ ring' = ring /\ total' = total
      /\ errors' = errors /\ made' = made /\ pushed' = pushed /\ spot' = spot /\ event' = event
      /\ stored' = stored
  BY DEF A!FlushSnapshot
<1> DEFINE n == Len(pushed)
           m == Lost(pushed)
           d == A!Summary(ring)
<1>2. /\ n \in Nat /\ m \in Nat /\ m <= n /\ n - m <= Capacity
      /\ ring \in Seq(Happening) /\ Len(ring) = n - m /\ ring = SubSeq(pushed, m + 1, n)
  BY LatestIs DEF TelemetryInv
<1>3. Len(ring) > 0
  BY <1>1, <1>2
<1>4. /\ A!IsPercentile(ring, 50, A!Percentile(ring, 50)) /\ A!Percentile(ring, 50) \in Nat
      /\ A!IsPercentile(ring, 95, A!Percentile(ring, 95)) /\ A!Percentile(ring, 95) \in Nat
      /\ A!IsPercentile(ring, 99, A!Percentile(ring, 99)) /\ A!Percentile(ring, 99) \in Nat
  BY <1>2, <1>3, PercentileRight DEF Hundredths
<1>5. A!Failed(ring) \in Nat /\ A!Failed(ring) <= Len(ring) /\ Len(ring) \in Nat
  <2>1. ring \in Seq(Happening)
    BY <1>2
  <2>2. Len(ring) \in Nat
    BY <2>1
  <2> QED
    BY <2>1, <2>2, FailedIs
<1>6. /\ d.events = ring /\ d.operations = Len(ring) /\ d.errors = A!Failed(ring)
      /\ d.p50 = A!Percentile(ring, 50) /\ d.p95 = A!Percentile(ring, 95)
      /\ d.p99 = A!Percentile(ring, 99) /\ d \in Summaries
  BY <1>2, <1>4, <1>5 DEF A!Summary, Summaries
<1> HIDE DEF d, m
<1>7. /\ m + 1 \in 1 .. Len(pushed) /\ (m + 1) + d.operations - 1 = n
  <2>1. d.operations = n - m /\ n - m > 0
    BY <1>2, <1>3, <1>6
  <2> QED
    BY <1>2, <2>1
<1>8. \E i \in 1 .. Len(pushed) :
        i + d.operations - 1 <= Len(pushed) /\ SubSeq(pushed, i, i + d.operations - 1) = d.events
  BY <1>2, <1>6, <1>7
<1>9. Truthful(d, pushed)
  BY <1>2, <1>4, <1>5, <1>6, <1>8 DEF Truthful
<1> QED
  BY <1>1, <1>9 DEF TelemetryInv, d

LEMMA SnapshotInserted ==
  ASSUME A!TelemetryAssumption, TelemetryInv, A!FlushInsert
  PROVE  TelemetryInv'
<1>1. /\ flush # <<>> /\ flush' = <<>> /\ ring' = ring /\ total' = total
      /\ errors' = errors /\ made' = made /\ pushed' = pushed /\ spot' = spot /\ event' = event
      /\ (stored' = Append(stored, flush) \/ stored' = stored)
  BY DEF A!FlushInsert
<1>2. Truthful(flush, pushed) /\ flush \in Summaries /\ stored \in Seq(Summaries)
  BY <1>1 DEF TelemetryInv, Truthful
<1>3. stored' \in Seq(Summaries)
  BY <1>1, <1>2
<1>4. ASSUME NEW i \in 1 .. Len(stored') PROVE Truthful(stored'[i], pushed)
  <2>1. CASE stored' = stored
    BY <2>1 DEF TelemetryInv
  <2>2. CASE stored' = Append(stored, flush) /\ i = Len(stored) + 1
    <3>1. stored'[i] = flush
      BY <1>2, <2>2
    <3> QED
      BY <1>2, <3>1
  <2>3. CASE stored' = Append(stored, flush) /\ i # Len(stored) + 1
    <3>1. i \in 1 .. Len(stored) /\ stored'[i] = stored[i]
      BY <1>2, <2>3
    <3> QED
      BY <3>1 DEF TelemetryInv
  <2> QED
    BY <1>1, <2>1, <2>2, <2>3
<1> QED
  BY <1>1, <1>3, <1>4 DEF TelemetryInv

LEMMA TelemetryKept == ASSUME A!TelemetryAssumption, TelemetryInv, A!Next PROVE TelemetryInv'
BY EventCounted, ErrorCounted, EventPushed, SnapshotTaken, SnapshotInserted DEF A!Next

LEMMA TelemetrySame ==
  ASSUME TelemetryInv, UNCHANGED A!vars PROVE TelemetryInv'
BY DEF TelemetryInv, A!vars, A!readers

LEMMA TelemetryIsTrue == ASSUME A!TelemetryAssumption, TelemetryInv PROVE A!TelemetryTrue
<1>1. /\ Capacity \in Nat /\ Capacity > 0 /\ Len(pushed) \in Nat /\ Lost(pushed) \in Nat
      /\ Len(ring) = Len(pushed) - Lost(pushed) /\ Len(pushed) - Lost(pushed) <= Capacity
  BY LatestIs DEF TelemetryInv
<1>2. A!RingIsLatest
  BY DEF TelemetryInv, A!RingIsLatest, Latest
<1>3. A!Failed(pushed) \in Nat /\ A!Failed(pushed) <= Len(pushed)
  BY FailedIs DEF TelemetryInv
<1>4. /\ Cardinality(Busy(spot)) \in Nat /\ IsFiniteSet(Missing(spot, event))
      /\ Cardinality(Missing(spot, event)) \in Nat
      /\ Cardinality(Missing(spot, event)) <= Cardinality(Busy(spot))
  <2>1. Missing(spot, event) \in SUBSET Busy(spot) /\ IsFiniteSet(Busy(spot))
    BY DEF Missing, Busy, TelemetryInv
  <2> QED
    BY <2>1, FS_Subset, FS_CardinalityType
<1>5. A!TypeOK
  BY <1>1, <1>3, <1>4 DEF TelemetryInv, A!TypeOK, A!TelemetryAssumption
<1>6. A!TotalsSettle
  <2> SUFFICES ASSUME \A r \in Recorders : spot[r] = "idle"
               PROVE  total = Len(pushed) /\ errors = A!Failed(pushed)
    BY DEF A!TotalsSettle
  <2>1. Busy(spot) = {} /\ Missing(spot, event) = {}
    BY DEF Busy, Missing
  <2>2. Cardinality({}) = 0
    BY FS_EmptySet
  <2> QED
    BY <1>1, <1>3, <2>1, <2>2 DEF TelemetryInv
<1>7. A!StoredIsTrue
  <2> SUFFICES ASSUME NEW d \in A!Range(stored)
               PROVE  /\ d.operations <= Capacity /\ d.errors <= d.operations
                      /\ A!IsPercentile(d.events, 50, d.p50) /\ A!IsPercentile(d.events, 95, d.p95)
                      /\ A!IsPercentile(d.events, 99, d.p99)
                      /\ \E i \in DOMAIN pushed : SubSeq(pushed, i, i + d.operations - 1) = d.events
    BY DEF A!StoredIsTrue
  <2>1. PICK j \in DOMAIN stored : d = stored[j]
    BY DEF A!Range
  <2>2. j \in 1 .. Len(stored)
    BY <2>1 DEF TelemetryInv
  <2>3. Truthful(d, pushed)
    BY <2>1, <2>2 DEF TelemetryInv
  <2>4. DOMAIN pushed = 1 .. Len(pushed)
    BY DEF TelemetryInv
  <2> QED
    BY <2>3, <2>4 DEF Truthful
<1> QED
  BY <1>2, <1>5, <1>6, <1>7 DEF A!TelemetryTrue

(* The counters and the ring agree on all that was recorded once everyone  *)
(* who records has come to an end of it; the ring holds the latest events; *)
(* and every document stored is true of a stretch of events, its counts    *)
(* and its percentiles: for any ring, latencies and number of recorders.   *)
THEOREM TelemetryTellsTruth == ServicesSpec => []TelemetryTrue
<1>0. A!TelemetryAssumption
  BY ServicesAssumption
<1>1. Start => TelemetryInv
  BY <1>0, TelemetryStarts DEF Start
<1>2. TelemetryInv /\ [Move]_all => TelemetryInv'
  <2> SUFFICES ASSUME TelemetryInv, [Move]_all PROVE TelemetryInv'
    OBVIOUS
  <2>1. UNCHANGED A!vars \/ A!Next
    BY DEF Move, On, Still, all, telemetry, A!vars, A!readers
  <2> QED
    BY <1>0, <2>1, TelemetryKept, TelemetrySame
<1>3. TelemetryInv => A!TelemetryTrue
  BY <1>0, TelemetryIsTrue
<1> QED
  BY <1>1, <1>2, <1>3, PTL DEF ServicesSpec, TelemetryTrue

-----------------------------------------------------------------------------
(* Rows of a result that follow each other without a gap.                  *)
Spans(s, Q, lo, hi) ==
  /\ s \in Seq(Nat)
  /\ \A i \in 1 .. Len(s) : s[i] \in Q /\ lo < s[i] /\ s[i] <= hi
  /\ \A r \in Q : lo < r /\ r <= hi => \E i \in 1 .. Len(s) : s[i] = r
  /\ \A i \in 1 .. Len(s) : \A j \in 1 .. Len(s) : i < j => s[i] < s[j]

LEMMA NothingSpans == ASSUME NEW Q \in SUBSET Nat, NEW n \in Nat PROVE Spans(<<>>, Q, n, n)
<1>1. <<>> \in Seq(Nat) /\ Len(<<>>) = 0
  OBVIOUS
<1> QED
  BY <1>1 DEF Spans

LEMMA OneMoreSpans ==
  ASSUME NEW Q \in SUBSET Nat, NEW lo \in Nat, NEW p \in Nat, lo <= p, NEW s, Spans(s, Q, lo, p)
  PROVE  /\ p + 1 \in Q => Spans(Append(s, p + 1), Q, lo, p + 1)
         /\ p + 1 \notin Q => Spans(s, Q, lo, p + 1)
<1>1. s \in Seq(Nat) /\ Len(s) \in Nat /\ \A i \in 1 .. Len(s) : s[i] \in Nat
  BY DEF Spans
<1>2. \A r \in Q : r \in Nat /\ (r <= p + 1 <=> r <= p \/ r = p + 1)
  OBVIOUS
<1>3. ASSUME p + 1 \notin Q PROVE Spans(s, Q, lo, p + 1)
  <2>1. \A i \in 1 .. Len(s) : s[i] \in Q /\ lo < s[i] /\ s[i] <= p + 1
    BY <1>1 DEF Spans
  <2>2. \A r \in Q : lo < r /\ r <= p + 1 => \E i \in 1 .. Len(s) : s[i] = r
    BY <1>2, <1>3 DEF Spans
  <2> QED
    BY <2>1, <2>2 DEF Spans
<1>4. ASSUME p + 1 \in Q PROVE Spans(Append(s, p + 1), Q, lo, p + 1)
  <2> DEFINE t == Append(s, p + 1)
             n == Len(s)
  <2>1. /\ t \in Seq(Nat) /\ Len(t) = n + 1 /\ t[n + 1] = p + 1
        /\ \A i \in 1 .. n : t[i] = s[i]
    BY <1>1
  <2>2. \A i \in 1 .. n + 1 : i \in 1 .. n \/ i = n + 1
    BY <1>1
  <2>3. \A i \in 1 .. n : i \in 1 .. n + 1 /\ i < n + 1
    BY <1>1
  <2>4. n + 1 \in 1 .. n + 1
    BY <1>1
  <2> HIDE DEF t, n
  <2>5. \A i \in 1 .. n + 1 : t[i] \in Q /\ lo < t[i] /\ t[i] <= p + 1
    <3> SUFFICES ASSUME NEW i \in 1 .. n + 1 PROVE t[i] \in Q /\ lo < t[i] /\ t[i] <= p + 1
      OBVIOUS
    <3>1. CASE i = n + 1
      BY <1>4, <2>1, <3>1
    <3>2. CASE i \in 1 .. n
      <4>1. t[i] = s[i] /\ s[i] \in Nat /\ s[i] \in Q /\ lo < s[i] /\ s[i] <= p
        BY <1>1, <2>1, <3>2 DEF Spans, n
      <4> QED
        BY <4>1
    <3> QED
      BY <2>2, <3>1, <3>2
  <2>6. \A r \in Q : lo < r /\ r <= p + 1 => \E i \in 1 .. n + 1 : t[i] = r
    BY <1>2, <2>1, <2>3, <2>4 DEF Spans, n
  <2>7. \A i \in 1 .. n + 1 : \A j \in 1 .. n + 1 : i < j => t[i] < t[j]
    <3> SUFFICES ASSUME NEW i \in 1 .. n + 1, NEW j \in 1 .. n + 1, i < j PROVE t[i] < t[j]
      OBVIOUS
    <3>1. n \in Nat
      BY <1>1 DEF n
    <3>2. i \in 1 .. n
      BY <3>1
    <3>3. t[i] = s[i] /\ s[i] \in Nat /\ s[i] <= p
      BY <1>1, <2>1, <3>2 DEF Spans, n
    <3>4. CASE j = n + 1
      BY <2>1, <3>3, <3>4
    <3>5. CASE j \in 1 .. n
      BY <2>1, <3>2, <3>5 DEF Spans, n
    <3> QED
      BY <2>2, <3>4, <3>5
  <2>8. Spans(t, Q, lo, p + 1)
    BY <2>1, <2>5, <2>6, <2>7 DEF Spans
  <2> QED
    BY <2>8 DEF t
<1> QED
  BY <1>3, <1>4

LEMMA TogetherSpan ==
  ASSUME NEW Q \in SUBSET Nat, NEW lo \in Nat, NEW mid \in Nat, NEW hi \in Nat, lo <= mid, mid <= hi,
         NEW s, NEW t, Spans(s, Q, lo, mid), Spans(t, Q, mid, hi)
  PROVE  Spans(s \o t, Q, lo, hi)
<1> DEFINE m == Len(s)
           n == Len(t)
           h == s \o t
<1>1. /\ s \in Seq(Nat) /\ t \in Seq(Nat) /\ m \in Nat /\ n \in Nat
      /\ h \in Seq(Nat) /\ Len(h) = m + n
      /\ \A i \in 1 .. m : h[i] = s[i] /\ s[i] \in Nat
      /\ \A i \in 1 .. n : h[m + i] = t[i] /\ t[i] \in Nat
  BY DEF Spans
<1>2. \A i \in 1 .. m + n : i \in 1 .. m \/ (i - m \in 1 .. n /\ i = m + (i - m))
  BY <1>1
<1>3. /\ \A i \in 1 .. m : i \in 1 .. m + n
      /\ \A i \in 1 .. n : m + i \in 1 .. m + n
  BY <1>1
<1>4. /\ \A i \in 1 .. m : h[i] \in Q /\ lo < h[i] /\ h[i] <= mid
      /\ \A i \in 1 .. n : h[m + i] \in Q /\ mid < h[m + i] /\ h[m + i] <= hi
  BY <1>1 DEF Spans
<1> HIDE DEF h
<1>5. ASSUME NEW i \in 1 .. m + n PROVE h[i] \in Q /\ lo < h[i] /\ h[i] <= hi
  <2>1. CASE i \in 1 .. m
    <3>1. h[i] \in Q /\ lo < h[i] /\ h[i] <= mid /\ h[i] \in Nat
      BY <1>1, <1>4, <2>1
    <3> QED
      BY <3>1
  <2>2. CASE i - m \in 1 .. n /\ i = m + (i - m)
    <3>1. h[m + (i - m)] \in Q /\ mid < h[m + (i - m)] /\ h[m + (i - m)] <= hi /\ h[m + (i - m)] \in Nat
      BY <1>1, <1>4, <2>2
    <3> QED
      BY <2>2, <3>1
  <2> QED
    BY <1>2, <2>1, <2>2
<1>6. ASSUME NEW r \in Q, lo < r, r <= hi PROVE \E i \in 1 .. m + n : h[i] = r
  <2>1. CASE r <= mid
    <3>1. PICK i \in 1 .. m : s[i] = r
      BY <1>6, <2>1 DEF Spans
    <3> QED
      BY <1>1, <1>3, <3>1
  <2>2. CASE ~(r <= mid)
    <3>0. mid < r
      BY <2>2
    <3>1. PICK i \in 1 .. n : t[i] = r
      BY <1>6, <3>0 DEF Spans
    <3>2. m + i \in 1 .. m + n /\ h[m + i] = r
      BY <1>1, <1>3, <3>1
    <3> QED
      BY <3>2
  <2> QED
    BY <2>1, <2>2
<1>7. ASSUME NEW i \in 1 .. m + n, NEW j \in 1 .. m + n, i < j PROVE h[i] < h[j]
  <2>1. CASE i \in 1 .. m /\ j \in 1 .. m
    BY <1>1, <1>7, <2>1 DEF Spans
  <2>2. CASE i \in 1 .. m /\ j - m \in 1 .. n /\ j = m + (j - m)
    <3>1. h[i] \in Nat /\ h[i] <= mid
      BY <1>1, <1>4, <2>2
    <3>2. h[j] \in Nat /\ mid < h[j]
      <4>1. h[m + (j - m)] \in Nat /\ mid < h[m + (j - m)]
        BY <1>1, <1>4, <2>2
      <4> QED
        BY <2>2, <4>1
    <3> QED
      BY <3>1, <3>2
  <2>3. CASE i - m \in 1 .. n /\ i = m + (i - m) /\ j - m \in 1 .. n /\ j = m + (j - m)
    <3>1. i - m < j - m
      BY <1>1, <1>7
    <3>2. t[i - m] < t[j - m]
      BY <2>3, <3>1 DEF Spans
    <3>3. h[m + (i - m)] = t[i - m] /\ h[m + (j - m)] = t[j - m]
      BY <1>1, <2>3
    <3> QED
      BY <2>3, <3>2, <3>3
  <2>4. CASE i - m \in 1 .. n /\ j \in 1 .. m
    BY <1>1, <1>7, <2>4
  <2> QED
    BY <1>2, <2>1, <2>2, <2>3, <2>4
<1>8. Spans(h, Q, lo, hi)
  BY <1>1, <1>5, <1>6, <1>7 DEF Spans
<1> QED
  BY <1>8 DEF h
-----------------------------------------------------------------------------
(* What was handed over, what is under way and what is in hand follow each *)
(* other: cuts c divide the rows among them.                               *)
Under(Q, o, ki, c, i) ==
  IF o[i].type = "batch"
    THEN Spans(o[i].rows, Q, c[i - 1], c[i]) /\ c[i - 1] <= c[i] /\ (ki \in R!Reads /\ ~o[i].more => c[i] = Rows)
    ELSE c[i] = c[i - 1]
Divide(Q, h, o, ki, c) ==
  /\ c \in [0 .. Len(o) -> 0 .. Rows]
  /\ Spans(h, Q, 0, c[0])
  /\ \A i \in 1 .. Len(o) : Under(Q, o, ki, c, i)
InHandFrom(Q, w, p, ta, n) == ta = "on" => n <= p /\ Spans(w, Q, n, p)
Chained(Q, h, o, ki, w, p, ta) ==
  \E c : Divide(Q, h, o, ki, c) /\ InHandFrom(Q, w, p, ta, c[Len(o)])

Fits(Q, last, ki, e, n) ==
  IF e.type = "batch"
    THEN Spans(e.rows, Q, last, n) /\ last <= n /\ (ki \in R!Reads /\ ~e.more => n = Rows)
    ELSE n = last

LEMMA ChainPut ==
  ASSUME Rows \in Nat, NEW Q \in SUBSET Nat, NEW h, NEW E, NEW o \in Seq(E), NEW ki, NEW c,
         Divide(Q, h, o, ki, c), NEW e \in E, NEW n \in 0 .. Rows,
         Fits(Q, c[Len(o)], ki, e, n)
  PROVE  \E d : Divide(Q, h, Append(o, e), ki, d) /\ d[Len(o) + 1] = n
<1> DEFINE k == Len(o)
           t == Append(o, e)
           d == [i \in 0 .. k + 1 |-> IF i = k + 1 THEN n ELSE c[i]]
<1>1. /\ k \in Nat /\ t \in Seq(E) /\ Len(t) = k + 1 /\ t[k + 1] = e
      /\ \A i \in 1 .. k : t[i] = o[i]
  OBVIOUS
<1>2. /\ c \in [0 .. k -> 0 .. Rows] /\ Spans(h, Q, 0, c[0])
      /\ \A i \in 1 .. k : Under(Q, o, ki, c, i)
  BY DEF Divide
<1>3. /\ d \in [0 .. k + 1 -> 0 .. Rows] /\ d[k + 1] = n
      /\ \A i \in 0 .. k : d[i] = c[i]
      /\ \A i \in 1 .. k : i \in 0 .. k /\ i - 1 \in 0 .. k
      /\ \A i \in 1 .. k + 1 : i \in 1 .. k \/ i = k + 1
      /\ (k + 1) - 1 = k /\ 0 \in 0 .. k /\ k \in 0 .. k
  <2>1. \A i \in 0 .. k + 1 : i \in 0 .. k \/ i = k + 1
    BY <1>1
  <2>2. \A i \in 0 .. k : i \in 0 .. k + 1 /\ i # k + 1
    BY <1>1
  <2>3. \A i \in 1 .. k : i \in 0 .. k /\ i - 1 \in 0 .. k
    BY <1>1
  <2> QED
    BY <1>1, <1>2, <2>1, <2>2, <2>3
<1> HIDE DEF d, t, k
<1>4. ASSUME NEW i \in 1 .. k PROVE Under(Q, t, ki, d, i)
  <2>1. d[i] = c[i] /\ d[i - 1] = c[i - 1] /\ t[i] = o[i]
    BY <1>1, <1>3
  <2> QED
    BY <1>2, <2>1 DEF Under
<1>5. Under(Q, t, ki, d, k + 1)
  <2>1. d[k + 1] = n /\ d[(k + 1) - 1] = c[k] /\ t[k + 1] = e
    BY <1>1, <1>3
  <2> QED
    BY <2>1 DEF Under, Fits, k
<1>6. Spans(h, Q, 0, d[0])
  <2>1. 0 \in 0 .. k /\ \A i \in 0 .. k : d[i] = c[i]
    BY <1>3
  <2>2. d[0] = c[0]
    BY <2>1
  <2> QED
    BY <1>2, <2>2
<1>7. Divide(Q, h, t, ki, d)
  BY <1>1, <1>3, <1>4, <1>5, <1>6 DEF Divide
<1> QED
  BY <1>3, <1>7 DEF t, k

Taken(h, e) == IF e.type = "batch" THEN h \o e.rows ELSE h

LEMMA ChainTake ==
  ASSUME Rows \in Nat, NEW Q \in SUBSET Nat, NEW h, NEW E, NEW o \in Seq(E), o # <<>>, NEW ki, NEW c,
         Divide(Q, h, o, ki, c)
  PROVE  \E d : /\ Divide(Q, Taken(h, Head(o)), Tail(o), ki, d)
                /\ d[Len(Tail(o))] = c[Len(o)] /\ d[0] = c[1]
<1> DEFINE k == Len(o)
           t == Tail(o)
           e == Head(o)
           g == Taken(h, e)
           d == [i \in 0 .. k - 1 |-> c[i + 1]]
<1>1. /\ k \in Nat /\ k >= 1 /\ t \in Seq(E) /\ Len(t) = k - 1 /\ e = o[1]
      /\ \A i \in 1 .. k - 1 : t[i] = o[i + 1]
  OBVIOUS
<1>2. /\ c \in [0 .. k -> 0 .. Rows] /\ Spans(h, Q, 0, c[0])
      /\ \A i \in 1 .. k : Under(Q, o, ki, c, i)
  BY DEF Divide
<1>3. /\ d \in [0 .. k - 1 -> 0 .. Rows]
      /\ \A i \in 0 .. k - 1 : d[i] = c[i + 1]
      /\ \A i \in 1 .. k - 1 : /\ i \in 0 .. k - 1 /\ i - 1 \in 0 .. k - 1 /\ i + 1 \in 1 .. k
                               /\ (i - 1) + 1 = i /\ (i + 1) - 1 = i
      /\ 0 \in 0 .. k - 1 /\ k - 1 \in 0 .. k - 1 /\ (k - 1) + 1 = k /\ 1 \in 1 .. k
      /\ 0 + 1 = 1 /\ 1 - 1 = 0 /\ 0 \in 0 .. k /\ 1 \in 0 .. k
  <2>1. \A i \in 0 .. k - 1 : i + 1 \in 0 .. k
    BY <1>1
  <2> QED
    BY <1>1, <1>2, <2>1
<1> HIDE DEF d, t, k, g, e
<1>4. ASSUME NEW i \in 1 .. k - 1 PROVE Under(Q, t, ki, d, i)
  <2>1. d[i] = c[i + 1] /\ d[i - 1] = c[(i + 1) - 1] /\ t[i] = o[i + 1] /\ i + 1 \in 1 .. k
    <3>1. d[i - 1] = c[(i - 1) + 1]
      BY <1>3
    <3> QED
      BY <1>1, <1>3, <3>1
  <2>2. Under(Q, o, ki, c, i + 1)
    BY <1>2, <2>1
  <2> QED
    BY <2>1, <2>2 DEF Under
<1>5. Spans(g, Q, 0, d[0])
  <2>1. Under(Q, o, ki, c, 1) /\ d[0] = c[1] /\ c[0] \in Nat /\ c[1] \in Nat
    <3>1. 0 \in 0 .. k - 1 /\ d[0] = c[0 + 1] /\ 0 + 1 = 1 /\ 1 \in 1 .. k /\ 0 \in 0 .. k /\ 1 \in 0 .. k
      BY <1>3
    <3>2. c[0] \in 0 .. Rows /\ c[1] \in 0 .. Rows
      BY <1>2, <3>1
    <3> QED
      BY <1>2, <3>1, <3>2
  <2>2. CASE e.type = "batch"
    <3>1. Spans(e.rows, Q, c[0], c[1]) /\ c[0] <= c[1]
      BY <1>1, <1>3, <2>1, <2>2 DEF Under
    <3>2. 0 \in Nat /\ 0 <= c[0]
      BY <2>1
    <3>3. Spans(h \o e.rows, Q, 0, c[1])
      BY <1>2, <2>1, <3>1, <3>2, TogetherSpan
    <3> QED
      BY <2>1, <2>2, <3>3 DEF g, Taken
  <2>3. CASE e.type # "batch"
    <3>1. c[1] = c[0]
      BY <1>1, <1>3, <2>1, <2>3 DEF Under
    <3> QED
      BY <1>2, <2>1, <2>3, <3>1 DEF g, Taken
  <2> QED
    BY <2>2, <2>3
<1>6. Divide(Q, g, t, ki, d)
  BY <1>1, <1>3, <1>4, <1>5 DEF Divide
<1>7. d[Len(t)] = c[k] /\ d[0] = c[1]
  <2>1. d[k - 1] = c[(k - 1) + 1] /\ d[0] = c[0 + 1]
    BY <1>3
  <2> QED
    BY <1>1, <1>3, <2>1
<1> QED
  BY <1>6, <1>7 DEF g, t, k, e
-----------------------------------------------------------------------------
(* Items.  Nothing follows one that closes the stream; results are         *)
(* numbered, and full while more may follow; batches inserted are answered.*)
Things ==
  [type : {"batch"}, rows : Seq(Nat), index : Nat, more : BOOLEAN]
    \union [type : {"ack"}, index : Nat, n : Nat, failed : BOOLEAN]
    \union [type : {"summary"}, total : Nat, errs : SUBSET Nat] \union {R!Failure}

Closes(e, ki) == e.type = "failure" \/ (ki \in R!Reads /\ e.type = "batch" /\ ~e.more)
Closed(t, ta, ki) == \A i \in 1 .. Len(t) : Closes(t[i], ki) => i = Len(t) /\ ta = "done"

Numbers(t, c, ta, sz) ==
  /\ ta = "on" => Len(t) = c
  /\ \A i \in 1 .. Len(t) :
       /\ t[i].type \in {"batch", "failure"}
       /\ t[i].type = "batch" => t[i].index = i - 1 /\ (t[i].more => Len(t[i].rows) = sz)

Acked(e, i, st) ==
  /\ e.type = "ack" /\ e.index = i - 1
  /\ e.n <= Cardinality(st \cap (R!First(i) .. Cuts[i]))
Acks(t, c, ta, st) ==
  /\ Len(t) \in {c, c + 1} /\ (ta = "on" => Len(t) = c)
  /\ \A i \in 1 .. Len(t) : IF i > c THEN t[i].type = "failure" ELSE Acked(t[i], i, st)

LEMMA ThingsHaveTypes ==
  /\ \A e \in Things : e.type = "batch" =>
       e.rows \in Seq(Nat) /\ e.index \in Nat /\ e.more \in BOOLEAN
  /\ \A w \in Seq(Nat), i \in Nat, m \in BOOLEAN :
       /\ R!Batch(w, i, m) \in Things /\ R!Batch(w, i, m).type = "batch" /\ R!Batch(w, i, m).rows = w
       /\ R!Batch(w, i, m).index = i /\ R!Batch(w, i, m).more = m
  /\ \A i \in Nat, n \in Nat, m \in BOOLEAN :
       /\ R!Ack(i, n, m) \in Things /\ R!Ack(i, n, m).type = "ack" /\ R!Ack(i, n, m).index = i
       /\ R!Ack(i, n, m).n = n
  /\ R!Failure \in Things /\ R!Failure.type = "failure"
<1>1. ASSUME NEW e \in Things, e.type = "batch"
      PROVE  e.rows \in Seq(Nat) /\ e.index \in Nat /\ e.more \in BOOLEAN
  BY <1>1 DEF Things, R!Failure
<1> QED
  BY <1>1 DEF Things, R!Failure, R!Batch, R!Ack

LEMMA LongerBy ==
  ASSUME NEW E, NEW t \in Seq(E), NEW e \in E
  PROVE  /\ Len(t) \in Nat /\ Append(t, e) \in Seq(E) /\ Len(Append(t, e)) = Len(t) + 1
         /\ Append(t, e)[Len(t) + 1] = e
         /\ \A i \in 1 .. Len(t) : Append(t, e)[i] = t[i] /\ i # Len(t) + 1
         /\ \A i \in 1 .. Len(t) + 1 : i \in 1 .. Len(t) \/ i = Len(t) + 1
         /\ Len(t) + 1 \in 1 .. Len(t) + 1
OBVIOUS

LEMMA ClosedPut ==
  ASSUME NEW t \in Seq(Things), NEW ki, Closed(t, "on", ki), NEW e \in Things, NEW ta,
         Closes(e, ki) => ta = "done"
  PROVE  Closed(Append(t, e), ta, ki)
<1> DEFINE u == Append(t, e)
<1>1. /\ Len(t) \in Nat /\ Len(u) = Len(t) + 1 /\ u[Len(t) + 1] = e
      /\ \A i \in 1 .. Len(t) : u[i] = t[i] /\ i # Len(t) + 1
      /\ \A i \in 1 .. Len(t) + 1 : i \in 1 .. Len(t) \/ i = Len(t) + 1
  BY LongerBy
<1> HIDE DEF u
<1>2. ASSUME NEW i \in 1 .. Len(u), Closes(u[i], ki) PROVE i = Len(u) /\ ta = "done"
  <2>1. CASE i = Len(t) + 1
    BY <1>1, <1>2, <2>1
  <2>2. CASE i \in 1 .. Len(t)
    <3>1. Closes(t[i], ki)
      BY <1>1, <1>2, <2>2
    <3> QED
      BY <2>2, <3>1 DEF Closed
  <2> QED
    BY <1>1, <2>1, <2>2
<1> QED
  BY <1>2 DEF Closed, u

LEMMA ClosedCut ==
  ASSUME NEW t \in Seq(Things), NEW u \in Seq(Things), NEW ki, NEW ta, Closed(t, ta, ki),
         Len(u) <= Len(t), \A i \in 1 .. Len(u) : u[i] = t[i],
         NEW tb, ta = "done" => tb = "done"
  PROVE  Closed(u, tb, ki)
<1>1. Len(u) \in Nat /\ Len(t) \in Nat
  OBVIOUS
<1>2. ASSUME NEW i \in 1 .. Len(u), Closes(u[i], ki) PROVE i = Len(u) /\ tb = "done"
  <2>1. i \in 1 .. Len(t) /\ Closes(t[i], ki)
    BY <1>1, <1>2
  <2>2. i = Len(t) /\ ta = "done"
    BY <2>1 DEF Closed
  <2> QED
    BY <1>1, <2>2
<1> QED
  BY <1>2 DEF Closed

LEMMA NumbersPut ==
  ASSUME NEW t \in Seq(Things), NEW c \in Nat, NEW sz, Numbers(t, c, "on", sz), NEW e \in Things,
         e.type \in {"batch", "failure"},
         e.type = "batch" => e.index = c /\ (e.more => Len(e.rows) = sz)
  PROVE  Numbers(Append(t, e), c, "done", sz) /\ Numbers(Append(t, e), c + 1, "on", sz)
<1> DEFINE u == Append(t, e)
<1>1. /\ Len(t) \in Nat /\ Len(u) = Len(t) + 1 /\ u[Len(t) + 1] = e
      /\ \A i \in 1 .. Len(t) : u[i] = t[i] /\ i # Len(t) + 1
      /\ \A i \in 1 .. Len(t) + 1 : i \in 1 .. Len(t) \/ i = Len(t) + 1
  BY LongerBy
<1> HIDE DEF u
<1>0. Len(t) = c
  BY DEF Numbers
<1>2. ASSUME NEW i \in 1 .. Len(u)
      PROVE  /\ u[i].type \in {"batch", "failure"}
             /\ u[i].type = "batch" => u[i].index = i - 1 /\ (u[i].more => Len(u[i].rows) = sz)
  <2>1. CASE i = Len(t) + 1
    <3>1. u[i] = e /\ c = i - 1
      BY <1>0, <1>1, <2>1
    <3> QED
      BY <3>1
  <2>2. CASE i \in 1 .. Len(t)
    <3>1. u[i] = t[i]
      BY <1>1, <2>2
    <3> QED
      BY <2>2, <3>1 DEF Numbers
  <2> QED
    BY <1>1, <2>1, <2>2
<1>3. Len(u) = c + 1
  BY <1>0, <1>1
<1> QED
  BY <1>2, <1>3 DEF Numbers, u

LEMMA NumbersCut ==
  ASSUME NEW t \in Seq(Things), NEW u \in Seq(Things), NEW c, NEW ta, NEW sz, Numbers(t, c, ta, sz),
         Len(u) <= Len(t), \A i \in 1 .. Len(u) : u[i] = t[i]
  PROVE  Numbers(u, c, "done", sz)
<1>1. \A i \in 1 .. Len(u) : i \in 1 .. Len(t) /\ u[i] = t[i]
  OBVIOUS
<1> QED
  BY <1>1 DEF Numbers

LEMMA AcksPut ==
  ASSUME NEW t \in Seq(Things), NEW c \in Nat, NEW st, Acks(t, c, "on", st), NEW e \in Things
  PROVE  /\ e.type = "failure" => Acks(Append(t, e), c, "done", st)
         /\ Acked(e, c + 1, st) => Acks(Append(t, e), c + 1, "on", st)
<1> DEFINE u == Append(t, e)
<1>1. /\ Len(t) \in Nat /\ Len(u) = Len(t) + 1 /\ u[Len(t) + 1] = e
      /\ \A i \in 1 .. Len(t) : u[i] = t[i] /\ i # Len(t) + 1
      /\ \A i \in 1 .. Len(t) + 1 : i \in 1 .. Len(t) \/ i = Len(t) + 1
  BY LongerBy
<1> HIDE DEF u
<1>0. Len(t) = c
  BY DEF Acks
<1>2. ASSUME NEW i \in 1 .. Len(t) PROVE ~(i > c) /\ ~(i > c + 1) /\ Acked(u[i], i, st)
  <2>1. ~(i > c) /\ ~(i > c + 1)
    BY <1>0, <1>1
  <2> QED
    BY <1>1, <2>1 DEF Acks
<1>3. Len(u) = c + 1 /\ c + 1 > c /\ ~(c + 1 > c + 1) /\ u[c + 1] = e
  BY <1>0, <1>1
<1>4. \A i \in 1 .. Len(u) : i \in 1 .. Len(t) \/ i = c + 1
  BY <1>0, <1>1
<1>5. ASSUME e.type = "failure" PROVE Acks(u, c, "done", st)
  BY <1>2, <1>3, <1>4, <1>5 DEF Acks
<1>6. ASSUME Acked(e, c + 1, st) PROVE Acks(u, c + 1, "on", st)
  BY <1>2, <1>3, <1>4, <1>6 DEF Acks
<1> QED
  BY <1>5, <1>6 DEF u

(* What is stored stays.                                                   *)
LEMMA AckedStays ==
  ASSUME NEW e \in Things, NEW i, NEW st, NEW su, st \subseteq su, IsFiniteSet(su), Acked(e, i, st)
  PROVE  Acked(e, i, su)
<1>1. /\ st \cap (R!First(i) .. Cuts[i]) \subseteq su \cap (R!First(i) .. Cuts[i])
      /\ IsFiniteSet(su \cap (R!First(i) .. Cuts[i]))
  BY FS_Intersection
<1>2. /\ IsFiniteSet(st \cap (R!First(i) .. Cuts[i]))
      /\ Cardinality(st \cap (R!First(i) .. Cuts[i])) <= Cardinality(su \cap (R!First(i) .. Cuts[i]))
  BY <1>1, FS_Subset
<1>3. /\ Cardinality(st \cap (R!First(i) .. Cuts[i])) \in Nat
      /\ Cardinality(su \cap (R!First(i) .. Cuts[i])) \in Nat
  BY <1>1, <1>2, FS_CardinalityType
<1>4. e.n \in Nat
  BY DEF Acked, Things, R!Failure
<1> QED
  BY <1>2, <1>3, <1>4 DEF Acked
-----------------------------------------------------------------------------
Limit == IF kind = "prefetch" THEN Ahead ELSE 1

StreamShape ==
  /\ kind \in R!Kinds /\ bad \in Bad /\ pos \in 0 .. Rows /\ sent \in Nat
  /\ batch \in Seq(Nat) /\ Len(batch) <= R!Size
  /\ producer \in {"on", "done"} /\ client \in {"on", "left"}
  /\ out \in Seq(Things) /\ got \in Seq(Things) /\ handed \in Seq(Nat) /\ Len(out) <= Limit
  /\ \A i \in 1 .. Len(out) :
       out[i].type = "batch" => Len(out[i].rows) <= R!Size /\ kind \notin R!Inserts
  /\ client = "left" => out = <<>> /\ (kind # "prefetch" => producer = "done")
  /\ kind \in R!Inserts => handed = <<>>

ItemsInv ==
  /\ Closed(R!Items, producer, kind)
  /\ kind \in R!Reads => Numbers(R!Items, sent, producer, R!Size)
  /\ kind = "bidi" /\ client = "on" => Acks(R!Items, sent, producer, kept)

StoreInv ==
  /\ kept \subseteq 1 .. pos /\ sum \in Nat /\ sum <= Cardinality(kept)
  /\ kind \in R!Inserts =>
       /\ sent <= Len(Cuts) /\ pos = R!First(sent + 1) - 1
       /\ errs \subseteq {R!First(i) - 1 : i \in 1 .. sent}
       /\ \A i \in 1 .. sent : R!First(i) - 1 \in errs \/ R!First(i) .. Cuts[i] \subseteq kept

ChainInv ==
  client = "on" /\ kind \notin R!Inserts =>
    Chained(R!Readable, handed, out, kind, batch, pos, producer)

StreamInv == StreamShape /\ ItemsInv /\ StoreInv /\ ChainInv

LEMMA StreamBounds ==
  ASSUME R!StreamAssumption, StreamShape
  PROVE  /\ Rows \in Nat /\ R!Size \in Nat /\ R!Size > 0 /\ Limit \in Nat /\ Limit > 0
         /\ Len(out) \in Nat /\ Len(batch) \in Nat /\ pos \in Nat /\ pos <= Rows
         /\ R!Readable \in SUBSET Nat /\ R!Items \in Seq(Things) /\ Len(R!Items) \in Nat
BY DEF R!StreamAssumption, StreamShape, R!Size, Limit, R!Readable, R!Items

LEMMA StreamStarts == ASSUME R!StreamAssumption, R!Init PROVE StreamInv
<1>1. /\ out = <<>> /\ got = <<>> /\ handed = <<>> /\ batch = <<>> /\ pos = 0 /\ sent = 0
      /\ kept = {} /\ sum = 0 /\ errs = {} /\ producer = "on" /\ client = "on"
      /\ kind \in R!Kinds /\ bad \in Bad
  BY DEF R!Init
<1>2. Rows \in Nat /\ R!Size \in Nat /\ Limit \in Nat
  BY DEF R!StreamAssumption, R!Size, Limit
<1>3. StreamShape
  BY <1>1, <1>2 DEF StreamShape
<1>4. Len(R!Items) = 0
  BY <1>1 DEF R!Items
<1>5. ItemsInv
  BY <1>1, <1>4 DEF ItemsInv, Closed, Numbers, Acks
<1>6. StoreInv
  <2>1. Cardinality({}) = 0 /\ R!First(1) = 1 /\ Len(Cuts) \in Nat
    BY FS_EmptySet DEF R!First, R!StreamAssumption
  <2> QED
    BY <1>1, <2>1 DEF StoreInv
<1>7. ChainInv
  <2> DEFINE c == [i \in 0 .. 0 |-> 0]
  <2>1. Spans(<<>>, R!Readable, 0, 0)
    BY NothingSpans DEF R!Readable
  <2>2. c \in [0 .. Len(out) -> 0 .. Rows] /\ c[0] = 0 /\ Len(out) = 0
    BY <1>1, <1>2
  <2> HIDE DEF c
  <2>3. Divide(R!Readable, handed, out, kind, c) /\ InHandFrom(R!Readable, batch, pos, producer, c[Len(out)])
    BY <1>1, <2>1, <2>2 DEF Divide, InHandFrom
  <2> QED
    BY <2>3 DEF ChainInv, Chained
<1> QED
  BY <1>3, <1>5, <1>6, <1>7 DEF StreamInv

(* An item put is the last one of all.                                     *)
LEMMA PutIs ==
  ASSUME R!StreamAssumption, StreamShape, NEW e \in Things, R!Put(e), UNCHANGED <<kind, R!received>>
  PROVE  /\ out' \in Seq(Things) /\ Len(out') <= Limit' /\ out' = Append(out, e)
         /\ Len(out') = Len(out) + 1 /\ out'[Len(out) + 1] = e
         /\ \A i \in 1 .. Len(out) : out'[i] = out[i]
         /\ R!Items' = Append(R!Items, e) /\ got' = got /\ handed' = handed
<1>1. out' = Append(out, e) /\ Len(out) < Limit /\ Limit' = Limit /\ got' = got /\ handed' = handed
  BY DEF R!Put, R!Room, Limit, R!received
<1>2. Len(out) \in Nat /\ Limit \in Nat /\ out \in Seq(Things) /\ got \in Seq(Things)
  BY StreamBounds DEF StreamShape
<1>3. /\ out' \in Seq(Things) /\ Len(out') = Len(out) + 1 /\ out'[Len(out) + 1] = e
      /\ \A i \in 1 .. Len(out) : out'[i] = out[i]
  BY <1>1, <1>2
<1>4. got \o Append(out, e) = Append(got \o out, e)
  BY <1>2, AppendIsConcat, ConcatAssociative
<1> QED
  BY <1>1, <1>2, <1>3, <1>4 DEF R!Items

LEMMA ItemsSame ==
  ASSUME UNCHANGED <<out, R!received>> PROVE R!Items' = R!Items /\ out' = out /\ got' = got /\ handed' = handed
BY DEF R!Items, R!received
LEMMA NothingStored ==
  ASSUME R!StreamAssumption, StreamShape, StoreInv, kind \notin R!Inserts,
         UNCHANGED <<R!source, R!writes>>, pos' \in pos .. Rows
  PROVE  StoreInv'
<1>1. kept' = kept /\ sum' = sum /\ kind' = kind /\ pos \in Nat /\ pos' \in Nat /\ pos <= pos'
  BY StreamBounds DEF R!writes, R!source
<1>2. 1 .. pos \subseteq 1 .. pos'
  BY <1>1
<1> QED
  BY <1>1, <1>2 DEF StoreInv

(* A stream of results comes to its end with an item, or without one.      *)
LEMMA EndsWith ==
  ASSUME R!StreamAssumption, StreamInv, kind \notin R!Inserts, producer = "on", client = "on",
         UNCHANGED <<R!source, sent, R!writes, R!received, client>>, pos' \in pos .. Rows,
         batch' = <<>>, producer' = "done", NEW e \in Things, R!Put(e),
         \/ e = R!Failure
         \/ e = R!Batch(batch, sent, FALSE) /\ (kind \in R!Reads => pos = Rows)
  PROVE  StreamInv'
<1>0. /\ StreamShape /\ ItemsInv /\ StoreInv /\ ChainInv
      /\ batch \in Seq(Nat) /\ sent \in Nat /\ Len(batch) <= R!Size
  BY DEF StreamInv, StreamShape
<1>1. /\ kind' = kind /\ bad' = bad /\ sent' = sent /\ client' = client
      /\ R!Size' = R!Size /\ Limit' = Limit /\ R!Readable' = R!Readable /\ kept' = kept
      /\ UNCHANGED <<R!source, R!writes>> /\ UNCHANGED <<kind, R!received>>
  BY DEF R!source, R!writes, R!Size, Limit, R!Readable
<1>2. /\ out' \in Seq(Things) /\ Len(out') <= Limit' /\ out' = Append(out, e)
      /\ Len(out') = Len(out) + 1 /\ out'[Len(out) + 1] = e
      /\ \A i \in 1 .. Len(out) : out'[i] = out[i]
      /\ R!Items' = Append(R!Items, e) /\ got' = got /\ handed' = handed
  BY <1>0, <1>1, PutIs
<1>3. /\ Rows \in Nat /\ R!Size \in Nat /\ Len(out) \in Nat /\ Len(batch) \in Nat /\ pos \in Nat
      /\ R!Readable \in SUBSET Nat /\ R!Items \in Seq(Things) /\ pos <= Rows
  BY <1>0, StreamBounds
<1>4. /\ e.type \in {"batch", "failure"}
      /\ e.type = "batch" => /\ e.rows = batch /\ e.index = sent /\ ~e.more
                             /\ (kind \in R!Reads => pos = Rows)
  <2>1. CASE e = R!Failure
    BY <2>1 DEF R!Failure
  <2>2. CASE e = R!Batch(batch, sent, FALSE) /\ (kind \in R!Reads => pos = Rows)
    BY <2>2 DEF R!Batch
  <2> QED
    BY <2>1, <2>2
<1>5. StreamShape'
  <2>1. ASSUME NEW i \in 1 .. Len(out'), out'[i].type = "batch"
        PROVE  Len(out'[i].rows) <= R!Size' /\ kind' \notin R!Inserts
    <3>1. CASE i = Len(out) + 1
      <4>1. out'[i] = e
        BY <1>2, <3>1
      <4> QED
        BY <1>0, <1>1, <1>4, <2>1, <4>1
    <3>2. CASE i \in 1 .. Len(out)
      <4>1. out'[i] = out[i]
        BY <1>2, <3>2
      <4> QED
        BY <1>0, <1>1, <2>1, <3>2, <4>1 DEF StreamShape
    <3> QED
      BY <1>2, <1>3, <3>1, <3>2
  <2>2. /\ kind' \in R!Kinds /\ bad' \in Bad /\ pos' \in 0 .. Rows /\ sent' \in Nat
        /\ batch' \in Seq(Nat) /\ Len(batch') <= R!Size' /\ producer' \in {"on", "done"}
        /\ client' \in {"on", "left"} /\ client' = "on" /\ got' \in Seq(Things) /\ handed' \in Seq(Nat)
        /\ kind' \notin R!Inserts
    <3>1. pos' \in 0 .. Rows
      BY <1>3
    <3> QED
      BY <1>0, <1>1, <1>2, <1>3, <3>1 DEF StreamShape
  <2> QED
    BY <1>2, <2>1, <2>2 DEF StreamShape
<1>6. ItemsInv'
  <2>1. Closed(R!Items', producer', kind')
    BY <1>0, <1>1, <1>2, <1>3, ClosedPut DEF ItemsInv
  <2>2. ASSUME kind \in R!Reads PROVE Numbers(R!Items', sent', producer', R!Size')
    <3>1. Numbers(R!Items, sent, "on", R!Size)
      BY <1>0, <2>2 DEF ItemsInv
    <3>2. Numbers(Append(R!Items, e), sent, "done", R!Size)
      BY <1>0, <1>3, <1>4, <3>1, NumbersPut
    <3> QED
      BY <1>1, <1>2, <3>2
  <2>3. kind' # "bidi"
    BY <1>1 DEF R!Inserts
  <2> QED
    BY <1>1, <2>1, <2>2, <2>3 DEF ItemsInv
<1>7. StoreInv'
  BY <1>0, <1>1, NothingStored
<1>8. ChainInv'
  <2>1. PICK c : /\ Divide(R!Readable, handed, out, kind, c)
                 /\ InHandFrom(R!Readable, batch, pos, producer, c[Len(out)])
    BY <1>0 DEF ChainInv, Chained
  <2>2. c[Len(out)] \in 0 .. Rows /\ c[Len(out)] <= pos /\ Spans(batch, R!Readable, c[Len(out)], pos)
    <3>1. c \in [0 .. Len(out) -> 0 .. Rows] /\ Len(out) \in 0 .. Len(out)
      BY <1>3, <2>1 DEF Divide
    <3> QED
      BY <2>1, <3>1 DEF InHandFrom
  <2> DEFINE n == IF e.type = "batch" THEN pos ELSE c[Len(out)]
  <2>3. n \in 0 .. Rows
    BY <1>3, <2>2
  <2>4. Fits(R!Readable, c[Len(out)], kind, e, n)
    BY <1>4, <2>2 DEF Fits
  <2> HIDE DEF n
  <2>5. PICK d : Divide(R!Readable, handed, Append(out, e), kind, d)
    <3>1. out \in Seq(Things)
      BY <1>0 DEF StreamShape
    <3> QED
      BY <1>3, <2>1, <2>3, <2>4, <3>1, ChainPut
  <2>6. Divide(R!Readable', handed', out', kind', d) /\ InHandFrom(R!Readable', batch', pos', producer', d[Len(out')])
    BY <1>1, <1>2, <2>5 DEF InHandFrom
  <2> QED
    BY <2>6 DEF ChainInv, Chained
<1> QED
  BY <1>5, <1>6, <1>7, <1>8 DEF StreamInv

LEMMA EndsQuietly ==
  ASSUME R!StreamAssumption, StreamInv, kind \notin R!Inserts, producer = "on",
         UNCHANGED <<R!source, pos, sent, R!writes, out, R!received, client>>,
         batch' = <<>>, producer' = "done"
  PROVE  StreamInv'
<1>0. StreamShape /\ ItemsInv /\ StoreInv /\ ChainInv
  BY DEF StreamInv
<1>1. /\ kind' = kind /\ bad' = bad /\ sent' = sent /\ client' = client /\ pos' = pos
      /\ R!Size' = R!Size /\ Limit' = Limit /\ R!Readable' = R!Readable /\ kept' = kept
      /\ UNCHANGED <<R!source, R!writes>> /\ UNCHANGED <<out, R!received>>
  BY DEF R!source, R!writes, R!Size, Limit, R!Readable
<1>2. R!Items' = R!Items /\ out' = out /\ got' = got /\ handed' = handed
  BY <1>1, ItemsSame
<1>3. /\ Rows \in Nat /\ R!Size \in Nat /\ pos \in Nat /\ R!Items \in Seq(Things) /\ pos <= Rows
      /\ Len(R!Items) \in Nat
  BY <1>0, StreamBounds
<1>5. StreamShape'
  BY <1>0, <1>1, <1>2, <1>3 DEF StreamShape
<1>6. ItemsInv'
  <2>1. Closed(R!Items, "done", kind)
    BY <1>0, <1>3, ClosedCut DEF ItemsInv
  <2>2. kind \in R!Reads => Numbers(R!Items, sent, "done", R!Size)
    BY <1>0, <1>3, NumbersCut DEF ItemsInv
  <2>3. kind' # "bidi"
    BY <1>1 DEF R!Inserts
  <2> QED
    BY <1>1, <1>2, <2>1, <2>2, <2>3 DEF ItemsInv
<1>7. StoreInv'
  <2>1. pos' \in pos .. Rows
    BY <1>1, <1>3
  <2> QED
    BY <1>0, <1>1, <2>1, NothingStored
<1>8. ChainInv'
  <2> SUFFICES ASSUME client = "on" PROVE Chained(R!Readable', handed', out', kind', batch', pos', producer')
    BY <1>1 DEF ChainInv
  <2>1. PICK c : Divide(R!Readable, handed, out, kind, c)
    BY <1>0 DEF ChainInv, Chained
  <2>2. InHandFrom(R!Readable', batch', pos', producer', c[Len(out')])
    BY DEF InHandFrom
  <2> QED
    BY <1>1, <1>2, <2>1, <2>2 DEF Chained
<1> QED
  BY <1>5, <1>6, <1>7, <1>8 DEF StreamInv
LEMMA EmitStep == ASSUME R!StreamAssumption, StreamInv, R!Emit PROVE StreamInv'
<1> DEFINE e == R!Batch(batch, sent, TRUE)
<1>0. /\ StreamShape /\ ItemsInv /\ StoreInv /\ ChainInv
      /\ batch \in Seq(Nat) /\ sent \in Nat /\ Len(batch) = R!Size
      /\ kind \notin R!Inserts /\ producer = "on" /\ client = "on" /\ R!Put(e) /\ sent' = sent + 1
      /\ batch' = <<>> /\ pos' = pos /\ producer' = producer /\ client' = client
      /\ UNCHANGED <<R!source, R!writes>> /\ UNCHANGED <<kind, R!received>>
  BY DEF StreamInv, StreamShape, R!Emit, R!source
<1>1. /\ kind' = kind /\ bad' = bad
      /\ R!Size' = R!Size /\ Limit' = Limit /\ R!Readable' = R!Readable /\ kept' = kept
  BY <1>0 DEF R!source, R!writes, R!Size, Limit, R!Readable
<1>4. /\ e \in Things /\ e.type = "batch" /\ e.rows = batch /\ e.index = sent /\ e.more
  <2>1. e \in [type : {"batch"}, rows : Seq(Nat), index : Nat, more : BOOLEAN]
    BY <1>0 DEF R!Batch
  <2>2. e \in Things
    BY <2>1 DEF Things
  <2> QED
    BY <2>2 DEF R!Batch
<1> HIDE DEF e
<1>2. /\ out' \in Seq(Things) /\ Len(out') <= Limit' /\ out' = Append(out, e)
      /\ Len(out') = Len(out) + 1 /\ out'[Len(out) + 1] = e
      /\ \A i \in 1 .. Len(out) : out'[i] = out[i]
      /\ R!Items' = Append(R!Items, e) /\ got' = got /\ handed' = handed
  BY <1>0, <1>4, PutIs
<1>3. /\ Rows \in Nat /\ R!Size \in Nat /\ Len(out) \in Nat /\ pos \in Nat
      /\ R!Readable \in SUBSET Nat /\ R!Items \in Seq(Things) /\ pos <= Rows
  BY <1>0, StreamBounds
<1>5. StreamShape'
  <2>1. ASSUME NEW i \in 1 .. Len(out'), out'[i].type = "batch"
        PROVE  Len(out'[i].rows) <= R!Size' /\ kind' \notin R!Inserts
    <3>1. CASE i = Len(out) + 1
      <4>1. out'[i] = e
        BY <1>2, <3>1
      <4> QED
        BY <1>0, <1>1, <1>3, <1>4, <4>1
    <3>2. CASE i \in 1 .. Len(out)
      <4>1. out'[i] = out[i]
        BY <1>2, <3>2
      <4> QED
        BY <1>0, <1>1, <2>1, <3>2, <4>1 DEF StreamShape
    <3> QED
      BY <1>2, <1>3, <3>1, <3>2
  <2>2. /\ kind' \in R!Kinds /\ bad' \in Bad /\ pos' \in 0 .. Rows /\ sent' \in Nat
        /\ batch' \in Seq(Nat) /\ Len(batch') <= R!Size' /\ producer' \in {"on", "done"}
        /\ client' \in {"on", "left"} /\ client' = "on" /\ got' \in Seq(Things) /\ handed' \in Seq(Nat)
        /\ kind' \notin R!Inserts
    BY <1>0, <1>1, <1>2, <1>3 DEF StreamShape
  <2> QED
    BY <1>2, <2>1, <2>2 DEF StreamShape
<1>6. ItemsInv'
  <2>1. Closed(R!Items', producer', kind')
    <3>1. ~Closes(e, kind)
      BY <1>4 DEF Closes
    <3>2. Closed(R!Items, "on", kind)
      BY <1>0 DEF ItemsInv
    <3>3. Closed(Append(R!Items, e), "on", kind)
      BY <1>3, <1>4, <3>1, <3>2, ClosedPut
    <3> QED
      BY <1>0, <1>1, <1>2, <3>3
  <2>2. ASSUME kind \in R!Reads PROVE Numbers(R!Items', sent', producer', R!Size')
    <3>1. Numbers(R!Items, sent, "on", R!Size)
      BY <1>0, <2>2 DEF ItemsInv
    <3>2. Numbers(Append(R!Items, e), sent + 1, "on", R!Size)
      BY <1>0, <1>3, <1>4, <3>1, NumbersPut
    <3> QED
      BY <1>0, <1>1, <1>2, <3>2
  <2>3. kind' # "bidi"
    BY <1>0, <1>1 DEF R!Inserts
  <2> QED
    BY <1>1, <2>1, <2>2, <2>3 DEF ItemsInv
<1>7. StoreInv'
  <2>1. pos' \in pos .. Rows
    BY <1>0, <1>3
  <2> QED
    BY <1>0, <2>1, NothingStored
<1>8. ChainInv'
  <2>1. PICK c : /\ Divide(R!Readable, handed, out, kind, c)
                 /\ InHandFrom(R!Readable, batch, pos, producer, c[Len(out)])
    BY <1>0 DEF ChainInv, Chained
  <2>2. c[Len(out)] <= pos /\ Spans(batch, R!Readable, c[Len(out)], pos)
    BY <1>0, <2>1 DEF InHandFrom
  <2>3. pos \in 0 .. Rows
    BY <1>3
  <2>4. Fits(R!Readable, c[Len(out)], kind, e, pos)
    BY <1>4, <2>2 DEF Fits
  <2>5. PICK d : Divide(R!Readable, handed, Append(out, e), kind, d) /\ d[Len(out) + 1] = pos
    <3>1. out \in Seq(Things)
      BY <1>0 DEF StreamShape
    <3> QED
      BY <1>3, <1>4, <2>1, <2>3, <2>4, <3>1, ChainPut
  <2>6. Divide(R!Readable', handed', out', kind', d) /\ InHandFrom(R!Readable', batch', pos', producer', d[Len(out')])
    BY <1>0, <1>1, <1>2, <1>3, <2>5, NothingSpans DEF InHandFrom
  <2> QED
    BY <2>6 DEF ChainInv, Chained
<1> QED
  BY <1>5, <1>6, <1>7, <1>8 DEF StreamInv

LEMMA AdvanceStep == ASSUME R!StreamAssumption, StreamInv, R!Advance PROVE StreamInv'
<1>0. /\ StreamShape /\ ItemsInv /\ StoreInv /\ ChainInv
      /\ batch \in Seq(Nat) /\ Len(batch) < R!Size
      /\ kind \notin R!Inserts /\ producer = "on" /\ pos < Rows /\ pos' = pos + 1
      /\ UNCHANGED <<R!source, sent, R!writes, R!received, client>>
      /\ UNCHANGED <<R!source, R!writes>>
  BY DEF StreamInv, StreamShape, R!Advance, R!Reading
<1>1. /\ kind' = kind /\ bad' = bad /\ sent' = sent /\ client' = client /\ got' = got /\ handed' = handed
      /\ R!Size' = R!Size /\ Limit' = Limit /\ R!Readable' = R!Readable /\ kept' = kept
  BY <1>0 DEF R!source, R!writes, R!Size, Limit, R!Readable, R!received
<1>2. /\ Rows \in Nat /\ R!Size \in Nat /\ pos \in Nat /\ R!Readable \in SUBSET Nat /\ R!Items \in Seq(Things)
      /\ Len(batch) \in Nat /\ Len(out) \in Nat
  BY <1>0, StreamBounds
<1>3. pos' \in pos .. Rows /\ pos' \in 0 .. Rows /\ pos + 1 \in 1 .. Rows
  BY <1>0, <1>2
<1>4. CASE pos' \in bad /\ kind # "prefetch"
  <2>1. R!Put(R!Failure) /\ batch' = <<>> /\ producer' = "done" /\ client = "on" /\ R!Failure \in Things
    BY <1>0, <1>4, ThingsHaveTypes DEF R!Advance, StreamShape
  <2> QED
    BY <1>0, <1>3, <2>1, EndsWith
<1>5. ASSUME ~(pos' \in bad /\ kind # "prefetch") PROVE StreamInv'
  <2>1. out' = out /\ producer' = producer /\ (pos' \notin bad => batch' = Append(batch, pos'))
        /\ (pos' \in bad => kind = "prefetch" /\ batch' = batch)
    BY <1>5 DEF R!Advance
  <2>2. R!Items' = R!Items
    BY <1>1, <2>1 DEF R!Items
  <2>3. batch' \in Seq(Nat) /\ Len(batch') <= R!Size
    <3>1. Append(batch, pos') \in Seq(Nat) /\ Len(Append(batch, pos')) = Len(batch) + 1
      <4>1. pos' \in Nat
        BY <1>0, <1>2
      <4> QED
        BY <1>0, <4>1
    <3>2. Len(batch) + 1 <= R!Size /\ Len(batch) <= R!Size
      BY <1>0, <1>2
    <3> QED
      BY <1>0, <2>1, <3>1, <3>2
  <2>4. StreamShape'
    BY <1>0, <1>1, <1>3, <2>1, <2>3 DEF StreamShape
  <2>5. ItemsInv'
    BY <1>0, <1>1, <2>1, <2>2 DEF ItemsInv
  <2>6. StoreInv'
    BY <1>0, <1>3, NothingStored
  <2>7. ChainInv'
    <3> SUFFICES ASSUME client = "on" PROVE Chained(R!Readable', handed', out', kind', batch', pos', producer')
      BY <1>1 DEF ChainInv
    <3>1. PICK c : /\ Divide(R!Readable, handed, out, kind, c)
                   /\ InHandFrom(R!Readable, batch, pos, producer, c[Len(out)])
      BY <1>0 DEF ChainInv, Chained
    <3>2. c[Len(out)] \in Nat /\ c[Len(out)] <= pos /\ Spans(batch, R!Readable, c[Len(out)], pos)
      <4>1. c \in [0 .. Len(out) -> 0 .. Rows] /\ Len(out) \in 0 .. Len(out)
        BY <1>2, <3>1 DEF Divide
      <4>2. c[Len(out)] \in 0 .. Rows
        BY <4>1
      <4> QED
        BY <1>0, <3>1, <4>2 DEF InHandFrom
    <3>3. pos + 1 \in R!Readable <=> ~(kind = "prefetch" /\ pos' \in bad)
      BY <1>0, <1>3 DEF R!Readable
    <3>4. Spans(batch', R!Readable, c[Len(out)], pos + 1)
      BY <1>0, <1>2, <2>1, <3>2, <3>3, OneMoreSpans
    <3>5. c[Len(out)] <= pos + 1
      BY <1>2, <3>2
    <3>6. InHandFrom(R!Readable', batch', pos', producer', c[Len(out')])
      BY <1>0, <1>1, <2>1, <3>4, <3>5 DEF InHandFrom
    <3> QED
      BY <1>1, <2>1, <3>1, <3>6 DEF Chained
  <2> QED
    BY <2>4, <2>5, <2>6, <2>7 DEF StreamInv
<1> QED
  BY <1>4, <1>5

LEMMA EndSteps ==
  ASSUME R!StreamAssumption, StreamInv, R!Exhaust \/ R!CursorError \/ R!IdleTimeout \/ R!Unheard
  PROVE  StreamInv'
<1>0. /\ kind \notin R!Inserts /\ producer = "on" /\ batch' = <<>> /\ producer' = "done" /\ pos' = pos
      /\ UNCHANGED <<R!source, sent, R!writes, R!received, client>>
      /\ UNCHANGED <<R!source, pos, sent, R!writes, R!received, client>>
  BY DEF R!Exhaust, R!CursorError, R!IdleTimeout, R!Unheard, R!Reading, R!Inserts
<1>1. pos' \in pos .. Rows /\ pos \in Nat /\ batch \in Seq(Nat) /\ sent \in Nat
      /\ (kind # "prefetch" => client = "on")
  BY <1>0, StreamBounds DEF StreamInv, StreamShape
<1>2. CASE UNCHANGED out
  BY <1>0, <1>2, EndsQuietly
<1>3. CASE R!Put(R!Failure) /\ client = "on"
  BY <1>0, <1>1, <1>3, EndsWith, ThingsHaveTypes
<1>4. CASE R!Put(R!Batch(batch, sent, FALSE)) /\ client = "on" /\ (kind \in R!Reads => pos = Rows)
  <2>1. R!Batch(batch, sent, FALSE) \in Things
    BY <1>1, ThingsHaveTypes
  <2> QED
    BY <1>0, <1>1, <1>4, <2>1, EndsWith
<1>5. \/ UNCHANGED out
      \/ R!Put(R!Failure) /\ client = "on"
      \/ R!Put(R!Batch(batch, sent, FALSE)) /\ client = "on" /\ (kind \in R!Reads => pos = Rows)
  BY <1>0, <1>1 DEF R!Exhaust, R!CursorError, R!IdleTimeout, R!Unheard, R!Reads
<1> QED
  BY <1>2, <1>3, <1>4, <1>5
-----------------------------------------------------------------------------
LEMMA CutArithmetic ==
  ASSUME NEW f \in Nat, NEW u \in Nat, f >= 1, f <= u + 1
  PROVE  /\ (f - 1) + 1 = f /\ (f - 1) + (u + 1 - f) = u /\ u = (u + 1) - 1
         /\ u - (f - 1) = u + 1 - f /\ u + 1 - f \in Nat /\ f - 1 \in Nat
OBVIOUS

LEMMA SameNumber == \A T : R!Cardinality(T) = Cardinality(T)
BY DEF R!Cardinality, Cardinality

LEMMA CutsAre ==
  ASSUME R!StreamAssumption, NEW i \in 1 .. Len(Cuts)
  PROVE  /\ Len(Cuts) \in Nat /\ Cuts[i] \in 0 .. Rows /\ Cuts[i] \in Nat
         /\ R!First(i) \in Nat /\ R!First(i) >= 1 /\ R!First(i) <= Cuts[i] + 1
         /\ R!First(i + 1) = Cuts[i] + 1 /\ R!Arrived(i) = Cuts[i] + 1 - R!First(i) /\ R!Arrived(i) \in Nat
<1>1. Cuts \in Seq(0 .. Rows) /\ DOMAIN Cuts = 1 .. Len(Cuts) /\ Len(Cuts) \in Nat /\ Rows \in Nat
  BY DEF R!StreamAssumption
<1>2. Cuts[i] \in 0 .. Rows
  BY <1>1
<1>3. CASE i = 1
  BY <1>1, <1>2, <1>3 DEF R!First, R!Arrived
<1>4. CASE i # 1
  <2>1. i - 1 \in 1 .. Len(Cuts) /\ i - 1 < i /\ i + 1 # 1 /\ (i + 1) - 1 = i
    BY <1>1, <1>4
  <2>2. Cuts[i - 1] <= Cuts[i] /\ Cuts[i - 1] \in 0 .. Rows
    BY <1>1, <2>1 DEF R!StreamAssumption
  <2>3. R!First(i) = Cuts[i - 1] + 1 /\ R!First(i + 1) = Cuts[i] + 1
    BY <1>4, <2>1 DEF R!First
  <2>4. R!Arrived(i) = Cuts[i] - (R!First(i) - 1)
    BY DEF R!Arrived
  <2>5. Cuts[i - 1] \in Nat /\ Cuts[i] \in Nat
    BY <1>1, <1>2, <2>2
  <2>6. Cuts[i - 1] + 1 \in Nat /\ Cuts[i - 1] + 1 >= 1 /\ Cuts[i - 1] + 1 <= Cuts[i] + 1
    BY <2>2, <2>5
  <2>7. R!First(i) \in Nat /\ R!First(i) >= 1 /\ R!First(i) <= Cuts[i] + 1
    BY <2>3, <2>6
  <2>8. Cuts[i] - (R!First(i) - 1) = Cuts[i] + 1 - R!First(i) /\ Cuts[i] + 1 - R!First(i) \in Nat
    BY <2>5, <2>7, CutArithmetic
  <2> QED
    BY <1>1, <1>2, <2>3, <2>4, <2>5, <2>7, <2>8
<1> QED
  BY <1>3, <1>4

LEMMA StoredMore ==
  ASSUME NEW st, NEW p \in Nat, NEW k \in Nat, st \subseteq 1 .. p
  PROVE  /\ IsFiniteSet(st) /\ IsFiniteSet(st \union (p + 1 .. p + k)) /\ Cardinality(st) \in Nat
         /\ Cardinality(p + 1 .. p + k) = k
         /\ Cardinality(st \union (p + 1 .. p + k)) = Cardinality(st) + k
         /\ st \union (p + 1 .. p + k) \subseteq 1 .. p + k
<1> DEFINE v == p + 1 .. p + k
<1>1. IsFiniteSet(1 .. p)
  BY FS_Interval
<1>2. IsFiniteSet(st) /\ Cardinality(st) \in Nat
  BY <1>1, FS_Subset, FS_CardinalityType
<1>3. IsFiniteSet(v) /\ Cardinality(v) = k
  <2>1. p + 1 \in Int /\ p + k \in Int /\ (p + 1 > p + k => k = 0) /\ (p + k) - (p + 1) + 1 = k
    OBVIOUS
  <2> QED
    BY <2>1, FS_Interval
<1>4. st \cap v = {} /\ st \union v \subseteq 1 .. p + k
  <2>1. \A i \in 1 .. p : i \notin v /\ i \in 1 .. p + k
    OBVIOUS
  <2>2. \A i \in v : i \in 1 .. p + k
    OBVIOUS
  <2> HIDE DEF v
  <2> QED
    BY <2>1, <2>2
<1> HIDE DEF v
<1>5. IsFiniteSet(st \union v) /\ Cardinality(st \union v) = Cardinality(st) + k
  <2>1. /\ IsFiniteSet(st \union v)
        /\ Cardinality(st \union v) = Cardinality(st) + Cardinality(v) - Cardinality(st \cap v)
    BY <1>2, <1>3, FS_Union
  <2>2. Cardinality(st \cap v) = 0
    BY <1>4, FS_EmptySet
  <2> QED
    BY <1>2, <1>3, <2>1, <2>2
<1> QED
  BY <1>2, <1>3, <1>4, <1>5 DEF v

LEMMA BatchStep == ASSUME R!StreamAssumption, StreamInv, R!InsertBatch PROVE StreamInv'
<1> DEFINE n == R!Arrived(sent + 1)
           c == sent + 1
<1>1. PICK k \in 0 .. n, ok \in BOOLEAN :
        (ok => k = n) /\ R!Store((pos + 1) .. (pos + k), ok)
  BY DEF R!InsertBatch
<1> DEFINE done == (pos + 1) .. (pos + k)
           e == R!Ack(sent, IF ok THEN Cardinality(done) ELSE 0, ~ok)
<1>0. /\ StreamShape /\ ItemsInv /\ StoreInv /\ ChainInv
      /\ kind \in R!Inserts /\ producer = "on" /\ sent < Len(Cuts) /\ pos' = pos + n /\ sent' = c
      /\ UNCHANGED <<R!source, batch, R!received, producer, client>> /\ UNCHANGED <<kind, R!received>>
      /\ kept' = kept \union done /\ sum' = sum + (IF ok THEN Cardinality(done) ELSE 0)
      /\ errs' = (IF ok THEN errs ELSE errs \union {pos})
      /\ (kind = "bidi" => R!Put(e)) /\ (kind # "bidi" => UNCHANGED out)
  BY <1>1, SameNumber DEF StreamInv, R!InsertBatch, R!More, R!Store, R!source
<1>2. /\ Rows \in Nat /\ pos \in Nat /\ sent \in Nat /\ c \in 1 .. Len(Cuts) /\ client = "on"
      /\ R!Items \in Seq(Things) /\ Len(R!Items) \in Nat /\ Len(out) \in Nat /\ R!Size' = R!Size /\ Limit' = Limit
  <2>1. c \in 1 .. Len(Cuts)
    BY <1>0 DEF StreamShape, R!StreamAssumption
  <2>2. client = "on"
    BY <1>0 DEF StreamShape, R!Inserts
  <2> QED
    BY <1>0, <2>1, <2>2, StreamBounds DEF StreamShape, R!Size, Limit
<1>3. /\ n \in Nat /\ pos + 1 = R!First(c) /\ pos + n = Cuts[c] /\ pos + n \in 0 .. Rows
      /\ pos + n = R!First(c + 1) - 1 /\ R!First(c) - 1 = pos
  <2>1. Cuts[c] \in 0 .. Rows /\ R!First(c) \in Nat /\ R!First(c) >= 1 /\ R!First(c) <= Cuts[c] + 1
        /\ R!First(c + 1) = Cuts[c] + 1 /\ n = Cuts[c] + 1 - R!First(c) /\ n \in Nat /\ Cuts[c] \in Nat
    BY <1>2, CutsAre
  <2>2. pos = R!First(c) - 1
    BY <1>0 DEF StoreInv
  <2>3. pos \in Nat
    BY <1>2
  <2> HIDE DEF n, c
  <2>5. /\ (R!First(c) - 1) + 1 = R!First(c) /\ (R!First(c) - 1) + (Cuts[c] + 1 - R!First(c)) = Cuts[c]
        /\ Cuts[c] = (Cuts[c] + 1) - 1
    BY <2>1, CutArithmetic
  <2>6. pos + n = (R!First(c) - 1) + (Cuts[c] + 1 - R!First(c)) /\ pos + 1 = (R!First(c) - 1) + 1
        /\ R!First(c + 1) - 1 = (Cuts[c] + 1) - 1
    BY <2>1, <2>2
  <2>4. pos + 1 = R!First(c) /\ pos + n = Cuts[c] /\ pos + n = R!First(c + 1) - 1
    BY <2>5, <2>6
  <2> QED
    BY <2>1, <2>2, <2>4
<1>4. k \in Nat /\ k <= n
  BY <1>3
<1> HIDE DEF n
<1>5. /\ IsFiniteSet(kept) /\ IsFiniteSet(kept') /\ Cardinality(kept) \in Nat
      /\ Cardinality(done) = k /\ Cardinality(kept') = Cardinality(kept) + k
      /\ kept' \subseteq 1 .. pos + k
  <2>1. kept \subseteq 1 .. pos /\ pos \in Nat /\ k \in Nat /\ kept' = kept \union ((pos + 1) .. (pos + k))
    BY <1>0, <1>2, <1>4 DEF StoreInv
  <2>2. /\ IsFiniteSet(kept) /\ IsFiniteSet(kept \union ((pos + 1) .. (pos + k))) /\ Cardinality(kept) \in Nat
        /\ Cardinality((pos + 1) .. (pos + k)) = k
        /\ Cardinality(kept \union ((pos + 1) .. (pos + k))) = Cardinality(kept) + k
        /\ kept \union ((pos + 1) .. (pos + k)) \subseteq 1 .. pos + k
    BY <2>1, StoredMore
  <2> QED
    BY <2>1, <2>2
<1>6. sum \in Nat /\ sum <= Cardinality(kept) /\ sum' \in Nat /\ sum' <= Cardinality(kept')
  <2>1. sum' = sum + (IF ok THEN k ELSE 0)
    BY <1>0, <1>5
  <2>2. sum \in Nat /\ sum <= Cardinality(kept)
    BY <1>0 DEF StoreInv
  <2> HIDE DEF done
  <2> QED
    BY <1>4, <1>5, <2>1, <2>2
<1>7. StoreInv'
  <2>1. kept' \subseteq 1 .. pos'
    <3>1. 1 .. pos + k \subseteq 1 .. pos + n
      BY <1>2, <1>3, <1>4
    <3> QED
      BY <1>0, <1>5, <3>1
  <2>2. c <= Len(Cuts) /\ pos' = R!First(c + 1) - 1
    BY <1>0, <1>2, <1>3
  <2>3. ASSUME NEW i \in 1 .. c PROVE i \in 1 .. sent \/ i = c
    BY <1>2
  <2>4. c \in 1 .. c /\ \A i \in 1 .. sent : i \in 1 .. c
    BY <1>2
  <2>5. errs' \subseteq {R!First(i) - 1 : i \in 1 .. c}
    <3>1. errs \subseteq {R!First(i) - 1 : i \in 1 .. c}
      BY <1>0, <2>4 DEF StoreInv
    <3>2. pos \in {R!First(i) - 1 : i \in 1 .. c}
      BY <1>3, <2>4
    <3> QED
      BY <1>0, <3>1, <3>2
  <2>6. ASSUME NEW i \in 1 .. c PROVE R!First(i) - 1 \in errs' \/ R!First(i) .. Cuts[i] \subseteq kept'
    <3>1. CASE i \in 1 .. sent
      <4>1. R!First(i) - 1 \in errs \/ R!First(i) .. Cuts[i] \subseteq kept
        BY <1>0, <3>1 DEF StoreInv
      <4>2. errs \subseteq errs' /\ kept \subseteq kept'
        BY <1>0
      <4> QED
        BY <4>1, <4>2
    <3>2. CASE i = c /\ ok
      <4>1. done = R!First(c) .. Cuts[c] /\ done \subseteq kept'
        BY <1>0, <1>1, <1>3, <3>2
      <4> QED
        BY <3>2, <4>1
    <3>3. CASE i = c /\ ~ok
      <4>1. pos \in errs'
        BY <1>0, <3>3
      <4> QED
        BY <1>3, <3>3, <4>1
    <3> QED
      BY <2>3, <3>1, <3>2, <3>3
  <2> HIDE DEF c
  <2> QED
    BY <1>0, <1>6, <2>1, <2>2, <2>5, <2>6 DEF StoreInv
<1>8. e \in Things /\ Acked(e, c, kept') /\ ~Closes(e, kind)
  <2>1. e \in [type : {"ack"}, index : Nat, n : Nat, failed : BOOLEAN]
    BY <1>2, <1>4, <1>5 DEF R!Ack
  <2>2. e \in Things /\ e.type = "ack" /\ e.index = sent /\ e.n = (IF ok THEN Cardinality(done) ELSE 0)
    BY <2>1 DEF Things, R!Ack
  <2>3. e.n <= Cardinality(kept' \cap (R!First(c) .. Cuts[c]))
    <3>1. done \subseteq kept' \cap (R!First(c) .. Cuts[c])
      <4>1. done \subseteq R!First(c) .. Cuts[c]
        BY <1>2, <1>3, <1>4
      <4> QED
        BY <1>0, <4>1
    <3>2. IsFiniteSet(kept' \cap (R!First(c) .. Cuts[c]))
      BY <1>5, FS_Intersection
    <3> HIDE DEF done, e, c
    <3>3. /\ Cardinality(done) <= Cardinality(kept' \cap (R!First(c) .. Cuts[c]))
          /\ Cardinality(kept' \cap (R!First(c) .. Cuts[c])) \in Nat
      BY <3>1, <3>2, FS_Subset, FS_CardinalityType
    <3> QED
      BY <1>4, <1>5, <2>2, <3>3
  <2>4. e.index = c - 1
    BY <1>2, <2>2
  <2> HIDE DEF e, c
  <2> QED
    BY <2>2, <2>3, <2>4 DEF Acked, Closes
<1> HIDE DEF e, c, done
<1>9. Closed(R!Items', producer', kind') /\ (kind = "bidi" => Acks(R!Items', sent', producer', kept'))
      /\ out' \in Seq(Things) /\ Len(out') <= Limit'
      /\ \A i \in 1 .. Len(out') : out'[i].type # "batch"
  <2>0. \A i \in 1 .. Len(out) : out[i].type # "batch"
    BY <1>0 DEF StreamShape
  <2>00. Closed(R!Items, "on", kind)
    BY <1>0 DEF ItemsInv
  <2>1. CASE kind = "bidi"
    <3>1. /\ out' \in Seq(Things) /\ Len(out') <= Limit'
          /\ Len(out') = Len(out) + 1 /\ out'[Len(out) + 1] = e
          /\ \A i \in 1 .. Len(out) : out'[i] = out[i]
          /\ R!Items' = Append(R!Items, e)
      BY <1>0, <1>8, <2>1, PutIs
    <3>2. Acks(R!Items, sent, "on", kept)
      BY <1>0, <1>2, <2>1 DEF ItemsInv
    <3>3. Acks(R!Items, sent, "on", kept')
      <4>1. kept \subseteq kept' /\ IsFiniteSet(kept')
        BY <1>0, <1>5
      <4>2. ASSUME NEW i \in 1 .. Len(R!Items), Acked(R!Items[i], i, kept) PROVE Acked(R!Items[i], i, kept')
        <5>1. R!Items[i] \in Things
          BY <1>2
        <5> QED
          BY <4>1, <4>2, <5>1, AckedStays
      <4> QED
        BY <3>2, <4>2 DEF Acks
    <3>4. Acks(Append(R!Items, e), sent + 1, "on", kept')
      BY <1>2, <1>8, <3>3, AcksPut DEF c
    <3>5. Closed(Append(R!Items, e), "on", kind)
      BY <1>2, <1>8, <2>00, ClosedPut
    <3>6. \A i \in 1 .. Len(out') : out'[i].type # "batch"
      <4>1. e.type # "batch"
        BY <1>8 DEF Acked
      <4>2. \A i \in 1 .. Len(out) + 1 : i \in 1 .. Len(out) \/ i = Len(out) + 1
        BY <1>2
      <4> QED
        BY <2>0, <3>1, <4>1, <4>2
    <3> QED
      BY <1>0, <3>1, <3>4, <3>5, <3>6 DEF R!source, c
  <2>2. CASE kind # "bidi"
    <3>1. out' = out /\ R!Items' = R!Items /\ kind' = kind /\ producer' = producer
      BY <1>0, <2>2, ItemsSame DEF R!source
    <3> QED
      BY <1>0, <1>2, <2>0, <2>00, <2>2, <3>1 DEF StreamShape
  <2> QED
    BY <2>1, <2>2
<1>10. ItemsInv'
  <2>1. kind' = kind /\ kind \notin R!Reads
    BY <1>0 DEF R!source, R!Inserts, R!Reads
  <2> QED
    BY <1>9, <2>1 DEF ItemsInv
<1>11. StreamShape'
  <2>1. pos' \in 0 .. Rows /\ sent' \in Nat /\ kind' = kind /\ bad' = bad /\ batch' = batch /\ producer' = producer
        /\ client' = client /\ got' = got /\ handed' = handed
    BY <1>0, <1>2, <1>3 DEF R!source, R!received, c
  <2>2. client' = "on"
    BY <1>2, <2>1
  <2> QED
    BY <1>0, <1>2, <1>9, <2>1, <2>2 DEF StreamShape
<1>12. ChainInv'
  BY <1>0 DEF ChainInv, R!source
<1> QED
  BY <1>7, <1>10, <1>11, <1>12 DEF StreamInv
-----------------------------------------------------------------------------
(* The call of a client that inserts comes to its end.                     *)
LEMMA InsertEnds ==
  ASSUME R!StreamAssumption, StreamInv, kind \in R!Inserts, producer = "on",
         UNCHANGED <<R!source, pos, batch, sent, R!writes, R!received, client>>, producer' = "done",
         \/ UNCHANGED out
         \/ \E e \in Things : e.type # "batch" /\ (kind = "bidi" => e.type = "failure") /\ R!Put(e)
  PROVE  StreamInv'
<1>0. /\ StreamShape /\ ItemsInv /\ StoreInv /\ ChainInv
      /\ kind' = kind /\ bad' = bad /\ pos' = pos /\ batch' = batch /\ sent' = sent /\ client' = client
      /\ kept' = kept /\ sum' = sum /\ errs' = errs /\ got' = got /\ handed' = handed
      /\ R!Size' = R!Size /\ Limit' = Limit /\ UNCHANGED <<kind, R!received>>
  BY DEF StreamInv, R!source, R!writes, R!received, R!Size, Limit
<1>1. /\ R!Items \in Seq(Things) /\ Len(out) \in Nat /\ Len(R!Items) \in Nat /\ sent \in Nat /\ client = "on"
      /\ Closed(R!Items, "on", kind) /\ \A i \in 1 .. Len(out) : out[i].type # "batch"
  BY <1>0, StreamBounds DEF StreamShape, ItemsInv, R!Inserts
<1>2. /\ out' \in Seq(Things) /\ Len(out') <= Limit'
      /\ \A i \in 1 .. Len(out') : out'[i].type # "batch"
      /\ Closed(R!Items', "done", kind)
      /\ kind = "bidi" => Acks(R!Items', sent, "done", kept)
  <2>1. CASE UNCHANGED out
    <3>1. out' = out /\ R!Items' = R!Items
      BY <1>0, <2>1 DEF R!Items
    <3>2. Closed(R!Items, "done", kind)
      BY <1>1, ClosedCut
    <3>3. kind = "bidi" => Acks(R!Items, sent, "done", kept)
      BY <1>0, <1>1 DEF ItemsInv, Acks
    <3>4. out \in Seq(Things) /\ Len(out) <= Limit
      BY <1>0 DEF StreamShape
    <3> QED
      BY <1>0, <1>1, <3>1, <3>2, <3>3, <3>4
  <2>2. ASSUME NEW e \in Things, e.type # "batch", kind = "bidi" => e.type = "failure", R!Put(e)
        PROVE  /\ out' \in Seq(Things) /\ Len(out') <= Limit'
               /\ \A i \in 1 .. Len(out') : out'[i].type # "batch"
               /\ Closed(R!Items', "done", kind)
               /\ kind = "bidi" => Acks(R!Items', sent, "done", kept)
    <3>1. /\ out' \in Seq(Things) /\ Len(out') <= Limit'
          /\ Len(out') = Len(out) + 1 /\ out'[Len(out) + 1] = e
          /\ \A i \in 1 .. Len(out) : out'[i] = out[i]
          /\ R!Items' = Append(R!Items, e)
      BY <1>0, <2>2, PutIs
    <3>2. \A i \in 1 .. Len(out') : out'[i].type # "batch"
      <4>1. \A i \in 1 .. Len(out) + 1 : i \in 1 .. Len(out) \/ i = Len(out) + 1
        BY <1>1
      <4> QED
        BY <1>1, <2>2, <3>1, <4>1
    <3>3. Closed(Append(R!Items, e), "done", kind)
      BY <1>1, ClosedPut
    <3>4. ASSUME kind = "bidi" PROVE Acks(Append(R!Items, e), sent, "done", kept)
      <4>1. Acks(R!Items, sent, "on", kept)
        BY <1>0, <1>1, <3>4 DEF ItemsInv
      <4> QED
        BY <1>1, <2>2, <3>4, <4>1, AcksPut
    <3> QED
      BY <3>1, <3>2, <3>3, <3>4
  <2> QED
    BY <2>1, <2>2
<1>3. StreamShape'
  <2>1. client' = "on"
    BY <1>0, <1>1
  <2> QED
    BY <1>0, <1>2, <2>1 DEF StreamShape
<1>4. ItemsInv'
  <2>1. kind \notin R!Reads
    BY DEF R!Reads, R!Inserts
  <2> QED
    BY <1>0, <1>2, <2>1 DEF ItemsInv
<1>5. StoreInv'
  BY <1>0 DEF StoreInv
<1>6. ChainInv'
  BY <1>0 DEF ChainInv
<1> QED
  BY <1>3, <1>4, <1>5, <1>6 DEF StreamInv

LEMMA RefuseStep == ASSUME R!StreamAssumption, StreamInv, R!RefuseBatch PROVE StreamInv'
<1>1. R!Failure \in Things /\ R!Failure.type = "failure"
  BY ThingsHaveTypes
<1> QED
  BY <1>1, InsertEnds DEF R!RefuseBatch

LEMMA EndOfInputStep == ASSUME R!StreamAssumption, StreamInv, R!EndOfInput PROVE StreamInv'
<1>1. CASE kind = "bidi"
  BY <1>1, InsertEnds DEF R!EndOfInput
<1>2. CASE kind = "insert"
  <2>1. sum \in Nat /\ errs \subseteq {R!First(i) - 1 : i \in 1 .. sent} /\ sent <= Len(Cuts)
        /\ sent \in Nat /\ Len(Cuts) \in Nat
    BY <1>2 DEF StreamInv, StreamShape, StoreInv, R!Inserts, R!StreamAssumption
  <2>2. ASSUME NEW i \in 1 .. sent PROVE R!First(i) - 1 \in Nat
    <3>1. i \in 1 .. Len(Cuts)
      BY <2>1
    <3>2. R!First(i) \in Nat /\ R!First(i) >= 1
      BY <3>1, CutsAre
    <3> QED
      BY <3>2
  <2>3. errs \subseteq Nat
    BY <2>1, <2>2
  <2>4. R!Summary \in Things /\ R!Summary.type = "summary"
    <3>1. R!Summary \in [type : {"summary"}, total : Nat, errs : SUBSET Nat]
      BY <2>1, <2>3 DEF R!Summary
    <3> QED
      BY <3>1 DEF Things, R!Summary
  <2>5. R!Put(R!Summary)
    BY <1>2 DEF R!EndOfInput
  <2> QED
    BY <1>2, <2>4, <2>5, InsertEnds DEF R!EndOfInput
<1> QED
  BY <1>1, <1>2 DEF R!EndOfInput, R!Inserts

LEMMA TakeIs ==
  ASSUME NEW E, NEW s \in Seq(E), NEW t \in Seq(E), t # <<>>
  PROVE  /\ Head(t) \in E /\ Tail(t) \in Seq(E) /\ Append(s, Head(t)) \in Seq(E)
         /\ Len(t) \in Nat /\ Len(t) > 0 /\ Len(Tail(t)) = Len(t) - 1 /\ Head(t) = t[1]
         /\ \A i \in 1 .. Len(Tail(t)) : Tail(t)[i] = t[i + 1] /\ i + 1 \in 1 .. Len(t)
         /\ Append(s, Head(t)) \o Tail(t) = s \o t
<1>1. /\ Head(t) \in E /\ Tail(t) \in Seq(E) /\ Append(s, Head(t)) \in Seq(E)
      /\ Len(t) \in Nat /\ Len(t) > 0 /\ Len(Tail(t)) = Len(t) - 1 /\ Head(t) = t[1]
      /\ \A i \in 1 .. Len(Tail(t)) : Tail(t)[i] = t[i + 1] /\ i + 1 \in 1 .. Len(t)
  OBVIOUS
<1>2. t = <<Head(t)>> \o Tail(t)
  BY HeadTailProperties
<1>3. Append(s, Head(t)) = s \o <<Head(t)>> /\ <<Head(t)>> \in Seq(E)
  BY <1>1, AppendIsConcat
<1>4. (s \o <<Head(t)>>) \o Tail(t) = s \o (<<Head(t)>> \o Tail(t))
  BY <1>1, <1>3, ConcatAssociative
<1> QED
  BY <1>1, <1>2, <1>3, <1>4

LEMMA ReceiveStep == ASSUME R!StreamAssumption, StreamInv, R!Receive PROVE StreamInv'
<1> DEFINE e == Head(out)
<1>0. /\ StreamShape /\ ItemsInv /\ StoreInv /\ ChainInv
      /\ client = "on" /\ out # <<>> /\ got' = Append(got, e) /\ out' = Tail(out)
      /\ handed' = (IF e.type = "batch" THEN handed \o e.rows ELSE handed)
      /\ kind' = kind /\ bad' = bad /\ pos' = pos /\ batch' = batch /\ sent' = sent /\ client' = client
      /\ kept' = kept /\ sum' = sum /\ errs' = errs /\ producer' = producer
      /\ R!Size' = R!Size /\ Limit' = Limit /\ R!Readable' = R!Readable
  BY DEF StreamInv, R!Receive, R!source, R!writes, R!Size, Limit, R!Readable
<1>1. out \in Seq(Things) /\ got \in Seq(Things) /\ handed \in Seq(Nat) /\ Limit \in Nat /\ Rows \in Nat
      /\ Len(out) <= Limit /\ R!Readable \in SUBSET Nat
  BY <1>0, StreamBounds DEF StreamShape
<1>2. /\ e \in Things /\ Tail(out) \in Seq(Things) /\ Append(got, e) \in Seq(Things)
      /\ Len(out) \in Nat /\ Len(out) > 0 /\ Len(Tail(out)) = Len(out) - 1 /\ e = out[1]
      /\ \A i \in 1 .. Len(Tail(out)) : Tail(out)[i] = out[i + 1] /\ i + 1 \in 1 .. Len(out)
      /\ Append(got, e) \o Tail(out) = got \o out
  BY <1>0, <1>1, TakeIs
<1>3. R!Items' = R!Items
  BY <1>0, <1>2 DEF R!Items
<1>4. handed' \in Seq(Nat) /\ (kind \in R!Inserts => handed' = <<>>)
  <2>1. CASE e.type = "batch"
    <3>1. e.rows \in Seq(Nat)
      BY <1>2, <2>1, ThingsHaveTypes
    <3>2. kind \notin R!Inserts
      <4>1. 1 \in 1 .. Len(out)
        BY <1>2
      <4> QED
        BY <1>0, <1>2, <2>1, <4>1 DEF StreamShape
    <3> QED
      BY <1>0, <1>1, <2>1, <3>1, <3>2
  <2>2. CASE e.type # "batch"
    BY <1>0, <1>1, <2>2 DEF StreamShape
  <2> QED
    BY <2>1, <2>2
<1> HIDE DEF e
<1>5. StreamShape'
  <2>1. Len(out') <= Limit'
    BY <1>0, <1>1, <1>2
  <2>2. ASSUME NEW i \in 1 .. Len(out'), out'[i].type = "batch"
        PROVE  Len(out'[i].rows) <= R!Size' /\ kind' \notin R!Inserts
    <3>1. out'[i] = out[i + 1] /\ i + 1 \in 1 .. Len(out)
      BY <1>0, <1>2
    <3> QED
      BY <1>0, <2>2, <3>1 DEF StreamShape
  <2>3. /\ kind' \in R!Kinds /\ bad' \in Bad /\ pos' \in 0 .. Rows /\ sent' \in Nat
        /\ batch' \in Seq(Nat) /\ Len(batch') <= R!Size' /\ producer' \in {"on", "done"} /\ client' \in {"on", "left"}
        /\ client' = "on"
    BY <1>0 DEF StreamShape
  <2> QED
    BY <1>0, <1>2, <1>4, <2>1, <2>2, <2>3 DEF StreamShape
<1>6. ItemsInv'
  BY <1>0, <1>3 DEF ItemsInv
<1>7. StoreInv'
  BY <1>0 DEF StoreInv
<1>8. ChainInv'
  <2> SUFFICES ASSUME kind \notin R!Inserts PROVE Chained(R!Readable', handed', out', kind', batch', pos', producer')
    BY <1>0 DEF ChainInv
  <2>1. PICK d : /\ Divide(R!Readable, handed, out, kind, d)
                 /\ InHandFrom(R!Readable, batch, pos, producer, d[Len(out)])
    BY <1>0 DEF ChainInv, Chained
  <2>2. PICK f : /\ Divide(R!Readable, Taken(handed, Head(out)), Tail(out), kind, f)
                 /\ f[Len(Tail(out))] = d[Len(out)] /\ f[0] = d[1]
    <3>1. /\ Rows \in Nat /\ R!Readable \in SUBSET Nat /\ out \in Seq(Things) /\ out # <<>>
          /\ Divide(R!Readable, handed, out, kind, d)
      BY <1>0, <1>1, <2>1
    <3> QED
      BY <3>1, ChainTake
  <2>3. Divide(R!Readable', handed', out', kind', f) /\ InHandFrom(R!Readable', batch', pos', producer', f[Len(out')])
    BY <1>0, <2>1, <2>2 DEF e, InHandFrom, Taken
  <2> QED
    BY <2>3 DEF Chained
<1> QED
  BY <1>5, <1>6, <1>7, <1>8 DEF StreamInv

LEMMA LeaveStep == ASSUME R!StreamAssumption, StreamInv, R!Leave PROVE StreamInv'
<1>0. /\ StreamShape /\ ItemsInv /\ StoreInv /\ ChainInv
      /\ client = "on" /\ client' = "left" /\ out' = <<>> /\ got' = got /\ handed' = handed
      /\ kind' = kind /\ bad' = bad /\ pos' = pos /\ batch' = batch /\ sent' = sent
      /\ kept' = kept /\ sum' = sum /\ errs' = errs /\ R!Size' = R!Size /\ Limit' = Limit
      /\ (kind = "prefetch" => producer' = producer) /\ (kind # "prefetch" => producer' = "done")
  BY DEF StreamInv, R!Leave, R!source, R!writes, R!received, R!Size, Limit
<1>1. out \in Seq(Things) /\ got \in Seq(Things) /\ R!Items \in Seq(Things) /\ Limit \in Nat
      /\ producer \in {"on", "done"}
  BY <1>0, StreamBounds DEF StreamShape
<1>2. R!Items' = got
  BY <1>0, <1>1 DEF R!Items
<1>3. Len(got) <= Len(R!Items) /\ \A i \in 1 .. Len(got) : got[i] = R!Items[i]
  BY <1>1 DEF R!Items
<1>4. StreamShape'
  <2>1. Len(out') = 0 /\ out' \in Seq(Things) /\ \A i \in 1 .. Len(out') : FALSE
    BY <1>0
  <2>2. producer' \in {"on", "done"} /\ Len(out') <= Limit' /\ client' \in {"on", "left"}
    BY <1>0, <1>1, <2>1
  <2> QED
    BY <1>0, <2>1, <2>2 DEF StreamShape
<1>5. ItemsInv'
  <2>1. Closed(got, producer', kind)
    <3>1. producer = "done" => producer' = "done"
      BY <1>0
    <3> QED
      BY <1>0, <1>1, <1>3, <3>1, ClosedCut DEF ItemsInv
  <2>2. kind \in R!Reads => Numbers(got, sent, producer', R!Size)
    <3>1. ASSUME kind \in R!Reads PROVE Numbers(got, sent, "done", R!Size) /\ producer' = "done"
      BY <1>0, <1>1, <1>3, <3>1, NumbersCut DEF ItemsInv, R!Reads
    <3> QED
      BY <3>1
  <2> QED
    BY <1>0, <1>2, <2>1, <2>2 DEF ItemsInv
<1>6. StoreInv'
  BY <1>0 DEF StoreInv
<1>7. ChainInv'
  BY <1>0 DEF ChainInv
<1> QED
  BY <1>4, <1>5, <1>6, <1>7 DEF StreamInv

LEMMA StreamKept == ASSUME R!StreamAssumption, StreamInv, R!Next PROVE StreamInv'
BY AdvanceStep, EmitStep, EndSteps, BatchStep, RefuseStep, EndOfInputStep, ReceiveStep, LeaveStep
   DEF R!Next, R!Produce

LEMMA StreamSame == ASSUME StreamInv, UNCHANGED R!vars PROVE StreamInv'
<1>1. /\ kind' = kind /\ bad' = bad /\ pos' = pos /\ batch' = batch /\ sent' = sent /\ client' = client
      /\ kept' = kept /\ sum' = sum /\ errs' = errs /\ producer' = producer
      /\ out' = out /\ got' = got /\ handed' = handed
  BY DEF R!vars, R!source, R!writes, R!received
<1>2. R!Size' = R!Size /\ Limit' = Limit /\ R!Readable' = R!Readable /\ R!Items' = R!Items
  BY <1>1 DEF R!Size, Limit, R!Readable, R!Items
<1> QED
  BY <1>1, <1>2 DEF StreamInv, StreamShape, ItemsInv, StoreInv, ChainInv
-----------------------------------------------------------------------------
LEMMA StreamsAreHonest == ASSUME R!StreamAssumption, StreamInv PROVE R!StreamsHonest
<1>0. StreamShape /\ ItemsInv /\ StoreInv
  BY DEF StreamInv
<1>1. /\ Rows \in Nat /\ R!Size \in Nat /\ pos \in Nat /\ pos <= Rows
      /\ R!Items \in Seq(Things) /\ Len(R!Items) \in Nat /\ out \in Seq(Things) /\ sent \in Nat
  BY <1>0, StreamBounds DEF StreamShape
<1>2. /\ kept \subseteq 1 .. Rows /\ Cardinality(kept) \in Nat /\ Cardinality(kept) <= Rows
  <2>1. kept \subseteq 1 .. Rows
    BY <1>0, <1>1 DEF StoreInv
  <2>2. IsFiniteSet(1 .. Rows) /\ Cardinality(1 .. Rows) = Rows
    <3>1. 1 \in Int /\ Rows \in Int /\ (1 > Rows => Rows = 0) /\ Rows - 1 + 1 = Rows
      BY <1>1
    <3> QED
      BY <3>1, FS_Interval
  <2>3. Cardinality(kept) <= Cardinality(1 .. Rows) /\ IsFiniteSet(kept)
    BY <2>1, <2>2, FS_Subset
  <2>4. Cardinality(kept) \in Nat
    BY <2>3, FS_CardinalityType
  <2> QED
    BY <2>1, <2>2, <2>3, <2>4
<1>3. R!TypeOK
  <2>1. sum \in 0 .. Rows
    <3>1. sum \in Nat /\ sum <= Cardinality(kept)
      BY <1>0 DEF StoreInv
    <3> QED
      BY <1>1, <1>2, <3>1
  <2>2. DOMAIN out = 1 .. Len(out)
    BY <1>1
  <2>3. Len(out) <= IF kind = "prefetch" THEN Ahead ELSE 1
    BY <1>0 DEF StreamShape, Limit
  <2> QED
    BY <1>0, <1>2, <2>1, <2>2, <2>3 DEF R!TypeOK, StreamShape
<1>4. R!NumberedFull
  <2> SUFFICES ASSUME kind \in R!Reads, NEW i \in DOMAIN R!Items
               PROVE  IF R!Items[i].type = "batch" /\ R!Items[i].more
                        THEN R!Items[i].index = i - 1 /\ Len(R!Items[i].rows) = R!Size
                        ELSE i = Len(R!Items) /\ (R!Items[i].type = "batch" => R!Items[i].index = i - 1)
    BY DEF R!NumberedFull
  <2>1. i \in 1 .. Len(R!Items)
    BY <1>1
  <2>2. /\ R!Items[i].type \in {"batch", "failure"}
        /\ R!Items[i].type = "batch" => R!Items[i].index = i - 1 /\ (R!Items[i].more => Len(R!Items[i].rows) = R!Size)
    BY <1>0, <2>1 DEF ItemsInv, Numbers
  <2>3. Closes(R!Items[i], kind) => i = Len(R!Items)
    BY <1>0, <2>1 DEF ItemsInv, Closed
  <2> QED
    BY <2>2, <2>3 DEF Closes
<1>5. R!SummaryTrue
  BY <1>0, SameNumber DEF R!SummaryTrue, StoreInv
<1>6. R!AcksMatch
  <2> SUFFICES ASSUME kind = "bidi", client = "on"
               PROVE  /\ Len(R!Items) \in {sent, sent + 1}
                      /\ \A i \in DOMAIN R!Items :
                           IF i > sent THEN R!Items[i].type = "failure"
                           ELSE /\ R!Items[i].type = "ack" /\ R!Items[i].index = i - 1
                                /\ R!Items[i].n <= Cardinality(kept \cap (R!First(i) .. Cuts[i]))
    BY SameNumber DEF R!AcksMatch
  <2>1. Acks(R!Items, sent, producer, kept)
    BY <1>0 DEF ItemsInv
  <2>2. DOMAIN R!Items = 1 .. Len(R!Items)
    BY <1>1
  <2> QED
    BY <2>1, <2>2, SameNumber DEF Acks, Acked
<1> QED
  BY <1>3, <1>4, <1>5, <1>6 DEF R!StreamsHonest

-----------------------------------------------------------------------------
(* The promise of Delivery.                                                *)
LEMMA PromiseStarts == ASSUME R!StreamAssumption, R!Init PROVE R!Promised!Init
<1>1. handed = <<>> /\ got = <<>> /\ DOMAIN got = {}
  BY DEF R!Init
<1>2. R!Verdict = "open"
  BY <1>1 DEF R!Verdict
<1> QED
  BY <1>1, <1>2 DEF R!Promised!Init

(* The rows of a batch are those that follow the ones handed over before.  *)
LEMMA SpansAreListed ==
  ASSUME Rows \in Nat, R!Readable \subseteq 1 .. Rows, NEW s, NEW n \in 0 .. Rows, Spans(s, R!Readable, 0, n)
  PROVE  /\ R!Promised!Lists(s, R!Promised!Reached(s))
         /\ n = Rows => R!Promised!Lists(s, R!Readable)
<1>1. DOMAIN s = 1 .. Len(s) /\ \A i \in 1 .. Len(s) : s[i] \in Nat /\ s[i] \in R!Readable /\ s[i] <= n
  BY DEF Spans
<1>2. \A i \in 1 .. Len(s) : \A j \in 1 .. Len(s) : i < j => s[i] < s[j]
  BY DEF Spans
<1>3. ASSUME NEW r \in R!Readable, r <= n PROVE \E i \in 1 .. Len(s) : s[i] = r
  <2>1. 0 < r
    OBVIOUS
  <2> QED
    BY <1>3, <2>1 DEF Spans
<1>4. {s[i] : i \in DOMAIN s} = R!Promised!Reached(s)
  <2>1. ASSUME NEW i \in 1 .. Len(s) PROVE s[i] \in R!Promised!Reached(s)
    <3>1. s[i] <= s[i] /\ s[i] \in R!Readable
      BY <1>1
    <3> QED
      BY <1>1, <3>1 DEF R!Promised!Reached
  <2>2. ASSUME NEW r \in R!Promised!Reached(s) PROVE \E i \in 1 .. Len(s) : s[i] = r
    <3>1. r \in R!Readable /\ \E i \in 1 .. Len(s) : r <= s[i]
      BY <1>1 DEF R!Promised!Reached
    <3>2. PICK i \in 1 .. Len(s) : r <= s[i]
      BY <3>1
    <3>3. r <= n
      <4>1. s[i] \in Nat /\ s[i] <= n /\ r \in Nat /\ n \in Nat
        BY <1>1, <3>1
      <4> QED
        BY <3>2, <4>1
    <3> QED
      BY <1>3, <3>1, <3>3
  <2> QED
    BY <1>1, <2>1, <2>2
<1>5. ASSUME n = Rows PROVE {s[i] : i \in DOMAIN s} = R!Readable
  <2>1. \A r \in R!Readable : r <= n
    BY <1>5
  <2> QED
    BY <1>1, <1>3, <2>1
<1> QED
  BY <1>1, <1>2, <1>4, <1>5 DEF R!Promised!Lists

(* Before an item is received, nothing that closes the stream was.         *)
LEMMA OpenBefore == ASSUME R!StreamAssumption, StreamInv, out # <<>> PROVE R!Verdict = "open"
<1>1. /\ Closed(R!Items, producer, kind) /\ out \in Seq(Things) /\ got \in Seq(Things)
  BY DEF StreamInv, StreamShape, ItemsInv
<1>2. ASSUME NEW i \in DOMAIN got PROVE ~Closes(got[i], kind)
  <2>1. i \in 1 .. Len(R!Items) /\ R!Items[i] = got[i] /\ i # Len(R!Items)
    BY <1>1 DEF R!Items
  <2> QED
    BY <1>1, <2>1 DEF Closed
<1> QED
  BY <1>2 DEF R!Verdict, Closes

(* What an item says of the end is what the verdict is from then on.       *)
LEMMA VerdictAfter ==
  ASSUME R!StreamAssumption, StreamInv, R!Receive
  PROVE  /\ R!Verdict' \in {"open", "complete", "cut"}
         /\ Head(out).type = "failure" => R!Verdict' = "cut"
         /\ Head(out).type # "failure" => R!Verdict' \in {"open", "complete"}
         /\ R!Verdict' = "complete" => kind \in R!Reads /\ Head(out).type = "batch" /\ ~Head(out).more
<1> DEFINE e == Head(out)
<1>1. /\ got \in Seq(Things) /\ out \in Seq(Things) /\ out # <<>> /\ got' = Append(got, e) /\ kind' = kind
      /\ e \in Things /\ R!Verdict = "open"
  BY OpenBefore DEF StreamInv, StreamShape, R!Receive, R!source
<1> HIDE DEF e
<1>2. /\ Len(got) \in Nat /\ DOMAIN got = 1 .. Len(got)
      /\ DOMAIN got' = 1 .. Len(got) + 1 /\ got'[Len(got) + 1] = e
      /\ \A i \in 1 .. Len(got) : got'[i] = got[i] /\ i \in 1 .. Len(got) + 1
      /\ \A i \in 1 .. Len(got) + 1 : i \in 1 .. Len(got) \/ i = Len(got) + 1
      /\ Len(got) + 1 \in 1 .. Len(got) + 1
  BY <1>1
<1>3. \A i \in DOMAIN got : got[i].type # "failure" /\ ~(kind \in R!Reads /\ got[i].type = "batch" /\ ~got[i].more)
  BY <1>1 DEF R!Verdict
<1>4. (\E i \in DOMAIN got' : got'[i].type = "failure") <=> e.type = "failure"
  BY <1>2, <1>3
<1>5. (kind \in R!Reads /\ \E i \in DOMAIN got' : got'[i].type = "batch" /\ ~got'[i].more)
        => kind \in R!Reads /\ e.type = "batch" /\ ~e.more
  BY <1>2, <1>3
<1> QED
  BY <1>1, <1>4, <1>5 DEF R!Verdict, e

LEMMA ReceiveDelivers ==
  ASSUME R!StreamAssumption, StreamInv, R!Receive
  PROVE  R!Promised!Deliver \/ R!Promised!CutShort \/ UNCHANGED <<R!Readable, handed, R!Verdict>>
<1> DEFINE e == Head(out)
<1>0. /\ StreamShape /\ ChainInv /\ out # <<>> /\ client = "on" /\ R!Verdict = "open" /\ R!Readable' = R!Readable
      /\ handed' = Taken(handed, e) /\ out \in Seq(Things) /\ handed \in Seq(Nat) /\ Rows \in Nat
      /\ R!Readable \subseteq 1 .. Rows /\ R!Readable \in SUBSET Nat
  BY OpenBefore, StreamBounds DEF StreamInv, StreamShape, R!Receive, R!source, R!Readable, Taken
<1>1. /\ e \in Things /\ e = out[1] /\ Len(out) \in Nat /\ 1 \in 1 .. Len(out)
  BY <1>0
<1>2. /\ R!Verdict' \in {"open", "complete", "cut"}
      /\ e.type = "failure" => R!Verdict' = "cut"
      /\ e.type # "failure" => R!Verdict' \in {"open", "complete"}
      /\ R!Verdict' = "complete" => kind \in R!Reads /\ e.type = "batch" /\ ~e.more
  BY VerdictAfter
<1>3. CASE e.type = "batch"
  <2>1. e.rows \in Seq(Nat) /\ kind \notin R!Inserts
    <3>1. e.rows \in Seq(Nat)
      BY <1>1, <1>3, ThingsHaveTypes
    <3>2. out[1].type = "batch"
      BY <1>1, <1>3
    <3>3. \A i \in 1 .. Len(out) : out[i].type = "batch" => kind \notin R!Inserts
      BY <1>0 DEF StreamShape
    <3> QED
      BY <1>1, <3>1, <3>2, <3>3
  <2>2. PICK d : Divide(R!Readable, handed, out, kind, d)
    BY <1>0, <2>1 DEF ChainInv, Chained
  <2>3. PICK f : Divide(R!Readable, Taken(handed, Head(out)), Tail(out), kind, f) /\ f[0] = d[1]
    <3>1. /\ Rows \in Nat /\ R!Readable \in SUBSET Nat /\ out \in Seq(Things) /\ out # <<>>
          /\ Divide(R!Readable, handed, out, kind, d)
      BY <1>0, <2>2
    <3> QED
      BY <3>1, ChainTake
  <2>4. Spans(handed', R!Readable, 0, f[0]) /\ f[0] \in 0 .. Rows
    <3>1. f \in [0 .. Len(Tail(out)) -> 0 .. Rows] /\ Len(Tail(out)) \in Nat
      BY <1>0, <2>3 DEF Divide
    <3>2. f[0] \in 0 .. Rows
      BY <3>1
    <3> QED
      BY <1>0, <2>3, <3>2 DEF Divide
  <2>5. kind \in R!Reads /\ ~e.more => f[0] = Rows
    <3>1. Under(R!Readable, out, kind, d, 1)
      BY <1>1, <2>2 DEF Divide
    <3> QED
      BY <1>1, <1>3, <2>3, <3>1 DEF Under
  <2>6. /\ R!Promised!Lists(handed', R!Promised!Reached(handed'))
        /\ f[0] = Rows => R!Promised!Lists(handed', R!Readable)
    BY <1>0, <2>4, SpansAreListed
  <2>7. Len(handed') >= Len(handed)
    <3>1. handed' = handed \o e.rows
      BY <1>0, <1>3 DEF Taken
    <3> QED
      BY <1>0, <2>1, <3>1
  <2>8. R!Verdict' \in {"open", "complete"} /\ (R!Verdict' = "complete" => R!Promised!Lists(handed', R!Readable))
    BY <1>2, <1>3, <2>5, <2>6
  <2> QED
    BY <1>0, <2>6, <2>7, <2>8 DEF R!Promised!Deliver
<1>4. CASE e.type # "batch"
  <2>1. handed' = handed
    BY <1>0, <1>4 DEF Taken
  <2>2. CASE e.type = "failure"
    BY <1>0, <1>2, <2>1, <2>2 DEF R!Promised!CutShort
  <2>3. CASE e.type # "failure"
    BY <1>0, <1>2, <1>4, <2>1, <2>3
  <2> QED
    BY <2>2, <2>3
<1> QED
  BY <1>3, <1>4

LEMMA OnlyReceived ==
  ASSUME R!Next, ~R!Receive PROVE UNCHANGED <<R!Readable, handed, R!Verdict>>
<1>1. kind' = kind /\ bad' = bad /\ got' = got /\ handed' = handed
  BY DEF R!Next, R!Produce, R!Advance, R!Emit, R!Exhaust, R!IdleTimeout, R!Unheard, R!CursorError, R!InsertBatch, R!RefuseBatch,
         R!EndOfInput, R!Leave, R!source, R!received
<1> QED
  BY <1>1 DEF R!Readable, R!Verdict

(* Whatever document fails and whoever leaves: batches are numbered without*)
(* a gap and full, nothing follows the one that says it is the last or a   *)
(* failure; an insert's summary and its answers count documents that are   *)
(* stored, and list every batch that may not be.                           *)
THEOREM StreamsTellTruth == ServicesSpec => []StreamsHonest
<1>0. R!StreamAssumption
  BY ServicesAssumption
<1>1. Start => StreamInv
  BY <1>0, StreamStarts DEF Start
<1>2. StreamInv /\ [Move]_all => StreamInv'
  <2> SUFFICES ASSUME StreamInv, [Move]_all PROVE StreamInv'
    OBVIOUS
  <2>1. UNCHANGED R!vars \/ R!Next
    BY DEF Move, On, Still, all, streams, R!vars, R!source, R!writes, R!received
  <2> QED
    BY <1>0, <2>1, StreamKept, StreamSame
<1>3. StreamInv => R!StreamsHonest
  BY <1>0, StreamsAreHonest
<1> QED
  BY <1>1, <1>2, <1>3, PTL DEF ServicesSpec, StreamsHonest

(* What a reader received is what Delivery promises: the rows in order,    *)
(* each once, none left out before the last, and a batch that says it is   *)
(* the last only when all of them are there.                               *)
THEOREM ResultsAreDelivered == ServicesSpec => KeepsPromise
<1>0. R!StreamAssumption
  BY ServicesAssumption
<1>1. Start => StreamInv /\ R!Promised!Init
  BY <1>0, StreamStarts, PromiseStarts DEF Start
<1>2. StreamInv /\ [Move]_all =>
        StreamInv' /\ [R!Promised!Deliver \/ R!Promised!CutShort]_<<R!Readable, handed, R!Verdict>>
  <2> SUFFICES ASSUME StreamInv, [Move]_all
               PROVE  StreamInv' /\ [R!Promised!Deliver \/ R!Promised!CutShort]_<<R!Readable, handed, R!Verdict>>
    OBVIOUS
  <2>1. UNCHANGED R!vars \/ R!Next
    BY DEF Move, On, Still, all, streams, R!vars, R!source, R!writes, R!received
  <2>2. CASE UNCHANGED R!vars
    <3>1. kind' = kind /\ bad' = bad /\ got' = got /\ handed' = handed
      BY <2>2 DEF R!vars, R!source, R!received
    <3>2. UNCHANGED <<R!Readable, handed, R!Verdict>>
      BY <3>1 DEF R!Readable, R!Verdict
    <3> QED
      BY <2>2, <3>2, StreamSame
  <2>3. CASE R!Next
    <3>1. StreamInv'
      BY <1>0, <2>3, StreamKept
    <3>2. CASE R!Receive
      BY <1>0, <3>1, <3>2, ReceiveDelivers
    <3>3. CASE ~R!Receive
      BY <2>3, <3>1, <3>3, OnlyReceived
    <3> QED
      BY <3>2, <3>3
  <2> QED
    BY <2>1, <2>2, <2>3
<1> QED
  BY <1>1, <1>2, PTL DEF ServicesSpec, KeepsPromise, R!KeepsPromise, R!Promised!Spec

-----------------------------------------------------------------------------
(* Jobs that deduplicate.  The invariant: each job's place, what it has in *)
(* hand and what it counted; the keys of the collection, which stay where  *)
(* they are; and an owner for each document that was added, the row it was *)
(* made of.  Rows of one key that one job inserted lie in one batch: the   *)
(* look-up of a later one would have found the document.                   *)
InABatch  == {"convert", "check", "insert", "replace"}
Steps == {"poll"} \union InABatch \union D!Final
NoOverwrite == \A j \in Jobs : plan[j].strategy # "overwrite"
AllSkip     == \A j \in Jobs : plan[j].strategy = "skip"
IsList(s) == \E E : s \in Seq(E)
Tallies == [processed : Nat, inserted : Nat, skipped : Nat, failed : Nat]

SeqShape ==
  /\ plan \in Plans /\ IsList(coll)
  /\ step \in [Jobs -> Steps] /\ offset \in [Jobs -> Nat]
  /\ inserts \in [Jobs -> Seq(Nat)]
  /\ DOMAIN puts = Jobs /\ \A j \in Jobs : IsList(puts[j])
  /\ puts = [j \in Jobs |-> puts[j]]
  /\ tally \in [Jobs -> Tallies] /\ dead \in [Jobs -> SUBSET Nat]
  /\ \A j \in Jobs : dead[j] \subseteq 1 .. D!Length(j)

(* Batches begin at multiples of their size.                               *)
Rounded(o) == \E n \in 0 .. o : o = n * BatchSize
Placed(j) ==
  /\ offset[j] <= D!Length(j)
  /\ offset[j] = D!Length(j) \/ Rounded(offset[j])
  /\ step[j] \in InABatch => offset[j] < D!Length(j)
  /\ step[j] = "completed" => offset[j] = D!Length(j)

(* What is in hand is of the batch, each row once.                         *)
OnceEach(s) == \A m \in 1 .. Len(s) : \A n \in 1 .. Len(s) : m # n => s[m] # s[n]
Waits(j) ==
  /\ step[j] # "insert" => inserts[j] = <<>>
  /\ step[j] \notin {"insert", "replace"} => puts[j] = <<>>
  /\ \A n \in 1 .. Len(inserts[j]) : inserts[j][n] \in D!InBatch(j)
  /\ OnceEach(inserts[j])

Adds(j) ==
  /\ tally[j].processed = offset[j]
  /\ offset[j] <= tally[j].inserted + tally[j].skipped + tally[j].failed
  /\ tally[j].inserted + tally[j].skipped + tally[j].failed + Len(inserts[j]) + Len(puts[j]) =
       IF step[j] \in {"insert", "replace"} THEN D!End(j) ELSE offset[j]

(* Keys stay where they are.                                               *)
Keyed(s) == [n \in 1 .. Len(s) |-> s[n].key]
KeysStay ==
  /\ Len(Stored) <= Len(coll)
  /\ \A m \in 1 .. Len(Stored) : coll[m].key = Stored[m].key

Spared(d) == \A m \in 1 .. Len(Stored) : m = D!FirstOf(d.key) => DOMAIN Stored[m].fields \subseteq DOMAIN d.fields
PutsFit(j) ==
  \A n \in 1 .. Len(puts[j]) :
    /\ plan[j].strategy # "skip" /\ puts[j][n].key # NoKey /\ D!Having(puts[j][n].key) # {}
    /\ NoOverwrite => Spared(puts[j][n])

Kept ==
  NoOverwrite =>
    \A m \in 1 .. Len(Stored) :
      /\ DOMAIN Stored[m].fields \subseteq DOMAIN coll[m].fields
      /\ AllSkip => coll[m] = Stored[m]

(* Rows that have been dealt with have a document of their key.            *)
Dealt(j) == IF step[j] = "replace" THEN D!End(j) ELSE offset[j]
Provided(j) ==
  /\ tally[j].failed = 0 => \A r \in 1 .. Dealt(j) : D!Having(D!Row(j, r).key) # {}
  /\ step[j] = "insert" =>
       \A r \in D!InBatch(j) :
         \/ \E n \in 1 .. Len(inserts[j]) : inserts[j][n] = r
         \/ D!Row(j, r).key # NoKey /\ D!Having(D!Row(j, r).key) # {}

(* Who inserted each document: a row of its key; those of one key and job  *)
(* in one batch, and of a key that was not there before the jobs.          *)
Batched(r, n) == n * BatchSize < r /\ r <= (n + 1) * BatchSize
Added == Len(Stored) + 1 .. Len(coll)
OwnsRow(w, i) ==
  /\ w[i][2] \in 1 .. Dealt(w[i][1]) /\ D!Row(w[i][1], w[i][2]).key = coll[i].key
  /\ coll[i].key # NoKey => \A m \in 1 .. Len(Stored) : Stored[m].key # coll[i].key
OwnsOnce(w) == \A i \in Added : \A h \in Added : i # h => w[i] # w[h]
InOne(w, j, k, n) == \A i \in Added : w[i][1] = j /\ coll[i].key = k => Batched(w[i][2], n)
OwnsTogether(w, j) == \A k : k # NoKey => \E n \in 0 .. D!Length(j) : InOne(w, j, k, n)
OwnsBare(w, j) ==
  tally[j].failed = 0 =>
    \A r \in 1 .. Dealt(j) : D!Row(j, r).key = NoKey => \E i \in Added : w[i] = <<j, r>>
Unowned(w, j, k) ==
  /\ \A m \in 1 .. Len(Stored) : Stored[m].key # k
  /\ \A i \in Added : w[i][1] = j => coll[i].key # k
OwnsNone(w, j) ==
  \A n \in 1 .. Len(inserts[j]) :
    D!Row(j, inserts[j][n]).key # NoKey => Unowned(w, j, D!Row(j, inserts[j][n]).key)
Own(w) ==
  /\ w \in [Added -> Jobs \X Nat] /\ OwnsOnce(w)
  /\ \A i \in Added : OwnsRow(w, i)
  /\ \A j \in Jobs : OwnsTogether(w, j) /\ OwnsBare(w, j) /\ OwnsNone(w, j)
Owned == \E w : Own(w)

SeqInv ==
  /\ SeqShape /\ KeysStay /\ Kept /\ Owned
  /\ \A j \in Jobs : Placed(j) /\ Waits(j) /\ Adds(j) /\ PutsFit(j) /\ Provided(j)
-----------------------------------------------------------------------------
(* Lists: what joining, replacing, dropping and building do to them.       *)
(* Operators of the standard modules, as the instance has them.            *)
LEMMA DNumber == \A T : D!Cardinality(T) = Cardinality(T)
BY DEF D!Cardinality, Cardinality

LEMMA DFinite == \A T : D!IsFiniteSet(T) = IsFiniteSet(T)
BY DEF D!IsFiniteSet, IsFiniteSet

LEMMA DRange == \A s : D!Range(s) = Range(s)
BY DEF D!Range, Range

LEMMA DBijection == \A T, U : D!Bijection(T, U) = Bijection(T, U)
BY DEF D!Bijection, D!Injection, D!Surjection, D!IsInjective, Bijection, Injection, Surjection,
       IsInjective

LEMMA DNamed == \A k, s : D!Named(k, s) = Cardinality({i \in DOMAIN s : s[i].key = k})
BY DEF D!Named, D!Cardinality, Cardinality

LEMMA ListIs ==
  ASSUME NEW s, IsList(s)
  PROVE  Len(s) \in Nat /\ DOMAIN s = 1 .. Len(s)
BY DEF IsList

Join(s, t) == s \o t
LEMMA ListJoins ==
  ASSUME NEW s, NEW t, IsList(s), IsList(t), NEW u, u = Join(s, t)
  PROVE  /\ IsList(u) /\ Len(u) = Len(s) + Len(t)
         /\ \A n \in 1 .. Len(s) : u[n] = s[n]
         /\ \A n \in 1 .. Len(t) : u[Len(s) + n] = t[n]
<1>1. PICK T : s \in Seq(T)
  BY DEF IsList
<1>2. PICK U : t \in Seq(U)
  BY DEF IsList
<1>3. s \in Seq(T \union U) /\ t \in Seq(T \union U)
  BY <1>1, <1>2
<1>0. u = s \o t
  BY DEF Join
<1>4. u \in Seq(T \union U)
  BY <1>0, <1>3
<1>5. Len(u) = Len(s) + Len(t)
  BY <1>0, <1>3
<1>6. \A n \in 1 .. Len(s) : u[n] = s[n]
  BY <1>0, <1>3
<1>7. \A n \in 1 .. Len(t) : u[Len(s) + n] = t[n]
  BY <1>0, <1>3
<1> QED
  BY <1>4, <1>5, <1>6, <1>7 DEF IsList

PutAt(s, i, d) == [s EXCEPT ![i] = d]
LEMMA ListPut ==
  ASSUME NEW s, IsList(s), NEW i \in 1 .. Len(s), NEW d, NEW u, u = PutAt(s, i, d)
  PROVE  /\ IsList(u) /\ Len(u) = Len(s) /\ u[i] = d
         /\ \A n \in 1 .. Len(s) : n # i => u[n] = s[n]
<1>1. PICK T : s \in Seq(T)
  BY DEF IsList
<1>2. s \in Seq(T \union {d})
  BY <1>1
<1>3. u \in Seq(T \union {d}) /\ Len(u) = Len(s)
  BY <1>2 DEF PutAt
<1>4. DOMAIN s = 1 .. Len(s)
  BY <1>1
<1> QED
  BY <1>3, <1>4 DEF IsList, PutAt

LEMMA ListRest ==
  ASSUME NEW s, IsList(s), s # <<>>, NEW u, u = Tail(s)
  PROVE  /\ IsList(u) /\ Len(s) \in Nat \ {0} /\ Len(u) = Len(s) - 1 /\ Head(s) = s[1]
         /\ \A n \in 1 .. Len(u) : u[n] = s[n + 1]
<1>1. PICK T : s \in Seq(T)
  BY DEF IsList
<1> QED
  BY <1>1 DEF IsList

LEMMA ListBuilt ==
  ASSUME NEW n \in Nat, NEW u, DOMAIN u = 1 .. n, u = [i \in 1 .. n |-> u[i]]
  PROVE  IsList(u) /\ Len(u) = n
<1>1. u \in Seq({u[i] : i \in 1 .. n})
  OBVIOUS
<1>2. Len(u) = n
  BY <1>1
<1> QED
  BY <1>1, <1>2 DEF IsList

LEMMA NoneLeft ==
  /\ IsList(<<>>) /\ Len(<<>>) = 0 /\ <<>> \in Seq(Nat)
  /\ \A s : IsList(s) /\ Len(s) = 0 => s = <<>>
<1>1. IsList(<<>>) /\ Len(<<>>) = 0 /\ <<>> \in Seq(Nat)
  BY DEF IsList
<1>2. ASSUME NEW s, IsList(s), Len(s) = 0 PROVE s = <<>>
  <2>1. PICK T : s \in Seq(T)
    BY <1>2 DEF IsList
  <2> QED
    BY <2>1, <1>2
<1> QED
  BY <1>1, <1>2

(* A finite set of numbers is listed in order, each number once.           *)
LEMMA AscendingIs ==
  ASSUME NEW T \in SUBSET Nat, IsFiniteSet(T)
  PROVE  /\ D!Ascending(T) \in Seq(Nat) /\ Len(D!Ascending(T)) = Cardinality(T)
         /\ Cardinality(T) \in Nat /\ OnceEach(D!Ascending(T))
         /\ \A n \in 1 .. Cardinality(T) : D!Ascending(T)[n] \in T
         /\ \A r \in T : \E n \in 1 .. Cardinality(T) : D!Ascending(T)[n] = r
<1> DEFINE c == Cardinality(T)
           Rises(s) == \A m \in DOMAIN s : \A n \in DOMAIN s : m < n => s[m] < s[n]
<1>1. c \in Nat /\ ExistsBijection(1 .. c, T)
  BY FS_CardinalityType
<1>2. PICK f : f \in Bijection(1 .. c, T)
  BY <1>1 DEF ExistsBijection
<1> HIDE DEF c
<1>3. /\ f \in [1 .. c -> T]
      /\ \A m \in 1 .. c : \A n \in 1 .. c : f[m] = f[n] => m = n
      /\ \A r \in T : \E n \in 1 .. c : f[n] = r
  BY <1>2 DEF Bijection, Injection, Surjection, IsInjective
<1>4. f \in [1 .. c -> Nat]
  BY <1>3
<1>5. PICK p \in Bijection(1 .. c, 1 .. c) : Sorts(c, f, p)
  BY <1>1, <1>4, AllSort DEF Sortable
<1>6. /\ p \in [1 .. c -> 1 .. c]
      /\ \A m \in 1 .. c : \A n \in 1 .. c : p[m] = p[n] => m = n
      /\ \A r \in 1 .. c : \E n \in 1 .. c : p[n] = r
  BY <1>5, BijectionIs
<1> DEFINE s == [n \in 1 .. c |-> f[p[n]]]
<1>7. s \in [1 .. c -> T]
  BY <1>3, <1>6
<1>8. \A m \in 1 .. c : \A n \in 1 .. c : s[m] = s[n] => m = n
  BY <1>3, <1>6
<1>9. \A r \in T : \E n \in 1 .. c : s[n] = r
  BY <1>3, <1>6
<1>10. s \in Bijection(1 .. c, T)
  <2> HIDE DEF s
  <2> QED
    BY <1>7, <1>8, <1>9 DEF Bijection, Injection, Surjection, IsInjective
<1>11. Rises(s)
  <2>1. DOMAIN s = 1 .. c
    BY <1>7
  <2> SUFFICES ASSUME NEW m \in 1 .. c, NEW n \in 1 .. c, m < n PROVE s[m] < s[n]
    BY <2>1
  <2>2. f[p[m]] <= f[p[n]]
    BY <1>5 DEF Sorts
  <2>3. s[m] # s[n]
    <3>1. m # n
      BY <1>1
    <3> HIDE DEF s
    <3> QED
      BY <3>1, <1>8
  <2>0. s[m] \in T /\ s[n] \in T
    BY <1>7
  <2>5. s[m] \in Nat /\ s[n] \in Nat
    BY <2>0
  <2>4. s[m] <= s[n]
    BY <2>2
  <2> HIDE DEF s
  <2> QED
    BY <2>3, <2>4, <2>5
<1>12. D!Ascending(T) \in Bijection(1 .. c, T)
  <2> HIDE DEF s, Rises
  <2>1. \E t \in Bijection(1 .. c, T) : Rises(t)
    BY <1>10, <1>11
  <2> QED
    BY <2>1, DNumber, DBijection DEF D!Ascending, Rises, c
<1>13. /\ D!Ascending(T) \in [1 .. c -> T]
       /\ \A m \in 1 .. c : \A n \in 1 .. c : D!Ascending(T)[m] = D!Ascending(T)[n] => m = n
       /\ \A r \in T : \E n \in 1 .. c : D!Ascending(T)[n] = r
  BY <1>12 DEF Bijection, Injection, Surjection, IsInjective
<1>14. D!Ascending(T) \in [1 .. c -> Nat]
  BY <1>13
<1>15. D!Ascending(T) \in Seq(Nat) /\ Len(D!Ascending(T)) = c
  BY <1>1, <1>14
<1>16. OnceEach(D!Ascending(T))
  BY <1>13, <1>15 DEF OnceEach
<1>17. \A n \in 1 .. c : D!Ascending(T)[n] \in T
  BY <1>13
<1> QED
  BY <1>1, <1>13, <1>15, <1>16, <1>17 DEF c
-----------------------------------------------------------------------------
(* The documents of a key in a list, and the first: they stay when the     *)
(* list grows and no key in it changes.                                    *)
HavingIn(k, s) == {n \in DOMAIN s : s[n].key = k}
FirstIn(k, s)  == CHOOSE n \in HavingIn(k, s) : \A m \in HavingIn(k, s) : n <= m
Lengthens(s, t) == Len(s) <= Len(t) /\ \A n \in 1 .. Len(s) : t[n].key = s[n].key

LEMMA KeysIn == \A k : D!Having(k) = HavingIn(k, coll) /\ D!FirstOf(k) = FirstIn(k, coll)
<1>1. \A k : D!Having(k) = HavingIn(k, coll)
  BY DEF D!Having, HavingIn
<1> QED
  BY <1>1 DEF D!FirstOf, FirstIn

LEMMA KeysInNext == \A k : D!Having(k)' = HavingIn(k, coll') /\ D!FirstOf(k)' = FirstIn(k, coll')
<1>1. \A k : D!Having(k)' = HavingIn(k, coll')
  BY DEF D!Having, HavingIn
<1> QED
  BY <1>1 DEF D!FirstOf, FirstIn

LEMMA FirstIs ==
  ASSUME NEW s, IsList(s), NEW k, HavingIn(k, s) # {}
  PROVE  /\ FirstIn(k, s) \in 1 .. Len(s) /\ s[FirstIn(k, s)].key = k
         /\ \A m \in HavingIn(k, s) : FirstIn(k, s) <= m
<1>1. Len(s) \in Nat /\ DOMAIN s = 1 .. Len(s)
  BY ListIs
<1>2. HavingIn(k, s) \in SUBSET Nat
  BY <1>1 DEF HavingIn
<1>3. \E n \in HavingIn(k, s) : \A m \in HavingIn(k, s) : n <= m
  BY <1>2, LeastNumber
<1>4. /\ FirstIn(k, s) \in HavingIn(k, s)
      /\ \A m \in HavingIn(k, s) : FirstIn(k, s) <= m
  BY <1>3 DEF FirstIn
<1> QED
  BY <1>1, <1>4 DEF HavingIn

LEMMA FirstStays ==
  ASSUME NEW s, NEW t, IsList(s), IsList(t), Lengthens(s, t), NEW k, HavingIn(k, s) # {}
  PROVE  HavingIn(k, t) # {} /\ FirstIn(k, t) = FirstIn(k, s)
<1>1. /\ Len(s) \in Nat /\ DOMAIN s = 1 .. Len(s)
      /\ Len(t) \in Nat /\ DOMAIN t = 1 .. Len(t)
  BY ListIs
<1>2. HavingIn(k, s) \subseteq HavingIn(k, t)
  BY <1>1 DEF HavingIn, Lengthens
<1>3. /\ FirstIn(k, s) \in 1 .. Len(s) /\ s[FirstIn(k, s)].key = k
      /\ \A m \in HavingIn(k, s) : FirstIn(k, s) <= m
  BY FirstIs
<1>4. HavingIn(k, t) # {}
  BY <1>2
<1>5. /\ FirstIn(k, t) \in 1 .. Len(t) /\ t[FirstIn(k, t)].key = k
      /\ \A m \in HavingIn(k, t) : FirstIn(k, t) <= m
  BY <1>4, FirstIs
<1>6. FirstIn(k, s) \in HavingIn(k, t)
  BY <1>1, <1>2, <1>3 DEF HavingIn
<1>7. FirstIn(k, t) <= FirstIn(k, s)
  BY <1>5, <1>6
<1>8. FirstIn(k, t) \in 1 .. Len(s)
  BY <1>1, <1>3, <1>5, <1>7
<1>9. FirstIn(k, t) \in HavingIn(k, s)
  BY <1>1, <1>5, <1>8 DEF HavingIn, Lengthens
<1>10. FirstIn(k, s) <= FirstIn(k, t)
  BY <1>3, <1>9
<1> QED
  BY <1>1, <1>3, <1>4, <1>7, <1>8, <1>10

LEMMA Grown ==
  ASSUME IsList(coll), IsList(coll'), Lengthens(coll, coll'), NEW k, D!Having(k) # {}
  PROVE  D!Having(k)' # {} /\ D!FirstOf(k)' = D!FirstOf(k)
<1>1. HavingIn(k, coll) # {} /\ D!FirstOf(k) = FirstIn(k, coll)
  BY KeysIn
<1>2. HavingIn(k, coll') # {} /\ FirstIn(k, coll') = FirstIn(k, coll)
  BY <1>1, FirstStays
<1>3. D!Having(k)' = HavingIn(k, coll') /\ D!FirstOf(k)' = FirstIn(k, coll')
  BY KeysInNext
<1> QED
  BY <1>1, <1>2, <1>3

(* What the assumption and the shape say of a job's plan.                  *)
LEMMA PlanIs ==
  ASSUME plan \in Plans, NEW j \in Jobs
  PROVE  /\ plan[j].strategy \in D!Strategies /\ IsList(plan[j].rows) /\ D!Length(j) \in Nat
         /\ BatchSize \in Nat \ {0} /\ IsFiniteSet(Jobs)
         /\ IsList(Stored) /\ Len(Stored) \in Nat
<1>1. plan[j].strategy \in D!Strategies /\ plan[j].rows \in Seq(Range(plan[j].rows))
  BY ServicesAssumption, DRange DEF D!SequentialAssumption
<1>2. Stored \in Seq(Range(Stored))
  BY ServicesAssumption, DRange DEF D!SequentialAssumption
<1>3. BatchSize \in Nat \ {0}
  BY ServicesAssumption DEF D!SequentialAssumption
<1>5. IsFiniteSet(Jobs)
  BY ServicesAssumption, DFinite DEF D!SequentialAssumption
<1>4. IsList(plan[j].rows) /\ Len(plan[j].rows) \in Nat /\ IsList(Stored) /\ Len(Stored) \in Nat
  BY <1>1, <1>2, ListIs DEF IsList
<1> QED
  BY <1>1, <1>3, <1>4, <1>5 DEF D!Length

(* A batch: where it ends, and that it is a finite set of numbers.         *)
LEMMA BatchIs ==
  ASSUME plan \in Plans, NEW j \in Jobs, offset[j] \in Nat, offset[j] <= D!Length(j)
  PROVE  /\ D!End(j) \in Nat /\ offset[j] <= D!End(j) /\ D!End(j) <= D!Length(j)
         /\ D!End(j) <= offset[j] + BatchSize
         /\ D!InBatch(j) \in SUBSET Nat /\ IsFiniteSet(D!InBatch(j))
         /\ Cardinality(D!InBatch(j)) = D!End(j) - offset[j]
         /\ offset[j] < D!Length(j) => offset[j] < D!End(j)
         /\ D!End(j) = D!Length(j) \/ D!End(j) = offset[j] + BatchSize
<1>1. D!Length(j) \in Nat /\ BatchSize \in Nat \ {0}
  BY PlanIs
<1>2. /\ D!End(j) \in Nat /\ offset[j] <= D!End(j) /\ D!End(j) <= D!Length(j)
      /\ D!End(j) <= offset[j] + BatchSize
      /\ offset[j] < D!Length(j) => offset[j] < D!End(j)
      /\ D!End(j) = D!Length(j) \/ D!End(j) = offset[j] + BatchSize
  BY <1>1 DEF D!End
<1>3. offset[j] + 1 \in Int /\ D!End(j) \in Int
  BY <1>2
<1>4. /\ IsFiniteSet(D!InBatch(j))
      /\ Cardinality(D!InBatch(j)) = IF offset[j] + 1 > D!End(j) THEN 0 ELSE D!End(j) - (offset[j] + 1) + 1
  BY <1>3, FS_Interval DEF D!InBatch
<1>5. Cardinality(D!InBatch(j)) = D!End(j) - offset[j]
  BY <1>2, <1>4
<1>6. D!InBatch(j) \in SUBSET Nat
  BY <1>2 DEF D!InBatch
<1> QED
  BY <1>2, <1>4, <1>5, <1>6

LEMMA NextBatch ==
  ASSUME NEW n \in Nat
  PROVE  (n + 1) * BatchSize = n * BatchSize + BatchSize /\ n * BatchSize \in Nat /\ n <= n * BatchSize
BY ServicesAssumption DEF D!SequentialAssumption

LEMMA RoundedNext ==
  ASSUME NEW o \in Nat, Rounded(o) PROVE Rounded(o + BatchSize)
<1>1. PICK n \in 0 .. o : o = n * BatchSize
  BY DEF Rounded
<1>2. BatchSize \in Nat \ {0}
  BY ServicesAssumption DEF D!SequentialAssumption
<1>3. n + 1 \in 0 .. o + BatchSize
  BY <1>2
<1>4. o + BatchSize = (n + 1) * BatchSize
  BY <1>1, NextBatch
<1> QED
  BY <1>3, <1>4 DEF Rounded
-----------------------------------------------------------------------------
(* What a step of one job leaves of the others.                            *)
PerJob(j) == Placed(j) /\ Waits(j) /\ Adds(j) /\ PutsFit(j) /\ Provided(j)
Unmoved(i) ==
  /\ step'[i] = step[i] /\ offset'[i] = offset[i] /\ inserts'[i] = inserts[i]
  /\ puts'[i] = puts[i] /\ tally'[i] = tally[i] /\ dead'[i] = dead[i]
Grows == plan' = plan /\ IsList(coll) /\ IsList(coll') /\ Lengthens(coll, coll')

LEMMA SparedStays ==
  ASSUME Grows, NEW d, D!Having(d.key) # {}, Spared(d) PROVE Spared(d)'
<1>1. D!FirstOf(d.key)' = D!FirstOf(d.key)
  BY Grown DEF Grows
<1> QED
  BY <1>1 DEF Spared

LEMMA PutsStay ==
  ASSUME Grows, NEW j \in Jobs, NEW d, NEW n \in 1 .. Len(puts[j]), PutsFit(j), d = puts[j][n]
  PROVE  /\ plan[j].strategy # "skip" /\ d.key # NoKey /\ D!Having(d.key)' # {}
         /\ NoOverwrite' => Spared(d)'
<1>1. /\ plan[j].strategy # "skip" /\ d.key # NoKey /\ D!Having(d.key) # {}
      /\ NoOverwrite => Spared(d)
  BY DEF PutsFit
<1>2. D!Having(d.key)' # {}
  BY <1>1, Grown DEF Grows
<1>3. NoOverwrite' <=> NoOverwrite
  BY DEF Grows, NoOverwrite
<1> QED
  BY <1>1, <1>2, <1>3, SparedStays

LEMMA LengthStays ==
  ASSUME plan' = plan, NEW j \in Jobs
  PROVE  D!Length(j)' = D!Length(j) /\ \A i : D!Row(j, i)' = D!Row(j, i)
BY DEF D!Length, D!Row

LEMMA BatchStays ==
  ASSUME plan' = plan, NEW j \in Jobs, offset'[j] = offset[j]
  PROVE  D!End(j)' = D!End(j) /\ D!InBatch(j)' = D!InBatch(j)
BY LengthStays DEF D!End, D!InBatch

LEMMA DoneStays ==
  ASSUME plan' = plan, NEW j \in Jobs, offset'[j] = offset[j], step'[j] = step[j]
  PROVE  Dealt(j)' = Dealt(j)
BY BatchStays DEF Dealt

LEMMA OthersKeep ==
  ASSUME Grows, NEW i \in Jobs, Unmoved(i), PerJob(i)
  PROVE  PerJob(i)'
<1>1. /\ plan' = plan /\ step'[i] = step[i] /\ offset'[i] = offset[i] /\ inserts'[i] = inserts[i]
      /\ puts'[i] = puts[i] /\ tally'[i] = tally[i]
  BY DEF Grows, Unmoved
<1>2. /\ D!Length(i)' = D!Length(i) /\ D!End(i)' = D!End(i) /\ D!InBatch(i)' = D!InBatch(i) /\ Dealt(i)' = Dealt(i)
      /\ \A r : D!Row(i, r)' = D!Row(i, r)
  BY <1>1, LengthStays, BatchStays, DoneStays
<1>3. Placed(i)' /\ Waits(i)' /\ Adds(i)'
  BY <1>1, <1>2 DEF PerJob, Placed, Waits, Adds
<1>4. PutsFit(i)'
  <2> SUFFICES ASSUME NEW n \in 1 .. Len(puts[i])
               PROVE  /\ plan[i].strategy # "skip" /\ puts[i][n].key # NoKey
                      /\ D!Having(puts[i][n].key)' # {}
                      /\ NoOverwrite' => Spared(puts[i][n])'
    BY <1>1 DEF PutsFit
  <2>1. PICK d : d = puts[i][n]
    OBVIOUS
  <2>2. /\ plan[i].strategy # "skip" /\ d.key # NoKey /\ D!Having(d.key)' # {}
        /\ NoOverwrite' => Spared(d)'
    BY <2>1, PutsStay DEF PerJob
  <2> QED
    BY <1>1, <2>1, <2>2
<1>5. Provided(i)'
  <2>2. \A k : D!Having(k) # {} => D!Having(k)' # {}
    BY Grown DEF Grows
  <2>1. \A r : D!Having(D!Row(i, r).key) # {} => D!Having(D!Row(i, r).key)' # {}
    BY <1>2, <2>2
  <2>3. tally[i].failed = 0 => \A r \in 1 .. Dealt(i) : D!Having(D!Row(i, r).key)' # {}
    BY <2>1 DEF PerJob, Provided
  <2>4. step[i] = "insert" =>
          \A r \in D!InBatch(i) :
            \/ \E n \in 1 .. Len(inserts[i]) : inserts[i][n] = r
            \/ D!Row(i, r).key # NoKey /\ D!Having(D!Row(i, r).key)' # {}
    BY <2>1 DEF PerJob, Provided
  <2> QED
    BY <1>1, <1>2, <2>3, <2>4 DEF Provided
<1> QED
  BY <1>3, <1>4, <1>5 DEF PerJob

LEMMA StepKeeps ==
  ASSUME SeqInv, SeqShape', Grows, NEW j \in Jobs, \A i \in Jobs : i # j => Unmoved(i),
         PerJob(j)', Kept', Owned'
  PROVE  SeqInv'
<1>1. KeysStay'
  <2>1. Len(coll) \in Nat /\ Len(coll') \in Nat /\ Len(Stored) \in Nat
    BY ListIs, PlanIs DEF Grows, SeqInv, SeqShape
  <2> QED
    BY <2>1 DEF SeqInv, KeysStay, Grows, Lengthens
<1>2. \A i \in Jobs : PerJob(i)'
  <2> SUFFICES ASSUME NEW i \in Jobs, i # j PROVE PerJob(i)'
    OBVIOUS
  <2>1. PerJob(i) /\ Unmoved(i)
    BY DEF SeqInv, PerJob
  <2> QED
    BY <2>1, OthersKeep
<1> QED
  BY <1>1, <1>2 DEF SeqInv, PerJob

(* The collection as it was.                                               *)
LEMMA Quiet ==
  ASSUME SeqInv, coll' = coll, plan' = plan
  PROVE  Grows /\ Kept' /\ Added' = Added
<1>1. Grows
  BY ListIs DEF SeqInv, SeqShape, Grows, Lengthens
<1>2. Kept'
  BY DEF SeqInv, Kept, NoOverwrite, AllSkip
<1> QED
  BY <1>1, <1>2 DEF Added

(* The owners stay: no document is added, and no row is dealt with but of  *)
(* a job that reports a failure.                                           *)
OwnersFit(j) ==
  /\ Dealt(j) <= Dealt(j)'
  /\ tally'[j].failed = 0 => tally[j].failed = 0 /\ Dealt(j)' = Dealt(j)
OwnersTake(w, j) ==
  inserts'[j] = inserts[j] \/ inserts'[j] = <<>> \/ OwnsNone(w, j)'

LEMMA DoneIs ==
  ASSUME plan \in Plans, NEW j \in Jobs, offset[j] \in Nat, offset[j] <= D!Length(j)
  PROVE  Dealt(j) \in Nat /\ Dealt(j) <= D!Length(j) /\ offset[j] <= Dealt(j)
BY BatchIs, PlanIs DEF Dealt

LEMMA OwnersStay ==
  ASSUME SeqInv, SeqShape', plan' = plan, Len(coll') = Len(coll), Lengthens(coll, coll'),
         \A j \in Jobs : Placed(j)' /\ OwnersFit(j), NEW w, Own(w), \A j \in Jobs : OwnersTake(w, j)
  PROVE  Owned'
<1>1. Added' = Added /\ \A i \in Added : i \in 1 .. Len(coll) /\ coll'[i].key = coll[i].key
  <2>1. Len(Stored) \in Nat /\ Len(coll) \in Nat
    BY ListIs, ServicesAssumption DEF SeqInv, SeqShape, D!SequentialAssumption
  <2> QED
    BY <2>1 DEF Added, Lengthens
<1>2. w \in [Added -> Jobs \X Nat] /\ OwnsOnce(w)
  BY DEF Own
<1>3. \A i \in Added : OwnsRow(w, i)'
  <2> SUFFICES ASSUME NEW i \in Added PROVE OwnsRow(w, i)'
    OBVIOUS
  <2>1. w[i][1] \in Jobs /\ OwnsRow(w, i)
    BY <1>2 DEF Own
  <2> DEFINE h == w[i][1]
  <2>2. Dealt(h) \in Nat /\ Dealt(h)' \in Nat /\ Dealt(h) <= Dealt(h)'
    <3>1. plan \in Plans /\ offset[h] \in Nat /\ offset[h] <= D!Length(h)
      BY <2>1 DEF SeqInv, SeqShape, Placed
    <3>2. (plan \in Plans)' /\ (offset[h] \in Nat)' /\ (offset[h] <= D!Length(h))'
      BY <2>1 DEF SeqShape, Placed
    <3>3. Dealt(h) \in Nat
      BY <2>1, <3>1, DoneIs
    <3>4. Dealt(h)' \in Nat
      <4>1. D!Length(h)' \in Nat /\ BatchSize \in Nat
        BY <2>1, <3>1, PlanIs, LengthStays
      <4> QED
        BY <3>2, <4>1 DEF Dealt, D!End
    <3> QED
      BY <2>1, <3>3, <3>4 DEF OwnersFit
  <2>3. D!Row(h, w[i][2])' = D!Row(h, w[i][2])
    BY <2>1, LengthStays
  <2>4. w[i][2] \in 1 .. Dealt(h)'
    BY <2>1, <2>2 DEF OwnsRow
  <2>5. coll'[i].key = coll[i].key
    BY <1>1
  <2> QED
    BY <2>1, <2>3, <2>4, <2>5 DEF OwnsRow
<1>4. OwnsOnce(w)'
  BY <1>1, <1>2 DEF OwnsOnce
<1>5. ASSUME NEW j \in Jobs PROVE OwnsTogether(w, j)' /\ OwnsBare(w, j)' /\ OwnsNone(w, j)'
  <2>1. OwnsTogether(w, j) /\ OwnsBare(w, j) /\ OwnsNone(w, j)
    BY <1>5 DEF Own
  <2>2. D!Length(j)' = D!Length(j) /\ \A r : D!Row(j, r)' = D!Row(j, r)
    BY <1>5, LengthStays
  <2>3. ASSUME NEW k, NEW n, InOne(w, j, k, n) PROVE InOne(w, j, k, n)'
    BY <1>1, <2>3 DEF InOne
  <2>4. OwnsTogether(w, j)'
    BY <2>1, <2>2, <2>3 DEF OwnsTogether
  <2>5. OwnsBare(w, j)'
    <3> SUFFICES ASSUME tally'[j].failed = 0, NEW r \in 1 .. Dealt(j)', D!Row(j, r).key = NoKey
                 PROVE  \E i \in Added : w[i] = <<j, r>>
      BY <1>1, <2>2 DEF OwnsBare
    <3>1. tally[j].failed = 0 /\ r \in 1 .. Dealt(j)
      BY <1>5 DEF OwnersFit
    <3> QED
      BY <2>1, <3>1 DEF OwnsBare
  <2>6. ASSUME NEW k, Unowned(w, j, k) PROVE Unowned(w, j, k)'
    BY <1>1, <2>6 DEF Unowned
  <2>7. OwnsNone(w, j)'
    <3>1. CASE inserts'[j] = inserts[j]
      BY <2>1, <2>2, <2>6, <3>1 DEF OwnsNone
    <3>2. CASE inserts'[j] = <<>>
      BY <3>2, NoneLeft DEF OwnsNone
    <3> QED
      BY <1>5, <3>1, <3>2 DEF OwnersTake
  <2> QED
    BY <2>4, <2>5, <2>7
<1>6. Own(w)'
  BY <1>1, <1>2, <1>3, <1>4, <1>5 DEF Own
<1> QED
  BY <1>6 DEF Owned
-----------------------------------------------------------------------------
(* Steps that add no document.                                             *)
LEMMA OthersFit ==
  ASSUME SeqInv, plan' = plan, NEW i \in Jobs, Unmoved(i)
  PROVE  OwnersFit(i) /\ \A w : OwnersTake(w, i)
<1>1. offset'[i] = offset[i] /\ step'[i] = step[i] /\ tally'[i] = tally[i] /\ inserts'[i] = inserts[i]
  BY DEF Unmoved
<1>2. Dealt(i)' = Dealt(i)
  BY <1>1, DoneStays
<1>3. plan \in Plans /\ offset[i] \in Nat /\ offset[i] <= D!Length(i)
  BY DEF SeqInv, SeqShape, Placed
<1>4. Dealt(i) \in Nat
  BY <1>3, DoneIs
<1>5. Dealt(i) <= Dealt(i)'
  BY <1>2, <1>4
<1> QED
  BY <1>1, <1>2, <1>5 DEF OwnersFit, OwnersTake

LEMMA StepStays ==
  ASSUME SeqInv, SeqShape', Grows, Len(coll') = Len(coll), Kept', NEW j \in Jobs,
         \A i \in Jobs : i # j => Unmoved(i), PerJob(j)', OwnersFit(j),
         \A w : Own(w) => OwnersTake(w, j)
  PROVE  SeqInv'
<1>1. PICK w : Own(w)
  BY DEF SeqInv, Owned
<1>2. plan' = plan /\ Lengthens(coll, coll')
  BY DEF Grows
<1>3. ASSUME NEW i \in Jobs PROVE Placed(i)' /\ OwnersFit(i) /\ OwnersTake(w, i)
  <2>1. CASE i = j
    BY <1>1, <2>1 DEF PerJob
  <2>2. CASE i # j
    <3>1. Unmoved(i) /\ PerJob(i)
      BY <1>3, <2>2 DEF SeqInv, PerJob
    <3>2. PerJob(i)'
      BY <1>3, <3>1, OthersKeep
    <3>3. OwnersFit(i) /\ OwnersTake(w, i)
      BY <1>2, <1>3, <3>1, OthersFit
    <3> QED
      BY <3>2, <3>3 DEF PerJob
  <2> QED
    BY <2>1, <2>2
<1>4. Owned'
  BY <1>1, <1>2, <1>3, OwnersStay
<1> QED
  BY <1>4, StepKeeps

LEMMA GoesTo ==
  ASSUME step \in [Jobs -> Steps], NEW j \in Jobs, NEW s \in Steps, D!Goto(j, s)
  PROVE  step' \in [Jobs -> Steps] /\ step'[j] = s /\ \A i \in Jobs : i # j => step'[i] = step[i]
BY DEF D!Goto

LEMMA Counts ==
  ASSUME tally \in [Jobs -> Tallies], NEW j \in Jobs, NEW p \in Nat, NEW n \in Nat,
         NEW s \in Nat, NEW f \in Nat, D!Count(j, p, n, s, f)
  PROVE  /\ tally' \in [Jobs -> Tallies] /\ \A i \in Jobs : i # j => tally'[i] = tally[i]
         /\ tally'[j].processed = tally[j].processed + p
         /\ tally'[j].inserted = tally[j].inserted + n
         /\ tally'[j].skipped = tally[j].skipped + s
         /\ tally'[j].failed = tally[j].failed + f
<1>1. /\ tally[j].processed \in Nat /\ tally[j].inserted \in Nat
      /\ tally[j].skipped \in Nat /\ tally[j].failed \in Nat
  BY DEF Tallies
<1>2. tally'[j] = [processed |-> tally[j].processed + p, inserted |-> tally[j].inserted + n,
                   skipped |-> tally[j].skipped + s, failed |-> tally[j].failed + f]
  BY DEF D!Count
<1>3. tally'[j] \in Tallies
  BY <1>1, <1>2 DEF Tallies
<1>4. \A i \in Jobs : i # j => tally'[i] = tally[i]
  BY DEF D!Count
<1>5. tally' = [i \in Jobs |-> tally'[i]]
  BY DEF D!Count
<1>6. tally' \in [Jobs -> Tallies]
  BY <1>3, <1>4, <1>5
<1> QED
  BY <1>2, <1>4, <1>6

LEMMA JobIs ==
  ASSUME SeqInv, NEW j \in Jobs
  PROVE  /\ plan \in Plans /\ step \in [Jobs -> Steps] /\ step[j] \in Steps
         /\ tally \in [Jobs -> Tallies] /\ tally[j] \in Tallies
         /\ offset \in [Jobs -> Nat] /\ offset[j] \in Nat /\ offset[j] <= D!Length(j)
         /\ D!Length(j) \in Nat /\ D!End(j) \in Nat /\ offset[j] <= D!End(j) /\ D!End(j) <= D!Length(j)
         /\ inserts[j] \in Seq(Nat) /\ IsList(inserts[j]) /\ IsList(puts[j])
         /\ Len(inserts[j]) \in Nat /\ Len(puts[j]) \in Nat
         /\ PerJob(j)
<1>1. /\ plan \in Plans /\ step \in [Jobs -> Steps] /\ tally \in [Jobs -> Tallies]
      /\ offset \in [Jobs -> Nat] /\ inserts \in [Jobs -> Seq(Nat)] /\ IsList(puts[j]) /\ PerJob(j)
  BY DEF SeqInv, SeqShape, PerJob
<1>2. offset[j] \in Nat /\ offset[j] <= D!Length(j)
  BY <1>1 DEF PerJob, Placed
<1>3. D!Length(j) \in Nat
  BY <1>1, PlanIs
<1>4. D!End(j) \in Nat /\ offset[j] <= D!End(j) /\ D!End(j) <= D!Length(j)
  BY <1>1, <1>2, BatchIs
<1>5. inserts[j] \in Seq(Nat)
  BY <1>1
<1>6. IsList(inserts[j])
  BY <1>5 DEF IsList
<1>7. Len(inserts[j]) \in Nat /\ Len(puts[j]) \in Nat
  BY <1>1, <1>6, ListIs
<1> QED
  BY <1>1, <1>2, <1>3, <1>4, <1>5, <1>6, <1>7

(* A job goes on, or ends, with nothing in hand.                           *)
LEMMA Hops ==
  ASSUME SeqInv, NEW j \in Jobs, NEW s \in {"convert", "check", "failed", "completed"},
         step[j] \in {"poll", "convert", "check"}, D!Goto(j, s),
         UNCHANGED <<coll, plan, offset, D!work, tally, dead>>,
         s \in InABatch => offset[j] < D!Length(j), s = "completed" => offset[j] = D!Length(j)
  PROVE  SeqInv'
<1>0. UNCHANGED <<coll, plan, offset, inserts, puts, tally, dead>>
  BY DEF D!work
<1>1. /\ step \in [Jobs -> Steps] /\ PerJob(j) /\ s \in Steps
      /\ offset[j] \in Nat
  BY JobIs DEF Steps, InABatch, D!Final
<1>2. step' \in [Jobs -> Steps] /\ step'[j] = s /\ \A i \in Jobs : i # j => step'[i] = step[i]
  BY <1>1, GoesTo
<1>3. SeqShape'
  BY <1>0, <1>2, LengthStays DEF SeqInv, SeqShape
<1>4. Grows /\ Kept' /\ Len(coll') = Len(coll)
  BY <1>0, Quiet
<1>5. \A i \in Jobs : i # j => Unmoved(i)
  BY <1>0, <1>2 DEF Unmoved
<1>6. D!Length(j)' = D!Length(j) /\ D!End(j)' = D!End(j) /\ D!InBatch(j)' = D!InBatch(j) /\ \A r : D!Row(j, r)' = D!Row(j, r)
  BY <1>0, LengthStays, BatchStays
<1>7. Dealt(j) = offset[j] /\ Dealt(j)' = offset[j]
  BY <1>0, <1>2 DEF Dealt
<1>8. Placed(j)'
  BY <1>0, <1>1, <1>2, <1>6 DEF PerJob, Placed, InABatch
<1>9. Waits(j)'
  BY <1>0, <1>1, <1>2, <1>6 DEF PerJob, Waits
<1>10. Adds(j)'
  BY <1>0, <1>1, <1>2, <1>6 DEF PerJob, Adds
<1>11. puts'[j] = <<>>
  BY <1>0, <1>1 DEF PerJob, Waits
<1>12. PutsFit(j)'
  BY <1>11, NoneLeft DEF PutsFit
<1>13. Provided(j)'
  <2>1. \A k : D!Having(k)' = D!Having(k)
    BY <1>0 DEF D!Having
  <2>2. step'[j] # "insert"
    BY <1>2
  <2>3. tally[j].failed = 0 => \A r \in 1 .. offset[j] : D!Having(D!Row(j, r).key) # {}
    BY <1>1, <1>7 DEF PerJob, Provided
  <2> QED
    BY <1>0, <1>6, <1>7, <2>1, <2>2, <2>3 DEF Provided
<1>14. PerJob(j)'
  BY <1>8, <1>9, <1>10, <1>12, <1>13 DEF PerJob
<1>15. OwnersFit(j) /\ \A w : OwnersTake(w, j)
  BY <1>0, <1>1, <1>7 DEF OwnersFit, OwnersTake
<1> QED
  BY <1>3, <1>4, <1>5, <1>14, <1>15, StepStays

LEMMA PollKeeps == ASSUME SeqInv, NEW j \in Jobs, D!PollCancel(j) PROVE SeqInv'
<1>1. offset[j] \in Nat /\ offset[j] <= D!Length(j) /\ D!Length(j) \in Nat /\ step[j] = "poll"
  BY JobIs DEF D!PollCancel
<1>2. UNCHANGED <<coll, plan, offset, D!work, tally, dead>>
  BY DEF D!PollCancel
<1>3. CASE offset[j] = D!Length(j)
  <2>1. D!Goto(j, "completed")
    BY <1>3 DEF D!PollCancel
  <2> QED
    BY <1>1, <1>2, <1>3, <2>1, Hops DEF InABatch
<1>4. CASE offset[j] # D!Length(j) /\ cancel[j]
  <2>1. D!Goto(j, "failed")
    BY <1>4 DEF D!PollCancel
  <2> QED
    BY <1>1, <1>2, <2>1, Hops DEF InABatch
<1>5. CASE offset[j] # D!Length(j) /\ ~cancel[j]
  <2>1. D!Goto(j, "convert") /\ offset[j] < D!Length(j)
    BY <1>1, <1>5 DEF D!PollCancel
  <2> QED
    BY <1>1, <1>2, <2>1, Hops DEF InABatch
<1> QED
  BY <1>3, <1>4, <1>5

LEMMA ConvertKeeps == ASSUME SeqInv, NEW j \in Jobs, D!Convert(j) PROVE SeqInv'
<1>1. step[j] = "convert" /\ D!Goto(j, "check") /\ UNCHANGED <<coll, plan, offset, D!work, tally, dead>>
  BY DEF D!Convert
<1>2. offset[j] < D!Length(j)
  BY <1>1, JobIs DEF PerJob, Placed, InABatch
<1> QED
  BY <1>1, <1>2, Hops

LEMMA CheckFailsKeeps == ASSUME SeqInv, NEW j \in Jobs, D!CheckFails(j) PROVE SeqInv'
<1>1. step[j] = "check" /\ D!Goto(j, "failed") /\ UNCHANGED <<coll, plan, offset, D!work, tally, dead>>
  BY DEF D!CheckFails
<1> QED
  BY <1>1, Hops DEF InABatch

(* Steps that change none of the variables the invariant is about.         *)
LEMMA NothingMoves ==
  ASSUME SeqInv, UNCHANGED <<coll, plan, step, offset, D!work, tally, dead>>
  PROVE  SeqInv'
<1>1. /\ coll' = coll /\ plan' = plan /\ step' = step /\ offset' = offset
      /\ inserts' = inserts /\ puts' = puts /\ tally' = tally /\ dead' = dead
  BY DEF D!work
<1>2. SeqShape'
  BY <1>1 DEF SeqInv, SeqShape, D!Length
<1>3. KeysStay' /\ Kept'
  BY <1>1 DEF SeqInv, KeysStay, Kept, NoOverwrite, AllSkip
<1>4. Grows
  BY <1>1, Quiet
<1>5. \A j \in Jobs : Unmoved(j)
  BY <1>1 DEF Unmoved
<1>6. \A j \in Jobs : PerJob(j)'
  BY <1>4, <1>5, OthersKeep DEF SeqInv, PerJob
<1>7. PICK w : Own(w)
  BY DEF SeqInv, Owned
<1>8. Len(coll') = Len(coll) /\ Lengthens(coll, coll')
  BY <1>1, <1>4 DEF Grows
<1>9. \A j \in Jobs : Placed(j)' /\ OwnersFit(j) /\ OwnersTake(w, j)
  BY <1>1, <1>5, <1>6, OthersFit DEF PerJob
<1>10. Owned'
  BY <1>1, <1>2, <1>7, <1>8, <1>9, OwnersStay
<1> QED
  BY <1>2, <1>3, <1>6, <1>10 DEF SeqInv, PerJob
-----------------------------------------------------------------------------
LEMMA ConvertFailsKeeps == ASSUME SeqInv, NEW j \in Jobs, D!ConvertFails(j) PROVE SeqInv'
<1>0. /\ step[j] = "convert" /\ D!Goto(j, "poll") /\ UNCHANGED <<coll, plan, inserts, puts>>
      /\ dead' = [dead EXCEPT ![j] = @ \union D!InBatch(j)]
      /\ D!Count(j, D!End(j) - offset[j], 0, 0, D!End(j) - offset[j])
      /\ offset' = [offset EXCEPT ![j] = D!End(j)]
  BY DEF D!ConvertFails, D!work
<1>1. /\ step \in [Jobs -> Steps] /\ tally \in [Jobs -> Tallies] /\ offset \in [Jobs -> Nat]
      /\ offset[j] \in Nat /\ D!End(j) \in Nat /\ offset[j] <= D!End(j) /\ D!End(j) <= D!Length(j)
      /\ D!Length(j) \in Nat /\ plan \in Plans /\ PerJob(j) /\ tally[j] \in Tallies
  BY JobIs
<1>2. "poll" \in Steps /\ 0 \in Nat /\ D!End(j) - offset[j] \in Nat
  BY <1>1 DEF Steps
<1>3. step' \in [Jobs -> Steps] /\ step'[j] = "poll" /\ \A i \in Jobs : i # j => step'[i] = step[i]
  BY <1>0, <1>1, <1>2, GoesTo
<1>4. /\ tally' \in [Jobs -> Tallies] /\ \A i \in Jobs : i # j => tally'[i] = tally[i]
      /\ tally'[j].processed = tally[j].processed + (D!End(j) - offset[j])
      /\ tally'[j].inserted = tally[j].inserted + 0
      /\ tally'[j].skipped = tally[j].skipped + 0
      /\ tally'[j].failed = tally[j].failed + (D!End(j) - offset[j])
  BY <1>0, <1>1, <1>2, Counts
<1>5. offset' \in [Jobs -> Nat] /\ offset'[j] = D!End(j) /\ \A i \in Jobs : i # j => offset'[i] = offset[i]
  BY <1>0, <1>1
<1>6. /\ dead' \in [Jobs -> SUBSET Nat] /\ \A i \in Jobs : dead'[i] \subseteq 1 .. D!Length(i)'
      /\ \A i \in Jobs : i # j => dead'[i] = dead[i]
  <2>1. dead \in [Jobs -> SUBSET Nat] /\ \A i \in Jobs : dead[i] \subseteq 1 .. D!Length(i)
    BY DEF SeqInv, SeqShape
  <2>2. D!InBatch(j) \subseteq 1 .. D!Length(j)
    BY <1>1 DEF D!InBatch
  <2>3. \A i \in Jobs : D!Length(i)' = D!Length(i)
    BY <1>0, LengthStays
  <2>4. dead'[j] = dead[j] \union D!InBatch(j) /\ \A i \in Jobs : i # j => dead'[i] = dead[i]
    BY <1>0, <2>1
  <2>5. \A i \in Jobs : dead'[i] \subseteq 1 .. D!Length(i)
    BY <2>1, <2>2, <2>4
  <2>6. dead' \in [Jobs -> SUBSET Nat]
    BY <1>0, <2>1, <2>2
  <2> QED
    BY <2>3, <2>4, <2>5, <2>6
<1>7. SeqShape'
  BY <1>0, <1>3, <1>4, <1>5, <1>6 DEF SeqInv, SeqShape
<1>8. Grows /\ Kept' /\ Len(coll') = Len(coll)
  BY <1>0, Quiet
<1>9. \A i \in Jobs : i # j => Unmoved(i)
  BY <1>0, <1>3, <1>4, <1>5, <1>6 DEF Unmoved
<1>10. D!Length(j)' = D!Length(j) /\ \A r : D!Row(j, r)' = D!Row(j, r)
  BY <1>0, LengthStays
<1>11. offset[j] < D!Length(j) /\ Rounded(offset[j]) /\ inserts[j] = <<>> /\ puts[j] = <<>>
  BY <1>0, <1>1 DEF PerJob, Placed, Waits, InABatch
<1>12. offset[j] < D!End(j) /\ (D!End(j) = D!Length(j) \/ D!End(j) = offset[j] + BatchSize)
  BY <1>1, <1>11, BatchIs
<1>13. Placed(j)'
  <2>1. D!End(j) = D!Length(j) \/ Rounded(D!End(j))
    BY <1>1, <1>11, <1>12, RoundedNext
  <2>2. Rounded(D!End(j)) => Rounded(offset[j])'
    BY <1>5 DEF Rounded
  <2> QED
    BY <1>1, <1>3, <1>5, <1>10, <2>1, <2>2 DEF Placed, InABatch
<1>14. Waits(j)'
  BY <1>0, <1>11, NoneLeft DEF Waits, OnceEach
<1>15. Adds(j)'
  <2>1. /\ tally[j].processed = offset[j]
        /\ offset[j] <= tally[j].inserted + tally[j].skipped + tally[j].failed
        /\ tally[j].inserted + tally[j].skipped + tally[j].failed + 0 + 0 = offset[j]
    BY <1>0, <1>1, <1>11, NoneLeft DEF PerJob, Adds
  <2>2. /\ tally[j].inserted \in Nat /\ tally[j].skipped \in Nat /\ tally[j].failed \in Nat
    BY <1>1 DEF Tallies
  <2>3. tally'[j].inserted + tally'[j].skipped + tally'[j].failed = D!End(j)
        /\ tally'[j].processed = D!End(j)
    BY <1>1, <1>4, <2>1, <2>2
  <2>4. Len(inserts'[j]) = 0 /\ Len(puts'[j]) = 0
    BY <1>0, <1>11, NoneLeft
  <2> QED
    BY <1>1, <1>3, <1>5, <2>3, <2>4 DEF Adds
<1>16. PutsFit(j)'
  BY <1>0, <1>11, NoneLeft DEF PutsFit
<1>17. tally'[j].failed # 0
  BY <1>1, <1>4, <1>12 DEF Tallies
<1>18. Provided(j)'
  BY <1>3, <1>17 DEF Provided
<1>19. PerJob(j)'
  BY <1>13, <1>14, <1>15, <1>16, <1>18 DEF PerJob
<1>20. OwnersFit(j) /\ \A w : OwnersTake(w, j)
  <2>1. Dealt(j) = offset[j] /\ Dealt(j)' = D!End(j)
    BY <1>0, <1>3, <1>5 DEF Dealt
  <2> QED
    BY <1>0, <1>1, <1>17, <2>1 DEF OwnersFit, OwnersTake
<1> QED
  BY <1>7, <1>8, <1>9, <1>19, <1>20, StepStays

LEMMA EndBatchKeeps == ASSUME SeqInv, NEW j \in Jobs, D!EndBatch(j) PROVE SeqInv'
<1>0. /\ step[j] = "replace" /\ puts[j] = <<>> /\ D!Goto(j, "poll")
      /\ UNCHANGED <<coll, plan, inserts, puts, dead>>
      /\ D!Count(j, D!End(j) - offset[j], 0, 0, 0)
      /\ offset' = [offset EXCEPT ![j] = D!End(j)]
  BY DEF D!EndBatch, D!work
<1>1. /\ step \in [Jobs -> Steps] /\ tally \in [Jobs -> Tallies] /\ offset \in [Jobs -> Nat]
      /\ offset[j] \in Nat /\ D!End(j) \in Nat /\ offset[j] <= D!End(j) /\ D!End(j) <= D!Length(j)
      /\ D!Length(j) \in Nat /\ plan \in Plans /\ PerJob(j) /\ tally[j] \in Tallies
  BY JobIs
<1>2. "poll" \in Steps /\ 0 \in Nat /\ D!End(j) - offset[j] \in Nat
  BY <1>1 DEF Steps
<1>3. step' \in [Jobs -> Steps] /\ step'[j] = "poll" /\ \A i \in Jobs : i # j => step'[i] = step[i]
  BY <1>0, <1>1, <1>2, GoesTo
<1>4. /\ tally' \in [Jobs -> Tallies] /\ \A i \in Jobs : i # j => tally'[i] = tally[i]
      /\ tally'[j].processed = tally[j].processed + (D!End(j) - offset[j])
      /\ tally'[j].inserted = tally[j].inserted + 0
      /\ tally'[j].skipped = tally[j].skipped + 0
      /\ tally'[j].failed = tally[j].failed + 0
  BY <1>0, <1>1, <1>2, Counts
<1>5. offset' \in [Jobs -> Nat] /\ offset'[j] = D!End(j) /\ \A i \in Jobs : i # j => offset'[i] = offset[i]
  BY <1>0, <1>1
<1>6. \A i \in Jobs : D!Length(i)' = D!Length(i)
  BY <1>0, LengthStays
<1>7. SeqShape'
  BY <1>0, <1>3, <1>4, <1>5, <1>6 DEF SeqInv, SeqShape
<1>8. Grows /\ Kept' /\ Len(coll') = Len(coll)
  BY <1>0, Quiet
<1>9. \A i \in Jobs : i # j => Unmoved(i)
  BY <1>0, <1>3, <1>4, <1>5 DEF Unmoved
<1>10. D!Length(j)' = D!Length(j) /\ \A r : D!Row(j, r)' = D!Row(j, r)
  BY <1>0, LengthStays
<1>11. offset[j] < D!Length(j) /\ Rounded(offset[j]) /\ inserts[j] = <<>>
  BY <1>0, <1>1 DEF PerJob, Placed, Waits, InABatch
<1>12. offset[j] < D!End(j) /\ (D!End(j) = D!Length(j) \/ D!End(j) = offset[j] + BatchSize)
  BY <1>1, <1>11, BatchIs
<1>13. Placed(j)'
  <2>1. D!End(j) = D!Length(j) \/ Rounded(D!End(j))
    BY <1>1, <1>11, <1>12, RoundedNext
  <2>2. Rounded(D!End(j)) => Rounded(offset[j])'
    BY <1>5 DEF Rounded
  <2> QED
    BY <1>1, <1>3, <1>5, <1>10, <2>1, <2>2 DEF Placed, InABatch
<1>14. Waits(j)'
  BY <1>0, <1>11, NoneLeft DEF Waits, OnceEach
<1>15. Adds(j)'
  <2>1. /\ tally[j].processed = offset[j]
        /\ offset[j] <= tally[j].inserted + tally[j].skipped + tally[j].failed
        /\ tally[j].inserted + tally[j].skipped + tally[j].failed + 0 + 0 = D!End(j)
    BY <1>0, <1>1, <1>11, NoneLeft DEF PerJob, Adds
  <2>2. /\ tally[j].inserted \in Nat /\ tally[j].skipped \in Nat /\ tally[j].failed \in Nat
    BY <1>1 DEF Tallies
  <2>3. tally'[j].inserted + tally'[j].skipped + tally'[j].failed = D!End(j)
        /\ tally'[j].processed = D!End(j)
    BY <1>1, <1>4, <2>1, <2>2
  <2>4. Len(inserts'[j]) = 0 /\ Len(puts'[j]) = 0
    BY <1>0, <1>11, NoneLeft
  <2> QED
    BY <1>1, <1>3, <1>5, <2>3, <2>4 DEF Adds
<1>16. PutsFit(j)'
  BY <1>0, <1>11, NoneLeft DEF PutsFit
<1>17. tally'[j].failed = tally[j].failed /\ Dealt(j) = D!End(j) /\ Dealt(j)' = D!End(j)
  BY <1>0, <1>1, <1>3, <1>4, <1>5 DEF Tallies, Dealt
<1>18. Provided(j)'
  <2>1. \A k : D!Having(k)' = D!Having(k)
    BY <1>0 DEF D!Having
  <2>2. tally[j].failed = 0 => \A r \in 1 .. D!End(j) : D!Having(D!Row(j, r).key) # {}
    BY <1>1, <1>17 DEF PerJob, Provided
  <2> QED
    BY <1>3, <1>10, <1>17, <2>1, <2>2 DEF Provided
<1>19. PerJob(j)'
  BY <1>13, <1>14, <1>15, <1>16, <1>18 DEF PerJob
<1>20. OwnersFit(j) /\ \A w : OwnersTake(w, j)
  BY <1>0, <1>1, <1>17 DEF OwnersFit, OwnersTake
<1> QED
  BY <1>7, <1>8, <1>9, <1>19, <1>20, StepStays
-----------------------------------------------------------------------------
(* The look-up of a batch: what it leaves to insert and to replace.        *)
LEMMA FreshIs ==
  ASSUME SeqInv, NEW j \in Jobs, NEW s, s = D!Ascending(D!InBatch(j) \ D!Found(j))
  PROVE  /\ s \in Seq(Nat) /\ OnceEach(s) /\ Cardinality(D!Found(j)) \in Nat
         /\ Len(s) = (D!End(j) - offset[j]) - Cardinality(D!Found(j))
         /\ \A n \in 1 .. Len(s) : s[n] \in D!InBatch(j) /\ ~D!Known(j, s[n])
         /\ \A r \in D!InBatch(j) : D!Known(j, r) \/ \E n \in 1 .. Len(s) : s[n] = r
<1>1. plan \in Plans /\ offset[j] \in Nat /\ offset[j] <= D!Length(j)
  BY JobIs
<1>2. /\ D!InBatch(j) \in SUBSET Nat /\ IsFiniteSet(D!InBatch(j))
      /\ Cardinality(D!InBatch(j)) = D!End(j) - offset[j]
  BY <1>1, BatchIs
<1>3. D!Found(j) \in SUBSET D!InBatch(j)
  BY DEF D!Found
<1>4. IsFiniteSet(D!Found(j))
  BY <1>2, <1>3, FS_Subset
<1>5. Cardinality(D!Found(j)) \in Nat
  BY <1>4, FS_CardinalityType
<1> DEFINE T == D!InBatch(j) \ D!Found(j)
<1>6. IsFiniteSet(T) /\ Cardinality(T) = Cardinality(D!InBatch(j)) - Cardinality(D!InBatch(j) \cap D!Found(j))
  BY <1>2, FS_Difference
<1>7. D!InBatch(j) \cap D!Found(j) = D!Found(j)
  BY <1>3
<1>8. T \in SUBSET Nat
  BY <1>2
<1>9. \A r : r \in T <=> r \in D!InBatch(j) /\ ~D!Known(j, r)
  BY DEF D!Found
<1> HIDE DEF T
<1>10. /\ D!Ascending(T) \in Seq(Nat) /\ Len(D!Ascending(T)) = Cardinality(T)
       /\ OnceEach(D!Ascending(T))
       /\ \A n \in 1 .. Cardinality(T) : D!Ascending(T)[n] \in T
       /\ \A r \in T : \E n \in 1 .. Cardinality(T) : D!Ascending(T)[n] = r
  BY <1>6, <1>8, AscendingIs
<1>11. s = D!Ascending(T)
  BY DEF T
<1>12. Len(s) = (D!End(j) - offset[j]) - Cardinality(D!Found(j))
  BY <1>2, <1>6, <1>7, <1>10, <1>11
<1> QED
  BY <1>5, <1>9, <1>10, <1>11, <1>12

LEMMA ResolveIs ==
  ASSUME SeqInv, NEW j \in Jobs, NEW i, D!Known(j, i), plan[j].strategy # "skip",
         NEW d, d = D!Resolve(j, i)
  PROVE  /\ d.key = D!Row(j, i).key /\ d.key # NoKey /\ D!Having(d.key) # {}
         /\ NoOverwrite => Spared(d)
<1>1. d.key = D!Row(j, i).key
  BY DEF D!Resolve, D!Overlay
<1>2. d.key # NoKey /\ D!Having(d.key) # {}
  BY <1>1 DEF D!Known
<1>3. ASSUME NoOverwrite PROVE Spared(d)
  <2>1. plan[j].strategy = "merge"
    <3>1. plan[j].strategy \in D!Strategies
      BY JobIs, PlanIs
    <3> QED
      BY <1>3, <3>1 DEF NoOverwrite, D!Strategies
  <2>2. d = D!Overlay(D!Row(j, i), coll[D!FirstOf(d.key)])
    BY <1>1, <2>1 DEF D!Resolve
  <2>3. DOMAIN coll[D!FirstOf(d.key)].fields \subseteq DOMAIN d.fields
    BY <2>2 DEF D!Overlay
  <2> SUFFICES ASSUME NEW m \in 1 .. Len(Stored), m = D!FirstOf(d.key)
               PROVE  DOMAIN Stored[m].fields \subseteq DOMAIN d.fields
    BY DEF Spared
  <2>4. DOMAIN Stored[m].fields \subseteq DOMAIN coll[m].fields
    BY <1>3 DEF SeqInv, Kept
  <2> QED
    BY <2>3, <2>4
<1> QED
  BY <1>1, <1>2, <1>3

LEMMA ReplacementsAre ==
  ASSUME SeqInv, NEW j \in Jobs, plan[j].strategy # "skip", NEW u, u = D!Replacements(j)
  PROVE  /\ IsList(u) /\ Len(u) = Cardinality(D!Found(j))
         /\ \A n \in 1 .. Len(u) : /\ u[n].key # NoKey /\ D!Having(u[n].key) # {}
                                   /\ NoOverwrite => Spared(u[n])
<1>1. plan \in Plans /\ offset[j] \in Nat /\ offset[j] <= D!Length(j)
  BY JobIs
<1>2. D!InBatch(j) \in SUBSET Nat /\ IsFiniteSet(D!InBatch(j))
  BY <1>1, BatchIs
<1>3. D!Found(j) \in SUBSET D!InBatch(j) /\ \A r \in D!Found(j) : D!Known(j, r)
  BY DEF D!Found
<1>4. IsFiniteSet(D!Found(j)) /\ D!Found(j) \in SUBSET Nat
  BY <1>2, <1>3, FS_Subset
<1> DEFINE s == D!Ascending(D!Found(j))
           c == Cardinality(D!Found(j))
<1>5. /\ s \in Seq(Nat) /\ Len(s) = c /\ c \in Nat
      /\ \A n \in 1 .. c : s[n] \in D!Found(j)
  BY <1>4, AscendingIs
<1>6. DOMAIN s = 1 .. c
  BY <1>5
<1>7. u = [n \in 1 .. c |-> D!Resolve(j, s[n])]
  BY <1>6 DEF D!Replacements
<1> HIDE DEF s, c
<1>8. DOMAIN u = 1 .. c /\ u = [n \in 1 .. c |-> u[n]]
  BY <1>7
<1>9. IsList(u) /\ Len(u) = c
  BY <1>5, <1>8, ListBuilt
<1>10. ASSUME NEW n \in 1 .. c
       PROVE  u[n].key # NoKey /\ D!Having(u[n].key) # {} /\ (NoOverwrite => Spared(u[n]))
  <2>1. u[n] = D!Resolve(j, s[n]) /\ D!Known(j, s[n])
    BY <1>3, <1>5, <1>7
  <2> QED
    BY <2>1, ResolveIs
<1> QED
  BY <1>9, <1>10 DEF c

LEMMA CheckKeeps == ASSUME SeqInv, NEW j \in Jobs, D!CheckBatch(j) PROVE SeqInv'
<1> DEFINE skip == plan[j].strategy = "skip"
           skips == IF skip THEN Cardinality(D!Found(j)) ELSE 0
           s == D!Ascending(D!InBatch(j) \ D!Found(j))
           u == IF skip THEN <<>> ELSE D!Replacements(j)
<1>0. /\ step[j] = "check" /\ D!Goto(j, "insert")
      /\ inserts' = [inserts EXCEPT ![j] = s] /\ puts' = [puts EXCEPT ![j] = u]
      /\ D!Count(j, 0, 0, skips, 0)
      /\ UNCHANGED <<coll, plan, offset, dead>>
  BY DNumber DEF D!CheckBatch
<1>1. /\ step \in [Jobs -> Steps] /\ tally \in [Jobs -> Tallies] /\ offset \in [Jobs -> Nat]
      /\ offset[j] \in Nat /\ D!End(j) \in Nat /\ offset[j] <= D!End(j) /\ D!End(j) <= D!Length(j)
      /\ D!Length(j) \in Nat /\ plan \in Plans /\ PerJob(j) /\ tally[j] \in Tallies
  BY JobIs
<1>2. /\ s \in Seq(Nat) /\ OnceEach(s) /\ Cardinality(D!Found(j)) \in Nat
      /\ Len(s) = (D!End(j) - offset[j]) - Cardinality(D!Found(j))
      /\ \A n \in 1 .. Len(s) : s[n] \in D!InBatch(j) /\ ~D!Known(j, s[n])
      /\ \A r \in D!InBatch(j) : D!Known(j, r) \/ \E n \in 1 .. Len(s) : s[n] = r
  BY FreshIs
<1>3. /\ IsList(u) /\ skips \in Nat /\ skips + Len(u) = Cardinality(D!Found(j))
      /\ skip => u = <<>> /\ Len(u) = 0
      /\ \A n \in 1 .. Len(u) : /\ ~skip /\ u[n].key # NoKey /\ D!Having(u[n].key) # {}
                                /\ NoOverwrite => Spared(u[n])
  <2>1. CASE skip
    BY <1>2, <2>1, NoneLeft
  <2>2. CASE ~skip
    <3>1. u = D!Replacements(j) /\ skips = 0
      BY <2>2
    <3>2. /\ IsList(u) /\ Len(u) = Cardinality(D!Found(j))
          /\ \A n \in 1 .. Len(u) : /\ u[n].key # NoKey /\ D!Having(u[n].key) # {}
                                    /\ NoOverwrite => Spared(u[n])
      <4> HIDE DEF u
      <4> QED
        BY <2>2, <3>1, ReplacementsAre
    <3> HIDE DEF u, skips
    <3> QED
      BY <1>2, <2>2, <3>1, <3>2
  <2> QED
    BY <2>1, <2>2
<1> HIDE DEF s, u, skips
<1>4. "insert" \in Steps /\ 0 \in Nat
  BY DEF Steps, InABatch
<1>5. step' \in [Jobs -> Steps] /\ step'[j] = "insert" /\ \A i \in Jobs : i # j => step'[i] = step[i]
  BY <1>0, <1>1, <1>4, GoesTo
<1>6. /\ tally' \in [Jobs -> Tallies] /\ \A i \in Jobs : i # j => tally'[i] = tally[i]
      /\ tally'[j].processed = tally[j].processed + 0
      /\ tally'[j].inserted = tally[j].inserted + 0
      /\ tally'[j].skipped = tally[j].skipped + skips
      /\ tally'[j].failed = tally[j].failed + 0
  BY <1>0, <1>1, <1>3, <1>4, Counts
<1>7. /\ inserts' \in [Jobs -> Seq(Nat)] /\ inserts'[j] = s
      /\ \A i \in Jobs : i # j => inserts'[i] = inserts[i]
  BY <1>0, <1>2 DEF SeqInv, SeqShape
<1>8. /\ DOMAIN puts' = Jobs /\ puts' = [i \in Jobs |-> puts'[i]] /\ puts'[j] = u
      /\ \A i \in Jobs : i # j => puts'[i] = puts[i]
  BY <1>0 DEF SeqInv, SeqShape
<1>9. \A i \in Jobs : IsList(puts'[i])
  BY <1>3, <1>8 DEF SeqInv, SeqShape
<1>10. SeqShape'
  BY <1>0, <1>5, <1>6, <1>7, <1>8, <1>9, LengthStays DEF SeqInv, SeqShape
<1>11. Grows /\ Kept' /\ Len(coll') = Len(coll) /\ Added' = Added
  BY <1>0, Quiet
<1>12. \A i \in Jobs : i # j => Unmoved(i)
  BY <1>0, <1>5, <1>6, <1>7, <1>8 DEF Unmoved
<1>13. D!Length(j)' = D!Length(j) /\ D!End(j)' = D!End(j) /\ D!InBatch(j)' = D!InBatch(j) /\ \A r : D!Row(j, r)' = D!Row(j, r)
  BY <1>0, LengthStays, BatchStays
<1>14. offset[j] < D!Length(j) /\ inserts[j] = <<>> /\ puts[j] = <<>>
  BY <1>0, <1>1 DEF PerJob, Placed, Waits, InABatch
<1>15. Placed(j)'
  <2>1. Rounded(offset[j])' <=> Rounded(offset[j])
    BY <1>0
  <2> QED
    BY <1>0, <1>1, <1>5, <1>13, <1>14, <2>1 DEF PerJob, Placed
<1>16. Waits(j)'
  BY <1>2, <1>5, <1>7, <1>13 DEF Waits
<1>17. Adds(j)'
  <2>1. /\ tally[j].processed = offset[j]
        /\ offset[j] <= tally[j].inserted + tally[j].skipped + tally[j].failed
        /\ tally[j].inserted + tally[j].skipped + tally[j].failed + 0 + 0 = offset[j]
    BY <1>0, <1>1, <1>14, NoneLeft DEF PerJob, Adds
  <2>2. /\ tally[j].inserted \in Nat /\ tally[j].skipped \in Nat /\ tally[j].failed \in Nat
    BY <1>1 DEF Tallies
  <2>3. Len(u) \in Nat
    BY <1>3, ListIs
  <2>4. /\ offset[j] <= tally'[j].inserted + tally'[j].skipped + tally'[j].failed
        /\ tally'[j].inserted + tally'[j].skipped + tally'[j].failed + Len(s) + Len(u) = D!End(j)
        /\ tally'[j].processed = offset[j]
    <3>4. Len(s) \in Nat
      BY <1>2
    <3>1. /\ skips + Len(u) = Cardinality(D!Found(j)) /\ Cardinality(D!Found(j)) \in Nat
          /\ Len(s) = (D!End(j) - offset[j]) - Cardinality(D!Found(j)) /\ skips \in Nat
      BY <1>2, <1>3
    <3>2. /\ tally'[j].inserted = tally[j].inserted /\ tally'[j].skipped = tally[j].skipped + skips
          /\ tally'[j].failed = tally[j].failed /\ tally'[j].processed = offset[j]
      BY <1>1, <1>6, <2>1, <2>2
    <3>3. offset[j] \in Nat /\ D!End(j) \in Nat
      BY <1>1
    <3>5. /\ offset[j] <= tally[j].inserted + (tally[j].skipped + skips) + tally[j].failed
          /\ tally[j].inserted + (tally[j].skipped + skips) + tally[j].failed + Len(s) + Len(u) = D!End(j)
      <4>1. skips \in Nat /\ tally[j].inserted + tally[j].skipped + tally[j].failed = offset[j]
        BY <2>1, <2>2, <3>1
      <4>2. tally[j].inserted + (tally[j].skipped + skips) + tally[j].failed = offset[j] + skips
        BY <2>2, <4>1
      <4>3. offset[j] <= offset[j] + skips
        BY <3>3, <4>1
      <4>4. (offset[j] + skips) + Len(s) + Len(u) = D!End(j)
        BY <2>3, <3>1, <3>3, <3>4
      <4> QED
        BY <4>2, <4>3, <4>4
    <3> QED
      BY <3>2, <3>5
  <2> QED
    BY <1>0, <1>5, <1>7, <1>8, <1>13, <2>4 DEF Adds
<1>18. \A k : D!Having(k)' = D!Having(k) /\ D!FirstOf(k)' = D!FirstOf(k)
  BY <1>0 DEF D!Having, D!FirstOf
<1>19. PutsFit(j)'
  <2>1. NoOverwrite' <=> NoOverwrite
    BY <1>0 DEF NoOverwrite
  <2>2. \A d : Spared(d)' <=> Spared(d)
    BY <1>18 DEF Spared
  <2> QED
    BY <1>0, <1>3, <1>8, <1>18, <2>1, <2>2 DEF PutsFit
<1>20. tally'[j].failed = tally[j].failed /\ Dealt(j) = offset[j] /\ Dealt(j)' = offset[j]
  BY <1>0, <1>1, <1>5, <1>6 DEF Tallies, Dealt
<1>21. Provided(j)'
  <2>1. tally[j].failed = 0 => \A r \in 1 .. offset[j] : D!Having(D!Row(j, r).key) # {}
    BY <1>1, <1>20 DEF PerJob, Provided
  <2>2. \A r \in D!InBatch(j) :
          \/ \E n \in 1 .. Len(s) : s[n] = r
          \/ D!Row(j, r).key # NoKey /\ D!Having(D!Row(j, r).key) # {}
    BY <1>2 DEF D!Known
  <2> QED
    BY <1>7, <1>13, <1>18, <1>20, <2>1, <2>2 DEF Provided
<1>22. PerJob(j)'
  BY <1>15, <1>16, <1>17, <1>19, <1>21 DEF PerJob
<1>23. OwnersFit(j)
  BY <1>1, <1>20 DEF OwnersFit
<1>24. ASSUME NEW w PROVE OwnsNone(w, j)'
  <2>1. ASSUME NEW k, D!Having(k) = {} PROVE Unowned(w, j, k)
    <3>1. /\ DOMAIN coll = 1 .. Len(coll) /\ Len(coll) \in Nat /\ Len(Stored) \in Nat
          /\ Len(Stored) <= Len(coll) /\ \A m \in 1 .. Len(Stored) : coll[m].key = Stored[m].key
      BY <1>1, ListIs, PlanIs DEF SeqInv, SeqShape, KeysStay
    <3>2. \A m \in 1 .. Len(coll) : coll[m].key # k
      BY <2>1, <3>1 DEF D!Having
    <3> QED
      BY <3>1, <3>2 DEF Unowned, Added
  <2>2. \A k : Unowned(w, j, k)' <=> Unowned(w, j, k)
    BY <1>0, <1>11 DEF Unowned
  <2>3. ASSUME NEW n \in 1 .. Len(s), D!Row(j, s[n]).key # NoKey PROVE Unowned(w, j, D!Row(j, s[n]).key)
    BY <1>2, <2>1, <2>3 DEF D!Known
  <2> QED
    BY <1>7, <1>13, <2>2, <2>3 DEF OwnsNone
<1>25. \A w : OwnersTake(w, j)
  BY <1>24 DEF OwnersTake
<1> QED
  BY <1>10, <1>11, <1>12, <1>22, <1>23, <1>25, StepStays
-----------------------------------------------------------------------------
(* One replacement: it lands on the first document of its key, which keeps *)
(* its place and its key.                                                  *)
LEMMA ReplacedIs ==
  ASSUME SeqInv, NEW j \in Jobs, NEW n \in 1 .. Len(puts[j]), NEW d, d = puts[j][n],
         coll' = D!Replaced(d), plan' = plan
  PROVE  Grows /\ Len(coll') = Len(coll) /\ Kept'
<1>1. /\ plan[j].strategy # "skip" /\ d.key # NoKey /\ D!Having(d.key) # {}
      /\ NoOverwrite => Spared(d)
  BY DEF SeqInv, PutsFit
<1> DEFINE h == D!FirstOf(d.key)
<1>2. IsList(coll)
  BY DEF SeqInv, SeqShape
<1>3. h \in 1 .. Len(coll) /\ coll[h].key = d.key
  <2>1. HavingIn(d.key, coll) # {} /\ h = FirstIn(d.key, coll)
    BY <1>1, KeysIn
  <2>2. FirstIn(d.key, coll) \in 1 .. Len(coll) /\ coll[FirstIn(d.key, coll)].key = d.key
    BY <1>2, <2>1, FirstIs
  <2> QED
    BY <2>1, <2>2
<1>4. coll' = PutAt(coll, h, d)
  BY DEF D!Replaced, PutAt
<1> HIDE DEF h
<1>5. /\ IsList(coll') /\ Len(coll') = Len(coll) /\ coll'[h] = d
      /\ \A m \in 1 .. Len(coll) : m # h => coll'[m] = coll[m]
  BY <1>2, <1>3, <1>4, ListPut
<1>6. Grows
  <2>1. Len(coll) \in Nat
    BY <1>2, ListIs
  <2>2. \A m \in 1 .. Len(coll) : coll'[m].key = coll[m].key
    BY <1>3, <1>5
  <2> QED
    BY <1>2, <1>5, <2>1, <2>2 DEF Grows, Lengthens
<1>7. Kept'
  <2> SUFFICES ASSUME NoOverwrite, NEW m \in 1 .. Len(Stored)
               PROVE  /\ DOMAIN Stored[m].fields \subseteq DOMAIN coll'[m].fields
                      /\ AllSkip => coll'[m] = Stored[m]
    BY DEF Kept, NoOverwrite, AllSkip
  <2>1. ~AllSkip
    BY <1>1 DEF AllSkip
  <2>2. CASE m = h
    BY <1>1, <1>5, <2>1, <2>2 DEF Spared, h
  <2>3. CASE m # h
    <3>1. m \in 1 .. Len(coll)
      <4>1. Len(Stored) \in Nat /\ Len(coll) \in Nat /\ Len(Stored) <= Len(coll)
        BY <1>2, JobIs, PlanIs, ListIs DEF SeqInv, KeysStay
      <4> QED
        BY <4>1
    <3> QED
      BY <1>5, <2>1, <2>3, <3>1 DEF SeqInv, Kept
  <2> QED
    BY <2>2, <2>3
<1> QED
  BY <1>5, <1>6, <1>7

LEMMA ThreeAdd == \A p \in Nat : \A q \in Nat : \A r \in Nat : p + q + r \in Nat
OBVIOUS

LEMMA OneOver ==
  \A p \in Nat : \A q \in Nat : \A r \in Nat : p + q + (r + 1) = (p + 1) + q + r
OBVIOUS

LEMMA ReplaceKeeps == ASSUME SeqInv, NEW j \in Jobs, D!Replace(j) PROVE SeqInv'
<1>0. /\ step[j] = "replace" /\ puts[j] # <<>> /\ puts' = [puts EXCEPT ![j] = Tail(puts[j])]
      /\ \/ coll' = D!Replaced(Head(puts[j])) /\ D!Count(j, 0, 1, 0, 0)
         \/ D!Count(j, 0, 0, 0, 1) /\ coll' = coll
      /\ UNCHANGED <<plan, step, offset, inserts, dead>>
  BY DEF D!Replace
<1>1. /\ step \in [Jobs -> Steps] /\ tally \in [Jobs -> Tallies]
      /\ offset[j] \in Nat /\ D!End(j) \in Nat /\ offset[j] <= D!End(j)
      /\ PerJob(j) /\ tally[j] \in Tallies /\ IsList(puts[j])
  BY JobIs
<1> DEFINE u == Tail(puts[j])
<1>2. /\ IsList(u) /\ Len(puts[j]) \in Nat \ {0} /\ Len(u) = Len(puts[j]) - 1
      /\ Head(puts[j]) = puts[j][1] /\ \A n \in 1 .. Len(u) : u[n] = puts[j][n + 1]
  BY <1>0, <1>1, ListRest
<1> HIDE DEF u
<1>3. /\ DOMAIN puts' = Jobs /\ puts' = [i \in Jobs |-> puts'[i]] /\ puts'[j] = u
      /\ \A i \in Jobs : i # j => puts'[i] = puts[i]
  BY <1>0 DEF SeqInv, SeqShape, u
<1>4. Grows /\ Len(coll') = Len(coll) /\ Kept'
  <2>1. CASE coll' = coll
    BY <1>0, <2>1, Quiet
  <2>2. CASE coll' = D!Replaced(Head(puts[j]))
    <3>1. 1 \in 1 .. Len(puts[j])
      BY <1>2
    <3> QED
      BY <1>0, <1>2, <2>2, <3>1, ReplacedIs
  <2> QED
    BY <1>0, <2>1, <2>2
<1>5. 0 \in Nat /\ 1 \in Nat
  OBVIOUS
<1>6. /\ tally' \in [Jobs -> Tallies] /\ \A i \in Jobs : i # j => tally'[i] = tally[i]
      /\ tally'[j].processed = tally[j].processed + 0
      /\ tally'[j].skipped = tally[j].skipped + 0
      /\ \/ tally'[j].inserted = tally[j].inserted + 1 /\ tally'[j].failed = tally[j].failed + 0
         \/ tally'[j].inserted = tally[j].inserted + 0 /\ tally'[j].failed = tally[j].failed + 1
  <2>1. CASE D!Count(j, 0, 1, 0, 0)
    BY <1>1, <1>5, <2>1, Counts
  <2>2. CASE D!Count(j, 0, 0, 0, 1)
    BY <1>1, <1>5, <2>2, Counts
  <2> QED
    BY <1>0, <2>1, <2>2
<1>7. \A i \in Jobs : IsList(puts'[i])
  BY <1>2, <1>3 DEF SeqInv, SeqShape
<1>8. SeqShape'
  BY <1>0, <1>3, <1>4, <1>6, <1>7, LengthStays DEF SeqInv, SeqShape, Grows
<1>9. \A i \in Jobs : i # j => Unmoved(i)
  BY <1>0, <1>3, <1>6 DEF Unmoved
<1>10. /\ D!Length(j)' = D!Length(j) /\ D!End(j)' = D!End(j) /\ D!InBatch(j)' = D!InBatch(j)
       /\ \A r : D!Row(j, r)' = D!Row(j, r)
  BY <1>0, LengthStays, BatchStays
<1>11. Placed(j)'
  <2>1. Rounded(offset[j])' <=> Rounded(offset[j])
    BY <1>0
  <2> QED
    BY <1>0, <1>1, <1>10, <2>1 DEF PerJob, Placed
<1>12. Waits(j)'
  <2>1. step'[j] = "replace" /\ inserts'[j] = <<>>
    BY <1>0, <1>1 DEF PerJob, Waits
  <2> QED
    BY <2>1, NoneLeft DEF Waits, OnceEach
<1>13. Adds(j)'
  <2>1. /\ tally[j].processed = offset[j]
        /\ offset[j] <= tally[j].inserted + tally[j].skipped + tally[j].failed
        /\ tally[j].inserted + tally[j].skipped + tally[j].failed + Len(inserts[j]) + Len(puts[j]) = D!End(j)
    BY <1>0, <1>1 DEF PerJob, Adds
  <2>2. /\ tally[j].inserted \in Nat /\ tally[j].skipped \in Nat /\ tally[j].failed \in Nat
        /\ Len(inserts[j]) \in Nat
    BY <1>1, JobIs DEF Tallies
  <2>3. /\ tally'[j].processed = offset[j] /\ tally'[j].skipped = tally[j].skipped
    BY <1>1, <1>6, <2>1, <2>2
  <2>4. tally'[j].inserted + tally'[j].skipped + tally'[j].failed =
          tally[j].inserted + tally[j].skipped + tally[j].failed + 1
    <3>1. CASE tally'[j].inserted = tally[j].inserted + 1 /\ tally'[j].failed = tally[j].failed + 0
      <4>1. tally'[j].inserted = tally[j].inserted + 1 /\ tally'[j].failed = tally[j].failed
        BY <2>2, <3>1
      <4> QED
        BY <2>2, <2>3, <4>1
    <3>2. CASE tally'[j].inserted = tally[j].inserted + 0 /\ tally'[j].failed = tally[j].failed + 1
      <4>1. tally'[j].inserted = tally[j].inserted /\ tally'[j].failed = tally[j].failed + 1
        BY <2>2, <3>2
      <4> QED
        BY <2>2, <2>3, <4>1
    <3> QED
      BY <1>6, <3>1, <3>2
  <2>5. Len(u) = Len(puts[j]) - 1 /\ Len(puts[j]) \in Nat /\ offset[j] \in Nat /\ D!End(j) \in Nat
    BY <1>1, <1>2
  <2> DEFINE c == tally[j].inserted + tally[j].skipped + tally[j].failed
  <2>6. c \in Nat
    BY <2>2, ThreeAdd
  <2>7. offset[j] <= c + 1 /\ (c + 1) + Len(inserts[j]) + Len(u) = D!End(j)
    <3>1. offset[j] <= c /\ c + Len(inserts[j]) + Len(puts[j]) = D!End(j)
      BY <2>1
    <3> HIDE DEF c
    <3> QED
      <4>1. offset[j] <= c + 1
        BY <2>5, <2>6, <3>1
      <4>2. Len(inserts[j]) \in Nat
        BY <2>2
      <4>3. c + Len(inserts[j]) + (Len(u) + 1) = D!End(j)
        BY <2>5, <3>1
      <4>4. Len(u) \in Nat
        BY <2>5
      <4>5. (c + 1) + Len(inserts[j]) + Len(u) = D!End(j)
        BY <2>6, <4>2, <4>3, <4>4, OneOver
      <4> QED
        BY <4>1, <4>5
  <2> QED
    BY <1>0, <1>3, <1>10, <2>3, <2>4, <2>7 DEF Adds
<1>14. PutsFit(j)'
  <2> SUFFICES ASSUME NEW n \in 1 .. Len(u), NEW d, d = u[n]
               PROVE  /\ plan[j].strategy # "skip" /\ d.key # NoKey /\ D!Having(d.key)' # {}
                      /\ NoOverwrite' => Spared(d)'
    BY <1>0, <1>3 DEF PutsFit
  <2>1. n + 1 \in 1 .. Len(puts[j]) /\ d = puts[j][n + 1]
    BY <1>2
  <2>2. PutsFit(j)
    BY <1>1 DEF PerJob
  <2> QED
    BY <1>4, <2>1, <2>2, PutsStay
<1>15. Dealt(j)' = Dealt(j)
  BY <1>0, DoneStays
<1>16. tally'[j].failed = 0 => tally[j].failed = 0
  BY <1>1, <1>6 DEF Tallies
<1>17. Provided(j)'
  <2>1. \A k : D!Having(k) # {} => D!Having(k)' # {}
    BY <1>4, Grown DEF Grows
  <2>2. tally[j].failed = 0 => \A r \in 1 .. Dealt(j) : D!Having(D!Row(j, r).key) # {}
    BY <1>1 DEF PerJob, Provided
  <2>3. tally[j].failed = 0 => \A r \in 1 .. Dealt(j) : D!Having(D!Row(j, r).key)' # {}
    BY <1>10, <2>1, <2>2
  <2>4. step'[j] # "insert"
    BY <1>0
  <2> QED
    BY <1>10, <1>15, <1>16, <2>3, <2>4 DEF Provided
<1>18. PerJob(j)'
  BY <1>11, <1>12, <1>13, <1>14, <1>17 DEF PerJob
<1>19. OwnersFit(j) /\ \A w : OwnersTake(w, j)
  <2>1. Dealt(j) \in Nat
    BY JobIs, DoneIs
  <2> QED
    BY <1>0, <1>15, <1>16, <2>1 DEF OwnersFit, OwnersTake
<1> QED
  BY <1>4, <1>8, <1>9, <1>18, <1>19, StepStays
-----------------------------------------------------------------------------
(* Documents that are added come last.                                     *)
LEMMA AppendIs ==
  ASSUME SeqInv, NEW j \in Jobs, NEW n \in 0 .. Len(inserts[j]),
         coll' = coll \o D!Take(j, n), plan' = plan
  PROVE  /\ Grows /\ Kept' /\ Len(coll') = Len(coll) + n
         /\ \A i \in 1 .. Len(coll) : coll'[i] = coll[i]
         /\ \A i \in 1 .. n : coll'[Len(coll) + i] = D!Row(j, inserts[j][i])
<1> DEFINE u == D!Take(j, n)
<1>1. IsList(coll) /\ Len(coll) \in Nat /\ n \in Nat
  BY JobIs, ListIs DEF SeqInv, SeqShape
<1>2. u = [i \in 1 .. n |-> D!Row(j, inserts[j][i])]
  BY DEF D!Take
<1>3. DOMAIN u = 1 .. n /\ u = [i \in 1 .. n |-> u[i]] /\ \A i \in 1 .. n : u[i] = D!Row(j, inserts[j][i])
  BY <1>2
<1>4. coll' = Join(coll, u)
  BY DEF Join
<1> HIDE DEF u
<1>5. IsList(u) /\ Len(u) = n
  BY <1>1, <1>3, ListBuilt
<1>6. /\ IsList(coll') /\ Len(coll') = Len(coll) + n
      /\ \A i \in 1 .. Len(coll) : coll'[i] = coll[i]
      /\ \A i \in 1 .. n : coll'[Len(coll) + i] = u[i]
  <2>1. /\ IsList(coll') /\ Len(coll') = Len(coll) + Len(u)
        /\ \A i \in 1 .. Len(coll) : coll'[i] = coll[i]
        /\ \A i \in 1 .. Len(u) : coll'[Len(coll) + i] = u[i]
    BY <1>1, <1>4, <1>5, ListJoins
  <2> QED
    BY <1>5, <2>1
<1>7. Grows
  <2>1. Len(coll) <= Len(coll')
    BY <1>1, <1>6
  <2> QED
    BY <1>1, <1>6, <2>1 DEF Grows, Lengthens
<1>8. Kept'
  <2> SUFFICES ASSUME NoOverwrite, NEW m \in 1 .. Len(Stored)
               PROVE  /\ DOMAIN Stored[m].fields \subseteq DOMAIN coll'[m].fields
                      /\ AllSkip => coll'[m] = Stored[m]
    BY DEF Kept, NoOverwrite, AllSkip
  <2>1. m \in 1 .. Len(coll)
    <3>1. Len(Stored) \in Nat /\ Len(Stored) <= Len(coll)
      BY JobIs, PlanIs DEF SeqInv, KeysStay
    <3> QED
      BY <1>1, <3>1
  <2> QED
    BY <1>6, <2>1 DEF SeqInv, Kept
<1> QED
  BY <1>3, <1>6, <1>7, <1>8

(* The new documents belong to the rows they are made of.                  *)
LEMMA OwnersJoin ==
  ASSUME SeqInv, NEW j \in Jobs, NEW n \in 0 .. Len(inserts[j]),
         coll' = coll \o D!Take(j, n), plan' = plan, step[j] = "insert", step'[j] = "replace",
         offset'[j] = offset[j], inserts'[j] = <<>>,
         tally'[j].failed = 0 => tally[j].failed = 0 /\ n = Len(inserts[j]),
         \A i \in Jobs : i # j => Unmoved(i)
  PROVE  Owned'
<1> DEFINE c == Len(coll)
<1>1. PICK w : Own(w)
  BY DEF SeqInv, Owned
<1>2. /\ Len(coll') = c + n /\ \A i \in 1 .. c : coll'[i] = coll[i]
      /\ \A i \in 1 .. n : coll'[c + i] = D!Row(j, inserts[j][i])
  BY AppendIs
<1>3. /\ c \in Nat /\ Len(Stored) \in Nat /\ Len(Stored) <= c /\ n \in Nat
      /\ Len(inserts[j]) \in Nat
  BY JobIs, PlanIs, ListIs DEF SeqInv, SeqShape, KeysStay
<1>4. /\ plan \in Plans /\ offset[j] \in Nat /\ D!End(j) \in Nat /\ offset[j] <= D!End(j)
      /\ D!End(j) <= D!Length(j) /\ D!Length(j) \in Nat /\ inserts[j] \in Seq(Nat) /\ PerJob(j)
      /\ offset[j] <= D!Length(j)
  BY JobIs
<1> HIDE DEF c
<1>5. Added = Len(Stored) + 1 .. c /\ Added' = Len(Stored) + 1 .. c + n
  BY <1>2 DEF Added, c
<1>6. /\ \A i \in Added' : i \in Added \/ \E h \in 1 .. n : i = c + h
      /\ \A h \in 1 .. n : c + h \in Added' /\ c + h \notin Added
      /\ \A i \in Added : i \in Added' /\ i \in 1 .. c
  <2>1. ASSUME NEW i \in Added', i \notin Added PROVE \E h \in 1 .. n : i = c + h
    <3>1. i - c \in 1 .. n /\ i = c + (i - c)
      BY <1>3, <1>5, <2>1
    <3> QED
      BY <3>1
  <2>2. \A h \in 1 .. n : c + h \in Added' /\ c + h \notin Added
    BY <1>3, <1>5
  <2>3. \A i \in Added : i \in Added' /\ i \in 1 .. c
    BY <1>3, <1>5
  <2> QED
    BY <2>1, <2>2, <2>3
<1>7. /\ \A h \in 1 .. n : inserts[j][h] \in Nat /\ inserts[j][h] \in D!InBatch(j)
      /\ \A g \in 1 .. n : \A h \in 1 .. n : g # h => inserts[j][g] # inserts[j][h]
  <2>1. \A h \in 1 .. n : h \in 1 .. Len(inserts[j])
    BY <1>3
  <2> QED
    BY <1>4, <2>1 DEF PerJob, Waits, OnceEach
<1>8. \A r \in D!InBatch(j) : r \in 1 .. D!End(j) /\ offset[j] < r
  BY <1>4 DEF D!InBatch
<1>9. Dealt(j) = offset[j] /\ Dealt(j)' = D!End(j)
  <2>1. D!End(j)' = D!End(j)
    BY BatchStays
  <2> QED
    BY <2>1 DEF Dealt
<1>10. \A i \in Jobs : i # j => Dealt(i)' = Dealt(i) /\ inserts'[i] = inserts[i] /\ tally'[i] = tally[i]
  BY DoneStays DEF Unmoved
<1>11. \A i \in Jobs : D!Length(i)' = D!Length(i) /\ \A r : D!Row(i, r)' = D!Row(i, r)
  BY LengthStays
<1>12. w \in [Added -> Jobs \X Nat]
  BY <1>1 DEF Own
<1>0. PICK v : v = [i \in Added' |-> IF i \in Added THEN w[i] ELSE <<j, inserts[j][i - c]>>]
  OBVIOUS
<1>13. /\ \A i \in Added : v[i] = w[i]
       /\ \A h \in 1 .. n : v[c + h] = <<j, inserts[j][h]>>
  <2>1. \A i \in Added : v[i] = w[i]
    BY <1>0, <1>6
  <2>2. ASSUME NEW h \in 1 .. n PROVE v[c + h] = <<j, inserts[j][h]>>
    <3>1. (c + h) - c = h /\ c + h \in Added' /\ c + h \notin Added
      BY <1>3, <1>6
    <3> QED
      BY <1>0, <3>1
  <2> QED
    BY <2>1, <2>2
<1>14. v \in [Added' -> Jobs \X Nat]
  <2>1. \A i \in Added' : v[i] \in Jobs \X Nat
    <3> SUFFICES ASSUME NEW i \in Added' PROVE v[i] \in Jobs \X Nat
      OBVIOUS
    <3>1. CASE i \in Added
      BY <1>12, <1>13, <3>1
    <3>2. CASE i \notin Added
      <4>1. PICK h \in 1 .. n : i = c + h
        BY <1>6, <3>2
      <4>2. v[i] = <<j, inserts[j][h]>> /\ inserts[j][h] \in Nat
        BY <1>7, <1>13, <4>1
      <4> QED
        BY <4>2
    <3> QED
      BY <3>1, <3>2
  <2> QED
    BY <1>0, <2>1
<1>15. \A i \in Added : coll'[i] = coll[i] /\ w[i][1] \in Jobs /\ w[i][2] \in Nat /\ OwnsRow(w, i)
  <2>1. \A i \in Added : coll'[i] = coll[i]
    BY <1>2, <1>6
  <2> QED
    BY <1>1, <1>12, <2>1 DEF Own
<1>16. \A h \in 1 .. n : D!Row(j, inserts[j][h]).key # NoKey => Unowned(w, j, D!Row(j, inserts[j][h]).key)
  <2>1. \A h \in 1 .. n : h \in 1 .. Len(inserts[j])
    BY <1>3
  <2> QED
    BY <1>1, <2>1 DEF Own, OwnsNone
<1>17. \A i \in Added' : OwnsRow(v, i)'
  <2> SUFFICES ASSUME NEW i \in Added' PROVE OwnsRow(v, i)'
    OBVIOUS
  <2>1. CASE i \in Added
    <3>1. v[i] = w[i] /\ coll'[i] = coll[i] /\ w[i][1] \in Jobs /\ w[i][2] \in Nat /\ OwnsRow(w, i)
      BY <1>13, <1>15, <2>1
    <3>2. \A r \in 1 .. Dealt(w[i][1]) : r \in 1 .. Dealt(w[i][1])'
      <4>1. CASE w[i][1] = j
        BY <1>4, <1>9, <4>1
      <4>2. CASE w[i][1] # j
        BY <1>10, <3>1, <4>2
      <4> QED
        BY <4>1, <4>2
    <3>3. v[i][2] \in 1 .. Dealt(v[i][1])'
      BY <3>1, <3>2 DEF OwnsRow
    <3>4. D!Row(v[i][1], v[i][2])'.key = coll'[i].key
      BY <1>11, <3>1 DEF OwnsRow
    <3> QED
      BY <3>1, <3>3, <3>4 DEF OwnsRow
  <2>2. CASE i \notin Added
    <3>1. PICK h \in 1 .. n : i = c + h
      BY <1>6, <2>2
    <3>2. v[i] = <<j, inserts[j][h]>> /\ coll'[i] = D!Row(j, inserts[j][h])
      BY <1>2, <1>13, <3>1
    <3>3. v[i][1] = j /\ v[i][2] = inserts[j][h]
      BY <3>2
    <3>4. v[i][2] \in 1 .. Dealt(v[i][1])'
      BY <1>7, <1>8, <1>9, <3>3
    <3>5. D!Row(v[i][1], v[i][2])'.key = coll'[i].key
      BY <1>11, <3>2, <3>3
    <3>6. coll'[i].key # NoKey => \A m \in 1 .. Len(Stored) : Stored[m].key # coll'[i].key
      BY <1>16, <3>2 DEF Unowned
    <3> QED
      BY <3>4, <3>5, <3>6 DEF OwnsRow
  <2> QED
    BY <2>1, <2>2
<1>18. OwnsOnce(v)'
  <2>1. \A i \in Added : \A h \in Added : i # h => w[i] # w[h]
    BY <1>1 DEF Own, OwnsOnce
  <2>2. \A i \in Added : \A h \in 1 .. n : w[i] # <<j, inserts[j][h]>>
    <3> SUFFICES ASSUME NEW i \in Added, NEW h \in 1 .. n, w[i] = <<j, inserts[j][h]>> PROVE FALSE
      OBVIOUS
    <3>1. w[i][1] = j /\ w[i][2] = inserts[j][h]
      OBVIOUS
    <3>2. inserts[j][h] \in 1 .. offset[j]
      BY <1>9, <1>15, <3>1 DEF OwnsRow
    <3>3. offset[j] < inserts[j][h]
      BY <1>7, <1>8
    <3> QED
      BY <1>4, <3>2, <3>3
  <2>3. \A g \in 1 .. n : \A h \in 1 .. n : <<j, inserts[j][g]>> = <<j, inserts[j][h]>> => g = h
    BY <1>7
  <2> SUFFICES ASSUME NEW i \in Added', NEW k \in Added', v[i] = v[k] PROVE i = k
    BY DEF OwnsOnce
  <2>4. CASE i \in Added /\ k \in Added
    BY <1>13, <2>1, <2>4
  <2>5. CASE i \in Added /\ k \notin Added
    <3>1. PICK h \in 1 .. n : k = c + h
      BY <1>6, <2>5
    <3> QED
      BY <1>13, <2>2, <2>5, <3>1
  <2>6. CASE i \notin Added /\ k \in Added
    <3>1. PICK h \in 1 .. n : i = c + h
      BY <1>6, <2>6
    <3> QED
      BY <1>13, <2>2, <2>6, <3>1
  <2>7. CASE i \notin Added /\ k \notin Added
    <3>1. PICK g \in 1 .. n : i = c + g
      BY <1>6, <2>7
    <3>2. PICK h \in 1 .. n : k = c + h
      BY <1>6, <2>7
    <3>3. g = h
      BY <1>13, <2>3, <3>1, <3>2
    <3> QED
      BY <3>1, <3>2, <3>3
  <2> QED
    BY <2>4, <2>5, <2>6, <2>7
<1>19. \A i \in Jobs : OwnsTogether(v, i)'
  <2> SUFFICES ASSUME NEW i \in Jobs, NEW k, k # NoKey PROVE \E m \in 0 .. D!Length(i) : InOne(v, i, k, m)'
    BY <1>11 DEF OwnsTogether
  <2>1. PICK m \in 0 .. D!Length(i) : InOne(w, i, k, m)
    BY <1>1 DEF Own, OwnsTogether
  <2>2. CASE \E h \in 1 .. n : i = j /\ D!Row(j, inserts[j][h]).key = k
    <3>1. Unowned(w, j, k) /\ i = j
      BY <1>16, <2>2
    <3>2. PICK e \in 0 .. offset[j] : offset[j] = e * BatchSize
      <4>1. Rounded(offset[j])
        BY <1>4 DEF PerJob, Placed, InABatch
      <4> QED
        BY <4>1 DEF Rounded
    <3>3. \A h \in 1 .. n : Batched(inserts[j][h], e)
      <4> SUFFICES ASSUME NEW h \in 1 .. n PROVE Batched(inserts[j][h], e)
        OBVIOUS
      <4>1. offset[j] < inserts[j][h] /\ inserts[j][h] <= D!End(j) /\ inserts[j][h] \in Nat
        BY <1>4, <1>7, <1>8
      <4>2. D!End(j) <= offset[j] + BatchSize /\ BatchSize \in Nat
        BY <1>4, BatchIs, PlanIs
      <4>3. e \in Nat
        BY <1>4
      <4>4. (e + 1) * BatchSize = offset[j] + BatchSize
        BY <3>2, <4>3, NextBatch
      <4>5. inserts[j][h] <= offset[j] + BatchSize
        <5>1. offset[j] \in Nat /\ D!End(j) \in Nat
          BY <1>4
        <5> QED
          BY <4>1, <4>2, <5>1
      <4> QED
        BY <3>2, <4>1, <4>4, <4>5 DEF Batched
    <3>4. InOne(v, j, k, e)'
      <4> SUFFICES ASSUME NEW g \in Added', v[g][1] = j, coll'[g].key = k PROVE Batched(v[g][2], e)
        BY DEF InOne, Batched
      <4>1. CASE g \in Added
        BY <1>13, <1>15, <3>1, <4>1 DEF Unowned
      <4>2. CASE g \notin Added
        <5>1. PICK h \in 1 .. n : g = c + h
          BY <1>6, <4>2
        <5>2. v[g][2] = inserts[j][h]
          BY <1>13, <5>1
        <5> QED
          BY <3>3, <5>2
      <4> QED
        BY <4>1, <4>2
    <3>5. e \in 0 .. D!Length(i)
      BY <1>4, <3>1
    <3> QED
      BY <3>1, <3>4, <3>5
  <2>3. CASE ~(\E h \in 1 .. n : i = j /\ D!Row(j, inserts[j][h]).key = k)
    <3>1. InOne(v, i, k, m)'
      <4> SUFFICES ASSUME NEW g \in Added', v[g][1] = i, coll'[g].key = k PROVE Batched(v[g][2], m)
        BY DEF InOne, Batched
      <4>1. CASE g \in Added
        BY <1>13, <1>15, <2>1, <4>1 DEF InOne
      <4>2. CASE g \notin Added
        <5>1. PICK h \in 1 .. n : g = c + h
          BY <1>6, <4>2
        <5>2. v[g][1] = j /\ coll'[g] = D!Row(j, inserts[j][h])
          <6>1. v[c + h] = <<j, inserts[j][h]>> /\ coll'[c + h] = D!Row(j, inserts[j][h])
            BY <1>2, <1>13
          <6> QED
            BY <5>1, <6>1
        <5> QED
          BY <2>3, <5>2
      <4> QED
        BY <4>1, <4>2
    <3> QED
      BY <3>1
  <2> QED
    BY <2>2, <2>3
<1>20. \A i \in Jobs : OwnsBare(v, i)'
  <2> SUFFICES ASSUME NEW i \in Jobs, tally'[i].failed = 0, NEW r \in 1 .. Dealt(i)',
                      D!Row(i, r).key = NoKey
               PROVE  \E g \in Added' : v[g] = <<i, r>>
    BY <1>11 DEF OwnsBare
  <2>1. OwnsBare(w, i)
    BY <1>1 DEF Own
  <2>2. CASE r \in 1 .. Dealt(i)
    <3>1. tally[i].failed = 0
      BY <1>10
    <3>2. PICK g \in Added : w[g] = <<i, r>>
      BY <2>1, <2>2, <3>1 DEF OwnsBare
    <3> QED
      BY <1>6, <1>13, <3>2
  <2>3. CASE r \notin 1 .. Dealt(i)
    <3>1. i = j
      BY <1>10, <2>3
    <3>2. r \in D!InBatch(j)
      BY <1>4, <1>9, <2>3, <3>1 DEF D!InBatch
    <3>3. PICK h \in 1 .. Len(inserts[j]) : inserts[j][h] = r
      BY <1>4, <3>1, <3>2 DEF PerJob, Provided
    <3>4. h \in 1 .. n
      BY <3>1
    <3> QED
      BY <1>6, <1>13, <3>1, <3>3, <3>4
  <2> QED
    BY <2>2, <2>3
<1>21. \A i \in Jobs : OwnsNone(v, i)'
  <2> SUFFICES ASSUME NEW i \in Jobs PROVE OwnsNone(v, i)'
    OBVIOUS
  <2>1. CASE i = j
    BY <2>1, NoneLeft DEF OwnsNone
  <2>2. CASE i # j
    <3>1. ASSUME NEW k, Unowned(w, i, k) PROVE Unowned(v, i, k)'
      <4> SUFFICES ASSUME NEW g \in Added', v[g][1] = i PROVE coll'[g].key # k
        BY <3>1 DEF Unowned
      <4>1. g \in Added
        <5> SUFFICES ASSUME g \notin Added PROVE FALSE
          OBVIOUS
        <5>1. PICK h \in 1 .. n : g = c + h
          BY <1>6
        <5>2. v[g][1] = j
          BY <1>13, <5>1
        <5> QED
          BY <2>2, <5>2
      <4> QED
        BY <1>13, <1>15, <3>1, <4>1 DEF Unowned
    <3>2. OwnsNone(w, i) /\ inserts'[i] = inserts[i]
      BY <1>1, <1>10, <2>2 DEF Own
    <3> QED
      BY <1>11, <3>1, <3>2 DEF OwnsNone
  <2> QED
    BY <2>1, <2>2
<1>22. Own(v)'
  BY <1>14, <1>17, <1>18, <1>19, <1>20, <1>21 DEF Own
<1> QED
  BY <1>22 DEF Owned
-----------------------------------------------------------------------------
(* The insert, all of it or a part: what it leaves of the job.             *)
Recounts(t, u, m, n) ==
  /\ u.processed = t.processed + 0 /\ u.inserted = t.inserted + m
  /\ u.skipped = t.skipped + 0 /\ u.failed = t.failed + n
Balances(t, o, p, q, h) ==
  /\ t.processed = o /\ o <= t.inserted + t.skipped + t.failed
  /\ t.inserted + t.skipped + t.failed + p + q = h

LEMMA FiveAdd ==
  ASSUME NEW i \in Nat, NEW s \in Nat, NEW f \in Nat, NEW m \in Nat, NEW n \in Nat
  PROVE  (i + m) + (s + 0) + (f + n) = (i + s + f) + (m + n)
OBVIOUS

LEMMA BothAdd ==
  ASSUME NEW t \in Tallies, NEW u, NEW m \in Nat, NEW n \in Nat, NEW p \in Nat, NEW q \in Nat,
         NEW o \in Nat, NEW h \in Nat, m + n = p, Recounts(t, u, m, n), Balances(t, o, p, q, h)
  PROVE  Balances(u, o, 0, q, h)
<1>0. /\ u.processed = t.processed + 0 /\ u.inserted = t.inserted + m
      /\ u.skipped = t.skipped + 0 /\ u.failed = t.failed + n
      /\ t.processed = o /\ o <= t.inserted + t.skipped + t.failed
      /\ t.inserted + t.skipped + t.failed + p + q = h
  BY DEF Recounts, Balances
<1>1. t.processed \in Nat /\ t.inserted \in Nat /\ t.skipped \in Nat /\ t.failed \in Nat
  BY DEF Tallies
<1>2. u.inserted + u.skipped + u.failed = (t.inserted + t.skipped + t.failed) + p
  <2>1. (t.inserted + m) + (t.skipped + 0) + (t.failed + n) = (t.inserted + t.skipped + t.failed) + (m + n)
    BY <1>1, FiveAdd
  <2> QED
    BY <1>0, <2>1
<1> DEFINE c == t.inserted + t.skipped + t.failed
<1>3. c \in Nat /\ o <= c /\ c + p + q = h
  BY <1>0, <1>1
<1>4. u.inserted + u.skipped + u.failed = c + p
  BY <1>2
<1> HIDE DEF c
<1>5. o <= c + p /\ (c + p) + 0 + q = h
  BY <1>3
<1> QED
  BY <1>0, <1>1, <1>4, <1>5 DEF Balances

LEMMA InsertKeeps ==
  ASSUME SeqInv, NEW j \in Jobs, NEW n \in 0 .. Len(inserts[j]), NEW e \in Nat, NEW f \in Nat,
         step[j] = "insert", D!Goto(j, "replace"), coll' = coll \o D!Take(j, n),
         D!Count(j, 0, e, 0, f), e + f = Len(inserts[j]), f = 0 => n = Len(inserts[j]),
         inserts' = [inserts EXCEPT ![j] = <<>>], UNCHANGED <<plan, offset, puts>>,
         dead' \in [Jobs -> SUBSET Nat], \A i \in Jobs : dead'[i] \subseteq 1 .. D!Length(i),
         \A i \in Jobs : i # j => dead'[i] = dead[i]
  PROVE  SeqInv'
<1>1. /\ step \in [Jobs -> Steps] /\ tally \in [Jobs -> Tallies]
      /\ offset[j] \in Nat /\ D!End(j) \in Nat /\ offset[j] <= D!End(j)
      /\ PerJob(j) /\ tally[j] \in Tallies /\ IsList(puts[j])
  BY JobIs
<1>2. Len(inserts[j]) \in Nat /\ Len(puts[j]) \in Nat
  BY JobIs
<1>3. "replace" \in Steps /\ 0 \in Nat
  BY DEF Steps, InABatch
<1>4. step' \in [Jobs -> Steps] /\ step'[j] = "replace" /\ \A i \in Jobs : i # j => step'[i] = step[i]
  BY <1>1, <1>3, GoesTo
<1>5. /\ tally' \in [Jobs -> Tallies] /\ \A i \in Jobs : i # j => tally'[i] = tally[i]
      /\ tally'[j].processed = tally[j].processed + 0
      /\ tally'[j].inserted = tally[j].inserted + e
      /\ tally'[j].skipped = tally[j].skipped + 0
      /\ tally'[j].failed = tally[j].failed + f
  BY <1>1, <1>3, Counts
<1>6. /\ inserts' \in [Jobs -> Seq(Nat)] /\ inserts'[j] = <<>>
      /\ \A i \in Jobs : i # j => inserts'[i] = inserts[i]
  BY NoneLeft DEF SeqInv, SeqShape
<1>7. /\ Grows /\ Kept'
      /\ Len(coll') = Len(coll) + n
      /\ \A i \in 1 .. Len(coll) : coll'[i] = coll[i]
      /\ \A i \in 1 .. n : coll'[Len(coll) + i] = D!Row(j, inserts[j][i])
  BY AppendIs
<1>8. SeqShape'
  BY <1>4, <1>5, <1>6, <1>7, LengthStays DEF SeqInv, SeqShape, Grows
<1>9. \A i \in Jobs : i # j => Unmoved(i)
  BY <1>4, <1>5, <1>6 DEF Unmoved
<1>10. /\ D!Length(j)' = D!Length(j) /\ D!End(j)' = D!End(j) /\ D!InBatch(j)' = D!InBatch(j)
       /\ \A r : D!Row(j, r)' = D!Row(j, r)
  BY LengthStays, BatchStays
<1>11. Placed(j)'
  <2>1. Rounded(offset[j])' <=> Rounded(offset[j])
    OBVIOUS
  <2> QED
    BY <1>1, <1>4, <1>10, <2>1 DEF PerJob, Placed, InABatch
<1>12. Waits(j)'
  BY <1>4, <1>6, NoneLeft DEF Waits, OnceEach
<1>13. Adds(j)'
  <2>1. /\ tally[j].processed = offset[j]
        /\ offset[j] <= tally[j].inserted + tally[j].skipped + tally[j].failed
        /\ tally[j].inserted + tally[j].skipped + tally[j].failed + Len(inserts[j]) + Len(puts[j]) = D!End(j)
    BY <1>1 DEF PerJob, Adds
  <2>2. /\ tally'[j].processed = offset[j]
        /\ offset[j] <= tally'[j].inserted + tally'[j].skipped + tally'[j].failed
        /\ tally'[j].inserted + tally'[j].skipped + tally'[j].failed + 0 + Len(puts[j]) = D!End(j)
    <3>1. /\ tally[j] \in Tallies /\ Len(inserts[j]) \in Nat /\ Len(puts[j]) \in Nat
          /\ offset[j] \in Nat /\ D!End(j) \in Nat /\ e + f = Len(inserts[j])
      BY <1>1, <1>2
    <3>2. Recounts(tally[j], tally'[j], e, f)
      BY <1>5 DEF Recounts
    <3>3. Balances(tally[j], offset[j], Len(inserts[j]), Len(puts[j]), D!End(j))
      BY <2>1 DEF Balances
    <3>4. Balances(tally'[j], offset[j], 0, Len(puts[j]), D!End(j))
      BY <3>1, <3>2, <3>3, BothAdd
    <3> QED
      BY <3>4 DEF Balances
  <2>3. Len(inserts'[j]) = 0
    BY <1>6, NoneLeft
  <2> QED
    BY <1>4, <1>10, <2>2, <2>3 DEF Adds
<1>14. PutsFit(j)'
  <2> SUFFICES ASSUME NEW m \in 1 .. Len(puts[j]), NEW d, d = puts[j][m]
               PROVE  /\ plan[j].strategy # "skip" /\ d.key # NoKey /\ D!Having(d.key)' # {}
                      /\ NoOverwrite' => Spared(d)'
    BY DEF PutsFit
  <2>1. PutsFit(j)
    BY <1>1 DEF PerJob
  <2> QED
    BY <1>7, <2>1, PutsStay
<1>15. tally'[j].failed = 0 => tally[j].failed = 0 /\ f = 0
  BY <1>1, <1>5 DEF Tallies
<1>16. Dealt(j) = offset[j] /\ Dealt(j)' = D!End(j)
  BY <1>4, <1>10 DEF Dealt
<1>17. Provided(j)'
  <2>1. \A k : D!Having(k) # {} => D!Having(k)' # {}
    BY <1>7, Grown DEF Grows
  <2>2. step'[j] # "insert"
    BY <1>4
  <2>3. ASSUME tally'[j].failed = 0, NEW r \in 1 .. D!End(j) PROVE D!Having(D!Row(j, r).key)' # {}
    <3>1. CASE r \in 1 .. offset[j]
      <4>1. D!Having(D!Row(j, r).key) # {}
        BY <1>1, <1>15, <1>16, <2>3, <3>1 DEF PerJob, Provided
      <4> QED
        BY <1>10, <2>1, <4>1
    <3>2. CASE r \notin 1 .. offset[j]
      <4>1. r \in D!InBatch(j)
        BY <1>1, <3>2 DEF D!InBatch
      <4>2. CASE D!Having(D!Row(j, r).key) # {}
        BY <1>10, <2>1, <4>2
      <4>3. CASE D!Having(D!Row(j, r).key) = {}
        <5>1. PICK h \in 1 .. Len(inserts[j]) : inserts[j][h] = r
          BY <1>1, <4>1, <4>3 DEF PerJob, Provided
        <5>2. h \in 1 .. n
          BY <1>15, <2>3
        <5>3. coll'[Len(coll) + h] = D!Row(j, r)
          BY <1>7, <5>1, <5>2
        <5>4. Len(coll) \in Nat /\ DOMAIN coll' = 1 .. Len(coll')
          BY <1>7, ListIs DEF Grows
        <5>5. Len(coll) + h \in DOMAIN coll'
          BY <1>2, <1>7, <5>2, <5>4
        <5> QED
          BY <1>10, <5>3, <5>5 DEF D!Having
      <4> QED
        BY <4>2, <4>3
    <3> QED
      BY <3>1, <3>2
  <2> QED
    BY <1>10, <1>16, <2>2, <2>3 DEF Provided
<1>18. PerJob(j)'
  BY <1>11, <1>12, <1>13, <1>14, <1>17 DEF PerJob
<1>19. Owned'
  BY <1>4, <1>6, <1>9, <1>15, OwnersJoin
<1> QED
  BY <1>7, <1>8, <1>9, <1>18, <1>19, StepKeeps

LEMMA InsertManyKeeps == ASSUME SeqInv, NEW j \in Jobs, D!InsertMany(j) PROVE SeqInv'
<1>1. /\ step[j] = "insert" /\ D!Goto(j, "replace") /\ coll' = coll \o D!Take(j, Len(inserts[j]))
      /\ D!Count(j, 0, Len(inserts[j]), 0, 0) /\ inserts' = [inserts EXCEPT ![j] = <<>>]
      /\ UNCHANGED <<plan, offset, puts, dead>>
  BY DEF D!InsertMany
<1>2. Len(inserts[j]) \in Nat
  BY JobIs
<1>3. Len(inserts[j]) \in 0 .. Len(inserts[j]) /\ 0 \in Nat /\ Len(inserts[j]) + 0 = Len(inserts[j])
  BY <1>2
<1>4. dead' \in [Jobs -> SUBSET Nat] /\ \A i \in Jobs : dead'[i] \subseteq 1 .. D!Length(i)
  BY <1>1 DEF SeqInv, SeqShape
<1> QED
  BY <1>1, <1>2, <1>3, <1>4, InsertKeeps

LEMMA InsertFailsKeeps == ASSUME SeqInv, NEW j \in Jobs, D!InsertFails(j) PROVE SeqInv'
<1>1. PICK n \in 0 .. Len(inserts[j]) : coll' = coll \o D!Take(j, n)
  BY DEF D!InsertFails
<1>2. /\ step[j] = "insert" /\ D!Goto(j, "replace") /\ inserts[j] # <<>>
      /\ D!Count(j, 0, 0, 0, Len(inserts[j])) /\ inserts' = [inserts EXCEPT ![j] = <<>>]
      /\ dead' = [dead EXCEPT ![j] = dead[j] \union Range(inserts[j])]
      /\ UNCHANGED <<plan, offset, puts>>
  BY DRange DEF D!InsertFails
<1>3. /\ Len(inserts[j]) \in Nat /\ IsList(inserts[j]) /\ offset[j] \in Nat /\ D!End(j) <= D!Length(j)
      /\ D!Length(j) \in Nat /\ D!End(j) \in Nat /\ PerJob(j)
  BY JobIs
<1>4. Len(inserts[j]) # 0 /\ 0 \in Nat /\ 0 + Len(inserts[j]) = Len(inserts[j])
  BY <1>2, <1>3, NoneLeft
<1>5. Range(inserts[j]) \subseteq 1 .. D!Length(j)
  <2>1. DOMAIN inserts[j] = 1 .. Len(inserts[j])
    BY <1>3, ListIs
  <2>2. \A h \in 1 .. Len(inserts[j]) : inserts[j][h] \in D!InBatch(j)
    BY <1>3 DEF PerJob, Waits
  <2>3. D!InBatch(j) \subseteq 1 .. D!Length(j)
    BY <1>3 DEF D!InBatch
  <2> QED
    BY <2>1, <2>2, <2>3 DEF Range
<1>6. /\ dead' \in [Jobs -> SUBSET Nat] /\ \A i \in Jobs : dead'[i] \subseteq 1 .. D!Length(i)
      /\ \A i \in Jobs : i # j => dead'[i] = dead[i]
  <2>1. dead \in [Jobs -> SUBSET Nat] /\ \A i \in Jobs : dead[i] \subseteq 1 .. D!Length(i)
    BY DEF SeqInv, SeqShape
  <2>2. Range(inserts[j]) \subseteq Nat
    BY <1>5
  <2>3. dead'[j] = dead[j] \union Range(inserts[j]) /\ \A i \in Jobs : i # j => dead'[i] = dead[i]
    BY <1>2, <2>1
  <2>4. \A i \in Jobs : dead'[i] \subseteq 1 .. D!Length(i)
    BY <1>5, <2>1, <2>3
  <2>5. dead' \in [Jobs -> SUBSET Nat]
    BY <1>2, <2>1, <2>2
  <2> QED
    BY <2>3, <2>4, <2>5
<1> QED
  BY <1>1, <1>2, <1>3, <1>4, <1>6, InsertKeeps

LEMMA SeqStep ==
  ASSUME SeqInv, D!Next PROVE SeqInv'
<1>1. PICK j \in Jobs : D!Work(j) \/ D!Cancel(j)
  BY DEF D!Next
<1>2. CASE D!Cancel(j)
  BY <1>2, NothingMoves DEF D!Cancel
<1>3. CASE D!Work(j)
  BY <1>3, PollKeeps, ConvertKeeps, ConvertFailsKeeps, CheckKeeps, CheckFailsKeeps,
     InsertManyKeeps, InsertFailsKeeps, ReplaceKeeps, EndBatchKeeps DEF D!Work
<1> QED
  BY <1>1, <1>2, <1>3

LEMMA SeqSame ==
  ASSUME SeqInv, UNCHANGED D!vars PROVE SeqInv'
BY NothingMoves DEF D!vars
-----------------------------------------------------------------------------
LEMMA SeqStarts == ASSUME D!Init PROVE SeqInv
<1>1. /\ coll = Stored /\ plan \in Plans
      /\ step = [j \in Jobs |-> "poll"] /\ offset = [j \in Jobs |-> 0]
      /\ inserts = [j \in Jobs |-> <<>>] /\ puts = [j \in Jobs |-> <<>>]
      /\ tally = [j \in Jobs |-> D!None] /\ dead = [j \in Jobs |-> {}]
  BY DEF D!Init
<1>2. IsList(Stored) /\ Len(Stored) \in Nat
  BY ListIs, ServicesAssumption DEF D!SequentialAssumption, IsList
<1>3. D!None \in Tallies /\ D!None.processed = 0 /\ D!None.inserted = 0 /\ D!None.skipped = 0 /\ D!None.failed = 0
  BY DEF D!None, Tallies
<1>4. SeqShape
  BY <1>1, <1>2, <1>3, NoneLeft DEF SeqShape, Steps
<1>5. KeysStay /\ Kept
  BY <1>1, <1>2 DEF KeysStay, Kept
<1>6. ASSUME NEW j \in Jobs PROVE PerJob(j)
  <2>1. D!Length(j) \in Nat /\ BatchSize \in Nat \ {0}
    BY <1>1, <1>6, PlanIs
  <2>2. /\ step[j] = "poll" /\ offset[j] = 0 /\ inserts[j] = <<>> /\ puts[j] = <<>>
        /\ tally[j].processed = 0 /\ tally[j].inserted = 0 /\ tally[j].skipped = 0
        /\ tally[j].failed = 0
    BY <1>1, <1>3, <1>6
  <2>3. Rounded(offset[j])
    BY <2>1, <2>2 DEF Rounded
  <2>4. Placed(j)
    BY <2>1, <2>2, <2>3 DEF Placed, InABatch
  <2>5. Waits(j) /\ PutsFit(j)
    BY <2>2, NoneLeft DEF Waits, OnceEach, PutsFit
  <2>6. Adds(j)
    BY <2>2, NoneLeft DEF Adds
  <2>7. Dealt(j) = 0
    BY <2>2 DEF Dealt
  <2>8. Provided(j)
    BY <2>2, <2>7 DEF Provided
  <2> QED
    BY <2>4, <2>5, <2>6, <2>8 DEF PerJob
<1>7. Owned
  <2>1. Added = {}
    BY <1>1, <1>2 DEF Added
  <2>0. PICK w : w = [i \in Added |-> <<>>]
    OBVIOUS
  <2>2. w \in [Added -> Jobs \X Nat]
    BY <2>0, <2>1
  <2>3. OwnsOnce(w) /\ \A i \in Added : OwnsRow(w, i)
    BY <2>1 DEF OwnsOnce
  <2>4. ASSUME NEW j \in Jobs PROVE OwnsTogether(w, j) /\ OwnsBare(w, j) /\ OwnsNone(w, j)
    <3>1. D!Length(j) \in Nat
      BY <1>1, <2>4, PlanIs
    <3>2. OwnsTogether(w, j)
      BY <2>1, <3>1 DEF OwnsTogether, InOne
    <3>3. inserts[j] = <<>> /\ step[j] = "poll" /\ offset[j] = 0
      BY <1>1, <2>4
    <3>4. OwnsBare(w, j)
      BY <3>3 DEF OwnsBare, Dealt
    <3>5. OwnsNone(w, j)
      BY <3>3, NoneLeft DEF OwnsNone
    <3> QED
      BY <3>2, <3>4, <3>5
  <2>5. Own(w)
    BY <2>2, <2>3, <2>4 DEF Own
  <2> QED
    BY <2>5 DEF Owned
<1> QED
  BY <1>4, <1>5, <1>6, <1>7 DEF SeqInv, PerJob

(* What the invariant says of documents and counts.                        *)
LEMMA AddsUp == ASSUME SeqInv PROVE D!TallyAdds
<1> SUFFICES ASSUME NEW j \in Jobs, step[j] \in {"poll", "completed"}
             PROVE  /\ tally[j].processed = offset[j]
                    /\ tally[j].inserted + tally[j].skipped + tally[j].failed = offset[j]
  BY DEF D!TallyAdds
<1>1. PerJob(j) /\ tally[j] \in Tallies /\ offset[j] \in Nat
  BY JobIs
<1>2. inserts[j] = <<>> /\ puts[j] = <<>>
  BY <1>1 DEF PerJob, Waits
<1>3. /\ tally[j].processed = offset[j]
      /\ tally[j].inserted + tally[j].skipped + tally[j].failed + 0 + 0 = offset[j]
  BY <1>1, <1>2, NoneLeft DEF PerJob, Adds
<1>4. tally[j].inserted \in Nat /\ tally[j].skipped \in Nat /\ tally[j].failed \in Nat
  BY <1>1 DEF Tallies
<1> QED
  BY <1>3, <1>4

LEMMA StoredStays == ASSUME SeqInv PROVE D!StoredKept
<1>1. DOMAIN Stored = 1 .. Len(Stored)
  BY ServicesAssumption DEF D!SequentialAssumption
<1> QED
  BY <1>1 DEF SeqInv, Kept, D!StoredKept, NoOverwrite, AllSkip

LEMMA FitsBatch ==
  ASSUME NEW c \in Nat, NEW p \in Nat, NEW q \in Nat, NEW o \in Nat, NEW h \in Nat, NEW g \in Nat,
         o <= c, c + p + q = h \/ c + p + q = o, h <= o + g
  PROVE  p + q <= g
OBVIOUS

LEMMA SeqTyped == ASSUME SeqInv PROVE D!TypeOK
<1> SUFFICES ASSUME NEW j \in Jobs
             PROVE  /\ step[j] \in {"poll", "convert", "check", "insert", "replace"} \union D!Final
                    /\ offset[j] \in 0 .. D!Length(j) /\ dead[j] \subseteq 1 .. D!Length(j)
                    /\ Range(inserts[j]) \subseteq D!InBatch(j)
                    /\ Len(inserts[j]) + Len(puts[j]) <= BatchSize
  BY DRange DEF D!TypeOK, SeqInv, SeqShape
<1>1. /\ step[j] \in Steps /\ offset[j] \in Nat /\ offset[j] <= D!Length(j) /\ D!Length(j) \in Nat
      /\ PerJob(j) /\ tally[j] \in Tallies /\ plan \in Plans /\ D!End(j) \in Nat
      /\ IsList(inserts[j]) /\ Len(inserts[j]) \in Nat /\ Len(puts[j]) \in Nat
  BY JobIs
<1>2. dead[j] \subseteq 1 .. D!Length(j)
  BY DEF SeqInv, SeqShape
<1>3. Range(inserts[j]) \subseteq D!InBatch(j)
  BY <1>1, ListIs DEF PerJob, Waits, Range
<1>4. Len(inserts[j]) + Len(puts[j]) <= BatchSize
  <2>1. D!End(j) <= offset[j] + BatchSize /\ BatchSize \in Nat
    BY <1>1, BatchIs, PlanIs
  <2>2. tally[j].inserted \in Nat /\ tally[j].skipped \in Nat /\ tally[j].failed \in Nat
    BY <1>1 DEF Tallies
  <2> DEFINE c == tally[j].inserted + tally[j].skipped + tally[j].failed
  <2>3. c \in Nat
    BY <2>2, ThreeAdd
  <2>4. /\ offset[j] <= c
        /\ \/ c + Len(inserts[j]) + Len(puts[j]) = D!End(j)
           \/ c + Len(inserts[j]) + Len(puts[j]) = offset[j]
    BY <1>1 DEF PerJob, Adds
  <2> HIDE DEF c
  <2> QED
    BY <1>1, <2>1, <2>3, <2>4, FitsBatch
<1> QED
  <2>1. step[j] \in {"poll", "convert", "check", "insert", "replace"} \union D!Final
    BY <1>1 DEF Steps, InABatch
  <2>2. offset[j] \in 0 .. D!Length(j)
    BY <1>1
  <2> QED
    BY <1>2, <1>3, <1>4, <2>1, <2>2

LEMMA InjectionIs ==
  ASSUME NEW Q, NEW T, NEW f \in [Q -> T], \A p \in Q : \A q \in Q : f[p] = f[q] => p = q
  PROVE  f \in Injection(Q, T)
BY DEF Injection, IsInjective

LEMMA KeysInColl ==
  ASSUME SeqInv
  PROVE  /\ DOMAIN coll = 1 .. Len(coll) /\ Len(coll) \in Nat /\ IsFiniteSet(DOMAIN coll)
         /\ DOMAIN Stored = 1 .. Len(Stored) /\ Len(Stored) \in Nat /\ Len(Stored) <= Len(coll)
         /\ \A m \in 1 .. Len(Stored) : coll[m].key = Stored[m].key
<1>1. DOMAIN coll = 1 .. Len(coll) /\ Len(coll) \in Nat
  BY ListIs DEF SeqInv, SeqShape
<1>2. DOMAIN Stored = 1 .. Len(Stored) /\ Len(Stored) \in Nat
  BY ServicesAssumption DEF D!SequentialAssumption
<1>3. Len(Stored) <= Len(coll) /\ \A m \in 1 .. Len(Stored) : coll[m].key = Stored[m].key
  BY DEF SeqInv, KeysStay
<1>4. 1 \in Int /\ Len(coll) \in Int
  BY <1>1
<1>5. IsFiniteSet(1 .. Len(coll))
  BY <1>4, FS_Interval
<1> QED
  BY <1>1, <1>2, <1>3, <1>5

LEMMA AllComplete == ASSUME SeqInv PROVE D!CompleteIsComplete
<1> SUFFICES ASSUME NEW j \in Jobs, step[j] = "completed", tally[j].failed = 0
             PROVE  /\ \A i \in 1 .. D!Length(j) : D!Having(D!Row(j, i).key) # {}
                    /\ D!Named(NoKey, coll) >= D!Named(NoKey, plan[j].rows)
  BY DEF D!CompleteIsComplete
<1>1. /\ PerJob(j) /\ plan \in Plans /\ D!Length(j) \in Nat /\ offset[j] \in Nat
  BY JobIs
<1>2. Dealt(j) = D!Length(j)
  BY <1>1 DEF PerJob, Placed, Dealt
<1>3. \A i \in 1 .. D!Length(j) : D!Having(D!Row(j, i).key) # {}
  BY <1>1, <1>2 DEF PerJob, Provided
<1>4. PICK w : Own(w)
  BY DEF SeqInv, Owned
<1> DEFINE Q == {i \in DOMAIN plan[j].rows : plan[j].rows[i].key = NoKey}
           T == {i \in DOMAIN coll : coll[i].key = NoKey}
<1>5. DOMAIN plan[j].rows = 1 .. D!Length(j)
  BY <1>1, PlanIs, ListIs DEF D!Length
<1>6. /\ DOMAIN coll = 1 .. Len(coll) /\ Len(coll) \in Nat /\ IsFiniteSet(DOMAIN coll)
      /\ Len(Stored) \in Nat /\ Len(Stored) <= Len(coll)
  BY KeysInColl
<1>7. Added \subseteq DOMAIN coll
  BY <1>6 DEF Added
<1>8. \A r \in Q : \E i \in T : i \in Added /\ w[i] = <<j, r>>
  <2> SUFFICES ASSUME NEW r \in Q PROVE \E i \in T : i \in Added /\ w[i] = <<j, r>>
    OBVIOUS
  <2>1. r \in 1 .. Dealt(j) /\ D!Row(j, r).key = NoKey
    BY <1>2, <1>5 DEF D!Row
  <2>2. PICK i \in Added : w[i] = <<j, r>>
    BY <1>4, <2>1 DEF Own, OwnsBare
  <2>3. coll[i].key = NoKey
    <3>1. D!Row(w[i][1], w[i][2]).key = coll[i].key
      BY <1>4 DEF Own, OwnsRow
    <3>2. w[i][1] = j /\ w[i][2] = r
      BY <2>2
    <3> QED
      BY <2>1, <3>1, <3>2
  <2> QED
    BY <1>7, <2>2, <2>3
<1> DEFINE f == [r \in Q |-> CHOOSE i \in T : i \in Added /\ w[i] = <<j, r>>]
<1>9. \A r \in Q : f[r] \in T /\ w[f[r]] = <<j, r>>
  BY <1>8
<1>10. f \in [Q -> T]
  BY <1>9
<1>11. \A p \in Q : \A q \in Q : f[p] = f[q] => p = q
  <2> SUFFICES ASSUME NEW p \in Q, NEW q \in Q, f[p] = f[q] PROVE p = q
    OBVIOUS
  <2>1. w[f[p]] = <<j, p>> /\ w[f[q]] = <<j, q>>
    BY <1>9
  <2> HIDE DEF f
  <2>2. <<j, p>> = <<j, q>>
    BY <2>1
  <2> QED
    BY <2>2
<1>12. IsFiniteSet(T)
  BY <1>6, FS_Subset
<1> HIDE DEF f, Q, T
<1>13. f \in Injection(Q, T)
  BY <1>10, <1>11, InjectionIs
<1>14. IsFiniteSet(Q) /\ Cardinality(Q) <= Cardinality(T)
  BY <1>12, <1>13, FS_Injection
<1>15. D!Named(NoKey, coll) = Cardinality(T) /\ D!Named(NoKey, plan[j].rows) = Cardinality(Q)
  BY DNamed DEF Q, T
<1>16. Cardinality(T) \in Nat /\ Cardinality(Q) \in Nat
  BY <1>12, <1>14, FS_CardinalityType
<1> QED
  BY <1>3, <1>14, <1>15, <1>16

LEMMA IndicesFinite == ASSUME plan \in Plans PROVE IsFiniteSet(D!Indices)
<1> DEFINE U == {0 .. D!Length(j) : j \in Jobs}
           f == [j \in Jobs |-> 0 .. D!Length(j)]
<1>1. f \in Surjection(Jobs, U)
  BY DEF Surjection
<1>2. IsFiniteSet(Jobs)
  BY ServicesAssumption, DFinite DEF D!SequentialAssumption
<1>3. \A T \in U : IsFiniteSet(T)
  <2> SUFFICES ASSUME NEW j \in Jobs PROVE IsFiniteSet(0 .. D!Length(j))
    OBVIOUS
  <2>1. 0 \in Int /\ D!Length(j) \in Int
    BY PlanIs
  <2> QED
    BY <2>1, FS_Interval
<1> HIDE DEF f, U
<1>4. IsFiniteSet(U)
  BY <1>1, <1>2, FS_Surjection
<1>5. IsFiniteSet(UNION U)
  BY <1>3, <1>4, FS_UNION
<1> QED
  BY <1>5 DEF D!Indices, U

Spots(k, n) == {p \in Jobs \X D!Indices : p[2] \in D!Alike(p[1], k, n[p[1]])}
LEMMA Doubles == ASSUME SeqInv PROVE D!DoublesOnlyTogether
<1> SUFFICES ASSUME NEW k \in D!Keys
             PROVE  /\ D!Named(k, Stored) > 0 => D!Named(k, coll) <= D!Named(k, Stored)
                    /\ ~(D!Named(k, Stored) > 0) => \E n \in [Jobs -> D!Indices] :
                         D!Named(k, coll) <= Cardinality(Spots(k, n))
  BY DNumber DEF D!DoublesOnlyTogether, Spots
<1>1. k # NoKey
  BY DEF D!Keys
<1>2. PICK w : Own(w)
  BY DEF SeqInv, Owned
<1>3. /\ DOMAIN coll = 1 .. Len(coll) /\ Len(coll) \in Nat /\ IsFiniteSet(DOMAIN coll)
      /\ DOMAIN Stored = 1 .. Len(Stored) /\ Len(Stored) \in Nat /\ Len(Stored) <= Len(coll)
      /\ \A m \in 1 .. Len(Stored) : coll[m].key = Stored[m].key
  BY KeysInColl
<1> DEFINE Q == {i \in DOMAIN coll : coll[i].key = k}
           Z == {i \in DOMAIN Stored : Stored[i].key = k}
<1>4. D!Named(k, coll) = Cardinality(Q) /\ D!Named(k, Stored) = Cardinality(Z)
  BY DNamed
<1>5. IsFiniteSet(Q) /\ Cardinality(Q) \in Nat
  BY <1>3, FS_Subset, FS_CardinalityType
<1>6. Z \subseteq Q
  BY <1>3
<1>7. IsFiniteSet(Z) /\ Cardinality(Z) \in Nat
  BY <1>5, <1>6, FS_Subset, FS_CardinalityType
<1>8. CASE Z # {}
  <2>1. ASSUME NEW i \in Q, i \notin Z PROVE FALSE
    <3>1. i \in Added
      BY <1>3, <2>1 DEF Added
    <3>2. coll[i].key = k /\ OwnsRow(w, i)
      BY <1>2, <2>1, <3>1 DEF Own
    <3>3. PICK m \in 1 .. Len(Stored) : Stored[m].key = k
      BY <1>3, <1>8
    <3> QED
      BY <1>1, <3>2, <3>3 DEF OwnsRow
  <2>2. Q = Z
    <3> HIDE DEF Q, Z
    <3> QED
      BY <1>6, <2>1
  <2>3. Cardinality(Q) = Cardinality(Z)
    BY <2>2
  <2>4. Cardinality(Z) # 0
    BY <1>7, <1>8, FS_EmptySet
  <2> HIDE DEF Q, Z
  <2> QED
    BY <1>4, <1>5, <1>7, <2>3, <2>4
<1>9. CASE Z = {}
  <2>1. Q \subseteq Added
    <3> SUFFICES ASSUME NEW i \in Q, i \notin Added PROVE FALSE
      OBVIOUS
    <3>1. i \in 1 .. Len(Stored)
      BY <1>3 DEF Added
    <3>2. i \in Z
      BY <1>3, <3>1
    <3> QED
      BY <1>9, <3>2
  <2>2. \A j \in Jobs : \E m \in 0 .. D!Length(j) : InOne(w, j, k, m)
    BY <1>1, <1>2 DEF Own, OwnsTogether
  <2> DEFINE n == [j \in Jobs |-> CHOOSE m \in 0 .. D!Length(j) : InOne(w, j, k, m)]
  <2>3. \A j \in Jobs : n[j] \in 0 .. D!Length(j) /\ InOne(w, j, k, n[j])
    BY <2>2
  <2>4. n \in [Jobs -> D!Indices]
    BY <2>3 DEF D!Indices
  <2> HIDE DEF n
  <2> DEFINE T == {p \in Jobs \X D!Indices : p[2] \in D!Alike(p[1], k, n[p[1]])}
             f == [i \in Q |-> w[i]]
  <2>5. \A i \in Q : w[i] \in T
    <3> SUFFICES ASSUME NEW i \in Q PROVE w[i] \in T
      OBVIOUS
    <3>1. i \in Added /\ coll[i].key = k
      BY <2>1
    <3>2. w[i] \in Jobs \X Nat /\ OwnsRow(w, i)
      BY <1>2, <3>1 DEF Own
    <3> DEFINE j == w[i][1]
               r == w[i][2]
    <3>3. j \in Jobs /\ r \in Nat /\ w[i] = <<j, r>>
      BY <3>2
    <3>4. r \in 1 .. Dealt(j) /\ D!Row(j, r).key = k
      BY <3>1, <3>2 DEF OwnsRow
    <3>5. Batched(r, n[j])
      BY <2>3, <3>1, <3>3 DEF InOne
    <3>6. Dealt(j) \in Nat /\ Dealt(j) <= D!Length(j) /\ D!Length(j) \in Nat
      BY <3>3, JobIs, DoneIs
    <3> HIDE DEF j, r
    <3>7. r \in 1 .. D!Length(j)
      BY <3>4, <3>6
    <3>8. r \in D!Alike(j, k, n[j])
      BY <3>4, <3>5, <3>7 DEF D!Alike, Batched
    <3>9. r \in 0 .. D!Length(j)
      BY <3>7
    <3>10. r \in D!Indices
      BY <3>3, <3>9 DEF D!Indices
    <3>11. w[i] \in Jobs \X D!Indices /\ w[i][1] = j /\ w[i][2] = r
      BY <3>3, <3>10
    <3> QED
      BY <3>8, <3>11
  <2>6. IsFiniteSet(T)
    <3>1. IsFiniteSet(Jobs) /\ plan \in Plans
      BY ServicesAssumption, DFinite DEF D!SequentialAssumption, SeqInv, SeqShape
    <3>2. IsFiniteSet(D!Indices)
      BY <3>1, IndicesFinite
    <3>3. IsFiniteSet(Jobs \X D!Indices)
      BY <3>1, <3>2, FS_Product
    <3> QED
      BY <3>3, FS_Subset
  <2>7. \A p \in Q : \A q \in Q : p # q => w[p] # w[q]
    BY <1>2, <2>1 DEF Own, OwnsOnce
  <2>8. f \in [Q -> T]
    BY <2>5
  <2>9. \A p \in Q : \A q \in Q : f[p] = f[q] => p = q
    BY <2>7
  <2>10. T = Spots(k, n)
    BY DEF Spots
  <2> HIDE DEF Q, Z, T, f
  <2>11. f \in Injection(Q, T)
    BY <2>8, <2>9, InjectionIs
  <2>12. Cardinality(Q) <= Cardinality(T)
    BY <2>6, <2>11, FS_Injection
  <2>13. Cardinality(Z) = 0
    BY <1>9, FS_EmptySet
  <2> QED
    BY <1>4, <2>4, <2>10, <2>12, <2>13
<1> QED
  BY <1>8, <1>9

LEMMA DedupIs == ASSUME SeqInv PROVE D!DedupExact
BY SeqTyped, Doubles, StoredStays, AllComplete, AddsUp DEF D!DedupExact

(* The theorem about jobs that deduplicate: whatever is inserted twice,    *)
(* only rows that one batch of a job, or two jobs, had in hand together;   *)
(* what was there stays, nothing is left out of what a job says it did,    *)
(* and its counts add up.                                                  *)
THEOREM DedupIsExact == ServicesSpec => []DedupExact
<1>0. D!SequentialAssumption
  BY ServicesAssumption
<1>1. Start => SeqInv
  BY <1>0, SeqStarts DEF Start
<1>2. SeqInv /\ [Move]_all => SeqInv'
  <2> SUFFICES ASSUME SeqInv, [Move]_all PROVE SeqInv'
    OBVIOUS
  <2>1. UNCHANGED D!vars \/ D!Next
    BY DEF Move, On, Still, all, dedup, D!vars, D!work
  <2> QED
    BY <1>0, <2>1, SeqStep, SeqSame
<1>3. SeqInv => D!DedupExact
  BY <1>0, DedupIs
<1> QED
  BY <1>1, <1>2, <1>3, PTL DEF ServicesSpec, DedupExact
=============================================================================
