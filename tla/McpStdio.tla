------------------------------ MODULE McpStdio ------------------------------
(***************************************************************************)
(* The MCP server on stdin/stdout: run_stdio_transport in                  *)
(* src/mcp/stdio.rs with McpSamplingProvider::translate in                 *)
(* src/compiled/providers/sampling.rs, which asks the host's LLM through   *)
(* the same loop.                                                          *)
(***************************************************************************)
EXTENDS Naturals, Sequences, FiniteSets

CONSTANTS
  Requests,   (* the requests the host sends, each once                     *)
  NeedsLlm,   (* those whose tool misses the caches and asks the LLM        *)
  Channel,    (* capacity of the sampling channel, 32 in main.rs            *)
  MaxLines    (* bound: lines the host writes                               *)

None == "none"

ASSUME StdioAssumption ==
  /\ None \notin Requests /\ NeedsLlm \subseteq Requests
  /\ Channel \in Nat \ {0} /\ MaxLines \in Nat

VARIABLES
  stdin,     (* lines the host has written and the loop has not read        *)
  written,   (* history: number of lines written                            *)
  asked,     (* history: requests sent, in order                            *)
  hostOpen,
  pc,        (* where the loop is: at its select, in a handler, or over     *)
  current,   (* the request being handled                                   *)
  waiting,   (* requests whose provider waits on its oneshot                *)
  delivered, (* requests whose oneshot has been sent a completion           *)
  channel,   (* sampling requests not yet taken by the loop                 *)
  counter,   (* sampling_id_counter                                         *)
  pending,   (* pending_sampling: <<sampling id, request>> pairs            *)
  stdout,    (* lines written to the host                                   *)
  completed  (* history: sampling ids a completion was read for             *)

vars == <<stdin, written, asked, hostOpen, pc, current, waiting, delivered,
          channel, counter, pending, stdout, completed>>
host    == <<stdin, written, asked, hostOpen>>
samples == <<channel, counter, pending, completed>>

Line == [kind : {"request"}, id : Requests] \cup [kind : {"completion"}, id : Nat]
          \cup [kind : {"noise"}]
Out == [kind : {"answer"}, id : Requests, ok : BOOLEAN]
         \cup [kind : {"sampling"}, id : Nat] \cup [kind : {"parseError"}]

(* Types; a handler runs for exactly the current request.                  *)
TypeOK ==
  /\ stdin \in Seq(Line) /\ written \in 0 .. MaxLines /\ asked \in Seq(Requests)
  /\ hostOpen \in BOOLEAN /\ pc \in {"select", "handling", "closed"}
  /\ current \in Requests \cup {None} /\ (current # None <=> pc = "handling")
  /\ waiting \subseteq {current} /\ delivered \subseteq waiting
  /\ channel \in Seq(Requests) /\ Len(channel) <= Channel
  /\ counter \in Nat /\ pending \subseteq (1 .. counter) \X Requests
  /\ stdout \in Seq(Out) /\ completed \subseteq 1 .. counter

Init ==
  /\ stdin = <<>> /\ written = 0 /\ asked = <<>> /\ hostOpen = TRUE
  /\ pc = "select" /\ current = None /\ waiting = {} /\ delivered = {}
  /\ channel = <<>> /\ counter = 0 /\ pending = {} /\ stdout = <<>> /\ completed = {}

-----------------------------------------------------------------------------
(* The host: requests, lines that are no JSON-RPC, completions of the      *)
(* sampling requests it has seen (perhaps twice), and the end of input.    *)
WriteStdin(l) ==
  /\ hostOpen /\ written < MaxLines
  /\ stdin' = Append(stdin, l) /\ written' = written + 1
  /\ UNCHANGED <<hostOpen, pc, current, waiting, delivered, samples, stdout>>

HostAsks(r) ==
  /\ \A k \in DOMAIN asked : asked[k] # r
  /\ asked' = Append(asked, r) /\ WriteStdin([kind |-> "request", id |-> r])

HostNoise == WriteStdin([kind |-> "noise"]) /\ UNCHANGED asked

HostCompletes(n) ==
  /\ [kind |-> "sampling", id |-> n] \in {stdout[k] : k \in DOMAIN stdout}
  /\ WriteStdin([kind |-> "completion", id |-> n]) /\ UNCHANGED asked

HostCloses ==
  /\ hostOpen /\ hostOpen' = FALSE
  /\ UNCHANGED <<stdin, written, asked, pc, current, waiting, delivered, samples, stdout>>

-----------------------------------------------------------------------------
(* The stdin branch of the select.                                         *)
WriteOut(l) == stdout' = Append(stdout, l)

ReadLine(kind) ==
  /\ pc = "select" /\ stdin # <<>> /\ Head(stdin).kind = kind
  /\ stdin' = Tail(stdin) /\ UNCHANGED <<written, asked, hostOpen>>

ReadRequest ==
  /\ ReadLine("request")
  /\ pc' = "handling" /\ current' = Head(stdin).id
  /\ UNCHANGED <<waiting, delivered, samples, stdout>>

ReadNoise ==
  /\ ReadLine("noise") /\ WriteOut([kind |-> "parseError"])
  /\ UNCHANGED <<pc, current, waiting, delivered, samples>>

(* Fault model: the entry stays in the map.                                *)
RouteKeepingEntry(n, r) ==
  /\ UNCHANGED <<pending, stdout>>
  /\ delivered' = delivered \cup ({r} \cap waiting)

(* A completion that is pending goes to its oneshot, whose receiver may be *)
(* gone; the failed send is ignored.                                       *)
Route(n, r) ==
  /\ pending' = pending \ {<<n, r>>}
  /\ delivered' = delivered \cup ({r} \cap waiting)
  /\ UNCHANGED stdout

(* One that is not pending is read as a request, and is none.              *)
ReadCompletion ==
  LET n == Head(stdin).id IN
  /\ ReadLine("completion")
  /\ \/ \E r \in Requests : <<n, r>> \in pending /\ Route(n, r)
     \/ /\ \A r \in Requests : <<n, r>> \notin pending
        /\ WriteOut([kind |-> "parseError"]) /\ UNCHANGED <<pending, delivered>>
  /\ completed' = completed \cup {n}
  /\ UNCHANGED <<pc, current, waiting, channel, counter>>

(* End of input: what is pending is failed, the loop is over.              *)
EndOfInput ==
  /\ pc = "select" /\ stdin = <<>> /\ ~hostOpen
  /\ pc' = "closed" /\ pending' = {}
  /\ UNCHANGED <<host, current, waiting, delivered, channel, counter, stdout, completed>>

(* The sampling branch of the select.                                      *)
TakeSample ==
  /\ pc = "select" /\ channel # <<>>
  /\ channel' = Tail(channel) /\ counter' = counter + 1
  /\ pending' = pending \cup {<<counter', Head(channel)>>}
  /\ WriteOut([kind |-> "sampling", id |-> counter'])
  /\ UNCHANGED <<host, pc, current, waiting, delivered, completed>>

-----------------------------------------------------------------------------
(* The handler, awaited inside the stdin branch: meanwhile no other branch *)
(* of the select is polled.                                                *)
Respond(ok) ==
  /\ WriteOut([kind |-> "answer", id |-> current, ok |-> ok])
  /\ pc' = "select" /\ current' = None /\ waiting' = {} /\ delivered' = {}
  /\ UNCHANGED <<host, samples>>

HandlerAnswers ==
  /\ pc = "handling" /\ current \notin NeedsLlm
  /\ \E ok \in BOOLEAN : Respond(ok)

(* The provider sends its sampling request; a full channel makes it wait.  *)
ProviderAsks ==
  /\ pc = "handling" /\ current \in NeedsLlm /\ current \notin waiting
  /\ Len(channel) < Channel
  /\ channel' = Append(channel, current) /\ waiting' = {current}
  /\ UNCHANGED <<host, pc, current, delivered, counter, pending, stdout, completed>>

(* The oneshot's completion, or SAMPLING_TIMEOUT (60 s): then the tool     *)
(* call fails.                                                             *)
ProviderReturns ==
  /\ pc = "handling" /\ current \in waiting
  /\ \E ok \in (IF current \in delivered THEN BOOLEAN ELSE {FALSE}) : Respond(ok)

-----------------------------------------------------------------------------
Host == (\E r \in Requests : HostAsks(r)) \/ HostNoise
          \/ (\E n \in 1 .. counter : HostCompletes(n)) \/ HostCloses

Loop == ReadRequest \/ ReadNoise \/ ReadCompletion \/ EndOfInput \/ TakeSample
Handler == HandlerAnswers \/ ProviderAsks \/ ProviderReturns

Next == Host \/ Loop \/ Handler

Spec == Init /\ [][Next]_vars

(* The runtime polls the loop whenever it can move, and fires its timers.  *)
FairSpec == Spec /\ WF_vars(Loop \/ Handler)

-----------------------------------------------------------------------------
(* Properties.                                                             *)
IsAnswer(k)  == k \in DOMAIN stdout /\ stdout[k].kind = "answer"
AnswersTo(k) == Cardinality({j \in 1 .. k : IsAnswer(j)})

(* However completions, time-outs and noise fall between them, the host's  *)
(* requests are answered once each, in the order they were sent: the n-th  *)
(* answer is to the n-th request.                                          *)
AnsweredInOrder ==
  \A k \in DOMAIN stdout : IsAnswer(k) =>
    AnswersTo(k) <= Len(asked) /\ stdout[k].id = asked[AnswersTo(k)]

(* Until the end, a sampling request that no completion has been read for  *)
(* can still be routed, and one that was completed cannot be again.        *)
SampleIds == {stdout[k].id : k \in {j \in DOMAIN stdout : stdout[j].kind = "sampling"}}
RoutableOnce ==
  pc # "closed" => {p[1] : p \in pending} = SampleIds \ completed

(* Nobody is left waiting for a host that has closed its end.              *)
NoneForgottenAtEnd == pc = "closed" => pending = {} /\ waiting = {}

(* Together: what the loop reads and writes on two pipes reaches the one   *)
(* it is for, once and in order.                                           *)
AnswersRouted == TypeOK /\ AnsweredInOrder /\ RoutableOnce /\ NoneForgottenAtEnd

(* Every request the host sends is answered.                               *)
AnsweredId(r) == \E k \in DOMAIN stdout : IsAnswer(k) /\ stdout[k].id = r
EventuallyAnswered ==
  \A r \in Requests : (\E k \in DOMAIN asked : asked[k] = r) ~> AnsweredId(r)

-----------------------------------------------------------------------------
(* stdio.rs:19-20: when the translator needs an LLM call, this loop writes *)
(* the request and routes the response back; so somebody still waits for   *)
(* it when it is written.  Refuted by a run of its own.                    *)
SampleWrittenWhileAwaited ==
  [][counter' # counter => Head(channel) \in waiting]_vars
=============================================================================
