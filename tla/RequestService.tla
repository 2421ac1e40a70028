--------------------------- MODULE RequestService ---------------------------
(***************************************************************************)
(* What a connection of the binary transport promises, without sockets,    *)
(* queues or batches: each request after the greeting is served at most    *)
(* once, an answer is given at most once, only for a served request that   *)
(* wants one, and nothing happens once the connection is closed.  Serving  *)
(* order is left open (priorities), and so is when answers are given       *)
(* (batches).                                                              *)
(***************************************************************************)
EXTENDS Naturals, Sequences

VARIABLES
  asked,   (* number of frames the client has sent; frame 1 is the greeting *)
  silent,  (* those among them that want no answer                          *)
  served,  (* requests served, in order                                     *)
  told,    (* requests answered, in order                                   *)
  open

vars == <<asked, silent, served, told, open>>

Elements(s)  == {s[k] : k \in DOMAIN s}
Distinct(s)  == \A j, k \in DOMAIN s : s[j] = s[k] => j = k
Extends(s, t) == Len(s) <= Len(t) /\ \A k \in DOMAIN s : t[k] = s[k]

Init == asked = 0 /\ silent = {} /\ served = <<>> /\ told = <<>> /\ open = TRUE

Ask ==
  /\ asked' = asked + 1
  /\ silent' = silent \/ silent' = silent \cup {asked'}
  /\ UNCHANGED <<served, told, open>>

(* Serve one request or none, and give any of the answers that are owed.   *)
Work ==
  /\ open
  /\ \/ served' = served
     \/ \E i \in (2 .. asked) \ Elements(served) : served' = Append(served, i)
  /\ Extends(told, told') /\ Distinct(told')
  /\ Elements(told') \subseteq Elements(served') \ silent
  /\ open' \in BOOLEAN
  /\ UNCHANGED <<asked, silent>>

Next == Ask \/ Work

Spec == Init /\ [][Next]_vars
=============================================================================
