------------------------------- MODULE Delivery -------------------------------
(***************************************************************************)
(* What the reader of a large result is promised: the rows, in order, and  *)
(* in the end the truth about whether they are all there.                  *)
(***************************************************************************)
EXTENDS Naturals, Sequences

VARIABLES
  source,             (* the result: rows, by number                        *)
  delivered, verdict

Init == delivered = <<>> /\ verdict = "open"

(* The rows up to the last one of s, and the rows of a set, each once, in  *)
(* order.                                                                  *)
Reached(s) == {r \in source : \E i \in DOMAIN s : r <= s[i]}
Lists(s, rows) ==
  /\ {s[i] : i \in DOMAIN s} = rows
  /\ \A i \in DOMAIN s : \A j \in DOMAIN s : i < j => s[i] < s[j]

Deliver ==
  /\ UNCHANGED source
  /\ verdict = "open" /\ verdict' \in {"open", "complete"}
  /\ Len(delivered') >= Len(delivered)
  /\ Lists(delivered', Reached(delivered'))
  /\ verdict' = "complete" => Lists(delivered', source)

CutShort == verdict = "open" /\ verdict' = "cut" /\ UNCHANGED <<source, delivered>>

Spec == Init /\ [][Deliver \/ CutShort]_<<source, delivered, verdict>>
=============================================================================
