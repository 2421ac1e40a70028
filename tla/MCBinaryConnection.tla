------------------------- MODULE MCBinaryConnection -------------------------
(* Frame shapes for the bounded instances of BinaryConnection.             *)
EXTENDS BinaryConnection

Op(noReply, batch, prio) ==
  [opcode |-> "op", framing |-> "ok", env |-> "ok",
   noReply |-> noReply, batch |-> batch, prio |-> prio]

Hello    == [Op(FALSE, FALSE, "normal") EXCEPT !.opcode = "handshake"]
Ping     == [Hello EXCEPT !.prio = "critical"]
BadEnv(noReply, batch) == [Op(noReply, batch, "normal") EXCEPT !.env = "bad"]
BadFrame(kind) == [Op(FALSE, FALSE, "normal") EXCEPT !.framing = kind]

(* Every class and flag, refused envelopes, both kinds of bad framing.     *)
AllKinds ==
  {Hello, Ping, Op(FALSE, FALSE, "normal"), Op(FALSE, TRUE, "low"), Op(FALSE, FALSE, "low"),
   Op(FALSE, TRUE, "critical"), Op(TRUE, FALSE, "normal"), Op(TRUE, TRUE, "high"),
   BadEnv(FALSE, TRUE), BadEnv(TRUE, FALSE), BadFrame("badHeader"), BadFrame("badSplit")}

(* Batches of Normal requests only, beside Low ones outside a batch: a     *)
(* batch's last frame is then never processed before its other frames.     *)
OneClassBatches ==
  {Hello} \cup {Op(n, b, "normal") : n, b \in BOOLEAN}
    \cup {Op(n, FALSE, "low") : n \in BOOLEAN} \cup {BadEnv(FALSE, TRUE)}

(* Two classes in one batch.                                               *)
TwoClasses == {Hello, Op(FALSE, TRUE, "low"), Op(FALSE, TRUE, "normal"), Op(FALSE, FALSE, "normal")}

Plain    == {Hello, Op(FALSE, FALSE, "normal")}
=============================================================================
