---------------------------- MODULE EchoService -----------------------------
(***************************************************************************)
(* What the echo service of ttcp promises one client, without buffers,     *)
(* loops or a server thread: bytes are sent, at most that many come back,  *)
(* and the exchange ends complete, with an error, or given up by the       *)
(* client.  Where nothing may fail a complete exchange has returned all    *)
(* len bytes.                                                              *)
(***************************************************************************)
EXTENDS Integers

CONSTANT len

VARIABLES sent, back, state, mayFail

vars == <<sent, back, state, mayFail>>

Init ==
  /\ sent = 0 /\ back = 0 /\ state = "open"
  /\ mayFail \in BOOLEAN

Send ==
  /\ state = "open"
  /\ sent' \in (sent + 1)..len
  /\ UNCHANGED <<back, state>>

Return ==
  /\ state = "open"
  /\ back' \in (back + 1)..sent
  /\ UNCHANGED <<sent, state>>

Complete ==
  /\ state = "open" /\ back = sent
  /\ sent = len \/ mayFail
  /\ state' = "complete"
  /\ UNCHANGED <<sent, back>>

GiveUp ==
  /\ state = "open" /\ back = 0
  /\ sent = len \/ mayFail
  /\ state' = "given_up"
  /\ UNCHANGED <<sent, back>>

Fail ==
  /\ state = "open" /\ mayFail
  /\ state' = "failed"
  /\ UNCHANGED <<sent, back>>

Next ==
  /\ Send \/ Return \/ Complete \/ GiveUp \/ Fail
  /\ UNCHANGED mayFail

Spec == Init /\ [][Next]_vars

=============================================================================
