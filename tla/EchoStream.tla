----------------------------- MODULE EchoStream -----------------------------
(***************************************************************************)
(* One connection of ttcp: echo_client.cc sends len bytes with             *)
(* TcpStream::sendAll, carries out its commands and reads the answer with  *)
(* TcpStream::receiveAll; the thread of echo.cc that serves it echoes what *)
(* receiveSome returns with sendAll.                                       *)
(*                                                                         *)
(* All bytes are the letter S and TCP keeps their order, so each direction *)
(* of the connection is the number of bytes sent and not yet received,     *)
(* bounded by what the two kernels buffer.  A socket closed while bytes    *)
(* are on their way to it resets the connection; a reset loses an          *)
(* arbitrary part of what is in flight, makes a send fail, and makes a     *)
(* receive fail once the bytes that did arrive are read.                   *)
(***************************************************************************)
EXTENDS Integers, Sequences

CONSTANTS
  len,                  \* message_length, the second argument of the client
  CapCS, CapSC,         \* bytes the kernels buffer in each direction
  BufSize,              \* the server's buffer, 4096 in the program
  Commands              \* the third arguments the client may be given

ASSUME SizesAssumption ==
  /\ len \in Nat /\ CapCS \in Nat \ {0} /\ CapSC \in Nat \ {0}
  /\ BufSize \in Nat \ {0}

ASSUME CommandsAssumption == Commands \subseteq Seq({"s", "p", "c"})

VARIABLES
  cpc, nw, nr, cmds, outcome,   \* the client's main
  spc, snr, swritten,           \* the server: its thread for this client
  c2s, s2c,                     \* bytes in flight
  cFin, sFin, reset,            \* what the two ends did to the connection
  faults                        \* whether connect, accept and the network may fail

clientVars == <<cpc, nw, nr, cmds, outcome>>
serverVars == <<spc, snr, swritten>>
vars == <<clientVars, serverVars, c2s, s2c, cFin, sFin, reset, faults>>

ClientPC == {"connect", "send", "command", "receive", "done"}
ServerPC == {"none", "receive", "send", "ended"}
Outcomes == {"none", "complete", "incomplete", "closed", "unconnected"}

Init ==
  /\ cpc = "connect" /\ nw = 0 /\ nr = 0 /\ outcome = "none"
  /\ cmds \in Commands
  /\ spc = "none" /\ snr = 0 /\ swritten = 0
  /\ c2s = 0 /\ s2c = 0
  /\ cFin = FALSE /\ sFin = FALSE /\ reset = FALSE
  /\ faults \in BOOLEAN

-----------------------------------------------------------------------------
(* echo_client.cc *)

\* main returns: the stream is destroyed, which closes the socket.
ClientExit(o) == cpc' = "done" /\ outcome' = o /\ cFin' = TRUE

\* TcpStream::connect returns no stream when connect fails or when the socket
\* is connected to itself.
Connect ==
  /\ cpc = "connect"
  /\ \/ cpc' = "send" /\ UNCHANGED <<outcome, cFin>>
     \/ faults /\ ClientExit("unconnected")
  /\ UNCHANGED <<nw, nr, cmds, serverVars, c2s, s2c, sFin, reset>>

\* The loop of sendAll: what the kernel takes now.
ClientSend ==
  /\ cpc = "send" /\ ~reset
  /\ \E k \in 1..(CapCS - c2s) :
       /\ nw + k <= len
       /\ nw' = nw + k /\ c2s' = c2s + k
  /\ UNCHANGED <<cpc, nr, cmds, outcome, serverVars, s2c, cFin, sFin, reset>>

\* sendAll returns: everything is written, or send failed.
ClientSent ==
  /\ cpc = "send"
  /\ nw = len \/ reset
  /\ cpc' = "command"
  /\ UNCHANGED <<nw, nr, cmds, outcome, serverVars, c2s, s2c, cFin, sFin, reset>>

\* The commands s (shutdown), p (pause) and c (close), one after the other.
ClientCommand ==
  /\ cpc = "command"
  /\ \/ /\ cmds = <<>> /\ cpc' = "receive"
        /\ UNCHANGED <<cmds, outcome, cFin>>
     \/ /\ cmds # <<>> /\ Head(cmds) = "c"
        /\ ClientExit("closed") /\ UNCHANGED cmds
     \/ /\ cmds # <<>> /\ Head(cmds) # "c"
        /\ cmds' = Tail(cmds)
        /\ cFin' = (cFin \/ Head(cmds) = "s")
        /\ UNCHANGED <<cpc, outcome>>
  /\ UNCHANGED <<nw, nr, serverVars, c2s, s2c, sFin, reset>>

\* receiveAll (MSG_WAITALL): bytes are taken as they arrive.
ClientReceive ==
  /\ cpc = "receive"
  /\ \E k \in 1..s2c :
       /\ nr + k <= len
       /\ nr' = nr + k /\ s2c' = s2c - k
  /\ UNCHANGED <<cpc, nw, cmds, outcome, serverVars, c2s, cFin, sFin, reset>>

\* receiveAll returns nr, or -1 when the connection failed before any byte
\* came; a value other than nw is reported as an incomplete response.
ClientReceived ==
  /\ cpc = "receive"
  /\ nr = len \/ (s2c = 0 /\ (sFin \/ reset))
  /\ \/ nr = nw /\ ClientExit("complete")
     \/ /\ nr # nw \/ (nr = 0 /\ len > 0 /\ reset)
        /\ ClientExit("incomplete")
  /\ UNCHANGED <<nw, nr, cmds, serverVars, c2s, s2c, sFin, reset>>

Client ==
  /\ \/ Connect \/ ClientSend \/ ClientSent \/ ClientCommand
     \/ ClientReceive \/ ClientReceived
  /\ UNCHANGED faults

-----------------------------------------------------------------------------
(* echo.cc *)

\* The connection waits in the backlog until main accepts it.  When accept
\* fails (no descriptor is left), the new thread uses a null stream and the
\* whole server dies.
Accept ==
  /\ cpc # "connect" /\ outcome # "unconnected" /\ spc = "none"
  /\ \/ spc' = "receive" /\ UNCHANGED <<s2c, c2s, sFin, reset>>
     \/ /\ faults
        /\ spc' = "ended" /\ sFin' = TRUE /\ reset' = TRUE
        /\ c2s' = 0 /\ s2c' = 0
  /\ UNCHANGED <<clientVars, snr, swritten, cFin>>

\* Mutant: the length passed to receiveSome is off by one.
ServerReceiveOver ==
  /\ spc = "receive"
  /\ \E k \in 1..(BufSize + 1) :
       /\ k <= c2s
       /\ snr' = k /\ c2s' = c2s - k
  /\ swritten' = 0
  /\ spc' = "send"
  /\ UNCHANGED <<clientVars, s2c, cFin, sFin, reset>>

\* Mutant: receiveAll in the place of receiveSome.
ServerReceiveAll ==
  /\ spc = "receive"
  /\ c2s > 0 /\ (c2s >= BufSize \/ cFin)
  /\ snr' = (IF c2s >= BufSize THEN BufSize ELSE c2s)
  /\ c2s' = c2s - snr'
  /\ swritten' = 0
  /\ spc' = "send"
  /\ UNCHANGED <<clientVars, s2c, cFin, sFin, reset>>

\* receiveSome returns between one byte and a full buffer.
ServerReceive ==
  /\ spc = "receive"
  /\ \E k \in 1..BufSize :
       /\ k <= c2s
       /\ snr' = k /\ c2s' = c2s - k
  /\ swritten' = 0
  /\ spc' = "send"
  /\ UNCHANGED <<clientVars, s2c, cFin, sFin, reset>>

\* Mutant: the client's shutdown ends the thread before all is received.
ServerEofEarly ==
  /\ spc = "receive"
  /\ cFin \/ reset
  /\ spc' = "ended" /\ sFin' = TRUE
  /\ UNCHANGED <<clientVars, snr, swritten, c2s, s2c, cFin, reset>>

\* Mutant: the loop goes on when receiveSome returns 0.
ServerEofIgnored ==
  /\ spc = "receive"
  /\ c2s = 0 /\ reset
  /\ spc' = "ended" /\ sFin' = TRUE
  /\ UNCHANGED <<clientVars, snr, swritten, c2s, s2c, cFin, reset>>

\* receiveSome returns 0 or -1: the thread ends and closes its stream.
ServerEof ==
  /\ spc = "receive"
  /\ c2s = 0 /\ (cFin \/ reset)
  /\ spc' = "ended" /\ sFin' = TRUE
  /\ UNCHANGED <<clientVars, snr, swritten, c2s, s2c, cFin, reset>>

\* Mutant: after a short write sendAll starts again at the first byte.
ServerSendRepeats ==
  /\ spc = "send" /\ ~reset
  /\ \E k \in 1..(CapSC - s2c) :
       /\ swritten + k <= snr
       /\ swritten' = (IF swritten + k < snr THEN 0 ELSE snr)
       /\ s2c' = s2c + k
  /\ UNCHANGED <<clientVars, spc, snr, c2s, cFin, sFin, reset>>

ServerSend ==
  /\ spc = "send" /\ ~reset
  /\ \E k \in 1..(CapSC - s2c) :
       /\ swritten + k <= snr
       /\ swritten' = swritten + k /\ s2c' = s2c + k
  /\ UNCHANGED <<clientVars, spc, snr, c2s, cFin, sFin, reset>>

\* Mutant: sendSome in the place of sendAll, its result unused.
ServerSentSome ==
  /\ spc = "send"
  /\ swritten > 0 \/ reset
  /\ spc' = "receive"
  /\ UNCHANGED <<clientVars, snr, swritten, c2s, s2c, cFin, sFin, reset>>

\* sendAll returns nw; the thread ends when that is less than nr.
ServerSent ==
  /\ spc = "send"
  /\ \/ swritten = snr /\ spc' = "receive" /\ UNCHANGED sFin
     \/ swritten < snr /\ reset /\ spc' = "ended" /\ sFin' = TRUE
  /\ UNCHANGED <<clientVars, snr, swritten, c2s, s2c, cFin, reset>>

Server ==
  /\ Accept \/ ServerReceive \/ ServerEof \/ ServerSend \/ ServerSent
  /\ UNCHANGED faults

-----------------------------------------------------------------------------
(* The network *)

Lose ==
  /\ reset' = TRUE
  /\ c2s' \in 0..c2s /\ s2c' \in 0..s2c
  /\ UNCHANGED <<clientVars, serverVars, cFin, sFin, faults>>

\* Bytes reach the client's closed socket.
PeerReset == cpc = "done" /\ s2c > 0 /\ ~reset /\ Lose

NetworkFails == faults /\ cpc # "connect" /\ ~reset /\ Lose

-----------------------------------------------------------------------------
Next == Client \/ Server \/ PeerReset \/ NetworkFails

Spec == Init /\ [][Next]_vars

\* Both processes keep running and the kernels keep delivering.
FairSpec ==
  Spec /\ WF_vars(Client) /\ WF_vars(Server) /\ WF_vars(PeerReset)

-----------------------------------------------------------------------------
(* Properties *)

TypeOK ==
  /\ cpc \in ClientPC /\ nw \in 0..len /\ nr \in 0..len
  /\ cmds \in Seq({"s", "p", "c"}) /\ outcome \in Outcomes
  /\ spc \in ServerPC /\ snr \in 0..BufSize /\ swritten \in 0..BufSize
  /\ c2s \in 0..CapCS /\ s2c \in 0..CapSC
  /\ cFin \in BOOLEAN /\ sFin \in BOOLEAN /\ reset \in BOOLEAN
  /\ faults \in BOOLEAN

\* Bytes the server thread has received and not yet written.
Held == IF spc = "send" THEN snr - swritten ELSE 0

\* The loops of both sendAll neither skip nor repeat a byte (lines 46-57 of
\* TcpStream.cc): every byte the client sent is in flight, held by the server
\* or back, and only a reset loses some.
BytesConserved ==
  /\ nr + s2c + Held + c2s <= nw
  /\ ~reset => nr + s2c + Held + c2s = nw

\* Both ends sit in sendAll with the buffers before them full.
MutualBlock ==
  /\ cpc = "send" /\ nw < len /\ c2s = CapCS /\ ~reset
  /\ spc = "send" /\ swritten < snr /\ s2c = CapSC

\* The client writes its whole message before it reads (lines 35 and 66 of
\* echo_client.cc): client and server never block on each other as long as the
\* message is at most one byte longer than what the buffers hold.
NoMutualBlock == len <= CapCS + CapSC + 1 => ~MutualBlock

\* What the client observes is the service EchoService describes; a network
\* that can fail, and a client that can, are its mayFail.
State ==
  CASE outcome = "none" -> "open"
    [] outcome = "complete" -> "complete"
    [] outcome = "closed" -> "given_up"
    [] OTHER -> "failed"

Service == INSTANCE EchoService WITH
             sent <- nw, back <- nr, state <- State, mayFail <- faults

\* The client and the server thread implement the echo service: no byte comes
\* back that was not sent, "Incomplete response" is printed only after a
\* failure, also when the client shut down its side before it read (line 42 of
\* echo_client.cc), and a complete response has all len bytes.
EchoesService == Service!Spec

\* The client ends, whatever its commands, if its message fits the buffers.
ClientEnds == <>(cpc = "done")

\* The thread that serves a client that ended ends too (lines 38-46 of echo.cc):
\* no thread or descriptor is left behind by a client, also by one that closes
\* without reading the response.
ServerThreadEnds ==
  cpc = "done" /\ outcome # "unconnected" ~> spc = "ended"

=============================================================================
