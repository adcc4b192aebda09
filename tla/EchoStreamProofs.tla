-------------------------- MODULE EchoStreamProofs --------------------------
(* The echo connection for messages, buffers and commands of every size. *)
EXTENDS EchoStream, TLAPS

\* What the two processes have done when they reach a place, and what the FINs
\* and a reset mean: without errors the server ends only after the client shut
\* its side down and everything was echoed.
Protocol ==
  /\ swritten <= snr
  /\ cpc = "connect" => nw = 0 /\ spc = "none"
  /\ (outcome = "none") <=> (cpc # "done")
  /\ cpc \in {"connect", "send", "command"} => nr = 0
  /\ outcome \in {"closed", "unconnected"} => nr = 0
  /\ outcome = "unconnected" => faults
  /\ cFin => cpc \notin {"connect", "send"}
  /\ cpc \notin {"connect", "send"} /\ ~reset
       => nw = len \/ outcome = "unconnected"
  /\ reset => faults \/ cpc = "done"
  /\ spc = "ended" /\ ~reset => c2s = 0 /\ cFin
  /\ sFin => spc = "ended"

IInv == TypeOK /\ BytesConserved /\ Protocol

LEMMA CommandsTail ==
  ASSUME cmds \in Seq({"s", "p", "c"}), cmds # <<>>
  PROVE  Tail(cmds) \in Seq({"s", "p", "c"})
OBVIOUS

LEMMA InitInv == Init => IInv
<1> SUFFICES ASSUME Init PROVE IInv
  OBVIOUS
<1>1. cmds \in Seq({"s", "p", "c"})
  BY CommandsAssumption DEF Init
<1>2. TypeOK
  <2>1. 0 \in 0..len /\ 0 \in 0..BufSize /\ 0 \in 0..CapCS /\ 0 \in 0..CapSC
    BY SizesAssumption
  <2> QED
    BY <1>1, <2>1 DEF Init, TypeOK, ClientPC, ServerPC, Outcomes
<1>3. BytesConserved /\ Protocol
  BY SizesAssumption DEF Init, BytesConserved, Held, Protocol
<1> QED
  BY <1>2, <1>3 DEF IInv

LEMMA LoseConserves ==
  ASSUME TypeOK, BytesConserved, Lose
  PROVE  BytesConserved'
<1>1. Held' = Held /\ nr' = nr /\ nw' = nw
  BY DEF Lose, Held, clientVars, serverVars
<1>2. Held \in Int /\ nr \in Int /\ nw \in Int /\ c2s \in Int /\ s2c \in Int
  BY SizesAssumption DEF TypeOK, Held
<1>3. PICK m \in 0..c2s, n \in 0..s2c : c2s' = m /\ s2c' = n
  BY DEF Lose
<1>4. nr + n + Held + m <= nw
  BY <1>2, <1>3 DEF BytesConserved
<1>5. reset' = TRUE
  BY DEF Lose
<1> QED
  BY <1>1, <1>3, <1>4, <1>5 DEF BytesConserved

LEMMA NextInv == IInv /\ [Next]_vars => IInv'
<1> SUFFICES ASSUME IInv, [Next]_vars PROVE IInv'
  OBVIOUS
<1>0. faults' = faults
  BY DEF Next, Client, Server, PeerReset, NetworkFails, Lose, vars
<1> USE <1>0, SizesAssumption
    DEF IInv, TypeOK, BytesConserved, Held, Protocol, ClientPC, ServerPC,
        Outcomes, clientVars, serverVars, ClientExit, Lose
<1>1. CASE Connect
  <2>1. TypeOK'
    BY <1>1 DEF Connect
  <2>2. BytesConserved'
    BY <1>1 DEF Connect
  <2>3. Protocol'
    BY <1>1 DEF Connect
  <2> QED
    BY <2>1, <2>2, <2>3 DEF IInv
<1>2. CASE ClientSend
  BY <1>2 DEF ClientSend
<1>3. CASE ClientSent
  BY <1>3 DEF ClientSent
<1>4. CASE ClientCommand
  BY <1>4, CommandsTail DEF ClientCommand
<1>5. CASE ClientReceive
  BY <1>5 DEF ClientReceive
<1>6. CASE ClientReceived
  BY <1>6 DEF ClientReceived
<1>7. CASE Accept
  <2>1. TypeOK'
    <3>1. spc' \in ServerPC /\ sFin' \in BOOLEAN /\ reset' \in BOOLEAN
      BY <1>7 DEF Accept
    <3>2. c2s' \in 0..CapCS /\ s2c' \in 0..CapSC
      BY <1>7 DEF Accept
    <3> QED
      BY <1>7, <3>1, <3>2 DEF Accept
  <2>2. BytesConserved'
    BY <1>7 DEF Accept
  <2>3. Protocol'
    BY <1>7 DEF Accept
  <2> QED
    BY <2>1, <2>2, <2>3 DEF IInv
<1>8. CASE ServerReceive
  BY <1>8 DEF ServerReceive
<1>9. CASE ServerEof
  BY <1>9 DEF ServerEof
<1>10. CASE ServerSend
  BY <1>10 DEF ServerSend
<1>11. CASE ServerSent
  <2>1. TypeOK'
    BY <1>11 DEF ServerSent
  <2>2. BytesConserved'
    BY <1>11 DEF ServerSent
  <2>3. Protocol'
    BY <1>11 DEF ServerSent
  <2> QED
    BY <2>1, <2>2, <2>3 DEF IInv
<1>12. CASE PeerReset
  <2>1. TypeOK'
    BY <1>12 DEF PeerReset
  <2>2. BytesConserved'
    BY <1>12, LoseConserves DEF PeerReset
  <2>3. Protocol'
    BY <1>12 DEF PeerReset
  <2> QED
    BY <2>1, <2>2, <2>3 DEF IInv
<1>13. CASE NetworkFails
  <2>1. TypeOK'
    BY <1>13 DEF NetworkFails
  <2>2. BytesConserved'
    BY <1>13, LoseConserves DEF NetworkFails
  <2>3. Protocol'
    BY <1>13 DEF NetworkFails
  <2> QED
    BY <2>1, <2>2, <2>3 DEF IInv
<1>14. CASE UNCHANGED vars
  BY <1>14 DEF vars
<1> QED
  BY <1>1, <1>2, <1>3, <1>4, <1>5, <1>6, <1>7, <1>8, <1>9, <1>10, <1>11,
     <1>12, <1>13, <1>14 DEF Next, Client, Server

LEMMA Invariance == Spec => []IInv
BY InitInv, NextInv, PTL DEF Spec

-----------------------------------------------------------------------------

\* The variables keep their types: no send or receive exceeds the message, the
\* server's buffer or the kernels' (lines 40-41 of echo.cc, 46-57 of
\* TcpStream.cc).
THEOREM TypeCorrect == Spec => []TypeOK
BY Invariance, PTL DEF IInv

\* sendAll and the echo loop neither lose nor repeat a byte, whatever the sizes
\* of the writes the kernel accepts.
THEOREM Conservation == Spec => []BytesConserved
BY Invariance, PTL DEF IInv

\* Client and server cannot block each other in sendAll with a message of at
\* most CapCS + CapSC + 1 bytes: the bytes that are in flight or held are all
\* of the client's, and the last one is not sent.
THEOREM NoBlock == Spec => []NoMutualBlock
<1>1. IInv => NoMutualBlock
  BY SizesAssumption
     DEF IInv, TypeOK, BytesConserved, Held, Protocol, NoMutualBlock, MutualBlock
<1> QED
  BY <1>1, Invariance, PTL

\* The processes of echo_client.cc and echo.cc implement the echo service; in
\* particular, "Incomplete response" is not printed unless something failed.
THEOREM Refinement == Spec => EchoesService
<1>1. Init => Service!Init
  BY DEF Init, Service!Init, State
<1>2. IInv /\ [Next]_vars => [Service!Next]_Service!vars
  <2> SUFFICES ASSUME IInv, [Next]_vars PROVE [Service!Next]_Service!vars
    OBVIOUS
  <2>0. faults' = faults
    BY DEF Next, Client, Server, PeerReset, NetworkFails, Lose, vars
  <2> USE <2>0, SizesAssumption
      DEF clientVars, serverVars, ClientExit, State, IInv, TypeOK, Protocol,
          Service!Next, Service!vars
  <2>1. CASE ClientSend
    BY <2>1 DEF ClientSend, Service!Send
  <2>2. CASE ClientReceive
    <3>1. nr' \in (nr + 1)..nw
      BY <2>2 DEF ClientReceive, BytesConserved, Held
    <3> QED
      BY <2>2, <3>1 DEF ClientReceive, Service!Return
  <2>3. CASE Connect
    BY <2>3 DEF Connect, Service!Fail
  <2>4. CASE ClientCommand
    BY <2>4 DEF ClientCommand, Service!GiveUp
  <2>5. CASE ClientReceived
    <3>1. CASE ClientExit("complete") /\ nr = nw
      BY <2>5, <3>1 DEF ClientReceived, Service!Complete
    <3>2. CASE ClientExit("incomplete") /\ (nr # nw \/ (nr = 0 /\ len > 0 /\ reset))
      <4>1. faults
        BY <2>5, <3>2 DEF ClientReceived, BytesConserved, Held
      <4> QED
        BY <2>5, <3>2, <4>1 DEF ClientReceived, Service!Fail
    <3> QED
      BY <2>5, <3>1, <3>2 DEF ClientReceived
  <2>6. CASE \/ ClientSent \/ Server \/ PeerReset \/ NetworkFails
            \/ UNCHANGED vars
    <3>1. UNCHANGED <<nw, nr, outcome>>
      BY <2>6 DEF ClientSent, Server, Accept, ServerReceive, ServerEof,
                  ServerSend, ServerSent, PeerReset, NetworkFails, Lose, vars
    <3> QED
      BY <3>1
  <2> QED
    BY <2>1, <2>2, <2>3, <2>4, <2>5, <2>6 DEF Next, Client
<1> QED
  BY <1>1, <1>2, Invariance, PTL DEF Spec, EchoesService, Service!Spec

=============================================================================
