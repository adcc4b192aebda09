-------------------------- MODULE HttpServerProofs --------------------------
(* The HTTP server for every set of clients and scripts of requests, every   *)
(* size of the file, of the buffer of sendfile and of a socket's buffer.     *)
EXTENDS HttpServer, TLAPS, SequenceTheorems

\* get_line takes no more than what came, and nothing arrives before accept.
LinesTaken ==
  \A c \in Conns :
    /\ conn[c].taken <= conn[c].arrived
    /\ conn[c].state \in {"new", "queued"} => conn[c].arrived = 0

\* The connection that is served has no other event in the batch; once its
\* headers ended, what came since has an event of its own.
Serving ==
  /\ pc \in {"first", "headers", "respond", "file"} => cur \in Conns \ batch
  /\ pc = "wait" => cur = None
  /\ pc \in {"respond", "file"} /\ conn[cur].taken < conn[cur].arrived
       => cur \in edges \/ AfterBlank(cur)

\* While a file is sent, body is a part of what was read of it, and all of it as
\* long as the socket took every chunk.
Sending ==
  pc = "file" =>
    /\ Len(body) <= at
    /\ Len(body) = at <=> ~short
    /\ \A i \in 1..Len(body) : body[i] <= at

IInv ==
  /\ ServedIsOpen /\ ClosedAtEnd /\ BodyInOrder /\ NothingForgotten
  /\ LinesTaken /\ Serving /\ Sending

Halves == {"get1", "get2", "hdr1", "hdr2", "cr", "lf"}

-----------------------------------------------------------------------------
(* get_line *)

LEMMA ScriptOfLines ==
  ASSUME scenario \in Scenarios
  PROVE  /\ Script \in Seq(Halves) /\ Len(Script) \in Nat
         /\ \A k \in 1..Len(Script) :
              k % 2 = 1 => <<Script[k], Script[k + 1]>> \in Lines
BY ScenariosAssumption, LenProperties DEF Script, Halves

\* A line ends one or two halves on, at an even number of halves.
LEMMA LineEnds ==
  ASSUME NEW t \in Nat
  PROVE  \/ t % 2 = 0 /\ LineEnd(t) = t + 2
         \/ t % 2 = 1 /\ LineEnd(t) = t + 1
BY DEF LineEnd

\* What get_line may return: the end of the connection only when all that came
\* was read, -1 only then too, and after an empty line either all is read or the
\* line ended the headers.
LEMMA GetLineResult ==
  ASSUME scenario \in Scenarios, NEW s \in Socket, s.taken <= s.arrived
  PROVE  /\ GetLine(s).left \in Socket
         /\ GetLine(s).left.state = s.state /\ GetLine(s).left.peer = s.peer
         /\ GetLine(s).left.arrived = s.arrived
         /\ GetLine(s).left.taken <= s.arrived
         /\ GetLine(s).ret = "eof" => s.peer # "here" /\ s.taken = s.arrived
         /\ GetLine(s).ret = "again" => GetLine(s).left.taken = s.arrived
         /\ Blank(GetLine(s).text) =>
              \/ GetLine(s).left.taken = s.arrived
              \/ /\ GetLine(s).left.taken > 0
                 /\ Script[GetLine(s).left.taken] \in {"cr", "lf"}
<1> DEFINE whole == s.arrived >= LineEnd(s.taken)
           to == IF whole THEN LineEnd(s.taken) ELSE s.arrived
           text == SubSeq(Script, s.taken + 1, to)
           left == [s EXCEPT !.taken = to, !.err = @ /\ whole]
<1>1. /\ Script \in Seq(Halves) /\ Len(Script) \in Nat
      /\ \A k \in 1..Len(Script) :
           k % 2 = 1 => <<Script[k], Script[k + 1]>> \in Lines
  BY ScriptOfLines
<1>2. s.taken \in Nat /\ s.arrived \in Nat /\ s.arrived <= Len(Script)
  BY <1>1 DEF Socket
<1>3. \/ s.taken % 2 = 0 /\ LineEnd(s.taken) = s.taken + 2
      \/ s.taken % 2 = 1 /\ LineEnd(s.taken) = s.taken + 1
  BY <1>2, LineEnds
<1>4. /\ to \in Nat /\ to <= s.arrived /\ s.taken <= to
      /\ whole => to = LineEnd(s.taken)
      /\ ~whole => to = s.arrived
  BY <1>2, <1>3
<1>5. GetLine(s) = [text |-> text, ret |-> LineResult(s, whole, text), left |-> left]
  BY DEF GetLine
<1> HIDE DEF whole, to
<1>6. /\ left \in Socket /\ left.state = s.state /\ left.peer = s.peer
      /\ left.arrived = s.arrived /\ left.taken = to
  <2>1. to \in 0..Len(Script)
    BY <1>1, <1>2, <1>4
  <2>2. (s.err /\ whole) \in BOOLEAN
    OBVIOUS
  <2> QED
    BY <2>1, <2>2 DEF Socket
<1>7. /\ text \in Seq(Halves) /\ Len(text) = to - s.taken
      /\ \A i \in 1..Len(text) : text[i] = Script[s.taken + i]
  <2>1. \A i \in (s.taken + 1)..to : Script[i] \in Halves
    BY <1>1, <1>2, <1>4, ElementOfSeq
  <2>2. s.taken + 1 \in Int /\ to \in Int
    BY <1>2, <1>4
  <2>3. /\ text \in Seq(Halves)
        /\ Len(text) = IF s.taken + 1 <= to THEN to - (s.taken + 1) + 1 ELSE 0
        /\ \A i \in 1..(to - (s.taken + 1) + 1) : text[i] = Script[s.taken + 1 + i - 1]
    BY <2>1, <2>2, SubSeqProperties
  <2> HIDE DEF text
  <2>4. Len(text) = to - s.taken
    BY <1>2, <1>4, <2>3
  <2>5. ASSUME NEW i \in 1..Len(text) PROVE text[i] = Script[s.taken + i]
    <3>1. i \in 1..(to - (s.taken + 1) + 1) /\ s.taken + 1 + i - 1 = s.taken + i
      BY <1>2, <1>4, <2>4
    <3> QED
      BY <2>3, <3>1
  <2> QED
    BY <2>3, <2>4, <2>5
<1> HIDE DEF text
<1>8. LineResult(s, whole, text) = "eof" => s.peer # "here" /\ s.taken = s.arrived
  <2> SUFFICES ASSUME LineResult(s, whole, text) = "eof"
               PROVE  s.peer # "here" /\ s.taken = s.arrived
    OBVIOUS
  <2>1. ~whole /\ s.peer # "here" /\ text = <<>>
    BY DEF LineResult
  <2>2. Len(text) = 0
    BY <2>1
  <2> QED
    BY <1>2, <1>4, <1>7, <2>1, <2>2
<1>9. LineResult(s, whole, text) = "again" => to = s.arrived
  BY <1>4 DEF LineResult
<1>10. Blank(text) => to = s.arrived \/ (to > 0 /\ Script[to] \in {"cr", "lf"})
  <2> SUFFICES ASSUME Blank(text), whole PROVE to > 0 /\ Script[to] \in {"cr", "lf"}
    BY <1>4
  <2>1. Head(text) = Script[s.taken + 1] /\ s.taken + 1 <= Len(Script)
    <3>1. Len(text) > 0
      BY <1>2, <1>3, <1>4, <1>7
    <3>2. Head(text) = text[1]
      BY <1>7, <3>1
    <3> QED
      BY <1>2, <1>4, <1>7, <3>1, <3>2
  <2>2. Script[s.taken + 1] \in {"cr", "lf"}
    BY <2>1 DEF Blank
  <2>3. CASE s.taken % 2 = 1
    BY <1>2, <1>3, <1>4, <2>2, <2>3
  <2>4. CASE s.taken % 2 = 0
    <3>1. (s.taken + 1) % 2 = 1 /\ s.taken + 1 \in 1..Len(Script)
      BY <1>2, <2>1, <2>4
    <3>2. <<Script[s.taken + 1], Script[s.taken + 1 + 1]>> \in Lines
      BY <1>1, <3>1
    <3>3. Script[s.taken + 2] = "lf"
      BY <1>2, <2>2, <3>2 DEF Lines
    <3> QED
      BY <1>2, <1>3, <1>4, <2>4, <3>3
  <2> QED
    BY <1>3, <2>3, <2>4
<1> HIDE DEF left
<1> QED
  BY <1>4, <1>5, <1>6, <1>8, <1>9, <1>10

-----------------------------------------------------------------------------
(* The steps *)

LEMMA InitInv == Init => IInv
<1> SUFFICES ASSUME Init PROVE IInv
  OBVIOUS
<1>1. Len(Script) \in Nat
  BY ScriptOfLines DEF Init
<1>2. conn \in [Conns -> Socket]
  BY <1>1, SizesAssumption DEF Init, Socket, Peers
<1>3. at \in 0..FileLen /\ body \in Seq(1..FileLen)
  BY SizesAssumption DEF Init
<1>4. TypeOK
  BY <1>2, <1>3 DEF Init, TypeOK
<1>5. ServedIsOpen /\ ClosedAtEnd /\ NothingForgotten
  BY <1>4, SizesAssumption DEF Init, ServedIsOpen, ClosedAtEnd, NothingForgotten
<1>6. BodyInOrder
  BY DEF Init, BodyInOrder
<1>7. LinesTaken /\ Serving /\ Sending
  BY DEF Init, LinesTaken, Serving, Sending
<1> QED
  BY <1>5, <1>6, <1>7 DEF IInv

\* What clients and the network may do to the connections: nothing arrives on one
\* that is not open, what arrives is an edge, and a client that left is gone.
EnvStep ==
  /\ UNCHANGED <<scenario, batch, serverVars>>
  /\ conn' \in [Conns -> Socket] /\ edges' \subseteq Conns /\ edges \subseteq edges'
  /\ \A c \in Conns :
       /\ conn'[c].taken = conn[c].taken /\ conn'[c].arrived >= conn[c].arrived
       /\ \/ conn'[c].state = conn[c].state
          \/ conn[c].state = "new" /\ conn'[c].state = "queued"
       /\ conn[c].state # "open" => conn'[c].arrived = conn[c].arrived
       /\ conn[c].state # "open" /\ c \in edges' => c \in edges
       /\ conn'[c].arrived # conn[c].arrived => c \in edges'
       /\ conn[c].peer # "here" => conn'[c].peer # "here"

LEMMA EnvironmentSteps == IInv /\ Environment => EnvStep
<1> SUFFICES ASSUME IInv, Environment PROVE EnvStep
  OBVIOUS
<1>1. TypeOK /\ scenario' = scenario
  BY DEF IInv, ServedIsOpen, Environment
<1>2. PICK c \in Conns :
        \/ ClientConnects(c) \/ Arrive(c) \/ ClientReads(c)
        \/ ClientLeaves(c) \/ PeerResets(c)
  BY DEF Environment
<1>3. conn \in [Conns -> Socket] /\ edges \subseteq Conns /\ Len(Script) \in Nat
  BY <1>1, ScriptOfLines DEF TypeOK
<1>4. ASSUME NEW s \in Socket, conn' = [conn EXCEPT ![c] = s],
             UNCHANGED <<batch, serverVars>>,
             edges' = edges \/ (edges' = edges \cup {c} /\ conn[c].state = "open"),
             s.taken = conn[c].taken,
             \/ s.arrived = conn[c].arrived
             \/ s.arrived > conn[c].arrived /\ conn[c].state = "open" /\ c \in edges',
             \/ s.state = conn[c].state
             \/ conn[c].state = "new" /\ s.state = "queued",
             conn[c].peer # "here" => s.peer # "here"
      PROVE  EnvStep
  <2>1. \A d \in Conns : conn'[d] = IF d = c THEN s ELSE conn[d]
    BY <1>3, <1>4
  <2>2. \A d \in Conns : conn[d].arrived \in Nat /\ conn'[d].arrived \in Nat
    <3>1. \A r \in Socket : r.arrived \in Nat
      BY <1>3 DEF Socket
    <3> QED
      BY <1>3, <2>1, <3>1
  <2>3. conn' \in [Conns -> Socket] /\ edges' \subseteq Conns /\ edges \subseteq edges'
    BY <1>3, <1>4
  <2> QED
    BY <1>1, <1>4, <2>1, <2>2, <2>3 DEF EnvStep
<1>5. CASE ClientConnects(c)
  <2> DEFINE s == [conn[c] EXCEPT !.state = "queued"]
  <2>1. /\ s \in Socket /\ s.taken = conn[c].taken /\ s.arrived = conn[c].arrived
        /\ s.state = "queued" /\ s.peer = conn[c].peer
    BY <1>3 DEF Socket
  <2> HIDE DEF s
  <2>2. /\ conn' = [conn EXCEPT ![c] = s] /\ conn[c].state = "new"
        /\ UNCHANGED <<edges, batch, serverVars>>
    BY <1>3, <1>5 DEF ClientConnects, s
  <2> QED
    BY <1>4, <2>1, <2>2
<1>6. CASE Arrive(c)
  <2>1. PICK n \in (conn[c].arrived + 1)..Len(Script) :
          conn' = [conn EXCEPT ![c].arrived = n]
    BY <1>6 DEF Arrive
  <2> DEFINE s == [conn[c] EXCEPT !.arrived = n]
  <2>2. /\ s \in Socket /\ s.taken = conn[c].taken /\ s.arrived > conn[c].arrived
        /\ s.state = conn[c].state /\ s.peer = conn[c].peer
    <3>1. conn[c] \in Socket /\ n \in 0..Len(Script) /\ n > conn[c].arrived
      BY <1>3 DEF Socket
    <3> QED
      BY <3>1 DEF Socket
  <2> HIDE DEF s
  <2>3. /\ conn' = [conn EXCEPT ![c] = s] /\ conn[c].state = "open"
        /\ edges' = edges \cup {c} /\ UNCHANGED <<batch, serverVars>>
    BY <1>3, <1>6, <2>1 DEF Arrive, Edge, s
  <2> QED
    BY <1>4, <2>2, <2>3
<1>7. CASE ClientReads(c)
  <2> DEFINE s == [conn[c] EXCEPT !.unread = @ - 1]
  <2>1. /\ s \in Socket /\ s.taken = conn[c].taken /\ s.arrived = conn[c].arrived
        /\ s.state = conn[c].state /\ s.peer = conn[c].peer
    <3>1. conn[c] \in Socket /\ conn[c].unread - 1 \in 0..SendBuf
      BY <1>3, <1>7, SizesAssumption DEF Socket, ClientReads
    <3> QED
      BY <3>1 DEF Socket
  <2> HIDE DEF s
  <2>2. /\ conn' = [conn EXCEPT ![c] = s]
        /\ UNCHANGED <<edges, batch, serverVars>>
    BY <1>3, <1>7 DEF ClientReads, s
  <2> QED
    BY <1>4, <2>1, <2>2
<1>8. CASE ClientLeaves(c)
  <2>1. PICK p \in {"shut", "gone"}, rst \in BOOLEAN :
          conn' = [conn EXCEPT ![c].peer = p, ![c].reset = rst, ![c].err = rst]
    BY <1>8 DEF ClientLeaves
  <2> DEFINE s == [conn[c] EXCEPT !.peer = p, !.reset = rst, !.err = rst]
  <2>2. /\ s \in Socket /\ s.taken = conn[c].taken /\ s.arrived = conn[c].arrived
        /\ s.state = conn[c].state /\ s.peer # "here"
    BY <1>3 DEF Socket, Peers
  <2> HIDE DEF s
  <2>3. /\ conn' = [conn EXCEPT ![c] = s] /\ conn[c].state = "open"
        /\ edges' = edges \cup {c} /\ UNCHANGED <<batch, serverVars>>
    BY <1>3, <1>8, <2>1 DEF ClientLeaves, Edge, s
  <2> QED
    BY <1>4, <2>2, <2>3
<1>9. CASE PeerResets(c)
  <2> DEFINE s == [conn[c] EXCEPT !.reset = TRUE]
  <2>1. /\ s \in Socket /\ s.taken = conn[c].taken /\ s.arrived = conn[c].arrived
        /\ s.state = conn[c].state /\ s.peer = conn[c].peer
    BY <1>3 DEF Socket
  <2> HIDE DEF s
  <2>2. /\ conn' = [conn EXCEPT ![c] = s]
        /\ edges' = (edges \cup IF conn[c].state = "open" THEN {c} ELSE {})
        /\ UNCHANGED <<batch, serverVars>>
    BY <1>3, <1>9 DEF PeerResets, Edge, s
  <2>3. edges' = edges \/ (edges' = edges \cup {c} /\ conn[c].state = "open")
    BY <2>2
  <2> QED
    BY <1>4, <2>1, <2>2, <2>3
<1> QED
  BY <1>2, <1>5, <1>6, <1>7, <1>8, <1>9

LEMMA EnvironmentInv == IInv /\ Environment => IInv'
<1> SUFFICES ASSUME IInv, EnvStep PROVE IInv'
  BY EnvironmentSteps
<1>1. TypeOK /\ UNCHANGED <<scenario, batch, pc, cur, got, at, body, short, answers>>
  BY DEF IInv, ServedIsOpen, EnvStep, serverVars
<1>2. Script' = Script /\ Socket' = Socket
  BY <1>1 DEF Script, Socket
<1>3. TypeOK'
  BY <1>1, <1>2 DEF TypeOK, EnvStep
<1>4. \A c \in Conns : conn'[c].state = "open" <=> conn[c].state = "open"
  BY DEF EnvStep
<1>5. ServedIsOpen'
  BY <1>1, <1>3, <1>4 DEF IInv, ServedIsOpen, EnvStep
<1>6. ClosedAtEnd'
  <2> SUFFICES ASSUME NEW c \in Conns, conn'[c].state = "closed"
               PROVE  conn'[c].peer # "here" /\ conn'[c].taken = conn'[c].arrived
    BY DEF ClosedAtEnd
  <2>1. conn[c].state = "closed"
    BY DEF EnvStep
  <2> QED
    BY <2>1 DEF IInv, ClosedAtEnd, EnvStep
<1>7. BodyInOrder' /\ Sending'
  BY <1>1 DEF IInv, BodyInOrder, Sending
<1>8. \A c \in Conns : AfterBlank(c)' <=> AfterBlank(c)
  BY <1>2 DEF AfterBlank, EnvStep
<1>9. \A c \in Conns : conn'[c].taken < conn'[c].arrived =>
        conn[c].taken < conn[c].arrived \/ c \in edges'
  BY DEF EnvStep
<1>10. NothingForgotten'
  BY <1>1, <1>4, <1>8, <1>9 DEF IInv, NothingForgotten, EnvStep
<1>11. LinesTaken'
  <2> SUFFICES ASSUME NEW c \in Conns
               PROVE  /\ conn'[c].taken <= conn'[c].arrived
                      /\ conn'[c].state \in {"new", "queued"} => conn'[c].arrived = 0
    BY DEF LinesTaken
  <2>1. conn[c] \in Socket /\ conn'[c] \in Socket /\ Len(Script) \in Nat
    BY <1>1, ScriptOfLines DEF TypeOK, EnvStep
  <2>2. /\ conn[c].taken \in Nat /\ conn[c].arrived \in Nat
        /\ conn'[c].taken \in Nat /\ conn'[c].arrived \in Nat
    BY <2>1 DEF Socket
  <2> QED
    BY <2>2 DEF IInv, LinesTaken, EnvStep
<1>12. Serving'
  <2>1. ASSUME pc \in {"respond", "file"}, conn'[cur].taken < conn'[cur].arrived
        PROVE  cur \in edges' \/ AfterBlank(cur)'
    <3>1. cur \in Conns
      BY <2>1 DEF IInv, Serving
    <3>2. CASE conn[cur].taken < conn[cur].arrived
      BY <1>1, <1>8, <2>1, <3>1, <3>2 DEF IInv, Serving, EnvStep
    <3> QED
      BY <1>9, <2>1, <3>1, <3>2
  <2> QED
    BY <1>1, <2>1 DEF IInv, Serving
<1> QED
  BY <1>5, <1>6, <1>7, <1>10, <1>11, <1>12 DEF IInv

\* What a step of the server leaves of the invariant when it keeps the body: the
\* file part is as before, or does not speak of the place main is at now.
LEMMA BodyKept ==
  ASSUME BodyInOrder, Sending, UNCHANGED <<at, body, short>>, pc' = "file" => pc = "file"
  PROVE  BodyInOrder' /\ Sending'
BY DEF BodyInOrder, Sending

LEMMA EpollWaitInv == IInv /\ EpollWait /\ UNCHANGED scenario => IInv'
<1> SUFFICES ASSUME IInv, EpollWait, UNCHANGED scenario PROVE IInv'
  OBVIOUS
<1>1. /\ TypeOK /\ pc = "wait" /\ batch = {} /\ edges' = {}
      /\ UNCHANGED <<scenario, conn, pc, cur, got, at, body, short, answers>>
  BY DEF IInv, ServedIsOpen, EpollWait, serverVars
<1>2. edges \subseteq batch' /\ batch' \subseteq edges \cup {Lfd}
  BY DEF EpollWait
<1>3. Script' = Script /\ Socket' = Socket
  BY <1>1 DEF Script, Socket
<1>4. TypeOK'
  BY <1>1, <1>2, <1>3 DEF TypeOK
<1>5. ServedIsOpen' /\ ClosedAtEnd' /\ LinesTaken'
  BY <1>1, <1>2, <1>4, SizesAssumption
     DEF IInv, ServedIsOpen, ClosedAtEnd, LinesTaken
<1>6. BodyInOrder' /\ Sending'
  BY <1>1, BodyKept DEF IInv
<1>7. NothingForgotten' /\ Serving'
  BY <1>1, <1>2, <1>3 DEF IInv, NothingForgotten, AfterBlank, Serving
<1> QED
  BY <1>5, <1>6, <1>7 DEF IInv

LEMMA DoAcceptInv ==
  ASSUME IInv, NEW c \in Conns, DoAccept(c), UNCHANGED scenario
  PROVE  IInv'
<1>1. /\ TypeOK /\ pc = "wait" /\ conn[c].state = "queued" /\ batch' = batch \ {Lfd}
      /\ UNCHANGED <<scenario, edges, pc, cur, got, at, body, short, answers>>
      /\ conn' = [conn EXCEPT ![c].state = "open"]
  BY DEF IInv, ServedIsOpen, DoAccept, serverVars
<1>2. Script' = Script /\ Socket' = Socket
  BY <1>1 DEF Script, Socket
<1>3. /\ conn' \in [Conns -> Socket]
      /\ \A d \in Conns :
           /\ conn'[d].state = IF d = c THEN "open" ELSE conn[d].state
           /\ conn'[d].taken = conn[d].taken /\ conn'[d].arrived = conn[d].arrived
           /\ conn'[d].peer = conn[d].peer
  BY <1>1 DEF TypeOK, Socket
<1>4. TypeOK'
  BY <1>1, <1>2, <1>3 DEF TypeOK
<1>5. conn[c].arrived = 0 /\ conn[c].taken = 0
  BY <1>1 DEF IInv, LinesTaken, TypeOK, Socket
<1>6. ServedIsOpen' /\ ClosedAtEnd' /\ LinesTaken'
  BY <1>1, <1>3, <1>4 DEF IInv, ServedIsOpen, ClosedAtEnd, LinesTaken
<1>7. BodyInOrder' /\ Sending'
  BY <1>1, BodyKept DEF IInv
<1>8. NothingForgotten'
  BY <1>1, <1>2, <1>3, <1>5, SizesAssumption DEF IInv, NothingForgotten, AfterBlank
<1>9. Serving'
  BY <1>1 DEF IInv, Serving
<1> QED
  BY <1>6, <1>7, <1>8, <1>9 DEF IInv

LEMMA NextEventInv == IInv /\ NextEvent /\ UNCHANGED scenario => IInv'
<1> SUFFICES ASSUME IInv, NextEvent, UNCHANGED scenario PROVE IInv'
  OBVIOUS
<1>1. /\ TypeOK /\ pc = "wait" /\ cur = None /\ pc' = "first"
      /\ UNCHANGED <<scenario, conn, edges, got, at, body, short, answers>>
  BY DEF IInv, ServedIsOpen, NextEvent, Serving
<1>2. PICK c \in batch \ {Lfd} : batch' = batch \ {c} /\ cur' = c
  BY DEF NextEvent
<1>3. c \in Conns
  BY <1>1, <1>2 DEF TypeOK
<1>4. Script' = Script /\ Socket' = Socket
  BY <1>1 DEF Script, Socket
<1>5. TypeOK'
  BY <1>1, <1>2, <1>3, <1>4 DEF TypeOK
<1>6. ServedIsOpen' /\ ClosedAtEnd' /\ LinesTaken'
  BY <1>1, <1>2, <1>5 DEF IInv, ServedIsOpen, ClosedAtEnd, LinesTaken
<1>7. BodyInOrder' /\ Sending'
  BY <1>1, BodyKept DEF IInv
<1>8. NothingForgotten' /\ Serving'
  BY <1>1, <1>2, <1>3, <1>4, SizesAssumption
     DEF IInv, NothingForgotten, AfterBlank, Serving
<1> QED
  BY <1>6, <1>7, <1>8 DEF IInv

LEMMA CurServed ==
  ASSUME IInv, pc \in {"first", "headers", "respond", "file"}
  PROVE  /\ cur \in Conns /\ cur # None /\ cur \notin batch
         /\ conn[cur] \in Socket /\ conn[cur].state = "open"
         /\ conn[cur].taken <= conn[cur].arrived
<1>1. cur \in Conns /\ cur \notin batch
  BY DEF IInv, Serving
<1> QED
  BY <1>1, SizesAssumption DEF IInv, ServedIsOpen, TypeOK, LinesTaken

\* Lines 246 and 252-261: a line was read, which may have ended the headers.
LEMMA LineRead ==
  ASSUME IInv, pc \in {"first", "headers"},
         conn' = [conn EXCEPT ![cur] = GetLine(conn[cur]).left],
         \/ pc' = "headers"
         \/ pc' = "respond" /\ HeadersEnd(GetLine(conn[cur])),
         got' \in {"GET", "cut", "other"},
         UNCHANGED <<scenario, edges, batch, cur, at, body, short, answers>>
  PROVE  IInv'
<1> DEFINE line == GetLine(conn[cur])
           left == line.left
<1>1. /\ TypeOK /\ cur \in Conns /\ cur # None /\ cur \notin batch
      /\ conn[cur] \in Socket /\ conn[cur].state = "open"
      /\ conn[cur].taken <= conn[cur].arrived
  BY CurServed DEF IInv, ServedIsOpen
<1>2. /\ left \in Socket /\ left.state = "open" /\ left.peer = conn[cur].peer
      /\ left.arrived = conn[cur].arrived /\ left.taken <= conn[cur].arrived
      /\ line.ret = "again" => left.taken = conn[cur].arrived
      /\ Blank(line.text) =>
           \/ left.taken = conn[cur].arrived
           \/ left.taken > 0 /\ Script[left.taken] \in {"cr", "lf"}
  BY <1>1, GetLineResult DEF TypeOK
<1>3. conn' = [conn EXCEPT ![cur] = left]
  OBVIOUS
<1>4. HeadersEnd(line) => Blank(line.text) \/ line.ret = "again"
  BY DEF HeadersEnd
<1> HIDE DEF line, left
<1>5. Script' = Script /\ Socket' = Socket
  BY DEF Script, Socket
<1>6. \A c \in Conns : conn'[c] = IF c = cur THEN left ELSE conn[c]
  BY <1>1, <1>3 DEF TypeOK
<1>7. TypeOK'
  BY <1>1, <1>2, <1>3, <1>5 DEF TypeOK
<1>8. ServedIsOpen' /\ ClosedAtEnd' /\ LinesTaken'
  BY <1>1, <1>2, <1>6, <1>7 DEF IInv, ServedIsOpen, ClosedAtEnd, LinesTaken
<1>9. BodyInOrder' /\ Sending'
  BY BodyKept DEF IInv
<1>10. NothingForgotten'
  BY <1>5, <1>6 DEF IInv, NothingForgotten, AfterBlank
<1>11. Serving'
  <2> SUFFICES ASSUME pc' = "respond", left.taken < left.arrived
               PROVE  AfterBlank(cur)'
    BY <1>1, <1>6 DEF Serving
  <2>1. left.taken > 0 /\ Script[left.taken] \in {"cr", "lf"}
    <3>1. left.taken # conn[cur].arrived
      <4>1. left.taken \in Int /\ left.arrived \in Int
        BY <1>2 DEF Socket
      <4> QED
        BY <1>2, <4>1
    <3> QED
      BY <1>2, <1>4, <3>1 DEF line
  <2> QED
    BY <1>1, <1>5, <1>6, <2>1 DEF AfterBlank
<1> QED
  BY <1>8, <1>9, <1>10, <1>11 DEF IInv

LEMMA ReadRequestLineInv == IInv /\ ReadRequestLine /\ UNCHANGED scenario => IInv'
<1> SUFFICES ASSUME IInv, ReadRequestLine, UNCHANGED scenario PROVE IInv'
  OBVIOUS
<1> DEFINE line == GetLine(conn[cur])
<1>1. /\ TypeOK /\ pc = "first" /\ UNCHANGED <<scenario, batch, at, body, short, answers>>
      /\ cur \in Conns /\ cur # None /\ cur \notin batch /\ conn[cur] \in Socket
      /\ conn[cur].taken <= conn[cur].arrived
  BY CurServed DEF IInv, ServedIsOpen, ReadRequestLine
<1>2. CASE line.ret = "eof" /\ CloseFd(cur) /\ AfterEof /\ UNCHANGED got
  <2>1. conn[cur].peer # "here" /\ conn[cur].taken = conn[cur].arrived
    BY <1>1, <1>2, GetLineResult DEF TypeOK
  <2> HIDE DEF line
  <2>2. /\ conn' = [conn EXCEPT ![cur].state = "closed"] /\ edges' = edges \ {cur}
        /\ pc' = "wait" /\ cur' = None
    BY <1>2 DEF CloseFd, AfterEof
  <2>3. Script' = Script /\ Socket' = Socket
    BY <1>1 DEF Script, Socket
  <2>4. /\ conn' \in [Conns -> Socket]
        /\ \A c \in Conns :
             /\ conn'[c].state = IF c = cur THEN "closed" ELSE conn[c].state
             /\ conn'[c].taken = conn[c].taken /\ conn'[c].arrived = conn[c].arrived
             /\ conn'[c].peer = conn[c].peer
    BY <1>1, <2>2 DEF TypeOK, Socket
  <2>5. TypeOK'
    BY <1>1, <1>2, <2>2, <2>3, <2>4 DEF TypeOK
  <2>6. ServedIsOpen' /\ ClosedAtEnd' /\ LinesTaken'
    BY <1>1, <2>1, <2>2, <2>4, <2>5, SizesAssumption
       DEF IInv, ServedIsOpen, ClosedAtEnd, LinesTaken
  <2>7. BodyInOrder' /\ Sending'
    BY <1>1, <2>2, BodyKept DEF IInv
  <2>8. NothingForgotten' /\ Serving'
    BY <1>1, <2>2, <2>3, <2>4 DEF IInv, NothingForgotten, AfterBlank, Serving
  <2> QED
    BY <2>6, <2>7, <2>8 DEF IInv
<1>3. CASE /\ conn' = [conn EXCEPT ![cur] = line.left]
           /\ got' \in Scanned(line.text) /\ pc' = "headers"
           /\ UNCHANGED <<edges, cur>>
  <2>1. got' \in {"GET", "cut", "other"}
    BY <1>1, <1>3 DEF TypeOK, Scanned
  <2> QED
    BY <1>1, <1>3, <2>1, LineRead
<1> QED
  BY <1>2, <1>3 DEF ReadRequestLine

LEMMA ReadHeaderInv == IInv /\ ReadHeader /\ UNCHANGED scenario => IInv'
<1> SUFFICES ASSUME IInv, ReadHeader, UNCHANGED scenario PROVE IInv'
  OBVIOUS
<1>1. /\ pc = "headers" /\ conn' = [conn EXCEPT ![cur] = GetLine(conn[cur]).left]
      /\ \/ pc' = "headers"
         \/ pc' = "respond" /\ HeadersEnd(GetLine(conn[cur]))
      /\ UNCHANGED <<scenario, edges, batch, cur, got, at, body, short, answers>>
  BY DEF ReadHeader
<1>2. got' \in {"GET", "cut", "other"}
  BY <1>1 DEF IInv, ServedIsOpen, TypeOK
<1> QED
  BY <1>1, <1>2, LineRead

\* A step that answers: it changes nothing of a connection but what the client has
\* to read and the pending error, goes on or is done with the connection, and
\* leaves the body as Sending wants it.
LEMMA AnswerStep ==
  ASSUME IInv, pc \in {"respond", "file"},
         UNCHANGED <<scenario, edges, batch, got>>,
         \/ pc' \in {"file", "exited"} /\ cur' = cur
         \/ pc' = "wait" /\ cur' = None,
         conn' \in [Conns -> Socket],
         \A c \in Conns :
           /\ conn'[c].state = conn[c].state /\ conn'[c].peer = conn[c].peer
           /\ conn'[c].taken = conn[c].taken /\ conn'[c].arrived = conn[c].arrived,
         at' \in 0..FileLen, body' \in Seq(1..FileLen), short' \in BOOLEAN,
         answers' \in [Conns -> Nat],
         BodyInOrder', Sending'
  PROVE  IInv'
<1>1. /\ TypeOK /\ cur \in Conns /\ cur # None /\ cur \notin batch
      /\ conn[cur].state = "open"
  BY CurServed DEF IInv, ServedIsOpen
<1>2. Script' = Script /\ Socket' = Socket
  BY DEF Script, Socket
<1>3. TypeOK'
  BY <1>1, <1>2 DEF TypeOK
<1>4. ServedIsOpen' /\ ClosedAtEnd' /\ LinesTaken'
  <2>1. ServedIsOpen'
    BY <1>1, <1>3, SizesAssumption DEF IInv, ServedIsOpen
  <2>2. ClosedAtEnd'
    BY DEF IInv, ClosedAtEnd
  <2>3. LinesTaken'
    BY DEF IInv, LinesTaken
  <2> QED
    BY <2>1, <2>2, <2>3
<1>5. \A c \in Conns : conn[c].taken > 0 /\ Script[conn[c].taken] \in {"cr", "lf"}
        => conn'[c].taken > 0 /\ Script'[conn'[c].taken] \in {"cr", "lf"}
  BY <1>2
<1>6. NothingForgotten' /\ Serving'
  BY <1>1, <1>5 DEF IInv, NothingForgotten, AfterBlank, Serving
<1> QED
  BY <1>4, <1>6 DEF IInv

\* SendHeader changes what AnswerStep allows.
LEMMA HeaderSent ==
  ASSUME TypeOK, cur \in Conns, SendHeader
  PROVE  /\ conn' \in [Conns -> Socket] /\ answers' \in [Conns -> Nat]
         /\ \A c \in Conns :
              /\ conn'[c].state = conn[c].state /\ conn'[c].peer = conn[c].peer
              /\ conn'[c].taken = conn[c].taken
              /\ conn'[c].arrived = conn[c].arrived
<1> DEFINE fits == conn[cur].unread < SendBuf /\ ~conn[cur].reset
           unread == IF fits THEN conn[cur].unread + 1 ELSE conn[cur].unread
<1>1. conn[cur] \in Socket /\ conn \in [Conns -> Socket]
  BY DEF TypeOK
<1>2. unread \in 0..SendBuf
  BY <1>1, SizesAssumption DEF Socket
<1>3. /\ conn' = [conn EXCEPT ![cur].unread = unread, ![cur].err = FALSE]
      /\ answers' = [answers EXCEPT ![cur] = @ + 1]
  BY <1>1 DEF SendHeader
<1> HIDE DEF unread
<1>4. conn' \in [Conns -> Socket]
  BY <1>1, <1>2, <1>3 DEF Socket
<1>5. answers' \in [Conns -> Nat]
  BY <1>3 DEF TypeOK
<1> QED
  BY <1>1, <1>3, <1>4, <1>5 DEF Socket

LEMMA RespondInv == IInv /\ Respond /\ UNCHANGED scenario => IInv'
<1> SUFFICES ASSUME IInv, Respond, UNCHANGED scenario PROVE IInv'
  OBVIOUS
<1>1. /\ TypeOK /\ pc = "respond" /\ cur \in Conns
      /\ UNCHANGED <<scenario, edges, batch, got>>
  BY CurServed DEF IInv, ServedIsOpen, Respond
<1>2. /\ at \in 0..FileLen /\ body \in Seq(1..FileLen) /\ short \in BOOLEAN
      /\ conn \in [Conns -> Socket] /\ answers \in [Conns -> Nat]
  BY <1>1 DEF TypeOK
<1>3. CASE /\ SendHeader /\ pc' = "file" /\ at' = 0 /\ body' = <<>> /\ short' = FALSE
           /\ UNCHANGED cur
  <2>1. at' \in 0..FileLen /\ body' \in Seq(1..FileLen) /\ short' \in BOOLEAN
    <3>1. 0 \in 0..FileLen /\ <<>> \in Seq(1..FileLen)
      BY SizesAssumption
    <3> QED
      BY <1>3, <3>1
  <2>2. BodyInOrder' /\ Sending'
    <3>1. Len(body') = 0
      BY <1>3
    <3> QED
      BY <1>3, <3>1 DEF BodyInOrder, Sending
  <2> QED
    BY <1>1, <1>3, <2>1, <2>2, HeaderSent, AnswerStep
<1>4. CASE SendHeader /\ pc' = "wait" /\ cur' = None /\ UNCHANGED <<at, body, short>>
  BY <1>1, <1>2, <1>4, BodyKept, HeaderSent, AnswerStep DEF IInv
<1>5. CASE /\ UNCHANGED <<conn, at, body, short, answers>>
           /\ \/ pc' = "exited" /\ cur' = cur
              \/ pc' = "wait" /\ cur' = None
  <2>1. BodyInOrder' /\ Sending'
    BY <1>5, BodyKept DEF IInv
  <2> QED
    BY <1>1, <1>2, <1>5, <2>1, AnswerStep
<1> QED
  BY <1>3, <1>4, <1>5 DEF Respond

\* What send takes of a chunk goes behind what it took before, in the file's order.
LEMMA ChunkInOrder ==
  ASSUME BodyInOrder, Sending, pc = "file", at \in 0..FileLen, body \in Seq(1..FileLen),
         NEW n \in Nat, NEW k \in Nat, k <= n, at + n <= FileLen,
         body' = body \o [j \in 1..k |-> at + j], at' = at + n,
         short' = (short \/ k < n), short \in BOOLEAN
  PROVE  /\ at' \in 0..FileLen /\ body' \in Seq(1..FileLen) /\ short' \in BOOLEAN
         /\ BodyInOrder' /\ Sending'
<1> DEFINE chunk == [j \in 1..k |-> at + j]
<1>1. chunk \in Seq(1..FileLen) /\ Len(chunk) = k /\ \A j \in 1..k : chunk[j] = at + j
  <2>1. chunk \in [1..k -> 1..FileLen]
    BY SizesAssumption
  <2>2. \A j \in 1..k : chunk[j] = at + j
    OBVIOUS
  <2> HIDE DEF chunk
  <2>3. chunk \in Seq(1..FileLen)
    BY <2>1, SeqDef
  <2>4. Len(chunk) = k
    BY <2>1, <2>3, LenProperties
  <2> QED
    BY <2>2, <2>3, <2>4
<1> HIDE DEF chunk
<1>2. /\ body' \in Seq(1..FileLen) /\ Len(body') = Len(body) + k
      /\ \A j \in 1..(Len(body) + k) :
           body'[j] = IF j <= Len(body) THEN body[j] ELSE chunk[j - Len(body)]
  BY <1>1, ConcatProperties DEF chunk
<1>3. /\ Len(body) \in Nat /\ Len(body) <= at /\ (Len(body) = at <=> ~short)
      /\ \A j \in 1..Len(body) : body[j] \in Nat /\ body[j] <= at
  <2>1. Len(body) \in Nat /\ \A j \in 1..Len(body) : body[j] \in 1..FileLen
    BY LenProperties, ElementOfSeq
  <2> QED
    BY <2>1 DEF Sending
<1>4. \A j \in 1..Len(body') :
        \/ j <= Len(body) /\ body'[j] = body[j]
        \/ j > Len(body) /\ body'[j] = at + (j - Len(body)) /\ j - Len(body) \in 1..k
  <2> SUFFICES ASSUME NEW j \in 1..Len(body'), j > Len(body)
               PROVE  body'[j] = at + (j - Len(body)) /\ j - Len(body) \in 1..k
    BY <1>2, <1>3
  <2>1. j - Len(body) \in 1..k /\ j \in 1..(Len(body) + k)
    BY <1>2, <1>3
  <2> QED
    BY <1>1, <1>2, <1>3, <2>1
<1>5. BodyInOrder'
  <2> SUFFICES ASSUME NEW i \in 1..Len(body'), NEW j \in 1..Len(body'), i < j
               PROVE  body'[i] < body'[j]
    BY DEF BodyInOrder
  <2>1. CASE j <= Len(body)
    BY <1>2, <1>3, <1>4, <2>1 DEF BodyInOrder
  <2>2. CASE j > Len(body) /\ i <= Len(body)
    BY <1>2, <1>3, <1>4, <2>2
  <2>3. CASE i > Len(body)
    BY <1>2, <1>3, <1>4, <2>3
  <2> QED
    BY <1>2, <1>3, <2>1, <2>2, <2>3
<1>6. Sending'
  <2>1. Len(body') <= at' /\ (Len(body') = at' <=> ~short')
    <3>1. short' <=> short \/ k < n
      OBVIOUS
    <3>2. Len(body') <= at' /\ (Len(body') = at' <=> Len(body) = at /\ k = n)
      <4>1. Len(body') = Len(body) + k /\ at' = at + n /\ at \in Int
        BY <1>2
      <4> QED
        BY <1>3, <4>1
    <3>3. k = n <=> ~(k < n)
      OBVIOUS
    <3> QED
      BY <1>3, <3>1, <3>2, <3>3
  <2>2. \A j \in 1..Len(body') : body'[j] <= at'
    BY <1>2, <1>3, <1>4
  <2> QED
    BY <2>1, <2>2 DEF Sending
<1> QED
  BY <1>2, <1>5, <1>6

LEMMA SendChunkInv == IInv /\ SendChunk /\ UNCHANGED scenario => IInv'
<1> SUFFICES ASSUME IInv, SendChunk, UNCHANGED scenario PROVE IInv'
  OBVIOUS
<1> DEFINE n == Min2(ChunkLen, FileLen - at)
           k == Min2(n, SendBuf - conn[cur].unread)
<1>1. /\ TypeOK /\ pc = "file" /\ n > 0 /\ cur \in Conns /\ conn[cur] \in Socket
      /\ UNCHANGED <<scenario, edges, batch, cur, got, answers>>
  BY CurServed DEF IInv, ServedIsOpen, SendChunk
<1>2. /\ at \in 0..FileLen /\ body \in Seq(1..FileLen) /\ short \in BOOLEAN
      /\ conn \in [Conns -> Socket] /\ answers \in [Conns -> Nat]
  BY <1>1 DEF TypeOK
<1>3. conn[cur].unread \in 0..SendBuf
  BY <1>1 DEF Socket
<1>4. n \in Nat /\ at + n <= FileLen
  BY <1>1, <1>2, SizesAssumption DEF Min2
<1>5. k \in Nat /\ k <= n /\ conn[cur].unread + k \in 0..SendBuf
  BY <1>3, <1>4, SizesAssumption DEF Min2
<1>6. CASE /\ body' = body \o [j \in 1..k |-> at + j]
           /\ at' = ReadPos(n, k) /\ short' = (short \/ k < n)
           /\ conn' = [conn EXCEPT ![cur].unread = @ + k]
           /\ UNCHANGED pc
  <2> HIDE DEF n, k
  <2>1. /\ at' \in 0..FileLen /\ body' \in Seq(1..FileLen) /\ short' \in BOOLEAN
        /\ BodyInOrder' /\ Sending'
    BY <1>1, <1>2, <1>4, <1>5, <1>6, ChunkInOrder DEF IInv, ReadPos
  <2>2. /\ conn' \in [Conns -> Socket]
        /\ \A c \in Conns :
             /\ conn'[c].state = conn[c].state /\ conn'[c].peer = conn[c].peer
             /\ conn'[c].taken = conn[c].taken /\ conn'[c].arrived = conn[c].arrived
    BY <1>1, <1>2, <1>5, <1>6 DEF Socket
  <2> QED
    BY <1>1, <1>2, <1>6, <2>1, <2>2, AnswerStep
<1>7. CASE pc' = "exited" /\ UNCHANGED <<conn, at, body, short>>
  <2>1. BodyInOrder' /\ Sending'
    BY <1>7, BodyKept DEF IInv
  <2> HIDE DEF n, k
  <2> QED
    BY <1>1, <1>2, <1>7, <2>1, AnswerStep
<1> QED
  BY <1>6, <1>7 DEF SendChunk

LEMMA FileSentInv == IInv /\ FileSent /\ UNCHANGED scenario => IInv'
<1> SUFFICES ASSUME IInv, FileSent, UNCHANGED scenario PROVE IInv'
  OBVIOUS
<1>1. /\ TypeOK /\ pc = "file" /\ pc' = "wait" /\ cur' = None
      /\ UNCHANGED <<scenario, conn, edges, batch, got, at, body, short, answers>>
  BY DEF IInv, ServedIsOpen, FileSent
<1>2. BodyInOrder' /\ Sending'
  BY <1>1, BodyKept DEF IInv
<1> QED
  BY <1>1, <1>2, AnswerStep DEF TypeOK

LEMMA NextInv == IInv /\ [Next]_vars => IInv'
<1> SUFFICES ASSUME IInv, [Next]_vars PROVE IInv'
  OBVIOUS
<1>1. CASE Environment
  BY <1>1, EnvironmentInv
<1>2. CASE Server
  BY <1>2, EpollWaitInv, DoAcceptInv, NextEventInv, ReadRequestLineInv, ReadHeaderInv,
     RespondInv, SendChunkInv, FileSentInv DEF Server
<1>3. CASE UNCHANGED vars
  <2>1. Script' = Script /\ Socket' = Socket
    BY <1>3 DEF vars, Script, Socket
  <2>2. TypeOK'
    BY <1>3, <2>1 DEF IInv, ServedIsOpen, TypeOK, vars, serverVars
  <2> QED
    BY <1>3, <2>1, <2>2 DEF IInv, ServedIsOpen, ClosedAtEnd, BodyInOrder,
       NothingForgotten, AfterBlank, LinesTaken, Serving, Sending, vars, serverVars
<1> QED
  BY <1>1, <1>2, <1>3 DEF Next

LEMMA Invariance == Spec => []IInv
BY InitInv, NextInv, PTL DEF Spec

-----------------------------------------------------------------------------

\* The descriptors epoll_run and closefd use are open, whatever events come for a
\* connection while another one, or the same, is served (lines 107-117, 239-244).
THEOREM Served == Spec => []ServedIsOpen
BY Invariance, PTL DEF IInv

\* No request, cut anywhere, makes the server take a lack of data for the end of
\* the connection (lines 239-243).
THEOREM ClosedOnlyAtEnd == Spec => []ClosedAtEnd
BY Invariance, PTL DEF IInv

\* With edge-triggered events, what is in the buffer of a connection is only left
\* without an event behind an empty line, where the loop of lines 252-261 stops.
THEOREM NotForgotten == Spec => []NothingForgotten
BY Invariance, PTL DEF IInv

\* sendfile sends nothing twice and nothing out of order, for files, chunks and
\* socket buffers of every size (lines 156-173).
THEOREM InOrder == Spec => []BodyInOrder
BY Invariance, PTL DEF IInv

\* A file is sent whole just when the socket took every chunk at once: the loop
\* that ignores how much send took loses the rest (lines 160-172).
THEOREM WholeIfNotShort == Spec => FileComplete
<1>1. IInv /\ [Next]_vars
        => (pc = "file" /\ pc' = "wait" => (Len(body) = FileLen <=> ~short))
  <2> SUFFICES ASSUME IInv, [Next]_vars, pc = "file", pc' = "wait"
               PROVE  Len(body) = FileLen <=> ~short
    OBVIOUS
  <2>1. FileSent
    BY DEF Next, Server, Environment, EpollWait, NextEvent, ReadRequestLine, ReadHeader,
           Respond, SendChunk, DoAccept, ClientConnects, Arrive, ClientReads,
           ClientLeaves, PeerResets, serverVars, vars
  <2>2. at = FileLen
    BY <2>1 DEF FileSent, NothingRead
  <2> QED
    BY <2>2 DEF IInv, Sending
<1> QED
  BY <1>1, Invariance, PTL DEF Spec, FileComplete

-----------------------------------------------------------------------------
(* Whom the server answers. *)

\* An answer goes only to a connection something was read from.
AskedFirst == \A c \in Conns : answers[c] > 0 => conn[c].taken > 0

\* Before anything was read of a connection it has no answer, none to read and no
\* error.
Untouched ==
  \A c \in Conns :
    ~(conn[c].taken > 0) => /\ ~(answers[c] > 0) /\ ~(conn[c].unread > 0)
                            /\ ~conn[c].err /\ ~conn[c].reset

\* An event means that something came or that the client left.
Eventful(c) == conn[c].arrived > 0 \/ conn[c].peer # "here"

\* What the server is doing for cur.
Asked ==
  /\ Untouched
  /\ \A c \in Conns : c \in edges \cup batch => Eventful(c)
  /\ pc = "first" => Eventful(cur)
  /\ pc \in {"headers", "respond", "file"} => conn[cur].taken > 0

\* get_line takes something if something is there; at the end of a connection
\* without an error it says so.
LEMMA GetLineTakes ==
  ASSUME scenario \in Scenarios, NEW s \in Socket, s.taken <= s.arrived
  PROVE  LET left == GetLine(s).left IN
         /\ s.taken > 0 => left.taken > 0
         /\ s.arrived > 0 => left.taken > 0
         /\ ~(s.arrived > 0) /\ s.peer # "here" /\ ~s.err => GetLine(s).ret = "eof"
         /\ left.unread = s.unread /\ left.reset = s.reset /\ (left.err => s.err)
<1> DEFINE whole == s.arrived >= LineEnd(s.taken)
           to == IF whole THEN LineEnd(s.taken) ELSE s.arrived
           text == SubSeq(Script, s.taken + 1, to)
           left == [s EXCEPT !.taken = to, !.err = @ /\ whole]
<1>1. s.taken \in Nat /\ s.arrived \in Nat
  BY ScriptOfLines DEF Socket
<1>2. LineEnd(s.taken) \in Nat /\ LineEnd(s.taken) > s.taken
  BY <1>1, LineEnds
<1>3. GetLine(s) = [text |-> text, ret |-> LineResult(s, whole, text), left |-> left]
  BY DEF GetLine
<1>4. /\ left.taken = to /\ left.unread = s.unread /\ left.reset = s.reset
      /\ left.err => s.err
  BY DEF Socket
<1>5. /\ s.taken > 0 => to > 0
      /\ s.arrived > 0 => to > 0
  BY <1>1, <1>2
<1>6. ASSUME ~(s.arrived > 0), s.peer # "here", ~s.err
      PROVE  LineResult(s, whole, text) = "eof"
  <2>1. ~whole /\ s.taken = 0 /\ to = 0
    BY <1>1, <1>2, <1>6
  <2>2. text = <<>>
    <3>1. text = SubSeq(Script, 1, 0)
      BY <2>1
    <3> HIDE DEF text
    <3> QED
      BY <3>1, ScriptOfLines
  <2> QED
    BY <1>6, <2>1, <2>2 DEF LineResult
<1> HIDE DEF left, text, to, whole
<1> QED
  BY <1>3, <1>4, <1>5, <1>6

LEMMA EnvironmentAsked ==
  ASSUME IInv, Asked, Environment PROVE Asked'
<1>1. /\ EnvStep /\ TypeOK /\ UNCHANGED serverVars
      /\ conn \in [Conns -> Socket] /\ edges \subseteq Conns /\ Len(Script) \in Nat
  BY EnvironmentSteps, ScriptOfLines DEF IInv, ServedIsOpen, TypeOK, EnvStep
<1>2. PICK c \in Conns :
        \/ ClientConnects(c) \/ Arrive(c) \/ ClientReads(c)
        \/ ClientLeaves(c) \/ PeerResets(c)
  BY DEF Environment
<1>3. conn[c] \in Socket
  BY <1>1
<1>4. /\ \A d \in Conns \ {c} : conn'[d] = conn[d]
      /\ conn'[c].unread > 0 => conn[c].unread > 0
      /\ conn'[c].err => conn[c].err \/ conn[c].unread > 0
      /\ conn'[c].reset => conn[c].reset \/ conn[c].unread > 0
      /\ edges' \subseteq edges \cup {c}
      /\ c \in edges' => c \in edges \/ Eventful(c)'
  <2>1. CASE ClientConnects(c)
    BY <1>1, <1>3, <2>1 DEF ClientConnects, Socket
  <2>2. CASE Arrive(c)
    <3>1. PICK n \in (conn[c].arrived + 1)..Len(Script) :
            conn' = [conn EXCEPT ![c].arrived = n]
      BY <2>2 DEF Arrive
    <3>2. n > 0
      <4>1. conn[c].arrived \in Nat
        BY <1>3 DEF Socket
      <4> QED
        BY <4>1
    <3> QED
      BY <1>1, <1>3, <2>2, <3>1, <3>2 DEF Arrive, Edge, Socket, Eventful
  <2>3. CASE ClientReads(c)
    BY <1>1, <1>3, <2>3 DEF ClientReads, Socket
  <2>4. CASE ClientLeaves(c)
    <3>1. PICK p \in {"shut", "gone"}, rst \in BOOLEAN :
            /\ rst => p = "gone" /\ conn[c].unread > 0
            /\ conn' = [conn EXCEPT ![c].peer = p, ![c].reset = rst, ![c].err = rst]
      BY <2>4 DEF ClientLeaves
    <3> QED
      BY <1>1, <1>3, <2>4, <3>1 DEF ClientLeaves, Edge, Socket, Eventful
  <2>5. CASE PeerResets(c)
    BY <1>1, <1>3, <2>5 DEF PeerResets, Edge, Socket, Eventful
  <2> QED
    BY <1>2, <2>1, <2>2, <2>3, <2>4, <2>5
<1>5. \A d \in Conns : /\ conn'[d].taken = conn[d].taken
                       /\ Eventful(d) => Eventful(d)'
  <2>1. ASSUME NEW d \in Conns PROVE conn[d].arrived \in Nat /\ conn'[d].arrived \in Int
    BY <1>1, ScriptOfLines DEF EnvStep, Socket
  <2> QED
    BY <1>1, <2>1 DEF EnvStep, Eventful
<1>6. Untouched'
  BY <1>1, <1>4, <1>5 DEF Asked, Untouched, serverVars
<1>7. \A d \in Conns : d \in (edges \cup batch)' => Eventful(d)'
  BY <1>1, <1>4, <1>5 DEF Asked, EnvStep
<1>8. pc \in {"first", "headers", "respond", "file"} => cur \in Conns
  BY CurServed
<1> QED
  BY <1>1, <1>5, <1>6, <1>7, <1>8 DEF Asked, serverVars, Eventful

\* The loop of epoll_run.
LEMMA LoopAsked ==
  ASSUME IInv, Asked, EpollWait \/ NextEvent \/ \E c \in Conns : DoAccept(c)
  PROVE  Asked'
<1>1. TypeOK /\ conn \in [Conns -> Socket]
  BY DEF IInv, ServedIsOpen, TypeOK
<1>2. CASE EpollWait
  BY <1>2, SizesAssumption DEF EpollWait, Asked, Untouched, Eventful, serverVars
<1>3. CASE NextEvent
  <2>1. PICK c \in batch \ {Lfd} : batch' = batch \ {c} /\ cur' = c
    BY <1>3 DEF NextEvent
  <2>2. c \in Conns /\ Eventful(c)
    BY <1>1, <2>1 DEF TypeOK, Asked
  <2> QED
    BY <1>3, <2>1, <2>2 DEF NextEvent, Asked, Untouched, Eventful
<1>4. ASSUME NEW c \in Conns, DoAccept(c) PROVE Asked'
  <2>1. /\ pc = "wait" /\ conn' = [conn EXCEPT ![c].state = "open"]
        /\ batch' \subseteq batch /\ UNCHANGED <<edges, serverVars>>
    BY <1>4 DEF DoAccept
  <2>2. \A d \in Conns :
          /\ conn'[d].taken = conn[d].taken /\ conn'[d].arrived = conn[d].arrived
          /\ conn'[d].peer = conn[d].peer /\ conn'[d].unread = conn[d].unread
          /\ conn'[d].err = conn[d].err /\ conn'[d].reset = conn[d].reset
    BY <1>1, <2>1 DEF Socket
  <2> QED
    BY <2>1, <2>2 DEF Asked, Untouched, Eventful, serverVars
<1> QED
  BY <1>2, <1>3, <1>4

\* Lines 237-261: what is answered after this has been read from.
LEMMA LinesAsked ==
  ASSUME IInv, Asked, ReadRequestLine \/ ReadHeader
  PROVE  Asked'
<1> DEFINE line == GetLine(conn[cur])
           left == line.left
<1>1. /\ TypeOK /\ cur \in Conns /\ conn[cur] \in Socket
      /\ conn[cur].taken <= conn[cur].arrived /\ pc \in {"first", "headers"}
      /\ conn \in [Conns -> Socket] /\ UNCHANGED <<batch, answers>>
  BY CurServed DEF IInv, ServedIsOpen, TypeOK, ReadRequestLine, ReadHeader
<1>2. /\ conn[cur].taken > 0 => left.taken > 0
      /\ conn[cur].arrived > 0 => left.taken > 0
      /\ ~(conn[cur].arrived > 0) /\ conn[cur].peer # "here" /\ ~conn[cur].err
           => line.ret = "eof"
      /\ left.unread = conn[cur].unread /\ left.reset = conn[cur].reset
      /\ left.err => conn[cur].err
      /\ left.arrived = conn[cur].arrived /\ left.peer = conn[cur].peer
  BY <1>1, GetLineTakes, GetLineResult DEF TypeOK
<1> HIDE DEF line, left
<1>3. CASE /\ conn' = [conn EXCEPT ![cur].state = "closed"]
           /\ edges' = edges \ {cur} /\ pc' = "wait"
  <2>1. \A d \in Conns :
          /\ conn'[d].taken = conn[d].taken /\ conn'[d].arrived = conn[d].arrived
          /\ conn'[d].peer = conn[d].peer /\ conn'[d].unread = conn[d].unread
          /\ conn'[d].err = conn[d].err /\ conn'[d].reset = conn[d].reset
    BY <1>1, <1>3 DEF Socket
  <2> QED
    BY <1>1, <1>3, <2>1 DEF Asked, Untouched, Eventful
<1>4. CASE /\ conn' = [conn EXCEPT ![cur] = left]
           /\ pc = "first" => line.ret # "eof"
           /\ pc' \in {"headers", "respond"} /\ UNCHANGED <<edges, cur>>
  <2>1. \A d \in Conns : conn'[d] = IF d = cur THEN left ELSE conn[d]
    BY <1>1, <1>4
  <2>2. left.taken > 0
    BY <1>1, <1>2, <1>4 DEF Asked, Untouched, Eventful
  <2> QED
    BY <1>1, <1>2, <1>4, <2>1, <2>2 DEF Asked, Untouched, Eventful
<1>5. CASE ReadRequestLine
  <2>1. \/ /\ line.ret = "eof" /\ CloseFd(cur) /\ AfterEof
        \/ /\ line.ret # "eof" /\ conn' = [conn EXCEPT ![cur] = left]
           /\ pc' = "headers" /\ UNCHANGED <<edges, cur>>
    BY <1>5 DEF ReadRequestLine, line, left
  <2> QED
    BY <1>3, <1>4, <2>1 DEF CloseFd, AfterEof
<1>6. CASE ReadHeader
  <2>1. /\ pc = "headers" /\ conn' = [conn EXCEPT ![cur] = left]
        /\ pc' \in {"headers", "respond"} /\ UNCHANGED <<edges, cur>>
    BY <1>6 DEF ReadHeader, line, left
  <2> QED
    BY <1>4, <2>1
<1> QED
  BY <1>5, <1>6

\* http_request and sendfile change nothing but what cur has been sent.
LEMMA AnswerAsked ==
  ASSUME IInv, Asked, Respond \/ SendChunk \/ FileSent
  PROVE  Asked'
<1>1. /\ TypeOK /\ cur \in Conns /\ conn \in [Conns -> Socket]
      /\ pc \in {"respond", "file"} /\ UNCHANGED <<edges, batch>>
      /\ answers \in [Conns -> Nat]
  BY CurServed DEF IInv, ServedIsOpen, TypeOK, Respond, SendChunk, FileSent
<1>2. conn[cur].taken > 0
  BY <1>1 DEF Asked
<1>3. \/ pc' \in {"file", "exited"} /\ cur' = cur
      \/ pc' = "wait"
  BY <1>1 DEF Respond, SendChunk, FileSent
<1>4. /\ \A d \in Conns :
           /\ conn'[d].taken = conn[d].taken /\ conn'[d].arrived = conn[d].arrived
           /\ conn'[d].peer = conn[d].peer
      /\ \A d \in Conns \ {cur} : conn'[d] = conn[d] /\ answers'[d] = answers[d]
  <2>1. CASE UNCHANGED <<conn, answers>>
    BY <2>1
  <2>2. ASSUME NEW u, NEW e, conn' = [conn EXCEPT ![cur].unread = u, ![cur].err = e],
               answers' = [answers EXCEPT ![cur] = @ + 1]
        PROVE  <1>4!:
    BY <1>1, <2>2 DEF Socket
  <2>3. ASSUME NEW u, conn' = [conn EXCEPT ![cur].unread = u], UNCHANGED answers
        PROVE  <1>4!:
    BY <1>1, <2>3 DEF Socket
  <2>4. CASE Respond
    BY <2>1, <2>2, <2>4 DEF Respond, SendHeader
  <2>5. CASE SendChunk
    BY <2>1, <2>3, <2>5 DEF SendChunk
  <2>6. CASE FileSent
    BY <2>1, <2>6 DEF FileSent
  <2> QED
    BY <2>4, <2>5, <2>6
<1> QED
  BY <1>1, <1>2, <1>3, <1>4 DEF Asked, Untouched, Eventful

\* Lines 237-269: method and path are not initialised, and an event without data may
\* find in them what another client asked for; still only clients are answered from
\* whom something was read, because what comes first is data or the end of the
\* connection.
THEOREM NobodyAnsweredUnasked == Spec => []AskedFirst
<1>1. Init => Asked
  BY DEF Init, Asked, Untouched
<1>2. IInv /\ Asked /\ [Next]_vars => Asked'
  <2> SUFFICES ASSUME IInv, Asked, [Next]_vars PROVE Asked'
    OBVIOUS
  <2>1. CASE UNCHANGED vars
    BY <2>1 DEF vars, serverVars, Asked, Untouched, Eventful
  <2> QED
    BY <2>1, EnvironmentAsked, LoopAsked, LinesAsked, AnswerAsked DEF Next, Server
<1>3. Asked => AskedFirst
  BY DEF Asked, Untouched, AskedFirst
<1> QED
  BY <1>1, <1>2, <1>3, InitInv, NextInv, PTL DEF Spec

=============================================================================
