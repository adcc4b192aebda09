------------------------------ MODULE UdpEcho -------------------------------
(***************************************************************************)
(* udp/client.c and udp/server.c: each client sends a line and waits, with *)
(* no timeout, for the answer of the one server, which returns the bytes   *)
(* in upper case to the address it had the last datagram from.             *)
(*                                                                         *)
(* All run on one host, so datagrams keep their order; one is lost when it *)
(* meets a full queue or no socket.  A client that is killed and started   *)
(* again may be given the same port.  A text is the line it came from, of  *)
(* the process it was typed into, and whether it is in upper case; lines   *)
(* have one length, so an answer covers all of the line it is read over.   *)
(***************************************************************************)
EXTENDS Naturals, SequencesExt

CONSTANTS Clients, None,
          NLines,             \* bound: lines a process reads before its end of file
          Cap,                \* datagrams the server's socket queues
          MaxBirths,          \* bound: restarts of a client
          MaxStarts           \* bound: starts of the server

ASSUME UdpAssumption ==
  /\ NLines \in Nat /\ Cap \in Nat /\ MaxBirths \in Nat /\ MaxStarts \in Nat
  /\ None \notin Clients

VARIABLES
  pc, buf, left,      \* client -> where it is, its buf, the lines still to come
  births,             \* client -> how often it was restarted
  server, cli_addr, server_buf, starts,
  inbox, answers,     \* the server's queue; client -> its queue
  asked,              \* client -> history: the text it sent last
  lost,               \* history: clients a datagram of whose port was lost
  late                \* history: clients that took an earlier process's answer

clientVars == <<pc, buf, left, births, asked>>
serverVars == <<server, cli_addr, server_buf, starts>>
vars == <<clientVars, serverVars, inbox, answers, lost, late>>

Texts == [proc : 0..MaxBirths, n : 0..NLines, upper : BOOLEAN]
Text(c, n) == [proc |-> births[c], n |-> n, upper |-> FALSE]
ToUpper(text) == [text EXCEPT !.upper = TRUE]

\* buf is not initialised: its content is text 0 of the process.
Init ==
  /\ pc = [c \in Clients |-> "fgets"]
  /\ buf = [c \in Clients |-> [proc |-> 0, n |-> 0, upper |-> FALSE]]
  /\ left = [c \in Clients |-> NLines]
  /\ births = [c \in Clients |-> 0]
  /\ server = "down" /\ cli_addr = None /\ starts = 0
  /\ server_buf = [proc |-> 0, n |-> 0, upper |-> FALSE]
  /\ inbox = <<>> /\ answers = [c \in Clients |-> <<>>]
  /\ asked = buf /\ lost = {} /\ late = {}

-----------------------------------------------------------------------------
(* client.c *)

\* At the end of the input fgets returns NULL, which nobody looks at, and leaves
\* buf as it is: the last answer is sent again, for ever.
Fgets(c) ==
  /\ pc[c] = "fgets"
  /\ \/ /\ left[c] > 0
        /\ buf' = [buf EXCEPT ![c] = Text(c, left[c])]
        /\ left' = [left EXCEPT ![c] = @ - 1]
     \/ left' = [left EXCEPT ![c] = 0] /\ UNCHANGED buf
  /\ pc' = [pc EXCEPT ![c] = "sendto"]
  /\ UNCHANGED <<births, asked, serverVars, inbox, answers, lost, late>>

Taken == server # "down" /\ Len(inbox) < Cap

Sendto(c) ==
  /\ pc[c] = "sendto"
  /\ inbox' = IF Taken THEN Append(inbox, [from |-> c, text |-> buf[c]]) ELSE inbox
  /\ lost' = IF Taken THEN lost ELSE lost \cup {c}
  /\ asked' = [asked EXCEPT ![c] = buf[c]]
  /\ pc' = [pc EXCEPT ![c] = "recvfrom"]
  /\ UNCHANGED <<buf, left, births, serverVars, answers, late>>

\* recvfrom takes whatever came to the port, from whoever sent it.
Recvfrom(c) ==
  /\ pc[c] = "recvfrom" /\ answers[c] # <<>>
  /\ buf' = [buf EXCEPT ![c] = Head(answers[c])]
  /\ late' = IF Head(answers[c]).proc = births[c] THEN late ELSE late \cup {c}
  /\ answers' = [answers EXCEPT ![c] = Tail(@)]
  /\ pc' = [pc EXCEPT ![c] = "write"]
  /\ UNCHANGED <<left, births, asked, serverVars, inbox, lost>>

Write(c) ==
  /\ pc[c] = "write"
  /\ pc' = [pc EXCEPT ![c] = "fgets"]
  /\ UNCHANGED <<buf, left, births, asked, serverVars, inbox, answers, lost, late>>

\* The process is killed, its socket with it, and a new one has its port.
ClientRestarts(c) ==
  /\ births[c] < MaxBirths
  /\ births' = [births EXCEPT ![c] = @ + 1]
  /\ pc' = [pc EXCEPT ![c] = "fgets"]
  /\ left' = [left EXCEPT ![c] = NLines]
  /\ buf' = [buf EXCEPT ![c] = [proc |-> births[c] + 1, n |-> 0, upper |-> FALSE]]
  /\ answers' = [answers EXCEPT ![c] = <<>>]
  /\ lost' = lost \ {c} /\ late' = late \ {c}
  /\ UNCHANGED <<asked, serverVars, inbox>>

-----------------------------------------------------------------------------
(* server.c *)

ServerStarts ==
  /\ server = "down" /\ starts < MaxStarts
  /\ server' = "recvfrom" /\ cli_addr' = None /\ starts' = starts + 1
  /\ UNCHANGED <<clientVars, server_buf, inbox, answers, lost, late>>

\* What its socket queued, and the datagram it was answering, are lost.
ServerStops ==
  /\ server # "down"
  /\ server' = "down" /\ cli_addr' = None /\ inbox' = <<>>
  /\ lost' = lost \cup {inbox[k].from : k \in DOMAIN inbox}
                  \cup (IF server = "sendto" THEN {cli_addr} ELSE {})
  /\ UNCHANGED <<clientVars, server_buf, starts, answers, late>>

\* Mutant: the address of the first client is kept.
SenderFirst(d) == IF cli_addr = None THEN d.from ELSE cli_addr
\* The address recvfrom leaves in cli_addr.
Sender(d) == d.from

\* Mutant: one recvfrom takes all that was sent, as from a stream.
QueuedNothing(q) == <<>>
\* What a recvfrom leaves in the queue: it takes one datagram.
Queued(q) == Tail(q)

\* recvfrom, and toupper of what it read.
Request ==
  /\ server = "recvfrom" /\ inbox # <<>>
  /\ cli_addr' = Sender(Head(inbox))
  /\ server_buf' = ToUpper(Head(inbox).text)
  /\ inbox' = Queued(inbox)
  /\ server' = "sendto"
  /\ UNCHANGED <<clientVars, starts, answers, lost, late>>

\* sendto; a client has at most one answer queued per process that had its port,
\* which its socket always holds.
Answer ==
  /\ server = "sendto"
  /\ answers' = [answers EXCEPT ![cli_addr] = Append(@, server_buf)]
  /\ server' = "recvfrom"
  /\ UNCHANGED <<clientVars, cli_addr, server_buf, starts, inbox, lost, late>>

Server == Request \/ Answer

-----------------------------------------------------------------------------
Next ==
  \/ \E c \in Clients :
       Fgets(c) \/ Sendto(c) \/ Recvfrom(c) \/ Write(c) \/ ClientRestarts(c)
  \/ ServerStarts \/ ServerStops \/ Server

Spec == Init /\ [][Next]_vars

\* The server runs while it is up, and a client takes the answer that is there.
FairSpec ==
  /\ Spec
  /\ WF_vars(Server)
  /\ \A c \in Clients : WF_vars(Recvfrom(c))

-----------------------------------------------------------------------------
(* Properties *)

TypeOK ==
  /\ pc \in [Clients -> {"fgets", "sendto", "recvfrom", "write"}]
  /\ buf \in [Clients -> Texts] /\ asked \in [Clients -> Texts]
  /\ left \in [Clients -> 0..NLines] /\ births \in [Clients -> 0..MaxBirths]
  /\ server \in {"down", "recvfrom", "sendto"} /\ starts \in 0..MaxStarts
  /\ cli_addr \in Clients \cup {None} /\ server_buf \in Texts
  /\ inbox \in BoundedSeq([from : Clients, text : Texts], Cap)
  /\ answers \in [Clients -> BoundedSeq(Texts, MaxBirths + 1)]
  /\ lost \subseteq Clients /\ late \subseteq Clients

\* What client.c writes (line 39) is the answer to the text it sent last, also to
\* the answer it sends again at the end of its input, however many clients the
\* server serves with one cli_addr and whatever was lost; only a process that was
\* given the port of another may be answered with that one's lines.
AnswersMatch ==
  /\ TypeOK
  /\ \A c \in Clients :
       pc[c] = "write" /\ c \notin late => buf[c] = ToUpper(asked[c])

\* A client that waits (line 38) is answered, unless a datagram of its port met a
\* full queue or no server: then it waits for ever.
Answered ==
  \A c \in Clients : pc[c] = "recvfrom" ~> pc[c] # "recvfrom" \/ c \in lost

=============================================================================
