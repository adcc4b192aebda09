----------------------------- MODULE HttpServer -----------------------------
(***************************************************************************)
(* http/myhttpd.c: one thread takes edge-triggered events from epoll_wait, *)
(* reads a request line by line from a nonblocking socket, and answers it  *)
(* with a header and a file.                                               *)
(*                                                                         *)
(* What a client sends is a script of halves of lines, two for each line,  *)
(* which TCP delivers whole or cut at any half.  get1 get2 is a request    *)
(* line, hdr1 hdr2 a header, cr lf the empty line that ends the headers.   *)
(* A scenario says which clients there are, what each sends, and whether   *)
(* it may be cut.                                                          *)
(* A file is the numbers 1..FileLen, read ChunkLen at a time, and a socket *)
(* takes SendBuf of them (a header counts as one) until the client reads.  *)
(***************************************************************************)
EXTENDS Integers, Sequences, FiniteSets

CONSTANTS
  Conns, None, Lfd,
  Scenarios,
  Target,                       \* what stat says of the path it asks for
  FileLen, ChunkLen, SendBuf

Lines == {<<"get1", "get2">>, <<"hdr1", "hdr2">>, <<"cr", "lf">>}

ASSUME ScenariosAssumption ==
  \A sc \in Scenarios :
    /\ DOMAIN sc = {"clients", "script", "split"}
    /\ sc.clients \subseteq Conns /\ sc.split \in BOOLEAN
    /\ sc.script \in Seq({"get1", "get2", "hdr1", "hdr2", "cr", "lf"})
    /\ Len(sc.script) % 2 = 0
    /\ \A k \in 1..Len(sc.script) :
         k % 2 = 1 => <<sc.script[k], sc.script[k + 1]>> \in Lines

ASSUME SizesAssumption ==
  /\ FileLen \in Nat /\ ChunkLen \in Nat \ {0} /\ SendBuf \in Nat \ {0}
  /\ None \notin Conns /\ Lfd \notin Conns /\ Target \in {"file", "missing", "dir"}

VARIABLES
  scenario,
  conn,           \* connection -> its socket
  edges,          \* connections with an event epoll_wait has not returned
  batch,          \* events it returned that the loop has not reached
  pc, cur,        \* where the server is, and the connection it serves
  got,            \* what do_read's method and path hold
  at,             \* how much of the file is read
  body,           \* what of it was sent in this answer
  short,          \* history: whether the socket took less than it was given
  answers         \* history: answers sent on each connection

serverVars == <<pc, cur, got, at, body, short, answers>>
vars == <<scenario, conn, edges, batch, serverVars>>

Script == scenario.script

Peers == {"here", "shut", "gone"}
Socket == [state : {"new", "queued", "open", "closed"},
           arrived : 0..Len(Script), taken : 0..Len(Script),
           peer : Peers, reset : BOOLEAN, err : BOOLEAN, unread : 0..SendBuf]

Init ==
  /\ scenario \in Scenarios
  /\ conn = [c \in Conns |-> [state |-> "new", arrived |-> 0, taken |-> 0,
                              peer |-> "here", reset |-> FALSE, err |-> FALSE,
                              unread |-> 0]]
  /\ edges = {} /\ batch = {}
  /\ pc = "wait" /\ cur = None
  /\ got = "other" /\ at = 0 /\ body = <<>>
  /\ short = FALSE
  /\ answers = [c \in Conns |-> 0]

-----------------------------------------------------------------------------
(* The clients and the network.  Whatever arrives on an open connection is *)
(* an edge; what came before accept counts as arriving right after it.     *)

Edge(c) == edges' = edges \cup (IF conn[c].state = "open" THEN {c} ELSE {})

ClientConnects(c) ==
  /\ c \in scenario.clients /\ conn[c].state = "new"
  /\ conn' = [conn EXCEPT ![c].state = "queued"]
  /\ UNCHANGED <<edges, batch, serverVars>>

Arrive(c) ==
  /\ conn[c].state = "open" /\ conn[c].peer = "here"
  /\ conn[c].arrived < Len(Script)
  /\ \E n \in (conn[c].arrived + 1)..Len(Script) :
       /\ scenario.split \/ n = Len(Script)
       /\ conn' = [conn EXCEPT ![c].arrived = n]
  /\ Edge(c)
  /\ UNCHANGED <<batch, serverVars>>

ClientReads(c) ==
  /\ conn[c].unread > 0 /\ conn[c].peer # "gone"
  /\ conn' = [conn EXCEPT ![c].unread = @ - 1]
  /\ UNCHANGED <<edges, batch, serverVars>>

\* The client shuts its side down or closes, which is a FIN; closing while it
\* has not read everything may be a reset instead, an error for the next recv
\* or send of the server.
ClientLeaves(c) ==
  /\ conn[c].state = "open" /\ conn[c].peer = "here"
  /\ \E p \in {"shut", "gone"}, rst \in BOOLEAN :
       /\ rst => p = "gone" /\ conn[c].unread > 0
       /\ conn' = [conn EXCEPT ![c].peer = p, ![c].reset = rst, ![c].err = rst]
  /\ Edge(c)
  /\ UNCHANGED <<batch, serverVars>>

\* An answer reaches a client that closed: the connection is reset, and recv
\* goes on returning 0 because the FIN came first.
PeerResets(c) ==
  /\ conn[c].peer = "gone" /\ conn[c].unread > 0 /\ ~conn[c].reset
  /\ conn' = [conn EXCEPT ![c].reset = TRUE]
  /\ Edge(c)
  /\ UNCHANGED <<batch, serverVars>>

Environment ==
  /\ \E c \in Conns :
       \/ ClientConnects(c) \/ Arrive(c) \/ ClientReads(c)
       \/ ClientLeaves(c) \/ PeerResets(c)
  /\ UNCHANGED scenario

-----------------------------------------------------------------------------
(* epoll_run *)

\* The listening socket is level triggered, the others are not.
EpollWait ==
  /\ pc = "wait" /\ batch = {}
  /\ batch' = edges \cup {Lfd : c \in {d \in Conns : conn[d].state = "queued"}}
  /\ batch' # {}
  /\ edges' = {}
  /\ UNCHANGED <<conn, serverVars>>

DoAccept(c) ==
  /\ pc = "wait" /\ Lfd \in batch
  /\ conn[c].state = "queued"
  /\ conn' = [conn EXCEPT ![c].state = "open"]
  /\ batch' = batch \ {Lfd}
  /\ UNCHANGED <<edges, serverVars>>

\* The events of a batch are handled in any order.
NextEvent ==
  /\ pc = "wait"
  /\ \E c \in batch \ {Lfd} :
       /\ batch' = batch \ {c}
       /\ cur' = c
  /\ pc' = "first"
  /\ UNCHANGED <<conn, edges, got, at, body, short, answers>>

-----------------------------------------------------------------------------
(* get_line *)

\* The line that begins after the t halves already taken ends at LineEnd(t).
LineEnd(t) == t + 2 - (t % 2)

\* Mutant: what recv returned is not tested for -1.
LineResultNoError(s, whole, text) == IF text = <<>> THEN "eof" ELSE "line"

\* What get_line returns: -1 ("again") if the last recv failed, and 0 ("eof") only
\* if nothing was read before the end of the connection.
LineResult(s, whole, text) ==
  CASE whole -> "line"
    [] ~whole /\ (s.err \/ s.peer = "here") -> "again"
    [] OTHER -> IF text = <<>> THEN "eof" ELSE "line"

\* What it stores, as halves: a line that is not complete as far as it came, a
\* lone cr as an empty line.
GetLine(s) ==
  LET whole == s.arrived >= LineEnd(s.taken)
      to == IF whole THEN LineEnd(s.taken) ELSE s.arrived
      text == SubSeq(Script, s.taken + 1, to)
  IN [text |-> text, ret |-> LineResult(s, whole, text),
      left |-> [s EXCEPT !.taken = to, !.err = @ /\ whole]]

Blank(text) == text # <<>> /\ Head(text) \in {"cr", "lf"}

(* do_read *)

\* closefd: the descriptor leaves epoll and is closed.
CloseFd(c) ==
  /\ conn' = [conn EXCEPT ![c].state = "closed"]
  /\ edges' = edges \ {c}

\* sscanf of an empty line leaves method and path as they are: what the stack
\* holds, which may be what an earlier call left there.
Scanned(text) ==
  IF text = <<>> THEN {got, "other"}
  ELSE IF text = <<"get1", "get2">> THEN {"GET"}
  ELSE IF Head(text) = "get1" THEN {"cut"} ELSE {"other"}

\* Mutant: the else is missing, and the end of the connection goes on below.
AfterEofGoesOn == pc' = "headers" /\ UNCHANGED cur

AfterEof == pc' = "wait" /\ cur' = None

ReadRequestLine ==
  LET line == GetLine(conn[cur]) IN
  /\ pc = "first"
  /\ \/ /\ line.ret = "eof"
        /\ CloseFd(cur)
        /\ AfterEof
        /\ UNCHANGED got
     \/ /\ line.ret # "eof"
        /\ conn' = [conn EXCEPT ![cur] = line.left]
        /\ got' \in Scanned(line.text)
        /\ pc' = "headers"
        /\ UNCHANGED <<edges, cur>>
  /\ UNCHANGED <<batch, at, body, short, answers>>

\* Mutant: the first line ends the loop.
HeadersEndOnce(line) == TRUE

\* Mutant: the loop reads to the end of the connection.
HeadersEndAtEof(line) == line.ret = "eof"

\* The loop of lines 252-261 stops at an empty line or at -1, and goes on when
\* get_line returns 0.
HeadersEnd(line) == Blank(line.text) \/ line.ret = "again"

ReadHeader ==
  LET line == GetLine(conn[cur]) IN
  /\ pc = "headers"
  /\ conn' = [conn EXCEPT ![cur] = line.left]
  /\ pc' = IF HeadersEnd(line) THEN "respond" ELSE "headers"
  /\ UNCHANGED <<edges, batch, cur, got, at, body, short, answers>>

(* http_request *)

\* send answers a pending error once; without one, a reset connection is SIGPIPE.
Broken(s) == s.reset /\ ~s.err

\* The result of sending a header is ignored: it may not fit, or fail.
SendHeader ==
  LET fits == conn[cur].unread < SendBuf /\ ~conn[cur].reset IN
  /\ conn' = [conn EXCEPT ![cur].unread = IF fits THEN @ + 1 ELSE @,
                          ![cur].err = FALSE]
  /\ answers' = [answers EXCEPT ![cur] = @ + 1]

\* What becomes of the method and the path: not GET, or what stat finds.  A path
\* or a method that was cut may be anything.
Found ==
  CASE got = "GET" -> {Target}
    [] got = "cut" -> {"file", "missing", "dir", "not GET"}
    [] OTHER -> {"not GET"}

Respond ==
  /\ pc = "respond"
  /\ \/ /\ "file" \in Found /\ ~Broken(conn[cur])
        /\ SendHeader
        /\ pc' = "file" /\ at' = 0 /\ body' = <<>> /\ short' = FALSE
        /\ UNCHANGED cur
     \/ /\ "missing" \in Found /\ ~Broken(conn[cur])          \* senderror
        /\ SendHeader
        /\ pc' = "wait" /\ cur' = None /\ UNCHANGED <<at, body, short>>
     \/ /\ Found \cap {"file", "missing"} # {} /\ Broken(conn[cur])
        /\ pc' = "exited"
        /\ UNCHANGED <<conn, cur, at, body, short, answers>>
     \/ /\ Found \cap {"dir", "not GET"} # {}
        /\ pc' = "wait" /\ cur' = None
        /\ UNCHANGED <<conn, at, body, short, answers>>
  /\ UNCHANGED <<edges, batch, got>>

Min2(a, b) == IF a < b THEN a ELSE b

\* Mutant: a chunk that did not go in one send is sent again from its start.
ReadPosAgain(n, k) == IF k = n THEN at + n ELSE at

\* read moved the file by n, whatever k send took of it.
ReadPos(n, k) == at + n

\* One round of the loop of sendfile: what read returned goes to send, which
\* takes a part of it, or nothing: then the loop continues with the next read.
SendChunk ==
  LET n == Min2(ChunkLen, FileLen - at)
      k == Min2(n, SendBuf - conn[cur].unread)
  IN
  /\ pc = "file" /\ n > 0
  /\ \/ /\ ~conn[cur].reset
        /\ body' = body \o [j \in 1..k |-> at + j]
        /\ at' = ReadPos(n, k) /\ short' = (short \/ k < n)
        /\ conn' = [conn EXCEPT ![cur].unread = @ + k]
        /\ UNCHANGED pc
     \/ /\ conn[cur].reset
        /\ pc' = "exited"
        /\ UNCHANGED <<conn, at, body, short>>
  /\ UNCHANGED <<edges, batch, cur, got, answers>>

\* Mutant: a read that does not fill the buffer ends the loop.
NothingReadShort == FileLen - at < ChunkLen

NothingRead == at = FileLen

FileSent ==
  /\ pc = "file" /\ NothingRead
  /\ pc' = "wait" /\ cur' = None
  /\ UNCHANGED <<conn, edges, batch, got, at, body, short, answers>>

Server ==
  /\ \/ EpollWait \/ NextEvent \/ ReadRequestLine \/ ReadHeader \/ Respond
     \/ SendChunk \/ FileSent
     \/ \E c \in Conns : DoAccept(c)
  /\ UNCHANGED scenario

Next == Server \/ Environment

Spec == Init /\ [][Next]_vars

\* The loop of epoll_run never stops.
FairSpec == Spec /\ WF_vars(Server)

-----------------------------------------------------------------------------
(* Properties *)

TypeOK ==
  /\ scenario \in Scenarios
  /\ conn \in [Conns -> Socket]
  /\ edges \subseteq Conns /\ batch \subseteq Conns \cup {Lfd}
  /\ pc \in {"wait", "first", "headers", "respond", "file", "exited"}
  /\ cur \in Conns \cup {None}
  /\ got \in {"GET", "cut", "other"}
  /\ at \in 0..FileLen /\ body \in Seq(1..FileLen)
  /\ short \in BOOLEAN /\ answers \in [Conns -> Nat]

\* epoll_ctl(EPOLL_CTL_DEL) and recv only ever see a descriptor that is open
\* (lines 107-117, 239-244): no event is kept for a connection that was closed,
\* and the one that is served stays open until its event is done with.  The
\* program exits when EPOLL_CTL_DEL fails.
ServedIsOpen ==
  /\ TypeOK
  /\ \A c \in Conns : conn[c].state # "open" => c \notin edges \cup batch /\ c # cur

\* The server closes a connection only at its end, when the client left and all
\* that arrived was read (lines 239-243): a read of nothing that is only a lack
\* of data, or a part of a line, is no end.
ClosedAtEnd ==
  \A c \in Conns : conn[c].state = "closed" =>
    conn[c].peer # "here" /\ conn[c].taken = conn[c].arrived

\* What a client receives of a file is in the file's order and has nothing
\* twice, whatever send takes or refuses (lines 156-173).
BodyInOrder ==
  \A i, j \in 1..Len(body) : i < j => body[i] < body[j]

\* Line 160 says that the result of send must be looked at, or large files suffer;
\* what is looked at is not enough (lines 163-172).  A file is sent whole only if
\* the socket took every chunk at once, and then always.
FileComplete ==
  [][pc = "file" /\ pc' = "wait" => (Len(body) = FileLen <=> ~short)]_vars

AfterBlank(c) == conn[c].taken > 0 /\ Script[conn[c].taken] \in {"cr", "lf"}

\* Line 250: the rest of the request is read so that it does not make the server
\* read again; with edge-triggered events (line 294) it would have to be.  What
\* is in the buffer of an open connection is being read or has an event to come,
\* unless it follows an empty line, where the loop stops: a second request that
\* came with the first.
NothingForgotten ==
  pc # "exited" =>
    \A c \in Conns :
      conn[c].state = "open" /\ conn[c].taken < conn[c].arrived
        => c \in edges \cup batch \cup {cur} \/ AfterBlank(c)

\* A request that arrives uncut is answered (lines 263-268) when its path is one
\* that is answered, whatever the other clients do, unless its client leaves, or
\* the server ends or goes round in the header loop of a client that left (line
\* 252, where get_line returns 0).
RequestAnswered ==
  \A c \in Conns :
    ~scenario.split /\ Target # "dir" /\ conn[c].arrived = Len(Script) ~>
      \/ answers[c] > 0 \/ conn[c].peer # "here"
      \/ pc = "exited"
      \/ pc = "headers" /\ conn[cur].peer # "here"

=============================================================================
