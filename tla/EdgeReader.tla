------------------------------ MODULE EdgeReader ------------------------------
(***************************************************************************)
(* epoll_et/server2.c: an epoll loop that registers its connections with   *)
(* EPOLLET and reads at most three bytes for an event.  epoll/server.c is  *)
(* the same loop with level-triggered events and a larger buffer.          *)
(* epoll_et/server.c is that loop in a child that reads five bytes for an  *)
(* edge from a pipe, into which its parent writes ten at a time.  program  *)
(* says which of the three runs.                                           *)
(*                                                                         *)
(* armed is epoll's ready list.  Something that arrives puts the           *)
(* descriptor on it; epoll_wait takes it off, and puts it back when it is  *)
(* level-triggered.                                                        *)
(***************************************************************************)
EXTENDS Integers, FiniteSets

CONSTANTS
  Fds,            \* descriptors that accept can return
  ListenFd,
  Chunk,          \* the size given to Read: 3, or MAXLINE
  Capacity,       \* bound: unread bytes of a connection
  PipeSize,       \* what the pipe holds
  Resets          \* whether clients reset their connections

ASSUME ReaderAssumption ==
  /\ ListenFd \notin Fds /\ Resets \in BOOLEAN
  /\ Chunk \in Nat \ {0} /\ Capacity \in Nat \ {0}
  /\ PipeSize \in Nat /\ PipeSize >= 2 * Chunk /\ Fds # {}

VARIABLES
  conn,           \* descriptor -> the connection behind it
  queued,         \* the connection that waits to be accepted, if it is open
  armed,
  batch,          \* the events of ep not yet handled, in any order
  pc,
  program,        \* "edge", "level" or "pipe"
  last            \* history: what Read returned since something last arrived

vars == <<conn, queued, armed, batch, pc, program, last>>

Closed == [open |-> FALSE, unread |-> 0, fin |-> FALSE, reset |-> FALSE]
Readable(c) == c.open /\ (c.unread > 0 \/ c.fin \/ c.reset)

PipeFd == CHOOSE fd \in Fds : TRUE

Init ==
  /\ program \in {"edge", "level", "pipe"}
  /\ conn = [fd \in Fds |->
               [Closed EXCEPT !.open = program = "pipe" /\ fd = PipeFd]]
  /\ queued = Closed
  /\ armed = {} /\ batch = {} /\ pc = "wait"
  /\ last = [fd \in Fds |-> 0]

-----------------------------------------------------------------------------
(* The clients *)

ClientConnects ==
  /\ ~queued.open
  /\ queued' = [Closed EXCEPT !.open = TRUE]
  /\ UNCHANGED <<conn, armed, batch, pc, last>>

\* What a client may do to its connection: send, shut down, reset.
Changes(c) ==
  IF ~c.open \/ c.fin \/ c.reset THEN {}
  ELSE {[c EXCEPT !.unread = u] : u \in (c.unread + 1)..Capacity}
       \cup {[c EXCEPT !.fin = TRUE]}
       \cup {[c EXCEPT !.reset = r] : r \in {Resets} \ {FALSE}}

QueuedClient ==
  /\ queued' \in Changes(queued)
  /\ UNCHANGED <<conn, armed, batch, pc, last>>

Client(fd) ==
  /\ \E c \in Changes(conn[fd]) : conn' = [conn EXCEPT ![fd] = c]
  /\ armed' = armed \cup {fd}
  /\ last' = [last EXCEPT ![fd] = 0]
  /\ UNCHANGED <<queued, batch, pc>>

\* The parent: write blocks until all of it fits.  It is an edge if the pipe was
\* empty, and otherwise only with some versions of the kernel.
Fits == conn[PipeFd].unread + 2 * Chunk <= PipeSize

ParentWrites ==
  /\ program = "pipe" /\ Fits
  /\ conn' = [conn EXCEPT ![PipeFd].unread = @ + 2 * Chunk]
  /\ \/ armed' = armed \cup {PipeFd}
     \/ conn[PipeFd].unread > 0 /\ UNCHANGED armed
  /\ last' = [last EXCEPT ![PipeFd] = 0]
  /\ UNCHANGED <<queued, batch, pc, program>>

-----------------------------------------------------------------------------
(* main *)

\* Mutant: epoll/server.c with the EPOLLET of the other file.
StaysArmedEdge(reported) == {}

\* Mutant: the pipe registered as in the line commented out at 29.
StaysArmedLevel(reported) == IF program = "edge" THEN {} ELSE reported

StaysArmed(reported) == IF program = "level" THEN reported ELSE {}

\* Every event has EPOLLIN: nothing is skipped by the test of it.
EpollWait ==
  LET reported == {fd \in armed : Readable(conn[fd])} IN
  /\ pc = "wait"
  /\ batch' = reported \cup (IF queued.open THEN {ListenFd} ELSE {})
  /\ batch' # {}
  /\ armed' = StaysArmed(reported)
  /\ pc' = "events"
  /\ UNCHANGED <<conn, queued, last>>

\* Mutant: a new connection ends the loop.
HandledBreaks(e) ==
  /\ batch' = IF e = ListenFd THEN {} ELSE batch \ {e}
  /\ pc' = IF batch' = {} THEN "wait" ELSE "events"

\* The loop over ep: e is handled, and epoll_wait follows the last one.
Handled(e) ==
  /\ batch' = batch \ {e}
  /\ pc' = IF batch' = {} THEN "wait" ELSE "events"

FreeFds == {fd \in Fds : ~conn[fd].open}

\* Accept and EPOLL_CTL_ADD, which reports what came before; Accept exits when no
\* descriptor is left.
AcceptOne ==
  /\ pc = "events" /\ ListenFd \in batch
  /\ \/ /\ \E fd \in FreeFds :
             /\ conn' = [conn EXCEPT ![fd] = queued]
             /\ armed' = armed \cup (IF Readable(queued) THEN {fd} ELSE {})
             /\ last' = [last EXCEPT ![fd] = 0]
        /\ queued' = Closed
        /\ Handled(ListenFd)
     \/ /\ FreeFds = {} /\ pc' = "exited"
        /\ UNCHANGED <<conn, queued, armed, batch, last>>

Got(fd) == IF conn[fd].unread < Chunk THEN conn[fd].unread ELSE Chunk

\* One Read for one event.
ReadSome(fd) ==
  /\ pc = "events" /\ fd \in batch
  /\ ~conn[fd].reset /\ conn[fd].unread > 0
  /\ conn' = [conn EXCEPT ![fd].unread = @ - Got(fd)]
  /\ last' = [last EXCEPT ![fd] = Got(fd)]
  /\ Handled(fd)
  /\ UNCHANGED <<queued, armed>>

\* Read returns 0: EPOLL_CTL_DEL and close.
ReadEof(fd) ==
  /\ pc = "events" /\ fd \in batch
  /\ ~conn[fd].reset /\ conn[fd].unread = 0 /\ conn[fd].fin
  /\ conn' = [conn EXCEPT ![fd] = Closed]
  /\ armed' = armed \ {fd}
  /\ last' = [last EXCEPT ![fd] = 0]
  /\ Handled(fd)
  /\ UNCHANGED queued

\* Read exits when read fails.
ReadFails(fd) ==
  /\ pc = "events" /\ fd \in batch /\ conn[fd].reset
  /\ pc' = "exited"
  /\ UNCHANGED <<conn, queued, armed, batch, last>>

Server ==
  /\ \/ EpollWait \/ AcceptOne
     \/ \E fd \in Fds : ReadSome(fd) \/ ReadEof(fd) \/ ReadFails(fd)
  /\ UNCHANGED program

Clients ==
  /\ program # "pipe"
  /\ ClientConnects \/ QueuedClient \/ \E fd \in Fds : Client(fd)
  /\ UNCHANGED program

Next == Server \/ Clients \/ ParentWrites

Spec == Init /\ [][Next]_vars

\* main runs on: epoll_wait reports what is ready, and the loop comes to its end.
\* The parent wakes up every three seconds and writes.
FairSpec == Spec /\ WF_vars(Server) /\ WF_vars(ParentWrites)

-----------------------------------------------------------------------------
(* Properties *)

ConnOK(c) ==
  /\ DOMAIN c = DOMAIN Closed
  /\ c.unread \in 0..(IF program = "pipe" THEN PipeSize ELSE Capacity)
  /\ {c.open, c.fin, c.reset} \subseteq BOOLEAN

TypeOK ==
  /\ DOMAIN conn = Fds /\ \A fd \in Fds : ConnOK(conn[fd])
  /\ ConnOK(queued)
  /\ armed \subseteq Fds /\ batch \subseteq Fds \cup {ListenFd}
  /\ pc \in {"wait", "events", "exited"}
  /\ program \in {"edge", "level", "pipe"} /\ last \in [Fds -> 0..Chunk]

\* What an edge can leave behind (lines 69, 80-86): bytes that no event will report
\* stay only when Read filled its buffer, and a client's FIN only when a Read
\* since then returned bytes.  So to read on after a full buffer is enough for
\* the bytes and not for the FIN.
LeftByRead ==
  /\ TypeOK
  /\ \A fd \in Fds :
       program # "pipe" /\ conn[fd].open /\ fd \notin armed \cup batch =>
         /\ conn[fd].unread > 0 => last[fd] = Chunk
         /\ conn[fd].fin => last[fd] > 0

\* epoll/server.c 79-86: level-triggered, a client that left is read to its end
\* and closed, however little a Read takes.
LeaversClosed ==
  \A fd \in Fds :
    program = "level" /\ conn[fd].fin ~> ~conn[fd].open \/ pc = "exited"

\* epoll_et/server.c 42-59: a read of half of what is written for each edge.  The rest adds
\* up, whatever the writes that are no edge of their own, until the writer waits
\* for room and the reader for an edge, which only the writer could make.
PipeStalls ==
  <>[](program = "pipe" => ~Fits /\ pc = "wait" /\ armed = {})

=============================================================================
