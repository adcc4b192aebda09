---------------------------- MODULE ConnServers -----------------------------
(***************************************************************************)
(* The servers that accept a connection and give it to somebody:           *)
(*   "pthread"  socket/pthreadserver.c: a thread that is passed a pointer  *)
(*              to main's cfd, and goes on after it closed the descriptor; *)
(*   "fork"     socket/forkserver.c: a child, which goes on as well;       *)
(*   "thread"   blockio/server.cpp: a thread that never closes;            *)
(*   "ttcp"     ttcp/echo.cc: a thread that owns the TcpStream;            *)
(*   "local"    localSocket/server.c: main itself, until the client leaves;*)
(*   "single"   socket/server.c: main itself, for the first client only,   *)
(*              whom it never answers.                                     *)
(*                                                                         *)
(* Descriptors are numbers of a table that belongs to a process: accept    *)
(* takes the lowest free one, and a number can be used again.  A worker is *)
(* named by the client whose connection was accepted before it started.    *)
(* What a client sends is one unit at a time, named by the client; clients *)
(* read what they are sent.                                                *)
(***************************************************************************)
EXTENDS Integers, FiniteSets

CONSTANTS
  Clients, Main, None,
  Few,            \* bound: the clients of pthread and fork, whose workers never end
  NFds,           \* descriptors a process has for connections
  SpawnFails      \* whether fork, pthread_create and std::thread may fail

ASSUME ServersAssumption ==
  /\ Few \subseteq Clients
  /\ NFds \in Nat \ {0} /\ SpawnFails \in BOOLEAN
  /\ Main \notin Clients /\ None \notin Clients

VARIABLES
  program,
  conn,           \* client -> its connection, as the kernel knows it
  tab,            \* process -> descriptor -> the connection it refers to
  thread,         \* client -> the worker: thread, child or main's own loop
  pc, cfd, newest,    \* main: where it is, its cfd, and who gets a worker next
  installed, pending, resume,   \* SIGCHLD: handler, signal, what it interrupts
  unsignalled,    \* history: children that ended before the handler was there
  crossed         \* history: somebody was sent what another one wrote

mainVars == <<pc, cfd, newest>>
sigVars == <<installed, pending, resume, unsignalled>>
vars == <<program, conn, tab, thread, mainVars, sigVars, crossed>>

Programs == {"pthread", "fork", "thread", "ttcp", "local", "single"}
Fds == 1..NFds
Procs == Clients \cup {Main}
EmptyTable == [fd \in Fds |-> None]

\* The table of worker w: a child's own, or that of the process all share.
Proc(w) == IF program = "fork" THEN w ELSE Main

\* Of a worker that ended nothing is left.
Worker(label, fd, buf) ==
  IF label \in {"none", "ended", "exit", "zombie", "reaped"}
  THEN [pc |-> label, fd |-> 1, buf |-> "none"]
  ELSE [pc |-> label, fd |-> fd, buf |-> buf]

Init ==
  /\ program \in Programs
  /\ conn = [c \in Clients |-> [state |-> "new", data |-> FALSE, gone |-> "no"]]
  /\ tab = [p \in Procs |-> EmptyTable]
  /\ thread = [c \in Clients |-> Worker("none", 1, "none")]
  /\ pc = "accept" /\ cfd = 1 /\ newest = None
  /\ installed = FALSE /\ pending = FALSE /\ resume = "accept"
  /\ unsignalled = {} /\ crossed = FALSE

-----------------------------------------------------------------------------
(* The clients *)

ClientConnects(c) ==
  /\ conn[c].state = "new"
  /\ program \in {"pthread", "fork"} => c \in Few
  /\ conn' = [conn EXCEPT ![c].state = "queued"]

ClientSends(c) ==
  /\ conn[c].state # "new" /\ conn[c].gone = "no" /\ ~conn[c].data
  /\ conn' = [conn EXCEPT ![c].data = TRUE]

\* "fin": the client shut down or closed; "reset": an error that read or write
\* reports once; "dead": write is answered by SIGPIPE, and read by 0.  A local
\* socket is dead as soon as its peer closes it, and not reset.
ClientLeaves(c) ==
  /\ conn[c].state # "new" /\ conn[c].gone = "no"
  /\ \E how \in (IF program = "local" THEN {"fin", "dead"} ELSE {"fin", "reset"}),
        d \in {conn[c].data, FALSE} :
       /\ how # "reset" => d = conn[c].data
       /\ conn' = [conn EXCEPT ![c].gone = how, ![c].data = d]

Client(c) ==
  /\ ClientConnects(c) \/ ClientSends(c) \/ ClientLeaves(c)
  /\ UNCHANGED <<program, tab, thread, mainVars, sigVars, crossed>>

-----------------------------------------------------------------------------
(* main *)

Least(S) == CHOOSE x \in S : \A y \in S : x <= y
FreeFds == {fd \in Fds : tab[Main][fd] = None}

Accept(c) ==
  /\ pc = "accept" /\ conn[c].state = "queued" /\ FreeFds # {}
  /\ conn' = [conn EXCEPT ![c].state = "accepted"]
  /\ cfd' = Least(FreeFds)
  /\ tab' = [tab EXCEPT ![Main][cfd'] = c]
  /\ pc' = "spawn" /\ newest' = c
  /\ UNCHANGED <<thread, sigVars, crossed>>

\* With no descriptor left Accept exits, and acceptor.accept returns no stream,
\* which the thread then uses.  localSocket goes round with a cfd of -1.
AcceptFails ==
  /\ pc = "accept" /\ FreeFds = {}
  /\ pc' = IF program = "local" THEN "accept" ELSE "exited"
  /\ UNCHANGED <<conn, tab, thread, cfd, newest, sigVars, crossed>>

StartsAt == IF program = "pthread" THEN "start" ELSE "read"

\* pthread_create, fork, std::thread, or the loop that main runs itself.  fork
\* copies the table.
Spawn ==
  /\ pc = "spawn"
  /\ thread' = [thread EXCEPT ![newest] = Worker(StartsAt, cfd, "none")]
  /\ tab' = IF program = "fork" THEN [tab EXCEPT ![newest] = tab[Main]] ELSE tab
  /\ pc' = CASE program = "fork" -> "close"
             [] program \in {"local", "single"} -> "serving"
             [] OTHER -> "accept"
  /\ newest' = None
  /\ UNCHANGED <<conn, cfd, sigVars, crossed>>

\* The two C programs do not look at the result; std::thread throws.
SpawnFailed ==
  /\ SpawnFails /\ pc = "spawn" /\ program \notin {"local", "single"}
  /\ pc' = IF program \in {"pthread", "fork"} THEN "accept" ELSE "exited"
  /\ newest' = None
  /\ UNCHANGED <<conn, tab, thread, cfd, sigVars, crossed>>

\* Mutant: close(cfd) is missing in the parent.
ParentTableKept == tab

ParentTable == [tab EXCEPT ![Main][cfd] = None]

ParentCloses ==
  /\ pc = "close"
  /\ tab' = ParentTable
  /\ pc' = "sigaction"
  /\ UNCHANGED <<conn, thread, cfd, newest, sigVars, crossed>>

Sigaction ==
  /\ pc = "sigaction"
  /\ installed' = TRUE
  /\ pc' = "accept"
  /\ UNCHANGED <<conn, tab, thread, cfd, newest, pending, resume, unsignalled, crossed>>

(* sig_child *)

Zombies == {c \in Clients : thread[c].pc = "zombie"}
Children == {c \in Clients : thread[c].pc \in {"read", "write", "close"}}

Interrupt ==
  /\ pending /\ pc \notin {"handler", "exited"}
  /\ pending' = FALSE
  /\ resume' = pc /\ pc' = "handler"
  /\ UNCHANGED <<conn, tab, thread, cfd, newest, installed, unsignalled, crossed>>

Reap(c) ==
  /\ pc = "handler" /\ c \in Zombies
  /\ thread' = [thread EXCEPT ![c].pc = "reaped"]
  /\ UNCHANGED <<conn, tab, mainVars, sigVars, crossed>>

\* Mutant: waitpid is called once.
NothingToReapOnce == Children # {} \/ Zombies # {}

\* waitpid returns 0.  With no child at all it returns -1, and the loop does not
\* end: then nothing is enabled.
NothingToReap == Zombies = {} /\ Children # {}

\* sa_flags is 0: if the signal came while accept waited, accept fails and Accept
\* exits.
HandlerReturns ==
  /\ pc = "handler" /\ NothingToReap
  /\ \/ pc' = resume
     \/ resume = "accept" /\ pc' = "exited"
  /\ UNCHANGED <<conn, tab, thread, cfd, newest, sigVars, crossed>>

MainStep ==
  /\ \/ \E c \in Clients : Accept(c) \/ Reap(c)
     \/ AcceptFails \/ Spawn \/ SpawnFailed \/ ParentCloses \/ Sigaction
     \/ Interrupt \/ HandlerReturns
  /\ UNCHANGED program

-----------------------------------------------------------------------------
(* The workers *)

\* The connection that the number worker w uses refers to, now.
Target(w) == tab[Proc(w)][thread[w].fd]

At(w, label) ==
  thread[w].pc = label /\ (program = "fork" \/ pc # "exited")

\* int cfd = *((int*) arg);
Start(w) ==
  /\ At(w, "start")
  /\ thread' = [thread EXCEPT ![w].pc = "read", ![w].fd = cfd]
  /\ UNCHANGED <<conn, tab, mainVars, sigVars, crossed>>

\* Where a worker goes after read returned data, 0 ("eof") or -1 ("error").
AfterRead(result) ==
  CASE program = "single" -> IF result = "error" THEN "exit" ELSE "read"
    [] program # "single" /\ result \in Clients -> "write"
    [] program \in {"pthread", "fork"} /\ result \notin Clients ->
         IF result = "eof" THEN "close" ELSE "write"
    [] program = "ttcp" /\ result \notin Clients -> "close"
    [] OTHER -> "ended"

\* Mutant: the loop of main reads on after the client left.
MainAfterStays(label) == IF label = "exit" THEN "exited" ELSE pc

\* main's own loop returns to accept; sys_err ends the program.
MainAfter(label) ==
  CASE label = "exit" -> "exited"
    [] label = "ended" /\ program = "local" -> "accept"
    [] OTHER -> pc

ReadReturns(w, result) ==
  /\ thread' = [thread EXCEPT ![w] = Worker(AfterRead(result), @.fd, result)]
  /\ pc' = MainAfter(AfterRead(result))

Read(w) ==
  LET c == Target(w) IN
  /\ At(w, "read")
  /\ \/ c = None /\ ReadReturns(w, "error") /\ UNCHANGED conn
     \/ /\ c # None /\ conn[c].data
        /\ ReadReturns(w, c)
        /\ conn' = [conn EXCEPT ![c].data = FALSE]
     \/ /\ c # None /\ ~conn[c].data /\ conn[c].gone \in {"fin", "dead"}
        /\ ReadReturns(w, "eof") /\ UNCHANGED conn
     \/ /\ c # None /\ ~conn[c].data /\ conn[c].gone = "reset"
        /\ ReadReturns(w, "error")
        /\ conn' = [conn EXCEPT ![c].gone = "dead"]
  /\ UNCHANGED <<tab, cfd, newest, sigVars, crossed>>

\* Mutant: the TcpStream's owner goes on after it closed.
AfterCloseGoesOn == IF program = "ttcp" THEN "read" ELSE "write"

\* ~Socket ends the thread of ttcp; the C programs go on to write.
AfterClose == IF program = "ttcp" THEN "ended" ELSE "write"

Close(w) ==
  /\ At(w, "close")
  /\ tab' = [tab EXCEPT ![Proc(w)][thread[w].fd] = None]
  /\ thread' = [thread EXCEPT ![w] = Worker(AfterClose, @.fd, @.buf)]
  /\ UNCHANGED <<conn, mainVars, sigVars, crossed>>

\* Only TcpStream looks at what write returns.
WriteReturns(w, failed) ==
  thread' = [thread EXCEPT ![w].buf = "none", ![w].pc =
               IF failed /\ program = "ttcp" THEN "close" ELSE "read"]

\* Nothing reaches a connection: the number is free, or the size is -1, which no
\* write accepts.
WriteNothing(w) ==
  /\ At(w, "write")
  /\ Target(w) = None \/ thread[w].buf = "error"
  /\ WriteReturns(w, TRUE)
  /\ UNCHANGED <<conn, tab, mainVars, sigVars, crossed>>

\* What is read of a client that closed is answered by a reset.
WriteTo(w, c) ==
  /\ At(w, "write") /\ c = Target(w) /\ thread[w].buf # "error"
  /\ \/ /\ conn[c].gone \in {"no", "fin"}
        /\ crossed' = (crossed \/ thread[w].buf \notin {c, "eof"})
        /\ \/ UNCHANGED conn
           \/ /\ conn[c].gone = "fin" /\ thread[w].buf # "eof"
              /\ conn' = [conn EXCEPT ![c].gone = "dead"]
        /\ WriteReturns(w, FALSE)
     \/ /\ conn[c].gone = "reset"
        /\ conn' = [conn EXCEPT ![c].gone = "dead"]
        /\ WriteReturns(w, TRUE)
        /\ UNCHANGED crossed
     \/ /\ conn[c].gone = "dead" /\ program = "ttcp"          \* IgnoreSigPipe
        /\ WriteReturns(w, TRUE)
        /\ UNCHANGED <<conn, crossed>>
  /\ UNCHANGED <<tab, mainVars, sigVars>>

\* SIGPIPE ends the process: all threads, or a child, which stays a zombie.  SIGCHLD
\* is ignored as long as there is no handler.
Sigpipe(w, c) ==
  /\ At(w, "write") /\ c = Target(w) /\ thread[w].buf # "error"
  /\ conn[c].gone = "dead" /\ program # "ttcp"
  /\ \/ /\ program # "fork"
        /\ pc' = "exited"
        /\ UNCHANGED <<tab, thread, pending, unsignalled>>
     \/ /\ program = "fork"
        /\ thread' = [thread EXCEPT ![w] = Worker("zombie", 1, "none")]
        /\ tab' = [tab EXCEPT ![w] = EmptyTable]
        /\ pending' = installed
        /\ unsignalled' = IF installed THEN unsignalled ELSE unsignalled \cup {w}
        /\ UNCHANGED pc
  /\ UNCHANGED <<conn, cfd, newest, installed, resume, crossed>>

WorkerStep(w) ==
  /\ \/ Start(w) \/ Read(w) \/ Close(w) \/ WriteNothing(w)
     \/ \E c \in Clients : WriteTo(w, c) \/ Sigpipe(w, c)
  /\ UNCHANGED program

Next ==
  \/ MainStep
  \/ \E c \in Clients : Client(c) \/ WorkerStep(c)

Spec == Init /\ [][Next]_vars

\* main and every worker that can run do.
FairSpec == Spec /\ WF_vars(MainStep) /\ \A w \in Clients : WF_vars(WorkerStep(w))

-----------------------------------------------------------------------------
(* Properties *)

TypeOK ==
  /\ program \in Programs
  /\ conn \in [Clients -> [state : {"new", "queued", "accepted"}, data : BOOLEAN,
                           gone : {"no", "fin", "reset", "dead"}]]
  /\ tab \in [Procs -> [Fds -> Clients \cup {None}]]
  /\ thread \in [Clients -> [pc : {"none", "start", "read", "write", "close", "ended",
                                   "zombie", "reaped", "exit"},
                             fd : Fds, buf : Clients \cup {"none", "eof", "error"}]]
  /\ pc \in {"accept", "spawn", "close", "sigaction", "handler", "serving", "exited"}
  /\ resume \in {"accept", "spawn", "close", "sigaction"}
  /\ cfd \in Fds /\ newest \in Clients \cup {None}
  /\ installed \in BOOLEAN /\ pending \in BOOLEAN
  /\ unsignalled \subseteq Clients /\ crossed \in BOOLEAN

\* A client is only sent what it wrote itself, although numbers are used again and
\* workers run at any time between (echo.cc 38-47, server.cpp 49-65, forkserver.c
\* 38-50, localSocket/server.c 45-55).  pthreadserver.c does not keep this: a
\* thread uses the number after it, or another thread, closed it.
RepliesToSender ==
  /\ TypeOK
  /\ program # "pthread" => ~crossed

Held(p, c) ==
  (\E fd \in Fds : tab[p][fd] = c) /\ ~(p = Main /\ pc = "exited")

Attended(c) == \E w \in Clients : thread[w].pc \in {"read", "write", "close"} /\ Target(w) = c

\* What a thread of pthreadserver.c does to a connection: it had another number by
\* the time it started, or lost it to a close.
Overtaken(c) ==
  program = "pthread" /\ thread[c].pc \notin {"none", "start"} /\ ~Attended(c)

\* The handler waits for children that are not there.
HandlerSpins == pc = "handler" /\ Zombies = {} /\ Children = {}

\* pthreadserver.c:15 and forkserver.c:44 close when read returned 0 because accept
\* would fail otherwise, and ~Socket does for ttcp: no descriptor is kept of a
\* client that left and that got a worker, in any process.
LeaversReleased ==
  \A c \in Clients :
    /\ program \in {"pthread", "fork", "ttcp"}
    /\ conn[c].gone # "no" /\ thread[c].pc # "none"
    ~> \/ \A p \in Procs : ~Held(p, c)
       \/ Overtaken(c) \/ HandlerSpins

\* forkserver.c 6-9: one signal may stand for several children, so the handler has to
\* reap all there are.  A child that ended and is not reaped has the signal, or the
\* handler, still to come, or ended before there was a handler.
ZombieHasSignal ==
  pc # "exited" =>
    \A c \in Zombies : c \in unsignalled \/ pending \/ pc = "handler"

\* What keeps main from accepting: the end of the program, a handler that spins, a
\* client it serves itself, or a full table.
MainBusy ==
  \/ pc = "exited" \/ HandlerSpins \/ FreeFds = {}
  \/ pc = "serving" /\ \E c \in Clients : Attended(c)

\* What a client wrote is read (the loops of all six programs), unless it reset its
\* connection, main does not come to it, no worker could be started, or none uses its
\* number.
EveryoneRead ==
  \A c \in Clients :
    conn[c].data ~>
      \/ ~conn[c].data \/ conn[c].gone \in {"reset", "dead"}
      \/ conn[c].state = "queued" /\ MainBusy
      \/ conn[c].state = "accepted" /\ thread[c].pc = "none" /\ pc # "spawn"
      \/ program # "fork" /\ pc = "exited"
      \/ Overtaken(c)

=============================================================================
