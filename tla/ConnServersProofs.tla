-------------------------- MODULE ConnServersProofs --------------------------
(* Who is sent what, and which children are reaped, for any number of clients *)
(* and descriptors and for all six programs.                                  *)
EXTENDS ConnServers, TLAPS, WellFoundedInduction

ConnType == [state : {"new", "queued", "accepted"}, data : BOOLEAN,
             gone : {"no", "fin", "reset", "dead"}]
Labels == {"none", "start", "read", "write", "close", "ended", "zombie", "reaped", "exit"}
Bufs == Clients \cup {"none", "eof", "error"}
WorkerType == [pc : Labels, fd : Fds, buf : Bufs]

\* Only forkserver.c has children to wait for, and only the servers of one client
\* at a time serve it in main.  No signal is kept from before there is a handler.
Phases ==
  /\ pc \in {"close", "sigaction", "handler"} \/ pending => program = "fork"
  /\ pc = "serving" => program \in {"local", "single"}
  /\ pending => installed

\* main has accepted a connection and not started its worker, perhaps because the
\* signal handler came between.
Spawning == pc = "spawn" \/ (pc = "handler" /\ resume = "spawn")

\* A client gets one worker in its life, and after the accept.
NewWorker ==
  /\ \A c \in Clients : conn[c].state # "accepted" => thread[c].pc = "none"
  /\ Spawning => /\ newest \in Clients /\ conn[newest].state = "accepted"
                 /\ thread[newest].pc = "none"

Running(w) == thread[w].pc \in {"read", "write", "close"}

\* A worker's number refers to the client it is named by, or, in a child that goes
\* on after its close, to nothing; what it is about to write comes from there.
OwnsAt(w) ==
  /\ Running(w) => Target(w) = w \/ (program = "fork" /\ Target(w) = None)
  /\ thread[w].pc # "start"
  /\ thread[w].pc = "write" => thread[w].buf \in {w, "eof", "error"}
  /\ thread[w].pc = "close" => \/ program = "ttcp"
                               \/ program = "fork" /\ thread[w].buf = "eof"

\* pthreadserver.c is the exception: its threads read the number late.
Owns ==
  program # "pthread" =>
    /\ Spawning => tab[Main][cfd] = newest
    /\ \A w \in Clients : OwnsAt(w)

IInv == RepliesToSender /\ ZombieHasSignal /\ Phases /\ NewWorker /\ Owns

-----------------------------------------------------------------------------
(* Descriptors, records and the results of read *)

\* FreeFds is a set of naturals: it has a least element, and so the CHOOSE of Least
\* picks one of its elements.
LEMMA LeastFree == FreeFds # {} => Least(FreeFds) \in FreeFds
<1> SUFFICES ASSUME FreeFds # {} PROVE Least(FreeFds) \in FreeFds
  OBVIOUS
<1>1. FreeFds \in SUBSET Nat
  BY DEF FreeFds, Fds
<1>2. PICK x \in FreeFds : \A y \in FreeFds : ~(<<y, x>> \in OpToRel(<, Nat))
  BY <1>1, NatLessThanWellFounded, WFMin
<1>3. ASSUME NEW y \in FreeFds PROVE x <= y
  <2>1. <<y, x>> \notin {ss \in Nat \X Nat : ss[1] < ss[2]}
    BY <1>2 DEF OpToRel
  <2> QED
    BY <1>1, <2>1
<1> QED
  BY <1>3 DEF Least

\* The records that the workers become.
LEMMA WorkerRecords ==
  ASSUME NEW label \in Labels, NEW fd \in Fds, NEW buf \in Bufs
  PROVE  /\ Worker(label, fd, buf) \in WorkerType
         /\ Worker(label, fd, buf).pc = label
         /\ label \in {"start", "read", "write", "close"} =>
              Worker(label, fd, buf).fd = fd /\ Worker(label, fd, buf).buf = buf
<1>1. 1 \in Fds
  BY ServersAssumption DEF Fds
<1> QED
  BY <1>1 DEF Worker, WorkerType, Labels, Bufs

LEMMA AfterReadResult ==
  ASSUME program \in Programs, NEW result \in Clients \cup {"eof", "error"}
  PROVE  /\ AfterRead(result) \in {"read", "write", "close", "ended", "exit"}
         /\ AfterRead(result) = "close" =>
              \/ program \in {"pthread", "ttcp"}
              \/ program = "fork" /\ result = "eof"
         /\ program = "fork" => AfterRead(result) \in {"write", "close"}
<1>1. CASE program = "single"
  BY <1>1 DEF AfterRead
<1>2. CASE program # "single" /\ result \in Clients
  BY <1>2 DEF AfterRead
<1>3. CASE program \in {"pthread", "fork"} /\ result \notin Clients
  BY <1>3 DEF AfterRead
<1>4. CASE program = "ttcp" /\ result \notin Clients
  BY <1>4 DEF AfterRead
<1>5. CASE program \in {"thread", "local"} /\ result \notin Clients
  BY <1>5 DEF AfterRead
<1> QED
  BY <1>1, <1>2, <1>3, <1>4, <1>5 DEF Programs

LEMMA InitInv == Init => IInv
<1> SUFFICES ASSUME Init PROVE IInv
  OBVIOUS
<1>1. 1 \in Fds
  BY ServersAssumption DEF Fds
<1>2. \A c \in Clients : thread[c] \in WorkerType /\ thread[c].pc = "none"
  BY <1>1 DEF Init, Worker, WorkerType, Labels, Bufs
<1>3. TypeOK
  <2>1. tab \in [Procs -> [Fds -> Clients \cup {None}]]
    BY DEF Init, EmptyTable
  <2>2. thread \in [Clients -> WorkerType]
    BY <1>2 DEF Init
  <2>3. conn \in [Clients -> ConnType]
    BY DEF Init, ConnType
  <2> QED
    BY <1>1, <2>1, <2>2, <2>3 DEF Init, TypeOK, ConnType, WorkerType, Labels, Bufs
<1>4. RepliesToSender
  BY <1>3 DEF RepliesToSender, Init
<1>5. ZombieHasSignal
  BY <1>2 DEF ZombieHasSignal, Zombies
<1>6. Phases /\ NewWorker /\ Owns
  BY <1>2 DEF Init, Phases, NewWorker, Spawning, Owns, OwnsAt, Running
<1> QED
  BY <1>4, <1>5, <1>6 DEF IInv

-----------------------------------------------------------------------------
(* What a step preserves that changes one worker at most *)

\* The workers but w are as they were, and w, if it changed, had started.
OneWorker(w) ==
  /\ thread[w].pc # "none" \/ UNCHANGED thread
  /\ \A v \in Clients \ {w} : thread'[v] = thread[v]
  /\ \A c \in Clients : conn'[c].state = conn[c].state
  /\ UNCHANGED <<program, cfd, newest>>
  /\ Spawning' => Spawning

LEMMA NewWorkerKept ==
  ASSUME NewWorker, NEW w \in Clients, OneWorker(w)
  PROVE  NewWorker'
BY DEF NewWorker, OneWorker

LEMMA OwnsKept ==
  ASSUME TypeOK, NewWorker, Owns, NEW w \in Clients, OneWorker(w),
         program # "pthread" =>
           /\ Spawning => tab'[Main][cfd] = tab[Main][cfd]
           /\ \A v \in Clients \ {w} : Running(v) =>
                tab'[Proc(v)][thread[v].fd] = tab[Proc(v)][thread[v].fd]
           /\ OwnsAt(w)'
  PROVE  Owns'
<1> SUFFICES ASSUME program # "pthread" PROVE Owns'
  BY DEF Owns, OneWorker
<1>1. Spawning' => tab'[Main][cfd'] = newest'
  BY DEF Owns, OneWorker
<1>2. ASSUME NEW v \in Clients \ {w} PROVE OwnsAt(v)'
  BY <1>2 DEF Owns, OwnsAt, OneWorker, Running, Target, Proc
<1> QED
  BY <1>1, <1>2 DEF Owns

\* Neither a zombie is made nor a signal taken.
LEMMA ZombiesKept ==
  ASSUME ZombieHasSignal, Zombies' \subseteq Zombies,
         UNCHANGED <<pending, unsignalled>>,
         pc = "exited" => pc' = "exited", pc = "handler" => pc' = "handler"
  PROVE  ZombieHasSignal'
BY DEF ZombieHasSignal

-----------------------------------------------------------------------------
(* The steps of the clients and of main *)

LEMMA ClientInv == ASSUME IInv, NEW c \in Clients, Client(c) PROVE IInv'
<1>1. /\ TypeOK /\ NewWorker /\ Owns /\ Phases /\ ZombieHasSignal
      /\ UNCHANGED <<program, tab, thread, pc, cfd, newest, installed, pending,
                     resume, unsignalled, crossed>>
  BY DEF IInv, RepliesToSender, Client, mainVars, sigVars
<1>2. /\ conn' \in [Clients -> ConnType]
      /\ \A b \in Clients : conn'[b].state = "accepted" <=> conn[b].state = "accepted"
  <2>1. conn \in [Clients -> ConnType]
    BY <1>1 DEF TypeOK, ConnType
  <2>2. CASE ClientConnects(c)
    BY <2>1, <2>2 DEF ClientConnects, ConnType
  <2>3. CASE ClientSends(c)
    BY <2>1, <2>3 DEF ClientSends, ConnType
  <2>4. CASE ClientLeaves(c)
    <3>1. PICK how \in {"fin", "reset", "dead"}, d \in BOOLEAN :
            conn' = [conn EXCEPT ![c].gone = how, ![c].data = d]
      BY <2>1, <2>4 DEF ClientLeaves, ConnType
    <3> QED
      BY <2>1, <3>1 DEF ConnType
  <2> QED
    BY <2>2, <2>3, <2>4 DEF Client
<1>3. TypeOK'
  BY <1>1, <1>2 DEF TypeOK, ConnType
<1>4. RepliesToSender' /\ ZombieHasSignal' /\ Phases'
  BY <1>1, <1>3 DEF IInv, RepliesToSender, ZombieHasSignal, Zombies, Phases
<1>5. NewWorker' /\ Owns'
  BY <1>1, <1>2 DEF NewWorker, Owns, OwnsAt, Running, Spawning, Target, Proc
<1> QED
  BY <1>4, <1>5 DEF IInv

\* The number was free, so that it is nobody's that still uses its own.
LEMMA AcceptInv ==
  ASSUME IInv, NEW c \in Clients, Accept(c), UNCHANGED program PROVE IInv'
<1>1. /\ TypeOK /\ NewWorker /\ Owns /\ Phases /\ ZombieHasSignal
      /\ pc = "accept" /\ pc' = "spawn" /\ newest' = c
      /\ UNCHANGED <<program, thread, installed, pending, resume, unsignalled, crossed>>
      /\ tab' = [tab EXCEPT ![Main][cfd'] = c]
  BY DEF IInv, RepliesToSender, Accept, sigVars
<1>2. cfd' \in Fds /\ tab[Main][cfd'] = None
  BY LeastFree DEF Accept, FreeFds
<1>3. /\ conn' \in [Clients -> ConnType] /\ conn'[c].state = "accepted"
      /\ conn[c].state = "queued"
      /\ \A b \in Clients \ {c} : conn'[b] = conn[b]
  BY <1>1 DEF Accept, TypeOK, ConnType
<1>4. /\ tab' \in [Procs -> [Fds -> Clients \cup {None}]] /\ tab'[Main][cfd'] = c
      /\ \A p \in Procs, fd \in Fds : <<p, fd>> # <<Main, cfd'>> => tab'[p][fd] = tab[p][fd]
  BY <1>1, <1>2 DEF TypeOK, Procs
<1>5. TypeOK'
  BY <1>1, <1>2, <1>3, <1>4 DEF TypeOK, ConnType
<1>6. RepliesToSender' /\ ZombieHasSignal' /\ Phases'
  BY <1>1, <1>5 DEF IInv, RepliesToSender, ZombieHasSignal, Zombies, Phases
<1>7. NewWorker'
  BY <1>1, <1>3 DEF NewWorker
<1>8. Owns'
  <2> SUFFICES ASSUME program # "pthread", NEW w \in Clients PROVE OwnsAt(w)'
    BY <1>1, <1>4 DEF Owns
  <2>1. OwnsAt(w)
    BY DEF IInv, Owns
  <2>2. thread[w].fd \in Fds /\ Proc(w) \in Procs /\ Proc(w)' = Proc(w)
    BY <1>1 DEF TypeOK, Proc, Procs
  <2>3. CASE <<Proc(w), thread[w].fd>> = <<Main, cfd'>>
    <3>1. Target(w) = None /\ program # "fork"
      BY <1>2, <2>3, ServersAssumption DEF Target, Proc
    <3> QED
      BY <1>1, <2>1, <3>1, ServersAssumption DEF OwnsAt, Running
  <2>4. CASE <<Proc(w), thread[w].fd>> # <<Main, cfd'>>
    <3>1. Target(w)' = Target(w)
      BY <1>1, <1>4, <2>2, <2>4 DEF Target
    <3> QED
      BY <1>1, <2>1, <3>1 DEF OwnsAt, Running
  <2> QED
    BY <2>3, <2>4
<1> QED
  BY <1>6, <1>7, <1>8 DEF IInv

\* The steps of main that only move it.
MainMoves ==
  /\ UNCHANGED <<program, conn, tab, thread, cfd, unsignalled, crossed>>
  /\ pc' \in {"accept", "spawn", "close", "sigaction", "handler", "exited"}
  /\ resume' \in {"accept", "spawn", "close", "sigaction"}
  /\ installed' \in BOOLEAN /\ pending' \in BOOLEAN
  /\ newest' \in {newest, None} /\ (Spawning' => Spawning /\ newest' = newest)
  /\ pc' \in {"close", "sigaction", "handler"} \/ pending' => program = "fork"
  /\ pending' => installed'

LEMMA MainMoved == ASSUME IInv, MainMoves, ZombieHasSignal' PROVE IInv'
<1>1. TypeOK /\ NewWorker /\ Owns
  BY DEF IInv, RepliesToSender
<1>2. TypeOK'
  BY <1>1 DEF TypeOK, MainMoves
<1>3. RepliesToSender' /\ Phases'
  BY <1>2 DEF IInv, RepliesToSender, MainMoves, Phases
<1>4. NewWorker'
  BY <1>1 DEF NewWorker, MainMoves
<1>5. Owns'
  BY <1>1 DEF Owns, OwnsAt, Running, Target, Proc, MainMoves
<1> QED
  BY <1>3, <1>4, <1>5 DEF IInv

LEMMA MoveInv ==
  ASSUME IInv, UNCHANGED program,
         AcceptFails \/ SpawnFailed \/ Sigaction \/ Interrupt \/ HandlerReturns
  PROVE  IInv'
<1>1. TypeOK /\ Phases /\ ZombieHasSignal
  BY DEF IInv, RepliesToSender
<1> USE DEF MainMoves, Spawning, sigVars, TypeOK, Phases
<1>2. CASE AcceptFails
  <2>1. MainMoves
    BY <1>1, <1>2 DEF AcceptFails
  <2>2. ZombieHasSignal'
    BY <1>1, <1>2 DEF AcceptFails, ZombieHasSignal, Zombies
  <2> QED
    BY <2>1, <2>2, MainMoved
<1>3. CASE SpawnFailed
  <2>1. MainMoves
    BY <1>1, <1>3 DEF SpawnFailed
  <2>2. ZombieHasSignal'
    BY <1>1, <1>3 DEF SpawnFailed, ZombieHasSignal, Zombies
  <2> QED
    BY <2>1, <2>2, MainMoved
<1>4. CASE Sigaction
  <2>1. MainMoves
    BY <1>1, <1>4 DEF Sigaction
  <2>2. ZombieHasSignal'
    BY <1>1, <1>4 DEF Sigaction, ZombieHasSignal, Zombies
  <2> QED
    BY <2>1, <2>2, MainMoved
<1>5. CASE Interrupt
  <2>1. MainMoves
    BY <1>1, <1>5 DEF Interrupt
  <2>2. ZombieHasSignal'
    BY <1>5 DEF Interrupt, ZombieHasSignal
  <2> QED
    BY <2>1, <2>2, MainMoved
<1>6. CASE HandlerReturns
  <2>1. MainMoves
    BY <1>1, <1>6 DEF HandlerReturns
  <2>2. ZombieHasSignal'
    BY <1>6 DEF HandlerReturns, NothingToReap, ZombieHasSignal, Zombies
  <2> QED
    BY <2>1, <2>2, MainMoved
<1> QED
  BY <1>2, <1>3, <1>4, <1>5, <1>6

\* The worker starts on the number that main has, in the table that main has.
LEMMA SpawnInv == ASSUME IInv, Spawn, UNCHANGED program PROVE IInv'
<1>1. /\ TypeOK /\ NewWorker /\ Owns /\ Phases /\ ZombieHasSignal
      /\ pc = "spawn" /\ newest' = None
      /\ UNCHANGED <<program, conn, cfd, installed, pending, resume, unsignalled, crossed>>
      /\ thread' = [thread EXCEPT ![newest] = Worker(StartsAt, cfd, "none")]
      /\ tab' = IF program = "fork" THEN [tab EXCEPT ![newest] = tab[Main]] ELSE tab
  BY DEF IInv, RepliesToSender, Spawn, sigVars
<1>2. /\ newest \in Clients /\ thread[newest].pc = "none" /\ cfd \in Fds
      /\ conn[newest].state = "accepted" /\ thread \in [Clients -> WorkerType]
  BY <1>1 DEF NewWorker, Spawning, TypeOK, WorkerType, Labels, Bufs
<1>3. /\ pc' \in {"close", "serving", "accept"}
      /\ pc' = "close" => program = "fork"
      /\ pc' = "serving" => program \in {"local", "single"}
  <2>1. CASE program = "fork"
    BY <2>1 DEF Spawn
  <2>2. CASE program \in {"local", "single"}
    BY <2>2 DEF Spawn
  <2>3. CASE program \notin {"fork", "local", "single"}
    BY <2>3 DEF Spawn
  <2> QED
    BY <2>1, <2>2, <2>3
<1>4. /\ thread' \in [Clients -> WorkerType]
      /\ \A v \in Clients \ {newest} : thread'[v] = thread[v]
      /\ thread'[newest].pc = StartsAt /\ thread'[newest].fd = cfd
  <2>1. StartsAt \in Labels /\ StartsAt \in {"start", "read"} /\ "none" \in Bufs
    BY DEF StartsAt, Labels, Bufs
  <2> DEFINE r == Worker(StartsAt, cfd, "none")
  <2>2. r \in WorkerType /\ r.pc = StartsAt /\ r.fd = cfd
    BY <1>2, <2>1, WorkerRecords
  <2>3. thread' = [thread EXCEPT ![newest] = r]
    BY <1>1
  <2> HIDE DEF r
  <2> QED
    BY <1>2, <2>2, <2>3
<1>5. /\ tab' \in [Procs -> [Fds -> Clients \cup {None}]]
      /\ tab'[Main] = tab[Main]
      /\ program = "fork" => tab'[newest] = tab[Main]
      /\ \A v \in Clients \ {newest} : tab'[v] = tab[v]
  BY <1>1, <1>2, ServersAssumption DEF TypeOK, Procs
<1>6. TypeOK'
  BY <1>1, <1>3, <1>4, <1>5 DEF TypeOK, WorkerType, Labels, Bufs
<1>7. RepliesToSender' /\ Phases'
  BY <1>1, <1>3, <1>6 DEF IInv, RepliesToSender, Phases
<1>8. ZombieHasSignal'
  BY <1>1, <1>4 DEF ZombieHasSignal, Zombies, StartsAt
<1>9. NewWorker'
  BY <1>1, <1>2, <1>3, <1>4 DEF NewWorker, Spawning
<1>10. Owns'
  <2> SUFFICES ASSUME program # "pthread" PROVE Owns'
    BY <1>1 DEF Owns
  <2>1. ~Spawning'
    BY <1>3 DEF Spawning
  <2>2. PICK n \in Clients : n = newest
    BY <1>2
  <2>3. ASSUME NEW v \in Clients \ {n} PROVE OwnsAt(v)'
    <3>1. OwnsAt(v)
      BY <1>1 DEF Owns
    <3>2. Target(v)' = Target(v)
      BY <1>1, <1>4, <1>5, <2>2 DEF Target, Proc
    <3> QED
      BY <1>1, <1>4, <2>2, <3>1, <3>2 DEF OwnsAt, Running
  <2>4. OwnsAt(n)'
    <3>1. tab'[Proc(n)'][cfd] = n
      BY <1>1, <1>5, <2>2 DEF Proc, Owns, Spawning
    <3> QED
      BY <1>1, <1>4, <2>2, <3>1 DEF OwnsAt, Running, Target, StartsAt
  <2> QED
    BY <2>1, <2>3, <2>4 DEF Owns
<1> QED
  BY <1>7, <1>8, <1>9, <1>10 DEF IInv

\* Only the table of the parent loses the number.
LEMMA ParentClosesInv == ASSUME IInv, ParentCloses, UNCHANGED program PROVE IInv'
<1>1. /\ TypeOK /\ NewWorker /\ Owns /\ Phases /\ ZombieHasSignal
      /\ pc = "close" /\ pc' = "sigaction" /\ program = "fork"
      /\ UNCHANGED <<program, conn, thread, cfd, newest, installed, pending, resume,
                     unsignalled, crossed>>
      /\ tab' = [tab EXCEPT ![Main][cfd] = None]
  BY DEF IInv, RepliesToSender, ParentCloses, ParentTable, sigVars, Phases
<1>2. /\ tab' \in [Procs -> [Fds -> Clients \cup {None}]]
      /\ \A w \in Clients : tab'[w] = tab[w]
  BY <1>1, ServersAssumption DEF TypeOK, Procs
<1>3. TypeOK'
  BY <1>1, <1>2 DEF TypeOK
<1>4. RepliesToSender' /\ Phases' /\ ZombieHasSignal'
  BY <1>1, <1>3 DEF IInv, RepliesToSender, Phases, ZombieHasSignal, Zombies
<1>5. NewWorker' /\ ~Spawning'
  BY <1>1 DEF NewWorker, Spawning
<1>6. Owns'
  BY <1>1, <1>2, <1>5 DEF Owns, OwnsAt, Running, Target, Proc
<1> QED
  BY <1>4, <1>5, <1>6 DEF IInv

LEMMA ReapInv ==
  ASSUME IInv, NEW c \in Clients, Reap(c), UNCHANGED program PROVE IInv'
<1>1. /\ TypeOK /\ NewWorker /\ Owns /\ ZombieHasSignal
      /\ pc = "handler" /\ thread[c].pc = "zombie"
      /\ UNCHANGED <<program, conn, tab, pc, cfd, newest, installed, pending, resume,
                     unsignalled, crossed>>
      /\ thread' = [thread EXCEPT ![c].pc = "reaped"]
  BY DEF IInv, RepliesToSender, Reap, Zombies, mainVars, sigVars
<1>2. /\ thread' \in [Clients -> WorkerType] /\ thread'[c].pc = "reaped"
      /\ \A v \in Clients \ {c} : thread'[v] = thread[v]
  BY <1>1 DEF TypeOK, WorkerType, Labels, Bufs
<1>3. TypeOK'
  BY <1>1, <1>2 DEF TypeOK, WorkerType, Labels, Bufs
<1>4. RepliesToSender' /\ Phases' /\ ZombieHasSignal'
  BY <1>1, <1>3 DEF IInv, RepliesToSender, Phases, ZombieHasSignal
<1>5. OneWorker(c)
  BY <1>1, <1>2 DEF OneWorker, Spawning
<1>6. OwnsAt(c)'
  BY <1>2 DEF OwnsAt, Running
<1>7. NewWorker' /\ Owns'
  BY <1>1, <1>5, <1>6, NewWorkerKept, OwnsKept
<1> QED
  BY <1>4, <1>7 DEF IInv

-----------------------------------------------------------------------------
(* The steps of the workers *)

\* What the steps of a worker have in common: its record becomes r, nobody is
\* started, and main goes on, or ends, or is back from the client it served.
WorkerMoves(w, r) ==
  /\ thread' = [thread EXCEPT ![w] = r]
  /\ conn' \in [Clients -> ConnType]
  /\ \A c \in Clients : conn'[c].state = conn[c].state
  /\ tab' \in [Procs -> [Fds -> Clients \cup {None}]]
  /\ UNCHANGED <<program, cfd, newest, installed, resume>>
  /\ pc' \in {pc, "accept", "exited"}
  /\ pc' # pc => program # "fork" /\ pc # "exited"
  /\ pending' \in BOOLEAN /\ (pending' => program = "fork" /\ installed)
  /\ unsignalled' \subseteq Clients /\ crossed' \in BOOLEAN

LEMMA WorkerMoved ==
  ASSUME IInv, NEW w \in Clients, NEW r \in WorkerType, WorkerMoves(w, r),
         thread[w].pc # "none"
  PROVE  TypeOK' /\ Phases' /\ NewWorker' /\ OneWorker(w) /\ thread'[w] = r
<1>1. TypeOK /\ Phases /\ NewWorker
  BY DEF IInv, RepliesToSender
<1>2. /\ thread' \in [Clients -> WorkerType] /\ thread'[w] = r
      /\ \A v \in Clients \ {w} : thread'[v] = thread[v]
  <2>1. thread \in [Clients -> WorkerType]
    BY <1>1 DEF TypeOK, WorkerType, Labels, Bufs
  <2> QED
    BY <2>1 DEF WorkerMoves
<1>3. pc' \in {"accept", "spawn", "close", "sigaction", "handler", "serving", "exited"}
  BY <1>1 DEF WorkerMoves, TypeOK
<1>4. TypeOK'
  BY <1>1, <1>2, <1>3 DEF WorkerMoves, TypeOK, ConnType, WorkerType, Labels, Bufs
<1>5. Phases'
  BY <1>1 DEF WorkerMoves, Phases
<1>6. OneWorker(w)
  BY <1>2 DEF OneWorker, WorkerMoves, Spawning
<1> QED
  BY <1>1, <1>2, <1>4, <1>5, <1>6, NewWorkerKept

\* A step after which w is no zombie, that sends nothing that is not w's own.
LEMMA WorkerStepKept ==
  ASSUME IInv, NEW w \in Clients, NEW r \in WorkerType, WorkerMoves(w, r),
         thread[w].pc \notin {"none", "zombie"}, r.pc # "zombie",
         UNCHANGED <<pending, unsignalled>>,
         program # "pthread" =>
           /\ crossed' = crossed /\ (Spawning => tab'[Main][cfd] = tab[Main][cfd])
           /\ \A v \in Clients \ {w} : Running(v) =>
                tab'[Proc(v)][thread[v].fd] = tab[Proc(v)][thread[v].fd]
           /\ OwnsAt(w)'
  PROVE  IInv'
<1>1. TypeOK' /\ Phases' /\ NewWorker' /\ OneWorker(w) /\ thread'[w] = r
  BY WorkerMoved
<1>2. TypeOK /\ NewWorker /\ Owns /\ ZombieHasSignal /\ Phases
  BY DEF IInv, RepliesToSender
<1>3. Owns'
  BY <1>1, <1>2, OwnsKept
<1>4. ZombieHasSignal'
  <2>1. Zombies' \subseteq Zombies
    BY <1>1 DEF Zombies, OneWorker
  <2>2. pc = "exited" => pc' = "exited"
    BY DEF WorkerMoves
  <2>3. pc = "handler" => pc' = "handler"
    BY <1>2 DEF WorkerMoves, Phases
  <2> QED
    BY <1>2, <2>1, <2>2, <2>3, ZombiesKept
<1>5. RepliesToSender'
  BY <1>1 DEF IInv, RepliesToSender, WorkerMoves
<1> QED
  BY <1>1, <1>3, <1>4, <1>5 DEF IInv

\* What the types say of worker w.
LEMMA WorkerTypes ==
  ASSUME IInv, NEW w \in Clients
  PROVE  /\ thread[w] \in WorkerType /\ conn \in [Clients -> ConnType]
         /\ tab \in [Procs -> [Fds -> Clients \cup {None}]] /\ cfd \in Fds
         /\ Proc(w) \in Procs /\ thread[w].fd \in Fds /\ thread[w].buf \in Bufs
         /\ Target(w) \in Clients \cup {None}
         /\ program \in Programs /\ pending \in BOOLEAN /\ crossed \in BOOLEAN
         /\ unsignalled \subseteq Clients /\ (pending => program = "fork" /\ installed)
<1>1. TypeOK /\ Phases
  BY DEF IInv, RepliesToSender
<1>2. /\ thread[w] \in WorkerType /\ conn \in [Clients -> ConnType]
      /\ tab \in [Procs -> [Fds -> Clients \cup {None}]] /\ cfd \in Fds
  BY <1>1 DEF TypeOK, WorkerType, ConnType, Labels, Bufs
<1>3. Proc(w) \in Procs /\ thread[w].fd \in Fds /\ thread[w].buf \in Bufs
  BY <1>2 DEF Proc, Procs, WorkerType
<1> QED
  BY <1>1, <1>2, <1>3 DEF Target, TypeOK, Phases

\* What read and write do to a connection leaves its state.
LEMMA ConnKept ==
  ASSUME conn \in [Clients -> ConnType], NEW c \in Clients,
         \/ conn' = [conn EXCEPT ![c].data = FALSE]
         \/ conn' = [conn EXCEPT ![c].gone = "dead"]
  PROVE  /\ conn' \in [Clients -> ConnType]
         /\ \A b \in Clients : conn'[b].state = conn[b].state
<1>1. /\ [conn[c] EXCEPT !.data = FALSE] \in ConnType
      /\ [conn[c] EXCEPT !.gone = "dead"] \in ConnType
  BY DEF ConnType
<1>2. conn' \in [Clients -> ConnType]
  BY <1>1
<1>3. conn[c].state = [conn[c] EXCEPT !.data = FALSE].state
      /\ conn[c].state = [conn[c] EXCEPT !.gone = "dead"].state
  BY DEF ConnType
<1>4. \A b \in Clients : conn'[b].state = conn[b].state
  BY <1>3
<1> QED
  BY <1>2, <1>4

LEMMA StartInv ==
  ASSUME IInv, NEW w \in Clients, Start(w), UNCHANGED program PROVE IInv'
<1> DEFINE r == [thread[w] EXCEPT !.pc = "read", !.fd = cfd]
<1>1. /\ thread[w].pc = "start" /\ thread' = [thread EXCEPT ![w] = r]
      /\ UNCHANGED <<conn, tab, pc, cfd, newest, installed, pending, resume,
                     unsignalled, crossed>>
  BY DEF Start, At, mainVars, sigVars
<1>2. r \in WorkerType /\ r.pc = "read"
  BY WorkerTypes DEF WorkerType, Labels
<1>3. program = "pthread"
  BY <1>1 DEF IInv, Owns, OwnsAt
<1> HIDE DEF r
<1>4. WorkerMoves(w, r)
  BY <1>1, WorkerTypes DEF WorkerMoves
<1> QED
  BY <1>1, <1>2, <1>3, <1>4, WorkerStepKept

\* What read returned comes from the connection of the number's owner.
LEMMA ReadInv ==
  ASSUME IInv, NEW w \in Clients, Read(w), UNCHANGED program PROVE IInv'
<1>1. /\ thread[w].pc = "read" /\ (program = "fork" \/ pc # "exited")
      /\ UNCHANGED <<program, tab, cfd, newest, installed, pending, resume,
                     unsignalled, crossed>>
  BY DEF Read, At, sigVars
<1>2. PICK result \in Clients \cup {"eof", "error"} :
        /\ ReadReturns(w, result) /\ result \in {Target(w), "eof", "error"}
        /\ \/ conn' = conn
           \/ /\ Target(w) \in Clients
              /\ \/ conn' = [conn EXCEPT ![Target(w)].data = FALSE]
                 \/ conn' = [conn EXCEPT ![Target(w)].gone = "dead"]
  BY WorkerTypes DEF Read
<1> DEFINE label == AfterRead(result)
           r == Worker(label, thread[w].fd, result)
<1>3. /\ label \in {"read", "write", "close", "ended", "exit"}
      /\ label = "close" => \/ program \in {"pthread", "ttcp"}
                            \/ program = "fork" /\ result = "eof"
      /\ program = "fork" => label \in {"write", "close"}
  BY WorkerTypes, AfterReadResult
<1>4. /\ thread' = [thread EXCEPT ![w] = r]
      /\ pc' = MainAfter(label)
  BY <1>2 DEF ReadReturns
<1> HIDE DEF label
<1>5. /\ r \in WorkerType /\ r.pc = label
      /\ label \in {"read", "write", "close"} => r.fd = thread[w].fd /\ r.buf = result
  <2>1. label \in Labels /\ thread[w].fd \in Fds /\ result \in Bufs
    BY <1>3, WorkerTypes DEF Labels, Bufs
  <2> QED
    BY <2>1, WorkerRecords
<1> HIDE DEF r
<1>6. /\ pc' \in {pc, "accept", "exited"}
      /\ program = "fork" => pc' = pc
  BY <1>3, <1>4 DEF MainAfter
<1>7. /\ conn' \in [Clients -> ConnType]
      /\ \A c \in Clients : conn'[c].state = conn[c].state
  <2>1. conn \in [Clients -> ConnType]
    BY WorkerTypes
  <2> QED
    BY <1>2, <2>1, ConnKept
<1>8. WorkerMoves(w, r)
  BY <1>1, <1>4, <1>6, <1>7, WorkerTypes DEF WorkerMoves
<1>9. program # "pthread" => OwnsAt(w)'
  <2> SUFFICES ASSUME program # "pthread" PROVE OwnsAt(w)'
    OBVIOUS
  <2>1. thread'[w] = r
    BY <1>1, <1>5, <1>8, WorkerMoved
  <2>2. OwnsAt(w)
    BY DEF IInv, Owns
  <2>3. /\ label \in {"read", "write", "close"} => Target(w)' = Target(w)
        /\ Target(w) = w \/ (program = "fork" /\ Target(w) = None)
    BY <1>1, <1>5, <2>1, <2>2 DEF OwnsAt, Running, Target, Proc
  <2>4. result \in {w, "eof", "error"}
    BY <1>2, <2>3, ServersAssumption
  <2> QED
    BY <1>1, <1>3, <1>5, <2>1, <2>3, <2>4 DEF OwnsAt, Running
<1> QED
  BY <1>1, <1>3, <1>5, <1>8, <1>9, WorkerStepKept

\* A child closes the number in its own table; a thread of ttcp, in the table of all,
\* the one number that refers to its client.
LEMMA CloseInv ==
  ASSUME IInv, NEW w \in Clients, Close(w), UNCHANGED program PROVE IInv'
<1> DEFINE r == Worker(AfterClose, thread[w].fd, thread[w].buf)
<1>1. /\ thread[w].pc = "close" /\ thread' = [thread EXCEPT ![w] = r]
      /\ tab' = [tab EXCEPT ![Proc(w)][thread[w].fd] = None]
      /\ UNCHANGED <<program, conn, pc, cfd, newest, installed, pending, resume,
                     unsignalled, crossed>>
  BY DEF Close, At, mainVars, sigVars
<1>2. /\ r \in WorkerType /\ r.pc = AfterClose
      /\ AfterClose = "write" => r.fd = thread[w].fd /\ r.buf = thread[w].buf
      /\ AfterClose = IF program = "ttcp" THEN "ended" ELSE "write"
  <2>1. AfterClose \in Labels /\ thread[w].fd \in Fds /\ thread[w].buf \in Bufs
    BY WorkerTypes DEF AfterClose, Labels
  <2> QED
    BY <2>1, WorkerRecords DEF AfterClose
<1> HIDE DEF r
<1>3. /\ tab' \in [Procs -> [Fds -> Clients \cup {None}]]
      /\ tab'[Proc(w)][thread[w].fd] = None
      /\ \A p \in Procs, fd \in Fds :
           <<p, fd>> # <<Proc(w), thread[w].fd>> => tab'[p][fd] = tab[p][fd]
  BY <1>1, WorkerTypes
<1>4. WorkerMoves(w, r)
  BY <1>1, <1>3, WorkerTypes DEF WorkerMoves
<1>5. ASSUME program # "pthread"
      PROVE  /\ Spawning => tab'[Main][cfd] = tab[Main][cfd]
             /\ \A v \in Clients \ {w} : Running(v) =>
                  tab'[Proc(v)][thread[v].fd] = tab[Proc(v)][thread[v].fd]
             /\ OwnsAt(w)'
  <2> USE <1>5
  <2>1. OwnsAt(w) /\ Running(w)
    BY <1>1 DEF IInv, Owns, Running
  <2>2. CASE program = "ttcp"
    <3>1. Target(w) = w /\ Proc(w) = Main /\ \A v \in Clients : Proc(v) = Main
      BY <2>1, <2>2 DEF OwnsAt, Proc
    <3>2. Spawning => cfd # thread[w].fd
      BY <1>1, <3>1 DEF IInv, NewWorker, Owns, Target
    <3>3. ASSUME NEW v \in Clients \ {w}, Running(v) PROVE thread[v].fd # thread[w].fd
      BY <2>2, <3>1, <3>3 DEF IInv, Owns, OwnsAt, Target
    <3>4. OwnsAt(w)'
      BY <1>1, <1>2, <1>4, <2>2, WorkerMoved DEF OwnsAt, Running
    <3> QED
      BY <1>3, <3>1, <3>2, <3>3, <3>4, WorkerTypes DEF Procs
  <2>3. CASE program = "fork"
    <3>1. \A v \in Clients : Proc(v) = v /\ Proc(v)' = v /\ v # Main
      BY <1>1, <2>3, ServersAssumption DEF Proc
    <3>2. OwnsAt(w)'
      BY <1>1, <1>2, <1>3, <1>4, <2>1, <2>3, <3>1, WorkerMoved DEF OwnsAt, Running, Target
    <3> QED
      BY <1>3, <3>1, <3>2, WorkerTypes DEF Procs
  <2> QED
    BY <1>1, <2>1, <2>2, <2>3 DEF OwnsAt
<1>6. r.pc # "zombie"
  BY <1>2
<1>7. program # "pthread" => crossed' = crossed
  BY <1>1
<1> QED
  BY <1>1, <1>2, <1>4, <1>5, <1>6, <1>7, WorkerStepKept

\* After a write, whatever it returned, the worker reads or closes.
LEMMA WriteReturned ==
  ASSUME IInv, NEW w \in Clients, NEW failed \in BOOLEAN, WriteReturns(w, failed),
         At(w, "write"), conn' \in [Clients -> ConnType],
         \A c \in Clients : conn'[c].state = conn[c].state,
         UNCHANGED <<program, tab, pc, cfd, newest, installed, pending, resume,
                     unsignalled>>,
         crossed' \in BOOLEAN, program # "pthread" => crossed' = crossed
  PROVE  IInv'
<1> DEFINE label == IF failed /\ program = "ttcp" THEN "close" ELSE "read"
           r == [thread[w] EXCEPT !.buf = "none", !.pc = label]
<1>1. thread' = [thread EXCEPT ![w] = r] /\ thread[w].pc = "write"
  BY DEF WriteReturns, At
<1>2. /\ r \in WorkerType /\ r.pc = label /\ r.fd = thread[w].fd
      /\ label \in {"read", "close"} /\ (label = "close" => program = "ttcp")
  BY WorkerTypes DEF WorkerType, Labels, Bufs
<1> HIDE DEF r, label
<1>3. WorkerMoves(w, r)
  BY <1>1, WorkerTypes DEF WorkerMoves
<1>4. thread'[w] = r
  BY <1>1, <1>2, <1>3, WorkerMoved
<1>5. program # "pthread" => OwnsAt(w)'
  <2> SUFFICES ASSUME program # "pthread" PROVE OwnsAt(w)'
    OBVIOUS
  <2>1. OwnsAt(w) /\ Running(w)
    BY <1>1 DEF IInv, Owns, Running
  <2>2. Target(w)' = Target(w)
    BY <1>2, <1>4 DEF Target, Proc
  <2> QED
    BY <1>2, <1>4, <2>1, <2>2 DEF OwnsAt
<1> QED
  BY <1>1, <1>2, <1>3, <1>5, WorkerStepKept

\* What is sent to a client is its own: it is not crossed.
LEMMA WriteInv ==
  ASSUME IInv, NEW w \in Clients, NEW c \in Clients,
         WriteNothing(w) \/ WriteTo(w, c), UNCHANGED program
  PROVE  IInv'
<1>1. CASE WriteNothing(w)
  BY <1>1, WriteReturned, WorkerTypes DEF WriteNothing, mainVars, sigVars
<1>2. CASE WriteTo(w, c)
  <2>1. /\ At(w, "write") /\ c = Target(w) /\ thread[w].buf # "error"
        /\ UNCHANGED <<program, tab, pc, cfd, newest, installed, pending, resume,
                       unsignalled>>
    BY <1>2 DEF WriteTo, mainVars, sigVars
  <2>2. conn' = conn \/ conn' = [conn EXCEPT ![c].gone = "dead"]
    BY <1>2 DEF WriteTo
  <2>3. /\ conn' \in [Clients -> ConnType]
        /\ \A b \in Clients : conn'[b].state = conn[b].state
    <3>1. conn \in [Clients -> ConnType]
      BY WorkerTypes
    <3> QED
      BY <2>2, <3>1, ConnKept
  <2>4. PICK failed \in BOOLEAN : WriteReturns(w, failed)
    BY <1>2 DEF WriteTo
  <2>5. \/ crossed' = crossed
        \/ crossed' = (crossed \/ thread[w].buf \notin {c, "eof"})
    BY <1>2 DEF WriteTo
  <2>6. program # "pthread" => thread[w].buf \in {c, "eof"}
    <3> SUFFICES ASSUME program # "pthread" PROVE thread[w].buf \in {c, "eof"}
      OBVIOUS
    <3>1. OwnsAt(w) /\ thread[w].pc = "write"
      BY <2>1 DEF IInv, Owns, At
    <3>2. c = w
      BY <2>1, <3>1, ServersAssumption DEF OwnsAt, Running
    <3> QED
      BY <2>1, <3>1, <3>2 DEF OwnsAt
  <2>7. crossed' \in BOOLEAN /\ (program # "pthread" => crossed' = crossed)
    BY <2>5, <2>6, WorkerTypes
  <2> QED
    BY <2>1, <2>3, <2>4, <2>7, WriteReturned
<1> QED
  BY <1>1, <1>2

\* A child that ends has its signal pending, or ended before there was a handler.
LEMMA SigpipeInv ==
  ASSUME IInv, NEW w \in Clients, NEW c \in Clients, Sigpipe(w, c), UNCHANGED program
  PROVE  IInv'
<1>1. /\ thread[w].pc = "write" /\ (program = "fork" \/ pc # "exited")
      /\ UNCHANGED <<program, conn, cfd, newest, installed, resume, crossed>>
  BY DEF Sigpipe, At
<1>2. CASE program # "fork"
  <2>1. pc' = "exited" /\ UNCHANGED <<tab, thread, pending, unsignalled>>
    BY <1>2 DEF Sigpipe
  <2>2. /\ thread[w] \in WorkerType /\ thread' = [thread EXCEPT ![w] = thread[w]]
    BY <2>1, WorkerTypes DEF IInv, RepliesToSender, TypeOK
  <2>3. WorkerMoves(w, thread[w])
    BY <1>1, <1>2, <2>1, <2>2, WorkerTypes DEF WorkerMoves
  <2>4. program # "pthread" => OwnsAt(w)'
    BY <1>1, <2>1 DEF IInv, Owns, OwnsAt, Running, Target, Proc
  <2> QED
    BY <1>1, <2>1, <2>2, <2>3, <2>4, WorkerStepKept
<1>3. CASE program = "fork"
  <2> DEFINE r == Worker("zombie", 1, "none")
  <2>1. /\ thread' = [thread EXCEPT ![w] = r] /\ tab' = [tab EXCEPT ![w] = EmptyTable]
        /\ pending' = installed /\ pc' = pc
        /\ unsignalled' = IF installed THEN unsignalled ELSE unsignalled \cup {w}
    BY <1>3 DEF Sigpipe
  <2>2. r \in WorkerType /\ r.pc = "zombie"
    <3>1. 1 \in Fds /\ "zombie" \in Labels /\ "none" \in Bufs
      BY ServersAssumption DEF Fds, Labels, Bufs
    <3> QED
      BY <3>1, WorkerRecords
  <2> HIDE DEF r
  <2>3. /\ tab' \in [Procs -> [Fds -> Clients \cup {None}]]
        /\ \A p \in Procs \ {w} : tab'[p] = tab[p]
    BY <2>1, WorkerTypes DEF EmptyTable, Procs
  <2>4. installed \in BOOLEAN
    BY DEF IInv, RepliesToSender, TypeOK
  <2>5. WorkerMoves(w, r)
    BY <1>1, <1>3, <2>1, <2>3, <2>4, WorkerTypes DEF WorkerMoves
  <2>6. TypeOK' /\ Phases' /\ NewWorker' /\ OneWorker(w) /\ thread'[w] = r
    BY <1>1, <2>2, <2>5, WorkerMoved
  <2>7. OwnsAt(w)'
    BY <1>3, <2>2, <2>6 DEF OwnsAt, Running
  <2>8. \A v \in Clients \ {w} : Running(v) =>
          tab'[Proc(v)][thread[v].fd] = tab[Proc(v)][thread[v].fd]
    BY <1>3, <2>3 DEF Proc, Procs
  <2>9. tab'[Main][cfd] = tab[Main][cfd]
    BY <2>3, ServersAssumption DEF Procs
  <2>10. Owns'
    BY <2>6, <2>7, <2>8, <2>9, OwnsKept DEF IInv, RepliesToSender
  <2>11. ZombieHasSignal'
    <3>1. ASSUME NEW v \in Zombies' PROVE v = w \/ v \in Zombies
      BY <2>6 DEF Zombies, OneWorker
    <3>2. installed => pending'
      BY <2>1
    <3>3. ~installed => w \in unsignalled' /\ ~pending
      BY <2>1, WorkerTypes
    <3> QED
      BY <2>1, <3>1, <3>2, <3>3 DEF IInv, ZombieHasSignal
  <2>12. RepliesToSender'
    BY <1>1, <2>6 DEF IInv, RepliesToSender
  <2> QED
    BY <2>6, <2>10, <2>11, <2>12 DEF IInv
<1> QED
  BY <1>2, <1>3

LEMMA NextInv == IInv /\ [Next]_vars => IInv'
<1> SUFFICES ASSUME IInv, [Next]_vars PROVE IInv'
  OBVIOUS
<1>1. CASE MainStep
  BY <1>1, AcceptInv, ReapInv, MoveInv, SpawnInv, ParentClosesInv DEF MainStep
<1>2. ASSUME NEW w \in Clients, WorkerStep(w) PROVE IInv'
  BY <1>2, StartInv, ReadInv, CloseInv, WriteInv, SigpipeInv DEF WorkerStep
<1>3. CASE UNCHANGED vars
  BY <1>3 DEF IInv, RepliesToSender, TypeOK, ZombieHasSignal, Zombies, Phases,
     NewWorker, Spawning, Owns, OwnsAt, Running, Target, Proc, vars, mainVars, sigVars
<1> QED
  BY <1>1, <1>2, <1>3, ClientInv DEF Next

\* In every program but pthreadserver.c a client is sent only what it wrote, in
\* spite of numbers that are used again: whoever still uses a number owns it, and
\* only the owner closes it (echo.cc 38-47, forkserver.c 38-50).
THEOREM OwnReplies == Spec => []RepliesToSender
<1>1. IInv => RepliesToSender
  BY DEF IInv
<1> QED
  BY <1>1, InitInv, NextInv, PTL DEF Spec

\* forkserver.c 6-9: the handler returns only when no zombie is left, so that a
\* child that ended and is not reaped has a signal to come, or came too early for
\* any.
THEOREM ZombiesSignalled == Spec => []ZombieHasSignal
<1>1. IInv => ZombieHasSignal
  BY DEF IInv
<1> QED
  BY <1>1, InitInv, NextInv, PTL DEF Spec

-----------------------------------------------------------------------------
(* No descriptor of ttcp is left without an owner. *)

\* As long as ttcp/echo.cc runs, a descriptor belongs to a thread that will close
\* it, or to the stream main is about to give to one.
OwnerCloses ==
  program = "ttcp" /\ pc # "exited" =>
    \A fd \in Fds, c \in Clients : tab[Main][fd] = c =>
      \/ Running(c) /\ thread[c].fd = fd
      \/ pc = "spawn" /\ newest = c /\ cfd = fd

\* The steps of ttcp's main.
LEMMA OwnerClosesMain ==
  ASSUME IInv, OwnerCloses, MainStep PROVE OwnerCloses'
<1> SUFFICES ASSUME program = "ttcp", pc' # "exited" PROVE OwnerCloses'
  BY DEF OwnerCloses, MainStep
<1>1. TypeOK /\ Phases /\ NewWorker /\ Owns /\ UNCHANGED program
  BY DEF IInv, RepliesToSender, MainStep
<1>2. PICK c \in Clients : Accept(c) \/ Spawn
  BY <1>1 DEF MainStep, AcceptFails, SpawnFailed, ParentCloses, Sigaction,
     Interrupt, HandlerReturns, Reap, Phases, Spawn, NewWorker, Spawning
<1>3. CASE Accept(c)
  <2>1. /\ pc = "accept" /\ pc' = "spawn" /\ newest' = c /\ UNCHANGED thread
        /\ tab' = [tab EXCEPT ![Main][cfd'] = c]
    BY <1>3 DEF Accept
  <2>2. \A fd \in Fds : fd # cfd' => tab'[Main][fd] = tab[Main][fd]
    BY <1>1, <2>1 DEF TypeOK, Procs
  <2>3. cfd' \in Fds /\ tab'[Main][cfd'] = c
    BY <1>1, <1>3, <2>1, LeastFree DEF Accept, FreeFds, TypeOK, Procs
  <2> QED
    BY <2>1, <2>2, <2>3 DEF OwnerCloses, Running
<1>4. CASE Spawn
  <2>1. /\ pc = "spawn" /\ UNCHANGED <<tab, cfd>>
        /\ thread' = [thread EXCEPT ![newest] = Worker(StartsAt, cfd, "none")]
    BY <1>4 DEF Spawn
  <2>2. newest \in Clients /\ thread[newest].pc = "none" /\ cfd \in Fds
    BY <1>1, <2>1 DEF NewWorker, Spawning, TypeOK
  <2> DEFINE r == Worker(StartsAt, cfd, "none")
  <2>3. r.pc = "read" /\ r.fd = cfd
    <3>1. StartsAt = "read" /\ StartsAt \in Labels /\ "none" \in Bufs
      BY DEF StartsAt, Labels, Bufs
    <3> QED
      BY <2>2, <3>1, WorkerRecords
  <2>4. thread' = [thread EXCEPT ![newest] = r]
    BY <2>1
  <2> HIDE DEF r
  <2>5. /\ thread'[newest] = r
        /\ \A v \in Clients \ {newest} : thread'[v] = thread[v]
    BY <1>1, <2>2, <2>4 DEF TypeOK
  <2>6. ASSUME NEW fd \in Fds, NEW v \in Clients, tab[Main][fd] = v
        PROVE  Running(v)' /\ thread'[v].fd = fd
    BY <2>1, <2>2, <2>3, <2>5, <2>6 DEF OwnerCloses, Running
  <2> QED
    BY <2>1, <2>6 DEF OwnerCloses
<1> QED
  BY <1>2, <1>3, <1>4

\* The steps of ttcp's threads: what read and write return is followed by another
\* step of the same thread, and by its end only in Close.
LEMMA OwnerClosesWorker ==
  ASSUME IInv, OwnerCloses, NEW w \in Clients, WorkerStep(w) PROVE OwnerCloses'
<1> SUFFICES ASSUME program = "ttcp" PROVE OwnerCloses'
  BY DEF OwnerCloses, WorkerStep
<1>1. /\ TypeOK /\ UNCHANGED <<program, cfd, newest>> /\ thread[w].pc # "start"
      /\ thread \in [Clients -> WorkerType] /\ thread[w] \in WorkerType
  BY WorkerTypes DEF IInv, RepliesToSender, Owns, OwnsAt, WorkerStep, Start, Read,
     Close, WriteNothing, WriteTo, Sigpipe, mainVars, TypeOK, WorkerType, Labels, Bufs
<1>2. CASE Close(w)
  <2> DEFINE r == Worker("ended", thread[w].fd, thread[w].buf)
  <2>1. /\ UNCHANGED pc /\ thread[w].pc = "close"
        /\ tab' = [tab EXCEPT ![Main][thread[w].fd] = None]
        /\ thread' = [thread EXCEPT ![w] = r]
    BY <1>2 DEF Close, At, AfterClose, Proc, mainVars
  <2> HIDE DEF r
  <2>2. /\ \A v \in Clients \ {w} : thread'[v] = thread[v]
        /\ tab'[Main][thread[w].fd] = None
        /\ \A fd \in Fds : fd # thread[w].fd => tab'[Main][fd] = tab[Main][fd]
    BY <1>1, <2>1 DEF TypeOK, Procs, WorkerType
  <2>3. ASSUME NEW fd \in Fds, NEW v \in Clients, tab'[Main][fd] = v, pc # "exited"
        PROVE  \/ Running(v)' /\ thread'[v].fd = fd
               \/ pc = "spawn" /\ newest = v /\ cfd = fd
    <3>1. fd # thread[w].fd /\ tab[Main][fd] = v
      BY <2>2, <2>3, ServersAssumption
    <3>2. \/ Running(v) /\ thread[v].fd = fd
          \/ pc = "spawn" /\ newest = v /\ cfd = fd
      BY <2>3, <3>1 DEF OwnerCloses
    <3> QED
      BY <2>2, <3>1, <3>2 DEF Running
  <2> QED
    BY <1>1, <2>1, <2>3 DEF OwnerCloses
<1>3. CASE ~Close(w)
  <2>1. UNCHANGED tab /\ pc # "exited" /\ Running(w)
    BY <1>1, <1>3 DEF WorkerStep, Start, Read, WriteNothing, WriteTo, Sigpipe, At,
       Running
  <2>2. /\ thread'[w].pc \in {"read", "write", "close"}
        /\ thread'[w].fd = thread[w].fd /\ UNCHANGED pc
        /\ \A v \in Clients \ {w} : thread'[v] = thread[v]
    <3>1. CASE Read(w)
      <4>1. PICK result \in Clients \cup {"eof", "error"} : ReadReturns(w, result)
        BY <3>1, WorkerTypes DEF Read
      <4>2. AfterRead(result) \in {"write", "close"}
        BY <1>1 DEF AfterRead
      <4> DEFINE r == Worker(AfterRead(result), thread[w].fd, result)
      <4>3. thread' = [thread EXCEPT ![w] = r]
        BY <4>1 DEF ReadReturns
      <4>4. r.pc = AfterRead(result) /\ r.fd = thread[w].fd
        <5>1. AfterRead(result) \in Labels /\ thread[w].fd \in Fds /\ result \in Bufs
          BY <4>2, WorkerTypes DEF Labels, Bufs
        <5> QED
          BY <4>2, <5>1, WorkerRecords
      <4>5. UNCHANGED pc
        BY <4>1, <4>2 DEF ReadReturns, MainAfter
      <4> HIDE DEF r
      <4> QED
        BY <1>1, <4>2, <4>3, <4>4, <4>5
    <3>2. CASE ~Read(w)
      <4>1. PICK label \in {"read", "close"} :
              /\ thread' = [thread EXCEPT ![w].buf = "none", ![w].pc = label]
              /\ UNCHANGED pc
        BY <1>1, <1>3, <3>2 DEF WorkerStep, Start, WriteNothing, WriteTo, Sigpipe,
           WriteReturns, At, mainVars
      <4> QED
        BY <1>1, <4>1 DEF WorkerType
    <3> QED
      BY <3>1, <3>2
  <2> QED
    BY <1>1, <2>1, <2>2 DEF OwnerCloses, Running
<1> QED
  BY <1>2, <1>3

\* ~Socket is what closes (Socket.cc, echo.cc 26-49): there is no descriptor of a
\* connection that no thread is going to close, whatever reads, writes and the
\* clients do, so that the table of ttcp only fills while threads run.
THEOREM NoDescriptorLost == Spec => []OwnerCloses
<1>1. Init => OwnerCloses
  BY ServersAssumption DEF Init, OwnerCloses, EmptyTable, Procs
<1>2. IInv /\ OwnerCloses /\ [Next]_vars => OwnerCloses'
  <2> SUFFICES ASSUME IInv, OwnerCloses, [Next]_vars PROVE OwnerCloses'
    OBVIOUS
  <2>1. ASSUME NEW c \in Clients, Client(c) PROVE OwnerCloses'
    BY <2>1 DEF Client, OwnerCloses, Running, mainVars
  <2>2. CASE UNCHANGED vars
    BY <2>2 DEF vars, OwnerCloses, Running, mainVars
  <2> QED
    BY <2>1, <2>2, OwnerClosesMain, OwnerClosesWorker DEF Next
<1> QED
  BY <1>1, <1>2, InitInv, NextInv, PTL DEF Spec

-----------------------------------------------------------------------------
(* The tables of forkserver.c's children. *)

\* main has forked and not yet closed its own cfd.
Closing == pc = "close" \/ (pc = "handler" /\ resume = "close")

\* In forkserver.c a process has, of the clients that got a child, only its own,
\* and only as long as it runs; main has that of the last one until it closes cfd.
OwnTables ==
  program = "fork" =>
    \A p \in Procs, fd \in Fds, c \in Clients : tab[p][fd] = c =>
      \/ thread[c].pc = "none"
      \/ p = c /\ Running(c)
      \/ p = Main /\ Closing /\ fd = cfd

\* A child copies what main has, so the connection that a child is started for is
\* nowhere else before.
NotInherited ==
  program = "fork" =>
    \A p \in Procs, fd \in Fds, c \in Clients : tab[p][fd] = c =>
      /\ conn[c].state = "accepted"
      /\ p # Main => thread[p].pc # "none"
      /\ Spawning /\ c = newest => p = Main /\ fd = cfd

ForkTables == OwnTables /\ NotInherited

\* Steps that add nothing to a table, start no child and end none.
TablesShrink ==
  /\ UNCHANGED <<program, cfd>>
  /\ \A p \in Procs, fd \in Fds : tab'[p][fd] \in {tab[p][fd], None}
  /\ \A c \in Clients :
       /\ conn[c].state = "accepted" => conn'[c].state = "accepted"
       /\ thread'[c].pc = "none" <=> thread[c].pc = "none"
       /\ Running(c) => Running(c)' \/ \A fd \in Fds : tab'[c][fd] = None
  /\ Spawning' => Spawning /\ newest' = newest
  /\ Closing => Closing' \/ tab'[Main][cfd] = None

LEMMA ShrinkKeeps ==
  ASSUME ForkTables, TablesShrink PROVE ForkTables'
<1> SUFFICES ASSUME program = "fork", NEW p \in Procs, NEW fd \in Fds,
                    NEW c \in Clients, tab'[p][fd] = c
             PROVE  /\ \/ thread'[c].pc = "none"
                       \/ p = c /\ Running(c)'
                       \/ p = Main /\ Closing' /\ fd = cfd
                    /\ conn'[c].state = "accepted"
                    /\ p # Main => thread'[p].pc # "none"
                    /\ Spawning' /\ c = newest' => p = Main /\ fd = cfd
  BY DEF ForkTables, OwnTables, NotInherited, TablesShrink
<1>1. c # None /\ tab[p][fd] = c
  BY ServersAssumption DEF TablesShrink
<1>2. /\ \/ thread[c].pc = "none"
         \/ p = c /\ Running(c)
         \/ p = Main /\ Closing /\ fd = cfd
      /\ conn[c].state = "accepted"
      /\ p # Main => thread[p].pc # "none"
      /\ Spawning /\ c = newest => p = Main /\ fd = cfd
  BY <1>1 DEF ForkTables, OwnTables, NotInherited
<1>3. p # Main => p \in Clients
  BY DEF Procs
<1> QED
  BY <1>1, <1>2, <1>3 DEF TablesShrink

\* The steps that do change what the tables say: main's accept and fork.
LEMMA AcceptTables ==
  ASSUME IInv, ForkTables, NEW b \in Clients, Accept(b), UNCHANGED program
  PROVE  ForkTables'
<1>1. /\ TypeOK /\ pc = "accept" /\ pc' = "spawn" /\ newest' = b /\ UNCHANGED thread
      /\ conn[b].state = "queued" /\ thread[b].pc = "none"
      /\ conn' = [conn EXCEPT ![b].state = "accepted"]
      /\ tab' = [tab EXCEPT ![Main][cfd'] = b] /\ cfd' \in Fds
  BY LeastFree DEF IInv, RepliesToSender, NewWorker, Accept, FreeFds
<1>2. \A p \in Procs, fd \in Fds :
        tab'[p][fd] = IF p = Main /\ fd = cfd' THEN b ELSE tab[p][fd]
  BY <1>1 DEF TypeOK, Procs
<1>3. /\ conn'[b].state = "accepted"
      /\ \A c \in Clients \ {b} : conn'[c] = conn[c]
  BY <1>1 DEF TypeOK
<1> SUFFICES ASSUME program = "fork", NEW p \in Procs, NEW fd \in Fds,
                    NEW c \in Clients, tab'[p][fd] = c
             PROVE  /\ thread[c].pc = "none" \/ (p = c /\ Running(c))
                    /\ conn'[c].state = "accepted"
                    /\ p # Main => thread[p].pc # "none"
                    /\ c = b => p = Main /\ fd = cfd'
  BY <1>1 DEF ForkTables, OwnTables, NotInherited, Running
<1>4. CASE p = Main /\ fd = cfd'
  BY <1>1, <1>2, <1>3, <1>4
<1>5. CASE ~(p = Main /\ fd = cfd')
  <2>1. tab[p][fd] = c
    BY <1>2, <1>5
  <2>2. conn[c].state = "accepted" /\ c # b
    BY <1>1, <2>1 DEF ForkTables, NotInherited
  <2> QED
    BY <1>1, <1>3, <2>1, <2>2 DEF ForkTables, OwnTables, NotInherited, Closing
<1> QED
  BY <1>4, <1>5

LEMMA SpawnTables ==
  ASSUME IInv, ForkTables, Spawn, UNCHANGED program PROVE ForkTables'
<1> SUFFICES ASSUME program = "fork" PROVE ForkTables'
  BY DEF ForkTables, OwnTables, NotInherited
<1> DEFINE r == Worker("read", cfd, "none")
<1>1. /\ TypeOK /\ pc = "spawn" /\ pc' = "close" /\ UNCHANGED <<conn, cfd>>
      /\ thread' = [thread EXCEPT ![newest] = r]
      /\ tab' = [tab EXCEPT ![newest] = tab[Main]]
  BY DEF IInv, RepliesToSender, Spawn, StartsAt
<1>2. r.pc = "read"
  <2>1. cfd \in Fds /\ "read" \in Labels /\ "none" \in Bufs
    BY <1>1 DEF TypeOK, Labels, Bufs
  <2> QED
    BY <2>1, WorkerRecords
<1> HIDE DEF r
<1>3. newest \in Clients /\ Spawning
  BY <1>1 DEF IInv, NewWorker, Spawning
<1>4. /\ thread'[newest].pc = "read"
      /\ \A c \in Clients \ {newest} : thread'[c] = thread[c]
  BY <1>1, <1>2, <1>3 DEF TypeOK
<1>5. \A p \in Procs : tab'[p] = IF p = newest THEN tab[Main] ELSE tab[p]
  BY <1>1 DEF TypeOK
<1> SUFFICES ASSUME NEW p \in Procs, NEW fd \in Fds, NEW c \in Clients,
                    tab'[p][fd] = c
             PROVE  /\ \/ thread'[c].pc = "none"
                       \/ p = c /\ Running(c)'
                       \/ p = Main /\ fd = cfd
                    /\ conn[c].state = "accepted"
                    /\ p # Main => thread'[p].pc # "none"
  BY <1>1 DEF ForkTables, OwnTables, NotInherited, Closing, Spawning
<1>6. CASE p = newest \/ p = Main
  <2>1. tab[Main][fd] = c /\ Main \in Procs
    BY <1>5, <1>6 DEF Procs
  <2>2. /\ thread[c].pc = "none" /\ conn[c].state = "accepted"
        /\ c = newest => fd = cfd
    BY <1>1, <1>3, <2>1, ServersAssumption
    DEF ForkTables, OwnTables, NotInherited, Closing
  <2> QED
    BY <1>4, <1>6, <2>2 DEF Running
<1>7. CASE p # newest /\ p # Main
  <2>1. tab[p][fd] = c /\ p \in Clients
    BY <1>7, <1>5 DEF Procs
  <2>2. /\ thread[c].pc = "none" \/ (p = c /\ Running(c))
        /\ conn[c].state = "accepted" /\ thread[p].pc # "none" /\ c # newest
    BY <1>3, <1>7, <2>1 DEF ForkTables, OwnTables, NotInherited
  <2> QED
    BY <1>4, <1>7, <2>1, <2>2 DEF Running
<1> QED
  BY <1>6, <1>7

\* The other steps of main give back its own cfd, or change no table.
LEMMA MainTables ==
  ASSUME IInv, ForkTables, UNCHANGED program,
         \/ AcceptFails \/ SpawnFailed \/ ParentCloses \/ Sigaction
         \/ Interrupt \/ HandlerReturns \/ \E c \in Clients : Reap(c)
  PROVE  ForkTables'
<1>1. TypeOK /\ (pc = "close" => program = "fork")
  BY DEF IInv, RepliesToSender, Phases
<1>2. CASE ParentCloses
  <2>1. /\ tab' = [tab EXCEPT ![Main][cfd] = None]
        /\ pc = "close" /\ pc' = "sigaction"
        /\ UNCHANGED <<conn, thread, cfd, newest>>
    BY <1>2 DEF ParentCloses, ParentTable
  <2>2. \A q \in Procs, fd \in Fds : tab'[q][fd] \in {tab[q][fd], None}
    BY <1>1, <2>1 DEF TypeOK
  <2>3. tab'[Main][cfd] = None
    BY <1>1, <2>1 DEF TypeOK, Procs
  <2>4. TablesShrink
    BY <2>1, <2>2, <2>3 DEF TablesShrink, Running, Spawning
  <2> QED
    BY <2>4, ShrinkKeeps
<1>3. ASSUME NEW c \in Clients, Reap(c) PROVE ForkTables'
  <2>1. /\ thread[c].pc = "zombie" /\ thread' = [thread EXCEPT ![c].pc = "reaped"]
        /\ UNCHANGED <<conn, tab, pc, cfd, newest, resume>>
    BY <1>3 DEF Reap, Zombies, mainVars, sigVars
  <2>2. /\ thread'[c].pc = "reaped"
        /\ \A v \in Clients \ {c} : thread'[v] = thread[v]
    BY <1>1, <2>1 DEF TypeOK
  <2>3. TablesShrink
    BY <2>1, <2>2 DEF TablesShrink, Running, Spawning, Closing
  <2> QED
    BY <2>3, ShrinkKeeps
<1>4. CASE AcceptFails \/ SpawnFailed \/ Sigaction \/ Interrupt \/ HandlerReturns
  <2>1. UNCHANGED <<conn, tab, thread, cfd>>
    BY <1>4 DEF AcceptFails, SpawnFailed, Sigaction, Interrupt, HandlerReturns
  <2>2. /\ Spawning' => Spawning /\ newest' = newest
        /\ Closing => Closing'
    BY <1>1, <1>4 DEF AcceptFails, SpawnFailed, Sigaction, Interrupt, HandlerReturns,
       Spawning, Closing, TypeOK
  <2>3. TablesShrink
    BY <2>1, <2>2 DEF TablesShrink, Running
  <2> QED
    BY <2>3, ShrinkKeeps
<1> QED
  BY <1>2, <1>3, <1>4

\* A child goes on, closes its own number, or ends with its table.
LEMMA WorkerTables ==
  ASSUME IInv, ForkTables, NEW w \in Clients, WorkerStep(w) PROVE ForkTables'
<1> SUFFICES ASSUME program = "fork" PROVE ForkTables'
  BY DEF ForkTables, OwnTables, NotInherited, WorkerStep
<1>1. /\ TypeOK /\ UNCHANGED <<program, cfd, newest, resume>> /\ Running(w)
      /\ thread \in [Clients -> WorkerType] /\ thread[w] \in WorkerType
  BY WorkerTypes DEF IInv, RepliesToSender, Owns, OwnsAt, WorkerStep, Start, Read,
     Close, WriteNothing, WriteTo, Sigpipe, At, Running, mainVars, sigVars, TypeOK,
     WorkerType, Labels, Bufs
<1>2. \A c \in Clients : conn'[c].state = conn[c].state
  <2>1. \/ UNCHANGED conn
        \/ \E c \in Clients : \/ conn' = [conn EXCEPT ![c].data = FALSE]
                              \/ conn' = [conn EXCEPT ![c].gone = "dead"]
    BY WorkerTypes DEF WorkerStep, Start, Read, Close, WriteNothing, WriteTo, Sigpipe
  <2> QED
    BY <2>1, ConnKept, WorkerTypes
<1>3. /\ \A v \in Clients \ {w} : thread'[v] = thread[v]
      /\ thread'[w].pc \in {"read", "write", "close", "zombie"}
      /\ thread'[w].pc = "zombie" => tab' = [tab EXCEPT ![w] = EmptyTable]
      /\ UNCHANGED pc
  <2>1. CASE Read(w)
    <3>1. PICK result \in Clients \cup {"eof", "error"} : ReadReturns(w, result)
      BY <2>1, WorkerTypes DEF Read
    <3>2. AfterRead(result) \in {"write", "close"}
      BY DEF AfterRead
    <3> DEFINE r == Worker(AfterRead(result), thread[w].fd, result)
    <3>3. thread' = [thread EXCEPT ![w] = r] /\ UNCHANGED pc
      BY <3>1, <3>2 DEF ReadReturns, MainAfter
    <3>4. r.pc = AfterRead(result)
      <4>1. AfterRead(result) \in Labels /\ thread[w].fd \in Fds /\ result \in Bufs
        BY <3>2, WorkerTypes DEF Labels, Bufs
      <4> QED
        BY <4>1, WorkerRecords
    <3> HIDE DEF r
    <3> QED
      BY <1>1, <3>2, <3>3, <3>4
  <2>2. CASE Close(w)
    <3> DEFINE r == Worker("write", thread[w].fd, thread[w].buf)
    <3>1. thread' = [thread EXCEPT ![w] = r] /\ UNCHANGED pc
      BY <2>2 DEF Close, AfterClose, mainVars
    <3>2. r.pc = "write"
      <4>1. "write" \in Labels /\ thread[w].fd \in Fds /\ thread[w].buf \in Bufs
        BY WorkerTypes DEF Labels
      <4> QED
        BY <4>1, WorkerRecords
    <3> HIDE DEF r
    <3> QED
      BY <1>1, <3>1, <3>2
  <2>3. ASSUME NEW c \in Clients, Sigpipe(w, c) PROVE <1>3!:
    <3>1. /\ thread' = [thread EXCEPT ![w] = Worker("zombie", 1, "none")]
          /\ tab' = [tab EXCEPT ![w] = EmptyTable] /\ UNCHANGED pc
      BY <2>3 DEF Sigpipe
    <3>2. Worker("zombie", 1, "none").pc = "zombie"
      BY DEF Worker
    <3> QED
      BY <1>1, <3>1, <3>2
  <2>4. CASE WriteNothing(w) \/ \E c \in Clients : WriteTo(w, c)
    <3>1. /\ thread' = [thread EXCEPT ![w].buf = "none", ![w].pc = "read"]
          /\ UNCHANGED pc
      BY <2>4 DEF WriteNothing, WriteTo, WriteReturns, mainVars
    <3> QED
      BY <1>1, <3>1 DEF WorkerType
  <2>5. ~Start(w)
    BY <1>1 DEF Start, At, Running
  <2> QED
    BY <2>1, <2>2, <2>3, <2>4, <2>5 DEF WorkerStep
<1>4. \A q \in Procs, fd \in Fds : tab'[q][fd] \in {tab[q][fd], None}
  <2>1. \/ UNCHANGED tab
        \/ tab' = [tab EXCEPT ![w][thread[w].fd] = None]
        \/ tab' = [tab EXCEPT ![w] = EmptyTable]
    BY DEF WorkerStep, Start, Read, Close, WriteNothing, WriteTo, Sigpipe, Proc
  <2> QED
    BY <1>1, <2>1 DEF TypeOK, EmptyTable
<1>5. thread'[w].pc = "zombie" => \A fd \in Fds : tab'[w][fd] = None
  BY <1>1, <1>3 DEF TypeOK, Procs, EmptyTable
<1>6. TablesShrink
  BY <1>1, <1>2, <1>3, <1>4, <1>5 DEF TablesShrink, Running, Spawning, Closing
<1> QED
  BY <1>6, ShrinkKeeps

\* forkserver.c 28-50: the parent closes cfd right after fork, so no child inherits
\* the connection of another that runs, however accepts, failing forks, signals and
\* ends of children fall between: when a child closes or ends nobody keeps its
\* client's connection open.  It is what LeaversReleased needs of safety.
THEOREM ChildrenKeepTheirOwn == Spec => []OwnTables
<1>1. Init => ForkTables
  BY ServersAssumption DEF Init, ForkTables, OwnTables, NotInherited, EmptyTable
<1>2. IInv /\ ForkTables /\ [Next]_vars => ForkTables'
  <2> SUFFICES ASSUME IInv, ForkTables, [Next]_vars PROVE ForkTables'
    OBVIOUS
  <2>1. CASE MainStep
    BY <2>1, AcceptTables, SpawnTables, MainTables DEF MainStep
  <2>2. ASSUME NEW c \in Clients, Client(c) PROVE ForkTables'
    <3>1. UNCHANGED <<program, tab, thread, pc, cfd, newest, resume>>
      BY <2>2 DEF Client, mainVars, sigVars
    <3>2. \A b \in Clients \ {c} : conn'[b] = conn[b]
      <4>1. conn \in [Clients -> ConnType]
        BY WorkerTypes
      <4> QED
        BY <2>2, <4>1 DEF Client, ClientConnects, ClientSends, ClientLeaves
    <3>3. conn[c].state = "accepted" => conn'[c].state = "accepted"
      <4>1. conn[c] \in ConnType /\ conn \in [Clients -> ConnType]
        BY WorkerTypes
      <4>2. CASE ClientConnects(c)
        BY <4>2 DEF ClientConnects
      <4>3. CASE ClientSends(c)
        BY <4>1, <4>3 DEF ClientSends, ConnType
      <4>4. CASE ClientLeaves(c)
        <5>1. PICK how, d : conn' = [conn EXCEPT ![c].gone = how, ![c].data = d]
          BY <4>4 DEF ClientLeaves
        <5> QED
          BY <4>1, <5>1 DEF ConnType
      <4> QED
        BY <2>2, <4>2, <4>3, <4>4 DEF Client
    <3>4. \A b \in Clients : conn[b].state = "accepted" => conn'[b].state = "accepted"
      BY <3>2, <3>3
    <3> QED
      BY <3>1, <3>4, ShrinkKeeps DEF TablesShrink, Running, Spawning, Closing
  <2>3. CASE UNCHANGED vars
    BY <2>3, ShrinkKeeps DEF vars, mainVars, sigVars, TablesShrink, Running, Spawning,
       Closing
  <2> QED
    BY <2>1, <2>2, <2>3, WorkerTables DEF Next
<1>3. ForkTables => OwnTables
  BY DEF ForkTables
<1> QED
  BY <1>1, <1>2, <1>3, InitInv, NextInv, PTL DEF Spec

=============================================================================
