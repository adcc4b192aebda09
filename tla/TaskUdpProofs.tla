---------------------------- MODULE TaskUdpProofs ----------------------------
(***************************************************************************)
(* Proofs about TaskHandle, for any number of threads and tasks, and about *)
(* UdpEcho, for any number of clients, lines, queued datagrams, restarts   *)
(* and starts.  UdpEcho is an instance, because both have an Init, a Next  *)
(* and a TypeOK.                                                           *)
(***************************************************************************)
EXTENDS TaskHandle, Sequences, FiniteSetTheorems, TLAPS

-----------------------------------------------------------------------------
(* TaskHandle *)

\* Whoever is in the critical section holds the mutex, and a thread that left the
\* loop, or is about to reset _x, found it to be 0.
Critical ==
  \A t \in Threads :
    /\ pc[t] \in {"get", "decrement", "reset"} => mutex = t
    /\ pc[t] \in {"reset", "returned"} => x = 0

\* Ids above _x were taken; the id of a thread that decrements _x is its value.
Taken ==
  \A t \in Threads :
    IF pc[t] = "decrement" THEN x > 0 /\ task_id[t] = x
    ELSE task_id[t] = 0 \/ task_id[t] > x

\* A task that was taken was run, or is about to be.
Run ==
  \A k \in Ids :
    k > x => runs[k] > 0 \/ \E t \in Threads : pc[t] = "do" /\ task_id[t] = k

IInv == TypeOK /\ Critical /\ Taken /\ Distinct /\ Run

LEMMA InitIInv == Init => IInv
BY TasksAssumption
DEF Init, IInv, TypeOK, Critical, Taken, Distinct, Run, Ids

LEMMA TestIInv ==
  ASSUME IInv, NEW t \in Threads, Test(t)
  PROVE  IInv'
BY TasksAssumption
DEF Test, Goto, IInv, TypeOK, Critical, Taken, Distinct, Run, Ids

LEMMA LockIInv ==
  ASSUME IInv, NEW t \in Threads, Lock(t)
  PROVE  IInv'
BY TasksAssumption
DEF Lock, Goto, IInv, TypeOK, Critical, Taken, Distinct, Run, Ids

LEMMA GetIInv ==
  ASSUME IInv, NEW t \in Threads, Get(t)
  PROVE  IInv'
<1>1. TypeOK'
  BY TasksAssumption DEF Get, Goto, IInv, TypeOK, Ids
<1>2. Critical'
  BY TasksAssumption DEF Get, Goto, IInv, TypeOK, Critical, Ids
<1>3. Taken' /\ Distinct'
  BY TasksAssumption
  DEF Get, Goto, IInv, TypeOK, Critical, Taken, Distinct, Ids
<1>4. Run'
  BY TasksAssumption DEF Get, Goto, IInv, TypeOK, Run, Ids
<1> QED
  BY <1>1, <1>2, <1>3, <1>4 DEF IInv

LEMMA StoreIInv ==
  ASSUME IInv, NEW t \in Threads, Store(t)
  PROVE  IInv'
<1>1. TypeOK'
  BY TasksAssumption DEF Store, Goto, IInv, TypeOK, Taken, Ids
<1>2. Critical'
  BY TasksAssumption DEF Store, Goto, IInv, TypeOK, Critical, Taken, Ids
<1>3. Taken' /\ Distinct'
  BY TasksAssumption
  DEF Store, Goto, IInv, TypeOK, Critical, Taken, Distinct, Ids
<1>4. Run'
  BY TasksAssumption DEF Store, Goto, IInv, TypeOK, Critical, Taken, Run, Ids
<1> QED
  BY <1>1, <1>2, <1>3, <1>4 DEF IInv

LEMMA DoIInv ==
  ASSUME IInv, NEW t \in Threads, Do(t)
  PROVE  IInv'
<1>1. TypeOK' /\ Critical'
  BY TasksAssumption DEF Do, Goto, IInv, TypeOK, Critical, Ids
<1>2. Taken' /\ Distinct'
  BY TasksAssumption DEF Do, Goto, IInv, TypeOK, Taken, Distinct, Ids
<1>3. Run'
  BY TasksAssumption DEF Do, Goto, IInv, TypeOK, Run, Ids
<1> QED
  BY <1>1, <1>2, <1>3 DEF IInv

LEMMA Invariance == Spec => []IInv
<1>1. IInv /\ [Next]_vars => IInv'
  <2> SUFFICES ASSUME IInv, [Next]_vars
               PROVE  IInv'
    OBVIOUS
  <2>1. CASE Next
    <3>1. PICK t \in Threads : Thread(t)
      BY <2>1 DEF Next
    <3> QED
      BY <3>1, TestIInv, LockIInv, GetIInv, StoreIInv, DoIInv DEF Thread
  <2>2. CASE UNCHANGED vars
    BY <2>2 DEF vars, IInv, TypeOK, Critical, Taken, Distinct, Run
  <2> QED
    BY <2>1, <2>2
<1> QED
  BY InitIInv, <1>1, PTL DEF Spec

\* No two threads get the same task from Task::handle, and _x never falls below 0
\* although it is decremented by threads that tested it earlier (lines 16-19).
THEOREM OneTaker == Spec => []TakenByOne
BY Invariance, PTL DEF IInv, TakenByOne

\* When all threads have returned from Task::handle, every task was run.
THEOREM NothingLost == Spec => []NoTaskLost
<1>1. IInv => NoTaskLost
  BY TasksAssumption DEF IInv, NoTaskLost, Critical, Run, TypeOK, Ids
<1> QED
  BY Invariance, <1>1, PTL

-----------------------------------------------------------------------------
(* UdpEcho.  pc and None are the names of its parameters too. *)

CONSTANTS Clients, NLines, Cap, MaxBirths, MaxStarts

VARIABLES buf, left, births, server, cli_addr, server_buf, starts, inbox, answers,
          asked, lost, late

Udp == INSTANCE UdpEcho

\* The datagrams of client c that wait in the server's socket.
QueueOf(c) == {k \in DOMAIN inbox : inbox[k].from = c}

\* The server is answering client c.
AtServer(c) == server = "sendto" /\ cli_addr = c

\* Every process that had the port of c has at most one datagram on its way, the
\* present one only while it waits.
Counted(c) ==
  Cardinality(QueueOf(c)) + (IF AtServer(c) THEN 1 ELSE 0) + Len(answers[c])
    <= births[c] + (IF pc[c] = "recvfrom" THEN 1 ELSE 0)

\* Nothing on its way comes from a process that does not exist yet.
Older(c) ==
  /\ buf[c].proc <= births[c]
  /\ \A k \in QueueOf(c) : inbox[k].text.proc <= births[c]
  /\ AtServer(c) => server_buf.proc <= births[c]
  /\ \A k \in DOMAIN answers[c] : answers[c][k].proc <= births[c]

\* What is on its way for the process that runs: as a question, being answered, or
\* as an answer.
Questions(c) == {k \in QueueOf(c) : inbox[k].text.proc = births[c]}
Served(c) == AtServer(c) /\ server_buf.proc = births[c]
Replies(c) == {k \in DOMAIN answers[c] : answers[c][k].proc = births[c]}

\* A client that took nothing meant for another process has at most one datagram
\* of its own on its way, while it waits, and that one carries what it asked.
Exchange(c) ==
  /\ buf[c].proc = births[c]
  /\ pc[c] = "write" => buf[c] = Udp!ToUpper(asked[c])
  /\ \A k \in Questions(c) :
       /\ pc[c] = "recvfrom" /\ inbox[k].text = asked[c]
       /\ ~Served(c) /\ Replies(c) = {} /\ Questions(c) = {k}
  /\ Served(c) =>
       /\ pc[c] = "recvfrom" /\ server_buf = Udp!ToUpper(asked[c])
       /\ Replies(c) = {}
  /\ \A k \in Replies(c) :
       /\ pc[c] = "recvfrom" /\ answers[c][k] = Udp!ToUpper(asked[c])
       /\ Replies(c) = {k}

PerClient(c) == Counted(c) /\ Older(c) /\ (c \notin late => Exchange(c))

UdpInv ==
  /\ Udp!TypeOK
  /\ server = "sendto" => cli_addr \in Clients
  /\ \A c \in Clients : PerClient(c)

Datagrams == [from : Clients, text : Udp!Texts]

\* A bounded sequence is a sequence and bounded.
LEMMA SeqBound ==
  ASSUME NEW S, NEW n \in Nat, NEW s
  PROVE  s \in Udp!BoundedSeq(S, n) <=> s \in Seq(S) /\ Len(s) <= n
<1>1. ASSUME s \in Udp!BoundedSeq(S, n) PROVE s \in Seq(S) /\ Len(s) <= n
  <2>1. PICK m \in 0..n : s \in [1..m -> S]
    BY <1>1 DEF Udp!BoundedSeq, Udp!SeqOf
  <2> QED
    BY <2>1
<1>2. ASSUME s \in Seq(S), Len(s) <= n PROVE s \in Udp!BoundedSeq(S, n)
  <2>1. s \in [1..Len(s) -> S] /\ Len(s) \in 0..n
    BY <1>2
  <2> QED
    BY <2>1 DEF Udp!BoundedSeq, Udp!SeqOf
<1> QED
  BY <1>1, <1>2

\* What TypeOK says of the queues, in terms of Seq.
Queues ==
  /\ inbox \in Seq(Datagrams) /\ Len(inbox) <= Cap
  /\ \A c \in Clients :
       answers[c] \in Seq(Udp!Texts) /\ Len(answers[c]) <= MaxBirths + 1
  /\ DOMAIN answers = Clients /\ answers = [c \in Clients |-> answers[c]]

\* The rest of TypeOK.
Fields ==
  /\ pc \in [Clients -> {"fgets", "sendto", "recvfrom", "write"}]
  /\ buf \in [Clients -> Udp!Texts] /\ asked \in [Clients -> Udp!Texts]
  /\ left \in [Clients -> 0..NLines] /\ births \in [Clients -> 0..MaxBirths]
  /\ server \in {"down", "recvfrom", "sendto"} /\ starts \in 0..MaxStarts
  /\ cli_addr \in Clients \cup {None} /\ server_buf \in Udp!Texts
  /\ lost \subseteq Clients /\ late \subseteq Clients

\* TypeOK in these terms, before a step and after it.
LEMMA Types == Udp!UdpAssumption => (Udp!TypeOK <=> Fields /\ Queues)
<1> SUFFICES ASSUME Udp!UdpAssumption PROVE Udp!TypeOK <=> Fields /\ Queues
  OBVIOUS
<1>1. Cap \in Nat /\ MaxBirths + 1 \in Nat
  BY DEF Udp!UdpAssumption
<1>2. inbox \in Udp!BoundedSeq(Datagrams, Cap)
        <=> inbox \in Seq(Datagrams) /\ Len(inbox) <= Cap
  BY <1>1, SeqBound
<1>3. \A c : answers[c] \in Udp!BoundedSeq(Udp!Texts, MaxBirths + 1)
        <=> answers[c] \in Seq(Udp!Texts) /\ Len(answers[c]) <= MaxBirths + 1
  BY <1>1, SeqBound
<1>4. Udp!TypeOK => Fields /\ Queues
  BY <1>2, <1>3 DEF Udp!TypeOK, Fields, Queues, Datagrams
<1>5. Fields /\ Queues => Udp!TypeOK
  BY <1>2, <1>3 DEF Udp!TypeOK, Fields, Queues, Datagrams
<1> QED
  BY <1>4, <1>5

LEMMA TypesAfter == ASSUME Udp!UdpAssumption, Fields', Queues' PROVE Udp!TypeOK'
<1>1. Cap \in Nat /\ MaxBirths + 1 \in Nat
  BY DEF Udp!UdpAssumption
<1>2. inbox' \in Udp!BoundedSeq(Datagrams, Cap)
  BY <1>1, SeqBound DEF Queues
<1>3. \A c \in Clients : answers'[c] \in Udp!BoundedSeq(Udp!Texts, MaxBirths + 1)
  BY <1>1, SeqBound DEF Queues
<1> QED
  BY <1>2, <1>3 DEF Udp!TypeOK, Fields, Queues, Datagrams

\* toupper keeps the length of the text, and whose it is.
LEMMA Upper ==
  ASSUME NEW t \in Udp!Texts
  PROVE  Udp!ToUpper(t) \in Udp!Texts /\ Udp!ToUpper(t).proc = t.proc
BY DEF Udp!ToUpper, Udp!Texts

\* What Append does to a sequence.
LEMMA Appended ==
  ASSUME NEW S, NEW s \in Seq(S), NEW e \in S
  PROVE  /\ Append(s, e) \in Seq(S) /\ Len(Append(s, e)) = Len(s) + 1
         /\ DOMAIN Append(s, e) = DOMAIN s \cup {Len(s) + 1}
         /\ \A k \in DOMAIN s : Append(s, e)[k] = s[k]
         /\ Append(s, e)[Len(s) + 1] = e
         /\ Len(s) + 1 \notin DOMAIN s
<1>1. /\ Append(s, e) \in Seq(S) /\ Len(Append(s, e)) = Len(s) + 1
      /\ Append(s, e)[Len(s) + 1] = e
  OBVIOUS
<1>2. DOMAIN Append(s, e) = 1..(Len(s) + 1) /\ DOMAIN s = 1..Len(s)
  OBVIOUS
<1>3. \A k \in DOMAIN s : Append(s, e)[k] = s[k]
  BY <1>2
<1> QED
  BY <1>1, <1>2, <1>3

\* What Tail leaves of a sequence.
LEMMA Tailed ==
  ASSUME NEW S, NEW s \in Seq(S), s # <<>>
  PROVE  /\ Tail(s) \in Seq(S) /\ Len(s) \in Nat /\ Len(s) >= 1
         /\ Len(Tail(s)) = Len(s) - 1
         /\ 1 \in DOMAIN s /\ Head(s) = s[1] /\ s[1] \in S
         /\ \A k \in DOMAIN Tail(s) :
              /\ k \in Nat /\ k >= 1 /\ k + 1 \in DOMAIN s
              /\ Tail(s)[k] = s[k + 1]
<1>1. /\ Tail(s) \in Seq(S) /\ Len(s) \in Nat /\ Len(s) >= 1
      /\ Len(Tail(s)) = Len(s) - 1 /\ Head(s) = s[1]
  OBVIOUS
<1>2. DOMAIN s = 1..Len(s) /\ DOMAIN Tail(s) = 1..(Len(s) - 1)
  BY <1>1
<1>3. \A k \in 1..(Len(s) - 1) : Tail(s)[k] = s[k + 1]
  BY <1>1
<1>4. s[1] \in S
  BY <1>1
<1> QED
  BY <1>1, <1>2, <1>3, <1>4

\* One datagram more in the queue.
LEMMA OneMore ==
  ASSUME NEW S, NEW T, NEW m, IsFiniteSet(S), T = S \/ T = S \cup {m}
  PROVE  Cardinality(T) \in Nat /\ Cardinality(T) <= Cardinality(S) + 1
<1>1. Cardinality(S) \in Nat
  BY FS_CardinalityType
<1>2. Cardinality(S \cup {m}) =
        IF m \in S THEN Cardinality(S) ELSE Cardinality(S) + 1
  BY FS_AddElement
<1>3. Cardinality(T) = Cardinality(S) \/ Cardinality(T) = Cardinality(S) + 1
  BY <1>2, Zenon
<1> QED
  BY <1>1, <1>3

\* The datagrams of one client in a queue can be counted.
LEMMA QueueFinite ==
  ASSUME NEW s \in Seq(Datagrams), NEW c
  PROVE  /\ IsFiniteSet({k \in DOMAIN s : s[k].from = c})
         /\ Cardinality({k \in DOMAIN s : s[k].from = c}) \in Nat
<1>1. DOMAIN s = 1..Len(s) /\ 1 \in Int /\ Len(s) \in Int
  OBVIOUS
<1>2. IsFiniteSet(1..Len(s))
  BY <1>1, FS_Interval
<1>3. IsFiniteSet({k \in DOMAIN s : s[k].from = c})
  BY <1>1, <1>2, FS_Subset
<1> QED
  BY <1>3, FS_CardinalityType

\* One less of them is left when the first datagram is taken and was one.
LEMMA TailCount ==
  ASSUME NEW s \in Seq(Datagrams), s # <<>>, NEW c
  PROVE  Cardinality({k \in DOMAIN Tail(s) : Tail(s)[k].from = c})
           <= Cardinality({k \in DOMAIN s : s[k].from = c})
                - (IF s[1].from = c THEN 1 ELSE 0)
<1> DEFINE P == {k \in DOMAIN s : s[k].from = c}
           Q == {k \in DOMAIN Tail(s) : Tail(s)[k].from = c}
           f == [k \in Q |-> k + 1]
<1>1. /\ Tail(s) \in Seq(Datagrams) /\ 1 \in DOMAIN s
      /\ \A k \in DOMAIN Tail(s) :
           k \in Nat /\ k >= 1 /\ k + 1 \in DOMAIN s /\ Tail(s)[k] = s[k + 1]
  BY Tailed
<1>2. IsFiniteSet(P) /\ Cardinality(P) \in Nat
  BY QueueFinite
<1>3. \A k \in Q : k \in Nat /\ k + 1 \in P \ {1}
  BY <1>1
<1>4. 1 \in P <=> s[1].from = c
  BY <1>1
<1>5. Cardinality(Q) \in Nat
  BY <1>1, QueueFinite
<1> HIDE DEF P, Q
<1>6. f \in Injection(Q, P \ {1})
  BY <1>3 DEF Injection, IsInjective
<1>7. /\ IsFiniteSet(P \ {1})
      /\ Cardinality(P \ {1}) = IF 1 \in P THEN Cardinality(P) - 1 ELSE Cardinality(P)
  BY <1>2, FS_RemoveElement, Zenon
<1> HIDE DEF f
<1>8. Cardinality(Q) <= Cardinality(P \ {1})
  BY <1>6, <1>7, FS_Injection
<1>9. Cardinality(Q) <= Cardinality(P) - (IF s[1].from = c THEN 1 ELSE 0)
  BY <1>2, <1>4, <1>5, <1>7, <1>8
<1> QED
  BY <1>9 DEF P, Q

\* A client about which nothing changed keeps what holds of it, and so does one
\* whose datagram the server forgot.
LEMMA Frame ==
  ASSUME NEW c \in Clients, PerClient(c), Queues, Queues', Fields, Fields',
         pc'[c] = pc[c], buf'[c] = buf[c], births'[c] = births[c],
         asked'[c] = asked[c], answers'[c] = answers[c],
         c \in late' <=> c \in late,
         \/ QueueOf(c)' = QueueOf(c)
         \/ QueueOf(c)' = {},
         \A k \in QueueOf(c)' : inbox'[k] = inbox[k],
         AtServer(c)' => AtServer(c) /\ server_buf' = server_buf
  PROVE  PerClient(c)'
<1>1. Cardinality(QueueOf(c)') \in Nat /\ Cardinality(QueueOf(c)) \in Nat
  BY QueueFinite DEF QueueOf, Queues
<1>2. Cardinality(QueueOf(c)') <= Cardinality(QueueOf(c))
  <2>1. Cardinality({}) = 0
    BY FS_EmptySet
  <2>2. CASE QueueOf(c)' = {}
    BY <1>1, <2>1, <2>2
  <2> QED
    BY <1>1, <2>2
<1>3. Len(answers[c]) \in Nat /\ births[c] \in Nat
  BY DEF Queues, Fields
<1>4. Counted(c)'
  BY <1>1, <1>2, <1>3 DEF PerClient, Counted
<1>5. QueueOf(c)' \subseteq QueueOf(c)
  OBVIOUS
<1>6. Older(c)'
  BY <1>5 DEF PerClient, Older
<1>7. ASSUME Exchange(c) PROVE Exchange(c)'
  <2>1. Questions(c)' \subseteq Questions(c) /\ Replies(c)' = Replies(c)
    BY <1>5 DEF Questions, Replies
  <2>2. Served(c)' => Served(c) /\ server_buf' = server_buf
    BY DEF Served
  <2>3. \A k \in Questions(c)' : inbox'[k] = inbox[k]
    BY DEF Questions
  <2> QED
    <3>1. \A k \in Questions(c)' :
            /\ pc'[c] = "recvfrom" /\ inbox'[k] = inbox[k]
            /\ inbox'[k].text = asked'[c]
            /\ ~Served(c)' /\ Replies(c)' = {} /\ Questions(c)' = {k}
      BY <1>7, <2>1, <2>2, <2>3 DEF Exchange
    <3>2. Served(c)' =>
            /\ pc'[c] = "recvfrom" /\ server_buf' = Udp!ToUpper(asked'[c])
            /\ Replies(c)' = {}
      BY <1>7, <2>1, <2>2 DEF Exchange
    <3>3. \A k \in Replies(c)' :
            /\ pc'[c] = "recvfrom" /\ answers'[c][k] = Udp!ToUpper(asked'[c])
            /\ Replies(c)' = {k}
      BY <1>7, <2>1 DEF Exchange
    <3> QED
      BY <1>7, <3>1, <3>2, <3>3 DEF Exchange
<1> QED
  BY <1>4, <1>6, <1>7 DEF PerClient

\* A client that does not wait has nothing of its own on the way.
LEMMA Idle ==
  ASSUME NEW c \in Clients, Exchange(c), pc[c] # "recvfrom"
  PROVE  Questions(c) = {} /\ ~Served(c) /\ Replies(c) = {}
BY DEF Exchange

\* Then it has the right to whatever it does next, if its buf is its own.
LEMMA IdleExchange ==
  ASSUME NEW c \in Clients, Questions(c)' = {}, ~Served(c)', Replies(c)' = {},
         buf'[c].proc = births'[c],
         pc'[c] = "write" => buf'[c] = Udp!ToUpper(asked'[c])
  PROVE  Exchange(c)'
BY DEF Exchange

-----------------------------------------------------------------------------
(* The steps of UdpEcho *)

LEMMA FgetsInv ==
  ASSUME Udp!UdpAssumption, UdpInv, NEW c \in Clients, Udp!Fgets(c)
  PROVE  UdpInv'
<1>1. Fields /\ Queues
  BY Types DEF UdpInv
<1>2. left[c] \in 0..NLines /\ births[c] \in 0..MaxBirths
  BY <1>1 DEF Fields
<1>3. Udp!Text(c, left[c]) \in Udp!Texts /\ Udp!Text(c, left[c]).proc = births[c]
  BY <1>2 DEF Udp!Text, Udp!Texts
<1>4. /\ UNCHANGED <<births, asked, server, cli_addr, server_buf, starts,
                     inbox, answers, lost, late>>
      /\ pc[c] = "fgets" /\ pc' = [pc EXCEPT ![c] = "sendto"]
  BY DEF Udp!Fgets, Udp!serverVars
<1>5. left' \in [Clients -> 0..NLines]
  BY <1>1, <1>2 DEF Fields, Udp!Fgets, Udp!UdpAssumption
<1>6. buf' \in [Clients -> Udp!Texts]
  BY <1>1, <1>3 DEF Fields, Udp!Fgets
<1>7. Fields' /\ Queues'
  <2>1. Queues'
    BY <1>1, <1>4 DEF Queues
  <2> QED
    BY <1>1, <1>4, <1>5, <1>6, <2>1 DEF Fields
<1>8. Udp!TypeOK'
  BY <1>7, TypesAfter
<1>9. ASSUME NEW d \in Clients, d # c PROVE PerClient(d)'
  <2>1. pc'[d] = pc[d] /\ buf'[d] = buf[d]
    BY <1>1, <1>9 DEF Udp!Fgets, Fields
  <2>2. QueueOf(d)' = QueueOf(d) /\ (AtServer(d)' <=> AtServer(d))
    BY <1>4 DEF QueueOf, AtServer
  <2> QED
    BY <1>1, <1>4, <1>7, <1>9, <2>1, <2>2, Frame DEF UdpInv
<1>10. PerClient(c)'
  <2>1. pc'[c] = "sendto" /\ buf'[c] \in {Udp!Text(c, left[c]), buf[c]}
    BY <1>1, <1>4 DEF Udp!Fgets, Fields
  <2>2. QueueOf(c)' = QueueOf(c) /\ (AtServer(c)' <=> AtServer(c))
    BY <1>4 DEF QueueOf, AtServer
  <2>3. Counted(c)'
    BY <1>4, <2>1, <2>2 DEF UdpInv, PerClient, Counted
  <2>4. Older(c)'
    BY <1>2, <1>3, <1>4, <2>1, <2>2 DEF UdpInv, PerClient, Older
  <2>5. ASSUME c \notin late PROVE Exchange(c)'
    <3>1. Exchange(c)
      BY <2>5 DEF UdpInv, PerClient
    <3>2. Questions(c)' = {} /\ ~Served(c)' /\ Replies(c)' = {}
      BY <1>4, <2>2, <3>1, Idle DEF Questions, Served, Replies
    <3>3. buf'[c].proc = births'[c]
      BY <1>3, <1>4, <2>1, <3>1 DEF Exchange
    <3> QED
      BY <2>1, <3>2, <3>3, IdleExchange
  <2> QED
    BY <1>4, <2>3, <2>4, <2>5 DEF PerClient
<1> QED
  BY <1>4, <1>8, <1>9, <1>10 DEF UdpInv

LEMMA WriteInv ==
  ASSUME Udp!UdpAssumption, UdpInv, NEW c \in Clients, Udp!Write(c)
  PROVE  UdpInv'
<1>1. Fields /\ Queues
  BY Types DEF UdpInv
<1>2. /\ UNCHANGED <<buf, left, births, asked, server, cli_addr, server_buf,
                     starts, inbox, answers, lost, late>>
      /\ pc[c] = "write" /\ pc' = [pc EXCEPT ![c] = "fgets"]
  BY DEF Udp!Write, Udp!serverVars
<1>3. Fields' /\ Queues'
  BY <1>1, <1>2 DEF Fields, Queues
<1>4. Udp!TypeOK'
  BY <1>3, TypesAfter
<1>5. ASSUME NEW d \in Clients
      PROVE  QueueOf(d)' = QueueOf(d) /\ (AtServer(d)' <=> AtServer(d))
  BY <1>2 DEF QueueOf, AtServer
<1>6. ASSUME NEW d \in Clients, d # c PROVE PerClient(d)'
  <2>1. pc'[d] = pc[d]
    BY <1>1, <1>2, <1>6 DEF Fields
  <2> QED
    BY <1>1, <1>2, <1>3, <1>5, <1>6, <2>1, Frame DEF UdpInv
<1>7. PerClient(c)'
  <2>1. pc'[c] = "fgets"
    BY <1>1, <1>2 DEF Fields
  <2>2. Counted(c)' /\ Older(c)'
    BY <1>2, <1>5, <2>1 DEF UdpInv, PerClient, Counted, Older
  <2>3. ASSUME c \notin late PROVE Exchange(c)'
    <3>1. Exchange(c)
      BY <2>3 DEF UdpInv, PerClient
    <3>2. Questions(c)' = {} /\ ~Served(c)' /\ Replies(c)' = {}
      BY <1>2, <1>5, <3>1, Idle DEF Questions, Served, Replies
    <3> QED
      BY <1>2, <2>1, <3>1, <3>2, IdleExchange DEF Exchange
  <2> QED
    BY <1>2, <2>2, <2>3 DEF PerClient
<1> QED
  BY <1>2, <1>4, <1>6, <1>7 DEF UdpInv

LEMMA RestartInv ==
  ASSUME Udp!UdpAssumption, UdpInv, NEW c \in Clients, Udp!ClientRestarts(c)
  PROVE  UdpInv'
<1>1. Fields /\ Queues
  BY Types DEF UdpInv
<1> DEFINE fresh == [proc |-> births[c] + 1, n |-> 0, upper |-> FALSE]
<1>2. /\ UNCHANGED <<asked, server, cli_addr, server_buf, starts, inbox>>
      /\ births[c] < MaxBirths
      /\ births' = [births EXCEPT ![c] = births[c] + 1]
      /\ pc' = [pc EXCEPT ![c] = "fgets"]
      /\ left' = [left EXCEPT ![c] = NLines]
      /\ buf' = [buf EXCEPT ![c] = fresh]
      /\ answers' = [answers EXCEPT ![c] = <<>>]
      /\ lost' = lost \ {c} /\ late' = late \ {c}
  BY DEF Udp!ClientRestarts, Udp!serverVars
<1>3. births[c] \in 0..MaxBirths /\ births[c] + 1 \in 0..MaxBirths
  BY <1>1, <1>2 DEF Fields, Udp!UdpAssumption
<1>4. fresh \in Udp!Texts
  BY <1>3 DEF Udp!Texts, Udp!UdpAssumption
<1>5. Fields'
  BY <1>1, <1>2, <1>3, <1>4 DEF Fields, Udp!UdpAssumption
<1>6. Queues'
  <2>1. <<>> \in Seq(Udp!Texts) /\ Len(<<>>) <= MaxBirths + 1
    BY DEF Udp!UdpAssumption
  <2> QED
    BY <1>1, <1>2, <2>1 DEF Queues
<1>7. Udp!TypeOK'
  BY <1>5, <1>6, TypesAfter
<1>8. ASSUME NEW d \in Clients
      PROVE  QueueOf(d)' = QueueOf(d) /\ (AtServer(d)' <=> AtServer(d))
  BY <1>2 DEF QueueOf, AtServer
<1>9. ASSUME NEW d \in Clients, d # c PROVE PerClient(d)'
  <2>1. /\ pc'[d] = pc[d] /\ buf'[d] = buf[d] /\ births'[d] = births[d]
        /\ answers'[d] = answers[d] /\ (d \in late' <=> d \in late)
    BY <1>1, <1>2, <1>9 DEF Fields, Queues
  <2> QED
    BY <1>1, <1>2, <1>5, <1>6, <1>8, <1>9, <2>1, Frame DEF UdpInv
<1>10. PerClient(c)'
  <2>1. /\ pc'[c] = "fgets" /\ buf'[c] = fresh /\ births'[c] = births[c] + 1
        /\ answers'[c] = <<>>
    BY <1>1, <1>2 DEF Fields, Queues
  <2>2. Counted(c) /\ Older(c)
    BY DEF UdpInv, PerClient
  <2>3. Cardinality(QueueOf(c)) \in Nat /\ Len(answers[c]) \in Nat
    <3>1. inbox \in Seq(Datagrams) /\ answers[c] \in Seq(Udp!Texts)
      BY <1>1 DEF Queues
    <3>2. Cardinality(QueueOf(c)) \in Nat
      BY <3>1, QueueFinite, Zenon DEF QueueOf
    <3> QED
      BY <3>1, <3>2
  <2>4. Counted(c)'
    <3>1. Len(answers'[c]) = 0
      BY <2>1
    <3> QED
      BY <1>3, <1>8, <2>1, <2>2, <2>3, <3>1 DEF Counted
  <2>5. \A k \in QueueOf(c) : inbox[k].text.proc \in Int
    <3>1. \A k \in QueueOf(c) : inbox[k] \in Datagrams
      BY <1>1 DEF QueueOf, Queues
    <3> QED
      BY <3>1 DEF Datagrams, Udp!Texts
  <2>6. server_buf.proc \in Int
    BY <1>1 DEF Fields, Udp!Texts
  <2>7. Older(c)'
    BY <1>2, <1>3, <1>8, <2>1, <2>2, <2>5, <2>6 DEF Older
  <2>8. Questions(c)' = {} /\ ~Served(c)' /\ Replies(c)' = {}
    BY <1>2, <1>3, <1>8, <2>1, <2>2, <2>5, <2>6
    DEF Older, Questions, Served, Replies
  <2>9. Exchange(c)'
    BY <2>1, <2>8, IdleExchange
  <2> QED
    BY <2>4, <2>7, <2>9 DEF PerClient
<1> QED
  BY <1>2, <1>7, <1>9, <1>10 DEF UdpInv

LEMMA ServerStartsInv == ASSUME Udp!UdpAssumption, UdpInv, Udp!ServerStarts PROVE UdpInv'
<1>1. Fields /\ Queues
  BY Types DEF UdpInv
<1>2. /\ UNCHANGED <<pc, buf, left, births, asked, server_buf, inbox, answers,
                     lost, late>>
      /\ server' = "recvfrom" /\ cli_addr' = None
      /\ starts < MaxStarts /\ starts' = starts + 1
  BY DEF Udp!ServerStarts, Udp!clientVars
<1>3. Fields' /\ Queues'
  BY <1>1, <1>2 DEF Fields, Queues, Udp!UdpAssumption
<1>4. Udp!TypeOK'
  BY <1>3, TypesAfter
<1>5. ASSUME NEW c \in Clients PROVE PerClient(c)'
  <2>1. QueueOf(c)' = QueueOf(c) /\ ~AtServer(c)'
    BY <1>2 DEF QueueOf, AtServer
  <2> QED
    BY <1>1, <1>2, <1>3, <2>1, Frame DEF UdpInv
<1> QED
  BY <1>2, <1>4, <1>5 DEF UdpInv

LEMMA ServerStopsInv == ASSUME Udp!UdpAssumption, UdpInv, Udp!ServerStops PROVE UdpInv'
<1>1. Fields /\ Queues
  BY Types DEF UdpInv
<1>2. /\ UNCHANGED <<pc, buf, left, births, asked, server_buf, starts, answers,
                     late>>
      /\ server' = "down" /\ cli_addr' = None /\ inbox' = <<>>
  BY DEF Udp!ServerStops, Udp!clientVars
<1>3. lost' \subseteq Clients
  <2>1. \A k \in DOMAIN inbox : inbox[k].from \in Clients
    <3>1. \A k \in DOMAIN inbox : inbox[k] \in Datagrams
      BY <1>1 DEF Queues
    <3> QED
      BY <3>1 DEF Datagrams
  <2> QED
    BY <1>1, <2>1 DEF Udp!ServerStops, UdpInv, Fields
<1>4. Fields' /\ Queues'
  BY <1>1, <1>2, <1>3 DEF Fields, Queues, Udp!UdpAssumption
<1>5. Udp!TypeOK'
  BY <1>4, TypesAfter
<1>6. ASSUME NEW c \in Clients PROVE PerClient(c)'
  <2>1. QueueOf(c)' = {} /\ ~AtServer(c)'
    BY <1>2 DEF QueueOf, AtServer
  <2> QED
    BY <1>1, <1>2, <1>4, <2>1, Frame DEF UdpInv
<1> QED
  BY <1>2, <1>5, <1>6 DEF UdpInv

LEMMA SendtoInv ==
  ASSUME Udp!UdpAssumption, UdpInv, NEW c \in Clients, Udp!Sendto(c)
  PROVE  UdpInv'
<1>1. Fields /\ Queues
  BY Types DEF UdpInv
<1> DEFINE d == [from |-> c, text |-> buf[c]]
<1>2. /\ UNCHANGED <<buf, left, births, server, cli_addr, server_buf, starts,
                     answers, late>>
      /\ pc[c] = "sendto" /\ pc' = [pc EXCEPT ![c] = "recvfrom"]
      /\ asked' = [asked EXCEPT ![c] = buf[c]]
      /\ lost' \subseteq lost \cup {c}
      /\ \/ inbox' = inbox
         \/ Len(inbox) < Cap /\ inbox' = Append(inbox, d)
  BY DEF Udp!Sendto, Udp!Taken, Udp!serverVars
<1>3. /\ inbox \in Seq(Datagrams) /\ Len(inbox) <= Cap /\ d \in Datagrams
      /\ d.from = c /\ d.text = buf[c]
  BY <1>1 DEF Queues, Fields, Datagrams
<1> HIDE DEF d
<1>4. inbox' \in Seq(Datagrams) /\ Len(inbox') <= Cap
  BY <1>2, <1>3 DEF Udp!UdpAssumption
<1>5. Fields'
  BY <1>1, <1>2 DEF Fields
<1>6. Queues'
  BY <1>1, <1>2, <1>4 DEF Queues
<1>7. Udp!TypeOK'
  BY <1>5, <1>6, TypesAfter
<1>8. ASSUME NEW b \in Clients PROVE AtServer(b)' <=> AtServer(b)
  BY <1>2 DEF AtServer
<1> DEFINE m == Len(inbox) + 1
<1> HIDE DEF m
<1>9. \/ inbox' = inbox
      \/ /\ DOMAIN inbox' = DOMAIN inbox \cup {m} /\ m \notin DOMAIN inbox
         /\ \A k \in DOMAIN inbox : inbox'[k] = inbox[k]
         /\ inbox'[m] = d
  <2>1. CASE inbox' = Append(inbox, d)
    <3>1. /\ DOMAIN inbox' = DOMAIN inbox \cup {Len(inbox) + 1}
          /\ \A k \in DOMAIN inbox : inbox'[k] = inbox[k]
          /\ inbox'[Len(inbox) + 1] = d /\ Len(inbox) + 1 \notin DOMAIN inbox
      <4> DEFINE s == Append(inbox, d)
      <4>1. /\ DOMAIN s = DOMAIN inbox \cup {Len(inbox) + 1}
            /\ \A k \in DOMAIN inbox : s[k] = inbox[k]
            /\ s[Len(inbox) + 1] = d /\ Len(inbox) + 1 \notin DOMAIN inbox
        BY <1>3, Appended
      <4> HIDE DEF s
      <4> QED
        BY <2>1, <4>1 DEF s
    <3> QED
      BY <3>1 DEF m
  <2> QED
    BY <1>2, <2>1
<1>10. \A k \in DOMAIN inbox : k \in DOMAIN inbox' /\ inbox'[k] = inbox[k]
  BY <1>9
<1>11. ASSUME NEW b \in Clients, b # c PROVE PerClient(b)'
  <2>1. QueueOf(b)' = QueueOf(b) /\ \A k \in QueueOf(b)' : inbox'[k] = inbox[k]
    BY <1>3, <1>9, <1>11 DEF QueueOf
  <2>2. pc'[b] = pc[b] /\ asked'[b] = asked[b]
    BY <1>1, <1>2, <1>11 DEF Fields
  <2> QED
    BY <1>1, <1>2, <1>5, <1>6, <1>8, <2>1, <2>2, Frame DEF UdpInv
<1>12. PerClient(c)'
  <2>1. pc'[c] = "recvfrom" /\ asked'[c] = buf[c]
    BY <1>1, <1>2 DEF Fields
  <2>2. /\ QueueOf(c) \subseteq QueueOf(c)'
        /\ QueueOf(c)' \subseteq QueueOf(c) \cup {m}
        /\ m \in QueueOf(c)' \ QueueOf(c) => inbox'[m].text = buf[c]
    BY <1>3, <1>9 DEF QueueOf
  <2>3. births[c] \in Nat /\ Len(answers[c]) \in Nat
    BY <1>1 DEF Fields, Queues
  <2>4. Counted(c)'
    <3>1. IsFiniteSet(QueueOf(c)) /\ Cardinality(QueueOf(c)) \in Nat
      BY <1>3, QueueFinite, Zenon DEF QueueOf
    <3>2. QueueOf(c)' = QueueOf(c) \/ QueueOf(c)' = QueueOf(c) \cup {m}
      BY <2>2
    <3>3. /\ Cardinality(QueueOf(c)') \in Nat
          /\ Cardinality(QueueOf(c)') <= Cardinality(QueueOf(c)) + 1
      BY <3>1, <3>2, OneMore
    <3>4. Counted(c) /\ pc[c] # "recvfrom"
      BY <1>2 DEF UdpInv, PerClient
    <3>5. answers'[c] = answers[c] /\ births'[c] = births[c]
      BY <1>2
    <3> QED
      BY <1>8, <2>1, <2>3, <3>1, <3>3, <3>4, <3>5 DEF Counted
  <2>5. Older(c)'
    <3>1. Older(c)
      BY DEF UdpInv, PerClient
    <3>2. \A k \in QueueOf(c)' : inbox'[k].text.proc <= births[c]
      BY <1>10, <2>2, <3>1 DEF Older, QueueOf
    <3> QED
      BY <1>2, <1>8, <3>1, <3>2 DEF Older
  <2>6. ASSUME c \notin late PROVE Exchange(c)'
    <3>1. Exchange(c)
      BY <2>6 DEF UdpInv, PerClient
    <3>2. Questions(c) = {} /\ ~Served(c) /\ Replies(c) = {}
      BY <1>2, <3>1, Idle
    <3>3. ~Served(c)' /\ Replies(c)' = {}
      BY <1>2, <1>8, <3>2 DEF Served, Replies
    <3>4. Questions(c)' \subseteq {m} /\ \A k \in Questions(c)' : inbox'[k].text = buf[c]
      BY <1>2, <1>10, <2>2, <3>2 DEF Questions, QueueOf
    <3> QED
      BY <1>2, <2>1, <3>1, <3>3, <3>4 DEF Exchange
  <2> QED
    BY <1>2, <2>4, <2>5, <2>6 DEF PerClient
<1> QED
  BY <1>2, <1>7, <1>11, <1>12 DEF UdpInv

LEMMA RecvfromInv ==
  ASSUME Udp!UdpAssumption, UdpInv, NEW c \in Clients, Udp!Recvfrom(c)
  PROVE  UdpInv'
<1>1. Fields /\ Queues
  BY Types DEF UdpInv
<1>2. /\ UNCHANGED <<left, births, asked, server, cli_addr, server_buf, starts,
                     inbox, lost>>
      /\ pc[c] = "recvfrom" /\ pc' = [pc EXCEPT ![c] = "write"]
      /\ answers[c] # <<>>
      /\ buf' = [buf EXCEPT ![c] = Head(answers[c])]
      /\ answers' = [answers EXCEPT ![c] = Tail(answers[c])]
      /\ late' = IF Head(answers[c]).proc = births[c] THEN late ELSE late \cup {c}
  BY DEF Udp!Recvfrom, Udp!serverVars
<1>3. /\ Tail(answers[c]) \in Seq(Udp!Texts)
      /\ Len(answers[c]) \in Nat
      /\ Len(Tail(answers[c])) = Len(answers[c]) - 1
      /\ 1 \in DOMAIN answers[c] /\ Head(answers[c]) = answers[c][1]
      /\ answers[c][1] \in Udp!Texts
      /\ \A k \in DOMAIN Tail(answers[c]) :
           /\ k \in Nat /\ k >= 1 /\ k + 1 \in DOMAIN answers[c]
           /\ Tail(answers[c])[k] = answers[c][k + 1]
  <2>1. answers[c] \in Seq(Udp!Texts)
    BY <1>1 DEF Queues
  <2> QED
    BY <1>2, <2>1, Tailed
<1>4. Fields'
  BY <1>1, <1>2, <1>3 DEF Fields
<1>5. Queues'
  <2>1. Len(Tail(answers[c])) <= MaxBirths + 1
    BY <1>1, <1>3 DEF Queues, Udp!UdpAssumption
  <2> QED
    BY <1>1, <1>2, <1>3, <2>1 DEF Queues
<1>6. Udp!TypeOK'
  BY <1>4, <1>5, TypesAfter
<1>7. ASSUME NEW b \in Clients
      PROVE  QueueOf(b)' = QueueOf(b) /\ (AtServer(b)' <=> AtServer(b))
  BY <1>2 DEF QueueOf, AtServer
<1>8. ASSUME NEW b \in Clients, b # c PROVE PerClient(b)'
  <2>1. /\ pc'[b] = pc[b] /\ buf'[b] = buf[b] /\ answers'[b] = answers[b]
        /\ (b \in late' <=> b \in late)
    BY <1>1, <1>2, <1>8 DEF Fields, Queues
  <2> QED
    BY <1>1, <1>2, <1>4, <1>5, <1>7, <1>8, <2>1, Frame DEF UdpInv
<1>9. PerClient(c)'
  <2>1. /\ pc'[c] = "write" /\ buf'[c] = answers[c][1]
        /\ answers'[c] = Tail(answers[c])
    BY <1>1, <1>2, <1>3 DEF Fields, Queues
  <2>2. Counted(c) /\ Older(c)
    BY DEF UdpInv, PerClient
  <2>3. Counted(c)'
    <3>1. births[c] \in Nat /\ Cardinality(QueueOf(c)) \in Nat
      <4>1. inbox \in Seq(Datagrams)
        BY <1>1 DEF Queues
      <4>2. Cardinality(QueueOf(c)) \in Nat
        BY <4>1, QueueFinite, Zenon DEF QueueOf
      <4> QED
        BY <1>1, <4>2 DEF Fields
    <3>2. Len(answers'[c]) = Len(answers[c]) - 1
      BY <1>3, <2>1
    <3> QED
      BY <1>2, <1>3, <1>7, <2>1, <2>2, <3>1, <3>2 DEF Counted
  <2>4. Older(c)'
    BY <1>2, <1>3, <1>7, <2>1, <2>2 DEF Older
  <2>5. ASSUME c \notin late' PROVE Exchange(c)'
    <3>1. Exchange(c) /\ answers[c][1].proc = births[c]
      BY <1>2, <1>3, <2>5 DEF UdpInv, PerClient
    <3>2. 1 \in Replies(c)
      BY <1>3, <3>1 DEF Replies
    <3>3. /\ answers[c][1] = Udp!ToUpper(asked[c]) /\ Replies(c) = {1}
          /\ Questions(c) = {} /\ ~Served(c)
      BY <3>1, <3>2 DEF Exchange
    <3>4. Replies(c)' = {}
      <4>1. ASSUME NEW k \in DOMAIN answers'[c], answers'[c][k].proc = births'[c]
            PROVE  FALSE
        <5>1. k \in DOMAIN Tail(answers[c]) /\ Tail(answers[c])[k].proc = births[c]
          BY <1>2, <2>1, <4>1
        <5>2. k \in Nat /\ k >= 1 /\ k + 1 \in Replies(c)
          BY <1>3, <5>1 DEF Replies
        <5> QED
          BY <3>3, <5>2
      <4> QED
        BY <3>3, <4>1 DEF Replies
    <3>5. Questions(c)' = {} /\ ~Served(c)'
      BY <1>2, <1>7, <3>3 DEF Questions, Served
    <3> QED
      BY <1>2, <2>1, <3>1, <3>3, <3>4, <3>5, IdleExchange
  <2> QED
    BY <2>3, <2>4, <2>5 DEF PerClient
<1> QED
  BY <1>2, <1>6, <1>8, <1>9 DEF UdpInv

LEMMA RequestInv == ASSUME Udp!UdpAssumption, UdpInv, Udp!Request PROVE UdpInv'
<1>1. Fields /\ Queues
  BY Types DEF UdpInv
<1>2. /\ UNCHANGED <<pc, buf, left, births, asked, starts, answers, lost, late>>
      /\ server = "recvfrom" /\ inbox # <<>>
      /\ cli_addr' = Head(inbox).from
      /\ server_buf' = Udp!ToUpper(Head(inbox).text)
      /\ inbox' = Tail(inbox) /\ server' = "sendto"
  BY DEF Udp!Request, Udp!Sender, Udp!Queued, Udp!clientVars
<1>3. inbox \in Seq(Datagrams) /\ Len(inbox) <= Cap
  BY <1>1 DEF Queues
<1>4. /\ inbox' \in Seq(Datagrams) /\ Len(inbox) \in Nat
      /\ Len(inbox') = Len(inbox) - 1
      /\ 1 \in DOMAIN inbox /\ Head(inbox) = inbox[1] /\ inbox[1] \in Datagrams
      /\ \A k \in DOMAIN inbox' :
           /\ k \in Nat /\ k >= 1 /\ k + 1 \in DOMAIN inbox
           /\ inbox'[k] = inbox[k + 1]
  BY <1>2, <1>3, Tailed
<1>5. /\ inbox[1].from \in Clients /\ inbox[1].text \in Udp!Texts
      /\ server_buf' \in Udp!Texts /\ server_buf'.proc = inbox[1].text.proc
  <2>1. inbox[1].from \in Clients /\ inbox[1].text \in Udp!Texts
    BY <1>4 DEF Datagrams
  <2> QED
    BY <1>2, <1>4, <2>1, Upper
<1>6. Fields'
  BY <1>1, <1>2, <1>4, <1>5 DEF Fields
<1>7. Queues'
  <2>1. Len(inbox') <= Cap
    BY <1>3, <1>4 DEF Udp!UdpAssumption
  <2> QED
    BY <1>1, <1>2, <1>4, <2>1 DEF Queues
<1>8. Udp!TypeOK'
  BY <1>6, <1>7, TypesAfter
<1>9. ASSUME NEW c \in Clients PROVE PerClient(c)'
  <2>1. /\ ~AtServer(c) /\ (AtServer(c)' <=> inbox[1].from = c)
        /\ (1 \in QueueOf(c) <=> inbox[1].from = c)
    BY <1>2, <1>4 DEF AtServer, QueueOf
  <2>2. ASSUME NEW k \in QueueOf(c)'
        PROVE  /\ k \in Nat /\ k + 1 \in QueueOf(c) /\ k + 1 # 1
               /\ inbox'[k] = inbox[k + 1]
    BY <1>4, <2>2 DEF QueueOf
  <2>3. Counted(c) /\ Older(c)
    BY DEF UdpInv, PerClient
  <2>4. Counted(c)'
    <3>1. Cardinality(QueueOf(c)) \in Nat
      BY <1>3, QueueFinite, Zenon DEF QueueOf
    <3>2. Cardinality(QueueOf(c)') \in Nat
      BY <1>4, QueueFinite, Zenon DEF QueueOf
    <3>3. Cardinality(QueueOf(c)') <= Cardinality(QueueOf(c))
                                       - (IF inbox[1].from = c THEN 1 ELSE 0)
      <4>1. QueueOf(c)' = {k \in DOMAIN Tail(inbox) : Tail(inbox)[k].from = c}
        BY <1>2 DEF QueueOf
      <4> QED
        BY <1>2, <1>3, <4>1, TailCount, Zenon DEF QueueOf
    <3>4. births[c] \in Nat /\ Len(answers[c]) \in Nat
      BY <1>1 DEF Fields, Queues
    <3> QED
      BY <1>2, <2>1, <2>3, <3>1, <3>2, <3>3, <3>4 DEF Counted
  <2>5. Older(c)'
    <3>1. \A k \in QueueOf(c)' : inbox'[k].text.proc <= births[c]
      BY <2>2, <2>3 DEF Older
    <3>2. AtServer(c)' => server_buf'.proc <= births[c]
      BY <1>5, <2>1, <2>3 DEF Older
    <3> QED
      BY <1>2, <2>3, <3>1, <3>2 DEF Older
  <2>6. ASSUME c \notin late PROVE Exchange(c)'
    <3>1. Exchange(c)
      BY <2>6 DEF UdpInv, PerClient
    <3>2. ASSUME NEW k \in Questions(c)'
          PROVE  /\ k \in Nat /\ k + 1 \in Questions(c) /\ k + 1 # 1
                 /\ inbox'[k] = inbox[k + 1]
      BY <1>2, <2>2, <3>2 DEF Questions
    <3>3. Served(c)' => 1 \in Questions(c)
      BY <1>2, <1>5, <2>1 DEF Served, Questions
    <3>4. Replies(c)' = Replies(c)
      BY <1>2 DEF Replies
    <3>5. ASSUME NEW k \in Questions(c)'
          PROVE  /\ pc[c] = "recvfrom" /\ inbox'[k].text = asked[c]
                 /\ ~Served(c)' /\ Replies(c) = {} /\ Questions(c)' = {k}
      <4>1. /\ pc[c] = "recvfrom" /\ inbox[k + 1].text = asked[c]
            /\ Replies(c) = {} /\ Questions(c) = {k + 1}
        BY <3>1, <3>2, <3>5 DEF Exchange
      <4>2. ~Served(c)'
        BY <3>2, <3>3, <3>5, <4>1
      <4>3. \A l \in Questions(c)' : l = k
        BY <3>2, <3>5, <4>1
      <4> QED
        BY <3>2, <3>5, <4>1, <4>2, <4>3
    <3>6. ASSUME Served(c)'
          PROVE  /\ pc[c] = "recvfrom" /\ server_buf' = Udp!ToUpper(asked[c])
                 /\ Replies(c) = {}
      BY <1>2, <1>4, <3>1, <3>3, <3>6 DEF Exchange
    <3> QED
      BY <1>2, <3>1, <3>4, <3>5, <3>6 DEF Exchange
  <2> QED
    BY <1>2, <2>4, <2>5, <2>6 DEF PerClient
<1> QED
  BY <1>2, <1>4, <1>5, <1>8, <1>9 DEF UdpInv

LEMMA AnswerInv == ASSUME Udp!UdpAssumption, UdpInv, Udp!Answer PROVE UdpInv'
<1>1. Fields /\ Queues
  BY Types DEF UdpInv
<1> DEFINE c == cli_addr
           m == Len(answers[c]) + 1
<1>2. /\ UNCHANGED <<pc, buf, left, births, asked, cli_addr, server_buf, starts,
                     inbox, lost, late>>
      /\ server = "sendto" /\ server' = "recvfrom"
      /\ answers' = [answers EXCEPT ![c] = Append(answers[c], server_buf)]
  BY DEF Udp!Answer, Udp!clientVars
<1>3. c \in Clients
  BY <1>2 DEF UdpInv
<1>4. answers[c] \in Seq(Udp!Texts) /\ server_buf \in Udp!Texts
  BY <1>1, <1>3 DEF Queues, Fields
<1>5. /\ Append(answers[c], server_buf) \in Seq(Udp!Texts)
      /\ Len(Append(answers[c], server_buf)) = Len(answers[c]) + 1
      /\ DOMAIN Append(answers[c], server_buf) = DOMAIN answers[c] \cup {m}
      /\ \A k \in DOMAIN answers[c] :
           Append(answers[c], server_buf)[k] = answers[c][k]
      /\ Append(answers[c], server_buf)[m] = server_buf
  BY <1>4, Appended
<1>6. AtServer(c) /\ ~AtServer(c)'
  BY <1>2 DEF AtServer
<1>7. ASSUME NEW b \in Clients PROVE QueueOf(b)' = QueueOf(b) /\ ~AtServer(b)'
  BY <1>2 DEF QueueOf, AtServer
<1>8. answers'[c] = Append(answers[c], server_buf)
  BY <1>1, <1>2, <1>3 DEF Queues
<1>9. Counted(c) /\ Older(c)
  BY <1>3 DEF UdpInv, PerClient
<1>10. births[c] \in 0..MaxBirths /\ Len(answers[c]) \in Nat
       /\ Cardinality(QueueOf(c)) \in Nat
  <2>1. inbox \in Seq(Datagrams)
    BY <1>1 DEF Queues
  <2>2. Cardinality(QueueOf(c)) \in Nat
    BY <2>1, QueueFinite, Zenon DEF QueueOf
  <2>3. births[c] \in 0..MaxBirths
    BY <1>1, <1>3 DEF Fields
  <2> QED
    BY <1>4, <2>2, <2>3
<1>11. Counted(c)' /\ Len(answers'[c]) <= MaxBirths + 1
  <2>1. Len(answers'[c]) = Len(answers[c]) + 1
    BY <1>5, <1>8
  <2>2. QueueOf(c)' = QueueOf(c)
    BY <1>2 DEF QueueOf
  <2> HIDE DEF c
  <2>3. Cardinality(QueueOf(c)) + 1 + Len(answers[c])
          <= births[c] + (IF pc[c] = "recvfrom" THEN 1 ELSE 0)
    BY <1>6, <1>9 DEF Counted
  <2>4. Len(answers[c]) + 1 <= MaxBirths + 1
    BY <1>10, <2>3 DEF Udp!UdpAssumption
  <2> QED
    BY <1>2, <1>6, <1>10, <2>1, <2>2, <2>3, <2>4 DEF Counted, c
<1>12. Fields' /\ Queues'
  <2>1. Queues'
    BY <1>1, <1>2, <1>3, <1>5, <1>11 DEF Queues
  <2> QED
    BY <1>1, <1>2, <2>1 DEF Fields
<1>13. Udp!TypeOK'
  BY <1>12, TypesAfter
<1>14. ASSUME NEW b \in Clients, b # c PROVE PerClient(b)'
  <2>1. answers'[b] = answers[b]
    BY <1>1, <1>2, <1>14 DEF Queues
  <2> QED
    BY <1>1, <1>2, <1>7, <1>12, <2>1, Frame DEF UdpInv
<1>15. Older(c)'
  <2>1. \A k \in DOMAIN answers'[c] : answers'[c][k].proc <= births[c]
    BY <1>5, <1>6, <1>8, <1>9 DEF Older
  <2> QED
    BY <1>2, <1>3, <1>7, <1>9, <2>1 DEF Older
<1>16. ASSUME c \notin late PROVE Exchange(c)'
  <2>1. Exchange(c)
    BY <1>3, <1>16 DEF UdpInv, PerClient
  <2>2. Questions(c)' = Questions(c) /\ ~Served(c)'
    BY <1>2, <1>3, <1>7 DEF Questions, Served
  <2>3. CASE server_buf.proc = births[c]
    <3>1. Served(c)
      BY <1>6, <2>3 DEF Served
    <3>2. /\ pc[c] = "recvfrom" /\ server_buf = Udp!ToUpper(asked[c])
          /\ Replies(c) = {} /\ Questions(c) = {}
      BY <2>1, <3>1 DEF Exchange
    <3>3. Replies(c)' = {m}
      BY <1>2, <1>5, <1>8, <2>3, <3>2 DEF Replies
    <3> QED
      BY <1>2, <1>5, <1>8, <2>1, <2>2, <3>2, <3>3 DEF Exchange
  <2>4. CASE server_buf.proc # births[c]
    <3>1. Replies(c)' = Replies(c) /\ \A k \in Replies(c) : answers'[c][k] = answers[c][k]
      BY <1>2, <1>5, <1>8, <2>4 DEF Replies
    <3> QED
      BY <1>2, <2>1, <2>2, <3>1 DEF Exchange
  <2> QED
    BY <2>3, <2>4
<1> QED
  BY <1>2, <1>3, <1>11, <1>13, <1>14, <1>15, <1>16 DEF UdpInv, PerClient

LEMMA UdpInitInv == ASSUME Udp!UdpAssumption, Udp!Init PROVE UdpInv
<1>1. [proc |-> 0, n |-> 0, upper |-> FALSE] \in Udp!Texts
  BY DEF Udp!Texts, Udp!UdpAssumption
<1>2. Fields
  BY <1>1 DEF Udp!Init, Fields, Udp!UdpAssumption
<1>3. /\ <<>> \in Seq(Datagrams) /\ <<>> \in Seq(Udp!Texts) /\ Len(<<>>) = 0
      /\ DOMAIN <<>> = {}
  OBVIOUS
<1>4. Queues
  BY <1>3 DEF Udp!Init, Queues, Udp!UdpAssumption
<1>5. Udp!TypeOK
  BY <1>2, <1>4, Types
<1>6. ASSUME NEW c \in Clients PROVE PerClient(c)
  <2>1. /\ QueueOf(c) = {} /\ ~AtServer(c) /\ answers[c] = <<>>
        /\ births[c] = 0 /\ buf[c].proc = 0 /\ pc[c] = "fgets"
    BY <1>3 DEF Udp!Init, QueueOf, AtServer
  <2>2. Cardinality({}) = 0
    BY FS_EmptySet
  <2>3. Counted(c)
    BY <1>3, <2>1, <2>2 DEF Counted
  <2>4. Older(c) /\ Exchange(c)
    BY <1>3, <2>1 DEF Older, Exchange, Questions, Served, Replies
  <2> QED
    BY <2>3, <2>4 DEF PerClient
<1> QED
  BY <1>5, <1>6 DEF Udp!Init, UdpInv

LEMMA UdpNextInv == ASSUME Udp!UdpAssumption, UdpInv, [Udp!Next]_Udp!vars PROVE UdpInv'
<1>1. ASSUME UNCHANGED Udp!vars PROVE UdpInv'
  <2>1. Fields /\ Queues
    BY Types DEF UdpInv
  <2>2. UNCHANGED <<pc, buf, left, births, asked, server, cli_addr, server_buf,
                    starts, inbox, answers, lost, late>>
    BY <1>1 DEF Udp!vars, Udp!clientVars, Udp!serverVars
  <2>3. Fields' /\ Queues'
    BY <2>1, <2>2 DEF Fields, Queues
  <2>4. ASSUME NEW c \in Clients PROVE PerClient(c)'
    <3>1. QueueOf(c)' = QueueOf(c) /\ (AtServer(c)' <=> AtServer(c))
      BY <2>2 DEF QueueOf, AtServer
    <3> QED
      BY <2>1, <2>2, <2>3, <3>1, Frame DEF UdpInv
  <2> QED
    BY <2>2, <2>3, <2>4, TypesAfter DEF UdpInv
<1> QED
  BY <1>1, FgetsInv, SendtoInv, RecvfromInv, WriteInv, RestartInv,
     ServerStartsInv, ServerStopsInv, RequestInv, AnswerInv DEF Udp!Next, Udp!Server

\* client.c writes (line 39) the answer to what it sent last, unless it was given
\* the port of an earlier process, whatever is lost and whoever restarts: client.c
\* sends again only after an answer (lines 36-40), and server.c answers to the
\* address recvfrom left in cli_addr (lines 28-43).
THEOREM AnswersRight == Udp!UdpAssumption => (Udp!Spec => []Udp!AnswersMatch)
<1> SUFFICES ASSUME Udp!UdpAssumption PROVE Udp!Spec => []Udp!AnswersMatch
  OBVIOUS
<1>1. Udp!Init => UdpInv
  BY UdpInitInv
<1>2. UdpInv /\ [Udp!Next]_Udp!vars => UdpInv'
  BY UdpNextInv
<1>3. UdpInv => Udp!AnswersMatch
  BY DEF UdpInv, PerClient, Exchange, Udp!AnswersMatch
<1> QED
  BY <1>1, <1>2, <1>3, PTL DEF Udp!Spec

=============================================================================
