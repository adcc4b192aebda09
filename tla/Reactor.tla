------------------------------ MODULE Reactor -------------------------------
(***************************************************************************)
(* epoll_et/server3.c: a reactor whose loop takes a batch of events from   *)
(* epoll_wait and calls the function stored in the slot of g_events each   *)
(* event points to: acceptconn, recvdata or senddata.  epoll is level      *)
(* triggered here, and one thread runs everything.                         *)
(*                                                                         *)
(* A slot keeps its fields when it is freed, as in the program.  Of buf    *)
(* and len only len matters: 0, or 1 for anything received.                *)
(***************************************************************************)
EXTENDS Integers, FiniteSets

CONSTANTS
  Fds,            \* the descriptors accept can return
  ListenFd, NoFd,
  MAX_EVENTS,     \* slots for connections, 1024 in the program
  Backlog         \* bound: connections waiting to be accepted

ASSUME FdsAssumption ==
  /\ IsFiniteSet(Fds) /\ ListenFd \notin Fds /\ NoFd \notin Fds \cup {ListenFd}

ASSUME SizesAssumption == MAX_EVENTS \in Nat \ {0} /\ Backlog \in Nat \ {0}

VARIABLES
  g_events,       \* slot -> struct myevent_s
  interest,       \* g_efd: descriptor -> what is registered for it
  batch,          \* events epoll_wait returned and the loop has not handled
  conn,           \* descriptor -> the connection behind it
  waiting         \* connections waiting to be accepted

vars == <<g_events, interest, batch, conn, waiting>>

Slots == 0..(MAX_EVENTS - 1)
ListenSlot == MAX_EVENTS
AllSlots == 0..MAX_EVENTS
AllFds == Fds \cup {ListenFd}
Events == {"IN", "OUT"}
Callbacks == {"acceptconn", "recvdata", "senddata"}

\* data: received and not read yet; gone: the peer closed or reset.
Closed == [open |-> FALSE, data |-> FALSE, gone |-> FALSE]
Unregistered == [events |-> "none", slot |-> ListenSlot]
EmptySlot == [fd |-> NoFd, events |-> "none", call_back |-> "none",
              status |-> 0, len |-> 0]

-----------------------------------------------------------------------------
(* eventset, eventadd and eventdel, as functions of the slot and of the     *)
(* interest list.  eventadd always follows eventset, which sets status to 0, *)
(* so that op is EPOLL_CTL_ADD; that fails if the descriptor is registered. *)

EventSet(ev, fd, cb) ==
  [ev EXCEPT !.fd = fd, !.call_back = cb, !.events = "none", !.status = 0,
             !.len = 0]

EventAdd(ev, events) == [ev EXCEPT !.events = events, !.status = 1]

Added(reg, fd, events, s) ==
  IF reg[fd].events = "none"
  THEN [reg EXCEPT ![fd] = [events |-> events, slot |-> s]]
  ELSE reg

\* Mutant: status stays 1.
EventDelKeepsStatus(ev) == ev

EventDel(ev) == IF ev.status = 1 THEN [ev EXCEPT !.status = 0] ELSE ev

Deleted(reg, ev) ==
  IF ev.status = 1 THEN [reg EXCEPT ![ev.fd] = Unregistered] ELSE reg

-----------------------------------------------------------------------------
\* initlistensocket
Init ==
  /\ g_events = [s \in AllSlots |->
       IF s = ListenSlot
       THEN EventAdd(EventSet(EmptySlot, ListenFd, "acceptconn"), "IN")
       ELSE EmptySlot]
  /\ interest = [fd \in AllFds |->
       IF fd = ListenFd THEN [events |-> "IN", slot |-> ListenSlot]
       ELSE Unregistered]
  /\ batch = {}
  /\ conn = [fd \in Fds |-> Closed]
  /\ waiting = 0

(* The clients *)

ClientConnects ==
  /\ waiting < Backlog
  /\ waiting' = waiting + 1
  /\ UNCHANGED <<g_events, interest, batch, conn>>

ClientSends(fd) ==
  /\ conn[fd].open /\ ~conn[fd].gone
  /\ conn' = [conn EXCEPT ![fd].data = TRUE]
  /\ UNCHANGED <<g_events, interest, batch, waiting>>

\* A reset loses what was not read, a FIN does not.
ClientLeaves(fd) ==
  /\ conn[fd].open /\ ~conn[fd].gone
  /\ \E d \in {conn[fd].data, FALSE} :
       conn' = [conn EXCEPT ![fd].gone = TRUE, ![fd].data = d]
  /\ UNCHANGED <<g_events, interest, batch, waiting>>

(* The loop of main *)

\* A socket is readable when there is something to accept or receive, or the
\* end of the connection to see, and always writable: nothing is ever sent.
Ready(fd) ==
  CASE interest[fd].events = "none" -> FALSE
    [] interest[fd].events = "OUT" -> TRUE
    [] OTHER -> IF fd = ListenFd THEN waiting > 0
                ELSE conn[fd].data \/ conn[fd].gone

\* The events of a batch are handled in any order.
EpollWait ==
  /\ batch = {}
  /\ batch' = {interest[fd] : fd \in {f \in AllFds : Ready(f)}}
  /\ batch' # {}
  /\ UNCHANGED <<g_events, interest, conn, waiting>>

\* An event reaches the callback when the slot still waits for it, which
\* BatchFresh says it always does: the tests of ev->events never fail.
Called(e, cb) ==
  /\ e \in batch
  /\ g_events[e.slot].events = e.events
  /\ g_events[e.slot].call_back = cb
  /\ batch' = batch \ {e}

\* Mutant: the last slot is never tried.
FreeSlotsShort == {s \in 0..(MAX_EVENTS - 2) : g_events[s].status = 0}

\* Mutant: the test of status is missing.
FreeSlotsAny == Slots

FreeSlots == {s \in Slots : g_events[s].status = 0}
FirstFree == CHOOSE s \in FreeSlots : \A r \in FreeSlots : s <= r

\* accept fails when no descriptor is left, which is ignored; a connection that
\* finds no slot stays open and is forgotten.
AcceptConn(e) ==
  /\ Called(e, "acceptconn")
  /\ \/ /\ \A fd \in Fds : conn[fd].open
        /\ UNCHANGED <<g_events, interest, conn, waiting>>
     \/ /\ waiting > 0
        /\ waiting' = waiting - 1
        /\ \E fd \in Fds :
             /\ ~conn[fd].open
             /\ conn' = [conn EXCEPT ![fd] = [Closed EXCEPT !.open = TRUE]]
             /\ \/ /\ FreeSlots = {}
                   /\ UNCHANGED <<g_events, interest>>
                \/ /\ FreeSlots # {}
                   /\ g_events' = [g_events EXCEPT ![FirstFree] =
                        EventAdd(EventSet(@, fd, "recvdata"), "IN")]
                   /\ interest' = Added(interest, fd, "IN", FirstFree)

\* Mutant: the descriptor is not closed.
AfterRecvEndOpen(fd) == [conn EXCEPT ![fd].data = FALSE]

AfterRecvEnd(fd) == [conn EXCEPT ![fd] = Closed]

\* recv, eventdel, and then on to sending, or close: recv returned 0 or -1.
RecvData(e) ==
  LET ev == g_events[e.slot] IN
  /\ Called(e, "recvdata")
  /\ \/ /\ conn[ev.fd].data
        /\ conn' = [conn EXCEPT ![ev.fd].data = FALSE]
        /\ g_events' = [g_events EXCEPT ![e.slot] =
             EventAdd(EventSet([EventDel(ev) EXCEPT !.len = 1], ev.fd, "senddata"),
                      "OUT")]
        /\ interest' = Added(Deleted(interest, ev), ev.fd, "OUT", e.slot)
     \/ /\ ~conn[ev.fd].data
        /\ conn' = AfterRecvEnd(ev.fd)
        /\ g_events' = [g_events EXCEPT ![e.slot] = EventDel(ev)]
        /\ interest' = Deleted(interest, ev)
  /\ UNCHANGED waiting

\* send returns ev->len, or -1 when the peer is gone.  As line 11 says, eventset has
\* emptied buf and len by then: nothing is sent back and the connection closed.
SendData(e) ==
  LET ev == g_events[e.slot]
      sent == ev.len > 0 /\ ~conn[ev.fd].gone
  IN
  /\ Called(e, "senddata")
  /\ g_events' = [g_events EXCEPT ![e.slot] =
       IF sent THEN EventAdd(EventSet(EventDel(ev), ev.fd, "recvdata"), "IN")
       ELSE EventDel(ev)]
  /\ interest' = IF sent THEN Added(Deleted(interest, ev), ev.fd, "IN", e.slot)
                 ELSE Deleted(interest, ev)
  /\ conn' = IF sent THEN conn ELSE [conn EXCEPT ![ev.fd] = Closed]
  /\ UNCHANGED waiting

Handle ==
  \E e \in batch : AcceptConn(e) \/ RecvData(e) \/ SendData(e)

Clients ==
  ClientConnects \/ \E fd \in Fds : ClientSends(fd) \/ ClientLeaves(fd)

Next == EpollWait \/ Handle \/ Clients

Spec == Init /\ [][Next]_vars

\* The loop of main never stops.
FairSpec == Spec /\ WF_vars(EpollWait) /\ WF_vars(Handle)

-----------------------------------------------------------------------------
(* Properties *)

TypeOK ==
  /\ g_events \in [AllSlots -> [fd : AllFds \cup {NoFd}, events : Events \cup {"none"},
                                call_back : Callbacks \cup {"none"},
                                status : {0, 1}, len : {0, 1}]]
  /\ interest \in [AllFds -> [events : Events \cup {"none"}, slot : AllSlots]]
  /\ batch \subseteq [events : Events, slot : AllSlots]
  /\ conn \in [Fds -> [open : BOOLEAN, data : BOOLEAN, gone : BOOLEAN]]
  /\ waiting \in 0..Backlog

Registered(fd) == interest[fd].events # "none"

\* status, the array's own idea of what is registered (lines 94-98, 116-122), and
\* epoll agree: a slot in use has its descriptor, with its events and its
\* callback, in epoll, no two slots share a descriptor, and a descriptor that
\* was closed is not there.
SlotsMatchEpoll ==
  /\ TypeOK
  /\ \A s \in AllSlots : LET ev == g_events[s] IN
       ev.status = 1 =>
         /\ interest[ev.fd] = [events |-> ev.events, slot |-> s]
         /\ ev.events = "OUT" <=> ev.call_back = "senddata"
  /\ \A fd \in AllFds : Registered(fd) =>
       /\ g_events[interest[fd].slot].status = 1
       /\ g_events[interest[fd].slot].fd = fd
       /\ fd \in Fds => conn[fd].open

\* An event that waits in the batch is still what is registered for the slot it
\* points to, although callbacks before it closed descriptors and gave free
\* slots to new connections (lines 56-68).
BatchFresh ==
  \A e \in batch :
    /\ g_events[e.slot].status = 1
    /\ interest[g_events[e.slot].fd] = e

\* acceptconn forgets the connection it accepted only when all MAX_EVENTS slots
\* are in use (lines 200-212).
ForgottenOnlyWhenFull ==
  [][\A fd \in Fds :
       ~conn[fd].open /\ conn'[fd].open /\ interest'[fd].events = "none"
         => \A s \in Slots : g_events[s].status = 1]_vars

\* A connection the reactor watches is closed once something arrived on it, data
\* or its end: the answer to the first data is a close (lines 133-172).
ClientsServed ==
  \A fd \in Fds :
    Registered(fd) /\ (conn[fd].data \/ conn[fd].gone) ~> ~conn[fd].open

=============================================================================
