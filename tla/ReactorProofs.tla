--------------------------- MODULE ReactorProofs ----------------------------
(* The slots and the interest list of the reactor, for any number of slots,  *)
(* descriptors and waiting connections.                                      *)
EXTENDS Reactor, TLAPS, WellFoundedInduction

\* Who uses which slots: the last one is the listening socket's for ever, the
\* others are used for connections, with the callbacks of one.
SlotUse ==
  /\ g_events[ListenSlot].status = 1 /\ g_events[ListenSlot].fd = ListenFd
  /\ g_events[ListenSlot].events = "IN"
  /\ g_events[ListenSlot].call_back = "acceptconn"
  /\ \A s \in Slots :
       /\ g_events[s].call_back # "acceptconn"
       /\ g_events[s].status = 1 =>
            /\ g_events[s].fd \in Fds /\ g_events[s].events \in Events
            /\ g_events[s].call_back \in {"recvdata", "senddata"}

IInv == SlotsMatchEpoll /\ BatchFresh /\ SlotUse

MyEvent == [fd : AllFds \cup {NoFd}, events : Events \cup {"none"},
            call_back : Callbacks \cup {"none"}, status : {0, 1}, len : {0, 1}]

LEMMA SlotNumbers ==
  /\ AllSlots = Slots \cup {ListenSlot} /\ ListenSlot \notin Slots
  /\ Slots \subseteq Nat /\ ListenSlot \in AllSlots
BY SizesAssumption DEF AllSlots, Slots, ListenSlot

\* FirstFree, the slot acceptconn takes, is a free one.
LEMMA FirstFreeIsFree ==
  ASSUME FreeSlots # {}
  PROVE  FirstFree \in FreeSlots
<1>1. FreeSlots \subseteq Nat
  BY SlotNumbers DEF FreeSlots
<1>2. PICK s \in FreeSlots : \A r \in FreeSlots : ~(<<r, s>> \in OpToRel(<, Nat))
  BY <1>1, NatLessThanWellFounded, WFMin
<1>3. ASSUME NEW r \in FreeSlots PROVE s <= r
  <2>1. <<r, s>> \notin {ss \in Nat \X Nat : ss[1] < ss[2]}
    BY <1>2 DEF OpToRel
  <2> QED
    BY <1>1, <2>1
<1> QED
  BY <1>3 DEF FirstFree

\* The fields eventset, eventadd and eventdel leave.
LEMMA EventSetFields ==
  ASSUME NEW ev \in MyEvent, NEW fd \in AllFds, NEW cb \in Callbacks
  PROVE  /\ EventSet(ev, fd, cb) \in MyEvent
         /\ EventSet(ev, fd, cb).fd = fd /\ EventSet(ev, fd, cb).call_back = cb
         /\ EventSet(ev, fd, cb).len = 0
BY DEF EventSet, MyEvent

LEMMA EventAddFields ==
  ASSUME NEW ev \in MyEvent, NEW events \in Events
  PROVE  /\ EventAdd(ev, events) \in MyEvent
         /\ EventAdd(ev, events).fd = ev.fd
         /\ EventAdd(ev, events).call_back = ev.call_back
         /\ EventAdd(ev, events).events = events
         /\ EventAdd(ev, events).status = 1
BY DEF EventAdd, MyEvent

LEMMA EventDelFields ==
  ASSUME NEW ev \in MyEvent
  PROVE  /\ EventDel(ev) \in MyEvent
         /\ EventDel(ev).fd = ev.fd /\ EventDel(ev).call_back = ev.call_back
         /\ EventDel(ev).status = 0
BY DEF EventDel, MyEvent

LEMMA InitInv == Init => IInv
<1> SUFFICES ASSUME Init PROVE IInv
  OBVIOUS
<1> DEFINE set == EventSet(EmptySlot, ListenFd, "acceptconn")
           ev0 == EventAdd(set, "IN")
<1>1. EmptySlot \in MyEvent
  BY DEF MyEvent, EmptySlot
<1>2. set \in MyEvent /\ set.fd = ListenFd /\ set.call_back = "acceptconn"
  BY <1>1, EventSetFields DEF AllFds, Callbacks
<1> HIDE DEF set
<1>3. /\ ev0 \in MyEvent /\ ev0.fd = ListenFd /\ ev0.call_back = "acceptconn"
      /\ ev0.events = "IN" /\ ev0.status = 1
  BY <1>2, EventAddFields DEF Events
<1>4. /\ g_events = [s \in AllSlots |-> IF s = ListenSlot THEN ev0 ELSE EmptySlot]
      /\ interest = [fd \in AllFds |->
           IF fd = ListenFd THEN [events |-> "IN", slot |-> ListenSlot]
           ELSE Unregistered]
  BY DEF Init, set
<1> HIDE DEF ev0
<1>5. /\ g_events \in [AllSlots -> MyEvent]
      /\ g_events[ListenSlot] = ev0
      /\ \A s \in Slots : g_events[s] = EmptySlot
  BY <1>1, <1>3, <1>4, SlotNumbers
<1>6. /\ interest \in [AllFds -> [events : Events \cup {"none"}, slot : AllSlots]]
      /\ interest[ListenFd] = [events |-> "IN", slot |-> ListenSlot]
      /\ \A fd \in Fds : interest[fd] = Unregistered
  BY <1>4, SlotNumbers, FdsAssumption DEF Unregistered, Events, AllFds
<1>7. TypeOK
  BY <1>5, <1>6, SizesAssumption DEF Init, TypeOK, MyEvent, Closed
<1>8. SlotsMatchEpoll
  <2>1. \A s \in AllSlots : g_events[s].status = 1 => s = ListenSlot
    BY <1>5, SlotNumbers DEF EmptySlot
  <2>2. \A fd \in AllFds : Registered(fd) => fd = ListenFd
    BY <1>6 DEF Registered, Unregistered, AllFds
  <2> QED
    BY <1>3, <1>5, <1>6, <1>7, <2>1, <2>2, FdsAssumption DEF SlotsMatchEpoll
<1>9. SlotUse
  BY <1>3, <1>5 DEF SlotUse, EmptySlot
<1>10. BatchFresh
  BY DEF BatchFresh, Init
<1> QED
  BY <1>8, <1>9, <1>10 DEF IInv

-----------------------------------------------------------------------------
(* What the invariant says of one event, and of one slot *)

\* The event that is handled points to the slot that is registered with it.
LEMMA EventSlot ==
  ASSUME IInv, NEW e \in batch
  PROVE  /\ e.slot \in AllSlots /\ g_events[e.slot] \in MyEvent
         /\ g_events[e.slot].status = 1
         /\ g_events[e.slot].fd \in AllFds
         /\ interest[g_events[e.slot].fd] = e
         /\ e = [events |-> g_events[e.slot].events, slot |-> e.slot]
<1>1. e.slot \in AllSlots /\ g_events[e.slot] \in MyEvent
  BY DEF IInv, SlotsMatchEpoll, TypeOK, MyEvent
<1>2. g_events[e.slot].status = 1 /\ interest[g_events[e.slot].fd] = e
  BY DEF IInv, BatchFresh
<1>3. g_events[e.slot].fd \in AllFds
  BY <1>1, <1>2, SlotNumbers DEF IInv, SlotUse, AllFds
<1>4. e = [events |-> g_events[e.slot].events, slot |-> e.slot]
  BY <1>1, <1>2 DEF IInv, SlotsMatchEpoll
<1> QED
  BY <1>1, <1>2, <1>3, <1>4

\* No two slots in use have the same descriptor, and no two events of a batch the
\* same slot.
LEMMA OneSlotEach ==
  ASSUME IInv
  PROVE  /\ \A s, t \in AllSlots :
              /\ g_events[s].status = 1 /\ g_events[t].status = 1
              /\ g_events[s].fd = g_events[t].fd
              => s = t
         /\ \A d, e \in batch : d.slot = e.slot => d = e
<1>1. ASSUME NEW s \in AllSlots, NEW t \in AllSlots,
             g_events[s].status = 1, g_events[t].status = 1,
             g_events[s].fd = g_events[t].fd
      PROVE  s = t
  <2>1. /\ interest[g_events[s].fd] = [events |-> g_events[s].events, slot |-> s]
        /\ interest[g_events[t].fd] = [events |-> g_events[t].events, slot |-> t]
    BY <1>1 DEF IInv, SlotsMatchEpoll
  <2> QED
    BY <1>1, <2>1
<1>2. ASSUME NEW d \in batch, NEW e \in batch, d.slot = e.slot PROVE d = e
  BY <1>2, EventSlot
<1> QED
  BY <1>1, <1>2

\* A callback changes one slot and the registration of one descriptor, which is
\* in no other slot in use.  The slot's new fields and the registration agree.
SlotStep(s, f, ev, reg) ==
  /\ g_events' = [g_events EXCEPT ![s] = ev]
  /\ interest' = [interest EXCEPT ![f] = reg]
  /\ batch' \subseteq batch /\ \A e \in batch' : e.slot # s
  /\ \A fd \in Fds \ {f} : conn'[fd].open = conn[fd].open
  /\ \A t \in AllSlots \ {s} : g_events[t].status = 1 => g_events[t].fd # f
  /\ \A fd \in AllFds \ {f} : Registered(fd) => interest[fd].slot # s
  /\ ev.call_back # "acceptconn"
  /\ \/ /\ ev.status = 1 /\ ev.fd = f /\ conn'[f].open
        /\ reg = [events |-> ev.events, slot |-> s]
        /\ \/ ev.events = "IN" /\ ev.call_back = "recvdata"
           \/ ev.events = "OUT" /\ ev.call_back = "senddata"
     \/ ev.status = 0 /\ reg = Unregistered

LEMMA OneSlotChanges ==
  ASSUME IInv, TypeOK', NEW s \in Slots, NEW f \in Fds, NEW ev, NEW reg,
         SlotStep(s, f, ev, reg)
  PROVE  IInv'
<1> USE DEF SlotStep
<1>1. /\ TypeOK /\ SlotUse /\ BatchFresh /\ SlotsMatchEpoll
      /\ s \in AllSlots /\ s # ListenSlot /\ f \in AllFds /\ f # ListenFd
  BY SlotNumbers, FdsAssumption DEF IInv, SlotsMatchEpoll, AllFds
<1>2. /\ g_events'[s] = ev
      /\ \A t \in AllSlots \ {s} : g_events'[t] = g_events[t]
      /\ interest'[f] = reg
      /\ \A fd \in AllFds \ {f} : interest'[fd] = interest[fd]
  BY <1>1 DEF TypeOK
<1>3. SlotUse'
  <2>1. \A t \in Slots : g_events'[t] = IF t = s THEN ev ELSE g_events[t]
    BY <1>2, SlotNumbers
  <2>2. g_events'[ListenSlot] = g_events[ListenSlot]
    BY <1>1, <1>2, SlotNumbers
  <2> QED
    BY <1>1, <2>1, <2>2 DEF SlotUse, Events
<1>4. BatchFresh'
  <2> SUFFICES ASSUME NEW e \in batch'
               PROVE  /\ g_events'[e.slot].status = 1
                      /\ interest'[g_events'[e.slot].fd] = e
    BY DEF BatchFresh
  <2>1. e.slot \in AllSlots \ {s} /\ g_events[e.slot].status = 1
        /\ g_events[e.slot].fd \in AllFds /\ interest[g_events[e.slot].fd] = e
    BY EventSlot
  <2> QED
    BY <1>2, <2>1
<1>5. SlotsMatchEpoll'
  <2>1. ASSUME NEW t \in AllSlots, g_events'[t].status = 1
        PROVE  /\ interest'[g_events'[t].fd]
                    = [events |-> g_events'[t].events, slot |-> t]
               /\ g_events'[t].events = "OUT" <=> g_events'[t].call_back = "senddata"
    <3>1. CASE t = s
      BY <1>2, <2>1, <3>1
    <3>2. CASE t # s
      <4>1. g_events'[t] = g_events[t] /\ g_events[t].fd \in AllFds \ {f}
        BY <1>1, <1>2, <2>1, <3>2, SlotNumbers DEF SlotUse, AllFds
      <4> QED
        BY <1>1, <1>2, <2>1, <4>1 DEF SlotsMatchEpoll
    <3> QED
      BY <3>1, <3>2
  <2>2. ASSUME NEW fd \in AllFds, interest'[fd].events # "none"
        PROVE  /\ g_events'[interest'[fd].slot].status = 1
               /\ g_events'[interest'[fd].slot].fd = fd
               /\ fd \in Fds => conn'[fd].open
    <3>1. CASE fd = f
      BY <1>2, <2>2, <3>1 DEF Unregistered
    <3>2. CASE fd # f
      <4>1. interest'[fd] = interest[fd] /\ interest[fd].slot \in AllSlots \ {s}
        BY <1>1, <1>2, <2>2, <3>2 DEF TypeOK, Registered
      <4> QED
        BY <1>1, <1>2, <2>2, <3>2, <4>1 DEF SlotsMatchEpoll, Registered
    <3> QED
      BY <3>1, <3>2
  <2> QED
    BY <2>1, <2>2 DEF SlotsMatchEpoll, Registered
<1> QED
  BY <1>3, <1>4, <1>5 DEF IInv

-----------------------------------------------------------------------------
(* The steps *)

LEMMA ClientsInv == IInv /\ Clients => IInv'
<1> SUFFICES ASSUME IInv, Clients PROVE IInv'
  OBVIOUS
<1>1. TypeOK
  BY DEF IInv, SlotsMatchEpoll
<1>2. UNCHANGED <<g_events, interest, batch>>
  BY DEF Clients, ClientConnects, ClientSends, ClientLeaves
<1>3. /\ conn' \in [Fds -> [open : BOOLEAN, data : BOOLEAN, gone : BOOLEAN]]
      /\ waiting' \in 0..Backlog
      /\ \A fd \in Fds : conn'[fd].open = conn[fd].open
  <2>1. CASE ClientConnects
    BY <1>1, <2>1, SizesAssumption DEF ClientConnects, TypeOK
  <2>2. ASSUME NEW fd \in Fds, ClientSends(fd) PROVE <1>3
    BY <1>1, <2>2 DEF ClientSends, TypeOK
  <2>3. ASSUME NEW fd \in Fds, ClientLeaves(fd) PROVE <1>3
    <3>1. PICK d \in BOOLEAN :
            conn' = [conn EXCEPT ![fd].gone = TRUE, ![fd].data = d]
      BY <1>1, <2>3 DEF ClientLeaves, TypeOK
    <3>2. \A f \in Fds :
            /\ conn'[f] \in [open : BOOLEAN, data : BOOLEAN, gone : BOOLEAN]
            /\ conn'[f].open = conn[f].open
      BY <1>1, <3>1 DEF TypeOK
    <3>3. DOMAIN conn' = Fds /\ conn' = [f \in Fds |-> conn'[f]]
      BY <1>1, <3>1 DEF TypeOK
    <3> QED
      BY <1>1, <2>3, <3>2, <3>3 DEF ClientLeaves, TypeOK
  <2> QED
    BY <2>1, <2>2, <2>3 DEF Clients
<1>4. TypeOK'
  BY <1>1, <1>2, <1>3 DEF TypeOK
<1> QED
  BY <1>2, <1>3, <1>4 DEF IInv, SlotsMatchEpoll, BatchFresh, SlotUse, Registered

LEMMA EpollWaitInv == IInv /\ EpollWait => IInv'
<1> SUFFICES ASSUME IInv, EpollWait PROVE IInv'
  OBVIOUS
<1>1. TypeOK /\ SlotsMatchEpoll /\ SlotUse /\ UNCHANGED <<g_events, interest, conn, waiting>>
  BY DEF IInv, SlotsMatchEpoll, EpollWait
<1>2. ASSUME NEW e \in batch'
      PROVE  /\ e \in [events : Events, slot : AllSlots]
             /\ g_events[e.slot].status = 1 /\ interest[g_events[e.slot].fd] = e
  <2>1. PICK fd \in AllFds : Ready(fd) /\ e = interest[fd]
    BY DEF EpollWait
  <2>2. Registered(fd)
    BY <2>1 DEF Ready, Registered
  <2> QED
    BY <1>1, <2>1, <2>2 DEF TypeOK, SlotsMatchEpoll, Registered, Events
<1>3. TypeOK' /\ BatchFresh'
  BY <1>1, <1>2 DEF TypeOK, BatchFresh
<1> QED
  BY <1>1, <1>3 DEF IInv, SlotsMatchEpoll, SlotUse, Registered

\* Unregistered has no events, and the deletion and addition of one descriptor.
LEMMA RegistrationChanges ==
  ASSUME TypeOK, NEW f \in Fds, NEW ev \in MyEvent, ev.status = 1, ev.fd = f,
         NEW events \in Events, NEW s
  PROVE  /\ Deleted(interest, ev) = [interest EXCEPT ![f] = Unregistered]
         /\ Added(Deleted(interest, ev), f, events, s)
              = [interest EXCEPT ![f] = [events |-> events, slot |-> s]]
<1>1. f \in AllFds /\ Unregistered.events = "none"
  BY DEF AllFds, Unregistered
<1>2. Deleted(interest, ev) = [interest EXCEPT ![f] = Unregistered]
  BY DEF Deleted
<1> QED
  BY <1>1, <1>2 DEF Added, TypeOK

LEMMA AcceptConnInv ==
  ASSUME IInv, NEW e \in batch, AcceptConn(e)
  PROVE  IInv'
<1>1. TypeOK /\ batch' = batch \ {e}
  BY DEF IInv, SlotsMatchEpoll, AcceptConn, Called
<1>2. CASE UNCHANGED <<g_events, interest, conn, waiting>>
  BY <1>1, <1>2 DEF IInv, SlotsMatchEpoll, TypeOK, BatchFresh, SlotUse, Registered
<1>3. ASSUME NEW fd \in Fds, waiting > 0, waiting' = waiting - 1, ~conn[fd].open,
             conn' = [conn EXCEPT ![fd] = [Closed EXCEPT !.open = TRUE]]
      PROVE  /\ waiting' \in 0..Backlog
             /\ conn' \in [Fds -> [open : BOOLEAN, data : BOOLEAN, gone : BOOLEAN]]
             /\ conn'[fd].open
             /\ \A f \in Fds \ {fd} : conn'[f] = conn[f]
  <2>1. Closed \in [open : BOOLEAN, data : BOOLEAN, gone : BOOLEAN]
    BY DEF Closed
  <2>2. /\ [Closed EXCEPT !.open = TRUE] \in
             [open : BOOLEAN, data : BOOLEAN, gone : BOOLEAN]
        /\ [Closed EXCEPT !.open = TRUE].open
    BY <2>1
  <2>3. waiting' \in 0..Backlog
    BY <1>1, <1>3, SizesAssumption DEF TypeOK
  <2> QED
    BY <1>1, <1>3, <2>2, <2>3 DEF TypeOK
<1>4. ASSUME NEW fd \in Fds, waiting > 0, waiting' = waiting - 1, ~conn[fd].open,
             conn' = [conn EXCEPT ![fd] = [Closed EXCEPT !.open = TRUE]],
             UNCHANGED <<g_events, interest>>
      PROVE  IInv'
  <2>1. TypeOK'
    BY <1>1, <1>3, <1>4 DEF TypeOK
  <2>2. \A f \in Fds : conn[f].open => conn'[f].open
    BY <1>3, <1>4
  <2> QED
    BY <1>1, <1>4, <2>1, <2>2
       DEF IInv, SlotsMatchEpoll, BatchFresh, SlotUse, Registered
<1>5. ASSUME NEW fd \in Fds, waiting > 0, waiting' = waiting - 1, ~conn[fd].open,
             conn' = [conn EXCEPT ![fd] = [Closed EXCEPT !.open = TRUE]],
             FreeSlots # {},
             g_events' = [g_events EXCEPT ![FirstFree] =
               EventAdd(EventSet(@, fd, "recvdata"), "IN")],
             interest' = Added(interest, fd, "IN", FirstFree)
      PROVE  IInv'
  <2> DEFINE s == FirstFree
             set == EventSet(g_events[s], fd, "recvdata")
             ev == EventAdd(set, "IN")
             reg == [events |-> "IN", slot |-> s]
  <2>1. s \in Slots /\ g_events[s].status = 0
    BY <1>5, FirstFreeIsFree DEF FreeSlots
  <2> HIDE DEF s
  <2>2. s \in AllSlots /\ fd \in AllFds /\ g_events[s] \in MyEvent
    BY <1>1, <2>1, SlotNumbers DEF TypeOK, MyEvent, AllFds
  <2>3. set \in MyEvent /\ set.fd = fd /\ set.call_back = "recvdata"
    BY <2>2, EventSetFields DEF Callbacks
  <2>4. g_events' = [g_events EXCEPT ![s] = ev]
    BY <1>1, <1>5, <2>2 DEF s, TypeOK
  <2> HIDE DEF set
  <2>5. /\ ev \in MyEvent /\ ev.fd = fd /\ ev.call_back = "recvdata"
        /\ ev.events = "IN" /\ ev.status = 1
    BY <2>3, EventAddFields DEF Events
  <2> HIDE DEF ev
  <2>6. interest[fd].events = "none"
    BY <1>5, <2>2 DEF IInv, SlotsMatchEpoll, Registered
  <2>7. interest' = [interest EXCEPT ![fd] = reg]
    BY <1>5, <2>6 DEF Added, s
  <2>8. reg \in [events : Events \cup {"none"}, slot : AllSlots]
    BY <2>2 DEF Events
  <2>9. TypeOK'
    <3>1. g_events' \in [AllSlots -> MyEvent]
      BY <1>1, <2>2, <2>4, <2>5 DEF TypeOK, MyEvent
    <3>2. interest' \in [AllFds -> [events : Events \cup {"none"}, slot : AllSlots]]
      BY <1>1, <2>2, <2>7, <2>8 DEF TypeOK
    <3> QED
      BY <1>1, <1>3, <1>5, <3>1, <3>2 DEF TypeOK, MyEvent
  <2>10. \A d \in batch' : d.slot # s
    BY <1>1, <2>1, EventSlot
  <2>11. \A t \in AllSlots \ {s} : g_events[t].status = 1 => g_events[t].fd # fd
    <3> SUFFICES ASSUME NEW t \in AllSlots, g_events[t].status = 1, g_events[t].fd = fd
                 PROVE  FALSE
      OBVIOUS
    <3>1. interest[fd] = [events |-> g_events[t].events, slot |-> t]
      BY DEF IInv, SlotsMatchEpoll
    <3>2. g_events[t].events = "none"
      BY <2>6, <3>1
    <3>3. t # ListenSlot /\ t \in Slots
      BY SlotNumbers, FdsAssumption DEF IInv, SlotUse
    <3> QED
      BY <3>2, <3>3 DEF IInv, SlotUse, Events
  <2>12. \A f \in AllFds \ {fd} : Registered(f) => interest[f].slot # s
    BY <2>1 DEF IInv, SlotsMatchEpoll
  <2>13. \A f \in Fds \ {fd} : conn'[f].open = conn[f].open
    BY <1>3, <1>5
  <2>14. conn'[fd].open /\ batch' \subseteq batch
    BY <1>1, <1>3, <1>5
  <2>15. SlotStep(s, fd, ev, reg)
    BY <2>4, <2>5, <2>7, <2>10, <2>11, <2>12, <2>13, <2>14 DEF SlotStep
  <2> QED
    BY <2>1, <2>9, <2>15, OneSlotChanges
<1> QED
  BY <1>2, <1>4, <1>5 DEF AcceptConn

\* recvdata and senddata run for a slot in use, whose descriptor is in no other
\* slot, and the rest of the batch points to other slots.
LEMMA CallbackSlot ==
  ASSUME IInv, NEW e \in batch, Called(e, "recvdata") \/ Called(e, "senddata")
  PROVE  /\ e.slot \in Slots /\ g_events[e.slot] \in MyEvent
         /\ g_events[e.slot].status = 1 /\ g_events[e.slot].fd \in Fds
         /\ batch' = batch \ {e} /\ \A d \in batch' : d.slot # e.slot
         /\ \A t \in AllSlots \ {e.slot} :
              g_events[t].status = 1 => g_events[t].fd # g_events[e.slot].fd
         /\ \A fd \in AllFds \ {g_events[e.slot].fd} :
              Registered(fd) => interest[fd].slot # e.slot
<1>1. /\ e.slot \in AllSlots /\ g_events[e.slot] \in MyEvent
      /\ g_events[e.slot].status = 1
  BY EventSlot
<1>2. e.slot \in Slots
  BY <1>1, SlotNumbers DEF Called, IInv, SlotUse
<1>3. g_events[e.slot].fd \in Fds
  BY <1>1, <1>2 DEF IInv, SlotUse
<1>4. batch' = batch \ {e} /\ \A d \in batch' : d.slot # e.slot
  BY OneSlotEach DEF Called
<1>5. \A t \in AllSlots \ {e.slot} :
        g_events[t].status = 1 => g_events[t].fd # g_events[e.slot].fd
  BY <1>1, OneSlotEach
<1>6. \A fd \in AllFds \ {g_events[e.slot].fd} :
        Registered(fd) => interest[fd].slot # e.slot
  BY DEF IInv, SlotsMatchEpoll
<1> QED
  BY <1>1, <1>2, <1>3, <1>4, <1>5, <1>6

\* A callback that goes on with its connection: eventdel, eventset and eventadd.
LEMMA Rearmed ==
  ASSUME IInv, NEW e \in batch, Called(e, "recvdata") \/ Called(e, "senddata"),
         NEW old \in MyEvent, NEW cb, NEW events,
         \/ cb = "recvdata" /\ events = "IN"
         \/ cb = "senddata" /\ events = "OUT",
         g_events' = [g_events EXCEPT ![e.slot] =
           EventAdd(EventSet(old, g_events[e.slot].fd, cb), events)],
         interest' = Added(Deleted(interest, g_events[e.slot]),
                           g_events[e.slot].fd, events, e.slot),
         conn' \in [Fds -> [open : BOOLEAN, data : BOOLEAN, gone : BOOLEAN]],
         \A fd \in Fds : conn'[fd].open = conn[fd].open,
         waiting' = waiting
  PROVE  IInv'
<1> DEFINE s == e.slot
           f == g_events[e.slot].fd
           set == EventSet(old, f, cb)
           ev == EventAdd(set, events)
           reg == [events |-> events, slot |-> s]
<1>1. /\ TypeOK /\ s \in Slots /\ s \in AllSlots /\ f \in Fds /\ f \in AllFds
      /\ g_events[s].status = 1 /\ g_events[s] \in MyEvent
  BY CallbackSlot, SlotNumbers DEF IInv, SlotsMatchEpoll, AllFds
<1>2. cb \in Callbacks /\ events \in Events
  BY DEF Callbacks, Events
<1>3. set \in MyEvent /\ set.fd = f /\ set.call_back = cb
  BY <1>1, <1>2, EventSetFields
<1> HIDE DEF set
<1>4. /\ ev \in MyEvent /\ ev.fd = f /\ ev.call_back = cb
      /\ ev.events = events /\ ev.status = 1
  BY <1>2, <1>3, EventAddFields
<1>5. g_events' = [g_events EXCEPT ![s] = ev]
  BY DEF set
<1>6. interest' = [interest EXCEPT ![f] = reg]
  BY <1>1, <1>2, RegistrationChanges
<1>7. conn'[f].open
  <2>1. interest[f] = e /\ e.events # "none"
    BY <1>1, EventSlot DEF TypeOK, Events
  <2> QED
    BY <1>1, <2>1 DEF IInv, SlotsMatchEpoll, Registered
<1> HIDE DEF ev
<1>8. TypeOK'
  <2>1. g_events' \in [AllSlots -> MyEvent]
    BY <1>1, <1>4, <1>5 DEF TypeOK, MyEvent
  <2>2. interest' \in [AllFds -> [events : Events \cup {"none"}, slot : AllSlots]]
    BY <1>1, <1>2, <1>6 DEF TypeOK
  <2>3. batch' \subseteq batch
    BY CallbackSlot
  <2> QED
    BY <1>1, <2>1, <2>2, <2>3 DEF TypeOK, MyEvent
<1> HIDE DEF s, f, reg
<1>9. /\ batch' \subseteq batch /\ \A d \in batch' : d.slot # s
      /\ \A t \in AllSlots \ {s} : g_events[t].status = 1 => g_events[t].fd # f
      /\ \A fd \in AllFds \ {f} : Registered(fd) => interest[fd].slot # s
  BY CallbackSlot DEF s, f
<1>10. reg = [events |-> ev.events, slot |-> s]
  BY <1>4 DEF reg
<1>11. \A fd \in Fds \ {f} : conn'[fd].open = conn[fd].open
  OBVIOUS
<1>12. SlotStep(s, f, ev, reg)
  BY <1>4, <1>5, <1>6, <1>7, <1>9, <1>10, <1>11 DEF SlotStep
<1> QED
  BY <1>1, <1>8, <1>12, OneSlotChanges

\* A callback that is done with its connection: eventdel and close.
LEMMA Released ==
  ASSUME IInv, NEW e \in batch, Called(e, "recvdata") \/ Called(e, "senddata"),
         g_events' = [g_events EXCEPT ![e.slot] = EventDel(g_events[e.slot])],
         interest' = Deleted(interest, g_events[e.slot]),
         conn' = [conn EXCEPT ![g_events[e.slot].fd] = Closed],
         waiting' = waiting
  PROVE  IInv'
<1> DEFINE s == e.slot
           f == g_events[e.slot].fd
           ev == EventDel(g_events[e.slot])
<1>1. /\ TypeOK /\ s \in Slots /\ s \in AllSlots /\ f \in Fds /\ f \in AllFds
      /\ g_events[s].status = 1 /\ g_events[s] \in MyEvent
  BY CallbackSlot, SlotNumbers DEF IInv, SlotsMatchEpoll, AllFds
<1>2. /\ ev \in MyEvent /\ ev.status = 0
      /\ ev.call_back = g_events[s].call_back
  BY <1>1, EventDelFields
<1>3. interest' = [interest EXCEPT ![f] = Unregistered]
  BY <1>1 DEF Deleted
<1>4. ev.call_back # "acceptconn"
  BY <1>1, <1>2 DEF IInv, SlotUse
<1>5. g_events' = [g_events EXCEPT ![s] = ev]
  OBVIOUS
<1> HIDE DEF ev
<1>6. TypeOK'
  <2>1. g_events' \in [AllSlots -> MyEvent]
    BY <1>1, <1>2, <1>5 DEF TypeOK, MyEvent
  <2>2. interest' \in [AllFds -> [events : Events \cup {"none"}, slot : AllSlots]]
    <3>1. Unregistered \in [events : Events \cup {"none"}, slot : AllSlots]
      BY SlotNumbers DEF Unregistered
    <3> QED
      BY <1>1, <1>3, <3>1 DEF TypeOK
  <2>3. batch' \subseteq batch
    BY CallbackSlot
  <2>4. conn' \in [Fds -> [open : BOOLEAN, data : BOOLEAN, gone : BOOLEAN]]
    BY <1>1 DEF TypeOK, Closed
  <2> QED
    BY <1>1, <2>1, <2>2, <2>3, <2>4 DEF TypeOK, MyEvent
<1>7. \A fd \in Fds \ {f} : conn'[fd].open = conn[fd].open
  BY <1>1 DEF TypeOK
<1> HIDE DEF s, f
<1>8. /\ batch' \subseteq batch /\ \A d \in batch' : d.slot # s
      /\ \A t \in AllSlots \ {s} : g_events[t].status = 1 => g_events[t].fd # f
      /\ \A fd \in AllFds \ {f} : Registered(fd) => interest[fd].slot # s
  BY CallbackSlot DEF s, f
<1>9. SlotStep(s, f, ev, Unregistered)
  BY <1>2, <1>3, <1>4, <1>5, <1>7, <1>8 DEF SlotStep
<1> QED
  BY <1>1, <1>6, <1>9, OneSlotChanges

LEMMA RecvDataInv ==
  ASSUME IInv, NEW e \in batch, RecvData(e)
  PROVE  IInv'
<1> DEFINE ev == g_events[e.slot]
           old == [EventDel(ev) EXCEPT !.len = 1]
<1>1. /\ TypeOK /\ Called(e, "recvdata") /\ waiting' = waiting
      /\ ev \in MyEvent /\ ev.fd \in Fds
  BY CallbackSlot DEF IInv, SlotsMatchEpoll, RecvData
<1>2. CASE /\ conn' = [conn EXCEPT ![ev.fd].data = FALSE]
           /\ g_events' = [g_events EXCEPT ![e.slot] =
                EventAdd(EventSet(old, ev.fd, "senddata"), "OUT")]
           /\ interest' = Added(Deleted(interest, ev), ev.fd, "OUT", e.slot)
  <2>1. EventDel(ev) \in MyEvent
    BY <1>1, EventDelFields
  <2>2. old \in MyEvent
    BY <2>1 DEF MyEvent
  <2>3. conn' \in [Fds -> [open : BOOLEAN, data : BOOLEAN, gone : BOOLEAN]]
    BY <1>1, <1>2 DEF TypeOK
  <2>4. \A fd \in Fds : conn'[fd].open = conn[fd].open
    BY <1>1, <1>2 DEF TypeOK
  <2> HIDE DEF old
  <2> QED
    BY <1>1, <1>2, <2>2, <2>3, <2>4, Rearmed
<1>3. CASE /\ conn' = AfterRecvEnd(ev.fd)
           /\ g_events' = [g_events EXCEPT ![e.slot] = EventDel(ev)]
           /\ interest' = Deleted(interest, ev)
  BY <1>1, <1>3, Released DEF AfterRecvEnd
<1> QED
  BY <1>2, <1>3 DEF RecvData

LEMMA SendDataInv ==
  ASSUME IInv, NEW e \in batch, SendData(e)
  PROVE  IInv'
<1> DEFINE ev == g_events[e.slot]
           sent == ev.len > 0 /\ ~conn[ev.fd].gone
<1>1. /\ TypeOK /\ Called(e, "senddata") /\ waiting' = waiting
      /\ ev \in MyEvent /\ ev.fd \in Fds
  BY CallbackSlot DEF IInv, SlotsMatchEpoll, SendData
<1>2. CASE sent
  <2>1. EventDel(ev) \in MyEvent
    BY <1>1, EventDelFields
  <2>2. /\ g_events' = [g_events EXCEPT ![e.slot] =
             EventAdd(EventSet(EventDel(ev), ev.fd, "recvdata"), "IN")]
        /\ interest' = Added(Deleted(interest, ev), ev.fd, "IN", e.slot)
        /\ conn' = conn
    BY <1>2 DEF SendData
  <2> QED
    BY <1>1, <2>1, <2>2, Rearmed DEF TypeOK
<1>3. CASE ~sent
  <2>1. /\ g_events' = [g_events EXCEPT ![e.slot] = EventDel(ev)]
        /\ interest' = Deleted(interest, ev)
        /\ conn' = [conn EXCEPT ![ev.fd] = Closed]
    BY <1>3 DEF SendData
  <2> QED
    BY <1>1, <2>1, Released
<1> QED
  BY <1>2, <1>3

LEMMA NextInv == IInv /\ [Next]_vars => IInv'
<1>1. IInv /\ UNCHANGED vars => IInv'
  BY DEF vars, IInv, SlotsMatchEpoll, TypeOK, BatchFresh, SlotUse, Registered
<1> QED
  BY <1>1, EpollWaitInv, ClientsInv, AcceptConnInv, RecvDataInv, SendDataInv
     DEF Next, Handle

LEMMA Invariance == Spec => []IInv
BY InitInv, NextInv, PTL DEF Spec

-----------------------------------------------------------------------------

\* status, the slots and what epoll watches agree, however the callbacks of a
\* batch reuse slots and descriptors (lines 94-122).
THEOREM SlotsAndEpoll == Spec => []SlotsMatchEpoll
BY Invariance, PTL DEF IInv

\* No event of a batch is stale when its turn comes: the pointer it carries leads
\* to the slot it was registered for (lines 56-68).
THEOREM NoStaleEvent == Spec => []BatchFresh
BY Invariance, PTL DEF IInv

\* acceptconn forgets a connection only with every slot in use (lines 200-212).
THEOREM Forgetting == Spec => ForgottenOnlyWhenFull
<1> DEFINE Full == \A s \in Slots : g_events[s].status = 1
           Kept(fd) == ~conn[fd].open /\ conn'[fd].open
                         /\ interest'[fd].events = "none" => Full
<1>1. ASSUME IInv, [Next]_vars PROVE \A fd \in Fds : Kept(fd)
  <2>1. TypeOK
    BY <1>1 DEF IInv, SlotsMatchEpoll
  <2>2. ASSUME NEW e \in batch, AcceptConn(e), NEW fd \in Fds PROVE Kept(fd)
    <3> SUFFICES ASSUME ~conn[fd].open, conn'[fd].open,
                        interest'[fd].events = "none", ~Full
                 PROVE  FALSE
      OBVIOUS
    <3>1. FreeSlots # {}
      <4>1. \A s \in Slots : g_events[s].status \in {0, 1}
        BY <2>1, SlotNumbers DEF TypeOK
      <4> QED
        BY <4>1 DEF FreeSlots
    <3>2. PICK f \in Fds :
            /\ conn' = [conn EXCEPT ![f] = [Closed EXCEPT !.open = TRUE]]
            /\ interest' = Added(interest, f, "IN", FirstFree)
      BY <2>2, <3>1 DEF AcceptConn
    <3>3. f = fd
      BY <2>1, <3>2 DEF TypeOK
    <3>4. fd \in AllFds
      BY DEF AllFds
    <3> QED
      BY <2>1, <3>2, <3>3, <3>4 DEF Added, TypeOK
  <2>3. ASSUME \A fd \in Fds : conn'[fd].open => conn[fd].open
        PROVE  \A fd \in Fds : Kept(fd)
    BY <2>3
  <2>4. CASE EpollWait \/ Clients \/ UNCHANGED vars
    <3>1. CASE EpollWait \/ ClientConnects \/ UNCHANGED vars
      BY <2>3, <3>1 DEF EpollWait, ClientConnects, vars
    <3>2. ASSUME NEW fd \in Fds, ClientSends(fd) \/ ClientLeaves(fd)
          PROVE  \A f \in Fds : Kept(f)
      <4>1. conn[fd].open
        BY <3>2 DEF ClientSends, ClientLeaves
      <4>2. \A f \in Fds \ {fd} : conn'[f] = conn[f]
        BY <2>1, <3>2 DEF ClientSends, ClientLeaves, TypeOK
      <4> QED
        BY <2>3, <4>1, <4>2
    <3> QED
      BY <2>4, <3>1, <3>2 DEF Clients
  <2>5. ASSUME NEW e \in batch, RecvData(e) \/ SendData(e)
        PROVE  \A fd \in Fds : Kept(fd)
    <3>1. g_events[e.slot].fd \in Fds
      BY <1>1, <2>5, CallbackSlot DEF RecvData, SendData
    <3>2. \/ conn' = conn
          \/ conn' = [conn EXCEPT ![g_events[e.slot].fd].data = FALSE]
          \/ conn' = [conn EXCEPT ![g_events[e.slot].fd] = Closed]
      BY <2>5 DEF RecvData, SendData, AfterRecvEnd
    <3>3. \A fd \in Fds : conn'[fd].open => conn[fd].open
      <4>1. ~Closed.open
        BY DEF Closed
      <4> DEFINE s == g_events[e.slot].fd
      <4>2. conn[s].open = [conn[s] EXCEPT !.data = FALSE].open
        BY <2>1, <3>1 DEF TypeOK
      <4>3. \A fd \in Fds \ {s} : conn'[fd] = conn[fd]
        BY <2>1, <3>1, <3>2 DEF TypeOK
      <4>4. conn'[s].open => conn[s].open
        BY <2>1, <3>1, <3>2, <4>1, <4>2 DEF TypeOK
      <4> QED
        BY <4>3, <4>4
    <3> QED
      BY <2>3, <3>3
  <2> QED
    BY <1>1, <2>2, <2>4, <2>5 DEF Next, Handle
<1> QED
  BY <1>1, Invariance, PTL DEF Spec, ForgottenOnlyWhenFull

-----------------------------------------------------------------------------
(* EdgeReader, the simpler loops over epoll_wait: epoll_et/server2.c and      *)
(* epoll/server.c.  Fds, ListenFd, conn and batch are the names of its        *)
(* parameters too.                                                           *)

CONSTANTS Chunk, Capacity, PipeSize, Resets

VARIABLES queued, armed, pc, program, last

Edge == INSTANCE EdgeReader

\* What a connection holds at most.
Most == IF program = "pipe" THEN PipeSize ELSE Capacity
Connection == [open : BOOLEAN, unread : 0..Most, fin : BOOLEAN, reset : BOOLEAN]

\* The shape of the state; nothing of a batch is left when epoll_wait is called.
Shape ==
  /\ program \in {"edge", "level", "pipe"}
  /\ conn \in [Fds -> Connection] /\ queued \in Connection
  /\ armed \subseteq Fds /\ batch \subseteq Fds \cup {ListenFd}
  /\ pc \in {"wait", "events", "exited"}
  /\ pc = "wait" => batch = {}
  /\ last \in [Fds -> 0..Chunk]

\* What no event will report of a connection, if its next one is not on the way.
Left(fd) ==
  program # "pipe" /\ conn[fd].open /\ fd \notin armed \cup batch =>
    /\ conn[fd].unread > 0 => last[fd] = Chunk
    /\ conn[fd].fin => last[fd] > 0

EdgeInv == Shape /\ \A fd \in Fds : Left(fd)

\* Most is a number.
LEMMA MostNat == Edge!ReaderAssumption => Most \in Nat
BY DEF Edge!ReaderAssumption, Most

\* A step after which a descriptor is armed or in the batch unless nothing of it
\* changed keeps what holds of it.
LEMMA LeftFrame ==
  ASSUME NEW fd \in Fds, Left(fd), UNCHANGED program,
         conn' \in [Fds -> Connection],
         \/ fd \in armed' \cup batch'
         \/ ~conn'[fd].open
         \/ conn'[fd].unread = 0 /\ ~conn'[fd].fin
         \/ /\ conn'[fd] = conn[fd] /\ last'[fd] = last[fd]
            /\ fd \in armed \cup batch => fd \in armed' \cup batch'
  PROVE  Left(fd)'
<1>1. conn'[fd].fin \in BOOLEAN
  BY DEF Connection
<1> QED
  BY <1>1 DEF Left

\* What a client does to its connection leaves a connection.
LEMMA ChangesType ==
  ASSUME Edge!ReaderAssumption, NEW c \in Connection, program # "pipe",
         NEW d \in Edge!Changes(c)
  PROVE  d \in Connection
<1>1. c.unread \in Nat /\ Most = Capacity /\ Capacity \in Nat
  BY DEF Connection, Most, Edge!ReaderAssumption
<1>2. \A u \in (c.unread + 1)..Capacity : u \in 0..Most
  BY <1>1
<1>3. \A u \in 0..Most : [c EXCEPT !.unread = u] \in Connection
  BY DEF Connection
<1>4. [c EXCEPT !.fin = TRUE] \in Connection
  BY DEF Connection
<1>5. \A r \in BOOLEAN : [c EXCEPT !.reset = r] \in Connection
  BY DEF Connection
<1> QED
  BY <1>2, <1>3, <1>4, <1>5 DEF Edge!Changes, Edge!ReaderAssumption

LEMMA EdgeClientsInv == ASSUME Edge!ReaderAssumption, EdgeInv, Edge!Clients PROVE EdgeInv'
<1>1. Shape /\ program # "pipe" /\ UNCHANGED <<program, batch, pc>>
  BY DEF EdgeInv, Edge!Clients, Edge!ClientConnects, Edge!QueuedClient, Edge!Client
<1>2. Connection' = Connection
  BY <1>1 DEF Connection, Most
<1>3. CASE Edge!ClientConnects
  <2>1. [Edge!Closed EXCEPT !.open = TRUE] \in Connection
    <3>1. Edge!Closed \in Connection
      BY MostNat DEF Edge!Closed, Connection
    <3> QED
      BY <3>1 DEF Connection
  <2>2. Shape'
    BY <1>1, <1>2, <1>3, <2>1 DEF Shape, Edge!ClientConnects
  <2> QED
    BY <1>1, <1>3, <2>2 DEF EdgeInv, Left, Edge!ClientConnects
<1>4. CASE Edge!QueuedClient
  <2>1. queued' \in Connection
    BY <1>1, <1>4, ChangesType DEF Shape, Edge!QueuedClient
  <2>2. Shape'
    BY <1>1, <1>2, <1>4, <2>1 DEF Shape, Edge!QueuedClient
  <2> QED
    BY <1>1, <1>4, <2>2 DEF EdgeInv, Left, Edge!QueuedClient
<1>5. ASSUME NEW fd \in Fds, Edge!Client(fd) PROVE EdgeInv'
  <2>1. PICK c \in Edge!Changes(conn[fd]) : conn' = [conn EXCEPT ![fd] = c]
    BY <1>5 DEF Edge!Client
  <2>2. c \in Connection
    BY <1>1, <2>1, ChangesType DEF Shape
  <2>3. conn' \in [Fds -> Connection] /\ last' \in [Fds -> 0..Chunk]
    BY <1>1, <1>5, <2>1, <2>2 DEF Shape, Edge!Client, Edge!ReaderAssumption
  <2>4. Shape'
    BY <1>1, <1>2, <1>5, <2>3 DEF Shape, Edge!Client
  <2>5. ASSUME NEW e \in Fds PROVE Left(e)'
    <3>1. e # fd => conn'[e] = conn[e] /\ last'[e] = last[e]
      BY <1>1, <1>5, <2>1 DEF Shape, Edge!Client
    <3>2. e = fd => e \in armed'
      BY <1>5 DEF Edge!Client
    <3>3. armed \subseteq armed'
      BY <1>5 DEF Edge!Client
    <3> QED
      BY <1>1, <1>2, <2>3, <3>1, <3>2, <3>3, LeftFrame DEF EdgeInv
  <2> QED
    BY <2>4, <2>5 DEF EdgeInv
<1> QED
  BY <1>3, <1>4, <1>5 DEF Edge!Clients

LEMMA EdgeParentInv ==
  ASSUME Edge!ReaderAssumption, EdgeInv, Edge!ParentWrites PROVE EdgeInv'
<1>1. Shape /\ program = "pipe" /\ UNCHANGED <<queued, batch, pc, program>>
  BY DEF EdgeInv, Edge!ParentWrites
<1>2. Edge!PipeFd \in Fds /\ Most = PipeSize /\ PipeSize \in Nat /\ Chunk \in Nat
  BY <1>1 DEF Edge!PipeFd, Most, Edge!ReaderAssumption
<1>3. conn[Edge!PipeFd].unread + 2 * Chunk \in 0..Most
  <2>1. conn[Edge!PipeFd].unread \in Nat
    BY <1>1, <1>2 DEF Shape, Connection
  <2> QED
    BY <1>2, <2>1 DEF Edge!ParentWrites, Edge!Fits
<1>4. [conn[Edge!PipeFd] EXCEPT !.unread = conn[Edge!PipeFd].unread + 2 * Chunk]
        \in Connection
  BY <1>1, <1>2, <1>3 DEF Shape, Connection
<1>5. conn' \in [Fds -> Connection]
  BY <1>1, <1>4 DEF Shape, Edge!ParentWrites
<1>6. last' \in [Fds -> 0..Chunk] /\ armed' \subseteq Fds
  BY <1>1, <1>2 DEF Shape, Edge!ParentWrites
<1>7. Connection' = Connection
  BY <1>1 DEF Connection, Most
<1>8. Shape'
  BY <1>1, <1>5, <1>6, <1>7 DEF Shape
<1> QED
  BY <1>1, <1>8 DEF EdgeInv, Left

LEMMA EdgeEpollWaitInv ==
  ASSUME Edge!ReaderAssumption, EdgeInv, Edge!EpollWait, UNCHANGED program PROVE EdgeInv'
<1> DEFINE reported == {fd \in armed : Edge!Readable(conn[fd])}
<1>1. /\ Shape /\ pc = "wait" /\ pc' = "events"
      /\ batch' = reported \cup (IF queued.open THEN {ListenFd} ELSE {})
      /\ armed' = Edge!StaysArmed(reported)
      /\ UNCHANGED <<program, conn, queued, last>>
  BY DEF EdgeInv, Edge!EpollWait
<1>2. Connection' = Connection
  BY <1>1 DEF Connection, Most
<1>3. armed' \subseteq reported
  BY <1>1 DEF Edge!StaysArmed
<1>4. Shape'
  BY <1>1, <1>2, <1>3 DEF Shape
<1>5. ASSUME NEW fd \in Fds PROVE Left(fd)'
  <2>1. CASE fd \in armed /\ fd \notin batch'
    <3>1. ~Edge!Readable(conn[fd])
      BY <1>1, <2>1
    <3>2. conn[fd].unread \in Nat
      BY <1>1 DEF Shape, Connection
    <3> QED
      BY <1>1, <3>1, <3>2 DEF Edge!Readable, Left
  <2>2. CASE fd \notin armed
    <3>1. fd \notin armed \cup batch
      BY <1>1, <2>2 DEF Shape
    <3> QED
      BY <1>1, <3>1 DEF EdgeInv, Left
  <2> QED
    BY <2>1, <2>2 DEF Left
<1> QED
  BY <1>4, <1>5 DEF EdgeInv

\* What Handled leaves of the batch.
LEMMA AfterHandled ==
  ASSUME Shape, NEW e, Edge!Handled(e)
  PROVE  /\ batch' = batch \ {e} /\ batch' \subseteq Fds \cup {ListenFd}
         /\ pc' \in {"wait", "events", "exited"} /\ (pc' = "wait" => batch' = {})
BY DEF Shape, Edge!Handled

LEMMA EdgeAcceptInv ==
  ASSUME Edge!ReaderAssumption, EdgeInv, Edge!AcceptOne, UNCHANGED program PROVE EdgeInv'
<1>1. Shape
  BY DEF EdgeInv
<1>2. Connection' = Connection
  BY DEF Connection, Most
<1>3. ASSUME NEW fd \in Edge!FreeFds,
             conn' = [conn EXCEPT ![fd] = queued],
             armed' = armed \cup (IF Edge!Readable(queued) THEN {fd} ELSE {}),
             last' = [last EXCEPT ![fd] = 0],
             queued' = Edge!Closed, Edge!Handled(ListenFd)
      PROVE  EdgeInv'
  <2>1. fd \in Fds /\ ListenFd \notin Fds
    BY DEF Edge!FreeFds, Edge!ReaderAssumption
  <2>2. conn' \in [Fds -> Connection] /\ last' \in [Fds -> 0..Chunk]
    BY <1>1, <1>3, <2>1 DEF Shape, Edge!ReaderAssumption
  <2>3. Edge!Closed \in Connection
    BY MostNat DEF Edge!Closed, Connection
  <2>4. Shape'
    BY <1>1, <1>2, <1>3, <2>1, <2>2, <2>3, AfterHandled DEF Shape
  <2>5. ASSUME NEW e \in Fds PROVE Left(e)'
    <3>1. CASE e = fd
      <4>1. conn'[fd] = queued /\ queued.unread \in Nat
        BY <1>1, <1>3, <2>1 DEF Shape, Connection
      <4>2. fd \in armed' \/ ~queued.open \/ (queued.unread = 0 /\ ~queued.fin)
        BY <1>3, <4>1 DEF Edge!Readable
      <4> QED
        BY <1>2, <2>1, <2>2, <3>1, <4>1, <4>2, LeftFrame DEF EdgeInv
    <3>2. CASE e # fd
      <4>1. conn'[e] = conn[e] /\ last'[e] = last[e]
        BY <1>1, <1>3, <3>2 DEF Shape
      <4>2. e \in armed \cup batch => e \in armed' \cup batch'
        BY <1>1, <1>3, <2>1, AfterHandled
      <4> QED
        BY <1>2, <2>2, <4>1, <4>2, LeftFrame DEF EdgeInv
    <3> QED
      BY <3>1, <3>2
  <2> QED
    BY <2>4, <2>5 DEF EdgeInv
<1>4. CASE pc' = "exited" /\ UNCHANGED <<conn, queued, armed, batch, last>>
  BY <1>1, <1>2, <1>4 DEF EdgeInv, Shape, Left
<1> QED
  BY <1>3, <1>4 DEF Edge!AcceptOne

LEMMA EdgeReadInv ==
  ASSUME Edge!ReaderAssumption, EdgeInv, NEW fd \in Fds, UNCHANGED program,
         Edge!ReadSome(fd) \/ Edge!ReadEof(fd) \/ Edge!ReadFails(fd)
  PROVE  EdgeInv'
<1>1. Shape
  BY DEF EdgeInv
<1>2. Connection' = Connection
  BY DEF Connection, Most
<1>3. /\ conn[fd].unread \in 0..Most /\ Most \in Nat /\ Chunk \in Nat
      /\ conn[fd].fin \in BOOLEAN
  BY <1>1, MostNat DEF Shape, Connection, Edge!ReaderAssumption
<1>4. CASE Edge!ReadSome(fd)
  <2>1. /\ conn[fd].unread > 0 /\ Edge!Handled(fd) /\ UNCHANGED <<queued, armed>>
        /\ conn' = [conn EXCEPT ![fd].unread = conn[fd].unread - Edge!Got(fd)]
        /\ last' = [last EXCEPT ![fd] = Edge!Got(fd)]
    BY <1>4 DEF Edge!ReadSome
  <2>2. /\ Edge!Got(fd) \in 0..Chunk /\ Edge!Got(fd) > 0
        /\ conn[fd].unread - Edge!Got(fd) \in 0..Most
        /\ conn[fd].unread - Edge!Got(fd) > 0 => Edge!Got(fd) = Chunk
    BY <1>3, <2>1 DEF Edge!Got, Edge!ReaderAssumption
  <2>3. [conn[fd] EXCEPT !.unread = conn[fd].unread - Edge!Got(fd)] \in Connection
    BY <1>1, <2>2 DEF Shape, Connection
  <2>4. conn' \in [Fds -> Connection] /\ last' \in [Fds -> 0..Chunk]
    BY <1>1, <2>1, <2>2, <2>3 DEF Shape
  <2>5. Shape'
    BY <1>1, <1>2, <2>1, <2>4, AfterHandled DEF Shape
  <2>6. Left(fd)'
    <3>1. conn'[fd].unread = conn[fd].unread - Edge!Got(fd) /\ last'[fd] = Edge!Got(fd)
      BY <1>1, <2>1, <2>3 DEF Shape, Connection
    <3> QED
      BY <2>2, <3>1 DEF Left
  <2>7. ASSUME NEW e \in Fds, e # fd PROVE Left(e)'
    <3>1. conn'[e] = conn[e] /\ last'[e] = last[e]
      BY <1>1, <2>1, <2>7 DEF Shape
    <3>2. e \in armed \cup batch => e \in armed' \cup batch'
      BY <1>1, <2>1, <2>7, AfterHandled
    <3> QED
      BY <1>2, <2>4, <3>1, <3>2, LeftFrame DEF EdgeInv
  <2> QED
    BY <2>5, <2>6, <2>7 DEF EdgeInv
<1>5. CASE Edge!ReadEof(fd)
  <2>1. /\ Edge!Handled(fd) /\ UNCHANGED queued
        /\ conn' = [conn EXCEPT ![fd] = Edge!Closed] /\ armed' = armed \ {fd}
        /\ last' = [last EXCEPT ![fd] = 0]
    BY <1>5 DEF Edge!ReadEof
  <2>2. Edge!Closed \in Connection /\ ~Edge!Closed.open
    BY MostNat DEF Edge!Closed, Connection
  <2>3. conn' \in [Fds -> Connection] /\ last' \in [Fds -> 0..Chunk]
    BY <1>1, <1>3, <2>1, <2>2 DEF Shape
  <2>4. Shape'
    BY <1>1, <1>2, <2>1, <2>3, AfterHandled DEF Shape
  <2>5. ASSUME NEW e \in Fds PROVE Left(e)'
    <3>1. e # fd => conn'[e] = conn[e] /\ last'[e] = last[e]
      BY <1>1, <2>1 DEF Shape
    <3>2. e = fd => ~conn'[e].open
      BY <1>1, <2>1, <2>2 DEF Shape
    <3>3. e # fd /\ e \in armed \cup batch => e \in armed' \cup batch'
      BY <1>1, <2>1, AfterHandled
    <3> QED
      BY <1>2, <2>3, <3>1, <3>2, <3>3, LeftFrame DEF EdgeInv
  <2> QED
    BY <2>4, <2>5 DEF EdgeInv
<1>6. CASE Edge!ReadFails(fd)
  BY <1>1, <1>2, <1>6 DEF EdgeInv, Shape, Left, Edge!ReadFails
<1> QED
  BY <1>4, <1>5, <1>6

LEMMA EdgeInitInv == ASSUME Edge!ReaderAssumption, Edge!Init PROVE EdgeInv
<1>1. Edge!Closed \in Connection
  BY MostNat DEF Edge!Closed, Connection
<1>2. \A b \in BOOLEAN : [Edge!Closed EXCEPT !.open = b] \in Connection
  BY <1>1 DEF Connection
<1>3. conn \in [Fds -> Connection]
  BY <1>2 DEF Edge!Init
<1>4. ASSUME NEW fd \in Fds PROVE conn[fd].unread = 0 /\ ~conn[fd].fin
  BY DEF Edge!Init, Edge!Closed
<1>5. Shape
  BY <1>1, <1>3 DEF Edge!Init, Shape, Edge!ReaderAssumption
<1> QED
  BY <1>4, <1>5 DEF EdgeInv, Left

LEMMA EdgeNextInv ==
  ASSUME Edge!ReaderAssumption, EdgeInv, [Edge!Next]_Edge!vars PROVE EdgeInv'
<1>1. ASSUME UNCHANGED Edge!vars PROVE EdgeInv'
  BY <1>1 DEF Edge!vars, EdgeInv, Shape, Left, Connection, Most
<1> QED
  BY <1>1, EdgeClientsInv, EdgeParentInv, EdgeEpollWaitInv, EdgeAcceptInv,
     EdgeReadInv DEF Edge!Next, Edge!Server

\* The shape is what TypeOK of EdgeReader says.
LEMMA ShapeTypes == Edge!ReaderAssumption /\ Shape => Edge!TypeOK
<1> SUFFICES ASSUME Edge!ReaderAssumption, Shape PROVE Edge!TypeOK
  OBVIOUS
<1>1. ASSUME NEW c \in Connection PROVE Edge!ConnOK(c)
  BY DEF Connection, Edge!ConnOK, Edge!Closed, Most
<1> QED
  BY <1>1 DEF Shape, Edge!TypeOK

\* epoll_et/server2.c 69, 80-86: of an open connection for which no event is on the
\* way bytes stay unread only if Read filled its buffer, and the end of the stream
\* only if the last Read returned bytes, whatever clients do between epoll_wait and
\* Read.
THEOREM EdgesLeave == Edge!ReaderAssumption => (Edge!Spec => []Edge!LeftByRead)
<1> SUFFICES ASSUME Edge!ReaderAssumption PROVE Edge!Spec => []Edge!LeftByRead
  OBVIOUS
<1>1. Edge!Init => EdgeInv
  BY EdgeInitInv
<1>2. EdgeInv /\ [Edge!Next]_Edge!vars => EdgeInv'
  BY EdgeNextInv
<1>3. EdgeInv => Edge!LeftByRead
  BY ShapeTypes DEF EdgeInv, Left, Edge!LeftByRead
<1> QED
  BY <1>1, <1>2, <1>3, PTL DEF Edge!Spec

\* What a level-triggered epoll may not lose sight of.
Reported ==
  program = "level" =>
    \A fd \in Fds : Edge!Readable(conn[fd]) => fd \in armed

LEMMA ReportedStep ==
  ASSUME Edge!ReaderAssumption, EdgeInv, Reported, [Edge!Next]_Edge!vars
  PROVE  Reported'
<1>1. Shape
  BY DEF EdgeInv
<1> SUFFICES ASSUME program = "level", program' = "level",
                    NEW fd \in Fds, Edge!Readable(conn'[fd])
             PROVE  fd \in armed'
  <2>1. UNCHANGED program
    BY DEF Edge!Next, Edge!Server, Edge!Clients, Edge!ParentWrites, Edge!vars
  <2> QED
    BY <2>1 DEF Reported, Edge!Readable
<1>2. Edge!Readable(conn[fd]) => fd \in armed
  BY DEF Reported
<1>3. CASE Edge!EpollWait
  BY <1>2, <1>3 DEF Edge!EpollWait, Edge!StaysArmed
<1>4. CASE Edge!AcceptOne
  <2>1. CASE pc' = "exited" /\ UNCHANGED <<conn, queued, armed, batch, last>>
    BY <1>2, <2>1
  <2>2. ASSUME NEW e \in Edge!FreeFds, conn' = [conn EXCEPT ![e] = queued],
               armed' = armed \cup (IF Edge!Readable(queued) THEN {e} ELSE {})
        PROVE  fd \in armed'
    <3>1. conn'[fd] = IF fd = e THEN queued ELSE conn[fd]
      BY <1>1, <2>2 DEF Shape
    <3> QED
      BY <1>2, <2>2, <3>1
  <2> QED
    BY <1>4, <2>1, <2>2 DEF Edge!AcceptOne
<1>5. ASSUME NEW e \in Fds,
             Edge!ReadSome(e) \/ Edge!ReadEof(e) \/ Edge!ReadFails(e)
      PROVE  fd \in armed'
  <2>1. CASE Edge!ReadSome(e)
    <3>1. /\ conn' = [conn EXCEPT ![e].unread = conn[e].unread - Edge!Got(e)]
          /\ conn[e].unread > 0 /\ armed' = armed
      BY <2>1 DEF Edge!ReadSome
    <3>2. conn'[fd] = conn[fd] \/ fd = e
      BY <1>1, <3>1 DEF Shape
    <3>3. conn[fd] \in Connection
      BY <1>1 DEF Shape
    <3>4. conn'[fd].open => conn[fd].open
      BY <1>1, <3>1, <3>2, <3>3 DEF Shape, Connection
    <3>5. Edge!Readable(conn[fd])
      BY <3>1, <3>2, <3>4 DEF Edge!Readable
    <3> QED
      BY <1>2, <3>1, <3>5
  <2>2. CASE Edge!ReadEof(e)
    <3>1. ~Edge!Readable(Edge!Closed)
      BY DEF Edge!Readable, Edge!Closed
    <3>2. fd # e /\ conn'[fd] = conn[fd]
      BY <1>1, <2>2, <3>1 DEF Edge!ReadEof, Shape
    <3> QED
      BY <1>2, <2>2, <3>2 DEF Edge!ReadEof
  <2>3. CASE Edge!ReadFails(e)
    BY <1>2, <2>3 DEF Edge!ReadFails
  <2> QED
    BY <1>5, <2>1, <2>2, <2>3
<1>6. CASE Edge!Clients
  <2>1. CASE Edge!ClientConnects \/ Edge!QueuedClient
    BY <1>2, <2>1 DEF Edge!ClientConnects, Edge!QueuedClient
  <2>2. ASSUME NEW e \in Fds, Edge!Client(e) PROVE fd \in armed'
    <3>1. fd # e => conn'[fd] = conn[fd]
      BY <1>1, <2>2 DEF Edge!Client, Shape
    <3> QED
      BY <1>2, <2>2, <3>1 DEF Edge!Client
  <2> QED
    BY <1>6, <2>1, <2>2 DEF Edge!Clients
<1>7. CASE Edge!ParentWrites
  BY <1>7 DEF Edge!ParentWrites
<1>8. CASE UNCHANGED Edge!vars
  BY <1>2, <1>8 DEF Edge!vars
<1> QED
  BY <1>3, <1>4, <1>5, <1>6, <1>7, <1>8 DEF Edge!Next, Edge!Server

\* epoll/server.c 60-86, without EPOLLET: a connection with something to read, the
\* end of the stream included, is on epoll's list at every moment, also while its
\* event is handled and when Read took only a part, so that the next epoll_wait
\* returns it.  It is what LeaversClosed needs of safety.
THEOREM LevelReports == Edge!ReaderAssumption => (Edge!Spec => []Reported)
<1> SUFFICES ASSUME Edge!ReaderAssumption PROVE Edge!Spec => []Reported
  OBVIOUS
<1>1. Edge!Init => EdgeInv /\ Reported
  <2>1. Edge!Init => Reported
    BY DEF Edge!Init, Reported, Edge!Closed, Edge!Readable
  <2> QED
    BY <2>1, EdgeInitInv
<1>2. EdgeInv /\ Reported /\ [Edge!Next]_Edge!vars => (EdgeInv /\ Reported)'
  BY EdgeNextInv, ReportedStep
<1> QED
  BY <1>1, <1>2, PTL DEF Edge!Spec

=============================================================================
