--------------------------- MODULE PollServerProofs ---------------------------
(* The entries of the poll server, for any size of pollfds. *)
EXTENDS PollServer, TLAPS, WellFoundedInduction

\* What a connection may be, as TypeOK has it.
ConnType == [open : BOOLEAN, data : BOOLEAN,
             gone : {"no", "fin", "reset"}, unread : 0..OutBuf]

\* Read on entry k returns at once: data, the end, or the failure of a reset.
HasWork(k) ==
  fds[k] # -1 /\ (conn[fds[k]].data \/ conn[fds[k]].gone # "no")

\* The part of SlotsCover that survives the accept that fills pollfds, after
\* which the loop still reads and closes entries.
OneEntry ==
  \A k, l \in Slots :
    fds[k] # -1 => conn[fds[k]].open /\ (fds[l] = fds[k] => k = l)

\* The entries the loop has not come to since poll returned.
ToVisit ==
  {k \in Slots : \/ pc = "accept"
                 \/ pc \in {"scan", "read"} /\ k >= i
                 \/ pc = "write" /\ k > i}

\* What poll reported of them is still there: clients only add to it, and accept
\* fills an entry that was free, of which nothing was reported.
Reported == \A k \in ToVisit : revents[k] = "in" => HasWork(k)

\* What the others need of the place main is at.  An entry above max was never
\* given to poll, so that its revents is unset and not a report of long ago.
Loop ==
  /\ \A k \in Slots : k > max => revents[k] = "unset"
  /\ pc = "accept" => max < Size
  /\ pc = "scan" => i \in 1..Size /\ i <= max + 1
  /\ pc \in {"read", "write"} => i \in Slots /\ i <= max
  /\ pc = "read" => revents[i] \in {"in", "unset"}
  /\ pc = "write" => fds[i] # -1

IInv == SlotsCover /\ OneEntry /\ Reported /\ Loop

-----------------------------------------------------------------------------
(* Descriptors and entries *)

\* FreeFds and FreeSlots are sets of naturals: each has a least element, and so
\* the CHOOSE of Least picks one of its elements, with nothing below it.
LEMMA LeastIn ==
  ASSUME NEW S, S \in SUBSET Nat, S # {}
  PROVE  Least(S) \in S /\ \A y \in S : Least(S) <= y
<1>1. PICK x \in S : \A y \in S : ~(<<y, x>> \in OpToRel(<, Nat))
  BY NatLessThanWellFounded, WFMin
<1>2. ASSUME NEW y \in S PROVE x <= y
  <2>1. <<y, x>> \notin {ss \in Nat \X Nat : ss[1] < ss[2]}
    BY <1>1 DEF OpToRel
  <2> QED
    BY <2>1
<1> QED
  BY <1>2 DEF Least

\* As long as the entries in use are covered, none of them is above max.
LEMMA NoneAbove ==
  ASSUME SlotsCover, OneEntry, max < Size
  PROVE  \A k \in Slots : k > max => fds[k] = -1
<1> SUFFICES ASSUME NEW k \in Slots, k > max, fds[k] # -1 PROVE FALSE
  OBVIOUS
<1>1. TypeOK /\ fds[k] \in Fds /\ conn[fds[k]].open
  BY DEF SlotsCover, OneEntry, TypeOK
<1>2. PICK l \in 1..max : fds[l] = fds[k]
  BY <1>1 DEF SlotsCover
<1>3. l \in Slots /\ l # k
  BY <1>1, <1>2, SizesAssumption DEF Slots, TypeOK
<1> QED
  BY <1>2, <1>3 DEF OneEntry

\* The records that the connections become.
LEMMA ConnRecords ==
  /\ Closed \in ConnType /\ ~Closed.open
  /\ \A c \in ConnType : /\ [c EXCEPT !.open = TRUE] \in ConnType
                         /\ [c EXCEPT !.open = TRUE].open
  /\ \A c \in ConnType, d \in BOOLEAN :
       /\ [c EXCEPT !.data = d] \in ConnType
       /\ [c EXCEPT !.data = d].open = c.open
  /\ \A c \in ConnType, n \in 0..OutBuf :
       /\ [c EXCEPT !.unread = n] \in ConnType
       /\ [c EXCEPT !.unread = n].open = c.open
<1>1. Closed \in ConnType /\ ~Closed.open
  BY SizesAssumption DEF Closed, ConnType
<1>2. ASSUME NEW c \in ConnType
      PROVE  [c EXCEPT !.open = TRUE] \in ConnType /\ [c EXCEPT !.open = TRUE].open
  BY DEF ConnType
<1>3. ASSUME NEW c \in ConnType, NEW d \in BOOLEAN
      PROVE  [c EXCEPT !.data = d] \in ConnType /\ [c EXCEPT !.data = d].open = c.open
  BY DEF ConnType
<1>4. ASSUME NEW c \in ConnType, NEW n \in 0..OutBuf
      PROVE  [c EXCEPT !.unread = n] \in ConnType /\ [c EXCEPT !.unread = n].open = c.open
  BY DEF ConnType
<1> QED
  BY <1>1, <1>2, <1>3, <1>4

LEMMA InitInv == Init => IInv
<1> SUFFICES ASSUME Init PROVE IInv
  OBVIOUS
<1>1. TypeOK
  <2>1. conn \in [Fds -> ConnType]
    BY ConnRecords DEF Init
  <2>2. /\ fds \in [Slots -> Fds \cup {-1}]
        /\ revents \in [0..(Size - 1) -> {"unset", "none", "in", "more"}]
    BY DEF Init
  <2>3. max \in 0..Size /\ i \in 0..(Size + 1)
    BY SizesAssumption DEF Init
  <2> QED
    BY <2>1, <2>2, <2>3 DEF Init, TypeOK, ConnType
<1>2. SlotsCover
  BY <1>1 DEF Init, SlotsCover, Closed
<1>3. OneEntry /\ Reported /\ Loop
  BY SizesAssumption DEF Init, OneEntry, Reported, ToVisit, Loop, Slots
<1> QED
  BY <1>2, <1>3 DEF IInv

-----------------------------------------------------------------------------
(* The steps *)

\* A step that opens, closes and enters nothing leaves the entries as they were.
LEMMA EntriesKept ==
  ASSUME SlotsCover, OneEntry, TypeOK', UNCHANGED <<fds, max>>,
         \A fd \in Fds : conn'[fd].open = conn[fd].open
  PROVE  SlotsCover' /\ OneEntry'
<1>1. SlotsCover'
  BY DEF SlotsCover, TypeOK
<1>2. OneEntry'
  BY DEF SlotsCover, OneEntry, TypeOK
<1> QED
  BY <1>1, <1>2

\* The clients touch data, gone and unread of a connection only.
LEMMA ClientsInv == IInv /\ Clients => IInv'
<1> SUFFICES ASSUME IInv, Clients PROVE IInv'
  OBVIOUS
<1>1. TypeOK /\ UNCHANGED mainVars
  BY DEF IInv, SlotsCover, Clients, ClientConnects, ClientSends, ClientReads,
         ClientLeaves
<1>2. /\ conn' \in [Fds -> ConnType]
      /\ waiting' \in BOOLEAN
      /\ \A fd \in Fds : /\ conn'[fd].open = conn[fd].open
                         /\ conn[fd].data => conn'[fd].data
                         /\ conn[fd].gone # "no" => conn'[fd].gone # "no"
  <2>1. CASE ClientConnects
    BY <2>1, <1>1 DEF ClientConnects, TypeOK, ConnType
  <2>2. ASSUME NEW fd \in Fds, ClientSends(fd) PROVE <1>2
    BY <2>2, <1>1 DEF ClientSends, TypeOK, ConnType
  <2>3. ASSUME NEW fd \in Fds, ClientReads(fd) PROVE <1>2
    BY <2>3, <1>1, SizesAssumption DEF ClientReads, TypeOK, ConnType
  <2>4. ASSUME NEW fd \in Fds, ClientLeaves(fd) PROVE <1>2
    BY <2>4, <1>1 DEF ClientLeaves, TypeOK, ConnType
  <2> QED
    BY <2>1, <2>2, <2>3, <2>4 DEF Clients
<1>3. TypeOK'
  BY <1>1, <1>2 DEF TypeOK, mainVars, ConnType
<1>4. SlotsCover' /\ OneEntry'
  BY <1>1, <1>2, <1>3, EntriesKept DEF IInv, mainVars
<1>5. Reported' /\ Loop'
  BY <1>1, <1>2 DEF IInv, Reported, ToVisit, HasWork, Loop, TypeOK, mainVars
<1> QED
  BY <1>4, <1>5 DEF IInv

LEMMA PollInv == IInv /\ Poll => IInv'
<1> SUFFICES ASSUME IInv, Poll PROVE IInv'
  OBVIOUS
<1>1. TypeOK /\ Loop /\ max < Size /\ UNCHANGED <<fds, max, conn, waiting>>
  BY DEF IInv, SlotsCover, Poll
<1>2. \A k \in 0..(Size - 1) : Events(k) \in {"none", "in", "more"}
  BY DEF Events
<1>3. /\ revents' \in [0..(Size - 1) -> {"unset", "none", "in", "more"}]
      /\ \A k \in Slots :
           revents'[k] = IF k \in Polled THEN Events(k) ELSE revents[k]
  BY <1>1, <1>2 DEF Poll, TypeOK, Slots
<1>4. \/ pc' = "accept" /\ i' = i
      \/ pc' = "scan" /\ i' = 1
  BY DEF Poll
<1>5. TypeOK'
  BY <1>1, <1>3, <1>4, SizesAssumption DEF TypeOK
<1>6. SlotsCover' /\ OneEntry'
  BY <1>1, <1>5, EntriesKept DEF IInv
<1>7. Loop'
  BY <1>1, <1>3, <1>4, SizesAssumption DEF Loop, Polled, TypeOK, Slots
<1>8. \A k \in Slots : revents'[k] = "in" => HasWork(k)
  BY <1>1, <1>3 DEF Events, HasWork, Loop, Polled, TypeOK, Slots
<1>9. Reported'
  BY <1>1, <1>8 DEF Reported, ToVisit, HasWork
<1> QED
  BY <1>6, <1>7, <1>9 DEF IInv

\* accept's entry is the first free one, at most one above max.
LEMMA AcceptInv == IInv /\ Accept => IInv'
<1> SUFFICES ASSUME IInv, Accept PROVE IInv'
  OBVIOUS
<1>1. TypeOK /\ SlotsCover /\ OneEntry /\ Reported /\ Loop /\ pc = "accept" /\ max < Size
  BY DEF IInv, SlotsCover, Loop, Accept
<1>2. CASE FreeFds = {}
  <2>1. UNCHANGED <<fds, revents, max, i, conn, waiting>> /\ pc' = "exited"
    BY <1>2 DEF Accept
  <2>2. TypeOK'
    BY <1>1, <2>1 DEF TypeOK
  <2>3. SlotsCover' /\ OneEntry'
    BY <1>1, <2>1, <2>2, EntriesKept
  <2>4. Reported' /\ Loop'
    BY <1>1, <2>1 DEF Reported, ToVisit, Loop
  <2> QED
    BY <2>3, <2>4 DEF IInv
<1>3. CASE FreeFds # {}
  <2> DEFINE cfd == Least(FreeFds)
             slot == Least(FreeSlots)
  <2>1. cfd \in Fds /\ ~conn[cfd].open
    <3>1. FreeFds \in SUBSET Nat
      BY DEF FreeFds, Fds
    <3>2. cfd \in FreeFds
      BY <1>3, <3>1, LeastIn
    <3> QED
      BY <3>2 DEF FreeFds
  <2>2. FreeSlots # {} =>
          /\ slot \in Slots /\ fds[slot] = -1
          /\ \A k \in Slots : fds[k] = -1 => slot <= k
    <3>1. FreeSlots \in SUBSET Nat
      BY SizesAssumption DEF FreeSlots, Slots
    <3>2. FreeSlots # {} => slot \in FreeSlots /\ \A y \in FreeSlots : slot <= y
      BY <3>1, LeastIn
    <3> HIDE DEF slot
    <3> QED
      BY <3>2 DEF FreeSlots
  <2>3. /\ conn' = [conn EXCEPT ![cfd] = [Closed EXCEPT !.open = TRUE]]
        /\ fds' = IF FreeSlots = {} THEN fds ELSE [fds EXCEPT ![slot] = cfd]
        /\ max' = max + 1 /\ pc' \in {"poll", "scan"} /\ i' = 1
        /\ waiting' = FALSE /\ UNCHANGED revents
    BY <1>3 DEF Accept
  <2> HIDE DEF cfd, slot
  <2>4. /\ [Closed EXCEPT !.open = TRUE] \in ConnType
        /\ [Closed EXCEPT !.open = TRUE].open
    BY ConnRecords
  <2>5. /\ conn' \in [Fds -> ConnType]
        /\ conn'[cfd].open
        /\ \A fd \in Fds \ {cfd} : conn'[fd] = conn[fd]
    <3>1. conn \in [Fds -> ConnType]
      BY <1>1 DEF TypeOK, ConnType
    <3> QED
      BY <2>1, <2>3, <2>4, <3>1
  <2>6. /\ fds' \in [Slots -> Fds \cup {-1}]
        /\ FreeSlots = {} => fds' = fds
        /\ FreeSlots # {} => /\ fds'[slot] = cfd
                             /\ \A k \in Slots \ {slot} : fds'[k] = fds[k]
    BY <1>1, <2>1, <2>2, <2>3 DEF TypeOK
  <2>7. \A k \in Slots : fds[k] # cfd
    BY <1>1, <2>1 DEF OneEntry, TypeOK, Fds
  <2>8. TypeOK'
    <3>1. max' \in 0..Size /\ i' \in 0..(Size + 1)
      BY <1>1, <2>3, SizesAssumption DEF TypeOK
    <3> QED
      BY <1>1, <2>3, <2>5, <2>6, <3>1 DEF TypeOK, ConnType
  <2>9. OneEntry'
    BY <1>1, <2>1, <2>2, <2>5, <2>6, <2>7 DEF OneEntry, TypeOK
  <2>10. SlotsCover'
    <3> SUFFICES ASSUME max' < Size, NEW fd \in Fds, conn'[fd].open
                 PROVE  \E k \in 1..max' : fds'[k] = fd
      BY <2>8, <2>9 DEF SlotsCover, OneEntry
    <3>1. max + 1 \in Slots /\ fds[max + 1] = -1
      <4>1. max + 1 \in Slots /\ max + 1 > max
        BY <1>1, <2>3, SizesAssumption DEF Slots, TypeOK
      <4> QED
        BY <1>1, <4>1, NoneAbove
    <3>2. FreeSlots # {} /\ slot \in 1..max'
      BY <1>1, <2>2, <2>3, <3>1 DEF FreeSlots, Slots, TypeOK
    <3>3. CASE fd = cfd
      BY <2>6, <3>2, <3>3
    <3>4. CASE fd # cfd
      <4>1. PICK k \in 1..max : fds[k] = fd
        BY <1>1, <2>5, <3>4 DEF SlotsCover
      <4>2. k \in Slots /\ k \in 1..max'
        BY <1>1, <2>3, <4>1, SizesAssumption DEF Slots, TypeOK
      <4>3. k # slot
        BY <2>2, <3>2, <4>1 DEF Fds
      <4> QED
        BY <2>6, <3>2, <4>1, <4>2, <4>3
    <3> QED
      BY <3>3, <3>4
  <2>11. Loop'
    BY <1>1, <2>3, SizesAssumption DEF Loop, TypeOK, Slots
  <2>12. Reported'
    <3> SUFFICES ASSUME NEW k \in Slots, revents[k] = "in"
                 PROVE  HasWork(k)'
      BY <2>3 DEF Reported, ToVisit
    <3>1. HasWork(k)
      BY <1>1 DEF Reported, ToVisit
    <3>2. fds'[k] = fds[k] /\ fds[k] # cfd
      BY <2>2, <2>6, <2>7, <3>1 DEF HasWork
    <3> QED
      BY <1>1, <2>5, <3>1, <3>2 DEF HasWork, TypeOK
  <2> QED
    BY <2>9, <2>10, <2>11, <2>12 DEF IInv
<1> QED
  BY <1>2, <1>3

\* The steps that end main or move its loop.
LEMMA ScanInv == IInv /\ (Overrun \/ ScanSkip \/ ScanHit \/ ReadFails) => IInv'
<1> SUFFICES ASSUME IInv, Overrun \/ ScanSkip \/ ScanHit \/ ReadFails PROVE IInv'
  OBVIOUS
<1>1. TypeOK /\ Reported /\ Loop /\ UNCHANGED <<fds, revents, max, conn, waiting>>
  BY DEF IInv, SlotsCover, Overrun, ScanSkip, ScanHit, ReadFails
<1>2. \/ i' = i /\ pc' \in {"undefined", "exited"}
      \/ pc = "scan" /\ i > max /\ pc' = "poll" /\ i' = i + 1
      \/ pc = "scan" /\ i <= max /\ i < Size /\ pc' = "scan" /\ i' = i + 1
      \/ /\ pc = "scan" /\ i <= max /\ i < Size /\ pc' = "read" /\ i' = i
         /\ revents[i] \in {"in", "unset"}
  BY DEF Overrun, ScanSkip, ScanHit, ReadFails
<1>3. i \in Int /\ max \in Int
  BY <1>1 DEF TypeOK
<1>4. i' \in 0..(Size + 1)
  BY <1>1, <1>2, <1>3, SizesAssumption DEF TypeOK, Loop
<1>5. TypeOK'
  BY <1>1, <1>2, <1>4 DEF TypeOK
<1>6. SlotsCover' /\ OneEntry'
  BY <1>1, <1>5, EntriesKept DEF IInv
<1>7. Loop'
  BY <1>1, <1>2, <1>3, SizesAssumption DEF Loop, Slots
<1>8. Reported'
  BY <1>1, <1>2, <1>3 DEF Reported, ToVisit, HasWork, Slots
<1> QED
  BY <1>6, <1>7, <1>8 DEF IInv

\* The entry and its connection are freed together; what was reported of the
\* entries behind is about other connections.
LEMMA ReadEofInv == IInv /\ ReadEof => IInv'
<1> SUFFICES ASSUME IInv, ReadEof PROVE IInv'
  OBVIOUS
<1>1. /\ TypeOK /\ SlotsCover /\ OneEntry /\ Reported /\ Loop
      /\ pc = "read" /\ pc' = "scan" /\ i' = i + 1
      /\ UNCHANGED <<revents, max, waiting>>
  BY DEF IInv, SlotsCover, ReadEof, MaxAfterClose
<1>2. i \in Slots /\ i <= max /\ max \in Int /\ i \in Int /\ fds[i] \in Fds
  BY <1>1 DEF Loop, TypeOK, ReadEof, Slots
<1>3. /\ fds' \in [Slots -> Fds \cup {-1}] /\ fds'[i] = -1
      /\ \A k \in Slots \ {i} : fds'[k] = fds[k]
  BY <1>1, <1>2 DEF ReadEof, FdsAfterClose, TypeOK
<1>4. /\ conn' \in [Fds -> ConnType]
      /\ ~conn'[fds[i]].open
      /\ \A fd \in Fds \ {fds[i]} : conn'[fd] = conn[fd]
  <2>1. conn \in [Fds -> ConnType]
    BY <1>1 DEF TypeOK, ConnType
  <2> QED
    BY <1>2, <2>1, ConnRecords DEF ReadEof
<1>5. \A k \in Slots \ {i} : fds[k] # -1 => fds[k] \in Fds \ {fds[i]}
  BY <1>1, <1>2 DEF OneEntry, TypeOK
<1>6. TypeOK'
  <2>1. i' \in 0..(Size + 1)
    BY <1>1, <1>2, SizesAssumption DEF Slots
  <2> QED
    BY <1>1, <1>3, <1>4, <2>1 DEF TypeOK, ConnType
<1>7. OneEntry'
  BY <1>1, <1>3, <1>4, <1>5 DEF OneEntry
<1>8. SlotsCover'
  <2> SUFFICES ASSUME max < Size, NEW fd \in Fds, conn'[fd].open
               PROVE  \E k \in 1..max : fds'[k] = fd
    BY <1>1, <1>6, <1>7 DEF SlotsCover, OneEntry
  <2>1. PICK k \in 1..max : fds[k] = fd
    BY <1>1, <1>4 DEF SlotsCover
  <2>2. k \in Slots \ {i}
    BY <1>2, <1>4, <2>1, SizesAssumption DEF Slots
  <2> QED
    BY <1>3, <2>1, <2>2
<1>9. Loop'
  BY <1>1, <1>2, SizesAssumption DEF Loop, Slots
<1>10. Reported'
  <2> SUFFICES ASSUME NEW k \in Slots, k >= i + 1, revents[k] = "in"
               PROVE  HasWork(k)'
    BY <1>1, <1>2 DEF Reported, ToVisit
  <2>1. HasWork(k) /\ k # i
    BY <1>1, <1>2 DEF Reported, ToVisit, Slots
  <2> QED
    BY <1>3, <1>4, <1>5, <2>1 DEF HasWork
<1> QED
  BY <1>7, <1>8, <1>9, <1>10 DEF IInv

\* A read or a write changes the connection of its own entry only.
LEMMA ReadWriteInv == IInv /\ (ReadData \/ Write) => IInv'
<1> SUFFICES ASSUME IInv, ReadData \/ Write PROVE IInv'
  OBVIOUS
<1>1. /\ TypeOK /\ SlotsCover /\ OneEntry /\ Reported /\ Loop
      /\ UNCHANGED <<fds, revents, max, waiting>>
  BY DEF IInv, SlotsCover, ReadData, Write
<1>2. /\ i \in Slots /\ i <= max /\ max \in Int /\ i \in Int /\ fds[i] \in Fds
      /\ \/ pc = "read" /\ pc' = "write" /\ i' = i
         \/ pc = "write" /\ pc' = "scan" /\ i' = i + 1
         \/ pc = "write" /\ pc' = "exited" /\ i' = i
  BY <1>1 DEF Loop, TypeOK, ReadData, Write, Slots
<1>3. /\ conn' \in [Fds -> ConnType]
      /\ \A fd \in Fds : conn'[fd].open = conn[fd].open
      /\ \A fd \in Fds \ {fds[i]} : conn'[fd] = conn[fd]
  <2>0. conn \in [Fds -> ConnType] /\ conn[fds[i]] \in ConnType
    BY <1>1, <1>2 DEF TypeOK, ConnType
  <2>1. CASE ReadData
    <3>1. PICK rest \in BOOLEAN : conn' = [conn EXCEPT ![fds[i]].data = rest]
      BY <2>1 DEF ReadData
    <3> QED
      BY <1>2, <2>0, <3>1, ConnRecords
  <2>2. CASE Write
    <3>1. CASE conn' = conn
      BY <2>0, <3>1
    <3>2. CASE conn' # conn
      <4>1. /\ conn[fds[i]].unread < OutBuf
            /\ conn' = [conn EXCEPT ![fds[i]].unread = conn[fds[i]].unread + 1]
        BY <2>2, <3>2 DEF Write
      <4>2. conn[fds[i]].unread + 1 \in 0..OutBuf
        BY <2>0, <4>1, SizesAssumption DEF ConnType
      <4> QED
        BY <1>2, <2>0, <4>1, <4>2, ConnRecords
    <3> QED
      BY <3>1, <3>2
  <2> QED
    BY <2>1, <2>2
<1>4. \A k \in Slots \ {i} : fds[k] # -1 => fds[k] \in Fds \ {fds[i]}
  BY <1>1, <1>2 DEF OneEntry, TypeOK
<1>5. TypeOK'
  <2>1. i' \in 0..(Size + 1)
    BY <1>2, SizesAssumption DEF Slots
  <2>2. pc' \in {"write", "scan", "exited"}
    BY <1>2
  <2> QED
    BY <1>1, <1>3, <2>1, <2>2 DEF TypeOK, ConnType
<1>6. SlotsCover' /\ OneEntry'
  BY <1>1, <1>3, <1>5, EntriesKept
<1>7. Loop'
  BY <1>1, <1>2, SizesAssumption DEF Loop, Slots, Fds
<1>8. Reported'
  <2> SUFFICES ASSUME NEW k \in Slots, k > i, revents[k] = "in"
               PROVE  HasWork(k)'
    BY <1>1, <1>2 DEF Reported, ToVisit, Slots
  <2>1. HasWork(k) /\ k # i
    BY <1>1, <1>2 DEF Reported, ToVisit, ReadData, Write, Slots
  <2> QED
    BY <1>1, <1>3, <1>4, <2>1 DEF HasWork
<1> QED
  BY <1>6, <1>7, <1>8 DEF IInv

LEMMA NextInv == IInv /\ [Next]_vars => IInv'
<1>1. IInv /\ UNCHANGED vars => IInv'
  BY DEF IInv, SlotsCover, TypeOK, OneEntry, Reported, ToVisit, HasWork, Loop,
         vars, mainVars
<1> QED
  BY <1>1, ClientsInv, PollInv, AcceptInv, ScanInv, ReadEofInv, ReadWriteInv
     DEF Next, Server

\* Until max reaches the end of pollfds every open connection has one entry that
\* poll is given, although max only counts accepts and entries are reused (lines
\* 55-64, 79-82).
THEOREM EntriesCovered == Spec => []SlotsCover
<1>1. IInv => SlotsCover
  BY DEF IInv
<1> QED
  BY <1>1, InitInv, NextInv, PTL DEF Spec

\* When the loop comes to an entry that poll set, Read on it does not wait and
\* has a descriptor (lines 74-77), also after other entries of the same round
\* were read and closed, and a connection was accepted.
THEOREM ReportStillTrue == Spec => []ReadHasWork
<1>1. IInv => ReadHasWork
  BY DEF IInv, Reported, ToVisit, HasWork, Loop, SlotsCover, TypeOK, ReadHasWork, Slots
<1> QED
  BY <1>1, InitInv, NextInv, PTL DEF Spec

=============================================================================
