------------------------- MODULE SelectServerProofs -------------------------
(* The tables of the select servers, for any number of descriptors and slots. *)
EXTENDS SelectServer, TLAPS, FiniteSetTheorems

\* What TablesAgree and RetIsPending need of the place main is at: server.c keeps
\* no table, accept comes right after select, so that rset has no descriptor of a
\* later connection, and write is at the descriptor that was read.
Loop ==
  /\ ~table => \A k \in Indices : cfds[k] = -1
  /\ pc = "accept" =>
       ListenFd \in rset /\ rset \subseteq allset /\ ret = Cardinality(rset)
  /\ pc = "write" => i <= Last /\ At(i) \in rset

IInv == TablesAgree /\ RetIsPending /\ Loop

Pending(j, last, slots) == {k \in j..last : slots[k] \in rset}

-----------------------------------------------------------------------------
(* Finite sets and the descriptors *)

LEMMA FdsFinite ==
  /\ IsFiniteSet(Fds \cup {ListenFd})
  /\ Cardinality(Fds \cup {ListenFd}) = NFds + 1
<1> DEFINE a == ListenFd
           b == ListenFd + NFds
<1>1. Fds \cup {ListenFd} = a..b
  BY SizesAssumption DEF Fds
<1>2. a \in Int /\ b \in Int /\ ~(a > b) /\ b - a + 1 = NFds + 1
  BY SizesAssumption
<1> HIDE DEF a, b
<1>3. IsFiniteSet(a..b) /\ Cardinality(a..b) = IF a > b THEN 0 ELSE b - a + 1
  BY <1>2, FS_Interval
<1> QED
  BY <1>1, <1>2, <1>3

LEMMA ReadyBounded ==
  ASSUME NEW R, R \subseteq Fds \cup {ListenFd}
  PROVE  /\ IsFiniteSet(R)
         /\ Cardinality(R) \in 0..(NFds + 1)
         /\ Cardinality(R) = 0 <=> R = {}
<1>1. IsFiniteSet(R) /\ Cardinality(R) <= NFds + 1
  BY FdsFinite, FS_Subset
<1>2. Cardinality(R) \in Nat
  BY <1>1, FS_CardinalityType
<1> QED
  BY <1>1, <1>2, FS_EmptySet, SizesAssumption

LEMMA PendingFinite ==
  ASSUME NEW slots, NEW j \in Int, NEW last \in Int
  PROVE  /\ IsFiniteSet(Pending(j, last, slots))
         /\ Cardinality(Pending(j, last, slots)) \in Nat
<1>1. IsFiniteSet(j..last)
  BY FS_Interval
<1>2. Pending(j, last, slots) \in SUBSET (j..last)
  BY DEF Pending
<1>3. IsFiniteSet(Pending(j, last, slots))
  BY <1>1, <1>2, FS_Subset
<1> QED
  BY <1>3, FS_CardinalityType

\* Every ready descriptor but the listening one has one slot.
LEMMA OneSlotEach ==
  ASSUME NEW slots, NEW last \in Int, NEW R, IsFiniteSet(R),
         \A fd \in R : \E k \in 0..last : slots[k] = fd,
         \A k, l \in 0..last : slots[k] \in R /\ slots[l] = slots[k] => k = l
  PROVE  Cardinality({k \in 0..last : slots[k] \in R}) = Cardinality(R)
<1> DEFINE K == {k \in 0..last : slots[k] \in R}
           f == [k \in K |-> slots[k]]
<1>1. f \in [K -> R]
  OBVIOUS
<1>2. \A a, b \in K : f[a] = f[b] => a = b
  OBVIOUS
<1>3. \A fd \in R : \E k \in K : f[k] = fd
  OBVIOUS
<1> HIDE DEF K, f
<1>4. f \in Bijection(K, R)
  BY <1>1, <1>2, <1>3 DEF Bijection, Injection, Surjection, IsInjective
<1>5. IsFiniteSet(K)
  <2>1. IsFiniteSet(0..last)
    BY FS_Interval
  <2> QED
    BY <2>1, FS_Subset DEF K
<1>6. ExistsBijection(K, R)
  BY <1>4 DEF ExistsBijection
<1> QED
  BY <1>5, <1>6, FS_Bijection DEF K

\* The loop passes one index: what is pending after it.
LEMMA PendingStep ==
  ASSUME NEW slots, NEW later, NEW j \in Int, NEW last \in Int, j <= last,
         \A k \in (j + 1)..last : later[k] = slots[k]
  PROVE  Cardinality(Pending(j + 1, last, later)) =
           IF slots[j] \in rset THEN Cardinality(Pending(j, last, slots)) - 1
           ELSE Cardinality(Pending(j, last, slots))
<1>1. Pending(j + 1, last, later) = Pending(j, last, slots) \ {j}
  BY DEF Pending
<1>2. j \in Pending(j, last, slots) <=> slots[j] \in rset
  BY DEF Pending
<1>3. IsFiniteSet(Pending(j, last, slots))
  BY PendingFinite
<1> QED
  BY <1>1, <1>2, <1>3, FS_RemoveElement

\* FreeFds and FreeIndices are sets of naturals: each has a least element, and
\* so the CHOOSE of Least picks one of its elements.
LEMMA LeastIn ==
  ASSUME NEW S, S \in SUBSET Nat, S # {}
  PROVE  Least(S) \in S
<1>1. PICK x \in S : \A y \in S : ~(<<y, x>> \in OpToRel(<, Nat))
  BY NatLessThanWellFounded, WFMin
<1>2. ASSUME NEW y \in S PROVE x <= y
  <2>1. <<y, x>> \notin {ss \in Nat \X Nat : ss[1] < ss[2]}
    BY <1>1 DEF OpToRel
  <2> QED
    BY <2>1
<1> QED
  BY <1>2 DEF Least

-----------------------------------------------------------------------------
(* The steps *)

LEMMA InitInv == Init => IInv
<1> SUFFICES ASSUME Init PROVE IInv
  OBVIOUS
<1> USE SizesAssumption DEF Init
<1>1. TypeOK
  <2>1. /\ cfds \in [Indices -> Fds \cup {-1}]
        /\ conn \in [Fds -> [open : BOOLEAN, data : BOOLEAN,
                             gone : {"no", "fin", "reset"}, unread : 0..OutBuf]]
    BY DEF Closed
  <2>2. ret \in 0..(NFds + 1) /\ i \in 0..Size /\ i \in 0..(ListenFd + NFds + 1)
    OBVIOUS
  <2> QED
    BY <2>1, <2>2 DEF TypeOK
<1>2. TablesAgree
  BY <1>1 DEF TablesAgree, Closed, Fds, Indices
<1>3. RetIsPending /\ Loop
  BY DEF RetIsPending, Loop
<1> QED
  BY <1>2, <1>3 DEF IInv

\* A step that opens and closes nothing leaves the tables as they agreed.
LEMMA TablesKept ==
  ASSUME TablesAgree, TypeOK', UNCHANGED <<table, cfds, allset, maxfd, maxindex>>,
         \A fd \in Fds : conn'[fd].open = conn[fd].open
  PROVE  TablesAgree'
BY DEF TablesAgree, TypeOK

\* The clients touch data, gone and unread of a connection only.
LEMMA ClientsInv == IInv /\ Clients => IInv'
<1> SUFFICES ASSUME IInv, Clients PROVE IInv'
  OBVIOUS
<1>1. TypeOK
  BY DEF IInv, TablesAgree
<1>2. UNCHANGED <<table, mainVars>>
  BY DEF Clients, ClientConnects, ClientSends, ClientReads, ClientLeaves
<1>3. /\ conn' \in [Fds -> [open : BOOLEAN, data : BOOLEAN,
                            gone : {"no", "fin", "reset"}, unread : 0..OutBuf]]
      /\ waiting' \in BOOLEAN
      /\ \A fd \in Fds : conn'[fd].open = conn[fd].open
  <2>1. CASE ClientConnects
    BY <2>1, <1>1 DEF ClientConnects, TypeOK
  <2>2. ASSUME NEW fd \in Fds, ClientSends(fd) PROVE <1>3
    BY <2>2, <1>1 DEF ClientSends, TypeOK
  <2>3. ASSUME NEW fd \in Fds, ClientReads(fd) PROVE <1>3
    BY <2>3, <1>1, SizesAssumption DEF ClientReads, TypeOK
  <2>4. ASSUME NEW fd \in Fds, ClientLeaves(fd) PROVE <1>3
    BY <2>4, <1>1 DEF ClientLeaves, TypeOK
  <2> QED
    BY <2>1, <2>2, <2>3, <2>4 DEF Clients
<1>4. TypeOK'
  BY <1>1, <1>2, <1>3 DEF TypeOK, mainVars
<1>5. TablesAgree'
  BY <1>2, <1>3, <1>4, TablesKept DEF IInv, mainVars
<1>6. RetIsPending' /\ Loop'
  BY <1>2 DEF IInv, RetIsPending, Loop, Last, At, mainVars
<1> QED
  BY <1>5, <1>6 DEF IInv

LEMMA SelectInv == IInv /\ Select /\ UNCHANGED table => IInv'
<1> SUFFICES ASSUME IInv, Select, UNCHANGED table PROVE IInv'
  OBVIOUS
<1>1. /\ TypeOK /\ TablesAgree /\ Loop
      /\ rset' \subseteq allset /\ rset' # {} /\ ret' = Cardinality(rset')
      /\ UNCHANGED <<table, cfds, allset, maxfd, maxindex, conn, waiting>>
  BY DEF IInv, TablesAgree, Select
<1>2. rset' \subseteq Fds \cup {ListenFd}
  BY <1>1 DEF TypeOK
<1>3. ret' \in 0..(NFds + 1) /\ ret' > 0 /\ IsFiniteSet(rset')
  BY <1>1, <1>2, ReadyBounded, SizesAssumption
<1>4. \/ ListenFd \in rset' /\ pc' = "accept" /\ i' = i
      \/ ListenFd \notin rset' /\ pc' = "scan" /\ i' = First
  BY DEF Select
<1>5. TypeOK'
  <2>1. i' \in (IF table THEN 0..Size ELSE 0..(ListenFd + NFds + 1))
    BY <1>1, <1>4, SizesAssumption DEF TypeOK, First
  <2> QED
    BY <1>1, <1>2, <1>3, <1>4, <2>1 DEF TypeOK
<1>6. TablesAgree'
  BY <1>1, <1>5, TablesKept
<1>7. RetIsPending'
  <2> SUFFICES ASSUME table, pc' = "scan"
               PROVE  ret' = Cardinality({k \in 0..maxindex : cfds[k] \in rset'})
    BY <1>1, <1>3, <1>4 DEF RetIsPending, First
  <2>1. rset' \subseteq Fds
    BY <1>2, <1>4
  <2>2. \A fd \in rset' : \E k \in 0..maxindex : cfds[k] = fd
    BY <1>1, <2>1 DEF TablesAgree
  <2>3. \A k, l \in 0..maxindex :
          cfds[k] \in rset' /\ cfds[l] = cfds[k] => k = l
    <3>1. -1 \notin Fds
      BY SizesAssumption DEF Fds
    <3>2. 0..maxindex \subseteq Indices
      BY <1>1, SizesAssumption DEF TypeOK, Indices
    <3> QED
      BY <1>1, <2>1, <3>1, <3>2 DEF TablesAgree
  <2>4. maxindex \in Int
    BY <1>1 DEF TypeOK, Indices
  <2> QED
    BY <1>1, <1>3, <2>2, <2>3, <2>4, OneSlotEach
<1>8. Loop'
  BY <1>1, <1>4 DEF Loop
<1> QED
  BY <1>6, <1>7, <1>8 DEF IInv

LEMMA ScanSkipInv == IInv /\ ScanSkip /\ UNCHANGED table => IInv'
<1> SUFFICES ASSUME IInv, ScanSkip, UNCHANGED table PROVE IInv'
  OBVIOUS
<1>1. /\ TypeOK /\ TablesAgree /\ RetIsPending /\ Loop /\ pc = "scan"
      /\ UNCHANGED <<table, cfds, allset, rset, ret, maxfd, maxindex, conn, waiting>>
  BY DEF IInv, TablesAgree, ScanSkip, Skip
<1>2. \/ i > Last /\ i' = i /\ pc' = "select"
      \/ ~(i > Last) /\ At(i) \notin rset /\ i' = i + 1 /\ pc' = "scan"
  BY DEF ScanSkip, Skip
<1>3. /\ maxindex \in Int /\ maxindex < Size /\ i \in Nat
      /\ maxfd \in Nat /\ maxfd <= ListenFd + NFds
  BY <1>1, SizesAssumption DEF TypeOK, Indices, Fds
<1>4. TypeOK'
  <2>1. i' \in (IF table THEN 0..Size ELSE 0..(ListenFd + NFds + 1))
    BY <1>1, <1>2, <1>3, SizesAssumption DEF TypeOK, Last
  <2> QED
    BY <1>1, <1>2, <2>1 DEF TypeOK
<1>5. TablesAgree'
  BY <1>1, <1>4, TablesKept
<1>6. RetIsPending'
  <2> SUFFICES ASSUME table, pc' = "scan"
               PROVE  /\ ret > 0
                      /\ ret = Cardinality(Pending(i + 1, maxindex, cfds))
    BY <1>1, <1>2 DEF RetIsPending, Pending
  <2>1. i <= maxindex /\ cfds[i] \notin rset
    BY <1>2, <1>3 DEF Last, At
  <2>2. Cardinality(Pending(i + 1, maxindex, cfds))
          = Cardinality(Pending(i, maxindex, cfds))
    BY <1>3, <2>1, PendingStep
  <2> QED
    BY <1>1, <2>2 DEF RetIsPending, Pending
<1>7. Loop'
  BY <1>1, <1>2 DEF Loop
<1> QED
  BY <1>5, <1>6, <1>7 DEF IInv

\* The place of the loop when the descriptor at i is ready.
LEMMA AtReady ==
  ASSUME IInv, pc \in {"scan", "write"}, i <= Last, NEW fd \in Fds,
         fd = At(i), fd \in rset
  PROVE  /\ i + 1 \in (IF table THEN 0..Size ELSE 0..(ListenFd + NFds + 1))
         /\ table => i \in Indices /\ i <= maxindex /\ cfds[i] = fd /\ conn[fd].open
<1>1. TypeOK /\ TablesAgree
  BY DEF IInv, TablesAgree
<1>2. CASE table
  <2>1. i \in Indices /\ i <= maxindex /\ cfds[i] = fd
    BY <1>1, <1>2, SizesAssumption DEF TypeOK, Last, At, Indices
  <2>2. fd # -1
    BY SizesAssumption DEF Fds
  <2> QED
    BY <1>1, <1>2, <2>1, <2>2, SizesAssumption DEF TablesAgree, Indices
<1>3. CASE ~table
  BY <1>3, SizesAssumption DEF At, Fds
<1> QED
  BY <1>1, <1>2, <1>3 DEF TypeOK

\* Counting down at a descriptor keeps ret right: one less is pending, and the
\* loop is left when none is.
LEMMA CountDownPending ==
  ASSUME IInv, table, pc \in {"scan", "write"}, i \in Indices, i <= maxindex,
         cfds[i] \in rset, CountDown, UNCHANGED <<table, rset, maxindex>>,
         \A k \in (i + 1)..maxindex : cfds'[k] = cfds[k]
  PROVE  /\ ret' \in 0..(NFds + 1)
         /\ RetIsPending'
<1>1. /\ ret = Cardinality(Pending(i, maxindex, cfds)) /\ ret > 0
      /\ ret' = ret - 1 /\ i' = i + 1 /\ pc' = IF ret' = 0 THEN "select" ELSE "scan"
  BY DEF IInv, RetIsPending, Pending, CountDown
<1>2. i \in Int /\ maxindex \in Int /\ ret \in 0..(NFds + 1)
  BY DEF IInv, TablesAgree, TypeOK, Indices
<1>3. Cardinality(Pending(i + 1, maxindex, cfds')) = ret - 1
  BY <1>1, <1>2, PendingStep
<1>4. RetIsPending'
  BY <1>1, <1>2, <1>3 DEF RetIsPending, Pending
<1> QED
  BY <1>1, <1>2, <1>4, SizesAssumption

LEMMA ScanCloseInv ==
  ASSUME IInv, NEW fd \in Fds, ScanClose(fd), UNCHANGED table
  PROVE  IInv'
<1>1. /\ TypeOK /\ TablesAgree /\ RetIsPending /\ Loop /\ ScanAt(fd) /\ CountDown
      /\ conn' = [conn EXCEPT ![fd] = Closed] /\ allset' = allset \ {fd}
      /\ cfds' = IF table THEN [cfds EXCEPT ![i] = -1] ELSE cfds
      /\ UNCHANGED <<table, rset, maxfd, maxindex, waiting>>
  BY DEF IInv, TablesAgree, ScanClose, Cleared
<1>2. /\ i + 1 \in (IF table THEN 0..Size ELSE 0..(ListenFd + NFds + 1))
      /\ table => i \in Indices /\ i <= maxindex /\ cfds[i] = fd /\ conn[fd].open
  BY <1>1, AtReady DEF ScanAt
<1>3. table => ret' \in 0..(NFds + 1) /\ RetIsPending'
  <2> HAVE table
  <2>1. \A k \in (i + 1)..maxindex : cfds'[k] = cfds[k]
    BY <1>1, <1>2, SizesAssumption DEF TypeOK, Indices
  <2> QED
    BY <1>1, <1>2, <2>1, CountDownPending DEF ScanAt
<1>4. ret' \in 0..(NFds + 1) /\ i' = i + 1 /\ pc' \in {"select", "scan"}
  BY <1>1, <1>3 DEF TypeOK, CountDown
<1>5. TypeOK'
  <2>1. cfds' \in [Indices -> Fds \cup {-1}]
    BY <1>1 DEF TypeOK
  <2>2. conn' \in [Fds -> [open : BOOLEAN, data : BOOLEAN,
                           gone : {"no", "fin", "reset"}, unread : 0..OutBuf]]
    BY <1>1, SizesAssumption DEF TypeOK, Closed
  <2> QED
    BY <1>1, <1>2, <1>4, <2>1, <2>2 DEF TypeOK
<1>6. TablesAgree'
  <2>1. \A f \in Fds : conn'[f].open <=> conn[f].open /\ f # fd
    BY <1>1 DEF TypeOK, Closed
  <2>2. \A f \in Fds : conn'[f].open <=> f \in allset'
    BY <1>1, <2>1 DEF TablesAgree
  <2>3. \A f \in allset' : f <= maxfd'
    BY <1>1 DEF TablesAgree
  <2>4. CASE table
    <3>1. \A k \in Indices : cfds'[k] = IF k = i THEN -1 ELSE cfds[k]
      BY <1>1, <2>4 DEF TypeOK
    <3>2. \A k \in Indices : k # i => cfds[k] # fd
      BY <1>1, <1>2, <2>4, SizesAssumption DEF TablesAgree, Fds
    <3>3. \A k \in Indices : cfds'[k] # -1 =>
            cfds'[k] = cfds[k] /\ cfds[k] \in Fds /\ cfds[k] # fd
      BY <1>1, <3>1, <3>2 DEF TypeOK
    <3>4. \A f \in Fds : conn'[f].open => \E k \in 0..maxindex : cfds'[k] = f
      <4> SUFFICES ASSUME NEW f \in Fds, conn[f].open, f # fd
                   PROVE  \E k \in 0..maxindex : cfds'[k] = f
        BY <2>1
      <4>1. PICK k \in 0..maxindex : cfds[k] = f
        BY <1>1, <2>4 DEF TablesAgree
      <4>2. k \in Indices /\ k # i
        BY <1>1, <1>2, <2>4, <4>1, SizesAssumption DEF TypeOK, Indices
      <4> QED
        BY <3>1, <4>1, <4>2
    <3>5. \A k, l \in Indices : cfds'[k] # -1 =>
            conn'[cfds'[k]].open /\ (cfds'[l] = cfds'[k] => k = l)
      BY <1>1, <2>1, <3>1, <3>3 DEF TablesAgree
    <3> QED
      BY <1>1, <1>5, <2>2, <2>3, <3>4, <3>5 DEF TablesAgree
  <2>5. CASE ~table
    BY <1>1, <1>5, <2>2, <2>3, <2>5 DEF TablesAgree, Loop
  <2> QED
    BY <2>4, <2>5
<1>7. RetIsPending' /\ Loop'
  BY <1>1, <1>3, <1>4 DEF RetIsPending, Loop
<1> QED
  BY <1>6, <1>7 DEF IInv

LEMMA ScanFailsInv ==
  ASSUME IInv, NEW fd \in Fds, ScanFails(fd), UNCHANGED table
  PROVE  IInv'
<1>1. /\ TypeOK /\ TablesAgree /\ Loop /\ pc' = "exited"
      /\ UNCHANGED <<table, cfds, allset, rset, ret, maxfd, maxindex, i, conn, waiting>>
  BY DEF IInv, TablesAgree, ScanFails
<1>2. TypeOK'
  BY <1>1 DEF TypeOK
<1>3. TablesAgree'
  BY <1>1, <1>2, TablesKept
<1> QED
  BY <1>1, <1>3 DEF IInv, RetIsPending, Loop

LEMMA ScanReadInv ==
  ASSUME IInv, NEW fd \in Fds, ScanRead(fd), UNCHANGED table
  PROVE  IInv'
<1>1. /\ TypeOK /\ TablesAgree /\ RetIsPending /\ Loop /\ ScanAt(fd) /\ pc' = "write"
      /\ UNCHANGED <<table, cfds, allset, rset, ret, maxfd, maxindex, i, waiting>>
  BY DEF IInv, TablesAgree, ScanRead
<1>2. /\ conn' \in [Fds -> [open : BOOLEAN, data : BOOLEAN,
                            gone : {"no", "fin", "reset"}, unread : 0..OutBuf]]
      /\ \A f \in Fds : conn'[f].open = conn[f].open
  BY <1>1 DEF TypeOK, ScanRead
<1>3. TypeOK'
  BY <1>1, <1>2 DEF TypeOK
<1>4. TablesAgree'
  BY <1>1, <1>2, <1>3, TablesKept
<1>5. RetIsPending' /\ Loop'
  BY <1>1 DEF RetIsPending, Loop, ScanAt, Last, At
<1> QED
  BY <1>4, <1>5 DEF IInv

LEMMA WriteInv ==
  ASSUME IInv, NEW fd \in Fds, Write(fd), UNCHANGED table
  PROVE  IInv'
<1>1. /\ TypeOK /\ TablesAgree /\ RetIsPending /\ Loop
      /\ pc = "write" /\ fd = At(i) /\ i <= Last /\ fd \in rset
      /\ UNCHANGED <<table, cfds, allset, rset, maxfd, maxindex, waiting>>
  BY DEF IInv, TablesAgree, Write, Loop
<1>2. /\ i + 1 \in (IF table THEN 0..Size ELSE 0..(ListenFd + NFds + 1))
      /\ table => i \in Indices /\ i <= maxindex /\ cfds[i] = fd
  BY <1>1, AtReady
<1>3. /\ conn' \in [Fds -> [open : BOOLEAN, data : BOOLEAN,
                            gone : {"no", "fin", "reset"}, unread : 0..OutBuf]]
      /\ \A f \in Fds : conn'[f].open = conn[f].open
  BY <1>1, SizesAssumption DEF TypeOK, Write
<1>4. CASE CountDown
  <2>1. table => ret' \in 0..(NFds + 1) /\ RetIsPending'
    BY <1>1, <1>2, <1>4, CountDownPending
  <2>2. ret' \in 0..(NFds + 1) /\ i' = i + 1 /\ pc' \in {"select", "scan"}
    BY <1>1, <1>4, <2>1 DEF TypeOK, CountDown
  <2>3. TypeOK'
    BY <1>1, <1>2, <1>3, <2>2 DEF TypeOK
  <2>4. TablesAgree'
    BY <1>1, <1>3, <2>3, TablesKept
  <2>5. RetIsPending' /\ Loop'
    BY <1>1, <2>1, <2>2 DEF RetIsPending, Loop
  <2> QED
    BY <2>4, <2>5 DEF IInv
<1>5. CASE pc' = "exited" /\ UNCHANGED <<ret, i>>
  <2>1. TypeOK'
    BY <1>1, <1>3, <1>5 DEF TypeOK
  <2>2. TablesAgree'
    BY <1>1, <1>3, <2>1, TablesKept
  <2> QED
    BY <1>1, <1>5, <2>2 DEF IInv, RetIsPending, Loop
<1> QED
  BY <1>4, <1>5 DEF Write

LEMMA FreeFdFound ==
  ASSUME TypeOK, FreeFds # {}
  PROVE  Least(FreeFds) \in Fds /\ ~conn[Least(FreeFds)].open
<1>1. FreeFds \in SUBSET Nat
  BY SizesAssumption DEF FreeFds, Fds
<1> QED
  BY <1>1, LeastIn DEF FreeFds

LEMMA FreeIndexFound ==
  ASSUME TypeOK, FreeIndices # {}
  PROVE  Least(FreeIndices) \in Indices /\ cfds[Least(FreeIndices)] = -1
<1>1. FreeIndices \in SUBSET Nat
  BY SizesAssumption DEF FreeIndices, Indices
<1>2. Least(FreeIndices) \in FreeIndices
  BY <1>1, LeastIn
<1> QED
  BY <1>2, SizesAssumption DEF FreeIndices, TypeOK, Fds

\* A new connection: its descriptor was free, so that nothing in rset is it, and
\* it is in one free slot, which maxindex reaches.
LEMMA AcceptInv == IInv /\ Accept /\ UNCHANGED table => IInv'
<1> SUFFICES ASSUME IInv, Accept, UNCHANGED table PROVE IInv'
  OBVIOUS
<1>1. /\ TypeOK /\ TablesAgree /\ Loop /\ pc = "accept" /\ rset' = rset
      /\ ListenFd \in rset /\ rset \subseteq allset /\ ret = Cardinality(rset)
  BY DEF IInv, TablesAgree, Accept, Loop
<1>2. CASE /\ pc' = "exited"
           /\ UNCHANGED <<cfds, allset, ret, maxfd, maxindex, i, conn, waiting>>
  <2>1. TypeOK'
    BY <1>1, <1>2 DEF TypeOK
  <2>2. TablesAgree'
    BY <1>1, <1>2, <2>1, TablesKept
  <2> QED
    BY <1>1, <1>2, <2>2 DEF IInv, RetIsPending, Loop
<1>3. ASSUME ~Full, pc' # "exited" PROVE IInv'
  <2> DEFINE cfd == Least(FreeFds)
             slot == Least(FreeIndices)
  <2>1. /\ conn' = [conn EXCEPT ![cfd] = [Closed EXCEPT !.open = TRUE]]
        /\ allset' = allset \cup {cfd} /\ maxfd' = Greater(maxfd, cfd)
        /\ EnterTable(cfd) /\ ret' = RetAfterAccept /\ i' = First
        /\ pc' = (IF ret = 1 THEN "select" ELSE "scan") /\ waiting' = FALSE
    BY <1>3 DEF Accept
  <2>2. cfd \in Fds /\ ~conn[cfd].open
    BY <1>1, <1>3, FreeFdFound DEF Full
  <2>3. table => slot \in Indices /\ cfds[slot] = -1
    BY <1>1, <1>3, FreeIndexFound DEF Full
  <2>4. table => /\ cfds' = [cfds EXCEPT ![slot] = cfd]
                 /\ maxindex' = Greater(maxindex, slot)
    BY <2>1 DEF EnterTable
  <2>5. ~table => UNCHANGED <<cfds, maxindex>>
    BY <2>1 DEF EnterTable
  <2> HIDE DEF cfd, slot
  <2>6. cfd \notin rset /\ cfd \notin allset
    BY <1>1, <2>2 DEF TablesAgree
  <2>7. ret \in 1..(NFds + 1) /\ IsFiniteSet(rset)
    <3>1. rset \subseteq Fds \cup {ListenFd}
      BY <1>1 DEF TypeOK
    <3>2. IsFiniteSet(rset) /\ ret \in 0..(NFds + 1)
      BY <1>1, <3>1, ReadyBounded
    <3>3. ret # 0
      BY <1>1, <3>1, ReadyBounded
    <3> QED
      BY <3>2, <3>3, SizesAssumption
  <2>8. TypeOK'
    <3>1. cfds' \in [Indices -> Fds \cup {-1}]
      BY <1>1, <2>2, <2>4, <2>5 DEF TypeOK
    <3>2. conn' \in [Fds -> [open : BOOLEAN, data : BOOLEAN,
                             gone : {"no", "fin", "reset"}, unread : 0..OutBuf]]
      <4>1. [Closed EXCEPT !.open = TRUE] \in
              [open : BOOLEAN, data : BOOLEAN, gone : {"no", "fin", "reset"},
               unread : 0..OutBuf]
        <5>1. Closed \in [open : BOOLEAN, data : BOOLEAN,
                          gone : {"no", "fin", "reset"}, unread : 0..OutBuf]
          BY SizesAssumption DEF Closed
        <5> QED
          BY <5>1
      <4> QED
        BY <1>1, <2>1, <4>1 DEF TypeOK
    <3>3. maxfd' \in {ListenFd} \cup Fds /\ maxindex' \in Indices \cup {-1}
      BY <1>1, <2>1, <2>2, <2>3, <2>4, <2>5 DEF TypeOK, Greater
    <3>4. ret' \in 0..(NFds + 1)
      BY <1>1, <2>1, <2>7, SizesAssumption DEF TypeOK, RetAfterAccept
    <3>5. i' \in (IF table THEN 0..Size ELSE 0..(ListenFd + NFds + 1))
      BY <2>1, SizesAssumption DEF First
    <3> QED
      BY <1>1, <2>1, <2>2, <3>1, <3>2, <3>3, <3>4, <3>5 DEF TypeOK
  <2>9. TablesAgree'
    <3>1. \A fd \in Fds : conn'[fd].open <=> conn[fd].open \/ fd = cfd
      BY <1>1, <2>1 DEF TypeOK, Closed
    <3>2. \A fd \in Fds : conn'[fd].open <=> fd \in allset'
      BY <1>1, <2>1, <3>1 DEF TablesAgree
    <3>3. maxfd' >= maxfd /\ maxfd' >= cfd
      BY <1>1, <2>1, <2>2, SizesAssumption DEF TypeOK, Greater, Fds
    <3>4. \A fd \in allset' : fd <= maxfd'
      <4>1. allset \subseteq Int /\ maxfd \in Int /\ maxfd' \in Int
        BY <1>1, <2>8, SizesAssumption DEF TypeOK, Fds
      <4> QED
        BY <1>1, <2>1, <3>3, <4>1 DEF TablesAgree
    <3>5. CASE table
      <4>1. maxindex' >= maxindex /\ maxindex' >= slot
        BY <1>1, <2>3, <2>4, <3>5, SizesAssumption DEF TypeOK, Greater, Indices
      <4>2. maxindex \in Int /\ maxindex' \in Int /\ slot \in Nat
        BY <1>1, <2>3, <2>8, <3>5 DEF TypeOK, Indices
      <4>3. \A k \in Indices : cfds'[k] = IF k = slot THEN cfd ELSE cfds[k]
        BY <1>1, <2>4, <3>5 DEF TypeOK
      <4>4. \A k \in Indices : cfds[k] # cfd
        BY <1>1, <2>2, SizesAssumption DEF TablesAgree, Fds
      <4>5. \A fd \in Fds : conn'[fd].open => \E k \in 0..maxindex' : cfds'[k] = fd
        <5> SUFFICES ASSUME NEW fd \in Fds, conn'[fd].open
                     PROVE  \E k \in 0..maxindex' : cfds'[k] = fd
          OBVIOUS
        <5>1. CASE fd = cfd
          BY <2>3, <3>5, <4>1, <4>2, <4>3, <5>1
        <5>2. CASE fd # cfd
          <6>1. PICK k \in 0..maxindex : cfds[k] = fd
            BY <1>1, <3>1, <3>5, <5>2 DEF TablesAgree
          <6>2. k \in Indices /\ k # slot
            <7>1. fd # -1
              BY SizesAssumption DEF Fds
            <7> QED
              BY <1>1, <2>3, <3>5, <6>1, <7>1, SizesAssumption DEF TypeOK, Indices
          <6> QED
            BY <4>1, <4>2, <4>3, <6>1, <6>2
        <5> QED
          BY <5>1, <5>2
      <4>6. \A k, l \in Indices : cfds'[k] # -1 =>
              conn'[cfds'[k]].open /\ (cfds'[l] = cfds'[k] => k = l)
        <5> SUFFICES ASSUME NEW k \in Indices, NEW l \in Indices, cfds'[k] # -1
                     PROVE  conn'[cfds'[k]].open /\ (cfds'[l] = cfds'[k] => k = l)
          OBVIOUS
        <5>1. CASE k = slot
          BY <2>2, <3>1, <4>3, <4>4, <5>1
        <5>2. CASE k # slot
          <6>1. cfds'[k] = cfds[k] /\ cfds[k] \in Fds /\ cfds[k] # cfd
            BY <1>1, <4>3, <4>4, <5>2 DEF TypeOK
          <6> QED
            BY <1>1, <3>1, <4>3, <6>1 DEF TablesAgree
        <5> QED
          BY <5>1, <5>2
      <4> QED
        BY <2>8, <3>2, <3>4, <4>5, <4>6 DEF TablesAgree
    <3>6. CASE ~table
      BY <1>1, <2>5, <2>8, <3>2, <3>4, <3>6 DEF TablesAgree, Loop
    <3> QED
      BY <3>5, <3>6
  <2>10. RetIsPending'
    <3> SUFFICES ASSUME table, pc' = "scan" PROVE RetIsPending'
      BY <2>1 DEF RetIsPending
    <3> DEFINE R == rset \ {ListenFd}
    <3>1. ret' = ret - 1 /\ ret # 1 /\ i' = 0
      BY <2>1 DEF RetAfterAccept, First
    <3>2. IsFiniteSet(R) /\ Cardinality(R) = ret'
      BY <1>1, <2>7, <3>1, FS_RemoveElement
    <3>3. R \subseteq Fds /\ R \subseteq allset' /\ ListenFd \notin Fds
      BY <1>1, <2>1, SizesAssumption DEF TypeOK, Fds
    <3>4. \A fd \in R : \E k \in 0..maxindex' : cfds'[k] = fd
      BY <2>9, <3>3 DEF TablesAgree
    <3>5. 0..maxindex' \subseteq Indices /\ maxindex' \in Int
      BY <2>8, SizesAssumption DEF TypeOK, Indices
    <3>6. \A k, l \in 0..maxindex' :
            cfds'[k] \in R /\ cfds'[l] = cfds'[k] => k = l
      <4>1. -1 \notin Fds
        BY SizesAssumption DEF Fds
      <4> QED
        BY <2>9, <3>3, <3>5, <4>1 DEF TablesAgree
    <3> HIDE DEF R
    <3>7. Cardinality({k \in 0..maxindex' : cfds'[k] \in R}) = Cardinality(R)
      BY <3>2, <3>4, <3>5, <3>6, OneSlotEach
    <3>8. {k \in 0..maxindex' : cfds'[k] \in R} = {k \in 0..maxindex' : cfds'[k] \in rset}
      <4>1. ListenFd # -1
        BY SizesAssumption
      <4>2. \A k \in 0..maxindex' : cfds'[k] # ListenFd
        BY <2>8, <3>3, <3>5, <4>1 DEF TypeOK
      <4> QED
        BY <4>2 DEF R
    <3> QED
      BY <1>1, <2>7, <3>1, <3>2, <3>7, <3>8 DEF RetIsPending
  <2>11. Loop'
    BY <1>1, <2>1, <2>5 DEF Loop
  <2> QED
    BY <2>9, <2>10, <2>11 DEF IInv
<1>4. CASE ~Full /\ pc' = (IF ret = 1 THEN "select" ELSE "scan")
  BY <1>3, <1>4
<1> QED
  BY <1>2, <1>4 DEF Accept

LEMMA NextInv == IInv /\ [Next]_vars => IInv'
<1> SUFFICES ASSUME IInv, [Next]_vars PROVE IInv'
  OBVIOUS
<1>1. CASE Clients
  BY <1>1, ClientsInv
<1>2. CASE Server
  BY <1>2, SelectInv, AcceptInv, ScanSkipInv, ScanCloseInv, ScanFailsInv, ScanReadInv,
     WriteInv DEF Server
<1>3. CASE UNCHANGED vars
  <2>1. UNCHANGED <<table, mainVars, conn, waiting>>
    BY <1>3 DEF vars, mainVars
  <2> QED
    BY <2>1 DEF IInv, TablesAgree, TypeOK, RetIsPending, Loop, Last, At, mainVars
<1> QED
  BY <1>1, <1>2, <1>3 DEF Next

LEMMA Invariance == Spec => []IInv
BY InitInv, NextInv, PTL DEF Spec

-----------------------------------------------------------------------------

\* allset, maxfd, cfds and maxindex agree with the connections that are open, for
\* any number of descriptors and of slots, in the program with the table and in
\* the one without it (server2.c:59-83, 109-114).
THEOREM Tables == Spec => []TablesAgree
BY Invariance, PTL DEF IInv

\* ret is the number of ready descriptors the loop has not come to, whoever sends,
\* leaves or connects while it runs: the break of server2.c:126 leaves out none.
THEOREM RetExact == Spec => []RetIsPending
BY Invariance, PTL DEF IInv

=============================================================================
