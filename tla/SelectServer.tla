---------------------------- MODULE SelectServer ----------------------------
(***************************************************************************)
(* seclect/server2.c and seclect/server.c: one thread multiplexes its      *)
(* connections with select and answers what it reads in upper case.  With  *)
(* the table (server2.c) cfds, allset, maxfd and maxindex are kept by      *)
(* hand, and ret counts down the descriptors select reported; without it   *)
(* (server.c) the loop tries every descriptor up to maxfd.                 *)
(*                                                                         *)
(* data says whether something can be read, gone how the client left; an   *)
(* answer is one unit, of which a socket holds at most OutBuf until the    *)
(* client reads.                                                           *)
(***************************************************************************)
EXTENDS Integers, FiniteSets

CONSTANTS
  ListenFd,       \* the first descriptor; accept returns the lowest free one
  NFds,           \* bound: descriptors beyond it, that accept can return
  Size,           \* entries of cfds, 1024 in the program
  OutBuf,         \* bound: answers a client has not read
  Resets          \* whether clients reset their connections

ASSUME SizesAssumption ==
  /\ ListenFd \in Nat /\ NFds \in Nat /\ Size \in Nat \ {0}
  /\ OutBuf \in Nat \ {0} /\ Resets \in BOOLEAN

VARIABLES
  table,                                        \* which of the two programs runs
  cfds, allset, rset, ret, maxfd, maxindex,     \* main's variables
  pc, i,          \* where main is, and the index of its loop
  conn,           \* descriptor -> the connection behind it
  waiting         \* whether a connection waits to be accepted

vars == <<table, cfds, allset, rset, ret, maxfd, maxindex, pc, i, conn, waiting>>

Fds == (ListenFd + 1)..(ListenFd + NFds)
Indices == 0..(Size - 1)
Closed == [open |-> FALSE, data |-> FALSE, gone |-> "no", unread |-> 0]

Init ==
  /\ table \in BOOLEAN
  /\ cfds = [k \in Indices |-> -1]
  /\ allset = {ListenFd} /\ rset = {} /\ ret = 0
  /\ maxfd = ListenFd /\ maxindex = -1
  /\ pc = "select" /\ i = 0
  /\ conn = [fd \in Fds |-> Closed] /\ waiting = FALSE

-----------------------------------------------------------------------------
(* The clients *)

mainVars == <<cfds, allset, rset, ret, maxfd, maxindex, pc, i>>

ClientConnects ==
  /\ ~waiting /\ waiting' = TRUE
  /\ UNCHANGED <<mainVars, conn>>

ClientSends(fd) ==
  /\ conn[fd].open /\ conn[fd].gone = "no"
  /\ conn' = [conn EXCEPT ![fd].data = TRUE]
  /\ UNCHANGED <<mainVars, waiting>>

ClientReads(fd) ==
  /\ conn[fd].unread > 0
  /\ conn' = [conn EXCEPT ![fd].unread = @ - 1]
  /\ UNCHANGED <<mainVars, waiting>>

\* A FIN comes after the data, a reset may lose it.
ClientLeaves(fd) ==
  /\ conn[fd].open /\ conn[fd].gone = "no"
  /\ \/ conn' = [conn EXCEPT ![fd].gone = "fin"]
     \/ /\ Resets
        /\ \E d \in {conn[fd].data, FALSE} :
             conn' = [conn EXCEPT ![fd].gone = "reset", ![fd].data = d]
  /\ UNCHANGED <<mainVars, waiting>>

-----------------------------------------------------------------------------
(* main *)

Ready(fd) ==
  IF fd = ListenFd THEN waiting ELSE conn[fd].data \/ conn[fd].gone # "no"

\* The first and the last index of the loop, and the descriptor at one.
First == IF table THEN 0 ELSE ListenFd + 1
Last == IF table THEN maxindex ELSE maxfd
At(k) == IF table THEN cfds[k] ELSE k

Select ==
  /\ pc = "select"
  /\ rset' = {fd \in allset : fd <= maxfd /\ Ready(fd)}
  /\ rset' # {}
  /\ ret' = Cardinality(rset')
  /\ IF ListenFd \in rset' THEN pc' = "accept" /\ UNCHANGED i
     ELSE pc' = "scan" /\ i' = First
  /\ UNCHANGED <<cfds, allset, maxfd, maxindex, conn, waiting>>

FreeFds == {fd \in Fds : ~conn[fd].open}

FreeIndices == {k \in Indices : cfds[k] < 0}
Least(S) == CHOOSE x \in S : \A y \in S : x <= y
Greater(a, b) == IF a < b THEN b ELSE a

\* Mutant: the accepted connection is not counted.
RetAfterAcceptSame == ret

RetAfterAccept == IF table THEN ret - 1 ELSE ret

\* A slot of cfds, only in server2.c.
EnterTable(cfd) ==
  IF table
  THEN /\ cfds' = [cfds EXCEPT ![Least(FreeIndices)] = cfd]
       /\ maxindex' = Greater(maxindex, Least(FreeIndices))
  ELSE UNCHANGED <<cfds, maxindex>>

Full == FreeFds = {} \/ (table /\ FreeIndices = {})

\* Accept, a slot, FD_SET and the maxima; the program ends when no descriptor or
\* no slot is left.
Accept ==
  /\ pc = "accept"
  /\ \/ /\ Full
        /\ pc' = "exited"
        /\ UNCHANGED <<cfds, allset, ret, maxfd, maxindex, i, conn, waiting>>
     \/ /\ ~Full
        /\ waiting' = FALSE
        /\ LET cfd == Least(FreeFds)
           IN /\ conn' = [conn EXCEPT ![cfd] = [Closed EXCEPT !.open = TRUE]]
              /\ allset' = allset \cup {cfd}
              /\ maxfd' = Greater(maxfd, cfd)
              /\ EnterTable(cfd)
        /\ ret' = RetAfterAccept
        /\ pc' = IF ret = 1 THEN "select" ELSE "scan"
        /\ i' = First
  /\ UNCHANGED rset

\* Mutant: --ret for every slot, as in the lines commented out at 133.
SkipCounts ==
  /\ ret' = IF table /\ i <= Last /\ At(i) > 0 THEN ret - 1 ELSE ret
  /\ pc' = IF (i > Last \/ ret' = 0) THEN "select" ELSE "scan"

Skip ==
  /\ pc' = IF i > Last THEN "select" ELSE "scan"
  /\ UNCHANGED ret

\* A descriptor that is not ready, or no descriptor, and the end of the loop.
ScanSkip ==
  /\ pc = "scan"
  /\ i > Last \/ At(i) \notin rset
  /\ i' = IF i > Last THEN i ELSE i + 1
  /\ Skip
  /\ UNCHANGED <<cfds, allset, rset, maxfd, maxindex, conn, waiting>>

\* if(--ret == 0) break; only in server2.c.
CountDown ==
  /\ ret' = IF table THEN ret - 1 ELSE ret
  /\ pc' = IF ret' = 0 THEN "select" ELSE "scan"
  /\ i' = i + 1

ScanAt(fd) == pc = "scan" /\ i <= Last /\ fd = At(i) /\ fd \in rset

\* Mutant: FD_CLR is missing.
ClearedNot(fd) == allset

Cleared(fd) == allset \ {fd}

\* Read returns 0.
ScanClose(fd) ==
  /\ ScanAt(fd)
  /\ ~conn[fd].data /\ conn[fd].gone = "fin"
  /\ conn' = [conn EXCEPT ![fd] = Closed]
  /\ cfds' = IF table THEN [cfds EXCEPT ![i] = -1] ELSE cfds
  /\ allset' = Cleared(fd)
  /\ CountDown
  /\ UNCHANGED <<rset, maxfd, maxindex, waiting>>

\* Read exits when read fails.
ScanFails(fd) ==
  /\ ScanAt(fd)
  /\ ~conn[fd].data /\ conn[fd].gone = "reset"
  /\ pc' = "exited"
  /\ UNCHANGED <<cfds, allset, rset, ret, maxfd, maxindex, i, conn, waiting>>

\* Read returns data: sizeof(buf) is the size of a pointer in server2.c, so that a
\* part of it may stay.
ScanRead(fd) ==
  /\ ScanAt(fd)
  /\ conn[fd].data
  /\ \E rest \in BOOLEAN : conn' = [conn EXCEPT ![fd].data = rest]
  /\ pc' = "write"
  /\ UNCHANGED <<cfds, allset, rset, ret, maxfd, maxindex, i, waiting>>

\* write waits for room; to a client that is gone it fails, which is ignored, or
\* raises SIGPIPE if the connection was reset.
Write(fd) ==
  /\ pc = "write" /\ fd = At(i)
  /\ \/ /\ conn[fd].gone # "reset" /\ conn[fd].unread < OutBuf
        /\ conn' = [conn EXCEPT ![fd].unread = @ + 1]
        /\ CountDown
     \/ /\ conn[fd].gone = "reset"
        /\ CountDown /\ UNCHANGED conn
     \/ /\ conn[fd].gone = "reset"
        /\ pc' = "exited" /\ UNCHANGED <<ret, i, conn>>
  /\ UNCHANGED <<cfds, allset, rset, maxfd, maxindex, waiting>>

Server ==
  /\ \/ Select \/ Accept \/ ScanSkip
     \/ \E fd \in Fds :
          ScanClose(fd) \/ ScanFails(fd) \/ ScanRead(fd) \/ Write(fd)
  /\ UNCHANGED table

Clients ==
  /\ \/ ClientConnects
     \/ \E fd \in Fds : ClientSends(fd) \/ ClientReads(fd) \/ ClientLeaves(fd)
  /\ UNCHANGED table

Next == Server \/ Clients

Spec == Init /\ [][Next]_vars

\* main runs on, and clients read what they are sent.
FairSpec ==
  /\ Spec
  /\ WF_vars(Server)
  /\ \A fd \in Fds : WF_vars(ClientReads(fd) /\ UNCHANGED table)

-----------------------------------------------------------------------------
(* Properties *)

TypeOK ==
  /\ table \in BOOLEAN
  /\ cfds \in [Indices -> Fds \cup {-1}]
  /\ allset \subseteq Fds \cup {ListenFd} /\ rset \subseteq Fds \cup {ListenFd}
  /\ ret \in 0..(NFds + 1)
  /\ maxfd \in {ListenFd} \cup Fds /\ maxindex \in Indices \cup {-1}
  /\ pc \in {"select", "accept", "scan", "write", "exited"}
  /\ i \in (IF table THEN 0..Size ELSE 0..(ListenFd + NFds + 1))
  /\ conn \in [Fds -> [open : BOOLEAN, data : BOOLEAN,
                       gone : {"no", "fin", "reset"}, unread : 0..OutBuf]]
  /\ waiting \in BOOLEAN

\* The records of who is connected agree (server2.c:59-83, 109-114): an open
\* descriptor is in allset and within maxfd, and nothing else is; with the table
\* it has one slot of cfds, at most maxindex, and a slot is free or has it.
TablesAgree ==
  /\ TypeOK
  /\ \A fd \in Fds : conn[fd].open <=> fd \in allset
  /\ \A fd \in allset : fd <= maxfd
  /\ table => \A fd \in Fds :
       conn[fd].open => \E k \in 0..maxindex : cfds[k] = fd
  /\ \A k, l \in Indices :
       cfds[k] # -1 => conn[cfds[k]].open /\ (cfds[l] = cfds[k] => k = l)

\* While the loop of server2.c runs, ret is the number of ready descriptors it has
\* not come to (lines 85, 126): so the break leaves none of them out, and no round
\* ends with descriptors counted that were not there.
RetIsPending ==
  table /\ pc \in {"scan", "write"} =>
    /\ ret > 0
    /\ ret = Cardinality({k \in i..maxindex : cfds[k] \in rset})

\* Every connection that has something to read is read, the later slots too, with
\* ret counted at the right place (server2.c:125-136) and without (server.c:61-87).
EveryoneServed ==
  \A fd \in Fds :
    conn[fd].data ~>
      \/ pc = "write" /\ At(i) = fd
      \/ conn[fd].gone # "no" \/ pc = "exited"

=============================================================================
