------------------------------ MODULE PollServer ------------------------------
(***************************************************************************)
(* poll/pollServer.c: one thread multiplexes its connections with poll and *)
(* echoes what it reads.  pollfds[0] is the listening socket; max is meant *)
(* to be the last entry in use, and only grows.                            *)
(*                                                                         *)
(* pollfds is an array of main's stack, so that the revents of an entry    *)
(* poll has not come to is whatever was there: "unset".  An echo is one    *)
(* unit, of which a socket holds at most OutBuf until the client reads.    *)
(***************************************************************************)
EXTENDS Integers, FiniteSets

CONSTANTS
  Size,           \* OPEN_MAX, 1024 in the program
  NFds,           \* bound: descriptors that accept can return
  OutBuf          \* bound: echoes a client has not read

ASSUME SizesAssumption ==
  Size \in Nat \ {0} /\ NFds \in Nat /\ OutBuf \in Nat \ {0}

VARIABLES
  fds, revents,   \* pollfds[k].fd and pollfds[k].revents
  max,
  pc, i,          \* where main is, and the index of its loop
  conn,           \* descriptor -> the connection behind it
  waiting         \* whether a connection waits to be accepted

mainVars == <<fds, revents, max, pc, i>>
vars == <<mainVars, conn, waiting>>

Fds == 1..NFds
Slots == 1..(Size - 1)
Closed == [open |-> FALSE, data |-> FALSE, gone |-> "no", unread |-> 0]

Init ==
  /\ fds = [k \in Slots |-> -1]
  /\ revents = [k \in 0..(Size - 1) |-> "unset"]
  /\ max = 0
  /\ pc = "poll" /\ i = 0
  /\ conn = [fd \in Fds |-> Closed] /\ waiting = FALSE

-----------------------------------------------------------------------------
(* The clients *)

ClientConnects ==
  /\ ~waiting /\ waiting' = TRUE
  /\ UNCHANGED <<mainVars, conn>>

ClientSends(fd) ==
  /\ conn[fd].open /\ conn[fd].gone = "no"
  /\ conn' = [conn EXCEPT ![fd].data = TRUE]
  /\ UNCHANGED <<mainVars, waiting>>

ClientReads(fd) ==
  /\ conn[fd].unread > 0
  /\ conn' = [conn EXCEPT ![fd].unread = @ - 1]
  /\ UNCHANGED <<mainVars, waiting>>

ClientLeaves(fd) ==
  /\ conn[fd].open /\ conn[fd].gone = "no"
  /\ \E how \in {"fin", "reset"} : conn' = [conn EXCEPT ![fd].gone = how]
  /\ UNCHANGED <<mainVars, waiting>>

-----------------------------------------------------------------------------
(* main *)

\* What poll reports: "in" is POLLIN alone, "more" POLLIN with POLLERR and
\* POLLHUP, which a reset raises.  An entry with descriptor -1 gets no event.
Events(k) ==
  IF k = 0 THEN IF waiting THEN "in" ELSE "none"
  ELSE IF fds[k] = -1 THEN "none"
  ELSE LET c == conn[fds[k]] IN
       IF c.gone = "reset" THEN "more"
       ELSE IF c.data \/ c.gone = "fin" THEN "in" ELSE "none"

\* Mutant: max for the number of entries.
PolledShort == {0} \cup 0..(max - 1)

Polled == 0..max

\* poll returns once some entry has an event.
Poll ==
  /\ pc = "poll" /\ max < Size
  /\ \E k \in Polled : Events(k) # "none"
  /\ revents' = [k \in DOMAIN revents |->
                   IF k \in Polled THEN Events(k) ELSE revents[k]]
  /\ IF Events(0) = "in" THEN pc' = "accept" /\ UNCHANGED i
     ELSE pc' = "scan" /\ i' = 1
  /\ UNCHANGED <<fds, max, conn, waiting>>

FreeFds == {fd \in Fds : ~conn[fd].open}

FreeSlots == {k \in Slots : fds[k] = -1}
Least(S) == CHOOSE x \in S : \A y \in S : x <= y

\* The other entries with an event: what is left of nready.
OthersReady == {k \in 1..max : revents[k] \in {"in", "more"}}

\* Accept, the first free entry, if there is one, and max++ whatever it was.
Accept ==
  /\ pc = "accept"
  /\ \/ /\ FreeFds = {} /\ pc' = "exited"
        /\ UNCHANGED <<fds, max, i, conn, waiting>>
     \/ /\ FreeFds # {} /\ waiting' = FALSE
        /\ LET cfd == Least(FreeFds) IN
             /\ conn' = [conn EXCEPT ![cfd] = [Closed EXCEPT !.open = TRUE]]
             /\ fds' = IF FreeSlots = {} THEN fds
                       ELSE [fds EXCEPT ![Least(FreeSlots)] = cfd]
        /\ max' = max + 1
        /\ pc' = IF OthersReady = {} THEN "poll" ELSE "scan"
        /\ i' = 1
  /\ UNCHANGED revents

\* Neither poll(pollfds, max + 1, -1) nor the loop stops at the end of pollfds:
\* what follows is undefined.
Overrun ==
  /\ \/ pc = "poll" /\ max >= Size
     \/ pc = "scan" /\ i <= max /\ i >= Size
  /\ pc' = "undefined"
  /\ UNCHANGED <<fds, revents, max, i, conn, waiting>>

\* revents is not POLL_IN, and the end of the loop.
ScanSkip ==
  /\ pc = "scan"
  /\ \/ i > max /\ pc' = "poll"
     \/ i <= max /\ i < Size /\ revents[i] # "in" /\ pc' = "scan"
  /\ i' = i + 1
  /\ UNCHANGED <<fds, revents, max, conn, waiting>>

\* revents is POLL_IN, perhaps by accident.
ScanHit ==
  /\ pc = "scan" /\ i <= max /\ i < Size
  /\ revents[i] \in {"in", "unset"}
  /\ pc' = "read"
  /\ UNCHANGED <<fds, revents, max, i, conn, waiting>>

\* Mutant: the entry keeps its descriptor.
FdsAfterCloseSame == fds

FdsAfterClose == [fds EXCEPT ![i] = -1]

\* Mutant: max is lowered by every close.
MaxAfterCloseLess == max - 1

\* max only ever grows.
MaxAfterClose == max

\* Read returns 0.
ReadEof ==
  /\ pc = "read" /\ fds[i] # -1
  /\ ~conn[fds[i]].data /\ conn[fds[i]].gone = "fin"
  /\ conn' = [conn EXCEPT ![fds[i]] = Closed]
  /\ fds' = FdsAfterClose /\ max' = MaxAfterClose
  /\ pc' = "scan" /\ i' = i + 1
  /\ UNCHANGED <<revents, waiting>>

\* Read exits when read fails, so that the branch for ECONNRESET is never taken.
ReadFails ==
  /\ pc = "read"
  /\ fds[i] # -1 => ~conn[fds[i]].data /\ conn[fds[i]].gone = "reset"
  /\ pc' = "exited"
  /\ UNCHANGED <<fds, revents, max, i, conn, waiting>>

\* Read returns data, of which a part may stay.
ReadData ==
  /\ pc = "read" /\ fds[i] # -1
  /\ conn[fds[i]].data
  /\ \E rest \in BOOLEAN : conn' = [conn EXCEPT ![fds[i]].data = rest]
  /\ pc' = "write"
  /\ UNCHANGED <<fds, revents, max, i, waiting>>

\* write waits for room; after a reset it fails, which is ignored, or raises
\* SIGPIPE.
Write ==
  LET s == conn[fds[i]] IN
  /\ pc = "write"
  /\ \/ /\ s.gone # "reset" /\ s.unread < OutBuf
        /\ conn' = [conn EXCEPT ![fds[i]].unread = @ + 1]
        /\ pc' = "scan" /\ i' = i + 1
     \/ /\ s.gone = "reset" /\ UNCHANGED conn
        /\ \/ pc' = "scan" /\ i' = i + 1
           \/ pc' = "exited" /\ UNCHANGED i
  /\ UNCHANGED <<fds, revents, max, waiting>>

Server ==
  \/ Poll \/ Accept \/ Overrun \/ ScanSkip \/ ScanHit
  \/ ReadEof \/ ReadFails \/ ReadData \/ Write

Clients ==
  \/ ClientConnects
  \/ \E fd \in Fds : ClientSends(fd) \/ ClientReads(fd) \/ ClientLeaves(fd)

Next == Server \/ Clients

Spec == Init /\ [][Next]_vars

\* main runs on, and clients read what they are sent.
FairSpec ==
  /\ Spec
  /\ WF_vars(Server)
  /\ \A fd \in Fds : WF_vars(ClientReads(fd))

-----------------------------------------------------------------------------
(* Properties *)

Ended == pc \in {"exited", "undefined"}

TypeOK ==
  /\ fds \in [Slots -> Fds \cup {-1}]
  /\ revents \in [0..(Size - 1) -> {"unset", "none", "in", "more"}]
  /\ max \in 0..Size
  /\ pc \in {"poll", "accept", "scan", "read", "write", "exited", "undefined"}
  /\ i \in 0..(Size + 1)
  /\ conn \in [Fds -> [open : BOOLEAN, data : BOOLEAN,
                       gone : {"no", "fin", "reset"}, unread : 0..OutBuf]]
  /\ waiting \in BOOLEAN

\* Entries are reused while max only counts accepts (lines 55-64, 79-82): still,
\* as long as max is inside pollfds, every open connection has one entry, poll
\* is given it, and no entry holds a closed descriptor.
SlotsCover ==
  /\ TypeOK
  /\ max < Size =>
       /\ \A fd \in Fds : conn[fd].open => \E k \in 1..max : fds[k] = fd
       /\ \A k, l \in Slots :
            fds[k] # -1 => conn[fds[k]].open /\ (fds[l] = fds[k] => k = l)

\* Lines 74-77: what poll reported still holds when the loop comes to it, so that
\* Read neither waits, while nobody else is served, nor gets a descriptor of -1;
\* only an entry that poll had not set when the loop looked at it is an exception.
ReadHasWork ==
  pc = "read" /\ revents[i] # "unset" =>
    /\ fds[i] # -1
    /\ conn[fds[i]].data \/ conn[fds[i]].gone # "no"

\* Every connection that has something to read is read in the end, in whatever
\* entry it is, unless main waits in such a Read (lines 43, 72-77).
EveryoneServed ==
  \A fd \in Fds :
    conn[fd].data ~>
      \/ pc = "write" /\ fds[i] = fd
      \/ pc = "read" /\ revents[i] = "unset"
      \/ conn[fd].gone # "no" \/ Ended

=============================================================================
