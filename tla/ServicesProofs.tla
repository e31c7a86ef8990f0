--------------------------- MODULE ServicesProofs ---------------------------
(***************************************************************************)
(* Proofs about the command server and the controller hotkeys.             *)
(***************************************************************************)
EXTENDS Rpc, Joystick, SequenceLemmas

-----------------------------------------------------------------------------
(* Rpc, for every set of clients and every number of slots.                *)

\* A connection waits in the backlog or was taken from it.
BacklogIsQueued ==
    /\ \A c \in Clients : conn[c].server = "queued" <=> \E k \in DOMAIN backlog : backlog[k] = c
    /\ \A j, k \in DOMAIN backlog : backlog[j] = backlog[k] => j = k

\* A command that was sent is in the socket, or it was executed.
SentOrExecuted ==
    \A c \in Clients :
        /\ conn[c].unread => conn[c].sent
        /\ executed[c] = IF conn[c].sent /\ ~conn[c].unread THEN 1 ELSE 0

\* What was seen of a slot stays true while the slots are walked over: who hung up
\* is gone, and what is unread then was there to be read.
SeenIsTrue ==
    \A k \in DOMAIN polls :
        polls[k].hup => /\ polls[k].fd \in Clients
                        /\ conn[polls[k].fd].gone
                        /\ conn[polls[k].fd].unread => polls[k].in

\* A connection is closed for good, and empty.
ClosedIsEmpty ==
    \A c \in Clients : conn[c].server = "closed" => conn[c].gone /\ ~conn[c].unread

\* The inductive invariant.  That a closed connection was heard needs SeenIsTrue:
\* closing looks at revents only, and reading at the socket.
IInv ==
    /\ TypeOK
    /\ SlotsAreConnections
    /\ BacklogIsQueued
    /\ SentOrExecuted
    /\ SeenIsTrue
    /\ ClosedIsEmpty

-----------------------------------------------------------------------------
(* The slots. *)

\* Moving the last slot over slot j and dropping the last one.
LEMMA Removal ==
  ASSUME NEW s \in Seq(Slot), NEW j \in 1 .. Len(s)
  PROVE  /\ WithoutSlot(s, j) \in Seq(Slot)
         /\ Len(WithoutSlot(s, j)) = Len(s) - 1
         /\ \A k \in 1 .. Len(s) - 1 :
               WithoutSlot(s, j)[k] = IF k = j THEN s[Len(s)] ELSE s[k]
  <1> DEFINE u == [s EXCEPT ![j] = s[Len(s)]]
  <1>1. s[Len(s)] \in Slot
    OBVIOUS
  <1>2. u \in Seq(Slot) /\ Len(u) = Len(s)
    BY <1>1
  <1>3. \A k \in 1 .. Len(s) : u[k] = IF k = j THEN s[Len(s)] ELSE s[k]
    OBVIOUS
  <1> HIDE DEF u
  <1>4. WithoutSlot(s, j) = SubSeq(u, 1, Len(s) - 1)
    BY DEF u, WithoutSlot
  <1>5. Len(s) - 1 \in 0 .. Len(u)
    BY <1>2
  <1> QED
    BY <1>2, <1>3, <1>4, <1>5

\* A new slot behind the others.
LEMMA Appending ==
  ASSUME NEW s \in Seq(Slot), NEW x \in Slot
  PROVE  /\ Append(s, x) \in Seq(Slot)
         /\ Len(Append(s, x)) = Len(s) + 1
         /\ \A k \in 1 .. Len(s) : Append(s, x)[k] = s[k]
         /\ Append(s, x)[Len(s) + 1] = x
  OBVIOUS

\* Taking the first connection from the backlog.
LEMMA Taking ==
  ASSUME NEW s \in Seq(Clients), s # <<>>
  PROVE  /\ Head(s) = s[1] /\ Head(s) \in Clients
         /\ Tail(s) \in Seq(Clients)
         /\ Len(Tail(s)) = Len(s) - 1
         /\ \A k \in 1 .. Len(s) - 1 : Tail(s)[k] = s[k + 1]
  OBVIOUS

LEMMA SlotTypes ==
  /\ \A fd \in Clients \cup {Listener, NoFd} : SlotOf(fd) \in Slot
  /\ \A fd : SlotOf(fd).fd = fd /\ ~SlotOf(fd).hup
  /\ Listener # NoFd
  BY DEF SlotOf, Slot, Listener, NoFd

-----------------------------------------------------------------------------
(* The initial state. *)

LEMMA InitInv == Init => IInv
  <1> SUFFICES ASSUME Init PROVE IInv
    OBVIOUS
  <1>0. polls = <<SlotOf(Listener)>> /\ polls[1] = SlotOf(Listener) /\ Len(polls) = 1
    BY DEF Init
  <1>1. TypeOK
    <2>1. conn \in [Clients -> Connection] /\ executed \in [Clients -> 0 .. 1]
      BY DEF Init, Connection, NoConnection
    <2>2. backlog \in Seq(Clients)
      BY DEF Init
    <2>3. polls \in Seq(Slot)
      BY <1>0, SlotTypes
    <2>4. Len(polls) \in 1 .. MaxPolls /\ i \in 0 .. Len(polls)
      BY <1>0, RpcAssumption DEF Init, MaxPolls
    <2> QED
      BY <2>1, <2>2, <2>3, <2>4 DEF TypeOK
  <1>2. SlotsAreConnections
    BY <1>0, ClientsAssumption, SlotTypes
    DEF Init, SlotsAreConnections, NoConnection
  <1>3. BacklogIsQueued /\ SentOrExecuted /\ ClosedIsEmpty
    BY DEF Init, BacklogIsQueued, SentOrExecuted, ClosedIsEmpty, NoConnection
  <1>4. SeenIsTrue
    BY <1>0, SlotTypes DEF SeenIsTrue
  <1> QED
    BY <1>1, <1>2, <1>3, <1>4 DEF IInv

-----------------------------------------------------------------------------
(* The clients. *)

LEMMA ConnectInv == ASSUME IInv, NEW c \in Clients, Connect(c) PROVE IInv'
  <1> USE DEF IInv
  <1> DEFINE n == [NoConnection EXCEPT !.server = "queued"]
  <1>0. /\ n \in Connection /\ n.server = "queued"
        /\ ~n.sent /\ ~n.unread /\ ~n.gone
    BY DEF Connection, NoConnection
  <1> HIDE DEF n
  <1>a. conn' = [conn EXCEPT ![c] = n]
    BY DEF Connect, n
  <1>b. conn[c].server \notin {"queued", "open"}
    BY DEF Connect, TypeOK, Connection
  <1>c. conn'[c] = n /\ \A d \in Clients \ {c} : conn'[d] = conn[d]
    BY <1>a DEF TypeOK
  <1>d. /\ backlog' \in Seq(Clients) /\ Len(backlog') = Len(backlog) + 1
        /\ \A k \in 1 .. Len(backlog) : backlog'[k] = backlog[k]
        /\ backlog'[Len(backlog) + 1] = c
    BY DEF Connect, TypeOK
  <1>1. TypeOK'
    BY <1>0, <1>a, <1>d DEF TypeOK, Connect, serverVars, MaxPolls
  <1>2. SlotsAreConnections'
    BY <1>0, <1>b, <1>c DEF SlotsAreConnections, Connect, serverVars
  <1>3. BacklogIsQueued'
    <2>1. \A k \in DOMAIN backlog : backlog[k] # c
      BY <1>b DEF BacklogIsQueued
    <2>2. DOMAIN backlog = 1 .. Len(backlog) /\ DOMAIN backlog' = 1 .. Len(backlog) + 1
      BY <1>d DEF TypeOK
    <2>3. Len(backlog) \in Nat
      BY DEF TypeOK
    <2>4. \A d \in Clients : conn'[d].server = "queued" <=> \E k \in DOMAIN backlog' : backlog'[k] = d
      BY <1>0, <1>c, <1>d, <2>1, <2>2, <2>3 DEF BacklogIsQueued
    <2>5. \A j, k \in DOMAIN backlog' : backlog'[j] = backlog'[k] => j = k
      BY <1>d, <2>1, <2>2, <2>3 DEF BacklogIsQueued
    <2> QED
      BY <2>4, <2>5 DEF BacklogIsQueued
  <1>4. SentOrExecuted'
    BY <1>0, <1>c DEF SentOrExecuted, Connect, TypeOK
  <1>5. SeenIsTrue'
    BY <1>b, <1>c DEF SeenIsTrue, SlotsAreConnections, Connect, serverVars
  <1>6. ClosedIsEmpty'
    BY <1>0, <1>c DEF ClosedIsEmpty
  <1> QED
    BY <1>1, <1>2, <1>3, <1>4, <1>5, <1>6

LEMMA SendInv == ASSUME IInv, NEW c \in Clients, Send(c) PROVE IInv'
  <1> USE DEF IInv
  <1>a. conn' = [conn EXCEPT ![c].sent = TRUE, ![c].unread = TRUE]
    BY DEF Send
  <1>b. /\ conn' \in [Clients -> Connection]
        /\ \A d \in Clients : conn'[d].server = conn[d].server /\ conn'[d].gone = conn[d].gone
        /\ \A d \in Clients \ {c} : conn'[d] = conn[d]
        /\ conn'[c].sent /\ conn'[c].unread
    BY <1>a DEF TypeOK, Connection
  <1>1. TypeOK'
    BY <1>b DEF TypeOK, Send, serverVars, MaxPolls
  <1>2. SlotsAreConnections' /\ BacklogIsQueued'
    BY <1>b DEF SlotsAreConnections, BacklogIsQueued, Send, serverVars
  <1>3. SentOrExecuted'
    BY <1>b DEF SentOrExecuted, Send, TypeOK, Connection
  <1>4. SeenIsTrue' /\ ClosedIsEmpty'
    \* only a client that is not gone sends
    <2>1. ~conn[c].gone
      BY DEF Send
    <2> QED
      BY <1>b, <2>1 DEF SeenIsTrue, ClosedIsEmpty, Send, serverVars
  <1> QED
    BY <1>1, <1>2, <1>3, <1>4

LEMMA CloseInv == ASSUME IInv, NEW c \in Clients, Close(c) PROVE IInv'
  <1> USE DEF IInv
  <1>a. conn' = [conn EXCEPT ![c].gone = TRUE]
    BY DEF Close
  <1>b. /\ conn' \in [Clients -> Connection]
        /\ \A d \in Clients : /\ conn'[d].server = conn[d].server
                               /\ conn'[d].sent = conn[d].sent
                               /\ conn'[d].unread = conn[d].unread
                               /\ conn[d].gone => conn'[d].gone
    BY <1>a DEF TypeOK, Connection
  <1>1. TypeOK'
    BY <1>b DEF TypeOK, Close, serverVars, MaxPolls
  <1>2. SlotsAreConnections' /\ BacklogIsQueued'
    BY <1>b DEF SlotsAreConnections, BacklogIsQueued, Close, serverVars
  <1>3. SentOrExecuted' /\ SeenIsTrue' /\ ClosedIsEmpty'
    BY <1>b DEF SentOrExecuted, SeenIsTrue, ClosedIsEmpty, Close, serverVars
  <1> QED
    BY <1>1, <1>2, <1>3

-----------------------------------------------------------------------------
(* The server. *)

\* Where the walk goes next.
LEMMA NextSlotIn ==
  ASSUME NEW n \in Nat, i \in 0 .. n, NextSlot(n)
  PROVE  i' \in 0 .. n
  BY DEF NextSlot

LEMMA PollInv == ASSUME IInv, Poll PROVE IInv'
  <1> USE DEF IInv
  <1>a. /\ DOMAIN polls = 1 .. Len(polls) /\ Len(polls) \in Nat /\ Len(polls) > 0
        /\ \A k \in 1 .. Len(polls) : polls[k] \in Slot
    BY DEF TypeOK
  <1>b. \A k \in 1 .. Len(polls) :
          /\ polls'[k].fd = polls[k].fd
          /\ polls'[k].in = Readable(polls[k].fd)
          /\ polls'[k].hup = HungUp(polls[k].fd)
          /\ polls'[k] \in Slot
    BY <1>a DEF Poll, Slot, Readable, HungUp, TypeOK, Connection
  <1>c. polls' \in Seq(Slot) /\ Len(polls') = Len(polls) /\ DOMAIN polls' = 1 .. Len(polls)
    <2>1. polls' = [k \in 1 .. Len(polls) |-> polls'[k]]
      BY <1>a DEF Poll
    <2> QED
      BY <1>a, <1>b, <2>1
  <1>1. TypeOK'
    BY <1>a, <1>c DEF TypeOK, Poll, MaxPolls
  <1>2. SlotsAreConnections'
    <2>1. conn' = conn /\ DOMAIN polls' = DOMAIN polls /\ \A k \in DOMAIN polls : polls'[k].fd = polls[k].fd
      BY <1>a, <1>b, <1>c DEF Poll
    <2> QED
      BY <2>1 DEF SlotsAreConnections
  <1>3. BacklogIsQueued' /\ SentOrExecuted' /\ ClosedIsEmpty'
    BY DEF BacklogIsQueued, SentOrExecuted, ClosedIsEmpty, Poll
  <1>4. SeenIsTrue'
    <2>1. \A fd : HungUp(fd) => /\ fd \in Clients /\ conn[fd].gone
                                /\ conn[fd].unread => Readable(fd)
      BY ClientsAssumption DEF HungUp, Readable
    <2>2. UNCHANGED conn
      BY DEF Poll
    <2> QED
      BY <1>a, <1>b, <1>c, <2>1, <2>2 DEF SeenIsTrue
  <1> QED
    BY <1>1, <1>2, <1>3, <1>4

LEMMA AcceptInv == ASSUME IInv, Accept PROVE IInv'
  <1> USE DEF IInv
  <1> DEFINE fd == IF backlog = <<>> THEN NoFd ELSE Head(backlog)
             full == Len(polls) >= MaxPolls
             x == SlotOf(fd)
  <1>n. /\ DOMAIN polls = 1 .. Len(polls) /\ Len(polls) \in Nat /\ Len(polls) > 0
        /\ DOMAIN backlog = 1 .. Len(backlog) /\ Len(backlog) \in Nat
        /\ MaxPolls \in Nat
    BY RpcAssumption DEF TypeOK, MaxPolls
  <1>a. /\ polls' = IF full THEN polls ELSE Append(polls, x)
        /\ NextSlot(Len(polls'))
        /\ UNCHANGED executed
    BY DEF Accept
  <1>b. CASE backlog = <<>>
    <2>1. fd = NoFd /\ x \in Slot /\ x.fd = NoFd /\ ~x.hup
      BY <1>b, SlotTypes
    <2>2. UNCHANGED <<conn, backlog>>
      BY <1>b DEF Accept
    <2> HIDE DEF fd, x
    <2>3. CASE full
      <3>1. TypeOK'
        BY <1>a, <1>n, <2>2, <2>3, NextSlotIn DEF TypeOK
      <3> QED
        BY <1>a, <2>2, <2>3, <3>1 DEF SlotsAreConnections, BacklogIsQueued,
           SentOrExecuted, SeenIsTrue, ClosedIsEmpty
    <2>4. CASE ~full
      <3>1. /\ polls' \in Seq(Slot) /\ Len(polls') = Len(polls) + 1
            /\ DOMAIN polls' = 1 .. Len(polls) + 1
            /\ \A k \in 1 .. Len(polls) : polls'[k] = polls[k]
            /\ polls'[Len(polls) + 1] = x
        BY <1>a, <2>1, <2>4, Appending DEF TypeOK
      <3>2. TypeOK'
        <4>1. i' \in 0 .. Len(polls')
          BY <1>a, <1>n, <3>1, NextSlotIn DEF TypeOK
        <4> QED
          BY <1>a, <1>n, <2>2, <2>4, <3>1, <4>1 DEF TypeOK
      <3>3. SlotsAreConnections'
        <4>1. x.fd \notin Clients \cup {Listener}
          BY <2>1, SlotTypes, ClientsAssumption
        <4>2. \A k \in DOMAIN polls' : polls'[k].fd = Listener <=> k = 1
          BY <1>n, <3>1, <4>1 DEF SlotsAreConnections
        <4>3. \A d \in Clients : conn'[d].server = "open" <=> \E k \in DOMAIN polls' : polls'[k].fd = d
          BY <1>n, <2>2, <3>1, <4>1 DEF SlotsAreConnections
        <4>4. \A j, k \in DOMAIN polls' :
                polls'[j].fd = polls'[k].fd /\ polls'[j].fd # NoFd => j = k
          BY <1>n, <2>1, <3>1 DEF SlotsAreConnections
        <4> QED
          BY <4>2, <4>3, <4>4 DEF SlotsAreConnections
      <3>4. SeenIsTrue'
        BY <1>n, <2>1, <2>2, <3>1 DEF SeenIsTrue
      <3> QED
        BY <1>a, <2>2, <3>2, <3>3, <3>4 DEF BacklogIsQueued, SentOrExecuted, ClosedIsEmpty
    <2> QED
      BY <2>3, <2>4
  <1>c. CASE backlog # <<>>
    <2>1. /\ fd = backlog[1] /\ fd \in Clients /\ x \in Slot /\ x.fd = fd /\ ~x.hup
          /\ 1 \in DOMAIN backlog
      BY <1>c, <1>n, Taking, SlotTypes DEF TypeOK
    <2>2. /\ backlog' \in Seq(Clients) /\ DOMAIN backlog' = 1 .. Len(backlog) - 1
          /\ \A k \in 1 .. Len(backlog) - 1 : backlog'[k] = backlog[k + 1]
      <3>1. backlog' = Tail(backlog)
        BY <1>c, <2>1, ClientsAssumption DEF Accept
      <3> QED
        BY <1>c, <3>1, Taking DEF TypeOK
    <2>3. conn' = [conn EXCEPT ![fd].server = IF full THEN "refused" ELSE "open"]
      BY <1>c, <2>1, ClientsAssumption DEF Accept
    <2>4. conn[fd].server = "queued"
      BY <2>1 DEF BacklogIsQueued
    <2> HIDE DEF fd, x
    <2>5. /\ conn' \in [Clients -> Connection]
          /\ \A d \in Clients : /\ conn'[d].sent = conn[d].sent
                                 /\ conn'[d].unread = conn[d].unread
                                 /\ conn'[d].gone = conn[d].gone
          /\ \A d \in Clients \ {fd} : conn'[d] = conn[d]
          /\ conn'[fd].server = IF full THEN "refused" ELSE "open"
      BY <2>1, <2>3 DEF TypeOK, Connection
    <2>6. BacklogIsQueued'
      <3>0. \A k \in DOMAIN backlog' :
              k \in Nat /\ k + 1 \in DOMAIN backlog /\ k + 1 # 1 /\ backlog'[k] = backlog[k + 1]
        BY <1>n, <2>2
      <3>1. ASSUME NEW j \in DOMAIN backlog', NEW k \in DOMAIN backlog',
                   backlog'[j] = backlog'[k]
            PROVE  j = k
        <4>1. j + 1 = k + 1
          BY <3>0, <3>1 DEF BacklogIsQueued
        <4> QED
          BY <3>0, <4>1
      <3>2. \A k \in DOMAIN backlog' : backlog'[k] # fd
        BY <2>1, <3>0 DEF BacklogIsQueued
      <3>3. ASSUME NEW d \in Clients
            PROVE conn'[d].server = "queued" <=> \E k \in DOMAIN backlog' : backlog'[k] = d
        <4>1. CASE d = fd
          BY <2>5, <3>2, <4>1
        <4>2. CASE d # fd
          <5>1. ASSUME NEW k \in DOMAIN backlog, backlog[k] = d
                PROVE  \E l \in DOMAIN backlog' : backlog'[l] = d
            <6>1. k # 1
              BY <2>1, <4>2, <5>1
            <6>2. k - 1 \in DOMAIN backlog' /\ backlog'[k - 1] = d
              BY <1>n, <2>2, <5>1, <6>1
            <6> QED
              BY <6>2
          <5>2. ASSUME NEW k \in DOMAIN backlog', backlog'[k] = d
                PROVE  k + 1 \in DOMAIN backlog /\ backlog[k + 1] = d
            BY <1>n, <2>2, <5>2
          <5> QED
            BY <2>5, <4>2, <5>1, <5>2 DEF BacklogIsQueued
        <4> QED
          BY <4>1, <4>2
      <3> QED
        BY <3>1, <3>3 DEF BacklogIsQueued
    <2>7. SentOrExecuted'
      BY <1>a, <2>5 DEF SentOrExecuted
    <2>8. ClosedIsEmpty'
      BY <2>5 DEF ClosedIsEmpty
    <2>9. CASE full
      <3>1. TypeOK'
        BY <1>a, <1>n, <2>2, <2>5, <2>9, NextSlotIn DEF TypeOK
      <3>2. SlotsAreConnections'
        BY <1>a, <2>4, <2>5, <2>9 DEF SlotsAreConnections
      <3>3. SeenIsTrue'
        BY <1>a, <2>5, <2>9 DEF SeenIsTrue
      <3> QED
        BY <2>6, <2>7, <2>8, <3>1, <3>2, <3>3
    <2>10. CASE ~full
      <3>1. /\ polls' \in Seq(Slot) /\ Len(polls') = Len(polls) + 1
            /\ DOMAIN polls' = 1 .. Len(polls) + 1
            /\ \A k \in 1 .. Len(polls) : polls'[k] = polls[k]
            /\ polls'[Len(polls) + 1] = x
        BY <1>a, <2>1, <2>10, Appending DEF TypeOK
      <3>2. TypeOK'
        <4>1. i' \in 0 .. Len(polls')
          BY <1>a, <1>n, <3>1, NextSlotIn DEF TypeOK
        <4> QED
          BY <1>a, <1>n, <2>2, <2>5, <2>10, <3>1, <4>1 DEF TypeOK
      <3>3. SlotsAreConnections'
        <4>1. \A k \in 1 .. Len(polls) : polls[k].fd # fd
          BY <1>n, <2>1, <2>4 DEF SlotsAreConnections
        <4>2. \A k \in DOMAIN polls' : polls'[k].fd = Listener <=> k = 1
          BY <1>n, <2>1, <3>1, ClientsAssumption DEF SlotsAreConnections
        <4>3. \A d \in Clients : conn'[d].server = "open" <=> \E k \in DOMAIN polls' : polls'[k].fd = d
          BY <1>n, <2>1, <2>5, <2>10, <3>1, <4>1 DEF SlotsAreConnections
        <4>4. \A j, k \in DOMAIN polls' :
                polls'[j].fd = polls'[k].fd /\ polls'[j].fd # NoFd => j = k
          BY <1>n, <2>1, <3>1, <4>1 DEF SlotsAreConnections
        <4> QED
          BY <4>2, <4>3, <4>4 DEF SlotsAreConnections
      <3>4. SeenIsTrue'
        BY <1>n, <2>1, <2>5, <3>1 DEF SeenIsTrue
      <3> QED
        BY <2>6, <2>7, <2>8, <3>2, <3>3, <3>4
    <2> QED
      BY <2>9, <2>10
  <1> QED
    BY <1>b, <1>c

\* What handling a slot does to its connection.
LEMMA Handled ==
  ASSUME IInv, HandleClient
  PROVE  LET s == polls[i]  c == s.fd IN
         /\ i \in 1 .. Len(polls) /\ s \in Slot /\ c \in Clients \cup {NoFd}
         /\ conn' \in [Clients -> Connection]
         /\ executed' \in [Clients -> 0 .. 1]
         /\ \A d \in Clients \ {c} : conn'[d] = conn[d] /\ executed'[d] = executed[d]
         /\ \A d \in Clients :
               /\ conn'[d].sent = conn[d].sent
               /\ conn'[d].gone = conn[d].gone
               /\ conn'[d].unread => conn[d].unread
               /\ conn'[d].server = IF s.hup /\ d = c THEN "closed" ELSE conn[d].server
               /\ executed'[d] = IF conn'[d].sent /\ ~conn'[d].unread THEN 1 ELSE 0
         /\ c \in Clients => conn'[c].unread = (conn[c].unread /\ ~s.in)
  <1> USE DEF IInv
  <1> DEFINE s == polls[i]
             c == s.fd
             read == s.in /\ c # NoFd /\ conn[c].unread
  <1>1. i \in 1 .. Len(polls) /\ s \in Slot /\ c \in Clients \cup {NoFd}
    <2>1. i > 0 /\ polls[i].fd # Listener
      BY DEF HandleClient
    <2>2. i \in 1 .. Len(polls) /\ s \in Slot
      BY <2>1 DEF TypeOK
    <2> QED
      BY <2>1, <2>2 DEF Slot
  <1>2. /\ executed' = IF read THEN [executed EXCEPT ![c] = @ + 1] ELSE executed
        /\ conn' = IF c = NoFd THEN conn
                   ELSE [conn EXCEPT ![c].unread = @ /\ ~read,
                                     ![c].server = IF s.hup THEN "closed" ELSE @]
    BY DEF HandleClient
  <1>3. c = NoFd => ~s.hup
    BY <1>1, ClientsAssumption DEF SeenIsTrue, TypeOK
  <1>4. /\ conn \in [Clients -> Connection] /\ executed \in [Clients -> 0 .. 1]
        /\ \A d \in Clients : executed[d] = IF conn[d].sent /\ ~conn[d].unread THEN 1 ELSE 0
        /\ \A d \in Clients : conn[d].unread => conn[d].sent
    BY DEF TypeOK, SentOrExecuted
  <1> HIDE DEF s, c, IInv
  <1>5. CASE c = NoFd
    <2>1. conn' = conn /\ executed' = executed
      BY <1>2, <1>5
    <2> QED
      BY <1>1, <1>3, <1>4, <1>5, <2>1, ClientsAssumption DEF s, c
  <1>6. CASE c \in Clients
    <2> DEFINE u == conn[c].unread /\ ~s.in
               v == IF s.hup THEN "closed" ELSE conn[c].server
    <2>1. c # NoFd
      BY <1>6, ClientsAssumption
    <2>2. /\ conn[c] \in Connection /\ conn[c].unread \in BOOLEAN
          /\ s.in \in BOOLEAN /\ u \in BOOLEAN
          /\ v \in {"none", "queued", "open", "refused", "closed"}
      BY <1>1, <1>4, <1>6 DEF Connection, Slot
    <2>3. (conn[c].unread /\ ~read) = u
      BY <2>1, <2>2
    <2>4. conn' = [conn EXCEPT ![c].unread = u, ![c].server = v]
      BY <1>2, <2>1, <2>3
    <2> HIDE DEF u, v
    <2>5. /\ conn' \in [Clients -> Connection]
          /\ \A d \in Clients \ {c} : conn'[d] = conn[d]
          /\ conn'[c].sent = conn[c].sent /\ conn'[c].gone = conn[c].gone
          /\ conn'[c].unread = u /\ conn'[c].server = v
      BY <1>4, <1>6, <2>2, <2>4 DEF Connection
    <2>6. /\ executed' \in [Clients -> 0 .. 1]
          /\ executed'[c] = IF conn[c].sent /\ ~u THEN 1 ELSE 0
          /\ \A d \in Clients \ {c} : executed'[d] = executed[d]
      <3>1. CASE read
        <4>1. executed[c] = 0 /\ conn[c].sent /\ ~u
          BY <1>4, <1>6, <2>2, <3>1 DEF u
        <4>2. executed' = [executed EXCEPT ![c] = 1]
          BY <1>2, <1>4, <1>6, <3>1, <4>1
        <4> QED
          BY <1>4, <1>6, <4>1, <4>2
      <3>2. CASE ~read
        <4>1. u = conn[c].unread
          BY <2>1, <2>2, <3>2 DEF u
        <4> QED
          BY <1>2, <1>4, <1>6, <3>2, <4>1
      <3> QED
        BY <3>1, <3>2
    <2>7. ASSUME NEW d \in Clients
          PROVE  /\ conn'[d].sent = conn[d].sent
                 /\ conn'[d].gone = conn[d].gone
                 /\ conn'[d].unread => conn[d].unread
                 /\ conn'[d].server = IF s.hup /\ d = c THEN "closed" ELSE conn[d].server
                 /\ executed'[d] = IF conn'[d].sent /\ ~conn'[d].unread THEN 1 ELSE 0
      <3>1. CASE d = c
        <4>1. conn'[d].sent = conn[d].sent /\ conn'[d].gone = conn[d].gone
          BY <2>5, <3>1
        <4>2. conn'[d].unread => conn[d].unread
          BY <2>5, <3>1 DEF u
        <4>3. conn'[d].server = IF s.hup /\ d = c THEN "closed" ELSE conn[d].server
          BY <2>5, <3>1 DEF v
        <4>4. executed'[d] = IF conn'[d].sent /\ ~conn'[d].unread THEN 1 ELSE 0
          BY <2>5, <2>6, <3>1
        <4> QED
          BY <4>1, <4>2, <4>3, <4>4
      <3>2. CASE d # c
        <4>1. conn'[d] = conn[d] /\ executed'[d] = executed[d]
          BY <2>5, <2>6, <3>2
        <4> QED
          BY <1>4, <3>2, <4>1
      <3> QED
        BY <3>1, <3>2
    <2>8. conn'[c].unread = (conn[c].unread /\ ~s.in)
      BY <2>5 DEF u
    <2> QED
      BY <1>1, <2>5, <2>6, <2>7, <2>8 DEF s, c
  <1> QED
    BY <1>1, <1>5, <1>6

\* Where handling a slot leaves the others.
LEMMA SlotsHandled ==
  ASSUME IInv, HandleClient
  PROVE  LET n == Len(polls) IN
         \/ /\ ~polls[i].hup
            /\ polls' \in Seq(Slot) /\ Len(polls') = n
            /\ polls'[i].fd = polls[i].fd /\ ~polls'[i].hup
            /\ \A k \in 1 .. n : k # i => polls'[k] = polls[k]
            /\ i' \in 0 .. n
         \/ /\ polls[i].hup
            /\ polls' \in Seq(Slot) /\ Len(polls') = n - 1
            /\ \A k \in 1 .. n - 1 : polls'[k] = IF k = i THEN polls[n] ELSE polls[k]
            /\ i' \in 0 .. n - 1
  <1> DEFINE n == Len(polls)
             s == polls[i]
             x == SlotOf(s.fd)
  <1>1. /\ polls \in Seq(Slot) /\ n \in Nat /\ i \in 1 .. n
        /\ s \in Slot /\ s.fd \in Clients \cup {NoFd}
    BY Handled DEF IInv, TypeOK
  <1>2. CASE s.hup
    <2>0. RemoveSlot
      BY <1>2 DEF HandleClient
    <2>1. /\ polls' = WithoutSlot(polls, i)
          /\ i' = IF i <= n - 1 THEN i ELSE 0
      BY <2>0 DEF RemoveSlot
    <2>2. /\ polls' \in Seq(Slot) /\ Len(polls') = n - 1
          /\ \A k \in 1 .. n - 1 : polls'[k] = IF k = i THEN polls[n] ELSE polls[k]
      BY <1>1, <2>1, Removal
    <2>3. i' \in 0 .. n - 1
      BY <1>1, <2>1
    <2> QED
      BY <1>2, <2>2, <2>3
  <1>3. CASE ~s.hup
    <2>1. polls' = [polls EXCEPT ![i] = x] /\ NextSlot(n)
      BY <1>3 DEF HandleClient
    <2>2. x \in Slot /\ x.fd = s.fd /\ ~x.hup
      BY <1>1, SlotTypes
    <2> HIDE DEF x, s
    <2>3. /\ polls' \in Seq(Slot) /\ Len(polls') = n /\ polls'[i] = x
          /\ \A k \in 1 .. n : k # i => polls'[k] = polls[k]
      BY <1>1, <2>1, <2>2
    <2>4. i' \in 0 .. n
      BY <1>1, <2>1, NextSlotIn
    <2> QED
      BY <1>3, <2>2, <2>3, <2>4 DEF s
  <1> QED
    BY <1>2, <1>3

LEMMA HandleInv == ASSUME IInv, HandleClient PROVE IInv'
  <1> DEFINE n == Len(polls)
             c == polls[i].fd
  <1>1. /\ i \in 1 .. n /\ n \in Nat /\ c \in Clients \cup {NoFd}
        /\ DOMAIN polls = 1 .. n /\ UNCHANGED backlog
    <2>1. i \in 1 .. n /\ c \in Clients \cup {NoFd}
      BY Handled
    <2>2. n \in Nat /\ DOMAIN polls = 1 .. n
      BY DEF IInv, TypeOK
    <2>3. UNCHANGED backlog
      BY DEF HandleClient
    <2> QED
      BY <2>1, <2>2, <2>3
  <1>2. /\ conn' \in [Clients -> Connection] /\ executed' \in [Clients -> 0 .. 1]
        /\ \A d \in Clients :
              /\ conn'[d].sent = conn[d].sent
              /\ conn'[d].gone = conn[d].gone
              /\ conn'[d].unread => conn[d].unread
              /\ conn'[d].server = IF polls[i].hup /\ d = c THEN "closed" ELSE conn[d].server
              /\ executed'[d] = IF conn'[d].sent /\ ~conn'[d].unread THEN 1 ELSE 0
        /\ c \in Clients => conn'[c].unread = (conn[c].unread /\ ~polls[i].in)
    BY Handled
  <1>3. SentOrExecuted'
    BY <1>2 DEF SentOrExecuted, IInv
  <1>4. BacklogIsQueued'
    <2>1. c \in Clients => conn[c].server = "open"
      BY <1>1 DEF IInv, SlotsAreConnections
    <2>2. \A d \in Clients : conn'[d].server = "queued" <=> conn[d].server = "queued"
      BY <1>2, <2>1
    <2> QED
      BY <1>1, <2>2 DEF IInv, BacklogIsQueued
  <1>5. ClosedIsEmpty'
    <2>1. polls[i].hup => /\ c \in Clients /\ conn[c].gone
                          /\ conn[c].unread => polls[i].in
      BY <1>1 DEF IInv, SeenIsTrue
    <2> QED
      BY <1>2, <2>1 DEF IInv, ClosedIsEmpty
  <1>6. CASE ~polls[i].hup
    <2>1. /\ polls' \in Seq(Slot) /\ Len(polls') = n /\ DOMAIN polls' = 1 .. n
          /\ polls'[i].fd = polls[i].fd /\ ~polls'[i].hup
          /\ \A k \in 1 .. n : k # i => polls'[k] = polls[k]
          /\ i' \in 0 .. n
      BY <1>6, SlotsHandled
    <2>2. \A k \in 1 .. n : polls'[k].fd = polls[k].fd
      BY <2>1
    <2>3. TypeOK'
      BY <1>1, <1>2, <2>1 DEF IInv, TypeOK, MaxPolls
    <2>4. SlotsAreConnections'
      <3>1. \A d \in Clients : conn'[d].server = conn[d].server
        BY <1>2, <1>6
      <3> QED
        BY <1>1, <2>1, <2>2, <3>1 DEF IInv, SlotsAreConnections
    <2>5. SeenIsTrue'
      <3>1. \A k \in 1 .. n : polls[k].hup => polls[k].fd \in Clients /\ conn[polls[k].fd].gone
                                            /\ (conn[polls[k].fd].unread => polls[k].in)
        BY <1>1 DEF IInv, SeenIsTrue
      <3> QED
        BY <1>2, <2>1, <3>1 DEF SeenIsTrue
    <2> QED
      BY <1>3, <1>4, <1>5, <2>3, <2>4, <2>5 DEF IInv
  <1>7. CASE polls[i].hup
    <2>1. /\ polls' \in Seq(Slot) /\ Len(polls') = n - 1 /\ DOMAIN polls' = 1 .. n - 1
          /\ \A k \in 1 .. n - 1 : polls'[k] = IF k = i THEN polls[n] ELSE polls[k]
          /\ i' \in 0 .. n - 1
      BY <1>7, SlotsHandled
    <2>2. c \in Clients /\ c # Listener /\ c # NoFd
      BY <1>1, <1>7, ClientsAssumption DEF IInv, SeenIsTrue
    <2>3. /\ \A k \in 1 .. n : polls[k].fd = Listener <=> k = 1
          /\ \A d \in Clients : conn[d].server = "open" <=> \E k \in 1 .. n : polls[k].fd = d
          /\ \A j, k \in 1 .. n : polls[j].fd = polls[k].fd /\ polls[j].fd # NoFd => j = k
      BY <1>1 DEF IInv, SlotsAreConnections
    <2>4. i # 1 /\ n > 1
      BY <1>1, <2>2, <2>3
    <2>5. TypeOK'
      <3>1. Len(polls') \in 1 .. MaxPolls
        BY <1>1, <2>1, <2>4, RpcAssumption DEF IInv, TypeOK, MaxPolls
      <3>2. backlog' \in Seq(Clients)
        BY <1>1 DEF IInv, TypeOK
      <3> QED
        BY <1>2, <2>1, <3>1, <3>2 DEF TypeOK
    <2> HIDE DEF n
    \* where the slots of polls' come from
    <2> DEFINE from(k) == IF k = i THEN n ELSE k
    <2>6. \A k \in 1 .. n - 1 : /\ from(k) \in 1 .. n /\ from(k) # i
                                /\ polls'[k] = polls[from(k)]
      <3>1. SUFFICES ASSUME NEW k \in 1 .. n - 1
                     PROVE  from(k) \in 1 .. n /\ from(k) # i /\ polls'[k] = polls[from(k)]
        OBVIOUS
      <3>2. CASE k = i
        <4>1. n # i /\ from(k) = n /\ n \in 1 .. n
          BY <1>1, <3>2
        <4>2. polls'[k] = polls[n]
          BY <2>1, <3>2
        <4> QED
          BY <4>1, <4>2
      <3>3. CASE k # i
        BY <1>1, <2>1, <3>3
      <3> QED
        BY <3>2, <3>3
    <2>7. \A j, k \in 1 .. n - 1 : from(j) = from(k) => j = k
      BY <1>1
    <2>8. ASSUME NEW l \in 1 .. n, l # i PROVE \E k \in 1 .. n - 1 : from(k) = l
      <3>1. CASE l = n
        <4>1. i \in 1 .. n - 1
          BY <1>1, <2>8, <3>1
        <4>2. from(i) = l
          BY <3>1
        <4> QED
          BY <4>1, <4>2
      <3>2. CASE l # n
        <4>1. l \in 1 .. n - 1
          BY <1>1, <3>2
        <4>2. from(l) = l
          BY <2>8
        <4> QED
          BY <4>1, <4>2
      <3> QED
        BY <3>1, <3>2
    <2>9. \A k \in 1 .. n - 1 : from(k) = 1 <=> k = 1
      BY <1>1, <2>4
    <2> HIDE DEF from
    <2>10. SlotsAreConnections'
      <3>1. \A k \in DOMAIN polls' : polls'[k].fd = Listener <=> k = 1
        BY <2>1, <2>3, <2>6, <2>9
      <3>2. ASSUME NEW d \in Clients
            PROVE  conn'[d].server = "open" <=> \E k \in DOMAIN polls' : polls'[k].fd = d
        <4>1. CASE d = c
          <5>1. conn'[d].server = "closed"
            BY <1>2, <1>7, <4>1
          <5>2. \A k \in 1 .. n - 1 : polls'[k].fd # d
            BY <1>1, <2>2, <2>3, <2>6, <4>1
          <5> QED
            BY <2>1, <5>1, <5>2
        <4>2. CASE d # c
          <5>1. conn'[d].server = conn[d].server
            BY <1>2, <4>2
          <5>2. (\E k \in 1 .. n : polls[k].fd = d) <=> \E k \in 1 .. n - 1 : polls'[k].fd = d
            <6>1. ASSUME NEW l \in 1 .. n, polls[l].fd = d
                  PROVE  \E k \in 1 .. n - 1 : polls'[k].fd = d
              <7>1. l # i
                BY <4>2, <6>1
              <7>2. PICK k \in 1 .. n - 1 : from(k) = l
                BY <2>8, <7>1
              <7>3. polls'[k].fd = d
                BY <2>6, <6>1, <7>2
              <7> QED
                BY <7>3
            <6>2. ASSUME NEW k \in 1 .. n - 1, polls'[k].fd = d
                  PROVE  \E l \in 1 .. n : polls[l].fd = d
              BY <2>6, <6>2
            <6> QED
              BY <6>1, <6>2
          <5> QED
            BY <2>1, <2>3, <5>1, <5>2
        <4> QED
          BY <4>1, <4>2
      <3>3. \A j, k \in DOMAIN polls' :
              polls'[j].fd = polls'[k].fd /\ polls'[j].fd # NoFd => j = k
        BY <2>1, <2>3, <2>6, <2>7
      <3> QED
        BY <3>1, <3>2, <3>3 DEF SlotsAreConnections
    <2>11. SeenIsTrue'
      <3>1. \A k \in 1 .. n : polls[k].hup => polls[k].fd \in Clients /\ conn[polls[k].fd].gone
                                            /\ (conn[polls[k].fd].unread => polls[k].in)
        BY <1>1 DEF IInv, SeenIsTrue
      <3> QED
        <4>1. ASSUME NEW k \in 1 .. n - 1, polls'[k].hup
              PROVE  /\ polls'[k].fd \in Clients
                     /\ conn'[polls'[k].fd].gone
                     /\ conn'[polls'[k].fd].unread => polls'[k].in
          <5>1. from(k) \in 1 .. n /\ polls'[k] = polls[from(k)]
            BY <2>6
          <5>2. polls[from(k)].hup
            BY <4>1, <5>1
          <5>3. /\ polls[from(k)].fd \in Clients /\ conn[polls[from(k)].fd].gone
                /\ conn[polls[from(k)].fd].unread => polls[from(k)].in
            BY <3>1, <5>1, <5>2
          <5> QED
            BY <1>2, <5>1, <5>3
        <4> QED
          BY <2>1, <4>1 DEF SeenIsTrue
    <2> QED
      BY <1>3, <1>4, <1>5, <2>5, <2>10, <2>11 DEF IInv
  <1> QED
    BY <1>6, <1>7

-----------------------------------------------------------------------------
(* The theorems. *)

\* Every step of a client or of the server keeps the invariant.
LEMMA StepInv == IInv /\ [Next]_vars => IInv'
  <1> SUFFICES ASSUME IInv, [Next]_vars PROVE IInv'
    OBVIOUS
  <1>1. CASE UNCHANGED vars
    BY <1>1 DEF vars, IInv, TypeOK, SlotsAreConnections, BacklogIsQueued,
       SentOrExecuted, SeenIsTrue, ClosedIsEmpty
  <1>2. CASE Server
    BY <1>2, PollInv, AcceptInv, HandleInv DEF Server
  <1>3. CASE \E c \in Clients : Connect(c) \/ Send(c) \/ Close(c)
    BY <1>3, ConnectInv, SendInv, CloseInv
  <1> QED
    BY <1>1, <1>2, <1>3 DEF Next

THEOREM Inductive == Spec => []IInv
  <1>1. Init => IInv
    BY InitInv
  <1>2. IInv /\ [Next]_vars => IInv'
    BY StepInv
  <1> QED
    BY <1>1, <1>2, PTL DEF Spec

\* No slot is written past the end of the array and no command runs twice.
THEOREM TypeCorrect == Spec => []TypeOK
  <1>1. IInv => TypeOK
    BY DEF IInv
  <1> QED
    BY <1>1, Inductive, PTL

\* Rpc::poll appends and moves slots while it walks over them: each open
\* connection has exactly one slot.
THEOREM SlotsCorrect == Spec => []SlotsAreConnections
  <1>1. IInv => SlotsAreConnections
    BY DEF IInv
  <1> QED
    BY <1>1, Inductive, PTL

\* Rpc::poll closes no connection whose command it has not executed once.
THEOREM NothingClosedUnheard == Spec => []ClosedAfterExecution
  <1>1. IInv => ClosedAfterExecution
    BY DEF IInv, SentOrExecuted, ClosedIsEmpty, ClosedAfterExecution
  <1> QED
    BY <1>1, Inductive, PTL

-----------------------------------------------------------------------------
(* Joystick, for every set of devices, every size of the table and any     *)
(* number of changes and messages lost: each descriptor is in one place.   *)

Moves == [button : {"mode", "south", "up"}, down : BOOLEAN]
Kinds == {"event", "hotplug", "device"}
Records == [kind : Kinds, fd : Nat, dev : Devices \cup {0}, gone : BOOLEAN, events : Seq(Moves),
            revents : SUBSET {"in", "err"}]

\* The exit event never has an error, and is no device.
Entry == {e \in Records : IF e.kind = "event" THEN e.fd = EventFd /\ e.dev = 0 /\ "err" \notin e.revents
                          ELSE e.fd # EventFd}

Fds(table) == {table[p].fd : p \in 1..Len(table)}

\* A table whose descriptors are different, not after n, and the event's one of them.
TableOK(table, n) ==
    /\ table \in Seq(Entry)
    /\ \A p \in 1..Len(table) : table[p].fd \in 0..n
    /\ \A p, j \in 1..Len(table) : table[p].fd = table[j].fd => p = j
    /\ EventFd \in Fds(table)

-----------------------------------------------------------------------------
(* What is done to a table. *)

LEMMA SameFds ==
  ASSUME NEW n \in Nat, NEW table, TableOK(table, n),
         NEW q \in Seq(Entry), Len(q) = Len(table), \A p \in 1..Len(table) : q[p].fd = table[p].fd
  PROVE  TableOK(q, n) /\ Fds(q) = Fds(table)
<1>1. Fds(q) = Fds(table)
  BY DEF Fds
<1> QED BY <1>1 DEF TableOK

LEMMA ClearedTable ==
  ASSUME NEW n \in Nat, NEW table, TableOK(table, n), NEW p \in 1..Len(table)
  PROVE  /\ TableOK(Cleared(table, p), n) /\ Fds(Cleared(table, p)) = Fds(table)
         /\ Len(Cleared(table, p)) = Len(table)
         /\ \A k \in 1..Len(table) : /\ Cleared(table, p)[k].kind = table[k].kind
                                     /\ Cleared(table, p)[k].fd = table[k].fd
<1> DEFINE q == Cleared(table, p)
<1>1. table \in Seq(Entry) /\ table[p] \in Entry
  BY DEF TableOK
<1>2. [table[p] EXCEPT !.revents = {}] \in Entry
  BY <1>1 DEF Entry, Records
<1>3. q \in Seq(Entry) /\ Len(q) = Len(table)
  BY <1>1, <1>2 DEF Cleared
<1>4. \A k \in 1..Len(table) : q[k].fd = table[k].fd /\ q[k].kind = table[k].kind
  BY <1>1 DEF Cleared, Entry, Records
<1> QED BY <1>3, <1>4, SameFds

\* An entry that is not the exit event's is taken with its descriptor.
LEMMA EntryRemoved ==
  ASSUME NEW n \in Nat, NEW table, TableOK(table, n), NEW p \in 1..Len(table), table[p].kind # "event"
  PROVE  /\ TableOK(RemoveAt(table, p), n) /\ Fds(RemoveAt(table, p)) = Fds(table) \ {table[p].fd}
         /\ table[p].fd \in Fds(table) \ {EventFd}
<1> DEFINE q == RemoveAt(table, p)
<1>1. table \in Seq(Entry) /\ Len(table) \in Nat /\ table[p] \in Entry
  BY DEF TableOK
<1>2. /\ q \in Seq(Entry) /\ Len(q) = Len(table) - 1
      /\ \A j \in 1..Len(table) - 1 : q[j] = IF j < p THEN table[j] ELSE table[j + 1]
  BY <1>1, RemoveAtIsSeq
<1>3. table[p].fd \in Fds(table) \ {EventFd}
  BY <1>1 DEF Entry, Fds
<1> HIDE DEF q
<1> DEFINE from(j) == IF j < p THEN j ELSE j + 1
<1>4. /\ \A j \in 1..Len(q) : from(j) \in 1..Len(table) /\ from(j) # p /\ q[j] = table[from(j)]
      /\ \A j, k \in 1..Len(q) : from(j) = from(k) => j = k
  BY <1>1, <1>2
<1> HIDE DEF from
<1>5. /\ \A j \in 1..Len(q) : q[j].fd \in 0..n /\ q[j].fd \in Fds(table) \ {table[p].fd}
      /\ \A j, k \in 1..Len(q) : q[j].fd = q[k].fd => j = k
  <2>1. \A j \in 1..Len(q) : q[j].fd \in 0..n /\ q[j].fd \in Fds(table)
    BY <1>4 DEF TableOK, Fds
  <2>2. ASSUME NEW j \in 1..Len(q), NEW k \in 1..Len(q), q[j].fd = q[k].fd
        PROVE  j = k
    <3>1. /\ from(j) \in 1..Len(table) /\ q[j] = table[from(j)]
          /\ from(k) \in 1..Len(table) /\ q[k] = table[from(k)]
      BY <1>4
    <3>2. from(j) = from(k)
      BY <2>2, <3>1 DEF TableOK
    <3> QED BY <1>4, <3>2
  <2>3. \A j \in 1..Len(q) : q[j].fd # table[p].fd
    BY <1>4 DEF TableOK
  <2> QED BY <2>1, <2>2, <2>3
<1>6. ASSUME NEW k \in 1..Len(table), k # p
      PROVE  table[k].fd \in Fds(q)
  <2> DEFINE j == IF k < p THEN k ELSE k - 1
  <2>1. j \in 1..Len(q) /\ q[j] = table[k]
    BY <1>1, <1>2, <1>6
  <2> QED BY <2>1 DEF Fds
<1>7. Fds(q) = Fds(table) \ {table[p].fd}
  BY <1>5, <1>6 DEF Fds
<1>8. EventFd \in Fds(q)
  BY <1>3, <1>7 DEF TableOK
<1> QED BY <1>2, <1>3, <1>5, <1>7, <1>8 DEF TableOK, q

\* A new entry has the next descriptor.
LEMMA EntryAdded ==
  ASSUME NEW n \in Nat, NEW table, TableOK(table, n), NEW e \in Entry, e.fd = n + 1
  PROVE  TableOK(Append(table, e), n + 1) /\ Fds(Append(table, e)) = Fds(table) \cup {n + 1}
<1> DEFINE q == Append(table, e)
<1>1. table \in Seq(Entry) /\ Len(table) \in Nat
  BY DEF TableOK
<1>2. /\ q \in Seq(Entry) /\ Len(q) = Len(table) + 1
      /\ \A p \in 1..Len(table) : q[p] = table[p]
      /\ q[Len(table) + 1] = e
  BY <1>1
<1> HIDE DEF q
<1>3. Fds(q) = Fds(table) \cup {n + 1}
  BY <1>1, <1>2 DEF Fds
<1>4. TableOK(q, n + 1)
  <2>1. \A p \in 1..Len(table) : q[p].fd = table[p].fd /\ table[p].fd \in 0..n
    BY <1>2 DEF TableOK
  <2>2. \A p \in 1..Len(q) : p \in 1..Len(table) \/ (p = Len(table) + 1 /\ q[p].fd = n + 1)
    BY <1>1, <1>2
  <2>3. \A p \in 1..Len(q) : q[p].fd \in 0..n + 1
    BY <2>1, <2>2
  <2>4. \A p, j \in 1..Len(table) : q[p].fd = q[j].fd => p = j
    BY <2>1 DEF TableOK
  <2>5. ASSUME NEW p \in 1..Len(q), NEW j \in 1..Len(q), q[p].fd = q[j].fd
        PROVE  p = j
    BY <2>1, <2>2, <2>4, <2>5
  <2> QED BY <1>2, <1>3, <2>3, <2>5 DEF TableOK
<1> QED BY <1>3, <1>4 DEF q

LEMMA TableGrows ==
  ASSUME NEW n \in Nat, NEW table, TableOK(table, n)
  PROVE  TableOK(table, n + 1)
BY DEF TableOK

-----------------------------------------------------------------------------
(* The descriptors that were handed over or closed. *)

Given == ToSet(toClose) \cup ToSet(closing) \cup ToSet(closed)

\* No descriptor is twice in the three lists.
ListsOK ==
    /\ toClose \in Seq(Nat) /\ closing \in Seq(Nat) /\ closed \in Seq(Nat)
    /\ IsInjective(toClose) /\ IsInjective(closing) /\ IsInjective(closed)
    /\ ToSet(toClose) \cap ToSet(closing) = {} /\ ToSet(toClose) \cap ToSet(closed) = {}
    /\ ToSet(closing) \cap ToSet(closed) = {}

\* The threads end in the order of the destructor, and the closer holds
\* descriptors only where it closes them.
ThreadsOK ==
    /\ closer # "closes" => closing = <<>>
    /\ owner \in {"notifies", "joinsCloser", "gone"} => reader = "done"
    /\ eventFd = (owner \notin {"notifies", "joinsCloser", "gone"})
    /\ owner = "gone" => closer = "done"

FdInv ==
    /\ opened \in Nat /\ at \in Nat \ {0} /\ TableOK(polled, opened)
    /\ messages \in Seq([add : BOOLEAN, dev : Devices])
    /\ ThreadsOK
    /\ owner # "gone" => /\ ListsOK /\ Given \cup Fds(polled) = 0..opened
                         /\ Given \cap Fds(polled) = IF eventFd THEN {} ELSE {EventFd}
    /\ owner = "gone" => /\ toClose = <<>> /\ closing = <<>> /\ closed \in Seq(Nat)
                         /\ ToSet(closed) = 0..opened /\ Repeated(closed) = {EventFd}

LEMMA EmptySequence == ToSet(<<>>) = {} /\ IsInjective(<<>>)
BY DEF ToSet, IsInjective

LEMMA TableFds ==
  ASSUME NEW n \in Nat, TableOK(polled, n)
  PROVE  PolledFds = Fds(polled) /\ Fds(polled) \subseteq 0..n
<1>1. DOMAIN polled = 1..Len(polled)
  BY DEF TableOK
<1> QED BY <1>1 DEF PolledFds, Fds, TableOK

LEMMA InjectiveRepeatsNothing ==
  ASSUME NEW places, IsInjective(places)
  PROVE  Repeated(places) = {}
BY DEF IsInjective, Repeated

\* What two lists have in common is what their concatenation repeats.
LEMMA ConcatRepeats ==
  ASSUME NEW T, NEW a \in Seq(T), NEW b \in Seq(T), IsInjective(a), IsInjective(b)
  PROVE  Repeated(a \o b) = ToSet(a) \cap ToSet(b)
<1> DEFINE u == a \o b
<1>1. /\ \A j \in 1..Len(a) + Len(b) : u[j] = IF j <= Len(a) THEN a[j] ELSE b[j - Len(a)]
      /\ DOMAIN u = 1..Len(a) + Len(b) /\ DOMAIN a = 1..Len(a) /\ DOMAIN b = 1..Len(b)
      /\ Len(a) \in Nat /\ Len(b) \in Nat
  BY ConcatProperties
<1> HIDE DEF u
<1>2. ASSUME NEW k \in DOMAIN u, NEW j \in DOMAIN u \ {k}, u[j] = u[k]
      PROVE  u[k] \in ToSet(a) \cap ToSet(b)
  <2>1. CASE k <= Len(a) /\ j <= Len(a)
    BY <1>1, <1>2, <2>1 DEF IsInjective
  <2>2. CASE k > Len(a) /\ j > Len(a)
    <3>1. k - Len(a) \in DOMAIN b /\ j - Len(a) \in DOMAIN b /\ b[k - Len(a)] = b[j - Len(a)]
      BY <1>1, <1>2, <2>2
    <3>2. k - Len(a) = j - Len(a)
      BY <3>1 DEF IsInjective
    <3> QED BY <1>1, <3>2
  <2>3. CASE k <= Len(a) /\ j > Len(a)
    <3>1. k \in DOMAIN a /\ j - Len(a) \in DOMAIN b /\ u[k] = a[k] /\ u[k] = b[j - Len(a)]
      BY <1>1, <1>2, <2>3
    <3> QED BY <3>1 DEF ToSet
  <2>4. CASE k > Len(a) /\ j <= Len(a)
    <3>1. j \in DOMAIN a /\ k - Len(a) \in DOMAIN b /\ u[k] = a[j] /\ u[k] = b[k - Len(a)]
      BY <1>1, <1>2, <2>4
    <3> QED BY <3>1 DEF ToSet
  <2> QED BY <1>1, <2>1, <2>2, <2>3, <2>4
<1>3. ASSUME NEW k \in DOMAIN a, NEW j \in DOMAIN b, a[k] = b[j]
      PROVE  a[k] \in Repeated(u)
  <2>1. k \in DOMAIN u /\ j + Len(a) \in DOMAIN u \ {k} /\ u[k] = a[k] /\ u[j + Len(a)] = a[k]
    BY <1>1, <1>3
  <2> QED BY <2>1 DEF Repeated
<1>4. Repeated(u) \subseteq ToSet(a) \cap ToSet(b)
  BY <1>2 DEF Repeated
<1>5. ToSet(a) \cap ToSet(b) \subseteq Repeated(u)
  BY <1>3 DEF ToSet
<1> QED BY <1>4, <1>5 DEF u

LEMMA FdInvImplies == FdInv => DevicesClosedOnce
<1> SUFFICES ASSUME FdInv PROVE DevicesClosedOnce
  OBVIOUS
<1> DEFINE taken == toClose \o closing
           places == taken \o closed
<1>1. places = toClose \o closing \o closed
  OBVIOUS
<1>2. PolledFds = Fds(polled)
  BY TableFds DEF FdInv
<1>3. CASE owner # "gone"
  <2>1. ListsOK
    BY <1>3 DEF FdInv
  <2>2. taken \in Seq(Nat) /\ ToSet(taken) = ToSet(toClose) \cup ToSet(closing) /\ IsInjective(taken)
    BY <2>1, ConcatSets, ConcatIsInjective DEF ListsOK
  <2> HIDE DEF taken
  <2>3. closed \in Seq(Nat) /\ IsInjective(closed) /\ ToSet(taken) \cap ToSet(closed) = {}
    BY <2>1, <2>2 DEF ListsOK
  <2>4. ToSet(places) = ToSet(taken) \cup ToSet(closed) /\ IsInjective(places)
    BY <2>2, <2>3, ConcatSets, ConcatIsInjective
  <2> HIDE DEF places
  <2>5. Repeated(places) = {} /\ ToSet(places) = Given
    BY <2>2, <2>4, InjectiveRepeatsNothing DEF Given
  <2>6. Given \cup Fds(polled) = 0..opened /\ Given \cap Fds(polled) = IF eventFd THEN {} ELSE {EventFd}
    BY <1>3 DEF FdInv
  <2> QED BY <1>1, <1>2, <1>3, <2>5, <2>6 DEF DevicesClosedOnce
<1>4. CASE owner = "gone"
  <2>1. /\ toClose = <<>> /\ closing = <<>> /\ closed \in Seq(Nat)
        /\ ToSet(closed) = 0..opened /\ Repeated(closed) = {EventFd}
    BY <1>4 DEF FdInv
  <2>2. toClose \o closing = <<>>
    BY <2>1
  <2>3. places = closed
    BY <2>1, <2>2
  <2> HIDE DEF places
  <2> QED BY <1>1, <1>4, <2>1, <2>3 DEF DevicesClosedOnce
<1> QED BY <1>3, <1>4

\* A descriptor that is handed over was in no list.
LEMMA HandOverResult ==
  ASSUME ListsOK, ThreadsOK, NEW fd \in Nat, fd \notin Given, HandOver(fd)
  PROVE  /\ ListsOK' /\ Given' = Given \cup {fd}
         /\ closer' # "closes" => closing' = <<>>
         /\ closer = "done" => closer' = "done"
<1>1. /\ toClose' = Append(toClose, fd) /\ closing' = closing /\ closed' = closed /\ closer' = Woken
  BY DEF HandOver
<1>2. /\ toClose' \in Seq(Nat) /\ ToSet(toClose') = ToSet(toClose) \cup {fd}
  BY <1>1, AppendKeeps DEF ListsOK
<1>3. IsInjective(toClose')
  BY <1>1, AppendIsInjective DEF ListsOK, Given
<1> QED BY <1>1, <1>2, <1>3 DEF ListsOK, Given, ThreadsOK, Woken

-----------------------------------------------------------------------------
(* The steps. *)

\* A step that changes what is known of the entries alone.
LEMMA SameTableStep ==
  ASSUME FdInv, TableOK(polled', opened), Fds(polled') = Fds(polled),
         messages' \in Seq([add : BOOLEAN, dev : Devices]), at' \in Nat \ {0},
         UNCHANGED <<opened, closeVars, owner, eventFd>>, owner \in {"notifies", "joinsCloser", "gone"} => reader' = reader
  PROVE  FdInv'
<1>1. (ListsOK => ListsOK') /\ ThreadsOK' /\ Given' = Given /\ UNCHANGED <<toClose, closing, closed>>
  BY DEF FdInv, ListsOK, ThreadsOK, Given, closeVars
<1> QED BY <1>1 DEF FdInv

\* A descriptor goes from the table to the closing thread.
LEMMA HandOverStep ==
  ASSUME FdInv, NEW fd \in Nat, HandOver(fd), reader # "done", UNCHANGED <<reader, owner, eventFd>>,
         messages' \in Seq([add : BOOLEAN, dev : Devices]), at' \in Nat \ {0}, TableOK(polled', opened'),
         \/ opened' = opened /\ fd \in Fds(polled) /\ Fds(polled') = Fds(polled) \ {fd}
         \/ opened' = opened + 1 /\ fd = opened + 1 /\ Fds(polled') = Fds(polled)
  PROVE  FdInv'
<1>1. owner \notin {"notifies", "joinsCloser", "gone"}
  BY DEF FdInv, ThreadsOK
<1>2. /\ Given \cap Fds(polled) = {} /\ Given \cup Fds(polled) = 0..opened /\ opened \in Nat
      /\ ListsOK /\ ThreadsOK /\ eventFd
  BY <1>1 DEF FdInv, ThreadsOK
<1>3. fd \notin Given
  BY <1>2
<1>4. ListsOK' /\ Given' = Given \cup {fd} /\ (closer' # "closes" => closing' = <<>>)
  BY <1>2, <1>3, HandOverResult
<1>5. ThreadsOK'
  BY <1>1, <1>2, <1>4 DEF ThreadsOK
<1>6. Given' \cap Fds(polled') = {} /\ Given' \cup Fds(polled') = 0..opened' /\ opened' \in Nat
  BY <1>2, <1>4
<1> QED BY <1>1, <1>2, <1>4, <1>5, <1>6 DEF FdInv

-----------------------------------------------------------------------------
LEMMA FdInit == JoystickInit => FdInv
<1> SUFFICES ASSUME JoystickInit PROVE FdInv
  OBVIOUS
<1> DEFINE first == <<PollEntry("event", EventFd, 0), PollEntry("hotplug", 1, 0)>>
           rest == [n \in 1..Len(Found) |-> PollEntry("device", n + 1, Found[n])]
<1>1. Found \in Seq(Devices) /\ Len(Found) \in Nat
  <2> DEFINE there == Controllers \cap plugged
  <2>1. IsFiniteSet(there) /\ there \subseteq Devices
    BY JoystickAssumption, FS_Subset
  <2>2. SetToSeq(there) \in Seq(there)
    BY <2>1, SetToSeqLists
  <2> QED BY <2>1, <2>2 DEF Found
<1>2. opened = 1 + Len(Found) /\ polled = first \o rest
  BY DEF JoystickInit
<1>3. first \in Seq(Entry) /\ Len(first) = 2 /\ first[1].fd = 0 /\ first[2].fd = 1
  <2>1. PollEntry("event", EventFd, 0) \in Entry /\ PollEntry("event", EventFd, 0).fd = 0
    BY DEF PollEntry, Entry, Records, Kinds, EventFd
  <2>2. PollEntry("hotplug", 1, 0) \in Entry /\ PollEntry("hotplug", 1, 0).fd = 1
    BY DEF PollEntry, Entry, Records, Kinds, EventFd
  <2> HIDE DEF first
  <2> QED BY <2>1, <2>2 DEF first
<1>4. rest \in Seq(Entry) /\ Len(rest) = Len(Found) /\ \A n \in 1..Len(Found) : rest[n].fd = n + 1
  <2>1. ASSUME NEW n \in 1..Len(Found)
        PROVE  PollEntry("device", n + 1, Found[n]) \in Entry /\ PollEntry("device", n + 1, Found[n]).fd = n + 1
    <3>1. n + 1 \in Nat /\ n + 1 # 0 /\ Found[n] \in Devices
      BY <1>1
    <3> QED BY <3>1 DEF PollEntry, Entry, Records, Kinds, EventFd
  <2>2. rest \in [1..Len(Found) -> Entry]
    BY <2>1
  <2>3. rest \in Seq(Entry) /\ Len(rest) = Len(Found)
    BY <1>1, <2>2
  <2> QED BY <2>1, <2>3
<1> HIDE DEF first, rest
<1>5. /\ polled \in Seq(Entry) /\ Len(polled) = Len(Found) + 2
      /\ \A p \in 1..Len(Found) + 2 : polled[p] = IF p <= 2 THEN first[p] ELSE rest[p - 2]
  <2>1. /\ first \o rest \in Seq(Entry) /\ Len(first \o rest) = Len(first) + Len(rest)
        /\ \A p \in 1..Len(first) + Len(rest) :
             (first \o rest)[p] = IF p <= Len(first) THEN first[p] ELSE rest[p - Len(first)]
    <3>1. first \in Seq(Entry) /\ rest \in Seq(Entry)
      BY <1>3, <1>4
    <3> QED BY <3>1, ConcatProperties
  <2>2. Len(first) + Len(rest) = Len(Found) + 2 /\ Len(first) = 2
    BY <1>1, <1>3, <1>4
  <2> QED BY <1>2, <2>1, <2>2
<1>6. \A p \in 1..Len(polled) : polled[p].fd = p - 1
  <2> SUFFICES ASSUME NEW p \in 1..Len(polled) PROVE polled[p].fd = p - 1
    OBVIOUS
  <2>1. CASE p \in {1, 2}
    BY <1>1, <1>3, <1>5, <2>1
  <2>2. CASE p \notin {1, 2}
    <3>1. p - 2 \in 1..Len(Found) /\ polled[p] = rest[p - 2]
      BY <1>1, <1>5, <2>2
    <3> QED BY <1>1, <1>4, <3>1
  <2> QED BY <2>1, <2>2
<1>7. Fds(polled) = 0..opened /\ Len(polled) = opened + 1 /\ opened \in Nat
  <2>1. Len(polled) = opened + 1 /\ opened \in Nat
    BY <1>1, <1>2, <1>5
  <2>2. Fds(polled) \subseteq 0..opened
    BY <1>6, <2>1 DEF Fds
  <2>3. ASSUME NEW fd \in 0..opened PROVE fd \in Fds(polled)
    <3>1. fd + 1 \in 1..Len(polled)
      BY <2>1
    <3>2. polled[fd + 1].fd = (fd + 1) - 1
      BY <1>6, <3>1
    <3> QED BY <3>1, <3>2 DEF Fds
  <2> QED BY <2>1, <2>2, <2>3
<1>8. TableOK(polled, opened)
  <2>1. \A p \in 1..Len(polled) : polled[p].fd \in 0..opened
    BY <1>6, <1>7
  <2>2. \A p, j \in 1..Len(polled) : polled[p].fd = polled[j].fd => p = j
    BY <1>6, <1>7
  <2> QED BY <1>5, <1>7, <2>1, <2>2 DEF TableOK, EventFd
<1>9. toClose = <<>> /\ closing = <<>> /\ closed = <<>> /\ owner = "polls" /\ eventFd = TRUE /\ at = 1 /\ messages = <<>>
  BY DEF JoystickInit
<1>10. ListsOK /\ Given = {}
  BY <1>9, EmptySequence DEF ListsOK, Given
<1>11. messages \in Seq([add : BOOLEAN, dev : Devices])
  BY <1>9
<1>12. ThreadsOK
  BY <1>9 DEF ThreadsOK
<1> QED BY <1>7, <1>8, <1>9, <1>10, <1>11, <1>12 DEF FdInv

\* What is plugged, moved or lost changes no descriptor.
LEMMA KernelSteps ==
  ASSUME FdInv, NEW d \in Devices,
         \/ Plug(d) \/ Unplug(d)
         \/ \E b \in {"mode", "south", "up"} : MoveButton(d, b)
  PROVE  FdInv'
<1>1. polled \in Seq(Entry) /\ Len(polled) \in Nat /\ \A n \in 1..Len(polled) : polled[n] \in Entry
  BY DEF FdInv, TableOK
<1>2. UNCHANGED <<at, opened, reader, closeVars, owner, eventFd>> /\ at' \in Nat \ {0}
  BY DEF Plug, Unplug, Overrun, MoveButton, tableVars, ownerVars, FdInv
<1>3. messages' \in Seq([add : BOOLEAN, dev : Devices])
  <2>1. messages \in Seq([add : BOOLEAN, dev : Devices])
    BY DEF FdInv
  <2>2. \A add \in BOOLEAN : [add |-> add, dev |-> d] \in [add : BOOLEAN, dev : Devices]
    OBVIOUS
  <2>3. \/ messages' = messages
        \/ \E add \in BOOLEAN : messages' = Append(messages, [add |-> add, dev |-> d])
        \/ messages # <<>> /\ messages' = Tail(messages)
    BY DEF Plug, Unplug, Overrun, MoveButton
  <2> DEFINE Messages == [add : BOOLEAN, dev : Devices]
  <2> HIDE DEF Messages
  <2>4. \A m \in Messages : Append(messages, m) \in Seq(Messages)
    BY <2>1 DEF Messages
  <2>5. messages # <<>> => Tail(messages) \in Seq(Messages)
    BY <2>1 DEF Messages
  <2> QED BY <2>1, <2>2, <2>3, <2>4, <2>5 DEF Messages
<1>4. /\ polled' \in Seq(Entry) /\ Len(polled') = Len(polled)
      /\ \A n \in 1..Len(polled) : polled'[n].fd = polled[n].fd
  <2>1. CASE polled' = polled
    BY <1>1, <2>1
  <2>2. CASE Unplug(d)
    <3> DEFINE hungUp(e) == [e EXCEPT !.gone = TRUE, !.events = <<>>]
               q == [n \in DOMAIN polled |-> IF polled[n].dev = d THEN hungUp(polled[n]) ELSE polled[n]]
    <3>1. ASSUME NEW e \in Entry PROVE hungUp(e) \in Entry /\ hungUp(e).fd = e.fd
      <4>1. <<>> \in Seq(Moves)
        OBVIOUS
      <4> QED BY <4>1 DEF Entry, Records
    <3>2. polled' = q
      BY <2>2 DEF Unplug
    <3> HIDE DEF hungUp
    <3>3. q \in [1..Len(polled) -> Entry] /\ \A n \in 1..Len(polled) : q[n].fd = polled[n].fd
      BY <1>1, <3>1
    <3> HIDE DEF q
    <3> QED BY <1>1, <3>2, <3>3
  <2>3. ASSUME NEW b \in {"mode", "south", "up"}, MoveButton(d, b)
        PROVE  /\ polled' \in Seq(Entry) /\ Len(polled') = Len(polled)
               /\ \A n \in 1..Len(polled) : polled'[n].fd = polled[n].fd
    <3> DEFINE move == [button |-> b, down |-> b \notin held[d]]
               moved(e) == [e EXCEPT !.events = Append(@, move)]
               q == [n \in DOMAIN polled |->
                       IF polled[n].dev = d /\ ~polled[n].gone THEN moved(polled[n]) ELSE polled[n]]
    <3>1. ASSUME NEW e \in Entry PROVE moved(e) \in Entry /\ moved(e).fd = e.fd
      <4>1. move \in Moves /\ e.events \in Seq(Moves)
        BY DEF Moves, Entry, Records
      <4> HIDE DEF move
      <4>2. Append(e.events, move) \in Seq(Moves)
        BY <4>1
      <4> QED BY <4>2 DEF Entry, Records
    <3>2. polled' = q
      BY <2>3 DEF MoveButton
    <3> HIDE DEF moved
    <3>3. q \in [1..Len(polled) -> Entry] /\ \A n \in 1..Len(polled) : q[n].fd = polled[n].fd
      BY <1>1, <3>1
    <3> HIDE DEF q
    <3> QED BY <1>1, <3>2, <3>3
  <2>4. Plug(d) \/ Overrun => polled' = polled
    BY DEF Plug, Overrun, tableVars
  <2> QED BY <2>1, <2>2, <2>3, <2>4
<1>5. TableOK(polled', opened) /\ Fds(polled') = Fds(polled)
  BY <1>4, SameFds DEF FdInv
<1> QED BY <1>2, <1>3, <1>5, SameTableStep

-----------------------------------------------------------------------------
(* The reading thread. *)

\* Where the thread looks there is an entry, and it has not been told to end.
LEMMA WalksInTable ==
  ASSUME FdInv, Walks
  PROVE  /\ polled \in Seq(Entry) /\ at \in 1..Len(polled) /\ polled[at] \in Entry
         /\ reader # "done" /\ owner \notin {"notifies", "joinsCloser", "gone"}
<1>1. polled \in Seq(Entry) /\ at \in Nat \ {0} /\ at <= Len(polled)
  BY DEF Walks, FdInv, TableOK
<1>2. at \in 1..Len(polled)
  BY <1>1
<1> QED BY <1>1, <1>2 DEF Walks, FdInv, ThreadsOK

LEMMA PollStep ==
  ASSUME FdInv, PollFds
  PROVE  FdInv'
<1> DEFINE readied(e) == [e EXCEPT !.revents = Ready(e)]
           q == [n \in DOMAIN polled |-> readied(polled[n])]
<1>1. polled \in Seq(Entry) /\ Len(polled) \in Nat /\ \A n \in 1..Len(polled) : polled[n] \in Entry
  BY DEF FdInv, TableOK
<1>2. ASSUME NEW e \in Entry PROVE readied(e) \in Entry /\ readied(e).fd = e.fd
  <2>1. Ready(e) \in SUBSET {"in", "err"} /\ (e.kind = "event" => "err" \notin Ready(e))
    BY DEF Ready
  <2> QED BY <2>1 DEF Entry, Records
<1>3. polled' = q
  BY DEF PollFds
<1> HIDE DEF readied
<1>4. q \in [1..Len(polled) -> Entry] /\ \A n \in 1..Len(polled) : q[n].fd = polled[n].fd
  BY <1>1, <1>2
<1> HIDE DEF q
<1>5. q \in Seq(Entry) /\ Len(q) = Len(polled) /\ TableOK(polled, opened) /\ opened \in Nat
  BY <1>1, <1>4 DEF FdInv
<1>6. TableOK(q, opened) /\ Fds(q) = Fds(polled)
  BY <1>4, <1>5, SameFds
<1>7. /\ at' = 1 /\ UNCHANGED <<opened, messages, closeVars, owner, eventFd>> /\ reader = "polls"
  BY DEF PollFds, kernelVars, ownerVars
<1>8. messages' \in Seq([add : BOOLEAN, dev : Devices]) /\ owner \notin {"notifies", "joinsCloser", "gone"}
  BY <1>7 DEF FdInv, ThreadsOK
<1>9. at' \in Nat \ {0}
  BY <1>7
<1> QED BY <1>3, <1>6, <1>7, <1>8, <1>9, SameTableStep

\* Steps over an entry whose descriptor stays.
LEMMA WalkSteps ==
  ASSUME FdInv, EndWalk \/ Quiet \/ ReadExit
  PROVE  FdInv'
<1>1. at \in Nat \ {0} /\ messages \in Seq([add : BOOLEAN, dev : Devices]) /\ TableOK(polled, opened)
  BY DEF FdInv
<1>2. UNCHANGED <<polled, opened, messages, closeVars, owner, eventFd>> /\ at' \in {at, at + 1} /\ reader # "done"
  BY DEF EndWalk, Quiet, ReadExit, Walks, Step, kernelVars, tableVars, ownerVars
<1>3. at' \in Nat \ {0}
  BY <1>1, <1>2
<1>4. owner \notin {"notifies", "joinsCloser", "gone"}
  BY <1>2 DEF FdInv, ThreadsOK
<1> QED BY <1>1, <1>2, <1>3, <1>4, SameTableStep

LEMMA InputSteps ==
  ASSUME FdInv, ReadAsHotplug \/ ReadInput
  PROVE  FdInv'
<1>1. /\ polled \in Seq(Entry) /\ at \in 1..Len(polled) /\ polled[at] \in Entry
      /\ owner \notin {"notifies", "joinsCloser", "gone"}
  BY WalksInTable DEF ReadAsHotplug, ReadInput
<1>2. UNCHANGED <<opened, messages, closeVars, owner, eventFd>> /\ at' = at + 1
  BY DEF ReadAsHotplug, ReadInput, Step, kernelVars, ownerVars
<1>3. messages' \in Seq([add : BOOLEAN, dev : Devices]) /\ at' \in Nat \ {0} /\ TableOK(polled, opened) /\ opened \in Nat
  BY <1>1, <1>2 DEF FdInv
<1> DEFINE taken(events) == [polled EXCEPT ![at].events = events, ![at].revents = {}]
           read(events) == [polled[at] EXCEPT !.events = events, !.revents = {}]
<1>4. ASSUME NEW events \in Seq(Moves), polled' = taken(events)
      PROVE  TableOK(polled', opened) /\ Fds(polled') = Fds(polled)
  <2>1. read(events) \in Entry /\ read(events).fd = polled[at].fd
    BY <1>1 DEF Entry, Records
  <2>2. taken(events) = [polled EXCEPT ![at] = read(events)]
    BY <1>1
  <2> DEFINE e == read(events)
  <2>3. polled' = [polled EXCEPT ![at] = e] /\ e \in Entry /\ e.fd = polled[at].fd
    BY <1>4, <2>1, <2>2
  <2> HIDE DEF e
  <2>4. polled' \in Seq(Entry) /\ Len(polled') = Len(polled) /\ \A p \in 1..Len(polled) : polled'[p].fd = polled[p].fd
    BY <1>1, <2>3
  <2> QED BY <1>3, <2>4, SameFds
<1>5. polled' = Cleared(polled, at) \/ \E events \in Seq(Moves) : polled' = taken(events)
  <2>1. CASE ReadAsHotplug
    <3>1. <<>> \in Seq(Moves) /\ polled' = taken(<<>>)
      BY <2>1 DEF ReadAsHotplug
    <3> QED BY <3>1
  <2>2. CASE ReadInput /\ polled[at].events # <<>>
    <3>1. polled[at].events \in Seq(Moves)
      BY <1>1 DEF Entry, Records
    <3>2. Tail(polled[at].events) \in Seq(Moves)
      BY <2>2, <3>1
    <3>3. polled' = [polled EXCEPT ![at].events = Tail(@), ![at].revents = {}]
      BY <2>2 DEF ReadInput
    <3>4. polled' = taken(Tail(polled[at].events))
      BY <1>1, <3>3
    <3> QED BY <3>2, <3>4
  <2>3. CASE ReadInput /\ polled[at].events = <<>>
    BY <2>3 DEF ReadInput
  <2> QED BY <2>1, <2>2, <2>3
<1>6. TableOK(polled', opened) /\ Fds(polled') = Fds(polled)
  <2>1. CASE polled' = Cleared(polled, at)
    BY <1>1, <1>3, <2>1, ClearedTable
  <2>2. CASE \E events \in Seq(Moves) : polled' = taken(events)
    BY <1>4, <2>2
  <2> QED BY <1>5, <2>1, <2>2
<1> QED BY <1>1, <1>2, <1>3, <1>6, SameTableStep

LEMMA DropStep ==
  ASSUME FdInv, DropEntry
  PROVE  FdInv'
<1>1. /\ polled \in Seq(Entry) /\ at \in 1..Len(polled) /\ polled[at] \in Entry /\ reader # "done"
  BY WalksInTable DEF DropEntry
<1>2. /\ HandOver(polled[at].fd) /\ polled' = RemoveAt(polled, at) /\ at' = at
      /\ UNCHANGED <<opened, messages, reader, owner, eventFd>>
  BY DEF DropEntry, Step, kernelVars, ownerVars
<1>3. polled[at].kind # "event" /\ polled[at].fd \in Nat
  BY <1>1 DEF DropEntry, Entry, Records
<1>4. /\ TableOK(polled', opened) /\ Fds(polled') = Fds(polled) \ {polled[at].fd}
      /\ polled[at].fd \in Fds(polled)
  BY <1>1, <1>2, <1>3, EntryRemoved DEF FdInv
<1>5. messages' \in Seq([add : BOOLEAN, dev : Devices]) /\ at' \in Nat \ {0} /\ opened' = opened
  BY <1>2 DEF FdInv
<1> QED BY <1>1, <1>2, <1>3, <1>4, <1>5, HandOverStep

\* The first entry of a device has its number.
LEMMA IndexOfResult ==
  ASSUME NEW d, IndexOf(d) # 0, Len(polled) \in Nat
  PROVE  IndexOf(d) \in 1..Len(polled) /\ polled[IndexOf(d)].dev = d
<1> DEFINE I == {p \in 1..Len(polled) : polled[p].dev = d}
<1>1. I # {} /\ IndexOf(d) = Min(I)
  BY DEF IndexOf, SelectInSeq
<1>2. I \in SUBSET Nat
  BY DEF I
<1> HIDE DEF I
<1>3. IndexOf(d) \in I
  BY <1>1, <1>2, MinIsMember
<1> QED BY <1>3 DEF I

LEMMA AddStep ==
  ASSUME FdInv, Walks, NEW d \in Devices, AddDevice(d), at' = at + 1, UNCHANGED <<reader, owner, eventFd>>,
         messages' \in Seq([add : BOOLEAN, dev : Devices])
  PROVE  FdInv'
<1>1. /\ polled \in Seq(Entry) /\ at \in 1..Len(polled) /\ polled[at] \in Entry
      /\ reader # "done" /\ owner \notin {"notifies", "joinsCloser", "gone"}
  BY WalksInTable
<1>2. at' \in Nat \ {0} /\ opened \in Nat /\ TableOK(polled, opened)
  BY <1>1 DEF FdInv
<1> DEFINE cleared == Cleared(polled, at)
           entry == PollEntry("device", opened + 1, d)
<1>3. TableOK(cleared, opened) /\ Fds(cleared) = Fds(polled)
  BY <1>1, <1>2, ClearedTable
<1>4. CASE polled' = cleared /\ UNCHANGED <<opened, closeVars>>
  BY <1>1, <1>2, <1>3, <1>4, SameTableStep
<1>5. CASE polled' = Append(cleared, entry) /\ opened' = opened + 1 /\ UNCHANGED closeVars
  <2>1. <<>> \in Seq(Moves)
    OBVIOUS
  <2>2. entry \in Entry /\ entry.fd = opened + 1
    BY <1>2, <2>1 DEF PollEntry, Entry, Records, Kinds, EventFd
  <2> HIDE DEF entry, cleared
  <2>3. TableOK(polled', opened + 1) /\ Fds(polled') = Fds(polled) \cup {opened + 1}
    BY <1>2, <1>3, <1>5, <2>2, EntryAdded
  <2>4. ListsOK' /\ ThreadsOK' /\ Given' = Given
    BY <1>1, <1>5 DEF FdInv, ListsOK, ThreadsOK, Given, closeVars
  <2>5. Given \cap Fds(polled) = {} /\ Given \cup Fds(polled) = 0..opened /\ eventFd
    BY <1>1 DEF FdInv, ThreadsOK
  <2>6. Given \cap Fds(polled') = {} /\ Given \cup Fds(polled') = 0..opened + 1
    BY <1>2, <2>3, <2>5
  <2> QED BY <1>1, <1>2, <1>5, <2>3, <2>4, <2>6 DEF FdInv
<1>6. CASE polled' = cleared /\ opened' = opened + 1 /\ HandOver(opened')
  <2>1. TableOK(polled', opened') /\ opened' \in Nat
    BY <1>2, <1>3, <1>6, TableGrows
  <2> HIDE DEF cleared
  <2> QED BY <1>1, <1>2, <1>3, <1>6, <2>1, HandOverStep
<1> QED BY <1>4, <1>5, <1>6 DEF AddDevice

LEMMA RemoveStep ==
  ASSUME FdInv, Walks, at = HotplugIndex, NEW d \in Devices, RemoveDevice(d), UNCHANGED <<opened, reader, owner, eventFd>>,
         messages' \in Seq([add : BOOLEAN, dev : Devices])
  PROVE  FdInv'
<1>1. /\ polled \in Seq(Entry) /\ at \in 1..Len(polled) /\ polled[at] \in Entry /\ Len(polled) \in Nat
      /\ reader # "done" /\ owner \notin {"notifies", "joinsCloser", "gone"}
  BY WalksInTable
<1>2. opened \in Nat /\ TableOK(polled, opened)
  BY DEF FdInv
<1>3. CASE IndexOf(d) = 0
  <2>1. polled' = Cleared(polled, at) /\ at' = at + 1 /\ UNCHANGED closeVars
    BY <1>3 DEF RemoveDevice
  <2>2. TableOK(polled', opened) /\ Fds(polled') = Fds(polled) /\ at' \in Nat \ {0}
    BY <1>1, <1>2, <2>1, ClearedTable
  <2> QED BY <1>1, <2>1, <2>2, SameTableStep
<1>4. CASE IndexOf(d) # 0
  <2> DEFINE k == IndexOf(d)
             cleared == Cleared(polled, at - 1)
             fd == polled[k].fd
  <2>1. HandOver(fd) /\ polled' = RemoveAt(cleared, k) /\ at' = at
    BY <1>4 DEF RemoveDevice
  <2>2. k \in 1..Len(polled) /\ polled[k].dev = d
    BY <1>1, <1>4, IndexOfResult
  <2> HIDE DEF k
  <2>3. polled[k].kind # "event" /\ fd \in Nat
    <3>1. polled[k] \in Entry
      BY <1>1, <2>2
    <3> QED BY <2>2, <3>1, JoystickAssumption DEF Entry, Records
  <2>4. at - 1 \in 1..Len(polled)
    BY <1>1 DEF HotplugIndex
  <2>5. /\ TableOK(cleared, opened) /\ Fds(cleared) = Fds(polled) /\ Len(cleared) = Len(polled)
        /\ cleared[k].kind = polled[k].kind /\ cleared[k].fd = fd
    BY <1>2, <2>2, <2>4, ClearedTable
  <2> HIDE DEF cleared
  <2>6. TableOK(polled', opened) /\ Fds(polled') = Fds(polled) \ {fd} /\ fd \in Fds(polled)
    BY <1>2, <2>1, <2>2, <2>3, <2>5, EntryRemoved
  <2> HIDE DEF fd
  <2>7. at' \in Nat \ {0} /\ opened' = opened
    BY <1>1, <2>1
  <2> QED BY <1>1, <2>1, <2>3, <2>6, <2>7, HandOverStep
<1> QED BY <1>3, <1>4

LEMMA HotplugStep ==
  ASSUME FdInv, ReadHotplug
  PROVE  FdInv'
<1> DEFINE message == Head(messages)
<1>1. /\ Walks /\ at = HotplugIndex /\ messages # <<>> /\ messages' = Tail(messages) /\ UNCHANGED <<reader, owner, eventFd>>
      /\ IF message.add THEN AddDevice(message.dev) /\ at' = at + 1
         ELSE RemoveDevice(message.dev) /\ UNCHANGED opened
  BY DEF ReadHotplug, ownerVars
<1>2. messages' \in Seq([add : BOOLEAN, dev : Devices]) /\ message \in [add : BOOLEAN, dev : Devices]
  <2> DEFINE Messages == [add : BOOLEAN, dev : Devices]
  <2>1. messages \in Seq(Messages)
    BY DEF FdInv
  <2> HIDE DEF Messages
  <2>2. Tail(messages) \in Seq(Messages) /\ Head(messages) \in Messages
    BY <1>1, <2>1
  <2> QED BY <1>1, <2>2 DEF Messages
<1>3. message.dev \in Devices
  BY <1>2
<1> HIDE DEF message
<1> QED BY <1>1, <1>2, <1>3, AddStep, RemoveStep

-----------------------------------------------------------------------------
(* The closing thread and the main thread. *)

LEMMA CloserSteps ==
  ASSUME FdInv, CloserNext
  PROVE  FdInv'
<1>1. UNCHANGED <<polled, opened, at, messages, reader, owner, eventFd>>
  BY DEF CloserNext, TestEvent, TestCondition, StartWait, TakeFds, CloseFds, CloserStep, kernelVars, tableVars, ownerVars
<1>2. closer # "done" /\ owner # "gone" /\ ListsOK
  <2>1. closer # "done"
    BY DEF CloserNext, TestEvent, TestCondition, StartWait, TakeFds, CloseFds, CloserStep
  <2> QED BY <2>1 DEF FdInv, ThreadsOK
<1>3. ListsOK' /\ Given' = Given /\ (closer' # "closes" => closing' = <<>>)
  <2>1. CASE TestEvent \/ TestCondition \/ StartWait
    BY <1>2, <2>1 DEF TestEvent, TestCondition, StartWait, CloserStep, FdInv, ListsOK, ThreadsOK, Given
  <2>2. CASE TakeFds
    <3>1. closing = <<>> /\ closing' = toClose /\ toClose' = <<>> /\ closed' = closed /\ closer' = "closes"
      BY <2>2 DEF TakeFds, CloserStep, FdInv, ThreadsOK
    <3>2. <<>> \in Seq(Nat)
      OBVIOUS
    <3> QED BY <1>2, <3>1, <3>2, EmptySequence DEF ListsOK, Given
  <2>3. CASE CloseFds
    <3>1. closed' = closed \o closing /\ closing' = <<>> /\ toClose' = toClose /\ closer' = "tests"
      BY <2>3 DEF CloseFds, CloserStep
    <3>2. <<>> \in Seq(Nat)
      OBVIOUS
    <3>3. /\ closed' \in Seq(Nat) /\ ToSet(closed') = ToSet(closed) \cup ToSet(closing)
      BY <1>2, <3>1, ConcatSets DEF ListsOK
    <3>4. IsInjective(closed')
      BY <1>2, <3>1, ConcatIsInjective DEF ListsOK
    <3> QED BY <1>2, <3>1, <3>2, <3>3, <3>4, EmptySequence DEF ListsOK, Given
  <2> QED BY <2>1, <2>2, <2>3 DEF CloserNext
<1> QED BY <1>1, <1>2, <1>3 DEF FdInv, ThreadsOK

\* The destructor closes what is left, when both threads have ended.
LEMMA JoinStep ==
  ASSUME FdInv, JoinCloser
  PROVE  FdInv'
<1> DEFINE left == SetToSeq(PolledFds)
           both == closed \o toClose
<1>1. /\ owner = "joinsCloser" /\ owner' = "gone" /\ closer = "done" /\ closing = <<>>
      /\ toClose' = <<>> /\ closed' = closed \o toClose \o left
      /\ UNCHANGED <<polled, opened, at, messages, reader, closing, closer, eventFd>>
  BY DEF JoinCloser, OwnerStep, kernelVars, tableVars, FdInv, ThreadsOK
<1>2. PolledFds = Fds(polled) /\ PolledFds \subseteq 0..opened /\ opened \in Nat
  BY TableFds DEF FdInv
<1>3. left \in Seq(Nat) /\ IsInjective(left) /\ ToSet(left) = Fds(polled)
  <2>1. IsFiniteSet(PolledFds)
    <3>1. IsFiniteSet(0..opened)
      BY <1>2, FS_Interval
    <3> QED BY <1>2, <3>1, FS_Subset
  <2>2. left \in Seq(PolledFds) /\ IsInjective(left) /\ ToSet(left) = PolledFds
    BY <2>1, SetToSeqLists
  <2> HIDE DEF left
  <2> QED BY <1>2, <2>2
<1> HIDE DEF left
<1>4. /\ ListsOK /\ Given \cup Fds(polled) = 0..opened /\ ~eventFd
      /\ Given \cap Fds(polled) = {EventFd}
  BY <1>1 DEF FdInv, ThreadsOK
<1>5. both \in Seq(Nat) /\ ToSet(both) = Given /\ IsInjective(both)
  <2>1. both \in Seq(Nat) /\ ToSet(both) = ToSet(closed) \cup ToSet(toClose)
    BY <1>4, ConcatSets DEF ListsOK
  <2>2. IsInjective(both)
    BY <1>4, ConcatIsInjective DEF ListsOK
  <2> HIDE DEF both
  <2> QED BY <1>1, <2>1, <2>2, EmptySequence DEF Given
<1>6. closed' = both \o left
  BY <1>1
<1> HIDE DEF both
<1>7. closed' \in Seq(Nat) /\ ToSet(closed') = 0..opened /\ Repeated(closed') = {EventFd}
  <2>1. closed' \in Seq(Nat) /\ ToSet(closed') = ToSet(both) \cup ToSet(left)
    BY <1>3, <1>5, <1>6, ConcatSets
  <2>2. Repeated(closed') = ToSet(both) \cap ToSet(left)
    BY <1>3, <1>5, <1>6, ConcatRepeats
  <2> QED BY <1>3, <1>4, <1>5, <2>1, <2>2
<1>8. ThreadsOK'
  BY <1>1 DEF FdInv, ThreadsOK
<1> QED BY <1>1, <1>7, <1>8 DEF FdInv

\* The event's descriptor is closed, while it is still in the table.
LEMMA JoinReaderStep ==
  ASSUME FdInv, JoinReader
  PROVE  FdInv'
<1>1. /\ owner = "joinsReader" /\ owner' = "notifies" /\ reader = "done" /\ eventFd' = FALSE
      /\ closed' = Append(closed, EventFd)
      /\ UNCHANGED <<polled, opened, at, messages, reader, toClose, closing, closer>>
  BY DEF JoinReader, OwnerStep, kernelVars, tableVars
<1>2. /\ ListsOK /\ ThreadsOK /\ eventFd /\ Given \cap Fds(polled) = {} /\ Given \cup Fds(polled) = 0..opened
      /\ EventFd \in Fds(polled) /\ EventFd \in Nat
  BY <1>1 DEF FdInv, ThreadsOK, TableOK, EventFd
<1>3. closed' \in Seq(Nat) /\ ToSet(closed') = ToSet(closed) \cup {EventFd} /\ EventFd \notin Given
  <2>1. closed \in Seq(Nat)
    BY <1>2 DEF ListsOK
  <2>2. closed' \in Seq(Nat) /\ ToSet(closed') = ToSet(closed) \cup {EventFd}
    BY <1>1, <1>2, <2>1, AppendKeeps
  <2> QED BY <1>2, <2>2
<1>4. IsInjective(closed')
  BY <1>1, <1>2, <1>3, AppendIsInjective DEF ListsOK, Given
<1>5. ListsOK' /\ Given' = Given \cup {EventFd}
  BY <1>1, <1>2, <1>3, <1>4 DEF ListsOK, Given
<1>6. Given' \cap Fds(polled) = {EventFd} /\ Given' \cup Fds(polled) = 0..opened
  BY <1>2, <1>5
<1>7. ThreadsOK'
  BY <1>1, <1>2 DEF ThreadsOK
<1> QED BY <1>1, <1>5, <1>6, <1>7 DEF FdInv

LEMMA OwnerSteps ==
  ASSUME FdInv, OwnerNext
  PROVE  FdInv'
<1>1. CASE \E a \in ControllerActions : TakeAction(a)
  BY <1>1 DEF TakeAction, FdInv, ListsOK, ThreadsOK, Given, kernelVars, tableVars, closeVars, ownerVars
<1>2. CASE WriteExit
  BY <1>2 DEF WriteExit, OwnerStep, FdInv, ListsOK, ThreadsOK, Given, kernelVars, tableVars, closeVars
<1>3. CASE NotifyCloser
  BY <1>3 DEF NotifyCloser, OwnerStep, Woken, FdInv, ListsOK, ThreadsOK, Given, kernelVars, tableVars
<1> QED BY <1>1, <1>2, <1>3, JoinReaderStep, JoinStep DEF OwnerNext

LEMMA FdNext ==
  ASSUME FdInv, [JoystickNext]_joystickVars
  PROVE  FdInv'
<1>1. CASE UNCHANGED joystickVars
  BY <1>1 DEF joystickVars, FdInv, ListsOK, ThreadsOK, Given
<1>2. CASE \E d \in Devices : Plug(d) \/ Unplug(d) \/ \E b \in {"mode", "south", "up"} : MoveButton(d, b)
  BY <1>2, KernelSteps
<1>3. CASE Overrun
  <2>1. messages # <<>> /\ messages \in Seq([add : BOOLEAN, dev : Devices]) /\ messages' = Tail(messages)
    BY <1>3 DEF Overrun, FdInv
  <2>2. messages' \in Seq([add : BOOLEAN, dev : Devices])
    BY <2>1
  <2>3. UNCHANGED <<tableVars, reader, closeVars, owner, eventFd>>
    BY <1>3 DEF Overrun, ownerVars
  <2> QED BY <2>2, <2>3 DEF FdInv, ListsOK, ThreadsOK, Given, tableVars, closeVars
<1>4. CASE ReaderNext
  BY <1>4, PollStep, WalkSteps, DropStep, HotplugStep, InputSteps DEF ReaderNext
<1> QED BY <1>1, <1>2, <1>3, <1>4, CloserSteps, OwnerSteps DEF JoystickNext

\* However devices come and go, whichever messages are lost and whenever the
\* program ends, a descriptor is polled, handed over or closed, in one of these
\* places, and that of a device or of the hotplug socket is closed once when the
\* object is gone; the event's is closed while it is still polled, and a second
\* time with what is polled (src/src/GlobalHotkeys/GlobalHotkeysJoystick.cpp,
\* close_fds, remove_poll_fd, remove_device and the destructor).
THEOREM JoystickSpec_DevicesClosedOnce == JoystickSpec => []DevicesClosedOnce
BY FdInit, FdNext, FdInvImplies, PTL DEF JoystickSpec
=============================================================================
