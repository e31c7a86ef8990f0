--------------------------------- MODULE Rpc ---------------------------------
(***************************************************************************)
(* The command server of gsr-ui (src/Rpc.cpp) and its clients, gsr-ui-cli  *)
(* and a second gsr-ui.  A client connects, writes one whole command, or   *)
(* none when it only asks for the status, and closes.  The server handles  *)
(* its poll slots one after another; the clients run between two slots.    *)
(*                                                                         *)
(* A command fits in one write and one read, so the buffer of a slot is    *)
(* empty between two reads and is not modelled.  A listening socket of     *)
(* this kind has neither POLLERR nor POLLHUP.                              *)
(***************************************************************************)
EXTENDS Naturals, Sequences, FiniteSets

CONSTANTS
    Clients,
    MaxConnections  \* GSR_RPC_MAX_CONNECTIONS

ASSUME RpcAssumption == MaxConnections \in Nat \ {0}

Listener == "listener"  \* socket_fd
NoFd     == "none"      \* the -1 of an accept without a connection

ASSUME ClientsAssumption == Listener \notin Clients /\ NoFd \notin Clients

VARIABLES
    conn,      \* the connection of each client
    executed,  \* how often the command of the connection was executed
    backlog,   \* connections not yet accepted
    polls,     \* polls[0 .. num_polls-1]: a file descriptor and its revents
    i          \* the slot that is looked at; 0 before the call of ::poll

serverVars == <<polls, i>>
vars == <<conn, executed, backlog, polls, i>>

MaxPolls == 1 + MaxConnections

\* server: what the server did with the connection; refused is accepted without a
\* slot.  unread: the command is in the socket.  gone: the client has closed.
Connection == [server : {"none", "queued", "open", "refused", "closed"},
               sent : BOOLEAN, unread : BOOLEAN, gone : BOOLEAN]
NoConnection == [server |-> "none", sent |-> FALSE, unread |-> FALSE, gone |-> FALSE]

Slot == [fd : Clients \cup {Listener, NoFd}, in : BOOLEAN, hup : BOOLEAN]
SlotOf(fd) == [fd |-> fd, in |-> FALSE, hup |-> FALSE]

Init ==
    /\ conn = [c \in Clients |-> NoConnection]
    /\ executed = [c \in Clients |-> 0]
    /\ backlog = <<>>
    /\ polls = <<SlotOf(Listener)>>
    /\ i = 0

-----------------------------------------------------------------------------
(* The clients. *)

\* connect, tried again while the backlog is full.  A client that is done runs
\* again as a new process.
Connect(c) ==
    /\ conn[c].server = "none" \/ (conn[c].gone /\ conn[c].server \in {"closed", "refused"})
    /\ Len(backlog) <= MaxConnections
    /\ conn' = [conn EXCEPT ![c] = [NoConnection EXCEPT !.server = "queued"]]
    /\ executed' = [executed EXCEPT ![c] = 0]
    /\ backlog' = Append(backlog, c)
    /\ UNCHANGED serverVars

Send(c) ==
    /\ conn[c].server # "none" /\ ~conn[c].sent /\ ~conn[c].gone
    /\ conn' = [conn EXCEPT ![c].sent = TRUE, ![c].unread = TRUE]
    /\ UNCHANGED <<executed, backlog, serverVars>>

Close(c) ==
    /\ conn[c].server # "none" /\ ~conn[c].gone
    /\ conn' = [conn EXCEPT ![c].gone = TRUE]
    /\ UNCHANGED <<executed, backlog, serverVars>>

-----------------------------------------------------------------------------
(* The server. *)

Readable(fd) ==
    IF fd = Listener THEN backlog # <<>>
    ELSE fd # NoFd /\ (conn[fd].unread \/ conn[fd].gone)
HungUp(fd) == fd \in Clients /\ conn[fd].gone

Poll ==
    /\ i = 0
    /\ \E k \in DOMAIN polls : Readable(polls[k].fd)
    /\ polls' = [k \in DOMAIN polls |->
                    [fd |-> polls[k].fd, in |-> Readable(polls[k].fd),
                     hup |-> HungUp(polls[k].fd)]]
    /\ i' = 1
    /\ UNCHANGED <<conn, executed, backlog>>

\* The index moves past the last slot, or on.
NextSlot(n) == i' = IF i < n THEN i + 1 ELSE 0

\* Faulty variant: a connection is left in the backlog while there is no slot.
AcceptWhenFree ==
    /\ i > 0 /\ polls[i].fd = Listener
    /\ LET fd == IF backlog = <<>> THEN NoFd ELSE Head(backlog)
           full == Len(polls) >= MaxPolls
       IN  /\ polls' = IF full THEN polls ELSE Append(polls, SlotOf(fd))
           /\ IF full \/ fd = NoFd
              THEN UNCHANGED <<conn, backlog>>
              ELSE /\ conn' = [conn EXCEPT ![fd].server = "open"]
                   /\ backlog' = Tail(backlog)
    /\ NextSlot(Len(polls'))
    /\ UNCHANGED executed

\* accept4 is called whether or not a connection waits, and its result stored
\* whether or not there is one.
Accept ==
    /\ i > 0 /\ polls[i].fd = Listener
    /\ LET fd == IF backlog = <<>> THEN NoFd ELSE Head(backlog)
           full == Len(polls) >= MaxPolls
       IN  /\ polls' = IF full THEN polls ELSE Append(polls, SlotOf(fd))
           /\ IF fd = NoFd
              THEN UNCHANGED <<conn, backlog>>
              ELSE /\ conn' = [conn EXCEPT ![fd].server = IF full THEN "refused" ELSE "open"]
                   /\ backlog' = Tail(backlog)
    /\ NextSlot(Len(polls'))
    /\ UNCHANGED executed

\* Faulty variant: the slots behind the closed one are dropped with it.
RemoveSlots ==
    /\ polls' = SubSeq(polls, 1, i - 1)
    /\ i' = 0

\* The last slot takes the place of slot j.
WithoutSlot(s, j) == SubSeq([s EXCEPT ![j] = s[Len(s)]], 1, Len(s) - 1)

\* The slot that takes the place of the closed one is looked at next.
RemoveSlot ==
    /\ polls' = WithoutSlot(polls, i)
    /\ i' = IF i <= Len(polls) - 1 THEN i ELSE 0

\* Faulty variant: a connection that hung up is closed without being read.
HandleClientUnread ==
    /\ i > 0 /\ polls[i].fd # Listener
    /\ LET s == polls[i]  c == s.fd IN
       IF s.hup
       THEN /\ conn' = [conn EXCEPT ![c].server = "closed"]
            /\ RemoveSlot
            /\ UNCHANGED <<executed, backlog>>
       ELSE /\ IF s.in /\ conn[c].unread
               THEN /\ executed' = [executed EXCEPT ![c] = @ + 1]
                    /\ conn' = [conn EXCEPT ![c].unread = FALSE]
               ELSE UNCHANGED <<conn, executed>>
            /\ polls' = [polls EXCEPT ![i] = SlotOf(c)]
            /\ NextSlot(Len(polls))
            /\ UNCHANGED backlog

HandleClient ==
    /\ i > 0 /\ polls[i].fd # Listener
    /\ LET s == polls[i]
           c == s.fd
           read == s.in /\ c # NoFd /\ conn[c].unread
       IN  /\ executed' = IF read THEN [executed EXCEPT ![c] = @ + 1] ELSE executed
           /\ conn' = IF c = NoFd THEN conn
                      ELSE [conn EXCEPT ![c].unread = @ /\ ~read,
                                        ![c].server = IF s.hup THEN "closed" ELSE @]
           /\ IF s.hup
              THEN RemoveSlot
              ELSE polls' = [polls EXCEPT ![i] = SlotOf(c)] /\ NextSlot(Len(polls))
    /\ UNCHANGED backlog

Server == Poll \/ Accept \/ HandleClient

Next == Server \/ \E c \in Clients : Connect(c) \/ Send(c) \/ Close(c)

Spec == Init /\ [][Next]_vars

\* The main loop polls in every frame; the clients need not go on.
FairSpec == Spec /\ WF_vars(Server)

-----------------------------------------------------------------------------
(* Properties. *)

Open == {c \in Clients : conn[c].server = "open"}

\* The type invariant; no slot is written past the end of the array.
TypeOK ==
    /\ conn \in [Clients -> Connection]
    /\ executed \in [Clients -> 0 .. 1]
    /\ backlog \in Seq(Clients)
    /\ polls \in Seq(Slot)
    /\ Len(polls) \in 1 .. MaxPolls
    /\ i \in 0 .. Len(polls)

\* However slots are appended and moved while they are walked over, the listener
\* keeps the first one and each open connection exactly one: none is closed twice,
\* read after it was closed, or forgotten.
SlotsAreConnections ==
    /\ \A k \in DOMAIN polls : polls[k].fd = Listener <=> k = 1
    /\ \A c \in Clients : conn[c].server = "open" <=> \E k \in DOMAIN polls : polls[k].fd = c
    /\ \A j, k \in DOMAIN polls :
          polls[j].fd = polls[k].fd /\ polls[j].fd # NoFd => j = k

\* A connection is closed only after its command was executed, exactly once, even
\* when the client was gone before the server looked at it.
ClosedAfterExecution ==
    \A c \in Clients :
        conn[c].server = "closed" => executed[c] = IF conn[c].sent THEN 1 ELSE 0

\* Every connection is taken from the backlog, and the command of one that has a
\* slot is executed (src/src/Rpc.cpp, poll and handle_client_data).
EveryClientIsServed ==
    \A c \in Clients : /\ conn[c].server = "queued" ~> conn[c].server # "queued"
                       /\ (conn[c].server = "open" /\ conn[c].unread) ~> ~conn[c].unread
=============================================================================
