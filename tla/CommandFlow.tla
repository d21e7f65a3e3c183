------------------------------ MODULE CommandFlow ------------------------------
(***************************************************************************)
(* How a command travels: the loops of the client sessions                 *)
(* (CMDclient::run of src/cmd.cpp) and of the RTU sessions (RTUclient::run *)
(* of src/rtu.cpp), which pass messages through one POSIX message queue    *)
(* for each process (src/mq.cpp), the clients and devices at their sockets *)
(* and the ending of sessions.                                             *)
(*                                                                         *)
(* All sessions are registered when a behaviour begins, each at its own    *)
(* address: how they come to be so, and when they are not, is the matter   *)
(* of RtuRegistry and CmdSessions.  A site is named by its RTU session.    *)
(***************************************************************************)
EXTENDS Naturals, Sequences, FiniteSets

CONSTANTS
    Clients,        \* client sessions
    Rtus,           \* RTU sessions
    Unknown,        \* a site that is not in the database
    ClientOrder,    \* the order of the clients' lines in cmd.data
    MQ_MAXMSG,      \* messages a queue holds (2 in head/common.h)
    MaxRequests     \* bound: requests the clients make in all

ASSUME FlowAssumption ==
    /\ Clients \cap Rtus = {}
    /\ Unknown \notin Rtus
    /\ ClientOrder \in Seq(Clients) /\ {ClientOrder[i] : i \in 1..Len(ClientOrder)} = Clients
    /\ \A i, j \in 1..Len(ClientOrder) : ClientOrder[i] = ClientOrder[j] => i = j
    /\ MQ_MAXMSG \in Nat \ {0}
    /\ MaxRequests \in Nat

Sessions == Clients \cup Rtus

\* What goes through queues and sockets. A command or its acknowledgement carries
\* the address of the client and, for the sake of the properties only, the number of
\* the request it comes from.
Commands == [kind : {"COMMAND_RTU"}, client : Clients, n : 1..MaxRequests]
Acks == [kind : {"COMMAND_RTU_ACK"}, client : Clients, n : 1..MaxRequests]
Msgs == Commands \cup Acks \cup [kind : {"RTU_STATUS_RES", "EMPTY"}]
\* (SETUP_INFO for an address that has no session is met when the session has gone.)
Requests == [kind : {"COMMAND_CLIENT"}, site : Rtus \cup {Unknown}, n : 1..MaxRequests]
            \cup [kind : {"SETUP_INFO"}, site : Rtus, n : 1..MaxRequests]
            \cup [kind : {"RTU_STATUS_REQ"}, n : 1..MaxRequests]
Sends == [to : Sessions, msg : Msgs]

VARIABLES
    pc,         \* "recv" (where the loop begins), "peek", "send" or "dead"
    out,        \* sends a session has still to make in the handler it is in
    mq,         \* the queue of each session
    waiting,    \* the flag of CMDclient
    scode,      \* the site code a client's session holds, as the number of the
                \* request or acknowledgement it comes from
    sock,       \* requests each client has sent and its session not read
    dev,        \* commands sent to a device and not handled by it
    up,         \* acknowledgements of a device not read by its session
    rtu_data,   \* the RTU sessions that have a line in rtu.data
    cmd_data,   \* the clients that have a line in cmd.data, in order
    made,       \* requests the clients have made
    logged,     \* rows of RHistory with an outcome, as the numbers of their commands
    taken,      \* history: the numbers of the commands a client's session took
    replies     \* history: COMMAND_CLIENT_ACKs sent to each client: the number of
                \* the command acknowledged, or 0 for a negative answer

netVars == <<sock, dev, up, made>>
fileVars == <<rtu_data, cmd_data>>
clientVars == <<waiting, scode, logged, taken, replies>>
vars == <<pc, out, mq, waiting, scode, logged, sock, dev, up, rtu_data, cmd_data, made,
          taken, replies>>

TypeOK ==
    /\ pc \in [Sessions -> {"recv", "peek", "send", "dead"}]
    /\ out \in [Sessions -> Seq(Sends)]
    /\ mq \in [Sessions -> Seq(Msgs)] /\ \A s \in Sessions : Len(mq[s]) <= MQ_MAXMSG
    /\ waiting \in [Clients -> BOOLEAN]
    /\ scode \in [Clients -> 0..MaxRequests]
    /\ logged \in SUBSET (1..MaxRequests)
    /\ sock \in [Clients -> Seq(Requests)]
    /\ dev \in [Rtus -> Seq(Commands)]
    /\ up \in [Rtus -> Seq(Acks)]
    /\ rtu_data \in SUBSET Rtus
    /\ cmd_data \in Seq(Clients)
    /\ made \in 0..MaxRequests
    /\ taken \in [Clients -> SUBSET (1..MaxRequests)]
    /\ replies \in [Clients -> Seq(0..MaxRequests)]

Init ==
    /\ pc = [s \in Sessions |-> "recv"]
    /\ out = [s \in Sessions |-> <<>>]
    /\ mq = [s \in Sessions |-> <<>>]
    /\ waiting = [c \in Clients |-> FALSE]
    /\ scode = [c \in Clients |-> 0]
    /\ logged = {}
    /\ sock = [c \in Clients |-> <<>>]
    /\ dev = [r \in Rtus |-> <<>>]
    /\ up = [r \in Rtus |-> <<>>]
    /\ rtu_data = Rtus
    /\ cmd_data = ClientOrder
    /\ made = 0
    /\ taken = [c \in Clients |-> {}]
    /\ replies = [c \in Clients |-> <<>>]

Alive(s) == pc[s] # "dead"
goto(s, l) == pc' = [pc EXCEPT ![s] = l]

\* reqMessage(COMMAND_CLIENT_ACK) and send
answer(c, a) == replies' = [replies EXCEPT ![c] = Append(@, a)]

\* setup_ack_value and update_cmd_log: the outcome goes to the row that cmdLog names,
\* which is the one insert_cmd_log made for the last command, whatever is acknowledged.
cmdLog(c) == CHOOSE n \in taken[c] : \A k \in taken[c] : k <= n
update_cmd_log(c) == logged' = logged \cup {cmdLog(c)}

\* Where a client's address is found in cmd.data: in one line, since each has its own.
registered(c) == \E i \in 1..Len(cmd_data) : cmd_data[i] = c
search(c) == IF registered(c) THEN <<c>> ELSE <<>>

\* The sends of a handler: one for each pid found, in the order found.
sendAll(s, targets, msg) ==
    IF targets = <<>> THEN goto(s, "recv") /\ UNCHANGED out
    ELSE /\ out' = [out EXCEPT ![s] = [i \in 1..Len(targets) |-> [to |-> targets[i], msg |-> msg]]]
         /\ goto(s, "send")

-----------------------------------------------------------------------------
(* Clients and devices.                                                     *)

MakeRequest(c, q) ==
    /\ Alive(c) /\ made < MaxRequests /\ q.n = made + 1
    /\ made' = made + 1
    /\ sock' = [sock EXCEPT ![c] = Append(@, q)]
    /\ UNCHANGED <<pc, out, mq, dev, up, fileVars, clientVars>>

\* A device carries out a command and acknowledges it.
Acknowledge(r) ==
    /\ Alive(r) /\ dev[r] # <<>>
    /\ dev' = [dev EXCEPT ![r] = Tail(@)]
    /\ up' = [up EXCEPT ![r] = Append(@, [Head(dev[r]) EXCEPT !.kind = "COMMAND_RTU_ACK"])]
    /\ UNCHANGED <<pc, out, mq, sock, made, fileVars, clientVars>>

\* A command or its acknowledgement is lost with the device.
Ignore(r) ==
    /\ Alive(r) /\ dev[r] # <<>>
    /\ dev' = [dev EXCEPT ![r] = Tail(@)]
    /\ UNCHANGED <<pc, out, mq, sock, up, made, fileVars, clientVars>>

-----------------------------------------------------------------------------
(* The loop of CMDclient.                                                   *)

\* Mutant of Expire: the check is made only when there is a message.
MutExpireOnMessage(c) ==
    /\ pc[c] = "recv" /\ waiting[c] /\ mq[c] # <<>>
    /\ waiting' = [waiting EXCEPT ![c] = FALSE]
    /\ answer(c, 0)
    /\ UNCHANGED <<pc, out, mq, scode, logged, netVars, fileVars, taken>>

\* checkWaitingTime(40) = false: forty seconds have passed since the last command.
\* The loop then goes on to the queue, as it does at once otherwise.
Expire(c) ==
    /\ pc[c] = "recv" /\ waiting[c]
    /\ waiting' = [waiting EXCEPT ![c] = FALSE]
    /\ answer(c, 0)
    /\ UNCHANGED <<pc, out, mq, scode, logged, netVars, fileVars, taken>>

ClientNoMessage(c) ==
    /\ pc[c] = "recv" /\ mq[c] = <<>>
    /\ goto(c, "peek")
    /\ UNCHANGED <<out, mq, netVars, fileVars, clientVars>>

\* stopWaitingTime(), the fields of the acknowledgement, the log and the answer.
acked(c, n) ==
    /\ waiting' = [waiting EXCEPT ![c] = FALSE]
    /\ scode' = [scode EXCEPT ![c] = n]
    /\ update_cmd_log(c)
    /\ answer(c, n)

\* Mutants of ClientMessage: the message stays in the queue; stopWaitingTime() is
\* not called; it is called, or the log updated, for a message of any type.
MutMessageStays(c) ==
    /\ pc[c] = "recv" /\ mq[c] # <<>>
    /\ IF Head(mq[c]).kind = "COMMAND_RTU_ACK" THEN acked(c, Head(mq[c]).n)
       ELSE UNCHANGED <<waiting, scode, logged, replies>>
    /\ goto(c, "peek")
    /\ UNCHANGED <<out, mq, netVars, fileVars, taken>>
MutAckKeepsWaiting(c) ==
    /\ pc[c] = "recv" /\ mq[c] # <<>>
    /\ mq' = [mq EXCEPT ![c] = Tail(@)]
    /\ IF Head(mq[c]).kind = "COMMAND_RTU_ACK"
       THEN answer(c, Head(mq[c]).n) /\ update_cmd_log(c) /\ UNCHANGED scode
       ELSE UNCHANGED <<scode, logged, replies>>
    /\ goto(c, "peek")
    /\ UNCHANGED <<out, waiting, netVars, fileVars, taken>>
MutAnyMessageStops(c) ==
    /\ pc[c] = "recv" /\ mq[c] # <<>>
    /\ mq' = [mq EXCEPT ![c] = Tail(@)]
    /\ IF Head(mq[c]).kind = "COMMAND_RTU_ACK" THEN acked(c, Head(mq[c]).n)
       ELSE waiting' = [waiting EXCEPT ![c] = FALSE] /\ UNCHANGED <<scode, logged, replies>>
    /\ goto(c, "peek")
    /\ UNCHANGED <<out, netVars, fileVars, taken>>
MutAnyMessageLogged(c) ==
    /\ pc[c] = "recv" /\ mq[c] # <<>>
    /\ mq' = [mq EXCEPT ![c] = Tail(@)]
    /\ IF Head(mq[c]).kind = "COMMAND_RTU_ACK" THEN acked(c, Head(mq[c]).n)
       ELSE IF taken[c] # {} THEN update_cmd_log(c) /\ UNCHANGED <<waiting, scode, replies>>
       ELSE UNCHANGED <<waiting, scode, logged, replies>>
    /\ goto(c, "peek")
    /\ UNCHANGED <<out, netVars, fileVars, taken>>

\* One message is taken from the queue: an acknowledgement ends the waiting and is
\* logged and passed on; anything else is passed on only.
ClientMessage(c) ==
    /\ pc[c] = "recv" /\ mq[c] # <<>>
    /\ mq' = [mq EXCEPT ![c] = Tail(@)]
    /\ IF Head(mq[c]).kind = "COMMAND_RTU_ACK" THEN acked(c, Head(mq[c]).n)
       ELSE UNCHANGED <<waiting, scode, logged, replies>>
    /\ goto(c, "peek")
    /\ UNCHANGED <<out, netVars, fileVars, taken>>

ClientNoRequest(c) ==
    /\ pc[c] = "peek" /\ sock[c] = <<>>
    /\ goto(c, "recv")
    /\ UNCHANGED <<out, mq, netVars, fileVars, clientVars>>

\* The request at the socket is read.
Take(c, kind) ==
    /\ pc[c] = "peek" /\ sock[c] # <<>>
    /\ Head(sock[c]).kind = kind
    /\ sock' = [sock EXCEPT ![c] = Tail(@)]
    /\ UNCHANGED <<mq, dev, up, made, fileVars>>

\* A command for a site in the database whose RTU is found in rtu.data.
SendCommand(c) ==
    LET r == Head(sock[c]).site
        n == Head(sock[c]).n
    IN  /\ Take(c, "COMMAND_CLIENT")
        /\ r \in rtu_data
        /\ waiting' = [waiting EXCEPT ![c] = TRUE]
        /\ scode' = [scode EXCEPT ![c] = n]
        /\ taken' = [taken EXCEPT ![c] = @ \cup {n}]
        /\ sendAll(c, <<r>>, [kind |-> "COMMAND_RTU", client |-> c, n |-> n])
        /\ UNCHANGED <<logged, replies>>

\* Not connected, or not in the database: answered at once, and not logged.
RefuseCommand(c) ==
    LET n == Head(sock[c]).n
    IN  /\ Take(c, "COMMAND_CLIENT")
        /\ Head(sock[c]).site \notin rtu_data
        /\ waiting' = [waiting EXCEPT ![c] = FALSE]
        /\ scode' = [scode EXCEPT ![c] = n]
        /\ taken' = [taken EXCEPT ![c] = @ \cup {n}]
        /\ answer(c, 0)
        /\ goto(c, "recv")
        /\ UNCHANGED <<out, logged>>

\* Setup information: what is sent to the RTU session has length 0. (The action Q,
\* which ends every process of the server, is left out.)
Setup(c) ==
    LET r == Head(sock[c]).site
    IN  /\ Take(c, "SETUP_INFO")
        /\ scode' = [scode EXCEPT ![c] = Head(sock[c]).n]
        /\ sendAll(c, IF r \in rtu_data THEN <<r>> ELSE <<>>, [kind |-> "EMPTY"])
        /\ UNCHANGED <<waiting, logged, taken, replies>>

\* The status goes to the queues of all clients, the own one included.
Broadcast(c) ==
    /\ Take(c, "RTU_STATUS_REQ")
    /\ sendAll(c, cmd_data, [kind |-> "RTU_STATUS_RES"])
    /\ UNCHANGED clientVars

-----------------------------------------------------------------------------
(* The loop of RTUclient, which has no check.                               *)

RtuNoMessage(r) ==
    /\ pc[r] = "recv" /\ mq[r] = <<>>
    /\ goto(r, "peek")
    /\ UNCHANGED <<out, mq, netVars, fileVars, clientVars>>

\* A command is passed on to the device; an empty message is not looked at.
RtuMessage(r) ==
    /\ pc[r] = "recv" /\ mq[r] # <<>>
    /\ mq' = [mq EXCEPT ![r] = Tail(@)]
    /\ dev' = IF Head(mq[r]).kind = "COMMAND_RTU"
              THEN [dev EXCEPT ![r] = Append(@, Head(mq[r]))] ELSE dev
    /\ goto(r, "peek")
    /\ UNCHANGED <<out, sock, up, made, fileVars, clientVars>>

RtuNoAck(r) ==
    /\ pc[r] = "peek" /\ up[r] = <<>>
    /\ goto(r, "recv")
    /\ UNCHANGED <<out, mq, netVars, fileVars, clientVars>>

\* An acknowledgement goes to the client found at its address, if there is one.
RtuAck(r) ==
    LET ack == Head(up[r])
    IN  /\ pc[r] = "peek" /\ up[r] # <<>>
        /\ up' = [up EXCEPT ![r] = Tail(@)]
        /\ sendAll(r, search(ack.client), ack)
        /\ UNCHANGED <<mq, sock, dev, made, fileVars, clientVars>>

-----------------------------------------------------------------------------
(* Queues and deaths.                                                       *)

\* Mutant of Send: it does not wait.
MutSendAnyway(s) ==
    LET to == Head(out[s]).to
    IN  /\ pc[s] = "send"
        /\ mq' = [mq EXCEPT ![to] = Append(@, Head(out[s]).msg)]
        /\ out' = [out EXCEPT ![s] = Tail(@)]
        /\ goto(s, IF Len(out[s]) = 1 THEN "recv" ELSE "send")
        /\ UNCHANGED <<netVars, fileVars, clientVars>>

\* mq_send waits while the queue is full. The queue of a session that has ended
\* takes messages too: opening it creates it again.
Send(s) ==
    LET to == Head(out[s]).to
    IN  /\ pc[s] = "send"
        /\ Len(mq[to]) < MQ_MAXMSG
        /\ mq' = [mq EXCEPT ![to] = Append(@, Head(out[s]).msg)]
        /\ out' = [out EXCEPT ![s] = Tail(@)]
        /\ goto(s, IF Len(out[s]) = 1 THEN "recv" ELSE "send")
        /\ UNCHANGED <<netVars, fileVars, clientVars>>

Blocked(s) == pc[s] = "send" /\ Len(mq[Head(out[s]).to]) = MQ_MAXMSG

\* What is on its way to or from a session that ends is lost with the socket.
close(s) ==
    /\ out' = [out EXCEPT ![s] = <<>>]
    /\ sock' = [c \in Clients |-> IF c = s THEN <<>> ELSE sock[c]]
    /\ dev' = [r \in Rtus |-> IF r = s THEN <<>> ELSE dev[r]]
    /\ up' = [r \in Rtus |-> IF r = s THEN <<>> ELSE up[r]]

\* Mutant of Die: a session that waits in mq_send is not ended (SA_RESTART).
MutDieUnlessBlocked(s) ==
    /\ Alive(s) /\ ~Blocked(s)
    /\ goto(s, "dead")
    /\ close(s)
    /\ UNCHANGED <<mq, made, fileVars, clientVars>>

\* SIGALRM, which also ends a session that waits in mq_send, or SIGPIPE, or a
\* failed assertion.
Die(s) ==
    /\ Alive(s)
    /\ goto(s, "dead")
    /\ close(s)
    /\ UNCHANGED <<mq, made, fileVars, clientVars>>

\* The server's SIGCHLD handler removes the line and unlinks the queue.
deleted(s) ==
    LET k == CHOOSE i \in 1..Len(cmd_data) : cmd_data[i] = s
    IN  SubSeq(cmd_data, 1, k - 1) \o SubSeq(cmd_data, k + 1, Len(cmd_data))
Forget(s) ==
    /\ pc[s] = "dead"
    /\ s \in rtu_data \/ registered(s)
    /\ rtu_data' = rtu_data \ {s}
    /\ cmd_data' = IF registered(s) THEN deleted(s) ELSE cmd_data
    /\ mq' = [mq EXCEPT ![s] = <<>>]
    /\ UNCHANGED <<pc, out, netVars, clientVars>>

-----------------------------------------------------------------------------
ClientStep(c) ==
    \/ Expire(c) \/ ClientNoMessage(c) \/ ClientMessage(c)
    \/ ClientNoRequest(c) \/ SendCommand(c) \/ RefuseCommand(c) \/ Setup(c) \/ Broadcast(c)
    \/ Send(c)

RtuStep(r) ==
    \/ RtuNoMessage(r) \/ RtuMessage(r) \/ RtuNoAck(r) \/ RtuAck(r) \/ Send(r)

Next ==
    \/ \E c \in Clients, q \in Requests : MakeRequest(c, q)
    \/ \E r \in Rtus : Acknowledge(r) \/ Ignore(r)
    \/ \E c \in Clients : ClientStep(c)
    \/ \E r \in Rtus : RtuStep(r)
    \/ \E s \in Sessions : Die(s) \/ Forget(s)

\* The loops go on; a check that is made again and again is made forty seconds
\* later at last; the alarm ends a session that waits for ever in mq_send; the
\* handler runs. Clients and devices need not do anything.
Fairness ==
    /\ \A c \in Clients : WF_vars(ClientStep(c)) /\ SF_vars(Expire(c))
    /\ \A r \in Rtus : WF_vars(RtuStep(r))
    /\ \A s \in Sessions : WF_vars(Blocked(s) /\ Die(s)) /\ WF_vars(Forget(s))

Spec == Init /\ [][Next]_vars /\ Fairness
-----------------------------------------------------------------------------
Count(c, a) == Cardinality({i \in 1..Len(replies[c]) : replies[c][i] = a})

\* No command is acknowledged twice to its client, or before its session took it,
\* and a client never gets more negative answers than its session took commands.
AnswersMatch ==
    \A c \in Clients :
        /\ \A n \in 1..MaxRequests : Count(c, n) <= (IF n \in taken[c] THEN 1 ELSE 0)
        /\ Count(c, 0) <= Cardinality(taken[c])

\* "No acknowledgement" is said only while the last command taken really has none, and
\* the site it names is that of this command or of a setup requested after it, never
\* of an earlier command whose acknowledgement came late.
NotAckIsTrue ==
    [][\A c \in Clients : Expire(c) =>
          /\ \E n \in taken[c] : Count(c, n) = 0 /\ \A k \in taken[c] : k <= n
          /\ \A k \in taken[c] : k <= scode[c]]_vars

\* Although the outcome is written to the row of the last command, whichever is
\* acknowledged: the database shows no more commands of a client carried out than were
\* acknowledged to it, and each acknowledgement shows in the row of its command or of
\* a later one.
LogFollows ==
    \A c \in Clients :
        LET acks == {n \in taken[c] : Count(c, n) > 0}
        IN  /\ Cardinality(logged \cap taken[c]) <= Cardinality(acks)
            /\ \A n \in acks : \E k \in logged \cap taken[c] : n <= k

\* A session stops waiting only with an answer to the client.
WaitEndsWithReply ==
    [][\A c \in Clients : waiting[c] /\ ~waiting'[c] => Len(replies'[c]) > Len(replies[c])]_vars

\* Waiting ends: with an answer, or with the session.
WaitEnds == \A c \in Clients : waiting[c] ~> (~waiting[c] \/ ~Alive(c))

\* A session that is in the middle of its sends gets out of them, although queues
\* are full, sessions send to themselves and wait for each other.
SendEnds == \A s \in Sessions : pc[s] = "send" ~> pc[s] # "send"

\* Violated: src/cmd.cpp:492 says that the status has to be sent to the queues of
\* the clients of all addresses. A session whose own queue is full waits for
\* itself, until the alarm ends it in the middle of the list.
Broadcasting(c) == pc[c] = "send" /\ Head(out[c]).msg.kind = "RTU_STATUS_RES"
BroadcastCompletes ==
    [][\A c \in Clients : Broadcasting(c) /\ Die(c) => ~Blocked(c) \/ Head(out[c]).to # c]_vars
=============================================================================
