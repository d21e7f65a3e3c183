--------------------------- MODULE CommandFlowProofs ---------------------------
(***************************************************************************)
(* What is proved of CommandFlow for all sets of sessions, every length of *)
(* the queues and any number of requests: its types, that no command is    *)
(* acknowledged twice and what a negative answer means, that a session     *)
(* stops waiting with an answer only, and what the rows of RHistory say.   *)
(***************************************************************************)
EXTENDS CommandFlow, FiniteSetTheorems, SequenceTheorems, WellFoundedInduction, TLAPS

\* Sends are left exactly in the sessions that are about to make them.
OutInv == \A s \in Sessions : pc[s] = "send" <=> out[s] # <<>>

\* A command under way, or its acknowledgement, was taken by the session of the client
\* it names, and an acknowledgement goes to nobody else; so do the answers.
Taken(m) == m \in Commands \cup Acks => m.n \in taken[m.client]
OwnInv ==
    /\ \A s \in Sessions : \A i \in 1..Len(out[s]) :
          /\ Taken(out[s][i].msg)
          /\ out[s][i].msg \in Acks => out[s][i].to = out[s][i].msg.client
    /\ \A s \in Sessions : \A i \in 1..Len(mq[s]) :
          /\ Taken(mq[s][i])
          /\ mq[s][i] \in Acks => s = mq[s][i].client
    /\ \A r \in Rtus : \A i \in 1..Len(dev[r]) : Taken(dev[r][i])
    /\ \A r \in Rtus : \A i \in 1..Len(up[r]) : Taken(up[r][i])
    /\ \A c \in Clients : \A i \in 1..Len(replies[c]) : replies[c][i] \in taken[c] \cup {0}

\* The numbers of requests: those made and not read come after those taken, in order,
\* and no two requests have the same.
NumberInv ==
    \A c \in Clients :
        /\ taken[c] \in SUBSET (1..made)
        /\ \A i \in 1..Len(sock[c]) :
              /\ sock[c][i].n \in 1..made
              /\ \A k \in taken[c] : k < sock[c][i].n
              /\ \A j \in 1..Len(sock[c]) : i < j => sock[c][i].n < sock[c][j].n
        /\ \A d \in Clients \ {c} :
              /\ taken[c] \cap taken[d] = {}
              /\ \A i \in 1..Len(sock[c]) :
                    /\ sock[c][i].n \notin taken[d]
                    /\ \A j \in 1..Len(sock[d]) : sock[c][i].n # sock[d][j].n

\* The number of the command a message carries or acknowledges, or 0.
num(m) == IF m \in Commands \cup Acks THEN m.n ELSE 0
nums(q) == [i \in 1..Len(q) |-> num(q[i])]
sendNums(q) == [i \in 1..Len(q) |-> num(q[i].msg)]

\* Every place a command can be in, as a line of numbers.
Lines == ({"out", "mq"} \X Sessions) \cup ({"dev", "up"} \X Rtus) \cup ({"replies"} \X Clients)
line(t, s) ==
    CASE t = "out"     -> sendNums(out[s])
      [] t = "mq"      -> nums(mq[s])
      [] t = "dev"     -> nums(dev[s])
      [] t = "up"      -> nums(up[s])
      [] t = "replies" -> replies[s]
flow == [l \in Lines |-> line(l[1], l[2])]

\* No number but 0 is in two places.
Unique(L, F) ==
    \A k, l \in L : \A i \in 1..Len(F[k]), j \in 1..Len(F[l]) :
        F[k][i] = F[l][j] /\ F[k][i] # 0 => k = l /\ i = j
UniqueInv == Unique(Lines, flow)

\* A session that waits owes its client an answer, which may be a negative one.
owed(c) == IF waiting[c] THEN 1 ELSE 0
NegativeInv == \A c \in Clients : Count(c, 0) + owed(c) <= Cardinality(taken[c])

\* It waits for the acknowledgement of the last command it took, and the site it would
\* name is that of this command or of a later request.
IsLast(c, n) == n \in taken[c] /\ \A k \in taken[c] : k <= n
WaitingInv ==
    \A c \in Clients : waiting[c] =>
        /\ \E n \in taken[c] : IsLast(c, n) /\ Count(c, n) = 0
        /\ \A k \in taken[c] : k <= scode[c]

\* Only rows of commands are given an outcome.
LogInv == \A n \in logged : \E c \in Clients : n \in taken[c]

FlowInv ==
    /\ TypeOK /\ OutInv /\ OwnInv /\ NumberInv /\ UniqueInv
    /\ NegativeInv /\ WaitingInv /\ LogInv /\ LogFollows

-----------------------------------------------------------------------------
(* Sequences and numbers.                                                   *)

\* A bounded set of numbers has a last one.
LEMMA LastExists ==
    ASSUME NEW N \in Nat, NEW S \in SUBSET (1..N), S # {}
    PROVE  \E n \in S : \A k \in S : k <= n
<1> DEFINE T == {N - n : n \in S}
           Less == {ss \in Nat \X Nat : ss[1] < ss[2]}
<1>1. T \in SUBSET Nat /\ T # {}
  <2>1. PICK n \in S : TRUE
    OBVIOUS
  <2>2. N - n \in T
    BY <2>1
  <2>3. T \in SUBSET Nat
    OBVIOUS
  <2>4. QED
    BY <2>2, <2>3
<1>2. IsWellFoundedOn(Less, Nat)
    BY NatLessThanWellFounded DEF OpToRel
<1>3. \A t, u \in T : t < u => <<t, u>> \in Less
    BY <1>1
<1> HIDE DEF T, Less
<1>4. PICK t \in T : \A u \in T : ~ (<<u, t>> \in Less)
    BY <1>1, <1>2, WFMin
<1>5. PICK n \in S : t = N - n
    BY <1>4 DEF T
<1>6. ASSUME NEW k \in S PROVE k <= n
  <2>1. N - k \in T
    BY DEF T
  <2>2. ~ (N - k < N - n)
    BY <1>3, <1>4, <1>5, <2>1
  <2>3. QED
    BY <2>2
<1>7. QED
    BY <1>6

\* cmdLog names the last command taken, if there is one.
LEMMA CmdLogFact ==
    ASSUME TypeOK, NEW c \in Clients, taken[c] # {}
    PROVE  IsLast(c, cmdLog(c))
<1>1. taken[c] \in SUBSET (1..MaxRequests) /\ MaxRequests \in Nat
    BY FlowAssumption DEF TypeOK
<1>2. \E n \in taken[c] : \A k \in taken[c] : k <= n
    BY <1>1, LastExists
<1>3. QED
    BY <1>2 DEF cmdLog, IsLast

\* The head and the tail of a line.
LEMMA TailFact ==
    ASSUME NEW S, NEW q \in Seq(S), q # <<>>
    PROVE  /\ Head(q) \in S /\ Head(q) = q[1] /\ 1 \in 1..Len(q)
           /\ Tail(q) \in Seq(S) /\ Len(Tail(q)) = Len(q) - 1
           /\ \A i \in 1..Len(Tail(q)) : i + 1 \in 1..Len(q) /\ Tail(q)[i] = q[i + 1]
OBVIOUS

\* One more at the end.
LEMMA AppendFact ==
    ASSUME NEW S, NEW q \in Seq(S), NEW e \in S
    PROVE  /\ Append(q, e) \in Seq(S) /\ Len(Append(q, e)) = Len(q) + 1
           /\ \A i \in 1..Len(q) : Append(q, e)[i] = q[i]
           /\ Append(q, e)[Len(q) + 1] = e
OBVIOUS

\* What a session does with its sends.
LEMMA SendAllFact ==
    ASSUME TypeOK, NEW s \in Sessions, NEW targets \in Seq(Sessions), NEW msg \in Msgs,
           sendAll(s, targets, msg)
    PROVE  /\ out' \in [Sessions -> Seq(Sends)]
           /\ \A r \in Sessions \ {s} : out'[r] = out[r] /\ pc'[r] = pc[r]
           /\ \/ targets = <<>> /\ out' = out /\ pc' = [pc EXCEPT ![s] = "recv"]
              \/ /\ targets # <<>> /\ pc' = [pc EXCEPT ![s] = "send"]
                 /\ out'[s] = [i \in 1..Len(targets) |-> [to |-> targets[i], msg |-> msg]]
<1>1. CASE targets = <<>>
    BY <1>1 DEF sendAll, goto, TypeOK
<1>2. CASE targets # <<>>
  <2> DEFINE sends == [i \in 1..Len(targets) |-> [to |-> targets[i], msg |-> msg]]
  <2>1. sends \in Seq(Sends)
    BY DEF Sends
  <2>2. out' = [out EXCEPT ![s] = sends] /\ pc' = [pc EXCEPT ![s] = "send"]
    BY <1>2 DEF sendAll, goto
  <2> HIDE DEF sends
  <2>3. out' \in [Sessions -> Seq(Sends)] /\ out'[s] = sends
    BY <2>1, <2>2 DEF TypeOK
  <2>4. QED
    BY <1>2, <2>2, <2>3 DEF TypeOK, sends
<1>3. QED
    BY <1>1, <1>2

-----------------------------------------------------------------------------
(* Types.                                                                   *)

\* The kinds of messages differ.
LEMMA KindsFact ==
    /\ Commands \subseteq Msgs /\ Acks \subseteq Msgs
    /\ \A m \in Msgs : m.kind = "COMMAND_RTU_ACK" <=> m \in Acks
    /\ \A m \in Msgs : m.kind = "COMMAND_RTU" <=> m \in Commands
    /\ \A m \in Acks : m \notin Commands
    /\ [kind |-> "EMPTY"] \in Msgs /\ [kind |-> "RTU_STATUS_RES"] \in Msgs
    /\ [kind |-> "EMPTY"] \notin Commands \cup Acks
    /\ [kind |-> "RTU_STATUS_RES"] \notin Commands \cup Acks
BY DEF Msgs, Commands, Acks

\* What a session finds at its socket.
LEMMA TakeFact ==
    ASSUME TypeOK, NEW c \in Clients, NEW kind, Take(c, kind)
    PROVE  /\ pc[c] = "peek" /\ sock[c] # <<>> /\ Head(sock[c]) = sock[c][1]
           /\ Head(sock[c]) \in Requests /\ Head(sock[c]).n \in 1..MaxRequests
           /\ sock' \in [Clients -> Seq(Requests)]
           /\ sock'[c] = Tail(sock[c]) /\ \A d \in Clients \ {c} : sock'[d] = sock[d]
           /\ UNCHANGED <<mq, dev, up, made, fileVars>>
<1>1. /\ pc[c] = "peek" /\ sock[c] # <<>> /\ sock' = [sock EXCEPT ![c] = Tail(@)]
      /\ UNCHANGED <<mq, dev, up, made, fileVars>>
    BY DEF Take
<1>2. sock[c] \in Seq(Requests)
    BY DEF TypeOK
<1>3. Head(sock[c]) \in Requests /\ Head(sock[c]) = sock[c][1] /\ Tail(sock[c]) \in Seq(Requests)
    BY <1>1, <1>2, TailFact
<1>4. Head(sock[c]).n \in 1..MaxRequests
    BY <1>3 DEF Requests
<1>5. QED
    BY <1>1, <1>3, <1>4 DEF TypeOK

\* A message at the head of a queue; an acknowledgement in the queue of a client is that
\* of a command it took.
LEMMA HeadFact ==
    ASSUME TypeOK, OwnInv, NEW s \in Sessions, mq[s] # <<>>
    PROVE  /\ Head(mq[s]) \in Msgs /\ Head(mq[s]) = mq[s][1] /\ 1 \in 1..Len(mq[s])
           /\ Tail(mq[s]) \in Seq(Msgs) /\ Len(Tail(mq[s])) <= MQ_MAXMSG
           /\ s \in Clients /\ Head(mq[s]).kind = "COMMAND_RTU_ACK"
                 => /\ Head(mq[s]) \in Acks /\ Head(mq[s]).client = s
                    /\ Head(mq[s]).n \in taken[s] /\ Head(mq[s]).n \in 1..MaxRequests
                    /\ IsLast(s, cmdLog(s)) /\ cmdLog(s) \in 1..MaxRequests
<1>1. mq[s] \in Seq(Msgs) /\ Len(mq[s]) <= MQ_MAXMSG /\ Len(mq[s]) \in Nat /\ MQ_MAXMSG \in Nat
    BY FlowAssumption DEF TypeOK
<1>2. /\ Head(mq[s]) \in Msgs /\ Head(mq[s]) = mq[s][1] /\ 1 \in 1..Len(mq[s])
      /\ Tail(mq[s]) \in Seq(Msgs) /\ Len(Tail(mq[s])) = Len(mq[s]) - 1
    BY <1>1, TailFact
<1>3. ASSUME s \in Clients, Head(mq[s]).kind = "COMMAND_RTU_ACK"
      PROVE  /\ Head(mq[s]) \in Acks /\ Head(mq[s]).client = s
             /\ Head(mq[s]).n \in taken[s] /\ Head(mq[s]).n \in 1..MaxRequests
             /\ IsLast(s, cmdLog(s)) /\ cmdLog(s) \in 1..MaxRequests
  <2>1. Head(mq[s]) \in Acks
    BY <1>2, <1>3, KindsFact
  <2>2. Head(mq[s]).client = s /\ Head(mq[s]).n \in taken[s]
    BY <1>2, <2>1 DEF OwnInv, Taken
  <2>3. Head(mq[s]).n \in 1..MaxRequests
    BY <2>1 DEF Acks
  <2>4. IsLast(s, cmdLog(s))
    BY <1>3, <2>2, CmdLogFact
  <2>5. cmdLog(s) \in 1..MaxRequests
    BY <1>3, <2>4 DEF IsLast, TypeOK
  <2>6. QED
    BY <2>1, <2>2, <2>3, <2>4, <2>5
<1>4. QED
    BY <1>1, <1>2, <1>3

\* The empty queues have their types.
LEMMA TypeInit == Init => TypeOK
<1> SUFFICES ASSUME Init PROVE TypeOK
    OBVIOUS
<1>1. MaxRequests \in Nat /\ MQ_MAXMSG \in Nat /\ ClientOrder \in Seq(Clients)
    BY FlowAssumption
<1>2. \A S : <<>> \in Seq(S) /\ Len(<<>>) = 0
    OBVIOUS
<1>3. QED
    BY <1>1, <1>2 DEF Init, TypeOK

\* Queues never grow beyond MQ_MAXMSG: each action keeps the types.
LEMMA TypeStep == TypeOK /\ OwnInv /\ OutInv /\ [Next]_vars => TypeOK'
<1> SUFFICES ASSUME TypeOK, OwnInv, OutInv, [Next]_vars PROVE TypeOK'
    OBVIOUS
<1>0. /\ MaxRequests \in Nat /\ MQ_MAXMSG \in Nat \ {0} /\ Clients \cap Rtus = {}
      /\ Clients \subseteq Sessions /\ Rtus \subseteq Sessions
    BY FlowAssumption DEF Sessions
<1> USE DEF goto, netVars, fileVars, clientVars
<1>1. ASSUME NEW c \in Clients, NEW q \in Requests, MakeRequest(c, q) PROVE TypeOK'
  <2>1. /\ made < MaxRequests /\ made' = made + 1
        /\ sock' = [sock EXCEPT ![c] = Append(@, q)]
        /\ UNCHANGED <<pc, out, mq, dev, up, fileVars, clientVars>>
    BY <1>1 DEF MakeRequest
  <2>2. sock' \in [Clients -> Seq(Requests)]
    BY <2>1 DEF TypeOK
  <2>3. made' \in 0..MaxRequests
    BY <1>0, <2>1 DEF TypeOK
  <2>4. QED
    BY <2>1, <2>2, <2>3 DEF TypeOK
<1>2. ASSUME NEW r \in Rtus, Acknowledge(r) \/ Ignore(r) PROVE TypeOK'
  <2>1. dev[r] \in Seq(Commands) /\ dev[r] # <<>> /\ up[r] \in Seq(Acks)
    BY <1>2 DEF Acknowledge, Ignore, TypeOK
  <2>2. Tail(dev[r]) \in Seq(Commands) /\ Head(dev[r]) \in Commands
    BY <2>1, TailFact
  <2>3. [Head(dev[r]) EXCEPT !.kind = "COMMAND_RTU_ACK"] \in Acks
    BY <2>2 DEF Commands, Acks
  <2>4. Append(up[r], [Head(dev[r]) EXCEPT !.kind = "COMMAND_RTU_ACK"]) \in Seq(Acks)
    BY <2>1, <2>3, AppendFact
  <2>5. /\ dev' = [dev EXCEPT ![r] = Tail(dev[r])]
        /\ \/ up' = up
           \/ up' = [up EXCEPT ![r] = Append(up[r], [Head(dev[r]) EXCEPT !.kind = "COMMAND_RTU_ACK"])]
        /\ UNCHANGED <<pc, out, mq, sock, made, fileVars, clientVars>>
    BY <1>2 DEF Acknowledge, Ignore
  <2>6. dev' \in [Rtus -> Seq(Commands)] /\ up' \in [Rtus -> Seq(Acks)]
    BY <2>2, <2>4, <2>5 DEF TypeOK
  <2>7. QED
    BY <2>5, <2>6 DEF TypeOK
<1>3. ASSUME NEW c \in Clients, Expire(c) PROVE TypeOK'
  <2>1. /\ waiting' = [waiting EXCEPT ![c] = FALSE]
        /\ replies' = [replies EXCEPT ![c] = Append(replies[c], 0)]
        /\ UNCHANGED <<pc, out, mq, scode, logged, netVars, fileVars, taken>>
    BY <1>3 DEF Expire, answer
  <2>2. Append(replies[c], 0) \in Seq(0..MaxRequests)
    BY <1>0, AppendFact DEF TypeOK
  <2>3. waiting' \in [Clients -> BOOLEAN] /\ replies' \in [Clients -> Seq(0..MaxRequests)]
    BY <2>1, <2>2 DEF TypeOK
  <2>4. QED
    BY <2>1, <2>3 DEF TypeOK
<1>4. ASSUME NEW c \in Clients, ClientNoMessage(c) \/ ClientNoRequest(c) PROVE TypeOK'
    BY <1>0, <1>4 DEF ClientNoMessage, ClientNoRequest, TypeOK
<1>5. ASSUME NEW c \in Clients, ClientMessage(c) PROVE TypeOK'
  <2> DEFINE m == Head(mq[c])
  <2>1. /\ mq[c] # <<>> /\ mq' = [mq EXCEPT ![c] = Tail(mq[c])]
        /\ pc' = [pc EXCEPT ![c] = "peek"]
        /\ UNCHANGED <<out, netVars, fileVars, taken>>
    BY <1>5 DEF ClientMessage
  <2>2. mq' \in [Sessions -> Seq(Msgs)] /\ \A s \in Sessions : Len(mq'[s]) <= MQ_MAXMSG
    BY <1>0, <2>1, HeadFact DEF TypeOK
  <2>3. pc' \in [Sessions -> {"recv", "peek", "send", "dead"}]
    BY <2>1 DEF TypeOK
  <2>4. /\ waiting' \in [Clients -> BOOLEAN] /\ scode' \in [Clients -> 0..MaxRequests]
        /\ logged' \in SUBSET (1..MaxRequests) /\ replies' \in [Clients -> Seq(0..MaxRequests)]
    <3>1. CASE m.kind = "COMMAND_RTU_ACK"
      <4>1. m.n \in 1..MaxRequests /\ cmdLog(c) \in 1..MaxRequests
        BY <1>0, <2>1, <3>1, HeadFact
      <4>2. /\ waiting' = [waiting EXCEPT ![c] = FALSE] /\ scode' = [scode EXCEPT ![c] = m.n]
            /\ logged' = logged \cup {cmdLog(c)}
            /\ replies' = [replies EXCEPT ![c] = Append(replies[c], m.n)]
        BY <1>5, <3>1 DEF ClientMessage, acked, answer, update_cmd_log
      <4>3. Append(replies[c], m.n) \in Seq(0..MaxRequests)
        BY <4>1, AppendFact DEF TypeOK
      <4> HIDE DEF m
      <4>4. replies' \in [Clients -> Seq(0..MaxRequests)]
        BY <4>2, <4>3 DEF TypeOK
      <4>5. logged' \in SUBSET (1..MaxRequests)
        BY <4>1, <4>2 DEF TypeOK
      <4>6. waiting' \in [Clients -> BOOLEAN] /\ scode' \in [Clients -> 0..MaxRequests]
        BY <4>1, <4>2 DEF TypeOK
      <4>7. QED
        BY <4>4, <4>5, <4>6
    <3>2. CASE m.kind # "COMMAND_RTU_ACK"
        BY <1>5, <3>2 DEF ClientMessage, TypeOK
    <3>3. QED
        BY <3>1, <3>2
  <2>5. QED
    BY <2>1, <2>2, <2>3, <2>4 DEF TypeOK
<1>6. ASSUME NEW c \in Clients, SendCommand(c) PROVE TypeOK'
  <2> DEFINE r == Head(sock[c]).site
             n == Head(sock[c]).n
             msg == [kind |-> "COMMAND_RTU", client |-> c, n |-> n]
  <2>1. /\ Take(c, "COMMAND_CLIENT") /\ r \in rtu_data
        /\ waiting' = [waiting EXCEPT ![c] = TRUE] /\ scode' = [scode EXCEPT ![c] = n]
        /\ taken' = [taken EXCEPT ![c] = taken[c] \cup {n}]
        /\ sendAll(c, <<r>>, msg) /\ UNCHANGED <<logged, replies>>
    BY <1>6 DEF SendCommand
  <2>2. n \in 1..MaxRequests /\ sock' \in [Clients -> Seq(Requests)]
        /\ UNCHANGED <<mq, dev, up, made, fileVars>>
    BY <2>1, TakeFact
  <2>3. msg \in Msgs /\ <<r>> \in Seq(Sessions)
    BY <1>0, <2>1, <2>2 DEF Msgs, Commands, TypeOK
  <2> HIDE DEF n, r, msg
  <2>4. out' \in [Sessions -> Seq(Sends)] /\ pc' \in [Sessions -> {"recv", "peek", "send", "dead"}]
    BY <1>0, <2>1, <2>3, SendAllFact DEF TypeOK
  <2>5. /\ waiting' \in [Clients -> BOOLEAN] /\ scode' \in [Clients -> 0..MaxRequests]
        /\ taken' \in [Clients -> SUBSET (1..MaxRequests)]
    BY <2>1, <2>2 DEF TypeOK
  <2>6. QED
    BY <2>1, <2>2, <2>4, <2>5 DEF TypeOK
<1>7. ASSUME NEW c \in Clients, RefuseCommand(c) PROVE TypeOK'
  <2> DEFINE n == Head(sock[c]).n
  <2>1. /\ Take(c, "COMMAND_CLIENT")
        /\ waiting' = [waiting EXCEPT ![c] = FALSE] /\ scode' = [scode EXCEPT ![c] = n]
        /\ taken' = [taken EXCEPT ![c] = taken[c] \cup {n}]
        /\ replies' = [replies EXCEPT ![c] = Append(replies[c], 0)]
        /\ pc' = [pc EXCEPT ![c] = "recv"] /\ UNCHANGED <<out, logged>>
    BY <1>7 DEF RefuseCommand, answer
  <2>2. n \in 1..MaxRequests /\ sock' \in [Clients -> Seq(Requests)]
        /\ UNCHANGED <<mq, dev, up, made, fileVars>>
    BY <2>1, TakeFact
  <2>3. Append(replies[c], 0) \in Seq(0..MaxRequests)
    BY <1>0, AppendFact DEF TypeOK
  <2> HIDE DEF n
  <2>4. /\ waiting' \in [Clients -> BOOLEAN] /\ scode' \in [Clients -> 0..MaxRequests]
        /\ taken' \in [Clients -> SUBSET (1..MaxRequests)]
        /\ pc' \in [Sessions -> {"recv", "peek", "send", "dead"}]
    BY <1>0, <2>1, <2>2 DEF TypeOK
  <2>5. replies' \in [Clients -> Seq(0..MaxRequests)]
    BY <2>1, <2>3 DEF TypeOK
  <2>6. UNCHANGED <<out, logged, mq, dev, up, made, rtu_data, cmd_data>>
    BY <2>1, <2>2
  <2>7. QED
    BY <2>2, <2>4, <2>5, <2>6 DEF TypeOK
<1>8. ASSUME NEW c \in Clients, Setup(c) PROVE TypeOK'
  <2> DEFINE r == Head(sock[c]).site
             targets == IF r \in rtu_data THEN <<r>> ELSE <<>>
  <2>1. /\ Take(c, "SETUP_INFO") /\ scode' = [scode EXCEPT ![c] = Head(sock[c]).n]
        /\ sendAll(c, targets, [kind |-> "EMPTY"]) /\ UNCHANGED <<waiting, logged, taken, replies>>
    BY <1>8 DEF Setup
  <2>2. /\ Head(sock[c]).n \in 1..MaxRequests /\ sock' \in [Clients -> Seq(Requests)]
        /\ UNCHANGED <<mq, dev, up, made, fileVars>>
    BY <2>1, TakeFact
  <2>3. targets \in Seq(Sessions)
    BY <1>0 DEF TypeOK
  <2> HIDE DEF targets
  <2>4. out' \in [Sessions -> Seq(Sends)] /\ pc' \in [Sessions -> {"recv", "peek", "send", "dead"}]
    BY <1>0, <2>1, <2>3, SendAllFact, KindsFact DEF TypeOK
  <2>5. scode' \in [Clients -> 0..MaxRequests]
    BY <2>1, <2>2 DEF TypeOK
  <2>6. QED
    BY <2>1, <2>2, <2>4, <2>5 DEF TypeOK
<1>9. ASSUME NEW c \in Clients, Broadcast(c) PROVE TypeOK'
  <2>1. Take(c, "RTU_STATUS_REQ") /\ sendAll(c, cmd_data, [kind |-> "RTU_STATUS_RES"])
        /\ UNCHANGED clientVars
    BY <1>9 DEF Broadcast
  <2>2. /\ sock' \in [Clients -> Seq(Requests)]
        /\ UNCHANGED <<mq, dev, up, made, fileVars>>
    BY <2>1, TakeFact
  <2>3. cmd_data \in Seq(Sessions)
    BY <1>0 DEF TypeOK
  <2>4. out' \in [Sessions -> Seq(Sends)] /\ pc' \in [Sessions -> {"recv", "peek", "send", "dead"}]
    BY <1>0, <2>1, <2>3, SendAllFact, KindsFact DEF TypeOK
  <2>5. QED
    BY <2>1, <2>2, <2>4 DEF TypeOK
<1>10. ASSUME NEW r \in Rtus, RtuNoMessage(r) \/ RtuNoAck(r) PROVE TypeOK'
    BY <1>0, <1>10 DEF RtuNoMessage, RtuNoAck, TypeOK
<1>11. ASSUME NEW r \in Rtus, RtuMessage(r) PROVE TypeOK'
  <2>1. /\ mq[r] # <<>> /\ mq' = [mq EXCEPT ![r] = Tail(mq[r])]
        /\ pc' = [pc EXCEPT ![r] = "peek"]
        /\ dev' = IF Head(mq[r]).kind = "COMMAND_RTU"
                  THEN [dev EXCEPT ![r] = Append(dev[r], Head(mq[r]))] ELSE dev
        /\ UNCHANGED <<out, sock, up, made, fileVars, clientVars>>
    BY <1>11 DEF RtuMessage
  <2>2. mq' \in [Sessions -> Seq(Msgs)] /\ \A s \in Sessions : Len(mq'[s]) <= MQ_MAXMSG
    BY <1>0, <2>1, HeadFact DEF TypeOK
  <2>3. pc' \in [Sessions -> {"recv", "peek", "send", "dead"}]
    BY <2>1 DEF TypeOK
  <2>4. dev' \in [Rtus -> Seq(Commands)]
    <3>1. CASE Head(mq[r]).kind = "COMMAND_RTU"
      <4>1. Head(mq[r]) \in Commands
        BY <1>0, <2>1, <3>1, HeadFact, KindsFact
      <4>2. Append(dev[r], Head(mq[r])) \in Seq(Commands)
        BY <4>1, AppendFact DEF TypeOK
      <4>3. QED
        BY <2>1, <3>1, <4>2 DEF TypeOK
    <3>2. QED
        BY <2>1, <3>1 DEF TypeOK
  <2>5. QED
    BY <2>1, <2>2, <2>3, <2>4 DEF TypeOK
<1>12. ASSUME NEW r \in Rtus, RtuAck(r) PROVE TypeOK'
  <2> DEFINE ack == Head(up[r])
  <2>1. /\ up[r] # <<>> /\ up' = [up EXCEPT ![r] = Tail(up[r])]
        /\ sendAll(r, search(ack.client), ack)
        /\ UNCHANGED <<mq, sock, dev, made, fileVars, clientVars>>
    BY <1>12 DEF RtuAck
  <2>2. ack \in Acks /\ Tail(up[r]) \in Seq(Acks)
    BY <2>1, TailFact DEF TypeOK
  <2>3. ack \in Msgs /\ search(ack.client) \in Seq(Sessions)
    BY <1>0, <2>2 DEF search, Acks, Msgs
  <2> HIDE DEF ack
  <2>4. out' \in [Sessions -> Seq(Sends)] /\ pc' \in [Sessions -> {"recv", "peek", "send", "dead"}]
    BY <1>0, <2>1, <2>3, SendAllFact DEF TypeOK
  <2>5. up' \in [Rtus -> Seq(Acks)]
    BY <2>1, <2>2 DEF TypeOK
  <2>6. QED
    BY <2>1, <2>4, <2>5 DEF TypeOK
<1>13. ASSUME NEW s \in Sessions, Send(s) PROVE TypeOK'
  <2> DEFINE to == Head(out[s]).to
             msg == Head(out[s]).msg
  <2>1. /\ pc[s] = "send" /\ Len(mq[to]) < MQ_MAXMSG
        /\ mq' = [mq EXCEPT ![to] = Append(mq[to], msg)]
        /\ out' = [out EXCEPT ![s] = Tail(out[s])]
        /\ pc' = [pc EXCEPT ![s] = IF Len(out[s]) = 1 THEN "recv" ELSE "send"]
        /\ UNCHANGED <<netVars, fileVars, clientVars>>
    BY <1>13 DEF Send
  <2>2. out[s] \in Seq(Sends) /\ out[s] # <<>>
    BY <2>1 DEF OutInv, TypeOK
  <2>3. Head(out[s]) \in Sends /\ Tail(out[s]) \in Seq(Sends)
    BY <2>2, TailFact
  <2>4. to \in Sessions /\ msg \in Msgs
    BY <2>3 DEF Sends
  <2> HIDE DEF to, msg
  <2>5. Append(mq[to], msg) \in Seq(Msgs) /\ Len(Append(mq[to], msg)) <= MQ_MAXMSG
    <3>1. mq[to] \in Seq(Msgs)
        BY <2>4 DEF TypeOK
    <3>2. QED
        BY <1>0, <2>1, <2>4, <3>1, AppendFact
  <2>6. mq' \in [Sessions -> Seq(Msgs)] /\ \A x \in Sessions : Len(mq'[x]) <= MQ_MAXMSG
    BY <2>1, <2>4, <2>5 DEF TypeOK
  <2>7. out' \in [Sessions -> Seq(Sends)] /\ pc' \in [Sessions -> {"recv", "peek", "send", "dead"}]
    BY <2>1, <2>3 DEF TypeOK
  <2>8. QED
    BY <2>1, <2>6, <2>7 DEF TypeOK
<1>14. ASSUME NEW s \in Sessions, Die(s) PROVE TypeOK'
  <2>1. \A S : <<>> \in Seq(S)
    OBVIOUS
  <2>2. QED
    BY <1>14, <2>1 DEF Die, close, TypeOK
<1>15. ASSUME NEW s \in Sessions, Forget(s) PROVE TypeOK'
  <2>1. /\ rtu_data' = rtu_data \ {s}
        /\ cmd_data' = IF registered(s) THEN deleted(s) ELSE cmd_data
        /\ mq' = [mq EXCEPT ![s] = <<>>]
        /\ UNCHANGED <<pc, out, netVars, clientVars>>
    BY <1>15 DEF Forget
  <2>2. cmd_data' \in Seq(Clients)
    <3>1. CASE registered(s)
      <4> DEFINE k == CHOOSE i \in 1..Len(cmd_data) : cmd_data[i] = s
      <4>1. k \in 1..Len(cmd_data)
        BY <3>1 DEF registered
      <4>2. deleted(s) = SubSeq(cmd_data, 1, k - 1) \o SubSeq(cmd_data, k + 1, Len(cmd_data))
        BY DEF deleted
      <4> HIDE DEF k
      <4>3. cmd_data \in Seq(Clients) /\ Len(cmd_data) \in Nat
        BY DEF TypeOK
      <4>4. /\ SubSeq(cmd_data, 1, k - 1) \in Seq(Clients)
            /\ SubSeq(cmd_data, k + 1, Len(cmd_data)) \in Seq(Clients)
        BY <4>1, <4>3
      <4>5. QED
        BY <2>1, <3>1, <4>2, <4>4
    <3>2. QED
        BY <2>1, <3>1 DEF TypeOK
  <2>3. mq' \in [Sessions -> Seq(Msgs)] /\ \A x \in Sessions : Len(mq'[x]) <= MQ_MAXMSG
    BY <1>0, <2>1 DEF TypeOK
  <2>4. QED
    BY <2>1, <2>2, <2>3 DEF TypeOK
<1>16. CASE UNCHANGED vars
    BY <1>16 DEF vars, TypeOK
<1>17. QED
    BY <1>0, <1>1, <1>2, <1>3, <1>4, <1>5, <1>6, <1>7, <1>8, <1>9, <1>10, <1>11, <1>12, <1>13,
       <1>14, <1>15, <1>16
    DEF Next, ClientStep, RtuStep

-----------------------------------------------------------------------------
(* What the steps do to the lines messages stand in.                        *)

\* Only these actions touch them, and the record of the commands taken.
LEMMA WhoChanges ==
    ASSUME [Next]_vars
    PROVE  /\ \/ out' = out
              \/ \E c \in Clients : SendCommand(c) \/ Setup(c) \/ Broadcast(c)
              \/ \E r \in Rtus : RtuAck(r)
              \/ \E s \in Sessions : Send(s) \/ Die(s)
           /\ \/ mq' = mq
              \/ \E c \in Clients : ClientMessage(c)
              \/ \E r \in Rtus : RtuMessage(r)
              \/ \E s \in Sessions : Send(s) \/ Forget(s)
           /\ \/ dev' = dev
              \/ \E r \in Rtus : Acknowledge(r) \/ Ignore(r) \/ RtuMessage(r)
              \/ \E s \in Sessions : Die(s)
           /\ \/ up' = up
              \/ \E r \in Rtus : Acknowledge(r) \/ RtuAck(r)
              \/ \E s \in Sessions : Die(s)
           /\ \/ replies' = replies
              \/ \E c \in Clients : Expire(c) \/ ClientMessage(c) \/ RefuseCommand(c)
           /\ \/ taken' = taken
              \/ \E c \in Clients : SendCommand(c) \/ RefuseCommand(c)
<1> USE DEF Sessions, netVars, fileVars, clientVars
<1>1. ASSUME NEW c \in Clients, NEW q \in Requests, MakeRequest(c, q)
      PROVE  UNCHANGED <<out, mq, dev, up, replies, taken>>
    BY <1>1 DEF MakeRequest
<1>2. ASSUME NEW r \in Rtus, Acknowledge(r) \/ Ignore(r)
      PROVE  UNCHANGED <<out, mq, replies, taken>> /\ (up' = up \/ Acknowledge(r))
    BY <1>2 DEF Acknowledge, Ignore
<1>3. ASSUME NEW c \in Clients, Expire(c)
      PROVE  UNCHANGED <<out, mq, dev, up, taken>>
    BY <1>3 DEF Expire
<1>4. ASSUME NEW c \in Clients, ClientNoMessage(c) \/ ClientNoRequest(c)
      PROVE  UNCHANGED <<out, mq, dev, up, replies, taken>>
    BY <1>4 DEF ClientNoMessage, ClientNoRequest
<1>5. ASSUME NEW c \in Clients, ClientMessage(c)
      PROVE  UNCHANGED <<out, dev, up, taken>>
    BY <1>5 DEF ClientMessage
<1>6. ASSUME NEW c \in Clients, SendCommand(c)
      PROVE  UNCHANGED <<mq, dev, up, replies>>
    BY <1>6 DEF SendCommand, Take
<1>7. ASSUME NEW c \in Clients, RefuseCommand(c)
      PROVE  UNCHANGED <<out, mq, dev, up>>
    BY <1>7 DEF RefuseCommand, Take
<1>8. ASSUME NEW c \in Clients, Setup(c) \/ Broadcast(c)
      PROVE  UNCHANGED <<mq, dev, up, replies, taken>>
    BY <1>8 DEF Setup, Broadcast, Take
<1>9. ASSUME NEW r \in Rtus, RtuNoMessage(r) \/ RtuNoAck(r)
      PROVE  UNCHANGED <<out, mq, dev, up, replies, taken>>
    BY <1>9 DEF RtuNoMessage, RtuNoAck
<1>10. ASSUME NEW r \in Rtus, RtuMessage(r)
       PROVE  UNCHANGED <<out, up, replies, taken>>
    BY <1>10 DEF RtuMessage
<1>11. ASSUME NEW r \in Rtus, RtuAck(r)
       PROVE  UNCHANGED <<mq, dev, replies, taken>>
    BY <1>11 DEF RtuAck
<1>12. ASSUME NEW s \in Sessions, Send(s)
       PROVE  UNCHANGED <<dev, up, replies, taken>>
    BY <1>12 DEF Send
<1>13. ASSUME NEW s \in Sessions, Die(s)
       PROVE  UNCHANGED <<mq, replies, taken>>
    BY <1>13 DEF Die
<1>14. ASSUME NEW s \in Sessions, Forget(s)
       PROVE  UNCHANGED <<out, dev, up, replies, taken>>
    BY <1>14 DEF Forget
<1>15. CASE UNCHANGED vars
    BY <1>15 DEF vars
<1>16. QED
    BY <1>1, <1>2, <1>3, <1>4, <1>5, <1>6, <1>7, <1>8, <1>9, <1>10, <1>11, <1>12, <1>13,
       <1>14, <1>15
    DEF Next, ClientStep, RtuStep

\* A command: its number goes from the socket to the sends and to those taken.
LEMMA CommandEffect ==
    ASSUME TypeOK, OutInv, NEW c \in Clients, SendCommand(c)
    PROVE  /\ sock[c] # <<>> /\ sock[c][1].n \in 1..MaxRequests
           /\ sock'[c] = Tail(sock[c]) /\ \A d \in Clients \ {c} : sock'[d] = sock[d]
           /\ taken'[c] = taken[c] \cup {sock[c][1].n}
           /\ \A d \in Clients \ {c} : taken'[d] = taken[d]
           /\ pc[c] = "peek" /\ pc' = [pc EXCEPT ![c] = "send"] /\ out[c] = <<>>
           /\ \A s \in Sessions \ {c} : out'[s] = out[s]
           /\ \E r \in Rtus : out'[c] = <<[to |-> r, msg |-> [kind |-> "COMMAND_RTU", client |-> c,
                                                             n |-> sock[c][1].n]]>>
           /\ waiting' = [waiting EXCEPT ![c] = TRUE]
           /\ scode' = [scode EXCEPT ![c] = sock[c][1].n]
           /\ UNCHANGED <<mq, dev, up, made, logged, replies>>
<1> DEFINE r == Head(sock[c]).site
           n == Head(sock[c]).n
           msg == [kind |-> "COMMAND_RTU", client |-> c, n |-> n]
<1>0. c \in Sessions /\ Rtus \subseteq Sessions
    BY DEF Sessions
<1>1. /\ Take(c, "COMMAND_CLIENT") /\ r \in rtu_data
      /\ waiting' = [waiting EXCEPT ![c] = TRUE] /\ scode' = [scode EXCEPT ![c] = n]
      /\ taken' = [taken EXCEPT ![c] = taken[c] \cup {n}]
      /\ sendAll(c, <<r>>, msg) /\ UNCHANGED <<logged, replies>>
    BY DEF SendCommand
<1>2. /\ pc[c] = "peek" /\ sock[c] # <<>> /\ n = sock[c][1].n /\ n \in 1..MaxRequests
      /\ sock'[c] = Tail(sock[c]) /\ \A d \in Clients \ {c} : sock'[d] = sock[d]
      /\ UNCHANGED <<mq, dev, up, made>>
    BY <1>1, TakeFact
<1>3. msg \in Msgs /\ r \in Rtus
    BY <1>1, <1>2 DEF Msgs, Commands, TypeOK
<1> DEFINE targets == <<r>>
<1>4. targets \in Seq(Sessions) /\ targets # <<>> /\ Len(targets) = 1 /\ targets[1] = r
    BY <1>0, <1>3
<1>5. sendAll(c, targets, msg)
    BY <1>1
<1>6. out'[c] = <<[to |-> r, msg |-> msg]>>
      /\ (\A s \in Sessions \ {c} : out'[s] = out[s]) /\ pc' = [pc EXCEPT ![c] = "send"]
  <2>1. msg \in Msgs /\ targets \in Seq(Sessions) /\ sendAll(c, targets, msg)
    BY <1>3, <1>4, <1>5
  <2> HIDE DEF r, n, msg, targets
  <2>2. /\ \A s \in Sessions \ {c} : out'[s] = out[s] /\ pc'[s] = pc[s]
        /\ \/ targets = <<>> /\ out' = out /\ pc' = [pc EXCEPT ![c] = "recv"]
           \/ /\ targets # <<>> /\ pc' = [pc EXCEPT ![c] = "send"]
              /\ out'[c] = [i \in 1..Len(targets) |-> [to |-> targets[i], msg |-> msg]]
    BY <1>0, <2>1, SendAllFact
  <2>3. QED
    BY <1>4, <2>2
<1>7. taken'[c] = taken[c] \cup {n} /\ \A d \in Clients \ {c} : taken'[d] = taken[d]
    BY <1>1 DEF TypeOK
<1>8. out[c] = <<>>
    BY <1>0, <1>2 DEF OutInv
<1>9. QED
    BY <1>1, <1>2, <1>3, <1>6, <1>7, <1>8

\* Setup information and the status: what is sent carries no number.
LEMMA PlainEffect ==
    ASSUME TypeOK, OutInv, NEW c \in Clients, Setup(c) \/ Broadcast(c)
    PROVE  /\ sock[c] # <<>> /\ sock[c][1].n \in 1..MaxRequests
           /\ sock'[c] = Tail(sock[c]) /\ \A d \in Clients \ {c} : sock'[d] = sock[d]
           /\ pc[c] = "peek" /\ out[c] = <<>>
           /\ \A s \in Sessions \ {c} : out'[s] = out[s] /\ pc'[s] = pc[s]
           /\ pc'[c] = IF out'[c] = <<>> THEN "recv" ELSE "send"
           /\ \A i \in 1..Len(out'[c]) : out'[c][i].msg \notin Commands \cup Acks
           /\ scode' = scode \/ scode' = [scode EXCEPT ![c] = sock[c][1].n]
           /\ UNCHANGED <<mq, dev, up, made, waiting, logged, taken, replies>>
<1>0. c \in Sessions /\ Rtus \subseteq Sessions /\ Clients \subseteq Sessions
    BY DEF Sessions
<1>1. PICK kind \in {"SETUP_INFO", "RTU_STATUS_REQ"}, targets \in Seq(Sessions),
           msg \in {[kind |-> "EMPTY"], [kind |-> "RTU_STATUS_RES"]} :
         /\ Take(c, kind) /\ sendAll(c, targets, msg)
         /\ scode' = scode \/ scode' = [scode EXCEPT ![c] = Head(sock[c]).n]
         /\ UNCHANGED <<waiting, logged, taken, replies>>
  <2>1. CASE Setup(c)
    <3> DEFINE r == Head(sock[c]).site
               targets == IF r \in rtu_data THEN <<r>> ELSE <<>>
    <3>1. /\ Take(c, "SETUP_INFO") /\ sendAll(c, targets, [kind |-> "EMPTY"])
          /\ scode' = [scode EXCEPT ![c] = Head(sock[c]).n]
          /\ UNCHANGED <<waiting, logged, taken, replies>>
        BY <2>1 DEF Setup
    <3>2. targets \in Seq(Sessions)
        BY <1>0 DEF TypeOK
    <3> HIDE DEF targets
    <3>3. QED
        BY <3>1, <3>2
  <2>2. CASE Broadcast(c)
    <3>1. /\ Take(c, "RTU_STATUS_REQ") /\ sendAll(c, cmd_data, [kind |-> "RTU_STATUS_RES"])
          /\ UNCHANGED <<scode, waiting, logged, taken, replies>>
        BY <2>2 DEF Broadcast, clientVars
    <3>2. cmd_data \in Seq(Sessions)
        BY <1>0 DEF TypeOK
    <3>3. QED
        BY <3>1, <3>2
  <2>3. QED
    BY <2>1, <2>2
<1>2. msg \in Msgs /\ msg \notin Commands \cup Acks
    BY KindsFact
<1>3. /\ pc[c] = "peek" /\ sock[c] # <<>> /\ Head(sock[c]) = sock[c][1]
      /\ Head(sock[c]).n \in 1..MaxRequests
      /\ sock'[c] = Tail(sock[c]) /\ \A d \in Clients \ {c} : sock'[d] = sock[d]
      /\ UNCHANGED <<mq, dev, up, made>>
    BY <1>1, TakeFact
<1>4. /\ \A s \in Sessions \ {c} : out'[s] = out[s] /\ pc'[s] = pc[s]
      /\ \/ targets = <<>> /\ out' = out /\ pc' = [pc EXCEPT ![c] = "recv"]
         \/ /\ targets # <<>> /\ pc' = [pc EXCEPT ![c] = "send"]
            /\ out'[c] = [i \in 1..Len(targets) |-> [to |-> targets[i], msg |-> msg]]
    BY <1>0, <1>1, <1>2, SendAllFact
<1>5. out[c] = <<>>
    BY <1>0, <1>3 DEF OutInv
<1>6. /\ pc'[c] = IF out'[c] = <<>> THEN "recv" ELSE "send"
      /\ \A i \in 1..Len(out'[c]) : out'[c][i].msg \notin Commands \cup Acks
  <2>1. CASE targets = <<>>
    BY <1>0, <1>4, <1>5, <2>1 DEF TypeOK
  <2>2. CASE targets # <<>>
    <3>1. Len(targets) \in Nat \ {0}
        BY <2>2
    <3>2. /\ pc'[c] = "send" /\ out'[c] # <<>> /\ Len(out'[c]) = Len(targets)
          /\ \A i \in 1..Len(targets) : out'[c][i].msg = msg
        BY <1>0, <1>4, <2>2, <3>1, SMTT(30) DEF TypeOK
    <3>3. QED
        BY <1>2, <3>2
  <2>3. QED
    BY <2>1, <2>2
<1>7. QED
    BY <1>1, <1>3, <1>4, <1>5, <1>6

\* An acknowledgement goes from the device's line to the sends, if its client is there.
LEMMA AckEffect ==
    ASSUME TypeOK, OutInv, NEW r \in Rtus, RtuAck(r)
    PROVE  /\ up[r] # <<>> /\ up[r][1] \in Acks /\ up'[r] = Tail(up[r])
           /\ \A x \in Rtus \ {r} : up'[x] = up[x]
           /\ pc[r] = "peek" /\ out[r] = <<>>
           /\ \A s \in Sessions \ {r} : out'[s] = out[s] /\ pc'[s] = pc[s]
           /\ \/ pc'[r] = "recv" /\ out'[r] = <<>>
              \/ pc'[r] = "send" /\ out'[r] = <<[to |-> up[r][1].client, msg |-> up[r][1]]>>
           /\ UNCHANGED <<mq, sock, dev, made, clientVars>>
<1> DEFINE ack == Head(up[r])
           targets == search(ack.client)
<1>0. r \in Sessions /\ Clients \subseteq Sessions
    BY DEF Sessions
<1>1. /\ pc[r] = "peek" /\ up[r] # <<>> /\ up' = [up EXCEPT ![r] = Tail(up[r])]
      /\ sendAll(r, targets, ack)
      /\ UNCHANGED <<mq, sock, dev, made, clientVars>>
    BY DEF RtuAck
<1>2. up[r] \in Seq(Acks)
    BY DEF TypeOK
<1>3. ack = up[r][1] /\ ack \in Acks
    BY <1>1, <1>2, TailFact
<1>4. ack.client \in Clients /\ ack \in Msgs
    BY <1>3 DEF Acks, Msgs
<1>5. targets = <<>> \/ targets = <<ack.client>>
    BY DEF search
<1> HIDE DEF targets
<1>6. targets \in Seq(Sessions)
  <2>1. <<>> \in Seq(Sessions) /\ <<ack.client>> \in Seq(Sessions)
    BY <1>0, <1>4
  <2>2. QED
    BY <1>5, <2>1
<1> HIDE DEF ack
<1>7. /\ \A s \in Sessions \ {r} : out'[s] = out[s] /\ pc'[s] = pc[s]
      /\ \/ targets = <<>> /\ out' = out /\ pc' = [pc EXCEPT ![r] = "recv"]
         \/ /\ targets # <<>> /\ pc' = [pc EXCEPT ![r] = "send"]
            /\ out'[r] = [i \in 1..Len(targets) |-> [to |-> targets[i], msg |-> ack]]
  <2>1. sendAll(r, targets, ack)
    BY <1>1
  <2>2. QED
    BY <1>0, <1>4, <1>6, <2>1, SendAllFact
<1>8. out[r] = <<>>
    BY <1>0, <1>1 DEF OutInv
<1>9. \/ pc'[r] = "recv" /\ out'[r] = <<>>
      \/ pc'[r] = "send" /\ out'[r] = <<[to |-> ack.client, msg |-> ack]>>
  <2>1. CASE targets = <<>>
    BY <1>0, <1>7, <1>8, <2>1 DEF TypeOK
  <2>2. CASE targets = <<ack.client>>
    <3>1. targets # <<>> /\ Len(targets) = 1 /\ targets[1] = ack.client
        BY <2>2
    <3>2. pc'[r] = "send" /\ out'[r] = [i \in 1..Len(targets) |-> [to |-> targets[i], msg |-> ack]]
        BY <1>0, <1>7, <3>1 DEF TypeOK
    <3>3. QED
        BY <3>1, <3>2
  <2>3. QED
    BY <1>5, <2>1, <2>2
<1>10. QED
    BY <1>1, <1>3, <1>7, <1>8, <1>9 DEF TypeOK

\* A send moves a message from the sends to a queue.
LEMMA SendEffect ==
    ASSUME TypeOK, OutInv, NEW s \in Sessions, Send(s)
    PROVE  /\ out[s] # <<>> /\ out[s][1] \in Sends
           /\ out'[s] = Tail(out[s]) /\ \A x \in Sessions \ {s} : out'[x] = out[x]
           /\ mq'[out[s][1].to] = Append(mq[out[s][1].to], out[s][1].msg)
           /\ \A x \in Sessions \ {out[s][1].to} : mq'[x] = mq[x]
           /\ pc' = [pc EXCEPT ![s] = IF out'[s] = <<>> THEN "recv" ELSE "send"]
           /\ UNCHANGED <<sock, dev, up, made, clientVars>>
<1> DEFINE e == Head(out[s])
<1>1. /\ pc[s] = "send"
      /\ mq' = [mq EXCEPT ![e.to] = Append(mq[e.to], e.msg)]
      /\ out' = [out EXCEPT ![s] = Tail(out[s])]
      /\ pc' = [pc EXCEPT ![s] = IF Len(out[s]) = 1 THEN "recv" ELSE "send"]
      /\ UNCHANGED <<sock, dev, up, made, clientVars>>
    BY DEF Send, goto, netVars
<1>2. out[s] \in Seq(Sends) /\ out[s] # <<>>
    BY <1>1 DEF OutInv, TypeOK
<1>3. e = out[s][1] /\ e \in Sends /\ Len(Tail(out[s])) = Len(out[s]) - 1 /\ Len(out[s]) \in Nat
      /\ Tail(out[s]) \in Seq(Sends)
    BY <1>2, TailFact
<1>4. e.to \in Sessions
    BY <1>3 DEF Sends
<1>5. Len(out[s]) = 1 <=> Tail(out[s]) = <<>>
  <2> DEFINE q == Tail(out[s])
  <2>1. q \in Seq(Sends) /\ Len(q) = Len(out[s]) - 1 /\ Len(out[s]) \in Nat
    BY <1>3
  <2> HIDE DEF q
  <2>2. Len(q) = 0 <=> q = <<>>
    BY <2>1, EmptySeq
  <2>3. Len(out[s]) = 1 <=> q = <<>>
    BY <2>1, <2>2
  <2>4. QED
    BY <2>3 DEF q
<1> HIDE DEF e
<1>6. /\ out'[s] = Tail(out[s]) /\ \A x \in Sessions \ {s} : out'[x] = out[x]
      /\ mq'[e.to] = Append(mq[e.to], e.msg) /\ \A x \in Sessions \ {e.to} : mq'[x] = mq[x]
    BY <1>1, <1>4 DEF TypeOK
<1>7. QED
    BY <1>1, <1>2, <1>3, <1>5, <1>6

\* A command that is refused: its number goes to those taken, and 0 to the answers.
LEMMA RefuseEffect ==
    ASSUME TypeOK, NEW c \in Clients, RefuseCommand(c)
    PROVE  /\ sock[c] # <<>> /\ sock[c][1].n \in 1..MaxRequests
           /\ sock'[c] = Tail(sock[c]) /\ \A d \in Clients \ {c} : sock'[d] = sock[d]
           /\ taken'[c] = taken[c] \cup {sock[c][1].n}
           /\ \A d \in Clients \ {c} : taken'[d] = taken[d]
           /\ replies'[c] = Append(replies[c], 0)
           /\ \A d \in Clients \ {c} : replies'[d] = replies[d]
           /\ pc[c] = "peek" /\ pc' = [pc EXCEPT ![c] = "recv"]
           /\ waiting' = [waiting EXCEPT ![c] = FALSE]
           /\ scode' = [scode EXCEPT ![c] = sock[c][1].n]
           /\ UNCHANGED <<out, mq, dev, up, made, logged>>
<1>1. /\ Take(c, "COMMAND_CLIENT")
      /\ waiting' = [waiting EXCEPT ![c] = FALSE]
      /\ scode' = [scode EXCEPT ![c] = Head(sock[c]).n]
      /\ taken' = [taken EXCEPT ![c] = taken[c] \cup {Head(sock[c]).n}]
      /\ replies' = [replies EXCEPT ![c] = Append(replies[c], 0)]
      /\ pc' = [pc EXCEPT ![c] = "recv"]
      /\ UNCHANGED <<out, logged>>
    BY DEF RefuseCommand, answer, goto
<1>2. /\ pc[c] = "peek" /\ sock[c] # <<>> /\ Head(sock[c]) = sock[c][1]
      /\ Head(sock[c]).n \in 1..MaxRequests
      /\ sock'[c] = Tail(sock[c]) /\ \A d \in Clients \ {c} : sock'[d] = sock[d]
      /\ UNCHANGED <<mq, dev, up, made>>
    BY <1>1, TakeFact
<1>3. /\ taken'[c] = taken[c] \cup {sock[c][1].n} /\ \A d \in Clients \ {c} : taken'[d] = taken[d]
      /\ replies'[c] = Append(replies[c], 0) /\ \A d \in Clients \ {c} : replies'[d] = replies[d]
    BY <1>1, <1>2 DEF TypeOK
<1>4. QED
    BY <1>1, <1>2, <1>3

\* The waiting ends without an acknowledgement.
LEMMA ExpireEffect ==
    ASSUME TypeOK, NEW c \in Clients, Expire(c)
    PROVE  /\ waiting[c] /\ waiting' = [waiting EXCEPT ![c] = FALSE]
           /\ replies'[c] = Append(replies[c], 0)
           /\ \A d \in Clients \ {c} : replies'[d] = replies[d]
           /\ UNCHANGED <<pc, out, mq, sock, dev, up, made, scode, logged, taken>>
BY DEF Expire, answer, netVars, TypeOK

\* A message a client's session takes: an acknowledgement goes to the answers.
LEMMA MessageEffect ==
    ASSUME TypeOK, OwnInv, NEW c \in Clients, ClientMessage(c)
    PROVE  /\ mq[c] # <<>> /\ mq[c][1] \in Msgs /\ mq'[c] = Tail(mq[c])
           /\ \A s \in Sessions \ {c} : mq'[s] = mq[s]
           /\ pc[c] = "recv" /\ pc' = [pc EXCEPT ![c] = "peek"]
           /\ \/ /\ mq[c][1] \in Acks /\ mq[c][1].client = c /\ mq[c][1].n \in taken[c]
                 /\ waiting' = [waiting EXCEPT ![c] = FALSE]
                 /\ scode' = [scode EXCEPT ![c] = mq[c][1].n]
                 /\ logged' = logged \cup {cmdLog(c)} /\ IsLast(c, cmdLog(c))
                 /\ replies'[c] = Append(replies[c], mq[c][1].n)
                 /\ \A d \in Clients \ {c} : replies'[d] = replies[d]
              \/ mq[c][1] \notin Acks /\ UNCHANGED <<waiting, scode, logged, replies>>
           /\ UNCHANGED <<out, sock, dev, up, made, taken>>
<1> DEFINE m == Head(mq[c])
<1>0. c \in Sessions
    BY DEF Sessions
<1>1. /\ pc[c] = "recv" /\ mq[c] # <<>> /\ mq' = [mq EXCEPT ![c] = Tail(mq[c])]
      /\ IF m.kind = "COMMAND_RTU_ACK" THEN acked(c, m.n)
         ELSE UNCHANGED <<waiting, scode, logged, replies>>
      /\ pc' = [pc EXCEPT ![c] = "peek"]
      /\ UNCHANGED <<out, sock, dev, up, made, taken>>
    BY DEF ClientMessage, goto, netVars
<1>2. m \in Msgs /\ m = mq[c][1]
    BY <1>0, <1>1, HeadFact
<1>3. m.kind = "COMMAND_RTU_ACK" => /\ m \in Acks /\ m.client = c /\ m.n \in taken[c]
                                    /\ IsLast(c, cmdLog(c))
    BY <1>0, <1>1, HeadFact
<1>4. m \in Acks => m.kind = "COMMAND_RTU_ACK"
    BY <1>2, KindsFact
<1> HIDE DEF m
<1>5. ASSUME m.kind = "COMMAND_RTU_ACK"
      PROVE  /\ waiting' = [waiting EXCEPT ![c] = FALSE]
             /\ scode' = [scode EXCEPT ![c] = m.n]
             /\ logged' = logged \cup {cmdLog(c)}
             /\ replies'[c] = Append(replies[c], m.n)
             /\ \A d \in Clients \ {c} : replies'[d] = replies[d]
    BY <1>1, <1>5 DEF acked, update_cmd_log, answer, TypeOK
<1>6. mq'[c] = Tail(mq[c]) /\ \A s \in Sessions \ {c} : mq'[s] = mq[s]
    BY <1>0, <1>1 DEF TypeOK
<1>7. QED
    BY <1>1, <1>2, <1>3, <1>4, <1>5, <1>6

\* A message an RTU session takes: a command goes to the device.
LEMMA RtuMessageEffect ==
    ASSUME TypeOK, OwnInv, NEW r \in Rtus, RtuMessage(r)
    PROVE  /\ mq[r] # <<>> /\ mq[r][1] \in Msgs /\ mq'[r] = Tail(mq[r])
           /\ \A s \in Sessions \ {r} : mq'[s] = mq[s]
           /\ pc[r] = "recv" /\ pc' = [pc EXCEPT ![r] = "peek"]
           /\ \/ dev' = dev
              \/ /\ mq[r][1] \in Commands /\ dev'[r] = Append(dev[r], mq[r][1])
                 /\ \A x \in Rtus \ {r} : dev'[x] = dev[x]
           /\ UNCHANGED <<out, sock, up, made, waiting, scode, logged, taken, replies>>
<1> DEFINE m == Head(mq[r])
<1>0. r \in Sessions
    BY DEF Sessions
<1>1. /\ pc[r] = "recv" /\ mq[r] # <<>> /\ mq' = [mq EXCEPT ![r] = Tail(mq[r])]
      /\ dev' = IF m.kind = "COMMAND_RTU" THEN [dev EXCEPT ![r] = Append(dev[r], m)] ELSE dev
      /\ pc' = [pc EXCEPT ![r] = "peek"]
      /\ UNCHANGED <<out, sock, up, made, waiting, scode, logged, taken, replies>>
    BY DEF RtuMessage, goto, clientVars
<1>2. m \in Msgs /\ m = mq[r][1]
    BY <1>0, <1>1, HeadFact
<1>3. m.kind = "COMMAND_RTU" => m \in Commands
    BY <1>2, KindsFact
<1> HIDE DEF m
<1>4. \/ dev' = dev
      \/ m \in Commands /\ dev'[r] = Append(dev[r], m) /\ \A x \in Rtus \ {r} : dev'[x] = dev[x]
    BY <1>1, <1>3 DEF TypeOK
<1>5. mq'[r] = Tail(mq[r]) /\ \A s \in Sessions \ {r} : mq'[s] = mq[s]
    BY <1>0, <1>1 DEF TypeOK
<1>6. QED
    BY <1>1, <1>2, <1>4, <1>5

\* A device takes a command, and acknowledges it or not.
LEMMA DeviceEffect ==
    ASSUME TypeOK, NEW r \in Rtus, Acknowledge(r) \/ Ignore(r)
    PROVE  /\ dev[r] # <<>> /\ dev[r][1] \in Commands /\ dev'[r] = Tail(dev[r])
           /\ \A x \in Rtus \ {r} : dev'[x] = dev[x]
           /\ \/ up' = up
              \/ /\ \E a \in Acks : /\ a.client = dev[r][1].client /\ a.n = dev[r][1].n
                                    /\ up'[r] = Append(up[r], a)
                 /\ \A x \in Rtus \ {r} : up'[x] = up[x]
           /\ UNCHANGED <<pc, out, mq, sock, made, waiting, scode, logged, taken, replies>>
<1> DEFINE a == [Head(dev[r]) EXCEPT !.kind = "COMMAND_RTU_ACK"]
<1>1. /\ dev[r] # <<>> /\ dev' = [dev EXCEPT ![r] = Tail(dev[r])]
      /\ up' = up \/ up' = [up EXCEPT ![r] = Append(up[r], a)]
      /\ UNCHANGED <<pc, out, mq, sock, made, waiting, scode, logged, taken, replies>>
    BY DEF Acknowledge, Ignore, clientVars
<1>2. dev[r] \in Seq(Commands)
    BY DEF TypeOK
<1>3. Head(dev[r]) = dev[r][1] /\ Head(dev[r]) \in Commands
    BY <1>1, <1>2, TailFact
<1>4. a \in Acks /\ a.client = dev[r][1].client /\ a.n = dev[r][1].n
    BY <1>3 DEF Commands, Acks
<1> HIDE DEF a
<1>5. dev'[r] = Tail(dev[r]) /\ \A x \in Rtus \ {r} : dev'[x] = dev[x]
    BY <1>1 DEF TypeOK
<1>6. up' = up \/ (up'[r] = Append(up[r], a) /\ \A x \in Rtus \ {r} : up'[x] = up[x])
    BY <1>1 DEF TypeOK
<1>7. QED
    BY <1>1, <1>3, <1>4, <1>5, <1>6

\* The end of a session and what the server does then only take messages away.
LEMMA EndEffect ==
    ASSUME TypeOK, NEW s \in Sessions, Die(s) \/ Forget(s)
    PROVE  /\ \A x \in Sessions : \/ out'[x] = out[x] /\ pc'[x] = pc[x]
                                  \/ out'[x] = <<>> /\ pc'[x] = "dead"
           /\ \A x \in Sessions : mq'[x] = mq[x] \/ mq'[x] = <<>>
           /\ \A r \in Rtus : dev'[r] = dev[r] \/ dev'[r] = <<>>
           /\ \A r \in Rtus : up'[r] = up[r] \/ up'[r] = <<>>
           /\ \A c \in Clients : sock'[c] = sock[c] \/ sock'[c] = <<>>
           /\ UNCHANGED <<made, waiting, scode, logged, taken, replies>>
<1>1. CASE Die(s)
  <2>1. /\ pc' = [pc EXCEPT ![s] = "dead"] /\ out' = [out EXCEPT ![s] = <<>>]
        /\ UNCHANGED <<mq, made, waiting, scode, logged, taken, replies>>
    BY <1>1 DEF Die, close, goto, clientVars
  <2>2. /\ sock' = [c \in Clients |-> IF c = s THEN <<>> ELSE sock[c]]
        /\ dev' = [r \in Rtus |-> IF r = s THEN <<>> ELSE dev[r]]
        /\ up' = [r \in Rtus |-> IF r = s THEN <<>> ELSE up[r]]
    BY <1>1 DEF Die, close
  <2>3. \A x \in Sessions : \/ out'[x] = out[x] /\ pc'[x] = pc[x]
                            \/ out'[x] = <<>> /\ pc'[x] = "dead"
    BY <2>1 DEF TypeOK
  <2>4. QED
    BY <2>1, <2>2, <2>3
<1>2. CASE Forget(s)
  <2>1. /\ mq' = [mq EXCEPT ![s] = <<>>]
        /\ UNCHANGED <<pc, out, sock, dev, up, made, waiting, scode, logged, taken, replies>>
    BY <1>2 DEF Forget, netVars, clientVars
  <2>2. \A x \in Sessions : mq'[x] = mq[x] \/ mq'[x] = <<>>
    BY <2>1 DEF TypeOK
  <2>3. QED
    BY <2>1, <2>2
<1>3. QED
    BY <1>1, <1>2

\* A new request.
LEMMA MakeEffect ==
    ASSUME TypeOK, NEW c \in Clients, NEW q \in Requests, MakeRequest(c, q)
    PROVE  /\ made' = made + 1 /\ q.n = made + 1 /\ sock'[c] = Append(sock[c], q)
           /\ \A d \in Clients \ {c} : sock'[d] = sock[d]
           /\ UNCHANGED <<pc, out, mq, dev, up, waiting, scode, logged, taken, replies>>
BY DEF MakeRequest, clientVars, TypeOK

\* What a step can be; all that does not occur by name only moves a session on.
LEMMA Steps ==
    ASSUME TypeOK, [Next]_vars
    PROVE  \/ \E c \in Clients, q \in Requests : MakeRequest(c, q)
           \/ \E c \in Clients : Expire(c)
           \/ \E c \in Clients : ClientMessage(c)
           \/ \E c \in Clients : SendCommand(c)
           \/ \E c \in Clients : RefuseCommand(c)
           \/ \E c \in Clients : Setup(c) \/ Broadcast(c)
           \/ \E r \in Rtus : RtuMessage(r)
           \/ \E r \in Rtus : RtuAck(r)
           \/ \E r \in Rtus : Acknowledge(r) \/ Ignore(r)
           \/ \E s \in Sessions : Send(s)
           \/ \E s \in Sessions : Die(s) \/ Forget(s)
           \/ /\ UNCHANGED <<out, mq, sock, dev, up, made, waiting, scode, logged, taken, replies>>
              /\ \A s \in Sessions : \/ pc'[s] = pc[s]
                                     \/ pc[s] # "send" /\ pc'[s] # "send"
<1> DEFINE Quiet ==
        /\ UNCHANGED <<out, mq, sock, dev, up, made, waiting, scode, logged, taken, replies>>
        /\ \A s \in Sessions : pc'[s] = pc[s] \/ (pc[s] # "send" /\ pc'[s] # "send")
<1>1. ASSUME NEW c \in Clients, ClientNoMessage(c) \/ ClientNoRequest(c) PROVE Quiet
  <2>1. UNCHANGED <<out, mq, sock, dev, up, made, waiting, scode, logged, taken, replies>>
    BY <1>1 DEF ClientNoMessage, ClientNoRequest, netVars, clientVars
  <2>2. /\ pc[c] # "send"
        /\ pc' = [pc EXCEPT ![c] = "peek"] \/ pc' = [pc EXCEPT ![c] = "recv"]
    BY <1>1 DEF ClientNoMessage, ClientNoRequest, goto
  <2>3. QED
    BY <2>1, <2>2 DEF TypeOK
<1>2. ASSUME NEW r \in Rtus, RtuNoMessage(r) \/ RtuNoAck(r) PROVE Quiet
  <2>1. UNCHANGED <<out, mq, sock, dev, up, made, waiting, scode, logged, taken, replies>>
    BY <1>2 DEF RtuNoMessage, RtuNoAck, netVars, clientVars
  <2>2. /\ pc[r] # "send"
        /\ pc' = [pc EXCEPT ![r] = "peek"] \/ pc' = [pc EXCEPT ![r] = "recv"]
    BY <1>2 DEF RtuNoMessage, RtuNoAck, goto
  <2>3. QED
    BY <2>1, <2>2 DEF TypeOK
<1>3. ASSUME UNCHANGED vars PROVE Quiet
    BY <1>3 DEF vars
<1> HIDE DEF Quiet
<1>4. \/ Next \/ Quiet
    BY <1>3
<1>5. CASE Next
    BY <1>1, <1>2, <1>5 DEF Next, ClientStep, RtuStep, Sessions, Quiet
<1>6. QED
    BY <1>4, <1>5 DEF Quiet

\* Each action keeps what is known of the sends a session has still to make.
LEMMA OutStep == TypeOK /\ OwnInv /\ OutInv /\ [Next]_vars => OutInv'
<1> SUFFICES ASSUME TypeOK, OwnInv, OutInv, [Next]_vars, NEW s \in Sessions
             PROVE  pc'[s] = "send" <=> out'[s] # <<>>
    BY DEF OutInv
<1>0. pc[s] = "send" <=> out[s] # <<>>
    BY DEF OutInv
<1>a. \A e : <<e>> # <<>>
    OBVIOUS
<1>1. ASSUME NEW c \in Clients, NEW q \in Requests, MakeRequest(c, q) PROVE UNCHANGED <<pc, out>>
    BY <1>1, MakeEffect
<1>2. ASSUME NEW c \in Clients, Expire(c) PROVE UNCHANGED <<pc, out>>
    BY <1>2, ExpireEffect
<1>3. ASSUME NEW c \in Clients, ClientMessage(c)
      PROVE  out' = out /\ pc[c] = "recv" /\ pc' = [pc EXCEPT ![c] = "peek"]
    BY <1>3, MessageEffect
<1>4. ASSUME NEW c \in Clients, SendCommand(c) PROVE pc'[s] = "send" <=> out'[s] # <<>>
  <2>1. /\ pc' = [pc EXCEPT ![c] = "send"] /\ \A x \in Sessions \ {c} : out'[x] = out[x]
        /\ \E e : out'[c] = <<e>>
    BY <1>4, CommandEffect
  <2>2. out'[c] # <<>>
    BY <1>a, <2>1, Zenon
  <2>3. QED
    BY <1>0, <2>1, <2>2 DEF TypeOK
<1>5. ASSUME NEW c \in Clients, RefuseCommand(c)
      PROVE  out' = out /\ pc[c] = "peek" /\ pc' = [pc EXCEPT ![c] = "recv"]
    BY <1>5, RefuseEffect
<1>6. ASSUME NEW c \in Clients, Setup(c) \/ Broadcast(c) PROVE pc'[s] = "send" <=> out'[s] # <<>>
  <2>1. /\ \A x \in Sessions \ {c} : out'[x] = out[x] /\ pc'[x] = pc[x]
        /\ pc'[c] = IF out'[c] = <<>> THEN "recv" ELSE "send"
    BY <1>6, PlainEffect
  <2>2. QED
    BY <1>0, <2>1
<1>7. ASSUME NEW r \in Rtus, RtuMessage(r)
      PROVE  out' = out /\ pc[r] = "recv" /\ pc' = [pc EXCEPT ![r] = "peek"]
    BY <1>7, RtuMessageEffect
<1>8. ASSUME NEW r \in Rtus, RtuAck(r) PROVE pc'[s] = "send" <=> out'[s] # <<>>
  <2>1. /\ \A x \in Sessions \ {r} : out'[x] = out[x] /\ pc'[x] = pc[x]
        /\ \/ pc'[r] = "recv" /\ out'[r] = <<>>
           \/ pc'[r] = "send" /\ out'[r] # <<>>
    BY <1>8, <1>a, AckEffect, Zenon
  <2>2. QED
    BY <1>0, <2>1
<1>9. ASSUME NEW r \in Rtus, Acknowledge(r) \/ Ignore(r) PROVE UNCHANGED <<pc, out>>
    BY <1>9, DeviceEffect
<1>10. ASSUME NEW x \in Sessions, Send(x) PROVE pc'[s] = "send" <=> out'[s] # <<>>
  <2>1. /\ pc' = [pc EXCEPT ![x] = IF out'[x] = <<>> THEN "recv" ELSE "send"]
        /\ \A y \in Sessions \ {x} : out'[y] = out[y]
    BY <1>10, SendEffect
  <2>2. QED
    BY <1>0, <2>1 DEF TypeOK
<1>11. ASSUME NEW x \in Sessions, Die(x) \/ Forget(x) PROVE pc'[s] = "send" <=> out'[s] # <<>>
    BY <1>0, <1>11, EndEffect
<1>12. QED
  <2>1. \A x \in Sessions, l \in {"recv", "peek"} :
          out' = out /\ pc[x] # "send" /\ pc' = [pc EXCEPT ![x] = l]
            => (pc'[s] = "send" <=> out'[s] # <<>>)
    BY <1>0 DEF TypeOK
  <2>2. UNCHANGED <<pc, out>> => (pc'[s] = "send" <=> out'[s] # <<>>)
    BY <1>0
  <2>3. out' = out /\ (pc'[s] = pc[s] \/ (pc[s] # "send" /\ pc'[s] # "send"))
          => (pc'[s] = "send" <=> out'[s] # <<>>)
    BY <1>0
  <2>4. Clients \subseteq Sessions /\ Rtus \subseteq Sessions
    BY DEF Sessions
  <2>5. QED
    BY <1>1, <1>2, <1>3, <1>4, <1>5, <1>6, <1>7, <1>8, <1>9, <1>10, <1>11,
       <2>1, <2>2, <2>3, <2>4, Steps

-----------------------------------------------------------------------------
(* Whose the commands under way are.                                        *)

\* No session forgets a command it took.
LEMMA TakenGrows ==
    ASSUME TypeOK, OutInv, [Next]_vars, NEW c \in Clients
    PROVE  taken[c] \subseteq taken'[c]
<1>1. ASSUME NEW d \in Clients, SendCommand(d) PROVE taken[c] \subseteq taken'[c]
    BY <1>1, CommandEffect
<1>2. ASSUME NEW d \in Clients, RefuseCommand(d) PROVE taken[c] \subseteq taken'[c]
    BY <1>2, RefuseEffect
<1>3. QED
    BY <1>1, <1>2, WhoChanges

\* At first no client has sent anything.
LEMMA OwnInit == Init => OwnInv
<1>1. Len(<<>>) = 0
    OBVIOUS
<1>2. QED
    BY <1>1 DEF Init, OwnInv

\* A client's requests carry its name, wherever a step takes them.
LEMMA OwnStep == TypeOK /\ OwnInv /\ OutInv /\ [Next]_vars => OwnInv'
<1> SUFFICES ASSUME TypeOK, OwnInv, OutInv, [Next]_vars PROVE OwnInv'
    OBVIOUS
<1> DEFINE After(m) == m \in Commands \cup Acks => m.n \in taken'[m.client]
<1>0. TypeOK' /\ Clients \subseteq Sessions /\ Rtus \subseteq Sessions
    BY TypeStep DEF Sessions
<1>1. ASSUME NEW m, Taken(m) PROVE After(m)
  <2>1. m \in Commands \cup Acks => m.client \in Clients
    BY DEF Commands, Acks
  <2>2. QED
    BY <1>1, <2>1, TakenGrows DEF Taken
<1>2. ASSUME NEW m, m \notin Commands \cup Acks PROVE After(m)
    BY <1>2
<1>3. /\ \A s \in Sessions : \A i \in 1..Len(out[s]) :
             /\ After(out[s][i].msg)
             /\ out[s][i].msg \in Acks => out[s][i].to = out[s][i].msg.client
      /\ \A s \in Sessions : \A i \in 1..Len(mq[s]) :
             /\ After(mq[s][i])
             /\ mq[s][i] \in Acks => s = mq[s][i].client
      /\ \A r \in Rtus : \A i \in 1..Len(dev[r]) : After(dev[r][i])
      /\ \A r \in Rtus : \A i \in 1..Len(up[r]) : After(up[r][i])
    BY <1>1 DEF OwnInv
<1> DEFINE AfterSend(e) == After(e.msg) /\ (e.msg \in Acks => e.to = e.msg.client)
           AfterIn(s, m) == After(m) /\ (m \in Acks => s = m.client)
<1>4. /\ \A s \in Sessions : out[s] \in Seq(Sends) /\ out'[s] \in Seq(Sends)
      /\ \A s \in Sessions : mq[s] \in Seq(Msgs) /\ mq'[s] \in Seq(Msgs)
      /\ \A r \in Rtus : dev[r] \in Seq(Commands) /\ up[r] \in Seq(Acks)
    BY <1>0 DEF TypeOK
<1>5. Len(<<>>) = 0 /\ \A e : Len(<<e>>) = 1 /\ <<e>>[1] = e
    OBVIOUS
<1>6. \A s \in Sessions : \A i \in 1..Len(out'[s]) : AfterSend(out'[s][i])
  <2> SUFFICES ASSUME NEW s \in Sessions, NEW i \in 1..Len(out'[s]) PROVE AfterSend(out'[s][i])
    OBVIOUS
  <2>0. \A j \in 1..Len(out[s]) : AfterSend(out[s][j])
    BY <1>3
  <2>1. CASE out'[s] = out[s]
    BY <2>0, <2>1
  <2>2. CASE out'[s] = <<>>
    BY <1>5, <2>2
  <2>3. ASSUME NEW c \in Clients, SendCommand(c), s = c PROVE AfterSend(out'[s][i])
    <3> DEFINE m == [kind |-> "COMMAND_RTU", client |-> c, n |-> sock[c][1].n]
    <3>1. PICK r \in Rtus : out'[c] = <<[to |-> r, msg |-> m]>>
        BY <2>3, CommandEffect
    <3>2. out'[s][i] = [to |-> r, msg |-> m]
        BY <1>5, <2>3, <3>1
    <3>3. m.n \in taken'[c]
        BY <2>3, CommandEffect
    <3>4. m \notin Acks
        BY DEF Acks
    <3>5. QED
        BY <3>2, <3>3, <3>4
  <2>4. ASSUME NEW c \in Clients, Setup(c) \/ Broadcast(c), s = c PROVE AfterSend(out'[s][i])
    <3>1. out'[s][i].msg \notin Commands \cup Acks
        BY <2>4, PlainEffect
    <3>2. QED
        BY <1>2, <3>1
  <2>5. ASSUME NEW r \in Rtus, RtuAck(r), s = r PROVE AfterSend(out'[s][i])
    <3>1. CASE out'[r] = <<[to |-> up[r][1].client, msg |-> up[r][1]]>>
      <4>1. out'[s][i] = [to |-> up[r][1].client, msg |-> up[r][1]]
        BY <1>5, <2>5, <3>1
      <4>2. up[r] # <<>> /\ up[r] \in Seq(Acks)
        BY <1>4, <2>5, AckEffect
      <4>3. 1 \in 1..Len(up[r])
        BY <4>2, TailFact
      <4>4. After(up[r][1])
        BY <1>3, <4>3
      <4>5. QED
        BY <4>1, <4>4
    <3>2. QED
        BY <2>2, <2>5, <3>1, AckEffect
  <2>6. ASSUME NEW x \in Sessions, Send(x), s = x PROVE AfterSend(out'[s][i])
    <3>1. out[s] # <<>> /\ out'[s] = Tail(out[s])
        BY <2>6, SendEffect
    <3>2. i + 1 \in 1..Len(out[s]) /\ out'[s][i] = out[s][i + 1]
        BY <1>4, <3>1, TailFact
    <3>3. QED
        BY <2>0, <3>2
  <2> HIDE DEF AfterSend
  <2>7. \A c \in Clients : SendCommand(c) \/ Setup(c) \/ Broadcast(c) => s = c \/ out'[s] = out[s]
    BY <1>0, CommandEffect, PlainEffect
  <2>8. \A r \in Rtus : RtuAck(r) => s = r \/ out'[s] = out[s]
    BY <1>0, AckEffect
  <2>9. \A x \in Sessions : Send(x) => s = x \/ out'[s] = out[s]
    BY SendEffect
  <2>10. \A x \in Sessions : Die(x) => out'[s] = out[s] \/ out'[s] = <<>>
    BY EndEffect
  <2>11. QED
    BY <2>1, <2>2, <2>3, <2>4, <2>5, <2>6, <2>7, <2>8, <2>9, <2>10, WhoChanges
<1>7. \A s \in Sessions : \A i \in 1..Len(mq'[s]) : AfterIn(s, mq'[s][i])
  <2> SUFFICES ASSUME NEW s \in Sessions, NEW i \in 1..Len(mq'[s]) PROVE AfterIn(s, mq'[s][i])
    OBVIOUS
  <2>0. \A j \in 1..Len(mq[s]) : AfterIn(s, mq[s][j])
    BY <1>3
  <2>1. CASE mq'[s] = mq[s]
    BY <2>0, <2>1
  <2>2. CASE mq'[s] = <<>>
    BY <1>5, <2>2
  <2>3. CASE mq[s] # <<>> /\ mq'[s] = Tail(mq[s])
    <3>1. i + 1 \in 1..Len(mq[s]) /\ mq'[s][i] = mq[s][i + 1]
        BY <1>4, <2>3, TailFact
    <3>2. QED
        BY <2>0, <3>1
  <2>4. ASSUME NEW x \in Sessions, Send(x) PROVE AfterIn(s, mq'[s][i])
    <3> DEFINE e == out[x][1]
    <3>1. /\ out[x] # <<>> /\ e \in Sends /\ mq'[e.to] = Append(mq[e.to], e.msg)
          /\ \A y \in Sessions \ {e.to} : mq'[y] = mq[y]
        BY <2>4, SendEffect
    <3>2. 1 \in 1..Len(out[x])
        BY <1>4, <3>1, TailFact
    <3>3. After(e.msg) /\ (e.msg \in Acks => e.to = e.msg.client)
        BY <1>3, <3>2
    <3>4. e.msg \in Msgs /\ e.to \in Sessions
        BY <3>1 DEF Sends
    <3> HIDE DEF e
    <3>5. CASE s = e.to
      <4>1. mq[s] \in Seq(Msgs) /\ mq'[s] = Append(mq[s], e.msg)
        BY <1>4, <3>1, <3>5
      <4>2. (i \in 1..Len(mq[s]) /\ mq'[s][i] = mq[s][i]) \/ mq'[s][i] = e.msg
        BY <3>4, <4>1, AppendFact
      <4>3. QED
        BY <2>0, <3>3, <3>5, <4>2
    <3>6. QED
        BY <2>1, <3>1, <3>5
  <2> HIDE DEF AfterIn
  <2>5. \A c \in Clients : ClientMessage(c) =>
          mq'[s] = mq[s] \/ (mq[s] # <<>> /\ mq'[s] = Tail(mq[s]))
    BY MessageEffect
  <2>6. \A r \in Rtus : RtuMessage(r) =>
          mq'[s] = mq[s] \/ (mq[s] # <<>> /\ mq'[s] = Tail(mq[s]))
    BY RtuMessageEffect
  <2>7. \A x \in Sessions : Forget(x) => mq'[s] = mq[s] \/ mq'[s] = <<>>
    BY EndEffect
  <2>8. QED
    BY <2>1, <2>2, <2>3, <2>4, <2>5, <2>6, <2>7, WhoChanges
<1>8. \A r \in Rtus : \A i \in 1..Len(dev'[r]) : After(dev'[r][i])
  <2> SUFFICES ASSUME NEW r \in Rtus, NEW i \in 1..Len(dev'[r]) PROVE After(dev'[r][i])
    OBVIOUS
  <2>0. \A j \in 1..Len(dev[r]) : After(dev[r][j])
    BY <1>3
  <2>1. CASE dev'[r] = dev[r]
    BY <2>0, <2>1
  <2>2. CASE dev'[r] = <<>>
    BY <1>5, <2>2
  <2>3. CASE dev[r] # <<>> /\ dev'[r] = Tail(dev[r])
    <3>1. i + 1 \in 1..Len(dev[r]) /\ dev'[r][i] = dev[r][i + 1]
        BY <1>4, <2>3, TailFact
    <3>2. QED
        BY <2>0, <3>1
  <2>4. CASE /\ mq[r] # <<>> /\ mq[r][1] \in Commands
             /\ dev'[r] = Append(dev[r], mq[r][1])
    <3> DEFINE m == mq[r][1]
    <3>1. 1 \in 1..Len(mq[r]) /\ r \in Sessions
        BY <1>0, <1>4, <2>4, TailFact
    <3>2. After(m) /\ m \in Commands /\ dev'[r] = Append(dev[r], m)
        BY <1>3, <2>4, <3>1
    <3> HIDE DEF m
    <3>3. (i \in 1..Len(dev[r]) /\ dev'[r][i] = dev[r][i]) \/ dev'[r][i] = m
        BY <1>4, <3>2, AppendFact
    <3>4. QED
        BY <2>0, <3>2, <3>3
  <2> HIDE DEF After
  <2>5. \A x \in Rtus : RtuMessage(x) =>
          \/ dev'[r] = dev[r]
          \/ mq[r] # <<>> /\ mq[r][1] \in Commands /\ dev'[r] = Append(dev[r], mq[r][1])
    BY RtuMessageEffect
  <2>6. \A x \in Rtus : Acknowledge(x) \/ Ignore(x) =>
          dev'[r] = dev[r] \/ (dev[r] # <<>> /\ dev'[r] = Tail(dev[r]))
    BY DeviceEffect
  <2>7. \A x \in Sessions : Die(x) => dev'[r] = dev[r] \/ dev'[r] = <<>>
    BY EndEffect
  <2>8. QED
    BY <2>1, <2>2, <2>3, <2>4, <2>5, <2>6, <2>7, WhoChanges
<1>9. \A r \in Rtus : \A i \in 1..Len(up'[r]) : After(up'[r][i])
  <2> SUFFICES ASSUME NEW r \in Rtus, NEW i \in 1..Len(up'[r]) PROVE After(up'[r][i])
    OBVIOUS
  <2>0. \A j \in 1..Len(up[r]) : After(up[r][j])
    BY <1>3
  <2>1. CASE up'[r] = up[r]
    BY <2>0, <2>1
  <2>2. CASE up'[r] = <<>>
    BY <1>5, <2>2
  <2>3. CASE up[r] # <<>> /\ up'[r] = Tail(up[r])
    <3>1. i + 1 \in 1..Len(up[r]) /\ up'[r][i] = up[r][i + 1]
        BY <1>4, <2>3, TailFact
    <3>2. QED
        BY <2>0, <3>1
  <2>4. ASSUME NEW a \in Acks, dev[r] # <<>>, dev[r][1] \in Commands, up'[r] = Append(up[r], a),
               a.client = dev[r][1].client, a.n = dev[r][1].n
        PROVE  After(up'[r][i])
    <3>1. 1 \in 1..Len(dev[r])
        BY <1>4, <2>4, TailFact
    <3>2. After(dev[r][1])
        BY <1>3, <3>1
    <3>3. After(a)
        BY <2>4, <3>2
    <3>4. (i \in 1..Len(up[r]) /\ up'[r][i] = up[r][i]) \/ up'[r][i] = a
        BY <1>4, <2>4, AppendFact
    <3>5. QED
        BY <2>0, <3>3, <3>4
  <2> HIDE DEF After
  <2>5. \A x \in Rtus : Acknowledge(x) =>
          \/ up'[r] = up[r]
          \/ \E a \in Acks : /\ dev[r] # <<>> /\ dev[r][1] \in Commands
                             /\ up'[r] = Append(up[r], a)
                             /\ a.client = dev[r][1].client /\ a.n = dev[r][1].n
    BY DeviceEffect
  <2>6. \A x \in Rtus : RtuAck(x) => up'[r] = up[r] \/ (up[r] # <<>> /\ up'[r] = Tail(up[r]))
    BY AckEffect
  <2>7. \A x \in Sessions : Die(x) => up'[r] = up[r] \/ up'[r] = <<>>
    BY EndEffect
  <2>8. QED
    BY <2>1, <2>2, <2>3, <2>4, <2>5, <2>6, <2>7, WhoChanges
<1>10. \A c \in Clients : \A i \in 1..Len(replies'[c]) : replies'[c][i] \in taken'[c] \cup {0}
  <2> SUFFICES ASSUME NEW c \in Clients, NEW i \in 1..Len(replies'[c])
               PROVE  replies'[c][i] \in taken'[c] \cup {0}
    OBVIOUS
  <2>0. /\ \A j \in 1..Len(replies[c]) : replies[c][j] \in taken'[c] \cup {0}
        /\ replies[c] \in Seq(0..MaxRequests)
    BY TakenGrows DEF OwnInv, TypeOK
  <2>1. CASE replies'[c] = replies[c]
    BY <2>0, <2>1
  <2>2. ASSUME NEW n \in 0..MaxRequests, n \in taken[c] \cup {0}, replies'[c] = Append(replies[c], n)
        PROVE  replies'[c][i] \in taken'[c] \cup {0}
    <3>1. (i \in 1..Len(replies[c]) /\ replies'[c][i] = replies[c][i]) \/ replies'[c][i] = n
        BY <2>0, <2>2, AppendFact
    <3>2. QED
        BY <2>0, <2>2, <3>1, TakenGrows
  <2>3. 0 \in 0..MaxRequests /\ \A n \in taken[c] : n \in 0..MaxRequests
    BY FlowAssumption DEF TypeOK
  <2>4. \A d \in Clients : Expire(d) \/ RefuseCommand(d) =>
          replies'[c] = replies[c] \/ replies'[c] = Append(replies[c], 0)
    BY ExpireEffect, RefuseEffect
  <2>5. \A d \in Clients : ClientMessage(d) =>
          \/ replies'[c] = replies[c]
          \/ \E n \in taken[c] : replies'[c] = Append(replies[c], n)
    BY MessageEffect
  <2>6. QED
    BY <2>1, <2>2, <2>3, <2>4, <2>5, WhoChanges
<1>11. QED
    BY <1>6, <1>7, <1>8, <1>9, <1>10 DEF OwnInv, Taken

-----------------------------------------------------------------------------
(* The numbers of the requests.                                             *)

\* Numbers are only made, read or lost.
LEMMA NumberMoves ==
    ASSUME TypeOK, OwnInv, OutInv, [Next]_vars
    PROVE  \/ \E c \in Clients, q \in Requests :
                /\ q.n = made + 1 /\ made' = made + 1 /\ taken' = taken
                /\ sock'[c] = Append(sock[c], q) /\ \A d \in Clients \ {c} : sock'[d] = sock[d]
           \/ \E c \in Clients :
                /\ made' = made /\ sock[c] # <<>> /\ sock'[c] = Tail(sock[c])
                /\ \A d \in Clients \ {c} : sock'[d] = sock[d] /\ taken'[d] = taken[d]
                /\ taken'[c] = taken[c] \/ taken'[c] = taken[c] \cup {sock[c][1].n}
           \/ /\ made' = made /\ taken' = taken
              /\ \A c \in Clients : sock'[c] = sock[c] \/ sock'[c] = <<>>
<1> DEFINE Made == \E c \in Clients, q \in Requests :
                     /\ q.n = made + 1 /\ made' = made + 1 /\ taken' = taken
                     /\ sock'[c] = Append(sock[c], q)
                     /\ \A d \in Clients \ {c} : sock'[d] = sock[d]
           Read(c) == /\ made' = made /\ sock[c] # <<>> /\ sock'[c] = Tail(sock[c])
                      /\ \A d \in Clients \ {c} : sock'[d] = sock[d] /\ taken'[d] = taken[d]
                      /\ taken'[c] = taken[c] \/ taken'[c] = taken[c] \cup {sock[c][1].n}
           Lost == /\ made' = made /\ taken' = taken
                   /\ \A c \in Clients : sock'[c] = sock[c] \/ sock'[c] = <<>>
<1>1. ASSUME NEW c \in Clients, NEW q \in Requests, MakeRequest(c, q) PROVE Made
    BY <1>1, MakeEffect
<1>2. ASSUME NEW c \in Clients, SendCommand(c) PROVE Read(c)
    BY <1>2, CommandEffect
<1>3. ASSUME NEW c \in Clients, RefuseCommand(c) PROVE Read(c)
    BY <1>3, RefuseEffect
<1>4. ASSUME NEW c \in Clients, Setup(c) \/ Broadcast(c) PROVE Read(c)
    BY <1>4, PlainEffect
<1>5. ASSUME NEW s \in Sessions, Die(s) \/ Forget(s) PROVE Lost
    BY <1>5, EndEffect
<1>6. ASSUME NEW c \in Clients, Expire(c) \/ ClientMessage(c) PROVE Lost
    BY <1>6, ExpireEffect, MessageEffect
<1>7. ASSUME NEW r \in Rtus, RtuMessage(r) PROVE Lost
    BY <1>7, RtuMessageEffect
<1>8. ASSUME NEW r \in Rtus, RtuAck(r) PROVE Lost
  <2>1. UNCHANGED <<sock, made, taken>>
    BY <1>8 DEF RtuAck, clientVars
  <2>2. QED
    BY <2>1
<1>9. ASSUME NEW r \in Rtus, Acknowledge(r) \/ Ignore(r) PROVE Lost
    BY <1>9, DeviceEffect
<1>10. ASSUME NEW s \in Sessions, Send(s) PROVE Lost
  <2>1. UNCHANGED <<sock, made, taken>>
    BY <1>10 DEF Send, netVars, clientVars
  <2>2. QED
    BY <2>1
<1>11. ASSUME UNCHANGED <<sock, made, taken>> PROVE Lost
    BY <1>11
<1> HIDE DEF Made, Read, Lost
<1>12. Made \/ (\E c \in Clients : Read(c)) \/ Lost
    BY <1>1, <1>2, <1>3, <1>4, <1>5, <1>6, <1>7, <1>8, <1>9, <1>10, <1>11, Steps
<1>13. QED
    BY <1>12 DEF Made, Read, Lost

\* At first nothing has been numbered.
LEMMA NumberInit == Init => NumberInv
<1>1. Len(<<>>) = 0
    OBVIOUS
<1>2. QED
    BY <1>1 DEF Init, NumberInv

\* Each action keeps the order of the numbers of requests, made and taken.
LEMMA NumberStep == TypeOK /\ OwnInv /\ OutInv /\ NumberInv /\ [Next]_vars => NumberInv'
<1> SUFFICES ASSUME TypeOK, OwnInv, OutInv, NumberInv, [Next]_vars PROVE NumberInv'
    OBVIOUS
<1>0. /\ made \in Nat
      /\ \A c \in Clients : /\ taken[c] \in SUBSET (1..made) /\ sock[c] \in Seq(Requests)
                            /\ \A i \in 1..Len(sock[c]) : sock[c][i].n \in Nat
  <2>1. \A c \in Clients : taken[c] \in SUBSET (1..made) /\ sock[c] \in Seq(Requests)
    BY DEF NumberInv, TypeOK
  <2>2. \A c \in Clients : \A i \in 1..Len(sock[c]) : sock[c][i].n \in 1..made
    BY DEF NumberInv
  <2>3. made \in Nat
    BY FlowAssumption DEF TypeOK
  <2>4. QED
    BY <2>1, <2>2, <2>3
\* The numbers at a socket, as the property sees them.
<1> DEFINE Own(S, T, m) ==
             /\ T \in SUBSET (1..m)
             /\ \A i \in 1..Len(S) :
                  /\ S[i].n \in 1..m
                  /\ \A k \in T : k < S[i].n
                  /\ \A j \in 1..Len(S) : i < j => S[i].n < S[j].n
           Apart(S, T, R, U) ==
             /\ T \cap U = {}
             /\ \A i \in 1..Len(S) : S[i].n \notin U /\ \A j \in 1..Len(R) : S[i].n # R[j].n
<1>1. \A c \in Clients : /\ Own(sock[c], taken[c], made)
                         /\ \A d \in Clients \ {c} : Apart(sock[c], taken[c], sock[d], taken[d])
    BY DEF NumberInv
<1>2. ASSUME \A c \in Clients :
                /\ Own(sock'[c], taken'[c], made')
                /\ \A d \in Clients \ {c} : Apart(sock'[c], taken'[c], sock'[d], taken'[d])
      PROVE  NumberInv'
    BY <1>2 DEF NumberInv
<1>3. Len(<<>>) = 0
    OBVIOUS
<1>4. ASSUME NEW c \in Clients, NEW q \in Requests, q.n = made + 1, made' = made + 1, taken' = taken,
             sock'[c] = Append(sock[c], q), \A d \in Clients \ {c} : sock'[d] = sock[d]
      PROVE  NumberInv'
  <2> DEFINE S == sock'[c]
  <2>1. /\ S = Append(sock[c], q) /\ Len(S) = Len(sock[c]) + 1 /\ S[Len(sock[c]) + 1] = q
        /\ Len(sock[c]) \in Nat /\ \A i \in 1..Len(sock[c]) : S[i] = sock[c][i]
    BY <1>0, <1>4, AppendFact
  <2> HIDE DEF S
  <2>2. \A i \in 1..Len(S) : (i \in 1..Len(sock[c]) /\ S[i] = sock[c][i]) \/ S[i].n = made + 1
    BY <1>4, <2>1
  <2>3. Own(S, taken[c], made + 1)
    <3>1. \A i \in 1..Len(S) : S[i].n \in 1..made + 1 /\ \A k \in taken[c] : k < S[i].n
        BY <1>0, <1>1, <2>2
    <3>2. ASSUME NEW i \in 1..Len(S), NEW j \in 1..Len(S), i < j PROVE S[i].n < S[j].n
      <4>1. i \in 1..Len(sock[c]) /\ S[i] = sock[c][i] /\ S[i].n \in 1..made
        BY <1>1, <2>1, <3>2
      <4>2. CASE j \in 1..Len(sock[c])
        BY <1>1, <2>1, <3>2, <4>1, <4>2
      <4>3. CASE j = Len(sock[c]) + 1
        BY <1>0, <1>4, <2>1, <4>1, <4>3
      <4>4. QED
        BY <2>1, <4>2, <4>3
    <3>3. QED
        BY <1>0, <3>1, <3>2
  <2>4. \A d \in Clients \ {c} : Own(sock[d], taken[d], made + 1)
    <3>1. 1..made \subseteq 1..made + 1
        BY <1>0
    <3>2. QED
        BY <1>1, <3>1
  <2>5. \A d \in Clients \ {c} :
          Apart(S, taken[c], sock[d], taken[d]) /\ Apart(sock[d], taken[d], S, taken[c])
    <3> SUFFICES ASSUME NEW d \in Clients \ {c}
                 PROVE  Apart(S, taken[c], sock[d], taken[d]) /\ Apart(sock[d], taken[d], S, taken[c])
        OBVIOUS
    <3>1. /\ taken[d] \in SUBSET (1..made) /\ \A j \in 1..Len(sock[d]) : sock[d][j].n \in 1..made
          /\ Apart(sock[c], taken[c], sock[d], taken[d])
          /\ Apart(sock[d], taken[d], sock[c], taken[c])
        BY <1>1
    <3>2. \A k \in 1..made : k # made + 1
        BY <1>0
    <3>3. \A i \in 1..Len(S) :
            S[i].n \notin taken[d] /\ \A j \in 1..Len(sock[d]) : S[i].n # sock[d][j].n
        BY <2>2, <3>1, <3>2
    <3>4. Apart(S, taken[c], sock[d], taken[d])
        BY <3>1, <3>3
    <3>5. Apart(sock[d], taken[d], S, taken[c])
        BY <3>1, <3>3
    <3>6. QED
        BY <3>4, <3>5
  <2>6. \A d \in Clients \ {c}, e \in Clients \ {c} :
          d # e => Apart(sock[d], taken[d], sock[e], taken[e])
    BY <1>1
  <2> HIDE DEF Own, Apart
  <2>7. QED
    BY <1>2, <1>4, <2>3, <2>4, <2>5, <2>6 DEF S
<1>5. ASSUME NEW c \in Clients, made' = made, sock[c] # <<>>, sock'[c] = Tail(sock[c]),
             \A d \in Clients \ {c} : sock'[d] = sock[d] /\ taken'[d] = taken[d],
             taken'[c] = taken[c] \/ taken'[c] = taken[c] \cup {sock[c][1].n}
      PROVE  NumberInv'
  <2> DEFINE S == sock'[c]
             T == taken'[c]
  <2>1. /\ Len(S) = Len(sock[c]) - 1 /\ 1 \in 1..Len(sock[c]) /\ Len(sock[c]) \in Nat
        /\ \A i \in 1..Len(S) : i + 1 \in 1..Len(sock[c]) /\ S[i] = sock[c][i + 1]
    BY <1>0, <1>5, TailFact
  <2>2. T = taken[c] \/ T = taken[c] \cup {sock[c][1].n}
    BY <1>5
  <2> HIDE DEF S, T
  <2>3. Own(S, T, made)
    <3>1. T \in SUBSET (1..made)
        BY <1>1, <2>1, <2>2
    <3>2. \A i \in 1..Len(S) : S[i].n \in 1..made
        BY <1>1, <2>1
    <3>3. \A i \in 1..Len(S) : sock[c][1].n < S[i].n
        BY <1>1, <2>1
    <3>4. \A i \in 1..Len(S) : \A k \in T : k < S[i].n
        BY <1>1, <2>1, <2>2, <3>3
    <3>5. \A i \in 1..Len(S), j \in 1..Len(S) : i < j => S[i].n < S[j].n
      <4> TAKE i \in 1..Len(S), j \in 1..Len(S)
      <4> HAVE i < j
      <4>1. /\ i + 1 \in 1..Len(sock[c]) /\ S[i] = sock[c][i + 1]
            /\ j + 1 \in 1..Len(sock[c]) /\ S[j] = sock[c][j + 1]
        BY <2>1
      <4>2. i + 1 < j + 1
        OBVIOUS
      <4>3. QED
        BY <1>1, <4>1, <4>2
    <3>6. QED
        BY <3>1, <3>2, <3>4, <3>5
  <2>4. \A d \in Clients \ {c} :
          Apart(S, T, sock[d], taken[d]) /\ Apart(sock[d], taken[d], S, T)
    <3> SUFFICES ASSUME NEW d \in Clients \ {c}
                 PROVE  Apart(S, T, sock[d], taken[d]) /\ Apart(sock[d], taken[d], S, T)
        OBVIOUS
    <3>1. /\ Apart(sock[c], taken[c], sock[d], taken[d])
          /\ Apart(sock[d], taken[d], sock[c], taken[c])
        BY <1>1
    <3>2. \A i \in 1..Len(S) :
            S[i].n \notin taken[d] /\ \A j \in 1..Len(sock[d]) : S[i].n # sock[d][j].n
        BY <2>1, <3>1
    <3>3. \A n \in T : n \in taken[c] \/ n = sock[c][1].n
        BY <2>2
    <3>4. sock[c][1].n \notin taken[d] /\ \A j \in 1..Len(sock[d]) : sock[c][1].n # sock[d][j].n
        BY <2>1, <3>1
    <3>5. T \cap taken[d] = {} /\ \A j \in 1..Len(sock[d]) : sock[d][j].n \notin T
        BY <3>1, <3>3, <3>4
    <3>6. Apart(S, T, sock[d], taken[d])
        BY <3>2, <3>5
    <3>7. Apart(sock[d], taken[d], S, T)
        BY <3>2, <3>5
    <3>8. QED
        BY <3>6, <3>7
  <2>5. \A d \in Clients \ {c} : Own(sock[d], taken[d], made)
    BY <1>1
  <2>6. \A d \in Clients \ {c}, e \in Clients \ {c} :
          d # e => Apart(sock[d], taken[d], sock[e], taken[e])
    BY <1>1
  <2> HIDE DEF Own, Apart
  <2>7. QED
    BY <1>2, <1>5, <2>3, <2>4, <2>5, <2>6 DEF S, T
<1>6. ASSUME made' = made, taken' = taken, \A c \in Clients : sock'[c] = sock[c] \/ sock'[c] = <<>>
      PROVE  NumberInv'
  <2>1. \A c \in Clients : Own(sock'[c], taken'[c], made')
    BY <1>1, <1>3, <1>6
  <2>2. \A c \in Clients : \A d \in Clients \ {c} : Apart(sock'[c], taken'[c], sock'[d], taken'[d])
    BY <1>1, <1>3, <1>6
  <2>3. QED
    BY <1>2, <2>1, <2>2
<1>7. QED
    BY <1>4, <1>5, <1>6, NumberMoves

-----------------------------------------------------------------------------
(* No command is in two places.                                             *)

\* The head of one line is taken off, and may be put at the end of another.
LEMMA UniqueMove ==
    ASSUME NEW L, NEW F, NEW G, NEW a \in L, NEW b \in L, a # b, Unique(L, F),
           \A k \in L : Len(F[k]) \in Nat /\ Len(G[k]) \in Nat,
           Len(F[a]) = Len(G[a]) + 1, \A i \in 1..Len(G[a]) : G[a][i] = F[a][i + 1],
           \A k \in L \ {a, b} : G[k] = F[k],
           Len(G[b]) = Len(F[b]) \/ Len(G[b]) = Len(F[b]) + 1,
           \A i \in 1..Len(F[b]) : G[b][i] = F[b][i],
           Len(G[b]) = Len(F[b]) + 1 => G[b][Len(F[b]) + 1] \in {0, F[a][1]}
    PROVE  Unique(L, G)
<1> DEFINE P(k, i, l, j) == \/ k = a /\ l = a /\ j = i + 1
                            \/ k = b /\ i = Len(F[b]) + 1 /\ l = a /\ j = 1
                            \/ k # a /\ l = k /\ j = i /\ i \in 1..Len(F[k])
<1>1. ASSUME NEW k \in L, NEW i \in 1..Len(G[k]), G[k][i] # 0
      PROVE  \E l \in L : \E j \in 1..Len(F[l]) : G[k][i] = F[l][j] /\ P(k, i, l, j)
  <2>1. CASE k = a
    <3>1. i + 1 \in 1..Len(F[a]) /\ G[k][i] = F[a][i + 1]
        BY <2>1
    <3>2. QED
        BY <2>1, <3>1
  <2>2. CASE k = b /\ i = Len(F[b]) + 1
    <3>1. 1 \in 1..Len(F[a])
        OBVIOUS
    <3>2. G[k][i] = F[a][1]
        BY <1>1, <2>2
    <3>3. QED
        BY <2>2, <3>1, <3>2
  <2>3. CASE k # a /\ ~ (k = b /\ i = Len(F[b]) + 1)
    <3>1. i \in 1..Len(F[k]) /\ G[k][i] = F[k][i]
        BY <2>3
    <3>2. QED
        BY <2>3, <3>1
  <2>4. QED
    BY <2>1, <2>2, <2>3
<1>2. ASSUME NEW k \in L, NEW i \in 1..Len(G[k]), NEW l \in L, NEW j \in 1..Len(G[l]),
             NEW m \in L, NEW x \in Nat, P(k, i, m, x), P(l, j, m, x)
      PROVE  k = l /\ i = j
    BY <1>2
<1> HIDE DEF P
<1>3. ASSUME NEW k \in L, NEW l \in L, NEW i \in 1..Len(G[k]), NEW j \in 1..Len(G[l]),
             G[k][i] = G[l][j], G[k][i] # 0
      PROVE  k = l /\ i = j
  <2>1. PICK m \in L : \E x \in 1..Len(F[m]) : G[k][i] = F[m][x] /\ P(k, i, m, x)
    BY <1>1, <1>3
  <2>2. PICK x \in 1..Len(F[m]) : G[k][i] = F[m][x] /\ P(k, i, m, x)
    BY <2>1
  <2>3. PICK o \in L : \E y \in 1..Len(F[o]) : G[l][j] = F[o][y] /\ P(l, j, o, y)
    BY <1>1, <1>3
  <2>4. PICK y \in 1..Len(F[o]) : G[l][j] = F[o][y] /\ P(l, j, o, y)
    BY <2>3
  <2>a. F[m][x] = F[o][y] /\ F[m][x] # 0
    BY <1>3, <2>2, <2>4
  <2>5. m = o /\ x = y
    BY <2>a DEF Unique
  <2>6. QED
    BY <1>2, <2>2, <2>4, <2>5
<1>4. QED
    BY <1>3 DEF Unique

\* A number that is nowhere, or 0, is put at the end of a line.
LEMMA UniqueNew ==
    ASSUME NEW L, NEW F, NEW G, NEW b \in L, Unique(L, F),
           \A k \in L : Len(F[k]) \in Nat /\ Len(G[k]) \in Nat,
           \A k \in L \ {b} : G[k] = F[k],
           Len(G[b]) = Len(F[b]) + 1, \A i \in 1..Len(F[b]) : G[b][i] = F[b][i],
           \/ G[b][Len(F[b]) + 1] = 0
           \/ \A k \in L : \A i \in 1..Len(F[k]) : F[k][i] # G[b][Len(F[b]) + 1]
    PROVE  Unique(L, G)
<1>1. ASSUME NEW k \in L, NEW i \in 1..Len(G[k]), ~ (k = b /\ i = Len(F[b]) + 1)
      PROVE  i \in 1..Len(F[k]) /\ G[k][i] = F[k][i]
    BY <1>1
<1>2. ASSUME NEW k \in L, NEW l \in L, NEW i \in 1..Len(G[k]), NEW j \in 1..Len(G[l]),
             G[k][i] = G[l][j], G[k][i] # 0
      PROVE  k = l /\ i = j
  <2>1. CASE k = b /\ i = Len(F[b]) + 1
    BY <1>1, <1>2, <2>1
  <2>2. CASE l = b /\ j = Len(F[b]) + 1
    BY <1>1, <1>2, <2>2
  <2>3. CASE ~ (k = b /\ i = Len(F[b]) + 1) /\ ~ (l = b /\ j = Len(F[b]) + 1)
    BY <1>1, <1>2, <2>3 DEF Unique
  <2>4. QED
    BY <2>1, <2>2, <2>3
<1>3. QED
    BY <1>2 DEF Unique

\* Lines are emptied or filled with nothing but 0.
LEMMA UniqueClear ==
    ASSUME NEW L, NEW F, NEW G, Unique(L, F),
           \A k \in L : G[k] = F[k] \/ \A i \in 1..Len(G[k]) : G[k][i] = 0
    PROVE  Unique(L, G)
BY DEF Unique

\* The lines, one kind after the other.
LinesAre ==
    /\ \A k \in Lines : \/ \E s \in Sessions : k = <<"out", s>> \/ k = <<"mq", s>>
                        \/ \E r \in Rtus : k = <<"dev", r>> \/ k = <<"up", r>>
                        \/ \E c \in Clients : k = <<"replies", c>>
    /\ \A s \in Sessions :
          /\ <<"out", s>> \in Lines /\ <<"mq", s>> \in Lines
          /\ flow[<<"out", s>>] = sendNums(out[s])
          /\ flow[<<"mq", s>>] = nums(mq[s])
    /\ \A r \in Rtus :
          /\ <<"dev", r>> \in Lines /\ <<"up", r>> \in Lines
          /\ flow[<<"dev", r>>] = nums(dev[r])
          /\ flow[<<"up", r>>] = nums(up[r])
    /\ \A c \in Clients :
          <<"replies", c>> \in Lines /\ flow[<<"replies", c>>] = replies[c]

\* What the lines of a command's way through the system are.
LEMMA LineFacts == LinesAre
<1>1. \A t, s : <<t, s>>[1] = t /\ <<t, s>>[2] = s
    OBVIOUS
<1>2. \A t, s : <<t, s>> \in Lines => flow[<<t, s>>] = line(t, s)
    BY <1>1 DEF flow
<1>3. \A s \in Sessions : /\ <<"out", s>> \in Lines /\ <<"mq", s>> \in Lines
                          /\ line("out", s) = sendNums(out[s])
                          /\ line("mq", s) = nums(mq[s])
    BY DEF Lines, line
<1>4. \A r \in Rtus : /\ <<"dev", r>> \in Lines /\ <<"up", r>> \in Lines
                      /\ line("dev", r) = nums(dev[r])
                      /\ line("up", r) = nums(up[r])
    BY DEF Lines, line
<1>5. \A c \in Clients : <<"replies", c>> \in Lines /\ line("replies", c) = replies[c]
    BY DEF Lines, line
<1>6. \A s \in Sessions : /\ flow[<<"out", s>>] = line("out", s)
                          /\ flow[<<"mq", s>>] = line("mq", s)
    BY <1>2, <1>3, Zenon
<1>7. \A r \in Rtus : flow[<<"dev", r>>] = line("dev", r) /\ flow[<<"up", r>>] = line("up", r)
    BY <1>2, <1>4, Zenon
<1>8. \A c \in Clients : flow[<<"replies", c>>] = line("replies", c)
    BY <1>2, <1>5, Zenon
<1>9. \A k \in Lines : \/ \E s \in Sessions : k = <<"out", s>> \/ k = <<"mq", s>>
                       \/ \E r \in Rtus : k = <<"dev", r>> \/ k = <<"up", r>>
                       \/ \E c \in Clients : k = <<"replies", c>>
    BY DEF Lines
<1>10. QED
    BY <1>3, <1>4, <1>5, <1>6, <1>7, <1>8, <1>9, Zenon DEF LinesAre

\* A line is as long as what it shows.
LEMMA NumsFact ==
    ASSUME NEW S, NEW q \in Seq(S)
    PROVE  /\ Len(nums(q)) = Len(q) /\ \A i \in 1..Len(q) : nums(q)[i] = num(q[i])
           /\ Len(sendNums(q)) = Len(q) /\ \A i \in 1..Len(q) : sendNums(q)[i] = num(q[i].msg)
BY DEF nums, sendNums

\* What a line is when what it shows did not change, and that the lines have lengths.
LEMMA FlowFacts ==
    ASSUME TypeOK, TypeOK'
    PROVE  /\ LinesAre /\ LinesAre'
           /\ \A k \in Lines : Len(flow[k]) \in Nat /\ Len(flow'[k]) \in Nat
           /\ \A s \in Sessions :
                 /\ out'[s] = out[s] => flow'[<<"out", s>>] = flow[<<"out", s>>]
                 /\ mq'[s] = mq[s] => flow'[<<"mq", s>>] = flow[<<"mq", s>>]
           /\ \A r \in Rtus :
                 /\ dev'[r] = dev[r] => flow'[<<"dev", r>>] = flow[<<"dev", r>>]
                 /\ up'[r] = up[r] => flow'[<<"up", r>>] = flow[<<"up", r>>]
           /\ \A c \in Clients :
                 replies'[c] = replies[c] => flow'[<<"replies", c>>] = flow[<<"replies", c>>]
<1>1. LinesAre
    BY LineFacts
<1>2. LinesAre'
    BY LineFacts, PTL
<1>3. ASSUME NEW k \in Lines PROVE Len(flow[k]) \in Nat
  <2>1. \A s \in Sessions : Len(sendNums(out[s])) \in Nat /\ Len(nums(mq[s])) \in Nat
    BY NumsFact DEF TypeOK
  <2>2. \A r \in Rtus : Len(nums(dev[r])) \in Nat /\ Len(nums(up[r])) \in Nat
    BY NumsFact DEF TypeOK
  <2>3. \A c \in Clients : Len(replies[c]) \in Nat
    BY DEF TypeOK
  <2>4. QED
    BY <1>1, <2>1, <2>2, <2>3 DEF LinesAre
<1>4. ASSUME NEW k \in Lines PROVE Len(flow'[k]) \in Nat
  <2>1. \A s \in Sessions : Len(sendNums(out'[s])) \in Nat /\ Len(nums(mq'[s])) \in Nat
    BY NumsFact DEF TypeOK
  <2>2. \A r \in Rtus : Len(nums(dev'[r])) \in Nat /\ Len(nums(up'[r])) \in Nat
    BY NumsFact DEF TypeOK
  <2>3. \A c \in Clients : Len(replies'[c]) \in Nat
    BY DEF TypeOK
  <2>4. QED
    BY <1>2, <2>1, <2>2, <2>3 DEF LinesAre
<1>5. ASSUME NEW s \in Sessions
      PROVE  /\ out'[s] = out[s] => flow'[<<"out", s>>] = flow[<<"out", s>>]
             /\ mq'[s] = mq[s] => flow'[<<"mq", s>>] = flow[<<"mq", s>>]
    BY <1>1, <1>2 DEF LinesAre
<1>6. ASSUME NEW r \in Rtus
      PROVE  /\ dev'[r] = dev[r] => flow'[<<"dev", r>>] = flow[<<"dev", r>>]
             /\ up'[r] = up[r] => flow'[<<"up", r>>] = flow[<<"up", r>>]
    BY <1>1, <1>2 DEF LinesAre
<1>7. ASSUME NEW c \in Clients, replies'[c] = replies[c]
      PROVE  flow'[<<"replies", c>>] = flow[<<"replies", c>>]
    BY <1>1, <1>2, <1>7 DEF LinesAre
<1>8. QED
    BY <1>1, <1>2, <1>3, <1>4, <1>5, <1>6, <1>7

\* At first no line carries a number.
LEMMA UniqueInit == Init => UniqueInv
<1> SUFFICES ASSUME Init PROVE UniqueInv
    OBVIOUS
<1>1. LinesAre
    BY LineFacts
<1>2. <<>> \in Seq({}) /\ Len(<<>>) = 0
    OBVIOUS
<1>3. Len(nums(<<>>)) = 0 /\ Len(sendNums(<<>>)) = 0
    BY <1>2, NumsFact
<1>4. /\ \A s \in Sessions : out[s] = <<>> /\ mq[s] = <<>>
      /\ \A r \in Rtus : dev[r] = <<>> /\ up[r] = <<>>
      /\ \A c \in Clients : replies[c] = <<>>
    BY DEF Init
<1>5. \A k \in Lines : Len(flow[k]) = 0
    BY <1>1, <1>2, <1>3, <1>4 DEF LinesAre
<1>6. QED
    BY <1>5 DEF UniqueInv, Unique

\* The numbers of a line that loses its head, and of one that gets longer.
LEMMA TailNums ==
    ASSUME NEW S, NEW q \in Seq(S), q # <<>>
    PROVE  /\ Len(nums(q)) = Len(nums(Tail(q))) + 1 /\ nums(q)[1] = num(q[1])
           /\ \A i \in 1..Len(nums(Tail(q))) : nums(Tail(q))[i] = nums(q)[i + 1]
           /\ Len(sendNums(q)) = Len(sendNums(Tail(q))) + 1 /\ sendNums(q)[1] = num(q[1].msg)
           /\ \A i \in 1..Len(sendNums(Tail(q))) : sendNums(Tail(q))[i] = sendNums(q)[i + 1]
<1> DEFINE t == Tail(q)
<1>1. t \in Seq(S) /\ Len(t) = Len(q) - 1 /\ Len(q) \in Nat /\ 1 \in 1..Len(q)
      /\ \A i \in 1..Len(t) : i + 1 \in 1..Len(q) /\ t[i] = q[i + 1]
    BY TailFact
<1> HIDE DEF t
<1>2. /\ Len(nums(t)) = Len(t) /\ \A i \in 1..Len(t) : nums(t)[i] = num(t[i])
      /\ Len(sendNums(t)) = Len(t) /\ \A i \in 1..Len(t) : sendNums(t)[i] = num(t[i].msg)
    BY <1>1, NumsFact
<1>3. /\ Len(nums(q)) = Len(q) /\ \A i \in 1..Len(q) : nums(q)[i] = num(q[i])
      /\ Len(sendNums(q)) = Len(q) /\ \A i \in 1..Len(q) : sendNums(q)[i] = num(q[i].msg)
    BY NumsFact
<1>4. Len(nums(q)) = Len(nums(t)) + 1 /\ Len(sendNums(q)) = Len(sendNums(t)) + 1
    BY <1>1, <1>2, <1>3
<1>5. nums(q)[1] = num(q[1]) /\ sendNums(q)[1] = num(q[1].msg)
    BY <1>1, <1>3
<1>6. ASSUME NEW i \in 1..Len(t)
      PROVE  nums(t)[i] = nums(q)[i + 1] /\ sendNums(t)[i] = sendNums(q)[i + 1]
  <2>1. i + 1 \in 1..Len(q) /\ t[i] = q[i + 1]
    BY <1>1
  <2>2. nums(q)[i + 1] = num(q[i + 1]) /\ sendNums(q)[i + 1] = num(q[i + 1].msg)
    BY <1>3, <2>1
  <2>3. QED
    BY <1>2, <2>1, <2>2
<1>7. QED
    BY <1>2, <1>4, <1>5, <1>6 DEF t

\* An acknowledgement carries a number, which is not 0.
LEMMA AckNum ==
    ASSUME NEW m \in Acks
    PROVE  num(m) = m.n /\ m.n \in 0..MaxRequests /\ m.n # 0
<1>1. m.n \in 1..MaxRequests
    BY DEF Acks
<1>2. num(m) = m.n
    BY DEF num
<1>3. QED
    BY <1>1, <1>2, FlowAssumption

\* The numbers in a line after one more at its end.
LEMMA AppendNums ==
    ASSUME NEW S, NEW q \in Seq(S), NEW e \in S
    PROVE  /\ Len(nums(Append(q, e))) = Len(nums(q)) + 1
           /\ nums(Append(q, e))[Len(nums(q)) + 1] = num(e)
           /\ \A i \in 1..Len(nums(q)) : nums(Append(q, e))[i] = nums(q)[i]
<1> DEFINE t == Append(q, e)
<1>1. t \in Seq(S) /\ Len(t) = Len(q) + 1 /\ t[Len(q) + 1] = e /\ Len(q) \in Nat
      /\ \A i \in 1..Len(q) : t[i] = q[i]
    BY AppendFact
<1> HIDE DEF t
<1>2. Len(nums(t)) = Len(t) /\ \A i \in 1..Len(t) : nums(t)[i] = num(t[i])
    BY <1>1, NumsFact
<1>3. Len(nums(q)) = Len(q) /\ \A i \in 1..Len(q) : nums(q)[i] = num(q[i])
    BY NumsFact
<1>4. /\ Len(nums(t)) = Len(nums(q)) + 1 /\ nums(t)[Len(nums(q)) + 1] = num(e)
      /\ \A i \in 1..Len(nums(q)) : nums(t)[i] = nums(q)[i]
    BY <1>1, <1>2, <1>3
<1>5. QED
    BY <1>4 DEF t

\* A number other than 0 is that of a command some client's session took.
LEMMA FlowTaken ==
    ASSUME TypeOK, OwnInv
    PROVE  \A k \in Lines : \A i \in 1..Len(flow[k]) :
              flow[k][i] # 0 => \E c \in Clients : flow[k][i] \in taken[c]
<1>1. LinesAre
    BY LineFacts
<1>2. ASSUME NEW m, Taken(m), num(m) # 0 PROVE \E c \in Clients : num(m) \in taken[c]
    BY <1>2 DEF Taken, num, Commands, Acks
<1>3. /\ \A s \in Sessions : out[s] \in Seq(Sends) /\ mq[s] \in Seq(Msgs)
      /\ \A r \in Rtus : dev[r] \in Seq(Commands) /\ up[r] \in Seq(Acks)
    BY DEF TypeOK
<1>4. /\ \A s \in Sessions : \A i \in 1..Len(out[s]) : Taken(out[s][i].msg)
      /\ \A s \in Sessions : \A i \in 1..Len(mq[s]) : Taken(mq[s][i])
      /\ \A r \in Rtus : \A i \in 1..Len(dev[r]) : Taken(dev[r][i])
      /\ \A r \in Rtus : \A i \in 1..Len(up[r]) : Taken(up[r][i])
    BY DEF OwnInv
<1> DEFINE Known(q) == \A i \in 1..Len(q) : q[i] # 0 => \E c \in Clients : q[i] \in taken[c]
<1>5. ASSUME NEW s \in Sessions PROVE Known(sendNums(out[s])) /\ Known(nums(mq[s]))
    BY <1>2, <1>3, <1>4, NumsFact, SMTT(30)
<1>6. ASSUME NEW r \in Rtus PROVE Known(nums(dev[r])) /\ Known(nums(up[r]))
    BY <1>2, <1>3, <1>4, NumsFact
<1>7. ASSUME NEW c \in Clients PROVE Known(replies[c])
    BY DEF OwnInv
<1> HIDE DEF Known
<1>8. ASSUME NEW k \in Lines PROVE Known(flow[k])
  <2>1. CASE \E s \in Sessions : k = <<"out", s>> \/ k = <<"mq", s>>
    <3>1. PICK s \in Sessions : k = <<"out", s>> \/ k = <<"mq", s>>
        BY <2>1
    <3>2. flow[<<"out", s>>] = sendNums(out[s]) /\ flow[<<"mq", s>>] = nums(mq[s])
        BY <1>1 DEF LinesAre
    <3>3. QED
        BY <1>5, <3>1, <3>2
  <2>2. CASE \E r \in Rtus : k = <<"dev", r>> \/ k = <<"up", r>>
    <3>1. PICK r \in Rtus : k = <<"dev", r>> \/ k = <<"up", r>>
        BY <2>2
    <3>2. flow[<<"dev", r>>] = nums(dev[r]) /\ flow[<<"up", r>>] = nums(up[r])
        BY <1>1 DEF LinesAre
    <3>3. QED
        BY <1>6, <3>1, <3>2
  <2>3. CASE \E c \in Clients : k = <<"replies", c>>
    BY <1>1, <1>7, <2>3 DEF LinesAre
  <2>4. QED
    BY <1>1, <2>1, <2>2, <2>3 DEF LinesAre
<1>9. QED
    BY <1>8 DEF Known

\* No step makes a second copy of a command or of its acknowledgement.
LEMMA UniqueStep ==
    TypeOK /\ OwnInv /\ OutInv /\ NumberInv /\ UniqueInv /\ [Next]_vars => UniqueInv'
<1> SUFFICES ASSUME TypeOK, OwnInv, OutInv, NumberInv, UniqueInv, [Next]_vars PROVE UniqueInv'
    OBVIOUS
<1>0. TypeOK' /\ Clients \subseteq Sessions /\ Rtus \subseteq Sessions
    BY TypeStep DEF Sessions
<1>1. /\ LinesAre /\ LinesAre'
      /\ \A k \in Lines : Len(flow[k]) \in Nat /\ Len(flow'[k]) \in Nat
    BY <1>0, FlowFacts
<1>2. ASSUME NEW k \in Lines
      PROVE  \/ flow'[k] = flow[k]
             \/ \E s \in Sessions : \/ k = <<"out", s>> /\ out'[s] # out[s]
                                    \/ k = <<"mq", s>> /\ mq'[s] # mq[s]
             \/ \E r \in Rtus : \/ k = <<"dev", r>> /\ dev'[r] # dev[r]
                                \/ k = <<"up", r>> /\ up'[r] # up[r]
             \/ \E c \in Clients : k = <<"replies", c>> /\ replies'[c] # replies[c]
  <2>1. CASE \E s \in Sessions : k = <<"out", s>> \/ k = <<"mq", s>>
    BY <1>0, <2>1, FlowFacts
  <2>2. CASE \E r \in Rtus : k = <<"dev", r>> \/ k = <<"up", r>>
    BY <1>0, <2>2, FlowFacts
  <2>3. CASE \E c \in Clients : k = <<"replies", c>>
    BY <1>0, <2>3, FlowFacts
  <2>4. QED
    BY <1>1, <2>1, <2>2, <2>3 DEF LinesAre
<1>3. ASSUME NEW a \in Lines, NEW b \in Lines, a # b,
             \A k \in Lines \ {a, b} : flow'[k] = flow[k],
             Len(flow[a]) = Len(flow'[a]) + 1,
             \A i \in 1..Len(flow'[a]) : flow'[a][i] = flow[a][i + 1],
             \/ flow'[b] = flow[b]
             \/ /\ Len(flow'[b]) = Len(flow[b]) + 1
                /\ \A i \in 1..Len(flow[b]) : flow'[b][i] = flow[b][i]
                /\ flow'[b][Len(flow[b]) + 1] \in {0, flow[a][1]}
      PROVE  UniqueInv'
  <2>1. Unique(Lines, flow)
    BY DEF UniqueInv
  <2>2. /\ Len(flow'[b]) = Len(flow[b]) \/ Len(flow'[b]) = Len(flow[b]) + 1
        /\ \A i \in 1..Len(flow[b]) : flow'[b][i] = flow[b][i]
        /\ Len(flow'[b]) = Len(flow[b]) + 1 => flow'[b][Len(flow[b]) + 1] \in {0, flow[a][1]}
    BY <1>1, <1>3
  <2>3. Unique(Lines, flow')
    BY <1>1, <1>3, <2>1, <2>2, UniqueMove
  <2>4. QED
    BY <2>3 DEF UniqueInv
<1>4. ASSUME NEW b \in Lines, \A k \in Lines \ {b} : flow'[k] = flow[k],
             Len(flow'[b]) = Len(flow[b]) + 1,
             \A i \in 1..Len(flow[b]) : flow'[b][i] = flow[b][i],
             \/ flow'[b][Len(flow[b]) + 1] = 0
             \/ \A k \in Lines : \A i \in 1..Len(flow[k]) :
                   flow[k][i] # flow'[b][Len(flow[b]) + 1]
      PROVE  UniqueInv'
  <2>1. Unique(Lines, flow)
    BY DEF UniqueInv
  <2>2. Unique(Lines, flow')
    BY <1>1, <1>4, <2>1, UniqueNew
  <2>3. QED
    BY <2>2 DEF UniqueInv
<1>5. ASSUME \A k \in Lines : flow'[k] = flow[k] \/ \A i \in 1..Len(flow'[k]) : flow'[k][i] = 0
      PROVE  UniqueInv'
  <2>1. Unique(Lines, flow)
    BY DEF UniqueInv
  <2>2. Unique(Lines, flow')
    BY <1>5, <2>1, UniqueClear
  <2>3. QED
    BY <2>2 DEF UniqueInv
<1>6. ASSUME UNCHANGED <<out, mq, dev, up, replies>> PROVE UniqueInv'
    BY <1>2, <1>5, <1>6
<1>7. ASSUME NEW c \in Clients, replies'[c] = Append(replies[c], 0),
             \A d \in Clients \ {c} : replies'[d] = replies[d],
             UNCHANGED <<out, mq, dev, up>>
      PROVE  UniqueInv'
  <2> DEFINE b == <<"replies", c>>
  <2>1. b \in Lines /\ flow[b] = replies[c] /\ flow'[b] = Append(replies[c], 0)
    BY <1>1, <1>7 DEF LinesAre
  <2>2. \A k \in Lines \ {b} : flow'[k] = flow[k]
    BY <1>2, <1>7
  <2>3. replies[c] \in Seq(0..MaxRequests) /\ 0 \in 0..MaxRequests
    BY FlowAssumption DEF TypeOK
  <2> HIDE DEF b
  <2>4. /\ Len(flow'[b]) = Len(flow[b]) + 1 /\ flow'[b][Len(flow[b]) + 1] = 0
        /\ \A i \in 1..Len(flow[b]) : flow'[b][i] = flow[b][i]
    BY <2>1, <2>3, AppendFact
  <2>5. QED
    BY <1>4, <2>1, <2>2, <2>4
<1>8. ASSUME NEW c \in Clients, Expire(c) \/ RefuseCommand(c) PROVE UniqueInv'
    BY <1>7, <1>8, ExpireEffect, RefuseEffect
<1>9. ASSUME NEW c \in Clients, ClientMessage(c) PROVE UniqueInv'
  <2> DEFINE a == <<"mq", c>>
             b == <<"replies", c>>
             m == mq[c][1]
  <2>1. /\ mq[c] # <<>> /\ mq'[c] = Tail(mq[c]) /\ \A s \in Sessions \ {c} : mq'[s] = mq[s]
        /\ \A d \in Clients \ {c} : replies'[d] = replies[d]
        /\ \/ replies'[c] = replies[c]
           \/ m \in Acks /\ replies'[c] = Append(replies[c], m.n)
        /\ UNCHANGED <<out, dev, up>>
    BY <1>9, MessageEffect
  <2>2. /\ a \in Lines /\ flow[a] = nums(mq[c]) /\ flow'[a] = nums(mq'[c])
        /\ b \in Lines /\ flow[b] = replies[c] /\ flow'[b] = replies'[c]
    BY <1>0, <1>1 DEF LinesAre
  <2>a. a # b
    OBVIOUS
  <2>3. \A k \in Lines \ {a, b} : flow'[k] = flow[k]
    BY <1>2, <2>1
  <2>4. mq[c] \in Seq(Msgs) /\ replies[c] \in Seq(0..MaxRequests)
    BY <1>0 DEF TypeOK
  <2>5. m \in Acks => num(m) = m.n /\ m.n \in 0..MaxRequests
    BY AckNum
  <2> HIDE DEF a, b
  <2>6. /\ Len(flow[a]) = Len(flow'[a]) + 1 /\ flow[a][1] = num(m)
        /\ \A i \in 1..Len(flow'[a]) : flow'[a][i] = flow[a][i + 1]
    BY <2>1, <2>2, <2>4, TailNums
  <2> HIDE DEF m
  <2>7. \/ flow'[b] = flow[b]
        \/ /\ Len(flow'[b]) = Len(flow[b]) + 1 /\ flow'[b][Len(flow[b]) + 1] = num(m)
           /\ \A i \in 1..Len(flow[b]) : flow'[b][i] = flow[b][i]
    BY <2>1, <2>2, <2>4, <2>5, AppendFact
  <2>8. a \in Lines /\ b \in Lines
    BY <2>2
  <2>9. \/ flow'[b] = flow[b]
        \/ /\ Len(flow'[b]) = Len(flow[b]) + 1
           /\ \A i \in 1..Len(flow[b]) : flow'[b][i] = flow[b][i]
           /\ flow'[b][Len(flow[b]) + 1] \in {0, flow[a][1]}
    BY <2>6, <2>7
  <2>10. QED
    BY <1>3, <2>a, <2>3, <2>6, <2>8, <2>9
<1>10. ASSUME NEW c \in Clients, SendCommand(c) PROVE UniqueInv'
  <2> DEFINE b == <<"out", c>>
             n == sock[c][1].n
             m == [kind |-> "COMMAND_RTU", client |-> c, n |-> n]
  <2>1. PICK r \in Rtus : out'[c] = <<[to |-> r, msg |-> m]>>
    BY <1>10, CommandEffect
  <2>2. /\ sock[c] # <<>> /\ n \in 1..MaxRequests
        /\ out[c] = <<>> /\ \A s \in Sessions \ {c} : out'[s] = out[s]
        /\ UNCHANGED <<mq, dev, up, replies>>
    BY <1>10, CommandEffect
  <2>3. num(m) = n
    BY <2>2 DEF num, Commands
  <2>4. \A d \in Clients : n \notin taken[d]
    <3>1. sock[c] \in Seq(Requests)
        BY DEF TypeOK
    <3>2. 1 \in 1..Len(sock[c])
        BY <2>2, <3>1, TailFact
    <3>3. /\ \A k \in taken[c] : k < n
          /\ \A d \in Clients \ {c} : n \notin taken[d]
        BY <3>2 DEF NumberInv
    <3>4. ~ (n < n)
        BY <2>2, FlowAssumption
    <3>5. QED
        BY <3>3, <3>4
  <2>5. b \in Lines /\ flow[b] = sendNums(out[c]) /\ flow'[b] = sendNums(out'[c])
    BY <1>0, <1>1 DEF LinesAre
  <2>6. \A k \in Lines \ {b} : flow'[k] = flow[k]
    BY <1>2, <2>2
  <2>7. Len(sendNums(out[c])) = 0 /\ Len(sendNums(out'[c])) = 1 /\ sendNums(out'[c])[1] = n
    <3>1. out[c] \in Seq(Sends) /\ out'[c] \in Seq(Sends)
        BY <1>0 DEF TypeOK
    <3>2. Len(out[c]) = 0 /\ Len(out'[c]) = 1 /\ out'[c][1].msg = m
        BY <2>1, <2>2
    <3>3. /\ Len(sendNums(out[c])) = Len(out[c]) /\ Len(sendNums(out'[c])) = Len(out'[c])
          /\ \A i \in 1..Len(out'[c]) : sendNums(out'[c])[i] = num(out'[c][i].msg)
        BY <3>1, NumsFact
    <3>4. QED
        BY <2>3, <3>2, <3>3
  <2> HIDE DEF b, n, m
  <2>8. \A k \in Lines : \A i \in 1..Len(flow[k]) : flow[k][i] # n
    BY <2>2, <2>4, FlowTaken
  <2>9. /\ Len(flow[b]) = 0 /\ Len(flow'[b]) = Len(flow[b]) + 1
        /\ \A i \in 1..Len(flow[b]) : flow'[b][i] = flow[b][i]
        /\ flow'[b][Len(flow[b]) + 1] = n
    BY <2>5, <2>7
  <2>10. QED
    BY <1>4, <2>5, <2>6, <2>8, <2>9
<1>11. ASSUME NEW c \in Clients, Setup(c) \/ Broadcast(c) PROVE UniqueInv'
  <2> DEFINE b == <<"out", c>>
  <2>1. /\ \A s \in Sessions \ {c} : out'[s] = out[s]
        /\ \A i \in 1..Len(out'[c]) : out'[c][i].msg \notin Commands \cup Acks
        /\ UNCHANGED <<mq, dev, up, replies>>
    BY <1>11, PlainEffect
  <2>2. flow'[b] = sendNums(out'[c]) /\ out'[c] \in Seq(Sends)
    BY <1>0, <1>1 DEF LinesAre, TypeOK
  <2>3. \A k \in Lines : k = b \/ flow'[k] = flow[k]
    BY <1>2, <2>1
  <2> HIDE DEF b
  <2>4. \A i \in 1..Len(flow'[b]) : flow'[b][i] = 0
    BY <2>1, <2>2, NumsFact DEF num
  <2>5. QED
    BY <1>5, <2>3, <2>4
<1>12. ASSUME NEW r \in Rtus, RtuMessage(r) PROVE UniqueInv'
  <2> DEFINE a == <<"mq", r>>
             b == <<"dev", r>>
             m == mq[r][1]
  <2>1. /\ mq[r] # <<>> /\ mq'[r] = Tail(mq[r]) /\ \A s \in Sessions \ {r} : mq'[s] = mq[s]
        /\ \A x \in Rtus \ {r} : dev'[x] = dev[x]
        /\ \/ dev'[r] = dev[r]
           \/ m \in Commands /\ dev'[r] = Append(dev[r], m)
        /\ UNCHANGED <<out, up, replies>>
    BY <1>12, RtuMessageEffect
  <2>2. /\ a \in Lines /\ flow[a] = nums(mq[r]) /\ flow'[a] = nums(mq'[r])
        /\ b \in Lines /\ flow[b] = nums(dev[r]) /\ flow'[b] = nums(dev'[r])
    BY <1>0, <1>1 DEF LinesAre
  <2>a. a # b
    OBVIOUS
  <2>3. \A k \in Lines \ {a, b} : flow'[k] = flow[k]
    BY <1>2, <2>1
  <2>4. mq[r] \in Seq(Msgs) /\ dev[r] \in Seq(Commands)
    BY <1>0 DEF TypeOK
  <2> HIDE DEF a, b
  <2>5. /\ Len(flow[a]) = Len(flow'[a]) + 1 /\ flow[a][1] = num(m)
        /\ \A i \in 1..Len(flow'[a]) : flow'[a][i] = flow[a][i + 1]
    BY <2>1, <2>2, <2>4, TailNums
  <2> HIDE DEF m
  <2>6. \/ flow'[b] = flow[b]
        \/ /\ Len(flow'[b]) = Len(flow[b]) + 1 /\ flow'[b][Len(flow[b]) + 1] = num(m)
           /\ \A i \in 1..Len(flow[b]) : flow'[b][i] = flow[b][i]
    <3>1. CASE dev'[r] = dev[r]
        BY <2>2, <3>1
    <3>2. CASE m \in Commands /\ dev'[r] = Append(dev[r], m)
      <4>1. flow'[b] = nums(Append(dev[r], m)) /\ flow[b] = nums(dev[r])
        BY <2>2, <3>2
      <4>2. QED
        BY <2>4, <3>2, <4>1, AppendNums
    <3>3. QED
        BY <2>1, <3>1, <3>2
  <2>7. a \in Lines /\ b \in Lines
    BY <2>2
  <2>8. \/ flow'[b] = flow[b]
        \/ /\ Len(flow'[b]) = Len(flow[b]) + 1
           /\ \A i \in 1..Len(flow[b]) : flow'[b][i] = flow[b][i]
           /\ flow'[b][Len(flow[b]) + 1] \in {0, flow[a][1]}
    BY <2>5, <2>6
  <2>9. QED
    BY <1>3, <2>a, <2>3, <2>5, <2>7, <2>8
<1>13. ASSUME NEW r \in Rtus, RtuAck(r) PROVE UniqueInv'
  <2> DEFINE a == <<"up", r>>
             b == <<"out", r>>
             e == [to |-> up[r][1].client, msg |-> up[r][1]]
  <2>1. /\ up[r] # <<>> /\ up'[r] = Tail(up[r]) /\ \A x \in Rtus \ {r} : up'[x] = up[x]
        /\ out[r] = <<>> /\ \A s \in Sessions \ {r} : out'[s] = out[s]
        /\ out'[r] = <<>> \/ out'[r] = <<e>>
        /\ UNCHANGED <<mq, dev, replies>>
    BY <1>13, AckEffect DEF clientVars
  <2>2. /\ a \in Lines /\ flow[a] = nums(up[r]) /\ flow'[a] = nums(Tail(up[r]))
        /\ b \in Lines /\ flow[b] = sendNums(out[r]) /\ flow'[b] = sendNums(out'[r]) /\ a # b
    BY <1>0, <1>1, <2>1 DEF LinesAre
  <2>3. \A k \in Lines \ {a, b} : flow'[k] = flow[k]
    BY <1>2, <2>1
  <2>4. up[r] \in Seq(Acks)
    BY DEF TypeOK
  <2> HIDE DEF a, b
  <2>5. /\ Len(flow[a]) = Len(flow'[a]) + 1 /\ flow[a][1] = num(up[r][1])
        /\ \A i \in 1..Len(flow'[a]) : flow'[a][i] = flow[a][i + 1]
    BY <2>1, <2>2, <2>4, TailNums
  <2>6. out[r] \in Seq(Sends) /\ out'[r] \in Seq(Sends)
    BY <1>0 DEF TypeOK
  <2>7. /\ Len(sendNums(out[r])) = Len(out[r]) /\ Len(sendNums(out'[r])) = Len(out'[r])
        /\ \A i \in 1..Len(out'[r]) : sendNums(out'[r])[i] = num(out'[r][i].msg)
    BY <2>6, NumsFact
  <2>8. \/ flow'[b] = flow[b]
        \/ /\ Len(flow'[b]) = Len(flow[b]) + 1 /\ flow'[b][Len(flow[b]) + 1] = num(up[r][1])
           /\ \A i \in 1..Len(flow[b]) : flow'[b][i] = flow[b][i]
    <3>1. CASE out'[r] = <<>>
        BY <2>1, <2>2, <3>1
    <3>2. CASE out'[r] = <<e>>
      <4>1. Len(out[r]) = 0 /\ Len(out'[r]) = 1 /\ out'[r][1].msg = up[r][1]
        BY <2>1, <3>2
      <4>2. Len(flow[b]) = 0 /\ Len(flow'[b]) = 1 /\ flow'[b][1] = num(up[r][1])
        BY <2>2, <2>7, <4>1
      <4>3. QED
        BY <4>2
    <3>3. QED
        BY <2>1, <3>1, <3>2
  <2>9. QED
    BY <1>3, <2>2, <2>3, <2>5, <2>8
<1>14. ASSUME NEW r \in Rtus, Acknowledge(r) \/ Ignore(r) PROVE UniqueInv'
  <2> DEFINE a == <<"dev", r>>
             b == <<"up", r>>
             m == dev[r][1]
  <2>1. /\ dev[r] # <<>> /\ m \in Commands /\ dev'[r] = Tail(dev[r])
        /\ \A x \in Rtus \ {r} : dev'[x] = dev[x] /\ up'[x] = up[x]
        /\ \/ up'[r] = up[r]
           \/ \E k \in Acks : k.n = m.n /\ up'[r] = Append(up[r], k)
        /\ UNCHANGED <<out, mq, replies>>
    BY <1>14, DeviceEffect
  <2>2. /\ a \in Lines /\ flow[a] = nums(dev[r]) /\ flow'[a] = nums(Tail(dev[r]))
        /\ b \in Lines /\ flow[b] = nums(up[r]) /\ flow'[b] = nums(up'[r]) /\ a # b
    BY <1>1, <2>1 DEF LinesAre
  <2>3. \A k \in Lines \ {a, b} : flow'[k] = flow[k]
    BY <1>2, <2>1
  <2>4. dev[r] \in Seq(Commands) /\ up[r] \in Seq(Acks)
    BY DEF TypeOK
  <2>5. \A k \in Acks : k.n = m.n => num(k) = num(m)
    BY <2>1 DEF num
  <2>b. up'[r] = up[r] \/ \E k \in Acks : num(k) = num(m) /\ up'[r] = Append(up[r], k)
    BY <2>1, <2>5
  <2> HIDE DEF a, b
  <2>6. /\ Len(flow[a]) = Len(flow'[a]) + 1 /\ flow[a][1] = num(m)
        /\ \A i \in 1..Len(flow'[a]) : flow'[a][i] = flow[a][i + 1]
    BY <2>1, <2>2, <2>4, TailNums
  <2> HIDE DEF m
  <2>7. \/ flow'[b] = flow[b]
        \/ /\ Len(flow'[b]) = Len(flow[b]) + 1 /\ flow'[b][Len(flow[b]) + 1] = num(m)
           /\ \A i \in 1..Len(flow[b]) : flow'[b][i] = flow[b][i]
    <3>1. CASE up'[r] = up[r]
        BY <2>2, <3>1
    <3>2. CASE \E k \in Acks : num(k) = num(m) /\ up'[r] = Append(up[r], k)
      <4>1. PICK k \in Acks : num(k) = num(m) /\ up'[r] = Append(up[r], k)
        BY <3>2
      <4>2. flow'[b] = nums(Append(up[r], k)) /\ flow[b] = nums(up[r])
        BY <2>2, <4>1
      <4>3. QED
        BY <2>4, <4>1, <4>2, AppendNums
    <3>3. QED
        BY <2>b, <3>1, <3>2
  <2>8. QED
    BY <1>3, <2>2, <2>3, <2>6, <2>7
<1>15. ASSUME NEW s \in Sessions, Send(s) PROVE UniqueInv'
  <2> DEFINE to == out[s][1].to
             m == out[s][1].msg
             a == <<"out", s>>
             b == <<"mq", to>>
  <2>1. /\ out[s] # <<>> /\ out[s][1] \in Sends /\ out'[s] = Tail(out[s])
        /\ \A x \in Sessions \ {s} : out'[x] = out[x]
        /\ mq'[to] = Append(mq[to], m) /\ \A x \in Sessions \ {to} : mq'[x] = mq[x]
        /\ UNCHANGED <<dev, up, replies>>
    BY <1>15, SendEffect DEF clientVars
  <2>2. to \in Sessions /\ m \in Msgs
    BY <2>1 DEF Sends
  <2>3. out[s] \in Seq(Sends) /\ \A x \in Sessions : mq[x] \in Seq(Msgs)
    BY DEF TypeOK
  <2> HIDE DEF to
  <2>4. /\ a \in Lines /\ flow[a] = sendNums(out[s]) /\ flow'[a] = sendNums(out'[s])
        /\ b \in Lines /\ flow[b] = nums(mq[to]) /\ flow'[b] = nums(mq'[to])
    BY <1>1, <2>2 DEF LinesAre
  <2>5. a # b
    OBVIOUS
  <2>6. \A k \in Lines \ {a, b} : flow'[k] = flow[k]
    BY <1>2, <2>1
  <2> HIDE DEF a, b
  <2>7. /\ Len(flow[a]) = Len(flow'[a]) + 1 /\ flow[a][1] = num(m)
        /\ \A i \in 1..Len(flow'[a]) : flow'[a][i] = flow[a][i + 1]
    BY <2>1, <2>3, <2>4, TailNums
  <2> HIDE DEF m
  <2>8. /\ Len(flow'[b]) = Len(flow[b]) + 1 /\ flow'[b][Len(flow[b]) + 1] = num(m)
        /\ \A i \in 1..Len(flow[b]) : flow'[b][i] = flow[b][i]
    <3>1. flow'[b] = nums(Append(mq[to], m)) /\ flow[b] = nums(mq[to]) /\ mq[to] \in Seq(Msgs)
        BY <2>1, <2>2, <2>3, <2>4
    <3>2. QED
        BY <2>2, <3>1, AppendNums
  <2>9. flow'[b][Len(flow[b]) + 1] \in {0, flow[a][1]}
    BY <2>7, <2>8
  <2>10. a \in Lines /\ b \in Lines
    BY <2>4
  <2>11. QED
    BY <1>3, <2>5, <2>6, <2>7, <2>8, <2>9, <2>10
<1>16. ASSUME NEW s \in Sessions, Die(s) \/ Forget(s) PROVE UniqueInv'
  <2>1. /\ \A x \in Sessions : out'[x] # out[x] => out'[x] = <<>>
        /\ \A x \in Sessions : mq'[x] # mq[x] => mq'[x] = <<>>
        /\ \A r \in Rtus : dev'[r] # dev[r] => dev'[r] = <<>>
        /\ \A r \in Rtus : up'[r] # up[r] => up'[r] = <<>>
        /\ replies' = replies
    BY <1>16, EndEffect
  <2>2. <<>> \in Seq({}) /\ Len(<<>>) = 0
    OBVIOUS
  <2>3. Len(nums(<<>>)) = 0 /\ Len(sendNums(<<>>)) = 0
    BY <2>2, NumsFact
  <2>4. \A k \in Lines : flow'[k] = flow[k] \/ Len(flow'[k]) = 0
    <3> SUFFICES ASSUME NEW k \in Lines PROVE flow'[k] = flow[k] \/ Len(flow'[k]) = 0
        OBVIOUS
    <3>1. ASSUME NEW x \in Sessions, k = <<"out", x>>, out'[x] # out[x] PROVE Len(flow'[k]) = 0
        BY <1>1, <2>1, <2>3, <3>1 DEF LinesAre
    <3>2. ASSUME NEW x \in Sessions, k = <<"mq", x>>, mq'[x] # mq[x] PROVE Len(flow'[k]) = 0
        BY <1>1, <2>1, <2>3, <3>2 DEF LinesAre
    <3>3. ASSUME NEW r \in Rtus, k = <<"dev", r>>, dev'[r] # dev[r] PROVE Len(flow'[k]) = 0
        BY <1>1, <2>1, <2>3, <3>3 DEF LinesAre
    <3>4. ASSUME NEW r \in Rtus, k = <<"up", r>>, up'[r] # up[r] PROVE Len(flow'[k]) = 0
        BY <1>1, <2>1, <2>3, <3>4 DEF LinesAre
    <3>5. QED
        BY <1>2, <2>1, <3>1, <3>2, <3>3, <3>4
  <2>5. QED
    BY <1>5, <2>4
<1>17. ASSUME NEW c \in Clients, NEW q \in Requests, MakeRequest(c, q) PROVE UniqueInv'
    BY <1>6, <1>17, MakeEffect
<1>18. QED
    BY <1>6, <1>8, <1>9, <1>10, <1>11, <1>12, <1>13, <1>14, <1>15, <1>16, <1>17, Steps

-----------------------------------------------------------------------------
(* What a client's session has taken, answered and logged.                  *)

\* The places of a number in a sequence, counted.
hits(q, a) == {i \in 1..Len(q) : q[i] = a}

\* An answer was given as often as it stands among the replies, if at all.
LEMMA HitsFact ==
    ASSUME NEW S, NEW q \in Seq(S), NEW a
    PROVE  /\ IsFiniteSet(hits(q, a)) /\ Cardinality(hits(q, a)) \in Nat
           /\ Cardinality(hits(q, a)) > 0 <=> \E i \in 1..Len(q) : q[i] = a
<1>1. Len(q) \in Nat
    OBVIOUS
<1>2. IsFiniteSet(1..Len(q))
    BY <1>1, FS_Interval
<1>3. IsFiniteSet(hits(q, a))
    BY <1>2, FS_Subset DEF hits
<1>4. Cardinality(hits(q, a)) \in Nat /\ (Cardinality(hits(q, a)) = 0 <=> hits(q, a) = {})
    BY <1>3, FS_CardinalityType, FS_EmptySet
<1>5. hits(q, a) = {} <=> ~ \E i \in 1..Len(q) : q[i] = a
    BY DEF hits
<1>6. QED
    BY <1>3, <1>4, <1>5

\* One more reply counts once.
LEMMA HitsAppend ==
    ASSUME NEW S, NEW q \in Seq(S), NEW e \in S, NEW a
    PROVE  Cardinality(hits(Append(q, e), a)) = Cardinality(hits(q, a)) + IF a = e THEN 1 ELSE 0
<1> DEFINE t == Append(q, e)
           n == Len(q) + 1
<1>1. Len(t) = n /\ t[n] = e /\ Len(q) \in Nat /\ \A i \in 1..Len(q) : t[i] = q[i]
    BY AppendFact
<1> HIDE DEF t
<1>2. hits(t, a) = IF a = e THEN hits(q, a) \cup {n} ELSE hits(q, a)
    BY <1>1 DEF hits
<1>3. n \notin hits(q, a)
    BY <1>1 DEF hits
<1>4. IsFiniteSet(hits(q, a)) /\ Cardinality(hits(q, a)) \in Nat
    BY HitsFact
<1> HIDE DEF n
<1>5. Cardinality(hits(q, a) \cup {n}) = Cardinality(hits(q, a)) + 1
    BY <1>3, <1>4, FS_AddElement
<1>6. QED
    BY <1>2, <1>4, <1>5 DEF t

\* The count of an answer in terms of the replies to a client.
LEMMA CountFact ==
    ASSUME TypeOK, NEW c \in Clients, NEW a
    PROVE  /\ Count(c, a) \in Nat /\ Count(c, a) = Cardinality(hits(replies[c], a))
           /\ Count(c, a) > 0 <=> \E i \in 1..Len(replies[c]) : replies[c][i] = a
<1>1. replies[c] \in Seq(0..MaxRequests)
    BY DEF TypeOK
<1>2. Count(c, a) = Cardinality(hits(replies[c], a))
    BY DEF Count, hits
<1>3. QED
    BY <1>1, <1>2, HitsFact

\* What is taken is a finite set of numbers.
LEMMA TakenFact ==
    ASSUME TypeOK, NEW c \in Clients
    PROVE  /\ IsFiniteSet(taken[c]) /\ Cardinality(taken[c]) \in Nat
           /\ taken[c] \in SUBSET Nat /\ 0 \notin taken[c]
<1>1. MaxRequests \in Nat
    BY FlowAssumption
<1>2. taken[c] \subseteq 1..MaxRequests
    BY DEF TypeOK
<1>3. IsFiniteSet(1..MaxRequests)
    BY <1>1, FS_Interval
<1>4. IsFiniteSet(taken[c])
    BY <1>2, <1>3, FS_Subset
<1>5. QED
    BY <1>1, <1>2, <1>4, FS_CardinalityType

\* A step leaves a client's session as it is, or gives an answer, or takes a command.
Stays(c) ==
    /\ replies'[c] = replies[c] /\ waiting'[c] = waiting[c] /\ taken'[c] = taken[c]
    /\ scode'[c] = scode[c] \/ \A k \in taken[c] : k < scode'[c]
SaysNo(c) ==
    /\ replies'[c] = Append(replies[c], 0) /\ taken'[c] = taken[c]
    /\ waiting[c] /\ ~waiting'[c]
PassesOn(c, n) ==
    /\ n \in taken[c] /\ \A i \in 1..Len(replies[c]) : replies[c][i] # n
    /\ replies'[c] = Append(replies[c], n) /\ taken'[c] = taken[c] /\ ~waiting'[c]
    /\ IsLast(c, cmdLog(c)) /\ logged' = logged \cup {cmdLog(c)}
Takes(c, n) ==
    /\ n \in 1..MaxRequests /\ \A d \in Clients : n \notin taken[d]
    /\ \A k \in taken[c] : k < n
    /\ taken'[c] = taken[c] \cup {n} /\ scode'[c] = n
    /\ \/ replies'[c] = replies[c] /\ waiting'[c]
       \/ replies'[c] = Append(replies[c], 0) /\ ~waiting'[c]
\* The rows of its commands have an outcome as before.
LogStays(c) == \A k \in taken'[c] : k \in logged' <=> k \in logged

\* The number read at the socket comes after all that are taken.
LEMMA HeadNumber ==
    ASSUME TypeOK, NumberInv, NEW c \in Clients, sock[c] # <<>>
    PROVE  /\ \A k \in taken[c] : k < sock[c][1].n
           /\ \A d \in Clients : sock[c][1].n \notin taken[d]
<1>1. sock[c] \in Seq(Requests)
    BY DEF TypeOK
<1>2. 1 \in 1..Len(sock[c])
    BY <1>1, TailFact
<1>3. /\ \A k \in taken[c] : k < sock[c][1].n
      /\ \A d \in Clients \ {c} : sock[c][1].n \notin taken[d]
    BY <1>2 DEF NumberInv
<1>4. sock[c][1].n \notin taken[c]
    BY <1>3, TakenFact
<1>5. QED
    BY <1>3, <1>4

\* An acknowledgement in a queue has not been answered yet.
LEMMA AckIsNew ==
    ASSUME TypeOK, UniqueInv, NEW c \in Clients, mq[c] # <<>>, mq[c][1] \in Acks
    PROVE  \A i \in 1..Len(replies[c]) : replies[c][i] # mq[c][1].n
<1> DEFINE k == <<"mq", c>>
           l == <<"replies", c>>
<1>1. /\ k \in Lines /\ flow[k] = nums(mq[c])
      /\ l \in Lines /\ flow[l] = replies[c] /\ k # l
    BY LineFacts DEF LinesAre, Sessions
<1>2. mq[c] \in Seq(Msgs)
    BY DEF TypeOK, Sessions
<1>3. 1 \in 1..Len(nums(mq[c])) /\ nums(mq[c])[1] = num(mq[c][1])
    BY <1>2, TailFact, NumsFact
<1>4. num(mq[c][1]) = mq[c][1].n /\ mq[c][1].n # 0
    BY AckNum
<1> HIDE DEF k, l
<1>5. \A i \in 1..Len(flow[l]) : flow[k][1] # flow[l][i]
    BY <1>1, <1>3, <1>4 DEF UniqueInv, Unique
<1>6. QED
    BY <1>1, <1>3, <1>4, <1>5

\* What a step can do to a client: nothing, a negative answer, a new command, or an
\* acknowledgement passed on.
LEMMA ClientMoves ==
    ASSUME TypeOK, OwnInv, OutInv, NumberInv, UniqueInv, LogInv, [Next]_vars, NEW c \in Clients
    PROVE  \/ (Stays(c) \/ SaysNo(c) \/ \E n \in Nat : Takes(c, n)) /\ LogStays(c)
           \/ \E n \in Nat : PassesOn(c, n)
<1> DEFINE Moves == \/ (Stays(c) \/ SaysNo(c) \/ \E n \in Nat : Takes(c, n)) /\ LogStays(c)
                    \/ \E n \in Nat : PassesOn(c, n)
<1>1. ASSUME UNCHANGED <<waiting, scode, logged, taken, replies>> PROVE Moves
    BY <1>1 DEF Stays, LogStays
<1>2. ASSUME NEW d \in Clients, NEW q \in Requests, MakeRequest(d, q) PROVE Moves
    BY <1>1, <1>2, MakeEffect
<1>3. ASSUME NEW d \in Clients, Expire(d) PROVE Moves
  <2>1. /\ waiting[d] /\ waiting' = [waiting EXCEPT ![d] = FALSE]
        /\ replies'[d] = Append(replies[d], 0)
        /\ \A e \in Clients \ {d} : replies'[e] = replies[e]
        /\ UNCHANGED <<scode, logged, taken>>
    BY <1>3, ExpireEffect
  <2>2. ~waiting'[d] /\ \A e \in Clients \ {d} : waiting'[e] = waiting[e]
    BY <2>1 DEF TypeOK
  <2>3. LogStays(c)
    BY <2>1 DEF LogStays
  <2>4. CASE c = d
    BY <2>1, <2>2, <2>3, <2>4 DEF SaysNo
  <2>5. CASE c # d
    BY <2>1, <2>2, <2>3, <2>5 DEF Stays
  <2>6. QED
    BY <2>4, <2>5
<1>4. ASSUME NEW d \in Clients, ClientMessage(d) PROVE Moves
  <2> DEFINE m == mq[d][1]
  <2>1. CASE UNCHANGED <<waiting, scode, logged, replies>>
    BY <1>1, <1>4, <2>1, MessageEffect
  <2>2. CASE /\ m \in Acks /\ m.n \in taken[d]
             /\ waiting' = [waiting EXCEPT ![d] = FALSE] /\ scode' = [scode EXCEPT ![d] = m.n]
             /\ logged' = logged \cup {cmdLog(d)} /\ IsLast(d, cmdLog(d))
             /\ replies'[d] = Append(replies[d], m.n)
             /\ \A e \in Clients \ {d} : replies'[e] = replies[e]
    <3>1. mq[d] # <<>> /\ taken' = taken
        BY <1>4, MessageEffect
    <3>2. \A i \in 1..Len(replies[d]) : replies[d][i] # m.n
        BY <2>2, <3>1, AckIsNew
    <3>3. ~waiting'[d] /\ \A e \in Clients \ {d} : waiting'[e] = waiting[e] /\ scode'[e] = scode[e]
        BY <2>2 DEF TypeOK
    <3>4. m.n \in Nat
        BY <2>2, TakenFact
    <3>5. CASE c = d
        BY <2>2, <3>1, <3>2, <3>3, <3>4, <3>5 DEF PassesOn
    <3>6. CASE c # d
      <4>1. cmdLog(d) \notin taken[c]
        BY <2>2, <3>6 DEF NumberInv, IsLast
      <4>2. LogStays(c)
        BY <2>2, <3>1, <4>1 DEF LogStays
      <4>3. Stays(c)
        BY <2>2, <3>1, <3>3, <3>6 DEF Stays
      <4>4. QED
        BY <4>2, <4>3
    <3>7. QED
        BY <3>5, <3>6
  <2>3. QED
    BY <1>4, <2>1, <2>2, MessageEffect
<1>5. ASSUME NEW d \in Clients, SendCommand(d) \/ RefuseCommand(d) PROVE Moves
  <2> DEFINE n == sock[d][1].n
  <2>1. /\ sock[d] # <<>> /\ n \in 1..MaxRequests
        /\ taken'[d] = taken[d] \cup {n} /\ \A e \in Clients \ {d} : taken'[e] = taken[e]
        /\ logged' = logged /\ scode' = [scode EXCEPT ![d] = n]
        /\ \A e \in Clients \ {d} : replies'[e] = replies[e]
        /\ \/ replies' = replies /\ waiting' = [waiting EXCEPT ![d] = TRUE]
           \/ replies'[d] = Append(replies[d], 0) /\ waiting' = [waiting EXCEPT ![d] = FALSE]
    BY <1>5, CommandEffect, RefuseEffect
  <2>2. (\A k \in taken[d] : k < n) /\ \A e \in Clients : n \notin taken[e]
    BY <2>1, HeadNumber
  <2>3. LogStays(c)
    BY <2>1 DEF LogStays
  <2> HIDE DEF n
  <2>4. n \in Nat
    <3>1. MaxRequests \in Nat
        BY FlowAssumption
    <3>2. n \in 1..MaxRequests
        BY <2>1
    <3>3. QED
        BY <3>1, <3>2
  <2>5. /\ \A e \in Clients \ {d} : waiting'[e] = waiting[e] /\ scode'[e] = scode[e]
        /\ scode'[d] = n
        /\ \/ replies'[d] = replies[d] /\ waiting'[d]
           \/ replies'[d] = Append(replies[d], 0) /\ ~waiting'[d]
    <3>1. /\ \A e \in Clients \ {d} : waiting'[e] = waiting[e] /\ scode'[e] = scode[e]
          /\ scode'[d] = n
        BY <2>1 DEF TypeOK
    <3>2. \/ replies'[d] = replies[d] /\ waiting'[d]
          \/ replies'[d] = Append(replies[d], 0) /\ ~waiting'[d]
        BY <2>1 DEF TypeOK
    <3>3. QED
        BY <3>1, <3>2
  <2>6. CASE c = d
    <3>1. Takes(c, n)
        BY <2>1, <2>2, <2>5, <2>6 DEF Takes
    <3>2. QED
        BY <2>3, <2>4, <3>1
  <2>7. CASE c # d
    <3>1. Stays(c)
        BY <2>1, <2>5, <2>7 DEF Stays
    <3>2. QED
        BY <2>3, <3>1
  <2>8. QED
    BY <2>6, <2>7
<1>6. ASSUME NEW d \in Clients, Setup(d) \/ Broadcast(d) PROVE Moves
  <2> DEFINE n == sock[d][1].n
  <2>1. /\ sock[d] # <<>> /\ UNCHANGED <<waiting, logged, taken, replies>>
        /\ scode' = scode \/ scode' = [scode EXCEPT ![d] = n]
    BY <1>6, PlainEffect
  <2>2. \A k \in taken[d] : k < n
    BY <2>1, HeadNumber
  <2> HIDE DEF n
  <2>3. scode'[c] = scode[c] \/ (c = d /\ scode'[c] = n)
    BY <2>1 DEF TypeOK
  <2>4. Stays(c)
    BY <2>1, <2>2, <2>3 DEF Stays
  <2>5. QED
    BY <2>1, <2>4 DEF LogStays
<1>7. ASSUME NEW r \in Rtus, RtuMessage(r) PROVE Moves
    BY <1>1, <1>7, RtuMessageEffect
<1>8. ASSUME NEW r \in Rtus, RtuAck(r) PROVE Moves
    BY <1>1, <1>8, AckEffect DEF clientVars
<1>9. ASSUME NEW r \in Rtus, Acknowledge(r) \/ Ignore(r) PROVE Moves
    BY <1>1, <1>9, DeviceEffect
<1>10. ASSUME NEW s \in Sessions, Send(s) PROVE Moves
    BY <1>1, <1>10, SendEffect DEF clientVars
<1>11. ASSUME NEW s \in Sessions, Die(s) \/ Forget(s) PROVE Moves
    BY <1>1, <1>11, EndEffect
<1> HIDE DEF Moves
<1>12. Moves
    BY <1>1, <1>2, <1>3, <1>4, <1>5, <1>6, <1>7, <1>8, <1>9, <1>10, <1>11, Steps
<1>13. QED
    BY <1>12 DEF Moves

\* How often a number was answered, after a step.
LEMMA CountMoves ==
    ASSUME TypeOK, NEW c \in Clients, NEW a
    PROVE  /\ replies'[c] = replies[c] => Count(c, a)' = Count(c, a)
           /\ \A e \in 0..MaxRequests : replies'[c] = Append(replies[c], e) =>
                 Count(c, a)' = Count(c, a) + IF a = e THEN 1 ELSE 0
<1>1. replies[c] \in Seq(0..MaxRequests)
    BY DEF TypeOK
<1>2. Count(c, a) = Cardinality(hits(replies[c], a)) /\ Count(c, a)' = Cardinality(hits(replies'[c], a))
    BY DEF Count, hits
<1>3. ASSUME NEW e \in 0..MaxRequests, replies'[c] = Append(replies[c], e)
      PROVE  Count(c, a)' = Count(c, a) + IF a = e THEN 1 ELSE 0
  <2> DEFINE S == 0..MaxRequests
             q == replies[c]
  <2>1. q \in Seq(S) /\ e \in S
    BY <1>1
  <2>2. Count(c, a)' = Cardinality(hits(Append(q, e), a)) /\ Count(c, a) = Cardinality(hits(q, a))
    BY <1>2, <1>3
  <2> HIDE DEF S, q
  <2>3. Cardinality(hits(Append(q, e), a)) = Cardinality(hits(q, a)) + IF a = e THEN 1 ELSE 0
    BY <2>1, HitsAppend
  <2>4. QED
    BY <2>2, <2>3
<1>4. QED
    BY <1>2, <1>3

\* Each action keeps the negative answers of a client, with the one still owed,
\* to as many as there were commands.
LEMMA NegativeStep ==
    TypeOK /\ OwnInv /\ OutInv /\ NumberInv /\ UniqueInv /\ LogInv /\ NegativeInv /\ [Next]_vars
        => NegativeInv'
<1> SUFFICES ASSUME TypeOK, OwnInv, OutInv, NumberInv, UniqueInv, LogInv, NegativeInv, [Next]_vars,
                    NEW c \in Clients
             PROVE  Count(c, 0)' + owed(c)' <= Cardinality(taken'[c])
    BY DEF NegativeInv
<1>0. 0 \in 0..MaxRequests
    BY FlowAssumption
<1>1. /\ Count(c, 0) \in Nat /\ Cardinality(taken[c]) \in Nat
      /\ Count(c, 0) + owed(c) <= Cardinality(taken[c])
    BY CountFact, TakenFact DEF NegativeInv
<1>2. CASE Stays(c)
  <2>1. Count(c, 0)' = Count(c, 0) /\ owed(c)' = owed(c) /\ taken'[c] = taken[c]
    BY <1>2, CountMoves DEF Stays, owed
  <2>2. QED
    BY <1>1, <2>1
<1>3. CASE SaysNo(c)
  <2>1. Count(c, 0)' = Count(c, 0) + 1
    BY <1>0, <1>3, CountMoves DEF SaysNo
  <2>2. owed(c) = 1 /\ owed(c)' = 0 /\ taken'[c] = taken[c]
    BY <1>3 DEF SaysNo, owed
  <2>3. QED
    BY <1>1, <2>1, <2>2
<1>4. ASSUME NEW n \in Nat, PassesOn(c, n) PROVE Count(c, 0)' + owed(c)' <= Cardinality(taken'[c])
  <2>1. n \in 0..MaxRequests /\ n # 0
    BY <1>4, TakenFact DEF PassesOn, TypeOK
  <2>2. Count(c, 0)' = Count(c, 0)
    BY <1>1, <1>4, <2>1, CountMoves DEF PassesOn
  <2>3. owed(c)' = 0 /\ taken'[c] = taken[c] /\ owed(c) \in {0, 1}
    BY <1>4 DEF PassesOn, owed
  <2>4. QED
    BY <1>1, <2>2, <2>3
<1>5. ASSUME NEW n \in Nat, Takes(c, n) PROVE Count(c, 0)' + owed(c)' <= Cardinality(taken'[c])
  <2>1. Cardinality(taken'[c]) = Cardinality(taken[c]) + 1
    BY <1>5, TakenFact, FS_AddElement DEF Takes
  <2>2. owed(c) \in {0, 1}
    BY DEF owed
  <2>3. CASE replies'[c] = replies[c] /\ waiting'[c]
    <3>1. Count(c, 0)' = Count(c, 0) /\ owed(c)' = 1
        BY <2>3, CountMoves DEF owed
    <3>2. QED
        BY <1>1, <2>1, <2>2, <3>1
  <2>4. CASE replies'[c] = Append(replies[c], 0) /\ ~waiting'[c]
    <3>1. Count(c, 0)' = Count(c, 0) + 1
        BY <1>0, <2>4, CountMoves
    <3>2. owed(c)' = 0
        BY <2>4 DEF owed
    <3>3. QED
        BY <1>1, <2>1, <2>2, <3>1, <3>2
  <2>5. QED
    BY <1>5, <2>3, <2>4 DEF Takes
<1>6. QED
  <2>1. (Stays(c) \/ SaysNo(c) \/ \E n \in Nat : Takes(c, n)) \/ \E n \in Nat : PassesOn(c, n)
    BY ClientMoves
  <2>2. QED
    BY <1>2, <1>3, <1>4, <1>5, <2>1

\* Each action keeps: whoever waits, waits for the last command's
\* acknowledgement, and the site in hand is no older than it.
LEMMA WaitingStep ==
    TypeOK /\ OwnInv /\ OutInv /\ NumberInv /\ UniqueInv /\ LogInv /\ WaitingInv /\ [Next]_vars
        => WaitingInv'
<1> SUFFICES ASSUME TypeOK, OwnInv, OutInv, NumberInv, UniqueInv, LogInv, WaitingInv, [Next]_vars,
                    NEW c \in Clients, waiting'[c]
             PROVE  /\ \E n \in taken'[c] : IsLast(c, n)' /\ Count(c, n)' = 0
                    /\ \A k \in taken'[c] : k <= scode'[c]
    BY DEF WaitingInv
<1>0. taken[c] \in SUBSET Nat /\ scode[c] \in Nat /\ TypeOK' /\ scode'[c] \in Nat
  <2>1. TypeOK'
    BY TypeStep
  <2>2. scode[c] \in Nat /\ scode'[c] \in Nat
    BY <2>1, FlowAssumption DEF TypeOK
  <2>3. QED
    BY <2>1, <2>2, TakenFact
<1>1. CASE Stays(c)
  <2>1. PICK n \in taken[c] : IsLast(c, n) /\ Count(c, n) = 0
    BY <1>1 DEF WaitingInv, Stays
  <2>2. \A k \in taken[c] : k <= scode[c]
    BY <1>1 DEF WaitingInv, Stays
  <2>3. IsLast(c, n)'
    BY <1>1, <2>1 DEF IsLast, Stays
  <2>4. Count(c, n)' = 0
    BY <1>1, <2>1, CountMoves DEF Stays
  <2>5. \A k \in taken[c] : k <= scode'[c]
    BY <1>0, <1>1, <2>2 DEF Stays
  <2>6. QED
    BY <1>1, <2>1, <2>3, <2>4, <2>5 DEF Stays
<1>2. ASSUME NEW n \in Nat, Takes(c, n)
      PROVE  /\ \E k \in taken'[c] : IsLast(c, k)' /\ Count(c, k)' = 0
             /\ \A k \in taken'[c] : k <= scode'[c]
  <2>1. replies'[c] = replies[c] /\ taken'[c] = taken[c] \cup {n} /\ scode'[c] = n /\ n # 0
    BY <1>2, FlowAssumption DEF Takes
  <2>2. n \in taken'[c] /\ \A k \in taken'[c] : k <= n
    BY <1>0, <1>2, <2>1 DEF Takes
  <2>3. Count(c, n)' = Count(c, n)
    BY <2>1, CountMoves
  <2>4. \A i \in 1..Len(replies[c]) : replies[c][i] # n
    BY <1>2, <2>1 DEF Takes, OwnInv
  <2>5. Count(c, n) = 0
    BY <2>4, CountFact
  <2>6. QED
    BY <2>1, <2>2, <2>3, <2>5 DEF IsLast
<1>3. QED
  <2>1. (Stays(c) \/ SaysNo(c) \/ \E n \in Nat : Takes(c, n)) \/ \E n \in Nat : PassesOn(c, n)
    BY ClientMoves
  <2>2. ~SaysNo(c) /\ \A n \in Nat : ~PassesOn(c, n)
    BY DEF SaysNo, PassesOn
  <2>3. QED
    BY <1>1, <1>2, <2>1, <2>2

\* Each action gives an outcome only to rows of commands that were taken.
LEMMA LogStep ==
    TypeOK /\ OwnInv /\ OutInv /\ NumberInv /\ UniqueInv /\ LogInv /\ [Next]_vars => LogInv'
<1> SUFFICES ASSUME TypeOK, OwnInv, OutInv, NumberInv, UniqueInv, LogInv, [Next]_vars,
                    NEW n \in logged'
             PROVE  \E c \in Clients : n \in taken'[c]
    BY DEF LogInv
<1>1. n \in logged \/ \E c \in Clients : n \in taken[c]
  <2>1. logged' = logged \/ \E c \in Clients : logged' = logged \cup {cmdLog(c)} /\ IsLast(c, cmdLog(c))
    <3>1. ASSUME NEW c \in Clients, ClientMessage(c)
          PROVE  \/ logged' = logged
                 \/ logged' = logged \cup {cmdLog(c)} /\ IsLast(c, cmdLog(c))
        BY <3>1, MessageEffect
    <3>2. \A c \in Clients, q \in Requests : MakeRequest(c, q) => logged' = logged
        BY MakeEffect
    <3>3. \A c \in Clients : Expire(c) => logged' = logged
        BY ExpireEffect
    <3>4. \A c \in Clients : SendCommand(c) \/ RefuseCommand(c) => logged' = logged
        BY CommandEffect, RefuseEffect
    <3>5. \A c \in Clients : Setup(c) \/ Broadcast(c) => logged' = logged
        BY PlainEffect
    <3>6. \A r \in Rtus : RtuMessage(r) => logged' = logged
        BY RtuMessageEffect
    <3>7. \A r \in Rtus : RtuAck(r) => logged' = logged
        BY DEF RtuAck, clientVars
    <3>8. \A r \in Rtus : Acknowledge(r) \/ Ignore(r) => logged' = logged
        BY DeviceEffect
    <3>9. \A s \in Sessions : Send(s) => logged' = logged
        BY DEF Send, clientVars
    <3>10. \A s \in Sessions : Die(s) \/ Forget(s) => logged' = logged
        BY EndEffect
    <3>11. QED
        BY <3>1, <3>2, <3>3, <3>4, <3>5, <3>6, <3>7, <3>8, <3>9, <3>10, Steps
  <2>2. QED
    BY <2>1 DEF IsLast
<1>2. n \in logged => \E c \in Clients : n \in taken[c]
    BY DEF LogInv
<1>3. QED
    BY <1>1, <1>2, TakenGrows

\* The commands of a client that were acknowledged to it, and the rows that say so.
ackedTo(c) == {n \in taken[c] : Count(c, n) > 0}
rows(c) == logged \cap taken[c]

\* LogFollows client by client.
LEMMA LogFollowsIs ==
    LogFollows <=> \A c \in Clients :
                      /\ Cardinality(rows(c)) <= Cardinality(ackedTo(c))
                      /\ \A n \in ackedTo(c) : \E k \in rows(c) : n <= k
BY DEF LogFollows, ackedTo, rows

\* Each action keeps the log following the acknowledgements.
LEMMA LogFollowsStep ==
    TypeOK /\ OwnInv /\ OutInv /\ NumberInv /\ UniqueInv /\ LogInv /\ LogFollows /\ [Next]_vars
        => LogFollows'
<1> SUFFICES ASSUME TypeOK, OwnInv, OutInv, NumberInv, UniqueInv, LogInv, LogFollows, [Next]_vars,
                    NEW c \in Clients
             PROVE  /\ Cardinality(rows(c)') <= Cardinality(ackedTo(c)')
                    /\ \A n \in ackedTo(c)' : \E k \in rows(c)' : n <= k
    BY DEF LogFollows, ackedTo, rows
<1>0. /\ Cardinality(rows(c)) <= Cardinality(ackedTo(c))
      /\ \A n \in ackedTo(c) : \E k \in rows(c) : n <= k
    BY LogFollowsIs
<1>1. /\ IsFiniteSet(rows(c)) /\ IsFiniteSet(ackedTo(c))
      /\ Cardinality(rows(c)) \in Nat /\ Cardinality(ackedTo(c)) \in Nat
      /\ taken[c] \in SUBSET Nat /\ 0 \notin taken[c]
  <2>1. IsFiniteSet(taken[c]) /\ taken[c] \in SUBSET Nat /\ 0 \notin taken[c]
    BY TakenFact
  <2>2. rows(c) \subseteq taken[c] /\ ackedTo(c) \subseteq taken[c]
    BY DEF rows, ackedTo
  <2>3. IsFiniteSet(rows(c)) /\ IsFiniteSet(ackedTo(c))
    BY <2>1, <2>2, FS_Subset
  <2>4. QED
    BY <2>1, <2>3, FS_CardinalityType
<1>2. ASSUME rows(c)' = rows(c), ackedTo(c)' = ackedTo(c)
      PROVE  /\ Cardinality(rows(c)') <= Cardinality(ackedTo(c)')
             /\ \A n \in ackedTo(c)' : \E k \in rows(c)' : n <= k
    BY <1>0, <1>2
\* Neither silence nor a negative answer changes what was acknowledged.
<1>3. ASSUME replies'[c] = replies[c] \/ replies'[c] = Append(replies[c], 0), NEW n \in taken[c]
      PROVE  Count(c, n)' = Count(c, n)
  <2>1. n # 0 /\ 0 \in 0..MaxRequests /\ Count(c, n) \in Nat
    BY <1>1, FlowAssumption, CountFact
  <2>2. QED
    BY <1>3, <2>1, CountMoves
<1>4. CASE (Stays(c) \/ SaysNo(c)) /\ LogStays(c)
  <2>1. /\ taken'[c] = taken[c]
        /\ replies'[c] = replies[c] \/ replies'[c] = Append(replies[c], 0)
    BY <1>4 DEF Stays, SaysNo
  <2>2. ackedTo(c)' = ackedTo(c)
    BY <1>3, <2>1 DEF ackedTo
  <2>3. rows(c)' = rows(c)
    BY <1>4, <2>1 DEF rows, LogStays
  <2>4. QED
    BY <1>2, <2>2, <2>3
<1>5. ASSUME NEW n \in Nat, Takes(c, n), LogStays(c)
      PROVE  rows(c)' = rows(c) /\ ackedTo(c)' = ackedTo(c)
  <2>1. /\ taken'[c] = taken[c] \cup {n} /\ n \notin taken[c] /\ n # 0
        /\ replies'[c] = replies[c] \/ replies'[c] = Append(replies[c], 0)
    BY <1>5, FlowAssumption DEF Takes
  <2>2. n \notin logged
    BY <1>5 DEF LogInv, Takes
  <2>3. rows(c)' = rows(c)
    BY <1>5, <2>1, <2>2 DEF rows, LogStays
  <2>4. \A i \in 1..Len(replies[c]) : replies[c][i] # n
    BY <2>1 DEF OwnInv
  <2>5. Count(c, n) = 0
    BY <2>4, CountFact
  <2>6. Count(c, n)' = 0
    <3>1. 0 \in 0..MaxRequests
        BY FlowAssumption
    <3>2. QED
        BY <2>1, <2>5, <3>1, CountMoves
  <2>7. ackedTo(c)' = ackedTo(c)
    BY <1>3, <2>1, <2>6 DEF ackedTo
  <2>8. QED
    BY <2>3, <2>7
<1>6. ASSUME NEW n \in Nat, PassesOn(c, n)
      PROVE  /\ Cardinality(rows(c)') <= Cardinality(ackedTo(c)')
             /\ \A k \in ackedTo(c)' : \E l \in rows(c)' : k <= l
  <2> DEFINE last == cmdLog(c)
  <2>1. /\ n \in taken[c] /\ taken'[c] = taken[c] /\ replies'[c] = Append(replies[c], n)
        /\ logged' = logged \cup {last} /\ last \in taken[c] /\ \A k \in taken[c] : k <= last
        /\ \A i \in 1..Len(replies[c]) : replies[c][i] # n
    BY <1>6 DEF PassesOn, IsLast
  <2> HIDE DEF last
  <2>2. n \in 0..MaxRequests
    BY <2>1, FlowAssumption DEF TypeOK
  <2>3. Count(c, n) = 0
    BY <2>1, CountFact
  <2>4. Count(c, n)' = 1
    BY <2>1, <2>2, <2>3, CountMoves
  <2>5. \A k \in taken[c] \ {n} : Count(c, k)' = Count(c, k)
    <3> SUFFICES ASSUME NEW k \in taken[c] \ {n} PROVE Count(c, k)' = Count(c, k)
        OBVIOUS
    <3>1. Count(c, k) \in Nat
        BY CountFact
    <3>2. QED
        BY <2>1, <2>2, <3>1, CountMoves
  <2>6. ackedTo(c)' = ackedTo(c) \cup {n} /\ n \notin ackedTo(c)
    BY <2>1, <2>3, <2>4, <2>5 DEF ackedTo
  <2>7. rows(c)' = rows(c) \cup {last}
    BY <2>1 DEF rows
  <2>8. Cardinality(ackedTo(c)') = Cardinality(ackedTo(c)) + 1
    BY <1>1, <2>6, FS_AddElement
  <2>9. Cardinality(rows(c)') <= Cardinality(rows(c)) + 1
    <3>1. CASE last \in rows(c)
      <4>1. rows(c)' = rows(c)
        BY <2>7, <3>1
      <4>2. QED
        BY <1>1, <4>1
    <3>2. CASE last \notin rows(c)
      <4>1. Cardinality(rows(c) \cup {last}) = Cardinality(rows(c)) + 1
        BY <1>1, <3>2, FS_AddElement
      <4>2. QED
        BY <1>1, <2>7, <4>1
    <3>3. QED
        BY <3>1, <3>2
  <2>10. IsFiniteSet(rows(c)') /\ Cardinality(rows(c)') \in Nat
    BY <1>1, <2>7, FS_AddElement, FS_CardinalityType
  <2>11. Cardinality(rows(c)') <= Cardinality(ackedTo(c)')
    BY <1>0, <1>1, <2>8, <2>9, <2>10
  <2>12. \A k \in ackedTo(c)' : k <= last
    BY <2>1, <2>6 DEF ackedTo
  <2>13. QED
    BY <2>7, <2>11, <2>12
<1>7. QED
  <2>1. \/ (Stays(c) \/ SaysNo(c) \/ \E n \in Nat : Takes(c, n)) /\ LogStays(c)
        \/ \E n \in Nat : PassesOn(c, n)
    BY ClientMoves
  <2>2. QED
    BY <1>2, <1>4, <1>5, <1>6, <2>1

-----------------------------------------------------------------------------
(* The theorems.                                                            *)

\* The flow's invariant holds before the first request.
LEMMA FlowInit == Init => FlowInv
<1> SUFFICES ASSUME Init PROVE FlowInv
    OBVIOUS
<1>1. TypeOK /\ OwnInv /\ NumberInv /\ UniqueInv
    BY TypeInit, OwnInit, NumberInit, UniqueInit
<1>2. \A c \in Clients : taken[c] = {} /\ replies[c] = <<>> /\ ~waiting[c]
    BY DEF Init
<1>3. OutInv /\ LogInv /\ WaitingInv
    BY <1>2 DEF Init, OutInv, LogInv, WaitingInv
<1>4. \A c \in Clients : Count(c, 0) = 0 /\ Cardinality(taken[c]) = 0 /\ owed(c) = 0
  <2>1. \A q : q = <<>> => Len(q) = 0
    OBVIOUS
  <2>2. \A c \in Clients : ~ \E i \in 1..Len(replies[c]) : replies[c][i] = 0
    BY <1>2, <2>1
  <2>3. \A c \in Clients : Count(c, 0) \in Nat /\ (Count(c, 0) > 0 <=> FALSE)
    BY <1>1, <2>2, CountFact
  <2>4. \A c \in Clients : Cardinality(taken[c]) = 0
    BY <1>2, FS_EmptySet
  <2>5. QED
    BY <1>2, <2>3, <2>4 DEF owed
<1>5. NegativeInv
    BY <1>4 DEF NegativeInv
<1>6. LogFollows
  <2>1. \A c \in Clients : rows(c) = {} /\ ackedTo(c) = {}
    BY <1>2 DEF rows, ackedTo
  <2>2. Cardinality({}) <= Cardinality({})
    BY FS_EmptySet
  <2>3. QED
    BY <2>1, <2>2, LogFollowsIs
<1>7. QED
    BY <1>1, <1>3, <1>5, <1>6 DEF FlowInv

\* Each action keeps all parts of the flow's invariant.
LEMMA FlowStep == FlowInv /\ [Next]_vars => FlowInv'
BY TypeStep, OutStep, OwnStep, NumberStep, UniqueStep, NegativeStep, WaitingStep, LogStep,
   LogFollowsStep DEF FlowInv

\* The flow's invariant holds always.
LEMMA FlowHolds == Spec => []FlowInv
<1>1. Spec => Init /\ [][Next]_vars
    BY DEF Spec
<1>2. QED
    BY <1>1, FlowInit, FlowStep, PTL

\* The variables keep their types; a queue in particular never holds more than it may.
THEOREM FlowTypes == Spec => []TypeOK
<1>1. FlowInv => TypeOK
    BY DEF FlowInv
<1>2. QED
    BY <1>1, FlowHolds, PTL

\* However commands, acknowledgements and the loops of the sessions come together: no
\* command is acknowledged twice to its client or before its session took it, and no
\* client gets more negative answers than its session took commands.
THEOREM AnswersAreRight == Spec => []AnswersMatch
<1>1. ASSUME FlowInv PROVE AnswersMatch
  <2>0. TypeOK /\ OwnInv /\ UniqueInv /\ NegativeInv
    BY <1>1 DEF FlowInv
  <2> SUFFICES ASSUME NEW c \in Clients
               PROVE  /\ \A n \in 1..MaxRequests : Count(c, n) <= IF n \in taken[c] THEN 1 ELSE 0
                      /\ Count(c, 0) <= Cardinality(taken[c])
    BY DEF AnswersMatch
  <2>1. ASSUME NEW n \in 1..MaxRequests PROVE Count(c, n) <= IF n \in taken[c] THEN 1 ELSE 0
    <3>1. Count(c, n) \in Nat /\ Count(c, n) = Cardinality(hits(replies[c], n))
          /\ (Count(c, n) > 0 <=> \E i \in 1..Len(replies[c]) : replies[c][i] = n)
        BY <2>0, CountFact
    <3>2. n # 0 /\ replies[c] \in Seq(0..MaxRequests)
        BY <2>0, FlowAssumption DEF TypeOK
    <3>3. n \notin taken[c] => Count(c, n) = 0
        BY <2>0, <3>1, <3>2 DEF OwnInv
    <3>4. Count(c, n) <= 1
      <4> DEFINE k == <<"replies", c>>
      <4>1. k \in Lines /\ flow[k] = replies[c]
        BY LineFacts DEF LinesAre
      <4> HIDE DEF k
      <4>2. \A i, j \in hits(replies[c], n) : i = j
        BY <2>0, <3>2, <4>1 DEF UniqueInv, Unique, hits
      <4>3. CASE hits(replies[c], n) = {}
        BY <3>1, <4>3, FS_EmptySet
      <4>4. CASE hits(replies[c], n) # {}
        <5>1. \E i : hits(replies[c], n) = {i}
            BY <4>2, <4>4
        <5>2. IsFiniteSet(hits(replies[c], n))
            BY <3>2, HitsFact
        <5>3. Cardinality(hits(replies[c], n)) = 1
            BY <5>1, <5>2, FS_Singleton
        <5>4. QED
            BY <3>1, <5>3
      <4>5. QED
        BY <4>3, <4>4
    <3>5. QED
        BY <3>1, <3>3, <3>4
  <2>2. Count(c, 0) <= Cardinality(taken[c])
    <3>1. Count(c, 0) \in Nat /\ Cardinality(taken[c]) \in Nat /\ owed(c) \in {0, 1}
        BY <2>0, CountFact, TakenFact DEF owed
    <3>2. Count(c, 0) + owed(c) <= Cardinality(taken[c])
        BY <2>0 DEF NegativeInv
    <3>3. QED
        BY <3>1, <3>2
  <2>3. QED
    BY <2>1, <2>2
<1>2. QED
    BY <1>1, FlowHolds, PTL

\* The outcome goes to the row of the last command, whichever is acknowledged; still the
\* rows of a client's commands are no more than its acknowledgements, and each of those
\* shows in the row of its command or of a later one.
THEOREM TheLogFollows == Spec => []LogFollows
<1>1. FlowInv => LogFollows
    BY DEF FlowInv
<1>2. QED
    BY <1>1, FlowHolds, PTL

\* When the forty seconds are over and the client is told so, the last command its
\* session took has no acknowledgement, and the answer names its site or that of a
\* request after it.
THEOREM NotAckIsRight == Spec => NotAckIsTrue
<1>1. ASSUME FlowInv, NEW c \in Clients, Expire(c)
      PROVE  /\ \E n \in taken[c] : Count(c, n) = 0 /\ \A k \in taken[c] : k <= n
             /\ \A k \in taken[c] : k <= scode[c]
  <2>1. waiting[c] /\ WaitingInv
    BY <1>1 DEF Expire, FlowInv
  <2>2. QED
    BY <2>1 DEF WaitingInv, IsLast
<1>2. FlowInv /\ [Next]_vars =>
        [\A c \in Clients : Expire(c) =>
            /\ \E n \in taken[c] : Count(c, n) = 0 /\ \A k \in taken[c] : k <= n
            /\ \A k \in taken[c] : k <= scode[c]]_vars
    BY <1>1
<1>3. Spec => [][Next]_vars
    BY DEF Spec
<1>4. QED
    BY <1>2, <1>3, FlowHolds, PTL DEF NotAckIsTrue

\* A session never just forgets that it waits: it stops with an answer to its client.
THEOREM WaitingIsAnswered == Spec => WaitEndsWithReply
<1>1. ASSUME FlowInv, [Next]_vars, NEW c \in Clients, waiting[c], ~waiting'[c]
      PROVE  Len(replies'[c]) > Len(replies[c])
  <2>1. TypeOK /\ OwnInv /\ OutInv /\ NumberInv /\ UniqueInv /\ LogInv
    BY <1>1 DEF FlowInv
  <2>2. (Stays(c) \/ SaysNo(c) \/ \E n \in Nat : Takes(c, n)) \/ \E n \in Nat : PassesOn(c, n)
    BY <1>1, <2>1, ClientMoves
  <2>3. \E n \in 0..MaxRequests : replies'[c] = Append(replies[c], n)
    <3>1. 0 \in 0..MaxRequests /\ \A n \in taken[c] : n \in 0..MaxRequests
        BY <2>1, FlowAssumption DEF TypeOK
    <3>2. QED
        BY <1>1, <2>2, <3>1 DEF Stays, SaysNo, Takes, PassesOn
  <2>4. replies[c] \in Seq(0..MaxRequests)
    BY <2>1 DEF TypeOK
  <2>5. QED
    BY <2>3, <2>4, AppendFact
<1>2. FlowInv /\ [Next]_vars =>
        [\A c \in Clients : waiting[c] /\ ~waiting'[c] => Len(replies'[c]) > Len(replies[c])]_vars
    BY <1>1
<1>3. Spec => [][Next]_vars
    BY DEF Spec
<1>4. QED
    BY <1>2, <1>3, FlowHolds, PTL DEF WaitEndsWithReply
=============================================================================
