-------------------------------- MODULE RtuLink --------------------------------
(***************************************************************************)
(* The connection between a device and its session, byte by byte: the      *)
(* device program (main and heartbeat_handler of rtuemul/rtuemul.cpp), the *)
(* two TCP streams, and how the session cuts messages out of its stream    *)
(* again (start_child of src/main.cpp, RTUclient::run of src/rtu.cpp, recv *)
(* and peek of src/commsock.cpp and src/serversocket.cpp).                 *)
(*                                                                         *)
(* A byte is known by the message it was sent in and its place there.  The *)
(* first byte of a message is STX and no other byte is: site codes,        *)
(* commands, CRCs of seven bits and ETX never are, an address could only   *)
(* be if its low byte was 0xFA.                                            *)
(*                                                                         *)
(* Time is counted in the thirty seconds of the device's timer             *)
(* (HEARTBEAT_TIME), half of the session's (WAITING_SEC).  Everything that *)
(* is under way arrives, and is read, within such a period.                *)
(***************************************************************************)
EXTENDS Integers, Sequences

CONSTANTS
    Cuts,           \* bound: the offsets in a message at which TCP may cut it
    MaxBeats,       \* bound: times the device's timer expires
    MaxCommands     \* bound: commands for the device

ASSUME LinkAssumption ==
    /\ Cuts \in SUBSET (Nat \ {0})
    /\ MaxBeats \in Nat
    /\ MaxCommands \in Nat

-----------------------------------------------------------------------------
(* Messages.                                                                *)

Kinds == {"INIT_REQ", "INIT_RES", "HEART_BEAT", "HEART_BEAT_ACK", "COMMAND_RTU",
          "COMMAND_RTU_ACK"}

\* Mutant of length: COMMAND_RTU_ACK as COMMAND_RTU, without its result.
MutLengthNoResult ==
    [k \in Kinds |->
        CASE k = "INIT_REQ" -> 7
          [] k = "INIT_RES" -> 9
          [] k \in {"HEART_BEAT", "HEART_BEAT_ACK"} -> 0
          [] k \in {"COMMAND_RTU", "COMMAND_RTU_ACK"} -> 15]

\* The length each constructor puts into the header.
length ==
    [k \in Kinds |->
        CASE k = "INIT_REQ" -> 7
          [] k = "INIT_RES" -> 9
          [] k \in {"HEART_BEAT", "HEART_BEAT_ACK"} -> 0
          [] k = "COMMAND_RTU" -> 15
          [] k = "COMMAND_RTU_ACK" -> 16]

\* The packed fields: stx, cmd, two addresses and the length; crc8 and etx; between
\* them site code, address, commands and result.
MsgHeader == 1 + 1 + 2 + 2 + 2
MsgTail == 1 + 1
sizeof ==
    [k \in Kinds |-> MsgHeader + MsgTail +
        CASE k = "INIT_REQ" -> 7
          [] k = "INIT_RES" -> 7 + 2
          [] k \in {"HEART_BEAT", "HEART_BEAT_ACK"} -> 0
          [] k = "COMMAND_RTU" -> 7 + 4 + 4
          [] k = "COMMAND_RTU_ACK" -> 7 + 4 + 4 + 1]

Bytes == {b \in [kind : Kinds, at : 1..26] : b.at <= sizeof[b.kind]}
message(k) == [i \in 1..sizeof[k] |-> [kind |-> k, at |-> i]]

\* What a sequence of messages looks like in a stream.
Wire(msgs) ==
    LET f[i \in 0..Len(msgs)] == IF i = 0 THEN <<>> ELSE f[i - 1] \o message(msgs[i])
    IN  f[Len(msgs)]

IsStx(b) == b.at = 1
First(s, n) == SubSeq(s, 1, n)
Without(s, n) == SubSeq(s, n + 1, Len(s))
Smaller(m, n) == IF m < n THEN m ELSE n

\* The header in the n bytes at hand. The buffer was cleared, so the length reads 0
\* before its low byte, the seventh, is there.
lengthSeen(k, n) == IF n >= 7 THEN length[k] ELSE 0

\* The bytes up to where TCP may cut next.
Piece(s) ==
    LET k == s[1].kind
        stops == {c \in Cuts : s[1].at <= c /\ c < sizeof[k]} \cup {sizeof[k]}
        stop == CHOOSE c \in stops : \A d \in stops : c <= d
    IN  stop - s[1].at + 1

VARIABLES
    dpc,        \* the device: "connect", "read", "reply", "beat" or "dead"
    dAlarm,     \* its timer: "off", "fresh" or "due"
    bufCmd,     \* the type in its receive buffer, which is never cleared, or "none"
    mixed,      \* whether a heartbeat overwrote the beginning of the reply in sendbuf
    upNet,      \* bytes the device has sent and the server not received
    upBuf,      \* bytes received by the server and not read by the session
    downNet,
    downBuf,
    link,       \* the session's socket: "up", "closed", or "reset" once the device
                \* has sent to a closed one
    spc,        \* the session: "start", "peek" or "recv"
    msgSize,
    sAlarm,     \* its timer: "off", "fresh", "half" or "due"
    ready,      \* whether it has handled INIT_REQ
    beats,      \* times the device's timer has expired
    commands,   \* commands passed on to the device
    asked,      \* history: commands whose acknowledgement has not been handled
    pending,    \* history: messages sent by the device and not handled, if faults = {}
    faults      \* history: "torn" (a peek or a read saw a part of a message), "merged"
                \* (the device read two messages at once), "mixed" (it sent a mixture)

deviceVars == <<dpc, dAlarm, bufCmd, mixed>>
upVars == <<upNet, upBuf>>
downVars == <<downNet, downBuf>>
sessionVars == <<link, spc, msgSize, sAlarm, ready>>
countVars == <<beats, commands, asked>>
historyVars == <<pending, faults>>
vars == <<dpc, dAlarm, bufCmd, mixed, upNet, upBuf, downNet, downBuf, link, spc, msgSize,
          sAlarm, ready, beats, commands, asked, pending, faults>>

TypeOK ==
    /\ dpc \in {"connect", "read", "reply", "beat", "dead"}
    /\ dAlarm \in {"off", "fresh", "due"}
    /\ bufCmd \in Kinds \cup {"none"}
    /\ mixed \in BOOLEAN
    /\ upNet \in Seq(Bytes) /\ upBuf \in Seq(Bytes)
    /\ downNet \in Seq(Bytes) /\ downBuf \in Seq(Bytes)
    /\ link \in {"up", "closed", "reset"}
    /\ spc \in {"start", "peek", "recv"}
    /\ msgSize \in Nat
    /\ sAlarm \in {"off", "fresh", "half", "due"}
    /\ ready \in BOOLEAN
    /\ beats \in 0..MaxBeats
    /\ commands \in 0..MaxCommands
    /\ asked \in 0..MaxCommands
    /\ pending \in Seq(Kinds)
    /\ faults \in SUBSET {"torn", "merged", "mixed"}

Init ==
    /\ dpc = "connect" /\ dAlarm = "off" /\ bufCmd = "none" /\ mixed = FALSE
    /\ upNet = <<>> /\ upBuf = <<>> /\ downNet = <<>> /\ downBuf = <<>>
    /\ link = "up" /\ spc = "start" /\ msgSize = 0 /\ sAlarm = "off" /\ ready = FALSE
    /\ beats = 0 /\ commands = 0 /\ asked = 0
    /\ pending = <<>> /\ faults = {}

fault(f) == faults' = faults \cup f

\* What is pending is kept up only while nothing has gone wrong.
keep(msgs) == pending' = IF faults' = {} THEN msgs ELSE <<>>

-----------------------------------------------------------------------------
(* The network.                                                             *)

DeliverUp ==
    /\ upNet # <<>>
    /\ upBuf' = upBuf \o First(upNet, Piece(upNet))
    /\ upNet' = Without(upNet, Piece(upNet))
    /\ UNCHANGED <<deviceVars, downVars, sessionVars, countVars, historyVars>>

DeliverDown ==
    /\ downNet # <<>>
    /\ downBuf' = downBuf \o First(downNet, Piece(downNet))
    /\ downNet' = Without(downNet, Piece(downNet))
    /\ UNCHANGED <<deviceVars, upVars, sessionVars, countVars, historyVars>>

-----------------------------------------------------------------------------
(* The device.                                                              *)

\* send(): on a socket the session has closed the first one is answered with a
\* reset, and SIGPIPE ends the device at the next.
devSend(bytes, msgs, next) ==
    /\ upNet' = IF link = "up" THEN upNet \o bytes ELSE upNet
    /\ link' = IF link = "closed" THEN "reset" ELSE link
    /\ dpc' = IF link = "reset" THEN "dead" ELSE next
    /\ keep(pending \o msgs)
    /\ UNCHANGED <<upBuf, downNet, spc, msgSize, sAlarm, ready, countVars>>

devBeat(next) == devSend(message("HEART_BEAT"), <<"HEART_BEAT">>, next)

Connect ==
    /\ dpc = "connect"
    /\ UNCHANGED <<dAlarm, bufCmd, mixed, downBuf, faults>>
    /\ devSend(message("INIT_REQ"), <<"INIT_REQ">>, "read")

\* What is wrong with what a read() of the device returns, if it is to be one message.
readFault ==
    LET k == downBuf[1].kind
    IN  IF IsStx(downBuf[1]) /\ Len(downBuf) > sizeof[k] THEN {"merged"}
        ELSE IF downBuf # message(k) THEN {"torn"}
        ELSE {}

\* buffer[1] after a read: if one byte came it is what it was.
readCmd ==
    IF Len(downBuf) = 1 THEN bufCmd
    ELSE IF IsStx(downBuf[1]) THEN downBuf[1].kind ELSE "none"

\* One read() returns all there is; only the first message is looked at.
devRead ==
    /\ dpc = "read" /\ downBuf # <<>>
    /\ downBuf' = <<>>
    /\ bufCmd' = readCmd
    /\ fault(readFault) /\ keep(pending)
    /\ UNCHANGED <<mixed, upVars, downNet, sessionVars, countVars>>

devGets(kinds) == devRead /\ IsStx(downBuf[1]) /\ readCmd \in kinds

\* INIT_RES or HEART_BEAT_ACK: alarm(HEARTBEAT_TIME).
ReadAck ==
    /\ devGets({"INIT_RES", "HEART_BEAT_ACK"})
    /\ dAlarm' = "fresh"
    /\ UNCHANGED dpc

\* Mutant of ReadCommand: the acknowledgement is made and not sent.
MutReadCommandKeepsQuiet ==
    /\ devGets({"COMMAND_RTU"})
    /\ UNCHANGED <<dpc, dAlarm>>

\* A command: reqMessage puts the acknowledgement into sendbuf.
ReadCommand ==
    /\ devGets({"COMMAND_RTU"})
    /\ dpc' = "reply"
    /\ UNCHANGED dAlarm

\* More than one message overruns the local variable it is copied to, and may end
\* the device.
Overrun ==
    /\ devGets({"INIT_RES", "HEART_BEAT_ACK", "COMMAND_RTU"})
    /\ Len(downBuf) > sizeof[downBuf[1].kind]
    /\ dpc' = "dead"
    /\ UNCHANGED dAlarm

\* What does not begin with STX, or a byte whose type was never seen, is ignored.
ReadRest ==
    /\ devRead
    /\ ~IsStx(downBuf[1]) \/ readCmd = "none"
    /\ UNCHANGED <<dpc, dAlarm>>

\* read() returns 0 or an error when the session is gone: valread <= 0.
ReadNothing ==
    /\ dpc = "read" /\ downBuf = <<>> /\ downNet = <<>> /\ link # "up"
    /\ dpc' = "beat"
    /\ UNCHANGED <<dAlarm, bufCmd, mixed, upVars, downVars, sessionVars, countVars,
                   historyVars>>

\* Mutant of BeatAfterRead: the device only reads again.
MutReadAgain ==
    /\ dpc = "beat"
    /\ dpc' = "read"
    /\ UNCHANGED <<dAlarm, bufCmd, mixed, upVars, downVars, sessionVars, countVars,
                   historyVars>>

\* valread <= 0: a heartbeat is sent.
BeatAfterRead ==
    /\ dpc = "beat"
    /\ UNCHANGED <<dAlarm, bufCmd, mixed, downBuf, faults>>
    /\ devBeat("read")

\* send(sendbuf, 26), whatever is in sendbuf by now.
Reply ==
    /\ dpc = "reply"
    /\ fault(IF mixed THEN {"mixed"} ELSE {})
    /\ devSend(IF mixed THEN message("HEART_BEAT") \o
                             Without(message("COMMAND_RTU_ACK"), sizeof["HEART_BEAT"])
               ELSE message("COMMAND_RTU_ACK"), <<"COMMAND_RTU_ACK">>, "read")
    /\ mixed' = FALSE
    /\ UNCHANGED <<dAlarm, bufCmd, downBuf>>

\* SIGALRM in read(), which has no SA_RESTART: the handler sends a heartbeat, and
\* read() returns -1.
SigAlrmInRead ==
    /\ dpc = "read" /\ downBuf = <<>>
    /\ dAlarm = "due"
    /\ dAlarm' = "off"
    /\ UNCHANGED <<bufCmd, mixed, downBuf, faults>>
    /\ devBeat("beat")

\* SIGALRM elsewhere: between reqMessage and send it overwrites sendbuf.
SigAlrmElsewhere ==
    /\ dpc \in {"read", "reply"}
    /\ dAlarm = "due"
    /\ dAlarm' = "off"
    /\ UNCHANGED <<bufCmd, downBuf, faults>>
    /\ devBeat(dpc)
    /\ mixed' = (dpc = "reply")

PowerOff ==
    /\ dpc # "dead"
    /\ dpc' = "dead"
    /\ UNCHANGED <<dAlarm, bufCmd, mixed, upVars, downVars, sessionVars, countVars,
                   historyVars>>

-----------------------------------------------------------------------------
(* The session.                                                             *)

\* The first message has begun to arrive, and a part of it was seen.
upTorn == IF IsStx(upBuf[1]) /\ Len(upBuf) < sizeof[upBuf[1].kind] THEN {"torn"} ELSE {}

\* start_child peeks an INIT_REQ: the alarm is set and run() begins.
Start ==
    /\ link = "up" /\ spc = "start" /\ Len(upBuf) >= 2
    /\ spc' = "peek" /\ sAlarm' = "fresh"
    /\ fault(upTorn) /\ keep(pending)
    /\ UNCHANGED <<deviceVars, upVars, downVars, link, msgSize, ready, countVars>>

\* With one byte the type reads 0: an unknown message, and the child ends.
StartFails ==
    /\ link = "up" /\ spc = "start" /\ Len(upBuf) = 1
    /\ link' = "closed"
    /\ fault(upTorn) /\ keep(pending)
    /\ UNCHANGED <<deviceVars, upVars, downVars, spc, msgSize, sAlarm, ready, countVars>>

\* A command from the session's queue is passed on.
SendCommand ==
    /\ link = "up" /\ spc = "peek" /\ ready /\ commands < MaxCommands
    /\ commands' = commands + 1 /\ asked' = asked + 1
    /\ downNet' = downNet \o message("COMMAND_RTU")
    /\ UNCHANGED <<deviceVars, upVars, downBuf, sessionVars, beats, historyVars>>

\* How much is to be read: a message according to its header, or all there is.
Peek ==
    /\ link = "up" /\ spc = "peek" /\ upBuf # <<>>
    /\ msgSize' = IF IsStx(upBuf[1])
                  THEN MsgHeader + lengthSeen(upBuf[1].kind, Len(upBuf)) + MsgTail
                  ELSE Len(upBuf)
    /\ spc' = "recv"
    /\ fault(upTorn) /\ keep(pending)
    /\ UNCHANGED <<deviceVars, upVars, downVars, link, sAlarm, ready, countVars>>

\* recv() returns what is there by now, up to msgSize.
rcvByte == Smaller(msgSize, Len(upBuf))
recvKind == IF IsStx(upBuf[1]) /\ rcvByte >= 2 THEN upBuf[1].kind ELSE "unknown"

\* Mutant of recv: all there is is taken out, whatever is looked at.
MutRecvAll ==
    /\ link = "up" /\ spc = "recv"
    /\ spc' = "peek" /\ msgSize' = 0
    /\ upBuf' = <<>>
    /\ UNCHANGED <<deviceVars, upNet, downBuf, beats, commands, faults>>

\* Mutant of recv: what is still to come is counted, from all there is.
MutRecvCountsRest ==
    /\ link = "up" /\ spc = "recv"
    /\ spc' = "peek" /\ msgSize' = msgSize - Len(upBuf)
    /\ upBuf' = Without(upBuf, rcvByte)
    /\ UNCHANGED <<deviceVars, upNet, downBuf, beats, commands, faults>>

recv ==
    /\ link = "up" /\ spc = "recv"
    /\ spc' = "peek" /\ msgSize' = 0
    /\ upBuf' = Without(upBuf, rcvByte)
    /\ UNCHANGED <<deviceVars, upNet, downBuf, beats, commands, faults>>

\* Mutant of handle: without the assertion.
MutHandleAnySize(k) ==
    /\ recv /\ recvKind = k
    /\ keep(IF pending # <<>> /\ Head(pending) = k THEN Tail(pending) ELSE pending)
    /\ UNCHANGED link

\* A message is handled if recv() returned all of it.
handle(k) ==
    /\ recv /\ recvKind = k
    /\ rcvByte = sizeof[k]
    /\ keep(IF pending # <<>> /\ Head(pending) = k THEN Tail(pending) ELSE pending)
    /\ UNCHANGED link

\* Mutant of HandleInitReq: the alarm is cancelled.
MutInitReqAlarmOff ==
    /\ handle("INIT_REQ")
    /\ sAlarm' = "off" /\ ready' = TRUE
    /\ downNet' = downNet \o message("INIT_RES")
    /\ UNCHANGED asked

\* INIT_REQ: alarm(WAITING_SEC), answer, registration.
HandleInitReq ==
    /\ handle("INIT_REQ")
    /\ sAlarm' = "fresh" /\ ready' = TRUE
    /\ downNet' = downNet \o message("INIT_RES")
    /\ UNCHANGED asked

\* INIT_REQ of a site the database does not know: answered, and the session ends.
RefuseInitReq ==
    /\ recv /\ recvKind = "INIT_REQ" /\ rcvByte = sizeof["INIT_REQ"]
    /\ keep(pending)
    /\ downNet' = downNet \o message("INIT_RES")
    /\ link' = "closed"
    /\ UNCHANGED <<sAlarm, ready, asked>>

\* Mutant of HandleHeartBeat: it does not set the alarm again.
MutHeartBeatNoAlarm ==
    /\ handle("HEART_BEAT")
    /\ downNet' = downNet \o message("HEART_BEAT_ACK")
    /\ UNCHANGED <<sAlarm, ready, asked>>

\* HEART_BEAT: alarm(WAITING_SEC) and the acknowledgement.
HandleHeartBeat ==
    /\ handle("HEART_BEAT")
    /\ sAlarm' = "fresh"
    /\ downNet' = downNet \o message("HEART_BEAT_ACK")
    /\ UNCHANGED <<ready, asked>>

\* COMMAND_RTU_ACK goes to the client's queue.
HandleCommandAck ==
    /\ handle("COMMAND_RTU_ACK")
    /\ asked' = IF asked > 0 THEN asked - 1 ELSE 0
    /\ UNCHANGED <<sAlarm, ready, downNet>>

\* assert(rcvByte == sizeof(msg))
AssertionFails ==
    /\ recv /\ recvKind \in Kinds
    /\ rcvByte # sizeof[recvKind]
    /\ link' = "closed"
    /\ keep(pending)
    /\ UNCHANGED <<sAlarm, ready, downNet, asked>>

\* No STX, or an unknown type: what was read is dropped.
Discard ==
    /\ recv /\ recvKind = "unknown"
    /\ keep(pending)
    /\ UNCHANGED <<link, sAlarm, ready, downNet, asked>>

\* rtu_timeout_handler
SessionTimeout ==
    /\ link = "up" /\ sAlarm = "due"
    /\ link' = "closed"
    /\ UNCHANGED <<deviceVars, upVars, downVars, spc, msgSize, sAlarm, ready, countVars,
                   historyVars>>

\* A device that is gone resets the connection: peek() fails, or SIGPIPE.
PeerReset ==
    /\ link = "up" /\ dpc = "dead" /\ spc = "peek"
    /\ link' = "closed"
    /\ UNCHANGED <<deviceVars, upVars, downVars, spc, msgSize, sAlarm, ready, countVars,
                   historyVars>>

-----------------------------------------------------------------------------
(* Time.                                                                    *)

Idle ==
    /\ upNet = <<>> /\ upBuf = <<>> /\ spc # "recv"
    /\ \/ dpc = "dead"
       \/ dpc = "read" /\ downNet = <<>> /\ downBuf = <<>>

\* Thirty seconds pass.
Tick ==
    /\ Idle /\ link = "up"
    /\ dAlarm # "due" \/ dpc = "dead"
    /\ sAlarm \in {"fresh", "half"}
    /\ sAlarm' = IF sAlarm = "fresh" THEN "half" ELSE "due"
    /\ IF dAlarm = "fresh" /\ dpc # "dead"
       THEN beats < MaxBeats /\ beats' = beats + 1 /\ dAlarm' = "due"
       ELSE UNCHANGED <<beats, dAlarm>>
    /\ UNCHANGED <<dpc, bufCmd, mixed, upVars, downVars, link, spc, msgSize, ready, commands, asked,
                   historyVars>>

-----------------------------------------------------------------------------
DeviceStep ==
    \/ Connect \/ ReadAck \/ ReadCommand \/ ReadRest \/ ReadNothing \/ BeatAfterRead
    \/ Reply \/ SigAlrmInRead \/ SigAlrmElsewhere

SessionStep ==
    \/ Start \/ StartFails \/ Peek \/ HandleInitReq \/ HandleHeartBeat \/ HandleCommandAck
    \/ AssertionFails \/ Discard \/ SessionTimeout

Next ==
    \/ DeliverUp \/ DeliverDown \/ DeviceStep \/ Overrun \/ PowerOff
    \/ SessionStep \/ RefuseInitReq \/ SendCommand \/ PeerReset \/ Tick

\* Both programs go on, what is sent arrives, and time passes. Nobody has to turn
\* the device off or to send a command.
Fairness ==
    /\ WF_vars(DeliverUp) /\ WF_vars(DeliverDown)
    /\ WF_vars(DeviceStep) /\ WF_vars(SessionStep) /\ WF_vars(Tick)

Spec == Init /\ [][Next]_vars /\ Fairness
-----------------------------------------------------------------------------
\* However TCP cuts the stream, and whatever else is in it, the session acts on whole
\* messages only, each from its first byte to its last.
WholeMessages ==
    [][\A k \in Kinds : handle(k) => First(upBuf, rcvByte) = message(k)]_vars

\* As long as no peek saw a part of a message, the bytes are the messages: what is
\* unread is exactly what has been sent and not handled, in order.
NothingLost == link = "up" /\ faults = {} => upBuf \o upNet = Wire(pending)

\* A session gives up a device that lives only after something went wrong with a
\* message; messages that merely come late do not suffice.
TimeoutJustified == [][SessionTimeout => dpc = "dead" \/ faults # {}]_vars

\* A failed assertion ends a session only when TCP delivered a message in pieces: not
\* for late messages, nor for several at once, nor for the mixtures the device sends.
AssertionsHold == [][AssertionFails => "torn" \in faults]_vars

\* A command is acknowledged, unless something goes wrong with a message or one side
\* ends.
CommandAcknowledged ==
    asked > 0 ~> asked = 0 \/ faults # {} \/ dpc = "dead" \/ link # "up"

\* Neither side outlives the other: a session that has begun ends after its device,
\* and the device ends after the session.
SessionFollows == (dpc = "dead" /\ spc # "start") ~> link # "up"
DeviceFollows == link # "up" ~> dpc = "dead"
=============================================================================
