----------------------------- MODULE RtuLinkProofs -----------------------------
(***************************************************************************)
(* What is proved of RtuLink for every way TCP may cut the streams, any    *)
(* number of heartbeats and of commands: its types, that the session acts  *)
(* on whole messages, that nothing is lost, and when its assertion and its *)
(* timer may end it.                                                       *)
(***************************************************************************)
EXTENDS RtuLink, SequenceTheorems, WellFoundedInduction, TLAPS

\* The byte j places after the i-th of a stream is as many places on in its message, as
\* long as this goes on, and a stream ends with a whole message.
Chain(s) ==
    /\ \A i, j \in 1..Len(s) : i <= j /\ s[i].at + (j - i) <= sizeof[s[i].kind]
          => s[j] = [kind |-> s[i].kind, at |-> s[i].at + (j - i)]
    /\ s # <<>> => s[Len(s)].at = sizeof[s[Len(s)].kind]

\* What the session has not read, and what the device has not received.
Up == upBuf \o upNet
ChainInv == Chain(Up) /\ Chain(downNet)

\* Between a peek and the read what was seen stays there, and if it was a whole message
\* the read is to return that message.
RecvInv ==
    spc = "recv" =>
        /\ upBuf # <<>>
        /\ "torn" \notin faults /\ IsStx(upBuf[1])
              => msgSize = sizeof[upBuf[1].kind] /\ msgSize <= Len(upBuf)

\* The stream s is the messages msgs, the i-th of which begins after off[i] bytes.
Layout(s, msgs, off) ==
    /\ off \in [1..Len(msgs) + 1 -> 0..Len(s)]
    /\ off[1] = 0 /\ off[Len(msgs) + 1] = Len(s)
    /\ \A i, j \in 1..Len(msgs) + 1 : i <= j => off[i] <= off[j]
    /\ \A i \in 1..Len(msgs) :
          /\ off[i + 1] = off[i] + sizeof[msgs[i]]
          /\ \A j \in 1..sizeof[msgs[i]] : s[off[i] + j] = [kind |-> msgs[i], at |-> j]
PendingInv == link = "up" /\ faults = {} => \E off : Layout(Up, pending, off)

\* A message that sets the session's timer is under way, or one that sets the device's.
IsAck(b) == b.at = 1 /\ b.kind \in {"INIT_RES", "HEART_BEAT_ACK"}
HasAck(s) == \E i \in 1..Len(s) : IsAck(s[i])
AckComes == HasAck(downBuf) \/ HasAck(downNet)
HasBeat(msgs) == \E i \in 1..Len(msgs) : msgs[i] \in {"INIT_REQ", "HEART_BEAT"}
BeatComes == HasBeat(pending)

\* While nothing goes wrong: the device's timer is set unless such a message is under
\* way, the session's second half begins with the device's timer expired, and its timer
\* does not expire.
Fine == link = "up" /\ faults = {} /\ dpc # "dead"
TimerInv ==
    /\ dpc = "connect" => Up = <<>> /\ spc = "start"
    /\ spc = "start" => sAlarm = "off"
    /\ Fine => /\ dpc # "connect" /\ dAlarm = "off" => BeatComes \/ AckComes
               /\ sAlarm = "half" => ~AckComes /\ (dAlarm = "due" \/ BeatComes)
               /\ sAlarm # "due"

AskedInv == asked <= commands

StreamInv == TypeOK /\ ChainInv /\ RecvInv /\ AskedInv
LinkInv == StreamInv /\ PendingInv /\ TimerInv
-----------------------------------------------------------------------------
(* Messages and streams.                                                    *)

\* How long messages are, and that the header says so.
LEMMA SizeFact ==
    /\ \A k \in Kinds : sizeof[k] \in 10..26 /\ length[k] \in Nat
                        /\ MsgHeader + length[k] + MsgTail = sizeof[k]
    /\ sizeof["HEART_BEAT"] = 10 /\ sizeof["COMMAND_RTU_ACK"] = 26
BY DEF sizeof, length, Kinds, MsgHeader, MsgTail

\* Sizes are numbers.
LEMMA SizeNat == \A k \in Kinds : sizeof[k] \in Nat
<1> SUFFICES ASSUME NEW k \in Kinds PROVE sizeof[k] \in Nat
  OBVIOUS
<1> DEFINE z == sizeof[k]
<1>1. z \in 10..26
  BY SizeFact
<1> HIDE DEF z
<1>2. z \in Nat
  BY <1>1
<1>3. QED
  BY <1>2 DEF z

\* A byte lies within its message.
LEMMA ByteFact ==
    ASSUME NEW b \in Bytes
    PROVE  b.kind \in Kinds /\ b.at \in 1..26 /\ b.at \in Nat
           /\ sizeof[b.kind] \in 10..26 /\ sizeof[b.kind] \in Nat /\ b.at <= sizeof[b.kind]
<1>1. b.kind \in Kinds /\ b.at \in 1..26 /\ b.at <= sizeof[b.kind]
  BY DEF Bytes
<1>2. sizeof[b.kind] \in 10..26
  BY <1>1, SizeFact
<1>3. QED
  BY <1>1, <1>2

\* So do the bytes of a stream.
LEMMA ByteInFact ==
    ASSUME NEW s \in Seq(Bytes), NEW i \in 1..Len(s)
    PROVE  s[i] \in Bytes /\ s[i].kind \in Kinds /\ s[i].at \in Nat /\ s[i].at >= 1
           /\ sizeof[s[i].kind] \in Nat /\ sizeof[s[i].kind] >= 10
           /\ s[i].at <= sizeof[s[i].kind]
<1>1. s[i] \in Bytes
  BY ElementOfSeq
<1> DEFINE b == s[i]
<1> HIDE DEF b
<1>2. b \in Bytes
  BY <1>1 DEF b
<1>3. b.kind \in Kinds /\ b.at \in 1..26 /\ b.at <= sizeof[b.kind] /\ sizeof[b.kind] \in 10..26
  BY <1>2, ByteFact
<1>4. b.at \in Nat /\ b.at >= 1 /\ sizeof[b.kind] \in Nat /\ sizeof[b.kind] >= 10
  <2> DEFINE a == b.at
             z == sizeof[b.kind]
  <2>1. a \in 1..26 /\ z \in 10..26
    BY <1>3
  <2> HIDE DEF a, z
  <2>2. a \in Nat /\ a >= 1 /\ z \in Nat /\ z >= 10
    BY <2>1
  <2>3. QED
    BY <2>2 DEF a, z
<1>5. QED
  BY <1>2, <1>3, <1>4 DEF b

\* A message is a stream of its own, of sizeof bytes.
LEMMA MessageFact ==
    ASSUME NEW k \in Kinds
    PROVE  /\ message(k) \in Seq(Bytes) /\ Len(message(k)) = sizeof[k]
           /\ message(k) # <<>>
           /\ \A i \in 1..sizeof[k] : message(k)[i] = [kind |-> k, at |-> i]
           /\ Chain(message(k))
<1> DEFINE n == sizeof[k]
           m == message(k)
<1>1. n \in 10..26
  BY SizeFact
<1>2. \A i \in 1..n : [kind |-> k, at |-> i] \in Bytes
  BY <1>1 DEF Bytes
<1>3. m = [i \in 1..n |-> [kind |-> k, at |-> i]]
  BY DEF message
<1> HIDE DEF n, m
<1>4. m \in Seq(Bytes) /\ Len(m) = n
  BY <1>1, <1>2, <1>3
<1>5. \A i \in 1..n : m[i] = [kind |-> k, at |-> i]
  BY <1>3
<1>6. m # <<>>
  BY <1>1, <1>4
<1>7. ASSUME NEW i \in 1..n PROVE m[i].kind = k /\ m[i].at = i
  <2>1. m[i] = [kind |-> k, at |-> i]
    BY <1>5
  <2>2. QED
    BY <2>1
<1>8. Chain(m)
  <2>1. ASSUME NEW i \in 1..Len(m), NEW j \in 1..Len(m), i <= j
        PROVE  m[j] = [kind |-> m[i].kind, at |-> m[i].at + (j - i)]
    <3>1. i \in 1..n /\ j \in 1..n /\ i + (j - i) = j
      BY <1>1, <1>4
    <3>2. m[i].kind = k /\ m[i].at = i
      BY <1>7, <3>1
    <3>3. m[j] = [kind |-> k, at |-> j]
      BY <1>5, <3>1
    <3>4. QED
      BY <3>1, <3>2, <3>3
  <2>2. m[Len(m)].at = sizeof[m[Len(m)].kind]
    <3>1. n \in 1..n
      BY <1>1
    <3>2. m[n].kind = k /\ m[n].at = n
      BY <1>7, <3>1
    <3>3. QED
      BY <1>4, <3>2 DEF n
  <2>3. QED
    BY <2>1, <2>2 DEF Chain
<1>9. QED
  BY <1>4, <1>5, <1>6, <1>8 DEF n, m

\* The rest of a sequence, and its beginning.
LEMMA CutFact ==
    ASSUME NEW S, NEW s \in Seq(S), NEW n \in 0..Len(s)
    PROVE  /\ Without(s, n) \in Seq(S) /\ Len(Without(s, n)) = Len(s) - n
           /\ \A i \in 1..Len(s) - n : Without(s, n)[i] = s[n + i]
           /\ First(s, n) \in Seq(S) /\ Len(First(s, n)) = n
           /\ \A i \in 1..n : First(s, n)[i] = s[i]
<1>1. /\ Without(s, n) \in Seq(S) /\ Len(Without(s, n)) = Len(s) - n
      /\ \A i \in 1..Len(s) - n : Without(s, n)[i] = s[n + i]
  BY DEF Without
<1>2. /\ First(s, n) \in Seq(S) /\ Len(First(s, n)) = n
      /\ \A i \in 1..n : First(s, n)[i] = s[i]
  BY DEF First
<1>3. QED
  BY <1>1, <1>2

\* One sequence after another.
LEMMA JoinFact ==
    ASSUME NEW S, NEW s \in Seq(S), NEW u \in Seq(S)
    PROVE  /\ s \o u \in Seq(S) /\ Len(s \o u) = Len(s) + Len(u)
           /\ \A i \in 1..Len(s) : (s \o u)[i] = s[i]
           /\ \A i \in 1..Len(u) : (s \o u)[Len(s) + i] = u[i]
           /\ \A i \in 1..Len(s) + Len(u) :
                 (s \o u)[i] = IF i <= Len(s) THEN s[i] ELSE u[i - Len(s)]
           /\ Without(s \o u, Len(s)) = u
<1> DEFINE w == s \o u
<1>1. w \in Seq(S) /\ Len(w) = Len(s) + Len(u)
  OBVIOUS
<1>2. \A i \in 1..Len(s) + Len(u) : w[i] = IF i <= Len(s) THEN s[i] ELSE u[i - Len(s)]
  OBVIOUS
<1> HIDE DEF w
<1>3. Len(s) \in 0..Len(w) /\ Len(s) \in Nat /\ Len(u) \in Nat
  BY <1>1
<1> DEFINE n == Len(s)
           b == Without(w, n)
<1> HIDE DEF n
<1>0. n = Len(s) /\ n \in 0..Len(w) /\ Len(w) - n = Len(u)
  BY <1>1, <1>3 DEF n
<1>4. b \in Seq(S) /\ Len(b) = Len(w) - n /\ \A i \in 1..Len(w) - n : b[i] = w[n + i]
  BY <1>0, <1>1, CutFact
<1>5. \A i \in 1..Len(u) : w[Len(s) + i] = u[i]
  BY <1>2, <1>3
<1> HIDE DEF b
<1>6. b = u
  <2>1. Len(b) = Len(u) /\ \A i \in 1..Len(b) : b[i] = u[i]
    BY <1>0, <1>4, <1>5
  <2>2. QED
    BY <1>4, <2>1, SeqEqual
<1>7. \A i \in 1..Len(s) : w[i] = s[i]
  BY <1>2, <1>3
<1>8. QED
  BY <1>0, <1>1, <1>2, <1>5, <1>6, <1>7 DEF w, b

\* The same for streams.
LEMMA JoinBytes ==
    ASSUME NEW s \in Seq(Bytes), NEW u \in Seq(Bytes)
    PROVE  /\ s \o u \in Seq(Bytes) /\ Len(s \o u) = Len(s) + Len(u)
           /\ \A i \in 1..Len(s) : (s \o u)[i] = s[i]
           /\ \A i \in 1..Len(u) : (s \o u)[Len(s) + i] = u[i]
<1> DEFINE B == Bytes
<1>1. s \in Seq(B) /\ u \in Seq(B)
  OBVIOUS
<1> HIDE DEF B
<1>2. s \o u \in Seq(B) /\ Len(s \o u) = Len(s) + Len(u)
      /\ (\A i \in 1..Len(s) : (s \o u)[i] = s[i])
      /\ \A i \in 1..Len(u) : (s \o u)[Len(s) + i] = u[i]
  BY <1>1, JoinFact
<1>3. QED
  BY <1>2 DEF B

\* Cutting a stream.
LEMMA CutBytes ==
    ASSUME NEW s \in Seq(Bytes), NEW n \in 0..Len(s)
    PROVE  /\ Without(s, n) \in Seq(Bytes) /\ Len(Without(s, n)) = Len(s) - n
           /\ \A i \in 1..Len(s) - n : Without(s, n)[i] = s[n + i]
           /\ First(s, n) \in Seq(Bytes) /\ Len(First(s, n)) = n
           /\ \A i \in 1..n : First(s, n)[i] = s[i]
BY CutFact

\* Bytes that move from the front of one sequence to the end of another stay in place.
LEMMA MoveFact ==
    ASSUME NEW S, NEW s \in Seq(S), NEW u \in Seq(S), NEW n \in 0..Len(u)
    PROVE  (s \o First(u, n)) \o Without(u, n) = s \o u
<1> DEFINE a == First(u, n)
           b == Without(u, n)
<1>1. a \in Seq(S) /\ Len(a) = n /\ (\A i \in 1..n : a[i] = u[i])
      /\ b \in Seq(S) /\ Len(b) = Len(u) - n /\ (\A i \in 1..Len(u) - n : b[i] = u[n + i])
  BY CutFact
<1> HIDE DEF a, b
<1>2. a \o b = u
  <2>1. SubSeq(u, 1, n) \o SubSeq(u, n + 1, Len(u)) = SubSeq(u, 1, Len(u))
    <3>1. 1 \in 1..Len(u) + 1 /\ n \in 1 - 1..Len(u) /\ Len(u) \in n..Len(u)
      OBVIOUS
    <3>2. QED
      BY <3>1, ConcatAdjacentSubSeq
  <2>2. SubSeq(u, 1, Len(u)) = u
    BY SubSeqFull
  <2>3. QED
    BY <2>1, <2>2 DEF a, b, First, Without
<1>3. (s \o a) \o b = s \o (a \o b)
  <2>1. s \in Seq(S) /\ a \in Seq(S) /\ b \in Seq(S)
    BY <1>1
  <2>2. QED
    BY <2>1, ConcatAssociative
<1>4. QED
  BY <1>2, <1>3 DEF a, b

\* Taking from the front of what two sequences are together.
LEMMA TakeFact ==
    ASSUME NEW S, NEW s \in Seq(S), NEW u \in Seq(S), NEW n \in 0..Len(s)
    PROVE  Without(s, n) \o u = Without(s \o u, n)
<1> DEFINE a == Without(s, n)
           w == s \o u
           b == Without(w, n)
<1>1. a \in Seq(S) /\ Len(a) = Len(s) - n /\ \A i \in 1..Len(s) - n : a[i] = s[n + i]
  BY CutFact
<1>2. w \in Seq(S) /\ Len(w) = Len(s) + Len(u)
      /\ \A i \in 1..Len(s) + Len(u) : w[i] = IF i <= Len(s) THEN s[i] ELSE u[i - Len(s)]
  BY JoinFact
<1>3. n \in 0..Len(w) /\ Len(s) \in Nat /\ Len(u) \in Nat /\ n \in Nat /\ n <= Len(s)
  BY <1>2
<1>4. b \in Seq(S) /\ Len(b) = Len(w) - n /\ \A i \in 1..Len(w) - n : b[i] = w[n + i]
  <2> HIDE DEF w
  <2>1. w \in Seq(S) /\ n \in 0..Len(w)
    BY <1>2, <1>3
  <2>2. QED
    BY <2>1, CutFact
<1> HIDE DEF a, w, b
<1>5. a \o u \in Seq(S) /\ Len(a \o u) = Len(a) + Len(u)
      /\ \A i \in 1..Len(a) + Len(u) : (a \o u)[i] = IF i <= Len(a) THEN a[i] ELSE u[i - Len(a)]
  <2>1. a \in Seq(S)
    BY <1>1
  <2>2. QED
    BY <2>1, JoinFact
<1>6. Len(a \o u) = Len(b)
  BY <1>1, <1>2, <1>3, <1>4, <1>5
<1>7. ASSUME NEW i \in 1..Len(b) PROVE (a \o u)[i] = b[i]
  <2>1. i \in 1..Len(a) + Len(u) /\ i \in 1..Len(w) - n /\ n + i \in 1..Len(s) + Len(u)
    BY <1>1, <1>2, <1>3, <1>4, <1>5, <1>6
  <2>2. b[i] = IF n + i <= Len(s) THEN s[n + i] ELSE u[(n + i) - Len(s)]
    BY <1>2, <1>4, <2>1
  <2>3. (a \o u)[i] = IF i <= Len(a) THEN a[i] ELSE u[i - Len(a)]
    BY <1>5, <2>1
  <2>4. CASE i <= Len(a)
    BY <1>1, <1>3, <2>1, <2>2, <2>3, <2>4
  <2>5. CASE ~(i <= Len(a))
    <3>1. ~(n + i <= Len(s)) /\ (n + i) - Len(s) = i - Len(a)
      BY <1>1, <1>3, <2>1, <2>5
    <3>2. QED
      BY <2>2, <2>3, <2>5, <3>1
  <2>6. QED
    BY <2>4, <2>5
<1> DEFINE c == a \o u
<1> HIDE DEF c
<1>8. c = b
  <2>1. c \in Seq(S) /\ b \in Seq(S) /\ Len(c) = Len(b) /\ \A i \in 1..Len(c) : c[i] = b[i]
    BY <1>4, <1>5, <1>6, <1>7 DEF c
  <2>2. QED
    BY <2>1, SeqEqual
<1>9. QED
  BY <1>8 DEF a, b, c, w

\* From any byte of a stream its message goes on to its end.
LEMMA EnoughBytes ==
    ASSUME NEW s \in Seq(Bytes), Chain(s), NEW i \in 1..Len(s)
    PROVE  s[i].at + (Len(s) - i) >= sizeof[s[i].kind]
<1> DEFINE n == Len(s)
<1>1. n \in Nat /\ n \in 1..n /\ i <= n /\ s # <<>>
  OBVIOUS
<1>2. s[i].at \in Nat /\ sizeof[s[i].kind] \in Nat
  BY ByteInFact
<1>3. s[n].at = sizeof[s[n].kind]
  BY <1>1 DEF Chain
<1>4. SUFFICES ASSUME s[i].at + (n - i) < sizeof[s[i].kind] PROVE FALSE
  BY <1>1, <1>2
<1>5. s[n] = [kind |-> s[i].kind, at |-> s[i].at + (n - i)]
  <2>1. s[i].at + (n - i) <= sizeof[s[i].kind]
    BY <1>1, <1>2, <1>4
  <2> HIDE DEF n
  <2>2. QED
    BY <1>1, <2>1 DEF Chain, n
<1>6. s[n].kind = s[i].kind /\ s[n].at = s[i].at + (n - i)
  BY <1>5
<1>7. QED
  BY <1>1, <1>2, <1>3, <1>4, <1>6

\* A stream after a stream is a stream.
LEMMA ChainJoin ==
    ASSUME NEW s \in Seq(Bytes), NEW u \in Seq(Bytes), Chain(s), Chain(u)
    PROVE  Chain(s \o u)
<1> DEFINE w == s \o u
<1>1. /\ w \in Seq(Bytes) /\ Len(w) = Len(s) + Len(u)
      /\ \A i \in 1..Len(s) + Len(u) : w[i] = IF i <= Len(s) THEN s[i] ELSE u[i - Len(s)]
  BY JoinFact
<1>2. Len(s) \in Nat /\ Len(u) \in Nat
  OBVIOUS
<1> HIDE DEF w
<1>3. ASSUME NEW i \in 1..Len(w), NEW j \in 1..Len(w),
             i <= j, w[i].at + (j - i) <= sizeof[w[i].kind]
      PROVE  w[j] = [kind |-> w[i].kind, at |-> w[i].at + (j - i)]
  <2>1. CASE j <= Len(s)
    <3>1. i \in 1..Len(s) /\ j \in 1..Len(s) /\ w[i] = s[i] /\ w[j] = s[j]
      BY <1>1, <1>2, <1>3, <2>1
    <3>2. QED
      BY <1>3, <3>1 DEF Chain
  <2>2. CASE i > Len(s)
    <3>1. /\ i - Len(s) \in 1..Len(u) /\ j - Len(s) \in 1..Len(u)
          /\ w[i] = u[i - Len(s)] /\ w[j] = u[j - Len(s)]
          /\ i - Len(s) <= j - Len(s) /\ (j - Len(s)) - (i - Len(s)) = j - i
      BY <1>1, <1>2, <1>3, <2>2
    <3>2. QED
      BY <1>3, <3>1 DEF Chain
  <2>3. CASE i <= Len(s) /\ j > Len(s)
    <3>1. i \in 1..Len(s) /\ w[i] = s[i]
      BY <1>1, <1>2, <1>3, <2>3
    <3>3. s[i].at \in Nat /\ sizeof[s[i].kind] \in Nat
      BY <3>1, ByteInFact
    <3>4. s[i].at + (Len(s) - i) >= sizeof[s[i].kind]
      BY <3>1, EnoughBytes
    <3> DEFINE a == s[i].at
               z == sizeof[s[i].kind]
    <3>2. a + (j - i) <= z
      BY <1>3, <3>1
    <3> HIDE DEF a, z
    <3>5. ~(a + (j - i) <= z)
      <4>1. a \in Nat /\ z \in Nat /\ a + (Len(s) - i) >= z
        BY <3>3, <3>4 DEF a, z
      <4>2. i \in Nat /\ j \in Nat /\ j > Len(s)
        BY <1>1, <1>2, <2>3
      <4>3. QED
        BY <1>2, <4>1, <4>2
    <3>6. QED
      BY <3>2, <3>5
  <2>4. QED
    BY <1>1, <1>2, <2>1, <2>2, <2>3
<1>4. ASSUME w # <<>> PROVE w[Len(w)].at = sizeof[w[Len(w)].kind]
  <2>1. CASE u = <<>>
    <3>1. Len(u) = 0 /\ Len(w) = Len(s)
      BY <1>1, <1>2, <2>1
    <3>2. Len(w) # 0
      BY <1>1, <1>4, EmptySeq
    <3>3. s # <<>> /\ w[Len(w)] = s[Len(s)]
      BY <1>1, <1>2, <3>1, <3>2
    <3>4. QED
      BY <3>1, <3>3 DEF Chain
  <2>2. CASE u # <<>>
    <3>1. Len(u) # 0
      BY <2>2, EmptySeq
    <3>2. w[Len(w)] = u[Len(u)]
      BY <1>1, <1>2, <3>1
    <3>3. QED
      BY <2>2, <3>2 DEF Chain
  <2>3. QED
    BY <2>1, <2>2
<1>5. Chain(w)
  BY <1>3, <1>4 DEF Chain
<1>6. QED
  BY <1>5 DEF w

\* The rest of a stream is a stream.
LEMMA ChainCut ==
    ASSUME NEW s \in Seq(Bytes), Chain(s), NEW n \in 0..Len(s)
    PROVE  Chain(Without(s, n))
<1> DEFINE w == Without(s, n)
<1>1. w \in Seq(Bytes) /\ Len(w) = Len(s) - n /\ \A i \in 1..Len(s) - n : w[i] = s[n + i]
  BY CutFact
<1>2. Len(s) \in Nat /\ n \in Nat /\ n <= Len(s)
  OBVIOUS
<1> HIDE DEF w
<1>3. ASSUME NEW i \in 1..Len(w), NEW j \in 1..Len(w),
             i <= j, w[i].at + (j - i) <= sizeof[w[i].kind]
      PROVE  w[j] = [kind |-> w[i].kind, at |-> w[i].at + (j - i)]
  <2>1. /\ n + i \in 1..Len(s) /\ n + j \in 1..Len(s) /\ w[i] = s[n + i] /\ w[j] = s[n + j]
        /\ n + i <= n + j /\ (n + j) - (n + i) = j - i
    BY <1>1, <1>2, <1>3
  <2>2. QED
    BY <1>3, <2>1 DEF Chain
<1>4. ASSUME w # <<>> PROVE w[Len(w)].at = sizeof[w[Len(w)].kind]
  <2>1. Len(w) # 0
    BY <1>1, <1>4, EmptySeq
  <2>4. Len(w) \in 1..Len(s) - n /\ n + Len(w) = Len(s) /\ Len(s) # 0
    BY <1>1, <1>2, <2>1
  <2>5. s # <<>>
    BY <2>4, EmptySeq
  <2>2. w[Len(w)] = s[Len(s)] /\ s # <<>>
    BY <1>1, <2>4, <2>5
  <2>3. QED
    BY <2>2 DEF Chain
<1>5. Chain(w)
  BY <1>3, <1>4 DEF Chain
<1>6. QED
  BY <1>5 DEF w

\* A set of numbers has a least one.
LEMMA LeastExists ==
    ASSUME NEW S \in SUBSET Nat, S # {}
    PROVE  \E n \in S : \A k \in S : n <= k
<1> DEFINE Less == {ss \in Nat \X Nat : ss[1] < ss[2]}
<1>1. IsWellFoundedOn(Less, Nat)
  BY NatLessThanWellFounded DEF OpToRel
<1>2. \A k, n \in S : ~(<<k, n>> \in Less) => n <= k
  OBVIOUS
<1> HIDE DEF Less
<1>3. PICK n \in S : \A k \in S : ~(<<k, n>> \in Less)
  BY <1>1, WFMin
<1>4. \A k \in S : n <= k
  BY <1>2, <1>3
<1>5. QED
  BY <1>4

\* TCP delivers at least one byte, and no more than there are.
LEMMA PieceFact ==
    ASSUME NEW s \in Seq(Bytes), Chain(s), s # <<>>
    PROVE  Piece(s) \in 1..Len(s)
<1> DEFINE k == s[1].kind
           a == s[1].at
           stops == {c \in Cuts : a <= c /\ c < sizeof[k]} \cup {sizeof[k]}
           stop == CHOOSE c \in stops : \A d \in stops : c <= d
<1>1. Len(s) \in Nat /\ 1 \in 1..Len(s)
  OBVIOUS
<1>2. a \in Nat /\ sizeof[k] \in Nat /\ a <= sizeof[k]
  BY <1>1, ByteInFact
<1>3. stops \in SUBSET Nat /\ stops # {} /\ \A c \in stops : a <= c /\ c <= sizeof[k]
  <2> HIDE DEF a, k
  <2>1. Cuts \in SUBSET Nat
    BY LinkAssumption
  <2> DEFINE z == sizeof[k]
  <2>2. z \in Nat /\ a <= z /\ a \in Nat
    BY <1>2
  <2>3. stops = {c \in Cuts : a <= c /\ c < z} \cup {z}
    OBVIOUS
  <2> HIDE DEF z, stops
  <2>4. \A c \in stops : c \in Nat /\ a <= c /\ c <= z
    BY <2>1, <2>2, <2>3
  <2>5. z \in stops
    BY <2>3
  <2>6. QED
    BY <2>4, <2>5 DEF z
<1>4. a + (Len(s) - 1) >= sizeof[k]
  BY <1>1, EnoughBytes
<1>5. Piece(s) = stop - a + 1
  BY DEF Piece
<1> HIDE DEF stops, a, k
<1>6. \E n \in stops : \A c \in stops : n <= c
  BY <1>3, LeastExists
<1>7. stop \in stops
  BY <1>6
<1> HIDE DEF stop
<1>8. stop \in Nat /\ a <= stop /\ stop <= sizeof[k]
  BY <1>3, <1>7
<1>9. QED
  BY <1>1, <1>2, <1>4, <1>5, <1>8

-----------------------------------------------------------------------------
(* Streams and types.                                                       *)

\* What is unread, as one stream.
LEMMA UpFact ==
    ASSUME TypeOK, ChainInv
    PROVE  /\ Up \in Seq(Bytes) /\ Len(Up) = Len(upBuf) + Len(upNet)
           /\ Len(upBuf) \in Nat /\ Len(upNet) \in Nat
           /\ \A i \in 1..Len(upBuf) : Up[i] = upBuf[i]
           /\ Chain(upNet) /\ Chain(Up)
<1>1. upBuf \in Seq(Bytes) /\ upNet \in Seq(Bytes) /\ Chain(Up) /\ Len(upBuf) \in Nat
      /\ Len(upNet) \in Nat
  BY DEF TypeOK, ChainInv
<1>2. /\ Up \in Seq(Bytes) /\ Len(Up) = Len(upBuf) + Len(upNet)
      /\ \A i \in 1..Len(upBuf) : Up[i] = upBuf[i]
      /\ Without(Up, Len(upBuf)) = upNet
  BY <1>1, JoinFact DEF Up
<1>3. Len(upBuf) \in 0..Len(Up)
  BY <1>1, <1>2
<1>4. Chain(Without(Up, Len(upBuf)))
  BY <1>1, <1>2, <1>3, ChainCut
<1>5. QED
  BY <1>1, <1>2, <1>4

\* DeliverUp leaves the stream as it is, and what has been received where it is.
LEMMA DeliverUpEffect ==
    ASSUME TypeOK, ChainInv, DeliverUp
    PROVE  /\ upBuf' \in Seq(Bytes) /\ upNet' \in Seq(Bytes) /\ Up' = Up
           /\ Len(upBuf) \in Nat /\ Len(upBuf') >= Len(upBuf)
           /\ \A i \in 1..Len(upBuf) : upBuf'[i] = upBuf[i]
<1> DEFINE n == Piece(upNet)
           a == First(upNet, n)
<1>1. upBuf \in Seq(Bytes) /\ upNet \in Seq(Bytes) /\ upNet # <<>> /\ Chain(upNet)
      /\ Len(upBuf) \in Nat /\ Len(upNet) \in Nat
  BY UpFact DEF TypeOK, DeliverUp
<1>2. n \in 1..Len(upNet)
  BY <1>1, PieceFact
<1>3. upBuf' = upBuf \o a /\ upNet' = Without(upNet, n)
  BY DEF DeliverUp
<1> HIDE DEF n
<1>4. n \in 0..Len(upNet) /\ n \in Nat
  BY <1>1, <1>2
<1>5. a \in Seq(Bytes) /\ Len(a) = n /\ Without(upNet, n) \in Seq(Bytes)
  BY <1>1, <1>4, CutFact
<1>6. upBuf' \o upNet' = upBuf \o upNet
  BY <1>1, <1>3, <1>4, MoveFact
<1> HIDE DEF a
<1> DEFINE w == upBuf \o a
<1>7. w \in Seq(Bytes) /\ Len(w) = Len(upBuf) + Len(a)
      /\ \A i \in 1..Len(upBuf) : w[i] = upBuf[i]
  BY <1>1, <1>5, JoinBytes
<1>8. QED
  BY <1>1, <1>3, <1>4, <1>5, <1>6, <1>7 DEF Up

\* So does DeliverDown.
LEMMA DeliverDownEffect ==
    ASSUME TypeOK, ChainInv, DeliverDown
    PROVE  /\ downBuf' \in Seq(Bytes) /\ downNet' \in Seq(Bytes)
           /\ downBuf' \o downNet' = downBuf \o downNet /\ Chain(downNet')
<1> DEFINE n == Piece(downNet)
           a == First(downNet, n)
<1>1. downBuf \in Seq(Bytes) /\ downNet \in Seq(Bytes) /\ downNet # <<>> /\ Chain(downNet)
      /\ Len(downNet) \in Nat
  BY DEF TypeOK, DeliverDown, ChainInv
<1>2. n \in 1..Len(downNet)
  BY <1>1, PieceFact
<1>3. downBuf' = downBuf \o a /\ downNet' = Without(downNet, n)
  BY DEF DeliverDown
<1> HIDE DEF n
<1>4. n \in 0..Len(downNet) /\ n \in Nat
  BY <1>1, <1>2
<1>5. a \in Seq(Bytes) /\ Without(downNet, n) \in Seq(Bytes)
  BY <1>1, <1>4, CutFact
<1>6. downBuf' \o downNet' = downBuf \o downNet
  BY <1>1, <1>3, <1>4, MoveFact
<1>7. Chain(Without(downNet, n))
  BY <1>1, <1>4, ChainCut
<1> HIDE DEF a
<1>8. downBuf \o a \in Seq(Bytes)
  BY <1>1, <1>5
<1>9. QED
  BY <1>3, <1>5, <1>6, <1>7, <1>8

\* A send puts its bytes at the end of the stream, if the session still reads.
LEMMA SendEffect ==
    ASSUME TypeOK, ChainInv, NEW m \in Seq(Bytes), Chain(m), NEW msgs \in Seq(Kinds),
           NEW next \in {"read", "reply", "beat"}, devSend(m, msgs, next)
    PROVE  /\ upNet' \in Seq(Bytes) /\ upBuf' = upBuf
           /\ link = "up" => Up' = Up \o m
           /\ link # "up" => Up' = Up
           /\ Chain(Up')
           /\ pending' \in Seq(Kinds)
<1>1. upBuf \in Seq(Bytes) /\ upNet \in Seq(Bytes) /\ pending \in Seq(Kinds)
  BY DEF TypeOK
<1>2. upBuf' = upBuf /\ upNet' = IF link = "up" THEN upNet \o m ELSE upNet
  BY DEF devSend
<1>3. pending' \in Seq(Kinds)
  <2>1. pending' \in {pending \o msgs, <<>>}
    BY DEF devSend, keep
  <2>2. pending \o msgs \in Seq(Kinds)
    BY <1>1, ConcatProperties
  <2>3. <<>> \in Seq(Kinds)
    BY EmptySeq
  <2>4. QED
    BY <2>1, <2>2, <2>3
<1>4. Chain(Up) /\ Up \in Seq(Bytes)
  BY UpFact
<1>5. CASE link = "up"
  <2>1. upNet' = upNet \o m /\ upNet \o m \in Seq(Bytes)
    BY <1>1, <1>2, <1>5
  <2>2. upBuf \o (upNet \o m) = (upBuf \o upNet) \o m
    <3>1. upBuf \in Seq(Bytes) /\ upNet \in Seq(Bytes)
      BY <1>1
    <3>2. QED
      BY <3>1, ConcatAssociative
  <2>3. Up' = Up \o m
    BY <1>2, <2>1, <2>2 DEF Up
  <2>4. Chain(Up \o m)
    BY <1>4, ChainJoin
  <2>5. QED
    BY <1>2, <1>3, <1>5, <2>1, <2>3, <2>4
<1>6. CASE link # "up"
  <2>1. upNet' = upNet /\ Up' = Up
    BY <1>2, <1>6 DEF Up
  <2>2. QED
    BY <1>1, <1>2, <1>3, <1>4, <1>6, <2>1
<1>7. QED
  BY <1>5, <1>6

\* A read takes what it returns from the front of the stream.
LEMMA RecvEffect ==
    ASSUME TypeOK, ChainInv, RecvInv, recv
    PROVE  /\ upBuf # <<>> /\ 1 \in 1..Len(upBuf) /\ Len(upBuf) \in Nat
           /\ upBuf[1].kind \in Kinds
           /\ rcvByte \in 0..Len(upBuf)
           /\ upBuf' \in Seq(Bytes) /\ upNet' = upNet
           /\ rcvByte \in 0..Len(Up) /\ Up' = Without(Up, rcvByte) /\ Chain(Up')
<1>1. upBuf \in Seq(Bytes) /\ upNet \in Seq(Bytes) /\ msgSize \in Nat /\ upBuf # <<>>
      /\ Len(upBuf) \in Nat
  BY DEF TypeOK, RecvInv, recv
<1>2. 1 \in 1..Len(upBuf)
  BY <1>1, EmptySeq
<1>3. rcvByte \in 0..Len(upBuf)
  BY <1>1 DEF rcvByte, Smaller
<1>4. upBuf' = Without(upBuf, rcvByte) /\ upNet' = upNet
  BY DEF recv
<1>5. Without(upBuf, rcvByte) \in Seq(Bytes)
  BY <1>1, <1>3, CutFact
<1>6. Without(upBuf, rcvByte) \o upNet = Without(upBuf \o upNet, rcvByte)
  BY <1>1, <1>3, TakeFact
<1>7. rcvByte \in 0..Len(Up) /\ Up \in Seq(Bytes) /\ Chain(Up)
  BY <1>1, <1>3, UpFact
<1>8. Chain(Without(Up, rcvByte))
  BY <1>7, ChainCut
<1>9. upBuf[1].kind \in Kinds
  BY <1>1, <1>2, ByteInFact
<1>10. Up' = Without(Up, rcvByte)
  BY <1>4, <1>6 DEF Up
<1>11. QED
  BY <1>1, <1>2, <1>3, <1>4, <1>5, <1>7, <1>8, <1>9, <1>10

\* What a peek saw of a message is still there as long as nothing is read.
LEMMA RecvKept ==
    ASSUME RecvInv, spc' = spc, msgSize' = msgSize, upBuf' = upBuf, faults \subseteq faults'
    PROVE  RecvInv'
BY DEF RecvInv

\* The session's messages too go to the end of a stream.
LEMMA DownJoin ==
    ASSUME TypeOK, ChainInv, NEW k \in Kinds
    PROVE  downNet \o message(k) \in Seq(Bytes) /\ Chain(downNet \o message(k))
<1>1. downNet \in Seq(Bytes) /\ Chain(downNet)
  BY DEF TypeOK, ChainInv
<1>2. message(k) \in Seq(Bytes) /\ Chain(message(k))
  BY MessageFact
<1>3. QED
  BY <1>1, <1>2, ChainJoin, JoinFact

\* The network keeps what it carries.
LEMMA StreamDeliver ==
    ASSUME StreamInv, DeliverUp \/ DeliverDown
    PROVE  StreamInv'
<1> USE DEF StreamInv
<1>1. CASE DeliverUp
  <2>1. /\ upBuf' \in Seq(Bytes) /\ upNet' \in Seq(Bytes) /\ Up' = Up
        /\ Len(upBuf) \in Nat /\ Len(upBuf') >= Len(upBuf)
        /\ \A i \in 1..Len(upBuf) : upBuf'[i] = upBuf[i]
    BY <1>1, DeliverUpEffect
  <2>2. UNCHANGED <<deviceVars, downVars, sessionVars, countVars, historyVars>>
    BY <1>1 DEF DeliverUp
  <2>3. TypeOK'
    BY <2>1, <2>2 DEF TypeOK, deviceVars, downVars, sessionVars, countVars, historyVars
  <2>4. ChainInv'
    BY <2>1, <2>2 DEF ChainInv, downVars
  <2>5. RecvInv'
    <3>1. SUFFICES ASSUME spc = "recv"
                   PROVE  /\ upBuf' # <<>>
                          /\ "torn" \notin faults /\ IsStx(upBuf'[1])
                                => msgSize = sizeof[upBuf'[1].kind] /\ msgSize <= Len(upBuf')
      BY <2>2 DEF RecvInv, sessionVars, historyVars
    <3>2. upBuf # <<>> /\ upBuf \in Seq(Bytes)
      BY <3>1 DEF RecvInv, TypeOK
    <3>3. 1 \in 1..Len(upBuf) /\ Len(upBuf') # 0
      BY <2>1, <3>2, EmptySeq
    <3>4. upBuf'[1] = upBuf[1] /\ upBuf' # <<>>
      BY <2>1, <3>3, EmptySeq
    <3>5. "torn" \notin faults /\ IsStx(upBuf[1])
             => msgSize = sizeof[upBuf[1].kind] /\ msgSize <= Len(upBuf)
      BY <3>1 DEF RecvInv
    <3>6. Len(upBuf') \in Nat /\ msgSize \in Nat
      BY <2>1 DEF TypeOK
    <3>7. msgSize <= Len(upBuf) => msgSize <= Len(upBuf')
      BY <2>1, <3>6
    <3>8. QED
      BY <3>4, <3>5, <3>7
  <2>6. AskedInv'
    BY <2>2 DEF AskedInv, countVars
  <2>7. QED
    BY <2>3, <2>4, <2>5, <2>6
<1>2. CASE DeliverDown
  <2>1. downBuf' \in Seq(Bytes) /\ downNet' \in Seq(Bytes) /\ Chain(downNet')
    BY <1>2, DeliverDownEffect
  <2>2. UNCHANGED <<deviceVars, upVars, sessionVars, countVars, historyVars>>
    BY <1>2 DEF DeliverDown
  <2>3. TypeOK'
    BY <2>1, <2>2 DEF TypeOK, deviceVars, upVars, sessionVars, countVars, historyVars
  <2>4. ChainInv'
    BY <2>1, <2>2 DEF ChainInv, upVars, Up
  <2>5. RecvInv'
    BY <2>2, RecvKept DEF upVars, sessionVars, historyVars
  <2>6. AskedInv'
    BY <2>2 DEF AskedInv, countVars
  <2>7. QED
    BY <2>3, <2>4, <2>5, <2>6
<1>3. QED
  BY <1>1, <1>2

\* The device's read takes everything out of its buffer.
LEMMA StreamDevRead ==
    ASSUME StreamInv, ReadAck \/ ReadCommand \/ ReadRest \/ Overrun
    PROVE  StreamInv'
<1> USE DEF StreamInv
<1>1. devRead /\ dpc' \in {dpc, "reply", "dead"} /\ dAlarm' \in {dAlarm, "fresh"}
  BY DEF ReadAck, ReadCommand, ReadRest, Overrun, devGets
<1>2. /\ downBuf # <<>> /\ downBuf' = <<>> /\ bufCmd' = readCmd
      /\ faults' = faults \cup readFault
      /\ pending' \in {pending, <<>>}
      /\ UNCHANGED <<mixed, upVars, downNet, sessionVars, countVars>>
  BY <1>1 DEF devRead, fault, keep
<1>3. readCmd \in Kinds \cup {"none"}
  <2>1. downBuf \in Seq(Bytes) /\ bufCmd \in Kinds \cup {"none"}
    BY DEF TypeOK
  <2>2. 1 \in 1..Len(downBuf)
    BY <1>2, <2>1, EmptySeq
  <2>3. downBuf[1].kind \in Kinds
    BY <2>1, <2>2, ByteInFact
  <2>4. QED
    BY <2>1, <2>3 DEF readCmd
<1>4. readFault \in SUBSET {"torn", "merged"}
  BY DEF readFault
<1>5. <<>> \in Seq(Bytes) /\ <<>> \in Seq(Kinds)
  BY EmptySeq
<1>6. TypeOK'
  <2>1. pending' \in Seq(Kinds) /\ downBuf' \in Seq(Bytes) /\ faults' \in SUBSET {"torn", "merged", "mixed"}
    BY <1>2, <1>4, <1>5 DEF TypeOK
  <2>2. dpc' \in {"connect", "read", "reply", "beat", "dead"} /\ dAlarm' \in {"off", "fresh", "due"}
    BY <1>1 DEF TypeOK
  <2>3. QED
    BY <1>2, <1>3, <2>1, <2>2 DEF TypeOK, upVars, sessionVars, countVars
<1>7. ChainInv'
  BY <1>2 DEF ChainInv, upVars, Up
<1>8. RecvInv'
  BY <1>2, RecvKept DEF upVars, sessionVars
<1>9. AskedInv'
  BY <1>2 DEF AskedInv, countVars
<1>10. QED
  BY <1>6, <1>7, <1>8, <1>9

\* A reply that a heartbeat has overwritten in part is a heartbeat and the rest of an
\* acknowledgement.
Mixture == message("HEART_BEAT") \o Without(message("COMMAND_RTU_ACK"), sizeof["HEART_BEAT"])

\* To TCP the mixture is a stream like any other.
LEMMA MixtureFact == Mixture \in Seq(Bytes) /\ Chain(Mixture)
<1> DEFINE a == message("HEART_BEAT")
           c == message("COMMAND_RTU_ACK")
           n == sizeof["HEART_BEAT"]
<1>1. "HEART_BEAT" \in Kinds /\ "COMMAND_RTU_ACK" \in Kinds
  BY DEF Kinds
<1>2. a \in Seq(Bytes) /\ Chain(a)
  BY <1>1, MessageFact
<1>3. c \in Seq(Bytes) /\ Chain(c) /\ Len(c) = sizeof["COMMAND_RTU_ACK"]
  BY <1>1, MessageFact
<1>4. n \in 0..Len(c)
  <2>1. n = 10 /\ Len(c) = 26
    BY <1>3, SizeFact
  <2> HIDE DEF n, c
  <2>2. QED
    BY <2>1
<1> HIDE DEF a, c, n
<1> DEFINE b == Without(c, n)
<1>5. b \in Seq(Bytes)
  BY <1>3, <1>4, CutFact
<1>6. Chain(b)
  BY <1>3, <1>4, ChainCut
<1> HIDE DEF b
<1>7. a \o b \in Seq(Bytes) /\ Chain(a \o b)
  BY <1>2, <1>5, <1>6, ChainJoin, JoinFact
<1>8. QED
  BY <1>7 DEF Mixture, a, b, c, n

\* What the device sends is made of messages and pieces of them.
LEMMA Sends ==
    ASSUME TypeOK, Connect \/ BeatAfterRead \/ SigAlrmInRead \/ SigAlrmElsewhere \/ Reply
    PROVE  \E m \in Seq(Bytes), k \in Kinds, next \in {"read", "reply", "beat"} :
              /\ Chain(m) /\ devSend(m, <<k>>, next)
              /\ m = message(k) \/ faults' # {}
<1>1. "INIT_REQ" \in Kinds /\ "HEART_BEAT" \in Kinds /\ "COMMAND_RTU_ACK" \in Kinds
  BY DEF Kinds
<1>2. \A k \in Kinds : message(k) \in Seq(Bytes) /\ Chain(message(k))
  BY MessageFact
<1>3. CASE Connect
  <2>1. devSend(message("INIT_REQ"), <<"INIT_REQ">>, "read")
    BY <1>3 DEF Connect
  <2>2. QED
    BY <1>1, <1>2, <2>1
<1>4. CASE BeatAfterRead \/ SigAlrmInRead \/ SigAlrmElsewhere
  <2>1. \E next \in {"read", "reply", "beat"} : devBeat(next)
    BY <1>4 DEF BeatAfterRead, SigAlrmInRead, SigAlrmElsewhere
  <2>2. PICK next \in {"read", "reply", "beat"} : devBeat(next)
    BY <2>1
  <2>3. devSend(message("HEART_BEAT"), <<"HEART_BEAT">>, next)
    BY <2>2 DEF devBeat
  <2>4. QED
    BY <1>1, <1>2, <2>3
<1>5. CASE Reply /\ mixed
  <2>1. devSend(Mixture, <<"COMMAND_RTU_ACK">>, "read") /\ faults' # {}
    BY <1>5 DEF Reply, Mixture, fault
  <2>2. QED
    BY <1>1, <2>1, MixtureFact
<1>6. CASE Reply /\ ~mixed
  <2>1. devSend(message("COMMAND_RTU_ACK"), <<"COMMAND_RTU_ACK">>, "read")
    BY <1>6 DEF Reply
  <2>2. QED
    BY <1>1, <1>2, <2>1
<1>7. QED
  BY <1>3, <1>4, <1>5, <1>6

\* What sending leaves alone, and its faults.
LEMMA SendsFrame ==
    ASSUME TypeOK, Connect \/ BeatAfterRead \/ SigAlrmInRead \/ SigAlrmElsewhere \/ Reply
    PROVE  /\ dAlarm' \in {dAlarm, "off"} /\ bufCmd' = bufCmd /\ mixed' \in BOOLEAN
           /\ downBuf' = downBuf
           /\ faults \subseteq faults' /\ faults' \in SUBSET {"torn", "merged", "mixed"}
BY DEF TypeOK, Connect, BeatAfterRead, SigAlrmInRead, SigAlrmElsewhere, Reply, fault

\* Whatever the device sends, the streams stay streams.
LEMMA StreamSend ==
    ASSUME StreamInv, Connect \/ BeatAfterRead \/ SigAlrmInRead \/ SigAlrmElsewhere \/ Reply
    PROVE  StreamInv'
<1> USE DEF StreamInv
<1>1. PICK m \in Seq(Bytes), k \in Kinds, next \in {"read", "reply", "beat"} :
         Chain(m) /\ devSend(m, <<k>>, next)
  BY Sends
<1>2. <<k>> \in Seq(Kinds)
  OBVIOUS
<1>3. upNet' \in Seq(Bytes) /\ upBuf' = upBuf /\ Chain(Up') /\ pending' \in Seq(Kinds)
  BY <1>1, <1>2, SendEffect
<1>4. /\ link' \in {link, "reset"} /\ dpc' \in {"dead", next}
      /\ UNCHANGED <<downNet, spc, msgSize, sAlarm, ready, countVars>>
  BY <1>1 DEF devSend
<1>5. TypeOK'
  <2>1. link' \in {"up", "closed", "reset"} /\ dpc' \in {"connect", "read", "reply", "beat", "dead"}
        /\ dAlarm' \in {"off", "fresh", "due"}
    BY <1>4, SendsFrame DEF TypeOK
  <2>2. QED
    BY <1>3, <1>4, <2>1, SendsFrame DEF TypeOK, countVars
<1>6. ChainInv'
  BY <1>3, <1>4 DEF ChainInv
<1>7. RecvInv'
  BY <1>3, <1>4, SendsFrame, RecvKept
<1>8. AskedInv'
  BY <1>4 DEF AskedInv, countVars
<1>9. QED
  BY <1>5, <1>6, <1>7, <1>8

\* Whatever the session does with what it has read.
LEMMA RecvCases ==
    ASSUME TypeOK, HandleInitReq \/ HandleHeartBeat \/ HandleCommandAck \/ RefuseInitReq
                   \/ AssertionFails \/ Discard
    PROVE  /\ recv
           /\ pending' \in {pending, <<>>} \/ (pending # <<>> /\ pending' = Tail(pending))
           /\ link' \in {link, "closed"} /\ sAlarm' \in {sAlarm, "fresh"}
           /\ ready' \in {ready, TRUE}
           /\ downNet' = downNet \/ \E k \in Kinds : downNet' = downNet \o message(k)
           /\ asked' \in 0..asked
<1> USE DEF keep
<1>1. "INIT_RES" \in Kinds /\ "HEART_BEAT_ACK" \in Kinds
  BY DEF Kinds
<1>2. asked \in Nat
  BY LinkAssumption DEF TypeOK
<1>3. asked \in 0..asked /\ (IF asked > 0 THEN asked - 1 ELSE 0) \in 0..asked
  BY <1>2
<1>4. CASE HandleInitReq
  BY <1>1, <1>3, <1>4 DEF HandleInitReq, handle
<1>5. CASE HandleHeartBeat
  BY <1>1, <1>3, <1>5 DEF HandleHeartBeat, handle
<1>6. CASE HandleCommandAck
  BY <1>3, <1>6 DEF HandleCommandAck, handle
<1>7. CASE RefuseInitReq
  BY <1>1, <1>3, <1>7 DEF RefuseInitReq
<1>8. CASE AssertionFails
  BY <1>3, <1>8 DEF AssertionFails
<1>9. CASE Discard
  BY <1>3, <1>9 DEF Discard
<1>10. QED
  BY <1>4, <1>5, <1>6, <1>7, <1>8, <1>9

\* Whatever the session reads, the streams stay streams.
LEMMA StreamRecv ==
    ASSUME StreamInv, HandleInitReq \/ HandleHeartBeat \/ HandleCommandAck \/ RefuseInitReq
                      \/ AssertionFails \/ Discard
    PROVE  StreamInv'
<1> USE DEF StreamInv
<1>1. recv
  BY RecvCases
<1>2. upBuf' \in Seq(Bytes) /\ upNet' = upNet /\ Chain(Up')
  BY <1>1, RecvEffect
<1>3. /\ spc' = "peek" /\ msgSize' = 0
      /\ UNCHANGED <<deviceVars, upNet, downBuf, beats, commands, faults>>
  BY <1>1 DEF recv
<1>4. pending' \in Seq(Kinds)
  <2>1. pending \in Seq(Kinds) /\ <<>> \in Seq(Kinds)
    BY EmptySeq DEF TypeOK
  <2>2. pending # <<>> => Tail(pending) \in Seq(Kinds)
    BY <2>1, HeadTailProperties
  <2>3. pending' \in {pending, <<>>} \/ (pending # <<>> /\ pending' = Tail(pending))
    BY RecvCases
  <2>4. QED
    BY <2>1, <2>2, <2>3
<1>5. downNet' \in Seq(Bytes) /\ Chain(downNet')
  <2>1. downNet' = downNet \/ \E k \in Kinds : downNet' = downNet \o message(k)
    BY RecvCases
  <2>2. downNet \in Seq(Bytes) /\ Chain(downNet)
    BY DEF TypeOK, ChainInv
  <2>3. \A k \in Kinds : downNet \o message(k) \in Seq(Bytes) /\ Chain(downNet \o message(k))
    BY DownJoin
  <2>4. QED
    BY <2>1, <2>2, <2>3
<1>6. asked' \in 0..MaxCommands /\ AskedInv'
  <2>1. asked \in 0..MaxCommands /\ commands \in 0..MaxCommands /\ asked <= commands
        /\ MaxCommands \in Nat
    BY LinkAssumption DEF TypeOK, AskedInv
  <2>2. asked' \in 0..asked /\ commands' = commands
    BY <1>3, RecvCases
  <2>3. QED
    BY <2>1, <2>2 DEF AskedInv
<1>7. link' \in {"up", "closed", "reset"} /\ sAlarm' \in {"off", "fresh", "half", "due"}
      /\ ready' \in BOOLEAN
  BY RecvCases DEF TypeOK
<1>8. TypeOK'
  BY <1>2, <1>3, <1>4, <1>5, <1>6, <1>7 DEF TypeOK, deviceVars
<1>9. RecvInv'
  BY <1>3 DEF RecvInv
<1>10. QED
  BY <1>2, <1>5, <1>6, <1>8, <1>9 DEF ChainInv

\* A peek that saw a whole message is followed by a read of it.
LEMMA PeekEffect ==
    ASSUME StreamInv, Peek
    PROVE  RecvInv' /\ msgSize' \in Nat
<1> USE DEF StreamInv
<1> DEFINE k == upBuf[1].kind
           n == Len(upBuf)
<1>1. /\ upBuf # <<>> /\ spc' = "recv" /\ faults' = faults \cup upTorn /\ upBuf' = upBuf
      /\ msgSize' = IF IsStx(upBuf[1]) THEN MsgHeader + lengthSeen(k, n) + MsgTail ELSE n
  BY DEF Peek, fault, upVars
<1>2. upBuf \in Seq(Bytes) /\ 1 \in 1..Len(upBuf) /\ n \in Nat
  BY <1>1, EmptySeq DEF TypeOK
<1>3. k \in Kinds
  BY <1>2, ByteInFact
<1>4. /\ length[k] \in Nat /\ MsgHeader + length[k] + MsgTail = sizeof[k]
      /\ sizeof[k] \in 10..26
  BY <1>3, SizeFact
<1>5. msgSize' \in Nat
  <2> HIDE DEF k, n
  <2>1. lengthSeen(k, n) \in Nat
    BY <1>4 DEF lengthSeen
  <2>2. QED
    BY <1>1, <1>2, <2>1 DEF MsgHeader, MsgTail
<1>6. ASSUME "torn" \notin faults', IsStx(upBuf[1])
      PROVE  msgSize' = sizeof[k] /\ msgSize' <= n
  <2>1. ~(n < sizeof[k])
    <3>1. "torn" \notin upTorn
      BY <1>1, <1>6
    <3>2. QED
      BY <1>6, <3>1 DEF upTorn
  <2>2. msgSize' = MsgHeader + lengthSeen(k, n) + MsgTail
    BY <1>1, <1>6
  <2> DEFINE z == sizeof[k]
  <2>3. ~(n < z) /\ z \in 10..26 /\ n \in Nat
    BY <1>2, <1>4, <2>1
  <2> HIDE DEF k, n, z
  <2>4. n >= 7 /\ z <= n
    BY <2>3
  <2>5. lengthSeen(k, n) = length[k]
    BY <2>4 DEF lengthSeen
  <2>6. QED
    BY <1>4, <2>2, <2>4, <2>5 DEF z
<1>7. RecvInv'
  BY <1>1, <1>6 DEF RecvInv
<1>8. QED
  BY <1>5, <1>7

\* The other steps of the session, time and the end of the device do not touch them.
LEMMA StreamSession ==
    ASSUME StreamInv, Start \/ StartFails \/ SendCommand \/ Peek \/ SessionTimeout
                      \/ PeerReset \/ Tick \/ PowerOff \/ ReadNothing \/ UNCHANGED vars
    PROVE  StreamInv'
<1> USE DEF StreamInv
<1>1. <<>> \in Seq(Kinds)
  BY EmptySeq
<1>2. CASE Start \/ StartFails
  <2>1. /\ upBuf # <<>> /\ faults' = faults \cup upTorn /\ pending' \in {pending, <<>>}
        /\ link' \in {link, "closed"} /\ sAlarm' \in {sAlarm, "fresh"}
        /\ spc' \in {spc, "peek"} /\ (spc' = "recv" => spc = "recv")
        /\ UNCHANGED <<deviceVars, upVars, downVars, msgSize, ready, countVars>>
    <3>1. upBuf \in Seq(Bytes)
      BY DEF TypeOK
    <3>2. Len(upBuf) # 0
      BY <1>2, <3>1 DEF Start, StartFails
    <3>3. upBuf # <<>>
      BY <3>2, EmptySeq
    <3>4. QED
      BY <1>2, <3>3 DEF Start, StartFails, fault, keep
  <2>2. upTorn \in SUBSET {"torn", "merged", "mixed"}
    BY DEF upTorn
  <2>3. TypeOK'
    <3>1. faults' \in SUBSET {"torn", "merged", "mixed"} /\ pending' \in Seq(Kinds)
      BY <1>1, <2>1, <2>2 DEF TypeOK
    <3>2. link' \in {"up", "closed", "reset"} /\ spc' \in {"start", "peek", "recv"}
          /\ sAlarm' \in {"off", "fresh", "half", "due"}
      BY <2>1 DEF TypeOK
    <3>3. QED
      BY <2>1, <3>1, <3>2 DEF TypeOK, deviceVars, upVars, downVars, countVars
  <2>4. ChainInv' /\ AskedInv'
    BY <2>1 DEF ChainInv, AskedInv, upVars, downVars, countVars, Up
  <2>5. RecvInv'
    BY <2>1 DEF RecvInv, upVars
  <2>6. QED
    BY <2>3, <2>4, <2>5
<1>3. CASE SendCommand
  <2>1. /\ commands < MaxCommands /\ commands' = commands + 1 /\ asked' = asked + 1
        /\ downNet' = downNet \o message("COMMAND_RTU")
        /\ UNCHANGED <<deviceVars, upVars, downBuf, sessionVars, beats, historyVars>>
    BY <1>3 DEF SendCommand
  <2>2. downNet' \in Seq(Bytes) /\ Chain(downNet')
    BY <2>1, DownJoin DEF Kinds
  <2>3. asked' \in 0..MaxCommands /\ commands' \in 0..MaxCommands /\ asked' <= commands'
    <3>1. asked \in 0..MaxCommands /\ commands \in 0..MaxCommands /\ asked <= commands
          /\ MaxCommands \in Nat
      BY LinkAssumption DEF TypeOK, AskedInv
    <3>2. QED
      BY <2>1, <3>1
  <2>4. TypeOK'
    BY <2>1, <2>2, <2>3 DEF TypeOK, deviceVars, upVars, sessionVars, historyVars
  <2>5. ChainInv' /\ AskedInv'
    BY <2>1, <2>2, <2>3 DEF ChainInv, AskedInv, upVars, Up
  <2>6. RecvInv'
    BY <2>1, RecvKept DEF upVars, sessionVars, historyVars
  <2>7. QED
    BY <2>4, <2>5, <2>6
<1>4. CASE Peek
  <2>1. RecvInv' /\ msgSize' \in Nat
    BY <1>4, PeekEffect
  <2>2. /\ faults' = faults \cup upTorn /\ pending' \in {pending, <<>>} /\ spc' = "recv"
        /\ UNCHANGED <<deviceVars, upVars, downVars, link, sAlarm, ready, countVars>>
    BY <1>4 DEF Peek, fault, keep
  <2>3. upTorn \in SUBSET {"torn", "merged", "mixed"}
    BY DEF upTorn
  <2>4. TypeOK'
    <3>1. faults' \in SUBSET {"torn", "merged", "mixed"} /\ pending' \in Seq(Kinds)
      BY <1>1, <2>2, <2>3 DEF TypeOK
    <3>2. QED
      BY <2>1, <2>2, <3>1 DEF TypeOK, deviceVars, upVars, downVars, countVars
  <2>5. ChainInv' /\ AskedInv'
    BY <2>2 DEF ChainInv, AskedInv, upVars, downVars, countVars, Up
  <2>6. QED
    BY <2>1, <2>4, <2>5
<1>5. CASE Tick
  <2>1. /\ sAlarm' \in {"half", "due"} /\ dAlarm' \in {dAlarm, "due"}
        /\ beats' = beats \/ (beats < MaxBeats /\ beats' = beats + 1)
        /\ UNCHANGED <<dpc, bufCmd, mixed, upVars, downVars, link, spc, msgSize, ready,
                       commands, asked, historyVars>>
    BY <1>5 DEF Tick
  <2>2. beats' \in 0..MaxBeats
    <3>1. beats \in 0..MaxBeats /\ MaxBeats \in Nat
      BY LinkAssumption DEF TypeOK
    <3>2. QED
      BY <2>1, <3>1
  <2>3. TypeOK'
    BY <2>1, <2>2 DEF TypeOK, upVars, downVars, historyVars
  <2>4. ChainInv' /\ AskedInv'
    BY <2>1 DEF ChainInv, AskedInv, upVars, downVars, Up
  <2>5. RecvInv'
    BY <2>1, RecvKept DEF upVars, historyVars
  <2>6. QED
    BY <2>3, <2>4, <2>5
<1>6. CASE SessionTimeout \/ PeerReset \/ PowerOff \/ ReadNothing \/ UNCHANGED vars
  <2>1. /\ link' \in {link, "closed"} /\ dpc' \in {dpc, "dead", "beat"}
        /\ UNCHANGED <<dAlarm, bufCmd, mixed, upVars, downVars, spc, msgSize, sAlarm, ready,
                       countVars, historyVars>>
    BY <1>6 DEF SessionTimeout, PeerReset, PowerOff, ReadNothing, vars, deviceVars, upVars,
                downVars, sessionVars, countVars, historyVars
  <2>2. TypeOK'
    BY <2>1 DEF TypeOK, upVars, downVars, countVars, historyVars
  <2>3. ChainInv' /\ AskedInv'
    BY <2>1 DEF ChainInv, AskedInv, upVars, downVars, countVars, Up
  <2>4. RecvInv'
    BY <2>1, RecvKept DEF upVars, historyVars
  <2>5. QED
    BY <2>2, <2>3, <2>4
<1>7. QED
  BY <1>2, <1>3, <1>4, <1>5, <1>6

\* The streams consist of messages, and the session reads them one by one, whatever
\* TCP does: the strengthened type invariant.
LEMMA StreamInit == Init => StreamInv
<1> SUFFICES ASSUME Init PROVE StreamInv
  OBVIOUS
<1>1. <<>> \in Seq(Bytes) /\ <<>> \in Seq(Kinds) /\ Len(<<>>) = 0
  BY EmptySeq
<1>2. 0 \in 0..MaxBeats /\ 0 \in 0..MaxCommands
  BY LinkAssumption
<1>3. TypeOK
  BY <1>1, <1>2 DEF Init, TypeOK
<1>4. Up = <<>> /\ downNet = <<>>
  <2>1. <<>> \o <<>> = <<>>
    OBVIOUS
  <2>2. QED
    BY <2>1 DEF Init, Up
<1>5. Chain(<<>>)
  BY <1>1 DEF Chain
<1>6. QED
  BY <1>3, <1>4, <1>5 DEF Init, StreamInv, ChainInv, RecvInv, AskedInv

\* Each action keeps the streams.
LEMMA StreamStep == StreamInv /\ [Next]_vars => StreamInv'
<1> SUFFICES ASSUME StreamInv, [Next]_vars PROVE StreamInv'
  OBVIOUS
<1>1. \/ DeliverUp \/ DeliverDown
      \/ ReadAck \/ ReadCommand \/ ReadRest \/ Overrun
      \/ Connect \/ BeatAfterRead \/ SigAlrmInRead \/ SigAlrmElsewhere \/ Reply
      \/ HandleInitReq \/ HandleHeartBeat \/ HandleCommandAck \/ RefuseInitReq
      \/ AssertionFails \/ Discard
      \/ Start \/ StartFails \/ SendCommand \/ Peek \/ SessionTimeout
      \/ PeerReset \/ Tick \/ PowerOff \/ ReadNothing \/ UNCHANGED vars
  BY DEF Next, DeviceStep, SessionStep
<1>2. CASE DeliverUp \/ DeliverDown
  BY <1>2, StreamDeliver
<1>3. CASE ReadAck \/ ReadCommand \/ ReadRest \/ Overrun
  BY <1>3, StreamDevRead
<1>4. CASE Connect \/ BeatAfterRead \/ SigAlrmInRead \/ SigAlrmElsewhere \/ Reply
  BY <1>4, StreamSend
<1>5. CASE HandleInitReq \/ HandleHeartBeat \/ HandleCommandAck \/ RefuseInitReq
           \/ AssertionFails \/ Discard
  BY <1>5, StreamRecv
<1>6. CASE Start \/ StartFails \/ SendCommand \/ Peek \/ SessionTimeout
           \/ PeerReset \/ Tick \/ PowerOff \/ ReadNothing \/ UNCHANGED vars
  BY <1>6, StreamSession
<1>7. QED
  BY <1>1, <1>2, <1>3, <1>4, <1>5, <1>6

\* The streams are streams of messages always.
LEMMA StreamHolds == Spec => []StreamInv
<1>1. Spec => []StreamInv
  BY StreamInit, StreamStep, PTL DEF Spec
<1>2. QED
  BY <1>1

\* The streams of bytes, the programs' places and their counters have their types for
\* every way TCP may cut the streams: the lengths start_child and RTUclient::run work out
\* from the bytes are never negative and never more than there are.
THEOREM LinkTypes == Spec => []TypeOK
<1>1. StreamInv => TypeOK
  BY DEF StreamInv
<1>2. QED
  BY <1>1, StreamHolds, PTL

-----------------------------------------------------------------------------
(* Whole messages.                                                          *)

\* A message that is handled is taken from the stream from its STX to its ETX.
LEMMA WholeStep ==
    ASSUME StreamInv, NEW k \in Kinds, handle(k)
    PROVE  First(upBuf, rcvByte) = message(k)
<1>1. recv /\ recvKind = k /\ rcvByte = sizeof[k]
  BY DEF handle
<1>2. upBuf # <<>> /\ 1 \in 1..Len(upBuf) /\ Len(upBuf) \in Nat /\ rcvByte \in 0..Len(upBuf)
  BY <1>1, RecvEffect DEF StreamInv
<1>3. IsStx(upBuf[1]) /\ upBuf[1].kind = k
  <2>1. k # "unknown"
    BY DEF Kinds
  <2>2. QED
    BY <1>1, <2>1 DEF recvKind
<1>4. upBuf \in Seq(Bytes) /\ Chain(Up) /\ Up \in Seq(Bytes)
      /\ Len(Up) >= Len(upBuf) /\ Len(Up) \in Nat
      /\ \A i \in 1..Len(upBuf) : Up[i] = upBuf[i]
  BY UpFact DEF StreamInv, TypeOK
<1> DEFINE a == First(upBuf, rcvByte)
           m == message(k)
           z == sizeof[k]
<1>5. a \in Seq(Bytes) /\ Len(a) = z /\ \A i \in 1..z : a[i] = upBuf[i]
  BY <1>1, <1>2, <1>4, CutFact
<1>6. m \in Seq(Bytes) /\ Len(m) = z /\ \A i \in 1..z : m[i] = [kind |-> k, at |-> i]
  BY MessageFact
<1>7. ASSUME NEW i \in 1..z PROVE upBuf[i] = [kind |-> k, at |-> i]
  <2>1. z \in 0..Len(upBuf)
    BY <1>1, <1>2
  <2> HIDE DEF z
  <2>2. i \in 1..Len(upBuf) /\ i \in 1..Len(Up) /\ 1 \in 1..Len(Up) /\ i <= z
        /\ i \in Int /\ 1 + (i - 1) = i
    BY <1>2, <1>4, <2>1
  <2>3. Up[1] = upBuf[1] /\ Up[i] = upBuf[i]
    BY <1>2, <1>4, <2>2
  <2>4. Up[1].at = 1 /\ Up[1].kind = k
    BY <1>3, <2>3 DEF IsStx
  <2>5. 1 <= i /\ Up[1].at + (i - 1) <= sizeof[Up[1].kind]
    BY <2>2, <2>4 DEF z
  <2>6. Up[i] = [kind |-> Up[1].kind, at |-> Up[1].at + (i - 1)]
    BY <1>4, <2>2, <2>5 DEF Chain
  <2>7. QED
    BY <2>2, <2>3, <2>4, <2>6
<1> HIDE DEF a, m, z
<1>8. \A i \in 1..Len(a) : a[i] = m[i]
  BY <1>5, <1>6, <1>7
<1>9. a = m
  BY <1>5, <1>6, <1>8, SeqEqual
<1>10. QED
  BY <1>9 DEF a, m

\* Whatever TCP does to the stream and whatever else the device puts into it, what
\* RTUclient::run and init hand on as a message is one message, from its STX to its ETX.
THEOREM MessagesAreWhole == Spec => WholeMessages
<1>1. StreamInv => \A k \in Kinds : handle(k) => First(upBuf, rcvByte) = message(k)
  BY WholeStep
<1>2. QED
  BY <1>1, StreamHolds, PTL DEF WholeMessages

\* The assertion rcvByte == sizeof(msg) of RTUclient::run ends a session only if a peek or
\* a read saw a part of a message.
THEOREM AssertionsAreJustified == Spec => AssertionsHold
<1>1. StreamInv => (AssertionFails => "torn" \in faults)
  <2> SUFFICES ASSUME StreamInv, AssertionFails, "torn" \notin faults PROVE FALSE
    OBVIOUS
  <2>1. recv /\ recvKind \in Kinds /\ rcvByte # sizeof[recvKind]
    BY DEF AssertionFails
  <2>2. recvKind # "unknown"
    BY <2>1 DEF Kinds
  <2>3. IsStx(upBuf[1]) /\ recvKind = upBuf[1].kind
    BY <2>2 DEF recvKind
  <2>4. msgSize = sizeof[upBuf[1].kind] /\ msgSize <= Len(upBuf)
    BY <2>1, <2>3 DEF StreamInv, RecvInv, recv
  <2>5. msgSize \in Nat /\ Len(upBuf) \in Nat
    BY UpFact DEF StreamInv, TypeOK
  <2>6. rcvByte = msgSize
    BY <2>4, <2>5 DEF rcvByte, Smaller
  <2>7. QED
    BY <2>1, <2>3, <2>4, <2>6
<1>2. QED
  BY <1>1, StreamHolds, PTL DEF AssertionsHold

-----------------------------------------------------------------------------
(* Nothing is lost.                                                         *)

\* A message that is sent is the last in the stream.
LEMMA LayoutJoin ==
    ASSUME NEW s \in Seq(Bytes), NEW msgs \in Seq(Kinds), NEW off, Layout(s, msgs, off),
           NEW k \in Kinds
    PROVE  \E f : Layout(s \o message(k), msgs \o <<k>>, f)
<1> DEFINE n == Len(msgs)
           m == message(k)
           z == sizeof[k]
           w == s \o m
           more == msgs \o <<k>>
           f == [i \in 1..n + 2 |-> IF i <= n + 1 THEN off[i] ELSE Len(s) + z]
<1>1. n \in Nat /\ Len(s) \in Nat /\ z \in Nat /\ z >= 10
  <2>1. z \in 10..26
    BY SizeFact
  <2> HIDE DEF z
  <2>2. QED
    BY <2>1
<1>2. m \in Seq(Bytes) /\ Len(m) = z /\ \A i \in 1..z : m[i] = [kind |-> k, at |-> i]
  BY MessageFact
<1>3. /\ more \in Seq(Kinds) /\ Len(more) = n + 1 /\ more[n + 1] = k
      /\ \A i \in 1..n : more[i] = msgs[i]
  OBVIOUS
<1> HIDE DEF m
<1>4. /\ w \in Seq(Bytes) /\ Len(w) = Len(s) + z
      /\ \A i \in 1..Len(s) : w[i] = s[i]
      /\ \A i \in 1..z : w[Len(s) + i] = m[i]
  <2> DEFINE u == m
  <2>1. u \in Seq(Bytes) /\ Len(u) = z
    BY <1>2
  <2> HIDE DEF u, z
  <2>2. s \o u \in Seq(Bytes) /\ Len(s \o u) = Len(s) + Len(u)
        /\ (\A i \in 1..Len(s) : (s \o u)[i] = s[i])
        /\ \A i \in 1..Len(u) : (s \o u)[Len(s) + i] = u[i]
    BY <2>1, JoinBytes
  <2>3. QED
    BY <2>1, <2>2 DEF u
<1>5. /\ \A i \in 1..n + 1 : off[i] \in 0..Len(s)
      /\ off[1] = 0 /\ off[n + 1] = Len(s)
      /\ \A i, j \in 1..n + 1 : i <= j => off[i] <= off[j]
      /\ \A i \in 1..n : off[i + 1] = off[i] + sizeof[msgs[i]]
      /\ \A i \in 1..n : \A j \in 1..sizeof[msgs[i]] :
            s[off[i] + j] = [kind |-> msgs[i], at |-> j]
  BY DEF Layout
<1>6. /\ \A i \in 1..n + 1 : f[i] = off[i]
      /\ f[n + 2] = Len(s) + z
  BY <1>1
<1>7. f \in [1..n + 2 -> 0..Len(s) + z]
  <2> HIDE DEF z, n
  <2>1. \A i \in 1..n + 2 : (IF i <= n + 1 THEN off[i] ELSE Len(s) + z) \in 0..Len(s) + z
    BY <1>1, <1>5
  <2>2. QED
    BY <2>1
<1>8. \A i \in 1..n : sizeof[msgs[i]] \in Nat
  <2>1. \A i \in 1..n : msgs[i] \in Kinds
    BY <1>1
  <2>2. QED
    BY <2>1, SizeNat
<1> HIDE DEF n, z, w, more, f
<1>9. f[1] = 0 /\ f[n + 2] = Len(w)
  BY <1>1, <1>4, <1>5, <1>6
<1>10. \A i, j \in 1..n + 2 : i <= j => f[i] <= f[j]
  <2> TAKE i, j \in 1..n + 2
  <2> HAVE i <= j
  <2>1. CASE j <= n + 1
    <3>1. i \in 1..n + 1 /\ j \in 1..n + 1
      BY <1>1, <2>1
    <3>2. QED
      BY <1>5, <1>6, <3>1
  <2>2. CASE j = n + 2
    <3>1. f[j] = Len(s) + z
      BY <1>6, <2>2
    <3>2. CASE i = n + 2
      BY <1>1, <1>6, <2>2, <3>2
    <3>3. CASE i <= n + 1
      <4>1. i \in 1..n + 1
        BY <1>1, <3>3
      <4>2. f[i] = off[i] /\ off[i] \in 0..Len(s)
        BY <1>5, <1>6, <4>1
      <4>3. QED
        BY <1>1, <3>1, <4>2
    <3>4. QED
      BY <1>1, <2>2, <3>2, <3>3
  <2>3. QED
    BY <1>1, <2>1, <2>2
<1>11. ASSUME NEW i \in 1..n + 1
       PROVE  /\ f[i + 1] = f[i] + sizeof[more[i]]
              /\ \A j \in 1..sizeof[more[i]] : w[f[i] + j] = [kind |-> more[i], at |-> j]
  <2>1. CASE i \in 1..n
    <3>1. i \in 1..n + 1 /\ i + 1 \in 1..n + 1 /\ more[i] = msgs[i]
      BY <1>1, <1>3, <2>1
    <3>2. f[i] = off[i] /\ f[i + 1] = off[i + 1] /\ off[i + 1] = off[i] + sizeof[msgs[i]]
      BY <1>5, <1>6, <2>1, <3>1
    <3>3. ASSUME NEW j \in 1..sizeof[msgs[i]]
          PROVE  w[off[i] + j] = [kind |-> msgs[i], at |-> j]
      <4>1. off[i] \in 0..Len(s) /\ off[i + 1] \in 0..Len(s) /\ sizeof[msgs[i]] \in Nat
        BY <1>5, <1>8, <2>1, <3>1
      <4>2. off[i] + j \in 1..Len(s)
        BY <1>1, <3>2, <4>1, SMTT(30)
      <4>3. w[off[i] + j] = s[off[i] + j]
        BY <1>4, <4>2
      <4>4. QED
        BY <1>5, <2>1, <4>3
    <3>4. QED
      BY <3>1, <3>2, <3>3
  <2>2. CASE i = n + 1
    <3>1. more[i] = k /\ f[i] = Len(s) /\ f[i + 1] = Len(s) + z
      BY <1>1, <1>3, <1>5, <1>6, <2>2
    <3>2. \A j \in 1..z : w[Len(s) + j] = [kind |-> k, at |-> j]
      BY <1>2, <1>4
    <3>3. QED
      BY <3>1, <3>2 DEF z
  <2>3. QED
    BY <1>1, <2>1, <2>2
<1>12. Layout(w, more, f)
  <2>1. Len(more) = n + 1 /\ Len(more) + 1 = n + 2 /\ Len(w) = Len(s) + z
    BY <1>1, <1>3, <1>4
  <2>2. QED
    BY <1>7, <1>9, <1>10, <1>11, <2>1 DEF Layout
<1>13. QED
  BY <1>12 DEF w, more, m

\* Unless nothing is pending the stream begins with the first byte of the first message.
LEMMA LayoutHead ==
    ASSUME NEW s \in Seq(Bytes), NEW msgs \in Seq(Kinds), NEW off, Layout(s, msgs, off),
           s # <<>>
    PROVE  /\ msgs # <<>> /\ Head(msgs) \in Kinds /\ Tail(msgs) \in Seq(Kinds)
           /\ s[1].kind = Head(msgs) /\ s[1].at = 1
           /\ sizeof[Head(msgs)] \in 0..Len(s)
<1>1. Len(s) # 0 /\ Len(s) \in Nat /\ Len(msgs) \in Nat
  BY EmptySeq
<1>2. off[1] = 0 /\ off[Len(msgs) + 1] = Len(s)
      /\ \A i \in 1..Len(msgs) + 1 : off[i] \in 0..Len(s)
  BY DEF Layout
<1>3. Len(msgs) # 0
  <2>1. SUFFICES ASSUME Len(msgs) = 0 PROVE FALSE
    OBVIOUS
  <2>2. off[1] = Len(s)
    BY <1>2, <2>1
  <2>3. QED
    BY <1>1, <1>2, <2>2
<1>4. msgs # <<>>
  BY <1>3, EmptySeq
<1>5. 1 \in 1..Len(msgs) /\ 2 \in 1..Len(msgs) + 1 /\ msgs[1] = Head(msgs)
  BY <1>1, <1>3
<1>6. Head(msgs) \in Kinds /\ Tail(msgs) \in Seq(Kinds)
  BY <1>4, HeadTailProperties
<1> DEFINE k == Head(msgs)
           z == sizeof[k]
<1>7. z \in 10..26
  BY <1>6, SizeFact
<1>8. off[1 + 1] = off[1] + z /\ \A j \in 1..z : s[off[1] + j] = [kind |-> k, at |-> j]
  BY <1>5 DEF Layout
<1> HIDE DEF k, z
<1>9. z \in 0..Len(s)
  <2>1. off[2] = z
    BY <1>2, <1>7, <1>8
  <2>2. QED
    BY <1>2, <1>5, <2>1
<1>10. s[1] = [kind |-> k, at |-> 1]
  <2>1. 1 \in 1..z
    BY <1>7
  <2>2. s[off[1] + 1] = [kind |-> k, at |-> 1]
    BY <1>8, <2>1
  <2>3. QED
    BY <1>2, <2>2
<1>11. s[1].kind = k /\ s[1].at = 1
  BY <1>10
<1>12. QED
  BY <1>4, <1>6, <1>9, <1>11 DEF k, z

\* Taking out the first message leaves the others.
LEMMA LayoutTail ==
    ASSUME NEW s \in Seq(Bytes), NEW msgs \in Seq(Kinds), NEW off, Layout(s, msgs, off),
           s # <<>>
    PROVE  \E f : Layout(Without(s, sizeof[Head(msgs)]), Tail(msgs), f)
<1> DEFINE k == Head(msgs)
           z == sizeof[k]
           rest == Tail(msgs)
           n == Len(rest)
           w == Without(s, z)
           f == [i \in 1..n + 1 |-> off[i + 1] - z]
<1>1. msgs # <<>> /\ k \in Kinds /\ rest \in Seq(Kinds) /\ z \in 0..Len(s)
  BY LayoutHead
<1>2. /\ n \in Nat /\ Len(msgs) = n + 1 /\ msgs[1] = k
      /\ \A i \in 1..n : rest[i] = msgs[i + 1]
  BY <1>1
<1>3. Len(s) \in Nat /\ z \in Nat /\ z <= Len(s)
  BY <1>1
<1>4. w \in Seq(Bytes) /\ Len(w) = Len(s) - z /\ \A i \in 1..Len(s) - z : w[i] = s[z + i]
  BY <1>1, CutBytes
<1>5. /\ \A i \in 1..n + 2 : off[i] \in 0..Len(s)
      /\ off[1] = 0 /\ off[n + 2] = Len(s)
      /\ \A i, j \in 1..n + 2 : i <= j => off[i] <= off[j]
      /\ \A i \in 1..n + 1 : off[i + 1] = off[i] + sizeof[msgs[i]]
      /\ \A i \in 1..n + 1 : \A j \in 1..sizeof[msgs[i]] :
            s[off[i] + j] = [kind |-> msgs[i], at |-> j]
  <2>1. Len(msgs) = n + 1 /\ Len(msgs) + 1 = n + 2
    BY <1>2
  <2> HIDE DEF n
  <2>2. QED
    BY <2>1 DEF Layout
<1>6. \A i \in 1..n : sizeof[msgs[i + 1]] \in Nat
  <2>1. \A i \in 1..n : rest[i] \in Kinds
    BY <1>1
  <2>2. \A i \in 1..n : sizeof[rest[i]] \in Nat
    BY <2>1, SizeNat
  <2>3. QED
    BY <1>2, <2>2
<1>7. \A i \in 1..n + 1 : f[i] = off[i + 1] - z
  OBVIOUS
<1>8. f = [i \in 1..n + 1 |-> off[i + 1] - z]
  OBVIOUS
<1>9. z = sizeof[msgs[1]]
  BY <1>2
<1> HIDE DEF k, z, rest, n, w, f
<1>10. off[2] = z
  <2>1. 1 \in 1..n + 1
    BY <1>2
  <2>2. off[1 + 1] = off[1] + sizeof[msgs[1]]
    BY <1>5, <2>1
  <2>3. QED
    BY <1>3, <1>5, <1>9, <2>2
<1>11. \A i \in 1..n + 1 : i + 1 \in 1..n + 2 /\ off[i + 1] \in 0..Len(s) /\ z <= off[i + 1]
  <2> TAKE i \in 1..n + 1
  <2>1. i + 1 \in 1..n + 2 /\ 2 \in 1..n + 2 /\ 2 <= i + 1
    BY <1>2
  <2>2. off[2] <= off[i + 1] /\ off[i + 1] \in 0..Len(s)
    BY <1>5, <2>1
  <2>3. QED
    BY <1>10, <2>1, <2>2
<1>12. f \in [1..n + 1 -> 0..Len(w)]
  <2>1. \A i \in 1..n + 1 : off[i + 1] - z \in 0..Len(w)
    BY <1>3, <1>4, <1>11
  <2>2. QED
    BY <1>8, <2>1
<1>13. f[1] = 0 /\ f[n + 1] = Len(w)
  <2>1. 1 \in 1..n + 1 /\ n + 1 \in 1..n + 1 /\ 1 + 1 = 2 /\ (n + 1) + 1 = n + 2
    BY <1>2
  <2>2. f[1] = off[2] - z /\ f[n + 1] = off[n + 2] - z
    BY <1>7, <2>1
  <2>3. QED
    BY <1>3, <1>4, <1>5, <1>10, <2>2
<1>14. \A i, j \in 1..n + 1 : i <= j => f[i] <= f[j]
  <2> TAKE i, j \in 1..n + 1
  <2> HAVE i <= j
  <2>1. i + 1 <= j + 1 /\ off[i + 1] <= off[j + 1]
    BY <1>2, <1>5, <1>11
  <2>2. QED
    BY <1>3, <1>7, <1>11, <2>1
<1>15. ASSUME NEW i \in 1..n
       PROVE  /\ f[i + 1] = f[i] + sizeof[rest[i]]
              /\ \A j \in 1..sizeof[rest[i]] : w[f[i] + j] = [kind |-> rest[i], at |-> j]
  <2>1. /\ i \in 1..n + 1 /\ i + 1 \in 1..n + 1 /\ rest[i] = msgs[i + 1]
        /\ sizeof[msgs[i + 1]] \in Nat
    BY <1>2, <1>6
  <2>2. f[i] = off[i + 1] - z /\ f[i + 1] = off[(i + 1) + 1] - z
    BY <1>7, <2>1
  <2>3. off[(i + 1) + 1] = off[i + 1] + sizeof[msgs[i + 1]]
    BY <1>5, <2>1
  <2>4. off[i + 1] \in 0..Len(s) /\ z <= off[i + 1] /\ off[(i + 1) + 1] \in 0..Len(s)
    BY <1>11, <2>1
  <2>5. f[i + 1] = f[i] + sizeof[rest[i]]
    <3> DEFINE x == off[(i + 1) + 1]
               y == off[i + 1]
               t == sizeof[msgs[i + 1]]
    <3>1. x \in Nat /\ y \in Nat /\ t \in Nat /\ x = y + t
        BY <1>3, <2>1, <2>3, <2>4
    <3>2. f[i] = y - z /\ f[i + 1] = x - z /\ sizeof[rest[i]] = t
        BY <2>1, <2>2
    <3> HIDE DEF x, y, t
    <3>3. x - z = (y - z) + t
        BY <1>3, <3>1
    <3>4. QED
        BY <3>2, <3>3
  <2>6. ASSUME NEW j \in 1..sizeof[rest[i]]
        PROVE  w[f[i] + j] = [kind |-> rest[i], at |-> j]
    <3>1. j \in 1..sizeof[msgs[i + 1]] /\ j \in Nat
      BY <2>1
    <3>2. off[i + 1] + j <= Len(s)
      BY <1>3, <2>1, <2>3, <2>4, <3>1
    <3>3. f[i] + j \in 1..Len(s) - z /\ z + (f[i] + j) = off[i + 1] + j
      BY <1>3, <2>2, <2>4, <3>1, <3>2, SMTT(30)
    <3>4. w[f[i] + j] = s[off[i + 1] + j]
      BY <1>4, <3>3
    <3>5. s[off[i + 1] + j] = [kind |-> msgs[i + 1], at |-> j]
      BY <1>5, <2>1, <3>1
    <3>6. QED
      BY <2>1, <3>4, <3>5
  <2>7. QED
    BY <2>5, <2>6
<1>16. Layout(w, rest, f)
  <2>1. n = Len(rest)
    BY DEF n
  <2>2. QED
    BY <1>12, <1>13, <1>14, <1>15, <2>1 DEF Layout
<1>17. QED
  BY <1>16 DEF w, z, k, rest

\* As long as nothing went wrong, what a read returns is the first pending message.
LEMMA ReadsPending ==
    ASSUME StreamInv, NEW off, Layout(Up, pending, off), faults = {}, recv
    PROVE  /\ Up # <<>> /\ pending # <<>>
           /\ recvKind = Head(pending) /\ recvKind \in Kinds
           /\ rcvByte = sizeof[Head(pending)]
<1>1. upBuf # <<>> /\ 1 \in 1..Len(upBuf) /\ Len(upBuf) \in Nat
  BY RecvEffect DEF StreamInv
<1>2. Up \in Seq(Bytes) /\ Len(Up) = Len(upBuf) + Len(upNet) /\ Len(upNet) \in Nat
      /\ Up[1] = upBuf[1] /\ pending \in Seq(Kinds)
  BY <1>1, UpFact DEF StreamInv, TypeOK
<1>3. Up # <<>>
  <2>1. Len(Up) # 0
    BY <1>1, <1>2
  <2>2. QED
    BY <2>1, EmptySeq
<1>4. pending # <<>> /\ Head(pending) \in Kinds /\ Up[1].kind = Head(pending) /\ Up[1].at = 1
  BY <1>2, <1>3, LayoutHead
<1>5. IsStx(upBuf[1]) /\ upBuf[1].kind = Head(pending)
  BY <1>2, <1>4 DEF IsStx
<1>6. msgSize = sizeof[Head(pending)] /\ msgSize <= Len(upBuf) /\ msgSize \in Nat
  BY <1>5 DEF StreamInv, RecvInv, TypeOK, recv
<1>7. rcvByte = msgSize
  BY <1>1, <1>6 DEF rcvByte, Smaller
<1>8. rcvByte >= 2
  <2> DEFINE z == sizeof[Head(pending)]
  <2>1. z \in 10..26
    BY <1>4, SizeFact
  <2>2. rcvByte = z
    BY <1>6, <1>7
  <2> HIDE DEF z
  <2>3. QED
    BY <2>1, <2>2
<1>9. recvKind = Head(pending)
  BY <1>5, <1>8 DEF recvKind
<1>10. QED
  BY <1>3, <1>4, <1>6, <1>7, <1>9

\* Each action keeps the stream and the pending messages together.
LEMMA PendingStep == StreamInv /\ PendingInv /\ [Next]_vars => PendingInv'
<1> SUFFICES ASSUME StreamInv, PendingInv, [Next]_vars, link' = "up", faults' = {}
             PROVE  \E f : Layout(Up', pending', f)
  BY DEF PendingInv
<1>1. \/ DeliverUp \/ DeliverDown
      \/ ReadAck \/ ReadCommand \/ ReadRest \/ Overrun
      \/ Connect \/ BeatAfterRead \/ SigAlrmInRead \/ SigAlrmElsewhere \/ Reply
      \/ HandleInitReq \/ HandleHeartBeat \/ HandleCommandAck \/ RefuseInitReq
      \/ AssertionFails \/ Discard
      \/ Start \/ StartFails \/ SendCommand \/ Peek \/ SessionTimeout
      \/ PeerReset \/ Tick \/ PowerOff \/ ReadNothing \/ UNCHANGED vars
  BY DEF Next, DeviceStep, SessionStep
<1>2. Up \in Seq(Bytes) /\ pending \in Seq(Kinds)
  BY UpFact DEF StreamInv, TypeOK
<1>3. ASSUME Up' = Up, pending' = pending, link = "up", faults = {}
      PROVE  \E f : Layout(Up', pending', f)
  BY <1>3 DEF PendingInv
<1>4. CASE DeliverUp
  <2>1. Up' = Up
    BY <1>4, DeliverUpEffect DEF StreamInv
  <2>2. pending' = pending /\ link = "up" /\ faults = {}
    BY <1>4 DEF DeliverUp, sessionVars, historyVars
  <2>3. QED
    BY <1>3, <2>1, <2>2
<1>5. CASE DeliverDown
  <2>1. Up' = Up
    BY <1>5 DEF DeliverDown, upVars, Up
  <2>2. pending' = pending /\ link = "up" /\ faults = {}
    BY <1>5 DEF DeliverDown, sessionVars, historyVars
  <2>3. QED
    BY <1>3, <2>1, <2>2
<1>6. CASE ReadAck \/ ReadCommand \/ ReadRest \/ Overrun
  <2>1. devRead
    BY <1>6 DEF ReadAck, ReadCommand, ReadRest, Overrun, devGets
  <2>2. Up' = Up
    BY <2>1 DEF devRead, upVars, Up
  <2>3. pending' = pending /\ link = "up" /\ faults = {}
    BY <2>1 DEF devRead, sessionVars, fault, keep
  <2>4. QED
    BY <1>3, <2>2, <2>3
<1>7. CASE Connect \/ BeatAfterRead \/ SigAlrmInRead \/ SigAlrmElsewhere \/ Reply
  <2>1. TypeOK /\ ChainInv
    BY DEF StreamInv
  <2>2. PICK m \in Seq(Bytes), k \in Kinds, next \in {"read", "reply", "beat"} :
           Chain(m) /\ devSend(m, <<k>>, next) /\ (m = message(k) \/ faults' # {})
    BY <1>7, <2>1, Sends
  <2>3. m = message(k)
    BY <2>2
  <2>4. link = "up" /\ pending' = pending \o <<k>>
    BY <2>2 DEF devSend, keep
  <2>5. faults = {}
    BY <1>7, <2>1, SendsFrame
  <2>6. <<k>> \in Seq(Kinds)
    OBVIOUS
  <2>7. Up' = Up \o message(k)
    BY <2>1, <2>2, <2>3, <2>4, <2>6, SendEffect
  <2>8. PICK off : Layout(Up, pending, off)
    BY <2>4, <2>5 DEF PendingInv
  <2>9. \E f : Layout(Up \o message(k), pending \o <<k>>, f)
    BY <1>2, <2>8, LayoutJoin
  <2>10. QED
    BY <2>4, <2>7, <2>9
<1>8. CASE HandleInitReq \/ HandleHeartBeat \/ HandleCommandAck \/ RefuseInitReq
           \/ AssertionFails \/ Discard
  <2>1. recv /\ faults = {} /\ link = "up"
    BY <1>8, RecvCases DEF StreamInv, recv
  <2>2. PICK off : Layout(Up, pending, off)
    BY <2>1 DEF PendingInv
  <2>3. /\ Up # <<>> /\ pending # <<>> /\ recvKind = Head(pending) /\ recvKind \in Kinds
        /\ rcvByte = sizeof[Head(pending)]
    BY <2>1, <2>2, ReadsPending
  <2>4. recvKind # "unknown"
    BY <2>3 DEF Kinds
  <2>5. \E k \in Kinds : handle(k)
    <3>1. "INIT_REQ" \in Kinds /\ "HEART_BEAT" \in Kinds /\ "COMMAND_RTU_ACK" \in Kinds
      BY DEF Kinds
    <3>2. ~Discard /\ ~AssertionFails /\ ~RefuseInitReq
      BY <2>3, <2>4 DEF Discard, AssertionFails, RefuseInitReq
    <3>3. QED
      BY <1>8, <3>1, <3>2 DEF HandleInitReq, HandleHeartBeat, HandleCommandAck
  <2>6. pending' = Tail(pending)
    BY <2>3, <2>5 DEF handle, keep
  <2>7. Up' = Without(Up, rcvByte)
    BY <2>1, RecvEffect DEF StreamInv
  <2>8. \E f : Layout(Without(Up, sizeof[Head(pending)]), Tail(pending), f)
    BY <1>2, <2>2, <2>3, LayoutTail
  <2>9. QED
    BY <2>3, <2>6, <2>7, <2>8
<1>9. CASE Start \/ StartFails \/ SendCommand \/ Peek \/ SessionTimeout
           \/ PeerReset \/ Tick \/ PowerOff \/ ReadNothing \/ UNCHANGED vars
  <2>1. UNCHANGED upVars
    BY <1>9 DEF Start, StartFails, SendCommand, Peek, SessionTimeout, PeerReset, Tick, PowerOff,
                ReadNothing, vars, upVars
  <2>2. pending' = pending /\ faults = {}
    BY <1>9 DEF Start, StartFails, SendCommand, Peek, SessionTimeout, PeerReset, Tick, PowerOff,
                ReadNothing, vars, historyVars, fault, keep
  <2>3. link = "up"
    BY <1>9 DEF Start, StartFails, SendCommand, Peek, SessionTimeout, PeerReset, Tick, PowerOff,
                ReadNothing, vars, sessionVars
  <2>4. Up' = Up
    BY <2>1 DEF upVars, Up
  <2>5. QED
    BY <1>3, <2>2, <2>3, <2>4
<1>10. QED
  BY <1>1, <1>4, <1>5, <1>6, <1>7, <1>8, <1>9

\* At first the stream is empty and nothing is pending.
LEMMA PendingInit == Init => PendingInv
<1> SUFFICES ASSUME Init PROVE \E f : Layout(Up, pending, f)
  BY DEF PendingInv
<1>1. Up = <<>> /\ pending = <<>>
  <2>1. <<>> \o <<>> = <<>>
    OBVIOUS
  <2>2. QED
    BY <2>1 DEF Init, Up
<1>2. Layout(<<>>, <<>>, [i \in 1..1 |-> 0])
  <2>1. Len(<<>>) = 0
    BY EmptySeq
  <2> DEFINE f == [i \in 1..1 |-> 0]
  <2>2. f \in [1..1 -> 0..0] /\ f[1] = 0 /\ f[0 + 1] = 0
    OBVIOUS
  <2>3. \A i, j \in 1..1 : f[i] <= f[j]
    OBVIOUS
  <2> HIDE DEF f
  <2>4. Layout(<<>>, <<>>, f)
    BY <2>1, <2>2, <2>3 DEF Layout
  <2>5. QED
    BY <2>4 DEF f
<1>3. QED
  BY <1>1, <1>2

\* The beginning of the stream up to a message, and that message.
LEMMA LayoutPiece ==
    ASSUME NEW s \in Seq(Bytes), NEW msgs \in Seq(Kinds), NEW off, Layout(s, msgs, off),
           NEW i \in 1..Len(msgs)
    PROVE  First(s, off[i + 1]) = First(s, off[i]) \o message(msgs[i])
<1> DEFINE a == off[i]
           b == off[i + 1]
           k == msgs[i]
           z == sizeof[k]
           m == message(k)
           u == SubSeq(s, a + 1, b)
<1>1. Len(msgs) \in Nat /\ Len(s) \in Nat /\ i \in 1..Len(msgs) + 1 /\ i + 1 \in 1..Len(msgs) + 1
  OBVIOUS
<1>2. a \in 0..Len(s) /\ b \in 0..Len(s) /\ b = a + z
      /\ \A j \in 1..z : s[a + j] = [kind |-> k, at |-> j]
  BY <1>1 DEF Layout
<1>3. k \in Kinds
  OBVIOUS
<1>4. z \in Nat
  BY <1>3, SizeNat
<1>5. m \in Seq(Bytes) /\ Len(m) = z /\ \A j \in 1..z : m[j] = [kind |-> k, at |-> j]
  BY <1>3, MessageFact
<1> HIDE DEF a, b, k, z, m
<1>6. u \in Seq(Bytes) /\ Len(u) = z /\ \A j \in 1..z : u[j] = s[a + j]
  <2> DEFINE c == a + 1
  <2>1. a \in Nat /\ b \in Nat /\ b <= Len(s) /\ b = a + z
    BY <1>1, <1>2
  <2>2. c \in Int /\ b \in Int /\ b - c + 1 = z /\ c >= 1 /\ (c <= b <=> z # 0)
    BY <1>4, <2>1
  <2>3. \A j \in 1..z : c + j - 1 = a + j
    BY <1>4, <2>1
  <2> HIDE DEF c
  <2>4. ASSUME NEW j \in c..b PROVE s[j] \in Bytes
    <3>1. j \in 1..Len(s)
      BY <1>1, <2>1, <2>2
    <3>2. QED
      BY <3>1, ElementOfSeq
  <2>5. /\ SubSeq(s, c, b) \in Seq(Bytes)
        /\ Len(SubSeq(s, c, b)) = IF c <= b THEN b - c + 1 ELSE 0
        /\ \A j \in 1..b - c + 1 : SubSeq(s, c, b)[j] = s[c + j - 1]
    BY <2>2, <2>4, SubSeqProperties
  <2>6. Len(SubSeq(s, c, b)) = z
    BY <2>2, <2>5
  <2>7. \A j \in 1..z : SubSeq(s, c, b)[j] = s[a + j]
    BY <2>2, <2>3, <2>5
  <2>8. QED
    BY <2>5, <2>6, <2>7 DEF c
<1> HIDE DEF u
<1>7. u = m
  <2>1. Len(u) = Len(m) /\ \A j \in 1..Len(u) : u[j] = m[j]
    BY <1>2, <1>5, <1>6
  <2>2. QED
    BY <1>5, <1>6, <2>1, SeqEqual
<1>8. SubSeq(s, 1, a) \o u = SubSeq(s, 1, b)
  <2>1. 1 \in 1..Len(s) + 1 /\ a \in 1 - 1..Len(s) /\ b \in a..Len(s)
    BY <1>1, <1>2, <1>4
  <2>2. SubSeq(s, 1, a) \o SubSeq(s, a + 1, b) = SubSeq(s, 1, b)
    BY <2>1, ConcatAdjacentSubSeq
  <2>3. QED
    BY <2>2 DEF u
<1>9. QED
  BY <1>7, <1>8 DEF First, a, b, m, k

\* So the stream is what Wire puts together.
LEMMA LayoutWire ==
    ASSUME NEW s \in Seq(Bytes), NEW msgs \in Seq(Kinds), NEW off, Layout(s, msgs, off)
    PROVE  s = Wire(msgs)
<1> DEFINE n == Len(msgs)
           Fits(f) == f = [i \in 0..n |-> IF i = 0 THEN <<>> ELSE f[i - 1] \o message(msgs[i])]
           g == [i \in 0..n |-> First(s, off[i + 1])]
           h == CHOOSE f : Fits(f)
<1>1. n \in Nat /\ off[1] = 0 /\ off[n + 1] = Len(s)
  BY DEF Layout
<1>2. First(s, 0) = <<>> /\ First(s, Len(s)) = s
  BY SubSeqFull, SubSeqEmpty DEF First
<1>3. ASSUME NEW i \in 0..n
      PROVE  g[i] = IF i = 0 THEN <<>> ELSE g[i - 1] \o message(msgs[i])
  <2>1. CASE i = 0
    BY <1>1, <1>2, <2>1
  <2>2. CASE i # 0
    <3>1. i \in 1..n /\ i - 1 \in 0..n /\ (i - 1) + 1 = i
      BY <1>1, <2>2
    <3>2. First(s, off[i + 1]) = First(s, off[i]) \o message(msgs[i])
      BY <3>1, LayoutPiece
    <3>3. g[i] = First(s, off[i + 1]) /\ g[i - 1] = First(s, off[i])
      BY <3>1
    <3>4. QED
      BY <2>2, <3>2, <3>3
  <2>3. QED
    BY <2>1, <2>2
<1>4. g = [i \in 0..n |-> g[i]]
  OBVIOUS
<1>5. g[n] = s
  BY <1>1, <1>2
<1> HIDE DEF g
<1>6. Fits(g)
  BY <1>3, <1>4
<1>7. Fits(h)
  BY <1>6
<1>8. Wire(msgs) = h[n]
  BY DEF Wire
<1> HIDE DEF h
<1>9. \A i \in 0..n : h[i] = IF i = 0 THEN <<>> ELSE h[i - 1] \o message(msgs[i])
  BY <1>7
<1> DEFINE Bad == {i \in 0..n : h[i] # g[i]}
<1>10. Bad = {}
  <2>1. SUFFICES ASSUME Bad # {} PROVE FALSE
    OBVIOUS
  <2>2. Bad \in SUBSET Nat
    OBVIOUS
  <2> HIDE DEF Bad
  <2>3. PICK b \in Bad : \A c \in Bad : b <= c
    BY <2>1, <2>2, LeastExists
  <2>4. b \in 0..n /\ h[b] # g[b]
    BY DEF Bad
  <2>5. b # 0
    BY <1>3, <1>9, <2>4
  <2>6. b - 1 \in 0..n /\ ~(b <= b - 1)
    BY <1>1, <2>4, <2>5
  <2>7. h[b - 1] = g[b - 1]
    BY <2>3, <2>6 DEF Bad
  <2>8. h[b] = h[b - 1] \o message(msgs[b]) /\ g[b] = g[b - 1] \o message(msgs[b])
    BY <1>3, <1>9, <2>4, <2>5
  <2>9. QED
    BY <2>4, <2>7, <2>8
<1>11. h[n] = g[n]
  BY <1>1, <1>10
<1>12. QED
  BY <1>5, <1>8, <1>11

\* The stream is the pending messages always, while nothing has gone wrong.
LEMMA PendingHolds == Spec => [](StreamInv /\ PendingInv)
BY StreamInit, StreamStep, PendingInit, PendingStep, PTL DEF Spec

\* Unless a peek or a read saw a part of a message, or the device sent a mixture, what the
\* session has still to read is exactly what the device sent and the session has not
\* handled, each message once and in order, however the bytes are spread over the socket.
THEOREM NothingIsLost == Spec => []NothingLost
<1>1. StreamInv /\ PendingInv => NothingLost
  <2> SUFFICES ASSUME StreamInv, PendingInv, link = "up", faults = {}
               PROVE  upBuf \o upNet = Wire(pending)
    BY DEF NothingLost
  <2>1. PICK off : Layout(Up, pending, off)
    BY DEF PendingInv
  <2>2. Up \in Seq(Bytes) /\ pending \in Seq(Kinds)
    BY UpFact DEF StreamInv, TypeOK
  <2>3. Up = Wire(pending)
    BY <2>1, <2>2, LayoutWire
  <2>4. QED
    BY <2>3 DEF Up
<1>2. QED
  BY <1>1, PendingHolds, PTL

-----------------------------------------------------------------------------
(* The two timers.                                                          *)

\* Where acknowledgements and heartbeats are.
LEMMA AckJoin ==
    ASSUME NEW s \in Seq(Bytes), NEW u \in Seq(Bytes)
    PROVE  HasAck(s \o u) <=> HasAck(s) \/ HasAck(u)
<1> DEFINE w == s \o u
<1>1. /\ Len(w) = Len(s) + Len(u) /\ Len(s) \in Nat /\ Len(u) \in Nat
      /\ \A i \in 1..Len(s) : w[i] = s[i]
      /\ \A i \in 1..Len(u) : w[Len(s) + i] = u[i]
  BY JoinFact
<1> HIDE DEF w
<1>2. ASSUME HasAck(s) PROVE HasAck(w)
  <2>1. PICK i \in 1..Len(s) : IsAck(s[i])
    BY <1>2 DEF HasAck
  <2>2. i \in 1..Len(w) /\ w[i] = s[i]
    BY <1>1
  <2>3. QED
    BY <2>1, <2>2 DEF HasAck
<1>3. ASSUME HasAck(u) PROVE HasAck(w)
  <2>1. PICK i \in 1..Len(u) : IsAck(u[i])
    BY <1>3 DEF HasAck
  <2>2. Len(s) + i \in 1..Len(w) /\ w[Len(s) + i] = u[i]
    BY <1>1
  <2>3. QED
    BY <2>1, <2>2 DEF HasAck
<1>4. ASSUME HasAck(w) PROVE HasAck(s) \/ HasAck(u)
  <2>1. PICK i \in 1..Len(w) : IsAck(w[i])
    BY <1>4 DEF HasAck
  <2>2. CASE i <= Len(s)
    <3>1. i \in 1..Len(s) /\ w[i] = s[i]
      BY <1>1, <2>2
    <3>2. QED
      BY <2>1, <3>1 DEF HasAck
  <2>3. CASE i > Len(s)
    <3>1. i - Len(s) \in 1..Len(u) /\ Len(s) + (i - Len(s)) = i
      BY <1>1, <2>3
    <3>2. w[i] = u[i - Len(s)]
      BY <1>1, <3>1
    <3>3. QED
      BY <2>1, <3>1, <3>2 DEF HasAck
  <2>4. QED
    BY <1>1, <2>2, <2>3
<1>5. QED
  BY <1>2, <1>3, <1>4 DEF w

\* Only INIT_RES and HEART_BEAT_ACK set the device's timer.
LEMMA AckMessage ==
    ASSUME NEW k \in Kinds
    PROVE  HasAck(message(k)) <=> k \in {"INIT_RES", "HEART_BEAT_ACK"}
<1> DEFINE m == message(k)
           z == sizeof[k]
<1>1. Len(m) = z /\ \A i \in 1..z : m[i] = [kind |-> k, at |-> i]
  BY MessageFact
<1>2. z \in 10..26
  BY SizeFact
<1> HIDE DEF m, z
<1>3. 1 \in 1..z
  BY <1>2
<1>4. \A i \in 1..z : m[i].kind = k /\ m[i].at = i
  BY <1>1, <1>2
<1>5. ASSUME k \in {"INIT_RES", "HEART_BEAT_ACK"} PROVE HasAck(m)
  <2>1. IsAck(m[1])
    BY <1>3, <1>4, <1>5 DEF IsAck
  <2>2. QED
    BY <1>1, <1>3, <2>1 DEF HasAck
<1>6. ASSUME HasAck(m) PROVE k \in {"INIT_RES", "HEART_BEAT_ACK"}
  BY <1>1, <1>4, <1>6 DEF HasAck, IsAck
<1>7. QED
  BY <1>5, <1>6 DEF m

\* An empty stream holds no acknowledgement.
LEMMA AckNone == ~HasAck(<<>>)
<1>1. Len(<<>>) = 0
  BY EmptySeq
<1>2. QED
  BY <1>1 DEF HasAck

\* A heartbeat is pending once it has been sent.
LEMMA BeatJoin ==
    ASSUME NEW msgs \in Seq(Kinds), NEW k \in Kinds
    PROVE  HasBeat(msgs \o <<k>>) <=> HasBeat(msgs) \/ k \in {"INIT_REQ", "HEART_BEAT"}
<1> DEFINE more == msgs \o <<k>>
           n == Len(msgs)
<1>1. n \in Nat /\ Len(more) = n + 1 /\ more[n + 1] = k /\ \A i \in 1..n : more[i] = msgs[i]
  OBVIOUS
<1> HIDE DEF more, n
<1>2. \A i \in 1..n + 1 : i \in 1..n \/ i = n + 1
  BY <1>1
<1>3. (\A i \in 1..n : i \in 1..n + 1) /\ n + 1 \in 1..n + 1
  BY <1>1
<1>4. HasBeat(more) <=> \E i \in 1..n + 1 : more[i] \in {"INIT_REQ", "HEART_BEAT"}
  BY <1>1 DEF HasBeat
<1>5. HasBeat(msgs) <=> \E i \in 1..n : msgs[i] \in {"INIT_REQ", "HEART_BEAT"}
  BY DEF HasBeat, n
<1>6. HasBeat(more) <=> HasBeat(msgs) \/ k \in {"INIT_REQ", "HEART_BEAT"}
  BY <1>1, <1>2, <1>3, <1>4, <1>5
<1>7. QED
  BY <1>6 DEF more

\* Handling another message leaves the heartbeats pending.
LEMMA BeatTail ==
    ASSUME NEW msgs \in Seq(Kinds), msgs # <<>>, Head(msgs) \notin {"INIT_REQ", "HEART_BEAT"}
    PROVE  HasBeat(Tail(msgs)) <=> HasBeat(msgs)
<1> DEFINE rest == Tail(msgs)
           n == Len(rest)
<1>1. n \in Nat /\ Len(msgs) = n + 1 /\ Head(msgs) = msgs[1] /\ \A i \in 1..n : rest[i] = msgs[i + 1]
  OBVIOUS
<1> HIDE DEF rest, n
<1>2. ASSUME NEW i \in 1..n, rest[i] \in {"INIT_REQ", "HEART_BEAT"} PROVE HasBeat(msgs)
  <2>1. i + 1 \in 1..Len(msgs)
    BY <1>1
  <2>2. QED
    BY <1>1, <1>2, <2>1 DEF HasBeat
<1>3. ASSUME NEW i \in 1..Len(msgs), msgs[i] \in {"INIT_REQ", "HEART_BEAT"} PROVE HasBeat(rest)
  <2>1. i # 1
    BY <1>1, <1>3
  <2>2. i - 1 \in 1..n /\ (i - 1) + 1 = i
    BY <1>1, <2>1
  <2>3. rest[i - 1] = msgs[i]
    BY <1>1, <2>2
  <2>4. QED
    BY <1>3, <2>2, <2>3 DEF HasBeat, n
<1>4. HasBeat(rest) <=> HasBeat(msgs)
  BY <1>2, <1>3 DEF HasBeat, n
<1>5. QED
  BY <1>4 DEF rest

\* A read of the device without fault is one message.
LEMMA ReadsMessage ==
    ASSUME TypeOK, devRead, faults' = {}
    PROVE  downBuf[1].kind \in Kinds /\ downBuf = message(downBuf[1].kind)
           /\ IsStx(downBuf[1]) /\ readCmd = downBuf[1].kind
<1> DEFINE k == downBuf[1].kind
<1>1. downBuf \in Seq(Bytes) /\ downBuf # <<>> /\ readFault = {}
  BY DEF TypeOK, devRead, fault
<1>2. 1 \in 1..Len(downBuf)
  BY <1>1, EmptySeq
<1>3. k \in Kinds
  BY <1>1, <1>2, ByteInFact
<1>4. downBuf = message(k)
  BY <1>1 DEF readFault
<1>5. Len(message(k)) = sizeof[k] /\ sizeof[k] \in 10..26
      /\ \A i \in 1..sizeof[k] : message(k)[i] = [kind |-> k, at |-> i]
  BY <1>3, MessageFact, SizeFact
<1>6. Len(downBuf) # 1 /\ 1 \in 1..sizeof[k]
  <2> DEFINE z == sizeof[k]
  <2>1. Len(downBuf) = z /\ z \in 10..26
    BY <1>4, <1>5
  <2> HIDE DEF z
  <2>2. Len(downBuf) # 1 /\ 1 \in 1..z
    BY <2>1
  <2>3. QED
    BY <2>2 DEF z
<1>7. downBuf[1] = [kind |-> k, at |-> 1]
  BY <1>4, <1>5, <1>6
<1>8. downBuf[1].at = 1
  BY <1>7
<1>9. QED
  BY <1>3, <1>4, <1>6, <1>8 DEF IsStx, readCmd

\* With nothing in the stream nothing is pending.
LEMMA NothingPending ==
    ASSUME StreamInv, PendingInv, link = "up", faults = {}, upBuf = <<>>, upNet = <<>>
    PROVE  ~BeatComes
<1>1. PICK off : Layout(Up, pending, off)
  BY DEF PendingInv
<1>2. Len(Up) = 0 /\ pending \in Seq(Kinds)
  <2>1. Len(<<>>) = 0
    BY EmptySeq
  <2>2. QED
    BY <2>1, UpFact DEF StreamInv, TypeOK
<1>3. \A i \in 1..Len(pending) + 1 : off[i] \in 0..0
  BY <1>1, <1>2 DEF Layout
<1>4. ASSUME NEW i \in 1..Len(pending) PROVE FALSE
  <2> DEFINE z == sizeof[pending[i]]
  <2>1. pending[i] \in Kinds /\ i \in 1..Len(pending) + 1 /\ i + 1 \in 1..Len(pending) + 1
    BY <1>2
  <2>2. z \in 10..26
    BY <2>1, SizeFact
  <2>3. off[i + 1] = off[i] + z
    BY <1>1 DEF Layout
  <2> HIDE DEF z
  <2>4. off[i] = 0 /\ off[i + 1] = 0
    BY <1>3, <2>1
  <2>5. QED
    BY <2>2, <2>3, <2>4
<1>5. QED
  BY <1>4 DEF BeatComes, HasBeat

\* The network moves acknowledgements and does not lose them.
LEMMA TimerDeliver ==
    ASSUME StreamInv, TimerInv, DeliverUp \/ DeliverDown
    PROVE  TimerInv'
<1>1. CASE DeliverUp
  <2>1. Up' = Up
    BY <1>1, DeliverUpEffect DEF StreamInv
  <2>2. UNCHANGED <<deviceVars, downVars, sessionVars, countVars, historyVars>>
    BY <1>1 DEF DeliverUp
  <2>3. BeatComes' = BeatComes /\ AckComes' = AckComes /\ Fine' = Fine
    BY <2>2 DEF BeatComes, AckComes, Fine, downVars, historyVars, sessionVars, deviceVars
  <2>4. QED
    BY <2>1, <2>2, <2>3 DEF TimerInv, sessionVars, deviceVars
<1>2. CASE DeliverDown
  <2>1. UNCHANGED <<deviceVars, upVars, sessionVars, countVars, historyVars>>
    BY <1>2 DEF DeliverDown
  <2>2. /\ downBuf' \in Seq(Bytes) /\ downNet' \in Seq(Bytes)
        /\ downBuf' \o downNet' = downBuf \o downNet
    BY <1>2, DeliverDownEffect DEF StreamInv
  <2>3. downBuf \in Seq(Bytes) /\ downNet \in Seq(Bytes)
    BY DEF StreamInv, TypeOK
  <2>4. HasAck(downBuf \o downNet) <=> HasAck(downBuf) \/ HasAck(downNet)
    BY <2>3, AckJoin
  <2>5. HasAck(downBuf' \o downNet') <=> HasAck(downBuf') \/ HasAck(downNet')
    BY <2>2, AckJoin
  <2>6. AckComes' <=> AckComes
    BY <2>2, <2>4, <2>5 DEF AckComes
  <2>7. BeatComes' = BeatComes /\ Fine' = Fine /\ Up' = Up
    BY <2>1 DEF BeatComes, Fine, Up, upVars, historyVars, sessionVars, deviceVars
  <2>8. QED
    BY <2>1, <2>6, <2>7 DEF TimerInv, sessionVars, deviceVars
<1>3. QED
  BY <1>1, <1>2

\* An acknowledgement the device reads sets its timer.
LEMMA TimerDevRead ==
    ASSUME StreamInv, TimerInv, ReadAck \/ ReadCommand \/ ReadRest \/ Overrun
    PROVE  TimerInv'
<1>1. devRead
  BY DEF ReadAck, ReadCommand, ReadRest, Overrun, devGets
<1>2. /\ dpc = "read" /\ downBuf' = <<>> /\ faults \subseteq faults'
      /\ UNCHANGED <<mixed, upVars, downNet, sessionVars, countVars>>
  BY <1>1 DEF devRead, fault
<1>3. dpc' # "connect"
  BY <1>2 DEF ReadAck, ReadCommand, ReadRest, Overrun
<1>4. spc' = spc /\ sAlarm' = sAlarm /\ link' = link
  BY <1>2 DEF sessionVars
<1>5. ASSUME Fine'
      PROVE  /\ dAlarm' = "off" => BeatComes' \/ AckComes'
             /\ sAlarm = "half" => ~AckComes' /\ (dAlarm' = "due" \/ BeatComes')
             /\ sAlarm # "due"
  <2>1. link = "up" /\ faults' = {} /\ faults = {} /\ dpc' # "dead"
    BY <1>2, <1>4, <1>5 DEF Fine
  <2> DEFINE k == downBuf[1].kind
  <2>2. k \in Kinds /\ downBuf = message(k) /\ IsStx(downBuf[1]) /\ readCmd = k
    BY <1>1, <2>1, ReadsMessage DEF StreamInv
  <2>3. pending' = pending
    BY <1>1, <2>1 DEF devRead, keep
  <2>4. BeatComes' = BeatComes
    BY <2>3 DEF BeatComes
  <2>5. HasAck(downBuf) <=> k \in {"INIT_RES", "HEART_BEAT_ACK"}
    BY <2>2, AckMessage
  <2>6. ~HasAck(downBuf')
    BY <1>2, AckNone
  <2>7. AckComes' <=> HasAck(downNet)
    BY <1>2, <2>6 DEF AckComes
  <2>8. Fine
    BY <1>2, <2>1 DEF Fine
  <2>9. /\ dAlarm = "off" => BeatComes \/ AckComes
        /\ sAlarm = "half" => ~AckComes /\ (dAlarm = "due" \/ BeatComes)
        /\ sAlarm # "due"
    BY <1>2, <2>8 DEF TimerInv
  <2>10. CASE ReadAck
    <3>1. k \in {"INIT_RES", "HEART_BEAT_ACK"} /\ dAlarm' = "fresh"
      BY <2>2, <2>10 DEF ReadAck, devGets
    <3>2. AckComes
      BY <2>5, <3>1 DEF AckComes
    <3>3. QED
      BY <2>9, <3>1, <3>2
  <2>11. CASE ReadCommand
    <3>1. k = "COMMAND_RTU" /\ dAlarm' = dAlarm
      BY <2>2, <2>11 DEF ReadCommand, devGets
    <3>2. AckComes' <=> AckComes
      BY <2>5, <2>7, <3>1 DEF AckComes
    <3>3. QED
      BY <2>4, <2>9, <3>1, <3>2
  <2>12. CASE ReadRest
    <3>1. k = "none"
      BY <2>2, <2>12 DEF ReadRest
    <3>2. QED
      BY <2>2, <3>1 DEF Kinds
  <2>13. CASE Overrun
    BY <2>1, <2>13 DEF Overrun
  <2>14. QED
    BY <2>10, <2>11, <2>12, <2>13
<1>6. spc = "start" => sAlarm = "off"
  BY DEF TimerInv
<1>7. QED
  BY <1>3, <1>4, <1>5, <1>6 DEF TimerInv

\* What the device sends: its timer is off only after it has sent a heartbeat or INIT_REQ.
LEMMA TimerSend ==
    ASSUME StreamInv, TimerInv,
           Connect \/ BeatAfterRead \/ SigAlrmInRead \/ SigAlrmElsewhere \/ Reply
    PROVE  TimerInv'
<1>1. TypeOK /\ ChainInv
  BY DEF StreamInv
<1>2. PICK m \in Seq(Bytes), k \in Kinds, next \in {"read", "reply", "beat"} :
         Chain(m) /\ devSend(m, <<k>>, next) /\ (m = message(k) \/ faults' # {})
  BY <1>1, Sends
<1>3. /\ dpc' \in {"dead", next} /\ link' = (IF link = "closed" THEN "reset" ELSE link)
      /\ UNCHANGED <<downNet, spc, msgSize, sAlarm, ready, countVars>>
      /\ keep(pending \o <<k>>)
  BY <1>2 DEF devSend
<1>4. dpc' # "connect"
  BY <1>3
<1>5. downBuf' = downBuf /\ faults \subseteq faults'
  BY <1>1, SendsFrame
<1>6. AckComes' = AckComes
  BY <1>3, <1>5 DEF AckComes
<1>7. dpc # "dead"
  BY DEF Connect, BeatAfterRead, SigAlrmInRead, SigAlrmElsewhere, Reply
<1>8. ASSUME Fine'
      PROVE  /\ dAlarm' = "off" => BeatComes' \/ AckComes'
             /\ sAlarm = "half" => ~AckComes' /\ (dAlarm' = "due" \/ BeatComes')
             /\ sAlarm # "due"
  <2>1. Fine /\ faults' = {}
    BY <1>3, <1>5, <1>7, <1>8 DEF Fine
  <2>2. pending' = pending \o <<k>>
    BY <1>3, <2>1 DEF keep
  <2>3. BeatComes' <=> BeatComes \/ k \in {"INIT_REQ", "HEART_BEAT"}
    <3>1. pending \in Seq(Kinds)
      BY <1>1 DEF TypeOK
    <3>2. HasBeat(pending \o <<k>>) <=> HasBeat(pending) \/ k \in {"INIT_REQ", "HEART_BEAT"}
      BY <3>1, BeatJoin
    <3>3. QED
      BY <2>2, <3>2 DEF BeatComes
  <2>4. /\ dpc # "connect" /\ dAlarm = "off" => BeatComes \/ AckComes
        /\ sAlarm = "half" => ~AckComes /\ (dAlarm = "due" \/ BeatComes)
        /\ sAlarm # "due"
    BY <2>1 DEF TimerInv
  <2>5. CASE Reply
    <3>1. dAlarm' = dAlarm /\ dpc # "connect"
      BY <2>5 DEF Reply
    <3>2. QED
      BY <1>6, <2>3, <2>4, <3>1
  <2>6. CASE Connect
    <3>1. sAlarm = "off"
      BY <2>6 DEF Connect, TimerInv
    <3>2. <<k>> = <<"INIT_REQ">>
      <4>1. pending' = pending \o <<"INIT_REQ">> /\ pending \in Seq(Kinds)
        BY <1>1, <2>1, <2>6 DEF Connect, devSend, keep, TypeOK
      <4>2. "INIT_REQ" \in Kinds
        BY DEF Kinds
      <4>3. (pending \o <<k>>)[Len(pending) + 1] = k
            /\ (pending \o <<"INIT_REQ">>)[Len(pending) + 1] = "INIT_REQ"
        BY <4>1, <4>2
      <4>4. QED
        BY <2>2, <4>1, <4>3
    <3>3. k = "INIT_REQ"
      BY <3>2
    <3>4. QED
      BY <2>3, <3>1, <3>3
  <2>7. CASE BeatAfterRead \/ SigAlrmInRead \/ SigAlrmElsewhere
    <3>1. \E n \in {"read", "reply", "beat"} : devBeat(n)
      BY <2>7 DEF BeatAfterRead, SigAlrmInRead, SigAlrmElsewhere
    <3>2. pending' = pending \o <<"HEART_BEAT">> /\ pending \in Seq(Kinds)
      BY <1>1, <2>1, <3>1 DEF devBeat, devSend, keep, TypeOK
    <3>3. "HEART_BEAT" \in Kinds
      BY DEF Kinds
    <3>4. (pending \o <<k>>)[Len(pending) + 1] = k
          /\ (pending \o <<"HEART_BEAT">>)[Len(pending) + 1] = "HEART_BEAT"
      BY <3>2, <3>3
    <3>5. k = "HEART_BEAT"
      BY <2>2, <3>2, <3>4
    <3>6. BeatComes'
      BY <2>3, <3>5
    <3>7. QED
      BY <1>6, <2>4, <3>6
  <2>8. QED
    BY <2>5, <2>6, <2>7
<1>9. spc = "start" => sAlarm = "off"
  BY DEF TimerInv
<1>10. QED
  BY <1>3, <1>4, <1>8, <1>9 DEF TimerInv

\* A heartbeat the session handles sets its timer, and is acknowledged.
LEMMA TimerRecv ==
    ASSUME StreamInv, TimerInv,
           HandleInitReq \/ HandleHeartBeat \/ HandleCommandAck \/ RefuseInitReq
           \/ AssertionFails \/ Discard
    PROVE  TimerInv'
<1>1. recv
  BY RecvCases DEF StreamInv
<1>2. /\ spc = "recv" /\ spc' = "peek" /\ link = "up"
      /\ UNCHANGED <<deviceVars, upNet, downBuf, beats, commands, faults>>
  BY <1>1 DEF recv
<1>3. dpc' # "connect"
  BY <1>2 DEF TimerInv, deviceVars
<1>4. ASSUME Fine'
      PROVE  /\ dAlarm' = "off" => BeatComes' \/ AckComes'
             /\ sAlarm' = "half" => ~AckComes' /\ (dAlarm' = "due" \/ BeatComes')
             /\ sAlarm' # "due"
  <2>1. Fine /\ faults' = {} /\ link' = "up" /\ dAlarm' = dAlarm /\ dpc # "connect"
    BY <1>2, <1>3, <1>4 DEF Fine, deviceVars
  <2>2. /\ dAlarm = "off" => BeatComes \/ AckComes
        /\ sAlarm = "half" => ~AckComes /\ (dAlarm = "due" \/ BeatComes)
        /\ sAlarm # "due"
    BY <2>1 DEF TimerInv
  <2>3. downNet \in Seq(Bytes) /\ pending \in Seq(Kinds)
    BY DEF StreamInv, TypeOK
  <2>4. CASE HandleInitReq \/ HandleHeartBeat
    <3>1. sAlarm' = "fresh"
          /\ \E k \in {"INIT_RES", "HEART_BEAT_ACK"} : downNet' = downNet \o message(k)
      BY <2>4 DEF HandleInitReq, HandleHeartBeat
    <3>2. PICK k \in {"INIT_RES", "HEART_BEAT_ACK"} : downNet' = downNet \o message(k)
      BY <3>1
    <3>3. k \in Kinds
      BY DEF Kinds
    <3>4. message(k) \in Seq(Bytes) /\ HasAck(message(k))
      BY <3>3, AckMessage, MessageFact
    <3>5. HasAck(downNet \o message(k))
      BY <2>3, <3>4, AckJoin
    <3>6. AckComes'
      BY <3>2, <3>5 DEF AckComes
    <3>7. QED
      BY <3>1, <3>6
  <2>5. CASE HandleCommandAck
    <3>1. sAlarm' = sAlarm /\ downNet' = downNet
      BY <2>5 DEF HandleCommandAck
    <3>2. pending' = pending
          \/ (pending # <<>> /\ Head(pending) = "COMMAND_RTU_ACK" /\ pending' = Tail(pending))
      BY <2>1, <2>5 DEF HandleCommandAck, handle, keep
    <3>3. BeatComes' <=> BeatComes
      <4>1. CASE pending' = pending
        BY <4>1 DEF BeatComes
      <4>2. CASE pending # <<>> /\ Head(pending) = "COMMAND_RTU_ACK" /\ pending' = Tail(pending)
        <5>1. HasBeat(Tail(pending)) <=> HasBeat(pending)
          BY <2>3, <4>2, BeatTail
        <5>2. QED
          BY <4>2, <5>1 DEF BeatComes
      <4>3. QED
        BY <3>2, <4>1, <4>2
    <3>4. AckComes' = AckComes
      BY <1>2, <3>1 DEF AckComes
    <3>5. QED
      BY <2>1, <2>2, <3>1, <3>3, <3>4
  <2>6. CASE RefuseInitReq \/ AssertionFails
    BY <2>1, <2>6 DEF RefuseInitReq, AssertionFails
  <2>7. CASE Discard
    <3>1. sAlarm' = sAlarm /\ downNet' = downNet /\ pending' = pending
      BY <2>1, <2>7 DEF Discard, keep
    <3>2. BeatComes' = BeatComes /\ AckComes' = AckComes
      BY <1>2, <3>1 DEF AckComes, BeatComes
    <3>3. QED
      BY <2>1, <2>2, <3>1, <3>2
  <2>8. QED
    BY <2>4, <2>5, <2>6, <2>7
<1>5. QED
  BY <1>2, <1>3, <1>4 DEF TimerInv

\* Half of the session's time passes only after the device's timer has expired or with
\* something under way, and while something is under way no time passes.
LEMMA TimerTick ==
    ASSUME StreamInv, PendingInv, TimerInv, Tick
    PROVE  TimerInv'
<1>1. /\ Idle /\ link = "up" /\ (dAlarm # "due" \/ dpc = "dead")
      /\ sAlarm \in {"fresh", "half"}
      /\ sAlarm' = IF sAlarm = "fresh" THEN "half" ELSE "due"
      /\ UNCHANGED <<dpc, bufCmd, mixed, upVars, downVars, link, spc, msgSize, ready,
                     commands, asked, historyVars>>
  BY DEF Tick
<1>2. spc # "start"
  BY <1>1 DEF TimerInv
<1>3. dpc # "connect"
  BY <1>1 DEF Idle
<1>4. ASSUME Fine'
      PROVE  /\ dAlarm' = "off" => BeatComes' \/ AckComes'
             /\ sAlarm' = "half" => ~AckComes' /\ (dAlarm' = "due" \/ BeatComes')
             /\ sAlarm' # "due"
  <2>1. Fine /\ dpc # "dead" /\ faults = {}
    BY <1>1, <1>4 DEF Fine, historyVars
  <2>2. upNet = <<>> /\ upBuf = <<>> /\ downNet = <<>> /\ downBuf = <<>>
    BY <1>1, <2>1 DEF Idle
  <2>3. ~BeatComes
    BY <1>1, <2>1, <2>2, NothingPending
  <2>4. ~AckComes /\ AckComes' = AckComes
    BY <1>1, <2>2, AckNone DEF AckComes, downVars
  <2>5. /\ dAlarm = "off" => BeatComes \/ AckComes
        /\ sAlarm = "half" => ~AckComes /\ (dAlarm = "due" \/ BeatComes)
    BY <1>3, <2>1 DEF TimerInv
  <2>6. dAlarm = "fresh"
    BY <1>1, <2>1, <2>3, <2>4, <2>5 DEF StreamInv, TypeOK
  <2>7. dAlarm' = "due"
    BY <2>1, <2>6 DEF Tick
  <2>8. sAlarm # "half"
    BY <1>1, <2>1, <2>3, <2>5
  <2>9. QED
    BY <1>1, <2>4, <2>7, <2>8
<1>5. QED
  BY <1>1, <1>2, <1>3, <1>4 DEF TimerInv

\* The other steps of the session, and of its device's end, keep the timers in step.
LEMMA TimerSession ==
    ASSUME StreamInv, PendingInv, TimerInv,
           Start \/ StartFails \/ SendCommand \/ Peek \/ SessionTimeout
           \/ PeerReset \/ Tick \/ PowerOff \/ ReadNothing \/ UNCHANGED vars
    PROVE  TimerInv'
<1>1. CASE Start
  <2>1. /\ spc = "start" /\ Len(upBuf) >= 2 /\ spc' = "peek" /\ sAlarm' = "fresh"
        /\ faults \subseteq faults' /\ link' = link /\ (faults' = {} => pending' = pending)
        /\ UNCHANGED <<deviceVars, upVars, downVars>>
    BY <1>1 DEF Start, fault, keep
  <2>2. Len(upBuf) # 0 /\ upBuf \in Seq(Bytes) /\ upNet \in Seq(Bytes)
        /\ Len(upBuf) \in Nat /\ Len(upNet) \in Nat
    BY <2>1 DEF StreamInv, TypeOK
  <2>3. Up # <<>>
    <3>1. Len(Up) # 0
      BY <2>2, UpFact DEF StreamInv
    <3>2. QED
      BY <3>1, EmptySeq
  <2>4. dpc # "connect" /\ dpc' # "connect"
    BY <2>1, <2>3 DEF TimerInv, deviceVars
  <2>5. ASSUME Fine' PROVE dAlarm' = "off" => BeatComes' \/ AckComes'
    <3>1. Fine /\ pending' = pending /\ dAlarm' = dAlarm
      BY <2>1, <2>5 DEF Fine, deviceVars
    <3>2. BeatComes' = BeatComes /\ AckComes' = AckComes
      BY <2>1, <3>1 DEF BeatComes, AckComes, downVars
    <3>3. QED
      BY <2>4, <3>1, <3>2 DEF TimerInv
  <2>6. QED
    BY <2>1, <2>4, <2>5 DEF TimerInv
<1>2. CASE SendCommand
  <2>1. /\ downNet' = downNet \o message("COMMAND_RTU") /\ spc = "peek"
        /\ UNCHANGED <<deviceVars, upVars, downBuf, sessionVars, beats, historyVars>>
    BY <1>2 DEF SendCommand
  <2>2. downNet \in Seq(Bytes) /\ "COMMAND_RTU" \in Kinds
    BY DEF StreamInv, TypeOK, Kinds
  <2>3. message("COMMAND_RTU") \in Seq(Bytes) /\ ~HasAck(message("COMMAND_RTU"))
    BY <2>2, AckMessage, MessageFact
  <2>4. HasAck(downNet \o message("COMMAND_RTU")) <=> HasAck(downNet)
    BY <2>2, <2>3, AckJoin
  <2>5. AckComes' <=> AckComes
    BY <2>1, <2>4 DEF AckComes
  <2>6. BeatComes' = BeatComes /\ Fine' = Fine /\ Up' = Up
    BY <2>1 DEF BeatComes, Fine, Up, upVars, historyVars, sessionVars, deviceVars
  <2>7. QED
    BY <2>1, <2>5, <2>6 DEF TimerInv, sessionVars, deviceVars
<1>3. CASE Peek
  <2>1. /\ spc = "peek" /\ spc' = "recv" /\ sAlarm' = sAlarm
        /\ faults \subseteq faults' /\ link' = link /\ (faults' = {} => pending' = pending)
        /\ UNCHANGED <<deviceVars, upVars, downVars>>
    BY <1>3 DEF Peek, fault, keep
  <2>2. dpc' # "connect"
    BY <2>1 DEF TimerInv, deviceVars
  <2>3. Fine' => Fine /\ pending' = pending
    BY <2>1 DEF Fine, deviceVars
  <2>4. AckComes' = AckComes /\ (pending' = pending => BeatComes' = BeatComes) /\ dAlarm' = dAlarm
        /\ dpc' = dpc
    BY <2>1 DEF BeatComes, AckComes, downVars, deviceVars
  <2>5. QED
    BY <2>1, <2>2, <2>3, <2>4 DEF TimerInv
<1>4. CASE StartFails \/ SessionTimeout \/ PeerReset
  <2>1. link' = "closed" /\ UNCHANGED <<deviceVars, upVars, spc, sAlarm>>
    BY <1>4 DEF StartFails, SessionTimeout, PeerReset
  <2>2. ~Fine' /\ Up' = Up
    BY <2>1 DEF Fine, Up, upVars
  <2>3. QED
    BY <2>1, <2>2 DEF TimerInv, deviceVars
<1>5. CASE PowerOff \/ ReadNothing
  <2>1. dpc' \in {"dead", "beat"} /\ ~Fine' /\ UNCHANGED sessionVars
    BY <1>5 DEF PowerOff, ReadNothing, Fine, sessionVars
  <2>2. QED
    BY <2>1 DEF TimerInv, sessionVars
<1>6. CASE UNCHANGED vars
  <2>1. BeatComes' = BeatComes /\ AckComes' = AckComes /\ Fine' = Fine /\ Up' = Up
    BY <1>6 DEF BeatComes, AckComes, Fine, Up, vars
  <2>2. QED
    BY <1>6, <2>1 DEF TimerInv, vars
<1>7. QED
  BY <1>1, <1>2, <1>3, <1>4, <1>5, <1>6, TimerTick

\* Each action keeps the timers in step.
LEMMA TimerStep == StreamInv /\ PendingInv /\ TimerInv /\ [Next]_vars => TimerInv'
<1> SUFFICES ASSUME StreamInv, PendingInv, TimerInv, [Next]_vars PROVE TimerInv'
  OBVIOUS
<1>1. \/ DeliverUp \/ DeliverDown
      \/ ReadAck \/ ReadCommand \/ ReadRest \/ Overrun
      \/ Connect \/ BeatAfterRead \/ SigAlrmInRead \/ SigAlrmElsewhere \/ Reply
      \/ HandleInitReq \/ HandleHeartBeat \/ HandleCommandAck \/ RefuseInitReq
      \/ AssertionFails \/ Discard
      \/ Start \/ StartFails \/ SendCommand \/ Peek \/ SessionTimeout
      \/ PeerReset \/ Tick \/ PowerOff \/ ReadNothing \/ UNCHANGED vars
  BY DEF Next, DeviceStep, SessionStep
<1>2. CASE DeliverUp \/ DeliverDown
  BY <1>2, TimerDeliver
<1>3. CASE ReadAck \/ ReadCommand \/ ReadRest \/ Overrun
  BY <1>3, TimerDevRead
<1>4. CASE Connect \/ BeatAfterRead \/ SigAlrmInRead \/ SigAlrmElsewhere \/ Reply
  BY <1>4, TimerSend
<1>5. CASE HandleInitReq \/ HandleHeartBeat \/ HandleCommandAck \/ RefuseInitReq
           \/ AssertionFails \/ Discard
  BY <1>5, TimerRecv
<1>6. CASE Start \/ StartFails \/ SendCommand \/ Peek \/ SessionTimeout
           \/ PeerReset \/ Tick \/ PowerOff \/ ReadNothing \/ UNCHANGED vars
  BY <1>6, TimerSession
<1>7. QED
  BY <1>1, <1>2, <1>3, <1>4, <1>5, <1>6

\* The link's invariant: the streams, the pending messages and the timers.
LEMMA LinkHolds == Spec => []LinkInv
<1>1. Init => TimerInv
  <2>1. <<>> \o <<>> = <<>>
    OBVIOUS
  <2>2. QED
    BY <2>1 DEF Init, TimerInv, Up
<1>2. Init => LinkInv
  BY <1>1, StreamInit, PendingInit DEF LinkInv
<1>3. LinkInv /\ [Next]_vars => LinkInv'
  BY StreamStep, PendingStep, TimerStep DEF LinkInv
<1>4. QED
  BY <1>2, <1>3, PTL DEF Spec

\* rtu_timeout_handler ends the session of a device that lives only after something went
\* wrong with a message: as long as whole messages arrive, however late within a period of
\* the device's timer, the alarm set again by every heartbeat never comes.
THEOREM TimeoutIsJustified == Spec => TimeoutJustified
<1>1. LinkInv => (SessionTimeout => dpc = "dead" \/ faults # {})
  BY DEF LinkInv, TimerInv, SessionTimeout, Fine
<1>2. QED
  BY <1>1, LinkHolds, PTL DEF TimeoutJustified
=============================================================================
