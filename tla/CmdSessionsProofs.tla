--------------------------- MODULE CmdSessionsProofs ---------------------------
(***************************************************************************)
(* What is proved of CmdSessions for any number of children and any length *)
(* of the table: its types, that addresses of the table are never held     *)
(* twice, and that a slot is in use only by a child that is alive, still   *)
(* to be waited for, or was waited for before its pid was noted.           *)
(***************************************************************************)
EXTENDS CmdSessions, MapperFileProofs

\* Between Pick and Record the slot chosen stays free; between Fork and Record the
\* child is known to the parent and to no slot.
MainInv ==
    /\ mpc \in {"fork", "record"} /\ cmdAddr # Fallback
          => cmd_running = "true" /\ cmd_addr_list[cmdAddr] = NoPid
    /\ mpc = "record" =>
          /\ pid \in Pids
          /\ proc[pid] # "unborn"
          /\ given[pid] = cmdAddr
          /\ proc[pid] = "gone" => pid \in early
          /\ \A i \in Slots : cmd_addr_list[i] # pid

HandlerInv == hpc = "remove" => spid \in Pids

\* A slot in use names a child that was forked, another one in each slot.
TableInv ==
    /\ \A i \in Slots : cmd_addr_list[i] # NoPid =>
          /\ proc[cmd_addr_list[i]] # "unborn"
          /\ proc[cmd_addr_list[i]] = "gone" => cmd_addr_list[i] \in early
    /\ \A i, j \in Slots :
          cmd_addr_list[i] = cmd_addr_list[j] /\ cmd_addr_list[i] # NoPid => i = j

\* Who holds an address and has not been waited for is in its slot, or about to be
\* noted there.
HolderInv ==
    \A p \in Pids :
        given[p] # Fallback /\ proc[p] \in {"live", "zombie"} =>
            cmd_addr_list[given[p]] = p \/ (mpc = "record" /\ pid = p)

SessionsInv == TypeOK /\ MainInv /\ HandlerInv /\ TableInv /\ HolderInv

-----------------------------------------------------------------------------
\* The server starts with a free table, no children and no line in cmd.data.
LEMMA SessionsInit == Init => SessionsInv
<1> SUFFICES ASSUME Init PROVE SessionsInv
    OBVIOUS
<1> USE DEF Init
<1>1. <<>> \in Seq(Entries) /\ Len(<<>>) = 0 /\ 0 <= MAX_POOL
    BY MapperAssumption
<1>2. TypeOK
    BY <1>1 DEF TypeOK, Ports
<1>3. MainInv /\ HandlerInv /\ TableInv /\ HolderInv
    BY DEF MainInv, HandlerInv, TableInv, HolderInv
<1>4. QED
    BY <1>2, <1>3 DEF SessionsInv

\* The array a file is read into.
LEMMA FreshArray ==
    ASSUME TypeOK
    PROVE  /\ read_mapper(data, EmptyList) \in Lists
           /\ getTotalLine(data) \in Nat
<1>1. EmptyList \in Lists
    BY DEF EmptyList, Free, Lists, Mappers
<1>2. QED
    BY <1>1, ReadMapperFact DEF TypeOK, Lists, getTotalLine

\* The slot Pick chooses is one that no child holds.
LEMMA FirstFreeIsFree ==
    ASSUME Free_slots # {}
    PROVE  FirstFree \in Slots /\ cmd_addr_list[FirstFree] = NoPid
<1>1. Free_slots \in SUBSET Slots
    BY DEF Free_slots
<1>2. 1 \in 1..Cardinality(Free_slots)
    BY <1>1, RankIsNumbering, FS_EmptySet
<1>3. FirstFree \in Free_slots
    BY <1>1, <1>2, NthIsThere DEF FirstFree
<1>4. QED
    BY <1>3 DEF Free_slots

\* Registration and removal change the file only, and leave it a file.
LEMMA RegisterFile ==
    ASSUME SessionsInv, NEW p \in Pids, Register(p)
    PROVE  data' \in Seq(Entries) /\ Len(data') <= MAX_POOL
<1> DEFINE addr == setAddr(given[p])
           line == getTotalLine(data)
           list == read_mapper(data, EmptyList)
           added == put_mapper(list, line, add_mapper(p, addr))
<1>1. TypeOK
    BY DEF SessionsInv
<1>2. list \in Lists /\ line \in Nat
    BY <1>1, FreshArray
<1>3. addr \in Addrs
    BY <1>1, SessionsAssumption, MapperAssumption DEF TypeOK, setAddr, Slots
<1>4. add_mapper(p, addr) \in Entries
    BY <1>3 DEF add_mapper, Entries
<1>5. added \in Lists
    BY <1>2, <1>4, PutType
<1>6. write_mapper(added) \in Seq(Entries) /\ Len(write_mapper(added)) <= MAX_POOL
    BY <1>5, WriteMapperFact DEF Lists
<1>7. data' = write_mapper(added) \/ data' = data
    BY DEF Register
<1>8. QED
    BY <1>1, <1>6, <1>7 DEF TypeOK

\* What the handler writes back fits cmd.data.
LEMMA RemoveFile ==
    ASSUME SessionsInv, Remove
    PROVE  data' \in Seq(Entries) /\ Len(data') <= MAX_POOL
<1> DEFINE line == getTotalLine(data)
           list == delete_mapper(read_mapper(data, EmptyList), line, spid)
<1>1. TypeOK /\ spid \in Pids
    BY DEF SessionsInv, HandlerInv, Remove
<1>2. list \in Lists
    BY <1>1, FreshArray, DeleteType
<1>3. write_mapper(list) \in Seq(Entries) /\ Len(write_mapper(list)) <= MAX_POOL
    BY <1>2, WriteMapperFact DEF Lists
<1>4. data' = write_mapper(list) \/ data' = data
    BY DEF Remove
<1>5. QED
    BY <1>1, <1>3, <1>4 DEF TypeOK

-----------------------------------------------------------------------------
\* No step of the main loop, a child or the handler breaks the table's invariant.
LEMMA SessionsStep == SessionsInv /\ [Next]_vars => SessionsInv'
<1> SUFFICES ASSUME SessionsInv, [Next]_vars PROVE SessionsInv'
    OBVIOUS
<1>0. TypeOK /\ MainInv /\ HandlerInv /\ TableInv /\ HolderInv
    BY DEF SessionsInv
<1> USE SessionsAssumption, MapperAssumption
        DEF SessionsInv, MainInv, HandlerInv, TableInv, HolderInv, mainVars, childVars, handlerVars
<1>1. CASE AcceptRtu \/ AcceptCmd \/ AcceptNone
    BY <1>0, <1>1 DEF TypeOK, AcceptRtu, AcceptCmd, AcceptNone, Ports
<1>2. CASE Pick
  <2>1. \/ cmdAddr' = Fallback
        \/ cmd_running = "true" /\ cmdAddr' \in Slots /\ cmd_addr_list[cmdAddr'] = NoPid
    BY <1>2, FirstFreeIsFree DEF Pick
  <2>2. mpc = "pick" /\ mpc' = "fork"
        /\ UNCHANGED <<cmd_running, port, pid, cmd_addr_list, proc, childVars, data, handlerVars, early>>
    BY <1>2 DEF Pick
  <2>3. QED
    BY <1>0, <2>1, <2>2 DEF TypeOK
<1>3. ASSUME NEW p \in Pids, Fork(p) PROVE SessionsInv'
    BY <1>0, <1>3 DEF TypeOK, Fork
<1>4. CASE ForkFails
    BY <1>0, <1>4 DEF TypeOK, ForkFails, Ports
<1>5. CASE Record
  <2>1. mpc = "record" /\ mpc' = "accept" /\ cmdAddr' = Fallback /\ port' = "rtu" /\ pid' = NoPid
        /\ UNCHANGED <<cmd_running, proc, childVars, data, handlerVars, early>>
        /\ cmd_addr_list' = [i \in Slots |-> IF cmd_running = "true" /\ i = cmdAddr
                                             THEN pid ELSE cmd_addr_list[i]]
    BY <1>5 DEF Record
  <2>2. TypeOK'
    BY <1>0, <2>1 DEF TypeOK, Ports
  <2>3. MainInv' /\ HandlerInv'
    BY <1>0, <2>1
  <2>4. TableInv'
    BY <1>0, <2>1 DEF TypeOK
  <2>5. HolderInv'
    BY <1>0, <2>1 DEF TypeOK
  <2>6. QED
    BY <2>2, <2>3, <2>4, <2>5
<1>6. ASSUME NEW p \in Pids, Register(p) PROVE SessionsInv'
  <2>1. data' \in Seq(Entries) /\ Len(data') <= MAX_POOL
    BY <1>6, RegisterFile
  <2>2. pc' = [pc EXCEPT ![p] = "loop"]
        /\ UNCHANGED <<mainVars, cmd_addr_list, proc, role, given, handlerVars, early>>
    BY <1>6 DEF Register
  <2>3. QED
    BY <1>0, <2>1, <2>2 DEF TypeOK
<1>7. ASSUME NEW p \in Pids, Die(p) PROVE SessionsInv'
    BY <1>0, <1>7 DEF TypeOK, Die
<1>8. CASE HandlerEnter
    BY <1>0, <1>8 DEF TypeOK, HandlerEnter
<1>9. ASSUME NEW p \in Pids, Reap(p) PROVE SessionsInv'
  <2>1. /\ proc[p] = "zombie" /\ proc' = [proc EXCEPT ![p] = "gone"]
        /\ spid' = p /\ hpc' = "remove"
        /\ early' = IF mpc = "record" /\ pid = p THEN early \cup {p} ELSE early
        /\ UNCHANGED <<mainVars, childVars, data, chld>>
    BY <1>9 DEF Reap
  \* p has at most one slot, which becomes free; the others are left alone.
  <2>2. cmd_addr_list' = [i \in Slots |-> IF cmd_addr_list[i] = p THEN NoPid ELSE cmd_addr_list[i]]
    <3>1. \A i, j \in Slots : cmd_addr_list[i] = p /\ cmd_addr_list[j] = p => i <= j
      <4>1. \A i \in Slots : i \in Int
        BY DEF Slots
      <4>2. QED
        BY <1>0, <4>1
    <3>2. QED
        BY <1>9, <3>1 DEF Reap
  <2>3. TypeOK'
    BY <1>0, <2>1, <2>2 DEF TypeOK
  <2>4. MainInv' /\ HandlerInv'
    BY <1>0, <2>1, <2>2 DEF TypeOK
  <2>5. TableInv'
    BY <1>0, <2>1, <2>2 DEF TypeOK
  <2>6. HolderInv'
    BY <1>0, <2>1, <2>2 DEF TypeOK
  <2>7. QED
    BY <2>3, <2>4, <2>5, <2>6
<1>10. CASE Remove
  <2>1. data' \in Seq(Entries) /\ Len(data') <= MAX_POOL
    BY <1>10, RemoveFile
  <2>2. hpc' = "reap" /\ UNCHANGED <<mainVars, cmd_addr_list, proc, childVars, chld, spid, early>>
    BY <1>10 DEF Remove
  <2>3. QED
    BY <1>0, <2>1, <2>2 DEF TypeOK
<1>11. CASE HandlerReturn
    BY <1>0, <1>11 DEF TypeOK, HandlerReturn
<1>12. CASE UNCHANGED vars
    BY <1>0, <1>12 DEF TypeOK, vars
<1>13. QED
    BY <1>1, <1>2, <1>3, <1>4, <1>5, <1>6, <1>7, <1>8, <1>9, <1>10, <1>11, <1>12
    DEF Next, Main, Handler

\* The invariant holds in every behaviour of CmdSessions.
THEOREM SessionsInductive == Spec => []SessionsInv
BY SessionsInit, SessionsStep, PTL DEF Spec

\* Every variable keeps its type, above all the table of addresses and cmd.data.
THEOREM SessionTypes == Spec => []TypeOK
<1>1. SessionsInv => TypeOK
    BY DEF SessionsInv
<1>2. QED
    BY <1>1, SessionsInductive, PTL

\* Two living children never hold the same address of the table.
THEOREM DistinctAddresses == Spec => []AddressesDistinct
<1>1. ASSUME SessionsInv PROVE AddressesDistinct
  <2> SUFFICES ASSUME NEW p \in Pids, NEW q \in Pids, Live(p), Live(q),
                      given[p] = given[q], given[p] # Fallback
               PROVE  p = q
    BY DEF AddressesDistinct
  <2>1. TypeOK /\ MainInv /\ HolderInv
    BY <1>1 DEF SessionsInv
  <2>2. /\ cmd_addr_list[given[p]] = p \/ (mpc = "record" /\ pid = p)
        /\ cmd_addr_list[given[q]] = q \/ (mpc = "record" /\ pid = q)
    BY <2>1 DEF HolderInv, Live
  <2>3. mpc = "record" /\ (pid = p \/ pid = q) => cmd_addr_list[given[p]] = NoPid
    BY <2>1 DEF MainInv
  <2>4. QED
    BY <2>2, <2>3, MapperAssumption
<1>2. QED
    BY <1>1, SessionsInductive, PTL

\* A slot in use belongs to a child that is alive, still to be waited for, or was
\* waited for before its pid was noted.
THEOREM SlotsAreReturned == Spec => []SlotsReturn
<1>1. ASSUME SessionsInv PROVE SlotsReturn
  <2>1. TypeOK /\ TableInv
    BY <1>1 DEF SessionsInv
  <2>2. QED
    BY <2>1, MapperAssumption DEF TypeOK, TableInv, SlotsReturn
<1>2. QED
    BY <1>1, SessionsInductive, PTL

-----------------------------------------------------------------------------
(* What cmd.data says.                                                      *)

\* Every line names a session that has registered, under its address; of a session
\* that has been waited for the line is there only until the handler removes it. No
\* address has two lines.
Fits(e) ==
    /\ proc[e.pid] # "unborn" /\ role[e.pid] = "cmd" /\ pc[e.pid] = "loop"
    /\ e.addr = setAddr(given[e.pid])
    /\ proc[e.pid] = "gone" => hpc = "remove" /\ spid = e.pid
LinesInv ==
    /\ \A k \in 1..Len(data) : Fits(data[k])
    /\ Distinct(data)

\* While the handler removes the line of a session, its address is nobody else's: the
\* main loop stands still.
RemoveInv ==
    hpc = "remove" =>
        /\ proc[spid] = "gone"
        /\ given[spid] # Fallback =>
              \A p \in Pids : proc[p] \in {"live", "zombie"} => given[p] # given[spid]

\* A session with an address of its own is listed.
Own(p) == given[p] # Fallback /\ (setAddr(given[p]) = 1 => ~FallbackUsed)
OwnInv ==
    \A p \in Pids :
        /\ proc[p] = "unborn" => pc[p] = "start"
        /\ Session(p) /\ pc[p] = "loop" /\ Own(p) => Listed(p)

FileInv == SessionsInv /\ LinesInv /\ RemoveInv /\ OwnInv

\* The file, as a fresh array has it.
LEMMA FileFacts ==
    ASSUME TypeOK
    PROVE  LET list == read_mapper(data, EmptyList)
           IN  /\ list \in Lists
               /\ getTotalLine(data) = Len(data) /\ Len(data) \in Nat
               /\ \A i \in 1..Len(data) : /\ i \in Slots /\ i <= Len(data) /\ list[i] = data[i]
                                          /\ data[i] \in Entries
                                          /\ data[i].pid \in Pids /\ data[i].pid # NoPid
               /\ \A i \in Slots : i <= Len(data) => i \in 1..Len(data)
               /\ \A i \in Slots : i \notin 1..Len(data) => list[i].pid = NoPid
<1>1. data \in Seq(Entries) /\ Len(data) <= MAX_POOL
    BY DEF TypeOK
<1>2. \A e \in Entries : e.pid \in Pids
    BY DEF Entries
<1>3. QED
    BY <1>1, <1>2, FreshLines

\* The addresses of sessions are addresses of the table.
LEMMA AddressOf ==
    ASSUME TypeOK, NEW p \in Pids
    PROVE  setAddr(given[p]) \in Addrs
BY SessionsAssumption, MapperAssumption DEF TypeOK, setAddr, Slots

\* Registration adds the session, if nobody is found at its address, and nothing
\* else.
LEMMA RegisterLines ==
    ASSUME SessionsInv, LinesInv, NEW p \in Pids, Register(p)
    PROVE  LET addr == setAddr(given[p])
           IN  \/ /\ \E i \in 1..Len(data) : data[i].addr = addr
                  /\ data' = data
               \/ /\ \A i \in 1..Len(data) : data[i].addr # addr
                  /\ \A i \in 1..Len(data) : \E k \in 1..Len(data') : data'[k] = data[i]
                  /\ \E k \in 1..Len(data') : data'[k] = add_mapper(p, addr)
                  /\ \A k \in 1..Len(data') : \/ data'[k] = add_mapper(p, addr)
                                              \/ \E i \in 1..Len(data) : data'[k] = data[i]
                  /\ Distinct(data')
<1> DEFINE addr == setAddr(given[p])
           line == getTotalLine(data)
           list == read_mapper(data, EmptyList)
           me == add_mapper(p, addr)
           added == put_mapper(list, line, me)
<1>1. TypeOK
    BY DEF SessionsInv
<1>2. /\ list \in Lists /\ line = Len(data) /\ line \in Nat
      /\ \A i \in 1..Len(data) : i \in Slots /\ i <= Len(data) /\ list[i] = data[i]
                                 /\ data[i].pid # NoPid
      /\ \A i \in Slots : i \notin 1..Len(data) => list[i].pid = NoPid
    BY <1>1, FileFacts
<1>3. addr \in Addrs
    BY <1>1, AddressOf
<1>4. me \in Entries /\ me.pid = p /\ me.addr = addr /\ p # NoPid
    BY <1>3, MapperAssumption DEF add_mapper, Entries
<1>5. data' = IF search_pid(list, line, addr) = NoPid THEN write_mapper(added) ELSE data
    BY DEF Register
<1>6. \/ search_pid(list, line, addr) = NoPid /\ \A i \in 1..Len(data) : data[i].addr # addr
      \/ \E i \in 1..Len(data) : search_pid(list, line, addr) = data[i].pid /\ data[i].addr = addr
  <2>1. data \in Seq(Entries) /\ Len(data) <= MAX_POOL
    BY <1>1 DEF TypeOK
  <2>2. QED
    BY <1>2, <2>1, FreshSearch
<1> HIDE DEF addr, line, list, me
<1>7. CASE \E i \in 1..Len(data) : search_pid(list, line, addr) = data[i].pid /\ data[i].addr = addr
    BY <1>2, <1>5, <1>7 DEF addr
<1>8. CASE search_pid(list, line, addr) = NoPid /\ \A i \in 1..Len(data) : data[i].addr # addr
  <2>1. data' = write_mapper(added)
    BY <1>5, <1>8
  <2>2. Len(data) < MAX_POOL
    BY <1>1, <1>3, <1>8, SessionsAssumption, RoomLeft DEF TypeOK, LinesInv
  <2>3. line + 1 \in Slots /\ line + 1 \notin 1..Len(data)
    BY <1>2, <2>2, MapperAssumption DEF Slots
  <2>4. /\ added \in Lists /\ added[line + 1] = me
        /\ \A i \in Slots : i # line + 1 => added[i] = list[i]
    BY <1>2, <1>4, <2>3, PutType
  <2>5. Used(added) = 1..Len(data) \cup {line + 1}
    BY <1>2, <1>4, <2>3, <2>4 DEF Used
  <2> HIDE DEF added
  <2>6. \A i \in 1..Len(data) : i \in Used(added) /\ added[i] = data[i]
    BY <1>2, <2>3, <2>4, <2>5
  <2>7. Distinct(data')
    <3>1. ASSUME NEW i \in Used(added), NEW j \in Used(added), added[i].addr = added[j].addr
          PROVE  i = j
        BY <1>4, <1>8, <2>4, <2>5, <2>6, <3>1 DEF LinesInv, Distinct
    <3>2. QED
        BY <2>1, <2>4, <3>1, WriteDistinct DEF Lists
  <2>8. /\ \A k \in 1..Len(data') : \E i \in Used(added) : data'[k] = added[i]
        /\ \A i \in Used(added) : \E k \in 1..Len(data') : data'[k] = added[i]
    BY <2>1, <2>4, WriteMapperFact DEF Lists
  <2>9. \A i \in 1..Len(data) : \E k \in 1..Len(data') : data'[k] = data[i]
    BY <2>6, <2>8
  <2>10. \E k \in 1..Len(data') : data'[k] = me
    BY <2>4, <2>5, <2>8
  <2>11. ASSUME NEW k \in 1..Len(data')
         PROVE  data'[k] = me \/ \E i \in 1..Len(data) : data'[k] = data[i]
    BY <2>4, <2>5, <2>6, <2>8
  <2>12. QED
    BY <1>8, <2>7, <2>9, <2>10, <2>11 DEF addr, me
<1>9. QED
    BY <1>6, <1>7, <1>8

\* The handler removes the lines of the process it has waited for, and no other.
LEMMA RemoveLines ==
    ASSUME SessionsInv, LinesInv, Remove
    PROVE  /\ \A k \in 1..Len(data') : /\ data'[k].pid # spid
                                       /\ \E i \in 1..Len(data) : data'[k] = data[i]
           /\ \A i \in 1..Len(data) : data[i].pid # spid =>
                 \E k \in 1..Len(data') : data'[k] = data[i]
           /\ Distinct(data')
<1> DEFINE line == getTotalLine(data)
           old == read_mapper(data, EmptyList)
           list == delete_mapper(old, line, spid)
<1>1. TypeOK /\ spid \in Pids
    BY DEF SessionsInv, HandlerInv, Remove
<1>2. /\ old \in Lists /\ line = Len(data) /\ line \in Nat
      /\ \A i \in 1..Len(data) : i \in Slots /\ i <= Len(data) /\ old[i] = data[i]
                                 /\ data[i].pid # NoPid
      /\ \A i \in Slots : i <= Len(data) => i \in 1..Len(data)
      /\ \A i \in Slots : i \notin 1..Len(data) => old[i].pid = NoPid
    BY <1>1, FileFacts
<1>3. data' = IF PidHits(old, line, spid) # {} THEN write_mapper(list) ELSE data
    BY DEF Remove
<1>4. /\ list \in Lists
      /\ \A i \in Slots : i <= line /\ old[i].pid = spid => list[i].pid = NoPid
      /\ \A i \in Slots : ~(i <= line /\ old[i].pid = spid) => list[i] = old[i]
    BY <1>1, <1>2, DeleteType
<1> HIDE DEF line, old, list
<1>5. CASE PidHits(old, line, spid) = {}
  <2>1. \A i \in 1..Len(data) : data[i].pid # spid
    BY <1>2, <1>5 DEF PidHits
  <2>2. QED
    BY <1>3, <1>5, <2>1 DEF LinesInv
<1>6. CASE PidHits(old, line, spid) # {}
  <2>1. data' = write_mapper(list)
    BY <1>3, <1>6
  <2>2. \A i \in Used(list) : i \in 1..Len(data) /\ list[i] = data[i] /\ data[i].pid # spid
    BY <1>2, <1>4 DEF Used
  <2>3. \A i \in 1..Len(data) : data[i].pid # spid => i \in Used(list) /\ list[i] = data[i]
    BY <1>2, <1>4 DEF Used
  <2>4. /\ \A k \in 1..Len(data') : \E i \in Used(list) : data'[k] = list[i]
        /\ \A i \in Used(list) : \E k \in 1..Len(data') : data'[k] = list[i]
    BY <1>4, <2>1, WriteMapperFact DEF Lists
  <2>5. Distinct(data')
    <3>1. ASSUME NEW i \in Used(list), NEW j \in Used(list), list[i].addr = list[j].addr
          PROVE  i = j
        BY <2>2, <3>1 DEF LinesInv, Distinct
    <3>2. QED
        BY <1>4, <2>1, <3>1, WriteDistinct DEF Lists
  <2>6. \A k \in 1..Len(data') : data'[k].pid # spid /\ \E i \in 1..Len(data) : data'[k] = data[i]
    BY <2>2, <2>4
  <2>7. QED
    BY <2>3, <2>4, <2>5, <2>6
<1>7. QED
    BY <1>5, <1>6

-----------------------------------------------------------------------------
\* cmd.data is empty at first.
LEMMA FileInit == Init => FileInv
<1> SUFFICES ASSUME Init PROVE FileInv
    OBVIOUS
<1>1. SessionsInv
    BY SessionsInit
<1>2. LinesInv
    BY DEF Init, LinesInv, Distinct
<1>3. RemoveInv /\ OwnInv
    BY DEF Init, RemoveInv, OwnInv, Session, Live
<1>4. QED
    BY <1>1, <1>2, <1>3 DEF FileInv

\* An address of the table has one holder among those not waited for.
LEMMA OneHolder ==
    ASSUME SessionsInv, NEW p \in Pids, NEW q \in Pids,
           proc[p] \in {"live", "zombie"}, proc[q] \in {"live", "zombie"},
           given[p] = given[q], given[p] # Fallback
    PROVE  p = q
<1>1. TypeOK /\ MainInv /\ HolderInv
    BY DEF SessionsInv
<1>2. /\ cmd_addr_list[given[p]] = p \/ (mpc = "record" /\ pid = p)
      /\ cmd_addr_list[given[q]] = q \/ (mpc = "record" /\ pid = q)
    BY <1>1 DEF HolderInv
<1>3. mpc = "record" /\ (pid = p \/ pid = q) => cmd_addr_list[given[p]] = NoPid
    BY <1>1 DEF MainInv
<1>4. QED
    BY <1>2, <1>3, MapperAssumption

\* Steps that change neither the file nor any child, nor what the handler removes.
LEMMA FileFrame ==
    ASSUME FileInv, UNCHANGED <<data, proc, role, given, pc>>,
           hpc = "remove" <=> hpc' = "remove",
           hpc = "remove" => spid' = spid
    PROVE  LinesInv' /\ RemoveInv' /\ OwnInv'
<1>1. LinesInv /\ RemoveInv /\ OwnInv
    BY DEF FileInv
<1>2. LinesInv'
    BY <1>1 DEF LinesInv, Fits, Distinct
<1>3. RemoveInv'
    BY <1>1 DEF RemoveInv
<1>4. OwnInv'
    BY <1>1 DEF OwnInv, Own, FallbackUsed, Session, Live, Listed
<1>5. QED
    BY <1>2, <1>3, <1>4

\* A new child has no line yet, and an address that no line has.
LEMMA FileFork ==
    ASSUME FileInv, NEW p \in Pids, Fork(p)
    PROVE  LinesInv' /\ RemoveInv' /\ OwnInv'
<1>1. TypeOK /\ LinesInv /\ OwnInv
    BY DEF FileInv, SessionsInv
<1>2. /\ hpc = "idle" /\ hpc' = hpc /\ proc[p] = "unborn" /\ UNCHANGED <<pc, data>>
      /\ proc' = [proc EXCEPT ![p] = "live"]
      /\ role' = [role EXCEPT ![p] = port] /\ given' = [given EXCEPT ![p] = cmdAddr]
    BY DEF Fork, handlerVars
<1>3. \A k \in 1..Len(data) : data[k].pid \in Pids
    BY <1>1, FileFacts
<1>4. \A q \in Pids \ {p} : proc'[q] = proc[q] /\ role'[q] = role[q] /\ given'[q] = given[q]
    BY <1>1, <1>2 DEF TypeOK
<1>5. LinesInv'
  <2>1. \A k \in 1..Len(data) : data[k].pid \in Pids \ {p}
    BY <1>1, <1>2, <1>3 DEF LinesInv, Fits
  <2>2. QED
    BY <1>1, <1>2, <1>4, <2>1 DEF LinesInv, Fits, Distinct
<1>6. RemoveInv'
    BY <1>2 DEF RemoveInv
<1>7. FallbackUsed => FallbackUsed'
    BY <1>1, <1>2, <1>4 DEF FallbackUsed
<1>8. ASSUME NEW q \in Pids
      PROVE  /\ proc'[q] = "unborn" => pc'[q] = "start"
             /\ Session(q)' /\ pc'[q] = "loop" /\ Own(q)' => Listed(q)'
  <2>1. CASE q = p
    BY <1>1, <1>2, <2>1 DEF OwnInv, TypeOK
  <2>2. CASE q # p
    BY <1>1, <1>2, <1>4, <1>7, <2>2 DEF OwnInv, Own, Session, Live, Listed
  <2>3. QED
    BY <2>1, <2>2
<1>9. OwnInv'
    BY <1>8 DEF OwnInv
<1>10. QED
    BY <1>5, <1>6, <1>9

\* What a line has to say in the next state.
FitsNext(e) ==
    /\ proc'[e.pid] # "unborn" /\ role'[e.pid] = "cmd" /\ pc'[e.pid] = "loop"
    /\ e.addr = setAddr(given'[e.pid])
    /\ proc'[e.pid] = "gone" => hpc' = "remove" /\ spid' = e.pid

\* The lines after a step fit if each of them does and they are distinct.
LEMMA LinesNext ==
    ASSUME \A k \in 1..Len(data') : FitsNext(data'[k]), Distinct(data')
    PROVE  LinesInv'
BY DEF LinesInv, Fits, FitsNext, Distinct

\* A client session adds one line, at an address that had none.
LEMMA FileRegister ==
    ASSUME FileInv, NEW p \in Pids, Register(p)
    PROVE  LinesInv' /\ RemoveInv' /\ OwnInv'
<1> DEFINE addr == setAddr(given[p])
           me == add_mapper(p, addr)
<1>1. SessionsInv /\ TypeOK /\ LinesInv /\ RemoveInv /\ OwnInv
    BY DEF FileInv, SessionsInv
<1>2. /\ proc[p] = "live" /\ role[p] = "cmd" /\ pc[p] = "start"
      /\ pc' = [pc EXCEPT ![p] = "loop"] /\ UNCHANGED <<proc, role, given, hpc, spid>>
    BY DEF Register, handlerVars
<1>3. \A q \in Pids : pc[q] = "loop" => pc'[q] = "loop"
    BY <1>1, <1>2 DEF TypeOK
<1>4. \A k \in 1..Len(data) : data[k].pid \in Pids /\ FitsNext(data[k])
  <2>1. \A k \in 1..Len(data) : data[k].pid \in Pids
    BY <1>1, FileFacts
  <2>2. QED
    BY <1>1, <1>2, <1>3, <2>1 DEF LinesInv, Fits, FitsNext
<1>5. me.pid = p /\ FitsNext(me)
    BY <1>1, <1>2 DEF TypeOK, add_mapper, FitsNext
<1>6. RemoveInv'
    BY <1>1, <1>2 DEF RemoveInv
\* Only a session without an address of its own finds somebody at it.
<1>7. ASSUME NEW i \in 1..Len(data), data[i].addr = addr, Own(p) PROVE Listed(p)
  <2> DEFINE q == data[i].pid
  <2>1. q \in Pids /\ Fits(data[i])
    BY <1>1, <1>4 DEF LinesInv
  <2>2. given[q] # Fallback
    BY <1>1, <1>7, <2>1 DEF Fits, Own, FallbackUsed, setAddr
  <2>3. given[q] = given[p]
    BY <1>7, <2>1, <2>2 DEF Fits, Own, setAddr
  <2>4. proc[q] # "gone"
    BY <1>1, <1>2, <2>1, <2>2, <2>3 DEF Fits, RemoveInv
  <2>5. q = p
    BY <1>1, <1>2, <2>1, <2>2, <2>3, <2>4, OneHolder DEF Fits, TypeOK
  <2>6. QED
    BY <2>5 DEF Listed
<1> HIDE DEF addr, me
<1>8. CASE data' = data /\ \E i \in 1..Len(data) : data[i].addr = addr
  <2>1. LinesInv'
    BY <1>1, <1>4, <1>8, LinesNext DEF LinesInv
  <2>2. Own(p) => Listed(p)'
    BY <1>7, <1>8 DEF Listed
  <2>3. OwnInv'
    BY <1>1, <1>2, <1>8, <2>2 DEF OwnInv, Own, FallbackUsed, Session, Live, Listed, TypeOK
  <2>4. QED
    BY <1>6, <2>1, <2>3
<1>9. CASE /\ \A i \in 1..Len(data) : \E k \in 1..Len(data') : data'[k] = data[i]
           /\ \E k \in 1..Len(data') : data'[k] = me
           /\ \A k \in 1..Len(data') : \/ data'[k] = me
                                       \/ \E i \in 1..Len(data) : data'[k] = data[i]
           /\ Distinct(data')
  <2>1. \A k \in 1..Len(data') : FitsNext(data'[k])
    BY <1>4, <1>5, <1>9
  <2>2. LinesInv'
    BY <1>9, <2>1, LinesNext
  <2>3. Listed(p)' /\ \A q \in Pids : Listed(q) => Listed(q)'
    BY <1>5, <1>9 DEF Listed
  <2>4. OwnInv'
    BY <1>1, <1>2, <2>3 DEF OwnInv, Own, FallbackUsed, Session, Live, TypeOK
  <2>5. QED
    BY <1>6, <2>2, <2>4
<1>10. QED
    BY <1>1, <1>8, <1>9, RegisterLines DEF addr, me

\* A death leaves the lines to the handler.
LEMMA FileDie ==
    ASSUME FileInv, NEW p \in Pids, Die(p)
    PROVE  LinesInv' /\ RemoveInv' /\ OwnInv'
<1>1. TypeOK /\ LinesInv /\ RemoveInv /\ OwnInv
    BY DEF FileInv, SessionsInv
<1>2. /\ proc[p] = "live" /\ proc' = [proc EXCEPT ![p] = "zombie"]
      /\ UNCHANGED <<data, role, given, pc, hpc, spid>>
    BY DEF Die, childVars
<1>3. \A q \in Pids : /\ proc'[q] = "gone" <=> proc[q] = "gone"
                      /\ proc'[q] = "unborn" <=> proc[q] = "unborn"
                      /\ proc'[q] \in {"live", "zombie"} <=> proc[q] \in {"live", "zombie"}
                      /\ proc'[q] = "live" => proc[q] = "live"
    BY <1>1, <1>2 DEF TypeOK
<1>4. \A k \in 1..Len(data) : data[k].pid \in Pids
    BY <1>1, FileFacts
<1>5. LinesInv'
    BY <1>1, <1>2, <1>3, <1>4 DEF LinesInv, Fits, Distinct
<1>6. RemoveInv'
    BY <1>1, <1>2, <1>3 DEF RemoveInv, FileInv, SessionsInv, HandlerInv
<1>7. FallbackUsed' <=> FallbackUsed
    BY <1>2, <1>3 DEF FallbackUsed
<1>8. OwnInv'
    BY <1>1, <1>2, <1>3, <1>7 DEF OwnInv, Own, Session, Live, Listed
<1>9. QED
    BY <1>5, <1>6, <1>8

\* A session that has been waited for is the one whose line is removed next.
LEMMA FileReap ==
    ASSUME FileInv, NEW p \in Pids, Reap(p)
    PROVE  LinesInv' /\ RemoveInv' /\ OwnInv'
<1>1. SessionsInv /\ TypeOK /\ LinesInv /\ OwnInv
    BY DEF FileInv, SessionsInv
<1>2. /\ hpc = "reap" /\ proc[p] = "zombie" /\ proc' = [proc EXCEPT ![p] = "gone"]
      /\ hpc' = "remove" /\ spid' = p /\ UNCHANGED <<data, role, given, pc>>
    BY DEF Reap, childVars
<1>3. \A q \in Pids : q # p => proc'[q] = proc[q]
    BY <1>1, <1>2 DEF TypeOK
<1>4. \A k \in 1..Len(data) : data[k].pid \in Pids
    BY <1>1, FileFacts
<1>5. LinesInv'
    BY <1>1, <1>2, <1>3, <1>4 DEF LinesInv, Fits, Distinct, TypeOK
<1>6. RemoveInv'
  <2>1. ASSUME NEW q \in Pids, given[p] # Fallback, proc'[q] \in {"live", "zombie"},
               given[q] = given[p]
        PROVE  FALSE
    <3>1. q # p
        BY <1>1, <1>2, <2>1 DEF TypeOK
    <3>2. QED
        BY <1>1, <1>2, <1>3, <2>1, <3>1, OneHolder
  <2>2. proc'[p] = "gone"
    BY <1>1, <1>2 DEF TypeOK
  <2>3. QED
    BY <1>2, <2>1, <2>2 DEF RemoveInv
<1>7. FallbackUsed => FallbackUsed'
    BY <1>1, <1>2 DEF FallbackUsed, TypeOK
<1>8. OwnInv'
    BY <1>1, <1>2, <1>7 DEF OwnInv, Own, Session, Live, Listed, TypeOK
<1>9. QED
    BY <1>5, <1>6, <1>8

\* The handler removes the line of the session it waited for and no other.
LEMMA FileRemove ==
    ASSUME FileInv, Remove
    PROVE  LinesInv' /\ RemoveInv' /\ OwnInv'
<1>1. SessionsInv /\ TypeOK /\ LinesInv /\ RemoveInv /\ OwnInv
    BY DEF FileInv, SessionsInv
<1>2. hpc = "remove" /\ hpc' = "reap" /\ UNCHANGED <<proc, role, given, pc, spid>>
    BY DEF Remove, childVars
<1>3. /\ \A k \in 1..Len(data') : /\ data'[k].pid # spid
                                  /\ \E i \in 1..Len(data) : data'[k] = data[i]
      /\ \A i \in 1..Len(data) : data[i].pid # spid =>
            \E k \in 1..Len(data') : data'[k] = data[i]
      /\ Distinct(data')
    BY <1>1, RemoveLines
<1>4. \A i \in 1..Len(data) : data[i].pid # spid => FitsNext(data[i])
    BY <1>1, <1>2 DEF LinesInv, Fits, FitsNext
<1>5. LinesInv'
    BY <1>3, <1>4, LinesNext
<1>6. RemoveInv'
    BY <1>2 DEF RemoveInv
<1>7. \A q \in Pids : Listed(q) /\ q # spid => Listed(q)'
    BY <1>3 DEF Listed
<1>8. \A q \in Pids : Session(q) => q # spid
    BY <1>1, <1>2 DEF RemoveInv, Session, Live
<1>9. OwnInv'
    BY <1>1, <1>2, <1>7, <1>8 DEF OwnInv, Own, FallbackUsed, Session, Live
<1>10. QED
    BY <1>5, <1>6, <1>9

\* No step breaks what holds of cmd.data.
LEMMA FileStep == FileInv /\ [Next]_vars => FileInv'
<1> SUFFICES ASSUME FileInv, [Next]_vars PROVE FileInv'
    OBVIOUS
<1>1. SessionsInv'
    BY SessionsStep DEF FileInv
<1>2. CASE AcceptRtu \/ AcceptCmd \/ AcceptNone \/ Pick \/ ForkFails \/ Record
  <2>1. UNCHANGED <<data, proc, role, given, pc, hpc, spid>>
    BY <1>2 DEF AcceptRtu, AcceptCmd, AcceptNone, Pick, ForkFails, Record, childVars, handlerVars
  <2>2. QED
    BY <1>1, <2>1, FileFrame DEF FileInv
<1>3. CASE HandlerEnter \/ HandlerReturn
  <2>1. UNCHANGED <<data, proc, role, given, pc>> /\ hpc # "remove" /\ hpc' # "remove"
    BY <1>3 DEF HandlerEnter, HandlerReturn, childVars
  <2>2. QED
    BY <1>1, <2>1, FileFrame DEF FileInv
<1>4. CASE UNCHANGED vars
  <2>1. UNCHANGED <<data, proc, role, given, pc, hpc, spid>>
    BY <1>4 DEF vars
  <2>2. QED
    BY <1>1, <2>1, FileFrame DEF FileInv
<1>5. ASSUME NEW p \in Pids, Fork(p) PROVE FileInv'
    BY <1>1, <1>5, FileFork DEF FileInv
<1>6. ASSUME NEW p \in Pids, Register(p) PROVE FileInv'
    BY <1>1, <1>6, FileRegister DEF FileInv
<1>7. ASSUME NEW p \in Pids, Die(p) PROVE FileInv'
    BY <1>1, <1>7, FileDie DEF FileInv
<1>8. ASSUME NEW p \in Pids, Reap(p) PROVE FileInv'
    BY <1>1, <1>8, FileReap DEF FileInv
<1>9. CASE Remove
    BY <1>1, <1>9, FileRemove DEF FileInv
<1>10. QED
    BY <1>2, <1>3, <1>4, <1>5, <1>6, <1>7, <1>8, <1>9 DEF Next, Main, Handler

\* What cmd.data says holds in every behaviour of CmdSessions.
THEOREM FileInductive == Spec => []FileInv
BY FileInit, FileStep, PTL DEF Spec

\* An acknowledgement for the address of a session finds that session, unless sessions
\* with the fallback address compete for it.
THEOREM SessionFound == Spec => []AckFindsSession
<1>1. ASSUME FileInv PROVE AckFindsSession
  <2>1. TypeOK /\ LinesInv /\ OwnInv
    BY <1>1 DEF FileInv, SessionsInv
  <2> SUFFICES ASSUME NEW p \in Pids, Session(p), pc[p] = "loop", Own(p)
               PROVE  search_pid(read_mapper(data, EmptyList), Len(data), setAddr(given[p])) = p
    BY DEF AckFindsSession, Own
  <2>2. PICK i \in 1..Len(data) : data[i].pid = p
    BY <2>1 DEF OwnInv, Listed
  <2>3. data[i].addr = setAddr(given[p])
    BY <2>1, <2>2 DEF LinesInv, Fits
  <2>4. data \in Seq(Entries) /\ Len(data) <= MAX_POOL
    BY <2>1 DEF TypeOK
  <2>5. QED
    BY <2>1, <2>2, <2>3, <2>4, FreshSearch DEF LinesInv, Distinct
<1>2. QED
    BY <1>1, FileInductive, PTL

\* When no death is being handled, cmd.data lists living sessions only.
THEOREM NoDeadLines == Spec => []LinesAlive
<1>1. ASSUME FileInv PROVE LinesAlive
  <2>1. TypeOK /\ LinesInv
    BY <1>1 DEF FileInv, SessionsInv
  <2> SUFFICES ASSUME Quiet, NEW k \in 1..Len(data)
               PROVE  Session(data[k].pid) /\ data[k].addr = setAddr(given[data[k].pid])
    BY DEF LinesAlive
  <2>2. data[k].pid \in Pids /\ Fits(data[k])
    BY <2>1, FileFacts DEF LinesInv
  <2>3. QED
    BY <2>1, <2>2 DEF Quiet, Fits, TypeOK, Session, Live
<1>2. QED
    BY <1>1, FileInductive, PTL

\* A session that finds its address free finds room in the array.
THEOREM NoOverrun == Spec => []ArrayBound
<1>1. ASSUME FileInv PROVE ArrayBound
  <2>1. TypeOK /\ LinesInv
    BY <1>1 DEF FileInv, SessionsInv
  <2> SUFFICES ASSUME NEW p \in Pids,
                      search_pid(read_mapper(data, EmptyList), Len(data), setAddr(given[p])) = NoPid
               PROVE  Len(data) < MAX_POOL
    BY DEF ArrayBound
  <2>2. data \in Seq(Entries) /\ Len(data) <= MAX_POOL
    BY <2>1 DEF TypeOK
  <2>3. \A i \in 1..Len(data) : data[i].pid # NoPid
    BY <2>1, FileFacts
  <2>4. \A i \in 1..Len(data) : data[i].addr # setAddr(given[p])
    BY <2>2, <2>3, FreshSearch
  <2>5. setAddr(given[p]) \in Addrs
    BY <2>1, AddressOf
  <2>6. QED
    BY <2>1, <2>2, <2>4, <2>5, RoomLeft, SessionsAssumption DEF LinesInv
<1>2. QED
    BY <1>1, FileInductive, PTL

-----------------------------------------------------------------------------
(* CmdSessions implements Directory.                                        *)

Place == [p \in Pids |-> setAddr(given[p])]

\* An empty cmd.data is an empty directory.
LEMMA DirectoryInit == Init => Dir!Init
<1> SUFFICES ASSUME Init PROVE Dir!Init
    OBVIOUS
<1>1. Reachable = {}
    BY DEF Init, Reachable, Listed
<1>2. Place \in [Pids -> Addrs]
    BY SessionsAssumption, MapperAssumption DEF Init, Place, setAddr, Slots
<1>3. QED
    BY <1>1, <1>2 DEF Init, Dir!Init, Place

\* Each step of the main loop, a child or the handler is one of the directory or a stutter.
LEMMA DirectoryStep == FileInv /\ [Next]_vars => [Dir!Next]_Dir!vars
<1> SUFFICES ASSUME FileInv, [Next]_vars PROVE [Dir!Next]_Dir!vars
    OBVIOUS
<1>0. TypeOK /\ LinesInv /\ RemoveInv /\ SessionsInv
    BY DEF FileInv, SessionsInv
<1> USE DEF Dir!Next, Dir!vars
<1>1. CASE UNCHANGED <<proc, given, data>>
    BY <1>1 DEF Reachable, Listed
<1>2. ASSUME \/ AcceptRtu \/ AcceptCmd \/ AcceptNone \/ Pick \/ ForkFails \/ Record
             \/ HandlerEnter \/ HandlerReturn \/ UNCHANGED vars
      PROVE  UNCHANGED <<proc, given, data>>
    BY <1>2 DEF AcceptRtu, AcceptCmd, AcceptNone, Pick, ForkFails, Record, HandlerEnter,
                HandlerReturn, childVars, vars
<1>3. ASSUME NEW p \in Pids, Fork(p) PROVE Dir!Arrive(p, setAddr(cmdAddr))
  <2>1. /\ proc[p] = "unborn" /\ proc' = [proc EXCEPT ![p] = "live"]
        /\ given' = [given EXCEPT ![p] = cmdAddr] /\ data' = data
    BY <1>3 DEF Fork
  <2>2. Reachable' = Reachable
    BY <1>0, <2>1 DEF Reachable, Listed, TypeOK
  <2>3. Place' = [Place EXCEPT ![p] = setAddr(cmdAddr)]
    BY <1>0, <2>1 DEF Place, TypeOK, setAddr
  <2>4. QED
    BY <2>1, <2>2, <2>3 DEF Dir!Arrive, Place
<1>4. ASSUME NEW p \in Pids, Fork(p) PROVE setAddr(cmdAddr) \in Addrs
    BY <1>0, SessionsAssumption, MapperAssumption DEF TypeOK, setAddr, Slots
<1>5. ASSUME NEW p \in Pids, Die(p) PROVE Dir!End(p)
  <2>1. /\ proc[p] = "live" /\ proc' = [proc EXCEPT ![p] = "zombie"]
        /\ UNCHANGED <<given, data>>
    BY <1>5 DEF Die, childVars
  <2>2. Reachable' = Reachable
    BY <1>0, <2>1 DEF Reachable, Listed, TypeOK
  <2>3. QED
    BY <2>1, <2>2 DEF Dir!End
<1>6. ASSUME NEW p \in Pids, Reap(p) PROVE Dir!Forget(p)
  <2>1. /\ proc[p] = "zombie" /\ proc' = [proc EXCEPT ![p] = "gone"]
        /\ UNCHANGED <<given, data>>
    BY <1>6 DEF Reap, childVars
  <2>2. Reachable' = Reachable \ {p}
    BY <1>0, <2>1 DEF Reachable, Listed, TypeOK
  <2>3. QED
    BY <2>1, <2>2 DEF Dir!Forget
<1>7. CASE Remove
  <2>1. proc[spid] = "gone" /\ UNCHANGED <<proc, given>>
    BY <1>0, <1>7 DEF RemoveInv, Remove, childVars
  <2>2. \A q \in Pids : q # spid => (Listed(q)' <=> Listed(q))
    BY <1>0, <1>7, RemoveLines DEF Listed
  <2>3. Reachable' = Reachable
    BY <2>1, <2>2 DEF Reachable
  <2>4. QED
    BY <2>1, <2>3
<1>8. ASSUME NEW p \in Pids, Register(p) PROVE [Dir!Next]_Dir!vars
  <2> DEFINE addr == setAddr(given[p])
  <2>1. proc[p] = "live" /\ UNCHANGED <<proc, given>>
    BY <1>8 DEF Register
  <2>2. CASE data' = data
    BY <1>1, <2>1, <2>2
  <2>3. CASE /\ \A i \in 1..Len(data) : data[i].addr # addr
             /\ \A i \in 1..Len(data) : \E k \in 1..Len(data') : data'[k] = data[i]
             /\ \E k \in 1..Len(data') : data'[k] = add_mapper(p, addr)
             /\ \A k \in 1..Len(data') : \/ data'[k] = add_mapper(p, addr)
                                         \/ \E i \in 1..Len(data) : data'[k] = data[i]
    <3>1. \A q \in Pids : Listed(q)' <=> q = p \/ Listed(q)
        BY <2>3 DEF Listed, add_mapper
    <3>2. Reachable' = Reachable \cup {p}
        BY <2>1, <3>1 DEF Reachable
    <3>3. \A q \in Reachable : setAddr(given[q]) # addr
        BY <1>0, <2>3 DEF Reachable, Listed, LinesInv, Fits
    <3>4. \A q \in Reachable : Place[q] # Place[p]
        BY <3>3 DEF Place, Reachable
    <3>5. Dir!Enter(p)
        BY <2>1, <3>2, <3>4 DEF Dir!Enter, Place
    <3>6. QED
        BY <3>5
  <2>4. QED
    BY <1>0, <1>8, <2>2, <2>3, RegisterLines
<1>9. QED
    BY <1>1, <1>2, <1>3, <1>4, <1>5, <1>6, <1>7, <1>8 DEF Next, Main, Handler

\* cmd.data implements the directory, for any number of children and any length of the
\* table.
THEOREM SessionsImplementDirectory == Spec => ImplementsDirectory
<1>1. FileInv /\ [Next]_vars => [Dir!Next]_Dir!vars
    BY DirectoryStep
<1>2. QED
    BY <1>1, DirectoryInit, FileInductive, PTL DEF Spec, ImplementsDirectory, Dir!Spec
=============================================================================
