--------------------------- MODULE RtuRegistryProofs ---------------------------
(***************************************************************************)
(* What is proved of RtuRegistry for all sets of children and addresses    *)
(* and every length of the arrays: its types, that two living children are *)
(* never registered for one address, that every line of rtu.data is true,  *)
(* that no registration is lost, that it implements Directory, and, while  *)
(* the table has room, that a connected site is served and a session in    *)
(* service found.                                                          *)
(***************************************************************************)
EXTENDS RtuRegistry, MapperFileProofs

\* Where a child may be, given its life.
LifeInv ==
    \A p \in Pids :
        /\ proc[p] = "unborn" => pc[p] = "peek"
        /\ pc[p] \in {"lock", "write", "status"} => Live(p) /\ site[p] \in Sites

\* The lock is held exactly by who is between its read and its write, and what
\* the holder has read is still what the file says.
LockInv ==
    /\ \A p \in Pids : pc[p] = "write" <=> lock = p
    /\ hpc = "write" <=> lock = Server
    /\ \A p \in Pids : pc[p] = "write" =>
          \A i \in 1..Len(data) : mapper_list[p][i] = data[i]
    /\ hpc = "write" => \A i \in 1..Len(data) : rtu_mapper_list[i] = data[i]

\* The handler works on a process it has waited for.
HandlerInv ==
    /\ hpc \in {"lock", "write", "status"} => hpid \in Pids /\ proc[hpid] = "gone"
    /\ haddr \in Sites \cup {NoAddr}

\* A used slot or line names a process that was born, with its address; and a
\* process not yet waited for is named nowhere unless the file names it. This is
\* what makes it harmless to write back the remains of earlier files.
True(e) ==
    /\ proc[e.pid] # "unborn"
    /\ site[e.pid] = e.addr
    /\ e.addr \in Sites
    /\ proc[e.pid] # "gone" => Registered(e.pid)
TrueList(list) == \A i \in Slots : list[i].pid # NoPid => True(list[i])

EntriesInv ==
    /\ \A i \in 1..Len(data) : True(data[i])
    /\ \A p \in Pids : TrueList(mapper_list[p])
    /\ TrueList(rtu_mapper_list)

\* One registration for each address among those not yet waited for.
UniqueInv ==
    \A p, q \in Pids :
        /\ Registered(p) /\ proc[p] # "gone"
        /\ Registered(q) /\ proc[q] # "gone"
        /\ site[p] = site[q]
        => p = q

RegistryInv == TypeOK /\ LifeInv /\ LockInv /\ HandlerInv /\ EntriesInv /\ UniqueInv

-----------------------------------------------------------------------------
(* The lines of the file.                                                   *)

\* A Registered process is one some line of the file names.
LEMMA RegisteredPid ==
    ASSUME TypeOK
    PROVE  /\ \A i \in 1..Len(data) : /\ i \in Slots
                                      /\ data[i] \in Entries
                                      /\ data[i].pid \in Pids /\ data[i].pid # NoPid
                                      /\ Registered(data[i].pid)
           /\ Len(data) \in Nat
<1>1. Len(data) \in Nat /\ Len(data) <= MAX_POOL
    BY DEF TypeOK
<1>2. ASSUME NEW i \in 1..Len(data) PROVE i \in Slots /\ data[i] \in Entries
    BY <1>1, <1>2, MapperAssumption DEF TypeOK, Slots
<1>3. QED
    BY <1>1, <1>2, MapperAssumption DEF Entries, Registered

\* The array of a process that has ended is empty.
LEMMA EmptyFact == EmptyList \in Lists /\ \A i \in Slots : EmptyList[i].pid = NoPid
BY DEF EmptyList, Lists, Free, Mappers

-----------------------------------------------------------------------------
(* Types.                                                                   *)

\* Each action keeps the types.
LEMMA TypeStep == RegistryInv /\ [Next]_vars => TypeOK'
<1> SUFFICES ASSUME RegistryInv, [Next]_vars PROVE TypeOK'
    OBVIOUS
<1>0. TypeOK /\ LifeInv /\ LockInv /\ HandlerInv /\ EntriesInv
    BY DEF RegistryInv
<1> USE DEF childVars, fileVars, handlerVars, historyVars
<1>1. ASSUME NEW p \in Pids, SendInit(p) PROVE TypeOK'
    BY <1>0, <1>1 DEF TypeOK, SendInit
<1>2. ASSUME NEW p \in Pids, Hangup(p) PROVE TypeOK'
    BY <1>0, <1>2 DEF TypeOK, Hangup
<1>3. ASSUME NEW p \in Pids, NEW s \in Addrs, Fork(p, s) PROVE TypeOK'
    BY <1>0, <1>3 DEF TypeOK, Fork
<1>4. ASSUME NEW p \in Pids, Start(p) PROVE TypeOK'
    BY <1>0, <1>4 DEF TypeOK, Start
<1>5. ASSUME NEW p \in Pids, ReadInit(p) PROVE TypeOK'
    BY <1>0, <1>5 DEF TypeOK, ReadInit
<1>6. ASSUME NEW p \in Pids, Exit(p) PROVE TypeOK'
  <2>1. mapper_list' \in [Pids -> Lists]
    BY <1>0, <1>6, EmptyFact DEF TypeOK, Exit
  <2>2. QED
    BY <1>0, <1>6, <2>1 DEF TypeOK, Exit
<1>7. ASSUME NEW p \in Pids, ReadMapper(p) PROVE TypeOK'
  <2>1. mapper_list[p] \in Lists /\ data \in Seq(Entries)
    BY <1>0 DEF TypeOK
  <2>2. read_mapper(data, mapper_list[p]) \in Lists
    BY <2>1, ReadMapperFact DEF Lists
  <2>3. QED
    BY <1>0, <1>7, <2>2 DEF TypeOK, ReadMapper
<1>8. ASSUME NEW p \in Pids, Register(p) PROVE TypeOK'
  <2> DEFINE line == getTotalLine(data)
             list == put_mapper(mapper_list[p], line, add_mapper(p, site[p]))
  <2>1. site[p] \in Sites /\ mapper_list[p] \in Lists /\ line \in Nat
    BY <1>0, <1>8 DEF TypeOK, LifeInv, Register, getTotalLine
  <2>2. add_mapper(p, site[p]) \in Entries
    BY <2>1 DEF add_mapper, Entries, Sites
  <2>3. list \in Lists
    BY <2>1, <2>2, PutType
  <2>4. write_mapper(list) \in Seq(Entries) /\ Len(write_mapper(list)) <= MAX_POOL
    BY <2>3, WriteMapperFact DEF Lists
  <2>5. /\ data' = write_mapper(list) \/ data' = data
        /\ mapper_list' = [mapper_list EXCEPT ![p] = list] \/ mapper_list' = mapper_list
        /\ bypassed' = bypassed \/ bypassed' = bypassed \cup {site[p]}
        /\ revived' = revived \/ revived' = revived \cup Remains(list, line + 1)
        /\ lock' = NoPid /\ pc' = [pc EXCEPT ![p] = "status"]
        /\ UNCHANGED <<proc, childVars, status, handlerVars>>
    BY <1>8 DEF Register
  <2>r. Remains(list, line + 1) \in SUBSET Sites
    <3>1. mapper_list[p] \in Lists /\ TrueList(mapper_list[p])
        BY <1>0 DEF TypeOK, EntriesInv
    <3>2. \A i \in Slots : i > line + 1 => list[i] = mapper_list[p][i]
        BY <2>1, <2>2, PutType, MapperAssumption DEF Slots
    <3>3. \A i \in Used(list) : i > line + 1 => list[i].addr \in Sites
        BY <3>1, <3>2 DEF Used, TrueList, True
    <3>4. QED
        BY <3>3 DEF Remains
  <2> HIDE DEF list, line
  <2>6. data' \in Seq(Entries) /\ Len(data') <= MAX_POOL
    BY <1>0, <2>4, <2>5 DEF TypeOK
  <2>7. mapper_list' \in [Pids -> Lists]
    BY <1>0, <2>3, <2>5 DEF TypeOK
  <2>8. bypassed' \in SUBSET Sites
    BY <1>0, <2>1, <2>5 DEF TypeOK
  <2>9. revived' \in SUBSET Sites
    BY <1>0, <2>5, <2>r DEF TypeOK
  <2>10. QED
    BY <1>0, <2>5, <2>6, <2>7, <2>8, <2>9 DEF TypeOK
<1>9. ASSUME NEW p \in Pids, SetConnected(p) PROVE TypeOK'
    BY <1>0, <1>9 DEF TypeOK, SetConnected
<1>10. CASE HandlerEnter
    BY <1>0, <1>10 DEF TypeOK, HandlerEnter
<1>11. ASSUME NEW p \in Pids, Reap(p) PROVE TypeOK'
    BY <1>0, <1>11 DEF TypeOK, Reap
<1>12. CASE HandlerReturn
    BY <1>0, <1>12 DEF TypeOK, HandlerReturn
<1>13. CASE HandlerRead
  <2>1. rtu_mapper_list \in Lists /\ data \in Seq(Entries)
    BY <1>0 DEF TypeOK
  <2>2. read_mapper(data, rtu_mapper_list) \in Lists
    BY <2>1, ReadMapperFact DEF Lists
  <2>3. QED
    BY <1>0, <1>13, <2>2 DEF TypeOK, HandlerRead
<1>14. CASE HandlerWrite
  <2> DEFINE line == getTotalLine(data)
             list == delete_mapper(rtu_mapper_list, line, hpid)
             addr == search_addr(rtu_mapper_list, line, hpid)
  <2>1. rtu_mapper_list \in Lists /\ line \in Nat /\ hpid \in Pids
    BY <1>0, <1>14 DEF TypeOK, HandlerInv, HandlerWrite, getTotalLine
  <2>2. list \in Lists
    BY <2>1, DeleteType
  <2>3. write_mapper(list) \in Seq(Entries) /\ Len(write_mapper(list)) <= MAX_POOL
    BY <2>2, WriteMapperFact DEF Lists
  <2>4. addr \in Addrs \cup {NoAddr}
    <3>1. \A i \in Slots : rtu_mapper_list[i].addr \in Addrs \cup {NoAddr}
        BY <2>1 DEF Lists, Mappers, Entries
    <3>2. QED
        BY <2>1, <3>1, SearchAddrFact DEF Lists
  <2>5. /\ data' = write_mapper(list) \/ data' = data
        /\ rtu_mapper_list' = list /\ haddr' = addr
        /\ lock' = NoPid /\ hpc' = "status"
        /\ UNCHANGED <<proc, childVars, pc, mapper_list, status, chld, hpid, historyVars>>
    BY <1>14 DEF HandlerWrite
  <2> HIDE DEF list, line, addr
  <2>6. data' \in Seq(Entries) /\ Len(data') <= MAX_POOL
    BY <1>0, <2>3, <2>5 DEF TypeOK
  <2>7. QED
    BY <1>0, <2>2, <2>4, <2>5, <2>6 DEF TypeOK
<1>15. CASE HandlerStatus
    BY <1>0, <1>15 DEF TypeOK, HandlerStatus
<1>16. CASE UNCHANGED vars
    BY <1>0, <1>16 DEF TypeOK, vars
<1>17. QED
    BY <1>1, <1>2, <1>3, <1>4, <1>5, <1>6, <1>7, <1>8, <1>9, <1>10, <1>11, <1>12,
       <1>13, <1>14, <1>15, <1>16
    DEF Next, Device, Child, Handler, RefuseInit, Die

-----------------------------------------------------------------------------
(* Lives, the lock and the handler.                                         *)

\* A child goes through its places in order, whatever step is taken.
LEMMA LifeStep == RegistryInv /\ [Next]_vars => LifeInv'
<1> SUFFICES ASSUME TypeOK, LifeInv, [Next]_vars PROVE LifeInv'
    BY DEF RegistryInv
<1> USE DEF childVars, fileVars, handlerVars, LifeInv, Live, TypeOK
<1>1. ASSUME NEW p \in Pids, Device(p) PROVE LifeInv'
    BY <1>1 DEF Device, SendInit, Hangup
<1>2. ASSUME NEW p \in Pids, NEW s \in Addrs, Fork(p, s) PROVE LifeInv'
    BY <1>2 DEF Fork
<1>3. ASSUME NEW p \in Pids, Start(p) \/ ReadInit(p) PROVE LifeInv'
    BY <1>3 DEF Start, ReadInit
<1>4. ASSUME NEW p \in Pids, RefuseInit(p) \/ Die(p) PROVE LifeInv'
    BY <1>4 DEF RefuseInit, Die, Exit
<1>5. ASSUME NEW p \in Pids, ReadMapper(p) \/ Register(p) \/ SetConnected(p) PROVE LifeInv'
    BY <1>5 DEF ReadMapper, Register, SetConnected
<1>6. CASE HandlerEnter \/ HandlerReturn \/ HandlerRead
    BY <1>6 DEF HandlerEnter, HandlerReturn, HandlerRead
<1>7. CASE HandlerWrite \/ HandlerStatus
    BY <1>7 DEF HandlerWrite, HandlerStatus
<1>8. ASSUME NEW p \in Pids, Reap(p) PROVE LifeInv'
    BY <1>8 DEF Reap
<1>9. CASE UNCHANGED vars
    BY <1>9 DEF vars
<1>10. QED
    BY <1>1, <1>2, <1>3, <1>4, <1>5, <1>6, <1>7, <1>8, <1>9 DEF Next, Child, Handler

\* Whoever is in a section of rtu.data holds its lock, after each action too.
LEMMA LockStep == RegistryInv /\ [Next]_vars => LockInv'
<1> SUFFICES ASSUME TypeOK, LifeInv, LockInv, [Next]_vars PROVE LockInv'
    BY DEF RegistryInv
<1>0. /\ Len(data) \in Nat /\ \A i \in 1..Len(data) : i \in Slots
      /\ Server \notin Pids /\ NoPid \notin Pids /\ Server # NoPid
    BY RegisteredPid, RegistryAssumption, MapperAssumption
<1> USE DEF childVars, fileVars, handlerVars
\* The steps that leave the lock, the file and the arrays alone.
<1>a. ASSUME UNCHANGED <<data, lock, mapper_list, rtu_mapper_list>>,
             \A p \in Pids : pc'[p] = "write" <=> pc[p] = "write",
             hpc' = "write" <=> hpc = "write"
      PROVE  LockInv'
    BY <1>a DEF LockInv
<1>1. ASSUME NEW p \in Pids, Device(p) PROVE LockInv'
    BY <1>1, <1>a DEF Device, SendInit, Hangup
<1>2. ASSUME NEW p \in Pids, NEW s \in Addrs, Fork(p, s) PROVE LockInv'
    BY <1>2, <1>a DEF Fork
<1>3. ASSUME NEW p \in Pids, Start(p) \/ ReadInit(p) \/ SetConnected(p) PROVE LockInv'
    BY <1>3, <1>a DEF Start, ReadInit, SetConnected, TypeOK
<1>4. ASSUME NEW p \in Pids, RefuseInit(p) \/ Die(p) PROVE LockInv'
  <2>1. /\ pc[p] = "run" /\ UNCHANGED <<pc, data, lock, rtu_mapper_list, hpc>>
        /\ mapper_list' = [mapper_list EXCEPT ![p] = EmptyList]
    BY <1>4 DEF RefuseInit, Die, Exit
  <2>2. \A q \in Pids : pc[q] = "write" => mapper_list'[q] = mapper_list[q]
    BY <2>1 DEF TypeOK
  <2>3. QED
    BY <2>1, <2>2 DEF LockInv
<1>5. ASSUME NEW p \in Pids, ReadMapper(p) PROVE LockInv'
  <2>1. mapper_list[p] \in [Slots -> Mappers] /\ data \in Seq(Entries)
    BY DEF TypeOK, Lists
  <2>2. \A i \in 1..Len(data) : read_mapper(data, mapper_list[p])[i] = data[i]
    BY <1>0, <2>1, ReadMapperFact
  <2>3. QED
    BY <1>0, <1>5, <2>2 DEF ReadMapper, LockInv, TypeOK
<1>6. ASSUME NEW p \in Pids, Register(p) PROVE LockInv'
  <2>1. /\ pc[p] = "write" /\ pc' = [pc EXCEPT ![p] = "status"] /\ lock' = NoPid
        /\ hpc' = hpc
    BY <1>6 DEF Register
  <2>2. lock = p /\ hpc # "write" /\ \A q \in Pids : pc[q] = "write" => q = p
    BY <1>0, <2>1 DEF LockInv
  <2>3. QED
    BY <1>0, <2>1, <2>2 DEF LockInv, TypeOK
<1>7. CASE HandlerEnter \/ HandlerReturn \/ HandlerStatus
    BY <1>7, <1>a DEF HandlerEnter, HandlerReturn, HandlerStatus
<1>8. CASE HandlerRead
  <2>1. rtu_mapper_list \in [Slots -> Mappers] /\ data \in Seq(Entries)
    BY DEF TypeOK, Lists
  <2>2. \A i \in 1..Len(data) : read_mapper(data, rtu_mapper_list)[i] = data[i]
    BY <1>0, <2>1, ReadMapperFact
  <2>3. QED
    BY <1>0, <1>8, <2>2 DEF HandlerRead, LockInv, TypeOK
<1>9. CASE HandlerWrite
  <2>1. hpc = "write" /\ hpc' = "status" /\ lock' = NoPid /\ pc' = pc
    BY <1>9 DEF HandlerWrite
  <2>2. lock = Server /\ \A q \in Pids : pc[q] # "write"
    BY <1>0, <2>1 DEF LockInv
  <2>3. QED
    BY <1>0, <2>1, <2>2 DEF LockInv
<1>10. ASSUME NEW p \in Pids, Reap(p) PROVE LockInv'
    BY <1>10, <1>a DEF Reap
<1>11. CASE UNCHANGED vars
    BY <1>11, <1>a DEF vars
<1>12. QED
    BY <1>1, <1>2, <1>3, <1>4, <1>5, <1>6, <1>7, <1>8, <1>9, <1>10, <1>11
    DEF Next, Child, Handler

\* Each action keeps what the handler knows of the child it waited for.
LEMMA HandlerStep == RegistryInv /\ [Next]_vars => HandlerInv'
<1> SUFFICES ASSUME TypeOK, LockInv, HandlerInv, EntriesInv, [Next]_vars PROVE HandlerInv'
    BY DEF RegistryInv
<1> USE DEF childVars, fileVars, handlerVars, HandlerInv, TypeOK
<1>1. ASSUME NEW p \in Pids, Device(p) \/ Child(p) PROVE HandlerInv'
    BY <1>1 DEF Device, Child, SendInit, Hangup, Start, ReadInit, RefuseInit, Die, Exit,
                ReadMapper, Register, SetConnected
<1>2. ASSUME NEW p \in Pids, NEW s \in Addrs, Fork(p, s) PROVE HandlerInv'
    BY <1>2 DEF Fork
<1>3. CASE HandlerEnter \/ HandlerReturn \/ HandlerRead \/ HandlerStatus
    BY <1>3 DEF HandlerEnter, HandlerReturn, HandlerRead, HandlerStatus
<1>4. CASE HandlerWrite
  <2> DEFINE line == getTotalLine(data)
             addr == search_addr(rtu_mapper_list, line, hpid)
  <2>1. hpc = "write" /\ haddr' = addr /\ hpc' = "status" /\ UNCHANGED <<proc, hpid>>
    BY <1>4 DEF HandlerWrite
  <2>2. rtu_mapper_list \in [Slots -> Mappers] /\ line \in Nat /\ hpid \in Pids
    BY <2>1 DEF getTotalLine, Lists
  <2>3. \A i \in Slots : rtu_mapper_list[i].pid = hpid => rtu_mapper_list[i].addr \in Sites
    BY <2>2, MapperAssumption DEF EntriesInv, TrueList, True
  <2>4. addr \in Sites \cup {NoAddr}
    BY <2>2, <2>3, SearchAddrFact
  <2>5. QED
    BY <2>1, <2>4
<1>5. ASSUME NEW p \in Pids, Reap(p) PROVE HandlerInv'
    BY <1>5 DEF Reap
<1>6. CASE UNCHANGED vars
    BY <1>6 DEF vars
<1>7. QED
    BY <1>1, <1>2, <1>3, <1>4, <1>5, <1>6 DEF Next, Handler

-----------------------------------------------------------------------------
(* Entries and uniqueness.                                                  *)

\* A step that keeps every registration of a process not yet waited for, and
\* neither revives nor moves a process, keeps true entries true.
TrueKept ==
    /\ \A p \in Pids : proc[p] # "unborn" => proc'[p] # "unborn" /\ site'[p] = site[p]
    /\ \A p \in Pids : proc'[p] # "gone" /\ Registered(p) => proc[p] # "gone" /\ Registered(p)'
    /\ \A p \in Pids : proc'[p] # "gone" => proc[p] # "gone"

\* What True says of an entry after a step.
TrueNext(e) ==
    /\ proc'[e.pid] # "unborn"
    /\ site'[e.pid] = e.addr
    /\ e.addr \in Sites
    /\ proc'[e.pid] # "gone" => \E k \in 1..Len(data') : data'[k].pid = e.pid

\* What is said of a process stays true if the step keeps what it is about.
LEMMA TrueStays ==
    ASSUME TrueKept, NEW e \in Mappers, e.pid \in Pids, True(e)
    PROVE  TrueNext(e)
BY DEF TrueKept, True, TrueNext, Registered

\* The entries after a step are true if those of the file and of each array are.
LEMMA EntriesNext ==
    ASSUME \A k \in 1..Len(data') : TrueNext(data'[k]),
           \A p \in Pids : \A i \in Slots :
              mapper_list'[p][i].pid # NoPid => TrueNext(mapper_list'[p][i]),
           \A i \in Slots : rtu_mapper_list'[i].pid # NoPid => TrueNext(rtu_mapper_list'[i])
    PROVE  EntriesInv'
BY DEF EntriesInv, TrueList, True, TrueNext, Registered

\* The true entries of an array that a step leaves alone stay true.
LEMMA ListStays ==
    ASSUME TrueKept, NEW list \in Lists, TrueList(list)
    PROVE  \A i \in Slots : list[i].pid # NoPid => TrueNext(list[i])
<1> SUFFICES ASSUME NEW i \in Slots, list[i].pid # NoPid PROVE TrueNext(list[i])
    OBVIOUS
<1>1. list[i] \in Mappers /\ True(list[i])
    BY DEF Lists, TrueList
<1>2. list[i].pid \in Pids
    BY <1>1 DEF Mappers, Entries
<1>3. QED
    BY <1>1, <1>2, TrueStays

\* A used slot of an array is an entry.
LEMMA UsedSlot ==
    ASSUME NEW e \in Mappers, e.pid # NoPid
    PROVE  e \in Entries /\ e.pid \in Pids
BY DEF Mappers, Entries

\* Steps that leave the file and the arrays as they are, or end a process.
LEMMA EntriesFrame ==
    ASSUME RegistryInv, UNCHANGED <<data, rtu_mapper_list>>,
           \A p \in Pids : mapper_list'[p] = mapper_list[p] \/ mapper_list'[p] = EmptyList,
           \A p \in Pids : proc[p] # "unborn" => proc'[p] # "unborn" /\ site'[p] = site[p],
           \A p \in Pids : proc'[p] # "gone" => proc[p] # "gone"
    PROVE  EntriesInv' /\ UniqueInv'
<1>1. TypeOK /\ EntriesInv /\ UniqueInv
    BY DEF RegistryInv
<1>2. \A p \in Pids : Registered(p)' <=> Registered(p)
    BY DEF Registered
<1>3. TrueKept
    BY <1>2 DEF TrueKept
<1>5. ASSUME NEW i \in 1..Len(data) PROVE TrueNext(data[i])
  <2>1. data[i] \in Entries /\ True(data[i])
    BY <1>1, RegisteredPid DEF EntriesInv
  <2>2. data[i] \in Mappers /\ data[i].pid \in Pids
    BY <2>1 DEF Mappers, Entries
  <2>3. QED
    BY <1>3, <2>1, <2>2, TrueStays
<1>6. EntriesInv'
  <2>1. ASSUME NEW p \in Pids, NEW i \in Slots, mapper_list'[p][i].pid # NoPid
        PROVE  TrueNext(mapper_list'[p][i])
    <3>1. mapper_list[p] \in Lists /\ TrueList(mapper_list[p])
        BY <1>1 DEF TypeOK, EntriesInv
    <3>2. mapper_list'[p] = mapper_list[p]
        BY <2>1, EmptyFact
    <3>3. QED
        BY <1>3, <2>1, <3>1, <3>2, ListStays
  <2>2. \A i \in Slots : rtu_mapper_list[i].pid # NoPid => TrueNext(rtu_mapper_list[i])
    BY <1>1, <1>3, ListStays DEF TypeOK, EntriesInv
  <2>3. data' = data /\ rtu_mapper_list' = rtu_mapper_list
    OBVIOUS
  <2>4. QED
    BY <1>5, <2>1, <2>2, <2>3, EntriesNext
<1>7. UniqueInv'
  <2>1. \A p \in Pids : Registered(p) => proc[p] # "unborn"
    BY <1>1 DEF Registered, EntriesInv, True
  <2>2. QED
    BY <1>1, <1>2, <2>1 DEF UniqueInv
<1>8. QED
    BY <1>6, <1>7

\* Steps that read the file into an array: its lines are true, and so is what the
\* array held beyond them.
LEMMA ReadTrue ==
    ASSUME TypeOK, EntriesInv, NEW list \in Lists, TrueList(list)
    PROVE  TrueList(read_mapper(data, list))
<1> SUFFICES ASSUME NEW i \in Slots, read_mapper(data, list)[i].pid # NoPid
             PROVE  True(read_mapper(data, list)[i])
    BY DEF TrueList
<1>1. data \in Seq(Entries) /\ list \in [Slots -> Mappers] /\ Len(data) \in Nat
    BY DEF TypeOK, Lists
<1>2. CASE i <= Len(data)
  <2>1. read_mapper(data, list)[i] = data[i] /\ i \in 1..Len(data)
    BY <1>1, <1>2, ReadMapperFact, MapperAssumption DEF Slots
  <2>2. QED
    BY <2>1 DEF EntriesInv
<1>3. CASE ~(i <= Len(data))
  <2>1. read_mapper(data, list)[i] = list[i]
    BY <1>1, <1>3, ReadMapperFact
  <2>2. QED
    BY <2>1 DEF TrueList
<1>4. QED
    BY <1>2, <1>3

\* The step of a child that adds itself, found to be alone at its address. What may
\* come back from its array has been waited for.
LEMMA RegisterStep ==
    ASSUME RegistryInv, NEW p \in Pids, Register(p)
    PROVE  /\ EntriesInv' /\ UniqueInv' /\ \A q \in Pids : Registered(q) => Registered(q)'
           /\ \/ \A q \in Pids : Registered(q)' /\ proc[q] # "gone" => Registered(q)
              \/ /\ \A q \in Pids : Registered(q)' /\ proc[q] # "gone" => q = p \/ Registered(q)
                 /\ \A q \in Pids : Registered(q) => site[q] # site[p]
<1> DEFINE line == getTotalLine(data)
           old == mapper_list[p]
           me == add_mapper(p, site[p])
           list == put_mapper(old, line, me)
<1>0. TypeOK /\ LifeInv /\ LockInv /\ EntriesInv /\ UniqueInv
    BY DEF RegistryInv
<1>1. /\ pc[p] = "write" /\ proc' = proc /\ site' = site
      /\ rtu_mapper_list' = rtu_mapper_list
    BY DEF Register, childVars, handlerVars
<1>2. CASE search_pid(old, line, site[p]) # NoPid
  <2>1. UNCHANGED <<data, mapper_list>>
    BY <1>2 DEF Register
  <2>2. \A q \in Pids : Registered(q)' <=> Registered(q)
    BY <2>1 DEF Registered
  <2>3. QED
    BY <1>1, <2>1, <2>2, EntriesFrame
<1>3. CASE search_pid(old, line, site[p]) = NoPid
  <2>1. data' = write_mapper(list) /\ mapper_list' = [mapper_list EXCEPT ![p] = list]
    BY <1>3 DEF Register
  <2>2. Live(p) /\ site[p] \in Sites /\ old \in Lists /\ line \in Nat /\ line = Len(data)
    BY <1>0, <1>1 DEF LifeInv, TypeOK, getTotalLine
  <2>3. me \in Entries /\ me.pid = p /\ me.addr = site[p]
    BY <2>2 DEF add_mapper, Entries, Sites
  <2>4. /\ list \in Lists
        /\ \A i \in Slots : i # line + 1 => list[i] = old[i]
        /\ line + 1 \in Slots => list[line + 1] = me
    BY <2>2, <2>3, PutType
  <2>5. \A i \in 1..Len(data) : i \in Slots /\ old[i] = data[i] /\ data[i].pid \in Pids
                                /\ data[i].pid # NoPid /\ data[i] \in Entries
    BY <1>0, <1>1, RegisteredPid DEF LockInv
  <2>6. TrueList(old)
    BY <1>0 DEF EntriesInv
  <2> HIDE DEF line, old, me, list
  <2>7. /\ \A k \in 1..Len(data') : \E i \in Used(list) : data'[k] = list[i]
        /\ \A i \in Used(list) : \E k \in 1..Len(data') : data'[k] = list[i]
    BY <2>1, <2>4, WriteMapperFact DEF Lists
  \* No line is lost.
  <2>8. ASSUME NEW q \in Pids, Registered(q) PROVE Registered(q)'
    <3>1. PICK i \in 1..Len(data) : data[i].pid = q
        BY <2>8 DEF Registered
    <3>2. i \in Slots /\ i # line + 1 /\ list[i] = data[i]
        BY <2>2, <2>4, <2>5, <3>1
    <3>3. i \in Used(list)
        BY <2>5, <3>1, <3>2 DEF Used
    <3>4. PICK k \in 1..Len(data') : data'[k] = list[i]
        BY <2>7, <3>3
    <3>5. QED
        BY <3>1, <3>2, <3>4 DEF Registered
  \* What is written is the new line or was true before.
  <2>9. ASSUME NEW i \in Used(list)
        PROVE  /\ list[i] \in Mappers /\ list[i].pid \in Pids
               /\ list[i] = me \/ True(list[i])
    <3>1. i \in Slots /\ list[i].pid # NoPid /\ list[i] \in Mappers
        BY <2>4, <2>9 DEF Used, Lists
    <3>2. list[i].pid \in Pids
        BY <3>1, UsedSlot
    <3>3. CASE i = line + 1
        BY <2>4, <3>1, <3>2, <3>3
    <3>4. CASE i # line + 1
        BY <2>4, <2>6, <3>1, <3>2, <3>4 DEF TrueList
    <3>5. QED
        BY <3>3, <3>4
  <2>10. TrueKept
    BY <1>1, <2>8 DEF TrueKept
  <2>11. ASSUME NEW i \in Used(list) PROVE TrueNext(list[i])
    <3>1. CASE True(list[i])
        BY <2>9, <2>10, <2>11, <3>1, TrueStays
    <3>2. CASE list[i] = me
      <4>1. PICK k \in 1..Len(data') : data'[k] = list[i]
        BY <2>7, <2>11
      <4>2. data'[k].pid = list[i].pid /\ list[i].pid = p /\ list[i].addr = site[p]
        BY <2>3, <3>2, <4>1
      <4>3. QED
        BY <1>1, <2>2, <4>1, <4>2 DEF TrueNext, Live
    <3>3. QED
        BY <2>9, <2>11, <3>1, <3>2
  <2>12. EntriesInv'
    <3>1. \A k \in 1..Len(data') : TrueNext(data'[k])
      <4> SUFFICES ASSUME NEW k \in 1..Len(data') PROVE TrueNext(data'[k])
        OBVIOUS
      <4>1. PICK i \in Used(list) : data'[k] = list[i]
        BY <2>7
      <4>2. QED
        BY <2>11, <4>1
    <3>2. \A i \in Slots : list[i].pid # NoPid => TrueNext(list[i])
        BY <2>11 DEF Used
    <3>3. ASSUME NEW q \in Pids, NEW i \in Slots, mapper_list'[q][i].pid # NoPid
          PROVE  TrueNext(mapper_list'[q][i])
      <4>1. CASE q = p
        <5>1. mapper_list'[q] = list
            BY <1>0, <2>1, <4>1 DEF TypeOK
        <5>2. QED
            BY <3>2, <3>3, <5>1
      <4>2. CASE q # p
        <5>1. mapper_list'[q] = mapper_list[q] /\ mapper_list[q] \in Lists
              /\ TrueList(mapper_list[q])
            BY <1>0, <2>1, <4>2 DEF TypeOK, EntriesInv
        <5>2. QED
            BY <2>10, <3>3, <5>1, ListStays
      <4>3. QED
        BY <4>1, <4>2
    <3>4. \A i \in Slots : rtu_mapper_list'[i].pid # NoPid => TrueNext(rtu_mapper_list'[i])
        BY <1>0, <1>1, <2>10, ListStays DEF TypeOK, EntriesInv
    <3>5. QED
        BY <3>1, <3>3, <3>4, EntriesNext
  \* Who is registered now was before, or is p, or has been waited for.
  <2>13. ASSUME NEW q \in Pids, Registered(q)', proc[q] # "gone"
         PROVE  q = p \/ Registered(q)
    <3>1. PICK k \in 1..Len(data') : data'[k].pid = q
        BY <2>13 DEF Registered
    <3>2. PICK i \in Used(list) : data'[k] = list[i]
        BY <2>7
    <3>3. CASE list[i] = me
        BY <2>3, <3>1, <3>2, <3>3
    <3>4. CASE True(list[i])
        BY <2>13, <3>1, <3>2, <3>4 DEF True
    <3>5. QED
        BY <2>9, <3>3, <3>4
  \* Nobody else is registered at the address of p.
  <2>14. ASSUME NEW q \in Pids, Registered(q), site[q] = site[p] PROVE FALSE
    <3>1. PICK i \in 1..Len(data) : data[i].pid = q
        BY <2>14 DEF Registered
    <3>2. data[i].addr = site[p] /\ i \in Slots /\ i <= line /\ old[i] = data[i]
        BY <1>0, <2>2, <2>5, <2>14, <3>1 DEF EntriesInv, True
    <3>3. \A j \in Slots : j <= line => j \in 1..Len(data)
        BY <2>2, MapperAssumption DEF Slots
    <3>4. \A j \in Slots : j <= line => old[j].pid # NoPid
        BY <2>5, <3>3
    <3>5. old \in [Slots -> Mappers] /\ line \in Nat
        BY <2>2 DEF Lists
    <3>6. \A j \in Slots : j <= line => old[j].addr # site[p]
        BY <1>3, <3>4, <3>5, SearchPidFact
    <3>7. QED
        BY <3>2, <3>6
  <2>15. UniqueInv'
    <3> SUFFICES ASSUME NEW q \in Pids, NEW r \in Pids,
                        Registered(q)', proc[q] # "gone",
                        Registered(r)', proc[r] # "gone", site[q] = site[r]
                 PROVE  q = r
        BY <1>1 DEF UniqueInv
    <3>1. (q = p \/ Registered(q)) /\ (r = p \/ Registered(r))
        BY <2>13
    <3>2. QED
        BY <1>0, <2>14, <3>1 DEF UniqueInv
  <2>16. QED
    BY <2>8, <2>12, <2>13, <2>14, <2>15
<1>4. QED
    BY <1>2, <1>3

\* The step of the handler that removes a process it has waited for.
LEMMA HandlerWriteStep ==
    ASSUME RegistryInv, HandlerWrite
    PROVE  /\ EntriesInv' /\ UniqueInv'
           /\ \A q \in Pids : Registered(q) /\ q # hpid => Registered(q)'
           /\ \A q \in Pids : Registered(q)' /\ proc[q] # "gone" => Registered(q)
<1> DEFINE line == getTotalLine(data)
           old == rtu_mapper_list
           list == delete_mapper(old, line, hpid)
<1>0. TypeOK /\ LockInv /\ HandlerInv /\ EntriesInv /\ UniqueInv
    BY DEF RegistryInv
<1>1. /\ hpc = "write" /\ proc' = proc /\ site' = site /\ mapper_list' = mapper_list
      /\ rtu_mapper_list' = list
      /\ data' = IF PidHits(old, line, hpid) # {} THEN write_mapper(list) ELSE data
    BY DEF HandlerWrite, childVars
<1>2. hpid \in Pids /\ proc[hpid] = "gone" /\ old \in Lists /\ TrueList(old) /\ line \in Nat
    BY <1>0, <1>1 DEF HandlerInv, TypeOK, EntriesInv, getTotalLine
<1>3. /\ list \in Lists
      /\ \A i \in Slots : i <= line /\ old[i].pid = hpid => list[i].pid = NoPid
      /\ \A i \in Slots : ~(i <= line /\ old[i].pid = hpid) => list[i] = old[i]
    BY <1>2, DeleteType
<1>4. \A i \in 1..Len(data) : i \in Slots /\ old[i] = data[i] /\ data[i].pid \in Pids
                              /\ data[i].pid # NoPid /\ data[i] \in Entries
    BY <1>0, <1>1, RegisteredPid DEF LockInv
<1> HIDE DEF line, old, list
<1>5. CASE data' = write_mapper(list)
  <2>1. /\ \A k \in 1..Len(data') : \E i \in Used(list) : data'[k] = list[i]
        /\ \A i \in Used(list) : \E k \in 1..Len(data') : data'[k] = list[i]
    BY <1>3, <1>5, WriteMapperFact DEF Lists
  <2>2. ASSUME NEW q \in Pids, Registered(q), q # hpid PROVE Registered(q)'
    <3>1. PICK i \in 1..Len(data) : data[i].pid = q
        BY <2>2 DEF Registered
    <3>2. i \in Slots /\ list[i] = data[i] /\ data[i].pid # NoPid
        BY <1>3, <1>4, <2>2, <3>1
    <3>3. i \in Used(list)
        BY <3>2 DEF Used
    <3>4. PICK k \in 1..Len(data') : data'[k] = list[i]
        BY <2>1, <3>3
    <3>5. QED
        BY <3>1, <3>2, <3>4 DEF Registered
  <2>3. TrueKept
    BY <1>1, <1>2, <2>2 DEF TrueKept
  \* What is left in use was true before.
  <2>4. ASSUME NEW i \in Used(list)
        PROVE  list[i] \in Mappers /\ list[i].pid \in Pids /\ True(list[i])
    <3>1. i \in Slots /\ list[i].pid # NoPid /\ list[i] \in Mappers
        BY <1>3, <2>4 DEF Used, Lists
    <3>2. list[i].pid \in Pids
        BY <3>1, UsedSlot
    <3>3. list[i] = old[i]
        BY <1>3, <3>1
    <3>4. QED
        BY <1>2, <3>1, <3>2, <3>3 DEF TrueList
  <2>5. EntriesInv'
    <3>1. \A i \in Used(list) : TrueNext(list[i])
        BY <2>3, <2>4, TrueStays
    <3>2. \A k \in 1..Len(data') : TrueNext(data'[k])
      <4> SUFFICES ASSUME NEW k \in 1..Len(data') PROVE TrueNext(data'[k])
        OBVIOUS
      <4>1. PICK i \in Used(list) : data'[k] = list[i]
        BY <2>1
      <4>2. QED
        BY <3>1, <4>1
    <3>3. ASSUME NEW q \in Pids, NEW i \in Slots, mapper_list'[q][i].pid # NoPid
          PROVE  TrueNext(mapper_list'[q][i])
      <4>1. mapper_list[q] \in Lists /\ TrueList(mapper_list[q])
        BY <1>0 DEF TypeOK, EntriesInv
      <4>2. QED
        BY <1>1, <2>3, <3>3, <4>1, ListStays
    <3>4. \A i \in Slots : rtu_mapper_list'[i].pid # NoPid => TrueNext(rtu_mapper_list'[i])
        BY <1>1, <3>1 DEF Used
    <3>5. QED
        BY <3>2, <3>3, <3>4, EntriesNext
  <2>6. ASSUME NEW q \in Pids, Registered(q)', proc[q] # "gone" PROVE Registered(q)
    <3>1. PICK k \in 1..Len(data') : data'[k].pid = q
        BY <2>6 DEF Registered
    <3>2. PICK i \in Used(list) : data'[k] = list[i]
        BY <2>1
    <3>3. QED
        BY <2>4, <2>6, <3>1, <3>2 DEF True
  <2>7. UniqueInv'
    BY <1>0, <1>1, <2>6 DEF UniqueInv
  <2>8. QED
    BY <2>2, <2>5, <2>6, <2>7
<1>6. CASE data' = data
  <2>1. \A q \in Pids : Registered(q)' <=> Registered(q)
    BY <1>6 DEF Registered
  <2>2. TrueKept
    BY <1>1, <2>1 DEF TrueKept
  <2>3. TrueList(list)
    BY <1>2, <1>3 DEF TrueList
  <2>4. ASSUME NEW k \in 1..Len(data) PROVE TrueNext(data[k])
    <3>1. data[k] \in Mappers /\ data[k].pid \in Pids /\ True(data[k])
        BY <1>0, <1>4 DEF EntriesInv, Mappers
    <3>2. QED
        BY <2>2, <3>1, TrueStays
  <2>5. ASSUME NEW q \in Pids, NEW i \in Slots, mapper_list[q][i].pid # NoPid
        PROVE  TrueNext(mapper_list[q][i])
    <3>1. mapper_list[q] \in Lists /\ TrueList(mapper_list[q])
        BY <1>0 DEF TypeOK, EntriesInv
    <3>2. QED
        BY <2>2, <2>5, <3>1, ListStays
  <2>6. \A i \in Slots : list[i].pid # NoPid => TrueNext(list[i])
    BY <1>3, <2>2, <2>3, ListStays
  <2>7. EntriesInv'
    BY <1>1, <1>6, <2>4, <2>5, <2>6, EntriesNext
  <2>8. UniqueInv'
    BY <1>0, <1>1, <2>1 DEF UniqueInv
  <2>9. QED
    BY <2>1, <2>7, <2>8
<1>7. QED
    BY <1>1, <1>5, <1>6

\* The steps that read the file into an array.
LEMMA ReadStep ==
    ASSUME RegistryInv, UNCHANGED <<data, proc, site>>,
           \A p \in Pids : \/ mapper_list'[p] = mapper_list[p]
                          \/ mapper_list'[p] = read_mapper(data, mapper_list[p]),
           \/ rtu_mapper_list' = rtu_mapper_list
           \/ rtu_mapper_list' = read_mapper(data, rtu_mapper_list)
    PROVE  EntriesInv' /\ UniqueInv'
<1>1. TypeOK /\ EntriesInv /\ UniqueInv
    BY DEF RegistryInv
<1>2. \A q \in Pids : Registered(q)' <=> Registered(q)
    BY DEF Registered
<1>3. TrueKept
    BY <1>2 DEF TrueKept
<1>4. ASSUME NEW list \in Lists, TrueList(list)
      PROVE  \A i \in Slots :
                read_mapper(data, list)[i].pid # NoPid => TrueNext(read_mapper(data, list)[i])
  <2>1. read_mapper(data, list) \in Lists
    BY <1>1, ReadMapperFact DEF TypeOK, Lists
  <2>2. TrueList(read_mapper(data, list))
    BY <1>1, <1>4, ReadTrue
  <2>3. QED
    BY <1>3, <2>1, <2>2, ListStays
<1>5. ASSUME NEW k \in 1..Len(data) PROVE TrueNext(data[k])
  <2>1. data[k] \in Mappers /\ data[k].pid \in Pids /\ True(data[k])
    BY <1>1, RegisteredPid DEF EntriesInv, Mappers
  <2>2. QED
    BY <1>3, <2>1, TrueStays
<1>6. ASSUME NEW q \in Pids, NEW i \in Slots, mapper_list'[q][i].pid # NoPid
      PROVE  TrueNext(mapper_list'[q][i])
  <2>1. mapper_list[q] \in Lists /\ TrueList(mapper_list[q])
    BY <1>1 DEF TypeOK, EntriesInv
  <2>2. QED
    BY <1>3, <1>4, <1>6, <2>1, ListStays
<1>7. \A i \in Slots : rtu_mapper_list'[i].pid # NoPid => TrueNext(rtu_mapper_list'[i])
  <2>1. rtu_mapper_list \in Lists /\ TrueList(rtu_mapper_list)
    BY <1>1 DEF TypeOK, EntriesInv
  <2>2. QED
    BY <1>3, <1>4, <2>1, ListStays
<1>8. EntriesInv'
    BY <1>5, <1>6, <1>7, EntriesNext
<1>9. UniqueInv'
    BY <1>1, <1>2 DEF UniqueInv
<1>10. QED
    BY <1>8, <1>9

\* Each action keeps every entry true and the addresses unique.
LEMMA EntriesStep == RegistryInv /\ [Next]_vars => EntriesInv' /\ UniqueInv'
<1> SUFFICES ASSUME RegistryInv, [Next]_vars PROVE EntriesInv' /\ UniqueInv'
    OBVIOUS
<1>0. TypeOK
    BY DEF RegistryInv
<1> DEFINE Still == /\ UNCHANGED <<data, rtu_mapper_list>>
                    /\ \A p \in Pids : \/ mapper_list'[p] = mapper_list[p]
                                        \/ mapper_list'[p] = EmptyList
           Onward == /\ \A p \in Pids : proc[p] # "unborn" =>
                                        proc'[p] # "unborn" /\ site'[p] = site[p]
                     /\ \A p \in Pids : proc'[p] # "gone" => proc[p] # "gone"
<1>1. ASSUME NEW p \in Pids,
             \/ Device(p) \/ Start(p) \/ ReadInit(p) \/ RefuseInit(p) \/ Die(p)
             \/ SetConnected(p) \/ Reap(p)
      PROVE  Still /\ Onward
    BY <1>0, <1>1 DEF TypeOK, Device, SendInit, Hangup, Start, ReadInit, RefuseInit, Die, Exit,
                      SetConnected, Reap, childVars, fileVars, handlerVars
<1>2. ASSUME NEW p \in Pids, NEW s \in Addrs, Fork(p, s) PROVE Still /\ Onward
    BY <1>0, <1>2 DEF TypeOK, Fork, fileVars, handlerVars
<1>3. CASE HandlerEnter \/ HandlerReturn \/ HandlerStatus \/ UNCHANGED vars
  <2>1. Still /\ Onward
    BY <1>3 DEF HandlerEnter, HandlerReturn, HandlerStatus, vars, childVars, fileVars
  <2>2. QED
    BY <2>1, EntriesFrame
<1>4. ASSUME NEW p \in Pids, ReadMapper(p) PROVE EntriesInv' /\ UniqueInv'
  <2>1. /\ UNCHANGED <<data, proc, site, rtu_mapper_list>>
        /\ mapper_list' = [mapper_list EXCEPT ![p] = read_mapper(data, mapper_list[p])]
    BY <1>4 DEF ReadMapper, childVars, handlerVars
  <2>2. \A q \in Pids : \/ mapper_list'[q] = mapper_list[q]
                        \/ mapper_list'[q] = read_mapper(data, mapper_list[q])
    BY <1>0, <2>1 DEF TypeOK
  <2>3. QED
    BY <2>1, <2>2, ReadStep
<1>5. CASE HandlerRead
  <2>1. /\ UNCHANGED <<data, proc, site, mapper_list>>
        /\ rtu_mapper_list' = read_mapper(data, rtu_mapper_list)
    BY <1>5 DEF HandlerRead, childVars
  <2>2. QED
    BY <2>1, ReadStep
<1>6. Still /\ Onward => EntriesInv' /\ UniqueInv'
    BY EntriesFrame
<1>7. ASSUME NEW p \in Pids, Register(p) PROVE EntriesInv' /\ UniqueInv'
    BY <1>7, RegisterStep
<1>8. CASE HandlerWrite
    BY <1>8, HandlerWriteStep
<1> HIDE DEF Still, Onward
<1>9. QED
    BY <1>1, <1>2, <1>3, <1>4, <1>5, <1>6, <1>7, <1>8 DEF Next, Child, Handler

-----------------------------------------------------------------------------
(* The invariant and what follows from it.                                  *)

\* The registry starts empty.
LEMMA RegistryInit == Init => RegistryInv
<1> SUFFICES ASSUME Init PROVE RegistryInv
    OBVIOUS
<1> USE DEF Init
<1>1. EmptyList \in Lists /\ \A i \in Slots : EmptyList[i].pid = NoPid
    BY EmptyFact
<1>2. <<>> \in Seq(Entries) /\ Len(<<>>) = 0 /\ 0 <= MAX_POOL
    BY MapperAssumption
<1>3. TypeOK
    BY <1>1, <1>2 DEF TypeOK
<1>4. LifeInv /\ HandlerInv
    BY DEF LifeInv, HandlerInv
<1>5. LockInv
    BY MapperAssumption, RegistryAssumption DEF LockInv
<1>6. EntriesInv
    BY <1>1, <1>2 DEF EntriesInv, TrueList
<1>7. UniqueInv
    BY <1>2 DEF UniqueInv, Registered
<1>8. QED
    BY <1>3, <1>4, <1>5, <1>6, <1>7 DEF RegistryInv

\* Each action keeps all parts of the registry's invariant.
LEMMA RegistryStep == RegistryInv /\ [Next]_vars => RegistryInv'
BY TypeStep, LifeStep, LockStep, HandlerStep, EntriesStep DEF RegistryInv

\* The invariant holds in every behaviour of RtuRegistry.
THEOREM Inductive == Spec => []RegistryInv
BY RegistryInit, RegistryStep, PTL DEF Spec

\* Every variable keeps its type; above all the file, written from an array with
\* remains in it, is always a list of at most MAX_POOL complete entries.
THEOREM RegistryTypes == Spec => []TypeOK
<1>1. RegistryInv => TypeOK
    BY DEF RegistryInv
<1>2. QED
    BY <1>1, Inductive, PTL

\* Two living children are never both registered for one address.
THEOREM OneSession == Spec => []OneSessionPerAddress
<1>1. ASSUME RegistryInv PROVE OneSessionPerAddress
  <2>1. TypeOK /\ EntriesInv /\ UniqueInv
    BY <1>1 DEF RegistryInv
  <2> SUFFICES ASSUME NEW i \in 1..Len(data), NEW j \in 1..Len(data),
                      Live(data[i].pid), Live(data[j].pid), data[i].addr = data[j].addr
               PROVE  data[i].pid = data[j].pid
    BY DEF OneSessionPerAddress
  <2>2. /\ data[i].pid \in Pids /\ Registered(data[i].pid)
        /\ data[j].pid \in Pids /\ Registered(data[j].pid)
    BY <2>1, RegisteredPid
  <2>3. site[data[i].pid] = site[data[j].pid]
    BY <2>1 DEF EntriesInv, True
  <2>4. QED
    BY <2>1, <2>2, <2>3 DEF UniqueInv, Live
<1>2. QED
    BY <1>1, Inductive, PTL

\* Every line of rtu.data names a process that served the address in it.
THEOREM LinesTrue == Spec => []EntriesTrue
<1>1. RegistryInv => EntriesTrue
    BY DEF RegistryInv, EntriesInv, True, EntriesTrue
<1>2. QED
    BY <1>1, Inductive, PTL

\* No rewriting of the file loses the line of a process not yet waited for.
THEOREM NoRegistrationLost == Spec => RegistrationKept
<1> DEFINE Kept == \A p \in Pids : Registered(p) /\ ~Registered(p)' => proc[p] = "gone"
<1>1. ASSUME RegistryInv, [Next]_vars PROVE [Kept]_vars
  <2>0. TypeOK /\ HandlerInv
    BY <1>1 DEF RegistryInv
  <2>1. ASSUME data' = data PROVE Kept
    BY <2>1 DEF Registered
  <2>2. ASSUME NEW p \in Pids, Register(p) PROVE Kept
    BY <1>1, <2>2, RegisterStep
  <2>3. CASE HandlerWrite
    <3>1. hpid \in Pids /\ proc[hpid] = "gone"
        BY <2>0, <2>3 DEF HandlerInv, HandlerWrite
    <3>2. QED
        BY <1>1, <2>3, <3>1, HandlerWriteStep
  <2>4. CASE data' # data /\ \A p \in Pids : ~Register(p)
    BY <1>1, <2>3, <2>4
    DEF Next, Device, Child, Handler, SendInit, Hangup, Fork, Start, ReadInit, RefuseInit, Die,
        Exit, ReadMapper, SetConnected, HandlerEnter, Reap, HandlerReturn, HandlerRead,
        HandlerStatus, fileVars, vars
  <2>5. QED
    BY <2>1, <2>2, <2>4
<1>2. QED
    BY <1>1, Inductive, PTL DEF Spec, RegistrationKept

-----------------------------------------------------------------------------
(* RtuRegistry implements Directory.                                        *)

\* An empty rtu.data is an empty directory.
LEMMA DirectoryInit == Init => Dir!Init
<1> SUFFICES ASSUME Init PROVE Dir!Init
    OBVIOUS
<1>1. Reachable = {}
    BY DEF Init, Reachable, Registered
<1>2. site \in [Pids -> Addrs \cup {NoAddr}]
    BY DEF Init
<1>3. QED
    BY <1>1, <1>2 DEF Init, Dir!Init

\* Steps that leave the file, and who has been waited for, as they are.
LEMMA SameReachable ==
    ASSUME data' = data, \A p \in Pids : proc'[p] = "gone" <=> proc[p] = "gone"
    PROVE  Reachable' = Reachable
BY DEF Reachable, Registered

\* Each action is a step of the directory or a stutter.
LEMMA DirectoryStep == RegistryInv /\ [Next]_vars => [Dir!Next]_Dir!vars
<1> SUFFICES ASSUME RegistryInv, [Next]_vars PROVE [Dir!Next]_Dir!vars
    OBVIOUS
<1>0. TypeOK /\ LifeInv /\ HandlerInv
    BY DEF RegistryInv
<1> USE DEF Dir!Next, Dir!vars
<1>1. ASSUME NEW p \in Pids, NEW s \in Addrs, Fork(p, s) PROVE Dir!Arrive(p, s)
  <2>1. /\ proc[p] = "unborn" /\ data' = data
        /\ proc' = [proc EXCEPT ![p] = "live"] /\ site' = [site EXCEPT ![p] = s]
    BY <1>1 DEF Fork, fileVars
  <2>2. Reachable' = Reachable
    BY <1>0, <2>1, SameReachable DEF TypeOK
  <2>3. QED
    BY <2>1, <2>2 DEF Dir!Arrive
<1>2. ASSUME NEW p \in Pids, RefuseInit(p) \/ Die(p) PROVE Dir!End(p)
  <2>1. /\ proc[p] = "live" /\ data' = data /\ site' = site
        /\ proc' = [proc EXCEPT ![p] = "zombie"]
    BY <1>2 DEF RefuseInit, Die, Exit, childVars, fileVars
  <2>2. Reachable' = Reachable
    BY <1>0, <2>1, SameReachable DEF TypeOK
  <2>3. QED
    BY <2>1, <2>2 DEF Dir!End
<1>3. ASSUME NEW p \in Pids, Reap(p) PROVE Dir!Forget(p)
  <2>1. /\ proc[p] = "zombie" /\ data' = data /\ site' = site
        /\ proc' = [proc EXCEPT ![p] = "gone"]
    BY <1>3 DEF Reap, childVars, fileVars
  <2>2. Reachable' = Reachable \ {p}
    BY <1>0, <2>1 DEF TypeOK, Reachable, Registered
  <2>3. QED
    BY <2>1, <2>2 DEF Dir!Forget
<1>4. ASSUME NEW p \in Pids, Register(p) PROVE [Dir!Next]_Dir!vars
  <2>1. proc[p] = "live" /\ UNCHANGED <<proc, site>>
    BY <1>4 DEF Register, childVars
  <2>2. \A q \in Pids : Registered(q) => Registered(q)'
    BY <1>4, RegisterStep
  <2>3. CASE \A q \in Pids : Registered(q)' /\ proc[q] # "gone" => Registered(q)
    <3>1. Reachable' = Reachable
        BY <2>1, <2>2, <2>3 DEF Reachable
    <3>2. QED
        BY <2>1, <3>1
  <2>4. CASE /\ \A q \in Pids : Registered(q)' /\ proc[q] # "gone" => q = p \/ Registered(q)
             /\ \A q \in Pids : Registered(q) => site[q] # site[p]
    <3>1. Reachable' = Reachable \/ Reachable' = Reachable \cup {p}
        BY <2>1, <2>2, <2>4 DEF Reachable
    <3>2. \A q \in Reachable : site[q] # site[p]
        BY <2>4 DEF Reachable
    <3>3. Reachable' = Reachable \/ Dir!Enter(p)
        BY <2>1, <3>1, <3>2 DEF Dir!Enter
    <3>4. QED
        BY <2>1, <3>3
  <2>5. QED
    BY <1>4, <2>3, <2>4, RegisterStep
<1>5. CASE HandlerWrite
  <2>1. UNCHANGED <<proc, site>> /\ proc[hpid] = "gone"
    BY <1>0, <1>5 DEF HandlerWrite, HandlerInv, childVars
  <2>2. Reachable' = Reachable
    BY <1>5, <2>1, HandlerWriteStep DEF Reachable
  <2>3. QED
    BY <2>1, <2>2
<1>6. CASE UNCHANGED <<proc, site, data>>
    BY <1>6, SameReachable
<1>7. ASSUME NEW p \in Pids, Device(p) \/ Start(p) \/ ReadInit(p) \/ ReadMapper(p) \/ SetConnected(p)
      PROVE  UNCHANGED <<proc, site, data>>
    BY <1>7 DEF Device, SendInit, Hangup, Start, ReadInit, ReadMapper, SetConnected, childVars,
                fileVars
<1>8. ASSUME HandlerEnter \/ HandlerReturn \/ HandlerRead \/ HandlerStatus \/ UNCHANGED vars
      PROVE  UNCHANGED <<proc, site, data>>
    BY <1>8 DEF HandlerEnter, HandlerReturn, HandlerRead, HandlerStatus, vars, childVars, fileVars
<1>9. QED
    BY <1>1, <1>2, <1>3, <1>4, <1>5, <1>6, <1>7, <1>8 DEF Next, Child, Handler

\* rtu.data implements the directory, for any number of children and sites: every step
\* of children and handler is one of its operations, or changes nothing a command
\* could see.
THEOREM RegistryImplementsDirectory == Spec => ImplementsDirectory
<1>1. RegistryInv /\ [Next]_vars => [Dir!Next]_Dir!vars
    BY DirectoryStep
<1>2. QED
    BY <1>1, DirectoryInit, Inductive, PTL DEF Spec, ImplementsDirectory, Dir!Spec

-----------------------------------------------------------------------------
(* Who serves a site: which sessions are registered, which lines bear the    *)
(* site's address, and what the status memory says.                         *)

\* What the server's array holds, beyond the lines read too, the file holds:
\* what the handler writes back was there.
ServerListInv ==
    \A i \in Used(rtu_mapper_list) : Registered(rtu_mapper_list[i].pid)

\* A session that has been through a registration is registered or was bypassed.
SettledInv ==
    \A p \in Pids :
        /\ pc[p] = "peek" => ~Introduced(p)
        /\ Live(p) /\ (pc[p] = "status" \/ (Introduced(p) /\ pc[p] # "write"))
              => Registered(p) \/ site[p] \in bypassed

\* The lines of the site of a registered session are its own.
SoleInv ==
    \A p \in Pids :
        Registered(p) /\ proc[p] # "gone" /\ site[p] \notin bypassed \cup revived
            => \A i \in 1..Len(data) : data[i].addr = site[p] => data[i].pid = p

\* A site shown as connected has a session in the file that the handler has not yet
\* taken out of it, or the handler is about to show it as disconnected.
Pending(p) == proc[p] \in {"live", "zombie"} \/ (hpc \in {"lock", "write"} /\ hpid = p)
Served(s) == \E p \in Pids : site[p] = s /\ Registered(p) /\ Pending(p)
StatusInv ==
    \A s \in Sites \ bypassed :
        status[s] = "connected" => Served(s) \/ (hpc = "status" /\ haddr = s)

ServiceInv == ServerListInv /\ SettledInv /\ SoleInv /\ StatusInv

\* No child that is about to add itself has a full table before it: it would write
\* past the end of its array, and what it put there would not reach the file.
Adds(p) ==
    pc[p] = "write" /\ search_pid(mapper_list[p], getTotalLine(data), site[p]) = NoPid
Room == \A p \in Pids : Adds(p) => Len(data) < MAX_POOL

\* A search that finds a pid finds it in one of the lines searched.
LEMMA SearchPidFound ==
    ASSUME NEW list \in Lists, NEW line \in Nat, NEW addr, NEW p \in Pids,
           search_pid(list, line, addr) = p
    PROVE  \E i \in Slots : i <= line /\ list[i].pid = p
<1> DEFINE hits == AddrHits(list, line, addr)
<1>1. hits # {} /\ search_pid(list, line, addr) = list[LastOf(hits)].pid
    BY MapperAssumption DEF search_pid
<1>2. hits \in SUBSET Slots
    BY DEF AddrHits
<1>3. LastOf(hits) \in hits
    BY <1>1, <1>2, LastIsThere
<1>4. QED
    BY <1>1, <1>3 DEF AddrHits

\* Only a child that registers and the handler write the file.
LEMMA FileKept ==
    ASSUME [Next]_vars, \A p \in Pids : ~Register(p), ~HandlerWrite
    PROVE  data' = data
BY DEF Next, Device, Child, Handler, SendInit, Hangup, Fork, Start, ReadInit, RefuseInit, Die,
       Exit, ReadMapper, SetConnected, HandlerEnter, Reap, HandlerReturn, HandlerRead,
       HandlerStatus, fileVars, vars

\* A registration is lost in the handler's write only, and there it is the one of the
\* process waited for.
LEMMA StaysRegistered ==
    ASSUME RegistryInv, [Next]_vars, NEW p \in Pids, Registered(p),
           HandlerWrite => p # hpid
    PROVE  Registered(p)'
<1>1. ASSUME NEW q \in Pids, Register(q) PROVE Registered(p)'
    BY <1>1, RegisterStep
<1>2. CASE HandlerWrite
    BY <1>2, HandlerWriteStep
<1>3. CASE HandlerWrite \/ \E q \in Pids : Register(q)
    BY <1>1, <1>2, <1>3
<1>4. CASE data' = data
    BY <1>4 DEF Registered
<1>5. QED
    BY <1>3, <1>4, FileKept

\* What the handler writes: the lines of its array but those of the process it removes.
LEMMA HandlerLines ==
    ASSUME RegistryInv, HandlerWrite
    PROVE  /\ \A i \in Used(rtu_mapper_list') :
                 i \in Used(rtu_mapper_list) /\ rtu_mapper_list'[i] = rtu_mapper_list[i]
           /\ \/ data' = data
              \/ /\ \A k \in 1..Len(data') :
                       \E i \in Used(rtu_mapper_list') : data'[k] = rtu_mapper_list'[i]
                 /\ \A i \in Used(rtu_mapper_list') :
                       \E k \in 1..Len(data') : data'[k] = rtu_mapper_list'[i]
<1> DEFINE line == getTotalLine(data)
           list == delete_mapper(rtu_mapper_list, line, hpid)
<1>1. rtu_mapper_list \in Lists /\ hpid \in Pids /\ line \in Nat
    BY DEF RegistryInv, TypeOK, HandlerInv, HandlerWrite, getTotalLine
<1>2. /\ list \in Lists
      /\ \A i \in Slots : i <= line /\ rtu_mapper_list[i].pid = hpid => list[i].pid = NoPid
      /\ \A i \in Slots : ~(i <= line /\ rtu_mapper_list[i].pid = hpid)
                             => list[i] = rtu_mapper_list[i]
    BY <1>1, DeleteType
<1>3. /\ rtu_mapper_list' = list
      /\ data' = data \/ data' = write_mapper(list)
    BY DEF HandlerWrite
<1> HIDE DEF list, line
<1>4. \A i \in Used(list) : i \in Used(rtu_mapper_list) /\ list[i] = rtu_mapper_list[i]
    BY <1>2 DEF Used
<1>5. /\ \A k \in 1..Len(write_mapper(list)) : \E i \in Used(list) : write_mapper(list)[k] = list[i]
      /\ \A i \in Used(list) : \E k \in 1..Len(write_mapper(list)) : write_mapper(list)[k] = list[i]
    BY <1>2, WriteMapperFact DEF Lists
<1>6. QED
    BY <1>3, <1>4, <1>5

\* What a child writes: itself, lines of processes the file names, and remains.
LEMMA RegisterLines ==
    ASSUME RegistryInv, NEW p \in Pids, Register(p)
    PROVE  \/ /\ UNCHANGED <<data, mapper_list, revived>>
              /\ Registered(p) \/ bypassed' = bypassed \cup {site[p]}
           \/ /\ Adds(p) /\ \A i \in 1..Len(data) : data[i].addr # site[p]
              /\ \A k \in 1..Len(data') : \/ data'[k].pid = p
                                          \/ Registered(data'[k].pid)
                                          \/ data'[k].addr \in revived'
              /\ Len(data) < MAX_POOL => Registered(p)'
              /\ revived \subseteq revived'
<1> DEFINE line == getTotalLine(data)
           old == mapper_list[p]
           me == add_mapper(p, site[p])
           list == put_mapper(old, line, me)
<1>1. /\ TypeOK /\ LifeInv /\ LockInv /\ EntriesInv /\ pc[p] = "write"
    BY DEF RegistryInv, Register
<1>2. Live(p) /\ site[p] \in Sites /\ old \in Lists /\ line \in Nat /\ line = Len(data)
      /\ old \in [Slots -> Mappers]
    BY <1>1 DEF LifeInv, TypeOK, getTotalLine, Lists
<1>3. me \in Entries /\ me.pid = p /\ me.addr = site[p]
    BY <1>2 DEF add_mapper, Entries, Sites
<1>4. /\ list \in Lists
      /\ \A i \in Slots : i # line + 1 => list[i] = old[i]
      /\ line + 1 \in Slots => list[line + 1] = me
    BY <1>2, <1>3, PutType
<1>5. \A i \in Slots : i <= line => /\ i \in 1..Len(data) /\ old[i] = data[i]
                                    /\ data[i].pid \in Pids /\ data[i].pid # NoPid
                                    /\ Registered(data[i].pid)
  <2>1. \A i \in Slots : i <= line => i \in 1..Len(data)
    BY <1>2, MapperAssumption DEF Slots
  <2>2. QED
    BY <1>1, <2>1, RegisteredPid DEF LockInv
<1>6. CASE search_pid(old, line, site[p]) # NoPid
  <2>1. /\ UNCHANGED <<data, mapper_list, revived>>
        /\ bypassed' = IF search_pid(old, line, site[p]) = p THEN bypassed
                       ELSE bypassed \cup {site[p]}
    BY <1>6 DEF Register
  <2>2. CASE search_pid(old, line, site[p]) = p
    <3>1. PICK i \in Slots : i <= line /\ old[i].pid = p
        BY <1>2, <2>2, SearchPidFound
    <3>2. QED
        BY <1>5, <2>1, <3>1
  <2>3. QED
    BY <2>1, <2>2
<1>7. CASE search_pid(old, line, site[p]) = NoPid
  <2>1. data' = write_mapper(list) /\ revived' = revived \cup Remains(list, line + 1)
    BY <1>7 DEF Register
  <2>2. \A i \in Slots : i <= line => old[i].addr # site[p]
    BY <1>2, <1>5, <1>7, SearchPidFact
  <2>3. \A i \in 1..Len(data) : data[i].addr # site[p]
    BY <1>1, <1>2, <1>5, <2>2, RegisteredPid
  <2> HIDE DEF list, line, old, me
  <2>4. /\ \A k \in 1..Len(data') : \E i \in Used(list) : data'[k] = list[i]
        /\ \A i \in Used(list) : \E k \in 1..Len(data') : data'[k] = list[i]
    BY <1>4, <2>1, WriteMapperFact DEF Lists
  <2>5. ASSUME NEW k \in 1..Len(data')
        PROVE  data'[k].pid = p \/ Registered(data'[k].pid) \/ data'[k].addr \in revived'
    <3>1. PICK i \in Used(list) : data'[k] = list[i]
        BY <2>4
    <3>2. i \in Slots /\ i \in Nat
        BY <3>1 DEF Used, Slots
    <3>3. CASE i = line + 1
        BY <1>3, <1>4, <3>1, <3>2, <3>3
    <3>4. CASE i <= line
        BY <1>2, <1>4, <1>5, <3>1, <3>2, <3>4
    <3>5. CASE i > line + 1 /\ ~Registered(list[i].pid)
        BY <2>1, <3>1, <3>2, <3>5 DEF Remains
    <3>6. QED
        BY <1>2, <3>1, <3>2, <3>3, <3>4, <3>5
  <2>6. ASSUME Len(data) < MAX_POOL PROVE Registered(p)'
    <3>1. line + 1 \in Slots
        BY <1>2, <2>6, MapperAssumption DEF Slots
    <3>2. line + 1 \in Used(list)
        BY <1>3, <1>4, <3>1, MapperAssumption DEF Used
    <3>3. PICK k \in 1..Len(data') : data'[k] = list[line + 1]
        BY <2>4, <3>2
    <3>4. QED
        BY <1>3, <1>4, <3>1, <3>3 DEF Registered
  <2>7. Adds(p)
    BY <1>1, <1>7 DEF Adds, line, old
  <2>8. QED
    BY <2>1, <2>3, <2>5, <2>6, <2>7
<1>8. QED
    BY <1>6, <1>7

\* Each action keeps in the file whatever the handler's array holds.
LEMMA ServerListStep == RegistryInv /\ ServerListInv /\ [Next]_vars => ServerListInv'
<1> SUFFICES ASSUME RegistryInv, ServerListInv, [Next]_vars,
                    NEW i \in Used(rtu_mapper_list)'
             PROVE  Registered(rtu_mapper_list[i].pid)'
    BY DEF ServerListInv
<1>0. /\ TypeOK /\ TypeOK' /\ i \in Slots /\ rtu_mapper_list'[i].pid # NoPid
      /\ \A j \in 1..Len(data) : Registered(data[j].pid)
    BY TypeStep, RegisteredPid DEF RegistryInv, Used
<1>1. CASE HandlerWrite
  <2>1. /\ i \in Used(rtu_mapper_list) /\ rtu_mapper_list'[i] = rtu_mapper_list[i]
        /\ \/ data' = data
           \/ \E k \in 1..Len(data') : data'[k] = rtu_mapper_list'[i]
    BY <1>1, HandlerLines
  <2>2. Registered(rtu_mapper_list'[i].pid)
    BY <2>1 DEF ServerListInv
  <2>3. QED
    BY <2>1, <2>2 DEF Registered
<1>2. CASE ~HandlerWrite /\ i \in Used(rtu_mapper_list) /\ rtu_mapper_list'[i] = rtu_mapper_list[i]
  <2>1. Registered(rtu_mapper_list[i].pid) /\ rtu_mapper_list[i] \in Mappers
    BY <1>0, <1>2 DEF ServerListInv, TypeOK, Lists
  <2>2. rtu_mapper_list[i].pid \in Pids
    BY <1>0, <1>2, <2>1, UsedSlot
  <2>3. QED
    BY <1>2, <2>1, <2>2, StaysRegistered
<1>3. CASE HandlerRead
  <2>1. data' = data /\ rtu_mapper_list' = read_mapper(data, rtu_mapper_list)
    BY <1>3 DEF HandlerRead
  <2>2. data \in Seq(Entries) /\ rtu_mapper_list \in [Slots -> Mappers] /\ Len(data) \in Nat
    BY <1>0 DEF TypeOK, Lists
  <2>3. CASE i <= Len(data)
    <3>1. rtu_mapper_list'[i] = data[i] /\ i \in 1..Len(data)
        BY <1>0, <2>1, <2>2, <2>3, ReadMapperFact, MapperAssumption DEF Slots
    <3>2. QED
        BY <1>0, <2>1, <3>1 DEF Registered
  <2>4. CASE ~(i <= Len(data))
    <3>1. rtu_mapper_list'[i] = rtu_mapper_list[i]
        BY <1>0, <2>1, <2>2, <2>4, ReadMapperFact
    <3>2. Registered(rtu_mapper_list[i].pid)
        BY <1>0, <3>1 DEF ServerListInv, Used
    <3>3. QED
        BY <2>1, <3>1, <3>2 DEF Registered
  <2>5. QED
    BY <2>3, <2>4
<1>4. CASE rtu_mapper_list' = rtu_mapper_list /\ ~HandlerWrite
    BY <1>2, <1>4
<1>5. rtu_mapper_list' = rtu_mapper_list \/ HandlerRead \/ HandlerWrite
    BY DEF Next, Device, Child, Handler, SendInit, Hangup, Fork, Start, ReadInit, RefuseInit, Die,
           Exit, ReadMapper, Register, SetConnected, HandlerEnter, Reap, HandlerReturn,
           HandlerStatus, handlerVars, vars
<1>6. QED
    BY <1>1, <1>3, <1>4, <1>5

\* How a new file keeps the lines of a site to its session: the processes in it are
\* those of N, who were at sites no line bears, and those it named before, but for the
\* lines brought back.
LEMMA SoleLines ==
    ASSUME RegistryInv, SoleInv, TypeOK', EntriesInv', UNCHANGED <<proc, site>>,
           bypassed \subseteq bypassed', revived \subseteq revived',
           NEW N \in SUBSET Pids, \A q, r \in N : q = r,
           \A q \in N : \A i \in 1..Len(data) : data[i].addr # site[q],
           \A k \in 1..Len(data') : \/ data'[k].pid \in N
                                    \/ Registered(data'[k].pid)
                                    \/ data'[k].addr \in revived'
    PROVE  SoleInv'
<1> SUFFICES ASSUME NEW q \in Pids, Registered(q)', proc[q] # "gone",
                    site[q] \notin bypassed', site[q] \notin revived',
                    NEW k \in 1..Len(data'), data'[k].addr = site[q]
             PROVE  data'[k].pid = q
    BY DEF SoleInv
<1> DEFINE r == data'[k].pid
<1>1. r \in Pids /\ site[r] = site[q]
  <2>1. data' \in Seq(Entries) /\ site' = site
    BY DEF TypeOK
  <2>2. data'[k] \in Entries /\ site'[data'[k].pid] = data'[k].addr
    BY <2>1 DEF EntriesInv, True
  <2>3. QED
    BY <2>1, <2>2 DEF Entries
<1>2. r \in N \/ Registered(r)
    OBVIOUS
<1>3. q \in N \/ Registered(q)
  <2>1. PICK j \in 1..Len(data') : data'[j].pid = q
    BY DEF Registered
  <2>2. data'[j].addr = site[q]
    BY <2>1 DEF EntriesInv, True
  <2>3. QED
    BY <2>1, <2>2
\* Who was registered before has a line with the address it is at.
<1>4. ASSUME NEW x \in Pids, Registered(x)
      PROVE  \E j \in 1..Len(data) : data[j].pid = x /\ data[j].addr = site[x]
  <2>1. PICK j \in 1..Len(data) : data[j].pid = x
    BY <1>4 DEF Registered
  <2>2. QED
    BY <2>1 DEF RegistryInv, EntriesInv, True
<1> HIDE DEF r
<1>5. CASE q \in N /\ r \in N
    BY <1>5 DEF r
<1>6. CASE q \in N /\ Registered(r)
    BY <1>1, <1>4, <1>6
<1>7. CASE Registered(q) /\ r \in N
    BY <1>1, <1>4, <1>7
<1>8. CASE Registered(q) /\ Registered(r)
  <2>1. PICK j \in 1..Len(data) : data[j].pid = r /\ data[j].addr = site[q]
    BY <1>1, <1>4, <1>8
  <2>2. data[j].pid = q
    BY <1>8, <2>1 DEF SoleInv
  <2>3. QED
    BY <2>1, <2>2 DEF r
<1>9. QED
    BY <1>2, <1>3, <1>5, <1>6, <1>7, <1>8

\* The two histories only grow.
LEMMA HistoryGrows ==
    ASSUME [Next]_vars
    PROVE  bypassed \subseteq bypassed' /\ revived \subseteq revived'
BY DEF Next, Device, Child, Handler, SendInit, Hangup, Fork, Start, ReadInit, RefuseInit, Die,
       Exit, ReadMapper, Register, SetConnected, HandlerEnter, Reap, HandlerReturn, HandlerRead,
       HandlerWrite, HandlerStatus, historyVars, vars

\* Who has been born stays where it is, and who has been waited for stays gone.
LEMMA LivesGoOn ==
    ASSUME TypeOK, [Next]_vars
    PROVE  /\ \A p \in Pids : proc[p] # "unborn" => site'[p] = site[p]
           /\ \A p \in Pids : proc[p] = "gone" => proc'[p] = "gone"
BY DEF TypeOK, Next, Device, Child, Handler, SendInit, Hangup, Fork, Start, ReadInit, RefuseInit,
       Die, Exit, ReadMapper, Register, SetConnected, HandlerEnter, Reap, HandlerReturn,
       HandlerRead, HandlerWrite, HandlerStatus, childVars, vars

\* Each action keeps the lines of a site that nobody bypassed or revived down to one.
LEMMA SoleStep ==
    RegistryInv /\ ServerListInv /\ SoleInv /\ [Next]_vars => SoleInv'
<1> SUFFICES ASSUME RegistryInv, ServerListInv, SoleInv, [Next]_vars PROVE SoleInv'
    OBVIOUS
<1>0. /\ TypeOK /\ EntriesInv /\ TypeOK' /\ EntriesInv'
      /\ bypassed \subseteq bypassed' /\ revived \subseteq revived'
    BY RegistryStep, HistoryGrows DEF RegistryInv
<1>1. ASSUME NEW p \in Pids, Register(p) PROVE SoleInv'
  <2>1. UNCHANGED <<proc, site>>
    BY <1>1 DEF Register, childVars
  <2>2. CASE data' = data
    <3>1. \A q \in Pids : Registered(q)' <=> Registered(q)
        BY <2>2 DEF Registered
    <3>2. QED
        BY <1>0, <2>1, <2>2, <3>1 DEF SoleInv
  <2>3. CASE /\ \A i \in 1..Len(data) : data[i].addr # site[p]
             /\ \A k \in 1..Len(data') : \/ data'[k].pid = p
                                         \/ Registered(data'[k].pid)
                                         \/ data'[k].addr \in revived'
    <3> DEFINE new == {p}
    <3>1. /\ new \in SUBSET Pids /\ \A q, r \in new : q = r
          /\ \A q \in new : \A i \in 1..Len(data) : data[i].addr # site[q]
          /\ \A k \in 1..Len(data') : \/ data'[k].pid \in new
                                      \/ Registered(data'[k].pid)
                                      \/ data'[k].addr \in revived'
        BY <2>3
    <3> HIDE DEF new
    <3>2. QED
        BY <1>0, <2>1, <3>1, SoleLines
  <2>4. QED
    BY <1>1, <2>2, <2>3, RegisterLines
<1>2. CASE HandlerWrite
  <2>1. UNCHANGED <<proc, site>>
    BY <1>2 DEF HandlerWrite, childVars
  <2>2. \A k \in 1..Len(data') : Registered(data'[k].pid)
    <3>1. CASE data' = data
        BY <1>0, <3>1, RegisteredPid
    <3>2. CASE \A k \in 1..Len(data') :
                 \E i \in Used(rtu_mapper_list') : data'[k] = rtu_mapper_list'[i]
      <4> SUFFICES ASSUME NEW k \in 1..Len(data') PROVE Registered(data'[k].pid)
        OBVIOUS
      <4>1. PICK i \in Used(rtu_mapper_list') : data'[k] = rtu_mapper_list'[i]
        BY <3>2
      <4>2. i \in Used(rtu_mapper_list) /\ rtu_mapper_list'[i] = rtu_mapper_list[i]
        BY <1>2, <4>1, HandlerLines
      <4>3. QED
        BY <4>1, <4>2 DEF ServerListInv
    <3>3. QED
        BY <1>2, <3>1, <3>2, HandlerLines
  <2> DEFINE none == {}
  <2>3. /\ none \in SUBSET Pids /\ \A q, r \in none : q = r
        /\ \A q \in none : \A i \in 1..Len(data) : data[i].addr # site[q]
        /\ \A k \in 1..Len(data') : \/ data'[k].pid \in none
                                    \/ Registered(data'[k].pid)
                                    \/ data'[k].addr \in revived'
    BY <2>2
  <2> HIDE DEF none
  <2>4. QED
    BY <1>0, <2>1, <2>2, <2>3, SoleLines
<1>3. CASE data' = data
  <2>1. \A q \in Pids : Registered(q)' <=> Registered(q)
    BY <1>3 DEF Registered
  <2>2. \A q \in Pids : Registered(q) => proc[q] # "unborn"
    BY <1>0 DEF Registered, EntriesInv, True
  <2>3. \A q \in Pids : Registered(q)' /\ proc'[q] # "gone"
                          => Registered(q) /\ proc[q] # "gone" /\ site'[q] = site[q]
    BY <1>0, <2>1, <2>2, LivesGoOn
  <2>4. QED
    BY <1>0, <1>3, <2>3 DEF SoleInv
<1>4. QED
    BY <1>1, <1>2, <1>3, FileKept

\* Each action keeps a registered session in the file, as long as there is room in it.
LEMMA SettledStep == RegistryInv /\ SettledInv /\ Room /\ [Next]_vars => SettledInv'
<1> DEFINE Ready(p) == pc[p] = "status" \/ (Introduced(p) /\ pc[p] # "write")
           Known(p) == Registered(p) \/ site[p] \in bypassed
<1> SUFFICES ASSUME RegistryInv, SettledInv, Room, [Next]_vars, NEW p \in Pids
             PROVE  /\ pc'[p] = "peek" => ~Introduced(p)'
                    /\ Live(p)' /\ Ready(p)' => Known(p)'
    BY DEF SettledInv
<1>0. /\ TypeOK /\ LifeInv /\ HandlerInv /\ bypassed \subseteq bypassed'
      /\ pc[p] = "peek" => ~Introduced(p)
      /\ Live(p) /\ Ready(p) => Known(p)
    BY HistoryGrows DEF RegistryInv, SettledInv
<1> HIDE DEF Ready
\* What is known of a living session stays known.
<1>1. Live(p) /\ Known(p) => Known(p)'
  <2> SUFFICES ASSUME Live(p), Known(p) PROVE Known(p)'
    OBVIOUS
  <2>1. site'[p] = site[p]
    BY <1>0, LivesGoOn DEF Live
  <2>2. HandlerWrite => p # hpid
    BY <1>0 DEF Live, HandlerInv, HandlerWrite
  <2>3. CASE Registered(p)
    BY <2>2, <2>3, StaysRegistered
  <2>4. CASE site[p] \in bypassed
    BY <1>0, <2>1, <2>4
  <2>5. QED
    BY <2>3, <2>4
<1>a. ASSUME UNCHANGED <<pc, mapper_list>>, Live(p)' => Live(p)
      PROVE  /\ pc'[p] = "peek" => ~Introduced(p)'
             /\ Live(p)' /\ Ready(p)' => Known(p)'
    BY <1>0, <1>1, <1>a DEF Introduced, Ready
<1>b. ASSUME NEW q \in Pids, q # p, \A r \in Pids \ {q} : /\ pc'[r] = pc[r]
                                                          /\ mapper_list'[r] = mapper_list[r]
                                                          /\ proc'[r] = proc[r]
      PROVE  /\ pc'[p] = "peek" => ~Introduced(p)'
             /\ Live(p)' /\ Ready(p)' => Known(p)'
    BY <1>0, <1>1, <1>b DEF Introduced, Ready, Live
<1> USE DEF childVars, fileVars, handlerVars
<1>2. ASSUME NEW q \in Pids, Device(q)
      PROVE  UNCHANGED <<pc, mapper_list, proc>>
    BY <1>2 DEF Device, SendInit, Hangup
<1>3. ASSUME NEW q \in Pids, NEW s \in Addrs, Fork(q, s)
      PROVE  /\ pc'[p] = "peek" => ~Introduced(p)'
             /\ Live(p)' /\ Ready(p)' => Known(p)'
  <2>1. CASE q = p
    <3>1. pc[p] = "peek" /\ UNCHANGED <<pc, mapper_list>>
        BY <1>0, <1>3, <2>1 DEF LifeInv, Fork
    <3>2. QED
        BY <1>0, <3>1 DEF Introduced, Ready
  <2>2. CASE q # p
    BY <1>0, <1>3, <1>b, <2>2 DEF Fork, TypeOK
  <2>3. QED
    BY <2>1, <2>2
<1>4. ASSUME NEW q \in Pids, Child(q), q # p
      PROVE  /\ pc'[p] = "peek" => ~Introduced(p)'
             /\ Live(p)' /\ Ready(p)' => Known(p)'
  <2>1. \A r \in Pids \ {q} : /\ pc'[r] = pc[r] /\ mapper_list'[r] = mapper_list[r]
                              /\ proc'[r] = proc[r]
    BY <1>0, <1>4 DEF Child, Start, ReadInit, RefuseInit, Die, Exit, ReadMapper, Register,
                      SetConnected, TypeOK
  <2>2. QED
    BY <1>4, <1>b, <2>1
<1>5. CASE Start(p) \/ ReadInit(p)
  <2>1. /\ mapper_list' = mapper_list /\ proc' = proc /\ pc[p] \in {"peek", "run"}
        /\ pc'[p] = "run" \/ pc'[p] = "lock"
        /\ Live(p)
    BY <1>0, <1>5 DEF Start, ReadInit, TypeOK, Live
  <2>2. Ready(p)' => Ready(p)
    BY <2>1 DEF Ready, Introduced
  <2>3. QED
    BY <1>0, <1>1, <2>1, <2>2
<1>6. CASE RefuseInit(p) \/ Die(p)
  <2>1. ~Live(p)' /\ ~Introduced(p)'
    BY <1>0, <1>6 DEF RefuseInit, Die, Exit, TypeOK, Live, Introduced
  <2>2. QED
    BY <2>1
<1>7. CASE ReadMapper(p)
  <2>1. pc'[p] = "write"
    BY <1>0, <1>7 DEF ReadMapper, TypeOK
  <2>2. QED
    BY <2>1 DEF Ready
<1>8. CASE Register(p)
  <2>1. pc[p] = "write" /\ pc'[p] = "status" /\ UNCHANGED <<proc, site>>
    BY <1>0, <1>8 DEF Register, TypeOK
  <2>2. ASSUME data' = data, Registered(p) \/ bypassed' = bypassed \cup {site[p]}
        PROVE  Known(p)'
    BY <2>1, <2>2 DEF Registered
  <2>3. Known(p)'
    <3>1. CASE Registered(p)'
        BY <3>1
    <3>2. \/ data' = data /\ (Registered(p) \/ bypassed' = bypassed \cup {site[p]})
          \/ Adds(p) /\ (Len(data) < MAX_POOL => Registered(p)')
        BY <1>8, RegisterLines
    <3>3. QED
        BY <2>2, <3>1, <3>2 DEF Room
  <2>4. QED
    BY <2>1, <2>3
<1>9. CASE SetConnected(p)
  <2>1. pc[p] = "status" /\ pc'[p] = "run" /\ Live(p)
    BY <1>0, <1>9 DEF SetConnected, TypeOK, Live
  <2>2. QED
    BY <1>0, <1>1, <2>1 DEF Ready
<1>10. CASE Handler \/ UNCHANGED vars
  <2>1. UNCHANGED <<pc, mapper_list>> /\ (Live(p)' => Live(p))
    BY <1>0, <1>10 DEF Handler, HandlerEnter, HandlerReturn, HandlerRead, HandlerWrite,
                       HandlerStatus, Reap, vars, TypeOK, Live
  <2>2. QED
    BY <1>a, <2>1
<1>11. ASSUME NEW q \in Pids, Device(q)
       PROVE  /\ pc'[p] = "peek" => ~Introduced(p)'
              /\ Live(p)' /\ Ready(p)' => Known(p)'
    BY <1>2, <1>11, <1>a DEF Live
<1>12. QED
    BY <1>3, <1>4, <1>5, <1>6, <1>7, <1>8, <1>9, <1>10, <1>11 DEF Next, Child

\* Each action keeps a site that is shown connected served, but for the handler's gap.
LEMMA StatusStep ==
    RegistryInv /\ SettledInv /\ StatusInv /\ [Next]_vars => StatusInv'
<1> SUFFICES ASSUME RegistryInv, SettledInv, StatusInv, [Next]_vars,
                    NEW s \in Sites, s \notin bypassed', status'[s] = "connected"
             PROVE  Served(s)' \/ (hpc' = "status" /\ haddr' = s)
    BY DEF StatusInv
<1>0. /\ TypeOK /\ LifeInv /\ LockInv /\ HandlerInv /\ EntriesInv
      /\ s \notin bypassed
    BY HistoryGrows DEF RegistryInv
\* A session served stays so as long as it is listed and its removal is pending.
<1>1. ASSUME NEW p \in Pids, site[p] = s, Registered(p), Pending(p)', HandlerWrite => p # hpid
      PROVE  Served(s)'
  <2>1. Registered(p)' /\ proc[p] # "unborn"
    BY <1>0, <1>1, StaysRegistered DEF Registered, EntriesInv, True
  <2>2. site'[p] = s
    BY <1>0, <1>1, <2>1, LivesGoOn
  <2>3. QED
    BY <1>1, <2>1, <2>2 DEF Served
<1>2. CASE HandlerWrite
  <2>1. /\ hpc = "write" /\ hpc' = "status" /\ UNCHANGED <<proc, site, status, hpid>>
        /\ haddr' = search_addr(rtu_mapper_list, getTotalLine(data), hpid)
        /\ hpid \in Pids
    BY <1>0, <1>2 DEF HandlerWrite, childVars, HandlerInv
  <2>2. PICK p \in Pids : site[p] = s /\ Registered(p) /\ Pending(p)
    BY <1>0, <2>1 DEF StatusInv, Served
  <2>3. CASE p # hpid
    <3>1. Pending(p)'
        BY <2>1, <2>2, <2>3 DEF Pending
    <3>2. QED
        BY <1>1, <2>2, <2>3, <3>1
  <2>4. CASE p = hpid
    <3>1. PICK i \in 1..Len(data) : data[i].pid = p
        BY <2>2 DEF Registered
    <3>2. i \in Slots /\ i <= Len(data) /\ rtu_mapper_list[i] = data[i] /\ Len(data) \in Nat
        BY <1>0, <2>1, <3>1, RegisteredPid DEF LockInv
    <3>3. PidHits(rtu_mapper_list, getTotalLine(data), hpid) # {}
        BY <2>4, <3>1, <3>2 DEF PidHits, getTotalLine
    <3>4. rtu_mapper_list \in [Slots -> Mappers] /\ getTotalLine(data) \in Nat
        BY <1>0, <3>2 DEF TypeOK, Lists, getTotalLine
    <3>5. PICK j \in Slots : /\ rtu_mapper_list[j].pid = hpid
                             /\ haddr' = rtu_mapper_list[j].addr
        BY <2>1, <3>3, <3>4, SearchAddrFact
    <3>6. rtu_mapper_list[j].addr = site[p]
        BY <1>0, <2>1, <2>4, <3>5, MapperAssumption DEF EntriesInv, TrueList, True
    <3>7. QED
        BY <2>1, <2>2, <3>5, <3>6
  <2>5. QED
    BY <2>3, <2>4
<1>3. CASE HandlerStatus
  <2>1. /\ hpc = "status" /\ UNCHANGED proc
        /\ status' = IF haddr # NoAddr THEN [status EXCEPT ![haddr] = "disconnected"] ELSE status
    BY <1>3 DEF HandlerStatus
  <2>2. status[s] = "connected" /\ haddr # s
    BY <1>0, <2>1, MapperAssumption DEF TypeOK, HandlerInv, Sites
  <2>3. PICK p \in Pids : site[p] = s /\ Registered(p) /\ Pending(p)
    BY <1>0, <2>2 DEF StatusInv, Served
  <2>4. Pending(p)' /\ ~HandlerWrite
    BY <2>1, <2>3 DEF Pending, HandlerWrite
  <2>5. QED
    BY <1>1, <2>3, <2>4
<1>4. ASSUME NEW q \in Pids, SetConnected(q), site[q] = s
      PROVE  Served(s)'
  <2>1. Live(q) /\ pc[q] = "status" /\ UNCHANGED <<proc, hpc>>
    BY <1>4 DEF SetConnected, Live, handlerVars
  <2>2. Registered(q)
    BY <1>0, <1>4, <2>1 DEF SettledInv
  <2>3. Pending(q)' /\ (HandlerWrite => q # hpid)
    BY <1>0, <2>1 DEF Pending, Live, HandlerInv, HandlerWrite
  <2>4. QED
    BY <1>1, <1>4, <2>2, <2>3
\* The other steps: none of them disconnects the site or ends the handler's work on it.
<1>5. CASE /\ ~HandlerWrite /\ ~HandlerStatus
           /\ \A q \in Pids : SetConnected(q) => site[q] # s
  <2>1. /\ status[s] = "connected"
        /\ \A p \in Pids : proc[p] # "unborn" /\ Pending(p) => Pending(p)'
        /\ hpc = "status" => hpc' = "status" /\ haddr' = haddr
    <3>1. ASSUME NEW q \in Pids, Device(q) \/ Start(q) \/ ReadInit(q) \/ ReadMapper(q) \/ Register(q)
          PROVE  UNCHANGED <<status, proc, hpc, hpid, haddr>>
        BY <3>1 DEF Device, SendInit, Hangup, Start, ReadInit, ReadMapper, Register, handlerVars
    <3>2. ASSUME NEW q \in Pids, SetConnected(q)
          PROVE  UNCHANGED <<proc, hpc, hpid, haddr>> /\ status'[s] = status[s]
        BY <1>0, <1>5, <3>2 DEF SetConnected, handlerVars, TypeOK
    <3>3. ASSUME NEW q \in Pids, RefuseInit(q) \/ Die(q)
          PROVE  /\ UNCHANGED <<status, hpc, hpid, haddr>>
                 /\ \A p \in Pids : proc'[p] = IF p = q THEN "zombie" ELSE proc[p]
        BY <1>0, <3>3 DEF RefuseInit, Die, Exit, TypeOK
    <3>4. ASSUME NEW q \in Pids, NEW t \in Addrs, Fork(q, t)
          PROVE  /\ UNCHANGED <<status, hpc, hpid, haddr>>
                 /\ \A p \in Pids : proc[p] # "unborn" => proc'[p] = proc[p]
        BY <1>0, <3>4 DEF Fork, handlerVars, TypeOK
    <3>5. ASSUME NEW q \in Pids, Reap(q)
          PROVE  /\ status' = status /\ hpc = "reap" /\ hpc' = "lock" /\ hpid' = q
                 /\ \A p \in Pids : p # q => proc'[p] = proc[p]
        BY <1>0, <3>5 DEF Reap, TypeOK
    <3>6. CASE HandlerEnter \/ HandlerReturn \/ HandlerRead \/ UNCHANGED vars
      <4>1. /\ UNCHANGED <<status, proc, hpid, haddr>>
            /\ hpc = "status" => hpc' = "status"
            /\ hpc \in {"lock", "write"} => hpc' \in {"lock", "write"}
        BY <3>6 DEF HandlerEnter, HandlerReturn, HandlerRead, vars
      <4>2. QED
        BY <4>1 DEF Pending
    <3>7. QED
        BY <1>5, <3>1, <3>2, <3>3, <3>4, <3>5, <3>6 DEF Next, Child, Handler, Pending
  <2>2. CASE hpc = "status" /\ haddr = s
    BY <2>1, <2>2
  <2>3. CASE Served(s)
    <3>1. PICK p \in Pids : site[p] = s /\ Registered(p) /\ Pending(p)
        BY <2>3 DEF Served
    <3>2. proc[p] # "unborn"
        BY <1>0, <3>1 DEF Registered, EntriesInv, True
    <3>3. QED
        BY <1>1, <1>5, <2>1, <3>1, <3>2
  <2>4. QED
    BY <1>0, <2>1, <2>2, <2>3 DEF StatusInv
<1>6. QED
    BY <1>2, <1>3, <1>4, <1>5

\* At first no site is connected and nobody has been bypassed.
LEMMA ServiceInit == Init => ServiceInv
<1> SUFFICES ASSUME Init PROVE ServiceInv
    OBVIOUS
<1>1. \A p \in Pids : ~Introduced(p) /\ ~Registered(p)
    BY DEF Init, Introduced, Registered
<1>2. ServerListInv
    BY EmptyFact DEF Init, ServerListInv, Used
<1>3. SettledInv /\ SoleInv
    BY <1>1 DEF Init, SettledInv, SoleInv
<1>4. StatusInv
    BY DEF Init, StatusInv
<1>5. QED
    BY <1>2, <1>3, <1>4 DEF ServiceInv

\* As long as no child finds the table full, both invariants hold.
LEMMA ServiceHolds == Spec /\ []Room => [](RegistryInv /\ ServiceInv)
<1>1. RegistryInv /\ ServiceInv /\ Room /\ [Next]_vars => ServiceInv'
    BY ServerListStep, SettledStep, SoleStep, StatusStep DEF ServiceInv
<1>2. QED
    BY <1>1, ServiceInit, RegistryInit, RegistryStep, PTL DEF Spec

\* As long as no child finds the table full: when no death is being handled, a site
\* shown as connected has a living session registered for it, unless a session of the
\* site was bypassed.
THEOREM ConnectedIsServed == Spec /\ []Room => []ConnectedHasSession
<1>1. ASSUME ServiceInv PROVE ConnectedHasSession
  <2> SUFFICES ASSUME Quiet, NEW s \in Sites \ bypassed, status[s] = "connected"
               PROVE  \E p \in Pids : Live(p) /\ Registered(p) /\ site[p] = s
    BY DEF ConnectedHasSession
  <2>1. Served(s)
    BY <1>1 DEF ServiceInv, StatusInv, Quiet
  <2>2. QED
    BY <2>1 DEF Served, Pending, Quiet, Live
<1>2. QED
    BY <1>1, ServiceHolds, PTL

\* As long as no child finds the table full: a command for the site of a session in
\* service finds that session, unless a session of the site was bypassed or a child
\* brought a deleted line of the site back.
THEOREM ServiceIsFound == Spec /\ []Room => []FoundUnlessBypassed
<1>1. ASSUME RegistryInv, ServiceInv PROVE FoundUnlessBypassed
  <2> SUFFICES ASSUME NEW p \in Pids, InService(p), site[p] \notin bypassed \cup revived
               PROVE  Found(site[p]) = p
    BY DEF FoundUnlessBypassed
  <2>1. Registered(p) /\ proc[p] # "gone"
    BY <1>1 DEF ServiceInv, SettledInv, InService, Live
  <2>2. \A i \in 1..Len(data) : data[i].addr = site[p] => data[i].pid = p
    BY <1>1, <2>1 DEF ServiceInv, SoleInv
  <2>3. PICK j \in 1..Len(data) : data[j].pid = p /\ data[j].addr = site[p]
    BY <1>1, <2>1 DEF RegistryInv, EntriesInv, True, Registered
  <2>4. data \in Seq(Entries) /\ Len(data) <= MAX_POOL
    BY <1>1 DEF RegistryInv, TypeOK
  <2>5. \/ \A i \in 1..Len(data) : data[i].addr # site[p]
        \/ \E i \in 1..Len(data) : Found(site[p]) = data[i].pid /\ data[i].addr = site[p]
    BY <2>4, FreshSearch DEF Found
  <2>6. QED
    BY <2>2, <2>3, <2>5
<1>2. QED
    BY <1>1, ServiceHolds, PTL

-----------------------------------------------------------------------------
(* When there is room: as long as no more children were forked than the     *)
(* table has lines.                                                         *)

\* Who has a line, or had one and was waited for: these children will not add
\* themselves any more.
Seen == {p \in Pids : proc[p] = "gone" \/ Registered(p)}

\* The used part of the file and of the arrays, remains included, grows only when a
\* child is seen for the first time.
Within(list, n) == \A i \in Used(list) : i <= n
ExtentInv ==
    /\ Len(data) <= Cardinality(Seen)
    /\ Within(rtu_mapper_list, Cardinality(Seen))
    /\ \A p \in Pids : Within(mapper_list[p], Cardinality(Seen))

\* A list whose used slots are among the first n makes a file of n lines at most.
LEMMA WriteWithin ==
    ASSUME NEW list \in Lists, NEW n \in Nat, Within(list, n)
    PROVE  Len(write_mapper(list)) <= n
<1>1. Used(list) \in SUBSET (1..n)
    BY MapperAssumption DEF Within, Used, Slots
<1>2. IsFiniteSet(1..n) /\ Cardinality(1..n) = n
    BY FS_Interval
<1>3. Cardinality(Used(list)) <= n
    BY <1>1, <1>2, FS_Subset
<1>4. Cardinality(Used(list)) \in Nat
    BY <1>1, <1>2, FS_Subset, FS_CardinalityType
<1>5. QED
    BY <1>3, <1>4 DEF write_mapper

\* Reading a file into an array uses no slot beyond the file's lines and what was used.
LEMMA ReadWithin ==
    ASSUME NEW file \in Seq(Entries), NEW list \in Lists, NEW n \in Nat,
           Len(file) <= n, Within(list, n)
    PROVE  Within(read_mapper(file, list), n)
<1> SUFFICES ASSUME NEW i \in Slots, read_mapper(file, list)[i].pid # NoPid PROVE i <= n
    BY DEF Within, Used
<1>1. i \in Nat /\ Len(file) \in Nat
    BY MapperAssumption DEF Slots
<1>2. CASE i <= Len(file)
    BY <1>1, <1>2
<1>3. CASE ~(i <= Len(file))
    BY <1>3, ReadMapperFact DEF Lists, Within, Used
<1>4. QED
    BY <1>2, <1>3

\* Seen only grows.
LEMMA SeenGrows ==
    ASSUME RegistryInv, [Next]_vars
    PROVE  Seen \subseteq Seen'
<1> SUFFICES ASSUME NEW p \in Pids, proc[p] = "gone" \/ Registered(p)
             PROVE  proc'[p] = "gone" \/ Registered(p)'
    BY DEF Seen
<1>1. CASE proc[p] = "gone"
    BY <1>1, LivesGoOn DEF RegistryInv
<1>2. CASE Registered(p) /\ proc[p] # "gone"
  <2>1. HandlerWrite => p # hpid
    BY <1>2 DEF RegistryInv, HandlerInv, HandlerWrite
  <2>2. QED
    BY <1>2, <2>1, StaysRegistered
<1>3. QED
    BY <1>1, <1>2

\* The cardinality of Seen, before and after a step.
LEMMA SeenCount ==
    ASSUME IsFiniteSet(Pids), RegistryInv, [Next]_vars
    PROVE  /\ Cardinality(Seen) \in Nat /\ Cardinality(Seen)' \in Nat
           /\ Cardinality(Seen) <= Cardinality(Seen)'
           /\ \A p \in Seen' : p \notin Seen => Cardinality(Seen) + 1 <= Cardinality(Seen)'
<1>1. Seen \in SUBSET Pids /\ Seen' \in SUBSET Pids /\ Seen \in SUBSET Seen'
    BY SeenGrows DEF Seen
<1>2. IsFiniteSet(Seen) /\ IsFiniteSet(Seen')
    BY <1>1, FS_Subset
<1>3. Cardinality(Seen) \in Nat /\ Cardinality(Seen') \in Nat
    BY <1>2, FS_CardinalityType
<1>4. Cardinality(Seen) <= Cardinality(Seen')
    BY <1>1, <1>2, FS_Subset
<1>5. ASSUME NEW p \in Seen', p \notin Seen
      PROVE  Cardinality(Seen) + 1 <= Cardinality(Seen')
  <2>1. Seen # Seen'
    BY <1>5
  <2>2. Cardinality(Seen') # Cardinality(Seen)
    BY <1>1, <1>2, <2>1, FS_Subset
  <2>3. QED
    BY <1>3, <1>4, <2>2
<1>6. QED
    BY <1>3, <1>4, <1>5

\* A child that is about to add itself has not been seen, so a line is free for it.
LEMMA NotSeen ==
    ASSUME IsFiniteSet(Pids), Cardinality(Pids) <= MAX_POOL, RegistryInv, ExtentInv,
           NEW p \in Pids, Adds(p)
    PROVE  p \notin Seen /\ Len(data) < MAX_POOL
<1>1. TypeOK /\ LifeInv /\ LockInv /\ EntriesInv /\ Live(p) /\ site[p] \in Sites
    BY DEF RegistryInv, LifeInv, Adds
<1>2. mapper_list[p] \in [Slots -> Mappers] /\ getTotalLine(data) = Len(data) /\ Len(data) \in Nat
    BY <1>1 DEF TypeOK, getTotalLine, Lists
<1>3. \A i \in Slots : i <= Len(data) => /\ i \in 1..Len(data) /\ mapper_list[p][i] = data[i]
                                         /\ mapper_list[p][i].pid # NoPid
  <2>1. \A i \in Slots : i <= Len(data) => i \in 1..Len(data)
    BY <1>2, MapperAssumption DEF Slots
  <2>2. QED
    BY <1>1, <2>1, RegisteredPid DEF LockInv, Adds
<1>4. \A i \in Slots : i <= Len(data) => mapper_list[p][i].addr # site[p]
    BY <1>2, <1>3, SearchPidFact DEF Adds
<1>5. ~Registered(p)
  <2> SUFFICES ASSUME NEW i \in 1..Len(data), data[i].pid = p PROVE FALSE
    BY DEF Registered
  <2>1. data[i].addr = site[p]
    BY <1>1 DEF EntriesInv, True
  <2>2. i \in Slots /\ i <= Len(data)
    BY <1>1, <1>2, MapperAssumption DEF TypeOK, Slots
  <2>3. QED
    BY <1>3, <1>4, <2>1, <2>2
<1>6. p \notin Seen
    BY <1>1, <1>5 DEF Seen, Live
<1>7. Cardinality(Seen) < MAX_POOL
  <2>1. Seen \in SUBSET Pids /\ Seen # Pids
    BY <1>6 DEF Seen
  <2>2. /\ Cardinality(Seen) \in Nat /\ Cardinality(Pids) \in Nat
        /\ Cardinality(Seen) <= Cardinality(Pids) /\ Cardinality(Seen) # Cardinality(Pids)
    BY <2>1, FS_Subset, FS_CardinalityType
  <2>3. QED
    BY <2>2, MapperAssumption
<1>8. Len(data) <= Cardinality(Seen) /\ Cardinality(Seen) \in Nat
  <2>1. Seen \in SUBSET Pids
    BY DEF Seen
  <2>2. QED
    BY <2>1, FS_Subset, FS_CardinalityType DEF ExtentInv
<1>9. QED
    BY <1>2, <1>6, <1>7, <1>8, MapperAssumption

\* A bound that a list keeps within, it keeps within when the bound grows.
LEMMA WithinMore ==
    ASSUME NEW list \in Lists, NEW m \in Nat, NEW n \in Nat, m <= n, Within(list, m)
    PROVE  Within(list, n)
BY MapperAssumption DEF Within, Used, Slots

\* A child that adds itself takes the line after the last: the extent grows with Seen.
LEMMA RegisterWithin ==
    ASSUME IsFiniteSet(Pids), Cardinality(Pids) <= MAX_POOL, RegistryInv, ExtentInv,
           [Next]_vars, NEW p \in Pids, Register(p)
    PROVE  ExtentInv'
<1> DEFINE line == getTotalLine(data)
           list == put_mapper(mapper_list[p], line, add_mapper(p, site[p]))
           n == Cardinality(Seen)
           m == Cardinality(Seen)'
<1>1. /\ TypeOK /\ n \in Nat /\ m \in Nat /\ n <= m
      /\ \A q \in Seen' : q \notin Seen => n + 1 <= m
    BY SeenCount DEF RegistryInv
<1>2. /\ Len(data) <= n /\ Within(rtu_mapper_list, n)
      /\ \A q \in Pids : Within(mapper_list[q], n)
    BY DEF ExtentInv
<1>3. rtu_mapper_list' = rtu_mapper_list
    BY DEF Register, handlerVars
<1>4. line = Len(data) /\ line \in Nat /\ mapper_list[p] \in Lists /\ rtu_mapper_list \in Lists
    BY <1>1 DEF TypeOK, getTotalLine
<1> HIDE DEF n, m
<1>5. Within(rtu_mapper_list', m)
    BY <1>1, <1>2, <1>3, <1>4, WithinMore
<1>6. CASE UNCHANGED <<data, mapper_list>>
  <2>1. Len(data') <= m
    BY <1>1, <1>2, <1>4, <1>6
  <2>2. \A q \in Pids : Within(mapper_list'[q], m)
    BY <1>1, <1>2, <1>6, WithinMore DEF TypeOK
  <2>3. QED
    BY <1>5, <2>1, <2>2 DEF ExtentInv, Within, Used, m
<1>7. CASE ~UNCHANGED <<data, mapper_list>>
  <2>1. Adds(p) /\ (Len(data) < MAX_POOL => Registered(p)')
    BY <1>7, RegisterLines
  <2>2. p \notin Seen /\ p \in Seen'
    BY <2>1, NotSeen DEF Seen
  <2>3. n + 1 <= m
    BY <1>1, <2>2
  <2>4. data' = write_mapper(list) /\ mapper_list' = [mapper_list EXCEPT ![p] = list]
    BY <2>1 DEF Register, Adds
  <2>5. add_mapper(p, site[p]) \in Entries
    BY DEF RegistryInv, TypeOK, LifeInv, Sites, Register, add_mapper, Entries
  <2>6. list \in Lists /\ \A i \in Slots : i # line + 1 => list[i] = mapper_list[p][i]
    BY <1>4, <2>5, PutType
  <2> HIDE DEF list
  <2>7. Within(list, m)
    <3> SUFFICES ASSUME NEW i \in Slots, list[i].pid # NoPid PROVE i <= m
        BY DEF Within, Used
    <3>1. i \in Nat
        BY MapperAssumption DEF Slots
    <3>2. CASE i = line + 1
        BY <1>1, <1>2, <1>4, <2>3, <3>2
    <3>3. CASE i # line + 1
      <4>1. mapper_list[p][i].pid # NoPid
        BY <2>6, <3>3
      <4>2. i <= n
        BY <1>2, <4>1 DEF Within, Used
      <4>3. QED
        BY <1>1, <3>1, <4>2
    <3>4. QED
        BY <3>2, <3>3
  <2>8. Len(data') <= m
    BY <1>1, <2>4, <2>6, <2>7, WriteWithin
  <2>9. ASSUME NEW q \in Pids PROVE Within(mapper_list'[q], m)
    <3>1. CASE q = p
        BY <1>1, <2>4, <2>7, <3>1 DEF TypeOK
    <3>2. CASE q # p
      <4>1. mapper_list'[q] = mapper_list[q] /\ mapper_list[q] \in Lists
        BY <1>1, <2>4, <3>2 DEF TypeOK
      <4>2. QED
        BY <1>1, <1>2, <4>1, WithinMore
    <3>3. QED
        BY <3>1, <3>2
  <2>10. QED
    BY <1>5, <2>8, <2>9 DEF ExtentInv, Within, Used, m
<1>8. QED
    BY <1>6, <1>7

\* The handler deletes and writes back: nothing new is used.
LEMMA HandlerWithin ==
    ASSUME IsFiniteSet(Pids), RegistryInv, ExtentInv, [Next]_vars, HandlerWrite
    PROVE  ExtentInv'
<1> DEFINE list == delete_mapper(rtu_mapper_list, getTotalLine(data), hpid)
           n == Cardinality(Seen)
           m == Cardinality(Seen)'
<1>1. TypeOK /\ n \in Nat /\ m \in Nat /\ n <= m
    BY SeenCount DEF RegistryInv
<1>2. /\ Len(data) <= n /\ Within(rtu_mapper_list, n)
      /\ \A q \in Pids : Within(mapper_list[q], n)
    BY DEF ExtentInv
<1>3. /\ mapper_list' = mapper_list /\ rtu_mapper_list' = list
      /\ data' = write_mapper(list) \/ data' = data
    BY DEF HandlerWrite
<1>4. rtu_mapper_list \in Lists /\ getTotalLine(data) \in Nat /\ hpid \in Pids /\ Len(data) \in Nat
    BY <1>1 DEF RegistryInv, HandlerInv, HandlerWrite, TypeOK, getTotalLine
<1> HIDE DEF n, m
<1>5. list \in Lists /\ \A i \in Slots : list[i].pid = NoPid \/ list[i] = rtu_mapper_list[i]
    BY <1>4, DeleteType
<1> HIDE DEF list
<1>6. Within(list, n)
    BY <1>2, <1>5 DEF Within, Used
<1>7. Len(data') <= m
  <2>1. CASE data' = write_mapper(list)
    <3>1. Within(list, m)
        BY <1>1, <1>5, <1>6, WithinMore
    <3>2. QED
        BY <1>1, <1>5, <2>1, <3>1, WriteWithin
  <2>2. CASE data' = data
    BY <1>1, <1>2, <1>4, <2>2
  <2>3. QED
    BY <1>3, <2>1, <2>2
<1>8. Within(rtu_mapper_list', m)
    BY <1>1, <1>3, <1>5, <1>6, WithinMore
<1>9. \A q \in Pids : Within(mapper_list'[q], m)
    BY <1>1, <1>2, <1>3, WithinMore DEF TypeOK
<1>10. QED
    BY <1>7, <1>8, <1>9 DEF ExtentInv, Within, Used, m

\* Each action keeps the extent.
LEMMA ExtentStep ==
    ASSUME IsFiniteSet(Pids), Cardinality(Pids) <= MAX_POOL, RegistryInv, ExtentInv, [Next]_vars
    PROVE  ExtentInv'
<1> DEFINE n == Cardinality(Seen)
           m == Cardinality(Seen)'
<1>1. TypeOK /\ n \in Nat /\ m \in Nat /\ n <= m
    BY SeenCount DEF RegistryInv
<1>2. /\ Len(data) <= n /\ Within(rtu_mapper_list, n)
      /\ \A q \in Pids : Within(mapper_list[q], n)
    BY DEF ExtentInv
<1>3. data \in Seq(Entries) /\ Len(data) \in Nat /\ rtu_mapper_list \in Lists
      /\ \A q \in Pids : mapper_list[q] \in Lists
    BY <1>1 DEF TypeOK
<1> HIDE DEF n, m
<1>4. CASE HandlerWrite \/ \E p \in Pids : Register(p)
    BY <1>4, HandlerWithin, RegisterWithin
<1>5. CASE ~HandlerWrite /\ \A p \in Pids : ~Register(p)
  <2>1. data' = data
    BY <1>5, FileKept
  <2>2. Len(data') <= m
    BY <1>1, <1>2, <1>3, <2>1
  <2>3. rtu_mapper_list' \in {rtu_mapper_list, read_mapper(data, rtu_mapper_list)}
    BY <1>5 DEF Next, Device, Child, Handler, SendInit, Hangup, Fork, Start, ReadInit, RefuseInit,
                Die, Exit, ReadMapper, SetConnected, HandlerEnter, Reap, HandlerReturn,
                HandlerRead, HandlerStatus, handlerVars, vars
  <2>4. \A q \in Pids :
           mapper_list'[q] \in {mapper_list[q], read_mapper(data, mapper_list[q]), EmptyList}
    BY <1>1, <1>5
    DEF TypeOK, Next, Device, Child, Handler, SendInit, Hangup, Fork, Start, ReadInit, RefuseInit,
        Die, Exit, ReadMapper, SetConnected, HandlerEnter, Reap, HandlerReturn, HandlerRead,
        HandlerStatus, vars
  <2>5. ASSUME NEW list \in Lists, Within(list, n)
        PROVE  Within(list, m) /\ Within(read_mapper(data, list), m) /\ Within(EmptyList, m)
    <3>1. Within(list, m)
        BY <1>1, <2>5, WithinMore
    <3>2. Len(data) <= m
        BY <1>1, <1>2, <1>3
    <3>3. Within(EmptyList, m)
        BY EmptyFact DEF Within, Used
    <3>4. QED
        BY <1>1, <1>3, <3>1, <3>2, <3>3, ReadWithin
  <2>6. Within(rtu_mapper_list', m)
    BY <1>2, <1>3, <2>3, <2>5
  <2>7. \A q \in Pids : Within(mapper_list'[q], m)
    BY <1>2, <1>3, <2>4, <2>5
  <2>8. QED
    BY <2>2, <2>6, <2>7 DEF ExtentInv, Within, Used, m
<1>6. QED
    BY <1>4, <1>5

\* With no more children than the table has lines, there is room for every child that
\* adds itself, whatever the arrays write back: the hypothesis of the two theorems
\* above.
THEOREM RoomForAll ==
    ASSUME IsFiniteSet(Pids), Cardinality(Pids) <= MAX_POOL
    PROVE  Spec => []Room
<1>1. Init => ExtentInv
  <2> SUFFICES ASSUME Init PROVE ExtentInv
    OBVIOUS
  <2>1. Seen \in SUBSET Pids
    BY DEF Seen
  <2>2. Cardinality(Seen) \in Nat
    BY <2>1, FS_Subset, FS_CardinalityType
  <2>3. QED
    BY <2>2, EmptyFact DEF Init, ExtentInv, Within, Used
<1>2. RegistryInv /\ ExtentInv /\ [Next]_vars => ExtentInv'
    BY ExtentStep
<1>3. RegistryInv /\ ExtentInv => Room
    BY NotSeen DEF Room
<1>4. QED
    BY <1>1, <1>2, <1>3, Inductive, PTL DEF Spec

\* So with no more children than lines both properties hold of every behaviour.
THEOREM ServiceHoldsForAll ==
    ASSUME IsFiniteSet(Pids), Cardinality(Pids) <= MAX_POOL
    PROVE  Spec => [](ConnectedHasSession /\ FoundUnlessBypassed)
BY RoomForAll, ConnectedIsServed, ServiceIsFound, PTL
=============================================================================
