------------------------------ MODULE RtuRegistry ------------------------------
(***************************************************************************)
(* How the server knows which process serves which RTU: data/rtu.data and  *)
(* the status memory, the children that register themselves in it          *)
(* (start_child of src/main.cpp, RTUclient::run and setStatus of           *)
(* src/rtu.cpp), and the server's SIGCHLD handler that removes them        *)
(* (sigchld_handler and set_rtu_status of src/main.cpp).                   *)
(*                                                                         *)
(* The lock on rtu.data is taken to be exclusive: module SemLock shows     *)
(* when it is.  A pid is not used twice, and a connection is one device at *)
(* one address for as long as it lasts.                                    *)
(***************************************************************************)
EXTENDS MapperFile

CONSTANTS
    Server,     \* the server process, as a holder of the lock
    Stranger    \* an address whose site code is not in the database

ASSUME RegistryAssumption ==
    /\ Server \notin Pids \cup {NoPid}
    /\ Stranger \in Addrs

Sites == Addrs \ {Stranger}

VARIABLES
    proc,             \* life of each child: "unborn", "live", "zombie", "gone"
    site,             \* the address of the device behind each connection
    conn,             \* "open" until the device closes or the network drops it
    hello,            \* how many INIT_REQ (0 or 1) wait in the socket
    pc,               \* where each child is
    mapper_list,      \* each child's own array (member of Client)
    rtu_mapper_list,  \* the server's global array
    data,             \* data/rtu.data
    lock,             \* holder of the lock on data, or NoPid
    status,           \* the RTU status memory
    chld,             \* "pending" while a SIGCHLD waits for the server
    hpc,              \* where the SIGCHLD handler is
    hpid,             \* spid of the handler
    haddr,            \* addr of the handler
    bypassed,         \* history: sites one of whose sessions found another
                      \* pid already registered
    revived           \* history: sites with a deleted line that a child
                      \* brought back into the file

childVars == <<site, conn, hello>>
fileVars == <<data, lock>>
handlerVars == <<rtu_mapper_list, chld, hpc, hpid, haddr>>
historyVars == <<bypassed, revived>>
vars == <<proc, site, conn, hello, pc, mapper_list, rtu_mapper_list, data, lock,
          status, chld, hpc, hpid, haddr, bypassed, revived>>

Registered(p) == \E i \in 1..Len(data) : data[i].pid = p

TypeOK ==
    /\ proc \in [Pids -> {"unborn", "live", "zombie", "gone"}]
    /\ site \in [Pids -> Addrs \cup {NoAddr}]
    /\ conn \in [Pids -> {"open", "closed"}]
    /\ hello \in [Pids -> {0, 1}]
    /\ pc \in [Pids -> {"peek", "run", "lock", "write", "status"}]
    /\ mapper_list \in [Pids -> Lists]
    /\ rtu_mapper_list \in Lists
    /\ data \in Seq(Entries) /\ Len(data) <= MAX_POOL
    /\ lock \in Pids \cup {Server, NoPid}
    /\ status \in [Sites -> {"connected", "disconnected"}]
    /\ chld \in {"none", "pending"}
    /\ hpc \in {"idle", "reap", "lock", "write", "status"}
    /\ hpid \in Pids \cup {NoPid}
    /\ haddr \in Addrs \cup {NoAddr}
    /\ bypassed \in SUBSET Sites /\ revived \in SUBSET Sites

Init ==
    /\ proc = [p \in Pids |-> "unborn"]
    /\ site = [p \in Pids |-> NoAddr]
    /\ conn = [p \in Pids |-> "closed"]
    /\ hello = [p \in Pids |-> 0]
    /\ pc = [p \in Pids |-> "peek"]
    /\ mapper_list = [p \in Pids |-> EmptyList]
    /\ rtu_mapper_list = EmptyList
    /\ data = <<>>
    /\ lock = NoPid
    /\ status = [s \in Sites |-> "disconnected"]
    /\ chld = "none"
    /\ hpc = "idle"
    /\ hpid = NoPid
    /\ haddr = NoAddr
    /\ bypassed = {} /\ revived = {}

-----------------------------------------------------------------------------
(* Deliberate mistakes: each is a wrong version of the action named in it,   *)
(* used to see that a property notices. They are no part of Spec.            *)

\* The file is read without the lock.
MutReadMapperUnlocked(p) ==
    /\ proc[p] = "live" /\ pc[p] = "lock"
    /\ mapper_list' = [mapper_list EXCEPT ![p] = read_mapper(data, mapper_list[p])]
    /\ pc' = [pc EXCEPT ![p] = "write"]
    /\ UNCHANGED <<proc, childVars, fileVars, status, handlerVars, historyVars>>

\* A child registers itself without looking for another pid at its address.
MutRegisterBlindly(p) ==
    LET list == put_mapper(mapper_list[p], getTotalLine(data), add_mapper(p, site[p]))
    IN  /\ proc[p] = "live" /\ pc[p] = "write"
        /\ mapper_list' = [mapper_list EXCEPT ![p] = list]
        /\ data' = write_mapper(list)
        /\ lock' = NoPid
        /\ pc' = [pc EXCEPT ![p] = "status"]
        /\ UNCHANGED <<proc, childVars, status, handlerVars, historyVars>>

\* A child takes the place of a session that has ended, without waiting for the
\* handler to remove it.
MutRegisterOverDead(p) ==
    LET line == getTotalLine(data)
        pid  == search_pid(mapper_list[p], line, site[p])
        list == put_mapper(mapper_list[p], line, add_mapper(p, site[p]))
    IN  /\ proc[p] = "live" /\ pc[p] = "write"
        /\ IF pid = NoPid \/ proc[pid] # "live"
           THEN /\ mapper_list' = [mapper_list EXCEPT ![p] = list]
                /\ data' = write_mapper(list)
           ELSE UNCHANGED <<mapper_list, data>>
        /\ bypassed' = IF pid \in {NoPid, p} THEN bypassed ELSE bypassed \cup {site[p]}
        /\ lock' = NoPid
        /\ pc' = [pc EXCEPT ![p] = "status"]
        /\ UNCHANGED <<proc, childVars, status, handlerVars, revived>>

\* A child adds itself to its array and does not write the file.
MutRegisterUnwritten(p) ==
    LET line == getTotalLine(data)
        pid  == search_pid(mapper_list[p], line, site[p])
        list == put_mapper(mapper_list[p], line, add_mapper(p, site[p]))
    IN  /\ proc[p] = "live" /\ pc[p] = "write"
        /\ mapper_list' = [mapper_list EXCEPT ![p] = IF pid = NoPid THEN list ELSE @]
        /\ bypassed' = IF pid \in {NoPid, p} THEN bypassed ELSE bypassed \cup {site[p]}
        /\ lock' = NoPid
        /\ pc' = [pc EXCEPT ![p] = "status"]
        /\ UNCHANGED <<data, proc, childVars, status, handlerVars, revived>>

\* The handler deletes first and searches for the address afterwards.
MutHandlerDeletesFirst ==
    LET line == getTotalLine(data)
        list == delete_mapper(rtu_mapper_list, line, hpid)
    IN  /\ hpc = "write"
        /\ haddr' = search_addr(list, line, hpid)
        /\ rtu_mapper_list' = list
        /\ data' = IF PidHits(rtu_mapper_list, line, hpid) # {}
                   THEN write_mapper(list) ELSE data
        /\ lock' = NoPid
        /\ hpc' = "status"
        /\ UNCHANGED <<proc, childVars, pc, mapper_list, status, chld, hpid, historyVars>>

\* One waitpid for each signal instead of a loop.
MutHandlerReapsOne ==
    /\ hpc = "status"
    /\ status' = IF haddr # NoAddr
                 THEN [status EXCEPT ![haddr] = "disconnected"] ELSE status
    /\ haddr' = NoAddr
    /\ hpid' = NoPid
    /\ hpc' = "idle"
    /\ UNCHANGED <<proc, childVars, pc, mapper_list, rtu_mapper_list, fileVars,
                   chld, historyVars>>

-----------------------------------------------------------------------------
(* The device and the network.                                              *)

SendInit(p) ==
    /\ proc[p] = "live" /\ conn[p] = "open"
    /\ hello[p] = 0
    /\ hello' = [hello EXCEPT ![p] = 1]
    /\ UNCHANGED <<proc, site, conn, pc, mapper_list, fileVars, status, handlerVars, historyVars>>

Hangup(p) ==
    /\ proc[p] = "live" /\ conn[p] = "open"
    /\ conn' = [conn EXCEPT ![p] = "closed"]
    /\ UNCHANGED <<proc, site, hello, pc, mapper_list, fileVars, status, handlerVars, historyVars>>

-----------------------------------------------------------------------------
(* A child.                                                                 *)

\* The server accepts a connection and forks. It cannot while its handler runs.
Fork(p, s) ==
    /\ proc[p] = "unborn" /\ hpc = "idle"
    /\ proc' = [proc EXCEPT ![p] = "live"]
    /\ site' = [site EXCEPT ![p] = s]
    /\ conn' = [conn EXCEPT ![p] = "open"]
    /\ UNCHANGED <<hello, pc, mapper_list, fileVars, status, handlerVars, historyVars>>

\* start_child has peeked an INIT_REQ: the alarm is set and run() begins.
Start(p) ==
    /\ proc[p] = "live" /\ pc[p] = "peek"
    /\ hello[p] = 1
    /\ pc' = [pc EXCEPT ![p] = "run"]
    /\ UNCHANGED <<proc, childVars, mapper_list, fileVars, status, handlerVars, historyVars>>

\* run() reads an INIT_REQ of a known site, answers it and goes for the lock.
ReadInit(p) ==
    /\ proc[p] = "live" /\ pc[p] = "run"
    /\ hello[p] = 1 /\ site[p] \in Sites
    /\ hello' = [hello EXCEPT ![p] = 0]
    /\ pc' = [pc EXCEPT ![p] = "lock"]
    /\ UNCHANGED <<proc, site, conn, mapper_list, fileVars, status, handlerVars, historyVars>>

\* A child ends, its socket and its array with it: the parent owes it a wait.
Exit(p) ==
    /\ proc' = [proc EXCEPT ![p] = "zombie"]
    /\ conn' = [conn EXCEPT ![p] = "closed"]
    /\ hello' = [hello EXCEPT ![p] = 0]
    /\ mapper_list' = [mapper_list EXCEPT ![p] = EmptyList]
    /\ chld' = "pending"
    /\ UNCHANGED <<site, pc, rtu_mapper_list, fileVars, status, hpc, hpid, haddr, historyVars>>

\* An INIT_REQ of an unknown site is refused and run() returns.
RefuseInit(p) ==
    /\ proc[p] = "live" /\ pc[p] = "run"
    /\ hello[p] = 1 /\ site[p] \notin Sites
    /\ Exit(p)

\* SIGALRM after sixty seconds without a message, SIGPIPE in a send to a device
\* that has gone, or a socket error. A closed connection alone does not end
\* run(), and before run() there is no alarm.
Die(p) ==
    /\ proc[p] = "live" /\ pc[p] = "run"
    /\ Exit(p)

\* lock, read_mapper, getTotalLine.
ReadMapper(p) ==
    /\ proc[p] = "live" /\ pc[p] = "lock"
    /\ lock = NoPid
    /\ lock' = p
    /\ mapper_list' = [mapper_list EXCEPT ![p] = read_mapper(data, mapper_list[p])]
    /\ pc' = [pc EXCEPT ![p] = "write"]
    /\ UNCHANGED <<proc, childVars, data, status, handlerVars, historyVars>>

\* The sites of the lines that list still holds beyond slot n and the file has
\* no longer.
Remains(list, n) ==
    {list[i].addr : i \in {j \in Used(list) : j > n /\ ~Registered(list[j].pid)}}

\* search_mapper for a pid at this address; only if there is none, the child
\* adds itself and writes the file; unlock.
Register(p) ==
    LET line == getTotalLine(data)
        pid  == search_pid(mapper_list[p], line, site[p])
        list == put_mapper(mapper_list[p], line, add_mapper(p, site[p]))
    IN  /\ proc[p] = "live" /\ pc[p] = "write"
        /\ IF pid = NoPid
           THEN /\ mapper_list' = [mapper_list EXCEPT ![p] = list]
                /\ data' = write_mapper(list)
                /\ revived' = revived \cup Remains(list, line + 1)
           ELSE UNCHANGED <<mapper_list, data, revived>>
        /\ bypassed' = IF pid \in {NoPid, p} THEN bypassed ELSE bypassed \cup {site[p]}
        /\ lock' = NoPid
        /\ pc' = [pc EXCEPT ![p] = "status"]
        /\ UNCHANGED <<proc, childVars, status, handlerVars>>

\* setStatus(addr, STATUS_CONNECTED), whether it registered or not.
SetConnected(p) ==
    /\ proc[p] = "live" /\ pc[p] = "status"
    /\ status' = [status EXCEPT ![site[p]] = "connected"]
    /\ pc' = [pc EXCEPT ![p] = "run"]
    /\ UNCHANGED <<proc, childVars, mapper_list, fileVars, handlerVars, historyVars>>

-----------------------------------------------------------------------------
(* sigchld_handler in the server.                                           *)

\* The signal is delivered; several deaths may have been merged into it.
HandlerEnter ==
    /\ chld = "pending" /\ hpc = "idle"
    /\ chld' = "none"
    /\ hpc' = "reap"
    /\ UNCHANGED <<proc, childVars, pc, mapper_list, rtu_mapper_list, fileVars,
                   status, hpid, haddr, historyVars>>

\* waitpid(-1, WNOHANG) > 0
Reap(p) ==
    /\ hpc = "reap"
    /\ proc[p] = "zombie"
    /\ proc' = [proc EXCEPT ![p] = "gone"]
    /\ hpid' = p
    /\ hpc' = "lock"
    /\ UNCHANGED <<childVars, pc, mapper_list, rtu_mapper_list, fileVars, status,
                   chld, haddr, historyVars>>

\* waitpid finds no further zombie: the handler returns.
HandlerReturn ==
    /\ hpc = "reap"
    /\ \A p \in Pids : proc[p] # "zombie"
    /\ hpc' = "idle"
    /\ UNCHANGED <<proc, childVars, pc, mapper_list, rtu_mapper_list, fileVars,
                   status, chld, hpid, haddr, historyVars>>

HandlerRead ==
    /\ hpc = "lock"
    /\ lock = NoPid
    /\ lock' = Server
    /\ rtu_mapper_list' = read_mapper(data, rtu_mapper_list)
    /\ hpc' = "write"
    /\ UNCHANGED <<proc, childVars, pc, mapper_list, data, status, chld, hpid,
                   haddr, historyVars>>

\* search, delete, write back if something was deleted (then the RTU queue of
\* the pid is unlinked too), unlock.
HandlerWrite ==
    LET line == getTotalLine(data)
        list == delete_mapper(rtu_mapper_list, line, hpid)
    IN  /\ hpc = "write"
        /\ haddr' = search_addr(rtu_mapper_list, line, hpid)
        /\ rtu_mapper_list' = list
        /\ data' = IF PidHits(rtu_mapper_list, line, hpid) # {}
                   THEN write_mapper(list) ELSE data
        /\ lock' = NoPid
        /\ hpc' = "status"
        /\ UNCHANGED <<proc, childVars, pc, mapper_list, status, chld, hpid, historyVars>>

\* set_rtu_status(addr, STATUS_DISCONNECTED) if an address was found.
HandlerStatus ==
    /\ hpc = "status"
    /\ status' = IF haddr # NoAddr
                 THEN [status EXCEPT ![haddr] = "disconnected"] ELSE status
    /\ haddr' = NoAddr
    /\ hpid' = NoPid
    /\ hpc' = "reap"
    /\ UNCHANGED <<proc, childVars, pc, mapper_list, rtu_mapper_list, fileVars,
                   chld, historyVars>>

-----------------------------------------------------------------------------
Device(p) == SendInit(p) \/ Hangup(p)

Child(p) ==
    \/ Start(p) \/ ReadInit(p) \/ RefuseInit(p) \/ Die(p)
    \/ ReadMapper(p) \/ Register(p) \/ SetConnected(p)

Handler ==
    \/ HandlerEnter \/ HandlerReturn \/ HandlerRead \/ HandlerWrite \/ HandlerStatus
    \/ \E p \in Pids : Reap(p)

Next ==
    \/ \E p \in Pids : Device(p) \/ Child(p)
    \/ \E p \in Pids, s \in Addrs : Fork(p, s)
    \/ Handler

\* Straight-line code goes on, the handler runs when signalled, and a waiting
\* process gets the lock when it is free often enough (its wait is bounded by
\* ten seconds). A device need not say anything, but the alarm of a child whose
\* connection is closed and read empty goes off.
Fairness ==
    /\ WF_vars(Handler) /\ SF_vars(HandlerRead)
    /\ \A p \in Pids :
          /\ SF_vars(ReadMapper(p))
          /\ WF_vars(Register(p) \/ SetConnected(p) \/ ReadInit(p) \/ RefuseInit(p))
          /\ WF_vars(conn[p] = "closed" /\ hello[p] = 0 /\ Die(p))

Spec == Init /\ [][Next]_vars /\ Fairness
-----------------------------------------------------------------------------
Live(p) == proc[p] = "live"

\* Two living children are never both registered for one address: a command for
\* the address has one session to go to.
OneSessionPerAddress ==
    \A i, j \in 1..Len(data) :
        Live(data[i].pid) /\ Live(data[j].pid) /\ data[i].addr = data[j].addr
            => data[i].pid = data[j].pid

\* A line of rtu.data, however old, names a process that really served the
\* address it stands for, although arrays with remains of earlier files in them
\* are written back to it.
EntriesTrue ==
    \A i \in 1..Len(data) :
        /\ proc[data[i].pid] # "unborn"
        /\ data[i].addr = site[data[i].pid]

\* What rewrites the file never loses somebody else's line: a registration goes
\* only after its process has been waited for.
RegistrationKept ==
    [][\A p \in Pids : Registered(p) /\ ~Registered(p)' => proc[p] = "gone"]_vars

\* When no death is being handled, a site shown as connected has a living session
\* that registered for it, provided no session of the site ever found another
\* pid in its place.
Quiet ==
    /\ hpc = "idle"
    /\ \A p \in Pids : proc[p] # "zombie"
ConnectedHasSession ==
    Quiet => \A s \in Sites \ bypassed :
                status[s] = "connected" =>
                    \E p \in Pids : Live(p) /\ Registered(p) /\ site[p] = s

\* The server notices that a registered RTU has gone: its session ends, is waited
\* for, and its site is shown as disconnected.
DepartureSeen ==
    \A p \in Pids :
        (Live(p) /\ conn[p] = "closed" /\ Registered(p))
            ~> (proc[p] = "gone" /\ site[p] \in Sites /\ status[site[p]] = "disconnected")

\* What sends a command looks for its receiver in the file.
Found(s) == search_pid(read_mapper(data, EmptyList), Len(data), s)

\* A session that has introduced itself, and whose device is there, is the one that
\* commands for its site are sent to, provided no session of the site ever found
\* another pid in its place: who did does not register, and nobody registers it when
\* that pid is removed; and provided no child brought a deleted line of the site back:
\* it may come after the line of the session, and the last line counts.
Introduced(p) == mapper_list[p] # EmptyList
InService(p) ==
    Live(p) /\ Introduced(p) /\ pc[p] = "run" /\ conn[p] = "open" /\ hello[p] = 0
FoundUnlessBypassed ==
    Quiet /\ lock = NoPid =>
        \A p \in Pids :
            InService(p) /\ site[p] \notin bypassed \cup revived => Found(site[p]) = p

\* rtu.data is a directory of sessions: a child enters itself only, and only while
\* nobody who has not been waited for is listed for its site; and what is listed
\* stays so until it is waited for, whoever rewrites the file with whatever its
\* array still holds.
Reachable == {p \in Pids : Registered(p) /\ proc[p] # "gone"}
Dir == INSTANCE Directory WITH Members <- Pids, Places <- Addrs \cup {NoAddr},
                               life <- proc, place <- site, listed <- Reachable
ImplementsDirectory == Dir!Spec

\* Where a command is sent, src/cmd.cpp:369 says that it has to go to the queue of
\* the RTU at that address.
\* Violated: the handler's array is never cleared, so a line deleted from the file
\* may still be in the array beyond the lines read, and is written back.
FoundIsAlive ==
    Quiet => \A s \in Sites : Found(s) # NoPid => proc[Found(s)] # "gone"
=============================================================================
