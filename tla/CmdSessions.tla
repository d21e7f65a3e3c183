------------------------------ MODULE CmdSessions ------------------------------
(***************************************************************************)
(* How the server accepts connections and gives command clients their      *)
(* addresses: the main loop (main of src/main.cpp) with its table          *)
(* cmd_addr_list of MAX_POOL addresses, the children that register         *)
(* themselves in data/cmd.data (start_child of src/main.cpp, the beginning *)
(* of CMDclient::run of src/cmd.cpp), and what the SIGCHLD handler does    *)
(* for them (sigchld_handler of src/main.cpp).                             *)
(*                                                                         *)
(* Address i of 1..MAX_POOL stands for 0x2000 + i.  A connection that gets *)
(* no address from the table carries cmdAddr = 1 (here Fallback), which    *)
(* CMDclient::init turns into 0x2001: the address of the first slot.       *)
(*                                                                         *)
(* The lock on cmd.data is taken to be exclusive (see SemLock), so what is *)
(* done under it is one step.  A pid is not used twice.  RTUs connect to   *)
(* the rtu port and command clients to the client port.                    *)
(***************************************************************************)
EXTENDS MapperFile

CONSTANTS
    Fallback    \* cmdAddr = 1

ASSUME SessionsAssumption ==
    /\ Addrs = Slots
    /\ Fallback \notin Addrs

Ports == {"rtu", "cmd"}

VARIABLES
    mpc,            \* where main is
    cmd_running,    \* whether cmd_server.accept last succeeded
    port,           \* the port new_sock came from
    cmdAddr,
    pid,            \* what fork returned in the parent
    cmd_addr_list,  \* pid of each slot, NoPid if it is free
    proc,           \* life of each child: "unborn", "live", "zombie", "gone"
    role,           \* which port each child's connection came from
    given,          \* the cmdAddr each child was started with
    pc,             \* "start", or "loop" once the child has registered
    data,           \* data/cmd.data
    chld,           \* "pending" while a SIGCHLD waits for the server
    hpc,            \* where the SIGCHLD handler is
    spid,
    early           \* history: children reaped between fork and the
                    \* recording of their pid

mainVars == <<mpc, cmd_running, port, cmdAddr, pid>>
childVars == <<role, given, pc>>
handlerVars == <<chld, hpc, spid>>
vars == <<mpc, cmd_running, port, cmdAddr, pid, cmd_addr_list,
          proc, role, given, pc, data, chld, hpc, spid, early>>

TypeOK ==
    /\ mpc \in {"accept", "pick", "fork", "record"}
    /\ cmd_running \in {"true", "false"}
    /\ port \in Ports
    /\ cmdAddr \in Addrs \cup {Fallback}
    /\ pid \in Pids \cup {NoPid}
    /\ cmd_addr_list \in [Slots -> Pids \cup {NoPid}]
    /\ proc \in [Pids -> {"unborn", "live", "zombie", "gone"}]
    /\ role \in [Pids -> Ports]
    /\ given \in [Pids -> Addrs \cup {Fallback}]
    /\ pc \in [Pids -> {"start", "loop"}]
    /\ data \in Seq(Entries) /\ Len(data) <= MAX_POOL
    /\ chld \in {"none", "pending"}
    /\ hpc \in {"idle", "reap", "remove"}
    /\ spid \in Pids \cup {NoPid}
    /\ early \in SUBSET Pids

Init ==
    /\ mpc = "accept"
    /\ cmd_running = "false"
    /\ port = "rtu"
    /\ cmdAddr = Fallback
    /\ pid = NoPid
    /\ cmd_addr_list = [i \in Slots |-> NoPid]
    /\ proc = [p \in Pids |-> "unborn"]
    /\ role = [p \in Pids |-> "rtu"]
    /\ given = [p \in Pids |-> Fallback]
    /\ pc = [p \in Pids |-> "start"]
    /\ data = <<>>
    /\ chld = "none"
    /\ hpc = "idle"
    /\ spid = NoPid
    /\ early = {}

\* Address::setAddr(addr, CLIENT_ADDRESS): 0x0001 becomes 0x2001.
setAddr(addr) == IF addr = Fallback THEN 1 ELSE addr

Free_slots == {i \in Slots : cmd_addr_list[i] = NoPid}
FirstFree == Nth(Free_slots, 1)

-----------------------------------------------------------------------------
(* Deliberate mistakes: each is a wrong version of the action named in it,   *)
(* used to see that a property notices. They are no part of Spec.            *)

\* The pid is recorded in the child instead of the parent.
MutRecordInChild ==
    /\ mpc = "record" /\ hpc = "idle"
    /\ mpc' = "accept"
    /\ cmdAddr' = Fallback /\ port' = "rtu" /\ pid' = NoPid
    /\ UNCHANGED <<cmd_running, cmd_addr_list, proc, childVars, data, handlerVars, early>>

\* Only a child that is in cmd.data gets its slot freed.
MutReapFreesRegistered(p) ==
    /\ hpc = "reap" /\ proc[p] = "zombie"
    /\ proc' = [proc EXCEPT ![p] = "gone"]
    /\ cmd_addr_list' =
          [i \in Slots |-> IF cmd_addr_list[i] = p /\ \E k \in 1..Len(data) : data[k].pid = p
                           THEN NoPid ELSE cmd_addr_list[i]]
    /\ spid' = p
    /\ early' = IF mpc = "record" /\ pid = p THEN early \cup {p} ELSE early
    /\ hpc' = "remove"
    /\ UNCHANGED <<mainVars, childVars, data, chld>>

\* The new entry is put into the next slot too.
MutRegisterTwice(p) ==
    LET addr == setAddr(given[p])
        line == getTotalLine(data)
        list == read_mapper(data, EmptyList)
        once == put_mapper(list, line, add_mapper(p, addr))
    IN  /\ proc[p] = "live" /\ role[p] = "cmd" /\ pc[p] = "start"
        /\ data' = IF search_pid(list, line, addr) # NoPid THEN data
                   ELSE write_mapper(put_mapper(once, line + 1, add_mapper(p, addr)))
        /\ pc' = [pc EXCEPT ![p] = "loop"]
        /\ UNCHANGED <<mainVars, cmd_addr_list, proc, role, given, handlerVars, early>>

\* Who finds another pid at its address takes the line over.
MutRegisterTakesOver(p) ==
    LET addr == setAddr(given[p])
        line == getTotalLine(data)
        list == read_mapper(data, EmptyList)
        hits == AddrHits(list, line, addr)
        at   == IF hits = {} THEN line ELSE LastOf(hits) - 1
    IN  /\ proc[p] = "live" /\ role[p] = "cmd" /\ pc[p] = "start"
        /\ data' = write_mapper(put_mapper(list, at, add_mapper(p, addr)))
        /\ pc' = [pc EXCEPT ![p] = "loop"]
        /\ UNCHANGED <<mainVars, cmd_addr_list, proc, role, given, handlerVars, early>>

\* The new entry is put over the last line of the file.
MutRegisterOverLast(p) ==
    LET addr == setAddr(given[p])
        line == getTotalLine(data)
        list == read_mapper(data, EmptyList)
    IN  /\ proc[p] = "live" /\ role[p] = "cmd" /\ pc[p] = "start"
        /\ data' = IF search_pid(list, line, addr) # NoPid THEN data
                   ELSE write_mapper([i \in Slots |-> IF i = line \/ (line = 0 /\ i = 1)
                                                      THEN add_mapper(p, addr) ELSE list[i]])
        /\ pc' = [pc EXCEPT ![p] = "loop"]
        /\ UNCHANGED <<mainVars, cmd_addr_list, proc, role, given, handlerVars, early>>

\* The handler deletes from an array it has not read the file into.
MutRemoveUnread ==
    LET line == getTotalLine(data)
    IN  /\ hpc = "remove"
        /\ data' = IF PidHits(EmptyList, line, spid) # {}
                   THEN write_mapper(delete_mapper(EmptyList, line, spid)) ELSE data
        /\ hpc' = "reap"
        /\ UNCHANGED <<mainVars, cmd_addr_list, proc, childVars, chld, spid, early>>

\* One waitpid for each signal instead of a loop.
MutRemoveReapsOne ==
    LET line == getTotalLine(data)
        list == read_mapper(data, EmptyList)
    IN  /\ hpc = "remove"
        /\ data' = IF PidHits(list, line, spid) # {}
                   THEN write_mapper(delete_mapper(list, line, spid)) ELSE data
        /\ hpc' = "idle"
        /\ UNCHANGED <<mainVars, cmd_addr_list, proc, childVars, chld, spid, early>>

-----------------------------------------------------------------------------
(* main. It stands still while its signal handler runs. A connection may     *)
(* arrive at either port at any time. What a step leaves in a variable that   *)
(* is set again before it is read is cleared.                                 *)

\* rtu_server.accept succeeds: cmd_server.accept is not evaluated, and cmd_running
\* keeps the value of the connection before.
AcceptRtu ==
    /\ mpc = "accept" /\ hpc = "idle"
    /\ port' = "rtu"
    /\ mpc' = "pick"
    /\ UNCHANGED <<cmd_running, cmdAddr, pid, cmd_addr_list, proc, childVars, data,
                   handlerVars, early>>

AcceptCmd ==
    /\ mpc = "accept" /\ hpc = "idle"
    /\ port' = "cmd"
    /\ cmd_running' = "true"
    /\ mpc' = "pick"
    /\ UNCHANGED <<cmdAddr, pid, cmd_addr_list, proc, childVars, data, handlerVars, early>>

\* Nobody waits: the inner loop ends, and the outer one sleeps and starts it again.
AcceptNone ==
    /\ mpc = "accept" /\ hpc = "idle"
    /\ cmd_running' = "false"
    /\ UNCHANGED <<mpc, port, cmdAddr, pid, cmd_addr_list, proc, childVars, data,
                   handlerVars, early>>

\* cmdAddr: the first free slot.
Pick ==
    /\ mpc = "pick" /\ hpc = "idle"
    /\ cmdAddr' = IF cmd_running = "true" /\ Free_slots # {} THEN FirstFree ELSE Fallback
    /\ mpc' = "fork"
    /\ UNCHANGED <<cmd_running, port, pid, cmd_addr_list, proc, childVars, data,
                   handlerVars, early>>

Fork(p) ==
    /\ mpc = "fork" /\ hpc = "idle"
    /\ proc[p] = "unborn"
    /\ proc' = [proc EXCEPT ![p] = "live"]
    /\ role' = [role EXCEPT ![p] = port]
    /\ given' = [given EXCEPT ![p] = cmdAddr]
    /\ pid' = p
    /\ mpc' = "record"
    /\ UNCHANGED <<cmd_running, port, cmdAddr, cmd_addr_list, pc, data,
                   handlerVars, early>>

\* fork() = -1: the connection is closed and the loop goes on.
ForkFails ==
    /\ mpc = "fork" /\ hpc = "idle"
    /\ mpc' = "accept"
    /\ cmdAddr' = Fallback /\ port' = "rtu"
    /\ UNCHANGED <<cmd_running, pid, cmd_addr_list, proc, childVars,
                   data, handlerVars, early>>

\* The parent notes the pid in the slot whose address it gave away.
Record ==
    /\ mpc = "record" /\ hpc = "idle"
    /\ cmd_addr_list' =
          [i \in Slots |-> IF cmd_running = "true" /\ i = cmdAddr THEN pid ELSE cmd_addr_list[i]]
    /\ mpc' = "accept"
    /\ cmdAddr' = Fallback /\ port' = "rtu" /\ pid' = NoPid
    /\ UNCHANGED <<cmd_running, proc, childVars, data, handlerVars, early>>

-----------------------------------------------------------------------------
(* A child.                                                                 *)

\* CLIENT_INIT_REQ has been peeked: init(msg, cmdAddr), then the first lines of
\* run(). Its array is fresh. Only if nobody is found at its address, the child
\* adds itself and writes the file.
Register(p) ==
    LET addr == setAddr(given[p])
        line == getTotalLine(data)
        list == read_mapper(data, EmptyList)
    IN  /\ proc[p] = "live" /\ role[p] = "cmd" /\ pc[p] = "start"
        /\ data' = IF search_pid(list, line, addr) = NoPid
                   THEN write_mapper(put_mapper(list, line, add_mapper(p, addr))) ELSE data
        /\ pc' = [pc EXCEPT ![p] = "loop"]
        /\ UNCHANGED <<mainVars, cmd_addr_list, proc, role, given, handlerVars, early>>

\* An unknown first message, SIGALRM, SIGPIPE, a failed assertion, a socket error.
Die(p) ==
    /\ proc[p] = "live"
    /\ proc' = [proc EXCEPT ![p] = "zombie"]
    /\ chld' = "pending"
    /\ UNCHANGED <<mainVars, cmd_addr_list, childVars, data, hpc, spid, early>>

-----------------------------------------------------------------------------
(* sigchld_handler, without what it does about rtu.data.                    *)

HandlerEnter ==
    /\ chld = "pending" /\ hpc = "idle"
    /\ chld' = "none"
    /\ hpc' = "reap"
    /\ UNCHANGED <<mainVars, cmd_addr_list, proc, childVars, data, spid, early>>

\* waitpid(-1, WNOHANG) > 0; the first slot of the child is freed.
Reap(p) ==
    LET mine == {i \in Slots : cmd_addr_list[i] = p}
    IN  /\ hpc = "reap" /\ proc[p] = "zombie"
        /\ proc' = [proc EXCEPT ![p] = "gone"]
        /\ cmd_addr_list' =
              [i \in Slots |-> IF i \in mine /\ \A j \in mine : i <= j
                               THEN NoPid ELSE cmd_addr_list[i]]
        /\ spid' = p
        /\ early' = IF mpc = "record" /\ pid = p THEN early \cup {p} ELSE early
        /\ hpc' = "remove"
        /\ UNCHANGED <<mainVars, childVars, data, chld>>

\* Under the lock, with a fresh array: read, delete, write if something was
\* deleted (then the client queue of the pid is unlinked too).
Remove ==
    LET line == getTotalLine(data)
        list == read_mapper(data, EmptyList)
    IN  /\ hpc = "remove"
        /\ data' = IF PidHits(list, line, spid) # {}
                   THEN write_mapper(delete_mapper(list, line, spid)) ELSE data
        /\ hpc' = "reap"
        /\ UNCHANGED <<mainVars, cmd_addr_list, proc, childVars, chld, spid, early>>

HandlerReturn ==
    /\ hpc = "reap"
    /\ \A p \in Pids : proc[p] # "zombie"
    /\ hpc' = "idle"
    /\ spid' = NoPid
    /\ UNCHANGED <<mainVars, cmd_addr_list, proc, childVars, data, chld, early>>

-----------------------------------------------------------------------------
Main ==
    \/ AcceptRtu \/ AcceptCmd \/ AcceptNone \/ Pick \/ ForkFails \/ Record
    \/ \E p \in Pids : Fork(p)

Handler ==
    \/ HandlerEnter \/ Remove \/ HandlerReturn
    \/ \E p \in Pids : Reap(p)

Next ==
    \/ Main
    \/ \E p \in Pids : Register(p) \/ Die(p)
    \/ Handler

\* The handler runs when the server is signalled, and goes on.
Spec == Init /\ [][Next]_vars /\ WF_vars(Handler)
-----------------------------------------------------------------------------
Live(p) == proc[p] = "live"
Session(p) == Live(p) /\ role[p] = "cmd"
Listed(p) == \E k \in 1..Len(data) : data[k].pid = p

\* Two living children never hold the same address of the table, although RTU
\* sessions take addresses too when they are accepted after a client in one burst,
\* and slots are freed by a handler that may run between the steps of main.
AddressesDistinct ==
    \A p, q \in Pids :
        Live(p) /\ Live(q) /\ given[p] = given[q] /\ given[p] # Fallback => p = q

\* A slot is taken by a child that is alive or still to be waited for. The only
\* other slots in use are those of children that were waited for before the
\* parent noted their pid, and nothing ever frees them.
SlotsReturn ==
    \A i \in Slots :
        cmd_addr_list[i] \notin {NoPid} \cup early =>
            proc[cmd_addr_list[i]] \in {"live", "zombie"}

\* An acknowledgement for the address of a client's session finds that session,
\* unless sessions with the fallback address compete for it.
FallbackUsed == \E q \in Pids : proc[q] # "unborn" /\ role[q] = "cmd" /\ given[q] = Fallback
AckFindsSession ==
    \A p \in Pids :
        Session(p) /\ pc[p] = "loop" /\ given[p] # Fallback
           /\ (setAddr(given[p]) = 1 => ~FallbackUsed)
        => search_pid(read_mapper(data, EmptyList), Len(data), setAddr(given[p])) = p

\* When no death is being handled, cmd.data lists living sessions only, each under
\* its address: no line is left over or comes back.
Quiet ==
    /\ hpc = "idle"
    /\ \A p \in Pids : proc[p] # "zombie"
LinesAlive ==
    Quiet => \A k \in 1..Len(data) :
                Session(data[k].pid) /\ data[k].addr = setAddr(given[data[k].pid])

\* mapper_list[line] is never written past the end of the array: a session that
\* finds its address free finds room, whoever else holds the fallback address.
ArrayBound ==
    \A p \in Pids :
        /\ Session(p) /\ pc[p] = "start"
        /\ search_pid(read_mapper(data, EmptyList), Len(data), setAddr(given[p])) = NoPid
        => Len(data) < MAX_POOL

\* cmd.data is a directory of sessions: a session enters itself only, and only while
\* its address is free; and what is listed stays so until it is waited for, whatever
\* becomes of other sessions, of the fallback address too.
Reachable == {p \in Pids : Listed(p) /\ proc[p] # "gone"}
Dir == INSTANCE Directory WITH Members <- Pids, Places <- Addrs, life <- proc,
                               place <- [p \in Pids |-> setAddr(given[p])], listed <- Reachable
ImplementsDirectory == Dir!Spec

\* A child that has died is waited for and leaves neither a line in cmd.data nor a
\* slot in the table (but for the early ones), however its signal was merged with
\* others.
DeadAreForgotten ==
    \A p \in Pids :
        proc[p] = "zombie" ~>
            /\ proc[p] = "gone" /\ ~Listed(p)
            /\ p \in early \/ \A i \in Slots : cmd_addr_list[i] # p
=============================================================================
