---------------------------- MODULE SingleInstance ----------------------------
(***************************************************************************)
(* The guard that keeps a second server from running: the named semaphore  *)
(* that isRunning() of src/sem.cpp creates and close_sem() unlinks, with   *)
(* everything that reaches close_sem() in src/main.cpp: the handlers of    *)
(* SIGINT and SIGSEGV, which the children inherit, and the failure to      *)
(* listen.  Only the existence of the name counts, nobody waits for it.    *)
(* What depends on it are the files data/rtu.data and data/cmd.data, which *)
(* every start empties, while children of earlier servers may still run.   *)
(*                                                                         *)
(* A sem_open() that fails for another reason than EEXIST is left out, and *)
(* so are lines of processes a server has waited for (see RtuRegistry).    *)
(***************************************************************************)
CONSTANT Procs      \* processes, each of which runs once

VARIABLES
    name,   \* whether the semaphore exists
    st,     \* where each process is; "ended" ones do not come back
    kids,   \* children a server has not waited for
    listed, \* of the children nobody has waited for, those with a line in a file
    seen,   \* what each child's array held after its last registration
    late,   \* history: since the files were emptied a child of a server that has
            \* ended has registered
    stray   \* history: the name was unlinked while a server was up that goes on

fileVars == <<listed, seen, late>>
vars == <<name, st, kids, listed, seen, late, stray>>

\* A server from its passing of the guard on: setting up, with the files emptied,
\* listening, or in its SIGINT handler.
Up == {p \in Procs : st[p] \in {"setup", "ready", "listening", "stopping"}}

TypeOK ==
    /\ name \in BOOLEAN
    /\ st \in [Procs -> {"new", "setup", "ready", "listening", "stopping", "child", "ended"}]
    /\ kids \in [Procs -> SUBSET Procs]
    /\ \A p \in Procs : \A k \in kids[p] : st[k] \in {"child", "ended"}
    /\ listed \in SUBSET Procs
    /\ seen \in [Procs -> SUBSET Procs]
    /\ late \in BOOLEAN
    /\ stray \in BOOLEAN

Init ==
    /\ name = FALSE
    /\ st = [p \in Procs |-> "new"]
    /\ kids = [p \in Procs |-> {}]
    /\ listed = {}
    /\ seen = [p \in Procs |-> {}]
    /\ late = FALSE
    /\ stray = FALSE

enter(p, s) == st' = [st EXCEPT ![p] = s]

\* close_sem(), by a process that ends.
closeAndExit(p) ==
    /\ enter(p, "ended")
    /\ name' = FALSE
    /\ stray' = (stray \/ Up \ {p} # {})
    /\ UNCHANGED <<kids, fileVars>>
-----------------------------------------------------------------------------
\* isRunning() = false: the semaphore is created.
Start(p) ==
    /\ st[p] = "new" /\ ~name
    /\ name' = TRUE
    /\ enter(p, "setup")
    /\ UNCHANGED <<kids, fileVars, stray>>

\* Mutant of Refused: the statements after EEXIST that are commented out.
MutRefusedUnlinks(p) ==
    /\ st[p] = "new" /\ name
    /\ name' = FALSE
    /\ enter(p, "ended")
    /\ UNCHANGED <<kids, fileVars, stray>>

\* Mutant of Refused: the data files are cleared before the guard.
MutRefusedClears(p) ==
    /\ st[p] = "new" /\ name
    /\ enter(p, "ended")
    /\ listed' = {} /\ late' = FALSE
    /\ UNCHANGED <<name, kids, seen, stray>>

\* isRunning() = true: the process ends at once.
Refused(p) ==
    /\ st[p] = "new" /\ name
    /\ enter(p, "ended")
    /\ UNCHANGED <<name, kids, fileVars, stray>>

\* Mutant of Clear: only the queues are deleted.
MutClearQueuesOnly(p) ==
    /\ st[p] = "setup"
    /\ enter(p, "ready")
    /\ late' = FALSE
    /\ UNCHANGED <<name, kids, listed, seen, stray>>

\* The set-up: among others the queues and the data files are deleted and created.
Clear(p) ==
    /\ st[p] = "setup"
    /\ enter(p, "ready")
    /\ listed' = {} /\ late' = FALSE
    /\ UNCHANGED <<name, kids, seen, stray>>

\* Both ports are bound: they cannot be while another server has them.
Listen(p) ==
    /\ st[p] = "ready"
    /\ \A q \in Procs : st[q] \notin {"listening", "stopping"}
    /\ enter(p, "listening")
    /\ UNCHANGED <<name, kids, fileVars, stray>>

ListenFails(p) == st[p] = "ready" /\ closeAndExit(p)

\* Mutant of Fork: the child does not return from its part of the loop.
MutForkTwoServers(p, q) ==
    /\ st[p] = "listening" /\ st[q] = "new"
    /\ enter(q, "listening")
    /\ kids' = [kids EXCEPT ![p] = @ \cup {q}]
    /\ UNCHANGED <<name, fileVars, stray>>

Fork(p, q) ==
    /\ st[p] = "listening" /\ st[q] = "new"
    /\ enter(q, "child")
    /\ kids' = [kids EXCEPT ![p] = @ \cup {q}]
    /\ UNCHANGED <<name, fileVars, stray>>

\* A child that does not find itself in the file adds itself and writes its array,
\* with some of what the array held beyond the lines of the file.
Register(c) ==
    /\ st[c] = "child" /\ c \notin listed
    /\ \E rest \in SUBSET (seen[c] \cap UNION {kids[s] : s \in Procs}) :
          /\ listed' = listed \cup rest \cup {c}
          /\ seen' = [seen EXCEPT ![c] = listed \cup rest \cup {c}]
    /\ late' = (late \/ \A s \in Up : c \notin kids[s])
    /\ UNCHANGED <<name, st, kids, stray>>

\* The SIGCHLD handler, which removes the child's line too.
Reap(p, k) ==
    /\ st[p] = "listening" /\ k \in kids[p] /\ st[k] = "ended"
    /\ kids' = [kids EXCEPT ![p] = @ \ {k}]
    /\ listed' = listed \ {k}
    /\ UNCHANGED <<name, st, seen, late, stray>>

\* SIGINT: the handler waits for a child first, if there is one.
Interrupt(p) ==
    /\ st[p] = "listening"
    /\ enter(p, "stopping")
    /\ UNCHANGED <<name, kids, fileVars, stray>>

Stop(p) ==
    /\ st[p] = "stopping"
    /\ kids[p] = {} \/ \E k \in kids[p] : st[k] = "ended"
    /\ closeAndExit(p)

\* SIGINT of a process that has no children, or SIGSEGV of any.
SignalCloses(p) ==
    /\ p \in Up \/ st[p] = "child"
    /\ closeAndExit(p)

\* A child returns, or a process is killed, aborts or leaves the set-up with
\* exit(EXIT_FAILURE): the name stays.
End(p) ==
    /\ p \in Up \/ st[p] = "child"
    /\ enter(p, "ended")
    /\ UNCHANGED <<name, kids, fileVars, stray>>

\* The program initsem, which pkill.sh runs when it has killed every server. (A
\* server that is started between the two is left out.)
InitSem ==
    /\ name /\ Up = {}
    /\ name' = FALSE
    /\ UNCHANGED <<st, kids, fileVars, stray>>

Next ==
    \/ \E p \in Procs :
        \/ Start(p) \/ Refused(p) \/ Clear(p) \/ Register(p) \/ Listen(p) \/ ListenFails(p)
        \/ Interrupt(p) \/ Stop(p) \/ SignalCloses(p) \/ End(p)
    \/ \E p, q \in Procs : Fork(p, q) \/ Reap(p, q)
    \/ InitSem

Spec == Init /\ [][Next]_vars
-----------------------------------------------------------------------------
AtMostOneUp == \A p, q \in Up : p = q

\* As long as nobody but the last server that is up unlinks the name, two servers
\* are never up together, whoever is refused, killed, interrupted or orphaned.
GuardHolds == ~stray => AtMostOneUp

\* A process that is refused, or a server that starts after another has ended, never
\* takes the line of a child of a running server out of the files; only the server
\* that forked it does, when it has waited for it.
LinesKept ==
    [][\A s \in Procs : \A k \in kids[s] :
          st[s] \in {"listening", "stopping"} /\ k \in listed /\ k \notin listed'
             => stray \/ k \notin kids'[s]]_vars

\* After a restart nothing is left of the sessions of earlier servers, although their
\* children may still run: until one of these registers again, a server finds only its
\* own children in the files.
OldLinesGone ==
    ~stray /\ ~late =>
        \A s \in Procs : st[s] \in {"listening", "stopping"} => listed \subseteq kids[s]

\* Violated: src/main.cpp:127 says of the guard that it prevents multiple running.
\* A child that gets SIGINT or SIGSEGV unlinks the name of the running server, and
\* the next server deletes the queues and data files of the one that is up.
MultipleRunningPrevented == AtMostOneUp
=============================================================================
