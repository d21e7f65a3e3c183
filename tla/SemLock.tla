-------------------------------- MODULE SemLock --------------------------------
(***************************************************************************)
(* A named POSIX semaphore used as a mutex (src/lock.cpp): SemLock has     *)
(* an initial value of one, lock() is a sem_timedwait of ten seconds whose *)
(* result no caller looks at, and unlock() is an unconditional sem_post.   *)
(* Every shared table of the server is guarded by one instance of it:      *)
(* data/rtu.data, data/cmd.data and the RTU status memory.                 *)
(*                                                                         *)
(* A process that times out therefore enters the section without a permit  *)
(* ("intruder") and posts one it never took; a process killed inside the   *)
(* section takes its permit with it.                                       *)
(***************************************************************************)
EXTENDS Naturals, FiniteSets

CONSTANTS
    Procs,            \* the processes that use the semaphore: server and children
    UnlinkedAtStart   \* TRUE when main() unlinks the name before it is used
                      \* (the status semaphore), FALSE for the two data files

ASSUME ProcsAssumption == IsFiniteSet(Procs) /\ UnlinkedAtStart \in BOOLEAN

VARIABLES
    sem,       \* the semaphore's value
    pc,        \* where each process is with respect to the guarded section
    timeouts   \* history: "some" once a sem_timedwait has failed since the name was created

vars == <<sem, pc, timeouts>>

Places == {"idle", "waiting", "owner", "intruder", "dead"}

owners == {p \in Procs : pc[p] = "owner"}
intruders == {p \in Procs : pc[p] = "intruder"}
inside == owners \cup intruders

TypeOK ==
    /\ sem \in Nat
    /\ pc \in [Procs -> Places]
    /\ timeouts \in {"none", "some"}

Init ==
    /\ sem = 1
    /\ pc = [p \in Procs |-> "idle"]
    /\ timeouts = "none"

-----------------------------------------------------------------------------
(* Deliberate mistakes: each is a wrong version of the action named in it,   *)
(* used to see that a property notices. They are no part of Spec.            *)

\* sem_wait in place of sem_timedwait: the clock never releases anybody.
MutTimeOutNever(p) == FALSE /\ UNCHANGED vars

\* The clock may beat a permit that is there to be taken.
MutTimeOutEarly(p) ==
    /\ pc[p] = "waiting"
    /\ pc' = [pc EXCEPT ![p] = "intruder"]
    /\ timeouts' = "some"
    /\ UNCHANGED sem

\* Only a process that obtained the lock posts.
MutUnlockOwnerOnly(p) ==
    /\ pc[p] \in {"owner", "intruder"}
    /\ sem' = IF pc[p] = "owner" THEN sem + 1 ELSE sem
    /\ pc' = [pc EXCEPT ![p] = "idle"]
    /\ UNCHANGED timeouts

\* unlock() waits where it should post.
MutUnlockWaits(p) ==
    /\ pc[p] \in {"owner", "intruder"}
    /\ sem' = sem - 1
    /\ pc' = [pc EXCEPT ![p] = "idle"]
    /\ UNCHANGED timeouts

\* lock() looks at the value and does not take the permit.
MutAcquireLooks(p) ==
    /\ pc[p] = "waiting"
    /\ sem > 0
    /\ pc' = [pc EXCEPT ![p] = "owner"]
    /\ UNCHANGED <<sem, timeouts>>

-----------------------------------------------------------------------------
\* The call: the deadline is computed and the process waits.
Lock(p) ==
    /\ pc[p] = "idle"
    /\ pc' = [pc EXCEPT ![p] = "waiting"]
    /\ UNCHANGED <<sem, timeouts>>

\* sem_timedwait succeeds.
Acquire(p) ==
    /\ pc[p] = "waiting"
    /\ sem > 0
    /\ sem' = sem - 1
    /\ pc' = [pc EXCEPT ![p] = "owner"]
    /\ UNCHANGED timeouts

\* sem_timedwait fails after the ten seconds: lock() returns false and the
\* caller goes on all the same.
TimeOut(p) ==
    /\ pc[p] = "waiting"
    /\ sem = 0
    /\ pc' = [pc EXCEPT ![p] = "intruder"]
    /\ timeouts' = "some"
    /\ UNCHANGED sem

\* sem_post, whether or not the lock was obtained.
Unlock(p) ==
    /\ pc[p] \in {"owner", "intruder"}
    /\ sem' = sem + 1
    /\ pc' = [pc EXCEPT ![p] = "idle"]
    /\ UNCHANGED timeouts

\* SIGALRM, SIGSEGV or kill: exit() without a post.
Die(p) ==
    /\ pc[p] # "dead"
    /\ pc' = [pc EXCEPT ![p] = "dead"]
    /\ UNCHANGED <<sem, timeouts>>

\* A new child opens the existing semaphore.
Spawn(p) ==
    /\ pc[p] = "dead"
    /\ pc' = [pc EXCEPT ![p] = "idle"]
    /\ UNCHANGED <<sem, timeouts>>

\* All processes are gone and the server is started again: an unlinked name
\* is created afresh with one permit, a kept one has whatever was left.
ServerRestart ==
    /\ \A p \in Procs : pc[p] = "dead"
    /\ sem' = IF UnlinkedAtStart THEN 1 ELSE sem
    /\ timeouts' = IF UnlinkedAtStart THEN "none" ELSE timeouts
    /\ pc' = [p \in Procs |-> "idle"]

Next ==
    \/ \E p \in Procs :
          \/ Lock(p) \/ Acquire(p) \/ TimeOut(p)
          \/ Unlock(p) \/ Die(p) \/ Spawn(p)
    \/ ServerRestart

\* A waiting process is released by the permit or by the clock, and a section
\* is straight-line code; nothing obliges a process to lock, die or be born.
Fairness ==
    \A p \in Procs : WF_vars(Acquire(p) \/ TimeOut(p)) /\ WF_vars(Unlock(p))

Spec == Init /\ [][Next]_vars /\ Fairness

-----------------------------------------------------------------------------
\* Until a lock() times out, the guarded section belongs to one process,
\* whoever dies where: lock.cpp gives mutual exclusion as long as nobody
\* holds the semaphore longer than ten seconds or dies with it.
ExclusiveUntilTimeout ==
    timeouts = "none" => Cardinality(inside) <= 1

\* The unconditional sem_post of processes that timed out over-fills the
\* semaphore, but never beyond one permit per process: permits and processes
\* inside the section together never outnumber the processes.
PermitBound ==
    Procs # {} => sem + Cardinality(inside) <= Cardinality(Procs)

\* lock() always returns: the ten second limit gets a caller past a permit
\* that died with its owner.
LockReturns ==
    \A p \in Procs : pc[p] = "waiting" ~> pc[p] # "waiting"

\* A permit lost with its owner comes back: when there is no permit and nobody
\* inside, a waiting process will time out, enter, and (unless it dies too)
\* post the permit that was lost.
PermitLost == sem = 0 /\ inside = {}
LostPermitRestored ==
    \A p \in Procs :
        (PermitLost /\ pc[p] = "waiting") ~> (sem > 0 \/ pc[p] = "dead")
=============================================================================
