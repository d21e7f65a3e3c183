------------------------ MODULE SingleInstanceProofs ------------------------
(***************************************************************************)
(* Theorems about SingleInstance.  GuardHolds is inductive only together   *)
(* with the fact that the name exists while a server is up; what is said   *)
(* of the files needs it, and that what the arrays of a server's children  *)
(* hold stems from that server.                                            *)
(***************************************************************************)
EXTENDS SingleInstance, TLAPS

NameHeld == ~stray /\ Up # {} => name

IInv == TypeOK /\ GuardHolds /\ NameHeld

\* A process that ends leaves the others as they were.
LEMMA EndUp ==
    ASSUME TypeOK, NEW p \in Procs, enter(p, "ended")
    PROVE  Up' = Up \ {p}
  BY DEF TypeOK, Up, enter

\* close_sem() breaks nothing, whoever calls it: what it could break is recorded.
LEMMA CloseKeeps ==
    ASSUME IInv, NEW p \in Procs, p \in Up \/ st[p] = "child", closeAndExit(p)
    PROVE  IInv'
<1>1. Up' = Up \ {p}
  BY EndUp DEF IInv, closeAndExit
<1>2. TypeOK'
  BY DEF IInv, TypeOK, Up, closeAndExit, enter, fileVars
<1>3. GuardHolds'
  BY <1>1 DEF IInv, GuardHolds, AtMostOneUp, closeAndExit
<1>4. NameHeld'
  BY <1>1 DEF NameHeld, closeAndExit
<1>. QED BY <1>2, <1>3, <1>4 DEF IInv

\* Each action keeps the name while a server is up.
LEMMA NextKeeps == IInv /\ [Next]_vars => IInv'
<1> SUFFICES ASSUME IInv, [Next]_vars PROVE IInv'
  OBVIOUS
<1>1. ASSUME NEW p \in Procs, Start(p) PROVE IInv'
  <2>1. TypeOK'
    BY <1>1 DEF IInv, TypeOK, Start, enter, fileVars
  <2>2. ~stray => Up = {}
    BY <1>1 DEF IInv, NameHeld, Start, fileVars
  <2>3. Up' = Up \cup {p}
    BY <1>1 DEF IInv, TypeOK, Up, Start, enter, fileVars
  <2>4. GuardHolds' /\ NameHeld'
    BY <1>1, <2>2, <2>3 DEF GuardHolds, AtMostOneUp, NameHeld, Start, fileVars
  <2>. QED BY <2>1, <2>4 DEF IInv
<1>2. ASSUME NEW p \in Procs, Refused(p) PROVE IInv'
  <2>1. Up' = Up
    BY <1>2 DEF IInv, TypeOK, Up, Refused, enter, fileVars
  <2>. QED BY <1>2, <2>1 DEF IInv, TypeOK, GuardHolds, AtMostOneUp, NameHeld, Refused, enter, fileVars
<1>3. ASSUME NEW p \in Procs, Listen(p) PROVE IInv'
  <2>1. Up' = Up
    BY <1>3 DEF IInv, TypeOK, Up, Listen, enter, fileVars
  <2>. QED BY <1>3, <2>1 DEF IInv, TypeOK, GuardHolds, AtMostOneUp, NameHeld, Listen, enter, fileVars
<1>4. ASSUME NEW p \in Procs, ListenFails(p) PROVE IInv'
  BY <1>4, CloseKeeps DEF ListenFails, Up
<1>5. ASSUME NEW p \in Procs, Interrupt(p) PROVE IInv'
  <2>1. Up' = Up
    BY <1>5 DEF IInv, TypeOK, Up, Interrupt, enter, fileVars
  <2>. QED BY <1>5, <2>1 DEF IInv, TypeOK, GuardHolds, AtMostOneUp, NameHeld, Interrupt, enter, fileVars
<1>6. ASSUME NEW p \in Procs, Stop(p) PROVE IInv'
  BY <1>6, CloseKeeps DEF Stop, Up
<1>7. ASSUME NEW p \in Procs, SignalCloses(p) PROVE IInv'
  BY <1>7, CloseKeeps DEF SignalCloses
<1>8. ASSUME NEW p \in Procs, End(p) PROVE IInv'
  <2>1. Up' = Up \ {p}
    BY <1>8, EndUp DEF IInv, End
  <2>2. TypeOK'
    BY <1>8 DEF IInv, TypeOK, Up, End, enter, fileVars
  <2>. QED BY <1>8, <2>1, <2>2 DEF IInv, GuardHolds, AtMostOneUp, NameHeld, End, fileVars
<1>9. ASSUME NEW p \in Procs, NEW q \in Procs, Fork(p, q) PROVE IInv'
  <2>1. Up' = Up
    BY <1>9 DEF IInv, TypeOK, Up, Fork, enter, fileVars
  <2>. QED BY <1>9, <2>1 DEF IInv, TypeOK, GuardHolds, AtMostOneUp, NameHeld, Fork, enter, fileVars
<1>10. ASSUME NEW p \in Procs, NEW q \in Procs, Reap(p, q) PROVE IInv'
  <2>1. Up' = Up
    BY <1>10 DEF Up, Reap
  <2>. QED BY <1>10, <2>1 DEF IInv, TypeOK, GuardHolds, AtMostOneUp, NameHeld, Reap
<1>11. ASSUME InitSem PROVE IInv'
  <2>1. Up' = Up
    BY <1>11 DEF Up, InitSem
  <2>. QED BY <1>11, <2>1 DEF IInv, TypeOK, GuardHolds, AtMostOneUp, NameHeld, InitSem, fileVars
<1>12. ASSUME UNCHANGED vars PROVE IInv'
  BY <1>12 DEF IInv, TypeOK, GuardHolds, AtMostOneUp, NameHeld, Up, vars, fileVars
<1>13. ASSUME NEW p \in Procs, Clear(p) PROVE IInv'
  <2>1. Up' = Up
    BY <1>13 DEF IInv, TypeOK, Up, Clear, enter
  <2>2. TypeOK'
    BY <1>13 DEF IInv, TypeOK, Clear, enter
  <2>. QED BY <1>13, <2>1, <2>2 DEF IInv, GuardHolds, AtMostOneUp, NameHeld, Clear
<1>14. ASSUME NEW c \in Procs, Register(c) PROVE IInv'
  <2>1. Up' = Up
    BY <1>14 DEF Up, Register
  <2>2. PICK rest \in SUBSET (seen[c] \cap UNION {kids[s] : s \in Procs}) :
           /\ listed' = listed \cup rest \cup {c}
           /\ seen' = [seen EXCEPT ![c] = listed \cup rest \cup {c}]
    BY <1>14 DEF Register
  <2>3. rest \subseteq Procs
    BY <2>2 DEF IInv, TypeOK
  <2>4. TypeOK'
    BY <1>14, <2>2, <2>3 DEF IInv, TypeOK, Register
  <2>. QED BY <1>14, <2>1, <2>4 DEF IInv, GuardHolds, AtMostOneUp, NameHeld, Register
<1>. QED
  BY <1>1, <1>2, <1>3, <1>4, <1>5, <1>6, <1>7, <1>8, <1>9, <1>10, <1>11, <1>12, <1>13, <1>14
  DEF Next

\* The strengthened invariant holds in every reachable state.
THEOREM GuardInductive == Spec => []IInv
<1>1. Init => IInv
  BY DEF Init, IInv, TypeOK, GuardHolds, AtMostOneUp, NameHeld, Up
<1>. QED BY <1>1, NextKeeps, PTL DEF Spec

\* The guard works for any number of starts, children and signals, until somebody
\* else than the server that holds the name unlinks it.
THEOREM GuardWorks == Spec => [](TypeOK /\ GuardHolds)
<1>1. IInv => TypeOK /\ GuardHolds
  BY DEF IInv
<1>. QED BY <1>1, GuardInductive, PTL

\* Every variable keeps its type, above all: a server's children are children.
THEOREM GuardTypes == Spec => []TypeOK
BY GuardWorks, PTL

-----------------------------------------------------------------------------
(* The files.                                                               *)

\* A process has one parent, and only servers that have listened have children.
FamilyInv ==
    /\ \A s, t \in Procs : \A k \in kids[s] : k \in kids[t] => s = t
    /\ \A s \in Procs : st[s] \in {"new", "setup", "ready"} => kids[s] = {}
    /\ \A p \in Procs : st[p] = "new" => seen[p] = {}

Kids == UNION {kids[s] : s \in Procs}
Cleared == {s \in Procs : st[s] \in {"ready", "listening", "stopping"}}

\* What the files and the arrays of a server's children hold stems from that server.
OwnInv ==
    ~stray /\ ~late =>
        \A s \in Cleared :
            /\ listed \subseteq kids[s]
            /\ \A c \in kids[s] : seen[c] \cap Kids \subseteq kids[s]

FileInv == IInv /\ FamilyInv /\ OwnInv

\* Steps that leave files, arrays and children as they are, and make no server cleared.
LEMMA FileFrame ==
    ASSUME FamilyInv, OwnInv, UNCHANGED <<kids, listed, seen, late>>, stray => stray',
           Cleared' \subseteq Cleared,
           \A p \in Procs : st'[p] = "new" => st[p] = "new",
           \A p \in Procs : st'[p] \in {"new", "setup", "ready"} => st[p] \in {"new", "setup", "ready"}
    PROVE  FamilyInv' /\ OwnInv'
<1>1. FamilyInv'
  BY DEF FamilyInv
<1>2. OwnInv'
  BY DEF OwnInv, Kids
<1>. QED BY <1>1, <1>2

\* Each action keeps what the files and arrays of a server's children hold.
LEMMA FileStep == FileInv /\ [Next]_vars => FileInv'
<1> SUFFICES ASSUME FileInv, [Next]_vars PROVE FamilyInv' /\ OwnInv'
  BY NextKeeps DEF FileInv
<1>0. TypeOK /\ GuardHolds /\ NameHeld /\ FamilyInv /\ OwnInv
  BY DEF FileInv, IInv
<1>a. \A s \in Cleared : s \in Up
  BY DEF Cleared, Up
<1>1. ASSUME NEW p \in Procs,
             \/ Start(p) \/ Refused(p) \/ Listen(p) \/ ListenFails(p) \/ Interrupt(p)
             \/ Stop(p) \/ SignalCloses(p) \/ End(p)
      PROVE  FamilyInv' /\ OwnInv'
  <2>a. UNCHANGED <<kids, listed, seen, late>>
    BY <1>1 DEF Start, Refused, Listen, ListenFails, Interrupt, Stop, SignalCloses, End,
                closeAndExit, fileVars
  <2>b. \/ stray' = stray
        \/ stray' = (stray \/ Up \ {p} # {})
    BY <1>1 DEF Start, Refused, Listen, ListenFails, Interrupt, Stop, SignalCloses, End,
                closeAndExit
  <2>c. ASSUME stray PROVE stray'
    <3>1. CASE stray' = stray
      BY <2>c, <3>1, Zenon
    <3>2. CASE stray' = (stray \/ Up \ {p} # {})
      BY <2>c, <3>2, Zenon
    <3>. QED BY <2>b, <3>1, <3>2
  <2>1. UNCHANGED <<kids, listed, seen, late>> /\ (stray => stray')
    BY <2>a, <2>c, Zenon
  <2>2. /\ \A q \in Procs \ {p} : st'[q] = st[q]
        /\ \/ st'[p] = "ended"
           \/ st'[p] = "setup" /\ st[p] = "new"
           \/ st'[p] = "listening" /\ st[p] = "ready"
           \/ st'[p] = "stopping" /\ st[p] = "listening"
    BY <1>0, <1>1 DEF TypeOK, Start, Refused, Listen, ListenFails, Interrupt, Stop,
                      SignalCloses, End, closeAndExit, enter
  <2>3. Cleared' \subseteq Cleared
    BY <2>2 DEF Cleared
  <2>4. \A q \in Procs : /\ st'[q] = "new" => st[q] = "new"
                         /\ st'[q] \in {"new", "setup", "ready"} => st[q] \in {"new", "setup", "ready"}
    BY <2>2
  <2>. QED BY <1>0, <2>1, <2>3, <2>4, FileFrame
<1>2. CASE InitSem \/ UNCHANGED vars
  <2>1. UNCHANGED <<st, kids, listed, seen, late, stray>>
    BY <1>2 DEF InitSem, vars, fileVars
  <2>. QED BY <1>0, <2>1, FileFrame DEF Cleared
<1>3. ASSUME NEW p \in Procs, Clear(p) PROVE FamilyInv' /\ OwnInv'
  <2>1. /\ st[p] = "setup" /\ st' = [st EXCEPT ![p] = "ready"] /\ listed' = {}
        /\ UNCHANGED <<kids, seen, stray>>
    BY <1>3 DEF Clear, enter
  <2>2. FamilyInv'
    BY <1>0, <2>1 DEF FamilyInv, TypeOK
  <2>3. ASSUME ~stray, NEW s \in Cleared' PROVE s = p
    BY <1>0, <2>1, <2>3 DEF GuardHolds, AtMostOneUp, Up, Cleared, TypeOK
  <2>4. kids'[p] = {}
    BY <1>0, <2>1 DEF FamilyInv
  <2>5. OwnInv'
    BY <2>1, <2>3, <2>4 DEF OwnInv
  <2>. QED BY <2>2, <2>5
<1>4. ASSUME NEW c \in Procs, Register(c) PROVE FamilyInv' /\ OwnInv'
  <2>1. /\ st[c] = "child" /\ UNCHANGED <<st, kids, stray>>
        /\ late' = (late \/ \A s \in Up : c \notin kids[s])
    BY <1>4 DEF Register
  <2>2. PICK rest \in SUBSET (seen[c] \cap Kids) :
           /\ listed' = listed \cup rest \cup {c}
           /\ seen' = [seen EXCEPT ![c] = listed \cup rest \cup {c}]
    BY <1>4 DEF Register, Kids
  <2>3. FamilyInv'
    BY <1>0, <2>1, <2>2 DEF FamilyInv, TypeOK
  <2>4. Kids' = Kids /\ Cleared' = Cleared
    BY <2>1 DEF Kids, Cleared
  <2>5. ASSUME ~stray, ~late', NEW s \in Cleared
        PROVE  /\ listed' \subseteq kids[s]
               /\ \A d \in kids[s] : seen'[d] \cap Kids \subseteq kids[s]
    <3>1. PICK t \in Up : c \in kids[t]
      BY <2>1, <2>5
    <3>2. t = s
      BY <1>0, <1>a, <2>5 DEF GuardHolds, AtMostOneUp
    <3>3. listed \subseteq kids[s] /\ seen[c] \cap Kids \subseteq kids[s]
      BY <1>0, <2>1, <2>5, <3>1, <3>2 DEF OwnInv
    <3>4. listed' \subseteq kids[s]
      BY <2>2, <3>1, <3>2, <3>3
    <3>5. ASSUME NEW d \in kids[s] PROVE seen'[d] \cap Kids \subseteq kids[s]
      <4>1. d \in Procs /\ (d # c => seen'[d] = seen[d]) /\ seen'[c] = listed'
        BY <1>0, <2>2 DEF TypeOK, Cleared
      <4>2. seen[d] \cap Kids \subseteq kids[s]
        BY <1>0, <2>1, <2>5 DEF OwnInv
      <4>. QED BY <3>4, <4>1, <4>2
    <3>. QED BY <3>4, <3>5
  <2>6. OwnInv'
    BY <2>1, <2>4, <2>5 DEF OwnInv
  <2>. QED BY <2>3, <2>6
<1>5. ASSUME NEW p \in Procs, NEW q \in Procs, Fork(p, q) PROVE FamilyInv' /\ OwnInv'
  <2>1. /\ st[p] = "listening" /\ st[q] = "new" /\ st' = [st EXCEPT ![q] = "child"]
        /\ kids' = [kids EXCEPT ![p] = kids[p] \cup {q}]
        /\ UNCHANGED <<listed, seen, late, stray>>
    BY <1>5 DEF Fork, enter, fileVars
  <2>2. \A s \in Procs : q \notin kids[s]
    BY <1>0, <2>1 DEF TypeOK
  <2>3. kids'[p] = kids[p] \cup {q} /\ \A s \in Procs \ {p} : kids'[s] = kids[s]
    BY <1>0, <2>1 DEF TypeOK
  <2>4. \A s, t \in Procs : \A k \in kids'[s] : k \in kids'[t] => s = t
    BY <1>0, <2>2, <2>3 DEF FamilyInv
  <2>5. FamilyInv'
    BY <1>0, <2>1, <2>3, <2>4 DEF FamilyInv, TypeOK
  <2>6. Kids' \subseteq Kids \cup {q} /\ Cleared' \subseteq Cleared
    BY <1>0, <2>1, <2>3 DEF Kids, Cleared, TypeOK
  <2>7. ASSUME ~stray, ~late, NEW s \in Cleared
        PROVE  /\ listed' \subseteq kids'[s]
               /\ \A d \in kids'[s] : seen'[d] \cap Kids' \subseteq kids'[s]
    <3>1. s = p /\ p \in Procs
      BY <1>0, <1>a, <2>1, <2>7 DEF GuardHolds, AtMostOneUp, Up
    <3>2. listed \subseteq kids[p] /\ \A d \in kids[p] : seen[d] \cap Kids \subseteq kids[p]
      BY <1>0, <2>7, <3>1 DEF OwnInv
    <3>3. seen[q] = {}
      BY <1>0, <2>1 DEF FamilyInv
    <3>. QED BY <2>1, <2>3, <2>6, <3>1, <3>2, <3>3
  <2>8. OwnInv'
    BY <2>1, <2>6, <2>7 DEF OwnInv
  <2>. QED BY <2>5, <2>8
<1>6. ASSUME NEW p \in Procs, NEW k \in Procs, Reap(p, k) PROVE FamilyInv' /\ OwnInv'
  <2>1. /\ st[p] = "listening" /\ k \in kids[p] /\ kids' = [kids EXCEPT ![p] = kids[p] \ {k}]
        /\ listed' = listed \ {k} /\ UNCHANGED <<st, seen, late, stray>>
    BY <1>6 DEF Reap
  <2>2. kids'[p] = kids[p] \ {k} /\ \A s \in Procs \ {p} : kids'[s] = kids[s]
    BY <1>0, <2>1 DEF TypeOK
  <2>3. FamilyInv'
    BY <1>0, <2>1, <2>2 DEF FamilyInv
  <2>4. Kids' \subseteq Kids \ {k} /\ Cleared' = Cleared
    BY <1>0, <2>1, <2>2 DEF FamilyInv, Kids, Cleared
  <2>5. ASSUME ~stray, ~late, NEW s \in Cleared
        PROVE  /\ listed' \subseteq kids'[s]
               /\ \A d \in kids'[s] : seen'[d] \cap Kids' \subseteq kids'[s]
    <3>1. s = p
      BY <1>0, <1>a, <2>1, <2>5 DEF GuardHolds, AtMostOneUp, Up
    <3>2. listed \subseteq kids[p] /\ \A d \in kids[p] : seen[d] \cap Kids \subseteq kids[p]
      BY <1>0, <2>5, <3>1 DEF OwnInv
    <3>. QED BY <2>1, <2>2, <2>4, <3>1, <3>2
  <2>6. OwnInv'
    BY <2>1, <2>4, <2>5 DEF OwnInv
  <2>. QED BY <2>3, <2>6
<1>. QED BY <1>1, <1>2, <1>3, <1>4, <1>5, <1>6 DEF Next

\* Until an orphan registers, the files hold the running server's children only: the
\* invariant behind RestartForgets and LinesAreKept.
THEOREM FilesInductive == Spec => []FileInv
<1>1. Init => FileInv
  BY DEF Init, FileInv, IInv, TypeOK, GuardHolds, AtMostOneUp, NameHeld, Up, FamilyInv, OwnInv,
         Cleared
<1>. QED BY <1>1, FileStep, PTL DEF Spec

\* After a restart a server finds only its own children in the files, until a child of
\* an earlier one registers again.
THEOREM RestartForgets == Spec => []OldLinesGone
<1>1. FileInv => OldLinesGone
  BY DEF FileInv, OwnInv, Cleared, OldLinesGone
<1>. QED BY <1>1, FilesInductive, PTL

\* The line of a child of a running server goes only when that server has waited for
\* it, whatever other servers are started meanwhile.
THEOREM LinesAreKept == Spec => LinesKept
<1> DEFINE Kept == \A s \in Procs : \A k \in kids[s] :
                      st[s] \in {"listening", "stopping"} /\ k \in listed /\ k \notin listed'
                         => stray \/ k \notin kids'[s]
<1>1. ASSUME FileInv, [Next]_vars PROVE Kept
  <2>0. TypeOK /\ GuardHolds /\ FamilyInv
    BY <1>1 DEF FileInv, IInv
  <2>1. CASE listed \subseteq listed'
    BY <2>1
  <2>2. ASSUME NEW p \in Procs, Clear(p) PROVE Kept
    <3>1. ~stray => \A s \in Procs : st[s] \notin {"listening", "stopping"}
      BY <2>0, <2>2 DEF Clear, GuardHolds, AtMostOneUp, Up
    <3>. QED BY <3>1
  <2>3. ASSUME NEW p \in Procs, NEW j \in Procs, Reap(p, j) PROVE Kept
    <3>1. j \in kids[p] /\ j \notin kids'[p] /\ listed' = listed \ {j}
      BY <2>0, <2>3 DEF Reap, TypeOK
    <3>. QED BY <2>0, <3>1 DEF FamilyInv
  <2>4. ASSUME \A p \in Procs : ~Clear(p), \A p, k \in Procs : ~Reap(p, k)
        PROVE  listed \subseteq listed'
    BY <1>1, <2>4 DEF Next, Start, Refused, Register, Listen, ListenFails, Interrupt, Stop,
                      SignalCloses, End, Fork, InitSem, closeAndExit, fileVars, vars
  <2>. QED BY <2>1, <2>2, <2>3, <2>4
<1>. QED BY <1>1, FilesInductive, PTL DEF Spec, LinesKept
=============================================================================
