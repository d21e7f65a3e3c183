---------------------------- MODULE SemLockProofs ----------------------------
(***************************************************************************)
(* What is proved of SemLock for every finite set of processes: its types, *)
(* mutual exclusion until the first time-out, and the bound on permits.    *)
(***************************************************************************)
EXTENDS SemLock, FiniteSetTheorems, TLAPS

\* Permits and processes in the section, counted together.
Load == sem + Cardinality(owners) + Cardinality(intruders)

\* The cardinalities of two disjoint sets of processes add up.
LEMMA DisjointCount ==
    ASSUME NEW A \in SUBSET Procs, NEW B \in SUBSET Procs, A \cap B = {}
    PROVE  /\ IsFiniteSet(A) /\ IsFiniteSet(B)
           /\ Cardinality(A) \in Nat /\ Cardinality(B) \in Nat
           /\ Cardinality(A \cup B) = Cardinality(A) + Cardinality(B)
           /\ Cardinality(A \cup B) <= Cardinality(Procs)
           /\ Cardinality(Procs) \in Nat
<1>1. IsFiniteSet(A) /\ IsFiniteSet(B)
    BY FS_Subset, ProcsAssumption
<1>2. Cardinality(A \cup B) = Cardinality(A) + Cardinality(B) - Cardinality(A \cap B)
    BY <1>1, FS_Union
<1>3. Cardinality(A \cap B) = 0
    BY FS_EmptySet
<1>4. A \cup B \in SUBSET Procs
    OBVIOUS
<1>5. Cardinality(A \cup B) <= Cardinality(Procs)
    BY <1>4, FS_Subset, ProcsAssumption
<1>6. Cardinality(A) \in Nat /\ Cardinality(B) \in Nat /\ Cardinality(Procs) \in Nat
    BY <1>1, FS_CardinalityType, ProcsAssumption
<1>7. QED
    BY <1>1, <1>2, <1>3, <1>5, <1>6

\* So the section holds as many processes as there are owners and intruders.
LEMMA InsideCount ==
    /\ IsFiniteSet(owners) /\ IsFiniteSet(intruders)
    /\ Cardinality(owners) \in Nat
    /\ Cardinality(intruders) \in Nat
    /\ Cardinality(inside) = Cardinality(owners) + Cardinality(intruders)
    /\ Cardinality(inside) <= Cardinality(Procs)
    /\ Cardinality(Procs) \in Nat
<1>1. owners \in SUBSET Procs /\ intruders \in SUBSET Procs /\ owners \cap intruders = {}
    BY DEF owners, intruders
<1>2. QED
    BY <1>1, DisjointCount DEF inside

-----------------------------------------------------------------------------
\* sem_post and sem_timedwait keep the semaphore a natural number.
THEOREM TypeCorrect == Spec => []TypeOK
<1>1. Init => TypeOK
    BY DEF Init, TypeOK, Places
<1>2. TypeOK /\ [Next]_vars => TypeOK'
  <2> SUFFICES ASSUME TypeOK, [Next]_vars PROVE TypeOK'
    OBVIOUS
  <2> USE DEF TypeOK, Places
  <2>1. ASSUME NEW p \in Procs, Lock(p) PROVE TypeOK'
    BY <2>1 DEF Lock
  <2>2. ASSUME NEW p \in Procs, Acquire(p) PROVE TypeOK'
    BY <2>2 DEF Acquire
  <2>3. ASSUME NEW p \in Procs, TimeOut(p) PROVE TypeOK'
    BY <2>3 DEF TimeOut
  <2>4. ASSUME NEW p \in Procs, Unlock(p) PROVE TypeOK'
    BY <2>4 DEF Unlock
  <2>5. ASSUME NEW p \in Procs, Die(p) PROVE TypeOK'
    BY <2>5 DEF Die
  <2>6. ASSUME NEW p \in Procs, Spawn(p) PROVE TypeOK'
    BY <2>6 DEF Spawn
  <2>7. CASE ServerRestart
    BY <2>7, ProcsAssumption DEF ServerRestart
  <2>8. CASE UNCHANGED vars
    BY <2>8 DEF vars
  <2>9. QED
    BY <2>1, <2>2, <2>3, <2>4, <2>5, <2>6, <2>7, <2>8 DEF Next
<1>3. QED
    BY <1>1, <1>2, PTL DEF Spec

-----------------------------------------------------------------------------
\* The strengthening of ExclusiveUntilTimeout: before the first time-out nobody
\* is inside without a permit, and a permit that is out is not in the semaphore.
OnePermit ==
    timeouts = "none" => /\ intruders = {}
                         /\ sem + Cardinality(owners) <= 1

ExclusionInv == TypeOK /\ OnePermit

\* One process moving in or out of the owners changes their number by one.
LEMMA OwnersStep ==
    ASSUME TypeOK, NEW p \in Procs, NEW place \in Places,
           pc' = [pc EXCEPT ![p] = place]
    PROVE  /\ owners' = IF place = "owner" THEN owners \cup {p} ELSE owners \ {p}
           /\ intruders' = IF place = "intruder" THEN intruders \cup {p} ELSE intruders \ {p}
           /\ Cardinality(owners') =
                IF place = "owner"
                THEN IF pc[p] = "owner" THEN Cardinality(owners) ELSE Cardinality(owners) + 1
                ELSE IF pc[p] = "owner" THEN Cardinality(owners) - 1 ELSE Cardinality(owners)
           /\ Cardinality(intruders') =
                IF place = "intruder"
                THEN IF pc[p] = "intruder" THEN Cardinality(intruders) ELSE Cardinality(intruders) + 1
                ELSE IF pc[p] = "intruder" THEN Cardinality(intruders) - 1 ELSE Cardinality(intruders)
<1>1. owners' = IF place = "owner" THEN owners \cup {p} ELSE owners \ {p}
    BY DEF owners, TypeOK
<1>2. intruders' = IF place = "intruder" THEN intruders \cup {p} ELSE intruders \ {p}
    BY DEF intruders, TypeOK
<1>3. /\ IsFiniteSet(owners) /\ IsFiniteSet(intruders)
    BY InsideCount
<1>4. p \in owners <=> pc[p] = "owner"
    BY DEF owners
<1>5. p \in intruders <=> pc[p] = "intruder"
    BY DEF intruders
<1>6. /\ Cardinality(owners \cup {p}) = IF p \in owners THEN Cardinality(owners) ELSE Cardinality(owners) + 1
      /\ Cardinality(intruders \cup {p}) = IF p \in intruders THEN Cardinality(intruders) ELSE Cardinality(intruders) + 1
    BY <1>3, FS_AddElement
<1>7. /\ Cardinality(owners \ {p}) = IF p \in owners THEN Cardinality(owners) - 1 ELSE Cardinality(owners)
      /\ Cardinality(intruders \ {p}) = IF p \in intruders THEN Cardinality(intruders) - 1 ELSE Cardinality(intruders)
    BY <1>3, FS_RemoveElement
<1>8. QED
    BY <1>1, <1>2, <1>4, <1>5, <1>6, <1>7

\* At a restart nobody is inside, before or after it.
LEMMA RestartEmpty ==
    ASSUME TypeOK, ServerRestart
    PROVE  /\ owners = {} /\ intruders = {} /\ owners' = {} /\ intruders' = {}
           /\ Cardinality(owners) = 0 /\ Cardinality(owners') = 0
           /\ Cardinality(intruders) = 0 /\ Cardinality(intruders') = 0
<1>1. owners = {} /\ intruders = {} /\ owners' = {} /\ intruders' = {}
    BY DEF ServerRestart, owners, intruders, TypeOK
<1>2. QED
    BY <1>1, FS_EmptySet

\* Each action keeps the lock exclusive until a time-out.
LEMMA ExclusionInvStep == ExclusionInv /\ TypeOK' /\ [Next]_vars => ExclusionInv'
<1> SUFFICES ASSUME TypeOK, OnePermit, TypeOK', [Next]_vars PROVE OnePermit'
    BY DEF ExclusionInv
<1>0. /\ Cardinality(owners) \in Nat /\ Cardinality(intruders) \in Nat /\ sem \in Nat
    BY InsideCount DEF TypeOK
<1>1. ASSUME NEW p \in Procs, Lock(p) PROVE OnePermit'
    BY <1>0, <1>1, OwnersStep DEF Lock, OnePermit, Places
<1>2. ASSUME NEW p \in Procs, Acquire(p) PROVE OnePermit'
  <2>1. pc' = [pc EXCEPT ![p] = "owner"] /\ "owner" \in Places
    BY <1>2 DEF Acquire, Places
  <2>2. Cardinality(owners') = Cardinality(owners) + 1 /\ intruders' = intruders \ {p}
    BY <1>2, <2>1, OwnersStep DEF Acquire
  <2>3. QED
    BY <1>0, <1>2, <2>2 DEF Acquire, OnePermit
<1>3. ASSUME NEW p \in Procs, TimeOut(p) PROVE OnePermit'
    BY <1>3 DEF TimeOut, OnePermit
<1>4. ASSUME NEW p \in Procs, Unlock(p) PROVE OnePermit'
  <2>1. CASE pc[p] = "owner"
    <3>1. pc' = [pc EXCEPT ![p] = "idle"] /\ "idle" \in Places
        BY <1>4 DEF Unlock, Places
    <3>2. Cardinality(owners') = Cardinality(owners) - 1 /\ intruders' = intruders \ {p}
        BY <2>1, <3>1, OwnersStep
    <3>3. QED
        BY <1>0, <1>4, <3>2 DEF Unlock, OnePermit
  <2>2. CASE pc[p] = "intruder"
    BY <1>4, <2>2 DEF Unlock, OnePermit, intruders
  <2>3. QED
    BY <1>4, <2>1, <2>2 DEF Unlock
<1>5. ASSUME NEW p \in Procs, Die(p) PROVE OnePermit'
  <2>1. pc' = [pc EXCEPT ![p] = "dead"] /\ "dead" \in Places
    BY <1>5 DEF Die, Places
  <2>2. /\ owners' = owners \ {p}
        /\ intruders' = intruders \ {p}
        /\ Cardinality(owners') =
             IF pc[p] = "owner" THEN Cardinality(owners) - 1 ELSE Cardinality(owners)
    BY <2>1, OwnersStep
  <2>3. Cardinality(owners') \in Nat /\ Cardinality(owners') <= Cardinality(owners)
    <3>1. owners' \in SUBSET owners
        BY <2>2
    <3>2. QED
        BY <1>0, <2>2, <3>1, InsideCount, FS_Subset, FS_CardinalityType
  <2>4. QED
    BY <1>0, <1>5, <2>2, <2>3 DEF Die, OnePermit
<1>6. ASSUME NEW p \in Procs, Spawn(p) PROVE OnePermit'
    BY <1>0, <1>6, OwnersStep DEF Spawn, OnePermit, Places
<1>7. CASE ServerRestart
    BY <1>0, <1>7, RestartEmpty DEF ServerRestart, OnePermit
<1>8. CASE UNCHANGED vars
    BY <1>8 DEF vars, OnePermit, owners, intruders
<1>9. QED
    BY <1>1, <1>2, <1>3, <1>4, <1>5, <1>6, <1>7, <1>8 DEF Next

\* Mutual exclusion of lock.cpp until the first ten-second time-out, for every
\* number of processes, deaths and restarts.
THEOREM Exclusion == Spec => []ExclusiveUntilTimeout
<1>1. Init => ExclusionInv
  <2>1. Init => owners = {} /\ intruders = {}
    BY DEF Init, owners, intruders
  <2>2. QED
    BY <2>1, FS_EmptySet DEF Init, ExclusionInv, OnePermit, TypeOK, Places
<1>2. ExclusionInv => ExclusiveUntilTimeout
  <2> SUFFICES ASSUME TypeOK, OnePermit, timeouts = "none" PROVE Cardinality(inside) <= 1
    BY DEF ExclusionInv, ExclusiveUntilTimeout
  <2>1. Cardinality(intruders) = 0
    BY FS_EmptySet DEF OnePermit
  <2>2. QED
    BY <2>1, InsideCount DEF OnePermit, TypeOK
<1>3. QED
    BY <1>1, <1>2, TypeCorrect, ExclusionInvStep, PTL DEF Spec

-----------------------------------------------------------------------------
\* The strengthening of PermitBound is PermitBound itself: a process that times
\* out finds sem = 0 and is itself not inside, so there is room for it.
LEMMA PermitBoundStep == PermitBound /\ TypeOK /\ TypeOK' /\ [Next]_vars => PermitBound'
<1> SUFFICES ASSUME TypeOK, TypeOK', PermitBound, [Next]_vars, Procs # {}
             PROVE  Load' <= Cardinality(Procs)
  <2>1. owners' \in SUBSET Procs /\ intruders' \in SUBSET Procs /\ owners' \cap intruders' = {}
    BY DEF owners, intruders
  <2>2. Cardinality(inside') = Cardinality(owners') + Cardinality(intruders')
    BY <2>1, DisjointCount DEF inside
  <2>3. Cardinality(owners') \in Nat /\ Cardinality(intruders') \in Nat
    BY <2>1, DisjointCount
  <2>4. ASSUME TypeOK', Load' <= Cardinality(Procs) PROVE sem' + Cardinality(inside') <= Cardinality(Procs)
    BY <2>2, <2>3, <2>4 DEF Load, TypeOK
  <2>5. QED
    BY <2>4 DEF PermitBound
<1>0. /\ Cardinality(owners) \in Nat /\ Cardinality(intruders) \in Nat /\ sem \in Nat
      /\ Cardinality(inside) = Cardinality(owners) + Cardinality(intruders)
      /\ Cardinality(Procs) \in Nat
    BY InsideCount DEF TypeOK
<1>a. Load <= Cardinality(Procs)
    BY <1>0 DEF PermitBound, Load
<1>c. Cardinality(owners') \in Nat /\ Cardinality(intruders') \in Nat
  <2>1. owners' \in SUBSET Procs /\ intruders' \in SUBSET Procs /\ owners' \cap intruders' = {}
    BY DEF owners, intruders
  <2>2. QED
    BY <2>1, DisjointCount
<1>b. ASSUME NEW p \in Procs, p \notin inside PROVE Cardinality(inside) + 1 <= Cardinality(Procs)
  <2>1. inside \in SUBSET Procs /\ inside # Procs
    BY <1>b DEF inside, owners, intruders
  <2>2. QED
    BY <2>1, <1>0, FS_Subset, ProcsAssumption
<1>1. ASSUME NEW p \in Procs, Lock(p) PROVE Load' <= Cardinality(Procs)
    BY <1>0, <1>a, <1>1, OwnersStep DEF Lock, Load, Places
<1>2. ASSUME NEW p \in Procs, Acquire(p) PROVE Load' <= Cardinality(Procs)
  <2>1. pc' = [pc EXCEPT ![p] = "owner"] /\ "owner" \in Places
    BY <1>2 DEF Acquire, Places
  <2>2. /\ Cardinality(owners') = Cardinality(owners) + 1
        /\ Cardinality(intruders') = Cardinality(intruders)
    BY <1>2, <2>1, OwnersStep DEF Acquire
  <2>3. QED
    BY <1>0, <1>a, <1>2, <2>2 DEF Acquire, Load
<1>3. ASSUME NEW p \in Procs, TimeOut(p) PROVE Load' <= Cardinality(Procs)
  <2>1. p \notin inside
    BY <1>3 DEF TimeOut, inside, owners, intruders
  <2>2. QED
  <3>1. pc' = [pc EXCEPT ![p] = "intruder"] /\ "intruder" \in Places
    BY <1>3 DEF TimeOut, Places
  <3>2. /\ Cardinality(owners') = Cardinality(owners)
        /\ Cardinality(intruders') = Cardinality(intruders) + 1
    BY <1>3, <3>1, OwnersStep DEF TimeOut
  <3>3. QED
    BY <1>0, <1>b, <1>3, <2>1, <3>2 DEF TimeOut, Load
<1>4. ASSUME NEW p \in Procs, Unlock(p) PROVE Load' <= Cardinality(Procs)
  <2>1. pc' = [pc EXCEPT ![p] = "idle"] /\ "idle" \in Places
    BY <1>4 DEF Unlock, Places
  <2>2. Cardinality(owners') + Cardinality(intruders')
            = Cardinality(owners) + Cardinality(intruders) - 1
    <3>1. CASE pc[p] = "owner"
      <4>1. /\ Cardinality(owners') = Cardinality(owners) - 1
            /\ Cardinality(intruders') = Cardinality(intruders)
        BY <2>1, <3>1, OwnersStep
      <4>2. QED
        BY <1>0, <4>1
    <3>2. CASE pc[p] = "intruder"
      <4>1. /\ Cardinality(owners') = Cardinality(owners)
            /\ Cardinality(intruders') = Cardinality(intruders) - 1
        BY <2>1, <3>2, OwnersStep
      <4>2. QED
        BY <1>0, <4>1
    <3>3. QED
        BY <1>4, <3>1, <3>2 DEF Unlock
  <2>3. /\ Cardinality(owners') \in Nat /\ Cardinality(intruders') \in Nat
    BY <1>c
  <2>4. QED
    BY <1>0, <1>a, <1>4, <2>2, <2>3 DEF Unlock, Load
<1>5. ASSUME NEW p \in Procs, Die(p) PROVE Load' <= Cardinality(Procs)
  <2>1. pc' = [pc EXCEPT ![p] = "dead"] /\ "dead" \in Places
    BY <1>5 DEF Die, Places
  <2>2. /\ Cardinality(owners') <= Cardinality(owners)
        /\ Cardinality(intruders') <= Cardinality(intruders)
    <3>1. owners' = owners \ {p} /\ intruders' = intruders \ {p}
        BY <2>1, OwnersStep
    <3>2. owners' \in SUBSET owners /\ intruders' \in SUBSET intruders
        BY <3>1
    <3>3. QED
        BY <3>2, InsideCount, FS_Subset
  <2>3. QED
    BY <1>0, <1>a, <1>c, <1>5, <2>2 DEF Die, Load
<1>6. ASSUME NEW p \in Procs, Spawn(p) PROVE Load' <= Cardinality(Procs)
    BY <1>0, <1>a, <1>6, OwnersStep DEF Spawn, Load, Places
<1>7. CASE ServerRestart
  <2>1. Cardinality(Procs) # 0
    BY FS_EmptySet, ProcsAssumption
  <2>2. sem' = 1 \/ sem' = sem
    BY <1>7 DEF ServerRestart
  <2>3. QED
    BY <1>0, <1>a, <1>7, <2>1, <2>2, RestartEmpty DEF Load
<1>8. CASE UNCHANGED vars
    BY <1>a, <1>8 DEF vars, Load, owners, intruders
<1>9. QED
    BY <1>1, <1>2, <1>3, <1>4, <1>5, <1>6, <1>7, <1>8 DEF Next

\* However many lock() calls time out, the unconditional posts never put more
\* permits in circulation than there are processes.
THEOREM Permits == Spec => []PermitBound
<1>1. Init => PermitBound
  <2> SUFFICES ASSUME Init, Procs # {} PROVE sem + Cardinality(inside) <= Cardinality(Procs)
    BY DEF PermitBound
  <2>1. inside = {} /\ sem = 1
    BY DEF Init, inside, owners, intruders
  <2>2. Cardinality(Procs) # 0 /\ Cardinality(Procs) \in Nat
    BY FS_EmptySet, FS_CardinalityType, ProcsAssumption
  <2>3. QED
    BY <2>1, <2>2, FS_EmptySet
<1>2. QED
    BY <1>1, TypeCorrect, PermitBoundStep, PTL DEF Spec
=============================================================================
