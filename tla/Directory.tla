------------------------------- MODULE Directory -------------------------------
(***************************************************************************)
(* What rtu.data and cmd.data are for, without files, arrays and locks: a  *)
(* directory of the sessions that can be reached at an address.  Modules   *)
(* RtuRegistry and CmdSessions are shown to implement it.                  *)
(*                                                                         *)
(* A session's place is the address it is reached at.  What a file says of *)
(* a session that has been waited for is no part of the directory: such    *)
(* lines may stay for a while, and even come back.                         *)
(***************************************************************************)
EXTENDS TLAPS

CONSTANTS
    Members,    \* processes
    Places      \* addresses

VARIABLES
    life,       \* of each member: "unborn", "live", "zombie" or "gone"
    place,      \* of each member
    listed      \* the members that can be found at their places

vars == <<life, place, listed>>

Init ==
    /\ life = [p \in Members |-> "unborn"]
    /\ place \in [Members -> Places]
    /\ listed = {}

\* A session begins.
Arrive(p, a) ==
    /\ life[p] = "unborn"
    /\ life' = [life EXCEPT ![p] = "live"]
    /\ place' = [place EXCEPT ![p] = a]
    /\ UNCHANGED listed

\* It enters itself in the directory: nobody else does, and only at a free place.
Enter(p) ==
    /\ life[p] = "live"
    /\ \A q \in listed : place[q] # place[p]
    /\ listed' = listed \cup {p}
    /\ UNCHANGED <<life, place>>

\* A session that ends stays listed,
End(p) ==
    /\ life[p] = "live"
    /\ life' = [life EXCEPT ![p] = "zombie"]
    /\ UNCHANGED <<place, listed>>

\* until it is waited for.
Forget(p) ==
    /\ life[p] = "zombie"
    /\ life' = [life EXCEPT ![p] = "gone"]
    /\ listed' = listed \ {p}
    /\ UNCHANGED place

Next ==
    \/ \E p \in Members, a \in Places : Arrive(p, a)
    \/ \E p \in Members : Enter(p) \/ End(p) \/ Forget(p)

Spec == Init /\ [][Next]_vars
-----------------------------------------------------------------------------
\* At most one session can be found at a place.
OnePerPlace == \A p, q \in listed : place[p] = place[q] => p = q

\* The members that begin have no entry yet, which is what keeps an entry's place fixed.
DirectoryInv ==
    /\ life \in [Members -> {"unborn", "live", "zombie", "gone"}]
    /\ place \in [Members -> Places]
    /\ listed \subseteq {p \in Members : life[p] \in {"live", "zombie"}}
    /\ OnePerPlace

\* A step adds at most one session to the directory, one that found its place free, as
\* the search of the file before a line is written to it.
LEMMA NewEntryIsAlone ==
    ASSUME Next, NEW q \in listed', q \notin listed
    PROVE  /\ q \in Members
           /\ life[q] = "live" /\ life' = life /\ place' = place
           /\ listed' = listed \cup {q}
           /\ \A r \in listed : place[r] # place[q]
BY DEF Next, Arrive, Enter, End, Forget

\* A listed session is reached at one place for as long as it is listed: a line keeps its
\* address.
LEMMA EntryKeepsPlace ==
    ASSUME DirectoryInv, Next, NEW q \in listed
    PROVE  place'[q] = place[q]
BY DEF DirectoryInv, Next, Arrive, Enter, End, Forget

\* Whoever is listed after a step has begun and has not been waited for: the line goes
\* when its process is waited for.
LEMMA EntriesAreSessions ==
    ASSUME DirectoryInv, Next
    PROVE  /\ life' \in [Members -> {"unborn", "live", "zombie", "gone"}]
           /\ place' \in [Members -> Places]
           /\ listed' \subseteq {p \in Members : life'[p] \in {"live", "zombie"}}
BY DEF DirectoryInv, Next, Arrive, Enter, End, Forget

\* The directory never lists two sessions for one address: what rtu.cpp and cmd.cpp
\* look for in the files before they add a line to them.
THEOREM PlacesUnique == Spec => []OnePerPlace
<1>1. ASSUME DirectoryInv, Next PROVE OnePerPlace'
  <2>1. CASE listed' \subseteq listed    \* two entries of before
    BY <1>1, <2>1, EntryKeepsPlace DEF DirectoryInv, OnePerPlace
  <2>2. CASE \E q \in listed' : q \notin listed
    <3>1. PICK q \in listed' : q \notin listed
      BY <2>2
    <3>2. /\ place' = place
          /\ listed' = listed \cup {q}
          /\ \A r \in listed : place[r] # place[q]
      BY <1>1, <3>1, NewEntryIsAlone
    <3>3. QED
      BY <1>1, <3>2 DEF DirectoryInv, OnePerPlace
  <2>3. QED
    BY <2>1, <2>2
<1>2. DirectoryInv /\ [Next]_vars => DirectoryInv'
  <2>1. ASSUME DirectoryInv, vars' = vars PROVE DirectoryInv'
    BY <2>1 DEF DirectoryInv, OnePerPlace, vars
  <2>2. QED
    BY <1>1, <2>1, EntriesAreSessions DEF DirectoryInv
<1>3. Init => DirectoryInv    \* nobody is listed
  BY DEF Init, DirectoryInv, OnePerPlace
<1>4. DirectoryInv => OnePerPlace
  BY DEF DirectoryInv
<1>5. QED
  BY <1>2, <1>3, <1>4, PTL DEF Spec
=============================================================================
