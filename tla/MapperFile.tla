------------------------------ MODULE MapperFile ------------------------------
(***************************************************************************)
(* The address tables data/rtu.data and data/cmd.data and the functions    *)
(* that handle them, which exist twice in the source with the same bodies: *)
(* in src/main.cpp for the server process and in src/client.cpp    *)
(* for its children.                                                       *)
(*                                                                         *)
(* A file is a sequence of entries "pid addr", one per line.  In memory it *)
(* is an array of MAX_POOL mappers in which pid 0 (here NoPid) marks a     *)
(* free slot.  read_mapper overwrites only as many slots as the file has   *)
(* lines: whatever the array held beyond them stays.  write_mapper writes  *)
(* every used slot of the whole array.                                     *)
(***************************************************************************)
EXTENDS Naturals, Sequences, FiniteSets

CONSTANTS
    MAX_POOL,   \* length of the arrays (255 in head/common.h)
    Pids,       \* process identifiers of children
    Addrs,      \* addresses
    NoPid,      \* the pid of a free slot, 0
    NoAddr      \* the address no station has, 0

ASSUME MapperAssumption ==
    /\ MAX_POOL \in Nat \ {0}
    /\ NoPid \notin Pids
    /\ NoAddr \notin Addrs

Slots == 1..MAX_POOL
Entries == [pid : Pids, addr : Addrs]
Mappers == Entries \cup [pid : {NoPid}, addr : Addrs \cup {NoAddr}]
Lists == [Slots -> Mappers]

\* core::common::Mapper as its constructor leaves it.
Free == [pid |-> NoPid, addr |-> NoAddr]
EmptyList == [i \in Slots |-> Free]

add_mapper(pid, addr) == [pid |-> pid, addr |-> addr]

\* Slot k in the order of a set S of slots, and the last one.
Rank(S, i) == Cardinality({j \in S : j <= i})
Nth(S, k) == CHOOSE i \in S : Rank(S, i) = k
LastOf(S) == CHOOSE i \in S : \A j \in S : j <= i

Used(list) == {i \in Slots : list[i].pid # NoPid}

\* Deliberate mistakes, used to see that a property notices: free slots are
\* written too; a deletion moves the pid of the last line into the hole, but
\* not its address.
MutWriteFreeToo(list) == list
MutDeleteMovesPid(list, line, pid) ==
    [i \in Slots |->
        IF i <= line /\ list[i].pid = pid
        THEN [list[i] EXCEPT !.pid = IF i = line THEN NoPid ELSE list[line].pid]
        ELSE IF i = line THEN [list[i] EXCEPT !.pid = NoPid] ELSE list[i]]

\* The lines of the file are the used slots in their order.
write_mapper(list) ==
    [k \in 1..Cardinality(Used(list)) |-> list[Nth(Used(list), k)]]

\* fscanf stops at the end of the file and leaves the other slots alone.
read_mapper(file, list) ==
    [i \in Slots |-> IF i <= Len(file) THEN file[i] ELSE list[i]]

getTotalLine(file) == Len(file)

\* The searches look at the first `line` slots only.
AddrHits(list, line, addr) == {i \in Slots : i <= line /\ list[i].addr = addr}
PidHits(list, line, pid) == {i \in Slots : i <= line /\ list[i].pid = pid}

\* Of several matches the last one counts; without a match the caller's pid (or
\* addr) keeps the zero it was declared with.
search_pid(list, line, addr) ==
    LET hits == AddrHits(list, line, addr)
    IN  IF hits = {} THEN NoPid ELSE list[LastOf(hits)].pid

search_addr(list, line, pid) ==
    LET hits == PidHits(list, line, pid)
    IN  IF hits = {} THEN NoAddr ELSE list[LastOf(hits)].addr

\* The vector version keeps all matches, in the order of the slots.
search_pids(list, line, addr) ==
    LET hits == AddrHits(list, line, addr)
    IN  [k \in 1..Cardinality(hits) |-> list[Nth(hits, k)].pid]

delete_mapper(list, line, pid) ==
    [i \in Slots |->
        IF i <= line /\ list[i].pid = pid THEN [list[i] EXCEPT !.pid = NoPid] ELSE list[i]]

\* mapper_list[line] = m: past the end of the array nothing that is ever
\* written to the file changes.
put_mapper(list, line, m) == [i \in Slots |-> IF i = line + 1 THEN m ELSE list[i]]
=============================================================================
