--------------------------- MODULE MapperFileProofs ---------------------------
(***************************************************************************)
(* Facts about the functions of MapperFile that every proof about a table  *)
(* needs: the order of the slots is a numbering of them, so write_mapper   *)
(* writes exactly the used slots, and a search that has a hit returns one. *)
(***************************************************************************)
EXTENDS MapperFile, Functions, FiniteSetTheorems, TLAPS

\* The slots of a set S are numbered by Rank from 1 to Cardinality(S), each
\* number once.
LEMMA RankIsNumbering ==
    ASSUME NEW S \in SUBSET Slots
    PROVE  /\ IsFiniteSet(S)
           /\ Cardinality(S) \in Nat
           /\ Cardinality(S) <= MAX_POOL
           /\ \A i \in S : Rank(S, i) \in 1..Cardinality(S)
           /\ \A i, j \in S : Rank(S, i) = Rank(S, j) => i = j
           /\ \A k \in 1..Cardinality(S) : \E i \in S : Rank(S, i) = k
<1> DEFINE UpTo(i) == {j \in S : j <= i}
           rank == [i \in S |-> Rank(S, i)]
<1>1. IsFiniteSet(Slots) /\ Cardinality(Slots) = MAX_POOL
    BY MapperAssumption, FS_Interval DEF Slots
<1>2. IsFiniteSet(S) /\ Cardinality(S) \in Nat /\ Cardinality(S) <= MAX_POOL
    BY <1>1, FS_Subset, FS_CardinalityType
<1>3. \A i \in S : /\ IsFiniteSet(UpTo(i)) /\ Cardinality(UpTo(i)) \in Nat
                   /\ Cardinality(UpTo(i)) <= Cardinality(S)
  <2>1. \A i \in S : UpTo(i) \in SUBSET S
    OBVIOUS
  <2>2. QED
    BY <1>2, <2>1, FS_Subset, FS_CardinalityType
<1>4. \A i \in S : Rank(S, i) \in 1..Cardinality(S)
  <2> SUFFICES ASSUME NEW i \in S PROVE Rank(S, i) \in 1..Cardinality(S)
    OBVIOUS
  <2>1. i \in Int
    BY MapperAssumption DEF Slots
  <2>2. i \in UpTo(i)
    BY <2>1
  <2>3. Cardinality(UpTo(i)) # 0
    BY <1>3, <2>2, FS_EmptySet
  <2>4. Rank(S, i) = Cardinality(UpTo(i))
    BY DEF Rank
  <2>5. QED
    BY <1>2, <1>3, <2>3, <2>4
<1>5. ASSUME NEW i \in S, NEW j \in S, i < j PROVE Rank(S, i) # Rank(S, j)
  <2>1. i \in Int /\ j \in Int
    BY MapperAssumption DEF Slots
  <2>2. UpTo(i) \in SUBSET UpTo(j) /\ j \in UpTo(j) /\ j \notin UpTo(i)
    <3>1. \A x \in S : x \in Int
        BY MapperAssumption DEF Slots
    <3>2. \A x \in S : x <= i => x <= j
        BY <1>5, <2>1, <3>1
    <3>3. j <= j /\ ~(j <= i)
        BY <1>5, <2>1
    <3>4. QED
        BY <3>2, <3>3
  <2>3. Cardinality(UpTo(i)) # Cardinality(UpTo(j))
    BY <1>3, <2>2, FS_Subset
  <2>4. QED
    BY <2>3 DEF Rank
<1>6. \A i, j \in S : Rank(S, i) = Rank(S, j) => i = j
  <2>1. \A x \in S : x \in Int
    BY MapperAssumption DEF Slots
  <2>2. QED
    BY <1>5, <2>1
<1>7. rank \in Injection(S, 1..Cardinality(S))
    BY <1>4, <1>6 DEF Injection, IsInjective
<1>8. IsFiniteSet(1..Cardinality(S)) /\ Cardinality(1..Cardinality(S)) = Cardinality(S)
    BY <1>2, FS_Interval
<1>9. rank \in Surjection(S, 1..Cardinality(S))
    BY <1>7, <1>8, FS_Injection
<1>10. \A k \in 1..Cardinality(S) : \E i \in S : Rank(S, i) = k
    BY <1>9 DEF Surjection
<1>11. QED
    BY <1>2, <1>4, <1>6, <1>10

\* Nth and Rank are inverse to each other.
LEMMA NthIsThere ==
    ASSUME NEW S \in SUBSET Slots
    PROVE  /\ \A k \in 1..Cardinality(S) : Nth(S, k) \in S
           /\ \A i \in S : Nth(S, Rank(S, i)) = i
<1>1. \A k \in 1..Cardinality(S) : Nth(S, k) \in S /\ Rank(S, Nth(S, k)) = k
    BY RankIsNumbering DEF Nth
<1>2. \A i \in S : Rank(S, i) \in 1..Cardinality(S)
    BY RankIsNumbering
<1>3. \A i, j \in S : Rank(S, i) = Rank(S, j) => i = j
    BY RankIsNumbering
<1>4. QED
    BY <1>1, <1>2, <1>3

\* A nonempty set of slots has a last one.
LEMMA LastIsThere ==
    ASSUME NEW S \in SUBSET Slots, S # {}
    PROVE  LastOf(S) \in S
<1>1. Cardinality(S) # 0 /\ Cardinality(S) \in Nat /\ IsFiniteSet(S)
    BY RankIsNumbering, FS_EmptySet
<1>2. PICK i \in S : Rank(S, i) = Cardinality(S)
    BY <1>1, RankIsNumbering
<1>3. {j \in S : j <= i} = S
    BY <1>1, <1>2, FS_Subset DEF Rank
<1>4. \A j \in S : j <= i
    BY <1>3
<1>5. QED
    BY <1>4 DEF LastOf

-----------------------------------------------------------------------------
\* write_mapper writes a sequence of entries, no longer than the array, whose
\* lines are the used slots: all of them, and nothing else.
LEMMA WriteMapperFact ==
    ASSUME NEW list \in [Slots -> Mappers]
    PROVE  /\ write_mapper(list) \in Seq(Entries)
           /\ Len(write_mapper(list)) <= MAX_POOL
           /\ \A k \in 1..Len(write_mapper(list)) :
                 \E i \in Used(list) : write_mapper(list)[k] = list[i]
           /\ \A i \in Used(list) :
                 \E k \in 1..Len(write_mapper(list)) : write_mapper(list)[k] = list[i]
<1> DEFINE U == Used(list)
           n == Cardinality(U)
           f == write_mapper(list)
<1>1. U \in SUBSET Slots
    BY DEF Used
<1>2. n \in Nat /\ n <= MAX_POOL
    BY <1>1, RankIsNumbering
<1>3. \A i \in U : list[i] \in Entries
    BY <1>1 DEF Used, Mappers
<1>4. f = [k \in 1..n |-> list[Nth(U, k)]]
    BY DEF write_mapper
<1>5. \A k \in 1..n : Nth(U, k) \in U
    BY <1>1, NthIsThere
<1>6. f \in [1..n -> Entries]
    BY <1>3, <1>4, <1>5
<1>7. f \in Seq(Entries) /\ Len(f) = n
    BY <1>2, <1>6
<1>8. \A k \in 1..n : f[k] = list[Nth(U, k)]
    BY <1>4
<1>9. \A i \in U : Rank(U, i) \in 1..n /\ f[Rank(U, i)] = list[i]
    BY <1>1, <1>8, RankIsNumbering, NthIsThere
<1>10. QED
    BY <1>2, <1>5, <1>7, <1>8, <1>9

\* read_mapper yields an array whose first lines are the file's and whose other
\* slots are unchanged.
LEMMA ReadMapperFact ==
    ASSUME NEW file \in Seq(Entries), NEW list \in [Slots -> Mappers]
    PROVE  /\ read_mapper(file, list) \in [Slots -> Mappers]
           /\ \A i \in Slots : i <= Len(file) => read_mapper(file, list)[i] = file[i]
           /\ \A i \in Slots : ~(i <= Len(file)) => read_mapper(file, list)[i] = list[i]
<1>1. \A i \in Slots : i <= Len(file) => file[i] \in Mappers
    BY MapperAssumption DEF Slots, Mappers
<1>2. QED
    BY <1>1 DEF read_mapper

\* If no pid is returned for an address, no line read has that address (every
\* line read names a process).
LEMMA SearchPidFact ==
    ASSUME NEW list \in [Slots -> Mappers], NEW line \in Nat, NEW addr,
           \A i \in Slots : i <= line => list[i].pid # NoPid,
           search_pid(list, line, addr) = NoPid
    PROVE  \A i \in Slots : i <= line => list[i].addr # addr
<1>1. SUFFICES ASSUME AddrHits(list, line, addr) # {} PROVE FALSE
    BY DEF AddrHits
<1>2. AddrHits(list, line, addr) \in SUBSET Slots
    BY DEF AddrHits
<1>3. LastOf(AddrHits(list, line, addr)) \in AddrHits(list, line, addr)
    BY <1>1, <1>2, LastIsThere
<1>4. QED
    BY <1>1, <1>3 DEF search_pid, AddrHits

\* The address returned for a pid is that of a line with this pid; without such
\* a line there is none.
LEMMA SearchAddrFact ==
    ASSUME NEW list \in [Slots -> Mappers], NEW line \in Nat, NEW pid
    PROVE  \/ /\ PidHits(list, line, pid) = {}
              /\ search_addr(list, line, pid) = NoAddr
           \/ \E i \in Slots : /\ i <= line /\ list[i].pid = pid
                               /\ search_addr(list, line, pid) = list[i].addr
<1>1. CASE PidHits(list, line, pid) = {}
    BY <1>1 DEF search_addr
<1>2. CASE PidHits(list, line, pid) # {}
  <2>1. PidHits(list, line, pid) \in SUBSET Slots
    BY DEF PidHits
  <2>2. LastOf(PidHits(list, line, pid)) \in PidHits(list, line, pid)
    BY <1>2, <2>1, LastIsThere
  <2>3. QED
    BY <1>2, <2>2 DEF search_addr, PidHits
<1>3. QED
    BY <1>1, <1>2

\* Adding an entry keeps an array an array.
LEMMA PutType ==
    ASSUME NEW list \in Lists, NEW line \in Nat, NEW e \in Entries
    PROVE  /\ put_mapper(list, line, e) \in Lists
           /\ \A i \in Slots : i # line + 1 => put_mapper(list, line, e)[i] = list[i]
           /\ line + 1 \in Slots => put_mapper(list, line, e)[line + 1] = e
<1>1. e \in Mappers
    BY DEF Mappers
<1>2. QED
    BY <1>1 DEF put_mapper, Lists

\* Deleting a pid keeps an array an array, frees the slots of the pid among the
\* lines and leaves the others alone.
LEMMA DeleteType ==
    ASSUME NEW list \in Lists, NEW line \in Nat, NEW p \in Pids
    PROVE  /\ delete_mapper(list, line, p) \in Lists
           /\ \A i \in Slots : i <= line /\ list[i].pid = p
                                  => delete_mapper(list, line, p)[i].pid = NoPid
           /\ \A i \in Slots : ~(i <= line /\ list[i].pid = p)
                                  => delete_mapper(list, line, p)[i] = list[i]
<1>1. ASSUME NEW e \in Mappers, e.pid = p
      PROVE  [e EXCEPT !.pid = NoPid] \in Mappers /\ [e EXCEPT !.pid = NoPid].pid = NoPid
  <2>1. e \in Entries
    BY <1>1, MapperAssumption DEF Mappers
  <2>2. QED
    BY <2>1 DEF Mappers, Entries
<1>2. QED
    BY <1>1 DEF delete_mapper, Lists

-----------------------------------------------------------------------------
(* Files in which every address has one line.                               *)

Distinct(file) == \A j, k \in 1..Len(file) : file[j].addr = file[k].addr => j = k

\* write_mapper keeps slots apart: if the used slots have different addresses, so
\* have the lines.
LEMMA WriteDistinct ==
    ASSUME NEW list \in [Slots -> Mappers],
           \A i, j \in Used(list) : list[i].addr = list[j].addr => i = j
    PROVE  Distinct(write_mapper(list))
<1> DEFINE U == Used(list)
           n == Cardinality(U)
<1>1. U \in SUBSET Slots
    BY DEF Used
<1>2. n \in Nat /\ \A i, j \in U : Rank(U, i) = Rank(U, j) => i = j
    BY <1>1, RankIsNumbering
<1>3. write_mapper(list) = [k \in 1..n |-> list[Nth(U, k)]]
    BY DEF write_mapper
<1>4. \A k \in 1..n : Nth(U, k) \in U /\ Rank(U, Nth(U, k)) = k
    BY <1>1, NthIsThere, RankIsNumbering DEF Nth
<1>5. Len(write_mapper(list)) = n
  <2>1. write_mapper(list) \in Seq(Entries)
    BY WriteMapperFact
  <2>2. DOMAIN write_mapper(list) = 1..n
    BY <1>3
  <2>3. QED
    BY <1>2, <2>1, <2>2
<1> HIDE DEF U, n
<1>6. SUFFICES ASSUME NEW j \in 1..n, NEW k \in 1..n,
                      list[Nth(U, j)].addr = list[Nth(U, k)].addr
               PROVE  j = k
    BY <1>3, <1>5 DEF Distinct
<1>7. Nth(U, j) = Nth(U, k)
    BY <1>4, <1>6 DEF U
<1>8. QED
    BY <1>4, <1>7

\* What a fresh array holds after the file was read into it: the lines, and free
\* slots.
LEMMA FreshLines ==
    ASSUME NEW file \in Seq(Entries), Len(file) <= MAX_POOL
    PROVE  /\ read_mapper(file, EmptyList) \in Lists
           /\ getTotalLine(file) = Len(file) /\ Len(file) \in Nat
           /\ \A i \in 1..Len(file) : /\ i \in Slots /\ i <= Len(file)
                                       /\ read_mapper(file, EmptyList)[i] = file[i]
                                       /\ file[i] \in Entries /\ file[i].pid # NoPid
           /\ \A i \in Slots : i <= Len(file) => i \in 1..Len(file)
           /\ \A i \in Slots : i \notin 1..Len(file) =>
                                    read_mapper(file, EmptyList)[i].pid = NoPid
<1>1. EmptyList \in Lists /\ \A i \in Slots : EmptyList[i].pid = NoPid
    BY DEF EmptyList, Free, Lists, Mappers
<1>2. Len(file) \in Nat
    OBVIOUS
<1>3. \A i \in 1..Len(file) : i \in Slots /\ i <= Len(file) /\ file[i] \in Entries
    BY <1>2, MapperAssumption DEF Slots
<1>4. \A e \in Entries : e.pid # NoPid
    BY MapperAssumption DEF Entries
<1>5. \A i \in Slots : i <= Len(file) <=> i \in 1..Len(file)
    BY <1>2 DEF Slots
<1>6. QED
    BY <1>1, <1>2, <1>3, <1>4, <1>5, ReadMapperFact DEF Lists, getTotalLine

\* What a search of such an array finds.
LEMMA FreshSearch ==
    ASSUME NEW file \in Seq(Entries), Len(file) <= MAX_POOL, NEW addr
    PROVE  LET pid == search_pid(read_mapper(file, EmptyList), Len(file), addr)
           IN  \/ pid = NoPid /\ \A i \in 1..Len(file) : file[i].addr # addr
               \/ \E i \in 1..Len(file) : pid = file[i].pid /\ file[i].addr = addr
<1> DEFINE list == read_mapper(file, EmptyList)
           hits == AddrHits(list, Len(file), addr)
<1>1. /\ \A i \in 1..Len(file) : i \in Slots /\ i <= Len(file) /\ list[i] = file[i]
      /\ \A i \in Slots : i <= Len(file) => i \in 1..Len(file)
    BY FreshLines
<1>2. hits \in SUBSET Slots /\ hits = {i \in Slots : i <= Len(file) /\ list[i].addr = addr}
    BY DEF AddrHits
<1>3. search_pid(list, Len(file), addr) = IF hits = {} THEN NoPid ELSE list[LastOf(hits)].pid
    BY DEF search_pid
<1> HIDE DEF list, hits
<1>4. CASE hits = {}
    BY <1>1, <1>2, <1>3, <1>4 DEF list
<1>5. CASE hits # {}
  <2>1. LastOf(hits) \in hits
    BY <1>2, <1>5, LastIsThere
  <2>2. QED
    BY <1>1, <1>2, <1>3, <1>5, <2>1 DEF list
<1>6. QED
    BY <1>4, <1>5

\* A file that lists every address once and lacks one is not full.
LEMMA RoomLeft ==
    ASSUME NEW file \in Seq(Entries), Len(file) <= MAX_POOL, Addrs = Slots, Distinct(file),
           NEW addr \in Addrs, \A i \in 1..Len(file) : file[i].addr # addr
    PROVE  Len(file) < MAX_POOL
<1> DEFINE n == Len(file)
           f == [i \in 1..n |-> file[i].addr]
<1>1. n \in Nat /\ MAX_POOL \in Nat
    BY MapperAssumption
<1>2. \A i \in 1..n : file[i].addr \in Addrs \ {addr}
  <2>1. \A i \in 1..n : file[i] \in Entries
    OBVIOUS
  <2>2. QED
    BY <2>1 DEF Entries
<1>3. f \in Injection(1..n, Addrs \ {addr})
    BY <1>2 DEF Injection, IsInjective, Distinct
<1>4. IsFiniteSet(Addrs) /\ Cardinality(Addrs) = MAX_POOL
    BY <1>1, FS_Interval, MapperAssumption DEF Slots
<1>5. IsFiniteSet(Addrs \ {addr}) /\ Cardinality(Addrs \ {addr}) = MAX_POOL - 1
    BY <1>4, FS_RemoveElement
<1> HIDE DEF n, f
<1>6. Cardinality(1..n) = n
  <2>1. 1 \in Int /\ n \in Int /\ (1 > n => n = 0)
    BY <1>1
  <2>2. Cardinality(1..n) = IF 1 > n THEN 0 ELSE n - 1 + 1
    BY <2>1, FS_Interval
  <2>3. QED
    BY <1>1, <2>1, <2>2
<1>7. Cardinality(1..n) <= Cardinality(Addrs \ {addr})
    BY <1>3, <1>5, FS_Injection
<1>8. QED
    BY <1>1, <1>5, <1>6, <1>7 DEF n
=============================================================================
