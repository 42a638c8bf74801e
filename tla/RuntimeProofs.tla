----------------------------- MODULE RuntimeProofs -----------------------------
(***************************************************************************)
(* Proofs about the runtime's worker pool and about its hash table.          *)
(*                                                                         *)
(* HashTable, for any keys and values, any hash function, any first capacity *)
(* and any number of operations. The invariant of a table (TableOK): no key  *)
(* has two slots, and no slot on the probe from a key's hash to its slot is  *)
(* empty.  A removal keeps it because it leaves a tombstone, an insertion    *)
(* because it takes a slot before the first empty one.  While map_rehash is  *)
(* at work it holds of the new entries, and these hold what the loop has     *)
(* moved of the old ones.                                                    *)
(*                                                                         *)
(* WorkerPool, for any workers and any number of pools.  That no thread      *)
(* outlives the array is not inductive: it rests on the join of every worker *)
(* before the delete, so on which workers the caller has still to treat at   *)
(* each point of init and shutdown (PoolInv).                                *)
(***************************************************************************)
EXTENDS HashTable, WorkerPool, FiniteSetTheorems, WellFoundedInduction, TLAPS

Slots(c) == 0..(c - 1)

\* The slot at step i of the probe for k.
Probe(c, k, i) == (hash[k] + i) % c

Used(t, s) == t[s].state = "occupied"

\* No slot on the way to s is empty.
Reached(t, c, k, s) ==
  \E i \in Slots(c) : Probe(c, k, i) = s /\ \A j \in 0..(i - 1) : t[Probe(c, k, j)].state # "empty"

TableTypeOK(t, c) ==
  /\ c \in Nat \ {0} /\ t = [s \in Slots(c) |-> t[s]]
  /\ \A s \in Slots(c) : t[s].state \in {"empty", "occupied", "tombstone"}
  /\ \A s \in Slots(c) : Used(t, s) => t[s].key \in Key /\ t[s].value \in Value

KeysApart(t, c) ==
  \A r, s \in Slots(c) : Used(t, r) /\ Used(t, s) /\ t[r].key = t[s].key => r = s

TableOK(t, c) ==
  /\ TableTypeOK(t, c) /\ KeysApart(t, c)
  /\ \A s \in Slots(c) : Used(t, s) => Reached(t, c, t[s].key, s)

\* Some slot holds k.
Has(t, c, k) == \E s \in Slots(c) : Holds(t[s], k)

-----------------------------------------------------------------------------
(* Probes.                                                                   *)

\* FirstIndex takes the least of a set of numbers.
LEMMA FirstIsLeast ==
  ASSUME NEW c \in Nat, NEW S \in SUBSET (0..(c - 1)), S # {}
  PROVE  FirstIndex(S) \in S /\ \A j \in S : FirstIndex(S) <= j
<1> DEFINE Below(m) == {j \in S : j <= m}
           T == {Below(m) : m \in S}
<1>1. IsFiniteSet(S)
  <2>1. IsFiniteSet(0..(c - 1))
    BY c - 1 \in Int, 0 \in Int, FS_Interval
  <2> QED BY <2>1, FS_Subset
<1>2. T \subseteq FiniteSubsetsOf(S) /\ T # {}
  <2>1. \A m \in S : Below(m) \in SUBSET S
    OBVIOUS
  <2>2. \A m \in S : IsFiniteSet(Below(m))
    BY <1>1, <2>1, FS_Subset
  <2> QED BY <2>1, <2>2 DEF FiniteSubsetsOf
<1>3. PICK X \in T : \A Y \in T : <<Y, X>> \notin StrictSubsetOrdering(S)
  <2> HIDE DEF T
  <2> QED BY <1>2, WFMin, FS_StrictSubsetOrderingWellFounded
<1>4. PICK m \in S : X = Below(m)
  OBVIOUS
<1>5. \A j \in S : m <= j
  <2> SUFFICES ASSUME NEW j \in S, j < m PROVE FALSE
    OBVIOUS
  <2>1. Below(j) \in T
    OBVIOUS
  <2>2. <<Below(j), X>> \in StrictSubsetOrdering(S)
    <3>1. Below(j) \subseteq Below(m) /\ m \in Below(m) /\ m \notin Below(j)
      <4>1. S \subseteq Int
        OBVIOUS
      <4>2. m \in Int /\ j \in Int /\ m <= m /\ ~(m <= j)
        BY <4>1
      <4>3. \A x \in S : x <= j => x <= m
        BY <4>1, <4>2
      <4> QED BY <4>2, <4>3
    <3>2. Below(j) \in SUBSET S /\ Below(m) \in SUBSET S /\ Below(j) # Below(m)
      BY <3>1
    <3> HIDE DEF Below
    <3> QED BY <1>4, <3>1, <3>2 DEF StrictSubsetOrdering
  <2> QED BY <1>3, <2>1, <2>2
<1>6. \E i \in S : \A j \in S : i <= j
  BY <1>5
<1> QED BY <1>6 DEF FirstIndex

\* A probe stays in the table,
LEMMA ProbeInTable ==
  ASSUME NEW c \in Nat \ {0}, NEW k \in Key, NEW i \in Nat
  PROVE  Probe(c, k, i) \in Slots(c)
<1>1. hash[k] \in Nat
  BY TableAssumption
<1>2. hash[k] + i \in Nat
  BY <1>1
<1> QED BY <1>2 DEF Probe, Slots

\* The remainder is determined by the range.
LEMMA RemainderUnique ==
  ASSUME NEW c \in Nat \ {0}, NEW a \in Nat, NEW q \in Int, NEW r \in 0..(c - 1), a = c * q + r
  PROVE  a % c = r
<1> DEFINE p == a \div c
           m == a % c
<1>1. p \in Int /\ m \in 0..(c - 1) /\ a = c * p + m
  OBVIOUS
<1> HIDE DEF p, m
<1> DEFINE k == q - p
<1>2. k \in Int /\ m - r = c * k
  BY <1>1
<1> HIDE DEF k
<1>3. CASE k <= -1
  <2>1. c * k <= -c
    BY <1>2, <1>3
  <2> QED BY <1>1, <1>2, <2>1
<1>4. CASE k >= 1
  <2>1. c * k >= c
    BY <1>2, <1>4
  <2> QED BY <1>1, <1>2, <2>1
<1>5. CASE k = 0
  BY <1>1, <1>2, <1>5 DEF m
<1> QED BY <1>2, <1>3, <1>4, <1>5

\* and comes to every slot.
LEMMA ProbeComesTo ==
  ASSUME NEW c \in Nat \ {0}, NEW k \in Key, NEW s \in Slots(c)
  PROVE  \E i \in Slots(c) : Probe(c, k, i) = s
<1> DEFINE h == hash[k]
           q == h \div c
           m == h % c
<1>1. h \in Nat
  BY TableAssumption
<1> HIDE DEF h
<1>2. q \in Int /\ m \in 0..(c - 1) /\ h = c * q + m
  BY <1>1
<1> HIDE DEF q, m
<1>3. CASE m <= s
  <2>1. s - m \in Slots(c) /\ s - m \in Nat /\ s \in 0..(c - 1)
    BY <1>2, <1>3 DEF Slots
  <2>2. h + (s - m) = c * q + s /\ h + (s - m) \in Nat
    BY <1>1, <1>2, <2>1
  <2>3. (h + (s - m)) % c = s
    BY <1>2, <2>1, <2>2, RemainderUnique
  <2> QED BY <2>1, <2>3 DEF Probe, h
<1>4. CASE s < m
  <2> DEFINE i == (s - m) + c
  <2>1. i \in Slots(c) /\ i \in Nat /\ s \in 0..(c - 1)
    BY <1>2, <1>4 DEF Slots
  <2>2. c * (q + 1) = c * q + c
    BY <1>2
  <2>3. h + i = c * (q + 1) + s /\ h + i \in Nat /\ q + 1 \in Int
    BY <1>1, <1>2, <2>1, <2>2
  <2>4. (h + i) % c = s
    BY <2>1, <2>3, RemainderUnique
  <2> QED BY <2>1, <2>4 DEF Probe, h
<1> QED BY <1>2, <1>3, <1>4 DEF Slots
\* A probe has as many steps as the table has slots.
LEMMA StopsInTable ==
  ASSUME NEW t, NEW c, NEW k
  PROVE  Stops(t, c, k) \subseteq Slots(c) /\ Stops(t, c, k) \subseteq 0..(c - 1)
BY DEF Stops, Slots

\* What FirstIndex of the stops, and of the tombstones before, is.
LEMMA FirstStop ==
  ASSUME NEW c \in Nat \ {0}, NEW t, NEW k \in Key, Stops(t, c, k) # {}
  PROVE  /\ FirstIndex(Stops(t, c, k)) \in Stops(t, c, k)
         /\ \A j \in 0..(FirstIndex(Stops(t, c, k)) - 1) : j \in Slots(c) /\ j \notin Stops(t, c, k)
<1> DEFINE S == Stops(t, c, k)
           m == FirstIndex(S)
<1>1. S \in SUBSET (0..(c - 1)) /\ c \in Nat /\ S # {}
  BY StopsInTable
<1>2. m \in S /\ \A j \in S : m <= j
  <2> HIDE DEF S
  <2> QED BY <1>1, FirstIsLeast
<1>3. \A j \in 0..(m - 1) : j \in Slots(c) /\ j \notin S
  <2> HIDE DEF S, m
  <2> QED BY <1>1, <1>2 DEF Slots
<1> QED BY <1>2, <1>3

\* A step of a probe at which it does not stop is at an entry of another key.
LEMMA StopsAre ==
  ASSUME NEW c \in Nat \ {0}, NEW t, NEW k \in Key, NEW i \in Slots(c)
  PROVE  i \in Stops(t, c, k) <=> Holds(t[Probe(c, k, i)], k) \/ t[Probe(c, k, i)].state = "empty"
BY DEF Stops, Slots, Probe

\* The probe for a key that has a slot stops there,
LEMMA ProbeHits ==
  ASSUME NEW t, NEW c, TableOK(t, c), NEW k \in Key, NEW s \in Slots(c), Holds(t[s], k)
  PROVE  /\ Stops(t, c, k) # {}
         /\ Holds(t[Probe(c, k, FirstIndex(Stops(t, c, k)))], k)
         /\ Probe(c, k, FirstIndex(Stops(t, c, k))) = s
<1> DEFINE S == Stops(t, c, k)
           m == FirstIndex(S)
<1>1. c \in Nat \ {0} /\ KeysApart(t, c) /\ Reached(t, c, k, s)
  BY DEF TableOK, TableTypeOK, Holds, Used
<1>2. PICK i \in Slots(c) : Probe(c, k, i) = s /\ \A j \in 0..(i - 1) : t[Probe(c, k, j)].state # "empty"
  BY <1>1 DEF Reached
<1>3. i \in S
  BY <1>1, <1>2, StopsAre
<1>4. m \in S /\ \A j \in 0..(m - 1) : j \notin S
  BY <1>1, <1>3, FirstStop
<1>5. m \in Slots(c) /\ i \in Int
  <2>1. m \in Slots(c)
    BY <1>4, StopsInTable
  <2> HIDE DEF m
  <2> QED BY <2>1, <1>2 DEF Slots
<1> HIDE DEF S, m
<1>6. Probe(c, k, m) \in Slots(c)
  BY <1>1, <1>5, ProbeInTable DEF Slots
<1>7. m <= i
  BY <1>3, <1>4, <1>5, <1>2 DEF Slots
<1>8. Holds(t[Probe(c, k, m)], k)
  <2>1. CASE m = i
    BY <1>2, <2>1
  <2>2. CASE m < i
    <3>1. t[Probe(c, k, m)].state # "empty"
      BY <1>2, <1>5, <2>2 DEF Slots
    <3> QED BY <1>1, <1>4, <1>5, <3>1, StopsAre DEF S
  <2> QED BY <1>5, <1>7, <2>1, <2>2 DEF Slots
<1>9. Probe(c, k, m) = s
  BY <1>1, <1>6, <1>8 DEF KeysApart, Holds, Used
<1> QED BY <1>3, <1>8, <1>9 DEF S, m

\* so get, remove and contains find it,
LEMMA LookupFinds ==
  ASSUME TableOK(entries, cap), NEW k \in Key, NEW s \in Slots(cap), Holds(entries[s], k)
  PROVE  Lookup(k) = s
BY ProbeHits DEF Lookup, Probe

\* and find nothing when there is none.
LEMMA LookupMisses ==
  ASSUME TableOK(entries, cap), NEW k \in Key, ~Has(entries, cap, k)
  PROVE  Lookup(k) = -1
<1> DEFINE S == Stops(entries, cap, k)
           m == FirstIndex(S)
<1>1. cap \in Nat \ {0}
  BY DEF TableOK, TableTypeOK
<1>2. CASE S = {}
  BY <1>2 DEF Lookup
<1>3. CASE S # {}
  <2>1. m \in S
    BY <1>1, <1>3, FirstStop
  <2>2. m \in Nat
    <3>1. m \in Slots(cap)
      BY <2>1, StopsInTable
    <3> HIDE DEF m
    <3> QED BY <1>1, <3>1 DEF Slots
  <2>3. Probe(cap, k, m) \in Slots(cap)
    BY <1>1, <2>2, ProbeInTable
  <2>4. ~Holds(entries[Probe(cap, k, m)], k)
    BY <2>3 DEF Has
  <2> QED BY <2>4 DEF Lookup, Probe
<1> QED BY <1>2, <1>3

\* find_slot gives the slot of a key that has one;
LEMMA FindsKey ==
  ASSUME NEW t, NEW c, TableOK(t, c), NEW k \in Key, NEW s \in Slots(c), Holds(t[s], k)
  PROVE  FindSlot(t, c, k) = s
<1> DEFINE m == FirstIndex(Stops(t, c, k))
<1>1. c \in Nat \ {0}
  BY DEF TableOK, TableTypeOK
<1>2. Stops(t, c, k) # {} /\ Holds(t[Probe(c, k, m)], k) /\ Probe(c, k, m) = s
  BY ProbeHits
<1>3. m \in 0..(c - 1)
  BY <1>1, <1>2, FirstStop, StopsInTable
<1> HIDE DEF m
<1>4. m < c
  BY <1>1, <1>3
<1> QED BY <1>2, <1>4 DEF FindSlot, Probe, m

\* of a key that has none, a free slot with nothing empty on the way, unless all are used.
LEMMA FindsRoom ==
  ASSUME NEW t, NEW c, TableOK(t, c), NEW k \in Key, ~Has(t, c, k)
  PROVE  \/ /\ FindSlot(t, c, k) \in Slots(c) /\ ~Used(t, FindSlot(t, c, k))
            /\ Reached(t, c, k, FindSlot(t, c, k))
         \/ FindSlot(t, c, k) = -1 /\ \A s \in Slots(c) : Used(t, s)
<1> DEFINE S == Stops(t, c, k)
           last == IF S = {} THEN c ELSE FirstIndex(S)
           tombs == {i \in 0..(last - 1) : t[Probe(c, k, i)].state = "tombstone"}
<1>1. c \in Nat \ {0} /\ TableTypeOK(t, c)
  BY DEF TableOK, TableTypeOK
<1>2. \A i \in Slots(c) : Probe(c, k, i) \in Slots(c) /\ ~Holds(t[Probe(c, k, i)], k)
  BY <1>1, ProbeInTable DEF Has, Slots
<1>3. \A i \in Slots(c) : i \in S <=> t[Probe(c, k, i)].state = "empty"
  BY <1>1, <1>2, StopsAre
<1>4. last \in 0..c /\ (S # {} => last \in S) /\ (S = {} => last = c) /\ \A i \in 0..(last - 1) : i \in Slots(c) /\ i \notin S
  <2>1. CASE S = {}
    BY <1>1, <2>1 DEF Slots
  <2>2. CASE S # {}
    <3>1. last = FirstIndex(S)
      BY <2>2
    <3>2. last \in S /\ \A i \in 0..(last - 1) : i \in Slots(c) /\ i \notin S
      BY <1>1, <2>2, <3>1, FirstStop
    <3>3. last \in Slots(c)
      BY <3>2, StopsInTable
    <3> HIDE DEF S, last
    <3> QED BY <1>1, <2>2, <3>2, <3>3 DEF Slots
  <2> QED BY <2>1, <2>2
<1>5. FindSlot(t, c, k) = IF tombs # {} THEN Probe(c, k, FirstIndex(tombs))
                          ELSE IF last < c THEN Probe(c, k, last) ELSE -1
  <2>1. ~(last < c /\ Holds(t[Probe(c, k, last)], k))
    <3> HIDE DEF last, S
    <3> QED BY <1>1, <1>2, <1>4 DEF Slots
  <2> QED BY <2>1 DEF FindSlot, Probe
<1> HIDE DEF S, last
<1>6. \A i \in 0..(last - 1) : t[Probe(c, k, i)].state # "empty"
  BY <1>3, <1>4
<1>7. CASE tombs # {}
  <2> DEFINE i == FirstIndex(tombs)
  <2>1. tombs \in SUBSET (0..(last - 1)) /\ last \in Nat
    BY <1>1, <1>4
  <2>2. i \in tombs
    <3> HIDE DEF tombs
    <3> QED BY <1>7, <2>1, FirstIsLeast
  <2>3. i \in 0..(last - 1) /\ t[Probe(c, k, i)].state = "tombstone"
    BY <2>2
  <2> HIDE DEF i
  <2>4. i \in Slots(c) /\ \A j \in 0..(i - 1) : j \in 0..(last - 1)
    BY <1>4, <2>3 DEF Slots
  <2>5. FindSlot(t, c, k) = Probe(c, k, i)
    BY <1>5, <1>7 DEF i
  <2> QED BY <1>2, <1>6, <2>3, <2>4, <2>5 DEF Used, Reached
<1>8. CASE tombs = {} /\ last < c
  <2>1. last \in S /\ last \in Slots(c)
    BY <1>1, <1>4, <1>8 DEF Slots
  <2>2. t[Probe(c, k, last)].state = "empty"
    BY <1>3, <2>1
  <2>3. FindSlot(t, c, k) = Probe(c, k, last)
    BY <1>5, <1>8
  <2> QED BY <1>2, <1>6, <2>1, <2>2, <2>3 DEF Used, Reached
<1>9. CASE tombs = {} /\ ~(last < c)
  <2>1. last = c
    BY <1>1, <1>4, <1>9
  <2>2. \A i \in Slots(c) : t[Probe(c, k, i)].state \notin {"empty", "tombstone"}
    BY <1>6, <1>9, <2>1 DEF Slots
  <2>3. \A i \in Slots(c) : Used(t, Probe(c, k, i))
    BY <1>1, <1>2, <2>2 DEF TableTypeOK, Used
  <2>4. \A s \in Slots(c) : Used(t, s)
    BY <1>1, <2>3, ProbeComesTo
  <2> QED BY <1>5, <1>9, <2>4
<1> QED BY <1>7, <1>8, <1>9
-----------------------------------------------------------------------------
(* What a table holds, and what the operations do to it.                     *)

\* A new table has no entry.
LEMMA EmptyIsOK ==
  ASSUME NEW c \in Nat \ {0}
  PROVE  TableOK(EmptyTable(c), c) /\ \A s \in Slots(c) : ~Used(EmptyTable(c), s)
<1>1. /\ EmptyTable(c) = [s \in Slots(c) |-> EmptyTable(c)[s]]
      /\ \A s \in Slots(c) : EmptyTable(c)[s].state = "empty"
  BY DEF EmptyTable, Slots, EmptyEntry, Entry
<1> QED BY <1>1 DEF TableOK, TableTypeOK, KeysApart, Used

\* A slot that is not emptied leaves open every way that was.
LEMMA ReachedKept ==
  ASSUME NEW t, NEW c, TableTypeOK(t, c), NEW r \in Slots(c), NEW e, e.state # "empty",
         NEW k \in Key, NEW s \in Slots(c), Reached(t, c, k, s)
  PROVE  Reached([t EXCEPT ![r] = e], c, k, s)
<1> DEFINE u == [t EXCEPT ![r] = e]
<1>1. PICK i \in Slots(c) : Probe(c, k, i) = s /\ \A j \in 0..(i - 1) : t[Probe(c, k, j)].state # "empty"
  BY DEF Reached
<1>2. c \in Nat \ {0} /\ \A j \in 0..(i - 1) : j \in Nat
  BY DEF TableTypeOK, Slots
<1>3. \A x \in Slots(c) : u[x] = IF x = r THEN e ELSE t[x]
  BY DEF TableTypeOK
<1> HIDE DEF u
<1>4. \A j \in 0..(i - 1) : Probe(c, k, j) \in Slots(c)
  BY <1>2, ProbeInTable
<1>5. \A j \in 0..(i - 1) : u[Probe(c, k, j)].state # "empty"
  BY <1>1, <1>3, <1>4
<1>6. Reached(u, c, k, s)
  BY <1>1, <1>5 DEF Reached
<1> QED BY <1>6 DEF u

\* An entry put where find_slot says keeps the table,
LEMMA PutKeeps ==
  ASSUME NEW t, NEW c, TableOK(t, c), NEW r \in Slots(c), NEW e,
         e.state = "occupied", e.key \in Key, e.value \in Value,
         Holds(t[r], e.key) \/ (~Used(t, r) /\ ~Has(t, c, e.key) /\ Reached(t, c, e.key, r))
  PROVE  /\ TableOK([t EXCEPT ![r] = e], c)
         /\ \A s \in Slots(c) : [t EXCEPT ![r] = e][s] = IF s = r THEN e ELSE t[s]
<1> DEFINE u == [t EXCEPT ![r] = e]
<1>1. /\ TableTypeOK(t, c) /\ KeysApart(t, c)
      /\ \A s \in Slots(c) : Used(t, s) => Reached(t, c, t[s].key, s)
  BY DEF TableOK
<1>2. \A s \in Slots(c) : u[s] = IF s = r THEN e ELSE t[s]
  BY <1>1 DEF TableTypeOK
<1>3. u = [s \in Slots(c) |-> u[s]]
  BY <1>1 DEF TableTypeOK
<1>4. \A k \in Key, s \in Slots(c) : Reached(t, c, k, s) => Reached(u, c, k, s)
  BY <1>1, ReachedKept
<1> HIDE DEF u
<1>5. TableTypeOK(u, c)
  BY <1>1, <1>2, <1>3 DEF TableTypeOK, Used
<1>6. KeysApart(u, c)
  BY <1>1, <1>2 DEF KeysApart, Used, Holds, Has
<1>7. ASSUME NEW s \in Slots(c), Used(u, s) PROVE Reached(u, c, u[s].key, s)
  <2>1. CASE s = r
    <3>1. u[s].key = e.key /\ Reached(t, c, e.key, r)
      BY <1>1, <1>2, <2>1 DEF Holds, Used
    <3> QED BY <1>4, <2>1, <3>1
  <2>2. CASE s # r
    <3>1. u[s] = t[s] /\ Used(t, s) /\ t[s].key \in Key
      BY <1>1, <1>2, <1>7, <2>2 DEF Used, TableTypeOK
    <3> QED BY <1>1, <1>4, <3>1
  <2> QED BY <2>1, <2>2
<1>8. TableOK(u, c)
  BY <1>5, <1>6, <1>7 DEF TableOK
<1> QED BY <1>2, <1>8 DEF u

\* and so does a tombstone.
LEMMA TombKeeps ==
  ASSUME NEW t, NEW c, TableOK(t, c), NEW r \in Slots(c)
  PROVE  /\ TableOK([t EXCEPT ![r] = Entry("tombstone", nil, nil)], c)
         /\ \A s \in Slots(c) : [t EXCEPT ![r] = Entry("tombstone", nil, nil)][s] =
                                 IF s = r THEN Entry("tombstone", nil, nil) ELSE t[s]
<1> DEFINE e == Entry("tombstone", nil, nil)
           u == [t EXCEPT ![r] = e]
<1>1. /\ TableTypeOK(t, c) /\ KeysApart(t, c)
      /\ \A s \in Slots(c) : Used(t, s) => Reached(t, c, t[s].key, s)
  BY DEF TableOK
<1>2. \A s \in Slots(c) : u[s] = IF s = r THEN e ELSE t[s]
  BY <1>1 DEF TableTypeOK
<1>3. u = [s \in Slots(c) |-> u[s]] /\ e.state = "tombstone"
  BY <1>1 DEF TableTypeOK, Entry
<1>4. \A k \in Key, s \in Slots(c) : Reached(t, c, k, s) => Reached(u, c, k, s)
  BY <1>1, <1>3, ReachedKept
<1> HIDE DEF u, e
<1>5. \A s \in Slots(c) : Used(u, s) => Used(t, s) /\ u[s] = t[s]
  BY <1>2, <1>3 DEF Used
<1>6. TableTypeOK(u, c)
  BY <1>1, <1>2, <1>3, <1>5 DEF TableTypeOK
<1>7. KeysApart(u, c)
  BY <1>1, <1>5 DEF KeysApart
<1>8. \A s \in Slots(c) : Used(u, s) => Reached(u, c, u[s].key, s)
  BY <1>1, <1>4, <1>5 DEF TableTypeOK
<1>9. TableOK(u, c)
  BY <1>6, <1>7, <1>8 DEF TableOK
<1> QED BY <1>2, <1>9 DEF u, e

UsedSlots(t, c) == {s \in Slots(c) : Used(t, s)}

\* The content has a key for each entry, with the value of the entry.
LEMMA ContentIs ==
  ASSUME NEW t, NEW c, TableTypeOK(t, c), KeysApart(t, c)
  PROVE  /\ Content(t) = [k \in DOMAIN Content(t) |-> Content(t)[k]]
         /\ \A k : k \in DOMAIN Content(t) <=> Has(t, c, k)
         /\ \A s \in Slots(c) : Used(t, s) => Content(t)[t[s].key] = t[s].value
<1>1. DOMAIN t = Slots(c)
  BY DEF TableTypeOK
<1> DEFINE used == {s \in DOMAIN t : t[s].state = "occupied"}
<1>2. \A s : s \in used <=> s \in Slots(c) /\ Used(t, s)
  BY <1>1 DEF Used
<1>3. Content(t) = [k \in {t[s].key : s \in used} |-> t[CHOOSE s \in used : t[s].key = k].value]
  BY DEF Content
<1> HIDE DEF used
<1>4. \A k : k \in DOMAIN Content(t) <=> Has(t, c, k)
  BY <1>2, <1>3 DEF Has, Holds, Used
<1>5. ASSUME NEW s \in Slots(c), Used(t, s) PROVE Content(t)[t[s].key] = t[s].value
  <2>1. s \in used /\ t[s].key \in {t[x].key : x \in used}
    BY <1>2, <1>5
  <2>2. (CHOOSE x \in used : t[x].key = t[s].key) = s
    BY <1>2, <1>5, <2>1 DEF KeysApart
  <2> QED BY ZenonT(90), <1>3, <2>1, <2>2
<1> QED BY <1>3, <1>4, <1>5

\* Functions are equal if they have equal values.
LEMMA SameFunction ==
  ASSUME NEW f, NEW g, f = [x \in DOMAIN f |-> f[x]], g = [x \in DOMAIN g |-> g[x]],
         \A x : x \in DOMAIN f <=> x \in DOMAIN g, \A x \in DOMAIN f : f[x] = g[x]
  PROVE  f = g
<1>1. DOMAIN f = DOMAIN g
  OBVIOUS
<1> QED BY <1>1

\* It has as many keys as entries, so at most as the slots, and as many only if it is full.
LEMMA ContentSize ==
  ASSUME NEW t, NEW c, TableTypeOK(t, c), KeysApart(t, c)
  PROVE  /\ IsFiniteSet(DOMAIN Content(t)) /\ IsFiniteSet(UsedSlots(t, c))
         /\ Cardinality(DOMAIN Content(t)) = Cardinality(UsedSlots(t, c))
         /\ Cardinality(DOMAIN Content(t)) \in 0..c
         /\ (\A s \in Slots(c) : Used(t, s)) => Cardinality(DOMAIN Content(t)) = c
<1> DEFINE U == UsedSlots(t, c)
           D == DOMAIN Content(t)
           f == [s \in U |-> t[s].key]
<1>1. c \in Nat /\ IsFiniteSet(Slots(c)) /\ Cardinality(Slots(c)) = c
  <2>1. c \in Nat /\ 0 \in Int /\ c - 1 \in Int /\ c # 0
    BY DEF TableTypeOK
  <2>2. IsFiniteSet(0..(c - 1)) /\ Cardinality(0..(c - 1)) = IF 0 > c - 1 THEN 0 ELSE (c - 1) - 0 + 1
    BY <2>1, FS_Interval
  <2> QED BY <2>1, <2>2 DEF Slots
<1>2. U \subseteq Slots(c)
  BY DEF UsedSlots
<1>3. IsFiniteSet(U) /\ Cardinality(U) <= c /\ Cardinality(U) \in Nat
  BY <1>1, <1>2, FS_Subset, FS_CardinalityType
<1>4. f \in Bijection(U, D)
  <2>1. \A s \in U : t[s].key \in D
    BY ContentIs DEF UsedSlots, Has, Holds, Used
  <2>2. \A r, s \in U : t[r].key = t[s].key => r = s
    BY DEF UsedSlots, KeysApart
  <2>3. \A k \in D : \E s \in U : t[s].key = k
    BY ContentIs DEF UsedSlots, Has, Holds, Used
  <2> HIDE DEF U, D
  <2>4. f \in [U -> D]
    BY <2>1
  <2> QED BY <2>2, <2>3, <2>4 DEF Bijection, Injection, Surjection, IsInjective
<1>5. IsFiniteSet(D) /\ Cardinality(D) = Cardinality(U)
  BY <1>3, <1>4, FS_Bijection DEF ExistsBijection
<1>6. (\A s \in Slots(c) : Used(t, s)) => U = Slots(c)
  BY DEF UsedSlots
<1> HIDE DEF U, D
<1>7. Cardinality(D) \in 0..c
  BY <1>1, <1>3, <1>5
<1> QED BY <1>1, <1>3, <1>5, <1>6, <1>7 DEF U, D
-----------------------------------------------------------------------------
(* The invariant.                                                            *)

Phases == {"idle", "place", "grow", "rehash"}

InsertOK ==
  /\ insert = [phase |-> insert.phase, key |-> insert.key, value |-> insert.value]
  /\ insert.phase \in Phases
  /\ insert.phase # "idle" => insert.key \in Key /\ insert.value \in Value

\* The new entries are those that the loop of map_rehash has come to.
RehashOK ==
  insert.phase = "rehash" =>
    \E c \in Nat \ {0} :
      /\ TableOK(old, c) /\ cap = 2 * c /\ next \in 0..c
      /\ \A s \in Slots(cap) : Used(entries, s) =>
           \E j \in 0..(next - 1) : Used(old, j) /\ old[j] = entries[s]
      /\ \A j \in 0..(next - 1) : Used(old, j) =>
           \E s \in Slots(cap) : Used(entries, s) /\ entries[s] = old[j]

\* The size is the number of keys, and after the load test, or a growth, not of all slots.
SizeOK ==
  /\ size = Cardinality(DOMAIN Stored)
  /\ insert.phase = "place" => size < cap

TableInv == TableOK(entries, cap) /\ InsertOK /\ RehashOK /\ SizeOK

\* The content depends on the keys and the values of the entries alone.
LEMMA ContentSame ==
  ASSUME NEW t, NEW c, TableTypeOK(t, c), KeysApart(t, c),
         NEW u, NEW d, TableTypeOK(u, d), KeysApart(u, d),
         \A s \in Slots(c) : Used(t, s) => \E r \in Slots(d) : Used(u, r) /\ u[r].key = t[s].key /\ u[r].value = t[s].value,
         \A r \in Slots(d) : Used(u, r) => \E s \in Slots(c) : Used(t, s) /\ u[r].key = t[s].key /\ u[r].value = t[s].value
  PROVE  Content(t) = Content(u)
<1>1. \A k : k \in DOMAIN Content(t) <=> k \in DOMAIN Content(u)
  <2>1. \A k : Has(t, c, k) <=> Has(u, d, k)
    BY DEF Has, Holds, Used
  <2> QED BY <2>1, ContentIs
<1>2. ASSUME NEW k \in DOMAIN Content(t) PROVE Content(t)[k] = Content(u)[k]
  <2>1. Has(t, c, k)
    BY ContentIs
  <2>2. PICK s \in Slots(c) : Used(t, s) /\ t[s].key = k
    BY <2>1 DEF Has, Holds, Used
  <2>3. PICK r \in Slots(d) : Used(u, r) /\ u[r].key = t[s].key /\ u[r].value = t[s].value
    BY <2>2
  <2>4. Content(t)[k] = t[s].value
    BY <2>2, ContentIs
  <2>5. Content(u)[k] = u[r].value
    BY <2>2, <2>3, ContentIs
  <2> QED BY <2>3, <2>4, <2>5
<1>3. /\ Content(t) = [k \in DOMAIN Content(t) |-> Content(t)[k]]
      /\ Content(u) = [k \in DOMAIN Content(u) |-> Content(u)[k]]
  BY ContentIs
<1> QED BY <1>1, <1>2, <1>3, SameFunction

\* An empty table holds the empty map.
LEMMA ContentEmpty ==
  ASSUME NEW t, NEW c, TableTypeOK(t, c), KeysApart(t, c), \A s \in Slots(c) : ~Used(t, s)
  PROVE  Content(t) = <<>> /\ Cardinality(DOMAIN Content(t)) = 0 /\ DOMAIN Content(t) = {}
<1>1. DOMAIN Content(t) = {}
  <2>1. \A k : ~Has(t, c, k)
    BY DEF Has, Holds, Used
  <2>2. \A k : k \notin DOMAIN Content(t)
    BY <2>1, ContentIs
  <2> QED BY <2>2
<1>2. Content(t) = [k \in {} |-> Content(t)[k]]
  BY <1>1, ContentIs
<1>3. Content(t) = <<>>
  BY <1>2
<1> QED BY <1>1, <1>3, FS_EmptySet

\* An entry put where find_slot says gives its key its value,
LEMMA ContentPut ==
  ASSUME NEW t, NEW c, TableOK(t, c), NEW r \in Slots(c), NEW e,
         e.state = "occupied", e.key \in Key, e.value \in Value,
         Holds(t[r], e.key) \/ (~Used(t, r) /\ ~Has(t, c, e.key) /\ Reached(t, c, e.key, r))
  PROVE  Content([t EXCEPT ![r] = e]) =
           [x \in DOMAIN Content(t) \cup {e.key} |-> IF x = e.key THEN e.value ELSE Content(t)[x]]
<1> DEFINE u == [t EXCEPT ![r] = e]
           g == [x \in DOMAIN Content(t) \cup {e.key} |-> IF x = e.key THEN e.value ELSE Content(t)[x]]
<1>1. TableOK(u, c) /\ \A s \in Slots(c) : u[s] = IF s = r THEN e ELSE t[s]
  BY PutKeeps
<1>2. TableTypeOK(t, c) /\ KeysApart(t, c) /\ TableTypeOK(u, c) /\ KeysApart(u, c)
  BY <1>1 DEF TableOK
<1> HIDE DEF u
<1>3. \A k : k \in DOMAIN Content(u) <=> k \in DOMAIN Content(t) \/ k = e.key
  <2>1. \A k : Has(u, c, k) <=> Has(t, c, k) \/ k = e.key
    BY <1>1 DEF Has, Holds, Used
  <2> QED BY <1>2, <2>1, ContentIs
<1>4. ASSUME NEW k \in DOMAIN Content(u) PROVE Content(u)[k] = g[k]
  <2>1. PICK s \in Slots(c) : Used(u, s) /\ u[s].key = k
    BY <1>2, ContentIs DEF Has, Holds, Used
  <2>2. Content(u)[k] = u[s].value
    BY <1>2, <2>1, ContentIs
  <2>3. CASE k = e.key
    <3>1. Used(u, r) /\ u[r].key = e.key
      BY <1>1 DEF Used
    <3>2. s = r
      BY <1>2, <2>1, <2>3, <3>1 DEF KeysApart
    <3> QED BY <1>1, <2>2, <2>3, <3>2
  <2>4. CASE k # e.key
    <3>1. s # r /\ u[s] = t[s] /\ Used(t, s)
      BY <1>1, <2>1, <2>4 DEF Used
    <3>2. Content(t)[k] = t[s].value
      BY <1>2, <2>1, <3>1, ContentIs
    <3>3. k \in DOMAIN Content(t)
      BY <1>3, <2>4
    <3> QED BY <2>2, <2>4, <3>1, <3>2, <3>3
  <2> QED BY <2>3, <2>4
<1>5. Content(u) = [k \in DOMAIN Content(u) |-> Content(u)[k]]
  BY <1>2, ContentIs
<1>6. g = [k \in DOMAIN g |-> g[k]] /\ \A k : k \in DOMAIN g <=> k \in DOMAIN Content(t) \/ k = e.key
  OBVIOUS
<1> HIDE DEF g
<1>7. Content(u) = g
  BY <1>3, <1>4, <1>5, <1>6, SameFunction
<1> QED BY <1>7 DEF u, g

\* and the tombstone in the slot of a key takes the key away.
LEMMA ContentRemoved ==
  ASSUME NEW t, NEW c, TableOK(t, c), NEW k \in Key, NEW r \in Slots(c), Holds(t[r], k)
  PROVE  Content([t EXCEPT ![r] = Entry("tombstone", nil, nil)]) =
           [x \in DOMAIN Content(t) \ {k} |-> Content(t)[x]]
<1> DEFINE u == [t EXCEPT ![r] = Entry("tombstone", nil, nil)]
           g == [x \in DOMAIN Content(t) \ {k} |-> Content(t)[x]]
<1>1. TableOK(u, c) /\ \A s \in Slots(c) : u[s] = IF s = r THEN Entry("tombstone", nil, nil) ELSE t[s]
  BY TombKeeps
<1>2. TableTypeOK(t, c) /\ KeysApart(t, c) /\ TableTypeOK(u, c) /\ KeysApart(u, c)
  BY <1>1 DEF TableOK
<1> HIDE DEF u
<1>3. \A s \in Slots(c) : Used(u, s) <=> Used(t, s) /\ s # r
  BY <1>1 DEF Used, Entry
<1>4. \A x : x \in DOMAIN Content(u) <=> x \in DOMAIN Content(t) /\ x # k
  <2>1. \A s \in Slots(c) : Used(t, s) /\ t[s].key = k => s = r
    BY <1>2 DEF KeysApart, Holds, Used
  <2>2. \A x : Has(u, c, x) <=> Has(t, c, x) /\ x # k
    BY <1>1, <1>3, <2>1 DEF Has, Holds, Used
  <2> QED BY <1>2, <2>2, ContentIs
<1>5. ASSUME NEW x \in DOMAIN Content(u) PROVE Content(u)[x] = g[x]
  <2>1. PICK s \in Slots(c) : Used(u, s) /\ u[s].key = x
    BY <1>2, ContentIs DEF Has, Holds, Used
  <2>2. Content(u)[x] = u[s].value /\ u[s] = t[s] /\ Used(t, s)
    BY <1>1, <1>2, <1>3, <2>1, ContentIs
  <2>3. Content(t)[x] = t[s].value
    BY <1>2, <2>1, <2>2, ContentIs
  <2> QED BY <1>4, <2>2, <2>3
<1>6. Content(u) = [x \in DOMAIN Content(u) |-> Content(u)[x]]
  BY <1>2, ContentIs
<1>7. g = [x \in DOMAIN g |-> g[x]] /\ \A x : x \in DOMAIN g <=> x \in DOMAIN Content(t) /\ x # k
  OBVIOUS
<1> HIDE DEF g
<1>8. Content(u) = g
  BY <1>4, <1>5, <1>6, <1>7, SameFunction
<1> QED BY <1>8 DEF u, g
-----------------------------------------------------------------------------
(* Each operation keeps the invariant and does to the content what it says.  *)

\* The table is empty at first.
LEMMA TableInitInv == TableInit => TableInv /\ Stored = <<>>
<1> SUFFICES ASSUME TableInit PROVE TableInv /\ Stored = <<>>
  OBVIOUS
<1>1. FirstSlots \in Nat \ {0} /\ cap = FirstSlots /\ entries = EmptyTable(cap)
  BY TableAssumption DEF TableInit
<1>2. TableOK(entries, cap) /\ \A s \in Slots(cap) : ~Used(entries, s)
  BY <1>1, EmptyIsOK
<1>3. insert.phase = "idle" /\ InsertOK
  BY DEF TableInit, Idle, InsertOK, Phases
<1>4. Stored = Content(entries)
  BY <1>3 DEF Stored
<1>5. Stored = <<>> /\ Cardinality(DOMAIN Stored) = 0
  BY <1>2, <1>4, ContentEmpty DEF TableOK
<1>6. SizeOK
  BY <1>3, <1>5 DEF SizeOK, TableInit
<1> QED BY <1>2, <1>3, <1>5, <1>6 DEF TableInv, RehashOK

\* What the content is when map_rehash is not at work.
LEMMA NowStored ==
  ASSUME TableInv, insert.phase # "rehash"
  PROVE  /\ Stored = Content(entries) /\ TableTypeOK(entries, cap) /\ KeysApart(entries, cap)
         /\ cap \in Nat \ {0} /\ size \in 0..cap /\ size = Cardinality(DOMAIN Content(entries))
         /\ IsFiniteSet(DOMAIN Content(entries))
<1>1. Stored = Content(entries)
  BY DEF Stored
<1>2. TableTypeOK(entries, cap) /\ KeysApart(entries, cap) /\ cap \in Nat \ {0}
  BY DEF TableInv, TableOK, TableTypeOK
<1>3. Cardinality(DOMAIN Content(entries)) \in 0..cap /\ IsFiniteSet(DOMAIN Content(entries))
  BY <1>2, ContentSize
<1> QED BY <1>1, <1>2, <1>3 DEF TableInv, SizeOK

\* A step that leaves the table and the insertion alone.
LEMMA TableKept ==
  ASSUME TableInv, UNCHANGED <<entries, cap, size, insert, old, next>>
  PROVE  TableInv' /\ Stored' = Stored
<1>1. Stored' = Stored
  BY DEF Stored
<1>2. TableOK(entries, cap)'
  BY DEF TableInv
<1>3. InsertOK' /\ SizeOK'
  BY <1>1 DEF TableInv, InsertOK, SizeOK
<1>4. RehashOK'
  BY DEF TableInv, RehashOK
<1> QED BY <1>1, <1>2, <1>3, <1>4 DEF TableInv

\* liva_map_insert begins.
LEMMA InsertStep ==
  ASSUME TableInv, NEW k \in Key, NEW v \in Value, Insert(k, v)
  PROVE  TableInv' /\ Stored' = Stored
<1>1. insert.phase = "idle" /\ UNCHANGED <<entries, cap, size, old, next>>
  BY DEF Insert, Quiet
<1>2. /\ insert'.key = k /\ insert'.value = v /\ insert'.phase \in {"grow", "place"}
      /\ insert' = [phase |-> insert'.phase, key |-> insert'.key, value |-> insert'.value]
      /\ insert'.phase = "place" => ~(size * 4 >= cap * 3)
  BY DEF Insert
<1>3. Stored' = Stored
  BY <1>1, <1>2 DEF Stored
<1>4. InsertOK'
  BY <1>2 DEF InsertOK, Phases
<1>5. SizeOK'
  <2>1. size \in Nat /\ cap \in Nat
    BY <1>1, NowStored
  <2>2. insert'.phase = "place" => size < cap
    BY <1>2, <2>1
  <2> QED BY <1>1, <1>3, <2>2 DEF TableInv, SizeOK
<1> QED BY <1>1, <1>2, <1>3, <1>4, <1>5 DEF TableInv, RehashOK

\* map_rehash makes the new entries: the old ones are the content.
LEMMA GrowStep ==
  ASSUME TableInv, Grow
  PROVE  TableInv' /\ Stored' = Stored
<1>1. /\ insert.phase = "grow" /\ old' = entries /\ next' = 0
      /\ cap' = 2 * cap /\ entries' = EmptyTable(cap') /\ size' = size
  BY DEF Grow
<1>2. insert' = [insert EXCEPT !.phase = "rehash"]
  BY DEF Grow
<1>3. insert'.phase = "rehash" /\ InsertOK'
  BY <1>1, <1>2 DEF TableInv, InsertOK, Phases
<1>4. TableOK(entries, cap) /\ cap \in Nat \ {0} /\ cap' \in Nat \ {0}
  BY <1>1, NowStored DEF TableInv
<1>5. TableOK(entries', cap') /\ \A s \in Slots(cap') : ~Used(entries', s)
  BY <1>1, <1>4, EmptyIsOK
<1>6. Stored' = Stored
  BY <1>1, <1>3 DEF Stored
<1>7. RehashOK'
  <2>1. TableOK(old', cap) /\ next' \in 0..cap /\ 0..(next' - 1) = {}
    BY <1>1, <1>4
  <2>2. \A s \in Slots(cap') : ~Used(entries', s)
    BY <1>5
  <2> QED BY <1>1, <1>4, <2>1, <2>2 DEF RehashOK
<1>8. SizeOK'
  BY <1>1, <1>3, <1>6 DEF TableInv, SizeOK
<1>9. TableOK(entries, cap)'
  BY <1>5
<1> QED BY <1>3, <1>6, <1>7, <1>8, <1>9 DEF TableInv

\* The new entries never fill up, so that the loop of map_rehash finds a slot for each key.
LEMMA RehashFinds ==
  ASSUME TableInv, insert.phase = "rehash", next \in DOMAIN old, Used(old, next)
  PROVE  /\ ~Has(entries, cap, old[next].key)
         /\ FindSlot(entries, cap, old[next].key) \in Slots(cap)
         /\ ~Used(entries, FindSlot(entries, cap, old[next].key))
         /\ Reached(entries, cap, old[next].key, FindSlot(entries, cap, old[next].key))
<1>1. PICK c \in Nat \ {0} :
      /\ TableOK(old, c) /\ cap = 2 * c /\ next \in 0..c
      /\ \A s \in Slots(cap) : Used(entries, s) => \E j \in 0..(next - 1) : Used(old, j) /\ old[j] = entries[s]
  BY DEF TableInv, RehashOK
<1>2. TableOK(entries, cap)
  BY DEF TableInv
<1>3. /\ TableTypeOK(old, c) /\ KeysApart(old, c)
      /\ TableTypeOK(entries, cap) /\ KeysApart(entries, cap)
  BY <1>1, <1>2 DEF TableOK
<1>4. next \in Slots(c) /\ old[next].key \in Key
  BY <1>3 DEF TableTypeOK
<1>5. \A j \in 0..(next - 1) : j \in Slots(c) /\ j # next
  BY <1>4 DEF Slots
<1>6. ~Has(entries, cap, old[next].key)
  BY <1>1, <1>3, <1>4, <1>5 DEF Has, Holds, Used, KeysApart
<1>7. ~\A s \in Slots(cap) : Used(entries, s)
  <2>1. SUFFICES ASSUME \A s \in Slots(cap) : Used(entries, s) PROVE FALSE
    OBVIOUS
  <2>2. \A k : Has(entries, cap, k) => Has(old, c, k)
    BY <1>1, <1>5 DEF Has, Holds, Used
  <2>3. DOMAIN Content(entries) \subseteq DOMAIN Content(old)
    BY <1>3, <2>2, ContentIs
  <2>4. IsFiniteSet(DOMAIN Content(old)) /\ Cardinality(DOMAIN Content(old)) \in 0..c
    BY <1>3, ContentSize
  <2>5. Cardinality(DOMAIN Content(entries)) <= Cardinality(DOMAIN Content(old))
    BY <2>3, <2>4, FS_Subset
  <2>6. Cardinality(DOMAIN Content(entries)) = cap
    BY <1>3, <2>1, ContentSize
  <2> QED BY <1>1, <2>4, <2>5, <2>6
<1> QED BY <1>2, <1>4, <1>6, <1>7, FindsRoom

\* One turn of that loop.
LEMMA RehashStep ==
  ASSUME TableInv, Rehash
  PROVE  TableInv' /\ Stored' = Stored
<1>1. /\ insert.phase = "rehash" /\ next \in DOMAIN old /\ next' = next + 1
      /\ UNCHANGED <<cap, size, insert, old>>
  BY DEF Rehash
<1>2. PICK c \in Nat \ {0} :
      /\ TableOK(old, c) /\ cap = 2 * c /\ next \in 0..c
      /\ \A s \in Slots(cap) : Used(entries, s) => \E j \in 0..(next - 1) : Used(old, j) /\ old[j] = entries[s]
      /\ \A j \in 0..(next - 1) : Used(old, j) => \E s \in Slots(cap) : Used(entries, s) /\ entries[s] = old[j]
  BY <1>1 DEF TableInv, RehashOK
<1>3. Stored' = Stored
  BY <1>1 DEF Stored
<1>4. InsertOK' /\ SizeOK'
  BY <1>1, <1>3 DEF TableInv, InsertOK, SizeOK
<1>5. next \in Slots(c) /\ next' \in 0..c
  BY <1>1, <1>2 DEF TableOK, TableTypeOK, Slots
<1>6. 0..(next' - 1) = 0..(next - 1) \cup {next}
  BY <1>1, <1>2
<1>7. CASE ~Used(old, next)
  <2>1. entries' = entries
    BY <1>7 DEF Rehash, Used
  <2>2. TableOK(entries, cap)'
    BY <1>1, <2>1 DEF TableInv
  <2>3. RehashOK'
    <3>1. \A s \in Slots(cap) : Used(entries, s) => \E j \in 0..(next' - 1) : Used(old, j) /\ old[j] = entries[s]
      BY <1>2, <1>6
    <3>2. \A j \in 0..(next' - 1) : Used(old, j) => \E s \in Slots(cap) : Used(entries, s) /\ entries[s] = old[j]
      BY <1>2, <1>6, <1>7
    <3> QED BY <1>1, <1>2, <1>5, <2>1, <3>1, <3>2 DEF RehashOK
  <2> QED BY <1>3, <1>4, <2>2, <2>3 DEF TableInv
<1>8. CASE Used(old, next)
  <2> DEFINE e == old[next]
             r == FindSlot(entries, cap, e.key)
  <2>1. ~Has(entries, cap, e.key) /\ r \in Slots(cap) /\ ~Used(entries, r) /\ Reached(entries, cap, e.key, r)
    BY <1>1, <1>8, RehashFinds
  <2>2. entries' = [entries EXCEPT ![r] = e]
    BY <1>8 DEF Rehash, Used
  <2>3. e.state = "occupied" /\ e.key \in Key /\ e.value \in Value
    BY <1>2, <1>5, <1>8 DEF TableOK, TableTypeOK, Used
  <2> HIDE DEF e, r
  <2>4. TableOK(entries', cap) /\ \A s \in Slots(cap) : entries'[s] = IF s = r THEN e ELSE entries[s]
    <3>1. TableOK(entries, cap)
      BY DEF TableInv
    <3>2. /\ TableOK([entries EXCEPT ![r] = e], cap)
          /\ \A s \in Slots(cap) : [entries EXCEPT ![r] = e][s] = IF s = r THEN e ELSE entries[s]
      BY <2>1, <2>3, <3>1, PutKeeps
    <3> QED BY <2>2, <3>2
  <2>5. \A s \in Slots(cap) : Used(entries', s) => \E j \in 0..(next' - 1) : Used(old, j) /\ old[j] = entries'[s]
    <3> SUFFICES ASSUME NEW s \in Slots(cap), Used(entries', s)
                 PROVE  \E j \in 0..(next' - 1) : Used(old, j) /\ old[j] = entries'[s]
      OBVIOUS
    <3>1. CASE s = r
      BY <1>6, <1>8, <2>4, <3>1 DEF e
    <3>2. CASE s # r
      <4>1. Used(entries, s) /\ entries'[s] = entries[s]
        BY <2>4, <3>2 DEF Used
      <4> QED BY <1>2, <1>6, <4>1
    <3> QED BY <3>1, <3>2
  <2>6. \A j \in 0..(next' - 1) : Used(old, j) => \E s \in Slots(cap) : Used(entries', s) /\ entries'[s] = old[j]
    <3> SUFFICES ASSUME NEW j \in 0..(next' - 1), Used(old, j)
                 PROVE  \E s \in Slots(cap) : Used(entries', s) /\ entries'[s] = old[j]
      OBVIOUS
    <3>1. CASE j = next
      <4>1. entries'[r] = old[j] /\ Used(entries', r)
        BY <2>1, <2>3, <2>4, <3>1 DEF e, Used
      <4> QED BY <2>1, <4>1
    <3>2. CASE j # next
      <4>1. j \in 0..(next - 1)
        BY <1>6, <3>2
      <4>2. PICK s \in Slots(cap) : Used(entries, s) /\ entries[s] = old[j]
        BY <1>2, <4>1
      <4>3. entries'[s] = entries[s]
        BY <2>1, <2>4, <4>2
      <4> QED BY <4>2, <4>3 DEF Used
    <3> QED BY <3>1, <3>2
  <2>7. RehashOK'
    BY <1>1, <1>2, <1>5, <2>5, <2>6 DEF RehashOK
  <2>8. TableOK(entries, cap)'
    BY <1>1, <2>4
  <2> QED BY <1>3, <1>4, <2>7, <2>8 DEF TableInv
<1> QED BY <1>7, <1>8

\* At its end the new entries have the content of the old.
LEMMA RehashEndStep ==
  ASSUME TableInv, RehashEnd
  PROVE  TableInv' /\ Stored' = Stored
<1>1. /\ insert.phase = "rehash" /\ next \notin DOMAIN old
      /\ insert' = [insert EXCEPT !.phase = "place"] /\ UNCHANGED <<entries, cap, size>>
  BY DEF RehashEnd
<1>2. insert'.phase = "place" /\ InsertOK'
  BY <1>1 DEF TableInv, InsertOK, Phases
<1>3. PICK c \in Nat \ {0} :
      /\ TableOK(old, c) /\ cap = 2 * c /\ next \in 0..c
      /\ \A s \in Slots(cap) : Used(entries, s) => \E j \in 0..(next - 1) : Used(old, j) /\ old[j] = entries[s]
      /\ \A j \in 0..(next - 1) : Used(old, j) => \E s \in Slots(cap) : Used(entries, s) /\ entries[s] = old[j]
  BY <1>1 DEF TableInv, RehashOK
<1>4. /\ TableTypeOK(old, c) /\ KeysApart(old, c)
      /\ TableTypeOK(entries, cap) /\ KeysApart(entries, cap)
  BY <1>3 DEF TableInv, TableOK
<1>5. 0..(next - 1) = Slots(c)
  BY <1>1, <1>3, <1>4 DEF TableTypeOK, Slots
<1>6. Content(entries) = Content(old)
  <2>1. \A s \in Slots(cap) : Used(entries, s) =>
          \E j \in Slots(c) : Used(old, j) /\ old[j].key = entries[s].key /\ old[j].value = entries[s].value
    BY <1>3, <1>5
  <2>2. \A j \in Slots(c) : Used(old, j) =>
          \E s \in Slots(cap) : Used(entries, s) /\ old[j].key = entries[s].key /\ old[j].value = entries[s].value
    BY <1>3, <1>5
  <2> QED BY <1>4, <2>1, <2>2, ContentSame
<1>7. Stored = Content(old) /\ Stored' = Content(entries)
  BY <1>1, <1>2 DEF Stored
<1>8. SizeOK'
  <2>1. size = Cardinality(DOMAIN Content(old)) /\ Cardinality(DOMAIN Content(old)) \in 0..c
    BY <1>4, <1>7, ContentSize DEF TableInv, SizeOK
  <2> QED BY <1>1, <1>2, <1>3, <1>6, <1>7, <2>1 DEF SizeOK
<1>9. TableOK(entries, cap)'
  BY <1>1 DEF TableInv
<1> QED BY <1>2, <1>6, <1>7, <1>8, <1>9 DEF TableInv, RehashOK
\* There is room for the key when the table has been made large enough.
LEMMA PlaceFinds ==
  ASSUME TableInv, insert.phase = "place"
  PROVE  LET r == FindSlot(entries, cap, insert.key)
         IN  r \in Slots(cap) /\ r # -1 /\
             (Holds(entries[r], insert.key) \/
              (~Used(entries, r) /\ ~Has(entries, cap, insert.key) /\ Reached(entries, cap, insert.key, r)))
<1> DEFINE k == insert.key
           r == FindSlot(entries, cap, k)
<1>1. TableOK(entries, cap) /\ k \in Key
  BY DEF TableInv, InsertOK
<1>2. r \in Slots(cap) /\
      (Holds(entries[r], k) \/ (~Used(entries, r) /\ ~Has(entries, cap, k) /\ Reached(entries, cap, k, r)))
  <2>1. CASE Has(entries, cap, k)
    <3>1. PICK s \in Slots(cap) : Holds(entries[s], k)
      BY <2>1 DEF Has
    <3>2. r = s
      BY <1>1, <3>1, FindsKey
    <3> QED BY <3>1, <3>2
  <2>2. CASE ~Has(entries, cap, k)
    <3>1. ~\A s \in Slots(cap) : Used(entries, s)
      <4>1. size < cap /\ size = Cardinality(DOMAIN Content(entries))
        BY NowStored DEF TableInv, SizeOK
      <4>2. (\A s \in Slots(cap) : Used(entries, s)) => Cardinality(DOMAIN Content(entries)) = cap
        BY NowStored, ContentSize
      <4>3. cap \in Nat
        BY NowStored
      <4> QED BY <4>1, <4>2, <4>3
    <3> QED BY <1>1, <2>2, <3>1, FindsRoom
  <2> QED BY <2>1, <2>2
<1>3. r # -1
  BY <1>2 DEF Slots
<1> QED BY <1>2, <1>3

\* The map with v at k, and without k.
With(f, k, v) == [x \in DOMAIN f \cup {k} |-> IF x = k THEN v ELSE f[x]]
Without(f, k) == [x \in DOMAIN f \ {k} |-> f[x]]

\* The rest of liva_map_insert gives the key its value.
LEMMA PlaceStep ==
  ASSUME TableInv, Place
  PROVE  /\ TableInv' /\ Stored' = With(Stored, insert.key, insert.value)
         /\ insert.key \in Key /\ insert.value \in Value
<1> DEFINE k == insert.key
           v == insert.value
           r == FindSlot(entries, cap, k)
           e == Entry("occupied", k, v)
<1>1. insert.phase = "place" /\ UNCHANGED <<cap, old, next>>
  BY DEF Place
<1>2. TableOK(entries, cap) /\ k \in Key /\ v \in Value
  BY <1>1 DEF TableInv, InsertOK
<1>3. r \in Slots(cap) /\ r # -1 /\
      (Holds(entries[r], k) \/ (~Used(entries, r) /\ ~Has(entries, cap, k) /\ Reached(entries, cap, k, r)))
  BY <1>1, PlaceFinds
<1>4. /\ entries' = [entries EXCEPT ![r] = e] /\ insert' = Idle
      /\ size' = IF Used(entries, r) THEN size ELSE size + 1
  BY <1>3 DEF Place, Used
<1>5. e.state = "occupied" /\ e.key = k /\ e.value = v
  BY DEF Entry
<1> HIDE DEF r, e
<1>6. TableOK(entries', cap)
  <2>1. TableOK([entries EXCEPT ![r] = e], cap)
    BY <1>2, <1>3, <1>5, PutKeeps
  <2> QED BY <1>4, <2>1
<1>7. Content(entries') = With(Content(entries), k, v)
  <2>1. Content([entries EXCEPT ![r] = e]) =
          [x \in DOMAIN Content(entries) \cup {e.key} |-> IF x = e.key THEN e.value ELSE Content(entries)[x]]
    BY <1>2, <1>3, <1>5, ContentPut
  <2> HIDE DEF k, v
  <2> QED BY <1>4, <1>5, <2>1 DEF With
<1>8. insert'.phase = "idle" /\ InsertOK'
  BY <1>4 DEF Idle, InsertOK, Phases
<1>9. Stored = Content(entries) /\ Stored' = Content(entries')
  BY <1>1, <1>8 DEF Stored
<1>10. size' = Cardinality(DOMAIN Content(entries'))
  <2> DEFINE D == DOMAIN Content(entries)
  <2>1. DOMAIN Content(entries') = D \cup {k}
    BY <1>7 DEF With
  <2>2. IsFiniteSet(D) /\ size = Cardinality(D)
    BY <1>1, NowStored
  <2>3. k \in D <=> Has(entries, cap, k)
    BY <1>1, NowStored, ContentIs
  <2>4. CASE Used(entries, r)
    <3>1. k \in D
      BY <1>3, <2>3, <2>4 DEF Has
    <3>2. D \cup {k} = D
      BY <3>1
    <3> QED BY <1>4, <2>1, <2>2, <2>4, <3>2
  <2>5. CASE ~Used(entries, r)
    <3>1. k \notin D
      BY <1>3, <2>3, <2>5 DEF Holds, Used
    <3>2. Cardinality(D \cup {k}) = Cardinality(D) + 1
      BY <2>2, <3>1, FS_AddElement
    <3> QED BY <1>4, <2>1, <2>2, <2>5, <3>2
  <2> QED BY <2>4, <2>5
<1>11. TableInv'
  <2>1. TableOK(entries, cap)'
    BY <1>1, <1>6
  <2> QED BY <1>8, <1>9, <1>10, <2>1 DEF TableInv, SizeOK, RehashOK
<1>12. Stored' = With(Stored, k, v)
  BY <1>7, <1>9
<1> QED BY <1>2, <1>11, <1>12

\* liva_map_remove takes the key away if it is there.
LEMMA RemoveStep ==
  ASSUME TableInv, NEW k \in Key, Remove(k)
  PROVE  TableInv' /\ Stored' = Without(Stored, k)
<1>1. insert.phase = "idle" /\ UNCHANGED <<cap, insert, old, next>>
  BY DEF Remove, Quiet
<1>2. /\ TableOK(entries, cap) /\ Stored = Content(entries) /\ Stored' = Content(entries')
      /\ TableTypeOK(entries, cap) /\ KeysApart(entries, cap) /\ size \in Int
      /\ size = Cardinality(DOMAIN Content(entries)) /\ IsFiniteSet(DOMAIN Content(entries))
  BY <1>1, NowStored DEF TableInv, Stored
<1>3. InsertOK'
  BY <1>1 DEF TableInv, InsertOK
<1>4. CASE ~Has(entries, cap, k)
  <2>1. entries' = entries /\ size' = size
    BY <1>2, <1>4, LookupMisses DEF Remove
  <2>2. TableInv'
    BY <1>1, <2>1, TableKept
  <2>3. k \notin DOMAIN Content(entries)
    BY <1>2, <1>4, ContentIs
  <2>4. DOMAIN Content(entries) \ {k} = DOMAIN Content(entries)
    BY <2>3
  <2>5. Without(Content(entries), k) = Content(entries)
    BY <1>2, <2>4, ContentIs DEF Without
  <2> QED BY <1>2, <2>1, <2>2, <2>5
<1>5. CASE Has(entries, cap, k)
  <2>1. PICK s \in Slots(cap) : Holds(entries[s], k)
    BY <1>5 DEF Has
  <2>2. Lookup(k) = s
    BY <1>2, <2>1, LookupFinds
  <2>3. s # -1
    BY DEF Slots
  <2>4. entries' = [entries EXCEPT ![s] = Entry("tombstone", nil, nil)] /\ size' = size - 1
    BY <2>2, <2>3 DEF Remove
  <2>5. TableOK([entries EXCEPT ![s] = Entry("tombstone", nil, nil)], cap)
    BY <1>2, TombKeeps
  <2>6. Content([entries EXCEPT ![s] = Entry("tombstone", nil, nil)]) = Without(Content(entries), k)
    BY <1>2, <2>1, ContentRemoved DEF Without
  <2>7. Stored' = Without(Stored, k)
    BY <1>2, <2>4, <2>6
  <2>8. TableOK(entries, cap)'
    BY <1>1, <2>4, <2>5
  <2>9. size' = Cardinality(DOMAIN Content(entries'))
    <3> DEFINE D == DOMAIN Content(entries)
    <3>1. DOMAIN Content(entries') = D \ {k}
      BY <1>2, <2>7 DEF Without
    <3>2. k \in D
      BY <1>2, <1>5, ContentIs
    <3>3. Cardinality(D \ {k}) = Cardinality(D) - 1
      BY <1>2, <3>2, FS_RemoveElement
    <3> QED BY <1>2, <2>4, <3>1, <3>3
  <2> QED BY <1>1, <1>2, <1>3, <2>7, <2>8, <2>9 DEF TableInv, SizeOK, RehashOK
<1> QED BY <1>4, <1>5

\* liva_map_clear takes all away.
LEMMA ClearStep ==
  ASSUME TableInv, Clear
  PROVE  TableInv' /\ Stored' = <<>>
<1>1. insert.phase = "idle" /\ entries' = EmptyTable(cap) /\ size' = 0 /\ UNCHANGED <<cap, insert, old, next>>
  BY DEF Clear, Quiet
<1>2. cap \in Nat \ {0}
  BY <1>1, NowStored
<1>3. TableOK(entries', cap) /\ \A s \in Slots(cap) : ~Used(entries', s)
  BY <1>1, <1>2, EmptyIsOK
<1>4. Stored' = Content(entries')
  BY <1>1 DEF Stored
<1>5. Stored' = <<>> /\ Cardinality(DOMAIN Stored') = 0
  BY <1>3, <1>4, ContentEmpty DEF TableOK
<1>6. InsertOK' /\ SizeOK'
  BY <1>1, <1>5 DEF TableInv, InsertOK, SizeOK
<1>7. TableOK(entries, cap)'
  BY <1>1, <1>3
<1> QED BY <1>1, <1>5, <1>6, <1>7 DEF TableInv, RehashOK

\* The other steps leave the table alone.
Looks ==
  \/ Keys \/ StartLoop \/ LoopStep \/ LoopStray \/ EndLoop
  \/ \E k \in Key : Get(k) \/ Contains(k)

LEMMA TableKinds ==
  ASSUME [TableNext]_tableVars
  PROVE  \/ Grow \/ Rehash \/ RehashEnd \/ Place \/ Clear \/ Looks \/ UNCHANGED tableVars
         \/ \E k \in Key : Remove(k)
         \/ \E k \in Key, v \in Value : Insert(k, v)
BY DEF TableNext, Looks

LEMMA LooksKeep ==
  ASSUME Looks \/ UNCHANGED tableVars
  PROVE  UNCHANGED <<entries, cap, size, insert, old, next>>
BY DEF Looks, Keys, StartLoop, LoopStep, LoopStray, EndLoop, Get, Contains, tableVars

LEMMA TableStep == TableInv /\ [TableNext]_tableVars => TableInv'
BY TableKinds, LooksKeep, TableKept, InsertStep, GrowStep, RehashStep, RehashEndStep, PlaceStep, RemoveStep, ClearStep

\* The second growth of liva_map_insert never happens: a quarter of the slots is free.
THEOREM InsertFindsRoom ==
  TableSpec => [](insert.phase = "place" => FindSlot(entries, cap, insert.key) # -1)
<1>1. TableInit => TableInv
  BY TableInitInv
<1>2. TableInv /\ [TableNext]_tableVars => TableInv'
  BY TableStep
<1>3. TableInv => (insert.phase = "place" => FindSlot(entries, cap, insert.key) # -1)
  BY PlaceFinds
<1> QED BY <1>1, <1>2, <1>3, PTL DEF TableSpec

\* The size that count and len answer is the number of keys, in every state.
THEOREM SizeCounts == TableSpec => [](size = Cardinality(DOMAIN Stored))
<1>1. TableInit => TableInv
  BY TableInitInv
<1>2. TableInv /\ [TableNext]_tableVars => TableInv'
  BY TableStep
<1>3. TableInv => size = Cardinality(DOMAIN Stored)
  BY DEF TableInv, SizeOK
<1> QED BY <1>1, <1>2, <1>3, PTL DEF TableSpec
-----------------------------------------------------------------------------
(* The answers.                                                              *)

\* What get, contains and remove find.
LEMMA LookupIs ==
  ASSUME TableInv, insert.phase = "idle", NEW k \in Key
  PROVE  /\ k \in DOMAIN Stored => Lookup(k) # -1 /\ entries[Lookup(k)].value = Stored[k]
         /\ k \notin DOMAIN Stored => Lookup(k) = -1
<1>1. TableOK(entries, cap) /\ Stored = Content(entries) /\ TableTypeOK(entries, cap) /\ KeysApart(entries, cap)
  BY NowStored DEF TableInv
<1>2. CASE Has(entries, cap, k)
  <2>1. PICK s \in Slots(cap) : Holds(entries[s], k)
    BY <1>2 DEF Has
  <2>2. Lookup(k) = s /\ s # -1
    BY <1>1, <2>1, LookupFinds DEF Slots
  <2>3. Stored[k] = entries[s].value /\ k \in DOMAIN Stored
    BY <1>1, <1>2, <2>1, ContentIs DEF Holds, Used
  <2> QED BY <2>2, <2>3
<1>3. CASE ~Has(entries, cap, k)
  BY <1>1, <1>3, LookupMisses, ContentIs
<1> QED BY <1>2, <1>3

\* Of a key, whether it is there.
LEMMA LookupTells ==
  ASSUME TableInv, insert.phase = "idle", NEW k \in Key
  PROVE  (Lookup(k) # -1) = (k \in DOMAIN Stored)
<1>1. CASE k \in DOMAIN Stored
  BY <1>1, LookupIs
<1>2. CASE k \notin DOMAIN Stored
  BY <1>2, LookupIs
<1> QED BY <1>1, <1>2

LEMMA GetStep ==
  ASSUME TableInv, NEW k \in Key, Get(k)
  PROVE  Map!Get(k)
<1>1. insert.phase = "idle" /\ Stored' = Stored
  BY TableKept DEF Get, Quiet
<1>2. answer' = <<"get", IF Lookup(k) = -1 THEN nil ELSE entries[Lookup(k)].value>>
  BY DEF Get
<1>3. answer' = <<"get", IF k \in DOMAIN Stored THEN Stored[k] ELSE nil>>
  BY <1>1, <1>2, LookupIs
<1> QED BY <1>1, <1>3 DEF Map!Get

LEMMA ContainsStep ==
  ASSUME TableInv, NEW k \in Key, Contains(k)
  PROVE  Map!Contains(k)
<1>1. insert.phase = "idle" /\ Stored' = Stored
  BY TableKept DEF Contains, Quiet
<1>2. answer' = <<"contains", Lookup(k) # -1>>
  BY DEF Contains
<1>3. answer' = <<"contains", k \in DOMAIN Stored>>
  BY <1>1, <1>2, LookupTells
<1> QED BY <1>1, <1>3 DEF Map!Contains

LEMMA RemoveAnswers ==
  ASSUME TableInv, NEW k \in Key, Remove(k)
  PROVE  Map!Remove(k)
<1>1. insert.phase = "idle"
  BY DEF Remove, Quiet
<1>2. answer' = <<"remove", Lookup(k) # -1>>
  BY DEF Remove
<1>3. answer' = <<"remove", k \in DOMAIN Stored>>
  BY <1>1, <1>2, LookupTells
<1>4. Stored' = Without(Stored, k)
  BY RemoveStep
<1> QED BY <1>3, <1>4 DEF Map!Remove, Without

\* The cardinality of FiniteMap is the same operator.
LEMMA MapCardinality == \A S : Map!Cardinality(S) = Cardinality(S)
BY DEF Map!Cardinality, Cardinality

\* keys() lists each key once.
LEMMA KeysStep ==
  ASSUME TableInv, Keys
  PROVE  Map!Keys
<1> DEFINE U == UsedSlots(entries, cap)
           D == DOMAIN Stored
           n == Cardinality(U)
<1>1. insert.phase = "idle" /\ Stored' = Stored
  BY TableKept DEF Keys, Quiet
<1>2. Stored = Content(entries) /\ TableTypeOK(entries, cap) /\ KeysApart(entries, cap)
  BY <1>1, NowStored
<1>3. Occupied = U
  BY DEF Occupied, UsedSlots, Used, Slots
<1>4. PICK slot \in [1..n -> U] :
      /\ \A i, j \in DOMAIN slot : i < j => slot[i] < slot[j]
      /\ answer' = <<"keys", [i \in DOMAIN slot |-> entries[slot[i]].key]>>
  BY <1>3 DEF Keys
<1> DEFINE ks == [i \in 1..n |-> entries[slot[i]].key]
<1>5. n \in Nat /\ Cardinality(D) = n
  BY <1>2, ContentSize, FS_CardinalityType
<1>6. \A s \in U : entries[s].key \in D /\ s \in Int /\ s \in Slots(cap) /\ Used(entries, s)
  BY <1>2, ContentIs DEF UsedSlots, Has, Holds, Used, Slots
<1> HIDE DEF U, n, D
<1>7. ks \in [1..n -> D]
  BY <1>4, <1>6
<1>8. ASSUME NEW i \in 1..n, NEW j \in 1..n, i < j PROVE ks[i] # ks[j]
  <2>1. slot[i] \in U /\ slot[j] \in U /\ slot[i] < slot[j]
    BY <1>4, <1>8
  <2>2. slot[i] # slot[j]
    BY <1>6, <2>1
  <2>3. entries[slot[i]].key # entries[slot[j]].key
    BY <1>2, <1>6, <2>1, <2>2 DEF KeysApart
  <2> QED BY <2>3
<1>9. \A i, j \in 1..n : i # j => ks[i] # ks[j]
  <2> SUFFICES ASSUME NEW i \in 1..n, NEW j \in 1..n, i # j PROVE ks[i] # ks[j]
    OBVIOUS
  <2>1. i < j \/ j < i
    OBVIOUS
  <2> HIDE DEF ks
  <2> QED BY <1>8, <2>1
<1>10. answer' = <<"keys", ks>>
  BY <1>4
<1> HIDE DEF ks
<1>11. ks \in Map!Injection(1..Cardinality(D), D)
  BY <1>5, <1>7, <1>9 DEF Map!Injection, Map!IsInjective
<1>12. \E s \in Map!Injection(1..Cardinality(DOMAIN Stored), DOMAIN Stored) : answer' = <<"keys", s>>
  BY <1>10, <1>11 DEF D
<1> QED BY <1>1, <1>12, MapCardinality DEF Map!Keys

\* Each step is one of the map's or a stutter.
LEMMA MapStep == TableInv /\ [TableNext]_tableVars => [Map!Next]_<<Stored, answer>>
<1> SUFFICES ASSUME TableInv, [TableNext]_tableVars PROVE [Map!Next]_<<Stored, answer>>
  OBVIOUS
<1>1. CASE Grow \/ Rehash \/ RehashEnd
  <2>1. Stored' = Stored
    BY <1>1, GrowStep, RehashStep, RehashEndStep
  <2>2. answer' = <<"none">>
    BY <1>1 DEF Grow, Rehash, RehashEnd, None
  <2> QED BY <2>1, <2>2 DEF Map!Next, Map!Other
<1>2. CASE \E k \in Key, v \in Value : Insert(k, v)
  <2>1. Stored' = Stored
    BY <1>2, InsertStep
  <2>2. answer' = <<"none">>
    BY <1>2 DEF Insert, None
  <2> QED BY <2>1, <2>2 DEF Map!Next, Map!Other
<1>3. CASE Place
  <2>1. Stored' = With(Stored, insert.key, insert.value) /\ insert.key \in Key /\ insert.value \in Value
    BY <1>3, PlaceStep
  <2>2. answer' = <<"none">>
    BY <1>3 DEF Place, None
  <2>3. Map!Insert(insert.key, insert.value)
    BY <2>1, <2>2 DEF Map!Insert, With
  <2> QED BY <2>1, <2>3 DEF Map!Next
<1>4. CASE Clear
  <2>1. Map!Clear
    BY <1>4, ClearStep DEF Clear, None, Map!Clear
  <2> QED BY <2>1 DEF Map!Next
<1>5. CASE \E k \in Key : Remove(k)
  BY <1>5, RemoveAnswers DEF Map!Next
<1>6. CASE Keys
  BY <1>6, KeysStep DEF Map!Next
<1>7. CASE \E k \in Key : Get(k) \/ Contains(k)
  BY <1>7, GetStep, ContainsStep DEF Map!Next
<1>8. CASE StartLoop \/ LoopStep \/ LoopStray \/ EndLoop
  <2>1. Stored' = Stored
    BY <1>8, TableKept DEF StartLoop, LoopStep, LoopStray, EndLoop
  <2>2. answer' = <<"none">>
    BY <1>8 DEF StartLoop, LoopStep, LoopStray, EndLoop, None
  <2> QED BY <2>1, <2>2 DEF Map!Next, Map!Other
<1>9. CASE UNCHANGED tableVars
  <2>1. Stored' = Stored /\ answer' = answer
    BY <1>9, TableKept DEF tableVars
  <2> QED BY <2>1
<1> QED BY <1>1, <1>2, <1>3, <1>4, <1>5, <1>6, <1>7, <1>8, <1>9, TableKinds DEF Looks

\* Whatever the keys hash to, and however it has grown, the table implements a finite map.
THEOREM TableImplementsMap == TableSpec => TableIsMap
<1>1. TableInit => TableInv /\ Map!Init
  BY TableInitInv DEF TableInit, None, Map!Init
<1>2. TableInv /\ [TableNext]_tableVars => TableInv'
  BY TableStep
<1>3. TableInv /\ [TableNext]_tableVars => [Map!Next]_<<Stored, answer>>
  BY MapStep
<1> QED BY <1>1, <1>2, <1>3, PTL DEF TableSpec, TableIsMap, Map!Spec

-----------------------------------------------------------------------------
(* The for-in loop.                                                          *)

\* A key that has stayed has stayed in its slot, and was visited if the loop is past it.
LoopInv ==
  /\ insert.phase = "rehash" => ~loop.on \/ loop.freed
  /\ loop = [on |-> loop.on, idx |-> loop.idx, cap |-> loop.cap, freed |-> loop.freed,
             seen |-> loop.seen, twice |-> loop.twice, steady |-> loop.steady]
  /\ loop.idx \in 0..loop.cap /\ loop.cap \in Nat
  /\ loop.on /\ ~loop.freed =>
       /\ loop.cap = cap /\ loop.steady \cap loop.twice = {}
       /\ \A k \in loop.steady : \E s \in Slots(cap) :
            Used(entries, s) /\ entries[s].key = k /\ (k \in loop.seen <=> s < loop.idx)

\* A step that keeps the entries of the keys that stay keeps what the loop knows.
LEMMA LoopKept ==
  ASSUME LoopInv, cap' = cap, insert'.phase # "rehash",
         NEW gone, loop' = [loop EXCEPT !.steady = @ \ gone],
         \A s \in Slots(cap) : Used(entries, s) /\ entries[s].key \notin gone =>
            Used(entries', s) /\ entries'[s].key = entries[s].key
  PROVE  LoopInv'
<1>1. /\ loop'.steady = loop.steady \ gone /\ loop'.on = loop.on /\ loop'.freed = loop.freed
      /\ loop'.idx = loop.idx /\ loop'.cap = loop.cap /\ loop'.seen = loop.seen /\ loop'.twice = loop.twice
      /\ loop' = [on |-> loop'.on, idx |-> loop'.idx, cap |-> loop'.cap, freed |-> loop'.freed,
                  seen |-> loop'.seen, twice |-> loop'.twice, steady |-> loop'.steady]
  BY DEF LoopInv
<1>2. ASSUME loop.on /\ ~loop.freed, NEW k \in loop'.steady
      PROVE  \E s \in Slots(cap) : Used(entries', s) /\ entries'[s].key = k /\ (k \in loop'.seen <=> s < loop'.idx)
  <2>1. k \in loop.steady /\ k \notin gone
    BY <1>1, <1>2
  <2>2. PICK s \in Slots(cap) : Used(entries, s) /\ entries[s].key = k /\ (k \in loop.seen <=> s < loop.idx)
    BY <1>2, <2>1 DEF LoopInv
  <2>3. Used(entries', s) /\ entries'[s].key = k
    BY <2>1, <2>2
  <2> QED BY <1>1, <2>2, <2>3
<1> QED BY <1>1, <1>2 DEF LoopInv

LEMMA LoopInitInv == TableInit => LoopInv
BY DEF TableInit, LoopInv, NoLoop, Idle

\* An iteration visits one slot.
LEMMA LoopStepInv ==
  ASSUME TableInv, LoopInv, LoopStep
  PROVE  LoopInv'
<1> DEFINE e == entries[loop.idx]
<1>1. /\ insert.phase = "idle" /\ loop.on /\ ~loop.freed /\ loop.idx < loop.cap
      /\ UNCHANGED <<entries, cap, insert>>
  BY DEF LoopStep, Quiet
<1>2. /\ loop'.steady = loop.steady /\ loop'.on = loop.on /\ loop'.freed = loop.freed
      /\ loop'.idx = loop.idx + 1 /\ loop'.cap = loop.cap
      /\ loop'.seen = IF Used(entries, loop.idx) THEN loop.seen \cup {e.key} ELSE loop.seen
      /\ loop'.twice = IF Used(entries, loop.idx) THEN loop.twice \cup (loop.seen \cap {e.key}) ELSE loop.twice
      /\ loop' = [on |-> loop'.on, idx |-> loop'.idx, cap |-> loop'.cap, freed |-> loop'.freed,
                  seen |-> loop'.seen, twice |-> loop'.twice, steady |-> loop'.steady]
  BY DEF LoopStep, LoopInv, Used
<1>3. /\ loop.cap = cap /\ loop.idx \in Slots(cap) /\ loop.idx \in Nat /\ KeysApart(entries, cap)
      /\ loop'.idx \in 0..loop'.cap /\ loop.steady \cap loop.twice = {}
  BY <1>1, <1>2, NowStored DEF LoopInv, Slots
<1>4. ASSUME NEW k \in loop.steady
      PROVE  \E s \in Slots(cap) : Used(entries, s) /\ entries[s].key = k /\ (k \in loop'.seen <=> s < loop'.idx) /\
                                   k \notin loop'.twice
  <2>1. PICK s \in Slots(cap) : Used(entries, s) /\ entries[s].key = k /\ (k \in loop.seen <=> s < loop.idx)
    BY <1>1 DEF LoopInv
  <2>2. s \in Nat /\ k \notin loop.twice
    BY <1>3 DEF Slots
  <2>3. CASE s = loop.idx
    <3>1. k \notin loop.seen
      BY <1>3, <2>1, <2>3
    <3>2. k \in loop'.seen /\ s < loop'.idx /\ k \notin loop'.twice
      BY <1>2, <1>3, <2>1, <2>2, <2>3, <3>1
    <3> QED BY <2>1, <3>2
  <2>4. CASE s # loop.idx
    <3>1. ~(Used(entries, loop.idx) /\ e.key = k)
      BY <1>3, <2>1, <2>4 DEF KeysApart
    <3>2. (k \in loop'.seen <=> k \in loop.seen) /\ k \notin loop'.twice
      BY <1>2, <2>2, <3>1
    <3>3. s < loop'.idx <=> s < loop.idx
      BY <1>2, <1>3, <2>2, <2>4
    <3> QED BY <2>1, <3>2, <3>3
  <2> QED BY <2>3, <2>4
<1>5. loop'.steady \cap loop'.twice = {}
  BY <1>2, <1>4
<1> QED BY <1>1, <1>2, <1>3, <1>4, <1>5 DEF LoopInv

\* A loop begins with every key ahead of it.
LEMMA StartLoopInv ==
  ASSUME TableInv, LoopInv, StartLoop
  PROVE  LoopInv'
<1>1. /\ insert.phase = "idle" /\ UNCHANGED <<entries, cap, insert>>
      /\ loop' = [NoLoop EXCEPT !.on = TRUE, !.cap = cap, !.steady = {entries[s].key : s \in Occupied}]
  BY DEF StartLoop, Quiet
<1>2. /\ loop'.on /\ ~loop'.freed /\ loop'.idx = 0 /\ loop'.cap = cap
      /\ loop'.seen = {} /\ loop'.twice = {} /\ loop'.steady = {entries[s].key : s \in Occupied}
      /\ loop' = [on |-> loop'.on, idx |-> loop'.idx, cap |-> loop'.cap, freed |-> loop'.freed,
                  seen |-> loop'.seen, twice |-> loop'.twice, steady |-> loop'.steady]
  BY <1>1 DEF NoLoop
<1>3. cap \in Nat
  BY <1>1, NowStored
<1>4. \A k \in loop'.steady : \E s \in Slots(cap) : Used(entries, s) /\ entries[s].key = k /\ ~(s < 0)
  BY <1>2 DEF Occupied, Used, Slots
<1> QED BY <1>1, <1>2, <1>3, <1>4 DEF LoopInv

LEMMA LoopStepsInv == TableInv /\ LoopInv /\ [TableNext]_tableVars => LoopInv'
<1> SUFFICES ASSUME TableInv, LoopInv, [TableNext]_tableVars PROVE LoopInv'
  OBVIOUS
<1>1. CASE Grow
  <2>1. /\ loop'.freed = loop.on /\ loop'.on = loop.on /\ loop'.idx = loop.idx /\ loop'.cap = loop.cap
        /\ loop' = [on |-> loop'.on, idx |-> loop'.idx, cap |-> loop'.cap, freed |-> loop'.freed,
                    seen |-> loop'.seen, twice |-> loop'.twice, steady |-> loop'.steady]
    BY <1>1 DEF Grow, LoopInv
  <2> QED BY <2>1 DEF LoopInv
<1>2. CASE Rehash
  <2>1. loop' = loop /\ insert' = insert /\ insert.phase = "rehash"
    BY <1>2 DEF Rehash
  <2> QED BY <2>1 DEF LoopInv
<1>3. CASE RehashEnd
  <2>1. loop' = loop /\ insert.phase = "rehash" /\ insert'.phase = "place"
    BY <1>3 DEF RehashEnd, TableInv, InsertOK
  <2> QED BY <2>1 DEF LoopInv
<1>4. CASE \E k \in Key, v \in Value : Insert(k, v)
  <2>1. UNCHANGED <<entries, cap, loop>> /\ insert'.phase # "rehash"
    BY <1>4 DEF Insert
  <2> QED BY <2>1 DEF LoopInv
<1>5. CASE Place
  <2> DEFINE r == FindSlot(entries, cap, insert.key)
             e == Entry("occupied", insert.key, insert.value)
  <2>1. insert.phase = "place" /\ UNCHANGED <<cap, loop>>
    BY <1>5 DEF Place
  <2>2. r # -1 /\ r \in Slots(cap) /\ (Holds(entries[r], insert.key) \/ ~Used(entries, r))
    BY <2>1, PlaceFinds
  <2>3. entries' = [entries EXCEPT ![r] = e] /\ insert' = Idle
    BY <1>5, <2>2 DEF Place
  <2>4. \A s \in Slots(cap) : entries'[s] = IF s = r THEN e ELSE entries[s]
    BY <2>1, <2>3, NowStored DEF TableTypeOK
  <2>5. e.state = "occupied" /\ e.key = insert.key
    BY DEF Entry
  <2> HIDE DEF r, e
  <2>6. \A s \in Slots(cap) : Used(entries, s) => Used(entries', s) /\ entries'[s].key = entries[s].key
    BY <2>2, <2>4, <2>5 DEF Used, Holds
  <2>7. loop' = [loop EXCEPT !.steady = @ \ {}]
    <3>1. loop.steady \ {} = loop.steady
      OBVIOUS
    <3> QED BY <2>1, <3>1 DEF LoopInv
  <2>8. insert'.phase # "rehash"
    BY <2>3 DEF Idle
  <2> QED BY <2>1, <2>6, <2>7, <2>8, LoopKept
<1>6. CASE \E k \in Key : Remove(k)
  <2>1. PICK k \in Key : Remove(k)
    BY <1>6
  <2>2. /\ insert.phase = "idle" /\ UNCHANGED <<cap, insert>> /\ TableOK(entries, cap)
        /\ loop' = [loop EXCEPT !.steady = @ \ {k}]
    BY <2>1 DEF Remove, Quiet, TableInv
  <2>3. \A s \in Slots(cap) : Used(entries, s) /\ entries[s].key # k => entries'[s] = entries[s]
    <3>1. CASE Lookup(k) = -1
      BY <2>1, <3>1 DEF Remove
    <3>2. CASE Lookup(k) # -1
      <4>1. PICK s \in Slots(cap) : Holds(entries[s], k) /\ Lookup(k) = s
        BY <2>2, <3>2, LookupMisses, LookupFinds DEF Has
      <4>2. entries' = [entries EXCEPT ![s] = Entry("tombstone", nil, nil)]
        BY <2>1, <3>2, <4>1 DEF Remove
      <4>3. \A x \in Slots(cap) : x # s => entries'[x] = entries[x]
        BY <4>2
      <4> QED BY <4>1, <4>3 DEF Holds
    <3> QED BY <3>1, <3>2
  <2>4. \A s \in Slots(cap) : Used(entries, s) /\ entries[s].key \notin {k} =>
           Used(entries', s) /\ entries'[s].key = entries[s].key
    BY <2>3 DEF Used
  <2>5. insert'.phase # "rehash"
    BY <2>2
  <2> QED BY <2>2, <2>4, <2>5, LoopKept
<1>7. CASE Clear
  <2>1. /\ UNCHANGED <<cap, insert>> /\ loop'.steady = {} /\ loop'.on = loop.on /\ loop'.freed = loop.freed
        /\ loop'.idx = loop.idx /\ loop'.cap = loop.cap /\ loop'.seen = loop.seen /\ loop'.twice = loop.twice
        /\ loop' = [on |-> loop'.on, idx |-> loop'.idx, cap |-> loop'.cap, freed |-> loop'.freed,
                    seen |-> loop'.seen, twice |-> loop'.twice, steady |-> loop'.steady]
    BY <1>7 DEF Clear, LoopInv
  <2> QED BY <2>1 DEF LoopInv
<1>8. CASE LoopStray \/ EndLoop
  <2>1. insert.phase = "idle" /\ insert' = insert /\ loop' = [NoLoop EXCEPT !.freed = loop'.freed]
    BY <1>8 DEF LoopStray, EndLoop, Quiet, NoLoop
  <2>2. ~loop'.on /\ loop'.idx = 0 /\ loop'.cap = 0 /\
        loop' = [on |-> loop'.on, idx |-> loop'.idx, cap |-> loop'.cap, freed |-> loop'.freed,
                 seen |-> loop'.seen, twice |-> loop'.twice, steady |-> loop'.steady]
    BY <2>1 DEF NoLoop
  <2> QED BY <2>1, <2>2 DEF LoopInv
<1>9. CASE Keys \/ (\E k \in Key : Get(k) \/ Contains(k)) \/ UNCHANGED tableVars
  <2>1. UNCHANGED <<entries, cap, insert, loop>>
    BY <1>9 DEF Keys, Get, Contains, tableVars
  <2> QED BY <2>1 DEF LoopInv
<1> QED BY <1>1, <1>2, <1>3, <1>4, <1>5, <1>6, <1>7, <1>8, <1>9, TableKinds, StartLoopInv, LoopStepInv DEF Looks

\* In a table of any size a loop whose table does not grow visits each key that stays once.
THEOREM LoopsVisitOnce == TableSpec => []LoopVisitsOnce
<1>1. TableInit => TableInv /\ LoopInv
  BY TableInitInv, LoopInitInv
<1>2. TableInv /\ LoopInv /\ [TableNext]_tableVars => TableInv' /\ LoopInv'
  BY TableStep, LoopStepsInv
<1>3. TableInv /\ LoopInv => LoopVisitsOnce
  <2> SUFFICES ASSUME TableInv, LoopInv, loop.on, ~loop.freed
               PROVE  /\ loop.steady \cap loop.twice = {}
                      /\ loop.idx = loop.cap => loop.steady \subseteq loop.seen
    BY DEF LoopVisitsOnce
  <2>1. cap \in Nat /\ loop.cap = cap /\ loop.steady \cap loop.twice = {}
    BY DEF TableInv, TableOK, TableTypeOK, LoopInv
  <2>2. \A s \in Slots(cap) : s < cap
    BY <2>1 DEF Slots
  <2>3. loop.idx = loop.cap => \A k \in loop.steady : k \in loop.seen
    BY <2>1, <2>2 DEF LoopInv
  <2> QED BY <2>1, <2>3
<1> QED BY <1>1, <1>2, <1>3, PTL DEF TableSpec

-----------------------------------------------------------------------------
(* The worker pool.                                                          *)

Places == {"none", "loop", "look", "predicate", "block", "waiting", "returned"}

\* The fields of the pool, and where its threads and the caller may be.
PoolTypeOK ==
  /\ scheduler_running \in BOOLEAN /\ allocated \in BOOLEAN
  /\ running \in [WorkerIds -> BOOLEAN] /\ wpc \in [WorkerIds -> Places]
  /\ caller \in {"idle", "starting", "stopping", "notifying", "joining"}
  /\ pending \subseteq WorkerIds /\ inits \in Nat

\* The array exists from init to the end of shutdown; scheduler_running is set while
\* init is at work and clear while shutdown is.
ArrayHeld ==
  /\ allocated <=> (caller # "idle" \/ scheduler_running)
  /\ caller = "starting" => scheduler_running
  /\ caller \in {"stopping", "notifying", "joining"} => ~scheduler_running

\* A thread exists only between its start and its join.
ThreadsHeld ==
  /\ ~allocated => \A w \in WorkerIds : wpc[w] = "none"
  /\ caller = "starting" => \A w \in pending : wpc[w] = "none"
  /\ caller = "joining" => \A w \in WorkerIds \ pending : wpc[w] = "none"

\* Who shutdown is done with has been told to stop, and nobody tells it to go on.
StopsHeld ==
  /\ caller \in {"stopping", "notifying"} => \A w \in WorkerIds \ pending : ~running[w]
  /\ caller = "notifying" => (First(pending) \in WorkerIds => ~running[First(pending)])
  /\ caller = "joining" => \A w \in WorkerIds : ~running[w]

PoolInv == PoolTypeOK /\ ArrayHeld /\ ThreadsHeld /\ StopsHeld

-----------------------------------------------------------------------------
LEMMA PoolInitInv == PInit => PoolInv
<1> SUFFICES ASSUME PInit PROVE PoolInv
  OBVIOUS
<1>1. PoolTypeOK /\ StopsHeld
  BY DEF PInit, PoolTypeOK, Places, StopsHeld
<1>2. ArrayHeld
  <2>1. ~scheduler_running /\ ~allocated
    BY DEF PInit
  <2> QED BY <2>1 DEF PInit, ArrayHeld
<1>3. ThreadsHeld
  BY DEF PInit, ThreadsHeld
<1> QED BY <1>1, <1>2, <1>3 DEF PoolInv

\* A step of a thread moves that thread alone, and only one that exists.
LEMMA WorkerStep ==
  ASSUME PoolInv, NEW w \in WorkerIds, Worker(w)
  PROVE  /\ wpc' \in [WorkerIds -> Places]
         /\ \A v \in WorkerIds : wpc[v] = "none" <=> wpc'[v] = "none"
         /\ UNCHANGED <<scheduler_running, allocated, running, caller, pending, inits>>
BY DEF PoolInv, PoolTypeOK, Places, Worker, LoopTest, Look, Predicate, Block, Wake, WStep

LEMMA PoolStepInv == PoolInv /\ [PNext]_pvars => PoolInv'
<1> SUFFICES ASSUME PoolInv, [PNext]_pvars PROVE PoolInv'
  OBVIOUS
<1> USE DEF PoolInv, PoolTypeOK, ArrayHeld, ThreadsHeld, StopsHeld
<1>1. CASE InitCall
  BY <1>1 DEF InitCall
<1>2. CASE ShutdownCall
  BY <1>2 DEF ShutdownCall
<1>3. CASE StartWorker
  <2>1. CASE pending = {}
    BY <1>3, <2>1 DEF StartWorker
  <2>2. CASE pending # {}
    BY ZenonT(90), <1>3, <2>2 DEF StartWorker, Places
  <2> QED BY <2>1, <2>2
<1>4. CASE StopWorker
  BY <1>4 DEF StopWorker
<1>5. CASE NotifyWorker
  BY <1>5 DEF NotifyWorker, Places
<1>6. CASE Join
  BY <1>6 DEF Join, Places
<1>7. CASE DeleteWorkers
  BY <1>7 DEF DeleteWorkers
<1>8. CASE NoMorePools
  BY <1>8 DEF NoMorePools, pvars
<1>9. CASE \E w \in WorkerIds : Worker(w)
  BY <1>9, WorkerStep
<1>10. CASE UNCHANGED pvars
  BY <1>10 DEF pvars
<1> QED
  BY <1>1, <1>2, <1>3, <1>4, <1>5, <1>6, <1>7, <1>8, <1>9, <1>10 DEF PNext, Caller

-----------------------------------------------------------------------------
\* The invariant of the pool: the array, the threads and the stop flags are in step
\* with the loops of liva_scheduler_init and liva_scheduler_shutdown.
THEOREM PoolInvariant == PoolSpec => []PoolInv
BY PoolInitInv, PoolStepInv, PTL DEF PoolSpec

\* No worker thread reads the array workers_ after liva_scheduler_shutdown deleted it.
THEOREM WorkersEndBeforeDelete == PoolSpec => []NoWorkerAfterDelete
<1>1. PoolInv => NoWorkerAfterDelete
  BY DEF PoolInv, ThreadsHeld, NoWorkerAfterDelete
<1> QED BY <1>1, PoolInvariant, PTL

\* liva_scheduler_init never starts a thread in the place of one that still runs (the
\* assignment to workers_[i].thread would end the program), and when shutdown comes to
\* the joins no worker is left that has not been told to stop.
StartsAndJoinsClean ==
  /\ caller = "starting" => \A w \in pending : wpc[w] = "none"
  /\ caller = "joining" => \A w \in WorkerIds : ~running[w]

\* Both hold of every pool the program starts, whatever the threads do meanwhile.
THEOREM PoolStartsAndJoins == PoolSpec => []StartsAndJoinsClean
<1>1. PoolInv => StartsAndJoinsClean
  BY DEF PoolInv, ThreadsHeld, StopsHeld, StartsAndJoinsClean
<1> QED BY <1>1, PoolInvariant, PTL
=============================================================================
