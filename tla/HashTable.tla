----------------------------- MODULE HashTable -----------------------------
(***************************************************************************)
(* The open-addressing table behind Map and Set (liva_map_* of runtime.cpp)  *)
(* and the for-in loop the compiler emits over it: linear probing, one       *)
(* tombstone per removed entry, twice the slots at three quarters full.      *)
(***************************************************************************)
EXTENDS Integers, Sequences, FiniteSets

CONSTANTS
  Key, Value, nil,
  hash,        \* compute_hash: the FNV-1a value of every key
  FirstSlots,  \* the capacity IRGen passes to liva_map_new (16)
  MaxSlots     \* bound: no insertion grows the table beyond it

ASSUME TableAssumption ==
  /\ nil \notin Key \cup Value /\ hash \in [Key -> Nat]
  /\ FirstSlots \in Nat \ {0} /\ FirstSlots % 4 = 0 /\ MaxSlots \in Nat

VARIABLES
  entries, cap, size,  \* the three fields of the map
  insert,              \* the liva_map_insert under way: phase, key and value
  old, next,           \* map_rehash: the old entries, the index of its loop
  answer,              \* what the last step answered, and to which operation
  loop                 \* a for-in loop over the table

tableVars == <<entries, cap, size, insert, old, next, answer, loop>>

Idle == [phase |-> "idle", key |-> nil, value |-> nil]
None == <<"none">>
NoLoop == [on |-> FALSE, idx |-> 0, cap |-> 0, freed |-> FALSE,
           seen |-> {}, twice |-> {}, steady |-> {}]

Entry(s, k, v) == [state |-> s, key |-> k, value |-> v]
EmptyEntry == Entry("empty", nil, nil)

\* calloc of c entries
EmptyTable(c) == [s \in 0..(c - 1) |-> EmptyEntry]

Occupied == {s \in 0..(cap - 1) : entries[s].state = "occupied"}

TableInit ==
  /\ cap = FirstSlots /\ entries = EmptyTable(FirstSlots) /\ size = 0
  /\ insert = Idle /\ old = <<>> /\ next = 0
  /\ answer = None /\ loop = NoLoop

Holds(e, k) == e.state = "occupied" /\ e.key = k
FirstIndex(S) == CHOOSE i \in S : \A j \in S : i <= j

\* The steps at which a probe for k stops: at the key or at an empty slot.
Stops(t, c, k) ==
  {i \in 0..(c - 1) : LET e == t[(hash[k] + i) % c] IN Holds(e, k) \/ e.state = "empty"}

\* Mutant: takes the first slot that is free, wherever the key may be.
FirstFree(t, c, k) ==
  LET free == {i \in 0..(c - 1) : LET e == t[(hash[k] + i) % c]
                                  IN e.state # "occupied" \/ Holds(e, k)}
  IN  IF free = {} THEN -1 ELSE (hash[k] + FirstIndex(free)) % c

\* find_slot: the slot of the key, or the first tombstone or empty slot.
FindSlot(t, c, k) ==
  LET stops == Stops(t, c, k)
      last == IF stops = {} THEN c ELSE FirstIndex(stops)
      found == last < c /\ Holds(t[(hash[k] + last) % c], k)
      tombs == {i \in 0..(last - 1) : t[(hash[k] + i) % c].state = "tombstone"}
  IN  IF found THEN (hash[k] + last) % c
      ELSE IF tombs # {} THEN (hash[k] + FirstIndex(tombs)) % c
      ELSE IF last < c THEN (hash[k] + last) % c ELSE -1

\* The probe of get, remove and contains: the slot of the key, or -1.
Lookup(k) ==
  LET stops == Stops(entries, cap, k)
      slot == (hash[k] + FirstIndex(stops)) % cap
  IN  IF stops # {} /\ Holds(entries[slot], k) THEN slot ELSE -1

-----------------------------------------------------------------------------
Quiet == insert.phase = "idle"

\* liva_map_insert, up to the load test.
Insert(k, v) ==
  /\ Quiet
  /\ size * 4 >= cap * 3 => 2 * cap <= MaxSlots
  /\ insert' = [phase |-> IF size * 4 >= cap * 3 THEN "grow" ELSE "place",
                key |-> k, value |-> v]
  /\ answer' = None
  /\ UNCHANGED <<entries, cap, size, old, next, loop>>

\* map_rehash, up to its loop: it leaves the caller with an empty table until
\* the loop below has filled it.  The compiled loop keeps the old one.
Grow ==
  /\ insert.phase = "grow"
  /\ old' = entries /\ next' = 0
  /\ cap' = 2 * cap /\ entries' = EmptyTable(2 * cap)
  /\ insert' = [insert EXCEPT !.phase = "rehash"]
  /\ loop' = [loop EXCEPT !.freed = loop.on]
  /\ answer' = None
  /\ UNCHANGED <<size>>

\* One turn of the loop of map_rehash: only live entries move.
Rehash ==
  /\ insert.phase = "rehash" /\ next \in DOMAIN old
  /\ entries' = IF old[next].state = "occupied"
                THEN [entries EXCEPT ![FindSlot(entries, cap, old[next].key)] = old[next]]
                ELSE entries
  /\ next' = next + 1
  /\ answer' = None
  /\ UNCHANGED <<cap, size, insert, old, loop>>

RehashEnd ==
  /\ insert.phase = "rehash" /\ next \notin DOMAIN old
  /\ old' = <<>> /\ next' = 0 /\ insert' = [insert EXCEPT !.phase = "place"]
  /\ answer' = None
  /\ UNCHANGED <<entries, cap, size, loop>>

\* The rest of liva_map_insert, which grows once more if it finds no slot.
Place ==
  /\ insert.phase = "place"
  /\ LET slot == FindSlot(entries, cap, insert.key) IN
     IF slot = -1
     THEN insert' = [insert EXCEPT !.phase = "grow"] /\ UNCHANGED <<entries, size>>
     ELSE /\ entries' = [entries EXCEPT ![slot] =
                           Entry("occupied", insert.key, insert.value)]
          /\ size' = IF entries[slot].state = "occupied" THEN size ELSE size + 1
          /\ insert' = Idle
  /\ answer' = None
  /\ UNCHANGED <<cap, old, next, loop>>

\* liva_map_get, wrapped in the Optional that IRGen builds
Get(k) ==
  /\ Quiet
  /\ answer' = <<"get", IF Lookup(k) = -1 THEN nil ELSE entries[Lookup(k)].value>>
  /\ UNCHANGED <<entries, cap, size, insert, old, next, loop>>

Contains(k) ==
  /\ Quiet
  /\ answer' = <<"contains", Lookup(k) # -1>>
  /\ UNCHANGED <<entries, cap, size, insert, old, next, loop>>

\* Mutant: empties the slot.
RemoveToEmpty(k) ==
  /\ Quiet
  /\ answer' = <<"remove", Lookup(k) # -1>>
  /\ IF Lookup(k) = -1 THEN UNCHANGED <<entries, size>>
     ELSE entries' = [entries EXCEPT ![Lookup(k)] = EmptyEntry] /\ size' = size - 1
  /\ loop' = [loop EXCEPT !.steady = @ \ {k}]
  /\ UNCHANGED <<cap, insert, old, next>>

\* liva_map_remove: the slot becomes a tombstone and the size goes down.
Remove(k) ==
  /\ Quiet
  /\ answer' = <<"remove", Lookup(k) # -1>>
  /\ IF Lookup(k) = -1 THEN UNCHANGED <<entries, size>>
     ELSE /\ entries' = [entries EXCEPT ![Lookup(k)] = Entry("tombstone", nil, nil)]
          /\ size' = size - 1
  /\ loop' = [loop EXCEPT !.steady = @ \ {k}]
  /\ UNCHANGED <<cap, insert, old, next>>

\* liva_map_clear: the capacity stays.
Clear ==
  /\ Quiet
  /\ entries' = EmptyTable(cap) /\ size' = 0
  /\ loop' = [loop EXCEPT !.steady = {}]
  /\ answer' = None
  /\ UNCHANGED <<cap, insert, old, next>>

\* keys(): the array of the keys of the occupied entries, slot by slot.
Keys ==
  /\ Quiet
  /\ \E slot \in [1..Cardinality(Occupied) -> Occupied] :
       /\ \A i, j \in DOMAIN slot : i < j => slot[i] < slot[j]
       /\ answer' = <<"keys", [i \in DOMAIN slot |-> entries[slot[i]].key]>>
  /\ UNCHANGED <<entries, cap, size, insert, old, next, loop>>
-----------------------------------------------------------------------------
\* The head of a for-in loop: it reads the pointer and the capacity once.
StartLoop ==
  /\ Quiet /\ ~loop.on
  /\ loop' = [NoLoop EXCEPT !.on = TRUE, !.cap = cap,
                            !.steady = {entries[s].key : s \in Occupied}]
  /\ answer' = None
  /\ UNCHANGED <<entries, cap, size, insert, old, next>>

\* Mutant: counts to the number of entries.
LoopStepToSize ==
  /\ Quiet /\ loop.on /\ ~loop.freed /\ loop.idx < loop.cap
  /\ LET e == entries[loop.idx] IN
     loop' = [loop EXCEPT
       !.idx = IF Cardinality(loop.seen) = size THEN loop.cap ELSE @ + 1,
       !.seen = IF e.state = "occupied" THEN @ \cup {e.key} ELSE @,
       !.twice = IF e.state = "occupied" THEN @ \cup (loop.seen \cap {e.key}) ELSE @]
  /\ answer' = None
  /\ UNCHANGED <<entries, cap, size, insert, old, next>>

\* for.cond to for.latch, the body aside: the body is any operation above.
LoopStep ==
  /\ Quiet /\ loop.on /\ ~loop.freed /\ loop.idx < loop.cap
  /\ LET e == entries[loop.idx] IN
     loop' = [loop EXCEPT
       !.idx = @ + 1,
       !.seen = IF e.state = "occupied" THEN @ \cup {e.key} ELSE @,
       !.twice = IF e.state = "occupied" THEN @ \cup (loop.seen \cap {e.key}) ELSE @]
  /\ answer' = None
  /\ UNCHANGED <<entries, cap, size, insert, old, next>>

\* The same step after an insertion of the body has freed the entries: from
\* here on the loop has no meaning, and the model ends it.
LoopStray ==
  /\ Quiet /\ loop.on /\ loop.freed /\ loop.idx < loop.cap
  /\ loop' = [NoLoop EXCEPT !.freed = TRUE]
  /\ answer' = None
  /\ UNCHANGED <<entries, cap, size, insert, old, next>>

\* for.exit
EndLoop ==
  /\ Quiet /\ loop.on /\ loop.idx = loop.cap
  /\ loop' = NoLoop
  /\ answer' = None
  /\ UNCHANGED <<entries, cap, size, insert, old, next>>

TableNext ==
  \/ Grow \/ Rehash \/ RehashEnd \/ Place
  \/ Clear \/ Keys \/ StartLoop \/ LoopStep \/ LoopStray \/ EndLoop
  \/ \E k \in Key : Get(k) \/ Contains(k) \/ Remove(k) \/ \E v \in Value : Insert(k, v)

TableSpec == TableInit /\ [][TableNext]_tableVars
-----------------------------------------------------------------------------
\* Of the keys that stay in the map while a for-in loop runs over it, the loop
\* visits none twice and, at its end, has visited all, whatever else its body
\* inserts or removes, as long as the table does not grow.
LoopVisitsOnce ==
  loop.on /\ ~loop.freed =>
    /\ loop.steady \cap loop.twice = {}
    /\ loop.idx = loop.cap => loop.steady \subseteq loop.seen

\* The map that the entries of a table are,
Content(t) ==
  LET used == {s \in DOMAIN t : t[s].state = "occupied"}
  IN  [k \in {t[s].key : s \in used} |-> t[CHOOSE s \in used : t[s].key = k].value]

\* and that of the map now: while map_rehash fills the new entries, of the old.
Stored == IF insert.phase = "rehash" THEN Content(old) ELSE Content(entries)

\* Through collisions, wrapped probes, tombstones, growths and updates the table
\* implements a finite map: no operation sees anything but its content.
Map == INSTANCE FiniteMap WITH contents <- Stored
TableIsMap == Map!Spec
=============================================================================
