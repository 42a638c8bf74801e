-------------------------- MODULE OwnershipProofs --------------------------
(***************************************************************************)
(* The values of Ownership: three invariants over the tables of              *)
(* OwnershipTables, each kept by every statement.                            *)
(*                                                                           *)
(*   SoundNow   A slot that the checker takes to hold its value owns the     *)
(*              value it has; a slot that a cleanup may drop has no value    *)
(*              of another slot; what was dropped was dropped once.  Holds   *)
(*              as long as the generator has missed no move.                 *)
(*   LeakNow    Every value is the caller's, dropped, or in the slot of a    *)
(*              name that the cleanup will drop.  Holds as long as there is  *)
(*              no gap, and needs it: a value that the cleanup does not see  *)
(*              is not dropped.                                              *)
(*   BorrowNow  The borrows that the checker recorded of a variable cover    *)
(*              the references that are still used, and each of those sees   *)
(*              what its variable holds.  Holds as long as no borrow was     *)
(*              given back to another variable.                              *)
(*                                                                           *)
(* For a statement S the lemmas SSound, SLeak and SBorrows say that S keeps  *)
(* each.  DroppedOnce follows from the first two, ReadsSound from the first  *)
(* and the third.                                                            *)
(***************************************************************************)
EXTENDS OwnershipTables

-----------------------------------------------------------------------------
(* The variables that the checker does not take for moved. *)

\* What is moved in c is moved in d.
NoLessMoved(c, d) ==
  \A k \in 1..Len(c.scopes), n \in Name :
    k <= Len(d.scopes) /\ n \in DOMAIN c.scopes[k] /\ n \in DOMAIN d.scopes[k]
      /\ d.scopes[k][n].state # "Moved" => c.scopes[k][n].state # "Moved"

\* Two steps that forget no move forget none together.
LEMMA MovedTrans ==
  ASSUME NEW c, IsChecker(c), NEW d, NEW e, NoLessMoved(c, d), NoLessMoved(d, e), IsChecker(d),
         \A k \in 1..Len(c.scopes) : k <= Len(e.scopes) =>
           k <= Len(d.scopes) /\ DOMAIN c.scopes[k] \subseteq DOMAIN d.scopes[k]
  PROVE  NoLessMoved(c, e)
<1>1. Len(c.scopes) \in Nat /\ Len(d.scopes) \in Nat
  BY CheckerIs
<1>2. SUFFICES ASSUME NEW k \in 1..Len(c.scopes), NEW n \in Name, k <= Len(e.scopes),
                      n \in DOMAIN c.scopes[k], n \in DOMAIN e.scopes[k],
                      e.scopes[k][n].state # "Moved"
               PROVE  c.scopes[k][n].state # "Moved"
  BY DEF NoLessMoved
<1>3. k \in 1..Len(d.scopes) /\ n \in DOMAIN d.scopes[k] /\ k <= Len(d.scopes)
  BY <1>1, <1>2
<1>4. d.scopes[k][n].state # "Moved"
  BY <1>2, <1>3 DEF NoLessMoved
<1>5. \A j \in 1..Len(c.scopes), x \in Name :
        j <= Len(d.scopes) /\ x \in DOMAIN c.scopes[j] /\ x \in DOMAIN d.scopes[j]
          /\ d.scopes[j][x].state # "Moved" => c.scopes[j][x].state # "Moved"
  BY DEF NoLessMoved
<1> QED BY <1>2, <1>3, <1>4, <1>5

\* The two cases in which it is used.
LEMMA MovedSame ==
  ASSUME NEW c, IsChecker(c), NEW d, NEW e, NoLessMoved(c, d), NoLessMoved(d, e),
         SameTable(c, d) \/ (/\ IsChecker(d) /\ SameTable(d, e)
                             /\ \A k \in 1..Len(c.scopes) : k <= Len(d.scopes) =>
                                  DOMAIN c.scopes[k] \subseteq DOMAIN d.scopes[k])
  PROVE  NoLessMoved(c, e)
<1>1. IsChecker(d)
  BY DEF SameTable
<1>2. Len(c.scopes) \in Nat /\ Len(d.scopes) \in Nat
  BY <1>1, CheckerIs
<1>3. \A k \in 1..Len(c.scopes) : k <= Len(e.scopes) =>
        k <= Len(d.scopes) /\ DOMAIN c.scopes[k] \subseteq DOMAIN d.scopes[k]
  BY <1>2 DEF SameTable
<1> QED BY <1>1, <1>3, MovedTrans

\* The end of a statement forgets no move.
LEMMA GivenMoves ==
  ASSUME NEW c, IsChecker(c), c.ok, NEW r \in RefName \cup {NoName},
         r # NoName => c.all[r] # 0 /\ Info(c, r).borrowsName # NoName
  PROVE  NoLessMoved(c, Given(c, r))
<1>1. CASE r = NoName
  BY <1>1 DEF Given, NoLessMoved
<1>2. CASE r # NoName
  <2> DEFINE d == Sema!giveBack(c, r)
             y == Info(c, r).borrowsName
             mutable == Info(c, r).borrowsMutable
  <2>1. r \in RefName /\ r \in Names /\ r \notin Name
    BY <1>2, NamesAssumption DEF Names
  <2>2. d = Sema!giveBack(c, r)
    OBVIOUS
  <2> HIDE DEF d
  <2>3. /\ y \in Name /\ Len(d.scopes) = Len(c.scopes)
        /\ \A k \in 1..Len(c.scopes) : \A x \in DOMAIN c.scopes[k] :
             d.scopes[k][x] =
               IF k = c.all[r] /\ x = r THEN [Info(c, r) EXCEPT !.borrowsName = NoName]
               ELSE IF k = c.all[y] /\ x = y THEN Less(Info(c, y), mutable)
               ELSE c.scopes[k][x]
    BY <1>2, <2>1, <2>2, GiveBackIs
  <2>4. mutable \in BOOLEAN
    BY <1>2, <2>1, InfoIs DEF Infos
  <2> HIDE DEF y, mutable
  <2>5. SUFFICES ASSUME NEW k \in 1..Len(c.scopes), NEW n \in Name, n \in DOMAIN c.scopes[k],
                        d.scopes[k][n].state # "Moved"
                 PROVE  c.scopes[k][n].state # "Moved"
    BY <1>2, <2>2 DEF Given, NoLessMoved
  <2>6. CASE k = c.all[y] /\ n = y
    <3>1. k # 0
      OBVIOUS
    <3>2. y \in Names /\ c.all[y] # 0
      BY <2>3, <2>6, <3>1, SMTT(60) DEF Names
    <3>3. Info(c, y) \in Infos /\ Info(c, y) = c.scopes[k][n]
      BY <2>6, <3>2, InfoIs DEF Info
    <3>4. SameVariable(Info(c, y), Less(Info(c, y), mutable))
      BY <2>4, <3>3, LessIs
    <3>5. d.scopes[k][n] = Less(Info(c, y), mutable)
      BY <2>1, <2>3, <2>5, <2>6
    <3> QED BY <2>5, <3>3, <3>4, <3>5 DEF SameVariable
  <2>7. CASE ~(k = c.all[y] /\ n = y)
    BY <2>1, <2>3, <2>5, <2>7
  <2> QED BY <2>6, <2>7
<1> QED BY <1>1, <1>2

\* The table with another record of n, which is not less moved.
LEMMA SetMoves ==
  ASSUME NEW c, IsChecker(c), NEW d, NEW n \in Names, NEW info, SetAt(c, d, n, info),
         Info(c, n).state # "Moved" \/ info.state = "Moved"
  PROVE  NoLessMoved(c, d)
BY DEF SetAt, NoLessMoved, Info

\* A variable that is tracked anew makes the checker forget no other's move.
LEMMA TrackMoves ==
  ASSUME NEW c, IsChecker(c), Len(c.scopes) > 0, NEW n \in Names, NEW info, Records(n, info),
         n \notin DOMAIN c.scopes[Len(c.scopes)],
         NEW d, d = Sema!trackVariable(c, n, info)
  PROVE  /\ NoLessMoved(c, d)
         /\ \A k \in 1..Len(c.scopes) : DOMAIN c.scopes[k] \subseteq DOMAIN d.scopes[k]
         /\ d.scopes[Len(c.scopes)][n] = info /\ IsChecker(d) /\ Len(d.scopes) = Len(c.scopes)
<1>1. /\ IsChecker(d) /\ Len(d.scopes) = Len(c.scopes)
      /\ \A k \in 1..Len(c.scopes) :
           DOMAIN d.scopes[k] = DOMAIN c.scopes[k] \cup (IF k = Len(c.scopes) THEN {n} ELSE {})
      /\ d.scopes[Len(c.scopes)][n] = info
      /\ \A k \in 1..Len(c.scopes) : \A x \in DOMAIN c.scopes[k] :
           k # Len(c.scopes) \/ x # n => d.scopes[k][x] = c.scopes[k][x]
  BY TrackIs
<1>2. NoLessMoved(c, d)
  BY <1>1 DEF NoLessMoved
<1> QED BY <1>1, <1>2

\* The end of a scope.
LEMMA DropMoves ==
  ASSUME NEW c, IsChecker(c), c.ok, Len(c.scopes) > 0, NEW d, d = Sema!dropScopeVariables(c)
  PROVE  NoLessMoved(c, d)
<1>1. /\ Len(d.scopes) = Len(c.scopes) - 1
      /\ \A k \in 1..Len(c.scopes) - 1 : \A x \in DOMAIN c.scopes[k] :
           d.scopes[k][x] =
             IF x \notin DOMAIN c.scopes[Len(c.scopes)] /\ c.all[x] = k
             THEN Sema!released(c.scopes[k][x], Holders(c, x), Mutably(c))
             ELSE c.scopes[k][x]
  BY DropIs, SMTT(60)
<1>2. Len(c.scopes) \in Nat
  BY CheckerIs
<1>3. SUFFICES ASSUME NEW k \in 1..Len(c.scopes), NEW n \in Name, k <= Len(d.scopes),
                      n \in DOMAIN c.scopes[k], d.scopes[k][n].state # "Moved"
               PROVE  c.scopes[k][n].state # "Moved"
  BY DEF NoLessMoved
<1>4. k \in 1..Len(c.scopes) - 1 /\ n \in Names
  BY <1>1, <1>2, <1>3 DEF Names
<1>5. c.scopes[k][n] \in Infos
  BY <1>3, CheckerIs, ScopeIs
<1>6. /\ IsFiniteSet(Holders(c, n)) /\ \A r \in Holders(c, n) : Mutably(c)[r] \in BOOLEAN
  BY <1>4, HoldersAre
<1>7. SameVariable(c.scopes[k][n], Sema!released(c.scopes[k][n], Holders(c, n), Mutably(c)))
  BY <1>5, <1>6, ReleasedKeeps
<1> QED BY <1>1, <1>3, <1>4, <1>7 DEF SameVariable

\* The end of a block forgets no move of a variable outside it.
LEMMA LeaveMoves ==
  ASSUME NEW c, NEW bs, ShapeInv(c, bs), Len(bs) > 0, NEW d, d = LeaveChecker(c, bs[Len(bs)])
  PROVE  NoLessMoved(c, d)
<1> DEFINE l == Sema!dropScopeVariables(c)
<1>1. IsChecker(c) /\ c.ok
  BY DEF ShapeInv
<1>2. Len(bs) \in 1..Len(bs)
  BY DEF ShapeInv
<1>3. /\ Floor(bs[Len(bs)]) \in Nat /\ 2 <= Floor(bs[Len(bs)])
      /\ bs[Len(bs)].scope = Len(c.scopes) /\ Floor(bs[Len(bs)]) <= bs[Len(bs)].scope
      /\ bs[Len(bs)].scope \in Nat
  BY <1>2, Bounds DEF ShapeInv
<1>4. Len(c.scopes) > 0
  BY <1>3
<1>5. l = Sema!dropScopeVariables(c)
  OBVIOUS
<1> HIDE DEF l
<1>6. /\ IsChecker(l) /\ l.ok /\ Len(l.scopes) = Len(c.scopes) - 1 /\ NoLessMoved(c, l)
      /\ \A k \in 1..Len(c.scopes) - 1 : DOMAIN l.scopes[k] = DOMAIN c.scopes[k]
  BY <1>1, <1>4, <1>5, DropIs, DropMoves, SMTT(60)
<1>7. CASE bs[Len(bs)].kind = "iflet"
  <2>1. d = Sema!dropScopeVariables(l)
    BY <1>5, <1>7 DEF LeaveChecker
  <2>2. Len(l.scopes) > 0
    BY <1>3, <1>6
  <2>3. NoLessMoved(l, d) /\ Len(d.scopes) = Len(l.scopes) - 1
    BY <1>6, <2>1, <2>2, DropIs, DropMoves
  <2>4. \A k \in 1..Len(c.scopes) : k <= Len(d.scopes) =>
          k <= Len(l.scopes) /\ DOMAIN c.scopes[k] \subseteq DOMAIN l.scopes[k]
    BY <1>3, <1>6, <2>3, SMTT(60)
  <2> QED BY <1>1, <1>6, <2>3, <2>4, MovedTrans
<1>8. CASE bs[Len(bs)].kind # "iflet"
  BY <1>5, <1>6, <1>8 DEF LeaveChecker
<1> QED BY <1>7, <1>8

-----------------------------------------------------------------------------
(* Their slots. *)

\* Names that are new, or were there before.
NamesFrom(bs, m, bs2, m2, N) ==
  \A i \in 1..Len(bs2), n \in Name : Has(bs2, i, n) =>
    \/ SlotAt(bs2, i, n) \in N
    \/ /\ i \in 1..Len(bs) /\ Has(bs, i, n) /\ SlotAt(bs2, i, n) = SlotAt(bs, i, n)
       /\ ScopeAt(bs2[i], n) = ScopeAt(bs[i], n) /\ (Exec(m2, bs2, i) => Exec(m, bs, i))

\* After a step that forgets no move, the slots held were held before or are new.
LEMMA HeldFrom ==
  ASSUME NEW c, NEW g, NEW m, NEW bs, NEW hid, Base(c, g, m, bs, hid),
         NEW c2, NEW g2, NEW m2, NEW bs2, NEW hid2, Base(c2, g2, m2, bs2, hid2),
         NoLessMoved(c, c2), NEW N, NamesFrom(bs, m, bs2, m2, N)
  PROVE  Held(c2, bs2, m2) \subseteq Held(c, bs, m) \cup N
<1>1. /\ ShapeInv(c, bs) /\ GenInv(g, bs, m, hid) /\ ShapeInv(c2, bs2)
  BY DEF Base
<1>2. SUFFICES ASSUME NEW s \in Held(c2, bs2, m2), s \notin N
               PROVE  s \in Held(c, bs, m)
  OBVIOUS
<1>3. PICK i \in 1..Len(bs2), n \in Name :
        /\ Has(bs2, i, n) /\ Exec(m2, bs2, i) /\ InfoAt(c2, bs2[i], n).state # "Moved"
        /\ s = SlotAt(bs2, i, n)
  BY <1>2 DEF Held
<1>4. /\ i \in 1..Len(bs) /\ Has(bs, i, n) /\ s = SlotAt(bs, i, n)
      /\ ScopeAt(bs2[i], n) = ScopeAt(bs[i], n) /\ Exec(m, bs, i)
  BY <1>2, <1>3 DEF NamesFrom
<1>5. s \in 1..Len(m.slots)
  BY <1>1, <1>4, SlotsAre
<1>6. ScopeAt(bs[i], n) \in 1..Len(c.scopes) /\ n \in DOMAIN c.scopes[ScopeAt(bs[i], n)]
  BY <1>1, <1>4, Place
<1>7. ScopeAt(bs2[i], n) \in 1..Len(c2.scopes) /\ n \in DOMAIN c2.scopes[ScopeAt(bs2[i], n)]
  BY <1>1, <1>3, Place
<1>8. InfoAt(c, bs[i], n).state # "Moved"
  BY <1>3, <1>4, <1>6, <1>7, SMTT(60) DEF NoLessMoved, InfoAt
<1> QED BY <1>4, <1>5, <1>8 DEF Held

\* A variable that has moved, or whose block does not run, is not held to hold a value.
LEMMA HeldNot ==
  ASSUME NEW c, NEW g, NEW m, NEW bs, NEW hid, Base(c, g, m, bs, hid),
         NEW i \in 1..Len(bs), NEW n \in Name, Has(bs, i, n),
         ~Exec(m, bs, i) \/ InfoAt(c, bs[i], n).state = "Moved"
  PROVE  SlotAt(bs, i, n) \notin Held(c, bs, m)
<1>1. GenInv(g, bs, m, hid)
  BY DEF Base
<1>2. \A j \in 1..Len(bs), k \in Name :
        Has(bs, j, k) /\ SlotAt(bs, j, k) = SlotAt(bs, i, n) => i = j /\ n = k
  BY <1>1, SlotsAre
<1> QED BY <1>2 DEF Held

\* A variable that has not moved, of a block that runs, is.
LEMMA HeldIs ==
  ASSUME NEW c, NEW g, NEW m, NEW bs, NEW hid, Base(c, g, m, bs, hid),
         NEW i \in 1..Len(bs), NEW n \in Name, Has(bs, i, n),
         Exec(m, bs, i), InfoAt(c, bs[i], n).state # "Moved"
  PROVE  SlotAt(bs, i, n) \in Held(c, bs, m) /\ SlotAt(bs, i, n) \in 1..Len(m.slots)
<1>1. GenInv(g, bs, m, hid)
  BY DEF Base
<1>2. SlotAt(bs, i, n) \in 1..Len(m.slots)
  BY <1>1, SlotsAre
<1> QED BY <1>2 DEF Held

-----------------------------------------------------------------------------
(* Values: the slots that hold, the slots that fit, the calls of drop(). *)

Sound(c, g, m, bs) == ValuesInv(c, bs, m) /\ FitsInv(g, bs, m) /\ DropsInv(m)

FromMap(g, s) == \E n \in g.varStructTypes \ g.movedVars : s = g.namedValues[n]

FromSaved(g, bs, s) ==
  \E k \in 1..Len(bs) : \E n \in bs[k].saved.varStructTypes \ MovedFrom(g, bs, k) :
    s = bs[k].saved.namedValues[n]

FromBinding(g, bs, s) ==
  \E k \in 1..Len(bs) : /\ bs[k].kind = "iflet" /\ bs[k].binding \notin MovedFrom(g, bs, k + 1)
                        /\ s = SlotAt(bs, k, bs[k].binding)

\* The ways for a slot to be droppable: the maps, saved maps, or the binding of an if let.
LEMMA DroppableIs ==
  ASSUME NEW g, NEW bs, NEW s
  PROVE  s \in Droppable(g, bs) <=>
           FromMap(g, s) \/ FromSaved(g, bs, s) \/ FromBinding(g, bs, s)
<1> DEFINE A == {g.namedValues[n] : n \in g.varStructTypes \ g.movedVars}
           B == UNION {{bs[k].saved.namedValues[n] :
                  n \in bs[k].saved.varStructTypes \ MovedFrom(g, bs, k)} : k \in 1..Len(bs)}
           C == {SlotAt(bs, k, bs[k].binding) :
               k \in {j \in 1..Len(bs) : bs[j].kind = "iflet"
                                         /\ bs[j].binding \notin MovedFrom(g, bs, j + 1)}}
<1>1. s \in A <=> FromMap(g, s)
  BY Zenon DEF FromMap
<1>2. s \in B <=> FromSaved(g, bs, s)
  <2> DEFINE F(k) == {bs[k].saved.namedValues[n] :
                        n \in bs[k].saved.varStructTypes \ MovedFrom(g, bs, k)}
  <2>1. \A k \in 1..Len(bs) : s \in F(k) <=>
          \E n \in bs[k].saved.varStructTypes \ MovedFrom(g, bs, k) :
            s = bs[k].saved.namedValues[n]
    BY Zenon
  <2>2. s \in UNION {F(k) : k \in 1..Len(bs)} <=> \E k \in 1..Len(bs) : s \in F(k)
    <3> HIDE DEF F
    <3> QED BY Zenon
  <2> QED BY <2>1, <2>2, Zenon DEF FromSaved
<1>3. s \in C <=> FromBinding(g, bs, s)
  BY Zenon DEF FromBinding
<1>4. Droppable(g, bs) = (A \cup B) \cup C
  BY DEF Droppable
<1> HIDE DEF A, B, C
<1> QED BY <1>1, <1>2, <1>3, <1>4

\* The slots that may be dropped are slots.
LEMMA DroppableSlots ==
  ASSUME NEW g, NEW bs, bs \in Seq(Blocks), NEW m, m \in Machines, NEW hid, GenInv(g, bs, m, hid)
  PROVE  Droppable(g, bs) \in SUBSET (1..Len(m.slots))
<1>1. g \in Generators /\ MapsInv(Maps(g, bs), Len(m.slots)) /\ Len(m.slots) \in Nat
  BY MachineIs DEF GenInv
<1>2. \A G \in Maps(g, bs) : G.namedValues \in [Name -> Nat] /\ G.varStructTypes \subseteq Name
  BY <1>1, MapsTyped
<1>3. \A G \in Maps(g, bs) : \A a \in G.varStructTypes : G.namedValues[a] \in 1..Len(m.slots)
  BY <1>1, <1>2 DEF MapsInv
<1>4. Map(g) \in Maps(g, bs) /\ \A k \in 1..Len(bs) : Map(bs[k].saved) \in Maps(g, bs)
  BY DEF Maps
<1>5. \A n \in g.varStructTypes : g.namedValues[n] \in 1..Len(m.slots)
  BY <1>3, <1>4 DEF Map
<1>6. \A k \in 1..Len(bs) : \A n \in bs[k].saved.varStructTypes :
        bs[k].saved.namedValues[n] \in 1..Len(m.slots)
  BY <1>3, <1>4 DEF Map
<1>7. \A k \in 1..Len(bs) : bs[k].kind = "iflet" =>
        SlotAt(bs, k, bs[k].binding) \in 1..Len(m.slots)
  <2> SUFFICES ASSUME NEW k \in 1..Len(bs), bs[k].kind = "iflet"
               PROVE  SlotAt(bs, k, bs[k].binding) \in 1..Len(m.slots)
    OBVIOUS
  <2>1. bs[k] \in Blocks
    OBVIOUS
  <2>2. bs[k].binding \in Name /\ Has(bs, k, bs[k].binding)
    BY <2>1, BlockIs DEF Has
  <2> QED BY <2>2, SlotsAre
<1>8. ASSUME NEW s \in Droppable(g, bs)
      PROVE  s \in 1..Len(m.slots)
  <2>1. CASE FromMap(g, s)
    BY <2>1, <1>5 DEF FromMap
  <2>2. CASE FromSaved(g, bs, s)
    BY <2>2, <1>6 DEF FromSaved
  <2>3. CASE FromBinding(g, bs, s)
    BY <2>3, <1>7 DEF FromBinding
  <2> QED BY <1>8, <2>1, <2>2, <2>3, DroppableIs
<1> QED BY <1>8

\* The same memory: what held and fitted does so still.
LEMMA SoundKept ==
  ASSUME NEW c, NEW g, NEW m, NEW bs, Sound(c, g, m, bs), Len(bs) > 0,
         NEW c2, NEW g2, NEW m2, NEW bs2,
         Held(c2, bs2, m2) \subseteq Held(c, bs, m), Droppable(g2, bs2) \subseteq Droppable(g, bs),
         m2.slots = m.slots, m2.home = m.home, m2.drops = m.drops, m2.returned <=> m.returned
  PROVE  Sound(c2, g2, m2, bs2)
<1>1. ValuesInv(c2, bs2, m2)
  BY SameHolds DEF Sound, ValuesInv
<1>2. FitsInv(g2, bs2, m2)
  BY SameHolds DEF Sound, FitsInv
<1>3. DropsInv(m2)
  BY DEF Sound, DropsInv
<1> QED BY <1>1, <1>2, <1>3 DEF Sound

\* Until the function has returned, what was dropped is what DropsDone says.
LEMMA DropsAreDone ==
  ASSUME NEW m, ~m.returned
  PROVE  DropsInv(m) <=> DropsDone(m)
BY DEF DropsInv, DropsDone

\* A store of a value that was not dropped.
LEMMA StoreDrops ==
  ASSUME NEW m, MachineInv(m), m.running, DropsDone(m), NEW s \in 1..Len(m.slots),
         NEW v, v \in (1..Len(m.home) + 1) \cup {Nothing},
         v \in DOMAIN m.home => m.home[v] # Nowhere,
         NEW m2, m2 = store(m, s, v)
  PROVE  DropsDone(m2)
<1>0. m \in Machines
  BY DEF MachineInv
<1>1. v \in Vals /\ (v \in Nat => v \in 1..Len(m.home) + 1) /\ Len(m.home) \in Nat
      /\ DOMAIN m.home = 1..Len(m.home)
  BY <1>0, MachineIs, ValuesAssumption DEF Vals
<1>2. /\ SameButMemory(m, m2)
      /\ Len(m2.home) = IF v = Len(m.home) + 1 THEN Len(m.home) + 1 ELSE Len(m.home)
      /\ \A w \in 1..Len(m2.home) :
           m2.home[w] = IF w = v THEN s ELSE IF m.home[w] = s THEN Nowhere ELSE m.home[w]
  BY <1>0, <1>1, StoreIs
<1>3. m2.drops = m.drops /\ m2 \in Machines /\ DOMAIN m2.home = 1..Len(m2.home)
  BY <1>2, MachineIs DEF SameButMemory
<1>4. ASSUME NEW d \in m2.drops, d.val # Garbage
      PROVE  d.val \in DOMAIN m2.home /\ m2.home[d.val] = Nowhere
  <2>1. d.val \in 1..Len(m.home) /\ m.home[d.val] = Nowhere
    BY <1>1, <1>3, <1>4 DEF DropsDone
  <2>2. d.val # v /\ d.val \in 1..Len(m2.home)
    BY <1>1, <1>2, <2>1
  <2> QED BY <1>2, <1>3, <2>1, <2>2
<1>5. \A d \in m2.drops : d.val # Garbage =>
        d.home # Caller /\ \A e \in m2.drops : e.val = d.val => e = d
  BY <1>3 DEF DropsDone
<1> QED BY <1>4, <1>5 DEF DropsDone

\* A store of a value that is new, none, or that of a slot which is not followed any more.
LEMMA StoreSound ==
  ASSUME NEW m, MachineInv(m), m.running, DropsDone(m), NEW s \in 1..Len(m.slots),
         NEW v, v \in (1..Len(m.home) + 1) \cup {Nothing},
         NEW H \in SUBSET (1..Len(m.slots)), \A k \in H : Holds(m, k),
         NEW D \in SUBSET (1..Len(m.slots)), \A k \in D : Fits(m, k),
         v \in DOMAIN m.home =>
           \E x \in 1..Len(m.slots) : m.slots[x].val = v /\ Fits(m, x) /\ x \notin H \cup D,
         NEW m2, m2 = store(m, s, v)
  PROVE  /\ \A k \in H \cup {s} : Holds(m2, k)
         /\ \A k \in D \cup {s} : Fits(m2, k)
         /\ DropsDone(m2)
<1>0. m \in Machines /\ Nowhere \notin 1..Len(m.slots)
  BY MachineIs, ValuesAssumption DEF MachineInv
<1>1. \A k \in H : Fits(m, k)
  BY HoldsFits
<1>2. \A k \in H \cup D : ~(m.slots[k].val = v /\ v \in DOMAIN m.home)
  BY <1>1, FitsApart
<1>3. v \in DOMAIN m.home => m.home[v] # Nowhere
  BY <1>0 DEF Fits
<1>4. \A k \in H \cup {s} : Holds(m2, k)
  <2>1. \A k \in H : m.slots[k].val = v /\ v \in DOMAIN m.home => k = s
    BY <1>2
  <2> QED BY <2>1, StoreHolds
<1>5. \A k \in D \cup {s} : Fits(m2, k)
  <2>1. \A k \in D : m.slots[k].val = v /\ v \in DOMAIN m.home => k = s
    BY <1>2
  <2> QED BY <2>1, StoreFits, SMTT(60)
<1>6. DropsDone(m2)
  BY <1>3, StoreDrops
<1> QED BY <1>4, <1>5, <1>6

\* A statement that declares nothing, with a checker that has not less moved.
LEMMA HeldStays ==
  ASSUME NEW c, NEW g, NEW m, NEW bs, NEW hid, Base(c, g, m, bs, hid),
         NEW c2, NEW g2, NEW m2, NEW hid2, Base(c2, g2, m2, bs, hid2),
         NoLessMoved(c, c2), SameControl(m, m2)
  PROVE  Held(c2, bs, m2) \subseteq Held(c, bs, m)
<1>0. bs \in Seq(Blocks) /\ PathsInv(m, bs)
  BY DEF Base, ShapeInv
<1>1. \A i \in 1..Len(bs) : Exec(m2, bs, i) <=> Exec(m, bs, i)
  BY <1>0, SameBlockSelf, ControlKept
<1>2. NamesFrom(bs, m, bs, m2, {})
  BY <1>1 DEF NamesFrom
<1>3. Held(c2, bs, m2) \subseteq Held(c, bs, m) \cup {}
  BY <1>2, HeldFrom
<1> QED BY <1>3

\* The checker e that has moved x, which block i declares.
LEMMA MovedHeld ==
  ASSUME NEW c, NEW g, NEW m, NEW bs, NEW hid, Base(c, g, m, bs, hid),
         NEW x \in Name, NEW i \in 1..Len(bs), Has(bs, i, x), c.all[x] # 0,
         c.all[x] = ScopeAt(bs[i], x), Info(c, x) \in Infos,
         NEW e, SameTable(c, e), SetAt(c, e, x, [Info(c, x) EXCEPT !.state = "Moved"])
  PROVE  /\ Base(e, g, m, bs, hid) /\ NoLessMoved(c, e)
         /\ Held(e, bs, m) \subseteq Held(c, bs, m) \ {SlotAt(bs, i, x)}
<1>0. IsChecker(c) /\ g \in Generators /\ MachineInv(m) /\ ShapeInv(c, bs)
  BY DEF Base, ShapeInv, GenInv
<1>1. Base(e, g, m, bs, hid)
  <2>1. Stays(m, m)
    BY <1>0 DEF Stays, SameControl, SlotsKept, SameRefSlots
  <2> QED BY <1>0, <2>1, BaseStays
<1>2. [Info(c, x) EXCEPT !.state = "Moved"].state = "Moved"
  BY DEF Infos
<1>3. NoLessMoved(c, e)
  BY <1>0, <1>2, SetMoves DEF Names
<1>4. Held(e, bs, m) \subseteq Held(c, bs, m)
  <2>1. SameControl(m, m)
    BY DEF SameControl
  <2> QED BY <1>1, <1>3, <2>1, HeldStays
<1>5. SlotAt(bs, i, x) \notin Held(e, bs, m)
  <2>1. InfoAt(e, bs[i], x).state = "Moved"
    <3>1. ScopeAt(bs[i], x) \in 1..Len(c.scopes) /\ x \in DOMAIN c.scopes[ScopeAt(bs[i], x)]
      BY <1>0, Place
    <3> QED BY <1>2, <3>1 DEF SetAt, InfoAt
  <2> QED BY <1>1, <2>1, HeldNot
<1> QED BY <1>1, <1>3, <1>4, <1>5

\* Fewer names may be dropped.
LEMMA DroppableKept ==
  ASSUME NEW g, NEW bs, NEW g2, NEW bs2, bs2 \in Seq(Blocks), bs \in Seq(Blocks),
         g2.namedValues = g.namedValues,
         g2.varStructTypes = g.varStructTypes, g.movedVars \subseteq g2.movedVars,
         SameBlocks(bs, bs2), \A i \in 1..Len(bs) : bs[i].kind = "iflet" =>
           SlotAt(bs2, i, bs[i].binding) = SlotAt(bs, i, bs[i].binding)
  PROVE  Droppable(g2, bs2) \subseteq Droppable(g, bs)
<1>0. Len(bs2) = Len(bs) /\ Len(bs) \in Nat
      /\ \A i \in 1..Len(bs) : bs2[i].saved = bs[i].saved /\ bs2[i].kind = bs[i].kind
                               /\ bs2[i].binding = bs[i].binding
  BY DEF SameBlocks, SameBlock
<1>1. \A k \in 1..Len(bs) + 1 : MovedFrom(g, bs, k) \subseteq MovedFrom(g2, bs2, k)
  <2> SUFFICES ASSUME NEW k \in 1..Len(bs) + 1
               PROVE  MovedFrom(g, bs, k) \subseteq MovedFrom(g2, bs2, k)
    OBVIOUS
  <2>1. k..Len(bs) \subseteq 1..Len(bs)
    BY <1>0
  <2>2. {bs[l].saved.movedVars : l \in k..Len(bs)} = {bs2[l].saved.movedVars : l \in k..Len(bs2)}
    BY <1>0, <2>1
  <2> QED BY <2>2 DEF MovedFrom
<1>2. ASSUME NEW s, FromMap(g2, s)
      PROVE  FromMap(g, s)
  BY <1>2 DEF FromMap
<1>3. ASSUME NEW s, FromSaved(g2, bs2, s)
      PROVE  FromSaved(g, bs, s)
  <2>1. PICK k \in 1..Len(bs2) : \E n \in bs2[k].saved.varStructTypes \ MovedFrom(g2, bs2, k) :
               s = bs2[k].saved.namedValues[n]
    BY <1>3 DEF FromSaved
  <2>2. k \in 1..Len(bs) /\ k \in 1..Len(bs) + 1
    BY <1>0
  <2> QED BY <1>0, <1>1, <2>1, <2>2 DEF FromSaved
<1>4. ASSUME NEW s, FromBinding(g2, bs2, s)
      PROVE  FromBinding(g, bs, s)
  <2>1. PICK k \in 1..Len(bs2) : /\ bs2[k].kind = "iflet"
                                 /\ bs2[k].binding \notin MovedFrom(g2, bs2, k + 1)
                                 /\ s = SlotAt(bs2, k, bs2[k].binding)
    BY <1>4 DEF FromBinding
  <2>2. k \in 1..Len(bs) /\ k + 1 \in 1..Len(bs) + 1
    BY <1>0
  <2> QED BY <1>0, <1>1, <2>1, <2>2 DEF FromBinding
<1> QED BY <1>2, <1>3, <1>4, DroppableIs

\* A name that is suppressed for good, if registered at all, is not dropped.
LEMMA NotDroppable ==
  ASSUME NEW g, NEW bs, NEW m, NEW hid, bs \in Seq(Blocks), GenInv(g, bs, m, hid),
         NEW i \in 1..Len(bs), NEW x \in Name, Has(bs, i, x),
         g.namedValues[x] = SlotAt(bs, i, x),
         x \in g.varStructTypes => x \in g.movedVars
  PROVE  SlotAt(bs, i, x) \notin Droppable(g, bs)
<1>0. /\ g \in Generators /\ MapsInv(Maps(g, bs), Len(m.slots))
      /\ SlotInv(Maps(g, bs), bs, m, i, x)
  BY DEF GenInv
<1>1. \A G \in Maps(g, bs) : G.namedValues \in [Name -> Nat] /\ G.varStructTypes \subseteq Name
  BY <1>0, MapsTyped
<1>2. Map(g) \in Maps(g, bs) /\ \A k \in 1..Len(bs) : Map(bs[k].saved) \in Maps(g, bs)
  BY DEF Maps
<1>3. \A k : g.movedVars \subseteq MovedFrom(g, bs, k)
  BY DEF MovedFrom
<1>4. SlotAt(bs, i, x) # 0
  BY <1>0 DEF SlotInv
<1>5. ~FromMap(g, SlotAt(bs, i, x))
  <2> SUFFICES ASSUME NEW n \in g.varStructTypes \ g.movedVars, SlotAt(bs, i, x) = g.namedValues[n]
               PROVE  FALSE
    BY DEF FromMap
  <2>1. n \in Name
    BY <1>1, <1>2 DEF Map
  <2>2. n = x
    BY <1>0, <1>2, <2>1 DEF SlotInv, Map
  <2> QED BY <2>2
<1>6. ~FromSaved(g, bs, SlotAt(bs, i, x))
  <2> SUFFICES ASSUME NEW k \in 1..Len(bs),
                      NEW n \in bs[k].saved.varStructTypes \ MovedFrom(g, bs, k),
                      SlotAt(bs, i, x) = bs[k].saved.namedValues[n]
               PROVE  FALSE
    BY DEF FromSaved
  <2>1. n \in Name
    BY <1>1, <1>2, ZenonT(60) DEF Map
  <2>2. n = x
    BY <1>0, <1>2, <2>1, ZenonT(60) DEF SlotInv, Map
  <2>3. x \in g.varStructTypes
    <3> DEFINE G == Map(bs[k].saved)
               H == Map(g)
    <3>1. G \in Maps(g, bs) /\ H \in Maps(g, bs)
      BY <1>2
    <3>2. G.namedValues[x] = H.namedValues[x] /\ G.namedValues[x] # 0 /\ x \in G.varStructTypes
      BY <1>4, <2>2 DEF Map
    <3> HIDE DEF G, H
    <3>3. x \in H.varStructTypes
      BY <1>0, <3>1, <3>2 DEF MapsInv
    <3> QED BY <3>3 DEF H, Map
  <2> QED BY <1>3, <2>2, <2>3
<1>7. ~FromBinding(g, bs, SlotAt(bs, i, x))
  <2> SUFFICES ASSUME NEW k \in 1..Len(bs), bs[k].kind = "iflet",
                      bs[k].binding \notin MovedFrom(g, bs, k + 1),
                      SlotAt(bs, i, x) = SlotAt(bs, k, bs[k].binding)
               PROVE  FALSE
    BY DEF FromBinding
  <2>1. bs[k] \in Blocks
    OBVIOUS
  <2>2. bs[k].binding \in Name /\ Has(bs, k, bs[k].binding)
    BY <2>1, BlockIs DEF Has
  <2>3. i = k /\ x = bs[k].binding
    BY <1>0, <2>2 DEF SlotInv
  <2>4. x \in g.varStructTypes
    BY <1>0, <1>2, <2>3, ZenonT(60) DEF SlotInv, Map
  <2> QED BY <1>3, <2>3, <2>4
<1> QED BY <1>5, <1>6, <1>7, DroppableIs

-----------------------------------------------------------------------------
(* Uses and assignments. *)

SoundNow == Sound(checker, code, machine, blocks)

\* A statement that declares nothing: the checker that it leaves, c, gives back a borrow.
LEMMA SimpleHeld ==
  ASSUME Agree, Agree', NEW c, NEW r, SimpleFacts(c, r), NoLessMoved(checker, c),
         SameControl(machine, machine')
  PROVE  /\ Held(checker', blocks', machine') \subseteq Held(checker, blocks, machine)
         /\ Base(c, code, machine, blocks, hidden) =>
              Held(checker', blocks', machine') \subseteq Held(c, blocks, machine)
<1>0. IsChecker(checker) /\ checker.ok /\ blocks' = blocks /\ IsChecker(c) /\ c.ok
  BY AgreeIs DEF SimpleFacts
<1>1. NoLessMoved(c, checker')
  <2>1. r # NoName => c.all[r] # 0 /\ Info(c, r).borrowsName # NoName
    BY EndIs DEF SimpleFacts
  <2> QED BY <2>1, GivenMoves DEF SimpleFacts
<1>2. NoLessMoved(checker, checker')
  BY <1>0, <1>1, MovedSame DEF SimpleFacts
<1>3. Base(checker, code, machine, blocks, hidden)
  BY DEF Agree
<1>4. Base(checker', code', machine', blocks, hidden')
  BY <1>0 DEF Agree
<1>5. Held(checker', blocks, machine') \subseteq Held(checker, blocks, machine)
  BY <1>2, <1>3, <1>4, HeldStays
<1>6. Base(c, code, machine, blocks, hidden) =>
        Held(checker', blocks, machine') \subseteq Held(c, blocks, machine)
  BY <1>1, <1>4, HeldStays
<1> QED BY <1>0, <1>5, <1>6

\* A checker forgets none of its own moves.
LEMMA SameMoved ==
  ASSUME NEW c
  PROVE  NoLessMoved(c, c)
BY DEF NoLessMoved

\* A harmless step leaves control where it was.
LEMMA StaysControl ==
  ASSUME NEW m, NEW m2, Stays(m, m2)
  PROVE  SameControl(m, m2)
BY DEF Stays

\* A use of a variable keeps what the slots hold and what was dropped right.
LEMMA UseSound ==
  ASSUME Agree, Agree', SoundNow, NEW n \in Name, Use(n)
  PROVE  SoundNow'
<1>1. PICK i, r : SimpleFacts(checker, r)
  BY UseIs
<1>2. code' = code /\ SameButRead(machine, machine') /\ SameControl(machine, machine')
  BY UseIs, StaysControl
<1>3. Held(checker', blocks', machine') \subseteq Held(checker, blocks, machine)
  BY <1>1, <1>2, SameMoved, SimpleHeld
<1>4. Len(blocks) > 0 /\ blocks' = blocks
  BY <1>1 DEF SimpleFacts
<1> QED BY <1>2, <1>3, <1>4, SoundKept DEF SoundNow, SameButRead

\* A use of a reference keeps what the slots hold and what was dropped right.
LEMMA UseRefSound ==
  ASSUME Agree, Agree', SoundNow, NEW q \in RefName, UseRef(q)
  PROVE  SoundNow'
<1>1. PICK i, r : SimpleFacts(checker, r)
  BY UseRefIs
<1>2. code' = code /\ SameButRead(machine, machine') /\ SameControl(machine, machine')
  BY UseRefIs, StaysControl
<1>3. Held(checker', blocks', machine') \subseteq Held(checker, blocks, machine)
  BY <1>1, <1>2, SameMoved, SimpleHeld
<1>4. Len(blocks) > 0 /\ blocks' = blocks
  BY <1>1 DEF SimpleFacts
<1> QED BY <1>2, <1>3, <1>4, SoundKept DEF SoundNow, SameButRead

\* The sets of slots that are followed, when the machine runs.
LEMMA SoundSets ==
  ASSUME Agree, SoundNow, Len(blocks) > 0, machine.running
  PROVE  /\ ~machine.returned /\ DropsDone(machine)
         /\ Held(checker, blocks, machine) \in SUBSET (1..Len(machine.slots))
         /\ Droppable(code, blocks) \in SUBSET (1..Len(machine.slots))
         /\ \A k \in Held(checker, blocks, machine) : Holds(machine, k)
         /\ \A k \in Droppable(code, blocks) : Fits(machine, k)
<1>1. ~machine.returned
  BY DEF Agree, Base, PathsInv
<1>2. Droppable(code, blocks) \in SUBSET (1..Len(machine.slots))
  BY AgreeIs, DroppableSlots DEF MapsAgree
<1> QED BY <1>1, <1>2, DropsAreDone DEF SoundNow, Sound, ValuesInv, FitsInv, Held

\* The state after a step in which what is followed holds and fits.
LEMMA SoundMade ==
  ASSUME NEW c, NEW g, NEW m, NEW bs, NEW H, NEW D, Held(c, bs, m) \subseteq H,
         Droppable(g, bs) \subseteq D,
         \A k \in H : Holds(m, k), \A k \in D : Fits(m, k), DropsDone(m)
  PROVE  Sound(c, g, m, bs)
<1>1. ValuesInv(c, bs, m) /\ FitsInv(g, bs, m)
  BY DEF ValuesInv, FitsInv
<1>2. DropsInv(m)
  BY DEF DropsInv, DropsDone
<1> QED BY <1>1, <1>2 DEF Sound

\* What is followed in m is followed in a machine that has read.
LEMMA ReadKeeps ==
  ASSUME NEW m, NEW m2, SameButRead(m, m2)
  PROVE  /\ \A k : (Holds(m, k) => Holds(m2, k)) /\ (Fits(m, k) => Fits(m2, k))
         /\ DropsDone(m) => DropsDone(m2)
<1>1. m2.slots = m.slots /\ m2.home = m.home /\ m2.drops = m.drops
  BY DEF SameButRead
<1> QED BY <1>1, SameHolds DEF DropsDone

\* An assignment of a new value keeps what the slots hold and what was dropped right.
LEMMA AssignNewSound ==
  ASSUME Agree, Agree', SoundNow, NEW n \in Name, AssignNew(n)
  PROVE  SoundNow'
<1>1. PICK i, r, v : /\ Meant(n, i) /\ SimpleFacts(checker, r)
                     /\ v \in {Len(machine.home) + 1, Nothing}
                     /\ machine' = store(current, Slot(n), v)
  BY AssignNewIs
<1>2. /\ code' = code /\ SameControl(machine, machine') /\ SameButRead(machine, current)
      /\ MachineInv(current)
  BY AssignNewIs, StaysControl
<1>3. Held(checker', blocks', machine') \subseteq Held(checker, blocks, machine)
  BY <1>1, <1>2, SameMoved, SimpleHeld
<1>4. Len(blocks) > 0 /\ blocks' = blocks
  BY <1>1 DEF SimpleFacts
<1>5. Slot(n) \in 1..Len(machine.slots)
  BY <1>1 DEF Meant
<1>6. machine \in Machines /\ current.slots = machine.slots /\ current.home = machine.home
      /\ (current.running <=> machine.running)
  BY <1>2, AgreeIs DEF SameButRead
<1>7. CASE machine.running
  <2> DEFINE H == Held(checker, blocks, machine)
             D == Droppable(code, blocks)
             m2 == store(current, Slot(n), v)
  <2>1. /\ DropsDone(machine) /\ H \in SUBSET (1..Len(machine.slots))
        /\ D \in SUBSET (1..Len(machine.slots))
        /\ (\A k \in H : Holds(machine, k)) /\ \A k \in D : Fits(machine, k)
    BY <1>4, <1>7, SoundSets
  <2>2. /\ DropsDone(current)
        /\ (\A k \in H : Holds(current, k)) /\ \A k \in D : Fits(current, k)
    BY <1>2, <2>1, ReadKeeps
  <2>3. /\ v \in (1..Len(current.home) + 1) \cup {Nothing} /\ v \notin DOMAIN current.home
    BY <1>1, <1>6, MachineIs
  <2> HIDE DEF H, D
  <2>4. /\ \A k \in H \cup {Slot(n)} : Holds(m2, k)
        /\ \A k \in D \cup {Slot(n)} : Fits(m2, k)
        /\ DropsDone(m2)
    BY <1>2, <1>5, <1>6, <1>7, <2>1, <2>2, <2>3, StoreSound, SMTT(60)
  <2> HIDE DEF m2
  <2>5. machine' = m2
    BY <1>1 DEF m2
  <2>6. Droppable(code', blocks') \subseteq D /\ Held(checker', blocks', machine') \subseteq H
    BY <1>2, <1>3, <1>4 DEF D, H
  <2> QED BY <2>4, <2>5, <2>6, SoundMade DEF SoundNow
<1>8. CASE ~machine.running
  <2>1. machine' = current
    BY <1>1, <1>6, <1>8, NoStore
  <2> QED BY <1>2, <1>3, <1>4, <2>1, SoundKept DEF SoundNow, SameButRead
<1> QED BY <1>7, <1>8

\* Slots hold and fit as the memory says.
LEMMA MemoryKeeps ==
  ASSUME NEW m, NEW m2, m2.slots = m.slots, m2.home = m.home, m2.drops = m.drops
  PROVE  /\ \A k : (Holds(m, k) => Holds(m2, k)) /\ (Fits(m, k) => Fits(m2, k))
         /\ DropsDone(m) => DropsDone(m2)
BY SameHolds DEF DropsDone

\* An assignment through a reference keeps what the slots hold and what was dropped right.
LEMMA AssignThroughSound ==
  ASSUME Agree, Agree', SoundNow, NEW q \in RefName, NEW src \in Name \cup {NoName},
         AssignThrough(q, src), gap' # "missed"
  PROVE  SoundNow'
<1>0. src = NoName
  BY AssignThroughIs
<1>1. PICK i, r, c, v, m :
              /\ SimpleFacts(c, r)
              /\ c = checker /\ v = Len(machine.home) + 1
              /\ machine.running =>
                   /\ machine.refs[q].slot \in 1..Len(machine.slots)
                   /\ m = store(current, machine.refs[q].slot, v)
                   /\ SameButRefs(m, machine')
              /\ ~machine.running => machine' = current
  BY <1>0, AssignThroughIs, ZenonT(60)
<1>2. /\ code' = code /\ SameControl(machine, machine') /\ SameButRead(machine, current)
      /\ MachineInv(current)
  BY AssignThroughIs, StaysControl
<1>3. Held(checker', blocks', machine') \subseteq Held(checker, blocks, machine)
  BY <1>1, <1>2, SameMoved, SimpleHeld
<1>4. Len(blocks) > 0 /\ blocks' = blocks
  BY <1>1 DEF SimpleFacts
<1>6. machine \in Machines /\ current.slots = machine.slots /\ current.home = machine.home
      /\ (current.running <=> machine.running)
  BY <1>2, AgreeIs DEF SameButRead
<1>7. CASE machine.running
  <2> DEFINE H == Held(checker, blocks, machine)
             D == Droppable(code, blocks)
             s == machine.refs[q].slot
  <2>1. /\ DropsDone(machine) /\ H \in SUBSET (1..Len(machine.slots))
        /\ D \in SUBSET (1..Len(machine.slots))
        /\ (\A k \in H : Holds(machine, k)) /\ \A k \in D : Fits(machine, k)
    BY <1>4, <1>7, SoundSets
  <2>2. /\ DropsDone(current)
        /\ (\A k \in H : Holds(current, k)) /\ \A k \in D : Fits(current, k)
    BY <1>2, <2>1, ReadKeeps
  <2>3. /\ v \in (1..Len(current.home) + 1) \cup {Nothing} /\ v \notin DOMAIN current.home
    BY <1>1, <1>6, MachineIs
  <2>s. s \in 1..Len(current.slots) /\ m = store(current, s, v) /\ SameButRefs(m, machine')
    BY <1>1, <1>6, <1>7
  <2> HIDE DEF H, D, s
  <2>4. /\ \A k \in H \cup {s} : Holds(m, k)
        /\ \A k \in D \cup {s} : Fits(m, k)
        /\ DropsDone(m)
    BY <1>2, <1>6, <1>7, <2>s, <2>1, <2>2, <2>3, StoreSound
  <2>5. /\ \A k \in H \cup {s} : Holds(machine', k)
        /\ \A k \in D \cup {s} : Fits(machine', k)
        /\ DropsDone(machine')
    BY <2>s, <2>4, MemoryKeeps DEF SameButRefs
  <2>6. Droppable(code', blocks') \subseteq D /\ Held(checker', blocks', machine') \subseteq H
    BY <1>2, <1>3, <1>4 DEF D, H
  <2> QED BY <2>5, <2>6, SoundMade DEF SoundNow
<1>8. CASE ~machine.running
  <2>1. machine' = current
    BY <1>1, <1>8
  <2> QED BY <1>2, <1>3, <1>4, <2>1, SoundKept DEF SoundNow, SameButRead
<1> QED BY <1>7, <1>8

\* An assignment of one variable to another keeps what the slots hold and what was dropped
\* right.
LEMMA AssignSound ==
  ASSUME Agree, Agree', SoundNow, NEW n \in Name, NEW x \in Name, Assign(n, x)
  PROVE  SoundNow'
<1>1. PICK i, j, r, e, m :
              /\ Meant(n, i) /\ Meant(x, j)
              /\ Info(checker, x).state # "Moved"
              /\ SetAt(checker, e, x, [Info(checker, x) EXCEPT !.state = "Moved"])
              /\ SimpleFacts(e, r)
              /\ SameButRead(machine, m) /\ MachineInv(m)
              /\ Storable(m, Slot(n), machine.slots[Slot(x)].val)
              /\ machine' = store(m, Slot(n), machine.slots[Slot(x)].val)
  BY AssignFrom, ZenonT(60)
<1>2. code' = suppress(code, x) /\ SameControl(machine, machine')
  BY AssignFrom, StaysControl
<1>4. Len(blocks) > 0 /\ blocks' = blocks /\ SameTable(checker, e)
  BY <1>1 DEF SimpleFacts
<1>5. /\ Slot(n) \in 1..Len(machine.slots) /\ Slot(x) \in 1..Len(machine.slots)
      /\ j \in 1..Len(blocks) /\ Has(blocks, j, x) /\ Slot(x) = SlotAt(blocks, j, x)
      /\ checker.all[x] # 0 /\ checker.all[x] = ScopeAt(blocks[j], x)
      /\ Info(checker, x) = InfoAt(checker, blocks[j], x)
  BY <1>1 DEF Meant
<1>6. /\ machine \in Machines /\ m.slots = machine.slots /\ m.home = machine.home
      /\ (m.running <=> machine.running) /\ IsChecker(checker) /\ code \in Generators
      /\ blocks \in Seq(Blocks) /\ m.drops = machine.drops /\ (m.returned <=> machine.returned)
  BY <1>1, AgreeIs DEF SameButRead
<1>i. Info(checker, x) \in Infos
  BY <1>5, <1>6, InfoIs DEF Names
<1>b. Base(checker, code, machine, blocks, hidden)
  BY DEF Agree
<1>e. /\ Base(e, code, machine, blocks, hidden) /\ NoLessMoved(checker, e)
      /\ Held(e, blocks, machine) \subseteq Held(checker, blocks, machine) \ {Slot(x)}
  BY <1>1, <1>4, <1>5, <1>i, <1>b, MovedHeld
<1>3. Held(checker', blocks', machine') \subseteq Held(checker, blocks, machine) \ {Slot(x)}
  BY <1>1, <1>2, <1>e, SimpleHeld
<1>d. Droppable(code', blocks') \subseteq Droppable(code, blocks) \ {Slot(x)}
  <2>1. /\ code' \in Generators /\ code'.namedValues = code.namedValues
        /\ code'.varStructTypes = code.varStructTypes
        /\ code'.movedVars = code.movedVars \cup ({x} \cap code.varStructTypes)
    BY <1>2, <1>6, SuppressIs
  <2>2. SameBlocks(blocks, blocks)
    BY <1>6, SameBlockSelf
  <2>3. Droppable(code', blocks) \subseteq Droppable(code, blocks)
    BY <1>6, <2>1, <2>2, DroppableKept
  <2>4. GenInv(code', blocks, machine', hidden')
    BY <1>4 DEF Agree, Base
  <2>5. code'.namedValues[x] = SlotAt(blocks, j, x) /\ (x \in code'.varStructTypes => x \in code'.movedVars)
    BY <1>5, <2>1 DEF Slot
  <2>6. Slot(x) \notin Droppable(code', blocks)
    BY <1>5, <1>6, <2>4, <2>5, NotDroppable
  <2> QED BY <1>4, <2>3, <2>6
<1>7. CASE machine.running
  <2> DEFINE H == Held(checker, blocks, machine)
             D == Droppable(code, blocks)
             H2 == H \ {Slot(x)}
             D2 == D \ {Slot(x)}
             v == machine.slots[Slot(x)].val
  <2>1. /\ DropsDone(machine) /\ H \in SUBSET (1..Len(machine.slots))
        /\ D \in SUBSET (1..Len(machine.slots))
        /\ (\A k \in H : Holds(machine, k)) /\ \A k \in D : Fits(machine, k)
    BY <1>4, <1>7, SoundSets
  <2>x. Slot(x) \in H
    <3>1. Exec(machine, blocks, j)
      BY <1>5, <1>6, <1>7, RunsIs DEF Agree, Base
    <3> QED BY <1>1, <1>5, <1>b, <3>1, HeldIs
  <2>2. /\ DropsDone(m) /\ H2 \in SUBSET (1..Len(m.slots)) /\ D2 \in SUBSET (1..Len(m.slots))
        /\ (\A k \in H : Holds(m, k)) /\ \A k \in D : Fits(m, k)
    BY <1>1, <1>6, <2>1, ReadKeeps
  <2>3. v \in (1..Len(m.home) + 1) \cup {Nothing}
    <3>1. v # Garbage
      BY <2>1, <2>x DEF Holds
    <3> QED BY <1>1, <3>1 DEF Storable
  <2>4. m.slots[Slot(x)].val = v /\ Fits(m, Slot(x)) /\ Slot(x) \notin H2 \cup D2
    BY <1>6, <2>2, <2>x, HoldsFits
  <2>5. (\A k \in H2 : Holds(m, k)) /\ \A k \in D2 : Fits(m, k)
    BY <2>2
  <2>7. Held(checker', blocks', machine') \subseteq H2 \cup {Slot(n)}
        /\ Droppable(code', blocks') \subseteq D2 \cup {Slot(n)}
    BY <1>3, <1>d
  <2>8. machine' = store(m, Slot(n), v)
    BY <1>1
  <2> DEFINE m2 == store(m, Slot(n), v)
  <2> HIDE DEF H2, D2, v, H, D
  <2>6. /\ \A k \in H2 \cup {Slot(n)} : Holds(m2, k)
        /\ \A k \in D2 \cup {Slot(n)} : Fits(m2, k)
        /\ DropsDone(m2)
    <3>1. v \in DOMAIN m.home =>
            \E y \in 1..Len(m.slots) : m.slots[y].val = v /\ Fits(m, y) /\ y \notin H2 \cup D2
      BY <1>5, <1>6, <2>4
    <3>2. Slot(n) \in 1..Len(m.slots) /\ m.running
      BY <1>1, <1>5, <1>6, <1>7
    <3>3. MachineInv(m) /\ DropsDone(m)
      BY <1>1, <1>5, <1>6, <2>2
    <3>4. H2 \in SUBSET (1..Len(m.slots)) /\ \A k \in H2 : Holds(m, k)
      BY <2>2, <2>5
    <3>5. D2 \in SUBSET (1..Len(m.slots)) /\ \A k \in D2 : Fits(m, k)
      BY <2>2, <2>5
    <3> HIDE DEF m2
    <3>6. m2 = store(m, Slot(n), v)
      BY DEF m2
    <3> QED BY <2>3, <3>1, <3>2, <3>3, <3>4, <3>5, <3>6, StoreSound, SMTT(60)
  <2> HIDE DEF m2
  <2>9. machine' = m2
    BY <2>8 DEF m2
  <2> QED BY <2>6, <2>7, <2>9, SoundMade DEF SoundNow
<1>8. CASE ~machine.running
  <2>1. machine' = m
    BY <1>1, <1>6, <1>8, NoStore
  <2> QED BY <1>1, <1>3, <1>4, <1>6, <1>d, <2>1, SoundKept DEF SoundNow
<1> QED BY <1>7, <1>8

-----------------------------------------------------------------------------
(* References, ifs and returns. *)

\* The declaration of a reference keeps what the slots hold and what was dropped right.
LEMMA RefSound ==
  ASSUME Agree, Agree', SoundNow, NEW r \in RefName, NEW x \in Name, Ref(r, x)
  PROVE  SoundNow'
<1>1. PICK j, mutable, e, d, over : RefFacts(r, x, j, mutable, e, d, over)
  BY RefIs
<1>2. /\ code' = code /\ SameButRead(machine, current) /\ SameButRefs(current, machine')
  BY RefIs
<1>3. /\ IsChecker(checker) /\ checker.ok /\ blocks \in Seq(Blocks) /\ Len(blocks) \in Nat
      /\ code \in Generators
  BY AgreeIs
<1>4. /\ j \in 1..Len(blocks) /\ checker.all[x] # 0 /\ Len(blocks) > 0
  BY <1>1 DEF RefFacts, Meant
<1>5. /\ Info(checker, x).state # "Moved" /\ SameTable(checker, e) /\ IsChecker(d) /\ d.ok
      /\ SetAt(checker, e, x, Borrowed(Info(checker, x), mutable))
      /\ Records(r, RefInfo(x, mutable)) /\ d = Sema!trackVariable(e, r, RefInfo(x, mutable))
      /\ over \in RefName \cup {NoName} /\ EndStatement(d, over)
      /\ checker' = Given(d, over) /\ SameTable(d, checker')
      /\ \A i \in 1..Len(blocks) : ~Has(blocks, i, r)
      /\ \E E : Declared(blocks, blocks', r, E)
  BY <1>1 DEF RefFacts
<1>6. NoLessMoved(checker, e)
  BY <1>3, <1>4, <1>5, SetMoves DEF Names
<1>7. NoLessMoved(e, d) /\ (\A k \in 1..Len(e.scopes) : DOMAIN e.scopes[k] \subseteq DOMAIN d.scopes[k])
      /\ Len(d.scopes) = Len(e.scopes)
  <2>1. /\ blocks[Len(blocks)].scope = Len(checker.scopes) /\ blocks[Len(blocks)] \in Blocks
        /\ Len(checker.scopes) > 0 /\ Len(blocks) \in 1..Len(blocks)
    <3>1. ShapeInv(checker, blocks)
      BY DEF Agree, Base
    <3> QED BY <1>3, <1>4, <3>1, BodyIs, Bounds
  <2>2. r \notin DOMAIN checker.scopes[Len(checker.scopes)]
    BY <1>3, <1>4, <1>5, <2>1, SMTT(60) DEF Agree, Base, ShapeInv, Has
  <2>3. IsChecker(e) /\ Len(e.scopes) > 0 /\ r \notin DOMAIN e.scopes[Len(e.scopes)]
    <3>1. Len(e.scopes) = Len(checker.scopes) /\ IsChecker(e) /\ Len(checker.scopes) \in Nat
      BY <1>3, <1>5, CheckerIs DEF SameTable
    <3>2. Len(checker.scopes) \in 1..Len(checker.scopes)
      BY <2>1, <3>1
    <3>3. DOMAIN e.scopes[Len(checker.scopes)] = DOMAIN checker.scopes[Len(checker.scopes)]
      BY <1>5, <3>2 DEF SameTable
    <3> QED BY <2>1, <2>2, <3>1, <3>3
  <2> QED BY <1>5, <2>3, TrackMoves DEF Names
<1>8. NoLessMoved(d, checker')
  <2>1. over # NoName => d.all[over] # 0 /\ Info(d, over).borrowsName # NoName
    BY <1>5, EndIs
  <2> QED BY <1>5, <2>1, GivenMoves
<1>9. NoLessMoved(checker, d)
  BY <1>3, <1>5, <1>6, <1>7, MovedSame
<1>10. NoLessMoved(checker, checker')
  <2>1. \A k \in 1..Len(checker.scopes) : k <= Len(d.scopes) =>
          DOMAIN checker.scopes[k] \subseteq DOMAIN d.scopes[k]
    BY <1>5, <1>7 DEF SameTable
  <2> QED BY <1>3, <1>5, <1>8, <1>9, <2>1, MovedSame
<1>11. /\ SameBlocks(blocks, blocks')
       /\ \A i \in 1..Len(blocks), n \in Name : Has(blocks', i, n) <=> Has(blocks, i, n)
       /\ \A i \in 1..Len(blocks), n \in Name : Has(blocks, i, n) =>
            SlotAt(blocks', i, n) = SlotAt(blocks, i, n)
       /\ Len(blocks') = Len(blocks)
  <2>1. r \notin Name
    BY NamesAssumption
  <2> QED BY <1>5, <2>1 DEF Declared, SameBlocks, SlotAt, Names
<1>12. SameControl(machine, machine')
  BY <1>2 DEF SameControl, SameButRead, SameButRefs
<1>13. Held(checker', blocks', machine') \subseteq Held(checker, blocks, machine)
  <2>1. \A i \in 1..Len(blocks) : Exec(machine', blocks', i) <=> Exec(machine, blocks, i)
    BY <1>3, <1>11, <1>12, ControlKept DEF Agree, Base
  <2>2. NamesFrom(blocks, machine, blocks', machine', {})
    BY <1>11, <2>1, SamePlaces DEF NamesFrom, SameBlocks
  <2>3. Base(checker, code, machine, blocks, hidden) /\ Base(checker', code', machine', blocks', hidden')
    BY DEF Agree
  <2>4. Held(checker', blocks', machine') \subseteq Held(checker, blocks, machine) \cup {}
    BY <1>10, <2>2, <2>3, HeldFrom
  <2> QED BY <2>4
<1>14. Droppable(code', blocks') \subseteq Droppable(code, blocks)
  <2>1. \A i \in 1..Len(blocks) : blocks[i].kind = "iflet" =>
           SlotAt(blocks', i, blocks[i].binding) = SlotAt(blocks, i, blocks[i].binding)
    <3>1. \A i \in 1..Len(blocks) : blocks[i].kind = "iflet" =>
            blocks[i].binding \in Name /\ Has(blocks, i, blocks[i].binding)
      <4>1. \A i \in 1..Len(blocks) : blocks[i] \in Blocks
        BY <1>3
      <4> QED BY <4>1, BlockIs DEF Has
    <3> QED BY <1>11, <3>1
  <2> QED BY <1>2, <1>3, <1>11, <2>1, DroppableKept DEF SameBlocks
<1> QED BY <1>2, <1>4, <1>13, <1>14, SoundKept DEF SoundNow, SameButRead, SameButRefs

\* The start of an if keeps what the slots hold and what was dropped right.
LEMMA IfSound ==
  ASSUME Agree, Agree', SoundNow, If
  PROVE  SoundNow'
<1>1. PICK b : IfFacts(b)
  BY IfIs
<1>2. /\ checker' = Sema!pushOwnershipScope(checker) /\ code' = code /\ Len(blocks) > 0
      /\ SameButRead(machine, current) /\ SameButControl(current, machine')
      /\ machine'.returned <=> machine.returned
  BY IfIs
<1>3. /\ IsChecker(checker) /\ checker.ok /\ blocks \in Seq(Blocks) /\ Len(blocks) \in Nat
      /\ code \in Generators
  BY AgreeIs
<1>4. /\ Pushed(blocks, blocks', b) /\ (b.reached <=> machine.running) /\ DOMAIN b.names = {}
      /\ (machine'.running <=> machine.running /\ b.taken) /\ b.kind = "then"
  BY <1>1 DEF IfFacts
<1>5. NoLessMoved(checker, checker')
  BY <1>2, <1>3, PushScopeIs DEF NoLessMoved
<1>6. Held(checker', blocks', machine') \subseteq Held(checker, blocks, machine)
  <2>1. \A i \in 1..Len(blocks) : Exec(machine', blocks', i) <=> Exec(machine, blocks, i)
    BY <1>2, <1>3, <1>4, ControlPushed DEF Agree, Base
  <2>2. NamesFrom(blocks, machine, blocks', machine', {})
    <3> SUFFICES ASSUME NEW i \in 1..Len(blocks'), NEW n \in Name, Has(blocks', i, n)
                 PROVE  /\ i \in 1..Len(blocks) /\ Has(blocks, i, n)
                        /\ SlotAt(blocks', i, n) = SlotAt(blocks, i, n)
                        /\ ScopeAt(blocks'[i], n) = ScopeAt(blocks[i], n)
                        /\ (Exec(machine', blocks', i) => Exec(machine, blocks, i))
      BY DEF NamesFrom
    <3>1. i \in 1..Len(blocks)
      BY <1>3, <1>4 DEF Pushed, Has
    <3>2. blocks'[i] = blocks[i]
      BY <1>4, <3>1 DEF Pushed
    <3> QED BY <2>1, <3>1, <3>2 DEF Has, SlotAt
  <2>3. Base(checker, code, machine, blocks, hidden) /\ Base(checker', code', machine', blocks', hidden')
    BY DEF Agree
  <2>4. Held(checker', blocks', machine') \subseteq Held(checker, blocks, machine) \cup {}
    BY <1>5, <2>2, <2>3, HeldFrom
  <2> QED BY <2>4
<1>7. Droppable(code', blocks') \subseteq Droppable(code, blocks)
  <2>0. /\ Len(blocks') = Len(blocks) + 1 /\ (\A i \in 1..Len(blocks) : blocks'[i] = blocks[i])
        /\ blocks'[Len(blocks) + 1] = b /\ b \in Blocks
    BY <1>4 DEF Pushed
  <2>1. b.saved = Generator
    BY <1>4, <2>0, BlockIs
  <2>2. b.saved.varStructTypes = {} /\ b.saved.movedVars = {}
    BY <2>1 DEF Generator
  <2>3. \A k \in 1..Len(blocks) + 1 : MovedFrom(code, blocks, k) \subseteq MovedFrom(code', blocks', k)
    <3> SUFFICES ASSUME NEW k \in 1..Len(blocks) + 1, NEW n \in MovedFrom(code, blocks, k)
                 PROVE  n \in MovedFrom(code', blocks', k)
      OBVIOUS
    <3>1. CASE n \in code.movedVars
      BY <1>2, <3>1 DEF MovedFrom
    <3>2. CASE n \notin code.movedVars
      <4>1. PICK l \in k..Len(blocks) : n \in blocks[l].saved.movedVars
        BY <3>2 DEF MovedFrom
      <4>2. l \in k..Len(blocks') /\ blocks'[l] = blocks[l]
        BY <1>3, <2>0, <4>1
      <4> QED BY <4>1, <4>2 DEF MovedFrom
    <3> QED BY <3>1, <3>2
  <2>4. ASSUME NEW s, FromSaved(code', blocks', s)
        PROVE  FromSaved(code, blocks, s)
    <3>1. PICK k \in 1..Len(blocks') :
                 \E n \in blocks'[k].saved.varStructTypes \ MovedFrom(code', blocks', k) :
                   s = blocks'[k].saved.namedValues[n]
      BY <2>4 DEF FromSaved
    <3>2. k # Len(blocks) + 1
      BY <2>0, <2>2, <3>1
    <3>3. k \in 1..Len(blocks) /\ k \in 1..Len(blocks) + 1
      BY <1>3, <2>0, <3>2
    <3> QED BY <2>0, <2>3, <3>1, <3>3 DEF FromSaved
  <2>5. ASSUME NEW s, FromBinding(code', blocks', s)
        PROVE  FromBinding(code, blocks, s)
    <3>1. PICK k \in 1..Len(blocks') : /\ blocks'[k].kind = "iflet"
                                 /\ blocks'[k].binding \notin MovedFrom(code', blocks', k + 1)
                                 /\ s = SlotAt(blocks', k, blocks'[k].binding)
      BY <2>5 DEF FromBinding
    <3>2. k # Len(blocks) + 1
      BY <1>4, <2>0, <3>1
    <3>3. k \in 1..Len(blocks) /\ k + 1 \in 1..Len(blocks) + 1
      BY <1>3, <2>0, <3>2
    <3> QED BY <2>0, <2>3, <3>1, <3>3 DEF FromBinding, SlotAt
  <2> QED BY <1>2, <2>4, <2>5, DroppableIs
<1> QED BY <1>2, <1>6, <1>7, SoundKept DEF SoundNow, SameButRead, SameButControl

-----------------------------------------------------------------------------
(* The block of an if let. *)

\* The names with the slot of x are x.
LEMMA SlotMeans ==
  ASSUME NEW g, NEW bs, NEW m, NEW hid, bs \in Seq(Blocks), GenInv(g, bs, m, hid),
         NEW i \in 1..Len(bs), NEW x \in Name, Has(bs, i, x)
  PROVE  /\ \A n \in g.varStructTypes : g.namedValues[n] = SlotAt(bs, i, x) => n = x
         /\ \A k \in 1..Len(bs) : \A n \in bs[k].saved.varStructTypes :
              bs[k].saved.namedValues[n] = SlotAt(bs, i, x) => n = x
         /\ \A k \in 1..Len(bs) : bs[k].kind = "iflet" =>
              /\ bs[k].binding \in Name /\ Has(bs, k, bs[k].binding)
              /\ SlotAt(bs, k, bs[k].binding) = SlotAt(bs, i, x) => k = i /\ bs[k].binding = x
<1>0. g \in Generators /\ SlotInv(Maps(g, bs), bs, m, i, x)
  BY DEF GenInv
<1>1. \A G \in Maps(g, bs) : G.namedValues \in [Name -> Nat] /\ G.varStructTypes \subseteq Name
  BY <1>0, MapsTyped
<1>2. Map(g) \in Maps(g, bs) /\ \A k \in 1..Len(bs) : Map(bs[k].saved) \in Maps(g, bs)
  BY DEF Maps
<1>3. \A G \in Maps(g, bs) : \A n \in G.varStructTypes : G.namedValues[n] = SlotAt(bs, i, x) => n = x
  BY <1>0, <1>1 DEF SlotInv
<1>4. \A n \in g.varStructTypes : g.namedValues[n] = SlotAt(bs, i, x) => n = x
  BY <1>2, <1>3 DEF Map
<1>5. \A k \in 1..Len(bs) : \A n \in bs[k].saved.varStructTypes :
              bs[k].saved.namedValues[n] = SlotAt(bs, i, x) => n = x
  BY <1>2, <1>3 DEF Map
<1>6. ASSUME NEW k \in 1..Len(bs), bs[k].kind = "iflet"
      PROVE  /\ bs[k].binding \in Name /\ Has(bs, k, bs[k].binding)
             /\ SlotAt(bs, k, bs[k].binding) = SlotAt(bs, i, x) => k = i /\ bs[k].binding = x
  <2>1. bs[k] \in Blocks
    OBVIOUS
  <2>2. bs[k].binding \in Name /\ Has(bs, k, bs[k].binding)
    BY <1>6, <2>1, BlockIs DEF Has
  <2> QED BY <1>0, <2>2 DEF SlotInv
<1> QED BY <1>4, <1>5, <1>6

\* An if let adds its binding to the droppable slots, and takes the optional's off.
LEMMA DroppableLet ==
  ASSUME NEW g, NEW bs, NEW m, NEW hid, bs \in Seq(Blocks), GenInv(g, bs, m, hid),
         NEW i \in 1..Len(bs), NEW x \in Name, Has(bs, i, x),
         NEW b, NEW bs2, Pushed(bs, bs2, b), NEW v \in Name, b.kind = "iflet", b.binding = v,
         NEW new, b.names[v].slot = new,
         b.saved.namedValues = g.namedValues, b.saved.varStructTypes = g.varStructTypes,
         b.saved.movedVars = g.movedVars \cup {x},
         NEW g2, NewMap(g, g2, v, new), g2.varStructTypes = g.varStructTypes \cup {v},
         g2.movedVars = (g.movedVars \cup {x}) \ {v}
  PROVE  Droppable(g2, bs2) \subseteq (Droppable(g, bs) \ {SlotAt(bs, i, x)}) \cup {new}
<1> DEFINE X == SlotAt(bs, i, x)
<1>0. /\ Len(bs2) = Len(bs) + 1 /\ (\A k \in 1..Len(bs) : bs2[k] = bs[k])
      /\ bs2[Len(bs) + 1] = b /\ Len(bs) \in Nat
  BY DEF Pushed
<1>g. g \in Generators /\ g.varStructTypes \subseteq Name
  BY GeneratorIs DEF GenInv
<1>1. \A k \in 1..Len(bs) + 1 : MovedFrom(g, bs, k) \cup {x} \subseteq MovedFrom(g2, bs2, k)
  <2> SUFFICES ASSUME NEW k \in 1..Len(bs) + 1, NEW n \in MovedFrom(g, bs, k) \cup {x}
               PROVE  n \in MovedFrom(g2, bs2, k)
    OBVIOUS
  <2>1. CASE n \in g.movedVars \cup {x}
    <3>1. Len(bs) + 1 \in k..Len(bs2)
      BY <1>0
    <3> QED BY <1>0, <2>1, <3>1 DEF MovedFrom
  <2>2. CASE n \notin g.movedVars \cup {x}
    <3>1. PICK l \in k..Len(bs) : n \in bs[l].saved.movedVars
      BY <2>2 DEF MovedFrom
    <3>2. l \in k..Len(bs2) /\ bs2[l] = bs[l]
      BY <1>0, <3>1
    <3> QED BY <3>1, <3>2 DEF MovedFrom
  <2> QED BY <2>1, <2>2
<1>2. /\ \A n \in g.varStructTypes : g.namedValues[n] = X => n = x
      /\ \A k \in 1..Len(bs) : \A n \in bs[k].saved.varStructTypes :
           bs[k].saved.namedValues[n] = X => n = x
      /\ \A k \in 1..Len(bs) : bs[k].kind = "iflet" =>
           (SlotAt(bs, k, bs[k].binding) = X => bs[k].binding = x)
  BY SlotMeans
<1> HIDE DEF X
<1>3. ASSUME NEW s, FromMap(g2, s)
      PROVE  s = new \/ (FromMap(g, s) /\ s # X)
  <2>1. PICK n \in g2.varStructTypes \ g2.movedVars : s = g2.namedValues[n]
    BY <1>3 DEF FromMap
  <2>2. CASE n = v
    BY <2>1, <2>2 DEF NewMap
  <2>3. CASE n # v
    <3>1. n \in g.varStructTypes \ g.movedVars /\ n # x /\ n \in Name
      BY <1>g, <2>3
    <3>2. s = g.namedValues[n]
      BY <2>1, <2>3, <3>1 DEF NewMap
    <3> QED BY <1>2, <3>1, <3>2 DEF FromMap
  <2> QED BY <2>2, <2>3
<1>4. ASSUME NEW s, FromSaved(g2, bs2, s)
      PROVE  (FromSaved(g, bs, s) \/ FromMap(g, s)) /\ s # X
  <2>1. PICK k \in 1..Len(bs2) : \E n \in bs2[k].saved.varStructTypes \ MovedFrom(g2, bs2, k) :
                   s = bs2[k].saved.namedValues[n]
    BY <1>4 DEF FromSaved
  <2>2. PICK n \in bs2[k].saved.varStructTypes \ MovedFrom(g2, bs2, k) :
                   s = bs2[k].saved.namedValues[n]
    BY <2>1
  <2>3. k \in 1..Len(bs) + 1
    BY <1>0
  <2>4. n # x /\ n \notin MovedFrom(g, bs, k)
    BY <1>1, <2>3
  <2>5. CASE k = Len(bs) + 1
    <3>1. n \in g.varStructTypes /\ s = g.namedValues[n]
      BY <1>0, <2>2, <2>5
    <3>2. n \notin g.movedVars
      BY <2>4 DEF MovedFrom
    <3> QED BY <1>2, <2>4, <3>1, <3>2 DEF FromMap
  <2>6. CASE k # Len(bs) + 1
    <3>1. k \in 1..Len(bs)
      BY <1>0, <2>3, <2>6, SMTT(60)
    <3>2. n \in bs[k].saved.varStructTypes /\ s = bs[k].saved.namedValues[n]
      BY <1>0, <2>2, <3>1
    <3> QED BY <1>2, <2>4, <3>1, <3>2 DEF FromSaved
  <2> QED BY <2>5, <2>6
<1>5. ASSUME NEW s, FromBinding(g2, bs2, s)
      PROVE  s = new \/ (FromBinding(g, bs, s) /\ s # X)
  <2>1. PICK k \in 1..Len(bs2) : /\ bs2[k].kind = "iflet"
                                 /\ bs2[k].binding \notin MovedFrom(g2, bs2, k + 1)
                                 /\ s = SlotAt(bs2, k, bs2[k].binding)
    BY <1>5 DEF FromBinding
  <2>2. CASE k = Len(bs) + 1
    BY <1>0, <2>1, <2>2 DEF SlotAt
  <2>3. CASE k # Len(bs) + 1
    <3>1. k \in 1..Len(bs) /\ k + 1 \in 1..Len(bs) + 1
      BY <1>0, <2>3
    <3>2. bs[k].kind = "iflet" /\ bs[k].binding \notin MovedFrom(g, bs, k + 1)
          /\ bs[k].binding # x /\ s = SlotAt(bs, k, bs[k].binding)
      BY <1>0, <1>1, <2>1, <3>1 DEF SlotAt
    <3> QED BY <1>2, <3>1, <3>2 DEF FromBinding
  <2> QED BY <2>2, <2>3
<1> QED BY <1>3, <1>4, <1>5, DroppableIs DEF X

\* The slots of the variables in the block of an if let.
LEMMA LetHeld ==
  ASSUME Agree, Agree', NEW v \in Name, NEW x \in Name, IfLet(v, x),
         NEW i, NEW e, NEW b, IfLetFacts(v, x, i, e, b)
  PROVE  /\ Held(checker', blocks', machine') \subseteq
              (Held(checker, blocks, machine) \ {Slot(x)}) \cup {Len(machine.slots) + 1}
         /\ ~machine'.running => Len(machine.slots) + 1 \notin Held(checker', blocks', machine')
<1>1. /\ Info(checker, x).state # "Moved" /\ SameTable(checker, e)
      /\ SetAt(checker, e, x, [Info(checker, x) EXCEPT !.state = "Moved"])
      /\ \A k \in 1..Len(checker.scopes) : checker'.scopes[k] = e.scopes[k]
      /\ b.binding = v /\ DOMAIN b.names = {v} /\ b.names[v] = Entry("struct", Len(machine.slots) + 1)
      /\ (b.reached <=> machine.running) /\ Pushed(blocks, blocks', b) /\ Meant(x, i)
      /\ (b.taken <=> machine.slots[Slot(x)].val \notin {Nothing, Garbage})
  BY DEF IfLetFacts
<1>2. /\ Slot(x) \in 1..Len(machine.slots)
      /\ i \in 1..Len(blocks) /\ Has(blocks, i, x) /\ Slot(x) = SlotAt(blocks, i, x)
      /\ checker.all[x] # 0 /\ checker.all[x] = ScopeAt(blocks[i], x)
  BY <1>1 DEF Meant
<1>3. /\ IsChecker(checker) /\ checker.ok /\ blocks \in Seq(Blocks) /\ Len(blocks) \in Nat
  BY AgreeIs
<1>4. Info(checker, x) \in Infos
  BY <1>2, <1>3, InfoIs DEF Names
<1>b. Base(checker, code, machine, blocks, hidden)
      /\ Base(checker', code', machine', blocks', hidden')
  BY DEF Agree
<1>e. /\ Base(e, code, machine, blocks, hidden)
      /\ Held(e, blocks, machine) \subseteq Held(checker, blocks, machine) \ {Slot(x)}
  BY <1>1, <1>2, <1>4, <1>b, MovedHeld
<1>5. NoLessMoved(e, checker')
  BY <1>1 DEF NoLessMoved, SameTable
<1>6. (machine'.running <=> machine.running /\ b.taken) /\ (machine'.returned <=> machine.returned)
  BY <1>1, <1>1, IfLetMachine DEF TakeFacts, IfLetFacts
<1>7. \A k \in 1..Len(blocks) : Exec(machine', blocks', k) <=> Exec(machine, blocks, k)
  BY <1>1, <1>2, <1>3, <1>6, ControlPushed DEF Agree, Base
<1>8. /\ Len(blocks') = Len(blocks) + 1 /\ blocks'[Len(blocks) + 1] = b
      /\ \A k \in 1..Len(blocks) : blocks'[k] = blocks[k]
  BY <1>1 DEF Pushed
<1>n. b.names[v].slot = Len(machine.slots) + 1
  BY <1>1 DEF Entry
<1>9. NamesFrom(blocks, machine, blocks', machine', {Len(machine.slots) + 1})
  <2> SUFFICES ASSUME NEW k \in 1..Len(blocks'), NEW n \in Name, Has(blocks', k, n)
               PROVE  \/ SlotAt(blocks', k, n) = Len(machine.slots) + 1
                      \/ /\ k \in 1..Len(blocks) /\ Has(blocks, k, n)
                         /\ SlotAt(blocks', k, n) = SlotAt(blocks, k, n)
                         /\ ScopeAt(blocks'[k], n) = ScopeAt(blocks[k], n)
                         /\ (Exec(machine', blocks', k) => Exec(machine, blocks, k))
    BY DEF NamesFrom
  <2>1. CASE k = Len(blocks) + 1
    <3>1. n = v
      BY <1>1, <1>8, <2>1 DEF Has
    <3> QED BY <1>8, <1>n, <2>1, <3>1 DEF SlotAt
  <2>2. CASE k # Len(blocks) + 1
    <3>1. k \in 1..Len(blocks)
      BY <1>3, <1>8, <2>2
    <3>2. blocks'[k] = blocks[k]
      BY <1>8, <3>1
    <3> QED BY <1>7, <3>1, <3>2 DEF Has, SlotAt
  <2> QED BY <2>1, <2>2
<1>10. Held(checker', blocks', machine') \subseteq
         Held(e, blocks, machine) \cup {Len(machine.slots) + 1}
  BY <1>5, <1>9, <1>b, <1>e, HeldFrom
<1>11. ASSUME ~machine'.running
       PROVE  Len(machine.slots) + 1 \notin Held(checker', blocks', machine')
  <2>1. Len(blocks') \in 1..Len(blocks') /\ Has(blocks', Len(blocks'), v)
        /\ SlotAt(blocks', Len(blocks'), v) = Len(machine.slots) + 1
    BY <1>1, <1>3, <1>8, <1>n DEF Has, SlotAt
  <2>2. ~Exec(machine', blocks', Len(blocks'))
    BY <1>11 DEF Exec
  <2> QED BY <1>b, <2>1, <2>2, HeldNot
<1> QED BY <1>10, <1>11, <1>e

\* A machine with a new slot, in which nothing was stored.
LEMMA GrownSound ==
  ASSUME Agree, SoundNow, Len(blocks) > 0, NEW valued, SameButRead(machine, valued),
         NEW t, NEW bound, Grown(valued, bound, t),
         NEW c, NEW g, NEW m, NEW bs,
         m.slots = bound.slots, m.home = bound.home, m.drops = bound.drops,
         m.returned <=> machine.returned, Len(bs) > 0,
         Held(c, bs, m) \subseteq Held(checker, blocks, machine),
         Droppable(g, bs) \subseteq Droppable(code, blocks) \cup {Len(machine.slots) + 1}
  PROVE  Sound(c, g, m, bs)
<1>1. /\ valued.slots = machine.slots /\ valued.home = machine.home /\ valued.drops = machine.drops
      /\ machine \in Machines /\ Len(machine.slots) \in Nat /\ DOMAIN m.home = 1..Len(m.home)
  BY AgreeIs, MachineIs DEF SameButRead, Grown, MachineInv
<1>2. /\ m.home = machine.home /\ m.drops = machine.drops
      /\ \A s \in 1..Len(machine.slots) : m.slots[s] = machine.slots[s]
      /\ m.slots[Len(machine.slots) + 1] = [type |-> t, val |-> Garbage]
  BY <1>1 DEF Grown
<1>3. Droppable(code, blocks) \in SUBSET (1..Len(machine.slots))
  BY AgreeIs, DroppableSlots DEF MapsAgree
<1>4. Held(checker, blocks, machine) \subseteq 1..Len(machine.slots)
  BY DEF Held
<1>5. ValuesInv(c, bs, m)
  BY <1>2, <1>4, SameHolds DEF SoundNow, Sound, ValuesInv
<1>6. FitsInv(g, bs, m)
  <2>1. Fits(m, Len(machine.slots) + 1)
    BY <1>1, <1>2, ValuesAssumption DEF Fits
  <2> QED BY <1>2, <1>3, <2>1, SameHolds DEF SoundNow, Sound, FitsInv
<1>7. DropsInv(m)
  BY <1>2 DEF SoundNow, Sound, DropsInv
<1> QED BY <1>5, <1>6, <1>7 DEF Sound

\* The slots H hold in m, the slots D fit, and every value was dropped once.
Followed(m, H, D) ==
  (\A k \in H : Holds(m, k)) /\ (\A k \in D : Fits(m, k)) /\ DropsDone(m)

\* A machine with a new slot, in which a value was stored that a slot X gave up.
LEMMA GrownStored ==
  ASSUME Agree, SoundNow, Len(blocks) > 0, machine.running,
         NEW valued, SameButRead(machine, valued), NEW t, NEW bound, Grown(valued, bound, t),
         NEW X, NEW v, v \in (1..Len(machine.home) + 1) \cup {Nothing},
         v \in DOMAIN machine.home =>
           X \in Held(checker, blocks, machine) /\ machine.slots[X].val = v,
         NEW m, m = store(bound, Len(machine.slots) + 1, v)
  PROVE  Followed(m, (Held(checker, blocks, machine) \ {X}) \cup {Len(machine.slots) + 1},
                  (Droppable(code, blocks) \ {X}) \cup {Len(machine.slots) + 1})
<1> DEFINE H == Held(checker, blocks, machine)
           D == Droppable(code, blocks)
           new == Len(machine.slots) + 1
<1>1. /\ valued.slots = machine.slots /\ valued.home = machine.home /\ valued.drops = machine.drops
      /\ (valued.running <=> machine.running)
      /\ machine \in Machines /\ Len(machine.slots) \in Nat /\ MachineInv(bound)
  BY AgreeIs, MachineIs DEF SameButRead, Grown
<1>2. /\ bound.home = machine.home /\ bound.drops = machine.drops /\ bound.running
      /\ Len(bound.slots) = new
      /\ \A s \in 1..Len(machine.slots) : bound.slots[s] = machine.slots[s]
  BY <1>1 DEF Grown, SameControl
<1>3. /\ DropsDone(machine) /\ H \in SUBSET (1..Len(machine.slots))
      /\ D \in SUBSET (1..Len(machine.slots))
      /\ (\A k \in H : Holds(machine, k)) /\ \A k \in D : Fits(machine, k)
  BY SoundSets
<1>4. DropsDone(bound)
  BY <1>2, <1>3 DEF DropsDone
<1>5. (\A k \in H : Holds(bound, k)) /\ \A k \in D : Fits(bound, k)
  BY <1>2, <1>3, SameHolds
<1>6. 1..Len(machine.slots) \subseteq 1..Len(bound.slots) /\ new \in 1..Len(bound.slots)
  BY <1>1, <1>2
<1> DEFINE H2 == H \ {X}
           D2 == D \ {X}
<1>7. H2 \in SUBSET (1..Len(bound.slots)) /\ D2 \in SUBSET (1..Len(bound.slots))
      /\ (\A k \in H2 : Holds(bound, k)) /\ \A k \in D2 : Fits(bound, k)
  BY <1>3, <1>5, <1>6
<1>8. v \in DOMAIN bound.home =>
        \E y \in 1..Len(bound.slots) : bound.slots[y].val = v /\ Fits(bound, y) /\ y \notin H2 \cup D2
  <2> SUFFICES ASSUME v \in DOMAIN bound.home
               PROVE  /\ X \in 1..Len(bound.slots) /\ bound.slots[X].val = v /\ Fits(bound, X)
                      /\ X \notin H2 \cup D2
    OBVIOUS
  <2>1. X \in H /\ machine.slots[X].val = v
    BY <1>2
  <2> QED BY <1>2, <1>3, <1>5, <1>6, <2>1, HoldsFits
<1>9. v \in (1..Len(bound.home) + 1) \cup {Nothing} /\ m = store(bound, new, v)
  BY <1>2
<1> HIDE DEF H, D, H2, D2, new
<1>10. /\ \A k \in H2 \cup {new} : Holds(m, k)
       /\ \A k \in D2 \cup {new} : Fits(m, k)
       /\ DropsDone(m)
  <2>1. MachineInv(bound) /\ bound.running /\ DropsDone(bound) /\ new \in 1..Len(bound.slots)
    BY <1>1, <1>2, <1>4, <1>6
  <2>2. H2 \in SUBSET (1..Len(bound.slots)) /\ D2 \in SUBSET (1..Len(bound.slots))
    BY <1>7
  <2>3. (\A k \in H2 : Holds(bound, k)) /\ (\A k \in D2 : Fits(bound, k))
    BY <1>7
  <2> QED BY <1>8, <1>9, <2>1, <2>2, <2>3, StoreSound, ZenonT(60)
<1> QED BY <1>10 DEF H2, D2, new, H, D, Followed

\* The start of an if let keeps what the slots hold and what was dropped right.
LEMMA IfLetSound ==
  ASSUME Agree, Agree', SoundNow, NEW v \in Name, NEW x \in Name, IfLet(v, x)
  PROVE  SoundNow'
<1> DEFINE new == Len(machine.slots) + 1
           val == machine.slots[Slot(x)].val
           taken == val \notin {Nothing, Garbage}
           H == Held(checker, blocks, machine)
           D == Droppable(code, blocks)
<1>0. Len(blocks) > 0 /\ blocks \in Seq(Blocks) /\ Len(blocks) \in Nat
  BY AgreeIs, IfLetHead
<1>1. PICK i, e, b : IfLetFacts(v, x, i, e, b)
  BY IfLetHead
<1>2. Meant(x, i) /\ Type(x) = "optional" /\ Pushed(blocks, blocks', b)
  BY <1>1 DEF IfLetFacts
<1>3. PICK loaded, bound : TakeFacts(x, taken, loaded, bound)
  BY <1>2, IfLetMachine
<1>4. /\ SameButRead(machine, loaded) /\ Grown(loaded, bound, "struct")
      /\ (machine'.running <=> machine.running /\ taken) /\ (machine'.returned <=> machine.returned)
  BY <1>3 DEF TakeFacts
<1>5. Slot(x) \in 1..Len(machine.slots) /\ i \in 1..Len(blocks) /\ Has(blocks, i, x)
      /\ Slot(x) = SlotAt(blocks, i, x)
  BY <1>2 DEF Meant
<1>6. /\ Held(checker', blocks', machine') \subseteq (H \ {Slot(x)}) \cup {new}
      /\ ~machine'.running => new \notin Held(checker', blocks', machine')
  BY <1>1, LetHeld
<1>7. Droppable(code', blocks') \subseteq (D \ {Slot(x)}) \cup {new}
  <2>1. b.names[v].slot = new
    BY <1>1 DEF IfLetFacts, Entry
  <2>2. GenInv(code, blocks, machine, hidden)
    BY DEF Agree, Base
  <2>3. /\ b.kind = "iflet" /\ b.binding = v
        /\ b.saved.namedValues = code.namedValues /\ b.saved.varStructTypes = code.varStructTypes
        /\ b.saved.movedVars = code.movedVars \cup {x}
        /\ NewMap(code, code', v, new)
        /\ code'.varStructTypes = code.varStructTypes \cup {v}
        /\ code'.movedVars = (code.movedVars \cup {x}) \ {v}
    BY <1>1 DEF IfLetFacts
  <2> QED BY <1>0, <1>2, <1>5, <2>1, <2>2, <2>3, DroppableLet
<1>8. Len(blocks') > 0
  BY <1>0, <1>2 DEF Pushed
<1>9. CASE machine.running /\ taken
  <2> DEFINE stored == store(bound, new, val)
  <2>1. val \in DOMAIN machine.home /\ MachineInv(stored) /\ machine' = Clear(stored, Slot(x))
    BY <1>3, <1>9 DEF TakeFacts
  <2>2. Info(checker, x).state # "Moved" /\ Info(checker, x) = InfoAt(checker, blocks[i], x)
    BY <1>1, <1>2 DEF IfLetFacts, Meant
  <2>3. Slot(x) \in H
    <3>1. Exec(machine, blocks, i)
      BY <1>0, <1>5, <1>9, RunsIs DEF Agree, Base
    <3> QED BY <1>5, <2>2, <3>1, HeldIs DEF Agree
  <2>4. val \in (1..Len(machine.home) + 1) \cup {Nothing}
    <3>1. machine \in Machines
      BY AgreeIs
    <3> QED BY <2>1, <3>1, MachineIs
  <2> HIDE DEF val, taken
  <2>5. /\ \A k \in (H \ {Slot(x)}) \cup {new} : Holds(stored, k)
        /\ \A k \in (D \ {Slot(x)}) \cup {new} : Fits(stored, k)
        /\ DropsDone(stored)
    <3>1. val \in DOMAIN machine.home =>
            Slot(x) \in Held(checker, blocks, machine) /\ machine.slots[Slot(x)].val = val
      BY <2>3 DEF val
    <3>2. machine.running
      BY <1>9
    <3>3. Followed(stored, (H \ {Slot(x)}) \cup {new}, (D \ {Slot(x)}) \cup {new})
      BY <1>0, <1>4, <2>4, <3>1, <3>2, GrownStored, ZenonT(60)
    <3> HIDE DEF stored, H, D, new
    <3> QED BY <3>3 DEF Followed
  <2>6. stored \in Machines /\ Len(stored.slots) = new
    <3>1. Stays(bound, stored)
      <4>1. Len(bound.slots) = new /\ bound.home = machine.home
            /\ bound.slots[new].type = "struct" /\ MachineInv(bound) /\ Len(machine.slots) \in Nat
        BY <1>4, AgreeIs, MachineIs DEF Grown, SameButRead
      <4>2. Storable(bound, new, val)
        BY <2>1, <2>4, <4>1, AgreeIs, MachineIs DEF Storable
      <4>3. new \in 1..Len(bound.slots)
        BY <4>1
      <4> QED BY <4>1, <4>2, <4>3, StoreStays
    <3>2. Len(stored.slots) = Len(bound.slots)
      BY <3>1 DEF Stays, SlotsKept
    <3> QED BY <1>4, <2>1, <3>2 DEF Grown, SameButRead, MachineInv
  <2> HIDE DEF stored
  <2>7. /\ SameButMemory(stored, machine') /\ machine'.home = stored.home
        /\ \A k \in 1..Len(stored.slots) :
              /\ machine'.slots[k].type = stored.slots[k].type
              /\ machine'.slots[k].val = IF k = Slot(x) THEN Nothing ELSE stored.slots[k].val
    <3> DEFINE m2 == Clear(stored, Slot(x))
    <3>1. Slot(x) \in 1..Len(stored.slots)
      BY <1>5, <2>6, AgreeIs, MachineIs
    <3>2. /\ SameButMemory(stored, m2) /\ m2.home = stored.home
          /\ \A k \in 1..Len(stored.slots) :
              /\ m2.slots[k].type = stored.slots[k].type
              /\ m2.slots[k].val = IF k = Slot(x) THEN Nothing ELSE stored.slots[k].val
      BY <2>6, <3>1, ClearIs
    <3>3. machine' = m2
      BY <2>1
    <3> HIDE DEF m2
    <3> QED BY <3>2, <3>3
  <2>8. ASSUME NEW k \in 1..Len(stored.slots), k # Slot(x)
        PROVE  (Holds(stored, k) => Holds(machine', k)) /\ (Fits(stored, k) => Fits(machine', k))
    BY <2>7, <2>8 DEF Holds, Fits
  <2>9. /\ (H \ {Slot(x)}) \cup {new} \subseteq 1..Len(stored.slots)
        /\ (D \ {Slot(x)}) \cup {new} \subseteq 1..Len(stored.slots)
        /\ Slot(x) # new
    <3>1. D \in SUBSET (1..Len(machine.slots))
      BY AgreeIs, DroppableSlots DEF MapsAgree
    <3>2. H \subseteq 1..Len(machine.slots)
      BY DEF Held
    <3>3. Len(machine.slots) \in Nat
      BY AgreeIs, MachineIs
    <3> QED BY <1>5, <2>6, <3>1, <3>2, <3>3
  <2> HIDE DEF H, D, new
  <2>10. /\ \A k \in (H \ {Slot(x)}) \cup {new} : Holds(machine', k)
         /\ \A k \in (D \ {Slot(x)}) \cup {new} : Fits(machine', k)
    BY <2>5, <2>8, <2>9
  <2>11. DropsDone(machine')
    BY <2>5, <2>7 DEF SameButMemory, DropsDone
  <2> QED BY <1>6, <1>7, <2>10, <2>11, SoundMade DEF SoundNow
<1>10. CASE ~(machine.running /\ taken)
  <2> DEFINE m2 == Run(bound, FALSE)
  <2>1. machine' = m2
    BY <1>3, <1>10 DEF TakeFacts
  <2>2. bound \in Machines
    BY <1>4 DEF Grown, MachineInv
  <2>3. SameButControl(bound, m2)
    BY <2>2, RunIs
  <2> HIDE DEF m2
  <2>4. machine'.slots = bound.slots /\ machine'.home = bound.home /\ machine'.drops = bound.drops
    BY <2>1, <2>3 DEF SameButControl
  <2>5. ~machine'.running
    BY <1>4, <1>10
  <2>6. Held(checker', blocks', machine') \subseteq H /\ Droppable(code', blocks') \subseteq D \cup {new}
    BY <1>6, <1>7, <2>5
  <2> QED BY <1>0, <1>4, <1>8, <2>4, <2>6, GrownSound DEF SoundNow
<1> QED BY <1>9, <1>10

-----------------------------------------------------------------------------
(* Declarations. *)

\* The generator does not forget a move that a saved map, or a binding, relies on.
Remembers(g, bs, n, src) ==
  \A k \in 1..Len(bs) : bs[k].kind = "iflet" =>
    /\ n \in g.movedVars => n \in bs[k].saved.movedVars /\ n # bs[k].binding
    /\ n # src

\* Where the generator does not forget a move, it remembers it.
LEMMA RemembersIs ==
  ASSUME Agree, NEW n, NEW src, ~ForgetsMove(n, src)
  PROVE  Remembers(code, blocks, n, src)
<1>1. DOMAIN blocks = 1..Len(blocks)
  BY AgreeIs
<1> QED BY <1>1 DEF ForgetsMove, Remembers

\* Only the maps of an if let have names.
LEMMA SavedKind ==
  ASSUME NEW bs, bs \in Seq(Blocks), NEW k \in 1..Len(bs), NEW n \in bs[k].saved.varStructTypes
  PROVE  bs[k].kind = "iflet"
<1>1. bs[k] \in Blocks
  OBVIOUS
<1>2. bs[k].kind # "iflet" => bs[k].saved = Generator
  BY <1>1, BlockIs
<1> QED BY <1>2 DEF Generator

\* A declaration makes no slot droppable but its own.
LEMMA DroppableDeclared ==
  ASSUME NEW g, NEW bs, bs \in Seq(Blocks), g \in Generators, NEW n \in Name,
         NEW bs2, NEW e, Declared(bs, bs2, n, e), NEW new, NEW g2, NewMap(g, g2, n, new),
         g.movedVars \ {n} \subseteq g2.movedVars, NEW src, Remembers(g, bs, n, src)
  PROVE  Droppable(g2, bs2) \subseteq Droppable(g, bs) \cup {new}
<1>0. /\ Len(bs2) = Len(bs) /\ Len(bs) \in Nat
      /\ \A k \in 1..Len(bs) : bs2[k].saved = bs[k].saved /\ bs2[k].kind = bs[k].kind
                               /\ bs2[k].binding = bs[k].binding
      /\ \A k \in 1..Len(bs), a \in Names : Has(bs, k, a) => bs2[k].names[a] = bs[k].names[a]
  BY DEF Declared, SameBlock
<1>g. g.varStructTypes \subseteq Name /\ g2.varStructTypes \subseteq Name
  BY GeneratorIs DEF NewMap
<1>1. \A k \in 1..Len(bs) + 1 : MovedFrom(g, bs, k) \ {n} \subseteq MovedFrom(g2, bs2, k)
  <2> SUFFICES ASSUME NEW k \in 1..Len(bs) + 1, NEW a \in MovedFrom(g, bs, k), a # n
               PROVE  a \in MovedFrom(g2, bs2, k)
    OBVIOUS
  <2>1. CASE a \in g.movedVars
    BY <2>1 DEF MovedFrom
  <2>2. CASE a \notin g.movedVars
    <3>1. PICK l \in k..Len(bs) : a \in bs[l].saved.movedVars
      BY <2>2 DEF MovedFrom
    <3>2. l \in k..Len(bs2) /\ bs2[l].saved = bs[l].saved
      BY <1>0, <3>1
    <3> QED BY <3>1, <3>2 DEF MovedFrom
  <2> QED BY <2>1, <2>2
<1>2. \A k \in 1..Len(bs), l \in 1..Len(bs) : k <= l =>
        bs[l].saved.movedVars \subseteq MovedFrom(g2, bs2, k)
  <2> SUFFICES ASSUME NEW k \in 1..Len(bs), NEW l \in 1..Len(bs), k <= l
               PROVE  bs[l].saved.movedVars \subseteq MovedFrom(g2, bs2, k)
    OBVIOUS
  <2>1. l \in k..Len(bs2) /\ bs2[l].saved = bs[l].saved
    BY <1>0
  <2> QED BY <2>1 DEF MovedFrom
<1>3. ASSUME NEW s, FromMap(g2, s)
      PROVE  s = new \/ FromMap(g, s)
  <2>1. PICK a \in g2.varStructTypes \ g2.movedVars : s = g2.namedValues[a]
    BY <1>3 DEF FromMap
  <2>2. CASE a = n
    BY <2>1, <2>2 DEF NewMap
  <2>3. CASE a # n
    <3>1. a \in g.varStructTypes \ g.movedVars /\ s = g.namedValues[a]
      BY <1>g, <2>1, <2>3 DEF NewMap
    <3> QED BY <3>1 DEF FromMap
  <2> QED BY <2>2, <2>3
<1>4. ASSUME NEW s, FromSaved(g2, bs2, s)
      PROVE  FromSaved(g, bs, s)
  <2>1. PICK k \in 1..Len(bs2) : \E a \in bs2[k].saved.varStructTypes \ MovedFrom(g2, bs2, k) :
                   s = bs2[k].saved.namedValues[a]
    BY <1>4 DEF FromSaved
  <2>2. PICK a \in bs2[k].saved.varStructTypes \ MovedFrom(g2, bs2, k) :
                   s = bs2[k].saved.namedValues[a]
    BY <2>1
  <2>3. k \in 1..Len(bs) /\ k \in 1..Len(bs) + 1 /\ bs2[k].saved = bs[k].saved
    BY <1>0
  <2>4. a \in bs[k].saved.varStructTypes /\ s = bs[k].saved.namedValues[a]
    BY <2>2, <2>3
  <2>5. a \notin MovedFrom(g, bs, k)
    <3> SUFFICES ASSUME a \in MovedFrom(g, bs, k)
                 PROVE  FALSE
      OBVIOUS
    <3>1. a = n
      BY <1>1, <2>2, <2>3
    <3>2. \A l \in k..Len(bs) : a \notin bs[l].saved.movedVars
      <4>1. \A l \in k..Len(bs) : l \in 1..Len(bs) /\ k <= l
        BY <2>3
      <4> QED BY <1>2, <2>2, <2>3, <4>1
    <3>3. n \in g.movedVars
      BY <3>1, <3>2 DEF MovedFrom
    <3>4. bs[k].kind = "iflet"
      BY <2>3, <2>4, SavedKind
    <3>5. n \in bs[k].saved.movedVars
      BY <2>3, <3>3, <3>4 DEF Remembers
    <3>6. k \in k..Len(bs)
      BY <2>3
    <3> QED BY <3>1, <3>2, <3>5, <3>6
  <2> QED BY <2>3, <2>4, <2>5 DEF FromSaved
<1>5. ASSUME NEW s, FromBinding(g2, bs2, s)
      PROVE  FromBinding(g, bs, s)
  <2>1. PICK k \in 1..Len(bs2) : /\ bs2[k].kind = "iflet"
                                 /\ bs2[k].binding \notin MovedFrom(g2, bs2, k + 1)
                                 /\ s = SlotAt(bs2, k, bs2[k].binding)
    BY <1>5 DEF FromBinding
  <2>2. k \in 1..Len(bs) /\ k + 1 \in 1..Len(bs) + 1
    BY <1>0
  <2>3. bs[k].kind = "iflet" /\ bs2[k].binding = bs[k].binding /\ bs[k] \in Blocks
    BY <1>0, <2>1, <2>2
  <2>4. bs[k].binding \in Name /\ Has(bs, k, bs[k].binding)
    BY <2>3, BlockIs DEF Has
  <2>5. s = SlotAt(bs, k, bs[k].binding)
    BY <1>0, <2>1, <2>2, <2>3, <2>4 DEF SlotAt, Names
  <2>6. bs[k].binding \notin MovedFrom(g, bs, k + 1)
    <3> SUFFICES ASSUME bs[k].binding \in MovedFrom(g, bs, k + 1)
                 PROVE  FALSE
      OBVIOUS
    <3>1. bs[k].binding = n
      BY <1>1, <2>1, <2>2, <2>3
    <3>2. n \notin g.movedVars
      BY <2>2, <2>3, <3>1 DEF Remembers
    <3>3. PICK l \in k + 1..Len(bs) : n \in bs[l].saved.movedVars
      BY <3>1, <3>2 DEF MovedFrom
    <3>4. l \in k + 1..Len(bs2) /\ bs2[l].saved = bs[l].saved
      BY <1>0, <2>2, <3>3
    <3> QED BY <2>1, <2>3, <3>1, <3>3, <3>4 DEF MovedFrom
  <2> QED BY <2>2, <2>3, <2>5, <2>6 DEF FromBinding
<1> QED BY <1>3, <1>4, <1>5, DroppableIs

\* The source of a move is not dropped.
LEMMA SourceNotDroppable ==
  ASSUME NEW g, NEW bs, bs \in Seq(Blocks), NEW m, NEW hid, GenInv(g, bs, m, hid), NEW n \in Name,
         NEW bs2, bs2 \in Seq(Blocks), NEW e, Declared(bs, bs2, n, e), NEW new, NEW g2, NewMap(g, g2, n, new),
         NEW m2, NEW hid2, GenInv(g2, bs2, m2, hid2),
         NEW src \in Name, Remembers(g, bs, n, src),
         NEW i \in 1..Len(bs), Has(bs, i, src), g.namedValues[src] = SlotAt(bs, i, src),
         src \in g2.varStructTypes => src \in g2.movedVars, SlotAt(bs, i, src) # new
  PROVE  SlotAt(bs, i, src) \notin Droppable(g2, bs2)
<1>0. /\ Len(bs2) = Len(bs) /\ Len(bs) \in Nat
      /\ \A k \in 1..Len(bs) : bs2[k].kind = bs[k].kind
      /\ Has(bs2, i, src) /\ SlotAt(bs2, i, src) = SlotAt(bs, i, src)
  BY DEF Declared, SameBlock, SlotAt, Names
<1>1. CASE n # src
  <2>1. g2.namedValues[src] = SlotAt(bs2, i, src)
    BY <1>0, <1>1 DEF NewMap
  <2>2. i \in 1..Len(bs2)
    BY <1>0
  <2>3. SlotAt(bs2, i, src) \notin Droppable(g2, bs2)
    BY <1>0, <2>1, <2>2, NotDroppable
  <2> QED BY <1>0, <2>3
<1>2. CASE n = src
  <2>1. \A k \in 1..Len(bs2) : bs2[k].kind # "iflet"
    BY <1>0, <1>2 DEF Remembers
  <2>2. ~FromBinding(g2, bs2, SlotAt(bs, i, src))
    BY <2>1 DEF FromBinding
  <2>3. ~FromSaved(g2, bs2, SlotAt(bs, i, src))
    BY <2>1, SavedKind DEF FromSaved
  <2>4. ~FromMap(g2, SlotAt(bs, i, src))
    <3> SUFFICES ASSUME NEW a \in g2.varStructTypes \ g2.movedVars,
                        SlotAt(bs, i, src) = g2.namedValues[a]
                 PROVE  FALSE
      BY DEF FromMap
    <3>1. a \in Name
      BY GeneratorIs DEF NewMap
    <3>2. a # n
      BY <3>1 DEF NewMap
    <3>3. a \in g.varStructTypes /\ g.namedValues[a] = SlotAt(bs, i, src)
      BY <3>1, <3>2 DEF NewMap
    <3>4. a = src
      BY <3>3, SlotMeans
    <3> QED BY <1>2, <3>2, <3>4
  <2> QED BY <2>2, <2>3, <2>4, DroppableIs
<1> QED BY <1>1, <1>2

\* The source of a declaration, when it has one, is moved.
LEMMA SourceMoved ==
  ASSUME Agree, NEW src \in Name, NEW i, Meant(src, i),
         NEW e, e = Sema!visitValue(checker, src), e.ok, SameTable(checker, e)
  PROVE  /\ Base(e, code, machine, blocks, hidden)
         /\ Held(e, blocks, machine) \subseteq Held(checker, blocks, machine) \ {Slot(src)}
         /\ machine.running => Slot(src) \in Held(checker, blocks, machine)
         /\ Info(checker, src).borrowCount = 0 /\ ~Info(checker, src).hasMutableBorrow
         /\ SetAt(checker, e, src, [Info(checker, src) EXCEPT !.state = "Moved"])
<1>1. /\ i \in 1..Len(blocks) /\ Has(blocks, i, src) /\ Slot(src) = SlotAt(blocks, i, src)
      /\ checker.all[src] # 0 /\ checker.all[src] = ScopeAt(blocks[i], src)
      /\ Info(checker, src) = InfoAt(checker, blocks[i], src)
  BY DEF Meant
<1>2. IsChecker(checker) /\ checker.ok /\ blocks \in Seq(Blocks)
  BY AgreeIs
<1>3. /\ Info(checker, src).state # "Moved"
      /\ Info(checker, src).borrowCount = 0 /\ ~Info(checker, src).hasMutableBorrow
      /\ SetAt(checker, e, src, [Info(checker, src) EXCEPT !.state = "Moved"])
  BY <1>1, <1>2, VisitValueIs
<1>4. Info(checker, src) \in Infos
  BY <1>1, <1>2, InfoIs DEF Names
<1>5. Base(checker, code, machine, blocks, hidden)
  BY DEF Agree
<1>6. /\ Base(e, code, machine, blocks, hidden)
      /\ Held(e, blocks, machine) \subseteq Held(checker, blocks, machine) \ {Slot(src)}
  BY <1>1, <1>3, <1>4, <1>5, MovedHeld
<1>7. machine.running => Slot(src) \in Held(checker, blocks, machine)
  <2> SUFFICES ASSUME machine.running
               PROVE  Slot(src) \in Held(checker, blocks, machine)
    OBVIOUS
  <2>1. Exec(machine, blocks, i)
    BY <1>1, <1>2, RunsIs DEF Agree, Base
  <2> QED BY <1>1, <1>3, <1>5, <2>1, HeldIs
<1> QED BY <1>3, <1>6, <1>7

\* The checker after a declaration has not less moved than after the value was visited.
LEMMA DeclareMoves ==
  ASSUME Agree, NEW n \in Name, NEW t, NEW v, NEW src, NEW e, NEW d, NEW valued, NEW bound, NEW r,
         DeclareFacts(n, t, v, src, e, d, valued, bound, r)
  PROVE  NoLessMoved(e, checker')
<1>1. /\ SameTable(checker, e) /\ Records(n, Sema!OwnershipInfo(TRUE, TRUE))
      /\ d = Sema!trackVariable(e, n, Sema!OwnershipInfo(TRUE, TRUE))
      /\ IsChecker(d) /\ d.ok /\ r \in RefName \cup {NoName} /\ EndStatement(d, r)
      /\ checker' = Given(d, r) /\ SameTable(d, checker')
      /\ Len(blocks) > 0 /\ ~Has(blocks, Len(blocks), n)
  BY DEF DeclareFacts
<1>2. IsChecker(checker) /\ blocks \in Seq(Blocks) /\ Len(blocks) \in Nat
  BY AgreeIs
<1>3. IsChecker(e) /\ Len(e.scopes) > 0 /\ n \notin DOMAIN e.scopes[Len(e.scopes)]
  <2>1. /\ blocks[Len(blocks)].scope = Len(checker.scopes)
        /\ Len(checker.scopes) > 0 /\ Len(blocks) \in 1..Len(blocks)
    <3>1. ShapeInv(checker, blocks)
      BY DEF Agree, Base
    <3> QED BY <1>1, <1>2, <3>1, BodyIs, Bounds
  <2>2. n \notin DOMAIN checker.scopes[Len(checker.scopes)]
    BY <1>1, <1>2, <2>1 DEF Agree, Base, ShapeInv, Has
  <2>3. Len(e.scopes) = Len(checker.scopes) /\ IsChecker(e) /\ Len(checker.scopes) \in Nat
    BY <1>1, <1>2, CheckerIs DEF SameTable
  <2>4. Len(checker.scopes) \in 1..Len(checker.scopes)
    BY <2>1, <2>3
  <2>5. DOMAIN e.scopes[Len(checker.scopes)] = DOMAIN checker.scopes[Len(checker.scopes)]
    BY <1>1, <2>4 DEF SameTable
  <2> QED BY <2>1, <2>2, <2>3, <2>5
<1>4. NoLessMoved(e, d) /\ (\A k \in 1..Len(e.scopes) : DOMAIN e.scopes[k] \subseteq DOMAIN d.scopes[k])
      /\ Len(d.scopes) = Len(e.scopes)
  <2>1. PICK info : Records(n, info) /\ d = Sema!trackVariable(e, n, info)
    BY <1>1
  <2> QED BY <1>3, <2>1, TrackMoves DEF Names
<1>5. NoLessMoved(d, checker')
  <2>1. r # NoName => d.all[r] # 0 /\ Info(d, r).borrowsName # NoName
    BY <1>1, EndIs
  <2> QED BY <1>1, <2>1, GivenMoves
<1> QED BY <1>1, <1>3, <1>4, <1>5, MovedSame

\* The slots of the variables after a declaration.
LEMMA DeclareHeld ==
  ASSUME Agree, NEW n \in Name, NEW t, NEW v, NEW src, NEW optional, NEW struct, NEW moves,
         NEW e, NEW d, NEW valued, NEW bound, NEW r,
         DeclFacts(n, t, v, src, optional, struct, moves, e, d, valued, bound, r),
         Base(e, code, machine, blocks, hidden)
  PROVE  /\ Held(checker', blocks', machine') \subseteq
              Held(e, blocks, machine) \cup {Len(machine.slots) + 1}
         /\ ~machine.running => Len(machine.slots) + 1 \notin Held(checker', blocks', machine')
<1>1. /\ DeclareFacts(n, t, v, src, e, d, valued, bound, r)
      /\ Agree' /\ SameControl(machine, machine')
  BY DEF DeclFacts
<1>2. Declared(blocks, blocks', n, Entry(t, Len(machine.slots) + 1)) /\ Len(blocks) > 0
  BY <1>1 DEF DeclareFacts
<1>3. blocks \in Seq(Blocks) /\ Len(blocks) \in Nat
  BY AgreeIs
<1>4. SameBlocks(blocks, blocks')
  BY <1>2 DEF Declared, SameBlocks
<1>5. \A k \in 1..Len(blocks) : Exec(machine', blocks', k) <=> Exec(machine, blocks, k)
  BY <1>1, <1>3, <1>4, ControlKept DEF Agree, Base
<1>6. Has(blocks', Len(blocks), n) /\ SlotAt(blocks', Len(blocks), n) = Len(machine.slots) + 1
      /\ Len(blocks') = Len(blocks) /\ Len(blocks) \in 1..Len(blocks)
  BY <1>2, <1>3 DEF Declared, SlotAt, Entry, Names
<1>7. NamesFrom(blocks, machine, blocks', machine', {Len(machine.slots) + 1})
  <2> SUFFICES ASSUME NEW k \in 1..Len(blocks'), NEW a \in Name, Has(blocks', k, a)
               PROVE  \/ SlotAt(blocks', k, a) = Len(machine.slots) + 1
                      \/ /\ k \in 1..Len(blocks) /\ Has(blocks, k, a)
                         /\ SlotAt(blocks', k, a) = SlotAt(blocks, k, a)
                         /\ ScopeAt(blocks'[k], a) = ScopeAt(blocks[k], a)
                         /\ (Exec(machine', blocks', k) => Exec(machine, blocks, k))
    BY DEF NamesFrom
  <2>1. k \in 1..Len(blocks) /\ a \in Names
    BY <1>6 DEF Names
  <2>2. CASE k = Len(blocks) /\ a = n
    BY <1>6, <2>2
  <2>3. CASE ~(k = Len(blocks) /\ a = n)
    <3>1. Has(blocks, k, a)
      BY <1>2, <2>1, <2>3 DEF Declared
    <3>2. SlotAt(blocks', k, a) = SlotAt(blocks, k, a)
      BY <1>2, <2>1, <3>1 DEF Declared, SlotAt
    <3>3. ScopeAt(blocks'[k], a) = ScopeAt(blocks[k], a)
      BY <1>4, <2>1, SamePlaces DEF SameBlocks
    <3> QED BY <1>5, <2>1, <3>1, <3>2, <3>3
  <2> QED BY <2>2, <2>3
<1>8. NoLessMoved(e, checker')
  BY <1>1, DeclareMoves
<1>9. Base(checker', code', machine', blocks', hidden')
  BY <1>1 DEF Agree
<1>10. Held(checker', blocks', machine') \subseteq
         Held(e, blocks, machine) \cup {Len(machine.slots) + 1}
  BY <1>7, <1>8, <1>9, HeldFrom
<1>11. ASSUME ~machine.running
       PROVE  Len(machine.slots) + 1 \notin Held(checker', blocks', machine')
  <2>1. ~Exec(machine', blocks', Len(blocks'))
    BY <1>1, <1>11 DEF Exec, SameControl
  <2> QED BY <1>6, <1>9, <2>1, HeldNot
<1> QED BY <1>10, <1>11

\* A declaration keeps what the slots hold and what was dropped right.
LEMMA DeclareSound ==
  ASSUME Agree, Agree', SoundNow, NEW n \in Name, Declares(n), gap' # "missed"
  PROVE  SoundNow'
<1> DEFINE new == Len(machine.slots) + 1
           H == Held(checker, blocks, machine)
           D == Droppable(code, blocks)
<1>1. PICK t, v, src, optional, struct, moves, e, d, valued, bound, r :
        DeclFacts(n, t, v, src, optional, struct, moves, e, d, valued, bound, r)
  BY DeclStep
<1>2. /\ DeclareWith(n, t, v, src, optional, struct, moves)
      /\ DeclareFacts(n, t, v, src, e, d, valued, bound, r)
      /\ DeclaredCode(code, code', n, new, struct, optional, src, moves)
      /\ SameControl(machine, machine')
  BY <1>1 DEF DeclFacts
<1>3. /\ src \in Name \cup {NoName}
      /\ v \in (1..Len(machine.home) + 1) \cup {Nothing, Garbage}
      /\ src = NoName => v \in {Len(machine.home) + 1, Nothing}
      /\ src # NoName => (\E i : Meant(src, i)) /\ v = machine.slots[Slot(src)].val
      /\ src # NoName => moves
      /\ ~ForgetsMove(n, src)
  BY <1>2 DEF DeclareWith
<1>4. /\ e = Sema!visitValue(checker, src) /\ e.ok /\ SameTable(checker, e)
      /\ SameButRead(machine, valued) /\ Grown(valued, bound, t)
      /\ machine' = store(bound, new, v)
      /\ Len(blocks) > 0 /\ Declared(blocks, blocks', n, Entry(t, new))
  BY <1>2 DEF DeclareFacts
<1>h. SameButRead(machine, valued) /\ Grown(valued, bound, t) /\ Len(blocks) > 0
  BY <1>4
<1>5. /\ blocks \in Seq(Blocks) /\ Len(blocks) \in Nat /\ machine \in Machines /\ code \in Generators
      /\ IsChecker(checker)
  BY AgreeIs
<1>6. Remembers(code, blocks, n, src)
  BY <1>3, RemembersIs
<1>7. /\ NewMap(code, code', n, new)
      /\ code'.movedVars = (code.movedVars \ {n}) \cup (IF moves THEN {src} \cap code'.varStructTypes ELSE {})
  BY <1>2 DEF DeclaredCode
<1>8. Droppable(code', blocks') \subseteq D \cup {new}
  BY <1>4, <1>5, <1>6, <1>7, DroppableDeclared
<1>9. Len(blocks') > 0
  BY <1>4, <1>5 DEF Declared
<1>10. (bound.running <=> machine.running) /\ (bound.returned <=> machine.returned)
  BY <1>4 DEF Grown, SameButRead, SameControl
<1>n. CASE src = NoName
  <2>1. e = checker
    BY <1>4, <1>n, VisitValueTyped, <1>5
  <2>2. /\ Held(checker', blocks', machine') \subseteq H \cup {new}
        /\ ~machine.running => new \notin Held(checker', blocks', machine')
    BY <1>1, <2>1, DeclareHeld DEF Agree
  <2>3. CASE machine.running
    <3> DEFINE X == 0
    <3>1. v \in (1..Len(machine.home) + 1) \cup {Nothing} /\ v \notin DOMAIN machine.home
      BY <1>3, <1>5, <1>n, MachineIs
    <3>2. /\ \A k \in (H \ {X}) \cup {new} : Holds(machine', k)
          /\ \A k \in (D \ {X}) \cup {new} : Fits(machine', k)
          /\ DropsDone(machine')
      <4>1. machine.running /\ machine' = store(bound, Len(machine.slots) + 1, v)
        BY <1>4, <2>3
      <4>2. v \in DOMAIN machine.home =>
              X \in Held(checker, blocks, machine) /\ machine.slots[X].val = v
        BY <3>1
      <4>3. v \in (1..Len(machine.home) + 1) \cup {Nothing}
        BY <3>1
      <4>4. Followed(machine', (H \ {X}) \cup {new}, (D \ {X}) \cup {new})
        BY <1>h, <4>1, <4>2, <4>3, GrownStored
      <4> QED BY <4>4 DEF Followed
    <3>3. H \ {X} = H /\ D \ {X} = D
      <4>1. D \in SUBSET (1..Len(machine.slots))
        BY AgreeIs, DroppableSlots DEF MapsAgree
      <4>2. H \subseteq 1..Len(machine.slots)
        BY DEF Held
      <4> QED BY <4>1, <4>2
    <3> HIDE DEF H, D, X, new
    <3> QED BY <1>8, <2>2, <3>2, <3>3, SoundMade, ZenonT(60) DEF SoundNow
  <2>4. CASE ~machine.running
    <3>1. machine' = bound
      BY <1>4, <1>10, <2>4, NoStore
    <3>2. Held(checker', blocks', machine') \subseteq H
      BY <2>2, <2>4
    <3> QED BY <1>4, <1>8, <1>9, <1>10, <3>1, <3>2, GrownSound DEF SoundNow
  <2> QED BY <2>3, <2>4
<1>s. CASE src # NoName
  <2>1. src \in Name /\ moves
    BY <1>3, <1>s
  <2>2. PICK i : Meant(src, i)
    BY <1>3, <1>s
  <2>3. /\ Base(e, code, machine, blocks, hidden)
        /\ Held(e, blocks, machine) \subseteq H \ {Slot(src)}
        /\ machine.running => Slot(src) \in H
    BY <1>4, <2>1, <2>2, SourceMoved
  <2>4. /\ Held(checker', blocks', machine') \subseteq (H \ {Slot(src)}) \cup {new}
        /\ ~machine.running => new \notin Held(checker', blocks', machine')
    BY <1>1, <2>3, DeclareHeld
  <2>5. Slot(src) \in 1..Len(machine.slots) /\ i \in 1..Len(blocks) /\ Has(blocks, i, src)
        /\ Slot(src) = SlotAt(blocks, i, src)
    BY <2>1, <2>2 DEF Meant
  <2>6. Slot(src) \notin Droppable(code', blocks')
    <3>1. GenInv(code, blocks, machine, hidden) /\ GenInv(code', blocks', machine', hidden')
          /\ blocks' \in Seq(Blocks)
      BY DEF Agree, Base, ShapeInv
    <3>2. Slot(src) # new
      BY <1>5, <2>5, MachineIs
    <3>3. src \in code'.varStructTypes => src \in code'.movedVars
      BY <1>7, <2>1
    <3>4. code.namedValues[src] = SlotAt(blocks, i, src)
      BY <2>5 DEF Slot
    <3> QED BY <1>4, <1>5, <1>6, <1>7, <2>1, <2>5, <3>1, <3>2, <3>3, <3>4, SourceNotDroppable
  <2>7. CASE machine.running
    <3>1. v \in (1..Len(machine.home) + 1) \cup {Nothing}
      <4>1. Holds(machine, Slot(src))
        BY <2>3, <2>7 DEF SoundNow, Sound, ValuesInv
      <4> QED BY <1>3, <1>s, <4>1 DEF Holds
    <3>2. v \in DOMAIN machine.home => Slot(src) \in Held(checker, blocks, machine) /\ machine.slots[Slot(src)].val = v
      BY <1>3, <1>s, <2>3, <2>7
    <3>3. /\ \A k \in (H \ {Slot(src)}) \cup {new} : Holds(machine', k)
          /\ \A k \in (D \ {Slot(src)}) \cup {new} : Fits(machine', k)
          /\ DropsDone(machine')
      <4>1. machine.running /\ machine' = store(bound, Len(machine.slots) + 1, v)
        BY <1>4, <2>7
      <4>2. v \in DOMAIN machine.home =>
              Slot(src) \in Held(checker, blocks, machine) /\ machine.slots[Slot(src)].val = v
        BY <3>1, <3>2
      <4>3. v \in (1..Len(machine.home) + 1) \cup {Nothing}
        BY <3>1
      <4>4. Followed(machine', (H \ {Slot(src)}) \cup {new}, (D \ {Slot(src)}) \cup {new})
        BY <1>h, <4>1, <4>2, <4>3, GrownStored
      <4> QED BY <4>4 DEF Followed
    <3>4. Droppable(code', blocks') \subseteq (D \ {Slot(src)}) \cup {new}
      BY <1>8, <2>6
    <3> HIDE DEF H, D, new
    <3> QED BY <2>4, <3>3, <3>4, SoundMade DEF SoundNow
  <2>8. CASE ~machine.running
    <3>1. machine' = bound
      BY <1>4, <1>10, <2>8, NoStore
    <3>2. Held(checker', blocks', machine') \subseteq H
      BY <2>4, <2>8
    <3> QED BY <1>4, <1>8, <1>9, <1>10, <3>1, <3>2, GrownSound DEF SoundNow
  <2> QED BY <2>7, <2>8
<1> QED BY <1>n, <1>s

-----------------------------------------------------------------------------
(* The ends of blocks. *)

\* bs2 is bs with an empty block, or none, in place of the innermost.
Emptied(bs, bs2) ==
  /\ bs2 \in Seq(Blocks) /\ Len(bs2) \in {Len(bs) - 1, Len(bs)}
  /\ \A k \in 1..Len(bs) - 1 : bs2[k] = bs[k]
  /\ Len(bs2) = Len(bs) => bs2[Len(bs)].kind # "iflet" /\ DOMAIN bs2[Len(bs)].names = {}

\* The slot of the binding, when the innermost block is that of an if let.
LetSlots(bs) ==
  IF bs[Len(bs)].kind = "iflet" THEN {SlotAt(bs, Len(bs), bs[Len(bs)].binding)} ELSE {}

\* The maps g2 after the innermost block: those of before an if let.
MapsAfter(g, bs, g2) ==
  /\ Map(g2) = IF bs[Len(bs)].kind = "iflet" THEN Map(bs[Len(bs)].saved) ELSE Map(g)
  /\ g2.movedVars = IF bs[Len(bs)].kind = "iflet"
                    THEN g.movedVars \cup bs[Len(bs)].saved.movedVars ELSE g.movedVars

\* The end of a block makes no slot droppable, and that of an if let its binding not so.
LEMMA DroppableEmptied ==
  ASSUME NEW g, NEW bs, NEW m, NEW hid, bs \in Seq(Blocks), GenInv(g, bs, m, hid), Len(bs) > 0,
         NEW bs2, Emptied(bs, bs2), NEW g2, MapsAfter(g, bs, g2)
  PROVE  Droppable(g2, bs2) \subseteq Droppable(g, bs) \ LetSlots(bs)
<1> DEFINE L == Len(bs)
           b == bs[L]
           let == SlotAt(bs, L, b.binding)
<1>0. /\ L \in Nat /\ L \in 1..L /\ b \in Blocks /\ bs2 \in Seq(Blocks) /\ Len(bs2) \in {L - 1, L}
      /\ \A k \in 1..L - 1 : bs2[k] = bs[k]
      /\ Len(bs2) = L => bs2[L].kind # "iflet"
  BY SMTT(60) DEF Emptied
<1>a. /\ Map(g2) = IF b.kind = "iflet" THEN Map(b.saved) ELSE Map(g)
      /\ g2.movedVars = IF b.kind = "iflet" THEN g.movedVars \cup b.saved.movedVars ELSE g.movedVars
  BY DEF MapsAfter
<1>1. \A k \in 1..Len(bs2) : k # L => k \in 1..L - 1 /\ k \in 1..L /\ k + 1 \in 1..L
  BY <1>0
<1>2. b.kind # "iflet" => b.saved.movedVars = {} /\ b.saved.varStructTypes = {}
  <2>1. b.kind # "iflet" => b.saved = Generator
    BY <1>0, BlockIs
  <2> QED BY <2>1 DEF Generator
<1>3. \A k \in 1..L : MovedFrom(g, bs, k) \subseteq MovedFrom(g2, bs2, k)
  <2> SUFFICES ASSUME NEW k \in 1..L, NEW n \in MovedFrom(g, bs, k)
               PROVE  n \in MovedFrom(g2, bs2, k)
    OBVIOUS
  <2>1. CASE n \in g2.movedVars
    BY <2>1 DEF MovedFrom
  <2>2. CASE n \notin g2.movedVars
    <3>1. n \notin g.movedVars /\ n \notin b.saved.movedVars
      BY <1>2, <1>a, <2>2
    <3>2. PICK l \in k..L : n \in bs[l].saved.movedVars
      BY <3>1 DEF MovedFrom
    <3>3. l # L
      BY <3>1, <3>2
    <3>4. l \in k..Len(bs2) /\ bs2[l] = bs[l]
      BY <1>0, <3>2, <3>3
    <3> QED BY <3>2, <3>4 DEF MovedFrom
  <2> QED BY <2>1, <2>2
<1>4. ASSUME b.kind = "iflet"
      PROVE  /\ \A n \in b.saved.varStructTypes : b.saved.namedValues[n] # let
             /\ \A k \in 1..L : \A n \in bs[k].saved.varStructTypes :
                  bs[k].saved.namedValues[n] # let
             /\ \A k \in 1..L - 1 : bs[k].kind = "iflet" => SlotAt(bs, k, bs[k].binding) # let
  <2>1. b.binding \in Name /\ Has(bs, L, b.binding)
    BY <1>0, <1>4, BlockIs DEF Has
  <2>2. \A k \in 1..L : bs[k].saved.namedValues[b.binding] # let
    BY <1>0, <2>1 DEF GenInv, SlotInv
  <2>3. \A k \in 1..L : \A n \in bs[k].saved.varStructTypes :
          bs[k].saved.namedValues[n] = let => n = b.binding
    BY <1>0, <2>1, SlotMeans, SMTT(60)
  <2>4. \A k \in 1..L : bs[k].kind = "iflet" /\ SlotAt(bs, k, bs[k].binding) = let => k = L
    BY <1>0, <2>1, SlotMeans
  <2>5. \A k \in 1..L - 1 : k \in 1..L /\ k # L
    BY <1>0
  <2> QED BY <1>0, <2>2, <2>3, <2>4, <2>5
<1>5. ASSUME NEW s, FromMap(g2, s)
      PROVE  (FromMap(g, s) \/ FromSaved(g, bs, s)) /\ (b.kind = "iflet" => s # let)
  <2>1. PICK n \in g2.varStructTypes \ g2.movedVars : s = g2.namedValues[n]
    BY <1>5 DEF FromMap
  <2>2. CASE b.kind = "iflet"
    <3>1. n \in b.saved.varStructTypes /\ s = b.saved.namedValues[n]
      BY <1>a, <2>1, <2>2 DEF Map
    <3>2. n \notin MovedFrom(g, bs, L)
      <4>1. L..L = {L}
        BY <1>0
      <4>2. n \notin g.movedVars /\ n \notin b.saved.movedVars
        BY <1>a, <2>1, <2>2
      <4> QED BY <4>1, <4>2 DEF MovedFrom
    <3> QED BY <1>0, <1>4, <2>2, <3>1, <3>2 DEF FromSaved
  <2>3. CASE b.kind # "iflet"
    BY <1>a, <2>1, <2>3 DEF Map, FromMap
  <2> QED BY <2>2, <2>3
<1>6. ASSUME NEW s, FromSaved(g2, bs2, s)
      PROVE  FromSaved(g, bs, s) /\ (b.kind = "iflet" => s # let)
  <2>1. PICK k \in 1..Len(bs2) : \E n \in bs2[k].saved.varStructTypes \ MovedFrom(g2, bs2, k) :
                   s = bs2[k].saved.namedValues[n]
    BY <1>6 DEF FromSaved
  <2>2. bs2[k].kind = "iflet"
    BY <1>0, <2>1, SavedKind
  <2>3. k # L
    BY <1>0, <2>2
  <2>4. k \in 1..L - 1 /\ k \in 1..L /\ bs2[k] = bs[k]
    BY <1>0, <1>1, <2>3
  <2> QED BY <1>3, <1>4, <2>1, <2>4 DEF FromSaved
<1>7. ASSUME NEW s, FromBinding(g2, bs2, s)
      PROVE  FromBinding(g, bs, s) /\ (b.kind = "iflet" => s # let)
  <2>1. PICK k \in 1..Len(bs2) : /\ bs2[k].kind = "iflet"
                                 /\ bs2[k].binding \notin MovedFrom(g2, bs2, k + 1)
                                 /\ s = SlotAt(bs2, k, bs2[k].binding)
    BY <1>7 DEF FromBinding
  <2>3. k # L
    BY <1>0, <2>1
  <2>4. k \in 1..L - 1 /\ k \in 1..L /\ k + 1 \in 1..L /\ bs2[k] = bs[k]
    BY <1>0, <1>1, <2>3
  <2>5. bs[k].kind = "iflet" /\ bs[k].binding \notin MovedFrom(g, bs, k + 1)
        /\ s = SlotAt(bs, k, bs[k].binding)
    BY <1>3, <2>1, <2>4 DEF SlotAt
  <2> QED BY <1>4, <2>4, <2>5 DEF FromBinding
<1> QED BY <1>5, <1>6, <1>7, DroppableIs DEF LetSlots

\* The slots of the variables when the innermost block has ended.
LEMMA HeldEmptied ==
  ASSUME NEW c, NEW g, NEW m, NEW bs, NEW hid, Base(c, g, m, bs, hid), Len(bs) > 0,
         NEW c2, NEW g2, NEW m2, NEW bs2, NEW hid2, Base(c2, g2, m2, bs2, hid2),
         NoLessMoved(c, c2), Emptied(bs, bs2),
         \A k \in 1..Len(bs) - 1 : Exec(m2, bs2, k) => Exec(m, bs, k)
  PROVE  Held(c2, bs2, m2) \subseteq Held(c, bs, m) \ LetSlots(bs)
<1>0. bs \in Seq(Blocks) /\ Len(bs) \in Nat /\ GenInv(g, bs, m, hid) /\ Len(bs) \in 1..Len(bs)
      /\ bs[Len(bs)] \in Blocks
  BY DEF Base, ShapeInv
<1>1. \A k \in 1..Len(bs2), n \in Name : Has(bs2, k, n) =>
        k \in 1..Len(bs) - 1 /\ k \in 1..Len(bs) /\ k # Len(bs) /\ bs2[k] = bs[k]
  BY <1>0 DEF Emptied, Has
<1>2. NamesFrom(bs, m, bs2, m2, {})
  BY <1>1 DEF NamesFrom, Has, SlotAt
<1>3. Held(c2, bs2, m2) \subseteq Held(c, bs, m)
  <2>1. Held(c2, bs2, m2) \subseteq Held(c, bs, m) \cup {}
    BY <1>2, HeldFrom
  <2> QED BY <2>1
<1>4. ASSUME NEW s \in Held(c2, bs2, m2), bs[Len(bs)].kind = "iflet",
             s = SlotAt(bs, Len(bs), bs[Len(bs)].binding)
      PROVE  FALSE
  <2>1. PICK k \in 1..Len(bs2), n \in Name : Has(bs2, k, n) /\ s = SlotAt(bs2, k, n)
    BY <1>4 DEF Held
  <2>2. k \in 1..Len(bs) /\ k # Len(bs) /\ Has(bs, k, n) /\ s = SlotAt(bs, k, n)
    BY <1>1, <2>1 DEF Has, SlotAt
  <2>3. bs[Len(bs)].binding \in Name /\ Has(bs, Len(bs), bs[Len(bs)].binding)
    BY <1>0, <1>4, BlockIs DEF Has
  <2>4. SlotAt(bs, Len(bs), bs[Len(bs)].binding) = SlotAt(bs, k, n)
    BY <1>4, <2>2
  <2>5. GenInv(g, bs, m, hid) /\ Len(bs) \in 1..Len(bs) /\ bs \in Seq(Blocks) /\ Has(bs, k, n)
    BY <1>0, <2>2
  <2>6. Len(bs) = k /\ bs[Len(bs)].binding = n
    BY <1>4, <2>2, <2>4, <2>5, SlotMeans
  <2> QED BY <2>2, <2>6
<1> QED BY <1>3, <1>4 DEF LetSlots

\* What is left of the values: the binding is dropped, or nothing changes.
LEMMA LeaveSound ==
  ASSUME Agree, SoundNow, Len(blocks) > 0, NEW c, NEW g, NEW m, LeaveFacts(c, g, m),
         NEW m2, SameButControl(m, m2), m2.returned <=> machine.returned,
         NEW c2, NEW g2, NEW bs2,
         Held(c2, bs2, m2) \subseteq Held(checker, blocks, machine) \ LetSlots(blocks),
         Droppable(g2, bs2) \subseteq Droppable(code, blocks) \ LetSlots(blocks)
  PROVE  Sound(c2, g2, m2, bs2)
<1> DEFINE H == Held(checker, blocks, machine)
           D == Droppable(code, blocks)
           S == {LetSlot}
<1>1. /\ SameButRead(machine, current) /\ MachineInv(current)
      /\ m = IF LetDropped THEN callDrop(current, S, {}) ELSE current
      /\ LetDropped => LetSlot \in 1..Len(current.slots)
  BY DEF LeaveFacts
<1>2. /\ current.slots = machine.slots /\ current.home = machine.home /\ current.drops = machine.drops
      /\ (current.running <=> machine.running) /\ current \in Machines
  BY <1>1 DEF SameButRead
<1>3. m2.slots = m.slots /\ m2.home = m.home /\ m2.drops = m.drops
  BY DEF SameButControl
<1>4. CASE ~(LetDropped /\ machine.running)
  <2>1. m = current
    BY <1>1, <1>2, <1>4, NoDrop
  <2> QED BY <1>2, <1>3, <2>1, SoundKept DEF SoundNow
<1>5. CASE LetDropped /\ machine.running
  <2>1. /\ DropsDone(machine) /\ H \in SUBSET (1..Len(machine.slots))
        /\ D \in SUBSET (1..Len(machine.slots))
        /\ (\A k \in H : Holds(machine, k)) /\ \A k \in D : Fits(machine, k)
    BY <1>5, SoundSets
  <2>2. /\ DropsDone(current)
        /\ (\A k \in H : Holds(current, k)) /\ \A k \in D : Fits(current, k)
    BY <1>1, <2>1, ReadKeeps
  <2>3. LetSlots(blocks) = S
    BY <1>5 DEF LetDropped, LetSlots, LetSlot
  <2>b. blocks \in Seq(Blocks) /\ Len(blocks) \in Nat /\ Len(blocks) \in 1..Len(blocks)
        /\ blocks[Len(blocks)] \in Blocks
    BY AgreeIs
  <2>4. LetSlot \in D
    <3>1. blocks[Len(blocks)].binding \notin MovedFrom(code, blocks, Len(blocks) + 1)
      <4>1. Len(blocks) + 1..Len(blocks) = {}
        BY <2>b
      <4> QED BY <1>5, <4>1 DEF MovedFrom, LetDropped
    <3>2. FromBinding(code, blocks, LetSlot)
      BY <1>5, <2>b, <3>1 DEF FromBinding, LetDropped, LetSlot
    <3> QED BY <3>2, DroppableIs
  <2>5. S \in SUBSET (1..Len(current.slots)) /\ (\A s \in S : Fits(current, s)) /\ current.running
    BY <1>1, <1>2, <1>5, <2>2, <2>4
  <2>6. \A s \in S : Payload(current, {}, s) # Nothing
    <3>1. blocks[Len(blocks)].binding \in Name /\ Has(blocks, Len(blocks), blocks[Len(blocks)].binding)
          /\ TypeAt(blocks, Len(blocks), blocks[Len(blocks)].binding) = "struct"
      BY <1>5, <2>b, BlockIs DEF Has, LetDropped, TypeAt
    <3>2. machine.slots[LetSlot].type = "struct"
      BY <2>b, <3>1, SlotsAre DEF Agree, Base, LetSlot
    <3> QED BY <1>1, <1>2, <1>5, <3>2 DEF Payload, MachineInv
  <2>7. m = callDrop(current, S, {})
    BY <1>1, <1>5
  <2>8. DropsDone(m)
    BY <1>1, <2>2, <2>5, <2>6, <2>7, DropDrops
  <2>9. \A k \in 1..Len(current.slots) : k \notin S =>
          (Holds(current, k) => Holds(m, k)) /\ (Fits(current, k) => Fits(m, k))
    BY <1>2, <2>5, <2>7, DropKeeps
  <2>10. (\A k \in H \ S : Holds(m, k)) /\ \A k \in D \ S : Fits(m, k)
    BY <1>2, <2>1, <2>2, <2>9
  <2>11. (\A k \in H \ S : Holds(m2, k)) /\ (\A k \in D \ S : Fits(m2, k)) /\ DropsDone(m2)
    BY <1>3, <2>8, <2>10, MemoryKeeps
  <2> HIDE DEF H, D, S
  <2>12. Held(c2, bs2, m2) \subseteq H \ S /\ Droppable(g2, bs2) \subseteq D \ S
    BY <2>3 DEF H, D
  <2> QED BY <2>11, <2>12, SoundMade
<1> QED BY <1>4, <1>5

\* The other block of an if: its scope is empty, the others are those that were left.
LEMMA PushMoves ==
  ASSUME NEW c, IsChecker(c), NEW d, IsChecker(d), NoLessMoved(c, d),
         NEW e, e = Sema!pushOwnershipScope(d)
  PROVE  NoLessMoved(c, e)
<1>1. /\ Len(e.scopes) = Len(d.scopes) + 1 /\ DOMAIN e.scopes[Len(d.scopes) + 1] = {}
      /\ \A k \in 1..Len(d.scopes) : e.scopes[k] = d.scopes[k]
  BY PushScopeIs
<1>2. Len(d.scopes) \in Nat /\ Len(c.scopes) \in Nat
  BY CheckerIs
<1>3. SUFFICES ASSUME NEW k \in 1..Len(c.scopes), NEW n \in Name, k <= Len(e.scopes),
                      n \in DOMAIN c.scopes[k], n \in DOMAIN e.scopes[k],
                      e.scopes[k][n].state # "Moved"
               PROVE  c.scopes[k][n].state # "Moved"
  BY DEF NoLessMoved
<1>4. k # Len(d.scopes) + 1
  BY <1>1, <1>3
<1>5. k \in 1..Len(d.scopes) /\ k <= Len(d.scopes)
  BY <1>1, <1>2, <1>3, <1>4
<1>6. e.scopes[k] = d.scopes[k]
  BY <1>1, <1>5
<1> QED BY <1>3, <1>5, <1>6 DEF NoLessMoved

\* The start of an else keeps what the slots hold and what was dropped right.
LEMMA ElseSound ==
  ASSUME Agree, Agree', SoundNow, Else
  PROVE  SoundNow'
<1>1. PICK c, g, m, b : ElseFacts(c, g, m, b)
  BY ElseIs
<1>2. /\ checker' = Sema!pushOwnershipScope(c) /\ code' = g /\ Len(blocks) > 1
      /\ blocks[Len(blocks)].kind # "else" /\ b.kind = "else" /\ DOMAIN b.names = {}
      /\ (b.reached <=> blocks[Len(blocks)].reached) /\ (b.taken <=> ~blocks[Len(blocks)].taken)
      /\ Replaced(blocks, blocks', b) /\ SameButControl(m, machine')
      /\ (machine'.running <=> blocks[Len(blocks)].reached /\ ~blocks[Len(blocks)].taken)
      /\ (machine'.returned <=> machine.returned) /\ LeaveFacts(c, g, m)
  BY <1>1 DEF ElseFacts
<1>3. /\ IsChecker(checker) /\ checker.ok /\ blocks \in Seq(Blocks) /\ Len(blocks) \in Nat
      /\ code \in Generators
  BY AgreeIs
<1>4. IsChecker(c) /\ c = LeaveChecker(checker, blocks[Len(blocks)])
      /\ MapsAfter(code, blocks, g)
  BY <1>2 DEF LeaveFacts, Exited, MapsAfter
<1>5. NoLessMoved(checker, c)
  <2>1. ShapeInv(checker, blocks)
    BY DEF Agree, Base
  <2> QED BY <1>2, <1>3, <1>4, <2>1, LeaveMoves
<1>6. NoLessMoved(checker, checker')
  <2> DEFINE e == Sema!pushOwnershipScope(c)
  <2>1. e = Sema!pushOwnershipScope(c) /\ checker' = e
    BY <1>2
  <2> HIDE DEF e
  <2>2. NoLessMoved(checker, e)
    BY <1>3, <1>4, <1>5, <2>1, PushMoves
  <2> QED BY <2>1, <2>2
<1>7. Len(blocks') = Len(blocks) /\ blocks' \in Seq(Blocks) /\ blocks'[Len(blocks)] = b
      /\ \A k \in 1..Len(blocks) - 1 : blocks'[k] = blocks[k]
  BY <1>2, <1>3 DEF Replaced
<1>8. Emptied(blocks, blocks')
  BY <1>2, <1>7 DEF Emptied
<1>9. \A k \in 1..Len(blocks) - 1 : Exec(machine', blocks', k) => Exec(machine, blocks, k)
  BY <1>2, <1>3, <1>7, ControlElse DEF Agree, Base
<1>10. Base(checker, code, machine, blocks, hidden) /\ Base(checker', code', machine', blocks', hidden')
  BY DEF Agree
<1>11. Held(checker', blocks', machine') \subseteq Held(checker, blocks, machine) \ LetSlots(blocks)
  BY <1>2, <1>6, <1>8, <1>9, <1>10, HeldEmptied
<1>12. Droppable(g, blocks') \subseteq Droppable(code, blocks) \ LetSlots(blocks)
  BY <1>2, <1>3, <1>4, <1>8, <1>10, DroppableEmptied DEF Base
<1>13. Sound(checker', g, machine', blocks')
  BY <1>2, <1>11, <1>12, LeaveSound
<1> QED BY <1>2, <1>13 DEF SoundNow

\* The end of an if or an if let keeps what the slots hold and what was dropped right.
LEMMA EndIfSound ==
  ASSUME Agree, Agree', SoundNow, EndIf
  PROVE  SoundNow'
<1>1. PICK c, g, m, r : EndIfFacts(c, g, m, r)
  BY EndIfIs
<1>2. /\ checker' = Given(c, r) /\ SameTable(c, checker') /\ code' = g /\ Len(blocks) > 1
      /\ r \in RefName \cup {NoName} /\ EndStatement(c, r) /\ IsChecker(c) /\ c.ok
      /\ Popped(blocks, blocks') /\ SameButControl(m, machine')
      /\ (machine'.running <=> blocks[Len(blocks)].reached /\ ~machine.returned)
      /\ (machine'.returned <=> machine.returned) /\ LeaveFacts(c, g, m)
  BY <1>1 DEF EndIfFacts
<1>3. /\ IsChecker(checker) /\ checker.ok /\ blocks \in Seq(Blocks) /\ Len(blocks) \in Nat
      /\ code \in Generators
  BY AgreeIs
<1>4. c = LeaveChecker(checker, blocks[Len(blocks)]) /\ Exited(checker, c, blocks)
      /\ MapsAfter(code, blocks, g)
  BY <1>2 DEF LeaveFacts, MapsAfter
<1>5. NoLessMoved(checker, c)
  <2>1. ShapeInv(checker, blocks)
    BY DEF Agree, Base
  <2> QED BY <1>2, <1>3, <1>4, <2>1, LeaveMoves
<1>6. NoLessMoved(checker, checker')
  <2>1. r # NoName => c.all[r] # 0 /\ Info(c, r).borrowsName # NoName
    BY <1>2, EndIs
  <2>2. NoLessMoved(c, checker')
    BY <1>2, <2>1, GivenMoves
  <2>3. \A k \in 1..Len(checker.scopes) : k <= Len(c.scopes) =>
          DOMAIN checker.scopes[k] \subseteq DOMAIN c.scopes[k]
    <3>1. Len(c.scopes) \in Nat
      BY <1>2, CheckerIs
    <3> QED BY <1>4, <3>1 DEF Exited
  <2> QED BY <1>2, <1>3, <1>5, <2>2, <2>3, MovedSame
<1>7. Len(blocks') = Len(blocks) - 1 /\ blocks' \in Seq(Blocks)
      /\ \A k \in 1..Len(blocks) - 1 : blocks'[k] = blocks[k]
  BY <1>2, <1>3 DEF Popped
<1>8. Emptied(blocks, blocks')
  BY <1>3, <1>7 DEF Emptied
<1>9. \A k \in 1..Len(blocks) - 1 : Exec(machine', blocks', k) => Exec(machine, blocks, k)
  BY <1>2, <1>3, ControlPopped DEF Agree, Base
<1>10. Base(checker, code, machine, blocks, hidden) /\ Base(checker', code', machine', blocks', hidden')
  BY DEF Agree
<1>11. Held(checker', blocks', machine') \subseteq Held(checker, blocks, machine) \ LetSlots(blocks)
  BY <1>2, <1>6, <1>8, <1>9, <1>10, HeldEmptied
<1>12. Droppable(g, blocks') \subseteq Droppable(code, blocks) \ LetSlots(blocks)
  BY <1>2, <1>3, <1>4, <1>8, <1>10, DroppableEmptied DEF Base
<1>13. Sound(checker', g, machine', blocks')
  BY <1>2, <1>11, <1>12, LeaveSound
<1> QED BY <1>2, <1>13 DEF SoundNow

-----------------------------------------------------------------------------
(* Returns, and the end of the function. *)

\* A cleanup drops slots of live names, and never an Optional that is known to be nil.
LEMMA CleanedIs ==
  ASSUME NEW g, NEW m, MachineInv(m), NEW flag, NEW s \in Cleaned(g, m, flag),
         s \in 1..Len(m.slots)
  PROVE  /\ Payload(m, Plain(g, m), s) # Nothing
         /\ \E n \in g.varStructTypes \ g.movedVars : s = g.namedValues[n]
<1>1. PICK n \in LiveNames(g) :
        /\ s = g.namedValues[n]
        /\ AsOptional(g, m, n) => m.slots[s].val = Garbage \/ m.slots[s].val # Nothing
  BY DEF Cleaned
<1>2. Garbage # Nothing
  BY ValuesAssumption
<1>3. CASE AsOptional(g, m, n)
  BY <1>1, <1>2, <1>3 DEF Payload, LiveNames
<1>4. CASE ~AsOptional(g, m, n)
  <2>1. s \in Plain(g, m)
    BY <1>1, <1>4 DEF Plain
  <2>2. m.slots[s].type \in SlotTypes
    BY MachineIs DEF MachineInv
  <2>3. m.slots[s].type = "struct" => m.slots[s].val # Nothing
    BY DEF MachineInv
  <2>4. Payload(m, Plain(g, m), s) # Nothing
    BY <1>2, <2>1, <2>2, <2>3 DEF Payload, SlotTypes
  <2> QED BY <1>1, <2>4 DEF LiveNames
<1> QED BY <1>3, <1>4

\* The drops are right in a machine that dropped nothing more.
LEMMA DoneSound ==
  ASSUME NEW m, DropsDone(m), NEW m2, m2.drops = m.drops, m2.home = m.home
  PROVE  DropsInv(m2)
BY DEF DropsDone, DropsInv

\* The end of the function keeps what the slots hold and what was dropped right.
LEMMA EndFunctionSound ==
  ASSUME Agree, Agree', SoundNow, EndFunction
  PROVE  SoundNow'
<1>1. PICK cleaned, flag : EndFunctionFacts(cleaned, flag)
  BY EndFunctionIs
<1> DEFINE S == Cleaned(code, current, flag)
           P == Plain(code, current)
<1>2. /\ Len(blocks) = 1 /\ blocks' = <<>> /\ SameButRead(machine, current) /\ MachineInv(current)
      /\ blocks[1].left => machine' = current
      /\ ~blocks[1].left => S \in SUBSET (1..Len(current.slots)) /\ cleaned = callDrop(current, S, P)
                            /\ SameButControl(cleaned, machine')
      /\ (machine'.returned <=> machine.returned)
  BY <1>1 DEF EndFunctionFacts
<1>3. ValuesInv(checker', blocks', machine') /\ FitsInv(code', blocks', machine')
  <2>1. Len(blocks') = 0 /\ 1..Len(blocks') = {}
    BY <1>2
  <2>2. Held(checker', blocks', machine') = {}
    BY <2>1 DEF Held
  <2> QED BY <2>1, <2>2 DEF ValuesInv, FitsInv
<1>4. CASE blocks[1].left \/ ~machine.running
  <2>1. machine'.home = machine.home /\ machine'.drops = machine.drops
    <3>1. CASE blocks[1].left
      BY <1>2, <3>1 DEF SameButRead
    <3>2. CASE ~blocks[1].left
      <4>1. ~current.running
        BY <1>2, <1>4, <3>2 DEF SameButRead
      <4>2. cleaned = current
        BY <1>2, <3>2, <4>1, NoDrop
      <4> QED BY <1>2, <3>2, <4>2 DEF SameButControl, SameButRead
    <3> QED BY <3>1, <3>2
  <2>2. DropsInv(machine')
    BY <1>2, <2>1 DEF DropsInv, SoundNow, Sound
  <2> QED BY <1>3, <2>2 DEF SoundNow, Sound
<1>5. CASE ~blocks[1].left /\ machine.running
  <2>1. /\ DropsDone(machine) /\ \A k \in Droppable(code, blocks) : Fits(machine, k)
    BY <1>2, <1>5, SoundSets
  <2>2. /\ DropsDone(current) /\ \A k \in Droppable(code, blocks) : Fits(current, k)
    BY <1>2, <2>1, ReadKeeps
  <2>3. S \in SUBSET (1..Len(current.slots)) /\ cleaned = callDrop(current, S, P) /\ current.running
    BY <1>2, <1>5 DEF SameButRead
  <2>4. \A s \in S : Fits(current, s) /\ Payload(current, P, s) # Nothing
    <3> SUFFICES ASSUME NEW s \in S
                 PROVE  Fits(current, s) /\ Payload(current, P, s) # Nothing
      OBVIOUS
    <3>1. s \in 1..Len(current.slots)
      BY <2>3
    <3>2. Payload(current, P, s) # Nothing /\ FromMap(code, s)
      BY <1>2, <3>1, CleanedIs DEF FromMap
    <3>3. s \in Droppable(code, blocks)
      BY <3>2, DroppableIs
    <3> QED BY <2>2, <3>2, <3>3
  <2> HIDE DEF S, P
  <2>5. DropsDone(cleaned)
    BY <1>2, <2>2, <2>3, <2>4, DropDrops
  <2>6. DropsInv(machine')
    BY <1>2, <1>5, <2>5, DoneSound DEF SameButControl
  <2> QED BY <1>3, <2>6 DEF SoundNow, Sound
<1> QED BY <1>4, <1>5

\* Only the homes of values change.
HomeOnly(m, m2) ==
  /\ m2 \in Machines /\ m2.slots = m.slots /\ m2.drops = m.drops
  /\ Len(m2.home) = Len(m.home)

\* The value v goes to the caller.
Handed(m, m2, v) ==
  /\ HomeOnly(m, m2)
  /\ \A w \in 1..Len(m.home) : m2.home[w] = IF w = v THEN Caller ELSE m.home[w]

\* What goes to the caller was not dropped, and no slot that may be dropped has it.
LEMMA HandedSound ==
  ASSUME NEW m, MachineInv(m), DropsDone(m), NEW v, v \in DOMAIN m.home,
         NEW x \in 1..Len(m.slots), m.slots[x].val = v, Holds(m, x),
         NEW m2, Handed(m, m2, v)
  PROVE  /\ DropsDone(m2)
         /\ \A s \in 1..Len(m.slots) : s # x /\ Fits(m, s) => Fits(m2, s)
<1>1. m \in Machines /\ m2 \in Machines /\ m2.slots = m.slots /\ m2.drops = m.drops
      /\ Len(m2.home) = Len(m.home)
  BY DEF MachineInv, Handed, HomeOnly
<1>2. DOMAIN m.home = 1..Len(m.home) /\ DOMAIN m2.home = 1..Len(m.home) /\ Len(m.slots) \in Nat
  BY <1>1, MachineIs
<1>3. m.home[v] = x /\ m.home[v] # Nowhere
  BY <1>2, ValuesAssumption DEF Holds
<1>4. ASSUME NEW d \in m.drops, d.val # Garbage
      PROVE  d.val \in DOMAIN m.home /\ d.home # Caller /\ m.home[d.val] = Nowhere
             /\ \A e \in m.drops : e.val = d.val => e = d
  BY <1>4 DEF DropsDone
<1>5. DropsDone(m2)
  <2> SUFFICES ASSUME NEW d \in m.drops, d.val # Garbage
               PROVE  d.val \in DOMAIN m2.home /\ d.home # Caller /\ m2.home[d.val] = Nowhere
                      /\ \A e \in m.drops : e.val = d.val => e = d
    BY <1>1 DEF DropsDone
  <2> QED BY <1>2, <1>3, <1>4 DEF Handed
<1>6. ASSUME NEW s \in 1..Len(m.slots), s # x, Fits(m, s)
      PROVE  Fits(m2, s)
  <2>1. Fits(m, x)
    BY HoldsFits
  <2>2. m.slots[s].val # v
    BY <1>6, <2>1, FitsApart
  <2> QED BY <1>1, <1>2, <1>6, <2>2, ZenonT(60) DEF Fits, Handed
<1> QED BY <1>5, <1>6

\* No value goes to the caller.
LEMMA SameHome ==
  ASSUME NEW m \in Machines, NEW m2, HomeOnly(m, m2),
         \A w \in 1..Len(m.home) : m2.home[w] = m.home[w]
  PROVE  m2.home = m.home
<1>1. /\ m2 \in Machines /\ Len(m2.home) = Len(m.home)
  BY DEF HomeOnly
<1>2. m.home \in Seq(Homes) /\ m2.home \in Seq(Homes)
  BY <1>1, MachineIs
<1> QED BY <1>1, <1>2, SeqEqual

\* The machine given, whose value of x, if any, goes to the caller.
LEMMA GivenSound ==
  ASSUME Agree, SoundNow, Len(blocks) > 0, machine.running,
         NEW x \in Name \cup {NoName},
         x # NoName => \E i : Meant(x, i) /\ InfoAt(checker, blocks[i], x).state # "Moved",
         NEW given, HomeOnly(machine, given),
         \A w \in 1..Len(machine.home) :
           given.home[w] = IF x # NoName /\ w = machine.slots[Slot(x)].val THEN Caller
                           ELSE machine.home[w]
  PROVE  /\ DropsDone(given)
         /\ \A n \in code.varStructTypes \ (code.movedVars \cup {x}) : Fits(given, code.namedValues[n])
<1>0. /\ machine \in Machines /\ MachineInv(machine) /\ blocks \in Seq(Blocks)
      /\ GenInv(code, blocks, machine, hidden)
      /\ DOMAIN machine.home = 1..Len(machine.home)
  BY AgreeIs, MachineIs DEF Agree, Base
<1>1. /\ DropsDone(machine)
      /\ Held(checker, blocks, machine) \in SUBSET (1..Len(machine.slots))
      /\ Droppable(code, blocks) \in SUBSET (1..Len(machine.slots))
      /\ (\A k \in Held(checker, blocks, machine) : Holds(machine, k))
      /\ \A k \in Droppable(code, blocks) : Fits(machine, k)
  BY SoundSets
<1>2. ASSUME NEW n \in code.varStructTypes \ (code.movedVars \cup {x})
      PROVE  /\ code.namedValues[n] \in 1..Len(machine.slots) /\ Fits(machine, code.namedValues[n])
             /\ n \in code.varStructTypes /\ n # x
  <2>1. FromMap(code, code.namedValues[n])
    BY DEF FromMap
  <2>2. code.namedValues[n] \in Droppable(code, blocks)
    BY <2>1, DroppableIs
  <2> QED BY <1>1, <2>2
<1>3. CASE x # NoName /\ machine.slots[Slot(x)].val \in DOMAIN machine.home
  <2> DEFINE v == machine.slots[Slot(x)].val
  <2>1. PICK i : Meant(x, i) /\ InfoAt(checker, blocks[i], x).state # "Moved"
    BY <1>3
  <2>2. /\ x \in Name /\ i \in 1..Len(blocks) /\ Has(blocks, i, x) /\ Slot(x) = SlotAt(blocks, i, x)
        /\ Slot(x) \in 1..Len(machine.slots)
    BY <1>3, <2>1 DEF Meant
  <2>3. Exec(machine, blocks, i)
    BY <1>0, <2>2, RunsIs DEF Agree, Base
  <2>4. Holds(machine, Slot(x))
    <3>1. SlotAt(blocks, i, x) \in Held(checker, blocks, machine)
      BY <2>1, <2>2, <2>3, HeldIs DEF Agree
    <3> QED BY <1>1, <2>2, <3>1
  <2>5. \A w \in 1..Len(machine.home) : given.home[w] = IF w = v THEN Caller ELSE machine.home[w]
    BY <1>3
  <2>6. v \in DOMAIN machine.home /\ machine.slots[Slot(x)].val = v
    BY <1>3
  <2>a. Handed(machine, given, v)
    BY <2>5 DEF Handed
  <2> HIDE DEF v
  <2>7. /\ DropsDone(given)
        /\ \A s \in 1..Len(machine.slots) : s # Slot(x) /\ Fits(machine, s) => Fits(given, s)
    BY <1>0, <1>1, <2>2, <2>4, <2>6, <2>a, HandedSound, SMTT(60)
  <2>8. \A n \in code.varStructTypes : n # x => code.namedValues[n] # Slot(x)
    BY <1>0, <2>2, SlotMeans, SMTT(60)
  <2> QED BY <1>2, <2>7, <2>8
<1>4. CASE ~(x # NoName /\ machine.slots[Slot(x)].val \in DOMAIN machine.home)
  <2>1. \A w \in 1..Len(machine.home) : given.home[w] = machine.home[w]
    BY <1>0, <1>4
  <2>2. given.home = machine.home
    BY <1>0, <2>1, SameHome
  <2>3. given.slots = machine.slots /\ given.drops = machine.drops
    BY DEF HomeOnly
  <2>4. DropsDone(given)
    BY <1>1, <2>2, <2>3 DEF DropsDone
  <2>5. \A s \in 1..Len(machine.slots) : Fits(machine, s) => Fits(given, s)
    BY <2>2, <2>3 DEF Fits
  <2> QED BY <1>2, <2>4, <2>5
<1> QED BY <1>3, <1>4

\* A return keeps what the slots hold and what was dropped right.
LEMMA ReturnSound ==
  ASSUME Agree, Agree', SoundNow, NEW x \in Name \cup {NoName}, Return(x)
  PROVE  SoundNow'
<1>1. PICK valued, given, cleaned, flag : ReturnFacts(x, valued, given, cleaned, flag)
  BY ReturnIs
<1>2. /\ x # NoName => \E i : Meant(x, i) /\ InfoAt(checker, blocks[i], x).state # "Moved"
      /\ checker' = checker /\ Len(blocks) > 0 /\ Left(blocks, blocks')
      /\ code'.movedVars = code.movedVars \cup ({x} \ {NoName})
      /\ code'.namedValues = code.namedValues /\ code'.varStructTypes = code.varStructTypes
  BY ReturnIs
<1> DEFINE S == Cleaned(code', given, flag)
           P == Plain(code', given)
<1>3. /\ SameButRead(machine, valued) /\ MachineInv(given) /\ SameButHome(valued, given)
      /\ \A w \in 1..Len(machine.home) :
           given.home[w] = IF machine.running /\ w = (IF x = NoName THEN Nothing ELSE machine.slots[Slot(x)].val)
                           THEN Caller ELSE machine.home[w]
      /\ S \in SUBSET (1..Len(given.slots)) /\ cleaned = callDrop(given, S, P)
      /\ SameButControl(cleaned, machine') /\ ~machine'.running
      /\ machine'.returned <=> machine.returned \/ machine.running
  BY <1>1 DEF ReturnFacts
<1>4. /\ IsChecker(checker) /\ blocks \in Seq(Blocks) /\ machine \in Machines
      /\ DOMAIN machine.home = 1..Len(machine.home) /\ Nothing \notin DOMAIN machine.home
  BY AgreeIs, MachineIs
<1>5. HomeOnly(machine, given) /\ (given.running <=> machine.running)
  BY <1>3 DEF SameButRead, SameButHome, HomeOnly
<1>6. (given.running <=> machine.running) /\ given.slots = machine.slots /\ given.drops = machine.drops
  BY <1>5 DEF HomeOnly
<1>7. CASE machine.running
  <2>1. \A w \in 1..Len(machine.home) :
          given.home[w] = IF x # NoName /\ w = machine.slots[Slot(x)].val THEN Caller
                          ELSE machine.home[w]
    BY <1>3, <1>4, <1>7
  <2>2. /\ DropsDone(given)
        /\ \A n \in code.varStructTypes \ (code.movedVars \cup {x}) : Fits(given, code.namedValues[n])
    BY <1>2, <1>5, <1>7, <2>1, GivenSound, ZenonT(60)
  <2>3. \A n \in code'.varStructTypes \ code'.movedVars :
          n \in code.varStructTypes \ (code.movedVars \cup {x}) /\ code'.namedValues[n] = code.namedValues[n]
    <3>1. code.varStructTypes \subseteq Name /\ NoName \notin Name
      BY AgreeIs, GeneratorIs, NamesAssumption
    <3> QED BY <1>2, <3>1
  <2>4. \A s \in S : Fits(given, s) /\ Payload(given, P, s) # Nothing
    <3> SUFFICES ASSUME NEW s \in S
                 PROVE  Fits(given, s) /\ Payload(given, P, s) # Nothing
      OBVIOUS
    <3>1. s \in 1..Len(given.slots)
      BY <1>3
    <3>2. Payload(given, P, s) # Nothing
          /\ \E n \in code'.varStructTypes \ code'.movedVars : s = code'.namedValues[n]
      BY <1>3, <3>1, CleanedIs
    <3> QED BY <2>2, <2>3, <3>2
  <2>5. S \in SUBSET (1..Len(given.slots)) /\ cleaned = callDrop(given, S, P) /\ given.running
    BY <1>3, <1>6, <1>7
  <2> HIDE DEF S, P
  <2>6. DropsDone(cleaned)
    BY <1>3, <2>2, <2>4, <2>5, DropDrops
  <2>7. DropsInv(machine')
    BY <1>3, <2>6, DoneSound DEF SameButControl
  <2>8. machine'.returned
    BY <1>3, <1>7
  <2>9. Held(checker', blocks', machine') = {}
    BY <2>8 DEF Held, Exec
  <2> QED BY <2>7, <2>8, <2>9 DEF SoundNow, Sound, ValuesInv, FitsInv
<1>8. CASE ~machine.running
  <2>1. cleaned = given
    BY <1>3, <1>6, <1>8, NoDrop
  <2>2. \A w \in 1..Len(machine.home) : given.home[w] = machine.home[w]
    BY <1>3, <1>8
  <2>3. given.home = machine.home
    BY <1>4, <1>5, <2>2, SameHome
  <2>4. machine'.slots = machine.slots /\ machine'.home = machine.home /\ machine'.drops = machine.drops
        /\ (machine'.returned <=> machine.returned)
    BY <1>3, <1>6, <1>8, <2>1, <2>3 DEF SameButControl
  <2>5. SameBlocks(blocks, blocks') /\ (\A i \in 1..Len(blocks) : blocks'[i].names = blocks[i].names)
    BY <1>2 DEF Left, SameBlocks
  <2>6. \A i \in 1..Len(blocks) : Exec(machine', blocks', i) => Exec(machine, blocks, i)
    <3>1. ~machine'.running /\ (machine'.returned <=> machine.returned \/ machine.running)
      BY <1>3
    <3> QED BY <1>4, <2>5, <3>1, ControlStopped DEF Agree, Base
  <2>7. Held(checker', blocks', machine') \subseteq Held(checker, blocks, machine)
    <3>1. NamesFrom(blocks, machine, blocks', machine', {})
      BY <2>5, <2>6, SamePlaces DEF NamesFrom, SameBlocks, Has, SlotAt
    <3>2. Base(checker, code, machine, blocks, hidden) /\ Base(checker', code', machine', blocks', hidden')
      BY DEF Agree
    <3>3. NoLessMoved(checker, checker')
      BY <1>2, SameMoved
    <3>4. Held(checker', blocks', machine') \subseteq Held(checker, blocks, machine) \cup {}
      BY <3>1, <3>2, <3>3, HeldFrom
    <3> QED BY <3>4
  <2>8. Droppable(code', blocks') \subseteq Droppable(code, blocks)
    <3>1. \A i \in 1..Len(blocks) : blocks[i].kind = "iflet" =>
           SlotAt(blocks', i, blocks[i].binding) = SlotAt(blocks, i, blocks[i].binding)
      BY <2>5 DEF SlotAt
    <3>2. blocks' \in Seq(Blocks) /\ code.movedVars \subseteq code'.movedVars
      BY <1>2, <2>5 DEF SameBlocks
    <3> QED BY <1>2, <1>4, <2>5, <3>1, <3>2, DroppableKept
  <2> QED BY <1>2, <2>4, <2>7, <2>8, SoundKept DEF SoundNow
<1> QED BY <1>7, <1>8

-----------------------------------------------------------------------------
(* Every step keeps what the slots hold, unless the generator misses a move. *)

\* What is wrong about the statements so far is not forgotten.
Worse ==
  /\ gap = "missed" => gap' = "missed"
  /\ gap = "misdirected" => gap' \in {"missed", "misdirected"}
  /\ gap' = "none" => gap = "none"

\* A gap of the generator is at most followed by a worse one.
LEMMA LeaksWorse ==
  ASSUME NEW b, gap' = Leaks(b) \/ gap' = gap
  PROVE  Worse
BY DEF Leaks, Worse

\* No step forgets a gap of the generator.
LEMMA GapStep ==
  ASSUME Agree, [ONext]_ovars
  PROVE  Worse
<1>1. ASSUME NEW n \in Name, Declares(n)
      PROVE  Worse
  <2>1. PICK t, v, src, optional, struct, moves, e, d, valued, bound, r :
           DeclFacts(n, t, v, src, optional, struct, moves, e, d, valued, bound, r)
    BY <1>1, DeclStep
  <2>2. gap' = IF (src # NoName /\ ~moves) \/ ForgetsMove(n, src) THEN "missed"
               ELSE IF TakesBorrow(n) /\ gap # "missed" THEN "misdirected"
               ELSE Leaks(Slot(n) # 0 \/ ~struct \/ InIfLet)
    BY <2>1 DEF DeclFacts, DeclareWith
  <2> QED BY <2>2 DEF Leaks, Worse
<1>2. ASSUME \/ \E n \in Name : Use(n) \/ AssignNew(n)
             \/ \E n, x \in Name : Assign(n, x) \/ IfLet(n, x)
             \/ \E r \in RefName, x \in Name : Ref(r, x)
             \/ \E r \in RefName : UseRef(r)
             \/ If \/ Else \/ EndIf
             \/ \E x \in Name \cup {NoName} : Return(x)
             \/ EndFunction \/ UNCHANGED ovars
      PROVE  Worse
  <2>1. gap' = gap \/ \E b : gap' = Leaks(b)
    BY <1>2, ZenonT(60)
        DEF Use, AssignNew, Assign, IfLet, Ref, UseRef, If, Else, EndIf, Return, EndFunction,
            ovars
  <2> QED BY <2>1, LeaksWorse, SMTT(60)
<1>3. ASSUME NEW r \in RefName, NEW src \in Name \cup {NoName}, AssignThrough(r, src)
      PROVE  Worse
  <2>1. gap' = IF src # NoName THEN "missed" ELSE Leaks(TRUE)
    BY <1>3, SMTT(60) DEF AssignThrough
  <2> QED BY <2>1 DEF Leaks, Worse
<1> QED BY <1>1, <1>2, <1>3 DEF ONext, Declares

\* Every step of a function whose moves are all seen keeps SoundNow.
LEMMA SoundStep ==
  ASSUME Agree, Agree', gap # "missed" => SoundNow, [ONext]_ovars
  PROVE  gap' # "missed" => SoundNow'
<1>1. SUFFICES ASSUME gap' # "missed"
               PROVE  SoundNow'
  BY SMTT(60)
<1>2. SoundNow
  BY <1>1, GapStep DEF Worse
<1>3. CASE UNCHANGED ovars
  BY <1>2, <1>3 DEF ovars, SoundNow
<1>4. CASE \E n \in Name : Declares(n)
  BY <1>1, <1>2, <1>4, DeclareSound
<1>5. CASE \E r \in RefName, src \in Name \cup {NoName} : AssignThrough(r, src)
  BY <1>1, <1>2, <1>5, AssignThroughSound
<1> QED BY <1>2, <1>3, <1>4, <1>5, UseSound, UseRefSound, AssignNewSound, AssignSound,
           RefSound, IfSound, IfLetSound, ElseSound, EndIfSound, ReturnSound, EndFunctionSound
    DEF ONext, Declares

\* SoundNow holds of an empty function.
LEMMA SoundStarts ==
  ASSUME OInit
  PROVE  SoundNow
<1>1. machine.drops = {} /\ machine.slots = <<>> /\ ~machine.returned /\ code = Generator
      /\ machine.home = <<>>
  BY MachineStarts DEF OInit
<1>2. Agree
  BY AgreeStarts
<1>3. Held(checker, blocks, machine) = {}
  BY <1>1 DEF Held
<1>4. Droppable(code, blocks) = {}
  <2>1. /\ blocks \in Seq(Blocks) /\ machine \in Machines /\ GenInv(code, blocks, machine, hidden)
    BY <1>2, AgreeIs DEF Agree, Base
  <2>2. Droppable(code, blocks) \in SUBSET (1..Len(machine.slots))
    BY <2>1, DroppableSlots
  <2>3. 1..Len(machine.slots) = {}
    BY <1>1
  <2> QED BY <2>2, <2>3
<1> QED BY <1>1, <1>3, <1>4 DEF SoundNow, Sound, ValuesInv, FitsInv, DropsInv

\* As long as the generator has missed no move, what the checker does not take for moved
\* is what the slots own, and drop() was called at most once for every value.
Follows == Agree /\ (gap # "missed" => SoundNow)

\* In every state before the generator missed a move, a variable that the checker does not take
\* for moved owns what its slot holds, and no value was dropped twice.
THEOREM SlotsHold == OSpec => []Follows
<1>1. OInit => Follows
  BY AgreeStarts, SoundStarts DEF Follows
<1>2. Follows /\ [ONext]_ovars => Follows'
  BY AgreeStep, SoundStep DEF Follows
<1> QED BY <1>1, <1>2, PTL DEF OSpec

-----------------------------------------------------------------------------
(* Leaks. *)

LeakNow == LeakInv(code, blocks, machine)

\* The bindings of the same blocks.
LEMMA BindingsSame ==
  ASSUME NEW bs, NEW bs2, SameBlocks(bs, bs2), bs \in Seq(Blocks), NEW k \in Nat \ {0}
  PROVE  Bindings(bs2, k) = Bindings(bs, k)
<1>1. \A j \in k..Len(bs) : j \in 1..Len(bs)
  OBVIOUS
<1>2. Len(bs2) = Len(bs) /\ \A j \in 1..Len(bs) : bs2[j].kind = bs[j].kind /\ bs2[j].binding = bs[j].binding
  BY DEF SameBlocks, SameBlock
<1>3. {j \in k..Len(bs2) : bs2[j].kind = "iflet"} = {j \in k..Len(bs) : bs[j].kind = "iflet"}
  BY <1>1, <1>2
<1>4. \A j \in {i \in k..Len(bs) : bs[i].kind = "iflet"} : bs2[j].binding = bs[j].binding
  BY <1>1, <1>2
<1> QED BY <1>3, <1>4 DEF Bindings

\* The same memory, control and maps, in blocks that differ in other names.
LEMMA LeakSame ==
  ASSUME NEW g, NEW bs, bs \in Seq(Blocks), NEW m, LeakInv(g, bs, m), NEW bs2, SameBlocks(bs, bs2),
         \A i \in 1..Len(bs) : (bs2[i].left <=> bs[i].left)
           /\ (bs[i].kind = "iflet" => SlotAt(bs2, i, bs[i].binding) = SlotAt(bs, i, bs[i].binding)),
         NEW m2, m2.slots = m.slots, m2.home = m.home, m2.drops = m.drops, SameControl(m, m2)
  PROVE  LeakInv(g, bs2, m2)
<1>1. Len(bs2) = Len(bs) /\ \A i \in 1..Len(bs) : SameBlock(bs[i], bs2[i])
  BY DEF SameBlocks
<1>2. ReachedInv(bs2, m2)
  BY <1>1 DEF LeakInv, ReachedInv, SameBlock, SameControl
<1>3. KeptInv(g, bs2, m2)
  <2>1. \A v : (Keeps(g, m, v) => Keeps(g, m2, v)) /\ (Dropped(m, v) => Dropped(m2, v))
    BY DEF Keeps, Dropped
  <2> QED BY <1>1, <2>1 DEF LeakInv, KeptInv, SameControl
<1>4. SavedInv(g, bs) => SavedInv(g, bs2)
  <2>1. ASSUME NEW k \in 1..Len(bs), bs[k].kind = "iflet", SavedAt(g, bs, k)
        PROVE  SavedAt(g, bs2, k)
    BY <1>1, <2>1, BindingsSame DEF SavedAt, SameBlock
  <2>2. Bindings(bs2, 1) = Bindings(bs, 1)
    BY BindingsSame
  <2> QED BY <1>1, <2>1, <2>2 DEF SavedInv, SameBlock
<1> QED BY <1>2, <1>3, <1>4 DEF LeakInv, SameControl

\* A use of a variable keeps every value that is owned in a slot that will be dropped.
LEMMA UseLeak ==
  ASSUME Agree, LeakNow, NEW n \in Name, Use(n)
  PROVE  LeakNow'
<1>1. /\ blocks' = blocks /\ code' = code /\ SameButRead(machine, machine')
  BY UseIs DEF SimpleFacts
<1>2. blocks \in Seq(Blocks) /\ SameBlocks(blocks, blocks)
  BY AgreeIs, SameBlockSelf
<1>3. LeakInv(code, blocks, machine')
  BY <1>1, <1>2, LeakSame DEF LeakNow, SameButRead, SameControl
<1> QED BY <1>1, <1>3 DEF LeakNow

\* A use of a reference keeps every value that is owned in a slot that will be dropped.
LEMMA UseRefLeak ==
  ASSUME Agree, LeakNow, NEW q \in RefName, UseRef(q)
  PROVE  LeakNow'
<1>1. /\ blocks' = blocks /\ code' = code /\ SameButRead(machine, machine')
  BY UseRefIs DEF SimpleFacts
<1>2. blocks \in Seq(Blocks) /\ SameBlocks(blocks, blocks)
  BY AgreeIs, SameBlockSelf
<1>3. LeakInv(code, blocks, machine')
  BY <1>1, <1>2, LeakSame DEF LeakNow, SameButRead, SameControl
<1> QED BY <1>1, <1>3 DEF LeakNow

\* The declaration of a reference keeps every value that is owned in a slot that will be
\* dropped.
LEMMA RefLeak ==
  ASSUME Agree, LeakNow, NEW r \in RefName, NEW x \in Name, Ref(r, x)
  PROVE  LeakNow'
<1>1. PICK j, mutable, e, d, over : RefFacts(r, x, j, mutable, e, d, over)
  BY RefIs
<1>2. /\ code' = code /\ SameButRead(machine, current) /\ SameButRefs(current, machine')
  BY RefIs
<1>3. blocks \in Seq(Blocks)
  BY AgreeIs
<1>4. /\ \A i \in 1..Len(blocks) : ~Has(blocks, i, r)
      /\ \E E : Declared(blocks, blocks', r, E)
  BY <1>1 DEF RefFacts
<1>5. /\ SameBlocks(blocks, blocks')
      /\ \A i \in 1..Len(blocks) : blocks'[i].left <=> blocks[i].left
      /\ \A i \in 1..Len(blocks), n \in Name : Has(blocks, i, n) =>
           SlotAt(blocks', i, n) = SlotAt(blocks, i, n)
  BY <1>4 DEF Declared, SameBlocks, SlotAt, Names
<1>6. \A i \in 1..Len(blocks) : blocks[i].kind = "iflet" =>
         SlotAt(blocks', i, blocks[i].binding) = SlotAt(blocks, i, blocks[i].binding)
  <2>1. \A i \in 1..Len(blocks) : blocks[i].kind = "iflet" =>
          blocks[i].binding \in Name /\ Has(blocks, i, blocks[i].binding)
    BY <1>3, BlockIs DEF Has
  <2> QED BY <1>5, <2>1
<1>7. machine'.slots = machine.slots /\ machine'.home = machine.home /\ machine'.drops = machine.drops
      /\ SameControl(machine, machine')
  BY <1>2 DEF SameButRead, SameButRefs, SameControl
<1>8. LeakInv(code, blocks', machine')
  BY <1>3, <1>5, <1>6, <1>7, LeakSame DEF LeakNow
<1> QED BY <1>2, <1>8 DEF LeakNow

\* The bindings of the if lets from a block inward.
LEMMA BindingIs ==
  ASSUME NEW bs, NEW k, NEW x
  PROVE  x \in Bindings(bs, k) <=> \E l \in k..Len(bs) : bs[l].kind = "iflet" /\ x = bs[l].binding
BY DEF Bindings

\* The bindings when a block begins, or before it ends.
LEMMA BindingsPushed ==
  ASSUME NEW bs, bs \in Seq(Blocks), NEW b, NEW bs2, Pushed(bs, bs2, b), NEW k \in 1..Len(bs) + 1
  PROVE  Bindings(bs2, k) = Bindings(bs, k) \cup (IF b.kind = "iflet" THEN {b.binding} ELSE {})
<1>1. /\ Len(bs2) = Len(bs) + 1 /\ bs2[Len(bs) + 1] = b /\ Len(bs) \in Nat
      /\ \A i \in 1..Len(bs) : bs2[i] = bs[i]
  BY DEF Pushed
<1>2. \A l : l \in k..Len(bs2) <=> (l \in k..Len(bs) \/ l = Len(bs2))
  BY <1>1
<1>3. \A l \in k..Len(bs) : bs2[l] = bs[l]
  BY <1>1
<1>4. \A x : x \in Bindings(bs2, k) <=>
        x \in Bindings(bs, k) \cup (IF b.kind = "iflet" THEN {b.binding} ELSE {})
  BY <1>1, <1>2, <1>3, BindingIs, SMTT(60)
<1> QED BY <1>4

\* Without the block of an if let there is none.
LEMMA NoBindings ==
  ASSUME NEW bs, bs \in Seq(Blocks), \A i \in 1..Len(bs) : bs[i].kind # "iflet"
  PROVE  Bindings(bs, 1) = {}
BY DEF Bindings

\* The start of an if keeps every value that is owned in a slot that will be dropped.
LEMMA IfLeak ==
  ASSUME Agree, Agree', LeakNow, If, gap' = "none"
  PROVE  LeakNow'
<1>1. PICK b : IfFacts(b)
  BY IfIs
<1>2. /\ b.kind = "then" /\ (b.reached <=> machine.running) /\ ~b.left
      /\ Pushed(blocks, blocks', b) /\ (machine'.running <=> machine.running /\ b.taken)
  BY <1>1 DEF IfFacts
<1>3. /\ code' = code /\ SameButRead(machine, current) /\ SameButControl(current, machine')
      /\ (machine'.returned <=> machine.returned) /\ gap' = Leaks(~machine'.running) /\ Len(blocks) > 0
  BY IfIs
<1>4. blocks \in Seq(Blocks) /\ Len(blocks) \in Nat /\ blocks' \in Seq(Blocks) /\ Len(blocks') = Len(blocks) + 1
      /\ (\A i \in 1..Len(blocks) : blocks'[i] = blocks[i]) /\ blocks'[Len(blocks) + 1] = b
  BY <1>2, AgreeIs DEF Pushed
<1>5. machine'.running /\ machine.running /\ b.taken /\ b.reached
  <2>1. gap' = Leaks(~machine'.running) /\ gap' = "none"
    BY <1>3
  <2>2. machine'.running
    BY <2>1 DEF Leaks
  <2> QED BY <1>2, <2>2
<1>6. ReachedInv(blocks', machine')
  <2>1. \A i \in 1..Len(blocks') : i \in 1..Len(blocks) \/ i = Len(blocks) + 1
    BY <1>4
  <2>2. ReachedInv(blocks, machine) /\ ~machine.returned
    BY <1>3, <1>5 DEF LeakNow, LeakInv, ReachedInv
  <2> QED BY <1>2, <1>3, <1>4, <1>5, <2>1, <2>2 DEF ReachedInv
<1>7. KeptInv(code, blocks', machine')
  <2>1. machine'.slots = machine.slots /\ machine'.home = machine.home /\ machine'.drops = machine.drops
    BY <1>3 DEF SameButRead, SameButControl
  <2>2. \A v : (Keeps(code, machine, v) => Keeps(code, machine', v))
               /\ (Dropped(machine, v) => Dropped(machine', v))
    BY <2>1 DEF Keeps, Dropped
  <2>3. KeptInv(code, blocks, machine)
    BY DEF LeakNow, LeakInv
  <2> QED BY <1>3, <1>4, <2>1, <2>2, <2>3 DEF KeptInv
<1>8. SavedInv(code, blocks) => SavedInv(code, blocks')
  <2>1. \A k \in 1..Len(blocks) + 1 : Bindings(blocks', k) = Bindings(blocks, k)
    <3>1. b.kind # "iflet"
      BY <1>2
    <3> TAKE k \in 1..Len(blocks) + 1
    <3>2. blocks \in Seq(Blocks) /\ Pushed(blocks, blocks', b)
      BY <1>2, <1>4
    <3>3. Bindings(blocks', k) = Bindings(blocks, k) \cup (IF b.kind = "iflet" THEN {b.binding} ELSE {})
      BY <3>2, BindingsPushed
    <3> QED BY <3>1, <3>3
  <2>2. \A k \in 1..Len(blocks') : blocks'[k].kind = "iflet" =>
          k \in 1..Len(blocks) /\ blocks'[k] = blocks[k] /\ k \in 1..Len(blocks) + 1
    BY <1>2, <1>4
  <2>3. 1 \in 1..Len(blocks) + 1
    BY <1>4
  <2> QED BY <2>1, <2>2, <2>3 DEF SavedInv, SavedAt, SlotAt
<1> QED BY <1>3, <1>6, <1>7, <1>8 DEF LeakNow, LeakInv

\* What is declared without a gap: a name that is new, of a type that the generator
\* registers, outside of every if let.
LEMMA DeclaresClean ==
  ASSUME NEW n, NEW t, NEW v, NEW src, NEW optional, NEW struct, NEW moves,
         DeclareWith(n, t, v, src, optional, struct, moves), gap' = "none"
  PROVE  /\ Slot(n) = 0 /\ struct /\ ~InIfLet /\ (src # NoName => moves)
<1>1. gap' = IF (src # NoName /\ ~moves) \/ ForgetsMove(n, src) THEN "missed"
             ELSE IF TakesBorrow(n) /\ gap # "missed" THEN "misdirected"
             ELSE Leaks(Slot(n) # 0 \/ ~struct \/ InIfLet)
  BY DEF DeclareWith
<1>2. gap' = Leaks(Slot(n) # 0 \/ ~struct \/ InIfLet) /\ (src # NoName => moves)
  BY <1>1
<1> QED BY <1>2 DEF Leaks

\* The maps in use after a clean declaration of n, which may move src.
CleanMap(g, g2, n, s, src, optional) ==
  /\ NewMap(g, g2, n, s) /\ g.namedValues[n] = 0 /\ n \in g2.varStructTypes
  /\ g2.varOptionalTypes = IF optional THEN g.varOptionalTypes \cup {n} ELSE g.varOptionalTypes \ {n}
  /\ g2.movedVars = (g.movedVars \ {n}) \cup ({src} \cap g2.varStructTypes)

\* m2 is m with the value v in slot s.
StoreStep(m, m2, s, v) ==
  /\ SameButMemory(m, m2) /\ Len(m2.slots) = Len(m.slots)
  /\ \A k \in 1..Len(m.slots) : /\ m2.slots[k].type = m.slots[k].type
                                 /\ m2.slots[k].val = IF k = s THEN v ELSE m.slots[k].val
  /\ Len(m2.home) = IF v = Len(m.home) + 1 THEN Len(m.home) + 1 ELSE Len(m.home)
  /\ \A w \in 1..Len(m2.home) :
       m2.home[w] = IF w = v THEN s ELSE IF m.home[w] = s THEN Nowhere ELSE m.home[w]

\* What a store changes, as the proofs below use it.
LEMMA StoreSteps ==
  ASSUME NEW m \in Machines, m.running, NEW s \in 1..Len(m.slots),
         NEW v, v \in (1..Len(m.home) + 1) \cup {Nothing, Garbage}
  PROVE  StoreStep(m, store(m, s, v), s, v)
<1> DEFINE m2 == store(m, s, v)
<1>1. m2 = store(m, s, v) /\ Len(m.home) \in Nat
  BY MachineIs
<1>2. v \in Vals /\ (v \in Nat => v \in 1..Len(m.home) + 1)
  BY <1>1, ValuesAssumption DEF Vals
<1> HIDE DEF m2
<1>3. StoreStep(m, m2, s, v)
  BY <1>1, <1>2, StoreIs, SMTT(60) DEF StoreStep
<1> QED BY <1>1, <1>3

\* The value v is stored in the new slot of n; what was kept is kept.
KeptOn(g, m, g2, m2) ==
  /\ \A w \in DOMAIN m.home : Keeps(g, m, w) => Keeps(g2, m2, w)
  /\ \A w \in DOMAIN m2.home : w \notin DOMAIN m.home => Keeps(g2, m2, w)
  /\ \A w \in DOMAIN m.home : m.home[w] = Caller => m2.home[w] = Caller \/ Keeps(g2, m2, w)
  /\ m2.drops = m.drops /\ DOMAIN m.home \subseteq DOMAIN m2.home

\* A value kept for a drop is kept when a variable is declared and another's value moved to it.
LEMMA KeptStored ==
  ASSUME NEW g, NEW bs, bs \in Seq(Blocks), NEW m, m \in Machines, NEW hid, GenInv(g, bs, m, hid),
         m.running, NEW n \in Name, NEW src, src # n, NEW t, NEW optional,
         NEW g2, CleanMap(g, g2, n, Len(m.slots) + 1, src, optional),
         optional <=> t = "optional",
         NEW m1, m1 \in Machines, m1.running, m1.home = m.home, m1.drops = m.drops,
         Len(m1.slots) = Len(m.slots) + 1,
         \A s \in 1..Len(m.slots) : m1.slots[s] = m.slots[s],
         m1.slots[Len(m.slots) + 1].type = t,
         NEW v, v \in (1..Len(m.home) + 1) \cup {Nothing, Garbage},
         src \in Name => v = m.slots[g.namedValues[src]].val,
         NEW m2, StoreStep(m1, m2, Len(m.slots) + 1, v)
  PROVE  KeptOn(g, m, g2, m2)
<1> DEFINE new == Len(m.slots) + 1
<1>1. /\ g \in Generators /\ g2 \in Generators /\ g.namedValues[n] = 0 /\ n \in g2.varStructTypes
      /\ (\A a \in Name : g2.namedValues[a] = IF a = n THEN new ELSE g.namedValues[a])
      /\ \A a \in Name : a # n => (a \in g2.varStructTypes <=> a \in g.varStructTypes)
  BY DEF CleanMap, NewMap, GenInv
<1>2. /\ DOMAIN m.home = 1..Len(m.home) /\ DOMAIN m1.home = 1..Len(m.home) /\ Len(m.home) \in Nat
      /\ Len(m.slots) \in Nat /\ new \in 1..Len(m1.slots)
  BY MachineIs
<1>s. StoreStep(m1, m2, new, v)
  OBVIOUS
<1>4. /\ m2 \in Machines /\ m2.drops = m.drops
      /\ Len(m2.slots) = Len(m1.slots)
      /\ \A k \in 1..Len(m1.slots) : m2.slots[k].type = m1.slots[k].type
                                     /\ m2.slots[k].val = IF k = new THEN v ELSE m1.slots[k].val
      /\ Len(m2.home) = IF v = Len(m.home) + 1 THEN Len(m.home) + 1 ELSE Len(m.home)
      /\ \A w \in 1..Len(m2.home) :
           m2.home[w] = IF w = v THEN new ELSE IF m1.home[w] = new THEN Nowhere ELSE m1.home[w]
  BY <1>s DEF StoreStep, SameButMemory
<1>5. DOMAIN m2.home = 1..Len(m2.home) /\ Len(m2.home) \in Nat
  BY <1>4, MachineIs
<1>6. ASSUME NEW w \in DOMAIN m2.home, w = v
      PROVE  Keeps(g2, m2, w)
  <2>1. m2.home[w] = new /\ m2.slots[new].val = w /\ m2.slots[new].type = t /\ g2.namedValues[n] = new
    BY <1>1, <1>2, <1>4, <1>5, <1>6, ZenonT(60)
  <2>2. n \in g2.varStructTypes \ g2.movedVars
    BY <1>1 DEF CleanMap
  <2>3. t = "optional" => n \in g2.varOptionalTypes
    BY DEF CleanMap
  <2> QED BY <2>1, <2>2, <2>3 DEF Keeps
<1>7. \A w \in DOMAIN m2.home : w \notin DOMAIN m.home => w = v
  BY <1>2, <1>4, <1>5
<1>8. ASSUME NEW w \in DOMAIN m.home, Keeps(g, m, w)
      PROVE  Keeps(g2, m2, w)
  <2>1. PICK a \in g.varStructTypes \ g.movedVars :
          /\ g.namedValues[a] = m.home[w] /\ m.slots[g.namedValues[a]].val = w
          /\ m.slots[g.namedValues[a]].type = "optional" => a \in g.varOptionalTypes
    BY <1>8 DEF Keeps
  <2>2. a \in Name /\ g.namedValues[a] \in 1..Len(m.slots)
    BY <2>1, LiveSlots
  <2>3. a # n
    BY <1>1, <1>2, <2>2
  <2>4. w \in DOMAIN m2.home
    BY <1>2, <1>4, <1>5
  <2>5. CASE a = src
    BY <1>6, <2>1, <2>2, <2>4, <2>5
  <2>6. CASE a # src
    <3>1. g2.namedValues[a] = g.namedValues[a] /\ g.namedValues[a] # new
          /\ g.namedValues[a] \in 1..Len(m1.slots)
      BY <1>1, <1>2, <2>2, <2>3, SMTT(60)
    <3>2. a \in g2.varStructTypes \ g2.movedVars
      BY <1>1, <2>1, <2>2, <2>3, <2>6 DEF CleanMap
    <3>3. a \in g2.varOptionalTypes <=> a \in g.varOptionalTypes
      BY <2>3 DEF CleanMap
    <3>4. m2.slots[g.namedValues[a]].val = w
          /\ m2.slots[g.namedValues[a]].type = m.slots[g.namedValues[a]].type
      <4> DEFINE k == g.namedValues[a]
      <4>1. k \in 1..Len(m1.slots) /\ k # new /\ m1.slots[k] = m.slots[k] /\ m.slots[k].val = w
        BY <2>1, <2>2, <3>1
      <4> HIDE DEF k, new
      <4>2. m2.slots[k].val = w /\ m2.slots[k].type = m.slots[k].type
        BY <1>s, <4>1, SMTT(60) DEF StoreStep
      <4> QED BY <4>2 DEF k
    <3>5. CASE w = v
      BY <1>6, <2>4, <3>5
    <3>6. CASE w # v
      <4>1. m2.home[w] = m.home[w]
        BY <1>2, <1>4, <1>5, <2>1, <2>4, <3>1, <3>6, SMTT(60)
      <4> QED BY <2>1, <3>1, <3>2, <3>3, <3>4, <4>1, SMTT(60) DEF Keeps
    <3> QED BY <3>5, <3>6
  <2> QED BY <2>5, <2>6
<1>9. DOMAIN m.home \subseteq DOMAIN m2.home
  BY <1>2, <1>4, <1>5
<1>10. ASSUME NEW w \in DOMAIN m.home, m.home[w] = Caller
       PROVE  m2.home[w] = Caller \/ Keeps(g2, m2, w)
  <2>1. m.home[w] # new
    BY <1>2, <1>10, ValuesAssumption
  <2> QED BY <1>2, <1>4, <1>5, <1>6, <1>9, <1>10, <2>1, SMTT(60)
<1> QED BY <1>4, <1>6, <1>7, <1>8, <1>9, <1>10 DEF KeptOn

\* A declaration keeps every value that is owned in a slot that will be dropped.
LEMMA DeclareLeak ==
  ASSUME Agree, Agree', LeakNow, NEW n \in Name, Declares(n), gap' = "none"
  PROVE  LeakNow'
<1> DEFINE new == Len(machine.slots) + 1
<1>1. PICK t, v, src, optional, struct, moves, e, d, valued, bound, r :
         DeclFacts(n, t, v, src, optional, struct, moves, e, d, valued, bound, r)
  BY DeclStep
<1>2. /\ DeclareWith(n, t, v, src, optional, struct, moves)
      /\ DeclareFacts(n, t, v, src, e, d, valued, bound, r)
      /\ DeclaredCode(code, code', n, new, struct, optional, src, moves)
      /\ SameControl(machine, machine')
  BY <1>1 DEF DeclFacts
<1>3. Slot(n) = 0 /\ struct /\ ~InIfLet /\ (src # NoName => moves)
  BY <1>2, DeclaresClean
<1>4. /\ src \in Name \cup {NoName} /\ (optional <=> t = "optional") /\ optional \in BOOLEAN
      /\ v \in (1..Len(machine.home) + 1) \cup {Nothing, Garbage}
      /\ (src = NoName => v \in {Len(machine.home) + 1, Nothing} /\ ~moves)
      /\ (src # NoName => (\E i : Meant(src, i)) /\ v = machine.slots[Slot(src)].val /\ t = Type(src))
      /\ moves \in BOOLEAN
  BY <1>2, <1>3 DEF DeclareWith
<1>5. /\ Len(blocks) > 0 /\ Declared(blocks, blocks', n, Entry(t, new))
      /\ SameButRead(machine, valued) /\ Grown(valued, bound, t)
      /\ machine' = store(bound, new, v)
      /\ new \in 1..Len(bound.slots)
  BY <1>2 DEF DeclareFacts
<1>6. /\ blocks \in Seq(Blocks) /\ Len(blocks) \in Nat /\ machine \in Machines /\ MachineInv(machine)
      /\ GenInv(code, blocks, machine, hidden) /\ code \in Generators
      /\ DOMAIN machine.home = 1..Len(machine.home) /\ Len(machine.home) \in Nat
      /\ Len(machine.slots) \in Nat
  BY AgreeIs, MachineIs DEF Agree, Base
<1>7. /\ SameBlocks(blocks, blocks')
      /\ \A i \in 1..Len(blocks) : blocks'[i].left <=> blocks[i].left
      /\ \A i \in 1..Len(blocks) : blocks[i].kind # "iflet" /\ blocks'[i].kind # "iflet"
      /\ Len(blocks') = Len(blocks)
  BY <1>3, <1>5, <1>6 DEF Declared, SameBlocks, SameBlock, InIfLet
<1>8. ReachedInv(blocks', machine')
  BY <1>2, <1>7, ZenonT(60) DEF LeakNow, LeakInv, ReachedInv, SameBlocks, SameBlock, SameControl
<1>9. CleanMap(code, code', n, new, src, optional)
  <2>1. NoName \notin Name /\ code'.varStructTypes \subseteq Name
    BY <1>1, NamesAssumption, GeneratorIs DEF DeclFacts
  <2>2. code.namedValues[n] = 0
    BY <1>3 DEF Slot
  <2>3. code'.movedVars = (code.movedVars \ {n}) \cup ({src} \cap code'.varStructTypes)
    BY <1>2, <1>3, <1>4, <2>1 DEF DeclaredCode
  <2> QED BY <1>2, <1>3, <2>2, <2>3 DEF DeclaredCode, CleanMap
<1>10. src # n /\ (src \in Name => src # NoName /\ v = machine.slots[code.namedValues[src]].val)
  <2>1. NoName \notin Name
    BY NamesAssumption
  <2>2. src # NoName => Slot(src) \in 1..Len(machine.slots)
    BY <1>4, <2>1 DEF Meant
  <2>3. src # n
    BY <1>3, <1>6, <2>1, <2>2
  <2> QED BY <1>4, <2>1, <2>3 DEF Slot
<1>11. ~machine'.returned => SavedInv(code', blocks')
  <2>1. SUFFICES ASSUME ~machine'.returned
                 PROVE  SavedInv(code', blocks')
    OBVIOUS
  <2>2. SavedInv(code, blocks)
    BY <1>2, <2>1 DEF LeakNow, LeakInv, SameControl
  <2>3. Bindings(blocks', 1) = {}
    BY <1>7, NoBindings DEF SameBlocks
  <2>4. \A a \in code'.movedVars : code'.namedValues[a] # 0
    <3>1. \A a \in Name : code'.namedValues[a] = IF a = n THEN new ELSE code.namedValues[a]
      BY <1>9 DEF CleanMap, NewMap
    <3>2. \A a \in code'.movedVars : a \in code.movedVars \/ (a = src /\ src \in Name)
      <4>1. code'.varStructTypes \subseteq Name
        BY <1>1, GeneratorIs DEF DeclFacts
      <4> QED BY <1>9, <4>1 DEF CleanMap
    <3>3. src \in Name => code.namedValues[src] # 0
      BY <1>4, <1>6, <1>10 DEF Meant, Slot
    <3>4. \A a \in code.movedVars : a \in Name /\ code.namedValues[a] # 0
      BY <1>6, <2>2, GeneratorIs DEF SavedInv
    <3>5. new # 0
      BY <1>6
    <3> QED BY <3>1, <3>2, <3>3, <3>4, <3>5
  <2> QED BY <1>7, <2>3, <2>4 DEF SavedInv
<1>12. /\ bound \in Machines /\ (bound.running <=> machine.running) /\ bound.home = machine.home
       /\ bound.drops = machine.drops /\ Len(bound.slots) = new
       /\ (\A s \in 1..Len(machine.slots) : bound.slots[s] = machine.slots[s])
       /\ bound.slots[new].type = t
  BY <1>5 DEF Grown, SameButRead, MachineInv, SameControl
<1>13. CASE ~machine.running
  <2>1. machine' = bound
    BY <1>5, <1>12, <1>13, NoStore
  <2>2. machine.returned
    BY <1>5, <1>13 DEF LeakNow, LeakInv, ReachedInv
  <2>3. \A w \in DOMAIN machine.home : machine.home[w] = Caller \/ Dropped(machine, w)
    BY <2>2 DEF LeakNow, LeakInv, KeptInv
  <2>4. KeptInv(code', blocks', machine')
    BY <1>12, <2>1, <2>3 DEF KeptInv, Dropped
  <2> QED BY <1>8, <1>11, <2>4 DEF LeakNow, LeakInv
<1>14. CASE machine.running
  <2>1. ~machine.returned /\ ~machine'.returned /\ Len(blocks') > 0
    BY <1>2, <1>5, <1>7, <1>14 DEF LeakNow, LeakInv, ReachedInv, SameControl
  <2>3. StoreStep(bound, machine', new, v)
    BY <1>4, <1>5, <1>12, <1>14, StoreSteps, ZenonT(60)
  <2>4. KeptOn(code, machine, code', machine')
    <3>1. Len(bound.slots) = Len(machine.slots) + 1 /\ bound.running
      BY <1>12, <1>14
    <3>2. bound.slots[Len(machine.slots) + 1].type = t
      BY <1>12
    <3>3. (optional <=> t = "optional") /\ v \in (1..Len(machine.home) + 1) \cup {Nothing, Garbage}
      BY <1>4
    <3> QED BY <1>6, <1>9, <1>10, <1>12, <1>14, <2>3, <3>1, <3>2, <3>3, KeptStored, ZenonT(60)
  <2>5. KeptInv(code', blocks', machine')
    <3>1. KeptInv(code, blocks, machine)
      BY DEF LeakNow, LeakInv
    <3> QED BY <2>1, <2>4, <3>1 DEF KeptInv, Dropped, KeptOn
  <2> QED BY <1>8, <1>11, <2>5 DEF LeakNow, LeakInv
<1> QED BY <1>13, <1>14

\* m2 is m with nil in the Optional of slot s.
ClearStep(m, m2, s) ==
  /\ m2 \in Machines /\ m2.home = m.home /\ m2.drops = m.drops /\ Len(m2.slots) = Len(m.slots)
  /\ \A k \in 1..Len(m.slots) : /\ m2.slots[k].type = m.slots[k].type
                                 /\ m2.slots[k].val = IF k = s THEN Nothing ELSE m.slots[k].val

\* What emptying an optional slot changes, as the proofs below use it.
LEMMA ClearSteps ==
  ASSUME NEW m \in Machines, NEW s \in 1..Len(m.slots)
  PROVE  ClearStep(m, Clear(m, s), s)
<1> DEFINE m2 == Clear(m, s)
<1>1. m2 = Clear(m, s)
  OBVIOUS
<1> HIDE DEF m2
<1>2. ClearStep(m, m2, s)
  BY <1>1, ClearIs DEF ClearStep, SameButMemory
<1> QED BY <1>1, <1>2

\* The maps in use in the block of an if let on x.
LetMap(g, g2, v, x, s) ==
  /\ NewMap(g, g2, v, s) /\ g.namedValues[v] = 0
  /\ g2.varStructTypes = g.varStructTypes \cup {v}
  /\ g2.varOptionalTypes = g.varOptionalTypes
  /\ g2.movedVars = (g.movedVars \cup {x}) \ {v}

\* The payload of x goes to the new slot of the binding v.
LEMMA KeptTaken ==
  ASSUME NEW g, NEW bs, bs \in Seq(Blocks), NEW m, m \in Machines, NEW hid, GenInv(g, bs, m, hid),
         NEW v \in Name, NEW x \in Name, NEW new, new = Len(m.slots) + 1,
         NEW sx \in 1..Len(m.slots), sx = g.namedValues[x], NEW val, val = m.slots[sx].val,
         NEW g2, LetMap(g, g2, v, x, new),
         NEW m1, m1 \in Machines, m1.home = m.home, m1.drops = m.drops,
         Len(m1.slots) = new,
         \A s \in 1..Len(m.slots) : m1.slots[s] = m.slots[s],
         m1.slots[new].type = "struct", val \in DOMAIN m.home,
         NEW m2, StoreStep(m1, m2, new, val), NEW m3, ClearStep(m2, m3, sx)
  PROVE  KeptOn(g, m, g2, m3)
<1>1. /\ g \in Generators /\ g2 \in Generators /\ g.namedValues[v] = 0
      /\ \A a \in Name : g2.namedValues[a] = IF a = v THEN new ELSE g.namedValues[a]
  BY DEF LetMap, NewMap, GenInv
<1>2. /\ DOMAIN m.home = 1..Len(m.home) /\ DOMAIN m1.home = 1..Len(m.home) /\ Len(m.home) \in Nat
      /\ Len(m.slots) \in Nat /\ new \in 1..Len(m1.slots) /\ sx \in 1..Len(m.slots) /\ sx # new
      /\ val \in 1..Len(m.home)
  BY MachineIs
<1>3. /\ m2 \in Machines /\ m3 \in Machines /\ m3.drops = m.drops
      /\ Len(m2.home) = Len(m.home) /\ m3.home = m2.home
  BY <1>2 DEF StoreStep, SameButMemory, ClearStep
<1>4. DOMAIN m3.home = 1..Len(m.home)
  BY <1>3, MachineIs
<1>5. ASSUME NEW w \in 1..Len(m.home)
      PROVE  /\ w = val => m3.home[w] = new
             /\ w # val /\ m.home[w] # new => m3.home[w] = m.home[w]
  BY <1>3 DEF StoreStep
<1>6. /\ m3.slots[new].val = val /\ m3.slots[new].type = "struct"
      /\ \A k \in 1..Len(m.slots) : k # sx =>
           m3.slots[k].val = m.slots[k].val /\ m3.slots[k].type = m.slots[k].type
  <2>1. new \in 1..Len(m1.slots) /\ new \in 1..Len(m2.slots) /\ new # sx
    BY <1>2 DEF StoreStep
  <2>2. m2.slots[new].val = val /\ m2.slots[new].type = "struct"
    BY <2>1, ZenonT(60) DEF StoreStep
  <2>3. m3.slots[new].val = val /\ m3.slots[new].type = "struct"
    BY <2>1, <2>2, ZenonT(60) DEF ClearStep
  <2>4. ASSUME NEW k \in 1..Len(m.slots), k # sx
        PROVE  m3.slots[k].val = m.slots[k].val /\ m3.slots[k].type = m.slots[k].type
    <3>1. k \in 1..Len(m1.slots) /\ k # new /\ m1.slots[k] = m.slots[k] /\ k \in 1..Len(m2.slots)
      BY <1>2 DEF StoreStep
    <3>2. m2.slots[k].val = m.slots[k].val /\ m2.slots[k].type = m.slots[k].type
      BY <3>1, ZenonT(60) DEF StoreStep
    <3> QED BY <2>4, <3>1, <3>2 DEF ClearStep
  <2> QED BY <2>3, <2>4
<1>7. Keeps(g2, m3, val)
  <2>1. v \in g2.varStructTypes \ g2.movedVars /\ g2.namedValues[v] = new
    BY <1>1 DEF LetMap
  <2>2. m3.home[val] = new
    BY <1>2, <1>5, ZenonT(60)
  <2>3. m3.slots[new].val = val /\ m3.slots[new].type = "struct"
    BY <1>6
  <2> QED BY <2>1, <2>2, <2>3, ZenonT(60) DEF Keeps
<1>8. ASSUME NEW w \in DOMAIN m.home, Keeps(g, m, w)
      PROVE  Keeps(g2, m3, w)
  <2>1. PICK a \in g.varStructTypes \ g.movedVars :
          /\ g.namedValues[a] = m.home[w] /\ m.slots[g.namedValues[a]].val = w
          /\ m.slots[g.namedValues[a]].type = "optional" => a \in g.varOptionalTypes
    BY <1>8 DEF Keeps
  <2>2. a \in Name /\ g.namedValues[a] \in 1..Len(m.slots)
    BY <2>1, LiveSlots
  <2>3. a # v
    BY <1>1, <2>2
  <2>4. CASE w = val
    BY <1>7, <2>4
  <2>5. CASE w # val
    <3>1. g.namedValues[a] # sx
      BY <2>1, <2>5
    <3>2. a # x
      BY <3>1
    <3>3. g.namedValues[a] # new
      BY <1>2, <2>2
    <3>4. m3.home[w] = m.home[w]
      BY <1>2, <1>5, <2>1, <2>5, <3>3, ZenonT(60)
    <3>5. a \in g2.varStructTypes \ g2.movedVars /\ g2.namedValues[a] = g.namedValues[a]
      BY <1>1, <2>1, <2>2, <2>3, <3>2 DEF LetMap
    <3>6. g2.varOptionalTypes = g.varOptionalTypes
      BY DEF LetMap
    <3>7. m3.slots[g.namedValues[a]].val = w
          /\ m3.slots[g.namedValues[a]].type = m.slots[g.namedValues[a]].type
      BY <1>6, <2>1, <2>2, <3>1, ZenonT(60)
    <3> QED BY <2>1, <3>4, <3>5, <3>6, <3>7, SMTT(60) DEF Keeps
  <2> QED BY <2>4, <2>5
<1>9. ASSUME NEW w \in DOMAIN m.home, m.home[w] = Caller
      PROVE  m3.home[w] = Caller \/ Keeps(g2, m3, w)
  <2>1. Caller # new
    BY <1>2, ValuesAssumption
  <2> QED BY <1>2, <1>5, <1>7, <1>9, <2>1, ZenonT(60)
<1> QED BY <1>2, <1>3, <1>4, <1>8, <1>9 DEF KeptOn

\* What the block of an if let saves, and what the blocks around it have saved.
LEMMA SavedLet ==
  ASSUME NEW g, NEW bs, bs \in Seq(Blocks), NEW m, m \in Machines, NEW hid, GenInv(g, bs, m, hid),
         SavedInv(g, bs), NEW v \in Name, NEW x \in Name,
         NEW i \in 1..Len(bs), Has(bs, i, x), g.namedValues[x] = SlotAt(bs, i, x),
         TypeAt(bs, i, x) = "optional",
         NEW s \in Nat, NEW g2, LetMap(g, g2, v, x, s),
         NEW b, NEW bs2, Pushed(bs, bs2, b), b.kind = "iflet", b.binding = v,
         b.names[v] = Entry("struct", s),
         b.saved.namedValues = g.namedValues, b.saved.varStructTypes = g.varStructTypes,
         b.saved.movedVars = g.movedVars \cup {x}
  PROVE  SavedInv(g2, bs2)
<1> DEFINE L == Len(bs)
<1>1. /\ g \in Generators /\ g.namedValues[v] = 0 /\ L \in Nat
      /\ (\A a \in Name : g2.namedValues[a] = IF a = v THEN s ELSE g.namedValues[a])
      /\ g2.varStructTypes = g.varStructTypes \cup {v} /\ g2.movedVars = (g.movedVars \cup {x}) \ {v}
  BY DEF LetMap, NewMap, GenInv
<1>2. /\ Len(bs2) = L + 1 /\ bs2[L + 1] = b /\ \A k \in 1..L : bs2[k] = bs[k]
  BY DEF Pushed
<1>3. ASSUME NEW k \in 1..L + 1
      PROVE  Bindings(bs2, k) = Bindings(bs, k) \cup {v}
  <2>1. Bindings(bs2, k) = Bindings(bs, k) \cup (IF b.kind = "iflet" THEN {b.binding} ELSE {})
    BY BindingsPushed
  <2> QED BY <2>1
<1>4. g.movedVars \subseteq Name /\ g.varStructTypes \subseteq Name
  BY <1>1, GeneratorIs
<1>5. v \notin g.varStructTypes
  <2>1. v \in g.varStructTypes => g.namedValues[v] \in 1..Len(m.slots)
    BY LiveSlots
  <2> QED BY <1>1, <2>1, MachineIs
<1>6. v \notin g.movedVars /\ \A n \in g.movedVars : g.namedValues[n] # 0 /\ n \notin Bindings(bs, 1)
  BY <1>1 DEF SavedInv
<1>7. g.namedValues[x] \in 1..Len(m.slots) /\ g.namedValues[x] # 0 /\ x # v
  BY <1>1, SlotsAre, MachineIs
<1>8. x \notin Bindings(bs, 1)
  <2> SUFFICES ASSUME NEW l \in 1..L, bs[l].kind = "iflet", x = bs[l].binding
               PROVE  FALSE
    BY BindingIs
  <2>1. SlotAt(bs, l, bs[l].binding) = SlotAt(bs, i, x)
    BY DEF SavedInv, SavedAt
  <2>2. l = i
    BY <2>1, SlotMeans
  <2>3. bs[l] \in Blocks
    OBVIOUS
  <2>4. TypeAt(bs, l, x) = "struct"
    BY <2>3, BlockIs DEF TypeAt
  <2> QED BY <2>2, <2>4
<1>9. \A n \in g2.movedVars : g2.namedValues[n] # 0 /\ n \notin Bindings(bs2, 1)
  <2>1. 1 \in 1..L + 1
    BY <1>1
  <2>2. Bindings(bs2, 1) = Bindings(bs, 1) \cup {v}
    BY <1>3, <2>1
  <2> QED BY <1>1, <1>4, <1>6, <1>7, <1>8, <2>2
<1>10. ASSUME NEW k \in 1..L, bs[k].kind = "iflet"
       PROVE  SavedAt(g2, bs2, k)
  <2>1. SavedAt(g, bs, k) /\ bs2[k] = bs[k] /\ k \in 1..L + 1
    BY <1>1, <1>2, <1>10 DEF SavedInv
  <2>2. Bindings(bs2, k) = Bindings(bs, k) \cup {v}
    BY <1>3, <2>1
  <2>3. bs[k] \in Blocks
    OBVIOUS
  <2>4. bs[k].binding \in Name /\ Has(bs, k, bs[k].binding)
    BY <1>10, <2>3, BlockIs DEF Has
  <2>5. g.namedValues[bs[k].binding] # 0
    <3>1. SlotAt(bs, k, bs[k].binding) \in 1..Len(m.slots)
      BY <2>4, SlotsAre
    <3>2. g.namedValues[bs[k].binding] = SlotAt(bs, k, bs[k].binding)
      BY <2>1 DEF SavedAt
    <3> QED BY <3>1, <3>2, MachineIs
  <2>6. g2.namedValues[bs2[k].binding] = SlotAt(bs2, k, bs2[k].binding)
    BY <1>1, <2>1, <2>4, <2>5 DEF SavedAt, SlotAt
  <2>7. bs2[k].saved.varStructTypes = g2.varStructTypes \ Bindings(bs2, k)
    BY <1>1, <1>5, <2>1, <2>2 DEF SavedAt
  <2>8. bs2[k].saved.movedVars \subseteq g2.movedVars
    BY <1>1, <1>6, <2>1 DEF SavedAt
  <2>9. ASSUME NEW n \in Name
        PROVE  bs2[k].saved.namedValues[n] = IF n \in Bindings(bs2, k) THEN 0 ELSE g2.namedValues[n]
    <3>1. bs[k].saved.namedValues[n] = IF n \in Bindings(bs, k) THEN 0 ELSE g.namedValues[n]
      BY <2>1 DEF SavedAt
    <3> QED BY <1>1, <2>1, <2>2, <3>1
  <2> QED BY <2>6, <2>7, <2>8, <2>9 DEF SavedAt
<1>11. SavedAt(g2, bs2, L + 1)
  <2>1. Bindings(bs2, L + 1) = {v}
    <3>1. Bindings(bs, L + 1) = {}
      <4>1. L + 1..L = {}
        BY <1>1
      <4> QED BY <4>1 DEF Bindings
    <3>2. L + 1 \in 1..L + 1
      BY <1>1
    <3>3. Bindings(bs2, L + 1) = Bindings(bs, L + 1) \cup {v}
      BY <1>3, <3>2
    <3> QED BY <3>1, <3>3
  <2>2. SlotAt(bs2, L + 1, v) = s
    BY <1>2 DEF SlotAt, Entry
  <2>3. bs2[L + 1].binding = v /\ bs2[L + 1].saved = b.saved
    BY <1>2
  <2>4. b.saved.varStructTypes = g2.varStructTypes \ {v} /\ b.saved.movedVars \subseteq g2.movedVars
    BY <1>1, <1>5, <1>6, <1>7
  <2>5. \A n \in Name : b.saved.namedValues[n] = IF n \in {v} THEN 0 ELSE g2.namedValues[n]
    BY <1>1
  <2>6. g2.namedValues[v] = s
    BY <1>1
  <2> QED BY <2>1, <2>2, <2>3, <2>4, <2>5, <2>6 DEF SavedAt
<1>12. \A k \in 1..Len(bs2) : k \in 1..L \/ k = L + 1
  BY <1>1, <1>2
<1>13. \A k \in 1..Len(bs2) : bs2[k].kind = "iflet" => SavedAt(g2, bs2, k)
  BY <1>2, <1>10, <1>11, <1>12
<1> QED BY <1>9, <1>13 DEF SavedInv

\* The start of an if let keeps every value that is owned in a slot that will be dropped.
LEMMA IfLetLeak ==
  ASSUME Agree, Agree', LeakNow, NEW v \in Name, NEW x \in Name, IfLet(v, x), gap' = "none"
  PROVE  LeakNow'
<1> DEFINE new == Len(machine.slots) + 1
           val == machine.slots[Slot(x)].val
<1>1. PICK i, e, b : IfLetFacts(v, x, i, e, b)
  BY IfLetHead
<1>2. /\ Len(blocks) > 0 /\ gap' = Leaks(Slot(v) # 0 \/ ~machine'.running)
  BY IfLetHead
<1>3. /\ Meant(x, i) /\ Type(x) = "optional"
      /\ b.kind = "iflet" /\ b.binding = v /\ ~b.left /\ (b.reached <=> machine.running)
      /\ b.names[v] = Entry("struct", new) /\ (b.taken <=> val \notin {Nothing, Garbage})
      /\ b.saved.namedValues = code.namedValues /\ b.saved.varStructTypes = code.varStructTypes
      /\ b.saved.movedVars = code.movedVars \cup {x}
      /\ Pushed(blocks, blocks', b) /\ NewMap(code, code', v, new)
      /\ code'.varStructTypes = code.varStructTypes \cup {v}
      /\ code'.varOptionalTypes = code.varOptionalTypes
      /\ code'.movedVars = (code.movedVars \cup {x}) \ {v}
  BY <1>1 DEF IfLetFacts
<1>4. PICK loaded, bound : TakeFacts(x, val \notin {Nothing, Garbage}, loaded, bound)
  BY <1>3, IfLetMachine
<1>5. /\ SameButRead(machine, loaded) /\ Grown(loaded, bound, "struct")
      /\ (machine'.running <=> machine.running /\ val \notin {Nothing, Garbage})
      /\ (machine'.returned <=> machine.returned)
      /\ machine.running /\ val \notin {Nothing, Garbage} =>
           /\ val \in DOMAIN machine.home
           /\ machine' = Clear(store(bound, new, val), Slot(x))
  BY <1>4 DEF TakeFacts
<1>6. Slot(v) = 0 /\ machine'.running /\ machine.running /\ val \notin {Nothing, Garbage}
  <2>1. gap' = Leaks(Slot(v) # 0 \/ ~machine'.running) /\ gap' = "none"
    BY <1>2
  <2>2. Slot(v) = 0 /\ machine'.running
    BY <2>1 DEF Leaks
  <2> QED BY <1>5, <2>2
<1>7. /\ blocks \in Seq(Blocks) /\ Len(blocks) \in Nat /\ machine \in Machines /\ MachineInv(machine)
      /\ GenInv(code, blocks, machine, hidden) /\ code \in Generators
      /\ DOMAIN machine.home = 1..Len(machine.home) /\ Len(machine.home) \in Nat
      /\ Len(machine.slots) \in Nat /\ new \in Nat
  BY AgreeIs, MachineIs DEF Agree, Base
<1>8. /\ i \in 1..Len(blocks) /\ Has(blocks, i, x) /\ Slot(x) = SlotAt(blocks, i, x)
      /\ Slot(x) \in 1..Len(machine.slots) /\ TypeAt(blocks, i, x) = "optional"
  BY <1>3 DEF Meant
<1>9. LetMap(code, code', v, x, new)
  BY <1>3, <1>6 DEF LetMap, Slot
<1>10. ~machine.returned /\ ~machine'.returned /\ SavedInv(code, blocks)
       /\ ReachedInv(blocks, machine) /\ KeptInv(code, blocks, machine)
  BY <1>2, <1>5, <1>6 DEF LeakNow, LeakInv, ReachedInv
<1>11. SavedInv(code', blocks')
  <2>1. code.namedValues[x] = SlotAt(blocks, i, x)
    BY <1>8 DEF Slot
  <2> HIDE DEF new
  <2> QED BY <1>3, <1>7, <1>8, <1>9, <1>10, <2>1, SavedLet
<1>12. ReachedInv(blocks', machine')
  <2>1. Len(blocks') = Len(blocks) + 1 /\ blocks'[Len(blocks) + 1] = b
        /\ \A k \in 1..Len(blocks) : blocks'[k] = blocks[k]
    BY <1>3 DEF Pushed
  <2>2. \A k \in 1..Len(blocks') : k \in 1..Len(blocks) \/ k = Len(blocks) + 1
    BY <1>7, <2>1
  <2>3. b.reached /\ b.taken /\ ~b.left
    BY <1>3, <1>6
  <2> QED BY <1>6, <1>10, <2>1, <2>2, <2>3 DEF ReachedInv
<1>13. /\ bound \in Machines /\ bound.running /\ bound.home = machine.home
       /\ bound.drops = machine.drops /\ Len(bound.slots) = Len(machine.slots) + 1
       /\ (\A s \in 1..Len(machine.slots) : bound.slots[s] = machine.slots[s])
       /\ bound.slots[Len(machine.slots) + 1].type = "struct"
  BY <1>5, <1>6 DEF Grown, SameButRead, MachineInv, SameControl
<1>14. val \in DOMAIN machine.home /\ machine' = Clear(store(bound, new, val), Slot(x))
  BY <1>5, <1>6
<1>15. KeptOn(code, machine, code', machine')
  <2> DEFINE m2 == store(bound, new, val)
  <2>1. new \in 1..Len(bound.slots) /\ val \in (1..Len(bound.home) + 1) \cup {Nothing, Garbage}
        /\ machine' = Clear(m2, Slot(x))
    BY <1>7, <1>13, <1>14, SMTT(60)
  <2>2. StoreStep(bound, m2, new, val)
    BY <1>13, <2>1, StoreSteps
  <2>3. Slot(x) = code.namedValues[x]
    BY DEF Slot
  <2> HIDE DEF m2
  <2>4. m2 \in Machines /\ Slot(x) \in 1..Len(m2.slots)
    BY <1>7, <1>8, <1>13, <2>2 DEF StoreStep, SameButMemory
  <2>5. ClearStep(m2, machine', Slot(x))
    BY <2>1, <2>4, ClearSteps
  <2>6. /\ StoreStep(bound, m2, Len(machine.slots) + 1, machine.slots[code.namedValues[x]].val)
        /\ ClearStep(m2, machine', code.namedValues[x])
        /\ code.namedValues[x] \in 1..Len(machine.slots)
        /\ machine.slots[code.namedValues[x]].val \in DOMAIN machine.home
    BY <1>8, <1>14, <2>2, <2>3, <2>5
  <2>7. LetMap(code, code', v, x, Len(machine.slots) + 1)
    BY <1>9
  <2> HIDE DEF new, val
  <2> QED BY <1>7, <1>13, <2>6, <2>7, KeptTaken, ZenonT(60)
<1>16. KeptInv(code', blocks', machine')
  <2>1. Len(blocks') > 0
    BY <1>3, <1>7 DEF Pushed
  <2> QED BY <1>10, <1>15, <2>1 DEF KeptInv, Dropped, KeptOn
<1> QED BY <1>10, <1>11, <1>12, <1>16 DEF LeakNow, LeakInv

\* What the blocks around have saved, when the innermost ends.
LEMMA SavedPopped ==
  ASSUME NEW g, NEW bs, bs \in Seq(Blocks), NEW m, m \in Machines, NEW hid, GenInv(g, bs, m, hid),
         SavedInv(g, bs), Len(bs) > 0, NEW bs2, Popped(bs, bs2), NEW g2, MapsAfter(g, bs, g2)
  PROVE  SavedInv(g2, bs2)
<1> DEFINE L == Len(bs)
           b == bs[L].binding
<1>1. /\ L \in Nat /\ L \in 1..L /\ bs2 \in Seq(Blocks) /\ Len(bs2) = L - 1 /\ L = Len(bs2) + 1
      /\ \A k \in 1..Len(bs2) : bs2[k] = bs[k] /\ k \in 1..L /\ k # L /\ k \in 1..Len(bs2) + 1
      /\ bs[L] \in Blocks /\ 1 \in 1..Len(bs2) + 1 /\ L \in 1..Len(bs2) + 1
  BY DEF Popped
<1>2. Pushed(bs2, bs, bs[L])
  BY <1>1 DEF Pushed
<1>3. \A k \in 1..Len(bs2) + 1 :
        Bindings(bs, k) = Bindings(bs2, k) \cup (IF bs[L].kind = "iflet" THEN {b} ELSE {})
  BY <1>1, <1>2, BindingsPushed
<1>4. /\ Map(g2) = IF bs[L].kind = "iflet" THEN Map(bs[L].saved) ELSE Map(g)
      /\ g2.movedVars = IF bs[L].kind = "iflet" THEN g.movedVars \cup bs[L].saved.movedVars
                        ELSE g.movedVars
  BY DEF MapsAfter
<1>5. CASE bs[L].kind # "iflet"
  <2>1. g2.namedValues = g.namedValues /\ g2.varStructTypes = g.varStructTypes
        /\ g2.movedVars = g.movedVars
    BY <1>4, <1>5 DEF Map
  <2>2. \A k \in 1..Len(bs2) + 1 : Bindings(bs, k) = Bindings(bs2, k)
    BY <1>3, <1>5
  <2> QED BY <1>1, <2>1, <2>2 DEF SavedInv, SavedAt, SlotAt
<1>6. CASE bs[L].kind = "iflet"
  <2>1. g2.namedValues = bs[L].saved.namedValues /\ g2.varStructTypes = bs[L].saved.varStructTypes
        /\ g2.movedVars = g.movedVars \cup bs[L].saved.movedVars
    BY <1>4, <1>6 DEF Map
  <2>2. Bindings(bs, L) = {b}
    <3>1. \A l \in L..Len(bs) : l = L
      BY <1>1
    <3>2. L \in L..Len(bs)
      BY <1>1
    <3>3. \A x : x \in Bindings(bs, L) <=> x = b
      BY <1>6, <3>1, <3>2, BindingIs
    <3> QED BY <3>3
  <2>3. SavedAt(g, bs, L) /\ b \notin g.movedVars
    <3>1. b \in Bindings(bs, 1)
      BY <1>1, <1>3, <1>6
    <3> QED BY <1>1, <1>6, <3>1 DEF SavedInv
  <2>4. /\ g2.varStructTypes = g.varStructTypes \ {b} /\ g2.movedVars = g.movedVars
        /\ \A n \in Name : g2.namedValues[n] = IF n = b THEN 0 ELSE g.namedValues[n]
        /\ g.namedValues[b] = SlotAt(bs, L, b)
    BY <2>1, <2>2, <2>3 DEF SavedAt
  <2>5. g.movedVars \subseteq Name
    BY GeneratorIs DEF GenInv
  <2>6. \A n \in g2.movedVars : g2.namedValues[n] # 0 /\ n \notin Bindings(bs2, 1)
    BY <1>1, <1>3, <2>3, <2>4, <2>5, ZenonT(60) DEF SavedInv
  <2>7. ASSUME NEW k \in 1..Len(bs2), bs2[k].kind = "iflet"
        PROVE  SavedAt(g2, bs2, k)
    <3>1. bs2[k] = bs[k] /\ k \in 1..L /\ k # L /\ bs[k].kind = "iflet" /\ k \in 1..Len(bs2) + 1
      BY <1>1, <2>7
    <3>2. SavedAt(g, bs, k)
      BY <3>1 DEF SavedInv
    <3>3. Bindings(bs, k) = Bindings(bs2, k) \cup {b}
      BY <1>3, <1>6, <3>1
    <3>4. bs[k].binding # b /\ bs[k].binding \in Name
      <4>1. b \in Name /\ Has(bs, L, b)
        BY <1>1, <1>6, BlockIs DEF Has
      <4>2. bs[k].binding \in Name
        BY <3>1, BlockIs
      <4>3. bs \in Seq(Blocks) /\ GenInv(g, bs, m, hid) /\ L \in 1..Len(bs)
        BY <1>1
      <4>4. \A j \in 1..Len(bs) : bs[j].kind = "iflet" =>
              (SlotAt(bs, j, bs[j].binding) = SlotAt(bs, L, b) => j = L)
        BY <4>1, <4>3, SlotMeans
      <4>5. SlotAt(bs, k, bs[k].binding) = SlotAt(bs, L, b) => k = L
        BY <3>1, <4>3, <4>4
      <4>6. g.namedValues[bs[k].binding] = SlotAt(bs, k, bs[k].binding)
        BY <3>2 DEF SavedAt
      <4> QED BY <2>4, <3>1, <4>2, <4>5, <4>6
    <3>5. bs2[k].saved.varStructTypes = g2.varStructTypes \ Bindings(bs2, k)
      BY <2>4, <3>1, <3>2, <3>3 DEF SavedAt
    <3>6. \A n \in Name : bs2[k].saved.namedValues[n] =
            IF n \in Bindings(bs2, k) THEN 0 ELSE g2.namedValues[n]
      BY <2>4, <3>1, <3>2, <3>3 DEF SavedAt
    <3>7. bs2[k].saved.movedVars \subseteq g2.movedVars
      BY <2>4, <3>1, <3>2 DEF SavedAt
    <3>8. g2.namedValues[bs2[k].binding] = SlotAt(bs2, k, bs2[k].binding)
      BY <2>4, <3>1, <3>2, <3>4 DEF SavedAt, SlotAt
    <3> QED BY <3>5, <3>6, <3>7, <3>8 DEF SavedAt
  <2> QED BY <2>6, <2>7 DEF SavedInv
<1> QED BY <1>5, <1>6

\* A value that callDrop takes was dropped; the others stay where they are.
DropsMore(m, m2) ==
  /\ DOMAIN m2.home = DOMAIN m.home
  /\ \A w \in DOMAIN m.home : /\ Dropped(m, w) => Dropped(m2, w)
                              /\ Dropped(m2, w) \/ m2.home[w] = m.home[w]

\* What callDrop does to the values.
LEMMA DropLeaks ==
  ASSUME NEW m, m \in Machines, m.running, NEW S \in SUBSET (1..Len(m.slots)), NEW plain,
         NEW m2, m2 = callDrop(m, S, plain)
  PROVE  DropsMore(m, m2) /\ \A s \in S : Dropped(m2, Payload(m, plain, s))
<1>1. DropStep(m, m2, S, plain)
  BY CallDropIs
<1>2. DOMAIN m.home = 1..Len(m.home) /\ DOMAIN m2.home = 1..Len(m2.home)
  BY <1>1, MachineIs DEF DropStep
<1>3. \A s \in S : Dropped(m2, Payload(m, plain, s))
  <2> SUFFICES ASSUME NEW s \in S PROVE Dropped(m2, Payload(m, plain, s))
    OBVIOUS
  <2>1. Call(m, plain, s) \in m2.drops
    BY <1>1 DEF DropStep, Calls
  <2>2. Call(m, plain, s).val = Payload(m, plain, s)
    BY DEF Call
  <2> QED BY <2>1, <2>2 DEF Dropped
<1>4. \A w \in DOMAIN m.home : Dropped(m, w) => Dropped(m2, w)
  BY <1>1 DEF DropStep, Dropped
<1>5. \A w \in DOMAIN m.home : Dropped(m2, w) \/ m2.home[w] = m.home[w]
  BY <1>1, <1>2, <1>3 DEF DropStep
<1>6. DOMAIN m2.home = DOMAIN m.home
  BY <1>1, <1>2 DEF DropStep
<1> QED BY <1>3, <1>4, <1>5, <1>6 DEF DropsMore

\* What the names keep when the innermost block ends: the binding is dropped.
LEMMA KeptPopped ==
  ASSUME Agree, LeakNow, machine.running, Len(blocks) > 0,
         NEW c, NEW g, NEW m, LeaveFacts(c, g, m), NEW w \in DOMAIN machine.home
  PROVE  /\ Keeps(code, machine, w) => Keeps(g, m, w) \/ Dropped(m, w)
         /\ Dropped(machine, w) => Dropped(m, w)
         /\ machine.home[w] = Caller => m.home[w] = Caller \/ Dropped(m, w)
         /\ DOMAIN m.home = DOMAIN machine.home
<1> DEFINE L == Len(blocks)
           b == blocks[L]
<1>1. /\ blocks \in Seq(Blocks) /\ L \in Nat /\ L \in 1..L /\ machine \in Machines
      /\ b \in Blocks
  BY AgreeIs
<1>2. /\ ~machine.returned /\ ~b.left /\ SavedInv(code, blocks)
  BY <1>1 DEF LeakNow, LeakInv, ReachedInv
<1>3. /\ SameButRead(machine, current) /\ MachineInv(current) /\ current \in Machines
      /\ current.slots = machine.slots /\ current.home = machine.home
      /\ current.drops = machine.drops /\ current.running
      /\ m = IF LetDropped THEN callDrop(current, {LetSlot}, {}) ELSE current
      /\ LetDropped => LetSlot \in 1..Len(current.slots)
      /\ m.slots = machine.slots
  BY DEF LeaveFacts, SameButRead
<1>4. /\ Map(g) = IF b.kind = "iflet" THEN Map(b.saved) ELSE Map(code)
      /\ g.varOptionalTypes = code.varOptionalTypes
      /\ g.movedVars = IF b.kind = "iflet" THEN code.movedVars \cup b.saved.movedVars ELSE code.movedVars
  BY DEF LeaveFacts
<1>5. CASE b.kind # "iflet"
  <2>1. m = current
    BY <1>3, <1>5 DEF LetDropped
  <2>2. g.namedValues = code.namedValues /\ g.varStructTypes = code.varStructTypes
        /\ g.movedVars = code.movedVars
    BY <1>4, <1>5 DEF Map
  <2>3. m.slots = machine.slots /\ m.home = machine.home /\ m.drops = machine.drops
    BY <1>3, <2>1
  <2> QED BY <1>4, <2>2, <2>3 DEF Keeps, Dropped
<1>6. CASE b.kind = "iflet"
  <2>1. g.namedValues = b.saved.namedValues /\ g.varStructTypes = b.saved.varStructTypes
        /\ g.movedVars = code.movedVars \cup b.saved.movedVars
    BY <1>4, <1>6 DEF Map
  <2>2. Bindings(blocks, L) = {b.binding}
    <3>1. \A l \in L..Len(blocks) : l = L
      BY <1>1
    <3>2. L \in L..Len(blocks)
      BY <1>1
    <3>3. \A x : x \in Bindings(blocks, L) <=> x = b.binding
      BY <1>6, <3>1, <3>2, BindingIs
    <3> QED BY <3>3
  <2>3. SavedAt(code, blocks, L) /\ b.binding \notin code.movedVars
    <3>1. b.binding \in Bindings(blocks, 1)
      BY <1>1, <1>6, BindingIs
    <3> QED BY <1>1, <1>2, <1>6, <3>1 DEF SavedInv
  <2>4. /\ g.varStructTypes = code.varStructTypes \ {b.binding} /\ g.movedVars = code.movedVars
        /\ \A n \in Name : n # b.binding => g.namedValues[n] = code.namedValues[n]
        /\ code.namedValues[b.binding] = LetSlot
    BY <2>1, <2>2, <2>3 DEF SavedAt, LetSlot
  <2>5. code.varStructTypes \subseteq Name
    BY AgreeIs, GeneratorIs
  <2>6. LetDropped
    BY <1>2, <1>6, <2>3 DEF LetDropped
  <2>7. m = callDrop(current, {LetSlot}, {}) /\ {LetSlot} \in SUBSET (1..Len(current.slots))
    BY <1>3, <2>6
  <2>8. DropsMore(current, m) /\ \A s \in {LetSlot} : Dropped(m, Payload(current, {}, s))
    BY <1>3, <2>7, DropLeaks
  <2>9. Dropped(m, machine.slots[LetSlot].val)
    BY <1>3, <2>8 DEF Payload
  <2>10. ASSUME Keeps(code, machine, w)
         PROVE  Keeps(g, m, w) \/ Dropped(m, w)
    <3>1. PICK n \in code.varStructTypes \ code.movedVars :
            /\ code.namedValues[n] = machine.home[w]
            /\ machine.slots[code.namedValues[n]].val = w
            /\ machine.slots[code.namedValues[n]].type = "optional" => n \in code.varOptionalTypes
      BY <2>10 DEF Keeps
    <3>2. CASE n = b.binding
      BY <2>4, <2>9, <3>1, <3>2
    <3>3. CASE n # b.binding /\ ~Dropped(m, w)
      <4>1. n \in g.varStructTypes \ g.movedVars /\ g.namedValues[n] = code.namedValues[n]
        BY <2>4, <2>5, <3>1, <3>3
      <4>2. m.home[w] = machine.home[w]
        BY <1>3, <2>8, <3>3 DEF DropsMore
      <4> QED BY <1>3, <1>4, <3>1, <4>1, <4>2, SMTT(60) DEF Keeps
    <3> QED BY <3>2, <3>3
  <2>11. /\ Dropped(machine, w) => Dropped(m, w)
         /\ machine.home[w] = Caller => m.home[w] = Caller \/ Dropped(m, w)
         /\ DOMAIN m.home = DOMAIN machine.home
    BY <1>3, <2>8, ZenonT(60) DEF DropsMore, Dropped
  <2> QED BY <2>10, <2>11
<1> QED BY <1>5, <1>6

\* The end of an if or an if let keeps every value that is owned in a slot that will be dropped.
LEMMA EndIfLeak ==
  ASSUME Agree, LeakNow, EndIf
  PROVE  LeakNow'
<1>1. PICK c, g, m, r : EndIfFacts(c, g, m, r)
  BY EndIfIs
<1>2. /\ LeaveFacts(c, g, m) /\ code' = g /\ Len(blocks) > 1 /\ Popped(blocks, blocks')
      /\ SameButControl(m, machine')
      /\ (machine'.running <=> blocks[Len(blocks)].reached /\ ~machine.returned)
      /\ (machine'.returned <=> machine.returned)
  BY <1>1 DEF EndIfFacts
<1>3. /\ blocks \in Seq(Blocks) /\ Len(blocks) \in Nat /\ Len(blocks) \in 1..Len(blocks)
      /\ machine \in Machines /\ GenInv(code, blocks, machine, hidden) /\ Len(blocks) > 0
  BY <1>2, AgreeIs DEF Agree, Base
<1>4. /\ ReachedInv(blocks, machine) /\ KeptInv(code, blocks, machine)
      /\ ~machine.returned => SavedInv(code, blocks)
  BY DEF LeakNow, LeakInv
<1>5. /\ Len(blocks') = Len(blocks) - 1 /\ Len(blocks') > 0
      /\ \A k \in 1..Len(blocks') : blocks'[k] = blocks[k] /\ k \in 1..Len(blocks)
  BY <1>2, <1>3 DEF Popped
<1>6. machine.running <=> ~machine.returned
  BY <1>3, <1>4 DEF ReachedInv
<1>7. ReachedInv(blocks', machine')
  BY <1>2, <1>3, <1>4, <1>5 DEF ReachedInv
<1>8. machine'.slots = m.slots /\ machine'.home = m.home /\ machine'.drops = m.drops
  BY <1>2 DEF SameButControl
<1>9. \A w : (Keeps(code', m, w) => Keeps(code', machine', w)) /\ (Dropped(m, w) => Dropped(machine', w))
  BY <1>8 DEF Keeps, Dropped
<1>10. KeptInv(code', blocks', machine')
  <2>1. CASE machine.running
    <3>1. \A w \in DOMAIN machine.home :
           /\ Keeps(code, machine, w) => Keeps(g, m, w) \/ Dropped(m, w)
           /\ Dropped(machine, w) => Dropped(m, w)
           /\ machine.home[w] = Caller => m.home[w] = Caller \/ Dropped(m, w)
           /\ DOMAIN m.home = DOMAIN machine.home
      BY <1>2, <1>3, <2>1, KeptPopped
    <3>2. \A w \in DOMAIN machine'.home : w \in DOMAIN machine.home
      <4>2. DOMAIN m.home = DOMAIN machine.home
        <5>2. current \in Machines /\ current.home = machine.home /\ current.running
              /\ (LetDropped => {LetSlot} \in SUBSET (1..Len(current.slots)))
              /\ m = IF LetDropped THEN callDrop(current, {LetSlot}, {}) ELSE current
          BY <1>2, <2>1 DEF LeaveFacts, SameButRead
        <5>3. LetDropped => DropsMore(current, m)
          BY <5>2, DropLeaks
        <5> QED BY <5>2, <5>3 DEF DropsMore
      <4> QED BY <1>8, <4>2
    <3> QED BY <1>2, <1>4, <1>5, <1>6, <1>8, <1>9, <2>1, <3>1, <3>2 DEF KeptInv
  <2>2. CASE ~machine.running
    <3>1. SameButRead(machine, current) /\ (m = current \/ m = callDrop(current, {LetSlot}, {}))
      BY <1>2 DEF LeaveFacts
    <3>2. ~current.running /\ current.home = machine.home /\ current.drops = machine.drops
      BY <2>2, <3>1 DEF SameButRead
    <3>3. m = current
      BY <3>1, <3>2, NoDrop
    <3> QED BY <1>4, <1>6, <1>8, <2>2, <3>2, <3>3 DEF KeptInv, Dropped
  <2> QED BY <2>1, <2>2
<1>11. ~machine'.returned => SavedInv(code', blocks')
  <2>1. MapsAfter(code, blocks, code')
    BY <1>2 DEF MapsAfter, LeaveFacts
  <2> QED BY <1>2, <1>3, <1>4, <2>1, SavedPopped
<1> QED BY <1>7, <1>10, <1>11 DEF LeakNow, LeakInv

\* The value that a live name keeps is among those that a cleanup drops.
LEMMA CleanupTakes ==
  ASSUME NEW g, NEW bs, NEW m0, NEW hid, GenInv(g, bs, m0, hid), NEW m, m \in Machines,
         NEW flag, NEW w \in DOMAIN m.home,
         NEW n \in g.varStructTypes \ g.movedVars, m.slots[g.namedValues[n]].val = w,
         m.slots[g.namedValues[n]].type = "optional" => n \in g.varOptionalTypes
  PROVE  /\ g.namedValues[n] \in Cleaned(g, m, flag)
         /\ Payload(m, Plain(g, m), g.namedValues[n]) = w
<1>1. g.varStructTypes \subseteq Name /\ MapsInv(Maps(g, bs), Len(m0.slots)) /\ Map(g) \in Maps(g, bs)
  BY GeneratorIs DEF GenInv, Maps
<1>2. /\ g.namedValues[n] # 0
      /\ \A a \in g.varStructTypes : g.namedValues[a] = g.namedValues[n] => a = n
  <2>1. Map(g).namedValues = g.namedValues /\ Map(g).varStructTypes = g.varStructTypes
    BY DEF Map
  <2> QED BY <1>1, <2>1 DEF MapsInv
<1>3. w # Nothing /\ w # Garbage
  BY MachineIs
<1>4. n \in LiveNames(g)
  BY DEF LiveNames
<1>5. g.namedValues[n] \in Cleaned(g, m, flag)
  BY <1>3, <1>4 DEF Cleaned
<1>6. m.slots[g.namedValues[n]].type = "optional" => g.namedValues[n] \notin Plain(g, m)
  <2> SUFFICES ASSUME m.slots[g.namedValues[n]].type = "optional", g.namedValues[n] \in Plain(g, m)
               PROVE  FALSE
    OBVIOUS
  <2>1. PICK a \in LiveNames(g) : ~AsOptional(g, m, a) /\ g.namedValues[a] = g.namedValues[n]
    BY DEF Plain
  <2>2. a = n
    BY <1>2, <2>1 DEF LiveNames
  <2> QED BY <2>1, <2>2 DEF AsOptional
<1> QED BY <1>5, <1>6 DEF Payload

\* After a cleanup every value that was returned, dropped, or kept by a live name is
\* returned or dropped.
LEMMA CleanupLeaks ==
  ASSUME NEW g, NEW bs, NEW m0, NEW hid, GenInv(g, bs, m0, hid), NEW m, m \in Machines, m.running,
         NEW flag, Cleaned(g, m, flag) \in SUBSET (1..Len(m.slots)),
         NEW m2, m2 = callDrop(m, Cleaned(g, m, flag), Plain(g, m))
  PROVE  /\ DOMAIN m2.home = DOMAIN m.home
         /\ \A w \in DOMAIN m.home :
              \/ m.home[w] = Caller
              \/ Dropped(m, w)
              \/ \E n \in g.varStructTypes \ g.movedVars :
                   /\ m.slots[g.namedValues[n]].val = w
                   /\ m.slots[g.namedValues[n]].type = "optional" => n \in g.varOptionalTypes
              => m2.home[w] = Caller \/ Dropped(m2, w)
<1>1. DropsMore(m, m2)
      /\ \A s \in Cleaned(g, m, flag) : Dropped(m2, Payload(m, Plain(g, m), s))
  <2> DEFINE S == Cleaned(g, m, flag)
             P == Plain(g, m)
  <2>1. S \in SUBSET (1..Len(m.slots)) /\ m2 = callDrop(m, S, P)
    OBVIOUS
  <2> HIDE DEF S, P
  <2>2. DropsMore(m, m2) /\ \A s \in S : Dropped(m2, Payload(m, P, s))
    BY <2>1, DropLeaks
  <2> QED BY <2>2 DEF S, P
<1>2. ASSUME NEW w \in DOMAIN m.home, NEW n \in g.varStructTypes \ g.movedVars,
             m.slots[g.namedValues[n]].val = w,
             m.slots[g.namedValues[n]].type = "optional" => n \in g.varOptionalTypes
      PROVE  Dropped(m2, w)
  <2>1. /\ g.namedValues[n] \in Cleaned(g, m, flag)
        /\ Payload(m, Plain(g, m), g.namedValues[n]) = w
    BY <1>2, CleanupTakes
  <2> QED BY <1>1, <2>1
<1> QED BY <1>1, <1>2 DEF DropsMore

\* The end of the function keeps every value that is owned in a slot that will be dropped.
LEMMA EndFunctionLeak ==
  ASSUME Agree, LeakNow, EndFunction
  PROVE  LeakNow'
<1>1. PICK cleaned, flag : EndFunctionFacts(cleaned, flag)
  BY EndFunctionIs
<1>2. /\ Len(blocks) = 1 /\ blocks' = <<>> /\ code' = code
      /\ SameButRead(machine, current) /\ MachineInv(current)
      /\ (machine'.returned <=> machine.returned)
  BY <1>1 DEF EndFunctionFacts
<1>3. /\ GenInv(code, blocks, machine, hidden) /\ ReachedInv(blocks, machine)
      /\ KeptInv(code, blocks, machine) /\ (~machine.returned => SavedInv(code, blocks))
  BY DEF Agree, Base, LeakNow, LeakInv
<1>4. /\ current.slots = machine.slots /\ current.home = machine.home
      /\ current.drops = machine.drops /\ (current.running <=> machine.running) /\ current \in Machines
  BY <1>2 DEF SameButRead
<1>5. /\ blocks[1].left => machine.returned
      /\ (machine.running <=> ~machine.returned)
  BY <1>2, <1>3 DEF ReachedInv
<1>6. ReachedInv(blocks', machine')
  BY <1>2 DEF ReachedInv
<1>7. ~machine'.returned => SavedInv(code', blocks')
  <2>1. Len(blocks') = 0 /\ \A n : n \notin Bindings(blocks', 1)
    BY <1>2, BindingIs
  <2> QED BY <1>2, <1>3, <2>1 DEF SavedInv
<1>8. \A w \in DOMAIN machine'.home : machine'.home[w] = Caller \/ Dropped(machine', w)
  <2>1. CASE machine.running
    <3>1. /\ Cleaned(code, current, flag) \in SUBSET (1..Len(current.slots))
          /\ cleaned = callDrop(current, Cleaned(code, current, flag), Plain(code, current))
          /\ machine'.home = cleaned.home /\ machine'.drops = cleaned.drops
      BY <1>1, <1>5, <2>1 DEF EndFunctionFacts, SameButControl
    <3>2. current.running
      BY <1>4, <2>1
    <3>3. /\ DOMAIN cleaned.home = DOMAIN current.home
          /\ \A w \in DOMAIN current.home :
              \/ current.home[w] = Caller
              \/ Dropped(current, w)
              \/ \E n \in code.varStructTypes \ code.movedVars :
                   /\ current.slots[code.namedValues[n]].val = w
                   /\ current.slots[code.namedValues[n]].type = "optional" => n \in code.varOptionalTypes
              => cleaned.home[w] = Caller \/ Dropped(cleaned, w)
      BY <1>3, <1>4, <3>1, <3>2, CleanupLeaks
    <3>4. \A w \in DOMAIN current.home :
              \/ current.home[w] = Caller
              \/ Dropped(current, w)
              \/ \E n \in code.varStructTypes \ code.movedVars :
                   /\ current.slots[code.namedValues[n]].val = w
                   /\ current.slots[code.namedValues[n]].type = "optional" => n \in code.varOptionalTypes
      BY <1>3, <1>4 DEF KeptInv, Keeps, Dropped
    <3> QED BY <3>1, <3>3, <3>4 DEF Dropped
  <2>2. CASE ~machine.running
    <3>1. machine'.home = machine.home /\ machine'.drops = machine.drops
      <4>1. machine' = current \/ (cleaned = callDrop(current, Cleaned(code, current, flag), Plain(code, current))
                                   /\ SameButControl(cleaned, machine'))
        BY <1>1 DEF EndFunctionFacts
      <4>2. ~current.running
        BY <1>4, <2>2
      <4> QED BY <1>4, <4>1, <4>2, NoDrop DEF SameButControl
    <3> QED BY <1>3, <1>5, <2>2, <3>1 DEF KeptInv, Dropped
  <2> QED BY <2>1, <2>2
<1> QED BY <1>6, <1>7, <1>8 DEF LeakNow, LeakInv, KeptInv

\* A return keeps every value that is owned in a slot that will be dropped.
LEMMA ReturnLeak ==
  ASSUME Agree, Agree', LeakNow, NEW x \in Name \cup {NoName}, Return(x)
  PROVE  LeakNow'
<1> DEFINE v == IF x = NoName THEN Nothing ELSE machine.slots[Slot(x)].val
<1>1. PICK valued, given, cleaned, flag : ReturnFacts(x, valued, given, cleaned, flag)
  BY ReturnIs
<1>2. /\ Len(blocks) > 0 /\ Left(blocks, blocks')
      /\ code'.movedVars = code.movedVars \cup ({x} \ {NoName})
      /\ code'.namedValues = code.namedValues /\ code'.varStructTypes = code.varStructTypes
      /\ code'.varOptionalTypes = code.varOptionalTypes
  BY ReturnIs
<1>3. /\ SameButRead(machine, valued) /\ MachineInv(given) /\ SameButHome(valued, given)
      /\ \A w \in 1..Len(machine.home) :
           given.home[w] = IF machine.running /\ w = v THEN Caller ELSE machine.home[w]
      /\ Cleaned(code', given, flag) \in SUBSET (1..Len(given.slots))
      /\ cleaned = callDrop(given, Cleaned(code', given, flag), Plain(code', given))
      /\ SameButControl(cleaned, machine') /\ ~machine'.running
      /\ machine'.returned <=> machine.returned \/ machine.running
  BY <1>1 DEF ReturnFacts
<1>4. /\ given.slots = machine.slots /\ given.drops = machine.drops /\ given \in Machines
      /\ (given.running <=> machine.running) /\ Len(given.home) = Len(machine.home)
      /\ machine'.home = cleaned.home /\ machine'.drops = cleaned.drops
  BY <1>3 DEF SameButRead, SameButHome, SameButControl
<1>5. /\ machine \in Machines /\ DOMAIN machine.home = 1..Len(machine.home)
      /\ DOMAIN given.home = DOMAIN machine.home
  BY <1>4, AgreeIs, MachineIs
<1>6. /\ ReachedInv(blocks, machine) /\ KeptInv(code, blocks, machine)
      /\ (machine.running <=> ~machine.returned)
  BY <1>2 DEF LeakNow, LeakInv, ReachedInv
<1>7. machine'.returned
  BY <1>3, <1>6
<1>8. ReachedInv(blocks', machine')
  BY <1>2, <1>3, <1>6, <1>7 DEF ReachedInv, Left, SameBlock
<1>9. \A w \in DOMAIN machine'.home : machine'.home[w] = Caller \/ Dropped(machine', w)
  <2>1. CASE machine.running
    <3>1. /\ GenInv(code', blocks', machine', hidden') /\ given.running
      BY <1>4, <2>1 DEF Agree, Base
    <3>2. /\ DOMAIN cleaned.home = DOMAIN given.home
          /\ \A w \in DOMAIN given.home :
              \/ given.home[w] = Caller
              \/ Dropped(given, w)
              \/ \E n \in code'.varStructTypes \ code'.movedVars :
                   /\ given.slots[code'.namedValues[n]].val = w
                   /\ given.slots[code'.namedValues[n]].type = "optional" => n \in code'.varOptionalTypes
              => cleaned.home[w] = Caller \/ Dropped(cleaned, w)
      <4> DEFINE g2 == code'
      <4>1. /\ GenInv(g2, blocks', machine', hidden') /\ given.running
            /\ Cleaned(g2, given, flag) \in SUBSET (1..Len(given.slots))
            /\ cleaned = callDrop(given, Cleaned(g2, given, flag), Plain(g2, given))
        BY <1>3, <3>1
      <4> HIDE DEF g2
      <4>2. /\ DOMAIN cleaned.home = DOMAIN given.home
            /\ \A w \in DOMAIN given.home :
              \/ given.home[w] = Caller
              \/ Dropped(given, w)
              \/ \E n \in g2.varStructTypes \ g2.movedVars :
                   /\ given.slots[g2.namedValues[n]].val = w
                   /\ given.slots[g2.namedValues[n]].type = "optional" => n \in g2.varOptionalTypes
              => cleaned.home[w] = Caller \/ Dropped(cleaned, w)
        BY <1>4, <4>1, CleanupLeaks
      <4> QED BY <4>2 DEF g2
    <3>3. ASSUME NEW w \in DOMAIN given.home
          PROVE  \/ given.home[w] = Caller
                 \/ Dropped(given, w)
                 \/ \E n \in code'.varStructTypes \ code'.movedVars :
                     /\ given.slots[code'.namedValues[n]].val = w
                     /\ given.slots[code'.namedValues[n]].type = "optional" => n \in code'.varOptionalTypes
      <4>1. given.home[w] = IF w = v THEN Caller ELSE machine.home[w]
        BY <1>3, <1>5, <2>1
      <4>2. machine.home[w] = Caller \/ Dropped(machine, w) \/ Keeps(code, machine, w)
        BY <1>5, <1>6 DEF KeptInv
      <4>3. CASE Keeps(code, machine, w) /\ w # v
        <5>1. PICK n \in code.varStructTypes \ code.movedVars :
                /\ machine.slots[code.namedValues[n]].val = w
                /\ machine.slots[code.namedValues[n]].type = "optional" => n \in code.varOptionalTypes
          BY <4>3 DEF Keeps
        <5>2. n # x
          <6>1. SUFFICES ASSUME n = x PROVE FALSE
            OBVIOUS
          <6>2. n \in Name /\ NoName \notin Name
            BY AgreeIs, GeneratorIs, NamesAssumption
          <6>3. v = machine.slots[code.namedValues[n]].val
            BY <6>1, <6>2 DEF Slot
          <6> QED BY <4>3, <5>1, <6>3
        <5>3. n \in code'.varStructTypes \ code'.movedVars
          BY <1>2, <5>1, <5>2
        <5> QED BY <1>2, <1>4, <5>1, <5>3
      <4> QED BY <1>4, <4>1, <4>2, <4>3 DEF Dropped
    <3> QED BY <1>4, <3>2, <3>3 DEF Dropped
  <2>2. CASE ~machine.running
    <3>1. cleaned = given
      BY <1>3, <1>4, <2>2, NoDrop
    <3>2. \A w \in DOMAIN machine.home : given.home[w] = machine.home[w]
      BY <1>3, <1>5, <2>2
    <3> QED BY <1>4, <1>5, <1>6, <2>2, <3>1, <3>2 DEF KeptInv, Dropped
  <2> QED BY <2>1, <2>2
<1> QED BY <1>7, <1>8, <1>9 DEF LeakNow, LeakInv, KeptInv

-----------------------------------------------------------------------------
(* Every step without a gap keeps what the live names keep. *)

\* Every step of a function without a gap keeps LeakNow.
LEMMA LeakStep ==
  ASSUME Agree, Agree', gap = "none" => LeakNow, [ONext]_ovars
  PROVE  gap' = "none" => LeakNow'
<1>1. SUFFICES ASSUME gap' = "none"
               PROVE  LeakNow'
  OBVIOUS
<1>2. LeakNow
  BY <1>1, GapStep DEF Worse
<1>3. CASE UNCHANGED ovars
  BY <1>2, <1>3 DEF ovars, LeakNow
<1>4. CASE \E n \in Name : Declares(n)
  BY <1>1, <1>2, <1>4, DeclareLeak
<1>5. CASE If \/ \E n, x \in Name : IfLet(n, x)
  BY <1>1, <1>2, <1>5, IfLeak, IfLetLeak
<1>6. CASE Else \/ (\E n \in Name : AssignNew(n)) \/ (\E n, x \in Name : Assign(n, x))
           \/ \E r \in RefName, src \in Name \cup {NoName} : AssignThrough(r, src)
  <2>1. gap' = Leaks(TRUE) \/ gap' = "missed"
    BY <1>6, ZenonT(60) DEF Else, AssignNew, Assign, AssignThrough
  <2> QED BY <1>1, <2>1, SMTT(60) DEF Leaks
<1> QED BY <1>2, <1>3, <1>4, <1>5, <1>6, UseLeak, UseRefLeak, RefLeak, EndIfLeak, ReturnLeak,
           EndFunctionLeak
    DEF ONext, Declares

\* LeakNow holds of an empty function.
LEMMA LeakStarts ==
  ASSUME OInit
  PROVE  LeakNow
<1>1. /\ machine.running /\ ~machine.returned /\ machine.home = <<>> /\ code = Generator
      /\ blocks = <<Block("body", Sema!NoEntries, 2, TRUE, TRUE, NoName, Generator)>>
  BY MachineStarts DEF OInit
<1>2. Len(blocks) = 1 /\ blocks[1].kind = "body" /\ blocks[1].reached /\ blocks[1].taken /\ ~blocks[1].left
  BY <1>1 DEF Block
<1>3. ReachedInv(blocks, machine)
  <2>1. \A i \in 1..Len(blocks) : i = 1
    BY <1>2
  <2>2. machine.running <=> ~machine.returned
    BY <1>1
  <2>3. \A i \in 1..Len(blocks) : blocks[i].reached /\ blocks[i].taken /\ ~blocks[i].left
    BY <1>2, <2>1
  <2> QED BY <2>2, <2>3 DEF ReachedInv
<1>4. KeptInv(code, blocks, machine)
  BY <1>1 DEF KeptInv
<1>5. SavedInv(code, blocks)
  <2>1. code.movedVars = {}
    BY <1>1 DEF Generator
  <2> QED BY <1>2, <2>1 DEF SavedInv
<1> QED BY <1>3, <1>4, <1>5 DEF LeakNow, LeakInv

\* The inductive invariant of DroppedOnce.
Accounts == Follows /\ (gap = "none" => LeakNow)

\* drop() is called at most once for every value, never for one that was returned, and in
\* a function without a gap every value is returned or dropped.
THEOREM DropsOnce == OSpec => []DroppedOnce
<1>1. OInit => Accounts
  BY AgreeStarts, SoundStarts, LeakStarts DEF Accounts, Follows
<1>2. Accounts /\ [ONext]_ovars => Accounts'
  BY AgreeStep, SoundStep, LeakStep DEF Accounts, Follows
<1>3. Accounts => DroppedOnce
  <2> SUFFICES ASSUME Accounts PROVE DroppedOnce
    OBVIOUS
  <2>1. gap # "missed" => DropsInv(machine)
    BY DEF Accounts, Follows, SoundNow, Sound
  <2>2. Ended /\ gap = "none" =>
          \A w \in DOMAIN machine.home : machine.home[w] = Caller \/ Dropped(machine, w)
    <3>1. Ended => ~(Len(blocks) > 0)
      BY DEF Ended
    <3> QED BY <3>1 DEF Accounts, LeakNow, LeakInv, KeptInv
  <2> QED BY <2>1, <2>2 DEF DroppedOnce, DropsInv, Dropped, made
<1> QED BY <1>1, <1>2, <1>3, PTL DEF OSpec

-----------------------------------------------------------------------------
(* Borrows. *)

Borrowing(c, bs, fin, m) == RefsInv(c, bs, fin, m) /\ BorrowsInv(c, bs, fin)

\* The references of bs2 are those of bs.
SameRefs(bs, bs2) ==
  \A r \in RefName :
    /\ \A i \in 1..Len(bs2) : Has(bs2, i, r) =>
         i \in 1..Len(bs) /\ Has(bs, i, r) /\ bs2[i].names[r] = bs[i].names[r]
    /\ \A i \in 1..Len(bs) : Has(bs, i, r) => i \in 1..Len(bs2) /\ Has(bs2, i, r)

\* The borrowers of a slot: references in use that were declared to refer to it.
LEMMA BorrowerIs ==
  ASSUME NEW bs, NEW fin, NEW s, NEW t, NEW r
  PROVE  r \in Borrowers(bs, fin, s, t) <=>
           /\ r \in RefName \ fin
           /\ \E i \in 1..Len(bs) : Has(bs, i, r) /\ SlotAt(bs, i, r) = s /\ TypeAt(bs, i, r) = t
BY DEF Borrowers, Active

\* The borrowers are those of the references the blocks declare.
LEMMA SameBorrowers ==
  ASSUME NEW bs, NEW bs2, SameRefs(bs, bs2), NEW fin, NEW s, NEW t
  PROVE  Borrowers(bs2, fin, s, t) = Borrowers(bs, fin, s, t)
<1>1. \A r : r \in Borrowers(bs2, fin, s, t) <=> r \in Borrowers(bs, fin, s, t)
  BY BorrowerIs DEF SameRefs, SlotAt, TypeAt
<1> QED BY <1>1

\* Without borrowers of a slot there is nothing to record.
NoBorrowers(bs, fin, s) == \A t : Borrowers(bs, fin, s, t) = {}

\* The borrowers of a slot are finitely many.
LEMMA BorrowersFinite ==
  ASSUME NEW bs, NEW fin, NEW s, NEW t
  PROVE  /\ IsFiniteSet(Borrowers(bs, fin, s, t)) /\ Borrowers(bs, fin, s, t) \subseteq RefName \ fin
         /\ Cardinality(Borrowers(bs, fin, s, t)) \in Nat
<1>1. Borrowers(bs, fin, s, t) \subseteq RefName \ fin
  BY BorrowerIs
<1>2. IsFiniteSet(Borrowers(bs, fin, s, t))
  BY <1>1, NamesAssumption, FS_Subset
<1> QED BY <1>1, <1>2, FS_CardinalityType

\* A variable that is neither borrowed nor lent mutably has no borrowers.
LEMMA Unborrowed ==
  ASSUME NEW c, NEW bs, NEW fin, BorrowsInv(c, bs, fin), bs \in Seq(Blocks),
         NEW j \in 1..Len(bs), NEW x \in Name, Has(bs, j, x),
         \/ InfoAt(c, bs[j], x).borrowCount = 0 /\ ~InfoAt(c, bs[j], x).hasMutableBorrow
         \/ InfoAt(c, bs[j], x).state \notin {"BorrowedImmutable", "BorrowedMutable"}
  PROVE  NoBorrowers(bs, fin, SlotAt(bs, j, x))
<1> DEFINE s == SlotAt(bs, j, x)
           shared == Borrowers(bs, fin, s, "ref")
           mutable == Borrowers(bs, fin, s, "refmut")
<1>1. BorrowInv(InfoAt(c, bs[j], x), shared, mutable)
  BY DEF BorrowsInv
<1>2. IsFiniteSet(shared) /\ Cardinality(shared) \in Nat
  BY BorrowersFinite
<1> HIDE DEF shared, mutable, s
<1>3. shared = {} /\ mutable = {}
  <2>1. Cardinality(shared) = 0 => shared = {}
    BY <1>2, FS_EmptySet
  <2>2. InfoAt(c, bs[j], x).borrowCount = 0 => Cardinality(shared) = 0
    BY <1>1, <1>2 DEF BorrowInv
  <2>3. CASE InfoAt(c, bs[j], x).borrowCount = 0 /\ ~InfoAt(c, bs[j], x).hasMutableBorrow
    BY <1>1, <2>1, <2>2, <2>3 DEF BorrowInv
  <2>4. CASE InfoAt(c, bs[j], x).state \notin {"BorrowedImmutable", "BorrowedMutable"}
    BY <1>1, <2>4 DEF BorrowInv
  <2> QED BY <2>3, <2>4
<1>4. ASSUME NEW t, NEW r \in Borrowers(bs, fin, s, t)
      PROVE  FALSE
  <2>1. PICK i \in 1..Len(bs) : r \in RefName \ fin /\ Has(bs, i, r) /\ SlotAt(bs, i, r) = s /\ TypeAt(bs, i, r) = t
    BY <1>4, BorrowerIs
  <2>2. TypeAt(bs, i, r) \in {"ref", "refmut"}
    <3>1. bs[i] \in Blocks /\ r \in DOMAIN bs[i].names /\ r \in RefName
      BY <2>1 DEF Has
    <3>2. NameFits(r, bs[i].names[r])
      BY <3>1, BlockIs
    <3> QED BY <3>1, <3>2 DEF NameFits, TypeAt
  <2>3. r \in shared \/ r \in mutable
    BY <2>1, <2>2, BorrowerIs DEF shared, mutable
  <2> QED BY <1>3, <2>3
<1> QED BY <1>4 DEF NoBorrowers, s

\* Any record is right of a variable nobody borrows.
LEMMA NoBorrow ==
  ASSUME NEW info, info.borrowCount \in Nat
  PROVE  BorrowInv(info, {}, {})
<1>1. Cardinality({}) = 0
  BY FS_EmptySet
<1> QED BY <1>1 DEF BorrowInv

\* The records of the variables, when borrowers stay what they were or there are none.
LEMMA BorrowsKept ==
  ASSUME NEW c, NEW bs, NEW fin, BorrowsInv(c, bs, fin), NEW c2, NEW bs2, NEW fin2,
         \A j \in 1..Len(bs2), x \in Name : Has(bs2, j, x) =>
           \/ /\ InfoAt(c2, bs2[j], x).borrowCount \in Nat
              /\ NoBorrowers(bs2, fin2, SlotAt(bs2, j, x))
           \/ /\ j \in 1..Len(bs) /\ Has(bs, j, x) /\ SlotAt(bs2, j, x) = SlotAt(bs, j, x)
              /\ InfoAt(c2, bs2[j], x) = InfoAt(c, bs[j], x)
              /\ \A t : Borrowers(bs2, fin2, SlotAt(bs, j, x), t) = Borrowers(bs, fin, SlotAt(bs, j, x), t)
  PROVE  BorrowsInv(c2, bs2, fin2)
<1> SUFFICES ASSUME NEW j \in 1..Len(bs2), NEW x \in Name, Has(bs2, j, x)
             PROVE  BorrowInv(InfoAt(c2, bs2[j], x), Borrowers(bs2, fin2, SlotAt(bs2, j, x), "ref"),
                              Borrowers(bs2, fin2, SlotAt(bs2, j, x), "refmut"))
  BY DEF BorrowsInv
<1>1. CASE InfoAt(c2, bs2[j], x).borrowCount \in Nat /\ NoBorrowers(bs2, fin2, SlotAt(bs2, j, x))
  BY <1>1, NoBorrow DEF NoBorrowers
<1>2. CASE /\ j \in 1..Len(bs) /\ Has(bs, j, x) /\ SlotAt(bs2, j, x) = SlotAt(bs, j, x)
           /\ InfoAt(c2, bs2[j], x) = InfoAt(c, bs[j], x)
           /\ \A t : Borrowers(bs2, fin2, SlotAt(bs, j, x), t) = Borrowers(bs, fin, SlotAt(bs, j, x), t)
  BY <1>2 DEF BorrowsInv
<1> QED BY <1>1, <1>2

\* What is known of the reference r of block i is known after a step.
RefStays(c, bs, m, c2, bs2, m2, i, r) ==
  /\ i \in 1..Len(bs) /\ Has(bs, i, r) /\ bs2[i].names[r] = bs[i].names[r]
  /\ InfoAt(c2, bs2[i], r) = InfoAt(c, bs[i], r)
  /\ Exec(m2, bs2, i) =>
       /\ Exec(m, bs, i)
       /\ m.slots[SlotAt(bs, i, r)].val = m.refs[r].sees =>
            m2.slots[SlotAt(bs, i, r)].val = m2.refs[r].sees
  /\ Lent(bs, i, r, InfoAt(c, bs[i], r).borrowsName) =>
       Lent(bs2, i, r, InfoAt(c, bs[i], r).borrowsName)

\* References are recorded as they were when no record or slot they depend on changed.
LEMMA RefsKept ==
  ASSUME NEW c, NEW bs, NEW fin, NEW m, RefsInv(c, bs, fin, m), NEW c2, NEW bs2, NEW m2,
         \A i \in 1..Len(bs2), r \in RefName : Has(bs2, i, r) =>
           IF r \in fin THEN /\ i \in 1..Len(bs) /\ Has(bs, i, r)
                             /\ InfoAt(c2, bs2[i], r) = InfoAt(c, bs[i], r)
           ELSE RefStays(c, bs, m, c2, bs2, m2, i, r)
  PROVE  RefsInv(c2, bs2, fin, m2)
<1> SUFFICES ASSUME NEW i \in 1..Len(bs2), NEW r \in RefName, Has(bs2, i, r)
             PROVE  IF r \in fin THEN InfoAt(c2, bs2[i], r).borrowsName = NoName
                    ELSE RefInv(c2, bs2, m2, i, r)
  BY DEF RefsInv
<1>1. CASE r \in fin
  BY <1>1 DEF RefsInv
<1>2. CASE r \notin fin
  <2>1. RefStays(c, bs, m, c2, bs2, m2, i, r)
    BY <1>2
  <2>2. RefInv(c, bs, m, i, r)
    BY <1>2, <2>1 DEF RefsInv, RefStays
  <2>3. SlotAt(bs2, i, r) = SlotAt(bs, i, r) /\ TypeAt(bs2, i, r) = TypeAt(bs, i, r)
    BY <2>1 DEF RefStays, SlotAt, TypeAt
  <2> QED BY <1>2, <2>1, <2>2, <2>3 DEF RefStays, RefInv
<1> QED BY <1>1, <1>2

\* bs2 has the names of bs in the blocks up to K.
Prefix(bs, bs2, K) ==
  \A k \in 1..K : k \in 1..Len(bs) /\ k \in 1..Len(bs2) /\ bs2[k].names = bs[k].names

\* What a reference was lent is looked up in the blocks it can see.
LEMMA LentKept ==
  ASSUME NEW bs, NEW bs2, NEW K \in Nat, Prefix(bs, bs2, K), NEW i \in 1..K, NEW r, NEW x,
         Lent(bs, i, r, x)
  PROVE  Lent(bs2, i, r, x)
<1>1. \A k \in 1..i : k \in 1..K /\ bs2[k].names = bs[k].names
  BY DEF Prefix
<1>2. PICK j \in 1..i : /\ Has(bs, j, x) /\ SlotAt(bs, j, x) = SlotAt(bs, i, r)
                        /\ \A k \in j + 1..i : ~Has(bs, k, x)
  BY DEF Lent
<1>3. \A k \in j + 1..i : k \in 1..i
  BY <1>2
<1>4. i \in 1..i
  OBVIOUS
<1>5. Has(bs2, j, x) /\ SlotAt(bs2, j, x) = SlotAt(bs2, i, r) /\ \A k \in j + 1..i : ~Has(bs2, k, x)
  BY <1>1, <1>2, <1>3, <1>4 DEF Has, SlotAt
<1> QED BY <1>5 DEF Lent

-----------------------------------------------------------------------------
(* A borrow is given back. *)

\* A record is still right when a reference stops borrowing and the record is not told.
LEMMA FewerBorrowers ==
  ASSUME NEW info, info \in Infos, NEW S, IsFiniteSet(S), NEW M, BorrowInv(info, S, M), NEW r
  PROVE  BorrowInv(info, S \ {r}, M \ {r})
<1>1. Cardinality(S) \in Nat /\ Cardinality(S \ {r}) \in Nat /\ Cardinality(S \ {r}) <= Cardinality(S)
  BY FS_RemoveElement, FS_CardinalityType, FS_Subset
<1>2. info.borrowCount \in Nat
  BY DEF Infos
<1> QED BY <1>1, <1>2 DEF BorrowInv

\* A borrow given back is one borrower less.
LEMMA LessBorrowed ==
  ASSUME NEW info, info \in Infos, NEW S, IsFiniteSet(S), NEW M, BorrowInv(info, S, M), NEW r,
         NEW mutable, mutable \in BOOLEAN, mutable => r \in M, ~mutable => r \in S
  PROVE  BorrowInv(Less(info, mutable), S \ {r}, M \ {r})
<1> DEFINE j == Less(info, mutable)
           remain == IF mutable \/ info.borrowCount = 0 THEN info.borrowCount ELSE info.borrowCount - 1
<1>1. /\ j \in Infos /\ SameVariable(info, j) /\ j.borrowCount = remain
      /\ (j.hasMutableBorrow <=> (info.hasMutableBorrow /\ (~mutable)))
      /\ j.state = IF ~j.hasMutableBorrow /\ remain = 0 /\ info.state # "Moved" THEN "Owned" ELSE info.state
  BY LessIs
<1>2. Cardinality(S) \in Nat /\ info.borrowCount \in Nat /\ IsFiniteSet(S \ {r})
  BY FS_CardinalityType, FS_RemoveElement DEF Infos
<1> HIDE DEF j
<1>3. CASE mutable
  <2>1. S = {} /\ M \ {r} = {} /\ S \ {r} = {}
    BY <1>3 DEF BorrowInv
  <2> QED BY <1>1, <1>2, <2>1, NoBorrow DEF Infos, j
<1>4. CASE ~mutable
  <2>1. M = {} /\ r \in S /\ info.borrowCount >= Cardinality(S)
        /\ info.state \in {"BorrowedImmutable", "BorrowedMutable"}
    BY <1>4 DEF BorrowInv
  <2>2. Cardinality(S \ {r}) = Cardinality(S) - 1 /\ Cardinality(S \ {r}) \in Nat
    BY <1>2, <2>1, FS_RemoveElement, FS_CardinalityType
  <2>3. remain = info.borrowCount - 1 /\ remain \in Nat /\ remain >= Cardinality(S \ {r})
    BY <1>2, <1>4, <2>1, <2>2
  <2>4. S \ {r} # {} => Cardinality(S \ {r}) # 0
    BY <1>2, FS_EmptySet
  <2>5. S \ {r} # {} => remain # 0
    <3> DEFINE k == Cardinality(S \ {r})
    <3>1. k \in Nat /\ remain \in Nat /\ remain >= k /\ (S \ {r} # {} => k # 0)
      BY <2>2, <2>3, <2>4
    <3> HIDE DEF k, remain
    <3> QED BY <3>1
  <2>6. S \ {r} # {} => j.state = info.state
    BY <1>1, <2>5
  <2>7. j.borrowCount = remain
    BY <1>1
  <2> HIDE DEF remain
  <2> QED BY <2>1, <2>3, <2>6, <2>7 DEF BorrowInv, j
<1> QED BY <1>3, <1>4

\* A reference of the innermost scope, which holds a borrow.
LEMMA HolderIs ==
  ASSUME NEW c, NEW bs, ShapeInv(c, bs), NEW hid, TracksInv(c, bs, hid), Len(bs) > 0,
         NEW fin, NEW m, RefsInv(c, bs, fin, m),
         NEW r \in RefName, c.all[r] # 0, r \in DOMAIN c.scopes[Len(c.scopes)],
         Info(c, r).borrowsName # NoName
  PROVE  /\ Len(bs) \in 1..Len(bs) /\ Has(bs, Len(bs), r) /\ r \notin fin
         /\ c.all[r] = ScopeAt(bs[Len(bs)], r) /\ Info(c, r) = InfoAt(c, bs[Len(bs)], r)
         /\ \A i \in 1..Len(bs) : Has(bs, i, r) => i = Len(bs)
         /\ Info(c, r).borrowsName \in Name
         /\ Info(c, r).borrowsMutable \in BOOLEAN
         /\ Info(c, r).borrowsMutable <=> TypeAt(bs, Len(bs), r) = "refmut"
         /\ TypeAt(bs, Len(bs), r) \in {"ref", "refmut"}
         /\ \E j \in 1..Len(bs) : /\ IsInner(bs, j, Info(c, r).borrowsName)
                                  /\ SlotAt(bs, j, Info(c, r).borrowsName) = SlotAt(bs, Len(bs), r)
<1> DEFINE L == Len(bs)
           y == Info(c, r).borrowsName
<1>1. /\ L \in Nat /\ L \in 1..L /\ bs \in Seq(Blocks) /\ bs[L] \in Blocks /\ IsChecker(c)
      /\ bs[L].scope = Len(c.scopes)
      /\ DOMAIN c.scopes[bs[L].scope] = DOMAIN bs[L].names \ {bs[L].binding}
  BY DEF ShapeInv
<1>2. Has(bs, L, r) /\ r \in Names
  BY <1>1 DEF Has, Names
<1>3. PICK i \in 1..L : IsInner(bs, i, r) /\ c.all[r] = ScopeAt(bs[i], r)
  BY <1>2 DEF TracksInv
<1>4. \A k \in 1..L : Has(bs, k, r) => k = L
  BY <1>1, <1>2 DEF TracksInv
<1>5. i = L
  BY <1>3, <1>4 DEF IsInner
<1>6. Info(c, r) = InfoAt(c, bs[L], r) /\ c.all[r] = ScopeAt(bs[L], r)
  BY <1>3, <1>5 DEF Info, InfoAt
<1>7. r \notin fin
  BY <1>1, <1>2, <1>6 DEF RefsInv
<1>8. RefInv(c, bs, m, L, r)
  BY <1>1, <1>2, <1>7 DEF RefsInv
<1>9. y \in Name /\ (Info(c, r).borrowsMutable <=> TypeAt(bs, L, r) = "refmut")
      /\ Lent(bs, L, r, y)
  BY <1>6, <1>8 DEF RefInv, Lent
<1>10. Info(c, r).borrowsMutable \in BOOLEAN
  BY <1>1, <1>2, InfoIs DEF Infos
<1>11. TypeAt(bs, L, r) \in {"ref", "refmut"}
  BY <1>1, <1>2, BlockIs DEF NameFits, TypeAt, Has
<1>12. PICK j \in 1..L : /\ Has(bs, j, y) /\ SlotAt(bs, j, y) = SlotAt(bs, L, r)
                         /\ \A k \in j + 1..L : ~Has(bs, k, y)
  BY <1>9 DEF Lent
<1>13. IsInner(bs, j, y)
  <2>1. \A k \in 1..L : k <= j \/ k \in j + 1..L
    BY <1>1, <1>12
  <2> QED BY <1>12, <2>1 DEF IsInner
<1> QED BY <1>1, <1>2, <1>4, <1>6, <1>7, <1>9, <1>10, <1>11, <1>12, <1>13

\* A borrow that is given back leaves the records of what is still lent.
LEMMA GivenBorrows ==
  ASSUME NEW c, NEW bs, ShapeInv(c, bs), NEW hid, TracksInv(c, bs, hid), Len(bs) > 0,
         NEW fin, NEW m, Borrowing(c, bs, fin, m),
         NEW r \in RefName \cup {NoName},
         r # NoName => /\ c.all[r] # 0 /\ Info(c, r).borrowsName # NoName
                       /\ r \in DOMAIN c.scopes[Len(c.scopes)]
  PROVE  Borrowing(Given(c, r), bs, fin \cup ({r} \ {NoName}), m)
<1> DEFINE L == Len(bs)
           y == Info(c, r).borrowsName
           mutable == Info(c, r).borrowsMutable
           d == Given(c, r)
<1>1. CASE r = NoName
  BY <1>1 DEF Given
<1>2. CASE r # NoName
  <2>1. r \in RefName /\ NoName \notin Name \cup RefName /\ Name \cap RefName = {} /\ r \in Names
    BY <1>2, NamesAssumption DEF Names
  <2>a. RefsInv(c, bs, fin, m) /\ BorrowsInv(c, bs, fin)
    BY DEF Borrowing
  <2>2. /\ L \in 1..L /\ Has(bs, L, r) /\ r \notin fin
        /\ c.all[r] = ScopeAt(bs[L], r) /\ Info(c, r) = InfoAt(c, bs[L], r)
        /\ \A i \in 1..L : Has(bs, i, r) => i = L
        /\ y \in Name /\ mutable \in BOOLEAN /\ (mutable <=> TypeAt(bs, L, r) = "refmut")
        /\ TypeAt(bs, L, r) \in {"ref", "refmut"}
        /\ \E j \in 1..L : IsInner(bs, j, y) /\ SlotAt(bs, j, y) = SlotAt(bs, L, r)
    BY <1>2, <2>1, <2>a, HolderIs
  <2>3. PICK j \in 1..L : IsInner(bs, j, y) /\ SlotAt(bs, j, y) = SlotAt(bs, L, r)
    BY <2>2
  <2>4. d = Sema!giveBack(c, r) /\ IsChecker(c) /\ c.ok
    BY <1>2 DEF Given, ShapeInv
  <2> DEFINE fin2 == fin \cup ({r} \ {NoName})
  <2>5. /\ \A k \in 1..Len(c.scopes) : \A x \in DOMAIN c.scopes[k] :
             d.scopes[k][x] =
               IF k = c.all[r] /\ x = r THEN [Info(c, r) EXCEPT !.borrowsName = NoName]
               ELSE IF k = c.all[y] /\ x = y THEN Less(Info(c, y), mutable)
               ELSE c.scopes[k][x]
    BY <1>2, <2>1, <2>4, GiveBackIs
  <2> HIDE DEF d
  <2>6. \A i \in 1..L : \A n : Has(bs, i, n) =>
          InfoAt(d, bs[i], n) =
            IF ScopeAt(bs[i], n) = c.all[r] /\ n = r THEN [Info(c, r) EXCEPT !.borrowsName = NoName]
            ELSE IF ScopeAt(bs[i], n) = c.all[y] /\ n = y THEN Less(Info(c, y), mutable)
            ELSE InfoAt(c, bs[i], n)
    BY <2>5, Place, ZenonT(60) DEF InfoAt
  <2>7. fin2 = fin \cup {r}
    BY <1>2
  <2>8. RefsInv(d, bs, fin2, m)
    <3> SUFFICES ASSUME NEW i \in 1..L, NEW q \in RefName, Has(bs, i, q)
                 PROVE  IF q \in fin2 THEN InfoAt(d, bs[i], q).borrowsName = NoName
                        ELSE RefInv(d, bs, m, i, q)
      BY DEF RefsInv
    <3>1. q # y
      BY <2>1, <2>2
    <3>2. CASE q = r
      <4>1. i = L
        BY <2>2, <3>2
      <4>2. InfoAt(d, bs[i], q) = [Info(c, r) EXCEPT !.borrowsName = NoName]
        BY <2>2, <2>6, <3>2, <4>1
      <4>3. Info(c, r) \in Infos
        BY <2>1, <2>4, InfoIs, <1>2
      <4> QED BY <2>7, <3>2, <4>2, <4>3 DEF Infos
    <3>3. CASE q # r
      <4>1. InfoAt(d, bs[i], q) = InfoAt(c, bs[i], q)
        BY <2>6, <3>1, <3>3
      <4> QED BY <2>7, <2>a, <3>3, <4>1 DEF RefsInv, RefInv
    <3> QED BY <3>2, <3>3
  <2>9. BorrowsInv(d, bs, fin2)
    <3> SUFFICES ASSUME NEW i \in 1..L, NEW x \in Name, Has(bs, i, x)
                 PROVE  BorrowInv(InfoAt(d, bs[i], x), Borrowers(bs, fin2, SlotAt(bs, i, x), "ref"),
                                  Borrowers(bs, fin2, SlotAt(bs, i, x), "refmut"))
      BY DEF BorrowsInv
    <3> DEFINE s == SlotAt(bs, i, x)
               S == Borrowers(bs, fin, s, "ref")
               M == Borrowers(bs, fin, s, "refmut")
    <3>1. Borrowers(bs, fin2, s, "ref") = S \ {r} /\ Borrowers(bs, fin2, s, "refmut") = M \ {r}
      <4>1. \A t : \A q : q \in Borrowers(bs, fin2, s, t) <=> q \in Borrowers(bs, fin, s, t) /\ q # r
        BY <2>7, BorrowerIs
      <4> QED BY <4>1
    <3>2. IsFiniteSet(S)
      BY BorrowersFinite
    <3>3. BorrowInv(InfoAt(c, bs[i], x), S, M) /\ InfoAt(c, bs[i], x) \in Infos
      BY <2>a, Place DEF BorrowsInv
    <3>4. CASE x = y /\ ScopeAt(bs[i], y) = c.all[y]
      <4>1. InfoAt(d, bs[i], x) = Less(Info(c, y), mutable) /\ Info(c, y) = InfoAt(c, bs[i], x)
        BY <2>1, <2>6, <3>4, ZenonT(60) DEF Info, InfoAt
      <4>2. i = j
        <5>1. c.all[y] # 0 /\ y \in Names
          <6>1. ScopeAt(bs[i], y) \in 1..Len(c.scopes)
            BY <3>4, Place
          <6> QED BY <2>2, <3>4, <6>1 DEF Names
        <5>2. PICK l \in 1..L : IsInner(bs, l, y) /\ c.all[y] = ScopeAt(bs[l], y)
          BY <5>1 DEF TracksInv
        <5>3. i = l
          BY <3>4, <5>1, <5>2, PlacesApart
        <5>4. bs \in Seq(Blocks)
          BY DEF ShapeInv
        <5> QED BY <2>3, <5>2, <5>3, <5>4, InnerApart
      <4>3. SlotAt(bs, L, r) = s
        BY <2>3, <3>4, <4>2
      <4>4. r \in Borrowers(bs, fin, s, TypeAt(bs, L, r))
        BY <2>1, <2>2, <4>3, BorrowerIs
      <4>5. (mutable => r \in M) /\ (~mutable => r \in S)
        BY <2>2, <4>4
      <4> HIDE DEF S, M, s, mutable
      <4>6. mutable \in BOOLEAN
        BY <2>2 DEF mutable
      <4>7. BorrowInv(Less(InfoAt(c, bs[i], x), mutable), S \ {r}, M \ {r})
        BY <3>2, <3>3, <4>5, <4>6, LessBorrowed
      <4> QED BY <3>1, <4>1, <4>7 DEF s
    <3>5. CASE ~(x = y /\ ScopeAt(bs[i], y) = c.all[y])
      <4>1. x # r
        BY <2>1
      <4>2. InfoAt(d, bs[i], x) = InfoAt(c, bs[i], x)
        BY <2>6, <3>5, <4>1
      <4> HIDE DEF S, M
      <4>3. BorrowInv(InfoAt(c, bs[i], x), S \ {r}, M \ {r})
        BY <3>2, <3>3, FewerBorrowers
      <4> QED BY <3>1, <4>2, <4>3
    <3> QED BY <3>4, <3>5
  <2> QED BY <2>8, <2>9 DEF Borrowing, d
<1> QED BY <1>1, <1>2

-----------------------------------------------------------------------------
(* Statements that declare nothing in the blocks that are open. *)

\* What is recorded of the name n of block i, which may be a variable without borrowers.
InfoStays(c, bs, fin, c2, bs2, i, n) ==
  \/ InfoAt(c2, bs2[i], n) = InfoAt(c, bs[i], n)
  \/ /\ n \in Name /\ NoBorrowers(bs, fin, SlotAt(bs, i, n))
     /\ InfoAt(c2, bs2[i], n).borrowCount \in Nat

\* The reference r of block i sees what it saw, or what was written through it.
SeenStays(m, bs, m2, bs2, i, r) ==
  Exec(m2, bs2, i) =>
    /\ Exec(m, bs, i)
    /\ m.slots[SlotAt(bs, i, r)].val = m.refs[r].sees =>
         m2.slots[SlotAt(bs, i, r)].val = m2.refs[r].sees

\* A name of a block that is new: a variable without borrowers.
NewStays(bs, fin, c2, bs2, i, n) ==
  n \in Name /\ NoBorrowers(bs, fin, SlotAt(bs2, i, n)) /\ InfoAt(c2, bs2[i], n).borrowCount \in Nat

\* The blocks of bs are the outer blocks of bs2.
LEMMA BorrowingKept ==
  ASSUME NEW c, NEW bs, NEW fin, NEW m, Borrowing(c, bs, fin, m), Len(bs) \in Nat,
         NEW bs2, Prefix(bs, bs2, Len(bs)), NEW c2, NEW m2,
         \A i \in 1..Len(bs) : \A n : Has(bs, i, n) => InfoStays(c, bs, fin, c2, bs2, i, n),
         \A i \in 1..Len(bs), r \in RefName : Has(bs, i, r) /\ r \notin fin => SeenStays(m, bs, m2, bs2, i, r),
         \A i \in 1..Len(bs2) : \A n : Has(bs2, i, n) => i \in 1..Len(bs) \/ NewStays(bs, fin, c2, bs2, i, n)
  PROVE  Borrowing(c2, bs2, fin, m2)
<1>0. Name \cap RefName = {} /\ RefsInv(c, bs, fin, m) /\ BorrowsInv(c, bs, fin)
  BY NamesAssumption DEF Borrowing
<1>1. \A i \in 1..Len(bs) : i \in 1..Len(bs2) /\ bs2[i].names = bs[i].names
  BY DEF Prefix
<1>2. \A i \in 1..Len(bs) : \A n : (Has(bs2, i, n) <=> Has(bs, i, n)) /\ SlotAt(bs2, i, n) = SlotAt(bs, i, n)
                               /\ TypeAt(bs2, i, n) = TypeAt(bs, i, n)
  BY <1>1 DEF Has, SlotAt, TypeAt
<1>3. \A i \in 1..Len(bs2), r \in RefName : Has(bs2, i, r) => i \in 1..Len(bs)
  BY <1>0 DEF NewStays
<1>4. SameRefs(bs, bs2)
  BY <1>1, <1>2, <1>3 DEF SameRefs
<1>5. \A s, t : Borrowers(bs2, fin, s, t) = Borrowers(bs, fin, s, t)
  BY <1>4, SameBorrowers
<1>6. \A s : NoBorrowers(bs, fin, s) => NoBorrowers(bs2, fin, s)
  BY <1>5 DEF NoBorrowers
<1>7. RefsInv(c2, bs2, fin, m2)
  <2>1. ASSUME NEW i \in 1..Len(bs2), NEW r \in RefName, Has(bs2, i, r)
        PROVE  IF r \in fin THEN /\ i \in 1..Len(bs) /\ Has(bs, i, r)
                                 /\ InfoAt(c2, bs2[i], r) = InfoAt(c, bs[i], r)
               ELSE RefStays(c, bs, m, c2, bs2, m2, i, r)
    <3>1. i \in 1..Len(bs) /\ Has(bs, i, r) /\ bs2[i].names[r] = bs[i].names[r]
      BY <1>1, <1>2, <1>3, <2>1
    <3>2. InfoAt(c2, bs2[i], r) = InfoAt(c, bs[i], r)
      BY <1>0, <3>1 DEF InfoStays
    <3>3. \A x : Lent(bs, i, r, x) => Lent(bs2, i, r, x)
      BY <3>1, LentKept
    <3>4. r \notin fin => SeenStays(m, bs, m2, bs2, i, r)
      BY <3>1
    <3> QED BY <3>1, <3>2, <3>3, <3>4 DEF SeenStays, RefStays
  <2> QED BY <1>0, <2>1, RefsKept
<1>8. BorrowsInv(c2, bs2, fin)
  <2>1. ASSUME NEW j \in 1..Len(bs2), NEW x \in Name, Has(bs2, j, x)
        PROVE  \/ /\ InfoAt(c2, bs2[j], x).borrowCount \in Nat
                  /\ NoBorrowers(bs2, fin, SlotAt(bs2, j, x))
               \/ /\ j \in 1..Len(bs) /\ Has(bs, j, x) /\ SlotAt(bs2, j, x) = SlotAt(bs, j, x)
                  /\ InfoAt(c2, bs2[j], x) = InfoAt(c, bs[j], x)
                  /\ \A t : Borrowers(bs2, fin, SlotAt(bs, j, x), t) = Borrowers(bs, fin, SlotAt(bs, j, x), t)
    <3>1. CASE NewStays(bs, fin, c2, bs2, j, x)
      BY <1>6, <3>1 DEF NewStays
    <3>2. CASE j \in 1..Len(bs)
      <4>1. Has(bs, j, x) /\ SlotAt(bs2, j, x) = SlotAt(bs, j, x) /\ InfoStays(c, bs, fin, c2, bs2, j, x)
        BY <1>2, <2>1, <3>2
      <4> QED BY <1>5, <1>6, <3>2, <4>1 DEF InfoStays
    <3> QED BY <2>1, <3>1, <3>2
  <2> QED BY <1>0, <2>1, BorrowsKept
<1> QED BY <1>7, <1>8 DEF Borrowing

\* A slot without borrowers is that of no reference in use.
LEMMA NotLent ==
  ASSUME NEW bs, NEW fin, NEW s, NoBorrowers(bs, fin, s), NEW i \in 1..Len(bs),
         NEW r \in RefName \ fin, Has(bs, i, r)
  PROVE  SlotAt(bs, i, r) # s
<1>1. SlotAt(bs, i, r) = s => r \in Borrowers(bs, fin, s, TypeAt(bs, i, r))
  BY BorrowerIs
<1> QED BY <1>1 DEF NoBorrowers

BorrowNow == Borrowing(checker, blocks, finished, machine)

\* A statement that declares nothing: what its end gives back.
LEMMA SimpleBorrows ==
  ASSUME Agree, NEW c, NEW r, SimpleFacts(c, r), Borrowing(c, blocks, finished, machine')
  PROVE  BorrowNow'
<1>1. ShapeInv(checker, blocks) /\ TracksInv(checker, blocks, hidden) /\ SameTable(checker, c)
      /\ Len(blocks) > 0 /\ r \in RefName \cup {NoName}
  BY DEF Agree, Base, SimpleFacts
<1>2. ShapeInv(c, blocks) /\ TracksInv(c, blocks, hidden)
  BY <1>1, ShapeKept
<1>3. r # NoName => /\ c.all[r] # 0 /\ Info(c, r).borrowsName # NoName
                    /\ r \in DOMAIN c.scopes[Len(c.scopes)]
  BY EndIs DEF SimpleFacts
<1> DEFINE m2 == machine'
<1>4. Borrowing(c, blocks, finished, m2)
  OBVIOUS
<1> HIDE DEF m2
<1>5. Borrowing(Given(c, r), blocks, finished \cup ({r} \ {NoName}), m2)
  BY <1>1, <1>2, <1>3, <1>4, GivenBorrows
<1>6. /\ checker' = Given(c, r) /\ finished' = finished \cup ({r} \ {NoName}) /\ blocks' = blocks
  BY DEF SimpleFacts
<1> QED BY <1>5, <1>6 DEF BorrowNow, m2

\* Blocks with the same names agree up to the last.
LEMMA SamePrefix ==
  ASSUME NEW bs, NEW bs2, Len(bs2) = Len(bs), \A i \in 1..Len(bs) : bs2[i].names = bs[i].names
  PROVE  Prefix(bs, bs2, Len(bs))
BY DEF Prefix

\* The same slots and references, where control was before.
LEMMA SameSeen ==
  ASSUME NEW m, NEW bs, NEW m2, NEW bs2, m2.slots = m.slots, m2.refs = m.refs,
         NEW i, Exec(m2, bs2, i) => Exec(m, bs, i), NEW r
  PROVE  SeenStays(m, bs, m2, bs2, i, r)
BY DEF SeenStays

\* A statement of one line that changes no record of a borrow, and nothing a reference sees,
\* keeps the borrows.
LEMMA SimpleKept ==
  ASSUME Agree, BorrowNow, NEW c, NEW r, SimpleFacts(c, r),
         \A i \in 1..Len(blocks) : \A n : Has(blocks, i, n) =>
           InfoStays(checker, blocks, finished, c, blocks, i, n),
         \A i \in 1..Len(blocks), q \in RefName : Has(blocks, i, q) /\ q \notin finished =>
           SeenStays(machine, blocks, machine', blocks, i, q)
  PROVE  BorrowNow'
<1>1. Prefix(blocks, blocks, Len(blocks)) /\ Len(blocks) \in Nat
  BY AgreeIs, SamePrefix
<1> DEFINE m2 == machine'
<1>2. \A i \in 1..Len(blocks), q \in RefName : Has(blocks, i, q) /\ q \notin finished =>
        SeenStays(machine, blocks, m2, blocks, i, q)
  OBVIOUS
<1>3. Borrowing(checker, blocks, finished, machine)
  BY DEF BorrowNow
<1> HIDE DEF m2
<1>4. Borrowing(c, blocks, finished, m2)
  BY <1>1, <1>2, <1>3, BorrowingKept
<1> QED BY <1>4, SimpleBorrows DEF m2

\* The records of checker are those of checker.
LEMMA SameInfo ==
  ASSUME NEW c, NEW bs, NEW fin, NEW i, NEW n
  PROVE  InfoStays(c, bs, fin, c, bs, i, n)
BY DEF InfoStays

\* Where a step keeps control, it is in the blocks in which it was.
LEMMA StaysExec ==
  ASSUME Agree, SameControl(machine, machine'), NEW i \in 1..Len(blocks)
  PROVE  Exec(machine', blocks, i) <=> Exec(machine, blocks, i)
BY DEF SameControl, Exec

\* A use of a variable keeps the recorded borrows those of the references in use.
LEMMA UseBorrows ==
  ASSUME Agree, BorrowNow, NEW n \in Name, Use(n)
  PROVE  BorrowNow'
<1>1. PICK i, r : SimpleFacts(checker, r)
  BY UseIs
<1>2. SameButRead(machine, machine') /\ SameControl(machine, machine')
  BY UseIs, StaysControl
<1>3. machine'.slots = machine.slots /\ machine'.refs = machine.refs
  BY <1>2 DEF SameButRead
<1>4. \A k \in 1..Len(blocks) : \A q : SeenStays(machine, blocks, machine', blocks, k, q)
  BY <1>2, <1>3, StaysExec, SameSeen
<1> QED BY <1>1, <1>4, SameInfo, SimpleKept

\* A use of a reference keeps the recorded borrows those of the references in use.
LEMMA UseRefBorrows ==
  ASSUME Agree, BorrowNow, NEW q \in RefName, UseRef(q)
  PROVE  BorrowNow'
<1>1. PICK i, r : SimpleFacts(checker, r)
  BY UseRefIs
<1>2. SameButRead(machine, machine') /\ SameControl(machine, machine')
  BY UseRefIs, StaysControl
<1>3. machine'.slots = machine.slots /\ machine'.refs = machine.refs
  BY <1>2 DEF SameButRead
<1>4. \A k \in 1..Len(blocks) : \A p : SeenStays(machine, blocks, machine', blocks, k, p)
  BY <1>2, <1>3, StaysExec, SameSeen
<1> QED BY <1>1, <1>4, SameInfo, SimpleKept

-----------------------------------------------------------------------------
(* Assignments. *)

\* A store in slot s, which no reference in use has.
LEMMA StoreSeen ==
  ASSUME NEW bs, NEW fin, NEW s, NoBorrowers(bs, fin, s), NEW m, MachineInv(m), s \in 1..Len(m.slots),
         NEW v, v \in (1..Len(m.home) + 1) \cup {Nothing, Garbage},
         RefSlots(m, bs), NEW i \in 1..Len(bs), NEW q \in RefName \ fin, Has(bs, i, q),
         NEW m2, m2 = store(m, s, v)
  PROVE  SeenStays(m, bs, m2, bs, i, q)
<1>1. m \in Machines /\ SlotAt(bs, i, q) # s /\ SlotAt(bs, i, q) \in 1..Len(m.slots)
  BY NotLent DEF MachineInv, RefSlots
<1>2. CASE m.running
  <2>1. StoreStep(m, m2, s, v)
    BY <1>1, <1>2, StoreSteps
  <2> QED BY <1>1, <2>1 DEF StoreStep, SameButMemory, SeenStays, Exec
<1>3. CASE ~m.running
  <2>1. m2 = m
    BY <1>3, NoStore
  <2> QED BY <2>1 DEF SeenStays
<1> QED BY <1>2, <1>3

\* What was read does not matter to references.
LEMMA SeenRead ==
  ASSUME NEW m, NEW m1, SameButRead(m, m1), NEW bs, NEW m2, NEW i, NEW q,
         SeenStays(m1, bs, m2, bs, i, q)
  PROVE  SeenStays(m, bs, m2, bs, i, q)
BY DEF SeenStays, SameButRead, Exec

\* An assignment of a new value keeps the recorded borrows those of the references in use.
LEMMA AssignNewBorrows ==
  ASSUME Agree, BorrowNow, NEW n \in Name, AssignNew(n)
  PROVE  BorrowNow'
<1>1. PICK i, r, v :
        /\ Meant(n, i) /\ SimpleFacts(checker, r)
        /\ InfoAt(checker, blocks[i], n).state \notin {"Moved", "BorrowedImmutable", "BorrowedMutable"}
        /\ v \in {Len(machine.home) + 1, Nothing}
        /\ machine' = store(current, Slot(n), v)
  BY AssignNewIs
<1>2. SameButRead(machine, current) /\ MachineInv(current) /\ blocks \in Seq(Blocks) /\ MachineInv(machine)
  BY AssignNewIs, AgreeIs
<1>3. /\ i \in 1..Len(blocks) /\ Has(blocks, i, n) /\ Slot(n) = SlotAt(blocks, i, n)
      /\ Slot(n) \in 1..Len(machine.slots)
  BY <1>1 DEF Meant
<1>4. NoBorrowers(blocks, finished, Slot(n))
  BY <1>1, <1>2, <1>3, Unborrowed DEF BorrowNow, Borrowing
<1>5. current.slots = machine.slots /\ current.home = machine.home /\ RefSlots(current, blocks)
  BY <1>2 DEF Agree, Base, RefSlots, SameButRead, Exec
<1>6. ASSUME NEW k \in 1..Len(blocks), NEW q \in RefName, Has(blocks, k, q), q \notin finished
      PROVE  SeenStays(machine, blocks, machine', blocks, k, q)
  <2> DEFINE m2 == store(current, Slot(n), v)
  <2>1. /\ q \in RefName \ finished /\ Slot(n) \in 1..Len(current.slots)
        /\ v \in (1..Len(current.home) + 1) \cup {Nothing, Garbage}
    BY <1>1, <1>2, <1>3, <1>5, <1>6, MachineIs DEF MachineInv
  <2>2. SeenStays(current, blocks, m2, blocks, k, q)
    BY <1>2, <1>4, <1>5, <1>6, <2>1, StoreSeen
  <2> QED BY <1>1, <1>2, <2>2, SeenRead
<1> QED BY <1>1, <1>6, SameInfo, SimpleKept

\* The records when x has been moved: x had no borrowers.
LEMMA MovedStays ==
  ASSUME Agree, BorrowNow, NEW x \in Name, NEW j, Meant(x, j),
         Info(checker, x).borrowCount = 0, ~Info(checker, x).hasMutableBorrow,
         NEW e, SetAt(checker, e, x, [Info(checker, x) EXCEPT !.state = "Moved"])
  PROVE  /\ \A i \in 1..Len(blocks) : \A n : Has(blocks, i, n) =>
              InfoStays(checker, blocks, finished, e, blocks, i, n)
         /\ NoBorrowers(blocks, finished, Slot(x))
<1>1. /\ j \in 1..Len(blocks) /\ Has(blocks, j, x) /\ Slot(x) = SlotAt(blocks, j, x)
      /\ checker.all[x] = ScopeAt(blocks[j], x) /\ Info(checker, x) = InfoAt(checker, blocks[j], x)
  BY DEF Meant
<1>2. NoBorrowers(blocks, finished, Slot(x))
  BY <1>1, AgreeIs, Unborrowed DEF BorrowNow, Borrowing
<1>3. ShapeInv(checker, blocks)
  BY DEF Agree, Base
<1>4. ASSUME NEW i \in 1..Len(blocks), NEW n, Has(blocks, i, n)
      PROVE  InfoStays(checker, blocks, finished, e, blocks, i, n)
  <2> DEFINE k == ScopeAt(blocks[i], n)
  <2>1. n \in Names /\ k \in 1..Len(checker.scopes) /\ n \in DOMAIN checker.scopes[k]
    BY <1>3, <1>4, Place
  <2>2. e.scopes[k][n] = IF k = checker.all[x] /\ n = x THEN [Info(checker, x) EXCEPT !.state = "Moved"]
                         ELSE checker.scopes[k][n]
    BY <2>1 DEF SetAt
  <2>3. CASE k = checker.all[x] /\ n = x
    <3>1. i = j
      BY <1>1, <1>3, <2>1, <2>3, PlacesApart
    <3>2. Info(checker, x) \in Infos
      BY <1>1, <1>3, Place
    <3>3. InfoAt(e, blocks[i], n).borrowCount \in Nat
      BY <2>2, <2>3, <3>2 DEF InfoAt, Infos
    <3> QED BY <1>1, <1>2, <2>3, <3>1, <3>3 DEF InfoStays
  <2>4. CASE ~(k = checker.all[x] /\ n = x)
    BY <2>2, <2>4 DEF InfoStays, InfoAt
  <2> QED BY <2>3, <2>4
<1> QED BY <1>2, <1>4

\* An assignment of one variable to another keeps the recorded borrows those of the references
\* in use.
LEMMA AssignBorrows ==
  ASSUME Agree, BorrowNow, NEW n \in Name, NEW x \in Name, Assign(n, x)
  PROVE  BorrowNow'
<1>1. PICK i, j, r, e, m :
        /\ Meant(n, i) /\ Meant(x, j)
        /\ Info(checker, x).borrowCount = 0 /\ ~Info(checker, x).hasMutableBorrow
        /\ SetAt(checker, e, x, [Info(checker, x) EXCEPT !.state = "Moved"])
        /\ SimpleFacts(e, r)
        /\ Info(e, n).state \notin {"Moved", "BorrowedImmutable", "BorrowedMutable"}
        /\ SameButRead(machine, m) /\ MachineInv(m)
        /\ Storable(m, Slot(n), machine.slots[Slot(x)].val)
        /\ machine' = store(m, Slot(n), machine.slots[Slot(x)].val)
  BY AssignFrom, ZenonT(60)
<1> DEFINE v == machine.slots[Slot(x)].val
           m2 == store(m, Slot(n), v)
<1>2. blocks \in Seq(Blocks) /\ MachineInv(machine)
  BY AgreeIs
<1>3. /\ i \in 1..Len(blocks) /\ Has(blocks, i, n) /\ Slot(n) = SlotAt(blocks, i, n)
      /\ Slot(n) \in 1..Len(machine.slots) /\ checker.all[n] = ScopeAt(blocks[i], n)
      /\ Info(checker, n) = InfoAt(checker, blocks[i], n)
  BY <1>1 DEF Meant
<1>4. /\ \A k \in 1..Len(blocks) : \A y : Has(blocks, k, y) => InfoStays(checker, blocks, finished, e, blocks, k, y)
      /\ NoBorrowers(blocks, finished, Slot(x))
  BY <1>1, MovedStays
<1>5. NoBorrowers(blocks, finished, Slot(n))
  <2>1. CASE n = x
    BY <1>4, <2>1
  <2>2. CASE n # x
    <3>1. ShapeInv(checker, blocks)
      BY DEF Agree, Base
    <3>2. checker.all[n] \in 1..Len(checker.scopes) /\ n \in DOMAIN checker.scopes[checker.all[n]]
      BY <1>3, <3>1, Place
    <3>3. Info(e, n) = Info(checker, n)
      BY <1>1, <2>2, <3>2 DEF SetAt, Info
    <3> QED BY <1>1, <1>2, <1>3, <3>3, Unborrowed DEF BorrowNow, Borrowing
  <2> QED BY <2>1, <2>2
<1>6. m.slots = machine.slots /\ m.home = machine.home /\ RefSlots(m, blocks)
  BY <1>1 DEF Agree, Base, RefSlots, SameButRead, Exec
<1>7. v \in (1..Len(m.home) + 1) \cup {Nothing, Garbage} /\ Slot(n) \in 1..Len(m.slots)
  BY <1>1, <1>3, <1>6 DEF Storable
<1> HIDE DEF v
<1>8. ASSUME NEW k \in 1..Len(blocks), NEW q \in RefName, Has(blocks, k, q), q \notin finished
      PROVE  SeenStays(machine, blocks, machine', blocks, k, q)
  <2>1. q \in RefName \ finished
    BY <1>8
  <2>2. SeenStays(m, blocks, m2, blocks, k, q)
    BY <1>1, <1>5, <1>6, <1>7, <1>8, <2>1, StoreSeen
  <2>3. machine' = m2
    BY <1>1 DEF v
  <2> QED BY <1>1, <2>2, <2>3, SeenRead
<1> QED BY <1>1, <1>4, <1>8, SimpleKept

\* What a reference that writes borrows, no other reference in use borrows.
LEMMA WriterAlone ==
  ASSUME NEW c, NEW bs, NEW fin, NEW m, Borrowing(c, bs, fin, m),
         NEW i \in 1..Len(bs), NEW q \in RefName \ fin, Has(bs, i, q), TypeAt(bs, i, q) = "refmut",
         bs \in Seq(Blocks),
         NEW k \in 1..Len(bs), NEW p \in RefName \ fin, Has(bs, k, p), SlotAt(bs, k, p) = SlotAt(bs, i, q)
  PROVE  p = q
<1> DEFINE s == SlotAt(bs, i, q)
           shared == Borrowers(bs, fin, s, "ref")
           mutable == Borrowers(bs, fin, s, "refmut")
           x == InfoAt(c, bs[i], q).borrowsName
<1>1. Lent(bs, i, q, x)
  BY DEF Borrowing, RefsInv, RefInv
<1>2. PICK j \in 1..i : Has(bs, j, x) /\ SlotAt(bs, j, x) = s
  BY <1>1 DEF Lent
<1>3. x \in Name /\ j \in 1..Len(bs)
  BY <1>1 DEF Lent
<1>4. BorrowInv(InfoAt(c, bs[j], x), shared, mutable)
  BY <1>2, <1>3 DEF Borrowing, BorrowsInv
<1>5. q \in mutable
  BY BorrowerIs
<1>6. TypeAt(bs, k, p) \in {"ref", "refmut"}
  <2>1. bs[k] \in Blocks /\ p \in DOMAIN bs[k].names /\ p \in RefName
    BY DEF Has
  <2>2. NameFits(p, bs[k].names[p])
    BY <2>1, BlockIs
  <2> QED BY <2>1, <2>2 DEF NameFits, TypeAt
<1>7. p \in shared \/ p \in mutable
  BY <1>6, BorrowerIs
<1> QED BY <1>4, <1>5, <1>7 DEF BorrowInv

\* An assignment through a reference keeps the recorded borrows those of the references in use.
LEMMA AssignThroughBorrows ==
  ASSUME Agree, BorrowNow, NEW q \in RefName, NEW src \in Name \cup {NoName},
         AssignThrough(q, src), gap' # "missed"
  PROVE  BorrowNow'
<1>1. PICK i, r, c, v, m :
        /\ Meant(q, i) /\ Type(q) = "refmut" /\ SimpleFacts(c, r)
        /\ src = NoName => c = checker /\ v = Len(machine.home) + 1
        /\ v \in (1..Len(machine.home) + 1) \cup {Garbage}
        /\ machine.running =>
             /\ machine.refs[q].slot \in 1..Len(machine.slots)
             /\ m = store(current, machine.refs[q].slot, v)
             /\ SameButRefs(m, machine') /\ machine'.refs[q].sees = v
             /\ \A p \in RefName : p # q => machine'.refs[p] = m.refs[p]
        /\ ~machine.running => machine' = current
  BY AssignThroughIs
<1>2. c = checker
  BY <1>1, AssignThroughIs
<1>3. SameButRead(machine, current) /\ MachineInv(current) /\ blocks \in Seq(Blocks) /\ MachineInv(machine)
  BY AssignThroughIs, AgreeIs
<1>4. i \in 1..Len(blocks) /\ Has(blocks, i, q) /\ TypeAt(blocks, i, q) = "refmut" /\ q \notin finished
  BY <1>1 DEF Meant
<1>5. ASSUME NEW k \in 1..Len(blocks), NEW p \in RefName, Has(blocks, k, p), p \notin finished
      PROVE  SeenStays(machine, blocks, machine', blocks, k, p)
  <2>1. CASE ~machine.running
    BY <1>1, <1>3, <2>1 DEF SeenStays, SameButRead, Exec
  <2>2. CASE machine.running
    <3> DEFINE s == machine.refs[q].slot
    <3>1. Exec(machine, blocks, i) /\ Exec(machine, blocks, k)
      BY <1>3, <1>4, <1>5, <2>2, RunsIs DEF Agree, Base
    <3>2. s = SlotAt(blocks, i, q) /\ SlotAt(blocks, k, p) \in 1..Len(machine.slots)
      BY <1>4, <1>5, <3>1 DEF Agree, Base, RefSlots
    <3>3. /\ current.slots = machine.slots /\ current.home = machine.home /\ current.running
          /\ current \in Machines /\ current.refs = machine.refs
      BY <1>3, <2>2 DEF SameButRead
    <3>4. v \in (1..Len(current.home) + 1) \cup {Nothing, Garbage} /\ s \in 1..Len(current.slots)
      BY <1>1, <2>2, <3>3
    <3>5. StoreStep(current, m, s, v)
      BY <1>1, <2>2, <3>3, <3>4, StoreSteps
    <3>6. \A l \in 1..Len(machine.slots) : m.slots[l].val = IF l = s THEN v ELSE machine.slots[l].val
      BY <3>3, <3>5 DEF StoreStep
    <3>7. machine'.slots = m.slots /\ m.refs = machine.refs
      BY <1>1, <2>2, <3>3, <3>5 DEF SameButRefs, StoreStep, SameButMemory
    <3>8. CASE p = q
      <4>1. k = i
        BY <1>4, <1>5, <3>8 DEF Agree, Base, TracksInv
      <4> QED BY <1>1, <2>2, <3>1, <3>2, <3>6, <3>7, <3>8, <4>1 DEF SeenStays
    <3>9. CASE p # q
      <4>1. SlotAt(blocks, k, p) # s
        <5>1. p \in RefName \ finished /\ q \in RefName \ finished
          BY <1>4, <1>5
        <5> QED BY <1>3, <1>4, <1>5, <3>2, <3>9, <5>1, WriterAlone DEF BorrowNow
      <4>2. machine'.refs[p] = machine.refs[p]
        BY <1>1, <2>2, <3>7, <3>9
      <4>3. machine'.slots[SlotAt(blocks, k, p)].val = machine.slots[SlotAt(blocks, k, p)].val
        BY <3>2, <3>6, <3>7, <4>1
      <4> QED BY <3>1, <4>2, <4>3 DEF SeenStays
    <3> QED BY <3>8, <3>9
  <2> QED BY <2>1, <2>2
<1> QED BY <1>1, <1>2, <1>5, SameInfo, SimpleKept

-----------------------------------------------------------------------------
(* Returns, ifs and the end of the function. *)

\* A return keeps the recorded borrows those of the references in use.
LEMMA ReturnBorrows ==
  ASSUME Agree, BorrowNow, NEW x \in Name \cup {NoName}, Return(x)
  PROVE  BorrowNow'
<1> DEFINE m2 == machine'
           bs2 == blocks'
<1>1. PICK valued, given, cleaned, flag : ReturnFacts(x, valued, given, cleaned, flag)
  BY ReturnIs
<1>2. checker' = checker /\ Left(blocks, bs2) /\ finished' = finished
  BY ReturnIs
<1>3. /\ SameButRead(machine, valued) /\ SameButHome(valued, given) /\ MachineInv(given)
      /\ Cleaned(code', given, flag) \in SUBSET (1..Len(given.slots))
      /\ cleaned = callDrop(given, Cleaned(code', given, flag), Plain(code', given))
      /\ SameButControl(cleaned, m2) /\ ~m2.running
      /\ m2.returned <=> machine.returned \/ machine.running
  BY <1>1 DEF ReturnFacts
<1>4. cleaned.slots = given.slots /\ cleaned.refs = given.refs
  BY <1>3, DropStays
<1>5. m2.slots = machine.slots /\ m2.refs = machine.refs
  BY <1>3, <1>4 DEF SameButRead, SameButHome, SameButControl
<1>6. /\ PathsInv(machine, blocks) /\ blocks \in Seq(Blocks) /\ Len(blocks) \in Nat
      /\ Borrowing(checker, blocks, finished, machine)
  BY AgreeIs DEF PathsAgree, BorrowNow
<1> HIDE DEF m2, bs2
<1>7. SameBlocks(blocks, bs2) /\ Len(bs2) = Len(blocks)
      /\ \A i \in 1..Len(blocks) : SameBlock(blocks[i], bs2[i]) /\ bs2[i].names = blocks[i].names
  BY <1>2 DEF Left, SameBlocks
<1>8. \A i \in 1..Len(blocks) : Exec(m2, bs2, i) => Exec(machine, blocks, i)
  BY <1>3, <1>6, <1>7, ControlStopped
<1>9. \A i \in 1..Len(blocks) : \A q : SeenStays(machine, blocks, m2, bs2, i, q)
  BY <1>5, <1>8, SameSeen
<1>10. \A i \in 1..Len(blocks) : \A n : InfoStays(checker, blocks, finished, checker, bs2, i, n)
  BY <1>7, SamePlaces DEF InfoStays
<1>11. Prefix(blocks, bs2, Len(blocks))
  BY <1>7, SamePrefix
<1>12. Borrowing(checker, bs2, finished, m2)
  BY <1>6, <1>7, <1>9, <1>10, <1>11, BorrowingKept
<1> QED BY <1>2, <1>12 DEF BorrowNow, m2, bs2

\* Without a block there is no reference.
LEMMA NothingBorrowed ==
  ASSUME NEW c, NEW fin, NEW m
  PROVE  Borrowing(c, <<>>, fin, m)
<1>1. 1..Len(<<>>) = {}
  OBVIOUS
<1> QED BY <1>1 DEF Borrowing, RefsInv, BorrowsInv

\* The end of the function keeps the recorded borrows those of the references in use.
LEMMA EndFunctionBorrows ==
  ASSUME EndFunction
  PROVE  BorrowNow'
<1>1. blocks' = <<>>
  BY DEF EndFunction
<1> QED BY <1>1, NothingBorrowed DEF BorrowNow

\* The start of an if keeps the recorded borrows those of the references in use.
LEMMA IfBorrows ==
  ASSUME Agree, BorrowNow, If
  PROVE  BorrowNow'
<1> DEFINE m2 == machine'
           bs2 == blocks'
           c2 == checker'
<1>1. PICK b : IfFacts(b)
  BY IfIs
<1>2. /\ c2 = Sema!pushOwnershipScope(checker) /\ SameButRead(machine, current)
      /\ SameButControl(current, m2) /\ (m2.returned <=> machine.returned)
      /\ finished' = finished /\ Len(blocks) > 0
  BY IfIs
<1>3. /\ DOMAIN b.names = {} /\ (b.reached <=> machine.running) /\ Pushed(blocks, bs2, b)
      /\ m2.running <=> machine.running /\ b.taken
  BY <1>1 DEF IfFacts
<1>4. m2.slots = machine.slots /\ m2.refs = machine.refs
  BY <1>2 DEF SameButRead, SameButControl
<1>5. /\ PathsInv(machine, blocks) /\ blocks \in Seq(Blocks) /\ Len(blocks) \in Nat
      /\ Borrowing(checker, blocks, finished, machine) /\ ShapeInv(checker, blocks)
      /\ IsChecker(checker)
  BY AgreeIs DEF ScopesAgree, PathsAgree, BorrowNow
<1> HIDE DEF m2, bs2, c2
<1>6. \A i \in 1..Len(blocks) : Exec(m2, bs2, i) <=> Exec(machine, blocks, i)
  BY <1>2, <1>3, <1>5, ControlPushed
<1>7. \A i \in 1..Len(blocks) : i \in 1..Len(bs2) /\ bs2[i] = blocks[i]
  BY <1>3, <1>5 DEF Pushed
<1>8. \A i \in 1..Len(blocks) : \A n : Has(blocks, i, n) => InfoStays(checker, blocks, finished, c2, bs2, i, n)
  <2>1. \A k \in 1..Len(checker.scopes) : c2.scopes[k] = checker.scopes[k]
    BY <1>2, <1>5, PushScopeIs
  <2> QED BY <1>5, <1>7, <2>1, Place DEF InfoStays, InfoAt
<1>9. \A i \in 1..Len(blocks) : \A q : SeenStays(machine, blocks, m2, bs2, i, q)
  BY <1>4, <1>6, SameSeen
<1>10. Prefix(blocks, bs2, Len(blocks))
  BY <1>7 DEF Prefix
<1>11. \A i \in 1..Len(bs2) : \A n : Has(bs2, i, n) => i \in 1..Len(blocks)
  <2>1. Len(bs2) = Len(blocks) + 1 /\ bs2[Len(blocks) + 1] = b
    BY <1>3 DEF Pushed
  <2>2. \A n : ~Has(bs2, Len(blocks) + 1, n)
    BY <1>3, <2>1 DEF Has
  <2>3. \A i \in 1..Len(bs2) : i \in 1..Len(blocks) \/ i = Len(blocks) + 1
    BY <1>5, <2>1
  <2> QED BY <2>2, <2>3
<1>12. Borrowing(c2, bs2, finished, m2)
  BY <1>5, <1>8, <1>9, <1>10, <1>11, BorrowingKept
<1> QED BY <1>2, <1>12 DEF BorrowNow, m2, bs2, c2

\* No reference has the slot that is made next.
LEMMA FreshUnlent ==
  ASSUME NEW m, m \in Machines, NEW bs, RefSlots(m, bs), NEW fin
  PROVE  NoBorrowers(bs, fin, Len(m.slots) + 1)
<1>1. Len(m.slots) \in Nat
  BY MachineIs
<1>2. ASSUME NEW t, NEW r \in Borrowers(bs, fin, Len(m.slots) + 1, t)
      PROVE  FALSE
  <2>1. PICK i \in 1..Len(bs) : r \in RefName \ fin /\ Has(bs, i, r) /\ SlotAt(bs, i, r) = Len(m.slots) + 1
    BY <1>2, BorrowerIs
  <2>2. SlotAt(bs, i, r) \in 1..Len(m.slots)
    BY <2>1 DEF RefSlots
  <2> QED BY <1>1, <2>1, <2>2
<1> QED BY <1>2 DEF NoBorrowers

\* The head of an if let on x writes to the slots of x and of the binding.
LEMMA LetMemory ==
  ASSUME Agree, NEW v \in Name, NEW x \in Name, IfLet(v, x), NEW i, Meant(x, i), Type(x) = "optional"
  PROVE  /\ machine'.refs = machine.refs
         /\ \A s \in 1..Len(machine.slots) : s # Slot(x) => machine'.slots[s].val = machine.slots[s].val
<1> DEFINE new == Len(machine.slots) + 1
           val == machine.slots[Slot(x)].val
           taken == val \notin {Nothing, Garbage}
<1>1. PICK loaded, bound : TakeFacts(x, taken, loaded, bound)
  BY IfLetMachine
<1>2. /\ SameButRead(machine, loaded) /\ Grown(loaded, bound, "struct")
      /\ machine'.refs = machine.refs
  BY <1>1 DEF TakeFacts
<1>3. machine \in Machines /\ Len(machine.slots) \in Nat /\ Slot(x) \in 1..Len(machine.slots)
  BY AgreeIs, MachineIs DEF Meant
<1>4. /\ Len(bound.slots) = new /\ \A s \in 1..Len(machine.slots) : bound.slots[s] = machine.slots[s]
      /\ bound \in Machines /\ bound.home = machine.home /\ (bound.running <=> machine.running)
  BY <1>2 DEF SameButRead, Grown, MachineInv, SameControl
<1>5. ASSUME NEW s \in 1..Len(machine.slots), s # Slot(x)
      PROVE  machine'.slots[s].val = machine.slots[s].val
  <2>1. s # new /\ s \in 1..Len(bound.slots)
    BY <1>3, <1>4
  <2>2. CASE machine.running /\ taken
    <3> DEFINE stored == store(bound, new, val)
               m2 == Clear(stored, Slot(x))
    <3>1. val \in DOMAIN machine.home /\ MachineInv(stored) /\ machine' = m2
      BY <1>1, <2>2 DEF TakeFacts
    <3>2. val \in (1..Len(bound.home) + 1) \cup {Nothing, Garbage} /\ new \in 1..Len(bound.slots)
      BY <1>3, <1>4, <3>1, MachineIs
    <3> HIDE DEF val, taken
    <3>3. StoreStep(bound, stored, new, val)
      BY <1>4, <2>2, <3>2, StoreSteps
    <3>4. stored.slots[s].val = machine.slots[s].val /\ Len(stored.slots) = Len(bound.slots)
      BY <1>4, <1>5, <2>1, <3>3 DEF StoreStep
    <3>5. stored \in Machines /\ Slot(x) \in 1..Len(stored.slots)
      BY <1>3, <1>4, <3>1, <3>4 DEF MachineInv
    <3>6. ClearStep(stored, m2, Slot(x))
      BY <3>5, ClearSteps
    <3>7. m2.slots[s].val = stored.slots[s].val
      BY <1>5, <2>1, <3>4, <3>6 DEF ClearStep
    <3> QED BY <3>1, <3>4, <3>7
  <2>3. CASE ~(machine.running /\ taken)
    <3> DEFINE m2 == Run(bound, FALSE)
    <3>1. machine' = m2
      BY <1>1, <2>3 DEF TakeFacts
    <3>2. SameButControl(bound, m2)
      BY <1>4, RunIs
    <3> HIDE DEF m2
    <3> QED BY <1>4, <1>5, <3>1, <3>2 DEF SameButControl
  <2> QED BY <2>2, <2>3
<1> QED BY <1>2, <1>5

\* The start of an if let keeps the recorded borrows those of the references in use.
LEMMA IfLetBorrows ==
  ASSUME Agree, BorrowNow, NEW v \in Name, NEW x \in Name, IfLet(v, x)
  PROVE  BorrowNow'
<1> DEFINE m2 == machine'
           bs2 == blocks'
           c2 == checker'
           new == Len(machine.slots) + 1
<1>1. PICK i, e, b : IfLetFacts(v, x, i, e, b)
  BY IfLetHead
<1>2. finished' = finished /\ Len(blocks) > 0
  BY IfLetHead
<1>3. /\ Meant(x, i) /\ Type(x) = "optional"
      /\ Info(checker, x).borrowCount = 0 /\ ~Info(checker, x).hasMutableBorrow
      /\ SetAt(checker, e, x, [Info(checker, x) EXCEPT !.state = "Moved"])
      /\ \A k \in 1..Len(checker.scopes) : c2.scopes[k] = e.scopes[k]
      /\ InfoAt(c2, b, v) = Sema!OwnershipInfo(FALSE, TRUE)
      /\ (b.reached <=> machine.running) /\ DOMAIN b.names = {v} /\ b.names[v] = Entry("struct", new)
      /\ (b.taken <=> machine.slots[Slot(x)].val \notin {Nothing, Garbage})
      /\ Pushed(blocks, bs2, b)
  BY <1>1 DEF IfLetFacts
<1>4. /\ m2.refs = machine.refs
      /\ \A s \in 1..Len(machine.slots) : s # Slot(x) => m2.slots[s].val = machine.slots[s].val
  BY <1>3, LetMemory
<1>5. (m2.running <=> machine.running /\ b.taken) /\ (m2.returned <=> machine.returned)
  BY <1>3, IfLetMachine DEF TakeFacts
<1>6. /\ PathsInv(machine, blocks) /\ blocks \in Seq(Blocks) /\ Len(blocks) \in Nat
      /\ Borrowing(checker, blocks, finished, machine) /\ ShapeInv(checker, blocks)
      /\ machine \in Machines /\ RefSlots(machine, blocks)
  BY AgreeIs DEF ScopesAgree, PathsAgree, SlotsAgree, BorrowNow
<1>7. /\ \A k \in 1..Len(blocks) : \A n : Has(blocks, k, n) => InfoStays(checker, blocks, finished, e, blocks, k, n)
      /\ NoBorrowers(blocks, finished, Slot(x))
  BY <1>3, MovedStays
<1> HIDE DEF m2, bs2, c2
<1>8. \A k \in 1..Len(blocks) : Exec(m2, bs2, k) <=> Exec(machine, blocks, k)
  BY <1>2, <1>3, <1>5, <1>6, ControlPushed
<1>9. \A k \in 1..Len(blocks) : k \in 1..Len(bs2) /\ bs2[k] = blocks[k]
  BY <1>3, <1>6 DEF Pushed
<1>10. \A k \in 1..Len(blocks) : \A n : Has(blocks, k, n) => InfoStays(checker, blocks, finished, c2, bs2, k, n)
  BY <1>3, <1>6, <1>7, <1>9, Place DEF InfoStays, InfoAt
<1>11. ASSUME NEW k \in 1..Len(blocks), NEW q \in RefName, Has(blocks, k, q), q \notin finished
       PROVE  SeenStays(machine, blocks, m2, bs2, k, q)
  <2>1. SlotAt(blocks, k, q) # Slot(x) /\ SlotAt(blocks, k, q) \in 1..Len(machine.slots)
    BY <1>6, <1>7, <1>11, NotLent DEF RefSlots
  <2> QED BY <1>4, <1>8, <2>1 DEF SeenStays
<1>12. Prefix(blocks, bs2, Len(blocks))
  BY <1>9 DEF Prefix
<1>13. ASSUME NEW k \in 1..Len(bs2), NEW n, Has(bs2, k, n)
       PROVE  k \in 1..Len(blocks) \/ NewStays(blocks, finished, c2, bs2, k, n)
  <2>1. Len(bs2) = Len(blocks) + 1 /\ bs2[Len(blocks) + 1] = b
    BY <1>3 DEF Pushed
  <2>2. CASE k \notin 1..Len(blocks)
    <3>1. k = Len(blocks) + 1
      BY <1>6, <2>1, <2>2
    <3>2. n = v /\ SlotAt(bs2, k, n) = new
      BY <1>3, <1>13, <2>1, <3>1 DEF Has, SlotAt, Entry
    <3>3. InfoAt(c2, bs2[k], n).borrowCount \in Nat
      <4>1. Sema!OwnershipInfo(FALSE, TRUE).borrowCount = 0
        BY DEF Sema!OwnershipInfo
      <4>2. InfoAt(c2, bs2[k], n) = InfoAt(c2, b, v)
        BY <2>1, <3>1, <3>2
      <4>3. InfoAt(c2, b, v) = Sema!OwnershipInfo(FALSE, TRUE)
        BY <1>3
      <4>4. InfoAt(c2, bs2[k], n).borrowCount = 0
        BY <4>1, <4>2, <4>3
      <4> QED BY <4>4
    <3> QED BY <1>6, <3>2, <3>3, FreshUnlent DEF NewStays
  <2> QED BY <2>2
<1>14. Borrowing(c2, bs2, finished, m2)
  BY <1>6, <1>10, <1>11, <1>12, <1>13, BorrowingKept
<1> QED BY <1>2, <1>14 DEF BorrowNow, m2, bs2, c2

-----------------------------------------------------------------------------
(* Declarations. *)

\* The records of the blocks when n is declared in the innermost.
LEMMA DeclaredInfo ==
  ASSUME NEW c, NEW bs, ShapeInv(c, bs), Len(bs) > 0, NEW e, SameTable(c, e),
         NEW n \in Names, ~Has(bs, Len(bs), n), NEW info, Records(n, info),
         NEW d, d = Sema!trackVariable(e, n, info), NEW en, NEW bs2, Declared(bs, bs2, n, en),
         n # bs[Len(bs)].binding
  PROVE  /\ \A i \in 1..Len(bs) : \A k : Has(bs, i, k) => InfoAt(d, bs2[i], k) = InfoAt(e, bs[i], k)
         /\ InfoAt(d, bs2[Len(bs)], n) = info
<1>1. /\ IsChecker(e) /\ Len(e.scopes) = Len(c.scopes) /\ Len(c.scopes) > 0
      /\ Len(bs) \in 1..Len(bs) /\ bs[Len(bs)].scope = Len(c.scopes)
      /\ DOMAIN c.scopes[bs[Len(bs)].scope] = DOMAIN bs[Len(bs)].names \ {bs[Len(bs)].binding}
      /\ \A k \in 1..Len(c.scopes) : DOMAIN e.scopes[k] = DOMAIN c.scopes[k]
  <2>1. bs \in Seq(Blocks)
    BY DEF ShapeInv
  <2>2. Len(bs) \in 1..Len(bs)
    BY <2>1
  <2>3. bs[Len(bs)].scope <= Len(c.scopes) /\ 2 <= Floor(bs[Len(bs)]) /\ Floor(bs[Len(bs)]) <= bs[Len(bs)].scope
        /\ bs[Len(bs)].scope \in Nat /\ Len(c.scopes) \in Nat /\ Floor(bs[Len(bs)]) \in Nat
    BY <2>2, Bounds
  <2>4. Len(c.scopes) > 0
    BY <2>3
  <2> QED BY <2>2, <2>4 DEF ShapeInv, SameTable
<1>2. /\ d.scopes[Len(e.scopes)][n] = info
      /\ \A k \in 1..Len(e.scopes) : \A x \in DOMAIN e.scopes[k] :
           k # Len(e.scopes) \/ x # n => d.scopes[k][x] = e.scopes[k][x]
  BY <1>1, TrackIs, SMTT(60)
<1>3. \A i \in 1..Len(bs) : SameBlock(bs[i], bs2[i])
  BY DEF Declared
<1>4. \A i \in 1..Len(bs) : \A k : ScopeAt(bs2[i], k) = ScopeAt(bs[i], k)
  BY <1>3, SamePlaces
<1>5. ASSUME NEW i \in 1..Len(bs), NEW k, Has(bs, i, k)
      PROVE  InfoAt(d, bs2[i], k) = InfoAt(e, bs[i], k)
  <2> DEFINE p == ScopeAt(bs[i], k)
  <2>1. k \in Names /\ p \in 1..Len(c.scopes) /\ k \in DOMAIN c.scopes[p]
    BY <1>5, Place
  <2>2. n \notin DOMAIN c.scopes[Len(c.scopes)]
    BY <1>1 DEF Has
  <2>3. p # Len(c.scopes) \/ k # n
    BY <2>1, <2>2
  <2>4. p \in 1..Len(e.scopes) /\ k \in DOMAIN e.scopes[p] /\ (p # Len(e.scopes) \/ k # n)
    BY <1>1, <2>1, <2>3
  <2>5. d.scopes[p][k] = e.scopes[p][k]
    BY <1>2, <2>4
  <2>6. ScopeAt(bs2[i], k) = p
    BY <1>4
  <2> QED BY <2>5, <2>6 DEF InfoAt
<1>6. InfoAt(d, bs2[Len(bs)], n) = info
  <2>1. ScopeAt(bs[Len(bs)], n) = Len(e.scopes)
    BY <1>1 DEF ScopeAt
  <2> QED BY <1>1, <1>2, <1>4, <2>1 DEF InfoAt
<1> QED BY <1>5, <1>6

\* Names other than n are where they were.
LEMMA DeclaredNames ==
  ASSUME NEW bs, NEW n \in Names, NEW en, NEW bs2, Declared(bs, bs2, n, en), bs \in Seq(Blocks)
  PROVE  /\ Len(bs2) = Len(bs) /\ Len(bs) \in Nat
         /\ \A i \in 1..Len(bs), k \in Names : k # n => (Has(bs2, i, k) <=> Has(bs, i, k))
         /\ \A i \in 1..Len(bs), k \in Names : i # Len(bs) => (Has(bs2, i, k) <=> Has(bs, i, k))
         /\ \A i \in 1..Len(bs), k \in Names : Has(bs, i, k) =>
              /\ Has(bs2, i, k) /\ bs2[i].names[k] = bs[i].names[k]
              /\ SlotAt(bs2, i, k) = SlotAt(bs, i, k) /\ TypeAt(bs2, i, k) = TypeAt(bs, i, k)
BY DEF Declared, SlotAt, TypeAt

\* What is lent stays lent, unless n takes its name.
LEMMA LentDeclared ==
  ASSUME NEW bs, NEW n \in Names, NEW en, NEW bs2, Declared(bs, bs2, n, en), bs \in Seq(Blocks),
         NEW i \in 1..Len(bs), NEW r \in Names, Has(bs, i, r), NEW x, Lent(bs, i, r, x),
         i # Len(bs) \/ x # n
  PROVE  Lent(bs2, i, r, x)
<1>1. x \in Name /\ x \in Names
  BY DEF Lent, Names
<1>2. PICK j \in 1..i : /\ Has(bs, j, x) /\ SlotAt(bs, j, x) = SlotAt(bs, i, r)
                        /\ \A k \in j + 1..i : ~Has(bs, k, x)
  BY DEF Lent
<1>3. Len(bs) \in Nat /\ j \in 1..Len(bs) /\ \A k \in j + 1..i : k \in 1..Len(bs)
  BY DeclaredNames, <1>2
<1>4. Has(bs2, j, x) /\ SlotAt(bs2, j, x) = SlotAt(bs2, i, r)
  BY <1>1, <1>2, <1>3, DeclaredNames
<1>5. \A k \in j + 1..i : ~Has(bs2, k, x)
  <2>1. CASE x # n
    BY <1>1, <1>2, <1>3, <2>1, DeclaredNames
  <2>2. CASE i # Len(bs)
    <3>1. \A k \in j + 1..i : k # Len(bs)
      BY <1>3, <2>2
    <3> QED BY <1>1, <1>2, <1>3, <3>1, DeclaredNames
  <2> QED BY <2>1, <2>2
<1> QED BY <1>1, <1>2, <1>4, <1>5 DEF Lent

\* A name that the innermost block does not declare is not its binding.
LEMMA NotBinding ==
  ASSUME NEW bs, bs \in Seq(Blocks), Len(bs) > 0, NEW n \in Names, ~Has(bs, Len(bs), n)
  PROVE  n # bs[Len(bs)].binding
<1>1. bs[Len(bs)] \in Blocks
  BY DEF Names
<1>2. bs[Len(bs)].kind = "iflet" => bs[Len(bs)].binding \in DOMAIN bs[Len(bs)].names
  BY <1>1 DEF Blocks
<1>3. bs[Len(bs)].kind # "iflet" => bs[Len(bs)].binding = NoName
  BY <1>1 DEF Blocks
<1>4. n # NoName
  BY NamesAssumption DEF Names
<1> QED BY <1>2, <1>3, <1>4 DEF Has

\* No reference in use of the innermost block borrows what n means so far.
Untaken(c, bs, fin, n) ==
  \A r \in RefName \ fin : Has(bs, Len(bs), r) => InfoAt(c, bs[Len(bs)], r).borrowsName # n

\* The variable n is declared, in a slot without borrowers.
LEMMA DeclaredBorrows ==
  ASSUME NEW c, NEW bs, ShapeInv(c, bs), Len(bs) > 0, NEW e, SameTable(c, e),
         NEW fin, NEW m, Borrowing(e, bs, fin, m),
         NEW n \in Name, Untaken(e, bs, fin, n), ~Has(bs, Len(bs), n), NEW info, Records(n, info),
         NEW d, d = Sema!trackVariable(e, n, info),
         NEW en, NoBorrowers(bs, fin, en.slot), NEW bs2, Declared(bs, bs2, n, en), NEW m2,
         \A i \in 1..Len(bs), r \in RefName : Has(bs, i, r) /\ r \notin fin => SeenStays(m, bs, m2, bs2, i, r)
  PROVE  Borrowing(d, bs2, fin, m2)
<1>1. /\ RefsInv(e, bs, fin, m) /\ BorrowsInv(e, bs, fin) /\ bs \in Seq(Blocks) /\ n \in Names
      /\ Name \cap RefName = {}
  BY NamesAssumption DEF Borrowing, ShapeInv, Names
<1>2. n # bs[Len(bs)].binding
  BY <1>1, NotBinding
<1>3. /\ \A i \in 1..Len(bs) : \A k : Has(bs, i, k) => InfoAt(d, bs2[i], k) = InfoAt(e, bs[i], k)
      /\ InfoAt(d, bs2[Len(bs)], n) = info
  BY <1>1, <1>2, DeclaredInfo
<1>4. /\ Len(bs2) = Len(bs) /\ Len(bs) \in Nat
      /\ \A i \in 1..Len(bs), k \in Names : Has(bs, i, k) =>
           /\ Has(bs2, i, k) /\ bs2[i].names[k] = bs[i].names[k]
           /\ SlotAt(bs2, i, k) = SlotAt(bs, i, k) /\ TypeAt(bs2, i, k) = TypeAt(bs, i, k)
      /\ \A i \in 1..Len(bs), k \in Names : k # n => (Has(bs2, i, k) <=> Has(bs, i, k))
      /\ \A i \in 1..Len(bs), k \in Names : i # Len(bs) => (Has(bs2, i, k) <=> Has(bs, i, k))
  BY <1>1, DeclaredNames
<1>5. SlotAt(bs2, Len(bs), n) = en.slot
  BY DEF Declared, SlotAt
<1>6. \A r \in RefName : r \in Names /\ r # n
  BY <1>1 DEF Names
<1>7. SameRefs(bs, bs2)
  BY <1>4, <1>6 DEF SameRefs
<1>8. \A s, t : Borrowers(bs2, fin, s, t) = Borrowers(bs, fin, s, t)
  BY <1>7, SameBorrowers
<1>9. RefsInv(d, bs2, fin, m2)
  <2>1. ASSUME NEW i \in 1..Len(bs2), NEW r \in RefName, Has(bs2, i, r)
        PROVE  IF r \in fin THEN /\ i \in 1..Len(bs) /\ Has(bs, i, r)
                                 /\ InfoAt(d, bs2[i], r) = InfoAt(e, bs[i], r)
               ELSE RefStays(e, bs, m, d, bs2, m2, i, r)
    <3>1. /\ i \in 1..Len(bs) /\ r \in Names /\ Has(bs, i, r) /\ bs2[i].names[r] = bs[i].names[r]
          /\ InfoAt(d, bs2[i], r) = InfoAt(e, bs[i], r)
      BY <1>3, <1>4, <1>6, <2>1
    <3>2. CASE r \notin fin
      <4> DEFINE x == InfoAt(e, bs[i], r).borrowsName
      <4>1. i # Len(bs) \/ x # n
        BY <3>1, <3>2 DEF Untaken
      <4>2. Lent(bs, i, r, x) => Lent(bs2, i, r, x)
        <5> SUFFICES ASSUME Lent(bs, i, r, x)
                     PROVE  Lent(bs2, i, r, x)
          OBVIOUS
        <5> HIDE DEF x
        <5> QED BY <1>1, <3>1, <4>1, LentDeclared
      <4>3. SeenStays(m, bs, m2, bs2, i, r)
        BY <3>1, <3>2
      <4> QED BY <3>1, <3>2, <4>2, <4>3 DEF SeenStays, RefStays
    <3> QED BY <3>1, <3>2
  <2> QED BY <1>1, <2>1, RefsKept
<1>10. BorrowsInv(d, bs2, fin)
  <2>1. ASSUME NEW j \in 1..Len(bs2), NEW x \in Name, Has(bs2, j, x)
        PROVE  \/ /\ InfoAt(d, bs2[j], x).borrowCount \in Nat
                  /\ NoBorrowers(bs2, fin, SlotAt(bs2, j, x))
               \/ /\ j \in 1..Len(bs) /\ Has(bs, j, x) /\ SlotAt(bs2, j, x) = SlotAt(bs, j, x)
                  /\ InfoAt(d, bs2[j], x) = InfoAt(e, bs[j], x)
                  /\ \A t : Borrowers(bs2, fin, SlotAt(bs, j, x), t) = Borrowers(bs, fin, SlotAt(bs, j, x), t)
    <3>0. x \in Names /\ j \in 1..Len(bs)
      BY <1>4, <2>1 DEF Names
    <3>1. CASE Has(bs, j, x)
      BY <1>3, <1>4, <1>8, <3>0, <3>1
    <3>2. CASE ~Has(bs, j, x)
      <4>1. j = Len(bs) /\ x = n
        BY <1>4, <2>1, <3>0, <3>2
      <4>2. NoBorrowers(bs2, fin, SlotAt(bs2, j, x))
        BY <1>5, <1>8, <4>1 DEF NoBorrowers
      <4>3. info.borrowCount \in Nat
        BY DEF Records, Infos
      <4> QED BY <1>3, <4>1, <4>2, <4>3
    <3> QED BY <3>1, <3>2
  <2> QED BY <1>1, <2>1, BorrowsKept
<1> QED BY <1>9, <1>10 DEF Borrowing

\* The value of a declaration has been visited: its source, if any, is moved.
LEMMA VisitedBorrows ==
  ASSUME Agree, BorrowNow, NEW src \in Name \cup {NoName}, src # NoName => \E i : Meant(src, i),
         NEW e, e = Sema!visitValue(checker, src), e.ok, SameTable(checker, e)
  PROVE  /\ Borrowing(e, blocks, finished, machine)
         /\ \A i \in 1..Len(blocks), r \in RefName : Has(blocks, i, r) =>
              InfoAt(e, blocks[i], r) = InfoAt(checker, blocks[i], r)
<1>1. Borrowing(checker, blocks, finished, machine) /\ Len(blocks) \in Nat /\ IsChecker(checker)
      /\ Name \cap RefName = {}
  BY AgreeIs, NamesAssumption DEF BorrowNow
<1>2. \A i \in 1..Len(blocks) : \A n : Has(blocks, i, n) => InfoStays(checker, blocks, finished, e, blocks, i, n)
  <2>1. CASE src = NoName
    <3>1. e = checker
      BY <1>1, <2>1, VisitValueTyped
    <3> QED BY <3>1, SameInfo
  <2>2. CASE src # NoName
    <3>1. src \in Name
      BY <2>2
    <3>2. PICK i : Meant(src, i)
      BY <2>2
    <3>3. /\ Info(checker, src).borrowCount = 0 /\ ~Info(checker, src).hasMutableBorrow
          /\ SetAt(checker, e, src, [Info(checker, src) EXCEPT !.state = "Moved"])
      BY <3>1, <3>2, SourceMoved
    <3> QED BY <3>1, <3>2, <3>3, MovedStays
  <2> QED BY <2>1, <2>2
<1>3. Prefix(blocks, blocks, Len(blocks))
  BY SamePrefix
<1>4. \A i \in 1..Len(blocks), r \in RefName : Has(blocks, i, r) /\ r \notin finished =>
        SeenStays(machine, blocks, machine, blocks, i, r)
  BY DEF SeenStays
<1>5. Borrowing(e, blocks, finished, machine)
  BY <1>1, <1>2, <1>3, <1>4, BorrowingKept
<1>6. \A i \in 1..Len(blocks), r \in RefName : Has(blocks, i, r) =>
        InfoAt(e, blocks[i], r) = InfoAt(checker, blocks[i], r)
  BY <1>1, <1>2 DEF InfoStays
<1> QED BY <1>5, <1>6

\* The slots of m have in m2 the values that they have in m.
SameBelow(m, m2) == \A s \in 1..Len(m.slots) : m2.slots[s].val = m.slots[s].val

\* The slot of a variable that is declared is written, and no other.
LEMMA DeclaredMemory ==
  ASSUME NEW m, NEW valued, SameButRead(m, valued), NEW t, NEW bound, Grown(valued, bound, t),
         m \in Machines, NEW v, v \in (1..Len(m.home) + 1) \cup {Nothing, Garbage},
         NEW new, new = Len(m.slots) + 1
  PROVE  SameBelow(m, store(bound, new, v))
<1> SUFFICES ASSUME NEW s \in 1..Len(m.slots)
             PROVE  store(bound, new, v).slots[s].val = m.slots[s].val
  BY DEF SameBelow
<1>1. /\ Len(bound.slots) = Len(m.slots) + 1 /\ bound \in Machines /\ bound.home = m.home
      /\ bound.slots[s] = m.slots[s] /\ Len(m.slots) \in Nat
  BY MachineIs DEF SameButRead, Grown, MachineInv
<1>2. s # new /\ s \in 1..Len(bound.slots) /\ new \in 1..Len(bound.slots)
  BY <1>1
<1>3. CASE bound.running
  <2>1. StoreStep(bound, store(bound, new, v), new, v)
    BY <1>1, <1>2, <1>3, StoreSteps
  <2> QED BY <1>1, <1>2, <2>1 DEF StoreStep
<1>4. CASE ~bound.running
  BY <1>1, <1>4, NoStore
<1> QED BY <1>3, <1>4

\* A declaration keeps the recorded borrows those of the references in use.
LEMMA DeclareBorrows ==
  ASSUME Agree, BorrowNow, NEW n \in Name, Declares(n), gap' \notin {"missed", "misdirected"}
  PROVE  BorrowNow'
<1> DEFINE new == Len(machine.slots) + 1
           m2 == machine'
           bs2 == blocks'
           info == Sema!OwnershipInfo(TRUE, TRUE)
<1>1. PICK t, v, src, optional, struct, moves, e, d, valued, bound, r :
        DeclFacts(n, t, v, src, optional, struct, moves, e, d, valued, bound, r)
  BY DeclStep
<1>2. /\ DeclareWith(n, t, v, src, optional, struct, moves)
      /\ DeclareFacts(n, t, v, src, e, d, valued, bound, r)
      /\ SameControl(machine, m2) /\ m2.refs = machine.refs
  BY <1>1 DEF DeclFacts
<1>3. /\ src \in Name \cup {NoName}
      /\ v \in (1..Len(machine.home) + 1) \cup {Nothing, Garbage}
      /\ src # NoName => \E i : Meant(src, i)
  BY <1>2 DEF DeclareWith
<1>4. ~TakesBorrow(n)
  <2>1. gap' = IF (src # NoName /\ ~moves) \/ ForgetsMove(n, src) THEN "missed"
               ELSE IF TakesBorrow(n) /\ gap # "missed" THEN "misdirected"
               ELSE Leaks(Slot(n) # 0 \/ ~struct \/ InIfLet)
    BY <1>2 DEF DeclareWith
  <2> QED BY <2>1 DEF Leaks
<1>5. /\ e = Sema!visitValue(checker, src) /\ e.ok /\ SameTable(checker, e)
      /\ Records(n, info) /\ d = Sema!trackVariable(e, n, info)
      /\ IsChecker(d) /\ d.ok /\ r \in RefName \cup {NoName} /\ EndStatement(d, r)
      /\ checker' = Given(d, r) /\ finished' = finished \cup ({r} \ {NoName})
      /\ Len(blocks) > 0 /\ ~Has(blocks, Len(blocks), n)
      /\ Declared(blocks, bs2, n, Entry(t, new))
      /\ SameButRead(machine, valued) /\ Grown(valued, bound, t)
      /\ m2 = store(bound, new, v)
  BY <1>2 DEF DeclareFacts
<1>6. /\ ShapeInv(checker, blocks) /\ TracksInv(checker, blocks, hidden) /\ blocks \in Seq(Blocks)
      /\ Len(blocks) \in Nat /\ machine \in Machines /\ RefSlots(machine, blocks)
      /\ PathsInv(machine, blocks)
  BY AgreeIs DEF ScopesAgree, TableAgrees, PathsAgree, SlotsAgree
<1>7. /\ Borrowing(e, blocks, finished, machine)
      /\ \A i \in 1..Len(blocks), q \in RefName : Has(blocks, i, q) =>
           InfoAt(e, blocks[i], q) = InfoAt(checker, blocks[i], q)
  BY <1>3, <1>5, VisitedBorrows
<1>8. Untaken(e, blocks, finished, n)
  <2> SUFFICES ASSUME NEW q \in RefName, Has(blocks, Len(blocks), q)
               PROVE  InfoAt(e, blocks[Len(blocks)], q).borrowsName # n
    BY DEF Untaken
  <2>1. Len(blocks) \in 1..Len(blocks) /\ q \in Names
    BY <1>5, <1>6 DEF Names
  <2>2. ScopeAt(blocks[Len(blocks)], q) = Len(checker.scopes)
        /\ q \in DOMAIN checker.scopes[Len(checker.scopes)]
    <3>1. blocks[Len(blocks)].scope = Len(checker.scopes)
      BY <1>5, <1>6 DEF ShapeInv
    <3>2. q # blocks[Len(blocks)].binding
      <4>1. blocks[Len(blocks)].binding \in Name \cup {NoName}
        BY <1>6, <2>1 DEF Blocks
      <4> QED BY <4>1, NamesAssumption
    <3>3. ScopeAt(blocks[Len(blocks)], q) = Len(checker.scopes)
      BY <3>1, <3>2 DEF ScopeAt
    <3> QED BY <1>6, <2>1, <3>3, Place
  <2>3. checker.scopes[Len(checker.scopes)][q].borrowsName # n
    BY <1>4, <2>2 DEF TakesBorrow
  <2> QED BY <1>7, <2>1, <2>2, <2>3 DEF InfoAt
<1>9. NoBorrowers(blocks, finished, new)
  BY <1>6, FreshUnlent
<1>10. SameBlocks(blocks, bs2)
  BY <1>5 DEF Declared, SameBlocks
<1>11. \A i \in 1..Len(blocks) : Exec(m2, bs2, i) <=> Exec(machine, blocks, i)
  <2> HIDE DEF m2, bs2
  <2> QED BY <1>2, <1>6, <1>10, ControlKept
<1>17. SameBelow(machine, m2)
  <2>1. new = Len(machine.slots) + 1 /\ m2 = store(bound, new, v)
    BY <1>5
  <2> HIDE DEF new, m2
  <2>2. SameBelow(machine, store(bound, new, v))
    BY <1>3, <1>5, <1>6, <2>1, DeclaredMemory
  <2> QED BY <2>1, <2>2
<1>12. ASSUME NEW i \in 1..Len(blocks), NEW q \in RefName, Has(blocks, i, q), q \notin finished
       PROVE  SeenStays(machine, blocks, m2, bs2, i, q)
  <2>1. SlotAt(blocks, i, q) \in 1..Len(machine.slots)
    BY <1>6, <1>12 DEF RefSlots
  <2> DEFINE s == SlotAt(blocks, i, q)
  <2>2. m2.slots[s].val = machine.slots[s].val
    BY <1>17, <2>1 DEF SameBelow
  <2> QED BY <1>2, <1>11, <2>2 DEF SeenStays
<1>13. Borrowing(d, bs2, finished, m2)
  <2> DEFINE en == Entry(t, new)
  <2>1. NoBorrowers(blocks, finished, en.slot) /\ Declared(blocks, bs2, n, en)
    BY <1>5, <1>9 DEF Entry
  <2> HIDE DEF en, m2, bs2, info, new
  <2> QED BY <1>5, <1>6, <1>7, <1>8, <1>12, <2>1, DeclaredBorrows
<1>14. ShapeInv(d, bs2) /\ TracksInv(d, bs2, hidden \ {n}) /\ Len(bs2) > 0
  <2>1. ShapeInv(e, blocks) /\ TracksInv(e, blocks, hidden)
    BY <1>5, <1>6, ShapeKept
  <2>2. n \in Names /\ n \notin RefName
    BY NamesAssumption DEF Names
  <2>3. Len(bs2) > 0
    BY <1>5 DEF Declared
  <2> HIDE DEF bs2, info
  <2> QED BY <1>5, <2>1, <2>2, <2>3, ShapeDeclared
<1>15. r # NoName => /\ d.all[r] # 0 /\ Info(d, r).borrowsName # NoName
                     /\ r \in DOMAIN d.scopes[Len(d.scopes)]
  BY <1>5, EndIs
<1>16. Borrowing(Given(d, r), bs2, finished \cup ({r} \ {NoName}), m2)
  <2> HIDE DEF bs2, m2
  <2> QED BY <1>5, <1>13, <1>14, <1>15, GivenBorrows
<1> QED BY <1>5, <1>16 DEF BorrowNow

-----------------------------------------------------------------------------
(* A reference is bound. *)

\* A borrow that is taken on a variable that may be borrowed.
LEMMA MoreBorrowed ==
  ASSUME NEW info, info \in Infos, NEW S, IsFiniteSet(S), NEW M, BorrowInv(info, S, M),
         ~info.hasMutableBorrow, NEW r, r \notin S
  PROVE  /\ BorrowInv(Borrowed(info, FALSE), S \cup {r}, M)
         /\ info.borrowCount = 0 => S = {} /\ M = {} /\ BorrowInv(Borrowed(info, TRUE), S, M \cup {r})
<1>1. Cardinality(S) \in Nat /\ info.borrowCount \in Nat
  BY FS_CardinalityType DEF Infos
<1>2. M = {} /\ info.borrowCount >= Cardinality(S)
  BY DEF BorrowInv
<1>3. BorrowInv(Borrowed(info, FALSE), S \cup {r}, M)
  <2> DEFINE j == Borrowed(info, FALSE)
             k == Cardinality(S)
             remain == info.borrowCount
  <2>1. j.borrowCount = remain + 1 /\ j.state = "BorrowedImmutable"
    BY DEF Borrowed, Infos
  <2>2. Cardinality(S \cup {r}) = k + 1
    BY FS_AddElement
  <2>3. k \in Nat /\ remain \in Nat /\ remain >= k
    BY <1>1, <1>2
  <2> HIDE DEF j, k, remain
  <2>4. j.borrowCount >= Cardinality(S \cup {r})
    BY <2>1, <2>2, <2>3
  <2>5. BorrowInv(j, S \cup {r}, M)
    BY <1>2, <2>1, <2>4 DEF BorrowInv
  <2> QED BY <2>5 DEF j
<1>4. ASSUME info.borrowCount = 0
      PROVE  S = {} /\ M = {} /\ BorrowInv(Borrowed(info, TRUE), S, M \cup {r})
  <2> DEFINE j == Borrowed(info, TRUE)
  <2>1. j.borrowCount = 0 /\ j.hasMutableBorrow /\ j.state = "BorrowedMutable"
    BY <1>4 DEF Borrowed, Infos
  <2>2. S = {}
    <3>1. Cardinality(S) = 0
      BY <1>1, <1>2, <1>4
    <3> QED BY <3>1, FS_EmptySet
  <2>3. Cardinality({}) = 0
    BY FS_EmptySet
  <2> HIDE DEF j
  <2>4. BorrowInv(j, S, M \cup {r})
    BY <1>2, <2>1, <2>2, <2>3 DEF BorrowInv
  <2> QED BY <1>2, <2>2, <2>4 DEF j
<1> QED BY <1>3, <1>4

\* The borrowers of slot s of type t, when r borrows slot o and has type u.
WithBorrower(B, s, t, r, o, u) == B \cup (IF s = o /\ t = u THEN {r} ELSE {})

\* A reference that is declared adds itself to the borrowers of what it refers to.
LEMMA LentBorrowers ==
  ASSUME NEW bs, bs \in Seq(Blocks), Len(bs) > 0, NEW r \in RefName, \A i \in 1..Len(bs) : ~Has(bs, i, r),
         NEW o, NEW u, NEW bs2, Declared(bs, bs2, r, Entry(u, o)), NEW fin, NEW s, NEW t
  PROVE  Borrowers(bs2, fin \ {r}, s, t) = WithBorrower(Borrowers(bs, fin, s, t), s, t, r, o, u)
<1>1. /\ Len(bs2) = Len(bs) /\ Len(bs) \in 1..Len(bs)
      /\ \A i \in 1..Len(bs), k \in Names : Has(bs2, i, k) <=> Has(bs, i, k) \/ (i = Len(bs) /\ k = r)
      /\ \A i \in 1..Len(bs), k \in Names : Has(bs, i, k) =>
           SlotAt(bs2, i, k) = SlotAt(bs, i, k) /\ TypeAt(bs2, i, k) = TypeAt(bs, i, k)
      /\ SlotAt(bs2, Len(bs), r) = o /\ TypeAt(bs2, Len(bs), r) = u
  BY DEF Declared, SlotAt, TypeAt, Entry
<1>2. \A q \in RefName : q \in Names
  BY DEF Names
<1>3. ASSUME NEW q
      PROVE  q \in Borrowers(bs2, fin \ {r}, s, t) <=>
               q \in WithBorrower(Borrowers(bs, fin, s, t), s, t, r, o, u)
  <2>1. q \in WithBorrower(Borrowers(bs, fin, s, t), s, t, r, o, u) <=>
          q \in Borrowers(bs, fin, s, t) \/ (q = r /\ s = o /\ t = u)
    BY DEF WithBorrower
  <2>2. CASE q = r
    <3>1. r \notin Borrowers(bs, fin, s, t)
      BY BorrowerIs
    <3>2. r \in Borrowers(bs2, fin \ {r}, s, t) <=> s = o /\ t = u
      BY <1>1, <1>2, BorrowerIs
    <3> QED BY <2>1, <2>2, <3>1, <3>2
  <2>3. CASE q # r
    <3>1. q \in Borrowers(bs2, fin \ {r}, s, t) <=> q \in Borrowers(bs, fin, s, t)
      BY <1>1, <1>2, <2>3, BorrowerIs
    <3> QED BY <2>1, <2>3, <3>1
  <2> QED BY <2>2, <2>3
<1> QED BY <1>3

\* The type of a reference.
RefType(mutable) == IF mutable THEN "refmut" ELSE "ref"

\* The reference r to the variable x of block j is declared: m2 is the machine then.
BindsRef(c, bs, r, j, x, mutable, e, d, bs2, m, m2) ==
  /\ r \in RefName /\ \A i \in 1..Len(bs) : ~Has(bs, i, r)
  /\ x \in Name /\ j \in 1..Len(bs) /\ Has(bs, j, x) /\ IsInner(bs, j, x)
  /\ c.all[x] = ScopeAt(bs[j], x) /\ Info(c, x) = InfoAt(c, bs[j], x)
  /\ mutable \in BOOLEAN
  /\ ~Info(c, x).hasMutableBorrow /\ (mutable => Info(c, x).borrowCount = 0)
  /\ SetAt(c, e, x, Borrowed(Info(c, x), mutable)) /\ SameTable(c, e)
  /\ Records(r, RefInfo(x, mutable)) /\ d = Sema!trackVariable(e, r, RefInfo(x, mutable))
  /\ Declared(bs, bs2, r, Entry(RefType(mutable), SlotAt(bs, j, x)))
  /\ m2.slots = m.slots /\ \A i \in 1..Len(bs) : Exec(m2, bs2, i) <=> Exec(m, bs, i)
  /\ \A q \in RefName : q # r => m2.refs[q] = m.refs[q]
  /\ Exec(m2, bs2, Len(bs)) => m2.refs[r].sees = m.slots[SlotAt(bs, j, x)].val

\* The records of the names then.
LEMMA BoundInfo ==
  ASSUME NEW c, NEW bs, ShapeInv(c, bs), Len(bs) > 0,
         NEW r, NEW j, NEW x, NEW mutable, NEW e, NEW d, NEW bs2, NEW m, NEW m2,
         BindsRef(c, bs, r, j, x, mutable, e, d, bs2, m, m2)
  PROVE  /\ \A i \in 1..Len(bs) : \A k : Has(bs, i, k) =>
              InfoAt(d, bs2[i], k) = IF i = j /\ k = x THEN Borrowed(Info(c, x), mutable)
                                     ELSE InfoAt(c, bs[i], k)
         /\ InfoAt(d, bs2[Len(bs)], r) = RefInfo(x, mutable)
         /\ Len(bs2) = Len(bs) /\ Len(bs) \in 1..Len(bs) /\ bs \in Seq(Blocks)
         /\ \A i \in 1..Len(bs), k \in Names : Has(bs2, i, k) <=> Has(bs, i, k) \/ (i = Len(bs) /\ k = r)
         /\ \A i \in 1..Len(bs), k \in Names : Has(bs, i, k) =>
              /\ bs2[i].names[k] = bs[i].names[k]
              /\ SlotAt(bs2, i, k) = SlotAt(bs, i, k) /\ TypeAt(bs2, i, k) = TypeAt(bs, i, k)
         /\ SlotAt(bs2, Len(bs), r) = SlotAt(bs, j, x) /\ TypeAt(bs2, Len(bs), r) = RefType(mutable)
<1> DEFINE en == Entry(RefType(mutable), SlotAt(bs, j, x))
           info == RefInfo(x, mutable)
<1>1. /\ r \in RefName /\ j \in 1..Len(bs) /\ x \in Name /\ Has(bs, j, x)
      /\ c.all[x] = ScopeAt(bs[j], x)
      /\ SetAt(c, e, x, Borrowed(Info(c, x), mutable)) /\ SameTable(c, e)
      /\ Records(r, info) /\ d = Sema!trackVariable(e, r, info)
      /\ Declared(bs, bs2, r, en)
      /\ \A i \in 1..Len(bs) : ~Has(bs, i, r)
  BY DEF BindsRef
<1>2. bs \in Seq(Blocks) /\ Len(bs) \in 1..Len(bs) /\ r \in Names /\ x \in Names
  BY <1>1 DEF ShapeInv, Names
<1>3. ~Has(bs, Len(bs), r)
  BY <1>1, <1>2
<1>4. r # bs[Len(bs)].binding
  BY <1>2, <1>3, NotBinding
<1>5. /\ \A i \in 1..Len(bs) : \A k : Has(bs, i, k) => InfoAt(d, bs2[i], k) = InfoAt(e, bs[i], k)
      /\ InfoAt(d, bs2[Len(bs)], r) = info
  <2> HIDE DEF info, en
  <2> QED BY <1>1, <1>2, <1>3, <1>4, DeclaredInfo
<1>6. ASSUME NEW i \in 1..Len(bs), NEW k, Has(bs, i, k)
      PROVE  InfoAt(d, bs2[i], k) = IF i = j /\ k = x THEN Borrowed(Info(c, x), mutable)
                                    ELSE InfoAt(c, bs[i], k)
  <2> DEFINE p == ScopeAt(bs[i], k)
  <2>1. k \in Names /\ p \in 1..Len(c.scopes) /\ k \in DOMAIN c.scopes[p]
    BY <1>6, Place
  <2>2. e.scopes[p][k] = IF p = c.all[x] /\ k = x THEN Borrowed(Info(c, x), mutable) ELSE c.scopes[p][k]
    BY <1>1, <2>1 DEF SetAt
  <2>3. p = c.all[x] /\ k = x <=> i = j /\ k = x
    <3>1. p = ScopeAt(bs[j], x) => i = j
      BY <1>1, <1>2, <2>1, PlacesApart
    <3> QED BY <1>1, <3>1
  <2>4. InfoAt(d, bs2[i], k) = e.scopes[p][k] /\ InfoAt(c, bs[i], k) = c.scopes[p][k]
    BY <1>5, <1>6 DEF InfoAt
  <2> HIDE DEF p
  <2> QED BY <2>2, <2>3, <2>4
<1>7. /\ Len(bs2) = Len(bs)
      /\ \A i \in 1..Len(bs), k \in Names : Has(bs2, i, k) <=> Has(bs, i, k) \/ (i = Len(bs) /\ k = r)
      /\ \A i \in 1..Len(bs), k \in Names : Has(bs, i, k) =>
           /\ bs2[i].names[k] = bs[i].names[k]
           /\ SlotAt(bs2, i, k) = SlotAt(bs, i, k) /\ TypeAt(bs2, i, k) = TypeAt(bs, i, k)
  BY <1>1 DEF Declared, SlotAt, TypeAt
<1>8. SlotAt(bs2, Len(bs), r) = SlotAt(bs, j, x) /\ TypeAt(bs2, Len(bs), r) = RefType(mutable)
  BY <1>1 DEF Declared, SlotAt, TypeAt, Entry
<1> QED BY <1>2, <1>5, <1>6, <1>7, <1>8

\* The references then.
LEMMA BoundRefs ==
  ASSUME NEW c, NEW bs, ShapeInv(c, bs), Len(bs) > 0,
         NEW r, NEW j, NEW x, NEW mutable, NEW e, NEW d, NEW bs2, NEW m, NEW m2,
         BindsRef(c, bs, r, j, x, mutable, e, d, bs2, m, m2),
         NEW fin, RefsInv(c, bs, fin, m)
  PROVE  RefsInv(d, bs2, fin \ {r}, m2)
<1>1. /\ \A i \in 1..Len(bs) : \A k : Has(bs, i, k) =>
           InfoAt(d, bs2[i], k) = IF i = j /\ k = x THEN Borrowed(Info(c, x), mutable)
                                  ELSE InfoAt(c, bs[i], k)
      /\ InfoAt(d, bs2[Len(bs)], r) = RefInfo(x, mutable)
      /\ Len(bs2) = Len(bs) /\ Len(bs) \in 1..Len(bs) /\ bs \in Seq(Blocks)
      /\ \A i \in 1..Len(bs), k \in Names : Has(bs2, i, k) <=> Has(bs, i, k) \/ (i = Len(bs) /\ k = r)
      /\ \A i \in 1..Len(bs), k \in Names : Has(bs, i, k) =>
           /\ bs2[i].names[k] = bs[i].names[k]
           /\ SlotAt(bs2, i, k) = SlotAt(bs, i, k) /\ TypeAt(bs2, i, k) = TypeAt(bs, i, k)
      /\ SlotAt(bs2, Len(bs), r) = SlotAt(bs, j, x) /\ TypeAt(bs2, Len(bs), r) = RefType(mutable)
  BY BoundInfo
<1>2. /\ r \in RefName /\ j \in 1..Len(bs) /\ x \in Name /\ Has(bs, j, x) /\ IsInner(bs, j, x)
      /\ mutable \in BOOLEAN /\ (\A i \in 1..Len(bs) : ~Has(bs, i, r))
      /\ Declared(bs, bs2, r, Entry(RefType(mutable), SlotAt(bs, j, x)))
  BY DEF BindsRef
<1>3. /\ m2.slots = m.slots /\ (\A i \in 1..Len(bs) : Exec(m2, bs2, i) <=> Exec(m, bs, i))
      /\ (\A q \in RefName : q # r => m2.refs[q] = m.refs[q])
      /\ (Exec(m2, bs2, Len(bs)) => m2.refs[r].sees = m.slots[SlotAt(bs, j, x)].val)
  BY DEF BindsRef
<1>4. x \in Names /\ r \in Names /\ x # r /\ x \notin RefName /\ \A q \in RefName : q \in Names
  BY <1>2, NamesAssumption DEF Names
<1> SUFFICES ASSUME NEW i \in 1..Len(bs), NEW q \in RefName, Has(bs2, i, q)
             PROVE  IF q \in fin \ {r} THEN InfoAt(d, bs2[i], q).borrowsName = NoName
                    ELSE RefInv(d, bs2, m2, i, q)
  BY <1>1 DEF RefsInv
<1>5. CASE q = r
  <2>1. i = Len(bs)
    BY <1>1, <1>2, <1>4, <1>5
  <2>2. Lent(bs2, Len(bs), r, x)
    <3>1. j \in 1..Len(bs) /\ Has(bs2, j, x) /\ SlotAt(bs2, j, x) = SlotAt(bs2, Len(bs), r)
      BY <1>1, <1>2, <1>4
    <3>2. \A k \in j + 1..Len(bs) : ~Has(bs2, k, x)
      <4>1. ASSUME NEW k \in j + 1..Len(bs)
            PROVE  ~Has(bs2, k, x)
        <5>1. k \in 1..Len(bs) /\ ~(k <= j)
          BY <1>1, <1>2, <4>1
        <5>2. ~Has(bs, k, x)
          BY <1>2, <5>1 DEF IsInner
        <5> QED BY <1>1, <1>4, <5>1, <5>2
      <4> QED BY <4>1
    <3> QED BY <1>2, <3>1, <3>2 DEF Lent
  <2>3. /\ RefInfo(x, mutable).borrowsName = x
        /\ (RefInfo(x, mutable).borrowsMutable <=> RefType(mutable) = "refmut")
    BY <1>2 DEF RefInfo, RefType
  <2>4. Exec(m2, bs2, i) => m2.slots[SlotAt(bs2, i, r)].val = m2.refs[r].sees
    BY <1>1, <1>3, <2>1
  <2>5. RefInv(d, bs2, m2, i, r)
    BY <1>1, <2>1, <2>2, <2>3, <2>4 DEF RefInv
  <2> QED BY <1>5, <2>5
<1>6. CASE q # r
  <2>1. Has(bs, i, q)
    BY <1>1, <1>4, <1>6
  <2>2. InfoAt(d, bs2[i], q) = InfoAt(c, bs[i], q)
    BY <1>1, <1>4, <2>1
  <2>3. CASE q \in fin
    BY <1>6, <2>1, <2>2, <2>3 DEF RefsInv
  <2>4. CASE q \notin fin
    <3> DEFINE y == InfoAt(c, bs[i], q).borrowsName
    <3>1. RefInv(c, bs, m, i, q)
      BY <2>1, <2>4 DEF RefsInv
    <3>2. Lent(bs, i, q, y) /\ y # r
      BY <1>2, <3>1, NamesAssumption DEF RefInv, Lent
    <3>3. Lent(bs2, i, q, y)
      <4> DEFINE en == Entry(RefType(mutable), SlotAt(bs, j, x))
      <4>1. Declared(bs, bs2, r, en)
        BY <1>2
      <4> HIDE DEF y, en
      <4> QED BY <1>1, <1>4, <2>1, <3>2, <4>1, LentDeclared
    <3>4. SlotAt(bs2, i, q) = SlotAt(bs, i, q) /\ TypeAt(bs2, i, q) = TypeAt(bs, i, q)
      BY <1>1, <1>4, <2>1
    <3> HIDE DEF y
    <3>5. RefInv(d, bs2, m2, i, q)
      BY <1>3, <1>6, <2>2, <3>1, <3>3, <3>4 DEF RefInv, y
    <3> QED BY <2>4, <3>5
  <2> QED BY <2>3, <2>4
<1> QED BY <1>5, <1>6

\* The variables then.
LEMMA BoundBorrows ==
  ASSUME NEW c, NEW bs, ShapeInv(c, bs), Len(bs) > 0,
         NEW r, NEW j, NEW x, NEW mutable, NEW e, NEW d, NEW bs2, NEW m, NEW m2,
         BindsRef(c, bs, r, j, x, mutable, e, d, bs2, m, m2),
         NEW fin, BorrowsInv(c, bs, fin),
         NEW g, NEW hid, GenInv(g, bs, m, hid)
  PROVE  BorrowsInv(d, bs2, fin \ {r})
<1>1. /\ \A i \in 1..Len(bs) : \A k : Has(bs, i, k) =>
           InfoAt(d, bs2[i], k) = IF i = j /\ k = x THEN Borrowed(Info(c, x), mutable)
                                  ELSE InfoAt(c, bs[i], k)
      /\ Len(bs2) = Len(bs) /\ Len(bs) \in 1..Len(bs) /\ bs \in Seq(Blocks)
      /\ \A i \in 1..Len(bs), k \in Names : Has(bs2, i, k) <=> Has(bs, i, k) \/ (i = Len(bs) /\ k = r)
      /\ \A i \in 1..Len(bs), k \in Names : Has(bs, i, k) => SlotAt(bs2, i, k) = SlotAt(bs, i, k)
  BY BoundInfo
<1>2. /\ r \in RefName /\ j \in 1..Len(bs) /\ x \in Name /\ Has(bs, j, x)
      /\ Info(c, x) = InfoAt(c, bs[j], x)
      /\ mutable \in BOOLEAN /\ ~Info(c, x).hasMutableBorrow /\ (mutable => Info(c, x).borrowCount = 0)
      /\ (\A i \in 1..Len(bs) : ~Has(bs, i, r))
      /\ Declared(bs, bs2, r, Entry(RefType(mutable), SlotAt(bs, j, x)))
  BY DEF BindsRef
<1> DEFINE o == SlotAt(bs, j, x)
<1>3. \A s, t : Borrowers(bs2, fin \ {r}, s, t) =
                  WithBorrower(Borrowers(bs, fin, s, t), s, t, r, o, RefType(mutable))
  <2> DEFINE u == RefType(mutable)
  <2>1. Declared(bs, bs2, r, Entry(u, o))
    BY <1>2
  <2> HIDE DEF u, o
  <2>2. ASSUME NEW s, NEW t
        PROVE  Borrowers(bs2, fin \ {r}, s, t) = WithBorrower(Borrowers(bs, fin, s, t), s, t, r, o, u)
    BY <1>1, <1>2, <2>1, LentBorrowers
  <2> QED BY <2>2 DEF u
<1>4. x \in Names /\ r \notin Name /\ \A y \in Name : y \in Names
  BY <1>2, NamesAssumption DEF Names
<1> SUFFICES ASSUME NEW i \in 1..Len(bs), NEW y \in Name, Has(bs2, i, y)
             PROVE  BorrowInv(InfoAt(d, bs2[i], y), Borrowers(bs2, fin \ {r}, SlotAt(bs2, i, y), "ref"),
                              Borrowers(bs2, fin \ {r}, SlotAt(bs2, i, y), "refmut"))
  BY <1>1 DEF BorrowsInv
<1>5. Has(bs, i, y) /\ SlotAt(bs2, i, y) = SlotAt(bs, i, y)
  BY <1>1, <1>4
<1> DEFINE s == SlotAt(bs, i, y)
           S == Borrowers(bs, fin, s, "ref")
           M == Borrowers(bs, fin, s, "refmut")
<1>9. /\ Borrowers(bs2, fin \ {r}, s, "ref") = WithBorrower(S, s, "ref", r, o, RefType(mutable))
      /\ Borrowers(bs2, fin \ {r}, s, "refmut") = WithBorrower(M, s, "refmut", r, o, RefType(mutable))
  <2> HIDE DEF s, o
  <2> QED BY <1>3
<1>6. BorrowInv(InfoAt(c, bs[i], y), S, M)
  BY <1>5 DEF BorrowsInv
<1>7. CASE i = j /\ y = x
  <2>1. s = o /\ InfoAt(d, bs2[i], y) = Borrowed(Info(c, x), mutable)
    BY <1>1, <1>5, <1>7
  <2>2. Info(c, x) \in Infos
    BY <1>2, Place
  <2>3. IsFiniteSet(S) /\ r \notin S
    <3>1. r \notin S
      BY <1>2, BorrowerIs
    <3> QED BY <3>1, BorrowersFinite
  <2>4. BorrowInv(Info(c, x), S, M)
    BY <1>2, <1>6, <1>7
  <2> HIDE DEF S, M
  <2>5. /\ BorrowInv(Borrowed(Info(c, x), FALSE), S \cup {r}, M)
        /\ Info(c, x).borrowCount = 0 => BorrowInv(Borrowed(Info(c, x), TRUE), S, M \cup {r})
    BY <1>2, <2>2, <2>3, <2>4, MoreBorrowed
  <2>6. CASE mutable
    <3>1. /\ Borrowers(bs2, fin \ {r}, s, "ref") = S /\ Borrowers(bs2, fin \ {r}, s, "refmut") = M \cup {r}
      <4> HIDE DEF s, o
      <4> QED BY <1>9, <2>1, <2>6 DEF WithBorrower, RefType
    <3>2. mutable = TRUE
      BY <2>6, <1>2
    <3> HIDE DEF s
    <3> QED BY <1>2, <1>5, <2>1, <2>5, <2>6, <3>1, <3>2 DEF s
  <2>7. CASE ~mutable
    <3>1. /\ Borrowers(bs2, fin \ {r}, s, "ref") = S \cup {r} /\ Borrowers(bs2, fin \ {r}, s, "refmut") = M
      <4> HIDE DEF s, o
      <4> QED BY <1>9, <2>1, <2>7 DEF WithBorrower, RefType
    <3>2. mutable = FALSE
      BY <2>7, <1>2
    <3> HIDE DEF s
    <3> QED BY <1>5, <2>1, <2>5, <3>1, <3>2 DEF s
  <2> QED BY <2>6, <2>7
<1>8. CASE ~(i = j /\ y = x)
  <2>1. s # o
    BY <1>2, <1>5, <1>8, SlotsAre
  <2>2. InfoAt(d, bs2[i], y) = InfoAt(c, bs[i], y)
    BY <1>1, <1>5, <1>8
  <2>3. Borrowers(bs2, fin \ {r}, s, "ref") = S /\ Borrowers(bs2, fin \ {r}, s, "refmut") = M
    <3> HIDE DEF s, o, S, M
    <3> QED BY <1>9, <2>1 DEF WithBorrower
  <2> HIDE DEF S, M
  <2> QED BY <1>5, <1>6, <2>2, <2>3
<1> QED BY <1>7, <1>8

\* The declaration of a reference keeps the recorded borrows those of the references in use.
LEMMA RefBorrows ==
  ASSUME Agree, BorrowNow, NEW r \in RefName, NEW x \in Name, Ref(r, x)
  PROVE  BorrowNow'
<1> DEFINE m2 == machine'
           bs2 == blocks'
           fin2 == finished \ {r}
<1>1. PICK j, mutable, e, d, over : RefFacts(r, x, j, mutable, e, d, over)
  BY RefIs
<1>2. /\ Meant(x, j) /\ mutable \in BOOLEAN
      /\ ~Info(checker, x).hasMutableBorrow /\ (mutable => Info(checker, x).borrowCount = 0)
      /\ SetAt(checker, e, x, Borrowed(Info(checker, x), mutable)) /\ SameTable(checker, e)
      /\ Records(r, RefInfo(x, mutable)) /\ d = Sema!trackVariable(e, r, RefInfo(x, mutable))
      /\ IsChecker(d) /\ d.ok /\ over \in {r, NoName} /\ EndStatement(d, over)
      /\ checker' = Given(d, over)
      /\ finished' = fin2 \cup ({over} \ {NoName})
      /\ Len(blocks) > 0 /\ (\A i \in 1..Len(blocks) : ~Has(blocks, i, r))
      /\ Declared(blocks, bs2, r, Entry(RefType(mutable), Slot(x)))
  BY <1>1 DEF RefFacts, RefType
<1>3. /\ SameButRead(machine, current) /\ SameButRefs(current, m2)
      /\ machine.running => m2.refs[r] = [slot |-> Slot(x), sees |-> machine.slots[Slot(x)].val]
      /\ (\A q \in RefName : q # r => m2.refs[q] = machine.refs[q])
  BY RefIs
<1>4. /\ j \in 1..Len(blocks) /\ Has(blocks, j, x) /\ IsInner(blocks, j, x)
      /\ checker.all[x] = ScopeAt(blocks[j], x) /\ Info(checker, x) = InfoAt(checker, blocks[j], x)
      /\ Slot(x) = SlotAt(blocks, j, x)
  BY <1>2 DEF Meant
<1>5. /\ ShapeInv(checker, blocks) /\ TracksInv(checker, blocks, hidden) /\ blocks \in Seq(Blocks)
      /\ Len(blocks) \in 1..Len(blocks) /\ PathsInv(machine, blocks)
      /\ GenInv(code, blocks, machine, hidden)
      /\ RefsInv(checker, blocks, finished, machine) /\ BorrowsInv(checker, blocks, finished)
  BY <1>2, AgreeIs DEF ScopesAgree, TableAgrees, MapsAgree, PathsAgree, BorrowNow, Borrowing
<1>6. SameControl(machine, m2) /\ m2.slots = machine.slots
  BY <1>3 DEF SameButRead, SameButRefs, SameControl
<1>7. \A i \in 1..Len(blocks) : Exec(m2, bs2, i) <=> Exec(machine, blocks, i)
  <2>1. SameBlocks(blocks, bs2)
    BY <1>2 DEF Declared, SameBlocks
  <2> HIDE DEF m2, bs2
  <2> QED BY <1>5, <1>6, <2>1, ControlKept
<1>8. Exec(m2, bs2, Len(blocks)) => m2.refs[r].sees = machine.slots[SlotAt(blocks, j, x)].val
  <2>1. Exec(machine, blocks, Len(blocks)) => machine.running
    BY DEF Exec
  <2> QED BY <1>3, <1>4, <1>5, <1>7, <2>1
<1>9. BindsRef(checker, blocks, r, j, x, mutable, e, d, bs2, machine, m2)
  BY <1>2, <1>3, <1>4, <1>6, <1>7, <1>8 DEF BindsRef
<1>10. Borrowing(d, bs2, fin2, m2)
  <2> HIDE DEF m2, bs2
  <2>1. RefsInv(d, bs2, finished \ {r}, m2)
    BY <1>2, <1>5, <1>9, BoundRefs
  <2>2. BorrowsInv(d, bs2, finished \ {r})
    BY <1>2, <1>5, <1>9, BoundBorrows
  <2> QED BY <2>1, <2>2 DEF Borrowing
<1>11. ShapeInv(d, bs2) /\ TracksInv(d, bs2, hidden \ {r}) /\ Len(bs2) > 0
  <2> DEFINE info == RefInfo(x, mutable)
             en == Entry(RefType(mutable), Slot(x))
  <2>1. ShapeInv(e, blocks) /\ TracksInv(e, blocks, hidden)
    BY <1>2, <1>5, ShapeKept
  <2>2. r \in Names /\ ~Has(blocks, Len(blocks), r)
    BY <1>2, <1>5 DEF Names
  <2>3. Len(bs2) > 0
    BY <1>2 DEF Declared
  <2>4. Records(r, info) /\ d = Sema!trackVariable(e, r, info) /\ Declared(blocks, bs2, r, en)
    BY <1>2
  <2> HIDE DEF bs2, info, en
  <2> QED BY <1>2, <2>1, <2>2, <2>3, <2>4, ShapeDeclared
<1>12. over # NoName => /\ d.all[over] # 0 /\ Info(d, over).borrowsName # NoName
                        /\ over \in DOMAIN d.scopes[Len(d.scopes)]
  BY <1>2, EndIs
<1>13. Borrowing(Given(d, over), bs2, fin2 \cup ({over} \ {NoName}), m2)
  <2>1. over \in RefName \cup {NoName}
    BY <1>2
  <2> HIDE DEF bs2, m2, fin2
  <2> QED BY <1>10, <1>11, <1>12, <2>1, GivenBorrows
<1> QED BY <1>2, <1>13 DEF BorrowNow

-----------------------------------------------------------------------------
(* The end of a scope gives back what its references borrowed. *)

\* Fewer borrowers of what is recorded the same.
LEMMA FewerRecorded ==
  ASSUME NEW info, info \in Infos, NEW S, IsFiniteSet(S), NEW M, BorrowInv(info, S, M),
         NEW S2 \in SUBSET S, NEW M2 \in SUBSET M
  PROVE  BorrowInv(info, S2, M2)
<1>1. IsFiniteSet(S2) /\ Cardinality(S2) \in Nat /\ Cardinality(S) \in Nat /\ Cardinality(S2) <= Cardinality(S)
  BY FS_Subset, FS_CardinalityType
<1>2. info.borrowCount \in Nat
  BY DEF Infos
<1>3. info.borrowCount >= Cardinality(S2)
  BY <1>1, <1>2 DEF BorrowInv
<1> QED BY <1>3 DEF BorrowInv

\* The bindings R of a scope are among the borrowers of a variable.
Releases(R, mutably, S, M) ==
  /\ IsFiniteSet(R) /\ R \subseteq S \cup M
  /\ \A r \in R : /\ mutably[r] \in BOOLEAN
                  /\ mutably[r] => r \in M
                  /\ ~mutably[r] => r \in S

\* A record from which a scope's borrows were released is right of the borrowers that are left.
LEMMA ReleasedBorrow ==
  ASSUME NEW info, info \in Infos, NEW S, IsFiniteSet(S), NEW M, BorrowInv(info, S, M),
         NEW R, NEW mutably, Releases(R, mutably, S, M),
         NEW S2 \in SUBSET (S \ R), NEW M2 \in SUBSET (M \ R)
  PROVE  BorrowInv(Sema!released(info, R, mutably), S2, M2)
<1> DEFINE j == Sema!released(info, R, mutably)
           D == {r \in R : ~mutably[r]}
           shared == Cardinality(D)
           remain == IF info.borrowCount > shared THEN info.borrowCount - shared ELSE 0
<1>1. /\ shared \in Nat /\ j \in Infos /\ SameVariable(info, j)
      /\ j.borrowCount = remain
      /\ (j.hasMutableBorrow <=> (info.hasMutableBorrow /\ \A r \in R : ~mutably[r]))
      /\ j.state = IF R # {} /\ ~j.hasMutableBorrow /\ remain = 0 /\ info.state # "Moved"
                   THEN "Owned" ELSE info.state
  BY ReleasedIs DEF Releases
<1>2. D \subseteq S
  BY DEF Releases
<1>3. /\ IsFiniteSet(D) /\ IsFiniteSet(S \ D) /\ Cardinality(S \ D) = Cardinality(S) - shared
      /\ Cardinality(S) \in Nat
  <2>1. S \cap D = D
    BY <1>2
  <2> HIDE DEF D
  <2> QED BY <1>2, <2>1, FS_Subset, FS_Difference, FS_CardinalityType
<1>4. S2 \subseteq S \ D
  OBVIOUS
<1>5. /\ IsFiniteSet(S2) /\ Cardinality(S2) \in Nat /\ Cardinality(S2) <= Cardinality(S) - shared
      /\ S2 # {} => Cardinality(S2) # 0
  <2> HIDE DEF D
  <2> QED BY <1>3, <1>4, FS_Subset, FS_CardinalityType, FS_EmptySet
<1>6. info.borrowCount \in Nat /\ info.borrowCount >= Cardinality(S)
  BY DEF BorrowInv, Infos
<1> HIDE DEF shared
<1>7. remain >= Cardinality(S2) /\ remain \in Nat
  <2> DEFINE k == Cardinality(S2)
             l == Cardinality(S)
             b == info.borrowCount
  <2>1. k \in Nat /\ l \in Nat /\ b \in Nat /\ shared \in Nat /\ k <= l - shared /\ b >= l
    BY <1>1, <1>3, <1>5, <1>6
  <2> HIDE DEF k, l, b
  <2>2. (IF b > shared THEN b - shared ELSE 0) >= k /\ (IF b > shared THEN b - shared ELSE 0) \in Nat
    BY <2>1
  <2> QED BY <2>2 DEF b, k
<1>8. S2 # {} => remain # 0
  <2> DEFINE k == Cardinality(S2)
  <2>1. k \in Nat /\ remain \in Nat /\ remain >= k /\ (S2 # {} => k # 0)
    BY <1>5, <1>7
  <2> HIDE DEF k, remain
  <2> QED BY <2>1
<1> HIDE DEF j, remain
<1>9. M2 # {} => j.hasMutableBorrow /\ S2 = {}
  <2> SUFFICES ASSUME NEW q \in M2
               PROVE  j.hasMutableBorrow /\ S2 = {}
    OBVIOUS
  <2>1. q \in M /\ q \notin R
    OBVIOUS
  <2>2. info.hasMutableBorrow /\ S = {} /\ \A r \in M : r = q
    BY <2>1 DEF BorrowInv
  <2>3. \A r \in R : ~mutably[r]
    BY <2>1, <2>2 DEF Releases
  <2> QED BY <1>1, <2>2, <2>3
<1>10. S2 \cup M2 # {} => j.state = info.state
  BY <1>1, <1>8, <1>9
<1>11. S2 \cup M2 # {} => j.state \in {"BorrowedImmutable", "BorrowedMutable"}
  BY <1>10 DEF BorrowInv
<1>12. \A r, q \in M2 : r = q
  BY DEF BorrowInv
<1>13. BorrowInv(j, S2, M2)
  BY <1>1, <1>7, <1>9, <1>11, <1>12 DEF BorrowInv
<1> QED BY <1>13 DEF j

\* The innermost scope is that of the innermost block.
LEMMA TopScope ==
  ASSUME NEW c, NEW bs, ShapeInv(c, bs), Len(bs) > 0
  PROVE  /\ Len(bs) \in 1..Len(bs) /\ bs \in Seq(Blocks) /\ IsChecker(c) /\ c.ok
         /\ Len(c.scopes) \in Nat /\ Len(c.scopes) >= 2 /\ bs[Len(bs)].scope = Len(c.scopes)
         /\ DOMAIN c.scopes[Len(c.scopes)] = DOMAIN bs[Len(bs)].names \ {bs[Len(bs)].binding}
         /\ \A r \in RefName : r # bs[Len(bs)].binding
         /\ bs[Len(bs)].kind = "iflet" =>
              /\ DOMAIN c.scopes[Len(c.scopes) - 1] = {bs[Len(bs)].binding}
              /\ bs[Len(bs)].binding \in Name /\ Len(c.scopes) >= 3
<1> DEFINE b == bs[Len(bs)]
           top == Len(c.scopes)
<1>1. bs \in Seq(Blocks) /\ Len(bs) \in 1..Len(bs) /\ IsChecker(c) /\ c.ok
  BY DEF ShapeInv
<1>2. b \in Blocks /\ b.scope \in Nat /\ 2 <= Floor(b) /\ Floor(b) <= b.scope /\ Floor(b) \in Nat
      /\ top \in Nat /\ b.scope = top
  BY <1>1, Bounds DEF ShapeInv
<1>3. /\ DOMAIN c.scopes[b.scope] = DOMAIN b.names \ {b.binding}
      /\ b.kind = "iflet" => DOMAIN c.scopes[b.scope - 1] = {b.binding}
  BY <1>1 DEF ShapeInv
<1>4. b.binding \in Name \cup {NoName} /\ (b.kind = "iflet" => b.binding \in Name)
  BY <1>2 DEF Blocks
<1>5. \A r \in RefName : r # b.binding
  BY <1>4, NamesAssumption
<1>6. top >= 2 /\ (b.kind = "iflet" => top >= 3)
  <2> HIDE DEF b, top
  <2> QED BY <1>2 DEF Floor
<1> QED BY <1>1, <1>2, <1>3, <1>4, <1>5, <1>6

\* The references of the innermost block that borrow a variable of another block.
LEMMA HoldersBorrow ==
  ASSUME NEW c, NEW bs, ShapeInv(c, bs), NEW hid, TracksInv(c, bs, hid), Len(bs) > 0,
         NEW fin, NEW m, RefsInv(c, bs, fin, m),
         NEW j \in 1..Len(bs), NEW y \in Name, Has(bs, j, y), c.all[y] = ScopeAt(bs[j], y)
  PROVE  /\ Releases(Holders(c, y), Mutably(c), Borrowers(bs, fin, SlotAt(bs, j, y), "ref"),
                     Borrowers(bs, fin, SlotAt(bs, j, y), "refmut"))
         /\ \A r \in Holders(c, y) : Has(bs, Len(bs), r)
<1> DEFINE L == Len(bs)
           s == SlotAt(bs, j, y)
           S == Borrowers(bs, fin, s, "ref")
           M == Borrowers(bs, fin, s, "refmut")
<1>1. /\ L \in 1..L /\ bs \in Seq(Blocks) /\ IsChecker(c) /\ Len(c.scopes) >= 2 /\ Len(c.scopes) \in Nat
      /\ bs[L].scope = Len(c.scopes)
      /\ DOMAIN c.scopes[Len(c.scopes)] = DOMAIN bs[L].names \ {bs[L].binding}
      /\ \A r \in RefName : r # bs[L].binding
  BY TopScope
<1>2. y \in Names /\ y # NoName
  BY NamesAssumption DEF Names
<1>3. IsFiniteSet(Holders(c, y)) /\ Holders(c, y) \subseteq RefName
      /\ \A r \in Holders(c, y) : Mutably(c)[r] \in BOOLEAN
  BY <1>1, <1>2, HoldersAre
<1>4. IsInner(bs, j, y)
  <2>1. c.all[y] # 0
    <3>1. ScopeAt(bs[j], y) \in 1..Len(c.scopes)
      BY Place
    <3> QED BY <3>1
  <2>2. PICK i \in 1..Len(bs) : IsInner(bs, i, y) /\ c.all[y] = ScopeAt(bs[i], y)
    BY <1>2, <2>1 DEF TracksInv
  <2>3. i = j
    BY <1>2, <2>2, PlacesApart
  <2> QED BY <2>2, <2>3
<1>5. ASSUME NEW r \in Holders(c, y)
      PROVE  /\ Has(bs, L, r) /\ r \in RefName \ fin /\ SlotAt(bs, L, r) = s
             /\ Mutably(c)[r] <=> TypeAt(bs, L, r) = "refmut"
             /\ TypeAt(bs, L, r) \in {"ref", "refmut"}
  <2>1. r \in RefName /\ r \in DOMAIN c.scopes[Len(c.scopes)] /\ c.scopes[Len(c.scopes)][r].borrowsName = y
        /\ Mutably(c)[r] = c.scopes[Len(c.scopes)][r].borrowsMutable
    BY <1>3 DEF Holders, Mutably
  <2>2. Has(bs, L, r) /\ ScopeAt(bs[L], r) = Len(c.scopes)
    BY <1>1, <2>1 DEF Has, ScopeAt
  <2>3. InfoAt(c, bs[L], r).borrowsName = y /\ Mutably(c)[r] = InfoAt(c, bs[L], r).borrowsMutable
    BY <2>1, <2>2 DEF InfoAt
  <2>4. r \notin fin /\ RefInv(c, bs, m, L, r)
    BY <1>1, <1>2, <2>1, <2>2, <2>3 DEF RefsInv
  <2>5. Lent(bs, L, r, y) /\ (Mutably(c)[r] <=> TypeAt(bs, L, r) = "refmut")
    BY <2>3, <2>4 DEF RefInv
  <2>6. PICK i \in 1..L : /\ Has(bs, i, y) /\ SlotAt(bs, i, y) = SlotAt(bs, L, r)
                          /\ \A k \in i + 1..L : ~Has(bs, k, y)
    BY <2>5 DEF Lent
  <2>7. i = j
    <3>1. i <= j
      BY <1>4, <2>6 DEF IsInner
    <3>2. i \in Nat /\ j \in Nat /\ L \in Nat /\ j <= L
      BY <1>1
    <3>3. CASE i # j
      <4>1. j \in i + 1..L
        BY <3>1, <3>2, <3>3
      <4> QED BY <2>6, <4>1
    <3> QED BY <3>3
  <2>8. TypeAt(bs, L, r) \in {"ref", "refmut"}
    <3>1. bs[L] \in Blocks /\ r \in DOMAIN bs[L].names
      BY <1>1, <2>2 DEF Has
    <3>2. NameFits(r, bs[L].names[r])
      BY <3>1, BlockIs
    <3> QED BY <2>1, <3>2 DEF NameFits, TypeAt
  <2> QED BY <2>1, <2>2, <2>4, <2>5, <2>6, <2>7, <2>8
<1>6. ASSUME NEW r \in Holders(c, y)
      PROVE  /\ r \in S \cup M /\ (Mutably(c)[r] => r \in M) /\ (~Mutably(c)[r] => r \in S)
  <2>1. /\ Has(bs, L, r) /\ r \in RefName \ fin /\ SlotAt(bs, L, r) = s
        /\ (Mutably(c)[r] <=> TypeAt(bs, L, r) = "refmut")
        /\ TypeAt(bs, L, r) \in {"ref", "refmut"}
    BY <1>5
  <2>2. r \in Borrowers(bs, fin, s, TypeAt(bs, L, r))
    BY <1>1, <2>1, BorrowerIs
  <2> HIDE DEF s, L
  <2>3. CASE TypeAt(bs, L, r) = "refmut"
    BY <2>1, <2>2, <2>3
  <2>4. CASE TypeAt(bs, L, r) = "ref"
    BY <2>1, <2>2, <2>4
  <2> QED BY <2>1, <2>3, <2>4
<1>7. Releases(Holders(c, y), Mutably(c), S, M)
  <2> HIDE DEF S, M
  <2> QED BY <1>3, <1>6 DEF Releases
<1> QED BY <1>5, <1>7

\* The references of the innermost block.
Inmost(bs) == {r \in RefName : Has(bs, Len(bs), r)}

\* What is recorded in d of the name k of block i, when the references of the innermost
\* block are gone.
LeavesInfo(c, d, bs, fin, i, k) ==
  /\ k \in RefName => SameVariable(InfoAt(c, bs[i], k), InfoAt(d, bs[i], k))
  /\ k \in Name =>
       /\ InfoAt(d, bs[i], k) \in Infos
       /\ \A S \in SUBSET (Borrowers(bs, fin, SlotAt(bs, i, k), "ref") \ Inmost(bs)),
             M \in SUBSET (Borrowers(bs, fin, SlotAt(bs, i, k), "refmut") \ Inmost(bs)) :
            BorrowInv(InfoAt(d, bs[i], k), S, M)

Leaves(c, d, bs, fin) ==
  \A i \in 1..Len(bs) - 1 : \A k : Has(bs, i, k) => LeavesInfo(c, d, bs, fin, i, k)

\* The scopes of the other blocks are below those of the innermost.
LEMMA OuterScope ==
  ASSUME NEW c, NEW bs, ShapeInv(c, bs), NEW i \in 1..Len(bs) - 1, NEW k, Has(bs, i, k)
  PROVE  /\ i \in 1..Len(bs) /\ k \in Names
         /\ ScopeAt(bs[i], k) \in 1..Len(c.scopes) - 1
         /\ bs[Len(bs)].kind = "iflet" => ScopeAt(bs[i], k) \in 1..Len(c.scopes) - 2
         /\ k \in DOMAIN c.scopes[ScopeAt(bs[i], k)]
<1> DEFINE p == ScopeAt(bs[i], k)
           b == bs[Len(bs)]
           top == Len(c.scopes)
<1>0. Len(bs) \in Nat
  BY DEF ShapeInv
<1>1. i \in 1..Len(bs) /\ Len(bs) \in 1..Len(bs) /\ i < Len(bs) /\ Len(bs) > 0
  BY <1>0
<1>2. k \in Names /\ p \in 1..top /\ k \in DOMAIN c.scopes[p]
  BY <1>1, Place
<1>3. p <= bs[i].scope /\ bs[i].scope \in Nat /\ top \in Nat
  BY <1>1, <1>2, Bounds
<1>4. bs[i].scope < Floor(b) /\ Floor(b) \in Nat /\ Floor(b) <= b.scope /\ b.scope \in Nat
  BY <1>1, Bounds DEF ShapeInv
<1>5. b.scope = top /\ (b.kind = "iflet" => Floor(b) = top - 1)
  BY <1>1 DEF ShapeInv, Floor
<1> HIDE DEF p, b, top
<1>6. p \in 1..top - 1 /\ (b.kind = "iflet" => p \in 1..top - 2)
  BY <1>2, <1>3, <1>4, <1>5
<1> QED BY <1>1, <1>2, <1>6 DEF p, b, top

\* What is recorded of the name k of scope p when the innermost scope has ended.
AfterDrop(c, p, k) ==
  IF k \notin DOMAIN c.scopes[Len(c.scopes)] /\ c.all[k] = p
  THEN Sema!released(c.scopes[p][k], Holders(c, k), Mutably(c)) ELSE c.scopes[p][k]

\* The record of an outer variable after the checker leaves a scope.
LEMMA DropInfo ==
  ASSUME NEW c, IsChecker(c), c.ok, Len(c.scopes) > 0, NEW d, d = Sema!dropScopeVariables(c),
         NEW b, NEW k, ScopeAt(b, k) \in 1..Len(c.scopes) - 1, k \in DOMAIN c.scopes[ScopeAt(b, k)]
  PROVE  InfoAt(d, b, k) = AfterDrop(c, ScopeAt(b, k), k)
<1> DEFINE p == ScopeAt(b, k)
<1>1. \A q \in 1..Len(c.scopes) - 1 : \A x \in DOMAIN c.scopes[q] :
        d.scopes[q][x] = AfterDrop(c, q, x)
  BY DropIs DEF AfterDrop
<1>2. p \in 1..Len(c.scopes) - 1 /\ k \in DOMAIN c.scopes[p]
  OBVIOUS
<1> HIDE DEF p
<1>3. d.scopes[p][k] = AfterDrop(c, p, k)
  BY <1>1, <1>2
<1> QED BY <1>3 DEF InfoAt, p

\* The innermost scope ends.
LEMMA DropInner ==
  ASSUME NEW c, NEW bs, ShapeInv(c, bs), NEW hid, TracksInv(c, bs, hid), Len(bs) > 0,
         NEW fin, NEW m, Borrowing(c, bs, fin, m), NEW d, d = Sema!dropScopeVariables(c)
  PROVE  Leaves(c, d, bs, fin)
<1>1. /\ IsChecker(c) /\ c.ok /\ Len(c.scopes) > 0 /\ RefsInv(c, bs, fin, m) /\ BorrowsInv(c, bs, fin)
      /\ Name \subseteq Names /\ Name \cap RefName = {}
  BY TopScope, NamesAssumption DEF Borrowing, Names
<1> SUFFICES ASSUME NEW i \in 1..Len(bs) - 1, NEW k, Has(bs, i, k)
             PROVE  LeavesInfo(c, d, bs, fin, i, k)
  BY DEF Leaves
<1> DEFINE p == ScopeAt(bs[i], k)
           info == InfoAt(c, bs[i], k)
<1>2. i \in 1..Len(bs) /\ k \in Names /\ p \in 1..Len(c.scopes) - 1 /\ k \in DOMAIN c.scopes[p]
  BY OuterScope
<1>3. InfoAt(d, bs[i], k) = IF k \notin DOMAIN c.scopes[Len(c.scopes)] /\ c.all[k] = p
                            THEN Sema!released(info, Holders(c, k), Mutably(c)) ELSE info
  <2>1. InfoAt(d, bs[i], k) = AfterDrop(c, p, k)
    BY <1>1, <1>2, DropInfo
  <2>2. info = c.scopes[p][k]
    BY DEF InfoAt
  <2> HIDE DEF p, info
  <2> QED BY <2>1, <2>2 DEF AfterDrop
<1>4. info \in Infos
  BY <1>2, Place
<1>5. IsFiniteSet(Holders(c, k)) /\ (\A r \in Holders(c, k) : Mutably(c)[r] \in BOOLEAN)
      /\ Holders(c, k) \subseteq RefName
  BY <1>1, <1>2, HoldersAre
<1>6. SameVariable(info, InfoAt(d, bs[i], k)) /\ InfoAt(d, bs[i], k) \in Infos
  <2> HIDE DEF info
  <2>1. /\ Sema!released(info, Holders(c, k), Mutably(c)) \in Infos
        /\ SameVariable(info, Sema!released(info, Holders(c, k), Mutably(c)))
    BY <1>4, <1>5, ReleasedKeeps
  <2>2. SameVariable(info, info)
    BY DEF SameVariable
  <2> QED BY <1>3, <1>4, <2>1, <2>2
<1>7. ASSUME k \in Name,
             NEW S \in SUBSET (Borrowers(bs, fin, SlotAt(bs, i, k), "ref") \ Inmost(bs)),
             NEW M \in SUBSET (Borrowers(bs, fin, SlotAt(bs, i, k), "refmut") \ Inmost(bs))
      PROVE  BorrowInv(InfoAt(d, bs[i], k), S, M)
  <2> DEFINE S1 == Borrowers(bs, fin, SlotAt(bs, i, k), "ref")
             M1 == Borrowers(bs, fin, SlotAt(bs, i, k), "refmut")
             R == Holders(c, k)
  <2>1. BorrowInv(info, S1, M1)
    BY <1>1, <1>2, <1>7 DEF BorrowsInv
  <2>2. IsFiniteSet(S1)
    BY BorrowersFinite
  <2>3. CASE k \notin DOMAIN c.scopes[Len(c.scopes)] /\ c.all[k] = p
    <3>1. Releases(R, Mutably(c), S1, M1) /\ \A r \in R : Has(bs, Len(bs), r)
      BY <1>1, <1>2, <1>7, <2>3, HoldersBorrow
    <3>2. R \subseteq Inmost(bs)
      BY <1>5, <3>1 DEF Inmost
    <3>3. S \in SUBSET (S1 \ R) /\ M \in SUBSET (M1 \ R)
      BY <3>2
    <3> HIDE DEF info, S1, M1, R
    <3>4. BorrowInv(Sema!released(info, R, Mutably(c)), S, M)
      BY <1>4, <2>1, <2>2, <3>1, <3>3, ReleasedBorrow
    <3> QED BY <1>3, <2>3, <3>4 DEF R
  <2>4. CASE ~(k \notin DOMAIN c.scopes[Len(c.scopes)] /\ c.all[k] = p)
    <3>1. S \in SUBSET S1 /\ M \in SUBSET M1
      OBVIOUS
    <3> HIDE DEF info, S1, M1
    <3>2. BorrowInv(info, S, M)
      BY <1>4, <2>1, <2>2, <3>1, FewerRecorded
    <3> QED BY <1>3, <2>4, <3>2
  <2> QED BY <2>3, <2>4
<1> QED BY <1>6, <1>7 DEF LeavesInfo

\* The scope of the binding ends: it borrows nothing.
LEMMA DropBinding ==
  ASSUME NEW c, NEW bs, ShapeInv(c, bs), Len(bs) > 0, bs[Len(bs)].kind = "iflet",
         NEW fin, NEW e, e = Sema!dropScopeVariables(c), Leaves(c, e, bs, fin),
         NEW d, d = Sema!dropScopeVariables(e)
  PROVE  Leaves(c, d, bs, fin)
<1> DEFINE t == Len(e.scopes)
           v == bs[Len(bs)].binding
<1>1. /\ IsChecker(c) /\ c.ok /\ Len(c.scopes) >= 3 /\ Len(c.scopes) \in Nat
      /\ DOMAIN c.scopes[Len(c.scopes) - 1] = {v} /\ v \in Name
      /\ Name \subseteq Names /\ Name \cap RefName = {}
  BY TopScope, NamesAssumption DEF Names
<1>2. /\ IsChecker(e) /\ e.ok /\ t = Len(c.scopes) - 1 /\ t > 0
      /\ \A k \in 1..Len(c.scopes) - 1 : DOMAIN e.scopes[k] = DOMAIN c.scopes[k]
  BY <1>1, DropIs
<1>3. DOMAIN e.scopes[t] = {v}
  <2>1. t \in 1..Len(c.scopes) - 1
    BY <1>1, <1>2
  <2> QED BY <1>1, <1>2, <2>1
<1> SUFFICES ASSUME NEW i \in 1..Len(bs) - 1, NEW k, Has(bs, i, k)
             PROVE  LeavesInfo(c, d, bs, fin, i, k)
  BY DEF Leaves
<1> DEFINE p == ScopeAt(bs[i], k)
           info == InfoAt(e, bs[i], k)
<1>4. i \in 1..Len(bs) /\ k \in Names /\ p \in 1..Len(c.scopes) - 2 /\ k \in DOMAIN c.scopes[p]
  BY OuterScope
<1>5. p \in 1..t - 1 /\ k \in DOMAIN e.scopes[p]
  <2>1. p \in 1..Len(c.scopes) - 1 /\ p \in 1..t - 1
    BY <1>1, <1>2, <1>4
  <2> QED BY <1>2, <1>4, <2>1
<1>6. Holders(e, k) = {}
  <2>1. Holders(e, k) \subseteq RefName
    BY <1>2, <1>4, HoldersAre
  <2>2. Holders(e, k) \subseteq {v}
    BY <1>3 DEF Holders
  <2> QED BY <1>1, <2>1, <2>2
<1>7. InfoAt(d, bs[i], k) = IF k \notin DOMAIN e.scopes[t] /\ e.all[k] = p
                            THEN Sema!released(info, {}, Mutably(e)) ELSE info
  <2>1. InfoAt(d, bs[i], k) = AfterDrop(e, p, k)
    BY <1>2, <1>5, DropInfo, SMTT(60)
  <2>2. info = e.scopes[p][k]
    BY DEF InfoAt
  <2> HIDE DEF p, info
  <2> QED BY <1>6, <2>1, <2>2 DEF AfterDrop
<1>8. info \in Infos
  <2>1. e.scopes[p] \in Scopes
    <3>1. p \in 1..t
      BY <1>1, <1>2, <1>5
    <3> QED BY <1>2, <3>1, CheckerIs
  <2> QED BY <1>5, <2>1, ScopeIs DEF InfoAt
<1>9. LeavesInfo(c, e, bs, fin, i, k)
  BY DEF Leaves
<1>10. IsFiniteSet({})
  BY FS_EmptySet
<1> HIDE DEF info
<1>11. SameVariable(info, InfoAt(d, bs[i], k)) /\ InfoAt(d, bs[i], k) \in Infos
  <2>1. /\ Sema!released(info, {}, Mutably(e)) \in Infos
        /\ SameVariable(info, Sema!released(info, {}, Mutably(e)))
    BY <1>8, <1>10, ReleasedKeeps
  <2>2. SameVariable(info, info)
    BY DEF SameVariable
  <2> QED BY <1>7, <1>8, <2>1, <2>2
<1>12. k \in RefName => SameVariable(InfoAt(c, bs[i], k), InfoAt(d, bs[i], k))
  BY <1>9, <1>11 DEF LeavesInfo, SameVariable, info
<1>13. ASSUME k \in Name,
              NEW S \in SUBSET (Borrowers(bs, fin, SlotAt(bs, i, k), "ref") \ Inmost(bs)),
              NEW M \in SUBSET (Borrowers(bs, fin, SlotAt(bs, i, k), "refmut") \ Inmost(bs))
       PROVE  BorrowInv(InfoAt(d, bs[i], k), S, M)
  <2>1. BorrowInv(info, S, M)
    BY <1>9, <1>13 DEF LeavesInfo, info
  <2>2. IsFiniteSet(S)
    <3> DEFINE S1 == Borrowers(bs, fin, SlotAt(bs, i, k), "ref")
    <3>1. IsFiniteSet(S1) /\ S \in SUBSET S1
      BY BorrowersFinite
    <3> HIDE DEF S1
    <3> QED BY <3>1, FS_Subset
  <2>3. Releases({}, Mutably(e), S, M) /\ S \in SUBSET (S \ {}) /\ M \in SUBSET (M \ {})
    BY <1>10 DEF Releases
  <2>4. BorrowInv(Sema!released(info, {}, Mutably(e)), S, M)
    BY <1>8, <2>1, <2>2, <2>3, ReleasedBorrow
  <2> QED BY <1>7, <2>1, <2>4
<1> QED BY <1>11, <1>12, <1>13 DEF LeavesInfo

\* The innermost block ends.
LEMMA LeftInfo ==
  ASSUME NEW c, NEW bs, ShapeInv(c, bs), NEW hid, TracksInv(c, bs, hid), Len(bs) > 0,
         NEW fin, NEW m, Borrowing(c, bs, fin, m), NEW d, d = LeaveChecker(c, bs[Len(bs)])
  PROVE  Leaves(c, d, bs, fin)
<1> DEFINE e == Sema!dropScopeVariables(c)
           f == Sema!dropScopeVariables(e)
<1>1. Leaves(c, e, bs, fin)
  BY DropInner
<1>2. d = IF bs[Len(bs)].kind = "iflet" THEN f ELSE e
  BY DEF LeaveChecker
<1>3. CASE bs[Len(bs)].kind = "iflet"
  <2>1. Leaves(c, f, bs, fin)
    BY <1>1, <1>3, DropBinding
  <2> QED BY <1>2, <1>3, <2>1
<1>4. CASE bs[Len(bs)].kind # "iflet"
  BY <1>1, <1>2, <1>4
<1> QED BY <1>3, <1>4

\* bs2 has the blocks of bs but for the innermost, and no names elsewhere.
Outer(bs, bs2) ==
  /\ \A i \in 1..Len(bs) - 1 : i \in 1..Len(bs2) /\ bs2[i] = bs[i]
  /\ \A i \in 1..Len(bs2) : \A n : Has(bs2, i, n) => i \in 1..Len(bs) - 1

\* The references of the innermost block are gone.
LEMMA LeftBorrowers ==
  ASSUME NEW c, NEW bs, ShapeInv(c, bs), NEW hid, TracksInv(c, bs, hid), Len(bs) > 0,
         NEW bs2, Outer(bs, bs2), NEW fin, NEW s, NEW t
  PROVE  Borrowers(bs2, fin, s, t) \in SUBSET (Borrowers(bs, fin, s, t) \ Inmost(bs))
<1> SUFFICES ASSUME NEW r \in Borrowers(bs2, fin, s, t)
             PROVE  r \in Borrowers(bs, fin, s, t) /\ r \notin Inmost(bs)
  OBVIOUS
<1>1. r \in RefName \ fin
  BY BorrowerIs
<1>2. PICK i \in 1..Len(bs2) : Has(bs2, i, r) /\ SlotAt(bs2, i, r) = s /\ TypeAt(bs2, i, r) = t
  BY BorrowerIs
<1>3. i \in 1..Len(bs) - 1 /\ bs2[i] = bs[i]
  BY <1>2 DEF Outer
<1>4. Len(bs) \in Nat
  BY DEF ShapeInv
<1>5. i \in 1..Len(bs) /\ Len(bs) \in 1..Len(bs) /\ i # Len(bs)
  BY <1>3, <1>4
<1>6. Has(bs, i, r) /\ SlotAt(bs, i, r) = s /\ TypeAt(bs, i, r) = t
  BY <1>2, <1>3 DEF Has, SlotAt, TypeAt
<1>7. r \in Borrowers(bs, fin, s, t)
  BY <1>1, <1>5, <1>6, BorrowerIs
<1>8. ~Has(bs, Len(bs), r)
  BY <1>1, <1>5, <1>6 DEF TracksInv
<1> QED BY <1>7, <1>8 DEF Inmost

\* What the other blocks borrow is recorded as before.
LEMMA LeftBorrows ==
  ASSUME NEW c, NEW bs, ShapeInv(c, bs), NEW hid, TracksInv(c, bs, hid), Len(bs) > 0,
         NEW fin, NEW m, Borrowing(c, bs, fin, m), NEW d, Leaves(c, d, bs, fin),
         NEW bs2, Outer(bs, bs2), NEW m2, m2.slots = m.slots, m2.refs = m.refs,
         \A i \in 1..Len(bs) - 1 : Exec(m2, bs2, i) => Exec(m, bs, i)
  PROVE  Borrowing(d, bs2, fin, m2)
<1>1. Len(bs) \in Nat /\ RefsInv(c, bs, fin, m)
  BY DEF ShapeInv, Borrowing
<1>2. ASSUME NEW i \in 1..Len(bs2), NEW n, Has(bs2, i, n)
      PROVE  /\ i \in 1..Len(bs) - 1 /\ i \in 1..Len(bs) /\ bs2[i] = bs[i] /\ Has(bs, i, n)
             /\ SlotAt(bs2, i, n) = SlotAt(bs, i, n) /\ TypeAt(bs2, i, n) = TypeAt(bs, i, n)
  <2>1. i \in 1..Len(bs) - 1 /\ bs2[i] = bs[i]
    BY <1>2 DEF Outer
  <2> QED BY <1>1, <1>2, <2>1 DEF Has, SlotAt, TypeAt
<1>3. BorrowsInv(d, bs2, fin)
  <2> SUFFICES ASSUME NEW j \in 1..Len(bs2), NEW x \in Name, Has(bs2, j, x)
               PROVE  BorrowInv(InfoAt(d, bs2[j], x), Borrowers(bs2, fin, SlotAt(bs2, j, x), "ref"),
                                Borrowers(bs2, fin, SlotAt(bs2, j, x), "refmut"))
    BY DEF BorrowsInv
  <2> DEFINE s == SlotAt(bs2, j, x)
             S == Borrowers(bs2, fin, s, "ref")
             M == Borrowers(bs2, fin, s, "refmut")
  <2>1. j \in 1..Len(bs) - 1 /\ bs2[j] = bs[j] /\ Has(bs, j, x) /\ s = SlotAt(bs, j, x)
    BY <1>2
  <2>2. LeavesInfo(c, d, bs, fin, j, x)
    BY <2>1 DEF Leaves
  <2>3. /\ S \in SUBSET (Borrowers(bs, fin, SlotAt(bs, j, x), "ref") \ Inmost(bs))
        /\ M \in SUBSET (Borrowers(bs, fin, SlotAt(bs, j, x), "refmut") \ Inmost(bs))
    BY <2>1, LeftBorrowers
  <2> HIDE DEF S, M
  <2>4. BorrowInv(InfoAt(d, bs[j], x), S, M)
    BY <2>2, <2>3 DEF LeavesInfo
  <2> QED BY <2>1, <2>4 DEF S, M
<1>4. RefsInv(d, bs2, fin, m2)
  <2> SUFFICES ASSUME NEW i \in 1..Len(bs2), NEW r \in RefName, Has(bs2, i, r)
               PROVE  IF r \in fin THEN InfoAt(d, bs2[i], r).borrowsName = NoName
                      ELSE RefInv(d, bs2, m2, i, r)
    BY DEF RefsInv
  <2>1. /\ i \in 1..Len(bs) - 1 /\ i \in 1..Len(bs) /\ bs2[i] = bs[i] /\ Has(bs, i, r)
        /\ SlotAt(bs2, i, r) = SlotAt(bs, i, r) /\ TypeAt(bs2, i, r) = TypeAt(bs, i, r)
    BY <1>2
  <2>2. LeavesInfo(c, d, bs, fin, i, r)
    BY <2>1 DEF Leaves
  <2>3. /\ InfoAt(d, bs2[i], r).borrowsName = InfoAt(c, bs[i], r).borrowsName
        /\ InfoAt(d, bs2[i], r).borrowsMutable = InfoAt(c, bs[i], r).borrowsMutable
    BY <2>1, <2>2 DEF LeavesInfo, SameVariable
  <2>4. CASE r \in fin
    BY <1>1, <2>1, <2>3, <2>4 DEF RefsInv
  <2>5. CASE r \notin fin
    <3>1. RefInv(c, bs, m, i, r)
      BY <1>1, <2>1, <2>5 DEF RefsInv
    <3>2. Prefix(bs, bs2, Len(bs) - 1)
      BY <1>1 DEF Outer, Prefix
    <3>3. Len(bs) - 1 \in Nat
      BY <1>1
    <3>4. Lent(bs, i, r, InfoAt(d, bs2[i], r).borrowsName)
      BY <2>3, <3>1 DEF RefInv
    <3>5. Lent(bs2, i, r, InfoAt(d, bs2[i], r).borrowsName)
      BY <2>1, <3>2, <3>3, <3>4, LentKept
    <3>6. InfoAt(d, bs2[i], r).borrowsMutable <=> TypeAt(bs2, i, r) = "refmut"
      BY <2>1, <2>3, <3>1 DEF RefInv
    <3>7. Exec(m2, bs2, i) => m2.slots[SlotAt(bs2, i, r)].val = m2.refs[r].sees
      BY <2>1, <3>1 DEF RefInv
    <3> QED BY <2>5, <3>5, <3>6, <3>7 DEF RefInv
  <2> QED BY <2>4, <2>5
<1> QED BY <1>3, <1>4 DEF Borrowing

\* The records at the end of an if: those of the innermost block are gone, and what it
\* borrowed is given back.
LEMMA EndIfBorrows ==
  ASSUME Agree, BorrowNow, EndIf
  PROVE  BorrowNow'
<1> DEFINE m2 == machine'
           bs2 == blocks'
<1>1. PICK c, g, m, r : EndIfFacts(c, g, m, r)
  BY EndIfIs
<1>2. /\ LeaveFacts(c, g, m) /\ r \in RefName \cup {NoName} /\ EndStatement(c, r)
      /\ checker' = Given(c, r) /\ finished' = finished \cup ({r} \ {NoName})
      /\ Len(blocks) > 1 /\ Popped(blocks, bs2) /\ SameButControl(m, m2) /\ IsChecker(c)
      /\ (m2.running <=> blocks[Len(blocks)].reached /\ ~machine.returned)
      /\ (m2.returned <=> machine.returned)
  BY <1>1 DEF EndIfFacts
<1>3. /\ Exited(checker, c, blocks) /\ c = LeaveChecker(checker, blocks[Len(blocks)])
      /\ m.refs = machine.refs /\ m.slots = machine.slots
  BY <1>2 DEF LeaveFacts
<1>4. m2.slots = machine.slots /\ m2.refs = machine.refs
  BY <1>2, <1>3 DEF SameButControl
<1>5. /\ PathsInv(machine, blocks) /\ blocks \in Seq(Blocks) /\ Len(blocks) \in Nat
      /\ Borrowing(checker, blocks, finished, machine)
      /\ ShapeInv(checker, blocks) /\ TracksInv(checker, blocks, hidden)
  BY AgreeIs DEF ScopesAgree, TableAgrees, PathsAgree, BorrowNow
<1>6. r # NoName => /\ c.all[r] # 0 /\ Info(c, r).borrowsName # NoName
                    /\ r \in DOMAIN c.scopes[Len(c.scopes)]
  BY <1>2, EndIs
<1> HIDE DEF m2, bs2
<1>7. \A i \in 1..Len(blocks) - 1 : Exec(m2, bs2, i) <=> Exec(machine, blocks, i)
  BY <1>2, <1>5, ControlPopped
<1>8. Len(bs2) = Len(blocks) - 1 /\ Len(bs2) > 0 /\ Len(blocks) > 0
  BY <1>2, <1>5 DEF Popped
<1>9. Outer(blocks, bs2)
  BY <1>2, <1>8 DEF Popped, Outer
<1>10. Leaves(checker, c, blocks, finished)
  BY <1>3, <1>5, <1>8, LeftInfo
<1>11. Borrowing(c, bs2, finished, m2)
  BY <1>4, <1>5, <1>7, <1>8, <1>9, <1>10, LeftBorrows
<1>12. ShapeInv(c, bs2) /\ TracksInv(c, bs2, hidden \cup ShadowedBy(blocks))
  BY <1>2, <1>3, <1>5, ShapePopped
<1>13. Borrowing(Given(c, r), bs2, finished \cup ({r} \ {NoName}), m2)
  BY <1>2, <1>6, <1>8, <1>11, <1>12, GivenBorrows
<1> QED BY <1>2, <1>13 DEF BorrowNow, m2, bs2

\* A scope that begins changes no record.
LEMMA LeavesPushed ==
  ASSUME NEW c, NEW bs, ShapeInv(c, bs), Len(bs) > 0, NEW fin,
         NEW d, Exited(c, d, bs), Leaves(c, d, bs, fin), NEW e, e = Sema!pushOwnershipScope(d)
  PROVE  Leaves(c, e, bs, fin)
<1> SUFFICES ASSUME NEW i \in 1..Len(bs) - 1, NEW k, Has(bs, i, k)
             PROVE  LeavesInfo(c, e, bs, fin, i, k)
  BY DEF Leaves
<1> DEFINE p == ScopeAt(bs[i], k)
<1>1. /\ p \in 1..Len(c.scopes) - 1
      /\ bs[Len(bs)].kind = "iflet" => p \in 1..Len(c.scopes) - 2
  BY OuterScope
<1>2. bs[Len(bs)].scope = Len(c.scopes) /\ Len(c.scopes) \in Nat
  BY TopScope
<1>3. Len(d.scopes) = Floor(bs[Len(bs)]) - 1 /\ IsChecker(d)
  BY DEF Exited
<1> HIDE DEF p
<1>4. p \in 1..Len(d.scopes)
  BY <1>1, <1>2, <1>3 DEF Floor
<1>5. \A q \in 1..Len(d.scopes) : e.scopes[q] = d.scopes[q]
  BY <1>3, PushScopeIs
<1>6. InfoAt(e, bs[i], k) = InfoAt(d, bs[i], k)
  BY <1>4, <1>5 DEF InfoAt, p
<1>7. LeavesInfo(c, d, bs, fin, i, k)
  BY DEF Leaves
<1> QED BY <1>6, <1>7 DEF LeavesInfo

\* The records at an else.
LEMMA ElseBorrows ==
  ASSUME Agree, BorrowNow, Else
  PROVE  BorrowNow'
<1> DEFINE m2 == machine'
           bs2 == blocks'
           c2 == checker'
<1>1. PICK c, g, m, b : ElseFacts(c, g, m, b)
  BY ElseIs
<1>2. finished' = finished
  BY ElseIs
<1>3. /\ LeaveFacts(c, g, m) /\ c2 = Sema!pushOwnershipScope(c)
      /\ Len(blocks) > 1 /\ blocks[Len(blocks)].kind # "else"
      /\ b.kind = "else" /\ DOMAIN b.names = {}
      /\ (b.reached <=> blocks[Len(blocks)].reached) /\ (b.taken <=> ~blocks[Len(blocks)].taken)
      /\ Replaced(blocks, bs2, b) /\ SameButControl(m, m2)
      /\ (m2.running <=> blocks[Len(blocks)].reached /\ ~blocks[Len(blocks)].taken)
      /\ (m2.returned <=> machine.returned)
  BY <1>1 DEF ElseFacts
<1>4. /\ Exited(checker, c, blocks) /\ c = LeaveChecker(checker, blocks[Len(blocks)])
      /\ m.refs = machine.refs /\ m.slots = machine.slots
  BY <1>3 DEF LeaveFacts
<1>5. m2.slots = machine.slots /\ m2.refs = machine.refs
  BY <1>3, <1>4 DEF SameButControl
<1>6. /\ PathsInv(machine, blocks) /\ blocks \in Seq(Blocks) /\ Len(blocks) \in Nat
      /\ Borrowing(checker, blocks, finished, machine)
      /\ ShapeInv(checker, blocks) /\ TracksInv(checker, blocks, hidden)
  BY AgreeIs DEF ScopesAgree, TableAgrees, PathsAgree, BorrowNow
<1> HIDE DEF m2, bs2, c2
<1>7. /\ Len(bs2) = Len(blocks) /\ Len(blocks) > 0 /\ bs2 \in Seq(Blocks)
      /\ \A i \in 1..Len(blocks) - 1 : bs2[i] = blocks[i]
      /\ bs2[Len(blocks)] = b
  <2>1. \A i \in 1..Len(blocks) : bs2[i] = IF i = Len(blocks) THEN b ELSE blocks[i]
    BY <1>3 DEF Replaced
  <2>2. Len(blocks) \in 1..Len(blocks)
        /\ \A i \in 1..Len(blocks) - 1 : i \in 1..Len(blocks) /\ i # Len(blocks)
    BY <1>3, <1>6
  <2> QED BY <1>3, <2>1, <2>2 DEF Replaced
<1>8. \A i \in 1..Len(blocks) - 1 : Exec(m2, bs2, i) <=> Exec(machine, blocks, i)
  BY <1>3, <1>6, <1>7, ControlElse
<1>9. Outer(blocks, bs2)
  <2>1. \A i \in 1..Len(blocks) : i # Len(blocks) => i \in 1..Len(blocks) - 1
    BY <1>6
  <2>2. \A i \in 1..Len(blocks) - 1 : i \in 1..Len(blocks)
    BY <1>6
  <2>3. \A n : ~Has(bs2, Len(blocks), n)
    BY <1>3, <1>7 DEF Has
  <2> QED BY <1>7, <2>1, <2>2, <2>3 DEF Outer
<1>10. Leaves(checker, c, blocks, finished)
  BY <1>4, <1>6, <1>7, LeftInfo
<1>11. Leaves(checker, c2, blocks, finished)
  BY <1>3, <1>4, <1>6, <1>7, <1>10, LeavesPushed
<1>12. Borrowing(c2, bs2, finished, m2)
  BY <1>5, <1>6, <1>7, <1>8, <1>9, <1>11, LeftBorrows
<1> QED BY <1>2, <1>12 DEF BorrowNow, m2, bs2, c2

-----------------------------------------------------------------------------
(* What is read. *)

\* What was read is what was due.
Right(m) == m.read.got = m.read.due

\* Where nothing was read, nothing wrong was.
LEMMA NothingRead ==
  ASSUME NEW m, m.read = noRead
  PROVE  Right(m)
BY DEF Right, noRead

\* A variable that the checker does not take for moved is read right.
LEMMA LoadRight ==
  ASSUME Agree, SoundNow, NEW x \in Name, NEW i, Meant(x, i),
         InfoAt(checker, blocks[i], x).state # "Moved"
  PROVE  Right(load(current, Slot(x)))
<1> DEFINE s == Slot(x)
<1>1. SameButRead(machine, current) /\ current.read = noRead /\ MachineInv(current) /\ current \in Machines
  <2>1. MachineInv(machine)
    BY AgreeIs
  <2> QED BY <2>1, CurrentIs DEF SameButRead
<1>2. /\ i \in 1..Len(blocks) /\ Has(blocks, i, x) /\ s = SlotAt(blocks, i, x)
      /\ s \in 1..Len(machine.slots)
  BY DEF Meant
<1>3. current.slots = machine.slots /\ (current.running <=> machine.running)
  BY <1>1 DEF SameButRead
<1> HIDE DEF s
<1>4. CASE ~machine.running
  <2>1. load(current, s).read = noRead
    BY <1>1, <1>2, <1>3, <1>4, LoadIs
  <2> QED BY <2>1, NothingRead DEF s
<1>5. CASE machine.running
  <2>1. Exec(machine, blocks, i)
    BY <1>2, <1>5, AgreeIs, RunsIs DEF PathsAgree
  <2>2. s \in Held(checker, blocks, machine)
    BY <1>2, <2>1, HeldIs DEF Agree
  <2>3. Holds(machine, s)
    BY <2>2 DEF SoundNow, Sound, ValuesInv
  <2>4. Holds(current, s)
    BY <1>1, <2>3, ReadKeeps
  <2>5. owned(current, s) = current.slots[s].val
    BY <1>1, <1>2, <1>3, <2>4, HoldsReads
  <2>6. load(current, s).read = [got |-> current.slots[s].val, due |-> owned(current, s)]
    BY <1>1, <1>2, <1>3, <1>5, LoadIs
  <2> QED BY <2>5, <2>6 DEF Right, s
<1> QED BY <1>4, <1>5

\* A store reads nothing.
LEMMA StoreReads ==
  ASSUME NEW m, m \in Machines, NEW s \in 1..Len(m.slots),
         NEW v, v \in (1..Len(m.home) + 1) \cup {Nothing, Garbage}
  PROVE  store(m, s, v).read = m.read
<1>1. CASE m.running
  BY <1>1, StoreSteps DEF StoreStep, SameButMemory
<1>2. CASE ~m.running
  BY <1>2, NoStore
<1> QED BY <1>1, <1>2

\* A use of a variable reads what the variable owns.
LEMMA UseReads ==
  ASSUME Agree, SoundNow, NEW n \in Name, Use(n)
  PROVE  Right(machine')
<1> DEFINE m2 == machine'
<1>1. PICK i, r : /\ Meant(n, i) /\ SimpleFacts(checker, r)
                  /\ InfoAt(checker, blocks[i], n).state # "Moved"
  BY UseIs
<1>2. m2 = load(current, Slot(n))
  BY UseIs
<1> HIDE DEF m2
<1>3. Right(m2)
  BY <1>1, <1>2, LoadRight
<1> QED BY <1>3 DEF m2

\* A use of a reference reads what the reference was bound to, or wrote.
LEMMA UseRefReads ==
  ASSUME Agree, BorrowNow, NEW q \in RefName, UseRef(q)
  PROVE  Right(machine')
<1> DEFINE m2 == machine'
<1>1. PICK i, r : Meant(q, i) /\ SimpleFacts(checker, r)
  BY UseRefIs
<1>2. m2 = loadThrough(current, q)
  BY UseRefIs
<1>3. SameButRead(machine, current) /\ current.read = noRead /\ current \in Machines
  <2>1. MachineInv(machine)
    BY AgreeIs
  <2> QED BY <2>1, CurrentIs DEF SameButRead
<1>4. i \in 1..Len(blocks) /\ Has(blocks, i, q) /\ q \notin finished
  BY <1>1 DEF Meant
<1>5. current.slots = machine.slots /\ (current.running <=> machine.running) /\ current.refs = machine.refs
  BY <1>3 DEF SameButRead
<1> HIDE DEF m2
<1>6. CASE ~machine.running
  <2>1. m2.read = noRead
    BY <1>2, <1>3, <1>5, <1>6, LoadThroughIs
  <2> QED BY <2>1, NothingRead DEF m2
<1>7. CASE machine.running
  <2>1. Exec(machine, blocks, i)
    BY <1>4, <1>7, AgreeIs, RunsIs DEF PathsAgree
  <2>2. /\ SlotAt(blocks, i, q) \in 1..Len(machine.slots)
        /\ machine.refs[q].slot = SlotAt(blocks, i, q)
    BY <1>4, <2>1, AgreeIs DEF SlotsAgree, RefSlots
  <2>3. machine.slots[SlotAt(blocks, i, q)].val = machine.refs[q].sees
    BY <1>4, <2>1 DEF BorrowNow, Borrowing, RefsInv, RefInv
  <2>4. m2.read = [got |-> current.slots[current.refs[q].slot].val, due |-> current.refs[q].sees]
    BY <1>2, <1>3, <1>5, <1>7, <2>2, LoadThroughIs
  <2> QED BY <1>5, <2>2, <2>3, <2>4 DEF Right, m2
<1> QED BY <1>6, <1>7

\* An assignment reads its source.
LEMMA AssignReads ==
  ASSUME Agree, SoundNow, NEW n \in Name, NEW x \in Name, Assign(n, x)
  PROVE  Right(machine')
<1> DEFINE m2 == machine'
<1>1. PICK i, j, r, e, m :
        /\ Meant(n, i) /\ Meant(x, j) /\ Info(checker, x).state # "Moved"
        /\ m = load(current, Slot(x)) /\ SameButRead(machine, m) /\ MachineInv(m)
        /\ Storable(m, Slot(n), machine.slots[Slot(x)].val)
        /\ m2 = store(m, Slot(n), machine.slots[Slot(x)].val)
  BY AssignFrom, ZenonT(60)
<1>2. Slot(n) \in 1..Len(m.slots)
  BY <1>1 DEF Meant, SameButRead
<1> HIDE DEF m2
<1>3. m2.read = m.read
  BY <1>1, <1>2, StoreStays
<1>4. InfoAt(checker, blocks[j], x).state # "Moved"
  BY <1>1 DEF Meant
<1>5. Right(load(current, Slot(x)))
  BY <1>1, <1>4, LoadRight
<1>6. Right(m)
  BY <1>1, <1>5
<1> QED BY <1>3, <1>6 DEF Right, m2

\* A store through a reference reads nothing.
LEMMA AssignThroughReads ==
  ASSUME Agree, NEW q \in RefName, NEW src \in Name \cup {NoName}, AssignThrough(q, src)
  PROVE  Right(machine')
<1> DEFINE m2 == machine'
<1>1. PICK i, r, c, v, m :
        /\ v \in (1..Len(machine.home) + 1) \cup {Garbage}
        /\ machine.running =>
             /\ machine.refs[q].slot \in 1..Len(machine.slots)
             /\ m = store(current, machine.refs[q].slot, v)
             /\ SameButRefs(m, m2)
        /\ ~machine.running => m2 = current
  BY AssignThroughIs, ZenonT(60)
<1>2. SameButRead(machine, current) /\ current.read = noRead
  <2>1. MachineInv(machine)
    BY AgreeIs
  <2> QED BY <2>1, CurrentIs
<1> HIDE DEF m2
<1>3. m2.read = noRead
  <2>1. CASE machine.running
    <3>1. current \in Machines /\ current.slots = machine.slots /\ current.home = machine.home
      BY <1>2 DEF SameButRead
    <3>2. v \in (1..Len(current.home) + 1) \cup {Nothing, Garbage}
      BY <1>1, <3>1
    <3>3. m.read = noRead
      BY <1>1, <1>2, <2>1, <3>1, <3>2, StoreReads
    <3> QED BY <1>1, <2>1, <3>3 DEF SameButRefs
  <2>2. CASE ~machine.running
    BY <1>1, <1>2, <2>2
  <2> QED BY <2>1, <2>2
<1> QED BY <1>3, NothingRead DEF m2

\* A declaration reads its source.
LEMMA DeclareReads ==
  ASSUME Agree, SoundNow, NEW n \in Name, Declares(n)
  PROVE  Right(machine')
<1> DEFINE m2 == machine'
           new == Len(machine.slots) + 1
<1>1. PICK t, v, src, optional, struct, moves, e, d, valued, bound, r :
         DeclFacts(n, t, v, src, optional, struct, moves, e, d, valued, bound, r)
  BY DeclStep
<1>2. /\ DeclareWith(n, t, v, src, optional, struct, moves)
      /\ DeclareFacts(n, t, v, src, e, d, valued, bound, r)
  BY <1>1 DEF DeclFacts
<1>3. /\ src \in Name \cup {NoName} /\ (src # NoName => \E i : Meant(src, i))
      /\ v \in (1..Len(machine.home) + 1) \cup {Nothing, Garbage}
  BY <1>2 DEF DeclareWith
<1>4. /\ e = Sema!visitValue(checker, src) /\ e.ok
      /\ valued = IF src = NoName THEN current ELSE load(current, Slot(src))
      /\ Grown(valued, bound, t) /\ SameButRead(machine, valued)
      /\ m2 = store(bound, new, v) /\ new \in 1..Len(bound.slots)
  BY <1>2 DEF DeclareFacts
<1>5. IsChecker(checker) /\ MachineInv(machine)
  BY AgreeIs
<1> HIDE DEF m2, new
<1>6. Right(valued)
  <2>1. CASE src = NoName
    <3>1. valued.read = noRead
      BY <1>4, <1>5, <2>1, CurrentIs
    <3> QED BY <3>1, NothingRead
  <2>2. CASE src # NoName
    <3>1. PICK i : Meant(src, i)
      BY <1>3, <2>2
    <3>2. src \in Name /\ checker.all[src] # 0 /\ Info(checker, src) = InfoAt(checker, blocks[i], src)
      BY <1>3, <2>2, <3>1 DEF Meant
    <3>3. Info(checker, src).state # "Moved"
      BY <1>4, <1>5, <3>2, VisitValueIs
    <3>4. InfoAt(checker, blocks[i], src).state # "Moved"
      BY <3>2, <3>3
    <3>5. Right(load(current, Slot(src)))
      BY <3>1, <3>2, <3>4, LoadRight
    <3> QED BY <1>4, <2>2, <3>5
  <2> QED BY <2>1, <2>2
<1>7. bound.read = valued.read /\ bound \in Machines /\ bound.home = machine.home
  BY <1>4 DEF Grown, MachineInv, SameButRead
<1>8. m2.read = bound.read
  BY <1>3, <1>4, <1>7, StoreReads
<1> QED BY <1>6, <1>7, <1>8 DEF Right, m2

\* An if let reads its source.
LEMMA IfLetReads ==
  ASSUME Agree, SoundNow, NEW v \in Name, NEW x \in Name, IfLet(v, x)
  PROVE  Right(machine')
<1> DEFINE m2 == machine'
           new == Len(machine.slots) + 1
           taken == machine.slots[Slot(x)].val \notin {Nothing, Garbage}
<1>1. PICK i, e, b : IfLetFacts(v, x, i, e, b)
  BY IfLetHead
<1>2. Meant(x, i) /\ Type(x) = "optional" /\ Info(checker, x).state # "Moved"
  BY <1>1 DEF IfLetFacts
<1>3. PICK loaded, bound : TakeFacts(x, taken, loaded, bound)
  BY <1>2, IfLetMachine
<1>4. /\ loaded = load(current, Slot(x)) /\ SameButRead(machine, loaded)
      /\ Grown(loaded, bound, "struct")
  BY <1>3 DEF TakeFacts
<1>5. InfoAt(checker, blocks[i], x).state # "Moved"
  BY <1>2 DEF Meant
<1>6. Right(loaded)
  BY <1>2, <1>4, <1>5, LoadRight
<1>7. /\ bound.read = loaded.read /\ bound \in Machines /\ bound.home = machine.home
      /\ Len(bound.slots) = Len(machine.slots) + 1
  BY <1>4 DEF Grown, MachineInv, SameButRead
<1>8. machine \in Machines /\ Slot(x) \in 1..Len(machine.slots) /\ Len(machine.slots) \in Nat
  BY <1>2, AgreeIs, MachineIs DEF Meant
<1>9. m2.read = bound.read
  <2>1. CASE machine.running /\ taken
    <3> DEFINE val == machine.slots[Slot(x)].val
               stored == store(bound, new, val)
    <3>1. val \in DOMAIN machine.home /\ MachineInv(stored) /\ m2 = Clear(stored, Slot(x))
      BY <1>3, <2>1 DEF TakeFacts
    <3>2. new \in 1..Len(bound.slots) /\ val \in (1..Len(bound.home) + 1) \cup {Nothing, Garbage}
      <4>1. DOMAIN machine.home = 1..Len(machine.home) /\ Len(machine.home) \in Nat
        BY <1>8, MachineIs
      <4>2. val \in 1..Len(bound.home) + 1
        <5> HIDE DEF val
        <5> QED BY <1>7, <3>1, <4>1
      <4> QED BY <1>7, <1>8, <4>2
    <3> HIDE DEF val, new, m2
    <3>3. stored.read = bound.read
      BY <1>7, <3>2, StoreReads
    <3>4. Len(stored.slots) = Len(bound.slots)
      <4>1. CASE bound.running
        BY <1>7, <3>2, <4>1, StoreSteps DEF StoreStep
      <4>2. CASE ~bound.running
        BY <4>2, NoStore
      <4> QED BY <4>1, <4>2
    <3> HIDE DEF stored
    <3>5. Slot(x) \in 1..Len(stored.slots) /\ stored \in Machines
      BY <1>7, <1>8, <3>1, <3>4 DEF MachineInv
    <3>6. SameButMemory(stored, m2)
      BY <3>1, <3>5, ClearIs
    <3> QED BY <3>3, <3>6 DEF SameButMemory
  <2>2. CASE ~(machine.running /\ taken)
    <3>1. m2 = Run(bound, FALSE)
      BY <1>3, <2>2 DEF TakeFacts
    <3> HIDE DEF m2
    <3>2. SameButControl(bound, m2)
      BY <1>7, <3>1, RunIs
    <3> QED BY <3>2 DEF SameButControl
  <2> QED BY <2>1, <2>2
<1> HIDE DEF m2
<1> QED BY <1>6, <1>7, <1>9 DEF Right, m2

\* A return reads the variable that it returns, before the cleanup.
LEMMA ReturnReads ==
  ASSUME Agree, SoundNow, NEW x \in Name \cup {NoName}, Return(x)
  PROVE  Right(machine')
<1> DEFINE m2 == machine'
<1>1. PICK valued, given, cleaned, flag : ReturnFacts(x, valued, given, cleaned, flag)
  BY ReturnIs
<1>2. x # NoName => \E i : Meant(x, i) /\ InfoAt(checker, blocks[i], x).state # "Moved"
  BY ReturnIs
<1>3. /\ valued = IF x = NoName THEN current ELSE load(current, Slot(x))
      /\ SameButHome(valued, given) /\ MachineInv(given)
      /\ Cleaned(code', given, flag) \in SUBSET (1..Len(given.slots))
      /\ cleaned = callDrop(given, Cleaned(code', given, flag), Plain(code', given))
      /\ SameButControl(cleaned, m2)
  BY <1>1 DEF ReturnFacts
<1>4. Right(valued)
  <2>1. CASE x = NoName
    <3>1. valued.read = noRead
      BY <1>3, <2>1, AgreeIs, CurrentIs
    <3> QED BY <3>1, NothingRead
  <2>2. CASE x # NoName
    <3>1. Right(load(current, Slot(x)))
      BY <1>2, <2>2, LoadRight
    <3> QED BY <1>3, <2>2, <3>1
  <2> QED BY <2>1, <2>2
<1>5. given.read = valued.read
  BY <1>3 DEF SameButHome
<1>6. cleaned.read = given.read
  BY <1>3, DropStays
<1>7. m2.read = cleaned.read
  BY <1>3 DEF SameButControl
<1> QED BY <1>4, <1>5, <1>6, <1>7 DEF Right

\* The other statements read nothing.
LEMMA QuietReads ==
  ASSUME Agree, \/ \E n \in Name : AssignNew(n)
                \/ \E r \in RefName, x \in Name : Ref(r, x)
                \/ If \/ Else \/ EndIf \/ EndFunction
  PROVE  Right(machine')
<1> SUFFICES machine'.read = noRead
  BY NothingRead
<1>1. CASE \E n \in Name : AssignNew(n)
  BY <1>1, AssignNewIs
<1>2. CASE \E r \in RefName, x \in Name : Ref(r, x)
  BY <1>2, RefIs
<1>3. CASE If
  BY <1>3, IfIs
<1>4. CASE Else
  <2>1. PICK c, g, m, b : ElseFacts(c, g, m, b)
    BY <1>4, ElseIs
  <2> QED BY <2>1 DEF ElseFacts, LeaveFacts, SameButControl
<1>5. CASE EndIf
  <2>1. PICK c, g, m, r : EndIfFacts(c, g, m, r)
    BY <1>5, EndIfIs
  <2> QED BY <2>1 DEF EndIfFacts, LeaveFacts, SameButControl
<1>6. CASE EndFunction
  <2>1. PICK cleaned, flag : EndFunctionFacts(cleaned, flag)
    BY <1>6, EndFunctionIs
  <2> QED BY <2>1 DEF EndFunctionFacts
<1> QED BY <1>1, <1>2, <1>3, <1>4, <1>5, <1>6

-----------------------------------------------------------------------------
(* Every step without such a gap keeps the records of the borrows. *)

\* No move was missed, and no borrow was given back to the wrong variable.
Straight == gap \notin {"missed", "misdirected"}

\* The records of what is lent, and what was read last.
Lends == BorrowNow /\ Right(machine)

\* The steps keep the records.
LEMMA BorrowStep ==
  ASSUME Agree, Straight => Lends, [ONext]_ovars, Straight'
  PROVE  BorrowNow'
<1>1. BorrowNow
  BY GapStep DEF Worse, Straight, Lends
<1>2. gap' # "missed" /\ gap' \notin {"missed", "misdirected"}
  BY DEF Straight
<1>3. CASE UNCHANGED ovars
  BY <1>1, <1>3 DEF ovars, BorrowNow
<1>4. CASE \E n \in Name : Declares(n)
  BY <1>1, <1>2, <1>4, DeclareBorrows
<1>5. CASE \E r \in RefName, src \in Name \cup {NoName} : AssignThrough(r, src)
  BY <1>1, <1>2, <1>5, AssignThroughBorrows
<1> QED BY <1>1, <1>3, <1>4, <1>5, UseBorrows, UseRefBorrows, AssignNewBorrows, AssignBorrows,
           RefBorrows, IfBorrows, IfLetBorrows, ElseBorrows, EndIfBorrows, ReturnBorrows,
           EndFunctionBorrows
    DEF ONext, Declares

\* The steps read what is due.
LEMMA ReadStep ==
  ASSUME Follows, Straight => Lends, [ONext]_ovars, Straight'
  PROVE  Right(machine)'
<1>1. Agree /\ SoundNow /\ BorrowNow /\ Right(machine)
  BY GapStep DEF Worse, Straight, Lends, Follows
<1>2. CASE UNCHANGED ovars
  BY <1>1, <1>2 DEF ovars, Right
<1>3. CASE \E n \in Name : Declares(n)
  BY <1>1, <1>3, DeclareReads
<1> QED BY <1>1, <1>2, <1>3, UseReads, UseRefReads, AssignReads, AssignThroughReads, IfLetReads,
           ReturnReads, QuietReads
    DEF ONext, Declares

\* At first nothing is lent and nothing was read.
LEMMA LendsStarts ==
  ASSUME OInit
  PROVE  Lends
<1>1. machine.read = noRead
  BY MachineStarts DEF OInit
<1>2. blocks = <<Block("body", Sema!NoEntries, 2, TRUE, TRUE, NoName, Generator)>>
  BY DEF OInit
<1>3. \A i \in 1..Len(blocks) : \A n : ~Has(blocks, i, n)
  <2>1. Len(blocks) = 1 /\ blocks[1].names = Sema!NoEntries
    BY <1>2 DEF Block
  <2>2. DOMAIN Sema!NoEntries = {}
    BY DEF Sema!NoEntries
  <2>3. \A i \in 1..Len(blocks) : i = 1
    BY <2>1
  <2> QED BY <2>1, <2>2, <2>3 DEF Has
<1>4. BorrowNow
  BY <1>3 DEF BorrowNow, Borrowing, RefsInv, BorrowsInv
<1> QED BY <1>1, <1>4, NothingRead DEF Lends

\* The inductive invariant of ReadsSound.
Borrows == Follows /\ (Straight => Lends)

\* A variable that is read holds the value that it owns, and a reference sees what it was
\* bound to or last wrote, unless a move is missed or a borrow is given back to the wrong
\* variable.
THEOREM ReadsRight == OSpec => []ReadsSound
<1>1. OInit => Borrows
  BY AgreeStarts, SoundStarts, LendsStarts DEF Borrows, Follows
<1>2. Borrows /\ [ONext]_ovars => Borrows'
  BY AgreeStep, SoundStep, BorrowStep, ReadStep DEF Borrows, Follows, Lends
<1>3. Borrows => ReadsSound
  BY DEF Borrows, ReadsSound, Straight, Lends, Right
<1> QED BY <1>1, <1>2, <1>3, PTL DEF OSpec
=============================================================================
