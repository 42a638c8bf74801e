-------------------------- MODULE OwnershipTables --------------------------
(***************************************************************************)
(* The tables of Ownership: in every state the checker's scopes and its      *)
(* flat table, the generator's maps (with those that an if let saved) and    *)
(* the slots of the machine describe the same open blocks.                   *)
(*                                                                           *)
(* Agree is the inductive invariant for that, and the base of those in       *)
(* OwnershipProofs.  It has five parts: every block has its scopes, and the  *)
(* scopes declare what the block declares (ShapeInv); the flat table names   *)
(* the innermost declaration (TracksInv); every map in use or saved points   *)
(* at slots of its own names, and no slot is two variables' (GenInv); a      *)
(* block runs only if the one around it does (PathsInv); the slots and the   *)
(* references of the machine have their types (MachineInv, RefSlots).        *)
(*                                                                           *)
(* The states are described first, then the lemmas on the checker, the       *)
(* machine, the blocks and the generator by themselves, then for every       *)
(* statement S a lemma SIs that says what S changes, and SAgrees, that it    *)
(* keeps Agree.                                                              *)
(***************************************************************************)
EXTENDS Ownership, FiniteSetTheorems, SequenceTheorems, TLAPS

Names == Name \cup RefName

-----------------------------------------------------------------------------
(* The states of the checker, the generator and the machine. *)

States == {"Owned", "Moved", "BorrowedImmutable", "BorrowedMutable"}

Infos == [state : States, isMutable : BOOLEAN, isDropType : BOOLEAN, borrowCount : Nat,
          hasMutableBorrow : BOOLEAN, isRefBinding : BOOLEAN,
          borrowsName : Name \cup {NoName}, borrowsMutable : BOOLEAN]

\* What may be recorded of the name n.
Records(n, info) ==
  /\ info \in Infos
  /\ n \in Name => info.isDropType /\ ~info.isRefBinding /\ info.borrowsName = NoName
  /\ n \in RefName => ~info.isDropType /\ info.isRefBinding

Scopes ==
  {S \in UNION {[D -> Infos] : D \in SUBSET Names} : \A n \in DOMAIN S : Records(n, S[n])}

IsChecker(c) ==
  /\ c \in [scopes : Seq(Scopes), all : [Names -> Nat], ok : BOOLEAN]
  /\ \A n \in Names : c.all[n] # 0 =>
       c.all[n] \in 1..Len(c.scopes) /\ n \in DOMAIN c.scopes[c.all[n]]

Generators ==
  [namedValues : [Name -> Nat], varStructTypes : SUBSET Name,
   varOptionalTypes : SUBSET Name, movedVars : SUBSET Name]

Vals == Nat \cup {Nothing, Garbage}

Homes == Nat \cup {Nowhere, Caller}

SlotTypes == {"struct", "optional"}

Machines ==
  [running : BOOLEAN, returned : BOOLEAN, slots : Seq([type : SlotTypes, val : Vals]),
   home : Seq(Homes), drops : SUBSET [slot : Nat, val : Vals, home : Homes],
   read : [got : Vals, due : Vals], refs : [RefName -> [slot : Nat, sees : Vals]]]

\* A slot holds a value that was made, or none: an R always has a value.
MachineInv(m) ==
  /\ m \in Machines
  /\ \A s \in 1..Len(m.slots) :
       /\ m.slots[s].val \in DOMAIN m.home \cup {Nothing, Garbage}
       /\ m.slots[s].type = "struct" => m.slots[s].val # Nothing
-----------------------------------------------------------------------------
(* The blocks. *)

Kinds == {"body", "then", "iflet", "else"}

Entries == [type : SlotTypes \cup {"ref", "refmut"}, slot : Nat]

NameMaps == UNION {[D -> Entries] : D \in SUBSET Names}

Blocks ==
  {b \in [kind : Kinds, names : NameMaps, scope : Nat, reached : BOOLEAN, taken : BOOLEAN,
          left : BOOLEAN, binding : Name \cup {NoName}, saved : Generators] :
     /\ \A n \in DOMAIN b.names : /\ n \in Name => b.names[n].type \in SlotTypes
                                  /\ n \in RefName => b.names[n].type \in {"ref", "refmut"}
     /\ b.kind = "iflet" => b.binding \in DOMAIN b.names /\ b.binding \in Name
                            /\ b.names[b.binding].type = "struct"
     /\ b.kind # "iflet" => b.binding = NoName /\ b.saved = Generator}

Has(bs, i, n) == n \in DOMAIN bs[i].names

SlotAt(bs, i, n) == bs[i].names[n].slot

TypeAt(bs, i, n) == bs[i].names[n].type

\* The binding of an if let has a scope of its own, around that of the block.
ScopeAt(b, n) == IF n = b.binding THEN b.scope - 1 ELSE b.scope

Floor(b) == IF b.kind = "iflet" THEN b.scope - 1 ELSE b.scope

\* What the checker recorded of the name n that block b declares.
InfoAt(c, b, n) == c.scopes[ScopeAt(b, n)][n]

\* Block i is the innermost that declares n.
IsInner(bs, i, n) ==
  /\ i \in 1..Len(bs) /\ Has(bs, i, n)
  /\ \A j \in 1..Len(bs) : Has(bs, j, n) => j <= i

ShapeInv(c, bs) ==
  /\ IsChecker(c) /\ c.ok
  /\ bs \in Seq(Blocks)
  /\ \A i \in 1..Len(bs) : (bs[i].kind = "body" <=> i = 1) /\ 2 <= Floor(bs[i])
  /\ Len(bs) > 0 => bs[Len(bs)].scope = Len(c.scopes)
  /\ \A i \in 1..Len(bs) - 1 : Floor(bs[i + 1]) = bs[i].scope + 1
  /\ \A i, j \in 1..Len(bs) : i < j => bs[i].scope < Floor(bs[j])
  /\ \A i \in 1..Len(bs) :
       /\ DOMAIN c.scopes[bs[i].scope] = DOMAIN bs[i].names \ {bs[i].binding}
       /\ bs[i].kind = "iflet" => DOMAIN c.scopes[bs[i].scope - 1] = {bs[i].binding}

\* The flat table of the checker means what the blocks mean.
TracksInv(c, bs, hid) ==
  /\ hid \subseteq Name
  /\ \A n \in Names : c.all[n] # 0 =>
       \E i \in 1..Len(bs) : IsInner(bs, i, n) /\ c.all[n] = ScopeAt(bs[i], n)
  /\ \A n \in Names : \A i \in 1..Len(bs) : Has(bs, i, n) /\ n \notin hid => c.all[n] # 0
  /\ \A i, j \in 1..Len(bs), r \in RefName : Has(bs, i, r) /\ Has(bs, j, r) => i = j

-----------------------------------------------------------------------------
(* The slots of the names. *)

\* The maps of the generator that are in use or to be restored.
Map(g) == [namedValues |-> g.namedValues, varStructTypes |-> g.varStructTypes]

Maps(g, bs) == {Map(g)} \cup {Map(bs[i].saved) : i \in 1..Len(bs)}

\* In all of them, a slot below L means one name, registered in all or in none.
MapsInv(X, L) ==
  /\ \A G \in X : /\ \A a \in Name : G.namedValues[a] <= L
                  /\ \A a \in G.varStructTypes : G.namedValues[a] # 0
  /\ \A G, H \in X : \A a, b \in Name :
       G.namedValues[a] = H.namedValues[b] /\ G.namedValues[a] # 0 =>
         a = b /\ (a \in G.varStructTypes <=> a \in H.varStructTypes)

\* Block i declares n with a slot of its own, which no map gives to another name, and
\* no map that was saved before has.
SlotInv(X, bs, m, i, n) ==
  /\ SlotAt(bs, i, n) \in 1..Len(m.slots)
  /\ m.slots[SlotAt(bs, i, n)].type = TypeAt(bs, i, n)
  /\ \A j \in 1..Len(bs), k \in Name :
       Has(bs, j, k) /\ SlotAt(bs, j, k) = SlotAt(bs, i, n) => i = j /\ n = k
  /\ \A G \in X, a \in Name : G.namedValues[a] = SlotAt(bs, i, n) =>
       a = n /\ (n = bs[i].binding => n \in G.varStructTypes)
  /\ \A l \in 1..i : bs[l].saved.namedValues[n] # SlotAt(bs, i, n)

\* The innermost n has the slot that the generator uses, and will use again.
InnerInv(g, bs, hid, i, n) ==
  n \notin hid /\ IsInner(bs, i, n) =>
    /\ g.namedValues[n] = SlotAt(bs, i, n)
    /\ \A k \in i + 1..Len(bs) :
         bs[k].kind = "iflet" => bs[k].saved.namedValues[n] = SlotAt(bs, i, n)

GenInv(g, bs, m, hid) ==
  /\ g \in Generators
  /\ MapsInv(Maps(g, bs), Len(m.slots))
  /\ \A i \in 1..Len(bs), n \in Name : Has(bs, i, n) =>
       SlotInv(Maps(g, bs), bs, m, i, n) /\ InnerInv(g, bs, hid, i, n)

-----------------------------------------------------------------------------
(* Control. *)

PathsInv(m, bs) ==
  /\ m.running => ~m.returned /\ \A i \in 1..Len(bs) : bs[i].reached /\ bs[i].taken
  /\ \A i, j \in 1..Len(bs) : i < j /\ bs[j].reached => bs[i].reached /\ bs[i].taken
  /\ \A i \in 1..Len(bs) :
       bs[i].kind # "else" /\ bs[i].reached /\ ~bs[i].taken => ~m.returned

\* Control is, or will be again, in block i.
Exec(m, bs, i) == ~m.returned /\ IF i = Len(bs) THEN m.running ELSE bs[i + 1].reached

\* What a reference points to.
RefSlots(m, bs) ==
  \A i \in 1..Len(bs), r \in RefName : Has(bs, i, r) =>
    /\ SlotAt(bs, i, r) \in 1..Len(m.slots)
    /\ m.slots[SlotAt(bs, i, r)].type = "struct"
    /\ Exec(m, bs, i) => m.refs[r].slot = SlotAt(bs, i, r)

-----------------------------------------------------------------------------
(* Values. *)

\* Slot s holds a value that it owns, or nothing and owns nothing.
Holds(m, s) ==
  /\ m.slots[s].val # Garbage
  /\ m.slots[s].val \in DOMAIN m.home => m.home[m.slots[s].val] = s
  /\ \A w \in DOMAIN m.home : m.home[w] = s => w = m.slots[s].val

\* Slot s holds no value of another slot.
Fits(m, s) == m.slots[s].val \in DOMAIN m.home => m.home[m.slots[s].val] = s

\* The slots of the variables that the checker does not take for moved.
Held(c, bs, m) ==
  {s \in 1..Len(m.slots) :
     \E i \in 1..Len(bs), n \in Name :
       /\ Has(bs, i, n) /\ Exec(m, bs, i) /\ InfoAt(c, bs[i], n).state # "Moved"
       /\ s = SlotAt(bs, i, n)}

ValuesInv(c, bs, m) == \A s \in Held(c, bs, m) : Holds(m, s)

\* What will be suppressed when the maps saved by block k are restored.
MovedFrom(g, bs, k) == g.movedVars \cup UNION {bs[l].saved.movedVars : l \in k..Len(bs)}

\* The slots that a cleanup may drop, now or when maps were restored, and the bindings.
Droppable(g, bs) ==
  {g.namedValues[n] : n \in g.varStructTypes \ g.movedVars}
  \cup (UNION {{bs[k].saved.namedValues[n] :
                  n \in bs[k].saved.varStructTypes \ MovedFrom(g, bs, k)} : k \in 1..Len(bs)})
  \cup {SlotAt(bs, k, bs[k].binding) :
          k \in {j \in 1..Len(bs) : bs[j].kind = "iflet"
                                    /\ bs[j].binding \notin MovedFrom(g, bs, j + 1)}}

FitsInv(g, bs, m) ==
  ~m.returned /\ Len(bs) > 0 => \A s \in Droppable(g, bs) : Fits(m, s)

DropsInv(m) ==
  \A d \in m.drops : d.val # Garbage =>
    /\ d.val \in DOMAIN m.home
    /\ d.home # Caller
    /\ ~m.returned => m.home[d.val] = Nowhere
    /\ \A e \in m.drops : e.val = d.val => e = d

-----------------------------------------------------------------------------
(* Borrows. *)

Active(bs, fin, i, r) == Has(bs, i, r) /\ r \notin fin

\* x is the variable whose slot the reference r of block i has, as r found it.
Lent(bs, i, r, x) ==
  /\ x \in Name
  /\ \E j \in 1..i : /\ Has(bs, j, x) /\ SlotAt(bs, j, x) = SlotAt(bs, i, r)
                     /\ \A k \in j + 1..i : ~Has(bs, k, x)

\* What is recorded of a reference that is still mentioned, and what it sees.
RefInv(c, bs, m, i, r) ==
  /\ InfoAt(c, bs[i], r).borrowsMutable <=> TypeAt(bs, i, r) = "refmut"
  /\ Lent(bs, i, r, InfoAt(c, bs[i], r).borrowsName)
  /\ Exec(m, bs, i) => m.slots[SlotAt(bs, i, r)].val = m.refs[r].sees

RefsInv(c, bs, fin, m) ==
  \A i \in 1..Len(bs), r \in RefName : Has(bs, i, r) =>
    IF r \in fin THEN InfoAt(c, bs[i], r).borrowsName = NoName ELSE RefInv(c, bs, m, i, r)

Borrowers(bs, fin, s, t) ==
  {r \in RefName : \E i \in 1..Len(bs) :
     Active(bs, fin, i, r) /\ SlotAt(bs, i, r) = s /\ TypeAt(bs, i, r) = t}

BorrowInv(info, shared, mutable) ==
  /\ mutable # {} => info.hasMutableBorrow /\ shared = {}
  /\ \A r, q \in mutable : r = q
  /\ info.borrowCount >= Cardinality(shared)
  /\ shared \cup mutable # {} => info.state \in {"BorrowedImmutable", "BorrowedMutable"}

BorrowsInv(c, bs, fin) ==
  \A j \in 1..Len(bs), x \in Name : Has(bs, j, x) =>
    BorrowInv(InfoAt(c, bs[j], x), Borrowers(bs, fin, SlotAt(bs, j, x), "ref"),
              Borrowers(bs, fin, SlotAt(bs, j, x), "refmut"))

-----------------------------------------------------------------------------
(* Leaks. *)

Dropped(m, v) == \E d \in m.drops : d.val = v

Bindings(bs, k) == {bs[l].binding : l \in {j \in k..Len(bs) : bs[j].kind = "iflet"}}

Keeps(g, m, v) ==
  \E n \in g.varStructTypes \ g.movedVars :
    /\ g.namedValues[n] = m.home[v] /\ m.slots[g.namedValues[n]].val = v
    /\ m.slots[g.namedValues[n]].type = "optional" => n \in g.varOptionalTypes

\* Every block that was entered runs to its end, or to a return.
ReachedInv(bs, m) ==
  /\ \A i \in 1..Len(bs) : bs[i].reached /\ bs[i].taken /\ (bs[i].left => m.returned)
  /\ Len(bs) > 0 => (m.running <=> ~m.returned)

\* Every value is returned, dropped, or in the slot of a live name.
KeptInv(g, bs, m) ==
  \A v \in DOMAIN m.home :
    \/ m.home[v] = Caller \/ Dropped(m, v)
    \/ Len(bs) > 0 /\ ~m.returned /\ Keeps(g, m, v)

\* The maps saved by block k are those in use, without the bindings from k on.
SavedAt(g, bs, k) ==
  /\ bs[k].saved.varStructTypes = g.varStructTypes \ Bindings(bs, k)
  /\ \A n \in Name :
       bs[k].saved.namedValues[n] = IF n \in Bindings(bs, k) THEN 0 ELSE g.namedValues[n]
  /\ bs[k].saved.movedVars \subseteq g.movedVars
  /\ g.namedValues[bs[k].binding] = SlotAt(bs, k, bs[k].binding)

SavedInv(g, bs) ==
  /\ \A n \in g.movedVars : g.namedValues[n] # 0 /\ n \notin Bindings(bs, 1)
  /\ \A k \in 1..Len(bs) : bs[k].kind = "iflet" => SavedAt(g, bs, k)

LeakInv(g, bs, m) ==
  /\ ReachedInv(bs, m) /\ KeptInv(g, bs, m)
  /\ ~m.returned => SavedInv(g, bs)

-----------------------------------------------------------------------------
(* The parts of the inductive invariant. *)

Base(c, g, m, bs, hid) ==
  /\ ShapeInv(c, bs) /\ TracksInv(c, bs, hid) /\ GenInv(g, bs, m, hid)
  /\ PathsInv(m, bs) /\ MachineInv(m) /\ RefSlots(m, bs)

ScopesAgree == ShapeInv(checker, blocks)
TableAgrees == TracksInv(checker, blocks, hidden)
MapsAgree == GenInv(code, blocks, machine, hidden)
PathsAgree == PathsInv(machine, blocks)
SlotsAgree == MachineInv(machine) /\ RefSlots(machine, blocks)

-----------------------------------------------------------------------------
(* The checker. *)

\* A scope, element by element.
LEMMA ScopeIs ==
  ASSUME NEW S \in Scopes
  PROVE  /\ DOMAIN S \subseteq Names /\ S = [n \in DOMAIN S |-> S[n]]
         /\ \A n \in DOMAIN S : Records(n, S[n]) /\ S[n] \in Infos
BY DEF Scopes, Records

\* A record of each of some variables is a scope of the checker.
LEMMA ScopeMade ==
  ASSUME NEW S, DOMAIN S \subseteq Names, S = [n \in DOMAIN S |-> S[n]],
         \A n \in DOMAIN S : Records(n, S[n])
  PROVE  S \in Scopes
<1>1. S \in [DOMAIN S -> Infos]
  BY DEF Records
<1>2. S \in UNION {[D -> Infos] : D \in SUBSET Names}
  BY <1>1
<1> QED BY <1>2 DEF Scopes

\* What a state of the checker consists of.
LEMMA CheckerIs ==
  ASSUME NEW c, IsChecker(c)
  PROVE  /\ c = [scopes |-> c.scopes, all |-> c.all, ok |-> c.ok]
         /\ c.scopes \in Seq(Scopes) /\ c.all \in [Names -> Nat] /\ c.ok \in BOOLEAN
         /\ Len(c.scopes) \in Nat /\ DOMAIN c.scopes = 1..Len(c.scopes)
         /\ \A k \in 1..Len(c.scopes) : c.scopes[k] \in Scopes
BY DEF IsChecker

\* A stack of scopes, with a table that points into it, is a state of the checker.
LEMMA CheckerMade ==
  ASSUME NEW c, NEW S \in Seq(Scopes), NEW A \in [Names -> Nat], NEW o \in BOOLEAN,
         c = [scopes |-> S, all |-> A, ok |-> o],
         \A n \in Names : A[n] # 0 => A[n] \in 1..Len(S) /\ n \in DOMAIN S[A[n]]
  PROVE  IsChecker(c)
BY DEF IsChecker

\* What setInfo does, and that it keeps the checker's state a state.
LEMMA SetInfoIs ==
  ASSUME NEW c, IsChecker(c), NEW n \in Names, c.all[n] # 0,
         NEW info, Records(n, info), NEW d, d = Sema!setInfo(c, n, info)
  PROVE  /\ IsChecker(d) /\ d.all = c.all /\ d.ok = c.ok
         /\ Len(d.scopes) = Len(c.scopes)
         /\ \A k \in 1..Len(c.scopes) :
              /\ DOMAIN d.scopes[k] = DOMAIN c.scopes[k]
              /\ \A x \in DOMAIN c.scopes[k] :
                   d.scopes[k][x] = IF k = c.all[n] /\ x = n THEN info ELSE c.scopes[k][x]
<1> DEFINE k0 == c.all[n]
           S0 == [c.scopes[k0] EXCEPT ![n] = info]
<1>1. k0 \in 1..Len(c.scopes) /\ n \in DOMAIN c.scopes[k0] /\ c.scopes[k0] \in Scopes
  BY CheckerIs DEF IsChecker
<1>2. d = [c EXCEPT !.scopes = [c.scopes EXCEPT ![k0] = S0]]
  BY DEF Sema!setInfo
<1>3. S0 \in Scopes
  <2>1. /\ DOMAIN c.scopes[k0] \subseteq Names
        /\ \A x \in DOMAIN c.scopes[k0] : Records(x, c.scopes[k0][x])
    BY <1>1, ScopeIs
  <2>2. DOMAIN S0 = DOMAIN c.scopes[k0] /\ S0 = [x \in DOMAIN S0 |-> S0[x]]
    OBVIOUS
  <2>3. \A x \in DOMAIN S0 : Records(x, S0[x])
    BY <2>1
  <2> QED BY <2>1, <2>2, <2>3, ScopeMade
<1>4. /\ DOMAIN S0 = DOMAIN c.scopes[k0]
      /\ \A x \in DOMAIN c.scopes[k0] : S0[x] = IF x = n THEN info ELSE c.scopes[k0][x]
  OBVIOUS
<1> HIDE DEF S0
<1>5. /\ d.scopes = [c.scopes EXCEPT ![k0] = S0] /\ d.all = c.all /\ d.ok = c.ok
      /\ d = [scopes |-> d.scopes, all |-> d.all, ok |-> d.ok]
  BY <1>2, CheckerIs, ZenonT(60)
<1>6. d.scopes \in Seq(Scopes) /\ Len(d.scopes) = Len(c.scopes)
  BY <1>1, <1>3, <1>5, CheckerIs, ExceptSeq
<1>7. \A k \in 1..Len(c.scopes) : d.scopes[k] = IF k = k0 THEN S0 ELSE c.scopes[k]
  BY <1>5, CheckerIs
<1>8. \A k \in 1..Len(c.scopes) :
        /\ DOMAIN d.scopes[k] = DOMAIN c.scopes[k]
        /\ \A x \in DOMAIN c.scopes[k] :
             d.scopes[k][x] = IF k = c.all[n] /\ x = n THEN info ELSE c.scopes[k][x]
  BY <1>7, <1>4
<1>9. IsChecker(d)
  <2>1. \A x \in Names : d.all[x] # 0 =>
          d.all[x] \in 1..Len(d.scopes) /\ x \in DOMAIN d.scopes[d.all[x]]
    BY <1>5, <1>6, <1>8 DEF IsChecker
  <2> QED BY <2>1, <1>5, <1>6, CheckerIs, CheckerMade, ZenonT(60)
<1> QED BY <1>5, <1>6, <1>8, <1>9

\* What trackVariable does.
LEMMA TrackIs ==
  ASSUME NEW c, IsChecker(c), Len(c.scopes) > 0, NEW n \in Names, NEW info, Records(n, info),
         NEW d, d = Sema!trackVariable(c, n, info)
  PROVE  /\ IsChecker(d) /\ d.ok = c.ok /\ Len(d.scopes) = Len(c.scopes)
         /\ \A x \in Names : d.all[x] = IF x = n THEN Len(c.scopes) ELSE c.all[x]
         /\ \A k \in 1..Len(c.scopes) :
              DOMAIN d.scopes[k] =
                DOMAIN c.scopes[k] \cup (IF k = Len(c.scopes) THEN {n} ELSE {})
         /\ d.scopes[Len(c.scopes)][n] = info
         /\ \A k \in 1..Len(c.scopes) : \A x \in DOMAIN c.scopes[k] :
              k # Len(c.scopes) \/ x # n => d.scopes[k][x] = c.scopes[k][x]
<1> DEFINE top == Len(c.scopes)
           S0 == Sema!With(c.scopes[top], n, info)
<1>1. top \in 1..Len(c.scopes) /\ c.scopes[top] \in Scopes
  BY CheckerIs
<1>2. d = [c EXCEPT !.scopes = [c.scopes EXCEPT ![top] = S0], !.all = [c.all EXCEPT ![n] = top]]
  BY DEF Sema!trackVariable
<1>3. /\ DOMAIN S0 = DOMAIN c.scopes[top] \cup {n} /\ S0 = [x \in DOMAIN S0 |-> S0[x]]
      /\ S0[n] = info /\ \A x \in DOMAIN c.scopes[top] : x # n => S0[x] = c.scopes[top][x]
  BY DEF Sema!With
<1>4. S0 \in Scopes
  <2> HIDE DEF S0
  <2>1. /\ DOMAIN c.scopes[top] \subseteq Names
        /\ \A x \in DOMAIN c.scopes[top] : Records(x, c.scopes[top][x])
    BY <1>1, ScopeIs
  <2>3. \A x \in DOMAIN S0 : Records(x, S0[x])
    BY <2>1, <1>3
  <2> QED BY <2>1, <2>3, <1>3, ScopeMade
<1> HIDE DEF S0
<1>5. /\ d.scopes = [c.scopes EXCEPT ![top] = S0] /\ d.all = [c.all EXCEPT ![n] = top]
      /\ d.ok = c.ok /\ d = [scopes |-> d.scopes, all |-> d.all, ok |-> d.ok]
  BY <1>2, CheckerIs, ZenonT(60)
<1>6. d.scopes \in Seq(Scopes) /\ Len(d.scopes) = Len(c.scopes)
  BY <1>1, <1>4, <1>5, CheckerIs, ExceptSeq
<1>7. \A k \in 1..Len(c.scopes) : d.scopes[k] = IF k = top THEN S0 ELSE c.scopes[k]
  BY <1>5, CheckerIs
<1>8. \A x \in Names : d.all[x] = IF x = n THEN Len(c.scopes) ELSE c.all[x]
  BY <1>5, CheckerIs
<1>9. \A k \in 1..Len(c.scopes) :
        DOMAIN d.scopes[k] = DOMAIN c.scopes[k] \cup (IF k = top THEN {n} ELSE {})
  BY <1>7, <1>3
<1>10. d.scopes[Len(c.scopes)][n] = info
  BY <1>7, <1>3, <1>1
<1>11. \A k \in 1..Len(c.scopes) : \A x \in DOMAIN c.scopes[k] :
              k # Len(c.scopes) \/ x # n => d.scopes[k][x] = c.scopes[k][x]
  BY <1>7, <1>3
<1>12. IsChecker(d)
  <2>1. d.all \in [Names -> Nat]
    BY <1>5, <1>1, CheckerIs
  <2>2. ASSUME NEW x \in Names, d.all[x] # 0
        PROVE  d.all[x] \in 1..Len(d.scopes) /\ x \in DOMAIN d.scopes[d.all[x]]
    <3>1. CASE x = n
      BY <3>1, <1>8, <1>9, <1>6, <1>1
    <3>2. CASE x # n
      BY <3>2, <2>2, <1>8, <1>9, <1>6 DEF IsChecker
    <3> QED BY <3>1, <3>2
  <2>3. \A x \in Names : d.all[x] # 0 =>
          d.all[x] \in 1..Len(d.scopes) /\ x \in DOMAIN d.scopes[d.all[x]]
    BY <2>2
  <2>4. /\ d.scopes \in Seq(Scopes) /\ d.all \in [Names -> Nat] /\ d.ok \in BOOLEAN
        /\ d = [scopes |-> d.scopes, all |-> d.all, ok |-> d.ok]
    BY <2>1, <1>5, <1>6, CheckerIs
  <2> QED BY <2>3, <2>4, CheckerMade
<1> QED BY <1>5, <1>6, <1>8, <1>9, <1>10, <1>11, <1>12

\* What pushOwnershipScope does.
LEMMA PushScopeIs ==
  ASSUME NEW c, IsChecker(c), NEW d, d = Sema!pushOwnershipScope(c)
  PROVE  /\ IsChecker(d) /\ d.ok = c.ok /\ d.all = c.all
         /\ Len(d.scopes) = Len(c.scopes) + 1
         /\ \A k \in 1..Len(c.scopes) : d.scopes[k] = c.scopes[k]
         /\ DOMAIN d.scopes[Len(c.scopes) + 1] = {}
<1> DEFINE S0 == Sema!NoEntries
<1>1. DOMAIN S0 = {} /\ S0 = [n \in DOMAIN S0 |-> S0[n]]
  BY DEF Sema!NoEntries
<1>2. S0 \in Scopes
  BY <1>1, ScopeMade
<1>3. d = [c EXCEPT !.scopes = Append(c.scopes, S0)]
  BY DEF Sema!pushOwnershipScope
<1> HIDE DEF S0
<1>4. /\ d.scopes = Append(c.scopes, S0) /\ d.all = c.all /\ d.ok = c.ok
      /\ d = [scopes |-> d.scopes, all |-> d.all, ok |-> d.ok]
  BY <1>3, CheckerIs, ZenonT(60)
<1>5. /\ d.scopes \in Seq(Scopes) /\ Len(d.scopes) = Len(c.scopes) + 1
      /\ \A k \in 1..Len(c.scopes) : d.scopes[k] = c.scopes[k]
      /\ d.scopes[Len(c.scopes) + 1] = S0
  BY <1>4, <1>2, CheckerIs, AppendProperties
<1>6. IsChecker(d)
  <2>1. \A x \in Names : d.all[x] # 0 =>
          d.all[x] \in 1..Len(d.scopes) /\ x \in DOMAIN d.scopes[d.all[x]]
    BY <1>4, <1>5, CheckerIs DEF IsChecker
  <2> QED BY <2>1, <1>4, <1>5, CheckerIs, CheckerMade, ZenonT(60)
<1> QED BY <1>1, <1>4, <1>5, <1>6

\* d is c with another record of the name n.
SetAt(c, d, n, info) ==
  /\ IsChecker(d) /\ d.all = c.all /\ d.ok = c.ok
  /\ Len(d.scopes) = Len(c.scopes)
  /\ \A k \in 1..Len(c.scopes) :
       /\ DOMAIN d.scopes[k] = DOMAIN c.scopes[k]
       /\ \A x \in DOMAIN c.scopes[k] :
            d.scopes[k][x] = IF k = c.all[n] /\ x = n THEN info ELSE c.scopes[k][x]

Borrowed(info, mutable) ==
  IF mutable THEN [info EXCEPT !.hasMutableBorrow = TRUE, !.state = "BorrowedMutable"]
  ELSE [info EXCEPT !.borrowCount = @ + 1, !.state = "BorrowedImmutable"]

RefInfo(x, mutable) ==
  [state |-> "Owned", isMutable |-> FALSE, isDropType |-> FALSE,
   borrowCount |-> 0, hasMutableBorrow |-> FALSE,
   isRefBinding |-> TRUE, borrowsName |-> x, borrowsMutable |-> mutable]

Less(info, mutable) ==
  LET less == IF mutable THEN [info EXCEPT !.hasMutableBorrow = FALSE]
              ELSE [info EXCEPT !.borrowCount = IF @ > 0 THEN @ - 1 ELSE 0]
      clear == ~less.hasMutableBorrow /\ less.borrowCount = 0 /\ less.state # "Moved"
  IN  IF clear THEN [less EXCEPT !.state = "Owned"] ELSE less

Info(c, n) == c.scopes[c.all[n]][n]

\* The record the checker keeps of a tracked variable, and where it is found.
LEMMA InfoIs ==
  ASSUME NEW c, IsChecker(c), NEW n \in Names, c.all[n] # 0
  PROVE  /\ Records(n, Info(c, n)) /\ Info(c, n) \in Infos
         /\ Sema!getInfo(c, n) = Info(c, n) /\ Sema!tracked(c, n)
         /\ c.all[n] \in 1..Len(c.scopes) /\ n \in DOMAIN c.scopes[c.all[n]]
         /\ Info(c, n) = [state |-> Info(c, n).state, isMutable |-> Info(c, n).isMutable,
              isDropType |-> Info(c, n).isDropType, borrowCount |-> Info(c, n).borrowCount,
              hasMutableBorrow |-> Info(c, n).hasMutableBorrow,
              isRefBinding |-> Info(c, n).isRefBinding,
              borrowsName |-> Info(c, n).borrowsName,
              borrowsMutable |-> Info(c, n).borrowsMutable]
<1>1. c.all[n] \in 1..Len(c.scopes) /\ n \in DOMAIN c.scopes[c.all[n]] /\ c.scopes[c.all[n]] \in Scopes
  BY CheckerIs DEF IsChecker
<1>2. Records(n, Info(c, n)) /\ Info(c, n) \in Infos
  BY <1>1, ScopeIs DEF Info
<1>3. Sema!getInfo(c, n) = Info(c, n) /\ Sema!tracked(c, n)
  BY DEF Info, Sema!getInfo, Sema!tracked
<1>4. \A i \in Infos : i = [state |-> i.state, isMutable |-> i.isMutable,
              isDropType |-> i.isDropType, borrowCount |-> i.borrowCount,
              hasMutableBorrow |-> i.hasMutableBorrow,
              isRefBinding |-> i.isRefBinding,
              borrowsName |-> i.borrowsName,
              borrowsMutable |-> i.borrowsMutable]
  BY DEF Infos
<1> QED BY <1>1, <1>2, <1>3, <1>4

\* setInfo replaces the record of one variable and nothing else.
LEMMA SetInfoSets ==
  ASSUME NEW c, IsChecker(c), NEW n \in Names, c.all[n] # 0, NEW info, Records(n, info)
  PROVE  SetAt(c, Sema!setInfo(c, n, info), n, info)
BY SetInfoIs DEF SetAt

\* A rejection clears ok and nothing else.
LEMMA RejectIs ==
  ASSUME NEW c, IsChecker(c)
  PROVE  /\ Sema!Reject(c).ok = FALSE /\ Sema!Reject(c).all = c.all
         /\ Sema!Reject(c).scopes = c.scopes
         /\ Sema!Reject(c) = [scopes |-> c.scopes, all |-> c.all, ok |-> FALSE]
<1>1. Sema!Reject(c) = [c EXCEPT !.ok = FALSE]
  BY DEF Sema!Reject
<1> QED BY <1>1, CheckerIs

\* A use is accepted of a name that has not moved, and changes nothing.
LEMMA CheckUseIs ==
  ASSUME NEW c, IsChecker(c), NEW n \in Names, c.all[n] # 0, Sema!checkUse(c, n).ok
  PROVE  Sema!checkUse(c, n) = c /\ Info(c, n).state # "Moved" /\ c.ok
<1>1. Sema!checkUse(c, n) = IF Info(c, n).state = "Moved" THEN Sema!Reject(c) ELSE c
  BY InfoIs DEF Sema!checkUse
<1> QED BY <1>1, RejectIs

\* A value that is a name is accepted when it is neither moved nor borrowed, and then moved.
LEMMA VisitValueIs ==
  ASSUME NEW c, IsChecker(c), NEW x \in Name, c.all[x] # 0,
         NEW d, d = Sema!visitValue(c, x), d.ok
  PROVE  /\ c.ok /\ Info(c, x).state # "Moved"
         /\ Info(c, x).borrowCount = 0 /\ ~Info(c, x).hasMutableBorrow
         /\ SetAt(c, d, x, [Info(c, x) EXCEPT !.state = "Moved"])
         /\ Records(x, [Info(c, x) EXCEPT !.state = "Moved"])
<1>1. x # NoName /\ x \in Names
  BY NamesAssumption DEF Names
<1>2. /\ Sema!getInfo(c, x) = Info(c, x) /\ Sema!tracked(c, x) /\ Info(c, x).isDropType
      /\ Records(x, Info(c, x)) /\ Info(c, x) \in Infos
  BY <1>1, InfoIs DEF Records
<1>3. d = Sema!markMoved(Sema!checkUse(c, x), x)
  BY <1>1, <1>2 DEF Sema!visitValue
<1>4. Info(c, x).state # "Moved"
  <2> SUFFICES ASSUME Info(c, x).state = "Moved" PROVE FALSE
    OBVIOUS
  <2> DEFINE e == Sema!Reject(c)
  <2>1. Sema!checkUse(c, x) = e
    BY <1>2 DEF Sema!checkUse
  <2>2. e.ok = FALSE /\ e.all = c.all /\ e.scopes = c.scopes
    BY RejectIs
  <2>3. Sema!tracked(e, x) /\ Sema!getInfo(e, x) = Info(c, x)
    BY <2>2, <1>2 DEF Sema!tracked, Sema!getInfo, Info
  <2>4. e = [scopes |-> e.scopes, all |-> e.all, ok |-> e.ok]
    BY RejectIs
  <2> HIDE DEF e
  <2>5. d = Sema!Reject(e)
    BY <1>3, <2>1, <2>3 DEF Sema!markMoved
  <2>6. d.ok = FALSE
    BY <2>4, <2>5 DEF Sema!Reject
  <2> QED BY <2>6
<1>5. Sema!checkUse(c, x) = c
  BY <1>2, <1>4 DEF Sema!checkUse
<1>6. d = IF Info(c, x).borrowCount = 0 /\ ~Info(c, x).hasMutableBorrow
          THEN Sema!setInfo(c, x, [Info(c, x) EXCEPT !.state = "Moved"]) ELSE Sema!Reject(c)
  BY <1>2, <1>3, <1>4, <1>5 DEF Sema!markMoved
<1>7. Info(c, x).borrowCount = 0 /\ ~Info(c, x).hasMutableBorrow
  BY <1>6, RejectIs
<1>8. Records(x, [Info(c, x) EXCEPT !.state = "Moved"])
  <2>1. [Info(c, x) EXCEPT !.state = "Moved"] \in Infos
    BY <1>2 DEF Infos, States
  <2> QED BY <2>1, <1>2 DEF Records, Infos
<1>9. SetAt(c, d, x, [Info(c, x) EXCEPT !.state = "Moved"])
  BY <1>1, <1>6, <1>7, <1>8, SetInfoSets
<1> QED BY <1>4, <1>7, <1>8, <1>9 DEF SetAt

\* A borrow is accepted of a variable that is not moved, nor borrowed in a way that conflicts.
LEMMA RefDeclIs ==
  ASSUME NEW c, IsChecker(c), NEW x \in Name, c.all[x] # 0, NEW r \in RefName,
         NEW mutable \in BOOLEAN, NEW d, d = Sema!visitRefDecl(c, r, x, mutable), d.ok
  PROVE  /\ c.ok /\ Info(c, x).state # "Moved" /\ ~Info(c, x).hasMutableBorrow
         /\ mutable => Info(c, x).borrowCount = 0
         /\ Records(x, Borrowed(Info(c, x), mutable)) /\ Records(r, RefInfo(x, mutable))
         /\ \E e : /\ SetAt(c, e, x, Borrowed(Info(c, x), mutable))
                   /\ d = Sema!trackVariable(e, r, RefInfo(x, mutable))
<1>1. x # NoName /\ x \in Names /\ r \in Names /\ x \notin RefName /\ r \notin Name
  BY NamesAssumption DEF Names
<1>2. /\ Sema!getInfo(c, x) = Info(c, x) /\ Sema!tracked(c, x)
      /\ Records(x, Info(c, x)) /\ Info(c, x) \in Infos
  BY <1>1, InfoIs
<1>3. Records(x, Borrowed(Info(c, x), mutable))
  <2> DEFINE i == Info(c, x)
  <2>5. i \in Infos
    BY <1>2
  <2> HIDE DEF i
  <2>3. [i EXCEPT !.hasMutableBorrow = TRUE, !.state = "BorrowedMutable"] \in Infos
    BY <2>5 DEF Infos, States
  <2>4. [i EXCEPT !.borrowCount = @ + 1, !.state = "BorrowedImmutable"] \in Infos
    <3>1. i.borrowCount + 1 \in Nat
      BY <2>5 DEF Infos
    <3>2. \A b \in Nat : [i EXCEPT !.borrowCount = b, !.state = "BorrowedImmutable"] \in Infos
      BY <2>5 DEF Infos, States
    <3> QED BY <3>1, <3>2
  <2>1. Borrowed(Info(c, x), mutable) \in Infos
    BY <2>3, <2>4 DEF Borrowed, i
  <2> QED BY <2>1, <1>1, <1>2 DEF Records, Infos, Borrowed
<1>4. Records(r, RefInfo(x, mutable))
  BY <1>1 DEF Records, Infos, States, RefInfo
<1> DEFINE conflict == Info(c, x).hasMutableBorrow \/ (mutable /\ Info(c, x).borrowCount > 0)
           e == Sema!addBorrow(c, x, mutable)
           info == [Sema!OwnershipInfo(FALSE, FALSE) EXCEPT
                 !.isRefBinding = TRUE, !.borrowsMutable = mutable, !.borrowsName = x]
<1>5. info = RefInfo(x, mutable)
  <2> DEFINE o == [state |-> "Owned", isMutable |-> FALSE, isDropType |-> FALSE,
                   borrowCount |-> 0, hasMutableBorrow |-> FALSE, isRefBinding |-> FALSE,
                   borrowsName |-> NoName, borrowsMutable |-> FALSE]
  <2>1. Sema!OwnershipInfo(FALSE, FALSE) = o
    BY DEF Sema!OwnershipInfo
  <2>2. o \in Infos
    BY DEF Infos, States
  <2>3. [o EXCEPT !.isRefBinding = TRUE, !.borrowsMutable = mutable, !.borrowsName = x] \in Infos
    BY <2>2 DEF Infos
  <2>4. RefInfo(x, mutable) \in Infos
    BY DEF Infos, States, RefInfo
  <2>5. info \in Infos
    BY <2>1, <2>3
  <2>8. info = [o EXCEPT !.isRefBinding = TRUE, !.borrowsMutable = mutable, !.borrowsName = x]
    BY <2>1
  <2>6. /\ info.state = "Owned" /\ info.isMutable = FALSE /\ info.isDropType = FALSE
        /\ info.borrowCount = 0 /\ info.hasMutableBorrow = FALSE /\ info.isRefBinding = TRUE
        /\ info.borrowsName = x /\ info.borrowsMutable = mutable
    BY <2>8, ZenonT(60)
  <2>7. \A i \in Infos : i = [state |-> i.state, isMutable |-> i.isMutable,
              isDropType |-> i.isDropType, borrowCount |-> i.borrowCount,
              hasMutableBorrow |-> i.hasMutableBorrow,
              isRefBinding |-> i.isRefBinding,
              borrowsName |-> i.borrowsName,
              borrowsMutable |-> i.borrowsMutable]
    BY DEF Infos
  <2> HIDE DEF info
  <2> QED BY <2>5, <2>6, <2>7 DEF RefInfo
<1>6. /\ mutable => Info(c, x).isMutable
      /\ d = Sema!trackVariable(Sema!checkUse(e, x), r, RefInfo(x, mutable))
  <2>1. d = IF (mutable => Info(c, x).isMutable)
            THEN Sema!trackVariable(Sema!checkUse(e, x), r, info) ELSE Sema!Reject(c)
    BY <1>2 DEF Sema!visitRefDecl
  <2> QED BY <2>1, <1>5, RejectIs
<1>7. e = IF Info(c, x).state = "Moved" \/ conflict THEN Sema!Reject(c)
          ELSE Sema!setInfo(c, x, Borrowed(Info(c, x), mutable))
  BY <1>2 DEF Sema!addBorrow, Borrowed
<1> HIDE DEF e, info
<1>8. ASSUME e = Sema!Reject(c) PROVE FALSE
  <2>1. e.ok = FALSE /\ e = [scopes |-> e.scopes, all |-> e.all, ok |-> e.ok]
    BY <1>8, RejectIs
  <2> DEFINE f == Sema!checkUse(e, x)
  <2>2. f.ok = FALSE /\ f = [scopes |-> f.scopes, all |-> f.all, ok |-> f.ok]
    BY <2>1 DEF Sema!checkUse, Sema!Reject
  <2> HIDE DEF f
  <2>3. Sema!trackVariable(f, r, RefInfo(x, mutable)).ok = FALSE
    BY <2>2 DEF Sema!trackVariable
  <2> QED BY <2>3, <1>6 DEF f
<1>9. Info(c, x).state # "Moved" /\ ~conflict /\ e = Sema!setInfo(c, x, Borrowed(Info(c, x), mutable))
  BY <1>7, <1>8
<1>10. SetAt(c, e, x, Borrowed(Info(c, x), mutable))
  BY <1>1, <1>3, <1>9, SetInfoSets, SMTT(60)
<1>11. Info(e, x) = Borrowed(Info(c, x), mutable) /\ e.all[x] # 0 /\ IsChecker(e)
  BY <1>1, <1>10, InfoIs, ZenonT(60) DEF SetAt, Info
<1>12. Borrowed(Info(c, x), mutable).state # "Moved"
  BY <1>2 DEF Borrowed, Infos
<1>13. Sema!checkUse(e, x) = e
  BY <1>1, <1>11, <1>12, InfoIs DEF Sema!checkUse
<1>14. d = Sema!trackVariable(e, r, RefInfo(x, mutable)) /\ e.ok
  <2>1. Len(e.scopes) > 0
    BY <1>1, <1>11, InfoIs, CheckerIs
  <2>2. d = Sema!trackVariable(e, r, RefInfo(x, mutable))
    BY <1>6, <1>13
  <2> DEFINE R == RefInfo(x, mutable)
  <2>4. Records(r, R) /\ d = Sema!trackVariable(e, r, R)
    BY <1>4, <2>2
  <2> HIDE DEF R
  <2>3. e.ok
    BY <1>1, <1>11, <2>1, <2>4, TrackIs
  <2> QED BY <2>2, <2>3
<1>15. c.ok /\ (mutable => Info(c, x).borrowCount = 0)
  BY <1>2, <1>9, <1>10, <1>14 DEF SetAt, Infos
<1> QED BY <1>3, <1>4, <1>9, <1>10, <1>14, <1>15

\* What an assignment asks of its target, when its value has been visited.
LEMMA AssignIs ==
  ASSUME NEW c, IsChecker(c), NEW n \in Names, c.all[n] # 0, NEW src,
         NEW e, e = Sema!visitValue(c, src), IsChecker(e), e.all = c.all,
         NEW d, d = Sema!visitAssignExpr(c, n, src), d.ok
  PROVE  /\ d = e /\ e.ok /\ Info(e, n).state # "Moved"
         /\ Info(e, n).state \notin {"BorrowedImmutable", "BorrowedMutable"}
<1>1. Sema!getInfo(e, n) = Info(e, n) /\ Sema!tracked(c, n)
  BY InfoIs DEF Sema!tracked
<1> DEFINE w == /\ Info(e, n).isRefBinding \/ Info(e, n).isMutable
                /\ Info(e, n).state \notin {"BorrowedImmutable", "BorrowedMutable"}
<1>2. d = IF w THEN Sema!checkUse(e, n) ELSE Sema!Reject(e)
  BY <1>1 DEF Sema!visitAssignExpr
<1>3. w /\ d = Sema!checkUse(e, n)
  BY <1>2, RejectIs
<1>4. d = e /\ Info(e, n).state # "Moved" /\ e.ok
  BY <1>3, CheckUseIs
<1> QED BY <1>3, <1>4

\* The fields of a record do not change but for its state and its borrows.
SameVariable(i, j) ==
  /\ j.isMutable = i.isMutable /\ j.isDropType = i.isDropType
  /\ j.isRefBinding = i.isRefBinding /\ j.borrowsName = i.borrowsName
  /\ j.borrowsMutable = i.borrowsMutable
  /\ (j.state = "Moved" <=> i.state = "Moved")

\* A record whose fixed fields are unchanged is still one of the same variable.
LEMMA RecordsKept ==
  ASSUME NEW n, NEW i, NEW j \in Infos, Records(n, i),
         j.isDropType = i.isDropType, j.isRefBinding = i.isRefBinding,
         j.borrowsName = i.borrowsName
  PROVE  Records(n, j)
BY DEF Records

\* A record without a borrow that is given back.
LEMMA LessIs ==
  ASSUME NEW i \in Infos, NEW mutable \in BOOLEAN
  PROVE  LET j == Less(i, mutable)
             remain == IF mutable \/ i.borrowCount = 0 THEN i.borrowCount
                      ELSE i.borrowCount - 1
         IN  /\ j \in Infos /\ SameVariable(i, j)
             /\ j.borrowCount = remain
             /\ (j.hasMutableBorrow <=> (i.hasMutableBorrow /\ ~mutable))
             /\ j.state = IF ~j.hasMutableBorrow /\ remain = 0 /\ i.state # "Moved"
                          THEN "Owned" ELSE i.state
<1> DEFINE remain == IF mutable \/ i.borrowCount = 0 THEN i.borrowCount
                    ELSE i.borrowCount - 1
           less == IF mutable THEN [i EXCEPT !.hasMutableBorrow = FALSE]
                   ELSE [i EXCEPT !.borrowCount = IF @ > 0 THEN @ - 1 ELSE 0]
           j == Less(i, mutable)
<1>1. less \in Infos /\ SameVariable(i, less) /\ less.borrowCount = remain
      /\ (less.hasMutableBorrow <=> (i.hasMutableBorrow /\ ~mutable))
      /\ less.state = i.state
  <2>1. CASE mutable
    <3>1. \A b \in BOOLEAN : LET k == [i EXCEPT !.hasMutableBorrow = b]
            IN  k \in Infos /\ SameVariable(i, k) /\ k.borrowCount = i.borrowCount
                /\ (k.hasMutableBorrow <=> b) /\ k.state = i.state
      BY DEF Infos, SameVariable
    <3>2. LET k == [i EXCEPT !.hasMutableBorrow = FALSE]
            IN  k \in Infos /\ SameVariable(i, k) /\ k.borrowCount = i.borrowCount
                /\ (k.hasMutableBorrow <=> FALSE) /\ k.state = i.state
      BY <3>1, Zenon
    <3>3. less = [i EXCEPT !.hasMutableBorrow = FALSE]
      BY <2>1
    <3> HIDE DEF less
    <3> QED BY <2>1, <3>2, <3>3
  <2>2. CASE ~mutable
    <3>1. \A b \in Nat : LET k == [i EXCEPT !.borrowCount = b]
            IN  k \in Infos /\ SameVariable(i, k) /\ k.borrowCount = b
                /\ k.hasMutableBorrow = i.hasMutableBorrow /\ k.state = i.state
      BY DEF Infos, SameVariable
    <3>2. remain \in Nat /\ less = [i EXCEPT !.borrowCount = remain]
      BY <2>2 DEF Infos
    <3> HIDE DEF less, remain
    <3> QED BY <2>2, <3>1, <3>2
  <2> QED BY <2>1, <2>2
<1>2. j = IF ~less.hasMutableBorrow /\ less.borrowCount = 0 /\ less.state # "Moved"
          THEN [less EXCEPT !.state = "Owned"] ELSE less
  BY DEF Less
<1> HIDE DEF less, remain, j
<1>3. LET k == [less EXCEPT !.state = "Owned"]
      IN  k \in Infos /\ (less.state # "Moved" => SameVariable(less, k))
          /\ k.borrowCount = less.borrowCount
          /\ k.hasMutableBorrow = less.hasMutableBorrow /\ k.state = "Owned"
  BY <1>1 DEF Infos, States, SameVariable
<1>4. /\ j \in Infos /\ SameVariable(i, j) /\ j.borrowCount = remain
      /\ (j.hasMutableBorrow <=> (i.hasMutableBorrow /\ ~mutable))
  BY <1>1, <1>2, <1>3 DEF SameVariable
<1>5. j.state = IF ~j.hasMutableBorrow /\ remain = 0 /\ i.state # "Moved"
                THEN "Owned" ELSE i.state
  BY <1>1, <1>2, <1>3
<1> QED BY <1>4, <1>5 DEF j, remain

\* giveBack, for a reference whose borrow is not given back yet.
LEMMA GiveBackIs ==
  ASSUME NEW c, IsChecker(c), c.ok, NEW r \in RefName, c.all[r] # 0,
         NEW y, y = Info(c, r).borrowsName, y # NoName,
         NEW d, d = Sema!giveBack(c, r)
  PROVE  /\ IsChecker(d) /\ d.ok /\ d.all = c.all /\ Len(d.scopes) = Len(c.scopes)
         /\ y \in Name
         /\ \A k \in 1..Len(c.scopes) :
              /\ DOMAIN d.scopes[k] = DOMAIN c.scopes[k]
              /\ \A x \in DOMAIN c.scopes[k] :
                   d.scopes[k][x] =
                     IF k = c.all[r] /\ x = r
                     THEN [Info(c, r) EXCEPT !.borrowsName = NoName]
                     ELSE IF k = c.all[y] /\ x = y
                          THEN Less(Info(c, y), Info(c, r).borrowsMutable)
                          ELSE c.scopes[k][x]
<1>1. r \in Names /\ r \notin Name
  BY NamesAssumption DEF Names
<1>2. /\ Sema!getInfo(c, r) = Info(c, r) /\ Records(r, Info(c, r)) /\ Info(c, r) \in Infos
  BY <1>1, InfoIs
<1>3. y \in Name /\ y \in Names /\ Info(c, r).borrowsMutable \in BOOLEAN /\ y # r
  BY <1>1, <1>2 DEF Infos, Names
<1> DEFINE mut == Info(c, r).borrowsMutable
           freed == Sema!releaseBorrow(c, y, mut)
           given == [Info(c, r) EXCEPT !.borrowsName = NoName]
<1>4. d = Sema!setInfo(freed, r, given)
  BY <1>2 DEF Sema!giveBack
<1>5. Records(r, given)
  <2>1. given \in Infos /\ given.isDropType = Info(c, r).isDropType
        /\ given.isRefBinding = Info(c, r).isRefBinding
    BY <1>2 DEF Infos
  <2> QED BY <2>1, <1>1, <1>2 DEF Records
<1>6. CASE c.all[y] = 0
  <2>1. freed = c
    BY <1>6 DEF Sema!releaseBorrow, Sema!tracked
  <2> HIDE DEF freed, given
  <2>2. SetAt(c, d, r, given)
    BY <1>1, <1>4, <1>5, <2>1, SetInfoSets
  <2>3. \A k \in 1..Len(c.scopes) : k # c.all[y]
    BY <1>6
  <2>4. IsChecker(d) /\ d.ok /\ d.all = c.all /\ Len(d.scopes) = Len(c.scopes)
    BY <2>2 DEF SetAt
  <2>5. \A k \in 1..Len(c.scopes) :
              /\ DOMAIN d.scopes[k] = DOMAIN c.scopes[k]
              /\ \A x \in DOMAIN c.scopes[k] :
                   d.scopes[k][x] = IF k = c.all[r] /\ x = r THEN given ELSE c.scopes[k][x]
    BY <2>2 DEF SetAt
  <2> QED BY <1>3, <2>3, <2>4, <2>5 DEF given
<1>7. CASE c.all[y] # 0
  <2>1. /\ Sema!getInfo(c, y) = Info(c, y) /\ Sema!tracked(c, y)
        /\ Records(y, Info(c, y)) /\ Info(c, y) \in Infos
    BY <1>3, <1>7, InfoIs
  <2>2. freed = Sema!setInfo(c, y, Less(Info(c, y), mut))
    BY <2>1 DEF Sema!releaseBorrow, Less
  <2>3. Records(y, Less(Info(c, y), mut))
    <3> DEFINE l == Less(Info(c, y), mut)
    <3>1. l \in Infos /\ SameVariable(Info(c, y), l)
      BY <1>3, <2>1, LessIs
    <3> HIDE DEF l
    <3>2. Records(y, l)
      BY <3>1, <2>1, RecordsKept DEF SameVariable
    <3> QED BY <3>2 DEF l
  <2>4. SetAt(c, freed, y, Less(Info(c, y), mut))
    BY <1>3, <1>7, <2>2, <2>3, SetInfoSets
  <2> DEFINE l == Less(Info(c, y), mut)
  <2> HIDE DEF freed, given, l
  <2>5. IsChecker(freed) /\ freed.all = c.all /\ freed.ok
    BY <2>4 DEF SetAt
  <2>6. SetAt(freed, d, r, given)
    BY <1>1, <1>4, <1>5, <2>5, SetInfoSets
  <2>7. IsChecker(d) /\ d.ok /\ d.all = c.all /\ Len(d.scopes) = Len(c.scopes)
    BY <2>4, <2>5, <2>6 DEF SetAt
  <2>8. \A k \in 1..Len(c.scopes) :
          /\ DOMAIN freed.scopes[k] = DOMAIN c.scopes[k]
          /\ \A x \in DOMAIN c.scopes[k] :
               freed.scopes[k][x] = IF k = c.all[y] /\ x = y THEN l ELSE c.scopes[k][x]
    BY <2>4 DEF SetAt, l
  <2>9. \A k \in 1..Len(c.scopes) :
          /\ DOMAIN d.scopes[k] = DOMAIN c.scopes[k]
          /\ \A x \in DOMAIN c.scopes[k] :
               d.scopes[k][x] = IF k = c.all[r] /\ x = r THEN given ELSE freed.scopes[k][x]
    BY <2>4, <2>5, <2>6, <2>8 DEF SetAt
  <2>10. \A k \in 1..Len(c.scopes) :
          /\ DOMAIN d.scopes[k] = DOMAIN c.scopes[k]
          /\ \A x \in DOMAIN c.scopes[k] :
               d.scopes[k][x] = IF k = c.all[r] /\ x = r THEN given
                                ELSE IF k = c.all[y] /\ x = y THEN l ELSE c.scopes[k][x]
    BY <2>8, <2>9
  <2> QED BY <1>3, <2>7, <2>10 DEF given, l
<1> QED BY <1>6, <1>7

-----------------------------------------------------------------------------
(* The end of a scope. *)

\* The bindings of the innermost scope that hold a borrow of n.
Holders(c, n) ==
  {r \in DOMAIN c.scopes[Len(c.scopes)] : c.scopes[Len(c.scopes)][r].borrowsName = n}

Mutably(c) ==
  [r \in DOMAIN c.scopes[Len(c.scopes)] |-> c.scopes[Len(c.scopes)][r].borrowsMutable]

\* The references that drop out of the innermost scope are finitely many.
LEMMA HoldersAre ==
  ASSUME NEW c, IsChecker(c), Len(c.scopes) > 0, NEW n \in Names
  PROVE  /\ IsFiniteSet(Holders(c, n)) /\ Holders(c, n) \subseteq RefName
         /\ n \in RefName => Holders(c, n) = {}
         /\ \A r \in Holders(c, n) : Mutably(c)[r] \in BOOLEAN
<1>1. /\ c.scopes[Len(c.scopes)] \in Scopes
  BY CheckerIs
<1>2. \A r \in DOMAIN c.scopes[Len(c.scopes)] :
        /\ r \in Names /\ Records(r, c.scopes[Len(c.scopes)][r])
        /\ c.scopes[Len(c.scopes)][r] \in Infos
  BY <1>1, ScopeIs
<1>3. n # NoName /\ (n \in RefName => n \notin Name)
  BY NamesAssumption DEF Names
<1>4. Holders(c, n) \subseteq RefName
  BY <1>2, <1>3 DEF Holders, Records, Names
<1>5. n \in RefName => Holders(c, n) = {}
  BY <1>2, <1>3 DEF Holders, Infos
<1>6. \A r \in Holders(c, n) : Mutably(c)[r] \in BOOLEAN
  BY <1>2 DEF Holders, Mutably, Infos
<1>7. IsFiniteSet(Holders(c, n))
  BY <1>4, NamesAssumption, FS_Subset
<1> QED BY <1>4, <1>5, <1>6, <1>7

\* The checker's instance counts sets as this module does.
LEMMA SameCardinality == \A S : Sema!Cardinality(S) = Cardinality(S)
BY DEF Cardinality, Sema!Cardinality

\* What released leaves of a record, field by field.
LEMMA ReleasedIs ==
  ASSUME NEW i \in Infos, NEW R, IsFiniteSet(R), NEW mutably, \A r \in R : mutably[r] \in BOOLEAN
  PROVE  LET j == Sema!released(i, R, mutably)
             shared == Cardinality({r \in R : ~mutably[r]})
             remain == IF i.borrowCount > shared THEN i.borrowCount - shared ELSE 0
         IN  /\ shared \in Nat /\ j \in Infos /\ SameVariable(i, j)
             /\ j.borrowCount = remain
             /\ (j.hasMutableBorrow <=> (i.hasMutableBorrow /\ \A r \in R : ~mutably[r]))
             /\ j.state = IF R # {} /\ ~j.hasMutableBorrow /\ remain = 0 /\ i.state # "Moved"
                          THEN "Owned" ELSE i.state
<1> DEFINE shared == Cardinality({r \in R : ~mutably[r]})
           remain == IF i.borrowCount > shared THEN i.borrowCount - shared ELSE 0
           free == \A r \in R : ~mutably[r]
           less == [i EXCEPT !.borrowCount = IF @ > shared THEN @ - shared ELSE 0,
                             !.hasMutableBorrow = @ /\ \A r \in R : ~mutably[r]]
           j == Sema!released(i, R, mutably)
<1>1. shared \in Nat
  <2>1. {r \in R : ~mutably[r]} \subseteq R
    OBVIOUS
  <2>2. IsFiniteSet({r \in R : ~mutably[r]})
    BY <2>1, FS_Subset
  <2> QED BY <2>2, FS_CardinalityType
<1>2. remain \in Nat
  BY <1>1 DEF Infos
<1>3. less = [i EXCEPT !.borrowCount = remain, !.hasMutableBorrow = (i.hasMutableBorrow /\ free)]
  OBVIOUS
<1>4. j = IF R # {} /\ ~less.hasMutableBorrow /\ less.borrowCount = 0 /\ less.state # "Moved"
          THEN [less EXCEPT !.state = "Owned"] ELSE less
  BY SameCardinality DEF Sema!released
<1> HIDE DEF shared, free, less, j, remain
<1>5. \A b \in BOOLEAN : LET k == [i EXCEPT !.borrowCount = remain, !.hasMutableBorrow = b]
        IN  k \in Infos /\ SameVariable(i, k) /\ k.borrowCount = remain
            /\ (k.hasMutableBorrow <=> b) /\ k.state = i.state
  BY <1>2 DEF Infos, SameVariable
<1>6. /\ less \in Infos /\ SameVariable(i, less) /\ less.borrowCount = remain
      /\ (less.hasMutableBorrow <=> (i.hasMutableBorrow /\ free)) /\ less.state = i.state
  <2>1. (i.hasMutableBorrow /\ free) \in BOOLEAN
    OBVIOUS
  <2> QED BY <1>3, <1>5, <2>1, Zenon
<1>7. LET k == [less EXCEPT !.state = "Owned"]
      IN  k \in Infos /\ (less.state # "Moved" => SameVariable(less, k))
          /\ k.borrowCount = less.borrowCount
          /\ k.hasMutableBorrow = less.hasMutableBorrow /\ k.state = "Owned"
  BY <1>6 DEF Infos, States, SameVariable
<1>8. /\ j \in Infos /\ SameVariable(i, j) /\ j.borrowCount = remain
      /\ (j.hasMutableBorrow <=> (i.hasMutableBorrow /\ free))
  BY <1>4, <1>6, <1>7 DEF SameVariable
<1>9. j.state = IF R # {} /\ ~j.hasMutableBorrow /\ remain = 0 /\ i.state # "Moved"
                THEN "Owned" ELSE i.state
  BY <1>4, <1>6, <1>7
<1> QED BY <1>1, <1>8, <1>9 DEF j, remain, shared, free

\* A record stays one when borrows of it are given back.
LEMMA ReleasedKeeps ==
  ASSUME NEW i \in Infos, NEW R, IsFiniteSet(R), NEW mutably, \A r \in R : mutably[r] \in BOOLEAN
  PROVE  /\ Sema!released(i, R, mutably) \in Infos
         /\ SameVariable(i, Sema!released(i, R, mutably))
BY ReleasedIs, Zenon

\* dropScopeVariables, entry by entry.
LEMMA DropIs ==
  ASSUME NEW c, IsChecker(c), c.ok, Len(c.scopes) > 0, NEW d, d = Sema!dropScopeVariables(c)
  PROVE  /\ IsChecker(d) /\ d.ok /\ Len(d.scopes) = Len(c.scopes) - 1
         /\ \A n \in Names :
              d.all[n] = IF n \in DOMAIN c.scopes[Len(c.scopes)] THEN 0 ELSE c.all[n]
         /\ \A k \in 1..Len(c.scopes) - 1 :
              /\ DOMAIN d.scopes[k] = DOMAIN c.scopes[k]
              /\ \A x \in DOMAIN c.scopes[k] :
                   d.scopes[k][x] =
                     IF x \notin DOMAIN c.scopes[Len(c.scopes)] /\ c.all[x] = k
                     THEN Sema!released(c.scopes[k][x], Holders(c, x), Mutably(c))
                     ELSE c.scopes[k][x]
<1> DEFINE top == Len(c.scopes)
           scope == c.scopes[top]
           E(k, x) == IF x \notin DOMAIN scope /\ c.all[x] = k
                      THEN Sema!released(c.scopes[k][x], Holders(c, x), Mutably(c))
                      ELSE c.scopes[k][x]
           S == [k \in 1..top - 1 |-> [x \in DOMAIN c.scopes[k] |-> E(k, x)]]
           A == [n \in Names |-> IF n \in DOMAIN scope THEN 0 ELSE c.all[n]]
<1>1. d = [c EXCEPT !.scopes = S, !.all = A]
  BY DEF Sema!dropScopeVariables, Holders, Mutably, Names
<1>2. top \in Nat /\ top - 1 \in Nat /\ top \in 1..top
  BY CheckerIs
<1>3. ASSUME NEW k \in 1..top - 1
      PROVE  /\ c.scopes[k] \in Scopes /\ S[k] \in Scopes
             /\ S[k] = [x \in DOMAIN c.scopes[k] |-> E(k, x)]
  <2>1. c.scopes[k] \in Scopes
    BY <1>2, CheckerIs
  <2>2. S[k] = [x \in DOMAIN c.scopes[k] |-> E(k, x)]
    OBVIOUS
  <2>3. ASSUME NEW x \in DOMAIN c.scopes[k]
        PROVE  Records(x, E(k, x)) /\ x \in Names
    <3>1. x \in Names /\ Records(x, c.scopes[k][x]) /\ c.scopes[k][x] \in Infos
      BY <2>1, ScopeIs
    <3> DEFINE j == Sema!released(c.scopes[k][x], Holders(c, x), Mutably(c))
    <3>4. /\ IsFiniteSet(Holders(c, x)) /\ \A r \in Holders(c, x) : Mutably(c)[r] \in BOOLEAN
      BY <3>1, HoldersAre
    <3>2. /\ j \in Infos /\ SameVariable(c.scopes[k][x], j)
      BY <3>1, <3>4, ReleasedKeeps
    <3> HIDE DEF j
    <3>3. Records(x, j)
      BY <3>1, <3>2, RecordsKept DEF SameVariable
    <3> QED BY <3>1, <3>3 DEF j
  <2> HIDE DEF E
  <2> DEFINE f == [x \in DOMAIN c.scopes[k] |-> E(k, x)]
  <2>4. DOMAIN f = DOMAIN c.scopes[k] /\ \A x \in DOMAIN f : Records(x, f[x]) /\ x \in Names
    BY <2>3
  <2>5. f = [x \in DOMAIN f |-> f[x]]
    OBVIOUS
  <2> HIDE DEF f, S
  <2>6. f \in Scopes
    BY <2>4, <2>5, ScopeMade
  <2> QED BY <2>1, <2>2, <2>6 DEF f
<1>4. /\ d.scopes = S /\ d.all = A /\ d.ok = c.ok
      /\ d = [scopes |-> d.scopes, all |-> d.all, ok |-> d.ok]
  <2> HIDE DEF S, A
  <2> QED BY <1>1, CheckerIs
<1>5. S \in Seq(Scopes) /\ Len(S) = top - 1
  <2>1. S = [k \in 1..top - 1 |-> S[k]] /\ \A k \in 1..top - 1 : S[k] \in Scopes
    BY <1>3
  <2> HIDE DEF S
  <2> QED BY <1>2, <2>1, IsASeq
<1>6. A \in [Names -> Nat] /\ \A n \in Names : A[n] = IF n \in DOMAIN scope THEN 0 ELSE c.all[n]
  <2>1. \A n \in Names : c.all[n] \in Nat
    BY CheckerIs
  <2> QED BY <2>1
<1>7. \A k \in 1..top - 1 :
        /\ DOMAIN S[k] = DOMAIN c.scopes[k]
        /\ \A x \in DOMAIN c.scopes[k] : S[k][x] = E(k, x)
  <2> HIDE DEF E
  <2> QED BY <1>3
<1> HIDE DEF S, A, E
<1>8. \A n \in Names : A[n] # 0 => A[n] \in 1..Len(S) /\ n \in DOMAIN S[A[n]]
  <2> SUFFICES ASSUME NEW n \in Names, A[n] # 0
               PROVE  A[n] \in 1..Len(S) /\ n \in DOMAIN S[A[n]]
    OBVIOUS
  <2>1. n \notin DOMAIN scope /\ A[n] = c.all[n]
    BY <1>6
  <2>2. c.all[n] \in 1..top /\ n \in DOMAIN c.scopes[c.all[n]]
    BY <2>1 DEF IsChecker
  <2>3. c.all[n] # top
    BY <2>1, <2>2
  <2>4. c.all[n] \in 1..top - 1
    BY <1>2, <2>2, <2>3
  <2> QED BY <1>5, <1>7, <2>1, <2>2, <2>4
<1>9. IsChecker(d)
  <2>1. d.ok \in BOOLEAN
    BY <1>4, CheckerIs
  <2> QED BY <1>4, <1>5, <1>6, <1>8, <2>1, CheckerMade
<1>10. d.ok
  BY <1>4
<1>11. \A n \in Names : d.all[n] = IF n \in DOMAIN c.scopes[Len(c.scopes)] THEN 0 ELSE c.all[n]
  BY <1>4, <1>6
<1>12. \A k \in 1..Len(c.scopes) - 1 :
              /\ DOMAIN d.scopes[k] = DOMAIN c.scopes[k]
              /\ \A x \in DOMAIN c.scopes[k] : d.scopes[k][x] = E(k, x)
  BY <1>4, <1>7
<1> QED BY <1>4, <1>5, <1>9, <1>10, <1>11, <1>12 DEF E

-----------------------------------------------------------------------------
(* The machine. *)

\* m2 is m but for the fields of memory: the slots, and the homes of the values.
SameButMemory(m, m2) ==
  /\ m2 \in Machines
  /\ (m2.running <=> m.running) /\ (m2.returned <=> m.returned)
  /\ m2.drops = m.drops /\ m2.read = m.read /\ m2.refs = m.refs

SlotRecords == [type : SlotTypes, val : Vals]

\* What a state of the machine consists of.
LEMMA MachineIs ==
  ASSUME NEW m \in Machines
  PROVE  /\ m = [running |-> m.running, returned |-> m.returned, slots |-> m.slots,
                 home |-> m.home, drops |-> m.drops, read |-> m.read, refs |-> m.refs]
         /\ m.running \in BOOLEAN /\ m.returned \in BOOLEAN
         /\ m.slots \in Seq(SlotRecords) /\ m.home \in Seq(Homes)
         /\ m.drops \in SUBSET [slot : Nat, val : Vals, home : Homes]
         /\ m.read \in [got : Vals, due : Vals]
         /\ m.refs \in [RefName -> [slot : Nat, sees : Vals]]
         /\ Len(m.slots) \in Nat /\ Len(m.home) \in Nat
         /\ DOMAIN m.slots = 1..Len(m.slots) /\ DOMAIN m.home = 1..Len(m.home)
         /\ \A s \in 1..Len(m.slots) :
              m.slots[s] \in SlotRecords /\ m.slots[s].type \in SlotTypes /\ m.slots[s].val \in Vals
         /\ \A v \in 1..Len(m.home) : m.home[v] \in Homes
         /\ Nothing \notin DOMAIN m.home /\ Garbage \notin DOMAIN m.home
<1>1. m = [running |-> m.running, returned |-> m.returned, slots |-> m.slots,
                 home |-> m.home, drops |-> m.drops, read |-> m.read, refs |-> m.refs]
  BY DEF Machines
<1>2.    /\ m.running \in BOOLEAN /\ m.returned \in BOOLEAN
         /\ m.slots \in Seq(SlotRecords) /\ m.home \in Seq(Homes)
         /\ m.drops \in SUBSET [slot : Nat, val : Vals, home : Homes]
         /\ m.read \in [got : Vals, due : Vals]
         /\ m.refs \in [RefName -> [slot : Nat, sees : Vals]]
  BY DEF Machines, SlotRecords
<1>3.    /\ Len(m.slots) \in Nat /\ Len(m.home) \in Nat
         /\ DOMAIN m.slots = 1..Len(m.slots) /\ DOMAIN m.home = 1..Len(m.home)
         /\ \A s \in 1..Len(m.slots) : m.slots[s] \in SlotRecords
         /\ \A v \in 1..Len(m.home) : m.home[v] \in Homes
  BY <1>2, ElementOfSeq, LenProperties
<1>4. \A s \in 1..Len(m.slots) : m.slots[s].type \in SlotTypes /\ m.slots[s].val \in Vals
  BY <1>3 DEF SlotRecords
<1>5. Nothing \notin DOMAIN m.home /\ Garbage \notin DOMAIN m.home
  BY <1>3, ValuesAssumption
<1> QED BY <1>1, <1>2, <1>3, <1>4, <1>5

\* Slots, homes, drops, a read and references make a state of the machine.
LEMMA MachineMade ==
  ASSUME NEW a \in BOOLEAN, NEW b \in BOOLEAN, NEW S \in Seq(SlotRecords), NEW H \in Seq(Homes),
         NEW D \in SUBSET [slot : Nat, val : Vals, home : Homes],
         NEW R \in [got : Vals, due : Vals], NEW F \in [RefName -> [slot : Nat, sees : Vals]],
         NEW m, m = [running |-> a, returned |-> b, slots |-> S, home |-> H, drops |-> D,
                     read |-> R, refs |-> F]
  PROVE  m \in Machines
BY DEF Machines, SlotRecords

\* A load changes only what was read.
LEMMA OwnedIs ==
  ASSUME NEW m \in Machines, NEW s
  PROVE  owned(m, s) \in Vals
<1>1. CASE \E v \in made(m) : m.home[v] = s
  <2>1. owned(m, s) \in DOMAIN m.home
    BY <1>1 DEF owned, made
  <2>2. DOMAIN m.home \subseteq Nat
    BY MachineIs
  <2> QED BY <2>1, <2>2 DEF Vals
<1>2. CASE ~\E v \in made(m) : m.home[v] = s
  BY <1>2 DEF owned, Vals
<1> QED BY <1>1, <1>2

SameButRead(m, m2) ==
  /\ m2 \in Machines
  /\ (m2.running <=> m.running) /\ (m2.returned <=> m.returned)
  /\ m2.slots = m.slots /\ m2.home = m.home /\ m2.drops = m.drops /\ m2.refs = m.refs

\* A change of what was read is a change of nothing else.
LEMMA ReadIs ==
  ASSUME NEW m \in Machines, NEW read \in [got : Vals, due : Vals]
  PROVE  /\ SameButRead(m, [m EXCEPT !.read = read])
         /\ [m EXCEPT !.read = read].read = read
<1> DEFINE m2 == [m EXCEPT !.read = read]
<1>1. /\ m2.running = m.running /\ m2.returned = m.returned /\ m2.slots = m.slots
      /\ m2.home = m.home /\ m2.drops = m.drops /\ m2.refs = m.refs /\ m2.read = read
  BY MachineIs
<1>2. m2 \in Machines
  BY DEF Machines
<1> QED BY <1>1, <1>2 DEF SameButRead

\* What a load of a slot reads, when code runs, and that it changes nothing else.
LEMMA LoadIs ==
  ASSUME NEW m \in Machines, NEW s, m.running => s \in 1..Len(m.slots)
  PROVE  /\ SameButRead(m, load(m, s))
         /\ m.running => load(m, s).read = [got |-> m.slots[s].val, due |-> owned(m, s)]
         /\ ~m.running => load(m, s).read = m.read
<1>1. CASE m.running
  <2> DEFINE read == [got |-> m.slots[s].val, due |-> owned(m, s)]
  <2>1. read \in [got : Vals, due : Vals]
    BY <1>1, OwnedIs, MachineIs
  <2>2. load(m, s) = [m EXCEPT !.read = read]
    BY <1>1 DEF load
  <2> HIDE DEF read
  <2>3. SameButRead(m, load(m, s)) /\ load(m, s).read = read
    BY <2>1, <2>2, ReadIs
  <2> QED BY <1>1, <2>3 DEF read
<1>2. CASE ~m.running
  <2>1. load(m, s) = m
    BY <1>2 DEF load
  <2> QED BY <1>2, <2>1 DEF SameButRead
<1> QED BY <1>1, <1>2

\* What a load through a reference reads, and that it changes nothing else.
LEMMA LoadThroughIs ==
  ASSUME NEW m \in Machines, NEW r \in RefName, m.running => m.refs[r].slot \in 1..Len(m.slots)
  PROVE  /\ SameButRead(m, loadThrough(m, r))
         /\ m.running => loadThrough(m, r).read =
              [got |-> m.slots[m.refs[r].slot].val, due |-> m.refs[r].sees]
         /\ ~m.running => loadThrough(m, r).read = m.read
<1>1. CASE m.running
  <2> DEFINE read == [got |-> m.slots[m.refs[r].slot].val, due |-> m.refs[r].sees]
  <2>1. m.refs[r].sees \in Vals
    BY MachineIs
  <2>2. read \in [got : Vals, due : Vals]
    BY <1>1, <2>1, MachineIs
  <2>3. loadThrough(m, r) = [m EXCEPT !.read = read]
    BY <1>1 DEF loadThrough
  <2> HIDE DEF read
  <2>4. SameButRead(m, loadThrough(m, r)) /\ loadThrough(m, r).read = read
    BY <2>2, <2>3, ReadIs
  <2> QED BY <1>1, <2>4 DEF read
<1>2. CASE ~m.running
  <2>1. loadThrough(m, r) = m
    BY <1>2 DEF loadThrough
  <2> QED BY <1>2, <2>1 DEF SameButRead
<1> QED BY <1>1, <1>2

\* An alloca appends one slot with no value in it.
LEMMA AllocaIs ==
  ASSUME NEW m \in Machines, NEW t \in SlotTypes, NEW m2, m2 = createEntryBlockAlloca(m, t)
  PROVE  /\ SameButMemory(m, m2) /\ m2.home = m.home
         /\ Len(m2.slots) = Len(m.slots) + 1
         /\ \A s \in 1..Len(m.slots) : m2.slots[s] = m.slots[s]
         /\ m2.slots[Len(m.slots) + 1] = [type |-> t, val |-> Garbage]
<1> DEFINE e == [type |-> t, val |-> Garbage]
<1>1. e \in SlotRecords
  BY DEF SlotRecords, Vals
<1>2. m2 = [m EXCEPT !.slots = Append(m.slots, e)]
  BY DEF createEntryBlockAlloca
<1> HIDE DEF e
<1>3. /\ m2 = [running |-> m.running, returned |-> m.returned, slots |-> Append(m.slots, e),
               home |-> m.home, drops |-> m.drops, read |-> m.read, refs |-> m.refs]
  BY <1>2, MachineIs, ZenonT(60)
<1>4. /\ Append(m.slots, e) \in Seq(SlotRecords)
      /\ Len(Append(m.slots, e)) = Len(m.slots) + 1
      /\ \A s \in 1..Len(m.slots) : Append(m.slots, e)[s] = m.slots[s]
      /\ Append(m.slots, e)[Len(m.slots) + 1] = e
  BY <1>1, MachineIs, AppendProperties
<1>5. m2 \in Machines
  <2>1. /\ m.running \in BOOLEAN /\ m.returned \in BOOLEAN /\ m.home \in Seq(Homes)
        /\ m.drops \in SUBSET [slot : Nat, val : Vals, home : Homes]
        /\ m.read \in [got : Vals, due : Vals]
        /\ m.refs \in [RefName -> [slot : Nat, sees : Vals]]
    BY MachineIs
  <2> QED BY <1>3, <1>4, <2>1 DEF Machines, SlotRecords
<1>6. SameButMemory(m, m2) /\ m2.home = m.home /\ m2.slots = Append(m.slots, e)
  BY <1>3, <1>5 DEF SameButMemory
<1> QED BY <1>4, <1>6 DEF e

\* What a store changes: one slot, and the home of the values involved.
LEMMA StoreIs ==
  ASSUME NEW m \in Machines, m.running, NEW s \in 1..Len(m.slots),
         NEW v \in Vals, v \in Nat => v \in 1..Len(m.home) + 1,
         NEW m2, m2 = store(m, s, v)
  PROVE  /\ SameButMemory(m, m2)
         /\ Len(m2.slots) = Len(m.slots)
         /\ \A k \in 1..Len(m.slots) :
              /\ m2.slots[k].type = m.slots[k].type
              /\ m2.slots[k].val = IF k = s THEN v ELSE m.slots[k].val
         /\ Len(m2.home) = IF v = Len(m.home) + 1 THEN Len(m.home) + 1 ELSE Len(m.home)
         /\ \A w \in 1..Len(m2.home) :
              m2.home[w] = IF w = v THEN s
                           ELSE IF m.home[w] = s THEN Nowhere ELSE m.home[w]
<1> DEFINE home == IF v = fresh(m) THEN Append(m.home, s) ELSE m.home
           H == [w \in DOMAIN home |->
                   IF w = v THEN s ELSE IF home[w] = s THEN Nowhere ELSE home[w]]
           e == [m.slots[s] EXCEPT !.val = v]
           S == [m.slots EXCEPT ![s] = e]
           n == IF v = Len(m.home) + 1 THEN Len(m.home) + 1 ELSE Len(m.home)
<1>1. m2 = [m EXCEPT !.slots = S, !.home = H]
  BY DEF store
<1>2. /\ Len(m.home) \in Nat /\ DOMAIN m.home = 1..Len(m.home) /\ m.home \in Seq(Homes)
      /\ m.slots \in Seq(SlotRecords) /\ m.slots[s] \in SlotRecords /\ s \in Homes
      /\ \A w \in 1..Len(m.home) : m.home[w] \in Homes
      /\ Len(m.slots) \in Nat /\ DOMAIN m.slots = 1..Len(m.slots)
  BY MachineIs DEF Homes
<1>3. /\ DOMAIN home = 1..n /\ \A w \in 1..Len(m.home) : home[w] = m.home[w]
      /\ v = Len(m.home) + 1 => home[v] = s
  <2>1. CASE v = Len(m.home) + 1
    <3>1. home = Append(m.home, s)
      BY <2>1 DEF fresh
    <3>2. Len(Append(m.home, s)) = Len(m.home) + 1 /\ Append(m.home, s) \in Seq(Homes)
          /\ \A w \in 1..Len(m.home) : Append(m.home, s)[w] = m.home[w]
          /\ Append(m.home, s)[Len(m.home) + 1] = s
      BY <1>2, AppendProperties
    <3>3. DOMAIN Append(m.home, s) = 1..Len(m.home) + 1
      BY <3>2, LenProperties
    <3> QED BY <2>1, <3>1, <3>2, <3>3
  <2>2. CASE v # Len(m.home) + 1
    <3>1. home = m.home
      BY <2>2 DEF fresh
    <3> QED BY <2>2, <3>1, <1>2
  <2> QED BY <2>1, <2>2
<1>4. n \in Nat
  BY <1>2
<1> HIDE DEF home, n
<1>5. DOMAIN H = 1..n /\ \A w \in 1..n :
        /\ H[w] = IF w = v THEN s ELSE IF m.home[w] = s THEN Nowhere ELSE m.home[w]
        /\ H[w] \in Homes
  <2> SUFFICES ASSUME NEW w \in 1..n
               PROVE  /\ H[w] = IF w = v THEN s ELSE IF m.home[w] = s THEN Nowhere ELSE m.home[w]
                      /\ H[w] \in Homes
    BY <1>3
  <2>1. H[w] = IF w = v THEN s ELSE IF home[w] = s THEN Nowhere ELSE home[w]
    BY <1>3
  <2>2. CASE w = v
    BY <2>1, <2>2, <1>2
  <2>3. CASE w # v
    <3>1. w \in 1..Len(m.home)
      BY <2>3, <1>2 DEF n
    <3> QED BY <2>1, <2>3, <3>1, <1>2, <1>3 DEF Homes
  <2> QED BY <2>2, <2>3
<1>6. H \in Seq(Homes) /\ Len(H) = n
  <2>1. H = [w \in 1..n |-> H[w]]
    BY <1>3
  <2> HIDE DEF H
  <2> QED BY <1>4, <1>5, <2>1, IsASeq
<1>7. e \in SlotRecords /\ e.type = m.slots[s].type /\ e.val = v
  BY <1>2 DEF SlotRecords
<1> HIDE DEF e, H
<1>8. S \in Seq(SlotRecords) /\ Len(S) = Len(m.slots)
      /\ \A k \in 1..Len(m.slots) : S[k] = IF k = s THEN e ELSE m.slots[k]
  <2>1. S \in Seq(SlotRecords) /\ Len(S) = Len(m.slots)
    BY <1>2, <1>7, ExceptSeq
  <2>2. \A k \in 1..Len(m.slots) : S[k] = IF k = s THEN e ELSE m.slots[k]
    BY <1>2
  <2> QED BY <2>1, <2>2
<1> HIDE DEF S
<1>9. m2 = [running |-> m.running, returned |-> m.returned, slots |-> S,
            home |-> H, drops |-> m.drops, read |-> m.read, refs |-> m.refs]
  BY <1>1, MachineIs, ZenonT(60)
<1>10. m2 \in Machines
  <2>1. /\ m.running \in BOOLEAN /\ m.returned \in BOOLEAN
        /\ m.drops \in SUBSET [slot : Nat, val : Vals, home : Homes]
        /\ m.read \in [got : Vals, due : Vals]
        /\ m.refs \in [RefName -> [slot : Nat, sees : Vals]]
    BY MachineIs
  <2> QED BY <1>6, <1>8, <1>9, <2>1 DEF Machines, SlotRecords
<1>11. SameButMemory(m, m2) /\ m2.slots = S /\ m2.home = H
  BY <1>9, <1>10 DEF SameButMemory
<1>12. Len(m2.slots) = Len(m.slots) /\ Len(m2.home) = n
  BY <1>6, <1>8, <1>11
<1>13. \A k \in 1..Len(m.slots) :
              /\ m2.slots[k].type = m.slots[k].type
              /\ m2.slots[k].val = IF k = s THEN v ELSE m.slots[k].val
  BY <1>7, <1>8, <1>11
<1>14. \A w \in 1..Len(m2.home) :
          m2.home[w] = IF w = v THEN s
                       ELSE IF m.home[w] = s THEN Nowhere ELSE m.home[w]
  BY <1>5, <1>11, <1>12
<1> QED BY <1>11, <1>12, <1>13, <1>14 DEF n

\* Code that does not run stores nothing.
LEMMA NoStore ==
  ASSUME NEW m, ~m.running, NEW s, NEW v
  PROVE  store(m, s, v) = m
BY DEF store

\* What R_drop is called with for slot s.
Payload(m, plain, s) ==
  IF s \in plain /\ m.slots[s].type = "optional" THEN Garbage ELSE m.slots[s].val

Call(m, plain, s) ==
  [slot |-> s, val |-> Payload(m, plain, s), home |-> homeOf(m, Payload(m, plain, s))]

Calls(m, S, plain) == {Call(m, plain, s) : s \in S}

\* m2 is m after the calls of R_drop on the slots S.
DropStep(m, m2, S, plain) ==
  /\ m2 \in Machines
  /\ m2.running /\ (m2.returned <=> m.returned) /\ m2.slots = m.slots
  /\ m2.read = m.read /\ m2.refs = m.refs
  /\ m2.drops = m.drops \cup Calls(m, S, plain)
  /\ Len(m2.home) = Len(m.home)
  /\ \A s \in S : Payload(m, plain, s) \in 1..Len(m.home) =>
       m2.home[Payload(m, plain, s)] = Nowhere
  /\ \A v \in 1..Len(m.home) :
       (\A s \in S : Payload(m, plain, s) # v) => m2.home[v] = m.home[v]
  /\ \A v \in 1..Len(m.home) : m2.home[v] \in {m.home[v], Nowhere}

\* What a call of the drop functions changes: the drops, and the homes of what they dropped.
LEMMA CallDropIs ==
  ASSUME NEW m \in Machines, m.running, NEW S \in SUBSET (1..Len(m.slots)), NEW plain,
         NEW m2, m2 = callDrop(m, S, plain)
  PROVE  DropStep(m, m2, S, plain)
<1> DEFINE calls == {Call(m, plain, s) : s \in S}
           H == [v \in made(m) |-> IF \E c \in calls : c.val = v THEN Nowhere ELSE m.home[v]]
           D == m.drops \cup calls
<1>1. m2 = [m EXCEPT !.drops = D, !.home = H]
  BY DEF callDrop, Call, Payload
<1>2. /\ Len(m.home) \in Nat /\ DOMAIN m.home = 1..Len(m.home)
      /\ \A w \in 1..Len(m.home) : m.home[w] \in Homes
  BY MachineIs
<1>3. \A s \in S : /\ s \in Nat /\ Payload(m, plain, s) \in Vals
                   /\ homeOf(m, Payload(m, plain, s)) \in Homes
  <2> SUFFICES ASSUME NEW s \in S
               PROVE  /\ s \in Nat /\ Payload(m, plain, s) \in Vals
                      /\ homeOf(m, Payload(m, plain, s)) \in Homes
    OBVIOUS
  <2>1. s \in Nat /\ m.slots[s].val \in Vals
    BY MachineIs
  <2>2. Payload(m, plain, s) \in Vals
    BY <2>1 DEF Payload, Vals
  <2>3. homeOf(m, Payload(m, plain, s)) \in Homes
    BY <1>2 DEF homeOf, made, Homes
  <2> QED BY <2>1, <2>2, <2>3
<1>4. calls \in SUBSET [slot : Nat, val : Vals, home : Homes]
  BY <1>3 DEF Call
<1>5. \A v : (\E c \in calls : c.val = v) <=> \E s \in S : Payload(m, plain, s) = v
  <2>1. \A s : Call(m, plain, s).val = Payload(m, plain, s)
    BY DEF Call
  <2> QED BY <2>1
<1> HIDE DEF calls
<1>6. DOMAIN H = 1..Len(m.home) /\ \A v \in 1..Len(m.home) :
        /\ H[v] = IF \E s \in S : Payload(m, plain, s) = v THEN Nowhere ELSE m.home[v]
        /\ H[v] \in Homes
  BY <1>2, <1>5 DEF made, Homes
<1>7. H \in Seq(Homes) /\ Len(H) = Len(m.home)
  <2>1. H = [w \in 1..Len(m.home) |-> H[w]]
    BY <1>2 DEF made
  <2> HIDE DEF H
  <2> QED BY <1>2, <1>6, <2>1, IsASeq, SMTT(60)
<1>8. D \in SUBSET [slot : Nat, val : Vals, home : Homes]
  BY <1>4, MachineIs
<1> HIDE DEF H, D
<1>9. m2 = [running |-> m.running, returned |-> m.returned, slots |-> m.slots,
            home |-> H, drops |-> D, read |-> m.read, refs |-> m.refs]
  BY <1>1, MachineIs, ZenonT(60)
<1>10. m2 \in Machines
  <2>1. /\ m.running \in BOOLEAN /\ m.returned \in BOOLEAN /\ m.slots \in Seq(SlotRecords)
        /\ m.read \in [got : Vals, due : Vals]
        /\ m.refs \in [RefName -> [slot : Nat, sees : Vals]]
    BY MachineIs
  <2> QED BY <1>7, <1>8, <1>9, <2>1 DEF Machines, SlotRecords
<1>11. /\ m2.running /\ (m2.returned <=> m.returned) /\ m2.slots = m.slots
       /\ m2.read = m.read /\ m2.refs = m.refs /\ m2.drops = D /\ m2.home = H
  BY <1>9
<1>12. /\ \A s \in S : Payload(m, plain, s) \in 1..Len(m.home) =>
              m2.home[Payload(m, plain, s)] = Nowhere
       /\ \A v \in 1..Len(m.home) :
              (\A s \in S : Payload(m, plain, s) # v) => m2.home[v] = m.home[v]
       /\ \A v \in 1..Len(m.home) : m2.home[v] \in {m.home[v], Nowhere}
  BY <1>6, <1>11
<1> QED BY <1>7, <1>10, <1>11, <1>12 DEF D, calls, Calls, DropStep

\* Code that does not run drops nothing.
LEMMA NoDrop ==
  ASSUME NEW m, ~m.running, NEW S, NEW plain
  PROVE  callDrop(m, S, plain) = m
BY DEF callDrop

-----------------------------------------------------------------------------
(* The cleanup of a function. *)

LiveNames(g) == g.varStructTypes \ g.movedVars

AsOptional(g, m, n) ==
  n \in g.varOptionalTypes /\ m.slots[g.namedValues[n]].type = "optional"

Plain(g, m) == {g.namedValues[n] : n \in {x \in LiveNames(g) : ~AsOptional(g, m, x)}}

Cleaned(g, m, flag) ==
  {g.namedValues[n] : n \in
     {x \in LiveNames(g) :
        AsOptional(g, m, x) =>
          IF m.slots[g.namedValues[x]].val = Garbage THEN flag
          ELSE m.slots[g.namedValues[x]].val # Nothing}}

\* The cleanup of a function is one call of the drop functions for the slots Cleaned names.
LEMMA CleanupIs ==
  ASSUME NEW g, NEW m, NEW flag
  PROVE  emitScopeCleanup(g, m, flag) = callDrop(m, Cleaned(g, m, flag), Plain(g, m))
<1> DEFINE live == g.varStructTypes \ g.movedVars
           slot(n) == g.namedValues[n]
           isOptional(n) == n \in g.varOptionalTypes /\ m.slots[slot(n)].type = "optional"
           hasVal(n) == IF m.slots[slot(n)].val = Garbage THEN flag
                        ELSE m.slots[slot(n)].val # Nothing
           plain == {slot(n) : n \in {x \in live : ~isOptional(x)}}
           optional == {slot(n) : n \in {x \in live : isOptional(x) /\ hasVal(x)}}
<1>1. emitScopeCleanup(g, m, flag) = callDrop(m, plain \cup optional, plain)
  BY DEF emitScopeCleanup
<1>2. plain = Plain(g, m)
  BY DEF Plain, LiveNames, AsOptional
<1>3. plain \cup optional = Cleaned(g, m, flag)
  BY DEF Cleaned, LiveNames, AsOptional
<1> HIDE DEF plain, optional
<1> QED BY <1>1, <1>2, <1>3

-----------------------------------------------------------------------------
(* Values in slots. *)

\* A store keeps what other slots hold, unless the value comes from one of them.
LEMMA StoreHolds ==
  ASSUME NEW m, MachineInv(m), m.running, NEW s \in 1..Len(m.slots),
         NEW v, v \in (1..Len(m.home) + 1) \cup {Nothing},
         NEW S \in SUBSET (1..Len(m.slots)), \A k \in S : Holds(m, k),
         \A k \in S : m.slots[k].val = v /\ v \in DOMAIN m.home => k = s,
         NEW m2, m2 = store(m, s, v)
  PROVE  \A k \in S \cup {s} : Holds(m2, k)
<1> DEFINE L == Len(m.home)
<1>1. m \in Machines /\ L \in Nat /\ DOMAIN m.home = 1..L
  BY MachineIs DEF MachineInv
<1>2. v \in Vals /\ v # Garbage /\ Nothing \notin Nat /\ Garbage \notin Nat /\ Nowhere \notin Nat
  BY <1>1, ValuesAssumption DEF Vals
<1>3. /\ Len(m2.slots) = Len(m.slots)
      /\ \A k \in 1..Len(m.slots) : m2.slots[k].val = IF k = s THEN v ELSE m.slots[k].val
      /\ Len(m2.home) = IF v = L + 1 THEN L + 1 ELSE L
      /\ \A w \in 1..Len(m2.home) :
              m2.home[w] = IF w = v THEN s
                           ELSE IF m.home[w] = s THEN Nowhere ELSE m.home[w]
      /\ m2 \in Machines
  <2>1. v \in Nat => v \in 1..Len(m.home) + 1
    BY <1>2
  <2> QED BY <1>1, <1>2, <2>1, StoreIs, SMTT(60) DEF SameButMemory
<1>4. DOMAIN m2.home = 1..Len(m2.home)
  BY <1>3, MachineIs
<1> HIDE DEF L
<1> SUFFICES ASSUME NEW k \in S \cup {s} PROVE Holds(m2, k)
  OBVIOUS
<1>5. CASE k = s
  <2>1. m2.slots[k].val = v
    BY <1>3, <1>5
  <2>2. v \in DOMAIN m2.home => m2.home[v] = s
    BY <1>3, <1>4
  <2>3. \A w \in DOMAIN m2.home : m2.home[w] = s => w = v
    BY <1>2, <1>3, <1>4
  <2> QED BY <1>2, <1>5, <2>1, <2>2, <2>3 DEF Holds
<1>6. CASE k # s
  <2>1. k \in S /\ Holds(m, k) /\ m2.slots[k].val = m.slots[k].val /\ k \in 1..Len(m.slots)
    BY <1>3, <1>6
  <2>2. m.slots[k].val \in DOMAIN m.home \cup {Nothing, Garbage} /\ k # Nowhere
    BY <2>1, <1>1, <1>2 DEF MachineInv
  <2>3. ASSUME m.slots[k].val \in DOMAIN m2.home PROVE m2.home[m.slots[k].val] = k
    <3>1. m.slots[k].val \in DOMAIN m.home
      BY <2>2, <2>3, <1>1, <1>2, <1>4, SMTT(60)
    <3>2. m.home[m.slots[k].val] = k /\ m.slots[k].val # v
      BY <2>1, <3>1, <1>6 DEF Holds
    <3> QED BY <3>1, <3>2, <2>3, <1>3, <1>4, <1>6, SMTT(60)
  <2>4. ASSUME NEW w \in DOMAIN m2.home, m2.home[w] = k PROVE w = m.slots[k].val
    <3>1. w # v /\ m.home[w] = k
      BY <2>4, <1>3, <1>4, <1>6, <2>2
    <3>2. w \in DOMAIN m.home
      BY <3>1, <2>4, <1>1, <1>3, <1>4
    <3> QED BY <3>1, <3>2, <2>1 DEF Holds
  <2> QED BY <2>1, <2>3, <2>4 DEF Holds
<1> QED BY <1>5, <1>6

\* Slots that fit still fit after a store of a value none of them has.
LEMMA StoreFits ==
  ASSUME NEW m, MachineInv(m), m.running, NEW s \in 1..Len(m.slots),
         NEW v, v \in (1..Len(m.home) + 1) \cup {Nothing, Garbage},
         NEW S \in SUBSET (1..Len(m.slots)), \A k \in S : Fits(m, k),
         \A k \in S : m.slots[k].val = v /\ v \in DOMAIN m.home => k = s,
         NEW m2, m2 = store(m, s, v)
  PROVE  \A k \in S \cup {s} : Fits(m2, k)
<1> DEFINE L == Len(m.home)
<1>1. m \in Machines /\ L \in Nat /\ DOMAIN m.home = 1..L
  BY MachineIs DEF MachineInv
<1>2. v \in Vals /\ Nothing \notin Nat /\ Garbage \notin Nat
  BY <1>1, ValuesAssumption DEF Vals
<1>3. /\ Len(m2.slots) = Len(m.slots)
      /\ \A k \in 1..Len(m.slots) : m2.slots[k].val = IF k = s THEN v ELSE m.slots[k].val
      /\ Len(m2.home) = IF v = L + 1 THEN L + 1 ELSE L
      /\ \A w \in 1..Len(m2.home) :
              m2.home[w] = IF w = v THEN s
                           ELSE IF m.home[w] = s THEN Nowhere ELSE m.home[w]
      /\ m2 \in Machines
  <2>1. v \in Nat => v \in 1..Len(m.home) + 1
    BY <1>2
  <2> QED BY <1>1, <1>2, <2>1, StoreIs, SMTT(60) DEF SameButMemory
<1>4. DOMAIN m2.home = 1..Len(m2.home)
  BY <1>3, MachineIs
<1> HIDE DEF L
<1> SUFFICES ASSUME NEW k \in S \cup {s}, m2.slots[k].val \in DOMAIN m2.home
             PROVE m2.home[m2.slots[k].val] = k
  BY DEF Fits
<1>5. CASE k = s
  BY <1>3, <1>4, <1>5
<1>6. CASE k # s
  <2>1. k \in S /\ Fits(m, k) /\ m2.slots[k].val = m.slots[k].val /\ k \in 1..Len(m.slots)
    BY <1>3, <1>6
  <2>2. m.slots[k].val \in DOMAIN m.home \cup {Nothing, Garbage}
    BY <2>1, <1>1, <1>2 DEF MachineInv
  <2>3. m.slots[k].val \in DOMAIN m.home
    BY <2>1, <2>2, <1>1, <1>2, <1>4
  <2>4. m.home[m.slots[k].val] = k /\ m.slots[k].val # v
    BY <2>1, <2>3, <1>6 DEF Fits
  <2> QED BY <2>1, <2>3, <2>4, <1>3, <1>4, <1>6, ZenonT(60)
<1> QED BY <1>5, <1>6

\* Slots whose values and homes stay hold, and fit, as before.
LEMMA SameHolds ==
  ASSUME NEW m, NEW m2, NEW s, m2.slots[s] = m.slots[s], m2.home = m.home
  PROVE  /\ (Holds(m, s) => Holds(m2, s)) /\ (Fits(m, s) => Fits(m2, s))
BY DEF Holds, Fits

\* A slot that holds its value fits.
LEMMA HoldsFits ==
  ASSUME NEW m, NEW s, Holds(m, s)
  PROVE  Fits(m, s)
BY DEF Holds, Fits

\* Of two slots that fit, and have the same value, there is one.
LEMMA FitsApart ==
  ASSUME NEW m, NEW s, NEW k, Fits(m, s), Fits(m, k), m.slots[s].val = m.slots[k].val,
         m.slots[s].val \in DOMAIN m.home
  PROVE  s = k
BY DEF Fits

\* A variable that holds its value is read right.
LEMMA HoldsReads ==
  ASSUME NEW m, MachineInv(m), NEW s \in 1..Len(m.slots), Holds(m, s)
  PROVE  owned(m, s) = m.slots[s].val
<1>1. m \in Machines /\ m.slots[s].val \in DOMAIN m.home \cup {Nothing, Garbage}
      /\ Nothing \notin DOMAIN m.home
  BY MachineIs DEF MachineInv
<1>2. CASE m.slots[s].val \in DOMAIN m.home
  <2>1. \E v \in made(m) : m.home[v] = s
    BY <1>2 DEF Holds, made
  <2>2. owned(m, s) = CHOOSE v \in made(m) : m.home[v] = s
    BY <2>1 DEF owned
  <2>3. owned(m, s) \in made(m) /\ m.home[owned(m, s)] = s
    BY <2>1, <2>2
  <2> QED BY <2>3 DEF Holds, made
<1>3. CASE m.slots[s].val \notin DOMAIN m.home
  <2>1. m.slots[s].val = Nothing
    BY <1>1, <1>3 DEF Holds
  <2>2. ~\E v \in made(m) : m.home[v] = s
    BY <1>3, <2>1 DEF Holds, made
  <2> QED BY <2>1, <2>2 DEF owned
<1> QED BY <1>2, <1>3

\* drop() takes values from the slots S only.
LEMMA DropKeeps ==
  ASSUME NEW m \in Machines, m.running, NEW S \in SUBSET (1..Len(m.slots)), NEW plain,
         \A s \in S : Fits(m, s), NEW k \in 1..Len(m.slots), k \notin S,
         NEW m2, m2 = callDrop(m, S, plain)
  PROVE  (Holds(m, k) => Holds(m2, k)) /\ (Fits(m, k) => Fits(m2, k))
<1>1. /\ m2 \in Machines /\ m2.slots = m.slots /\ Len(m2.home) = Len(m.home)
      /\ \A s \in S : Payload(m, plain, s) \in 1..Len(m.home) =>
           m2.home[Payload(m, plain, s)] = Nowhere
      /\ \A v \in 1..Len(m.home) :
           (\A s \in S : Payload(m, plain, s) # v) => m2.home[v] = m.home[v]
      /\ \A v \in 1..Len(m.home) : m2.home[v] \in {m.home[v], Nowhere}
  <2>1. DropStep(m, m2, S, plain)
    BY CallDropIs
  <2> QED BY <2>1 DEF DropStep
<1>2. /\ DOMAIN m.home = 1..Len(m.home) /\ DOMAIN m2.home = 1..Len(m.home)
      /\ Garbage \notin DOMAIN m.home
  BY <1>1, MachineIs
<1>3. ASSUME Fits(m, k), m.slots[k].val \in DOMAIN m.home
      PROVE  m2.home[m.slots[k].val] = k
  <2>1. m.home[m.slots[k].val] = k
    BY <1>3 DEF Fits
  <2>2. ASSUME NEW s \in S, Payload(m, plain, s) = m.slots[k].val PROVE FALSE
    <3>1. m.slots[s].val = m.slots[k].val
      BY <2>2, <1>2, <1>3 DEF Payload
    <3>2. s = k
      BY <3>1, <1>3, FitsApart
    <3> QED BY <3>2
  <2> QED BY <2>1, <2>2, <1>1, <1>2, <1>3
<1>4. k # Nowhere
  BY ValuesAssumption
<1>5. ASSUME Holds(m, k) PROVE Holds(m2, k)
  <2>1. \A w \in DOMAIN m2.home : m2.home[w] = k => w = m.slots[k].val
    BY <1>1, <1>2, <1>4, <1>5 DEF Holds
  <2> QED BY <1>1, <1>2, <1>3, <1>5, <2>1, HoldsFits, SMTT(60) DEF Holds
<1>6. ASSUME Fits(m, k) PROVE Fits(m2, k)
  BY <1>1, <1>2, <1>3, <1>6 DEF Fits
<1> QED BY <1>5, <1>6

\* The same for the record of the calls.
DropsDone(m) ==
  \A d \in m.drops : d.val # Garbage =>
    /\ d.val \in DOMAIN m.home
    /\ d.home # Caller
    /\ m.home[d.val] = Nowhere
    /\ \A e \in m.drops : e.val = d.val => e = d

\* Slots that fit drop each value once, and it is gone afterwards.
LEMMA DropDrops ==
  ASSUME NEW m, MachineInv(m), m.running, DropsDone(m),
         NEW S \in SUBSET (1..Len(m.slots)), NEW plain,
         \A s \in S : Fits(m, s) /\ Payload(m, plain, s) # Nothing,
         NEW m2, m2 = callDrop(m, S, plain)
  PROVE  DropsDone(m2)
<1>1. /\ m2 \in Machines /\ m2.slots = m.slots /\ Len(m2.home) = Len(m.home)
      /\ m2.drops = m.drops \cup Calls(m, S, plain)
      /\ \A s \in S : Payload(m, plain, s) \in 1..Len(m.home) =>
           m2.home[Payload(m, plain, s)] = Nowhere
      /\ \A v \in 1..Len(m.home) :
           (\A s \in S : Payload(m, plain, s) # v) => m2.home[v] = m.home[v]
      /\ \A v \in 1..Len(m.home) : m2.home[v] \in {m.home[v], Nowhere}
  <2>1. DropStep(m, m2, S, plain)
    BY CallDropIs DEF MachineInv
  <2> QED BY <2>1 DEF DropStep
<1>2. /\ DOMAIN m.home = 1..Len(m.home) /\ DOMAIN m2.home = 1..Len(m.home)
      /\ Garbage \notin DOMAIN m.home
  BY <1>1, MachineIs DEF MachineInv
<1>3. ASSUME NEW s \in S, Payload(m, plain, s) # Garbage
      PROVE  /\ Payload(m, plain, s) = m.slots[s].val
             /\ m.slots[s].val \in DOMAIN m.home /\ m.home[m.slots[s].val] = s
             /\ Call(m, plain, s).val = m.slots[s].val /\ Call(m, plain, s).home = s
  <2>1. Payload(m, plain, s) = m.slots[s].val
    BY <1>3 DEF Payload
  <2>2. m.slots[s].val \in DOMAIN m.home
    BY <2>1, <1>3 DEF MachineInv
  <2>3. m.home[m.slots[s].val] = s
    BY <2>2 DEF Fits
  <2>4. homeOf(m, m.slots[s].val) = s
    BY <2>2, <2>3 DEF homeOf, made
  <2> QED BY <2>1, <2>2, <2>3, <2>4 DEF Call
<1>4. \A s \in S : s # Nowhere /\ s # Caller /\ Call(m, plain, s).val = Payload(m, plain, s)
  BY ValuesAssumption DEF Call
<1>5. ASSUME NEW d \in m.drops, d.val # Garbage
      PROVE  /\ d.val \in DOMAIN m2.home /\ d.home # Caller /\ m2.home[d.val] = Nowhere
             /\ \A e \in m2.drops : e.val = d.val => e = d
  <2>1. /\ d.val \in DOMAIN m.home /\ d.home # Caller /\ m.home[d.val] = Nowhere
        /\ \A e \in m.drops : e.val = d.val => e = d
    BY <1>5 DEF DropsDone
  <2>2. ASSUME NEW s \in S, Call(m, plain, s).val = d.val PROVE FALSE
    BY <2>1, <2>2, <1>3, <1>4, <1>5
  <2>3. \A e \in m2.drops : e.val = d.val => e = d
    BY <2>1, <2>2, <1>1 DEF Calls
  <2>4. \A s \in S : Payload(m, plain, s) # d.val
    BY <2>2, <1>4
  <2>5. m2.home[d.val] = m.home[d.val]
    BY <2>1, <2>4, <1>1, <1>2
  <2> QED BY <2>1, <2>3, <2>5, <1>2
<1>6. ASSUME NEW s \in S, Call(m, plain, s).val # Garbage
      PROVE  LET d == Call(m, plain, s)
             IN  /\ d.val \in DOMAIN m2.home /\ d.home # Caller /\ m2.home[d.val] = Nowhere
                 /\ \A e \in m2.drops : e.val = d.val => e = d
  <2> DEFINE d == Call(m, plain, s)
  <2>1. /\ d.val = Payload(m, plain, s) /\ d.val \in DOMAIN m.home /\ d.home = s
        /\ m.home[d.val] = s /\ d.val = m.slots[s].val
    BY <1>3, <1>4, <1>6
  <2>2. m2.home[d.val] = Nowhere /\ d.home # Caller /\ d.val \in DOMAIN m2.home
    BY <2>1, <1>1, <1>2, <1>4
  <2>3. ASSUME NEW e \in m.drops, e.val = d.val PROVE FALSE
    <3>1. m.home[d.val] = Nowhere
      BY <2>3, <1>6 DEF DropsDone
    <3> QED BY <3>1, <2>1, <1>4
  <2>4. ASSUME NEW t \in S, Call(m, plain, t).val = d.val PROVE Call(m, plain, t) = d
    <3>1. m.home[d.val] = t
      BY <2>4, <1>3, <1>4, <1>6
    <3> QED BY <3>1, <2>1
  <2> HIDE DEF d
  <2>5. \A e \in m2.drops : e.val = d.val => e = d
    BY <2>3, <2>4, <1>1 DEF Calls
  <2> QED BY <2>2, <2>5 DEF d
<1> QED BY <1>1, <1>5, <1>6 DEF DropsDone, Calls

-----------------------------------------------------------------------------
(* The blocks. *)

\* bs2 is bs with the block b inside.
Pushed(bs, bs2, b) ==
  /\ bs2 \in Seq(Blocks) /\ b \in Blocks
  /\ Len(bs2) = Len(bs) + 1
  /\ \A i \in 1..Len(bs) : bs2[i] = bs[i]
  /\ bs2[Len(bs) + 1] = b

\* bs2 is bs without its innermost block.
Popped(bs, bs2) ==
  /\ bs2 \in Seq(Blocks)
  /\ Len(bs2) = Len(bs) - 1
  /\ \A i \in 1..Len(bs2) : bs2[i] = bs[i]

\* b2 is b but for its names, and for how it ends.
SameBlock(b, b2) ==
  /\ b2.kind = b.kind /\ b2.scope = b.scope /\ (b2.reached <=> b.reached)
  /\ (b2.taken <=> b.taken) /\ b2.binding = b.binding /\ b2.saved = b.saved

\* bs2 is bs with the name n in the innermost block.
Declared(bs, bs2, n, e) ==
  /\ bs2 \in Seq(Blocks)
  /\ Len(bs2) = Len(bs)
  /\ \A i \in 1..Len(bs) : SameBlock(bs[i], bs2[i]) /\ (bs2[i].left <=> bs[i].left)
  /\ \A i \in 1..Len(bs), k \in Names : Has(bs2, i, k) <=> Has(bs, i, k) \/ (i = Len(bs) /\ k = n)
  /\ \A i \in 1..Len(bs), k \in Names : Has(bs, i, k) => bs2[i].names[k] = bs[i].names[k]
  /\ bs2[Len(bs)].names[n] = e

\* bs2 is bs with a return as the last statement of the innermost block.
Left(bs, bs2) ==
  /\ bs2 \in Seq(Blocks)
  /\ Len(bs2) = Len(bs)
  /\ \A i \in 1..Len(bs) : SameBlock(bs[i], bs2[i]) /\ bs2[i].names = bs[i].names
  /\ \A i \in 1..Len(bs) : bs2[i].left <=> (bs[i].left \/ i = Len(bs))

NameFits(n, e) ==
  /\ e \in Entries
  /\ n \in Name => e.type \in SlotTypes
  /\ n \in RefName => e.type \in {"ref", "refmut"}

\* What the names of a block consist of.
LEMMA NameMapIs ==
  ASSUME NEW N \in NameMaps
  PROVE  /\ DOMAIN N \subseteq Names /\ N = [n \in DOMAIN N |-> N[n]]
         /\ \A n \in DOMAIN N : N[n] \in Entries
BY DEF NameMaps

\* Entries under some names are the names of a block.
LEMMA NameMapMade ==
  ASSUME NEW N, DOMAIN N \subseteq Names, N = [n \in DOMAIN N |-> N[n]],
         \A n \in DOMAIN N : N[n] \in Entries
  PROVE  N \in NameMaps
<1>1. N \in [DOMAIN N -> Entries]
  OBVIOUS
<1> QED BY <1>1 DEF NameMaps

\* What a block consists of.
LEMMA BlockIs ==
  ASSUME NEW b \in Blocks
  PROVE  /\ b = [kind |-> b.kind, names |-> b.names, scope |-> b.scope, reached |-> b.reached,
                 taken |-> b.taken, left |-> b.left, binding |-> b.binding, saved |-> b.saved]
         /\ b.kind \in Kinds /\ b.names \in NameMaps /\ b.scope \in Nat /\ b.reached \in BOOLEAN
         /\ b.taken \in BOOLEAN /\ b.left \in BOOLEAN /\ b.binding \in Name \cup {NoName}
         /\ b.saved \in Generators
         /\ \A n \in DOMAIN b.names : n \in Names /\ NameFits(n, b.names[n])
         /\ b.kind = "iflet" => b.binding \in DOMAIN b.names /\ b.binding \in Name
                                /\ b.names[b.binding].type = "struct"
         /\ b.kind # "iflet" => b.binding = NoName /\ b.saved = Generator
<1> DEFINE R == [kind : Kinds, names : NameMaps, scope : Nat, reached : BOOLEAN, taken : BOOLEAN,
                 left : BOOLEAN, binding : Name \cup {NoName}, saved : Generators]
<1>1. /\ b \in R
      /\ \A n \in DOMAIN b.names : /\ n \in Name => b.names[n].type \in SlotTypes
                                   /\ n \in RefName => b.names[n].type \in {"ref", "refmut"}
      /\ b.kind = "iflet" => b.binding \in DOMAIN b.names /\ b.binding \in Name
                            /\ b.names[b.binding].type = "struct"
      /\ b.kind # "iflet" => b.binding = NoName /\ b.saved = Generator
  BY DEF Blocks
<1>2. /\ b = [kind |-> b.kind, names |-> b.names, scope |-> b.scope, reached |-> b.reached,
              taken |-> b.taken, left |-> b.left, binding |-> b.binding, saved |-> b.saved]
      /\ b.kind \in Kinds /\ b.names \in NameMaps /\ b.scope \in Nat /\ b.reached \in BOOLEAN
      /\ b.taken \in BOOLEAN /\ b.left \in BOOLEAN /\ b.binding \in Name \cup {NoName}
      /\ b.saved \in Generators
  BY <1>1
<1>3. \A n \in DOMAIN b.names : n \in Names /\ NameFits(n, b.names[n])
  BY <1>1, <1>2, NameMapIs DEF NameFits
<1> QED BY <1>1, <1>2, <1>3

\* Fields that fit make a block.
LEMMA BlockMade ==
  ASSUME NEW b,
         b = [kind |-> b.kind, names |-> b.names, scope |-> b.scope, reached |-> b.reached,
              taken |-> b.taken, left |-> b.left, binding |-> b.binding, saved |-> b.saved],
         b.kind \in Kinds, b.names \in NameMaps, b.scope \in Nat, b.reached \in BOOLEAN,
         b.taken \in BOOLEAN, b.left \in BOOLEAN, b.binding \in Name \cup {NoName},
         b.saved \in Generators,
         \A n \in DOMAIN b.names : NameFits(n, b.names[n]),
         b.kind = "iflet" => b.binding \in DOMAIN b.names /\ b.binding \in Name
                             /\ b.names[b.binding].type = "struct",
         b.kind # "iflet" => b.binding = NoName /\ b.saved = Generator
  PROVE  b \in Blocks
BY DEF Blocks, NameFits

\* A declaration in the innermost block.
LEMMA DeclaredIs ==
  ASSUME NEW bs \in Seq(Blocks), Len(bs) > 0, NEW n \in Names, NEW e, NameFits(n, e),
         ~Has(bs, Len(bs), n),
         NEW bs2, bs2 = [bs EXCEPT ![Len(bs)].names = Sema!With(@, n, e)]
  PROVE  Declared(bs, bs2, n, e)
<1> DEFINE T == Len(bs)
           b == bs[T]
           N == Sema!With(b.names, n, e)
           b2 == [b EXCEPT !.names = N]
<1>1. T \in 1..Len(bs) /\ Len(bs) \in Nat /\ DOMAIN bs = 1..Len(bs) /\ b \in Blocks
      /\ \A i \in 1..Len(bs) : bs[i] \in Blocks
  OBVIOUS
<1>2. /\ DOMAIN N = DOMAIN b.names \cup {n} /\ N[n] = e
      /\ \A k \in DOMAIN b.names : k # n => N[k] = b.names[k]
      /\ N = [k \in DOMAIN N |-> N[k]]
  BY DEF Sema!With
<1> HIDE DEF N
<1>3. \A k \in DOMAIN N : k \in Names /\ NameFits(k, N[k])
  BY <1>1, <1>2, BlockIs
<1>4. N \in NameMaps
  BY <1>2, <1>3, NameMapMade DEF NameFits
<1>5. /\ b2 = [kind |-> b.kind, names |-> N, scope |-> b.scope, reached |-> b.reached,
              taken |-> b.taken, left |-> b.left, binding |-> b.binding, saved |-> b.saved]
  BY <1>1, BlockIs
<1>7. SameBlock(b, b2) /\ (b2.left <=> b.left) /\ b2.names = N /\ b2.kind = b.kind
      /\ b2.left \in BOOLEAN /\ b2.reached \in BOOLEAN /\ b2.taken \in BOOLEAN
      /\ b2 = [kind |-> b2.kind, names |-> b2.names, scope |-> b2.scope, reached |-> b2.reached,
               taken |-> b2.taken, left |-> b2.left, binding |-> b2.binding, saved |-> b2.saved]
  BY <1>1, <1>5, BlockIs DEF SameBlock
<1>6. b2 \in Blocks
  <2>1. b.kind = "iflet" => b.binding \in DOMAIN N /\ b.binding \in Name
                            /\ N[b.binding].type = "struct"
    BY <1>1, <1>2, BlockIs DEF Has
  <2>2. b.kind # "iflet" => b.binding = NoName /\ b.saved = Generator
    BY <1>1, BlockIs
  <2>3. /\ b.kind \in Kinds /\ b.scope \in Nat /\ b.binding \in Name \cup {NoName}
        /\ b.saved \in Generators
    BY <1>1, BlockIs
  <2> HIDE DEF b, b2
  <2> QED BY <1>3, <1>4, <1>7, <2>1, <2>2, <2>3, BlockMade DEF SameBlock
<1> HIDE DEF b2
<1>8. bs2 = [bs EXCEPT ![T] = b2]
  BY DEF b2, N
<1>9. /\ bs2 \in Seq(Blocks) /\ Len(bs2) = Len(bs)
      /\ \A i \in 1..Len(bs) : bs2[i] = IF i = T THEN b2 ELSE bs[i]
  BY <1>1, <1>6, <1>8, ExceptSeq
<1> HIDE DEF b
<1>14. bs2[T] = b2 /\ bs[T] = b /\ \A i \in 1..Len(bs) : i # T => bs2[i] = bs[i]
  BY <1>1, <1>9 DEF b
<1>10. \A i \in 1..Len(bs) : SameBlock(bs[i], bs2[i]) /\ (bs2[i].left <=> bs[i].left)
  BY <1>7, <1>14 DEF SameBlock
<1>11. \A i \in 1..Len(bs), k \in Names : Has(bs2, i, k) <=> Has(bs, i, k) \/ (i = Len(bs) /\ k = n)
  BY <1>2, <1>7, <1>14 DEF Has
<1>12. \A i \in 1..Len(bs), k \in Names : Has(bs, i, k) => bs2[i].names[k] = bs[i].names[k]
  BY <1>2, <1>7, <1>14 DEF Has
<1>13. bs2[Len(bs)].names[n] = e
  BY <1>1, <1>2, <1>7, <1>14
<1> QED BY <1>9, <1>10, <1>11, <1>12, <1>13 DEF Declared

\* A block marked as left changes in nothing else.
LEMMA LeftIs ==
  ASSUME NEW bs \in Seq(Blocks), Len(bs) > 0,
         NEW bs2, bs2 = [bs EXCEPT ![Len(bs)].left = TRUE]
  PROVE  Left(bs, bs2)
<1> DEFINE T == Len(bs)
           b == bs[T]
           b2 == [b EXCEPT !.left = TRUE]
<1>1. T \in 1..Len(bs) /\ Len(bs) \in Nat /\ DOMAIN bs = 1..Len(bs) /\ b \in Blocks
      /\ \A i \in 1..Len(bs) : bs[i] \in Blocks
  OBVIOUS
<1>2. /\ b2 = [kind |-> b.kind, names |-> b.names, scope |-> b.scope, reached |-> b.reached,
              taken |-> b.taken, left |-> TRUE, binding |-> b.binding, saved |-> b.saved]
  <2> DEFINE f(x) == [kind |-> x.kind, names |-> x.names, scope |-> x.scope, reached |-> x.reached,
                      taken |-> x.taken, left |-> x.left, binding |-> x.binding, saved |-> x.saved]
  <2>1. b = f(b)
    BY <1>1, BlockIs
  <2>2. \A l \in BOOLEAN : [b EXCEPT !.left = l] =
          [kind |-> b.kind, names |-> b.names, scope |-> b.scope, reached |-> b.reached,
           taken |-> b.taken, left |-> l, binding |-> b.binding, saved |-> b.saved]
    BY <2>1
  <2> HIDE DEF b
  <2> QED BY <2>2, Zenon
<1>4. SameBlock(b, b2) /\ b2.left /\ b2.names = b.names
      /\ b2.left \in BOOLEAN /\ b2.reached \in BOOLEAN /\ b2.taken \in BOOLEAN
      /\ b2 = [kind |-> b2.kind, names |-> b2.names, scope |-> b2.scope, reached |-> b2.reached,
               taken |-> b2.taken, left |-> b2.left, binding |-> b2.binding, saved |-> b2.saved]
  <2>1. b.reached \in BOOLEAN /\ b.taken \in BOOLEAN
    BY <1>1, BlockIs
  <2> HIDE DEF b
  <2> QED BY <1>2, <2>1 DEF SameBlock
<1>3. b2 \in Blocks
  <2>1. b.kind = "iflet" => b.binding \in DOMAIN b.names /\ b.binding \in Name
                            /\ b.names[b.binding].type = "struct"
    BY <1>1, BlockIs
  <2>2. b.kind # "iflet" => b.binding = NoName /\ b.saved = Generator
    BY <1>1, BlockIs
  <2>3. /\ b.kind \in Kinds /\ b.scope \in Nat
        /\ b.binding \in Name \cup {NoName} /\ b.saved \in Generators /\ b.names \in NameMaps
        /\ \A n \in DOMAIN b.names : NameFits(n, b.names[n])
    BY <1>1, BlockIs
  <2> HIDE DEF b, b2
  <2> QED BY <1>4, <2>1, <2>2, <2>3, BlockMade DEF SameBlock
<1> HIDE DEF b2
<1>5. bs2 = [bs EXCEPT ![T] = b2]
  BY DEF b2
<1> HIDE DEF b
<1>6. /\ bs2 \in Seq(Blocks) /\ Len(bs2) = Len(bs)
      /\ \A i \in 1..Len(bs) : bs2[i] = IF i = T THEN b2 ELSE bs[i]
  <2> HIDE DEF T
  <2>1. T \in 1..Len(bs)
    BY <1>1
  <2>2. /\ [bs EXCEPT ![T] = b2] \in Seq(Blocks) /\ Len([bs EXCEPT ![T] = b2]) = Len(bs)
        /\ \A i \in 1..Len(bs) : [bs EXCEPT ![T] = b2][i] = IF i = T THEN b2 ELSE bs[i]
    BY <1>3, <2>1, ExceptSeq
  <2> QED BY <1>5, <2>2
<1>7. bs2[T] = b2 /\ bs[T] = b /\ \A i \in 1..Len(bs) : i # T => bs2[i] = bs[i]
  BY <1>1, <1>6 DEF b
<1> QED BY <1>4, <1>6, <1>7 DEF SameBlock, Left

\* Appending a block pushes it.
LEMMA PushedIs ==
  ASSUME NEW bs \in Seq(Blocks), NEW b \in Blocks, NEW bs2, bs2 = Append(bs, b)
  PROVE  Pushed(bs, bs2, b)
BY AppendProperties DEF Pushed

\* Dropping the last block pops it.
LEMMA PoppedIs ==
  ASSUME NEW bs \in Seq(Blocks), Len(bs) > 0, NEW bs2, bs2 = SubSeq(bs, 1, Len(bs) - 1)
  PROVE  Popped(bs, bs2)
<1>1. Len(bs) \in Nat /\ \A i \in 1..Len(bs) - 1 : bs[i] \in Blocks
  OBVIOUS
<1> DEFINE n == Len(bs) - 1
<1>2. n \in Nat /\ n \in Int /\ 1 \in Int /\ n - 1 + 1 = n
  BY <1>1
<1>3. SubSeq(bs, 1, n) \in Seq(Blocks)
      /\ Len(SubSeq(bs, 1, n)) = (IF 1 <= n THEN n - 1 + 1 ELSE 0)
      /\ \A i \in 1..n - 1 + 1 : SubSeq(bs, 1, n)[i] = bs[1 + i - 1]
  <2>1. \A i \in 1..n : bs[i] \in Blocks
    BY <1>1
  <2> HIDE DEF n
  <2> QED BY <1>2, <2>1, SubSeqProperties
<1>4. Len(bs2) = n /\ \A i \in 1..n : bs2[i] = bs[i]
  <2> HIDE DEF n
  <2>1. bs2 = SubSeq(bs, 1, n)
    BY DEF n
  <2>2. \A i \in 1..n : 1 + i - 1 = i
    OBVIOUS
  <2> QED BY <1>2, <1>3, <2>1, <2>2
<1> QED BY <1>3, <1>4 DEF Popped

-----------------------------------------------------------------------------
(* The checker's scopes and the blocks. *)

\* Where the scopes of a block lie in the checker's stack.
LEMMA Bounds ==
  ASSUME NEW c, NEW bs, ShapeInv(c, bs), NEW i \in 1..Len(bs)
  PROVE  /\ bs[i] \in Blocks /\ bs[i].scope \in Nat /\ bs[i].scope <= Len(c.scopes)
         /\ Len(bs) \in Nat /\ Len(c.scopes) \in Nat
         /\ 2 <= Floor(bs[i]) /\ Floor(bs[i]) <= bs[i].scope /\ Floor(bs[i]) \in Nat
         /\ \A n \in Names : /\ Floor(bs[i]) <= ScopeAt(bs[i], n)
                             /\ ScopeAt(bs[i], n) <= bs[i].scope
                             /\ ScopeAt(bs[i], n) \in 1..Len(c.scopes)
<1>1. bs \in Seq(Blocks) /\ IsChecker(c) /\ Len(bs) \in Nat /\ Len(c.scopes) \in Nat
  BY CheckerIs DEF ShapeInv
<1>2. \A j \in 1..Len(bs) : /\ bs[j] \in Blocks /\ bs[j].scope \in Nat /\ 2 <= Floor(bs[j])
                            /\ Floor(bs[j]) <= bs[j].scope /\ Floor(bs[j]) \in Nat
  <2> SUFFICES ASSUME NEW j \in 1..Len(bs)
               PROVE  /\ bs[j] \in Blocks /\ bs[j].scope \in Nat /\ 2 <= Floor(bs[j])
                      /\ Floor(bs[j]) <= bs[j].scope /\ Floor(bs[j]) \in Nat
    OBVIOUS
  <2>1. bs[j] \in Blocks
    BY <1>1
  <2>2. bs[j].scope \in Nat
    BY <2>1, BlockIs
  <2> QED BY <2>1, <2>2 DEF ShapeInv, Floor
<1>3. bs[i].scope <= Len(c.scopes)
  <2>1. bs[Len(bs)].scope = Len(c.scopes)
    BY <1>1 DEF ShapeInv
  <2>2. CASE i = Len(bs)
    BY <2>1, <2>2, <1>1
  <2>3. CASE i # Len(bs)
    <3>1. Len(bs) \in 1..Len(bs) /\ i < Len(bs)
      BY <2>3, <1>1
    <3>2. bs[i].scope < Floor(bs[Len(bs)])
      BY <3>1 DEF ShapeInv
    <3> QED BY <2>1, <3>1, <3>2, <1>1, <1>2, SMTT(60)
  <2> QED BY <2>2, <2>3
<1>4. ASSUME NEW n \in Names
      PROVE  /\ Floor(bs[i]) <= ScopeAt(bs[i], n) /\ ScopeAt(bs[i], n) <= bs[i].scope
             /\ ScopeAt(bs[i], n) \in 1..Len(c.scopes)
  <2>1. n = bs[i].binding => bs[i].kind = "iflet"
    BY <1>2, BlockIs, NamesAssumption DEF Names
  <2> QED BY <2>1, <1>1, <1>2, <1>3 DEF ScopeAt, Floor
<1> QED BY <1>1, <1>2, <1>3, <1>4

\* What the checker recorded of a name that a block declares.
LEMMA Place ==
  ASSUME NEW c, NEW bs, ShapeInv(c, bs), NEW i \in 1..Len(bs), NEW n, Has(bs, i, n)
  PROVE  /\ n \in Names /\ ScopeAt(bs[i], n) \in 1..Len(c.scopes)
         /\ n \in DOMAIN c.scopes[ScopeAt(bs[i], n)]
         /\ Records(n, InfoAt(c, bs[i], n)) /\ InfoAt(c, bs[i], n) \in Infos
<1>1. bs[i] \in Blocks /\ n \in Names
  BY Bounds, BlockIs DEF Has
<1>2. ScopeAt(bs[i], n) \in 1..Len(c.scopes)
  BY <1>1, Bounds
<1>3. n \in DOMAIN c.scopes[ScopeAt(bs[i], n)]
  <2>1. CASE n = bs[i].binding
    <3>1. bs[i].kind = "iflet"
      BY <1>1, <2>1, BlockIs, NamesAssumption DEF Names
    <3> QED BY <2>1, <3>1 DEF ShapeInv, ScopeAt
  <2>2. CASE n # bs[i].binding
    BY <2>2 DEF ShapeInv, ScopeAt, Has
  <2> QED BY <2>1, <2>2
<1>4. c.scopes[ScopeAt(bs[i], n)] \in Scopes
  BY <1>2, CheckerIs DEF ShapeInv
<1>5. Records(n, InfoAt(c, bs[i], n)) /\ InfoAt(c, bs[i], n) \in Infos
  BY <1>3, <1>4, ScopeIs DEF InfoAt
<1> QED BY <1>1, <1>2, <1>3, <1>5

\* Different blocks have different scopes.
LEMMA PlacesApart ==
  ASSUME NEW c, NEW bs, ShapeInv(c, bs), NEW i \in 1..Len(bs), NEW j \in 1..Len(bs), i # j,
         NEW n \in Names, NEW k \in Names
  PROVE  ScopeAt(bs[i], n) # ScopeAt(bs[j], k)
<1>1. Len(bs) \in Nat
  BY Bounds
<1>2. \A a, b \in 1..Len(bs), x, y \in Names : a < b => ScopeAt(bs[a], x) < ScopeAt(bs[b], y)
  <2> SUFFICES ASSUME NEW a \in 1..Len(bs), NEW b \in 1..Len(bs), a < b, NEW x \in Names, NEW y \in Names
               PROVE  ScopeAt(bs[a], x) < ScopeAt(bs[b], y)
    OBVIOUS
  <2>1. bs[a].scope < Floor(bs[b])
    BY DEF ShapeInv
  <2>2. /\ ScopeAt(bs[a], x) <= bs[a].scope /\ bs[a].scope \in Nat
        /\ ScopeAt(bs[a], x) \in 1..Len(c.scopes) /\ Len(c.scopes) \in Nat
    BY Bounds
  <2>3. /\ Floor(bs[b]) <= ScopeAt(bs[b], y) /\ Floor(bs[b]) \in Nat
        /\ ScopeAt(bs[b], y) \in 1..Len(c.scopes)
    BY Bounds
  <2> QED BY <2>1, <2>2, <2>3
<1>3. ScopeAt(bs[i], n) \in Nat /\ ScopeAt(bs[j], k) \in Nat
  BY Bounds
<1>4. i < j \/ j < i
  BY <1>1
<1> QED BY <1>2, <1>3, <1>4

\* d has the scopes and the table of c.
SameTable(c, d) ==
  /\ IsChecker(d) /\ d.ok /\ d.all = c.all /\ Len(d.scopes) = Len(c.scopes)
  /\ \A k \in 1..Len(c.scopes) : DOMAIN d.scopes[k] = DOMAIN c.scopes[k]

\* Blocks match the scopes of a checker whose table is the same.
LEMMA ShapeKept ==
  ASSUME NEW c, NEW bs, NEW hid, ShapeInv(c, bs), TracksInv(c, bs, hid), NEW d, SameTable(c, d)
  PROVE  ShapeInv(d, bs) /\ TracksInv(d, bs, hid)
<1>1. TracksInv(d, bs, hid)
  BY DEF TracksInv, SameTable
<1>2. \A i \in 1..Len(bs) : /\ bs[i].scope \in 1..Len(c.scopes)
                            /\ bs[i].kind = "iflet" => bs[i].scope - 1 \in 1..Len(c.scopes)
  <2> SUFFICES ASSUME NEW i \in 1..Len(bs)
               PROVE  /\ bs[i].scope \in 1..Len(c.scopes)
                      /\ bs[i].kind = "iflet" => bs[i].scope - 1 \in 1..Len(c.scopes)
    OBVIOUS
  <2>1. /\ bs[i].scope \in Nat /\ bs[i].scope <= Len(c.scopes)
        /\ Len(c.scopes) \in Nat /\ 2 <= Floor(bs[i]) /\ Floor(bs[i]) <= bs[i].scope
        /\ Floor(bs[i]) \in Nat
    BY Bounds
  <2> QED BY <2>1 DEF Floor
<1>3. \A i \in 1..Len(bs) :
       /\ DOMAIN d.scopes[bs[i].scope] = DOMAIN bs[i].names \ {bs[i].binding}
       /\ bs[i].kind = "iflet" => DOMAIN d.scopes[bs[i].scope - 1] = {bs[i].binding}
  BY <1>2 DEF ShapeInv, SameTable
<1> QED BY <1>1, <1>3 DEF ShapeInv, SameTable

\* A changed record leaves the table the same.
LEMMA SetSameTable ==
  ASSUME NEW c, NEW d, NEW n, NEW info, c.ok, SetAt(c, d, n, info)
  PROVE  SameTable(c, d)
BY DEF SetAt, SameTable

\* Where the fields of a block are the same, its scopes are.
LEMMA SamePlaces ==
  ASSUME NEW b, NEW b2, SameBlock(b, b2)
  PROVE  /\ Floor(b2) = Floor(b)
         /\ \A n : ScopeAt(b2, n) = ScopeAt(b, n)
         /\ \A c, n : InfoAt(c, b2, n) = InfoAt(c, b, n)
BY DEF SameBlock, Floor, ScopeAt, InfoAt

\* Blocks match the scopes when one is marked as left.
LEMMA ShapeLeft ==
  ASSUME NEW c, NEW bs, NEW hid, ShapeInv(c, bs), TracksInv(c, bs, hid), NEW bs2, Left(bs, bs2)
  PROVE  ShapeInv(c, bs2) /\ TracksInv(c, bs2, hid)
<1>1. /\ Len(bs2) = Len(bs) /\ bs2 \in Seq(Blocks) /\ Len(bs) \in Nat
      /\ \A i \in 1..Len(bs) : /\ bs2[i].kind = bs[i].kind /\ bs2[i].scope = bs[i].scope
                               /\ bs2[i].binding = bs[i].binding /\ bs2[i].names = bs[i].names
                               /\ Floor(bs2[i]) = Floor(bs[i])
                               /\ \A n : ScopeAt(bs2[i], n) = ScopeAt(bs[i], n)
  BY SamePlaces DEF Left, SameBlock, ShapeInv
<1>2. ShapeInv(c, bs2)
  <2>1. \A i \in 1..Len(bs2) - 1 : Floor(bs2[i + 1]) = bs2[i].scope + 1
    <3> SUFFICES ASSUME NEW i \in 1..Len(bs) - 1 PROVE Floor(bs2[i + 1]) = bs2[i].scope + 1
      BY <1>1
    <3>1. i \in 1..Len(bs) /\ i + 1 \in 1..Len(bs)
      BY <1>1
    <3> QED BY <1>1, <3>1, ZenonT(60) DEF ShapeInv
  <2>2. \A i, j \in 1..Len(bs2) : i < j => bs2[i].scope < Floor(bs2[j])
    BY <1>1 DEF ShapeInv
  <2>3. \A i \in 1..Len(bs2) :
         /\ (bs2[i].kind = "body" <=> i = 1) /\ 2 <= Floor(bs2[i])
         /\ DOMAIN c.scopes[bs2[i].scope] = DOMAIN bs2[i].names \ {bs2[i].binding}
         /\ bs2[i].kind = "iflet" => DOMAIN c.scopes[bs2[i].scope - 1] = {bs2[i].binding}
    BY <1>1, ZenonT(60) DEF ShapeInv
  <2>4. Len(bs2) > 0 => bs2[Len(bs2)].scope = Len(c.scopes)
    BY <1>1 DEF ShapeInv
  <2> QED BY <1>1, <2>1, <2>2, <2>3, <2>4 DEF ShapeInv
<1>3. \A i \in 1..Len(bs) : \A n : Has(bs2, i, n) <=> Has(bs, i, n)
  BY <1>1 DEF Has
<1>4. \A i \in 1..Len(bs) : \A n : IsInner(bs2, i, n) <=> IsInner(bs, i, n)
  BY <1>1, <1>3 DEF IsInner
<1>5. TracksInv(c, bs2, hid)
  BY <1>1, <1>3, <1>4, ZenonT(60) DEF TracksInv
<1> QED BY <1>2, <1>5

\* A name is declared in the innermost block.
LEMMA ShapeDeclared ==
  ASSUME NEW c, NEW bs, NEW hid, ShapeInv(c, bs), TracksInv(c, bs, hid), Len(bs) > 0,
         NEW n \in Names, NEW e, NEW bs2, Declared(bs, bs2, n, e), ~Has(bs, Len(bs), n),
         n \in RefName => \A i \in 1..Len(bs) : ~Has(bs, i, n),
         NEW info, Records(n, info), NEW d, d = Sema!trackVariable(c, n, info)
  PROVE  ShapeInv(d, bs2) /\ TracksInv(d, bs2, hid \ {n})
<1>1. /\ Len(bs2) = Len(bs) /\ bs2 \in Seq(Blocks) /\ Len(bs) \in Nat /\ Len(bs) \in 1..Len(bs)
      /\ \A i \in 1..Len(bs) : /\ bs2[i].kind = bs[i].kind /\ bs2[i].scope = bs[i].scope
                               /\ bs2[i].binding = bs[i].binding
                               /\ Floor(bs2[i]) = Floor(bs[i])
                               /\ \A k : ScopeAt(bs2[i], k) = ScopeAt(bs[i], k)
  BY SamePlaces, SMTT(60) DEF Declared, SameBlock, ShapeInv
<1>2. /\ IsChecker(c) /\ bs[Len(bs)].scope = Len(c.scopes) /\ Len(c.scopes) \in Nat
      /\ Len(c.scopes) > 0 /\ bs[Len(bs)] \in Blocks
      /\ n # bs[Len(bs)].binding
  <2>1. /\ bs[Len(bs)] \in Blocks /\ Floor(bs[Len(bs)]) \in Nat /\ Len(c.scopes) \in Nat
        /\ 2 <= Floor(bs[Len(bs)]) /\ Floor(bs[Len(bs)]) <= bs[Len(bs)].scope
        /\ bs[Len(bs)].scope \in Nat
    BY <1>1, Bounds
  <2>2. n # bs[Len(bs)].binding
    BY <2>1, BlockIs, NamesAssumption DEF Has, Names
  <2> QED BY <1>1, <2>1, <2>2 DEF ShapeInv
<1>3. /\ IsChecker(d) /\ d.ok = c.ok /\ Len(d.scopes) = Len(c.scopes)
      /\ \A x \in Names : d.all[x] = IF x = n THEN Len(c.scopes) ELSE c.all[x]
      /\ \A k \in 1..Len(c.scopes) :
           DOMAIN d.scopes[k] =
             DOMAIN c.scopes[k] \cup (IF k = Len(c.scopes) THEN {n} ELSE {})
  BY <1>2, TrackIs
<1>4. \A i \in 1..Len(bs) : \A k : Has(bs2, i, k) <=> Has(bs, i, k) \/ (i = Len(bs) /\ k = n)
  <2> SUFFICES ASSUME NEW i \in 1..Len(bs), NEW k
               PROVE  Has(bs2, i, k) <=> Has(bs, i, k) \/ (i = Len(bs) /\ k = n)
    OBVIOUS
  <2>1. bs[i] \in Blocks /\ bs2[i] \in Blocks
    BY <1>1, Bounds
  <2>2. Has(bs, i, k) \/ Has(bs2, i, k) => k \in Names
    BY <2>1, BlockIs DEF Has
  <2> QED BY <2>2 DEF Declared
<1>5. ShapeInv(d, bs2)
  <2>1. \A i \in 1..Len(bs2) - 1 : Floor(bs2[i + 1]) = bs2[i].scope + 1
    <3> SUFFICES ASSUME NEW i \in 1..Len(bs) - 1 PROVE Floor(bs2[i + 1]) = bs2[i].scope + 1
      BY <1>1
    <3>1. i \in 1..Len(bs) /\ i + 1 \in 1..Len(bs)
      BY <1>1
    <3> QED BY <1>1, <3>1 DEF ShapeInv
  <2>2. \A i, j \in 1..Len(bs2) : i < j => bs2[i].scope < Floor(bs2[j])
    BY <1>1 DEF ShapeInv
  <2>3. ASSUME NEW i \in 1..Len(bs)
        PROVE  /\ (bs2[i].kind = "body" <=> i = 1) /\ 2 <= Floor(bs2[i])
               /\ DOMAIN d.scopes[bs2[i].scope] = DOMAIN bs2[i].names \ {bs2[i].binding}
               /\ bs2[i].kind = "iflet" => DOMAIN d.scopes[bs2[i].scope - 1] = {bs2[i].binding}
    <3>1. /\ bs[i].scope \in Nat /\ bs[i].scope <= Len(c.scopes) /\ Floor(bs[i]) \in Nat
          /\ 2 <= Floor(bs[i]) /\ Floor(bs[i]) <= bs[i].scope
      BY Bounds
    <3>2. /\ bs[i].scope \in 1..Len(c.scopes)
          /\ bs[i].kind = "iflet" => bs[i].scope - 1 \in 1..Len(c.scopes)
                                     /\ bs[i].scope - 1 # Len(c.scopes)
      BY <1>2, <3>1 DEF Floor
    <3>3. bs[i].kind = "iflet" => DOMAIN d.scopes[bs2[i].scope - 1] = {bs2[i].binding}
      <4> SUFFICES ASSUME bs[i].kind = "iflet" PROVE DOMAIN d.scopes[bs[i].scope - 1] = {bs[i].binding}
        BY <1>1
      <4>1. DOMAIN c.scopes[bs[i].scope - 1] = {bs[i].binding}
        BY DEF ShapeInv
      <4>2. DOMAIN d.scopes[bs[i].scope - 1] = DOMAIN c.scopes[bs[i].scope - 1]
        BY <1>3, <3>2
      <4> QED BY <4>1, <4>2
    <3>4. bs[i].scope = Len(c.scopes) <=> i = Len(bs)
      <4>1. i # Len(bs) => i < Len(bs)
        BY <1>1
      <4>2. i < Len(bs) => bs[i].scope < Floor(bs[Len(bs)])
        BY <1>1 DEF ShapeInv
      <4>3. Floor(bs[Len(bs)]) <= Len(c.scopes) /\ Floor(bs[Len(bs)]) \in Nat
        BY <1>1, <1>2, Bounds, SMTT(60)
      <4> QED BY <1>2, <3>1, <4>1, <4>2, <4>3
    <3>5. DOMAIN d.scopes[bs2[i].scope] = DOMAIN bs2[i].names \ {bs2[i].binding}
      <4>1. DOMAIN c.scopes[bs[i].scope] = DOMAIN bs[i].names \ {bs[i].binding}
        BY DEF ShapeInv
      <4>2. DOMAIN d.scopes[bs[i].scope] =
              DOMAIN c.scopes[bs[i].scope] \cup (IF i = Len(bs) THEN {n} ELSE {})
        BY <1>3, <3>2, <3>4
      <4>3. DOMAIN bs2[i].names = DOMAIN bs[i].names \cup (IF i = Len(bs) THEN {n} ELSE {})
        BY <1>4 DEF Has
      <4> QED BY <1>1, <1>2, <4>1, <4>2, <4>3, SMTT(60)
    <3>6. (bs2[i].kind = "body" <=> i = 1) /\ 2 <= Floor(bs2[i])
      BY <1>1 DEF ShapeInv
    <3> QED BY <1>1, <3>3, <3>5, <3>6
  <2>4. Len(bs2) > 0 => bs2[Len(bs2)].scope = Len(d.scopes)
    BY <1>1, <1>2, <1>3
  <2>5. d.ok
    BY <1>3 DEF ShapeInv
  <2> QED BY <1>1, <1>3, <2>1, <2>2, <2>3, <2>4, <2>5 DEF ShapeInv
<1>6. \A i \in 1..Len(bs) : \A x : x # n => (IsInner(bs2, i, x) <=> IsInner(bs, i, x))
  BY <1>1, <1>4 DEF IsInner
<1>7. IsInner(bs2, Len(bs), n)
  BY <1>1, <1>4 DEF IsInner
<1>8. TracksInv(d, bs2, hid \ {n})
  <2>1. hid \ {n} \subseteq Name
    BY DEF TracksInv
  <2>2. ASSUME NEW x \in Names, d.all[x] # 0
        PROVE  \E i \in 1..Len(bs2) : IsInner(bs2, i, x) /\ d.all[x] = ScopeAt(bs2[i], x)
    <3>1. CASE x = n
      <4>1. d.all[x] = ScopeAt(bs2[Len(bs)], x)
        BY <3>1, <1>1, <1>2, <1>3 DEF ScopeAt
      <4> QED BY <3>1, <4>1, <1>1, <1>7
    <3>2. CASE x # n
      <4>1. PICK i \in 1..Len(bs) : IsInner(bs, i, x) /\ c.all[x] = ScopeAt(bs[i], x)
        BY <2>2, <3>2, <1>3 DEF TracksInv
      <4> QED BY <3>2, <4>1, <1>1, <1>3, <1>6
    <3> QED BY <3>1, <3>2
  <2>3. ASSUME NEW x \in Names, NEW i \in 1..Len(bs2), Has(bs2, i, x), x \notin hid \ {n}
        PROVE  d.all[x] # 0
    <3>1. CASE x = n
      BY <3>1, <1>2, <1>3
    <3>2. CASE x # n
      BY <2>3, <3>2, <1>1, <1>3, <1>4 DEF TracksInv
    <3> QED BY <3>1, <3>2
  <2>4. \A i, j \in 1..Len(bs2), r \in RefName : Has(bs2, i, r) /\ Has(bs2, j, r) => i = j
    BY <1>1, <1>4 DEF TracksInv
  <2> QED BY <2>1, <2>2, <2>3, <2>4 DEF TracksInv
<1> QED BY <1>5, <1>8

\* The checker d, when the block b is new in the blocks of c.
Entered(c, d, b) ==
  /\ IsChecker(d) /\ d.ok /\ Len(d.scopes) = b.scope /\ Floor(b) = Len(c.scopes) + 1
  /\ \A k \in 1..Len(c.scopes) : DOMAIN d.scopes[k] = DOMAIN c.scopes[k]
  /\ DOMAIN d.scopes[b.scope] = DOMAIN b.names \ {b.binding}
  /\ b.kind = "iflet" => DOMAIN d.scopes[b.scope - 1] = {b.binding}
  /\ \A n \in Names : d.all[n] = IF n \in DOMAIN b.names THEN ScopeAt(b, n) ELSE c.all[n]

\* Blocks match the scopes when a block and its scopes are entered.
LEMMA ShapePushed ==
  ASSUME NEW c, NEW bs, NEW hid, ShapeInv(c, bs), TracksInv(c, bs, hid), Len(bs) > 0,
         NEW b, NEW bs2, Pushed(bs, bs2, b), NEW d, Entered(c, d, b),
         b.kind # "body", DOMAIN b.names \subseteq {b.binding}
  PROVE  ShapeInv(d, bs2) /\ TracksInv(d, bs2, hid \ DOMAIN b.names)
<1> DEFINE L == Len(bs)
           T == Len(bs) + 1
<1>1. /\ Len(bs2) = T /\ bs2 \in Seq(Blocks) /\ L \in Nat /\ L \in 1..L /\ b \in Blocks
      /\ \A i \in 1..L : bs2[i] = bs[i] /\ i \in 1..T
      /\ bs2[T] = b /\ T \in 1..T /\ \A i \in 1..T : i \in 1..L \/ i = T
      /\ \A i \in 1..L : i # T /\ i < T
  BY DEF Pushed, ShapeInv
<1> HIDE DEF T
<1>2. /\ bs[L].scope = Len(c.scopes) /\ Len(c.scopes) \in Nat /\ Len(c.scopes) >= 2
      /\ b.scope \in Nat /\ Floor(b) = Len(c.scopes) + 1 /\ Len(c.scopes) < b.scope
  <2>1. bs[L].scope = Len(c.scopes) /\ Floor(bs[L]) \in Nat /\ 2 <= Floor(bs[L])
        /\ Floor(bs[L]) <= bs[L].scope /\ Len(c.scopes) \in Nat
    BY <1>1, Bounds DEF ShapeInv
  <2>2. b.scope \in Nat
    BY <1>1, BlockIs
  <2> QED BY <2>1, <2>2 DEF Entered, Floor
<1>3. DOMAIN b.names \subseteq Name
  <2>1. DOMAIN b.names \subseteq Names /\ b.binding \in Name \cup {NoName}
    BY <1>1, BlockIs
  <2> QED BY <2>1, NamesAssumption DEF Names
<1>4. ASSUME NEW i \in 1..L
      PROVE  /\ (bs2[i].kind = "body" <=> i = 1) /\ 2 <= Floor(bs2[i])
             /\ bs2[i].scope < Floor(b)
             /\ DOMAIN d.scopes[bs2[i].scope] = DOMAIN bs2[i].names \ {bs2[i].binding}
             /\ bs2[i].kind = "iflet" => DOMAIN d.scopes[bs2[i].scope - 1] = {bs2[i].binding}
  <2>1. /\ bs[i].scope \in Nat /\ bs[i].scope <= Len(c.scopes) /\ Floor(bs[i]) \in Nat
        /\ 2 <= Floor(bs[i]) /\ Floor(bs[i]) <= bs[i].scope
    BY Bounds
  <2>2. /\ bs[i].scope \in 1..Len(c.scopes)
        /\ bs[i].kind = "iflet" => bs[i].scope - 1 \in 1..Len(c.scopes)
    BY <1>2, <2>1, SMTT(60) DEF Floor
  <2>3. DOMAIN d.scopes[bs[i].scope] = DOMAIN bs[i].names \ {bs[i].binding}
    BY <2>2 DEF ShapeInv, Entered
  <2>4. bs[i].kind = "iflet" => DOMAIN d.scopes[bs[i].scope - 1] = {bs[i].binding}
    BY <2>2 DEF ShapeInv, Entered
  <2>5. (bs[i].kind = "body" <=> i = 1)
    BY DEF ShapeInv
  <2>6. bs2[i] = bs[i]
    BY <1>1
  <2>7. bs[i].scope < Floor(b)
    BY <1>2, <2>1
  <2> QED BY <2>1, <2>3, <2>4, <2>5, <2>6, <2>7
<1>5. ShapeInv(d, bs2)
  <2>1. \A i \in 1..Len(bs2) - 1 : Floor(bs2[i + 1]) = bs2[i].scope + 1
    <3> SUFFICES ASSUME NEW i \in 1..Len(bs) PROVE Floor(bs2[i + 1]) = bs2[i].scope + 1
      BY <1>1 DEF T
    <3>1. CASE i = L
      BY <1>1, <1>2, <3>1 DEF T
    <3>2. CASE i # L
      <4>1. i \in 1..L - 1 /\ i + 1 \in 1..L
        BY <1>1, <3>2
      <4> QED BY <1>1, <4>1 DEF ShapeInv
    <3> QED BY <3>1, <3>2
  <2>2. \A i, j \in 1..Len(bs2) : i < j => bs2[i].scope < Floor(bs2[j])
    <3> SUFFICES ASSUME NEW i \in 1..T, NEW j \in 1..T, i < j PROVE bs2[i].scope < Floor(bs2[j])
      BY <1>1
    <3>1. i \in 1..L
      BY <1>1 DEF T
    <3> QED BY <1>1, <1>4, <3>1 DEF ShapeInv
  <2>3. /\ ~(b.kind = "body") /\ T # 1 /\ 2 <= Floor(b)
        /\ DOMAIN d.scopes[b.scope] = DOMAIN b.names \ {b.binding}
        /\ b.kind = "iflet" => DOMAIN d.scopes[b.scope - 1] = {b.binding}
    BY <1>1, <1>2 DEF Entered, T
  <2>4. \A i \in 1..Len(bs2) :
          /\ (bs2[i].kind = "body" <=> i = 1) /\ 2 <= Floor(bs2[i])
          /\ DOMAIN d.scopes[bs2[i].scope] = DOMAIN bs2[i].names \ {bs2[i].binding}
          /\ bs2[i].kind = "iflet" => DOMAIN d.scopes[bs2[i].scope - 1] = {bs2[i].binding}
    BY <1>1, <1>4, <2>3
  <2>5. Len(bs2) > 0 => bs2[Len(bs2)].scope = Len(d.scopes)
    BY <1>1 DEF Entered
  <2> QED BY <1>1, <2>1, <2>2, <2>4, <2>5 DEF ShapeInv, Entered
<1>6. /\ \A i \in 1..L : \A x : Has(bs2, i, x) <=> Has(bs, i, x)
      /\ \A x : Has(bs2, T, x) <=> x \in DOMAIN b.names
  BY <1>1 DEF Has
<1>7. \A i \in 1..L : \A x : x \notin DOMAIN b.names => (IsInner(bs2, i, x) <=> IsInner(bs, i, x))
  BY <1>1, <1>6 DEF IsInner
<1>8. \A x \in DOMAIN b.names : IsInner(bs2, T, x)
  BY <1>1, <1>6 DEF IsInner, T
<1>9. TracksInv(d, bs2, hid \ DOMAIN b.names)
  <2>1. hid \ DOMAIN b.names \subseteq Name
    BY DEF TracksInv
  <2>2. ASSUME NEW x \in Names, d.all[x] # 0
        PROVE  \E i \in 1..Len(bs2) : IsInner(bs2, i, x) /\ d.all[x] = ScopeAt(bs2[i], x)
    <3>1. CASE x \in DOMAIN b.names
      <4>1. d.all[x] = ScopeAt(bs2[T], x)
        BY <3>1, <1>1 DEF Entered
      <4> QED BY <3>1, <4>1, <1>1, <1>8
    <3>2. CASE x \notin DOMAIN b.names
      <4>1. PICK i \in 1..L : IsInner(bs, i, x) /\ c.all[x] = ScopeAt(bs[i], x)
        BY <2>2, <3>2 DEF TracksInv, Entered
      <4>2. d.all[x] = ScopeAt(bs2[i], x) /\ IsInner(bs2, i, x) /\ i \in 1..Len(bs2)
        BY <2>2, <3>2, <4>1, <1>1, <1>7 DEF Entered
      <4> QED BY <4>2
    <3> QED BY <3>1, <3>2
  <2>3. ASSUME NEW x \in Names, NEW i \in 1..Len(bs2), Has(bs2, i, x), x \notin hid \ DOMAIN b.names
        PROVE  d.all[x] # 0
    <3>1. CASE x \in DOMAIN b.names
      <4>1. ScopeAt(b, x) \in Nat \ {0}
        BY <1>2 DEF ScopeAt
      <4> QED BY <3>1, <4>1 DEF Entered
    <3>2. CASE x \notin DOMAIN b.names
      <4>1. i \in 1..L /\ Has(bs, i, x) /\ x \notin hid
        BY <2>3, <3>2, <1>1, <1>6
      <4>2. c.all[x] # 0
        BY <4>1 DEF TracksInv
      <4> QED BY <3>2, <4>2 DEF Entered
    <3> QED BY <3>1, <3>2
  <2>4. \A i, j \in 1..Len(bs2), r \in RefName : Has(bs2, i, r) /\ Has(bs2, j, r) => i = j
    <3> SUFFICES ASSUME NEW i \in 1..T, NEW j \in 1..T, NEW r \in RefName, Has(bs2, i, r), Has(bs2, j, r)
                 PROVE  i = j
      BY <1>1
    <3>1. r \notin DOMAIN b.names
      BY <1>3, NamesAssumption
    <3> QED BY <3>1, <1>1, <1>6 DEF TracksInv
  <2> QED BY <2>1, <2>2, <2>3, <2>4 DEF TracksInv
<1> QED BY <1>5, <1>9

\* The checker d, when the innermost block of c has ended.
Exited(c, d, bs) ==
  /\ IsChecker(d) /\ d.ok /\ Len(d.scopes) = Floor(bs[Len(bs)]) - 1
  /\ \A k \in 1..Len(d.scopes) : DOMAIN d.scopes[k] = DOMAIN c.scopes[k]
  /\ \A n \in Names : d.all[n] = IF Has(bs, Len(bs), n) THEN 0 ELSE c.all[n]

\* The names of the innermost block that other blocks declare as well.
ShadowedBy(bs) ==
  {n \in Name : Has(bs, Len(bs), n) /\ \E i \in 1..Len(bs) - 1 : Has(bs, i, n)}

\* Blocks match the scopes when a block and its scopes are left.
LEMMA ShapePopped ==
  ASSUME NEW c, NEW bs, NEW hid, ShapeInv(c, bs), TracksInv(c, bs, hid), Len(bs) > 1,
         NEW bs2, Popped(bs, bs2), NEW d, Exited(c, d, bs)
  PROVE  ShapeInv(d, bs2) /\ TracksInv(d, bs2, hid \cup ShadowedBy(bs))
<1> DEFINE L == Len(bs) - 1
<1>1. /\ Len(bs2) = L /\ bs2 \in Seq(Blocks) /\ L \in Nat /\ L \in 1..L /\ Len(bs) = L + 1
      /\ \A i \in 1..L : bs2[i] = bs[i] /\ i \in 1..Len(bs)
      /\ Len(bs) \in 1..Len(bs) /\ \A i \in 1..Len(bs) : i \in 1..L \/ i = Len(bs)
      /\ \A i \in 1..L - 1 : i \in 1..Len(bs) - 1 /\ i + 1 \in 1..L /\ i \in 1..L
      /\ L \in 1..Len(bs) - 1 /\ L >= 1 /\ Len(bs) \notin 1..L
  BY DEF Popped, ShapeInv
<1> HIDE DEF L
<1>2. Len(d.scopes) = bs[L].scope /\ Len(d.scopes) \in Nat
  <2>1. Floor(bs[L + 1]) = bs[L].scope + 1
    BY <1>1 DEF ShapeInv
  <2>2. Floor(bs[L + 1]) \in Nat /\ bs[L].scope \in Nat
    BY <1>1, Bounds
  <2> QED BY <1>1, <2>1, <2>2 DEF Exited
<1>3. ASSUME NEW i \in 1..L
      PROVE  /\ (bs2[i].kind = "body" <=> i = 1) /\ 2 <= Floor(bs2[i])
             /\ DOMAIN d.scopes[bs2[i].scope] = DOMAIN bs2[i].names \ {bs2[i].binding}
             /\ bs2[i].kind = "iflet" => DOMAIN d.scopes[bs2[i].scope - 1] = {bs2[i].binding}
  <2>1. i \in 1..Len(bs) /\ bs2[i] = bs[i]
    BY <1>1
  <2>2. /\ bs[i].scope \in Nat /\ Floor(bs[i]) \in Nat
        /\ 2 <= Floor(bs[i]) /\ Floor(bs[i]) <= bs[i].scope
    BY <2>1, Bounds
  <2>3. bs[i].scope <= bs[L].scope
    <3>1. CASE i = L
      BY <2>2, <3>1
    <3>2. CASE i # L
      <4>1. bs[i].scope < Floor(bs[L])
        BY <1>1, <2>1, <3>2 DEF ShapeInv
      <4>2. Floor(bs[L]) <= bs[L].scope /\ Floor(bs[L]) \in Nat /\ bs[L].scope \in Nat
        BY <1>1, Bounds
      <4> QED BY <2>2, <4>1, <4>2
    <3> QED BY <3>1, <3>2
  <2>4. /\ bs[i].scope \in 1..Len(d.scopes)
        /\ bs[i].kind = "iflet" => bs[i].scope - 1 \in 1..Len(d.scopes)
    BY <1>2, <2>2, <2>3, SMTT(60) DEF Floor
  <2>5. DOMAIN d.scopes[bs[i].scope] = DOMAIN bs[i].names \ {bs[i].binding}
    BY <2>1, <2>4 DEF ShapeInv, Exited
  <2>6. bs[i].kind = "iflet" => DOMAIN d.scopes[bs[i].scope - 1] = {bs[i].binding}
    BY <2>1, <2>4 DEF ShapeInv, Exited
  <2>7. bs[i].kind = "body" <=> i = 1
    BY <2>1 DEF ShapeInv
  <2> QED BY <2>1, <2>2, <2>5, <2>6, <2>7
<1>4. ShapeInv(d, bs2)
  <2>1. \A i \in 1..Len(bs2) - 1 : Floor(bs2[i + 1]) = bs2[i].scope + 1
    <3> SUFFICES ASSUME NEW i \in 1..L - 1 PROVE Floor(bs2[i + 1]) = bs2[i].scope + 1
      BY <1>1
    <3>1. i \in 1..Len(bs) - 1 /\ i + 1 \in 1..L /\ i \in 1..L
      BY <1>1
    <3>2. Floor(bs[i + 1]) = bs[i].scope + 1
      BY <3>1 DEF ShapeInv
    <3> QED BY <1>1, <3>1, <3>2
  <2>2. \A i, j \in 1..Len(bs2) : i < j => bs2[i].scope < Floor(bs2[j])
    BY <1>1 DEF ShapeInv
  <2>3. Len(bs2) > 0 => bs2[Len(bs2)].scope = Len(d.scopes)
    BY <1>1, <1>2
  <2>4. \A i \in 1..Len(bs2) :
             /\ (bs2[i].kind = "body" <=> i = 1) /\ 2 <= Floor(bs2[i])
             /\ DOMAIN d.scopes[bs2[i].scope] = DOMAIN bs2[i].names \ {bs2[i].binding}
             /\ bs2[i].kind = "iflet" => DOMAIN d.scopes[bs2[i].scope - 1] = {bs2[i].binding}
    BY <1>1, <1>3
  <2> QED BY <1>1, <2>1, <2>2, <2>3, <2>4 DEF ShapeInv, Exited
<1>5. \A i \in 1..L : \A x : Has(bs2, i, x) <=> Has(bs, i, x)
  BY <1>1 DEF Has
<1>6. \A i \in 1..L : \A x : ~Has(bs, Len(bs), x) => (IsInner(bs2, i, x) <=> IsInner(bs, i, x))
  BY <1>1, <1>5 DEF IsInner
<1>7. TracksInv(d, bs2, hid \cup ShadowedBy(bs))
  <2>1. hid \cup ShadowedBy(bs) \subseteq Name
    BY DEF TracksInv, ShadowedBy
  <2>2. ASSUME NEW x \in Names, d.all[x] # 0
        PROVE  \E i \in 1..Len(bs2) : IsInner(bs2, i, x) /\ d.all[x] = ScopeAt(bs2[i], x)
    <3>1. ~Has(bs, Len(bs), x) /\ d.all[x] = c.all[x]
      BY <2>2 DEF Exited
    <3>2. PICK i \in 1..Len(bs) : IsInner(bs, i, x) /\ c.all[x] = ScopeAt(bs[i], x)
      BY <2>2, <3>1 DEF TracksInv
    <3>3. i \in 1..L
      BY <3>1, <3>2, <1>1 DEF IsInner
    <3> QED BY <3>1, <3>2, <3>3, <1>1, <1>6
  <2>3. ASSUME NEW x \in Names, NEW i \in 1..Len(bs2), Has(bs2, i, x),
               x \notin hid \cup ShadowedBy(bs)
        PROVE  d.all[x] # 0
    <3>1. i \in 1..L /\ i \in 1..Len(bs) /\ Has(bs, i, x) /\ i # Len(bs)
      BY <2>3, <1>1, <1>5
    <3>2. c.all[x] # 0
      BY <2>3, <3>1 DEF TracksInv
    <3>3. ~Has(bs, Len(bs), x)
      <4>1. CASE x \in Name
        BY <2>3, <3>1, <4>1, <1>1 DEF ShadowedBy
      <4>2. CASE x \in RefName
        BY <3>1, <4>2, <1>1 DEF TracksInv
      <4> QED BY <4>1, <4>2 DEF Names
    <3> QED BY <3>2, <3>3 DEF Exited
  <2>4. \A i, j \in 1..Len(bs2), r \in RefName : Has(bs2, i, r) /\ Has(bs2, j, r) => i = j
    BY <1>1, <1>5 DEF TracksInv
  <2> QED BY <2>1, <2>2, <2>3, <2>4 DEF TracksInv
<1> QED BY <1>4, <1>7

\* After the body nothing is open.
LEMMA ShapeEmpty ==
  ASSUME NEW c, NEW bs, NEW hid, ShapeInv(c, bs), TracksInv(c, bs, hid), Len(bs) = 1,
         NEW d, d = Sema!dropScopeVariables(c)
  PROVE  ShapeInv(d, <<>>) /\ TracksInv(d, <<>>, hid)
<1>1. /\ IsChecker(c) /\ c.ok /\ bs[1] \in Blocks /\ bs[1].kind = "body" /\ bs[1].scope = Len(c.scopes)
      /\ Len(c.scopes) > 0
  <2>1. 1 \in 1..Len(bs)
    OBVIOUS
  <2>2. bs[1] \in Blocks /\ bs[1].scope \in Nat /\ 2 <= Floor(bs[1]) /\ Floor(bs[1]) <= bs[1].scope
        /\ Floor(bs[1]) \in Nat
    BY <2>1, Bounds
  <2> QED BY <2>1, <2>2 DEF ShapeInv
<1>2. /\ IsChecker(d) /\ d.ok
      /\ \A n \in Names :
           d.all[n] = IF n \in DOMAIN c.scopes[Len(c.scopes)] THEN 0 ELSE c.all[n]
  BY <1>1, DropIs
<1>3. DOMAIN c.scopes[Len(c.scopes)] = DOMAIN bs[1].names
  <2>1. bs[1].binding = NoName /\ DOMAIN bs[1].names \subseteq Names
    BY <1>1, BlockIs
  <2>2. DOMAIN c.scopes[Len(c.scopes)] = DOMAIN bs[1].names \ {bs[1].binding}
    BY <1>1 DEF ShapeInv
  <2> QED BY <2>1, <2>2, NamesAssumption DEF Names
<1>4. \A n \in Names : d.all[n] = 0
  <2> SUFFICES ASSUME NEW n \in Names, c.all[n] # 0 PROVE Has(bs, 1, n)
    BY <1>2, <1>3 DEF Has
  <2> QED BY DEF TracksInv, IsInner
<1>5. <<>> \in Seq(Blocks) /\ Len(<<>>) = 0
  OBVIOUS
<1>6. ShapeInv(d, <<>>)
  BY <1>2, <1>5 DEF ShapeInv
<1>7. TracksInv(d, <<>>, hid)
  BY <1>4, <1>5 DEF TracksInv
<1> QED BY <1>6, <1>7

-----------------------------------------------------------------------------
(* The checker at the ends of blocks. *)

\* A plain block begins.
LEMMA PushEnters ==
  ASSUME NEW c, IsChecker(c), c.ok, NEW d, d = Sema!pushOwnershipScope(c),
         NEW b, b.kind # "iflet", DOMAIN b.names = {}, b.scope = Len(c.scopes) + 1
  PROVE  Entered(c, d, b)
<1>1. /\ IsChecker(d) /\ d.ok /\ d.all = c.all /\ Len(d.scopes) = Len(c.scopes) + 1
      /\ \A k \in 1..Len(c.scopes) : d.scopes[k] = c.scopes[k]
      /\ DOMAIN d.scopes[Len(c.scopes) + 1] = {}
  BY PushScopeIs
<1> QED BY <1>1 DEF Entered, Floor

\* What is left of the checker's scopes after the block.
LeaveChecker(c, b) ==
  LET left == Sema!dropScopeVariables(c)
  IN  IF b.kind = "iflet" THEN Sema!dropScopeVariables(left) ELSE left

\* The checker leaves the scopes of the innermost block, and only those.
LEMMA LeaveExits ==
  ASSUME NEW c, NEW bs, ShapeInv(c, bs), Len(bs) > 0,
         NEW d, d = LeaveChecker(c, bs[Len(bs)])
  PROVE  Exited(c, d, bs)
<1> DEFINE b == bs[Len(bs)]
           top == Len(c.scopes)
           e == Sema!dropScopeVariables(c)
<1>1. /\ IsChecker(c) /\ c.ok /\ b \in Blocks /\ b.scope = top /\ top \in Nat /\ top >= 2
      /\ b.kind = "iflet" => top >= 3
      /\ DOMAIN c.scopes[top] = DOMAIN b.names \ {b.binding}
      /\ b.kind = "iflet" => DOMAIN c.scopes[top - 1] = {b.binding} /\ b.binding \in DOMAIN b.names
  <2>1. Len(bs) \in 1..Len(bs) /\ Len(bs) \in Nat
    BY DEF ShapeInv
  <2>2. b \in Blocks /\ b.scope \in Nat /\ 2 <= Floor(b) /\ Floor(b) <= b.scope
        /\ Floor(b) \in Nat /\ top \in Nat
    BY <2>1, Bounds
  <2>3. b.scope = top
    BY <2>1 DEF ShapeInv
  <2>4. DOMAIN c.scopes[b.scope] = DOMAIN b.names \ {b.binding}
        /\ (b.kind = "iflet" => DOMAIN c.scopes[b.scope - 1] = {b.binding})
        /\ IsChecker(c) /\ c.ok
    BY <2>1 DEF ShapeInv
  <2>5. b.kind = "iflet" => b.binding \in DOMAIN b.names
    BY <2>2, BlockIs
  <2> HIDE DEF b, top
  <2> QED BY <2>2, <2>3, <2>4, <2>5 DEF Floor
<1>2. /\ IsChecker(e) /\ e.ok /\ Len(e.scopes) = top - 1
      /\ \A n \in Names : e.all[n] = IF n \in DOMAIN c.scopes[top] THEN 0 ELSE c.all[n]
      /\ \A k \in 1..top - 1 : DOMAIN e.scopes[k] = DOMAIN c.scopes[k]
  BY <1>1, DropIs, SMTT(60)
<1> HIDE DEF e
<1>3. CASE b.kind # "iflet"
  <2>1. d = e /\ Floor(b) = top
    BY <1>1, <1>3 DEF LeaveChecker, Floor, e
  <2>2. DOMAIN c.scopes[top] = DOMAIN b.names
    BY <1>1, <1>3, BlockIs, NamesAssumption DEF Names
  <2> QED BY <1>1, <1>2, <2>1, <2>2 DEF Exited, Has
<1>4. CASE b.kind = "iflet"
  <2>1. d = Sema!dropScopeVariables(e) /\ Floor(b) = top - 1
    BY <1>1, <1>4 DEF LeaveChecker, Floor, e
  <2>2. Len(e.scopes) > 0 /\ top - 1 \in 1..top - 1
    BY <1>1, <1>2, <1>4
  <2>3. /\ IsChecker(d) /\ d.ok /\ Len(d.scopes) = top - 1 - 1
        /\ \A n \in Names : d.all[n] = IF n \in DOMAIN e.scopes[top - 1] THEN 0 ELSE e.all[n]
        /\ \A k \in 1..top - 1 - 1 : DOMAIN d.scopes[k] = DOMAIN e.scopes[k]
    <3>1. d = Sema!dropScopeVariables(e) /\ IsChecker(e) /\ e.ok /\ Len(e.scopes) > 0
      BY <1>2, <2>1, <2>2
    <3>2. /\ IsChecker(d) /\ d.ok /\ Len(d.scopes) = Len(e.scopes) - 1
          /\ \A n \in Names :
               d.all[n] = IF n \in DOMAIN e.scopes[Len(e.scopes)] THEN 0 ELSE e.all[n]
          /\ \A k \in 1..Len(e.scopes) - 1 : DOMAIN d.scopes[k] = DOMAIN e.scopes[k]
      BY <3>1, DropIs
    <3> HIDE DEF top
    <3> QED BY <1>2, <3>2
  <2>4. DOMAIN e.scopes[top - 1] = {b.binding}
    BY <1>1, <1>2, <1>4, <2>2
  <2>5. \A k \in 1..top - 1 - 1 : DOMAIN d.scopes[k] = DOMAIN c.scopes[k]
    BY <1>1, <1>2, <2>3
  <2>6. \A n \in Names : d.all[n] = IF Has(bs, Len(bs), n) THEN 0 ELSE c.all[n]
    BY <1>1, <1>2, <1>4, <2>3, <2>4 DEF Has
  <2> QED BY <1>1, <2>1, <2>3, <2>5, <2>6 DEF Exited
<1> QED BY <1>3, <1>4

-----------------------------------------------------------------------------
(* The maps of the generator. *)

\* What the generator's maps, the saved ones included, consist of.
LEMMA MapsTyped ==
  ASSUME NEW g \in Generators, NEW bs \in Seq(Blocks)
  PROVE  \A G \in Maps(g, bs) : /\ G.namedValues \in [Name -> Nat]
                                /\ G.varStructTypes \subseteq Name
<1>1. \A h \in Generators : /\ Map(h).namedValues \in [Name -> Nat]
                            /\ Map(h).varStructTypes \subseteq Name
  BY DEF Map, Generators
<1>2. \A i \in 1..Len(bs) : bs[i].saved \in Generators
  <2> SUFFICES ASSUME NEW i \in 1..Len(bs) PROVE bs[i].saved \in Generators
    OBVIOUS
  <2>1. bs[i] \in Blocks
    OBVIOUS
  <2> QED BY <2>1, BlockIs
<1> QED BY <1>1, <1>2 DEF Maps

\* Fewer maps of more slots still point apart.
LEMMA MapsSub ==
  ASSUME NEW X, NEW L \in Nat, MapsInv(X, L), NEW Y \in SUBSET X, NEW K \in Nat, L <= K,
         \A G \in X : G.namedValues \in [Name -> Nat]
  PROVE  MapsInv(Y, K)
<1>1. \A G \in Y : \A a \in Name : G.namedValues[a] <= K
  <2> SUFFICES ASSUME NEW G \in Y, NEW a \in Name PROVE G.namedValues[a] <= K
    OBVIOUS
  <2>1. G.namedValues[a] \in Nat /\ G.namedValues[a] <= L
    BY DEF MapsInv
  <2> QED BY <2>1
<1>2. \A G \in Y : \A a \in G.varStructTypes : G.namedValues[a] # 0
  BY DEF MapsInv
<1>3. \A G, H \in Y : \A a, b \in Name :
       G.namedValues[a] = H.namedValues[b] /\ G.namedValues[a] # 0 =>
         a = b /\ (a \in G.varStructTypes <=> a \in H.varStructTypes)
  BY DEF MapsInv
<1> QED BY <1>1, <1>2, <1>3 DEF MapsInv

\* g2 is g with slot s for the name n.
NewMap(g, g2, n, s) ==
  /\ g2 \in Generators
  /\ \A a \in Name : g2.namedValues[a] = IF a = n THEN s ELSE g.namedValues[a]
  /\ \A a \in Name : a # n => (a \in g2.varStructTypes <=> a \in g.varStructTypes)

\* Maps still point apart when one gets a slot that is new.
LEMMA MapsNew ==
  ASSUME NEW g \in Generators, NEW X, NEW L \in Nat, MapsInv(X, L), Map(g) \in X,
         \A G \in X : G.namedValues \in [Name -> Nat] /\ G.varStructTypes \subseteq Name,
         NEW n \in Name, NEW g2, NewMap(g, g2, n, L + 1),
         NEW Y \in SUBSET (X \cup {Map(g2)})
  PROVE  MapsInv(Y, L + 1)
<1>1. /\ Map(g).namedValues = g.namedValues /\ Map(g2).namedValues = g2.namedValues
      /\ Map(g).varStructTypes = g.varStructTypes /\ Map(g2).varStructTypes = g2.varStructTypes
  BY DEF Map
<1> DEFINE N == Map(g2)
<1>2. /\ \A a \in Name : N.namedValues[a] = IF a = n THEN L + 1 ELSE Map(g).namedValues[a]
      /\ \A a \in Name : a # n => (a \in N.varStructTypes <=> a \in Map(g).varStructTypes)
      /\ N.varStructTypes \subseteq Name
  BY <1>1 DEF NewMap, Generators
<1> HIDE DEF N
<1>3. \A G \in X : \A a \in Name : G.namedValues[a] \in Nat /\ G.namedValues[a] <= L
  BY DEF MapsInv
<1>4. \A G \in X \cup {N} : \A a \in Name : G.namedValues[a] <= L + 1
  BY <1>2, <1>3
<1>5. \A G \in X \cup {N} : \A a \in G.varStructTypes : G.namedValues[a] # 0
  <2>1. \A G \in X : \A a \in G.varStructTypes : G.namedValues[a] # 0
    BY DEF MapsInv
  <2>2. \A a \in N.varStructTypes : N.namedValues[a] # 0
    BY <1>2, <2>1
  <2> QED BY <2>1, <2>2
<1>6. ASSUME NEW a \in Name, NEW b \in Name, NEW H \in X,
             N.namedValues[a] = H.namedValues[b], N.namedValues[a] # 0
      PROVE  a = b /\ (a \in N.varStructTypes <=> a \in H.varStructTypes)
  <2>1. a # n
    BY <1>2, <1>3, <1>6
  <2>2. Map(g).namedValues[a] = H.namedValues[b] /\ Map(g).namedValues[a] # 0
    BY <1>2, <1>6, <2>1
  <2>3. a = b /\ (a \in Map(g).varStructTypes <=> a \in H.varStructTypes)
    BY <2>2 DEF MapsInv
  <2> QED BY <1>2, <2>1, <2>3
<1>7. ASSUME NEW a \in Name, NEW b \in Name,
             N.namedValues[a] = N.namedValues[b], N.namedValues[a] # 0
      PROVE  a = b
  <2>1. CASE a = n \/ b = n
    BY <1>2, <1>3, <1>7, <2>1
  <2>2. CASE a # n /\ b # n
    <3>1. Map(g).namedValues[a] = Map(g).namedValues[b] /\ Map(g).namedValues[a] # 0
      BY <1>2, <1>7, <2>2
    <3> QED BY <3>1 DEF MapsInv
  <2> QED BY <2>1, <2>2
<1>8. ASSUME NEW G \in X, NEW H \in X, NEW a \in Name, NEW b \in Name,
             G.namedValues[a] = H.namedValues[b], G.namedValues[a] # 0
      PROVE  a = b /\ (a \in G.varStructTypes <=> a \in H.varStructTypes)
  BY <1>8 DEF MapsInv
<1>9. ASSUME NEW G \in X \cup {N}, NEW H \in X \cup {N}, NEW a \in Name, NEW b \in Name,
             G.namedValues[a] = H.namedValues[b], G.namedValues[a] # 0
      PROVE  a = b /\ (a \in G.varStructTypes <=> a \in H.varStructTypes)
  <2>1. CASE G \in X /\ H \in X
    BY <1>8, <1>9, <2>1
  <2>2. CASE G = N /\ H \in X
    BY <1>6, <1>9, <2>2
  <2>3. CASE G \in X /\ H = N
    BY <1>6, <1>9, <2>3
  <2>4. CASE G = N /\ H = N
    BY <1>7, <1>9, <2>4
  <2> QED BY <2>1, <2>2, <2>3, <2>4
<1>10. Y \subseteq X \cup {N}
  BY DEF N
<1> QED BY <1>4, <1>5, <1>9, <1>10 DEF MapsInv

-----------------------------------------------------------------------------
(* The slots of the names. *)

\* m2 has the slots of m.
SlotsKept(m, m2) ==
  /\ Len(m2.slots) = Len(m.slots)
  /\ \A s \in 1..Len(m.slots) : m2.slots[s].type = m.slots[s].type

\* The slot of a declared variable exists, has its type, and is no other variable's.
LEMMA SlotsAre ==
  ASSUME NEW g, NEW bs, NEW m, NEW hid, GenInv(g, bs, m, hid), NEW i \in 1..Len(bs), NEW n \in Name,
         Has(bs, i, n)
  PROVE  /\ SlotAt(bs, i, n) \in 1..Len(m.slots)
         /\ m.slots[SlotAt(bs, i, n)].type = TypeAt(bs, i, n)
         /\ \A j \in 1..Len(bs), k \in Name :
              Has(bs, j, k) /\ SlotAt(bs, j, k) = SlotAt(bs, i, n) => i = j /\ n = k
BY DEF GenInv, SlotInv

\* The same maps, blocks and slots.
LEMMA GenKept ==
  ASSUME NEW g, NEW bs, NEW m, NEW hid, GenInv(g, bs, m, hid),
         NEW g2 \in Generators, Map(g2) = Map(g), NEW m2, SlotsKept(m, m2),
         NEW bs2, Len(bs2) = Len(bs),
         \A i \in 1..Len(bs) : SameBlock(bs[i], bs2[i]),
         \A i \in 1..Len(bs), n \in Name : Has(bs2, i, n) <=> Has(bs, i, n),
         \A i \in 1..Len(bs), n \in Name : Has(bs, i, n) => bs2[i].names[n] = bs[i].names[n]
  PROVE  GenInv(g2, bs2, m2, hid)
<1>1. g2.namedValues = g.namedValues /\ g2.varStructTypes = g.varStructTypes
  BY DEF Map
<1>2. Maps(g2, bs2) = Maps(g, bs)
  BY DEF Maps, SameBlock
<1>3. \A i \in 1..Len(bs), n \in Name : Has(bs, i, n) =>
        SlotAt(bs2, i, n) = SlotAt(bs, i, n) /\ TypeAt(bs2, i, n) = TypeAt(bs, i, n)
  BY DEF SlotAt, TypeAt
<1>4. \A i \in 1..Len(bs) : bs2[i].kind = bs[i].kind /\ bs2[i].saved = bs[i].saved
                            /\ bs2[i].binding = bs[i].binding
  BY DEF SameBlock
<1>5. \A i \in 1..Len(bs), n \in Name : IsInner(bs2, i, n) <=> IsInner(bs, i, n)
  BY DEF IsInner
<1>6. ASSUME NEW i \in 1..Len(bs), NEW n \in Name, Has(bs, i, n)
      PROVE  SlotInv(Maps(g, bs), bs2, m2, i, n) /\ InnerInv(g2, bs2, hid, i, n)
  <2> DEFINE s == SlotAt(bs, i, n)
  <2>1. SlotInv(Maps(g, bs), bs, m, i, n) /\ InnerInv(g, bs, hid, i, n)
    BY <1>6 DEF GenInv
  <2>2. SlotAt(bs2, i, n) = s /\ TypeAt(bs2, i, n) = TypeAt(bs, i, n)
    BY <1>3, <1>6
  <2>3. s \in 1..Len(m2.slots) /\ m2.slots[s].type = TypeAt(bs2, i, n)
    BY <2>1, <2>2 DEF SlotInv, SlotsKept
  <2>4. \A j \in 1..Len(bs2), k \in Name :
         Has(bs2, j, k) /\ SlotAt(bs2, j, k) = s => i = j /\ n = k
    BY <2>1, <1>3 DEF SlotInv
  <2>5. /\ \A G \in Maps(g, bs), a \in Name : G.namedValues[a] = s =>
             a = n /\ (n = bs2[i].binding => n \in G.varStructTypes)
        /\ \A l \in 1..i : bs2[l].saved.namedValues[n] # s
    <3>1. \A l \in 1..i : l \in 1..Len(bs)
      OBVIOUS
    <3> QED BY <2>1, <3>1, <1>4 DEF SlotInv
  <2>6. SlotInv(Maps(g, bs), bs2, m2, i, n)
    BY <2>2, <2>3, <2>4, <2>5 DEF SlotInv
  <2>7. InnerInv(g2, bs2, hid, i, n)
    <3>1. \A k \in i + 1..Len(bs2) : k \in 1..Len(bs)
      OBVIOUS
    <3> QED BY <2>1, <2>2, <3>1, <1>1, <1>4, <1>5 DEF InnerInv
  <2> QED BY <2>6, <2>7
<1>7. MapsInv(Maps(g2, bs2), Len(m2.slots))
  BY <1>2 DEF GenInv, SlotsKept
<1> QED BY <1>2, <1>6, <1>7 DEF GenInv

\* bs2 is bs with n in the innermost block, which may be new.
Introduced(bs, bs2, n) ==
  /\ Len(bs2) \in {Len(bs), Len(bs) + 1} /\ Len(bs2) > 0
  /\ \A i \in 1..Len(bs) : SameBlock(bs[i], bs2[i])
  /\ \A i \in 1..Len(bs2), k \in Name :
       Has(bs2, i, k) <=> (i <= Len(bs) /\ Has(bs, i, k)) \/ (i = Len(bs2) /\ k = n)
  /\ \A i \in 1..Len(bs), k \in Name : Has(bs, i, k) => bs2[i].names[k] = bs[i].names[k]

\* A declaration of the variable n with a slot of its own.
LEMMA GenFresh ==
  ASSUME NEW g, NEW bs \in Seq(Blocks), NEW m, m \in Machines, NEW hid, GenInv(g, bs, m, hid),
         NEW n \in Name, NEW bs2, Introduced(bs, bs2, n),
         Len(bs2) = Len(bs) => ~Has(bs, Len(bs), n),
         Len(bs2) > Len(bs) => Map(bs2[Len(bs2)].saved) = Map(g),
         NEW g2, NewMap(g, g2, n, Len(m.slots) + 1),
         n = bs2[Len(bs2)].binding => n \in g2.varStructTypes,
         NEW m2, Len(m2.slots) = Len(m.slots) + 1,
         \A s \in 1..Len(m.slots) : m2.slots[s].type = m.slots[s].type,
         SlotAt(bs2, Len(bs2), n) = Len(m.slots) + 1,
         m2.slots[Len(m.slots) + 1].type = TypeAt(bs2, Len(bs2), n)
  PROVE  GenInv(g2, bs2, m2, hid \ {n})
<1> DEFINE L == Len(m.slots)
           T == Len(bs2)
           X == Maps(g, bs)
           Y == Maps(g2, bs2)
<1>1. /\ L \in Nat /\ Len(bs) \in Nat /\ T \in Nat /\ T \in 1..T /\ Len(bs) <= T /\ T <= Len(bs) + 1
      /\ g \in Generators /\ g2 \in Generators /\ L + 1 \in Nat
      /\ \A i \in 1..Len(bs) : i \in 1..T
      /\ \A i \in 1..T : i \in 1..Len(bs) \/ (i = T /\ T = Len(bs) + 1)
  BY MachineIs DEF Introduced, GenInv, NewMap
<1>2. \A G \in X : /\ G.namedValues \in [Name -> Nat] /\ G.varStructTypes \subseteq Name
                   /\ \A a \in Name : G.namedValues[a] \in Nat /\ G.namedValues[a] <= L
  <2>1. \A G \in X : G.namedValues \in [Name -> Nat] /\ G.varStructTypes \subseteq Name
    BY <1>1, MapsTyped
  <2>2. \A G \in X : \A a \in Name : G.namedValues[a] <= L
    BY DEF GenInv, MapsInv
  <2> QED BY <2>1, <2>2
<1>3. Map(g) \in X
  BY DEF Maps
<1>4. \A i \in 1..Len(bs) : bs2[i].kind = bs[i].kind /\ bs2[i].saved = bs[i].saved
                            /\ bs2[i].binding = bs[i].binding
  BY DEF SameBlock, Introduced
<1>5. Y \subseteq X \cup {Map(g2)}
  <2>1. \A i \in 1..T : Map(bs2[i].saved) \in X
    <3> SUFFICES ASSUME NEW i \in 1..T PROVE Map(bs2[i].saved) \in X
      OBVIOUS
    <3>1. CASE i \in 1..Len(bs)
      BY <3>1, <1>4 DEF Maps
    <3>2. CASE i = T /\ T = Len(bs) + 1
      BY <3>2, <1>1, <1>3
    <3> QED BY <3>1, <3>2, <1>1
  <2> HIDE DEF X
  <2> QED BY <2>1 DEF Maps
<1> HIDE DEF X, Y, L, T
<1>6. MapsInv(Y, L + 1)
  <2>1. MapsInv(X, L)
    BY DEF GenInv, X, L
  <2>2. NewMap(g, g2, n, L + 1)
    BY DEF L
  <2> QED BY <1>1, <1>2, <1>3, <1>5, <2>1, <2>2, MapsNew
<1>7. \A a \in Name : g2.namedValues[a] = IF a = n THEN L + 1 ELSE g.namedValues[a]
  BY DEF NewMap, L
<1>8. \A a \in Name : a # n => (a \in g2.varStructTypes <=> a \in g.varStructTypes)
  BY DEF NewMap
<1>9. /\ \A i \in 1..T, k \in Name :
           Has(bs2, i, k) <=> (i \in 1..Len(bs) /\ Has(bs, i, k)) \/ (i = T /\ k = n)
      /\ SlotAt(bs2, T, n) = L + 1
      /\ \A i \in 1..Len(bs), k \in Name : Has(bs, i, k) =>
           SlotAt(bs2, i, k) = SlotAt(bs, i, k) /\ TypeAt(bs2, i, k) = TypeAt(bs, i, k)
           /\ ~(i = T /\ k = n)
  BY <1>1 DEF Introduced, SlotAt, TypeAt, T, L
<1>10. \A i \in 1..Len(bs), k \in Name : Has(bs, i, k) =>
         SlotInv(X, bs, m, i, k) /\ InnerInv(g, bs, hid, i, k) /\ SlotAt(bs, i, k) \in 1..L
  BY ZenonT(60) DEF GenInv, X, SlotInv, L
<1>11. \A G \in Y, a \in Name, s \in 1..L : G.namedValues[a] = s =>
         \E H \in X : H.namedValues[a] = s /\ (a \in H.varStructTypes => a \in G.varStructTypes)
  <2> SUFFICES ASSUME NEW G \in Y, NEW a \in Name, NEW s \in 1..L, G.namedValues[a] = s
               PROVE  \E H \in X : H.namedValues[a] = s
                                   /\ (a \in H.varStructTypes => a \in G.varStructTypes)
    OBVIOUS
  <2>1. CASE G \in X
    BY <2>1
  <2>2. CASE G = Map(g2)
    <3>1. G.namedValues = g2.namedValues /\ G.varStructTypes = g2.varStructTypes
      BY <2>2 DEF Map
    <3>2. a # n
      BY <3>1, <1>1, <1>7
    <3>3. Map(g).namedValues[a] = s
          /\ (a \in Map(g).varStructTypes => a \in G.varStructTypes)
      BY <3>1, <3>2, <1>7, <1>8 DEF Map
    <3> QED BY <3>3, <1>3
  <2> QED BY <2>1, <2>2, <1>5
<1>12. ASSUME NEW i \in 1..Len(bs), NEW k \in Name, Has(bs, i, k)
       PROVE  SlotInv(Y, bs2, m2, i, k)
  <2> DEFINE s == SlotAt(bs, i, k)
  <2>1. SlotInv(X, bs, m, i, k) /\ s \in 1..L
    BY <1>10, <1>12
  <2>2. SlotAt(bs2, i, k) = s /\ TypeAt(bs2, i, k) = TypeAt(bs, i, k)
    BY <1>9, <1>12
  <2> HIDE DEF s
  <2>3. s \in 1..Len(m2.slots) /\ m2.slots[s].type = TypeAt(bs2, i, k)
    BY <2>1, <2>2, <1>1, SMTT(60) DEF SlotInv, L, s
  <2>4. \A j \in 1..Len(bs2), l \in Name :
         Has(bs2, j, l) /\ SlotAt(bs2, j, l) = s => i = j /\ k = l
    <3> SUFFICES ASSUME NEW j \in 1..T, NEW l \in Name, Has(bs2, j, l), SlotAt(bs2, j, l) = s
                 PROVE  i = j /\ k = l
      BY DEF T
    <3>1. ~(j = T /\ l = n)
      BY <2>1, <1>1, <1>9
    <3>2. j \in 1..Len(bs) /\ Has(bs, j, l) /\ SlotAt(bs, j, l) = s
      BY <3>1, <1>9
    <3> QED BY <3>2, <2>1 DEF SlotInv, s
  <2>5. \A G \in Y, a \in Name : G.namedValues[a] = s =>
             a = k /\ (k = bs2[i].binding => k \in G.varStructTypes)
    <3> SUFFICES ASSUME NEW G \in Y, NEW a \in Name, G.namedValues[a] = s
                 PROVE  a = k /\ (k = bs2[i].binding => k \in G.varStructTypes)
      OBVIOUS
    <3>1. PICK H \in X : H.namedValues[a] = s /\ (a \in H.varStructTypes => a \in G.varStructTypes)
      BY <1>11, <2>1
    <3>2. a = k /\ (k = bs[i].binding => k \in H.varStructTypes)
      BY <3>1, <2>1 DEF SlotInv, s
    <3> QED BY <3>1, <3>2, <1>4
  <2>6. \A l \in 1..i : bs2[l].saved.namedValues[k] # s
    <3>1. \A l \in 1..i : l \in 1..Len(bs)
      BY <1>1
    <3> QED BY <2>1, <3>1, <1>4 DEF SlotInv, s
  <2> QED BY <2>2, <2>3, <2>4, <2>5, <2>6 DEF SlotInv
<1>13. SlotInv(Y, bs2, m2, T, n)
  <2>1. L + 1 \in 1..Len(m2.slots) /\ m2.slots[L + 1].type = TypeAt(bs2, T, n)
    BY <1>1 DEF L, T
  <2>2. \A j \in 1..Len(bs2), l \in Name :
         Has(bs2, j, l) /\ SlotAt(bs2, j, l) = L + 1 => T = j /\ n = l
    <3> SUFFICES ASSUME NEW j \in 1..T, NEW l \in Name, Has(bs2, j, l), SlotAt(bs2, j, l) = L + 1,
                        ~(j = T /\ l = n)
                 PROVE  FALSE
      BY DEF T
    <3>1. SlotAt(bs, j, l) = L + 1 /\ SlotAt(bs, j, l) \in 1..L
      BY <1>9, <1>10
    <3> QED BY <3>1, <1>1
  <2>3. \A G \in Y, a \in Name : G.namedValues[a] = L + 1 =>
             a = n /\ (n = bs2[T].binding => n \in G.varStructTypes)
    <3> SUFFICES ASSUME NEW G \in Y, NEW a \in Name, G.namedValues[a] = L + 1
                 PROVE  a = n /\ (n = bs2[T].binding => n \in G.varStructTypes)
      OBVIOUS
    <3>1. G = Map(g2)
      BY <1>1, <1>2, <1>5
    <3>2. G.namedValues = g2.namedValues /\ G.varStructTypes = g2.varStructTypes
      BY <3>1 DEF Map
    <3>3. a = n
      <4>1. Map(g).namedValues[a] <= L /\ Map(g).namedValues[a] \in Nat
        BY <1>2, <1>3
      <4>2. g.namedValues[a] # L + 1
        BY <4>1, <1>1 DEF Map
      <4> QED BY <3>2, <4>2, <1>7
    <3> QED BY <3>2, <3>3 DEF T
  <2>4. \A l \in 1..T : bs2[l].saved.namedValues[n] # L + 1
    <3> SUFFICES ASSUME NEW l \in 1..T PROVE bs2[l].saved.namedValues[n] # L + 1
      OBVIOUS
    <3>1. Map(bs2[l].saved) \in X
      <4>1. CASE l \in 1..Len(bs)
        BY <4>1, <1>4 DEF Maps, X
      <4>2. CASE l = T /\ T = Len(bs) + 1
        BY <4>2, <1>1, <1>3 DEF T
      <4> QED BY <4>1, <4>2, <1>1
    <3>2. Map(bs2[l].saved).namedValues[n] <= L /\ Map(bs2[l].saved).namedValues[n] \in Nat
      BY <3>1, <1>2
    <3> QED BY <3>2, <1>1 DEF Map
  <2> QED BY <1>9, <2>1, <2>2, <2>3, <2>4 DEF SlotInv
<1>14. ASSUME NEW i \in 1..T, NEW k \in Name, Has(bs2, i, k)
       PROVE  InnerInv(g2, bs2, hid \ {n}, i, k)
  <2> SUFFICES ASSUME k \notin hid \ {n}, IsInner(bs2, i, k)
               PROVE  /\ g2.namedValues[k] = SlotAt(bs2, i, k)
                      /\ \A j \in i + 1..T :
                           bs2[j].kind = "iflet" => bs2[j].saved.namedValues[k] = SlotAt(bs2, i, k)
    BY DEF InnerInv, T
  <2>1. CASE k = n
    <3>1. Has(bs2, T, n)
      BY <1>1, <1>9
    <3>2. i = T
      BY <2>1, <3>1, <1>1 DEF IsInner, T
    <3> QED BY <2>1, <3>2, <1>1, <1>7, <1>9
  <2>2. CASE k # n
    <3>1. i \in 1..Len(bs) /\ Has(bs, i, k) /\ k \notin hid
      BY <2>2, <1>9, <1>14
    <3>2. IsInner(bs, i, k)
      BY <2>2, <3>1, <1>1, <1>9 DEF IsInner, T
    <3>3. /\ g.namedValues[k] = SlotAt(bs, i, k)
          /\ \A j \in i + 1..Len(bs) :
               bs[j].kind = "iflet" => bs[j].saved.namedValues[k] = SlotAt(bs, i, k)
      BY <3>1, <3>2, <1>10 DEF InnerInv
    <3>4. SlotAt(bs2, i, k) = SlotAt(bs, i, k)
      BY <3>1, <1>9
    <3>5. ASSUME NEW j \in i + 1..T, bs2[j].kind = "iflet"
          PROVE  bs2[j].saved.namedValues[k] = SlotAt(bs2, i, k)
      <4>1. CASE j \in 1..Len(bs)
        <5>1. j \in i + 1..Len(bs)
          BY <4>1, <1>1
        <5> QED BY <4>1, <5>1, <3>3, <3>4, <3>5, <1>4
      <4>2. CASE j = T /\ T = Len(bs) + 1
        <5>1. Map(bs2[j].saved) = Map(g)
          BY <4>2, <1>1 DEF T
        <5>2. bs2[j].saved.namedValues = g.namedValues
          BY <5>1 DEF Map
        <5> QED BY <5>2, <3>3, <3>4
      <4>3. j \in 1..T
        BY <1>1
      <4> QED BY <4>1, <4>2, <4>3, <1>1
    <3> QED BY <2>2, <3>3, <3>4, <3>5, <1>7
  <2> QED BY <2>1, <2>2
<1>15. \A i \in 1..T, k \in Name : Has(bs2, i, k) => SlotInv(Y, bs2, m2, i, k)
  BY <1>9, <1>12, <1>13
<1>16. MapsInv(Maps(g2, bs2), Len(m2.slots))
  BY <1>6 DEF Y, L
<1> QED BY <1>1, <1>14, <1>15, <1>16 DEF GenInv, Y, T

\* A plain block begins.
LEMMA GenPushed ==
  ASSUME NEW g, NEW bs, bs \in Seq(Blocks), NEW m, m \in Machines, NEW hid, GenInv(g, bs, m, hid),
         Len(bs) > 0, bs[1].kind = "body",
         NEW b, b.kind # "iflet", DOMAIN b.names = {}, NEW bs2, Pushed(bs, bs2, b),
         NEW m2, SlotsKept(m, m2)
  PROVE  GenInv(g, bs2, m2, hid)
<1> DEFINE X == Maps(g, bs)
           T == Len(bs) + 1
<1>1. /\ Len(bs2) = T /\ Len(bs) \in Nat /\ bs2[T] = b /\ b \in Blocks
      /\ \A i \in 1..Len(bs) : bs2[i] = bs[i] /\ i \in 1..T
      /\ \A i \in 1..T : i \in 1..Len(bs) \/ i = T
      /\ bs[1] \in Blocks /\ 1 \in 1..Len(bs) /\ T \in 1..T /\ T > Len(bs)
      /\ Len(m.slots) \in Nat
  BY MachineIs DEF Pushed
<1>2. Maps(g, bs2) \subseteq X
  <2>1. bs[1].saved = Generator /\ b.saved = Generator
    BY <1>1, BlockIs
  <2>2. \A i \in 1..T : \E j \in 1..Len(bs) : bs2[i].saved = bs[j].saved
    BY <1>1, <2>1
  <2> QED BY <1>1, <2>2 DEF Maps
<1> HIDE DEF T
<1>3. MapsInv(Maps(g, bs2), Len(m2.slots))
  <2>1. \A G \in X : G.namedValues \in [Name -> Nat]
    BY MapsTyped DEF GenInv
  <2>2. MapsInv(X, Len(m.slots))
    BY DEF GenInv
  <2> HIDE DEF X
  <2>3. MapsInv(Maps(g, bs2), Len(m.slots))
    BY <1>1, <1>2, <2>1, <2>2, MapsSub
  <2> QED BY <2>3 DEF SlotsKept
<1>4. /\ \A i \in 1..Len(bs), k \in Name : Has(bs2, i, k) <=> Has(bs, i, k)
      /\ \A k \in Name : ~Has(bs2, T, k)
      /\ \A i \in 1..Len(bs), k \in Name :
           SlotAt(bs2, i, k) = SlotAt(bs, i, k) /\ TypeAt(bs2, i, k) = TypeAt(bs, i, k)
  BY <1>1 DEF Has, SlotAt, TypeAt
<1>5. ASSUME NEW i \in 1..Len(bs), NEW n \in Name, Has(bs, i, n)
      PROVE  SlotInv(Maps(g, bs2), bs2, m2, i, n) /\ InnerInv(g, bs2, hid, i, n)
  <2> DEFINE s == SlotAt(bs, i, n)
  <2>1. SlotInv(X, bs, m, i, n) /\ InnerInv(g, bs, hid, i, n)
    BY <1>5 DEF GenInv
  <2>2. SlotAt(bs2, i, n) = s /\ TypeAt(bs2, i, n) = TypeAt(bs, i, n) /\ bs2[i] = bs[i]
    BY <1>1, <1>4
  <2>3. s \in 1..Len(m2.slots) /\ m2.slots[s].type = TypeAt(bs2, i, n)
    BY <2>1, <2>2 DEF SlotInv, SlotsKept
  <2>4. \A j \in 1..Len(bs2), k \in Name :
         Has(bs2, j, k) /\ SlotAt(bs2, j, k) = s => i = j /\ n = k
    BY <2>1, <1>1, <1>4 DEF SlotInv
  <2>5. /\ \A G \in Maps(g, bs2), a \in Name : G.namedValues[a] = s =>
             a = n /\ (n = bs2[i].binding => n \in G.varStructTypes)
        /\ \A l \in 1..i : bs2[l].saved.namedValues[n] # s
    <3>1. \A l \in 1..i : bs2[l] = bs[l]
      BY <1>1
    <3> QED BY <2>1, <2>2, <3>1, <1>2 DEF SlotInv
  <2>6. SlotInv(Maps(g, bs2), bs2, m2, i, n)
    BY <2>2, <2>3, <2>4, <2>5 DEF SlotInv
  <2>7. InnerInv(g, bs2, hid, i, n)
    <3> SUFFICES ASSUME n \notin hid, IsInner(bs2, i, n)
                 PROVE  /\ g.namedValues[n] = s
                        /\ \A k \in i + 1..T :
                             bs2[k].kind = "iflet" => bs2[k].saved.namedValues[n] = s
      BY <1>1, <2>2 DEF InnerInv
    <3>1. IsInner(bs, i, n)
      BY <1>1, <1>4 DEF IsInner
    <3>2. \A k \in i + 1..T : (k \in i + 1..Len(bs) /\ bs2[k] = bs[k]) \/ bs2[k].kind # "iflet"
      BY <1>1 DEF T
    <3> QED BY <2>1, <3>1, <3>2 DEF InnerInv
  <2> QED BY <2>6, <2>7
<1>6. \A i \in 1..Len(bs2), n \in Name : Has(bs2, i, n) =>
        SlotInv(Maps(g, bs2), bs2, m2, i, n) /\ InnerInv(g, bs2, hid, i, n)
  BY <1>1, <1>4, <1>5
<1> QED BY <1>3, <1>6 DEF GenInv

\* A block ends.
LEMMA GenPopped ==
  ASSUME NEW g, NEW bs, bs \in Seq(Blocks), NEW m, m \in Machines, NEW hid, GenInv(g, bs, m, hid),
         Len(bs) > 0, NEW bs2, Popped(bs, bs2),
         NEW g2 \in Generators,
         Map(g2) = IF bs[Len(bs)].kind = "iflet" THEN Map(bs[Len(bs)].saved) ELSE Map(g),
         NEW m2, SlotsKept(m, m2)
  PROVE  GenInv(g2, bs2, m2, hid \cup ShadowedBy(bs))
<1> DEFINE X == Maps(g, bs)
           T == Len(bs)
<1>1. /\ Len(bs2) = T - 1 /\ T \in Nat /\ T \in 1..T
      /\ \A i \in 1..Len(bs2) : bs2[i] = bs[i] /\ i \in 1..T /\ i # T /\ T \in i + 1..T
      /\ \A i \in 1..T : i \in 1..Len(bs2) \/ i = T
      /\ Len(m.slots) \in Nat
  BY MachineIs DEF Popped
<1>2. Maps(g2, bs2) \subseteq X
  BY <1>1 DEF Maps
<1> HIDE DEF T
<1>3. MapsInv(Maps(g2, bs2), Len(m2.slots))
  <2>1. \A G \in X : G.namedValues \in [Name -> Nat]
    BY MapsTyped DEF GenInv
  <2>2. MapsInv(X, Len(m.slots))
    BY DEF GenInv
  <2> HIDE DEF X
  <2>3. MapsInv(Maps(g2, bs2), Len(m.slots))
    BY <1>1, <1>2, <2>1, <2>2, MapsSub
  <2> QED BY <2>3 DEF SlotsKept
<1>4. \A i \in 1..Len(bs2), k \in Name :
         /\ Has(bs2, i, k) <=> Has(bs, i, k)
         /\ SlotAt(bs2, i, k) = SlotAt(bs, i, k) /\ TypeAt(bs2, i, k) = TypeAt(bs, i, k)
  BY <1>1 DEF Has, SlotAt, TypeAt
<1>5. ASSUME NEW i \in 1..Len(bs2), NEW n \in Name, Has(bs2, i, n)
      PROVE  /\ SlotInv(Maps(g2, bs2), bs2, m2, i, n)
             /\ InnerInv(g2, bs2, hid \cup ShadowedBy(bs), i, n)
  <2> DEFINE s == SlotAt(bs, i, n)
  <2>1. SlotInv(X, bs, m, i, n) /\ InnerInv(g, bs, hid, i, n) /\ Has(bs, i, n) /\ i \in 1..T
    BY <1>1, <1>4, <1>5 DEF GenInv, T
  <2>2. SlotAt(bs2, i, n) = s /\ TypeAt(bs2, i, n) = TypeAt(bs, i, n) /\ bs2[i] = bs[i]
    BY <1>1, <1>4
  <2>3. s \in 1..Len(m2.slots) /\ m2.slots[s].type = TypeAt(bs2, i, n)
    BY <2>1, <2>2 DEF SlotInv, SlotsKept
  <2>4. \A j \in 1..Len(bs2), k \in Name :
         Has(bs2, j, k) /\ SlotAt(bs2, j, k) = s => i = j /\ n = k
    BY <2>1, <1>1, <1>4 DEF SlotInv, T
  <2>5. /\ \A G \in Maps(g2, bs2), a \in Name : G.namedValues[a] = s =>
             a = n /\ (n = bs2[i].binding => n \in G.varStructTypes)
        /\ \A l \in 1..i : bs2[l].saved.namedValues[n] # s
    <3>1. \A l \in 1..i : bs2[l] = bs[l]
      BY <1>1
    <3> QED BY <2>1, <2>2, <3>1, <1>2 DEF SlotInv
  <2>6. SlotInv(Maps(g2, bs2), bs2, m2, i, n)
    BY <2>2, <2>3, <2>4, <2>5 DEF SlotInv
  <2>7. InnerInv(g2, bs2, hid \cup ShadowedBy(bs), i, n)
    <3> SUFFICES ASSUME n \notin hid, n \notin ShadowedBy(bs), IsInner(bs2, i, n)
                 PROVE  /\ g2.namedValues[n] = s
                        /\ \A k \in i + 1..Len(bs2) :
                             bs2[k].kind = "iflet" => bs2[k].saved.namedValues[n] = s
      BY <2>2 DEF InnerInv
    <3>1. ~Has(bs, T, n)
      BY <2>1, <1>1 DEF ShadowedBy, T
    <3>2. IsInner(bs, i, n)
      BY <1>1, <1>4, <3>1 DEF IsInner, T
    <3>3. /\ g.namedValues[n] = s
          /\ \A k \in i + 1..T : bs[k].kind = "iflet" => bs[k].saved.namedValues[n] = s
      BY <2>1, <3>2 DEF InnerInv, T
    <3>4. g2.namedValues[n] = s
      <4>1. CASE bs[T].kind = "iflet"
        <5>1. g2.namedValues = bs[T].saved.namedValues
          BY <4>1 DEF Map, T
        <5> QED BY <4>1, <5>1, <3>3, <1>1
      <4>2. CASE bs[T].kind # "iflet"
        <5>1. g2.namedValues = g.namedValues
          BY <4>2 DEF Map, T
        <5> QED BY <5>1, <3>3
      <4> QED BY <4>1, <4>2
    <3>5. \A k \in i + 1..Len(bs2) : k \in i + 1..T /\ bs2[k] = bs[k]
      BY <1>1
    <3> QED BY <3>3, <3>4, <3>5
  <2> QED BY <2>6, <2>7
<1> QED BY <1>3, <1>5 DEF GenInv

\* With no block left, the generator's maps are right of themselves.
LEMMA GenEmpty ==
  ASSUME NEW g, NEW bs, bs \in Seq(Blocks), NEW m, m \in Machines, NEW hid, GenInv(g, bs, m, hid),
         NEW m2, SlotsKept(m, m2)
  PROVE  GenInv(g, <<>>, m2, hid)
<1> DEFINE X == Maps(g, bs)
<1>1. Len(<<>>) = 0 /\ 1..0 = {} /\ Len(m.slots) \in Nat
  BY MachineIs
<1>2. Maps(g, <<>>) \subseteq X
  BY <1>1 DEF Maps
<1>3. MapsInv(Maps(g, <<>>), Len(m2.slots))
  <2>1. \A G \in X : G.namedValues \in [Name -> Nat]
    BY MapsTyped DEF GenInv
  <2>2. MapsInv(X, Len(m.slots))
    BY DEF GenInv
  <2> HIDE DEF X
  <2>3. MapsInv(Maps(g, <<>>), Len(m.slots))
    BY <1>1, <1>2, <2>1, <2>2, MapsSub
  <2> QED BY <2>3 DEF SlotsKept
<1> QED BY <1>1, <1>3 DEF GenInv

-----------------------------------------------------------------------------
(* Names that a statement mentions. *)

\* The records of the variables that a declaration makes.
LEMMA OwnershipInfoIs ==
  ASSUME NEW mutable \in BOOLEAN, NEW n \in Name
  PROVE  /\ Records(n, Sema!OwnershipInfo(mutable, TRUE))
         /\ Sema!OwnershipInfo(mutable, TRUE) \in Infos
         /\ Sema!OwnershipInfo(mutable, TRUE).state = "Owned"
         /\ Sema!OwnershipInfo(mutable, TRUE).borrowCount = 0
         /\ Sema!OwnershipInfo(mutable, TRUE).hasMutableBorrow = FALSE
  BY NamesAssumption DEF Sema!OwnershipInfo, Records, Infos, States

\* The checker d in the block b of an if let, e when its value has been visited.
LetEntered(c, e, d, b, v) ==
  /\ e.ok /\ Entered(c, d, b)
  /\ \A k \in 1..Len(c.scopes) : d.scopes[k] = e.scopes[k]
  /\ InfoAt(d, b, v) = Sema!OwnershipInfo(FALSE, TRUE)

\* The head of an if let and its block: the binding is in a scope of its own.
LEMMA IfLetHeadIs ==
  ASSUME NEW c, IsChecker(c), NEW v \in Name, NEW x \in Name,
         NEW e, e = Sema!visitValue(c, x), IsChecker(e), SameTable(c, e) \/ ~e.ok,
         NEW d, d = Sema!pushOwnershipScope(Sema!visitIfLetHead(c, v, x)), d.ok,
         NEW b, b.kind = "iflet", DOMAIN b.names = {v},
         b.scope = Len(d.scopes), b.binding = v
  PROVE  LetEntered(c, e, d, b, v)
<1> DEFINE info == Sema!OwnershipInfo(FALSE, TRUE)
           p == Sema!pushOwnershipScope(e)
           t == Sema!trackVariable(p, v, info)
<1>1. d = Sema!pushOwnershipScope(t)
  BY DEF Sema!visitIfLetHead
<1>2. Records(v, info) /\ v \in Names
  BY OwnershipInfoIs DEF Names
<1>3. /\ IsChecker(p) /\ p.ok = e.ok /\ p.all = e.all /\ Len(p.scopes) = Len(e.scopes) + 1
      /\ \A k \in 1..Len(e.scopes) : p.scopes[k] = e.scopes[k]
      /\ DOMAIN p.scopes[Len(e.scopes) + 1] = {} /\ Len(e.scopes) \in Nat
  BY PushScopeIs, CheckerIs
<1> HIDE DEF p, info
<1>4. Len(p.scopes) > 0
  BY <1>3
<1>5. /\ IsChecker(t) /\ t.ok = p.ok /\ Len(t.scopes) = Len(p.scopes)
      /\ \A n \in Names : t.all[n] = IF n = v THEN Len(p.scopes) ELSE p.all[n]
      /\ \A k \in 1..Len(p.scopes) :
           DOMAIN t.scopes[k] = DOMAIN p.scopes[k] \cup (IF k = Len(p.scopes) THEN {v} ELSE {})
      /\ t.scopes[Len(p.scopes)][v] = info
      /\ \A k \in 1..Len(p.scopes) : \A n \in DOMAIN p.scopes[k] :
           k # Len(p.scopes) \/ n # v => t.scopes[k][n] = p.scopes[k][n]
  BY <1>2, <1>3, <1>4, TrackIs
<1> HIDE DEF t
<1>6. /\ IsChecker(d) /\ t.ok /\ d.all = t.all /\ Len(d.scopes) = Len(t.scopes) + 1
      /\ \A k \in 1..Len(t.scopes) : d.scopes[k] = t.scopes[k]
      /\ DOMAIN d.scopes[Len(t.scopes) + 1] = {}
  BY <1>1, <1>5, PushScopeIs, SMTT(60)
<1>7. e.ok /\ SameTable(c, e) /\ e.all = c.all /\ Len(e.scopes) = Len(c.scopes)
      /\ \A k \in 1..Len(c.scopes) : DOMAIN e.scopes[k] = DOMAIN c.scopes[k]
  BY <1>3, <1>5, <1>6 DEF SameTable
<1> DEFINE L == Len(c.scopes)
<1>8. L \in Nat /\ Len(p.scopes) = L + 1 /\ Len(t.scopes) = L + 1 /\ Len(d.scopes) = L + 2
      /\ b.scope = L + 2 /\ Floor(b) = L + 1 /\ b.scope - 1 = L + 1
  BY <1>3, <1>5, <1>6, <1>7 DEF Floor
<1>9. \A k \in 1..L : d.scopes[k] = e.scopes[k]
  <2> SUFFICES ASSUME NEW k \in 1..L PROVE d.scopes[k] = e.scopes[k]
    OBVIOUS
  <2>1. k \in 1..L + 1 /\ k # L + 1 /\ k \in 1..Len(e.scopes)
    BY <1>7, <1>8
  <2>2. p.scopes[k] = e.scopes[k] /\ d.scopes[k] = t.scopes[k]
    BY <1>3, <1>6, <1>8, <2>1
  <2>3. DOMAIN t.scopes[k] = DOMAIN p.scopes[k]
        /\ \A n \in DOMAIN p.scopes[k] : t.scopes[k][n] = p.scopes[k][n]
    BY <1>5, <1>8, <2>1, ZenonT(60)
  <2>4. t.scopes[k] \in Scopes /\ p.scopes[k] \in Scopes
    BY <1>3, <1>5, <1>8, <2>1, CheckerIs
  <2>5. t.scopes[k] = [n \in DOMAIN t.scopes[k] |-> t.scopes[k][n]]
        /\ p.scopes[k] = [n \in DOMAIN p.scopes[k] |-> p.scopes[k][n]]
    BY <2>4, ScopeIs
  <2>6. t.scopes[k] = p.scopes[k]
    BY <2>3, <2>5
  <2> QED BY <2>2, <2>6
<1>10. DOMAIN b.names = {v}
  OBVIOUS
<1>11. L + 1 \in 1..L + 1 /\ DOMAIN p.scopes[L + 1] = {}
  BY <1>3, <1>7, <1>8
<1>12. DOMAIN d.scopes[L + 1] = {v} /\ d.scopes[L + 1][v] = info /\ DOMAIN d.scopes[L + 2] = {}
  BY <1>5, <1>6, <1>8, <1>11
<1>13. \A n \in Names : d.all[n] = IF n \in DOMAIN b.names THEN ScopeAt(b, n) ELSE c.all[n]
  BY <1>3, <1>5, <1>6, <1>7, <1>8, <1>10 DEF ScopeAt
<1>14. Entered(c, d, b)
  BY <1>5, <1>6, <1>7, <1>8, <1>9, <1>10, <1>12, <1>13 DEF Entered
<1>15. InfoAt(d, b, v) = info
  BY <1>8, <1>12 DEF InfoAt, ScopeAt
<1> QED BY <1>7, <1>9, <1>14, <1>15 DEF info, LetEntered

\* What the checker's table says of a name that is not hidden.
LEMMA InnerIs ==
  ASSUME NEW c, NEW bs, NEW hid, ShapeInv(c, bs), TracksInv(c, bs, hid),
         NEW n \in Names, n \notin hid, NEW i \in 1..Len(bs), Has(bs, i, n)
  PROVE  \E j \in 1..Len(bs) :
           /\ IsInner(bs, j, n) /\ Has(bs, j, n) /\ i <= j
           /\ c.all[n] # 0 /\ c.all[n] = ScopeAt(bs[j], n) /\ Info(c, n) = InfoAt(c, bs[j], n)
<1>1. c.all[n] # 0
  BY DEF TracksInv
<1>2. PICK j \in 1..Len(bs) : IsInner(bs, j, n) /\ c.all[n] = ScopeAt(bs[j], n)
  BY <1>1 DEF TracksInv
<1> QED BY <1>1, <1>2 DEF IsInner, Info, InfoAt

\* The innermost block is one.
LEMMA InnerApart ==
  ASSUME NEW bs \in Seq(Blocks), NEW n, NEW i, NEW j, IsInner(bs, i, n), IsInner(bs, j, n)
  PROVE  i = j
<1>1. i \in 1..Len(bs) /\ j \in 1..Len(bs) /\ i <= j /\ j <= i
  BY DEF IsInner
<1> QED BY <1>1

\* What the names of a statement mean to the checker and the generator.
LEMMA VisibleIs ==
  ASSUME ScopesAgree, TableAgrees, MapsAgree, NEW n \in Names, Visible(n)
  PROVE  \E i \in 1..Len(blocks) :
           /\ IsInner(blocks, i, n) /\ Has(blocks, i, n)
           /\ checker.all[n] # 0 /\ checker.all[n] = ScopeAt(blocks[i], n)
           /\ Info(checker, n) = InfoAt(checker, blocks[i], n)
           /\ Type(n) = TypeAt(blocks, i, n)
           /\ n \in Name => /\ Slot(n) = SlotAt(blocks, i, n)
                            /\ Slot(n) \in 1..Len(machine.slots)
                            /\ machine.slots[Slot(n)].type = Type(n)
           /\ n \notin hidden /\ n \notin finished
<1>1. blocks \in Seq(Blocks) /\ Len(blocks) \in Nat /\ DOMAIN blocks = 1..Len(blocks)
  BY DEF ScopesAgree, ShapeInv
<1>2. PICK k \in 1..Len(blocks) : Has(blocks, k, n)
  BY <1>1 DEF Visible, Declaring, Has
<1>3. n \notin hidden /\ n \notin finished
  BY DEF Visible
<1>4. PICK i \in 1..Len(blocks) :
        /\ IsInner(blocks, i, n) /\ Has(blocks, i, n) /\ k <= i
        /\ checker.all[n] # 0 /\ checker.all[n] = ScopeAt(blocks[i], n)
        /\ Info(checker, n) = InfoAt(checker, blocks[i], n)
  BY <1>2, <1>3, InnerIs DEF ScopesAgree, TableAgrees
<1>5. Type(n) = TypeAt(blocks, i, n)
  <2> DEFINE P(j) == j \in Declaring(n) /\ \A l \in Declaring(n) : l <= j
             top == CHOOSE j \in Declaring(n) : \A l \in Declaring(n) : l <= j
  <2>1. i \in Declaring(n) /\ \A l \in Declaring(n) : l <= i
    BY <1>1, <1>4 DEF IsInner, Declaring, Has
  <2>2. \A j \in Declaring(n) : (\A l \in Declaring(n) : l <= j) => j = i
    BY <1>1, <2>1 DEF Declaring
  <2>3. top = i
    BY <2>1, <2>2
  <2> QED BY <2>3 DEF Type, TypeAt
<1>6. n \in Name => /\ Slot(n) = SlotAt(blocks, i, n)
                    /\ Slot(n) \in 1..Len(machine.slots)
                    /\ machine.slots[Slot(n)].type = Type(n)
  <2> SUFFICES ASSUME n \in Name PROVE Slot(n) = SlotAt(blocks, i, n)
                    /\ Slot(n) \in 1..Len(machine.slots)
                    /\ machine.slots[Slot(n)].type = Type(n)
    OBVIOUS
  <2>1. SlotInv(Maps(code, blocks), blocks, machine, i, n) /\ InnerInv(code, blocks, hidden, i, n)
    BY <1>4 DEF MapsAgree, GenInv
  <2>2. Slot(n) = SlotAt(blocks, i, n)
    BY <1>3, <1>4, <2>1 DEF InnerInv, Slot
  <2> QED BY <1>5, <2>1, <2>2 DEF SlotInv
<1> QED BY <1>3, <1>4, <1>5, <1>6

\* A value that is visited, accepted or not.
LEMMA VisitValueTyped ==
  ASSUME NEW c, IsChecker(c), NEW x \in Name \cup {NoName}, x # NoName => c.all[x] # 0,
         NEW e, e = Sema!visitValue(c, x)
  PROVE  /\ IsChecker(e) /\ e.all = c.all
         /\ e.ok => SameTable(c, e) /\ c.ok
         /\ x = NoName => e = c
<1>1. CASE x = NoName
  <2>1. e = c
    BY <1>1 DEF Sema!visitValue
  <2> QED BY <2>1 DEF SameTable
<1>2. CASE x # NoName
  <2>1. x \in Name /\ x \in Names /\ c.all[x] # 0
    BY <1>2 DEF Names
  <2>2. e.ok => SameTable(c, e) /\ c.ok
    <3> SUFFICES ASSUME e.ok PROVE SameTable(c, e) /\ c.ok
      OBVIOUS
    <3>1. c.ok /\ SetAt(c, e, x, [Info(c, x) EXCEPT !.state = "Moved"])
      BY <2>1, VisitValueIs
    <3> QED BY <3>1, SetSameTable
  <2>3. CASE e.ok
    BY <1>2, <2>2, <2>3 DEF SameTable
  <2>4. CASE ~e.ok
    <3> DEFINE u == Sema!checkUse(c, x)
    <3>1. Sema!Reject(c) = [scopes |-> c.scopes, all |-> c.all, ok |-> FALSE]
      BY RejectIs
    <3>2. IsChecker(u) /\ u.all = c.all /\ u.scopes = c.scopes
      <4>1. u \in {c, Sema!Reject(c)}
        BY DEF Sema!checkUse
      <4>2. c.scopes \in Seq(Scopes) /\ c.all \in [Names -> Nat] /\ FALSE \in BOOLEAN
        BY CheckerIs
      <4>3. IsChecker(Sema!Reject(c))
        <5> DEFINE rc == Sema!Reject(c)
        <5>1. \A n \in Names : c.all[n] # 0 => c.all[n] \in 1..Len(c.scopes) /\ n \in DOMAIN c.scopes[c.all[n]]
          BY DEF IsChecker
        <5>2. rc = [scopes |-> c.scopes, all |-> c.all, ok |-> FALSE]
          BY <3>1
        <5> HIDE DEF rc
        <5>3. IsChecker(rc)
          BY <4>2, <5>1, <5>2, CheckerMade
        <5> QED BY <5>3 DEF rc
      <4>4. Sema!Reject(c).all = c.all /\ Sema!Reject(c).scopes = c.scopes
        BY RejectIs
      <4> HIDE DEF u
      <4>5. CASE u = c
        BY <4>5
      <4>6. CASE u = Sema!Reject(c)
        BY <4>3, <4>4, <4>6
      <4> QED BY <4>1, <4>5, <4>6
    <3> DEFINE info == Info(c, x)
    <3>3. /\ Records(x, info) /\ info \in Infos /\ Sema!getInfo(c, x) = info /\ Sema!tracked(c, x)
          /\ Info(u, x) = info /\ u.all[x] # 0 /\ Sema!getInfo(u, x) = Info(u, x) /\ Sema!tracked(u, x)
      <4>1. Records(x, info) /\ info \in Infos /\ Sema!getInfo(c, x) = info /\ Sema!tracked(c, x)
        BY <2>1, InfoIs
      <4>2. Info(u, x) = info /\ u.all[x] # 0
        BY <2>1, <3>2 DEF Info
      <4> HIDE DEF u
      <4>3. Sema!getInfo(u, x) = Info(u, x) /\ Sema!tracked(u, x)
        BY <2>1, <3>2, <4>2, InfoIs
      <4> QED BY <4>1, <4>2, <4>3
    <3>4. Records(x, [info EXCEPT !.state = "Moved"])
      <4>1. info.isDropType
        BY <3>3, <2>1 DEF Records
      <4> HIDE DEF info
      <4> QED BY <3>3 DEF Records, Infos, States
    <3>5. e \in {u, Sema!markMoved(u, x)}
      BY <1>2 DEF Sema!visitValue
    <3>6. Sema!markMoved(u, x) \in {Sema!setInfo(u, x, [info EXCEPT !.state = "Moved"]), Sema!Reject(u)}
      BY <3>3 DEF Sema!markMoved
    <3> HIDE DEF u, info
    <3>7. IsChecker(Sema!setInfo(u, x, [info EXCEPT !.state = "Moved"]))
          /\ Sema!setInfo(u, x, [info EXCEPT !.state = "Moved"]).all = u.all
      <4>1. SetAt(u, Sema!setInfo(u, x, [info EXCEPT !.state = "Moved"]), x, [info EXCEPT !.state = "Moved"])
        BY <2>1, <3>2, <3>3, <3>4, SetInfoSets
      <4> QED BY <4>1 DEF SetAt
    <3>8. IsChecker(Sema!Reject(u)) /\ Sema!Reject(u).all = u.all
      <4> DEFINE rc == Sema!Reject(u)
      <4>1. \A n \in Names : u.all[n] # 0 => u.all[n] \in 1..Len(u.scopes) /\ n \in DOMAIN u.scopes[u.all[n]]
        BY <3>2 DEF IsChecker
      <4>2. rc = [scopes |-> u.scopes, all |-> u.all, ok |-> FALSE] /\ rc.all = u.all
        BY <3>2, RejectIs
      <4>3. u.scopes \in Seq(Scopes) /\ u.all \in [Names -> Nat] /\ FALSE \in BOOLEAN
        BY <3>2, CheckerIs
      <4> HIDE DEF rc
      <4>4. IsChecker(rc)
        BY <4>1, <4>2, <4>3, CheckerMade
      <4> QED BY <4>2, <4>4 DEF rc
    <3> QED BY <1>2, <2>4, <3>2, <3>5, <3>6, <3>7, <3>8
  <2> QED BY <2>3, <2>4
<1> QED BY <1>1, <1>2

-----------------------------------------------------------------------------
(* Control. *)

SameControl(m, m2) == (m2.running <=> m.running) /\ (m2.returned <=> m.returned)

\* The same blocks, but for their names.
SameBlocks(bs, bs2) ==
  /\ bs2 \in Seq(Blocks) /\ Len(bs2) = Len(bs)
  /\ \A i \in 1..Len(bs) : SameBlock(bs[i], bs2[i])

\* A block runs, or does not, as before when control stays where it was.
LEMMA ControlKept ==
  ASSUME NEW m, NEW bs, bs \in Seq(Blocks), PathsInv(m, bs),
         NEW m2, SameControl(m, m2), NEW bs2, SameBlocks(bs, bs2)
  PROVE  /\ PathsInv(m2, bs2)
         /\ \A i \in 1..Len(bs) : Exec(m2, bs2, i) <=> Exec(m, bs, i)
<1>1. Len(bs) \in Nat /\ Len(bs2) = Len(bs)
  BY DEF SameBlocks
<1>2. \A i \in 1..Len(bs) : /\ bs2[i].kind = bs[i].kind
                            /\ (bs2[i].reached <=> bs[i].reached) /\ (bs2[i].taken <=> bs[i].taken)
  BY DEF SameBlocks, SameBlock
<1>3. (m2.running <=> m.running) /\ (m2.returned <=> m.returned)
  BY DEF SameControl
<1>4. PathsInv(m2, bs2)
  BY <1>1, <1>2, <1>3 DEF PathsInv
<1>5. \A i \in 1..Len(bs) : i # Len(bs) => i + 1 \in 1..Len(bs)
  BY <1>1
<1>6. \A i \in 1..Len(bs) : Exec(m2, bs2, i) <=> Exec(m, bs, i)
  BY <1>1, <1>2, <1>3, <1>5 DEF Exec
<1> QED BY <1>4, <1>6

\* Control leaves the function, or was elsewhere.
LEMMA ControlStopped ==
  ASSUME NEW m, NEW bs, bs \in Seq(Blocks), PathsInv(m, bs),
         NEW m2, ~m2.running, m2.returned <=> m.returned \/ m.running,
         NEW bs2, SameBlocks(bs, bs2)
  PROVE  /\ PathsInv(m2, bs2)
         /\ \A i \in 1..Len(bs) : Exec(m2, bs2, i) => Exec(m, bs, i)
<1>1. Len(bs) \in Nat /\ Len(bs2) = Len(bs)
  BY DEF SameBlocks
<1>2. \A i \in 1..Len(bs) : /\ bs2[i].kind = bs[i].kind
                            /\ (bs2[i].reached <=> bs[i].reached) /\ (bs2[i].taken <=> bs[i].taken)
  BY DEF SameBlocks, SameBlock
<1>3. PathsInv(m2, bs2)
  BY <1>1, <1>2 DEF PathsInv
<1>4. \A i \in 1..Len(bs) : i # Len(bs) => i + 1 \in 1..Len(bs)
  BY <1>1
<1>5. \A i \in 1..Len(bs) : Exec(m2, bs2, i) => Exec(m, bs, i)
  BY <1>1, <1>2, <1>4 DEF Exec
<1> QED BY <1>3, <1>5

\* A block begins.
LEMMA ControlPushed ==
  ASSUME NEW m, NEW bs, bs \in Seq(Blocks), PathsInv(m, bs), Len(bs) > 0,
         NEW b, b.reached <=> m.running,
         NEW m2, m2.running <=> m.running /\ b.taken, m2.returned <=> m.returned,
         NEW bs2, Pushed(bs, bs2, b)
  PROVE  /\ PathsInv(m2, bs2)
         /\ \A i \in 1..Len(bs) : Exec(m2, bs2, i) <=> Exec(m, bs, i)
         /\ Exec(m2, bs2, Len(bs) + 1) => Exec(m, bs, Len(bs))
<1> DEFINE L == Len(bs)
           T == Len(bs) + 1
<1>1. /\ Len(bs2) = T /\ L \in Nat /\ L \in 1..L /\ bs2[T] = b
      /\ \A i \in 1..L : bs2[i] = bs[i] /\ i < T /\ i # T
      /\ \A i \in 1..T : i \in 1..L \/ i = T
  BY DEF Pushed
<1>2. T = L + 1
  OBVIOUS
<1> HIDE DEF T, L
<1>3. PathsInv(m2, bs2)
  <2>1. m2.running => ~m2.returned /\ \A i \in 1..T : bs2[i].reached /\ bs2[i].taken
    BY <1>1 DEF PathsInv, L
  <2>2. ASSUME NEW i \in 1..T, NEW j \in 1..T, i < j, bs2[j].reached
        PROVE  bs2[i].reached /\ bs2[i].taken
    <3>1. i \in 1..L
      BY <1>1, <1>2, <2>2
    <3>2. CASE j \in 1..L
      BY <1>1, <2>2, <3>1, <3>2 DEF PathsInv, L
    <3>3. CASE j = T
      BY <1>1, <2>2, <3>1, <3>3 DEF PathsInv, L
    <3> QED BY <1>1, <3>2, <3>3
  <2>3. \A i \in 1..T : bs2[i].kind # "else" /\ bs2[i].reached /\ ~bs2[i].taken => ~m2.returned
    BY <1>1 DEF PathsInv, L
  <2> QED BY <1>1, <2>1, <2>2, <2>3 DEF PathsInv
<1>4. ASSUME NEW i \in 1..L
      PROVE  Exec(m2, bs2, i) <=> Exec(m, bs, i)
  <2>1. CASE i = L
    BY <1>1, <1>2, <2>1 DEF Exec, L
  <2>2. CASE i # L
    <3>1. i + 1 \in 1..L
      BY <1>1, <2>2
    <3> QED BY <1>1, <2>2, <3>1 DEF Exec, L
  <2> QED BY <2>1, <2>2
<1>5. Exec(m2, bs2, T) => Exec(m, bs, L)
  BY <1>1 DEF Exec, L
<1> QED BY <1>3, <1>4, <1>5 DEF L, T

\* A block ends: control is there if it reached the block and did not return.
LEMMA ControlPopped ==
  ASSUME NEW m, NEW bs, bs \in Seq(Blocks), PathsInv(m, bs), Len(bs) > 1,
         NEW m2, m2.running <=> bs[Len(bs)].reached /\ ~m.returned, m2.returned <=> m.returned,
         NEW bs2, Popped(bs, bs2)
  PROVE  /\ PathsInv(m2, bs2)
         /\ \A i \in 1..Len(bs) - 1 : Exec(m2, bs2, i) <=> Exec(m, bs, i)
<1> DEFINE L == Len(bs)
           T == Len(bs) - 1
<1>1. /\ Len(bs2) = T /\ L \in Nat /\ L \in 1..L /\ T \in Nat /\ T \in 1..L
      /\ \A i \in 1..T : bs2[i] = bs[i] /\ i \in 1..L /\ i < L /\ i # L
  BY DEF Popped
<1>2. L = T + 1
  BY <1>1
<1> HIDE DEF T, L
<1>3. PathsInv(m2, bs2)
  <2>1. m2.running => ~m2.returned /\ \A i \in 1..T : bs2[i].reached /\ bs2[i].taken
    BY <1>1 DEF PathsInv, L
  <2>2. \A i, j \in 1..T : i < j /\ bs2[j].reached => bs2[i].reached /\ bs2[i].taken
    BY <1>1 DEF PathsInv, L
  <2>3. \A i \in 1..T : bs2[i].kind # "else" /\ bs2[i].reached /\ ~bs2[i].taken => ~m2.returned
    BY <1>1 DEF PathsInv, L
  <2> QED BY <1>1, <2>1, <2>2, <2>3 DEF PathsInv
<1>4. ASSUME NEW i \in 1..T
      PROVE  Exec(m2, bs2, i) <=> Exec(m, bs, i)
  <2>1. CASE i = T
    BY <1>1, <1>2, <2>1 DEF Exec, L
  <2>2. CASE i # T
    <3>1. i + 1 \in 1..T /\ i # L
      BY <1>1, <2>2
    <3> QED BY <1>1, <2>2, <3>1 DEF Exec, L
  <2> QED BY <2>1, <2>2
<1> QED BY <1>3, <1>4 DEF T

\* The other block of an if: where the first was not taken, nothing has returned.
LEMMA ControlElse ==
  ASSUME NEW m, NEW bs, bs \in Seq(Blocks), PathsInv(m, bs), Len(bs) > 1,
         bs[Len(bs)].kind # "else",
         NEW bs2, bs2 \in Seq(Blocks), Len(bs2) = Len(bs),
         \A i \in 1..Len(bs) - 1 : bs2[i] = bs[i],
         bs2[Len(bs)].kind = "else", bs2[Len(bs)].reached <=> bs[Len(bs)].reached,
         bs2[Len(bs)].taken <=> ~bs[Len(bs)].taken,
         NEW m2, m2.running <=> bs[Len(bs)].reached /\ ~bs[Len(bs)].taken,
         m2.returned <=> m.returned
  PROVE  /\ PathsInv(m2, bs2)
         /\ \A i \in 1..Len(bs) - 1 : Exec(m2, bs2, i) <=> Exec(m, bs, i)
<1> DEFINE L == Len(bs)
           T == Len(bs) - 1
<1>1. /\ Len(bs2) = L /\ L \in Nat /\ L \in 1..L /\ T \in Nat
      /\ \A i \in 1..T : bs2[i] = bs[i] /\ i \in 1..L /\ i < L /\ i # L
      /\ \A i \in 1..L : i \in 1..T \/ i = L
  OBVIOUS
<1>2. L = T + 1
  BY <1>1
<1>3. bs[L].kind # "else" /\ bs2[L].kind = "else" /\ (bs2[L].reached <=> bs[L].reached)
      /\ (bs2[L].taken <=> ~bs[L].taken) /\ (m2.running <=> bs[L].reached /\ ~bs[L].taken)
  OBVIOUS
<1> HIDE DEF T, L
<1>4. PathsInv(m2, bs2)
  <2>1. m2.running => ~m2.returned /\ \A i \in 1..L : bs2[i].reached /\ bs2[i].taken
    BY <1>1, <1>3 DEF PathsInv, L
  <2>2. ASSUME NEW i \in 1..L, NEW j \in 1..L, i < j, bs2[j].reached
        PROVE  bs2[i].reached /\ bs2[i].taken
    <3>1. i \in 1..T
      BY <1>1, <1>2, <2>2
    <3>2. bs[j].reached
      BY <1>1, <1>3, <2>2
    <3> QED BY <1>1, <2>2, <3>1, <3>2 DEF PathsInv, L
  <2>3. \A i \in 1..L : bs2[i].kind # "else" /\ bs2[i].reached /\ ~bs2[i].taken => ~m2.returned
    BY <1>1, <1>3 DEF PathsInv, L
  <2> QED BY <1>1, <2>1, <2>2, <2>3 DEF PathsInv
<1>5. ASSUME NEW i \in 1..T
      PROVE  Exec(m2, bs2, i) <=> Exec(m, bs, i)
  <2>1. i + 1 \in 1..L /\ i # L
    BY <1>1, <1>2
  <2>2. bs2[i + 1].reached <=> bs[i + 1].reached
    BY <1>1, <1>3, <2>1
  <2> QED BY <1>1, <2>1, <2>2 DEF Exec, L
<1> QED BY <1>4, <1>5 DEF T

\* What references point to.
LEMMA RefSlotsKept ==
  ASSUME NEW m, NEW bs, RefSlots(m, bs), NEW m2, NEW bs2,
         \A r \in RefName : m2.refs[r].slot = m.refs[r].slot,
         Len(m.slots) \in Nat, Len(m2.slots) \in Nat,
         Len(m.slots) <= Len(m2.slots),
         \A s \in 1..Len(m.slots) : m2.slots[s].type = m.slots[s].type,
         \A i \in 1..Len(bs2), r \in RefName : Has(bs2, i, r) =>
           /\ i \in 1..Len(bs) /\ Has(bs, i, r) /\ SlotAt(bs2, i, r) = SlotAt(bs, i, r)
           /\ Exec(m2, bs2, i) => Exec(m, bs, i)
  PROVE  RefSlots(m2, bs2)
<1> SUFFICES ASSUME NEW i \in 1..Len(bs2), NEW r \in RefName, Has(bs2, i, r)
             PROVE  /\ SlotAt(bs2, i, r) \in 1..Len(m2.slots)
                    /\ m2.slots[SlotAt(bs2, i, r)].type = "struct"
                    /\ Exec(m2, bs2, i) => m2.refs[r].slot = SlotAt(bs2, i, r)
  BY DEF RefSlots
<1>1. /\ i \in 1..Len(bs) /\ Has(bs, i, r) /\ SlotAt(bs2, i, r) = SlotAt(bs, i, r)
      /\ Exec(m2, bs2, i) => Exec(m, bs, i)
  OBVIOUS
<1>2. /\ SlotAt(bs, i, r) \in 1..Len(m.slots)
      /\ m.slots[SlotAt(bs, i, r)].type = "struct"
      /\ Exec(m, bs, i) => m.refs[r].slot = SlotAt(bs, i, r)
  BY <1>1 DEF RefSlots
<1> QED BY <1>1, <1>2, SMTT(60)

-----------------------------------------------------------------------------
(* Steps of the machine that keep its control and its slots. *)

SameRefSlots(m, m2) == \A r \in RefName : m2.refs[r].slot = m.refs[r].slot

Stays(m, m2) ==
  /\ MachineInv(m2) /\ SameControl(m, m2) /\ SlotsKept(m, m2) /\ SameRefSlots(m, m2)

\* One harmless step of the machine after another is harmless.
LEMMA StaysTrans ==
  ASSUME NEW m, NEW m2, NEW m3, Stays(m, m2), Stays(m2, m3)
  PROVE  Stays(m, m3)
<1>1. MachineInv(m3)
  BY DEF Stays
<1>2. SameControl(m, m3)
  BY DEF Stays, SameControl
<1>3. SlotsKept(m, m3)
  BY DEF Stays, SlotsKept
<1>4. SameRefSlots(m, m3)
  BY DEF Stays, SameRefSlots
<1> QED BY <1>1, <1>2, <1>3, <1>4 DEF Stays

\* The machine's invariant looks at its slots and at what values there are.
LEMMA MachineInvKept ==
  ASSUME NEW m, MachineInv(m), NEW m2 \in Machines, m2.slots = m.slots,
         DOMAIN m2.home = DOMAIN m.home
  PROVE  MachineInv(m2)
  BY DEF MachineInv

\* A read is a harmless step.
LEMMA ReadStays ==
  ASSUME NEW m, MachineInv(m), NEW m2, SameButRead(m, m2)
  PROVE  Stays(m, m2)
<1>1. m2.slots = m.slots /\ m2.home = m.home /\ m2.refs = m.refs /\ m2 \in Machines
      /\ SameControl(m, m2)
  BY DEF SameButRead, SameControl
<1>2. MachineInv(m2)
  BY <1>1, MachineInvKept
<1>3. SlotsKept(m, m2) /\ SameRefSlots(m, m2)
  BY <1>1 DEF SlotsKept, SameRefSlots
<1> QED BY <1>1, <1>2, <1>3 DEF Stays

\* What is read is forgotten at the start of a step.
LEMMA CurrentIs ==
  ASSUME MachineInv(machine)
  PROVE  SameButRead(machine, current) /\ current.read = noRead /\ MachineInv(current)
<1>1. machine \in Machines
  BY DEF MachineInv
<1>2. noRead \in [got : Vals, due : Vals]
  BY DEF noRead, Vals
<1>3. SameButRead(machine, current) /\ current.read = noRead
  BY <1>1, <1>2, ReadIs DEF current
<1>4. MachineInv(current)
  BY <1>3, ReadStays DEF Stays
<1> QED BY <1>3, <1>4

\* A value that may be stored in slot s.
Storable(m, s, v) ==
  /\ v \in (1..Len(m.home) + 1) \cup {Nothing, Garbage}
  /\ m.slots[s].type = "struct" => v # Nothing

\* A store of a value that is new, or of none, is a harmless step.
LEMMA StoreStays ==
  ASSUME NEW m, MachineInv(m), NEW s \in 1..Len(m.slots), NEW v, Storable(m, s, v),
         NEW m2, m2 = store(m, s, v)
  PROVE  Stays(m, m2) /\ m2.refs = m.refs /\ m2.drops = m.drops /\ m2.read = m.read
<1>1. m \in Machines /\ Len(m.home) \in Nat /\ DOMAIN m.home = 1..Len(m.home)
  BY MachineIs DEF MachineInv
<1>2. CASE ~m.running
  BY <1>2, NoStore DEF Stays, SameControl, SlotsKept, SameRefSlots
<1>3. CASE m.running
  <2>1. v \in Vals /\ (v \in Nat => v \in 1..Len(m.home) + 1)
    BY <1>1, ValuesAssumption DEF Storable, Vals
  <2>2. /\ SameButMemory(m, m2)
        /\ Len(m2.slots) = Len(m.slots)
        /\ \A k \in 1..Len(m.slots) :
             /\ m2.slots[k].type = m.slots[k].type
             /\ m2.slots[k].val = IF k = s THEN v ELSE m.slots[k].val
        /\ Len(m2.home) = IF v = Len(m.home) + 1 THEN Len(m.home) + 1 ELSE Len(m.home)
    BY <1>1, <1>3, <2>1, StoreIs, SMTT(60)
  <2>3. m2 \in Machines /\ DOMAIN m2.home = 1..Len(m2.home) /\ SameControl(m, m2)
        /\ m2.refs = m.refs /\ m2.drops = m.drops /\ m2.read = m.read
    BY <2>2, MachineIs DEF SameButMemory, SameControl
  <2>4. MachineInv(m2)
    <3> SUFFICES ASSUME NEW k \in 1..Len(m.slots)
                 PROVE  /\ m2.slots[k].val \in DOMAIN m2.home \cup {Nothing, Garbage}
                        /\ m2.slots[k].type = "struct" => m2.slots[k].val # Nothing
      BY <2>2, <2>3 DEF MachineInv
    <3>1. m.slots[k].val \in DOMAIN m.home \cup {Nothing, Garbage}
          /\ (m.slots[k].type = "struct" => m.slots[k].val # Nothing)
      BY DEF MachineInv
    <3>2. DOMAIN m.home \subseteq DOMAIN m2.home
      BY <1>1, <2>2, <2>3
    <3>3. v \in DOMAIN m2.home \cup {Nothing, Garbage}
      BY <1>1, <2>2, <2>3 DEF Storable
    <3>4. CASE k = s
      BY <2>2, <3>3, <3>4 DEF Storable
    <3>5. CASE k # s
      BY <2>2, <3>1, <3>2, <3>5
    <3> QED BY <3>4, <3>5
  <2>5. SlotsKept(m, m2) /\ SameRefSlots(m, m2)
    BY <2>2, <2>3 DEF SlotsKept, SameRefSlots
  <2> QED BY <2>3, <2>4, <2>5 DEF Stays
<1> QED BY <1>2, <1>3

\* A call of the drop functions is a harmless step.
LEMMA DropStays ==
  ASSUME NEW m, MachineInv(m), NEW S \in SUBSET (1..Len(m.slots)), NEW plain,
         NEW m2, m2 = callDrop(m, S, plain)
  PROVE  Stays(m, m2) /\ m2.refs = m.refs /\ m2.slots = m.slots /\ m2.read = m.read
<1>1. m \in Machines
  BY DEF MachineInv
<1>2. CASE ~m.running
  BY <1>2, NoDrop DEF Stays, SameControl, SlotsKept, SameRefSlots
<1>3. CASE m.running
  <2>1. DropStep(m, m2, S, plain)
    BY <1>1, <1>3, CallDropIs
  <2>2. /\ m2 \in Machines /\ m2.slots = m.slots /\ m2.refs = m.refs /\ m2.read = m.read
        /\ Len(m2.home) = Len(m.home) /\ SameControl(m, m2)
    BY <1>3, <2>1 DEF DropStep, SameControl
  <2>3. DOMAIN m2.home = DOMAIN m.home
    BY <1>1, <2>2, MachineIs
  <2>4. MachineInv(m2)
    BY <2>2, <2>3, MachineInvKept
  <2> QED BY <2>2, <2>4 DEF Stays, SlotsKept, SameRefSlots
<1> QED BY <1>2, <1>3

\* A slot for a variable: m2 is m with one more slot of type t.
Grown(m, m2, t) ==
  /\ MachineInv(m2) /\ SameControl(m, m2) /\ m2.refs = m.refs
  /\ m2.drops = m.drops /\ m2.home = m.home /\ m2.read = m.read
  /\ Len(m2.slots) = Len(m.slots) + 1
  /\ \A s \in 1..Len(m.slots) : m2.slots[s] = m.slots[s]
  /\ m2.slots[Len(m.slots) + 1] = [type |-> t, val |-> Garbage]

\* An alloca adds one slot and is otherwise harmless.
LEMMA AllocaGrows ==
  ASSUME NEW m, MachineInv(m), NEW t \in SlotTypes, NEW m2, m2 = createEntryBlockAlloca(m, t)
  PROVE  Grown(m, m2, t)
<1>1. m \in Machines /\ Len(m.slots) \in Nat
  BY MachineIs DEF MachineInv
<1>2. /\ SameButMemory(m, m2) /\ m2.home = m.home
      /\ Len(m2.slots) = Len(m.slots) + 1
      /\ \A s \in 1..Len(m.slots) : m2.slots[s] = m.slots[s]
      /\ m2.slots[Len(m.slots) + 1] = [type |-> t, val |-> Garbage]
  BY <1>1, AllocaIs
<1>3. MachineInv(m2)
  <2> SUFFICES ASSUME NEW k \in 1..Len(m.slots) + 1
               PROVE  /\ m2.slots[k].val \in DOMAIN m2.home \cup {Nothing, Garbage}
                      /\ m2.slots[k].type = "struct" => m2.slots[k].val # Nothing
    BY <1>2 DEF MachineInv, SameButMemory
  <2>1. CASE k = Len(m.slots) + 1
    BY <1>2, <2>1, ValuesAssumption
  <2>2. CASE k # Len(m.slots) + 1
    <3>1. k \in 1..Len(m.slots)
      BY <1>1, <2>2
    <3> QED BY <1>2, <3>1 DEF MachineInv
  <2> QED BY <2>1, <2>2
<1> QED BY <1>2, <1>3 DEF Grown, SameButMemory, SameControl

\* A load is a step of that kind.
LEMMA LoadStays ==
  ASSUME NEW m, MachineInv(m), NEW s \in 1..Len(m.slots)
  PROVE  SameButRead(m, load(m, s)) /\ Stays(m, load(m, s)) /\ MachineInv(load(m, s))
<1>1. m \in Machines
  BY DEF MachineInv
<1>2. SameButRead(m, load(m, s))
  BY <1>1, LoadIs
<1> QED BY <1>2, ReadStays DEF Stays

-----------------------------------------------------------------------------
(* The end of a statement. *)

\* The checker when the borrow of r has been given back.
Given(c, r) == IF r = NoName THEN c ELSE Sema!giveBack(c, r)

\* A statement's borrow given back leaves the table the same.
LEMMA GivenTable ==
  ASSUME NEW c, IsChecker(c), c.ok, NEW r \in RefName \cup {NoName},
         r # NoName => c.all[r] # 0 /\ Info(c, r).borrowsName # NoName
  PROVE  SameTable(c, Given(c, r))
<1>1. CASE r = NoName
  BY <1>1 DEF Given, SameTable
<1>2. CASE r # NoName
  <2> DEFINE d == Sema!giveBack(c, r)
             y == Info(c, r).borrowsName
  <2>1. Given(c, r) = d /\ r \in RefName /\ c.all[r] # 0 /\ y # NoName
    BY <1>2 DEF Given
  <2> HIDE DEF d
  <2>2. /\ IsChecker(d) /\ d.ok /\ d.all = c.all /\ Len(d.scopes) = Len(c.scopes)
        /\ y \in Name
        /\ \A k \in 1..Len(c.scopes) :
             /\ DOMAIN d.scopes[k] = DOMAIN c.scopes[k]
             /\ \A x \in DOMAIN c.scopes[k] :
                  d.scopes[k][x] =
                    IF k = c.all[r] /\ x = r
                    THEN [Info(c, r) EXCEPT !.borrowsName = NoName]
                    ELSE IF k = c.all[y] /\ x = y
                         THEN Less(Info(c, y), Info(c, r).borrowsMutable)
                         ELSE c.scopes[k][x]
    BY <2>1, GiveBackIs DEF d
  <2>3. SameTable(c, d)
    BY <2>2 DEF SameTable
  <2> QED BY <2>1, <2>3
<1> QED BY <1>1, <1>2

\* What the end of a statement changes: the borrow it gave for its duration is given back.
LEMMA EndIs ==
  ASSUME NEW c, IsChecker(c), NEW r \in RefName \cup {NoName}, EndStatement(c, r)
  PROVE  /\ c.ok /\ checker' = Given(c, r)
         /\ r # NoName => /\ r \in RefName /\ c.all[r] # 0 /\ Info(c, r).borrowsName # NoName
                          /\ r \in DOMAIN c.scopes[Len(c.scopes)]
         /\ SameTable(c, checker')
<1>1. c.ok /\ checker' = Given(c, r)
  BY DEF EndStatement, Given
<1>2. ASSUME r # NoName
      PROVE  /\ r \in RefName /\ c.all[r] # 0 /\ Info(c, r).borrowsName # NoName
             /\ r \in DOMAIN c.scopes[Len(c.scopes)]
  BY <1>2 DEF EndStatement, Sema!tracked, Sema!getInfo, Info
<1>3. SameTable(c, Given(c, r))
  BY <1>1, <1>2, GivenTable
<1> QED BY <1>1, <1>2, <1>3

-----------------------------------------------------------------------------
(* The tables, the maps and the slots agree: statements one by one. *)

\* Blocks are the same as themselves.
LEMMA SameBlockSelf ==
  ASSUME NEW bs, bs \in Seq(Blocks)
  PROVE  SameBlocks(bs, bs)
  BY DEF SameBlocks, SameBlock

\* A statement that declares nothing.
LEMMA BaseStays ==
  ASSUME NEW c, NEW g, NEW m, NEW bs, NEW hid, Base(c, g, m, bs, hid),
         NEW c2, SameTable(c, c2), NEW g2 \in Generators, Map(g2) = Map(g),
         NEW m2, Stays(m, m2)
  PROVE  Base(c2, g2, m2, bs, hid)
<1>1. ShapeInv(c2, bs) /\ TracksInv(c2, bs, hid)
  BY ShapeKept DEF Base
<1>2. bs \in Seq(Blocks) /\ Len(m.slots) \in Nat /\ Len(m2.slots) = Len(m.slots)
  BY MachineIs DEF Base, ShapeInv, MachineInv, Stays, SlotsKept
<1>3. GenInv(g2, bs, m2, hid)
  <2>1. SlotsKept(m, m2) /\ GenInv(g, bs, m, hid)
    BY DEF Stays, Base
  <2>2. \A i \in 1..Len(bs) : SameBlock(bs[i], bs[i])
    BY DEF SameBlock
  <2> QED BY <2>1, <2>2, GenKept
<1>4. /\ PathsInv(m2, bs)
      /\ \A i \in 1..Len(bs) : Exec(m2, bs, i) <=> Exec(m, bs, i)
  BY <1>2, SameBlockSelf, ControlKept DEF Base, Stays
<1>5. RefSlots(m2, bs)
  <2>1. /\ \A s \in 1..Len(m.slots) : m2.slots[s].type = m.slots[s].type
        /\ \A r \in RefName : m2.refs[r].slot = m.refs[r].slot
        /\ RefSlots(m, bs)
    BY DEF Base, Stays, SlotsKept, SameRefSlots
  <2> QED BY <1>2, <1>4, <2>1, RefSlotsKept
<1> QED BY <1>1, <1>3, <1>4, <1>5 DEF Base, Stays

\* A return.
LEMMA BaseLeft ==
  ASSUME NEW c, NEW g, NEW m, NEW bs, NEW hid, Base(c, g, m, bs, hid),
         NEW c2, SameTable(c, c2), NEW g2 \in Generators, Map(g2) = Map(g),
         NEW m2, MachineInv(m2), SlotsKept(m, m2), SameRefSlots(m, m2),
         ~m2.running, m2.returned <=> m.returned \/ m.running,
         NEW bs2, Left(bs, bs2)
  PROVE  Base(c2, g2, m2, bs2, hid)
<1>1. ShapeInv(c2, bs2) /\ TracksInv(c2, bs2, hid)
  BY ShapeKept, ShapeLeft DEF Base
<1>2. bs \in Seq(Blocks) /\ Len(m.slots) \in Nat /\ Len(m2.slots) = Len(m.slots)
  BY MachineIs DEF Base, ShapeInv, MachineInv, SlotsKept
<1>3. /\ bs2 \in Seq(Blocks) /\ Len(bs2) = Len(bs)
      /\ \A i \in 1..Len(bs) : SameBlock(bs[i], bs2[i]) /\ bs2[i].names = bs[i].names
  BY DEF Left
<1>4. GenInv(g2, bs2, m2, hid)
  <2>1. GenInv(g, bs, m, hid)
    BY DEF Base
  <2>2. \A i \in 1..Len(bs), n \in Name : Has(bs2, i, n) <=> Has(bs, i, n)
    BY <1>3 DEF Has
  <2> QED BY <1>3, <2>1, <2>2, GenKept
<1>5. /\ PathsInv(m2, bs2)
      /\ \A i \in 1..Len(bs) : Exec(m2, bs2, i) => Exec(m, bs, i)
  <2>1. SameBlocks(bs, bs2) /\ PathsInv(m, bs)
    BY <1>3 DEF SameBlocks, Base
  <2> QED BY <1>2, <2>1, ControlStopped
<1>6. RefSlots(m2, bs2)
  <2>1. /\ \A s \in 1..Len(m.slots) : m2.slots[s].type = m.slots[s].type
        /\ \A r \in RefName : m2.refs[r].slot = m.refs[r].slot
        /\ RefSlots(m, bs)
    BY DEF Base, SlotsKept, SameRefSlots
  <2>2. \A i \in 1..Len(bs2), r \in RefName : Has(bs2, i, r) =>
           /\ i \in 1..Len(bs) /\ Has(bs, i, r) /\ SlotAt(bs2, i, r) = SlotAt(bs, i, r)
           /\ Exec(m2, bs2, i) => Exec(m, bs, i)
    BY <1>3, <1>5 DEF Has, SlotAt
  <2> QED BY <1>2, <2>1, <2>2, RefSlotsKept
<1> QED BY <1>1, <1>4, <1>5, <1>6 DEF Base

\* m2 has one more slot than m, of type t.
SlotAdded(m, m2, t) ==
  /\ Len(m2.slots) = Len(m.slots) + 1
  /\ \A s \in 1..Len(m.slots) : m2.slots[s].type = m.slots[s].type
  /\ m2.slots[Len(m.slots) + 1].type = t

\* The declaration of a variable.
LEMMA BaseDeclared ==
  ASSUME NEW c, NEW g, NEW m, NEW bs, NEW hid, Base(c, g, m, bs, hid), Len(bs) > 0,
         NEW n \in Name, ~Has(bs, Len(bs), n), NEW t \in SlotTypes,
         NEW e, SameTable(c, e), NEW info, Records(n, info),
         NEW d, d = Sema!trackVariable(e, n, info), NEW c2, SameTable(d, c2),
         NEW g2, NewMap(g, g2, n, Len(m.slots) + 1),
         NEW m2, MachineInv(m2), SameControl(m, m2), SameRefSlots(m, m2), SlotAdded(m, m2, t),
         NEW bs2, Declared(bs, bs2, n, Entry(t, Len(m.slots) + 1))
  PROVE  Base(c2, g2, m2, bs2, hid \ {n})
<1>1. ShapeInv(c2, bs2) /\ TracksInv(c2, bs2, hid \ {n})
  <2>1. ShapeInv(e, bs) /\ TracksInv(e, bs, hid)
    BY ShapeKept DEF Base
  <2>2. n \in Names /\ n \notin RefName
    BY NamesAssumption DEF Names
  <2>3. ShapeInv(d, bs2) /\ TracksInv(d, bs2, hid \ {n})
    BY <2>1, <2>2, ShapeDeclared
  <2> QED BY <2>3, ShapeKept
<1>2. /\ bs \in Seq(Blocks) /\ Len(m.slots) \in Nat /\ Len(m2.slots) = Len(m.slots) + 1
      /\ m \in Machines /\ Len(bs) \in 1..Len(bs)
  BY MachineIs DEF Base, ShapeInv, MachineInv, SlotAdded
<1>3. /\ bs2 \in Seq(Blocks) /\ Len(bs2) = Len(bs)
      /\ \A i \in 1..Len(bs) : SameBlock(bs[i], bs2[i])
      /\ \A i \in 1..Len(bs), k \in Names : Has(bs2, i, k) <=> Has(bs, i, k) \/ (i = Len(bs) /\ k = n)
      /\ \A i \in 1..Len(bs), k \in Names : Has(bs, i, k) => bs2[i].names[k] = bs[i].names[k]
      /\ SlotAt(bs2, Len(bs2), n) = Len(m.slots) + 1 /\ TypeAt(bs2, Len(bs2), n) = t
  BY SMTT(60) DEF Declared, SlotAt, TypeAt, Entry
<1>4. GenInv(g2, bs2, m2, hid \ {n})
  <2>1. Introduced(bs, bs2, n)
    BY <1>2, <1>3 DEF Introduced, Names
  <2>2. n # bs2[Len(bs2)].binding
    <3>1. bs[Len(bs)] \in Blocks
      BY <1>2
    <3>2. bs[Len(bs)].kind = "iflet" => bs[Len(bs)].binding \in DOMAIN bs[Len(bs)].names
      BY <3>1, BlockIs
    <3>3. bs[Len(bs)].kind # "iflet" => bs[Len(bs)].binding = NoName
      BY <3>1, BlockIs
    <3>4. bs2[Len(bs2)].binding = bs[Len(bs)].binding
      BY <1>2, <1>3 DEF SameBlock
    <3> QED BY <3>2, <3>3, <3>4, NamesAssumption DEF Has
  <2>3. GenInv(g, bs, m, hid)
    BY DEF Base
  <2>4. /\ \A s \in 1..Len(m.slots) : m2.slots[s].type = m.slots[s].type
        /\ m2.slots[Len(m.slots) + 1].type = TypeAt(bs2, Len(bs2), n)
    BY <1>3 DEF SlotAdded
  <2>5. Len(bs2) = Len(bs) => ~Has(bs, Len(bs), n)
    OBVIOUS
  <2>6. ~(Len(bs2) > Len(bs))
    BY <1>2, <1>3
  <2> QED BY <1>2, <1>3, <2>1, <2>2, <2>3, <2>4, <2>5, <2>6, GenFresh, SMTT(60)
<1>5. /\ PathsInv(m2, bs2)
      /\ \A i \in 1..Len(bs) : Exec(m2, bs2, i) <=> Exec(m, bs, i)
  <2>1. SameBlocks(bs, bs2) /\ PathsInv(m, bs)
    BY <1>3 DEF SameBlocks, Base
  <2> QED BY <1>2, <2>1, ControlKept
<1>6. RefSlots(m2, bs2)
  <2>1. /\ \A s \in 1..Len(m.slots) : m2.slots[s].type = m.slots[s].type
        /\ \A r \in RefName : m2.refs[r].slot = m.refs[r].slot
        /\ RefSlots(m, bs)
    BY DEF Base, SlotAdded, SameRefSlots
  <2>2. \A i \in 1..Len(bs2), r \in RefName : Has(bs2, i, r) =>
           /\ i \in 1..Len(bs) /\ Has(bs, i, r) /\ SlotAt(bs2, i, r) = SlotAt(bs, i, r)
           /\ Exec(m2, bs2, i) => Exec(m, bs, i)
    <3> SUFFICES ASSUME NEW i \in 1..Len(bs2), NEW r \in RefName, Has(bs2, i, r)
                 PROVE  /\ i \in 1..Len(bs) /\ Has(bs, i, r) /\ SlotAt(bs2, i, r) = SlotAt(bs, i, r)
                        /\ Exec(m2, bs2, i) => Exec(m, bs, i)
      OBVIOUS
    <3>1. i \in 1..Len(bs) /\ r # n /\ r \in Names
      BY <1>3, NamesAssumption DEF Names
    <3>2. Has(bs, i, r)
      BY <1>3, <3>1
    <3> QED BY <1>3, <1>5, <3>1, <3>2 DEF SlotAt
  <2>3. Len(m2.slots) \in Nat /\ Len(m.slots) <= Len(m2.slots)
    BY <1>2
  <2> QED BY <1>2, <2>1, <2>2, <2>3, RefSlotsKept
<1> QED BY <1>1, <1>4, <1>5, <1>6 DEF Base

\* The declaration of a reference to a variable in slot s.
LEMMA BaseRef ==
  ASSUME NEW c, NEW g, NEW m, NEW bs, NEW hid, Base(c, g, m, bs, hid), Len(bs) > 0,
         NEW r \in RefName, \A i \in 1..Len(bs) : ~Has(bs, i, r),
         NEW s \in 1..Len(m.slots), m.slots[s].type = "struct",
         NEW e, SameTable(c, e), NEW info, Records(r, info),
         NEW d, d = Sema!trackVariable(e, r, info), NEW c2, SameTable(d, c2),
         NEW m2, MachineInv(m2), SameControl(m, m2), SlotsKept(m, m2),
         \A q \in RefName : q # r => m2.refs[q].slot = m.refs[q].slot,
         m.running => m2.refs[r].slot = s,
         NEW t \in {"ref", "refmut"}, NEW bs2, Declared(bs, bs2, r, Entry(t, s))
  PROVE  Base(c2, g, m2, bs2, hid)
<1>1. ShapeInv(c2, bs2) /\ TracksInv(c2, bs2, hid)
  <2>1. ShapeInv(e, bs) /\ TracksInv(e, bs, hid)
    BY ShapeKept DEF Base
  <2>2. r \in Names /\ ~Has(bs, Len(bs), r)
    <3>1. Len(bs) \in 1..Len(bs)
      BY DEF Base, ShapeInv
    <3> QED BY <3>1 DEF Names
  <2>3. ShapeInv(d, bs2) /\ TracksInv(d, bs2, hid \ {r})
    BY <2>1, <2>2, ShapeDeclared
  <2>4. hid \ {r} = hid
    BY <2>1, NamesAssumption DEF TracksInv
  <2> QED BY <2>3, <2>4, ShapeKept
<1>2. /\ bs \in Seq(Blocks) /\ Len(m.slots) \in Nat /\ Len(m2.slots) = Len(m.slots)
      /\ m \in Machines /\ Len(bs) \in 1..Len(bs)
  BY MachineIs DEF Base, ShapeInv, MachineInv, SlotsKept
<1>3. /\ bs2 \in Seq(Blocks) /\ Len(bs2) = Len(bs)
      /\ \A i \in 1..Len(bs) : SameBlock(bs[i], bs2[i])
      /\ \A i \in 1..Len(bs), k \in Names : Has(bs2, i, k) <=> Has(bs, i, k) \/ (i = Len(bs) /\ k = r)
      /\ \A i \in 1..Len(bs), k \in Names : Has(bs, i, k) => bs2[i].names[k] = bs[i].names[k]
      /\ SlotAt(bs2, Len(bs2), r) = s
  BY SMTT(60) DEF Declared, SlotAt, Entry
<1>4. GenInv(g, bs2, m2, hid)
  <2>1. GenInv(g, bs, m, hid) /\ g \in Generators
    BY DEF Base, GenInv
  <2>2. \A k \in Name : k \in Names /\ k # r
    BY NamesAssumption DEF Names
  <2>3. \A i \in 1..Len(bs), k \in Name : Has(bs2, i, k) <=> Has(bs, i, k)
    BY <1>3, <2>2
  <2>4. \A i \in 1..Len(bs), k \in Name : Has(bs, i, k) => bs2[i].names[k] = bs[i].names[k]
    BY <1>3, <2>2
  <2> QED BY <1>3, <2>1, <2>3, <2>4, GenKept
<1>5. /\ PathsInv(m2, bs2)
      /\ \A i \in 1..Len(bs) : Exec(m2, bs2, i) <=> Exec(m, bs, i)
  <2>1. SameBlocks(bs, bs2) /\ PathsInv(m, bs)
    BY <1>3 DEF SameBlocks, Base
  <2> QED BY <1>2, <2>1, ControlKept
<1>6. RefSlots(m2, bs2)
  <2> SUFFICES ASSUME NEW i \in 1..Len(bs), NEW q \in RefName, Has(bs2, i, q)
               PROVE  /\ SlotAt(bs2, i, q) \in 1..Len(m2.slots)
                      /\ m2.slots[SlotAt(bs2, i, q)].type = "struct"
                      /\ Exec(m2, bs2, i) => m2.refs[q].slot = SlotAt(bs2, i, q)
    BY <1>3 DEF RefSlots
  <2>1. q \in Names /\ \A k \in 1..Len(m.slots) : m2.slots[k].type = m.slots[k].type
    BY DEF Names, SlotsKept
  <2>2. CASE q = r
    <3>1. i = Len(bs) /\ SlotAt(bs2, i, q) = s
      BY <1>3, <2>1, <2>2
    <3>2. Exec(m2, bs2, i) => m.running
      BY <1>3, <3>1 DEF Exec, SameControl
    <3> QED BY <1>2, <2>1, <2>2, <3>1, <3>2
  <2>3. CASE q # r
    <3>1. Has(bs, i, q) /\ SlotAt(bs2, i, q) = SlotAt(bs, i, q)
      BY <1>3, <2>1, <2>3 DEF SlotAt
    <3>2. /\ SlotAt(bs, i, q) \in 1..Len(m.slots)
          /\ m.slots[SlotAt(bs, i, q)].type = "struct"
          /\ Exec(m, bs, i) => m.refs[q].slot = SlotAt(bs, i, q)
      BY <3>1 DEF Base, RefSlots
    <3> QED BY <1>2, <1>5, <2>1, <2>3, <3>1, <3>2
  <2> QED BY <2>2, <2>3
<1> QED BY <1>1, <1>4, <1>5, <1>6 DEF Base

\* Nothing but the body is the first block.
LEMMA BodyIs ==
  ASSUME NEW c, NEW bs, ShapeInv(c, bs), Len(bs) > 0
  PROVE  /\ bs[1].kind = "body" /\ (Len(bs) > 1 => bs[Len(bs)].kind # "body")
         /\ Len(bs) \in 1..Len(bs) /\ bs[Len(bs)].scope = Len(c.scopes)
         /\ bs[Len(bs)] \in Blocks
<1>1. 1 \in 1..Len(bs) /\ Len(bs) \in 1..Len(bs)
  BY DEF ShapeInv
<1> QED BY <1>1 DEF ShapeInv

\* The block of an if.
LEMMA BasePushed ==
  ASSUME NEW c, NEW g, NEW m, NEW bs, NEW hid, Base(c, g, m, bs, hid), Len(bs) > 0,
         NEW b, b.kind \notin {"body", "iflet"}, DOMAIN b.names = {}, b.scope = Len(c.scopes) + 1,
         b.reached <=> m.running,
         NEW bs2, Pushed(bs, bs2, b), NEW d, d = Sema!pushOwnershipScope(c),
         NEW m2, MachineInv(m2), m2.running <=> m.running /\ b.taken, m2.returned <=> m.returned,
         SlotsKept(m, m2), SameRefSlots(m, m2)
  PROVE  Base(d, g, m2, bs2, hid)
<1>1. bs \in Seq(Blocks) /\ Len(m.slots) \in Nat /\ Len(m2.slots) = Len(m.slots) /\ m \in Machines
      /\ IsChecker(c) /\ c.ok
  BY MachineIs DEF Base, ShapeInv, MachineInv, SlotsKept
<1>2. ShapeInv(d, bs2) /\ TracksInv(d, bs2, hid)
  <2>1. Entered(c, d, b)
    BY <1>1, PushEnters
  <2>2. ShapeInv(d, bs2) /\ TracksInv(d, bs2, hid \ DOMAIN b.names)
    BY <2>1, ShapePushed DEF Base
  <2> QED BY <2>2
<1>3. GenInv(g, bs2, m2, hid)
  <2>1. bs[1].kind = "body" /\ GenInv(g, bs, m, hid)
    BY BodyIs DEF Base
  <2> QED BY <1>1, <2>1, GenPushed
<1>4. /\ PathsInv(m2, bs2)
      /\ \A i \in 1..Len(bs) : Exec(m2, bs2, i) <=> Exec(m, bs, i)
  BY <1>1, ControlPushed DEF Base
<1>5. RefSlots(m2, bs2)
  <2>1. /\ \A s \in 1..Len(m.slots) : m2.slots[s].type = m.slots[s].type
        /\ \A r \in RefName : m2.refs[r].slot = m.refs[r].slot
        /\ RefSlots(m, bs)
    BY DEF Base, SlotsKept, SameRefSlots
  <2>2. \A i \in 1..Len(bs2), r \in RefName : Has(bs2, i, r) =>
           /\ i \in 1..Len(bs) /\ Has(bs, i, r) /\ SlotAt(bs2, i, r) = SlotAt(bs, i, r)
           /\ Exec(m2, bs2, i) => Exec(m, bs, i)
    <3> SUFFICES ASSUME NEW i \in 1..Len(bs2), NEW r \in RefName, Has(bs2, i, r)
                 PROVE  /\ i \in 1..Len(bs) /\ bs2[i] = bs[i]
                        /\ Exec(m2, bs2, i) => Exec(m, bs, i)
      BY DEF Has, SlotAt
    <3>1. i # Len(bs) + 1
      BY DEF Pushed, Has
    <3>2. i \in 1..Len(bs)
      BY <1>1, <3>1 DEF Pushed
    <3> QED BY <1>4, <3>2 DEF Pushed
  <2> QED BY <1>1, <2>1, <2>2, RefSlotsKept
<1> QED BY <1>2, <1>3, <1>4, <1>5 DEF Base

\* The block of an if let, with its binding v.
LEMMA BaseIfLet ==
  ASSUME NEW c, NEW g, NEW m, NEW bs, NEW hid, Base(c, g, m, bs, hid), Len(bs) > 0,
         NEW b, b.kind = "iflet", NEW v \in Name, b.binding = v,
         DOMAIN b.names = {v}, b.names[v] = Entry("struct", Len(m.slots) + 1),
         b.reached <=> m.running, Map(b.saved) = Map(g),
         NEW bs2, Pushed(bs, bs2, b), NEW d, Entered(c, d, b),
         NEW g2, NewMap(g, g2, v, Len(m.slots) + 1), v \in g2.varStructTypes,
         NEW m2, MachineInv(m2), m2.running <=> m.running /\ b.taken, m2.returned <=> m.returned,
         SameRefSlots(m, m2), SlotAdded(m, m2, "struct")
  PROVE  Base(d, g2, m2, bs2, hid \ {v})
<1>1. bs \in Seq(Blocks) /\ Len(m.slots) \in Nat /\ Len(m2.slots) = Len(m.slots) + 1 /\ m \in Machines
  BY MachineIs DEF Base, ShapeInv, MachineInv, SlotAdded
<1>2. DOMAIN b.names = {v} /\ b.names[v] = Entry("struct", Len(m.slots) + 1)
  OBVIOUS
<1>3. ShapeInv(d, bs2) /\ TracksInv(d, bs2, hid \ {v})
  <2>1. ShapeInv(d, bs2) /\ TracksInv(d, bs2, hid \ DOMAIN b.names)
    BY <1>2, ShapePushed DEF Base
  <2> QED BY <1>2, <2>1
<1> DEFINE L == Len(bs)
           T == Len(bs) + 1
<1>4. /\ Len(bs2) = T /\ L \in Nat /\ bs2[T] = b
      /\ \A i \in 1..L : bs2[i] = bs[i] /\ i <= L /\ i # T
      /\ \A i \in 1..T : i \in 1..L \/ (i = T /\ ~(i <= L))
      /\ T > 0 /\ T > L /\ T # L
  BY DEF Pushed
<1> HIDE DEF L, T
<1>5. GenInv(g2, bs2, m2, hid \ {v})
  <2>1. Introduced(bs, bs2, v)
    <3>1. \A i \in 1..L : SameBlock(bs[i], bs2[i])
      BY <1>4 DEF SameBlock
    <3>2. \A i \in 1..T, k \in Name :
            Has(bs2, i, k) <=> (i <= L /\ Has(bs, i, k)) \/ (i = T /\ k = v)
      BY <1>2, <1>4 DEF Has
    <3>3. \A i \in 1..L, k \in Name : Has(bs, i, k) => bs2[i].names[k] = bs[i].names[k]
      BY <1>4
    <3> QED BY <1>4, <3>1, <3>2, <3>3 DEF Introduced, L, T
  <2>2. GenInv(g, bs, m, hid)
    BY DEF Base
  <2>3. Len(bs2) = Len(bs) => ~Has(bs, Len(bs), v)
    BY <1>4 DEF L
  <2>4. /\ SlotAt(bs2, Len(bs2), v) = Len(m.slots) + 1 /\ TypeAt(bs2, Len(bs2), v) = "struct"
        /\ Map(bs2[Len(bs2)].saved) = Map(g)
    BY <1>2, <1>4 DEF SlotAt, TypeAt, Entry
  <2>5. /\ \A s \in 1..Len(m.slots) : m2.slots[s].type = m.slots[s].type
        /\ m2.slots[Len(m.slots) + 1].type = TypeAt(bs2, Len(bs2), v)
    BY <2>4 DEF SlotAdded
  <2> QED BY <1>1, <2>1, <2>2, <2>3, <2>4, <2>5, GenFresh
<1>6. /\ PathsInv(m2, bs2)
      /\ \A i \in 1..Len(bs) : Exec(m2, bs2, i) <=> Exec(m, bs, i)
  BY <1>1, ControlPushed DEF Base
<1>7. RefSlots(m2, bs2)
  <2>1. /\ \A s \in 1..Len(m.slots) : m2.slots[s].type = m.slots[s].type
        /\ \A r \in RefName : m2.refs[r].slot = m.refs[r].slot
        /\ RefSlots(m, bs)
    BY DEF Base, SlotAdded, SameRefSlots
  <2>2. \A i \in 1..Len(bs2), r \in RefName : Has(bs2, i, r) =>
           /\ i \in 1..Len(bs) /\ Has(bs, i, r) /\ SlotAt(bs2, i, r) = SlotAt(bs, i, r)
           /\ Exec(m2, bs2, i) => Exec(m, bs, i)
    <3> SUFFICES ASSUME NEW i \in 1..Len(bs2), NEW r \in RefName, Has(bs2, i, r)
                 PROVE  /\ i \in 1..Len(bs) /\ bs2[i] = bs[i]
                        /\ Exec(m2, bs2, i) => Exec(m, bs, i)
      BY DEF Has, SlotAt
    <3>1. i # T
      BY <1>2, <1>4, NamesAssumption DEF Has
    <3>2. i \in 1..Len(bs)
      BY <1>4, <3>1 DEF L
    <3> QED BY <1>4, <1>6, <3>2 DEF L
  <2>3. Len(m2.slots) \in Nat /\ Len(m.slots) <= Len(m2.slots)
    BY <1>1
  <2> QED BY <1>1, <2>1, <2>2, <2>3, RefSlotsKept
<1> QED BY <1>3, <1>5, <1>6, <1>7 DEF Base

\* The end of an if.
LEMMA BasePopped ==
  ASSUME NEW c, NEW g, NEW m, NEW bs, NEW hid, Base(c, g, m, bs, hid), Len(bs) > 1,
         NEW bs2, Popped(bs, bs2), NEW d, Exited(c, d, bs), NEW d2, SameTable(d, d2),
         NEW g2 \in Generators,
         Map(g2) = IF bs[Len(bs)].kind = "iflet" THEN Map(bs[Len(bs)].saved) ELSE Map(g),
         NEW m2, MachineInv(m2), SlotsKept(m, m2), SameRefSlots(m, m2),
         m2.running <=> bs[Len(bs)].reached /\ ~m.returned, m2.returned <=> m.returned
  PROVE  Base(d2, g2, m2, bs2, hid \cup ShadowedBy(bs))
<1>1. bs \in Seq(Blocks) /\ Len(m.slots) \in Nat /\ Len(m2.slots) = Len(m.slots) /\ m \in Machines
  BY MachineIs DEF Base, ShapeInv, MachineInv, SlotsKept
<1>2. ShapeInv(d2, bs2) /\ TracksInv(d2, bs2, hid \cup ShadowedBy(bs))
  <2>1. ShapeInv(d, bs2) /\ TracksInv(d, bs2, hid \cup ShadowedBy(bs))
    BY ShapePopped DEF Base
  <2> QED BY <2>1, ShapeKept
<1>3. GenInv(g2, bs2, m2, hid \cup ShadowedBy(bs))
  <2>1. GenInv(g, bs, m, hid) /\ Len(bs) > 0
    BY <1>1 DEF Base
  <2> QED BY <1>1, <2>1, GenPopped
<1>4. /\ PathsInv(m2, bs2)
      /\ \A i \in 1..Len(bs) - 1 : Exec(m2, bs2, i) <=> Exec(m, bs, i)
  BY <1>1, ControlPopped DEF Base
<1>5. RefSlots(m2, bs2)
  <2>1. /\ \A s \in 1..Len(m.slots) : m2.slots[s].type = m.slots[s].type
        /\ \A r \in RefName : m2.refs[r].slot = m.refs[r].slot
        /\ RefSlots(m, bs)
    BY DEF Base, SlotsKept, SameRefSlots
  <2>2. \A i \in 1..Len(bs2), r \in RefName : Has(bs2, i, r) =>
           /\ i \in 1..Len(bs) /\ Has(bs, i, r) /\ SlotAt(bs2, i, r) = SlotAt(bs, i, r)
           /\ Exec(m2, bs2, i) => Exec(m, bs, i)
    BY <1>1, <1>4, SMTT(60) DEF Popped, Has, SlotAt
  <2> QED BY <1>1, <2>1, <2>2, RefSlotsKept
<1> QED BY <1>2, <1>3, <1>4, <1>5 DEF Base

\* bs2 is bs with b in place of its innermost block.
Replaced(bs, bs2, b) ==
  /\ bs2 \in Seq(Blocks) /\ Len(bs2) = Len(bs)
  /\ \A i \in 1..Len(bs) : bs2[i] = IF i = Len(bs) THEN b ELSE bs[i]

\* A new innermost block, and the others as they were.
LEMMA ReplacedIs ==
  ASSUME NEW bs \in Seq(Blocks), Len(bs) > 0, NEW b \in Blocks,
         NEW bs2, bs2 = [bs EXCEPT ![Len(bs)] = b]
  PROVE  Replaced(bs, bs2, b)
<1>1. Len(bs) \in 1..Len(bs)
  OBVIOUS
<1> QED BY <1>1 DEF Replaced

\* The other block of an if.
LEMMA BaseElse ==
  ASSUME NEW c, NEW g, NEW m, NEW bs, NEW hid, Base(c, g, m, bs, hid), Len(bs) > 1,
         bs[Len(bs)].kind # "else",
         NEW d, Exited(c, d, bs), NEW d2, d2 = Sema!pushOwnershipScope(d),
         NEW b \in Blocks, b.kind = "else", DOMAIN b.names = {}, b.scope = Len(d2.scopes),
         b.reached <=> bs[Len(bs)].reached, b.taken <=> ~bs[Len(bs)].taken,
         NEW bs2, Replaced(bs, bs2, b),
         NEW g2 \in Generators,
         Map(g2) = IF bs[Len(bs)].kind = "iflet" THEN Map(bs[Len(bs)].saved) ELSE Map(g),
         NEW m2, MachineInv(m2), SlotsKept(m, m2), SameRefSlots(m, m2),
         m2.running <=> bs[Len(bs)].reached /\ ~bs[Len(bs)].taken, m2.returned <=> m.returned
  PROVE  Base(d2, g2, m2, bs2, hid \cup ShadowedBy(bs))
<1> DEFINE mid == SubSeq(bs, 1, Len(bs) - 1)
<1>1. bs \in Seq(Blocks) /\ Len(m.slots) \in Nat /\ Len(m2.slots) = Len(m.slots) /\ m \in Machines
      /\ Len(bs) > 0 /\ Len(bs) \in Nat /\ Len(bs) \in 1..Len(bs)
  BY MachineIs DEF Base, ShapeInv, MachineInv, SlotsKept
<1>2. Popped(bs, mid)
  BY <1>1, PoppedIs
<1>3. bs2 \in Seq(Blocks) /\ Len(bs2) = Len(bs)
      /\ \A i \in 1..Len(bs) : bs2[i] = IF i = Len(bs) THEN b ELSE bs[i]
  BY DEF Replaced
<1> HIDE DEF mid
<1>4. /\ Pushed(mid, bs2, b) /\ Len(mid) = Len(bs) - 1 /\ Len(mid) > 0 /\ Len(mid) + 1 = Len(bs)
      /\ \A i \in 1..Len(bs) - 1 : bs2[i] = bs[i]
  <2>1. Len(mid) = Len(bs) - 1 /\ \A i \in 1..Len(mid) : mid[i] = bs[i]
    BY <1>2 DEF Popped
  <2>2. Len(mid) + 1 = Len(bs) /\ Len(mid) > 0
    BY <1>1, <2>1
  <2>3. \A i \in 1..Len(bs) - 1 : i \in 1..Len(bs) /\ i # Len(bs)
    BY <1>1
  <2> QED BY <1>1, <1>3, <2>1, <2>2, <2>3 DEF Pushed
<1>5. ShapeInv(d, mid) /\ TracksInv(d, mid, hid \cup ShadowedBy(bs))
  BY <1>2, ShapePopped DEF Base
<1>6. ShapeInv(d2, bs2) /\ TracksInv(d2, bs2, hid \cup ShadowedBy(bs))
  <2>1. IsChecker(d) /\ d.ok
    BY <1>5 DEF ShapeInv
  <2>2. b.scope = Len(d.scopes) + 1
    BY <2>1, PushScopeIs
  <2>3. Entered(d, d2, b)
    BY <2>1, <2>2, PushEnters
  <2>4. ShapeInv(d2, bs2) /\ TracksInv(d2, bs2, (hid \cup ShadowedBy(bs)) \ DOMAIN b.names)
    BY <1>4, <1>5, <2>3, ShapePushed
  <2> QED BY <2>4
<1>7. GenInv(g2, bs2, m2, hid \cup ShadowedBy(bs))
  <2>1. GenInv(g, bs, m, hid) /\ SlotsKept(m, m)
    BY DEF Base, SlotsKept
  <2>2. GenInv(g2, mid, m, hid \cup ShadowedBy(bs))
    BY <1>1, <1>2, <2>1, GenPopped
  <2>3. mid[1].kind = "body"
    BY <1>4, <1>5, BodyIs
  <2>4. mid \in Seq(Blocks)
    BY <1>2 DEF Popped
  <2>5. b.kind # "iflet"
    OBVIOUS
  <2> QED BY <1>1, <1>4, <2>2, <2>3, <2>4, <2>5, GenPushed
<1>8. /\ PathsInv(m2, bs2)
      /\ \A i \in 1..Len(bs) - 1 : Exec(m2, bs2, i) <=> Exec(m, bs, i)
  <2>1. bs2[Len(bs)] = b /\ PathsInv(m, bs)
    BY <1>1, <1>3 DEF Base
  <2>2. /\ bs2[Len(bs)].kind = "else" /\ (bs2[Len(bs)].reached <=> bs[Len(bs)].reached)
        /\ (bs2[Len(bs)].taken <=> ~bs[Len(bs)].taken)
    BY <2>1
  <2> QED BY <1>1, <1>3, <1>4, <2>1, <2>2, ControlElse
<1>9. RefSlots(m2, bs2)
  <2>1. /\ \A s \in 1..Len(m.slots) : m2.slots[s].type = m.slots[s].type
        /\ \A r \in RefName : m2.refs[r].slot = m.refs[r].slot
        /\ RefSlots(m, bs)
    BY DEF Base, SlotsKept, SameRefSlots
  <2>2. \A i \in 1..Len(bs2), r \in RefName : Has(bs2, i, r) =>
           /\ i \in 1..Len(bs) /\ Has(bs, i, r) /\ SlotAt(bs2, i, r) = SlotAt(bs, i, r)
           /\ Exec(m2, bs2, i) => Exec(m, bs, i)
    <3> SUFFICES ASSUME NEW i \in 1..Len(bs), NEW r \in RefName, Has(bs2, i, r)
                 PROVE  /\ bs2[i] = bs[i]
                        /\ Exec(m2, bs2, i) => Exec(m, bs, i)
      BY <1>3 DEF Has, SlotAt
    <3>1. i # Len(bs)
      BY <1>3 DEF Has
    <3>2. i \in 1..Len(bs) - 1
      BY <1>1, <3>1
    <3> QED BY <1>4, <1>8, <3>2
  <2> QED BY <1>1, <2>1, <2>2, RefSlotsKept
<1> QED BY <1>6, <1>7, <1>8, <1>9 DEF Base

\* The end of the function.
LEMMA BaseEmpty ==
  ASSUME NEW c, NEW g, NEW m, NEW bs, NEW hid, Base(c, g, m, bs, hid), Len(bs) = 1,
         NEW d, d = Sema!dropScopeVariables(c),
         NEW m2, MachineInv(m2), SlotsKept(m, m2), ~m2.running \/ m2.running = m.running,
         m2.returned <=> m.returned
  PROVE  Base(d, g, m2, <<>>, hid)
<1>1. bs \in Seq(Blocks) /\ m \in Machines /\ Len(<<>>) = 0 /\ 1..0 = {}
  BY DEF Base, ShapeInv, MachineInv
<1>2. ShapeInv(d, <<>>) /\ TracksInv(d, <<>>, hid)
  BY ShapeEmpty DEF Base
<1>3. GenInv(g, <<>>, m2, hid)
  BY <1>1, GenEmpty DEF Base
<1>4. PathsInv(m2, <<>>) /\ RefSlots(m2, <<>>)
  <2>1. m2.running => ~m2.returned
    BY DEF Base, PathsInv
  <2> QED BY <1>1, <2>1 DEF PathsInv, RefSlots
<1> QED BY <1>2, <1>3, <1>4 DEF Base

-----------------------------------------------------------------------------
(* The generator, statement by statement. *)

\* What a state of the generator consists of.
LEMMA GeneratorIs ==
  ASSUME NEW g \in Generators
  PROVE  /\ g = [namedValues |-> g.namedValues, varStructTypes |-> g.varStructTypes,
                 varOptionalTypes |-> g.varOptionalTypes, movedVars |-> g.movedVars]
         /\ g.namedValues \in [Name -> Nat] /\ g.varStructTypes \in SUBSET Name
         /\ g.varOptionalTypes \in SUBSET Name /\ g.movedVars \in SUBSET Name
  BY DEF Generators

\* Maps and sets of names make a state of the generator.
LEMMA GeneratorMade ==
  ASSUME NEW N \in [Name -> Nat], NEW S \in SUBSET Name, NEW O \in SUBSET Name,
         NEW M \in SUBSET Name,
         NEW g, g = [namedValues |-> N, varStructTypes |-> S, varOptionalTypes |-> O, movedVars |-> M]
  PROVE  g \in Generators
  BY DEF Generators

\* The names that are suppressed, and nothing else, become M.
LEMMA MovedMade ==
  ASSUME NEW g \in Generators, NEW M \in SUBSET Name, NEW g2, g2 = [g EXCEPT !.movedVars = M]
  PROVE  /\ g2 \in Generators /\ g2.movedVars = M /\ Map(g2) = Map(g)
         /\ g2.namedValues = g.namedValues /\ g2.varStructTypes = g.varStructTypes
         /\ g2.varOptionalTypes = g.varOptionalTypes
<1>1. g2 = [namedValues |-> g.namedValues, varStructTypes |-> g.varStructTypes,
            varOptionalTypes |-> g.varOptionalTypes, movedVars |-> M]
  BY GeneratorIs
<1>2. g2 \in Generators
  BY <1>1, GeneratorIs, GeneratorMade
<1> QED BY <1>1, <1>2 DEF Map

\* What suppress changes: a name is remembered as moved.
LEMMA SuppressIs ==
  ASSUME NEW g \in Generators, NEW src, NEW g2, g2 = suppress(g, src)
  PROVE  /\ g2 \in Generators
         /\ g2.movedVars = g.movedVars \cup ({src} \cap g.varStructTypes) /\ Map(g2) = Map(g)
         /\ g2.namedValues = g.namedValues /\ g2.varStructTypes = g.varStructTypes
         /\ g2.varOptionalTypes = g.varOptionalTypes
<1> DEFINE M == g.movedVars \cup ({src} \cap g.varStructTypes)
<1>1. g2 = [g EXCEPT !.movedVars = M]
  BY DEF suppress
<1>2. M \in SUBSET Name
  BY GeneratorIs
<1> HIDE DEF M
<1>3. /\ g2 \in Generators /\ g2.movedVars = M /\ Map(g2) = Map(g)
      /\ g2.namedValues = g.namedValues /\ g2.varStructTypes = g.varStructTypes
      /\ g2.varOptionalTypes = g.varOptionalTypes
  BY <1>1, <1>2, MovedMade
<1> QED BY <1>3 DEF M

\* The generator after a declaration of n from src, with or without the move of src.
DeclaredCode(g, g2, n, slot, struct, optional, src, moves) ==
  /\ NewMap(g, g2, n, slot)
  /\ n \in g2.varStructTypes <=> struct
  /\ g2.varOptionalTypes = IF optional THEN g.varOptionalTypes \cup {n} ELSE g.varOptionalTypes \ {n}
  /\ g2.movedVars = (g.movedVars \ {n})
                    \cup (IF moves THEN {src} \cap g2.varStructTypes ELSE {})

\* What the code of a declaration does to the generator's maps.
LEMMA DeclaredCodeIs ==
  ASSUME NEW g \in Generators, NEW n \in Name, NEW slot \in Nat, NEW struct \in BOOLEAN,
         NEW optional \in BOOLEAN, NEW src, NEW moves \in BOOLEAN,
         NEW g2, g2 = IF moves THEN suppress(declare(g, n, slot, struct, optional), src)
                      ELSE declare(g, n, slot, struct, optional)
  PROVE  DeclaredCode(g, g2, n, slot, struct, optional, src, moves) /\ g2 \in Generators
<1> DEFINE h == declare(g, n, slot, struct, optional)
           V == IF struct THEN g.varStructTypes \cup {n} ELSE g.varStructTypes \ {n}
           O == IF optional THEN g.varOptionalTypes \cup {n} ELSE g.varOptionalTypes \ {n}
           N == [g.namedValues EXCEPT ![n] = slot]
           M == g.movedVars \ {n}
<1>1. h = [g EXCEPT !.namedValues = N, !.varStructTypes = V, !.varOptionalTypes = O, !.movedVars = M]
  BY DEF declare
<1>2. /\ N \in [Name -> Nat] /\ V \in SUBSET Name /\ O \in SUBSET Name /\ M \in SUBSET Name
      /\ \A a \in Name : N[a] = IF a = n THEN slot ELSE g.namedValues[a]
      /\ \A a \in Name : a # n => (a \in V <=> a \in g.varStructTypes)
      /\ n \in V <=> struct
  BY GeneratorIs
<1> HIDE DEF h, N, V
<1>3. h \in Generators /\ h.namedValues = N /\ h.varStructTypes = V /\ h.varOptionalTypes = O
      /\ h.movedVars = M
  <2> HIDE DEF O, M
  <2>1. h \in Generators
    BY <1>1, <1>2 DEF Generators
  <2>2. h.namedValues = N /\ h.varStructTypes = V /\ h.varOptionalTypes = O /\ h.movedVars = M
    BY <1>1 DEF Generators
  <2> QED BY <2>1, <2>2
<1>4. /\ g2 \in Generators /\ g2.namedValues = N /\ g2.varStructTypes = V
      /\ g2.varOptionalTypes = O
      /\ g2.movedVars = M \cup (IF moves THEN {src} \cap V ELSE {})
  <2>1. CASE moves
    <3>1. g2 = suppress(h, src)
      BY <2>1 DEF h
    <3> HIDE DEF O, M
    <3>2. /\ g2 \in Generators
          /\ g2.movedVars = h.movedVars \cup ({src} \cap h.varStructTypes)
          /\ g2.namedValues = h.namedValues /\ g2.varStructTypes = h.varStructTypes
          /\ g2.varOptionalTypes = h.varOptionalTypes
      BY <1>3, <3>1, SuppressIs
    <3> QED BY <1>3, <2>1, <3>2
  <2>2. CASE ~moves
    <3>1. g2 = h
      BY <2>2 DEF h
    <3> QED BY <1>3, <2>2, <3>1
  <2> QED BY <2>1, <2>2
<1>5. NewMap(g, g2, n, slot)
  BY <1>2, <1>4 DEF NewMap
<1> QED BY <1>2, <1>4, <1>5 DEF DeclaredCode

\* The generator in the block of an if let.
LEMMA BoundCodeIs ==
  ASSUME NEW g \in Generators, NEW v \in Name, NEW x \in Name, NEW slot \in Nat,
         NEW g2, g2 = bindPayload(g, v, x, slot)
  PROVE  /\ NewMap(g, g2, v, slot) /\ g2.varStructTypes = g.varStructTypes \cup {v}
         /\ g2.varOptionalTypes = g.varOptionalTypes
         /\ g2.movedVars = (g.movedVars \cup {x}) \ {v}
<1> DEFINE V == g.varStructTypes \cup {v}
           N == [g.namedValues EXCEPT ![v] = slot]
           M == (g.movedVars \cup {x}) \ {v}
<1>1. g2 = [namedValues |-> N, varStructTypes |-> V, varOptionalTypes |-> g.varOptionalTypes,
            movedVars |-> M]
  <2>1. g2 = [g EXCEPT !.namedValues = N, !.varStructTypes = V, !.movedVars = M]
    BY DEF bindPayload
  <2> HIDE DEF N, V, M
  <2> QED BY <2>1, GeneratorIs, ZenonT(60)
<1>2. /\ N \in [Name -> Nat] /\ V \in SUBSET Name /\ M \in SUBSET Name
      /\ g.varOptionalTypes \in SUBSET Name
      /\ \A a \in Name : N[a] = IF a = v THEN slot ELSE g.namedValues[a]
      /\ \A a \in Name : a # v => (a \in V <=> a \in g.varStructTypes)
  BY GeneratorIs
<1> HIDE DEF N
<1>3. g2 \in Generators
  <2> HIDE DEF V, M
  <2> QED BY <1>1, <1>2, GeneratorMade
<1> QED BY <1>1, <1>2, <1>3 DEF NewMap

\* The generator after the block of an if let.
LEMMA RestoredCodeIs ==
  ASSUME NEW g \in Generators, NEW saved \in Generators, NEW g2, g2 = restoreAfterIfLet(g, saved)
  PROVE  /\ g2 \in Generators /\ Map(g2) = Map(saved)
         /\ g2.namedValues = saved.namedValues /\ g2.varStructTypes = saved.varStructTypes
         /\ g2.varOptionalTypes = g.varOptionalTypes
         /\ g2.movedVars = g.movedVars \cup saved.movedVars
<1> DEFINE M == g.movedVars \cup saved.movedVars
<1>1. g2 = [namedValues |-> saved.namedValues, varStructTypes |-> saved.varStructTypes,
            varOptionalTypes |-> g.varOptionalTypes, movedVars |-> M]
  <2>1. g2 = [g EXCEPT !.namedValues = saved.namedValues, !.varStructTypes = saved.varStructTypes,
                       !.movedVars = M]
    BY DEF restoreAfterIfLet
  <2> HIDE DEF M
  <2> QED BY <2>1, GeneratorIs, ZenonT(60)
<1>2. /\ saved.namedValues \in [Name -> Nat] /\ saved.varStructTypes \in SUBSET Name
      /\ M \in SUBSET Name /\ g.varOptionalTypes \in SUBSET Name
  BY GeneratorIs
<1>3. g2 \in Generators
  <2> HIDE DEF M
  <2> QED BY <1>1, <1>2, GeneratorMade
<1> QED BY <1>1, <1>3 DEF Map

-----------------------------------------------------------------------------
(* Declarations. *)

Agree == Base(checker, code, machine, blocks, hidden)

\* The parts of Agree, and the types they give.
LEMMA AgreeIs ==
  ASSUME Agree
  PROVE  /\ ScopesAgree /\ TableAgrees /\ MapsAgree /\ PathsAgree /\ SlotsAgree
         /\ IsChecker(checker) /\ checker.ok /\ code \in Generators /\ machine \in Machines
         /\ MachineInv(machine) /\ blocks \in Seq(Blocks) /\ Len(blocks) \in Nat
         /\ DOMAIN blocks = 1..Len(blocks)
  BY DEF Agree, Base, ScopesAgree, TableAgrees, MapsAgree, PathsAgree, SlotsAgree, ShapeInv, GenInv, MachineInv

\* What the declaration of the variable n of type t does: the checker visits the value
\* and tracks the name; the machine reads src, and gives the slot its value.
DeclareFacts(n, t, v, src, e, d, valued, bound, r) ==
  /\ e = Sema!visitValue(checker, src) /\ e.ok /\ SameTable(checker, e)
  /\ Records(n, Sema!OwnershipInfo(TRUE, TRUE))
  /\ d = Sema!trackVariable(e, n, Sema!OwnershipInfo(TRUE, TRUE))
  /\ IsChecker(d) /\ d.ok /\ r \in RefName \cup {NoName} /\ EndStatement(d, r)
  /\ checker' = Given(d, r) /\ SameTable(d, checker')
  /\ finished' = finished \cup ({r} \ {NoName})
  /\ Len(blocks) > 0 /\ ~Has(blocks, Len(blocks), n)
  /\ Declared(blocks, blocks', n, Entry(t, Len(machine.slots) + 1))
  /\ hidden' = hidden \ {n}
  /\ SameButRead(machine, valued) /\ Stays(machine, valued)
  /\ valued = IF src = NoName THEN current ELSE load(current, Slot(src))
  /\ Grown(valued, bound, t)
  /\ Storable(bound, Len(machine.slots) + 1, v)
  /\ machine' = store(bound, Len(machine.slots) + 1, v)
  /\ Stays(bound, machine')
  /\ Len(machine.slots) + 1 \in 1..Len(bound.slots)

\* What a declaration with slot type t and value v changes, part by part.
LEMMA DeclareIs ==
  ASSUME Agree, NEW n \in Name, NEW t \in SlotTypes, NEW src \in Name \cup {NoName},
         src # NoName => Visible(src),
         NEW v, v \in (1..Len(machine.home) + 1) \cup {Nothing, Garbage},
         t = "struct" => v # Nothing,
         NEW optional \in BOOLEAN, NEW struct \in BOOLEAN, NEW moves \in BOOLEAN,
         Declare(n, t, v, src, optional, struct, moves)
  PROVE  /\ \E e, d, valued, bound, r : DeclareFacts(n, t, v, src, e, d, valued, bound, r)
         /\ code' \in Generators
         /\ DeclaredCode(code, code', n, Len(machine.slots) + 1, struct, optional, src, moves)
<1>1. /\ ScopesAgree /\ TableAgrees /\ MapsAgree /\ IsChecker(checker) /\ checker.ok /\ code \in Generators
      /\ machine \in Machines /\ MachineInv(machine) /\ blocks \in Seq(Blocks)
      /\ Len(blocks) \in Nat /\ DOMAIN blocks = 1..Len(blocks)
  BY AgreeIs
<1>2. src # NoName => checker.all[src] # 0 /\ Slot(src) \in 1..Len(machine.slots)
  <2>1. ASSUME src # NoName PROVE checker.all[src] # 0 /\ Slot(src) \in 1..Len(machine.slots)
    <3>1. src \in Name /\ src \in Names /\ Visible(src)
      BY <2>1 DEF Names
    <3> QED BY <1>1, <3>1, VisibleIs
  <2> QED BY <2>1
<1> DEFINE e == Sema!visitValue(checker, src)
           info == Sema!OwnershipInfo(TRUE, TRUE)
           d == Sema!trackVariable(e, n, info)
           slot == Len(machine.slots) + 1
           valued == IF src = NoName THEN current ELSE load(current, Slot(src))
           bound == createEntryBlockAlloca(valued, t)
           g == declare(code, n, slot, struct, optional)
<1>3. SameButRead(machine, current) /\ MachineInv(current)
  BY <1>1, CurrentIs
<1>4. current.slots = machine.slots /\ current.home = machine.home
  BY <1>3 DEF SameButRead
<1>5. /\ Open /\ n \notin DOMAIN blocks[Top].names
      /\ Statement(d, IF moves THEN suppress(g, src) ELSE g, store(bound, slot, v), {src} \ {NoName})
      /\ blocks' = [blocks EXCEPT ![Top].names = Sema!With(@, n, Entry(t, slot))]
      /\ hidden' = hidden \ {n}
  BY <1>4 DEF Declare, Sema!visitVarDecl
<1>6. IsChecker(e) /\ (e.ok => SameTable(checker, e) /\ checker.ok) /\ e.all = checker.all
  BY <1>1, <1>2, VisitValueTyped
<1>7. Records(n, info) /\ n \in Names
  BY OwnershipInfoIs DEF Names
<1>8. Len(blocks) > 0 /\ Len(checker.scopes) > 0
  <2>1. Len(blocks) > 0
    BY <1>1, <1>5 DEF Open
  <2>2. ShapeInv(checker, blocks) /\ Len(blocks) \in 1..Len(blocks)
    BY <1>1, <2>1 DEF ScopesAgree
  <2>3. /\ blocks[Len(blocks)].scope = Len(checker.scopes)
        /\ 2 <= Floor(blocks[Len(blocks)]) /\ Floor(blocks[Len(blocks)]) <= blocks[Len(blocks)].scope
        /\ blocks[Len(blocks)].scope \in Nat /\ Floor(blocks[Len(blocks)]) \in Nat
    BY <2>1, <2>2, Bounds, BodyIs
  <2> QED BY <2>1, <2>3
<1>9. PICK r \in RefName \cup {NoName} : /\ EndStatement(d, r)
                                         /\ finished' = finished \cup ({r} \ {NoName})
  BY <1>5 DEF Statement
<1>10. d.ok
  BY <1>9 DEF EndStatement
<1>11. e.ok /\ SameTable(checker, e) /\ IsChecker(d)
  <2>1. Len(e.scopes) > 0
    <3>1. CASE e.ok
      BY <1>6, <1>8, <3>1 DEF SameTable
    <3>2. CASE ~e.ok
      <4>1. d.ok = e.ok
        BY DEF Sema!trackVariable
      <4> QED BY <1>10, <3>2, <4>1
    <3> QED BY <3>1, <3>2
  <2> HIDE DEF e, info
  <2>2. IsChecker(d) /\ d.ok = e.ok
    BY <1>6, <1>7, <2>1, TrackIs
  <2> QED BY <1>6, <1>10, <2>2
<1> HIDE DEF e, info, d
<1>12. checker' = Given(d, r) /\ SameTable(d, checker')
  BY <1>9, <1>11, EndIs
<1>13. code' = (IF moves THEN suppress(g, src) ELSE g) /\ machine' = store(bound, slot, v)
  BY <1>5 DEF Statement
<1>14. Declared(blocks, blocks', n, Entry(t, slot)) /\ ~Has(blocks, Len(blocks), n)
  <2>1. NameFits(n, Entry(t, slot))
    <3>1. slot \in Nat
      BY <1>1, MachineIs
    <3> QED BY <3>1, NamesAssumption DEF NameFits, Entry, Entries, SlotTypes
  <2>2. ~Has(blocks, Len(blocks), n)
    BY <1>5 DEF Has, Top
  <2>3. blocks' = [blocks EXCEPT ![Len(blocks)].names = Sema!With(@, n, Entry(t, slot))]
    BY <1>5 DEF Top
  <2> QED BY <1>1, <1>7, <1>8, <2>1, <2>2, <2>3, DeclaredIs
<1>15. SameButRead(machine, valued) /\ Stays(machine, valued) /\ MachineInv(valued)
  <2>1. CASE src = NoName
    BY <1>1, <1>3, <2>1, ReadStays
  <2>2. CASE src # NoName
    <3>1. Slot(src) \in 1..Len(current.slots)
      BY <1>2, <1>4, <2>2
    <3>2. SameButRead(current, load(current, Slot(src)))
      BY <1>3, <3>1, LoadStays
    <3>3. SameButRead(machine, valued)
      BY <1>3, <2>2, <3>2 DEF SameButRead
    <3> HIDE DEF valued
    <3>4. Stays(machine, valued)
      BY <1>1, <3>3, ReadStays
    <3> QED BY <3>3, <3>4 DEF Stays
  <2> QED BY <2>1, <2>2
<1>16. valued = IF src = NoName THEN current ELSE load(current, Slot(src))
  OBVIOUS
<1>17. bound = createEntryBlockAlloca(valued, t)
  OBVIOUS
<1> HIDE DEF valued
<1>18. Grown(valued, bound, t)
  BY <1>15, AllocaGrows
<1> HIDE DEF bound
<1>19. Len(machine.slots) \in Nat /\ Len(machine.home) \in Nat
  BY <1>1, MachineIs
<1>20. /\ Len(bound.slots) = slot /\ slot \in 1..Len(bound.slots) /\ bound.home = machine.home
       /\ bound.slots[slot].type = t /\ MachineInv(bound)
  BY <1>15, <1>18, <1>19 DEF Grown, SameButRead
<1>21. Storable(bound, slot, v)
  BY <1>20 DEF Storable
<1>22. Stays(bound, machine')
  BY <1>13, <1>20, <1>21, StoreStays
<1>23. DeclareFacts(n, t, v, src, e, d, valued, bound, r)
  BY <1>5, <1>7, <1>8, <1>9, <1>10, <1>11, <1>12, <1>13, <1>14, <1>15, <1>16, <1>18, <1>20, <1>21,
     <1>22 DEF DeclareFacts, e, d, info
<1>24. /\ code' \in Generators
       /\ DeclaredCode(code, code', n, slot, struct, optional, src, moves)
  <2>1. slot \in Nat
    BY <1>19
  <2> HIDE DEF slot
  <2> QED BY <1>1, <1>13, <2>1, DeclaredCodeIs, ZenonT(60)
<1> QED BY <1>23, <1>24

-----------------------------------------------------------------------------
(* Uses and assignments. *)

\* What the name n of a statement means: the variable or the reference of block i.
Meant(n, i) ==
  /\ i \in 1..Len(blocks) /\ IsInner(blocks, i, n) /\ Has(blocks, i, n)
  /\ checker.all[n] # 0 /\ checker.all[n] = ScopeAt(blocks[i], n)
  /\ Info(checker, n) = InfoAt(checker, blocks[i], n)
  /\ Type(n) = TypeAt(blocks, i, n)
  /\ n \in Name => /\ Slot(n) = SlotAt(blocks, i, n)
                   /\ Slot(n) \in 1..Len(machine.slots)
                   /\ machine.slots[Slot(n)].type = Type(n)
  /\ n \notin hidden /\ n \notin finished

\* A visible name means the variable of some block.
LEMMA MeantIs ==
  ASSUME Agree, NEW n \in Names, Visible(n)
  PROVE  \E i : Meant(n, i)
  BY VisibleIs, AgreeIs DEF Meant

\* A statement that declares nothing, which leaves the checker c and gives back r.
SimpleFacts(c, r) ==
  /\ r \in RefName \cup {NoName} /\ IsChecker(c) /\ c.ok /\ EndStatement(c, r)
  /\ checker' = Given(c, r) /\ SameTable(checker, c) /\ SameTable(c, checker')
  /\ SameTable(checker, checker')
  /\ finished' = finished \cup ({r} \ {NoName})
  /\ blocks' = blocks /\ hidden' = hidden /\ Len(blocks) > 0

\* What a statement of one line changes, apart from what it does to the machine.
LEMMA SimpleIs ==
  ASSUME Agree, NEW c, c.ok => SameTable(checker, c), NEW g, NEW m, NEW M, Simple(c, g, m, M)
  PROVE  /\ \E r : SimpleFacts(c, r)
         /\ code' = g /\ machine' = m /\ c.ok
<1>1. PICK r \in RefName \cup {NoName} : /\ EndStatement(c, r)
                                         /\ finished' = finished \cup ({r} \ {NoName})
  BY DEF Simple, Statement
<1>2. c.ok
  BY <1>1 DEF EndStatement
<1>3. IsChecker(c) /\ SameTable(checker, c)
  BY <1>2 DEF SameTable
<1>4. checker' = Given(c, r) /\ SameTable(c, checker')
  BY <1>1, <1>3, EndIs
<1>5. SameTable(checker, checker')
  BY <1>3, <1>4 DEF SameTable
<1>6. blocks' = blocks /\ hidden' = hidden /\ Len(blocks) > 0
  <2>1. blocks # <<>> /\ blocks \in Seq(Blocks)
    BY AgreeIs DEF Simple, Statement, Open
  <2> QED BY <2>1 DEF Simple
<1>7. SimpleFacts(c, r)
  BY <1>1, <1>2, <1>3, <1>4, <1>5, <1>6 DEF SimpleFacts
<1> QED BY <1>2, <1>7 DEF Simple, Statement

\* What a use of a variable requires and changes.
LEMMA UseIs ==
  ASSUME Agree, NEW n \in Name, Use(n)
  PROVE  /\ \E i, r : Meant(n, i) /\ SimpleFacts(checker, r)
                      /\ InfoAt(checker, blocks[i], n).state # "Moved"
         /\ code' = code /\ machine' = load(current, Slot(n)) /\ gap' = gap
         /\ SameButRead(machine, machine') /\ Stays(machine, machine')
         /\ SameButRead(machine, current)
<1>1. n \in Names /\ Visible(n) /\ Simple(Sema!checkUse(checker, n), code, load(current, Slot(n)), {n})
      /\ gap' = gap
  BY DEF Use, Names
<1>2. PICK i : Meant(n, i)
  BY <1>1, MeantIs
<1>3. checker.all[n] # 0 /\ IsChecker(checker) /\ checker.ok
  BY <1>2, AgreeIs DEF Meant
<1> DEFINE c == Sema!checkUse(checker, n)
<1>4. c.ok => c = checker /\ Info(checker, n).state # "Moved"
  BY <1>1, <1>3, CheckUseIs
<1>5. SameTable(checker, checker)
  BY <1>3 DEF SameTable
<1> HIDE DEF c
<1>6. c.ok => SameTable(checker, c)
  BY <1>4, <1>5
<1>7. (\E r : SimpleFacts(c, r)) /\ code' = code /\ machine' = load(current, Slot(n)) /\ c.ok
  <2>1. Simple(c, code, load(current, Slot(n)), {n})
    BY <1>1 DEF c
  <2> QED BY <1>6, <2>1, SimpleIs
<1>8. c = checker /\ InfoAt(checker, blocks[i], n).state # "Moved"
  BY <1>2, <1>4, <1>7 DEF Meant
<1>9. SameButRead(machine, current) /\ MachineInv(current) /\ MachineInv(machine)
  BY AgreeIs, CurrentIs
<1>10. Slot(n) \in 1..Len(current.slots)
  BY <1>2, <1>9 DEF Meant, SameButRead
<1>11. SameButRead(current, load(current, Slot(n)))
  BY <1>9, <1>10, LoadStays
<1>12. SameButRead(machine, machine')
  BY <1>7, <1>9, <1>11 DEF SameButRead
<1>13. Stays(machine, machine')
  BY <1>9, <1>12, ReadStays
<1> QED BY <1>1, <1>2, <1>7, <1>8, <1>9, <1>12, <1>13

\* In what the machine runs, control is in every open block.
LEMMA RunsIs ==
  ASSUME NEW m, NEW bs, bs \in Seq(Blocks), PathsInv(m, bs), m.running, NEW i \in 1..Len(bs)
  PROVE  Exec(m, bs, i) /\ ~m.returned
<1>1. ~m.returned /\ \A j \in 1..Len(bs) : bs[j].reached
  BY DEF PathsInv
<1>2. i # Len(bs) => i + 1 \in 1..Len(bs)
  OBVIOUS
<1> QED BY <1>1, <1>2 DEF Exec

\* What a use of a reference requires and changes.
LEMMA UseRefIs ==
  ASSUME Agree, NEW q \in RefName, UseRef(q)
  PROVE  /\ \E i, r : Meant(q, i) /\ SimpleFacts(checker, r)
         /\ code' = code /\ machine' = loadThrough(current, q) /\ gap' = gap
         /\ SameButRead(machine, machine') /\ Stays(machine, machine')
         /\ SameButRead(machine, current)
<1>1. q \in Names /\ Visible(q) /\ Simple(Sema!checkUse(checker, q), code, loadThrough(current, q), {q})
      /\ gap' = gap
  BY DEF UseRef, Names
<1>2. PICK i : Meant(q, i)
  BY <1>1, MeantIs
<1>3. checker.all[q] # 0 /\ IsChecker(checker) /\ checker.ok
  BY <1>2, AgreeIs DEF Meant
<1> DEFINE c == Sema!checkUse(checker, q)
<1>4. c.ok => c = checker
  BY <1>1, <1>3, CheckUseIs
<1>5. SameTable(checker, checker)
  BY <1>3 DEF SameTable
<1> HIDE DEF c
<1>6. c.ok => SameTable(checker, c)
  BY <1>4, <1>5
<1>7. (\E r : SimpleFacts(c, r)) /\ code' = code /\ machine' = loadThrough(current, q) /\ c.ok
  <2>1. Simple(c, code, loadThrough(current, q), {q})
    BY <1>1 DEF c
  <2> QED BY <1>6, <2>1, SimpleIs
<1>8. c = checker
  BY <1>4, <1>7
<1>9. SameButRead(machine, current) /\ MachineInv(current) /\ MachineInv(machine)
  BY AgreeIs, CurrentIs
<1>10. current.running => current.refs[q].slot \in 1..Len(current.slots)
  <2> SUFFICES ASSUME machine.running PROVE machine.refs[q].slot \in 1..Len(machine.slots)
    BY <1>9 DEF SameButRead
  <2>1. Exec(machine, blocks, i)
    <3>1. blocks \in Seq(Blocks) /\ PathsInv(machine, blocks) /\ i \in 1..Len(blocks)
      BY <1>2, AgreeIs DEF PathsAgree, Meant
    <3> QED BY <3>1, RunsIs
  <2> QED BY <1>2, <2>1, AgreeIs DEF SlotsAgree, RefSlots, Meant
<1>11. SameButRead(current, loadThrough(current, q))
  <2>1. current \in Machines
    BY <1>9 DEF MachineInv
  <2> QED BY <1>10, <2>1, LoadThroughIs
<1>12. SameButRead(machine, machine')
  BY <1>7, <1>9, <1>11 DEF SameButRead
<1>13. Stays(machine, machine')
  BY <1>9, <1>12, ReadStays
<1> QED BY <1>1, <1>2, <1>7, <1>8, <1>9, <1>12, <1>13

\* What an assignment of a new value requires and changes.
LEMMA AssignNewIs ==
  ASSUME Agree, NEW n \in Name, AssignNew(n)
  PROVE  /\ \E i, r, v :
              /\ Meant(n, i) /\ SimpleFacts(checker, r)
              /\ InfoAt(checker, blocks[i], n).state \notin {"Moved", "BorrowedImmutable", "BorrowedMutable"}
              /\ v \in {Len(machine.home) + 1, Nothing}
              /\ Storable(current, Slot(n), v)
              /\ machine' = store(current, Slot(n), v)
         /\ code' = code /\ gap' = Leaks(TRUE)
         /\ Stays(machine, machine') /\ SameButRead(machine, current) /\ MachineInv(current)
         /\ machine'.refs = machine.refs /\ machine'.drops = machine.drops
         /\ machine'.read = noRead
<1>1. n \in Names /\ Visible(n) /\ gap' = Leaks(TRUE)
  BY DEF AssignNew, Names
<1>2. PICK i : Meant(n, i)
  BY <1>1, MeantIs
<1>3. checker.all[n] # 0 /\ IsChecker(checker) /\ checker.ok
  BY <1>2, AgreeIs DEF Meant
<1> DEFINE c == Sema!visitAssignExpr(checker, n, NoName)
<1>4. PICK v \in {fresh(current)} \cup (IF Type(n) = "optional" THEN {Nothing} ELSE {}) :
        Simple(c, code, store(current, Slot(n), v), {n})
  BY DEF AssignNew
<1>5. c.ok => c = checker
              /\ Info(checker, n).state \notin {"Moved", "BorrowedImmutable", "BorrowedMutable"}
  <2> SUFFICES ASSUME c.ok
               PROVE  c = checker
                      /\ Info(checker, n).state \notin {"Moved", "BorrowedImmutable", "BorrowedMutable"}
    OBVIOUS
  <2> DEFINE e == Sema!visitValue(checker, NoName)
  <2>1. e = checker
    BY DEF Sema!visitValue
  <2> HIDE DEF e
  <2>2. IsChecker(e) /\ e.all = checker.all
    BY <1>3, <2>1
  <2>3. c = e /\ Info(e, n).state # "Moved" /\ Info(e, n).state \notin {"BorrowedImmutable", "BorrowedMutable"}
    BY <1>1, <1>3, <2>2, AssignIs DEF e
  <2> QED BY <2>1, <2>3
<1>6. SameTable(checker, checker)
  BY <1>3 DEF SameTable
<1> HIDE DEF c
<1>7. c.ok => SameTable(checker, c)
  BY <1>5, <1>6
<1>8. (\E r : SimpleFacts(c, r)) /\ code' = code /\ machine' = store(current, Slot(n), v) /\ c.ok
  BY <1>4, <1>7, SimpleIs
<1>9. c = checker
      /\ InfoAt(checker, blocks[i], n).state \notin {"Moved", "BorrowedImmutable", "BorrowedMutable"}
  BY <1>2, <1>5, <1>8 DEF Meant
<1>10. SameButRead(machine, current) /\ MachineInv(current) /\ MachineInv(machine)
       /\ current.read = noRead
  BY AgreeIs, CurrentIs
<1>11. Slot(n) \in 1..Len(current.slots) /\ current.slots = machine.slots /\ current.home = machine.home
  BY <1>2, <1>10 DEF Meant, SameButRead
<1>12. v \in {Len(machine.home) + 1, Nothing} /\ Storable(current, Slot(n), v)
  <2>1. Len(machine.home) \in Nat /\ machine.slots[Slot(n)].type = Type(n)
    BY <1>2, AgreeIs, MachineIs DEF Meant
  <2>2. v = Len(machine.home) + 1 \/ (v = Nothing /\ Type(n) = "optional")
    BY <1>4, <1>11 DEF fresh
  <2>3. Len(machine.home) + 1 \in Nat
    BY <2>1
  <2> QED BY <1>11, <2>1, <2>2, <2>3, ValuesAssumption DEF Storable
<1>13. Stays(current, machine') /\ machine'.refs = current.refs /\ machine'.drops = current.drops
       /\ machine'.read = current.read
  BY <1>8, <1>10, <1>11, <1>12, StoreStays
<1>14. Stays(machine, machine')
  <2>1. Stays(machine, current)
    BY <1>10, ReadStays
  <2> QED BY <1>13, <2>1, StaysTrans
<1>15. machine'.refs = machine.refs /\ machine'.drops = machine.drops /\ machine'.read = noRead
  BY <1>10, <1>13 DEF SameButRead
<1> QED BY <1>1, <1>2, <1>8, <1>9, <1>10, <1>12, <1>14, <1>15

\* Only what references point to and have seen changes.
SameButRefs(m, m2) ==
  /\ m2 \in Machines
  /\ (m2.running <=> m.running) /\ (m2.returned <=> m.returned)
  /\ m2.slots = m.slots /\ m2.home = m.home /\ m2.drops = m.drops /\ m2.read = m.read

RefMaps == [RefName -> [slot : Nat, sees : Vals]]

\* A machine with other references is otherwise the same.
LEMMA RefsMade ==
  ASSUME NEW m \in Machines, NEW F \in RefMaps,
         NEW m2, m2 = [m EXCEPT !.refs = F]
  PROVE  SameButRefs(m, m2) /\ m2.refs = F
<1>1. m2 = [running |-> m.running, returned |-> m.returned, slots |-> m.slots,
            home |-> m.home, drops |-> m.drops, read |-> m.read, refs |-> F]
  BY MachineIs
<1>2. m2 \in Machines
  BY <1>1, MachineIs, MachineMade, ZenonT(60) DEF RefMaps
<1> QED BY <1>1, <1>2 DEF SameButRefs

Point(m, q, s, v) == [m EXCEPT !.refs[q] = [slot |-> s, sees |-> v]]

See(m, q, v) == [m EXCEPT !.refs[q].sees = v]

\* The reference q points to slot s, and has seen v.
LEMMA PointIs ==
  ASSUME NEW m \in Machines, NEW q \in RefName, NEW s \in Nat, NEW v \in Vals,
         NEW m2, m2 = Point(m, q, s, v)
  PROVE  /\ SameButRefs(m, m2)
         /\ m2.refs[q] = [slot |-> s, sees |-> v]
         /\ \A p \in RefName : p # q => m2.refs[p] = m.refs[p]
<1> DEFINE F == [m.refs EXCEPT ![q] = [slot |-> s, sees |-> v]]
<1>1. m2 = [m EXCEPT !.refs = F]
  BY DEF Point, See
<1>2. m.refs \in [RefName -> [slot : Nat, sees : Vals]]
  BY MachineIs
<1>3. /\ F \in [RefName -> [slot : Nat, sees : Vals]] /\ F[q] = [slot |-> s, sees |-> v]
      /\ \A p \in RefName : p # q => F[p] = m.refs[p]
  BY <1>2
<1> HIDE DEF F
<1>4. F \in RefMaps
  BY <1>3 DEF RefMaps
<1>5. SameButRefs(m, m2) /\ m2.refs = F
  BY <1>1, <1>4, RefsMade
<1> QED BY <1>3, <1>5

\* The reference q has seen v.
LEMMA SeesIs ==
  ASSUME NEW m \in Machines, NEW q \in RefName, NEW v \in Vals,
         NEW m2, m2 = See(m, q, v)
  PROVE  /\ SameButRefs(m, m2)
         /\ m2.refs[q].slot = m.refs[q].slot /\ m2.refs[q].sees = v
         /\ \A p \in RefName : p # q => m2.refs[p] = m.refs[p]
<1> DEFINE F == [m.refs EXCEPT ![q].sees = v]
<1>1. m2 = [m EXCEPT !.refs = F]
  BY DEF Point, See
<1>2. m.refs \in [RefName -> [slot : Nat, sees : Vals]]
  BY MachineIs
<1>3. /\ F \in [RefName -> [slot : Nat, sees : Vals]]
      /\ F[q].slot = m.refs[q].slot /\ F[q].sees = v
      /\ \A p \in RefName : p # q => F[p] = m.refs[p]
  BY <1>2
<1> HIDE DEF F
<1>4. F \in RefMaps
  BY <1>3 DEF RefMaps
<1>5. SameButRefs(m, m2) /\ m2.refs = F
  BY <1>1, <1>4, RefsMade
<1> QED BY <1>3, <1>5

\* References that point where they did are a harmless change.
LEMMA RefsStays ==
  ASSUME NEW m, MachineInv(m), NEW m2, SameButRefs(m, m2), SameRefSlots(m, m2)
  PROVE  Stays(m, m2)
<1>1. m2 \in Machines /\ m2.slots = m.slots /\ m2.home = m.home /\ SameControl(m, m2)
  BY DEF SameButRefs, SameControl
<1>2. MachineInv(m2)
  BY <1>1, MachineInvKept
<1> QED BY <1>1, <1>2 DEF Stays, SlotsKept

\* What an assignment of one variable to another requires and changes.
LEMMA AssignFrom ==
  ASSUME Agree, NEW n \in Name, NEW x \in Name, Assign(n, x)
  PROVE  /\ \E i, j, r, e, m :
              /\ Meant(n, i) /\ Meant(x, j) /\ Type(x) = "struct"
              /\ Info(checker, x).state # "Moved" /\ Info(checker, x).borrowCount = 0
              /\ ~Info(checker, x).hasMutableBorrow
              /\ SetAt(checker, e, x, [Info(checker, x) EXCEPT !.state = "Moved"])
              /\ SimpleFacts(e, r)
              /\ Info(e, n).state \notin {"Moved", "BorrowedImmutable", "BorrowedMutable"}
              /\ m = load(current, Slot(x)) /\ SameButRead(machine, m) /\ MachineInv(m)
              /\ Storable(m, Slot(n), machine.slots[Slot(x)].val)
              /\ machine' = store(m, Slot(n), machine.slots[Slot(x)].val)
         /\ code' = suppress(code, x) /\ gap' = Leaks(TRUE)
         /\ Stays(machine, machine')
<1>1. n \in Names /\ x \in Names /\ Visible(n) /\ Visible(x) /\ Type(x) = "struct" /\ gap' = Leaks(TRUE)
      /\ Open
  BY DEF Assign, Names
<1>2. PICK i : Meant(n, i)
  BY <1>1, MeantIs
<1>3. PICK j : Meant(x, j)
  BY <1>1, MeantIs
<1>4. checker.all[n] # 0 /\ checker.all[x] # 0 /\ IsChecker(checker) /\ checker.ok
  BY <1>2, <1>3, AgreeIs DEF Meant
<1> DEFINE c == Sema!visitAssignExpr(checker, n, x)
           e == Sema!visitValue(checker, x)
           m == load(current, Slot(x))
           v == current.slots[Slot(x)].val
<1>5. SameButRead(machine, current) /\ MachineInv(current) /\ MachineInv(machine)
  BY AgreeIs, CurrentIs
<1>6. Slot(n) \in 1..Len(current.slots) /\ Slot(x) \in 1..Len(current.slots)
      /\ current.slots = machine.slots /\ current.home = machine.home
      /\ machine.slots[Slot(x)].type = "struct"
  BY <1>1, <1>2, <1>3, <1>5 DEF Meant, SameButRead
<1>7. SameButRead(current, m) /\ MachineInv(m)
  BY <1>5, <1>6, LoadStays
<1>8. Simple(c, suppress(code, x), store(m, Slot(n), v), {n, x})
  BY DEF Assign
<1>9. IsChecker(e) /\ (e.ok => SameTable(checker, e)) /\ e.all = checker.all
  BY <1>4, VisitValueTyped
<1>10. c.ok => /\ c = e /\ e.ok
               /\ Info(e, n).state \notin {"Moved", "BorrowedImmutable", "BorrowedMutable"}
  BY <1>1, <1>4, <1>9, AssignIs
<1> HIDE DEF c, e, m, v
<1>11. c.ok => SameTable(checker, c)
  BY <1>9, <1>10
<1>12. (\E r : SimpleFacts(c, r)) /\ code' = suppress(code, x) /\ machine' = store(m, Slot(n), v) /\ c.ok
  BY <1>8, <1>11, SimpleIs
<1>13. /\ Info(checker, x).state # "Moved" /\ Info(checker, x).borrowCount = 0
       /\ ~Info(checker, x).hasMutableBorrow
       /\ SetAt(checker, e, x, [Info(checker, x) EXCEPT !.state = "Moved"])
  BY <1>1, <1>4, <1>10, <1>12, VisitValueIs DEF e
<1>14. v = machine.slots[Slot(x)].val
  BY <1>6 DEF v
<1>15. SameButRead(machine, m)
  BY <1>5, <1>7 DEF SameButRead
<1>16. m.slots = machine.slots /\ m.home = machine.home
  BY <1>15 DEF SameButRead
<1>17. Storable(m, Slot(n), v)
  <2>1. v \in DOMAIN machine.home \cup {Nothing, Garbage} /\ v # Nothing
    BY <1>5, <1>6, <1>14 DEF MachineInv
  <2>2. DOMAIN machine.home = 1..Len(machine.home) /\ Len(machine.home) \in Nat
    BY <1>5, MachineIs DEF MachineInv
  <2> QED BY <1>16, <2>1, <2>2 DEF Storable
<1>18. Stays(machine, machine')
  <2>1. Slot(n) \in 1..Len(m.slots)
    BY <1>6, <1>16
  <2>2. Stays(m, machine')
    BY <1>7, <1>12, <1>17, <2>1, StoreStays
  <2>3. Stays(machine, m)
    BY <1>5, <1>15, ReadStays
  <2> QED BY <2>2, <2>3, StaysTrans
<1>19. m = load(current, Slot(x))
  BY DEF m
<1>20. SameButRead(machine, m) /\ Storable(m, Slot(n), machine.slots[Slot(x)].val)
       /\ machine' = store(m, Slot(n), machine.slots[Slot(x)].val)
  BY <1>12, <1>14, <1>15, <1>17
<1> QED BY <1>1, <1>2, <1>3, <1>7, <1>10, <1>12, <1>13, <1>18, <1>19, <1>20

\* What an assignment through a reference requires and changes.
LEMMA AssignThroughIs ==
  ASSUME Agree, NEW q \in RefName, NEW src \in Name \cup {NoName}, AssignThrough(q, src)
  PROVE  /\ \E i, r, c, v, m :
              /\ Meant(q, i) /\ Type(q) = "refmut" /\ SimpleFacts(c, r)
              /\ src = NoName => c = checker /\ v = Len(machine.home) + 1
              /\ v \in (1..Len(machine.home) + 1) \cup {Garbage}
              /\ machine.running =>
                   /\ machine.refs[q].slot \in 1..Len(machine.slots)
                   /\ m = store(current, machine.refs[q].slot, v)
                   /\ SameButRefs(m, machine') /\ machine'.refs[q].sees = v
                   /\ \A p \in RefName : p # q => machine'.refs[p] = m.refs[p]
              /\ ~machine.running => machine' = current
         /\ code' = code /\ gap' = (IF src # NoName THEN "missed" ELSE Leaks(TRUE))
         /\ Stays(machine, machine') /\ SameButRead(machine, current) /\ MachineInv(current)
<1>1. q \in Names /\ Visible(q) /\ Type(q) = "refmut" /\ (src # NoName => Visible(src) /\ Type(src) = "struct")
      /\ gap' = IF src # NoName THEN "missed" ELSE Leaks(TRUE)
  BY SMTT(60) DEF AssignThrough, Names
<1>2. PICK i : Meant(q, i)
  BY <1>1, MeantIs
<1>3. src # NoName => src \in Name /\ \E j : Meant(src, j)
  BY <1>1, MeantIs DEF Names
<1>4. checker.all[q] # 0 /\ IsChecker(checker) /\ checker.ok /\ (src # NoName => checker.all[src] # 0)
  BY <1>2, <1>3, AgreeIs DEF Meant
<1> DEFINE c == Sema!visitAssignExpr(checker, q, src)
           e == Sema!visitValue(checker, src)
           v == IF src = NoName THEN fresh(current) ELSE current.slots[Slot(src)].val
           m == store(current, current.refs[q].slot, v)
<1>70. v = IF src = NoName THEN fresh(current) ELSE current.slots[Slot(src)].val
  OBVIOUS
<1>71. m = store(current, current.refs[q].slot, v)
  OBVIOUS
<1>5. SameButRead(machine, current) /\ MachineInv(current) /\ MachineInv(machine)
      /\ current.read = noRead
  BY AgreeIs, CurrentIs
<1>6. current.slots = machine.slots /\ current.home = machine.home /\ current.refs = machine.refs
      /\ (current.running <=> machine.running)
  BY <1>5, SMTT(60) DEF SameButRead
<1>7. Simple(c, code, IF m.running THEN [m EXCEPT !.refs[q].sees = v] ELSE m, {q, src} \ {NoName})
  BY SMTT(60) DEF AssignThrough
<1>8. IsChecker(e) /\ (e.ok => SameTable(checker, e)) /\ e.all = checker.all /\ (src = NoName => e = checker)
  BY <1>4, VisitValueTyped
<1>9. c.ok => c = e /\ e.ok
  BY <1>1, <1>4, <1>8, AssignIs
<1> HIDE DEF c, e, v, m
<1>10. c.ok => SameTable(checker, c)
  BY <1>8, <1>9, SMTT(60)
<1>11. /\ (\E r : SimpleFacts(c, r)) /\ code' = code
       /\ machine' = (IF m.running THEN [m EXCEPT !.refs[q].sees = v] ELSE m) /\ c.ok
  BY <1>7, <1>10, SimpleIs
<1>110. PICK r : SimpleFacts(c, r)
  BY <1>11
<1>12. src = NoName => c = checker /\ v = Len(machine.home) + 1
  BY <1>6, <1>8, <1>9, <1>11, <1>70 DEF fresh
<1>13. Len(machine.home) \in Nat /\ DOMAIN machine.home = 1..Len(machine.home)
  BY <1>5, MachineIs DEF MachineInv
<1>14. v \in (1..Len(machine.home) + 1) \cup {Garbage}
  <2>1. CASE src = NoName
    BY <1>12, <1>13, <2>1
  <2>2. CASE src # NoName
    <3>1. Slot(src) \in 1..Len(machine.slots) /\ machine.slots[Slot(src)].type = "struct"
      BY <1>1, <1>3, <2>2 DEF Meant
    <3>2. v = machine.slots[Slot(src)].val
      BY <1>6, <1>70, <2>2
    <3>3. v \in DOMAIN machine.home \cup {Nothing, Garbage} /\ v # Nothing
      BY <1>5, <3>1, <3>2 DEF MachineInv
    <3> QED BY <1>13, <3>3
  <2> QED BY <2>1, <2>2
<1>15. CASE machine.running
  <2>1. machine.refs[q].slot \in 1..Len(machine.slots)
    <3>1. blocks \in Seq(Blocks) /\ PathsInv(machine, blocks) /\ i \in 1..Len(blocks)
      BY <1>2, AgreeIs DEF PathsAgree, Meant
    <3>2. Exec(machine, blocks, i)
      BY <1>15, <3>1, RunsIs
    <3> QED BY <1>2, <3>2, AgreeIs DEF SlotsAgree, RefSlots, Meant
  <2> DEFINE s == machine.refs[q].slot
  <2>2. m = store(current, s, v) /\ s \in 1..Len(current.slots)
    BY <1>6, <1>71, <2>1
  <2>3. Storable(current, s, v)
    BY <1>6, <1>13, <1>14, ValuesAssumption DEF Storable
  <2> HIDE DEF s
  <2>4. Stays(current, m) /\ m.refs = current.refs /\ m.drops = current.drops /\ m.read = current.read
    BY <1>5, <2>2, <2>3, StoreStays
  <2>5. m.running /\ m \in Machines /\ MachineInv(m)
    BY <1>6, <1>15, <2>4 DEF Stays, SameControl, MachineInv
  <2> DEFINE m2 == See(m, q, v)
  <2>6. machine' = m2
    BY <1>11, <2>5 DEF See
  <2>7. v \in Vals
    BY <1>13, <1>14 DEF Vals
  <2>71. /\ SameButRefs(m, m2) /\ m2.refs[q].slot = m.refs[q].slot
         /\ m2.refs[q].sees = v
         /\ \A p \in RefName : p # q => m2.refs[p] = m.refs[p]
    BY <2>5, <2>7, SeesIs
  <2> HIDE DEF m2
  <2>8. /\ SameButRefs(m, machine') /\ machine'.refs[q].slot = m.refs[q].slot
        /\ machine'.refs[q].sees = v
        /\ \A p \in RefName : p # q => machine'.refs[p] = m.refs[p]
    BY <2>6, <2>71
  <2>9. Stays(m, machine')
    <3>1. SameRefSlots(m, machine')
      BY <2>8 DEF SameRefSlots
    <3> QED BY <2>5, <2>8, <3>1, RefsStays
  <2>10. Stays(machine, machine')
    BY <1>5, <2>4, <2>9, ReadStays, StaysTrans
  <2>11. /\ Meant(q, i) /\ Type(q) = "refmut" /\ SimpleFacts(c, r)
         /\ src = NoName => c = checker /\ v = Len(machine.home) + 1
         /\ v \in (1..Len(machine.home) + 1) \cup {Garbage}
         /\ machine.running =>
              /\ machine.refs[q].slot \in 1..Len(machine.slots)
              /\ m = store(current, machine.refs[q].slot, v)
              /\ SameButRefs(m, machine') /\ machine'.refs[q].sees = v
              /\ \A p \in RefName : p # q => machine'.refs[p] = m.refs[p]
         /\ ~machine.running => machine' = current
    BY <1>1, <1>2, <1>110, <1>12, <1>14, <1>15, <2>1, <2>2, <2>8, SMTT(60) DEF s
  <2> QED BY <1>1, <1>5, <1>11, <2>10, <2>11
<1>16. CASE ~machine.running
  <2>1. m = current
    BY <1>6, <1>16, <1>71, NoStore
  <2>2. machine' = current
    BY <1>6, <1>11, <1>16, <2>1
  <2>3. Stays(machine, machine')
    BY <1>5, <2>2, ReadStays
  <2> QED BY <1>1, <1>2, <1>5, <1>11, <1>12, <1>14, <1>16, <2>2, <2>3
<1> QED BY <1>15, <1>16

-----------------------------------------------------------------------------
(* Control, and single fields of the machine. *)

\* Only control changes.
SameButControl(m, m2) ==
  /\ m2 \in Machines /\ m2.slots = m.slots /\ m2.home = m.home /\ m2.drops = m.drops
  /\ m2.read = m.read /\ m2.refs = m.refs

Run(m, b) == [m EXCEPT !.running = b]

Stop(m, p) == [m EXCEPT !.running = FALSE, !.returned = @ \/ p]

\* What starting or stopping the code of a block changes.
LEMMA RunIs ==
  ASSUME NEW m \in Machines, NEW b \in BOOLEAN, NEW m2, m2 = Run(m, b)
  PROVE  SameButControl(m, m2) /\ (m2.running <=> b) /\ (m2.returned <=> m.returned)
<1>1. m2 = [running |-> b, returned |-> m.returned, slots |-> m.slots,
            home |-> m.home, drops |-> m.drops, read |-> m.read, refs |-> m.refs]
  BY MachineIs DEF Run
<1>2. m2 \in Machines
  <2>1. /\ m.running \in BOOLEAN /\ m.returned \in BOOLEAN
        /\ m.slots \in Seq(SlotRecords) /\ m.home \in Seq(Homes)
        /\ m.drops \in SUBSET [slot : Nat, val : Vals, home : Homes]
        /\ m.read \in [got : Vals, due : Vals]
        /\ m.refs \in [RefName -> [slot : Nat, sees : Vals]]
    BY MachineIs
  <2> QED BY <1>1, <2>1 DEF Machines, SlotRecords
<1> QED BY <1>1, <1>2 DEF SameButControl

\* What leaving the code that runs changes.
LEMMA StopIs ==
  ASSUME NEW m \in Machines, NEW p \in BOOLEAN, NEW m2, m2 = Stop(m, p)
  PROVE  SameButControl(m, m2) /\ ~m2.running /\ (m2.returned <=> m.returned \/ p)
<1> DEFINE q == m.returned \/ p
<1>1. q \in BOOLEAN /\ m2 = [m EXCEPT !.running = FALSE, !.returned = q]
  BY DEF Stop
<1> HIDE DEF q
<1>2. m2 = [running |-> FALSE, returned |-> q, slots |-> m.slots,
            home |-> m.home, drops |-> m.drops, read |-> m.read, refs |-> m.refs]
  BY <1>1, MachineIs, ZenonT(60)
<1>3. m2 \in Machines
  BY <1>1, <1>2, MachineIs, MachineMade, ZenonT(60)
<1>4. SameButControl(m, m2) /\ ~m2.running /\ (m2.returned <=> q)
  BY <1>2, <1>3 DEF SameButControl
<1> QED BY <1>4 DEF q

\* A change of control changes no slot and no reference.
LEMMA ControlMachine ==
  ASSUME NEW m, MachineInv(m), NEW m2, SameButControl(m, m2)
  PROVE  MachineInv(m2) /\ SlotsKept(m, m2) /\ SameRefSlots(m, m2)
<1>1. m2 \in Machines /\ m2.slots = m.slots /\ m2.home = m.home /\ m2.refs = m.refs
  BY DEF SameButControl
<1>2. MachineInv(m2)
  BY <1>1, MachineInvKept
<1> QED BY <1>1, <1>2 DEF SlotsKept, SameRefSlots

\* The Optional in slot s becomes nil.
Clear(m, s) == [m EXCEPT !.slots[s].val = Nothing]

\* What emptying an optional slot changes.
LEMMA ClearIs ==
  ASSUME NEW m \in Machines, NEW s \in 1..Len(m.slots), NEW m2, m2 = Clear(m, s)
  PROVE  /\ SameButMemory(m, m2) /\ m2.home = m.home
         /\ Len(m2.slots) = Len(m.slots)
         /\ \A k \in 1..Len(m.slots) :
              /\ m2.slots[k].type = m.slots[k].type
              /\ m2.slots[k].val = IF k = s THEN Nothing ELSE m.slots[k].val
<1> DEFINE S == [m.slots EXCEPT ![s].val = Nothing]
<1>1. m2 = [m EXCEPT !.slots = S]
  BY DEF Clear
<1>2. m.slots \in Seq(SlotRecords) /\ Len(m.slots) \in Nat /\ DOMAIN m.slots = 1..Len(m.slots)
      /\ \A k \in 1..Len(m.slots) : m.slots[k] \in SlotRecords
  BY MachineIs
<1>3. Nothing \in Vals
  BY DEF Vals
<1>4. /\ S \in Seq(SlotRecords) /\ Len(S) = Len(m.slots)
      /\ \A k \in 1..Len(m.slots) : /\ S[k].type = m.slots[k].type
                                    /\ S[k].val = IF k = s THEN Nothing ELSE m.slots[k].val
  BY <1>2, <1>3 DEF SlotRecords
<1> HIDE DEF S
<1>5. m2 = [running |-> m.running, returned |-> m.returned, slots |-> S,
            home |-> m.home, drops |-> m.drops, read |-> m.read, refs |-> m.refs]
  BY <1>1, MachineIs
<1>6. m2 \in Machines
  <2>1. /\ m.running \in BOOLEAN /\ m.returned \in BOOLEAN
        /\ m.slots \in Seq(SlotRecords) /\ m.home \in Seq(Homes)
        /\ m.drops \in SUBSET [slot : Nat, val : Vals, home : Homes]
        /\ m.read \in [got : Vals, due : Vals]
        /\ m.refs \in [RefName -> [slot : Nat, sees : Vals]]
    BY MachineIs
  <2> QED BY <1>4, <1>5, <2>1 DEF Machines, SlotRecords
<1> QED BY <1>4, <1>5, <1>6 DEF SameButMemory

\* The value v goes to the caller.
Hand(m, v) == [m EXCEPT !.home[v] = Caller]

SameButHome(m, m2) ==
  /\ m2 \in Machines
  /\ (m2.running <=> m.running) /\ (m2.returned <=> m.returned)
  /\ m2.slots = m.slots /\ m2.drops = m.drops /\ m2.read = m.read /\ m2.refs = m.refs
  /\ Len(m2.home) = Len(m.home)

\* What handing a value to the caller changes.
LEMMA HandIs ==
  ASSUME NEW m \in Machines, NEW v \in 1..Len(m.home), NEW m2, m2 = Hand(m, v)
  PROVE  /\ SameButHome(m, m2)
         /\ \A w \in 1..Len(m.home) : m2.home[w] = IF w = v THEN Caller ELSE m.home[w]
<1> DEFINE H == [m.home EXCEPT ![v] = Caller]
<1>1. m2 = [m EXCEPT !.home = H]
  BY DEF Hand
<1>2. m.home \in Seq(Homes) /\ Len(m.home) \in Nat /\ DOMAIN m.home = 1..Len(m.home)
  BY MachineIs
<1>3. Caller \in Homes
  BY DEF Homes
<1>4. /\ H \in Seq(Homes) /\ Len(H) = Len(m.home)
      /\ \A w \in 1..Len(m.home) : H[w] = IF w = v THEN Caller ELSE m.home[w]
  BY <1>2, <1>3
<1> HIDE DEF H
<1>5. m2 = [running |-> m.running, returned |-> m.returned, slots |-> m.slots,
            home |-> H, drops |-> m.drops, read |-> m.read, refs |-> m.refs]
  BY <1>1, MachineIs
<1>6. m2 \in Machines
  <2>1. /\ m.running \in BOOLEAN /\ m.returned \in BOOLEAN
        /\ m.slots \in Seq(SlotRecords) /\ m.home \in Seq(Homes)
        /\ m.drops \in SUBSET [slot : Nat, val : Vals, home : Homes]
        /\ m.read \in [got : Vals, due : Vals]
        /\ m.refs \in [RefName -> [slot : Nat, sees : Vals]]
    BY MachineIs
  <2> QED BY <1>4, <1>5, <2>1 DEF Machines, SlotRecords
<1> QED BY <1>4, <1>5, <1>6 DEF SameButHome

\* A change of where values live is a harmless step.
LEMMA HomeStays ==
  ASSUME NEW m, MachineInv(m), NEW m2, SameButHome(m, m2)
  PROVE  Stays(m, m2)
<1>1. m2 \in Machines /\ m2.slots = m.slots /\ SameControl(m, m2) /\ m \in Machines
      /\ m2.refs = m.refs
  BY DEF SameButHome, SameControl, MachineInv
<1>2. DOMAIN m2.home = DOMAIN m.home
  BY <1>1, MachineIs DEF SameButHome
<1>3. MachineInv(m2)
  BY <1>1, <1>2, MachineInvKept
<1> QED BY <1>1, <1>3 DEF Stays, SlotsKept, SameRefSlots

-----------------------------------------------------------------------------
(* The cleanup. *)

\* The slots of the live names are slots.
LEMMA LiveSlots ==
  ASSUME NEW g, NEW bs, NEW m, m \in Machines, NEW hid, GenInv(g, bs, m, hid)
  PROVE  \A n \in g.varStructTypes : n \in Name /\ g.namedValues[n] \in 1..Len(m.slots)
<1>1. g \in Generators /\ Map(g) \in Maps(g, bs) /\ MapsInv(Maps(g, bs), Len(m.slots))
  BY DEF GenInv, Maps
<1>2. g.namedValues \in [Name -> Nat] /\ g.varStructTypes \in SUBSET Name
  BY <1>1, GeneratorIs
<1>3. /\ \A a \in Name : Map(g).namedValues[a] <= Len(m.slots)
      /\ \A a \in Map(g).varStructTypes : Map(g).namedValues[a] # 0
  BY <1>1 DEF MapsInv
<1>4. /\ \A a \in Name : g.namedValues[a] <= Len(m.slots)
      /\ \A a \in g.varStructTypes : g.namedValues[a] # 0
  BY <1>3 DEF Map
<1>5. Len(m.slots) \in Nat
  BY MachineIs
<1> QED BY <1>2, <1>4, <1>5

\* What a cleanup drops are slots the machine has.
LEMMA CleanupSlots ==
  ASSUME NEW g, NEW bs, NEW m, m \in Machines, NEW hid, GenInv(g, bs, m, hid),
         NEW g2, g2.varStructTypes = g.varStructTypes, g2.namedValues = g.namedValues,
         NEW m2, Len(m2.slots) = Len(m.slots), NEW flag
  PROVE  Cleaned(g2, m2, flag) \in SUBSET (1..Len(m2.slots))
<1>1. \A n \in g.varStructTypes : n \in Name /\ g.namedValues[n] \in 1..Len(m.slots)
  BY LiveSlots
<1> QED BY <1>1 DEF Cleaned, LiveNames

-----------------------------------------------------------------------------
(* References, and returns. *)

\* What let r = ref x does, for a variable x of block j.
RefFacts(r, x, j, mutable, e, d, over) ==
  /\ Meant(x, j) /\ Type(x) = "struct" /\ mutable \in BOOLEAN
  /\ Info(checker, x).state # "Moved" /\ ~Info(checker, x).hasMutableBorrow
  /\ mutable => Info(checker, x).borrowCount = 0
  /\ SetAt(checker, e, x, Borrowed(Info(checker, x), mutable)) /\ SameTable(checker, e)
  /\ Records(x, Borrowed(Info(checker, x), mutable))
  /\ Records(r, RefInfo(x, mutable)) /\ d = Sema!trackVariable(e, r, RefInfo(x, mutable))
  /\ IsChecker(d) /\ d.ok /\ over \in {r, NoName} /\ EndStatement(d, over)
  /\ checker' = Given(d, over) /\ SameTable(d, checker')
  /\ finished' = (finished \ {r}) \cup ({over} \ {NoName})
  /\ Len(blocks) > 0 /\ \A i \in 1..Len(blocks) : ~Has(blocks, i, r)
  /\ Declared(blocks, blocks', r, Entry(IF mutable THEN "refmut" ELSE "ref", Slot(x)))

\* What the declaration of a reference requires and changes.
LEMMA RefIs ==
  ASSUME Agree, NEW r \in RefName, NEW x \in Name, Ref(r, x)
  PROVE  /\ \E j, mutable, e, d, over : RefFacts(r, x, j, mutable, e, d, over)
         /\ code' = code /\ hidden' = hidden /\ gap' = gap
         /\ SameButRead(machine, current) /\ MachineInv(current)
         /\ SameButRefs(current, machine') /\ MachineInv(machine')
         /\ machine.running => machine'.refs[r] =
              [slot |-> Slot(x), sees |-> machine.slots[Slot(x)].val]
         /\ \A q \in RefName : q # r => machine'.refs[q] = machine.refs[q]
         /\ ~machine.running => machine' = current
         /\ machine'.read = noRead
<1>1. x \in Names /\ r \in Names /\ Visible(x) /\ Type(x) = "struct" /\ Declaring(r) = {} /\ Open
      /\ code' = code /\ hidden' = hidden /\ gap' = gap
  BY DEF Ref, Names
<1>2. PICK j : Meant(x, j)
  BY <1>1, MeantIs
<1>3. checker.all[x] # 0 /\ IsChecker(checker) /\ checker.ok /\ blocks \in Seq(Blocks)
      /\ DOMAIN blocks = 1..Len(blocks)
  BY <1>2, AgreeIs DEF Meant
<1>4. PICK mutable \in BOOLEAN :
       LET checked == Sema!visitRefDecl(checker, r, x, mutable)
           bound == [slot |-> Slot(x), sees |-> current.slots[Slot(x)].val]
       IN  /\ checked.ok
           /\ \E over \in {r, NoName} :
                /\ EndStatement(checked, over)
                /\ finished' = (finished \ {r}) \cup ({over} \ {NoName})
           /\ machine' = IF current.running
                         THEN [current EXCEPT !.refs[r] = bound] ELSE current
           /\ blocks' = [blocks EXCEPT ![Top].names =
                           Sema!With(@, r, Entry(IF mutable THEN "refmut" ELSE "ref", Slot(x)))]
  BY DEF Ref
<1> DEFINE d == Sema!visitRefDecl(checker, r, x, mutable)
           s == Slot(x)
           v == current.slots[Slot(x)].val
<1>5. PICK over \in {r, NoName} : /\ EndStatement(d, over)
                                  /\ finished' = (finished \ {r}) \cup ({over} \ {NoName})
  BY <1>4
<1>6. d.ok
  BY <1>4
<1>7. machine' = IF current.running THEN Point(current, r, s, v) ELSE current
  BY <1>4 DEF Point
<1>8. blocks' = [blocks EXCEPT ![Len(blocks)].names =
                   Sema!With(@, r, Entry(IF mutable THEN "refmut" ELSE "ref", Slot(x)))]
  BY <1>4 DEF Top
<1> HIDE DEF d
<1>9. /\ Info(checker, x).state # "Moved" /\ ~Info(checker, x).hasMutableBorrow
      /\ mutable => Info(checker, x).borrowCount = 0
      /\ Records(x, Borrowed(Info(checker, x), mutable)) /\ Records(r, RefInfo(x, mutable))
      /\ \E e : /\ SetAt(checker, e, x, Borrowed(Info(checker, x), mutable))
                /\ d = Sema!trackVariable(e, r, RefInfo(x, mutable))
  BY <1>3, <1>6, RefDeclIs DEF d
<1>10. PICK e : /\ SetAt(checker, e, x, Borrowed(Info(checker, x), mutable))
                /\ d = Sema!trackVariable(e, r, RefInfo(x, mutable))
  BY <1>9
<1>11. SameTable(checker, e)
  BY <1>3, <1>10, SetSameTable
<1>12. Len(blocks) > 0 /\ Len(checker.scopes) > 0 /\ \A i \in 1..Len(blocks) : ~Has(blocks, i, r)
  <2>1. Len(blocks) > 0
    BY <1>1, <1>3 DEF Open
  <2>2. checker.all[x] \in 1..Len(checker.scopes)
    BY <1>1, <1>3, InfoIs
  <2>3. Len(checker.scopes) \in Nat
    BY <1>3, CheckerIs
  <2>4. \A i \in 1..Len(blocks) : ~Has(blocks, i, r)
    BY <1>1, <1>3 DEF Declaring, Has
  <2> QED BY <2>1, <2>2, <2>3, <2>4
<1>13. IsChecker(d)
  <2>1. IsChecker(e) /\ Len(e.scopes) > 0
    BY <1>11, <1>12 DEF SameTable
  <2> QED BY <1>1, <1>9, <1>10, <2>1, TrackIs
<1>14. checker' = Given(d, over) /\ SameTable(d, checker')
  <2>1. over \in RefName \cup {NoName}
    BY <1>5
  <2> QED BY <1>5, <1>13, <2>1, EndIs
<1>15. s \in 1..Len(machine.slots) /\ s \in Nat /\ Len(blocks) \in 1..Len(blocks)
  BY <1>2, <1>12 DEF Meant
<1>16. Declared(blocks, blocks', r, Entry(IF mutable THEN "refmut" ELSE "ref", Slot(x)))
  <2> DEFINE en == Entry(IF mutable THEN "refmut" ELSE "ref", Slot(x))
  <2>1. NameFits(r, en)
    BY <1>15, NamesAssumption DEF NameFits, Entry, Entries
  <2> HIDE DEF en
  <2>2. Declared(blocks, blocks', r, en)
    <3>1. blocks' = [blocks EXCEPT ![Len(blocks)].names = Sema!With(@, r, en)]
      BY <1>8 DEF en
    <3>2. ~Has(blocks, Len(blocks), r)
      BY <1>12, <1>15
    <3> QED BY <1>1, <1>3, <1>12, <2>1, <3>1, <3>2, DeclaredIs
  <2> QED BY <2>2 DEF en
<1>17. RefFacts(r, x, j, mutable, e, d, over)
  BY <1>1, <1>2, <1>4, <1>5, <1>6, <1>9, <1>10, <1>11, <1>12, <1>13, <1>14, <1>16 DEF RefFacts
<1>18. SameButRead(machine, current) /\ MachineInv(current) /\ current \in Machines
       /\ current.read = noRead
  BY AgreeIs, CurrentIs DEF MachineInv
<1>19. current.slots = machine.slots /\ current.refs = machine.refs /\ (current.running <=> machine.running)
       /\ v \in Vals
  <2>1. current.slots = machine.slots /\ current.refs = machine.refs /\ (current.running <=> machine.running)
    BY <1>18 DEF SameButRead
  <2>2. s \in 1..Len(current.slots)
    BY <1>15, <2>1
  <2>3. v \in Vals
    BY <1>18, <2>2, MachineIs
  <2> QED BY <2>1, <2>3
<1>20. /\ SameButRefs(current, machine')
       /\ machine.running => machine'.refs[r] = [slot |-> s, sees |-> machine.slots[s].val]
       /\ \A q \in RefName : q # r => machine'.refs[q] = machine.refs[q]
       /\ ~machine.running => machine' = current
  <2>1. CASE machine.running
    <3> DEFINE m2 == Point(current, r, s, v)
    <3>1. v = machine.slots[s].val
      BY <1>19
    <3> HIDE DEF s, v
    <3>2. /\ SameButRefs(current, m2) /\ m2.refs[r] = [slot |-> s, sees |-> v]
          /\ \A p \in RefName : p # r => m2.refs[p] = current.refs[p]
      BY <1>15, <1>18, <1>19, PointIs
    <3>3. machine' = m2
      BY <1>7, <1>19, <2>1
    <3> HIDE DEF m2
    <3> QED BY <1>19, <2>1, <3>1, <3>2, <3>3
  <2>2. CASE ~machine.running
    <3>1. machine' = current
      BY <1>7, <1>19, <2>2
    <3>2. SameButRefs(current, current)
      BY <1>18 DEF SameButRefs
    <3> QED BY <1>19, <2>2, <3>1, <3>2
  <2> QED BY <2>1, <2>2
<1>21. MachineInv(machine') /\ machine'.read = noRead
  <2>1. machine' \in Machines /\ machine'.slots = current.slots /\ machine'.home = current.home
        /\ machine'.read = current.read
    BY <1>20 DEF SameButRefs
  <2> QED BY <1>18, <2>1, MachineInvKept
<1> QED BY <1>1, <1>17, <1>18, <1>20, <1>21

\* What return x does: the value goes to the caller, then the live names are dropped.
ReturnFacts(x, valued, given, cleaned, flag) ==
  /\ SameButRead(machine, valued) /\ MachineInv(valued)
  /\ valued = IF x = NoName THEN current ELSE load(current, Slot(x))
  /\ MachineInv(given) /\ SameButHome(valued, given)
  /\ LET v == IF x = NoName THEN Nothing ELSE machine.slots[Slot(x)].val
     IN  \A w \in 1..Len(machine.home) :
           given.home[w] = IF machine.running /\ w = v THEN Caller ELSE machine.home[w]
  /\ Cleaned(code', given, flag) \in SUBSET (1..Len(given.slots))
  /\ cleaned = callDrop(given, Cleaned(code', given, flag), Plain(code', given))
  /\ MachineInv(cleaned) /\ SameButControl(cleaned, machine') /\ ~machine'.running
  /\ machine'.returned <=> machine.returned \/ machine.running
  /\ flag \in BOOLEAN

\* What a return requires and changes.
LEMMA ReturnIs ==
  ASSUME Agree, NEW x \in Name \cup {NoName}, Return(x)
  PROVE  /\ x # NoName => \E i : Meant(x, i) /\ InfoAt(checker, blocks[i], x).state # "Moved"
         /\ \E valued, given, cleaned, flag : ReturnFacts(x, valued, given, cleaned, flag)
         /\ checker' = checker /\ Len(blocks) > 0 /\ Left(blocks, blocks')
         /\ code' \in Generators /\ Map(code') = Map(code)
         /\ code'.movedVars = code.movedVars \cup ({x} \ {NoName})
         /\ code'.namedValues = code.namedValues /\ code'.varStructTypes = code.varStructTypes
         /\ code'.varOptionalTypes = code.varOptionalTypes
         /\ MachineInv(machine') /\ SlotsKept(machine, machine') /\ SameRefSlots(machine, machine')
         /\ hidden' = hidden /\ finished' = finished /\ gap' = gap
<1>1. /\ IsChecker(checker) /\ code \in Generators /\ machine \in Machines /\ MachineInv(machine)
      /\ blocks \in Seq(Blocks) /\ GenInv(code, blocks, machine, hidden)
  BY AgreeIs DEF Agree, Base
<1>2. x # NoName => x \in Name /\ x \in Names /\ Visible(x) /\ \E i : Meant(x, i)
  <2>1. x # NoName => x \in Name /\ x \in Names /\ Visible(x)
    BY DEF Return, Names
  <2> QED BY <2>1, MeantIs
<1>3. hidden' = hidden /\ finished' = finished /\ gap' = gap /\ blocks' = [blocks EXCEPT ![Len(blocks)].left = TRUE]
      /\ blocks # <<>>
  BY DEF Return, Open, Top
<1>4. Len(blocks) > 0 /\ Left(blocks, blocks')
  <2> DEFINE bs2 == [blocks EXCEPT ![Len(blocks)].left = TRUE]
  <2>1. Len(blocks) > 0
    BY <1>1, <1>3
  <2>2. Left(blocks, bs2)
    BY <1>1, <2>1, LeftIs
  <2> HIDE DEF bs2
  <2>3. blocks' = bs2
    BY <1>3 DEF bs2
  <2> QED BY <2>1, <2>2, <2>3
<1>5. checker' = checker
      /\ (x # NoName => \E i : Meant(x, i) /\ InfoAt(checker, blocks[i], x).state # "Moved")
  <2>1. CASE x = NoName
    BY <2>1 DEF Return
  <2>2. CASE x # NoName
    <3>1. PICK i : Meant(x, i)
      BY <1>2, <2>2
    <3> DEFINE c == Sema!checkUse(checker, x)
    <3>2. checker' = c /\ checker'.ok
      BY <2>2 DEF Return
    <3>3. c.ok
      BY <3>2
    <3>4. c = checker /\ Info(checker, x).state # "Moved"
      BY <1>1, <1>2, <2>2, <3>1, <3>3, CheckUseIs, SMTT(60) DEF Meant
    <3> QED BY <3>1, <3>2, <3>4 DEF Meant
  <2> QED BY <2>1, <2>2
<1> DEFINE g == [code EXCEPT !.movedVars = @ \cup ({x} \ {NoName})]
           valued == IF x = NoName THEN current ELSE load(current, Slot(x))
           v == IF x = NoName THEN Nothing ELSE current.slots[Slot(x)].val
           given == IF valued.running /\ v \in made(valued)
                    THEN [valued EXCEPT !.home[v] = Caller] ELSE valued
<1>6. PICK flag \in BOOLEAN :
        machine' = [emitScopeCleanup(g, given, flag) EXCEPT
                      !.running = FALSE, !.returned = @ \/ given.running]
  BY ZenonT(60) DEF Return
<1>7. code' = g
  BY DEF Return
<1>8. /\ code' \in Generators /\ Map(code') = Map(code)
      /\ code'.movedVars = code.movedVars \cup ({x} \ {NoName})
      /\ code'.namedValues = code.namedValues /\ code'.varStructTypes = code.varStructTypes
      /\ code'.varOptionalTypes = code.varOptionalTypes
  <2> DEFINE M == code.movedVars \cup ({x} \ {NoName})
             h == [code EXCEPT !.movedVars = M]
  <2>1. g = h
    OBVIOUS
  <2>2. M \in SUBSET Name
    BY <1>1, <1>2, GeneratorIs
  <2> HIDE DEF M
  <2>3. /\ h \in Generators /\ h.movedVars = M /\ Map(h) = Map(code)
        /\ h.namedValues = code.namedValues /\ h.varStructTypes = code.varStructTypes
        /\ h.varOptionalTypes = code.varOptionalTypes
    BY <1>1, <2>2, MovedMade, ZenonT(60)
  <2> HIDE DEF h, g
  <2> QED BY <1>7, <2>1, <2>3 DEF M
<1> HIDE DEF g
<1>9. SameButRead(machine, current) /\ MachineInv(current) /\ current.read = noRead
  BY <1>1, CurrentIs
<1>10. current.slots = machine.slots /\ current.home = machine.home
       /\ (current.running <=> machine.running)
  BY <1>9 DEF SameButRead
<1>11. /\ SameButRead(machine, valued) /\ MachineInv(valued)
       /\ valued = IF x = NoName THEN current ELSE load(current, Slot(x))
  <2>1. CASE x = NoName
    BY <1>9, <2>1
  <2>2. CASE x # NoName
    <3>1. Slot(x) \in 1..Len(current.slots)
      BY <1>2, <1>10, <2>2 DEF Meant
    <3>2. SameButRead(current, load(current, Slot(x))) /\ MachineInv(load(current, Slot(x)))
      BY <1>9, <3>1, LoadStays
    <3>3. SameButRead(machine, load(current, Slot(x)))
      BY <1>9, <3>2 DEF SameButRead
    <3> QED BY <2>2, <3>2, <3>3
  <2> QED BY <2>1, <2>2
<1>12. v = IF x = NoName THEN Nothing ELSE machine.slots[Slot(x)].val
  BY <1>10
<1> HIDE DEF valued, v
<1>13. /\ valued \in Machines /\ valued.home = machine.home /\ valued.slots = machine.slots
       /\ (valued.running <=> machine.running) /\ (valued.returned <=> machine.returned)
       /\ valued.refs = machine.refs
       /\ DOMAIN machine.home = 1..Len(machine.home) /\ Len(machine.home) \in Nat
  BY <1>1, <1>11, MachineIs DEF SameButRead
<1>14. /\ SameButHome(valued, given) /\ MachineInv(given)
       /\ \A w \in 1..Len(machine.home) :
            given.home[w] = IF machine.running /\ w = v THEN Caller ELSE machine.home[w]
  <2>1. CASE machine.running /\ v \in 1..Len(machine.home)
    <3> DEFINE m2 == Hand(valued, v)
    <3>1. given = m2
      BY <1>13, <2>1 DEF made, Hand
    <3>2. v \in 1..Len(valued.home)
      BY <1>13, <2>1
    <3>3. /\ SameButHome(valued, m2)
          /\ \A w \in 1..Len(valued.home) : m2.home[w] = IF w = v THEN Caller ELSE valued.home[w]
      BY <1>13, <3>2, HandIs
    <3> HIDE DEF m2, given
    <3>4. MachineInv(given)
      BY <1>11, <3>1, <3>3, HomeStays DEF Stays
    <3> QED BY <1>13, <2>1, <3>1, <3>3, <3>4
  <2>2. CASE ~(machine.running /\ v \in 1..Len(machine.home))
    <3>1. given = valued
      BY <1>13, <2>2 DEF made
    <3> HIDE DEF given
    <3>2. SameButHome(valued, given)
      BY <1>13, <3>1 DEF SameButHome
    <3> QED BY <1>11, <1>13, <2>2, <3>1, <3>2
  <2> QED BY <2>1, <2>2
<1> HIDE DEF given
<1>15. /\ given.slots = machine.slots /\ (given.running <=> machine.running)
       /\ (given.returned <=> machine.returned) /\ given.refs = machine.refs /\ given \in Machines
  BY <1>13, <1>14 DEF SameButHome
<1> DEFINE S == Cleaned(code', given, flag)
           cleaned == callDrop(given, S, Plain(code', given))
<1>16. S \in SUBSET (1..Len(given.slots))
  <2>1. Len(given.slots) = Len(machine.slots)
    BY <1>15
  <2> QED BY <1>1, <1>8, <2>1, CleanupSlots
<1>17. machine' = Stop(cleaned, given.running)
  BY <1>6, <1>7, CleanupIs DEF Stop
<1> HIDE DEF S
<1>18. Stays(given, cleaned) /\ cleaned.refs = given.refs /\ cleaned.slots = given.slots
  BY <1>14, <1>16, DropStays
<1>19. cleaned = callDrop(given, S, Plain(code', given))
  OBVIOUS
<1> HIDE DEF cleaned
<1>20. MachineInv(cleaned) /\ cleaned \in Machines /\ (cleaned.returned <=> machine.returned)
  BY <1>15, <1>18 DEF Stays, SameControl, MachineInv
<1> DEFINE m2 == Stop(cleaned, given.running)
<1>21. SameButControl(cleaned, m2) /\ ~m2.running
       /\ (m2.returned <=> cleaned.returned \/ given.running)
  <2>1. given.running \in BOOLEAN
    BY <1>15, MachineIs
  <2> QED BY <1>20, <2>1, StopIs
<1> HIDE DEF m2
<1>22. SameButControl(cleaned, machine') /\ ~machine'.running
       /\ (machine'.returned <=> machine.returned \/ machine.running)
  BY <1>15, <1>17, <1>20, <1>21 DEF m2
<1>23. MachineInv(machine') /\ SlotsKept(machine, machine') /\ SameRefSlots(machine, machine')
  <2>1. machine' \in Machines /\ machine'.slots = cleaned.slots /\ machine'.home = cleaned.home
        /\ machine'.refs = cleaned.refs
    BY <1>22 DEF SameButControl
  <2>2. MachineInv(machine')
    BY <1>20, <2>1, MachineInvKept
  <2> QED BY <1>15, <1>18, <2>1, <2>2 DEF SlotsKept, SameRefSlots
<1>24. ReturnFacts(x, valued, given, cleaned, flag)
  BY <1>11, <1>12, <1>14, <1>16, <1>19, <1>20, <1>22 DEF ReturnFacts, S
<1> QED BY <1>3, <1>4, <1>5, <1>8, <1>23, <1>24

-----------------------------------------------------------------------------
(* The beginnings of blocks. *)

\* The empty generator is a state of the generator.
LEMMA GeneratorTyped == Generator \in Generators
BY DEF Generator, Generators

\* The empty block of an if, or of its else.
LEMMA PlainBlock ==
  ASSUME NEW kind \in {"body", "then", "else"}, NEW s \in Nat, NEW reached,
         reached \in BOOLEAN, NEW taken, taken \in BOOLEAN,
         NEW b, b = Block(kind, Sema!NoEntries, s, reached, taken, NoName, Generator)
  PROVE  /\ b \in Blocks /\ b.kind = kind /\ DOMAIN b.names = {} /\ b.scope = s
         /\ (b.reached <=> reached) /\ (b.taken <=> taken) /\ b.binding = NoName /\ ~b.left
         /\ b.saved = Generator
<1> DEFINE N == Sema!NoEntries
<1>1. DOMAIN N = {} /\ N = [n \in DOMAIN N |-> N[n]]
  BY DEF Sema!NoEntries
<1> HIDE DEF N
<1>2. N \in NameMaps
  <2>1. \A n \in DOMAIN N : N[n] \in Entries
    BY <1>1
  <2> QED BY <1>1, <2>1, NameMapMade
<1>3. b = [kind |-> kind, names |-> N, scope |-> s, reached |-> reached, taken |-> taken,
           left |-> FALSE, binding |-> NoName, saved |-> Generator]
  BY DEF Block, N
<1>4. /\ b.kind = kind /\ b.names = N /\ b.scope = s /\ b.reached = reached /\ b.taken = taken
      /\ b.left = FALSE /\ b.binding = NoName /\ b.saved = Generator
  BY <1>3
<1>5. b = [kind |-> b.kind, names |-> b.names, scope |-> b.scope, reached |-> b.reached,
           taken |-> b.taken, left |-> b.left, binding |-> b.binding, saved |-> b.saved]
  BY <1>3, <1>4
<1>6. b \in Blocks
  <2>1. b.kind \in Kinds /\ b.kind # "iflet"
    BY <1>4 DEF Kinds
  <2>2. b.saved \in Generators
    BY <1>4, GeneratorTyped
  <2>3. b.names \in NameMaps /\ b.scope \in Nat /\ b.reached \in BOOLEAN /\ b.taken \in BOOLEAN
        /\ b.left \in BOOLEAN /\ b.binding \in Name \cup {NoName}
    BY <1>2, <1>4
  <2>4. \A n \in DOMAIN b.names : NameFits(n, b.names[n])
    BY <1>1, <1>4
  <2> QED BY <1>4, <1>5, <2>1, <2>2, <2>3, <2>4, BlockMade
<1> QED BY <1>1, <1>4, <1>6

IfFacts(b) ==
  /\ b.kind = "then" /\ DOMAIN b.names = {} /\ b.scope = Len(checker.scopes) + 1
  /\ (b.reached <=> machine.running) /\ b.binding = NoName /\ ~b.left
  /\ Pushed(blocks, blocks', b)
  /\ machine'.running <=> machine.running /\ b.taken

\* What the start of an if changes.
LEMMA IfIs ==
  ASSUME Agree, If
  PROVE  /\ \E b : IfFacts(b)
         /\ checker' = Sema!pushOwnershipScope(checker) /\ code' = code /\ Len(blocks) > 0
         /\ SameButRead(machine, current) /\ SameButControl(current, machine')
         /\ MachineInv(machine') /\ SlotsKept(machine, machine') /\ SameRefSlots(machine, machine')
         /\ machine'.returned <=> machine.returned
         /\ hidden' = hidden /\ finished' = finished /\ gap' = Leaks(~machine'.running)
         /\ machine'.read = noRead
<1>1. PICK taken \in BOOLEAN :
       /\ machine' = [current EXCEPT !.running = @ /\ taken]
       /\ blocks' = Append(blocks, Block("then", Sema!NoEntries, Len(checker.scopes) + 1,
                                         current.running, taken, NoName, Generator))
       /\ gap' = Leaks(~machine'.running)
  BY DEF If
<1>2. /\ checker' = Sema!pushOwnershipScope(checker) /\ code' = code /\ hidden' = hidden
      /\ finished' = finished /\ blocks # <<>>
  BY DEF If, Open
<1>3. /\ IsChecker(checker) /\ machine \in Machines /\ MachineInv(machine) /\ blocks \in Seq(Blocks)
  BY AgreeIs
<1>4. /\ SameButRead(machine, current) /\ MachineInv(current) /\ current \in Machines
      /\ current.read = noRead
  BY <1>3, CurrentIs DEF MachineInv
<1>5. (current.running <=> machine.running) /\ (current.returned <=> machine.returned)
      /\ current.slots = machine.slots /\ current.refs = machine.refs /\ current.running \in BOOLEAN
  BY <1>4, MachineIs DEF SameButRead
<1> DEFINE b == Block("then", Sema!NoEntries, Len(checker.scopes) + 1,
                      current.running, taken, NoName, Generator)
<1>6. Len(checker.scopes) + 1 \in Nat
  BY <1>3, CheckerIs
<1>7. b = Block("then", Sema!NoEntries, Len(checker.scopes) + 1,
                current.running, taken, NoName, Generator)
  OBVIOUS
<1> HIDE DEF b
<1>8. /\ b \in Blocks /\ b.kind = "then" /\ DOMAIN b.names = {} /\ b.scope = Len(checker.scopes) + 1
      /\ (b.reached <=> current.running) /\ (b.taken <=> taken) /\ b.binding = NoName /\ ~b.left
  BY <1>5, <1>6, <1>7, PlainBlock
<1>9. Pushed(blocks, blocks', b) /\ Len(blocks) > 0
  <2> DEFINE bs2 == Append(blocks, b)
  <2>1. Pushed(blocks, bs2, b)
    BY <1>3, <1>8, PushedIs
  <2> HIDE DEF bs2
  <2>2. blocks' = bs2
    BY <1>1, <1>7 DEF bs2
  <2>3. Len(blocks) > 0
    BY <1>2, <1>3
  <2> QED BY <2>1, <2>2, <2>3
<1> DEFINE p == current.running /\ taken
           m2 == Run(current, p)
<1>10. SameButControl(current, m2) /\ (m2.running <=> p) /\ (m2.returned <=> current.returned)
  <2>1. p \in BOOLEAN
    OBVIOUS
  <2> HIDE DEF p
  <2> QED BY <1>4, <2>1, RunIs
<1>11. MachineInv(m2) /\ SlotsKept(current, m2) /\ SameRefSlots(current, m2)
  <2> HIDE DEF m2
  <2> QED BY <1>4, <1>10, ControlMachine
<1>12. machine' = m2
  BY <1>1 DEF Run
<1> HIDE DEF m2
<1>13. SlotsKept(machine, machine') /\ SameRefSlots(machine, machine')
  BY <1>5, <1>11, <1>12 DEF SlotsKept, SameRefSlots
<1>14. IfFacts(b)
  BY <1>5, <1>8, <1>9, <1>10, <1>12 DEF IfFacts
<1>15. machine'.read = noRead
  BY <1>4, <1>10, <1>12 DEF SameButControl
<1> QED BY <1>1, <1>2, <1>4, <1>5, <1>9, <1>10, <1>11, <1>12, <1>13, <1>14, <1>15

\* The maps that are saved at an if let on x.
Saved(g, x) == [g EXCEPT !.movedVars = @ \cup {x}]

\* What an if let saves of the generator's maps.
LEMMA SavedIs ==
  ASSUME NEW g \in Generators, NEW x \in Name,
         NEW h, h = Saved(g, x)
  PROVE  /\ h \in Generators /\ Map(h) = Map(g)
         /\ h.namedValues = g.namedValues /\ h.varStructTypes = g.varStructTypes
         /\ h.movedVars = g.movedVars \cup {x}
<1>1. g.movedVars \cup {x} \in SUBSET Name
  BY GeneratorIs
<1>2. h = [namedValues |-> g.namedValues, varStructTypes |-> g.varStructTypes,
           varOptionalTypes |-> g.varOptionalTypes, movedVars |-> g.movedVars \cup {x}]
  BY GeneratorIs, SMTT(60) DEF Saved
<1>3. h \in Generators
  BY <1>1, <1>2, GeneratorIs, GeneratorMade
<1> QED BY <1>2, <1>3 DEF Map

\* The block of an if let, with its binding.
LetNames(v, slot) == [n \in {v} |-> Entry("struct", slot)]

\* The block of an if let is a block.
LEMMA LetBlock ==
  ASSUME NEW v \in Name, NEW slot \in Nat,
         NEW b, b.kind = "iflet", b.names = LetNames(v, slot), b.binding = v,
         b.scope \in Nat, b.reached \in BOOLEAN, b.taken \in BOOLEAN, b.left = FALSE,
         b.saved \in Generators,
         b = [kind |-> b.kind, names |-> b.names, scope |-> b.scope, reached |-> b.reached,
              taken |-> b.taken, left |-> b.left, binding |-> b.binding, saved |-> b.saved]
  PROVE  b \in Blocks /\ DOMAIN b.names = {v} /\ b.names[v] = Entry("struct", slot)
<1> DEFINE N == LetNames(v, slot)
<1>1. DOMAIN N = {v} /\ N = [n \in DOMAIN N |-> N[n]] /\ N[v] = Entry("struct", slot)
  BY DEF LetNames
<1>2. N[v] \in Entries /\ N[v].type = "struct"
  BY <1>1 DEF Entries, SlotTypes, Entry
<1> HIDE DEF N
<1>3. N \in NameMaps
  <2>1. \A n \in DOMAIN N : N[n] \in Entries
    BY <1>1, <1>2
  <2>2. DOMAIN N \subseteq Names
    BY <1>1 DEF Names
  <2> QED BY <1>1, <2>1, <2>2, NameMapMade
<1>4. b.names = N
  BY DEF N
<1>5. b \in Blocks
  <2>1. b.kind \in Kinds /\ b.kind = "iflet"
    BY DEF Kinds
  <2>2. b.names \in NameMaps /\ b.left \in BOOLEAN /\ b.binding \in Name \cup {NoName}
    BY <1>3, <1>4
  <2>3. \A n \in DOMAIN b.names : NameFits(n, b.names[n])
    BY <1>1, <1>2, <1>4, NamesAssumption DEF NameFits, SlotTypes
  <2>4. b.binding \in DOMAIN b.names /\ b.binding \in Name /\ b.names[b.binding].type = "struct"
    BY <1>1, <1>2, <1>4
  <2> QED BY <2>1, <2>2, <2>3, <2>4, BlockMade
<1> QED BY <1>1, <1>4, <1>5

\* What if let v = x does to the checker, the generator and the blocks.
IfLetFacts(v, x, i, e, b) ==
  /\ Meant(x, i) /\ Type(x) = "optional"
  /\ e.ok /\ SetAt(checker, e, x, [Info(checker, x) EXCEPT !.state = "Moved"])
  /\ Records(x, [Info(checker, x) EXCEPT !.state = "Moved"])
  /\ Info(checker, x).state # "Moved" /\ Info(checker, x).borrowCount = 0
  /\ ~Info(checker, x).hasMutableBorrow /\ SameTable(checker, e)
  /\ Entered(checker, checker', b)
  /\ \A k \in 1..Len(checker.scopes) : checker'.scopes[k] = e.scopes[k]
  /\ InfoAt(checker', b, v) = Sema!OwnershipInfo(FALSE, TRUE)
  /\ b.kind = "iflet" /\ b.binding = v /\ ~b.left /\ (b.reached <=> machine.running)
  /\ DOMAIN b.names = {v} /\ b.names[v] = Entry("struct", Len(machine.slots) + 1)
  /\ b.taken <=> machine.slots[Slot(x)].val \notin {Nothing, Garbage}
  /\ b.saved \in Generators /\ Map(b.saved) = Map(code)
  /\ b.saved.namedValues = code.namedValues /\ b.saved.varStructTypes = code.varStructTypes
  /\ b.saved.movedVars = code.movedVars \cup {x}
  /\ Pushed(blocks, blocks', b)
  /\ NewMap(code, code', v, Len(machine.slots) + 1)
  /\ code'.varStructTypes = code.varStructTypes \cup {v}
  /\ code'.varOptionalTypes = code.varOptionalTypes
  /\ code'.movedVars = (code.movedVars \cup {x}) \ {v}

\* What it does to the machine.
TakeFacts(x, taken, loaded, bound) ==
  /\ loaded = load(current, Slot(x)) /\ SameButRead(machine, loaded) /\ MachineInv(loaded)
  /\ Grown(loaded, bound, "struct")
  /\ machine.running /\ taken =>
       LET val == machine.slots[Slot(x)].val
           stored == store(bound, Len(machine.slots) + 1, val)
       IN  /\ val \in DOMAIN machine.home
           /\ MachineInv(stored) /\ machine' = Clear(stored, Slot(x))
  /\ ~(machine.running /\ taken) => machine' = Run(bound, FALSE)
  /\ MachineInv(machine') /\ SlotAdded(machine, machine', "struct")
  /\ machine'.refs = machine.refs
  /\ (machine'.running <=> machine.running /\ taken) /\ (machine'.returned <=> machine.returned)

\* What the start of an if let does to the checker, the generator and the blocks.
LEMMA IfLetHead ==
  ASSUME Agree, NEW v \in Name, NEW x \in Name, IfLet(v, x)
  PROVE  /\ \E i, e, b : IfLetFacts(v, x, i, e, b)
         /\ Len(blocks) > 0 /\ hidden' = hidden \ {v} /\ finished' = finished
         /\ gap' = Leaks(Slot(v) # 0 \/ ~machine'.running)
<1> DEFINE val == current.slots[Slot(x)].val
           taken == val \notin {Nothing, Garbage}
           checked == Sema!pushOwnershipScope(Sema!visitIfLetHead(checker, v, x))
           slot == Len(current.slots) + 1
           saved == Saved(code, x)
           b == Block("iflet", LetNames(v, slot), Len(checked.scopes),
                      current.running, taken, v, saved)
<1>1. /\ Visible(x) /\ Type(x) = "optional" /\ blocks # <<>> /\ hidden' = hidden \ {v}
      /\ finished' = finished /\ gap' = Leaks(Slot(v) # 0 \/ ~machine'.running)
      /\ checked.ok /\ checker' = checked /\ code' = bindPayload(code, v, x, slot)
      /\ blocks' = Append(blocks, b)
  BY SMTT(60) DEF IfLet, Open, LetNames, Saved
<1>2. x \in Names /\ v \in Names
  BY DEF Names
<1>3. PICK i : Meant(x, i)
  BY <1>1, <1>2, MeantIs
<1>4. /\ IsChecker(checker) /\ checker.ok /\ code \in Generators /\ machine \in Machines
      /\ MachineInv(machine) /\ blocks \in Seq(Blocks) /\ checker.all[x] # 0
  BY <1>3, AgreeIs DEF Meant
<1>5. SameButRead(machine, current)
  BY <1>4, CurrentIs
<1>6. current.slots = machine.slots /\ (current.running <=> machine.running)
      /\ current.running \in BOOLEAN
  BY <1>5, MachineIs DEF SameButRead
<1>7. slot = Len(machine.slots) + 1 /\ slot \in Nat
  BY <1>4, <1>6, MachineIs
<1>8. val = machine.slots[Slot(x)].val
  BY <1>6
<1> HIDE DEF slot, val
<1> DEFINE e == Sema!visitValue(checker, x)
<1>9. IsChecker(e) /\ (SameTable(checker, e) \/ ~e.ok)
  <2> HIDE DEF e
  <2>1. e = Sema!visitValue(checker, x)
    BY DEF e
  <2>2. x \in Name \cup {NoName} /\ (x # NoName => checker.all[x] # 0)
    BY <1>4
  <2> QED BY <1>4, <2>1, <2>2, VisitValueTyped
<1>10. /\ saved \in Generators /\ Map(saved) = Map(code)
       /\ saved.namedValues = code.namedValues /\ saved.varStructTypes = code.varStructTypes
       /\ saved.movedVars = code.movedVars \cup {x}
  <2>1. saved = Saved(code, x)
    OBVIOUS
  <2> HIDE DEF saved
  <2> QED BY <1>4, <2>1, SavedIs
<1> HIDE DEF saved
<1>11. /\ NewMap(code, code', v, slot)
       /\ code'.varStructTypes = code.varStructTypes \cup {v}
       /\ code'.varOptionalTypes = code.varOptionalTypes
       /\ code'.movedVars = (code.movedVars \cup {x}) \ {v}
  <2> DEFINE g2 == bindPayload(code, v, x, slot)
  <2>1. /\ NewMap(code, g2, v, slot)
        /\ g2.varStructTypes = code.varStructTypes \cup {v}
        /\ g2.varOptionalTypes = code.varOptionalTypes
        /\ g2.movedVars = (code.movedVars \cup {x}) \ {v}
    <3> HIDE DEF g2
    <3>1. g2 = bindPayload(code, v, x, slot)
      BY DEF g2
    <3> QED BY <1>4, <1>7, <3>1, BoundCodeIs
  <2> HIDE DEF g2
  <2>2. code' = g2
    BY <1>1 DEF g2
  <2> QED BY <2>1, <2>2
<1>12. IsChecker(checked)
  <2> DEFINE d == Sema!visitIfLetHead(checker, v, x)
             p == Sema!pushOwnershipScope(e)
  <2>1. IsChecker(p) /\ Len(p.scopes) > 0
    <3>1. p = Sema!pushOwnershipScope(e)
      OBVIOUS
    <3> HIDE DEF p, e
    <3>2. IsChecker(p) /\ Len(p.scopes) = Len(e.scopes) + 1
      BY <1>9, <3>1, PushScopeIs
    <3>3. Len(e.scopes) \in Nat
      BY <1>9, CheckerIs
    <3> QED BY <3>2, <3>3
  <2>2. d = Sema!trackVariable(p, v, Sema!OwnershipInfo(FALSE, TRUE))
    BY DEF Sema!visitIfLetHead
  <2>3. Records(v, Sema!OwnershipInfo(FALSE, TRUE))
    BY OwnershipInfoIs
  <2> HIDE DEF d, p
  <2>4. IsChecker(d)
    BY <1>2, <2>1, <2>2, <2>3, TrackIs
  <2>5. checked = Sema!pushOwnershipScope(d)
    BY DEF d
  <2> HIDE DEF checked
  <2> QED BY <2>4, <2>5, PushScopeIs
<1>13. checked = Sema!pushOwnershipScope(Sema!visitIfLetHead(checker, v, x)) /\ checked.ok
  BY <1>1
<1> HIDE DEF checked
<1>14. Len(checked.scopes) \in Nat
  BY <1>12, CheckerIs
<1>15. b = Block("iflet", LetNames(v, slot), Len(checked.scopes),
                 current.running, taken, v, saved)
  OBVIOUS
<1>16. taken \in BOOLEAN
  OBVIOUS
<1> HIDE DEF b, taken
<1>17. /\ b \in Blocks /\ b.kind = "iflet" /\ b.scope = Len(checked.scopes) /\ b.binding = v
       /\ DOMAIN b.names = {v} /\ b.names[v] = Entry("struct", slot)
       /\ b.reached = current.running /\ b.taken = taken /\ b.left = FALSE /\ b.saved = saved
  <2>1. /\ b.kind = "iflet" /\ b.scope = Len(checked.scopes) /\ b.binding = v
        /\ b.names = LetNames(v, slot)
        /\ b.reached = current.running /\ b.taken = taken /\ b.left = FALSE /\ b.saved = saved
    BY <1>15 DEF Block
  <2>2. b = [kind |-> b.kind, names |-> b.names, scope |-> b.scope, reached |-> b.reached,
             taken |-> b.taken, left |-> b.left, binding |-> b.binding, saved |-> b.saved]
    BY <1>15, <2>1 DEF Block
  <2>3. b.scope \in Nat /\ b.saved \in Generators
    BY <1>10, <1>14, <2>1
  <2>4. b.reached \in BOOLEAN /\ b.taken \in BOOLEAN
    BY <1>6, <1>16, <2>1
  <2>5. b \in Blocks /\ DOMAIN b.names = {v} /\ b.names[v] = Entry("struct", slot)
    BY <1>7, <2>1, <2>2, <2>3, <2>4, LetBlock, ZenonT(60)
  <2> QED BY <2>1, <2>5
<1>18. /\ e.ok /\ Entered(checker, checked, b)
       /\ \A k \in 1..Len(checker.scopes) : checked.scopes[k] = e.scopes[k]
       /\ InfoAt(checked, b, v) = Sema!OwnershipInfo(FALSE, TRUE)
  <2>2. e = Sema!visitValue(checker, x)
    OBVIOUS
  <2> HIDE DEF e
  <2>3. LetEntered(checker, e, checked, b, v)
    BY <1>4, <1>9, <1>13, <1>17, <2>2, IfLetHeadIs
  <2> QED BY <2>3 DEF LetEntered
<1>19. /\ Info(checker, x).state # "Moved" /\ Info(checker, x).borrowCount = 0
       /\ ~Info(checker, x).hasMutableBorrow
       /\ SetAt(checker, e, x, [Info(checker, x) EXCEPT !.state = "Moved"])
       /\ Records(x, [Info(checker, x) EXCEPT !.state = "Moved"])
  <2>1. e = Sema!visitValue(checker, x)
    OBVIOUS
  <2> HIDE DEF e
  <2> QED BY <1>4, <1>18, <2>1, VisitValueIs
<1>20. Pushed(blocks, blocks', b) /\ Len(blocks) > 0
  <2> DEFINE bs2 == Append(blocks, b)
  <2>1. Pushed(blocks, bs2, b)
    BY <1>4, <1>17, PushedIs
  <2> HIDE DEF bs2
  <2>2. blocks' = bs2
    BY <1>1, <1>15 DEF bs2, b
  <2>3. Len(blocks) > 0
    BY <1>1, <1>4
  <2> QED BY <2>1, <2>2, <2>3
<1>21. SameTable(checker, e)
  BY <1>9, <1>18
<1>22. checker' = checked
  BY <1>1
<1>23. b.taken <=> machine.slots[Slot(x)].val \notin {Nothing, Garbage}
  BY <1>8, <1>17 DEF taken
<1>24. IfLetFacts(v, x, i, e, b)
  <2> HIDE DEF e
  <2> QED BY <1>1, <1>3, <1>6, <1>7, <1>10, <1>11, <1>17, <1>18, <1>19, <1>20, <1>21, <1>22, <1>23
      DEF IfLetFacts
<1> QED BY <1>1, <1>20, <1>24

\* What the start of an if let does to the machine: the value is taken out of the optional.
LEMMA IfLetMachine ==
  ASSUME Agree, NEW v \in Name, NEW x \in Name, IfLet(v, x), NEW i, Meant(x, i), Type(x) = "optional"
  PROVE  \E loaded, bound :
           TakeFacts(x, machine.slots[Slot(x)].val \notin {Nothing, Garbage}, loaded, bound)
<1> DEFINE val == current.slots[Slot(x)].val
           taken == val \notin {Nothing, Garbage}
           slot == Len(current.slots) + 1
           loaded == load(current, Slot(x))
           bound == createEntryBlockAlloca(loaded, "struct")
           stored == store(bound, slot, val)
<1>1. machine' = IF current.running /\ taken THEN Clear(stored, Slot(x)) ELSE Run(bound, FALSE)
  BY SMTT(60) DEF IfLet, Clear, Run
<1>2. machine \in Machines /\ MachineInv(machine)
  BY AgreeIs
<1>3. SameButRead(machine, current) /\ MachineInv(current) /\ current \in Machines
  BY <1>2, CurrentIs DEF MachineInv
<1>4. current.slots = machine.slots /\ (current.running <=> machine.running)
      /\ current.home = machine.home /\ current.refs = machine.refs
      /\ (current.returned <=> machine.returned)
  BY <1>3, MachineIs DEF SameButRead
<1>5. slot = Len(machine.slots) + 1 /\ slot \in Nat /\ Len(machine.slots) \in Nat
      /\ Slot(x) \in 1..Len(machine.slots)
      /\ machine.slots[Slot(x)].type = "optional"
  BY <1>2, <1>4, MachineIs DEF Meant
<1>6. val = machine.slots[Slot(x)].val
  BY <1>4
<1>7. val \in DOMAIN machine.home \cup {Nothing, Garbage}
  BY <1>2, <1>5, <1>6 DEF MachineInv
<1> HIDE DEF val, slot
<1>8. SameButRead(current, loaded) /\ MachineInv(loaded)
  BY <1>3, <1>4, <1>5, LoadStays
<1>9. SameButRead(machine, loaded)
  BY <1>3, <1>8 DEF SameButRead
<1>10. loaded = load(current, Slot(x))
  OBVIOUS
<1> HIDE DEF loaded
<1>11. Grown(loaded, bound, "struct")
  BY <1>8, AllocaGrows DEF SlotTypes
<1> HIDE DEF bound
<1>12. loaded.slots = machine.slots /\ loaded.home = machine.home /\ loaded.refs = machine.refs
       /\ (loaded.running <=> machine.running) /\ (loaded.returned <=> machine.returned)
  BY <1>9 DEF SameButRead
<1>13. /\ MachineInv(bound) /\ bound \in Machines /\ bound.home = machine.home
       /\ bound.refs = machine.refs /\ (bound.running <=> machine.running)
       /\ (bound.returned <=> machine.returned)
       /\ Len(bound.slots) = slot
       /\ \A s \in 1..Len(machine.slots) : bound.slots[s] = machine.slots[s]
       /\ bound.slots[slot] = [type |-> "struct", val |-> Garbage]
  BY <1>5, <1>11, <1>12 DEF Grown, MachineInv, SameControl
<1>14. slot \in 1..Len(bound.slots)
  BY <1>5, <1>13
<1>15. machine.running /\ taken =>
         /\ val \in DOMAIN machine.home
         /\ MachineInv(stored) /\ machine' = Clear(stored, Slot(x))
         /\ MachineInv(machine') /\ SlotAdded(machine, machine', "struct")
         /\ machine'.refs = machine.refs
         /\ machine'.running /\ (machine'.returned <=> machine.returned)
  <2> SUFFICES ASSUME machine.running, taken
               PROVE  /\ val \in DOMAIN machine.home
                      /\ MachineInv(stored) /\ machine' = Clear(stored, Slot(x))
                      /\ MachineInv(machine') /\ SlotAdded(machine, machine', "struct")
                      /\ machine'.refs = machine.refs
                      /\ machine'.running /\ (machine'.returned <=> machine.returned)
    OBVIOUS
  <2>1. val \in DOMAIN machine.home
    BY <1>7
  <2>2. Storable(bound, slot, val)
    <3>1. DOMAIN bound.home = 1..Len(bound.home) /\ Nothing \notin DOMAIN bound.home
          /\ Len(bound.home) \in Nat
      BY <1>13, MachineIs
    <3>2. val \in 1..Len(bound.home)
      BY <1>13, <2>1, <3>1
    <3>3. val \in 1..Len(bound.home) + 1 /\ val # Nothing
      BY <3>1, <3>2
    <3> QED BY <3>3 DEF Storable
  <2>3. Stays(bound, stored) /\ stored.refs = bound.refs
    BY <1>13, <1>14, <2>2, StoreStays
  <2>4. machine' = Clear(stored, Slot(x))
    BY <1>1, <1>4
  <2> HIDE DEF stored
  <2>5. /\ stored \in Machines /\ MachineInv(stored) /\ Len(stored.slots) = slot
        /\ \A s \in 1..slot : stored.slots[s].type = bound.slots[s].type
        /\ (stored.running <=> bound.running) /\ (stored.returned <=> bound.returned)
    BY <1>13, <2>3 DEF Stays, SlotsKept, SameControl, MachineInv
  <2>6. Slot(x) \in 1..Len(stored.slots) /\ Slot(x) \in 1..slot
    BY <1>5, <2>5
  <2> DEFINE m2 == Clear(stored, Slot(x))
             s0 == Slot(x)
  <2>7. /\ SameButMemory(stored, m2) /\ m2.home = stored.home
        /\ Len(m2.slots) = Len(stored.slots)
        /\ \A k \in 1..Len(stored.slots) :
             /\ m2.slots[k].type = stored.slots[k].type
             /\ m2.slots[k].val = IF k = s0 THEN Nothing ELSE stored.slots[k].val
    <3> HIDE DEF m2, s0
    <3>1. m2 = Clear(stored, s0) /\ s0 \in 1..Len(stored.slots)
      BY <2>6 DEF m2, s0
    <3> QED BY <2>5, <3>1, ClearIs
  <2> HIDE DEF m2
  <2>8. \A s \in 1..Len(machine.slots) : s \in 1..slot /\ s # slot
    BY <1>5
  <2>9. stored.slots[Slot(x)].type = "optional"
    BY <1>5, <1>13, <2>5, <2>6
  <2>10. MachineInv(m2)
    <3>1. m2 \in Machines
      BY <2>7 DEF SameButMemory
    <3>2. \A s \in 1..Len(m2.slots) :
            /\ m2.slots[s].val \in DOMAIN m2.home \cup {Nothing, Garbage}
            /\ m2.slots[s].type = "struct" => m2.slots[s].val # Nothing
      BY <2>5, <2>7, <2>9 DEF MachineInv
    <3> QED BY <3>1, <3>2 DEF MachineInv
  <2>11. machine' = m2
    BY <2>4 DEF m2
  <2>12. SlotAdded(machine, m2, "struct")
    <3>1. Len(m2.slots) = Len(machine.slots) + 1
      BY <1>5, <2>5, <2>7
    <3>2. slot \in 1..slot
      BY <1>5
    <3>3. m2.slots[Len(machine.slots) + 1].type = "struct"
      BY <1>5, <1>13, <2>5, <2>7, <3>2
    <3>4. \A s \in 1..Len(machine.slots) : m2.slots[s].type = machine.slots[s].type
      BY <1>13, <2>5, <2>7, <2>8
    <3> QED BY <3>1, <3>3, <3>4 DEF SlotAdded
  <2>13. m2.refs = machine.refs /\ m2.running /\ (m2.returned <=> machine.returned)
    <3>1. m2.refs = stored.refs /\ (m2.running <=> stored.running)
          /\ (m2.returned <=> stored.returned)
      BY <2>7 DEF SameButMemory
    <3>2. stored.refs = bound.refs
      BY <2>3 DEF stored
    <3>3. m2.refs = machine.refs
      BY <1>13, <3>1, <3>2
    <3>4. stored.running /\ (stored.returned <=> machine.returned)
      BY <1>13, <2>5
    <3> QED BY <3>1, <3>3, <3>4
  <2> QED BY <2>1, <2>4, <2>5, <2>10, <2>11, <2>12, <2>13
<1>16. ~(machine.running /\ taken) =>
         /\ machine' = Run(bound, FALSE)
         /\ MachineInv(machine') /\ SlotAdded(machine, machine', "struct")
         /\ machine'.refs = machine.refs
         /\ ~machine'.running /\ (machine'.returned <=> machine.returned)
  <2> SUFFICES ASSUME ~(machine.running /\ taken)
               PROVE  /\ machine' = Run(bound, FALSE)
                      /\ MachineInv(machine') /\ SlotAdded(machine, machine', "struct")
                      /\ machine'.refs = machine.refs
                      /\ ~machine'.running /\ (machine'.returned <=> machine.returned)
    OBVIOUS
  <2>1. machine' = Run(bound, FALSE)
    BY <1>1, <1>4
  <2> DEFINE m2 == Run(bound, FALSE)
  <2>2. SameButControl(bound, m2) /\ ~m2.running /\ (m2.returned <=> bound.returned)
    <3> HIDE DEF m2
    <3>1. m2 = Run(bound, FALSE)
      BY DEF m2
    <3>2. FALSE \in BOOLEAN
      OBVIOUS
    <3> QED BY <1>13, <3>1, <3>2, RunIs
  <2> HIDE DEF m2
  <2>3. MachineInv(m2)
    BY <1>13, <2>2, ControlMachine
  <2>4. m2.slots = bound.slots /\ m2.refs = bound.refs
    BY <2>2 DEF SameButControl
  <2>5. SlotAdded(machine, m2, "struct")
    BY <1>5, <1>13, <2>4 DEF SlotAdded
  <2>6. machine' = m2
    BY <2>1 DEF m2
  <2> QED BY <1>13, <2>1, <2>2, <2>3, <2>4, <2>5, <2>6
<1> HIDE DEF stored
<1>17. TakeFacts(x, taken, loaded, bound)
  <2> DEFINE st == store(bound, Len(machine.slots) + 1, machine.slots[Slot(x)].val)
  <2>1. st = stored
    BY <1>5, <1>6 DEF stored
  <2> HIDE DEF st
  <2>2. machine.running /\ taken =>
          /\ machine.slots[Slot(x)].val \in DOMAIN machine.home
          /\ MachineInv(st) /\ machine' = Clear(st, Slot(x))
    BY <1>6, <1>15, <2>1
  <2>3. /\ ~(machine.running /\ taken) => machine' = Run(bound, FALSE)
        /\ MachineInv(machine') /\ SlotAdded(machine, machine', "struct")
        /\ machine'.refs = machine.refs
        /\ (machine'.running <=> machine.running /\ taken)
        /\ (machine'.returned <=> machine.returned)
    BY <1>15, <1>16
  <2> HIDE DEF taken
  <2> QED BY <1>8, <1>9, <1>10, <1>11, <2>2, <2>3 DEF TakeFacts, st
<1> QED BY <1>6, <1>17

-----------------------------------------------------------------------------
(* The ends of blocks. *)

\* The slot of the binding is dropped at the end of an if let, and no other.
LetDropped ==
  LET b == blocks[Len(blocks)]
  IN  b.kind = "iflet" /\ ~b.left /\ b.binding \notin code.movedVars

LetSlot == SlotAt(blocks, Len(blocks), blocks[Len(blocks)].binding)

\* What is done on the way out of the innermost block: c, g and m are what it leaves.
LeaveFacts(c, g, m) ==
  /\ Exited(checker, c, blocks) /\ c = LeaveChecker(checker, blocks[Len(blocks)])
  /\ g \in Generators
  /\ Map(g) = IF blocks[Len(blocks)].kind = "iflet" THEN Map(blocks[Len(blocks)].saved) ELSE Map(code)
  /\ g.varOptionalTypes = code.varOptionalTypes
  /\ g.movedVars = IF blocks[Len(blocks)].kind = "iflet"
                   THEN code.movedVars \cup blocks[Len(blocks)].saved.movedVars ELSE code.movedVars
  /\ SameButRead(machine, current) /\ MachineInv(current) /\ current.read = noRead
  /\ m = IF LetDropped THEN callDrop(current, {LetSlot}, {}) ELSE current
  /\ LetDropped => LetSlot \in 1..Len(current.slots)
  /\ Stays(machine, m) /\ m.refs = machine.refs /\ m.slots = machine.slots /\ m.read = noRead

\* What the end of a block does to the checker, the generator and the machine.
LEMMA LeaveIs ==
  ASSUME Agree, Len(blocks) > 0
  PROVE  LeaveFacts(Leave.checker, Leave.code, Leave.machine)
<1> DEFINE b == blocks[Len(blocks)]
           c == Leave.checker
           g == Leave.code
           m == Leave.machine
<1>1. /\ ShapeInv(checker, blocks) /\ GenInv(code, blocks, machine, hidden)
      /\ code \in Generators /\ machine \in Machines /\ MachineInv(machine) /\ blocks \in Seq(Blocks)
  BY AgreeIs DEF Agree, Base
<1>2. b \in Blocks /\ Len(blocks) \in 1..Len(blocks)
  BY <1>1
<1>3. Leave = [checker |-> IF b.kind = "iflet"
                           THEN Sema!dropScopeVariables(Sema!dropScopeVariables(checker))
                           ELSE Sema!dropScopeVariables(checker),
               code |-> IF b.kind = "iflet" THEN restoreAfterIfLet(code, b.saved) ELSE code,
               machine |-> IF b.kind = "iflet"
                           THEN IF b.left \/ b.binding \in code.movedVars THEN current
                                ELSE callDrop(current, {b.names[b.binding].slot}, {})
                           ELSE current]
  BY DEF Leave, Top
<1>4. c = LeaveChecker(checker, b)
  BY <1>3 DEF LeaveChecker
<1>5. g = IF b.kind = "iflet" THEN restoreAfterIfLet(code, b.saved) ELSE code
  BY <1>3
<1>6. m = IF LetDropped THEN callDrop(current, {LetSlot}, {}) ELSE current
  BY <1>3 DEF LetDropped, LetSlot, SlotAt
<1> HIDE DEF c, g, m
<1>7. Exited(checker, c, blocks)
  BY <1>1, <1>4, LeaveExits
<1>8. b.saved \in Generators /\ (b.kind = "iflet" => b.binding \in Name /\ Has(blocks, Len(blocks), b.binding))
  BY <1>2, BlockIs DEF Has
<1>9. /\ g \in Generators
      /\ Map(g) = IF b.kind = "iflet" THEN Map(b.saved) ELSE Map(code)
      /\ g.varOptionalTypes = code.varOptionalTypes
      /\ g.movedVars = IF b.kind = "iflet" THEN code.movedVars \cup b.saved.movedVars ELSE code.movedVars
  <2>1. CASE b.kind = "iflet"
    <3>1. g = restoreAfterIfLet(code, b.saved)
      BY <1>5, <2>1
    <3> DEFINE h == b.saved
    <3>2. h \in Generators /\ g = restoreAfterIfLet(code, h)
      BY <1>8, <3>1
    <3> HIDE DEF h
    <3>3. /\ g \in Generators /\ Map(g) = Map(h)
          /\ g.varOptionalTypes = code.varOptionalTypes
          /\ g.movedVars = code.movedVars \cup h.movedVars
      BY <1>1, <3>2, RestoredCodeIs
    <3> QED BY <2>1, <3>3 DEF h
  <2>2. CASE b.kind # "iflet"
    BY <1>1, <1>5, <2>2
  <2> QED BY <2>1, <2>2
<1>10. SameButRead(machine, current) /\ MachineInv(current) /\ current.read = noRead
  BY <1>1, CurrentIs
<1>11. current.slots = machine.slots /\ current.refs = machine.refs
  BY <1>10 DEF SameButRead
<1>12. LetDropped => LetSlot \in 1..Len(current.slots)
  <2> SUFFICES ASSUME LetDropped PROVE LetSlot \in 1..Len(current.slots)
    OBVIOUS
  <2>1. b.kind = "iflet"
    BY DEF LetDropped
  <2>2. b.binding \in Name /\ Has(blocks, Len(blocks), b.binding)
    BY <1>8, <2>1
  <2>3. SlotAt(blocks, Len(blocks), b.binding) \in 1..Len(machine.slots)
    BY <1>1, <1>2, <2>2, SlotsAre
  <2> QED BY <1>11, <2>3 DEF LetSlot
<1>13. Stays(machine, current)
  BY <1>1, <1>10, ReadStays
<1>14. \/ /\ Stays(current, m) /\ m.refs = current.refs
          /\ m.slots = current.slots /\ m.read = current.read
       \/ m = current
  <2>1. CASE LetDropped
    <3> DEFINE S == {LetSlot}
               P == {}
    <3>1. S \in SUBSET (1..Len(current.slots))
      BY <1>12, <2>1
    <3>2. m = callDrop(current, S, P)
      BY <1>6, <2>1
    <3> HIDE DEF S, P
    <3> QED BY <1>10, <3>1, <3>2, DropStays
  <2>2. CASE ~LetDropped
    BY <1>6, <2>2
  <2> QED BY <2>1, <2>2
<1>15. Stays(machine, m) /\ m.refs = machine.refs /\ m.slots = machine.slots /\ m.read = noRead
  BY <1>10, <1>11, <1>13, <1>14, StaysTrans
<1>16. LeaveFacts(c, g, m)
  BY <1>4, <1>6, <1>7, <1>9, <1>10, <1>12, <1>15 DEF LeaveFacts
<1> QED BY <1>16 DEF c, g, m

\* Control after the block, in blocks' names or in the other block of the if.
LEMMA ShadowedIs ==
  ASSUME blocks \in Seq(Blocks), Len(blocks) > 0
  PROVE  Shadowed = ShadowedBy(blocks)
<1>1. DOMAIN blocks = 1..Len(blocks) /\ Len(blocks) \in Nat
  OBVIOUS
<1>2. \A n \in Name : Declaring(n) \ {Top} # {} <=> \E i \in 1..Len(blocks) - 1 : Has(blocks, i, n)
  BY <1>1 DEF Declaring, Top, Has
<1> QED BY <1>2 DEF Shadowed, ShadowedBy, Top, Has

EndIfFacts(c, g, m, r) ==
  /\ LeaveFacts(c, g, m) /\ r \in RefName \cup {NoName} /\ EndStatement(c, r)
  /\ IsChecker(c) /\ c.ok
  /\ checker' = Given(c, r) /\ SameTable(c, checker')
  /\ finished' = finished \cup ({r} \ {NoName})
  /\ code' = g /\ hidden' = hidden \cup ShadowedBy(blocks)
  /\ Len(blocks) > 1 /\ Popped(blocks, blocks')
  /\ SameButControl(m, machine') /\ MachineInv(machine')
  /\ SlotsKept(machine, machine') /\ SameRefSlots(machine, machine')
  /\ (machine'.running <=> blocks[Len(blocks)].reached /\ ~machine.returned)
  /\ (machine'.returned <=> machine.returned)

\* What the end of an if or an if let changes.
LEMMA EndIfIs ==
  ASSUME Agree, EndIf
  PROVE  (\E c, g, m, r : EndIfFacts(c, g, m, r)) /\ gap' = gap
<1> DEFINE c == Leave.checker
           g == Leave.code
           m == Leave.machine
           run == blocks[Top].reached /\ ~m.returned
           ended == SubSeq(blocks, 1, Top - 1)
<1>1. /\ Top > 1 /\ hidden' = hidden \cup Shadowed /\ gap' = gap /\ code' = g
      /\ machine' = Run(m, run) /\ blocks' = ended
  BY DEF EndIf, Run
<1>2. PICK r \in RefName \cup {NoName} : /\ EndStatement(c, r)
                                         /\ finished' = finished \cup ({r} \ {NoName})
  BY DEF EndIf
<1>3. blocks \in Seq(Blocks) /\ Len(blocks) > 1 /\ Len(blocks) > 0
  BY <1>1, AgreeIs DEF Top
<1>4. LeaveFacts(c, g, m)
  <2> HIDE DEF c, g, m
  <2> QED BY <1>3, LeaveIs DEF c, g, m
<1> HIDE DEF c, g, m, run
<1>5. IsChecker(c) /\ c.ok
  BY <1>4 DEF LeaveFacts, Exited
<1>6. checker' = Given(c, r) /\ SameTable(c, checker')
  BY <1>2, <1>5, EndIs
<1>7. Popped(blocks, blocks')
  <2>1. Popped(blocks, ended)
    <3>1. ended = SubSeq(blocks, 1, Len(blocks) - 1)
      BY DEF Top
    <3> HIDE DEF ended
    <3> QED BY <1>3, <3>1, PoppedIs
  <2> HIDE DEF ended
  <2> QED BY <1>1, <2>1
<1>8. m \in Machines /\ MachineInv(m) /\ (m.returned <=> machine.returned)
      /\ m.slots = machine.slots /\ m.refs = machine.refs
  BY <1>4 DEF LeaveFacts, Stays, MachineInv, SameControl
<1>9. run \in BOOLEAN /\ (run <=> blocks[Len(blocks)].reached /\ ~machine.returned)
  <2>1. run <=> blocks[Len(blocks)].reached /\ ~machine.returned
    BY <1>8 DEF run, Top
  <2>2. run \in BOOLEAN
    BY DEF run
  <2> QED BY <2>1, <2>2
<1> DEFINE m2 == Run(m, run)
<1>10. SameButControl(m, m2) /\ (m2.running <=> run) /\ (m2.returned <=> m.returned)
  <2>1. m2 = Run(m, run)
    OBVIOUS
  <2> HIDE DEF m2
  <2> QED BY <1>8, <1>9, <2>1, RunIs
<1> HIDE DEF m2
<1>11. MachineInv(m2) /\ SlotsKept(m, m2) /\ SameRefSlots(m, m2)
  BY <1>8, <1>10, ControlMachine
<1>12. machine' = m2
  BY <1>1 DEF m2
<1>13. SlotsKept(machine, machine') /\ SameRefSlots(machine, machine')
  BY <1>8, <1>11, <1>12 DEF SlotsKept, SameRefSlots
<1>14. hidden' = hidden \cup ShadowedBy(blocks)
  BY <1>1, <1>3, ShadowedIs
<1>15. EndIfFacts(c, g, m, r)
  BY <1>1, <1>2, <1>3, <1>4, <1>5, <1>6, <1>7, <1>8, <1>9, <1>10, <1>11, <1>12, <1>13, <1>14
     DEF EndIfFacts
<1> QED BY <1>1, <1>15

ElseFacts(c, g, m, b) ==
  /\ LeaveFacts(c, g, m) /\ checker' = Sema!pushOwnershipScope(c)
  /\ code' = g /\ hidden' = hidden \cup ShadowedBy(blocks)
  /\ Len(blocks) > 1 /\ blocks[Len(blocks)].kind \in {"then", "iflet"}
  /\ b \in Blocks /\ b.kind = "else" /\ DOMAIN b.names = {} /\ b.scope = Len(checker'.scopes)
  /\ (b.reached <=> blocks[Len(blocks)].reached) /\ (b.taken <=> ~blocks[Len(blocks)].taken)
  /\ b.binding = NoName /\ ~b.left /\ Replaced(blocks, blocks', b)
  /\ SameButControl(m, machine') /\ MachineInv(machine')
  /\ SlotsKept(machine, machine') /\ SameRefSlots(machine, machine')
  /\ (machine'.running <=> blocks[Len(blocks)].reached /\ ~blocks[Len(blocks)].taken)
  /\ (machine'.returned <=> machine.returned)

\* What the start of an else changes.
LEMMA ElseIs ==
  ASSUME Agree, Else
  PROVE  (\E c, g, m, b : ElseFacts(c, g, m, b)) /\ finished' = finished /\ gap' = Leaks(TRUE)
<1> DEFINE c == Leave.checker
           g == Leave.code
           m == Leave.machine
           d == Sema!pushOwnershipScope(c)
           run == blocks[Top].reached /\ ~blocks[Top].taken
           b == Block("else", Sema!NoEntries, Len(checker'.scopes), blocks[Top].reached,
                      ~blocks[Top].taken, NoName, Generator)
           bs2 == [blocks EXCEPT ![Top] = b]
<1>1. /\ Top > 1 /\ hidden' = hidden \cup Shadowed /\ gap' = Leaks(TRUE) /\ code' = g
      /\ machine' = Run(m, run) /\ blocks' = bs2
      /\ checker' = d /\ blocks[Top].kind \in {"then", "iflet"} /\ finished' = finished
  BY DEF Else, Run
<1>2. blocks \in Seq(Blocks) /\ Len(blocks) > 1 /\ Len(blocks) > 0 /\ Top = Len(blocks)
  BY <1>1, AgreeIs DEF Top
<1>3. LeaveFacts(c, g, m)
  <2> HIDE DEF c, g, m
  <2> QED BY <1>2, LeaveIs DEF c, g, m
<1> HIDE DEF c, g, m
<1>4. IsChecker(c) /\ c.ok
  BY <1>3 DEF LeaveFacts, Exited
<1>5. IsChecker(d)
  <2>1. d = Sema!pushOwnershipScope(c)
    OBVIOUS
  <2> HIDE DEF d
  <2> QED BY <1>4, <2>1, PushScopeIs
<1>6. Len(checker'.scopes) \in Nat
  <2> HIDE DEF d
  <2> QED BY <1>1, <1>5, CheckerIs
<1>7. blocks[Top].reached \in BOOLEAN /\ (~blocks[Top].taken) \in BOOLEAN
  <2>1. blocks[Top] \in Blocks
    BY <1>2
  <2> QED BY <2>1, BlockIs
<1> HIDE DEF d
<1>8. /\ b \in Blocks /\ b.kind = "else" /\ DOMAIN b.names = {} /\ b.scope = Len(checker'.scopes)
      /\ (b.reached <=> blocks[Top].reached) /\ (b.taken <=> ~blocks[Top].taken)
      /\ b.binding = NoName /\ ~b.left
  <2> DEFINE s == Len(checker'.scopes)
             reached == blocks[Top].reached
             taken == ~blocks[Top].taken
  <2>1. b = Block("else", Sema!NoEntries, s, reached, taken, NoName, Generator)
    OBVIOUS
  <2>2. s \in Nat /\ reached \in BOOLEAN /\ taken \in BOOLEAN
    BY <1>6, <1>7
  <2> HIDE DEF b, s, reached, taken
  <2>3. /\ b \in Blocks /\ b.kind = "else" /\ DOMAIN b.names = {} /\ b.scope = s
        /\ (b.reached <=> reached) /\ (b.taken <=> taken)
        /\ b.binding = NoName /\ ~b.left
    BY <2>1, <2>2, PlainBlock
  <2> QED BY <2>3 DEF s, reached, taken
<1> HIDE DEF b
<1>9. Replaced(blocks, blocks', b)
  <2>1. bs2 = [blocks EXCEPT ![Len(blocks)] = b]
    BY <1>2
  <2> HIDE DEF bs2
  <2>2. Replaced(blocks, bs2, b)
    BY <1>2, <1>8, <2>1, ReplacedIs
  <2> QED BY <1>1, <2>2
<1>10. m \in Machines /\ MachineInv(m) /\ (m.returned <=> machine.returned)
       /\ m.slots = machine.slots /\ m.refs = machine.refs
  BY <1>3 DEF LeaveFacts, Stays, MachineInv, SameControl
<1>11. run \in BOOLEAN
  OBVIOUS
<1> DEFINE m2 == Run(m, run)
<1>12. SameButControl(m, m2) /\ (m2.running <=> run) /\ (m2.returned <=> m.returned)
  <2>1. m2 = Run(m, run)
    OBVIOUS
  <2> HIDE DEF m2, run
  <2> QED BY <1>10, <1>11, <2>1, RunIs
<1>13. machine' = m2
  BY <1>1
<1> HIDE DEF m2
<1>14. MachineInv(m2) /\ SlotsKept(m, m2) /\ SameRefSlots(m, m2)
  BY <1>10, <1>12, ControlMachine
<1>15. SlotsKept(machine, machine') /\ SameRefSlots(machine, machine')
  BY <1>10, <1>13, <1>14 DEF SlotsKept, SameRefSlots
<1>16. hidden' = hidden \cup ShadowedBy(blocks)
  BY <1>1, <1>2, ShadowedIs
<1>17. ElseFacts(c, g, m, b)
  BY <1>1, <1>2, <1>3, <1>8, <1>9, <1>10, <1>12, <1>13, <1>14, <1>15, <1>16 DEF ElseFacts, d
<1> QED BY <1>1, <1>17

EndFunctionFacts(cleaned, flag) ==
  /\ flag \in BOOLEAN
  /\ Len(blocks) = 1 /\ blocks' = <<>> /\ checker' = Sema!dropScopeVariables(checker)
  /\ code' = code /\ hidden' = hidden /\ finished' = finished /\ gap' = gap
  /\ SameButRead(machine, current) /\ MachineInv(current) /\ current.read = noRead
  /\ blocks[1].left => machine' = current
  /\ ~blocks[1].left =>
       /\ Cleaned(code, current, flag) \in SUBSET (1..Len(current.slots))
       /\ cleaned = callDrop(current, Cleaned(code, current, flag), Plain(code, current))
       /\ MachineInv(cleaned) /\ SameButControl(cleaned, machine') /\ ~machine'.running
       /\ cleaned.slots = machine.slots
  /\ MachineInv(machine') /\ SlotsKept(machine, machine') /\ machine'.read = noRead
  /\ (machine'.returned <=> machine.returned)
  /\ ~machine'.running \/ machine'.running = machine.running

\* What the end of the function changes.
LEMMA EndFunctionIs ==
  ASSUME Agree, EndFunction
  PROVE  \E cleaned, flag : EndFunctionFacts(cleaned, flag)
<1>1. /\ Len(blocks) = 1 /\ blocks' = <<>> /\ checker' = Sema!dropScopeVariables(checker)
      /\ code' = code /\ hidden' = hidden /\ finished' = finished /\ gap' = gap
  BY DEF EndFunction, Top
<1>2. machine \in Machines /\ MachineInv(machine) /\ GenInv(code, blocks, machine, hidden)
  BY AgreeIs DEF Agree, Base
<1>3. SameButRead(machine, current) /\ MachineInv(current) /\ current.read = noRead
  BY <1>2, CurrentIs
<1>4. current.slots = machine.slots /\ current \in Machines
      /\ (current.running <=> machine.running) /\ (current.returned <=> machine.returned)
  BY <1>3 DEF SameButRead
<1>5. CASE blocks[1].left
  <2>1. machine' = current
    BY <1>5 DEF EndFunction
  <2>2. SlotsKept(machine, machine')
    BY <1>4, <2>1 DEF SlotsKept
  <2>3. machine'.running = machine.running
    BY <2>1 DEF current
  <2>4. EndFunctionFacts(machine, TRUE)
    BY <1>1, <1>3, <1>4, <1>5, <2>1, <2>2, <2>3 DEF EndFunctionFacts
  <2> QED BY <2>4
<1>6. CASE ~blocks[1].left
  <2>1. PICK flag \in BOOLEAN :
          machine' = [emitScopeCleanup(code, current, flag) EXCEPT !.running = FALSE]
    BY <1>6 DEF EndFunction
  <2> DEFINE S == Cleaned(code, current, flag)
             P == Plain(code, current)
             cleaned == callDrop(current, S, P)
             m2 == Run(cleaned, FALSE)
  <2>2. machine' = m2
    BY <2>1, CleanupIs DEF Run
  <2>3. S \in SUBSET (1..Len(current.slots))
    <3>1. Len(current.slots) = Len(machine.slots)
      BY <1>4
    <3> QED BY <1>2, <3>1, CleanupSlots
  <2>4. Stays(current, cleaned) /\ cleaned.slots = current.slots /\ cleaned.refs = current.refs
        /\ cleaned.read = current.read
    <3> HIDE DEF S, P
    <3> QED BY <1>3, <2>3, DropStays
  <2>5. cleaned = callDrop(current, S, P)
    OBVIOUS
  <2> HIDE DEF cleaned
  <2>6. cleaned \in Machines /\ MachineInv(cleaned) /\ (cleaned.returned <=> machine.returned)
    BY <1>4, <2>4 DEF Stays, SameControl, MachineInv
  <2>7. SameButControl(cleaned, m2) /\ ~m2.running /\ (m2.returned <=> cleaned.returned)
    <3>1. m2 = Run(cleaned, FALSE) /\ FALSE \in BOOLEAN
      OBVIOUS
    <3> HIDE DEF m2
    <3> QED BY <2>6, <3>1, RunIs
  <2> HIDE DEF m2
  <2>8. MachineInv(m2) /\ SlotsKept(cleaned, m2)
    BY <2>6, <2>7, ControlMachine
  <2>9. SlotsKept(machine, machine')
    BY <1>4, <2>2, <2>4, <2>8 DEF SlotsKept
  <2>10. machine'.read = noRead
    BY <1>3, <2>2, <2>4, <2>7 DEF SameButControl
  <2>11. EndFunctionFacts(cleaned, flag)
    BY <1>1, <1>3, <1>4, <1>6, <2>2, <2>3, <2>4, <2>5, <2>6, <2>7, <2>8, <2>9, <2>10
       DEF EndFunctionFacts
  <2> QED BY <2>11
<1> QED BY <1>5, <1>6

-----------------------------------------------------------------------------
(* The checker's table, the generator's maps and the slots agree. *)

\* A step that changes no table, no map and no slot's type keeps them in agreement.
LEMMA SameAgree ==
  ASSUME Agree, NEW c, SameTable(checker, c), code' = code \/ (code' \in Generators /\ Map(code') = Map(code)),
         Stays(machine, machine'), checker' = c, blocks' = blocks, hidden' = hidden
  PROVE  Agree'
<1>1. code' \in Generators /\ Map(code') = Map(code)
  BY AgreeIs
<1>2. SameTable(checker, checker')
  OBVIOUS
<1>3. Base(checker', code', machine', blocks, hidden)
  BY <1>1, <1>2, BaseStays DEF Agree
<1> QED BY <1>3 DEF Agree

\* A declaration keeps the checker's table, the generator's maps and the slots in agreement.
LEMMA DeclareAgrees ==
  ASSUME Agree, NEW n \in Name, NEW t \in SlotTypes, NEW src \in Name \cup {NoName}, NEW v,
         NEW e, NEW d, NEW valued, NEW bound, NEW r, DeclareFacts(n, t, v, src, e, d, valued, bound, r),
         NEW optional, NEW struct, NEW moves,
         DeclaredCode(code, code', n, Len(machine.slots) + 1, struct, optional, src, moves)
  PROVE  /\ Agree' /\ MachineInv(machine') /\ SameControl(machine, machine')
         /\ SlotAdded(machine, machine', t) /\ machine'.refs = machine.refs
<1>1. /\ SameTable(checker, e) /\ Records(n, Sema!OwnershipInfo(TRUE, TRUE))
      /\ d = Sema!trackVariable(e, n, Sema!OwnershipInfo(TRUE, TRUE)) /\ SameTable(d, checker')
      /\ Len(blocks) > 0 /\ ~Has(blocks, Len(blocks), n)
      /\ Declared(blocks, blocks', n, Entry(t, Len(machine.slots) + 1))
      /\ hidden' = hidden \ {n}
      /\ SameButRead(machine, valued) /\ Grown(valued, bound, t) /\ Stays(bound, machine')
      /\ machine' = store(bound, Len(machine.slots) + 1, v)
      /\ Storable(bound, Len(machine.slots) + 1, v)
      /\ Len(machine.slots) + 1 \in 1..Len(bound.slots)
  BY DEF DeclareFacts
<1>2. NewMap(code, code', n, Len(machine.slots) + 1)
  BY DEF DeclaredCode
<1>3. MachineInv(bound)
  BY <1>1 DEF Grown
<1>4. machine'.refs = bound.refs
  <2> DEFINE m2 == store(bound, Len(machine.slots) + 1, v)
  <2>1. m2.refs = bound.refs
    BY <1>1, <1>3, StoreStays
  <2> HIDE DEF m2
  <2>2. machine' = m2
    BY <1>1 DEF m2
  <2> QED BY <2>1, <2>2
<1>5. Len(machine.slots) \in Nat
  BY AgreeIs, MachineIs
<1>6. machine'.refs = machine.refs /\ MachineInv(machine') /\ SameControl(machine, machine')
  BY <1>1, <1>4 DEF Grown, Stays, SameButRead, SameControl
<1>7. SlotAdded(machine, machine', t)
  <2>1. valued.slots = machine.slots
    BY <1>1 DEF SameButRead
  <2>2. /\ Len(bound.slots) = Len(machine.slots) + 1
        /\ \A s \in 1..Len(machine.slots) : bound.slots[s] = machine.slots[s]
        /\ bound.slots[Len(machine.slots) + 1] = [type |-> t, val |-> Garbage]
    BY <1>1, <2>1 DEF Grown
  <2>3. /\ Len(machine'.slots) = Len(bound.slots)
        /\ \A s \in 1..Len(bound.slots) : machine'.slots[s].type = bound.slots[s].type
    BY <1>1 DEF Stays, SlotsKept
  <2>4. \A s \in 1..Len(machine.slots) : s \in 1..Len(bound.slots)
    BY <1>5, <2>2
  <2> QED BY <1>1, <2>2, <2>3, <2>4 DEF SlotAdded
<1>8. SameRefSlots(machine, machine')
  BY <1>6 DEF SameRefSlots
<1> DEFINE info == Sema!OwnershipInfo(TRUE, TRUE)
<1>9. Records(n, info) /\ d = Sema!trackVariable(e, n, info)
  BY <1>1
<1> HIDE DEF info
<1>10. Base(checker', code', machine', blocks', hidden \ {n})
  BY <1>1, <1>2, <1>6, <1>7, <1>8, <1>9, BaseDeclared DEF Agree
<1> QED BY <1>1, <1>6, <1>7, <1>10 DEF Agree

\* What the declarations of the model have in common.
DeclareWith(n, t, v, src, optional, struct, moves) ==
  /\ t \in SlotTypes /\ src \in Name \cup {NoName}
  /\ v \in (1..Len(machine.home) + 1) \cup {Nothing, Garbage} /\ (t = "struct" => v # Nothing)
  /\ optional \in BOOLEAN /\ struct \in BOOLEAN /\ moves \in BOOLEAN
  /\ (optional <=> t = "optional") /\ (t = "struct" => struct)
  /\ src = NoName => v \in {Len(machine.home) + 1, Nothing} /\ struct /\ ~moves
  /\ src # NoName => /\ \E i : Meant(src, i)
                     /\ v = machine.slots[Slot(src)].val
                     /\ moves => t = Type(src)
  /\ gap' = IF (src # NoName /\ ~moves) \/ ForgetsMove(n, src) THEN "missed"
            ELSE IF TakesBorrow(n) /\ gap # "missed" THEN "misdirected"
            ELSE Leaks(Slot(n) # 0 \/ ~struct \/ InIfLet)

Declares(n) == New(n) \/ NewOptional(n) \/ \E x \in Name : Copy(n, x) \/ Annotate(n, x)

\* The declarations of the language are instances of one.
LEMMA DeclaresIs ==
  ASSUME Agree, NEW n \in Name, Declares(n)
  PROVE  \E t, v, src, optional, struct, moves :
           /\ DeclareWith(n, t, v, src, optional, struct, moves)
           /\ Declare(n, t, v, src, optional, struct, moves)
           /\ src # NoName => Visible(src)
<1>1. MachineInv(machine) /\ machine \in Machines
  BY AgreeIs
<1>2. current.slots = machine.slots /\ current.home = machine.home
  BY <1>1, CurrentIs DEF SameButRead
<1>3. fresh(current) = Len(machine.home) + 1 /\ Len(machine.home) \in Nat
  BY <1>1, <1>2, MachineIs DEF fresh
<1> DEFINE f == Len(machine.home) + 1
<1>4. f \in 1..f /\ f \in Nat /\ f # Nothing
  BY <1>3, ValuesAssumption
<1>5. CASE New(n)
  <2>1. Declare(n, "struct", f, NoName, FALSE, TRUE, FALSE)
    BY <1>3, <1>5 DEF New
  <2>2. DeclareWith(n, "struct", f, NoName, FALSE, TRUE, FALSE)
    <3>1. gap' = IF (NoName # NoName /\ ~FALSE) \/ ForgetsMove(n, NoName) THEN "missed"
                 ELSE IF TakesBorrow(n) /\ gap # "missed" THEN "misdirected"
                 ELSE Leaks(Slot(n) # 0 \/ ~TRUE \/ InIfLet)
      BY <2>1 DEF Declare
    <3> QED BY <1>4, <3>1 DEF DeclareWith, SlotTypes
  <2> QED BY <2>1, <2>2
<1>6. CASE NewOptional(n)
  <2>1. PICK v \in {f, Nothing} : Declare(n, "optional", v, NoName, TRUE, TRUE, FALSE)
    BY <1>3, <1>6 DEF NewOptional
  <2>2. DeclareWith(n, "optional", v, NoName, TRUE, TRUE, FALSE)
    <3>1. gap' = IF (NoName # NoName /\ ~FALSE) \/ ForgetsMove(n, NoName) THEN "missed"
                 ELSE IF TakesBorrow(n) /\ gap # "missed" THEN "misdirected"
                 ELSE Leaks(Slot(n) # 0 \/ ~TRUE \/ InIfLet)
      BY <2>1 DEF Declare
    <3> QED BY <1>4, <2>1, <3>1 DEF DeclareWith, SlotTypes
  <2> QED BY <2>1, <2>2
<1>7. ASSUME NEW x \in Name, Copy(n, x) \/ Annotate(n, x)
      PROVE  \E t, v, src, optional, struct, moves :
               /\ DeclareWith(n, t, v, src, optional, struct, moves)
               /\ Declare(n, t, v, src, optional, struct, moves)
               /\ src # NoName => Visible(src)
  <2>1. Visible(x) /\ x \in Names /\ x # NoName
    BY <1>7, NamesAssumption DEF Copy, Annotate, Names
  <2>2. PICK i : Meant(x, i)
    BY <2>1, MeantIs
  <2> DEFINE v == machine.slots[Slot(x)].val
  <2>3. Slot(x) \in 1..Len(machine.slots) /\ machine.slots[Slot(x)].type = Type(x)
    BY <2>2 DEF Meant
  <2>4. Type(x) \in SlotTypes /\ v \in DOMAIN machine.home \cup {Nothing, Garbage}
        /\ (Type(x) = "struct" => v # Nothing)
    BY <1>1, <2>3, MachineIs DEF MachineInv
  <2>5. v \in (1..Len(machine.home) + 1) \cup {Nothing, Garbage}
    BY <1>1, <1>3, <2>4, MachineIs
  <2>6. current.slots[Slot(x)].val = v
    BY <1>2
  <2> HIDE DEF v
  <2>7. CASE Copy(n, x)
    <3> DEFINE o == Type(x) = "optional"
               s == Type(x) = "struct"
    <3>1. Declare(n, Type(x), v, x, o, s, TRUE)
      BY <2>6, <2>7 DEF Copy
    <3>2. gap' = IF (x # NoName /\ ~TRUE) \/ ForgetsMove(n, x) THEN "missed"
                 ELSE IF TakesBorrow(n) /\ gap # "missed" THEN "misdirected"
                 ELSE Leaks(Slot(n) # 0 \/ ~s \/ InIfLet)
      BY <3>1 DEF Declare
    <3>3. o \in BOOLEAN /\ s \in BOOLEAN /\ (o <=> Type(x) = "optional")
          /\ (Type(x) = "struct" => s)
      OBVIOUS
    <3> HIDE DEF o, s
    <3>4. DeclareWith(n, Type(x), v, x, o, s, TRUE)
      BY <2>1, <2>2, <2>4, <2>5, <3>2, <3>3 DEF DeclareWith, v
    <3> QED BY <2>1, <3>1, <3>4
  <2>8. CASE Annotate(n, x)
    <3>1. Declare(n, "optional", v, x, TRUE, TRUE, FALSE)
      BY <2>6, <2>8 DEF Annotate
    <3>2. gap' = IF (x # NoName /\ ~FALSE) \/ ForgetsMove(n, x) THEN "missed"
                 ELSE IF TakesBorrow(n) /\ gap # "missed" THEN "misdirected"
                 ELSE Leaks(Slot(n) # 0 \/ ~TRUE \/ InIfLet)
      BY <3>1 DEF Declare
    <3>3. DeclareWith(n, "optional", v, x, TRUE, TRUE, FALSE)
      BY <2>1, <2>2, <2>5, <3>2 DEF DeclareWith, SlotTypes, v
    <3> QED BY <2>1, <3>1, <3>3
  <2> QED BY <1>7, <2>7, <2>8
<1> QED BY <1>5, <1>6, <1>7 DEF Declares

\* What a declaration of n does.
DeclFacts(n, t, v, src, optional, struct, moves, e, d, valued, bound, r) ==
  /\ DeclareWith(n, t, v, src, optional, struct, moves)
  /\ DeclareFacts(n, t, v, src, e, d, valued, bound, r)
  /\ code' \in Generators
  /\ DeclaredCode(code, code', n, Len(machine.slots) + 1, struct, optional, src, moves)
  /\ Agree' /\ MachineInv(machine') /\ SameControl(machine, machine')
  /\ SlotAdded(machine, machine', t) /\ machine'.refs = machine.refs

\* What each declaration requires and changes.
LEMMA DeclStep ==
  ASSUME Agree, NEW n \in Name, Declares(n)
  PROVE  \E t, v, src, optional, struct, moves, e, d, valued, bound, r :
           DeclFacts(n, t, v, src, optional, struct, moves, e, d, valued, bound, r)
<1>1. PICK t, v, src, optional, struct, moves :
        /\ DeclareWith(n, t, v, src, optional, struct, moves)
        /\ Declare(n, t, v, src, optional, struct, moves)
        /\ src # NoName => Visible(src)
  BY DeclaresIs
<1>2. /\ t \in SlotTypes /\ src \in Name \cup {NoName}
      /\ v \in (1..Len(machine.home) + 1) \cup {Nothing, Garbage} /\ (t = "struct" => v # Nothing)
      /\ optional \in BOOLEAN /\ struct \in BOOLEAN /\ moves \in BOOLEAN
  BY <1>1 DEF DeclareWith
<1>3. /\ \E e, d, valued, bound, r : DeclareFacts(n, t, v, src, e, d, valued, bound, r)
      /\ code' \in Generators
      /\ DeclaredCode(code, code', n, Len(machine.slots) + 1, struct, optional, src, moves)
  BY <1>1, <1>2, DeclareIs, SMTT(60)
<1>4. PICK e, d, valued, bound, r : DeclareFacts(n, t, v, src, e, d, valued, bound, r)
  BY <1>3
<1>5. /\ Agree' /\ MachineInv(machine') /\ SameControl(machine, machine')
      /\ SlotAdded(machine, machine', t) /\ machine'.refs = machine.refs
  BY <1>2, <1>3, <1>4, DeclareAgrees
<1>6. DeclFacts(n, t, v, src, optional, struct, moves, e, d, valued, bound, r)
  BY <1>1, <1>3, <1>4, <1>5 DEF DeclFacts
<1> QED BY <1>6

-----------------------------------------------------------------------------
(* Every step keeps the agreement. *)

\* A use of a variable keeps the checker's table, the generator's maps and the slots in
\* agreement.
LEMMA UseAgrees ==
  ASSUME Agree, NEW n \in Name, Use(n)
  PROVE  Agree'
<1>1. PICK i, r : Meant(n, i) /\ SimpleFacts(checker, r)
  BY UseIs
<1>2. code' = code /\ Stays(machine, machine')
  BY UseIs
<1>3. SameTable(checker, checker') /\ blocks' = blocks /\ hidden' = hidden
  BY <1>1 DEF SimpleFacts
<1> QED BY <1>2, <1>3, SameAgree

\* A use of a reference keeps the checker's table, the generator's maps and the slots in
\* agreement.
LEMMA UseRefAgrees ==
  ASSUME Agree, NEW q \in RefName, UseRef(q)
  PROVE  Agree'
<1>1. PICK i, r : Meant(q, i) /\ SimpleFacts(checker, r)
  BY UseRefIs
<1>2. code' = code /\ Stays(machine, machine')
  BY UseRefIs
<1>3. SameTable(checker, checker') /\ blocks' = blocks /\ hidden' = hidden
  BY <1>1 DEF SimpleFacts
<1> QED BY <1>2, <1>3, SameAgree

\* An assignment of a new value keeps the checker's table, the generator's maps and the slots in
\* agreement.
LEMMA AssignNewAgrees ==
  ASSUME Agree, NEW n \in Name, AssignNew(n)
  PROVE  Agree'
<1>1. PICK i, r, v : Meant(n, i) /\ SimpleFacts(checker, r)
  BY AssignNewIs
<1>2. code' = code /\ Stays(machine, machine')
  BY AssignNewIs
<1>3. SameTable(checker, checker') /\ blocks' = blocks /\ hidden' = hidden
  BY <1>1 DEF SimpleFacts
<1> QED BY <1>2, <1>3, SameAgree

\* An assignment of one variable to another keeps the checker's table, the generator's maps and
\* the slots in agreement.
LEMMA AssignAgrees ==
  ASSUME Agree, NEW n \in Name, NEW x \in Name, Assign(n, x)
  PROVE  Agree'
<1>1. PICK i, j, r, e, m : Meant(n, i) /\ SimpleFacts(e, r)
  BY AssignFrom
<1>2. code' = suppress(code, x) /\ Stays(machine, machine') /\ code \in Generators
  BY AssignFrom, AgreeIs
<1>3. SameTable(checker, checker') /\ blocks' = blocks /\ hidden' = hidden
  BY <1>1 DEF SimpleFacts
<1>4. code' \in Generators /\ Map(code') = Map(code)
  <2> DEFINE g2 == suppress(code, x)
  <2>1. g2 \in Generators /\ Map(g2) = Map(code)
    BY <1>2, SuppressIs
  <2> HIDE DEF g2
  <2>2. code' = g2
    BY <1>2 DEF g2
  <2> QED BY <2>1, <2>2
<1> QED BY <1>2, <1>3, <1>4, SameAgree

\* An assignment through a reference keeps the checker's table, the generator's maps and the
\* slots in agreement.
LEMMA AssignThroughAgrees ==
  ASSUME Agree, NEW q \in RefName, NEW src \in Name \cup {NoName}, AssignThrough(q, src)
  PROVE  Agree'
<1>1. PICK i, r, c, v, m : Meant(q, i) /\ SimpleFacts(c, r)
  BY AssignThroughIs
<1>2. code' = code /\ Stays(machine, machine')
  BY AssignThroughIs
<1>3. SameTable(checker, checker') /\ blocks' = blocks /\ hidden' = hidden
  BY <1>1 DEF SimpleFacts
<1> QED BY <1>2, <1>3, SameAgree

\* The declaration of a reference keeps the checker's table, the generator's maps and the slots
\* in agreement.
LEMMA RefAgrees ==
  ASSUME Agree, NEW r \in RefName, NEW x \in Name, Ref(r, x)
  PROVE  Agree'
<1>1. PICK j, mutable, e, d, over : RefFacts(r, x, j, mutable, e, d, over)
  BY RefIs
<1>2. /\ code' = code /\ hidden' = hidden
      /\ SameButRead(machine, current) /\ SameButRefs(current, machine') /\ MachineInv(machine')
      /\ machine.running => machine'.refs[r] =
           [slot |-> Slot(x), sees |-> machine.slots[Slot(x)].val]
      /\ \A q \in RefName : q # r => machine'.refs[q] = machine.refs[q]
  BY RefIs
<1> DEFINE s == Slot(x)
           t == IF mutable THEN "refmut" ELSE "ref"
           info == RefInfo(x, mutable)
<1>3. s \in 1..Len(machine.slots) /\ machine.slots[s].type = "struct"
  BY <1>1 DEF RefFacts, Meant
<1>4. /\ Len(blocks) > 0 /\ \A i \in 1..Len(blocks) : ~Has(blocks, i, r)
      /\ SameTable(checker, e) /\ Records(r, info) /\ d = Sema!trackVariable(e, r, info)
      /\ SameTable(d, checker') /\ Declared(blocks, blocks', r, Entry(t, s))
  BY <1>1 DEF RefFacts
<1>5. SameControl(machine, machine') /\ SlotsKept(machine, machine')
  <2>1. machine'.slots = machine.slots
    BY <1>2 DEF SameButRead, SameButRefs
  <2>2. SameControl(machine, machine')
    BY <1>2 DEF SameButRead, SameButRefs, SameControl
  <2> QED BY <2>1, <2>2 DEF SlotsKept
<1>6. t \in {"ref", "refmut"}
  OBVIOUS
<1>7. /\ \A q \in RefName : q # r => machine'.refs[q].slot = machine.refs[q].slot
      /\ machine.running => machine'.refs[r].slot = s
  BY <1>2
<1> HIDE DEF s, t, info
<1>8. Base(checker', code, machine', blocks', hidden)
  BY <1>2, <1>3, <1>4, <1>5, <1>6, <1>7, BaseRef DEF Agree
<1> QED BY <1>2, <1>8 DEF Agree

\* The start of an if keeps the checker's table, the generator's maps and the slots in
\* agreement.
LEMMA IfAgrees ==
  ASSUME Agree, If
  PROVE  Agree'
<1>1. PICK b : IfFacts(b)
  BY IfIs
<1>2. /\ checker' = Sema!pushOwnershipScope(checker) /\ code' = code /\ Len(blocks) > 0
      /\ MachineInv(machine') /\ SlotsKept(machine, machine') /\ SameRefSlots(machine, machine')
      /\ (machine'.returned <=> machine.returned) /\ hidden' = hidden
  BY IfIs
<1>3. /\ b.kind \notin {"body", "iflet"} /\ DOMAIN b.names = {} /\ b.scope = Len(checker.scopes) + 1
      /\ (b.reached <=> machine.running) /\ Pushed(blocks, blocks', b)
      /\ (machine'.running <=> machine.running /\ b.taken)
  BY <1>1 DEF IfFacts
<1> DEFINE d == Sema!pushOwnershipScope(checker)
<1>4. d = Sema!pushOwnershipScope(checker)
  OBVIOUS
<1> HIDE DEF d
<1>5. Base(d, code, machine', blocks', hidden)
  BY <1>2, <1>3, <1>4, BasePushed DEF Agree
<1> QED BY <1>2, <1>4, <1>5 DEF Agree

\* The start of an if let keeps the checker's table, the generator's maps and the slots in
\* agreement.
LEMMA IfLetAgrees ==
  ASSUME Agree, NEW v \in Name, NEW x \in Name, IfLet(v, x)
  PROVE  Agree'
<1>1. PICK i, e, b : IfLetFacts(v, x, i, e, b)
  BY IfLetHead
<1>2. Len(blocks) > 0 /\ hidden' = hidden \ {v}
  BY IfLetHead
<1>3. Meant(x, i) /\ Type(x) = "optional"
  BY <1>1 DEF IfLetFacts
<1> DEFINE taken == machine.slots[Slot(x)].val \notin {Nothing, Garbage}
<1>4. PICK loaded, bound : TakeFacts(x, taken, loaded, bound)
  BY <1>3, IfLetMachine
<1>5. /\ b.kind = "iflet" /\ b.binding = v /\ DOMAIN b.names = {v}
      /\ b.names[v] = Entry("struct", Len(machine.slots) + 1)
      /\ (b.reached <=> machine.running) /\ (b.taken <=> taken) /\ Map(b.saved) = Map(code)
      /\ Pushed(blocks, blocks', b) /\ Entered(checker, checker', b)
      /\ NewMap(code, code', v, Len(machine.slots) + 1) /\ v \in code'.varStructTypes
  BY <1>1 DEF IfLetFacts
<1>6. /\ MachineInv(machine') /\ SlotAdded(machine, machine', "struct")
      /\ (machine'.running <=> machine.running /\ b.taken) /\ (machine'.returned <=> machine.returned)
      /\ SameRefSlots(machine, machine')
  BY <1>4, <1>5 DEF TakeFacts, SameRefSlots
<1> HIDE DEF taken
<1>7. Base(checker', code', machine', blocks', hidden \ {v})
  BY <1>2, <1>5, <1>6, BaseIfLet DEF Agree
<1> QED BY <1>2, <1>7 DEF Agree

\* The start of an else keeps the checker's table, the generator's maps and the slots in
\* agreement.
LEMMA ElseAgrees ==
  ASSUME Agree, Else
  PROVE  Agree'
<1>1. PICK c, g, m, b : ElseFacts(c, g, m, b)
  BY ElseIs
<1>2. /\ checker' = Sema!pushOwnershipScope(c) /\ code' = g /\ hidden' = hidden \cup ShadowedBy(blocks)
      /\ Len(blocks) > 1 /\ blocks[Len(blocks)].kind # "else"
      /\ b \in Blocks /\ b.kind = "else" /\ DOMAIN b.names = {} /\ b.scope = Len(checker'.scopes)
      /\ (b.reached <=> blocks[Len(blocks)].reached) /\ (b.taken <=> ~blocks[Len(blocks)].taken)
      /\ Replaced(blocks, blocks', b)
      /\ MachineInv(machine') /\ SlotsKept(machine, machine') /\ SameRefSlots(machine, machine')
      /\ (machine'.running <=> blocks[Len(blocks)].reached /\ ~blocks[Len(blocks)].taken)
      /\ (machine'.returned <=> machine.returned)
  BY <1>1 DEF ElseFacts
<1>3. /\ Exited(checker, c, blocks) /\ g \in Generators
      /\ Map(g) = IF blocks[Len(blocks)].kind = "iflet" THEN Map(blocks[Len(blocks)].saved) ELSE Map(code)
  BY <1>1 DEF ElseFacts, LeaveFacts
<1> DEFINE d2 == Sema!pushOwnershipScope(c)
<1>4. d2 = Sema!pushOwnershipScope(c) /\ checker' = d2
  BY <1>2
<1>5. b.scope = Len(d2.scopes)
  BY <1>2
<1> HIDE DEF d2
<1>6. Base(d2, g, machine', blocks', hidden \cup ShadowedBy(blocks))
  BY <1>2, <1>3, <1>4, <1>5, BaseElse DEF Agree
<1> QED BY <1>2, <1>4, <1>6 DEF Agree

\* The end of an if or an if let keeps the checker's table, the generator's maps and the slots
\* in agreement.
LEMMA EndIfAgrees ==
  ASSUME Agree, EndIf
  PROVE  Agree'
<1>1. PICK c, g, m, r : EndIfFacts(c, g, m, r)
  BY EndIfIs
<1>2. /\ SameTable(c, checker') /\ code' = g /\ hidden' = hidden \cup ShadowedBy(blocks)
      /\ Len(blocks) > 1 /\ Popped(blocks, blocks')
      /\ MachineInv(machine') /\ SlotsKept(machine, machine') /\ SameRefSlots(machine, machine')
      /\ (machine'.running <=> blocks[Len(blocks)].reached /\ ~machine.returned)
      /\ (machine'.returned <=> machine.returned)
  BY <1>1 DEF EndIfFacts
<1>3. /\ Exited(checker, c, blocks) /\ g \in Generators
      /\ Map(g) = IF blocks[Len(blocks)].kind = "iflet" THEN Map(blocks[Len(blocks)].saved) ELSE Map(code)
  BY <1>1 DEF EndIfFacts, LeaveFacts
<1>4. Base(checker', g, machine', blocks', hidden \cup ShadowedBy(blocks))
  BY <1>2, <1>3, BasePopped DEF Agree
<1> QED BY <1>2, <1>4 DEF Agree

\* A return keeps the checker's table, the generator's maps and the slots in agreement.
LEMMA ReturnAgrees ==
  ASSUME Agree, NEW x \in Name \cup {NoName}, Return(x)
  PROVE  Agree'
<1>1. PICK valued, given, cleaned, flag : ReturnFacts(x, valued, given, cleaned, flag)
  BY ReturnIs
<1>2. /\ checker' = checker /\ Left(blocks, blocks') /\ code' \in Generators /\ Map(code') = Map(code)
      /\ MachineInv(machine') /\ SlotsKept(machine, machine') /\ SameRefSlots(machine, machine')
      /\ hidden' = hidden
  BY ReturnIs
<1>3. ~machine'.running /\ (machine'.returned <=> machine.returned \/ machine.running)
  BY <1>1 DEF ReturnFacts
<1>4. SameTable(checker, checker')
  BY <1>2, AgreeIs DEF SameTable
<1>5. Base(checker', code', machine', blocks', hidden)
  BY <1>2, <1>3, <1>4, BaseLeft DEF Agree
<1> QED BY <1>2, <1>5 DEF Agree

\* The end of the function keeps the checker's table, the generator's maps and the slots in
\* agreement.
LEMMA EndFunctionAgrees ==
  ASSUME Agree, EndFunction
  PROVE  Agree'
<1>1. PICK cleaned, flag : EndFunctionFacts(cleaned, flag)
  BY EndFunctionIs
<1>2. /\ Len(blocks) = 1 /\ blocks' = <<>> /\ checker' = Sema!dropScopeVariables(checker)
      /\ code' = code /\ hidden' = hidden
      /\ MachineInv(machine') /\ SlotsKept(machine, machine')
      /\ (machine'.returned <=> machine.returned)
      /\ ~machine'.running \/ machine'.running = machine.running
  BY <1>1 DEF EndFunctionFacts
<1> DEFINE d == Sema!dropScopeVariables(checker)
<1>3. d = Sema!dropScopeVariables(checker) /\ checker' = d
  BY <1>2
<1> HIDE DEF d
<1>4. Base(d, code, machine', <<>>, hidden)
  BY <1>2, <1>3, BaseEmpty DEF Agree
<1> QED BY <1>2, <1>3, <1>4 DEF Agree

\* Every step keeps the checker's table, the generator's maps and the slots in agreement.
LEMMA AgreeStep ==
  ASSUME Agree, [ONext]_ovars
  PROVE  Agree'
<1>1. ASSUME NEW n \in Name, Declares(n)
      PROVE  Agree'
  BY <1>1, DeclStep DEF DeclFacts
<1>2. CASE UNCHANGED ovars
  BY <1>2 DEF ovars, Agree
<1> QED BY <1>1, <1>2, UseAgrees, UseRefAgrees, AssignNewAgrees, AssignAgrees, AssignThroughAgrees,
           RefAgrees, IfAgrees, IfLetAgrees, ElseAgrees, EndIfAgrees, ReturnAgrees, EndFunctionAgrees
    DEF ONext, Declares

\* The machine starts with no slot, no value and nothing dropped.
LEMMA MachineStarts ==
  /\ MachineInv(Machine) /\ Machine.running /\ ~Machine.returned /\ Machine.slots = <<>>
  /\ Machine.home = <<>> /\ Machine.drops = {} /\ Machine.read = noRead
<1> DEFINE R == noRead
           F == [r \in RefName |-> [slot |-> 0, sees |-> Nothing]]
<1>1. R \in [got : Vals, due : Vals] /\ F \in [RefName -> [slot : Nat, sees : Vals]]
  BY DEF noRead, Vals
<1>2. Machine = [running |-> TRUE, returned |-> FALSE, slots |-> <<>>, home |-> <<>>,
                 drops |-> {}, read |-> R, refs |-> F]
  BY DEF Machine
<1> HIDE DEF R, F
<1>3. Machine \in Machines
  <2>1. <<>> \in Seq(SlotRecords) /\ <<>> \in Seq(Homes)
    OBVIOUS
  <2>2. {} \in SUBSET [slot : Nat, val : Vals, home : Homes]
    OBVIOUS
  <2>3. TRUE \in BOOLEAN /\ FALSE \in BOOLEAN
    OBVIOUS
  <2> QED BY <1>1, <1>2, <2>1, <2>2, <2>3 DEF Machines, SlotRecords
<1>4. /\ Machine.running /\ ~Machine.returned /\ Machine.slots = <<>>
      /\ Machine.home = <<>> /\ Machine.drops = {} /\ Machine.read = noRead
  BY <1>2 DEF R
<1>5. MachineInv(Machine)
  BY <1>3, <1>4 DEF MachineInv
<1> QED BY <1>4, <1>5

\* The checker starts with two scopes and no variable.
LEMMA CheckerStarts ==
  ASSUME NEW c, c = Sema!pushOwnershipScope(Sema!Checker)
  PROVE  /\ IsChecker(c) /\ c.ok /\ Len(c.scopes) = 2 /\ DOMAIN c.scopes[2] = {}
         /\ \A n \in Names : c.all[n] = 0
<1> DEFINE b == Sema!Checker
           N == Sema!NoEntries
           A == [n \in Names |-> 0]
<1>1. DOMAIN N = {} /\ N = [n \in DOMAIN N |-> N[n]]
  BY DEF Sema!NoEntries
<1>2. b = [scopes |-> <<N>>, all |-> A, ok |-> TRUE]
  BY DEF Sema!Checker, Names
<1> HIDE DEF N, b
<1>3. N \in Scopes
  <2>1. \A n \in DOMAIN N : Records(n, N[n])
    BY <1>1
  <2> QED BY <1>1, <2>1, ScopeMade
<1> DEFINE S == <<N>>
<1>4. S \in Seq(Scopes) /\ Len(S) = 1
  BY <1>3
<1>5. A \in [Names -> Nat] /\ \A n \in Names : A[n] = 0
  OBVIOUS
<1> HIDE DEF A, S
<1>6. b = [scopes |-> S, all |-> A, ok |-> TRUE]
  BY <1>2 DEF S
<1>7. IsChecker(b)
  BY <1>4, <1>5, <1>6, CheckerMade
<1>8. b.ok /\ b.all = A /\ Len(b.scopes) = 1
  BY <1>4, <1>6
<1>9. c = Sema!pushOwnershipScope(b)
  BY DEF b
<1>10. /\ IsChecker(c) /\ c.ok = b.ok /\ c.all = b.all
       /\ Len(c.scopes) = Len(b.scopes) + 1 /\ DOMAIN c.scopes[Len(b.scopes) + 1] = {}
  BY <1>7, <1>9, PushScopeIs
<1> QED BY <1>5, <1>8, <1>10

\* The checker's table, the generator's maps and the slots agree in the initial state.
LEMMA AgreeStarts ==
  ASSUME OInit
  PROVE  Agree
<1> DEFINE b == blocks[1]
<1>1. /\ checker = Sema!pushOwnershipScope(Sema!Checker) /\ code = Generator /\ machine = Machine
      /\ blocks = <<Block("body", Sema!NoEntries, 2, TRUE, TRUE, NoName, Generator)>>
      /\ hidden = {}
  BY DEF OInit
<1>2. Len(blocks) = 1 /\ b = Block("body", Sema!NoEntries, 2, TRUE, TRUE, NoName, Generator)
      /\ blocks = <<b>>
  BY <1>1
<1> HIDE DEF b
<1>3. /\ b \in Blocks /\ b.kind = "body" /\ DOMAIN b.names = {} /\ b.scope = 2
      /\ b.reached /\ b.taken /\ ~b.left /\ b.binding = NoName /\ b.saved = Generator
  <2>1. \E k, s, t : k = "body" /\ s = 2 /\ t = TRUE
    OBVIOUS
  <2>2. PICK k, s, t : k = "body" /\ s = 2 /\ t = TRUE
    BY <2>1
  <2>3. b = Block(k, Sema!NoEntries, s, t, t, NoName, Generator)
    BY <1>2, <2>2
  <2>4. k \in {"body", "then", "else"} /\ s \in Nat /\ t \in BOOLEAN
    BY <2>2
  <2>5. /\ b \in Blocks /\ b.kind = k /\ DOMAIN b.names = {} /\ b.scope = s
        /\ (b.reached <=> t) /\ (b.taken <=> t) /\ b.binding = NoName /\ ~b.left
        /\ b.saved = Generator
    BY <2>3, <2>4, PlainBlock
  <2> QED BY <2>2, <2>5
<1>4. /\ IsChecker(checker) /\ checker.ok /\ Len(checker.scopes) = 2 /\ DOMAIN checker.scopes[2] = {}
      /\ \A n \in Names : checker.all[n] = 0
  BY <1>1, CheckerStarts
<1>5. blocks \in Seq(Blocks) /\ blocks[1] = b /\ \A i \in 1..Len(blocks) : i = 1
  <2>1. <<b>> \in Seq(Blocks) /\ <<b>>[1] = b
    BY <1>3
  <2>2. \A i \in 1..Len(blocks) : i = 1
    BY <1>2
  <2> QED BY <1>2, <2>1, <2>2
<1>6. \A n : ~Has(blocks, 1, n)
  BY <1>3, <1>5 DEF Has
<1>7. ShapeInv(checker, blocks)
  <2>1. Floor(b) = 2
    BY <1>3 DEF Floor
  <2>2. \A i \in 1..Len(blocks) : (blocks[i].kind = "body" <=> i = 1) /\ 2 <= Floor(blocks[i])
    BY <1>3, <1>5, <2>1
  <2>3. \A i \in 1..Len(blocks) - 1 : Floor(blocks[i + 1]) = blocks[i].scope + 1
    BY <1>2
  <2>4. \A i, j \in 1..Len(blocks) : i < j => blocks[i].scope < Floor(blocks[j])
    BY <1>2
  <2>5. \A i \in 1..Len(blocks) :
          /\ DOMAIN checker.scopes[blocks[i].scope] = DOMAIN blocks[i].names \ {blocks[i].binding}
          /\ blocks[i].kind = "iflet" => DOMAIN checker.scopes[blocks[i].scope - 1] = {blocks[i].binding}
    BY <1>3, <1>4, <1>5
  <2> QED BY <1>2, <1>3, <1>4, <1>5, <2>2, <2>3, <2>4, <2>5 DEF ShapeInv
<1>8. TracksInv(checker, blocks, hidden)
  BY <1>1, <1>4, <1>5, <1>6 DEF TracksInv
<1>9. MachineInv(machine) /\ machine.running /\ ~machine.returned /\ machine.slots = <<>>
  BY <1>1, MachineStarts
<1>10. GenInv(code, blocks, machine, hidden)
  <2>1. \A G \in Maps(code, blocks) : G = Map(Generator)
    BY <1>1, <1>3, <1>5 DEF Maps
  <2> DEFINE G0 == Map(Generator)
  <2>2. \A a \in Name : G0.namedValues[a] = 0
    BY DEF Map, Generator
  <2>3. G0.varStructTypes = {}
    BY DEF Map, Generator
  <2> HIDE DEF G0
  <2>4. Len(machine.slots) = 0
    BY <1>9
  <2>5. MapsInv(Maps(code, blocks), Len(machine.slots))
    BY <2>1, <2>2, <2>3, <2>4 DEF MapsInv, G0
  <2>6. \A i \in 1..Len(blocks), n \in Name : ~Has(blocks, i, n)
    BY <1>5, <1>6
  <2> QED BY <1>1, <2>5, <2>6, GeneratorTyped DEF GenInv
<1>11. PathsInv(machine, blocks)
  BY <1>2, <1>3, <1>5, <1>9, ZenonT(60) DEF PathsInv
<1>12. RefSlots(machine, blocks)
  BY <1>5, <1>6 DEF RefSlots
<1> QED BY <1>7, <1>8, <1>9, <1>10, <1>11, <1>12 DEF Agree, Base

\* The checker's scopes and table, the generator's maps and the slots of the variables agree in
\* every state: no statement, block end or restored map leaves one of them pointing at another
\* variable than the others.
THEOREM TablesAgree == OSpec => []Agree
<1>1. OInit => Agree
  BY AgreeStarts
<1>2. Agree /\ [ONext]_ovars => Agree'
  BY AgreeStep
<1> QED BY <1>1, <1>2, PTL DEF OSpec
=============================================================================
