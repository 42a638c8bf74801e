---------------------------- MODULE ClassObjects ----------------------------
(***************************************************************************)
(* An instance of a class: a function constructs it, stores into its         *)
(* fields, calls its methods and passes it to functions whose parameter has  *)
(* the type of an ancestor; methods call others on self, or super's. How a   *)
(* field is found and a call is dispatched depends on the class under which  *)
(* a function's variable, parameter or self is registered (varClassTypes).   *)
(***************************************************************************)
EXTENDS Naturals, Sequences, SequencesExt, TLC

(***************************************************************************)
(* What the compiler computes for a hierarchy of classes before it emits     *)
(* their code: the fields of an instance in their order, and the vtable.     *)
(* A hierarchy is a sequence of classes [parent, fields, methods]; parent    *)
(* is the number of an earlier class (preDeclareClass makes the parent       *)
(* first, wherever it stands in the file) or NoParent.                       *)
(***************************************************************************)

NoParent == 0

\* parentChain: the ancestors of class k, the root first.
ParentChain(h) ==
  LET chain[k \in DOMAIN h] ==
        IF h[k].parent = NoParent THEN <<>> ELSE Append(chain[h[k].parent], h[k].parent)
  IN  chain

Lineage(h, k) == Append(ParentChain(h)[k], k)

OwnFieldsFirst(h) ==
  LET names[k \in DOMAIN h] ==
        h[k].fields \o FlattenSeq([i \in DOMAIN ParentChain(h)[k] |-> names[ParentChain(h)[k][i]]])
  IN  names

\* classFieldNames_: what every ancestor's entry holds, the root's first, then the class's own.
FieldNames(h) ==
  LET names[k \in DOMAIN h] ==
        FlattenSeq([i \in DOMAIN ParentChain(h)[k] |-> names[ParentChain(h)[k][i]]]) \o h[k].fields
  IN  names

\* The first field of that name (an access scans classFieldNames_); 0: there is none.
FieldSlot(h, k, f) ==
  LET hits == {i \in DOMAIN FieldNames(h)[k] : FieldNames(h)[k][i] = f}
  IN  IF hits = {} THEN 0 ELSE CHOOSE i \in hits : \A j \in hits : i <= j

NothingInherited(h) == [k \in DOMAIN h |-> <<"deinit">> \o h[k].methods]

\* classVtableMethods_: the table of the first ancestor that has one, with the methods
\* of the class that are not in it behind it.
VtableMethods(h) ==
  LET table[k \in DOMAIN h] ==
        LET chain == ParentChain(h)[k]
            first == IF chain = <<>> THEN <<"deinit">> ELSE table[Head(chain)]
        IN  first \o SelectSeq(h[k].methods, LAMBDA m : ~Contains(first, m))
  IN  table

\* classMethodIndices_; 0: the name is in no table of the class.
MethodIndex(h, k, m) ==
  IF Contains(VtableMethods(h)[k], m)
  THEN CHOOSE i \in DOMAIN VtableMethods(h)[k] : VtableMethods(h)[k][i] = m ELSE 0

\* The class whose function of that name a walk from class k to the root meets first.
Definer(h, k, m) ==
  LET line == Lineage(h, k)
      own == {i \in DOMAIN line : m = "deinit" \/ Contains(h[line[i]].methods, m)}
  IN  IF own = {} THEN NoParent ELSE line[CHOOSE i \in own : \A j \in own : i >= j]

\* vtable_<Class>: per name of the table, the class whose function is stored.
Vtable(h, k) == [i \in DOMAIN VtableMethods(h)[k] |-> Definer(h, k, VtableMethods(h)[k][i])]

\* `is` and `as?`: the object's vtable is that of the target or of a descendant, as far
\* as those have been emitted.
IsInstance(h, emitted, k, target) ==
  {target, k} \subseteq emitted /\ Contains(Lineage(h, k), target)

-----------------------------------------------------------------------------

CONSTANTS
  Hierarchies,   \* what programs declare; the last class is instantiated
  Fresh,         \* the content of memory from malloc
  Contents,      \* what is stored in fields
  MaxCalls       \* bound on nested calls

VARIABLES
  hierarchy,
  memory,    \* the fields of the instance
  assigned,  \* ghost: field -> what was last stored in it
  calls,     \* the functions entered, innermost last: [kind, registered, name]
  deinits,   \* the classes whose deinit bodies have run
  frees      \* how often the memory was given to free()

objectVars == <<hierarchy, memory, assigned, calls, deinits, frees>>

Object == Len(hierarchy)   \* its class
Running == calls[Len(calls)]
Function(k) == [kind |-> "function", registered |-> k, name |-> ""]

\* An operation of the innermost function on the object it has.
Uses == calls # <<>> /\ Running.registered # NoParent /\ frees = 0

ObjectInit ==
  /\ hierarchy \in Hierarchies
  /\ memory = <<>> /\ assigned = <<>> /\ calls = <<>> /\ deinits = <<>> /\ frees = 0

\* let v = Class(...): the variable is registered under the class constructed.
Construct ==
  /\ calls = <<>> /\ frees = 0
  /\ memory' = [i \in DOMAIN FieldNames(hierarchy)[Object] |-> Fresh]
  /\ calls' = <<Function(Object)>>
  /\ UNCHANGED <<hierarchy, assigned, deinits, frees>>

\* v.f = x, or self.f = x in a method.
StoreField ==
  /\ Uses
  /\ \E f \in Range(FieldNames(hierarchy)[Running.registered]), x \in Contents :
       /\ memory' = [memory EXCEPT ![FieldSlot(hierarchy, Running.registered, f)] = x]
       /\ assigned' = (f :> x) @@ assigned
  /\ UNCHANGED <<hierarchy, calls, deinits, frees>>

\* v.m() or self.m(): the entry of the object's vtable at the index the registered class
\* has for the name; behind the table's end it is anything.
CallMethod ==
  /\ Uses /\ Len(calls) < MaxCalls
  /\ \E m \in Range(VtableMethods(hierarchy)[Running.registered]) \ {"deinit"} :
       LET i == MethodIndex(hierarchy, Running.registered, m)
           table == Vtable(hierarchy, Object)
       IN  calls' = Append(calls, [kind |-> "method", name |-> m,
                                   registered |-> IF i \in DOMAIN table THEN table[i] ELSE NoParent])
  /\ UNCHANGED <<hierarchy, memory, assigned, deinits, frees>>

\* super.m(): the immediate parent's own function; when it has none, nothing is called.
CallSuper ==
  /\ Uses /\ Len(calls) < MaxCalls
  /\ Running.kind # "function"
  /\ LET parent == hierarchy[Running.registered].parent
     IN  /\ parent # NoParent
         /\ \E m \in UNION {Range(hierarchy[k].methods) : k \in Range(Lineage(hierarchy, parent))} :
              calls' = Append(calls, [kind |-> "super", name |-> m,
                                      registered |-> IF Contains(hierarchy[parent].methods, m)
                                                     THEN parent ELSE NoParent])
  /\ UNCHANGED <<hierarchy, memory, assigned, deinits, frees>>

\* f(v): a parameter is registered under its declared type, an ancestor of v's class.
Pass ==
  /\ Uses /\ Len(calls) < MaxCalls
  /\ \E k \in Range(Lineage(hierarchy, Running.registered)) : calls' = Append(calls, Function(k))
  /\ UNCHANGED <<hierarchy, memory, assigned, deinits, frees>>

\* <Class>_deinit: its body, its parent's deinit, and free(self).
DeinitBodies(k) == Reverse(Lineage(hierarchy, k))

\* A function's end: emitScopeCleanup calls entry 0 of the vtable for what is registered,
\* parameters included; self is left out.
Finish ==
  /\ calls # <<>> /\ frees = 0
  /\ calls' = Front(calls)
  /\ IF Running.kind = "function"
     THEN /\ deinits' = deinits \o DeinitBodies(Vtable(hierarchy, Object)[1])
          /\ frees' = frees + Len(Lineage(hierarchy, Object))
     ELSE UNCHANGED <<deinits, frees>>
  /\ UNCHANGED <<hierarchy, memory, assigned>>

ObjectNext ==
  \/ Construct \/ StoreField \/ CallMethod \/ CallSuper \/ Pass \/ Finish

ObjectSpec == ObjectInit /\ [][ObjectNext]_objectVars

-----------------------------------------------------------------------------
\* Where a class has two ancestors or more, its fields and its table are not those of
\* its parent with more behind them, unless the root has no fields, and the classes
\* between declare the methods of the root again and no others.
Deep(k) == Len(ParentChain(hierarchy)[k]) > 1
Root(k) == hierarchy[Head(Lineage(hierarchy, k))]

FieldsAsWritten == \A k \in DOMAIN hierarchy : Deep(k) => Root(k).fields = <<>>
MethodsAsWritten ==
  \A k \in DOMAIN hierarchy : Deep(k) =>
    \A i \in Range(ParentChain(hierarchy)[k]) : Range(hierarchy[i].methods) = Range(Root(k).methods)

\* A field is one place, under whatever ancestor's name the object is used (the indices of
\* visitMemberExpr and visitAssignExpr): what was stored last through any class is read
\* through every class that has the field.
FieldsHaveOnePlace ==
  \A f \in DOMAIN assigned, k \in DOMAIN hierarchy :
    FieldsAsWritten /\ k \in Range(Lineage(hierarchy, Object)) /\ FieldSlot(hierarchy, k, f) # 0
    => memory[FieldSlot(hierarchy, k, f)] = assigned[f]

\* What an object does depends on the class it was made of, never on the class a function
\* knows it by: calls run the nearest override, super's that above the caller's class, the
\* deinit bodies run from its class to the root, and `is` answers for that class.
ObjectDecides ==
  /\ \A i \in DOMAIN calls : MethodsAsWritten =>
       /\ calls[i].kind = "method" => calls[i].registered = Definer(hierarchy, Object, calls[i].name)
       /\ calls[i].kind = "super" =>
            calls[i].registered = Definer(hierarchy, hierarchy[calls[i - 1].registered].parent, calls[i].name)
  /\ frees > 0 => deinits = Reverse(Lineage(hierarchy, Object))
  /\ calls # <<>> => \A k \in DOMAIN hierarchy :
       IsInstance(hierarchy, DOMAIN hierarchy, Object, k) <=> k \in Range(Lineage(hierarchy, Object))
=============================================================================
