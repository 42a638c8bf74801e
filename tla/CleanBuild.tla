----------------------------- MODULE CleanBuild -----------------------------
(* What a build promises, whatever it caches: the executable of a            *)
(* configuration only ever changes to what a build from scratch of the       *)
(* sources of that moment gives.                                             *)
EXTENDS ProjectSources

VARIABLES source, exe

Init == source \in [File -> FileText] /\ exe = [c \in {} |-> {}]

Edit ==
  /\ \E f \in File, x \in FileText : source' = [source EXCEPT ![f] = x]
  /\ UNCHANGED exe

\* A build that is not accepted leaves the executable alone.
Build(c) ==
  /\ Accepted(Entry, source)
  /\ exe' = [d \in DOMAIN exe \cup {c} |->
               IF d = c THEN FromScratch(source, c) ELSE exe[d]]
  /\ UNCHANGED source

Next == Edit \/ \E c \in Config : Build(c)

Spec == Init /\ [][Next]_<<source, exe>>
=============================================================================
