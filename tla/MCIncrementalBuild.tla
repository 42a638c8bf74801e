------------------------- MODULE MCIncrementalBuild -------------------------
(* Instances of IncrementalBuild for TLC: main imports lib, and at times util. *)
EXTENDS IncrementalBuild, TLC

CONSTANTS main, lib, util, w1, w2, nobody

T(imports, iface, body, ok) ==
  [imports |-> imports, iface |-> iface, body |-> body, ok |-> ok]

MCFile == {main, lib, util}
MCWorker == {w1, w2}

\* main drops and takes up util; util changes its body; lib at times has an error.
ProjectTexts ==
  main :> {T({lib}, 0, 1, TRUE), T({lib, util}, 0, 2, TRUE)} @@
  lib  :> {T({}, 0, 1, TRUE), T({}, 0, 2, FALSE)} @@
  util :> {T({}, 0, 1, TRUE), T({}, 0, 2, TRUE)}

\* For the interfaces: that of lib changes.
IfaceTexts ==
  main :> {T({lib}, 0, 1, TRUE)} @@
  lib  :> {T({}, 1, 1, TRUE), T({}, 2, 2, TRUE), T({}, 1, 3, FALSE)} @@
  util :> {T({}, 0, 1, TRUE)}

Symmetric == Permutations(MCWorker)
=============================================================================
