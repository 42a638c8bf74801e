-------------------------- MODULE MCAsyncPrograms --------------------------
(***************************************************************************)
(* Classes of async programs for TLC, each of async main and one or two more *)
(* tasks.                                                                  *)
(***************************************************************************)
EXTENDS AsyncBlocking

CONSTANTS main, a, b, null

MCTask == {main, a, b}

Class(features, delays, maxTime) == [features |-> features, delays |-> delays, maxTime |-> maxTime]

\* Plain programs, with sleeps of different lengths; and programs that use everything,
\* with a clock of one instant.
MCPrograms == {Class({"race"}, {1, 2}, 3), Class(AllFeatures, {1}, 1)}

\* Programs whose tasks may suspend before async main does.
EagerPrograms == {Class({"eager"}, {0, 1}, 2)}

\* Plain programs, but for the blocking calls.
GroupPrograms == {Class({"blocking"}, {1}, 3)}
=============================================================================
