--------------------------- MODULE MCTestFailover ---------------------------
(***************************************************************************)
(* Instances of TestFailover.  Group g1 has the initiator i1 of host h1;   *)
(* g2 has a free initiator i2, for which the SRA makes a host.  In the     *)
(* instance with liveness i2 is in both groups, and g2 has i3 of host h2.  *)
(***************************************************************************)
EXTENDS TestSafety, TLC

CONSTANTS d1, d2, s1, s2, h1, h2, i1, i2, i3, g1, g2

TestInitiators == (g1 :> {i1}) @@ (g2 :> {i2})
TestHosts == (i1 :> h1) @@ (i2 :> NoHost)
TestGroups == (d1 :> {g1, g2}) @@ (d2 :> {g1})

MapInitiators == (g1 :> {i1, i2}) @@ (g2 :> {i2, i3})
MapHosts == (i1 :> h1) @@ (i2 :> NoHost) @@ (i3 :> h2)
MapGroups == d1 :> {g1, g2}
=============================================================================
