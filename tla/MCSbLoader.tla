----------------------------- MODULE MCSbLoader -----------------------------
(* Constants for TLC: boards of every kind, two of them at once, and a bus  *)
(* without one.                                                             *)
EXTENDS SbLoader
I(p, r) == [part |-> p, rev |-> r]
BusesSmall ==
  {<<>>, <<I("MX28", "A")>>, <<I("none", "A"), I("MX8QM", "A")>>,
   <<I("MX8QXP", "A"), I("MX6", "A")>>}
HandlesSmall == 1..14
=============================================================================
