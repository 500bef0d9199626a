--------------------------- MODULE MCStHidDevice ---------------------------
(* StHidDevice with reports of two bytes of data: files of one report, of a *)
(* full last report and of an incomplete one.                               *)
EXTENDS StHidDevice

MCSizes == 1..6
MCEmpty == {0}
=============================================================================
