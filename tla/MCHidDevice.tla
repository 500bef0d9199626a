---------------------------- MODULE MCHidDevice ----------------------------
(* HidDevice with the report lengths of the i.MX ROM: 1025 out, 65 in,     *)
(* kept only as two different numbers.                                     *)
EXTENDS HidDevice

MCInLen  == 2
MCOutLen == 4
=============================================================================
