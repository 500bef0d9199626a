------------------------------ MODULE HidPort ------------------------------
(***************************************************************************)
(* What a HID handle owes to the protocols above it, whatever the timing:  *)
(* a call that reports success never runs ahead of the device.  Only the   *)
(* four counts a caller could compare are kept.                            *)
(*   accepted  output reports the device has accepted                      *)
(*   written   calls of CHidDevice::Write that returned ERROR_SUCCESS      *)
(*   taken     input reports taken from the device by the host             *)
(*   received  calls of CHidDevice::Read that returned ERROR_SUCCESS       *)
(***************************************************************************)
EXTENDS Naturals

VARIABLES accepted, written, taken, received

vars == <<accepted, written, taken, received>>

Init == accepted = 0 /\ written = 0 /\ taken = 0 /\ received = 0

\* The device accepts one output report.
Accept == /\ accepted' = accepted + 1
          /\ UNCHANGED <<written, taken, received>>

\* A Write returns success; some accepted report has not been credited yet.
WriteOk == /\ written < accepted
           /\ written' = written + 1
           /\ UNCHANGED <<accepted, taken, received>>

\* The host takes one input report from the device.
Take == /\ taken' = taken + 1
        /\ UNCHANGED <<accepted, written, received>>

\* A Read returns success; some taken report has not been credited yet.
ReadOk == /\ received < taken
          /\ received' = received + 1
          /\ UNCHANGED <<accepted, written, taken>>

Next == Accept \/ WriteOk \/ Take \/ ReadOk

Spec == Init /\ [][Next]_vars
=============================================================================
