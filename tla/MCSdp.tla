------------------------------- MODULE MCSdp -------------------------------
(* Sdp with an image file of each kind, small enough for TLC and laid out    *)
(* so that every download takes several reports and some several commands.   *)
EXTENDS Sdp

MCAddresses == 0..15
None == [boot |-> 0, self |-> 0, entry |-> 0]

\* A DCD image whose code starts with the file: CodeOffset is 0.
DcdImage(soc, dcd) ==
  [family |-> soc, dcd |-> dcd, plugin |-> 0, ivt |-> 1, boot |-> 3, self |-> 4,
   entry |-> 3, second |-> "none", next |-> None, code |-> 0, size |-> 5,
   task |-> "RUN", segs |-> <<>>]

\* The same with its IVT in front of the code, as mkimage lays it out.
IvtFirst == [DcdImage("MX6", 1) EXCEPT !.ivt = 0, !.entry = 5]

PluginUImage ==
  [family |-> "MX6", dcd |-> 0, plugin |-> 1, ivt |-> 0, boot |-> 14, self |-> 14,
   entry |-> 14, second |-> "uimage", next |-> [boot |-> 4, self |-> 0, entry |-> 4],
   code |-> 2, size |-> 5, task |-> "RUN", segs |-> <<>>]

PluginIvt(what) ==
  [family |-> "MX6", dcd |-> 0, plugin |-> 1, ivt |-> 0, boot |-> 14, self |-> 14,
   entry |-> 14, second |-> "ivt", next |-> [boot |-> 4, self |-> 5, entry |-> 4],
   code |-> 1, size |-> 4, task |-> what, segs |-> <<>>]

\* Two containers, whose images touch: rounding overlaps the first end.
Containers ==
  [family |-> "MX8", dcd |-> 2, plugin |-> 0, ivt |-> 0, boot |-> 4, self |-> 4,
   entry |-> 8, second |-> "none", next |-> None, code |-> 0, size |-> 7,
   task |-> "RUN",
   segs |-> << [from |-> 2, cells |-> 3, addr |-> 8],
               [from |-> 5, cells |-> 2, addr |-> 11] >>]

MCImages ==
  {DcdImage("MX6", 1), DcdImage("MX50", 3), PluginUImage, PluginIvt("RUN"),
   PluginIvt("RUN_PLUGIN"), Containers, [Containers EXCEPT !.task = "RUN_PLUGIN"]}
MCIvtFirst == {IvtFirst}

\* The images of the passing run are in place once loaded, the other is not.
ASSUME InPlaceAssumption == (\A i \in MCImages : LoadedInPlace(i)) /\ ~LoadedInPlace(IvtFirst)

MCPlugin   == {PluginIvt("RUN")}
=============================================================================
