------------------------------ MODULE MCImages ------------------------------
(* Constants for TLC: files of every kind, with their IVT at the start or   *)
(* further on, HDMI firmware in front of it, DCDs with checks between the   *)
(* writes, FITs with one and with several loadables, and containers.        *)
EXTENDS Images

MCScuWindow == 32768..40959

NoFit == [images |-> <<>>, configs |-> <<>>, default |-> <<>>]
Base == [dev |-> "MX6", hdmi |-> {}, at |-> 0, kind |-> "code", sig |-> IVT, dcd |-> <<>>,
         fit |-> NoFit, containers |-> <<<<>>, <<>>>>, size |-> 2048, beyond |-> 0, noise |-> <<>>]

Write_(n) == [tag |-> WRT_DAT, args |-> [i \in 1..n |-> <<100 + i, 10 * n + i>>]]
Check == [tag |-> CHK_DAT, args |-> <<100, 4, Header(WRT_DAT, 12)>>]
Nop == [tag |-> NOP_CMD, args |-> <<>>]
Dcds == {<<>>, <<Write_(2)>>, <<Write_(1), Check, Write_(2)>>, <<Check, Nop, Write_(1), Check>>}

\* The IVT at each step, with or without HDMI firmware at the steps before.
Spots == {<<0, {}>>, <<256, {}>>, <<256, {0}>>, <<512, {0, 256}>>, <<768, {256}>>}

Codes ==
  {[Base EXCEPT !.dev = dev, !.sig = sig, !.at = p[1], !.hdmi = p[2], !.dcd = dcd] :
     dev \in {"MX6", "MX50"}, sig \in {IVT, IVT2}, p \in Spots, dcd \in Dcds}
Plugins ==
  {[Base EXCEPT !.kind = kind, !.at = p[1], !.hdmi = p[2]] : kind \in {"ivt", "legacy"}, p \in Spots}

Im(name, load, offset, size, entry) ==
  [name |-> <<name>>, load |-> load, offset |-> offset, size |-> size, entry |-> entry]
FitImages == <<Im("uboot", 4096, 0, 64, NoEntry), Im("atf", 5120, 64, 32, 5120),
               Im("dtb", 0, 96, 16, NoEntry), Im("tee", 6144, 112, 48, 6148)>>
Config(name, firmware, loadables) ==
  [name |-> <<name>>,
   lists |-> <<[type |-> "firmware", names |-> <<<<firmware>>>>],
               [type |-> "loadables", names |-> loadables],
               [type |-> "fdt", names |-> <<<<"dtb">>>>]>>]
Fits ==
  {[images |-> FitImages, default |-> <<"b">>,
    configs |-> <<Config("a", "atf", <<<<"tee">>>>), Config("b", "uboot", l)>>] :
     l \in {<<<<"atf">>>>, <<<<"atf">>, <<"tee">>>>, <<<<"tee">>, <<"atf">>>>, <<<<"uboot">>>>}}
FitFiles ==
  {[Base EXCEPT !.kind = "fit", !.fit = f, !.at = p[1], !.hdmi = p[2]] : f \in Fits, p \in Spots}

Sub(offset, addr, size) == [offset |-> offset, addr |-> addr, size |-> size]
MultiFiles ==
  {[Base EXCEPT !.kind = "containers", !.dev = dev, !.sig = sig, !.dcd = dcd, !.containers = cs] :
     dev \in {"MX8QM", "MX8QXP"}, sig \in {MX8_IVT, MX8_IVT2}, dcd \in Dcds,
     cs \in { << <<Sub(2048, 33000, 100)>>, <<Sub(2304, 50000, 200), Sub(2560, 1000, 4)>> >>,
              << <<Sub(2048, 33000, 100), Sub(2304, 50000, 200)>>, <<>> >> }}

MCFiles == Codes \cup Plugins \cup FitFiles \cup MultiFiles
NoIvtFiles == {[Base EXCEPT !.kind = "none", !.noise = noise, !.at = -1] : noise \in {<<>>, <<0, 16>>}}
=============================================================================
