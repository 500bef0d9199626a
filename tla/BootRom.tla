------------------------------ MODULE BootRom ------------------------------
(***************************************************************************)
(* The boot ROM of an i.MX part, as far as MxHidDevice relies on it        *)
(* (external): the SDP commands, RAM, the DCD, and the jump into a plugin  *)
(* or an image.  RAM and the image file are counted in cells; an input     *)
(* report carries one cell, an output report several.                      *)
(***************************************************************************)
EXTENDS Integers, Sequences

CONSTANTS
  Addresses,   \* RAM addresses, in cells
  CanSkip      \* a set of BOOLEAN: may SKIP_DCD_HEADER be supported or not

VARIABLES
  img,         \* the image file of this run, see module Sdp
  rom,         \* the ROM's state
  mem          \* RAM: the cell at each address

\* Cells, and input reports, which carry one.
Cell(what)   == [what |-> what, at |-> 0]
File(k)      == [what |-> "file", at |-> k]
IvtHeader(a) == [what |-> "header", at |-> a]
HAB          == Cell("HAB")
ErrorAck     == Cell("ROM_ERROR")

\* Output reports: an SDP command, or data.
Command(cmd, addr, count) ==
  [cmd |-> cmd, addr |-> addr, count |-> count, cells |-> <<>>]
Data(cells) ==
  [cmd |-> "DATA", addr |-> 0, count |-> Len(cells), cells |-> cells]

Nothing == Command("NONE", 0, 0)

\* mode    listening for reports, running the plugin, or running the image
\* cur     the transfer in progress, got the cells of it received
\* answers input reports it has yet to send
\* dcd     DCD cells executed
\* skip    the next IVT's DCD is to be skipped
\* entry   where it jumped to when it started the image
Init ==
  /\ rom \in [mode : {"listening"}, cur : {Nothing}, got : {0},
              answers : {<<>>}, dcd : {0}, skip : {FALSE}, canSkip : CanSkip,
              plugged : {FALSE}, entry : {0}]
  /\ mem = [a \in Addresses |-> Cell("junk")]

Answer(r) == rom.answers \o r

Transfer(r) ==
  /\ r.cmd \in {"WR_FILE", "DCD_WRITE"}
  /\ rom' = [rom EXCEPT !.cur = r, !.got = 0]
  /\ UNCHANGED mem

ReadMemory(r) ==
  /\ r.cmd = "RD_MEM"
  /\ rom' = [rom EXCEPT !.answers =
               Answer(<<HAB>> \o [i \in 1..r.count |-> mem[r.addr + i - 1]])]
  /\ UNCHANGED mem

SkipDcd(r) ==
  /\ r.cmd = "SKIP_DCD"
  /\ rom' = [rom EXCEPT
       !.skip = rom.canSkip,
       !.answers = Answer(<<HAB, IF rom.canSkip THEN Cell("ROM_OK_ACK") ELSE ErrorAck>>)]
  /\ UNCHANGED mem

\* Data of the transfer in progress; the last of it completes the command.
Receive(r) ==
  /\ r.cmd = "DATA" /\ rom.cur # Nothing
  /\ LET got  == rom.got + r.count
         done == got >= rom.cur.count
         base == rom.cur.addr + rom.got
         dcd  == rom.cur.cmd = "DCD_WRITE"
         good == dcd => \A i \in DOMAIN r.cells : r.cells[i] = Cell("dcd")
     IN  /\ mem' = IF dcd THEN mem
                   ELSE [a \in Addresses |-> IF a - base \in 0..(r.count - 1)
                                             THEN r.cells[a - base + 1] ELSE mem[a]]
         /\ rom' = [rom EXCEPT
              !.cur = IF done THEN Nothing ELSE rom.cur,
              !.got = got,
              !.dcd = IF dcd /\ good THEN rom.dcd + r.count ELSE rom.dcd,
              !.answers = IF ~done THEN rom.answers
                ELSE Answer(<<HAB, IF ~good THEN ErrorAck
                                   ELSE IF dcd THEN Cell("ROM_WRITE_ACK")
                                   ELSE Cell("ROM_STATUS_ACK")>>)]

\* The IVT the host asks to jump to, by the cell found at that address.
PluginAt(a) == img.plugin > 0 /\ mem[a] = File(img.ivt)
MainIvt     == IF img.second = "ivt" THEN img.code ELSE img.ivt
ImageAt(a)  == mem[a] = File(MainIvt) /\ ~PluginAt(a)
EntryOf(a)  ==
  IF mem[a].what = "header" THEN mem[a].at
  ELSE IF img.second = "ivt" THEN img.next.entry ELSE img.entry

JumpToPlugin(r) ==
  /\ r.cmd = "JUMP" /\ PluginAt(r.addr)
  /\ rom' = [rom EXCEPT !.mode = "plugin", !.answers = Answer(<<HAB>>)]
  /\ UNCHANGED mem

\* The image starts, after its own DCD unless that is to be skipped.
JumpToImage(r) ==
  /\ r.cmd = "JUMP" /\ (ImageAt(r.addr) \/ mem[r.addr].what = "header")
  /\ rom' = [rom EXCEPT
       !.mode = "image", !.entry = EntryOf(r.addr),
       !.dcd = IF ImageAt(r.addr) /\ ~rom.skip THEN rom.dcd + img.dcd ELSE rom.dcd,
       !.answers = Answer(<<HAB>>)]
  /\ UNCHANGED mem

JumpRefused(r) ==
  /\ r.cmd = "JUMP"
  /\ ~PluginAt(r.addr) /\ ~ImageAt(r.addr) /\ mem[r.addr].what # "header"
  /\ rom' = [rom EXCEPT !.answers = Answer(<<HAB, ErrorAck>>)]
  /\ UNCHANGED mem

\* One output report is handled; data no transfer asked for is ignored.
Handle(r) ==
  /\ rom.mode = "listening"
  /\ \/ Transfer(r) \/ ReadMemory(r) \/ SkipDcd(r) \/ Receive(r)
     \/ JumpToPlugin(r) \/ JumpToImage(r) \/ JumpRefused(r)
     \/ r.cmd = "DATA" /\ rom.cur = Nothing /\ UNCHANGED <<rom, mem>>
  /\ UNCHANGED img

\* The plugin has set up the memory and returns to the ROM.
PluginReturns ==
  /\ rom.mode = "plugin"
  /\ rom' = [rom EXCEPT !.mode = "listening", !.plugged = TRUE,
                        !.answers = Answer(<<Cell("ROM_OK_ACK")>>)]
  /\ UNCHANGED <<img, mem>>

\* The next answer is on its way to the host.
SendAnswer ==
  /\ rom.answers # <<>>
  /\ rom' = [rom EXCEPT !.answers = Tail(rom.answers)]
  /\ UNCHANGED <<img, mem>>
=============================================================================
