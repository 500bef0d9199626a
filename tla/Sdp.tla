-------------------------------- MODULE Sdp --------------------------------
(***************************************************************************)
(* How sb_loader runs an image on an i.MX boot ROM over the Serial         *)
(* Download Protocol: MxRun (sb_loader.cpp) and the MxHidDevice calls it   *)
(* makes.  The reports go through the Write and Read of module HidDevice,  *)
(* with every timing that module allows, to module BootRom.                *)
(*                                                                         *)
(* The host is a sequence of SDP calls.  `stage' names the call, `phase'   *)
(* the report of it that is next: the command, the data, then the HAB      *)
(* report and the acknowledgement, or the memory read.                     *)
(***************************************************************************)
EXTENDS Integers, Sequences, FiniteSets

CONSTANTS
  InLen, OutLen, MaxOps,   \* of HidDevice; MaxOps never binds
  Addresses, CanSkip,      \* of BootRom
  Images,      \* the image files that may be run, see ImagesAssumption
  Scratch,     \* where DCDWrite has the ROM keep the DCD
  OutCells,    \* cells an output report carries
  MaxCmd,      \* MAX_SIZE_PER_DOWNLOAD_COMMAND, in cells
  HeaderCells, \* ROM_TRANSFER_SIZE, in cells
  MaxRegs,     \* MAX_DCD_WRITE_REG_CNT
  InitialCells \* MX8_INITIAL_IMAGE_SIZE, in cells

ASSUME SizesAssumption ==
  /\ {InLen, OutLen} \subseteq Nat \ {0} /\ MaxOps \in Nat
  /\ {OutCells, MaxCmd, HeaderCells, MaxRegs, InitialCells} \subseteq Nat \ {0}
  /\ Addresses \subseteq Nat /\ Scratch \in Addresses /\ CanSkip \subseteq BOOLEAN

\* family  MX50, MX6 (the other single-image parts) or MX8 (MX8QM, MX8QXP)
\* dcd     cells of the DCD (registers on an MX50), 0 without one
\* plugin  cells of the plugin the file starts with, 0 without one
\* ivt     file cell of the IVT; boot, self, entry: the image start of its boot
\*         data, its SelfAddr and its ImageStartAddr
\* second  what follows a plugin: another IVT, or a legacy U-Boot image
\* next    the same of that IVT; the ih_load (boot) and ih_ep (entry) of the image
\* code    file cell of that IVT, or of the payload of that image
\* size    cells of the file
\* segs    MX8: the images of the two containers
ASSUME ImagesAssumption ==
  Images \subseteq
    [family : {"MX50", "MX6", "MX8"}, dcd : Nat, plugin : Nat, ivt : Nat,
     boot : Nat, self : Addresses, entry : Addresses,
     second : {"none", "ivt", "uimage"},
     next : [boot : Nat, self : Addresses, entry : Addresses],
     code : Nat, size : Nat \ {0}, task : {"RUN", "RUN_PLUGIN"},
     segs : Seq([from : Nat, cells : Nat \ {0}, addr : Addresses])]

-----------------------------------------------------------------------------
(* The parameters RunPlugIn leaves in MxFunc for an image i, and what        *)
(* LoadFirmware and RunMxMultiImg download.                                  *)

SelfAddr(i) == IF i.second = "ivt" THEN i.next.self ELSE i.self

ExecutingAddr(i) == IF i.second = "none" THEN i.entry ELSE i.next.entry

PhyRAMAddr4KRL(i) ==
  CASE i.second = "none"   -> i.self - i.ivt
    [] i.second = "ivt"    -> i.next.boot + (i.self - i.boot) - i.ivt
    [] i.second = "uimage" -> i.next.boot

CodeOffset(i) ==
  CASE i.second = "none"   -> i.entry - PhyRAMAddr4KRL(i)
    [] i.second = "ivt"    -> i.next.entry - PhyRAMAddr4KRL(i)
    [] i.second = "uimage" -> i.code - i.ivt   \* taken from the file's start

LoadFirmware(i) ==
  << [from |-> CodeOffset(i), cells |-> i.size - CodeOffset(i), addr |-> PhyRAMAddr4KRL(i)] >>

\* The initial image, with the headers, then the images of both containers.
RunMxMultiImg(i) ==
  << [from |-> 0, cells |-> InitialCells, addr |-> i.self - i.ivt] >> \o i.segs

LoadSegments(i) == IF i.family = "MX8" THEN RunMxMultiImg(i) ELSE LoadFirmware(i)

FlashHdrAddr(i) == ExecutingAddr(i) - 1

\* Where the image is linked to be: addresses and the file cells they must hold.
LinkBase(i) == IF i.second = "ivt" THEN i.next.self - i.code
               ELSE i.self - i.ivt
Program(i) ==
  CASE i.family = "MX8" ->
         UNION {{<<s.addr + k, s.from + k>> : k \in 0..(s.cells - 1)} :
                s \in {i.segs[j] : j \in 1..Len(i.segs)}}
    [] i.family # "MX8" /\ i.second = "uimage" ->
         {<<i.next.boot + k, i.code + k>> : k \in 0..(i.size - i.code - 1)}
    [] OTHER ->
         {<<LinkBase(i) + k, k>> :
            k \in {n \in 0..(i.size - 1) : LinkBase(i) + n >= ExecutingAddr(i)}}

\* What RunPlugIn and the linker ensure: a file with a plugin has no DCD and
\* something behind the plugin; the code lies in the file and the program in RAM;
\* the header of AddIvtHdr has its place in RAM, where the IVT is not loaded; the
\* plugin is not taken for the program.
LaidOut(i) ==
  /\ IF i.plugin > 0 THEN i.dcd = 0 /\ i.second # "none" /\ i.family # "MX8"
     ELSE i.second = "none"
  /\ i.family # "MX8" =>
       /\ CodeOffset(i) \in 0..(i.size - 1)
       /\ \A k \in 0..(HeaderCells - 1) :
            LET a == FlashHdrAddr(i) + k
            IN  /\ a \in Addresses
                /\ i.dcd > 0 => CodeOffset(i) + (a - PhyRAMAddr4KRL(i)) # i.ivt
  /\ \A p \in Program(i) : p[1] \in Addresses
  /\ \A k \in 0..(i.plugin - 1) : <<i.self + k, i.ivt + k>> \notin Program(i)

ASSUME LayoutAssumption == \A i \in Images : LaidOut(i)

\* Of p, an address and the file cell it must hold: the first n cells of segment s
\* bring it there; segment t, rounded up, brings nothing else there.
Brings(s, p, n) == p[1] - s.addr \in 0..(n - 1) /\ p[2] - p[1] = s.from - s.addr
Spares(t, p) ==
  p[1] - t.addr \in 0..(t.cells + OutCells - 2) => p[2] - p[1] = t.from - t.addr

Loads(i, p) ==
  \E j \in 1..Len(LoadSegments(i)) :
    /\ Brings(LoadSegments(i)[j], p, LoadSegments(i)[j].cells)
    /\ \A k \in (j + 1)..Len(LoadSegments(i)) : Spares(LoadSegments(i)[k], p)

\* What LoadFirmware and RunMxMultiImg take for granted: what they load puts the
\* program where it is linked to be, and the IVT where the host jumps; that IVT is
\* not the plugin's; nothing of the program is where AddIvtHdr writes its header.
LoadedInPlace(i) ==
  /\ \A p \in Program(i) : Loads(i, p)
  /\ i.second # "uimage" => Loads(i, <<SelfAddr(i), IF i.second = "ivt" THEN i.code ELSE i.ivt>>)
  /\ i.second = "ivt" => i.code # i.ivt
  /\ i.family # "MX8" => \A p \in Program(i) : p[1] # FlashHdrAddr(i)

-----------------------------------------------------------------------------
VARIABLES
  pc, ops, overlapped, signalled, writeBuf, readBuf, ret, pending, apcs,
  delivered, sent, taken, timeouts, okWrites, okReads,     \* of HidDevice
  img, rom, mem,                                           \* of BootRom
  stage,       \* the SDP call in progress, or how the run ended
  phase,       \* the report of it that is next
  asked,       \* that report's Write or Read has been called
  seg, pos,    \* the download in progress: its segment, the cells of it done
  at,          \* cells of the call's data sent or read so far
  buf,         \* the memory read by ReadData
  FlashHdr,    \* the header AddIvtHdr writes
  lingered,    \* a cancelled Read has outlived its call, into the next one
  said,        \* for each call of Write or Read, the report it wrote
  heard,       \* the input reports the device has sent
  handled      \* output reports the ROM has handled

transport == <<pc, ops, overlapped, signalled, writeBuf, readBuf, ret, pending,
               apcs, delivered, sent, taken, timeouts, okWrites, okReads>>
target    == <<img, rom, mem>>
host      == <<stage, phase, asked, seg, pos, at, buf, FlashHdr>>
wire      == <<lingered, said, heard, handled>>
vars      == <<transport, target, host, wire>>

Hid == INSTANCE HidDevice
Rom == INSTANCE BootRom

Least(a, b) == IF a <= b THEN a ELSE b

-----------------------------------------------------------------------------
(* The SDP call of each stage: its command, its data, its acknowledgement.  *)

Segment == LoadSegments(img)[seg]

\* From MX8QM on TransData sends whole reports.
Rounded(cells) ==
  IF img.family = "MX8" THEN ((cells + OutCells - 1) \div OutCells) * OutCells
  ELSE cells

\* Cells of the segment, or registers of an MX50's DCD, in the current command.
Batch ==
  CASE stage = "load"                    -> Least(MaxCmd, Segment.cells - pos)
    [] stage = "dcd" /\ img.family = "MX50" -> Least(MaxRegs, img.dcd - pos)
    [] OTHER                             -> img.dcd

Job ==
  CASE stage = "ecc"    -> Rom!Command("WR_FILE", Scratch, Rounded(OutCells))
    [] stage = "dcd"    -> Rom!Command("DCD_WRITE", Scratch, Batch)
    [] stage = "plugin" -> Rom!Command("WR_FILE", img.self, img.plugin)
    [] stage = "start"  -> Rom!Command("JUMP", img.self, 0)
    [] stage = "load"   -> Rom!Command("WR_FILE", Segment.addr + pos, Rounded(Batch))
    [] stage = "skip"   -> Rom!Command("SKIP_DCD", 0, 0)
    [] stage = "jump"   -> Rom!Command("JUMP", SelfAddr(img), 0)
    [] stage \in {"readHdr", "verifyHdr"} ->
         Rom!Command("RD_MEM", FlashHdrAddr(img), HeaderCells)
    [] stage = "writeHdr" -> Rom!Command("WR_FILE", FlashHdrAddr(img), HeaderCells)
    [] stage = "jumpHdr"  -> Rom!Command("JUMP", FlashHdrAddr(img), 0)

HasData == Job.cmd \in {"WR_FILE", "DCD_WRITE"}

\* Mutant: Download does not advance pBuffer from one command to the next.
ContentNotAdvanced(i) ==
  CASE stage = "load"     -> Rom!File(Segment.from + i)
    [] stage = "plugin"   -> Rom!File(img.ivt + i)
    [] stage = "writeHdr" -> FlashHdr[i + 1]
    [] OTHER              -> Rom!Cell("dcd")

\* Cell i of the data.
Content(i) ==
  CASE stage = "load"     -> Rom!File(Segment.from + pos + i)
    [] stage = "plugin"   -> Rom!File(img.ivt + i)
    [] stage = "writeHdr" -> FlashHdr[i + 1]
    [] OTHER              -> Rom!Cell("dcd")

\* The next data report: an MX50's registers go in one.
DataCells ==
  IF stage = "dcd" /\ img.family = "MX50" THEN Job.count
  ELSE Least(OutCells, Job.count - at)

SendData == Rom!Data([i \in 1..DataCells |-> Content(at + i - 1)])

RequiredCmdAck ==
  CASE Job.cmd = "WR_FILE"   -> Rom!Cell("ROM_STATUS_ACK")
    [] Job.cmd = "DCD_WRITE" -> Rom!Cell("ROM_WRITE_ACK")
    [] OTHER                 -> Rom!Cell("ROM_OK_ACK")

-----------------------------------------------------------------------------
(* The order of the calls.                                                  *)

\* Before anything is sent MxRun refuses the task RUN_PLUGIN on an MX8
\* (sb_loader.cpp:337-342).
FirstStage ==
  IF img.family = "MX8"
  THEN IF img.task = "RUN_PLUGIN" THEN "failed"
       ELSE IF img.dcd > 0 THEN "ecc" ELSE "load"
  ELSE IF img.plugin > 0 THEN "plugin"
       ELSE IF img.dcd > 0 THEN "dcd" ELSE "load"

\* Mutant: the image is started without SkipDCD.
NoSkipDCD ==
  IF img.task = "RUN_PLUGIN" THEN "done"
  ELSE IF img.second = "uimage" THEN "readHdr" ELSE "jump"

\* After LoadFirmware, or the last Download of RunMxMultiImg, whose task is RUN.
AfterLoad ==
  IF img.task = "RUN_PLUGIN" THEN "done"
  ELSE IF img.second = "uimage" THEN "readHdr"     \* pIVT is NULL
  ELSE "skip"

Following ==
  CASE stage = "ecc"       -> "dcd"
    [] stage = "dcd"       -> "load"
    [] stage = "plugin"    -> "start"
    [] stage = "start"     -> "load"
    [] stage = "load"      -> AfterLoad
    [] stage = "skip"      -> "jump"
    [] stage = "readHdr"   -> "writeHdr"
    [] stage = "writeHdr"  -> "verifyHdr"
    [] stage = "verifyHdr" -> IF buf' = FlashHdr THEN "jumpHdr" ELSE "failed"
    [] OTHER               -> "done"

\* Mutant: the result of the last Jump is ignored.
JumpResultIgnored ==
  CASE stage = "ecc"                          -> "dcd"
    [] stage = "skip" /\ img.family # "MX8" -> "readHdr"
    [] stage \in {"jump", "jumpHdr"}          -> "done"
    [] OTHER                                  -> "failed"

\* A call that returned FALSE ends the run, with two exceptions: DCDWrite
\* ignores the result of Download, MxSingleImgRun tries Execute after SkipDCD.
AfterFailure ==
  CASE stage = "ecc"                          -> "dcd"
    [] stage = "skip" /\ img.family # "MX8" -> "readHdr"
    [] OTHER                                  -> "failed"

Running == stage \notin {"done", "failed"}

BeginStage(s) == stage' = s /\ phase' = "cmd" /\ asked' = FALSE /\ at' = 0

\* Mutant: only the first MAX_DCD_WRITE_REG_CNT registers are written.
OneDcdBatch == stage = "load" /\ pos + Batch < Segment.cells

\* MX50 DCDs and segments longer than MaxCmd take several commands.
More ==
  \/ stage = "load" /\ pos + Batch < Segment.cells
  \/ stage = "dcd" /\ img.family = "MX50" /\ pos + Batch < img.dcd

\* Mutant: the loop over the images of a container runs once too often.
OneImageTooMany ==
  IF More
  THEN BeginStage(stage) /\ pos' = pos + Batch /\ UNCHANGED <<seg, FlashHdr>>
  ELSE /\ pos' = 0
       /\ IF stage = "load" /\ seg <= Len(LoadSegments(img))
          THEN BeginStage("load") /\ seg' = seg + 1
          ELSE BeginStage(Following) /\ UNCHANGED seg
       /\ FlashHdr' = FlashHdr

CallSucceeds ==
  IF More
  THEN BeginStage(stage) /\ pos' = pos + Batch /\ UNCHANGED <<seg, FlashHdr>>
  ELSE /\ pos' = 0
       /\ IF stage = "load" /\ seg < Len(LoadSegments(img))
          THEN BeginStage("load") /\ seg' = seg + 1
          ELSE BeginStage(Following) /\ UNCHANGED seg
       /\ FlashHdr' = IF stage = "readHdr"
                      THEN [buf' EXCEPT ![1] = Rom!IvtHeader(ExecutingAddr(img))]
                      ELSE FlashHdr

CallFails ==
  BeginStage(AfterFailure) /\ pos' = 0 /\ UNCHANGED <<seg, FlashHdr>>

-----------------------------------------------------------------------------
(* The host's steps.                                                        *)

\* CancelIo only asks: the request may still be there when the next call is made.
MayCall ==
  /\ Running /\ pc = "idle" /\ ~asked
  /\ lingered' = (lingered \/ \E r \in pending : r.kind = "read")

\* SendCmd and SendData: fill m_pWriteReport and call Write.
Say ==
  /\ MayCall /\ phase \in {"cmd", "data"}
  /\ Hid!StartWrite \/ Hid!WriteRefused
  /\ said' = Append(said, IF phase = "cmd" THEN Job ELSE SendData)
  /\ asked' = TRUE
  /\ UNCHANGED <<stage, phase, seg, pos, at, buf, FlashHdr, heard, handled, target>>

\* GetHABType, GetDevAck and ReadData: zero m_pReadReport and call Read.
Listen ==
  /\ MayCall /\ phase \in {"hab", "ack", "read"}
  /\ Hid!StartRead \/ Hid!ReadRefused
  /\ said' = Append(said, Rom!Nothing)
  /\ asked' = TRUE
  /\ UNCHANGED <<stage, phase, seg, pos, at, buf, FlashHdr, heard, handled, target>>

Answered == Running /\ asked /\ pc = "idle"
Ok       == ret.status = "SUCCESS"
\* What m_pReadReport holds now.
Report   == IF readBuf = 0 THEN Rom!Cell("blank") ELSE heard[readBuf]

GoOn(p) == phase' = p /\ asked' = FALSE /\ UNCHANGED <<stage, seg, pos, FlashHdr>>

Judge ==
  /\ Answered
  /\ UNCHANGED <<transport, target, wire>>

Failed ==
  /\ Judge /\ CallFails /\ buf' = buf

\* A Write or Read that failed fails the call, but for the last Read of Jump.
ReportFails == ~Ok /\ ~(phase = "ack" /\ Job.cmd = "JUMP") /\ Failed

CmdSent ==
  /\ Judge /\ phase = "cmd" /\ Ok
  /\ GoOn(IF HasData THEN "data" ELSE "hab") /\ at' = 0 /\ buf' = <<>>

DataSent ==
  /\ Judge /\ phase = "data" /\ Ok
  /\ at' = at + DataCells
  /\ GoOn(IF at' < Job.count THEN "data" ELSE "hab") /\ buf' = buf

GetHABType ==
  /\ Judge /\ phase = "hab" /\ Ok /\ Report = Rom!HAB
  /\ GoOn(IF Job.cmd = "RD_MEM" THEN "read" ELSE "ack") /\ at' = 0 /\ buf' = buf

HABUnknown == phase = "hab" /\ Ok /\ Report # Rom!HAB /\ Failed

GetDevAck ==
  /\ Judge /\ phase = "ack"
  /\ Job.cmd = "JUMP" \/ (Ok /\ Report = RequiredCmdAck)
  /\ CallSucceeds /\ buf' = buf

AckRefused ==
  phase = "ack" /\ Ok /\ Job.cmd # "JUMP" /\ Report # RequiredCmdAck /\ Failed

ReadData ==
  /\ Judge /\ phase = "read" /\ Ok
  /\ buf' = Append(buf, Report)
  /\ IF Len(buf') < Job.count
     THEN GoOn("read") /\ at' = at
     ELSE CallSucceeds

-----------------------------------------------------------------------------
(* The transport and the ROM.                                               *)

\* Windows and the host thread inside a Write or a Read.
Transport ==
  /\ Hid!HostStep \/ Hid!ReportArrives \/ Hid!RequestFails
     \/ (Hid!DeviceAccepts /\ rom.mode = "listening")
  /\ UNCHANGED <<target, host, wire>>

RomHandles ==
  /\ handled < Len(delivered)
  /\ handled' = handled + 1
  /\ Rom!Handle(said[delivered[handled + 1]])
  /\ UNCHANGED <<transport, host, lingered, said, heard>>

RomAnswers ==
  /\ Rom!SendAnswer
  /\ Hid!DeviceSends
  /\ heard' = Append(heard, Head(rom.answers))
  /\ UNCHANGED <<host, lingered, said, handled>>

PluginReturns ==
  /\ Rom!PluginReturns
  /\ UNCHANGED <<transport, host, wire>>

\* The process has ended.
Finished == ~Running /\ UNCHANGED vars

Init ==
  /\ Hid!Init
  /\ img \in Images /\ Rom!Init
  /\ stage = FirstStage /\ phase = "cmd" /\ asked = FALSE
  /\ seg = 1 /\ pos = 0 /\ at = 0 /\ buf = <<>> /\ FlashHdr = <<>>
  /\ lingered = FALSE /\ said = <<>> /\ heard = <<>> /\ handled = 0

HostStep == \/ Say \/ Listen \/ CmdSent \/ DataSent \/ GetHABType \/ GetDevAck
            \/ ReadData \/ ReportFails \/ HABUnknown \/ AckRefused

Next == HostStep \/ Transport \/ RomHandles \/ RomAnswers \/ PluginReturns
        \/ Finished

Spec == Init /\ [][Next]_vars

\* The thread runs and the driver ends its writes, as in HidDevice.
FairSpec ==
  /\ Spec
  /\ WF_vars(HostStep)
  /\ WF_vars(Transport /\ Hid!HostStep)
  /\ WF_vars(Transport /\ (Hid!DeviceAccepts \/ Hid!WriteFails))

-----------------------------------------------------------------------------
(* Properties.                                                              *)

Stages == {"ecc", "dcd", "plugin", "start", "load", "skip", "jump", "readHdr",
           "writeHdr", "verifyHdr", "jumpHdr", "done", "failed"}

\* The types of the host's part of the state, and the bookkeeping of the wire.
TypeOK ==
  /\ img \in Images /\ stage \in Stages
  /\ phase \in {"cmd", "data", "hab", "ack", "read"} /\ asked \in BOOLEAN
  /\ seg \in 1..Len(LoadSegments(img)) /\ pos \in Nat /\ at \in Nat
  /\ Len(buf) <= HeaderCells /\ lingered \in BOOLEAN
  /\ Len(said) = ops /\ Len(heard) = sent /\ handled <= Len(delivered)

InPlace(p) == mem[p[1]] = Rom!File(p[2])

\* Whatever failed, was late or was refused on the way, the ROM never starts an
\* image that is not whole, nor at another address than its entry: the host gives
\* up before its jump (sb_loader.cpp:287-306, MxHidDevice.cpp:816).  A Read that
\* lingers can break that, see SuccessIsReal.
Bootable ==
  (rom.mode = "image" /\ ~lingered) =>
     rom.entry = ExecutingAddr(img) /\ \A p \in Program(img) : InPlace(p)

\* "Run into the image successfully" (sb_loader.cpp:308): a RUN that ends
\* without an error has started the image.
RunsTheImage == (stage = "done" /\ img.task = "RUN") => rom.mode = "image"

\* It has, if the image is laid out the way LoadFirmware expects and Windows ends
\* each cancelled Read before the next call: whatever else was late, refused or
\* lost, one of the checks on the way has stopped the run (sb_loader.cpp:287-306).
SuccessIsReal == ~lingered => RunsTheImage

\* The DCD runs exactly once before the image: by DCD_WRITE, and not again by the
\* IVT the ROM jumps to (SkipDCD, or the bare header of AddIvtHdr).
DcdOnce == rom.mode = "image" => rom.dcd = img.dcd

\* Nothing of the image is written before the memory is set up: the whole DCD
\* run, in all its batches, or the plugin back in the ROM.
MemoryReady ==
  (\E p \in Program(img) : InPlace(p)) =>
     rom.dcd >= img.dcd /\ (img.plugin > 0 => rom.plugged)

\* Every run ends, with a ROM that answers late, never, or not as expected.
RunEnds == <>(~Running)
=============================================================================
