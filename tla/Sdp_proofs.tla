----------------------------- MODULE Sdp_proofs -----------------------------
(***************************************************************************)
(* Proofs about Sdp, for every image and every size of report: its steps   *)
(* are steps of the transport, so the invariants of HidDevice hold here    *)
(* too; then the types of the whole state, where each call is in its       *)
(* reports, what is in flight, and what the ROM has done when it starts    *)
(* the image.                                                              *)
(***************************************************************************)
EXTENDS Sdp, SequenceTheorems, TLAPS

H == INSTANCE HidDevice_proofs

LEMMA HidAssumptions == H!SizesAssumption /\ H!MaxOpsAssumption
BY SizesAssumption DEF H!SizesAssumption, H!MaxOpsAssumption

-----------------------------------------------------------------------------
(* The transport.                                                          *)

\* What module HidDevice shows of its state.
Carried ==
  /\ H!TypeOK /\ H!Shape /\ H!Exact /\ H!CreditInv /\ H!Ids

LEMMA CallIsCall ==
  /\ Hid!StartWrite \/ Hid!WriteRefused \/ Hid!StartRead \/ Hid!ReadRefused <=> H!Call
  /\ Hid!StartWrite => H!StartWrite
  /\ Hid!WriteRefused => H!WriteRefused
  /\ Hid!StartRead => H!StartRead
  /\ Hid!ReadRefused => H!ReadRefused
BY DEF H!Call, H!StartWrite, H!WriteRefused, H!StartRead, H!ReadRefused, H!PrepareWrite,
       H!PrepareRead, H!Return, H!device, H!ghost, Hid!StartWrite, Hid!WriteRefused,
       Hid!StartRead, Hid!ReadRefused, Hid!PrepareWrite, Hid!PrepareRead, Hid!Return,
       Hid!device, Hid!ghost

LEMMA HostIsHost == Hid!HostStep => H!HostStep
<1>1. Hid!RunApcs <=> H!RunApcs
  BY DEF Hid!RunApcs, H!RunApcs, Hid!Verdict, H!Verdict
<1>2. Hid!Judge = H!Judge
  BY DEF Hid!Judge, H!Judge
<1>3. QED
  BY <1>1, <1>2
     DEF Hid!HostStep, Hid!WriteReturns, Hid!ReadReturns, Hid!ReadTimesOut, Hid!CancelRead,
         Hid!Return, Hid!kernel, Hid!device, Hid!ghost, H!HostStep, H!WriteReturns,
         H!ReadReturns, H!ReadTimesOut, H!CancelRead, H!Return, H!kernel, H!device, H!ghost

LEMMA DriverIsDriver ==
  /\ Hid!DeviceAccepts => H!DeviceAccepts
  /\ Hid!ReportArrives => H!ReportArrives
  /\ Hid!RequestFails => H!RequestFails
  /\ Hid!DeviceSends => H!DeviceSends
BY DEF Hid!DeviceAccepts, Hid!ReportArrives, Hid!RequestFails, Hid!DeviceSends,
       Hid!OldestOf, Hid!Complete, Hid!host, Hid!kernel, Hid!device, Hid!ghost,
       H!DeviceAccepts, H!ReportArrives, H!RequestFails, H!DeviceSends, H!OldestOf,
       H!Complete, H!host, H!kernel, H!device, H!ghost

LEMMA TransportSteps == [Next]_vars => [H!Next]_(H!vars)
<1> SUFFICES ASSUME [Next]_vars PROVE [H!Next]_(H!vars)
  OBVIOUS
<1>1. CASE UNCHANGED transport
  BY <1>1 DEF transport, H!vars, H!host, H!kernel, H!device, H!ghost
<1>2. CASE Say \/ Listen
  BY <1>2, CallIsCall DEF Say, Listen, H!Next
<1>3. CASE Transport
  BY <1>3, HostIsHost, DriverIsDriver DEF Transport, H!Next, H!Driver
<1>4. CASE RomAnswers
  BY <1>4, DriverIsDriver DEF RomAnswers, H!Next
<1>5. QED
  BY <1>1, <1>2, <1>3, <1>4
     DEF Next, HostStep, CmdSent, DataSent, GetHABType, GetDevAck, ReadData, ReportFails,
         HABUnknown, AckRefused, Failed, Judge, RomHandles, PluginReturns, Finished, vars

LEMMA CarriedStep == Carried /\ [Next]_vars => Carried'
<1> SUFFICES ASSUME Carried, [Next]_vars PROVE Carried'
  OBVIOUS
<1>1. [H!Next]_(H!vars) /\ H!SizesAssumption /\ H!MaxOpsAssumption
  BY TransportSteps, HidAssumptions
<1>2. H!TypeOK' /\ H!Shape' /\ H!Exact' /\ H!Ids'
  BY <1>1, H!TypeOKStep, H!ShapeStep, H!ExactStep, H!IdsStep DEF Carried
<1>3. H!CreditInv'
  BY <1>1, H!CreditStep DEF Carried, H!CreditInv
<1>4. QED
  BY <1>2, <1>3 DEF Carried

LEMMA CarriedInit == Init => Carried
<1> SUFFICES ASSUME Init PROVE Carried
  OBVIOUS
<1>1. H!Init
  BY DEF Init, Hid!Init, H!Init
<1>2. H!TypeOK
  BY <1>1, H!TypeOKInit, HidAssumptions
<1>3. H!Shape /\ H!Exact /\ H!CreditInv /\ H!Ids
  BY <1>1 DEF H!Init, H!Shape, H!Exact, H!ExactWithoutTimeout, H!CreditInv, H!Credit, H!Ids
<1>4. QED
  BY <1>2, <1>3 DEF Carried

-----------------------------------------------------------------------------
(* Images, reports and calls.                                              *)

Whats == {"file", "header", "junk", "dcd", "blank", "HAB", "ROM_ERROR", "ROM_OK_ACK",
          "ROM_WRITE_ACK", "ROM_STATUS_ACK"}
Cells == [what : Whats, at : Int]
Cmds  == {"NONE", "WR_FILE", "DCD_WRITE", "RD_MEM", "SKIP_DCD", "JUMP", "DATA"}

\* Output reports: no command names an address outside RAM where the ROM looks.
Reports ==
  {r \in [cmd : Cmds, addr : Int, count : Nat, cells : Seq(Cells)] :
     /\ r.cmd = "JUMP" => r.addr \in Addresses
     /\ r.cmd = "RD_MEM" => \A j \in 0..(r.count - 1) : r.addr + j \in Addresses
     /\ IF r.cmd = "DATA" THEN r.count = Len(r.cells) ELSE r.cells = <<>>}

HostTypes ==
  /\ img \in Images /\ stage \in Stages
  /\ phase \in {"cmd", "data", "hab", "ack", "read"} /\ asked \in BOOLEAN
  /\ seg \in 1..Len(LoadSegments(img)) /\ pos \in Nat /\ at \in Nat
  /\ buf \in Seq(Cells) /\ Len(buf) <= HeaderCells
  /\ FlashHdr \in Seq(Cells) /\ lingered \in BOOLEAN

HdrStage == stage \in {"readHdr", "writeHdr", "verifyHdr", "jumpHdr"}

\* Where a call is in its transfer.
Where ==
  /\ stage \in {"ecc", "dcd"} => img.dcd > 0
  /\ stage = "ecc" => img.family = "MX8"
  /\ stage \in {"plugin", "start"} => img.plugin > 0
  /\ HdrStage => img.family # "MX8"
  /\ stage = "load" => pos < Segment.cells
  /\ stage = "dcd" => pos < img.dcd /\ (img.family # "MX50" => pos = 0)
  /\ Running /\ phase = "data" => HasData /\ at < Job.count
  /\ stage = "dcd" /\ phase = "data" /\ img.family = "MX50" => at = 0
  /\ Running /\ phase = "ack" => Job.cmd # "RD_MEM"
  /\ Running /\ phase = "read" => Job.cmd = "RD_MEM" /\ Len(buf) < HeaderCells
  /\ Running /\ phase = "hab" /\ Job.cmd = "RD_MEM" => buf = <<>>
  /\ stage \in {"writeHdr", "verifyHdr", "jumpHdr"} => Len(FlashHdr) = HeaderCells

LEMMA ImageType ==
  ASSUME NEW i \in Images
  PROVE  /\ i.family \in {"MX50", "MX6", "MX8"} /\ i.second \in {"none", "ivt", "uimage"}
         /\ i.dcd \in Nat /\ i.plugin \in Nat /\ i.ivt \in Nat /\ i.boot \in Nat
         /\ i.self \in Addresses /\ i.self \in Nat /\ i.entry \in Addresses /\ i.entry \in Nat
         /\ i.next.boot \in Nat /\ i.next.self \in Addresses /\ i.next.self \in Nat
         /\ i.next.entry \in Addresses /\ i.next.entry \in Nat
         /\ i.code \in Nat /\ i.size \in Nat \ {0} /\ i.task \in {"RUN", "RUN_PLUGIN"}
         /\ i.segs \in Seq([from : Nat, cells : Nat \ {0}, addr : Addresses])
         /\ SelfAddr(i) \in Addresses /\ FlashHdrAddr(i) \in Int /\ PhyRAMAddr4KRL(i) \in Int
         /\ LaidOut(i)
<1>1. Addresses \subseteq Nat
  BY SizesAssumption
<1>2. i \in [family : {"MX50", "MX6", "MX8"}, dcd : Nat, plugin : Nat, ivt : Nat,
             boot : Nat, self : Addresses, entry : Addresses,
             second : {"none", "ivt", "uimage"},
             next : [boot : Nat, self : Addresses, entry : Addresses],
             code : Nat, size : Nat \ {0}, task : {"RUN", "RUN_PLUGIN"},
             segs : Seq([from : Nat, cells : Nat \ {0}, addr : Addresses])]
  BY ImagesAssumption
<1>3. i.next \in [boot : Nat, self : Addresses, entry : Addresses]
  BY <1>2
<1>4. /\ i.family \in {"MX50", "MX6", "MX8"} /\ i.second \in {"none", "ivt", "uimage"}
      /\ i.dcd \in Nat /\ i.plugin \in Nat /\ i.ivt \in Nat /\ i.boot \in Nat
      /\ i.self \in Addresses /\ i.entry \in Addresses
      /\ i.code \in Nat /\ i.size \in Nat \ {0} /\ i.task \in {"RUN", "RUN_PLUGIN"}
      /\ i.segs \in Seq([from : Nat, cells : Nat \ {0}, addr : Addresses])
  BY <1>2
<1>5. /\ i.next.boot \in Nat /\ i.next.self \in Addresses /\ i.next.entry \in Addresses
  BY <1>3
<1>6. /\ i.self \in Nat /\ i.entry \in Nat /\ i.next.self \in Nat /\ i.next.entry \in Nat
  BY <1>1, <1>4, <1>5
<1>7. SelfAddr(i) \in Addresses /\ ExecutingAddr(i) \in Nat
  BY <1>4, <1>5, <1>6 DEF SelfAddr, ExecutingAddr
<1>8. PhyRAMAddr4KRL(i) \in Int
  <2>1. i.self \in Nat /\ i.ivt \in Nat /\ i.boot \in Nat /\ i.next.boot \in Nat
    BY <1>4, <1>5, <1>6
  <2>2. i.second \in {"none", "ivt", "uimage"}
    BY <1>4
  <2>3. QED
    BY <2>1, <2>2 DEF PhyRAMAddr4KRL
<1>9. FlashHdrAddr(i) \in Int
  BY <1>7 DEF FlashHdrAddr
<1>10. LaidOut(i)
  BY LayoutAssumption
<1>11. QED
  BY <1>4, <1>5, <1>6, <1>7, <1>8, <1>9, <1>10

Segments == [from : Nat, cells : Nat \ {0}, addr : Int]

LEMMA SegmentsType ==
  ASSUME NEW i \in Images
  PROVE  LoadSegments(i) \in Seq(Segments) /\ Len(LoadSegments(i)) > 0
<1>1. i.segs \in Seq(Segments)
  <2>1. ASSUME NEW s \in [from : Nat, cells : Nat \ {0}, addr : Addresses]
        PROVE  s \in Segments
    <3>1. Addresses \subseteq Int
      BY SizesAssumption
    <3>2. QED
      BY <3>1 DEF Segments
  <2>2. i.segs \in Seq([from : Nat, cells : Nat \ {0}, addr : Addresses])
    BY ImageType
  <2>3. ASSUME NEW S, NEW sq \in Seq(S), S \subseteq Segments PROVE sq \in Seq(Segments)
    <3>1. PICK m \in Nat : sq \in [1..m -> S]
      BY <2>3, SeqDef
    <3>2. sq \in [1..m -> Segments]
      BY <2>3, <3>1
    <3>3. QED
      BY <3>2, SeqDef
  <2>4. QED
    BY <2>1, <2>2, <2>3
<1>2. CASE i.family = "MX8"
  <2>1. [from |-> 0, cells |-> InitialCells, addr |-> i.self - i.ivt] \in Segments
    BY ImageType, SizesAssumption DEF Segments
  <2>2. QED
    BY <1>1, <1>2, <2>1 DEF LoadSegments, RunMxMultiImg
<1>3. CASE i.family # "MX8"
  <2>1. CodeOffset(i) \in 0..(i.size - 1) /\ i.size \in Nat
    BY <1>3, ImageType DEF LaidOut
  <2>2. PhyRAMAddr4KRL(i) \in Int
    BY ImageType
  <2>3. [from |-> CodeOffset(i), cells |-> i.size - CodeOffset(i), addr |-> PhyRAMAddr4KRL(i)]
          \in Segments
    BY <2>1, <2>2 DEF Segments
  <2>4. QED
    BY <1>3, <2>3 DEF LoadSegments, LoadFirmware
<1>4. QED
  BY <1>2, <1>3

LEMMA SegmentType == HostTypes => Segment \in Segments
BY SegmentsType DEF HostTypes, Segment

\* Reports come whole: rounding up adds less than a report.
LEMMA RoundedType ==
  ASSUME NEW c \in Nat \ {0}
  PROVE  Rounded(c) \in Nat /\ c <= Rounded(c) /\ (img.family # "MX8" => Rounded(c) = c)
<1>1. OutCells \in Nat \ {0}
  BY SizesAssumption
<1>2. PICK q \in Nat, r \in 0..(OutCells - 1) :
        q = (c + OutCells - 1) \div OutCells /\ c + OutCells - 1 = q * OutCells + r
  <2>1. c + OutCells - 1 \in Nat
    BY <1>1
  <2>2. QED
    BY <1>1, <2>1
<1>3. q * OutCells \in Nat
  BY <1>1
<1>4. QED
  BY <1>1, <1>2, <1>3 DEF Rounded

LEMMA BatchType ==
  ASSUME HostTypes, Where
  PROVE  /\ stage = "load" => Batch \in 1..(Segment.cells - pos)
         /\ stage = "dcd" => Batch \in 1..(img.dcd - pos)
         /\ stage = "dcd" /\ img.family # "MX50" => Batch = img.dcd /\ pos = 0
<1>1. Segment.cells \in Nat /\ img.dcd \in Nat /\ pos \in Nat
  BY SegmentType, ImageType DEF HostTypes, Segments
<1>2. MaxCmd \in Nat \ {0} /\ MaxRegs \in Nat \ {0}
  BY SizesAssumption
<1>3. QED
  BY <1>1, <1>2 DEF Where, Batch, Least

LEMMA JobType ==
  ASSUME HostTypes, Where, Running
  PROVE  Job \in Reports /\ (HasData => Job.count > 0)
<1> USE DEF Rom!Command
<1>1. <<>> \in Seq(Cells)
  OBVIOUS
<1>2. \A c \in Cmds \ {"JUMP", "RD_MEM", "DATA"}, a \in Int, k \in Nat :
        Rom!Command(c, a, k) \in Reports
  BY <1>1 DEF Reports
<1>3. \A a \in Addresses : Rom!Command("JUMP", a, 0) \in Reports
  BY <1>1, SizesAssumption DEF Reports, Cmds
<1>4. Scratch \in Int /\ OutCells \in Nat \ {0} /\ HeaderCells \in Nat \ {0}
  BY SizesAssumption
<1>5. CASE stage = "ecc"
  BY <1>2, <1>4, <1>5, RoundedType DEF Job, Cmds, HasData
<1>6. CASE stage = "dcd"
  <2>1. Batch \in Nat \ {0}
    BY <1>6, BatchType, ImageType DEF HostTypes
  <2>2. QED
    BY <1>2, <1>4, <1>6, <2>1 DEF Job, Cmds, HasData
<1>7. CASE stage = "plugin"
  <2>1. img.self \in Int /\ img.plugin \in Nat \ {0}
    BY <1>7, ImageType DEF HostTypes, Where
  <2>2. QED
    BY <1>2, <1>7, <2>1 DEF Job, Cmds, HasData
<1>8. CASE stage = "load"
  <2>1. Batch \in Nat \ {0} /\ Segment.addr + pos \in Int
    BY <1>8, BatchType, SegmentType DEF HostTypes, Segments
  <2>2. Rounded(Batch) \in Nat /\ Rounded(Batch) > 0
    BY <2>1, RoundedType
  <2>3. QED
    BY <1>2, <1>8, <2>1, <2>2 DEF Job, Cmds, HasData
<1>9. CASE stage = "skip"
  <2>1. Rom!Command("SKIP_DCD", 0, 0) \in Reports
    BY <1>2 DEF Cmds
  <2>2. Job = Rom!Command("SKIP_DCD", 0, 0)
    BY <1>9 DEF Job
  <2>3. QED
    BY <2>1, <2>2 DEF HasData
<1>10. CASE stage \in {"start", "jump"}
  BY <1>3, <1>10, ImageType DEF Job, HasData, HostTypes
<1>11. CASE HdrStage
  <2>1. img.family # "MX8" /\ LaidOut(img) /\ FlashHdrAddr(img) \in Int
    BY <1>11, ImageType DEF Where, HostTypes
  <2>2. \A j \in 0..(HeaderCells - 1) : FlashHdrAddr(img) + j \in Addresses
    BY <2>1 DEF LaidOut
  <2>3. FlashHdrAddr(img) \in Addresses
    BY <1>4, <2>1, <2>2
  <2>4. Rom!Command("RD_MEM", FlashHdrAddr(img), HeaderCells) \in Reports
    BY <1>1, <1>4, <2>1, <2>2 DEF Reports, Cmds
  <2>5. Rom!Command("WR_FILE", FlashHdrAddr(img), HeaderCells) \in Reports
    BY <1>2, <1>4, <2>1 DEF Cmds
  <2>6. Rom!Command("JUMP", FlashHdrAddr(img), 0) \in Reports
    BY <1>3, <2>3
  <2>7. CASE stage \in {"readHdr", "verifyHdr"}
    BY <2>4, <2>7 DEF Job, HasData
  <2>8. CASE stage = "writeHdr"
    BY <1>4, <2>5, <2>8 DEF Job, HasData
  <2>9. CASE stage = "jumpHdr"
    BY <2>6, <2>9 DEF Job, HasData
  <2>10. QED
    BY <1>11, <2>7, <2>8, <2>9 DEF HdrStage
<1>12. QED
  BY <1>5, <1>6, <1>7, <1>8, <1>9, <1>10, <1>11 DEF HostTypes, Stages, Running, HdrStage

-----------------------------------------------------------------------------
(* What the host says.                                                     *)

LEMMA JobSame ==
  UNCHANGED <<img, stage, seg, pos>> =>
    UNCHANGED <<Job, HasData, Segment, Batch, LoadSegments(img), Running, RequiredCmdAck>>
<1> SUFFICES ASSUME UNCHANGED <<img, stage, seg, pos>>
             PROVE  UNCHANGED <<Job, HasData, Segment, Batch, LoadSegments(img), Running,
                                RequiredCmdAck>>
  OBVIOUS
<1>1. UNCHANGED LoadSegments(img)
  OBVIOUS
<1>2. UNCHANGED Segment
  BY DEF Segment
<1>3. UNCHANGED Batch
  BY <1>2 DEF Batch
<1>4. \A c \in Nat : UNCHANGED Rounded(c)
  BY DEF Rounded
<1>5. UNCHANGED Job
  BY <1>2, <1>3 DEF Job, Rounded
<1>6. QED
  BY <1>1, <1>2, <1>3, <1>5 DEF HasData, Running, RequiredCmdAck

LEMMA SendDataType ==
  ASSUME HostTypes, Where, Running, phase = "data"
  PROVE  /\ DataCells \in 1..(Job.count - at) /\ SendData \in Reports
         /\ SendData.cmd = "DATA" /\ SendData.count = DataCells
         /\ SendData.cells = [i \in 1..DataCells |-> Content(at + i - 1)]
<1>1. Job.count \in Nat /\ at \in Nat /\ at < Job.count /\ HasData
  BY JobType DEF Reports, Where, HostTypes
<1>2. DataCells \in 1..(Job.count - at)
  <2>1. OutCells \in Nat \ {0}
    BY SizesAssumption
  <2>2. CASE stage = "dcd" /\ img.family = "MX50"
    BY <1>1, <2>2 DEF DataCells, Where
  <2>3. CASE ~(stage = "dcd" /\ img.family = "MX50")
    BY <1>1, <2>1, <2>3 DEF DataCells, Least
  <2>4. QED
    BY <2>2, <2>3
<1>3. ASSUME NEW i \in 1..DataCells PROVE Content(at + i - 1) \in Cells
  <2>1. \A k \in Int : Rom!File(k) \in Cells
    BY DEF Rom!File, Cells, Whats
  <2>2. Rom!Cell("dcd") \in Cells
    BY DEF Rom!Cell, Cells, Whats
  <2>3. CASE stage = "load"
    <3>1. Segment.from \in Nat /\ pos \in Nat
      BY SegmentType DEF Segments, HostTypes
    <3>2. Segment.from + pos + (at + i - 1) \in Int
      BY <1>1, <1>2, <3>1
    <3>3. QED
      BY <2>1, <2>3, <3>2 DEF Content
  <2>4. CASE stage = "plugin"
    <3>1. img.ivt \in Nat
      BY ImageType DEF HostTypes
    <3>2. img.ivt + (at + i - 1) \in Int
      BY <1>1, <1>2, <3>1
    <3>3. QED
      BY <2>1, <2>4, <3>2 DEF Content
  <2>5. CASE stage = "writeHdr"
    <3>1. Job.count = HeaderCells
      BY <2>5 DEF Job, Rom!Command
    <3>2. (at + i - 1) + 1 \in 1..Len(FlashHdr)
      BY <1>1, <1>2, <2>5, <3>1 DEF Where, HdrStage
    <3>3. QED
      BY <2>5, <3>2 DEF Content, HostTypes
  <2>6. CASE stage \notin {"load", "plugin", "writeHdr"}
    BY <2>2, <2>6 DEF Content
  <2>7. QED
    BY <2>3, <2>4, <2>5, <2>6
<1>4. DEFINE cells == [i \in 1..DataCells |-> Content(at + i - 1)]
<1>5. cells \in Seq(Cells) /\ Len(cells) = DataCells
  BY <1>2, <1>3
<1>6. SendData = [cmd |-> "DATA", addr |-> 0, count |-> DataCells, cells |-> cells]
  BY <1>5 DEF SendData, Rom!Data
<1>7. QED
  BY <1>1, <1>2, <1>5, <1>6 DEF Reports, Cmds

-----------------------------------------------------------------------------
(* The ROM.                                                                *)

RomTypes ==
  [mode : {"listening", "plugin", "image"}, cur : Reports, got : Nat,
   answers : Seq(Cells), dcd : Nat, skip : BOOLEAN, canSkip : BOOLEAN,
   plugged : BOOLEAN, entry : Int]

WireTypes ==
  /\ said \in Seq(Reports) /\ Len(said) = ops
  /\ heard \in Seq(Cells) /\ Len(heard) = sent
  /\ handled \in Nat /\ handled <= Len(delivered)
  /\ rom \in RomTypes /\ mem \in [Addresses -> Cells]

LEMMA NothingType == Rom!Nothing \in Reports /\ Rom!Nothing.cmd = "NONE"
BY DEF Rom!Nothing, Rom!Command, Reports, Cmds

LEMMA CellType == \A w \in Whats : Rom!Cell(w) \in Cells /\ Rom!Cell(w).what = w
BY DEF Rom!Cell, Cells

LEMMA ReceiveType ==
  ASSUME rom \in RomTypes, mem \in [Addresses -> Cells], NEW r \in Reports, Rom!Receive(r)
  PROVE  rom' \in RomTypes /\ mem' \in [Addresses -> Cells]
<1>1. /\ r.count \in Nat /\ r.cells \in Seq(Cells) /\ Len(r.cells) = r.count
      /\ rom.cur \in Reports /\ rom.cur.addr \in Int /\ rom.got \in Nat /\ rom.dcd \in Nat
      /\ rom.answers \in Seq(Cells)
  BY DEF Rom!Receive, Reports, RomTypes
<1>2. mem' \in [Addresses -> Cells]
  <2>1. ASSUME NEW a \in Addresses, a - (rom.cur.addr + rom.got) \in 0..(r.count - 1)
        PROVE  r.cells[a - (rom.cur.addr + rom.got) + 1] \in Cells
    <3>1. a - (rom.cur.addr + rom.got) + 1 \in 1..Len(r.cells)
      <4>1. Addresses \subseteq Int
        BY SizesAssumption
      <4>2. rom.cur.addr \in Int /\ rom.got \in Nat
        BY <1>1
      <4>3. QED
        BY SMTT(40), <1>1, <2>1, <4>1, <4>2
    <3>2. QED
      BY <1>1, <3>1
  <2>2. QED
    BY <2>1 DEF Rom!Receive
<1>3. rom' \in RomTypes
  <2>1. PICK c \in Reports, g \in Nat, d \in Nat, s \in Seq(Cells) :
          rom' = [rom EXCEPT !.cur = c, !.got = g, !.dcd = d, !.answers = s]
    <3>1. \A c \in Cells : rom.answers \o <<Rom!HAB, c>> \in Seq(Cells)
      <4>1. Rom!HAB \in Cells
        BY CellType DEF Rom!HAB, Whats
      <4>2. QED
        BY <1>1, <4>1
    <3>2. /\ Rom!ErrorAck \in Cells /\ Rom!Cell("ROM_WRITE_ACK") \in Cells
          /\ Rom!Cell("ROM_STATUS_ACK") \in Cells
      BY CellType DEF Rom!ErrorAck, Whats
    <3>3. rom.got + r.count \in Nat /\ rom.dcd + r.count \in Nat
      BY <1>1
    <3>4. QED
      BY ZenonT(30), <1>1, <3>1, <3>2, <3>3, NothingType DEF Rom!Receive, Rom!Answer
  <2>2. QED
    BY <2>1 DEF RomTypes
<1>4. QED
  BY <1>2, <1>3

LEMMA HandleType ==
  ASSUME HostTypes, rom \in RomTypes, mem \in [Addresses -> Cells], NEW r \in Reports,
         Rom!Handle(r)
  PROVE  rom' \in RomTypes /\ mem' \in [Addresses -> Cells] /\ img' = img
<1>1. img' = img
  BY DEF Rom!Handle
<1>2. rom.answers \in Seq(Cells) /\ rom.canSkip \in BOOLEAN /\ rom.dcd \in Nat
  BY DEF RomTypes
<1>3. /\ Rom!HAB \in Cells /\ Rom!ErrorAck \in Cells /\ Rom!Cell("ROM_OK_ACK") \in Cells
  BY CellType DEF Rom!HAB, Rom!ErrorAck, Whats
<1>4. CASE Rom!Transfer(r)
  BY <1>1, <1>4 DEF Rom!Transfer, RomTypes
<1>5. CASE Rom!ReadMemory(r)
  <2>1. r.count \in Nat /\ r.addr \in Int
    BY DEF Reports
  <2>2. \A i \in 1..r.count : mem[r.addr + i - 1] \in Cells
    <3>1. TAKE i \in 1..r.count
    <3>2. i - 1 \in 0..(r.count - 1) /\ r.addr + (i - 1) = r.addr + i - 1
      BY <2>1
    <3>3. r.addr + (i - 1) \in Addresses
      BY <1>5, <3>2 DEF Reports, Rom!ReadMemory
    <3>4. QED
      BY <3>2, <3>3
  <2>3. [i \in 1..r.count |-> mem[r.addr + i - 1]] \in Seq(Cells)
    BY <2>1, <2>2
  <2>4. rom.answers \o (<<Rom!HAB>> \o [i \in 1..r.count |-> mem[r.addr + i - 1]]) \in Seq(Cells)
    BY <1>2, <1>3, <2>3
  <2>5. QED
    BY <1>1, <1>5, <2>4 DEF Rom!ReadMemory, Rom!Answer, RomTypes
<1>6. CASE Rom!SkipDcd(r)
  <2>1. PICK s \in Seq(Cells) : rom' = [rom EXCEPT !.skip = rom.canSkip, !.answers = s]
    <3>1. \A c \in Cells : rom.answers \o <<Rom!HAB, c>> \in Seq(Cells)
      BY <1>2, <1>3
    <3>2. QED
      BY <1>3, <1>6, <3>1 DEF Rom!SkipDcd, Rom!Answer
  <2>2. QED
    BY <1>1, <1>2, <1>6, <2>1 DEF Rom!SkipDcd, RomTypes
<1>7. CASE Rom!Receive(r)
  BY <1>1, <1>7, ReceiveType
<1>8. CASE Rom!JumpToPlugin(r)
  <2>1. rom.answers \o <<Rom!HAB>> \in Seq(Cells)
    BY <1>2, <1>3
  <2>2. QED
    BY <1>1, <1>8, <2>1 DEF Rom!JumpToPlugin, Rom!Answer, RomTypes
<1>9. CASE Rom!JumpToImage(r)
  <2>1. rom.answers \o <<Rom!HAB>> \in Seq(Cells)
    BY <1>2, <1>3
  <2>2. mem[r.addr].at \in Int
    BY <1>9 DEF Rom!JumpToImage, Reports, Cells
  <2>3. img.dcd \in Nat /\ img.entry \in Int /\ img.next.entry \in Int
    BY ImageType DEF HostTypes
  <2>4. Rom!EntryOf(r.addr) \in Int
    BY <2>2, <2>3 DEF Rom!EntryOf
  <2>5. PICK d \in Nat : rom' = [rom EXCEPT !.mode = "image", !.entry = Rom!EntryOf(r.addr),
                                 !.dcd = d, !.answers = rom.answers \o <<Rom!HAB>>]
    <3>1. rom.dcd + img.dcd \in Nat
      BY <1>2, <2>3
    <3>2. QED
      BY <1>2, <1>9, <3>1 DEF Rom!JumpToImage, Rom!Answer
  <2>6. QED
    BY <1>1, <1>9, <2>1, <2>4, <2>5 DEF Rom!JumpToImage, RomTypes
<1>10. CASE Rom!JumpRefused(r)
  <2>1. rom.answers \o <<Rom!HAB, Rom!ErrorAck>> \in Seq(Cells)
    BY <1>2, <1>3
  <2>2. QED
    BY <1>1, <1>10, <2>1 DEF Rom!JumpRefused, Rom!Answer, RomTypes
<1>11. QED
  BY <1>1, <1>4, <1>5, <1>6, <1>7, <1>8, <1>9, <1>10 DEF Rom!Handle

-----------------------------------------------------------------------------
(* Types, and where calls are.                                             *)

LEMMA QuietSteps ==
  ASSUME Transport \/ RomHandles \/ RomAnswers \/ PluginReturns \/ Finished \/ UNCHANGED vars
  PROVE  UNCHANGED <<img, stage, phase, asked, seg, pos, at, buf, FlashHdr, said, lingered>>
BY DEF Transport, RomHandles, RomAnswers, PluginReturns, Finished, Rom!Handle,
       Rom!SendAnswer, Rom!PluginReturns, vars, host, wire, target

LEMMA JudgeSteps ==
  ASSUME CmdSent \/ DataSent \/ GetHABType \/ GetDevAck \/ ReadData \/ ReportFails
         \/ HABUnknown \/ AckRefused
  PROVE  Answered /\ UNCHANGED <<transport, target, wire, img, rom, mem, said, heard, handled, lingered>>
BY DEF CmdSent, DataSent, GetHABType, GetDevAck, ReadData, ReportFails, HABUnknown,
       AckRefused, Failed, Judge, target, wire

LEMMA ReportType ==
  ASSUME Carried, WireTypes PROVE Report \in Cells
<1>1. Rom!Cell("blank") \in Cells
  BY CellType DEF Whats
<1>2. readBuf # 0 => readBuf \in 1..Len(heard)
  <2>1. readBuf \in Nat /\ taken \in Nat /\ sent \in Nat
    BY DEF Carried, H!TypeOK
  <2>2. QED
    BY <2>1 DEF Carried, H!Ids, WireTypes
<1>3. QED
  BY <1>1, <1>2 DEF Report, WireTypes

LEMMA SucceedsType ==
  ASSUME HostTypes, Where, Running, img' = img, lingered' = lingered, CallSucceeds,
         buf' \in Seq(Cells), Len(buf') <= HeaderCells,
         stage = "readHdr" => Len(buf') = HeaderCells
  PROVE  HostTypes' /\ Where'
<1>1. phase' = "cmd" /\ asked' = FALSE /\ at' = 0
  BY DEF CallSucceeds, BeginStage
<1>2. FlashHdr' \in Seq(Cells) /\ (stage = "readHdr" => Len(FlashHdr') = HeaderCells)
      /\ (stage # "readHdr" => FlashHdr' = FlashHdr)
  <2>1. CASE More
    BY <2>1 DEF CallSucceeds, HostTypes, More
  <2>2. CASE ~More /\ stage # "readHdr"
    BY <2>2 DEF CallSucceeds, HostTypes
  <2>3. CASE ~More /\ stage = "readHdr"
    <3>1. FlashHdr' = [buf' EXCEPT ![1] = Rom!IvtHeader(ExecutingAddr(img))]
      BY <2>3 DEF CallSucceeds
    <3>2. Rom!IvtHeader(ExecutingAddr(img)) \in Cells
      <4>1. ExecutingAddr(img) \in Int
        BY ImageType DEF HostTypes, ExecutingAddr
      <4>2. QED
        BY <4>1 DEF Rom!IvtHeader, Cells, Whats
    <3>3. 1 \in 1..Len(buf') /\ Len(buf') = HeaderCells
      BY <2>3, SizesAssumption
    <3>4. FlashHdr' \in Seq(Cells) /\ Len(FlashHdr') = Len(buf')
      BY <3>1, <3>2, <3>3, ExceptSeq
    <3>5. QED
      BY <2>3, <3>3, <3>4
  <2>4. QED
    BY <2>1, <2>2, <2>3
<1>3. LoadSegments(img)' = LoadSegments(img)
  OBVIOUS
<1>4. \A k \in 1..Len(LoadSegments(img)) : LoadSegments(img)[k].cells > 0
  <2>1. \A k \in 1..Len(LoadSegments(img)) : LoadSegments(img)[k] \in Segments
    BY SegmentsType DEF HostTypes
  <2>2. QED
    BY <2>1 DEF Segments
<1>5. CASE More
  <2>1. UNCHANGED <<stage, seg, FlashHdr>> /\ pos' = pos + Batch
    BY <1>5 DEF CallSucceeds, BeginStage
  <2>2. Segment' = Segment
    BY <1>3, <2>1 DEF Segment
  <2>3. pos' \in Nat
    BY SMTT(40), <1>5, <2>1, BatchType, SegmentType, ImageType DEF HostTypes, More, Segments
  <2>4. stage' = "load" => pos' < Segment'.cells
    BY <1>5, <2>1, <2>2 DEF More
  <2>5. stage' = "dcd" => pos' < img'.dcd /\ img.family = "MX50"
    BY <1>5, <2>1 DEF More
  <2>6. QED
    BY <1>1, <1>2, <2>1, <2>3, <2>4, <2>5 DEF HostTypes, Where, HdrStage
<1>6. CASE ~More /\ stage = "load" /\ seg < Len(LoadSegments(img))
  <2>1. stage' = "load" /\ seg' = seg + 1 /\ pos' = 0 /\ FlashHdr' = FlashHdr
    BY <1>6 DEF CallSucceeds, BeginStage
  <2>2. seg' \in 1..Len(LoadSegments(img)) /\ Segment'.cells > 0
    BY <1>3, <1>4, <1>6, <2>1 DEF Segment, HostTypes
  <2>3. QED
    BY <1>1, <1>2, <2>1, <2>2 DEF HostTypes, Where, HdrStage, Stages
<1>7. CASE ~More /\ ~(stage = "load" /\ seg < Len(LoadSegments(img)))
  <2>1. stage' = Following /\ seg' = seg /\ pos' = 0
    BY <1>7 DEF CallSucceeds, BeginStage
  <2>2. Segment'.cells > 0
    BY <1>3, <1>4, <2>1 DEF Segment, HostTypes
  <2>3. /\ stage' \in Stages \ {"ecc", "plugin"}
        /\ stage' = "dcd" => stage = "ecc"
        /\ stage' = "start" => stage = "plugin"
        /\ stage' = "readHdr" => img.second = "uimage"
        /\ stage' \in {"writeHdr", "verifyHdr", "jumpHdr"} => HdrStage
        /\ stage' \in {"verifyHdr", "jumpHdr"} => stage \in {"writeHdr", "verifyHdr"}
        /\ stage' = "writeHdr" => stage = "readHdr"
    BY <2>1 DEF Following, AfterLoad, HostTypes, Stages, Running, HdrStage
  <2>4. img.second = "uimage" => img.family # "MX8"
    BY ImageType DEF LaidOut, HostTypes
  <2>5. QED
    BY <1>1, <1>2, <2>1, <2>2, <2>3, <2>4 DEF HostTypes, Where, HdrStage
<1>8. QED
  BY <1>5, <1>6, <1>7

LEMMA FailsType ==
  ASSUME HostTypes, Where, Running, Failed
  PROVE  HostTypes' /\ Where'
<1>1. /\ phase' = "cmd" /\ asked' = FALSE /\ at' = 0 /\ pos' = 0 /\ stage' = AfterFailure
      /\ UNCHANGED <<img, seg, FlashHdr, buf, lingered>>
  BY DEF Failed, Judge, CallFails, BeginStage, target, wire
<1>2. /\ stage' \in {"dcd", "readHdr", "failed"}
      /\ stage' = "dcd" => stage = "ecc"
      /\ stage' = "readHdr" => img.family # "MX8"
  BY <1>1 DEF AfterFailure
<1>3. QED
  BY <1>1, <1>2 DEF HostTypes, Where, HdrStage, Stages

LEMMA GoesOnType ==
  ASSUME HostTypes, Where, Running, NEW p \in {"data", "hab", "ack", "read"}, GoOn(p),
         img' = img, lingered' = lingered, at' \in Nat, buf' \in Seq(Cells), Len(buf') <= HeaderCells,
         p = "data" => HasData /\ at' < Job.count /\ (stage = "dcd" /\ img.family = "MX50" => at' = 0),
         p = "ack" => Job.cmd # "RD_MEM",
         p = "read" => Job.cmd = "RD_MEM" /\ Len(buf') < HeaderCells,
         p = "hab" /\ Job.cmd = "RD_MEM" => buf' = <<>>
  PROVE  HostTypes' /\ Where'
<1>1. UNCHANGED <<stage, seg, pos, FlashHdr>> /\ phase' = p /\ asked' = FALSE
  BY DEF GoOn
<1>2. UNCHANGED <<Job, HasData, Segment, Batch, LoadSegments(img), Running>>
  BY <1>1, JobSame
<1>3. HostTypes'
  BY <1>1, <1>2 DEF HostTypes
<1>4. Where'
  BY <1>1, <1>2 DEF Where, HdrStage
<1>5. QED
  BY <1>3, <1>4

LEMMA HostTypesStep ==
  Carried /\ WireTypes /\ HostTypes /\ Where /\ [Next]_vars => HostTypes' /\ Where'
<1> SUFFICES ASSUME Carried, WireTypes, HostTypes, Where, [Next]_vars PROVE HostTypes' /\ Where'
  OBVIOUS
<1>1. CASE Say \/ Listen
  <2>1. /\ UNCHANGED <<img, stage, phase, seg, pos, at, buf, FlashHdr>> /\ asked' = TRUE
        /\ lingered' \in BOOLEAN
    BY <1>1 DEF Say, Listen, MayCall, target, HostTypes
  <2>2. UNCHANGED <<Job, HasData, Segment, Batch, LoadSegments(img), Running>>
    BY <2>1, JobSame
  <2>3. QED
    BY <2>1, <2>2 DEF HostTypes, Where, HdrStage
<1>2. CASE CmdSent
  <2>1. Running /\ at' = 0 /\ buf' = <<>> /\ img' = img /\ lingered' = lingered
        /\ GoOn(IF HasData THEN "data" ELSE "hab")
    BY <1>2, JudgeSteps DEF CmdSent, Answered
  <2>2. HasData => Job.count > 0
    BY <2>1, JobType
  <2>3. HeaderCells \in Nat /\ <<>> \in Seq(Cells) /\ Len(<<>>) = 0
    BY SizesAssumption
  <2>4. CASE HasData
    BY <2>1, <2>2, <2>3, <2>4, GoesOnType
  <2>5. CASE ~HasData
    BY <2>1, <2>3, <2>5, GoesOnType
  <2>6. QED
    BY <2>4, <2>5
<1>3. CASE DataSent
  <2>1. Running /\ at' = at + DataCells /\ buf' = buf /\ img' = img /\ lingered' = lingered
        /\ phase = "data" /\ GoOn(IF at' < Job.count THEN "data" ELSE "hab")
    BY <1>3, JudgeSteps DEF DataSent, Answered
  <2>2. DataCells \in 1..(Job.count - at) /\ Job.count \in Nat /\ HasData
    BY <2>1, SendDataType, JobType DEF Where, Reports
  <2>3. at' \in Nat /\ Job.cmd # "RD_MEM"
    BY <2>1, <2>2 DEF HostTypes, HasData
  <2>4. CASE at' < Job.count
    <3>1. ~(stage = "dcd" /\ img.family = "MX50")
      BY <2>1, <2>2, <2>4 DEF DataCells, HostTypes
    <3>2. QED
      BY <2>1, <2>2, <2>3, <2>4, <3>1, GoesOnType DEF HostTypes
  <2>5. CASE ~(at' < Job.count)
    BY <2>1, <2>2, <2>3, <2>5, GoesOnType DEF HostTypes
  <2>6. QED
    BY <2>4, <2>5
<1>4. CASE GetHABType
  <2>1. Running /\ at' = 0 /\ buf' = buf /\ img' = img /\ lingered' = lingered
        /\ phase = "hab" /\ GoOn(IF Job.cmd = "RD_MEM" THEN "read" ELSE "ack")
    BY <1>4, JudgeSteps DEF GetHABType, Answered
  <2>2. Job.cmd = "RD_MEM" => Len(buf') < HeaderCells
    BY <2>1, SizesAssumption DEF Where
  <2>3. CASE Job.cmd = "RD_MEM"
    BY <2>1, <2>2, <2>3, GoesOnType DEF HostTypes
  <2>4. CASE Job.cmd # "RD_MEM"
    BY <2>1, <2>4, GoesOnType DEF HostTypes
  <2>5. QED
    BY <2>3, <2>4
<1>5. CASE GetDevAck
  <2>1. Running /\ img' = img /\ lingered' = lingered /\ buf' = buf /\ CallSucceeds /\ phase = "ack"
    BY <1>5, JudgeSteps DEF GetDevAck, Answered
  <2>2. stage # "readHdr"
    BY <2>1 DEF Where, Job, Rom!Command
  <2>3. QED
    BY <2>1, <2>2, SucceedsType DEF HostTypes
<1>6. CASE ReadData
  <2>1. Running /\ img' = img /\ lingered' = lingered /\ phase = "read" /\ buf' = Append(buf, Report)
    BY <1>6, JudgeSteps DEF ReadData, Answered
  <2>2. Job.cmd = "RD_MEM" /\ Len(buf) < HeaderCells
    BY <2>1 DEF Where
  <2>3. stage \in {"readHdr", "verifyHdr"} /\ Job.count = HeaderCells
    BY <2>1, <2>2 DEF Job, Rom!Command, HostTypes, Stages, Running
  <2>4. buf' \in Seq(Cells) /\ Len(buf') = Len(buf) + 1 /\ HeaderCells \in Nat /\ Len(buf) \in Nat
    BY <2>1, ReportType, SizesAssumption DEF HostTypes
  <2>5. CASE Len(buf') < Job.count
    BY <1>6, <2>1, <2>2, <2>3, <2>4, <2>5, GoesOnType DEF ReadData, HostTypes
  <2>6. CASE ~(Len(buf') < Job.count)
    <3>1. CallSucceeds /\ Len(buf') = HeaderCells
      BY <1>6, <2>2, <2>3, <2>4, <2>6 DEF ReadData
    <3>2. QED
      BY <2>1, <2>4, <3>1, SucceedsType
  <2>7. QED
    BY <2>5, <2>6
<1>7. CASE ReportFails \/ HABUnknown \/ AckRefused
  <2>1. Failed /\ Running
    BY <1>7 DEF ReportFails, HABUnknown, AckRefused, Failed, Judge, Answered
  <2>2. QED
    BY <2>1, FailsType
<1>8. CASE \/ Transport \/ RomHandles \/ RomAnswers \/ PluginReturns \/ Finished
           \/ UNCHANGED vars
  <2>1. UNCHANGED <<img, stage, phase, asked, seg, pos, at, buf, FlashHdr, said, lingered>>
    BY <1>8, QuietSteps
  <2>2. UNCHANGED <<Job, HasData, Segment, Batch, LoadSegments(img), Running>>
    BY <2>1, JobSame
  <2>3. QED
    BY <2>1, <2>2 DEF HostTypes, Where, HdrStage
<1>9. QED
  BY <1>1, <1>2, <1>3, <1>4, <1>5, <1>6, <1>7, <1>8 DEF Next, HostStep

LEMMA TransportFrame ==
  ASSUME Transport
  PROVE  /\ UNCHANGED <<ops, sent, img, rom, mem, heard, handled, said>>
         /\ delivered' = delivered \/ delivered' = Append(delivered, writeBuf)
<1>1. H!HostStep \/ H!ReportArrives \/ H!RequestFails \/ H!DeviceAccepts
  BY HostIsHost, DriverIsDriver DEF Transport
<1>2. QED
  BY <1>1 DEF Transport, target, wire, H!HostStep, H!WriteReturns, H!ReadReturns,
              H!ReadTimesOut, H!CancelRead, H!ReportArrives, H!RequestFails,
              H!DeviceAccepts, H!host, H!kernel, H!device, H!ghost

LEMMA WireTypesStep ==
  Carried /\ WireTypes /\ HostTypes /\ Where /\ [Next]_vars => WireTypes'
<1> SUFFICES ASSUME Carried, WireTypes, HostTypes, Where, [Next]_vars PROVE WireTypes'
  OBVIOUS
<1>1. delivered \in Seq(Nat) /\ ops \in Nat /\ sent \in Nat
  BY DEF Carried, H!TypeOK
<1>2. CASE Say \/ Listen
  <2>1. /\ UNCHANGED <<sent, delivered, rom, mem, heard, handled>> /\ ops' = ops + 1
    BY <1>2, CallIsCall DEF Say, Listen, target, H!Call, H!StartWrite, H!WriteRefused,
          H!StartRead, H!ReadRefused, H!PrepareWrite, H!PrepareRead, H!device
  <2>2. PICK r \in Reports : said' = Append(said, r)
    <3>1. CASE Say
      BY <3>1, JobType, SendDataType DEF Say, MayCall
    <3>2. CASE Listen
      BY <3>2, NothingType DEF Listen
    <3>3. QED
      BY <1>2, <3>1, <3>2
  <2>3. QED
    BY <2>1, <2>2 DEF WireTypes
<1>3. CASE Transport
  BY <1>1, <1>3, TransportFrame DEF WireTypes
<1>4. CASE RomHandles
  <2>1. /\ UNCHANGED <<ops, sent, delivered, said, heard>> /\ handled' = handled + 1
        /\ handled < Len(delivered) /\ Rom!Handle(said[delivered[handled + 1]])
    BY <1>4 DEF RomHandles, transport
  <2>2. said[delivered[handled + 1]] \in Reports
    <3>1. delivered[handled + 1] \in 1..Len(said)
      BY <1>1, <2>1 DEF WireTypes, Carried, H!Ids
    <3>2. QED
      BY <3>1 DEF WireTypes
  <2>3. rom' \in RomTypes /\ mem' \in [Addresses -> Cells]
    BY <2>1, <2>2, HandleType DEF WireTypes
  <2>4. QED
    BY <1>1, <2>1, <2>3 DEF WireTypes
<1>5. CASE RomAnswers
  <2>1. /\ UNCHANGED <<ops, delivered, said, handled, mem>> /\ sent' = sent + 1
        /\ heard' = Append(heard, Head(rom.answers))
        /\ rom.answers # <<>> /\ rom' = [rom EXCEPT !.answers = Tail(rom.answers)]
    BY <1>5, DriverIsDriver DEF RomAnswers, Rom!SendAnswer, H!DeviceSends, H!host
  <2>2. rom.answers \in Seq(Cells)
    BY DEF WireTypes, RomTypes
  <2>3. Head(rom.answers) \in Cells /\ Tail(rom.answers) \in Seq(Cells)
    BY <2>1, <2>2
  <2>4. rom' \in RomTypes
    BY <2>1, <2>3 DEF WireTypes, RomTypes
  <2>5. QED
    BY <1>1, <2>1, <2>3, <2>4 DEF WireTypes
<1>6. CASE PluginReturns
  <2>1. /\ UNCHANGED <<ops, delivered, sent, said, handled, heard, mem>>
        /\ rom' = [rom EXCEPT !.mode = "listening", !.plugged = TRUE,
                              !.answers = rom.answers \o <<Rom!Cell("ROM_OK_ACK")>>]
    BY <1>6 DEF PluginReturns, transport, wire, Rom!PluginReturns, Rom!Answer
  <2>2. rom.answers \o <<Rom!Cell("ROM_OK_ACK")>> \in Seq(Cells)
    BY CellType DEF WireTypes, RomTypes, Whats
  <2>3. rom' \in RomTypes
    BY <2>1, <2>2 DEF WireTypes, RomTypes
  <2>4. QED
    BY <2>1, <2>3 DEF WireTypes
<1>7. CASE UNCHANGED <<transport, target, wire>>
  BY <1>7 DEF transport, target, wire, WireTypes
<1>8. QED
  BY <1>2, <1>3, <1>4, <1>5, <1>6, <1>7, JudgeSteps DEF Next, HostStep, Finished, vars

LEMMA TypesInit == Init => HostTypes /\ Where /\ WireTypes
<1> SUFFICES ASSUME Init PROVE HostTypes /\ Where /\ WireTypes
  OBVIOUS
<1>1. /\ img \in Images /\ stage = FirstStage /\ phase = "cmd" /\ asked = FALSE /\ seg = 1
      /\ pos = 0 /\ at = 0 /\ buf = <<>> /\ FlashHdr = <<>> /\ lingered = FALSE
      /\ said = <<>> /\ heard = <<>> /\ handled = 0 /\ ops = 0 /\ sent = 0 /\ delivered = <<>>
  BY DEF Init, Hid!Init
<1>2. /\ LoadSegments(img) \in Seq(Segments) /\ Len(LoadSegments(img)) > 0
      /\ Segment \in Segments
  BY <1>1, SegmentsType DEF Segment
<1>3. /\ stage \in {"ecc", "dcd", "plugin", "load", "failed"} /\ (stage \in {"ecc", "dcd"} => img.dcd > 0)
      /\ (stage = "ecc" => img.family = "MX8") /\ (stage = "plugin" => img.plugin > 0)
  BY <1>1 DEF FirstStage
<1>4. HeaderCells \in Nat /\ <<>> \in Seq(Cells) /\ Len(<<>>) = 0 /\ img.dcd \in Nat
  BY <1>1, SizesAssumption, ImageType
<1>5. HostTypes
  <2>1. seg \in 1..Len(LoadSegments(img))
    <3>1. Len(LoadSegments(img)) \in Nat
      BY <1>2
    <3>2. QED
      BY <1>1, <1>2, <3>1
  <2>2. stage \in Stages
    BY <1>3 DEF Stages
  <2>3. buf \in Seq(Cells) /\ FlashHdr \in Seq(Cells) /\ Len(buf) <= HeaderCells
    BY <1>1, <1>4
  <2>4. QED
    BY <1>1, <2>1, <2>2, <2>3 DEF HostTypes
<1>6. Where
  BY <1>1, <1>2, <1>3, <1>4 DEF Where, HdrStage, Segments
<1>7. WireTypes
  <2>1. CanSkip \subseteq BOOLEAN
    BY SizesAssumption
  <2>2. rom \in RomTypes
    <3>1. PICK can \in BOOLEAN : rom =
            [mode |-> "listening", cur |-> Rom!Nothing, got |-> 0, answers |-> <<>>, dcd |-> 0,
             skip |-> FALSE, canSkip |-> can, plugged |-> FALSE, entry |-> 0]
      BY <2>1 DEF Init, Rom!Init
    <3>2. QED
      BY <1>4, <3>1, NothingType DEF RomTypes
  <2>3. mem \in [Addresses -> Cells]
    <3>1. Rom!Cell("junk") \in Cells
      BY CellType DEF Whats
    <3>2. QED
      BY <3>1 DEF Init, Rom!Init
  <2>4. <<>> \in Seq(Reports)
    OBVIOUS
  <2>5. QED
    BY <1>1, <1>4, <2>2, <2>3, <2>4 DEF WireTypes
<1>8. QED
  BY <1>5, <1>6, <1>7

Typed == Carried /\ HostTypes /\ Where /\ WireTypes

LEMMA TypedInvariant == Spec => []Typed
<1>1. Init => Typed
  BY CarriedInit, TypesInit DEF Typed
<1>2. Typed /\ [Next]_vars => Typed'
  BY CarriedStep, HostTypesStep, WireTypesStep DEF Typed
<1>3. QED
  BY <1>1, <1>2, PTL DEF Spec

\* The state of a run has its types whatever fails on the way: the position in the
\* download stays in a segment, and the header that is read in the buffer for it
\* (MxHidDevice.cpp:788-866).
THEOREM TypeCorrect == Spec => []TypeOK
<1>1. Typed => TypeOK
  BY DEF Typed, HostTypes, WireTypes, TypeOK
<1>2. QED
  BY <1>1, TypedInvariant, PTL

-----------------------------------------------------------------------------
(* What is in flight.                                                      *)

JudgeStep == \/ CmdSent \/ DataSent \/ GetHABType \/ GetDevAck \/ ReadData \/ ReportFails
             \/ HABUnknown \/ AckRefused

\* The call in progress is the one of this report, and holds what the host said.
Calls ==
  /\ ~Running => pc = "idle"
  /\ ~asked => pc = "idle"
  /\ asked /\ pc = "idle" => ret.op = IF phase \in {"cmd", "data"} THEN "write" ELSE "read"
  /\ pc = "waitWrite" => phase \in {"cmd", "data"}
  /\ pc \in {"waitRead", "cancelRead"} => phase \in {"hab", "ack", "read"}
  /\ Running /\ asked /\ phase \in {"cmd", "data"} =>
       ops > 0 /\ writeBuf = ops /\ said[ops] = IF phase = "cmd" THEN Job ELSE SendData

LEMMA SaidSame ==
  UNCHANGED <<img, stage, phase, seg, pos, at, FlashHdr>> => UNCHANGED <<Job, SendData>>
<1> SUFFICES ASSUME UNCHANGED <<img, stage, phase, seg, pos, at, FlashHdr>>
             PROVE  UNCHANGED <<Job, SendData>>
  OBVIOUS
<1>1. UNCHANGED <<Job, Segment>>
  BY JobSame
<1>2. UNCHANGED DataCells
  BY <1>1 DEF DataCells
<1>3. UNCHANGED SendData
  BY <1>1, <1>2 DEF SendData, Content, Rom!Data, Rom!File, Rom!Cell
<1>4. QED
  BY <1>1, <1>3

LEMMA SayFrame ==
  ASSUME Carried, WireTypes, Say \/ Listen
  PROVE  /\ UNCHANGED <<img, rom, mem, stage, phase, seg, pos, at, buf, FlashHdr, heard,
                        handled, delivered, sent, taken, timeouts, okReads>>
         /\ asked' = TRUE /\ ops' = ops + 1 /\ pc = "idle" /\ ~asked /\ Running
         /\ \A k \in 1..ops : said'[k] = said[k]
         /\ H!Call
         /\ Say => phase \in {"cmd", "data"} /\ writeBuf' = ops' /\ pc' \in {"idle", "waitWrite"}
                   /\ said'[ops'] = IF phase = "cmd" THEN Job ELSE SendData
         /\ Say /\ pc' = "idle" => ret'.op = "write" /\ ret'.status # "SUCCESS"
         /\ Listen => phase \in {"hab", "ack", "read"} /\ writeBuf' = writeBuf
                      /\ pc' \in {"idle", "waitRead"} /\ said'[ops'] = Rom!Nothing
         /\ Listen /\ pc' = "idle" => ret'.op = "read" /\ ret'.status # "SUCCESS"
<1>1. ops \in Nat /\ Len(said) = ops /\ said \in Seq(Reports)
  BY DEF Carried, H!TypeOK, WireTypes
<1>2. /\ UNCHANGED <<img, rom, mem, stage, phase, seg, pos, at, buf, FlashHdr, heard, handled>>
      /\ asked' = TRUE /\ pc = "idle" /\ ~asked /\ Running
  BY DEF Say, Listen, MayCall, target
<1>3. CASE Say
  <2>1. H!StartWrite \/ H!WriteRefused
    BY <1>3, CallIsCall DEF Say
  <2>2. /\ UNCHANGED <<delivered, sent, taken, timeouts, okReads>> /\ ops' = ops + 1
        /\ writeBuf' = ops' /\ pc' \in {"idle", "waitWrite"}
        /\ pc' = "idle" => ret'.op = "write" /\ ret'.status # "SUCCESS"
    BY <2>1 DEF H!StartWrite, H!WriteRefused, H!PrepareWrite, H!Return, H!device, H!ghost
  <2>3. said' = Append(said, IF phase = "cmd" THEN Job ELSE SendData) /\ phase \in {"cmd", "data"}
    BY <1>3 DEF Say
  <2>4. Say /\ ~Listen
    BY <1>3 DEF Say, Listen
  <2>5. QED
    BY <1>1, <1>2, <2>1, <2>2, <2>3, <2>4 DEF H!Call
<1>4. CASE Listen
  <2>1. H!StartRead \/ H!ReadRefused
    BY <1>4, CallIsCall DEF Listen
  <2>2. /\ UNCHANGED <<writeBuf, delivered, sent, taken, timeouts, okReads>> /\ ops' = ops + 1
        /\ pc' \in {"idle", "waitRead"}
        /\ pc' = "idle" => ret'.op = "read" /\ ret'.status # "SUCCESS"
    BY <2>1 DEF H!StartRead, H!ReadRefused, H!PrepareRead, H!Return, H!device, H!ghost
  <2>3. said' = Append(said, Rom!Nothing) /\ phase \in {"hab", "ack", "read"}
    BY <1>4 DEF Listen
  <2>4. Listen /\ ~Say
    BY <1>4 DEF Say, Listen
  <2>5. QED
    BY <1>1, <1>2, <2>1, <2>2, <2>3, <2>4 DEF H!Call
<1>5. QED
  BY <1>3, <1>4

\* What the transport does on its own.
LEMMA TransportCalls ==
  ASSUME Carried, Transport
  PROVE  /\ UNCHANGED <<writeBuf, stage, phase, asked>>
         /\ pc = "idle" => UNCHANGED <<pc, ret, timeouts, okReads>>
         /\ pc = "waitWrite" => pc' \in {"idle", "waitWrite"} /\ UNCHANGED <<timeouts, okReads>>
                                /\ (pc' = "idle" => ret'.op = "write")
         /\ pc \in {"waitRead", "cancelRead"} =>
              /\ pc' \in {"idle", "waitRead", "cancelRead"}
              /\ pc' = "idle" => /\ ret'.op = "read"
                                 /\ timeouts' = timeouts \/ ret'.status # "SUCCESS"
                                 /\ okReads' = okReads + IF ret'.status = "SUCCESS" THEN 1 ELSE 0
              /\ pc' # "idle" => UNCHANGED <<timeouts, okReads>>
         /\ ~H!Call
<1>1. H!HostStep \/ H!ReportArrives \/ H!RequestFails \/ H!DeviceAccepts
  BY HostIsHost, DriverIsDriver DEF Transport
<1>2. UNCHANGED <<stage, phase, asked>>
  BY QuietSteps
<1>3. ops \in Nat /\ okReads \in Nat /\ okReads + 0 = okReads
  BY DEF Carried, H!TypeOK
<1>4. ~H!Call
  <2>1. H!Call => ops' = ops + 1
    BY DEF H!Call, H!StartWrite, H!WriteRefused, H!StartRead, H!ReadRefused, H!PrepareWrite,
           H!PrepareRead
  <2>2. QED
    BY <1>3, <2>1, TransportFrame
<1>5. CASE H!WriteReturns \/ H!ReadReturns
  BY <1>2, <1>3, <1>4, <1>5 DEF H!WriteReturns, H!ReadReturns, H!Return
<1>6. CASE H!ReadTimesOut \/ H!CancelRead
  BY <1>2, <1>3, <1>4, <1>6 DEF H!ReadTimesOut, H!CancelRead, H!Return, H!ghost
<1>7. CASE H!ReportArrives \/ H!RequestFails \/ H!DeviceAccepts
  BY <1>2, <1>4, <1>7
     DEF H!ReportArrives, H!RequestFails, H!DeviceAccepts, H!host, H!device, H!ghost
<1>8. QED
  BY <1>1, <1>5, <1>6, <1>7 DEF H!HostStep

LEMMA RomFrame ==
  ASSUME RomHandles \/ RomAnswers \/ PluginReturns \/ Finished \/ UNCHANGED vars
  PROVE  UNCHANGED <<pc, ops, overlapped, writeBuf, ret, pending, apcs, delivered, timeouts,
                     okReads, taken, readBuf>>
BY DEF RomHandles, RomAnswers, PluginReturns, Finished, vars, transport, Hid!DeviceSends,
       Hid!host, Hid!kernel, Hid!ghost

LEMMA CallsStep ==
  Carried /\ HostTypes /\ Where /\ WireTypes /\ Calls /\ [Next]_vars => Calls'
<1> SUFFICES ASSUME Carried, HostTypes, Where, WireTypes, Calls, [Next]_vars PROVE Calls'
  OBVIOUS
<1>0. ops \in Nat
  BY DEF Carried, H!TypeOK
<1>1. CASE Say \/ Listen
  <2>1. UNCHANGED <<Job, SendData, Running>>
    BY <1>1, SayFrame, SaidSame, JobSame
  <2>2. CASE Say
    BY <1>0, <2>1, <2>2, SayFrame DEF Calls
  <2>3. CASE Listen
    BY <1>0, <2>1, <2>3, SayFrame DEF Calls
  <2>4. QED
    BY <1>1, <2>2, <2>3
<1>2. CASE JudgeStep
  <2>1. asked' = FALSE
    BY <1>2 DEF JudgeStep, CmdSent, DataSent, GetHABType, GetDevAck, ReadData, ReportFails,
                HABUnknown, AckRefused, Failed, GoOn, CallSucceeds, CallFails, BeginStage
  <2>2. pc = "idle" /\ pc' = pc
    BY <1>2, JudgeSteps DEF JudgeStep, Answered, transport
  <2>3. QED
    BY <2>1, <2>2 DEF Calls
<1>3. CASE Transport
  <2>1. UNCHANGED <<img, stage, phase, asked, seg, pos, at, buf, FlashHdr, said, ops>>
    BY <1>3, QuietSteps, TransportFrame
  <2>2. UNCHANGED <<Job, SendData, Running>>
    BY <2>1, SaidSame, JobSame
  <2>3. pc \in {"idle", "waitWrite", "waitRead", "cancelRead"}
    BY DEF Carried, H!TypeOK
  <2>4. QED
    BY <1>3, <2>1, <2>2, <2>3, TransportCalls DEF Calls
<1>4. CASE RomHandles \/ RomAnswers \/ PluginReturns \/ Finished \/ UNCHANGED vars
  <2>1. UNCHANGED <<img, stage, phase, asked, seg, pos, at, buf, FlashHdr, said>>
    BY <1>4, QuietSteps
  <2>2. UNCHANGED <<Job, SendData, Running>>
    BY <2>1, SaidSame, JobSame
  <2>3. QED
    BY <1>4, <2>1, <2>2, RomFrame DEF Calls
<1>5. QED
  BY <1>1, <1>2, <1>3, <1>4 DEF Next, HostStep, JudgeStep

\* Before the header is written, a Write that fails ends the run, but for the one of
\* the MX8's DCD, before which nothing was read.
CalmStages == {"ecc", "dcd", "plugin", "start", "load", "skip", "jump"}

Early ==
  stage \in CalmStages =>
    /\ H!Calm
    /\ ~asked => timeouts = 0 \/ ret.op = "read" \/ ret.status = "SUCCESS"
    /\ stage = "ecc" => \/ timeouts = 0
                        \/ asked /\ pc = "idle" /\ ret.op = "read" /\ ret.status # "SUCCESS"

LEMMA Moves ==
  ASSUME HostTypes, JudgeStep
  PROVE  /\ stage' \in CalmStages => stage \in CalmStages
         /\ stage' = "ecc" => stage = "ecc" /\ Ok
         /\ ~Ok /\ phase \in {"cmd", "data"} =>
              stage' \in {"failed", "readHdr"} \/ (stage = "ecc" /\ stage' = "dcd")
<1>0. Running
  BY JudgeSteps DEF JudgeStep, Answered
<1>1. CASE CmdSent \/ DataSent \/ GetHABType
  BY <1>1 DEF CmdSent, DataSent, GetHABType, GoOn
<1>2. CASE ReadData /\ Len(buf') < Job.count
  BY <1>2 DEF ReadData, GoOn
<1>3. CASE GetDevAck \/ (ReadData /\ ~(Len(buf') < Job.count))
  <2>1. CallSucceeds /\ phase \in {"ack", "read"}
    BY <1>3 DEF GetDevAck, ReadData
  <2>2. stage' \in {stage, "load", Following} /\ (stage' = stage => stage \in {"load", "dcd"} \/ stage' = Following)
    BY <2>1 DEF CallSucceeds, BeginStage, More
  <2>3. /\ Following # "ecc"
        /\ Following \in CalmStages => stage \in CalmStages
    BY <1>0 DEF Following, AfterLoad, CalmStages, HostTypes, Stages, Running
  <2>4. stage' = "load" => stage \in CalmStages
    BY <2>1, <2>3 DEF CallSucceeds, BeginStage, More, CalmStages
  <2>5. QED
    BY <2>1, <2>2, <2>3, <2>4 DEF CalmStages
<1>4. CASE ReportFails \/ HABUnknown \/ AckRefused
  BY <1>4 DEF ReportFails, HABUnknown, AckRefused, Failed, CallFails, BeginStage,
              AfterFailure, CalmStages
<1>5. QED
  BY <1>1, <1>2, <1>3, <1>4 DEF JudgeStep

LEMMA FreeToCall ==
  Carried /\ Calls /\ Early /\ stage \in CalmStages /\ ~asked => H!Free /\ pc = "idle"
<1> SUFFICES ASSUME Carried, Calls, Early, stage \in CalmStages, ~asked PROVE H!Free /\ pc = "idle"
  OBVIOUS
<1>1. pc = "idle"
  BY DEF Calls
<1>2. CASE timeouts = 0
  BY <1>1, <1>2 DEF Carried, H!Exact, H!Free
<1>3. CASE timeouts # 0
  BY <1>1, <1>3, H!CalmIsFree, HidAssumptions DEF Early
<1>4. QED
  BY <1>1, <1>2, <1>3

LEMMA EarlyStep ==
  ASSUME InLen # OutLen
  PROVE  Carried /\ HostTypes /\ Where /\ WireTypes /\ Calls /\ Early /\ [Next]_vars => Early'
<1> SUFFICES ASSUME Carried, HostTypes, Where, WireTypes, Calls, Early, [Next]_vars,
                    stage' \in CalmStages
             PROVE  /\ H!Calm'
                    /\ ~asked' => timeouts' = 0 \/ ret'.op = "read" \/ ret'.status = "SUCCESS"
                    /\ stage' = "ecc" => \/ timeouts' = 0
                                         \/ /\ asked' /\ pc' = "idle" /\ ret'.op = "read"
                                            /\ ret'.status # "SUCCESS"
  BY DEF Early
<1>0. /\ H!TypeOK /\ H!Shape /\ H!Credit /\ H!Ids /\ [H!Next]_(H!vars)
  BY TransportSteps DEF Carried, H!CreditInv
<1>1. CASE Say \/ Listen
  <2>1. stage \in CalmStages /\ UNCHANGED <<stage, timeouts>> /\ asked' /\ ~asked /\ pc = "idle"
    BY <1>1, SayFrame
  <2>2. H!Free
    BY <2>1, FreeToCall
  <2>3. H!Calm'
    BY <1>0, <2>1, <2>2, H!CalmStep, HidAssumptions DEF Early
  <2>4. QED
    BY <2>1, <2>3 DEF Early
<1>2. CASE JudgeStep
  <2>1. /\ UNCHANGED <<pc, ops, writeBuf, ret, pending, apcs, delivered, timeouts>>
        /\ pc = "idle" /\ asked
    BY <1>2, JudgeSteps DEF JudgeStep, Answered, transport
  <2>2. stage \in CalmStages
    BY <1>2, Moves
  <2>3. H!Calm'
    BY <2>1, <2>2 DEF Early, H!Calm, H!Busy, H!Delivered
  <2>4. timeouts = 0 \/ ret.op = "read" \/ ret.status = "SUCCESS"
    BY <1>2, <2>1, <2>2, Moves DEF Early, Calls, Ok, CalmStages
  <2>5. stage' = "ecc" => timeouts = 0
    BY <1>2, <2>2, Moves DEF Early, Ok
  <2>6. QED
    BY <2>1, <2>3, <2>4, <2>5
<1>3. CASE Transport
  <2>1. UNCHANGED <<stage, asked>> /\ ~H!Call
    BY <1>3, TransportCalls
  <2>2. H!Calm'
    BY <1>0, <2>1, H!CalmStep, HidAssumptions DEF Early
  <2>3. pc \in {"idle", "waitWrite", "waitRead", "cancelRead"}
    BY DEF Carried, H!TypeOK
  <2>4. QED
    BY <1>3, <2>1, <2>2, <2>3, TransportCalls DEF Early, Calls
<1>4. CASE RomHandles \/ RomAnswers \/ PluginReturns \/ Finished \/ UNCHANGED vars
  <2>1. UNCHANGED <<pc, ops, writeBuf, ret, pending, apcs, delivered, timeouts, stage, asked>>
    BY <1>4, RomFrame, QuietSteps
  <2>2. QED
    BY <2>1 DEF Early, H!Calm, H!Busy, H!Delivered
<1>5. QED
  BY <1>1, <1>2, <1>3, <1>4 DEF Next, HostStep, JudgeStep

\* The write in flight, if any, is the report the host is waiting to have sent.
LEMMA InFlight ==
  ASSUME Carried, Calls, Early, stage \in CalmStages, NEW r \in pending, r.kind = "write"
  PROVE  /\ asked /\ phase \in {"cmd", "data"} /\ ~H!Delivered /\ ops > 0 /\ writeBuf = ops
         /\ said[ops] = IF phase = "cmd" THEN Job ELSE SendData
<1>1. asked
  BY FreeToCall DEF H!Free
<1>2. H!Busy /\ ~H!Delivered
  BY DEF Early, H!Calm
<1>3. phase \in {"cmd", "data"}
  BY <1>1, <1>2 DEF H!Busy, Calls
<1>4. Running
  BY DEF CalmStages, Running
<1>5. QED
  BY <1>1, <1>2, <1>3, <1>4 DEF Calls

LEMMA CallsInit == Init => Calls /\ Early
BY DEF Init, Hid!Init, Calls, Early, H!Calm

-----------------------------------------------------------------------------
(* The ROM may be behind the host: reports the device has accepted and the *)
(* ROM has not handled.  What follows is about the states the ROM will go  *)
(* through while it catches up, a chain of views of it, the last of which  *)
(* is what the host's call so far amounts to.                              *)

\* The ROM as the next reports find it, and the input reports it has produced.
View == [cur |-> rom.cur, got |-> rom.got, dcd |-> rom.dcd, skip |-> rom.skip,
         can |-> rom.canSkip, mode |-> rom.mode, mem |-> mem,
         outs |-> sent + Len(rom.answers)]

Views == [cur : Reports, got : Nat, dcd : Nat, skip : BOOLEAN, can : BOOLEAN,
          mode : {"listening", "plugin", "image"}, mem : [Addresses -> Cells], outs : Nat]

IvtCell == Rom!File(img.ivt)
PluginAt(v, a) == img.plugin > 0 /\ v.mem[a] = IvtCell
ImageAt(v, a)  == v.mem[a] = Rom!File(Rom!MainIvt) /\ ~PluginAt(v, a)

AfterData(v, r) ==
  LET dcd  == v.cur.cmd = "DCD_WRITE"
      good == dcd => \A i \in DOMAIN r.cells : r.cells[i] = Rom!Cell("dcd")
      base == v.cur.addr + v.got
      done == v.got + r.count >= v.cur.count
  IN  [v EXCEPT !.cur = IF done THEN Rom!Nothing ELSE v.cur,
                !.got = v.got + r.count,
                !.dcd = IF dcd /\ good THEN v.dcd + r.count ELSE v.dcd,
                !.mem = IF dcd THEN v.mem
                        ELSE [a \in Addresses |-> IF a - base \in 0..(r.count - 1)
                                                  THEN r.cells[a - base + 1] ELSE v.mem[a]],
                !.outs = IF done THEN v.outs + 2 ELSE v.outs]

AfterJump(v, r) ==
  IF PluginAt(v, r.addr) THEN [v EXCEPT !.mode = "plugin", !.outs = v.outs + 1]
  ELSE IF ImageAt(v, r.addr) \/ v.mem[r.addr].what = "header"
  THEN [v EXCEPT !.mode = "image", !.outs = v.outs + 1,
                 !.dcd = IF ImageAt(v, r.addr) /\ ~v.skip THEN v.dcd + img.dcd ELSE v.dcd]
  ELSE [v EXCEPT !.outs = v.outs + 2]

\* The view v once report r is handled; a ROM that does not listen handles none.
After(v, r) ==
  IF v.mode # "listening" THEN v
  ELSE CASE r.cmd \in {"WR_FILE", "DCD_WRITE"} -> [v EXCEPT !.cur = r, !.got = 0]
         [] r.cmd = "RD_MEM"   -> [v EXCEPT !.outs = v.outs + 1 + r.count]
         [] r.cmd = "SKIP_DCD" -> [v EXCEPT !.skip = v.can, !.outs = v.outs + 2]
         [] r.cmd = "DATA"     -> IF v.cur = Rom!Nothing THEN v ELSE AfterData(v, r)
         [] r.cmd = "JUMP"     -> AfterJump(v, r)
         [] OTHER              -> v

LEMMA AfterDataType ==
  ASSUME NEW v \in Views, NEW r \in Reports, r.cmd = "DATA"
  PROVE  AfterData(v, r) \in Views
<1>1. /\ r.count \in Nat /\ r.cells \in Seq(Cells) /\ Len(r.cells) = r.count
      /\ v.cur \in Reports /\ v.cur.addr \in Int /\ v.got \in Nat /\ v.dcd \in Nat
      /\ v.outs \in Nat
  BY DEF Reports, Views
<1>2. ASSUME NEW a \in Addresses, a - (v.cur.addr + v.got) \in 0..(r.count - 1)
      PROVE  r.cells[a - (v.cur.addr + v.got) + 1] \in Cells
  <2>1. Addresses \subseteq Int
    BY SizesAssumption
  <2>2. a - (v.cur.addr + v.got) + 1 \in 1..Len(r.cells)
    <3>1. a \in Int /\ v.cur.addr \in Int /\ v.got \in Nat
      BY <1>1, <2>1
    <3>2. QED
      BY <1>1, <1>2, <3>1
  <2>3. QED
    BY <1>1, <2>2
<1>3. \A a \in Addresses : v.mem[a] \in Cells
  BY DEF Views
<1>4. PICK c \in Reports, g \in Nat, d \in Nat, m \in [Addresses -> Cells], o \in Nat :
        AfterData(v, r) = [v EXCEPT !.cur = c, !.got = g, !.dcd = d, !.mem = m, !.outs = o]
  <2>1. v.mem \in [Addresses -> Cells] /\ v.got + r.count \in Nat /\ v.dcd + r.count \in Nat
        /\ v.outs + 2 \in Nat
    BY SMTT(30), <1>1 DEF Views
  <2>2. [a \in Addresses |-> IF a - (v.cur.addr + v.got) \in 0..(r.count - 1)
             THEN r.cells[a - (v.cur.addr + v.got) + 1] ELSE v.mem[a]] \in [Addresses -> Cells]
    BY <1>2, <1>3
  <2> DEFINE done == v.got + r.count >= v.cur.count
             dcd  == v.cur.cmd = "DCD_WRITE"
             good == dcd => \A i \in DOMAIN r.cells : r.cells[i] = Rom!Cell("dcd")
             c == IF done THEN Rom!Nothing ELSE v.cur
             d == IF dcd /\ good THEN v.dcd + r.count ELSE v.dcd
             m == IF dcd THEN v.mem
                  ELSE [a \in Addresses |-> IF a - (v.cur.addr + v.got) \in 0..(r.count - 1)
                           THEN r.cells[a - (v.cur.addr + v.got) + 1] ELSE v.mem[a]]
             o == IF done THEN v.outs + 2 ELSE v.outs
  <2>3. c \in Reports /\ d \in Nat /\ m \in [Addresses -> Cells] /\ o \in Nat
    BY <1>1, <2>1, <2>2, NothingType
  <2>4. AfterData(v, r) = [v EXCEPT !.cur = c, !.got = v.got + r.count, !.dcd = d, !.mem = m,
                                    !.outs = o]
    BY DEF AfterData
  <2> HIDE DEF c, d, m, o
  <2>5. QED
    BY <2>1, <2>3, <2>4
<1>5. QED
  BY <1>4 DEF Views

LEMMA AfterType ==
  ASSUME HostTypes, NEW v \in Views, NEW r \in Reports
  PROVE  After(v, r) \in Views /\ After(v, r).can = v.can
<1>1. /\ r.count \in Nat /\ v.dcd \in Nat /\ v.outs \in Nat /\ img.dcd \in Nat
      /\ v.can \in BOOLEAN
  BY ImageType DEF Reports, Views, HostTypes
<1>2. CASE r.cmd = "DATA"
  <2>1. AfterData(v, r) \in Views /\ AfterData(v, r).can = v.can
    BY ZenonT(40), <1>2, AfterDataType DEF AfterData, Views
  <2>2. QED
    BY SMTT(40), <1>2, <2>1 DEF After
<1>3. CASE r.cmd = "JUMP"
  <2>1. PICK m \in {"listening", "plugin", "image"}, d \in Nat, o \in Nat :
          AfterJump(v, r) = [v EXCEPT !.mode = m, !.dcd = d, !.outs = o]
    <3>1. v.dcd + img.dcd \in Nat /\ v.outs + 1 \in Nat /\ v.outs + 2 \in Nat
      BY <1>1
    <3>2. [v EXCEPT !.outs = v.outs + 2] =
            [v EXCEPT !.mode = v.mode, !.dcd = v.dcd, !.outs = v.outs + 2]
          /\ [v EXCEPT !.mode = "plugin", !.outs = v.outs + 1] =
            [v EXCEPT !.mode = "plugin", !.dcd = v.dcd, !.outs = v.outs + 1]
      BY DEF Views
    <3>3. v.mode \in {"listening", "plugin", "image"}
      BY DEF Views
    <3>4. CASE PluginAt(v, r.addr)
      BY <1>1, <3>1, <3>2, <3>4 DEF AfterJump
    <3>5. CASE ~PluginAt(v, r.addr) /\ (ImageAt(v, r.addr) \/ v.mem[r.addr].what = "header")
      <4>1. (IF ImageAt(v, r.addr) /\ ~v.skip THEN v.dcd + img.dcd ELSE v.dcd) \in Nat
        BY <1>1, <3>1
      <4>2. AfterJump(v, r) = [v EXCEPT !.mode = "image", !.outs = v.outs + 1,
              !.dcd = IF ImageAt(v, r.addr) /\ ~v.skip THEN v.dcd + img.dcd ELSE v.dcd]
        BY <3>5 DEF AfterJump
      <4>3. AfterJump(v, r) = [v EXCEPT !.mode = "image",
              !.dcd = IF ImageAt(v, r.addr) /\ ~v.skip THEN v.dcd + img.dcd ELSE v.dcd,
              !.outs = v.outs + 1]
        BY <4>2 DEF Views
      <4>4. QED
        BY <3>1, <4>1, <4>3
    <3>6. CASE ~PluginAt(v, r.addr) /\ ~(ImageAt(v, r.addr) \/ v.mem[r.addr].what = "header")
      BY <1>1, <3>1, <3>2, <3>3, <3>6 DEF AfterJump
    <3>7. QED
      BY <3>4, <3>5, <3>6
  <2>2. QED
    BY <1>3, <2>1 DEF After, Views
<1>4. CASE r.cmd \in {"WR_FILE", "DCD_WRITE"}
  BY <1>1, <1>4 DEF After, Views
<1>5. CASE r.cmd = "RD_MEM"
  BY <1>1, <1>5 DEF After, Views
<1>6. CASE r.cmd = "SKIP_DCD"
  <2>1. PICK b \in BOOLEAN, o \in Nat : b = v.can /\ o = v.outs + 2
    BY <1>1
  <2>2. [v EXCEPT !.skip = b, !.outs = o] \in Views /\ [v EXCEPT !.skip = b, !.outs = o].can = v.can
    BY DEF Views
  <2>3. After(v, r) = v \/ After(v, r) = [v EXCEPT !.skip = b, !.outs = o]
    BY <1>6, <2>1 DEF After
  <2>4. QED
    BY <2>2, <2>3
<1>7. CASE r.cmd = "NONE"
  BY <1>7 DEF After
<1>8. QED
  BY <1>2, <1>3, <1>4, <1>5, <1>6, <1>7 DEF Reports, Cmds

LEMMA AfterSame ==
  ASSUME img' = img
  PROVE  \A v, r : After(v, r)' = After(v, r)
BY DEF After, AfterData, AfterJump, PluginAt, ImageAt, IvtCell, Rom!File, Rom!MainIvt,
       Rom!Cell, Rom!Nothing, Rom!Command

LEMMA ViewType == WireTypes /\ Carried => View \in Views
<1> SUFFICES ASSUME WireTypes, Carried PROVE View \in Views
  OBVIOUS
<1>1. rom \in RomTypes /\ mem \in [Addresses -> Cells] /\ rom.answers \in Seq(Cells) /\ sent \in Nat
  BY DEF WireTypes, RomTypes, Carried, H!TypeOK
<1>2. sent + Len(rom.answers) \in Nat
  BY <1>1
<1>3. QED
  BY <1>1, <1>2 DEF View, Views, RomTypes

\* The ROM handles a report the way After says.
LEMMA HandleIsAfter ==
  ASSUME Typed, NEW r \in Reports, Rom!Handle(r), sent' = sent
  PROVE  View' = After(View, r) /\ rom.mode = "listening" /\ rom'.plugged = rom.plugged
<1>1. rom \in RomTypes /\ mem \in [Addresses -> Cells] /\ rom.answers \in Seq(Cells) /\ sent \in Nat
      /\ rom.mode = "listening" /\ img' = img /\ Len(rom.answers) \in Nat
  BY DEF Typed, WireTypes, RomTypes, Carried, H!TypeOK, Rom!Handle
<1>2. \A s : rom' = [rom EXCEPT !.answers = rom.answers \o s] => rom'.answers = rom.answers \o s
  BY <1>1 DEF RomTypes
<1>3. /\ Rom!HAB \in Cells /\ Rom!ErrorAck \in Cells /\ Rom!Cell("ROM_OK_ACK") \in Cells
      /\ Rom!Cell("ROM_WRITE_ACK") \in Cells /\ Rom!Cell("ROM_STATUS_ACK") \in Cells
  BY CellType DEF Rom!HAB, Rom!ErrorAck, Whats
<1>4. \A c \in Cells : /\ Len(rom.answers \o <<Rom!HAB, c>>) = Len(rom.answers) + 2
                       /\ Len(rom.answers \o <<c>>) = Len(rom.answers) + 1
  BY <1>1, <1>3
<1>5. CASE Rom!Transfer(r)
  BY <1>1, <1>5 DEF Rom!Transfer, After, View, RomTypes
<1>6. CASE Rom!ReadMemory(r)
  <2> DEFINE cells == [i \in 1..r.count |-> mem[r.addr + i - 1]]
  <2>1. r.count \in Nat /\ r.cmd = "RD_MEM"
    BY <1>6 DEF Reports, Rom!ReadMemory
  <2>2. Len(<<Rom!HAB>> \o cells) = 1 + r.count /\ <<Rom!HAB>> \o cells \in Seq({Rom!HAB} \cup {cells[i] : i \in 1..r.count})
    BY <2>1
  <2>3. Len(rom.answers \o (<<Rom!HAB>> \o cells)) = Len(rom.answers) + 1 + r.count
    BY <1>1, <2>1, <2>2
  <2>4. rom' = [rom EXCEPT !.answers = rom.answers \o (<<Rom!HAB>> \o cells)] /\ mem' = mem
    BY <1>6 DEF Rom!ReadMemory, Rom!Answer
  <2>5. sent + Len(rom'.answers) = sent + Len(rom.answers) + 1 + r.count
    BY <1>1, <2>1, <2>3, <2>4 DEF RomTypes
  <2>6. QED
    BY <1>1, <2>1, <2>4, <2>5 DEF After, View, RomTypes
<1>7. CASE Rom!SkipDcd(r)
  <2>1. PICK c \in Cells : rom' = [rom EXCEPT !.skip = rom.canSkip, !.answers = rom.answers \o <<Rom!HAB, c>>]
    BY <1>3, <1>7 DEF Rom!SkipDcd, Rom!Answer
  <2>2. sent + Len(rom'.answers) = sent + Len(rom.answers) + 2 /\ mem' = mem /\ r.cmd = "SKIP_DCD"
    <3>1. rom'.answers = rom.answers \o <<Rom!HAB, c>>
      BY <1>1, <2>1 DEF RomTypes
    <3>2. Len(rom'.answers) = Len(rom.answers) + 2
      BY <1>4, <3>1
    <3>3. mem' = mem /\ r.cmd = "SKIP_DCD"
      BY <1>7 DEF Rom!SkipDcd
    <3>4. QED
      BY <1>1, <3>2, <3>3
  <2>3. QED
    BY <1>1, <2>1, <2>2 DEF After, View, RomTypes
<1>8. CASE Rom!Receive(r)
  <2>1. r.cmd = "DATA" /\ rom.cur # Rom!Nothing
    BY SMTT(40), <1>8 DEF Rom!Receive
  <2> DEFINE done == rom.got + r.count >= rom.cur.count
             dcd  == rom.cur.cmd = "DCD_WRITE"
             good == dcd => \A i \in DOMAIN r.cells : r.cells[i] = Rom!Cell("dcd")
             base == rom.cur.addr + rom.got
  <2>2. PICK s \in Seq(Cells) :
          /\ Len(s) = IF done THEN Len(rom.answers) + 2 ELSE Len(rom.answers)
          /\ rom' = [rom EXCEPT !.cur = IF done THEN Rom!Nothing ELSE rom.cur,
                                !.got = rom.got + r.count,
                                !.dcd = IF dcd /\ good THEN rom.dcd + r.count ELSE rom.dcd,
                                !.answers = s]
    <3>1. \A c \in Cells : rom.answers \o <<Rom!HAB, c>> \in Seq(Cells)
      BY <1>1, <1>3
    <3>2. QED
      BY <1>1, <1>3, <1>4, <1>8, <3>1 DEF Rom!Receive, Rom!Answer
  <2>3. mem' = IF dcd THEN mem ELSE [a \in Addresses |-> IF a - base \in 0..(r.count - 1)
                                             THEN r.cells[a - base + 1] ELSE mem[a]]
    BY <1>8 DEF Rom!Receive
  <2>4. sent + Len(rom'.answers) = IF done THEN sent + Len(rom.answers) + 2 ELSE sent + Len(rom.answers)
    BY <1>1, <2>2 DEF RomTypes
  <2>5. View' = AfterData(View, r)
    <3>1. /\ View.cur = rom.cur /\ View.got = rom.got /\ View.dcd = rom.dcd /\ View.mem = mem
          /\ View.outs = sent + Len(rom.answers)
      BY DEF View
    <3>2. AfterData(View, r) =
            [View EXCEPT !.cur = IF done THEN Rom!Nothing ELSE rom.cur,
                         !.got = rom.got + r.count,
                         !.dcd = IF dcd /\ good THEN rom.dcd + r.count ELSE rom.dcd,
                         !.mem = mem',
                         !.outs = sent + Len(rom'.answers)]
      BY <2>3, <2>4, <3>1 DEF AfterData
    <3>3. /\ rom'.cur = (IF done THEN Rom!Nothing ELSE rom.cur) /\ rom'.got = rom.got + r.count
          /\ rom'.dcd = (IF dcd /\ good THEN rom.dcd + r.count ELSE rom.dcd)
          /\ rom'.skip = rom.skip /\ rom'.canSkip = rom.canSkip /\ rom'.mode = rom.mode
      BY <1>1, <2>2 DEF RomTypes
    <3>4. QED
      BY ZenonT(40), <1>1, <3>2, <3>3 DEF View
  <2>6. QED
    BY <1>1, <2>1, <2>2, <2>5 DEF After, View, RomTypes
<1>9. CASE Rom!JumpToPlugin(r) \/ Rom!JumpToImage(r) \/ Rom!JumpRefused(r)
  <2>1. /\ Rom!PluginAt(r.addr) <=> PluginAt(View, r.addr)
        /\ Rom!ImageAt(r.addr) <=> ImageAt(View, r.addr)
        /\ View.mem = mem
    BY DEF Rom!PluginAt, PluginAt, Rom!ImageAt, ImageAt, View, IvtCell
  <2>2. r.cmd = "JUMP" /\ mem' = mem
    BY <1>9 DEF Rom!JumpToPlugin, Rom!JumpToImage, Rom!JumpRefused
  <2>3. CASE Rom!JumpToPlugin(r)
    <3>1. rom' = [rom EXCEPT !.mode = "plugin", !.answers = rom.answers \o <<Rom!HAB>>]
      BY <2>3 DEF Rom!JumpToPlugin, Rom!Answer
    <3>2. sent + Len(rom'.answers) = sent + Len(rom.answers) + 1
      BY <1>1, <1>3, <1>4, <3>1 DEF RomTypes
    <3>3. PluginAt(View, r.addr)
      BY <2>1, <2>3 DEF Rom!JumpToPlugin
    <3>4. View' = AfterJump(View, r)
      BY <1>1, <2>2, <3>1, <3>2, <3>3 DEF AfterJump, View, RomTypes
    <3>5. QED
      BY <1>1, <2>2, <3>1, <3>4 DEF After, View, RomTypes
  <2>4. CASE Rom!JumpToImage(r)
    <3>1. rom' = [rom EXCEPT !.mode = "image", !.entry = Rom!EntryOf(r.addr),
                   !.dcd = IF Rom!ImageAt(r.addr) /\ ~rom.skip THEN rom.dcd + img.dcd ELSE rom.dcd,
                   !.answers = rom.answers \o <<Rom!HAB>>]
      BY <2>4 DEF Rom!JumpToImage, Rom!Answer
    <3>2. sent + Len(rom'.answers) = sent + Len(rom.answers) + 1
      BY <1>1, <1>3, <1>4, <3>1 DEF RomTypes
    <3>3. ~PluginAt(View, r.addr) /\ (ImageAt(View, r.addr) \/ mem[r.addr].what = "header")
      <4>1. mem[r.addr].what = "header" => mem[r.addr] # IvtCell
        BY DEF IvtCell, Rom!File
      <4>2. QED
        BY <2>1, <2>4, <4>1 DEF Rom!JumpToImage, ImageAt, PluginAt, View
    <3>4. View' = AfterJump(View, r)
      BY <1>1, <2>1, <2>2, <3>1, <3>2, <3>3 DEF AfterJump, View, RomTypes
    <3>5. QED
      BY <1>1, <2>2, <3>1, <3>4 DEF After, View, RomTypes
  <2>5. CASE Rom!JumpRefused(r)
    <3>1. rom' = [rom EXCEPT !.answers = rom.answers \o <<Rom!HAB, Rom!ErrorAck>>]
      BY <2>5 DEF Rom!JumpRefused, Rom!Answer
    <3>2. sent + Len(rom'.answers) = sent + Len(rom.answers) + 2
      BY <1>1, <1>3, <1>4, <3>1 DEF RomTypes
    <3>3. ~PluginAt(View, r.addr) /\ ~ImageAt(View, r.addr) /\ mem[r.addr].what # "header"
      BY <2>1, <2>5 DEF Rom!JumpRefused
    <3>4. View' = AfterJump(View, r)
      BY <1>1, <2>1, <2>2, <3>1, <3>2, <3>3 DEF AfterJump, View, RomTypes
    <3>5. QED
      BY <1>1, <2>2, <3>1, <3>4 DEF After, View, RomTypes
  <2>6. QED
    BY <1>9, <2>3, <2>4, <2>5
<1>10. CASE r.cmd = "DATA" /\ rom.cur = Rom!Nothing /\ UNCHANGED <<rom, mem>>
  BY <1>1, <1>10 DEF After, View
<1>11. QED
  BY <1>5, <1>6, <1>7, <1>8, <1>9, <1>10 DEF Rom!Handle

-----------------------------------------------------------------------------
(* The views the ROM goes through until it has caught up with the device.  *)

Chain(R) ==
  /\ R[handled] = View
  /\ \A k \in handled..Len(delivered) : R[k] \in Views
  /\ \A k \in handled..(Len(delivered) - 1) : R[k + 1] = After(R[k], said[delivered[k + 1]])

Last(R) == R[Len(delivered)]

\* The report of the command or data in progress has reached the device.
Sent == asked /\ phase \in {"cmd", "data"} /\ H!Delivered

\* The cells of the call the device has, the command having started it.
Got == CASE phase = "cmd"  -> 0
         [] phase = "data" -> at + (IF Sent THEN DataCells ELSE 0)
         [] OTHER          -> Job.count
Started == Sent \/ phase # "cmd"

\* The ROM will be as far in the transfer as the host.
Sync(v) == Started => v.got = Got /\ v.cur = IF Got < Job.count THEN Job ELSE Rom!Nothing

Pending == \E r \in pending : r.kind = "write"

LEMMA LastType == \A R : Typed /\ Chain(R) => Last(R) \in Views /\ R[handled] = View
                     /\ handled \in Nat /\ handled <= Len(delivered) /\ Len(delivered) \in Nat
<1> SUFFICES ASSUME NEW R, Typed, Chain(R)
             PROVE  Last(R) \in Views /\ R[handled] = View
                    /\ handled \in Nat /\ handled <= Len(delivered) /\ Len(delivered) \in Nat
  OBVIOUS
<1>1. handled \in Nat /\ handled <= Len(delivered) /\ delivered \in Seq(Nat)
  BY DEF Typed, WireTypes, Carried, H!TypeOK
<1>2. QED
  BY <1>1 DEF Chain, Last

LEMMA ChainQuiet ==
  ASSUME Typed, NEW R, Chain(R), UNCHANGED <<img, delivered, handled>>, View' = View,
         \A k \in 1..ops : said'[k] = said[k]
  PROVE  Chain(R)' /\ Last(R)' = Last(R)
<1>1. \A k \in 1..Len(delivered) : delivered[k] \in 1..ops
  BY DEF Typed, Carried, H!Ids
<1>2. handled \in Nat /\ Len(delivered) \in Nat
  BY LastType
<1>3. ASSUME NEW k \in handled..(Len(delivered) - 1)
      PROVE  R[k + 1] = After(R[k], said[delivered[k + 1]])'
  <2>1. said'[delivered[k + 1]] = said[delivered[k + 1]]
    BY <1>1, <1>2
  <2>2. R[k + 1] = After(R[k], said[delivered[k + 1]])
    BY DEF Chain
  <2>3. QED
    BY <2>1, <2>2, AfterSame
<1>4. QED
  BY <1>3 DEF Chain, Last

LEMMA ChainHandle ==
  ASSUME Typed, NEW R, Chain(R), RomHandles
  PROVE  /\ Chain(R)' /\ View' = R[handled + 1] /\ handled' = handled + 1
         /\ handled < Len(delivered) /\ Last(R)' = Last(R) /\ rom.mode = "listening"
         /\ rom'.plugged = rom.plugged /\ rom'.canSkip = rom.canSkip
         /\ said[delivered[handled + 1]] \in Reports
         /\ Rom!Handle(said[delivered[handled + 1]])
<1> DEFINE r == said[delivered[handled + 1]]
<1>1. /\ handled < Len(delivered) /\ handled' = handled + 1 /\ Rom!Handle(r)
      /\ UNCHANGED <<transport, said>> /\ UNCHANGED <<delivered, sent>>
  BY DEF RomHandles, transport
<1>2. handled \in Nat /\ Len(delivered) \in Nat
  BY LastType
<1>3. r \in Reports
  <2>1. delivered[handled + 1] \in 1..ops
    BY <1>1, <1>2 DEF Typed, Carried, H!Ids
  <2>2. QED
    BY <2>1 DEF Typed, WireTypes
<1>4. View' = After(View, r) /\ rom.mode = "listening" /\ rom'.plugged = rom.plugged
  BY <1>1, <1>3, HandleIsAfter
<1>5. R[handled] = View /\ R[handled + 1] = After(View, r)
  BY <1>1, <1>2 DEF Chain
<1>6. img' = img
  BY <1>1 DEF Rom!Handle
<1>7. rom'.canSkip = rom.canSkip
  <2>1. After(View, r).can = View.can
    BY <1>3, AfterType, ViewType DEF Typed
  <2>2. View'.can = View.can
    BY <1>4, <2>1
  <2>3. QED
    BY <2>2 DEF View
<1>8. Chain(R)'
  <2>1. ASSUME NEW k \in (handled + 1)..(Len(delivered) - 1)
        PROVE  R[k + 1] = After(R[k], said[delivered[k + 1]])'
    <3>1. R[k + 1] = After(R[k], said[delivered[k + 1]])
      BY <1>2 DEF Chain
    <3>2. QED
      BY <1>1, <1>6, <3>1, AfterSame
  <2>2. \A k \in (handled + 1)..Len(delivered) : R[k] \in Views
    BY <1>2 DEF Chain
  <2>3. QED
    BY <1>1, <1>4, <1>5, <2>1, <2>2 DEF Chain
<1>9. QED
  BY <1>1, <1>3, <1>4, <1>5, <1>7, <1>8 DEF Last

\* The device accepts what the buffer holds: the chain is longer by one view.
LEMMA ChainAccept ==
  ASSUME Typed, NEW R, Chain(R), Transport, H!DeviceAccepts
  PROVE  \E S : /\ Chain(S)' /\ Len(delivered') = Len(delivered) + 1
                /\ \A k \in handled..Len(delivered) : S[k] = R[k]
                /\ Last(S)' = S[Len(delivered) + 1]
                /\ S[Len(delivered) + 1] = After(Last(R), said[writeBuf])
                /\ writeBuf \in 1..ops /\ said[writeBuf] \in Reports /\ Pending
<1> DEFINE n == Len(delivered)
<1>1. /\ UNCHANGED <<sent, img, rom, mem, handled, said>>
  BY TransportFrame
<1>2. delivered' = Append(delivered, writeBuf) /\ \E r \in pending : r.kind = "write"
  BY DEF H!DeviceAccepts, H!OldestOf
<1>3. handled \in Nat /\ n \in Nat /\ handled <= n /\ delivered \in Seq(Nat)
  BY LastType DEF Typed, Carried, H!TypeOK
<1>4. writeBuf \in 1..ops /\ said[writeBuf] \in Reports
  <2>1. writeBuf \in 0..ops /\ writeBuf > 0 /\ ops \in Nat
    BY <1>2 DEF Typed, Carried, H!Ids, H!TypeOK
  <2>2. QED
    BY <2>1 DEF Typed, WireTypes
<1>5. /\ Len(delivered') = n + 1 /\ delivered'[n + 1] = writeBuf
      /\ \A k \in 1..n : delivered'[k] = delivered[k]
  BY <1>2, <1>3, <1>4
<1>6. PICK S : S = [k \in Nat |-> IF k = n + 1 THEN After(R[n], said[writeBuf]) ELSE R[k]]
  OBVIOUS
<1>7. (\A k \in handled..n : S[k] = R[k]) /\ S[n + 1] = After(R[n], said[writeBuf])
  BY <1>3, <1>6
<1>8. S[n + 1] \in Views
  BY <1>4, <1>7, LastType, AfterType DEF Last, Typed
<1>9. Chain(S)'
  <2>1. S[handled] = View'
    BY <1>1, <1>3, <1>7 DEF Chain, View
  <2>2. \A k \in handled..(n + 1) : S[k] \in Views
    BY <1>3, <1>7, <1>8 DEF Chain
  <2>3. ASSUME NEW k \in handled..n PROVE S[k + 1] = After(S[k], said[delivered'[k + 1]])
    <3>1. CASE k = n
      BY <1>3, <1>5, <1>7, <3>1
    <3>2. CASE k # n
      <4>1. k \in handled..(n - 1) /\ k + 1 \in handled..n /\ k + 1 \in 1..n
        BY <1>3, <3>2
      <4>2. R[k + 1] = After(R[k], said[delivered[k + 1]])
        BY <4>1 DEF Chain
      <4>3. QED
        BY <1>5, <1>7, <4>1, <4>2
    <3>3. QED
      BY <3>1, <3>2
  <2>4. \A k \in handled..n : S[k + 1] = After(S[k], said[delivered[k + 1]])'
    BY <1>1, <2>3, AfterSame
  <2>5. Len(delivered') - 1 = n
    BY <1>3, <1>5
  <2>6. QED
    BY <1>1, <1>5, <2>1, <2>2, <2>4, <2>5 DEF Chain
<1>10. QED
  BY <1>2, <1>4, <1>5, <1>7, <1>9 DEF Last, Pending

-----------------------------------------------------------------------------
(* What one report changes.                                                *)

LEMMA AfterCommand ==
  ASSUME NEW v \in Views, NEW r \in Reports, v.mode = "listening"
  PROVE  /\ r.cmd \in {"WR_FILE", "DCD_WRITE"} =>
              /\ After(v, r).cur = r /\ After(v, r).got = 0
              /\ After(v, r).dcd = v.dcd /\ After(v, r).skip = v.skip
              /\ After(v, r).mode = v.mode /\ After(v, r).mem = v.mem
              /\ After(v, r).outs = v.outs
         /\ r.cmd = "RD_MEM" =>
              /\ After(v, r).cur = v.cur /\ After(v, r).dcd = v.dcd /\ After(v, r).skip = v.skip
              /\ After(v, r).mode = v.mode /\ After(v, r).mem = v.mem
         /\ r.cmd = "SKIP_DCD" =>
              /\ After(v, r).cur = v.cur /\ After(v, r).dcd = v.dcd /\ After(v, r).skip = v.can
              /\ After(v, r).mode = v.mode /\ After(v, r).mem = v.mem
         /\ r.cmd = "NONE" => After(v, r) = v
         /\ r.cmd = "DATA" /\ v.cur = Rom!Nothing => After(v, r) = v
<1>1. CASE r.cmd \in {"WR_FILE", "DCD_WRITE"}
  <2>1. After(v, r) = [v EXCEPT !.cur = r, !.got = 0]
    BY <1>1 DEF After
  <2>2. QED
    BY <1>1, <2>1 DEF Views
<1>2. CASE r.cmd = "RD_MEM"
  <2>1. After(v, r) = [v EXCEPT !.outs = v.outs + 1 + r.count]
    BY <1>2 DEF After
  <2>2. QED
    BY <1>2, <2>1 DEF Views
<1>3. CASE r.cmd = "SKIP_DCD"
  <2>1. After(v, r) = [v EXCEPT !.skip = v.can, !.outs = v.outs + 2]
    BY <1>3 DEF After
  <2>2. QED
    BY <1>3, <2>1 DEF Views
<1>4. CASE r.cmd \in {"NONE", "DATA", "JUMP"}
  BY <1>4 DEF After
<1>5. QED
  BY <1>1, <1>2, <1>3, <1>4 DEF Reports, Cmds

LEMMA AfterReceive ==
  ASSUME NEW v \in Views, NEW r \in Reports, v.mode = "listening", r.cmd = "DATA",
         v.cur # Rom!Nothing
  PROVE  /\ After(v, r).got = v.got + r.count
         /\ After(v, r).cur = IF v.got + r.count >= v.cur.count THEN Rom!Nothing ELSE v.cur
         /\ After(v, r).outs = IF v.got + r.count >= v.cur.count THEN v.outs + 2 ELSE v.outs
         /\ After(v, r).skip = v.skip /\ After(v, r).mode = v.mode
         /\ v.cur.cmd = "DCD_WRITE" =>
              /\ After(v, r).mem = v.mem
              /\ (\A i \in 1..Len(r.cells) : r.cells[i] = Rom!Cell("dcd")) =>
                    After(v, r).dcd = v.dcd + r.count
         /\ v.cur.cmd # "DCD_WRITE" =>
              /\ After(v, r).dcd = v.dcd
              /\ \A a \in Addresses : After(v, r).mem[a] =
                   IF a - (v.cur.addr + v.got) \in 0..(r.count - 1)
                   THEN r.cells[a - (v.cur.addr + v.got) + 1] ELSE v.mem[a]
<1> DEFINE done == v.got + r.count >= v.cur.count
           dcd  == v.cur.cmd = "DCD_WRITE"
           good == dcd => \A i \in DOMAIN r.cells : r.cells[i] = Rom!Cell("dcd")
<1>1. After(v, r) = AfterData(v, r)
  BY SMTT(40) DEF After
<1>2. PICK c, g, d, m, o :
        /\ AfterData(v, r) = [v EXCEPT !.cur = c, !.got = g, !.dcd = d, !.mem = m, !.outs = o]
        /\ c = (IF done THEN Rom!Nothing ELSE v.cur) /\ g = v.got + r.count
        /\ d = (IF dcd /\ good THEN v.dcd + r.count ELSE v.dcd)
        /\ m = (IF dcd THEN v.mem ELSE [a \in Addresses |-> IF a - (v.cur.addr + v.got) \in 0..(r.count - 1)
                  THEN r.cells[a - (v.cur.addr + v.got) + 1] ELSE v.mem[a]])
        /\ o = (IF done THEN v.outs + 2 ELSE v.outs)
  BY ZenonT(40) DEF AfterData
<1>3. /\ After(v, r).cur = c /\ After(v, r).got = g /\ After(v, r).dcd = d
      /\ After(v, r).mem = m /\ After(v, r).outs = o
      /\ After(v, r).skip = v.skip /\ After(v, r).mode = v.mode
  BY <1>1, <1>2 DEF Views
<1>4. DOMAIN r.cells = 1..Len(r.cells)
  BY DEF Reports
<1>5. CASE dcd
  BY <1>2, <1>3, <1>4, <1>5
<1>6. CASE ~dcd
  BY <1>2, <1>3, <1>6
<1>7. QED
  BY <1>5, <1>6

LEMMA AfterJumps ==
  ASSUME NEW v \in Views, NEW r \in Reports, v.mode = "listening", r.cmd = "JUMP"
  PROVE  /\ After(v, r).cur = v.cur /\ After(v, r).skip = v.skip /\ After(v, r).mem = v.mem
         /\ PluginAt(v, r.addr) => After(v, r).mode = "plugin" /\ After(v, r).dcd = v.dcd
         /\ ~PluginAt(v, r.addr) => After(v, r).mode # "plugin"
         /\ v.skip \/ ~ImageAt(v, r.addr) => After(v, r).dcd = v.dcd
<1>1. After(v, r) = AfterJump(v, r)
  BY DEF After
<1>2. CASE PluginAt(v, r.addr)
  BY <1>1, <1>2 DEF AfterJump, Views
<1>3. CASE ~PluginAt(v, r.addr) /\ (ImageAt(v, r.addr) \/ v.mem[r.addr].what = "header")
  <2>1. PICK d : /\ d = (IF ImageAt(v, r.addr) /\ ~v.skip THEN v.dcd + img.dcd ELSE v.dcd)
                 /\ After(v, r) = [v EXCEPT !.mode = "image", !.outs = v.outs + 1, !.dcd = d]
    BY <1>1, <1>3 DEF AfterJump
  <2>2. QED
    BY <1>3, <2>1 DEF Views
<1>4. CASE ~PluginAt(v, r.addr) /\ ~(ImageAt(v, r.addr) \/ v.mem[r.addr].what = "header")
  BY <1>1, <1>4 DEF AfterJump, Views
<1>5. QED
  BY <1>2, <1>3, <1>4

LEMMA AfterDeaf == ASSUME NEW v, NEW r, v.mode # "listening" PROVE After(v, r) = v
BY DEF After

-----------------------------------------------------------------------------
(* The transfer, step by step.                                             *)

LEMMA SentSame ==
  ASSUME UNCHANGED <<img, stage, phase, seg, pos, at, FlashHdr>>, Sent' = Sent
  PROVE  UNCHANGED <<Got, Started>> /\ \A v : Sync(v)' = Sync(v)
<1>1. UNCHANGED <<Job, DataCells>>
  BY JobSame DEF DataCells
<1>2. UNCHANGED Got
  BY <1>1 DEF Got
<1>3. UNCHANGED Started
  BY DEF Started
<1>4. QED
  BY <1>1, <1>2, <1>3 DEF Sync, Rom!Nothing, Rom!Command

\* Steps after which the device has no more reports than before, and the host is where
\* it was.
LEMMA QuietCall ==
  ASSUME Typed,
         Say \/ Listen \/ (Transport /\ ~H!DeviceAccepts) \/ RomHandles \/ RomAnswers
         \/ PluginReturns \/ Finished \/ UNCHANGED vars
  PROVE  /\ UNCHANGED <<img, stage, phase, seg, pos, at, buf, FlashHdr, delivered>>
         /\ UNCHANGED <<Job, Got, Started, Running>> /\ \A v : Sync(v)' = Sync(v)
         /\ \A k \in 1..ops : said'[k] = said[k]
         /\ ~(Say \/ Listen) => (Pending' => Pending) /\ UNCHANGED <<writeBuf, said, ops, asked>>
         /\ Say \/ Listen => Running
<1>0. delivered \in Seq(Nat) /\ ops \in Nat
  BY DEF Typed, Carried, H!TypeOK
<1>1. CASE Say \/ Listen
  <2>1. UNCHANGED <<img, stage, phase, seg, pos, at, buf, FlashHdr, delivered>>
        /\ ops' = ops + 1 /\ ~asked /\ Running /\ \A k \in 1..ops : said'[k] = said[k]
    BY <1>1, SayFrame DEF Typed
  <2>2. ~H!Delivered'
    <3>1. \A k \in 1..Len(delivered) : delivered[k] \in 1..ops
      BY DEF Typed, Carried, H!Ids
    <3>2. QED
      BY <1>0, <2>1, <3>1 DEF H!Delivered
  <2>3. ~Sent /\ ~Sent'
    BY <2>1, <2>2 DEF Sent
  <2>4. Sent' = Sent
    BY <2>3 DEF Sent
  <2>5. UNCHANGED <<Got, Started>> /\ \A v : Sync(v)' = Sync(v)
    BY <2>1, <2>4, SentSame
  <2>6. UNCHANGED <<Job, Running>>
    BY <2>1, JobSame
  <2>7. QED
    BY <1>1, <2>1, <2>5, <2>6
<1>2. CASE ~(Say \/ Listen)
  <2>1. UNCHANGED <<img, stage, phase, asked, seg, pos, at, buf, FlashHdr, said>>
    BY <1>2, QuietSteps
  <2>2. UNCHANGED <<delivered, writeBuf, ops>> /\ pending' \subseteq pending
    <3>1. CASE Transport /\ ~H!DeviceAccepts
      <4>1. H!HostStep \/ H!ReportArrives \/ H!RequestFails
        BY <1>2, <3>1, HostIsHost, DriverIsDriver DEF Transport
      <4>2. QED
        BY <4>1 DEF H!HostStep, H!WriteReturns, H!ReadReturns, H!ReadTimesOut,
           H!CancelRead, H!ReportArrives, H!RequestFails, H!Complete, H!host, H!kernel,
           H!device
    <3>2. CASE ~(Transport /\ ~H!DeviceAccepts)
      BY <1>2, <3>2, RomFrame
    <3>3. QED
      BY <3>1, <3>2
  <2>3. Sent' = Sent
    BY <2>1, <2>2 DEF Sent, H!Delivered
  <2>4. Pending' => Pending
    BY <2>2 DEF Pending
  <2>5. QED
    BY <1>2, <2>1, <2>2, <2>3, <2>4, SentSame, JobSame
<1>3. QED
  BY <1>1, <1>2

\* The device accepts the report of the call in progress.
LEMMA CalmAccept ==
  ASSUME Typed, Calls, Early, InLen # OutLen, stage \in CalmStages, Transport, H!DeviceAccepts
  PROVE  /\ phase \in {"cmd", "data"} /\ Started' /\ Sent' /\ ~Sent /\ writeBuf = ops
         /\ said[writeBuf] = IF phase = "cmd" THEN Job ELSE SendData
         /\ Got = IF phase = "cmd" THEN 0 ELSE at
         /\ Got' = IF phase = "cmd" THEN 0 ELSE at + DataCells
         /\ UNCHANGED <<img, stage, phase, asked, seg, pos, at, buf, FlashHdr, said, writeBuf, rom, mem,
                        heard, handled, sent, okReads, pc, ret, ops>>
         /\ UNCHANGED <<Job, Running>> /\ Running /\ ~Pending'
<1>1. PICK r \in pending : r.kind = "write"
  BY DEF H!DeviceAccepts, H!OldestOf
<1>2. /\ asked /\ phase \in {"cmd", "data"} /\ ~H!Delivered /\ ops > 0 /\ writeBuf = ops
      /\ said[ops] = IF phase = "cmd" THEN Job ELSE SendData
  BY <1>1, InFlight DEF Typed
<1>3. /\ UNCHANGED <<img, stage, phase, asked, seg, pos, at, buf, FlashHdr, said, writeBuf, rom, mem,
                     heard, handled, sent, okReads, pc, ret, ops>>
      /\ delivered' = Append(delivered, writeBuf)
  BY QuietSteps, TransportFrame DEF H!DeviceAccepts, H!host, H!ghost
<1>4. H!Delivered'
  <2>1. delivered \in Seq(Nat) /\ writeBuf \in Nat
    BY DEF Typed, Carried, H!TypeOK
  <2>2. QED
    BY <1>2, <1>3, <2>1 DEF H!Delivered
<1>5. Sent' /\ ~Sent
  BY <1>2, <1>3, <1>4 DEF Sent
<1>6. UNCHANGED <<Job, DataCells, Running>> /\ Running
  BY <1>3, JobSame DEF DataCells, CalmStages, Running
<1>7. at \in Nat
  BY DEF Typed, HostTypes
<1>8. Early'
  <2>1. [Next]_vars
    BY DEF Next
  <2>2. QED
    BY <2>1, EarlyStep DEF Typed
<1>9. ~Pending'
  BY <1>3, <1>4, <1>8 DEF Early, H!Calm, Pending
<1>10. QED
  BY <1>2, <1>3, <1>5, <1>6, <1>7, <1>9 DEF Started, Got

LEMMA SyncAccept ==
  ASSUME Typed, Calls, Early, InLen # OutLen, stage \in CalmStages, Transport, H!DeviceAccepts,
         HasData, NEW v \in Views, v.mode = "listening", Sync(v),
         NEW w, w = After(v, said[writeBuf])
  PROVE  /\ Sync(w)'
         /\ phase = "cmd" => said[writeBuf] = Job
         /\ phase = "data" => /\ said[writeBuf] = SendData /\ v.cur = Job /\ v.got = at
                              /\ v.cur # Rom!Nothing
<1> DEFINE r == said[writeBuf]
<1>1. /\ phase \in {"cmd", "data"} /\ Started' /\ ~Sent
      /\ r = IF phase = "cmd" THEN Job ELSE SendData
      /\ Got = IF phase = "cmd" THEN 0 ELSE at
      /\ Got' = IF phase = "cmd" THEN 0 ELSE at + DataCells
      /\ UNCHANGED <<img, Job, said, writeBuf>> /\ Running
  BY CalmAccept
<1>2. Job \in Reports /\ Job.count \in Nat /\ Job.count > 0 /\ Job.cmd \in {"WR_FILE", "DCD_WRITE"}
  BY <1>1, JobType DEF Typed, HasData, Reports
<1>3. UNCHANGED Rom!Nothing
  BY DEF Rom!Nothing, Rom!Command
<1>4. Job # Rom!Nothing
  BY <1>2, NothingType
<1>5. CASE phase = "cmd"
  <2>1. w.cur = Job /\ w.got = 0
    BY <1>1, <1>2, <1>5, AfterCommand
  <2>2. QED
    BY <1>1, <1>2, <1>3, <1>5, <2>1 DEF Sync
<1>6. CASE phase = "data"
  <2>1. /\ DataCells \in 1..(Job.count - at) /\ SendData \in Reports
        /\ SendData.cmd = "DATA" /\ SendData.count = DataCells /\ at \in Nat /\ at < Job.count
    BY <1>1, <1>6, SendDataType DEF Typed, Where, HostTypes
  <2>2. v.cur = Job /\ v.got = at
    BY <1>1, <1>6, <2>1 DEF Sync, Started
  <2>3. /\ w.got = at + DataCells
        /\ w.cur = IF at + DataCells >= Job.count THEN Rom!Nothing ELSE Job
    BY <1>1, <1>4, <1>6, <2>1, <2>2, AfterReceive
  <2>4. w.cur = IF Got' < Job.count THEN Job ELSE Rom!Nothing
    BY <1>1, <1>2, <1>3, <1>6, <2>1, <2>3
  <2>6. QED
    BY <1>1, <1>3, <1>4, <1>6, <2>2, <2>3, <2>4 DEF Sync
<1>7. QED
  BY <1>1, <1>5, <1>6

\* The commands of the calls before the header is written.
LEMMA CalmJobs ==
  ASSUME HostTypes, stage \in CalmStages
  PROVE  /\ Running /\ Job.cmd # "RD_MEM"
         /\ HasData <=> stage \in {"ecc", "dcd", "plugin", "load"}
         /\ ~HasData => Job.count = 0
         /\ stage = "dcd" => Job.cmd = "DCD_WRITE" /\ Job.count = Batch
         /\ stage \in {"ecc", "plugin", "load"} => Job.cmd = "WR_FILE"
         /\ stage = "skip" => Job.cmd = "SKIP_DCD"
         /\ stage \in {"start", "jump"} => Job.cmd = "JUMP"
         /\ stage = "jump" => Job.addr = SelfAddr(img)
         /\ stage = "start" => Job.addr = img.self
         /\ stage = "plugin" => Job.addr = img.self /\ Job.count = img.plugin
         /\ stage = "load" => Job.addr = Segment.addr + pos /\ Job.count = Rounded(Batch)
BY DEF CalmStages, Running, Job, HasData, Rom!Command

\* The host looks at the outcome of a report: the call goes on, is over or has failed.
LEMMA CalmJudge ==
  ASSUME Typed, Calls, Early, stage \in CalmStages, JudgeStep
  PROVE  /\ Running /\ ~Sent' /\ asked
         /\ UNCHANGED <<img, rom, mem, said, heard, handled, delivered, pending, writeBuf, sent, ops,
                        okReads, pc, ret>>
         /\ \/ /\ UNCHANGED <<stage, seg, pos, FlashHdr>> /\ phase' # "cmd" /\ Ok
               /\ Started /\ Started' /\ Got' = Got /\ Job' = Job
               /\ phase' = "ack" => phase = "hab"
            \/ /\ GetDevAck /\ phase = "ack" /\ CallSucceeds
               /\ Started /\ Got = Job.count /\ phase' = "cmd" /\ ~Started' /\ Got' = 0
            \/ Failed /\ phase' = "cmd" /\ ~Started' /\ Got' = 0
<1>0. /\ Running /\ asked /\ pc = "idle"
      /\ UNCHANGED <<img, rom, mem, said, heard, handled, delivered, pending, writeBuf, sent, ops,
                     okReads, pc, ret>>
  BY JudgeSteps DEF JudgeStep, Answered, transport
<1>1. asked' = FALSE
  BY DEF JudgeStep, CmdSent, DataSent, GetHABType, GetDevAck, ReadData, ReportFails,
         HABUnknown, AckRefused, Failed, GoOn, CallSucceeds, CallFails, BeginStage
<1>2. ~Sent'
  BY <1>1 DEF Sent
<1>3. Ok /\ phase \in {"cmd", "data"} => Sent
  BY <1>0 DEF Ok, Calls, Early, H!Calm, Sent
<1>4. Job.cmd # "RD_MEM" /\ (~HasData => Job.count = 0) /\ HostTypes /\ Where /\ at \in Nat
  BY CalmJobs DEF Typed, HostTypes
<1>5. CASE CmdSent
  <2>1. UNCHANGED <<stage, seg, pos, FlashHdr>> /\ phase = "cmd" /\ Ok /\ at' = 0
        /\ phase' = IF HasData THEN "data" ELSE "hab"
    BY <1>5 DEF CmdSent, GoOn
  <2>2. Job' = Job
    BY <1>0, <2>1, JobSame
  <2>3. Got = 0 /\ Started
    BY <1>3, <2>1 DEF Got, Started
  <2>4. Got' = 0
    BY <1>2, <1>4, <2>1, <2>2 DEF Got
  <2>5. QED
    BY <1>0, <1>2, <2>1, <2>2, <2>3, <2>4 DEF Started
<1>6. CASE DataSent
  <2>1. UNCHANGED <<stage, seg, pos, FlashHdr>> /\ phase = "data" /\ Ok /\ at' = at + DataCells
        /\ phase' = IF at' < Job.count THEN "data" ELSE "hab"
    BY <1>6 DEF DataSent, GoOn
  <2>2. Job' = Job
    BY <1>0, <2>1, JobSame
  <2>3. DataCells \in 1..(Job.count - at) /\ Job.count \in Nat
    BY <1>0, <1>4, <2>1, SendDataType, JobType DEF Reports
  <2>4. Got = at + DataCells /\ Started
    BY <1>3, <2>1 DEF Got, Started
  <2>5. Got' = at + DataCells
    <3>1. CASE at' < Job.count
      BY <1>2, <1>4, <2>1, <2>3, <3>1 DEF Got
    <3>2. CASE ~(at' < Job.count)
      BY <1>4, <2>1, <2>2, <2>3, <3>2 DEF Got
    <3>3. QED
      BY <3>1, <3>2
  <2>6. QED
    BY <1>0, <1>2, <2>1, <2>2, <2>4, <2>5 DEF Started
<1>7. CASE GetHABType
  <2>1. UNCHANGED <<stage, seg, pos, FlashHdr>> /\ phase = "hab" /\ Ok /\ phase' = "ack"
    BY <1>4, <1>7 DEF GetHABType, GoOn
  <2>2. Job' = Job
    BY <1>0, <2>1, JobSame
  <2>3. QED
    BY <1>0, <1>2, <2>1, <2>2 DEF Started, Got
<1>8. CASE GetDevAck
  <2>1. CallSucceeds /\ phase = "ack" /\ phase' = "cmd"
    BY <1>8 DEF GetDevAck, CallSucceeds, BeginStage
  <2>2. QED
    BY <1>0, <1>2, <1>8, <2>1 DEF Started, Got
<1>9. CASE ReadData
  BY <1>0, <1>4, <1>9 DEF ReadData, Where
<1>10. CASE ReportFails \/ HABUnknown \/ AckRefused
  <2>1. Failed /\ phase' = "cmd"
    BY <1>10 DEF ReportFails, HABUnknown, AckRefused, Failed, CallFails, BeginStage
  <2>2. QED
    BY <1>0, <1>2, <2>1 DEF Started, Got
<1>11. QED
  BY <1>5, <1>6, <1>7, <1>8, <1>9, <1>10 DEF JudgeStep

\* Before the header is written, nothing is in flight but the report in progress.
LEMMA CalmPending ==
  ASSUME Typed, Calls, Early, stage \in CalmStages, Pending
  PROVE  /\ phase \in {"cmd", "data"} /\ ~Sent /\ writeBuf = ops /\ ops \in 1..ops
         /\ said[writeBuf] = IF phase = "cmd" THEN Job ELSE SendData
         /\ Got = IF phase = "cmd" THEN 0 ELSE at
         /\ Started <=> phase = "data"
<1>1. PICK r \in pending : r.kind = "write"
  BY DEF Pending
<1>2. /\ asked /\ phase \in {"cmd", "data"} /\ ~H!Delivered /\ ops > 0 /\ writeBuf = ops
      /\ said[ops] = IF phase = "cmd" THEN Job ELSE SendData
  BY <1>1, InFlight DEF Typed
<1>3. ops \in Nat /\ at \in Nat
  BY DEF Typed, Carried, H!TypeOK, HostTypes
<1>4. QED
  BY <1>2, <1>3 DEF Sent, Got, Started

-----------------------------------------------------------------------------
(* Images with a DCD.                                                      *)

NoFile(m) == \A a \in Addresses : m[a].what # "file"

\* Where AddIvtHdr writes its header, the IVT of the image is not.
Clean(m) ==
  img.family # "MX8" => \A j \in 0..(HeaderCells - 1) : m[FlashHdrAddr(img) + j] # IvtCell

NoIvt(s) == \A j \in 1..Len(s) : s[j] # IvtCell

\* Reports of the calls of AddIvtHdr.
Tame(r) == /\ r.cmd # "DCD_WRITE"
           /\ r.cmd = "JUMP" => r.addr = FlashHdrAddr(img)
           /\ NoIvt(r.cells)

\* A report that may still reach a ROM in view v when the run is over.
Settled(v, r) ==
  \/ /\ NoFile(v.mem) /\ v.mode # "image" /\ r.cmd # "JUMP"
     /\ \A j \in 1..Len(r.cells) : r.cells[j].what # "file"
  \/ /\ v.dcd = img.dcd /\ v.cur.cmd # "DCD_WRITE" /\ r.cmd # "DCD_WRITE"
     /\ r.cmd = "JUMP" => v.skip \/ v.mem[r.addr] # IvtCell

DcdGood(v) ==
  /\ v.mode = "image" => v.dcd = img.dcd
  /\ v.mode # "plugin"
  /\ ~NoFile(v.mem) => v.dcd >= img.dcd
  /\ v.can = rom.canSkip
  /\ Running => Clean(v.mem)

DcdView(v) ==
  /\ stage \in {"ecc", "dcd", "load", "skip"} => v.mode = "listening"
  /\ stage = "ecc" => v.dcd = 0 /\ v.cur.cmd # "DCD_WRITE" /\ NoFile(v.mem)
  /\ stage = "dcd" => /\ v.dcd = pos + Got /\ NoFile(v.mem) /\ Sync(v)
                      /\ ~Started => v.cur.cmd # "DCD_WRITE"
  /\ stage = "load" => Sync(v)
  /\ stage \in {"load", "skip", "jump"} \/ HdrStage =>
       v.dcd = img.dcd /\ v.cur.cmd # "DCD_WRITE"
  /\ stage = "skip" /\ Started => v.skip = v.can
  /\ stage = "jump" => v.skip
  /\ ~Running /\ Pending => Settled(v, said[writeBuf])

OkAck == Rom!Cell("ROM_OK_ACK")

DcdHost ==
  /\ stage = "skip" /\ (asked \/ phase # "cmd") => writeBuf > 0 /\ said[writeBuf] = Job
  /\ HdrStage => writeBuf > 0 /\ Tame(said[writeBuf])
  /\ \A k \in 1..Len(said) : said[k].cmd = "RD_MEM" =>
       /\ stage \notin CalmStages /\ img.family # "MX8"
       /\ said[k] = Rom!Command("RD_MEM", FlashHdrAddr(img), HeaderCells)
  /\ Running => /\ NoIvt(heard) /\ NoIvt(rom.answers) /\ NoIvt(buf)
                /\ stage = "writeHdr" => NoIvt(FlashHdr)
  /\ stage \in {"ecc", "dcd", "load", "skip"} =>
       /\ \A j \in 1..Len(heard) : heard[j] = OkAck => rom.canSkip
       /\ \A j \in 1..Len(rom.answers) : rom.answers[j] = OkAck => rom.canSkip

DInv(R) ==
  /\ \A k \in handled..Len(delivered) : DcdGood(R[k])
  /\ DcdView(Last(R))
  /\ DcdHost

LEMMA DcdImage ==
  ASSUME HostTypes, img.dcd > 0
  PROVE  /\ img.plugin = 0 /\ img.second = "none" /\ SelfAddr(img) = img.self
         /\ \A v, a : ~PluginAt(v, a) /\ (ImageAt(v, a) <=> v.mem[a] = IvtCell)
<1>1. LaidOut(img) /\ img.dcd \in Nat /\ img.plugin \in Nat
  BY ImageType DEF HostTypes
<1>2. img.plugin = 0 /\ img.second = "none"
  BY <1>1 DEF LaidOut
<1>3. Rom!MainIvt = img.ivt
  BY <1>2 DEF Rom!MainIvt
<1>4. QED
  BY <1>2, <1>3 DEF SelfAddr, PluginAt, ImageAt, IvtCell

LEMMA HeaderPlace ==
  ASSUME HostTypes, img.family # "MX8"
  PROVE  /\ \A j \in 0..(HeaderCells - 1) : FlashHdrAddr(img) + j \in Addresses
         /\ FlashHdrAddr(img) \in Addresses /\ FlashHdrAddr(img) + 0 = FlashHdrAddr(img)
         /\ 0 \in 0..(HeaderCells - 1)
<1>1. \A j \in 0..(HeaderCells - 1) : FlashHdrAddr(img) + j \in Addresses
  BY ImageType DEF HostTypes, LaidOut
<1>2. FlashHdrAddr(img) \in Int /\ HeaderCells \in Nat \ {0}
  BY ImageType, SizesAssumption DEF HostTypes
<1>3. FlashHdrAddr(img) + 0 = FlashHdrAddr(img) /\ 0 \in 0..(HeaderCells - 1)
  BY <1>2
<1>4. QED
  BY <1>1, <1>3

LEMMA SameImage ==
  ASSUME img' = img
  PROVE  /\ \A m : (Clean(m)' <=> Clean(m)) /\ (NoFile(m)' <=> NoFile(m))
         /\ \A s : NoIvt(s)' <=> NoIvt(s)
         /\ \A r : Tame(r)' <=> Tame(r)
         /\ \A v, r : Settled(v, r)' <=> Settled(v, r)
         /\ UNCHANGED <<IvtCell, OkAck, Rom!Nothing>>
BY DEF Clean, NoFile, NoIvt, Tame, Settled, IvtCell, OkAck, Rom!File, Rom!Cell, Rom!Nothing,
       Rom!Command, FlashHdrAddr, ExecutingAddr

LEMMA DcdContent ==
  ASSUME Typed, Running, phase = "data", stage \notin {"load", "plugin", "writeHdr"},
         NEW i \in 1..Len(SendData.cells)
  PROVE  SendData.cells[i] = Rom!Cell("dcd")
<1>1. /\ DataCells \in Nat /\ SendData.cells = [k \in 1..DataCells |-> Content(at + k - 1)]
      /\ SendData.cmd = "DATA" /\ SendData.count = DataCells /\ SendData \in Reports
  <2>1. DataCells \in 1..(Job.count - at) /\ Job.count - at \in Int
    BY SendDataType, JobType DEF Typed, Reports, HostTypes
  <2>2. DataCells \in Nat
    BY <2>1
  <2>3. QED
    BY <2>2, SendDataType DEF Typed
<1>2. Len(SendData.cells) = DataCells
  BY <1>1 DEF Reports
<1>3. \A k : Content(k) = Rom!Cell("dcd")
  BY DEF Content
<1>4. QED
  BY <1>1, <1>2, <1>3

\* Of what LoadFirmware loads, nothing but the IVT is the IVT, and that is not where the
\* header will be.
LEMMA LoadClean ==
  ASSUME Typed, img.dcd > 0, stage = "load", phase = "data", img.family # "MX8",
         NEW j \in 0..(HeaderCells - 1), NEW i \in 1..Len(SendData.cells),
         FlashHdrAddr(img) + j = Segment.addr + pos + at + i - 1
  PROVE  SendData.cells[i] # IvtCell
<1>1. Running
  BY DEF Running
<1>2. /\ DataCells \in Nat /\ SendData.cells = [k \in 1..DataCells |-> Content(at + k - 1)]
      /\ Len(SendData.cells) = DataCells
  <2>1. DataCells \in 1..(Job.count - at) /\ Job.count - at \in Int /\ SendData \in Reports
        /\ SendData.cmd = "DATA" /\ SendData.count = DataCells
    BY <1>1, SendDataType, JobType DEF Typed, Reports, HostTypes
  <2>2. DataCells \in Nat
    BY <2>1
  <2>3. Len(SendData.cells) = DataCells
    BY <2>1 DEF Reports
  <2>4. QED
    BY <1>1, <2>2, <2>3, SendDataType DEF Typed
<1>3. SendData.cells[i] = Rom!File(Segment.from + pos + (at + i - 1))
  BY <1>2 DEF Content
<1>4. Segment.addr = PhyRAMAddr4KRL(img) /\ Segment.from = CodeOffset(img)
  <2>1. LoadSegments(img) = LoadFirmware(img) /\ seg \in 1..Len(LoadSegments(img))
    BY DEF LoadSegments, Typed, HostTypes
  <2>2. LoadSegments(img)[1] = [from |-> CodeOffset(img), cells |-> img.size - CodeOffset(img),
                                addr |-> PhyRAMAddr4KRL(img)]
        /\ Len(LoadSegments(img)) = 1
    BY <2>1 DEF LoadFirmware
  <2>3. seg = 1
    BY <2>1, <2>2
  <2>4. QED
    BY <2>2, <2>3 DEF Segment
<1>5. CodeOffset(img) + ((FlashHdrAddr(img) + j) - PhyRAMAddr4KRL(img)) # img.ivt
  BY ImageType DEF Typed, HostTypes, LaidOut
<1>6. /\ Segment.addr \in Int /\ Segment.from \in Int /\ pos \in Nat /\ at \in Nat /\ img.ivt \in Nat
      /\ i \in Int
  BY <1>2, SegmentType, ImageType DEF Typed, HostTypes, Segments
<1>7. Segment.from + pos + (at + i - 1) # img.ivt
  BY <1>4, <1>5, <1>6
<1>8. QED
  BY <1>3, <1>7 DEF IvtCell, Rom!File

LEMMA DcdCalmAccept ==
  ASSUME Typed, Calls, Early, InLen # OutLen, img.dcd > 0, stage \in CalmStages, Transport,
         H!DeviceAccepts, NEW v \in Views, DcdGood(v), DcdView(v),
         NEW w \in Views, w = After(v, said[writeBuf])
  PROVE  DcdGood(w)' /\ DcdView(w)'
<1> DEFINE r == said[writeBuf]
<1>1. /\ phase \in {"cmd", "data"} /\ Started' /\ writeBuf = ops
      /\ r = IF phase = "cmd" THEN Job ELSE SendData
      /\ Got = IF phase = "cmd" THEN 0 ELSE at
      /\ Got' = IF phase = "cmd" THEN 0 ELSE at + DataCells
      /\ UNCHANGED <<img, stage, phase, pos, rom>> /\ Running /\ Running'
  BY CalmAccept
<1>2. /\ \A m : (Clean(m)' <=> Clean(m)) /\ (NoFile(m)' <=> NoFile(m))
  BY <1>1, SameImage
<1>3. HostTypes /\ Where /\ img.dcd \in Nat /\ pos \in Nat /\ at \in Nat
  BY ImageType DEF Typed, HostTypes
<1>4. img.plugin = 0 /\ Job \in Reports /\ stage \notin {"plugin", "start"}
  BY <1>1, <1>3, DcdImage, JobType DEF Where
<1>5. phase = "data" =>
        /\ HasData /\ SendData \in Reports /\ SendData.cmd = "DATA" /\ SendData.count = DataCells
        /\ DataCells \in Nat /\ Len(SendData.cells) = DataCells
  <2> SUFFICES ASSUME phase = "data"
               PROVE  /\ HasData /\ SendData \in Reports /\ SendData.cmd = "DATA"
                      /\ SendData.count = DataCells
                      /\ DataCells \in Nat /\ Len(SendData.cells) = DataCells
    OBVIOUS
  <2>1. DataCells \in 1..(Job.count - at) /\ Job.count - at \in Int /\ SendData \in Reports
        /\ SendData.cmd = "DATA" /\ SendData.count = DataCells
    BY <1>1, <1>3, <1>4, SendDataType DEF Reports
  <2>2. QED
    BY <1>1, <1>3, <2>1 DEF Where, Reports
<1>6. /\ v.can = rom.canSkip /\ w.can = v.can /\ v.mode # "plugin" /\ Clean(v.mem)
  BY <1>1, <1>3, <1>4, <1>5, AfterType DEF DcdGood
<1>7. CASE stage = "ecc"
  <2>1. v.mode = "listening" /\ v.dcd = 0 /\ v.cur.cmd # "DCD_WRITE" /\ NoFile(v.mem)
        /\ img.family = "MX8" /\ Job.cmd = "WR_FILE"
    BY <1>3, <1>7, CalmJobs DEF DcdView, Where
  <2>2. w.mode = "listening" /\ w.dcd = 0 /\ w.cur.cmd # "DCD_WRITE" /\ NoFile(w.mem)
    <3>1. CASE phase = "cmd"
      BY <1>1, <1>4, <2>1, <3>1, AfterCommand
    <3>2. CASE phase = "data" /\ v.cur = Rom!Nothing
      BY <1>1, <1>5, <2>1, <3>2, AfterCommand
    <3>3. CASE phase = "data" /\ v.cur # Rom!Nothing
      <4>1. /\ w.mode = v.mode /\ w.dcd = v.dcd /\ w.cur \in {Rom!Nothing, v.cur}
            /\ \A a \in Addresses : w.mem[a] =
                 IF a - (v.cur.addr + v.got) \in 0..(SendData.count - 1)
                 THEN SendData.cells[a - (v.cur.addr + v.got) + 1] ELSE v.mem[a]
        BY <1>1, <1>5, <2>1, <3>3, AfterReceive
      <4>2. \A i \in 1..DataCells : SendData.cells[i].what = "dcd"
        BY <1>1, <1>5, <1>7, <3>3, DcdContent DEF Rom!Cell
      <4>3. \A a \in Addresses : a \in Int /\ v.cur.addr + v.got \in Int
        <5>1. Addresses \subseteq Int
          BY SizesAssumption
        <5>2. v.cur \in Reports /\ v.got \in Nat
          BY DEF Views
        <5>3. v.cur.addr \in Int
          BY <5>2 DEF Reports
        <5>4. QED
          BY <5>1, <5>2, <5>3
      <4>4. \A a \in Addresses : w.mem[a].what \in {v.mem[a].what, "dcd"}
        BY SMTT(30), <1>5, <3>3, <4>1, <4>2, <4>3
      <4>5. QED
        BY <2>1, <4>1, <4>4, NothingType DEF NoFile
    <3>4. QED
      BY <1>1, <3>1, <3>2, <3>3
  <2>3. Clean(w.mem)
    BY <2>1 DEF Clean
  <2>4. QED
    BY <1>1, <1>2, <1>6, <1>7, <2>2, <2>3 DEF DcdGood, DcdView, HdrStage
<1>8. CASE stage = "dcd"
  <2>1. v.mode = "listening" /\ v.dcd = pos + Got /\ Sync(v) /\ NoFile(v.mem) /\ HasData
        /\ Job.cmd = "DCD_WRITE"
    BY <1>3, <1>8, CalmJobs DEF DcdView
  <2>2. Sync(w)' /\ (phase = "data" => v.cur = Job /\ v.got = at /\ v.cur # Rom!Nothing)
    BY <2>1, SyncAccept
  <2>3. w.mode = "listening" /\ w.mem = v.mem
        /\ w.dcd = IF phase = "cmd" THEN v.dcd ELSE v.dcd + DataCells
    <3>1. CASE phase = "cmd"
      BY <1>1, <1>4, <2>1, <3>1, AfterCommand
    <3>2. CASE phase = "data"
      <4>1. \A i \in 1..Len(SendData.cells) : SendData.cells[i] = Rom!Cell("dcd")
        BY <1>1, <1>8, <3>2, DcdContent
      <4>2. QED
        BY <1>1, <1>5, <2>1, <2>2, <3>2, <4>1, AfterReceive
    <3>3. QED
      BY <1>1, <3>1, <3>2
  <2>4. w.dcd = pos + Got'
    BY <1>1, <1>3, <1>5, <2>1, <2>3
  <2>5. QED
    BY <1>1, <1>2, <1>6, <1>8, <2>1, <2>2, <2>3, <2>4 DEF DcdGood, DcdView, HdrStage
<1>9. CASE stage = "load"
  <2>1. v.mode = "listening" /\ v.dcd = img.dcd /\ v.cur.cmd # "DCD_WRITE" /\ Sync(v) /\ HasData
        /\ Job.cmd = "WR_FILE" /\ Job.addr = Segment.addr + pos
    BY <1>3, <1>9, CalmJobs DEF DcdView
  <2>2. Sync(w)' /\ (phase = "data" => v.cur = Job /\ v.got = at /\ v.cur # Rom!Nothing)
    BY <2>1, SyncAccept
  <2>3. w.mode = "listening" /\ w.dcd = img.dcd /\ w.cur.cmd # "DCD_WRITE" /\ Clean(w.mem)
    <3>1. CASE phase = "cmd"
      BY <1>1, <1>4, <1>6, <2>1, <3>1, AfterCommand
    <3>2. CASE phase = "data"
      <4>1. /\ w.mode = v.mode /\ w.dcd = v.dcd /\ w.cur \in {Rom!Nothing, v.cur}
            /\ \A a \in Addresses : w.mem[a] =
                 IF a - (v.cur.addr + v.got) \in 0..(SendData.count - 1)
                 THEN SendData.cells[a - (v.cur.addr + v.got) + 1] ELSE v.mem[a]
        BY <1>1, <1>5, <2>1, <2>2, <3>2, AfterReceive
      <4>2. ASSUME img.family # "MX8", NEW j \in 0..(HeaderCells - 1)
            PROVE  w.mem[FlashHdrAddr(img) + j] # IvtCell
        <5>1. /\ FlashHdrAddr(img) + j \in Addresses /\ FlashHdrAddr(img) + j \in Int
              /\ v.mem[FlashHdrAddr(img) + j] # IvtCell
          <6>1. FlashHdrAddr(img) + j \in Addresses /\ Addresses \subseteq Int
            BY <1>3, <4>2, HeaderPlace, SizesAssumption
          <6>2. QED
            BY <1>6, <4>2, <6>1 DEF Clean
        <5>2. Segment.addr \in Int /\ v.cur.addr + v.got = Segment.addr + pos + at
          BY <1>3, <2>1, <2>2, <3>2, SegmentType DEF Segments
        <5> DEFINE a == FlashHdrAddr(img) + j
                   i == a - (v.cur.addr + v.got) + 1
        <5>3. CASE a - (v.cur.addr + v.got) \in 0..(SendData.count - 1)
          <6>1. i \in 1..Len(SendData.cells) /\ a = Segment.addr + pos + at + i - 1
            <7>1. PICK base \in Int : base = Segment.addr + pos + at /\ base = v.cur.addr + v.got
              BY <1>3, <5>2
            <7>2. a - base \in 0..(DataCells - 1) /\ a \in Int /\ DataCells \in Nat
              BY <1>5, <3>2, <5>1, <5>3, <7>1
            <7>3. a - base + 1 \in 1..DataCells /\ a = base + (a - base + 1) - 1
              BY <7>2
            <7>4. QED
              BY <1>5, <3>2, <7>1, <7>3
          <6>2. SendData.cells[i] # IvtCell
            BY <1>9, <3>2, <4>2, <6>1, LoadClean
          <6>3. QED
            BY <4>1, <5>1, <5>3, <6>2
        <5>4. CASE a - (v.cur.addr + v.got) \notin 0..(SendData.count - 1)
          BY <4>1, <5>1, <5>4
        <5>5. QED
          BY <5>3, <5>4
      <4>3. QED
        BY <2>1, <4>1, <4>2, NothingType DEF Clean
    <3>3. QED
      BY <1>1, <3>1, <3>2
  <2>4. QED
    BY <1>1, <1>2, <1>3, <1>6, <1>9, <2>2, <2>3 DEF DcdGood, DcdView, HdrStage
<1>10. CASE stage = "skip"
  <2>1. v.mode = "listening" /\ v.dcd = img.dcd /\ v.cur.cmd # "DCD_WRITE"
        /\ Job.cmd = "SKIP_DCD" /\ ~HasData
    BY <1>3, <1>10, CalmJobs DEF DcdView
  <2>2. w.mode = "listening" /\ w.dcd = img.dcd /\ w.cur.cmd # "DCD_WRITE" /\ w.skip = v.can
        /\ w.mem = v.mem
    BY <1>1, <1>4, <1>5, <2>1, AfterCommand
  <2>3. QED
    BY <1>1, <1>2, <1>3, <1>6, <1>10, <2>2 DEF DcdGood, DcdView, HdrStage
<1>11. CASE stage = "jump"
  <2>1. v.dcd = img.dcd /\ v.cur.cmd # "DCD_WRITE" /\ Job.cmd = "JUMP" /\ ~HasData /\ v.skip
    BY <1>3, <1>11, CalmJobs DEF DcdView
  <2>2. w.mode # "plugin" /\ w.dcd = img.dcd /\ w.cur.cmd # "DCD_WRITE" /\ w.skip
        /\ w.mem = v.mem
    <3>1. CASE v.mode = "listening"
      BY <1>1, <1>3, <1>4, <1>5, <2>1, <3>1, AfterJumps, DcdImage
    <3>2. CASE v.mode # "listening"
      BY <1>6, <2>1, <3>2, AfterDeaf
    <3>3. QED
      BY <3>1, <3>2
  <2>3. QED
    BY <1>1, <1>2, <1>3, <1>6, <1>11, <2>1, <2>2 DEF DcdGood, DcdView, HdrStage
<1>12. QED
  BY <1>4, <1>7, <1>8, <1>9, <1>10, <1>11 DEF CalmStages

LEMMA EndPending ==
  ASSUME Transport, H!DeviceAccepts
  PROVE  Pending /\ UNCHANGED <<img, rom, mem, stage, phase, asked, seg, pos, at, buf, FlashHdr,
                                said, writeBuf, heard, handled, sent, okReads, pc, ret, ops>>
<1>1. Pending
  BY DEF Pending, H!DeviceAccepts, H!OldestOf
<1>2. QED
  BY <1>1, QuietSteps, TransportFrame DEF H!DeviceAccepts, H!host, H!ghost

\* While the header is written, no report makes the ROM run the DCD again.
LEMMA DcdHeaderAccept ==
  ASSUME Typed, img.dcd > 0, HdrStage, DcdHost, Transport, H!DeviceAccepts,
         NEW v \in Views, DcdGood(v), DcdView(v), said[writeBuf] \in Reports,
         NEW w \in Views, w = After(v, said[writeBuf])
  PROVE  DcdGood(w)' /\ DcdView(w)'
<1> DEFINE r == said[writeBuf]
<1>1. UNCHANGED <<img, stage, rom, said, writeBuf>>
  BY EndPending
<1>2. /\ \A m : (Clean(m)' <=> Clean(m)) /\ (NoFile(m)' <=> NoFile(m))
  BY <1>1, SameImage
<1>3. HostTypes /\ Running /\ Running' /\ img.family # "MX8" /\ stage \notin CalmStages
  BY <1>1 DEF Typed, Where, HdrStage, Running, CalmStages
<1>4. v.dcd = img.dcd /\ v.cur.cmd # "DCD_WRITE" /\ Tame(r) /\ r \in Reports
      /\ Clean(v.mem) /\ v.mode # "plugin" /\ v.can = rom.canSkip /\ img.dcd \in Nat
  BY <1>3, ImageType DEF DcdView, DcdHost, DcdGood, HostTypes
<1>5. w.dcd = img.dcd /\ w.cur.cmd # "DCD_WRITE" /\ Clean(w.mem) /\ w.mode # "plugin"
  <2>1. CASE v.mode # "listening"
    BY <1>4, <2>1, AfterDeaf
  <2>2. CASE v.mode = "listening" /\ r.cmd \notin {"JUMP", "DATA"}
    BY <1>4, <2>2, AfterCommand DEF Tame, Reports, Cmds
  <2>3. CASE v.mode = "listening" /\ r.cmd = "JUMP"
    <3>1. v.mem[r.addr] # IvtCell
      BY <1>3, <1>4, <2>3, HeaderPlace DEF Tame, Clean
    <3>2. QED
      BY <1>3, <1>4, <2>3, <3>1, AfterJumps, DcdImage
  <2>4. CASE v.mode = "listening" /\ r.cmd = "DATA" /\ v.cur = Rom!Nothing
    BY <1>4, <2>4, AfterCommand
  <2>5. CASE v.mode = "listening" /\ r.cmd = "DATA" /\ v.cur # Rom!Nothing
    <3>1. /\ w.mode = v.mode /\ w.dcd = v.dcd /\ w.cur \in {Rom!Nothing, v.cur}
          /\ \A a \in Addresses : w.mem[a] =
               IF a - (v.cur.addr + v.got) \in 0..(r.count - 1)
               THEN r.cells[a - (v.cur.addr + v.got) + 1] ELSE v.mem[a]
      BY <1>4, <2>5, AfterReceive
    <3>2. \A a \in Addresses : w.mem[a] = IvtCell => v.mem[a] = IvtCell
      <4>1. ASSUME NEW a \in Addresses, a - (v.cur.addr + v.got) \in 0..(r.count - 1)
            PROVE  r.cells[a - (v.cur.addr + v.got) + 1] # IvtCell
        <5>1. Addresses \subseteq Int
          BY SizesAssumption
        <5>2. v.cur \in Reports /\ v.got \in Nat
          BY DEF Views
        <5>3. v.cur.addr \in Int /\ r.count = Len(r.cells) /\ r.count \in Nat
          BY <1>4, <2>5, <5>2 DEF Reports
        <5>4. a - (v.cur.addr + v.got) + 1 \in 1..Len(r.cells)
          BY <4>1, <5>1, <5>2, <5>3
        <5>5. QED
          BY <1>4, <5>4 DEF Tame, NoIvt
      <4>2. QED
        BY <3>1, <4>1
    <3>3. Clean(w.mem)
      BY <1>3, <1>4, <3>2, HeaderPlace DEF Clean
    <3>4. QED
      BY <1>4, <3>1, <3>3, NothingType
  <2>6. QED
    BY <2>1, <2>2, <2>3, <2>4, <2>5
<1>6. w.can = v.can
  BY <1>3, <1>4, AfterType
<1>7. QED
  BY <1>1, <1>2, <1>3, <1>4, <1>5, <1>6 DEF DcdGood, DcdView, HdrStage, CalmStages

\* Nor does one that the device accepts when the run is over.
LEMMA DcdEndAccept ==
  ASSUME Typed, img.dcd > 0, ~Running, Transport, H!DeviceAccepts,
         NEW v \in Views, DcdGood(v), DcdView(v), said[writeBuf] \in Reports,
         NEW w \in Views, w = After(v, said[writeBuf])
  PROVE  DcdGood(w)' /\ DcdView(w)'
<1> DEFINE r == said[writeBuf]
<1>1. UNCHANGED <<img, stage, rom, said, writeBuf>> /\ Pending
  BY EndPending
<1>2. \A m, s : (NoFile(m)' <=> NoFile(m)) /\ (Settled(m, s)' <=> Settled(m, s))
  BY <1>1, SameImage
<1>3. HostTypes /\ ~Running' /\ ~HdrStage' /\ stage' \notin CalmStages
  BY <1>1 DEF Typed, Running, HdrStage, CalmStages
<1>4. r \in Reports /\ v.mode # "plugin" /\ v.can = rom.canSkip /\ img.dcd \in Nat /\ Settled(v, r)
  BY <1>1, ImageType DEF DcdView, DcdGood, Typed, HostTypes
<1>5. w.can = v.can
  BY <1>3, <1>4, AfterType
<1>6. CASE v.mode # "listening"
  <2>1. w = v
    BY <1>6, AfterDeaf
  <2>2. QED
    BY <1>1, <1>2, <1>3, <1>4, <2>1 DEF DcdGood, DcdView, HdrStage, CalmStages
<1>7. CASE v.mode = "listening" /\ v.dcd = img.dcd /\ v.cur.cmd # "DCD_WRITE"
           /\ r.cmd # "DCD_WRITE" /\ (r.cmd = "JUMP" => v.skip \/ v.mem[r.addr] # IvtCell)
  <2>1. /\ w.dcd = img.dcd /\ w.cur.cmd # "DCD_WRITE" /\ w.mode # "plugin"
        /\ r.cmd = "JUMP" => w.skip \/ w.mem[r.addr] # IvtCell
    <3>1. CASE r.cmd \notin {"JUMP", "DATA"}
      BY <1>4, <1>7, <3>1, AfterCommand DEF Reports, Cmds
    <3>2. CASE r.cmd = "JUMP"
      BY <1>3, <1>4, <1>7, <3>2, AfterJumps, DcdImage
    <3>3. CASE r.cmd = "DATA" /\ v.cur = Rom!Nothing
      BY <1>4, <1>7, <3>3, AfterCommand
    <3>4. CASE r.cmd = "DATA" /\ v.cur # Rom!Nothing
      BY <1>4, <1>7, <3>4, AfterReceive, NothingType
    <3>5. QED
      BY <3>1, <3>2, <3>3, <3>4
  <2>2. Settled(w, r)
    BY <1>7, <2>1 DEF Settled
  <2>3. QED
    BY <1>1, <1>2, <1>3, <1>4, <1>5, <2>1, <2>2 DEF DcdGood, DcdView, HdrStage, CalmStages
<1>8. CASE v.mode = "listening" /\ NoFile(v.mem) /\ r.cmd # "JUMP"
           /\ \A j \in 1..Len(r.cells) : r.cells[j].what # "file"
  <2>1. w.mode = "listening" /\ NoFile(w.mem)
    <3>1. CASE r.cmd # "DATA"
      BY <1>4, <1>8, <3>1, AfterCommand DEF Reports, Cmds
    <3>2. CASE r.cmd = "DATA" /\ v.cur = Rom!Nothing
      BY <1>4, <1>8, <3>2, AfterCommand
    <3>3. CASE r.cmd = "DATA" /\ v.cur # Rom!Nothing
      <4>1. /\ w.mode = v.mode
            /\ v.cur.cmd = "DCD_WRITE" => w.mem = v.mem
            /\ v.cur.cmd # "DCD_WRITE" => \A a \in Addresses : w.mem[a] =
                 IF a - (v.cur.addr + v.got) \in 0..(r.count - 1)
                 THEN r.cells[a - (v.cur.addr + v.got) + 1] ELSE v.mem[a]
        BY <1>4, <1>8, <3>3, AfterReceive
      <4>2. ASSUME NEW a \in Addresses, a - (v.cur.addr + v.got) \in 0..(r.count - 1)
            PROVE  r.cells[a - (v.cur.addr + v.got) + 1].what # "file"
        <5>1. Addresses \subseteq Int
          BY SizesAssumption
        <5>2. v.cur \in Reports /\ v.got \in Nat
          BY DEF Views
        <5>3. v.cur.addr \in Int /\ r.count = Len(r.cells) /\ r.count \in Nat
          BY <1>4, <3>3, <5>2 DEF Reports
        <5>4. a - (v.cur.addr + v.got) + 1 \in 1..Len(r.cells)
          BY <4>2, <5>1, <5>2, <5>3
        <5>5. QED
          BY <1>8, <5>4
      <4>3. QED
        BY <1>8, <4>1, <4>2 DEF NoFile
    <3>4. QED
      BY <3>1, <3>2, <3>3
  <2>2. Settled(w, r)
    BY <1>8, <2>1 DEF Settled
  <2>3. QED
    BY <1>1, <1>2, <1>3, <1>4, <1>5, <2>1, <2>2 DEF DcdGood, DcdView, HdrStage, CalmStages
<1>9. QED
  BY <1>4, <1>6, <1>7, <1>8 DEF Settled

LEMMA DcdAccept ==
  ASSUME Typed, Calls, Early, InLen # OutLen, img.dcd > 0, NEW R, Chain(R), DInv(R), Transport,
         H!DeviceAccepts
  PROVE  \E S : Chain(S)' /\ DInv(S)'
<1>1. PICK S : /\ Chain(S)' /\ Len(delivered') = Len(delivered) + 1
               /\ \A k \in handled..Len(delivered) : S[k] = R[k]
               /\ Last(S)' = S[Len(delivered) + 1]
               /\ S[Len(delivered) + 1] = After(Last(R), said[writeBuf])
               /\ writeBuf \in 1..ops /\ said[writeBuf] \in Reports /\ Pending
  BY ChainAccept
<1>2. UNCHANGED <<img, rom, mem, stage, phase, asked, seg, pos, at, buf, FlashHdr, said, writeBuf,
                  heard, handled, sent>>
  BY EndPending
<1>3. Last(R) \in Views /\ handled \in Nat /\ Len(delivered) \in Nat /\ handled <= Len(delivered)
      /\ DcdGood(Last(R)) /\ DcdView(Last(R)) /\ DcdHost
  BY LastType DEF DInv, Last
<1>4. PICK w \in Views : w = After(Last(R), said[writeBuf])
  BY <1>1, <1>3, AfterType DEF Typed
<1>5. DcdGood(w)' /\ DcdView(w)'
  <2>1. CASE stage \in CalmStages
    BY <1>3, <1>4, <2>1, DcdCalmAccept
  <2>2. CASE HdrStage
    BY <1>1, <1>3, <1>4, <2>2, DcdHeaderAccept
  <2>3. CASE ~Running
    BY <1>1, <1>3, <1>4, <2>3, DcdEndAccept
  <2>4. QED
    BY <2>1, <2>2, <2>3 DEF Typed, HostTypes, Stages, CalmStages, HdrStage, Running
<1>6. \A k \in handled..Len(delivered) : DcdGood(R[k])'
  <2>1. \A m : Clean(m)' <=> Clean(m)
    BY <1>2, SameImage
  <2>2. Running' <=> Running
    BY <1>2 DEF Running
  <2>3. QED
    BY <1>2, <2>1, <2>2 DEF DInv, DcdGood, NoFile
<1>7. DcdHost'
  <2>1. UNCHANGED <<Job, Running>>
    BY <1>2, JobSame
  <2>2. \A s : (NoIvt(s)' <=> NoIvt(s)) /\ (Tame(s)' <=> Tame(s))
    BY <1>2, SameImage
  <2>3. QED
    BY <1>2, <1>3, <2>1, <2>2 DEF DcdHost, HdrStage, OkAck, Rom!Cell, Rom!Command, FlashHdrAddr, ExecutingAddr
<1>8. \A k \in handled..(Len(delivered) + 1) : DcdGood(S[k])'
  BY <1>1, <1>3, <1>4, <1>5, <1>6
<1>9. DInv(S)'
  BY <1>1, <1>2, <1>4, <1>5, <1>7, <1>8 DEF DInv
<1>10. QED
  BY <1>1, <1>9

\* When the run is over, what is in flight is settled.
LEMMA DcdSettles ==
  ASSUME Typed, Calls, Early, img.dcd > 0, Running, Pending, stage # "ecc",
         NEW v \in Views, DcdGood(v), DcdView(v), DcdHost
  PROVE  Settled(v, said[writeBuf])
<1> DEFINE r == said[writeBuf]
<1>1. HostTypes /\ Where /\ Job \in Reports
  BY JobType DEF Typed
<1>2. CASE stage \in CalmStages
  <2>1. /\ phase \in {"cmd", "data"} /\ r = IF phase = "cmd" THEN Job ELSE SendData
        /\ Got = IF phase = "cmd" THEN 0 ELSE at
        /\ Started <=> phase = "data"
    BY <1>2, CalmPending
  <2>2. phase = "data" => HasData /\ SendData.cmd = "DATA"
    BY <1>1, SendDataType DEF Where, Running
  <2>3. Job.cells = <<>> \/ Job.cmd = "DATA"
    BY <1>1 DEF Reports
  <2>4. CASE stage = "dcd"
    <3>1. Job.cmd = "DCD_WRITE" /\ v.mode = "listening" /\ NoFile(v.mem)
      BY <1>1, <1>2, <2>4, CalmJobs DEF DcdView
    <3>2. \A j \in 1..Len(r.cells) : r.cells[j].what # "file"
      <4>1. CASE phase = "cmd"
        BY <2>1, <2>3, <3>1, <4>1
      <4>2. CASE phase = "data"
        BY <2>1, <2>4, <4>2, DcdContent DEF Rom!Cell
      <4>3. QED
        BY <2>1, <4>1, <4>2
    <3>3. QED
      BY <2>1, <2>2, <3>1, <3>2 DEF Settled
  <2>5. CASE stage \in {"load", "skip"}
    <3>1. v.dcd = img.dcd /\ v.cur.cmd # "DCD_WRITE" /\ Job.cmd \in {"WR_FILE", "SKIP_DCD"}
      BY <1>1, <1>2, <2>5, CalmJobs DEF DcdView
    <3>2. QED
      BY <2>1, <2>2, <3>1 DEF Settled
  <2>6. CASE stage = "jump"
    <3>1. v.dcd = img.dcd /\ v.cur.cmd # "DCD_WRITE" /\ Job.cmd = "JUMP" /\ v.skip
      BY <1>1, <1>2, <2>6, CalmJobs DEF DcdView
    <3>2. QED
      BY <2>1, <2>2, <3>1 DEF Settled
  <2>7. stage \notin {"plugin", "start"}
    BY <1>1, DcdImage DEF Where
  <2>8. QED
    BY <1>2, <2>4, <2>5, <2>6, <2>7 DEF CalmStages
<1>3. CASE HdrStage
  <2>1. v.dcd = img.dcd /\ v.cur.cmd # "DCD_WRITE" /\ Tame(r) /\ Clean(v.mem) /\ img.family # "MX8"
    BY <1>1, <1>3 DEF DcdView, DcdHost, DcdGood, Where
  <2>2. r.cmd = "JUMP" => v.mem[r.addr] # IvtCell
    BY <1>1, <2>1, HeaderPlace DEF Tame, Clean
  <2>3. QED
    BY <2>1, <2>2 DEF Settled, Tame
<1>4. QED
  BY <1>1, <1>2, <1>3 DEF HostTypes, Stages, CalmStages, HdrStage, Running

\* The stage that follows a stage.
LEMMA NextStage ==
  ASSUME Typed, JudgeStep, img.dcd > 0
  PROVE  /\ stage' \in {"ecc", "dcd", "load", "skip"} => stage \in {"ecc", "dcd", "load", "skip"}
         /\ stage' = "ecc" => stage = "ecc"
         /\ stage' = "jump" => stage \in {"jump", "skip"}
         /\ stage = "jump" => stage' \in {"jump", "done", "failed"}
         /\ stage' = "writeHdr" /\ stage # "writeHdr" =>
              stage = "readHdr" /\ FlashHdr' = [buf' EXCEPT ![1] = Rom!IvtHeader(ExecutingAddr(img))]
         /\ stage' = "writeHdr" /\ stage = "writeHdr" => FlashHdr' = FlashHdr
         /\ HdrStage' => HdrStage \/ stage = "skip"
         /\ HdrStage => HdrStage' \/ stage' \in {"done", "failed"}
         /\ Running
<1>1. HostTypes /\ Where /\ Running /\ img.plugin = 0 /\ img.second = "none"
  BY JudgeSteps, DcdImage DEF Typed, JudgeStep, Answered
<1>2. CASE UNCHANGED <<stage, FlashHdr>>
  BY <1>1, <1>2 DEF HdrStage
<1>3. CASE CallFails
  BY <1>1, <1>3 DEF CallFails, BeginStage, AfterFailure, HdrStage
<1>4. CASE CallSucceeds
  <2>1. CASE More
    BY <1>1, <1>4, <2>1 DEF CallSucceeds, BeginStage, HdrStage
  <2>2. CASE ~More /\ stage = "load" /\ seg < Len(LoadSegments(img))
    BY <1>1, <1>4, <2>2 DEF CallSucceeds, BeginStage, HdrStage
  <2>3. CASE ~More /\ ~(stage = "load" /\ seg < Len(LoadSegments(img)))
    <3>1. stage' = Following /\ (stage = "readHdr" =>
            FlashHdr' = [buf' EXCEPT ![1] = Rom!IvtHeader(ExecutingAddr(img))])
          /\ (stage # "readHdr" => FlashHdr' = FlashHdr)
      BY <1>4, <2>3 DEF CallSucceeds, BeginStage
    <3>2. stage \notin {"plugin", "start"}
      BY <1>1 DEF Where
    <3>3. QED
      BY <1>1, <3>1, <3>2 DEF Following, AfterLoad, HdrStage, HostTypes, Stages, Running
  <2>4. QED
    BY <2>1, <2>2, <2>3
<1>5. QED
  BY <1>2, <1>3, <1>4 DEF JudgeStep, CmdSent, DataSent, GetHABType, GetDevAck, ReadData,
     ReportFails, HABUnknown, AckRefused, Failed, GoOn

\* SKIP_DCD is acknowledged only by a ROM that supports it.
LEMMA SkipWorks ==
  ASSUME Typed, DcdHost, stage = "skip", GetDevAck
  PROVE  rom.canSkip
<1>1. Job.cmd = "SKIP_DCD"
  BY DEF Job, Rom!Command
<1>2. Ok /\ Report = OkAck
  BY <1>1 DEF GetDevAck, RequiredCmdAck, OkAck
<1>3. readBuf # 0
  BY <1>2 DEF Report, OkAck, Rom!Cell
<1>4. readBuf \in 1..Len(heard)
  <2>1. readBuf \in Nat /\ taken \in Nat /\ sent \in Nat
    BY DEF Typed, Carried, H!TypeOK
  <2>2. QED
    BY <1>3, <2>1 DEF Typed, Carried, H!Ids, WireTypes
<1>5. QED
  BY <1>2, <1>3, <1>4 DEF Report, DcdHost

LEMMA DcdJudgeView ==
  ASSUME Typed, Calls, Early, img.dcd > 0, JudgeStep,
         NEW v \in Views, DcdGood(v), DcdView(v), DcdHost
  PROVE  DcdGood(v)' /\ DcdView(v)'
<1>1. /\ UNCHANGED <<img, rom, mem, said, heard, handled, delivered, pending, writeBuf, sent>> /\ Running
  BY JudgeSteps DEF JudgeStep, Answered, transport
<1>2. \A m, s : (Clean(m)' <=> Clean(m)) /\ (NoFile(m)' <=> NoFile(m)) /\ (Settled(m, s)' <=> Settled(m, s))
  BY <1>1, SameImage
<1>3. DcdGood(v)'
  BY <1>1, <1>2 DEF DcdGood
<1>4. stage # "ecc" /\ Pending' => Settled(v, said[writeBuf])'
  <2>1. Pending' <=> Pending
    BY <1>1 DEF Pending
  <2>2. QED
    BY <1>1, <1>2, <2>1, DcdSettles
<1>5. HostTypes /\ Where /\ img.dcd \in Nat /\ pos \in Nat
  BY ImageType DEF Typed, HostTypes
<1>6. CASE HdrStage
  <2>1. HdrStage' \/ stage' \in {"done", "failed"}
    BY <1>6, NextStage
  <2>2. stage # "ecc"
    BY <1>6 DEF HdrStage
  <2>3. QED
    BY <1>1, <1>3, <1>4, <1>6, <2>1, <2>2 DEF DcdView, HdrStage
<1>7. CASE stage \in CalmStages
  <2>1. CASE /\ UNCHANGED <<stage, seg, pos, FlashHdr>> /\ phase' # "cmd"
             /\ Started /\ Started' /\ Got' = Got /\ Job' = Job
    <3>1. Sync(v)' <=> Sync(v)
      BY <2>1 DEF Sync, Rom!Nothing, Rom!Command
    <3>2. Running' /\ HdrStage' = HdrStage
      BY <1>1, <2>1 DEF Running, HdrStage
    <3>3. QED
      BY <1>1, <1>2, <1>3, <2>1, <3>1, <3>2 DEF DcdView
  <2>2. CASE /\ GetDevAck /\ phase = "ack" /\ CallSucceeds
             /\ Started /\ Got = Job.count /\ ~Started' /\ Got' = 0
    <3>1. Sync(v)'
      BY <2>2 DEF Sync
    <3>2. stage \in {"dcd", "load"} => v.cur.cmd # "DCD_WRITE"
      <4>1. CASE stage = "load"
        BY <4>1 DEF DcdView
      <4>2. CASE stage = "dcd"
        <5>1. Job \in Reports
          BY <1>1, <1>5, JobType
        <5>2. ~(Got < Job.count)
          BY <2>2, <5>1 DEF Reports
        <5>3. v.cur = Rom!Nothing
          BY <2>2, <4>2, <5>2 DEF DcdView, Sync
        <5>4. QED
          BY <5>3, NothingType
      <4>3. QED
        BY <4>1, <4>2
    <3>3. stage = "dcd" => v.dcd = pos + Batch
      BY <1>5, <1>7, <2>2, CalmJobs DEF DcdView
    <3>4. stage = "dcd" => Batch \in 1..(img.dcd - pos) /\ (img.family # "MX50" => Batch = img.dcd /\ pos = 0)
      BY <1>5, BatchType
    <3>5. CASE More
      <4>1. stage' = stage /\ pos' = pos + Batch /\ stage \in {"load", "dcd"}
        BY <2>2, <3>5 DEF CallSucceeds, BeginStage, More
      <4>2. stage = "dcd" => v.dcd = pos' + 0
        BY <1>5, <3>3, <3>4, <4>1
      <4>3. Running' /\ HdrStage' = HdrStage
        BY <1>1, <4>1 DEF Running, HdrStage
      <4>4. QED
        BY <1>1, <1>2, <1>3, <2>2, <3>1, <3>2, <4>1, <4>2, <4>3 DEF DcdView
    <3>6. CASE ~More /\ stage = "load" /\ seg < Len(LoadSegments(img))
      <4>1. stage' = stage
        BY <2>2, <3>6 DEF CallSucceeds, BeginStage
      <4>2. Running' /\ HdrStage' = HdrStage
        BY <1>1, <4>1 DEF Running, HdrStage
      <4>3. QED
        BY <1>1, <1>2, <1>3, <2>2, <3>1, <3>2, <3>6, <4>1, <4>2 DEF DcdView
    <3>7. CASE ~More /\ ~(stage = "load" /\ seg < Len(LoadSegments(img)))
      <4>1. stage' = Following /\ pos' = 0
        BY <2>2, <3>7 DEF CallSucceeds, BeginStage
      <4>2. stage = "dcd" => v.dcd = img.dcd
        <5>1. ASSUME stage = "dcd" PROVE v.dcd = img.dcd
          <6>1. CASE img.family = "MX50"
            <7>1. ~(pos + Batch < img.dcd)
              BY <3>7, <5>1, <6>1 DEF More
            <7>2. QED
              BY <1>5, <3>3, <3>4, <5>1, <7>1
          <6>2. CASE img.family # "MX50"
            BY <1>5, <3>3, <3>4, <5>1, <6>2
          <6>3. QED
            BY <6>1, <6>2
        <5>2. QED
          BY <5>1
      <4>3. img.second = "none" /\ stage \notin {"plugin", "start"}
        BY <1>5, DcdImage DEF Where
      <4>4. stage = "skip" => v.skip
        <5>1. ASSUME stage = "skip" PROVE v.skip
          <6>1. rom.canSkip
            BY <2>2, <5>1, SkipWorks
          <6>2. v.skip = v.can /\ v.can = rom.canSkip
            BY <2>2, <5>1 DEF DcdView, DcdGood
          <6>3. QED
            BY <6>1, <6>2
        <5>2. QED
          BY <5>1
      <4>5. ~Pending'
        BY <1>1, <1>7, <2>2, CalmPending DEF Pending
      <4>6. CASE stage = "ecc"
        <5>1. stage' = "dcd"
          BY <4>1, <4>6 DEF Following
        <5>2. v.dcd = pos' + Got'
          BY <2>2, <4>1, <4>6 DEF DcdView
        <5>3. QED
          BY <1>2, <1>3, <2>2, <3>1, <4>6, <5>1, <5>2 DEF DcdView, HdrStage, Running
      <4>7. CASE stage = "dcd"
        <5>1. stage' = "load"
          BY <4>1, <4>7 DEF Following
        <5>2. QED
          BY <1>1, <1>2, <1>3, <2>2, <3>1, <3>2, <4>2, <4>7, <5>1 DEF DcdView, HdrStage, Running
      <4>8. CASE stage = "load"
        <5>1. stage' \in {"done", "skip"}
          BY <4>1, <4>3, <4>8 DEF Following, AfterLoad
        <5>2. QED
          BY <1>1, <1>2, <1>3, <2>2, <3>1, <3>2, <4>5, <4>8, <5>1 DEF DcdView, HdrStage, Running
      <4>9. CASE stage = "skip"
        <5>1. stage' = "jump"
          BY <4>1, <4>9 DEF Following
        <5>2. QED
          BY <1>1, <1>2, <1>3, <2>2, <4>4, <4>9, <5>1 DEF DcdView, HdrStage, Running
      <4>10. CASE stage = "jump"
        <5>1. stage' = "done"
          BY <4>1, <4>10 DEF Following
        <5>2. QED
          BY <1>1, <1>2, <1>3, <4>5, <5>1 DEF DcdView, HdrStage, Running
      <4>11. QED
        BY <1>7, <4>3, <4>6, <4>7, <4>8, <4>9, <4>10 DEF CalmStages
    <3>8. QED
      BY <3>5, <3>6, <3>7
  <2>3. CASE Failed /\ phase' = "cmd" /\ ~Started' /\ Got' = 0
    <3>1. stage' = AfterFailure /\ pos' = 0
      BY <2>3 DEF Failed, CallFails, BeginStage
    <3>2. CASE stage = "ecc"
      <4>1. stage' = "dcd"
        BY <3>1, <3>2 DEF AfterFailure
      <4>2. Sync(v)'
        BY <2>3 DEF Sync
      <4>3. v.dcd = pos' + Got'
        BY <2>3, <3>1, <3>2 DEF DcdView
      <4>4. QED
        BY <1>1, <1>2, <1>3, <2>3, <3>2, <4>1, <4>2, <4>3 DEF DcdView, HdrStage, Running
    <3>3. CASE stage # "ecc"
      <4>1. stage' = "failed" \/ (stage = "skip" /\ stage' = "readHdr")
        BY <3>1, <3>3 DEF AfterFailure
      <4>2. QED
        BY <1>1, <1>2, <1>3, <1>4, <3>3, <4>1 DEF DcdView, HdrStage, Running
    <3>4. QED
      BY <3>2, <3>3
  <2>4. QED
    BY <1>7, <2>1, <2>2, <2>3, CalmJudge
<1>8. QED
  BY <1>1, <1>5, <1>6, <1>7 DEF HostTypes, Stages, CalmStages, HdrStage, Running

LEMMA Joined ==
  ASSUME NEW s \in Seq(Cells), NEW t \in Seq(Cells), NEW j \in 1..Len(s \o t)
  PROVE  \/ \E k \in 1..Len(s) : (s \o t)[j] = s[k]
         \/ \E k \in 1..Len(t) : (s \o t)[j] = t[k]
<1>1. Len(s) \in Nat /\ Len(t) \in Nat /\ Len(s \o t) = Len(s) + Len(t)
  OBVIOUS
<1>2. CASE j <= Len(s)
  BY <1>1, <1>2
<1>3. CASE ~(j <= Len(s))
  <2>1. j - Len(s) \in 1..Len(t) /\ (s \o t)[j] = t[j - Len(s)]
    BY <1>1, <1>3
  <2>2. QED
    BY <2>1
<1>4. QED
  BY <1>2, <1>3

\* What the ROM answers report r with, besides what it had to answer before.
NewAnswer(c, r) ==
  \/ c # IvtCell /\ c # OkAck
  \/ c = OkAck /\ rom.canSkip
  \/ r.cmd = "RD_MEM" /\ \E i \in 0..(r.count - 1) : c = mem[r.addr + i]

LEMMA HandleAnswers ==
  ASSUME Typed, NEW r \in Reports, Rom!Handle(r), NEW j \in 1..Len(rom'.answers)
  PROVE  \/ \E k \in 1..Len(rom.answers) : rom'.answers[j] = rom.answers[k]
         \/ NewAnswer(rom'.answers[j], r)
<1>1. rom \in RomTypes /\ rom.answers \in Seq(Cells) /\ mem \in [Addresses -> Cells]
  BY DEF Typed, WireTypes, RomTypes
<1>2. \A s : rom' = [rom EXCEPT !.answers = rom.answers \o s] => rom'.answers = rom.answers \o s
  BY <1>1 DEF RomTypes
<1>3. /\ Rom!HAB \in Cells /\ Rom!ErrorAck \in Cells /\ OkAck \in Cells
      /\ Rom!Cell("ROM_WRITE_ACK") \in Cells /\ Rom!Cell("ROM_STATUS_ACK") \in Cells
  BY CellType DEF Rom!HAB, Rom!ErrorAck, OkAck, Whats
<1>4. \A c \in {Rom!HAB, Rom!ErrorAck, Rom!Cell("ROM_WRITE_ACK"), Rom!Cell("ROM_STATUS_ACK")} :
        c \in Cells /\ NewAnswer(c, r)
  BY <1>3 DEF Rom!HAB, Rom!ErrorAck, Rom!Cell, IvtCell, Rom!File, OkAck, NewAnswer
<1>5. ASSUME NEW s \in Seq(Cells), rom'.answers = rom.answers \o s,
             \A k \in 1..Len(s) : NewAnswer(s[k], r)
      PROVE  \/ \E k \in 1..Len(rom.answers) : rom'.answers[j] = rom.answers[k]
             \/ NewAnswer(rom'.answers[j], r)
  <2>1. \/ \E k \in 1..Len(rom.answers) : rom'.answers[j] = rom.answers[k]
        \/ \E k \in 1..Len(s) : rom'.answers[j] = s[k]
    <3>1. j \in 1..Len(rom.answers \o s)
      BY <1>5
    <3>2. \/ \E k \in 1..Len(rom.answers) : (rom.answers \o s)[j] = rom.answers[k]
          \/ \E k \in 1..Len(s) : (rom.answers \o s)[j] = s[k]
      BY <1>1, <3>1, Joined
    <3>3. QED
      BY <1>5, <3>2
  <2>2. QED
    BY <1>5, <2>1
<1>6. CASE rom'.answers = rom.answers
  BY <1>6
<1>7. CASE Rom!ReadMemory(r)
  <2> DEFINE cells == [i \in 1..r.count |-> mem[r.addr + i - 1]]
  <2>1. r.cmd = "RD_MEM" /\ rom'.answers = rom.answers \o (<<Rom!HAB>> \o cells)
    BY <1>2, <1>7 DEF Rom!ReadMemory, Rom!Answer
  <2>2. r.count \in Nat /\ r.addr \in Int
    BY DEF Reports
  <2>3. \A i \in 1..r.count : i - 1 \in 0..(r.count - 1) /\ cells[i] = mem[r.addr + (i - 1)]
                              /\ cells[i] \in Cells
    <3>1. TAKE i \in 1..r.count
    <3>2. i - 1 \in 0..(r.count - 1) /\ r.addr + (i - 1) = r.addr + i - 1
      BY <2>2
    <3>3. r.addr + (i - 1) \in Addresses
      BY <2>1, <3>2 DEF Reports
    <3>4. QED
      BY <1>1, <3>2, <3>3
  <2>4. cells \in Seq(Cells) /\ Len(cells) = r.count
    <3>1. cells \in [1..r.count -> Cells] /\ DOMAIN cells = 1..r.count
      BY <2>3
    <3> HIDE DEF cells
    <3>2. QED
      BY <2>2, <3>1
  <2> HIDE DEF cells
  <2>5. <<Rom!HAB>> \o cells \in Seq(Cells) /\ <<Rom!HAB>> \in Seq(Cells)
        /\ Len(<<Rom!HAB>>) = 1 /\ <<Rom!HAB>>[1] = Rom!HAB
    BY <1>3, <2>4
  <2>6. \A k \in 1..Len(<<Rom!HAB>> \o cells) :
          \/ (<<Rom!HAB>> \o cells)[k] = Rom!HAB
          \/ \E i \in 1..r.count : (<<Rom!HAB>> \o cells)[k] = cells[i]
    <3>1. TAKE k \in 1..Len(<<Rom!HAB>> \o cells)
    <3>2. \/ \E i \in 1..Len(<<Rom!HAB>>) : (<<Rom!HAB>> \o cells)[k] = <<Rom!HAB>>[i]
          \/ \E i \in 1..Len(cells) : (<<Rom!HAB>> \o cells)[k] = cells[i]
      BY <2>4, <2>5, Joined
    <3>3. QED
      BY <2>4, <2>5, <3>2
  <2>7. \A i \in 1..r.count : NewAnswer(cells[i], r)
    BY <2>1, <2>3 DEF NewAnswer
  <2>8. \A k \in 1..Len(<<Rom!HAB>> \o cells) : NewAnswer((<<Rom!HAB>> \o cells)[k], r)
    BY <1>4, <2>6, <2>7
  <2>9. QED
    BY <1>5, <2>1, <2>5, <2>8
<1>8. CASE Rom!SkipDcd(r)
  <2>1. PICK c \in Cells : /\ rom' = [rom EXCEPT !.skip = rom.canSkip, !.answers = rom.answers \o <<Rom!HAB, c>>]
                           /\ c = IF rom.canSkip THEN OkAck ELSE Rom!ErrorAck
    BY <1>3, <1>8 DEF Rom!SkipDcd, Rom!Answer, OkAck
  <2>2. rom'.answers = rom.answers \o <<Rom!HAB, c>> /\ <<Rom!HAB, c>> \in Seq(Cells)
    BY <1>1, <1>3, <2>1 DEF RomTypes
  <2>3. NewAnswer(c, r) /\ NewAnswer(Rom!HAB, r)
    BY <1>4, <2>1 DEF NewAnswer
  <2>4. \A k \in 1..Len(<<Rom!HAB, c>>) : NewAnswer(<<Rom!HAB, c>>[k], r)
    BY <2>3
  <2>5. QED
    BY <1>5, <2>2, <2>4
<1>9. CASE Rom!Receive(r)
  <2> DEFINE done == rom.got + r.count >= rom.cur.count
             dcd  == rom.cur.cmd = "DCD_WRITE"
             good == dcd => \A i \in DOMAIN r.cells : r.cells[i] = Rom!Cell("dcd")
             ack  == IF ~good THEN Rom!ErrorAck
                     ELSE IF dcd THEN Rom!Cell("ROM_WRITE_ACK") ELSE Rom!Cell("ROM_STATUS_ACK")
  <2>0. rom'.answers = IF ~done THEN rom.answers ELSE rom.answers \o <<Rom!HAB, ack>>
    BY <1>1, <1>9 DEF Rom!Receive, Rom!Answer, RomTypes
  <2>1. \/ rom'.answers = rom.answers
        \/ \E c \in {Rom!ErrorAck, Rom!Cell("ROM_WRITE_ACK"), Rom!Cell("ROM_STATUS_ACK")} :
             rom'.answers = rom.answers \o <<Rom!HAB, c>>
    BY <2>0
  <2>2. ASSUME NEW c \in {Rom!ErrorAck, Rom!Cell("ROM_WRITE_ACK"), Rom!Cell("ROM_STATUS_ACK")}
        PROVE  /\ <<Rom!HAB, c>> \in Seq(Cells)
               /\ \A k \in 1..Len(<<Rom!HAB, c>>) : NewAnswer(<<Rom!HAB, c>>[k], r)
    BY <1>3, <1>4
  <2>3. QED
    BY <1>5, <1>6, <2>1, <2>2
<1>10. CASE Rom!JumpToPlugin(r) \/ Rom!JumpToImage(r)
  <2>1. rom'.answers = rom.answers \o <<Rom!HAB>>
    BY <1>1, <1>10 DEF Rom!JumpToPlugin, Rom!JumpToImage, Rom!Answer, RomTypes
  <2>2. <<Rom!HAB>> \in Seq(Cells)
    BY <1>3
  <2>3. QED
    BY <1>4, <1>5, <2>1, <2>2
<1>11. CASE Rom!JumpRefused(r)
  <2>1. rom'.answers = rom.answers \o <<Rom!HAB, Rom!ErrorAck>>
    BY <1>1, <1>11 DEF Rom!JumpRefused, Rom!Answer, RomTypes
  <2>2. <<Rom!HAB, Rom!ErrorAck>> \in Seq(Cells)
    BY <1>3
  <2>3. QED
    BY <1>4, <1>5, <2>1, <2>2
<1>12. CASE Rom!Transfer(r) \/ (r.cmd = "DATA" /\ rom.cur = Rom!Nothing /\ UNCHANGED <<rom, mem>>)
  BY <1>1, <1>6, <1>12 DEF Rom!Transfer, RomTypes
<1>13. QED
  BY <1>7, <1>8, <1>9, <1>10, <1>11, <1>12 DEF Rom!Handle

\* What the host says of the calls of AddIvtHdr.
LEMMA SaysTame ==
  ASSUME Typed, HdrStage, DcdHost, phase \in {"cmd", "data"}
  PROVE  Tame(IF phase = "cmd" THEN Job ELSE SendData)
<1>1. HostTypes /\ Where /\ Running
  BY DEF Typed, HdrStage, Running
<1>2. Job \in Reports
  BY <1>1, JobType
<1>3. CASE phase = "cmd"
  <2>1. Job.cmd \in {"RD_MEM", "WR_FILE", "JUMP"} /\ Job.cells = <<>>
        /\ (Job.cmd = "JUMP" => Job.addr = FlashHdrAddr(img))
    BY DEF HdrStage, Job, Rom!Command
  <2>2. QED
    BY <1>3, <2>1 DEF Tame, NoIvt
<1>4. CASE phase = "data"
  <2>1. stage = "writeHdr" /\ Job.count = HeaderCells /\ at \in Nat /\ HeaderCells \in Nat
    BY <1>1, <1>4, SizesAssumption DEF Where, HasData, HdrStage, Job, Rom!Command, HostTypes
  <2>2. /\ DataCells \in 1..(HeaderCells - at) /\ SendData.cmd = "DATA"
        /\ SendData.cells = [i \in 1..DataCells |-> Content(at + i - 1)]
        /\ SendData \in Reports /\ SendData.count = DataCells
    BY <1>1, <1>4, <2>1, SendDataType
  <2>3. Len(SendData.cells) = DataCells
    BY <2>2 DEF Reports
  <2>4. ASSUME NEW i \in 1..DataCells PROVE Content(at + i - 1) # IvtCell
    <3>1. (at + i - 1) + 1 \in 1..Len(FlashHdr)
      BY <1>1, <2>1, <2>2 DEF Where
    <3>2. FlashHdr[(at + i - 1) + 1] # IvtCell
      BY <1>1, <2>1, <3>1 DEF DcdHost, NoIvt
    <3>3. QED
      BY <2>1, <3>2 DEF Content
  <2>5. QED
    BY <1>4, <2>2, <2>3, <2>4 DEF Tame, NoIvt
<1>5. QED
  BY <1>3, <1>4

LEMMA DcdHostSay ==
  ASSUME Typed, img.dcd > 0, DcdHost, Say \/ Listen
  PROVE  DcdHost'
<1>1. /\ UNCHANGED <<img, rom, mem, stage, phase, seg, pos, at, buf, FlashHdr, heard>>
      /\ ops' = ops + 1 /\ ~asked /\ Running /\ \A k \in 1..ops : said'[k] = said[k]
  BY SayFrame DEF Typed
<1>2. UNCHANGED <<Job, Running, HdrStage>>
  BY <1>1, JobSame DEF HdrStage
<1>3. \A s : (NoIvt(s)' <=> NoIvt(s)) /\ (Tame(s)' <=> Tame(s)) /\ UNCHANGED OkAck
  BY <1>1, SameImage
<1>4. ops \in Nat /\ Len(said) = ops /\ writeBuf \in 0..ops /\ HostTypes /\ Where
      /\ said \in Seq(Reports)
  BY DEF Typed, Carried, H!TypeOK, H!Ids, WireTypes
<1>5. Len(said') = ops + 1
  BY <1>1, <1>4 DEF Say, Listen
<1>6. /\ Say => phase \in {"cmd", "data"} /\ writeBuf' = ops + 1
                /\ said'[ops + 1] = IF phase = "cmd" THEN Job ELSE SendData
      /\ Listen => phase \notin {"cmd", "data"} /\ writeBuf' = writeBuf
                   /\ said'[ops + 1] = Rom!Nothing
  BY <1>1, SayFrame DEF Typed
<1>7. stage = "skip" => /\ writeBuf' > 0 /\ said'[writeBuf'] = Job
  <2> SUFFICES ASSUME stage = "skip" PROVE writeBuf' > 0 /\ said'[writeBuf'] = Job
    OBVIOUS
  <2>1. CASE Say
    <3>1. phase = "cmd"
      BY <1>1, <1>4, <1>6, <2>1, CalmJobs DEF Where, CalmStages
    <3>2. QED
      BY <1>4, <1>6, <2>1, <3>1
  <2>2. CASE Listen
    BY <1>1, <1>4, <1>6, <2>2 DEF DcdHost
  <2>3. QED
    BY <2>1, <2>2
<1>8. HdrStage => writeBuf' > 0 /\ Tame(said'[writeBuf'])
  <2> SUFFICES ASSUME HdrStage PROVE writeBuf' > 0 /\ Tame(said'[writeBuf'])
    OBVIOUS
  <2>1. CASE Say
    BY <1>4, <1>6, <2>1, SaysTame
  <2>2. CASE Listen
    BY <1>1, <1>4, <1>6, <2>2 DEF DcdHost
  <2>3. QED
    BY <2>1, <2>2
<1>9. said'[ops + 1].cmd = "RD_MEM" =>
        /\ stage \notin CalmStages /\ img.family # "MX8"
        /\ said'[ops + 1] = Rom!Command("RD_MEM", FlashHdrAddr(img), HeaderCells)
  <2>1. CASE Say /\ phase = "cmd"
    <3>1. Job.cmd = "RD_MEM" => stage \in {"readHdr", "verifyHdr"}
      BY <1>1 DEF Job, Rom!Command, HostTypes, Stages, Running, Typed
    <3>2. Job.cmd = "RD_MEM" =>
            /\ Job = Rom!Command("RD_MEM", FlashHdrAddr(img), HeaderCells)
            /\ HdrStage /\ stage \notin CalmStages
      BY <3>1 DEF Job, HdrStage, CalmStages
    <3>3. QED
      BY <1>4, <1>6, <2>1, <3>2 DEF Where
  <2>2. CASE Say /\ phase = "data"
    <3>1. SendData.cmd = "DATA"
      BY <1>1, <1>4, <2>2, SendDataType
    <3>2. QED
      BY <1>6, <2>2, <3>1
  <2>3. CASE Listen
    BY <1>6, <2>3, NothingType
  <2>4. QED
    BY <1>6, <2>1, <2>2, <2>3
<1>10. \A k \in 1..Len(said') : said'[k].cmd = "RD_MEM" =>
        /\ stage \notin CalmStages /\ img.family # "MX8"
        /\ said'[k] = Rom!Command("RD_MEM", FlashHdrAddr(img), HeaderCells)
  <2>1. TAKE k \in 1..Len(said')
  <2>2. k = ops + 1 \/ k \in 1..Len(said)
    BY <1>4, <1>5
  <2>3. k \in 1..Len(said) => said'[k] = said[k]
    BY <1>1, <1>4
  <2>4. QED
    BY <1>9, <2>2, <2>3 DEF DcdHost
<1>11. UNCHANGED Rom!Command("RD_MEM", FlashHdrAddr(img), HeaderCells)
  BY <1>1 DEF Rom!Command, FlashHdrAddr, ExecutingAddr
<1>12. QED
  BY <1>1, <1>2, <1>3, <1>7, <1>8, <1>10, <1>11 DEF DcdHost

\* The rest of the steps that are not the host's.
LEMMA DcdHostQuiet ==
  ASSUME Typed, img.dcd > 0, DcdHost, DcdGood(View),
         (Transport /\ ~H!DeviceAccepts) \/ RomHandles \/ RomAnswers \/ Finished \/ UNCHANGED vars,
         RomHandles => /\ said[delivered[handled + 1]] \in Reports /\ handled < Len(delivered)
                       /\ Rom!Handle(said[delivered[handled + 1]]) /\ handled \in Nat
                       /\ rom'.canSkip = rom.canSkip
  PROVE  DcdHost'
<1>1. /\ UNCHANGED <<img, stage, phase, asked, seg, pos, at, buf, FlashHdr, said>>
  BY QuietSteps
<1>2. UNCHANGED writeBuf
  BY <1>1, QuietCall DEF Say, Listen, MayCall
<1>3. UNCHANGED <<Job, Running, HdrStage>>
  BY <1>1, JobSame DEF HdrStage
<1>4. \A s : (NoIvt(s)' <=> NoIvt(s)) /\ (Tame(s)' <=> Tame(s)) /\ UNCHANGED OkAck
  BY <1>1, SameImage
<1>5. UNCHANGED Rom!Command("RD_MEM", FlashHdrAddr(img), HeaderCells)
  BY <1>1 DEF Rom!Command, FlashHdrAddr, ExecutingAddr
<1>6. /\ rom.answers \in Seq(Cells) /\ heard \in Seq(Cells) /\ rom \in RomTypes
  BY DEF Typed, WireTypes, RomTypes
<1>7. /\ rom'.canSkip = rom.canSkip
      /\ Running => NoIvt(heard') /\ NoIvt(rom'.answers)
      /\ stage \in {"ecc", "dcd", "load", "skip"} =>
           /\ \A j \in 1..Len(heard') : heard'[j] = OkAck => rom.canSkip
           /\ \A j \in 1..Len(rom'.answers) : rom'.answers[j] = OkAck => rom.canSkip
  <2>1. CASE RomHandles
    <3> DEFINE r == said[delivered[handled + 1]]
    <3>1. heard' = heard
      BY <2>1 DEF RomHandles
    <3>2. r.cmd = "RD_MEM" =>
            /\ stage \notin CalmStages /\ img.family # "MX8"
            /\ r = Rom!Command("RD_MEM", FlashHdrAddr(img), HeaderCells)
      <4>1. delivered[handled + 1] \in 1..Len(said)
        BY <2>1 DEF Typed, Carried, H!Ids, H!TypeOK, WireTypes
      <4>2. QED
        BY <4>1 DEF DcdHost
    <3>3. r.cmd = "RD_MEM" /\ Running => \A i \in 0..(r.count - 1) : mem[r.addr + i] # IvtCell
      BY <3>2 DEF DcdGood, View, Clean, Rom!Command
    <3>4. Running => NoIvt(rom'.answers)
      <4>1. OkAck # IvtCell
        BY DEF OkAck, IvtCell, Rom!File, Rom!Cell
      <4>2. QED
        <5>1. SUFFICES ASSUME Running, NEW j \in 1..Len(rom'.answers)
                       PROVE  rom'.answers[j] # IvtCell
          BY DEF NoIvt
        <5>2. (\E k \in 1..Len(rom.answers) : rom'.answers[j] = rom.answers[k])
              \/ NewAnswer(rom'.answers[j], r)
          BY <2>1, HandleAnswers
        <5>3. QED
          BY <3>3, <4>1, <5>1, <5>2 DEF DcdHost, NoIvt, NewAnswer
    <3>5. stage \in {"ecc", "dcd", "load", "skip"} => r.cmd # "RD_MEM"
      BY <3>2 DEF CalmStages
    <3>6. stage \in {"ecc", "dcd", "load", "skip"} =>
             \A j \in 1..Len(rom'.answers) : rom'.answers[j] = OkAck => rom.canSkip
      <4>1. OkAck # IvtCell
        BY DEF OkAck, IvtCell, Rom!File, Rom!Cell
      <4>2. QED
        BY SMTT(40), <2>1, <3>5, <4>1, HandleAnswers DEF DcdHost, NewAnswer
    <3>7. QED
      BY <2>1, <3>1, <3>4, <3>6 DEF DcdHost
  <2>2. CASE RomAnswers
    <3>1. /\ heard' = Append(heard, Head(rom.answers)) /\ rom.answers # <<>>
          /\ rom'.answers = Tail(rom.answers) /\ rom'.canSkip = rom.canSkip
      BY <1>6, <2>2 DEF RomAnswers, Rom!SendAnswer, RomTypes
    <3>2. Len(rom.answers) \in Nat \ {0} /\ Head(rom.answers) = rom.answers[1]
      BY <1>6, <3>1
    <3>3. \A j \in 1..Len(rom'.answers) : j + 1 \in 1..Len(rom.answers) /\ rom'.answers[j] = rom.answers[j + 1]
      BY <1>6, <3>1, <3>2
    <3>4. \A j \in 1..Len(heard') : \/ j \in 1..Len(heard) /\ heard'[j] = heard[j]
                                    \/ heard'[j] = rom.answers[1]
      BY <1>6, <3>1, <3>2
    <3>5. 1 \in 1..Len(rom.answers)
      BY <3>2
    <3>6. QED
      BY <3>1, <3>3, <3>4, <3>5 DEF DcdHost, NoIvt
  <2>3. CASE Transport \/ Finished \/ UNCHANGED vars
    <3>1. UNCHANGED <<rom, heard>>
      BY <2>3, TransportFrame DEF Finished, vars, target, wire
    <3>2. QED
      BY <3>1 DEF DcdHost
  <2>4. QED
    BY <2>1, <2>2, <2>3
<1>8. QED
  BY <1>1, <1>2, <1>3, <1>4, <1>5, <1>7 DEF DcdHost

LEMMA DcdHostJudge ==
  ASSUME Typed, img.dcd > 0, DcdHost, JudgeStep
  PROVE  DcdHost'
<1>1. /\ UNCHANGED <<img, rom, mem, said, heard, writeBuf>> /\ Running /\ asked /\ asked' = FALSE
  <2>1. Answered /\ UNCHANGED <<img, rom, mem, said, heard, writeBuf>>
    BY JudgeSteps DEF JudgeStep, transport
  <2>2. asked' = FALSE
    BY DEF JudgeStep, CmdSent, DataSent, GetHABType, GetDevAck, ReadData, ReportFails,
           HABUnknown, AckRefused, Failed, GoOn, CallSucceeds, CallFails, BeginStage
  <2>3. QED
    BY <2>1, <2>2 DEF Answered
<1>2. \A s : (NoIvt(s)' <=> NoIvt(s)) /\ (Tame(s)' <=> Tame(s)) /\ UNCHANGED OkAck
  BY <1>1, SameImage
<1>3. UNCHANGED Rom!Command("RD_MEM", FlashHdrAddr(img), HeaderCells)
  BY <1>1 DEF Rom!Command, FlashHdrAddr, ExecutingAddr
<1>4. HostTypes /\ buf \in Seq(Cells) /\ NoIvt(buf) /\ NoIvt(heard) /\ NoIvt(rom.answers)
      /\ Report \in Cells
  BY <1>1, ReportType DEF DcdHost, Typed, HostTypes
<1>5. stage' = "skip" /\ phase' # "cmd" => writeBuf > 0 /\ said[writeBuf] = Job'
  <2>1. phase' # "cmd" => UNCHANGED <<stage, seg, pos>>
    BY DEF JudgeStep, CmdSent, DataSent, GetHABType, GetDevAck, ReadData, ReportFails,
           HABUnknown, AckRefused, Failed, GoOn, CallSucceeds, CallFails, BeginStage
  <2>2. phase' # "cmd" => Job' = Job
    BY <1>1, <2>1, JobSame
  <2>3. QED
    BY <1>1, <2>1, <2>2 DEF DcdHost
<1>6. HdrStage' => writeBuf > 0 /\ Tame(said[writeBuf])
  <2>1. HdrStage' => HdrStage \/ stage = "skip"
    BY NextStage
  <2>2. stage = "skip" => writeBuf > 0 /\ Tame(said[writeBuf])
    BY <1>1 DEF DcdHost, Job, Rom!Command, Tame, NoIvt
  <2>3. QED
    BY <2>1, <2>2 DEF DcdHost
<1>7. stage' \in CalmStages => stage \in CalmStages
  BY <1>4, Moves
<1>8. NoIvt(buf') /\ buf' \in Seq(Cells)
  <2>1. Report # IvtCell
    <3>1. CASE readBuf = 0
      BY <3>1 DEF Report, Rom!Cell, IvtCell, Rom!File
    <3>2. CASE readBuf # 0
      <4>1. readBuf \in 1..Len(heard)
        <5>1. readBuf \in Nat /\ taken \in Nat /\ sent \in Nat
          BY DEF Typed, Carried, H!TypeOK
        <5>2. QED
          BY <3>2, <5>1 DEF Typed, Carried, H!Ids, WireTypes
      <4>2. QED
        BY <1>4, <3>2, <4>1 DEF Report, NoIvt
    <3>3. QED
      BY <3>1, <3>2
  <2>2. buf' = buf \/ buf' = <<>> \/ buf' = Append(buf, Report)
    BY DEF JudgeStep, CmdSent, DataSent, GetHABType, GetDevAck, ReadData, ReportFails,
           HABUnknown, AckRefused, Failed
  <2>3. NoIvt(Append(buf, Report)) /\ Append(buf, Report) \in Seq(Cells)
    <3>1. \A j \in 1..Len(Append(buf, Report)) :
            (j \in 1..Len(buf) /\ Append(buf, Report)[j] = buf[j]) \/ Append(buf, Report)[j] = Report
      BY <1>4
    <3>2. QED
      BY <1>4, <2>1, <3>1 DEF NoIvt
  <2>4. NoIvt(<<>>) /\ <<>> \in Seq(Cells)
    BY DEF NoIvt
  <2>5. QED
    BY <1>4, <2>2, <2>3, <2>4
<1>9. stage' = "writeHdr" => NoIvt(FlashHdr')
  <2>1. CASE stage = "writeHdr"
    BY <1>1, <2>1, NextStage DEF DcdHost
  <2>2. CASE stage # "writeHdr" /\ stage' = "writeHdr"
    <3> DEFINE c == Rom!IvtHeader(ExecutingAddr(img))
    <3>1. FlashHdr' = [buf' EXCEPT ![1] = c]
      BY <2>2, NextStage
    <3>2. c # IvtCell
      BY DEF Rom!IvtHeader, IvtCell, Rom!File
    <3> HIDE DEF c
    <3>3. Len(FlashHdr') = Len(buf') /\ \A j \in 1..Len(buf') : FlashHdr'[j] \in {buf'[j], c}
      BY <1>8, <3>1
    <3>4. QED
      BY <1>8, <3>2, <3>3 DEF NoIvt
  <2>3. QED
    BY <2>1, <2>2
<1>10. /\ stage' \in {"ecc", "dcd", "load", "skip"} => stage \in {"ecc", "dcd", "load", "skip"}
  BY NextStage
<1>11. QED
  BY <1>1, <1>2, <1>3, <1>4, <1>5, <1>6, <1>7, <1>8, <1>9, <1>10 DEF DcdHost

LEMMA DcdQuiet ==
  ASSUME Typed, img.dcd > 0, NEW R, Chain(R), DInv(R),
         Say \/ Listen \/ (Transport /\ ~H!DeviceAccepts) \/ RomHandles \/ RomAnswers
         \/ Finished \/ UNCHANGED vars
  PROVE  Chain(R)' /\ DInv(R)'
<1>1. /\ UNCHANGED <<img, stage, phase, seg, pos, at, buf, FlashHdr, delivered>>
      /\ UNCHANGED <<Job, Got, Started, Running>> /\ \A v : Sync(v)' = Sync(v)
      /\ \A k \in 1..ops : said'[k] = said[k]
      /\ ~(Say \/ Listen) => (Pending' => Pending) /\ UNCHANGED <<writeBuf, said, ops, asked>>
      /\ Say \/ Listen => Running
  BY QuietCall
<1>2. \A m, s : (Clean(m)' <=> Clean(m)) /\ (NoFile(m)' <=> NoFile(m)) /\ (Settled(m, s)' <=> Settled(m, s))
  BY <1>1, SameImage
<1>3. handled \in Nat /\ Len(delivered) \in Nat /\ handled <= Len(delivered) /\ R[handled] = View
  BY LastType
<1>4. DcdGood(View) /\ DcdHost
  BY <1>3 DEF DInv
<1>5. /\ Chain(R)' /\ Last(R)' = Last(R) /\ rom'.canSkip = rom.canSkip
      /\ handled' \in {handled, handled + 1} /\ DcdHost'
  <2>1. CASE RomHandles
    <3>1. /\ Chain(R)' /\ handled' = handled + 1 /\ handled < Len(delivered) /\ Last(R)' = Last(R)
          /\ rom'.canSkip = rom.canSkip /\ said[delivered[handled + 1]] \in Reports
          /\ Rom!Handle(said[delivered[handled + 1]])
      BY <2>1, ChainHandle
    <3>2. DcdHost'
      BY <1>3, <1>4, <2>1, <3>1, DcdHostQuiet
    <3>3. QED
      BY <3>1, <3>2
  <2>2. CASE ~RomHandles
    <3>1. View' = View /\ handled' = handled /\ rom'.canSkip = rom.canSkip
      <4>1. CASE Say \/ Listen
        BY <4>1, SayFrame DEF Typed, View
      <4>2. CASE RomAnswers
        <5>1. /\ mem' = mem /\ sent' = sent + 1 /\ handled' = handled /\ rom.answers # <<>>
              /\ rom' = [rom EXCEPT !.answers = Tail(rom.answers)]
          BY <4>2, DriverIsDriver DEF RomAnswers, Rom!SendAnswer, H!DeviceSends
        <5>2. rom \in RomTypes /\ rom.answers \in Seq(Cells) /\ sent \in Nat
          BY DEF Typed, WireTypes, RomTypes, Carried, H!TypeOK
        <5>3. rom'.answers = Tail(rom.answers)
          BY <5>1, <5>2 DEF RomTypes
        <5>4. sent' + Len(rom'.answers) = sent + Len(rom.answers)
          BY <5>1, <5>2, <5>3
        <5>5. QED
          BY <5>1, <5>2, <5>4 DEF View, RomTypes
      <4>3. CASE Transport \/ Finished \/ UNCHANGED vars
        BY <4>3, TransportFrame DEF Finished, vars, transport, target, wire, View
      <4>4. QED
        BY <2>2, <4>1, <4>2, <4>3
    <3>2. Chain(R)' /\ Last(R)' = Last(R)
      BY <1>1, <3>1, ChainQuiet
    <3>3. DcdHost'
      <4>1. CASE Say \/ Listen
        BY <1>4, <4>1, DcdHostSay
      <4>2. CASE ~(Say \/ Listen)
        BY <1>4, <2>2, <4>2, DcdHostQuiet
      <4>3. QED
        BY <4>1, <4>2
    <3>4. QED
      BY <3>1, <3>2, <3>3
  <2>3. QED
    BY <2>1, <2>2
<1>6. \A k \in handled'..Len(delivered') : DcdGood(R[k])'
  <2>1. \A k \in handled..Len(delivered) : DcdGood(R[k])
    BY DEF DInv
  <2>2. \A v : DcdGood(v)' <=> DcdGood(v)
    BY <1>1, <1>2, <1>5 DEF DcdGood
  <2>3. QED
    BY <1>1, <1>3, <1>5, <2>1, <2>2
<1>7. DcdView(Last(R))'
  <2>1. ASSUME NEW v, DcdView(v) PROVE DcdView(v)'
    <3>1. UNCHANGED Rom!Nothing
      BY DEF Rom!Nothing, Rom!Command
    <3>2. ~Running' /\ Pending' => Settled(v, said'[writeBuf'])
      BY <1>1, <2>1 DEF DcdView
    <3>3. (~Running /\ Pending => Settled(v, said[writeBuf]))'
      BY <1>2, <3>2
    <3>4. QED
      BY <1>1, <1>2, <2>1, <3>3 DEF DcdView, HdrStage
  <2>2. QED
    BY <1>5, <2>1 DEF DInv
<1>8. QED
  BY <1>5, <1>6, <1>7 DEF DInv

LEMMA DcdJudge ==
  ASSUME Typed, Calls, Early, img.dcd > 0, NEW R, Chain(R), DInv(R), JudgeStep
  PROVE  Chain(R)' /\ DInv(R)'
<1>1. /\ UNCHANGED <<img, rom, mem, said, heard, handled, delivered, sent>>
  BY JudgeSteps DEF JudgeStep, transport
<1>2. View' = View
  BY <1>1 DEF View
<1>3. Chain(R)' /\ Last(R)' = Last(R)
  BY <1>1, <1>2, ChainQuiet
<1>4. \A k \in handled..Len(delivered) : R[k] \in Views /\ DcdGood(R[k])
  BY DEF Chain, DInv
<1>5. Last(R) \in Views /\ DcdView(Last(R)) /\ DcdGood(Last(R)) /\ DcdHost /\ Running
  BY <1>4, LastType, JudgeSteps DEF DInv, Last, JudgeStep, Answered
<1>6. DcdView(Last(R))'
  BY <1>5, DcdJudgeView, <1>3
<1>7. \A k \in handled..Len(delivered) : DcdGood(R[k])'
  <2>1. \A m : (Clean(m)' <=> Clean(m)) /\ (NoFile(m)' <=> NoFile(m))
    BY <1>1, SameImage
  <2>2. QED
    BY <1>1, <1>4, <1>5, <2>1 DEF DcdGood
<1>8. DcdHost'
  BY <1>5, DcdHostJudge
<1>9. QED
  BY <1>1, <1>3, <1>6, <1>7, <1>8 DEF DInv

LEMMA DcdStep ==
  ASSUME Typed, Calls, Early, InLen # OutLen, img.dcd > 0, NEW R, Chain(R), DInv(R), [Next]_vars
  PROVE  \E S : Chain(S)' /\ DInv(S)'
<1>1. CASE Transport /\ H!DeviceAccepts
  BY <1>1, DcdAccept
<1>2. CASE JudgeStep
  BY <1>2, DcdJudge
<1>3. CASE \/ Say \/ Listen \/ (Transport /\ ~H!DeviceAccepts) \/ RomHandles \/ RomAnswers
           \/ Finished \/ UNCHANGED vars
  BY <1>3, DcdQuiet
<1>4. ~PluginReturns
  <2>1. R[handled] = View /\ handled \in Nat /\ handled <= Len(delivered) /\ Len(delivered) \in Nat
    BY LastType
  <2>2. DcdGood(View)
    BY <2>1 DEF DInv
  <2>3. QED
    BY <2>2 DEF DcdGood, View, PluginReturns, Rom!PluginReturns
<1>5. QED
  BY <1>1, <1>2, <1>3, <1>4 DEF Next, HostStep, JudgeStep

LEMMA DcdInit == Init /\ img.dcd > 0 => \E R : Chain(R) /\ DInv(R)
<1> SUFFICES ASSUME Init, img.dcd > 0 PROVE \E R : Chain(R) /\ DInv(R)
  OBVIOUS
<1>1. /\ img \in Images /\ stage = FirstStage /\ phase = "cmd" /\ asked = FALSE
      /\ pos = 0 /\ at = 0 /\ buf = <<>> /\ said = <<>> /\ heard = <<>> /\ handled = 0
      /\ delivered = <<>> /\ pending = {} /\ sent = 0
  BY DEF Init, Hid!Init
<1>2. /\ mem = [a \in Addresses |-> Rom!Cell("junk")] /\ rom.mode = "listening"
      /\ rom.cur = Rom!Nothing /\ rom.dcd = 0 /\ rom.answers = <<>> /\ rom.plugged = FALSE
  BY DEF Init, Rom!Init
<1>3. Typed
  BY CarriedInit, TypesInit DEF Typed
<1>4. View \in Views
  BY <1>3, ViewType DEF Typed
<1>5. stage \in {"ecc", "dcd", "failed"}
  <2>1. img.plugin = 0
    BY <1>3, DcdImage DEF Typed
  <2>2. QED
    BY <1>1, <2>1 DEF FirstStage
<1>6. (stage # "failed" => Running) /\ ~Sent /\ ~Started /\ Got = 0 /\ ~Pending
  BY <1>1, <1>5 DEF Running, Sent, Started, Got, Pending
<1>7. PICK R : R = [k \in {0} |-> View]
  OBVIOUS
<1>8. R[0] = View /\ Len(delivered) = 0
  BY <1>1, <1>7
<1>9. Chain(R)
  BY <1>1, <1>4, <1>8 DEF Chain
<1>10. NoFile(mem)
  BY <1>2 DEF NoFile, Rom!Cell
<1>11. Clean(mem)
  BY <1>2, <1>3, HeaderPlace DEF Clean, Rom!Cell, IvtCell, Rom!File, Typed
<1>12. DcdGood(View)
  BY <1>2, <1>10, <1>11 DEF DcdGood, View
<1>13. DcdView(View)
  BY <1>1, <1>2, <1>5, <1>6, <1>10, NothingType DEF DcdView, View, Sync, HdrStage
<1>14. DcdHost
  BY <1>1, <1>2, <1>5 DEF DcdHost, HdrStage, NoIvt
<1>15. DInv(R)
  BY <1>1, <1>8, <1>12, <1>13, <1>14 DEF DInv, Last
<1>16. QED
  BY <1>9, <1>15

-----------------------------------------------------------------------------
(* Images with a plugin.                                                   *)

\* Of the file, RAM holds nothing but the plugin.
PluginOnly(m) ==
  \A a \in Addresses : m[a].what = "file" =>
     a - img.self \in 0..(img.plugin - 1) /\ m[a] = Rom!File(img.ivt + (a - img.self))

\* A report of the plugin's download or start.
OfPlugin(v, r) ==
  /\ r.cmd \in {"WR_FILE", "DATA", "JUMP"}
  /\ r.cmd = "JUMP" => PluginAt(v, r.addr)
  /\ r.cmd = "DATA" =>
       \/ v.cur = Rom!Nothing
       \/ /\ v.cur.addr = img.self /\ v.cur.cmd # "DCD_WRITE" /\ v.outs = 0
          /\ v.got + Len(r.cells) <= img.plugin
          /\ \A j \in 1..Len(r.cells) : r.cells[j] = Rom!File(img.ivt + v.got + j - 1)

\* Reads that have succeeded: each of these calls needs two.
Reads == CASE stage = "plugin" -> IF phase = "ack" THEN 1 ELSE 0
           [] stage = "start"  -> IF phase = "ack" THEN 3 ELSE 2
           [] OTHER            -> 0

ReadOk == okReads >= Reads + (IF asked /\ pc = "idle" /\ ret.op = "read" /\ Ok THEN 1 ELSE 0)

PluginGood(v) ==
  /\ PluginOnly(v.mem) /\ v.mode \in {"listening", "plugin"}
  /\ v.mode = "listening" => v.outs <= 2

PluginView(v) ==
  /\ stage = "plugin" =>
       /\ v.mode = "listening" /\ Sync(v) /\ v.outs <= 2
       /\ v.outs = 0 \/ (Started /\ Got = Job.count)
       /\ Started /\ Got > 0 => v.mem[img.self] = IvtCell
  /\ stage = "start" => IF Started THEN v.mode = "plugin"
                        ELSE v.mode = "listening" /\ v.mem[img.self] = IvtCell
  /\ stage = "failed" /\ Pending => v.mode = "listening" /\ OfPlugin(v, said[writeBuf])

\* The plugin has not been started, nor anything after it.
Before(R) ==
  /\ rom.mode = "listening" /\ stage \in {"plugin", "start", "failed"} /\ H!Calm
  /\ \A k \in handled..Len(delivered) : PluginGood(R[k])
  /\ \A k \in handled..(Len(delivered) - 1) : R[k].mode = "listening"
  /\ ReadOk
  /\ PluginView(Last(R))

\* The plugin has returned, or runs, or has not been started.
PInv ==
  \/ rom.plugged
  \/ rom.mode = "plugin" /\ handled = Len(delivered) /\ PluginOnly(mem)
  \/ \E R : Chain(R) /\ Before(R)

NoDcd ==
  /\ rom.dcd = 0 /\ rom.cur.cmd # "DCD_WRITE"
  /\ \A k \in 1..Len(said) : said[k].cmd # "DCD_WRITE"

LEMMA PluginImage ==
  ASSUME HostTypes, img.plugin > 0
  PROVE  /\ img.family # "MX8" /\ img.dcd = 0 /\ img.plugin \in Nat /\ img.ivt \in Nat
         /\ img.self \in Addresses /\ img.self \in Nat
BY ImageType DEF HostTypes, LaidOut

LEMMA SamePlugin ==
  ASSUME img' = img
  PROVE  /\ \A m : PluginOnly(m)' <=> PluginOnly(m)
         /\ \A v, a : PluginAt(v, a)' <=> PluginAt(v, a)
         /\ \A v, r : OfPlugin(v, r)' <=> OfPlugin(v, r)
         /\ \A v : PluginGood(v)' <=> PluginGood(v)
BY DEF PluginOnly, PluginAt, OfPlugin, PluginGood, IvtCell, Rom!File, Rom!Nothing, Rom!Command

\* A report of the plugin's download does not put anything else in RAM.
LEMMA OfPluginAfter ==
  ASSUME HostTypes, img.plugin > 0, NEW v \in Views, NEW r \in Reports, v.mode = "listening",
         PluginGood(v), OfPlugin(v, r), NEW w \in Views, w = After(v, r)
  PROVE  PluginGood(w)
<1>1. /\ img.plugin \in Nat /\ img.ivt \in Nat /\ img.self \in Nat
  BY PluginImage
<1>2. CASE r.cmd = "WR_FILE" \/ (r.cmd = "DATA" /\ v.cur = Rom!Nothing)
  BY <1>2, AfterCommand DEF PluginGood
<1>3. CASE r.cmd = "JUMP"
  BY <1>3, AfterJumps DEF PluginGood, OfPlugin
<1>4. CASE r.cmd = "DATA" /\ v.cur # Rom!Nothing
  <2>1. /\ v.cur.addr = img.self /\ v.cur.cmd # "DCD_WRITE" /\ v.outs = 0
        /\ v.got + Len(r.cells) <= img.plugin
        /\ \A j \in 1..Len(r.cells) : r.cells[j] = Rom!File(img.ivt + v.got + j - 1)
        /\ r.count = Len(r.cells) /\ r.count \in Nat /\ v.got \in Nat
    BY <1>4 DEF OfPlugin, Reports, Views
  <2>2. /\ w.mode = "listening" /\ w.outs \in {v.outs, v.outs + 2}
        /\ \A a \in Addresses : w.mem[a] =
             IF a - (img.self + v.got) \in 0..(r.count - 1)
             THEN r.cells[a - (img.self + v.got) + 1] ELSE v.mem[a]
    BY <1>4, <2>1, AfterReceive
  <2>3. ASSUME NEW a \in Addresses, a - (img.self + v.got) \in 0..(r.count - 1)
        PROVE  /\ a - img.self \in 0..(img.plugin - 1)
               /\ r.cells[a - (img.self + v.got) + 1] = Rom!File(img.ivt + (a - img.self))
    <3>1. a \in Int
      BY SizesAssumption
    <3>2. PICK j \in 1..Len(r.cells) : j = a - (img.self + v.got) + 1
      BY SMTT(40), <1>1, <2>1, <2>3, <3>1
    <3>3. img.ivt + v.got + j - 1 = img.ivt + (a - img.self) /\ a - img.self = v.got + j - 1
      <4>1. /\ img.ivt \in Int /\ img.self \in Int /\ v.got \in Int /\ j \in Int /\ a \in Int
            /\ j = a - (img.self + v.got) + 1
        BY <1>1, <2>1, <3>1, <3>2
      <4>2. QED
        BY <4>1
    <3>4. v.got + j - 1 \in 0..(img.plugin - 1)
      BY SMTT(30), <1>1, <2>1, <3>2
    <3>5. r.cells[j] = Rom!File(img.ivt + v.got + j - 1)
      BY <2>1, <3>2
    <3>6. QED
      BY <3>2, <3>3, <3>4, <3>5
  <2>4. PluginOnly(w.mem)
    BY <2>2, <2>3 DEF PluginOnly, PluginGood
  <2>5. w.outs <= 2
    BY <2>1, <2>2
  <2>6. QED
    BY <2>2, <2>4, <2>5 DEF PluginGood
<1>5. QED
  BY <1>2, <1>3, <1>4 DEF OfPlugin

\* What is in flight while the plugin is downloaded or started belongs to that.
LEMMA PluginSays ==
  ASSUME Typed, Calls, Early, img.plugin > 0, stage \in {"plugin", "start"}, Pending,
         NEW v \in Views, PluginView(v)
  PROVE  v.mode = "listening" /\ OfPlugin(v, said[writeBuf])
<1> DEFINE r == said[writeBuf]
<1>1. /\ phase \in {"cmd", "data"} /\ r = IF phase = "cmd" THEN Job ELSE SendData
      /\ Got = IF phase = "cmd" THEN 0 ELSE at
      /\ (Started <=> phase = "data") /\ stage \in CalmStages
  BY CalmPending DEF CalmStages
<1>2. HostTypes /\ Where /\ Running /\ at \in Nat
  BY <1>1, CalmJobs DEF Typed, HostTypes
<1>3. CASE stage = "start"
  <2>1. Job.cmd = "JUMP" /\ Job.addr = img.self /\ ~HasData
    BY <1>1, <1>2, <1>3, CalmJobs
  <2>2. phase = "cmd" /\ ~Started
    BY <1>1, <1>2, <2>1 DEF Where
  <2>3. v.mode = "listening" /\ v.mem[img.self] = IvtCell
    BY <1>3, <2>2 DEF PluginView
  <2>4. QED
    BY <1>1, <2>1, <2>2, <2>3 DEF OfPlugin, PluginAt
<1>4. CASE stage = "plugin"
  <2>1. Job.cmd = "WR_FILE" /\ Job.addr = img.self /\ Job.count = img.plugin /\ v.mode = "listening"
        /\ Sync(v) /\ (v.outs = 0 \/ (Started /\ Got = Job.count))
    BY <1>1, <1>2, <1>4, CalmJobs DEF PluginView
  <2>2. CASE phase = "cmd"
    BY <1>1, <2>1, <2>2 DEF OfPlugin
  <2>3. CASE phase = "data"
    <3>1. /\ DataCells \in 1..(Job.count - at) /\ SendData \in Reports /\ SendData.cmd = "DATA"
          /\ SendData.count = DataCells /\ at < Job.count /\ img.plugin \in Nat
          /\ SendData.cells = [i \in 1..DataCells |-> Content(at + i - 1)]
      BY <1>2, <2>3, SendDataType, PluginImage DEF Where
    <3>2. v.got = at /\ v.cur = Job /\ v.outs = 0
      BY <1>1, <1>2, <2>1, <2>3, <3>1 DEF Sync
    <3>3. Len(SendData.cells) = DataCells /\ DataCells \in Nat /\ v.got + DataCells <= img.plugin
      <4>1. Len(SendData.cells) = DataCells
        BY <3>1 DEF Reports
      <4>2. QED
        BY <1>2, <2>1, <3>1, <3>2, <4>1
    <3>4. \A j \in 1..DataCells : SendData.cells[j] = Rom!File(img.ivt + v.got + j - 1)
      <4>1. TAKE j \in 1..DataCells
      <4>2. SendData.cells[j] = Rom!File(img.ivt + (at + j - 1))
        BY <1>4, <3>1 DEF Content
      <4>3. img.ivt + (at + j - 1) = img.ivt + v.got + j - 1
        <5>1. img.ivt \in Nat /\ at \in Nat /\ j \in Int
          BY <1>2, <3>3, PluginImage
        <5>2. QED
          BY <3>2, <5>1
      <4>4. QED
        BY <4>2, <4>3
    <3>5. QED
      BY <1>1, <2>1, <2>3, <3>1, <3>2, <3>3, <3>4 DEF OfPlugin
  <2>4. QED
    BY <1>1, <2>2, <2>3
<1>5. QED
  BY <1>3, <1>4

LEMMA PluginAccept ==
  ASSUME Typed, Calls, Early, InLen # OutLen, img.plugin > 0, NEW R, Chain(R), Before(R),
         Transport, H!DeviceAccepts
  PROVE  \E S : Chain(S)' /\ Before(S)'
<1> DEFINE n == Len(delivered)
           v == Last(R)
           r == said[writeBuf]
<1>1. PICK S : /\ Chain(S)' /\ Len(delivered') = n + 1
               /\ \A k \in handled..n : S[k] = R[k]
               /\ Last(S)' = S[n + 1] /\ S[n + 1] = After(v, r)
               /\ writeBuf \in 1..ops /\ r \in Reports /\ Pending
  BY ChainAccept
<1>2. UNCHANGED <<img, rom, mem, stage, phase, asked, seg, pos, at, buf, FlashHdr, said, writeBuf,
                  heard, handled, sent, okReads, pc, ret, ops>>
  BY EndPending
<1>3. /\ v \in Views /\ handled \in Nat /\ n \in Nat /\ handled <= n /\ PluginGood(v)
      /\ PluginView(v) /\ HostTypes /\ Where
  BY LastType DEF Before, Last, Typed
<1>4. PICK w \in Views : w = After(v, r)
  BY <1>1, <1>3, AfterType
<1>5. v.mode = "listening" /\ OfPlugin(v, r)
  <2>1. CASE stage \in {"plugin", "start"}
    BY <1>1, <1>3, <2>1, PluginSays
  <2>2. CASE stage = "failed"
    BY <1>1, <1>3, <2>2 DEF PluginView
  <2>3. QED
    BY <2>1, <2>2 DEF Before
<1>6. PluginGood(w)
  BY <1>1, <1>3, <1>4, <1>5, OfPluginAfter
<1>7. H!Calm' /\ ~Pending'
  <2>1. [Next]_vars /\ ~H!Call
    BY TransportCalls DEF Next, Typed
  <2>2. /\ H!TypeOK /\ H!Shape /\ H!Credit /\ H!Ids /\ [H!Next]_(H!vars)
    BY <2>1, TransportSteps DEF Typed, Carried, H!CreditInv
  <2>3. H!Calm'
    BY <2>1, <2>2, H!CalmStep, HidAssumptions DEF Before
  <2>4. writeBuf = ops
    BY <1>1 DEF Before, H!Calm, Pending
  <2>5. H!Delivered'
    <3>1. delivered \in Seq(Nat) /\ writeBuf \in Nat /\ delivered' = Append(delivered, writeBuf)
      BY DEF Typed, Carried, H!TypeOK, H!DeviceAccepts
    <3>2. QED
      BY <1>2, <2>4, <3>1 DEF H!Delivered
  <2>6. QED
    BY <2>3, <2>5 DEF H!Calm, Pending
<1>8. PluginView(w)'
  <2>1. CASE stage = "failed"
    BY <1>2, <1>7, <2>1 DEF PluginView
  <2>2. CASE stage \in {"plugin", "start"}
    <3>0. stage \in CalmStages
      BY <2>2 DEF CalmStages
    <3>1. /\ phase \in {"cmd", "data"} /\ Started' /\ ~Sent
          /\ r = IF phase = "cmd" THEN Job ELSE SendData
          /\ Got = IF phase = "cmd" THEN 0 ELSE at
          /\ Got' = IF phase = "cmd" THEN 0 ELSE at + DataCells
          /\ UNCHANGED Job /\ Running
      BY <3>0, CalmAccept
    <3>2. CASE stage = "start"
      <4>1. Job.cmd = "JUMP" /\ Job.addr = img.self /\ ~HasData
        BY <1>3, <3>0, <3>2, CalmJobs
      <4>2. phase = "cmd"
        BY <1>3, <3>1, <4>1 DEF Where
      <4>3. w.mode = "plugin"
        BY <1>1, <1>3, <1>4, <1>5, <3>1, <4>1, <4>2, AfterJumps DEF OfPlugin
      <4>4. QED
        BY <1>2, <3>1, <3>2, <4>3 DEF PluginView
    <3>3. CASE stage = "plugin"
      <4>1. /\ Job.cmd = "WR_FILE" /\ Job.addr = img.self /\ Job.count = img.plugin /\ HasData
            /\ Sync(v) /\ img.plugin \in Nat /\ img.self \in Nat /\ img.self \in Addresses
            /\ v.outs = 0 \/ (Started /\ Got = Job.count)
            /\ Started /\ Got > 0 => v.mem[img.self] = IvtCell
        BY <1>3, <3>0, <3>3, CalmJobs, PluginImage DEF PluginView
      <4>2. Sync(w)' /\ (phase = "data" => v.cur = Job /\ v.got = at /\ v.cur # Rom!Nothing)
        BY <1>3, <1>4, <1>5, <3>0, <4>1, SyncAccept
      <4>3. UNCHANGED IvtCell
        BY <1>2 DEF IvtCell, Rom!File
      <4>4. CASE phase = "cmd"
        <5>1. w.mode = "listening" /\ w.outs = v.outs
          BY <1>1, <1>3, <1>4, <1>5, <3>1, <4>1, <4>4, AfterCommand
        <5>2. ~Started
          BY <3>1, <4>4 DEF Started
        <5>3. QED
          BY <1>2, <3>1, <3>3, <4>1, <4>2, <4>4, <5>1, <5>2 DEF PluginView
      <4>5. CASE phase = "data"
        <5>1. /\ DataCells \in 1..(Job.count - at) /\ SendData \in Reports /\ SendData.cmd = "DATA"
              /\ SendData.count = DataCells /\ at \in Nat /\ at < Job.count /\ DataCells \in Nat
              /\ SendData.cells = [i \in 1..DataCells |-> Content(at + i - 1)]
          <6>1. /\ DataCells \in 1..(Job.count - at) /\ SendData \in Reports /\ SendData.cmd = "DATA"
                /\ SendData.count = DataCells /\ at \in Nat /\ at < Job.count
                /\ SendData.cells = [i \in 1..DataCells |-> Content(at + i - 1)]
            BY <1>3, <3>1, <4>5, SendDataType DEF Where, HostTypes
          <6>2. QED
            BY <4>1, <6>1
        <5>2. v.outs = 0 /\ Started
          BY <3>1, <4>1, <4>5, <5>1 DEF Started
        <5>3. /\ w.mode = "listening"
              /\ w.outs = IF at + DataCells >= Job.count THEN 2 ELSE 0
              /\ \A a \in Addresses : w.mem[a] =
                   IF a - (img.self + at) \in 0..(DataCells - 1)
                   THEN SendData.cells[a - (img.self + at) + 1] ELSE v.mem[a]
          <6>1. /\ w.mode = v.mode
                /\ w.outs = IF v.got + r.count >= v.cur.count THEN v.outs + 2 ELSE v.outs
                /\ v.cur.cmd # "DCD_WRITE" => \A a \in Addresses : w.mem[a] =
                     IF a - (v.cur.addr + v.got) \in 0..(r.count - 1)
                     THEN r.cells[a - (v.cur.addr + v.got) + 1] ELSE v.mem[a]
            <7>1. r.cmd = "DATA" /\ v.cur # Rom!Nothing
              BY <3>1, <4>2, <4>5, <5>1
            <7>2. QED
              BY <1>1, <1>3, <1>4, <1>5, <7>1, AfterReceive
          <6>2. r = SendData /\ v.cur = Job /\ v.got = at /\ r.count = DataCells /\ v.outs + 2 = 2
            BY <3>1, <4>2, <4>5, <5>1, <5>2
          <6>3. QED
            BY <1>5, <4>1, <5>2, <6>1, <6>2
        <5>4. w.outs = 0 \/ Got' = Job.count
          <6>1. Got' = at + DataCells /\ Job.count \in Nat
            BY <3>1, <4>1, <4>5
          <6>2. at + DataCells <= Job.count
            BY <5>1, <6>1
          <6>3. CASE at + DataCells >= Job.count
            BY <5>1, <6>1, <6>2, <6>3
          <6>4. CASE ~(at + DataCells >= Job.count)
            BY <5>3, <6>4
          <6>5. QED
            BY <6>3, <6>4
        <5>5. w.mem[img.self] = IvtCell
          <6>1. CASE at = 0
            <7>1. img.self - (img.self + at) = 0 /\ 0 \in 0..(DataCells - 1) /\ 0 + 1 \in 1..DataCells
              BY <4>1, <5>1, <6>1
            <7>2. w.mem[img.self] = SendData.cells[0 + 1]
              BY <4>1, <5>3, <7>1
            <7>3. SendData.cells[0 + 1] = Content(at + 1 - 1) /\ at + 1 - 1 = 0
              BY <5>1, <6>1, <7>1
            <7>4. Content(0) = Rom!File(img.ivt + 0) /\ img.ivt + 0 = img.ivt
              BY <1>3, <3>3, PluginImage DEF Content
            <7>5. QED
              BY <7>2, <7>3, <7>4 DEF IvtCell
          <6>2. CASE at # 0
            <7>1. img.self - (img.self + at) \notin 0..(DataCells - 1)
              BY <4>1, <5>1, <6>2
            <7>2. Got > 0
              BY <3>1, <4>5, <5>1, <6>2
            <7>3. QED
              BY <4>1, <5>2, <5>3, <7>1, <7>2
          <6>3. QED
            BY <6>1, <6>2
        <5>6. QED
          BY <1>2, <3>1, <3>3, <4>1, <4>2, <4>3, <5>3, <5>4, <5>5 DEF PluginView
      <4>6. QED
        BY <3>1, <4>4, <4>5
    <3>4. QED
      BY <2>2, <3>2, <3>3
  <2>3. QED
    BY <2>1, <2>2 DEF Before
<1>9. \A k \in handled..(n + 1) : PluginGood(S[k])
  BY <1>1, <1>3, <1>4, <1>6 DEF Before
<1>10. \A k \in handled..n : S[k].mode = "listening"
  <2>1. TAKE k \in handled..n
  <2>2. CASE k = n
    BY <1>1, <1>3, <1>5, <2>2 DEF Last
  <2>3. CASE k # n
    BY <1>1, <1>3, <2>3 DEF Before
  <2>4. QED
    BY <2>2, <2>3
<1>11. ReadOk'
  <2>1. Reads' = Reads
    BY <1>2 DEF Reads
  <2>2. QED
    BY <1>2, <2>1 DEF Before, ReadOk, Ok
<1>12. \A k \in handled..(n + 1) : PluginGood(S[k])'
  BY <1>2, <1>9, SamePlugin
<1>13. (n + 1) - 1 = n
  BY <1>3
<1>14. Before(S)'
  BY <1>1, <1>2, <1>4, <1>7, <1>8, <1>10, <1>11, <1>12, <1>13 DEF Before
<1>15. QED
  BY <1>1, <1>14

LEMMA PluginQuiet ==
  ASSUME Typed, Calls, Early, InLen # OutLen, img.plugin > 0, NEW R, Chain(R), Before(R),
         Say \/ Listen \/ (Transport /\ ~H!DeviceAccepts) \/ RomHandles \/ RomAnswers
         \/ Finished \/ UNCHANGED vars
  PROVE  PInv'
<1>1. /\ UNCHANGED <<img, stage, phase, seg, pos, at, buf, FlashHdr, delivered>>
      /\ UNCHANGED <<Job, Got, Started, Running>> /\ \A v : Sync(v)' = Sync(v)
      /\ \A k \in 1..ops : said'[k] = said[k]
      /\ ~(Say \/ Listen) => (Pending' => Pending) /\ UNCHANGED <<writeBuf, said, ops, asked>>
      /\ Say \/ Listen => Running
  BY QuietCall
<1>2. handled \in Nat /\ Len(delivered) \in Nat /\ handled <= Len(delivered) /\ R[handled] = View
  BY LastType
<1>3. /\ Chain(R)' /\ Last(R)' = Last(R) /\ handled' \in {handled, handled + 1}
      /\ handled' <= Len(delivered) /\ View' = R[handled']
  <2>1. CASE RomHandles
    BY <1>2, <2>1, ChainHandle
  <2>2. CASE ~RomHandles
    <3>1. View' = View /\ handled' = handled
      <4>1. CASE Say \/ Listen
        BY <4>1, SayFrame DEF Typed, View
      <4>2. CASE RomAnswers
        <5>1. /\ mem' = mem /\ sent' = sent + 1 /\ handled' = handled /\ rom.answers # <<>>
              /\ rom' = [rom EXCEPT !.answers = Tail(rom.answers)]
          BY <4>2, DriverIsDriver DEF RomAnswers, Rom!SendAnswer, H!DeviceSends
        <5>2. rom \in RomTypes /\ rom.answers \in Seq(Cells) /\ sent \in Nat
          BY DEF Typed, WireTypes, RomTypes, Carried, H!TypeOK
        <5>3. rom'.answers = Tail(rom.answers)
          BY <5>1, <5>2 DEF RomTypes
        <5>4. sent' + Len(rom'.answers) = sent + Len(rom.answers)
          BY <5>1, <5>2, <5>3
        <5>5. QED
          BY <5>1, <5>2, <5>4 DEF View, RomTypes
      <4>3. CASE Transport \/ Finished \/ UNCHANGED vars
        BY <4>3, TransportFrame DEF Finished, vars, transport, target, wire, View
      <4>4. QED
        BY <2>2, <4>1, <4>2, <4>3
    <3>2. Chain(R)' /\ Last(R)' = Last(R)
      BY <1>1, <3>1, ChainQuiet
    <3>3. QED
      BY <1>2, <3>1, <3>2
  <2>3. QED
    BY <2>1, <2>2
<1>4. \A k \in handled'..Len(delivered) : PluginGood(R[k])'
  BY <1>1, <1>2, <1>3, SamePlugin DEF Before
<1>5. \A k \in handled'..(Len(delivered) - 1) : R[k].mode = "listening"
  BY <1>2, <1>3 DEF Before
<1>6. H!Calm'
  <2>1. CASE Say \/ Listen \/ Transport
    <3>1. [Next]_vars
      BY <2>1 DEF Next, HostStep
    <3>2. /\ H!TypeOK /\ H!Shape /\ H!Credit /\ H!Ids /\ [H!Next]_(H!vars)
      BY <3>1, TransportSteps DEF Typed, Carried, H!CreditInv
    <3>3. H!Call => H!Free
      <4>1. CASE Say \/ Listen
        <5>1. stage \in CalmStages /\ ~asked
          BY <1>1, <4>1, SayFrame DEF Before, CalmStages, Running, Typed
        <5>2. QED
          BY <5>1, FreeToCall DEF Typed
      <4>2. CASE Transport
        BY <4>2, TransportCalls DEF Typed
      <4>3. QED
        BY <2>1, <4>1, <4>2
    <3>4. QED
      BY <3>2, <3>3, H!CalmStep, HidAssumptions DEF Before
  <2>2. CASE RomHandles \/ RomAnswers \/ Finished \/ UNCHANGED vars
    BY <2>2, RomFrame DEF Before, H!Calm, H!Busy, H!Delivered
  <2>3. QED
    BY <2>1, <2>2
<1>7. ReadOk'
  <2>1. Reads' = Reads /\ Reads \in Nat
    BY <1>1 DEF Reads
  <2>2. okReads \in Nat /\ okReads' \in Nat
    <3>1. [Next]_vars
      BY DEF Next, HostStep
    <3>2. Carried'
      BY <3>1, CarriedStep DEF Typed
    <3>3. QED
      BY <3>2 DEF Typed, Carried, H!TypeOK
  <2>3. CASE Say \/ Listen
    <3>1. okReads' = okReads /\ (pc' = "idle" /\ ret'.op = "read" => ~Ok') /\ ~asked
      BY <2>3, SayFrame DEF Ok, Typed
    <3>2. QED
      BY <2>1, <2>2, <3>1 DEF Before, ReadOk
  <2>4. CASE Transport
    <3>1. asked' = asked /\ pc \in {"idle", "waitWrite", "waitRead", "cancelRead"}
      BY <2>4, QuietSteps DEF Typed, Carried, H!TypeOK
    <3>2. CASE pc = "idle"
      BY <2>1, <2>4, <3>1, <3>2, TransportCalls DEF Before, ReadOk, Ok, Typed
    <3>3. CASE pc = "waitWrite"
      BY <2>1, <2>2, <2>4, <3>1, <3>3, TransportCalls DEF Before, ReadOk, Ok, Typed
    <3>4. CASE pc \in {"waitRead", "cancelRead"}
      <4>1. okReads >= Reads
        BY <2>1, <2>2, <3>4 DEF Before, ReadOk
      <4>2. CASE pc' = "idle"
        BY <2>1, <2>2, <2>4, <3>1, <3>4, <4>1, <4>2, TransportCalls DEF ReadOk, Ok, Typed
      <4>3. CASE pc' # "idle"
        BY <2>1, <2>2, <2>4, <3>1, <3>4, <4>1, <4>3, TransportCalls DEF ReadOk, Ok, Typed
      <4>4. QED
        BY <4>2, <4>3
    <3>5. QED
      BY <3>1, <3>2, <3>3, <3>4
  <2>5. CASE RomHandles \/ RomAnswers \/ Finished \/ UNCHANGED vars
    <3>1. UNCHANGED <<okReads, asked, pc, ret>>
      BY <2>5, RomFrame, QuietSteps
    <3>2. QED
      BY <2>1, <3>1 DEF Before, ReadOk, Ok
  <2>6. QED
    BY <2>3, <2>4, <2>5
<1>8. PluginView(Last(R))'
  <2>1. \A v, r : OfPlugin(v, r)' <=> OfPlugin(v, r)
    BY <1>1, SamePlugin
  <2>2. UNCHANGED IvtCell
    BY <1>1 DEF IvtCell, Rom!File
  <2>3. ASSUME NEW v, PluginView(v) PROVE PluginView(v)'
    <3>1. stage = "failed" /\ Pending' => v.mode = "listening" /\ OfPlugin(v, said'[writeBuf'])
      BY <1>1, <2>3 DEF PluginView, Running
    <3>2. (stage = "failed" /\ Pending => v.mode = "listening" /\ OfPlugin(v, said[writeBuf]))'
      BY <1>1, <2>1, <3>1
    <3>3. QED
      BY <1>1, <2>2, <2>3, <3>2 DEF PluginView
  <2>4. QED
    BY <1>3, <2>3 DEF Before
<1>9. rom'.mode = R[handled'].mode /\ mem' = R[handled'].mem
  BY <1>3 DEF View
<1>10. CASE R[handled'].mode = "listening"
  <2>1. Before(R)'
    BY <1>1, <1>4, <1>5, <1>6, <1>7, <1>8, <1>9, <1>10 DEF Before
  <2>2. QED
    BY <1>3, <2>1 DEF PInv
<1>11. CASE R[handled'].mode # "listening"
  <2>1. handled' = Len(delivered)
    BY <1>2, <1>3, <1>5, <1>11
  <2>2. PluginGood(R[handled'])
    BY <1>2, <1>3 DEF Before
  <2>3. rom'.mode = "plugin" /\ PluginOnly(mem')
    BY <1>9, <1>11, <2>2 DEF PluginGood
  <2>4. PluginOnly(mem)'
    BY <1>1, <2>3, SamePlugin
  <2>5. QED
    BY <1>1, <2>1, <2>3, <2>4 DEF PInv
<1>12. QED
  BY <1>10, <1>11

LEMMA PluginJudge ==
  ASSUME Typed, Calls, Early, InLen # OutLen, img.plugin > 0, NEW R, Chain(R), Before(R),
         JudgeStep
  PROVE  Chain(R)' /\ Before(R)'
<1> PICK v : v = Last(R)
  OBVIOUS
<1>0. HostTypes /\ Where /\ Running /\ stage \in {"plugin", "start"} /\ stage \in CalmStages
      /\ pc = "idle" /\ asked
  BY JudgeSteps DEF JudgeStep, Answered, Before, Running, CalmStages, Typed
<1>1. /\ UNCHANGED <<img, rom, mem, said, heard, handled, delivered, pending, writeBuf, sent, ops,
                     okReads, pc, ret>>
      /\ UNCHANGED apcs /\ asked' = FALSE
  <2>1. UNCHANGED apcs
    BY JudgeSteps DEF JudgeStep, transport
  <2>2. asked' = FALSE
    BY DEF JudgeStep, CmdSent, DataSent, GetHABType, GetDevAck, ReadData, ReportFails,
           HABUnknown, AckRefused, Failed, GoOn, CallSucceeds, CallFails, BeginStage
  <2>3. QED
    BY <1>0, <2>1, <2>2, CalmJudge
<1>2. View' = View
  BY <1>1 DEF View
<1>3. Chain(R)' /\ Last(R)' = v
  BY <1>1, <1>2, ChainQuiet
<1>4. /\ v \in Views /\ handled \in Nat /\ Len(delivered) \in Nat /\ handled <= Len(delivered)
      /\ PluginView(v) /\ R[handled] = View
  BY LastType DEF Before, Last
<1>5. /\ \A m, r : OfPlugin(m, r)' <=> OfPlugin(m, r)
      /\ \A m : PluginGood(m)' <=> PluginGood(m)
      /\ UNCHANGED <<IvtCell, Rom!Nothing>>
  BY <1>1, SamePlugin DEF IvtCell, Rom!File, Rom!Nothing, Rom!Command
<1>6. H!Calm'
  BY <1>1 DEF Before, H!Calm, H!Busy, H!Delivered
<1>7. /\ okReads \in Nat /\ Reads \in Nat
      /\ okReads >= Reads
      /\ phase \in {"hab", "ack"} /\ Ok => okReads >= Reads + 1
  <2>1. okReads \in Nat /\ Reads \in Nat
    BY DEF Typed, Carried, H!TypeOK, Reads
  <2>2. phase \in {"hab", "ack"} => ret.op = "read"
    BY <1>0 DEF Calls
  <2>3. QED
    BY <1>0, <2>1, <2>2 DEF Before, ReadOk
<1>8. ~(stage = "start" /\ phase = "ack")
  <2> SUFFICES ASSUME stage = "start", phase = "ack" PROVE FALSE
    OBVIOUS
  <2>1. okReads >= 3
    BY <1>7 DEF Reads
  <2>2. okReads <= taken /\ taken <= sent /\ taken \in Nat /\ sent \in Nat
    BY DEF Typed, Carried, H!CreditInv, H!Credit, H!Ids, H!TypeOK
  <2>3. View.mode = "listening" /\ PluginGood(View)
    BY <1>4 DEF Before, View
  <2>4. sent + Len(rom.answers) <= 2
    BY <2>3 DEF PluginGood, View
  <2>5. Len(rom.answers) \in Nat
    BY DEF Typed, WireTypes, RomTypes
  <2>6. QED
    BY <1>7, <2>1, <2>2, <2>4, <2>5
<1>9. \/ /\ UNCHANGED <<stage, seg, pos, FlashHdr>> /\ phase' # "cmd" /\ Ok
         /\ Started /\ Started' /\ Got' = Got /\ Job' = Job
         /\ phase' = "ack" => phase = "hab"
      \/ /\ GetDevAck /\ phase = "ack" /\ CallSucceeds
         /\ Started /\ Got = Job.count /\ phase' = "cmd" /\ ~Started' /\ Got' = 0
      \/ Failed /\ phase' = "cmd" /\ ~Started' /\ Got' = 0
  BY <1>0, CalmJudge
<1>10. CASE /\ UNCHANGED <<stage, seg, pos, FlashHdr>> /\ phase' # "cmd" /\ Ok
            /\ Started /\ Started' /\ Got' = Got /\ Job' = Job
            /\ phase' = "ack" => phase = "hab"
  <2>1. ReadOk'
    <3>1. okReads >= Reads'
      BY <1>0, <1>7, <1>10 DEF Reads
    <3>2. Reads' \in Nat
      BY DEF Reads
    <3>3. ~(asked /\ pc = "idle" /\ ret.op = "read" /\ Ok)'
      BY <1>1
    <3>4. okReads' = okReads /\ okReads \in Nat
      BY <1>1, <1>7
    <3>5. PICK r : r = Reads'
      OBVIOUS
    <3>6. okReads' >= r
      BY <3>1, <3>2, <3>4, <3>5
    <3>7. QED
      BY <3>2, <3>3, <3>5, <3>6 DEF ReadOk
  <2>2. Sync(v)' <=> Sync(v)
    BY <1>5, <1>10 DEF Sync
  <2>3. PluginView(v)'
    BY <1>0, <1>1, <1>4, <1>5, <1>10, <2>2 DEF PluginView
  <2>4. QED
    BY <1>0, <1>1, <1>3, <1>5, <1>6, <1>10, <2>1, <2>3 DEF Before
<1>11. CASE /\ GetDevAck /\ phase = "ack" /\ CallSucceeds
            /\ Started /\ Got = Job.count /\ phase' = "cmd" /\ ~Started' /\ Got' = 0
  <2>1. stage = "plugin"
    BY <1>0, <1>8, <1>11
  <2>2. stage' = "start"
    BY <1>11, <2>1 DEF CallSucceeds, BeginStage, More, Following
  <2>3. Job.cmd = "WR_FILE" /\ Job.count = img.plugin /\ img.plugin \in Nat
    BY <1>0, <2>1, CalmJobs, PluginImage
  <2>4. ReadOk'
    <3>1. Ok
      BY <1>11, <2>3 DEF GetDevAck
    <3>2. okReads >= 2
      BY <1>7, <1>11, <2>1, <3>1 DEF Reads
    <3>3. QED
      BY <1>1, <1>7, <1>11, <2>2, <3>2 DEF ReadOk, Reads
  <2>5. PluginView(v)'
    <3>1. v.mode = "listening" /\ v.mem[img.self] = IvtCell
      BY <1>4, <1>11, <2>1, <2>3 DEF PluginView
    <3>2. QED
      BY <1>1, <1>5, <1>11, <2>2, <3>1 DEF PluginView
  <2>6. QED
    BY <1>1, <1>3, <1>5, <1>6, <2>2, <2>4, <2>5 DEF Before
<1>12. CASE Failed /\ phase' = "cmd" /\ ~Started' /\ Got' = 0
  <2>1. stage' = "failed"
    BY <1>0, <1>12 DEF Failed, CallFails, BeginStage, AfterFailure
  <2>2. ReadOk'
    BY <1>1, <1>7, <2>1 DEF ReadOk, Reads
  <2>3. PluginView(v)'
    <3>1. Pending => v.mode = "listening" /\ OfPlugin(v, said[writeBuf])
      BY <1>0, <1>4, PluginSays
    <3>2. Pending' => Pending
      BY <1>1 DEF Pending
    <3>3. QED
      BY <1>1, <1>5, <2>1, <3>1, <3>2 DEF PluginView
  <2>4. QED
    BY <1>1, <1>3, <1>5, <1>6, <2>1, <2>2, <2>3 DEF Before
<1>13. QED
  BY <1>9, <1>10, <1>11, <1>12

LEMMA PluginStep ==
  ASSUME Typed, Calls, Early, InLen # OutLen, img.plugin > 0, PInv, [Next]_vars
  PROVE  PInv'
<1>1. CASE rom.plugged
  <2>1. rom \in RomTypes
    BY DEF Typed, WireTypes
  <2>2. rom'.plugged
    <3>1. CASE RomHandles
      <4>1. sent' = sent
        BY <3>1 DEF RomHandles, transport
      <4>2. said[delivered[handled + 1]] \in Reports
        <5>1. delivered[handled + 1] \in 1..ops
          BY <3>1 DEF Typed, Carried, H!Ids, H!TypeOK, WireTypes, RomHandles
        <5>2. QED
          BY <5>1 DEF Typed, WireTypes
      <4>3. QED
        BY <1>1, <3>1, <4>1, <4>2, HandleIsAfter DEF RomHandles
    <3>2. CASE RomAnswers \/ PluginReturns
      BY <1>1, <2>1, <3>2 DEF RomAnswers, PluginReturns, Rom!SendAnswer, Rom!PluginReturns, RomTypes
    <3>3. CASE Say \/ Listen \/ JudgeStep \/ Transport \/ Finished \/ UNCHANGED vars
      BY <1>1, <3>3, JudgeSteps, SayFrame, TransportFrame DEF JudgeStep, Typed, Finished, vars, target
    <3>4. QED
      BY <3>1, <3>2, <3>3 DEF Next, HostStep, JudgeStep
  <2>3. QED
    BY <2>2 DEF PInv
<1>2. CASE rom.mode = "plugin" /\ handled = Len(delivered) /\ PluginOnly(mem)
  <2>1. ~RomHandles
    BY <1>2 DEF RomHandles, Rom!Handle
  <2>2. rom \in RomTypes
    BY DEF Typed, WireTypes
  <2>3. CASE PluginReturns
    <3>1. rom'.plugged
      BY <2>2, <2>3 DEF PluginReturns, Rom!PluginReturns, RomTypes
    <3>2. QED
      BY <3>1 DEF PInv
  <2>4. CASE ~PluginReturns
    <3>1. UNCHANGED <<img, mem, handled>> /\ rom'.mode = rom.mode
      <4>1. CASE RomAnswers
        BY <2>2, <4>1 DEF RomAnswers, Rom!SendAnswer, RomTypes
      <4>2. CASE Say \/ Listen \/ JudgeStep \/ Transport \/ Finished \/ UNCHANGED vars
        BY <4>2, JudgeSteps, SayFrame, TransportFrame DEF JudgeStep, Typed, Finished, vars, target, wire
      <4>3. QED
        BY <2>1, <2>4, <4>1, <4>2 DEF Next, HostStep, JudgeStep
    <3>2. delivered' = delivered
      <4>1. CASE Transport
        <5>1. H!HostStep \/ H!ReportArrives \/ H!RequestFails
          BY <1>2, <4>1, HostIsHost, DriverIsDriver DEF Transport
        <5>2. QED
          BY <5>1 DEF H!HostStep, H!WriteReturns, H!ReadReturns, H!ReadTimesOut,
             H!CancelRead, H!ReportArrives, H!RequestFails, H!host, H!kernel, H!device
      <4>2. CASE JudgeStep
        BY <4>2, JudgeSteps DEF JudgeStep, transport
      <4>3. CASE Say \/ Listen
        BY <4>3, SayFrame DEF Typed
      <4>4. CASE RomAnswers \/ Finished \/ UNCHANGED vars
        BY <4>4, RomFrame
      <4>5. QED
        BY <2>1, <2>4, <4>1, <4>2, <4>3, <4>4 DEF Next, HostStep, JudgeStep
    <3>3. PluginOnly(mem)'
      BY <1>2, <3>1, SamePlugin
    <3>4. QED
      BY <1>2, <3>1, <3>2, <3>3 DEF PInv
  <2>5. QED
    BY <2>3, <2>4
<1>3. ASSUME NEW R, Chain(R), Before(R) PROVE PInv'
  <2>1. CASE Transport /\ H!DeviceAccepts
    <3>1. PICK S : Chain(S)' /\ Before(S)'
      BY <1>3, <2>1, PluginAccept
    <3>2. QED
      BY <3>1 DEF PInv
  <2>2. CASE JudgeStep
    <3>1. Chain(R)' /\ Before(R)'
      BY <1>3, <2>2, PluginJudge
    <3>2. QED
      BY <3>1 DEF PInv
  <2>3. CASE \/ Say \/ Listen \/ (Transport /\ ~H!DeviceAccepts) \/ RomHandles \/ RomAnswers
             \/ Finished \/ UNCHANGED vars
    BY <1>3, <2>3, PluginQuiet
  <2>4. ~PluginReturns
    BY <1>3 DEF Before, PluginReturns, Rom!PluginReturns
  <2>5. QED
    BY <2>1, <2>2, <2>3, <2>4 DEF Next, HostStep, JudgeStep
<1>4. QED
  BY <1>1, <1>2, <1>3 DEF PInv

LEMMA PluginInit == Init /\ img.plugin > 0 => PInv
<1> SUFFICES ASSUME Init, img.plugin > 0 PROVE PInv
  OBVIOUS
<1>1. /\ img \in Images /\ stage = FirstStage /\ phase = "cmd" /\ asked = FALSE
      /\ handled = 0 /\ delivered = <<>> /\ pending = {} /\ sent = 0 /\ okReads = 0
  BY DEF Init, Hid!Init
<1>2. /\ mem = [a \in Addresses |-> Rom!Cell("junk")] /\ rom.mode = "listening"
      /\ rom.answers = <<>>
  BY DEF Init, Rom!Init
<1>3. Typed
  BY CarriedInit, TypesInit DEF Typed
<1>4. View \in Views
  BY <1>3, ViewType DEF Typed
<1>5. stage = "plugin"
  BY <1>1, <1>3, PluginImage DEF FirstStage, Typed
<1>6. ~Sent /\ ~Started
  BY <1>1 DEF Sent, Started
<1>7. PICK R : R = [k \in {0} |-> View]
  OBVIOUS
<1>8. R[0] = View /\ Len(delivered) = 0
  BY <1>1, <1>7
<1>9. Chain(R)
  BY <1>1, <1>4, <1>8 DEF Chain
<1>10. View.mode = "listening" /\ View.outs = 0
  BY <1>1, <1>2 DEF View
<1>11. PluginGood(View)
  BY <1>2, <1>10 DEF PluginGood, PluginOnly, View, Rom!Cell
<1>12. PluginView(View)
  BY <1>5, <1>6, <1>10 DEF PluginView, Sync
<1>13. ReadOk
  BY <1>1, <1>5 DEF ReadOk, Reads
<1>14. H!Calm
  BY CallsInit, <1>5 DEF Early, CalmStages
<1>15. Before(R)
  BY <1>1, <1>2, <1>5, <1>8, <1>11, <1>12, <1>13, <1>14 DEF Before, Last
<1>16. QED
  BY <1>9, <1>15 DEF PInv

-----------------------------------------------------------------------------
(* Images without a DCD, and the theorems.                                 *)

LEMMA NoDcdStep == Typed /\ img.dcd = 0 /\ NoDcd /\ [Next]_vars => NoDcd'
<1> SUFFICES ASSUME Typed, img.dcd = 0, NoDcd, [Next]_vars PROVE NoDcd'
  OBVIOUS
<1>0. HostTypes /\ Where /\ rom \in RomTypes
  BY DEF Typed, WireTypes
<1>1. CASE Say \/ Listen
  <2>1. rom' = rom /\ Running /\ said \in Seq(Reports)
    BY <1>1, SayFrame DEF Typed, WireTypes
  <2>2. stage \notin {"ecc", "dcd"}
    BY <1>0 DEF Where
  <2>3. Job.cmd # "DCD_WRITE"
    BY <1>0, <2>1, <2>2 DEF Job, Rom!Command, HostTypes, Stages, Running
  <2>4. phase = "data" => SendData.cmd = "DATA"
    BY <1>0, <2>1, SendDataType
  <2>5. PICK r : said' = Append(said, r) /\ r.cmd # "DCD_WRITE"
    BY <1>1, <2>3, <2>4, NothingType DEF Say, Listen
  <2>6. QED
    BY <2>1, <2>5 DEF NoDcd
<1>2. CASE RomHandles
  <2>1. sent' = sent /\ said' = said
    BY <1>2 DEF RomHandles, transport
  <2>2. PICK r \in Reports : r = said[delivered[handled + 1]] /\ r.cmd # "DCD_WRITE"
    <3>1. delivered[handled + 1] \in 1..Len(said)
      BY <1>2 DEF Typed, Carried, H!Ids, H!TypeOK, WireTypes, RomHandles
    <3>2. QED
      BY <3>1 DEF Typed, WireTypes, NoDcd
  <2>3. View' = After(View, r) /\ View.mode = "listening" /\ View \in Views
    BY <1>2, <2>1, <2>2, HandleIsAfter, ViewType DEF RomHandles, Typed, View
  <2>4. View.dcd = 0 /\ View.cur.cmd # "DCD_WRITE"
    BY DEF NoDcd, View
  <2>5. After(View, r).dcd = 0 /\ After(View, r).cur.cmd # "DCD_WRITE"
    <3>1. CASE r.cmd \notin {"JUMP", "DATA"}
      BY <2>2, <2>3, <2>4, <3>1, AfterCommand DEF Reports, Cmds
    <3>2. CASE r.cmd = "JUMP"
      <4>1. After(View, r) = AfterJump(View, r)
        BY <2>3, <3>2 DEF After
      <4>2. After(View, r).cur = View.cur
        BY <2>3, <3>2, AfterJumps
      <4>3. After(View, r).dcd \in {View.dcd, View.dcd + img.dcd}
        BY <2>3, <4>1 DEF AfterJump, Views
      <4>4. QED
        BY <2>4, <4>2, <4>3
    <3>3. CASE r.cmd = "DATA" /\ View.cur = Rom!Nothing
      BY <2>3, <2>4, <3>3, AfterCommand
    <3>4. CASE r.cmd = "DATA" /\ View.cur # Rom!Nothing
      BY <2>3, <2>4, <3>4, AfterReceive, NothingType
    <3>5. QED
      BY <3>1, <3>2, <3>3, <3>4
  <2>6. rom'.dcd = 0 /\ rom'.cur.cmd # "DCD_WRITE"
    <3>1. View'.dcd = 0 /\ View'.cur.cmd # "DCD_WRITE"
      BY <2>3, <2>5
    <3>2. QED
      BY <3>1 DEF View
  <2>7. QED
    BY <2>1, <2>6 DEF NoDcd
<1>3. CASE RomAnswers \/ PluginReturns
  <2>1. said' = said
    BY <1>3, QuietSteps
  <2>2. rom'.dcd = rom.dcd /\ rom'.cur = rom.cur
    BY <1>0, <1>3 DEF RomAnswers, PluginReturns, Rom!SendAnswer, Rom!PluginReturns, RomTypes
  <2>3. QED
    BY <2>1, <2>2 DEF NoDcd
<1>4. CASE JudgeStep \/ Transport \/ Finished \/ UNCHANGED vars
  <2>1. UNCHANGED <<rom, said>>
    BY <1>4, JudgeSteps, TransportFrame DEF JudgeStep, Finished, vars, target, wire
  <2>2. QED
    BY <2>1 DEF NoDcd
<1>5. QED
  BY <1>1, <1>2, <1>3, <1>4 DEF Next, HostStep, JudgeStep

\* The invariant: the images of each kind have theirs.
BootInv ==
  /\ Calls /\ Early
  /\ img.dcd = 0 => NoDcd
  /\ img.dcd > 0 => \E R : Chain(R) /\ DInv(R)
  /\ img.plugin > 0 => PInv

LEMMA BootInvariant == InLen # OutLen /\ Spec => []BootInv
<1> SUFFICES ASSUME InLen # OutLen PROVE Spec => []BootInv
  OBVIOUS
<1>1. Init => BootInv
  <2>1. Init => NoDcd
    BY NothingType DEF Init, Rom!Init, NoDcd
  <2>2. QED
    BY <2>1, CallsInit, DcdInit, PluginInit DEF BootInv
<1>2. Typed /\ Typed' /\ BootInv /\ [Next]_vars => BootInv'
  <2> SUFFICES ASSUME Typed, Typed', BootInv, [Next]_vars PROVE BootInv'
    OBVIOUS
  <2>1. img' = img
    <3>1. CASE RomHandles
      BY <3>1, QuietSteps
    <3>2. CASE Say \/ Listen
      BY <3>2, SayFrame DEF Typed
    <3>3. CASE JudgeStep
      BY <3>3, JudgeSteps DEF JudgeStep
    <3>4. QED
      BY <3>1, <3>2, <3>3, QuietSteps DEF Next, HostStep, JudgeStep
  <2>2. Calls' /\ Early'
    BY CallsStep, EarlyStep DEF Typed, BootInv
  <2>3. (img.dcd = 0 => NoDcd)'
    BY <2>1, NoDcdStep DEF BootInv
  <2>4. (img.dcd > 0 => \E R : Chain(R) /\ DInv(R))'
    <3> SUFFICES ASSUME img.dcd > 0 PROVE \E R : Chain(R)' /\ DInv(R)'
      BY <2>1
    <3>1. PICK R : Chain(R) /\ DInv(R)
      BY DEF BootInv
    <3>2. QED
      BY <3>1, DcdStep DEF BootInv
  <2>5. (img.plugin > 0 => PInv)'
    BY <2>1, PluginStep DEF BootInv
  <2>6. QED
    BY <2>2, <2>3, <2>4, <2>5 DEF BootInv
<1>3. QED
  BY <1>1, <1>2, TypedInvariant, PTL DEF Spec

\* Whatever fails on the way, a ROM that has started the image has run its DCD exactly
\* once: the host writes it in full or gives up, and jumps past it or to a bare header
\* (MxHidDevice.cpp:163-227, sb_loader.cpp:287-306).
THEOREM DcdRunsOnce == InLen # OutLen /\ Spec => []DcdOnce
<1>1. Typed /\ BootInv => DcdOnce
  <2> SUFFICES ASSUME Typed, BootInv, rom.mode = "image" PROVE rom.dcd = img.dcd
    BY DEF DcdOnce
  <2>1. img.dcd \in Nat
    BY ImageType DEF Typed, HostTypes
  <2>2. CASE img.dcd = 0
    BY <2>2 DEF BootInv, NoDcd
  <2>3. CASE img.dcd > 0
    <3>1. PICK R : Chain(R) /\ DInv(R)
      BY <2>3 DEF BootInv
    <3>2. DcdGood(View)
      BY <3>1, LastType DEF DInv
    <3>3. QED
      BY <3>2 DEF DcdGood, View
  <2>4. QED
    BY <2>1, <2>2, <2>3
<1>2. QED
  BY <1>1, TypedInvariant, BootInvariant, PTL

\* No cell of the program is written before the memory is set up, by the whole DCD or by
\* the plugin, in every timing of the reports (sb_loader.cpp:244-285).
THEOREM MemoryIsReady == InLen # OutLen /\ Spec => []MemoryReady
<1>1. Typed /\ BootInv => MemoryReady
  <2> SUFFICES ASSUME Typed, BootInv, NEW p \in Program(img), InPlace(p)
               PROVE  rom.dcd >= img.dcd /\ (img.plugin > 0 => rom.plugged)
    BY DEF MemoryReady
  <2>1. img.dcd \in Nat /\ img.plugin \in Nat /\ LaidOut(img) /\ p[1] \in Addresses
        /\ mem[p[1]] = Rom!File(p[2])
    BY ImageType DEF Typed, HostTypes, LaidOut, InPlace
  <2>2. rom.dcd >= img.dcd
    <3>1. CASE img.dcd = 0
      BY <3>1 DEF BootInv, NoDcd
    <3>2. CASE img.dcd > 0
      <4>1. PICK R : Chain(R) /\ DInv(R)
        BY <3>2 DEF BootInv
      <4>2. DcdGood(View)
        BY <4>1, LastType DEF DInv
      <4>3. ~NoFile(mem)
        BY <2>1 DEF NoFile, Rom!File
      <4>4. QED
        BY <4>2, <4>3 DEF DcdGood, View
    <3>3. QED
      BY <2>1, <3>1, <3>2
  <2>3. ASSUME img.plugin > 0 PROVE rom.plugged
    <3>1. PluginOnly(mem) => FALSE
      <4> SUFFICES ASSUME PluginOnly(mem) PROVE FALSE
        OBVIOUS
      <4>1. /\ p[1] - img.self \in 0..(img.plugin - 1)
            /\ Rom!File(p[2]) = Rom!File(img.ivt + (p[1] - img.self))
        BY <2>1 DEF PluginOnly, Rom!File
      <4>2. p[2] = img.ivt + (p[1] - img.self)
        BY <4>1 DEF Rom!File
      <4>3. p[1] \in Int /\ img.self \in Int
        <5>1. Addresses \subseteq Int
          BY SizesAssumption
        <5>2. img.self \in Int
          BY ImageType DEF Typed, HostTypes
        <5>3. QED
          BY <2>1, <5>1, <5>2
      <4>4. PICK k \in 0..(img.plugin - 1) : p[1] = img.self + k /\ p[2] = img.ivt + k
        BY <4>1, <4>2, <4>3
      <4>5. p = <<img.self + k, img.ivt + k>>
        BY <4>4 DEF Program
      <4>6. QED
        BY <2>1, <4>5 DEF LaidOut
    <3>2. PInv
      BY <2>3 DEF BootInv
    <3>3. ~\E R : Chain(R) /\ Before(R)
      <4> SUFFICES ASSUME NEW R, Chain(R), Before(R) PROVE FALSE
        OBVIOUS
      <4>1. PluginGood(View)
        BY LastType DEF Before
      <4>2. QED
        BY <3>1, <4>1 DEF PluginGood, View
    <3>4. QED
      BY <3>1, <3>2, <3>3 DEF PInv
  <2>4. QED
    BY <2>2, <2>3
<1>2. QED
  BY <1>1, TypedInvariant, BootInvariant, PTL
=============================================================================
