------------------------- MODULE StHidDevice_proofs -------------------------
(***************************************************************************)
(* CStHidDevice::Download for every length of file and of report: how it   *)
(* cuts the file, the types of the whole state, and that the file arrives. *)
(***************************************************************************)
EXTENDS StHidDevice, SequenceTheorems, TLAPS

\* Where the loop is: whole reports so far, and at least one byte still to send.
Cutting ==
  /\ size \in Sizes /\ iteration \in Nat
  /\ current_pos_in_arr = iteration * ulWriteSize
  /\ size > 0 /\ stage \in {"cbw", "loop", "last"} => iteration <= usb_iterations - 1
  /\ size > 0 /\ stage = "loop" => iteration < usb_iterations - 1

\* A file that is not empty takes usb_iterations reports, all full but the last.
LEMMA Reports ==
  ASSUME size \in Sizes, size > 0
  PROVE  /\ ulWriteSize \in Nat \ {0} /\ usb_iterations \in Nat \ {0}
         /\ (usb_iterations - 1) * ulWriteSize < size
         /\ size <= usb_iterations * ulWriteSize
         /\ usb_iterations <= size
<1>1. size \in Nat /\ ulWriteSize \in Nat \ {0}
  BY ReportAssumption, SizeAssumption DEF ulWriteSize
<1>2. PICK q \in Nat, r \in 0..(ulWriteSize - 1) :
        /\ q = size \div ulWriteSize /\ r = size % ulWriteSize
        /\ size = q * ulWriteSize + r
  BY <1>1
<1>3. CASE r = 0
  <2>1. usb_iterations = q
    BY <1>2, <1>3 DEF usb_iterations
  <2>2. q # 0
    <3>1. 0 * ulWriteSize = 0
      BY <1>1
    <3>2. QED
      BY <1>1, <1>2, <1>3, <3>1
  <2>3. (q - 1) * ulWriteSize = q * ulWriteSize - ulWriteSize /\ q <= q * ulWriteSize
    BY <1>1, <1>2
  <2>4. QED
    BY <1>1, <1>2, <1>3, <2>1, <2>2, <2>3
<1>4. CASE r # 0
  <2>1. usb_iterations = q + 1
    BY <1>2, <1>4 DEF usb_iterations
  <2>2. (q + 1) * ulWriteSize = q * ulWriteSize + ulWriteSize /\ q <= q * ulWriteSize
        /\ (q + 1) - 1 = q
    BY <1>1, <1>2
  <2>3. QED
    BY <1>1, <1>2, <1>4, <2>1, <2>2
<1>5. QED
  BY <1>3, <1>4

\* The number of reports fits a ULONG.
LEMMA IterationsFit ==
  ASSUME size \in Sizes, size > 0
  PROVE  usb_iterations - 1 \in 0..(ULONGs - 1) /\ ULONGs \in Nat \ {0}
<1>1. size \in Nat /\ size < ULONGs /\ ULONGs \in Nat
  BY SizeAssumption, ReportAssumption
<1>2. usb_iterations \in Nat \ {0} /\ usb_iterations <= size
  BY Reports
<1>3. QED
  BY <1>1, <1>2

\* The condition of the loop does not wrap round, the file not being empty.
LEMMA NoWrap ==
  ASSUME size \in Sizes, size > 0
  PROVE  InLoop <=> iteration < usb_iterations - 1
<1>1. (usb_iterations - 1) % ULONGs = usb_iterations - 1
  BY IterationsFit
<1>2. QED
  BY <1>1 DEF InLoop

LEMMA CuttingInit == Init => Cutting
<1> SUFFICES ASSUME Init PROVE Cutting
  OBVIOUS
<1>1. /\ size \in Sizes /\ iteration = 0 /\ current_pos_in_arr = 0
      /\ stage \in {"cbw", "loop", "last"} /\ (stage = "loop" => InLoop)
  BY Zenon DEF Init, Loop
<1>2. ulWriteSize \in Nat
  BY ReportAssumption DEF ulWriteSize
<1>3. size > 0 => usb_iterations \in Nat \ {0}
  BY <1>1, Reports
<1>4. QED
  BY <1>1, <1>2, <1>3, NoWrap DEF Cutting

LEMMA CuttingStep == Cutting /\ [Next]_vars => Cutting'
<1> SUFFICES ASSUME Cutting, [Next]_vars PROVE Cutting'
  OBVIOUS
<1>1. UNCHANGED ulWriteSize
  BY DEF ulWriteSize
<1>2. size' = size
  BY DEF Next, HostStep, WriteCbw, WriteData, ReadStatus, Returned, CbwWritten,
         ChunkWritten, WriteFailed, LastWritten, StatusRead, Transport, DeviceHandles,
         DeviceReports, Finished, file, vars
<1>3. usb_iterations' = usb_iterations
  BY <1>1, <1>2 DEF usb_iterations, ulWriteSize
<1>4. CASE UNCHANGED <<stage, iteration, current_pos_in_arr>>
  BY <1>1, <1>2, <1>3, <1>4 DEF Cutting
<1>5. CASE stage' = "done" /\ UNCHANGED <<iteration, current_pos_in_arr>>
  BY <1>1, <1>2, <1>5 DEF Cutting
<1>6. CASE stage' = "status" /\ UNCHANGED <<iteration, current_pos_in_arr>>
  BY <1>1, <1>2, <1>6 DEF Cutting
<1>7. CASE CbwWritten
  <2>1. /\ stage = "cbw" /\ iteration' = iteration
        /\ current_pos_in_arr' = current_pos_in_arr
        /\ stage' \in {"loop", "last"} /\ (stage' = "loop" => InLoop)
    BY <1>7 DEF CbwWritten, Loop
  <2>2. QED
    BY <1>1, <1>2, <1>3, <2>1, NoWrap DEF Cutting
<1>8. CASE ChunkWritten
  <2>1. /\ stage = "loop" /\ iteration' = iteration + 1
        /\ current_pos_in_arr' = current_pos_in_arr + ulWriteSize
        /\ stage' \in {"loop", "last"} /\ (stage' = "loop" => InLoop')
    BY <1>8 DEF ChunkWritten, Loop
  <2>2. ulWriteSize \in Nat
    BY ReportAssumption DEF ulWriteSize
  <2>3. current_pos_in_arr' = iteration' * ulWriteSize
    BY <2>1, <2>2 DEF Cutting
  <2>4. ASSUME size > 0, InLoop' PROVE iteration' < usb_iterations - 1
    <3>1. usb_iterations - 1 \in 0..(ULONGs - 1) /\ ULONGs \in Nat \ {0}
      BY <2>4, IterationsFit DEF Cutting
    <3>2. (usb_iterations - 1) % ULONGs = usb_iterations - 1
      BY <3>1
    <3>3. QED
      BY <1>3, <2>4, <3>2 DEF InLoop
  <2>5. ASSUME size > 0 PROVE iteration' <= usb_iterations - 1
    BY <2>1, <2>5, Reports DEF Cutting
  <2>6. QED
    BY <1>1, <1>2, <1>3, <2>1, <2>3, <2>4, <2>5 DEF Cutting
<1>9. QED
  <2>1. CASE WriteCbw \/ WriteData \/ ReadStatus \/ Transport \/ DeviceHandles
             \/ DeviceReports \/ Finished \/ UNCHANGED vars
    BY <1>4, <2>1 DEF WriteCbw, WriteData, ReadStatus, Transport, DeviceHandles,
                      DeviceReports, Finished, vars
  <2>2. CASE WriteFailed \/ StatusRead
    BY <1>5, <2>2 DEF WriteFailed, StatusRead
  <2>3. CASE LastWritten
    BY <1>5, <1>6, <2>3 DEF LastWritten
  <2>4. QED
    BY <1>7, <1>8, <2>1, <2>2, <2>3 DEF Next, HostStep

\* No report takes a byte from behind the file, whatever its length, unless it is
\* empty (sthiddevice.cpp:88-136).
THEOREM StaysInFile == Spec => []ReadsInFile
<1>1. Cutting => ReadsInFile
  <2> SUFFICES ASSUME Cutting, size > 0, stage \in {"loop", "last"}
               PROVE  current_pos_in_arr + ChunkSize <= size
    BY DEF ReadsInFile, InFile
  <2>1. /\ size \in Nat /\ size < ULONGs /\ ULONGs \in Nat /\ ulWriteSize = OutLen - 1
        /\ OutLen \in Nat /\ OutLen > 1
    BY SizeAssumption, ReportAssumption DEF Cutting, ulWriteSize
  <2>2. iteration \in Nat /\ usb_iterations \in Nat /\ iteration <= usb_iterations - 1
    BY Reports DEF Cutting
  <2>3. iteration * ulWriteSize <= (usb_iterations - 1) * ulWriteSize
    BY <2>1, <2>2
  <2>4. current_pos_in_arr \in Nat /\ current_pos_in_arr < size
    BY <2>1, <2>2, <2>3, Reports DEF Cutting
  <2>5. CASE stage = "loop"
    <3>1. (iteration + 1) * ulWriteSize <= (usb_iterations - 1) * ulWriteSize
      BY <2>1, <2>2, <2>5 DEF Cutting
    <3>2. (iteration + 1) * ulWriteSize = current_pos_in_arr + ulWriteSize
      BY <2>1, <2>2 DEF Cutting
    <3>3. (usb_iterations - 1) * ulWriteSize < size
      BY Reports DEF Cutting
    <3>4. (usb_iterations - 1) * ulWriteSize \in Int
      BY <2>1, <2>2
    <3>5. QED
      BY <2>1, <2>4, <2>5, <3>1, <3>2, <3>3, <3>4 DEF ChunkSize
  <2>6. CASE stage = "last"
    <3>1. (size - current_pos_in_arr) % ULONGs = size - current_pos_in_arr
      BY <2>1, <2>4
    <3>2. QED
      BY <2>1, <2>4, <2>6, <3>1 DEF ChunkSize, LastSize
  <2>7. QED
    BY <2>5, <2>6
<1>2. QED
  BY <1>1, CuttingInit, CuttingStep, PTL DEF Spec
-----------------------------------------------------------------------------
(* The transport under a download: the invariants of HidDevice hold here.   *)

H == INSTANCE HidDevice_proofs

LEMMA HidAssumptions == H!SizesAssumption /\ H!MaxOpsAssumption
BY ReportAssumption DEF H!SizesAssumption, H!MaxOpsAssumption

\* What module HidDevice shows of its state.
Carried == H!TypeOK /\ H!Shape /\ H!Exact /\ H!Ids

LEMMA CallIsCall ==
  /\ Hid!StartWrite \/ Hid!WriteRefused \/ Hid!StartRead \/ Hid!ReadRefused <=> H!Call
  /\ Hid!StartWrite => H!StartWrite
  /\ Hid!WriteRefused => H!WriteRefused
  /\ Hid!StartRead => H!StartRead
  /\ Hid!ReadRefused => H!ReadRefused
BY DEF H!Call, H!StartWrite, H!WriteRefused, H!StartRead, H!ReadRefused, H!PrepareWrite,
       H!PrepareRead, H!Return, H!device, H!ghost, Hid!StartWrite, Hid!WriteRefused,
       Hid!StartRead, Hid!ReadRefused, Hid!PrepareWrite, Hid!PrepareRead, Hid!Return,
       Hid!device, Hid!ghost

LEMMA HostIsHost == Hid!HostStep => H!HostStep
<1>1. Hid!RunApcs <=> H!RunApcs
  BY DEF Hid!RunApcs, H!RunApcs, Hid!Verdict, H!Verdict
<1>2. Hid!Judge = H!Judge
  BY DEF Hid!Judge, H!Judge
<1>3. QED
  BY <1>1, <1>2
     DEF Hid!HostStep, Hid!WriteReturns, Hid!ReadReturns, Hid!ReadTimesOut, Hid!CancelRead,
         Hid!Return, Hid!kernel, Hid!device, Hid!ghost, H!HostStep, H!WriteReturns,
         H!ReadReturns, H!ReadTimesOut, H!CancelRead, H!Return, H!kernel, H!device, H!ghost

LEMMA DriverIsDriver ==
  /\ Hid!DeviceAccepts => H!DeviceAccepts
  /\ Hid!ReportArrives => H!ReportArrives
  /\ Hid!RequestFails => H!RequestFails
  /\ Hid!DeviceSends => H!DeviceSends
BY DEF Hid!DeviceAccepts, Hid!ReportArrives, Hid!RequestFails, Hid!DeviceSends,
       Hid!OldestOf, Hid!Complete, Hid!host, Hid!kernel, Hid!device, Hid!ghost,
       H!DeviceAccepts, H!ReportArrives, H!RequestFails, H!DeviceSends, H!OldestOf,
       H!Complete, H!host, H!kernel, H!device, H!ghost

LEMMA TransportSteps == [Next]_vars => [H!Next]_(H!vars)
<1> SUFFICES ASSUME [Next]_vars PROVE [H!Next]_(H!vars)
  OBVIOUS
<1>1. CASE UNCHANGED transport
  BY <1>1 DEF transport, H!vars, H!host, H!kernel, H!device, H!ghost
<1>2. CASE WriteCbw \/ WriteData \/ ReadStatus
  BY <1>2, CallIsCall DEF WriteCbw, WriteData, ReadStatus, H!Next
<1>3. CASE Transport
  BY <1>3, HostIsHost, DriverIsDriver DEF Transport, Hid!Driver, H!Next, H!Driver
<1>4. CASE DeviceReports
  BY <1>4, DriverIsDriver DEF DeviceReports, H!Next
<1>5. QED
  BY <1>1, <1>2, <1>3, <1>4
     DEF Next, HostStep, Returned, CbwWritten, ChunkWritten, WriteFailed, LastWritten,
         StatusRead, DeviceHandles, Finished, vars

LEMMA CarriedStep == Carried /\ [Next]_vars => Carried'
<1> SUFFICES ASSUME Carried, [Next]_vars PROVE Carried'
  OBVIOUS
<1>1. [H!Next]_(H!vars) /\ H!SizesAssumption /\ H!MaxOpsAssumption
  BY TransportSteps, HidAssumptions
<1>2. QED
  BY <1>1, H!TypeOKStep, H!ShapeStep, H!ExactStep, H!IdsStep DEF Carried

LEMMA CarriedInit == Init => Carried
<1> SUFFICES ASSUME Init PROVE Carried
  OBVIOUS
<1>1. H!Init
  BY DEF Init, Hid!Init, H!Init
<1>2. H!TypeOK
  BY <1>1, H!TypeOKInit, HidAssumptions
<1>3. QED
  BY <1>1, <1>2 DEF H!Init, H!Shape, H!Exact, H!ExactWithoutTimeout, H!Ids, Carried

-----------------------------------------------------------------------------
(* Types.                                                                   *)

Sheets == [id : {"COMMAND_OUT", "DATA_OUT", "NONE"}, length : Nat, payload : Seq(Int)]

Typed ==
  /\ TypeOK
  /\ said \in Seq(Sheets) /\ got \in Seq(Int) /\ Len(got) <= size /\ handled \in Nat

\* What a call of Write or Read leaves as it is.
LEMMA CallFrame ==
  ASSUME Hid!StartWrite \/ Hid!WriteRefused \/ Hid!StartRead \/ Hid!ReadRefused
  PROVE  ops' = ops + 1 /\ pc = "idle" /\ UNCHANGED <<delivered, sent, taken, timeouts, apcs>>
BY DEF Hid!StartWrite, Hid!WriteRefused, Hid!StartRead, Hid!ReadRefused, Hid!PrepareWrite,
       Hid!PrepareRead, Hid!device, Hid!ghost

\* What the transport leaves as it is between calls.
LEMMA TransportFrame ==
  ASSUME Transport, Carried
  PROVE  /\ UNCHANGED <<file, stage, asked, iteration, current_pos_in_arr, err,
                        m_pWriteReport, said, target>>
         /\ ops' = ops /\ sent' = sent /\ delivered' \in Seq(Nat)
         /\ Len(delivered) <= Len(delivered')
<1>1. UNCHANGED <<file, stage, asked, iteration, current_pos_in_arr, err,
                  m_pWriteReport, said, target>>
  BY DEF Transport
<1>2. ops' = ops /\ sent' = sent /\ (delivered' = delivered \/ delivered' = Append(delivered, writeBuf))
  BY DEF Transport, Hid!HostStep, Hid!WriteReturns, Hid!ReadReturns, Hid!ReadTimesOut,
         Hid!CancelRead, Hid!Driver, Hid!DeviceAccepts, Hid!ReportArrives,
         Hid!RequestFails, Hid!host, Hid!device
<1>3. delivered \in Seq(Nat) /\ writeBuf \in Nat
  BY DEF Carried, H!TypeOK
<1>4. QED
  BY <1>1, <1>2, <1>3

LEMMA FilledType ==
  ASSUME size \in Nat, current_pos_in_arr \in Nat,
         m_pWriteReport \in [1..ulWriteSize -> Nat \cup {Pad, Junk}]
  PROVE  /\ Filled \in [1..ulWriteSize -> Nat \cup {Pad, Junk}]
         /\ Filled \in Seq(Int) /\ Len(Filled) = ulWriteSize
<1>1. ulWriteSize \in Nat
  BY ReportAssumption DEF ulWriteSize
<1>2. ASSUME NEW i \in 1..ulWriteSize
      PROVE  /\ FileByte(current_pos_in_arr + i - 1) \in Nat \cup {Junk}
             /\ m_pWriteReport[i] \in Nat \cup {Pad, Junk}
  BY <1>1, <1>2 DEF FileByte
<1>3. Filled \in [1..ulWriteSize -> Nat \cup {Pad, Junk}]
  BY <1>2 DEF Filled
<1>4. Nat \cup {Pad, Junk} \subseteq Int
  BY DEF Pad, Junk
<1>5. QED
  BY <1>1, <1>3, <1>4

LEMMA TypedInit == Init => Typed
<1> SUFFICES ASSUME Init PROVE Typed
  OBVIOUS
<1>1. /\ size \in Sizes /\ status \in BOOLEAN /\ iteration = 0 /\ current_pos_in_arr = 0
      /\ err = "SUCCESS" /\ stage \in {"cbw", "loop", "last"} /\ asked = FALSE
      /\ m_pWriteReport = [i \in 1..ulWriteSize |-> Pad]
      /\ said = <<>> /\ got = <<>> /\ handled = 0 /\ csw = "NONE"
      /\ ops = 0 /\ delivered = <<>>
  BY Zenon DEF Init, Loop, Hid!Init
<1>2. size \in Nat
  BY <1>1, SizeAssumption
<1>3. size > 0 => usb_iterations \in Nat \ {0}
  BY <1>1, Reports
<1>4. m_pWriteReport \in [1..ulWriteSize -> Nat \cup {Pad, Junk}]
  BY <1>1
<1>5. /\ Len(said) = ops /\ handled <= Len(delivered) /\ said \in Seq(Sheets)
      /\ got \in Seq(Int) /\ Len(got) <= size
  BY <1>1, <1>2
<1>6. iteration \in Nat /\ (size > 0 => iteration < usb_iterations)
  BY <1>1, <1>3
<1>7. err \in Hid!Statuses /\ asked \in BOOLEAN /\ handled \in Nat
      /\ current_pos_in_arr \in Nat
  BY <1>1 DEF Hid!Statuses
<1>8. QED
  BY <1>1, <1>4, <1>5, <1>6, <1>7 DEF TypeOK, Typed

LEMMA TypedStep == Typed /\ Cutting /\ Cutting' /\ Carried /\ Carried' /\ [Next]_vars => Typed'
<1> SUFFICES ASSUME Typed, Cutting, Cutting', Carried, Carried', [Next]_vars PROVE Typed'
  OBVIOUS
<1>1. /\ size \in Sizes /\ size \in Nat /\ status \in BOOLEAN /\ asked \in BOOLEAN
      /\ stage \in {"cbw", "loop", "last", "status", "done"} /\ err \in Hid!Statuses
      /\ iteration \in Nat /\ (size > 0 => iteration < usb_iterations)
      /\ current_pos_in_arr \in Nat
      /\ m_pWriteReport \in [1..ulWriteSize -> Nat \cup {Pad, Junk}]
      /\ Len(said) = ops /\ handled <= Len(delivered) /\ csw \in {"NONE", "PASSED", "FAILED"}
      /\ said \in Seq(Sheets) /\ got \in Seq(Int) /\ Len(got) <= size /\ handled \in Nat
  BY SizeAssumption DEF Typed, TypeOK
<1>2. ops \in Nat /\ delivered \in Seq(Nat) /\ ret.status \in Hid!Statuses
  BY DEF Carried, H!TypeOK, H!Returns, H!Statuses, Hid!Statuses
<1>3. usb_iterations' = usb_iterations \/ size' # size
  BY DEF usb_iterations, ulWriteSize
<1>4. CASE WriteCbw \/ WriteData \/ ReadStatus
  <2>1. /\ ops' = ops + 1 /\ delivered' = delivered /\ asked' = TRUE
        /\ UNCHANGED <<file, stage, iteration, current_pos_in_arr, err, target>>
    BY <1>4, CallFrame DEF WriteCbw, WriteData, ReadStatus
  <2>2. /\ m_pWriteReport' \in [1..ulWriteSize -> Nat \cup {Pad, Junk}]
        /\ \E r \in Sheets : said' = Append(said, r)
    <3>1. CASE WriteCbw \/ ReadStatus
      <4>1. Cbw(size) \in Sheets /\ None \in Sheets
        BY <1>1 DEF Sheets, Cbw, None
      <4>2. QED
        BY <1>1, <3>1, <4>1 DEF WriteCbw, ReadStatus
    <3>2. CASE WriteData
      <4>1. Filled \in [1..ulWriteSize -> Nat \cup {Pad, Junk}] /\ Filled \in Seq(Int)
        BY <1>1, FilledType
      <4>2. Data(Filled) \in Sheets
        BY <4>1 DEF Sheets, Data
      <4>3. QED
        BY <3>2, <4>1, <4>2 DEF WriteData
    <3>3. QED
      BY <1>4, <3>1, <3>2
  <2>3. said' \in Seq(Sheets) /\ Len(said') = ops'
    BY <1>1, <2>1, <2>2
  <2>4. QED
    BY <1>1, <1>3, <2>1, <2>2, <2>3 DEF Typed, TypeOK, file, target, ulWriteSize
<1>5. CASE Returned /\ stage' \in {"loop", "last", "status", "done"}
  <2>1. /\ err' = ret.status /\ asked' = FALSE
        /\ UNCHANGED <<ops, delivered, size, status, m_pWriteReport, said, got, handled, csw>>
    BY <1>5 DEF Returned, transport, file, target
  <2>2. iteration' \in Nat /\ (size > 0 => iteration' < usb_iterations) /\ current_pos_in_arr' \in Nat
    <3>1. CASE UNCHANGED <<iteration, current_pos_in_arr>>
      BY <1>1, <3>1
    <3>2. CASE ChunkWritten
      <4>1. iteration' = iteration + 1 /\ current_pos_in_arr' = current_pos_in_arr + ulWriteSize
            /\ stage' \in {"loop", "last"}
        BY <3>2 DEF ChunkWritten, Loop
      <4>2. ulWriteSize \in Nat
        BY ReportAssumption DEF ulWriteSize
      <4>3. size > 0 => iteration' <= usb_iterations - 1 /\ usb_iterations \in Nat
        BY <1>1, <1>3, <2>1, <4>1, Reports DEF Cutting
      <4>4. QED
        BY <1>1, <4>1, <4>2, <4>3
    <3>3. UNCHANGED <<iteration, current_pos_in_arr>> \/ ChunkWritten
      <4>1. ~MayCall
        BY <1>5 DEF Returned, MayCall
      <4>2. ~Transport /\ ~DeviceHandles /\ ~DeviceReports /\ ~Finished /\ ~UNCHANGED vars
        BY <1>5, <2>1 DEF Returned, Transport, DeviceHandles, DeviceReports, Finished, vars
      <4>3. QED
        BY <4>1, <4>2 DEF Next, HostStep, WriteCbw, WriteData, ReadStatus, CbwWritten,
                          WriteFailed, LastWritten, StatusRead
    <3>4. QED
      BY <3>1, <3>2, <3>3
  <2>3. QED
    BY <1>1, <1>2, <1>3, <1>5, <2>1, <2>2 DEF Typed, TypeOK, ulWriteSize
<1>6. CASE Transport
  BY <1>1, <1>2, <1>3, <1>6, TransportFrame DEF Typed, TypeOK, file, target, ulWriteSize
<1>7. CASE DeviceHandles
  <2>1. /\ handled < Len(delivered) /\ handled' = handled + 1
        /\ UNCHANGED <<csw, ops, delivered, size, status, stage, asked, iteration,
                       current_pos_in_arr, err, m_pWriteReport, said>>
    BY SMTT(30), <1>7 DEF DeviceHandles, transport, file
  <2>2. PICK p \in Seq(Int) :
          got' = got \o SubSeq(p, 1, IF Len(p) <= size - Len(got) THEN Len(p) ELSE size - Len(got))
    <3>1. delivered[handled + 1] \in 1..ops
      BY <1>1, <1>2, <2>1 DEF Carried, H!Ids
    <3>2. said[delivered[handled + 1]] \in Sheets
      BY <1>1, <3>1
    <3>3. said[delivered[handled + 1]].payload \in Seq(Int)
      BY <3>2 DEF Sheets
    <3>4. QED
      BY <1>7, <3>3 DEF DeviceHandles
  <2>3. PICK n \in 0..Len(p) : n <= size - Len(got) /\ got' = got \o SubSeq(p, 1, n)
    <3>1. Len(p) \in Nat /\ size - Len(got) \in Nat
      BY <1>1, <2>2
    <3>2. CASE Len(p) <= size - Len(got)
      <4>1. Len(p) \in 0..Len(p) /\ got' = got \o SubSeq(p, 1, Len(p))
        BY <2>2, <3>1, <3>2
      <4>2. QED
        BY <3>2, <4>1
    <3>3. CASE ~(Len(p) <= size - Len(got))
      <4>1. size - Len(got) \in 0..Len(p) /\ size - Len(got) <= size - Len(got)
        BY <3>1, <3>3
      <4>2. got' = got \o SubSeq(p, 1, size - Len(got))
        BY <2>2, <3>3
      <4>3. QED
        BY <4>1, <4>2
    <3>4. QED
      BY <3>2, <3>3
  <2>4. SubSeq(p, 1, n) \in Seq(Int) /\ Len(SubSeq(p, 1, n)) = n
    BY <2>2, <2>3
  <2>5. got' \in Seq(Int) /\ Len(got') <= size
    BY <1>1, <2>3, <2>4
  <2>6. handled' \in Nat /\ handled' <= Len(delivered)
    BY <1>1, <1>2, <2>1
  <2>7. QED
    BY <1>1, <1>3, <2>1, <2>5, <2>6 DEF Typed, TypeOK, ulWriteSize
<1>8. CASE DeviceReports
  <2>1. /\ csw' \in {"NONE", "PASSED", "FAILED"}
        /\ UNCHANGED <<ops, delivered, size, status, stage, asked, iteration,
                       current_pos_in_arr, err, m_pWriteReport, said, got, handled>>
    BY <1>8 DEF DeviceReports, Hid!DeviceSends, Hid!host, Hid!device, file
  <2>2. QED
    BY <1>1, <1>3, <2>1 DEF Typed, TypeOK, ulWriteSize
<1>9. CASE UNCHANGED vars
  BY <1>1, <1>3, <1>9 DEF vars, transport, file, target, Typed, TypeOK, ulWriteSize
<1>10. QED
  <2>1. CbwWritten \/ ChunkWritten \/ WriteFailed \/ LastWritten \/ StatusRead =>
          Returned /\ stage' \in {"loop", "last", "status", "done"}
    BY DEF CbwWritten, ChunkWritten, WriteFailed, LastWritten, StatusRead, Loop
  <2>2. QED
    BY <1>4, <1>5, <1>6, <1>7, <1>8, <1>9, <2>1 DEF Next, HostStep, Finished

\* The types, for every length of file and report (sthiddevice.cpp:46-154).
THEOREM TypeCorrect == Spec => []TypeOK
<1>1. Typed => TypeOK
  BY DEF Typed
<1>2. QED
  BY <1>1, CuttingInit, CuttingStep, CarriedInit, CarriedStep, TypedInit, TypedStep, PTL DEF Spec

-----------------------------------------------------------------------------
(* Whole: what the device has when the download ends.                       *)

\* Reports the host is done with.
Through ==
  CASE stage = "cbw" -> 0
    [] stage \in {"loop", "last"} -> Before + iteration
    [] OTHER -> Before + usb_iterations

\* The call in progress; only the Read of the status can time out, and it is the last.
Calling ==
  /\ ~asked => pc = "idle"
  /\ stage = "done" => ~asked
  /\ stage = "cbw" => status /\ iteration = 0
  /\ stage = "status" => status
  /\ stage \in {"last", "status"} => iteration = usb_iterations - 1
  /\ asked => IF stage = "status" THEN pc # "waitWrite" ELSE pc \in {"idle", "waitWrite"}
  /\ asked /\ pc = "idle" =>
       ret.id = ops /\ ret.op = (IF stage = "status" THEN "read" ELSE "write")
  /\ timeouts > 0 =>
       \/ stage = "status" /\ asked /\ pc = "idle" /\ ret.status = "WAIT_TIMEOUT"
       \/ stage = "done" /\ err = "WAIT_TIMEOUT"

Counted ==
  /\ stage # "done" => ops = Through + (IF asked THEN 1 ELSE 0)
  /\ ops <= Before + usb_iterations + 1

\* The device gets every report once and in order.
InOrder ==
  /\ \A i \in 1..Len(delivered) : delivered[i] = i
  /\ \A r \in pending : r.kind = "write" => pc = "waitWrite"
  /\ stage \in {"cbw", "loop", "last"} =>
       /\ Len(delivered) \in {Through, ops}
       /\ pending # {} => Len(delivered) = Through
  /\ Len(delivered) <= ops /\ Len(delivered) <= Before + usb_iterations

\* What an end without an error means.
Ended ==
  stage = "done" /\ err = "SUCCESS" =>
    IF status THEN csw # "NONE" ELSE Len(delivered) = usb_iterations

\* Report i of the download.
Says(i) ==
  IF i <= Before THEN said[i] = Cbw(size)
  ELSE IF i <= Before + usb_iterations
  THEN /\ said[i].id = "DATA_OUT" /\ Len(said[i].payload) = ulWriteSize
       /\ \A j \in 1..ulWriteSize :
            LET k == (i - Before - 1) * ulWriteSize + j - 1
            IN  k < size => said[i].payload[j] = k
  ELSE said[i] = None

Content == Len(said) = ops /\ \A i \in 1..ops : Says(i)

\* The device has bytes of reports it has handled only.
Target ==
  /\ handled \in 0..Len(delivered)
  /\ IF handled = 0 THEN Len(got) = 0 ELSE Len(got) <= (handled - Before) * ulWriteSize
  /\ csw = "PASSED" => Len(delivered) >= Before + usb_iterations
  /\ csw # "NONE" => status
  /\ sent > 0 => csw # "NONE"

\* The invariant, for files that have bytes at all.
WholeInv ==
  size > 0 => Calling /\ Counted /\ InOrder /\ Ended /\ Content /\ Target

\* What a step starts from.
WholeParts ==
  /\ Typed /\ Cutting /\ Carried /\ size > 0
  /\ Calling /\ Counted /\ InOrder /\ Ended /\ Content /\ Target

\* Sizes that the steps keep.
LEMMA Numbers ==
  ASSUME WholeParts
  PROVE  /\ size \in Sizes /\ size \in Nat \ {0}
         /\ ulWriteSize \in Nat \ {0} /\ usb_iterations \in Nat \ {0}
         /\ (usb_iterations - 1) * ulWriteSize < size /\ size <= usb_iterations * ulWriteSize
         /\ Before = (IF status THEN 1 ELSE 0) /\ Before \in {0, 1} /\ iteration \in Nat /\ ops \in Nat
         /\ iteration <= usb_iterations - 1
         /\ stage \in {"cbw", "loop", "last", "status", "done"} /\ status \in BOOLEAN
         /\ delivered \in Seq(Nat) /\ sent \in Nat /\ taken \in Nat /\ timeouts \in Nat
<1>1. size \in Sizes /\ size \in Nat /\ iteration \in Nat /\ stage \in {"cbw", "loop", "last", "status", "done"}
      /\ status \in BOOLEAN /\ iteration < usb_iterations
  BY SizeAssumption DEF WholeParts, Typed, TypeOK
<1>2. ops \in Nat /\ delivered \in Seq(Nat) /\ sent \in Nat /\ taken \in Nat /\ timeouts \in Nat
  BY DEF WholeParts, Carried, H!TypeOK
<1>3. Before = (IF status THEN 1 ELSE 0) /\ Before \in {0, 1}
  BY DEF Before
<1>4. size > 0
  BY DEF WholeParts
<1>5. QED
  BY <1>1, <1>2, <1>3, <1>4, Reports

LEMMA ThroughType ==
  ASSUME WholeParts
  PROVE  /\ Through \in 0..(Before + usb_iterations)
         /\ stage \in {"cbw", "loop", "last"} => Through < Before + usb_iterations
         /\ stage = "cbw" => Through = 0 /\ Before = 1
         /\ stage \in {"loop", "last"} => Through = Before + iteration
         /\ stage = "last" => Through = Before + usb_iterations - 1
         /\ stage = "status" => Through = Before + usb_iterations /\ Before = 1
<1>1. stage = "cbw" => status
  BY DEF WholeParts, Calling
<1>2. stage = "status" => status
  BY DEF WholeParts, Calling
<1>3. stage = "last" => iteration = usb_iterations - 1
  BY DEF WholeParts, Calling
<1>4. /\ stage = "cbw" => Through = 0
      /\ stage \in {"loop", "last"} => Through = Before + iteration
      /\ stage \in {"status", "done"} => Through = Before + usb_iterations
  BY DEF Through
<1>5. QED
  BY SMTT(30), <1>1, <1>2, <1>3, <1>4, Numbers

\* As long as no Read has timed out nothing is left over from earlier calls.
LEMMA NoLeftovers ==
  ASSUME WholeParts, timeouts = 0
  PROVE  /\ pc = "idle" => pending = {} /\ apcs = <<>>
         /\ pc = "waitWrite" => /\ writeBuf = ops
                                /\ pending \subseteq {[kind |-> "write", id |-> ops]}
         /\ pc \in {"waitRead", "cancelRead"} =>
              pending \subseteq {[kind |-> "read", id |-> ops]}
BY DEF WholeParts, Carried, H!Exact, H!InFlight, H!Answered, H!Op

\* A report of data carries the bytes of the file at its place.
LEMMA FilledContent ==
  ASSUME WholeParts, stage \in {"loop", "last"}, NEW j \in 1..ulWriteSize,
         iteration * ulWriteSize + j - 1 < size
  PROVE  Filled[j] = iteration * ulWriteSize + j - 1
<1>1. /\ ulWriteSize \in Nat \ {0} /\ iteration \in Nat /\ size \in Nat
      /\ current_pos_in_arr = iteration * ulWriteSize /\ current_pos_in_arr \in Nat
  BY Numbers DEF WholeParts, Cutting, Typed, TypeOK
<1>2. size < ULONGs /\ ULONGs \in Nat /\ ulWriteSize = OutLen - 1 /\ OutLen \in Nat
  BY Numbers, SizeAssumption, ReportAssumption DEF ulWriteSize
<1>3. j <= ChunkSize
  <2>1. CASE stage = "loop"
    BY <2>1 DEF ChunkSize
  <2>2. CASE stage = "last" /\ current_pos_in_arr + ulWriteSize > size
    <3>1. size - current_pos_in_arr \in 0..(ULONGs - 1)
      BY <1>1, <1>2
    <3>2. (size - current_pos_in_arr) % ULONGs = size - current_pos_in_arr
      BY <1>2, <3>1
    <3>3. LastSize = size - current_pos_in_arr
      BY <1>1, <1>2, <2>2, <3>2 DEF LastSize
    <3>4. QED
      BY <1>1, <2>2, <3>3 DEF ChunkSize
  <2>3. CASE stage = "last" /\ ~(current_pos_in_arr + ulWriteSize > size)
    <3>1. LastSize = ulWriteSize
      BY <1>2, <2>3 DEF LastSize
    <3>2. QED
      BY <2>3, <3>1 DEF ChunkSize
  <2>4. QED
    BY <2>1, <2>2, <2>3
<1>4. Filled[j] = FileByte(current_pos_in_arr + j - 1)
  BY <1>3 DEF Filled
<1>5. QED
  BY <1>1, <1>4 DEF FileByte

\* Reports said stay said.
LEMMA SaysSame ==
  ASSUME WholeParts, UNCHANGED <<size, status>>, NEW i, said'[i] = said[i]
  PROVE  Says(i)' <=> Says(i)
BY DEF Says, Before, usb_iterations, ulWriteSize, Cbw, None

LEMMA WholeCall ==
  ASSUME WholeParts, WriteCbw \/ WriteData \/ ReadStatus
  PROVE  (Calling /\ Counted /\ InOrder /\ Ended /\ Content /\ Target)'
<1>1. /\ stage # "done" /\ pc = "idle" /\ ~asked /\ asked' = TRUE
      /\ UNCHANGED <<size, status, stage, iteration, err, got, handled, csw>>
      /\ ops' = ops + 1 /\ UNCHANGED <<delivered, sent, timeouts>>
  BY CallFrame DEF WriteCbw, WriteData, ReadStatus, MayCall, file, target
<1>2. /\ usb_iterations' = usb_iterations /\ Before' = Before /\ Through' = Through
  BY <1>1 DEF usb_iterations, ulWriteSize, Before, Through
<1>3. /\ pc' \in {"idle", IF stage = "status" THEN "waitRead" ELSE "waitWrite"}
      /\ pc' = "idle" => ret'.id = ops' /\ ret'.op = (IF stage = "status" THEN "read" ELSE "write")
      /\ pending' = pending \/ pending' = pending \cup {[kind |-> IF stage = "status" THEN "read" ELSE "write", id |-> ops + 1]}
      /\ pending' # pending => pc' # "idle"
  BY DEF WriteCbw, WriteData, ReadStatus, MayCall, Hid!StartWrite, Hid!WriteRefused,
         Hid!StartRead, Hid!ReadRefused, Hid!PrepareWrite, Hid!PrepareRead, Hid!Return
<1>4. timeouts = 0 /\ pending = {} /\ ops = Through
  <2>1. timeouts = 0
    BY <1>1, Numbers DEF WholeParts, Calling
  <2>2. QED
    BY <1>1, <2>1, NoLeftovers, ThroughType DEF WholeParts, Counted
<1>5. Calling'
  BY <1>1, <1>2, <1>3, <1>4 DEF WholeParts, Calling
<1>6. Counted'
  BY <1>1, <1>2, <1>4, Numbers, ThroughType DEF Counted
<1>7. InOrder'
  <2>1. \A r \in pending' : r.kind = "write" => pc' = "waitWrite"
    BY <1>3, <1>4
  <2>2. stage \in {"cbw", "loop", "last"} => Len(delivered) = Through
    BY <1>4 DEF WholeParts, InOrder
  <2>3. Len(delivered) <= ops' /\ Len(delivered) <= Before + usb_iterations
    BY <1>1, Numbers DEF WholeParts, InOrder
  <2>4. QED
    BY <1>1, <1>2, <2>1, <2>2, <2>3 DEF WholeParts, InOrder
<1>8. Content'
  <2>1. PICK r \in Sheets :
          /\ said' = Append(said, r)
          /\ stage = "cbw" => r = Cbw(size)
          /\ stage \in {"loop", "last"} => r = Data(Filled)
          /\ stage = "status" => r = None
    <3>1. Cbw(size) \in Sheets /\ None \in Sheets
      BY Numbers DEF Sheets, Cbw, None
    <3>2. Data(Filled) \in Sheets
      BY Numbers, FilledType DEF WholeParts, Typed, TypeOK, Sheets, Data
    <3>3. QED
      BY <3>1, <3>2 DEF WriteCbw, WriteData, ReadStatus
  <2>2. said \in Seq(Sheets) /\ Len(said) = ops
    BY DEF WholeParts, Content, Typed
  <2> PICK n \in Nat : n = ops + 1
    BY Numbers
  <2>3. Len(said') = n /\ ops' = n /\ said'[n] = r /\ \A i \in 1..ops : said'[i] = said[i]
    BY SMTT(40), <1>1, <2>1, <2>2, Numbers
  <2>4. \A i \in 1..ops : Says(i)'
    BY <1>1, <2>3, SaysSame DEF WholeParts, Content
  <2>5. Says(n)'
    <3>1. CASE stage = "cbw"
      <4>1. n <= Before
        BY <1>4, <3>1, ThroughType
      <4>2. QED
        BY <1>1, <1>2, <2>1, <2>3, <3>1, <4>1 DEF Says, Cbw
    <3>2. CASE stage \in {"loop", "last"}
      <4>1. n = Before + iteration + 1 /\ iteration <= usb_iterations - 1
        BY <1>4, <3>2, Numbers, ThroughType
      <4>2. /\ ~(n <= Before) /\ n <= Before + usb_iterations
            /\ n - Before - 1 = iteration
        <5>1. Before \in Int /\ iteration \in Nat /\ usb_iterations \in Nat
          BY Numbers
        <5>2. QED
          BY <4>1, <5>1
      <4>3. Len(Filled) = ulWriteSize
        BY Numbers, FilledType DEF WholeParts, Typed, TypeOK
      <4>4. said'[n].id = "DATA_OUT" /\ said'[n].payload = Filled
        BY <2>1, <2>3, <3>2 DEF Data
      <4>5. \A j \in 1..ulWriteSize :
              iteration * ulWriteSize + j - 1 < size =>
                said'[n].payload[j] = iteration * ulWriteSize + j - 1
        BY <3>2, <4>4, FilledContent
      <4>6. ulWriteSize' = ulWriteSize
        BY DEF ulWriteSize
      <4>7. QED
        BY <1>1, <1>2, <4>2, <4>3, <4>4, <4>5, <4>6 DEF Says
    <3>3. CASE stage = "status"
      <4>1. ~(n <= Before) /\ ~(n <= Before + usb_iterations)
        BY SMTT(30), <1>4, <3>3, Numbers, ThroughType
      <4>2. QED
        BY <1>1, <1>2, <2>1, <2>3, <3>3, <4>1 DEF Says, None
    <3>4. QED
      BY <1>1, <3>1, <3>2, <3>3, Numbers
  <2>6. \A i \in 1..n : i \in 1..ops \/ i = n
    BY Numbers
  <2>7. QED
    BY <2>3, <2>4, <2>5, <2>6 DEF Content
<1>9. Ended' /\ Target'
  <2>1. ulWriteSize' = ulWriteSize
    BY DEF ulWriteSize
  <2>2. QED
    BY <1>1, <1>2, <2>1 DEF WholeParts, Ended, Target
<1>10. QED
  BY <1>5, <1>6, <1>7, <1>8, <1>9

\* Success of a Write: the device has its report.
LEMMA WriteDelivered ==
  ASSUME WholeParts, asked, pc = "idle", stage \in {"cbw", "loop", "last"}, ret.status = "SUCCESS"
  PROVE  Len(delivered) = ops
<1>1. timeouts = 0 /\ ret.op = "write" /\ ret.id = ops
  BY Numbers DEF WholeParts, Calling
<1>2. delivered # <<>> /\ delivered[Len(delivered)] = ops
  BY <1>1 DEF WholeParts, Carried, H!Exact, H!ExactWithoutTimeout
<1>3. Len(delivered) \in 1..Len(delivered)
  BY <1>2, Numbers
<1>4. QED
  BY <1>2, <1>3 DEF WholeParts, InOrder

\* Success of the Read of the status: the device has reported it.
LEMMA StatusReported ==
  ASSUME WholeParts, asked, pc = "idle", stage = "status", ret.status = "SUCCESS"
  PROVE  csw # "NONE"
<1>1. timeouts = 0 /\ ret.op = "read"
  BY Numbers DEF WholeParts, Calling
<1>2. taken > 0 /\ taken <= sent
  BY <1>1 DEF WholeParts, Carried, H!Exact, H!ExactWithoutTimeout, H!Ids
<1>3. QED
  BY <1>2, Numbers DEF WholeParts, Target

LEMMA WholeReturned ==
  ASSUME WholeParts, Cutting',
         CbwWritten \/ ChunkWritten \/ WriteFailed \/ LastWritten \/ StatusRead
  PROVE  (Calling /\ Counted /\ InOrder /\ Ended /\ Content /\ Target)'
<1>1. /\ stage # "done" /\ asked /\ pc = "idle" /\ asked' = FALSE /\ err' = ret.status
      /\ UNCHANGED <<pc, ops, ret, pending, apcs, delivered, sent, timeouts>>
      /\ UNCHANGED <<size, status, said, got, handled, csw>>
  BY DEF CbwWritten, ChunkWritten, WriteFailed, LastWritten, StatusRead, Returned,
         transport, file, target
<1>2. usb_iterations' = usb_iterations /\ Before' = Before /\ ulWriteSize' = ulWriteSize
  BY <1>1 DEF usb_iterations, ulWriteSize, Before
<1>3. /\ \/ /\ stage' \in {"loop", "last"} /\ stage \in {"cbw", "loop"} /\ ret.status = "SUCCESS"
            /\ ops = Before + iteration' /\ (stage' = "last" => iteration' = usb_iterations - 1)
         \/ /\ stage' = "status" /\ stage = "last" /\ status /\ iteration' = iteration
         \/ /\ stage' = "done" /\ iteration' = iteration
            /\ err' = "SUCCESS" => stage = "status" \/ (stage = "last" /\ ~status)
      /\ ops = Through + 1
  <2>1. ops = Through + 1
    BY <1>1 DEF WholeParts, Counted
  <2>2. CASE CbwWritten
    <3>1. /\ stage = "cbw" /\ iteration' = iteration /\ stage' \in {"loop", "last"}
          /\ stage' = "last" => ~InLoop
      BY <2>2 DEF CbwWritten, Loop
    <3>2. iteration = 0 /\ (InLoop <=> iteration < usb_iterations - 1)
      BY <3>1, Numbers, NoWrap DEF WholeParts, Calling
    <3>3. ops = Before + iteration' /\ ret.status = "SUCCESS"
      <4>1. Through = 0 /\ Before = 1
        BY <3>1, ThroughType
      <4>2. QED
        BY <2>1, <2>2, <3>1, <3>2, <4>1 DEF CbwWritten
    <3>4. stage' = "last" => iteration' = usb_iterations - 1
      BY <3>1, <3>2, Numbers
    <3>5. QED
      BY <2>1, <3>1, <3>3, <3>4
  <2>3. CASE ChunkWritten
    <3>1. /\ stage = "loop" /\ iteration' = iteration + 1 /\ stage' \in {"loop", "last"}
          /\ stage' = "last" => ~InLoop'
      BY <2>3 DEF ChunkWritten, Loop
    <3>2. InLoop' <=> iteration' < usb_iterations - 1
      <4>1. usb_iterations - 1 \in 0..(ULONGs - 1) /\ ULONGs \in Nat \ {0}
        BY Numbers, IterationsFit
      <4>2. (usb_iterations - 1) % ULONGs = usb_iterations - 1
        BY <4>1
      <4>3. QED
        BY <1>2, <4>2 DEF InLoop
    <3>3. iteration' <= usb_iterations - 1
      BY <1>1, <1>2, <3>1 DEF Cutting, WholeParts
    <3>4. ops = Before + iteration' /\ ret.status = "SUCCESS"
      <4>1. Through = Before + iteration /\ Before \in Int /\ iteration \in Int
        BY <3>1, Numbers, ThroughType
      <4>2. QED
        BY <2>1, <2>3, <3>1, <4>1 DEF ChunkWritten
    <3>5. stage' = "last" => iteration' = usb_iterations - 1
      <4>1. iteration' \in Int /\ usb_iterations \in Int
        BY <3>1, Numbers
      <4>2. QED
        BY <3>1, <3>2, <3>3, <4>1
    <3>6. QED
      BY <2>1, <3>1, <3>4, <3>5
  <2>4. CASE WriteFailed
    BY <1>1, <2>1, <2>4 DEF WriteFailed
  <2>5. CASE LastWritten
    BY <2>1, <2>5, Numbers DEF LastWritten
  <2>6. CASE StatusRead
    BY <2>1, <2>6 DEF StatusRead
  <2>7. QED
    BY <2>2, <2>3, <2>4, <2>5, <2>6
<1>4. Calling'
  <2>1. timeouts > 0 => stage = "status" /\ ret.status = "WAIT_TIMEOUT"
    BY <1>1 DEF WholeParts, Calling
  <2>2. stage = "status" => stage' = "done"
    BY <1>3
  <2>3. (stage \in {"last", "status"})' => iteration' = usb_iterations - 1
    BY <1>3 DEF WholeParts, Calling
  <2>4. stage' # "cbw" /\ (stage' = "status" => status)
    BY <1>3
  <2>5. QED
    BY <1>1, <1>2, <2>1, <2>2, <2>3, <2>4 DEF Calling
<1>5. Counted'
  <2>1. stage' # "done" => ops = Through'
    <3>1. CASE stage' \in {"loop", "last"}
      BY <1>2, <1>3, <3>1 DEF Through
    <3>2. CASE stage' = "status"
      <4>1. Through' = Before + usb_iterations /\ stage = "last"
        BY <1>2, <1>3, <3>2 DEF Through
      <4>2. QED
        BY SMTT(30), <1>3, <4>1, Numbers, ThroughType
    <3>3. QED
      BY <1>3, <3>1, <3>2
  <2>2. ops <= Before + usb_iterations + 1
    BY DEF WholeParts, Counted
  <2>3. QED
    BY <1>1, <1>2, <2>1, <2>2, Numbers DEF Counted
<1>6. InOrder'
  <2>1. stage' \in {"loop", "last"} => Len(delivered) = ops /\ ops = Through' /\ pending = {}
    <3> SUFFICES ASSUME stage' \in {"loop", "last"}
                 PROVE  Len(delivered) = ops /\ ops = Through' /\ pending = {}
      OBVIOUS
    <3>1. stage \in {"cbw", "loop"} /\ ret.status = "SUCCESS" /\ ops = Before + iteration'
      BY <1>3
    <3>2. timeouts = 0
      BY <3>1, Numbers DEF WholeParts, Calling
    <3>3. QED
      BY <1>1, <1>2, <3>1, <3>2, WriteDelivered, NoLeftovers DEF Through
  <2>2. stage' # "cbw"
    BY <1>3
  <2>3. /\ \A i \in 1..Len(delivered) : delivered[i] = i
        /\ \A r \in pending : r.kind = "write" => pc = "waitWrite"
        /\ Len(delivered) <= ops /\ Len(delivered) <= Before + usb_iterations
    BY DEF WholeParts, InOrder
  <2>4. QED
    BY <1>1, <1>2, <2>1, <2>2, <2>3 DEF InOrder
<1>7. Ended'
  <2> SUFFICES ASSUME stage' = "done", err' = "SUCCESS"
               PROVE  IF status THEN csw # "NONE" ELSE Len(delivered) = usb_iterations
    BY <1>1, <1>2 DEF Ended
  <2>1. CASE stage = "status"
    BY <1>1, <2>1, StatusReported DEF WholeParts, Calling
  <2>2. CASE stage = "last" /\ ~status
    <3>1. Len(delivered) = ops
      BY <1>1, <2>2, WriteDelivered
    <3>2. ops = Before + usb_iterations /\ Before = 0
      BY <1>3, <2>2, Numbers, ThroughType
    <3>3. QED
      BY <2>2, <3>1, <3>2, Numbers
  <2>3. QED
    BY <1>3, <2>1, <2>2
<1>8. Content'
  BY <1>1, SaysSame DEF WholeParts, Content
<1>9. Target'
  BY <1>1, <1>2 DEF WholeParts, Target
<1>10. QED
  BY <1>4, <1>5, <1>6, <1>7, <1>8, <1>9

LEMMA WholeTransport ==
  ASSUME WholeParts, Carried', Transport
  PROVE  (Calling /\ Counted /\ InOrder /\ Ended /\ Content /\ Target)'
<1>1. /\ UNCHANGED <<size, status, stage, asked, iteration, err, said, got, handled, csw, ops, sent>>
      /\ delivered' \in Seq(Nat) /\ Len(delivered) <= Len(delivered')
  BY TransportFrame DEF WholeParts, file, target
<1>2. /\ usb_iterations' = usb_iterations /\ Before' = Before /\ ulWriteSize' = ulWriteSize
      /\ Through' = Through
  BY <1>1 DEF usb_iterations, ulWriteSize, Before, Through
<1>3. CASE Hid!DeviceAccepts
  <2>1. PICK r \in pending : r.kind = "write" /\ pending' = pending \ {r}
    BY <1>3 DEF Hid!DeviceAccepts, Hid!OldestOf, Hid!Complete
  <2>2. pc = "waitWrite" /\ UNCHANGED <<pc, ret, writeBuf, timeouts>>
        /\ delivered' = Append(delivered, writeBuf)
    BY <1>3, <2>1 DEF Hid!DeviceAccepts, Hid!host, Hid!ghost, WholeParts, InOrder
  <2>3. asked /\ stage \in {"cbw", "loop", "last"} /\ timeouts = 0
    BY <2>2, Numbers DEF WholeParts, Calling
  <2>4. /\ Len(delivered) = Through /\ ops = Through + 1 /\ writeBuf = ops /\ pending' = {}
        /\ Through < Before + usb_iterations
    <3>1. Len(delivered) = Through /\ ops = Through + 1
      BY <2>1, <2>3 DEF WholeParts, InOrder, Counted
    <3>2. writeBuf = ops /\ pending \subseteq {[kind |-> "write", id |-> ops]}
      BY <2>2, <2>3, NoLeftovers
    <3>3. QED
      BY <2>1, <2>3, <3>1, <3>2, ThroughType
  <2>5. /\ Len(delivered') = ops
        /\ \A i \in 1..Len(delivered') : delivered'[i] = i
    <3>1. \A i \in 1..Len(delivered) : delivered[i] = i
      BY DEF WholeParts, InOrder
    <3>2. delivered \in Seq(Nat) /\ Len(delivered) \in Nat
      BY Numbers
    <3>3. QED
      BY <2>2, <2>4, <3>1, <3>2
  <2>6. ops <= Before + usb_iterations /\ ops \in Nat
    BY <2>4, Numbers, ThroughType
  <2>7. Calling' /\ Counted'
    BY <1>1, <1>2, <2>2 DEF WholeParts, Calling, Counted
  <2>8. InOrder'
    BY <1>1, <1>2, <2>4, <2>5, <2>6 DEF InOrder
  <2>9. Ended' /\ Target'
    <3>1. Ended'
      BY <1>1, <2>3 DEF Ended
    <3>2. csw = "PASSED" => Len(delivered') >= Before + usb_iterations
      BY <1>1, Numbers DEF WholeParts, Target
    <3>3. handled \in 0..Len(delivered')
      BY <1>1, Numbers DEF WholeParts, Target
    <3>4. QED
      BY <1>1, <1>2, <3>1, <3>2, <3>3 DEF WholeParts, Target
  <2>10. Content'
    BY <1>1, SaysSame DEF WholeParts, Content
  <2>11. QED
    BY <2>7, <2>8, <2>9, <2>10
<1>4. CASE ~Hid!DeviceAccepts
  <2>1. /\ delivered' = delivered /\ pending' \subseteq pending
        /\ \/ UNCHANGED <<pc, ret, timeouts>>
           \/ pc = "waitWrite" /\ pc' = "idle" /\ ret'.id = ops /\ ret'.op = "write" /\ timeouts' = timeouts
           \/ pc = "waitRead" /\ pc' = "idle" /\ ret'.id = ops /\ ret'.op = "read" /\ timeouts' = timeouts
           \/ pc = "waitRead" /\ pc' = "cancelRead" /\ timeouts' = timeouts
           \/ /\ pc = "cancelRead" /\ pc' = "idle" /\ ret'.id = ops /\ ret'.op = "read"
              /\ ret'.status = "WAIT_TIMEOUT"
    <3>1. CASE Hid!WriteReturns \/ Hid!ReadReturns
      BY <3>1 DEF Hid!WriteReturns, Hid!ReadReturns, Hid!Return, Hid!device
    <3>2. CASE Hid!ReadTimesOut
      BY <3>2 DEF Hid!ReadTimesOut, Hid!device, Hid!kernel, Hid!ghost
    <3>3. CASE Hid!CancelRead
      BY <3>3 DEF Hid!CancelRead, Hid!Return, Hid!device
    <3>4. CASE Hid!ReportArrives
      BY <3>4 DEF Hid!ReportArrives, Hid!Complete, Hid!host, Hid!ghost
    <3>5. CASE Hid!RequestFails
      BY <3>5 DEF Hid!RequestFails, Hid!Complete, Hid!host, Hid!device, Hid!ghost
    <3>6. QED
      BY <1>4, <3>1, <3>2, <3>3, <3>4, <3>5 DEF Transport, Hid!HostStep, Hid!Driver
  <2>2. pc # "idle" => asked /\ stage # "done" /\ (timeouts = 0)
    BY <1>1, Numbers DEF WholeParts, Calling
  <2>3. pc \in {"waitRead", "cancelRead"} => stage = "status"
    BY <1>1, <2>2 DEF WholeParts, Calling
  <2>4. pc = "waitWrite" => stage # "status"
    BY <2>2 DEF WholeParts, Calling
  <2>5. Calling'
    <3>1. CASE UNCHANGED <<pc, ret, timeouts>>
      BY <1>1, <1>2, <3>1 DEF WholeParts, Calling
    <3>2. CASE ~UNCHANGED <<pc, ret, timeouts>>
      BY <1>1, <1>2, <2>1, <2>2, <2>3, <2>4, <3>2 DEF WholeParts, Calling
    <3>3. QED
      BY <3>1, <3>2
  <2>6. \A r \in pending' : r.kind = "write" => pc' = "waitWrite"
    <3> SUFFICES ASSUME NEW r \in pending', r.kind = "write" PROVE pc' = "waitWrite"
      OBVIOUS
    <3>1. pc = "waitWrite"
      BY <2>1 DEF WholeParts, InOrder
    <3>2. pc' = "idle" => timeouts' = 0 /\ pending' = {}
      BY <2>1, <2>2, <3>1 DEF Carried, H!Exact
    <3>3. QED
      BY <2>1, <3>1, <3>2
  <2>7. Counted' /\ Ended' /\ Target'
    BY <1>1, <1>2, <2>1 DEF WholeParts, Counted, Ended, Target
  <2>8. InOrder'
    BY <1>1, <1>2, <2>1, <2>6 DEF WholeParts, InOrder
  <2>9. Content'
    BY <1>1, SaysSame DEF WholeParts, Content
  <2>10. QED
    BY <2>5, <2>7, <2>8, <2>9
<1>5. QED
  BY <1>3, <1>4

LEMMA WholeHandles ==
  ASSUME WholeParts, DeviceHandles
  PROVE  (Calling /\ Counted /\ InOrder /\ Ended /\ Content /\ Target)'
<1>1. /\ handled < Len(delivered) /\ handled' = handled + 1
      /\ UNCHANGED <<pc, ops, ret, pending, delivered, sent, timeouts, size, status, stage, asked,
                     iteration, err, said, csw>>
  BY DEF DeviceHandles, transport, file
<1>2. /\ usb_iterations' = usb_iterations /\ Before' = Before /\ ulWriteSize' = ulWriteSize
      /\ Through' = Through
  BY <1>1 DEF usb_iterations, ulWriteSize, Before, Through
<1>3. /\ handled \in Nat /\ Len(delivered) \in Nat /\ got \in Seq(Int) /\ Len(got) \in Nat
      /\ size - Len(got) \in Nat /\ said \in Seq(Sheets) /\ Len(said) = ops
  BY Numbers DEF WholeParts, Typed, Content
<1>4. PICK d \in 1..ops : d = delivered[handled + 1] /\ d = handled + 1
  <2>1. handled + 1 \in 1..Len(delivered) /\ Len(delivered) <= ops
    BY <1>1, <1>3 DEF WholeParts, InOrder
  <2>2. delivered[handled + 1] = handled + 1
    BY <2>1 DEF WholeParts, InOrder
  <2>3. QED
    BY <2>1, <2>2, Numbers
<1>5. PICK p \in Seq(Int) : p = said[d].payload
  <2>1. said[d] \in Sheets
    BY <1>3, <1>4
  <2>2. QED
    BY <2>1 DEF Sheets
<1>6. PICK n \in 0..Len(p) : Len(got') = Len(got) + n
  <2>1. PICK m \in 0..Len(p) : got' = got \o SubSeq(p, 1, m)
    <3>1. Len(p) \in Nat
      BY <1>5
    <3>2. got' = got \o SubSeq(p, 1, IF Len(p) <= size - Len(got) THEN Len(p) ELSE size - Len(got))
      BY <1>4, <1>5 DEF DeviceHandles
    <3>3. CASE Len(p) <= size - Len(got)
      <4>1. Len(p) \in 0..Len(p) /\ got' = got \o SubSeq(p, 1, Len(p))
        BY <3>1, <3>2, <3>3
      <4>2. QED
        BY <4>1
    <3>4. CASE ~(Len(p) <= size - Len(got))
      <4>1. got' = got \o SubSeq(p, 1, size - Len(got))
        BY <3>2, <3>4
      <4>2. size - Len(got) \in 0..Len(p)
        BY <1>3, <3>1, <3>4
      <4>3. QED
        BY <4>1, <4>2
    <3>5. QED
      BY <3>3, <3>4
  <2>2. SubSeq(p, 1, m) \in Seq(Int) /\ Len(SubSeq(p, 1, m)) = m
    BY <1>5, <2>1
  <2>3. QED
    BY <1>3, <2>1, <2>2
<1>7. Len(p) <= (IF d <= Before THEN 0 ELSE ulWriteSize)
  <2>1. Says(d)
    BY <1>4 DEF WholeParts, Content
  <2>2. CASE d <= Before
    BY <1>5, <2>1, <2>2 DEF Says, Cbw
  <2>3. CASE ~(d <= Before) /\ d <= Before + usb_iterations
    BY <1>5, <2>1, <2>3, Numbers DEF Says
  <2>4. d <= Before + usb_iterations
    <3>1. Len(delivered) <= Before + usb_iterations
      BY DEF WholeParts, InOrder
    <3>2. d <= Len(delivered) /\ d \in Nat
      BY <1>1, <1>3, <1>4
    <3>3. Before + usb_iterations \in Int
      <4>1. Before \in Int /\ usb_iterations \in Int
        BY Numbers
      <4>2. QED
        BY <4>1
    <3>4. QED
      BY <1>3, <3>1, <3>2, <3>3
  <2>5. QED
    BY <2>2, <2>3, <2>4
<1>8. Len(got') <= (handled' - Before) * ulWriteSize
  <2>1. ulWriteSize \in Nat /\ Before \in {0, 1} /\ Len(p) \in Nat
    BY <1>5, Numbers
  <2>2. CASE handled = 0
    <3>1. Len(got) = 0
      BY <2>2 DEF WholeParts, Target
    <3>2. CASE Before = 1
      <4>1. Len(p) = 0 /\ handled' - Before = 0
        BY <1>1, <1>4, <1>7, <2>1, <2>2, <3>2
      <4>2. 0 * ulWriteSize = 0
        BY <2>1
      <4>3. QED
        BY <1>6, <3>1, <4>1, <4>2
    <3>3. CASE Before = 0
      <4>1. Len(p) <= ulWriteSize /\ handled' - Before = 1
        BY <1>1, <1>4, <1>7, <2>1, <2>2, <3>3
      <4>2. 1 * ulWriteSize = ulWriteSize
        BY <2>1
      <4>3. QED
        BY <1>6, <2>1, <3>1, <4>1, <4>2
    <3>4. QED
      BY <2>1, <3>2, <3>3
  <2>3. CASE handled > 0
    <3>1. Len(got) <= (handled - Before) * ulWriteSize
      BY <1>3, <2>3 DEF WholeParts, Target
    <3>2. Len(p) <= ulWriteSize
      BY <1>7, <2>1
    <3>3. PICK h \in Int : h = handled - Before /\ handled' - Before = h + 1
      BY <1>1, <1>3, <2>1
    <3>4. (h + 1) * ulWriteSize = h * ulWriteSize + ulWriteSize /\ h * ulWriteSize \in Int
      BY SMTT(30), <2>1, <3>3
    <3>5. QED
      BY <1>3, <1>6, <2>1, <3>1, <3>2, <3>3, <3>4
  <2>4. QED
    BY <1>3, <2>2, <2>3
<1>9. Target'
  <2>1. handled' \in 0..Len(delivered) /\ handled' # 0
    BY <1>1, <1>3
  <2>2. QED
    BY <1>1, <1>2, <1>8, <2>1 DEF WholeParts, Target
<1>10. Calling' /\ Counted' /\ InOrder' /\ Ended'
  BY <1>1, <1>2 DEF WholeParts, Calling, Counted, InOrder, Ended
<1>11. Content'
  BY <1>1, SaysSame DEF WholeParts, Content
<1>12. QED
  BY <1>9, <1>10, <1>11

LEMMA WholeReports ==
  ASSUME WholeParts, DeviceReports
  PROVE  (Calling /\ Counted /\ InOrder /\ Ended /\ Content /\ Target)'
<1>1. /\ status /\ handled > 0 /\ csw' # "NONE" /\ (csw' = "PASSED" => Len(got) = size)
      /\ UNCHANGED <<pc, ops, ret, pending, delivered, timeouts, size, status, stage, asked,
                     iteration, err, said, got, handled>>
  BY DEF DeviceReports, Hid!DeviceSends, Hid!host, Hid!kernel, Hid!ghost, file
<1>2. /\ usb_iterations' = usb_iterations /\ Before' = Before /\ ulWriteSize' = ulWriteSize
      /\ Through' = Through
  BY <1>1 DEF usb_iterations, ulWriteSize, Before, Through
<1>3. Calling' /\ Counted' /\ InOrder' /\ Ended'
  BY <1>1, <1>2 DEF WholeParts, Calling, Counted, InOrder, Ended
<1>4. Content'
  BY <1>1, SaysSame DEF WholeParts, Content
<1>5. ASSUME Len(got) = size PROVE Len(delivered) >= Before + usb_iterations
  <2>1. /\ handled \in Nat /\ handled <= Len(delivered) /\ Len(delivered) \in Nat
        /\ size <= (handled - Before) * ulWriteSize
    BY <1>1, <1>5, Numbers DEF WholeParts, Target
  <2>2. (usb_iterations - 1) * ulWriteSize < size /\ ulWriteSize \in Nat \ {0} /\ size \in Nat
        /\ usb_iterations \in Nat /\ Before \in {0, 1}
    BY Numbers
  <2>3. PICK h \in Int, q \in Int : h = handled - Before /\ q = usb_iterations - 1
    BY <2>1, <2>2
  <2>4. q * ulWriteSize < h * ulWriteSize
    BY <2>1, <2>2, <2>3
  <2>5. h > q
    <3>1. h <= q => h * ulWriteSize <= q * ulWriteSize
      BY <2>2, <2>3
    <3>2. h * ulWriteSize \in Int /\ q * ulWriteSize \in Int
      BY <2>2, <2>3
    <3>3. QED
      BY <2>3, <2>4, <3>1, <3>2
  <2>6. QED
    BY <2>1, <2>2, <2>3, <2>5
<1>6. Target'
  BY <1>1, <1>2, <1>5 DEF WholeParts, Target
<1>7. QED
  BY <1>3, <1>4, <1>6

LEMMA WholeInit == Init => WholeInv
<1> SUFFICES ASSUME Init, size > 0
             PROVE  Calling /\ Counted /\ InOrder /\ Ended /\ Content /\ Target
  BY DEF WholeInv
<1>1. /\ size \in Sizes /\ status \in BOOLEAN /\ iteration = 0 /\ asked = FALSE
      /\ said = <<>> /\ got = <<>> /\ handled = 0 /\ csw = "NONE"
      /\ ops = 0 /\ delivered = <<>> /\ pc = "idle" /\ pending = {} /\ timeouts = 0 /\ sent = 0
  BY Zenon DEF Init, Hid!Init
<1>2. \/ stage = "cbw" /\ status
      \/ stage = "loop" /\ ~status
      \/ stage = "last" /\ ~status /\ ~InLoop
  BY <1>1 DEF Init, Loop
<1>3. /\ usb_iterations \in Nat \ {0} /\ (InLoop <=> iteration < usb_iterations - 1)
      /\ Before \in {0, 1} /\ (~status => Before = 0)
  BY <1>1, Reports, NoWrap DEF Before
<1>4. stage \in {"cbw", "loop", "last"} /\ Through = 0
  BY <1>1, <1>2, <1>3 DEF Through
<1>5. Calling
  BY <1>1, <1>2, <1>3 DEF Calling
<1>6. Counted
  BY <1>1, <1>3, <1>4 DEF Counted
<1>7. InOrder
  BY <1>1, <1>3, <1>4 DEF InOrder
<1>8. Ended /\ Content /\ Target
  BY <1>1, <1>4 DEF Ended, Content, Target
<1>9. QED
  BY <1>5, <1>6, <1>7, <1>8

LEMMA WholeStep ==
  Typed /\ Cutting /\ Cutting' /\ Carried /\ Carried' /\ WholeInv /\ [Next]_vars => WholeInv'
<1> SUFFICES ASSUME Typed, Cutting, Cutting', Carried, Carried', WholeInv, [Next]_vars, size' > 0
             PROVE  (Calling /\ Counted /\ InOrder /\ Ended /\ Content /\ Target)'
  BY DEF WholeInv
<1>1. size' = size
  BY DEF Next, HostStep, WriteCbw, WriteData, ReadStatus, Returned, CbwWritten,
         ChunkWritten, WriteFailed, LastWritten, StatusRead, Transport, DeviceHandles,
         DeviceReports, Finished, file, vars
<1>2. WholeParts
  BY <1>1 DEF WholeInv, WholeParts
<1>3. CASE UNCHANGED vars
  <2>1. UNCHANGED <<pc, ops, ret, pending, delivered, timeouts, sent, size, status, stage, asked,
                    iteration, err, said, got, handled, csw>>
    BY <1>3 DEF vars, transport, file, target
  <2>2. /\ usb_iterations' = usb_iterations /\ Before' = Before /\ ulWriteSize' = ulWriteSize
        /\ Through' = Through
    BY <2>1 DEF usb_iterations, ulWriteSize, Before, Through
  <2>3. Content'
    BY <1>2, <2>1, SaysSame DEF WholeParts, Content
  <2>4. QED
    BY <1>2, <2>1, <2>2, <2>3 DEF WholeParts, Calling, Counted, InOrder, Ended, Target
<1>4. QED
  BY <1>2, <1>3, WholeCall, WholeReturned, WholeTransport, WholeHandles, WholeReports
     DEF Next, HostStep, Finished

\* A download that ends without an error, on a device that does not fail it, has put
\* every byte of the file in its place, for every length of file and report and every
\* timing of the transport, although the result of the last Write is dropped
\* (sthiddevice.cpp:138-154).
THEOREM DeliversWhole == Spec => []Whole
<1>1. Typed /\ Cutting /\ Carried /\ WholeInv => Whole
  <2> SUFFICES ASSUME Typed, Cutting, Carried, WholeInv, stage = "done", err = "SUCCESS",
                      size > 0, csw # "FAILED"
               PROVE  /\ Before = 1 => Accepted[1] = Cbw(size)
                      /\ \A i \in 1..Len(Blocks) : Blocks[i].id = "DATA_OUT"
                      /\ (Len(Blocks) - 1) * ulWriteSize < size
                      /\ size <= Len(Blocks) * ulWriteSize
                      /\ \A k \in 0..(size - 1) :
                           Blocks[(k \div ulWriteSize) + 1].payload[(k % ulWriteSize) + 1] = k
    BY DEF Whole
  <2>1. WholeParts
    BY DEF WholeInv, WholeParts
  <2>2. /\ size \in Nat \ {0} /\ ulWriteSize \in Nat \ {0} /\ usb_iterations \in Nat \ {0}
        /\ (usb_iterations - 1) * ulWriteSize < size /\ size <= usb_iterations * ulWriteSize
        /\ Before \in {0, 1} /\ delivered \in Seq(Nat)
    BY <2>1, Numbers
  <2>3. Len(delivered) = Before + usb_iterations
    <3>1. CASE status
      <4>1. csw = "PASSED"
        BY <2>1, <3>1 DEF WholeParts, Ended, Typed, TypeOK
      <4>2. Len(delivered) >= Before + usb_iterations /\ Len(delivered) <= Before + usb_iterations
        BY <2>1, <4>1 DEF WholeParts, Target, InOrder
      <4>3. QED
        BY <2>2, <4>2
    <3>2. CASE ~status
      BY <2>1, <2>2, <3>2 DEF WholeParts, Ended, Before
    <3>3. QED
      BY <3>1, <3>2
  <2>4. \A i \in 1..(Before + usb_iterations) :
          Accepted[i] = said[i] /\ Says(i)
    <3> SUFFICES ASSUME NEW i \in 1..(Before + usb_iterations)
                 PROVE  Accepted[i] = said[i] /\ Says(i)
      OBVIOUS
    <3>1. i \in 1..Len(delivered) /\ Len(delivered) <= ops /\ ops \in Nat
      BY <2>1, <2>3, Numbers DEF WholeParts, InOrder
    <3>2. delivered[i] = i
      BY <2>1, <3>1 DEF WholeParts, InOrder
    <3>3. i \in 1..ops
      BY <2>2, <3>1
    <3>4. QED
      BY <2>1, <3>1, <3>2, <3>3 DEF Accepted, WholeParts, Content
  <2>5. Len(Accepted) = Before + usb_iterations
    BY <2>2, <2>3 DEF Accepted
  <2>6. Len(Blocks) = usb_iterations /\ \A i \in 1..usb_iterations : Blocks[i] = Accepted[Before + i]
    BY <2>2, <2>5 DEF Blocks
  <2>7. Before = 1 => Accepted[1] = Cbw(size)
    BY <2>2, <2>4 DEF Says
  <2>8. ASSUME NEW i \in 1..usb_iterations
        PROVE  /\ Blocks[i].id = "DATA_OUT"
               /\ \A j \in 1..ulWriteSize :
                    (i - 1) * ulWriteSize + j - 1 < size =>
                      Blocks[i].payload[j] = (i - 1) * ulWriteSize + j - 1
    <3>1. PICK n \in 1..(Before + usb_iterations) :
            n = Before + i /\ ~(n <= Before) /\ n - Before - 1 = i - 1
      BY <2>2, <2>8
    <3>2. Blocks[i] = said[n] /\ Says(n)
      BY <2>4, <2>6, <3>1
    <3>3. QED
      BY <3>1, <3>2 DEF Says
  <2>9. ASSUME NEW k \in 0..(size - 1)
        PROVE  Blocks[(k \div ulWriteSize) + 1].payload[(k % ulWriteSize) + 1] = k
    <3>1. PICK q \in Nat, r \in 0..(ulWriteSize - 1) :
            q = k \div ulWriteSize /\ r = k % ulWriteSize /\ k = q * ulWriteSize + r
      <4>1. k \in Nat /\ ulWriteSize \in Nat \ {0}
        BY <2>2, <2>9
      <4>2. QED
        BY <4>1
    <3>2. q * ulWriteSize < usb_iterations * ulWriteSize
      <4>1. q * ulWriteSize \in Nat /\ usb_iterations * ulWriteSize \in Nat
        BY <2>2, <3>1
      <4>2. QED
        BY <2>2, <2>9, <3>1, <4>1
    <3>3. q < usb_iterations
      <4>1. usb_iterations <= q => usb_iterations * ulWriteSize <= q * ulWriteSize
        <5> SUFFICES ASSUME usb_iterations <= q
                     PROVE  usb_iterations * ulWriteSize <= q * ulWriteSize
          OBVIOUS
        <5>1. PICK d \in Nat : q = usb_iterations + d
          BY <2>2, <3>1
        <5>2. (usb_iterations + d) * ulWriteSize = usb_iterations * ulWriteSize + d * ulWriteSize
              /\ d * ulWriteSize \in Nat /\ usb_iterations * ulWriteSize \in Nat
          BY <2>2, <5>1
        <5>3. QED
          BY <5>1, <5>2
      <4>2. q * ulWriteSize \in Nat /\ usb_iterations * ulWriteSize \in Nat
        BY <2>2, <3>1
      <4>3. QED
        BY <2>2, <3>1, <3>2, <4>1, <4>2
    <3>4. PICK i \in 1..usb_iterations, j \in 1..ulWriteSize :
            i = q + 1 /\ j = r + 1 /\ i - 1 = q /\ j - 1 = r
      <4>1. q + 1 \in 1..usb_iterations /\ r + 1 \in 1..ulWriteSize
        BY <2>2, <3>1, <3>3
      <4>2. (q + 1) - 1 = q /\ (r + 1) - 1 = r
        BY <3>1
      <4>3. QED
        BY <4>1, <4>2
    <3>5. (i - 1) * ulWriteSize + j - 1 = k /\ k < size
      <4>1. q * ulWriteSize \in Nat
        BY <2>2, <3>1
      <4>2. (i - 1) * ulWriteSize = q * ulWriteSize
        BY <3>4
      <4>3. QED
        BY <2>2, <2>9, <3>1, <3>4, <4>1, <4>2
    <3>6. Blocks[i].payload[j] = k
      BY <2>8, <3>5
    <3>7. QED
      BY <3>1, <3>4, <3>6
  <2>10. QED
    BY <2>2, <2>6, <2>7, <2>8, <2>9
<1>2. QED
  BY <1>1, CuttingInit, CuttingStep, CarriedInit, CarriedStep, TypedInit, TypedStep,
     WholeInit, WholeStep, PTL DEF Spec
=============================================================================
