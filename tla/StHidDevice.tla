---------------------------- MODULE StHidDevice ----------------------------
(***************************************************************************)
(* CStHidDevice::Download (sthiddevice.cpp): the file goes to the device   *)
(* as a command block, data reports and, on the parts that have it, a      *)
(* status report.  The reports go through Write and Read of HidDevice.     *)
(*                                                                         *)
(* The file is counted in bytes; byte k of it is the number k.             *)
(***************************************************************************)
EXTENDS Integers, Sequences, FiniteSets

CONSTANTS
  InLen, OutLen, MaxOps,  \* of HidDevice; MaxOps never binds
  Sizes,                  \* lengths of files
  ULONGs                  \* 2 to the width of a ULONG

ASSUME ReportAssumption ==
  OutLen \in Nat /\ OutLen > 1 /\ InLen \in Nat \ {0} /\ MaxOps \in Nat
ASSUME SizeAssumption   ==
  ULONGs \in Nat \ {0} /\ Sizes \subseteq {n \in Nat : n + OutLen < ULONGs}

VARIABLES
  pc, ops, overlapped, signalled, writeBuf, readBuf, ret, pending, apcs,
  delivered, sent, taken, timeouts, okWrites, okReads,     \* of HidDevice
  size,                \* length of the file
  status,              \* the part is an MX23 or MX28: command block and status
  stage,               \* the report that is next, or "done"
  asked,               \* its Write or Read has been called
  iteration, current_pos_in_arr, err,
  m_pWriteReport,      \* its payload
  said,                \* for each call of Write or Read, the report it wrote
  got,                 \* external: bytes of the transfer the device has handled
  handled,             \* external: output reports the device has handled
  csw                  \* external: the status it has reported

transport == <<pc, ops, overlapped, signalled, writeBuf, readBuf, ret, pending,
               apcs, delivered, sent, taken, timeouts, okWrites, okReads>>
file   == <<size, status>>
target == <<got, handled, csw>>
vars   == <<transport, file, stage, asked, iteration, current_pos_in_arr, err,
            m_pWriteReport, said, target>>

Hid == INSTANCE HidDevice

Pad  == -1     \* 0xDB, or part of a command block
Junk == -2     \* whatever lies behind the file in memory

\* Reports: the command block with the length of the transfer, or data.
Cbw(length)   == [id |-> "COMMAND_OUT", length |-> length, payload |-> <<>>]
Data(payload) == [id |-> "DATA_OUT", length |-> 0, payload |-> payload]
None          == [id |-> "NONE", length |-> 0, payload |-> <<>>]

-----------------------------------------------------------------------------
(* How the file is cut.                                                     *)

ulWriteSize == OutLen - 1

\* Mutant: the incomplete report at the end is forgotten.
OnlyFullReports == size \div ulWriteSize

usb_iterations ==
  (size \div ulWriteSize) + (IF size % ulWriteSize # 0 THEN 1 ELSE 0)

\* Mutant: the loop sends the last report too.
OneIterationTooMany == iteration < usb_iterations

\* The loop before the last report: ULONG arithmetic, so 0 - 1 wraps round.
InLoop == iteration < (usb_iterations - 1) % ULONGs

\* Mutant: the last report is not cut to what the file has left.
LastIsFull == ulWriteSize

\* Bytes of the last report.
LastSize ==
  LET rest == IF current_pos_in_arr + ulWriteSize > size
              THEN (size - current_pos_in_arr) % ULONGs ELSE ulWriteSize
  IN  IF rest >= OutLen THEN OutLen - 1 ELSE rest

ChunkSize == IF stage = "loop" THEN ulWriteSize ELSE LastSize

FileByte(k) == IF k < size THEN k ELSE Junk

\* memset and memcpy cover the chunk; behind it the previous report remains.
Filled ==
  [i \in 1..ulWriteSize |->
     IF i <= ChunkSize THEN FileByte(current_pos_in_arr + i - 1)
     ELSE m_pWriteReport[i]]

-----------------------------------------------------------------------------
(* The host.                                                                *)

\* The stage that follows the command block, or a report of the loop.
Loop(more) == IF more THEN "loop" ELSE "last"

MayCall == stage # "done" /\ pc = "idle" /\ ~asked

WriteCbw ==
  /\ MayCall /\ stage = "cbw"
  /\ Hid!StartWrite \/ Hid!WriteRefused
  /\ said' = Append(said, Cbw(size))
  /\ asked' = TRUE
  /\ UNCHANGED <<file, stage, iteration, current_pos_in_arr, err, m_pWriteReport, target>>

WriteData ==
  /\ MayCall /\ stage \in {"loop", "last"}
  /\ m_pWriteReport' = Filled
  /\ Hid!StartWrite \/ Hid!WriteRefused
  /\ said' = Append(said, Data(Filled))
  /\ asked' = TRUE
  /\ UNCHANGED <<file, stage, iteration, current_pos_in_arr, err, target>>

ReadStatus ==
  /\ MayCall /\ stage = "status"
  /\ Hid!StartRead \/ Hid!ReadRefused
  /\ said' = Append(said, None)
  /\ asked' = TRUE
  /\ UNCHANGED <<file, stage, iteration, current_pos_in_arr, err, m_pWriteReport, target>>

Returned ==
  /\ stage # "done" /\ asked /\ pc = "idle"
  /\ asked' = FALSE
  /\ err' = ret.status
  /\ UNCHANGED <<transport, file, m_pWriteReport, said, target>>

CbwWritten ==
  /\ Returned /\ stage = "cbw" /\ ret.status = "SUCCESS"
  /\ stage' = Loop(InLoop)
  /\ UNCHANGED <<iteration, current_pos_in_arr>>

ChunkWritten ==
  /\ Returned /\ stage = "loop" /\ ret.status = "SUCCESS"
  /\ iteration' = iteration + 1
  /\ current_pos_in_arr' = current_pos_in_arr + ulWriteSize
  /\ stage' = Loop(InLoop')

\* CancelIo, and the error is returned.
WriteFailed ==
  /\ Returned /\ stage \in {"cbw", "loop"} /\ ret.status # "SUCCESS"
  /\ stage' = "done"
  /\ UNCHANGED <<iteration, current_pos_in_arr>>

\* Whatever became of the last Write, the status is read if the part has one.
LastWritten ==
  /\ Returned /\ stage = "last"
  /\ stage' = IF status THEN "status" ELSE "done"
  /\ UNCHANGED <<iteration, current_pos_in_arr>>

\* Its content is not looked at; its error replaces that of the last Write.
StatusRead ==
  /\ Returned /\ stage = "status"
  /\ stage' = "done"
  /\ UNCHANGED <<iteration, current_pos_in_arr>>

-----------------------------------------------------------------------------
(* The transport and the device.                                            *)

Transport ==
  /\ Hid!HostStep \/ Hid!Driver
  /\ UNCHANGED <<file, stage, asked, iteration, current_pos_in_arr, err,
                 m_pWriteReport, said, target>>

\* The device takes data up to the length it was told.
DeviceHandles ==
  /\ handled < Len(delivered)
  /\ handled' = handled + 1
  /\ LET report == said[delivered[handled + 1]]
         room   == size - Len(got)
     IN  got' = got \o SubSeq(report.payload, 1,
                         IF Len(report.payload) <= room THEN Len(report.payload) ELSE room)
  /\ UNCHANGED <<csw, transport, file, stage, asked, iteration, current_pos_in_arr, err,
                 m_pWriteReport, said>>

\* It passes the transfer once it has had all of it; it may fail it before.
DeviceReports ==
  /\ status /\ csw = "NONE" /\ handled > 0
  /\ csw' \in {"FAILED"} \cup (IF Len(got) = size THEN {"PASSED"} ELSE {})
  /\ Hid!DeviceSends
  /\ UNCHANGED <<file, stage, asked, iteration, current_pos_in_arr, err,
                 m_pWriteReport, said, got, handled>>

Finished == stage = "done" /\ UNCHANGED vars

Init ==
  /\ Hid!Init
  /\ size \in Sizes /\ status \in BOOLEAN
  /\ iteration = 0 /\ current_pos_in_arr = 0 /\ err = "SUCCESS"
  /\ stage = IF status THEN "cbw" ELSE Loop(InLoop)
  /\ asked = FALSE
  /\ m_pWriteReport = [i \in 1..ulWriteSize |-> Pad]
  /\ said = <<>> /\ got = <<>> /\ handled = 0 /\ csw = "NONE"

HostStep == WriteCbw \/ WriteData \/ ReadStatus \/ CbwWritten \/ ChunkWritten
            \/ WriteFailed \/ LastWritten \/ StatusRead

Next == HostStep \/ Transport \/ DeviceHandles \/ DeviceReports \/ Finished

Spec == Init /\ [][Next]_vars

\* As in HidDevice: nothing is assumed of the device.
FairSpec ==
  /\ Spec
  /\ WF_vars(HostStep)
  /\ WF_vars(Transport /\ Hid!HostStep)
  /\ WF_vars(Transport /\ (Hid!DeviceAccepts \/ Hid!WriteFails))

-----------------------------------------------------------------------------
(* Properties.                                                              *)

TypeOK ==
  /\ size \in Sizes /\ status \in BOOLEAN /\ asked \in BOOLEAN
  /\ stage \in {"cbw", "loop", "last", "status", "done"}
  /\ err \in Hid!Statuses
  /\ iteration \in Nat /\ (size > 0 => iteration < usb_iterations)
  /\ current_pos_in_arr \in Nat
  /\ m_pWriteReport \in [1..ulWriteSize -> Nat \cup {Pad, Junk}]
  /\ Len(said) = ops /\ handled <= Len(delivered)
  /\ csw \in {"NONE", "PASSED", "FAILED"}

\* Only bytes of the file are taken (sthiddevice.cpp:106, :134).
InFile ==
  stage \in {"loop", "last"} => current_pos_in_arr + ChunkSize <= size

\* "splitting in the right number of blocks" (sthiddevice.cpp:86): so it is for
\* every file that is not empty.
ReadsInFile == size > 0 => InFile

\* The reports the device has accepted, in order; the first is the command block on
\* the parts that have one.
Accepted == [i \in 1..Len(delivered) |-> said[delivered[i]]]
Before   == IF status THEN 1 ELSE 0
Blocks   == [i \in 1..(Len(Accepted) - Before) |-> Accepted[Before + i]]

\* A download that ends without an error has delivered every byte of the file,
\* each in its place, in as few reports as it takes, although the result of the last
\* Write gives way to that of Read (sthiddevice.cpp:138-154).  Not so if the device
\* fails the transfer, as the content of its status is not looked at.
Whole ==
  (stage = "done" /\ err = "SUCCESS" /\ size > 0 /\ csw # "FAILED") =>
     /\ Before = 1 => Accepted[1] = Cbw(size)
     /\ \A i \in 1..Len(Blocks) : Blocks[i].id = "DATA_OUT"
     /\ (Len(Blocks) - 1) * ulWriteSize < size /\ size <= Len(Blocks) * ulWriteSize
     /\ \A k \in 0..(size - 1) :
          Blocks[(k \div ulWriteSize) + 1].payload[(k % ulWriteSize) + 1] = k

\* The download ends, with a device that takes nothing or never reports.
DownloadEnds == <>(stage = "done")
=============================================================================
