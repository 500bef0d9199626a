----------------------------- MODULE HidDevice -----------------------------
(***************************************************************************)
(* The overlapped I/O of CHidDevice (HidDevice.cpp): Write, Read, the two  *)
(* completion routines, and the part of Windows they rely on (external):   *)
(* the driver's queue of pending requests, the thread's queue of APCs,     *)
(* CancelIo and the alertable wait.                                        *)
(*                                                                         *)
(* The host is one thread.  A call submits one request and then waits      *)
(* alertably; completion routines run only inside such a wait, all the     *)
(* queued ones, oldest first.  Both directions share one OVERLAPPED, whose *)
(* hEvent holds the size of the latest call and whose Offset is the        *)
(* verdict.  A read that times out asks for cancellation and returns       *)
(* without waiting for its completion, which may then come back inside the *)
(* wait of a later call: that is what the properties are about.            *)
(***************************************************************************)
EXTENDS Naturals, Sequences, FiniteSets

CONSTANTS InLen,     \* m_Capabilities.InputReportByteLength
          OutLen,    \* m_Capabilities.OutputReportByteLength
          MaxOps     \* bound: the caller makes at most this many calls

ASSUME SizesAssumption == InLen \in Nat \ {0} /\ OutLen \in Nat \ {0}
ASSUME MaxOpsAssumption == MaxOps \in Nat

VARIABLES
  pc,          \* where the host thread is
  ops,         \* calls made so far; the latest one has this id
  overlapped,  \* m_overlapped: Offset is the verdict, hEvent the wanted size
  signalled,   \* "write" for m_sync_event_tx, "read" for m_sync_event_rx
  writeBuf,    \* the call whose report m_pWriteReport holds
  readBuf,     \* the input report m_pReadReport holds, 0 when zeroed
  ret,         \* what the latest call returned
  pending,     \* requests the driver holds
  apcs,        \* completions queued to the thread
  delivered,   \* for each report the device accepted, its content
  sent,        \* input reports the device has produced
  taken,       \* input reports the driver has taken from the device
  timeouts,    \* Reads that ended in WAIT_TIMEOUT after submitting
  okWrites,    \* Writes that returned ERROR_SUCCESS
  okReads      \* Reads that returned ERROR_SUCCESS

host   == <<pc, ops, overlapped, signalled, writeBuf, ret>>
kernel == <<pending, apcs>>
device == <<delivered, sent, taken>>
ghost  == <<timeouts, okWrites, okReads>>
vars   == <<host, readBuf, kernel, device, ghost>>

Kinds    == {"read", "write"}
Requests == [kind : Kinds, id : Nat]
Apcs     == [kind : Kinds, id : Nat, err : Nat, bytes : Nat, at : Nat]
Statuses == {"SUCCESS", "FAILED", "WAIT_TIMEOUT", "ERROR"}
Returns  == [op : Kinds, id : Nat, status : Statuses]

Init ==
  /\ pc = "idle" /\ ops = 0
  /\ overlapped = [Offset |-> 0, hEvent |-> 0]
  /\ signalled = {}
  /\ writeBuf = 0 /\ readBuf = 0
  /\ ret = [op |-> "write", id |-> 0, status |-> "ERROR"]
  /\ pending = {} /\ apcs = <<>>
  /\ delivered = <<>> /\ sent = 0 /\ taken = 0
  /\ timeouts = 0 /\ okWrites = 0 /\ okReads = 0

Return(op, id, status) ==
  /\ pc' = "idle"
  /\ ret' = [op |-> op, id |-> id, status |-> status]

-----------------------------------------------------------------------------
(* Submission: the preparation of Write and Read up to WriteFileEx and     *)
(* ReadFileEx.  The caller has just filled m_pWriteReport, or zeroed       *)
(* m_pReadReport.                                                          *)

PrepareWrite ==
  /\ pc = "idle" /\ ops < MaxOps
  /\ ops' = ops + 1
  /\ overlapped' = [Offset |-> 0, hEvent |-> OutLen]
  /\ signalled' = signalled \ {"write"}
  /\ writeBuf' = ops + 1
  /\ UNCHANGED <<readBuf, apcs, device, ghost>>

\* WriteFileEx queues the request.
StartWrite ==
  /\ PrepareWrite
  /\ pending' = pending \cup {[kind |-> "write", id |-> ops + 1]}
  /\ pc' = "waitWrite"
  /\ UNCHANGED ret

\* WriteFileEx refuses the request: the call returns GetLastError().
WriteRefused ==
  /\ PrepareWrite
  /\ Return("write", ops + 1, "ERROR")
  /\ UNCHANGED pending

PrepareRead ==
  /\ pc = "idle" /\ ops < MaxOps
  /\ ops' = ops + 1
  /\ overlapped' = [Offset |-> 0, hEvent |-> InLen]
  /\ signalled' = signalled \ {"read"}
  /\ readBuf' = 0
  /\ UNCHANGED <<writeBuf, apcs, device, ghost>>

\* ReadFileEx queues the request.
StartRead ==
  /\ PrepareRead
  /\ pending' = pending \cup {[kind |-> "read", id |-> ops + 1]}
  /\ pc' = "waitRead"
  /\ UNCHANGED ret

\* No open handle (WAIT_TIMEOUT at once), or ReadFileEx refuses (GetLastError()).
ReadRefused ==
  /\ PrepareRead
  /\ \E status \in {"WAIT_TIMEOUT", "ERROR"} : Return("read", ops + 1, status)
  /\ UNCHANGED pending

-----------------------------------------------------------------------------
(* Completion routines, run inside an alertable wait.                      *)

\* Mutant: the byte that holds the report id is not counted.
VerdictWithoutReportId(apc) ==
  IF overlapped.hEvent # apc.bytes \/ apc.err # 0 THEN 0 ELSE apc.bytes - 1

\* Mutant: the size comparison of the completion routines is dropped.
VerdictNoSizeCheck(apc) == IF apc.err # 0 THEN 0 ELSE apc.bytes

\* The verdict one completion routine leaves in m_overlapped.Offset.
Verdict(apc) ==
  IF overlapped.hEvent # apc.bytes \/ apc.err # 0 THEN 0 ELSE apc.bytes

\* Every queued completion runs, oldest first: each overwrites the verdict.
RunApcs ==
  /\ overlapped' = IF apcs = <<>> THEN overlapped
                   ELSE [overlapped EXCEPT !.Offset = Verdict(apcs[Len(apcs)])]
  /\ signalled' = signalled \cup {apcs[i].kind : i \in 1..Len(apcs)}
  /\ apcs' = <<>>

Judge == IF overlapped'.Offset = 0 THEN "FAILED" ELSE "SUCCESS"

\* Mutant: the wait of Write is bounded, and gives up without reaping its request.
WriteReturnsEarly ==
  /\ pc = "waitWrite"
  /\ RunApcs
  /\ Return("write", ops, Judge)
  /\ okWrites' = okWrites + (IF Judge = "SUCCESS" THEN 1 ELSE 0)
  /\ UNCHANGED <<ops, writeBuf, readBuf, pending, device,
                 timeouts, okReads>>

\* The infinite wait of Write ends: its event is set, or completions ran.
WriteReturns ==
  /\ pc = "waitWrite"
  /\ "write" \in signalled \/ apcs # <<>>
  /\ RunApcs
  /\ Return("write", ops, Judge)
  /\ okWrites' = okWrites + (IF Judge = "SUCCESS" THEN 1 ELSE 0)
  /\ UNCHANGED <<ops, writeBuf, readBuf, pending, device,
                 timeouts, okReads>>

\* The wait of Read ends before DEVICE_READ_TIMEOUT.
ReadReturns ==
  /\ pc = "waitRead"
  /\ "read" \in signalled \/ apcs # <<>>
  /\ RunApcs
  /\ Return("read", ops, Judge)
  /\ okReads' = okReads + (IF Judge = "SUCCESS" THEN 1 ELSE 0)
  /\ UNCHANGED <<ops, writeBuf, readBuf, pending, device,
                 timeouts, okWrites>>

\* Mutant: the read waits for ever instead of DEVICE_READ_TIMEOUT.
ReadNeverTimesOut == FALSE /\ UNCHANGED vars

\* DEVICE_READ_TIMEOUT elapses with nothing to run.
ReadTimesOut ==
  /\ pc = "waitRead"
  /\ "read" \notin signalled /\ apcs = <<>>
  /\ pc' = "cancelRead"
  /\ UNCHANGED <<ops, overlapped, signalled, writeBuf, ret, readBuf,
                 kernel, device, ghost>>

\* CancelIo asks for the cancellation of every pending request, and Read returns
\* WAIT_TIMEOUT without waiting for its outcome.  The request may fail or still
\* succeed later: RequestFails and ReportArrives need no cancellation to happen.
CancelRead ==
  /\ pc = "cancelRead"
  /\ Return("read", ops, "WAIT_TIMEOUT")
  /\ timeouts' = timeouts + 1
  /\ UNCHANGED <<ops, overlapped, signalled, writeBuf, readBuf,
                 pending, apcs, device, okWrites, okReads>>

-----------------------------------------------------------------------------
(* Windows and the device (external).                                      *)

OldestOf(kind, r) == /\ r \in pending /\ r.kind = kind
                     /\ \A q \in pending : q.kind = kind => r.id <= q.id

Complete(r, err, bytes, at) ==
  /\ pending' = pending \ {r}
  /\ apcs' = Append(apcs, [kind |-> r.kind, id |-> r.id, err |-> err,
                           bytes |-> bytes, at |-> at])

\* The device accepts the oldest write: it gets what the buffer holds now.
DeviceAccepts ==
  /\ \E r \in pending :
       /\ OldestOf("write", r)
       /\ Complete(r, 0, OutLen, Len(delivered) + 1)
  /\ delivered' = Append(delivered, writeBuf)
  /\ UNCHANGED <<host, readBuf, sent, taken, ghost>>

\* The driver hands the device's next input report to the oldest read.
ReportArrives ==
  /\ taken < sent
  /\ \E r \in pending :
       /\ OldestOf("read", r)
       /\ Complete(r, 0, InLen, taken + 1)
  /\ taken' = taken + 1
  /\ readBuf' = taken + 1
  /\ UNCHANGED <<host, delivered, sent, ghost>>

\* A cancelled request, or one whose device is gone, completes with an error.
RequestFails ==
  /\ \E r \in pending : Complete(r, 1, 0, 0)
  /\ UNCHANGED <<host, readBuf, device, ghost>>

\* The device produces an input report; it answers, so no more than one per call.
DeviceSends ==
  /\ sent < ops
  /\ sent' = sent + 1
  /\ UNCHANGED <<host, readBuf, kernel, delivered, taken, ghost>>

\* The caller has made all its calls and nothing is in flight.
Finished ==
  /\ pc = "idle" /\ ops = MaxOps /\ pending = {} /\ sent = ops
  /\ UNCHANGED vars

HostStep == WriteReturns \/ ReadReturns \/ ReadTimesOut \/ CancelRead
Call     == StartWrite \/ WriteRefused \/ StartRead \/ ReadRefused
Driver   == DeviceAccepts \/ ReportArrives \/ RequestFails

Next == Call \/ HostStep \/ Driver \/ DeviceSends \/ Finished

Spec == Init /\ [][Next]_vars

\* A write the device does not take ends all the same.
WriteFails == RequestFails /\ \E r \in pending \ pending' : r.kind = "write"

\* The thread runs; the driver ends each write it holds.  It owes reads nothing.
FairSpec == Spec /\ WF_vars(HostStep)
                 /\ WF_vars(DeviceAccepts \/ WriteFails)

-----------------------------------------------------------------------------
(* Properties.                                                             *)

TypeOK ==
  /\ pc \in {"idle", "waitWrite", "waitRead", "cancelRead"}
  /\ ops \in Nat /\ writeBuf \in Nat /\ readBuf \in Nat
  /\ overlapped \in [Offset : {0, InLen, OutLen}, hEvent : {0, InLen, OutLen}]
  /\ signalled \subseteq Kinds
  /\ ret \in Returns
  /\ pending \in SUBSET Requests /\ IsFiniteSet(pending)
  /\ apcs \in Seq(Apcs)
  /\ delivered \in Seq(Nat) /\ sent \in Nat /\ taken \in Nat
  /\ timeouts \in Nat /\ okWrites \in Nat /\ okReads \in Nat

InCall == IF pc = "idle" THEN 0 ELSE 1

\* Every request still in the driver or queued as an unrun completion when no
\* call is in progress is owed to a Read that timed out: no other path of Write
\* or Read leaves one behind (HidDevice.cpp:590, :648).
DebtBound == Cardinality(pending) + Len(apcs) <= timeouts + InCall

\* As long as no Read has timed out, success is exact: the device's latest
\* report is the one this Write sent, and m_pReadReport holds the latest input
\* report the driver took.
ExactWithoutTimeout ==
  (timeouts = 0 /\ pc = "idle" /\ ret.status = "SUCCESS") =>
     IF ret.op = "write"
     THEN delivered # <<>> /\ delivered[Len(delivered)] = ret.id
     ELSE readBuf = taken /\ taken > 0

\* Even after time-outs, when the two report lengths differ, the host never
\* counts more successful Writes than the device accepted reports, nor more
\* successful Reads than reports taken: the size test of the completion
\* routines (HidDevice.cpp:608, :666) rejects the other direction's leftovers.
NoPhantomSuccess ==
  InLen # OutLen => okWrites <= Len(delivered) /\ okReads <= taken

\* Every call returns: a Read even from a silent device (DEVICE_READ_TIMEOUT), a
\* Write because the driver ends each write it holds (HidDevice.cpp:590, :648).
CallsReturn == pc # "idle" ~> pc = "idle"

Port == INSTANCE HidPort WITH accepted <- Len(delivered), written <- okWrites,
                              taken <- taken, received <- okReads

\* The overlapped I/O keeps the promise of HidPort.
PortSpec == Port!Spec
=============================================================================
