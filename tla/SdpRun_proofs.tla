---------------------------- MODULE SdpRun_proofs ---------------------------
(***************************************************************************)
(* Proofs about Sdp: a ROM that has started the image has the whole of it, *)
(* and a run that reports success has started it.  They are about runs in  *)
(* which no Read outlives its call.  There, only the call in progress has  *)
(* a request in flight (Lone), so the answers of the ROM, past and to come *)
(* (Track), are what the host's calls make due, less what it has read      *)
(* (Course); leftovers of a call that failed are never taken for the       *)
(* acknowledgement of the next (Stale).  What must hold even after the run *)
(* has ended in an error is Safe.                                          *)
(***************************************************************************)
EXTENDS Sdp_proofs

-----------------------------------------------------------------------------
(* Runs without a Read that lingers: what is in flight.                    *)

\* The request of the call in progress.
Mine(kind) == [kind |-> kind, id |-> ops]

\* The calls that follow a Read that failed and did not end the run.
Resumed == stage \in {"dcd", "load", "readHdr"} /\ phase = "cmd"

\* The call has been given the last report taken; only Reads wait for their completion routine.
Fetched   == readBuf = taken /\ taken > 0
OnlyReads == \A i \in 1..Len(apcs) : apcs[i].kind = "read"

\* The requests of a Write that waits: its own, or its completion.
LoneWrite ==
  \/ /\ pending = {Mine("write")} /\ ~H!Delivered /\ OnlyReads
     /\ apcs # <<>> => Resumed
  \/ /\ pending = {} /\ apcs # <<>>
     /\ apcs[Len(apcs)].kind = "write" /\ (apcs[Len(apcs)].err = 0 <=> H!Delivered)

\* The requests of a Read that waits.
LoneRead ==
  \/ pending = {Mine("read")} /\ apcs = <<>> /\ readBuf = 0
  \/ /\ pending = {} /\ Len(apcs) = 1 /\ apcs[1].kind = "read"
     /\ IF apcs[1].err = 0 THEN Fetched ELSE readBuf = 0

\* What a Read that failed leaves behind: a cancelled request, or a report nobody judges.
FailedRead ==
  /\ pending \subseteq {Mine("read")} /\ OnlyReads
  /\ asked => readBuf = 0 \/ (Fetched /\ pending = {})
  /\ ~asked /\ (pending # {} \/ apcs # <<>>) => Resumed

\* What a Write that failed leaves behind: a request that may still be accepted.
FailedWrite ==
  \/ pending = {} /\ apcs = <<>>
  \/ asked /\ Resumed /\ pending \subseteq {Mine("write")} /\ (pending # {} => ~H!Delivered)

\* Only the call in progress has a request in flight, or one that failed just before it.
Lone ==
  /\ pc = "waitWrite" => LoneWrite
  /\ pc \in {"waitRead", "cancelRead"} => LoneRead
  /\ pc = "idle" /\ Ok =>
       pending = {} /\ apcs = <<>> /\ IF ret.op = "read" THEN Fetched ELSE H!Delivered
  /\ pc = "idle" /\ ~Ok => IF ret.op = "read" THEN FailedRead ELSE FailedWrite

\* What the next call finds.
LEMMA LoneCall ==
  ASSUME Lone, pc = "idle", ~asked, \A r \in pending : r.kind # "read"
  PROVE  pending = {} /\ OnlyReads /\ (apcs # <<>> => Resumed)
<1>1. pending \subseteq {Mine("read")} => pending = {}
  BY DEF Mine
<1>2. apcs = <<>> => OnlyReads
  BY DEF OnlyReads
<1>3. QED
  BY <1>1, <1>2 DEF Lone, FailedRead, FailedWrite

\* A call begins with nothing of another call that could be taken for its own.
LEMMA LoneSay ==
  ASSUME Typed, Calls, Lone, Say \/ Listen, ~lingered'
  PROVE  Lone'
<1>1. /\ pc = "idle" /\ ~asked /\ asked' = TRUE /\ ops' = ops + 1
      /\ UNCHANGED <<stage, phase, delivered, taken>>
  BY SayFrame DEF Typed
<1>2. pending = {} /\ OnlyReads /\ (apcs # <<>> => Resumed)
  <2>1. \A r \in pending : r.kind # "read"
    BY DEF Say, Listen, MayCall
  <2>2. QED
    BY <1>1, <2>1, LoneCall
<1>3. ~H!Delivered'
  BY <1>1 DEF Typed, Carried, H!Ids, H!TypeOK, H!Delivered
<1>4. CASE Say
  <2>1. H!StartWrite \/ H!WriteRefused
    BY <1>4, CallIsCall DEF Say
  <2>2. apcs' = apcs
    BY <2>1 DEF H!StartWrite, H!WriteRefused, H!PrepareWrite
  <2>3. (OnlyReads' <=> OnlyReads) /\ (Resumed' <=> Resumed)
    BY <1>1, <2>2 DEF OnlyReads, Resumed
  <2>4. CASE H!StartWrite
    <3>1. pc' = "waitWrite" /\ pending' = {Mine("write")'}
      BY <1>1, <1>2, <2>4 DEF H!StartWrite, H!PrepareWrite, Mine
    <3>2. LoneWrite'
      BY <1>2, <1>3, <2>2, <2>3, <3>1 DEF LoneWrite
    <3>3. QED
      BY <3>1, <3>2 DEF Lone
  <2>5. CASE H!WriteRefused
    <3>1. pc' = "idle" /\ pending' = {} /\ ret'.op = "write" /\ ret'.status # "SUCCESS"
      BY <1>2, <2>5 DEF H!WriteRefused, H!Return
    <3>2. FailedWrite'
      BY <1>1, <1>2, <2>2, <2>3, <3>1 DEF FailedWrite
    <3>3. QED
      BY <3>1, <3>2 DEF Lone, Ok
  <2>6. QED
    BY <2>1, <2>4, <2>5
<1>5. CASE Listen
  <2>1. H!StartRead \/ H!ReadRefused
    BY <1>5, CallIsCall DEF Listen
  <2>2. apcs' = <<>> /\ readBuf' = 0
    <3>1. ~Resumed
      BY <1>5 DEF Listen, Resumed
    <3>2. QED
      BY <1>2, <2>1, <3>1 DEF H!StartRead, H!ReadRefused, H!PrepareRead
  <2>3. OnlyReads'
    BY <2>2 DEF OnlyReads
  <2>4. CASE H!StartRead
    <3>1. pc' = "waitRead" /\ pending' = {Mine("read")'}
      BY <1>1, <1>2, <2>4 DEF H!StartRead, H!PrepareRead, Mine
    <3>2. QED
      BY <2>2, <3>1 DEF Lone, LoneRead
  <2>5. CASE H!ReadRefused
    <3>1. pc' = "idle" /\ pending' = {} /\ ret'.op = "read" /\ ret'.status # "SUCCESS"
      BY <1>2, <2>5 DEF H!ReadRefused, H!Return
    <3>2. FailedRead'
      BY <1>1, <2>2, <2>3, <3>1 DEF FailedRead
    <3>3. QED
      BY <3>1, <3>2 DEF Lone, Ok
  <2>6. QED
    BY <2>1, <2>4, <2>5
<1>6. QED
  BY <1>4, <1>5

\* A call that failed and does not end the run leads to one that Resumed names.
LEMMA Resumes ==
  ASSUME Typed, JudgeStep, ~Ok, Running'
  PROVE  /\ Resumed'
         /\ \/ stage = "ecc" /\ stage' = "dcd" /\ Failed
            \/ stage = "skip" /\ stage' = "readHdr" /\ img.family # "MX8" /\ Failed
            \/ stage = "start" /\ stage' = "load" /\ phase = "ack" /\ GetDevAck
<1>1. Running /\ stage \in Stages
  BY JudgeSteps DEF JudgeStep, Answered, Typed, HostTypes
<1>2. CASE GetDevAck
  <2>1. phase = "ack" /\ Job.cmd = "JUMP" /\ CallSucceeds
    BY <1>2 DEF GetDevAck
  <2>2. stage \in {"start", "jump", "jumpHdr"}
    BY <1>1, <2>1 DEF Job, Rom!Command, Stages, Running
  <2>3. stage' = Following /\ phase' = "cmd"
    BY <2>1, <2>2 DEF CallSucceeds, More, BeginStage
  <2>4. stage = "start" /\ stage' = "load"
    BY <2>2, <2>3 DEF Following, Running
  <2>5. QED
    BY <1>2, <2>1, <2>3, <2>4 DEF Resumed
<1>3. CASE Failed
  <2>1. stage' = AfterFailure /\ phase' = "cmd"
    BY <1>3 DEF Failed, CallFails, BeginStage
  <2>2. QED
    BY <1>3, <2>1 DEF AfterFailure, Running, Resumed
<1>4. QED
  BY <1>2, <1>3 DEF JudgeStep, CmdSent, DataSent, GetHABType, ReadData, ReportFails,
                    HABUnknown, AckRefused

\* The host judges a call, and what that call leaves is what the next one allows.
LEMMA LoneJudge ==
  ASSUME Typed, Calls, Lone, JudgeStep, Running'
  PROVE  Lone'
<1>1. /\ pc = "idle" /\ asked /\ Running
      /\ UNCHANGED <<pc, ops, readBuf, ret, pending, apcs, delivered, taken>>
  BY JudgeSteps DEF JudgeStep, Answered, transport
<1>2. UNCHANGED <<Fetched, OnlyReads, H!Delivered, Mine("read"), Ok>>
  BY <1>1 DEF Fetched, OnlyReads, H!Delivered, Mine, Ok
<1>3. CASE Ok
  BY <1>1, <1>2, <1>3 DEF Lone
<1>4. CASE ~Ok
  <2>1. Resumed' /\ (stage \in {"ecc", "skip"} \/ phase = "ack")
    BY <1>4, Resumes
  <2>2. ~asked'
    BY DEF JudgeStep, CmdSent, DataSent, GetHABType, GetDevAck, ReadData, ReportFails,
         HABUnknown, AckRefused, Failed, GoOn, CallSucceeds, CallFails, BeginStage
  <2>3. CASE ret.op = "read"
    BY <1>1, <1>2, <1>4, <2>1, <2>2, <2>3 DEF Lone, FailedRead
  <2>4. CASE ret.op # "read"
    <3>1. ~Resumed
      BY <1>1, <2>1, <2>4 DEF Resumed, Calls
    <3>2. pending = {} /\ apcs = <<>>
      BY <1>1, <1>4, <2>4, <3>1 DEF Lone, FailedWrite
    <3>3. QED
      BY <1>1, <1>2, <1>4, <2>4, <3>2 DEF Lone, FailedWrite
  <2>5. QED
    BY <2>3, <2>4
<1>5. QED
  BY <1>3, <1>4

\* A completion is queued.
LEMMA OneMore ==
  ASSUME Typed, NEW apc, apcs' = Append(apcs, apc)
  PROVE  /\ apcs' # <<>> /\ apcs'[Len(apcs')] = apc
         /\ apcs = <<>> => Len(apcs') = 1 /\ apcs'[1] = apc
         /\ OnlyReads /\ apc.kind = "read" => OnlyReads'
<1>1. apcs \in Seq(H!Apcs) /\ Len(apcs) \in Nat
  BY DEF Typed, Carried, H!TypeOK
<1>2. /\ Len(apcs') = Len(apcs) + 1 /\ apcs'[Len(apcs) + 1] = apc
      /\ \A i \in 1..Len(apcs) : apcs'[i] = apcs[i]
  BY <1>1
<1>3. QED
  BY <1>1, <1>2 DEF OnlyReads

\* A verdict is that of the last completion, and only one of the call's own kind is good.
LEMMA LoneVerdict ==
  ASSUME Typed, InLen # OutLen, H!WriteReturns \/ H!ReadReturns
  PROVE  /\ apcs # <<>> /\ apcs' = <<>>
         /\ ret'.status = "SUCCESS" =>
              apcs[Len(apcs)].err = 0 /\ apcs[Len(apcs)].kind = ret'.op
<1> DEFINE last == apcs[Len(apcs)]
<1>1. H!TypeOK /\ H!Shape /\ H!Credit
  BY DEF Typed, Carried, H!CreditInv
<1>2. apcs # <<>> /\ apcs' = <<>> /\ last \in H!Apcs /\ H!Creditable(last)
  <2>1. apcs # <<>> /\ apcs' = <<>> /\ Len(apcs) >= 1
    BY <1>1, H!ReturnRunsCompletion, HidAssumptions
  <2>2. Len(apcs) \in 1..Len(apcs) /\ apcs \in Seq(H!Apcs)
    BY <1>1, <2>1 DEF H!TypeOK
  <2>3. QED
    BY <1>1, <2>1, <2>2 DEF H!Credit
<1>3. ASSUME ret'.status = "SUCCESS" PROVE H!Verdict(last) # 0
  <2>1. overlapped' = [overlapped EXCEPT !.Offset = H!Verdict(last)]
    BY <1>2 DEF H!WriteReturns, H!ReadReturns, H!RunApcs
  <2>2. overlapped'.Offset = H!Verdict(last)
    BY <1>1, <2>1 DEF H!TypeOK
  <2>3. QED
    BY <1>3, <2>2 DEF H!WriteReturns, H!ReadReturns, H!Return, H!Judge
<1>4. ASSUME ret'.status = "SUCCESS"
      PROVE  last.err = 0 /\ last.bytes = overlapped.hEvent /\ last.bytes # 0
  BY <1>3, <1>4 DEF H!Verdict
<1>5. /\ H!WriteReturns => overlapped.hEvent = OutLen /\ ret'.op = "write"
      /\ H!ReadReturns => overlapped.hEvent = InLen /\ ret'.op = "read"
  BY <1>1 DEF H!Shape, H!WriteReturns, H!ReadReturns, H!Return
<1>6. QED
  BY <1>2, <1>4, <1>5 DEF H!Creditable

\* The waits, timeouts and cancellations of a call.
LEMMA LoneHost ==
  ASSUME Typed, Calls, InLen # OutLen, Lone, Transport, H!HostStep
  PROVE  Lone'
<1>1. UNCHANGED <<ops, readBuf, pending, delivered, taken, stage, phase, asked>>
  <2>1. UNCHANGED <<stage, phase, asked>>
    BY QuietSteps
  <2>2. QED
    BY <2>1 DEF H!HostStep, H!WriteReturns, H!ReadReturns, H!ReadTimesOut, H!CancelRead,
              H!kernel, H!device
<1>2. UNCHANGED <<Fetched, H!Delivered, Mine("read"), Mine("write"), Resumed>>
  BY <1>1 DEF Fetched, H!Delivered, Mine, Resumed
<1>3. CASE H!WriteReturns
  <2>1. pc = "waitWrite" /\ pc' = "idle" /\ ret'.op = "write" /\ asked
    BY <1>3 DEF H!WriteReturns, H!Return, Calls
  <2>2. apcs # <<>> /\ apcs' = <<>>
        /\ (Ok' => apcs[Len(apcs)].err = 0 /\ apcs[Len(apcs)].kind = "write")
    BY <1>3, <2>1, LoneVerdict DEF Ok
  <2>3. Len(apcs) \in 1..Len(apcs)
    BY <2>2 DEF Typed, Carried, H!TypeOK
  <2>4. LoneWrite
    BY <2>1 DEF Lone
  <2>5. CASE /\ pending = {Mine("write")} /\ ~H!Delivered /\ OnlyReads /\ Resumed
    <3>1. ~Ok'
      BY <2>2, <2>3, <2>5 DEF OnlyReads
    <3>2. FailedWrite'
      BY <1>1, <1>2, <2>1, <2>5 DEF FailedWrite
    <3>3. QED
      BY <2>1, <3>1, <3>2 DEF Lone
  <2>6. CASE pending = {} /\ (apcs[Len(apcs)].err = 0 <=> H!Delivered)
    <3>1. FailedWrite' /\ (Ok' => H!Delivered')
      BY <1>1, <1>2, <2>2, <2>6 DEF FailedWrite
    <3>2. QED
      BY <1>1, <2>1, <2>2, <2>6, <3>1 DEF Lone
  <2>7. QED
    BY <2>2, <2>4, <2>5, <2>6 DEF LoneWrite
<1>4. CASE H!ReadReturns
  <2>1. pc = "waitRead" /\ pc' = "idle" /\ ret'.op = "read" /\ asked
    BY <1>4 DEF H!ReadReturns, H!Return, Calls
  <2>2. apcs # <<>> /\ apcs' = <<>> /\ (Ok' => apcs[Len(apcs)].err = 0)
    BY <1>4, LoneVerdict DEF Ok
  <2>3. pending = {} /\ Len(apcs) = 1 /\ IF apcs[1].err = 0 THEN Fetched ELSE readBuf = 0
    BY <2>1, <2>2 DEF Lone, LoneRead
  <2>4. OnlyReads' /\ FailedRead'
    BY <1>1, <1>2, <2>1, <2>2, <2>3 DEF OnlyReads, FailedRead
  <2>5. QED
    BY <1>1, <1>2, <2>1, <2>2, <2>3, <2>4 DEF Lone
<1>5. CASE H!ReadTimesOut
  <2>1. pc = "waitRead" /\ pc' = "cancelRead" /\ apcs' = apcs
    BY <1>5 DEF H!ReadTimesOut, H!kernel
  <2>2. QED
    BY <1>1, <1>2, <2>1 DEF Lone, LoneRead
<1>6. CASE H!CancelRead
  <2>1. pc = "cancelRead" /\ pc' = "idle" /\ ret'.op = "read" /\ ~Ok' /\ apcs' = apcs /\ asked
    BY <1>6 DEF H!CancelRead, H!Return, Calls, Ok
  <2>2. LoneRead
    BY <2>1 DEF Lone
  <2>3. OnlyReads'
    BY <2>1, <2>2 DEF LoneRead, OnlyReads
  <2>4. FailedRead'
    BY <1>1, <1>2, <2>1, <2>2, <2>3 DEF LoneRead, FailedRead
  <2>5. QED
    BY <2>1, <2>4 DEF Lone
<1>7. QED
  BY <1>3, <1>4, <1>5, <1>6 DEF H!HostStep

\* The driver and the device complete requests.
LEMMA LoneDriver ==
  ASSUME Typed, Calls, Running, Lone, Transport,
         H!ReportArrives \/ H!RequestFails \/ H!DeviceAccepts
  PROVE  Lone'
<1>1. UNCHANGED <<pc, ops, ret, writeBuf, stage, phase, asked>>
  <2>1. UNCHANGED <<stage, phase, asked>>
    BY QuietSteps
  <2>2. QED
    BY <2>1 DEF H!ReportArrives, H!RequestFails, H!DeviceAccepts, H!host
<1>2. UNCHANGED <<Ok, Mine("read"), Mine("write"), Resumed>>
  BY <1>1 DEF Ok, Mine, Resumed
<1>3. pc \in {"idle", "waitWrite", "waitRead", "cancelRead"} /\ ret.op \in {"read", "write"}
      /\ taken \in Nat /\ delivered \in Seq(Nat) /\ writeBuf \in Nat
  BY DEF Typed, Carried, H!TypeOK, H!Returns, H!Kinds
<1>4. CASE H!ReportArrives
  <2>1. PICK r \in pending : r.kind = "read" /\ H!Complete(r, 0, InLen, taken + 1)
    BY <1>4 DEF H!ReportArrives, H!OldestOf
  <2>2. taken' = taken + 1 /\ readBuf' = taken + 1 /\ delivered' = delivered
    BY <1>4 DEF H!ReportArrives
  <2>3. Fetched' /\ H!Delivered' = H!Delivered
    BY <1>1, <1>3, <2>2 DEF Fetched, H!Delivered
  <2> PICK apc : apc = [kind |-> r.kind, id |-> r.id, err |-> 0, bytes |-> InLen, at |-> taken + 1]
    OBVIOUS
  <2>4. apcs' = Append(apcs, apc) /\ pending' = pending \ {r} /\ apc.kind = "read" /\ apc.err = 0
    BY <2>1 DEF H!Complete
  <2>5. pending = {Mine("read")} => pending' = {}
    BY <2>4
  <2>6. CASE pc \in {"waitRead", "cancelRead"}
    <3>1. pending = {Mine("read")} /\ apcs = <<>>
      BY <2>6 DEF Lone, LoneRead
    <3>2. LoneRead'
      BY <2>3, <2>4, <2>5, <3>1, OneMore DEF LoneRead
    <3>3. QED
      BY <1>1, <2>6, <3>2 DEF Lone
  <2>7. CASE pc = "idle" /\ ~Ok /\ ret.op = "read"
    <3>1. pending = {Mine("read")} /\ OnlyReads /\ (~asked => Resumed)
      BY <2>7 DEF Lone, FailedRead
    <3>2. FailedRead'
      BY <1>1, <1>2, <2>3, <2>4, <2>5, <3>1, OneMore DEF FailedRead
    <3>3. QED
      BY <1>1, <1>2, <2>7, <3>2 DEF Lone
  <2>8. CASE pc = "waitWrite" \/ (pc = "idle" /\ Ok) \/ (pc = "idle" /\ ~Ok /\ ret.op = "write")
    <3>1. Mine("write").kind = "write"
      BY DEF Mine
    <3>2. QED
      BY <2>1, <2>8, <3>1 DEF Lone, LoneWrite, FailedWrite
  <2>9. QED
    BY <1>3, <2>6, <2>7, <2>8
<1>5. CASE H!RequestFails
  <2>1. PICK r \in pending : H!Complete(r, 1, 0, 0)
    BY <1>5 DEF H!RequestFails
  <2>2. UNCHANGED <<taken, readBuf, delivered>>
    BY <1>5 DEF H!RequestFails, H!device
  <2>3. Fetched' = Fetched /\ H!Delivered' = H!Delivered
    BY <1>1, <2>2 DEF Fetched, H!Delivered
  <2> PICK apc : apc = [kind |-> r.kind, id |-> r.id, err |-> 1, bytes |-> 0, at |-> 0]
    OBVIOUS
  <2>4. apcs' = Append(apcs, apc) /\ pending' = pending \ {r} /\ apc.kind = r.kind /\ apc.err = 1
    BY <2>1 DEF H!Complete
  <2>5. Mine("read").kind = "read" /\ Mine("write").kind = "write"
    BY DEF Mine
  <2>6. CASE pc \in {"waitRead", "cancelRead"}
    <3>1. pending = {Mine("read")} /\ apcs = <<>> /\ readBuf = 0 /\ pending' = {}
      BY <2>4, <2>6 DEF Lone, LoneRead
    <3>2. LoneRead'
      BY <2>2, <2>4, <2>5, <3>1, OneMore DEF LoneRead
    <3>3. QED
      BY <1>1, <2>6, <3>2 DEF Lone
  <2>7. CASE pc = "idle" /\ ~Ok /\ ret.op = "read"
    <3>1. FailedRead /\ pending = {Mine("read")}
      BY <2>7 DEF Lone, FailedRead
    <3>2. pending' = {} /\ apc.kind = "read"
      BY <2>4, <2>5, <3>1
    <3>3. FailedRead'
      BY <1>1, <1>2, <2>2, <2>3, <2>4, <3>1, <3>2, OneMore DEF FailedRead
    <3>4. QED
      BY <1>1, <1>2, <2>7, <3>3 DEF Lone
  <2>8. CASE pc = "waitWrite"
    <3>1. pending = {Mine("write")} /\ ~H!Delivered
      BY <2>8 DEF Lone, LoneWrite
    <3>2. LoneWrite'
      BY <2>3, <2>4, <2>5, <3>1, OneMore DEF LoneWrite
    <3>3. QED
      BY <1>1, <2>8, <3>2 DEF Lone
  <2>9. CASE pc = "idle" /\ ~Ok /\ ret.op = "write"
    <3>1. asked /\ Resumed /\ pending = {Mine("write")}
      BY <2>9 DEF Lone, FailedWrite
    <3>2. FailedWrite'
      BY <1>1, <1>2, <2>4, <3>1 DEF FailedWrite
    <3>3. QED
      BY <1>1, <1>2, <2>9, <3>2 DEF Lone
  <2>10. CASE pc = "idle" /\ Ok
    BY <2>1, <2>10 DEF Lone
  <2>11. QED
    BY <1>3, <2>6, <2>7, <2>8, <2>9, <2>10
<1>6. CASE H!DeviceAccepts
  <2>1. PICK r \in pending : r.kind = "write" /\ H!Complete(r, 0, OutLen, Len(delivered) + 1)
    BY <1>6 DEF H!DeviceAccepts, H!OldestOf
  <2>2. UNCHANGED <<taken, readBuf>> /\ delivered' = Append(delivered, writeBuf)
    BY <1>6 DEF H!DeviceAccepts
  <2> PICK apc : apc = [kind |-> r.kind, id |-> r.id, err |-> 0, bytes |-> OutLen,
                        at |-> Len(delivered) + 1]
    OBVIOUS
  <2>4. apcs' = Append(apcs, apc) /\ pending' = pending \ {r} /\ apc.kind = "write" /\ apc.err = 0
    BY <2>1 DEF H!Complete
  <2>5. Mine("read").kind = "read"
    BY DEF Mine
  <2>6. CASE pc = "waitWrite"
    <3>1. pending = {Mine("write")} /\ asked
      BY <2>1, <2>6 DEF Lone, LoneWrite, Calls
    <3>2. H!Delivered'
      BY <1>1, <1>3, <2>2, <2>6, <3>1 DEF H!Delivered, Calls
    <3>3. LoneWrite'
      BY <2>4, <3>1, <3>2, OneMore DEF LoneWrite
    <3>4. QED
      BY <1>1, <2>6, <3>3 DEF Lone
  <2>7. CASE pc = "idle" /\ ~Ok /\ ret.op = "write"
    <3>1. asked /\ Resumed /\ pending = {Mine("write")}
      BY <2>1, <2>7 DEF Lone, FailedWrite
    <3>2. FailedWrite'
      BY <1>1, <1>2, <2>4, <3>1 DEF FailedWrite
    <3>3. QED
      BY <1>1, <1>2, <2>7, <3>2 DEF Lone
  <2>8. CASE pc \in {"waitRead", "cancelRead"} \/ (pc = "idle" /\ (Ok \/ ret.op = "read"))
    BY <2>1, <2>5, <2>8 DEF Lone, LoneRead, FailedRead
  <2>9. QED
    BY <1>3, <2>6, <2>7, <2>8
<1>7. QED
  BY <1>4, <1>5, <1>6

\* Every step keeps what is in flight as it should be.
LEMMA LoneStep ==
  ASSUME Typed, Calls, InLen # OutLen, Running => Lone, [Next]_vars, ~lingered', Running'
  PROVE  Lone'
<1>1. CASE Say \/ Listen
  BY <1>1, LoneSay, SayFrame DEF Typed
<1>2. CASE JudgeStep
  BY <1>2, LoneJudge, JudgeSteps DEF JudgeStep, Answered
<1>3. CASE Transport
  <2>1. Running
    BY <1>3, QuietSteps DEF Running
  <2>2. H!HostStep \/ H!ReportArrives \/ H!RequestFails \/ H!DeviceAccepts
    BY <1>3, HostIsHost, DriverIsDriver DEF Transport
  <2>3. QED
    BY <1>3, <2>1, <2>2, LoneHost, LoneDriver
<1>4. CASE RomHandles \/ RomAnswers \/ PluginReturns \/ Finished \/ UNCHANGED vars
  <2>1. UNCHANGED <<stage, phase, asked>> /\ Running
    BY <1>4, QuietSteps DEF Running
  <2>2. UNCHANGED <<pc, ops, ret, pending, apcs, delivered, taken, readBuf>>
    BY <1>4, RomFrame
  <2>3. UNCHANGED <<LoneWrite, LoneRead, FailedRead, FailedWrite, H!Delivered, Fetched, Ok>>
    BY <2>1, <2>2 DEF LoneWrite, LoneRead, FailedRead, FailedWrite, H!Delivered, Fetched,
                      OnlyReads, Mine, Resumed, Ok
  <2>4. QED
    BY <2>1, <2>2, <2>3 DEF Lone
<1>5. QED
  BY <1>1, <1>2, <1>3, <1>4 DEF Next, HostStep, JudgeStep

-----------------------------------------------------------------------------
(* What the ROM answers.                                                   *)

\* The data the ROM accepts, and what it answers to a file, a DCD and a skip.
Good(v, r) ==
  v.cur.cmd = "DCD_WRITE" => \A i \in 1..Len(r.cells) : r.cells[i] = Rom!Cell("dcd")

DataAck(v, r) ==
  IF ~Good(v, r) THEN Rom!ErrorAck
  ELSE IF v.cur.cmd = "DCD_WRITE" THEN Rom!Cell("ROM_WRITE_ACK")
  ELSE Rom!Cell("ROM_STATUS_ACK")

SkipAck(can) == IF can THEN OkAck ELSE Rom!ErrorAck

\* The cells a read of the memory returns.
CellsAt(v, r) == [i \in 1..r.count |-> v.mem[r.addr + i - 1]]

\* The provers do not reason well with \o: they see these facts instead.
Cat(s, t) == s \o t
One(c) == <<c>>

LEMMA CatType ==
  ASSUME NEW s \in Seq(Cells), NEW t \in Seq(Cells)
  PROVE  /\ Cat(s, t) \in Seq(Cells) /\ Len(s) \in Nat /\ Len(t) \in Nat
         /\ Len(Cat(s, t)) = Len(s) + Len(t)
BY ConcatProperties, LenProperties DEF Cat

LEMMA Assoc ==
  ASSUME NEW s \in Seq(Cells), NEW t \in Seq(Cells), NEW u \in Seq(Cells)
  PROVE  Cat(Cat(s, t), u) = Cat(s, Cat(t, u))
BY ConcatAssociative DEF Cat

LEMMA CatEmpty == \A s \in Seq(Cells) : Cat(s, <<>>) = s /\ Cat(<<>>, s) = s
BY ConcatEmptySeq DEF Cat

LEMMA CatAt ==
  ASSUME NEW s \in Seq(Cells), NEW t \in Seq(Cells)
  PROVE  /\ \A j \in 1..Len(s) : Cat(s, t)[j] = s[j]
         /\ \A j \in 1..Len(t) : Cat(s, t)[Len(s) + j] = t[j]
<1>1. /\ Len(s) \in Nat /\ Len(t) \in Nat
      /\ \A j \in 1..(Len(s) + Len(t)) : (s \o t)[j] = IF j <= Len(s) THEN s[j] ELSE t[j - Len(s)]
  BY ConcatProperties, LenProperties
<1>2. QED
  BY <1>1 DEF Cat

LEMMA Ones == \A c \in Cells : One(c) \in Seq(Cells) /\ Len(One(c)) = 1 /\ One(c)[1] = c
BY DEF One

LEMMA Appends == \A s \in Seq(Cells), c \in Cells : Append(s, c) = Cat(s, One(c))
BY AppendIsConcat DEF Cat, One

LEMMA Pairs ==
  ASSUME NEW a \in Cells, NEW b \in Cells
  PROVE  <<a, b>> = Cat(One(a), One(b))
<1>1. PICK s : s = <<a, b>>
  OBVIOUS
<1>2. s \in Seq(Cells) /\ Len(s) = 2 /\ s[1] = a /\ s[2] = b
  <2>1. <<a, b>> \in Seq(Cells) /\ Len(<<a, b>>) = 2
    OBVIOUS
  <2>2. QED
    BY <1>1, <2>1
<1>3. PICK t : t = Cat(One(a), One(b))
  OBVIOUS
<1>4. t \in Seq(Cells) /\ Len(t) = 2 /\ t[1] = a /\ t[2] = b
  <2>1. /\ One(a) \in Seq(Cells) /\ Len(One(a)) = 1 /\ One(a)[1] = a
        /\ One(b) \in Seq(Cells) /\ Len(One(b)) = 1 /\ One(b)[1] = b
    BY Ones
  <2>2. t \in Seq(Cells) /\ Len(t) = 2
    <3>1. One(a) \in Seq(Cells) /\ One(b) \in Seq(Cells)
      BY <2>1
    <3>2. Cat(One(a), One(b)) \in Seq(Cells)
          /\ Len(Cat(One(a), One(b))) = Len(One(a)) + Len(One(b))
      BY <3>1, CatType
    <3>3. QED
      BY <1>3, <2>1, <3>2
  <2>3. /\ \A j \in 1..1 : t[j] = One(a)[j]
        /\ \A j \in 1..1 : t[1 + j] = One(b)[j]
    BY <1>3, <2>1, CatAt
  <2>4. 1 \in 1..1 /\ 1 + 1 = 2
    OBVIOUS
  <2>5. QED
    BY <2>1, <2>2, <2>3, <2>4
<1>5. \A i \in 1..Len(s) : s[i] = t[i]
  BY <1>2, <1>4
<1>6. s = t
  BY <1>2, <1>4, <1>5, SeqEqual
<1>7. QED
  BY <1>1, <1>3, <1>6

LEMMA Tails ==
  ASSUME NEW s \in Seq(Cells), s # <<>>
  PROVE  Head(s) \in Cells /\ Tail(s) \in Seq(Cells) /\ s = Cat(One(Head(s)), Tail(s))
<1>1. Head(s) \in Cells /\ Tail(s) \in Seq(Cells) /\ <<Head(s)>> \o Tail(s) = s
  OBVIOUS
<1>2. QED
  BY <1>1 DEF Cat, One

LEMMA AckTypes ==
  /\ Rom!HAB \in Cells /\ Rom!ErrorAck \in Cells /\ OkAck \in Cells
  /\ Rom!Cell("ROM_WRITE_ACK") \in Cells /\ Rom!Cell("ROM_STATUS_ACK") \in Cells
  /\ Rom!HAB.what = "HAB" /\ Rom!ErrorAck.what = "ROM_ERROR" /\ OkAck.what = "ROM_OK_ACK"
  /\ Rom!Cell("ROM_WRITE_ACK").what = "ROM_WRITE_ACK"
  /\ Rom!Cell("ROM_STATUS_ACK").what = "ROM_STATUS_ACK"
BY CellType DEF Rom!HAB, Rom!ErrorAck, OkAck, Whats

LEMMA CellsAtType ==
  ASSUME NEW v \in Views, NEW r \in Reports, r.cmd = "RD_MEM"
  PROVE  CellsAt(v, r) \in Seq(Cells) /\ Len(CellsAt(v, r)) = r.count
<1>1. r.count \in Nat /\ r.addr \in Int /\ \A a \in Addresses : v.mem[a] \in Cells
  BY DEF Reports, Views
<1>2. ASSUME NEW i \in 1..r.count PROVE v.mem[r.addr + i - 1] \in Cells
  <2>1. i - 1 \in 0..(r.count - 1) /\ r.addr + (i - 1) = r.addr + i - 1
    BY <1>1
  <2>2. QED
    BY <1>1, <2>1 DEF Reports
<1>3. CellsAt(v, r) \in [1..r.count -> Cells]
  BY <1>2 DEF CellsAt
<1>4. QED
  BY <1>1, <1>3

\* The answers that handling report r in view v adds.
New(v, r) ==
  IF v.mode # "listening" THEN <<>>
  ELSE CASE r.cmd = "RD_MEM"   -> Cat(One(Rom!HAB), CellsAt(v, r))
         [] r.cmd = "SKIP_DCD" -> Cat(One(Rom!HAB), One(SkipAck(v.can)))
         [] r.cmd = "DATA"     -> IF v.cur # Rom!Nothing /\ v.got + r.count >= v.cur.count
                                  THEN Cat(One(Rom!HAB), One(DataAck(v, r))) ELSE <<>>
         [] r.cmd = "JUMP"     -> IF \/ PluginAt(v, r.addr) \/ ImageAt(v, r.addr)
                                     \/ v.mem[r.addr].what = "header"
                                  THEN One(Rom!HAB) ELSE Cat(One(Rom!HAB), One(Rom!ErrorAck))
         [] OTHER              -> <<>>

LEMMA NewType ==
  ASSUME NEW v \in Views, NEW r \in Reports
  PROVE  New(v, r) \in Seq(Cells)
<1>1. SkipAck(v.can) \in Cells /\ DataAck(v, r) \in Cells
  BY AckTypes DEF SkipAck, DataAck
<1>2. One(Rom!HAB) \in Seq(Cells) /\ \A c \in Cells : Cat(One(Rom!HAB), One(c)) \in Seq(Cells)
  BY AckTypes, Ones, CatType
<1>3. CASE r.cmd = "RD_MEM"
  <2>1. Cat(One(Rom!HAB), CellsAt(v, r)) \in Seq(Cells)
    BY <1>2, <1>3, CellsAtType, CatType
  <2>2. QED
    BY <1>3, <2>1 DEF New
<1>4. CASE r.cmd # "RD_MEM"
  <2>1. \/ New(v, r) = <<>> \/ New(v, r) = One(Rom!HAB)
        \/ \E c \in Cells : New(v, r) = Cat(One(Rom!HAB), One(c))
    BY <1>1, <1>4, AckTypes DEF New
  <2>2. <<>> \in Seq(Cells)
    BY EmptySeq
  <2>3. QED
    BY <1>2, <2>1, <2>2
<1>5. QED
  BY <1>3, <1>4

LEMMA HandleNew ==
  ASSUME Typed, NEW r \in Reports, Rom!Handle(r)
  PROVE  rom'.answers = Cat(rom.answers, New(View, r))
<1>1. rom \in RomTypes /\ rom.answers \in Seq(Cells) /\ rom.mode = "listening"
  BY DEF Typed, WireTypes, RomTypes, Rom!Handle
<1>2. /\ View.mode = "listening" /\ View.mem = mem /\ View.cur = rom.cur /\ View.got = rom.got
      /\ View.can = rom.canSkip
  BY <1>1 DEF View
<1>3. Cat(rom.answers, <<>>) = rom.answers
  BY <1>1, CatEmpty
<1>4. DOMAIN r.cells = 1..Len(r.cells)
  BY DEF Reports
<1>5. \A s : Rom!Answer(s) = Cat(rom.answers, s)
  BY DEF Rom!Answer, Cat
<1>6. \A c \in Cells : <<Rom!HAB, c>> = Cat(One(Rom!HAB), One(c))
  BY AckTypes, Pairs
<1>7. \A s : <<Rom!HAB>> \o s = Cat(One(Rom!HAB), s)
  BY DEF Cat, One
<1>8. CASE Rom!Transfer(r)
  <2>1. New(View, r) = <<>>
    BY <1>2, <1>8 DEF New, Rom!Transfer
  <2>2. rom'.answers = rom.answers
    BY <1>1, <1>8 DEF Rom!Transfer, RomTypes
  <2>3. QED
    BY <1>3, <2>1, <2>2
<1>9. CASE Rom!ReadMemory(r)
  <2> DEFINE cells == [i \in 1..r.count |-> mem[r.addr + i - 1]]
  <2>1. New(View, r) = Cat(One(Rom!HAB), cells)
    BY <1>2, <1>9 DEF New, CellsAt, Rom!ReadMemory
  <2>2. rom'.answers = Cat(rom.answers, <<Rom!HAB>> \o cells)
    BY <1>1, <1>5, <1>9 DEF Rom!ReadMemory, RomTypes
  <2> HIDE DEF cells
  <2>3. QED
    BY <1>7, <2>1, <2>2
<1>10. CASE Rom!SkipDcd(r)
  <2>1. New(View, r) = Cat(One(Rom!HAB), One(SkipAck(rom.canSkip)))
    BY <1>2, <1>10 DEF New, Rom!SkipDcd
  <2>2. rom'.answers = Cat(rom.answers, <<Rom!HAB, SkipAck(rom.canSkip)>>)
    BY <1>1, <1>5, <1>10 DEF Rom!SkipDcd, SkipAck, OkAck, RomTypes
  <2>3. SkipAck(rom.canSkip) \in Cells
    BY AckTypes DEF SkipAck
  <2>4. QED
    BY <1>6, <2>1, <2>2, <2>3
<1>11. CASE Rom!Receive(r)
  <2>1. r.cmd = "DATA" /\ rom.cur # Rom!Nothing
    BY SMTT(40), <1>11 DEF Rom!Receive
  <2> DEFINE done == rom.got + r.count >= rom.cur.count
             dcd  == rom.cur.cmd = "DCD_WRITE"
             good == dcd => \A i \in DOMAIN r.cells : r.cells[i] = Rom!Cell("dcd")
             ack  == IF ~good THEN Rom!ErrorAck
                     ELSE IF dcd THEN Rom!Cell("ROM_WRITE_ACK") ELSE Rom!Cell("ROM_STATUS_ACK")
  <2>2. rom'.answers = IF ~done THEN rom.answers ELSE Cat(rom.answers, <<Rom!HAB, ack>>)
    BY <1>1, <1>5, <1>11 DEF Rom!Receive, RomTypes
  <2>3. ack = DataAck(View, r) /\ ack \in Cells
    BY <1>2, <1>4, AckTypes DEF DataAck, Good
  <2>4. New(View, r) = IF done THEN Cat(One(Rom!HAB), One(ack)) ELSE <<>>
    BY <1>2, <2>1, <2>3 DEF New
  <2>5. QED
    BY <1>3, <1>6, <2>2, <2>3, <2>4
<1>12. CASE Rom!JumpToPlugin(r) \/ Rom!JumpToImage(r)
  <2>1. rom'.answers = Cat(rom.answers, <<Rom!HAB>>)
    BY <1>1, <1>5, <1>12 DEF Rom!JumpToPlugin, Rom!JumpToImage, RomTypes
  <2>2. New(View, r) = One(Rom!HAB)
    BY <1>2, <1>12 DEF New, Rom!JumpToPlugin, Rom!JumpToImage, Rom!PluginAt, Rom!ImageAt, PluginAt,
                      ImageAt, IvtCell
  <2>3. QED
    BY <2>1, <2>2 DEF One
<1>13. CASE Rom!JumpRefused(r)
  <2>1. rom'.answers = Cat(rom.answers, <<Rom!HAB, Rom!ErrorAck>>)
    BY <1>1, <1>5, <1>13 DEF Rom!JumpRefused, RomTypes
  <2>2. New(View, r) = Cat(One(Rom!HAB), One(Rom!ErrorAck))
    BY <1>2, <1>13 DEF New, Rom!JumpRefused, Rom!PluginAt, Rom!ImageAt, PluginAt, ImageAt, IvtCell
  <2>3. QED
    BY <1>6, <2>1, <2>2, AckTypes
<1>14. CASE r.cmd = "DATA" /\ rom.cur = Rom!Nothing /\ UNCHANGED <<rom, mem>>
  <2>1. New(View, r) = <<>>
    BY <1>2, <1>14 DEF New
  <2>2. QED
    BY <1>3, <1>14, <2>1
<1>15. QED
  BY <1>8, <1>9, <1>10, <1>11, <1>12, <1>13, <1>14 DEF Rom!Handle

LEMMA NewSame ==
  ASSUME img' = img
  PROVE  \A v, r : New(v, r)' = New(v, r)
BY DEF New, DataAck, SkipAck, Good, CellsAt, PluginAt, ImageAt, IvtCell, OkAck, Rom!File,
       Rom!MainIvt, Rom!Cell, Rom!Nothing, Rom!Command, Rom!HAB, Rom!ErrorAck

-----------------------------------------------------------------------------
(* All the ROM has answered and will answer, report by report.             *)

\* s is a prefix of t.
Starts(s, t) == Len(s) <= Len(t) /\ \A j \in 1..Len(s) : t[j] = s[j]

LEMMA StartsJoined ==
  ASSUME NEW s \in Seq(Cells), NEW t \in Seq(Cells), NEW u \in Seq(Cells), Starts(s, t)
  PROVE  Starts(s, Cat(t, u)) /\ Starts(t, Cat(t, u))
<1>1. /\ Len(s) \in Nat /\ Len(t) \in Nat /\ Len(u) \in Nat /\ Len(Cat(t, u)) = Len(t) + Len(u)
      /\ \A j \in 1..Len(t) : Cat(t, u)[j] = t[j]
  BY CatType, CatAt
<1>2. QED
  BY <1>1 DEF Starts

\* For each view of the chain R, all the answers the ROM will have given by then: Q.
Track(R, Q) ==
  /\ Q[handled] = Cat(heard, rom.answers)
  /\ \A k \in handled..Len(delivered) : Q[k] \in Seq(Cells) /\ Starts(Q[k], Q[Len(delivered)])
  /\ \A k \in handled..(Len(delivered) - 1) : Q[k + 1] = Cat(Q[k], New(R[k], said[delivered[k + 1]]))

\* No step but these two changes the chain: the device accepts a report, the plugin returns.
LEMMA TrackQuiet ==
  ASSUME Typed, NEW R, NEW Q, Chain(R), Track(R, Q),
         Say \/ Listen \/ (Transport /\ ~H!DeviceAccepts) \/ RomHandles \/ RomAnswers \/ JudgeStep
         \/ Finished \/ UNCHANGED vars
  PROVE  /\ Chain(R)' /\ Track(R, Q)' /\ Last(R)' = Last(R)
         /\ UNCHANGED <<delivered, img>> /\ rom'.canSkip = rom.canSkip
         /\ IF RomHandles THEN handled' = handled + 1 /\ handled < Len(delivered) ELSE handled' = handled
         /\ ~RomHandles => View'.mem = View.mem /\ View'.mode = View.mode
<1>1. /\ UNCHANGED <<delivered, img>> /\ \A k \in 1..ops : said'[k] = said[k]
  BY QuietCall, JudgeSteps DEF JudgeStep, transport
<1>2. /\ handled \in Nat /\ Len(delivered) \in Nat /\ handled <= Len(delivered)
      /\ \A k \in 1..Len(delivered) : delivered[k] \in 1..ops
      /\ rom \in RomTypes /\ rom.answers \in Seq(Cells) /\ heard \in Seq(Cells) /\ sent \in Nat
  BY LastType DEF Typed, Carried, H!Ids, WireTypes, RomTypes, H!TypeOK
<1>3. ASSUME NEW k \in handled..(Len(delivered) - 1)
      PROVE  Q[k + 1] = Cat(Q[k], New(R[k], said[delivered[k + 1]])')
  <2>1. said'[delivered[k + 1]] = said[delivered[k + 1]]
    BY <1>1, <1>2
  <2>2. Q[k + 1] = Cat(Q[k], New(R[k], said[delivered[k + 1]]))
    BY DEF Track
  <2>3. New(R[k], said[delivered[k + 1]])' = New(R[k], said'[delivered'[k + 1]])
    BY <1>1, NewSame
  <2>4. QED
    BY <1>1, <2>1, <2>2, <2>3
<1>4. CASE RomHandles
  <2>1. /\ Chain(R)' /\ handled' = handled + 1 /\ handled < Len(delivered) /\ Last(R)' = Last(R)
        /\ rom'.canSkip = rom.canSkip /\ said[delivered[handled + 1]] \in Reports
        /\ Rom!Handle(said[delivered[handled + 1]])
    BY <1>4, ChainHandle
  <2>2. Cat(heard', rom'.answers) = Cat(Cat(heard, rom.answers), New(View, said[delivered[handled + 1]]))
    <3>1. View \in Views
      BY ViewType DEF Typed
    <3>2. New(View, said[delivered[handled + 1]]) \in Seq(Cells)
      BY <2>1, <3>1, NewType
    <3>3. rom'.answers = Cat(rom.answers, New(View, said[delivered[handled + 1]])) /\ heard' = heard
      BY <1>4, <2>1, HandleNew DEF RomHandles
    <3>4. Cat(Cat(heard, rom.answers), New(View, said[delivered[handled + 1]]))
            = Cat(heard, Cat(rom.answers, New(View, said[delivered[handled + 1]])))
      BY <1>2, <3>2, Assoc
    <3>5. QED
      BY <3>3, <3>4
  <2>3. Q[handled + 1] = Cat(heard', rom'.answers)
    <3>1. handled \in handled..(Len(delivered) - 1)
      BY <1>2, <2>1
    <3>2. /\ Q[handled + 1] = Cat(Q[handled], New(R[handled], said[delivered[handled + 1]]))
          /\ Q[handled] = Cat(heard, rom.answers) /\ R[handled] = View
      BY <3>1 DEF Track, Chain
    <3>3. QED
      BY <2>2, <3>2
  <2>4. Track(R, Q)'
    <3>1. \A k \in handled'..Len(delivered) : k \in handled..Len(delivered)
      BY <1>2, <2>1
    <3>2. \A k \in handled'..(Len(delivered) - 1) : k \in handled..(Len(delivered) - 1)
      BY <1>2, <2>1
    <3>3. \A k \in handled'..Len(delivered) : Q[k] \in Seq(Cells) /\ Starts(Q[k], Q[Len(delivered)])
      BY <3>1 DEF Track
    <3>4. (\A k \in handled..Len(delivered) : Q[k] \in Seq(Cells) /\ Starts(Q[k], Q[Len(delivered)]))'
      BY <1>1, <3>3 DEF Starts
    <3>5. \A k \in handled'..(Len(delivered) - 1) :
            Q[k + 1] = Cat(Q[k], New(R[k], said[delivered[k + 1]])')
      BY <1>3, <3>2
    <3>6. QED
      BY <1>1, <2>1, <2>3, <3>4, <3>5 DEF Track
  <2>5. QED
    BY <1>1, <1>4, <2>1, <2>4
<1>5. CASE RomAnswers
  <2>1. /\ mem' = mem /\ sent' = sent + 1 /\ handled' = handled /\ rom.answers # <<>>
        /\ rom' = [rom EXCEPT !.answers = Tail(rom.answers)]
        /\ heard' = Append(heard, Head(rom.answers))
    BY <1>5, DriverIsDriver DEF RomAnswers, Rom!SendAnswer, H!DeviceSends
  <2>2. rom'.answers = Tail(rom.answers) /\ rom'.canSkip = rom.canSkip
    BY <1>2, <2>1 DEF RomTypes
  <2>3. sent' + Len(rom'.answers) = sent + Len(rom.answers)
    BY <1>2, <2>1, <2>2
  <2>4. View' = View
    BY <1>2, <2>1, <2>3 DEF View, RomTypes
  <2>5. Cat(heard', rom'.answers) = Cat(heard, rom.answers)
    <3>1. /\ Head(rom.answers) \in Cells /\ Tail(rom.answers) \in Seq(Cells)
          /\ rom.answers = Cat(One(Head(rom.answers)), Tail(rom.answers))
      BY <1>2, <2>1, Tails
    <3>2. heard' = Cat(heard, One(Head(rom.answers)))
      BY <1>2, <2>1, <3>1, Appends
    <3>3. One(Head(rom.answers)) \in Seq(Cells)
      BY <3>1, Ones
    <3>4. Cat(Cat(heard, One(Head(rom.answers))), Tail(rom.answers))
            = Cat(heard, Cat(One(Head(rom.answers)), Tail(rom.answers)))
      BY <1>2, <3>1, <3>3, Assoc
    <3>5. QED
      BY <2>2, <3>1, <3>2, <3>4
  <2>6. Chain(R)' /\ Last(R)' = Last(R)
    BY <1>1, <2>1, <2>4, ChainQuiet
  <2>7. Track(R, Q)'
    BY <1>1, <1>3, <2>1, <2>5 DEF Track, Starts
  <2>8. ~RomHandles
    BY <1>2, <2>1 DEF RomHandles
  <2>9. QED
    BY <1>1, <2>1, <2>2, <2>4, <2>6, <2>7, <2>8
<1>6. CASE ~RomHandles /\ ~RomAnswers
  <2>1. UNCHANGED <<heard, rom, mem, sent, handled>>
    <3>1. CASE Say \/ Listen
      BY <3>1, SayFrame DEF Typed
    <3>2. CASE JudgeStep
      BY <3>2, JudgeSteps DEF JudgeStep, transport
    <3>3. CASE Transport
      BY <3>3, TransportFrame
    <3>4. CASE Finished \/ UNCHANGED vars
      BY <3>4 DEF Finished, vars, transport, target, wire
    <3>5. QED
      BY <1>6, <3>1, <3>2, <3>3, <3>4
  <2>2. View' = View
    BY <2>1 DEF View
  <2>3. Chain(R)' /\ Last(R)' = Last(R)
    BY <1>1, <2>1, <2>2, ChainQuiet
  <2>4. Track(R, Q)'
    BY <1>1, <1>3, <2>1 DEF Track, Starts
  <2>5. QED
    BY <1>1, <1>6, <2>1, <2>2, <2>3, <2>4
<1>7. QED
  BY <1>4, <1>5, <1>6

\* The device accepts a report: one view and its answers more.
LEMMA TrackAccept ==
  ASSUME Typed, NEW R, NEW Q, Chain(R), Track(R, Q), Transport, H!DeviceAccepts
  PROVE  \E S, P :
           /\ Chain(S)' /\ Track(S, P)' /\ Len(delivered') = Len(delivered) + 1
           /\ \A k \in handled..Len(delivered) : S[k] = R[k] /\ P[k] = Q[k]
           /\ Last(S)' = After(Last(R), said[writeBuf]) /\ Last(S)' = S[Len(delivered) + 1]
           /\ P[Len(delivered')] = Cat(Q[Len(delivered)], New(Last(R), said[writeBuf]))
           /\ writeBuf \in 1..ops /\ said[writeBuf] \in Reports /\ Pending
           /\ UNCHANGED <<sent, img, rom, mem, heard, handled, said>>
<1> DEFINE n == Len(delivered)
<1>1. UNCHANGED <<sent, img, rom, mem, heard, handled, said>>
  BY TransportFrame
<1>2. PICK S : /\ Chain(S)' /\ Len(delivered') = n + 1
               /\ \A k \in handled..n : S[k] = R[k]
               /\ Last(S)' = S[n + 1]
               /\ S[n + 1] = After(Last(R), said[writeBuf])
               /\ writeBuf \in 1..ops /\ said[writeBuf] \in Reports /\ Pending
  BY ChainAccept
<1>3. /\ handled \in Nat /\ n \in Nat /\ handled <= n /\ delivered \in Seq(Nat)
      /\ delivered' = Append(delivered, writeBuf) /\ Last(R) \in Views
  BY LastType DEF Typed, Carried, H!TypeOK, H!DeviceAccepts
<1>4. /\ delivered'[n + 1] = writeBuf /\ \A k \in 1..n : delivered'[k] = delivered[k]
  BY <1>2, <1>3
<1> DEFINE new == New(Last(R), said[writeBuf])
<1>5. PICK q : q = Cat(Q[n], new)
  OBVIOUS
<1>16. PICK P : P = [k \in Nat |-> IF k = n + 1 THEN q ELSE Q[k]]
  OBVIOUS
<1>6. (\A k \in handled..n : P[k] = Q[k]) /\ P[n + 1] = Cat(Q[n], new)
  <2>1. (\A k \in handled..n : P[k] = Q[k]) /\ P[n + 1] = q
    BY <1>3, <1>16
  <2>2. QED
    BY <1>5, <2>1
<1>7. new \in Seq(Cells)
  BY <1>2, <1>3, NewType
<1> HIDE DEF new
<1>8. \A k \in handled..n : Q[k] \in Seq(Cells) /\ Starts(Q[k], Q[n])
  BY DEF Track
<1>9. Q[n] \in Seq(Cells)
  BY <1>3, <1>8
<1>10. P[n + 1] \in Seq(Cells)
  BY <1>6, <1>7, <1>9, CatType
<1>11. \A k \in handled..n : P[k] \in Seq(Cells) /\ Starts(P[k], P[n + 1])
  BY <1>6, <1>7, <1>8, <1>9, StartsJoined
<1>12. \A k \in handled..(n + 1) : P[k] \in Seq(Cells) /\ Starts(P[k], P[n + 1])
  <2>1. Starts(P[n + 1], P[n + 1])
    BY <1>10, LenProperties DEF Starts
  <2>2. QED
    BY <1>3, <1>10, <1>11, <2>1
<1>13. ASSUME NEW k \in handled..n
       PROVE  P[k + 1] = Cat(P[k], New(S[k], said[delivered[k + 1]])')
  <2>1. CASE k = n
    <3>1. P[k + 1] = Cat(P[k], New(S[k], said[delivered'[k + 1]]))
      BY <1>2, <1>3, <1>4, <1>6, <2>1 DEF Last, new
    <3>2. QED
      BY <1>1, <3>1, NewSame
  <2>2. CASE k # n
    <3>1. k \in handled..(n - 1) /\ k + 1 \in handled..n /\ k + 1 \in 1..n
      BY <1>3, <2>2
    <3>2. Q[k + 1] = Cat(Q[k], New(R[k], said[delivered[k + 1]]))
      BY <3>1 DEF Track
    <3>3. P[k + 1] = Cat(P[k], New(S[k], said[delivered'[k + 1]]))
      BY <1>2, <1>4, <1>6, <3>1, <3>2
    <3>4. QED
      BY <1>1, <3>3, NewSame
  <2>3. QED
    BY <2>1, <2>2
<1>14. Track(S, P)'
  <2>1. Len(delivered') - 1 = n
    BY <1>2, <1>3
  <2>2. P[handled] = Cat(heard, rom.answers)
    <3>1. handled \in handled..n
      BY <1>3
    <3>2. QED
      BY <1>6, <3>1 DEF Track
  <2>3. (\A k \in handled..Len(delivered) : P[k] \in Seq(Cells) /\ Starts(P[k], P[Len(delivered)]))'
    BY <1>1, <1>2, <1>12
  <2>4. QED
    BY <1>1, <1>2, <1>13, <2>1, <2>2, <2>3 DEF Track
<1>15. QED
  BY <1>1, <1>2, <1>6, <1>14 DEF new

\* The plugin is back in a ROM that has handled all it has been given.
LEMMA TrackPlugin ==
  ASSUME Typed, NEW R, NEW Q, Chain(R), Track(R, Q), PluginReturns, handled = Len(delivered)
  PROVE  \E S, P :
           /\ Chain(S)' /\ Track(S, P)' /\ UNCHANGED <<img, mem, heard, handled, delivered, said>>
           /\ Last(S)' = View' /\ View'.mode = "listening" /\ View'.mem = View.mem
           /\ View'.can = View.can /\ rom'.canSkip = rom.canSkip
           /\ View'.cur = View.cur /\ View'.got = View.got
           /\ S[handled] = View' /\ View.mode = "plugin" /\ Last(R) = View
           /\ P[Len(delivered)] = Cat(Q[Len(delivered)], One(OkAck))
<1> DEFINE n == Len(delivered)
<1>1. /\ UNCHANGED <<img, mem, heard, handled, delivered, said, sent>> /\ rom.mode = "plugin"
      /\ rom' = [rom EXCEPT !.mode = "listening", !.plugged = TRUE,
                            !.answers = Cat(rom.answers, One(OkAck))]
  BY DEF PluginReturns, Rom!PluginReturns, Rom!Answer, OkAck, Cat, One, transport, wire
<1>2. /\ handled \in Nat /\ n \in Nat
      /\ rom \in RomTypes /\ rom.answers \in Seq(Cells) /\ heard \in Seq(Cells) /\ sent \in Nat
  BY LastType DEF Typed, Carried, H!TypeOK, WireTypes, RomTypes
<1>3. /\ rom'.mode = "listening" /\ rom'.canSkip = rom.canSkip /\ rom'.cur = rom.cur
      /\ rom'.got = rom.got /\ rom'.answers = Cat(rom.answers, One(OkAck))
  BY <1>1, <1>2 DEF RomTypes
<1>4. View' \in Views
  <2>1. WireTypes' /\ Carried'
    <3>1. [Next]_vars
      BY DEF Next
    <3>2. QED
      BY <3>1, WireTypesStep, CarriedStep DEF Typed
  <2>2. rom' \in RomTypes /\ mem' \in [Addresses -> Cells]
    BY <2>1 DEF WireTypes
  <2>3. sent' \in Nat /\ rom'.answers \in Seq(Cells)
    BY <1>1, <1>2, <2>2 DEF RomTypes
  <2>4. sent' + Len(rom'.answers) \in Nat
    BY <2>3
  <2>5. QED
    BY <2>2, <2>4 DEF View, Views, RomTypes
<1>5. PICK S : S = [k \in Nat |-> View']
  OBVIOUS
<1>6. PICK P : P = [k \in Nat |-> Cat(Q[n], One(OkAck))]
  OBVIOUS
<1>7. One(OkAck) \in Seq(Cells) /\ Q[n] = Cat(heard, rom.answers) /\ Q[n] \in Seq(Cells)
  BY <1>2, AckTypes, Ones DEF Track
<1>8. P[n] = Cat(heard', rom'.answers) /\ P[n] \in Seq(Cells) /\ P[n] = Cat(Q[n], One(OkAck))
  <2>1. P[n] = Cat(Q[n], One(OkAck))
    BY <1>2, <1>6
  <2>2. Cat(heard', rom'.answers) = Cat(Cat(heard, rom.answers), One(OkAck))
    BY <1>1, <1>2, <1>3, <1>7, Assoc
  <2>3. QED
    BY <1>7, <2>1, <2>2, CatType
<1>9. Starts(P[n], P[n])
  BY <1>8, LenProperties DEF Starts
<1>10. Chain(S)' /\ Last(S)' = View' /\ S[handled] = View'
  BY <1>1, <1>2, <1>4, <1>5 DEF Chain, Last
<1>11. Track(S, P)'
  BY <1>1, <1>2, <1>8, <1>9 DEF Track, Starts
<1>12. Last(R) = View /\ View.mode = "plugin" /\ View.mem = mem /\ View.can = rom.canSkip
       /\ View.cur = rom.cur /\ View.got = rom.got
  BY <1>1 DEF Chain, Last, View
<1>13. /\ View'.mode = "listening" /\ View'.mem = mem /\ View'.can = rom.canSkip
       /\ View'.cur = rom.cur /\ View'.got = rom.got
  BY <1>1, <1>3 DEF View
<1>14. QED
  BY <1>1, <1>3, <1>8, <1>10, <1>11, <1>12, <1>13


-----------------------------------------------------------------------------
(* Where the host is in what the ROM answers.                              *)

\* The phases in which the host reads.
Reading == phase \in {"hab", "ack", "read"}

\* The answers the host has read, without the one it is about to judge.
Seen == IF asked /\ Reading /\ readBuf # 0 THEN taken - 1 ELSE taken

\* d is what it will read of q.
Due(q, s, d) ==
  d \in Seq(Cells) /\ Len(q) = s + Len(d) /\ \A j \in 1..Len(d) : q[s + j] = d[j]

\* The ROM has all of the call in progress, or will have.
Owes == Started /\ (HasData => Got = Job.count)

\* The IVT header AddIvtHdr builds, and the cells of the ROM it replaces.
Header == Rom!IvtHeader(ExecutingAddr(img))

MemCells(v) == [i \in 1..HeaderCells |-> v.mem[FlashHdrAddr(img) + i - 1]]

\* Its answer, after the HAB report.
Rest(v) ==
  IF HasData THEN One(RequiredCmdAck)
  ELSE IF stage = "skip" THEN One(SkipAck(rom.canSkip))
  ELSE IF stage \in {"readHdr", "verifyHdr"} THEN MemCells(v)
  ELSE IF stage = "start" /\ v.mode # "plugin" THEN One(OkAck)
  ELSE <<>>

\* What the ROM answers to the call in progress.
Own(v) == IF Owes THEN Cat(One(Rom!HAB), Rest(v)) ELSE <<>>

\* Calls that may find answers of the call before, which failed.
CanBeStale == stage \in {"dcd", "load", "readHdr", "writeHdr"}

\* None of them passes for the acknowledgement of the call.
Stale(s) ==
  /\ s \in Seq(Cells) /\ Len(s) <= 2
  /\ s # <<>> => /\ CanBeStale /\ s[Len(s)] # Rom!HAB
                 /\ HasData => s[Len(s)] # RequiredCmdAck

\* A cell that is neither an answer nor a header.
PlainCell(c) == c.what \in {"junk", "file", "dcd"}

\* What is due, of which st is left over from the call before.
Answers(v, d, st) ==
  CASE phase = "ack" ->
         \/ st = <<>> /\ d = Rest(v)
         \/ st # <<>> /\ CanBeStale /\ d # <<>> /\ d[1] # RequiredCmdAck
    [] phase = "read" ->
         \/ st = <<>> /\ Cat(buf, d) = MemCells(v)
         \/ /\ st # <<>> /\ CanBeStale /\ Len(buf) + Len(d) = HeaderCells + 2
            /\ PlainCell(d[Len(d)])
    [] OTHER -> Stale(st) /\ d = Cat(st, Own(v))

\* The calls that start code.
Jumps == stage \in {"start", "jump", "jumpHdr"}

\* Whether the ROM listens; a jump is answered only when it has seen everything else.
Mode(R, Q, d) ==
  LET n == Len(delivered)
      m == Last(R).mode
  IN  /\ CASE Jumps /\ ~Started -> m = "listening"
           [] stage = "start" /\ Started -> m \in {"listening", "plugin"}
           [] stage \in {"jump", "jumpHdr"} /\ Started -> m = "image"
           [] stage = "load" ->
                m = "listening" \/ (m = "plugin" /\ handled = n /\ ~Started /\ d = <<>>)
           [] OTHER -> m = "listening"
      /\ Jumps /\ phase = "ack" => handled = n
      /\ Jumps /\ Started /\ phase # "ack" => \A k \in handled..(n - 1) : Len(Q[k]) <= Seen

\* m holds the whole program; m holds no header.
Whole(m)  == \A p \in Program(img) : m[p[1]] = Rom!File(p[2])
Plain(m)  == \A a \in Addresses : PlainCell(m[a])

\* The IVT the host jumps to.
Target(i) == <<SelfAddr(i), IF i.second = "ivt" THEN i.code ELSE i.ivt>>
Wanted    == Program(img) \cup (IF img.second = "uimage" THEN {} ELSE {Target(img)})
Ready(m)  == \A p \in Wanted : m[p[1]] = Rom!File(p[2])

\* The load has brought what no later segment takes away.
Brought(m) ==
  \A p \in Wanted, j \in 1..seg :
    /\ Brings(LoadSegments(img)[j], p, IF j < seg THEN LoadSegments(img)[j].cells ELSE pos + Got)
    /\ \A k \in (j + 1)..Len(LoadSegments(img)) : Spares(LoadSegments(img)[k], p)
    => m[p[1]] = Rom!File(p[2])

\* What the calls so far have brought to memory.
Memory(v, st) ==
  /\ stage \in CalmStages \cup {"readHdr"} => Plain(v.mem)
  /\ HasData => Sync(v)
  /\ stage \in {"ecc", "dcd", "plugin", "start"} => seg = 1 /\ (stage = "dcd" \/ pos = 0)
  /\ (stage = "plugin" /\ Got > 0) \/ stage = "start" => v.mem[img.self] = IvtCell
  /\ stage = "load" => Brought(v.mem)
  /\ stage \in {"skip", "jump"} => img.second # "uimage" /\ Ready(v.mem)
  /\ stage \in {"readHdr", "verifyHdr", "jumpHdr"} => Whole(v.mem)
  /\ stage \in {"verifyHdr", "jumpHdr"} => v.mem[FlashHdrAddr(img)] = Header
  /\ stage = "writeHdr" /\ st = <<>> =>
       /\ FlashHdr[1] = Header /\ Whole(v.mem)
       /\ \A k \in 2..HeaderCells : v.mem[FlashHdrAddr(img) + k - 1] = FlashHdr[k]
       /\ Got > 0 => v.mem[FlashHdrAddr(img)] = Header

\* The host is on course: d is due to it, st of it from the call before.
Course(R, Q, d, st) ==
  /\ Due(Q[Len(delivered)], Seen, d) /\ Answers(Last(R), d, st)
  /\ Mode(R, Q, d) /\ Memory(Last(R), st)

\* What holds even when the run has failed: the ROM is given nothing after a jump that
\* it did not refuse, and the reports that may still reach it do no harm.
Safe(R) ==
  LET n == Len(delivered)
  IN  /\ \A k \in handled..n : (R[k].mode = "image" => Whole(R[k].mem)) /\ R[k].can = rom.canSkip
      /\ \A k \in handled..(n - 1) : R[k].mode = "listening"
      /\ ~Running /\ Pending =>
           /\ said[writeBuf].cmd \in {"WR_FILE", "DCD_WRITE", "RD_MEM"}
           /\ R[n].mode = "listening" \/ (R[n].mode = "plugin" /\ handled = n)
      /\ stage = "done" /\ img.task = "RUN" => rom.mode = "image"

-----------------------------------------------------------------------------
(* What is due.                                                            *)

\* More answers are due when the ROM gives more, and one less when the host reads one.
LEMMA DueMore ==
  ASSUME NEW q \in Seq(Cells), NEW s \in Nat, NEW d, Due(q, s, d), NEW u \in Seq(Cells)
  PROVE  Due(Cat(q, u), s, Cat(d, u))
<1>1. /\ d \in Seq(Cells) /\ Len(q) = s + Len(d) /\ \A j \in 1..Len(d) : q[s + j] = d[j]
      /\ Len(d) \in Nat /\ Len(u) \in Nat
  BY LenProperties DEF Due
<1>2. /\ Cat(q, u) \in Seq(Cells) /\ Len(Cat(q, u)) = Len(q) + Len(u)
      /\ \A j \in 1..Len(q) : Cat(q, u)[j] = q[j]
      /\ \A j \in 1..Len(u) : Cat(q, u)[Len(q) + j] = u[j]
  BY CatType, CatAt
<1>3. /\ Cat(d, u) \in Seq(Cells) /\ Len(Cat(d, u)) = Len(d) + Len(u)
      /\ \A j \in 1..Len(d) : Cat(d, u)[j] = d[j]
      /\ \A j \in 1..Len(u) : Cat(d, u)[Len(d) + j] = u[j]
  BY <1>1, CatType, CatAt
<1>4. ASSUME NEW j \in 1..(Len(d) + Len(u)) PROVE Cat(q, u)[s + j] = Cat(d, u)[j]
  <2>1. CASE j <= Len(d)
    <3>1. j \in 1..Len(d) /\ s + j \in 1..Len(q)
      BY <1>1, <2>1
    <3>2. QED
      BY <1>1, <1>2, <1>3, <3>1
  <2>2. CASE j > Len(d)
    <3>1. PICK i \in 1..Len(u) : j = Len(d) + i /\ s + j = Len(q) + i
      <4>1. j - Len(d) \in 1..Len(u) /\ j = Len(d) + (j - Len(d)) /\ s + j = Len(q) + (j - Len(d))
        BY <1>1, <2>2
      <4>2. QED
        BY <4>1
    <3>2. QED
      BY <1>2, <1>3, <3>1
  <2>3. QED
    BY <1>1, <2>1, <2>2
<1>5. QED
  BY <1>1, <1>2, <1>3, <1>4 DEF Due

LEMMA DueNext ==
  ASSUME NEW q \in Seq(Cells), NEW s \in Nat, NEW d, Due(q, s, d), d # <<>>
  PROVE  /\ Due(q, s + 1, Tail(d)) /\ q[s + 1] = d[1] /\ d[1] = Head(d) /\ d[1] \in Cells
         /\ d = Cat(One(d[1]), Tail(d)) /\ Tail(d) \in Seq(Cells) /\ Len(d) = Len(Tail(d)) + 1
         /\ Tail(d) # <<>> => Tail(d)[Len(Tail(d))] = d[Len(d)]
<1>1. /\ d \in Seq(Cells) /\ Len(q) = s + Len(d) /\ \A j \in 1..Len(d) : q[s + j] = d[j]
      /\ Len(d) \in Nat /\ Len(d) >= 1
  BY DEF Due
<1>2. PICK t : t = Tail(d)
  OBVIOUS
<1>3. /\ t \in Seq(Cells) /\ Len(t) = Len(d) - 1 /\ \A j \in 1..Len(t) : t[j] = d[j + 1]
      /\ Len(t) \in Nat
  BY <1>1, <1>2, HeadTailProperties
<1>4. q[s + 1] = d[1] /\ d[1] = Head(d) /\ d[1] \in Cells
  BY <1>1
<1>5. ASSUME NEW j \in 1..Len(t) PROVE q[s + 1 + j] = t[j]
  <2>1. j + 1 \in 1..Len(d) /\ s + 1 + j = s + (j + 1)
    BY <1>1, <1>3
  <2>2. QED
    BY <1>1, <1>3, <2>1
<1>6. Due(q, s + 1, t)
  BY <1>1, <1>3, <1>5 DEF Due
<1>7. d = Cat(One(d[1]), t)
  BY <1>1, <1>2, <1>4, Tails
<1>8. t # <<>> => t[Len(t)] = d[Len(d)]
  BY <1>1, <1>3
<1>9. Len(d) = Len(t) + 1
  BY <1>1, <1>3
<1>10. QED
  BY <1>2, <1>3, <1>4, <1>6, <1>7, <1>8, <1>9

\* The device accepts the report of the call in progress.
LEMMA OrderAccept ==
  ASSUME Typed, Calls, Lone, Running, Transport, H!DeviceAccepts
  PROVE  /\ asked /\ phase \in {"cmd", "data"} /\ Started' /\ Sent' /\ ~Sent /\ writeBuf = ops
         /\ said[writeBuf] = IF phase = "cmd" THEN Job ELSE SendData
         /\ Got = IF phase = "cmd" THEN 0 ELSE at
         /\ Got' = IF phase = "cmd" THEN 0 ELSE at + DataCells
         /\ UNCHANGED <<img, stage, phase, asked, seg, pos, at, buf, FlashHdr, said, writeBuf, rom, mem,
                        heard, handled, sent, okReads, pc, ret, ops, taken, readBuf>>
         /\ UNCHANGED <<Job, Running, HasData, RequiredCmdAck, Segment>> /\ ~Pending'
         /\ Seen' = Seen /\ Seen \in Nat
<1>1. PICK r \in pending : r.kind = "write" /\ H!Complete(r, 0, OutLen, Len(delivered) + 1)
  BY DEF H!DeviceAccepts, H!OldestOf
<1>2. Mine("read").kind = "read" /\ (pending = {Mine("write")} => pending \ {r} = {})
  BY <1>1 DEF Mine
<1>3. asked /\ phase \in {"cmd", "data"} /\ ~H!Delivered /\ pending = {Mine("write")}
  <2>1. pc \in {"idle", "waitWrite", "waitRead", "cancelRead"} /\ ret.op \in {"read", "write"}
    BY DEF Typed, Carried, H!TypeOK, H!Returns, H!Kinds
  <2>2. CASE pc = "waitWrite"
    BY <1>1, <2>2 DEF Lone, LoneWrite, Calls
  <2>3. CASE pc = "idle" /\ ~Ok /\ ret.op = "write"
    BY <1>1, <2>3 DEF Lone, FailedWrite, Resumed
  <2>4. CASE pc \in {"waitRead", "cancelRead"} \/ (pc = "idle" /\ (Ok \/ ret.op = "read"))
    BY <1>1, <1>2, <2>4 DEF Lone, LoneRead, FailedRead
  <2>5. QED
    BY <2>1, <2>2, <2>3, <2>4
<1>4. ops > 0 /\ writeBuf = ops /\ said[ops] = IF phase = "cmd" THEN Job ELSE SendData
  BY <1>3 DEF Calls
<1>5. /\ UNCHANGED <<img, stage, phase, asked, seg, pos, at, buf, FlashHdr, said, writeBuf, rom, mem,
                     heard, handled, sent, okReads, pc, ret, ops, taken, readBuf>>
      /\ delivered' = Append(delivered, writeBuf) /\ pending' = pending \ {r}
  BY <1>1, QuietSteps, TransportFrame DEF H!DeviceAccepts, H!Complete, H!host, H!ghost
<1>6. H!Delivered'
  <2>1. delivered \in Seq(Nat) /\ writeBuf \in Nat
    BY DEF Typed, Carried, H!TypeOK
  <2>2. QED
    BY <1>4, <1>5, <2>1 DEF H!Delivered
<1>7. Sent' /\ ~Sent
  BY <1>3, <1>5, <1>6 DEF Sent
<1>8. UNCHANGED <<Job, DataCells, Running, HasData, RequiredCmdAck, Segment>>
  BY <1>5, JobSame DEF DataCells
<1>9. at \in Nat /\ taken \in Nat
  BY DEF Typed, HostTypes, Carried, H!TypeOK
<1>10. ~Pending'
  BY <1>2, <1>3, <1>5 DEF Pending
<1>11. Seen' = Seen /\ Seen \in Nat
  BY <1>3, <1>5, <1>9 DEF Seen, Reading
<1>12. Started' /\ Got = (IF phase = "cmd" THEN 0 ELSE at)
       /\ Got' = (IF phase = "cmd" THEN 0 ELSE at + DataCells)
  BY <1>3, <1>5, <1>7, <1>8, <1>9 DEF Started, Got
<1>13. QED
  BY <1>3, <1>4, <1>5, <1>7, <1>8, <1>10, <1>11, <1>12

\* What each call asks for.
LEMMA Jobs ==
  ASSUME HostTypes, Running
  PROVE  /\ HasData <=> stage \in {"ecc", "dcd", "plugin", "load", "writeHdr"}
         /\ stage = "dcd" => Job.cmd = "DCD_WRITE" /\ Job.count = Batch
         /\ HasData /\ stage # "dcd" => Job.cmd = "WR_FILE"
         /\ RequiredCmdAck = IF ~HasData THEN OkAck
                             ELSE IF stage = "dcd" THEN Rom!Cell("ROM_WRITE_ACK")
                             ELSE Rom!Cell("ROM_STATUS_ACK")
         /\ stage = "skip" => Job.cmd = "SKIP_DCD"
         /\ Jumps <=> Job.cmd = "JUMP"
         /\ Jumps => ~HasData /\ Job.count = 0
         /\ stage = "start" => Job.addr = img.self
         /\ stage = "jump" => Job.addr = SelfAddr(img)
         /\ stage = "jumpHdr" => Job.addr = FlashHdrAddr(img)
         /\ Job.cmd = "RD_MEM" <=> stage \in {"readHdr", "verifyHdr"}
         /\ stage \in {"readHdr", "verifyHdr", "writeHdr"} =>
              Job.addr = FlashHdrAddr(img) /\ Job.count = HeaderCells
         /\ stage = "plugin" => Job.addr = img.self /\ Job.count = img.plugin
         /\ stage = "load" => Job.addr = Segment.addr + pos /\ Job.count = Rounded(Batch)
<1>1. stage \in Stages \ {"done", "failed"}
  BY DEF HostTypes, Running
<1>2. /\ Job.cmd = CASE stage \in {"ecc", "plugin", "load", "writeHdr"} -> "WR_FILE"
                     [] stage = "dcd" -> "DCD_WRITE" [] stage = "skip" -> "SKIP_DCD"
                     [] stage \in {"start", "jump", "jumpHdr"} -> "JUMP"
                     [] OTHER -> "RD_MEM"
  BY <1>1 DEF Job, Rom!Command, Stages
<1>3. /\ HasData <=> stage \in {"ecc", "dcd", "plugin", "load", "writeHdr"}
      /\ stage = "dcd" => Job.cmd = "DCD_WRITE"
      /\ HasData /\ stage # "dcd" => Job.cmd = "WR_FILE"
      /\ stage = "skip" => Job.cmd = "SKIP_DCD"
      /\ Jumps <=> Job.cmd = "JUMP"
      /\ Jumps => ~HasData
      /\ Job.cmd = "RD_MEM" <=> stage \in {"readHdr", "verifyHdr"}
  BY <1>1, <1>2 DEF HasData, Jumps, Stages
<1>4. /\ stage = "dcd" => Job.count = Batch
      /\ Jumps => Job.count = 0
      /\ stage = "start" => Job.addr = img.self
      /\ stage = "jump" => Job.addr = SelfAddr(img)
      /\ stage = "jumpHdr" => Job.addr = FlashHdrAddr(img)
      /\ stage \in {"readHdr", "verifyHdr", "writeHdr"} =>
              Job.addr = FlashHdrAddr(img) /\ Job.count = HeaderCells
      /\ stage = "plugin" => Job.addr = img.self /\ Job.count = img.plugin
      /\ stage = "load" => Job.addr = Segment.addr + pos /\ Job.count = Rounded(Batch)
  BY <1>1 DEF Job, Rom!Command, Jumps
<1>5. RequiredCmdAck = IF ~HasData THEN OkAck
                       ELSE IF stage = "dcd" THEN Rom!Cell("ROM_WRITE_ACK")
                       ELSE Rom!Cell("ROM_STATUS_ACK")
  <2>1. Job.cmd = "WR_FILE" => RequiredCmdAck = Rom!Cell("ROM_STATUS_ACK")
    BY DEF RequiredCmdAck
  <2>2. Job.cmd = "DCD_WRITE" => RequiredCmdAck = Rom!Cell("ROM_WRITE_ACK")
    BY DEF RequiredCmdAck
  <2>3. ~HasData => RequiredCmdAck = OkAck
    BY DEF RequiredCmdAck, HasData, OkAck
  <2>4. QED
    BY <1>3, <2>1, <2>2, <2>3
<1>6. QED
  BY <1>3, <1>4, <1>5

\* A length rounded up to whole reports grows by less than a report.
LEMMA RoundedMost ==
  ASSUME NEW c \in Nat \ {0}
  PROVE  Rounded(c) <= c + OutCells - 1
<1>1. OutCells \in Nat \ {0}
  BY SizesAssumption
<1>2. ((c + OutCells - 1) \div OutCells) * OutCells <= c + OutCells - 1
  BY <1>1
<1>3. QED
  BY <1>1, <1>2 DEF Rounded

\* The addresses and cells that matter.
LEMMA Wants ==
  ASSUME HostTypes, NEW p \in Wanted
  PROVE  p[1] \in Addresses /\ p[1] \in Int /\ p[2] \in Int
<1>1. /\ img.self \in Nat /\ img.ivt \in Nat /\ img.code \in Nat /\ img.next.self \in Nat
      /\ img.next.boot \in Nat /\ img.size \in Nat /\ SelfAddr(img) \in Addresses /\ LaidOut(img)
      /\ img.segs \in Seq([from : Nat, cells : Nat \ {0}, addr : Addresses])
  BY ImageType DEF HostTypes
<1>2. Addresses \subseteq Int
  BY SizesAssumption
<1>3. CASE p \in Program(img)
  <2>1. p[1] \in Addresses
    BY <1>1, <1>3 DEF LaidOut
  <2>2. p[2] \in Int
    <3>1. CASE img.family = "MX8"
      <4>1. PICK j \in 1..Len(img.segs) : \E k \in 0..(img.segs[j].cells - 1) :
              p = <<img.segs[j].addr + k, img.segs[j].from + k>>
        BY <1>3, <3>1 DEF Program
      <4>2. img.segs[j] \in [from : Nat, cells : Nat \ {0}, addr : Addresses]
        BY <1>1, <4>1, ElementOfSeq
      <4>3. img.segs[j].from \in Nat /\ img.segs[j].cells \in Nat
        BY <4>2
      <4>4. QED
        BY <4>1, <4>3
    <3>2. CASE img.family # "MX8" /\ img.second = "uimage"
      <4>1. PICK k \in 0..(img.size - img.code - 1) : p = <<img.next.boot + k, img.code + k>>
        BY <1>3, <3>2 DEF Program
      <4>2. QED
        BY <1>1, <4>1
    <3>3. CASE img.family # "MX8" /\ img.second # "uimage"
      <4>1. PICK k \in 0..(img.size - 1) : p = <<LinkBase(img) + k, k>>
        BY <1>3, <3>3 DEF Program
      <4>2. QED
        BY <4>1
    <3>4. QED
      BY <3>1, <3>2, <3>3
  <2>3. QED
    BY <1>2, <2>1, <2>2
<1>4. CASE p \notin Program(img)
  <2>1. p = Target(img)
    BY <1>4 DEF Wanted
  <2>2. QED
    BY <1>1, <1>2, <2>1 DEF Target
<1>5. QED
  BY <1>3, <1>4

\* A jump to an IVT or a header ends the ROM's listening.
LEMMA Jumped ==
  ASSUME NEW v \in Views, NEW r \in Reports, v.mode = "listening", r.cmd = "JUMP"
  PROVE  /\ After(v, r).mem = v.mem
         /\ PluginAt(v, r.addr) => After(v, r).mode = "plugin"
         /\ ~PluginAt(v, r.addr) /\ (ImageAt(v, r.addr) \/ v.mem[r.addr].what = "header") =>
              After(v, r).mode = "image"
<1>1. After(v, r) = AfterJump(v, r)
  BY DEF After
<1>2. CASE ~PluginAt(v, r.addr) /\ (ImageAt(v, r.addr) \/ v.mem[r.addr].what = "header")
  <2>1. PICK d : After(v, r) = [v EXCEPT !.mode = "image", !.outs = v.outs + 1, !.dcd = d]
    BY <1>1, <1>2 DEF AfterJump
  <2>2. QED
    BY <1>2, <2>1, AfterJumps DEF Views
<1>3. QED
  BY <1>2, AfterJumps

LEMMA JumpAccept ==
  ASSUME Typed, Running, LoadedInPlace(img), Jumps, NEW v \in Views, v.mode = "listening",
         stage = "start" => v.mem[img.self] = IvtCell,
         stage = "jump" => img.second # "uimage" /\ Ready(v.mem),
         stage = "jumpHdr" => v.mem[FlashHdrAddr(img)] = Header
  PROVE  /\ After(v, Job).mem = v.mem
         /\ stage = "start" => After(v, Job).mode = "plugin"
         /\ stage # "start" => After(v, Job).mode = "image"
<1>1. Job \in Reports /\ Job.cmd = "JUMP" /\ stage \in {"start", "jump", "jumpHdr"}
  BY JobType, Jobs DEF Typed, Jumps
<1>2. CASE stage = "start"
  <2>1. PluginAt(v, Job.addr)
    BY <1>2, Jobs DEF PluginAt, Typed, Where
  <2>2. QED
    BY <1>1, <1>2, <2>1, Jumped
<1>3. CASE stage = "jump"
  <2>1. Job.addr = SelfAddr(img) /\ Target(img) \in Wanted
    BY <1>3, Jobs DEF Typed, Wanted
  <2>2. v.mem[Job.addr] = Rom!File(Rom!MainIvt)
    BY <1>3, <2>1 DEF Ready, Target, Rom!MainIvt
  <2>3. ~PluginAt(v, Job.addr)
    <3>1. CASE img.second = "ivt"
      <4>1. img.code # img.ivt
        BY <3>1 DEF LoadedInPlace
      <4>2. Rom!File(Rom!MainIvt) # IvtCell
        BY <3>1, <4>1 DEF Rom!File, IvtCell, Rom!MainIvt
      <4>3. QED
        BY <2>2, <4>2 DEF PluginAt
    <3>2. CASE img.second # "ivt"
      <4>1. img.second = "none" /\ LaidOut(img) /\ img.plugin \in Nat
        BY <1>3, <3>2, ImageType DEF Typed, HostTypes
      <4>2. ~(img.plugin > 0)
        BY <4>1 DEF LaidOut
      <4>3. QED
        BY <4>2 DEF PluginAt
    <3>3. QED
      BY <3>1, <3>2
  <2>4. ImageAt(v, Job.addr)
    BY <2>2, <2>3 DEF ImageAt
  <2>5. QED
    BY <1>1, <1>3, <2>3, <2>4, Jumped
<1>4. CASE stage = "jumpHdr"
  <2>1. v.mem[Job.addr].what = "header"
    BY <1>4, Jobs DEF Header, Rom!IvtHeader, Typed
  <2>2. ~PluginAt(v, Job.addr)
    BY <2>1 DEF PluginAt, IvtCell, Rom!File
  <2>3. QED
    BY <1>1, <1>4, <2>1, <2>2, Jumped
<1>5. QED
  BY <1>1, <1>2, <1>3, <1>4

\* The ROM is where the host is in the transfer.
LEMMA SyncStep ==
  ASSUME Typed, Calls, Lone, Running, Transport, H!DeviceAccepts, HasData,
         NEW v \in Views, v.mode = "listening", Sync(v), NEW w, w = After(v, said[writeBuf])
  PROVE  /\ Sync(w)'
         /\ phase = "cmd" => said[writeBuf] = Job
         /\ phase = "data" => /\ said[writeBuf] = SendData /\ v.cur = Job /\ v.got = at
                              /\ v.cur # Rom!Nothing
<1> DEFINE r == said[writeBuf]
<1>1. /\ phase \in {"cmd", "data"} /\ Started' /\ ~Sent
      /\ r = IF phase = "cmd" THEN Job ELSE SendData
      /\ Got = IF phase = "cmd" THEN 0 ELSE at
      /\ Got' = IF phase = "cmd" THEN 0 ELSE at + DataCells
      /\ UNCHANGED <<img, Job, said, writeBuf>> /\ Running
  BY OrderAccept
<1>2. Job \in Reports /\ Job.count \in Nat /\ Job.count > 0 /\ Job.cmd \in {"WR_FILE", "DCD_WRITE"}
  BY <1>1, JobType DEF Typed, HasData, Reports
<1>3. UNCHANGED Rom!Nothing
  BY DEF Rom!Nothing, Rom!Command
<1>4. Job # Rom!Nothing
  BY <1>2, NothingType
<1>5. CASE phase = "cmd"
  <2>1. w.cur = Job /\ w.got = 0
    BY <1>1, <1>2, <1>5, AfterCommand
  <2>2. QED
    BY <1>1, <1>2, <1>3, <1>5, <2>1 DEF Sync
<1>6. CASE phase = "data"
  <2>1. /\ DataCells \in 1..(Job.count - at) /\ SendData \in Reports
        /\ SendData.cmd = "DATA" /\ SendData.count = DataCells /\ at \in Nat /\ at < Job.count
    BY <1>1, <1>6, SendDataType DEF Typed, Where, HostTypes
  <2>2. v.cur = Job /\ v.got = at
    BY <1>1, <1>6, <2>1 DEF Sync, Started
  <2>3. /\ w.got = at + DataCells
        /\ w.cur = IF at + DataCells >= Job.count THEN Rom!Nothing ELSE Job
    BY <1>1, <1>4, <1>6, <2>1, <2>2, AfterReceive
  <2>4. w.cur = IF Got' < Job.count THEN Job ELSE Rom!Nothing
    BY <1>1, <1>2, <1>3, <1>6, <2>1, <2>3
  <2>6. QED
    BY <1>1, <1>3, <1>4, <1>6, <2>2, <2>3, <2>4 DEF Sync
<1>7. QED
  BY <1>1, <1>5, <1>6


\* Where the data in progress goes.
LEMMA Landed ==
  ASSUME Typed, Running, phase = "data", stage # "dcd", NEW v \in Views, v.mode = "listening",
         v.cur = Job, v.got = at
  PROVE  /\ DataCells \in 1..(Job.count - at) /\ Job.count \in Nat /\ Job.addr \in Int /\ at \in Nat
         /\ \A a \in Addresses : After(v, SendData).mem[a] =
              IF a - (Job.addr + at) \in 0..(DataCells - 1) THEN Content(a - Job.addr) ELSE v.mem[a]
<1>1. HasData /\ Job.cmd = "WR_FILE" /\ Job \in Reports /\ Job # Rom!Nothing
  BY Jobs, JobType, NothingType DEF Typed, Where
<1>2. /\ DataCells \in 1..(Job.count - at) /\ Job.count \in Nat /\ Job.addr \in Int /\ at \in Nat
      /\ SendData \in Reports /\ SendData.cmd = "DATA" /\ SendData.count = DataCells
      /\ SendData.cells = [i \in 1..DataCells |-> Content(at + i - 1)]
  BY <1>1, SendDataType DEF Typed, HostTypes, Reports
<1>3. \A a \in Addresses : After(v, SendData).mem[a] =
        IF a - (Job.addr + at) \in 0..(DataCells - 1)
        THEN SendData.cells[a - (Job.addr + at) + 1] ELSE v.mem[a]
  BY <1>1, <1>2, AfterReceive
<1>4. ASSUME NEW a \in Addresses, a - (Job.addr + at) \in 0..(DataCells - 1)
      PROVE  SendData.cells[a - (Job.addr + at) + 1] = Content(a - Job.addr)
  <2>1. a \in Int
    BY SizesAssumption
  <2>2. PICK i \in 1..DataCells : i = a - (Job.addr + at) + 1 /\ at + i - 1 = a - Job.addr
    <3>1. DataCells \in Nat
      BY <1>2
    <3>2. /\ a - (Job.addr + at) + 1 \in 1..DataCells
          /\ at + (a - (Job.addr + at) + 1) - 1 = a - Job.addr
      <4>1. \A x, b, t, n \in Int : x - (b + t) \in 0..(n - 1) =>
              x - (b + t) + 1 \in 1..n /\ t + (x - (b + t) + 1) - 1 = x - b
        OBVIOUS
      <4>2. Job.addr \in Int /\ at \in Int /\ DataCells \in Int
        BY <1>2, <3>1
      <4>3. QED
        BY <1>4, <2>1, <4>1, <4>2
    <3>3. QED
      BY <3>2
  <2>3. SendData.cells[i] = Content(at + i - 1)
    BY <1>2
  <2>4. QED
    BY <2>2, <2>3
<1>5. QED
  BY <1>2, <1>3, <1>4

\* What the ROM answers to the report it is given is what the host waits for.
LEMMA OwnAccept ==
  ASSUME Typed, Calls, Lone, Running, Transport, H!DeviceAccepts, NEW v \in Views,
         v.mode = "listening", HasData => Sync(v), v.can = rom.canSkip,
         NEW w \in Views, w = After(v, said[writeBuf]),
         stage = "start" => w.mode = "plugin", stage \in {"jump", "jumpHdr"} => w.mode = "image"
  PROVE  New(v, said[writeBuf]) = Own(w)' /\ Own(v) = <<>>
<1>1. /\ phase \in {"cmd", "data"} /\ Started' /\ ~Sent
      /\ said[writeBuf] = IF phase = "cmd" THEN Job ELSE SendData
      /\ Got = IF phase = "cmd" THEN 0 ELSE at
      /\ Got' = IF phase = "cmd" THEN 0 ELSE at + DataCells
      /\ UNCHANGED <<img, stage, rom, Job, HasData, RequiredCmdAck>>
  BY OrderAccept
<1>2. /\ Job \in Reports /\ (HasData => Job.count > 0) /\ at \in Nat /\ Job.count \in Nat
      /\ phase = "data" => HasData /\ at < Job.count
  BY JobType DEF Typed, Where, HostTypes, Reports
<1>3. Own(v) = <<>>
  BY <1>1, <1>2 DEF Own, Owes, Started
<1>4. UNCHANGED <<Rom!HAB, Rom!Nothing>> /\ OkAck' = OkAck
  BY DEF Rom!HAB, Rom!Cell, Rom!Nothing, Rom!Command, OkAck
<1>5. Own(w)' = IF HasData => Got' = Job.count THEN Cat(One(Rom!HAB), Rest(w)') ELSE <<>>
  BY <1>1, <1>4 DEF Own, Owes
<1>6. CASE HasData /\ phase = "cmd"
  <2>1. New(v, said[writeBuf]) = <<>>
    BY <1>1, <1>6, Jobs DEF New, Typed
  <2>2. QED
    BY <1>1, <1>2, <1>3, <1>5, <1>6, <2>1
<1>7. CASE phase = "data"
  <2>1. /\ DataCells \in 1..(Job.count - at) /\ SendData \in Reports
        /\ SendData.cmd = "DATA" /\ SendData.count = DataCells
    BY <1>2, <1>7, SendDataType DEF Typed
  <2>2. said[writeBuf] = SendData /\ v.cur = Job /\ v.got = at /\ v.cur # Rom!Nothing
    BY <1>1, <1>2, <1>7, SyncStep
  <2>3. DataAck(v, SendData) = RequiredCmdAck
    <3>1. CASE stage = "dcd"
      <4>1. Good(v, SendData)
        BY <1>7, <3>1, DcdContent DEF Good
      <4>2. QED
        BY <1>2, <1>7, <2>2, <3>1, <4>1, Jobs DEF DataAck, Typed
    <3>2. CASE stage # "dcd"
      <4>1. Job.cmd = "WR_FILE" /\ RequiredCmdAck = Rom!Cell("ROM_STATUS_ACK")
        BY <1>2, <1>7, <3>2, Jobs DEF Typed
      <4>2. QED
        BY <2>2, <4>1 DEF DataAck, Good
    <3>3. QED
      BY <3>1, <3>2
  <2>4. New(v, SendData) = IF at + DataCells >= Job.count
                           THEN Cat(One(Rom!HAB), One(RequiredCmdAck)) ELSE <<>>
    BY <2>1, <2>2, <2>3 DEF New
  <2>5. Rest(w)' = One(RequiredCmdAck)
    BY <1>1, <1>2, <1>7 DEF Rest
  <2>6. at + DataCells >= Job.count <=> Got' = Job.count
    BY <1>1, <1>2, <1>7, <2>1
  <2>7. QED
    BY <1>2, <1>3, <1>5, <1>7, <2>2, <2>4, <2>5, <2>6
<1>8. CASE ~HasData
  <2>1. /\ phase = "cmd" /\ said[writeBuf] = Job /\ Own(w)' = Cat(One(Rom!HAB), Rest(w)')
        /\ stage \in {"skip", "readHdr", "verifyHdr", "start", "jump", "jumpHdr"}
    BY <1>1, <1>2, <1>5, <1>8, Jobs DEF Typed, Running, HostTypes, Stages
  <2>2. CASE stage = "skip"
    <3>1. New(v, Job) = Cat(One(Rom!HAB), One(SkipAck(rom.canSkip)))
      BY <2>2, Jobs DEF New, Typed
    <3>2. Rest(w)' = One(SkipAck(rom.canSkip))
      BY <1>1, <1>4, <1>8, <2>2 DEF Rest, SkipAck, Rom!ErrorAck, Rom!Cell
    <3>3. QED
      BY <1>3, <2>1, <3>1, <3>2
  <2>3. CASE stage \in {"readHdr", "verifyHdr"}
    <3>1. Job.cmd = "RD_MEM" /\ Job.addr = FlashHdrAddr(img) /\ Job.count = HeaderCells
      BY <2>3, Jobs DEF Typed
    <3>2. New(v, Job) = Cat(One(Rom!HAB), CellsAt(v, Job))
      BY <3>1 DEF New
    <3>3. w.mem = v.mem
      BY <1>2, <2>1, <3>1, AfterCommand
    <3>4. Rest(w)' = MemCells(w)'
      BY <1>1, <1>8, <2>3 DEF Rest
    <3>5. MemCells(w)' = CellsAt(v, Job)
      BY <1>1, <3>1, <3>3 DEF MemCells, CellsAt
    <3>6. QED
      BY <1>3, <2>1, <3>2, <3>4, <3>5
  <2>4. CASE Jumps
    <3>1. Job.cmd = "JUMP" /\ w = After(v, Job) /\ w.mode # "listening"
      BY <2>1, <2>4, Jobs DEF Typed, Jumps
    <3>2. PluginAt(v, Job.addr) \/ ImageAt(v, Job.addr) \/ v.mem[Job.addr].what = "header"
      <4>1. SUFFICES ASSUME ~PluginAt(v, Job.addr), ~ImageAt(v, Job.addr),
                            v.mem[Job.addr].what # "header"
                     PROVE  w.mode = "listening"
        BY <3>1
      <4>2. w = [v EXCEPT !.outs = v.outs + 2]
        BY <3>1, <4>1 DEF After, AfterJump
      <4>3. QED
        BY <4>2 DEF Views
    <3>3. New(v, Job) = One(Rom!HAB)
      BY <3>1, <3>2 DEF New
    <3>4. Rest(w)' = <<>>
      BY <1>1, <1>8, <2>4 DEF Rest, Jumps
    <3>5. Cat(One(Rom!HAB), <<>>) = One(Rom!HAB)
      BY AckTypes, Ones, CatEmpty
    <3>6. QED
      BY <1>3, <2>1, <3>3, <3>4, <3>5
  <2>5. QED
    BY <2>1, <2>2, <2>3, <2>4 DEF Jumps
<1>9. QED
  BY <1>1, <1>6, <1>7, <1>8

LEMMA SameMemory ==
  ASSUME img' = img
  PROVE  /\ \A m : (Whole(m)' <=> Whole(m)) /\ (Plain(m)' <=> Plain(m)) /\ (Ready(m)' <=> Ready(m))
         /\ UNCHANGED <<Header, Wanted, IvtCell>>
BY DEF Whole, Plain, PlainCell, Ready, Wanted, Target, Header, IvtCell, Rom!IvtHeader, Rom!File

\* A batch of the load leaves what earlier segments have brought, and brings the next cells.
LEMMA BroughtAccept ==
  ASSUME Typed, Running, stage = "load", phase = "data", NEW v \in Views, v.mode = "listening",
         v.cur = Job, v.got = at, Got = at, Got' = at + DataCells, UNCHANGED <<img, seg, pos>>,
         Brought(v.mem), NEW m, m = After(v, SendData).mem
  PROVE  Brought(m)'
<1>2. /\ DataCells \in 1..(Job.count - at) /\ Job.count \in Nat /\ at \in Nat
      /\ \A a \in Addresses : m[a] =
           IF a - (Job.addr + at) \in 0..(DataCells - 1) THEN Content(a - Job.addr) ELSE v.mem[a]
  BY Landed
<1>3. /\ Segment \in Segments /\ Segment.addr \in Int /\ Segment.from \in Nat /\ Segment.cells \in Nat
      /\ pos \in Nat /\ seg \in 1..Len(LoadSegments(img)) /\ Len(LoadSegments(img)) \in Nat
      /\ Segment = LoadSegments(img)[seg]
  <2>1. HostTypes /\ img \in Images /\ pos \in Nat /\ seg \in 1..Len(LoadSegments(img))
    BY DEF Typed, HostTypes
  <2>2. Segment \in Segments
    BY <2>1, SegmentType
  <2>3. Segment.addr \in Int /\ Segment.from \in Nat /\ Segment.cells \in Nat
    BY <2>2 DEF Segments
  <2>4. LoadSegments(img) \in Seq(Segments) /\ Len(LoadSegments(img)) \in Nat
    BY <2>1, SegmentsType
  <2>5. QED
    BY <2>1, <2>2, <2>3, <2>4 DEF Segment
<1>4. /\ Job.addr = Segment.addr + pos /\ Job.count = Rounded(Batch)
      /\ Batch \in 1..(Segment.cells - pos)
  BY Jobs, BatchType DEF Typed
<1>5. Job.count <= Segment.cells - pos + OutCells - 1 /\ OutCells \in Nat
  <2>1. Batch \in Nat \ {0} /\ Batch <= Segment.cells - pos
    BY <1>3, <1>4
  <2>2. Job.count <= Batch + OutCells - 1 /\ OutCells \in Nat
    BY <1>4, <2>1, RoundedMost, SizesAssumption
  <2>3. \A j, b, c, p, o \in Int : j <= b + o - 1 /\ b <= c - p => j <= c - p + o - 1
    OBVIOUS
  <2>4. Job.count \in Int /\ Batch \in Int /\ Segment.cells \in Int /\ pos \in Int /\ OutCells \in Int
    BY <1>2, <1>3, <2>1, <2>2
  <2>5. QED
    BY <2>1, <2>2, <2>3, <2>4
<1>6. \A k : Content(k) = Rom!File(Segment.from + pos + k)
  BY DEF Content
<1>11. PICK addr \in Int, from \in Int, cells \in Int, base \in Int, d \in Int, oc \in Nat :
        /\ addr = Segment.addr /\ from = Segment.from /\ cells = Segment.cells /\ d = DataCells
        /\ base = Job.addr + at /\ oc = OutCells
  <2>1. /\ Segment.addr \in Int /\ Segment.from \in Int /\ Segment.cells \in Int
        /\ Job.addr + at \in Int /\ DataCells \in Int /\ OutCells \in Nat
    <3>1. Job.addr \in Int
      BY <1>3, <1>4
    <3>2. Job.addr + at \in Int
      <4>1. at \in Int
        BY <1>2
      <4>2. QED
        BY <3>1, <4>1
    <3>3. DataCells \in Int
      BY <1>2
    <3>4. QED
      BY <1>3, <1>5, <3>2, <3>3
  <2>2. QED
    BY <2>1
<1>12. base = addr + pos + at /\ at + d <= cells - pos + oc - 1 /\ d \in Nat /\ pos \in Nat /\ at \in Nat
  <2>1. at + DataCells <= Job.count /\ DataCells \in Nat /\ Job.count <= cells - pos + oc - 1
    BY <1>2, <1>5, <1>11
  <2>2. base = (addr + pos) + at
    BY <1>4, <1>11
  <2>3. pos \in Nat /\ at \in Nat
    BY <1>2, <1>3
  <2>4. PICK e \in Nat : e = DataCells /\ e = d
    BY <1>11, <2>1
  <2>5. PICK c \in Int : c = Job.count
    BY <1>2
  <2>6. at + e <= c /\ c <= cells - pos + oc - 1
    BY <2>1, <2>4, <2>5
  <2>7. at + d <= cells - pos + oc - 1
    BY <2>3, <2>4, <2>6
  <2>8. QED
    BY <2>2, <2>3, <2>4, <2>7
<1>7. ASSUME NEW p \in Wanted, NEW j \in 1..seg,
             Brings(LoadSegments(img)[j], p, IF j < seg THEN LoadSegments(img)[j].cells
                                             ELSE pos + (at + DataCells)),
             \A k \in (j + 1)..Len(LoadSegments(img)) : Spares(LoadSegments(img)[k], p)
      PROVE  m[p[1]] = Rom!File(p[2])
  <2>1. p[1] \in Addresses /\ p[1] \in Int /\ p[2] \in Int
    BY Wants DEF Typed
  <2>9. PICK a \in Int, c \in Int : a = p[1] /\ c = p[2]
    BY <2>1
  <2>2. CASE a - base \in 0..(d - 1)
    <3>1. m[p[1]] = Rom!File(from + pos + (a - (addr + pos)))
      BY <1>2, <1>4, <1>6, <1>11, <2>1, <2>2, <2>9
    <3>2. c - a = from - addr
      <4>1. CASE j = seg
        BY <1>3, <1>7, <1>11, <2>9, <4>1 DEF Brings
      <4>2. CASE j # seg
        <5>1. seg \in (j + 1)..Len(LoadSegments(img))
          BY <1>3, <4>2
        <5>2. Spares(Segment, p)
          BY <1>3, <1>7, <5>1
        <5>3. a - addr \in 0..(cells + oc - 2)
          BY <1>12, <2>2
        <5>4. QED
          BY <1>11, <2>9, <5>2, <5>3 DEF Spares
      <4>3. QED
        BY <4>1, <4>2
    <3>3. from + pos + (a - (addr + pos)) = c
      BY <1>12, <3>2
    <3>4. QED
      BY <2>9, <3>1, <3>3
  <2>3. CASE ~(a - base \in 0..(d - 1))
    <3>1. m[p[1]] = v.mem[p[1]]
      BY <1>2, <1>11, <2>1, <2>3, <2>9
    <3>2. Brings(LoadSegments(img)[j], p, IF j < seg THEN LoadSegments(img)[j].cells ELSE pos + at)
      <4>1. CASE j < seg
        BY <1>7, <4>1
      <4>2. CASE ~(j < seg)
        <5>1. j = seg
          BY <1>3, <4>2
        <5>2. a - addr \in 0..(pos + (at + d) - 1) /\ c - a = from - addr
          BY <1>3, <1>7, <1>11, <2>9, <5>1 DEF Brings
        <5>3. a - addr \in 0..(pos + at - 1)
          BY <1>12, <2>3, <5>2
        <5>4. Brings(Segment, p, pos + at)
          <6>1. /\ p[1] - Segment.addr = a - addr /\ p[2] - p[1] = c - a
                /\ Segment.from - Segment.addr = from - addr
            BY <1>11, <2>9
          <6>2. p[1] - Segment.addr \in 0..(pos + at - 1)
            BY <5>3, <6>1
          <6>3. p[2] - p[1] = Segment.from - Segment.addr
            BY <5>2, <6>1
          <6>4. QED
            BY <1>2, <1>3, <2>1, <6>2, <6>3 DEF Brings
        <5>5. QED
          BY <1>3, <4>2, <5>1, <5>4
      <4>3. QED
        BY <4>1, <4>2
    <3>3. v.mem[p[1]] = Rom!File(p[2])
      BY <1>7, <3>2 DEF Brought
    <3>4. QED
      BY <3>1, <3>3
  <2>4. QED
    BY <2>2, <2>3
<1>8. Brought(m)'
  <2>1. UNCHANGED <<Wanted, LoadSegments(img)>>
    BY DEF Wanted, Target
  <2>2. ASSUME NEW p \in Wanted', NEW j \in 1..seg',
               Brings(LoadSegments(img)[j], p, IF j < seg THEN LoadSegments(img)[j].cells ELSE pos + Got)',
               (\A k \in (j + 1)..Len(LoadSegments(img)) : Spares(LoadSegments(img)[k], p))'
        PROVE  m[p[1]] = Rom!File(p[2])'
    BY <1>7, <2>1, <2>2 DEF Rom!File
  <2>3. QED
    BY <2>2 DEF Brought
<1>9. QED
  BY <1>8

\* So do the data of the header: its first cell is the IVT header, the others are there.
HeaderThere(m, got) ==
  /\ FlashHdr[1] = Header /\ Whole(m)
  /\ \A k \in 2..HeaderCells : m[FlashHdrAddr(img) + k - 1] = FlashHdr[k]
  /\ got > 0 => m[FlashHdrAddr(img)] = Header

LEMMA HeaderAccept ==
  ASSUME Typed, Running, LoadedInPlace(img), stage = "writeHdr", phase = "data", NEW v \in Views,
         v.mode = "listening", v.cur = Job, v.got = at, HeaderThere(v.mem, at),
         NEW m, m = After(v, SendData).mem
  PROVE  HeaderThere(m, at + DataCells)
<1>1. /\ DataCells \in 1..(Job.count - at) /\ Job.count \in Nat /\ at \in Nat
      /\ \A a \in Addresses : m[a] =
           IF a - (Job.addr + at) \in 0..(DataCells - 1) THEN Content(a - Job.addr) ELSE v.mem[a]
  BY Landed
<1>2. Job.addr = FlashHdrAddr(img) /\ Job.count = HeaderCells /\ img.family # "MX8" /\ HeaderCells \in Nat
  BY Jobs, SizesAssumption DEF Typed, Where, HdrStage
<1>3. PICK f \in Int : f = FlashHdrAddr(img)
  BY ImageType DEF Typed, HostTypes
<1>4. \A k : Content(k) = FlashHdr[k + 1]
  BY DEF Content
<1>5. /\ f \in Addresses
      /\ \A j \in 0..(HeaderCells - 1) : f + j \in Addresses
  BY <1>2, <1>3, HeaderPlace DEF Typed
<1>6. ASSUME NEW k \in 1..HeaderCells, v.mem[f + k - 1] = FlashHdr[k]
      PROVE  m[f + k - 1] = FlashHdr[k]
  <2>1. f + (k - 1) = f + k - 1 /\ k - 1 \in 0..(HeaderCells - 1) /\ (f + k - 1) - f + 1 = k
    BY <1>2
  <2>2. f + k - 1 \in Addresses
    BY <1>5, <2>1
  <2>3. m[f + k - 1] = IF (f + k - 1) - (f + at) \in 0..(DataCells - 1)
                       THEN FlashHdr[(f + k - 1) - f + 1] ELSE v.mem[f + k - 1]
    BY <1>1, <1>2, <1>3, <1>4, <2>2
  <2>4. QED
    BY <1>6, <2>1, <2>3
<1>7. ASSUME NEW p \in Program(img) PROVE m[p[1]] = Rom!File(p[2])
  <2>1. p[1] \in Addresses /\ p[1] \in Int /\ p[1] # f /\ v.mem[p[1]] = Rom!File(p[2])
    BY <1>2, <1>3, Wants DEF Typed, Wanted, LoadedInPlace, HeaderThere, Whole
  <2>2. PICK a \in Int : a = p[1]
    BY <2>1
  <2>3. CASE a - (f + at) \in 0..(DataCells - 1)
    <3>1. a - f + 1 \in 2..HeaderCells /\ f + (a - f + 1) - 1 = a /\ a - f \in Int
      <4>1. a # f /\ DataCells \in Nat /\ at + DataCells <= HeaderCells
        BY <1>1, <1>2, <2>1, <2>2
      <4>2. QED
        BY <1>1, <1>2, <2>3, <4>1
    <3>2. v.mem[a] = FlashHdr[a - f + 1]
      <4>1. PICK k \in 2..HeaderCells : k = a - f + 1 /\ f + k - 1 = a
        BY <3>1
      <4>2. v.mem[f + k - 1] = FlashHdr[k]
        BY <1>3 DEF HeaderThere
      <4>3. QED
        BY <4>1, <4>2
    <3>3. m[a] = FlashHdr[a - f + 1]
      BY <1>1, <1>2, <1>3, <1>4, <2>1, <2>2, <2>3
    <3>4. QED
      BY <2>1, <2>2, <3>2, <3>3
  <2>4. CASE ~(a - (f + at) \in 0..(DataCells - 1))
    BY <1>1, <1>2, <1>3, <2>1, <2>2, <2>4
  <2>5. QED
    BY <2>3, <2>4
<1>8. m[f] = Header
  <2>1. m[f] = IF f - (f + at) \in 0..(DataCells - 1) THEN FlashHdr[f - f + 1] ELSE v.mem[f]
    BY <1>1, <1>2, <1>3, <1>4, <1>5
  <2>2. FlashHdr[1] = Header /\ (at > 0 => v.mem[f] = Header) /\ f - f + 1 = 1
    BY <1>3 DEF HeaderThere
  <2>3. at = 0 => f - (f + at) \in 0..(DataCells - 1)
    BY <1>1
  <2>4. QED
    BY <1>1, <2>1, <2>2, <2>3
<1>9. \A k \in 2..HeaderCells : m[f + k - 1] = FlashHdr[k]
  <2>1. \A k \in 2..HeaderCells : k \in 1..HeaderCells /\ v.mem[f + k - 1] = FlashHdr[k]
    BY <1>2, <1>3 DEF HeaderThere
  <2>2. QED
    BY <1>6, <2>1
<1>10. QED
  BY <1>3, <1>7, <1>8, <1>9 DEF HeaderThere, Whole

\* The ROM is given the report of the call in progress: the memory is as the call says.
LEMMA MemoryAccept ==
  ASSUME Typed, Calls, Lone, Running, LoadedInPlace(img), Transport, H!DeviceAccepts,
         NEW v \in Views, v.mode = "listening", NEW st, Memory(v, st),
         NEW w \in Views, w = After(v, said[writeBuf])
  PROVE  /\ Memory(w, st)'
         /\ IF stage = "start" THEN w.mode = "plugin"
            ELSE IF Jumps THEN w.mode = "image" ELSE w.mode = "listening"
         /\ w.mode = "image" => Whole(w.mem)
<1>1. /\ phase \in {"cmd", "data"} /\ ~Sent
      /\ said[writeBuf] = IF phase = "cmd" THEN Job ELSE SendData
      /\ Got = IF phase = "cmd" THEN 0 ELSE at
      /\ Got' = IF phase = "cmd" THEN 0 ELSE at + DataCells
      /\ UNCHANGED <<img, stage, phase, seg, pos, FlashHdr, Job, HasData>>
  BY OrderAccept
<1>2. /\ Job \in Reports /\ (HasData => Job.count > 0) /\ at \in Nat /\ Job.count \in Nat
      /\ phase = "data" => HasData /\ at < Job.count
      /\ stage \in Stages \ {"done", "failed"}
  BY JobType DEF Typed, Where, HostTypes, Reports, Running
<1>3. HasData => Sync(w)'
  BY SyncStep DEF Memory
<1>4. /\ \A m : (Whole(m)' <=> Whole(m)) /\ (Plain(m)' <=> Plain(m)) /\ (Ready(m)' <=> Ready(m))
      /\ UNCHANGED <<Header, Wanted, IvtCell, FlashHdrAddr(img), LoadSegments(img)>>
  BY <1>1, SameMemory
<1>5. CASE Jumps
  <2>1. phase = "cmd" /\ w = After(v, Job) /\ ~HasData
    BY <1>1, <1>2, <1>5, Jobs DEF Typed
  <2>2. /\ w.mem = v.mem /\ (stage = "start" => w.mode = "plugin")
        /\ stage # "start" => w.mode = "image"
    BY <1>5, <2>1, JumpAccept DEF Memory, Jumps
  <2>3. w.mode = "image" => Whole(w.mem)
    BY <1>5, <2>2 DEF Memory, Jumps, Ready, Wanted, Whole
  <2>4. Memory(w, st)'
    BY <1>1, <1>4, <1>5, <2>1, <2>2 DEF Memory, Jumps
  <2>5. QED
    BY <1>5, <2>2, <2>3, <2>4
<1>6. CASE ~Jumps /\ phase = "cmd"
  <2>1. w.mem = v.mem /\ w.mode = "listening"
    <3>1. Job.cmd \in {"WR_FILE", "DCD_WRITE", "RD_MEM", "SKIP_DCD"}
      BY <1>2, <1>6, Jobs DEF Typed, Jumps, Stages
    <3>2. QED
      BY <1>1, <1>2, <1>6, <3>1, AfterCommand
  <2>2. UNCHANGED Got
    BY <1>1, <1>6
  <2>3. \A m : Brought(m)' <=> Brought(m)
    BY <1>1, <1>4, <2>2 DEF Brought, Rom!File
  <2>4. Memory(w, st)'
    BY <1>1, <1>3, <1>4, <2>1, <2>2, <2>3 DEF Memory
  <2>5. QED
    BY <1>6, <2>1, <2>4 DEF Jumps
<1>7. CASE ~Jumps /\ phase = "data"
  <2>1. /\ HasData /\ said[writeBuf] = SendData /\ v.cur = Job /\ v.got = at /\ v.cur # Rom!Nothing
        /\ stage \in {"ecc", "dcd", "plugin", "load", "writeHdr"} /\ w = After(v, SendData)
    BY <1>1, <1>2, <1>7, SyncStep, Jobs DEF Memory, Typed
  <2>2. SendData \in Reports /\ SendData.cmd = "DATA" /\ Got = at /\ Got' = at + DataCells
        /\ DataCells \in 1..(Job.count - at)
    BY <1>1, <1>7, SendDataType DEF Typed
  <2>3. w.mode = "listening"
    BY <2>1, <2>2, AfterReceive
  <2>4. CASE stage = "dcd"
    <3>1. w.mem = v.mem
      BY <2>1, <2>2, <2>4, AfterReceive, Jobs DEF Typed
    <3>2. QED
      BY <1>1, <1>3, <1>4, <2>3, <2>4, <3>1 DEF Memory, Jumps, CalmStages
  <2>5. CASE stage # "dcd"
    <3>1. /\ \A a \in Addresses : w.mem[a] =
               IF a - (Job.addr + at) \in 0..(DataCells - 1) THEN Content(a - Job.addr) ELSE v.mem[a]
          /\ Job.addr \in Int
      BY <1>7, <2>1, <2>5, Landed
    <3>2. stage # "writeHdr" => Plain(w.mem)
      <4>1. SUFFICES ASSUME stage # "writeHdr", NEW a \in Addresses PROVE PlainCell(w.mem[a])
        BY DEF Plain
      <4>2. stage \in CalmStages
        BY <2>1, <4>1 DEF CalmStages
      <4>3. PlainCell(v.mem[a])
        BY <4>2 DEF Memory, Plain
      <4>4. \A k : PlainCell(Content(k))
        BY <2>1, <4>1 DEF Content, PlainCell, Rom!File, Rom!Cell
      <4>5. QED
        BY <3>1, <4>3, <4>4
    <3>3. CASE stage = "ecc"
      BY <1>1, <1>3, <1>4, <2>3, <3>2, <3>3 DEF Memory, Jumps
    <3>4. CASE stage = "plugin"
      <4>1. Job.addr = img.self /\ img.self \in Addresses /\ img.self \in Int /\ img.ivt \in Nat
        BY <3>4, Jobs, ImageType DEF Typed, HostTypes
      <4>2. CASE at = 0
        <5>1. img.self - (Job.addr + at) \in 0..(DataCells - 1) /\ img.self - Job.addr = 0
          BY <1>2, <2>2, <4>1, <4>2
        <5>2. w.mem[img.self] = Content(0)
          BY <3>1, <4>1, <5>1
        <5>3. Content(0) = IvtCell
          BY <3>4, <4>1 DEF Content, IvtCell
        <5>4. QED
          BY <1>1, <1>3, <1>4, <2>3, <3>2, <3>4, <5>2, <5>3 DEF Memory, Jumps
      <4>3. CASE at # 0
        <5>1. ~(img.self - (Job.addr + at) \in 0..(DataCells - 1)) /\ Got > 0
          BY <1>2, <2>2, <4>1, <4>3
        <5>2. w.mem[img.self] = IvtCell
          BY <3>1, <3>4, <4>1, <5>1 DEF Memory
        <5>3. QED
          BY <1>1, <1>3, <1>4, <2>3, <3>2, <3>4, <5>2 DEF Memory, Jumps
      <4>4. QED
        BY <4>2, <4>3
    <3>5. CASE stage = "load"
      <4>1. Brought(v.mem)
        BY <3>5 DEF Memory
      <4>2. PICK m : m = w.mem
        OBVIOUS
      <4>3. Brought(m)'
        BY <1>1, <1>7, <2>1, <2>2, <3>5, <4>1, <4>2, BroughtAccept
      <4>4. QED
        BY <1>1, <1>3, <1>4, <2>3, <3>2, <3>5, <4>2, <4>3 DEF Memory, Jumps
    <3>6. CASE stage = "writeHdr"
      <4>1. st = <<>> => HeaderThere(v.mem, at)
        BY <2>2, <3>6 DEF Memory, HeaderThere
      <4>2. PICK m : m = w.mem
        OBVIOUS
      <4>3. st = <<>> => HeaderThere(m, at + DataCells)
        BY <1>7, <2>1, <3>6, <4>1, <4>2, HeaderAccept
      <4>4. st = <<>> => HeaderThere(m, Got)'
        BY <1>1, <1>4, <2>2, <4>3 DEF HeaderThere
      <4>5. QED
        BY <1>1, <1>3, <2>3, <3>6, <4>2, <4>4 DEF Memory, HeaderThere, Jumps, CalmStages
    <3>7. QED
      BY <2>1, <2>5, <3>3, <3>4, <3>5, <3>6
  <2>6. QED
    BY <2>4, <2>5
<1>8. QED
  BY <1>1, <1>5, <1>6, <1>7


-----------------------------------------------------------------------------
(* The ROM is given a report.                                              *)

\* The device accepts reports only when the ROM listens.
LEMMA AcceptListens ==
  ASSUME Typed, Transport, H!DeviceAccepts
  PROVE  rom.mode = "listening"
<1>1. delivered' = Append(delivered, writeBuf) /\ delivered \in Seq(Nat) /\ writeBuf \in Nat
  BY DEF H!DeviceAccepts, Typed, Carried, H!TypeOK
<1>2. Len(delivered') = Len(delivered) + 1 /\ Len(delivered) \in Nat
  BY <1>1
<1>3. delivered' # delivered
  BY <1>2
<1>4. Hid!HostStep \/ Hid!ReportArrives \/ Hid!RequestFails => delivered' = delivered
  BY HostIsHost, DriverIsDriver DEF H!HostStep, H!WriteReturns, H!ReadReturns, H!ReadTimesOut,
     H!CancelRead, H!ReportArrives, H!RequestFails, H!device
<1>5. QED
  BY <1>3, <1>4 DEF Transport

LEMMA LastListens ==
  ASSUME Typed, Calls, Lone, Running, Transport, H!DeviceAccepts, NEW R, NEW Q, NEW d, Chain(R),
         Mode(R, Q, d)
  PROVE  Last(R).mode = "listening"
<1>1. phase \in {"cmd", "data"} /\ ~Sent /\ (phase = "data" => HasData)
  BY OrderAccept DEF Typed, Where
<1>2. Jumps => ~Started
  BY <1>1, Jobs DEF Typed, Started
<1>3. rom.mode = "listening"
  BY AcceptListens
<1>4. handled = Len(delivered) => Last(R).mode = "listening"
  BY <1>3, LastType DEF Last, View
<1>5. CASE Jumps
  BY <1>2, <1>5 DEF Mode, Jumps
<1>6. CASE stage = "load"
  BY <1>4, <1>6 DEF Mode, Jumps
<1>7. CASE ~Jumps /\ stage # "load"
  BY <1>7 DEF Mode, Jumps
<1>8. QED
  BY <1>5, <1>6, <1>7

\* A report that is accepted does no harm.
LEMMA SafeAccept ==
  ASSUME Typed, NEW R, NEW S, Safe(R), Len(delivered') = Len(delivered) + 1,
         \A k \in handled..Len(delivered) : S[k] = R[k], Len(delivered) \in Nat, handled \in Nat,
         R[Len(delivered)].mode = "listening",
         UNCHANGED <<stage, img, rom, handled, said, writeBuf>>,
         S[Len(delivered) + 1].mode = "image" => Whole(S[Len(delivered) + 1].mem),
         S[Len(delivered) + 1].can = rom.canSkip,
         Running \/ S[Len(delivered) + 1].mode = "listening", Pending
  PROVE  Safe(S)'
<1> DEFINE n == Len(delivered)
<1>1. /\ \A m : Whole(m)' <=> Whole(m)
      /\ Running' = Running
  BY SameMemory DEF Running
<1>2. ASSUME NEW k \in handled..(n + 1)
      PROVE  (S[k].mode = "image" => Whole(S[k].mem)) /\ S[k].can = rom.canSkip
  <2>1. CASE k = n + 1
    BY <2>1
  <2>2. CASE k # n + 1
    <3>1. k \in handled..n
      BY <2>2
    <3>2. QED
      BY <3>1 DEF Safe
  <2>3. QED
    BY <2>1, <2>2
<1>3. ASSUME NEW k \in handled..n PROVE S[k].mode = "listening"
  <2>1. CASE k = n
    BY <2>1
  <2>2. CASE k # n
    <3>1. k \in handled..(n - 1) /\ k \in handled..n
      BY <2>2
    <3>2. QED
      BY <3>1 DEF Safe
  <2>3. QED
    BY <2>1, <2>2
<1>4. ~Running /\ Pending => said[writeBuf].cmd \in {"WR_FILE", "DCD_WRITE", "RD_MEM"}
  BY DEF Safe
<1>5. stage = "done" /\ img.task = "RUN" => rom.mode = "image"
  BY DEF Safe
<1>6. (n + 1) - 1 = n /\ Len(delivered') = n + 1
  OBVIOUS
<1>7. /\ \A k \in handled'..Len(delivered') : (S[k].mode = "image" => Whole(S[k].mem)') /\ S[k].can = rom'.canSkip
      /\ \A k \in handled'..(Len(delivered') - 1) : S[k].mode = "listening"
  BY <1>1, <1>2, <1>3, <1>6
<1>8. ~Running' => /\ said'[writeBuf'].cmd \in {"WR_FILE", "DCD_WRITE", "RD_MEM"}
                   /\ S[Len(delivered')].mode = "listening"
  BY <1>1, <1>4, <1>6
<1>9. stage' = "done" /\ img'.task = "RUN" => rom'.mode = "image"
  BY <1>5
<1> HIDE DEF n
<1>10. QED
  BY <1>7, <1>8, <1>9 DEF Safe

\* The device accepts the report of a call: the views and what is due follow.
LEMMA CourseAccept ==
  ASSUME Typed, Calls, Lone, Running, LoadedInPlace(img), Transport, H!DeviceAccepts, NEW R, NEW Q,
         Chain(R), Track(R, Q), Safe(R), NEW d, NEW st, Course(R, Q, d, st)
  PROVE  \E S, P : /\ Chain(S)' /\ Track(S, P)' /\ Safe(S)'
                   /\ \E e : Course(S, P, e, st)'
<1> DEFINE n == Len(delivered)
<1>1. /\ phase \in {"cmd", "data"} /\ Started' /\ Sent' /\ ~Sent
      /\ UNCHANGED <<img, stage, phase, asked, said, writeBuf, rom, handled>>
      /\ UNCHANGED <<Job, Running, HasData, RequiredCmdAck>>
      /\ Seen' = Seen /\ Seen \in Nat
  BY OrderAccept
<1>2. PICK S, P :
        /\ Chain(S)' /\ Track(S, P)' /\ Len(delivered') = n + 1
        /\ \A k \in handled..n : S[k] = R[k] /\ P[k] = Q[k]
        /\ Last(S)' = After(Last(R), said[writeBuf]) /\ Last(S)' = S[n + 1]
        /\ P[Len(delivered')] = Cat(Q[n], New(Last(R), said[writeBuf]))
        /\ writeBuf \in 1..ops /\ said[writeBuf] \in Reports /\ Pending
  BY TrackAccept
<1>3. PICK v : v = Last(R)
  OBVIOUS
<1>4. PICK w : w = S[n + 1]
  OBVIOUS
<1>5. PICK r : r = said[writeBuf]
  OBVIOUS
<1>6. /\ v \in Views /\ n \in Nat /\ handled \in Nat /\ handled <= n /\ v = R[n] /\ n \in handled..n
      /\ v.can = rom.canSkip /\ v.mode = "listening"
  BY <1>3, LastType, LastListens DEF Safe, Last, Course
<1>7. w = After(v, r) /\ w \in Views /\ w.can = rom.canSkip
  <2>1. w = After(v, r) /\ r \in Reports /\ HostTypes
    BY <1>2, <1>3, <1>4, <1>5 DEF Typed
  <2>2. After(v, r) \in Views /\ After(v, r).can = v.can
    BY <1>6, <2>1, AfterType
  <2>3. QED
    BY <1>6, <2>1, <2>2
<1>8. /\ Memory(w, st)'
      /\ IF stage = "start" THEN w.mode = "plugin"
         ELSE IF Jumps THEN w.mode = "image" ELSE w.mode = "listening"
      /\ w.mode = "image" => Whole(w.mem)
  BY <1>3, <1>5, <1>6, <1>7, MemoryAccept DEF Course
<1>9. New(v, r) = Own(w)' /\ Own(v) = <<>>
  BY <1>3, <1>5, <1>6, <1>7, <1>8, OwnAccept DEF Course, Memory, Jumps
<1>10. Stale(st) /\ d = st /\ st \in Seq(Cells)
  <2>1. Stale(st) /\ d = Cat(st, <<>>)
    BY <1>1, <1>3, <1>9 DEF Course, Answers
  <2>2. QED
    BY <2>1, CatEmpty DEF Stale
<1>11. PICK u : u = New(v, r) /\ u \in Seq(Cells)
  BY <1>2, <1>5, <1>6, NewType
<1>12. PICK e : e = Cat(d, u)
  OBVIOUS
<1>13. Due(P[Len(delivered')], Seen', e)
  <2>1. Q[n] \in Seq(Cells)
    BY <1>6 DEF Track
  <2>2. Due(Q[n], Seen, d)
    BY DEF Course
  <2>3. QED
    BY <1>1, <1>2, <1>3, <1>5, <1>11, <1>12, <2>1, <2>2, DueMore
<1>14. Answers(w, e, st)'
  <2>1. e = Cat(st, Own(w)')
    BY <1>9, <1>10, <1>11, <1>12
  <2>2. Stale(st)'
    BY <1>1, <1>10 DEF Stale, CanBeStale, Rom!HAB, Rom!Cell
  <2>3. QED
    BY <1>1, <2>1, <2>2 DEF Answers
<1>15. Mode(S, P, e)'
  <2>1. Last(S)' = w /\ (Len(delivered) - 1)' = n
    BY <1>2, <1>4, <1>6
  <2>2. UNCHANGED Jumps /\ Started'
    BY <1>1 DEF Jumps
  <2>3. ASSUME Jumps, NEW k \in handled..n PROVE Len(P[k]) <= Seen
    <3>1. st = <<>>
      BY <1>10, <2>3 DEF Stale, CanBeStale, Jumps
    <3>2. Len(Q[n]) = Seen
      BY <1>1, <1>10, <3>1 DEF Course, Due
    <3>3. Len(Q[k]) <= Len(Q[n]) /\ P[k] = Q[k]
      BY <1>2 DEF Track, Starts
    <3>4. QED
      BY <3>2, <3>3
  <2>4. CASE Jumps
    BY <1>1, <1>8, <2>1, <2>2, <2>3, <2>4 DEF Mode, Jumps
  <2>5. CASE ~Jumps
    BY <1>1, <1>8, <2>1, <2>2, <2>5 DEF Mode, Jumps
  <2>6. QED
    BY <2>4, <2>5
<1>16. Course(S, P, e, st)'
  <2>1. Last(S)' = w
    BY <1>2, <1>4
  <2>2. QED
    BY <1>8, <1>13, <1>14, <1>15, <2>1 DEF Course
<1>17. Safe(S)'
  BY <1>1, <1>2, <1>4, <1>6, <1>7, <1>8, SafeAccept
<1>18. QED
  BY <1>2, <1>16, <1>17

\* A run that has ended may still have its last report accepted.
LEMMA EndAccept ==
  ASSUME Typed, ~Running, Transport, H!DeviceAccepts, NEW R, NEW Q, Chain(R), Track(R, Q), Safe(R)
  PROVE  \E S, P : Chain(S)' /\ Track(S, P)' /\ Safe(S)'
<1> DEFINE n == Len(delivered)
<1>1. Pending /\ UNCHANGED <<img, rom, stage, said, writeBuf, handled>>
  BY EndPending
<1>2. PICK S, P :
        /\ Chain(S)' /\ Track(S, P)' /\ Len(delivered') = n + 1
        /\ \A k \in handled..n : S[k] = R[k] /\ P[k] = Q[k]
        /\ Last(S)' = After(Last(R), said[writeBuf]) /\ Last(S)' = S[n + 1]
        /\ said[writeBuf] \in Reports
  BY TrackAccept
<1>3. PICK r : r = said[writeBuf]
  OBVIOUS
<1>4. r \in Reports /\ r.cmd \in {"WR_FILE", "DCD_WRITE", "RD_MEM"}
  BY <1>1, <1>2, <1>3 DEF Safe
<1>5. PICK v : v = R[n]
  OBVIOUS
<1>6. /\ v \in Views /\ n \in Nat /\ handled \in Nat /\ handled <= n /\ n \in handled..n
      /\ v = Last(R) /\ v.can = rom.canSkip
  BY <1>5, LastType DEF Safe, Last
<1>7. v.mode = "listening"
  <2>1. handled = n => v.mode = rom.mode
    BY <1>5, LastType DEF View
  <2>2. QED
    BY <1>1, <1>5, <2>1, AcceptListens DEF Safe
<1>8. /\ S[n + 1].mode = "listening" /\ S[n + 1].can = rom.canSkip
  <2>1. S[n + 1] = After(v, r)
    BY <1>2, <1>3, <1>6
  <2>2. QED
    BY <1>4, <1>6, <1>7, <2>1, AfterCommand, AfterType DEF Typed
<1>9. Safe(S)'
  BY <1>1, <1>2, <1>5, <1>6, <1>7, <1>8, SafeAccept
<1>10. QED
  BY <1>2, <1>9


-----------------------------------------------------------------------------
(* The host looks at the outcome of a report.                              *)

\* What it has read, it has read in order.
LEMMA JudgeDue ==
  ASSUME Typed, Calls, Lone, JudgeStep, NEW R, NEW Q, Chain(R), Track(R, Q),
         NEW d, Due(Q[Len(delivered)], Seen, d)
  PROVE  \E e : /\ e \in Seq(Cells) /\ Due(Q[Len(delivered)], taken, e) /\ Seen' = taken
                /\ phase \in {"cmd", "data"} => e = d
                /\ e = d \/ (d # <<>> /\ e = Tail(d))
                /\ Ok /\ Reading => /\ d # <<>> /\ e = Tail(d) /\ Report = d[1] /\ d[1] \in Cells
                                    /\ Seen = taken - 1 /\ taken \in Nat /\ taken <= Len(heard)
<1> DEFINE q == Q[Len(delivered)]
<1>1. /\ pc = "idle" /\ asked /\ asked' = FALSE /\ taken' = taken /\ taken \in Nat
      /\ q \in Seq(Cells) /\ d \in Seq(Cells) /\ taken <= Len(heard) /\ Len(heard) \in Nat
      /\ handled \in Nat /\ Len(delivered) \in Nat /\ handled <= Len(delivered)
  <2>1. pc = "idle" /\ asked /\ taken' = taken
    BY JudgeSteps DEF JudgeStep, Answered, transport
  <2>2. asked' = FALSE
    BY DEF JudgeStep, CmdSent, DataSent, GetHABType, GetDevAck, ReadData, ReportFails,
           HABUnknown, AckRefused, Failed, GoOn, CallSucceeds, CallFails, BeginStage
  <2>3. taken \in Nat /\ taken <= Len(heard) /\ Len(heard) \in Nat
    BY DEF Typed, Carried, WireTypes, H!Ids, H!TypeOK
  <2>4. handled \in Nat /\ Len(delivered) \in Nat /\ handled <= Len(delivered)
    BY LastType
  <2>5. q \in Seq(Cells) /\ d \in Seq(Cells)
    BY <2>4 DEF Track, Due
  <2>6. QED
    BY <2>1, <2>2, <2>3, <2>4, <2>5
<1>2. Seen' = taken
  BY <1>1 DEF Seen
<1>3. CASE ~Reading \/ readBuf = 0
  <2>1. Seen = taken
    BY <1>3 DEF Seen
  <2>2. Ok => ~Reading
    <3>1. ASSUME Ok, Reading PROVE FALSE
      BY <1>1, <1>3, <3>1 DEF Reading, Calls, Lone, Fetched
    <3>2. QED
      BY <3>1
  <2>3. QED
    BY <1>1, <1>2, <2>1, <2>2
<1>4. CASE Reading /\ readBuf # 0
  <2>1. Fetched /\ Seen = taken - 1 /\ phase \notin {"cmd", "data"} /\ ret.op = "read"
    BY <1>1, <1>4 DEF Reading, Calls, Lone, Fetched, FailedRead, Seen
  <2>2. /\ taken > 0 /\ Seen \in Nat /\ Seen + 1 = taken /\ readBuf = taken
    BY <1>1, <2>1 DEF Fetched
  <2>3. Len(heard) <= Len(q) /\ \A j \in 1..Len(heard) : q[j] = heard[j]
    <3>1. rom.answers \in Seq(Cells) /\ heard \in Seq(Cells)
      BY DEF Typed, WireTypes, RomTypes
    <3>2. Q[handled] = Cat(heard, rom.answers) /\ Starts(Q[handled], q)
      BY <1>1 DEF Track
    <3>3. /\ Len(Cat(heard, rom.answers)) = Len(heard) + Len(rom.answers)
          /\ Len(heard) \in Nat /\ Len(rom.answers) \in Nat
          /\ \A j \in 1..Len(heard) : Cat(heard, rom.answers)[j] = heard[j]
      BY <3>1, CatType, CatAt
    <3>4. Len(q) \in Nat
      BY <1>1, LenProperties
    <3> HIDE DEF q
    <3>5. QED
      BY <3>2, <3>3, <3>4 DEF Starts
  <2>4. d # <<>>
    <3>1. Len(q) = Seen + Len(d)
      BY DEF Due
    <3>2. Len(q) \in Nat /\ Len(d) \in Nat
      BY <1>1, LenProperties
    <3> HIDE DEF q
    <3>3. Len(d) > 0
      BY <1>1, <2>2, <2>3, <3>1, <3>2
    <3>4. QED
      BY <3>3
  <2>5. /\ Due(q, Seen + 1, Tail(d)) /\ q[Seen + 1] = d[1] /\ d[1] \in Cells /\ Tail(d) \in Seq(Cells)
    BY <1>1, <2>2, <2>4, DueNext
  <2>6. Report = d[1]
    BY <1>1, <2>2, <2>3, <2>5 DEF Report
  <2>7. QED
    BY <1>1, <1>2, <2>1, <2>2, <2>4, <2>5, <2>6
<1>5. QED
  BY <1>3, <1>4

\* The host goes on with the call, begins the next one, or has failed.
LEMMA OrderJudge ==
  ASSUME Typed, Calls, Lone, JudgeStep
  PROVE  /\ Running /\ asked /\ pc = "idle" /\ ~Sent' /\ asked' = FALSE
         /\ UNCHANGED <<img, rom, mem, said, heard, handled, delivered, pending, writeBuf, sent, ops,
                        pc, ret, taken>>
         /\ Ok /\ phase \in {"cmd", "data"} => Sent
         /\ CmdSent \/ DataSent \/ GetHABType \/ (ReadData /\ Len(buf') < Job.count) =>
              /\ Ok /\ UNCHANGED <<stage, seg, pos, FlashHdr, Job, HasData, RequiredCmdAck, Running>>
              /\ phase' # "cmd" /\ Started /\ Started' /\ (HasData => Got' = Got)
         /\ GetDevAck \/ (ReadData /\ ~(Len(buf') < Job.count)) =>
              CallSucceeds /\ Started /\ (HasData => Got = Job.count) /\ phase \in {"ack", "read"}
         /\ GetDevAck \/ (ReadData /\ ~(Len(buf') < Job.count)) \/ Failed =>
              phase' = "cmd" /\ ~Started' /\ Got' = 0
         /\ \/ CmdSent \/ DataSent \/ GetHABType \/ (ReadData /\ Len(buf') < Job.count)
            \/ GetDevAck \/ (ReadData /\ ~(Len(buf') < Job.count)) \/ Failed
<1>0. /\ Running /\ asked /\ pc = "idle"
      /\ UNCHANGED <<img, rom, mem, said, heard, handled, delivered, pending, writeBuf, sent, ops,
                     pc, ret, taken>>
  BY JudgeSteps DEF JudgeStep, Answered, transport
<1>1. asked' = FALSE
  BY DEF JudgeStep, CmdSent, DataSent, GetHABType, GetDevAck, ReadData, ReportFails,
         HABUnknown, AckRefused, Failed, GoOn, CallSucceeds, CallFails, BeginStage
<1>2. ~Sent'
  BY <1>1 DEF Sent
<1>3. Ok /\ phase \in {"cmd", "data"} => Sent
  BY <1>0 DEF Calls, Lone, Sent
<1>4. HostTypes /\ Where /\ at \in Nat /\ Job \in Reports /\ Job.count \in Nat
  BY <1>0, JobType DEF Typed, HostTypes, Reports
<1>5. ASSUME CmdSent
      PROVE  /\ Ok /\ UNCHANGED <<stage, seg, pos, FlashHdr, Job, HasData, RequiredCmdAck, Running>>
             /\ phase' # "cmd" /\ Started /\ Started' /\ (HasData => Got' = Got)
  <2>1. UNCHANGED <<stage, seg, pos, FlashHdr>> /\ phase = "cmd" /\ Ok /\ at' = 0
        /\ phase' = IF HasData THEN "data" ELSE "hab"
    BY <1>5 DEF CmdSent, GoOn
  <2>2. UNCHANGED <<Job, HasData, RequiredCmdAck, Running>>
    BY <1>0, <2>1, JobSame
  <2>3. Got = 0 /\ Started /\ Started'
    BY <1>3, <2>1 DEF Got, Started
  <2>4. HasData => Got' = 0
    BY <1>2, <1>4, <2>1, <2>2 DEF Got
  <2>5. QED
    BY <2>1, <2>2, <2>3, <2>4
<1>6. ASSUME DataSent
      PROVE  /\ Ok /\ UNCHANGED <<stage, seg, pos, FlashHdr, Job, HasData, RequiredCmdAck, Running>>
             /\ phase' # "cmd" /\ Started /\ Started' /\ (HasData => Got' = Got)
  <2>1. UNCHANGED <<stage, seg, pos, FlashHdr>> /\ phase = "data" /\ Ok /\ at' = at + DataCells
        /\ phase' = IF at' < Job.count THEN "data" ELSE "hab"
    BY <1>6 DEF DataSent, GoOn
  <2>2. UNCHANGED <<Job, HasData, RequiredCmdAck, Running>>
    BY <1>0, <2>1, JobSame
  <2>3. DataCells \in 1..(Job.count - at)
    BY <1>0, <1>4, <2>1, SendDataType
  <2>4. Got = at + DataCells /\ Started /\ Started'
    BY <1>3, <2>1 DEF Got, Started
  <2>5. Got' = at + DataCells
    <3>1. CASE at' < Job.count
      BY <1>2, <1>4, <2>1, <2>3, <3>1 DEF Got
    <3>2. CASE ~(at' < Job.count)
      BY <1>4, <2>1, <2>2, <2>3, <3>2 DEF Got
    <3>3. QED
      BY <3>1, <3>2
  <2>6. QED
    BY <2>1, <2>2, <2>4, <2>5
<1>7. ASSUME GetHABType \/ (ReadData /\ Len(buf') < Job.count)
      PROVE  /\ Ok /\ UNCHANGED <<stage, seg, pos, FlashHdr, Job, HasData, RequiredCmdAck, Running>>
             /\ phase' # "cmd" /\ Started /\ Started' /\ (HasData => Got' = Got)
  <2>1. UNCHANGED <<stage, seg, pos, FlashHdr>> /\ phase \in {"hab", "read"} /\ Ok
        /\ phase' \in {"ack", "read"}
    BY <1>7 DEF GetHABType, ReadData, GoOn
  <2>2. UNCHANGED <<Job, HasData, RequiredCmdAck, Running>>
    BY <1>0, <2>1, JobSame
  <2>3. QED
    BY <2>1, <2>2 DEF Started, Got
<1>8. ASSUME GetDevAck \/ (ReadData /\ ~(Len(buf') < Job.count)) \/ Failed
      PROVE  phase' = "cmd" /\ ~Started' /\ Got' = 0
  <2>1. phase' = "cmd"
    BY <1>8 DEF GetDevAck, ReadData, CallSucceeds, Failed, CallFails, BeginStage
  <2>2. QED
    BY <1>2, <2>1 DEF Started, Got
<1>9. ASSUME GetDevAck \/ (ReadData /\ ~(Len(buf') < Job.count))
      PROVE  CallSucceeds /\ Started /\ (HasData => Got = Job.count) /\ phase \in {"ack", "read"}
  <2>1. CallSucceeds /\ phase \in {"ack", "read"}
    BY <1>9 DEF GetDevAck, ReadData
  <2>2. QED
    BY <2>1 DEF Started, Got
<1>10. \/ CmdSent \/ DataSent \/ GetHABType \/ (ReadData /\ Len(buf') < Job.count)
       \/ GetDevAck \/ (ReadData /\ ~(Len(buf') < Job.count)) \/ Failed
  BY DEF JudgeStep, ReportFails, HABUnknown, AckRefused
<1>11. QED
  BY <1>0, <1>1, <1>2, <1>3, <1>5, <1>6, <1>7, <1>8, <1>9, <1>10

\* First and last elements of sequences that are joined.
LEMMA TailCat ==
  ASSUME NEW c \in Cells, NEW t \in Seq(Cells), NEW s, s = Cat(One(c), t)
  PROVE  /\ s \in Seq(Cells) /\ s # <<>> /\ s[1] = c /\ Tail(s) = t /\ Len(s) = 1 + Len(t)
         /\ Len(t) \in Nat /\ (t # <<>> => s[Len(s)] = t[Len(t)])
<1>1. /\ One(c) \in Seq(Cells) /\ Len(One(c)) = 1 /\ One(c)[1] = c
  BY Ones
<1>2. s \in Seq(Cells) /\ Len(s) = 1 + Len(t) /\ Len(t) \in Nat
  BY <1>1, CatType
<1>3. (\A j \in 1..1 : s[j] = One(c)[j]) /\ \A j \in 1..Len(t) : s[1 + j] = t[j]
  <2>1. PICK o \in Seq(Cells) : o = One(c) /\ Len(o) = 1
    BY <1>1
  <2>2. s = Cat(o, t)
    BY <2>1
  <2>3. (\A j \in 1..Len(o) : s[j] = o[j]) /\ \A j \in 1..Len(t) : s[Len(o) + j] = t[j]
    BY <2>2, CatAt
  <2>4. QED
    BY <2>1, <2>3
<1>4. s # <<>> /\ s[1] = c
  <2>1. 1 \in 1..1
    OBVIOUS
  <2>2. QED
    BY <1>1, <1>2, <1>3, <2>1
<1>5. PICK u : u = Tail(s)
  OBVIOUS
<1>6. u \in Seq(Cells) /\ Len(u) = Len(s) - 1 /\ \A j \in 1..Len(u) : u[j] = s[j + 1]
  BY <1>2, <1>4, <1>5, HeadTailProperties
<1>7. Len(u) = Len(t) /\ \A j \in 1..Len(u) : u[j] = t[j]
  <2>1. Len(u) = Len(t)
    BY <1>2, <1>6
  <2>2. ASSUME NEW j \in 1..Len(u) PROVE u[j] = t[j]
    <3>1. j \in 1..Len(t) /\ 1 + j = j + 1
      BY <2>1
    <3>2. QED
      BY <1>3, <1>6, <3>1
  <2>3. QED
    BY <2>1, <2>2
<1>8. u = t
  BY <1>6, <1>7, SeqEqual
<1>9. t # <<>> => s[Len(s)] = t[Len(t)]
  <2>1. ASSUME t # <<>> PROVE s[Len(s)] = t[Len(t)]
    <3>1. Len(t) \in 1..Len(t)
      BY <1>2, <2>1
    <3>2. QED
      BY <1>2, <1>3, <3>1
  <2>2. QED
    BY <2>1
<1>10. QED
  BY <1>2, <1>4, <1>5, <1>8, <1>9

LEMMA LastCat ==
  ASSUME NEW s \in Seq(Cells), NEW t \in Seq(Cells), t # <<>>
  PROVE  Cat(s, t)[Len(Cat(s, t))] = t[Len(t)] /\ Cat(s, t) # <<>> /\ Len(t) > 0 /\ Len(t) \in Nat
<1>1. PICK z : z = Cat(s, t)
  OBVIOUS
<1>2. /\ z \in Seq(Cells) /\ Len(s) \in Nat /\ Len(t) \in Nat /\ Len(z) = Len(s) + Len(t)
      /\ \A j \in 1..Len(t) : z[Len(s) + j] = t[j]
  BY <1>1, CatType, CatAt
<1>3. Len(t) \in 1..Len(t) /\ Len(t) > 0
  BY <1>2
<1>4. z[Len(z)] = t[Len(t)]
  BY <1>2, <1>3
<1>5. z # <<>>
  BY <1>2, <1>3
<1>6. QED
  BY <1>1, <1>2, <1>3, <1>4, <1>5

LEMMA TailJoined ==
  ASSUME NEW s \in Seq(Cells), NEW t \in Seq(Cells), s # <<>>
  PROVE  /\ Cat(s, t)[1] = s[1] /\ Tail(Cat(s, t)) = Cat(Tail(s), t)
         /\ Tail(s) \in Seq(Cells) /\ Len(Tail(s)) = Len(s) - 1 /\ Len(s) \in Nat /\ Len(s) > 0
         /\ Tail(s) # <<>> => Tail(s)[1] = s[2]
<1>1. PICK c, u : c = Head(s) /\ u = Tail(s)
  OBVIOUS
<1>2. c \in Cells /\ u \in Seq(Cells) /\ s = Cat(One(c), u)
  BY <1>1, Tails
<1>3. Cat(s, t) = Cat(One(c), Cat(u, t)) /\ Cat(u, t) \in Seq(Cells)
  <2>1. One(c) \in Seq(Cells)
    BY <1>2, Ones
  <2>2. QED
    BY <1>2, <2>1, Assoc, CatType
<1>4. Cat(s, t)[1] = c /\ Tail(Cat(s, t)) = Cat(u, t)
  <2>1. PICK z : z = Cat(s, t)
    OBVIOUS
  <2>2. z = Cat(One(c), Cat(u, t))
    BY <1>3, <2>1
  <2>3. z[1] = c /\ Tail(z) = Cat(u, t)
    BY <1>2, <1>3, <2>2, TailCat
  <2>4. QED
    BY <2>1, <2>3
<1>5. s[1] = c /\ Len(s) = 1 + Len(u) /\ Len(u) \in Nat
  BY <1>2, TailCat
<1>6. u # <<>> => u[1] = s[2]
  <2>1. ASSUME u # <<>> PROVE u[1] = s[2]
    <3>1. 1 \in 1..Len(u) /\ \A j \in 1..Len(u) : u[j] = s[j + 1]
      BY <1>1, <1>2, <1>5, <2>1, HeadTailProperties
    <3>2. QED
      BY <3>1
  <2>2. QED
    BY <2>1
<1>7. QED
  BY <1>1, <1>2, <1>4, <1>5, <1>6

\* The answer to a call, and what it depends on.
LEMMA RestType ==
  ASSUME Typed, Running, NEW v \in Views
  PROVE  /\ Rest(v) \in Seq(Cells)
         /\ stage \in {"readHdr", "verifyHdr"} =>
              Rest(v) = MemCells(v) /\ MemCells(v) \in Seq(Cells) /\ Len(MemCells(v)) = HeaderCells
<1>1. RequiredCmdAck \in Cells /\ SkipAck(rom.canSkip) \in Cells /\ OkAck \in Cells
  BY AckTypes, Jobs DEF SkipAck, Typed
<1>2. stage \in {"readHdr", "verifyHdr"} =>
        Rest(v) = MemCells(v) /\ MemCells(v) \in Seq(Cells) /\ Len(MemCells(v)) = HeaderCells
  <2>1. SUFFICES ASSUME stage \in {"readHdr", "verifyHdr"}
                 PROVE  Rest(v) = MemCells(v) /\ MemCells(v) \in Seq(Cells) /\ Len(MemCells(v)) = HeaderCells
    OBVIOUS
  <2>2. Job.cmd = "RD_MEM" /\ Job.addr = FlashHdrAddr(img) /\ Job.count = HeaderCells /\ ~HasData
    BY <2>1, Jobs DEF Typed
  <2>3. CellsAt(v, Job) = MemCells(v)
    BY <2>2 DEF CellsAt, MemCells
  <2>4. QED
    BY <2>1, <2>2, <2>3, JobType, CellsAtType DEF Rest, Typed
<1>3. <<>> \in Seq(Cells) /\ \A c \in Cells : One(c) \in Seq(Cells)
  BY EmptySeq, Ones
<1>4. QED
  BY <1>1, <1>2, <1>3 DEF Rest

LEMMA RestSame ==
  ASSUME UNCHANGED <<img, rom, stage, HasData, RequiredCmdAck>>, NEW v
  PROVE  Rest(v)' = Rest(v) /\ MemCells(v)' = MemCells(v)
BY DEF Rest, MemCells, SkipAck, OkAck, Rom!ErrorAck, Rom!Cell

\* What the call says of the memory is the same when the host goes on with it.
LEMMA GoOnMemory ==
  ASSUME Typed, Running, UNCHANGED <<img, stage, seg, pos, FlashHdr, Job, HasData>>, Started, Started',
         HasData => Got' = Got, NEW v, NEW st, Memory(v, st)
  PROVE  Memory(v, st)'
<1>1. /\ \A m : (Whole(m)' <=> Whole(m)) /\ (Plain(m)' <=> Plain(m)) /\ (Ready(m)' <=> Ready(m))
      /\ UNCHANGED <<Header, Wanted, IvtCell, FlashHdrAddr(img), LoadSegments(img), Rom!Nothing>>
  BY SameMemory DEF Rom!Nothing, Rom!Command
<1>2. HasData <=> stage \in {"ecc", "dcd", "plugin", "load", "writeHdr"}
  BY Jobs DEF Typed
<1>3. HasData => \A m : Brought(m)' <=> Brought(m)
  BY <1>1 DEF Brought, Rom!File
<1>4. HasData => (Sync(v)' <=> Sync(v))
  BY <1>1 DEF Sync
<1>5. QED
  BY <1>1, <1>2, <1>3, <1>4 DEF Memory

\* The same of the state of the ROM.
LEMMA GoOnMode ==
  ASSUME Started, Started', UNCHANGED <<stage, delivered, handled>>, NEW R, NEW Q, NEW d, NEW e,
         Mode(R, Q, d), Jumps /\ phase' = "ack" => handled = Len(delivered),
         Jumps /\ phase' # "ack" => phase # "ack" /\ Seen' = Seen
  PROVE  Mode(R, Q, e)'
<1>1. UNCHANGED Jumps /\ Last(R)' = Last(R)
  BY DEF Jumps, Last
<1>2. QED
  BY <1>1 DEF Mode, Jumps

\* The host goes on after a report it sent.
LEMMA GoesOnSent ==
  ASSUME Typed, Calls, Lone, JudgeStep, CmdSent \/ DataSent, NEW R, NEW Q, Chain(R), Track(R, Q),
         NEW d, NEW st, Course(R, Q, d, st)
  PROVE  Course(R, Q, d, st)'
<1>1. /\ UNCHANGED <<img, rom, handled, delivered, stage, seg, pos, FlashHdr, Job, HasData, RequiredCmdAck>>
      /\ phase \in {"cmd", "data"} /\ Running /\ phase' \in {"data", "hab"} /\ Started /\ Started' /\ Sent
      /\ HasData => Got' = Got
      /\ phase = "data" => HasData
  <2>1. phase \in {"cmd", "data"} /\ phase' \in {"data", "hab"}
    BY DEF CmdSent, DataSent, GoOn
  <2>2. QED
    BY <2>1, OrderJudge DEF Typed, Where
<1>2. Due(Q[Len(delivered)], taken, d) /\ Seen' = taken /\ Seen = taken
  <2>1. Due(Q[Len(delivered)], Seen, d)
    BY DEF Course
  <2>2. Seen = taken
    BY <1>1 DEF Seen, Reading
  <2>3. QED
    BY <2>1, <2>2, JudgeDue
<1>3. PICK v : v = Last(R)
  OBVIOUS
<1>4. Last(R)' = v /\ Memory(v, st) /\ Answers(v, d, st) /\ Mode(R, Q, d)
  BY <1>1, <1>3 DEF Course, Last
<1>5. Memory(v, st)'
  BY <1>1, <1>4, GoOnMemory
<1>6. Answers(v, d, st)'
  <2>1. Stale(st) /\ d = Cat(st, Own(v))
    BY <1>1, <1>4 DEF Answers
  <2>2. UNCHANGED Own(v)
    <3>1. Owes' = Owes
      BY <1>1 DEF Owes
    <3>2. Rest(v)' = Rest(v)
      BY <1>1, RestSame
    <3>3. QED
      BY <3>1, <3>2 DEF Own, Rom!HAB, Rom!Cell
  <2>3. Stale(st)'
    BY <1>1, <2>1 DEF Stale, CanBeStale, Rom!HAB, Rom!Cell
  <2>4. QED
    BY <1>1, <2>1, <2>2, <2>3 DEF Answers
<1>7. Mode(R, Q, d)'
  BY <1>1, <1>2, <1>4, GoOnMode
<1>8. QED
  BY <1>1, <1>2, <1>4, <1>5, <1>6, <1>7 DEF Course

\* When it has read the HAB report, it expects the rest.
LEMMA HabRead ==
  ASSUME Typed, Calls, Lone, GetHABType, NEW R, NEW Q, Chain(R), Track(R, Q),
         NEW d, NEW st, Course(R, Q, d, st)
  PROVE  \E e : Course(R, Q, e, st)'
<1>0. JudgeStep
  BY DEF JudgeStep
<1>1. /\ UNCHANGED <<img, rom, handled, delivered, stage, seg, pos, FlashHdr, Job, HasData, RequiredCmdAck>>
      /\ Running /\ Started /\ Started' /\ Ok /\ (HasData => Got' = Got) /\ asked
  BY <1>0, OrderJudge
<1>2. /\ phase = "hab" /\ Report = Rom!HAB /\ buf' = buf /\ Reading
      /\ phase' = IF Job.cmd = "RD_MEM" THEN "read" ELSE "ack"
      /\ Job.cmd = "RD_MEM" => buf = <<>> /\ stage \in {"readHdr", "verifyHdr"} /\ ~HasData
  BY <1>1, Jobs DEF GetHABType, GoOn, Reading, Typed, Where
<1>3. PICK e :
        /\ e \in Seq(Cells) /\ Due(Q[Len(delivered)], taken, e) /\ Seen' = taken
        /\ d # <<>> /\ e = Tail(d) /\ d[1] = Rom!HAB /\ Seen = taken - 1 /\ taken \in Nat
        /\ taken <= Len(heard)
  <2>1. Due(Q[Len(delivered)], Seen, d)
    BY DEF Course
  <2>2. QED
    BY <1>0, <1>1, <1>2, <2>1, JudgeDue
<1>4. PICK v : v = Last(R)
  OBVIOUS
<1>5. /\ Last(R)' = v /\ Memory(v, st) /\ Mode(R, Q, d) /\ v \in Views
      /\ Stale(st) /\ d = Cat(st, Own(v))
  <2>1. Last(R)' = v /\ v \in Views
    BY <1>1, <1>4, LastType DEF Last
  <2>2. QED
    BY <1>2, <1>4, <2>1 DEF Course, Answers
<1>6. /\ Own(v) = Cat(One(Rom!HAB), Rest(v)) /\ Rest(v) \in Seq(Cells)
      /\ stage \in {"readHdr", "verifyHdr"} =>
           Rest(v) = MemCells(v) /\ MemCells(v) \in Seq(Cells) /\ Len(MemCells(v)) = HeaderCells
  <2>1. Owes
    BY <1>1, <1>2 DEF Owes, Got
  <2>2. QED
    BY <1>1, <1>5, <2>1, RestType DEF Own
<1>7. Rest(v)' = Rest(v) /\ MemCells(v)' = MemCells(v)
  BY <1>1, RestSame
<1>13. PICK o, t : o = Own(v) /\ t = Rest(v) /\ d = Cat(st, o)
  BY <1>5
<1>14. o = Cat(One(Rom!HAB), t) /\ t \in Seq(Cells) /\ Rom!HAB \in Cells
  BY <1>6, <1>13, AckTypes
<1>8. /\ o \in Seq(Cells) /\ o # <<>> /\ o[1] = Rom!HAB /\ Tail(o) = t /\ Len(o) = 1 + Len(t)
      /\ t # <<>> => o[Len(o)] = t[Len(t)]
  <2>1. PICK c : c = Rom!HAB
    OBVIOUS
  <2>2. o = Cat(One(c), t) /\ t \in Seq(Cells) /\ c \in Cells
    BY <1>14, <2>1
  <2>3. o \in Seq(Cells) /\ o # <<>> /\ o[1] = c /\ Tail(o) = t
    BY <2>2, TailCat
  <2>5. Len(o) = 1 + Len(t)
    BY <2>2, TailCat
  <2>6. t # <<>> => o[Len(o)] = t[Len(t)]
    BY <2>2, LastCat, Ones
  <2>4. QED
    BY <2>1, <2>3, <2>5, <2>6
<1>9. Answers(v, e, st)'
  <2>1. CASE st = <<>>
    <3>1. d = o
      BY <1>8, <1>13, <2>1, CatEmpty
    <3>2. e = Rest(v)
      BY <1>3, <1>8, <1>13, <3>1
    <3>3. CASE Job.cmd = "RD_MEM"
      <4>1. buf' = <<>> /\ e = MemCells(v) /\ Cat(<<>>, e) = e
        BY <1>2, <1>3, <1>6, <3>2, <3>3, CatEmpty
      <4>2. Cat(buf, e)' = MemCells(v)'
        BY <1>7, <4>1
      <4>3. QED
        BY <1>2, <2>1, <3>3, <4>2 DEF Answers
    <3>4. CASE Job.cmd # "RD_MEM"
      BY <1>2, <1>7, <2>1, <3>2, <3>4 DEF Answers
    <3>5. QED
      BY <3>3, <3>4
  <2>2. CASE st # <<>>
    <3>1. /\ st \in Seq(Cells) /\ Len(st) <= 2 /\ CanBeStale /\ st[Len(st)] # Rom!HAB
          /\ HasData => st[Len(st)] # RequiredCmdAck
      BY <1>5, <2>2 DEF Stale
    <3>2. /\ d[1] = st[1] /\ e = Cat(Tail(st), o) /\ Tail(st) \in Seq(Cells)
          /\ Len(Tail(st)) = Len(st) - 1 /\ Len(st) \in Nat /\ Len(st) > 0
          /\ Tail(st) # <<>> => Tail(st)[1] = st[2]
      BY <1>3, <1>8, <1>13, <2>2, <3>1, TailJoined
    <3>3. Len(st) = 2
      <4>1. Len(st) # 1
        BY <1>3, <3>1, <3>2
      <4>2. QED
        BY <3>1, <3>2, <4>1
    <3>4. PICK x : x = Tail(st)
      OBVIOUS
    <3>5. x \in Seq(Cells) /\ Len(x) = 1 /\ x # <<>> /\ x[1] = st[Len(st)] /\ e = Cat(x, o)
      <4>1. x \in Seq(Cells) /\ Len(x) = 1 /\ e = Cat(x, o)
        BY <3>2, <3>3, <3>4
      <4>2. x # <<>>
        <5>1. x = <<>> => Len(x) = 0
          BY EmptySeq
        <5>2. QED
          BY <4>1, <5>1
      <4>3. x[1] = st[2] /\ Len(st) = 2
        BY <3>2, <3>3, <3>4, <4>2
      <4>4. QED
        BY <4>1, <4>2, <4>3
    <3>6. e[1] = st[Len(st)] /\ e # <<>> /\ Len(e) = 1 + Len(o)
          /\ e[Len(e)] = o[Len(o)]
      <4>3. o \in Seq(Cells) /\ o # <<>> /\ Len(o) \in Nat /\ Len(o) > 0
        BY <1>8
      <4>4. /\ Len(Cat(x, o)) = Len(x) + Len(o)
            /\ \A j \in 1..Len(x) : Cat(x, o)[j] = x[j]
            /\ \A j \in 1..Len(o) : Cat(x, o)[Len(x) + j] = o[j]
        BY <3>5, <4>3, CatType, CatAt
      <4>1. /\ Len(e) = Len(x) + Len(o) /\ Len(o) \in Nat /\ Len(o) > 0
            /\ \A j \in 1..Len(x) : e[j] = x[j]
            /\ \A j \in 1..Len(o) : e[Len(x) + j] = o[j]
        BY <3>5, <4>3, <4>4
      <4>2. 1 \in 1..Len(x) /\ Len(o) \in 1..Len(o)
        BY <3>5, <4>1
      <4>5. QED
        BY <3>5, <4>1, <4>2
    <3>7. CASE Job.cmd = "RD_MEM"
      <4>1. stage = "readHdr" /\ Rest(v) = MemCells(v) /\ Len(Rest(v)) = HeaderCells /\ HeaderCells \in Nat \ {0}
        BY <1>2, <1>6, <3>1, <3>7, SizesAssumption DEF CanBeStale
      <4>2. Len(e) = HeaderCells + 2 /\ e[Len(e)] = MemCells(v)[HeaderCells]
        BY <1>8, <1>13, <3>6, <4>1
      <4>3. PlainCell(MemCells(v)[HeaderCells])
        <5>1. Plain(v.mem)
          BY <1>5, <4>1 DEF Memory
        <5>2. /\ FlashHdrAddr(img) + (HeaderCells - 1) \in Addresses
              /\ FlashHdrAddr(img) + (HeaderCells - 1) = FlashHdrAddr(img) + HeaderCells - 1
          <6>1. HeaderCells - 1 \in 0..(HeaderCells - 1) /\ FlashHdrAddr(img) \in Int
            BY <4>1, ImageType DEF Typed, HostTypes
          <6>2. img.family # "MX8"
            BY <4>1 DEF Typed, Where, HdrStage
          <6>3. QED
            BY <4>1, <6>1, <6>2, HeaderPlace DEF Typed
        <5>3. MemCells(v)[HeaderCells] = v.mem[FlashHdrAddr(img) + HeaderCells - 1]
          BY <4>1 DEF MemCells
        <5>4. QED
          BY <5>1, <5>2, <5>3 DEF Plain
      <4>4. buf' = <<>> /\ Len(<<>>) = 0
        BY <1>2, <3>7
      <4>5. (st # <<>> /\ CanBeStale /\ Len(buf) + Len(e) = HeaderCells + 2 /\ PlainCell(e[Len(e)]))'
        BY <1>1, <2>2, <3>1, <4>1, <4>2, <4>3, <4>4 DEF CanBeStale, PlainCell
      <4>6. QED
        BY <1>2, <3>7, <4>5 DEF Answers
    <3>8. CASE Job.cmd # "RD_MEM"
      <4>1. HasData
        BY <1>1, <3>1, <3>8, Jobs DEF CanBeStale, Typed
      <4>2. (st # <<>> /\ CanBeStale /\ e # <<>> /\ e[1] # RequiredCmdAck)'
        BY <1>1, <2>2, <3>1, <3>6, <4>1 DEF CanBeStale
      <4>3. QED
        BY <1>2, <3>8, <4>2 DEF Answers
    <3>9. QED
      BY <3>7, <3>8
  <2>3. QED
    BY <2>1, <2>2
<1>10. Memory(v, st)'
  BY <1>1, <1>5, GoOnMemory
<1>11. Mode(R, Q, e)'
  <2>1. ASSUME Jumps PROVE handled = Len(delivered) /\ phase' = "ack"
    <3>1. phase' = "ack"
      BY <1>1, <1>2, <2>1, Jobs DEF Typed
    <3>2. /\ handled \in Nat /\ Len(delivered) \in Nat /\ handled <= Len(delivered)
          /\ heard \in Seq(Cells) /\ rom.answers \in Seq(Cells)
      BY LastType DEF Typed, WireTypes, RomTypes
    <3>3. Len(heard) <= Len(Q[handled]) /\ Len(Q[handled]) \in Nat /\ Len(heard) \in Nat
      <4>1. Q[handled] = Cat(heard, rom.answers)
        BY DEF Track
      <4>2. PICK h, a : h = heard /\ a = rom.answers
        OBVIOUS
      <4>3. h \in Seq(Cells) /\ a \in Seq(Cells)
        BY <3>2, <4>2
      <4>4. Len(Cat(h, a)) = Len(h) + Len(a) /\ Len(h) \in Nat /\ Len(a) \in Nat
        BY <4>3, CatType
      <4>5. QED
        BY <4>1, <4>2, <4>4
    <3>4. ~(handled < Len(delivered))
      <4>1. SUFFICES ASSUME handled < Len(delivered) PROVE FALSE
        OBVIOUS
      <4>2. handled \in handled..(Len(delivered) - 1)
        BY <3>2, <4>1
      <4>3. Len(Q[handled]) <= Seen
        BY <1>1, <1>2, <1>5, <2>1, <4>2 DEF Mode
      <4>4. QED
        BY <1>3, <3>3, <4>3
    <3>5. QED
      BY <3>1, <3>2, <3>4
  <2>2. QED
    BY <1>1, <1>5, <2>1, GoOnMode
<1>12. QED
  BY <1>1, <1>3, <1>5, <1>9, <1>10, <1>11 DEF Course


LEMMA SeenType == Typed => Seen \in Nat
<1> SUFFICES ASSUME Typed PROVE Seen \in Nat
  OBVIOUS
<1>1. readBuf \in Nat /\ taken \in Nat /\ readBuf <= taken
  BY DEF Typed, Carried, H!Ids, H!TypeOK
<1>2. QED
  BY <1>1 DEF Seen

\* What reading one more cell of the header means.
LEMMA ReadCell ==
  ASSUME Typed, Calls, Lone, ReadData, NEW R, NEW Q, Chain(R), Track(R, Q),
         NEW d, NEW st, Course(R, Q, d, st)
  PROVE  \E e : /\ e \in Seq(Cells) /\ Due(Q[Len(delivered)], taken, e) /\ Seen' = taken
                /\ Len(d) = Len(e) + 1 /\ Len(e) \in Nat /\ (e # <<>> => e[Len(e)] = d[Len(d)])
                /\ d \in Seq(Cells) /\ buf' \in Seq(Cells)
                /\ Len(buf') = Len(buf) + 1 /\ Len(buf) \in Nat /\ Len(buf) < HeaderCells
                /\ Cat(buf', e) = Cat(buf, d) /\ Len(Cat(buf, d)) = Len(buf) + Len(d)
                /\ Job.count = HeaderCells /\ stage \in {"readHdr", "verifyHdr"} /\ phase = "read"
                /\ ~HasData /\ Ok /\ Running
<1>0. JudgeStep
  BY DEF JudgeStep
<1>1. /\ phase = "read" /\ Ok /\ buf' = Append(buf, Report) /\ Running
  BY <1>0, OrderJudge DEF ReadData
<1>2. /\ stage \in {"readHdr", "verifyHdr"} /\ Job.count = HeaderCells /\ ~HasData
      /\ Len(buf) < HeaderCells /\ buf \in Seq(Cells) /\ Len(buf) \in Nat
  BY <1>1, Jobs DEF Typed, Where, HostTypes
<1>3. PICK e :
        /\ e \in Seq(Cells) /\ Due(Q[Len(delivered)], taken, e) /\ Seen' = taken
        /\ d # <<>> /\ e = Tail(d) /\ Report = d[1] /\ d[1] \in Cells
  <2>1. Due(Q[Len(delivered)], Seen, d)
    BY DEF Course
  <2>2. Reading
    BY <1>1 DEF Reading
  <2>3. QED
    BY <1>0, <1>1, <2>1, <2>2, JudgeDue
<1>4. /\ d \in Seq(Cells) /\ d = Cat(One(d[1]), e) /\ Len(d) = Len(e) + 1 /\ Len(e) \in Nat
      /\ e # <<>> => e[Len(e)] = d[Len(d)]
  <2>1. Due(Q[Len(delivered)], Seen, d) /\ d \in Seq(Cells)
    BY DEF Course, Due
  <2>2. Seen \in Nat
    BY SeenType
  <2>3. Q[Len(delivered)] \in Seq(Cells)
    BY LastType DEF Track
  <2>4. d[1] = Head(d)
    BY <1>3, <2>1
  <2>5. d = Cat(One(d[1]), e) /\ Len(d) = Len(e) + 1 /\ (e # <<>> => e[Len(e)] = d[Len(d)])
    BY <1>3, <2>1, <2>2, <2>3, DueNext
  <2>6. QED
    BY <1>3, <2>1, <2>5
<1>5. PICK c : c = Report /\ c \in Cells /\ d = Cat(One(c), e) /\ buf' = Append(buf, c)
  BY <1>1, <1>3, <1>4
<1>6. PICK b : b = buf /\ b \in Seq(Cells)
  BY <1>2
<1>7. PICK a : a = buf' /\ a = Append(b, c)
  BY <1>5, <1>6
<1>8. PICK u : u = One(c) /\ u \in Seq(Cells) /\ Len(u) = 1 /\ a = Cat(b, u) /\ d = Cat(u, e)
  BY <1>5, <1>6, <1>7, Ones, Appends, Zenon
<1>9. a \in Seq(Cells) /\ Len(a) = Len(b) + 1
  <2>1. Cat(b, u) \in Seq(Cells) /\ Len(Cat(b, u)) = Len(b) + Len(u)
    BY <1>6, <1>8, CatType
  <2>2. QED
    BY <1>8, <2>1
<1>10. Cat(a, e) = Cat(b, d)
  <2>1. Cat(Cat(b, u), e) = Cat(b, Cat(u, e))
    BY <1>3, <1>6, <1>8, Assoc
  <2>2. QED
    BY <1>8, <2>1
<1>11. Len(Cat(b, d)) = Len(b) + Len(d)
  BY <1>4, <1>6, CatType
<1>12. buf' \in Seq(Cells) /\ Len(buf') = Len(buf) + 1 /\ Cat(buf', e) = Cat(buf, d)
       /\ Len(Cat(buf, d)) = Len(buf) + Len(d)
  BY <1>6, <1>7, <1>9, <1>10, <1>11
<1>13. /\ e \in Seq(Cells) /\ Due(Q[Len(delivered)], taken, e) /\ Seen' = taken
       /\ Len(d) = Len(e) + 1 /\ Len(e) \in Nat /\ (e # <<>> => e[Len(e)] = d[Len(d)])
       /\ d \in Seq(Cells) /\ Len(buf) \in Nat /\ Len(buf) < HeaderCells
  BY <1>2, <1>3, <1>4
<1>14. /\ Job.count = HeaderCells /\ stage \in {"readHdr", "verifyHdr"} /\ phase = "read"
       /\ ~HasData /\ Ok /\ Running
  BY <1>1, <1>2
<1>15. QED
  BY <1>12, <1>13, <1>14, Zenon

\* The host reads on.
LEMMA ReadsOn ==
  ASSUME Typed, Calls, Lone, ReadData, Len(buf') < Job.count, NEW R, NEW Q, Chain(R), Track(R, Q),
         NEW d, NEW st, Course(R, Q, d, st)
  PROVE  \E e : Course(R, Q, e, st)'
<1>0. JudgeStep
  BY DEF JudgeStep
<1>1. /\ UNCHANGED <<img, rom, handled, delivered, stage, seg, pos, FlashHdr, Job, HasData, RequiredCmdAck>>
      /\ Running /\ Started /\ Started' /\ (HasData => Got' = Got) /\ phase' = "read"
  <2>1. phase' = "read"
    BY DEF ReadData, GoOn
  <2>2. QED
    BY <1>0, <2>1, OrderJudge
<1>2. PICK e :
        /\ e \in Seq(Cells) /\ Due(Q[Len(delivered)], taken, e) /\ Seen' = taken
        /\ Len(d) = Len(e) + 1 /\ Len(e) \in Nat /\ (e # <<>> => e[Len(e)] = d[Len(d)])
        /\ d \in Seq(Cells) /\ buf' \in Seq(Cells)
        /\ Len(buf') = Len(buf) + 1 /\ Len(buf) \in Nat /\ Len(buf) < HeaderCells
        /\ Cat(buf', e) = Cat(buf, d) /\ Len(Cat(buf, d)) = Len(buf) + Len(d)
        /\ Job.count = HeaderCells /\ stage \in {"readHdr", "verifyHdr"} /\ phase = "read"
        /\ ~HasData /\ Ok /\ Running
  BY ReadCell
<1>3. PICK v : v = Last(R)
  OBVIOUS
<1>4. Last(R)' = v /\ Memory(v, st) /\ Mode(R, Q, d) /\ Answers(v, d, st)
  BY <1>1, <1>3 DEF Course, Last
<1>5. Answers(v, e, st)'
  <2>1. MemCells(v)' = MemCells(v)
    BY <1>1, RestSame
  <2>2. CASE st = <<>> /\ Cat(buf, d) = MemCells(v)
    <3>1. Cat(buf, e)' = MemCells(v)'
      BY <1>2, <2>1, <2>2
    <3>2. QED
      BY <1>1, <2>2, <3>1 DEF Answers
  <2>3. CASE st # <<>> /\ CanBeStale /\ Len(buf) + Len(d) = HeaderCells + 2 /\ PlainCell(d[Len(d)])
    <3>1. Len(buf') + Len(e) = HeaderCells + 2
      BY <1>2, <2>3
    <3>2. e # <<>>
      <4>1. HeaderCells \in Nat
        BY SizesAssumption
      <4>2. Len(e) > 0
        BY <1>1, <1>2, <3>1, <4>1
      <4>3. e = <<>> => Len(e) = 0
        BY EmptySeq
      <4>4. QED
        BY <4>2, <4>3
    <3>3. PlainCell(e[Len(e)])
      BY <1>2, <2>3, <3>2
    <3>4. (st # <<>> /\ CanBeStale /\ Len(buf) + Len(e) = HeaderCells + 2 /\ PlainCell(e[Len(e)]))'
      BY <1>1, <2>3, <3>1, <3>3 DEF CanBeStale, PlainCell
    <3>5. QED
      BY <1>1, <3>4 DEF Answers
  <2>4. QED
    BY <1>2, <1>4, <2>2, <2>3 DEF Answers
<1>6. Memory(v, st)'
  BY <1>1, <1>4, GoOnMemory
<1>7. Mode(R, Q, e)'
  BY <1>1, <1>2, <1>4, GoOnMode DEF Jumps
<1>8. QED
  BY <1>1, <1>2, <1>4, <1>5, <1>6, <1>7 DEF Course

\* The memory as a call that begins needs it.
LEMMA Begun ==
  ASSUME Typed, Calls, Lone, JudgeStep, phase' = "cmd", NEW v, NEW e,
         stage' \in CalmStages \cup {"readHdr"} => Plain(v.mem),
         stage' \in {"ecc", "dcd", "plugin", "start"} => seg' = 1 /\ (stage' = "dcd" \/ pos' = 0),
         stage' = "start" => v.mem[img.self] = IvtCell,
         stage' = "load" => Brought(v.mem)',
         stage' \in {"skip", "jump"} => img.second # "uimage" /\ Ready(v.mem),
         stage' \in {"readHdr", "verifyHdr", "jumpHdr"} => Whole(v.mem),
         stage' \in {"verifyHdr", "jumpHdr"} => v.mem[FlashHdrAddr(img)] = Header,
         stage' = "writeHdr" /\ e = <<>> =>
           /\ FlashHdr'[1] = Header /\ Whole(v.mem)
           /\ \A k \in 2..HeaderCells : v.mem[FlashHdrAddr(img) + k - 1] = FlashHdr'[k]
  PROVE  Memory(v, e)'
<1>1. ~Sent' /\ img' = img
  BY OrderJudge
<1>2. ~Started' /\ Got' = 0
  BY <1>1 DEF Started, Got
<1>3. /\ \A m : (Whole(m)' <=> Whole(m)) /\ (Plain(m)' <=> Plain(m)) /\ (Ready(m)' <=> Ready(m))
      /\ UNCHANGED <<Header, Wanted, IvtCell, FlashHdrAddr(img)>>
  BY <1>1, SameMemory
<1>4. Sync(v)'
  BY <1>2 DEF Sync
<1>5. ~(Got' > 0)
  BY <1>2
<1>6. (stage \in CalmStages \cup {"readHdr"})' => Plain(v.mem)'
  BY <1>3
<1>7. ((stage = "plugin" /\ Got > 0) \/ stage = "start")' => v.mem[img'.self] = IvtCell'
  BY <1>1, <1>3, <1>5
<1>8. stage' \in {"skip", "jump"} => img'.second # "uimage" /\ Ready(v.mem)'
  BY <1>1, <1>3
<1>9. stage' \in {"readHdr", "verifyHdr", "jumpHdr"} => Whole(v.mem)'
  BY <1>3
<1>10. stage' \in {"verifyHdr", "jumpHdr"} => v.mem[FlashHdrAddr(img)'] = Header'
  BY <1>3
<1>11. stage' = "writeHdr" /\ e = <<>> =>
           /\ FlashHdr'[1] = Header' /\ Whole(v.mem)'
           /\ \A k \in 2..HeaderCells : v.mem[FlashHdrAddr(img)' + k - 1] = FlashHdr'[k]
           /\ Got' > 0 => v.mem[FlashHdrAddr(img)'] = Header'
  BY <1>3, <1>5
<1>12. QED
  BY <1>4, <1>6, <1>7, <1>8, <1>9, <1>10, <1>11 DEF Memory

\* It finds what is left of the call before.
LEMMA Begins ==
  ASSUME Typed, Calls, Lone, JudgeStep, phase' = "cmd", NEW R, NEW Q, NEW v, v = Last(R), NEW e,
         Due(Q[Len(delivered)], taken, e), Seen' = taken, Stale(e)',
         \/ v.mode = "listening"
         \/ stage' = "load" /\ v.mode = "plugin" /\ handled = Len(delivered) /\ e = <<>>,
         Memory(v, e)'
  PROVE  Course(R, Q, e, e)'
<1>1. ~Sent' /\ UNCHANGED <<delivered, handled>>
  BY OrderJudge
<1>2. ~Started'
  BY <1>1 DEF Started
<1>3. Last(R)' = v
  BY <1>1 DEF Last
<1>4. Answers(v, e, e)'
  <2>1. Own(v)' = <<>>
    BY <1>2 DEF Own, Owes
  <2>2. e = Cat(e, <<>>)
    BY CatEmpty DEF Due
  <2>3. QED
    BY <2>1, <2>2 DEF Answers
<1>5. Mode(R, Q, e)'
  <2>1. CASE v.mode = "listening"
    BY <1>2, <1>3, <2>1 DEF Mode
  <2>2. CASE stage' = "load" /\ v.mode = "plugin" /\ handled = Len(delivered) /\ e = <<>>
    BY <1>1, <1>2, <1>3, <2>2 DEF Mode, Jumps
  <2>3. QED
    BY <2>1, <2>2
<1>6. Due(Q[Len(delivered)], Seen, e)'
  BY <1>1 DEF Due
<1>7. QED
  BY <1>3, <1>4, <1>5, <1>6 DEF Course

\* A load that begins has brought nothing.
LEMMA NothingBrought ==
  ASSUME seg' = 1, pos' = 0, Got' = 0, NEW m
  PROVE  Brought(m)'
<1>1. \A s, p : ~Brings(s, p, 0)
  <2>1. \A x : x \notin 0..(0 - 1)
    OBVIOUS
  <2>2. QED
    BY <2>1 DEF Brings
<1>2. ASSUME NEW j \in 1..seg' PROVE ~(j < seg') /\ pos' + Got' = 0
  BY <1>2
<1>3. QED
  BY <1>1, <1>2 DEF Brought

\* What an acknowledged call leaves.
LEMMA AckTaken ==
  ASSUME Typed, Calls, Lone, GetDevAck, ~Jumps, NEW R, NEW Q, Chain(R), Track(R, Q),
         NEW d, NEW st, Course(R, Q, d, st), NEW v, v = Last(R)
  PROVE  /\ st = <<>> /\ Due(Q[Len(delivered)], taken, <<>>) /\ Seen' = taken
         /\ v.mode = "listening" /\ Memory(v, <<>>)
         /\ CallSucceeds /\ Running /\ Started /\ (HasData => Got = Job.count) /\ phase' = "cmd"
         /\ Got' = 0 /\ stage \in {"ecc", "dcd", "plugin", "load", "writeHdr", "skip"}
         /\ UNCHANGED <<img, delivered, handled, rom>>
<1>0. JudgeStep
  BY DEF JudgeStep
<1>1. /\ CallSucceeds /\ Running /\ Started /\ (HasData => Got = Job.count) /\ phase' = "cmd"
      /\ Got' = 0 /\ UNCHANGED <<img, delivered, handled, rom>>
  BY <1>0, OrderJudge
<1>2. phase = "ack" /\ Ok /\ Report = RequiredCmdAck /\ Job.cmd # "RD_MEM"
      /\ stage \in {"ecc", "dcd", "plugin", "load", "writeHdr", "skip"}
  <2>1. phase = "ack" /\ (Job.cmd = "JUMP" \/ (Ok /\ Report = RequiredCmdAck)) /\ Job.cmd # "RD_MEM"
    BY <1>1 DEF GetDevAck, Typed, Where
  <2>2. QED
    BY <1>1, <2>1, Jobs DEF Typed, HostTypes, Stages, Running, Jumps
<1>3. PICK e : /\ e \in Seq(Cells) /\ Due(Q[Len(delivered)], taken, e) /\ Seen' = taken
               /\ d # <<>> /\ e = Tail(d) /\ Report = d[1]
  <2>1. Due(Q[Len(delivered)], Seen, d)
    BY DEF Course
  <2>2. Reading
    BY <1>2 DEF Reading
  <2>3. QED
    BY <1>0, <1>2, <2>1, <2>2, JudgeDue
<1>4. st = <<>> /\ d = Rest(v)
  <2>1. Answers(v, d, st)
    BY DEF Course
  <2>2. QED
    BY <1>2, <1>3, <2>1 DEF Answers
<1>5. PICK c \in Cells : d = One(c)
  <2>1. RequiredCmdAck \in Cells /\ SkipAck(rom.canSkip) \in Cells
    BY <1>1, AckTypes, Jobs DEF SkipAck, Typed
  <2>2. HasData \/ stage = "skip"
    BY <1>1, <1>2, Jobs DEF Typed
  <2>3. d = One(RequiredCmdAck) \/ d = One(SkipAck(rom.canSkip))
    BY <1>4, <2>2 DEF Rest
  <2>4. QED
    BY <2>1, <2>3
<1>6. e = <<>>
  <2>1. d = Cat(One(c), <<>>) /\ <<>> \in Seq(Cells)
    BY <1>5, Ones, CatEmpty
  <2>2. Tail(d) = <<>>
    BY <1>5, <2>1, TailCat
  <2>3. QED
    BY <1>3, <2>2
<1>7. v.mode = "listening"
  BY <1>1, <1>2 DEF Course, Mode, Jumps
<1>8. QED
  BY <1>1, <1>2, <1>3, <1>4, <1>6, <1>7 DEF Course

\* What the load brings when a call of it ends: the batch, and with the last segment
\* all that is wanted.
LEMMA LoadBrings ==
  ASSUME Typed, Running, stage = "load", CallSucceeds, img' = img, Got = Job.count, Got' = 0,
         NEW m, Brought(m)
  PROVE  /\ stage' = "load" => Brought(m)'
         /\ stage' # "load" /\ LoadedInPlace(img) =>
              Whole(m) /\ (img.second # "uimage" => Ready(m))
<1> DEFINE L == LoadSegments(img)
<1>1. /\ Segment \in Segments /\ Segment.cells \in Nat /\ pos \in Nat /\ seg \in 1..Len(L) /\ Len(L) \in Nat
      /\ Segment = L[seg]
  BY SegmentType, SegmentsType DEF Typed, HostTypes, Segments, Segment
<1>2. Batch \in Nat /\ Batch <= Got /\ Got \in Nat
  <2>1. Batch \in 1..(Segment.cells - pos) /\ Job.count = Rounded(Batch)
    BY BatchType, Jobs DEF Typed
  <2>2. Batch \in Nat
    BY <1>1, <2>1
  <2>3. Rounded(Batch) >= Batch /\ Rounded(Batch) \in Nat
    BY <2>1, <2>2, RoundedType
  <2>4. QED
    BY <2>1, <2>2, <2>3
<1>3. \A p, s, a, b : a \in Int /\ b \in Int /\ a <= b /\ Brings(s, p, a) => Brings(s, p, b)
  <2>1. \A x, a, b : a \in Int /\ b \in Int /\ a <= b /\ x \in 0..(a - 1) => x \in 0..(b - 1)
    OBVIOUS
  <2>2. QED
    BY <2>1 DEF Brings
<1>4. \A p \in Wanted, j \in 1..seg :
        /\ Brings(L[j], p, IF j < seg THEN L[j].cells ELSE pos + Got)
        /\ \A k \in (j + 1)..Len(L) : Spares(L[k], p)
        => m[p[1]] = Rom!File(p[2])
  BY DEF Brought
<1>5. UNCHANGED <<Wanted, L>> /\ \A k : Rom!File(k)' = Rom!File(k)
  BY SameMemory DEF Rom!File
<1>6. CASE More
  <2>1. stage' = "load" /\ pos' = pos + Batch /\ seg' = seg
    BY <1>6 DEF CallSucceeds, BeginStage
  <2>2. \A p \in Wanted, j \in 1..seg :
          /\ Brings(L[j], p, IF j < seg THEN L[j].cells ELSE pos + Batch)
          /\ \A k \in (j + 1)..Len(L) : Spares(L[k], p)
          => m[p[1]] = Rom!File(p[2])
    <3> SUFFICES ASSUME NEW p \in Wanted, NEW j \in 1..seg,
                        Brings(L[j], p, IF j < seg THEN L[j].cells ELSE pos + Batch),
                        \A k \in (j + 1)..Len(L) : Spares(L[k], p)
                 PROVE  m[p[1]] = Rom!File(p[2])
      OBVIOUS
    <3>1. pos + Batch \in Int /\ pos + Got \in Int /\ pos + Batch <= pos + Got
      BY <1>1, <1>2
    <3>2. Brings(L[j], p, IF j < seg THEN L[j].cells ELSE pos + Got)
      BY <1>3, <3>1
    <3>3. QED
      BY <1>4, <3>2
  <2>3. pos' + Got' = pos + Batch
    BY <1>1, <1>2, <2>1
  <2>4. Brought(m)'
    BY <1>5, <2>1, <2>2, <2>3 DEF Brought
  <2>5. QED
    BY <2>1, <2>4
<1>7. CASE ~More
  <2>1. Segment.cells <= pos + Got
    <3>1. ~(pos + Batch < Segment.cells)
      BY <1>7 DEF More
    <3>2. \A x, y, z, w \in Nat : ~(x + y < z) /\ y <= w => z <= x + w
      OBVIOUS
    <3>3. QED
      BY <1>1, <1>2, <3>1, <3>2
  <2>2. \A p \in Wanted, j \in 1..seg :
          /\ Brings(L[j], p, L[j].cells) /\ \A k \in (j + 1)..Len(L) : Spares(L[k], p)
          => m[p[1]] = Rom!File(p[2])
    <3> SUFFICES ASSUME NEW p \in Wanted, NEW j \in 1..seg, Brings(L[j], p, L[j].cells),
                        \A k \in (j + 1)..Len(L) : Spares(L[k], p)
                 PROVE  m[p[1]] = Rom!File(p[2])
      OBVIOUS
    <3>1. Brings(L[j], p, IF j < seg THEN L[j].cells ELSE pos + Got)
      <4>1. CASE j < seg
        BY <4>1
      <4>2. CASE ~(j < seg)
        <5>1. j = seg
          BY <1>1, <4>2
        <5>2. QED
          BY <1>1, <1>2, <1>3, <2>1, <5>1
      <4>3. QED
        BY <4>1, <4>2
    <3>2. QED
      BY <1>4, <3>1
  <2>3. CASE seg < Len(L)
    <3>1. stage' = "load" /\ pos' = 0 /\ seg' = seg + 1
      BY <1>7, <2>3 DEF CallSucceeds, BeginStage
    <3>2. ASSUME NEW p \in Wanted, NEW j \in 1..(seg + 1),
                 Brings(L[j], p, IF j < seg + 1 THEN L[j].cells ELSE 0 + 0),
                 \A k \in (j + 1)..Len(L) : Spares(L[k], p)
          PROVE  m[p[1]] = Rom!File(p[2])
      <4>1. j # seg + 1
        <5>1. SUFFICES ASSUME j = seg + 1 PROVE FALSE
          OBVIOUS
        <5>2. ~(j < seg + 1) /\ \A x : x \notin 0..(0 + 0 - 1)
          BY <1>1, <5>1
        <5>3. QED
          BY <3>2, <5>2 DEF Brings
      <4>2. j \in 1..seg /\ j < seg + 1
        BY <1>1, <4>1
      <4>3. QED
        BY <2>2, <3>2, <4>2
    <3>3. pos' + Got' = 0 + 0
      BY <3>1
    <3>4. Brought(m)'
      BY <1>5, <3>1, <3>2, <3>3 DEF Brought
    <3>5. QED
      BY <3>1, <3>4
  <2>4. CASE ~(seg < Len(L))
    <3>1. seg = Len(L) /\ stage' = AfterLoad /\ stage' # "load"
      BY <1>1, <1>7, <2>4 DEF CallSucceeds, BeginStage, Following, AfterLoad
    <3>2. \A p \in Wanted : Loads(img, p) => m[p[1]] = Rom!File(p[2])
      BY <2>2, <3>1 DEF Loads
    <3>3. ASSUME LoadedInPlace(img) PROVE Whole(m) /\ (img.second # "uimage" => Ready(m))
      <4>1. Whole(m)
        BY <3>2, <3>3 DEF LoadedInPlace, Whole, Wanted
      <4>2. ASSUME img.second # "uimage" PROVE Ready(m)
        BY <3>2, <3>3, <4>2 DEF LoadedInPlace, Ready, Wanted, Target
      <4>3. QED
        BY <4>1, <4>2
    <3>4. QED
      BY <3>1, <3>3
  <2>5. QED
    BY <2>3, <2>4
<1>8. QED
  BY <1>6, <1>7

\* After a call that was acknowledged the next one begins with nothing left over.
LEMMA AckCourse ==
  ASSUME Typed, Calls, Lone, LoadedInPlace(img), GetDevAck, ~Jumps, Running', NEW R, NEW Q,
         Chain(R), Track(R, Q), NEW d, NEW st, Course(R, Q, d, st)
  PROVE  Course(R, Q, <<>>, <<>>)'
<1>0. JudgeStep
  BY DEF JudgeStep
<1>1. PICK v : v = Last(R)
  OBVIOUS
<1>2. /\ Due(Q[Len(delivered)], taken, <<>>) /\ Seen' = taken
      /\ v.mode = "listening" /\ Memory(v, <<>>)
      /\ CallSucceeds /\ Running /\ Started /\ (HasData => Got = Job.count) /\ phase' = "cmd"
      /\ Got' = 0 /\ stage \in {"ecc", "dcd", "plugin", "load", "writeHdr", "skip"}
      /\ UNCHANGED <<img, delivered, handled, rom>>
  BY <1>1, AckTaken
<1>3. Stale(<<>>)'
  BY EmptySeq DEF Stale
<1>4. seg \in 1..Len(LoadSegments(img)) /\ pos \in Nat
  BY DEF Typed, HostTypes
<1>5. Memory(v, <<>>)'
  <2>1. CASE stage = "ecc"
    <3>1. stage' = "dcd" /\ seg' = seg /\ seg = 1
      BY <1>2, <2>1 DEF CallSucceeds, More, BeginStage, Following, Memory
    <3>2. Plain(v.mem)
      BY <1>2, <2>1 DEF Memory, CalmStages
    <3>3. QED
      BY <1>0, <1>2, <3>1, <3>2, Begun
  <2>2. CASE stage = "dcd"
    <3>1. Plain(v.mem) /\ seg = 1
      BY <1>2, <2>2 DEF Memory, CalmStages
    <3>2. stage' \in {"dcd", "load"} /\ seg' = 1 /\ (stage' = "load" => pos' = 0)
      BY <2>2, <1>2, <3>1 DEF CallSucceeds, More, BeginStage, Following
    <3>3. stage' = "load" => Brought(v.mem)'
      <4>1. PICK m : m = v.mem
        OBVIOUS
      <4>2. stage' = "load" => Brought(m)'
        BY <1>2, <3>2, NothingBrought
      <4>3. QED
        BY <4>1, <4>2
    <3>4. QED
      BY <1>0, <1>2, <3>1, <3>2, <3>3, Begun
  <2>3. CASE stage = "plugin"
    <3>1. Plain(v.mem) /\ seg = 1
      BY <1>2, <2>3 DEF Memory, CalmStages
    <3>2. Got > 0
      <4>1. HasData
        BY <1>2, <2>3, Jobs DEF Typed
      <4>2. QED
        BY <1>2, <4>1, JobType DEF Typed
    <3>3. v.mem[img.self] = IvtCell
      BY <1>2, <2>3, <3>2 DEF Memory
    <3>4. stage' = "start" /\ seg' = 1 /\ pos' = 0
      BY <2>3, <1>2, <3>1 DEF CallSucceeds, More, BeginStage, Following
    <3>5. QED
      BY <1>0, <1>2, <3>1, <3>3, <3>4, Begun
  <2>4. CASE stage = "load"
    <3>1. PICK m : m = v.mem /\ Brought(m) /\ Plain(m)
      BY <1>2, <2>4 DEF Memory, CalmStages
    <3>2. Got = Job.count
      BY <1>2, <2>4, Jobs DEF Typed
    <3>3. /\ stage' = "load" => Brought(m)'
          /\ stage' # "load" => Whole(m) /\ (img.second # "uimage" => Ready(m))
      BY <1>2, <2>4, <3>1, <3>2, LoadBrings
    <3>4. stage' = "load" \/ (stage' = "readHdr" /\ img.second = "uimage")
          \/ (stage' = "skip" /\ img.second # "uimage")
      <4>1. stage' \in {"load", AfterLoad}
        BY <1>2, <2>4 DEF CallSucceeds, BeginStage, Following
      <4>2. stage' # "done"
        BY DEF Running
      <4>3. QED
        BY <4>1, <4>2 DEF AfterLoad
    <3>5. stage' = "load" => Brought(v.mem)'
      BY <3>1, <3>3
    <3>6. stage' # "load" => Whole(v.mem) /\ (img.second # "uimage" => Ready(v.mem))
      BY <3>1, <3>3
    <3>7. QED
      BY <1>0, <1>2, <3>1, <3>4, <3>5, <3>6, Begun
  <2>5. CASE stage = "writeHdr"
    <3>1. Got > 0
      <4>1. HasData
        BY <1>2, <2>5, Jobs DEF Typed
      <4>2. QED
        BY <1>2, <4>1, JobType DEF Typed
    <3>2. Whole(v.mem) /\ v.mem[FlashHdrAddr(img)] = Header
      BY <1>2, <2>5, <3>1 DEF Memory
    <3>3. stage' = "verifyHdr"
      BY <2>5, <1>2 DEF CallSucceeds, More, BeginStage, Following
    <3>4. QED
      BY <1>0, <1>2, <3>2, <3>3, Begun DEF CalmStages
  <2>6. CASE stage = "skip"
    <3>1. Plain(v.mem) /\ img.second # "uimage" /\ Ready(v.mem)
      BY <1>2, <2>6 DEF Memory, CalmStages
    <3>2. stage' = "jump"
      BY <2>6, <1>2 DEF CallSucceeds, More, BeginStage, Following
    <3>3. QED
      BY <1>0, <1>2, <3>1, <3>2, Begun
  <2>7. QED
    BY <1>2, <2>1, <2>2, <2>3, <2>4, <2>5, <2>6
<1>6. QED
  BY <1>0, <1>1, <1>2, <1>3, <1>5, Begins

\* The plugin has been started: its own report may be there already.
LEMMA StartCourse ==
  ASSUME Typed, Calls, Lone, GetDevAck, Jumps, Running', NEW R, NEW Q,
         Chain(R), Track(R, Q), NEW d, NEW st, Course(R, Q, d, st)
  PROVE  \E e : Course(R, Q, e, e)'
<1>0. JudgeStep
  BY DEF JudgeStep
<1>1. PICK v : v = Last(R)
  OBVIOUS
<1>2. CallSucceeds /\ Started /\ phase' = "cmd" /\ Got' = 0 /\ UNCHANGED <<img, delivered, handled, rom>>
  BY <1>0, OrderJudge
<1>3. phase = "ack"
  BY DEF GetDevAck
<1>4. stage = "start" /\ stage' = "load" /\ pos' = 0 /\ seg' = seg
  <2>1. stage # "load" /\ ~More /\ stage' = Following /\ pos' = 0 /\ seg' = seg
    BY <1>2 DEF CallSucceeds, BeginStage, More, Jumps
  <2>2. stage' # "done"
    BY DEF Running
  <2>3. QED
    BY <2>1, <2>2 DEF Following, Jumps
<1>5. seg' = 1 /\ Plain(v.mem)
  BY <1>1, <1>4 DEF Course, Memory, CalmStages
<1>6. st = <<>> /\ d = Rest(v)
  BY <1>1, <1>3, <1>4 DEF Course, Answers, CanBeStale
<1>7. d = (IF v.mode # "plugin" THEN One(OkAck) ELSE <<>>)
  <2>1. ~HasData
    BY <1>0, <1>4, OrderJudge, Jobs DEF Typed
  <2>2. QED
    BY <1>4, <1>6, <2>1 DEF Rest
<1>8. v.mode \in {"listening", "plugin"} /\ handled = Len(delivered)
  BY <1>1, <1>2, <1>3, <1>4 DEF Course, Mode, Jumps
<1>9. PICK e : /\ e \in Seq(Cells) /\ Due(Q[Len(delivered)], taken, e) /\ Seen' = taken
               /\ e = d \/ (d # <<>> /\ e = Tail(d))
  <2>1. Due(Q[Len(delivered)], Seen, d)
    BY DEF Course
  <2>2. QED
    BY <1>0, <2>1, JudgeDue
<1>10. e = <<>> \/ (e = One(OkAck) /\ v.mode = "listening")
  <2>1. CASE v.mode = "plugin"
    BY <1>7, <1>9, <2>1
  <2>2. CASE v.mode # "plugin"
    <3>1. PICK c : c = OkAck /\ c \in Cells
      BY AckTypes
    <3>2. d = Cat(One(c), <<>>) /\ <<>> \in Seq(Cells)
      BY <1>7, <2>2, <3>1, Ones, CatEmpty
    <3>3. Tail(d) = <<>>
      BY <3>1, <3>2, TailCat
    <3>4. QED
      BY <1>7, <1>8, <1>9, <2>2, <3>3
  <2>3. QED
    BY <2>1, <2>2
<1>11. Stale(e)'
  <2>1. CASE e = <<>>
    BY <2>1, EmptySeq DEF Stale
  <2>2. CASE e = One(OkAck)
    <3>1. Len(e) = 1 /\ e[1] = OkAck /\ e[Len(e)] = OkAck
      BY <2>2, Ones, AckTypes
    <3>2. OkAck # Rom!HAB /\ OkAck # Rom!Cell("ROM_STATUS_ACK")
      BY AckTypes
    <3>3. CanBeStale'
      BY <1>4 DEF CanBeStale
    <3>4. RequiredCmdAck' = Rom!Cell("ROM_STATUS_ACK")
      <4>1. Job'.cmd = "WR_FILE"
        BY <1>4 DEF Job, Rom!Command
      <4>2. QED
        BY <4>1 DEF RequiredCmdAck, Rom!Cell
    <3>5. e[Len(e)] # Rom!HAB' /\ e[Len(e)] # RequiredCmdAck'
      BY <3>1, <3>2, <3>4 DEF Rom!HAB, Rom!Cell
    <3>6. QED
      BY <1>9, <3>1, <3>3, <3>5 DEF Stale
  <2>3. QED
    BY <1>10, <2>1, <2>2
<1>12. Memory(v, e)'
  <2>1. PICK m : m = v.mem
    OBVIOUS
  <2>2. Brought(m)'
    BY <1>2, <1>4, <1>5, NothingBrought
  <2>3. Brought(v.mem)'
    BY <2>1, <2>2
  <2>4. QED
    BY <1>0, <1>2, <1>4, <1>5, <2>3, Begun
<1>13. QED
  BY <1>0, <1>1, <1>2, <1>4, <1>8, <1>9, <1>10, <1>11, <1>12, Begins

\* The header has been read: it is written with another first cell, or jumped to.
LEMMA ReadCourse ==
  ASSUME Typed, Calls, Lone, ReadData, ~(Len(buf') < Job.count), Running', NEW R, NEW Q,
         Chain(R), Track(R, Q), NEW d, NEW st, Course(R, Q, d, st)
  PROVE  \E e : Course(R, Q, e, e)'
<1>0. JudgeStep
  BY DEF JudgeStep
<1>1. PICK v : v = Last(R)
  OBVIOUS
<1>2. CallSucceeds /\ Started /\ phase' = "cmd" /\ Got' = 0 /\ UNCHANGED <<img, delivered, handled, rom>>
  BY <1>0, OrderJudge
<1>3. PICK e :
        /\ e \in Seq(Cells) /\ Due(Q[Len(delivered)], taken, e) /\ Seen' = taken
        /\ Len(d) = Len(e) + 1 /\ Len(e) \in Nat /\ (e # <<>> => e[Len(e)] = d[Len(d)])
        /\ d \in Seq(Cells) /\ buf' \in Seq(Cells)
        /\ Len(buf') = Len(buf) + 1 /\ Len(buf) \in Nat /\ Len(buf) < HeaderCells
        /\ Cat(buf', e) = Cat(buf, d) /\ Len(Cat(buf, d)) = Len(buf) + Len(d)
        /\ Job.count = HeaderCells /\ stage \in {"readHdr", "verifyHdr"} /\ phase = "read"
        /\ ~HasData /\ Ok /\ Running
  BY ReadCell
<1>4. Len(buf) + 1 = HeaderCells /\ HeaderCells \in Nat \ {0}
  <2>1. HeaderCells \in Nat \ {0}
    BY SizesAssumption
  <2>2. ~(Len(buf') < HeaderCells)
    BY <1>3
  <2>3. PICK n \in Nat : n = Len(buf)
    BY <1>3
  <2>4. ~(n + 1 < HeaderCells) /\ n < HeaderCells
    BY <1>3, <2>2, <2>3
  <2>5. \A x \in Nat, y \in Nat \ {0} : x < y /\ ~(x + 1 < y) => x + 1 = y
    OBVIOUS
  <2>6. n + 1 = HeaderCells
    BY <2>1, <2>4, <2>5
  <2>7. QED
    BY <2>1, <2>3, <2>6
<1>5. /\ v.mode = "listening" /\ Whole(v.mem)
      /\ stage = "verifyHdr" => v.mem[FlashHdrAddr(img)] = Header
      /\ \/ st = <<>> /\ Cat(buf, d) = MemCells(v)
         \/ st # <<>> /\ CanBeStale /\ Len(buf) + Len(d) = HeaderCells + 2 /\ PlainCell(d[Len(d)])
  BY <1>1, <1>3 DEF Course, Memory, Answers, Mode, Jumps
<1>6. CASE stage = "verifyHdr"
  <2>1. st = <<>> /\ Cat(buf, d) = MemCells(v)
    BY <1>5, <1>6 DEF CanBeStale
  <2>2. e = <<>>
    <3>1. Len(MemCells(v)) = HeaderCells
      <4>1. v \in Views
        BY <1>1, LastType
      <4>2. QED
        BY <1>3, <4>1, RestType
    <3>2. Len(e) = 0
      BY <1>3, <1>4, <2>1, <3>1
    <3>3. QED
      BY <1>3, <3>2, EmptySeq
  <2>3. stage' = "jumpHdr"
    <3>1. stage' = Following
      BY <1>2, <1>6 DEF CallSucceeds, More, BeginStage
    <3>2. stage' # "failed"
      BY DEF Running
    <3>3. QED
      BY <1>6, <3>1, <3>2 DEF Following
  <2>4. Stale(e)'
    BY <2>2, EmptySeq DEF Stale
  <2>5. Memory(v, e)'
    BY <1>0, <1>2, <1>5, <1>6, <2>3, Begun DEF CalmStages
  <2>6. QED
    BY <1>0, <1>1, <1>2, <1>3, <1>5, <2>4, <2>5, Begins
<1>7. CASE stage = "readHdr"
  <2>1. stage' = "writeHdr" /\ FlashHdr' = [buf' EXCEPT ![1] = Header]
    BY <1>2, <1>7 DEF CallSucceeds, More, BeginStage, Following, Header
  <2>2. CASE st = <<>> /\ Cat(buf, d) = MemCells(v)
    <3>1. v \in Views
      BY <1>1, LastType
    <3>2. Len(MemCells(v)) = HeaderCells
      BY <1>3, <3>1, RestType
    <3>3. Len(e) = 0
      BY <1>3, <1>4, <2>2, <3>2
    <3>4. e = <<>>
      BY <1>3, <3>3, EmptySeq
    <3>5. PICK a : a = buf' /\ a \in Seq(Cells)
      BY <1>3
    <3>6. Cat(a, <<>>) = a
      BY <3>5, CatEmpty
    <3>7. a = MemCells(v) /\ Len(a) = HeaderCells
      BY <1>3, <2>2, <3>2, <3>4, <3>5, <3>6
    <3>8. \A k \in 1..HeaderCells : a[k] = v.mem[FlashHdrAddr(img) + k - 1]
      BY <3>7 DEF MemCells
    <3>9. FlashHdr'[1] = Header /\ \A k \in 2..HeaderCells : FlashHdr'[k] = a[k]
      <4>1. 1 \in 1..HeaderCells /\ \A k \in 2..HeaderCells : k \in 1..HeaderCells /\ k # 1
        BY <1>4
      <4>2. DOMAIN a = 1..HeaderCells
        BY <1>4, <3>5, <3>7
      <4>3. FlashHdr' = [a EXCEPT ![1] = Header]
        BY <2>1, <3>5
      <4>4. QED
        BY <4>1, <4>2, <4>3
    <3>10. \A k \in 2..HeaderCells : v.mem[FlashHdrAddr(img) + k - 1] = FlashHdr'[k]
      <4>1. \A k \in 2..HeaderCells : k \in 1..HeaderCells
        BY <1>4
      <4>2. QED
        BY <3>8, <3>9, <4>1
    <3>11. Memory(v, e)'
      BY <1>0, <1>2, <1>5, <2>1, <3>9, <3>10, Begun DEF CalmStages
    <3>12. Stale(e)'
      BY <3>4, EmptySeq DEF Stale
    <3>13. QED
      BY <1>0, <1>1, <1>2, <1>3, <1>5, <3>11, <3>12, Begins
  <2>3. CASE st # <<>> /\ CanBeStale /\ Len(buf) + Len(d) = HeaderCells + 2 /\ PlainCell(d[Len(d)])
    <3>1. Len(e) = 2
      <4>1. PICK n \in Nat : n = Len(buf)
        BY <1>3
      <4>2. PICK m \in Nat : m = Len(e)
        BY <1>3
      <4>3. n + 1 = HeaderCells /\ n + (m + 1) = HeaderCells + 2
        BY <1>3, <1>4, <2>3, <4>1, <4>2
      <4>4. \A x, y, h \in Nat : x + 1 = h /\ x + (y + 1) = h + 2 => y = 2
        OBVIOUS
      <4>5. QED
        BY <1>4, <4>2, <4>3, <4>4
    <3>2. e # <<>>
      BY <3>1, EmptySeq
    <3>3. PlainCell(e[Len(e)])
      BY <1>3, <2>3, <3>2
    <3>4. e[Len(e)] # Rom!HAB' /\ e[Len(e)] # RequiredCmdAck'
      <4>1. RequiredCmdAck' = Rom!Cell("ROM_STATUS_ACK")
        <5>1. Job'.cmd = "WR_FILE"
          BY <2>1 DEF Job, Rom!Command
        <5>2. QED
          BY <5>1 DEF RequiredCmdAck, Rom!Cell
      <4>2. QED
        BY <3>3, <4>1 DEF PlainCell, Rom!HAB, Rom!Cell
    <3>5. Stale(e)'
      BY <1>3, <2>1, <3>1, <3>4 DEF Stale, CanBeStale
    <3>6. Memory(v, e)'
      BY <1>0, <1>2, <2>1, <3>2, Begun DEF CalmStages
    <3>7. QED
      BY <1>0, <1>1, <1>2, <1>3, <1>5, <3>5, <3>6, Begins
  <2>4. QED
    BY <1>5, <2>2, <2>3
<1>8. QED
  BY <1>3, <1>6, <1>7

\* The two calls whose failure does not end the run may leave answers behind.
LEMMA FailCourse ==
  ASSUME Typed, Calls, Lone, JudgeStep, Failed, Running', NEW R, NEW Q,
         Chain(R), Track(R, Q), NEW d, NEW st, Course(R, Q, d, st)
  PROVE  \E e : Course(R, Q, e, e)'
<1>1. PICK v : v = Last(R)
  OBVIOUS
<1>2. phase' = "cmd" /\ Got' = 0 /\ UNCHANGED <<img, delivered, handled, rom>> /\ Running
  BY OrderJudge
<1>3. /\ stage \in {"ecc", "skip"} /\ stage' = (IF stage = "ecc" THEN "dcd" ELSE "readHdr")
      /\ seg' = seg
  <2>1. stage' = AfterFailure /\ seg' = seg /\ stage' # "failed"
    BY DEF Failed, CallFails, BeginStage, Running
  <2>2. QED
    BY <2>1 DEF AfterFailure
<1>4. st = <<>> /\ v.mode = "listening" /\ Plain(v.mem) /\ (stage = "ecc" => seg = 1)
      /\ (stage = "skip" => Ready(v.mem))
  <2>1. st = <<>>
    BY <1>3 DEF Course, Answers, Stale, CanBeStale
  <2>2. QED
    BY <1>1, <1>3, <2>1 DEF Course, Mode, Jumps, Memory, CalmStages
<1>5. PICK a \in Cells :
        /\ Rest(v) = One(a) /\ a # Rom!HAB /\ (stage = "ecc" => a # Rom!Cell("ROM_WRITE_ACK"))
  <2>1. CASE stage = "ecc"
    <3>1. HasData /\ RequiredCmdAck = Rom!Cell("ROM_STATUS_ACK")
      BY <1>2, <2>1, Jobs DEF Typed
    <3>2. Rest(v) = One(Rom!Cell("ROM_STATUS_ACK"))
      BY <3>1 DEF Rest
    <3>3. PICK a : a = Rom!Cell("ROM_STATUS_ACK")
      OBVIOUS
    <3>4. a \in Cells /\ a # Rom!HAB /\ a # Rom!Cell("ROM_WRITE_ACK")
      BY <3>3, AckTypes
    <3>5. QED
      BY <3>2, <3>3, <3>4
  <2>2. CASE stage = "skip"
    <3>1. ~HasData
      BY <1>2, <2>2, Jobs DEF Typed
    <3>2. PICK a : a = SkipAck(rom.canSkip)
      OBVIOUS
    <3>3. Rest(v) = One(a)
      BY <2>2, <3>1, <3>2 DEF Rest
    <3>4. a \in Cells /\ a # Rom!HAB
      BY <3>2, AckTypes DEF SkipAck
    <3>5. QED
      BY <2>2, <3>3, <3>4
  <2>3. QED
    BY <1>3, <2>1, <2>2
<1>6. /\ One(a) \in Seq(Cells) /\ Len(One(a)) = 1 /\ One(a)[1] = a /\ One(a) # <<>>
      /\ Tail(One(a)) = <<>>
  <2>1. One(a) = Cat(One(a), <<>>) /\ <<>> \in Seq(Cells) /\ One(a) \in Seq(Cells)
        /\ Len(One(a)) = 1 /\ One(a)[1] = a
    BY Ones, CatEmpty, EmptySeq
  <2>2. PICK u : u = One(a)
    OBVIOUS
  <2>3. u # <<>> /\ Tail(u) = <<>>
    BY <2>1, <2>2, TailCat
  <2>4. QED
    BY <2>1, <2>2, <2>3
<1>7. PICK h : h = Cat(One(Rom!HAB), One(a))
  OBVIOUS
<1>8. h \in Seq(Cells) /\ Len(h) = 2 /\ h # <<>> /\ Tail(h) = One(a) /\ h[Len(h)] = a
  <2>1. PICK c : c = Rom!HAB /\ c \in Cells
    BY AckTypes
  <2>2. h = Cat(One(c), One(a))
    BY <1>7, <2>1
  <2>3. h \in Seq(Cells) /\ h # <<>> /\ Tail(h) = One(a) /\ Len(h) = 1 + Len(One(a))
    BY <1>6, <2>1, <2>2, TailCat
  <2>4. h[Len(h)] = One(a)[Len(One(a))]
    BY <1>6, <2>1, <2>2, Ones, LastCat
  <2>5. QED
    BY <1>6, <2>3, <2>4
<1>9. d \in {<<>>, One(a), h}
  <2>1. CASE phase = "ack"
    BY <1>1, <1>4, <1>5, <2>1 DEF Course, Answers
  <2>2. CASE phase # "ack"
    <3>1. phase # "read"
      BY <1>2, <1>3, Jobs DEF Typed, Where
    <3>2. d = Cat(<<>>, Own(v))
      BY <1>1, <1>4, <2>2, <3>1 DEF Course, Answers
    <3>3. Own(v) \in {<<>>, h}
      BY <1>5, <1>7 DEF Own
    <3>4. Cat(<<>>, <<>>) = <<>> /\ Cat(<<>>, h) = h
      BY <1>8, CatEmpty, EmptySeq
    <3>5. QED
      BY <3>2, <3>3, <3>4
  <2>3. QED
    BY <2>1, <2>2
<1>10. PICK e : /\ e \in Seq(Cells) /\ Due(Q[Len(delivered)], taken, e) /\ Seen' = taken
                /\ e = d \/ (d # <<>> /\ e = Tail(d))
  <2>1. Due(Q[Len(delivered)], Seen, d)
    BY DEF Course
  <2>2. QED
    BY <2>1, JudgeDue
<1>11. e \in {<<>>, One(a), h}
  BY <1>6, <1>8, <1>9, <1>10
<1>12. Stale(e)'
  <2>1. CASE e = <<>>
    BY <2>1, EmptySeq DEF Stale
  <2>2. CASE e # <<>>
    <3>1. Len(e) <= 2 /\ e[Len(e)] = a
      BY <1>6, <1>8, <1>11, <2>2
    <3>2. CanBeStale'
      BY <1>3 DEF CanBeStale
    <3>3. HasData' => RequiredCmdAck' = Rom!Cell("ROM_WRITE_ACK") /\ stage = "ecc"
      <4>1. stage = "ecc" => Job'.cmd = "DCD_WRITE"
        BY <1>3 DEF Job, Rom!Command
      <4>2. stage = "skip" => Job'.cmd = "RD_MEM"
        BY <1>3 DEF Job, Rom!Command
      <4>3. QED
        BY <1>3, <4>1, <4>2 DEF RequiredCmdAck, HasData, Rom!Cell
    <3>4. e[Len(e)] # Rom!HAB' /\ (HasData' => e[Len(e)] # RequiredCmdAck')
      BY <1>5, <3>1, <3>3 DEF Rom!HAB, Rom!Cell
    <3>5. QED
      BY <1>10, <3>1, <3>2, <3>4 DEF Stale
  <2>3. QED
    BY <2>1, <2>2
<1>13. Memory(v, e)'
  <2>1. stage = "skip" => Whole(v.mem)
    BY <1>4 DEF Ready, Whole, Wanted
  <2>2. QED
    BY <1>2, <1>3, <1>4, <2>1, Begun
<1>14. QED
  BY <1>1, <1>2, <1>4, <1>10, <1>12, <1>13, Begins

\* What the host looks at, it looks at in its course.
LEMMA CourseJudge ==
  ASSUME Typed, Calls, Lone, LoadedInPlace(img), JudgeStep, Running', NEW R, NEW Q,
         Chain(R), Track(R, Q), NEW d, NEW st, Course(R, Q, d, st)
  PROVE  \E e, t : Course(R, Q, e, t)'
<1>1. CASE CmdSent \/ DataSent
  BY <1>1, GoesOnSent
<1>2. CASE GetHABType
  BY <1>2, HabRead
<1>3. CASE GetDevAck
  BY <1>3, AckCourse, StartCourse
<1>4. CASE ReadData
  BY <1>4, ReadsOn, ReadCourse
<1>5. CASE Failed
  BY <1>5, FailCourse
<1>6. QED
  BY <1>1, <1>2, <1>3, <1>4, <1>5, OrderJudge


\* A run that ends leaves nothing in flight that could do harm, and one that ends without an
\* error has started the image.
LEMMA SafeJudge ==
  ASSUME Typed, Calls, Lone, JudgeStep, NEW R, NEW Q, Chain(R), Track(R, Q), Safe(R),
         NEW d, NEW st, Course(R, Q, d, st)
  PROVE  Safe(R)'
<1>1. Running /\ asked /\ pc = "idle"
      /\ UNCHANGED <<img, rom, mem, said, handled, delivered, pending, writeBuf>>
  BY OrderJudge
<1>2. (\A k \in handled..Len(delivered) :
         (R[k].mode = "image" => Whole(R[k].mem)) /\ R[k].can = rom.canSkip)'
  BY <1>1, SameMemory DEF Safe
<1>3. (\A k \in handled..(Len(delivered) - 1) : R[k].mode = "listening")'
  BY <1>1 DEF Safe
<1>4. ASSUME Pending'
      PROVE  /\ said[writeBuf].cmd \in {"WR_FILE", "DCD_WRITE", "RD_MEM"}
             /\ Last(R).mode = "listening" \/ (Last(R).mode = "plugin" /\ handled = Len(delivered))
  <2>1. PICK r \in pending : r.kind = "write"
    BY <1>1, <1>4 DEF Pending
  <2>2. Resumed
    BY <1>1, <2>1 DEF Lone, FailedRead, FailedWrite, Mine
  <2>3. said[writeBuf] = Job
    BY <1>1, <2>2 DEF Resumed, Calls
  <2>4. Job.cmd \in {"WR_FILE", "DCD_WRITE", "RD_MEM"}
    BY <1>1, <2>2, Jobs DEF Resumed, Typed
  <2>5. Last(R).mode = "listening" \/ (Last(R).mode = "plugin" /\ handled = Len(delivered))
    BY <2>2 DEF Course, Mode, Jumps, Resumed
  <2>6. QED
    BY <2>3, <2>4, <2>5
<1>5. ASSUME stage' = "done", img.task = "RUN" PROVE rom.mode = "image"
  <2>1. ~Failed
    BY <1>5 DEF Failed, CallFails, BeginStage, AfterFailure
  <2>2. ~(CmdSent \/ DataSent \/ GetHABType \/ (ReadData /\ Len(buf') < Job.count))
    <3>1. stage # "done"
      BY <1>1 DEF Running
    <3>2. QED
      BY <1>5, <3>1, OrderJudge
  <2>3. CallSucceeds /\ Started /\ phase \in {"ack", "read"}
    BY <2>1, <2>2, OrderJudge
  <2>4. stage' = Following /\ Following = "done"
    BY <1>1, <1>5, <2>3 DEF CallSucceeds, BeginStage, Running
  <2>5. stage \in {"jump", "jumpHdr"}
    BY <1>1, <1>5, <2>4 DEF Following, AfterLoad, Running, Typed, HostTypes, Stages
  <2>6. phase = "ack"
    BY <1>1, <2>3, <2>5, Jobs DEF Typed, Where
  <2>7. handled = Len(delivered) /\ Last(R).mode = "image"
    BY <2>3, <2>5, <2>6 DEF Course, Mode, Jumps
  <2>8. QED
    BY <2>7 DEF Chain, Last, View
<1>6. QED
  BY <1>1, <1>2, <1>3, <1>4, <1>5 DEF Safe, Last

\* Nor do the steps of the others.
LEMMA SafeQuiet ==
  ASSUME Typed, NEW R, NEW Q, Chain(R), Track(R, Q), Safe(R),
         Say \/ Listen \/ (Transport /\ ~H!DeviceAccepts) \/ RomHandles \/ RomAnswers
         \/ Finished \/ UNCHANGED vars
  PROVE  Safe(R)'
<1>1. /\ UNCHANGED <<stage, delivered, Running>>
      /\ ~(Say \/ Listen) => (Pending' => Pending) /\ UNCHANGED <<writeBuf, said>>
      /\ Say \/ Listen => Running
  BY QuietCall
<1>2. /\ UNCHANGED <<delivered, img>> /\ rom'.canSkip = rom.canSkip
      /\ IF RomHandles THEN handled' = handled + 1 /\ handled < Len(delivered) ELSE handled' = handled
      /\ ~RomHandles => View'.mem = View.mem /\ View'.mode = View.mode
  BY TrackQuiet
<1>3. handled \in Nat /\ Len(delivered) \in Nat
  BY LastType
<1>4. /\ \A k \in handled'..Len(delivered) : k \in handled..Len(delivered)
      /\ \A k \in handled'..(Len(delivered) - 1) : k \in handled..(Len(delivered) - 1)
  BY <1>2, <1>3
<1>5. (\A k \in handled..Len(delivered) :
         (R[k].mode = "image" => Whole(R[k].mem)) /\ R[k].can = rom.canSkip)'
  BY <1>2, <1>4, SameMemory DEF Safe
<1>6. (\A k \in handled..(Len(delivered) - 1) : R[k].mode = "listening")'
  BY <1>2, <1>4 DEF Safe
<1>7. ASSUME ~Running', Pending'
      PROVE  /\ said'[writeBuf'].cmd \in {"WR_FILE", "DCD_WRITE", "RD_MEM"}
             /\ \/ R[Len(delivered)].mode = "listening"
                \/ R[Len(delivered)].mode = "plugin" /\ handled' = Len(delivered)
  <2>1. ~Running /\ Pending /\ UNCHANGED <<writeBuf, said>>
    BY <1>1, <1>7
  <2>2. \/ R[Len(delivered)].mode = "listening"
        \/ R[Len(delivered)].mode = "plugin" /\ handled = Len(delivered)
    BY <2>1 DEF Safe
  <2>3. handled = Len(delivered) => handled' = handled
    BY <1>2, <1>3
  <2>4. QED
    BY <2>1, <2>2, <2>3 DEF Safe
<1>8. ASSUME stage = "done", img.task = "RUN" PROVE rom'.mode = "image"
  <2>1. rom.mode = "image"
    BY <1>8 DEF Safe
  <2>2. ~RomHandles
    BY <2>1 DEF RomHandles, Rom!Handle
  <2>3. QED
    BY <1>2, <2>1, <2>2 DEF View
<1>9. QED
  BY <1>1, <1>2, <1>5, <1>6, <1>7, <1>8 DEF Safe

-----------------------------------------------------------------------------
(* Steps that are not the host's verdict nor the device's acceptance.      *)

\* What the course depends on.
LEMMA CourseFrame ==
  ASSUME UNCHANGED <<img, stage, phase, seg, pos, at, buf, FlashHdr, delivered, Job, Got, Started>>,
         \A v : Sync(v)' = Sync(v), rom'.canSkip = rom.canSkip, Seen' = Seen,
         handled \in Nat, Len(delivered) \in Nat,
         handled' = handled \/ (handled < Len(delivered) /\ handled' = handled + 1),
         NEW R, NEW Q, Last(R)' = Last(R), NEW d, NEW st, Course(R, Q, d, st)
  PROVE  Course(R, Q, d, st)'
<1>1. UNCHANGED <<HasData, RequiredCmdAck, Jumps, CanBeStale, Owes>>
  BY DEF HasData, RequiredCmdAck, Jumps, CanBeStale, Owes, Rom!Cell
<1>2. PICK v : v = Last(R)
  OBVIOUS
<1>3. MemCells(v)' = MemCells(v)
  BY DEF MemCells, FlashHdrAddr, ExecutingAddr
<1>4. Own(v)' = Own(v) /\ Rest(v)' = Rest(v)
  <2>1. Rest(v)' = Rest(v)
    BY <1>1, <1>3 DEF Rest, OkAck, SkipAck, Rom!Cell, Rom!ErrorAck
  <2>2. QED
    BY <1>1, <2>1 DEF Own, Rom!HAB, Rom!Cell
<1>5. Answers(v, d, st)'
  <2>1. Answers(v, d, st)
    BY <1>2 DEF Course
  <2>2. Stale(st)' = Stale(st)
    BY <1>1 DEF Stale, Rom!HAB, Rom!Cell
  <2>3. QED
    BY <1>1, <1>3, <1>4, <2>1, <2>2 DEF Answers, PlainCell
<1>6. Mode(R, Q, d)'
  <2>1. /\ handled = Len(delivered) => handled' = handled
        /\ \A k \in handled'..(Len(delivered) - 1) : k \in handled..(Len(delivered) - 1)
    OBVIOUS
  <2>2. Mode(R, Q, d)
    BY DEF Course
  <2>3. QED
    BY <1>1, <2>1, <2>2 DEF Mode
<1>7. Memory(v, st)'
  <2>1. Memory(v, st)
    BY <1>2 DEF Course
  <2>2. Brought(v.mem)' = Brought(v.mem)
    BY DEF Brought, Wanted, Target, Rom!File
  <2>3. \A m : (Whole(m)' <=> Whole(m)) /\ (Plain(m)' <=> Plain(m)) /\ (Ready(m)' <=> Ready(m))
    BY SameMemory
  <2>4. UNCHANGED <<Header, IvtCell, FlashHdrAddr(img)>>
    BY SameMemory
  <2>5. Sync(v)' = Sync(v)
    OBVIOUS
  <2>6. QED
    BY <1>1, <2>1, <2>2, <2>3, <2>4, <2>5 DEF Memory
<1>8. Due(Q[Len(delivered)], Seen, d)'
  BY DEF Course, Due
<1>9. QED
  BY <1>2, <1>5, <1>6, <1>7, <1>8 DEF Course

\* A Read in flight while a call is in progress is that of the report it waits for.
LEMMA ArrivesInCall ==
  ASSUME Typed, Calls, Lone, Running, asked, Transport, H!ReportArrives
  PROVE  Seen' = Seen
<1>1. PICK r \in pending : r.kind = "read"
  BY DEF H!ReportArrives, H!OldestOf
<1>2. /\ pc \in {"idle", "waitWrite", "waitRead", "cancelRead"} /\ ret.op \in {"read", "write"}
      /\ taken \in Nat /\ taken' = taken + 1 /\ readBuf' = taken + 1 /\ UNCHANGED <<phase, asked>>
  <2>1. taken' = taken + 1 /\ readBuf' = taken + 1
    BY DEF H!ReportArrives
  <2>2. QED
    BY <2>1, QuietSteps DEF Typed, Carried, H!TypeOK, H!Returns, H!Kinds
<1>3. CASE Reading
  <2>1. phase \notin {"cmd", "data"}
    BY <1>3 DEF Reading
  <2>2. readBuf = 0
    BY <1>1, <1>2, <2>1 DEF Calls, Lone, LoneRead, FailedRead
  <2>3. Seen = taken /\ Seen' = (taken + 1) - 1
    BY <1>2, <1>3, <2>2 DEF Seen, Reading
  <2>4. QED
    BY <1>2, <2>3
<1>4. CASE ~Reading
  <2>1. phase \in {"cmd", "data"}
    BY <1>4 DEF Reading, Typed, HostTypes
  <2>2. FALSE
    BY <1>1, <1>2, <2>1 DEF Calls, Lone, LoneWrite, FailedWrite, Mine
  <2>3. QED
    BY <2>2
<1>5. QED
  BY <1>3, <1>4


\* Between two calls only a Read that failed is in flight: what it brings was left over, and
\* the next call does not see it.
LEMMA ArrivesBetween ==
  ASSUME Typed, Calls, Lone, Running, ~asked, Transport, H!ReportArrives, NEW R, NEW Q,
         Chain(R), Track(R, Q), NEW d, NEW st, Course(R, Q, d, st)
  PROVE  \E e : Course(R, Q, e, e)'
<1>1. PICK r \in pending : r.kind = "read"
  BY DEF H!ReportArrives, H!OldestOf
<1>2. /\ pc = "idle" /\ Resumed /\ asked' = FALSE /\ taken' = taken + 1 /\ taken < sent
      /\ taken \in Nat /\ sent \in Nat
  <2>1. asked' = FALSE
    BY QuietSteps DEF Typed, HostTypes
  <2>2. pc = "idle" /\ Resumed
    BY <1>1 DEF Calls, Lone, FailedRead, FailedWrite
  <2>3. QED
    BY <2>1, <2>2 DEF H!ReportArrives, Typed, Carried, H!TypeOK
<1>3. Seen = taken /\ Seen' = taken + 1
  BY <1>2 DEF Seen
<1>4. /\ UNCHANGED <<img, stage, phase, seg, pos, at, buf, FlashHdr, delivered, Job, Got, Started>>
      /\ \A v : Sync(v)' = Sync(v)
  <2>1. ~H!DeviceAccepts
    BY <1>2 DEF H!DeviceAccepts, H!ReportArrives
  <2>2. QED
    BY <2>1, QuietCall
<1>5. Chain(R)' /\ Track(R, Q)' /\ Last(R)' = Last(R) /\ handled' = handled /\ rom'.canSkip = rom.canSkip
  <2>1. ~H!DeviceAccepts /\ ~RomHandles
    <3>1. ~H!DeviceAccepts
      BY <1>2 DEF H!DeviceAccepts, H!ReportArrives
    <3>2. handled' = handled /\ handled \in Nat
      BY TransportFrame DEF Typed, WireTypes
    <3>3. QED
      BY <3>1, <3>2 DEF RomHandles
  <2>2. QED
    BY <2>1, TrackQuiet
<1>6. PICK v : v = Last(R)
  OBVIOUS
<1>7. PICK q : q = Q[Len(delivered)]
  OBVIOUS
<1>8. ~Started /\ phase = "cmd" /\ Own(v) = <<>>
  BY <1>2 DEF Started, Sent, Own, Owes, Resumed
<1>9. Stale(st) /\ d = st /\ Due(q, taken, d) /\ Mode(R, Q, d) /\ Memory(v, st)
  <2>1. Stale(st) /\ d = Cat(st, <<>>)
    BY <1>6, <1>8 DEF Course, Answers
  <2>2. Cat(st, <<>>) = st
    BY <2>1, CatEmpty DEF Stale
  <2>3. QED
    BY <1>3, <1>6, <1>7, <2>1, <2>2 DEF Course
<1>10. q \in Seq(Cells) /\ Len(q) \in Nat /\ Len(q) >= sent
  <2>1. handled \in handled..Len(delivered) /\ Len(delivered) \in handled..Len(delivered)
    BY LastType DEF Typed
  <2>2. Q[handled] = Cat(heard, rom.answers) /\ Starts(Q[handled], q) /\ q \in Seq(Cells)
    BY <1>7, <2>1 DEF Track
  <2>3. heard \in Seq(Cells) /\ Len(heard) = sent /\ rom.answers \in Seq(Cells)
    BY DEF Typed, WireTypes, RomTypes
  <2>4. Len(Q[handled]) = sent + Len(rom.answers) /\ Len(rom.answers) \in Nat
    BY <2>2, <2>3, CatType
  <2>5. Len(q) \in Nat /\ Len(Q[handled]) <= Len(q)
    BY <2>2 DEF Starts
  <2>6. QED
    BY <1>2, <2>4, <2>5, <2>2
<1>11. d # <<>>
  <2>1. Len(q) = taken + Len(d) /\ Len(d) \in Nat
    BY <1>9 DEF Due
  <2>2. Len(d) # 0
    BY <1>2, <1>10, <2>1
  <2>3. d = <<>> => Len(d) = 0
    OBVIOUS
  <2>4. QED
    BY <2>2, <2>3
<1>12. PICK e : e = Tail(d)
  OBVIOUS
<1>13. /\ Due(q, taken + 1, e) /\ e \in Seq(Cells) /\ Len(d) = Len(e) + 1
       /\ e # <<>> => e[Len(e)] = d[Len(d)]
  BY <1>2, <1>9, <1>10, <1>11, <1>12, DueNext
<1>14. Stale(e)
  <2>1. Len(e) <= 2
    <3>1. Len(e) \in Nat /\ Len(e) + 1 <= 2
      BY <1>9, <1>13 DEF Stale
    <3>2. QED
      BY <3>1
  <2>2. QED
    BY <1>9, <1>11, <1>13, <2>1 DEF Stale
<1>15. Own(v)' = <<>>
  BY <1>4, <1>8 DEF Own, Owes
<1>16. e = Cat(e, <<>>)
  BY <1>13, CatEmpty
<1>17. UNCHANGED <<HasData, RequiredCmdAck, CanBeStale, Jumps>>
  BY <1>4 DEF HasData, RequiredCmdAck, CanBeStale, Jumps, Rom!Cell
<1>18. Answers(v, e, e)'
  <2>1. Stale(e)'
    BY <1>14, <1>17 DEF Stale, Rom!HAB, Rom!Cell
  <2>2. phase' = "cmd"
    BY <1>4, <1>8
  <2>3. QED
    BY <1>15, <1>16, <2>1, <2>2 DEF Answers
<1>19. Mode(R, Q, e)'
  <2>1. v.mode = "listening" /\ ~Jumps
    BY <1>2, <1>6, <1>9, <1>11 DEF Mode, Jumps, Resumed
  <2>2. Last(R)'.mode = "listening" /\ ~Jumps'
    BY <1>5, <1>6, <1>17, <2>1
  <2>3. stage' \notin {"start", "jump", "jumpHdr"}
    BY <2>2 DEF Jumps
  <2>4. QED
    BY <2>2, <2>3 DEF Mode
<1>20. Memory(v, e)'
  <2>1. stage # "writeHdr"
    BY <1>2 DEF Resumed
  <2>2. Brought(v.mem)' = Brought(v.mem)
    BY <1>4 DEF Brought, Wanted, Target, Rom!File
  <2>3. \A m : (Whole(m)' <=> Whole(m)) /\ (Plain(m)' <=> Plain(m)) /\ (Ready(m)' <=> Ready(m))
    BY <1>4, SameMemory
  <2>4. UNCHANGED <<Header, IvtCell, FlashHdrAddr(img)>>
    BY <1>4, SameMemory
  <2>5. Sync(v)' = Sync(v)
    BY <1>4
  <2>6. QED
    BY <1>4, <1>9, <1>17, <2>1, <2>2, <2>3, <2>4, <2>5 DEF Memory
<1>21. Due(Q[Len(delivered)], Seen, e)'
  BY <1>3, <1>4, <1>7, <1>13 DEF Due
<1>22. QED
  BY <1>5, <1>6, <1>18, <1>19, <1>20, <1>21 DEF Course

\* Of the host's own steps and the others', all but these leave the course as it is.
LEMMA CourseQuiet ==
  ASSUME Typed, Calls, Lone, Running, NEW R, NEW Q, Chain(R), Track(R, Q),
         Say \/ Listen \/ (Transport /\ ~H!DeviceAccepts) \/ RomHandles \/ RomAnswers
         \/ Finished \/ UNCHANGED vars,
         NEW d, NEW st, Course(R, Q, d, st)
  PROVE  \E e, t : Course(R, Q, e, t)'
<1>1. /\ UNCHANGED <<img, stage, phase, seg, pos, at, buf, FlashHdr, delivered, Job, Got, Started>>
      /\ \A v : Sync(v)' = Sync(v)
      /\ ~(Say \/ Listen) => UNCHANGED <<writeBuf, said, ops, asked>>
  BY QuietCall
<1>2. /\ Last(R)' = Last(R) /\ rom'.canSkip = rom.canSkip
      /\ handled' = handled \/ (handled < Len(delivered) /\ handled' = handled + 1)
  BY TrackQuiet
<1>3. handled \in Nat /\ Len(delivered) \in Nat
  BY LastType
<1>4. CASE Transport /\ H!ReportArrives /\ ~asked
  <2>1. \E e : Course(R, Q, e, e)'
    BY <1>4, ArrivesBetween
  <2>2. QED
    BY <2>1
<1>5. CASE ~(Transport /\ H!ReportArrives /\ ~asked)
  <2>1. Seen' = Seen
    <3>1. CASE Say
      <4>1. ~asked /\ ~Reading /\ ~Reading' /\ taken' = taken
        <5>1. phase \in {"cmd", "data"} /\ phase' = phase /\ ~asked /\ taken' = taken
          BY <3>1, SayFrame DEF Typed
        <5>2. QED
          BY <5>1 DEF Reading
      <4>2. QED
        BY <4>1 DEF Seen
    <3>2. CASE Listen
      <4>1. ~asked /\ taken' = taken
        BY <3>2, SayFrame DEF Typed
      <4>2. readBuf' = 0
        BY <3>2, CallIsCall DEF Listen, H!StartRead, H!ReadRefused, H!PrepareRead
      <4>3. QED
        BY <4>1, <4>2 DEF Seen
    <3>3. CASE Transport /\ ~H!DeviceAccepts
      <4>1. CASE H!ReportArrives
        BY <1>5, <3>3, <4>1, ArrivesInCall
      <4>2. CASE ~H!ReportArrives
        <5>1. H!HostStep \/ H!RequestFails
          BY <3>3, <4>2, HostIsHost, DriverIsDriver DEF Transport
        <5>2. UNCHANGED <<readBuf, taken, asked, phase>>
          <6>1. UNCHANGED <<asked, phase>>
            BY <3>3, QuietSteps
          <6>2. UNCHANGED <<readBuf, taken>>
            BY <5>1 DEF H!HostStep, H!WriteReturns, H!ReadReturns, H!ReadTimesOut, H!CancelRead,
                  H!RequestFails, H!device
          <6>3. QED
            BY <6>1, <6>2
        <5>3. QED
          BY <5>2 DEF Seen, Reading
      <4>3. QED
        BY <4>1, <4>2
    <3>4. CASE RomHandles \/ RomAnswers \/ Finished \/ UNCHANGED vars
      <4>1. UNCHANGED <<readBuf, taken, asked, phase>>
        BY <3>4, RomFrame, QuietSteps
      <4>2. QED
        BY <4>1 DEF Seen, Reading
    <3>5. QED
      BY <3>1, <3>2, <3>3, <3>4
  <2>2. Course(R, Q, d, st)'
    BY <1>1, <1>2, <1>3, <2>1, CourseFrame
  <2>3. QED
    BY <2>2
<1>6. QED
  BY <1>4, <1>5


\* A plugin returns only to a ROM that has handled all it was given.
LEMMA PluginLast ==
  ASSUME Typed, NEW R, Chain(R), Safe(R), rom.mode = "plugin"
  PROVE  handled = Len(delivered)
<1>1. handled \in Nat /\ Len(delivered) \in Nat /\ handled <= Len(delivered) /\ R[handled] = View
  BY LastType
<1>2. View.mode = "plugin"
  BY DEF View
<1>3. handled \in handled..(Len(delivered) - 1) => FALSE
  BY <1>1, <1>2 DEF Safe
<1>4. QED
  BY <1>1, <1>3

\* What holds for every later view holds when the plugin is back.
LEMMA PluginSafe ==
  ASSUME Typed, PluginReturns, NEW R, Chain(R), Safe(R), handled = Len(delivered), NEW S,
         UNCHANGED <<img, handled, delivered>>, S[handled] = View', View'.mode = "listening",
         View'.can = View.can, rom'.canSkip = rom.canSkip
  PROVE  Safe(S)'
<1>1. /\ handled \in Nat /\ R[handled] = View
  BY LastType
<1>2. /\ UNCHANGED <<stage, Running>> /\ (Pending' => Pending) /\ UNCHANGED <<writeBuf, said>>
  <2>1. ~(Say \/ Listen)
    <3>1. asked' = asked
      BY QuietSteps
    <3>2. Say \/ Listen => asked' = TRUE /\ ~asked
      BY SayFrame DEF Typed
    <3>3. QED
      BY <3>1, <3>2
  <2>2. QED
    BY <2>1, QuietCall
<1>3. \A k \in handled'..Len(delivered)' : k = handled
  BY <1>1
<1>4. \A k \in handled'..(Len(delivered)' - 1) : FALSE
  BY <1>1
<1>5. View.can = rom.canSkip
  BY DEF View
<1>6. rom.mode # "image"
  BY DEF PluginReturns, Rom!PluginReturns
<1>7. ~(stage = "done" /\ img.task = "RUN")
  BY <1>6 DEF Safe
<1>8. \A k \in handled'..Len(delivered)' : S[k].mode = "listening" /\ S[k].can = rom'.canSkip
  BY <1>3, <1>5
<1>9. ~Running' /\ Pending' => said'[writeBuf'].cmd \in {"WR_FILE", "DCD_WRITE", "RD_MEM"}
  BY <1>2 DEF Safe
<1>10. S[Len(delivered)'].mode = "listening"
  OBVIOUS
<1>11. QED
  BY <1>2, <1>4, <1>7, <1>8, <1>9, <1>10 DEF Safe

\* Its report is the acknowledgement of the jump, or is left over from it.
LEMMA PluginCourse ==
  ASSUME Typed, Running, PluginReturns, NEW R, NEW Q, Chain(R), Track(R, Q), Safe(R),
         NEW d, NEW st, Course(R, Q, d, st)
  PROVE  \E S, P : Chain(S)' /\ Track(S, P)' /\ Safe(S)' /\ \E e, t : Course(S, P, e, t)'
<1>1. handled = Len(delivered)
  BY PluginLast DEF PluginReturns, Rom!PluginReturns
<1>2. PICK S, P :
           /\ Chain(S)' /\ Track(S, P)' /\ UNCHANGED <<img, mem, heard, handled, delivered, said>>
           /\ Last(S)' = View' /\ View'.mode = "listening" /\ View'.mem = View.mem
           /\ View'.can = View.can /\ rom'.canSkip = rom.canSkip
           /\ S[handled] = View' /\ View.mode = "plugin" /\ Last(R) = View
           /\ P[Len(delivered)] = Cat(Q[Len(delivered)], One(OkAck))
  BY <1>1, TrackPlugin
<1>3. Safe(S)'
  BY <1>1, <1>2, PluginSafe
<1>4. /\ UNCHANGED <<img, stage, phase, seg, pos, at, buf, FlashHdr, delivered, Job, Got, Started>>
      /\ \A v : Sync(v)' = Sync(v)
  BY QuietCall
<1>5. UNCHANGED <<HasData, RequiredCmdAck, CanBeStale, Jumps>>
  BY <1>4 DEF HasData, RequiredCmdAck, CanBeStale, Jumps, Rom!Cell
<1>6. Seen' = Seen /\ Seen \in Nat
  <2>1. UNCHANGED <<asked, readBuf, taken>>
    BY QuietSteps, RomFrame
  <2>2. QED
    BY <1>4, <2>1, SeenType DEF Seen, Reading
<1>7. PICK v : v = Last(R)
  OBVIOUS
<1>8. PICK w : w = View'
  OBVIOUS
<1>9. v.mode = "plugin" /\ w.mode = "listening" /\ w.mem = v.mem
  BY <1>2, <1>7, <1>8
<1>10. PICK q : q = Q[Len(delivered)]
  OBVIOUS
<1>11. PICK u : u = One(OkAck)
  OBVIOUS
<1>12. u \in Seq(Cells) /\ Len(u) = 1 /\ u[1] = OkAck
  BY <1>11, Ones, AckTypes
<1>13. Due(q, Seen, d) /\ Answers(v, d, st) /\ Mode(R, Q, d) /\ Memory(v, st)
  BY <1>7, <1>10 DEF Course
<1>14. q \in Seq(Cells)
  <2>1. Len(delivered) \in handled..Len(delivered)
    BY <1>1, LastType
  <2>2. QED
    BY <1>10, <2>1 DEF Track
<1>15. PICK e : e = Cat(d, u)
  OBVIOUS
<1>16. Due(Cat(q, u), Seen, e) /\ d \in Seq(Cells)
  <2>1. PICK s \in Nat : s = Seen
    BY <1>6
  <2>2. Due(q, s, d)
    BY <1>13, <2>1
  <2>3. Due(Cat(q, u), s, Cat(d, u))
    BY <1>12, <1>14, <2>2, DueMore
  <2>4. d \in Seq(Cells)
    BY <2>2 DEF Due
  <2>5. QED
    BY <1>15, <2>1, <2>3, <2>4
<1>17. Due(P[Len(delivered)], Seen, e)'
  BY <1>2, <1>6, <1>10, <1>11, <1>16 DEF Due
<1>18. \/ stage = "start" /\ Started
       \/ stage = "load" /\ ~Started /\ d = <<>>
  BY <1>7, <1>9, <1>13 DEF Mode, Jumps
<1>19. ASSUME NEW t, stage # "writeHdr" PROVE Memory(w, t)'
  <2>1. Brought(v.mem)' = Brought(v.mem)
    BY <1>4 DEF Brought, Wanted, Target, Rom!File
  <2>2. \A m : (Whole(m)' <=> Whole(m)) /\ (Plain(m)' <=> Plain(m)) /\ (Ready(m)' <=> Ready(m))
    BY <1>4, SameMemory
  <2>3. UNCHANGED <<Header, IvtCell, FlashHdrAddr(img)>>
    BY <1>4, SameMemory
  <2>4. HasData => Sync(w)'
    <3>1. HasData => ~Started
      BY <1>18, Jobs DEF Typed
    <3>2. QED
      BY <1>4, <3>1 DEF Sync
  <2>5. Brought(w.mem)' = Brought(v.mem)
    BY <1>9, <2>1
  <2>6. QED
    BY <1>4, <1>5, <1>9, <1>13, <1>19, <2>2, <2>3, <2>4, <2>5 DEF Memory
<1>20. ASSUME NEW x PROVE Mode(S, P, x)'
  <2>1. Last(S)'.mode = "listening"
    BY <1>2
  <2>2. \A k \in handled'..(Len(delivered)' - 1) : FALSE
    BY <1>1, <1>2, LastType
  <2>3. handled' = Len(delivered)'
    BY <1>1, <1>2
  <2>4. ~(stage' \in {"jump", "jumpHdr"})
    BY <1>4, <1>18
  <2>5. QED
    BY <2>1, <2>2, <2>3, <2>4 DEF Mode
<1>21. CASE stage = "start" /\ Started
  <2>1. ~HasData /\ ~CanBeStale /\ Jumps
    BY <1>21, Jobs DEF Typed, CanBeStale, Jumps
  <2>2. Rest(v) = <<>> /\ Rest(w)' = u
    <3>1. Rest(v) = <<>>
      BY <1>9, <1>21, <2>1 DEF Rest
    <3>2. Rest(w)' = One(OkAck)'
      BY <1>4, <1>5, <1>9, <1>21, <2>1 DEF Rest
    <3>3. One(OkAck)' = One(OkAck)
      BY DEF OkAck, Rom!Cell
    <3>4. QED
      BY <1>11, <3>1, <3>2, <3>3
  <2>3. Answers(w, e, <<>>)'
    <3>1. CASE phase = "ack"
      <4>1. d = <<>>
        BY <1>13, <2>1, <2>2, <3>1 DEF Answers
      <4>2. e = u
        BY <1>12, <1>15, <4>1, CatEmpty
      <4>3. QED
        BY <1>4, <2>2, <3>1, <4>2 DEF Answers
    <3>2. CASE phase \notin {"ack", "read"}
      <4>1. Stale(st) /\ d = Cat(st, Own(v))
        BY <1>13, <3>2 DEF Answers
      <4>2. st = <<>>
        BY <2>1, <4>1 DEF Stale
      <4>3. PICK h : h = One(Rom!HAB)
        OBVIOUS
      <4>4. h \in Seq(Cells)
        BY <4>3, Ones, AckTypes
      <4>5. Own(v) = h
        BY <1>21, <2>1, <2>2, <4>3, <4>4, CatEmpty DEF Own, Owes
      <4>6. d = h
        BY <4>1, <4>2, <4>4, <4>5, CatEmpty
      <4>7. Own(w)' = Cat(h, u)
        <5>1. Owes'
          BY <1>4, <1>5, <1>21, <2>1 DEF Owes
        <5>2. One(Rom!HAB)' = h
          BY <4>3 DEF Rom!HAB, Rom!Cell
        <5>3. QED
          BY <2>2, <5>1, <5>2 DEF Own
      <4>8. e = Cat(h, u) /\ e \in Seq(Cells)
        BY <1>12, <1>15, <4>4, <4>6, CatType
      <4>9. e = Cat(<<>>, Own(w)')
        BY <4>7, <4>8, CatEmpty
      <4>10. Stale(<<>>)'
        BY EmptySeq DEF Stale
      <4>11. QED
        BY <1>4, <3>2, <4>9, <4>10 DEF Answers
    <3>3. phase # "read"
      <4>1. Job.cmd = "JUMP"
        BY <2>1, Jobs DEF Typed
      <4>2. QED
        BY <4>1 DEF Typed, Where
    <3>4. QED
      BY <3>1, <3>2, <3>3
  <2>4. Course(S, P, e, <<>>)'
    BY <1>2, <1>8, <1>17, <1>19, <1>20, <1>21, <2>3 DEF Course
  <2>5. QED
    BY <1>2, <1>3, <2>4
<1>22. CASE stage = "load" /\ ~Started /\ d = <<>>
  <2>1. e = u
    BY <1>12, <1>15, <1>22, CatEmpty
  <2>2. ~Started' /\ phase' = "cmd" /\ stage' = "load"
    BY <1>4, <1>22 DEF Started
  <2>3. Own(w)' = <<>>
    BY <2>2 DEF Own, Owes
  <2>4. Stale(e)'
    <3>1. HasData => RequiredCmdAck = Rom!Cell("ROM_STATUS_ACK")
      BY <1>22, Jobs DEF Typed
    <3>2. OkAck # Rom!HAB /\ OkAck # Rom!Cell("ROM_STATUS_ACK")
      BY AckTypes
    <3>3. e \in Seq(Cells) /\ Len(e) = 1 /\ e[Len(e)] = OkAck
      BY <1>12, <2>1
    <3>4. CanBeStale /\ Stale(e)
      BY <1>22, <3>1, <3>2, <3>3 DEF CanBeStale, Stale
    <3>5. QED
      BY <1>5, <3>4 DEF Stale, Rom!HAB, Rom!Cell
  <2>5. e = Cat(e, Own(w)')
    BY <1>12, <2>1, <2>3, CatEmpty
  <2>6. Answers(w, e, e)'
    BY <2>2, <2>4, <2>5 DEF Answers
  <2>7. Course(S, P, e, e)'
    BY <1>2, <1>8, <1>17, <1>19, <1>20, <1>22, <2>6 DEF Course
  <2>8. QED
    BY <1>2, <1>3, <2>7
<1>23. QED
  BY <1>18, <1>21, <1>22


-----------------------------------------------------------------------------
(* Headers, and where the image is entered.                                *)

\* The only IVT header there is, is that of AddIvtHdr.
Fair == {c \in Cells : c.what = "header" => c = Header}

\* Wherever the file, the ROM and the host keep cells.
Heads ==
  /\ mem \in [Addresses -> Fair] /\ heard \in Seq(Fair) /\ rom.answers \in Seq(Fair)
  /\ buf \in Seq(Fair) /\ FlashHdr \in Seq(Fair)
  /\ \A k \in 1..Len(said) : said[k].cells \in Seq(Fair)

\* The ROM enters the image where AddIvtHdr, or the IVT of the file, says.
Entered == rom.mode = "image" => rom.entry = ExecutingAddr(img)

\* What is known of these cells, and of sequences of them.
LEMMA FairCells ==
  ASSUME HostTypes
  PROVE  /\ \A w \in Whats \ {"header"} : Rom!Cell(w) \in Fair
         /\ \A k \in Int : Rom!File(k) \in Fair
         /\ Header \in Fair /\ Fair \subseteq Cells
<1>1. ExecutingAddr(img) \in Int
  BY ImageType DEF HostTypes, ExecutingAddr
<1>2. Header \in Cells
  BY <1>1 DEF Header, Rom!IvtHeader, Cells, Whats
<1>3. QED
  BY <1>2 DEF Fair, Cells, Whats, Rom!Cell, Rom!File

LEMMA FairSeq ==
  ASSUME NEW s \in Seq(Fair), NEW t \in Seq(Fair), NEW c \in Fair
  PROVE  Cat(s, t) \in Seq(Fair) /\ One(c) \in Seq(Fair) /\ Append(s, c) \in Seq(Fair)
<1>1. Cat(s, t) \in Seq(Fair)
  BY ConcatProperties DEF Cat
<1>2. QED
  BY <1>1 DEF One

LEMMA FairSame == img' = img => Fair' = Fair
BY DEF Fair, Header, Rom!IvtHeader, ExecutingAddr

\* What the host sends, it has from the file, or is that header.
LEMMA FairData ==
  ASSUME Typed, Heads, Running, phase = "data"
  PROVE  SendData.cells \in Seq(Fair)
<1>1. DataCells \in 1..(Job.count - at) /\ Job.count \in Nat /\ at \in Nat
      /\ SendData.cells = [i \in 1..DataCells |-> Content(at + i - 1)]
  BY SendDataType, JobType DEF Typed, HostTypes, Reports
<1>2. ASSUME NEW i \in 1..DataCells PROVE Content(at + i - 1) \in Fair
  <2>1. PICK k \in Nat : k = at + i - 1
    BY <1>1
  <2>2. CASE stage = "load"
    <3>1. Segment.from \in Nat /\ pos \in Nat
      BY SegmentType DEF Segments, Typed, HostTypes
    <3>2. Segment.from + pos + k \in Int
      BY <2>1, <3>1
    <3>3. QED
      BY <2>1, <2>2, <3>2, FairCells DEF Content, Typed
  <2>3. CASE stage = "plugin"
    <3>1. img.ivt \in Nat
      BY ImageType DEF Typed, HostTypes
    <3>2. img.ivt + k \in Int
      BY <2>1, <3>1
    <3>3. QED
      BY <2>1, <2>3, <3>2, FairCells DEF Content, Typed
  <2>4. CASE stage = "writeHdr"
    <3>1. Job.count = HeaderCells /\ Len(FlashHdr) = HeaderCells
      BY <2>4, Jobs DEF Typed, Where, HdrStage, Job, Rom!Command
    <3>2. k + 1 \in 1..Len(FlashHdr)
      BY <1>1, <2>1, <3>1
    <3>3. FlashHdr[k + 1] \in Fair
      BY <3>2 DEF Heads
    <3>4. QED
      BY <2>1, <2>4, <3>3 DEF Content
  <2>5. CASE stage \notin {"load", "plugin", "writeHdr"}
    BY <2>5, FairCells DEF Content, Typed, Whats
  <2>6. QED
    BY <2>2, <2>3, <2>4, <2>5
<1>3. QED
  BY <1>1, <1>2

\* What the ROM answers and stores, it has from its memory and from the host.
LEMMA FairNew ==
  ASSUME Typed, mem \in [Addresses -> Fair], NEW r \in Reports
  PROVE  New(View, r) \in Seq(Fair)
<1>1. /\ Rom!HAB \in Fair /\ Rom!ErrorAck \in Fair /\ SkipAck(View.can) \in Fair /\ DataAck(View, r) \in Fair
  BY FairCells DEF Typed, Whats, Rom!HAB, Rom!ErrorAck, SkipAck, DataAck, OkAck
<1>2. <<>> \in Seq(Fair)
  OBVIOUS
<1>3. One(Rom!HAB) \in Seq(Fair) /\ \A c \in Fair : Cat(One(Rom!HAB), One(c)) \in Seq(Fair)
  BY <1>1, <1>2, FairSeq
<1>4. CASE r.cmd = "RD_MEM"
  <2>1. r.count \in Nat /\ r.addr \in Int
    BY DEF Reports
  <2>2. ASSUME NEW i \in 1..r.count PROVE mem[r.addr + i - 1] \in Fair
    <3>1. i - 1 \in 0..(r.count - 1) /\ r.addr + (i - 1) = r.addr + i - 1
      BY <2>1
    <3>2. r.addr + (i - 1) \in Addresses
      BY <1>4, <3>1 DEF Reports
    <3>3. QED
      BY <3>1, <3>2
  <2>3. CellsAt(View, r) \in Seq(Fair)
    BY <2>1, <2>2 DEF CellsAt, View
  <2>4. Cat(One(Rom!HAB), CellsAt(View, r)) \in Seq(Fair)
    BY <1>1, <1>3, <2>3, FairSeq
  <2>5. QED
    BY <1>2, <1>4, <2>4 DEF New
<1>5. CASE r.cmd # "RD_MEM"
  <2>1. \/ New(View, r) = <<>> \/ New(View, r) = One(Rom!HAB)
        \/ \E c \in Fair : New(View, r) = Cat(One(Rom!HAB), One(c))
    BY <1>1, <1>5 DEF New
  <2>2. QED
    BY <1>2, <1>3, <2>1
<1>6. QED
  BY <1>4, <1>5

LEMMA FairHandle ==
  ASSUME Typed, Heads, NEW r \in Reports, r.cells \in Seq(Fair), Rom!Handle(r)
  PROVE  /\ mem' \in [Addresses -> Fair] /\ rom'.answers \in Seq(Fair)
         /\ Entered'
<1>1. rom \in RomTypes /\ rom.mode = "listening" /\ mem \in [Addresses -> Fair] /\ img' = img
      /\ rom.answers \in Seq(Fair)
  BY DEF Typed, WireTypes, Rom!Handle, Heads
<1>2. rom'.answers \in Seq(Fair)
  <2>1. rom'.answers = Cat(rom.answers, New(View, r))
    BY HandleNew
  <2>2. New(View, r) \in Seq(Fair)
    BY <1>1, FairNew
  <2>3. Header \in Fair
    BY FairCells DEF Typed
  <2>4. QED
    BY <1>1, <2>1, <2>2, <2>3, FairSeq
<1>3. mem' \in [Addresses -> Fair]
  <2>1. CASE Rom!Receive(r)
    <3>1. r.count \in Nat /\ Len(r.cells) = r.count /\ rom.cur.addr \in Int /\ rom.got \in Nat
      BY <1>1, <2>1 DEF Rom!Receive, Reports, RomTypes
    <3>2. ASSUME NEW a \in Addresses, a - (rom.cur.addr + rom.got) \in 0..(r.count - 1)
          PROVE  r.cells[a - (rom.cur.addr + rom.got) + 1] \in Fair
      <4>1. PICK k \in 0..(r.count - 1) : k = a - (rom.cur.addr + rom.got)
        BY <3>2
      <4>2. k + 1 \in 1..Len(r.cells)
        BY <3>1
      <4>3. r.cells[k + 1] \in Fair
        BY <4>2
      <4>4. QED
        BY <4>1, <4>3
    <3>3. QED
      BY <1>1, <2>1, <3>2 DEF Rom!Receive
  <2>2. CASE ~Rom!Receive(r)
    <3>1. mem' = mem
      BY <2>2 DEF Rom!Handle, Rom!Transfer, Rom!ReadMemory, Rom!SkipDcd, Rom!JumpToPlugin,
            Rom!JumpToImage, Rom!JumpRefused
    <3>2. QED
      BY <1>1, <3>1
  <2>3. QED
    BY <2>1, <2>2
<1>4. Entered'
  <2>1. CASE Rom!JumpToImage(r)
    <3>1. rom'.entry = Rom!EntryOf(r.addr) /\ r.cmd = "JUMP" /\ r.addr \in Addresses
      BY <1>1, <2>1 DEF Rom!JumpToImage, RomTypes, Reports
    <3>2. mem[r.addr] \in Fair
      BY <1>1, <3>1
    <3>3. CASE mem[r.addr].what = "header"
      <4>1. mem[r.addr] = Header
        BY <3>2, <3>3 DEF Fair
      <4>2. Header.at = ExecutingAddr(img)
        BY DEF Header, Rom!IvtHeader
      <4>3. QED
        BY <1>1, <3>1, <3>3, <4>1, <4>2 DEF Entered, Rom!EntryOf, ExecutingAddr
    <3>4. CASE mem[r.addr].what # "header"
      <4>1. Rom!ImageAt(r.addr)
        BY <2>1, <3>4 DEF Rom!JumpToImage
      <4>2. img.second # "uimage"
        <5>1. ASSUME img.second = "uimage" PROVE FALSE
          <6>1. img.plugin > 0
            BY <5>1, ImageType DEF LaidOut, Typed, HostTypes
          <6>2. QED
            BY <4>1, <5>1, <6>1 DEF Rom!ImageAt, Rom!PluginAt, Rom!MainIvt
        <5>2. QED
          BY <5>1
      <4>3. img.second \in {"none", "ivt"}
        BY <4>2, ImageType DEF Typed, HostTypes
      <4>4. Rom!EntryOf(r.addr) = ExecutingAddr(img)
        BY <3>4, <4>3 DEF Rom!EntryOf, ExecutingAddr
      <4>5. QED
        BY <1>1, <3>1, <4>4 DEF Entered, ExecutingAddr
    <3>5. QED
      BY <3>3, <3>4
  <2>2. CASE ~Rom!JumpToImage(r)
    <3>1. rom'.mode # "image"
      BY <1>1, <2>2 DEF Rom!Handle, Rom!Transfer, Rom!ReadMemory, Rom!SkipDcd, Rom!Receive,
            Rom!JumpToPlugin, Rom!JumpRefused, RomTypes
    <3>2. QED
      BY <3>1 DEF Entered
  <2>3. QED
    BY <2>1, <2>2
<1>5. QED
  BY <1>2, <1>3, <1>4


\* No step makes another header, or starts the image elsewhere.
LEMMA HeadsStep ==
  ASSUME Typed, Typed', Heads, Entered, [Next]_vars
  PROVE  Heads' /\ Entered'
<1>1. CASE Say \/ Listen
  <2>1. UNCHANGED <<img, rom, mem, buf, FlashHdr, heard>>
        /\ ops' = ops + 1 /\ \A k \in 1..ops : said'[k] = said[k]
    BY <1>1, SayFrame DEF Typed
  <2>2. said'[ops'].cells \in Seq(Fair)
    <3>1. CASE Say
      <4>1. said'[ops'] = (IF phase = "cmd" THEN Job ELSE SendData) /\ Running
            /\ phase \in {"cmd", "data"}
        BY <3>1, SayFrame DEF Typed
      <4>2. CASE phase = "cmd"
        <5>1. Job.cells = <<>>
          BY <4>1 DEF Job, Rom!Command, Typed, HostTypes, Stages, Running
        <5>2. <<>> \in Seq(Fair)
          OBVIOUS
        <5>3. QED
          BY <4>1, <4>2, <5>1, <5>2
      <4>3. CASE phase = "data"
        BY <4>1, <4>3, FairData
      <4>4. QED
        BY <4>1, <4>2, <4>3
    <3>2. CASE Listen
      <4>1. said'[ops'] = Rom!Nothing
        BY <3>2, SayFrame DEF Typed
      <4>2. QED
        BY <4>1 DEF Rom!Nothing, Rom!Command
    <3>3. QED
      BY <1>1, <3>1, <3>2
  <2>3. Len(said) = ops /\ Len(said)' = ops' /\ ops \in Nat
    BY DEF Typed, WireTypes, Carried, H!TypeOK
  <2>4. \A k \in 1..Len(said)' : said'[k].cells \in Seq(Fair)
    <3> SUFFICES ASSUME NEW k \in 1..Len(said)' PROVE said'[k].cells \in Seq(Fair)
      OBVIOUS
    <3>1. \A j \in 1..Len(said) : said[j].cells \in Seq(Fair)
      BY DEF Heads
    <3>2. k = ops' \/ k \in 1..Len(said)
      BY <2>1, <2>3
    <3>3. CASE k = ops'
      BY <2>2, <3>3
    <3>4. CASE k \in 1..Len(said)
      <4>1. said'[k] = said[k]
        BY <2>1, <2>3, <3>4
      <4>2. QED
        BY <3>1, <3>4, <4>1
    <3>5. QED
      BY <3>2, <3>3, <3>4
  <2>5. QED
    BY <2>1, <2>4, FairSame DEF Heads, Entered, ExecutingAddr
<1>2. CASE JudgeStep
  <2>1. UNCHANGED <<img, rom, mem, said, heard>> /\ Running
    BY <1>2, JudgeSteps DEF JudgeStep, Answered
  <2>2. buf' \in Seq(Fair)
    <3>1. Report \in Fair
      <4>1. CASE readBuf = 0
        BY <4>1, FairCells DEF Report, Typed, Whats
      <4>2. CASE readBuf # 0
        <5>1. readBuf \in Nat /\ taken \in Nat /\ sent \in Nat
          BY DEF Typed, Carried, H!TypeOK
        <5>2. readBuf \in 1..Len(heard)
          BY <4>2, <5>1 DEF Typed, Carried, H!Ids, WireTypes
        <5>3. heard[readBuf] \in Fair
          BY <5>2 DEF Heads
        <5>4. QED
          BY <4>2, <5>3 DEF Report
      <4>3. QED
        BY <4>1, <4>2
    <3>2. buf' = buf \/ buf' = <<>> \/ buf' = Append(buf, Report)
      BY <1>2 DEF JudgeStep, CmdSent, DataSent, GetHABType, GetDevAck, ReadData, ReportFails,
           HABUnknown, AckRefused, Failed
    <3>3. buf \in Seq(Fair) /\ <<>> \in Seq(Fair)
      BY DEF Heads
    <3>4. Append(buf, Report) \in Seq(Fair)
      BY <3>1, <3>3, FairSeq
    <3>5. QED
      BY <3>2, <3>3, <3>4
  <2>3. FlashHdr' \in Seq(Fair)
    <3>1. FlashHdr' = FlashHdr \/ FlashHdr' = [buf' EXCEPT ![1] = Header]
      BY <1>2 DEF JudgeStep, CmdSent, DataSent, GetHABType, GetDevAck, ReadData, ReportFails,
           HABUnknown, AckRefused, Failed, GoOn, CallSucceeds, CallFails, Header
    <3>2. Header \in Fair
      BY FairCells DEF Typed
    <3>3. [buf' EXCEPT ![1] = Header] \in Seq(Fair)
      <4>1. PICK b \in Seq(Fair) : b = buf'
        BY <2>2
      <4>2. PICK n \in Nat : n = Len(b)
        OBVIOUS
      <4>3. b \in [1..n -> Fair]
        BY <4>1, <4>2
      <4>4. [b EXCEPT ![1] = Header] \in [1..n -> Fair]
        BY <3>2, <4>3
      <4>5. [b EXCEPT ![1] = Header] \in Seq(Fair)
        BY <4>2, <4>4
      <4>6. QED
        BY <4>1, <4>5
    <3>4. QED
      BY <3>1, <3>3 DEF Heads
  <2>4. QED
    BY <2>1, <2>2, <2>3, FairSame DEF Heads, Entered, ExecutingAddr
<1>3. CASE Transport \/ Finished \/ UNCHANGED vars
  <2>1. UNCHANGED <<img, buf, FlashHdr, said>>
    BY <1>3, QuietSteps
  <2>2. UNCHANGED <<rom, mem, heard>>
    BY <1>3, TransportFrame DEF Finished, vars, target, wire
  <2>3. QED
    BY <2>1, <2>2, FairSame DEF Heads, Entered, ExecutingAddr
<1>4. CASE RomHandles
  <2>1. UNCHANGED <<img, buf, FlashHdr, said, heard>>
    BY <1>4, QuietSteps DEF RomHandles
  <2>2. PICK r : r = said[delivered[handled + 1]]
    OBVIOUS
  <2>3. Rom!Handle(r) /\ handled < Len(delivered)
    BY <1>4, <2>2 DEF RomHandles
  <2>4. r \in Reports /\ r.cells \in Seq(Fair)
    <3>1. handled \in Nat /\ Len(delivered) \in Nat /\ Len(said) = ops
          /\ \A k \in 1..Len(delivered) : delivered[k] \in 1..ops
      BY LastType DEF Typed, WireTypes, Carried, H!Ids, H!TypeOK
    <3>2. handled + 1 \in 1..Len(delivered)
      BY <2>3, <3>1
    <3>3. delivered[handled + 1] \in 1..Len(said)
      BY <3>1, <3>2
    <3>4. said \in Seq(Reports)
      BY DEF Typed, WireTypes
    <3>5. said[delivered[handled + 1]] \in Reports
      BY <3>3, <3>4
    <3>6. QED
      BY <2>2, <3>3, <3>5 DEF Heads
  <2>5. mem' \in [Addresses -> Fair] /\ rom'.answers \in Seq(Fair) /\ Entered'
    BY <2>3, <2>4, FairHandle
  <2>6. QED
    BY <2>1, <2>5, FairSame DEF Heads
<1>5. CASE RomAnswers
  <2>1. UNCHANGED <<img, buf, FlashHdr, said>>
    BY <1>5, QuietSteps
  <2>2. mem' = mem /\ heard' = Append(heard, Head(rom.answers)) /\ rom.answers # <<>>
        /\ rom' = [rom EXCEPT !.answers = Tail(rom.answers)]
    BY <1>5 DEF RomAnswers, Rom!SendAnswer
  <2>3. rom.answers \in Seq(Fair) /\ rom \in RomTypes
    BY DEF Heads, Typed, WireTypes
  <2>4. Head(rom.answers) \in Fair /\ Tail(rom.answers) \in Seq(Fair)
    BY <2>2, <2>3
  <2>5. rom'.answers = Tail(rom.answers) /\ rom'.mode = rom.mode /\ rom'.entry = rom.entry
    BY <2>2, <2>3 DEF RomTypes
  <2>6. heard' \in Seq(Fair)
    BY <2>2, <2>4 DEF Heads
  <2>7. QED
    BY <2>1, <2>2, <2>4, <2>5, <2>6, FairSame DEF Heads, Entered, ExecutingAddr
<1>6. CASE PluginReturns
  <2>1. UNCHANGED <<img, buf, FlashHdr, said, heard, mem>>
        /\ rom' = [rom EXCEPT !.mode = "listening", !.plugged = TRUE,
                              !.answers = Cat(rom.answers, One(OkAck))]
    BY <1>6, QuietSteps DEF PluginReturns, Rom!PluginReturns, Rom!Answer, wire, OkAck, Cat, One
  <2>2. rom \in RomTypes /\ rom.answers \in Seq(Fair)
    BY DEF Typed, WireTypes, Heads
  <2>3. OkAck \in Fair /\ <<>> \in Seq(Fair)
    BY FairCells DEF Typed, Whats, OkAck
  <2>4. One(OkAck) \in Seq(Fair)
    BY <2>3, FairSeq
  <2>5. Cat(rom.answers, One(OkAck)) \in Seq(Fair)
    BY <2>2, <2>3, <2>4, FairSeq
  <2>6. rom'.mode = "listening" /\ rom'.answers = Cat(rom.answers, One(OkAck))
    BY <2>1, <2>2 DEF RomTypes
  <2>7. QED
    BY <2>1, <2>5, <2>6, FairSame DEF Heads, Entered
<1>7. QED
  BY <1>1, <1>2, <1>3, <1>4, <1>5, <1>6 DEF Next, HostStep, JudgeStep

LEMMA HeadsInit == Init => Heads /\ Entered
<1> SUFFICES ASSUME Init PROVE Heads /\ Entered
  OBVIOUS
<1>1. HostTypes
  BY TypesInit
<1>2. /\ buf = <<>> /\ FlashHdr = <<>> /\ said = <<>> /\ heard = <<>> /\ rom.mode = "listening"
      /\ rom.answers = <<>> /\ mem = [a \in Addresses |-> Rom!Cell("junk")]
  BY DEF Init, Rom!Init
<1>3. Rom!Cell("junk") \in Fair /\ <<>> \in Seq(Fair) /\ Len(<<>>) = 0
  BY <1>1, FairCells DEF Whats
<1>4. \A k \in 1..Len(said) : FALSE
  BY <1>2, <1>3
<1>5. QED
  BY <1>2, <1>3, <1>4 DEF Heads, Entered

-----------------------------------------------------------------------------
(* The run as a whole.                                                     *)

\* As long as no Read has lingered: what is in flight is the call's own, what is due to the
\* host is what its calls made due, and the ROM is where they have brought it.
RunInv ==
  ~lingered =>
    /\ Running => Lone
    /\ \E R, Q : /\ Chain(R) /\ Track(R, Q) /\ Safe(R)
                 /\ Running => \E d, st : Course(R, Q, d, st)

\* Every step keeps a run on its course.
LEMMA RunStep ==
  ASSUME Typed, Calls, InLen # OutLen, LoadedInPlace(img), RunInv, [Next]_vars, ~lingered'
  PROVE  /\ Running' => Lone'
         /\ \E R, Q : /\ Chain(R)' /\ Track(R, Q)' /\ Safe(R)'
                      /\ Running' => \E d, st : Course(R, Q, d, st)'
<1>1. ~lingered
  <2>1. CASE Say \/ Listen
    BY <2>1 DEF Say, Listen, MayCall
  <2>2. CASE JudgeStep
    BY <2>2, JudgeSteps DEF JudgeStep
  <2>3. CASE ~(Say \/ Listen) /\ ~JudgeStep
    BY <2>3, QuietSteps DEF Next, HostStep, JudgeStep
  <2>4. QED
    BY <2>1, <2>2, <2>3
<1>2. (Running => Lone)
  BY <1>1 DEF RunInv
<1>3. PICK R, Q : /\ Chain(R) /\ Track(R, Q) /\ Safe(R)
                  /\ Running => \E d, st : Course(R, Q, d, st)
  BY <1>1 DEF RunInv
<1>4. Running' => Lone'
  BY <1>2, LoneStep
<1>5. CASE Transport /\ H!DeviceAccepts
  <2>1. Running' = Running
    BY <1>5, QuietSteps DEF Running
  <2>2. CASE Running
    <3>1. PICK d, st : Course(R, Q, d, st)
      BY <1>3, <2>2
    <3>2. PICK S, P : /\ Chain(S)' /\ Track(S, P)' /\ Safe(S)' /\ \E e : Course(S, P, e, st)'
      BY <1>2, <1>3, <1>5, <2>2, <3>1, CourseAccept
    <3>3. QED
      BY <1>4, <3>2
  <2>3. CASE ~Running
    <3>1. PICK S, P : Chain(S)' /\ Track(S, P)' /\ Safe(S)'
      BY <1>3, <1>5, <2>3, EndAccept
    <3>2. QED
      BY <1>4, <2>1, <2>3, <3>1
  <2>4. QED
    BY <2>2, <2>3
<1>6. CASE JudgeStep
  <2>1. Running
    BY <1>6, JudgeSteps DEF JudgeStep, Answered
  <2>2. PICK d, st : Course(R, Q, d, st)
    BY <1>3, <2>1
  <2>3. Chain(R)' /\ Track(R, Q)'
    BY <1>3, <1>6, TrackQuiet
  <2>4. Safe(R)'
    BY <1>2, <1>3, <1>6, <2>1, <2>2, SafeJudge
  <2>5. Running' => \E e, t : Course(R, Q, e, t)'
    BY <1>2, <1>3, <1>6, <2>1, <2>2, CourseJudge
  <2>6. QED
    BY <1>4, <2>3, <2>4, <2>5
<1>7. CASE Say \/ Listen \/ (Transport /\ ~H!DeviceAccepts) \/ RomHandles \/ RomAnswers
           \/ Finished \/ UNCHANGED vars
  <2>1. Chain(R)' /\ Track(R, Q)'
    BY <1>3, <1>7, TrackQuiet
  <2>2. Safe(R)'
    BY <1>3, <1>7, SafeQuiet
  <2>3. Running' = Running
    BY <1>7, QuietCall
  <2>4. Running => \E e, t : Course(R, Q, e, t)'
    BY <1>2, <1>3, <1>7, CourseQuiet
  <2>5. QED
    BY <1>4, <2>1, <2>2, <2>3, <2>4
<1>8. CASE PluginReturns
  <2>1. Running' = Running
    BY <1>8, QuietSteps DEF Running
  <2>2. CASE Running
    <3>1. PICK d, st : Course(R, Q, d, st)
      BY <1>3, <2>2
    <3>2. PICK S, P : Chain(S)' /\ Track(S, P)' /\ Safe(S)' /\ \E e, t : Course(S, P, e, t)'
      BY <1>3, <1>8, <2>2, <3>1, PluginCourse
    <3>3. QED
      BY <1>4, <3>2
  <2>3. CASE ~Running
    <3>1. handled = Len(delivered)
      BY <1>3, <1>8, PluginLast DEF PluginReturns, Rom!PluginReturns
    <3>2. PICK S, P :
           /\ Chain(S)' /\ Track(S, P)' /\ UNCHANGED <<img, mem, heard, handled, delivered, said>>
           /\ Last(S)' = View' /\ View'.mode = "listening" /\ View'.mem = View.mem
           /\ View'.can = View.can /\ rom'.canSkip = rom.canSkip
           /\ View'.cur = View.cur /\ View'.got = View.got
           /\ S[handled] = View' /\ View.mode = "plugin" /\ Last(R) = View
           /\ P[Len(delivered)] = Cat(Q[Len(delivered)], One(OkAck))
      BY <1>3, <1>8, <3>1, TrackPlugin
    <3>3. Safe(S)'
      BY <1>3, <1>8, <3>1, <3>2, PluginSafe
    <3>4. QED
      BY <1>4, <2>1, <2>3, <3>2, <3>3
  <2>4. QED
    BY <2>2, <2>3
<1>9. QED
  BY <1>5, <1>6, <1>7, <1>8 DEF Next, HostStep, JudgeStep


\* A run begins on its course.
LEMMA RunInit == Init => RunInv
<1> SUFFICES ASSUME Init PROVE RunInv
  OBVIOUS
<1>1. /\ img \in Images /\ stage = FirstStage /\ phase = "cmd" /\ asked = FALSE /\ seg = 1
      /\ pos = 0 /\ at = 0 /\ heard = <<>> /\ handled = 0 /\ pc = "idle"
      /\ delivered = <<>> /\ pending = {} /\ apcs = <<>> /\ taken = 0
      /\ ret.op = "write" /\ ret.status = "ERROR"
  BY DEF Init, Hid!Init
<1>2. /\ mem = [a \in Addresses |-> Rom!Cell("junk")] /\ rom.mode = "listening"
      /\ rom.answers = <<>>
  BY DEF Init, Rom!Init
<1>3. Typed
  BY CarriedInit, TypesInit DEF Typed
<1>4. View \in Views
  BY <1>3, ViewType DEF Typed
<1>5. stage \in {"ecc", "dcd", "plugin", "load", "failed"}
  BY <1>1 DEF FirstStage
<1>6. (stage # "failed" => Running) /\ ~Started /\ Got = 0 /\ ~Pending
  BY <1>1, <1>5 DEF Running, Sent, Started, Got, Pending
<1>7. Lone
  BY <1>1 DEF Lone, Ok, FailedWrite
<1>8. PICK R : R = [k \in {0} |-> View]
  OBVIOUS
<1>9. PICK Q : Q = [k \in {0} |-> <<>>]
  OBVIOUS
<1>10. R[0] = View /\ Q[0] = <<>> /\ Len(delivered) = 0 /\ Last(R) = View
  <2>1. R[0] = View /\ Q[0] = <<>>
    BY <1>8, <1>9
  <2>2. Len(delivered) = 0
    BY <1>1
  <2>3. QED
    BY <2>1, <2>2 DEF Last
<1>11. View.mode = "listening" /\ View.can = rom.canSkip /\ View.mem = mem
  BY <1>2 DEF View
<1>12. Chain(R)
  BY <1>1, <1>4, <1>10 DEF Chain
<1>13. <<>> \in Seq(Cells) /\ Len(<<>>) = 0 /\ Cat(<<>>, <<>>) = <<>>
  BY EmptySeq, CatEmpty
<1>14. Track(R, Q)
  <2>1. Q[handled] = Cat(heard, rom.answers)
    BY <1>1, <1>2, <1>10, <1>13
  <2>2. \A k \in handled..Len(delivered) : k = 0
    BY <1>1, <1>10
  <2>3. Starts(<<>>, <<>>)
    BY <1>13 DEF Starts
  <2>4. \A k \in handled..(Len(delivered) - 1) : FALSE
    BY <1>1, <1>10
  <2>5. QED
    BY <1>10, <1>13, <2>1, <2>2, <2>3, <2>4 DEF Track
<1>15. Safe(R)
  <2>1. \A k \in handled..Len(delivered) : k = 0
    BY <1>1, <1>10
  <2>2. \A k \in handled..(Len(delivered) - 1) : FALSE
    BY <1>1, <1>10
  <2>3. stage # "done"
    BY <1>5
  <2>4. QED
    BY <1>6, <1>10, <1>11, <2>1, <2>2, <2>3 DEF Safe
<1>16. ASSUME Running PROVE Course(R, Q, <<>>, <<>>)
  <2> stage # "failed"
    BY <1>16 DEF Running
  <2>1. Seen = 0
    BY <1>1 DEF Seen
  <2>2. Due(Q[Len(delivered)], Seen, <<>>)
    BY <1>10, <1>13, <2>1 DEF Due
  <2>3. Own(View) = <<>>
    BY <1>6 DEF Own, Owes
  <2>4. Stale(<<>>)
    BY <1>13 DEF Stale
  <2>5. Answers(View, <<>>, <<>>)
    BY <1>1, <1>13, <2>3, <2>4 DEF Answers
  <2>6. ~Jumps
    BY <1>5 DEF Jumps
  <2>7. Mode(R, Q, <<>>)
    BY <1>5, <1>6, <1>10, <1>11, <2>6 DEF Mode
  <2>8. Plain(mem)
    BY <1>2 DEF Plain, PlainCell, Rom!Cell
  <2>9. Brought(mem)
    <3>1. \A s, p : ~Brings(s, p, 0)
      <4>1. \A x : x \notin 0..(0 - 1)
        OBVIOUS
      <4>2. QED
        BY <4>1 DEF Brings
    <3>2. ASSUME NEW j \in 1..seg PROVE ~(j < seg) /\ pos + Got = 0
      BY <1>1, <1>6
    <3>3. QED
      BY <3>1, <3>2 DEF Brought
  <2>10. Memory(View, <<>>)
    BY <1>1, <1>5, <1>6, <1>11, <2>8, <2>9 DEF Memory, Sync
  <2>11. QED
    BY <1>10, <2>2, <2>5, <2>7, <2>10 DEF Course
<1>17. QED
  BY <1>7, <1>12, <1>14, <1>15, <1>16 DEF RunInv

\* The invariant of every run.
LEMMA RunInvariant ==
  InLen # OutLen /\ (\A i \in Images : LoadedInPlace(i)) /\ Spec =>
    [](Calls /\ RunInv /\ Heads /\ Entered)
<1> SUFFICES ASSUME InLen # OutLen, \A i \in Images : LoadedInPlace(i)
             PROVE  Spec => [](Calls /\ RunInv /\ Heads /\ Entered)
  OBVIOUS
<1>1. Init => Calls /\ RunInv /\ Heads /\ Entered
  BY CallsInit, RunInit, HeadsInit
<1>2. Typed /\ Typed' /\ (Calls /\ RunInv /\ Heads /\ Entered) /\ [Next]_vars =>
        (Calls /\ RunInv /\ Heads /\ Entered)'
  <2> SUFFICES ASSUME Typed, Typed', Calls, RunInv, Heads, Entered, [Next]_vars
               PROVE  Calls' /\ RunInv' /\ Heads' /\ Entered'
    OBVIOUS
  <2>1. LoadedInPlace(img)
    BY DEF Typed, HostTypes
  <2>2. Calls'
    BY CallsStep DEF Typed
  <2>3. RunInv'
    <3> SUFFICES ASSUME ~lingered'
                 PROVE  /\ Running' => Lone'
                        /\ \E R, Q : /\ Chain(R)' /\ Track(R, Q)' /\ Safe(R)'
                                     /\ Running' => \E d, st : Course(R, Q, d, st)'
      BY DEF RunInv
    <3>1. QED
      BY <2>1, RunStep
  <2>4. Heads' /\ Entered'
    BY HeadsStep
  <2>5. QED
    BY <2>2, <2>3, <2>4
<1>3. QED
  BY <1>1, <1>2, TypedInvariant, PTL DEF Spec

\* A Read may be refused, time out or bring a report of an earlier call, and every Write may
\* fail: unless a cancelled Read outlives its call, the ROM starts no image that is not whole,
\* and none at another address than its entry.  Each call the host makes needs what the calls
\* before it have put into RAM, and what they leave unread never passes for its own
\* acknowledgement (sb_loader.cpp:287-306, MxHidDevice.cpp:816).
THEOREM OnlyBootable ==
  InLen # OutLen /\ (\A i \in Images : LoadedInPlace(i)) /\ Spec => []Bootable
<1>1. Typed /\ RunInv /\ Heads /\ Entered => Bootable
  <2> SUFFICES ASSUME Typed, RunInv, Entered, rom.mode = "image", ~lingered
               PROVE  rom.entry = ExecutingAddr(img) /\ \A p \in Program(img) : InPlace(p)
    BY DEF Bootable
  <2>1. PICK R : Chain(R) /\ Safe(R)
    BY DEF RunInv
  <2>2. R[handled] = View /\ handled \in handled..Len(delivered)
    BY <2>1, LastType
  <2>3. View.mode = "image" /\ View.mem = mem
    BY DEF View
  <2>4. Whole(mem)
    BY <2>1, <2>2, <2>3 DEF Safe
  <2>5. QED
    BY <2>4 DEF Entered, Whole, InPlace
<1>2. QED
  BY <1>1, TypedInvariant, RunInvariant, PTL

\* Under the same conditions "Run into the image successfully" is true: a RUN that ends
\* without an error has started the image, for every loss, delay and refusal on the way
\* (sb_loader.cpp:287-308).
THEOREM SuccessIsTrue ==
  InLen # OutLen /\ (\A i \in Images : LoadedInPlace(i)) /\ Spec => []SuccessIsReal
<1>1. RunInv => SuccessIsReal
  BY DEF RunInv, Safe, SuccessIsReal, RunsTheImage
<1>2. QED
  BY <1>1, RunInvariant, PTL
=============================================================================
