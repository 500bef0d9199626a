-------------------------- MODULE HidDevice_proofs --------------------------
(***************************************************************************)
(* Proofs about HidDevice, for every report length and every number of     *)
(* calls.  The invariants are layered: TypeOK; Shape, what the host knows  *)
(* while a call waits; then DebtBound, Credit and Exact on top of them.    *)
(***************************************************************************)
EXTENDS HidDevice, FiniteSetTheorems, TLAPS

\* While a call waits, the shared OVERLAPPED is its own and its event is reset.
Shape ==
  /\ pc # "idle" => overlapped.Offset = 0
  /\ pc = "waitWrite" => overlapped.hEvent = OutLen /\ "write" \notin signalled
  /\ pc \in {"waitRead", "cancelRead"} => overlapped.hEvent = InLen /\ "read" \notin signalled

-----------------------------------------------------------------------------
(* What the operators of the model return.                                 *)

LEMMA VerdictType ==
  ASSUME NEW apc \in Apcs, overlapped \in [Offset : {0, InLen, OutLen},
                                           hEvent : {0, InLen, OutLen}]
  PROVE  Verdict(apc) \in {0, InLen, OutLen}
BY DEF Verdict, Apcs

LEMMA RunApcsType ==
  ASSUME TypeOK, RunApcs
  PROVE  /\ overlapped' \in [Offset : {0, InLen, OutLen},
                             hEvent : {0, InLen, OutLen}]
         /\ overlapped'.hEvent = overlapped.hEvent
         /\ signalled' \subseteq Kinds
         /\ apcs' = <<>>
<1>1. signalled' \subseteq Kinds
  <2>0. \A i \in 1..Len(apcs) : apcs[i] \in Apcs
    BY DEF TypeOK
  <2>1. \A i \in 1..Len(apcs) : apcs[i].kind \in Kinds
    BY <2>0 DEF Apcs
  <2>2. ASSUME NEW k \in signalled' PROVE k \in Kinds
    <3>1. k \in signalled \/ \E i \in 1..Len(apcs) : k = apcs[i].kind
      BY <2>2 DEF RunApcs
    <3>2. signalled \subseteq Kinds
      BY DEF TypeOK
    <3>3. QED
      BY <2>1, <3>1, <3>2
  <2>3. QED
    BY <2>2
<1>2. CASE apcs = <<>>
  BY <1>1, <1>2 DEF TypeOK, RunApcs
<1>3. CASE apcs # <<>>
  <2>1. apcs[Len(apcs)] \in Apcs
    BY <1>3 DEF TypeOK
  <2>2. Verdict(apcs[Len(apcs)]) \in {0, InLen, OutLen}
    BY <2>1, VerdictType DEF TypeOK
  <2>3. QED
    BY <1>1, <1>3, <2>2 DEF TypeOK, RunApcs
<1>4. QED
  BY <1>2, <1>3

\* A completion moves one request from the driver to the APC queue.
LEMMA CompleteMovesOne ==
  ASSUME TypeOK, NEW r \in pending, NEW err \in Nat, NEW bytes \in Nat,
         NEW at \in Nat, Complete(r, err, bytes, at)
  PROVE  /\ pending' \in SUBSET Requests /\ IsFiniteSet(pending')
         /\ apcs' \in Seq(Apcs)
         /\ Cardinality(pending') = Cardinality(pending) - 1
         /\ Len(apcs') = Len(apcs) + 1
<1>1. [kind |-> r.kind, id |-> r.id, err |-> err, bytes |-> bytes, at |-> at]
        \in Apcs
  BY DEF TypeOK, Requests, Apcs
<1>2. IsFiniteSet(pending \ {r}) /\ Cardinality(pending \ {r}) = Cardinality(pending) - 1
  BY FS_RemoveElement DEF TypeOK
<1>3. QED
  BY <1>1, <1>2 DEF TypeOK, Complete

\* A submission puts at most one more request into the driver.
LEMMA SubmitAddsOne ==
  ASSUME TypeOK, NEW kind \in Kinds,
         pending' = pending \cup {[kind |-> kind, id |-> ops + 1]}
  PROVE  /\ pending' \in SUBSET Requests /\ IsFiniteSet(pending')
         /\ Cardinality(pending') \in Nat /\ Cardinality(pending) \in Nat
         /\ Cardinality(pending') <= Cardinality(pending) + 1
<1> DEFINE r == [kind |-> kind, id |-> ops + 1]
<1>1. r \in Requests
  BY DEF TypeOK, Requests
<1>2. /\ IsFiniteSet(pending \cup {r})
      /\ Cardinality(pending \cup {r}) =
           IF r \in pending THEN Cardinality(pending) ELSE Cardinality(pending) + 1
  BY FS_AddElement DEF TypeOK
<1>3. Cardinality(pending) \in Nat
  BY FS_CardinalityType DEF TypeOK
<1>4. QED
  BY <1>1, <1>2, <1>3 DEF TypeOK

-----------------------------------------------------------------------------
(* TypeOK.                                                                 *)

LEMMA TypeOKInit == Init => TypeOK
<1>1. IsFiniteSet({})
  BY FS_EmptySet
<1>2. QED
  BY <1>1, SizesAssumption
     DEF Init, TypeOK, Returns, Statuses, Kinds, Requests, Apcs

LEMMA TypeOKCall == TypeOK /\ Call => TypeOK'
<1> SUFFICES ASSUME TypeOK, Call PROVE TypeOK'
  OBVIOUS
<1>1. CASE StartWrite
  <2>1. pending' \in SUBSET Requests /\ IsFiniteSet(pending')
    BY <1>1, SubmitAddsOne DEF StartWrite, Kinds
  <2>2. QED
    BY <1>1, <2>1, SizesAssumption
       DEF TypeOK, StartWrite, PrepareWrite, device, ghost
<1>2. CASE StartRead
  <2>1. pending' \in SUBSET Requests /\ IsFiniteSet(pending')
    BY <1>2, SubmitAddsOne DEF StartRead, Kinds
  <2>2. QED
    BY <1>2, <2>1, SizesAssumption
       DEF TypeOK, StartRead, PrepareRead, device, ghost
<1>3. CASE WriteRefused
  BY <1>3, SizesAssumption
     DEF TypeOK, WriteRefused, PrepareWrite, Return, Returns, Statuses, Kinds,
         device, ghost
<1>4. CASE ReadRefused
  BY <1>4, SizesAssumption
     DEF TypeOK, ReadRefused, PrepareRead, Return, Returns, Statuses, Kinds,
         device, ghost
<1>5. QED
  BY <1>1, <1>2, <1>3, <1>4 DEF Call

LEMMA TypeOKHost == TypeOK /\ HostStep => TypeOK'
<1> SUFFICES ASSUME TypeOK, HostStep PROVE TypeOK'
  OBVIOUS
<1>1. CASE WriteReturns
  <2>1. RunApcs /\ Judge \in Statuses
    BY <1>1 DEF WriteReturns, Judge, Statuses
  <2>2. apcs' = <<>> /\ apcs' \in Seq(Apcs)
    BY <2>1, RunApcsType
  <2>3. QED
    BY <1>1, <2>1, <2>2, RunApcsType
       DEF TypeOK, WriteReturns, Return, Returns, Kinds, device
<1>2. CASE ReadReturns
  <2>1. RunApcs /\ Judge \in Statuses
    BY <1>2 DEF ReadReturns, Judge, Statuses
  <2>2. apcs' = <<>> /\ apcs' \in Seq(Apcs)
    BY <2>1, RunApcsType
  <2>3. QED
    BY <1>2, <2>1, <2>2, RunApcsType
       DEF TypeOK, ReadReturns, Return, Returns, Kinds, device
<1>3. CASE ReadTimesOut
  BY <1>3 DEF TypeOK, ReadTimesOut, kernel, device, ghost
<1>4. CASE CancelRead
  BY <1>4 DEF TypeOK, CancelRead, Return, Returns, Statuses, Kinds, device
<1>5. QED
  BY <1>1, <1>2, <1>3, <1>4 DEF HostStep

LEMMA TypeOKDriver == TypeOK /\ (Driver \/ DeviceSends) => TypeOK'
<1> SUFFICES ASSUME TypeOK, Driver \/ DeviceSends PROVE TypeOK'
  OBVIOUS
<1>1. CASE DeviceAccepts
  <2>1. PICK r \in pending : Complete(r, 0, OutLen, Len(delivered) + 1)
    BY <1>1 DEF DeviceAccepts
  <2>2. /\ pending' \in SUBSET Requests /\ IsFiniteSet(pending')
        /\ apcs' \in Seq(Apcs)
    <3>1. OutLen \in Nat /\ Len(delivered) + 1 \in Nat
      BY SizesAssumption DEF TypeOK
    <3>2. QED
      BY <2>1, <3>1, CompleteMovesOne
  <2>3. QED
    BY <1>1, <2>2 DEF TypeOK, DeviceAccepts, host, ghost
<1>2. CASE ReportArrives
  <2>1. PICK r \in pending : Complete(r, 0, InLen, taken + 1)
    BY <1>2 DEF ReportArrives
  <2>2. /\ pending' \in SUBSET Requests /\ IsFiniteSet(pending')
        /\ apcs' \in Seq(Apcs)
    <3>1. InLen \in Nat /\ taken + 1 \in Nat
      BY SizesAssumption DEF TypeOK
    <3>2. QED
      BY <2>1, <3>1, CompleteMovesOne
  <2>3. QED
    BY <1>2, <2>2 DEF TypeOK, ReportArrives, host, ghost
<1>3. CASE RequestFails
  <2>1. PICK r \in pending : Complete(r, 1, 0, 0)
    BY <1>3 DEF RequestFails
  <2>2. /\ pending' \in SUBSET Requests /\ IsFiniteSet(pending')
        /\ apcs' \in Seq(Apcs)
    BY <2>1, CompleteMovesOne
  <2>3. QED
    BY <1>3, <2>2 DEF TypeOK, RequestFails, host, device, ghost
<1>4. CASE DeviceSends
  BY <1>4 DEF TypeOK, DeviceSends, host, kernel, ghost
<1>5. QED
  BY <1>1, <1>2, <1>3, <1>4 DEF Driver

LEMMA TypeOKStep == TypeOK /\ [Next]_vars => TypeOK'
<1>1. TypeOK /\ UNCHANGED vars => TypeOK'
  BY DEF TypeOK, vars, host, kernel, device, ghost
<1>2. QED
  BY <1>1, TypeOKCall, TypeOKHost, TypeOKDriver DEF Next, Finished

\* Every reachable state has the types of the declarations (HidDevice.h:80-91).
THEOREM TypeCorrect == Spec => []TypeOK
BY TypeOKInit, TypeOKStep, PTL DEF Spec

-----------------------------------------------------------------------------
(* Shape: the verdict and the event a call waits on are fresh.             *)

LEMMA ShapeStep == TypeOK /\ Shape /\ [Next]_vars => Shape'
<1> SUFFICES ASSUME TypeOK, Shape, [Next]_vars PROVE Shape'
  OBVIOUS
<1> USE DEF Shape
<1>1. CASE Call
  <2>1. CASE StartWrite
    BY <2>1 DEF StartWrite, PrepareWrite
  <2>2. CASE StartRead
    BY <2>2 DEF StartRead, PrepareRead
  <2>3. CASE WriteRefused \/ ReadRefused
    BY <2>3 DEF WriteRefused, ReadRefused, Return
  <2>4. QED
    BY <1>1, <2>1, <2>2, <2>3 DEF Call
<1>2. CASE HostStep
  <2>1. CASE WriteReturns \/ ReadReturns \/ CancelRead
    BY <2>1 DEF WriteReturns, ReadReturns, CancelRead, Return
  <2>2. CASE ReadTimesOut
    BY <2>2 DEF ReadTimesOut
  <2>3. QED
    BY <1>2, <2>1, <2>2 DEF HostStep
<1>3. CASE Driver \/ DeviceSends
  BY <1>3 DEF Driver, DeviceAccepts, ReportArrives, RequestFails, DeviceSends, host
<1>4. CASE UNCHANGED vars
  BY <1>4 DEF vars, host
<1>5. QED
  BY <1>1, <1>2, <1>3, <1>4 DEF Next, Finished

LEMMA ShapeInvariant == Spec => []Shape
<1>1. Init => Shape
  BY DEF Init, Shape
<1>2. QED
  BY <1>1, ShapeStep, TypeCorrect, PTL DEF Spec

\* Hence a call that returns has run at least one completion.
LEMMA ReturnRunsCompletion ==
  ASSUME TypeOK, Shape, WriteReturns \/ ReadReturns
  PROVE  apcs # <<>> /\ apcs' = <<>> /\ Len(apcs) >= 1
BY DEF TypeOK, Shape, WriteReturns, ReadReturns, RunApcs

-----------------------------------------------------------------------------
(* DebtBound.                                                              *)

LEMMA DebtBoundStep == TypeOK /\ Shape /\ DebtBound /\ [Next]_vars => DebtBound'
<1> SUFFICES ASSUME TypeOK, Shape, DebtBound, [Next]_vars PROVE DebtBound'
  OBVIOUS
<1>0. Cardinality(pending) \in Nat /\ Len(apcs) \in Nat /\ timeouts \in Nat
  BY FS_CardinalityType DEF TypeOK
<1>1. CASE StartWrite \/ StartRead
  <2>1. \E kind \in Kinds : pending' = pending \cup {[kind |-> kind, id |-> ops + 1]}
    BY <1>1 DEF StartWrite, StartRead, Kinds
  <2>2. Cardinality(pending') <= Cardinality(pending) + 1 /\ Cardinality(pending') \in Nat
    BY <2>1, SubmitAddsOne
  <2>3. apcs' = apcs /\ timeouts' = timeouts /\ InCall = 0 /\ InCall' = 1
    BY <1>1 DEF StartWrite, StartRead, PrepareWrite, PrepareRead, ghost, InCall
  <2>4. QED
    BY <1>0, <2>2, <2>3 DEF DebtBound
<1>2. CASE WriteRefused \/ ReadRefused
  <2>1. UNCHANGED <<pending, apcs, timeouts>> /\ InCall' = InCall
    BY <1>2 DEF WriteRefused, ReadRefused, PrepareWrite, PrepareRead, Return,
                ghost, InCall
  <2>2. QED
    BY <2>1 DEF DebtBound
<1>3. CASE WriteReturns \/ ReadReturns
  <2>1. Len(apcs) >= 1 /\ apcs' = <<>>
    BY <1>3, ReturnRunsCompletion
  <2>2. UNCHANGED <<pending, timeouts>> /\ InCall = 1 /\ InCall' = 0
    BY <1>3 DEF WriteReturns, ReadReturns, Return, InCall
  <2>3. QED
    BY <1>0, <2>1, <2>2 DEF DebtBound
<1>4. CASE ReadTimesOut
  <2>1. UNCHANGED <<pending, apcs, timeouts>> /\ InCall' = InCall
    BY <1>4 DEF ReadTimesOut, kernel, ghost, InCall
  <2>2. QED
    BY <2>1 DEF DebtBound
<1>5. CASE CancelRead
  <2>1. UNCHANGED <<pending, apcs>> /\ timeouts' = timeouts + 1
        /\ InCall = 1 /\ InCall' = 0
    BY <1>5 DEF CancelRead, Return, InCall
  <2>2. QED
    BY <1>0, <2>1 DEF DebtBound
<1>6. CASE Driver
  <2>1. /\ Cardinality(pending') = Cardinality(pending) - 1
        /\ Len(apcs') = Len(apcs) + 1
    <3>1. OutLen \in Nat /\ InLen \in Nat /\ Len(delivered) + 1 \in Nat
          /\ taken + 1 \in Nat
      BY SizesAssumption DEF TypeOK
    <3>2. \E r \in pending, err \in Nat, bytes \in Nat, at \in Nat :
             Complete(r, err, bytes, at)
      BY <1>6, <3>1 DEF Driver, DeviceAccepts, ReportArrives, RequestFails
    <3>3. QED
      BY <3>2, CompleteMovesOne
  <2>2. timeouts' = timeouts /\ InCall' = InCall
    BY <1>6 DEF Driver, DeviceAccepts, ReportArrives, RequestFails, host, ghost, InCall
  <2>3. QED
    BY <1>0, <2>1, <2>2 DEF DebtBound
<1>7. CASE DeviceSends \/ UNCHANGED vars
  <2>1. UNCHANGED <<pending, apcs, timeouts>> /\ InCall' = InCall
    BY <1>7 DEF DeviceSends, vars, host, kernel, ghost, InCall
  <2>2. QED
    BY <2>1 DEF DebtBound
<1>8. QED
  BY <1>1, <1>2, <1>3, <1>4, <1>5, <1>6, <1>7
     DEF Next, Call, HostStep, Finished

\* Requests and completions left over between calls are bounded by the Reads
\* that timed out (HidDevice.cpp:648), whatever the number of calls.
THEOREM DebtBounded == Spec => []DebtBound
<1>1. Init => DebtBound
  BY FS_EmptySet DEF Init, DebtBound, InCall
<1>2. QED
  BY <1>1, DebtBoundStep, TypeCorrect, ShapeInvariant, PTL DEF Spec

-----------------------------------------------------------------------------
(* NoPhantomSuccess: an inductive account of what each unrun completion may *)
(* still be credited with, under the assumption that the report lengths     *)
(* tell a write's completion from a read's.                                 *)

Creditable(apc) ==
  \/ apc.err # 0 /\ apc.bytes = 0
  \/ /\ apc.kind = "write" /\ apc.bytes = OutLen
     /\ okWrites < apc.at /\ apc.at <= Len(delivered)
  \/ /\ apc.kind = "read" /\ apc.bytes = InLen
     /\ okReads < apc.at /\ apc.at <= taken

Credit ==
  /\ okWrites <= Len(delivered) /\ okReads <= taken
  /\ \A i \in 1..Len(apcs) : Creditable(apcs[i])

\* A call judged successful has run a completion of its own kind.
LEMMA SuccessIsCredited ==
  ASSUME TypeOK, Shape, Credit, InLen # OutLen
  PROVE  /\ WriteReturns /\ Judge = "SUCCESS" => okWrites + 1 <= Len(delivered)
         /\ ReadReturns /\ Judge = "SUCCESS" => okReads + 1 <= taken
<1> DEFINE last == apcs[Len(apcs)]
<1>1. ASSUME WriteReturns, Judge = "SUCCESS" PROVE okWrites + 1 <= Len(delivered)
  <2>1. apcs # <<>> /\ Len(apcs) \in 1..Len(apcs) /\ last \in Apcs
    BY <1>1, ReturnRunsCompletion DEF TypeOK
  <2>2. Verdict(last) # 0
    BY <1>1, <2>1 DEF Judge, WriteReturns, RunApcs, TypeOK
  <2>3. last.bytes = OutLen /\ last.bytes # 0
    BY <1>1, <2>2 DEF Verdict, Shape, WriteReturns
  <2>4. Creditable(last)
    BY <2>1 DEF Credit
  <2>5. QED
    BY <2>1, <2>3, <2>4 DEF Creditable, TypeOK, Apcs
<1>2. ASSUME ReadReturns, Judge = "SUCCESS" PROVE okReads + 1 <= taken
  <2>1. apcs # <<>> /\ Len(apcs) \in 1..Len(apcs) /\ last \in Apcs
    BY <1>2, ReturnRunsCompletion DEF TypeOK
  <2>2. Verdict(last) # 0
    BY <1>2, <2>1 DEF Judge, ReadReturns, RunApcs, TypeOK
  <2>3. last.bytes = InLen /\ last.bytes # 0
    BY <1>2, <2>2 DEF Verdict, Shape, ReadReturns
  <2>4. Creditable(last)
    BY <2>1 DEF Credit
  <2>5. QED
    BY <2>1, <2>3, <2>4 DEF Creditable, TypeOK, Apcs
<1>3. QED
  BY <1>1, <1>2

\* A completion that is itself creditable leaves the older ones creditable.
LEMMA CompletionCredit ==
  ASSUME TypeOK, Credit, NEW apc, apcs' = Append(apcs, apc), Creditable(apc)',
         Len(delivered') \in Nat, Len(delivered') >= Len(delivered),
         taken' \in Nat, taken' >= taken,
         UNCHANGED <<okWrites, okReads>>
  PROVE  \A i \in 1..Len(apcs') : Creditable(apcs[i])'
<1> SUFFICES ASSUME NEW i \in 1..Len(apcs') PROVE Creditable(apcs[i])'
  OBVIOUS
<1>1. CASE i = Len(apcs) + 1
  <2>1. apcs'[i] = apc
    BY <1>1 DEF TypeOK
  <2>2. QED
    BY <2>1 DEF Creditable
<1>2. CASE i # Len(apcs) + 1
  <2>1. i \in 1..Len(apcs) /\ apcs'[i] = apcs[i] /\ apcs[i] \in Apcs
    BY <1>2 DEF TypeOK
  <2>2. Creditable(apcs[i])
    BY <2>1 DEF Credit
  <2>3. apcs[i].at \in Nat
    BY <2>1 DEF Apcs
  <2>4. okWrites \in Nat /\ okReads \in Nat /\ Len(delivered) \in Nat /\ taken \in Nat
    BY DEF TypeOK
  <2>5. QED
    BY <2>1, <2>2, <2>3, <2>4 DEF Creditable
<1>3. QED
  BY <1>1, <1>2

LEMMA CreditStep ==
  ASSUME InLen # OutLen
  PROVE  TypeOK /\ Shape /\ Credit /\ [Next]_vars => Credit'
<1> SUFFICES ASSUME TypeOK, Shape, Credit, [Next]_vars PROVE Credit'
  OBVIOUS
<1> USE DEF Credit
<1>1. CASE WriteReturns \/ ReadReturns
  <2>1. apcs' = <<>> /\ UNCHANGED <<delivered, taken>>
    BY <1>1, ReturnRunsCompletion DEF WriteReturns, ReadReturns, device
  <2>2. okWrites' <= Len(delivered) /\ okReads' <= taken
    BY <1>1, SuccessIsCredited DEF WriteReturns, ReadReturns, TypeOK
  <2>3. QED
    BY <2>1, <2>2
<1>2. CASE DeviceAccepts
  <2> PICK n \in Nat : n = Len(delivered) + 1
    BY DEF TypeOK
  <2>1. PICK r \in pending : r.kind = "write" /\ Complete(r, 0, OutLen, n)
    BY <1>2 DEF DeviceAccepts, OldestOf
  <2>2. /\ Len(delivered') = Len(delivered) + 1 /\ Len(delivered') \in Nat
        /\ Len(delivered') >= Len(delivered) /\ UNCHANGED <<okWrites, okReads>>
        /\ taken' = taken /\ taken' \in Nat /\ taken' >= taken
    BY <1>2 DEF DeviceAccepts, ghost, TypeOK
  <2> PICK apc : apc = [kind |-> r.kind, id |-> r.id, err |-> 0,
                        bytes |-> OutLen, at |-> n]
    OBVIOUS
  <2>3. Creditable(apc)' /\ apcs' = Append(apcs, apc)
    BY <2>1, <2>2 DEF Creditable, Complete, TypeOK
  <2>4. \A i \in 1..Len(apcs') : Creditable(apcs[i])'
    BY <2>2, <2>3, CompletionCredit
  <2>5. QED
    BY <2>2, <2>4 DEF TypeOK
<1>3. CASE ReportArrives
  <2> PICK n \in Nat : n = taken + 1
    BY DEF TypeOK
  <2>1. PICK r \in pending : r.kind = "read" /\ Complete(r, 0, InLen, n)
    BY <1>3 DEF ReportArrives, OldestOf
  <2>2. taken' = taken + 1 /\ UNCHANGED <<delivered, okWrites, okReads>>
    BY <1>3 DEF ReportArrives, ghost, TypeOK
  <2> PICK apc : apc = [kind |-> r.kind, id |-> r.id, err |-> 0,
                        bytes |-> InLen, at |-> n]
    OBVIOUS
  <2>3. Creditable(apc)' /\ apcs' = Append(apcs, apc)
    BY <2>1, <2>2 DEF Creditable, Complete, TypeOK
  <2>4. \A i \in 1..Len(apcs') : Creditable(apcs[i])'
    BY SMTT(30), <2>2, <2>3, CompletionCredit DEF TypeOK
  <2>5. QED
    BY <2>2, <2>4 DEF TypeOK
<1>4. CASE RequestFails
  <2>1. PICK r \in pending : Complete(r, 1, 0, 0)
    BY <1>4 DEF RequestFails
  <2>2. UNCHANGED <<delivered, taken, okWrites, okReads>>
    BY <1>4 DEF RequestFails, device, ghost
  <2> PICK apc : apc = [kind |-> r.kind, id |-> r.id, err |-> 1,
                        bytes |-> 0, at |-> 0]
    OBVIOUS
  <2>3. Creditable(apc)' /\ apcs' = Append(apcs, apc)
    BY <2>1 DEF Creditable, Complete
  <2>4. \A i \in 1..Len(apcs') : Creditable(apcs[i])'
    BY <2>2, <2>3, CompletionCredit DEF TypeOK
  <2>5. QED
    BY <2>2, <2>4
<1>5. CASE \/ Call \/ ReadTimesOut \/ CancelRead \/ DeviceSends \/ UNCHANGED vars
  <2>1. UNCHANGED <<apcs, delivered, taken, okWrites, okReads>>
    BY <1>5 DEF Call, StartWrite, WriteRefused, StartRead, ReadRefused,
                PrepareWrite, PrepareRead, ReadTimesOut, CancelRead, DeviceSends,
                vars, kernel, device, ghost
  <2>2. QED
    BY <2>1 DEF Creditable
<1>6. QED
  BY <1>1, <1>2, <1>3, <1>4, <1>5 DEF Next, HostStep, Driver, Finished

CreditInv == InLen # OutLen => Credit

LEMMA CreditInvariant == Spec => []CreditInv
<1>1. Init => CreditInv
  BY DEF Init, Credit, CreditInv
<1>2. TypeOK /\ Shape /\ CreditInv /\ [Next]_vars => CreditInv'
  BY CreditStep DEF CreditInv
<1>3. QED
  BY <1>1, <1>2, TypeCorrect, ShapeInvariant, PTL DEF Spec

\* The host never counts more successes than the device's side can account for
\* (the size test of the completion routines, HidDevice.cpp:608 and :666), for
\* every number of calls and every order of completions.
THEOREM NoPhantom == Spec => []NoPhantomSuccess
<1>1. CreditInv => NoPhantomSuccess
  BY DEF CreditInv, Credit, NoPhantomSuccess
<1>2. QED
  BY <1>1, CreditInvariant, PTL

-----------------------------------------------------------------------------
(* HidDevice implements HidPort.                                           *)

LEMMA PortStep ==
  ASSUME InLen # OutLen
  PROVE  TypeOK /\ Shape /\ CreditInv /\ [Next]_vars => [Port!Next]_(Port!vars)
<1> SUFFICES ASSUME TypeOK, Shape, Credit, [Next]_vars
             PROVE  [Port!Next]_(Port!vars)
  BY DEF CreditInv
<1> USE DEF Port!Next, Port!vars
<1>1. CASE WriteReturns
  <2>1. UNCHANGED <<delivered, taken, okReads>>
    BY <1>1 DEF WriteReturns, device
  <2>2. CASE Judge = "SUCCESS"
    <3>1. okWrites + 1 <= Len(delivered) /\ okWrites' = okWrites + 1
      BY <1>1, <2>2, SuccessIsCredited DEF WriteReturns
    <3>2. QED
      BY <2>1, <3>1 DEF Port!WriteOk, TypeOK
  <2>3. CASE Judge # "SUCCESS"
    BY <1>1, <2>1, <2>3 DEF WriteReturns, TypeOK
  <2>4. QED
    BY <2>2, <2>3
<1>2. CASE ReadReturns
  <2>1. UNCHANGED <<delivered, taken, okWrites>>
    BY <1>2 DEF ReadReturns, device
  <2>2. CASE Judge = "SUCCESS"
    <3>1. okReads + 1 <= taken /\ okReads' = okReads + 1
      BY <1>2, <2>2, SuccessIsCredited DEF ReadReturns
    <3>2. QED
      BY <2>1, <3>1 DEF Port!ReadOk, TypeOK
  <2>3. CASE Judge # "SUCCESS"
    BY <1>2, <2>1, <2>3 DEF ReadReturns, TypeOK
  <2>4. QED
    BY <2>2, <2>3
<1>3. CASE DeviceAccepts
  <2>1. Len(delivered') = Len(delivered) + 1 /\ UNCHANGED <<taken, okWrites, okReads>>
    BY <1>3 DEF DeviceAccepts, ghost, TypeOK
  <2>2. QED
    BY <2>1 DEF Port!Accept
<1>4. CASE ReportArrives
  BY <1>4 DEF ReportArrives, ghost, Port!Take
<1>5. CASE \/ Call \/ ReadTimesOut \/ CancelRead \/ RequestFails \/ DeviceSends
           \/ UNCHANGED vars
  BY <1>5 DEF Call, StartWrite, WriteRefused, StartRead, ReadRefused, PrepareWrite,
              PrepareRead, ReadTimesOut, CancelRead, RequestFails, DeviceSends,
              vars, device, ghost
<1>6. QED
  BY <1>1, <1>2, <1>3, <1>4, <1>5 DEF Next, HostStep, Driver, Finished

\* When the report lengths differ, the overlapped I/O of Write and Read keeps
\* the promise of HidPort (HidDevice.cpp:571-678), time-outs included.
THEOREM PortRefinement ==
  ASSUME InLen # OutLen
  PROVE  Spec => PortSpec
<1>1. Init => Port!Init
  BY DEF Init, Port!Init
<1>2. TypeOK /\ Shape /\ CreditInv /\ [Next]_vars => [Port!Next]_(Port!vars)
  BY PortStep
<1>3. QED
  BY <1>1, <1>2, TypeCorrect, ShapeInvariant, CreditInvariant, PTL
     DEF Spec, PortSpec, Port!Spec

-----------------------------------------------------------------------------
(* ExactWithoutTimeout: until a Read times out, the only request in flight *)
(* or completion queued is the one of the call in progress.                *)

Op == IF pc = "waitWrite" THEN "write" ELSE "read"

InFlight == apcs = <<>> /\ pending = {[kind |-> Op, id |-> ops]}

Effect == IF Op = "write" THEN delivered # <<>> /\ delivered[Len(delivered)] = ops
                          ELSE readBuf = taken /\ taken > 0

Answered == pending = {} /\ Len(apcs) = 1 /\ (apcs[1].err = 0 => Effect)

Exact ==
  timeouts = 0 =>
    /\ pc = "idle" => pending = {} /\ apcs = <<>>
    /\ pc # "idle" => InFlight \/ Answered
    /\ pc = "waitWrite" => writeBuf = ops
    /\ ExactWithoutTimeout

LEMMA ExactReturn ==
  ASSUME TypeOK, Shape, Exact, WriteReturns \/ ReadReturns PROVE Exact'
<1> SUFFICES ASSUME timeouts = 0 PROVE Exact'
  BY DEF Exact, WriteReturns, ReadReturns
<1>1. Answered /\ apcs' = <<>>
  BY ReturnRunsCompletion DEF Exact, InFlight, WriteReturns, ReadReturns
<1>2. pending' = {} /\ pc' = "idle" /\ ret' = [op |-> Op, id |-> ops, status |-> Judge]
      /\ UNCHANGED <<delivered, taken, readBuf>>
  BY <1>1 DEF Answered, WriteReturns, ReadReturns, Return, Op, device
<1>3. ASSUME Judge = "SUCCESS" PROVE Effect
  <2>1. Len(apcs) = 1 /\ apcs # <<>>
    BY <1>1 DEF Answered
  <2>2. Verdict(apcs[1]) # 0
    <3>1. overlapped' = [overlapped EXCEPT !.Offset = Verdict(apcs[1])]
      BY <2>1 DEF WriteReturns, ReadReturns, RunApcs
    <3>2. overlapped'.Offset = Verdict(apcs[1])
      BY <3>1 DEF TypeOK
    <3>3. QED
      BY <1>3, <3>2 DEF Judge
  <2>3. apcs[1].err = 0
    BY <2>2 DEF Verdict
  <2>4. QED
    BY <1>1, <2>3 DEF Answered
<1>4. ExactWithoutTimeout'
  BY <1>2, <1>3 DEF ExactWithoutTimeout, Effect
<1>5. QED
  BY <1>1, <1>2, <1>4 DEF Exact

LEMMA ExactStep == TypeOK /\ Shape /\ Exact /\ [Next]_vars => Exact'
<1> SUFFICES ASSUME TypeOK, Shape, Exact, [Next]_vars PROVE Exact'
  OBVIOUS
<1>1. CASE StartWrite
  <2>1. pc = "idle" /\ pc' = "waitWrite" /\ writeBuf' = ops' /\ ops' = ops + 1
        /\ apcs' = apcs /\ timeouts' = timeouts
        /\ pending' = pending \cup {[kind |-> "write", id |-> ops + 1]}
    BY <1>1 DEF StartWrite, PrepareWrite, ghost
  <2>2. QED
    BY <2>1 DEF Exact, InFlight, Op, ExactWithoutTimeout
<1>2. CASE StartRead
  <2>1. pc = "idle" /\ pc' = "waitRead" /\ ops' = ops + 1
        /\ apcs' = apcs /\ timeouts' = timeouts
        /\ pending' = pending \cup {[kind |-> "read", id |-> ops + 1]}
    BY <1>2 DEF StartRead, PrepareRead, ghost
  <2>2. QED
    BY <2>1 DEF Exact, InFlight, Op, ExactWithoutTimeout
<1>3. CASE WriteRefused \/ ReadRefused
  <2>1. pc = "idle" /\ pc' = "idle" /\ UNCHANGED <<pending, apcs, timeouts>>
        /\ ret'.status # "SUCCESS"
    BY <1>3 DEF WriteRefused, ReadRefused, PrepareWrite, PrepareRead, Return, ghost
  <2>2. QED
    BY <2>1 DEF Exact, ExactWithoutTimeout
<1>4. CASE WriteReturns \/ ReadReturns
  BY <1>4, ExactReturn
<1>5. CASE ReadTimesOut
  <2>1. pc = "waitRead" /\ pc' = "cancelRead"
        /\ UNCHANGED <<ops, readBuf, pending, apcs, delivered, taken, timeouts>>
    BY <1>5 DEF ReadTimesOut, kernel, device, ghost
  <2>2. Op = "read" /\ Op' = "read"
    BY <2>1 DEF Op
  <2>3. QED
    BY <2>1, <2>2 DEF Exact, InFlight, Answered, Effect, ExactWithoutTimeout
<1>6. CASE CancelRead
  BY <1>6 DEF CancelRead, Exact, TypeOK
<1>7. CASE DeviceAccepts
  <2>1. PICK r \in pending : r.kind = "write" /\ Complete(r, 0, OutLen, Len(delivered) + 1)
    BY <1>7 DEF DeviceAccepts, OldestOf
  <2>2. delivered' = Append(delivered, writeBuf)
        /\ UNCHANGED <<pc, ops, writeBuf, readBuf, ret, taken, timeouts>>
    BY <1>7 DEF DeviceAccepts, host, ghost
  <2>3. ASSUME timeouts = 0 PROVE pc = "waitWrite" /\ InFlight
    BY <2>1, <2>3 DEF Exact, InFlight, Answered, Op, TypeOK
  <2>4. ASSUME timeouts = 0 PROVE pending' = {} /\ Len(apcs') = 1
    BY <2>1, <2>3, <2>4 DEF Complete, InFlight
  <2>5. delivered' # <<>> /\ delivered'[Len(delivered')] = writeBuf
    <3>1. delivered \in Seq(Nat) /\ writeBuf \in Nat
      BY DEF TypeOK
    <3>2. QED
      BY <2>2, <3>1
  <2>6. QED
    BY <2>2, <2>3, <2>4, <2>5 DEF Exact, Answered, Effect, Op, ExactWithoutTimeout
<1>8. CASE ReportArrives
  <2>1. PICK r \in pending : r.kind = "read" /\ Complete(r, 0, InLen, taken + 1)
    BY <1>8 DEF ReportArrives, OldestOf
  <2>2. taken' = taken + 1 /\ readBuf' = taken'
        /\ UNCHANGED <<pc, ops, writeBuf, ret, delivered, timeouts>>
    BY <1>8 DEF ReportArrives, host, ghost
  <2>3. ASSUME timeouts = 0 PROVE pc \notin {"idle", "waitWrite"} /\ InFlight
    BY <2>1, <2>3 DEF Exact, InFlight, Answered, Op
  <2>4. ASSUME timeouts = 0 PROVE pending' = {} /\ Len(apcs') = 1
    BY <2>1, <2>3, <2>4 DEF Complete, InFlight
  <2>5. taken' > 0
    BY <2>2 DEF TypeOK
  <2>6. QED
    BY <2>2, <2>3, <2>4, <2>5 DEF Exact, Answered, Effect, Op, ExactWithoutTimeout
<1>9. CASE RequestFails
  <2>1. PICK r \in pending : Complete(r, 1, 0, 0)
    BY <1>9 DEF RequestFails
  <2>2. UNCHANGED <<pc, ops, writeBuf, readBuf, ret, delivered, taken, timeouts>>
    BY <1>9 DEF RequestFails, host, device, ghost
  <2>3. ASSUME timeouts = 0 PROVE pc # "idle" /\ InFlight
    BY <2>1, <2>3 DEF Exact, InFlight, Answered
  <2>4. ASSUME timeouts = 0 PROVE pending' = {} /\ Len(apcs') = 1 /\ apcs'[1].err = 1
    BY <2>1, <2>3, <2>4 DEF Complete, InFlight
  <2>5. QED
    BY <2>2, <2>3, <2>4 DEF Exact, Answered, ExactWithoutTimeout
<1>10. CASE DeviceSends \/ UNCHANGED vars
  BY <1>10 DEF DeviceSends, vars, host, kernel, device, ghost, Exact, InFlight,
               Answered, Effect, Op, ExactWithoutTimeout
<1>11. QED
  BY <1>1, <1>2, <1>3, <1>4, <1>5, <1>6, <1>7, <1>8, <1>9, <1>10
     DEF Next, Call, HostStep, Driver, Finished

\* Until a Read times out, a successful Write has delivered its own report and
\* a successful Read holds the latest one (HidDevice.cpp:571-678).
THEOREM ExactUntilTimeout == Spec => []ExactWithoutTimeout
<1>1. Init => Exact
  BY DEF Init, Exact, ExactWithoutTimeout
<1>2. Exact => ExactWithoutTimeout
  BY DEF Exact, ExactWithoutTimeout
<1>3. QED
  BY <1>1, <1>2, ExactStep, TypeCorrect, ShapeInvariant, PTL DEF Spec

-----------------------------------------------------------------------------
(* Writes after a time-out.  A Read that lingers may end the wait of a     *)
(* later Write before the device has the report, which is then delivered   *)
(* after the call: but only after a call that failed.                      *)

\* The device gets reports of calls that were made, the host input reports that
\* were sent.
Ids ==
  /\ readBuf <= taken /\ taken <= sent
  /\ writeBuf \in 0..ops
  /\ \A r \in pending : r.kind = "write" => writeBuf > 0
  /\ \A k \in 1..Len(delivered) : delivered[k] \in 1..ops

LEMMA IdsStep == TypeOK /\ Ids /\ [Next]_vars => Ids'
<1> SUFFICES ASSUME TypeOK, Ids, [Next]_vars PROVE Ids'
  OBVIOUS
<1>1. CASE Call
  <2>1. /\ ops' = ops + 1 /\ writeBuf' \in {writeBuf, ops + 1} /\ delivered' = delivered
        /\ \A r \in pending' : r \in pending \/ r.kind = "read" \/ writeBuf' = ops + 1
        /\ ops \in Nat /\ readBuf' \in {readBuf, 0} /\ UNCHANGED <<taken, sent>>
    BY <1>1 DEF Call, StartWrite, WriteRefused, StartRead, ReadRefused, PrepareWrite,
                PrepareRead, device, TypeOK
  <2>2. QED
    BY <2>1 DEF Ids, TypeOK
<1>2. CASE DeviceAccepts
  <2>1. PICK r \in pending : r.kind = "write" /\ pending' = pending \ {r}
    BY <1>2 DEF DeviceAccepts, OldestOf, Complete
  <2>2. /\ delivered' = Append(delivered, writeBuf)
        /\ UNCHANGED <<ops, writeBuf, readBuf, taken, sent>>
    BY <1>2 DEF DeviceAccepts, host
  <2>3. delivered \in Seq(Nat) /\ writeBuf \in Nat
    BY DEF TypeOK
  <2>4. \A k \in 1..Len(delivered') : delivered'[k] \in 1..ops
    BY <2>1, <2>2, <2>3 DEF Ids
  <2>5. QED
    BY <2>1, <2>2, <2>4 DEF Ids
<1>3. CASE ReportArrives \/ RequestFails
  <2>1. /\ pending' \subseteq pending /\ UNCHANGED <<ops, writeBuf, delivered>>
    BY <1>3 DEF ReportArrives, RequestFails, Complete, host, device
  <2>2. readBuf' <= taken' /\ taken' <= sent'
    BY <1>3 DEF ReportArrives, RequestFails, host, device, Ids, TypeOK
  <2>3. QED
    BY <2>1, <2>2 DEF Ids
<1>4. CASE HostStep \/ DeviceSends \/ UNCHANGED vars
  BY SMTT(30), <1>4 DEF HostStep, WriteReturns, ReadReturns, ReadTimesOut, CancelRead, DeviceSends,
              vars, host, kernel, device, Ids, TypeOK
<1>5. QED
  BY <1>1, <1>2, <1>3, <1>4 DEF Next, Driver, Finished

Delivered == delivered # <<>> /\ delivered[Len(delivered)] = ops

\* A Write waits, or has failed.
Busy == pc = "waitWrite" \/ (pc = "idle" /\ ret.op = "write" /\ ret.status # "SUCCESS")

\* The one write that may be in flight is that of the latest call.
Calm ==
  /\ pc = "waitWrite" => writeBuf = ops
  /\ \A r \in pending : r.kind = "write" => r.id = ops /\ writeBuf = ops /\ Busy /\ ~Delivered
  /\ \A i \in 1..Len(apcs) : apcs[i].kind = "write" /\ apcs[i].err = 0 => Busy /\ Delivered
  /\ pc = "idle" /\ ret.op = "write" /\ ret.status = "SUCCESS" => Delivered

\* No write is in flight.
Free ==
  /\ \A r \in pending : r.kind # "write"
  /\ \A i \in 1..Len(apcs) : apcs[i].kind = "write" => apcs[i].err # 0

LEMMA CalmIsFree ==
  Calm /\ pc = "idle" /\ (ret.op = "read" \/ ret.status = "SUCCESS") => Free
BY DEF Calm, Free, Busy

LEMMA CalmCall == TypeOK /\ Ids /\ Calm /\ Free /\ Call => Calm'
<1> SUFFICES ASSUME TypeOK, Ids, Calm, Free, Call PROVE Calm'
  OBVIOUS
<1>1. /\ ops \in Nat /\ ops' = ops + 1 /\ UNCHANGED <<delivered, apcs>>
      /\ pc' = "waitWrite" => writeBuf' = ops'
      /\ \A r \in pending' : r.kind = "write" =>
           r.id = ops' /\ writeBuf' = ops' /\ pc' = "waitWrite"
      /\ pc' = "idle" => ret'.status # "SUCCESS"
  <2>1. CASE StartWrite
    BY <2>1 DEF StartWrite, PrepareWrite, Free, device, TypeOK
  <2>2. CASE StartRead
    BY <2>2 DEF StartRead, PrepareRead, Free, device, TypeOK
  <2>3. CASE WriteRefused
    BY <2>3 DEF WriteRefused, PrepareWrite, Return, Free, device, TypeOK
  <2>4. CASE ReadRefused
    BY <2>4 DEF ReadRefused, PrepareRead, Return, Free, device, TypeOK
  <2>5. QED
    BY <2>1, <2>2, <2>3, <2>4 DEF Call
<1>2. ~Delivered'
  BY <1>1 DEF Ids, Delivered, TypeOK
<1>3. QED
  BY <1>1, <1>2 DEF Calm, Free, Busy

LEMMA CalmReturn ==
  ASSUME TypeOK, Shape, Credit, InLen # OutLen, Calm, WriteReturns
  PROVE  Calm'
<1>1. /\ apcs' = <<>> /\ pc = "waitWrite" /\ pc' = "idle"
      /\ ret' = [op |-> "write", id |-> ops, status |-> Judge]
      /\ UNCHANGED <<ops, writeBuf, pending, delivered>>
  BY DEF WriteReturns, RunApcs, Return, device
<1>2. ASSUME Judge = "SUCCESS" PROVE Delivered
  <2> DEFINE last == apcs[Len(apcs)]
  <2>1. apcs # <<>> /\ Len(apcs) \in 1..Len(apcs) /\ last \in Apcs
    BY ReturnRunsCompletion DEF TypeOK
  <2>2. Verdict(last) # 0
    BY <1>2, <2>1 DEF Judge, WriteReturns, RunApcs, TypeOK
  <2>3. last.bytes = OutLen /\ last.bytes # 0 /\ last.err = 0
    BY <1>1, <2>2 DEF Verdict, Shape
  <2>4. Creditable(last)
    BY <2>1 DEF Credit
  <2>5. last.kind = "write"
    BY <2>3, <2>4 DEF Creditable
  <2>6. QED
    BY <2>1, <2>3, <2>5 DEF Calm
<1>3. QED
  BY <1>1, <1>2 DEF Calm, Busy, Delivered

LEMMA CalmStep ==
  ASSUME InLen # OutLen
  PROVE  TypeOK /\ Shape /\ Credit /\ Ids /\ Calm /\ [Next]_vars /\ (Call => Free) => Calm'
<1> SUFFICES ASSUME TypeOK, Shape, Credit, Ids, Calm, [Next]_vars, Call => Free PROVE Calm'
  OBVIOUS
<1>1. CASE Call
  BY <1>1, CalmCall
<1>2. CASE WriteReturns
  BY <1>2, CalmReturn
<1>3. CASE ReadReturns \/ ReadTimesOut \/ CancelRead
  <2>1. /\ pc \in {"waitRead", "cancelRead"} /\ pc' # "waitWrite"
        /\ pc' = "idle" => ret'.op = "read"
        /\ UNCHANGED <<ops, writeBuf, pending, delivered>>
        /\ apcs' \in {apcs, <<>>}
    BY <1>3 DEF ReadReturns, ReadTimesOut, CancelRead, RunApcs, Return, kernel, device
  <2>2. QED
    BY <2>1 DEF Calm, Busy
<1>4. CASE DeviceAccepts
  <2>1. PICK r \in pending : r.kind = "write" /\ Complete(r, 0, OutLen, Len(delivered) + 1)
    BY <1>4 DEF DeviceAccepts, OldestOf
  <2>2. delivered' = Append(delivered, writeBuf) /\ UNCHANGED <<pc, ops, ret, writeBuf>>
    BY <1>4 DEF DeviceAccepts, host
  <2>3. Delivered'
    <3>1. delivered \in Seq(Nat) /\ writeBuf \in Nat /\ writeBuf = ops
      BY <2>1 DEF TypeOK, Calm
    <3>2. QED
      BY <2>2, <3>1 DEF Delivered
  <2>4. \A q \in pending' : q.kind # "write"
    <3>1. \A q \in pending : q.kind = "write" => q = r
      BY SMTT(30), <2>1 DEF Calm, TypeOK, Requests
    <3>2. QED
      BY <2>1, <3>1 DEF Complete
  <2>5. Busy' /\ ~Delivered
    BY <2>1, <2>2 DEF Calm, Busy
  <2>6. QED
    BY <2>2, <2>3, <2>4, <2>5 DEF Calm
<1>5. CASE ReportArrives
  <2>1. PICK r \in pending : r.kind = "read" /\ Complete(r, 0, InLen, taken + 1)
    BY <1>5 DEF ReportArrives, OldestOf
  <2>2. UNCHANGED <<pc, ops, ret, writeBuf, delivered>>
    BY <1>5 DEF ReportArrives, host
  <2> PICK apc : apc = [kind |-> "read", id |-> r.id, err |-> 0, bytes |-> InLen,
                        at |-> taken + 1]
    OBVIOUS
  <2>3. apcs' = Append(apcs, apc) /\ pending' = pending \ {r} /\ apcs \in Seq(Apcs)
    BY <2>1 DEF Complete, TypeOK
  <2>4. \A i \in 1..Len(apcs') : apcs'[i].kind = "write" =>
          i \in 1..Len(apcs) /\ apcs'[i] = apcs[i]
    BY <2>3
  <2>5. QED
    BY <2>2, <2>3, <2>4 DEF Calm, Busy, Delivered
<1>6. CASE RequestFails
  <2>1. PICK r \in pending : Complete(r, 1, 0, 0)
    BY <1>6 DEF RequestFails
  <2>2. UNCHANGED <<pc, ops, ret, writeBuf, delivered>>
    BY <1>6 DEF RequestFails, host, device
  <2> PICK apc : apc = [kind |-> r.kind, id |-> r.id, err |-> 1, bytes |-> 0, at |-> 0]
    OBVIOUS
  <2>3. apcs' = Append(apcs, apc) /\ pending' = pending \ {r} /\ apcs \in Seq(Apcs)
    BY <2>1 DEF Complete, TypeOK
  <2>4. \A i \in 1..Len(apcs') : apcs'[i].err = 0 =>
          i \in 1..Len(apcs) /\ apcs'[i] = apcs[i]
    BY <2>3
  <2>5. QED
    BY <2>2, <2>3, <2>4 DEF Calm, Busy, Delivered
<1>7. CASE DeviceSends \/ UNCHANGED vars
  BY <1>7 DEF DeviceSends, vars, host, kernel, device, Calm, Busy, Delivered
<1>8. QED
  BY <1>1, <1>2, <1>3, <1>4, <1>5, <1>6, <1>7 DEF Next, HostStep, Driver, Finished

\* Whatever lingers, a report the device gets is one the host has written, and one the
\* host gets is one the device has sent (HidDevice.cpp:576-590, 635-648).
THEOREM OnlyReportsOfCalls == Spec => []Ids
<1>1. Init => Ids
  BY DEF Init, Ids
<1>2. QED
  BY <1>1, IdsStep, TypeCorrect, PTL DEF Spec
=============================================================================
