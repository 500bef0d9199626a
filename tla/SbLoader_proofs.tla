-------------------------- MODULE SbLoader_proofs --------------------------
(***************************************************************************)
(* Handles and exit codes of the program, for every set of handles, every  *)
(* bus, any number of probes and options.                                  *)
(***************************************************************************)
EXTENDS SbLoader, SequenceTheorems, FiniteSetTheorems, WellFoundedInduction, TLAPS

LEMMA Least ==
  ASSUME NEW T \in SUBSET Nat, T # {}
  PROVE  \E x \in T : \A y \in T : x <= y
<1> DEFINE R == OpToRel(<, Nat)
<1>1. IsWellFoundedOn(R, Nat)
  BY NatLessThanWellFounded
<1>2. \A x \in Nat, y \in Nat : y < x => <<y, x>> \in R
  BY DEF OpToRel
<1> HIDE DEF R
<1>3. \E x \in T : \A y \in T : ~ (<<y, x>> \in R)
  BY <1>1, WFMin
<1>4. \A x, y \in T : x \in Nat /\ y \in Nat
  OBVIOUS
<1>5. \A x \in T, y \in T : ~ (<<y, x>> \in R) => x <= y
  BY <1>2, <1>4
<1> QED
  BY <1>3, <1>5

LEMMA SetInduction ==
  ASSUME NEW S \in SUBSET Nat, 0 \in S, \A n \in S : n + 1 \in S
  PROVE  S = Nat
<1> SUFFICES ASSUME Nat \ S # {} PROVE FALSE
  OBVIOUS
<1>1. PICK x \in Nat \ S : \A y \in Nat \ S : x <= y
  BY Least
<1>2. x # 0 /\ x - 1 \in Nat
  BY <1>1
<1>3. x - 1 \in S
  BY <1>1, <1>2
<1> QED
  BY <1>1, <1>3

Interfaces == [part : Parts, rev : {"A", "B"}]
MaybeHandle == Handles \cup {NULL}
Device_ == [made : BOOLEAN, handle : MaybeHandle, buffers : BOOLEAN, type : DevTypes]

LEMMA FreshHandle ==
  ASSUME CanOpen
  PROVE  Fresh \in Handles /\ Fresh \notin open
BY DEF CanOpen, Fresh

LEMMA KnownType ==
  ASSUME NEW i \in Interfaces, NEW t \in TypesOf(i), i.part # "none"
  PROVE  t \in DevTypes /\ t # "unset"
BY DEF TypesOf, DevTypes, Parts, Interfaces

-----------------------------------------------------------------------------
(* Types.                                                                   *)

LEMMA TypesInit ==
  ASSUME DiscoveryInit
  PROVE  DiscoveryTypeOK
<1>1. bus \in Seq([part : Parts, rev : {"A", "B"}])
  BY DiscoveryAssumption DEF DiscoveryInit
<1>2. obj \in [Objects -> [made : BOOLEAN, handle : Handles \cup {NULL}, buffers : BOOLEAN,
                           type : DevTypes]]
  BY DEF DiscoveryInit, Absent, DevTypes
<1>3. {index, limit, errors} \subseteq Nat
  BY DiscoveryAssumption DEF DiscoveryInit
<1> QED
  BY <1>1, <1>2, <1>3 DEF DiscoveryInit, DiscoveryTypeOK

\* A search step.
LEMMA TypesFind ==
  ASSUME DiscoveryTypeOK, FindStep
  PROVE  DiscoveryTypeOK'
<1> USE DiscoveryAssumption DEF found
<1>0. obj \in [Objects -> Device_] /\ who \in Objects /\ index \in Nat /\ limit \in Nat /\ errors \in Nat
  BY DEF DiscoveryTypeOK, Device_, MaybeHandle
<1>1. CASE MoreDevices
  BY <1>1, <1>0 DEF MoreDevices, DiscoveryTypeOK
<1>2. CASE NoMoreItems
  BY <1>2, <1>0 DEF NoMoreItems, OpenUsbReturns, DiscoveryTypeOK
<1>3. CASE EnumError
  BY <1>3, <1>0 DEF EnumError, DiscoveryTypeOK
<1>4. CASE NotOurs
  BY <1>4, <1>0 DEF NotOurs, DiscoveryTypeOK
<1>5. ASSUME Exists, Interface.part # "none", NEW t \in TypesOf(Interface)
      PROVE  [obj EXCEPT ![who].type = t] \in [Objects -> Device_]
  <2>1. Interface \in Interfaces
    <3>1. bus \in Seq(Interfaces)
      BY DEF DiscoveryTypeOK, Interfaces
    <3>2. QED
      BY <1>5, <1>0, <3>1 DEF Exists, Interface
  <2>2. t \in DevTypes
    BY <1>5, <2>1, KnownType
  <2>3. QED
    BY <1>0, <2>2 DEF Device_
<1>6. CASE OpenRefused
  <2>1. obj' \in [Objects -> Device_]
    BY <1>6, <1>0, <1>5 DEF OpenRefused
  <2>2. QED
    BY <1>6, <1>0, <2>1 DEF OpenRefused, DiscoveryTypeOK, Device_, MaybeHandle
<1>7. CASE OpenSpecifiedDevice
  <2>1. obj' \in [Objects -> Device_]
    BY <1>7, <1>0, <1>5 DEF OpenSpecifiedDevice
  <2>2. QED
    BY <1>7, <1>0, <2>1, FreshHandle
    DEF OpenSpecifiedDevice, OpenUsbReturns, DiscoveryTypeOK, Device_, MaybeHandle
<1>8. CASE Reopen
  <2>1. obj' \in [Objects -> Device_] /\ open' \subseteq Handles
    BY <1>8, <1>0, FreshHandle DEF Reopen, Device_, MaybeHandle, DiscoveryTypeOK
  <2>2. QED
    BY <1>8, <1>0, <2>1 DEF Reopen, DiscoveryTypeOK, Device_, MaybeHandle
<1>9. CASE CreateTxEvent
  BY <1>9, <1>0, FreshHandle DEF CreateTxEvent, DiscoveryTypeOK
<1>10. CASE CreateRxEvent
  BY <1>10, <1>0, FreshHandle DEF CreateRxEvent, DiscoveryTypeOK
<1>11. CASE CreateEventFails
  BY <1>11, <1>0 DEF CreateEventFails, DiscoveryTypeOK
<1>12. CASE AllocateRefused
  <2>1. obj' \in [Objects -> Device_]
    BY <1>12, <1>0 DEF AllocateRefused, Device_
  <2>2. QED
    BY <1>12, <1>0, <2>1 DEF AllocateRefused, DiscoveryTypeOK, Device_, MaybeHandle
<1>13. CASE AllocateIoBuffers
  <2>1. obj' \in [Objects -> Device_]
    BY <1>13, <1>0 DEF AllocateIoBuffers, Device_
  <2>2. QED
    BY <1>13, <1>0, <2>1 DEF AllocateIoBuffers, DiscoveryTypeOK, Device_, MaybeHandle
<1> QED
  BY <1>1, <1>2, <1>3, <1>4, <1>6, <1>7, <1>8, <1>9, <1>10, <1>11, <1>12, <1>13 DEF FindStep

\* What a step does to the search and to what it has found: most leave both alone.
LEMMA Steps ==
  ASSUME [Next]_vars
  PROVE  \/ UNCHANGED <<found, probe>>
         \/ UNCHANGED found /\ Returned
         \/ BusChanges
         \/ Step
         \/ NewDevice
         \/ Probe
         \/ \E o \in Objects : DeleteDevice(o)
BY DEF Next, Client, vars, AfxWinInit, ProcessCommandLine, NoFile, ReadFile, FileFails, OpenManager,
       ProbeFailed, FindHidDevice, StDownload, TaskWorks, TaskFails, TaskCrashes, Exit, Replug,
       Finished, OptFile, OptHelp, OptTss, OptTask, OptNoJump, OptRegister, OptOther, ArgsEnd

LEMMA TypesNext ==
  ASSUME DiscoveryTypeOK, [Next]_vars
  PROVE  DiscoveryTypeOK'
<1> USE DiscoveryAssumption DEF found, probe
<1>0. obj \in [Objects -> Device_]
  BY DEF DiscoveryTypeOK, Device_, MaybeHandle
<1>1. CASE UNCHANGED <<found, probe>>
  BY <1>1 DEF DiscoveryTypeOK
<1>2. CASE UNCHANGED found /\ Returned
  BY <1>2 DEF DiscoveryTypeOK, Returned
<1>3. CASE BusChanges
  BY <1>3 DEF DiscoveryTypeOK, BusChanges
<1>4. CASE Step
  BY <1>4, TypesFind DEF Step
<1>5. CASE NewDevice
  <2>1. stage \in Objects /\ Construct(stage)
    BY <1>5, SbLoaderAssumption DEF NewDevice
  <2>2. obj' \in [Objects -> Device_]
    BY <1>0, <2>1 DEF Construct, Absent, Device_, MaybeHandle, DevTypes
  <2>3. QED
    BY <1>5, <2>1, <2>2 DEF NewDevice, Construct, DiscoveryTypeOK, Device_, MaybeHandle
<1>6. CASE Probe
  <2>1. Searching \in Objects /\ FindKnownHidDevices(Searching)
    BY <1>6, SbLoaderAssumption DEF Probe, Searching
  <2>2. QED
    BY <2>1 DEF FindKnownHidDevices, DiscoveryTypeOK
<1>7. ASSUME NEW o \in Objects, DeleteDevice(o)
      PROVE  DiscoveryTypeOK'
  <2>1. obj' \in [Objects -> Device_]
    BY <1>0, <1>7 DEF DeleteDevice, Destroy, Absent, Device_, MaybeHandle, DevTypes
  <2>2. QED
    BY <1>7, <2>1 DEF DeleteDevice, Destroy, DiscoveryTypeOK, Device_, MaybeHandle
<1> QED
  BY <1>1, <1>2, <1>3, <1>4, <1>5, <1>6, <1>7, Steps

-----------------------------------------------------------------------------
(* Handles.                                                                 *)

LEMMA OwnedInit ==
  ASSUME DiscoveryInit
  PROVE  Owned
BY DEF DiscoveryInit, Owned, Held, Absent

\* A search step that opens a handle gets one that nobody holds.
LEMMA OwnedFind ==
  ASSUME DiscoveryTypeOK, Owned, FindStep
  PROVE  Owned'
<1> USE DiscoveryAssumption DEF found
<1>0. obj \in [Objects -> Device_] /\ who \in Objects
  BY DEF DiscoveryTypeOK, Device_, MaybeHandle
<1>1. ASSUME UNCHANGED <<tx, rx>>, open \subseteq open',
             \A o \in Objects : obj'[o].handle = obj[o].handle
      PROVE  Owned'
  BY <1>1 DEF Owned, Held
<1>2. CASE MoreDevices \/ NoMoreItems \/ EnumError \/ NotOurs
  BY <1>1, <1>2 DEF MoreDevices, NoMoreItems, EnumError, NotOurs
<1>3. CASE OpenRefused \/ OpenSpecifiedDevice \/ AllocateRefused \/ AllocateIoBuffers
  <2>1. \A o \in Objects : obj'[o].handle = obj[o].handle
    BY <1>0, <1>3 DEF OpenRefused, OpenSpecifiedDevice, AllocateRefused, AllocateIoBuffers, Device_
  <2>2. UNCHANGED <<tx, rx>> /\ open \subseteq open'
    BY <1>3 DEF OpenRefused, OpenSpecifiedDevice, AllocateRefused, AllocateIoBuffers
  <2>3. QED
    BY <1>1, <2>1, <2>2
<1>4. CASE Reopen
  <2>1. UNCHANGED <<tx, rx>>
    BY <1>4 DEF Reopen
  <2>2. \A o \in Objects : o # who => obj'[o].handle = obj[o].handle
    BY <1>0, <1>4 DEF Reopen, Device_
  <2>3. \/ obj'[who].handle = NULL /\ open' = open
        \/ obj'[who].handle \in Handles \ open /\ open' = open \cup {obj'[who].handle}
    BY <1>0, <1>4, FreshHandle DEF Reopen, Device_
  <2>4. QED
    BY <1>0, <2>1, <2>2, <2>3 DEF Owned, Held
<1>5. CASE CreateTxEvent \/ CreateRxEvent
  <2>1. obj' = obj
    BY <1>5 DEF CreateTxEvent, CreateRxEvent
  <2>2. \/ rx' = rx /\ tx' \in Handles \ open /\ open' = open \cup {tx'}
        \/ tx' = tx /\ rx' \in Handles \ open /\ open' = open \cup {rx'}
    BY <1>5, FreshHandle DEF CreateTxEvent, CreateRxEvent
  <2>3. QED
    BY <1>0, <2>1, <2>2 DEF Owned, Held
<1>6. CASE CreateEventFails
  BY <1>6 DEF CreateEventFails, Owned, Held
<1> QED
  BY <1>2, <1>3, <1>4, <1>5, <1>6 DEF FindStep

LEMMA OwnedNext ==
  ASSUME DiscoveryTypeOK, Owned, [Next]_vars
  PROVE  Owned'
<1> USE DiscoveryAssumption DEF found, probe
<1>0. obj \in [Objects -> Device_]
  BY DEF DiscoveryTypeOK, Device_, MaybeHandle
<1>1. CASE UNCHANGED <<found, probe>> \/ (UNCHANGED found /\ Returned) \/ BusChanges \/ Probe
  <2>1. UNCHANGED <<open, tx, rx, obj>>
    BY <1>1 DEF BusChanges, Probe, FindKnownHidDevices
  <2>2. QED
    BY <2>1 DEF Owned, Held
<1>2. CASE Step
  BY <1>2, OwnedFind DEF Step
<1>3. CASE NewDevice
  <2>1. open' = open /\ tx' = NULL /\ rx' = NULL
    BY <1>3 DEF NewDevice, Construct
  <2>2. stage \in Objects /\ obj'[stage].handle = NULL
        /\ \A o \in Objects : o # stage => obj'[o].handle = obj[o].handle
    BY <1>0, <1>3, SbLoaderAssumption DEF NewDevice, Construct, Absent, Device_
  <2>3. QED
    BY <1>0, <2>1, <2>2 DEF Owned, Held
<1>4. ASSUME NEW o \in Objects, DeleteDevice(o)
      PROVE  Owned'
  <2>1. tx' = NULL /\ rx' = NULL /\ open' = open \ {obj[o].handle, tx, rx}
    BY <1>4 DEF DeleteDevice, Destroy
  <2>2. obj'[o].handle = NULL
        /\ \A p \in Objects : p # o => obj'[p].handle = obj[p].handle
    BY <1>0, <1>4 DEF DeleteDevice, Destroy, Absent, Device_
  <2>3. QED
    BY <1>0, <2>1, <2>2 DEF Owned, Held
<1> QED
  BY <1>1, <1>2, <1>3, <1>4, Steps

\* Every handle a variable holds is open and held once (HidDevice.cpp:33, :59-82,
\* :520-551), for any number of handles, interfaces and probes.
THEOREM HandlesOwned == Spec => []Owned
<1>1. Init => DiscoveryTypeOK /\ Owned
  BY TypesInit, OwnedInit DEF Init
<1>2. DiscoveryTypeOK /\ Owned /\ [Next]_vars => (DiscoveryTypeOK /\ Owned)'
  BY TypesNext, OwnedNext
<1> QED
  BY <1>1, <1>2, PTL DEF Spec

-----------------------------------------------------------------------------
(* The course of the two searches.                                          *)

Finding == {"findSt", "findMx"}
Complete(o) == obj[o].handle # NULL /\ obj[o].type # "unset"

\* Which objects there are, and what the one that is searching has got so far.
Course ==
  /\ stage \in {"start", "args", "file", "manager", "st"} => ~obj["st"].made
  /\ stage \in {"findSt", "mx"} => obj["st"].made
  /\ stage \in {"start", "args", "file", "manager", "st", "findSt", "mx"} => ~obj["mx"].made
  /\ stage = "findMx" => obj["st"].made /\ obj["mx"].made
  /\ step # "idle" => stage \in Finding /\ who = Searching

Progress ==
  /\ \A o \in Objects : obj[o].buffers => obj[o].made /\ Complete(o)
  /\ step = "reopen" => obj[who].type # "unset"
  /\ step \in {"txEvent", "rxEvent", "buffers", "found"} => Complete(who)
  /\ step \in {"rxEvent", "buffers", "found"} => tx # NULL
  /\ step \in {"buffers", "found"} => rx # NULL
  /\ stage \in Finding /\ step # "found" => ~obj[Searching].buffers

\* What is left of the searches when the task starts.
Outcome ==
  /\ stage \in {"mx", "findMx", "task"} => Complete("st")
  /\ stage \in {"mx", "findMx"} => obj["st"].type # "MX28"
  /\ stage = "task" =>
       /\ obj["st"].made
       /\ obj["mx"].made <=> obj["st"].type # "MX28"
       /\ ~obj["mx"].made \/ obj["mx"].buffers => tx # NULL /\ rx # NULL

\* An object that is not there holds nothing, and without one there are no events.
Absence ==
  /\ \A o \in Objects : ~obj[o].made => obj[o].handle = NULL
  /\ tx # NULL \/ rx # NULL => obj["st"].made \/ obj["mx"].made

SearchInv == Course /\ Progress /\ Outcome /\ Absence

LEMMA SearchInit ==
  ASSUME Init
  PROVE  SearchInv
BY SbLoaderAssumption
DEF Init, DiscoveryInit, Absent, SearchInv, Course, Progress, Outcome, Absence, Complete, Finding

\* A search changes the object that searches only, and leaves it the object it was.
LEMMA FindChanges ==
  ASSUME DiscoveryTypeOK, FindStep
  PROVE  /\ who' = who
         /\ obj' \in [Objects -> Device_]
         /\ \A o \in Objects : obj'[o].made = obj[o].made
         /\ \A o \in Objects : o # who => obj'[o] = obj[o]
<1> USE DEF found
<1>0. obj \in [Objects -> Device_] /\ who \in Objects
  BY DEF DiscoveryTypeOK, Device_, MaybeHandle
<1>1. obj' \in [Objects -> Device_]
  BY TypesFind DEF DiscoveryTypeOK, Device_, MaybeHandle
<1>2. \/ obj' = obj
      \/ \E t \in DevTypes : obj' = [obj EXCEPT ![who].type = t]
      \/ \E h \in MaybeHandle : obj' = [obj EXCEPT ![who].handle = h]
      \/ \E b \in BOOLEAN : obj' = [obj EXCEPT ![who].buffers = b]
  <2>1. CASE OpenRefused \/ OpenSpecifiedDevice
    <3>1. bus \in Seq(Interfaces) /\ index \in Nat
      BY DEF DiscoveryTypeOK, Interfaces
    <3>2. Interface \in Interfaces /\ Interface.part # "none"
      BY <2>1, <3>1 DEF OpenRefused, OpenSpecifiedDevice, Exists, Interface
    <3>3. QED
      BY <2>1, <3>2, KnownType DEF OpenRefused, OpenSpecifiedDevice
  <2>2. CASE Reopen
    BY <2>2, FreshHandle DEF Reopen, MaybeHandle
  <2>3. CASE ~(OpenRefused \/ OpenSpecifiedDevice \/ Reopen)
    BY <2>3 DEF FindStep, MoreDevices, NoMoreItems, EnumError, NotOurs, CreateTxEvent, CreateRxEvent,
                CreateEventFails, AllocateRefused, AllocateIoBuffers
  <2> QED
    BY <2>1, <2>2, <2>3
<1>3. who' = who
  BY DEF FindStep, MoreDevices, NoMoreItems, EnumError, NotOurs, OpenRefused, OpenSpecifiedDevice,
         Reopen, CreateTxEvent, CreateRxEvent, CreateEventFails, AllocateRefused, AllocateIoBuffers
<1> QED
  BY <1>0, <1>1, <1>2, <1>3 DEF Device_

LEMMA SearchFind ==
  ASSUME DiscoveryTypeOK, SearchInv, FindStep, UNCHANGED program
  PROVE  SearchInv'
<1> USE DEF found, program, Finding
<1>0. /\ obj \in [Objects -> Device_] /\ who \in Objects
      /\ stage' = stage /\ stage \in Finding /\ who = Searching /\ Searching' = Searching
  BY DEF DiscoveryTypeOK, Device_, MaybeHandle, SearchInv, Course, FindStep, Searching,
         MoreDevices, NoMoreItems, EnumError, Enumerating, NotOurs, OpenRefused, OpenSpecifiedDevice,
         Reopen, CreateTxEvent, CreateRxEvent, CreateEventFails, AllocateRefused, AllocateIoBuffers
<1>1. Course' /\ who' = who
  BY <1>0, FindChanges, SbLoaderAssumption DEF SearchInv, Course
<1>2. Absence'
  <2>1. stage = "findSt" => obj["st"].made
    BY DEF SearchInv, Course
  <2>2. stage = "findMx" => obj["mx"].made
    BY DEF SearchInv, Course
  <2>3. obj[who].made
    BY <1>0, <2>1, <2>2 DEF Searching
  <2>4. \A o \in Objects : o # who => obj'[o] = obj[o]
    BY FindChanges
  <2>5. \A o \in Objects : obj'[o].made = obj[o].made
    BY FindChanges
  <2>6. QED
    BY <1>0, <2>3, <2>4, <2>5, SbLoaderAssumption DEF SearchInv, Absence
<1>3. Outcome'
  <2>1. stage \in {"mx", "findMx", "task"} => who = "mx" /\ stage = "findMx"
    BY <1>0 DEF Searching
  <2>2. stage = "findMx" => obj'["st"] = obj["st"]
    BY <2>1, FindChanges, SbLoaderAssumption
  <2>3. QED
    BY <1>0, <2>1, <2>2 DEF SearchInv, Outcome, Complete
<1>4. Progress'
  <2>0. \A o \in Objects : o # who => obj'[o] = obj[o]
    BY FindChanges
  <2>00. obj[who].made /\ obj'[who].made
    <3>1. \A o \in Objects : obj'[o].made = obj[o].made
      BY FindChanges
    <3>2. QED
      BY <1>0, <3>1 DEF SearchInv, Course, Searching
  <2>1. step # "found" => ~obj[who].buffers
    BY <1>0 DEF SearchInv, Progress
  <2>2. CASE MoreDevices \/ NoMoreItems \/ EnumError \/ NotOurs
    BY <1>0, <1>1, <2>2 DEF SearchInv, Progress, Complete, MoreDevices, NoMoreItems, EnumError, NotOurs, Enumerating
  <2>3. CASE OpenRefused
    <3>1. ~obj'[who].buffers
      BY <1>0, <2>1, <2>3 DEF OpenRefused, Enumerating, Device_
    <3>2. step' = "enumerate" /\ UNCHANGED <<tx, rx>>
      BY <2>3 DEF OpenRefused, Enumerating
    <3>3. QED
      BY <1>0, <1>1, <2>0, <3>1, <3>2 DEF SearchInv, Progress, Complete
  <2>4. CASE OpenSpecifiedDevice
    <3>1. ~obj'[who].buffers
      BY <1>0, <2>1, <2>4 DEF OpenSpecifiedDevice, Enumerating, Device_
    <3>2. step' = "reopen" /\ UNCHANGED <<tx, rx>>
      BY <2>4 DEF OpenSpecifiedDevice
    <3>3. obj'[who].type # "unset"
      <4>1. bus \in Seq(Interfaces) /\ index \in Nat
        BY DEF DiscoveryTypeOK, Interfaces
      <4>2. Interface \in Interfaces /\ Interface.part # "none"
        BY <2>4, <4>1 DEF OpenSpecifiedDevice, Exists, Interface
      <4>3. QED
        BY <1>0, <2>4, <4>2, KnownType DEF OpenSpecifiedDevice, Device_
    <3>4. QED
      BY <1>0, <1>1, <2>0, <3>1, <3>2, <3>3 DEF SearchInv, Progress, Complete
  <2>5. CASE Reopen
    <3>1. ~obj'[who].buffers /\ obj'[who].type = obj[who].type /\ obj[who].type # "unset"
      BY <1>0, <2>1, <2>5 DEF Reopen, Device_, SearchInv, Progress
    <3>2. UNCHANGED <<tx, rx>>
      BY <2>5 DEF Reopen
    <3>3. step' = "failed" \/ (step' = "txEvent" /\ obj'[who].handle # NULL)
      BY <1>0, <2>5, FreshHandle, DiscoveryAssumption DEF Reopen, Device_
    <3>4. QED
      BY <1>0, <1>1, <2>0, <3>1, <3>2, <3>3 DEF SearchInv, Progress, Complete
  <2>6. CASE CreateTxEvent \/ CreateRxEvent \/ CreateEventFails
    <3>1. UNCHANGED obj /\ ~obj[who].buffers
      BY <2>1, <2>6 DEF CreateTxEvent, CreateRxEvent, CreateEventFails
    <3>2. CASE CreateTxEvent
      BY <1>0, <1>1, <3>1, <3>2, FreshHandle, DiscoveryAssumption
      DEF CreateTxEvent, SearchInv, Progress, Complete
    <3>3. CASE CreateRxEvent
      BY <1>0, <1>1, <3>1, <3>3, FreshHandle, DiscoveryAssumption
      DEF CreateRxEvent, SearchInv, Progress, Complete
    <3>4. CASE CreateEventFails
      BY <1>0, <1>1, <3>1, <3>4 DEF CreateEventFails, SearchInv, Progress, Complete
    <3>5. QED
      BY <2>6, <3>2, <3>3, <3>4
  <2>7. CASE AllocateRefused
    <3>1. ~obj'[who].buffers
      BY <1>0, <2>1, <2>7 DEF AllocateRefused, Device_
    <3>2. step' = "failed"
      BY <2>7 DEF AllocateRefused
    <3>3. QED
      BY <1>0, <1>1, <2>0, <3>1, <3>2 DEF SearchInv, Progress, Complete
  <2>8. CASE AllocateIoBuffers
    <3>1. obj'[who].handle = obj[who].handle /\ obj'[who].type = obj[who].type
      BY <1>0, <2>8 DEF AllocateIoBuffers, Device_
    <3>2. step = "buffers" /\ step' = "found" /\ UNCHANGED <<tx, rx>>
      BY <2>8 DEF AllocateIoBuffers
    <3>3. QED
      BY <1>0, <1>1, <2>0, <2>00, <3>1, <3>2 DEF SearchInv, Progress, Complete
  <2> QED
    BY <2>2, <2>3, <2>4, <2>5, <2>6, <2>7, <2>8 DEF FindStep
<1> QED
  BY <1>1, <1>2, <1>3, <1>4 DEF SearchInv

\* The program's own steps, by what they do to the stage.
LEMMA SearchNext ==
  ASSUME DiscoveryTypeOK, SearchInv, [Next]_vars
  PROVE  SearchInv'
<1> USE DEF found, probe, program, result, held, options
<1> DEFINE Early == {"start", "args", "file", "manager", "st"}
<1>0. obj \in [Objects -> Device_]
  BY DEF DiscoveryTypeOK, Device_, MaybeHandle
<1>1. ASSUME UNCHANGED <<found, probe>>,
             \/ stage' = stage
             \/ stage \in Early /\ stage' \in Early \cup {"exit"}
             \/ stage \in {"task", "exit"} /\ stage' \in {"exit", "returned", "crashed", "ended"}
      PROVE  SearchInv'
  BY <1>1 DEF SearchInv, Course, Progress, Outcome, Absence, Complete, Finding, Searching
<1>2. CASE AfxWinInit \/ ProcessCommandLine \/ NoFile \/ ReadFile \/ FileFails \/ OpenManager
  BY <1>1, <1>2 DEF AfxWinInit, ProcessCommandLine, OptFile, OptHelp, OptTss, OptTask, OptNoJump,
                    OptRegister, OptOther, ArgsEnd, At, NoFile, ReadFile, FileFails, OpenManager
<1>3. CASE StDownload \/ TaskWorks \/ TaskFails \/ TaskCrashes \/ Exit \/ Finished \/ UNCHANGED vars
  BY <1>1, <1>3 DEF StDownload, TaskWorks, TaskFails, Fails, TaskCrashes, Exit, Finished, vars
<1>4. CASE NewDevice
  <2>1. stage \in Objects /\ ~obj[stage].made /\ tx' = NULL /\ rx' = NULL /\ UNCHANGED probe
        /\ obj' = [obj EXCEPT ![stage] = [Absent EXCEPT !.made = TRUE]]
    BY <1>4, SbLoaderAssumption DEF NewDevice, Construct
  <2>2. /\ obj'[stage].made /\ ~obj'[stage].buffers /\ obj'[stage].handle = NULL
        /\ \A o \in Objects : o # stage => obj'[o] = obj[o]
    <3>1. obj'[stage] = [Absent EXCEPT !.made = TRUE]
      BY <1>0, <2>1
    <3>2. \A o \in Objects : o # stage => obj'[o] = obj[o]
      BY <1>0, <2>1
    <3>3. obj'[stage].made
      BY <3>1, Zenon DEF Absent
    <3>4. obj'[stage].handle = NULL
      BY <3>1 DEF Absent
    <3>5. ~obj'[stage].buffers
      BY <3>1, Zenon DEF Absent
    <3>6. QED
      BY <3>2, <3>3, <3>4, <3>5
  <2>3. (stage = "st" /\ stage' = "findSt") \/ (stage = "mx" /\ stage' = "findMx")
    BY <1>4 DEF NewDevice
  <2>4. step = "idle"
    BY <2>3 DEF SearchInv, Course, Finding
  <2>5. QED
    BY <1>0, <2>1, <2>2, <2>3, <2>4, SbLoaderAssumption
    DEF SearchInv, Course, Progress, Outcome, Absence, Complete, Finding, Searching
<1>5. CASE Probe
  <2>1. /\ UNCHANGED <<found, stage>> /\ step = "idle" /\ step' = "enumerate" /\ who' = Searching
        /\ stage \in Finding
    BY <1>5 DEF Probe, FindKnownHidDevices, Finding
  <2>2. QED
    BY <2>1 DEF SearchInv, Course, Progress, Outcome, Absence, Complete, Finding, Searching
<1>6. CASE Step
  BY <1>6, SearchFind DEF Step
<1>7. CASE ProbeFailed \/ Replug
  <2>1. UNCHANGED <<tx, rx, obj, who, stage>> /\ step' = "idle" /\ step # "found"
    BY <1>7 DEF ProbeFailed, Replug, Returned, BusChanges
  <2>2. QED
    BY <2>1 DEF SearchInv, Course, Progress, Outcome, Absence, Complete, Finding, Searching
<1>8. CASE FindHidDevice
  <2>1. /\ UNCHANGED <<found, who>> /\ step' = "idle" /\ step \in {"found", "failed"}
        /\ stage \in Finding /\ Leave
    BY <1>8 DEF FindHidDevice, Returned, Finding
  <2>2. CASE stage = "findSt"
    <3>1. \/ stage' = "exit"
          \/ step = "found" /\ obj["st"].type = "MX28" /\ stage' = "task"
          \/ step = "found" /\ obj["st"].type # "MX28" /\ stage' = "mx"
      BY <2>1, <2>2 DEF Leave
    <3>2. obj["st"].made /\ ~obj["mx"].made /\ (step = "found" => Complete("st") /\ tx # NULL /\ rx # NULL)
      BY <2>1, <2>2 DEF SearchInv, Course, Progress, Searching
    <3>3. QED
      BY <2>1, <2>2, <3>1, <3>2
      DEF SearchInv, Course, Progress, Outcome, Absence, Complete, Finding
  <2>3. CASE stage = "findMx"
    <3>1. stage' = "task"
      BY <2>1, <2>3 DEF Leave
    <3>2. /\ obj["st"].made /\ obj["mx"].made /\ Complete("st") /\ obj["st"].type # "MX28"
          /\ obj["mx"].buffers => tx # NULL /\ rx # NULL
      BY <2>1, <2>3 DEF SearchInv, Course, Progress, Outcome, Searching
    <3>3. QED
      BY <2>1, <2>3, <3>1, <3>2
      DEF SearchInv, Course, Progress, Outcome, Absence, Complete, Finding
  <2> QED
    BY <2>1, <2>2, <2>3 DEF Finding
<1>9. ASSUME NEW o \in Objects, DeleteDevice(o)
      PROVE  SearchInv'
  <2>1. /\ stage = "exit" /\ stage' = "exit" /\ step = "idle" /\ step' = "idle"
        /\ tx' = NULL /\ rx' = NULL /\ obj' = [obj EXCEPT ![o] = Absent]
    BY <1>9 DEF DeleteDevice, Destroy
  <2>2. QED
    BY <1>0, <2>1 DEF SearchInv, Course, Progress, Outcome, Absence, Complete, Finding, Absent
<1> QED
  BY <1>2, <1>3, <1>4, <1>5, <1>6, <1>7, <1>8, <1>9 DEF Next, Client

\* A task finds the part of the first search open; and the device it uses, with both events,
\* unless a second search was made that left its object without report buffers
\* (sb_loader.cpp:236-240).
THEOREM TasksAreReady == Spec => []TaskReady
<1>1. Init => DiscoveryTypeOK /\ SearchInv
  BY TypesInit, SearchInit DEF Init
<1>2. DiscoveryTypeOK /\ SearchInv /\ [Next]_vars => (DiscoveryTypeOK /\ SearchInv)'
  BY TypesNext, SearchNext
<1>3. SearchInv => TaskReady
  BY SbLoaderAssumption DEF SearchInv, Progress, Outcome, Complete, TaskReady, Device, Type
<1> QED
  BY <1>1, <1>2, <1>3, PTL DEF Spec

-----------------------------------------------------------------------------
(* The way out.                                                             *)

\* A handle can get lost in the searches only.
LEMMA NothingLost ==
  ASSUME DiscoveryTypeOK, Course, [Next]_vars, stage \notin {"st", "mx", "findSt", "findMx"}
  PROVE  lost' \subseteq lost
<1> USE DEF found, probe
<1>0. obj \in [Objects -> Device_]
  BY DEF DiscoveryTypeOK, Device_, MaybeHandle
<1>1. CASE UNCHANGED <<found, probe>> \/ (UNCHANGED found /\ Returned) \/ BusChanges \/ Probe
  <2>1. UNCHANGED <<open, tx, rx, obj>>
    BY <1>1 DEF BusChanges, Probe, FindKnownHidDevices
  <2>2. QED
    BY <2>1 DEF lost, Held
<1>2. CASE Step
  <2>1. step # "idle"
    BY <1>2 DEF Step, FindStep, MoreDevices, NoMoreItems, EnumError, Enumerating, NotOurs, OpenRefused,
                OpenSpecifiedDevice, Reopen, CreateTxEvent, CreateRxEvent, CreateEventFails,
                AllocateRefused, AllocateIoBuffers
  <2>2. QED
    BY <2>1 DEF Course, Finding
<1>3. CASE NewDevice
  BY <1>3 DEF NewDevice
<1>4. ASSUME NEW o \in Objects, DeleteDevice(o)
      PROVE  lost' \subseteq lost
  <2>1. open' = open \ {obj[o].handle, tx, rx}
    BY <1>4 DEF DeleteDevice, Destroy
  <2>2. \A p \in Objects : p # o => obj'[p].handle = obj[p].handle
    BY <1>0, <1>4 DEF DeleteDevice, Destroy
  <2>3. QED
    BY <2>1, <2>2 DEF lost, Held
<1> QED
  BY <1>1, <1>2, <1>3, <1>4, Steps

\* A handle is lost only where OpenUsbDevice's is dropped, a search is repeated or an
\* object constructed, never in a task or on the way out (HidDevice.cpp:520-551, :41).
THEOREM NoLossOnTheWayOut == Spec => LosesOnlyInSearch
<1>1. Init => DiscoveryTypeOK /\ SearchInv
  BY TypesInit, SearchInit DEF Init
<1>2. DiscoveryTypeOK /\ SearchInv /\ [Next]_vars => (DiscoveryTypeOK /\ SearchInv)'
  BY TypesNext, SearchNext
<1>3. DiscoveryTypeOK /\ SearchInv /\ [Next]_vars
        => [lost' \subseteq lost \/ stage \in {"st", "mx", "findSt", "findMx"}]_vars
  BY NothingLost DEF SearchInv
<1> QED
  BY <1>1, <1>2, <1>3, PTL DEF Spec, LosesOnlyInSearch

\* What Exit leaves stays so: at the end there are no more steps.
Left ==
  stage = "ended" =>
    /\ \A o \in Objects : ~obj[o].made
    /\ manager \in {"none", "closed"} /\ data = "none"

LEMMA LeftNext ==
  ASSUME Course, Left, [Next]_vars
  PROVE  Left'
<1> USE DEF found, probe, program, result, held, options
<1>1. CASE Exit
  BY <1>1 DEF Exit, Left
<1>2. CASE Finished \/ UNCHANGED vars
  BY <1>2 DEF Finished, vars, Left
<1>3. CASE AfxWinInit \/ ProcessCommandLine \/ NoFile \/ ReadFile \/ FileFails \/ OpenManager \/ NewDevice
  BY <1>3 DEF AfxWinInit, ProcessCommandLine, OptFile, OptHelp, OptTss, OptTask, OptNoJump, OptRegister,
              OptOther, ArgsEnd, At, NoFile, ReadFile, FileFails, OpenManager, NewDevice, Left
<1>4. CASE Probe \/ FindHidDevice \/ Replug
  BY <1>4 DEF Probe, FindHidDevice, Replug, Leave, Left
<1>5. CASE Step \/ ProbeFailed
  <2>1. step # "idle" /\ stage' = stage
    BY <1>5 DEF Step, FindStep, MoreDevices, NoMoreItems, EnumError, Enumerating, NotOurs, OpenRefused,
                OpenSpecifiedDevice, Reopen, CreateTxEvent, CreateRxEvent, CreateEventFails,
                AllocateRefused, AllocateIoBuffers, ProbeFailed
  <2>2. QED
    BY <2>1 DEF Course, Finding, Left
<1>6. CASE StDownload \/ TaskWorks \/ TaskFails \/ TaskCrashes
  BY <1>6 DEF StDownload, TaskWorks, TaskFails, Fails, EarlyReturn, TaskCrashes, Left
<1>7. ASSUME NEW o \in Objects, DeleteDevice(o)
      PROVE  Left'
  BY <1>7 DEF DeleteDevice, Left
<1> QED
  BY <1>1, <1>2, <1>3, <1>4, <1>5, <1>6, <1>7 DEF Next, Client

\* Through ExitMain no variable holds a handle any more, the manager is closed and
\* the file freed (sb_loader.cpp:200-218).
THEOREM WayOutReleases == Spec => []ExitMainReleases
<1>1. Init => DiscoveryTypeOK /\ SearchInv /\ Left
  BY TypesInit, SearchInit DEF Init, Left
<1>2. DiscoveryTypeOK /\ SearchInv /\ Left /\ [Next]_vars => (DiscoveryTypeOK /\ SearchInv /\ Left)'
  BY TypesNext, SearchNext, LeftNext DEF SearchInv
<1>3. SearchInv /\ Left => ExitMainReleases
  BY SbLoaderAssumption DEF SearchInv, Absence, Left, ExitMainReleases, Held
<1> QED
  BY <1>1, <1>2, <1>3, PTL DEF Spec

-----------------------------------------------------------------------------
(* The exit code.                                                           *)

\* Up to the task nothing has gone wrong; from then on the code says what became of it.
Codes ==
  /\ stage \notin {"exit", "ended", "returned", "crashed"} => rc = 0 /\ done = "not yet"
  /\ done \in {"not yet", "ok", "failed"}
  /\ done = "ok" => rc = 0
  /\ done = "failed" => rc # 0

LEMMA CodesNext ==
  ASSUME Codes, [Next]_vars
  PROVE  Codes'
<1> USE DEF found, probe, program, result, held, options
<1>1. ASSUME UNCHANGED result,
             \/ stage' = stage
             \/ stage \notin {"exit", "ended", "returned", "crashed"}
             \/ stage' \in {"exit", "ended", "returned", "crashed"}
      PROVE  Codes'
  BY <1>1 DEF Codes
<1>2. CASE AfxWinInit \/ FileFails
  BY <1>2 DEF AfxWinInit, FileFails, Codes
<1>3. CASE ProcessCommandLine \/ NoFile \/ ReadFile \/ OpenManager \/ NewDevice
  BY <1>1, <1>3 DEF ProcessCommandLine, OptFile, OptHelp, OptTss, OptTask, OptNoJump, OptRegister,
              OptOther, ArgsEnd, At, NoFile, ReadFile, OpenManager, NewDevice
<1>4. CASE Probe \/ FindHidDevice \/ Replug \/ Step \/ ProbeFailed
  BY <1>1, <1>4 DEF Probe, FindHidDevice, Replug, Step, ProbeFailed
<1>5. ASSUME \/ done' = "ok" /\ rc' = 0
             \/ done' = "failed" /\ rc' # 0,
             stage' \in {"exit", "ended", "returned", "crashed"}
      PROVE  Codes'
  BY <1>5 DEF Codes
<1>6. CASE StDownload \/ TaskWorks \/ TaskFails
  <2>1. stage = "task" /\ rc = 0
    BY <1>6 DEF StDownload, TaskWorks, TaskFails, Codes
  <2>2. stage' \in {"exit", "returned"}
    BY <1>6 DEF StDownload, TaskWorks, TaskFails, Fails
  <2>3. CASE StDownload \/ TaskWorks
    BY <1>5, <2>1, <2>2, <2>3 DEF StDownload, TaskWorks, Fails
  <2>4. CASE TaskFails
    <3>1. done' = "failed" /\ (rc' \in {3, -1} \/ rc' = 5 \/ \E t \in DOMAIN EarlyReturn : rc' = EarlyReturn[t])
      BY <2>4 DEF TaskFails, Fails
    <3>2. rc' # 0
      BY <3>1 DEF EarlyReturn
    <3>3. QED
      BY <1>5, <2>2, <3>1, <3>2
  <2>5. QED
    BY <1>6, <2>3, <2>4
<1>7. CASE TaskCrashes \/ Exit \/ Finished \/ UNCHANGED vars
  BY <1>1, <1>7 DEF TaskCrashes, Exit, Finished, vars
<1>8. ASSUME NEW o \in Objects, DeleteDevice(o)
      PROVE  Codes'
  BY <1>1, <1>8 DEF DeleteDevice
<1> QED
  BY <1>2, <1>3, <1>4, <1>6, <1>7, <1>8 DEF Next, Client

\* Once a task was started the exit code is 0 exactly when it worked
\* (sb_loader.cpp:113-196).
THEOREM ExitCodes == Spec => []ExitCodeTells
<1>1. Init => Codes
  BY DEF Init, Codes
<1>2. Codes /\ [Next]_vars => Codes'
  BY CodesNext
<1>3. Codes => ExitCodeTells
  BY DEF Codes, ExitCodeTells
<1> QED
  BY <1>1, <1>2, <1>3, PTL DEF Spec

-----------------------------------------------------------------------------
(* The file a task works on.                                                *)

Unsupplied == {"EXEC", "READ", "WRITE"}
Underway == {"manager", "st", "findSt", "mx", "findMx", "task"}

\* The options may come in any order, and -rd and -wr end the loop without the test at its
\* end: only when all of them are read is it settled which tasks may lack a file.
Supplied ==
  /\ stage \in {"start", "args", "file"} => data \in {"none", "named"}
  /\ stage = "file" => data = "named" \/ task \in Unsupplied
  /\ stage \in Underway => data \in {"empty", "some"} \/ task \in Unsupplied

LEMMA SuppliedNext ==
  ASSUME Supplied, [Next]_vars
  PROVE  Supplied'
<1> USE DEF program, result, held, options, Unsupplied, Underway
<1>1. CASE AfxWinInit
  BY <1>1 DEF AfxWinInit, Supplied
<1>2. CASE OptFile
  <2>1. stage = "args" /\ stage' = "args" /\ data' \in {"named", "none"}
    BY <1>2 DEF OptFile, At
  <2>2. QED
    BY <2>1 DEF Supplied
<1>3. CASE OptHelp \/ OptTss \/ OptTask \/ OptNoJump \/ OptOther
  <2>1. stage = "args" /\ stage' = "args" /\ data' = data
    BY <1>3 DEF OptHelp, OptTss, OptTask, OptNoJump, OptOther, At
  <2>2. QED
    BY <2>1 DEF Supplied
<1>4. CASE OptRegister
  <2>1. stage = "args" /\ stage' = "file" /\ data' = data /\ task' \in {"READ", "WRITE"}
    BY <1>4 DEF OptRegister, At
  <2>2. QED
    BY <2>1 DEF Supplied
<1>5. CASE ArgsEnd
  <2>1. /\ stage = "args" /\ UNCHANGED <<data, task>>
        /\ stage' = "exit" \/ (stage' = "file" /\ (data = "named" \/ task = "EXEC"))
    BY <1>5 DEF ArgsEnd
  <2>2. QED
    BY <2>1 DEF Supplied
<1>6. CASE NoFile \/ ReadFile \/ FileFails
  BY <1>6 DEF NoFile, ReadFile, FileFails, Supplied
<1>7. CASE OpenManager \/ NewDevice \/ FindHidDevice
  <2>1. stage \in Underway /\ stage' \in Underway \cup {"exit"} /\ UNCHANGED <<data, task>>
    BY <1>7 DEF OpenManager, NewDevice, FindHidDevice, Leave
  <2>2. QED
    BY <2>1 DEF Supplied
<1>8. CASE Probe \/ Step \/ ProbeFailed \/ Replug \/ Finished \/ UNCHANGED vars
  <2>1. UNCHANGED <<stage, data, task>>
    BY <1>8 DEF Probe, Step, ProbeFailed, Replug, Finished, vars
  <2>2. QED
    BY <2>1 DEF Supplied
<1>9. CASE StDownload \/ TaskWorks \/ TaskFails \/ TaskCrashes \/ Exit
  <2>1. stage' \in {"exit", "returned", "crashed", "ended"}
    BY <1>9 DEF StDownload, TaskWorks, TaskFails, Fails, TaskCrashes, Exit
  <2>2. QED
    BY <2>1 DEF Supplied
<1>10. ASSUME NEW o \in Objects, DeleteDevice(o)
       PROVE  Supplied'
  BY <1>10 DEF DeleteDevice, Supplied
<1> QED
  BY <1>1, <1>2, <1>3, <1>4, <1>5, <1>6, <1>7, <1>8, <1>9, <1>10
  DEF Next, Client, ProcessCommandLine

\* A task that reads the file on an i.MX has one, possibly empty, in whatever order the
\* options came and however many there are (sb_loader.cpp:85-100, :477-483).
THEOREM TasksHaveData == Spec => []TaskHasData
<1>1. Init => Supplied
  BY DEF Init, Supplied, Underway
<1>2. Supplied /\ [Next]_vars => Supplied'
  BY SuppliedNext
<1>3. Supplied => TaskHasData
  BY DEF Supplied, TaskHasData, Unsupplied, Underway
<1> QED
  BY <1>1, <1>2, <1>3, PTL DEF Spec

-----------------------------------------------------------------------------
(* Command lines put together from their options.                          *)

LEMMA FlattenExists ==
  ASSUME NEW us, NEW n \in Nat
  PROVE  \E f : f = [i \in 1..n |-> IF i = 1 THEN us[i] ELSE f[i-1] \o us[i]]
<1> DEFINE Is(f, m) == f = [i \in 1..m |-> IF i = 1 THEN us[i] ELSE f[i-1] \o us[i]]
           S == {m \in Nat : \E f : Is(f, m)}
<1>1. 0 \in S
  <2>1. Is([i \in 1..0 |-> 0], 0)
    OBVIOUS
  <2> QED
    BY <2>1
<1>2. ASSUME NEW m \in S
      PROVE  m + 1 \in S
  <2>0. m \in Nat
    OBVIOUS
  <2>1. PICK f : Is(f, m)
    OBVIOUS
  <2> DEFINE g == [i \in 1..(m + 1) |-> IF i = m + 1 THEN IF i = 1 THEN us[i] ELSE f[i-1] \o us[i]
                                        ELSE f[i]]
  <2>2. \A i \in 1..(m + 1) : g[i] = IF i = 1 THEN us[i] ELSE g[i-1] \o us[i]
    <3> SUFFICES ASSUME NEW i \in 1..(m + 1)
                 PROVE  g[i] = IF i = 1 THEN us[i] ELSE g[i-1] \o us[i]
      OBVIOUS
    <3>1. CASE i = 1
      BY <3>1, <2>1
    <3>2. CASE i # 1
      <4>1. i - 1 \in 1..(m + 1) /\ i - 1 \in 1..m
        BY <3>2
      <4>2. g[i - 1] = f[i - 1]
        BY <4>1
      <4>3. CASE i = m + 1
        BY <3>2, <4>2, <4>3
      <4>4. CASE i # m + 1
        <5>1. i \in 1..m
          BY <4>4
        <5>2. f[i] = f[i-1] \o us[i]
          BY <2>1, <3>2, <5>1
        <5> QED
          BY <3>2, <4>2, <4>4, <5>2
      <4> QED
        BY <4>3, <4>4
    <3> QED
      BY <3>1, <3>2
  <2>3. Is(g, m + 1)
    BY <2>2
  <2>4. \E h : Is(h, m + 1)
    <3> HIDE DEF Is, g
    <3> QED
      BY <2>3
  <2> HIDE DEF Is, g
  <2> QED
    BY <2>0, <2>4
<1>3. n \in S
  <2> HIDE DEF S
  <2>1. S \in SUBSET Nat
    BY DEF S
  <2> QED
    BY <1>1, <1>2, <2>1, SetInduction
<1> QED
  BY <1>3

LEMMA Flattened ==
  ASSUME NEW W, NEW us \in Seq(Seq(W))
  PROVE  \E F \in [0..Len(us) -> Seq(W)] :
           /\ F[0] = <<>>
           /\ \A i \in 1..Len(us) : F[i] = F[i - 1] \o us[i]
           /\ FlattenSeq(us) = F[Len(us)]
<1> DEFINE n == Len(us)
           Is(f) == f = [i \in 1..n |-> IF i = 1 THEN us[i] ELSE f[i-1] \o us[i]]
           f == CHOOSE g : Is(g)
           F == [i \in 0..n |-> IF i = 0 THEN <<>> ELSE f[i]]
           S == {m \in Nat : m <= n => F[m] \in Seq(W)}
<1>0. n \in Nat
  OBVIOUS
<1>1. Is(f)
  <2>1. \E g : Is(g)
    BY <1>0, FlattenExists
  <2> HIDE DEF Is
  <2> QED
    BY <2>1
<1>2. ASSUME NEW i \in 1..n
      PROVE  F[i] = F[i - 1] \o us[i]
  <2>1. us[i] \in Seq(W) /\ i - 1 \in 0..n /\ i \in 0..n /\ i # 0
    OBVIOUS
  <2>2. f[i] = IF i = 1 THEN us[i] ELSE f[i-1] \o us[i]
    BY <1>1
  <2> HIDE DEF f
  <2>3. CASE i = 1
    <3>1. F[i] = us[i] /\ F[i - 1] = <<>>
      BY <2>1, <2>2, <2>3
    <3>2. <<>> \o us[i] = us[i]
      BY <2>1, ConcatEmptySeq
    <3> QED
      BY <3>1, <3>2
  <2>4. CASE i # 1
    <3>1. i - 1 # 0 /\ F[i] = f[i]
      BY <2>1, <2>4
    <3>2. F[i - 1] = f[i - 1]
      BY <2>1, <3>1
    <3> HIDE DEF F
    <3> QED
      BY <2>2, <2>4, <3>1, <3>2
  <2> QED
    BY <2>3, <2>4
<1> HIDE DEF f, Is
<1>3. F[0] = <<>>
  BY <1>0
<1>4. ASSUME NEW m \in S
      PROVE  m + 1 \in S
  <2>1. m \in Nat /\ (m <= n => F[m] \in Seq(W))
    OBVIOUS
  <2>2. CASE m + 1 <= n
    <3>1. m + 1 \in 1..n /\ m <= n /\ us[m + 1] \in Seq(W)
      BY <2>1, <2>2, <1>0
    <3>2. F[m + 1] = F[m] \o us[m + 1]
      <4>1. (m + 1) - 1 = m
        BY <2>1
      <4> HIDE DEF F
      <4> QED
        BY <1>2, <3>1, <4>1
    <3>3. F[m + 1] \in Seq(W)
      <4> HIDE DEF F
      <4> QED
        BY <2>1, <3>1, <3>2, ConcatProperties
    <3> HIDE DEF F
    <3> QED
      BY <2>1, <3>3
  <2> HIDE DEF F
  <2> QED
    BY <2>1, <2>2
<1>5. S = Nat
  <2>1. 0 \in S
    BY <1>3
  <2>2. S \in SUBSET Nat
    OBVIOUS
  <2> HIDE DEF S
  <2> QED
    BY <1>4, <2>1, <2>2, SetInduction
<1>6. \A i \in 0..n : F[i] \in Seq(W)
  <2> HIDE DEF F
  <2> QED
    BY <1>5, <1>0
<1>7. F \in [0..n -> Seq(W)]
  BY <1>6
<1>8. FlattenSeq(us) = F[n]
  <2>1. CASE n = 0
    <3>1. us = <<>>
      BY <2>1, EmptySeq
    <3>2. FlattenSeq(us) = us
      BY <2>1 DEF FlattenSeq
    <3> QED
      BY <1>3, <2>1, <3>1, <3>2
  <2>2. CASE n # 0
    <3>1. FlattenSeq(us) = f[n]
      BY <2>2, Zenon DEF FlattenSeq, f, Is
    <3>2. F[n] = f[n]
      BY <1>0, <2>2
    <3> QED
      BY <3>1, <3>2
  <2> QED
    BY <2>1, <2>2
<1> HIDE DEF F, n
<1> QED
  BY <1>2, <1>3, <1>7, <1>8 DEF n

Begins(s, t) == Len(s) <= Len(t) /\ \A j \in 1..Len(s) : t[j] = s[j]

\* What is put together up to an option is the beginning of the whole.
LEMMA Beginnings ==
  ASSUME NEW W, NEW us \in Seq(Seq(W)), NEW F \in [0..Len(us) -> Seq(W)],
         \A i \in 1..Len(us) : F[i] = F[i - 1] \o us[i],
         NEW k \in 0..Len(us)
  PROVE  Begins(F[k], F[Len(us)])
<1> DEFINE n == Len(us)
           S == {m \in Nat : k + m <= n => Begins(F[k], F[k + m])}
<1>0. n \in Nat /\ k \in Nat
  OBVIOUS
<1>1. 0 \in S
  <2>1. k + 0 = k /\ F[k] \in Seq(W)
    BY <1>0
  <2>2. Begins(F[k], F[k])
    BY <2>1 DEF Begins
  <2> QED
    BY <2>1, <2>2
<1>2. ASSUME NEW m \in S
      PROVE  m + 1 \in S
  <2>1. m \in Nat /\ (k + m <= n => Begins(F[k], F[k + m]))
    OBVIOUS
  <2>2. ASSUME k + (m + 1) <= n
        PROVE  Begins(F[k], F[k + (m + 1)])
    <3>1. PICK h \in 0..n, i \in 1..n : h = k + m /\ i = k + (m + 1) /\ i - 1 = h /\ h <= n
      BY <1>0, <2>1, <2>2
    <3>2. F[i] = F[h] \o us[i]
      BY <3>1
    <3>3. F[h] \in Seq(W) /\ us[i] \in Seq(W) /\ F[k] \in Seq(W)
      <4>1. us[i] \in Seq(W)
        BY ElementOfSeq
      <4>2. F[h] \in Seq(W) /\ F[k] \in Seq(W)
        OBVIOUS
      <4> QED
        BY <4>1, <4>2
    <3>4. Begins(F[k], F[h])
      BY <2>1, <3>1
    <3>5. /\ Len(F[i]) = Len(F[h]) + Len(us[i])
          /\ \A j \in 1..Len(F[h]) : F[i][j] = F[h][j]
      BY <3>2, <3>3, ConcatProperties
    <3>6. \A j \in 1..Len(F[k]) : j \in 1..Len(F[h])
      BY <3>3, <3>4 DEF Begins
    <3>7. \A j \in 1..Len(F[k]) : F[i][j] = F[k][j]
      BY <3>4, <3>5, <3>6 DEF Begins
    <3>8. Len(F[k]) <= Len(F[i])
      BY <3>3, <3>4, <3>5, LenProperties DEF Begins
    <3> QED
      BY <3>1, <3>7, <3>8 DEF Begins
  <2> QED
    BY <2>1, <2>2
<1>3. n - k \in Nat /\ k + (n - k) = n
  BY <1>0
<1>4. n - k \in S
  <2>1. S \in SUBSET Nat
    OBVIOUS
  <2> HIDE DEF S
  <2> QED
    BY <1>1, <1>2, <1>3, <2>1, SetInduction
<1>5. Begins(F[k], F[n])
  <2> QED
    BY <1>3, <1>4
<1> QED
  BY <1>5

-----------------------------------------------------------------------------
(* What a command line asks for.                                            *)

LEMMA UnitTypes == Units \subseteq Seq(Words)
<1> USE DEF TaskOptions, Words
<1>1. {<<"-f", "file">>, <<"-nojump">>, <<"-tss">>, <<"-h">>} \subseteq Seq(Words)
  OBVIOUS
<1>2. \A o \in TaskOptions : <<o, "value">> \in Seq(Words)
  OBVIOUS
<1>3. Final \subseteq Seq(Words)
  BY DEF Final
<1>4. Stray \subseteq Seq(Words)
  BY DEF Stray
<1> QED
  BY <1>1, <1>2, <1>3, <1>4 DEF Units, Naming

\* What ProcessCommandLine does with an option is settled by its first word, and each has
\* the parameters it skips.
LEMMA UnitKinds ==
  ASSUME NEW u \in Units, u \notin Stray
  PROVE  \/ u[1] = "-f" /\ Len(u) = 2 /\ u \notin Naming \cup Final
         \/ u[1] \in TaskOptions /\ Len(u) = 2 /\ u \in Naming \cup Final
         \/ u[1] = "-nojump" /\ Len(u) = 1 /\ u \in Naming \cup Final
         \/ u[1] \in {"-tss", "-h"} /\ Len(u) = 1 /\ u \notin Naming \cup Final
         \/ u[1] \in {"-rd", "-wr"} /\ Len(u) > 1 /\ u \in Naming \cup Final
<1>1. CASE u = <<"-f", "file">>
  BY <1>1 DEF Naming, TaskOptions, Final
<1>2. CASE u \in {<<o, "value">> : o \in TaskOptions}
  <2>1. PICK o \in TaskOptions : u = <<o, "value">>
    BY <1>2
  <2>2. u[1] \in TaskOptions /\ Len(u) = 2
    BY <2>1
  <2> QED
    BY <1>2, <2>2 DEF Naming
<1>3. CASE u = <<"-nojump">>
  BY <1>3 DEF Naming
<1>4. CASE u \in {<<"-tss">>, <<"-h">>}
  BY <1>4 DEF Naming, TaskOptions, Final
<1>5. CASE u \in Final
  BY <1>5 DEF Final
<1> QED
  BY <1>1, <1>2, <1>3, <1>4, <1>5 DEF Units, Naming

LEMMA TaskOfType ==
  ASSUME NEW u \in Naming \cup Final
  PROVE  TaskOf(u[1]) \in Tasks
<1>1. u[1] \in TaskOptions \cup {"-nojump", "-rd", "-wr"}
  BY DEF Naming, Final
<1> QED
  BY <1>1 DEF TaskOf, TaskOptions, Tasks

\* The options that name a task.
Names(us) == {k \in DOMAIN us : us[k] \in Naming \cup Final}

LEMMA AskedOne ==
  ASSUME NEW us \in Seq(Units)
  PROVE  /\ Asked(us) \in Tasks \cup {"unclear"}
         /\ Asked(us) # "unclear" =>
              /\ \A k \in DOMAIN us : us[k] \notin Stray
              /\ Names(us) = {} => Asked(us) = "RUN"
              /\ \A k \in Names(us) : Asked(us) = TaskOf(us[k][1])
              /\ \A k, l \in Names(us) : k = l
<1> DEFINE N == Names(us)
           strays == \E k \in DOMAIN us : us[k] \in Stray
           k0 == CHOOSE k \in N : TRUE
<1>1. Asked(us) = IF Cardinality(N) > 1 \/ strays THEN "unclear"
                  ELSE IF N = {} THEN "RUN" ELSE TaskOf(us[k0][1])
  BY Zenon DEF Asked, Names
<1>3. N # {} => k0 \in N
  OBVIOUS
<1>4. \A k \in N : us[k] \in Naming \cup Final /\ TaskOf(us[k][1]) \in Tasks
  BY TaskOfType DEF Names
<1>5. \A i, j \in N : i # j => Cardinality(N) > 1
  <2> SUFFICES ASSUME NEW i \in N, NEW j \in N, i # j
               PROVE  Cardinality(N) > 1
    OBVIOUS
  <2>1. IsFiniteSet(N)
    <3>1. IsFiniteSet(1..Len(us)) /\ N \in SUBSET (1..Len(us))
      BY FS_Interval DEF Names
    <3> QED
      BY <3>1, FS_Subset
  <2> HIDE DEF N
  <2>2. IsFiniteSet({i}) /\ Cardinality({i}) = 1
    BY FS_Singleton
  <2>3. Cardinality({i} \cup {j}) = 1 + 1
    <3>1. j \notin {i}
      OBVIOUS
    <3>2. Cardinality({i} \cup {j}) = IF j \in {i} THEN Cardinality({i}) ELSE Cardinality({i}) + 1
      BY <2>2, FS_AddElement
    <3>3. Cardinality({i} \cup {j}) = Cardinality({i}) + 1
      BY <3>1, <3>2, Zenon
    <3> QED
      BY <2>2, <3>3, Zenon
  <2>4. Cardinality({i} \cup {j}) <= Cardinality(N)
    <3>1. {i} \cup {j} \in SUBSET N
      OBVIOUS
    <3> QED
      BY <2>1, <3>1, FS_Subset
  <2>5. Cardinality(N) \in Nat
    BY <2>1, FS_CardinalityType
  <2>6. 1 + 1 <= Cardinality(N)
    BY <2>3, <2>4, Zenon
  <2> QED
    BY <2>5, <2>6
<1> HIDE DEF N, strays, k0
<1>6. Asked(us) \in Tasks \cup {"unclear"}
  BY <1>1, <1>3, <1>4 DEF Tasks
<1>7. ASSUME Asked(us) # "unclear"
      PROVE  /\ ~strays /\ (N = {} => Asked(us) = "RUN")
             /\ \A k \in N : Asked(us) = TaskOf(us[k][1])
             /\ \A k, l \in N : k = l
  <2>1. ~strays /\ ~(Cardinality(N) > 1)
    BY <1>1, <1>7
  <2>2. N = {} => Asked(us) = "RUN"
    BY <1>1, <2>1
  <2>3. \A k, l \in N : k = l
    BY <1>5, <2>1
  <2>4. ASSUME NEW k \in N
        PROVE  Asked(us) = TaskOf(us[k][1])
    <3>1. Asked(us) = TaskOf(us[k0][1])
      BY <1>1, <2>1
    <3>2. k0 = k
      BY <1>3, <2>3
    <3> QED
      BY <3>1, <3>2
  <2> QED
    BY <2>1, <2>2, <2>3, <2>4
<1>8. ~strays => \A k \in DOMAIN us : us[k] \notin Stray
  BY DEF strays
<1> QED
  BY <1>6, <1>7, <1>8 DEF N

-----------------------------------------------------------------------------
(* Types of the program.                                                    *)

LEMMA SkipProperties ==
  ASSUME args \in Seq(Words), NEW n \in Nat
  PROVE  /\ Skip(n) \in Seq(Words)
         /\ n <= Len(args) => Len(Skip(n)) = Len(args) - n
         /\ \A j \in 1..(Len(args) - n) : Skip(n)[j] = args[n + j]
<1> DEFINE m == n + 1
           l == Len(args)
<1>1. l \in Nat /\ m \in Int /\ l \in Int /\ m >= 1
  OBVIOUS
<1>2. \A i \in m..l : args[i] \in Words
  OBVIOUS
<1>3. Skip(n) = SubSeq(args, m, l)
  BY DEF Skip
<1> HIDE DEF m, l
<1>4. /\ SubSeq(args, m, l) \in Seq(Words)
      /\ Len(SubSeq(args, m, l)) = IF m <= l THEN l - m + 1 ELSE 0
      /\ \A i \in 1..(l - m + 1) : SubSeq(args, m, l)[i] = args[m + i - 1]
  BY <1>1, <1>2, SubSeqProperties
<1>5. l - m + 1 = l - n /\ \A i \in 1..(l - n) : m + i - 1 = n + i
  BY <1>1 DEF m
<1>6. n <= l => Len(Skip(n)) = l - n
  BY <1>1, <1>3, <1>4 DEF m
<1>7. \A j \in 1..(l - n) : Skip(n)[j] = args[n + j]
  BY <1>3, <1>4, <1>5
<1> QED
  BY <1>3, <1>4, <1>6, <1>7 DEF l

LEMMA ProgramTypesInit == Init => TypeOK
<1> SUFFICES ASSUME Init
             PROVE  TypeOK
  OBVIOUS
<1>0. PICK n \in 0..MaxUnits : \E us \in [1..n -> Units] :
        args = <<"exe">> \o FlattenSeq(us) /\ asked = Asked(us)
  BY DEF Init
<1>1. PICK us \in [1..n -> Units] : args = <<"exe">> \o FlattenSeq(us) /\ asked = Asked(us)
  BY <1>0
<1>2. us \in Seq(Units) /\ us \in Seq(Seq(Words))
  <2>1. n \in Nat
    BY SbLoaderAssumption
  <2>2. us \in Seq(Units)
    BY <2>1
  <2> QED
    BY <2>2, UnitTypes
<1>3. FlattenSeq(us) \in Seq(Words)
  <2>1. Len(us) \in Nat /\ Len(us) \in 0..Len(us)
    BY <1>2
  <2>2. PICK F \in [0..Len(us) -> Seq(Words)] : FlattenSeq(us) = F[Len(us)]
    BY <1>2, Flattened
  <2> QED
    BY <2>1, <2>2
<1>4. args \in Seq(Words)
  <2>1. <<"exe">> \in Seq(Words)
    BY DEF Words
  <2> QED
    BY <1>1, <1>3, <2>1, ConcatProperties
<1>5. asked \in Tasks \cup {"unclear"}
  BY <1>1, <1>2, AskedOne
<1>6. DiscoveryTypeOK /\ probes \in 0..MaxProbes
  <2>1. DiscoveryTypeOK
    BY TypesInit DEF Init
  <2>2. probes = 0
    BY DEF Init
  <2> QED
    BY <2>1, <2>2, SbLoaderAssumption
<1> QED
  BY <1>4, <1>5, <1>6 DEF Init, TypeOK, Tasks

Stages == {"start", "args", "file", "manager", "st", "findSt", "mx", "findMx",
           "task", "exit", "ended", "returned", "crashed"}
ExitCodeTypes == {-1, 0, 1, 2, 3, 4, 5, 9}

LEMMA ProgramTypesNext ==
  ASSUME TypeOK, [Next]_vars
  PROVE  TypeOK'
<1> USE DEF program, result, held, options, Stages, ExitCodeTypes
<1>0. DiscoveryTypeOK'
  BY TypesNext DEF TypeOK
<1>1. ASSUME args' \in Seq(Words), UNCHANGED <<probes, result>>, asked' \in {asked, "unclear"},
             proceed' \in BOOLEAN, task' \in Tasks, data' \in {"none", "named", "empty", "some"},
             manager' \in {"none", "open", "closed"}, stage' \in Stages
      PROVE  TypeOK'
  BY <1>0, <1>1 DEF TypeOK
<1>2. ASSUME UNCHANGED <<args, options, held>>, probes' \in 0..MaxProbes, stage' \in Stages,
             rc' \in ExitCodeTypes, done' \in {"not yet", "ok", "failed"}
      PROVE  TypeOK'
  BY <1>0, <1>2 DEF TypeOK
<1>3. \A n \in Nat : Skip(n) \in Seq(Words)
  BY SkipProperties DEF TypeOK
<1>4. CASE AfxWinInit \/ FileFails
  BY <1>2, <1>4 DEF AfxWinInit, FileFails, TypeOK
<1>5. CASE OptFile \/ OptHelp \/ OptTss \/ OptNoJump
  BY <1>1, <1>3, <1>5 DEF OptFile, OptHelp, OptTss, OptNoJump, At, Tasks, TypeOK
<1>6. CASE OptTask
  <2>1. task' \in Tasks
    BY <1>6 DEF OptTask, At, TaskOf, TaskOptions, Tasks
  <2> QED
    BY <1>1, <1>3, <1>6, <2>1 DEF OptTask, At, TypeOK
<1>7. CASE OptRegister
  <2>1. task' \in Tasks /\ args' \in Seq(Words)
    BY <1>7 DEF OptRegister, Tasks
  <2>2. /\ UNCHANGED <<probes, result, asked, proceed, held>> /\ stage' \in Stages
    BY <1>7 DEF OptRegister
  <2> QED
    BY <1>1, <2>1, <2>2 DEF TypeOK
<1>8. CASE OptOther
  BY <1>1, <1>3, <1>8 DEF OptOther, At, Tasks, TypeOK
<1>9. CASE ArgsEnd \/ NoFile \/ ReadFile \/ OpenManager \/ Exit
  BY <1>1, <1>9 DEF ArgsEnd, NoFile, ReadFile, OpenManager, Exit, TypeOK
<1>10. CASE NewDevice
  <2>1. 0 \in 0..MaxProbes
    BY SbLoaderAssumption
  <2> QED
    BY <1>2, <1>10, <2>1 DEF NewDevice, TypeOK
<1>11. CASE Probe
  <2>1. probes + 1 \in 0..MaxProbes
    <3>1. probes \in 0..MaxProbes /\ probes < MaxProbes /\ MaxProbes \in Nat
      BY <1>11, SbLoaderAssumption DEF Probe, TypeOK
    <3> QED
      BY <3>1
  <2> QED
    BY <1>2, <1>11, <2>1 DEF Probe, TypeOK
<1>12. CASE FindHidDevice
  BY <1>2, <1>12 DEF FindHidDevice, Leave, TypeOK
<1>13. CASE Step \/ ProbeFailed \/ Replug \/ Finished \/ UNCHANGED vars
  BY <1>2, <1>13 DEF Step, ProbeFailed, Replug, Finished, vars, TypeOK
<1>14. CASE StDownload \/ TaskWorks \/ TaskCrashes
  BY <1>2, <1>14 DEF StDownload, TaskWorks, TaskCrashes, Fails, TypeOK
<1>15. CASE TaskFails
  <2>1. rc' \in ExitCodeTypes /\ stage' \in {"exit", "returned"} /\ done' = "failed"
    BY <1>15 DEF TaskFails, Fails, EarlyReturn
  <2> QED
    BY <1>2, <1>15, <2>1 DEF TaskFails, TypeOK
<1>16. ASSUME NEW o \in Objects, DeleteDevice(o)
       PROVE  TypeOK'
  BY <1>2, <1>16 DEF DeleteDevice, TypeOK
<1> QED
  BY <1>4, <1>5, <1>6, <1>7, <1>8, <1>9, <1>10, <1>11, <1>12, <1>13, <1>14, <1>15, <1>16
  DEF Next, Client, ProcessCommandLine

\* The program's variables keep their types, for any number of options, interfaces, handles
\* and probes; the words of a command line are put together from its options
\* (sb_loader.cpp, HidDevice.cpp).
THEOREM TypeCorrect == Spec => []TypeOK
<1>1. TypeOK /\ [Next]_vars => TypeOK'
  BY ProgramTypesNext
<1> QED
  BY <1>1, ProgramTypesInit, PTL DEF Spec

-----------------------------------------------------------------------------
(* The task a command line asks for.                                        *)

Rest(s, n) == SubSeq(s, n + 1, Len(s))

LEMMA RestProperties ==
  ASSUME NEW W, NEW s \in Seq(W), NEW n \in 0..Len(s)
  PROVE  /\ Rest(s, n) \in Seq(W)
         /\ Len(Rest(s, n)) = Len(s) - n
         /\ \A j \in 1..(Len(s) - n) : Rest(s, n)[j] = s[n + j]
<1> DEFINE m == n + 1
           l == Len(s)
<1>1. l \in Nat /\ n \in Nat /\ m \in Int /\ l \in Int /\ m >= 1 /\ n <= l
  OBVIOUS
<1>2. \A i \in m..l : s[i] \in W
  OBVIOUS
<1>3. Rest(s, n) = SubSeq(s, m, l)
  BY DEF Rest
<1> HIDE DEF m, l
<1>4. /\ SubSeq(s, m, l) \in Seq(W)
      /\ Len(SubSeq(s, m, l)) = IF m <= l THEN l - m + 1 ELSE 0
      /\ \A i \in 1..(l - m + 1) : SubSeq(s, m, l)[i] = s[m + i - 1]
  BY <1>1, <1>2, SubSeqProperties
<1>5. l - m + 1 = l - n /\ \A i \in 1..(l - n) : m + i - 1 = n + i
  BY <1>1 DEF m
<1>6. Len(Rest(s, n)) = l - n
  BY <1>1, <1>3, <1>4 DEF m
<1>7. \A j \in 1..(l - n) : Rest(s, n)[j] = s[n + j]
  BY <1>3, <1>4, <1>5
<1> QED
  BY <1>3, <1>4, <1>6, <1>7 DEF l

LEMMA RestOfRest ==
  ASSUME NEW W, NEW s \in Seq(W), NEW n \in Nat, NEW m \in Nat, n + m <= Len(s)
  PROVE  Rest(Rest(s, n), m) = Rest(s, n + m)
<1>0. Len(s) \in Nat /\ n \in 0..Len(s) /\ n + m \in 0..Len(s) /\ m \in 0..(Len(s) - n)
  OBVIOUS
<1>1. /\ Rest(s, n) \in Seq(W) /\ Len(Rest(s, n)) = Len(s) - n
      /\ \A j \in 1..(Len(s) - n) : Rest(s, n)[j] = s[n + j]
  BY <1>0, RestProperties
<1>2. /\ Rest(s, n + m) \in Seq(W) /\ Len(Rest(s, n + m)) = Len(s) - (n + m)
      /\ \A j \in 1..(Len(s) - (n + m)) : Rest(s, n + m)[j] = s[(n + m) + j]
  BY <1>0, RestProperties
<1>3. /\ Rest(Rest(s, n), m) \in Seq(W) /\ Len(Rest(Rest(s, n), m)) = (Len(s) - n) - m
      /\ \A j \in 1..((Len(s) - n) - m) : Rest(Rest(s, n), m)[j] = Rest(s, n)[m + j]
  <2>1. m \in 0..Len(Rest(s, n)) /\ Rest(s, n) \in Seq(W)
    BY <1>0, <1>1
  <2>2. /\ Rest(Rest(s, n), m) \in Seq(W) /\ Len(Rest(Rest(s, n), m)) = Len(Rest(s, n)) - m
        /\ \A j \in 1..(Len(Rest(s, n)) - m) : Rest(Rest(s, n), m)[j] = Rest(s, n)[m + j]
    BY <2>1, RestProperties
  <2> QED
    BY <1>1, <2>2
<1>4. \A j \in 1..(Len(s) - (n + m)) :
        /\ m + j \in 1..(Len(s) - n) /\ n + (m + j) = (n + m) + j /\ j \in 1..((Len(s) - n) - m)
  BY <1>0
<1>5. \A j \in 1..(Len(s) - (n + m)) : Rest(Rest(s, n), m)[j] = Rest(s, n + m)[j]
  BY <1>1, <1>2, <1>3, <1>4
<1>6. Len(Rest(Rest(s, n), m)) = Len(Rest(s, n + m))
  BY <1>0, <1>2, <1>3
<1> QED
  BY <1>2, <1>3, <1>5, <1>6, SeqEqual

\* F[k] is what the first k of the options us are on the command line.
Joined(us, F) ==
  F[0] = <<>> /\ \A i \in 1..Len(us) : F[i] = F[i - 1] \o us[i]

\* Behind k options the next word is the first of the next option, and behind its
\* parameters comes the option after it.
LEMMA NextOption ==
  ASSUME NEW us \in Seq(Units), NEW F \in [0..Len(us) -> Seq(Words)], Joined(us, F),
         \A i \in DOMAIN us : us[i] \notin Stray,
         NEW k \in 0..Len(us), args = Rest(F[Len(us)], Len(F[k]))
  PROVE  /\ k = Len(us) <=> args = <<>>
         /\ k < Len(us) =>
              /\ args[1] = us[k + 1][1]
              /\ Skip(Len(us[k + 1])) = Rest(F[Len(us)], Len(F[k + 1]))
<1> DEFINE n == Len(us)
           G == F[n]
<1>0. n \in Nat /\ n \in 0..n /\ us \in Seq(Seq(Words))
  BY UnitTypes
<1>1. G \in Seq(Words) /\ F[k] \in Seq(Words) /\ Len(G) \in Nat /\ Len(F[k]) \in Nat
      /\ Len(F[k]) <= Len(G)
  <2>1. \A i \in 1..Len(us) : F[i] = F[i - 1] \o us[i]
    BY DEF Joined
  <2>2. Begins(F[k], F[Len(us)])
    BY <1>0, <2>1, Beginnings
  <2>3. F[Len(us)] \in Seq(Words) /\ F[k] \in Seq(Words)
    BY <1>0
  <2> QED
    BY <2>2, <2>3 DEF Begins
<1>2. /\ args \in Seq(Words) /\ Len(args) = Len(G) - Len(F[k])
      /\ \A j \in 1..(Len(G) - Len(F[k])) : args[j] = G[Len(F[k]) + j]
  <2>1. Len(F[k]) \in 0..Len(G)
    BY <1>1
  <2> HIDE DEF G
  <2> QED
    BY <1>1, <2>1, RestProperties DEF G
<1>3. k = n => args = <<>>
  <2>1. k = n => Len(args) = 0
    BY <1>1, <1>2
  <2> QED
    BY <1>2, <2>1, EmptySeq
<1>4. ASSUME k < n
      PROVE  /\ args # <<>> /\ args[1] = us[k + 1][1]
             /\ Skip(Len(us[k + 1])) = Rest(G, Len(F[k + 1]))
  <2>1. PICK i \in 1..n : i = k + 1 /\ i - 1 = k /\ i \in 0..n
    BY <1>0, <1>4
  <2>2. us[i] \in Seq(Words) /\ F[i] \in Seq(Words) /\ F[i] = F[k] \o us[i]
    <3>1. us[i] \in Seq(Words)
      BY <1>0, ElementOfSeq
    <3> QED
      BY <2>1, <3>1 DEF Joined
  <2>3. Len(us[i]) \in Nat \ {0}
    <3>1. us[i] \in Units /\ us[i] \notin Stray
      BY ElementOfSeq
    <3> QED
      BY <3>1, UnitKinds
  <2>4. /\ Len(F[i]) = Len(F[k]) + Len(us[i]) /\ Len(F[i]) <= Len(G)
        /\ F[i][Len(F[k]) + 1] = us[i][1] /\ G[Len(F[k]) + 1] = F[i][Len(F[k]) + 1]
    <3>1. Len(F[i]) = Len(F[k]) + Len(us[i])
          /\ \A j \in 1..Len(us[i]) : F[i][Len(F[k]) + j] = us[i][j]
      BY <1>1, <2>2, ConcatProperties
    <3>2. Len(F[i]) <= Len(G) /\ \A j \in 1..Len(F[i]) : G[j] = F[i][j]
      <4>1. i \in 0..Len(us) /\ \A j \in 1..Len(us) : F[j] = F[j - 1] \o us[j]
        BY <2>1 DEF Joined
      <4>2. Begins(F[i], F[Len(us)])
        BY <1>0, <4>1, Beginnings
      <4> QED
        BY <4>2 DEF Begins
    <3>3. 1 \in 1..Len(us[i]) /\ Len(F[k]) + 1 \in 1..Len(F[i])
      BY <1>1, <2>3, <3>1
    <3> QED
      BY <3>1, <3>2, <3>3
  <2>5. Len(args) > 0 /\ 1 \in 1..(Len(G) - Len(F[k]))
    <3> HIDE DEF G
    <3> QED
      BY <1>1, <1>2, <2>3, <2>4
  <2>6. args # <<>> /\ args[1] = us[i][1]
    <3>1. args[1] = G[Len(F[k]) + 1]
      BY <1>2, <2>5
    <3>2. args # <<>>
      BY <1>2, <2>5, EmptySeq
    <3> QED
      BY <2>4, <3>1, <3>2
  <2>7. Skip(Len(us[i])) = Rest(Rest(G, Len(F[k])), Len(us[i]))
    BY DEF Skip, Rest
  <2>8. Rest(Rest(G, Len(F[k])), Len(us[i])) = Rest(G, Len(F[k]) + Len(us[i]))
    <3> HIDE DEF G
    <3> QED
      BY <1>1, <2>3, <2>4, RestOfRest
  <2> QED
    BY <2>1, <2>4, <2>6, <2>7, <2>8
<1>5. k < n \/ k = n
  BY <1>0
<1> QED
  BY <1>3, <1>4, <1>5

\* The task after the first k options.
Told(us, k) == IF \E j \in Names(us) : j <= k THEN asked ELSE "RUN"

\* The loop looks at the first word of an option, or at the end, and has understood all
\* options before; but for argv[0], and for a command line without options.
Place(us, F) ==
  \/ args = <<"exe">> \o F[Len(us)]
  \/ args = <<>> /\ ~proceed
  \/ \E k \in 0..Len(us) : args = Rest(F[Len(us)], Len(F[k])) /\ task = Told(us, k)

Understood ==
  \E us \in Seq(Units) : asked = Asked(us) /\
    \E F \in [0..Len(us) -> Seq(Words)] : Joined(us, F) /\ Place(us, F)

AsAsked ==
  asked # "unclear" =>
    /\ stage \in {"start", "args"} => Understood
    /\ stage = "file" => task = asked

LEMMA UnderstoodInit ==
  ASSUME Init
  PROVE  Understood
<1>1. PICK n \in 0..MaxUnits : \E us \in [1..n -> Units] :
        args = <<"exe">> \o FlattenSeq(us) /\ asked = Asked(us)
  BY DEF Init
<1>2. PICK us \in [1..n -> Units] : args = <<"exe">> \o FlattenSeq(us) /\ asked = Asked(us)
  BY <1>1
<1>3. us \in Seq(Units) /\ us \in Seq(Seq(Words))
  <2>1. n \in Nat
    BY SbLoaderAssumption
  <2>2. us \in Seq(Units)
    BY <2>1
  <2> QED
    BY <2>2, UnitTypes
<1>4. PICK F \in [0..Len(us) -> Seq(Words)] :
        /\ F[0] = <<>>
        /\ \A i \in 1..Len(us) : F[i] = F[i - 1] \o us[i]
        /\ FlattenSeq(us) = F[Len(us)]
  BY <1>3, Flattened
<1>5. Joined(us, F) /\ Place(us, F)
  BY <1>2, <1>4 DEF Joined, Place
<1> QED
  BY <1>2, <1>3, <1>5 DEF Understood

\* Told grows with the options that name the task.
LEMMA ToldNext ==
  ASSUME NEW us \in Seq(Units), asked = Asked(us), asked # "unclear",
         NEW k \in Nat, k < Len(us)
  PROVE  /\ k + 1 \in Names(us) => Told(us, k + 1) = TaskOf(us[k + 1][1]) /\ asked = Told(us, k + 1)
         /\ k + 1 \notin Names(us) => Told(us, k + 1) = Told(us, k)
<1>1. Names(us) \subseteq Nat /\ \A j \in Names(us) : asked = TaskOf(us[j][1])
  BY AskedOne DEF Names
<1>2. k + 1 \in Names(us) => Told(us, k + 1) = asked
  BY <1>1 DEF Told
<1>3. ASSUME k + 1 \notin Names(us)
      PROVE  Told(us, k + 1) = Told(us, k)
  <2>1. \A j \in Names(us) : j <= k + 1 <=> j <= k
    BY <1>1, <1>3
  <2> QED
    BY <2>1 DEF Told
<1> QED
  BY <1>1, <1>2, <1>3

LEMMA ToldAll ==
  ASSUME NEW us \in Seq(Units), asked = Asked(us), asked # "unclear"
  PROVE  Told(us, Len(us)) = asked
<1>1. \A j \in Names(us) : j <= Len(us)
  BY DEF Names
<1>2. Names(us) = {} => asked = "RUN"
  BY AskedOne
<1> QED
  BY <1>1, <1>2 DEF Told

LEMMA ToldNone ==
  ASSUME NEW us \in Seq(Units)
  PROVE  Told(us, 0) = "RUN"
BY DEF Told, Names

\* One round of the loop.
LEMMA ReadsOn ==
  ASSUME AsAsked, asked # "unclear", stage = "args",
         OptFile \/ OptHelp \/ OptTss \/ OptTask \/ OptNoJump \/ OptOther
  PROVE  Understood'
<1> USE DEF program, result, held, options
<1>1. PICK us \in Seq(Units) : asked = Asked(us) /\
        \E F \in [0..Len(us) -> Seq(Words)] : Joined(us, F) /\ Place(us, F)
  BY DEF AsAsked, Understood
<1>2. PICK F \in [0..Len(us) -> Seq(Words)] : Joined(us, F) /\ Place(us, F)
  BY <1>1
<1> DEFINE n == Len(us)
<1>3. ASSUME asked' = asked, Place(us, F)'
      PROVE  Understood'
  BY <1>1, <1>2, <1>3 DEF Understood
<1>4. asked' = asked /\ args # <<>> /\ n \in Nat /\ F[n] \in Seq(Words)
  BY DEF OptFile, OptHelp, OptTss, OptTask, OptNoJump, OptOther, At
<1>5. \A k \in DOMAIN us : us[k] \notin Stray
  BY <1>1, AskedOne
<1>6. CASE args = <<"exe">> \o F[n]
  <2>1. <<"exe">> \in Seq(Words) /\ args \in Seq(Words) /\ Len(args) = 1 + Len(F[n]) /\ args[1] = "exe"
        /\ \A j \in 1..Len(F[n]) : args[1 + j] = F[n][j]
    <3>1. <<"exe">> \in Seq(Words) /\ Len(<<"exe">>) = 1
      BY DEF Words
    <3> HIDE DEF n
    <3> QED
      BY <1>4, <1>6, <3>1, ConcatProperties
  <2>2. OptOther
    BY <2>1 DEF OptFile, OptHelp, OptTss, OptTask, OptNoJump, At, TaskOptions
  <2>3. CASE args = <<"exe">>
    <3>1. args' = <<>> /\ proceed' = FALSE
      BY <2>2, <2>3 DEF OptOther, Skip
    <3> QED
      BY <1>3, <1>4, <3>1 DEF Place
  <2>4. CASE args # <<"exe">>
    <3>1. args' = Rest(args, 1) /\ task' = "RUN"
      BY <2>2, <2>4 DEF OptOther, Skip, Rest
    <3>2. Rest(args, 1) = Rest(F[n], 0)
      <4>1. 1 \in 0..Len(args) /\ 0 \in 0..Len(F[n]) /\ Len(args) - 1 = Len(F[n])
        BY <1>4, <2>1
      <4>2. /\ Rest(args, 1) \in Seq(Words) /\ Len(Rest(args, 1)) = Len(F[n])
            /\ \A j \in 1..Len(F[n]) : Rest(args, 1)[j] = args[1 + j]
        <5>1. /\ Rest(args, 1) \in Seq(Words) /\ Len(Rest(args, 1)) = Len(args) - 1
              /\ \A j \in 1..(Len(args) - 1) : Rest(args, 1)[j] = args[1 + j]
          BY <2>1, <4>1, RestProperties
        <5> HIDE DEF n
        <5> QED
          BY <4>1, <5>1
      <4>3. /\ Rest(F[n], 0) \in Seq(Words) /\ Len(Rest(F[n], 0)) = Len(F[n])
            /\ \A j \in 1..Len(F[n]) : Rest(F[n], 0)[j] = F[n][j]
        <5>1. Len(F[n]) - 0 = Len(F[n]) /\ \A j \in 1..Len(F[n]) : 0 + j = j
          BY <1>4
        <5> HIDE DEF n
        <5> QED
          BY <1>4, <4>1, <5>1, RestProperties
      <4> HIDE DEF n
      <4> QED
        BY <2>1, <4>2, <4>3, SeqEqual
    <3>3. Len(F[0]) = 0 /\ 0 \in 0..n
      BY <1>2, <1>4 DEF Joined
    <3>4. task' = Told(us, 0)'
      BY <1>4, <3>1, ToldNone DEF Told
    <3> QED
      BY <1>3, <1>4, <3>1, <3>2, <3>3, <3>4 DEF Place
  <2> QED
    BY <2>3, <2>4
<1>7. ASSUME NEW k \in 0..n, args = Rest(F[n], Len(F[k])), task = Told(us, k)
      PROVE  Understood'
  <2>1. k < n
    BY <1>2, <1>4, <1>5, <1>7, NextOption
  <2>2. /\ args[1] = us[k + 1][1]
        /\ Skip(Len(us[k + 1])) = Rest(F[n], Len(F[k + 1]))
    BY <1>2, <1>5, <1>7, <2>1, NextOption
  <2>3. /\ k + 1 \in DOMAIN us /\ us[k + 1] \in Units /\ us[k + 1] \notin Stray
        /\ k \in Nat /\ k + 1 \in 0..n
    BY <1>5, <2>1
  <2>4. /\ k + 1 \in Names(us) => Told(us, k + 1) = TaskOf(us[k + 1][1])
        /\ k + 1 \notin Names(us) => Told(us, k + 1) = Told(us, k)
    BY <1>1, <2>1, <2>3, ToldNext
  <2>5. ASSUME args' = Skip(Len(us[k + 1])), task' = Told(us, k + 1)
        PROVE  Understood'
    <3>1. task' = Told(us, k + 1)'
      BY <1>4, <2>5 DEF Told
    <3>2. Place(us, F)'
      BY <2>2, <2>3, <2>5, <3>1 DEF Place
    <3> QED
      BY <1>3, <1>4, <3>2
  <2>6. \/ us[k + 1][1] = "-f" /\ Len(us[k + 1]) = 2 /\ k + 1 \notin Names(us)
        \/ us[k + 1][1] \in TaskOptions /\ Len(us[k + 1]) = 2 /\ k + 1 \in Names(us)
        \/ us[k + 1][1] = "-nojump" /\ Len(us[k + 1]) = 1 /\ k + 1 \in Names(us)
        \/ us[k + 1][1] \in {"-tss", "-h"} /\ Len(us[k + 1]) = 1 /\ k + 1 \notin Names(us)
        \/ us[k + 1][1] \in {"-rd", "-wr"}
    BY <2>3, UnitKinds DEF Names
  <2>7. CASE OptFile
    BY <1>7, <2>2, <2>4, <2>5, <2>6, <2>7 DEF OptFile, At, TaskOptions
  <2>8. CASE OptHelp \/ OptTss
    BY <1>7, <2>2, <2>4, <2>5, <2>6, <2>8 DEF OptHelp, OptTss, At, TaskOptions
  <2>9. CASE OptTask
    BY <1>7, <2>2, <2>4, <2>5, <2>6, <2>9 DEF OptTask, At, TaskOptions
  <2>10. CASE OptNoJump
    BY <1>7, <2>2, <2>4, <2>5, <2>6, <2>10 DEF OptNoJump, At, TaskOptions, TaskOf
  <2>11. CASE OptOther
    BY <2>2, <2>6, <2>11 DEF OptOther, At, TaskOptions
  <2> QED
    BY <2>7, <2>8, <2>9, <2>10, <2>11
<1> QED
  BY <1>2, <1>4, <1>6, <1>7 DEF Place

\* -rd and -wr, and the end of the command line.
LEMMA ReadsToTheEnd ==
  ASSUME AsAsked, asked # "unclear", OptRegister \/ (ArgsEnd /\ stage' = "file")
  PROVE  task' = asked
<1> USE DEF program, result, held, options
<1>0. stage = "args"
  BY DEF OptRegister, ArgsEnd, At
<1>1. PICK us \in Seq(Units) : asked = Asked(us) /\
        \E F \in [0..Len(us) -> Seq(Words)] : Joined(us, F) /\ Place(us, F)
  BY <1>0 DEF AsAsked, Understood
<1>2. PICK F \in [0..Len(us) -> Seq(Words)] : Joined(us, F) /\ Place(us, F)
  BY <1>1
<1> DEFINE n == Len(us)
<1>3. n \in Nat /\ F[n] \in Seq(Words) /\ \A k \in DOMAIN us : us[k] \notin Stray
  BY <1>1, AskedOne
<1>4. \E k \in 0..n : args = Rest(F[n], Len(F[k])) /\ task = Told(us, k)
  <2>1. args # <<"exe">> \o F[n]
    <3>1. <<"exe">> \in Seq(Words) /\ Len(<<"exe">>) = 1 /\ <<"exe">>[1] = "exe"
      BY DEF Words
    <3>2. Len(<<"exe">> \o F[n]) > 0 /\ (<<"exe">> \o F[n])[1] = "exe"
      <4> HIDE DEF n
      <4> QED
        BY <1>3, <3>1, ConcatProperties
    <3>3. args = <<>> \/ args[1] \in {"-rd", "-wr"}
      BY DEF OptRegister, ArgsEnd, At
    <3> QED
      BY <3>2, <3>3
  <2>2. ~(args = <<>> /\ ~proceed)
    BY DEF OptRegister, ArgsEnd, At
  <2> QED
    BY <1>2, <2>1, <2>2 DEF Place
<1>5. PICK k \in 0..n : args = Rest(F[n], Len(F[k])) /\ task = Told(us, k)
  BY <1>4
<1>6. /\ k = n <=> args = <<>>
      /\ k < n => args[1] = us[k + 1][1]
  BY <1>2, <1>3, <1>5, NextOption
<1>7. CASE OptRegister
  <2>1. k < n /\ args[1] \in {"-rd", "-wr"}
    BY <1>3, <1>6, <1>7 DEF OptRegister, At
  <2>2. k + 1 \in DOMAIN us /\ us[k + 1] \in Units /\ us[k + 1] \notin Stray /\ k \in Nat
    BY <1>3, <2>1
  <2>3. k + 1 \in Names(us)
    BY <1>6, <2>1, <2>2, UnitKinds DEF Names, TaskOptions
  <2>4. asked = TaskOf(args[1])
    BY <1>1, <1>6, <2>1, <2>2, <2>3, ToldNext
  <2> QED
    BY <1>7, <2>1, <2>4 DEF OptRegister, TaskOf
<1>8. CASE ArgsEnd
  <2>1. task' = Told(us, n)
    BY <1>5, <1>6, <1>8 DEF ArgsEnd
  <2> QED
    BY <1>1, <2>1, ToldAll
<1> QED
  BY <1>7, <1>8

LEMMA AsAskedNext ==
  ASSUME AsAsked, [Next]_vars
  PROVE  AsAsked'
<1> USE DEF program, result, held, options
<1>1. SUFFICES ASSUME asked' # "unclear"
               PROVE  /\ stage' \in {"start", "args"} => Understood'
                      /\ stage' = "file" => task' = asked'
  BY DEF AsAsked
<1>2. CASE AfxWinInit
  <2>1. UNCHANGED <<args, asked, task, proceed>> /\ stage = "start" /\ stage' \in {"args", "exit"}
    BY <1>2 DEF AfxWinInit
  <2>2. Understood
    BY <1>1, <2>1 DEF AsAsked
  <2>3. Understood'
    BY <2>1, <2>2 DEF Understood, Place, Told
  <2> QED
    BY <2>1, <2>3
<1>3. CASE OptFile \/ OptHelp \/ OptTss \/ OptTask \/ OptNoJump \/ OptOther
  <2>1. asked' = asked /\ stage = "args" /\ stage' = "args"
    BY <1>3 DEF OptFile, OptHelp, OptTss, OptTask, OptNoJump, OptOther, At
  <2> QED
    BY <1>1, <1>3, <2>1, ReadsOn
<1>4. CASE OptRegister \/ ArgsEnd
  <2>1. asked' = asked /\ stage' \in {"file", "exit"} /\ (OptRegister => stage' = "file")
    BY <1>4 DEF OptRegister, ArgsEnd, At
  <2> QED
    BY <1>1, <1>4, <2>1, ReadsToTheEnd
<1>5. CASE NoFile \/ ReadFile \/ FileFails \/ OpenManager \/ NewDevice \/ FindHidDevice
  <2>1. stage' \notin {"start", "args", "file"}
    BY <1>5 DEF NoFile, ReadFile, FileFails, OpenManager, NewDevice, FindHidDevice, Leave
  <2> QED
    BY <2>1
<1>6. CASE StDownload \/ TaskWorks \/ TaskFails \/ TaskCrashes \/ Exit
  <2>1. stage' \notin {"start", "args", "file"}
    BY <1>6 DEF StDownload, TaskWorks, TaskFails, Fails, TaskCrashes, Exit
  <2> QED
    BY <2>1
<1>7. ASSUME UNCHANGED program
      PROVE  AsAsked'
  BY <1>7 DEF AsAsked, Understood, Place, Told
<1>8. CASE Step \/ ProbeFailed \/ Replug \/ Finished \/ UNCHANGED vars
  <2>1. UNCHANGED program
    BY <1>8 DEF Step, ProbeFailed, Replug, Finished, vars
  <2> QED
    BY <1>1, <1>7, <2>1 DEF AsAsked
<1>9. CASE Probe
  <2>1. stage' \notin {"start", "args", "file"}
    BY <1>9 DEF Probe
  <2> QED
    BY <2>1
<1>10. ASSUME NEW o \in Objects, DeleteDevice(o)
       PROVE  AsAsked'
  BY <1>7, <1>10 DEF DeleteDevice
<1> QED
  BY <1>1, <1>2, <1>3, <1>4, <1>5, <1>6, <1>8, <1>9, <1>10 DEF Next, Client, ProcessCommandLine, AsAsked

\* Of a command line with one option that names a task, and no argument the tool does not
\* know, that task is done, however many options precede or follow it
\* (sb_loader.cpp:395-487).
THEOREM TasksAsAsked == Spec => []TaskAsAsked
<1>1. Init => AsAsked
  BY UnderstoodInit DEF Init, AsAsked
<1>2. AsAsked /\ [Next]_vars => AsAsked'
  BY AsAskedNext
<1>3. AsAsked => TaskAsAsked
  BY DEF AsAsked, TaskAsAsked
<1> QED
  BY <1>1, <1>2, <1>3, PTL DEF Spec
=============================================================================
