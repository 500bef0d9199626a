------------------------ MODULE DeviceManager_proofs ------------------------
(***************************************************************************)
(* Proofs about DeviceManager, for every set of handle values and every    *)
(* number of calls and changes.                                            *)
(***************************************************************************)
EXTENDS DeviceManager, TLAPS

\* The start handshake: what the client's progress says of the manager thread,
\* and that EVENT_KILL is posted by Close only.
Phase ==
  /\ pc \in {"start", "failed"} => mpc = "none"
  /\ pc = "opening" => mpc \in {"created"} \cup Pumping
  /\ RunningWhileOpen
  /\ pc \notin {"closing", "closed"} => msgq \in Seq(Events)

\* The life of the change event within a call.
HandleLife ==
  /\ pc \in {"probe", "wait", "woken", "close"} =>
       hChange # NULL /\ handles = {hChange}
  /\ pc = "clear" => handles = {}
  /\ pc \notin {"probe", "wait", "woken", "close", "clear"} =>
       handles = {} /\ hChange = NULL

-----------------------------------------------------------------------------
(* TypeOK.                                                                 *)

LEMMA TypeOKInit == Init => TypeOK
<1> SUFFICES ASSUME Init PROVE TypeOK
  OBVIOUS
<1>1. usb \in BOOLEAN /\ hid \in BOOLEAN /\ late \in BOOLEAN /\ told \in BOOLEAN
      /\ found \in BOOLEAN /\ stopped \in BOOLEAN
      /\ signalled \in BOOLEAN
  BY Zenon DEF Init
<1>2. QED
  BY <1>1 DEF Init, TypeOK, InCall, Pumping, Ops, Find, Events, Windows

LEMMA TypeOKClient == TypeOK /\ Client => TypeOK'
<1> SUFFICES ASSUME TypeOK, Client PROVE TypeOK'
  OBVIOUS
\* What the client leaves alone, and what it changes.
<1>1. UNCHANGED <<op, calls, manager, bus, happened>>
  BY DEF Client, OpenReturns, CloseReturns, LookFinds, LookFails, CreateEvent,
         ProbeFinds, ProbeFails, Wake, Woken, TimesOut, CloseHandle, ClearHandle
<1>2. /\ pc' \in InCall \cup {"start", "opening", "idle", "closing", "closed", "failed"}
      /\ found' \in BOOLEAN /\ stopped' \in BOOLEAN
  BY DEF TypeOK, InCall, Client, OpenReturns, CloseReturns, LookFinds, LookFails,
         CreateEvent, ProbeFinds, ProbeFails, Wake, Woken, TimesOut, CloseHandle, ClearHandle
<1>3. /\ hChange' \in Handles \cup {NULL} /\ handles' \subseteq Handles /\ timers' \in Nat
      /\ signalled' \in BOOLEAN /\ timer' \in {"off", "armed", "fired"}
  <2>1. CASE CreateEvent
    <3>1. PICK h \in Handles : hChange' = h /\ handles' = handles \cup {h}
      BY <2>1 DEF CreateEvent
    <3>2. timers' = timers + 1 /\ signalled' = FALSE /\ timer' = "armed"
      BY <2>1 DEF CreateEvent
    <3>3. handles \subseteq Handles /\ timers \in Nat
      BY DEF TypeOK
    <3>4. handles' \subseteq Handles /\ timers' \in Nat
      BY <3>1, <3>2, <3>3
    <3>5. QED
      BY <3>1, <3>2, <3>4
  <2>2. CASE Wake \/ CloseHandle \/ ClearHandle
    BY <2>2 DEF Wake, CloseHandle, ClearHandle, TypeOK
  <2>3. CASE UNCHANGED <<event, timer>>
    BY <2>3 DEF TypeOK, event
  <2>4. QED
    BY <2>1, <2>2, <2>3 DEF Client, OpenReturns, CloseReturns, LookFinds, LookFails,
       ProbeFinds, ProbeFails, Woken, TimesOut
<1>4. QED
  BY <1>1, <1>2, <1>3 DEF TypeOK, manager, bus

LEMMA TypeOKChoice == TypeOK /\ Choice => TypeOK'
<1> SUFFICES ASSUME TypeOK, Choice PROVE TypeOK'
  OBVIOUS
<1> USE DEF TypeOK, manager, event, bus, InCall
<1>1. CASE CreateThread \/ CreateThreadFails
  BY <1>1 DEF CreateThread, CreateThreadFails
<1>2. CASE PostKill
  BY <1>2 DEF PostKill
<1>3. CASE Call
  BY <1>3 DEF Call
<1>4. QED
  BY <1>1, <1>2, <1>3 DEF Choice

LEMMA TypeOKThread == TypeOK /\ Phase /\ Thread => TypeOK'
<1> SUFFICES ASSUME TypeOK, Phase, Thread PROVE TypeOK'
  OBVIOUS
<1> USE DEF TypeOK, client, event, bus, Pumping
<1>1. CASE InitInstance \/ TestHandle
  BY <1>1 DEF InitInstance, TestHandle
<1>2. CASE OnDeviceChange
  BY <1>2 DEF OnDeviceChange
<1>3. CASE OnMsgDeviceEvent
  BY <1>3 DEF OnMsgDeviceEvent
<1>4. CASE SetEvent
  BY <1>4 DEF SetEvent
<1>5. CASE Quit
  BY <1>5 DEF Quit, Windows
<1>6. QED
  BY <1>1, <1>2, <1>3, <1>4, <1>5 DEF Thread

LEMMA TypeOKWorld == TypeOK /\ World => TypeOK'
<1> SUFFICES ASSUME TypeOK, World PROVE TypeOK'
  OBVIOUS
<1> USE DEF TypeOK, client, manager, event
<1>1. ASSUME NEW e \in Events, Notify(e), usb' \in BOOLEAN, hid' \in BOOLEAN,
             told' \in BOOLEAN, late' \in BOOLEAN
      PROVE  TypeOK'
  BY <1>1 DEF Notify
<1>3. CASE Plug
  BY <1>1, <1>3, Zenon DEF Plug, Events
<1>4. CASE Unplug
  BY <1>1, <1>4, Zenon DEF Unplug, Events
<1>5. CASE OtherType
  BY <1>1, <1>5, Zenon DEF OtherType, Events
<1>2. CASE HidComesUp \/ TimerFires
  BY <1>2 DEF HidComesUp, TimerFires, bus
<1>6. QED
  BY <1>2, <1>3, <1>4, <1>5 DEF World

-----------------------------------------------------------------------------
(* Phase.                                                                  *)

LEMMA PhaseStep == TypeOK /\ Phase /\ [Next]_vars => Phase'
<1> SUFFICES ASSUME TypeOK, Phase, [Next]_vars PROVE Phase'
  OBVIOUS
<1> USE DEF Phase, RunningWhileOpen, InCall, Pumping
<1>1. CASE OpenReturns \/ CloseReturns
  BY <1>1 DEF OpenReturns, CloseReturns, manager
<1>2. CASE Client /\ ~OpenReturns /\ ~CloseReturns
  <2>1. pc \in InCall /\ pc' \in InCall \cup {"idle"} /\ UNCHANGED <<manager, stopped>>
    BY <1>2 DEF Client, LookFinds, LookFails, CreateEvent, ProbeFinds, ProbeFails,
                Wake, Woken, TimesOut, CloseHandle, ClearHandle
  <2>2. QED
    BY <2>1 DEF manager
<1>3. CASE CreateThread \/ CreateThreadFails \/ Call
  BY <1>3 DEF CreateThread, CreateThreadFails, Call, manager
<1>4. CASE PostKill
  BY <1>4 DEF PostKill
<1>5. CASE InitInstance \/ TestHandle \/ SetEvent
  BY <1>5 DEF InitInstance, TestHandle, SetEvent, client
<1>6. CASE OnDeviceChange
  BY <1>6 DEF OnDeviceChange, client, TypeOK
<1>7. CASE OnMsgDeviceEvent
  BY <1>7 DEF OnMsgDeviceEvent, client
<1>8. CASE Quit
  <2>1. pc \in {"closing", "closed"}
    <3>1. msgq \notin Seq(Events)
      BY <1>8 DEF Quit, Events
    <3>2. QED
      BY <3>1
  <2>2. QED
    BY <1>8, <2>1 DEF Quit, client
<1>9. CASE World
  BY <1>9 DEF World, Plug, Unplug, OtherType, Notify, HidComesUp, TimerFires,
              client, manager
<1>10. CASE UNCHANGED vars
  BY <1>10 DEF vars, client, manager
<1>11. QED
  BY <1>1, <1>2, <1>3, <1>4, <1>5, <1>6, <1>7, <1>8, <1>9, <1>10
     DEF Next, Choice, Thread, Finished

LEMMA TypeAndPhase == Spec => [](TypeOK /\ Phase)
<1>1. Init => Phase
  BY DEF Init, Phase, RunningWhileOpen, InCall
<1>2. TypeOK /\ UNCHANGED vars => TypeOK'
  BY DEF TypeOK, vars, client, manager, event, bus
<1>3. TypeOK /\ Phase /\ [Next]_vars => TypeOK'
  BY <1>2, TypeOKClient, TypeOKChoice, TypeOKThread, TypeOKWorld DEF Next, Finished
<1>4. QED
  BY <1>1, <1>3, TypeOKInit, PhaseStep, PTL DEF Spec

\* Every reachable state has the types of the declarations (DeviceManager.h:21-90).
THEOREM TypeCorrect == Spec => []TypeOK
BY TypeAndPhase, PTL

\* The manager thread pumps whenever the client is between Open and Close: the
\* start event of Open and the FIFO order of EVENT_KILL give it.
THEOREM ThreadRuns == Spec => []RunningWhileOpen
<1>1. Phase => RunningWhileOpen
  BY DEF Phase
<1>2. QED
  BY <1>1, TypeAndPhase, PTL

-----------------------------------------------------------------------------
(* HandleLife.                                                             *)

LEMMA HandleLifeStep == TypeOK /\ HandleLife /\ [Next]_vars => HandleLife'
<1> SUFFICES ASSUME TypeOK, HandleLife, [Next]_vars PROVE HandleLife'
  OBVIOUS
<1> USE DEF HandleLife
<1>1. CASE OpenReturns \/ CloseReturns \/ LookFinds \/ LookFails
  BY <1>1 DEF OpenReturns, CloseReturns, LookFinds, LookFails, event
<1>2. CASE CreateEvent
  <2>1. handles = {} /\ pc' \in {"probe", "wait"}
    BY <1>2 DEF CreateEvent
  <2>2. PICK h \in Handles : hChange' = h /\ handles' = handles \cup {h}
    BY <1>2 DEF CreateEvent
  <2>3. handles' = {hChange'} /\ hChange' # NULL
    BY <2>1, <2>2, HandlesAssumption
  <2>4. QED
    BY <2>1, <2>3
<1>3. CASE ProbeFinds \/ ProbeFails \/ Woken \/ TimesOut
  BY <1>3 DEF ProbeFinds, ProbeFails, Woken, TimesOut, event
<1>4. CASE Wake
  BY <1>4 DEF Wake
<1>5. CASE CloseHandle
  BY <1>5 DEF CloseHandle
<1>6. CASE ClearHandle
  BY <1>6 DEF ClearHandle
<1>7. CASE Choice
  BY <1>7 DEF Choice, CreateThread, CreateThreadFails, PostKill, Call, event
<1>8. CASE Thread
  BY <1>8 DEF Thread, InitInstance, OnDeviceChange, OnMsgDeviceEvent, TestHandle,
              SetEvent, Quit, client, event
<1>9. CASE World
  BY <1>9 DEF World, Plug, Unplug, OtherType, Notify, HidComesUp, TimerFires,
              client, event
<1>10. CASE UNCHANGED vars
  BY <1>10 DEF vars, client, event
<1>11. QED
  BY <1>1, <1>2, <1>3, <1>4, <1>5, <1>6, <1>7, <1>8, <1>9, <1>10
     DEF Next, Client, Finished

LEMMA HandleLifeInvariant == Spec => []HandleLife
<1>1. Init => HandleLife
  BY DEF Init, HandleLife
<1>2. QED
  BY <1>1, HandleLifeStep, TypeCorrect, PTL DEF Spec

\* A timer is made once a call.
TimersCounted ==
  /\ timers <= calls
  /\ pc \in {"look", "create"} => timers < calls

LEMMA TimersCountedStep == TypeOK /\ TimersCounted /\ [Next]_vars => TimersCounted'
<1> SUFFICES ASSUME TypeOK, TimersCounted, [Next]_vars PROVE TimersCounted'
  OBVIOUS
<1> timers \in Nat /\ calls \in Nat
  BY DEF TypeOK
<1> USE DEF TimersCounted
<1>1. CASE Call
  BY <1>1 DEF Call, event
<1>2. CASE CreateEvent
  BY <1>2 DEF CreateEvent
<1>3. CASE LookFails
  BY <1>3 DEF LookFails, event
<1>4. CASE Client /\ ~CreateEvent /\ ~LookFails
  BY <1>4 DEF Client, OpenReturns, CloseReturns, LookFinds, ProbeFinds, ProbeFails,
     Wake, Woken, TimesOut, CloseHandle, ClearHandle, event
<1>5. CASE Choice /\ ~Call
  BY <1>5 DEF Choice, CreateThread, CreateThreadFails, PostKill, event
<1>6. CASE Thread \/ World \/ Finished \/ UNCHANGED vars
  BY <1>6 DEF Thread, InitInstance, OnDeviceChange, OnMsgDeviceEvent, TestHandle, SetEvent,
     Quit, World, Plug, Unplug, OtherType, HidComesUp, TimerFires, Notify, Finished, vars,
     client, event
<1>7. QED
  BY <1>1, <1>2, <1>3, <1>4, <1>5, <1>6 DEF Next

\* However many calls are made and whichever way they end, no event stays open behind one,
\* and there are no more timers than calls (DeviceManager.cpp:237-239, 302-304).
THEOREM OnlyTimersLeft == Spec => []LeavesOnlyTimers
<1>1. Init => TimersCounted
  BY DEF Init, TimersCounted
<1>2. HandleLife /\ TimersCounted => LeavesOnlyTimers
  BY DEF HandleLife, TimersCounted, LeavesOnlyTimers
<1>3. QED
  BY <1>1, <1>2, TimersCountedStep, TypeCorrect, HandleLifeInvariant, PTL DEF Spec

-----------------------------------------------------------------------------
(* NoLostWakeup.                                                           *)

\* Every step keeps the promise: NoLostWakeup is inductive relative to the types,
\* the phases of the two threads and the life of the event.
LEMMA AwakeStep ==
  TypeOK /\ Phase /\ HandleLife /\ NoLostWakeup /\ [Next]_vars => NoLostWakeup'
<1> SUFFICES ASSUME TypeOK, Phase, HandleLife, NoLostWakeup, [Next]_vars
             PROVE  NoLostWakeup'
  OBVIOUS
<1> USE DEF NoLostWakeup, SleepsPast, OnItsWay
<1>1. CASE ProbeFails
  BY <1>1 DEF ProbeFails, bus
<1>2. CASE CreateEvent
  BY <1>2 DEF CreateEvent, bus
<1>3. CASE Woken
  BY <1>3 DEF Woken, bus
<1>4. CASE \/ OpenReturns \/ CloseReturns \/ LookFinds \/ LookFails \/ ProbeFinds
           \/ Wake \/ TimesOut \/ CloseHandle \/ ClearHandle \/ Choice
  BY <1>4 DEF OpenReturns, CloseReturns, LookFinds, LookFails, ProbeFinds, Wake,
              TimesOut, CloseHandle, ClearHandle, Choice, CreateThread,
              CreateThreadFails, PostKill, Call, bus
<1>5. CASE InitInstance
  BY <1>5 DEF InitInstance, Phase, RunningWhileOpen, InCall, Pumping, client, bus
<1>6. CASE OnDeviceChange
  BY <1>6 DEF OnDeviceChange, client, bus, event, TypeOK
<1>7. CASE OnMsgDeviceEvent
  BY <1>7 DEF OnMsgDeviceEvent, client, bus
<1>8. CASE TestHandle
  BY <1>8 DEF TestHandle, HandleLife, client, bus, event
<1>9. CASE SetEvent
  BY <1>9 DEF SetEvent, HandleLife, client, bus
<1>10. CASE Quit
  <2>1. msgq \notin Seq(Events)
    BY <1>10 DEF Quit, Events
  <2>2. pc # "wait" /\ pc' = pc
    BY <1>10, <2>1 DEF Quit, Phase, client
  <2>3. QED
    BY <1>10, <2>2 DEF Quit, bus
<1>11. CASE Plug
  BY <1>11 DEF Plug, Notify, Phase, RunningWhileOpen, InCall, Pumping, client, TypeOK
<1>12. CASE Unplug
  BY <1>12 DEF Unplug, Notify
<1>13. CASE OtherType
  BY <1>13 DEF OtherType, Notify, Phase, RunningWhileOpen, InCall, Pumping, client, TypeOK
<1>14. CASE HidComesUp
  BY <1>14 DEF HidComesUp
<1>15. CASE TimerFires \/ UNCHANGED vars
  BY <1>15 DEF TimerFires, vars, client, manager, event, bus
<1>16. QED
  BY <1>1, <1>2, <1>3, <1>4, <1>5, <1>6, <1>7, <1>8, <1>9, <1>10, <1>11, <1>12,
     <1>13, <1>14, <1>15 DEF Next, Client, Thread, World, Finished

\* With its window registered FindHidDevice never sleeps through the arrival of a
\* device whose HID interface is up with its USB interface (event created before
\* the probe and reset before the next, DeviceManager.cpp:202-221), for every
\* number of calls and of changes on the bus.
THEOREM NoWakeupLost == Spec => []NoLostWakeup
<1>1. Init => NoLostWakeup
  BY DEF Init, NoLostWakeup, SleepsPast
<1>2. QED
  BY <1>1, AwakeStep, TypeAndPhase, HandleLifeInvariant, PTL DEF Spec

-----------------------------------------------------------------------------
(* WaitedForIt.                                                            *)

\* WaitForChange waits only where the change it waits for is not the last event
\* yet, and from then on every event handled counts as happened.
Waiting ==
  /\ pc = "probe" => op = Find
  /\ (pc \in {"create", "wait", "woken"} /\ op # Find /\ last = op) => op \in happened

LEMMA WaitingStep == Waiting /\ WaitedForIt /\ [Next]_vars => Waiting' /\ WaitedForIt'
<1> SUFFICES ASSUME Waiting, WaitedForIt, [Next]_vars PROVE Waiting' /\ WaitedForIt'
  OBVIOUS
<1> USE DEF Waiting, WaitedForIt
<1>1. CASE LookFails
  BY <1>1 DEF LookFails, Satisfied, manager
<1>2. CASE CreateEvent
  BY <1>2 DEF CreateEvent, manager
<1>3. CASE Wake \/ Woken
  BY <1>3 DEF Wake, Woken, manager
<1>4. CASE TimesOut \/ CloseHandle \/ ClearHandle
  BY <1>4 DEF TimesOut, CloseHandle, ClearHandle, manager
<1>5. CASE ProbeFinds \/ ProbeFails
  BY <1>5 DEF ProbeFinds, ProbeFails
<1>6. CASE OpenReturns \/ CloseReturns \/ LookFinds \/ Choice
  BY <1>6 DEF OpenReturns, CloseReturns, LookFinds, Choice, CreateThread,
              CreateThreadFails, PostKill, Call, manager
<1>7. CASE OnMsgDeviceEvent
  BY <1>7 DEF OnMsgDeviceEvent, client
<1>8. CASE Thread /\ ~OnMsgDeviceEvent
  BY <1>8 DEF Thread, InitInstance, OnDeviceChange, TestHandle, SetEvent, Quit, client
<1>9. CASE World
  BY <1>9 DEF World, Plug, Unplug, OtherType, Notify, HidComesUp, TimerFires,
              client, manager
<1>10. CASE UNCHANGED vars
  BY <1>10 DEF vars, client, manager
<1>11. QED
  BY <1>1, <1>2, <1>3, <1>4, <1>5, <1>6, <1>7, <1>8, <1>9, <1>10
     DEF Next, Client, Finished

\* An event that came before the call does not end a WaitForChange that waited
\* (DeviceManager.cpp:265, 280-286), whatever the interleaving of the two threads.
THEOREM OnlyNewEventsWake == Spec => []WaitedForIt
<1>1. Init => Waiting /\ WaitedForIt
  BY DEF Init, Waiting, WaitedForIt
<1>2. QED
  BY <1>1, WaitingStep, PTL DEF Spec
=============================================================================
