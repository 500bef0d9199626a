--------------------------- MODULE DeviceManager ---------------------------
(***************************************************************************)
(* DeviceManager (DeviceManager.cpp): the client thread, which calls Open, *)
(* FindHidDevice, WaitForChange and Close, and the DeviceManager thread,   *)
(* which turns WM_DEVICECHANGE into thread messages and signals the client *)
(* through _hChangeEvent.                                                  *)
(*                                                                         *)
(* The two threads share _hChangeEvent, the event object behind it and     *)
(* _lastEventType, without a lock.  Each read or write of them is a step   *)
(* of its own.  The handle of an event is one of a few values, which       *)
(* Windows reuses once it is closed; those of timers are counted.          *)
(***************************************************************************)
EXTENDS Naturals, Sequences, FiniteSets

CONSTANTS
  Handles,     \* values CreateEvent may return
  NULL,        \* the null handle
  MaxCalls,    \* bound: calls of FindHidDevice and WaitForChange
  MaxChanges   \* bound: changes on the bus

ASSUME HandlesAssumption == NULL \notin Handles /\ Handles # {}
ASSUME BoundsAssumption  == MaxCalls \in Nat /\ MaxChanges \in Nat

VARIABLES
  pc,          \* where the client thread is
  op,          \* the call in progress: FindHidDevice, or WaitForChange and for what
  found,       \* what that call returns, or the last one returned
  calls,       \* calls made
  stopped,     \* _bStopped
  mpc,         \* where the DeviceManager thread is
  window,      \* _DevChangeWnd: none, unregistered, or registered for USB devices
  held,        \* the value of _hChangeEvent it tested
  wndq,        \* WM_DEVICECHANGE notifications sent to _DevChangeWnd
  msgq,        \* the thread's message queue
  last,        \* _lastEventType
  hChange,     \* _hChangeEvent
  handles,     \* open handles of events
  timers,      \* open handles of timers
  signalled,   \* the event object behind the open handle is set
  timer,       \* FindDeviceTimer: "off", "armed" or "fired"
  usb, hid,    \* the device's USB and HID interfaces are present
  told,        \* its arrival was announced to the window
  late,        \* its HID interface came up after its USB interface
  changes,     \* changes on the bus so far
  happened     \* events handled since the call in progress began

client  == <<pc, op, found, calls, stopped>>
manager == <<mpc, window, held, wndq, msgq, last>>
event   == <<hChange, handles, timers, signalled>>
bus     == <<usb, hid, told, late, changes>>
vars    == <<client, manager, event, timer, bus, happened>>

\* VOLUME_ARRIVAL_EVT stands for the four events of volumes and hubs.
Events == {"DEVICE_ARRIVAL_EVT", "DEVICE_REMOVAL_EVT", "VOLUME_ARRIVAL_EVT",
           "UNKNOWN_EVT"}
DeviceEvents == {"DEVICE_ARRIVAL_EVT", "DEVICE_REMOVAL_EVT"}
Find   == "FindHidDevice"
Ops    == {Find} \cup DeviceEvents

InCall  == {"look", "create", "probe", "wait", "woken", "close", "clear"}
Pumping == {"pump", "test", "signal"}
Windows == {"none", "unregistered", "registered"}

Init ==
  /\ pc = "start" /\ op = Find /\ found = FALSE /\ calls = 0 /\ stopped = TRUE
  /\ mpc = "none" /\ window = "none" /\ held = NULL /\ wndq = <<>> /\ msgq = <<>>
  /\ last = "UNKNOWN_EVT"
  /\ hChange = NULL /\ handles = {} /\ timers = 0 /\ signalled = FALSE
  /\ timer = "off"
  /\ usb \in BOOLEAN /\ hid = usb /\ told = FALSE /\ late = FALSE /\ changes = 0
  /\ happened = {}

-----------------------------------------------------------------------------
(* Open and Close, in the client thread.                                   *)

CreateThread ==
  /\ pc = "start"
  /\ pc' = "opening" /\ mpc' = "created"
  /\ UNCHANGED <<op, found, calls, stopped, window, held, wndq, msgq, last,
                 event, timer, bus, happened>>

\* Open reports the error; the client has no manager to call.
CreateThreadFails ==
  /\ pc = "start"
  /\ pc' = "failed"
  /\ UNCHANGED <<op, found, calls, stopped, manager, event, timer, bus, happened>>

\* Mutant: Open does not hold the client thread until InitInstance is done.
OpenReturnsAtOnce ==
  /\ pc = "opening"
  /\ pc' = "idle" /\ stopped' = FALSE
  /\ UNCHANGED <<op, found, calls, manager, event, timer, bus, happened>>

\* InitInstance sets _hStartEvent, manual reset, as its last step.
OpenReturns ==
  /\ pc = "opening" /\ mpc \in Pumping
  /\ pc' = "idle" /\ stopped' = FALSE
  /\ UNCHANGED <<op, found, calls, manager, event, timer, bus, happened>>

\* PostThreadMessage fails while the thread has no message queue.
PostKill ==
  /\ pc = "idle"
  /\ pc' = "closing"
  /\ msgq' = IF mpc = "created" THEN msgq ELSE Append(msgq, "EVENT_KILL")
  /\ UNCHANGED <<op, found, calls, stopped, mpc, window, held, wndq, last, event,
                 timer, bus, happened>>

CloseReturns ==
  /\ pc = "closing" /\ mpc = "dead"
  /\ pc' = "closed" /\ stopped' = TRUE
  /\ UNCHANGED <<op, found, calls, manager, event, timer, bus, happened>>

-----------------------------------------------------------------------------
(* FindHidDevice and WaitForChange, in the client thread.                  *)

Call ==
  /\ pc = "idle" /\ calls < MaxCalls
  /\ pc' = "look" /\ calls' = calls + 1
  /\ op' \in Ops
  /\ happened' = {}
  /\ UNCHANGED <<found, stopped, manager, event, timer, bus>>

\* The device is there (FindKnownHidDevices), or the change already happened.
Satisfied == IF op = Find THEN hid ELSE last = op

LookFinds ==
  /\ pc = "look" /\ Satisfied
  /\ pc' = "idle" /\ found' = TRUE
  /\ UNCHANGED <<op, calls, stopped, manager, event, timer, bus, happened>>

\* With a timeout of 0 the call gives up; with another it goes on to wait.
LookFails ==
  /\ pc = "look" /\ ~Satisfied
  /\ \/ pc' = "idle" /\ found' = FALSE
     \/ pc' = "create" /\ UNCHANGED found
  /\ UNCHANGED <<op, calls, stopped, manager, event, timer, bus, happened>>

\* Mutant: FindHidDevice waits for the event before it has probed again.
CreateEventAndWait ==
  /\ pc = "create"
  /\ \E h \in Handles \ handles :
       hChange' = h /\ handles' = handles \cup {h}
  /\ timers' = timers + 1
  /\ signalled' = FALSE /\ timer' = "armed"
  /\ pc' = "wait"
  /\ UNCHANGED <<op, found, calls, stopped, manager, bus, happened>>

\* CreateEvent (manual reset, clear), CreateWaitableTimer, SetWaitableTimer.
CreateEvent ==
  /\ pc = "create"
  /\ \E h \in Handles \ handles :
       hChange' = h /\ handles' = handles \cup {h}
  /\ timers' = timers + 1
  /\ signalled' = FALSE /\ timer' = "armed"
  /\ pc' = IF op = Find THEN "probe" ELSE "wait"
  /\ UNCHANGED <<op, found, calls, stopped, manager, bus, happened>>

\* The loop condition of FindHidDevice.
ProbeFinds ==
  /\ pc = "probe" /\ hid
  /\ pc' = "close" /\ found' = TRUE
  /\ UNCHANGED <<op, calls, stopped, manager, event, timer, bus, happened>>

ProbeFails ==
  /\ pc = "probe" /\ ~hid
  /\ pc' = "wait"
  /\ UNCHANGED <<op, found, calls, stopped, manager, event, timer, bus, happened>>

\* Mutant: the manual-reset event is never reset.
WakeWithoutReset ==
  /\ pc = "wait" /\ signalled
  /\ pc' = "woken"
  /\ UNCHANGED <<op, found, calls, stopped, manager, event, timer, bus, happened>>

\* MsgWaitForMultipleObjects returns the change event; ResetEvent.
Wake ==
  /\ pc = "wait" /\ signalled
  /\ signalled' = FALSE
  /\ pc' = "woken"
  /\ UNCHANGED <<op, found, calls, stopped, manager, hChange, handles, timers,
                 timer, bus, happened>>

\* Mutant: WaitForChange takes any event for the one it waits for.
WokenByAnything ==
  /\ pc = "woken"
  /\ IF op = Find
     THEN pc' = "probe" /\ UNCHANGED found
     ELSE pc' = "close" /\ found' = TRUE
  /\ UNCHANGED <<op, calls, stopped, manager, event, timer, bus, happened>>

\* FindHidDevice sleeps 50 ms and probes again; WaitForChange reads _lastEventType.
Woken ==
  /\ pc = "woken"
  /\ CASE op = Find              -> pc' = "probe" /\ UNCHANGED found
       [] op # Find /\ last = op -> pc' = "close" /\ found' = TRUE
       [] OTHER                  -> pc' = "wait" /\ UNCHANGED found
  /\ UNCHANGED <<op, calls, stopped, manager, event, timer, bus, happened>>

\* The timer is the second handle of the wait: the change event goes first.
TimesOut ==
  /\ pc = "wait" /\ ~signalled /\ timer = "fired"
  /\ pc' = "close" /\ found' = FALSE
  /\ UNCHANGED <<op, calls, stopped, manager, event, timer, bus, happened>>

\* Mutant: the handle is forgotten without being closed.
ForgetHandle ==
  /\ pc = "close"
  /\ pc' = "clear"
  /\ UNCHANGED <<op, found, calls, stopped, manager, event, timer, bus, happened>>

\* clean up: the event's handle is closed, the timer's is not.
CloseHandle ==
  /\ pc = "close"
  /\ handles' = handles \ {hChange}
  /\ pc' = "clear"
  /\ UNCHANGED <<op, found, calls, stopped, manager, hChange, timers, signalled,
                 timer, bus, happened>>

ClearHandle ==
  /\ pc = "clear"
  /\ hChange' = NULL
  /\ pc' = "idle"
  /\ UNCHANGED <<op, found, calls, stopped, manager, handles, timers, signalled,
                 timer, bus, happened>>

-----------------------------------------------------------------------------
(* The DeviceManager thread.                                               *)

\* Creates _DevChangeWnd and registers it for USB devices.  Whether that worked or
\* not, _hStartEvent is set and the thread runs.
InitInstance ==
  /\ mpc = "created"
  /\ mpc' = "pump" /\ window' \in Windows
  /\ UNCHANGED <<client, held, wndq, msgq, last, event, timer, bus, happened>>

\* A sent message is handled before any posted one: it becomes a thread message.
OnDeviceChange ==
  /\ mpc = "pump" /\ wndq # <<>>
  /\ msgq' = Append(msgq, Head(wndq))
  /\ wndq' = Tail(wndq)
  /\ UNCHANGED <<client, mpc, window, held, last, event, timer, bus, happened>>

\* Mutant: EVENT_KILL falls through to the assignment of _lastEventType.
KillFallsThrough ==
  /\ mpc = "pump" /\ wndq = <<>> /\ msgq # <<>>
  /\ last' = Head(msgq)
  /\ happened' = happened \cup {Head(msgq)}
  /\ msgq' = Tail(msgq)
  /\ mpc' = "test"
  /\ UNCHANGED <<client, window, held, wndq, event, timer, bus>>

\* OnMsgDeviceEvent, up to the assignment of _lastEventType.
OnMsgDeviceEvent ==
  /\ mpc = "pump" /\ wndq = <<>> /\ msgq # <<>>
  /\ Head(msgq) # "EVENT_KILL"
  /\ last' = Head(msgq)
  /\ happened' = happened \cup {Head(msgq)}
  /\ msgq' = Tail(msgq)
  /\ mpc' = "test"
  /\ UNCHANGED <<client, window, held, wndq, event, timer, bus>>

TestHandle ==
  /\ mpc = "test"
  /\ mpc' = IF hChange = NULL THEN "pump" ELSE "signal"
  /\ held' = hChange
  /\ UNCHANGED <<client, window, wndq, msgq, last, event, timer, bus, happened>>

\* SetEvent, on the value tested or on the one read again; a handle that is not
\* open leaves the event as it was and makes VERIFY fail.
SetEvent ==
  /\ mpc = "signal"
  /\ \E h \in {held, hChange} :
       signalled' = (signalled \/ h \in handles)
  /\ mpc' = "pump"
  /\ UNCHANGED <<client, window, held, wndq, msgq, last, hChange, handles, timers,
                 timer, bus, happened>>

\* EVENT_KILL: PostQuitMessage, ExitInstance (DestroyWindow), thread end.
Quit ==
  /\ mpc = "pump" /\ wndq = <<>> /\ msgq # <<>>
  /\ Head(msgq) = "EVENT_KILL"
  /\ msgq' = Tail(msgq) /\ mpc' = "dead" /\ window' = "none"
  /\ UNCHANGED <<client, held, wndq, last, event, timer, bus, happened>>

-----------------------------------------------------------------------------
(* Windows and the bus (external).                                         *)

\* A notification reaches the window if it exists; one about a device interface
\* only if it is registered for them.
Notify(e) ==
  /\ changes < MaxChanges /\ changes' = changes + 1
  /\ wndq' = IF window = "registered" \/ (window # "none" /\ e \notin DeviceEvents)
             THEN Append(wndq, e) ELSE wndq
  /\ UNCHANGED <<client, mpc, window, held, msgq, last, event, timer, happened>>

\* The HID interface is up with the USB interface, or later (HidComesUp).
Plug ==
  /\ ~usb /\ usb' = TRUE /\ hid' \in BOOLEAN /\ late' = FALSE
  /\ told' = (window = "registered")
  /\ Notify("DEVICE_ARRIVAL_EVT")

Unplug ==
  /\ usb /\ usb' = FALSE /\ hid' = FALSE /\ told' = FALSE /\ late' = FALSE
  /\ Notify("DEVICE_REMOVAL_EVT")

\* A broadcast about a volume or a hub, or about a device type OnDeviceChange does
\* not classify, such as a port.
OtherType ==
  /\ UNCHANGED <<usb, hid, told, late>>
  /\ \E e \in Events \ DeviceEvents : Notify(e)

HidComesUp ==
  /\ usb /\ ~hid /\ hid' = TRUE /\ late' = TRUE
  /\ UNCHANGED <<client, manager, event, timer, usb, told, changes, happened>>

TimerFires ==
  /\ timer = "armed" /\ timer' = "fired"
  /\ UNCHANGED <<client, manager, event, bus, happened>>

\* The client is done and nothing else can happen.
Finished ==
  /\ pc \in {"failed", "closed"} /\ changes = MaxChanges
  /\ UNCHANGED vars

Client == \/ OpenReturns \/ CloseReturns
          \/ LookFinds \/ LookFails \/ CreateEvent \/ ProbeFinds \/ ProbeFails
          \/ Wake \/ Woken \/ TimesOut \/ CloseHandle \/ ClearHandle
Choice == CreateThread \/ CreateThreadFails \/ PostKill \/ Call
Thread == InitInstance \/ OnDeviceChange \/ OnMsgDeviceEvent \/ TestHandle
          \/ SetEvent \/ Quit
World  == Plug \/ Unplug \/ OtherType \/ HidComesUp \/ TimerFires

Next == Client \/ Choice \/ Thread \/ World \/ Finished

Spec == Init /\ [][Next]_vars

\* Both threads run and the timer fires; the client and the bus need not act.
FairSpec == Spec /\ WF_vars(Client) /\ WF_vars(Thread) /\ WF_vars(TimerFires)

-----------------------------------------------------------------------------
(* Properties.                                                             *)

TypeOK ==
  /\ pc \in InCall \cup {"start", "opening", "idle", "closing", "closed", "failed"}
  /\ op \in Ops /\ found \in BOOLEAN /\ calls \in Nat /\ stopped \in BOOLEAN
  /\ mpc \in Pumping \cup {"none", "created", "dead"} /\ window \in Windows
  /\ held \in Handles \cup {NULL}
  /\ wndq \in Seq(Events) /\ msgq \in Seq(Events \cup {"EVENT_KILL"})
  /\ last \in Events
  /\ hChange \in Handles \cup {NULL} /\ handles \subseteq Handles
  /\ timers \in Nat
  /\ signalled \in BOOLEAN /\ timer \in {"off", "armed", "fired"}
  /\ usb \in BOOLEAN /\ hid \in BOOLEAN /\ told \in BOOLEAN /\ late \in BOOLEAN
  /\ changes \in Nat
  /\ happened \subseteq Events

\* A notification not yet dealt with, or being signalled to the current event.
OnItsWay == \/ wndq # <<>> \/ msgq # <<>> \/ mpc = "test"
            \/ mpc = "signal" /\ held = hChange

\* FindHidDevice sleeps though a device it could open is there, and nothing is
\* going to wake it but the timer.
SleepsPast == pc = "wait" /\ op = Find /\ hid /\ ~signalled /\ ~OnItsWay

\* FindHidDevice does not sleep past a device when the window is registered and the
\* device's HID interface is up with its USB interface: the event exists before
\* the probe and is reset before the next one (DeviceManager.cpp:202-221).  Without a
\* registered window, which InitInstance does not report (:123-148), it does.
NoLostWakeup == window = "registered" /\ ~late => ~SleepsPast

\* "see if a device arrives before the waitPeriod expires" (DeviceManager.cpp:197):
\* FindHidDevice does not sleep past a device whose arrival was announced.
NoMissedDevice == told => ~SleepsPast

\* Between Open and Close the DeviceManager thread pumps messages, so that calls are
\* made only of a manager that runs (start event, DeviceManager.cpp:76); whether
\* it has a window is another matter.
RunningWhileOpen == pc \in InCall \cup {"idle"} => mpc \in Pumping /\ ~stopped

\* What the calls leave behind: no event, whichever way they end, and at most one timer
\* each, which "clean up" forgets (DeviceManager.cpp:204, 237-239, 267, 302-304).
LeavesOnlyTimers ==
  pc \in {"idle", "closing", "closed"} => handles = {} /\ hChange = NULL /\ timers <= calls

\* WaitForChange that waited and says the change came has been told so since it
\* was called: an older event cannot wake it (DeviceManager.cpp:265, 280-286).
WaitedForIt ==
  (pc \in {"close", "clear"} /\ op # Find /\ found) => op \in happened

\* Every call returns, Close included: the timer bounds the waits, and the
\* EVENT_KILL that Close posts is read by the thread (DeviceManager.cpp:107-109).
CallsReturn == pc \in InCall \cup {"opening", "closing"} ~> pc \in {"idle", "closed"}
=============================================================================
