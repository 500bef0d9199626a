----------------------------- MODULE Discovery -----------------------------
(***************************************************************************)
(* How CHidDevice finds and opens a part (HidDevice.cpp), and which of the *)
(* handles it is given it keeps.  A device object holds a handle and two   *)
(* report buffers of its own; the two events are static, one pair for all  *)
(* objects.  `lost' is what the process still has open and no variable     *)
(* holds any more.                                                         *)
(***************************************************************************)
EXTENDS Integers, Sequences, FiniteSets

CONSTANTS
  Objects,    \* the device objects a program may construct
  Handles,    \* kernel handles; a closed one is given out again
  NULL,       \* no handle
  Buses,      \* what may be plugged in: sequences of HID interfaces
  Guess,      \* the first guess at the number of interfaces
  MaxErrors   \* bound: enumeration errors other than NO_MORE_ITEMS

\* An interface: the part its path names, or "none" of ours, and the revision.
Parts == {"none", "MX28", "MX6", "MX8QM", "MX8QXP"}
ASSUME DiscoveryAssumption ==
  /\ NULL \notin Handles
  /\ Buses \subseteq Seq([part : Parts, rev : {"A", "B"}])
  /\ Guess \in Nat \ {0} /\ MaxErrors \in Nat

VARIABLES
  bus,        \* the HID interfaces there are now
  open,       \* the handles the process has open
  tx, rx,     \* m_sync_event_tx, m_sync_event_rx
  obj,        \* the device objects
  step,       \* where in FindKnownHidDevices the search is
  who,        \* the object that searches
  index, limit, errors   \* OpenUsbDevice: i, NumberDevices, errors so far

found == <<bus, open, tx, rx, obj>>
probe == <<step, who, index, limit, errors>>

DevTypes == {"unset", "MX28", "MX6", "MX8QM", "MX8QXP", "MX8QXPB0"}
Absent == [made |-> FALSE, handle |-> NULL, buffers |-> FALSE, type |-> "unset"]

DiscoveryTypeOK ==
  /\ bus \in Seq([part : Parts, rev : {"A", "B"}])
  /\ open \subseteq Handles
  /\ tx \in Handles \cup {NULL} /\ rx \in Handles \cup {NULL}
  /\ obj \in [Objects -> [made : BOOLEAN, handle : Handles \cup {NULL},
                          buffers : BOOLEAN, type : DevTypes]]
  /\ step \in {"idle", "enumerate", "reopen", "txEvent", "rxEvent", "buffers",
               "found", "failed"}
  /\ who \in Objects
  /\ {index, limit, errors} \subseteq Nat

DiscoveryInit ==
  /\ bus \in Buses
  /\ open = {} /\ tx = NULL /\ rx = NULL
  /\ obj = [o \in Objects |-> Absent]
  /\ step = "idle" /\ who \in Objects
  /\ index = 0 /\ limit = Guess /\ errors = 0

Held == ({tx, rx} \cup {obj[o].handle : o \in Objects}) \ {NULL}
lost == open \ Held

\* The handle Windows gives out next; which one it is makes no difference.
Fresh == CHOOSE h \in Handles : h \notin open
CanOpen == Handles \ open # {}

-----------------------------------------------------------------------------
(* The life of a device object.                                             *)

Construct(o) ==
  /\ ~obj[o].made
  /\ obj' = [obj EXCEPT ![o] = [Absent EXCEPT !.made = TRUE]]
  /\ tx' = NULL /\ rx' = NULL           \* the events of every other object, too
  /\ UNCHANGED <<bus, open>>

\* Mutant: the events are closed but the members keep their values.
DestroyKeepsEvents(o) ==
  /\ obj[o].made
  /\ open' = open \ {obj[o].handle, tx, rx}
  /\ obj' = [obj EXCEPT ![o] = Absent]
  /\ UNCHANGED <<bus, tx, rx>>

\* Mutant: Trash without Close.
DestroyWithoutClose(o) ==
  /\ obj[o].made
  /\ open' = open \ {tx, rx}
  /\ obj' = [obj EXCEPT ![o] = Absent]
  /\ tx' = NULL /\ rx' = NULL
  /\ UNCHANGED bus

\* Mutant: Close without Trash.
DestroyWithoutTrash(o) ==
  /\ obj[o].made
  /\ open' = open \ {obj[o].handle}
  /\ obj' = [obj EXCEPT ![o] = Absent]
  /\ UNCHANGED <<bus, tx, rx>>

\* Close, with FreeIoBuffers, then Trash.
Destroy(o) ==
  /\ obj[o].made
  /\ open' = open \ {obj[o].handle, tx, rx}
  /\ obj' = [obj EXCEPT ![o] = Absent]
  /\ tx' = NULL /\ rx' = NULL
  /\ UNCHANGED bus

-----------------------------------------------------------------------------
(* FindKnownHidDevices.                                                     *)

FindKnownHidDevices(o) ==
  /\ step = "idle" /\ obj[o].made
  /\ who' = o /\ index' = 0 /\ limit' = 2 * Guess
  /\ step' = "enumerate"
  /\ UNCHANGED <<found, errors>>

Exists == index < Len(bus)
Interface == bus[index + 1]
Enumerating == step = "enumerate" /\ index < limit

OpenUsbReturns == index' = 0 /\ limit' = Guess /\ errors' = 0

\* Mutant: the limit is not raised.
LimitNotRaised ==
  /\ step = "enumerate" /\ index = limit
  /\ limit' = limit
  /\ UNCHANGED <<found, step, who, index, errors>>

\* The guess at the number of interfaces was too small.
MoreDevices ==
  /\ step = "enumerate" /\ index = limit
  /\ limit' = 2 * limit
  /\ UNCHANGED <<found, step, who, index, errors>>

\* There are no more interfaces, or SetupDiGetClassDevs gives no list to begin with.
NoMoreItems ==
  /\ Enumerating
  /\ Exists => index = 0
  /\ step' = "failed" /\ OpenUsbReturns
  /\ UNCHANGED <<found, who>>

\* Any other error is skipped, as is an interface that is not ours.
EnumError ==
  /\ Enumerating /\ errors < MaxErrors
  /\ index' = index + 1 /\ errors' = errors + 1
  /\ UNCHANGED <<found, step, who, limit>>

NotOurs ==
  /\ Enumerating /\ Exists /\ Interface.part = "none"
  /\ index' = index + 1
  /\ UNCHANGED <<found, step, who, limit, errors>>

\* The type OpenSpecifiedDevice takes an interface for: the two revisions of the
\* MX8QXP differ in their hardware id, which may be unreadable (then it is
\* whatever the buffer held).
TypesOf(i) ==
  IF i.part # "MX8QXP" THEN {i.part}
  ELSE IF i.rev = "A" THEN {"MX8QXP", "MX8QXPB0"} ELSE {"MX8QXPB0"}

\* One of the queries, or CreateFile after m_DevType is set, fails.
OpenRefused ==
  /\ Enumerating /\ Exists /\ Interface.part # "none"
  /\ \/ obj' = obj
     \/ \E t \in TypesOf(Interface) : obj' = [obj EXCEPT ![who].type = t]
  /\ index' = index + 1
  /\ UNCHANGED <<bus, open, tx, rx, step, who, limit, errors>>

\* Mutant: interfaces are opened whether a filter matches or not.
OpenUnfiltered ==
  /\ Enumerating /\ CanOpen /\ Exists
  /\ \E t \in TypesOf(Interface) : obj' = [obj EXCEPT ![who].type = t]
  /\ open' = open \cup {Fresh}
  /\ step' = "reopen" /\ OpenUsbReturns
  /\ UNCHANGED <<bus, tx, rx, who>>

\* The handle OpenUsbDevice returns is only compared with INVALID_HANDLE_VALUE.
OpenSpecifiedDevice ==
  /\ Enumerating /\ CanOpen /\ Exists /\ Interface.part # "none"
  /\ \E t \in TypesOf(Interface) : obj' = [obj EXCEPT ![who].type = t]
  /\ open' = open \cup {Fresh}
  /\ step' = "reopen" /\ OpenUsbReturns
  /\ UNCHANGED <<bus, tx, rx, who>>

\* The second, overlapped, handle replaces whatever the object held.
Reopen ==
  /\ step = "reopen"
  /\ \/ /\ CanOpen
        /\ open' = open \cup {Fresh}
        /\ obj' = [obj EXCEPT ![who].handle = Fresh]
        /\ step' = "txEvent"
     \/ /\ obj' = [obj EXCEPT ![who].handle = NULL]
        /\ step' = "failed" /\ UNCHANGED open
  /\ UNCHANGED <<bus, tx, rx, who, index, limit, errors>>

CreateTxEvent ==
  /\ step = "txEvent" /\ CanOpen
  /\ tx' = Fresh /\ open' = open \cup {Fresh}
  /\ step' = "rxEvent"
  /\ UNCHANGED <<bus, rx, obj, who, index, limit, errors>>

CreateRxEvent ==
  /\ step = "rxEvent" /\ CanOpen
  /\ rx' = Fresh /\ open' = open \cup {Fresh}
  /\ step' = "buffers"
  /\ UNCHANGED <<bus, tx, obj, who, index, limit, errors>>

\* Mutant: an event that could not be created is no error.
CreateEventIgnored ==
  /\ step \in {"txEvent", "rxEvent"}
  /\ IF step = "txEvent" THEN tx' = NULL /\ UNCHANGED rx
                         ELSE rx' = NULL /\ UNCHANGED tx
  /\ step' = IF step = "txEvent" THEN "rxEvent" ELSE "buffers"
  /\ UNCHANGED <<bus, open, obj, who, index, limit, errors>>

CreateEventFails ==
  /\ step \in {"txEvent", "rxEvent"}
  /\ IF step = "txEvent" THEN tx' = NULL /\ UNCHANGED rx
                         ELSE rx' = NULL /\ UNCHANGED tx
  /\ step' = "failed"
  /\ UNCHANGED <<bus, open, obj, who, index, limit, errors>>

\* hid.dll or the preparsed data cannot be had, and what buffers there are stay; or
\* there is no memory for new ones.
AllocateRefused ==
  /\ step = "buffers"
  /\ obj' \in {obj, [obj EXCEPT ![who].buffers = FALSE]}
  /\ step' = "failed"
  /\ UNCHANGED <<bus, open, tx, rx, who, index, limit, errors>>

\* HidP_GetCaps may fail: its error is dropped, and with lengths of 0 there are
\* no buffers.
AllocateIoBuffers ==
  /\ step = "buffers"
  /\ \E caps \in BOOLEAN : obj' = [obj EXCEPT ![who].buffers = caps]
  /\ step' = "found"
  /\ UNCHANGED <<bus, open, tx, rx, who, index, limit, errors>>

FindStep ==
  \/ MoreDevices \/ NoMoreItems \/ EnumError \/ NotOurs \/ OpenRefused
  \/ OpenSpecifiedDevice \/ Reopen \/ CreateTxEvent \/ CreateRxEvent
  \/ CreateEventFails \/ AllocateRefused \/ AllocateIoBuffers

\* The search's result has been taken.
Returned == step' = "idle" /\ UNCHANGED <<who, index, limit, errors>>

BusChanges ==
  /\ bus' \in Buses /\ bus' # bus
  /\ UNCHANGED <<open, tx, rx, obj, probe>>
=============================================================================
