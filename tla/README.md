# A verification project for sb_loader

sb_loader is a Windows command-line tool that downloads an image into the RAM of
an i.MX (or older STMP/i.MX23/28) part and starts it.  The part is in recovery
mode: its boot ROM shows up as a USB HID device and understands either the SDP
protocol (Serial Download Protocol, i.MX50 and later) or the ST "BLTC" protocol.
This directory holds TLA+ modules of the program, TLC runs that check them on
small instances and proofs for every size, checked by TLAPS.

## 1. Inventory

| part | code | state it keeps | operations |
|---|---|---|---|
| report transport | `HidDevice.cpp` 571-678 | `m_overlapped` (verdict in `Offset`, wanted size in `hEvent`), two static events, two report buffers | `Write`, `Read`, the two completion routines |
| device discovery | `HidDevice.cpp` 38-567 | `m_hid_drive_handle`, events, buffers, `m_DevType`, `m_Capabilities` | `FindKnownHidDevices`, `OpenUsbDevice`, `OpenSpecifiedDevice`, `AllocateIoBuffers`, `Close`, `Trash` |
| device manager | `DeviceManager.cpp` 36-458 | `_bStopped`, `_hStartEvent`, `_hChangeEvent`, `_lastEventType`, a window and a thread | `Open`, `Close`, `FindHidDevice`, `WaitForChange`; in its own thread `InitInstance`, `OnDeviceChange`, `OnMsgDeviceEvent`, `ExitInstance` |
| AutoPlay suppression | `DeviceManager.cpp` 461-631 | `_ROT`, `_isRegistered`, `_cRef` | `SetCancelAutoPlay`, `Unregister`, COM methods |
| SDP host | `MxHidDevice.cpp/.h` | `m_jumpAddr`, `m_IsFitImage`, the report buffers | commands `TransData`, `ReadData`, `SkipDCD`, `Jump`, `DCDWrite`, `WriteReg`; flows `Download`, `AddIvtHdr`, `Execute`, `RunPlugIn`, `RunMxMultiImg`, `LoadFirmware` |
| image parsing | `MxHidDevice.cpp` 303-441, 602-769 | none | `GetIvtOffset`, `RunDCD`, the parameters of `RunPlugIn`, `SCUViewAddr` |
| FIT images | `MxHidDevice.cpp` 443-600 with `libfdt` | none | `LoadFitImage`, `FitGetImageNodeOffset`, `FitGetIntProp` |
| ST download | `sthiddevice.cpp` | the report buffers | `CStHidDevice::Download` |
| program | `sb_loader.cpp` | the two device objects, the manager, `MxFunc` | `ProcessCommandLine`, `SearchDevice`, `_tmain`, `MxRun`, `StDownload` |
| libfdt, reading | `libfdt/fdt.c`, `fdt_ro.c` | none: a blob in memory | `fdt_next_tag`, walks over nodes and properties, paths, phandles, string lists |
| libfdt, writing and editing | `libfdt/fdt_sw.c`, `fdt_rw.c`, `fdt_wip.c` | the blob: header, reserve map, structure, strings | `fdt_create` to `fdt_finish`; `fdt_setprop`, `fdt_add_subnode`, `fdt_del_node`, `fdt_nop_*`, `fdt_open_into`, `fdt_pack`, ... |

How they interact.  `_tmain` opens the device manager, which starts a thread, then
calls `FindHidDevice` with a device object: it probes (`FindKnownHidDevices`),
and sleeps on an event the manager thread sets when Windows announces a change on
the bus.  With the device open, everything happens in the client thread: the flows
of `MxHidDevice` are sequences of SDP commands, each a `Write` of a command
report, perhaps `Write`s of data, and one or more `Read`s of answers.  `Write` and
`Read` are overlapped: they submit a request and wait alertably, and completion
routines (APCs of the same thread) run inside whichever wait comes next.

What is hard to get right, and hard to test:

* a `Read` gives up after 10 ms and asks for the cancellation of its request without
  waiting for it, so requests and completions outlive their calls;
* one `OVERLAPPED` serves both directions, its size field being what tells an old
  completion from a new one;
* answers are matched to questions by position;
* two threads share a handle and an event type without a lock;
* some failures are deliberately not failures: a plugin that has not answered yet, a
  ROM without `SKIP_DCD_HEADER`, a second search that finds nothing;
* two device objects share two static events, searches are repeated on one object, and
  Windows reuses the numbers of closed handles;
* files are walked by offsets they contain, some counted from the file, some from the IVT,
  some in bytes and some in words;
* some lengths and offsets are unsigned and are tested after a subtraction that may wrap;
* a blob is edited in place: every splice moves what is behind it and three header fields.

What makes each part correct: the transport reports success only for reports really
exchanged, and always returns; the manager never lets a client sleep through a device
that is there, wakes it by news only and closes its events; the SDP host starts only a whole image, after the
memory is set up exactly once, and reports success only when it has; the program
tells its caller what became of the task and on its way out releases what it holds; a
file is read the way it describes itself; a device tree stays well formed whatever is
done to it, and every call does to it what it says or nothing.  `PROJECT.json` lists the hazards one by one.

## 2. Modules

| module | models | correspondence |
|---|---|---|
| `HidPort` | what callers rely on from `Write` and `Read` | four counters; a success never precedes the exchange it is about |
| `HidDevice` | `CHidDevice::Write`, `Read`, the completion routines; the driver, the APC queue and `CancelIo` around them | `StartWrite`/`StartRead` are the calls up to `WriteFileEx`/`ReadFileEx`, `*Refused` their early returns, `WriteReturns`/`ReadReturns` the end of the wait together with every completion routine that runs in it, `ReadTimesOut` and `CancelRead` the time-out |
| `DeviceManager` | both threads of the manager | an action per access to shared state; `wndq` holds sent window messages, `msgq` the posted thread messages; `window` says what `InitInstance` achieved, which drops the failures of making the window and of registering it; `handles` are the open events, `timers` the number of open timers |
| `BootRom` | the ROM (external) | one action per SDP command; RAM counted in cells |
| `Sdp` | `MxRun` and the SDP calls it makes, over `HidDevice` and `BootRom` | `stage` names the call in progress, `phase` the report that is next; `Say` and `Listen` are the calls of `Write` and `Read`, the other host actions what the code does with their result |
| `StHidDevice` | `CStHidDevice::Download` over `HidDevice` | an action per `Write` or `Read` (the call) and one per way it goes on; the file is numbered bytes |
| `Discovery` | device objects of `HidDevice.cpp`: constructor, destructor, `FindKnownHidDevices` | `step` is how far a search is; one action per call to Windows and outcome; `open` are the handles Windows has given out |
| `SbLoader` | `sb_loader.cpp` over `Discovery` | `stage` is where `_tmain` is; one action per kind of option in `ProcessCommandLine`, per step of the search, per outcome of a task, and `ExitMain` |
| `Images` | `GetIvtOffset`, `RunDCD`, `RunPlugIn`, `RunMxMultiImg`, `LoadFirmware` on the words of a whole file | `pc` is the place in the code; `loads` are the downloads asked for, `regs` the registers, `par` is `ImageParameter`; `Layout` puts together the files that `mkimage` makes (external) |
| `FitImage` | `FitGetImageNodeOffset`, `FitGetIntProp` on a tree | operators; `Images` has the actions of `LoadFitImage` |
| `Fdt` | the reading functions of libfdt | operators with the names of the functions; a structure block is a sequence of cells, an offset counts cells |
| `FdtEdit` | the life of a blob: `fdt_sw.c`, `fdt_rw.c`, `fdt_wip.c` | one action per function, with its errors; sizes are those of the bytes, in units of `TagSize`; tests for room are unsigned where the code's are; a blob whose header was written over is `"lost"` |
| `FdtDoc` | what a tree is to its users | nodes in the order of the text; `FdtEdit` implements it |
| `MC*` | constants for TLC | |
| `HidDevice_proofs`, `DeviceManager_proofs`, `StHidDevice_proofs`, `Sdp_proofs`, `SdpRun_proofs`, `SbLoader_proofs`, `Images_proofs`, `FdtEdit_proofs` | theorems about the module they are named after (`SdpRun_proofs`: about `Sdp`) | a lemma per action; the theorems end each section |

`Sdp` and `StHidDevice` compose by sharing variables: `Hid == INSTANCE HidDevice` gives
the transport, and in `Sdp` `Rom == INSTANCE BootRom` the target.  `said` and `heard` attach contents to the
reports that `HidDevice` only counts.  `SbLoader` extends `Discovery`, `FdtEdit` extends `Fdt`,
and `FdtEdit` maps its blob to a document (`Doc`) for `D == INSTANCE FdtDoc WITH ...`.
What a task of `SbLoader` says to the part is the matter of `Sdp` and `StHidDevice`, what a
file asks for that of `Images`: there a download either works or fails.

Abstractions.  A file is a sequence of numbered cells and a report carries a few;
RAM holds cells.  The fields of IVTs and boot data that `RunPlugIn` computes with are
fields of the image record, so its arithmetic is the code's.  Sleeps are not modelled:
any delay is possible anywhere.  Progress messages are left out.  All six handlers of
a `WM_DEVICECHANGE` about hubs and volumes behave alike and are one event,
`VOLUME_ARRIVAL_EVT`.

Of Windows we assume: a completion routine runs only in an alertable wait of the thread
that made the request, all queued ones run before the wait ends; requests of one
direction are served in order; a cancelled request may still succeed, or fail at any
later time; a driver ends every write.  Window messages are handled before posted ones;
a window gets the changes of volumes and hubs whether registered or not, those of device
interfaces only if it is registered for them.
A device sends an input report only as an answer, so `DeviceSends` is bounded by the
number of calls.  In `Discovery` any call may fail, at any time; the handle given out
next is one that is not open, possibly one that was closed before; which one makes no
difference, as the tool never compares two.  `SetupDiGetClassDevs` takes
a snapshot, so the bus changes between searches only.

In `Fdt` a name is a sequence of pieces and a value a sequence of characters; a tag, a
length or an offset takes `TagSize` characters, so that alignment matters.  Callers keep
the library's rules: the reserve map is finished once and before the first node, there
is one root, properties are written before subnodes, only finished trees are edited.  The code
does not enforce all of them: an editing call is refused on an unfinished blob by the order of
its blocks only, so one that has a structure and no strings yet would pass; the `fdt_nop_` calls
check no header.  `fdt_get_path` that leaves its buffer returns `OUTSIDE`, which is no
error code of the library.

In `Sdp` an MX8 image whose boot data asks for a plugin is refused at once
(`sb_loader.cpp:337-342`), as in the code.

## 3. Runs

| run | checks | shows |
|---|---|---|
| `HidDevice` | `TypeOK` `DebtBound` `ExactWithoutTimeout` `PortSpec` `CallsReturn` | four calls, 92 000 states |
| `DeviceManager` | `TypeOK` `NoLostWakeup` `RunningWhileOpen` `LeavesOnlyTimers` `WaitedForIt` `CallsReturn` | two calls, two changes, two handle values, a window made and registered or not: 296 000 states |
| `DeviceManagerHid` | `NoMissedDevice`, violated | the arrival was announced, the HID interface comes up after the probe, which nothing announces |
| `Sdp` | `TypeOK` `Bootable` `SuccessIsReal` `DcdOnce` `MemoryReady` `RunEnds` | seven images, 206 000 states |
| `SdpIvtFirst` | `RunsTheImage`, violated | IVT in front of the code |
| `SdpLateRead` | `RunsTheImage`, violated | a Read that outlives its call |
| `StHidDevice` | `TypeOK` `ReadsInFile` `Whole` `DownloadEnds` | files of 1 to 6 bytes in reports of 2, with and without status, 2 700 states |
| `StHidDeviceEmpty` | `InFile`, violated | the number of reports of an empty file wraps round |
| `SbLoader` | `TypeOK` `Owned` `LosesOnlyInSearch` `ExitMainReleases` `TaskReady` `TaskHasData` `TaskAsAsked` `ExitCodeTells` `ProgramEnds` | every command line of two options, every failure of every call, 1 330 000 states |
| `Images` | `FindsTheImage` `FindsTheNamed` `RunsWhatIsAsked` `SetsRegisters` `ParsingEnds` | 142 files of every kind, 1 400 states |
| `ImagesNoIvt` | `RefusesWithoutIvt`, violated | a file without an IVT is downloaded and started all the same |
| `Fdt` | `TypeOK` `Fits` `HeaderTrue` `ReadersAgree` `DocSpec` | every tree that fits into 29 characters, every edit of it: 5 500 blobs, 655 000 calls |

Bounds and why they are enough.  `MaxOps = 4`: a call that times out, one that inherits
its leftovers, and one more on each side; the invariants relate counts, and the proofs
cover every length.  `MaxCalls = 2`, `MaxChanges = 2`, two handles: a second call with
a reused handle value while the manager still holds the first, a device that leaves and
comes back.  The images of `MCSdp` are small, but every download takes several
reports and some several commands (`MaxCmd = 4`, `OutCells = 2`), a DCD several
batches (`MaxRegs = 2`), a header read two reports (`HeaderCells = 2`), and the
segments of the MX8 image touch, so that rounding overlaps.  `MaxOps` of `Sdp` and `StHidDevice`
never binds.  The files of `StHidDevice` end with a full report or an incomplete one,
and go through its loop not at all, once and twice; `ULONGs = 16` has a ULONG wrap
after 4 bits.  The report lengths 2 and 4 stand for 65 and 1025: all that matters is that they
differ.

`SbLoader`: two options are enough for one to follow another and for one to swallow
the next as its parameter (`MaxUnits = 2`); two probes (`MaxProbes = 2`) for a search that is
repeated on an object that holds something.  14 handle numbers: only
searches that fail at their last steps use more, and for them Windows then refuses to
open any; `Guess = 1` lets the enumeration outgrow its guess on buses of
two interfaces; `MaxErrors = 1` enumeration error in a search.  (Were every call of
`SetupDiEnumDeviceInterfaces` to fail otherwise than with `ERROR_NO_MORE_ITEMS`, the loop
would not end.)

`Images`: the IVT is at one of the first four steps of 0x100 with HDMI firmware at some or
none of the steps before; DCDs have up to two write commands with checks and delays
between; FITs have two configurations with one and two loadables (`MaxLoadables = 3` bounds
the list read back); containers have up to two images each.

`Fdt`: `TagSize = 2` is the smallest that needs padding; `HeaderSize = 2` and `RsvMapOffset = 4`
stand for 40 and 48, between which `fdt_create` leaves a gap that `fdt_pack` closes.  A buffer
of 3 characters is one that `fdt_create` accepts though its reserve map would begin behind it; one of
20 holds a root with a property, or a subnode, one of 29 three nodes or two
properties, and both run full; a value is up
to two characters, a name up to two pieces, one name is the end of another so that the
string table shares it, one has a unit address.  The view leaves out what the last call
was asked and returned, which no action reads.

`CHECK_DEADLOCK` stays on: the states where the system may stop (all calls made, process
over) step to themselves by `Finished`.

Fairness.  The client thread and the manager thread run (`WF` on their steps), the timer
fires, and the driver ends each write, by accepting or failing it: Windows fails a
write when the device goes away.  Nothing is assumed of the device: it may never answer.
`RunEnds`, `DownloadEnds` and `CallsReturn` rest on these alone, as Read has its own time-out.
`ProgramEnds` and `ParsingEnds` assume that the program's one thread runs (`WF` on its steps),
nothing of the bus.

What the runs say about the code.  `SuccessIsReal` and `Bootable` are stated for runs
in which no cancelled Read lingers into the next call (`lingered`); `SdpLateRead` shows
what happens otherwise.  `NoLostWakeup` is stated for a manager whose window is registered and
for devices whose HID interface comes up with the USB interface (`~late`); `DeviceManagerHid` shows an announced device whose HID interface comes up after the
probe.  `RunningWhileOpen` says that the thread pumps messages, not
that it has a window.
`Whole` is stated for a device that does not fail the transfer: the content of its status
is never looked at, so a failed transfer it does report ends in success.
`RunsWhatIsAsked` is stated for files in which a legacy image or a container has its IVT
first (`IvtFirst`): only there do the two ways of counting offsets agree.
`TaskReady` says that the part of the first search is open whatever became of the second,
and that the device of the task is open with both events unless a second search left its object
without report buffers; on that object a task crashes (`TaskCrashes`).  `TaskHasData` counts an empty file as a file, and
`TaskAsAsked` is about command lines without unknown arguments: one behind the task makes it a RUN.
`LosesOnlyInSearch` says where handles are lost, not that only few are.
`ReadersAgree` asks a path to lead back to its node only where no sibling answers to the
same name without its unit address.
`DocSpec` lets a call fail without an effect, but `fdt_remove_unused_strings` only where one name
is the end of another (`NamesOverlap`).  `Fits` begins with the reserve map; the names of the run are
shorter than what is in front of that map (`ShortNames`), and the theorem assumes it.

Met while modelling, part of the models, and kept out of what the properties say:

* When the window cannot be made or registered (`DeviceManager.cpp:123-145`) `Open` succeeds all the
  same, and `FindHidDevice` sleeps past every device that arrives.
* The timers of `DeviceManager.cpp:204` and `:267` are never closed, though the lines that close the
  event are headed "clean up".
* The manager can signal a handle that the client has just closed (`:415-417` against `:238`), where `VERIFY`
  expects success.
* Where the first search found an MX8QXP of revision B and the second one fails, the first object is
  used without events: the constructor of the second set them to `NULL` (`HidDevice.cpp:41-42`,
  `sb_loader.cpp:239-240`), and every Write of the download then fails.
* `fdt_get_path` of the last tag's offset, for which `libfdt.h:717` promises `FDT_ERR_BADOFFSET`, reads
  in front of its buffer (`fdt_ro.c:382-387`): depth is -1 there.
* `fdt_remove_unused_strings` runs out of space on a good tree in a full buffer, which `libfdt.h:1872` says should
  not happen: a name stored as the end of a longer one gets a place of its own if it is met first.
* `fdt_sw.c:169` compares unsigned: a name longer than what is left in front of the strings is not refused,
  and written over the header and in front of the buffer.  The program calls none of these three.

Others are contradicted by no line of the repository:
`Write` can return early on a completion that a timed-out `Read` left behind;
`WaitForChange` can miss a change between its look and its event, and `StDownload` then waits
its 10 s for nothing; the exit code is 0 when no device is found; a part that speaks the ST protocol gets a download even when no file was
named; five failing tasks return without closing the manager; a search
that is repeated loses the handles of the one before.
The disagreements found are listed with their quotations under `findings` of
`PROJECT.json`.

## 4. Proofs

`HidDevice_proofs` (for all report lengths and any number of calls):

* `TypeCorrect`, the types.
* `DebtBounded`: requests in the driver plus completions not yet run are at most one per
  timed-out Read, plus the call in progress.  Inductive because a wait always empties the
  APC queue and only `CancelRead` leaves a request behind.
* `ExactUntilTimeout`: until a Read times out the transport is exact.  The invariant
  describes where the one request of the current call is: with the driver, or completed and
  queued with its verdict.
* `NoPhantom` (never more successes than exchanges, which `PortSpec` implies) and
  `PortRefinement` (`PortSpec`): with different report lengths, an old completion of
  the other direction is rejected by the size test, and one of the same direction stands
  for a report that was exchanged.  The invariant counts successes against exchanges whose
  completion is still to run.  Every step is a step of `HidPort` or a stutter.
* `OnlyReportsOfCalls` (`Ids`), used where the transport is composed: a report that is delivered,
  pending or read belongs to a call that was made, in the order of the calls.  `Calm` goes further: a
  write is in flight only during its own call.  A Read that lingers may end a later
  Write early, but only in failure, so a caller that stops at a failure never
  has two writes under way.

`DeviceManager_proofs` (for every set of handles, any number of calls and changes):

* `TypeCorrect` and `ThreadRuns` (`RunningWhileOpen`): from `Phase`, which relates the
  start handshake to the manager's state and says that `EVENT_KILL` is only in the queue
  once `Close` was called.
* `NoWakeupLost` (`NoLostWakeup`): inductive given the above and `HandleLife`, which says where in
  a call the event exists; the cases that carry it are `ProbeFails` (the event exists already), `Wake` (the
  probe is repeated) and the arrival itself (a registered window is told of it).
* `OnlyTimersLeft` (`LeavesOnlyTimers`): from `HandleLife` and `TimersCounted`, that a call makes one timer.
* `OnlyNewEventsWake` (`WaitedForIt`): a `WaitForChange` that says the change came was told of
  that very change while it waited.

`Sdp_proofs` (for every image, every report length and every timing of the transport): each
step of `Sdp` is a step of `HidDevice` or leaves it alone (`TransportSteps`), so its
invariants hold here too (`Carried`).  On them rests `TypeCorrect`: types of host, wire
and ROM, with `Where`, that the place in a call fits the command in progress.
What follows is for two different report lengths (65 and 1025 in the code); without that
not even the transport is sound:

* `DcdRunsOnce` (`DcdOnce`) and `MemoryIsReady` (`MemoryReady`): the ROM runs behind the host, so
  what the host knows is about a state the ROM has yet to reach.  The invariant `BootInv` therefore
  speaks of a `Chain` of views of the ROM, one after each report that was delivered and not yet
  handled; the host's progress is about the last of them (`Sync`).  The ROM's handling a report
  takes the first view away; a delivered report adds one at the end.  For an image with a DCD the invariant follows
  it up to the moment it has run (`DInv`); for one with a plugin, up to the moment the plugin
  has returned (`PInv`); for neither there is nothing to wait for (`NoDcd`).
* They need `LayoutAssumption`, of the images: code is in the file and the program in RAM, the
  header that `AddIvtHdr` writes has a place in RAM that is not over the IVT, and the plugin is not
  taken for the program.  `MxHidDevice.cpp:649-731` justify it: a DCD is looked at only if there is no
  plugin, a plugin must be followed by a second IVT, and the parts for which addresses
  are laid out otherwise go through `RunMxMultiImg`.  TLC checks it of the images of the run.

`SdpRun_proofs` (for every report length that differs from the other, every timing, loss and
refusal, and images laid out as `LoadFirmware` takes for granted):

* `OnlyBootable` (`Bootable`) and `SuccessIsTrue` (`SuccessIsReal`): the ROM never starts an image
  that is not whole, nor elsewhere than at its entry, and a RUN that ends without an error has
  started it.  Two hypotheses: the report lengths differ, and every image is `LoadedInPlace`: what
  the file's segments, in their order and each rounded up to whole reports, leave in RAM is the
  program where it is linked to be, and an IVT where the host jumps.  The code does not
  check this.  TLC does, of the images of `Sdp` (`InPlaceAssumption` of
  `MCSdp`), and finds it false of that of `SdpIvtFirst`, whose run violates the conclusion.
* The invariant `RunInv` speaks of runs in which no Read outlives its call (`~lingered`, as the
  properties do).  Its parts, over the views of `Sdp_proofs`:
  `Lone`, only the call in progress has a request in flight, or one that failed just before it, so
  success of a call is about its own report; `Track`, all that the ROM has answered and will answer
  by the time of each view; `Course`, that the last of these, less what the host has read,
  is what its call is due, with `Memory`, what the calls so far have put into RAM, and
  `Mode`, whether the ROM listens; `Safe`, what must stay true when a run ends in an error while its last
  report is still on its way.
* Why the parts are needed: two calls may fail without ending the run (the write that `DCDWrite` makes
  against ECC errors, and `SkipDCD`), and `Jump` succeeds without the answer that a plugin gives when it
  returns, so answers of one call can be waiting when the next one begins.  `Stale` says
  that they never pass for the acknowledgement of that call: it then fails, or takes them for
  cells of the header it reads, and is stopped by a later call.  `Brought` follows a download cell by cell: later segments may overwrite
  what earlier ones brought only with the same cells (`Spares`).
* Where the ROM enters the image is `Entered`, from `Heads`: the only header with an entry of its own, in RAM,
  on the wire or in the host, is that of `AddIvtHdr`.

`StHidDevice_proofs` (for every length of file and report):

* `StaysInFile` (`ReadsInFile`): from `Cutting`, that the position is a whole number of
  reports and at least one byte is left for the last; `NoWrap` shows that the condition of
  the loop is then the one intended, the ULONG not wrapping.
* `TypeCorrect`, with the transport's invariants carried over as in `Sdp_proofs`.
* `DeliversWhole` (`Whole`): from `WholeInv`, in six parts: `Calling` (which call belongs to which stage),
  `Counted` (how many there were), `InOrder` (reports arrive in the order of the calls), `Content` (what each
  carries), `Target` (what the device has made of those it has handled) and `Ended` (success comes after
  the last).

`SbLoader_proofs` (for every set of handles and buses, any number of options and probes):

* `HandlesOwned` (`Owned`): from the types; the cases that carry it are those where a fresh
  handle is stored (`FreshHandle`: it was not open) and `DeleteDevice`, which closes the events
  of both objects and clears both.
* `TasksAreReady` (`TaskReady`): from `SearchInv`, in four parts: `Course`, which objects there
  are at which stage; `Progress`, what an object has got at each step of its search; `Outcome`,
  what is left of the searches when the task starts; `Absence`, that an object which is not
  there holds nothing.  `Outcome` needs `Progress` of the second search: its constructor clears
  the events of the first, and its buffers are there only if new ones were made.
* `NoLossOnTheWayOut` (`LosesOnlyInSearch`) and `WayOutReleases` (`ExitMainReleases`), from the same
  invariant and `Left`.
* `ExitCodes` (`ExitCodeTells`): from `Codes`, which relates stage, code and outcome.
* `TypeCorrect`, and `TasksHaveData` (`TaskHasData`) from `Supplied`: the file, empty or not, is loaded by the option
  that asks for the task or the task is refused.
* `TasksAsAsked` (`TaskAsAsked`): from `AsAsked`, that the task is the one the options parsed so
  far ask for.  A command line is a sequence of units flattened into one of words; `Flattened`, `Beginnings`
  and `NextOption` say by induction that the option parsed next begins where a unit does.

`Images_proofs` (for every well-made file of any size, wherever its image is, with HDMI firmware
at any steps before it, any number of loadables in a FIT, all addresses):

* `ImageIsFound` (`FindsTheImage`): from `Inv`, of which `Searches` says that the search has passed only
  HDMI firmware: the next step it looks at is not behind the image.  The
  lemmas on words (`AtWord`, `Over`) say which of the parts laid over each other is
  read at an offset.
* `AskedIsRun` (`RunsWhatIsAsked`), for legacy images and containers with the IVT first (`IvtFirst`), given that look-ups in a FIT find what they should
  (`[]FindsTheNamed`, which TLC checks and which says nothing of files that are no FIT).  Its invariant
  `Runs` relates the place in the code to how many of the parts that the file asks for have been
  downloaded (`Loaded`): before the last part the parameters are that part's (`LastIsNext`), before
  the plugin they are what is read from the first IVT (`PluginIsNext`), in a FIT the entry is that of the last
  loadable so far that has one (`EntryUpto`).  A lemma per action; `IvtRead`,
  `PayloadRead`, `SecondRead`, `MultiRead`, `ImageHeader` say what the words are that it reads.
* `RegistersAreSet` (`SetsRegisters`): from `RegsInv`, by which a file with a DCD is on a way that runs it
  once, and what was sent is what the DCD holds (`Sent`).  For an i.MX50 `RegistersAre` says so of the loop in
  `RunDCD`: the registers of the commands passed, and what the loop finds from the word behind them on, are
  together what it finds in all; by induction over the commands, `CommandRead` for each.  `DcdParts` and
  `CommandAt` say where in the flattened table a command is; `CollectsExists` that the recursive
  function `on` in `DcdRegisters` exists, since each round moves forward.
* All need `FilesAssumption`: every file is `WellMade`, which is what `mkimage` and
  `imx-mkimage` see to.  A DCD is of commands with the right
  arguments and its length fits into 16 bits (`DcdMade`).  Headers are in the file and addresses in RAM; a container has at most
  `MX8_MAX_IMAGES_COUNT` images, so that its table does not run into the next; and the
  address of the plugin does not pass for a barker, since the word it is in would be taken for
  the second IVT.
  The code checks none of it; TLC does, of the files of the run.

`FdtEdit_proofs` (for every size of tag, header and reserve entry, all buffers, names and values,
any number of calls): one invariant, `Sound`: the types; every property's name in the table
(`NamedCells`), counted from whichever end applies; the blocks fit into the buffer; the header counts
the structure block; there are no strings before the first node, which `fdt_add_reservemap_entry` needs
as it does not look at them; the reserve map has an end once there is a
node, which `fdt_pack` and `fdt_del_mem_rsv` need.  Each call keeps it:
a lemma per action, on top of lemmas on what the size of a block does
when cells are put in, taken out or replaced (`Spliced`, `CutOut`, `Replaced`, `SizeOfNops`) and on where the
reading functions can point (`WalkInside`, `EndOfNode`, `PropertyFrom`).  A blob whose header was written
over by a long name stays as it is, since no call knows it (`Lost`); so `Sound \/ Lost` always holds.  `TypeCorrect`
and `HeaderIsTrue` (`HeaderTrue`) follow, and `BlocksFit` (`Fits`) for names that cannot
get there (`ShortNames`).

Induction.  The provers cannot instantiate the library's induction theorems, which take an
operator; lemmas state what is needed of sets instead: a set of numbers with 0 and the
successors of its elements is `Nat` (`SetInduction`, from well-foundedness; in
`FdtEdit_proofs`, `SbLoader_proofs` and `Images_proofs`), and a function given by a first value and a table
of steps exists (`Recursion`, in `FdtEdit_proofs`).  `SizeOf`, the walks of libfdt and
the collecting of strings are recursive functions for that reason.  The guards of a
`CASE` exclude each other in all modules: where two hold at once its value is not specified, and the provers
and TLC may differ.

They use only the assumptions on the constants stated in the modules.

Only model-checked: liveness (`CallsReturn`, `RunEnds`, `DownloadEnds`, `ProgramEnds`,
`ParsingEnds`), which with ENABLED is out of the prover's reach; of `Images`,
`FindsTheNamed`, which is about walks over a tree put together by `FlattenSeq`; of `FdtEdit`, `ReadersAgree` and
`DocSpec`, whose trees are put together by sorting and filtering (`SetToSortSeq`,
`SelectSeq`), of which the library has no facts.

## 5. Plan

Done: 1. `HidDevice`, `HidPort` and proofs; 2. `DeviceManager` and proofs; 3. `BootRom`,
`Sdp` and the proofs of its four safety properties; 4. `StHidDevice` and proofs; 5. `Images`, `FitImage` and proofs;
6. `Discovery`, `SbLoader` and proofs; 7. `Fdt`, `FdtEdit`, `FdtDoc` and the proof that a blob stays sound.

Left: proofs of the look-ups in a FIT; the
packing of SDP commands into words and back.

## 6. Not modelled

* AutoPlay suppression (`CQueryCancelAutoplay`): nothing in the program calls
  `SetCancelAutoPlay(true)`, and `ExitInstance`'s call with `false` finds nothing registered.
* `CaptureTss`: `-tss` is parsed and nothing calls it.
* The register table of `MemoryInit.h`, build files and resources: data.
* Overlays, regions, addresses and the empty tree of `libfdt`: never called by the
  program, and built from the calls that are modelled.
* Of the parts that are modelled: the text of progress messages and event names, numbers on the
  command line, sleeps, `PackSDPCmd`, the hardware id beyond the type it decides, and the
  functions of `libfdt` that `PROJECT.json` names under its components.
