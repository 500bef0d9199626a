------------------------------ MODULE SbLoader ------------------------------
(***************************************************************************)
(* The program around the protocols (sb_loader.cpp): the command line, the *)
(* search for the part with two device objects, the task, and the way out. *)
(* What a task says to the part is the matter of modules Sdp and           *)
(* StHidDevice; here it works, fails, or finds no report buffer to use.    *)
(***************************************************************************)
EXTENDS Discovery, SequencesExt

CONSTANTS
  MaxUnits,    \* bound: options on a command line
  MaxProbes    \* bound: calls of FindKnownHidDevices in one FindHidDevice

ASSUME SbLoaderAssumption ==
  /\ Objects = {"st", "mx"} /\ MaxUnits \in Nat /\ MaxProbes \in Nat \ {0}

Tasks == {"none", "INIT", "TRANS", "EXEC", "JUMP", "RUN", "RUN_PLUGIN", "READ", "WRITE"}

VARIABLES
  args,       \* the arguments not yet looked at, argv[0] first
  asked,      \* the task the command line as a whole asks for, if that is clear
  proceed,    \* what ProcessCommandLine is going to return
  task,       \* MxFunc.Task
  data,       \* the file: none, only its name, or in DataBuf without or with bytes
  manager,    \* g_pDeviceManager: none, open or closed; the tool does not ask whether
              \* its thread could be started
  probes,     \* calls of FindKnownHidDevices in the current search
  stage,      \* where _tmain is
  rc,         \* nRetCode
  done        \* what became of the task

options == <<asked, proceed, task>>
held == <<data, manager>>
result == <<rc, done>>
program == <<args, options, held, probes, stage, result>>
vars == <<found, probe, program>>

-----------------------------------------------------------------------------
(* Command lines: options with their parameters, some with a parameter      *)
(* missing or with one too many.                                            *)

TaskOf(option) ==
  CASE option = "-init" -> "INIT" [] option = "-trans" -> "TRANS"
    [] option = "-exec" -> "EXEC" [] option = "-jump" -> "JUMP"
    [] option = "-nojump" -> "RUN_PLUGIN"
    [] option = "-rd" -> "READ" [] option = "-wr" -> "WRITE"

TaskOptions == {"-init", "-trans", "-exec", "-jump"}
Naming == {<<o, "value">> : o \in TaskOptions} \cup {<<"-nojump">>}
Final == {<<"-rd", "value">>, <<"-wr", "value", "value">>}
Stray == {<<"-x">>, <<"file">>, <<"-f">>, <<"-jump">>, <<"-wr">>}
Units == {<<"-f", "file">>, <<"-tss">>, <<"-h">>} \cup Naming \cup Final \cup Stray
Words == TaskOptions \cup {"exe", "-f", "file", "value", "-nojump", "-tss", "-h", "-rd", "-wr", "-x"}

\* With one option that names a task, and nothing unknown, it is that one's.
Asked(us) ==
  LET naming == {k \in DOMAIN us : us[k] \in Naming \cup Final}
  IN IF Cardinality(naming) > 1 \/ \E k \in DOMAIN us : us[k] \in Stray THEN "unclear"
     ELSE IF naming = {} THEN "RUN"
     ELSE TaskOf(us[CHOOSE k \in naming : TRUE][1])

Init ==
  /\ DiscoveryInit
  /\ \E n \in 0..MaxUnits : \E us \in [1..n -> Units] :
       args = <<"exe">> \o FlattenSeq(us) /\ asked = Asked(us)
  /\ proceed = TRUE /\ task = "none" /\ data = "none"
  /\ manager = "none" /\ probes = 0 /\ stage = "start" /\ rc = 0 /\ done = "not yet"

-----------------------------------------------------------------------------
(* ProcessCommandLine: one action per kind of argument.                     *)

\* The loop is at an argument it compares with the options.
At(names) == stage = "args" /\ args # <<>> /\ args[1] \in names

\* What is left after n arguments; a missing one is the NULL at the end of argv.
Skip(n) == SubSeq(args, n + 1, Len(args))

AfxWinInit ==
  /\ stage = "start"
  /\ \/ stage' = "args" /\ UNCHANGED rc
     \/ stage' = "exit" /\ rc' = 1
  /\ UNCHANGED <<found, probe, args, options, held, probes, done>>

OptFile ==
  /\ At({"-f"})
  /\ data' = IF Len(args) > 1 THEN "named" ELSE "none"
  /\ args' = Skip(2)
  /\ UNCHANGED <<found, probe, options, manager, probes, stage, result>>

OptHelp ==
  /\ At({"-h"})
  /\ proceed' = FALSE
  /\ args' = Skip(1)
  /\ UNCHANGED <<found, probe, asked, task, held, probes, stage, result>>

\* Sets a variable nobody reads.
OptTss ==
  /\ At({"-tss"})
  /\ args' = Skip(1)
  /\ UNCHANGED <<found, probe, options, held, probes, stage, result>>

\* Mutant: the parameter of the option is not skipped.
OptTaskAlone ==
  /\ At(TaskOptions)
  /\ task' = TaskOf(args[1])
  /\ args' = Skip(1)
  /\ UNCHANGED <<found, probe, asked, proceed, held, probes, stage, result>>

OptTask ==
  /\ At(TaskOptions)
  /\ task' = TaskOf(args[1])
  /\ args' = Skip(2)
  /\ UNCHANGED <<found, probe, asked, proceed, held, probes, stage, result>>

OptNoJump ==
  /\ At({"-nojump"})
  /\ task' = "RUN_PLUGIN"
  /\ args' = Skip(1)
  /\ UNCHANGED <<found, probe, asked, proceed, held, probes, stage, result>>

\* -rd and -wr return true at once, whatever was said before.
OptRegister ==
  /\ At({"-rd", "-wr"})
  /\ task' = IF args[1] = "-rd" THEN "READ" ELSE "WRITE"
  /\ args' = <<>>
  /\ stage' = "file"
  /\ UNCHANGED <<found, probe, asked, proceed, held, probes, result>>

\* The name of the program is such an argument.
OptOther ==
  /\ At({"exe", "file", "value", "-x"})
  /\ IF args = <<"exe">> THEN proceed' = FALSE /\ UNCHANGED task
                         ELSE task' = "RUN" /\ UNCHANGED proceed
  /\ args' = Skip(1)
  /\ UNCHANGED <<found, probe, asked, held, probes, stage, result>>

\* Mutant: nobody looks whether there is a file name.
ArgsEndUnchecked ==
  /\ stage = "args" /\ args = <<>>
  /\ stage' = IF proceed THEN "file" ELSE "exit"
  /\ UNCHANGED <<found, probe, args, options, held, probes, result>>

ArgsEnd ==
  /\ stage = "args" /\ args = <<>>
  /\ stage' = IF proceed /\ (data = "named" \/ task = "EXEC") THEN "file" ELSE "exit"
  /\ UNCHANGED <<found, probe, args, options, held, probes, result>>

ProcessCommandLine ==
  \/ OptFile \/ OptHelp \/ OptTss \/ OptTask \/ OptNoJump \/ OptRegister
  \/ OptOther \/ ArgsEnd

-----------------------------------------------------------------------------
(* The file, the manager, the search.                                       *)

NoFile ==
  /\ stage = "file" /\ data = "none"
  /\ stage' = "manager"
  /\ UNCHANGED <<found, probe, args, options, held, probes, result>>

ReadFile ==
  /\ stage = "file" /\ data = "named"
  /\ data' \in {"empty", "some"}
  /\ stage' = "manager"
  /\ UNCHANGED <<found, probe, args, options, manager, probes, result>>

FileFails ==
  /\ stage = "file" /\ data = "named"
  /\ stage' = "exit" /\ rc' = 2
  /\ UNCHANGED <<found, probe, args, options, held, probes, done>>

OpenManager ==
  /\ stage = "manager"
  /\ manager' = "open"
  /\ stage' = "st"
  /\ asked' = "unclear" /\ proceed' = TRUE       \* nobody looks at them again
  /\ UNCHANGED <<found, probe, args, task, data, probes, result>>

\* SearchDevice constructs an object and calls FindHidDevice with it.
Searching == IF stage = "findSt" THEN "st" ELSE "mx"

NewDevice ==
  /\ stage \in {"st", "mx"}
  /\ Construct(stage)
  /\ stage' = IF stage = "st" THEN "findSt" ELSE "findMx"
  /\ probes' = 0
  /\ UNCHANGED <<probe, args, options, held, result>>

Probe ==
  /\ stage \in {"findSt", "findMx"} /\ probes < MaxProbes
  /\ FindKnownHidDevices(Searching)
  /\ probes' = probes + 1
  /\ UNCHANGED <<args, options, held, stage, result>>

Step == FindStep /\ UNCHANGED program

\* After a probe that failed FindHidDevice probes again, or gives up.
ProbeFailed ==
  /\ step = "failed" /\ probes < MaxProbes
  /\ Returned
  /\ UNCHANGED <<found, program>>

\* The second search's result is not looked at.
Leave ==
  \/ stage = "findSt" /\ step = "failed" /\ stage' = "exit"
  \/ stage = "findSt" /\ step = "found" /\ obj["st"].type = "MX28" /\ stage' = "task"
  \/ stage = "findSt" /\ step = "found" /\ obj["st"].type # "MX28" /\ stage' = "mx"
  \/ stage = "findMx" /\ stage' = "task"

FindHidDevice ==
  /\ stage \in {"findSt", "findMx"}
  /\ step = "found" \/ (step = "failed" /\ probes > 1)
  /\ Returned /\ Leave
  /\ UNCHANGED <<found, args, options, held, probes, result>>

\* SetupDiGetClassDevs takes a snapshot: changes matter between searches.
Replug ==
  /\ stage \in {"findSt", "findMx"} /\ step = "idle"
  /\ BusChanges
  /\ UNCHANGED program

-----------------------------------------------------------------------------
(* The task.  Parts that speak the ST protocol get the file, whatever the    *)
(* task is; the others are spoken to through the second object.              *)

Type == obj["st"].type
Device == IF Type \in {"MX28", "MX8QXPB0"} THEN "st" ELSE "mx"

\* Tasks a part does not have; files that are no images; nothing to say at all.
Hopeless ==
  \/ task = "EXEC" /\ Type = "MX8QM"
  \/ task = "RUN_PLUGIN" /\ Type \in {"MX8QM", "MX8QXP"}
Refused == Hopeless \/ task \in {"RUN", "RUN_PLUGIN"}
Silent == task = "TRANS" /\ data = "empty"

Fails(code, next) ==
  /\ done' = "failed" /\ rc' = code /\ stage' = next

\* The codes of the tasks that return at once, past ExitMain.
EarlyReturn == [TRANS |-> 3, EXEC |-> 4, JUMP |-> 5, READ |-> 5, WRITE |-> 5]

\* Without its event a Write does not wait for its completion: it fails.
StDownload ==
  /\ stage = "task" /\ Device = "st" /\ obj["st"].buffers
  /\ \/ data = "some" /\ tx # NULL /\ done' = "ok" /\ stage' = "exit" /\ UNCHANGED rc
     \/ Fails(9, "exit")
  /\ UNCHANGED <<found, probe, args, options, held, probes>>

TaskWorks ==
  /\ stage = "task" /\ Device = "mx" /\ ~Hopeless
  /\ obj["mx"].buffers \/ Silent
  /\ done' = "ok" /\ stage' = "exit"
  /\ UNCHANGED <<found, probe, args, options, held, probes, rc>>

\* Mutant: a failed initialisation leaves nRetCode alone.
InitFailsSilently ==
  /\ stage = "task" /\ Device = "mx"
  /\ (obj["mx"].buffers /\ ~Silent) \/ Refused
  /\ \/ task = "INIT" /\ Fails(0, "exit")
     \/ task \in {"RUN", "RUN_PLUGIN"} /\ \E code \in {3, -1} : Fails(code, "exit")
     \/ task \in DOMAIN EarlyReturn /\ Fails(EarlyReturn[task], "returned")
  /\ UNCHANGED <<found, probe, args, options, held, probes>>

TaskFails ==
  /\ stage = "task" /\ Device = "mx"
  /\ (obj["mx"].buffers /\ ~Silent) \/ Refused
  /\ \/ task = "INIT" /\ Fails(5, "exit")
     \/ task \in {"RUN", "RUN_PLUGIN"} /\ \E code \in {3, -1} : Fails(code, "exit")
     \/ task \in DOMAIN EarlyReturn /\ Fails(EarlyReturn[task], "returned")
  /\ UNCHANGED <<found, probe, args, options, held, probes>>

\* A report is built in a buffer that is not there, or a file that is not there is
\* cut into reports: usb_iterations - 1 wraps round.
TaskCrashes ==
  /\ stage = "task"
  /\ IF Device = "st" THEN ~obj["st"].buffers \/ data # "some"
     ELSE ~obj["mx"].buffers /\ ~Hopeless /\ ~Silent
  /\ stage' = "crashed"
  /\ UNCHANGED <<found, probe, args, options, held, probes, result>>

-----------------------------------------------------------------------------
(* ExitMain.                                                                *)

DeleteDevice(o) ==
  /\ stage = "exit" /\ step = "idle"
  /\ o = "mx" => ~obj["st"].made
  /\ Destroy(o)
  /\ UNCHANGED <<probe, program>>

\* Close and delete the manager, free DataBuf.
Exit ==
  /\ stage = "exit" /\ \A o \in Objects : ~obj[o].made
  /\ manager' = IF manager = "none" THEN "none" ELSE "closed"
  /\ data' = "none"
  /\ stage' = "ended"
  /\ UNCHANGED <<found, probe, args, options, probes, result>>

Over == stage \in {"ended", "returned", "crashed"}
Finished == Over /\ UNCHANGED vars

Client ==
  \/ AfxWinInit \/ ProcessCommandLine
  \/ NoFile \/ ReadFile \/ FileFails \/ OpenManager
  \/ NewDevice \/ Probe \/ Step \/ ProbeFailed \/ FindHidDevice
  \/ StDownload \/ TaskWorks \/ TaskFails \/ TaskCrashes
  \/ (\E o \in Objects : DeleteDevice(o)) \/ Exit

Next == Client \/ Replug \/ Finished

\* The program runs; a search ends by the timer of FindHidDevice at the latest.
Spec == Init /\ [][Next]_vars /\ WF_vars(Client)

-----------------------------------------------------------------------------
(* Properties.                                                              *)

\* Types of the program's state.
TypeOK ==
  /\ DiscoveryTypeOK
  /\ args \in Seq(Words) /\ asked \in Tasks \cup {"unclear"}
  /\ proceed \in BOOLEAN /\ task \in Tasks
  /\ data \in {"none", "named", "empty", "some"}
  /\ manager \in {"none", "open", "closed"}
  /\ probes \in 0..MaxProbes
  /\ stage \in {"start", "args", "file", "manager", "st", "findSt", "mx", "findMx",
                "task", "exit", "ended", "returned", "crashed"}
  /\ rc \in {-1, 0, 1, 2, 3, 4, 5, 9} /\ done \in {"not yet", "ok", "failed"}

\* Two objects share the static events, searches are repeated on one object, and
\* Windows reuses the numbers of closed handles: still, every handle a variable
\* holds is open, and no two hold the same, so that nothing is closed twice and
\* nobody's handle is closed by another (HidDevice.cpp:33, :59-82, :520-551).
Owned ==
  /\ Held \subseteq open
  /\ tx = rx => tx = NULL
  /\ \A o \in Objects : obj[o].handle # NULL =>
       /\ obj[o].handle \notin {tx, rx}
       /\ \A p \in Objects : obj[p].handle = obj[o].handle => p = o

\* A handle is lost only where OpenUsbDevice's is dropped, a repeated search writes
\* over what the last one left, or a constructor clears the events of the other
\* object (HidDevice.cpp:520, :526, :544-551, :41): never in a task or on the way out.
\* Within a search any loss is permitted.
LosesOnlyInSearch ==
  [][lost' \subseteq lost \/ stage \in {"st", "mx", "findSt", "findMx"}]_vars

\* Through ExitMain nothing is left that a variable still holds: both devices are
\* closed though they share their events, the manager's thread is gone, the file
\* is freed (sb_loader.cpp:200-218).
ExitMainReleases ==
  stage = "ended" =>
    Held = {} /\ manager \in {"none", "closed"} /\ data = "none"

\* When a task starts, the part of the first search is open, whatever became of the
\* second; and where there was no second one, or it gave its object report buffers, the
\* device of the task is open with both events, though the second object's constructor
\* cleared those of the first (sb_loader.cpp:236-240).
TaskReady ==
  stage = "task" =>
    /\ obj["st"].handle # NULL /\ obj["st"].type # "unset"
    /\ ~obj["mx"].made \/ obj["mx"].buffers =>
         obj[Device].handle # NULL /\ obj[Device].type # "unset" /\ tx # NULL /\ rx # NULL

\* The tasks that read DataBuf on an i.MX have a file in it, possibly an empty one, in
\* whatever order the options came (sb_loader.cpp:85-100, :477-483).
TaskHasData ==
  stage = "task" /\ Device = "mx" /\ task \in {"INIT", "TRANS", "JUMP", "RUN", "RUN_PLUGIN"} =>
    data \in {"empty", "some"}

\* With one option that names a task and no argument the tool does not know, that task
\* is done, whatever precedes or follows it on the command line (sb_loader.cpp:395-487).
\* An unknown argument behind it would make it a RUN.
TaskAsAsked ==
  stage = "file" /\ asked # "unclear" => task = asked

\* Once a task was started the exit code is 0 exactly when it worked, and a task
\* that failed cannot reach ExitMain as a success (sb_loader.cpp:113-196).
ExitCodeTells ==
  stage \in {"ended", "returned"} /\ done # "not yet" => (rc = 0 <=> done = "ok")

\* The program ends, whatever is plugged in and whatever fails.
ProgramEnds == <>Over
=============================================================================
