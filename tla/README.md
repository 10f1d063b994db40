# kdetect in TLA+

kdetect compares several views of one Linux host and reports what the views
disagree about: a process that answers signals and is not in `/proc`, a module
that has traced functions and no row in `/proc/modules`. It reads those views one
after the other from a host that keeps running, some reads fail, and a verdict
is drawn from what was read. These modules model that: the reads, the host
between them, the detectors, the scorer, and the signed baseline the verdict may
be compared with.

## The system

| Component | State | Operations | Module |
|---|---|---|---|
| Process collectors (`collectors/procfs.py`, `syscall_sweep.py`) | ids of each pass and its status, swept ids with tgid | pass A, sweep (kill every id, then read each status), pass B | `ProcessCapture`; every read of one pass in `ProcfsPass`, its promise in `ListingPass` |
| Socket collector (`collectors/sockets.py`) | table inodes and their owners | read the tables, walk the fds of pass A's and the sweep's ids | `ProcessCapture` |
| Host facts (`hostfacts.py`) | none | read once, first; a failure ends the capture | `ProcessCapture` (`GatherHost`) |
| Module and hook collectors (`collectors/modules.py`, `kernel_hooks.py`) | listing, taint word, region count, ftrace and kallsyms names, hooks | one read each | `ModuleCapture` |
| Detectors (`analysis/signals.py`, `taint.py`) | none | snapshot to signals and channel notes | `Signals` |
| Scoring (`analysis/scoring.py`) | none | signals to findings | `Scoring` |
| Signed baseline (`baseline/store.py`) | a `.json` and a `.sig` file | write, load and verify | `BaselineStore`, promise in `SignedBaseline` |
| Snapshot schema (`models.py`) | the document | version check, `from_dict`, what a round trip drops | `Documents` |
| Reporting (`reporting/`) | none | content of a report, indicators, redaction | `Reporting`, `Documents` |
| Command line (`cli.py`) | one command's progress, its output file | capture, baseline, analyze, report, redact | the capture modules, `BaselineStore`, `Commands` |
| Fixtures (`FixtureProcSource`, `tools/capture_fixture.py`) | a tree of files and `_errors.json` | record, synthesise, replay | `ProcfsPass` |
| Evidence tool (`tools/step0_phase2.py`) | listings, swept ids, resolved ids of one file | files 01 to 04 | `SweepEvidence` |

The components interact by calls only: `cmd_capture` calls the collectors in a
fixed order and hands the ids of pass A and the sweep to the socket collector; a
snapshot file connects capture with analyze, report, redact and baseline; the two
baseline files connect `kdetect baseline` with analyze and report; a fixture tree
connects the recorder with the collector. There are no threads. What makes it hard
is the host: it changes between any two reads, ids are recycled, reads fail one by
one, commands are killed between a truncation and a write, and the baseline files
are shared with other processes. `PROJECT.json` lists each such hazard at its line.

External to the code, and modelled from how the collectors use it, are `Host` (the
task table, its listing, sockets) and `KernelModules` (module table, listing, taint,
hooks). Each has a constant that says whether it may hide things; a process that left
the listing may come back to it (`Hide`, `Unhide`).

## Modules

* `Signals` and `Scoring` are the analysis as operators on a snapshot record.
  Lists are sets, because the order of signals decides only the layout. Names in
  the source are kept (`signals_processes`, `channel_notes`, `score`, `analyze`).
* `Host` and `ProcessCapture`. `phase` says where `cmd_capture` is, `todo` is the rest of
  the running loop, `seen[p]` and `outcome[p]` are `entity_ids` and `status` of pass `p`,
  `swept`, `sweptTgid` and `readable` are the sweep's observation, `tables` and `owners`
  the socket view. Every read is one action: `GatherHost`, `ListPids`, `VisitPid`,
  `ReadPidMax`, `Kill`, `ReadStatus`, `ReadTables`, `WalkFds`. `Analyze` is the whole
  analysis. The tables of the four families are one read, since no property tells a
  socket's family. `TypeOK` includes the contract of `Observation` (`ObservationContract`): the sweep's entities are ids
  that answered, and once the sweep is over every id that answered has one, readable or
  not. History variables of `Host` remember what happened since the capture
  began: ids begun, ended, reused, processes listed throughout (`steady`), hidden
  throughout (`concealed`) or hidden at some time (`masked`), sockets held throughout
  (`kept`); `lost` of the capture names the reads that failed.
* `ProcfsPass` is one pass again, with the reads of stat, cmdline, status and exe as
  steps between which the pid may change hands. A process stands for all that can be
  read about it, an answer is a process or an errno. `Fate`, `Value`, `Partial` and
  `Status` are what `collect` and `_optional` make of the answers. The source is the live
  `/proc`, or a tree that `capture_fixture.py` has recorded before, read by read, with the
  made-up pids 812 (`Denied`) and 4171 (`Vanished`) and the `_errors.json` that is written last.
  `ListingPass` is the abstract pass `ProcessCapture` uses: a pid is seen if and only if
  it is there at its visit. `ImplementsListing` closes the gap between the two.
* `KernelModules` and `ModuleCapture`. `snap` is the snapshot so far, `sym_to_mod` the hook
  collector's map from symbol to module. `churned` remembers the modules loaded,
  unloaded or unlisted since the capture began. A module has its own lines in
  vmallocinfo (none, one or several); `reduce_kallsyms` keeps one owner per symbol name,
  as the code does. The kprobe list is read last (`ReadKprobes`); its rows have no owner, but a
  line of it, or of the hooks read before, that the parsers refuse ends the capture, as a
  failed read of `/proc/modules` or of the taint word does (`Abort`).
* `Documents` is a snapshot as JSON and `Snapshot.from_dict`: the version check, the
  entity class of each collector with its required and optional keys, the exceptions,
  the keys that are dropped, what the detectors then read (`SnapshotOf`), and redaction.
  `Reporting` is the content of a report and the indicators extracted for it; `extract`
  gives every choice of the cited finding that the order of subjects can produce.
* `BaselineStore` writes the two files in the steps of two `write_bytes` calls (open
  truncates, write fills), any of which may be the last of a killed writer.
  Signatures are records of key and content: they can be copied, never made
  without the key. `Commands` is one analyze, report or redact command from its
  arguments to its output and exit code, reading and writing files step by step; it
  may be killed between any two. `SignedBaseline` is the promise: a command goes on with
  a content signed by its key, or is refused.
* `SweepEvidence` is files 01 to 04 of `step0_phase2.py` over `Host`: `Steps[file]` is the sequence
  of its loops, `Unexplained`, `AbsentFromBoth`, `StartedMidCapture` and `ExitedMidCapture` are what it
  prints. The sweep counts EPERM as alive; the single `kill` of file 04 prints it as "no"
  (`KillTarget`). The tool dies (`Die`) when a listing of `/proc` fails, the noise helper of file 03 cannot be
  started, an evidence file cannot be written, or the stat line of file 04 is gone after its
  status was read. The helper itself is part of the host's activity.
* `MCModuleCapture`, `MCCommands` give the constants of the runs their values.
* `Scoring_proofs`, `Host_proofs`, `ProcessCapture_proofs`, `ModuleCapture_proofs`, `ProcfsPass_proofs`,
  `SweepEvidence_proofs` and `Commands_proofs` hold the theorems.

What is abstracted: names, comm, cmdline, addresses, texts and their parsing (a
parser yields its record, or the text is malformed, or the read fails), the dissent
and summary strings, Markdown, and kprobe rows, which never have an owner and raise
no signal. The taint word is the set of its bits.

Operators named `X_Y` directly before an `X` are `X` with a plausible mistake; they are used by
nothing and exist so that each property can be seen to fail (`mutants` in `PROJECT.json`).

## Runs

| Run | Shows |
|---|---|
| `process_clean` | On a host that hides nothing: the observations keep the schema's contract whatever reads fail; a process listed throughout is never reported if one pass enumerated, whatever reads fail; a process the sweep reports was born and died during the capture; every capture ends |
| `process_capture` | With sockets, on a host that may hide: without hiding, HIGH needs a recycled id (or a failed pass B); if nothing is started either and one pass enumerated, a finding is a process that ended while pass A had failed, or a swept id whose status read was lost, on `socket_visible` alone; a process hidden throughout is reported on both sweep channels, HIGH if it holds a socket throughout |
| `procfs_pass` | A pass with status OK has all of every lasting process; an entity of two processes needs a recycled pid; an absent field that is not in `partial` means a kernel thread or an exit; a fixture replays as the collector would have seen the recorded reads, but for the failures the recorder does not keep; the made-up pids replay as meant; the pass ends and implements `ListingPass` |
| `module_capture` | On an honest kernel, hidden or over-listed modules came or went meanwhile, and losing a channel accuses no one; too many regions need a cause, and a hidden region that is not made up for is counted; a traceable hidden module is named, a lone one takes the anonymous evidence, a phantom row is a finding or a note, every signal is in exactly one finding, concealment and listing channels never mix |
| `commands` | Exit code 0 against a baseline means a signed snapshot has all the modules, whoever changed the files when; a report that says verified compares with a signed snapshot; on files that stand still exit code and output are the documented ones; indicators are of concealed things only; a redacted snapshot loads, holds no command line and is judged like its original; redacting in place loses no file that does not load and never calls a torn file a success; the command ends; store and command implement `SignedBaseline` |
| `sweep_evidence` | What files 02 and 03 leave unexplained was hidden or recycled, and a process hidden throughout is among it; the labels of file 03 are true; threads of file 01 resolve to their leader |

Six runs are expected to be violated; each states what a document or comment says
and the code does not do (quoted in `PROJECT.json` under findings):
`sandwich_timing` (two passes do not separate a hidden process from a short-lived
one), `failed_listing` (failed listings are analysed as empty ones),
`socket_soundness` (recycled and short-lived ids raise `socket_visible`), `evidence_abort` (a process
that exits between two reads of file 04 ends the evidence tool halfway, with every file
readable as long as its task is there), `baseline_refusal` (a signed baseline of another major version ends in a
traceback), `newer_minor` (a snapshot of a newer minor version with an added collector
ends in a traceback).

### Bounds

`MaxPid` is 3 without and 2 with sockets: enough for a leader, its thread and an
unrelated process, and for one id to be recycled as a leader or as a thread.
`MaxBirths` bounds tasks created during a capture: 1 makes the short-lived process, 2 a
recycled id with a bystander. `ProcfsPass` has three pids, two processes and a kernel thread, each
of which exists once, so that a pid can pass from one to another; 812 collides with a
pid of the host and 4171 does not; `MaxFaults` = 1 read goes wrong, beside any number of
files that are not there. `MaxChurn` bounds module events (2: one of each module, or a
load and an unload). Two modules suffice to have a traceable and an untraceable one,
with two regions and with one, sharing a symbol name, with a phantom beside them.
`MCCommands` has nine documents: a clean host, one with a module more, one with hidden
processes and a hidden module, one whose channels are silent, of another major version,
without a version, and three of a newer minor version. `MaxSigned` stops new writes
after a signature; the writer is one, with two keys and foreign writes that put any
bytes in either file, so old and new halves mix. `Faults` and `Unreliable` name the reads that
may fail in a run. `evidence_abort` has two ids, nothing hidden or born, and no failing read: the
exit of one process is enough. All bounds are in the guards of the environment's actions; the
code's own actions have none.

### Fairness

`WF_vars(CaptureStep)`, `WF_vars(SessionStep)` and `WF_vars(ProgramStep)`: the process that runs
kdetect keeps being scheduled, and none of its reads blocks. Nothing is assumed of
the host, the kernel or the writers, who may stop for good at any step. Deadlock is
checked in all runs; a finished command stutters explicitly (`Terminated`).

## Proofs

Every invariant and both refinements that a passing run checks are also theorems:
they hold for all values of the constants. The proofs use only the assumptions
named in the modules, which TLC evaluates on the runs' instances:

| Assumption | Says | Because |
|---|---|---|
| `HostAssumption`, `FaultsAssumption`, `ModulesAssumption`, `PassAssumption`, `AnswersAssumption` | the constants have their types; made-up pids differ from each other and from 1 | they are parameters of the environment or tags of the model |
| `NoNameAssumption` | `NoName` (Python's `None`) is no pid | `None` is not an `int` |
| `ProcsAssumption` | no process is one of the errno tags or `"none"`, `"malformed"` | an answer is told from a failure by its type |
| `StoreAssumption`, `FilesAssumption`, `OutputAssumption` | the marks for a missing and for a torn file are no content, signature or complete output; a file that is JSON has a document | they stand for the absence of one |
| `DocumentAssumption` | a document and its observations have the parts this build looks at; nothing is assumed of the entities | `to_dict` of every version writes them |

* **`Scoring_proofs`**: `ScoreConservesEvidence`, for any set of signals about processes and
  modules, each is evidence of exactly one finding. By cases: a named signal
  belongs to the group of its suspect; an anonymous one goes to the one hidden
  name, and only the module suspect of that name has it; else to the
  unattributed finding. The module also says exactly which signals the process and
  socket detectors raise.
* **`Host_proofs`**: what any step of the host can do to its tasks and to the history
  of them (`HostInv`, `HostChange`): an id that stopped being a leader has ended, a new one has begun,
  an id that ended and is in use again was reused, what was ever hidden is in `masked`,
  `steady` is listed, `concealed` is there and not listed. `ProcessCapture_proofs` and `SweepEvidence_proofs` use the host only through it.
* **`ProcessCapture_proofs`**. The properties speak of the end of a capture, so `IInv` follows a
  process from read to read. `SteadyRecorded`: a walk that is under way has recorded a
  steady process or has it left to visit. `ConcealedSwept`: the same of a concealed one and
  the kill loop, and no pass has it. `StatusTrue`: the leader a status named is that of the
  task still, or the task has ended; a task without status was not there, is new, or the
  read was lost. `PassAComplete` and `PassBComplete`: on a clean host pass A has what did not begin
  after it, pass B what was swept and did not end before it; together they give
  `CleanReportsAreShortLived`. `KeptIsOwned` and `OwnersTrue` are the same for the socket tables and the fd walk, from
  which `ConcealedSocketOwnerHigh`, `CleanHighIsReuse` and `QuietFindingsNeedLoss` follow: if no task began, an owner of a socket is an id of pass A, or a swept
  id whose status was read or lost, and only the lost one is not folded. That the confidence is HIGH is the
  cardinality of the set of channels of the suspect (`FindingsOfSignals`, `ChannelsExplained`).
* **`ModuleCapture_proofs`**. `ChannelSides`: a listed module is only accused on listing channels, any other
  suspect only on concealment channels, which gives `ChannelsNeverMixed`. For the others the second
  invariant `History` relates each channel to the kernel now: whatever a later channel
  names is in the listing, is unlisted, or churned; the listing holds only what is in
  memory, made up, or churned (`ListingTrue`); a channel that could be read misses no module
  that stayed, and counts the regions if nothing churned (`ChannelsTrue`). The theorems
  on regions compare cardinalities of the listing and of the loaded modules.
* **`ProcfsPass_proofs`**. Three invariants. `ProgramInv` gives types, control and the shape of what is collected.
  `LiveInv` explains every answer and every entity of a live pass by the history of the host: two
  fields of different processes need a pid that was freed and given out again, an
  absent one a pid that was freed or a kernel thread. `FixtureInv` says what a recording holds after each
  step of the recorder, for each pid and field what it heard (`RecordTrue`), what of the made-up
  pids is there (`DeniedTrue`, `SyntheticTrue`), and that a replay makes of it what `Describe` makes of the
  answers (`ReplayTrue`).
  `PassImplementsListing` is the refinement: under the substitution a pid counts as visited when its `stat`
  is read, so the read of `stat` is the abstract `Visit`, later reads are stutters or
  `Degrade`, and host and recorder steps are `Churn`. The map (`Present`, `Phase`, `ToVisit`, `Seen`, `PassStatus`) is
  written out once and each step is shown to be one of the abstract ones (`PassStep`).
* **`SweepEvidence_proofs`**. One part of `IInv` per loop of the tool, each relating what the loop recorded to the
  host now: `BeforeTrue`, `SweepTrue`, `AfterTrue`, `TasksTrue`, `ResolvedTrue`, `LeadersTrue`; the second listing is related to the first
  and to the sweep, which is the sandwich argument of the tool's comments. A process shown
  again between the walks looks like a started one, so `LabelsAlwaysTrue` names both. The properties
  speak of a file that was finished; the ways to die (`DieInv`) leave nothing to show.
* **`Commands_proofs`**. `IInv` says that every signature in a file, due from a writer or read by the
  command was made (`SignaturesAreMade`), and that what passed verification was signed with
  the command's key (`VerifiedWasSigned`). Exit code 0 then needs an analysis without
  findings, hence without signals (`NoFindingNoSignal`), hence without a module the
  baseline lacks. For the refinement of `SignedBaseline` each step maps to a signing, the one
  acceptance, the one refusal, or a stutter.
  `SessionInv` adds the rest of the command: files that stood still are still what was read of them
  (`ReadsAreCurrent`), so each way to fail is one the reference calls unusable; a redaction in
  place has not touched its input before it opens it (`InputKept`). Indicators: a named signal of a hiding
  channel is of something unlisted (`HidingSignalIsUnlisted`), so is a finding of kind hidden
  (`HiddenFindingIsUnlisted`), and `extract` makes one entry per indicator (`ExtractIsConcealed`). Redaction: loading,
  redacting and loading again keeps every part the detectors read, because a command
  line is a field of processes alone and they read only the ids of those (`RedactedTwice`,
  `RedactedLooksTheSame`).

The inductive invariants were checked by TLC on the runs' instances before they were
proved.

Only model-checked: the liveness properties (`CaptureTerminates`, `CommandEnds`, `PassEnds`), because
fairness and ENABLED are out of the prover's reach; and the six violations.

## Not modelled

* Markdown layout, the escaping of names for terminal and Markdown (`reporting/escape.py`)
  and the wording of notes: pure text of one value at a time.
* The splitting of `/proc` texts into fields. The one parser whose result depends on more
  than one line in a way the detectors feel, `reduce_kallsyms`, is modelled.
* The fixture sources for signals, modules, hooks and sockets: a file or None,
  without failures of their own.
* Files 00 and 05 to 08 of `step0_phase2.py`, which print kernel texts side by side;
  `demo.sh`, the kernel module in `kmod/`, and the recorded documents.
* A reader of standard output that closes the pipe. What analyze prints before it loads
  the baseline (a heading of the snapshot) is part of the one step that prints.
* Evidence of a capture that was aborted: a mandatory read that fails, or a line the
  hook parsers refuse, loses all of it, and no document promises otherwise.
* That a module all of whose symbol names occur in other modules is reported as
  over-listed is in the model and exempt in `HonestReportIsChurn` (`Vouched`), not a run of its own.
* Two captures at once (they would meet only in a file name), and kdetect running on
  a host that kills it in the middle of a capture (nothing is written before the end).

## Plan

1. Done: the core; the reads of one process, fixtures, documents, reports, redaction,
   region lines, the evidence tool.
2. Done: theorems for every invariant and refinement of the passing runs.
3. Open: the three hazards without a property (two captures within one second write the
   same default file name; `analyze --json` leaves the channel notes out; an unhandled
   failure loses the whole capture), and lemmas on
   the taint word (`Explained`, `Saturated`) apart from a capture.
