---------------------------- MODULE ProcessCapture ----------------------------
(***************************************************************************)
(* The process and socket views of `kdetect capture` (cmd_capture in       *)
(* src/kdetect/cli.py), taken from a host that does not stand still, and   *)
(* what `kdetect analyze` concludes from them.                             *)
(*                                                                         *)
(* The capture is one sequential program: procfs pass A, the pid sweep     *)
(* (kill every id, then read the status of those that answered), procfs    *)
(* pass B, the /proc/net tables, the fd walk.  Every read of the kernel is *)
(* one step, and the host may take any number of steps between two reads.  *)
(* The module views collected between pass B and the tables do not touch   *)
(* this state; they only give the host time.                               *)
(***************************************************************************)
EXTENDS Host, Scoring

CONSTANT Faults    \* what may fail although the task is there

ASSUME FaultsAssumption ==
    Faults \subseteq {"host", "list", "stat", "pidMax", "status", "table", "fd", "out"}

\* None is not a pid, nor 0.
ASSUME NoNameAssumption == NoName \notin Nat

VARIABLES
    phase,        \* where cmd_capture is
    todo,         \* ids the running loop has yet to visit
    seen,         \* pass -> entity_ids
    outcome,      \* pass -> Status
    swept,        \* ids that answered kill(id, 0)
    sweptTgid,    \* id -> tgid of its SweepEntity (NoTask: no entity yet)
    readable,     \* ids whose SweepEntity has status_readable
    tables,       \* inodes recorded from the /proc/net tables
    owners,       \* inode -> owner_pids
    findings,     \* what analyze reports
    lost          \* history: the kinds of reads that failed although the task,
                  \* or the socket, was there

captureVars == <<phase, todo, seen, outcome, swept, sweptTgid, readable, tables,
                 owners, findings, lost>>
vars == <<hostVars, captureVars>>

Passes == {"A", "B"}
Phases == {"host", "listA", "walkA", "pidMax", "kill", "status", "listB", "walkB", "tables", "fds",
           "analyze", "done", "aborted"}

\* The analysis is over, or the capture died and left nothing to analyse.
Over == phase \in {"done", "aborted"}

ListPhase(p) == IF p = "A" THEN "listA" ELSE "listB"
WalkPhase(p) == IF p = "A" THEN "walkA" ELSE "walkB"

\* A read of this kind fails although what it reads is there.
Lose(kind) == kind \in Faults /\ lost' = lost \cup {kind}

\* The loops that visit ids in ascending order.
First(id) == id \in todo /\ \A other \in todo : id <= other

-----------------------------------------------------------------------------
\* hostfacts.gather(): every fact is mandatory, and a read that fails ends the
\* capture.  The facts hold for the whole boot, so their values are left out.
GatherHost ==
    /\ phase = "host"
    /\ \/ phase' = "listA"
       \/ "host" \in Faults /\ phase' = "aborted"
    /\ UNCHANGED <<todo, seen, outcome, swept, sweptTgid, readable, tables, owners,
                   findings, lost>>

-----------------------------------------------------------------------------
(* ProcfsProcessCollector.collect, pass p *)

\* What follows the pass: the sweep after A, the sockets after B.
FinishPass(p) ==
    /\ phase' = IF p = "A" THEN "pidMax" ELSE "tables"
    /\ todo' = {}

ListPids(p) ==
    /\ phase = ListPhase(p)
    /\ phase' = WalkPhase(p)
    /\ todo' = Readdir
    /\ UNCHANGED <<seen, outcome, swept, sweptTgid, readable, tables, owners, findings, lost>>

\* list_pids() raised: a FAILED observation without ids.
ListPidsFails(p) ==
    /\ "list" \in Faults
    /\ phase = ListPhase(p)
    /\ FinishPass(p)
    /\ outcome' = [outcome EXCEPT ![p] = "FAILED"]
    /\ UNCHANGED <<seen, swept, sweptTgid, readable, tables, owners, findings, lost>>

\* One pid of the listing.  Gone since: counted, not an id of the pass.  There:
\* an id of the pass, whether its reads succeed or fail; a failed read makes
\* the pass PARTIAL.
VisitPid_DropsUnreadable(p, pid) ==
    /\ phase = WalkPhase(p)
    /\ First(pid)
    /\ \/ pid \notin Tasks /\ UNCHANGED <<seen, outcome>>
       \/ /\ pid \in Tasks
          /\ seen' = [seen EXCEPT ![p] = @ \cup {pid}]
          /\ UNCHANGED outcome
       \/ /\ pid \in Tasks
          /\ "stat" \in Faults
          /\ outcome' = [outcome EXCEPT ![p] = "PARTIAL"]
          /\ UNCHANGED seen
    /\ todo' = todo \ {pid}
    /\ UNCHANGED <<phase, swept, sweptTgid, readable, tables, owners, findings, lost>>

VisitPid_RetriesVanished(p, pid) ==
    /\ phase = WalkPhase(p)
    /\ First(pid)
    /\ \/ pid \notin Tasks /\ UNCHANGED <<seen, outcome, todo>>
       \/ /\ pid \in Tasks
          /\ seen' = [seen EXCEPT ![p] = @ \cup {pid}]
          /\ UNCHANGED outcome
          /\ todo' = todo \ {pid}
    /\ UNCHANGED <<phase, swept, sweptTgid, readable, tables, owners, findings, lost>>

VisitPid(p, pid) ==
    /\ phase = WalkPhase(p)
    /\ First(pid)
    /\ \/ pid \notin Tasks /\ UNCHANGED <<seen, outcome>>
       \/ /\ pid \in Tasks
          /\ seen' = [seen EXCEPT ![p] = @ \cup {pid}]
          /\ \/ UNCHANGED outcome
             \/ "stat" \in Faults /\ outcome' = [outcome EXCEPT ![p] = "PARTIAL"]
    /\ todo' = todo \ {pid}
    /\ UNCHANGED <<phase, swept, sweptTgid, readable, tables, owners, findings, lost>>

EndWalk(p) ==
    /\ phase = WalkPhase(p)
    /\ todo = {}
    /\ FinishPass(p)
    /\ UNCHANGED <<seen, outcome, swept, sweptTgid, readable, tables, owners, findings, lost>>

-----------------------------------------------------------------------------
(* SweepProcessCollector.collect *)

\* pid_max(): nothing catches its failure, so the capture dies with it.
ReadPidMax ==
    /\ phase = "pidMax"
    /\ \/ phase' = "kill" /\ todo' = Ids
       \/ "pidMax" \in Faults /\ phase' = "aborted" /\ UNCHANGED todo
    /\ UNCHANGED <<seen, outcome, swept, sweptTgid, readable, tables, owners, findings, lost>>

\* kill(id, 0): success and EPERM both mean the task exists.
Kill_SkipsEPERM(id) ==
    /\ phase = "kill"
    /\ First(id)
    /\ swept' \in {swept, swept \cup ({id} \cap Tasks)}
    /\ todo' = todo \ {id}
    /\ UNCHANGED <<phase, seen, outcome, sweptTgid, readable, tables, owners, findings, lost>>

Kill(id) ==
    /\ phase = "kill"
    /\ First(id)
    /\ swept' = swept \cup ({id} \cap Tasks)
    /\ todo' = todo \ {id}
    /\ UNCHANGED <<phase, seen, outcome, sweptTgid, readable, tables, owners, findings, lost>>

EndKill ==
    /\ phase = "kill"
    /\ todo = {}
    /\ phase' = "status"
    /\ todo' = swept
    /\ UNCHANGED <<seen, outcome, swept, sweptTgid, readable, tables, owners, findings, lost>>

\* The tgid of the task that has the id now.
read_status(id) == tgid[id]

\* One swept id.  When the task is gone or its status cannot be read, the id
\* itself stands for the tgid and status_readable is False.
ReadStatus_SkipsUnreadable(id) ==
    /\ phase = "status"
    /\ First(id)
    /\ \/ /\ id \in Tasks
          /\ sweptTgid' = [sweptTgid EXCEPT ![id] = read_status(id)]
          /\ readable' = readable \cup {id}
          /\ UNCHANGED lost
       \/ /\ \/ id \notin Tasks /\ UNCHANGED lost
             \/ id \in Tasks /\ Lose("status")
          /\ UNCHANGED <<sweptTgid, readable>>
    /\ todo' = todo \ {id}
    /\ UNCHANGED <<phase, seen, outcome, swept, tables, owners, findings>>

ReadStatus(id) ==
    /\ phase = "status"
    /\ First(id)
    /\ \/ /\ id \in Tasks
          /\ sweptTgid' = [sweptTgid EXCEPT ![id] = read_status(id)]
          /\ readable' = readable \cup {id}
          /\ UNCHANGED lost
       \/ /\ \/ id \notin Tasks /\ UNCHANGED lost
             \/ id \in Tasks /\ Lose("status")
          /\ sweptTgid' = [sweptTgid EXCEPT ![id] = id]
          /\ UNCHANGED readable
    /\ todo' = todo \ {id}
    /\ UNCHANGED <<phase, seen, outcome, swept, tables, owners, findings>>

EndSweep_SkipsPassB ==
    /\ phase = "status"
    /\ todo = {}
    /\ phase' = "tables"
    /\ UNCHANGED <<todo, seen, outcome, swept, sweptTgid, readable, tables, owners,
                   findings, lost>>

EndSweep ==
    /\ phase = "status"
    /\ todo = {}
    /\ phase' = "listB"
    /\ UNCHANGED <<todo, seen, outcome, swept, sweptTgid, readable, tables, owners,
                   findings, lost>>

-----------------------------------------------------------------------------
(* SocketCollector.collect, for the ids of pass A and of the sweep *)

PidsToWalk_PassAOnly == seen["A"]

PidsToWalk == seen["A"] \cup swept

\* What the four tables show, any of which may be unreadable.
read_net_tables == IF "table" \in Faults THEN SUBSET OpenInodes ELSE {OpenInodes}

ReadTables ==
    /\ phase = "tables"
    /\ tables' \in read_net_tables
    /\ \/ tables' = OpenInodes /\ UNCHANGED lost
       \/ tables' # OpenInodes /\ Lose("table")
    /\ phase' = "fds"
    /\ todo' = PidsToWalk
    /\ UNCHANGED <<seen, outcome, swept, sweptTgid, readable, owners, findings>>

\* The sockets of a task: those its thread group holds.
list_fds(pid) == holds[tgid[pid]]

\* The walk, in the order Python iterates a set; a pid that is gone or unreadable
\* gives nothing.
WalkFds(pid) ==
    /\ phase = "fds"
    /\ pid \in todo
    /\ \/ /\ pid \in Tasks
          /\ owners' = [i \in Inodes |->
                           IF i \in tables \cap list_fds(pid)
                           THEN owners[i] \cup {pid} ELSE owners[i]]
          /\ UNCHANGED lost
       \/ /\ \/ pid \notin Tasks /\ UNCHANGED lost
             \/ pid \in Tasks /\ Lose("fd")
          /\ UNCHANGED owners
    /\ todo' = todo \ {pid}
    /\ UNCHANGED <<phase, seen, outcome, swept, sweptTgid, readable, tables, findings>>

\* The last observation is in; the snapshot is written, or cannot be and the
\* capture dies of the OSError.
EndFds ==
    /\ phase = "fds"
    /\ todo = {}
    /\ \/ phase' = "analyze"
       \/ "out" \in Faults /\ phase' = "aborted"
    /\ UNCHANGED <<todo, seen, outcome, swept, sweptTgid, readable, tables, owners,
                   findings, lost>>

-----------------------------------------------------------------------------
(* The snapshot and its analysis *)

Snapshot ==
    [present |-> {"procfs.processes", "syscall_sweep.processes", "procfs.sockets"},
     passes  |-> seen,
     sweep   |-> [ids |-> swept, tgid |-> sweptTgid, readable |-> readable],
     sockets |-> [i \in tables |-> owners[i]]]

\* Signals about modules never join a process suspect, so they are left out.
Analyze ==
    /\ phase = "analyze"
    /\ findings' = score(signals_processes(Snapshot) \cup signals_sockets(Snapshot))
    /\ phase' = "done"
    /\ UNCHANGED <<todo, seen, outcome, swept, sweptTgid, readable, tables, owners, lost>>

-----------------------------------------------------------------------------
CaptureInit ==
    /\ phase = "host"
    /\ todo = {}
    /\ seen = [p \in Passes |-> {}]
    /\ outcome = [p \in Passes |-> "OK"]
    /\ swept = {}
    /\ sweptTgid = [t \in Ids |-> NoTask]
    /\ readable = {}
    /\ tables = {}
    /\ owners = [i \in Inodes |-> {}]
    /\ findings = {}
    /\ lost = {}

Capture ==
    \/ GatherHost
    \/ \E p \in Passes :
          \/ ListPids(p)
          \/ ListPidsFails(p)
          \/ \E pid \in Ids : VisitPid(p, pid)
          \/ EndWalk(p)
    \/ ReadPidMax
    \/ \E id \in Ids : Kill(id)
    \/ EndKill
    \/ \E id \in Ids : ReadStatus(id)
    \/ EndSweep
    \/ ReadTables
    \/ \E pid \in Ids : WalkFds(pid)
    \/ EndFds
    \/ Analyze

CaptureStep == Capture /\ UNCHANGED hostVars

\* What the host does before the first read of a pid is in Init, and what it does
\* after the capture cannot matter to it.
HostStep == phase # "host" /\ ~Over /\ HostNext /\ UNCHANGED captureVars

Terminated == Over /\ UNCHANGED vars

Init == HostInit /\ CaptureInit

Next == CaptureStep \/ HostStep \/ Terminated

\* The capture process keeps being scheduled; nothing is assumed of the host.
Spec == Init /\ [][Next]_vars /\ WF_vars(CaptureStep)

-----------------------------------------------------------------------------
(* Properties *)

AfterSweep == {"listB", "walkB", "tables", "fds", "analyze", "done"}

\* The ids that have a SweepEntity.
Described == {t \in Ids : sweptTgid[t] # NoTask}

\* The contract of Observation (models.py): an entity of the sweep is an id that
\* answered, every id that answered has its entity once its status was asked for,
\* readable or not, and owners are known of recorded sockets only.
ObservationContract ==
    /\ readable \subseteq Described
    /\ Described \subseteq swept
    /\ phase = "status" => swept \ todo \subseteq Described
    /\ phase \in AfterSweep => Described = swept
    /\ \A i \in Inodes \ tables : owners[i] = {}

\* Types, and the observations as the snapshot schema wants them: the ids that
\* answered the sweep and their entities match, whatever reads fail.
TypeOK ==
    /\ HostTypeOK
    /\ phase \in Phases
    /\ todo \subseteq Ids
    /\ seen \in [Passes -> SUBSET Ids]
    /\ outcome \in [Passes -> {"OK", "PARTIAL", "FAILED"}]
    /\ swept \subseteq Ids
    /\ sweptTgid \in [Ids -> Ids \cup {NoTask}]
    /\ readable \subseteq swept
    /\ tables \subseteq Inodes
    /\ owners \in [Inodes -> SUBSET Ids]
    /\ lost \subseteq {"status", "table", "fd"}
    /\ ObservationContract

Enumerated(p) == outcome[p] # "FAILED"
CleanHost == masked = {}

\* The processes reported on at least the channels cs.
ReportedOn(cs) == {f.suspect.name : f \in {g \in findings : cs \subseteq g.channels}}
Reported == ReportedOn({})

SweepChannels == {"syscall_kill", "direct_status"}

\* A process that was in the /proc listing all through the capture is never
\* reported as hidden, whatever reads fail, as long as one of the two passes
\* could enumerate at all.
SteadyIsNotReported ==
    phase = "done" /\ (\E p \in Passes : Enumerated(p)) => steady \cap Reported = {}

\* On a host that hides nothing, a process the sweep channels report came and
\* went during the capture, provided both passes enumerated: what is left of
\* the timing race is the process born after pass A listed /proc and dead
\* before pass B read it.
CleanReportIsShortLived ==
    phase = "done" /\ CleanHost /\ (\A p \in Passes : Enumerated(p)) =>
        ReportedOn(SweepChannels) \subseteq begun \cap ended

\* A process hidden all through the capture is reported on both sweep channels
\* (MEDIUM or better), unless its own status could not be read.
ConcealedIsReported ==
    phase = "done" =>
        {c \in concealed : c \in swept => c \in readable} \subseteq ReportedOn(SweepChannels)

\* A process hidden all through the capture and holding a socket all that time
\* is reported with HIGH confidence when nothing it needs is unreadable.
ConcealedSocketOwnerIsHigh ==
    phase = "done" /\ lost = {} =>
        \A x \in kept : x[1] \in concealed =>
            \E f \in findings : f.suspect = Process(x[1]) /\ f.confidence = "HIGH"

\* On a host that hides nothing the three process channels agree (HIGH) only
\* when an id was recycled during the capture, or pass B did not enumerate.
CleanHighNeedsReuse ==
    phase = "done" /\ CleanHost /\ Enumerated("B") =>
        \A f \in findings : f.confidence = "HIGH" => reused # {}

\* On a host that hides nothing and where no task is created during the capture,
\* there are two ways to a finding, if one pass enumerated.  Pass A failed, and a
\* process ended before pass B.  Or the status of a thread could not be read, and
\* signals_sockets, which folds by the tgid of any SweepEntity, takes the thread
\* for an unlisted process, with that one channel.  Other unreadable files, other
\* exits and threads as such are no findings.
QuietFindingNeedsLoss ==
    phase = "done" /\ CleanHost /\ begun = {} /\ (\E p \in Passes : Enumerated(p)) =>
        \A f \in findings :
            \/ ~Enumerated("A") /\ f.suspect.name \in ended
            \/ /\ "status" \in lost
               /\ f.suspect.name \in swept \ readable
               /\ f.channels = {"socket_visible"}

\* A capture comes to its end however the host behaves meanwhile.
CaptureTerminates == <>Over

-----------------------------------------------------------------------------
(* What the documentation says, and the code does not do *)

\* docs/detection-methods.md:253: absence from both passes tells a hidden task
\* apart from a process that started or exited during the capture.
TimingIsNoFinding ==
    phase = "done" /\ CleanHost /\ (\A p \in Passes : Enumerated(p)) =>
        ReportedOn(SweepChannels) = {}

\* collectors/procfs.py:60: a listing that failed is distinct from a system
\* with no processes.
FailedListingIsNotEmpty ==
    phase = "done" /\ CleanHost => steady \cap Reported = {}

\* docs/limitations.md:282: socket_visible is sound.
SocketVisibleIsSound ==
    phase = "done" /\ CleanHost /\ (\A p \in Passes : Enumerated(p)) =>
        ReportedOn({"socket_visible"}) = {}
=============================================================================
