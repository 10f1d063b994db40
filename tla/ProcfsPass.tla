------------------------------ MODULE ProcfsPass ------------------------------
(***************************************************************************)
(* One pass of ProcfsProcessCollector (src/kdetect/collectors/procfs.py)   *)
(* with every read of /proc as a step of its own, over the live source or  *)
(* over a fixture tree that tools/capture_fixture.py has recorded from the *)
(* same host; the collector cannot tell which.                             *)
(*                                                                         *)
(* A process stands for everything that can be read about it: a read of    *)
(* one of its fields gives the process, or an errno.  The host may end     *)
(* processes and give their pids to others between any two reads.          *)
(***************************************************************************)
EXTENDS Naturals, Sequences, FiniteSets, Functions

CONSTANTS
    Pids,              \* the pids of the host
    Procs,             \* processes that may exist, each of them once
    Kernel,            \* those without an executable
    Denied, Vanished,  \* the pids the fixture tool makes up: 812 and 4171
    Sshd,              \* the process it makes up for Denied
    MaxFaults          \* bound: reads that go wrong by more than a missing file

ASSUME PassAssumption ==
    /\ 1 \in Pids /\ 1 \notin {Denied, Vanished}
    /\ Denied # Vanished
    /\ Pids \cup {Denied, Vanished} \subseteq Nat
    /\ Kernel \subseteq Procs
    /\ Sshd \notin Procs
    /\ MaxFaults \in Nat

\* A process is neither an errno, nor a text that cannot be parsed, nor nothing.
ASSUME ProcsAssumption ==
    {"none", "malformed", "ENOENT", "ESRCH", "EACCES", "EPERM", "EIO"}
        \cap (Procs \cup {Sshd}) = {}

VARIABLES
    at,           \* pid -> the process that has it, or "none"
    used,         \* history: processes that exist or have existed
    freed,        \* history: pids released since the program began
    begun,        \* history: pids given to a process since then
    reused,       \* history: those of begun that had been released before
    faults,       \* history: how many reads went wrong
    source,       \* "live", or "fixture" for a recording and its replay
    pc,
    todo,         \* pids yet to be read, the one at hand included
    got,          \* field -> answer, of the pid at hand
    result,       \* pid -> what the collector has made of it
    failed,       \* whether the collector could not list
    heard,        \* recorder: pid -> field -> answer
    tree,         \* fixture: <<pid, name>> -> content, of the files there are
    sidecar,      \* fixture: <<pid, name>> -> errno, as in _errors.json
    dirs          \* fixture: the pid directories

hostVars == <<at, used, freed, begun, reused>>
fixtureVars == <<heard, tree, sidecar, dirs>>
collectorVars == <<pc, todo, got, result, failed>>
vars == <<hostVars, faults, source, collectorVars, fixtureVars>>

\* Every pid there may be a directory for.
AllPids == Pids \cup {Denied, Vanished}

Fields == <<"stat", "cmdline", "status", "exe">>
OptionalFields == {"cmdline", "status", "exe"}

\* The field to read next for the pid at hand.
Field == Fields[Cardinality(DOMAIN got) + 1]

\* The function f with v at x.
With(f, x, v) == [y \in DOMAIN f \cup {x} |-> IF y = x THEN v ELSE f[y]]

First(pid) == pid \in todo /\ \A other \in todo : pid <= other

-----------------------------------------------------------------------------
(* The host *)

Spawn(pid, p) ==
    /\ at[pid] = "none"
    /\ p \in Procs \ used
    /\ at' = [at EXCEPT ![pid] = p]
    /\ used' = used \cup {p}
    /\ begun' = begun \cup {pid}
    /\ reused' = reused \cup ({pid} \cap freed)
    /\ UNCHANGED freed

\* The init process stays.
Exit(pid) ==
    /\ pid # 1
    /\ at[pid] # "none"
    /\ at' = [at EXCEPT ![pid] = "none"]
    /\ freed' = freed \cup {pid}
    /\ UNCHANGED <<used, begun, reused>>

\* What a read of a field gives now.
LiveAnswer(pid, f) ==
    IF at[pid] = "none" \/ (f = "exe" /\ at[pid] \in Kernel) THEN "ENOENT" ELSE at[pid]

\* What else it may give: the process can end between the open and the read of a
\* file, a field may be unreadable, and stat and status may be unparsable.
OddAnswers(pid, f) ==
    IF at[pid] = "none" THEN {"ESRCH"} \ IF f = "exe" THEN {"ESRCH"} ELSE {}
    ELSE {"EACCES", "EIO"} \cup IF f \in {"stat", "status"} THEN {"malformed"} ELSE {}

Fault == faults < MaxFaults /\ faults' = faults + 1

ReadLive(pid, f, a) ==
    \/ a = LiveAnswer(pid, f) /\ UNCHANGED faults
    \/ a \in OddAnswers(pid, f) /\ Fault

-----------------------------------------------------------------------------
(* The sources *)

\* read_text and read_link of FixtureProcSource: a recorded failure, a file, or
\* no such file.
FixtureAnswer_FileFirst(pid, f) ==
    IF <<pid, f>> \in DOMAIN tree THEN tree[<<pid, f>>]
    ELSE IF <<pid, f>> \in DOMAIN sidecar THEN sidecar[<<pid, f>>]
    ELSE "ENOENT"

FixtureAnswer(pid, f) ==
    IF <<pid, f>> \in DOMAIN sidecar THEN sidecar[<<pid, f>>]
    ELSE IF <<pid, f>> \in DOMAIN tree THEN tree[<<pid, f>>]
    ELSE "ENOENT"

ReadSource(pid, f, a) ==
    \/ source = "live" /\ ReadLive(pid, f, a)
    \/ source = "fixture" /\ a = FixtureAnswer(pid, f) /\ UNCHANGED faults

AnswerValues == Procs \cup {Sshd, "ENOENT", "ESRCH", "EACCES", "EIO", "malformed"}

\* list_pids.
Listing == IF source = "live" THEN {pid \in Pids : at[pid] # "none"} ELSE dirs

\* _translate, _recorded_failure and _kind_of; "none" for an answer that is a value.
Kind_DeniedVanishes(a) ==
    CASE a \in {"ENOENT", "ESRCH", "EACCES", "EPERM"} -> "vanished"
      [] a = "malformed"           -> "malformed"
      [] a = "EIO"                 -> "io_error"
      [] OTHER                     -> "none"

Kind(a) ==
    CASE a \in {"ENOENT", "ESRCH"} -> "vanished"
      [] a \in {"EACCES", "EPERM"} -> "denied"
      [] a = "malformed"           -> "malformed"
      [] a = "EIO"                 -> "io_error"
      [] OTHER                     -> "none"

-----------------------------------------------------------------------------
(* ProcfsProcessCollector.collect *)

Fate_SkipsUndescribed(a) == IF Kind(a) = "none" THEN "described" ELSE "vanished"

\* What becomes of a pid: nothing but a count, an id without detail, or an entity.
Fate(a) ==
    CASE Kind(a) = "vanished" -> "vanished"
      [] Kind(a) = "none"     -> "described"
      [] OTHER                -> "undescribed"

\* _optional: an absent field is no value; one that cannot be read is no value
\* either, and named in partial.
Value(answers) ==
    [f \in DOMAIN answers |-> IF Kind(answers[f]) = "none" THEN answers[f] ELSE "none"]

Partial_LosesDenied(answers) ==
    {f \in DOMAIN answers : Kind(answers[f]) \in {"malformed", "io_error"}}

Partial(answers) == {f \in DOMAIN answers : Kind(answers[f]) \notin {"none", "vanished"}}

Describe(answers) ==
    LET fate    == Fate(answers["stat"])
        details == IF fate = "described" THEN answers ELSE <<>>
    IN  [fate |-> fate, value |-> Value(details), partial |-> Partial(details)]

Degraded(r) == r.fate = "undescribed" \/ r.partial # {}

ListPids ==
    /\ pc = "list"
    /\ pc' = "read"
    /\ todo' = Listing
    /\ UNCHANGED <<got, result, failed, faults>>

ListPidsFails ==
    /\ pc = "list"
    /\ source = "live"
    /\ Fault
    /\ pc' = "done"
    /\ failed' = TRUE
    /\ UNCHANGED <<todo, got, result>>

\* The optional fields are read for the last pid of the loop.
Read_LateBinding(pid) ==
    /\ pc = "read"
    /\ First(pid)
    /\ \E a \in AnswerValues, last \in todo :
          LET heardNow == With(got, Field, a)
          IN  /\ \A other \in todo : other <= last
              /\ ReadSource(IF Field = "stat" THEN pid ELSE last, Field, a)
              /\ IF Field = "exe" \/ Kind(heardNow["stat"]) # "none"
                 THEN /\ result' = With(result, pid, Describe(heardNow))
                      /\ got' = <<>>
                      /\ todo' = todo \ {pid}
                 ELSE /\ got' = heardNow
                      /\ UNCHANGED <<result, todo>>
    /\ UNCHANGED <<pc, failed>>

\* A pid that is gone is tried again.
Read_RetriesVanished(pid) ==
    /\ pc = "read"
    /\ First(pid)
    /\ \E a \in AnswerValues :
          LET heardNow == With(got, Field, a)
          IN  /\ ReadSource(pid, Field, a)
              /\ IF Kind(a) = "vanished"
                 THEN UNCHANGED <<got, todo, result>>
                 ELSE IF Field = "exe" \/ Kind(heardNow["stat"]) # "none"
                 THEN /\ result' = With(result, pid, Describe(heardNow))
                      /\ got' = <<>>
                      /\ todo' = todo \ {pid}
                 ELSE /\ got' = heardNow
                      /\ UNCHANGED <<result, todo>>
    /\ UNCHANGED <<pc, failed>>

\* One read for the pid at hand.  Without stat there is nothing more to read.
Read(pid) ==
    /\ pc = "read"
    /\ First(pid)
    /\ \E a \in AnswerValues :
          LET heardNow == With(got, Field, a)
          IN  /\ ReadSource(pid, Field, a)
              /\ IF Field = "exe" \/ Kind(heardNow["stat"]) # "none"
                 THEN /\ result' = With(result, pid, Describe(heardNow))
                      /\ got' = <<>>
                      /\ todo' = todo \ {pid}
                 ELSE /\ got' = heardNow
                      /\ UNCHANGED <<result, todo>>
    /\ UNCHANGED <<pc, failed>>

EndPass ==
    /\ pc = "read"
    /\ todo = {}
    /\ pc' = "done"
    /\ UNCHANGED <<todo, got, result, failed, faults>>

\* The observation: entity_ids, status and the count of the vanished.
Observed == {pid \in DOMAIN result : result[pid].fate # "vanished"}

Status ==
    IF failed THEN "FAILED"
    ELSE IF \E pid \in DOMAIN result : Degraded(result[pid]) THEN "PARTIAL" ELSE "OK"

Collector ==
    /\ ListPids \/ ListPidsFails \/ EndPass \/ \E pid \in AllPids : Read(pid)
    /\ UNCHANGED fixtureVars

-----------------------------------------------------------------------------
(* tools/capture_fixture.py *)

\* read_proc and the readlink of capture: what is kept of a failed read.
Recorded_AllDenied(f, a) == IF f # "exe" THEN "ENOENT" ELSE "EACCES"

Recorded(f, a) == IF f # "exe" \/ a = "ENOENT" THEN "ENOENT" ELSE "EACCES"

\* A file of the tree is written, or a failure noted.
Keep(pid, f, a) ==
    IF Kind(a) \in {"none", "malformed"}
    THEN tree' = With(tree, <<pid, f>>, a) /\ UNCHANGED sidecar
    ELSE sidecar' = With(sidecar, <<pid, f>>, Recorded(f, a)) /\ UNCHANGED tree

\* capture, one read of a process of the roster.
Record(pid) ==
    /\ pc = "record"
    /\ First(pid)
    /\ dirs' = dirs \cup {pid}
    /\ \E a \in AnswerValues :
          LET heardNow == With(got, Field, a)
          IN  /\ ReadLive(pid, Field, a)
              /\ Keep(pid, Field, a)
              /\ heard' = With(heard, pid, heardNow)
              /\ IF Field = "exe"
                 THEN got' = <<>> /\ todo' = todo \ {pid}
                 ELSE got' = heardNow /\ UNCHANGED todo
    /\ UNCHANGED <<pc, result, failed>>

EndRoster ==
    /\ pc = "record"
    /\ todo = {}
    /\ pc' = "synthesiseStat"
    /\ UNCHANGED <<todo, got, result, failed, faults, fixtureVars>>

\* synthesise_denied: the stat line and the status of pid 1, renumbered, where
\* text that could not be read is empty.
Renumbered(a, p) == IF Kind(a) = "none" THEN p ELSE "malformed"

SynthesiseStat ==
    /\ pc = "synthesiseStat"
    /\ pc' = "synthesiseStatus"
    /\ dirs' = dirs \cup {Denied}
    /\ \E a \in AnswerValues :
          /\ ReadLive(1, "stat", a)
          /\ tree' = With(With(tree, <<Denied, "cmdline">>, Sshd),
                          <<Denied, "stat">>, Renumbered(a, Sshd))
    /\ UNCHANGED <<todo, got, result, failed, heard, sidecar>>

\* The rest of synthesise_denied, and synthesise_vanished.
SynthesiseStatus ==
    /\ pc = "synthesiseStatus"
    /\ pc' = "save"
    /\ dirs' = dirs \cup {Vanished}
    /\ \E a \in AnswerValues :
          /\ ReadLive(1, "status", a)
          /\ tree' = With(tree, <<Denied, "status">>, Renumbered(a, a))
    /\ sidecar' = With(With(sidecar, <<Vanished, "stat">>, "ENOENT"),
                     <<Denied, "exe">>, "EACCES")
    /\ UNCHANGED <<todo, got, result, failed, heard>>

\* _errors.json is written last, so a tool that is killed leaves a tree without
\* it, which replays all the same.
Save ==
    /\ pc = "save"
    /\ pc' = "list"
    /\ UNCHANGED <<todo, got, result, failed, faults, fixtureVars>>

KillRecorder ==
    /\ pc \in {"record", "synthesiseStat", "synthesiseStatus", "save"}
    /\ pc' = "list"
    /\ sidecar' = <<>>
    /\ todo' = {}
    /\ got' = <<>>
    /\ UNCHANGED <<result, failed, faults, heard, tree, dirs>>

Recorder ==
    \/ EndRoster \/ SynthesiseStat \/ SynthesiseStatus
    \/ \E pid \in Pids : Record(pid)

\* The tree is replayed later and elsewhere: the recorded host is out of sight.
LeaveHost ==
    /\ at' = [pid \in Pids |-> "none"]
    /\ used' = {}
    /\ freed' = {}
    /\ begun' = {}
    /\ reused' = {}

-----------------------------------------------------------------------------
Init ==
    /\ at \in [Pids -> Procs \cup {"none"}]
    /\ at[1] \in Procs \ Kernel
    /\ \A x, y \in Pids : at[x] = at[y] => x = y \/ at[x] = "none"
    /\ used = Range(at) \ {"none"}
    /\ freed = {}
    /\ begun = {}
    /\ reused = {}
    /\ faults = 0
    /\ source \in {"live", "fixture"}
    /\ pc = IF source = "live" THEN "list" ELSE "record"
    /\ todo \in IF source = "live" THEN {{}} ELSE {r \in SUBSET Pids : 1 \in r}
    /\ got = <<>>
    /\ result = <<>>
    /\ failed = FALSE
    /\ heard = <<>>
    /\ tree = <<>>
    /\ sidecar = <<>>
    /\ dirs = {}

Replaying == source = "fixture" /\ pc \in {"list", "read", "done"}

\* The host matters to a program that reads it.
HostStep ==
    /\ ~Replaying /\ pc # "done"
    /\ \E pid \in Pids : Exit(pid) \/ \E p \in Procs : Spawn(pid, p)
    /\ UNCHANGED <<faults, source, collectorVars, fixtureVars>>

ProgramStep ==
    /\ \/ (Collector \/ Recorder) /\ UNCHANGED hostVars
       \/ Save /\ LeaveHost
    /\ UNCHANGED source

Crash == KillRecorder /\ LeaveHost /\ UNCHANGED source

Terminated == pc = "done" /\ UNCHANGED vars

Next == ProgramStep \/ Crash \/ HostStep \/ Terminated

Spec == Init /\ [][Next]_vars /\ WF_vars(ProgramStep)

-----------------------------------------------------------------------------
(* Properties *)

Described(pid) == pid \in DOMAIN result /\ result[pid].fate = "described"

\* Processes there is one of for the whole run of the program.
Steady == {pid \in Pids : at[pid] # "none" /\ pid \notin freed \cup begun}

\* A live pass with status OK has the whole truth about every process that was
\* there all the time: one entity, all of it of that process, without an exe
\* only if it has none.
OKMeansComplete ==
    pc = "done" /\ source = "live" /\ Status = "OK" =>
        \A pid \in Steady :
            /\ Described(pid)
            /\ \A f \in Range(Fields) :
                  result[pid].value[f] =
                      IF f = "exe" /\ at[pid] \in Kernel THEN "none" ELSE at[pid]

\* An entity that is put together from two processes has a pid that was given out
\* again between two of the reads.
MixedEntityNeedsReuse ==
    source = "live" =>
        \A pid \in DOMAIN result :
            Described(pid) /\ Cardinality(Range(result[pid].value) \ {"none"}) > 1 =>
                pid \in reused

\* A field that is absent and not in partial: a kernel thread's exe, or the process
\* ended while it was read.
AbsentFieldNeedsCause ==
    source = "live" =>
        \A pid \in DOMAIN result : Described(pid) =>
            \A f \in OptionalFields \ result[pid].partial :
                result[pid].value[f] = "none" =>
                    pid \in freed \/ (f = "exe" /\ result[pid].value["stat"] \in Kernel)

\* Failures the recorder keeps as something else: any but "no such file" of a text,
\* an I/O error of exe, and every one if it is killed before it saves them.
Complete == <<Denied, "exe">> \in DOMAIN sidecar
Misrecorded(f, a) == a = "EIO" \/ (a = "EACCES" /\ ~(f = "exe" /\ Complete))

\* The replay of a recorded process is what the collector would have made of the
\* reads the recorder did, or one of those failed in a way that it does not keep.
ReplayMatchesRecording ==
    Replaying =>
        \A pid \in (DOMAIN result \cap DOMAIN heard) \ {Denied, Vanished} :
            DOMAIN heard[pid] = Range(Fields) =>
                \/ result[pid] = Describe(heard[pid])
                \/ \E f \in Range(Fields) : Misrecorded(f, heard[pid][f])

\* Of a finished recording, the made-up pids replay as what they are there for: 4171
\* as vanished, 812 with its exe denied.  The exceptions for 812: pid 1 could not
\* be read, or the roster had a process of that pid whose stat could not be, for
\* a recorded failure goes before a file.
SyntheticsReplayAsMeant ==
    Replaying /\ Complete =>
        /\ Vanished \in DOMAIN result => result[Vanished].fate = "vanished"
        /\ Denied \in DOMAIN result =>
              \/ Described(Denied) /\ "exe" \in result[Denied].partial
              \/ result[Denied].fate = "undescribed" /\ faults > 0
              \/ Denied \in DOMAIN heard /\ Kind(heard[Denied]["stat"]) \notin {"none", "malformed"}

\* The program ends, whatever the host does.
PassEnds == <>(pc = "done")

\* The pid whose stat is read and whose other fields are not yet.
Visiting == {pid \in todo : pc = "read" /\ got # <<>> /\ First(pid)}

Pass == INSTANCE ListingPass WITH
    Pids    <- AllPids,
    listed  <- Listing,
    present <- IF source = "live" THEN {pid \in Pids : at[pid] # "none"}
               ELSE {pid \in AllPids : Kind(FixtureAnswer(pid, "stat")) # "vanished"},
    phase   <- CASE pc = "read" -> "walk" [] pc = "done" -> "done" [] OTHER -> "list",
    todo    <- IF pc = "read" THEN todo \ Visiting ELSE {},
    seen    <- Observed \cup Visiting,
    status  <- IF Visiting # {} /\ \E f \in DOMAIN got : Kind(got[f]) \notin {"none", "vanished"}
               THEN "PARTIAL" ELSE Status

\* The reads of one pid, spread over time, have the effect of a visit at the
\* moment stat is read: live and replayed passes implement ListingPass.
ImplementsListing == Pass!Spec
=============================================================================
