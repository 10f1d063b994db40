---------------------------- MODULE SweepEvidence ----------------------------
(***************************************************************************)
(* The process half of tools/step0_phase2.py, which collects the evidence  *)
(* the design of the detector rests on: file 01 (threads of listed         *)
(* processes), 02 (sweep against listing), 03 (the sandwich) and 04 (one   *)
(* pid through three channels).  Each is a sequence of steps that read a   *)
(* host which goes on running; the noise helper of file 03 only makes it   *)
(* busier.                                                                 *)
(***************************************************************************)
EXTENDS Host, Sequences

CONSTANT Unreliable    \* whether a read may fail although the task is there

VARIABLES
    file,         \* the evidence file being made
    target,       \* the pid file 04 is about
    step,         \* position in Steps[file]; 0 when the tool died of an exception
    todo,         \* ids the running loop has yet to visit
    before,       \* pids_before, or pass A
    alive,        \* ids that answered kill(id, 0)
    after,        \* pids_after, or pass B; the listing of files 01 and 04
    tasks,        \* id -> the listed pid it was found under, or NoTask
    resolved,     \* id -> what proc_tgid gave, NoTask for None
    leaders,      \* the same for the second proc_tgid of file 03
    lost          \* history: some read failed although the task was there

toolVars == <<file, target, step, todo, before, alive, after, tasks, resolved, leaders, lost>>
vars == <<hostVars, toolVars>>

Steps ==
    [f \in {"01", "02", "03", "04"} |->
        CASE f = "01" -> <<"list", "tasks", "resolve">>
          [] f = "02" -> <<"before", "kill", "list", "tasks", "resolve">>
          [] f = "03" -> <<"before", "kill", "list", "resolve", "again">>
          [] f = "04" -> <<"list", "kill", "resolve", "stat">>]

Aborted == step = 0
Done == step > Len(Steps[file])
At(s) == ~Aborted /\ ~Done /\ Steps[file][step] = s

Known == {t \in Ids : tasks[t] # NoTask}
Resolvable == {t \in Ids : resolved[t] # NoTask}

-----------------------------------------------------------------------------
\* The ids a file wants to know the process of.
Candidates ==
    CASE file = "01" -> Known \ after
      [] file = "02" -> alive \ after
      [] file = "03" -> (alive \ before) \ after
      [] file = "04" -> {target}

\* The ids the loop at hand visits.
Work ==
    CASE At("kill")    -> IF file = "04" THEN {target} ELSE Ids
      [] At("tasks")   -> after
      [] At("resolve") -> Candidates
      [] At("again")   -> Resolvable
      [] OTHER         -> {}

\* On to the next step, whose loop goes over what has been read by now.
Advance == step' = step + 1 /\ todo' = Work'

\* An exception that nothing catches ends the tool where it stands.
Die ==
    /\ step' = 0
    /\ UNCHANGED <<file, target, todo, before, alive, after, tasks, resolved, leaders, lost>>

First(id) == id \in todo /\ \A other \in todo : id <= other

Visit(s, id) ==
    /\ At(s)
    /\ First(id)
    /\ todo' = todo \ {id}
    /\ UNCHANGED step

EndLoop ==
    /\ At("kill") \/ At("tasks") \/ At("resolve") \/ At("again")
    /\ todo = {}
    /\ UNCHANGED <<file, target, before, alive, after, tasks, resolved, leaders, lost>>
    /\ Advance

\* listing_pids: os.listdir("/proc").  Nothing catches its failure.
ListBefore ==
    /\ At("before")
    /\ before' = Readdir
    /\ UNCHANGED <<file, target, alive, after, tasks, resolved, leaders, lost>>
    /\ Advance

ListAfter ==
    /\ At("list")
    /\ after' = Readdir
    /\ UNCHANGED <<file, target, before, alive, tasks, resolved, leaders, lost>>
    /\ Advance

ListFails ==
    /\ Unreliable
    /\ At("before") \/ At("list")
    /\ Die

\* start_noise of file 03 may be unable to start its helper.
NoiseFails ==
    /\ Unreliable
    /\ file = "03" /\ At("before")
    /\ Die

\* Evidence.close: the file cannot be written once all of it has been read.
CloseFails ==
    /\ Unreliable
    /\ ~Aborted /\ step = Len(Steps[file]) /\ todo = {}
    /\ Die

\* sweep: EPERM means that the task exists.
Kill_SkipsEPERM(id) ==
    /\ file # "04"
    /\ Visit("kill", id)
    /\ alive' \in {alive, alive \cup ({id} \cap Tasks)}
    /\ UNCHANGED <<file, target, before, after, tasks, resolved, leaders, lost>>

Kill(id) ==
    /\ file # "04"
    /\ Visit("kill", id)
    /\ alive' = alive \cup ({id} \cap Tasks)
    /\ UNCHANGED <<file, target, before, after, tasks, resolved, leaders, lost>>

\* The kill of file 04, where any error, EPERM too, is printed as "no".
KillTarget ==
    /\ file = "04"
    /\ Visit("kill", target)
    /\ \/ alive' = alive \cup ({target} \cap Tasks) /\ UNCHANGED lost
       \/ Unreliable /\ target \in Tasks /\ lost' = TRUE /\ UNCHANGED alive
    /\ UNCHANGED <<file, target, before, after, tasks, resolved, leaders>>

\* task_ids: the threads of the process that has the pid now.  A process that is
\* gone is passed over.
TaskIds(pid) ==
    /\ Visit("tasks", pid)
    /\ tasks' = [t \in Ids |-> IF t \in Threads(pid) THEN pid ELSE tasks[t]]
    /\ UNCHANGED <<file, target, before, alive, after, resolved, leaders, lost>>

\* proc_tgid: None for a task that is gone and for a read that fails.
proc_tgid_ReadsPid(id) == IF tgid[id] = NoTask THEN NoTask ELSE id

proc_tgid(id) == tgid[id]

Reads(id, value) ==
    \/ value = proc_tgid(id) /\ UNCHANGED lost
    \/ Unreliable /\ id \in Tasks /\ value = NoTask /\ lost' = TRUE

Resolve(id) ==
    /\ Visit("resolve", id)
    /\ \E g \in Ids \cup {NoTask} :
          /\ Reads(id, g)
          /\ resolved' = [resolved EXCEPT ![id] = g]
    /\ UNCHANGED <<file, target, before, alive, after, tasks, leaders>>

ResolveAgain(id) ==
    /\ Visit("again", id)
    /\ \E g \in Ids \cup {NoTask} :
          /\ Reads(id, g)
          /\ leaders' = [leaders EXCEPT ![id] = g]
    /\ UNCHANGED <<file, target, before, alive, after, tasks, resolved>>

\* The start time of the target, when its status was readable: the text of a
\* failed read has no twentieth word, and nothing catches the IndexError.
ReadStart ==
    /\ At("stat")
    /\ UNCHANGED <<file, target, before, alive, after, tasks, resolved, leaders>>
    /\ \/ /\ target \in Tasks \/ target \notin Resolvable
          /\ Advance
          /\ UNCHANGED lost
       \/ /\ target \in Resolvable
          /\ \/ target \notin Tasks /\ UNCHANGED lost
             \/ target \in Tasks /\ Unreliable /\ lost' = TRUE
          /\ step' = 0
          /\ UNCHANGED todo

-----------------------------------------------------------------------------
(* What the files say *)

\* File 02: swept, not listed afterwards, and of no listed process.
Unexplained ==
    {t \in alive \ after : /\ t \in Resolvable
                           /\ resolved[t] \notin after \cup Known}

\* File 03: swept, absent from both walks, still there, and of no process in B.
AbsentFromBoth ==
    {t \in (alive \ before) \ after : leaders[t] # NoTask /\ leaders[t] \notin after}

\* File 03: the ids it calls started and exited mid-capture.
StartedMidCapture_Unlisted == alive \ before

StartedMidCapture == (alive \cap after) \ before

ExitedMidCapture == (alive \cap before) \ after

-----------------------------------------------------------------------------
Tool ==
    \/ EndLoop \/ ListBefore \/ ListAfter \/ KillTarget \/ ReadStart
    \/ ListFails \/ NoiseFails \/ CloseFails
    \/ \E id \in Ids :
          Kill(id) \/ TaskIds(id) \/ Resolve(id) \/ ResolveAgain(id)

ToolStep == Tool /\ UNCHANGED hostVars

Over == Aborted \/ Done

HostStep == ~Over /\ HostNext /\ UNCHANGED toolVars

Init ==
    /\ HostInit
    /\ file \in DOMAIN Steps
    /\ target \in IF file = "04" THEN Ids ELSE {1}
    /\ step = 1
    /\ todo = {}
    /\ before = {}
    /\ alive = {}
    /\ after = {}
    /\ tasks = [t \in Ids |-> NoTask]
    /\ resolved = [t \in Ids |-> NoTask]
    /\ leaders = [t \in Ids |-> NoTask]
    /\ lost = FALSE

Terminated == Over /\ UNCHANGED vars

Next == ToolStep \/ HostStep \/ Terminated

Spec == Init /\ [][Next]_vars

-----------------------------------------------------------------------------
(* Properties *)

\* An id that files 02 and 03 leave unexplained belongs to a process that was
\* hidden, or was given out again while the tool ran: nothing else that starts,
\* exits or clones between the listings can look like a hidden process.
UnexplainedIsHiddenOrReused ==
    Done => /\ \A t \in Unexplained : file = "02" => t \in reused \/ resolved[t] \in masked
            /\ \A t \in AbsentFromBoth : file = "03" => t \in reused \/ leaders[t] \in masked

\* A process hidden all the time is among what files 02 and 03 leave unexplained,
\* and file 04 shows it as unlisted but there, unless a read of it failed.
ConcealedIsUnexplained ==
    Done /\ ~lost =>
        \A p \in concealed :
            /\ file = "02" => p \in Unexplained
            /\ file = "03" => p \in AbsentFromBoth
            /\ file = "04" /\ p = target => p \in (alive \cap Resolvable) \ after

\* What file 03 calls started mid-capture was started then, or was hidden and
\* shown again; what it calls exited was ended or hidden then; and the sweep
\* misses a listed process only if that ended before it (A) or began after it (B)
\* was swept.
LabelsAreTrue ==
    Done /\ file = "03" =>
        /\ StartedMidCapture \subseteq begun \cup masked
        /\ ExitedMidCapture \subseteq ended \cup masked
        /\ before \ alive \subseteq ended
        /\ after \ alive \subseteq begun

\* File 01: an unlisted task id resolves to the listed process it was found
\* under, unless the id was given out again in between.
ThreadsResolveToTheirLeader ==
    Done /\ file = "01" =>
        \A t \in Resolvable : t \in reused \/ (resolved[t] = tasks[t] /\ tasks[t] \in after)

-----------------------------------------------------------------------------
(* What a docstring says, and the code does not do *)

\* tools/step0_phase2.py:79: evidence collection never aborts halfway because
\* one path is absent.  Checked with every path readable as long as the task is
\* there, so that only an absent one is left to abort it.
NeverAbortsHalfway == ~Aborted
=============================================================================
