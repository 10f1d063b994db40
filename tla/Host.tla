-------------------------------- MODULE Host --------------------------------
(***************************************************************************)
(* The part of a Linux host the process and socket collectors look at, as  *)
(* src/kdetect/collectors/sources.py uses it: the task table, what the     *)
(* /proc listing shows of it, and the sockets processes hold.  Nothing of  *)
(* it is kdetect's own code; it runs by itself while a capture is taken.   *)
(*                                                                         *)
(*  - A task has an id and a tgid.  A thread-group leader has tgid = id;   *)
(*    the /proc listing shows the leaders, kill(id, 0) and a direct read   *)
(*    of /proc/<id>/... answer for every task.                             *)
(*  - A process may be hidden: left out of the listing, and of nothing     *)
(*    else.  It may be hidden and shown again at any time.                 *)
(*  - The threads of a process share its file descriptors.                 *)
(*                                                                         *)
(* begun, ended, reused, masked, steady, concealed and kept are history    *)
(* variables.  Since the capture began: the ids given to a task, the ids   *)
(* released, the ids given out again after a release, the ids that were    *)
(* hidden at some time, the processes that have been in the listing all    *)
(* that time, those that have been alive and hidden all that time, and the *)
(* sockets held all that time.                                             *)
(***************************************************************************)
EXTENDS Integers, FiniteSets

CONSTANTS
    MaxPid,       \* pid_max: ids are 1..MaxPid
    Inodes,       \* sockets the /proc/net tables can show
    CanHide,      \* whether the host may hold hidden processes
    MaxBirths     \* bound: tasks created while a capture is running

ASSUME HostAssumption ==
    /\ MaxPid \in Nat \ {0}
    /\ CanHide \in BOOLEAN
    /\ MaxBirths \in Nat

Ids == 1 .. MaxPid
NoTask == 0

VARIABLES
    tgid,         \* id -> tgid of the task with that id, or NoTask
    hidden,       \* leaders the listing leaves out
    holds,        \* leader -> inodes its threads hold as file descriptors
    begun, ended, reused, masked, steady, concealed, kept

hostVars == <<tgid, hidden, holds, begun, ended, reused, masked, steady, concealed, kept>>

Tasks   == {t \in Ids : tgid[t] # NoTask}
Leaders == {t \in Ids : tgid[t] = t}
Threads(l) == {t \in Ids : tgid[t] = l}

\* The numeric entries of /proc, as a directory listing gives them.
Readdir == Leaders \ hidden

\* The inodes the tables show: those some process holds.
OpenInodes == UNION {holds[l] : l \in Leaders}

HostTypeOK ==
    /\ tgid \in [Ids -> Ids \cup {NoTask}]
    /\ hidden \in SUBSET Ids
    /\ holds \in [Ids -> SUBSET Inodes]
    /\ {begun, ended, reused, masked, steady, concealed} \subseteq SUBSET Ids
    /\ kept \subseteq Ids \X Inodes

HostInit ==
    /\ tgid \in [Ids -> Ids \cup {NoTask}]
    /\ \A t \in Tasks : tgid[t] \in Leaders
    /\ hidden \in IF CanHide THEN SUBSET Leaders ELSE {{}}
    /\ holds \in [Ids -> SUBSET Inodes]
    /\ \A t \in Ids : holds[t] # {} => t \in Leaders
    /\ begun = {}
    /\ ended = {}
    /\ reused = {}
    /\ masked = hidden
    /\ steady = Readdir
    /\ concealed = hidden
    /\ kept = {x \in Ids \X Inodes : x[2] \in holds[x[1]]}

\* The task id t comes into use for a task of thread group l.
Begin(t, l) ==
    /\ tgid[t] = NoTask
    /\ Cardinality(begun) + Cardinality(reused) < MaxBirths
    /\ tgid' = [tgid EXCEPT ![t] = l]
    /\ begun' = begun \cup {t}
    /\ reused' = reused \cup ({t} \cap ended)
    /\ UNCHANGED <<hidden, holds, ended, masked, steady, concealed, kept>>

Spawn(p) == Begin(p, p)

Clone(t, l) == l \in Leaders /\ Begin(t, l)

\* The tasks in gone leave the table.
End(gone) ==
    /\ tgid' = [t \in Ids |-> IF t \in gone THEN NoTask ELSE tgid[t]]
    /\ hidden' = hidden \ gone
    /\ holds' = [t \in Ids |-> IF t \in gone THEN {} ELSE holds[t]]
    /\ ended' = ended \cup gone
    /\ steady' = steady \ gone
    /\ concealed' = concealed \ gone
    /\ kept' = {x \in kept : x[1] \notin gone}
    /\ UNCHANGED <<begun, reused, masked>>

Exit(l) == l \in Leaders /\ End(Threads(l))

ExitThread(t) == t \in Tasks \ Leaders /\ End({t})

Hide(l) ==
    /\ CanHide
    /\ l \in Readdir
    /\ hidden' = hidden \cup {l}
    /\ masked' = masked \cup {l}
    /\ steady' = steady \ {l}
    /\ UNCHANGED <<tgid, holds, begun, ended, reused, concealed, kept>>

\* l is back in the listing, as it was before it was hidden.
Unhide(l) ==
    /\ CanHide
    /\ l \in hidden
    /\ hidden' = hidden \ {l}
    /\ concealed' = concealed \ {l}
    /\ UNCHANGED <<tgid, holds, begun, ended, reused, masked, steady, kept>>

\* l opens a socket, or is given one another process holds.
OpenSocket(l, i) ==
    /\ l \in Leaders
    /\ i \notin holds[l]
    /\ holds' = [holds EXCEPT ![l] = @ \cup {i}]
    /\ UNCHANGED <<tgid, hidden, begun, ended, reused, masked, steady, concealed, kept>>

CloseSocket(l, i) ==
    /\ l \in Leaders
    /\ i \in holds[l]
    /\ holds' = [holds EXCEPT ![l] = @ \ {i}]
    /\ kept' = kept \ {<<l, i>>}
    /\ UNCHANGED <<tgid, hidden, begun, ended, reused, masked, steady, concealed>>

HostNext ==
    \/ \E p \in Ids : Spawn(p)
    \/ \E t, l \in Ids : Clone(t, l)
    \/ \E l \in Ids : Exit(l)
    \/ \E t \in Ids : ExitThread(t)
    \/ \E l \in Ids : Hide(l) \/ Unhide(l)
    \/ \E l \in Ids, i \in Inodes : OpenSocket(l, i)
    \/ \E l \in Ids, i \in Inodes : CloseSocket(l, i)
=============================================================================
