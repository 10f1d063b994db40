------------------------ MODULE ProcessCapture_proofs ------------------------
(***************************************************************************)
(* Proofs about ProcessCapture for every pid_max, every set of sockets,    *)
(* every choice of faults and any amount of activity on the host.          *)
(***************************************************************************)
EXTENDS ProcessCapture, Scoring_proofs, Host_proofs, FiniteSetTheorems

-----------------------------------------------------------------------------
(* What the process and socket detectors make of the snapshot *)

Listed == seen["A"] \cup seen["B"]

\* The processes the sweep found, and the process it takes a socket owner for.
Resolved == {sweptTgid[t] : t \in readable}

Fold(pid) == IF pid \in swept THEN sweptTgid[pid] ELSE pid

CaptureSignals == signals_processes(Snapshot) \cup signals_sockets(Snapshot)

\* The detectors' helpers read these from the snapshot.
LEMMA SnapshotReads ==
    ASSUME TypeOK
    PROVE  /\ ListedIds(Snapshot) = Listed
           /\ SweptTgids(Snapshot) = Resolved
           /\ \A pid : FoldOwner(Snapshot, pid) = Fold(pid)
           /\ DOMAIN Snapshot.sockets = tables
           /\ \A i \in tables : Snapshot.sockets[i] = owners[i]
<1>1. ListedIds(Snapshot) = Listed
  <2>1. DOMAIN Snapshot.passes = Passes
    BY DEF Snapshot, TypeOK
  <2> QED
    BY <2>1 DEF ListedIds, Snapshot, Listed, Passes
<1>2. SweptTgids(Snapshot) = Resolved
  <2>1. swept \cap readable = readable
    BY DEF TypeOK
  <2> QED
    BY <2>1 DEF SweptTgids, Snapshot, Resolved
<1>3. \A pid : FoldOwner(Snapshot, pid) = Fold(pid)
  BY DEF FoldOwner, Snapshot, Fold
<1> QED
  BY <1>1, <1>2, <1>3 DEF Snapshot

\* Every process that was swept, resolved and not listed has both sweep signals;
\* every unlisted owner of a socket in the tables has a socket signal ...
LEMMA SignalsRaised ==
    ASSUME TypeOK
    PROVE  /\ \A g \in Resolved \ Listed, c \in SweepChannels :
                 \E x \in CaptureSignals : x.channel = c /\ x.suspect = Process(g)
           /\ \A i \in tables : \A pid \in owners[i] : Fold(pid) \notin Listed =>
                 \E x \in CaptureSignals :
                     x.channel = "socket_visible" /\ x.suspect = Process(Fold(pid))
<1>1. ASSUME NEW g \in Resolved \ Listed, NEW c \in SweepChannels
      PROVE  \E x \in CaptureSignals : x.channel = c /\ x.suspect = Process(g)
  <2>0. /\ {"procfs.processes", "syscall_sweep.processes"} \subseteq Snapshot.present
        /\ g \in SweptTgids(Snapshot) \ ListedIds(Snapshot)
        /\ c \in {"syscall_kill", "direct_status"}
    <3>1. {"procfs.processes", "syscall_sweep.processes"} \subseteq Snapshot.present
      BY DEF Snapshot
    <3> QED
      BY <3>1, SnapshotReads DEF SweepChannels
  <2>1. Signal(c, Process(g), {FirstTask(Snapshot, g)}) \in signals_processes(Snapshot)
    BY <2>0, ProcessSignalRaised
  <2> QED
    BY <2>1 DEF CaptureSignals, Signal
<1>2. ASSUME NEW i \in tables, NEW pid \in owners[i], Fold(pid) \notin Listed
      PROVE  \E x \in CaptureSignals :
                 x.channel = "socket_visible" /\ x.suspect = Process(Fold(pid))
  <2>0. "procfs.sockets" \in Snapshot.present
    BY DEF Snapshot
  <2>a. /\ i \in DOMAIN Snapshot.sockets
        /\ pid \in {p \in Snapshot.sockets[i] : FoldOwner(Snapshot, p) \notin ListedIds(Snapshot)}
        /\ FoldOwner(Snapshot, pid) = Fold(pid)
    BY <1>2, SnapshotReads
  <2>1. Signal("socket_visible", Process(Fold(pid)), {i}) \in signals_sockets(Snapshot)
    BY <2>0, <2>a, SocketSignalRaised
  <2> QED
    BY <2>1 DEF CaptureSignals, Signal
<1> QED
  BY <1>1, <1>2

\* ... and there are no other signals.
LEMMA SignalsExplained ==
    ASSUME TypeOK, NEW x \in CaptureSignals
    PROVE  /\ x.suspect = Process(x.suspect.name)
           /\ x.suspect.name \notin Listed
           /\ \/ x.channel \in SweepChannels /\ x.suspect.name \in Resolved
              \/ /\ x.channel = "socket_visible"
                 /\ \E i \in tables : \E pid \in owners[i] : x.suspect.name = Fold(pid)
<1>1. CASE x \in signals_processes(Snapshot)
  <2>1. PICK c \in {"syscall_kill", "direct_status"},
             g \in SweptTgids(Snapshot) \ ListedIds(Snapshot) :
             x = Signal(c, Process(g), {FirstTask(Snapshot, g)})
    BY <1>1, ProcessSignalExplained
  <2>2. g \in Resolved \ Listed
    BY SnapshotReads
  <2> QED
    BY <2>1, <2>2 DEF Signal, Process, SweepChannels
<1>2. CASE x \in signals_sockets(Snapshot)
  <2>0. PICK i \in DOMAIN Snapshot.sockets : \E pid \in Snapshot.sockets[i] :
             /\ FoldOwner(Snapshot, pid) \notin ListedIds(Snapshot)
             /\ x = Signal("socket_visible", Process(FoldOwner(Snapshot, pid)), {i})
    BY <1>2, SocketSignalExplained
  <2>1. PICK pid \in Snapshot.sockets[i] :
             /\ FoldOwner(Snapshot, pid) \notin ListedIds(Snapshot)
             /\ x = Signal("socket_visible", Process(FoldOwner(Snapshot, pid)), {i})
    BY <2>0
  <2>2. /\ x = Signal("socket_visible", Process(Fold(pid)), {i})
        /\ i \in tables /\ pid \in owners[i] /\ Fold(pid) \notin Listed
    BY <2>1, SnapshotReads
  <2> QED
    BY <2>2 DEF Signal, Process
<1> QED
  BY <1>1, <1>2 DEF CaptureSignals

\* A pid is never taken for None, so no signal of this view is anonymous.
LEMMA SignalsAreNamed ==
    ASSUME TypeOK, NEW x \in CaptureSignals
    PROVE  x.suspect.name # NoName
<1>1. Ids \cup {NoTask} \subseteq Nat
  BY DEF Ids, NoTask
<1>2. Resolved \subseteq Ids \cup {NoTask}
  BY DEF TypeOK, Resolved
<1>3. \A i \in tables : \A pid \in owners[i] : Fold(pid) \in Ids \cup {NoTask}
  BY DEF TypeOK, Fold
<1> QED
  BY <1>1, <1>2, <1>3, SignalsExplained, NoNameAssumption

\* The channels that speak of process g.
ChannelsOf(g) == {x.channel : x \in {y \in CaptureSignals : y.suspect = Process(g)}}

\* The findings are one per suspected process, on the channels that speak of it.
LEMMA FindingsOfSignals ==
    ASSUME TypeOK
    PROVE  /\ \A f \in score(CaptureSignals) :
                 /\ f.suspect = Process(f.suspect.name)
                 /\ f.channels = ChannelsOf(f.suspect.name)
                 /\ f.confidence = Confidence(Cardinality(f.channels))
                 /\ \E x \in CaptureSignals : x.suspect = f.suspect
           /\ \A x \in CaptureSignals : \E f \in score(CaptureSignals) :
                 f.suspect = x.suspect
<1>1. score(CaptureSignals) =
          {Compose(u, {x \in CaptureSignals : x.suspect = u}, {}) :
              u \in {x.suspect : x \in CaptureSignals}}
  BY SignalsAreNamed, ScoreOfNamed
<1>2. ASSUME NEW f \in score(CaptureSignals)
      PROVE  /\ f.suspect = Process(f.suspect.name)
             /\ f.channels = ChannelsOf(f.suspect.name)
             /\ f.confidence = Confidence(Cardinality(f.channels))
             /\ \E x \in CaptureSignals : x.suspect = f.suspect
  <2>1. PICK x \in CaptureSignals :
             f = Compose(x.suspect, {y \in CaptureSignals : y.suspect = x.suspect}, {})
    BY <1>1
  <2>2. /\ f.suspect = x.suspect
        /\ f.channels = {z.channel : z \in {y \in CaptureSignals : y.suspect = x.suspect}}
        /\ f.confidence = Confidence(Cardinality(f.channels))
    BY <2>1 DEF Compose, Channels
  <2>3. x.suspect = Process(x.suspect.name)
    BY SignalsExplained
  <2> QED
    BY <2>2, <2>3 DEF ChannelsOf
<1>3. ASSUME NEW x \in CaptureSignals
      PROVE  \E f \in score(CaptureSignals) : f.suspect = x.suspect
  <2> DEFINE f == Compose(x.suspect, {y \in CaptureSignals : y.suspect = x.suspect}, {})
  <2>1. f \in score(CaptureSignals)
    BY <1>1
  <2>2. f.suspect = x.suspect
    BY DEF Compose
  <2> QED
    BY <2>1, <2>2
<1> QED
  BY <1>2, <1>3
-----------------------------------------------------------------------------
(* The inductive invariant *)

PassOver(p) ==
    IF p = "A" THEN phase \notin {"host", "listA", "walkA", "aborted"}
    ELSE phase \in {"tables", "fds", "analyze", "done"}

AfterTables == {"fds", "analyze", "done"}

\* The swept ids whose status has been asked for.
Visited ==
    IF phase = "status" THEN swept \ todo
    ELSE IF phase \in AfterSweep THEN swept ELSE {}

\* What the loops go over, and what they have not yet filled in.
Loops ==
    /\ phase = "status" => todo \subseteq swept
    /\ phase = "fds" => todo \subseteq PidsToWalk
    /\ phase # "aborted" => readable \subseteq Visited
    /\ phase \notin AfterTables \cup {"aborted"} => \A i \in Inodes : owners[i] = {}

\* A steady process is in the listing, so a pass that listed it has recorded it
\* or will.
SteadyRecorded ==
    \A p \in Passes :
        /\ phase = WalkPhase(p) => steady \subseteq seen[p] \cup todo
        /\ PassOver(p) /\ Enumerated(p) => steady \subseteq seen[p]

\* No pass records a concealed process, and the sweep finds every one.
ConcealedSwept ==
    /\ \A p \in Passes : /\ concealed \cap seen[p] = {}
                         /\ phase = WalkPhase(p) => concealed \cap todo = {}
    /\ phase = "kill" => concealed \subseteq swept \cup todo
    /\ phase \in AfterSweep \cup {"status"} => concealed \subseteq swept

\* The process a status named was there and is, or has ended; it is still the
\* process of that task, or the task has ended too.  A task whose status could
\* not be read stands for itself; it was not there, or the read was lost.
StatusTrue ==
    /\ \A t \in readable : /\ sweptTgid[t] \in Leaders \cup ended
                           /\ t \in ended \/ tgid[t] = sweptTgid[t]
    /\ \A t \in Visited \ readable : /\ sweptTgid[t] = t
                                     /\ "status" \notin lost => t \notin Tasks \ begun

\* On a clean host pass A records every process that did not begin after it, ...
PassAComplete ==
    CleanHost =>
        /\ phase = "walkA" => Leaders \subseteq seen["A"] \cup todo \cup begun
        /\ PassOver("A") /\ Enumerated("A") => Leaders \cup Resolved \subseteq seen["A"] \cup begun

\* ... and pass B every process the sweep found that did not end before it.
PassBComplete ==
    CleanHost =>
        /\ phase = "walkB" => Resolved \subseteq seen["B"] \cup todo \cup ended
        /\ PassOver("B") /\ Enumerated("B") => Resolved \subseteq seen["B"] \cup ended

\* A socket a concealed process keeps is in the tables, and the walk finds that
\* owner of it.
KeptIsOwned ==
    phase \in AfterTables /\ "table" \notin lost =>
        \A x \in kept :
            /\ x[2] \in tables
            /\ x[1] \in concealed /\ "fd" \notin lost =>
                   \/ phase = "fds" /\ x[1] \in todo
                   \/ x[1] \in owners[x[2]]

\* On a clean host the owner of a socket is not a process pass B missed, unless
\* an id was recycled.  If no task began, it is an id of pass A, or one whose
\* status was read or lost.
OwnersTrue ==
    phase \in AfterTables =>
        \A i \in Inodes : \A pid \in owners[i] :
            /\ CleanHost /\ Enumerated("B") /\ reused = {} => Fold(pid) \notin Resolved \ seen["B"]
            /\ begun = {} => \/ pid \in seen["A"] \ swept
                             \/ pid \in readable
                             \/ pid \in swept \ readable /\ "status" \in lost

\* What is reported is the analysis of the snapshot as it stands.
FindingsAreOfSnapshot == phase = "done" => findings = score(CaptureSignals)

IInv ==
    /\ TypeOK /\ HostInv /\ Loops
    /\ SteadyRecorded /\ ConcealedSwept /\ StatusTrue
    /\ PassAComplete /\ PassBComplete
    /\ KeptIsOwned /\ OwnersTrue
    /\ FindingsAreOfSnapshot

USE DEF Passes, Phases, AfterSweep, AfterTables

\* The first state.
LEMMA InitIInv == Init => IInv
<1> SUFFICES ASSUME Init PROVE IInv
  OBVIOUS
<1>1. HostInv
  BY HostInitInv DEF Init
<1>2. TypeOK /\ phase = "host" /\ readable = {} /\ swept = {}
  <2>1. Described = {}
    BY DEF Init, CaptureInit, Described
  <2> QED
    BY <1>1, <2>1 DEF Init, CaptureInit, TypeOK, ObservationContract, HostInv
<1>3. Loops /\ SteadyRecorded /\ ConcealedSwept
  BY <1>2 DEF Init, CaptureInit, Loops, SteadyRecorded, ConcealedSwept, PassOver, WalkPhase
<1>4. StatusTrue /\ PassAComplete /\ PassBComplete
  BY <1>2 DEF StatusTrue, Visited, PassAComplete, PassBComplete, PassOver
<1>5. KeptIsOwned /\ OwnersTrue /\ FindingsAreOfSnapshot
  BY <1>2 DEF KeptIsOwned, OwnersTrue, FindingsAreOfSnapshot
<1> QED
  BY <1>1, <1>2, <1>3, <1>4, <1>5 DEF IInv

\* A step of the host, of which only HostChange is used.
LEMMA HostStepIInv == IInv /\ HostStep => IInv'
<1> SUFFICES ASSUME IInv, HostStep PROVE IInv'
  OBVIOUS
<1>1. HostInv' /\ HostChange
  BY HostNextInv DEF IInv, HostStep
<1>2. /\ UNCHANGED captureVars
      /\ Visited' = Visited /\ Resolved' = Resolved /\ Described' = Described
  BY DEF HostStep, captureVars, Visited, Resolved, Described
<1>3. TypeOK' /\ TypeOK
  BY <1>1, <1>2 DEF IInv, HostInv, TypeOK, ObservationContract, captureVars
<1>4. /\ Leaders' \subseteq Leaders \cup begun' /\ Leaders \subseteq Leaders' \cup ended'
      /\ Tasks' \subseteq Tasks \cup begun'
  BY <1>1, NoTaskIsNoId DEF HostChange, TaskChange, Leaders, Tasks
<1>5. /\ begun \subseteq begun' /\ ended \subseteq ended' /\ reused \subseteq reused'
      /\ steady' \subseteq steady /\ concealed' \subseteq concealed /\ kept' \subseteq kept
      /\ CleanHost' => CleanHost
  BY <1>1 DEF HostChange, CleanHost
<1>6. Loops'
  BY <1>2 DEF IInv, Loops, captureVars, PidsToWalk
<1>7. SteadyRecorded'
  BY <1>2, <1>5 DEF IInv, SteadyRecorded, captureVars, PassOver, Enumerated, WalkPhase
<1>8. ConcealedSwept'
  BY <1>2, <1>5 DEF IInv, ConcealedSwept, captureVars, WalkPhase
<1>9. StatusTrue'
  <2>1. ASSUME NEW t \in readable
        PROVE  /\ sweptTgid[t] \in Leaders' \cup ended'
               /\ t \in ended' \/ tgid'[t] = sweptTgid[t]
    <3>1. t \in Ids /\ TaskChange(t) /\ ended \subseteq ended'
      BY <1>1, <1>3 DEF TypeOK, HostChange
    <3>2. sweptTgid[t] \in Leaders \cup ended /\ (t \in ended \/ tgid[t] = sweptTgid[t])
      BY DEF IInv, StatusTrue
    <3>3. sweptTgid[t] # NoTask
      BY <1>3, <3>2, NoTaskIsNoId DEF Leaders, TypeOK, HostTypeOK
    <3> QED
      BY <1>4, <3>1, <3>2, <3>3 DEF TaskChange
  <2>2. ASSUME NEW t \in Visited \ readable, "status" \notin lost
        PROVE  t \notin Tasks' \ begun'
    BY <1>4, <1>5, <2>2 DEF IInv, StatusTrue
  <2> QED
    BY <1>2, <2>1, <2>2 DEF IInv, StatusTrue, captureVars
<1>10. PassAComplete' /\ PassBComplete'
  BY <1>2, <1>4, <1>5
  DEF IInv, PassAComplete, PassBComplete, captureVars, Enumerated, PassOver
<1>11. KeptIsOwned'
  BY <1>2, <1>5 DEF IInv, KeptIsOwned, captureVars
<1>12. OwnersTrue'
  BY <1>2, <1>5 DEF IInv, OwnersTrue, captureVars, Enumerated, Fold
<1>13. FindingsAreOfSnapshot'
  BY <1>2 DEF FindingsAreOfSnapshot, HostStep, Over, captureVars
<1> QED
  BY <1>1, <1>3, <1>6, <1>7, <1>8, <1>9, <1>10, <1>11, <1>12, <1>13 DEF IInv

\* A step of the capture, one conjunct of the invariant at a time.  It gives every
\* id that answered the sweep its entity, ...
LEMMA CaptureContract ==
    ASSUME IInv, Capture, UNCHANGED hostVars
    PROVE  ObservationContract'
<1>t. TypeOK /\ ObservationContract /\ Loops
  BY DEF IInv, TypeOK
<1>g. UNCHANGED sweptTgid => Described' = Described
  BY DEF Described
<1> USE <1>t, <1>g DEF ObservationContract
<1>1. ASSUME GatherHost \/ EndKill \/ EndSweep \/ EndFds \/ ReadPidMax \/ Analyze
      PROVE  ObservationContract'
  BY <1>1 DEF GatherHost, EndKill, EndSweep, EndFds, ReadPidMax, Analyze
<1>2. ASSUME NEW p \in Passes, ListPids(p) \/ ListPidsFails(p) \/ EndWalk(p)
      PROVE  ObservationContract'
  BY <1>2 DEF ListPids, ListPidsFails, EndWalk, FinishPass, ListPhase, WalkPhase
<1>3. ASSUME NEW p \in Passes, NEW pid \in Ids, VisitPid(p, pid) PROVE ObservationContract'
  BY <1>3 DEF VisitPid, WalkPhase
<1>4. ASSUME NEW id \in Ids, Kill(id) PROVE ObservationContract'
  BY <1>4 DEF Kill
<1>5. ASSUME NEW id \in Ids, ReadStatus(id) PROVE ObservationContract'
  <2>1. /\ phase = "status" /\ id \in todo /\ todo' = todo \ {id}
        /\ readable' \subseteq readable \cup {id}
        /\ UNCHANGED <<phase, swept, tables, owners>>
    BY <1>5 DEF ReadStatus, First
  <2>2. /\ id # NoTask
        /\ id \in Tasks => tgid[id] # NoTask
    BY NoTaskIsNoId DEF Tasks
  <2>3. \E h : h # NoTask /\ sweptTgid' = [sweptTgid EXCEPT ![id] = h]
    BY <1>5, <2>2 DEF ReadStatus, read_status
  <2>4. Described' = Described \cup {id}
    BY <2>3 DEF TypeOK, Described
  <2> QED
    BY <2>1, <2>4 DEF Loops
<1>6. ASSUME ReadTables PROVE ObservationContract'
  BY <1>6 DEF ReadTables, Loops
<1>7. ASSUME NEW pid \in Ids, WalkFds(pid) PROVE ObservationContract'
  <2>1. \A i \in Inodes \ tables : owners'[i] = owners[i]
    BY <1>7 DEF WalkFds, TypeOK
  <2> QED
    BY <1>7, <2>1 DEF WalkFds
<1> QED
  BY <1>1, <1>2, <1>3, <1>4, <1>5, <1>6, <1>7 DEF Capture

\* ... keeps the records in their types, ...
LEMMA CaptureTypeOK ==
    ASSUME IInv, Capture, UNCHANGED hostVars
    PROVE  TypeOK'
<1>h. HostTypeOK' /\ Tasks \subseteq Ids /\ Readdir \subseteq Ids
  BY DEF IInv, TypeOK, HostTypeOK, hostVars, Tasks, Readdir, Leaders
<1>c. ObservationContract'
  BY CaptureContract
<1> USE <1>h, <1>c DEF TypeOK
<1>t. TypeOK
  BY DEF IInv
<1>1. ASSUME GatherHost \/ EndKill \/ EndSweep \/ EndFds \/ ReadPidMax \/ Analyze PROVE TypeOK'
  BY <1>t, <1>1 DEF GatherHost, EndKill, EndSweep, EndFds, ReadPidMax, Analyze
<1>2. ASSUME NEW p \in Passes, ListPids(p) \/ ListPidsFails(p) \/ EndWalk(p) PROVE TypeOK'
  BY <1>t, <1>2 DEF ListPids, ListPidsFails, EndWalk, FinishPass, WalkPhase
<1>3. ASSUME NEW p \in Passes, NEW pid \in Ids, VisitPid(p, pid) PROVE TypeOK'
  BY <1>t, <1>3 DEF VisitPid
<1>4. ASSUME NEW id \in Ids, Kill(id) PROVE TypeOK'
  BY <1>t, <1>4 DEF Kill
<1>5. ASSUME NEW id \in Ids, ReadStatus(id) PROVE TypeOK'
  <2>1. id \in swept /\ tgid[id] \in Ids \cup {NoTask}
    BY <1>t, <1>5 DEF ReadStatus, First, HostTypeOK, IInv, Loops
  <2>2. \E g \in Ids \cup {NoTask} : sweptTgid' = [sweptTgid EXCEPT ![id] = g]
    BY <1>5, <2>1 DEF ReadStatus, read_status
  <2>3. sweptTgid' \in [Ids -> Ids \cup {NoTask}]
    BY <1>t, <2>2
  <2>4. readable' \subseteq swept
    BY <1>t, <1>5, <2>1 DEF ReadStatus
  <2>5. lost' \subseteq lost \cup {"status"}
    BY <1>5 DEF ReadStatus, Lose
  <2>6. todo' \subseteq todo /\ UNCHANGED <<phase, seen, outcome, swept, tables, owners, findings>>
    BY <1>5 DEF ReadStatus
  <2> QED
    BY <1>t, <2>3, <2>4, <2>5, <2>6
<1>6. ASSUME ReadTables PROVE TypeOK'
  <2>1. OpenInodes \subseteq Inodes
    BY <1>t DEF OpenInodes, HostTypeOK, Leaders
  <2>2. tables' \subseteq Inodes /\ lost' \subseteq lost \cup {"table"}
    BY <1>6, <2>1 DEF ReadTables, read_net_tables, Lose
  <2> QED
    BY <1>t, <1>6, <2>2 DEF ReadTables, PidsToWalk
<1>7. ASSUME NEW pid \in Ids, WalkFds(pid) PROVE TypeOK'
  <2>1. owners' \in [Inodes -> SUBSET Ids]
    BY <1>t, <1>7 DEF WalkFds
  <2>2. lost' \subseteq lost \cup {"fd"}
    BY <1>7 DEF WalkFds, Lose
  <2>3. /\ todo' \subseteq todo
        /\ UNCHANGED <<phase, seen, outcome, swept, sweptTgid, readable, tables, findings>>
    BY <1>7 DEF WalkFds
  <2> QED
    BY <1>t, <2>1, <2>2, <2>3
<1> QED
  BY <1>1, <1>2, <1>3, <1>4, <1>5, <1>6, <1>7 DEF Capture

\* ... keeps what its loops have visited apart from what they have not, ...
LEMMA CaptureLoops ==
    ASSUME IInv, Capture, UNCHANGED hostVars
    PROVE  Loops'
<1>t. TypeOK /\ Loops
  BY DEF IInv
<1> USE <1>t DEF Loops, Visited
<1>1. ASSUME GatherHost \/ EndKill \/ EndSweep \/ EndFds \/ ReadPidMax \/ Analyze PROVE Loops'
  BY <1>1 DEF GatherHost, EndKill, EndSweep, EndFds, ReadPidMax, Analyze, PidsToWalk
<1>2. ASSUME NEW p \in Passes, ListPids(p) \/ ListPidsFails(p) \/ EndWalk(p) PROVE Loops'
  BY <1>2 DEF ListPids, ListPidsFails, EndWalk, FinishPass, ListPhase, WalkPhase
<1>3. ASSUME NEW p \in Passes, NEW pid \in Ids, VisitPid(p, pid) PROVE Loops'
  BY <1>3 DEF VisitPid, WalkPhase
<1>4. ASSUME NEW id \in Ids, Kill(id) PROVE Loops'
  BY <1>4 DEF Kill
<1>5. ASSUME NEW id \in Ids, ReadStatus(id) PROVE Loops'
  BY <1>5 DEF ReadStatus, First
<1>6. ASSUME ReadTables PROVE Loops'
  BY <1>6 DEF ReadTables, PidsToWalk
<1>7. ASSUME NEW pid \in Ids, WalkFds(pid) PROVE Loops'
  BY <1>7 DEF WalkFds, PidsToWalk
<1> QED
  BY <1>1, <1>2, <1>3, <1>4, <1>5, <1>6, <1>7 DEF Capture

\* ... records every process that was there throughout, ...
LEMMA CaptureSteadyRecorded ==
    ASSUME IInv, Capture, UNCHANGED hostVars
    PROVE  SteadyRecorded'
<1>t. /\ TypeOK /\ SteadyRecorded /\ steady' = steady
      /\ steady \subseteq Readdir /\ steady \subseteq Tasks
  BY NoTaskIsNoId DEF IInv, hostVars, HostInv, HistoryHolds, Readdir, Leaders, Tasks
<1> USE <1>t DEF SteadyRecorded, PassOver, Enumerated, WalkPhase
<1>1. ASSUME \/ GatherHost \/ EndKill \/ EndSweep \/ EndFds \/ ReadPidMax \/ Analyze
             \/ ReadTables
      PROVE  SteadyRecorded'
  BY <1>1 DEF GatherHost, EndKill, EndSweep, EndFds, ReadPidMax, Analyze, ReadTables
<1>2. ASSUME NEW p \in Passes, ListPids(p) \/ ListPidsFails(p) \/ EndWalk(p)
      PROVE  SteadyRecorded'
  BY <1>2 DEF ListPids, ListPidsFails, EndWalk, FinishPass, ListPhase, TypeOK
<1>3. ASSUME NEW p \in Passes, NEW pid \in Ids, VisitPid(p, pid) PROVE SteadyRecorded'
  <2>1. /\ seen'[p] = seen[p] \cup ({pid} \cap Tasks)
        /\ \A q \in Passes : q # p => seen'[q] = seen[q] /\ outcome'[q] = outcome[q]
    BY <1>3 DEF VisitPid, TypeOK
  <2>2. phase = WalkPhase(p) /\ phase' = phase /\ todo' = todo \ {pid}
    BY <1>3 DEF VisitPid
  <2> QED
    BY <2>1, <2>2
<1>4. ASSUME NEW id \in Ids, Kill(id) \/ ReadStatus(id) \/ WalkFds(id) PROVE SteadyRecorded'
  BY <1>4 DEF Kill, ReadStatus, WalkFds
<1> QED
  BY <1>1, <1>2, <1>3, <1>4 DEF Capture

\* ... finds every concealed one by the sweep, ...
LEMMA CaptureConcealedSwept ==
    ASSUME IInv, Capture, UNCHANGED hostVars
    PROVE  ConcealedSwept'
<1>t. /\ TypeOK /\ ConcealedSwept /\ concealed' = concealed
      /\ concealed \cap Readdir = {} /\ concealed \subseteq Tasks /\ concealed \subseteq Ids
  BY NoTaskIsNoId
  DEF IInv, hostVars, HostInv, HistoryHolds, HiddenIsThere, Readdir, Leaders, Tasks
<1> USE <1>t DEF ConcealedSwept, WalkPhase
<1>1. ASSUME \/ GatherHost \/ EndKill \/ EndSweep \/ EndFds \/ ReadPidMax \/ Analyze
             \/ ReadTables
      PROVE  ConcealedSwept'
  BY <1>1 DEF GatherHost, EndKill, EndSweep, EndFds, ReadPidMax, Analyze, ReadTables
<1>2. ASSUME NEW p \in Passes, ListPids(p) \/ ListPidsFails(p) \/ EndWalk(p)
      PROVE  ConcealedSwept'
  BY <1>2 DEF ListPids, ListPidsFails, EndWalk, FinishPass, ListPhase, TypeOK
<1>3. ASSUME NEW p \in Passes, NEW pid \in Ids, VisitPid(p, pid) PROVE ConcealedSwept'
  <2>1. /\ seen'[p] = seen[p] \cup ({pid} \cap Tasks)
        /\ \A q \in Passes : q # p => seen'[q] = seen[q]
    BY <1>3 DEF VisitPid, TypeOK
  <2>2. /\ phase = WalkPhase(p) /\ phase' = phase /\ todo' = todo \ {pid} /\ pid \in todo
        /\ swept' = swept
    BY <1>3 DEF VisitPid, First
  <2> QED
    BY <2>1, <2>2
<1>4. ASSUME NEW id \in Ids, Kill(id) \/ ReadStatus(id) \/ WalkFds(id) PROVE ConcealedSwept'
  BY <1>4 DEF Kill, ReadStatus, WalkFds
<1> QED
  BY <1>1, <1>2, <1>3, <1>4 DEF Capture

\* ... reads of a status what is true or was of a task that ended, ...
LEMMA CaptureStatusTrue ==
    ASSUME IInv, Capture, UNCHANGED hostVars
    PROVE  StatusTrue'
<1>t. /\ TypeOK /\ Loops /\ StatusTrue /\ GroupsHaveLeaders
      /\ Tasks' = Tasks /\ Leaders' = Leaders /\ UNCHANGED <<tgid, begun, ended>>
  BY HostUnchanged DEF IInv, HostInv, hostVars
<1> USE <1>t DEF StatusTrue, Visited, Loops
<1>1. ASSUME \/ GatherHost \/ EndKill \/ EndSweep \/ EndFds \/ ReadPidMax \/ Analyze
      PROVE  StatusTrue'
  BY <1>1 DEF GatherHost, EndKill, EndSweep, EndFds, ReadPidMax, Analyze
<1>2. ASSUME NEW p \in Passes, ListPids(p) \/ ListPidsFails(p) \/ EndWalk(p)
      PROVE  StatusTrue'
  BY <1>2 DEF ListPids, ListPidsFails, EndWalk, FinishPass, ListPhase, WalkPhase
<1>3. ASSUME NEW p \in Passes, NEW pid \in Ids, VisitPid(p, pid) PROVE StatusTrue'
  BY <1>3 DEF VisitPid, WalkPhase
<1>4. ASSUME NEW id \in Ids, Kill(id) PROVE StatusTrue'
  BY <1>4 DEF Kill
<1>5. ASSUME NEW id \in Ids, ReadStatus(id) PROVE StatusTrue'
  <2>1. /\ phase = "status" /\ id \in todo /\ id \notin readable /\ id \in swept
        /\ UNCHANGED <<phase, swept>> /\ todo' = todo \ {id}
    BY <1>5 DEF ReadStatus, First
  <2>2. \A t \in Ids \ {id} : sweptTgid'[t] = sweptTgid[t]
    BY <1>5 DEF ReadStatus, TypeOK
  <2>3. "status" \notin lost' => "status" \notin lost
    BY <1>5 DEF ReadStatus, Lose
  <2>4. readable \subseteq Ids /\ swept \subseteq Ids
    BY DEF TypeOK
  <2>5. CASE id \in Tasks /\ readable' = readable \cup {id} /\ sweptTgid'[id] = tgid[id]
    <3>1. tgid[id] \in Leaders
      BY <2>5 DEF GroupsHaveLeaders
    <3> QED
      BY <2>1, <2>2, <2>3, <2>4, <2>5, <3>1
  <2>6. CASE /\ readable' = readable /\ sweptTgid'[id] = id
             /\ id \notin Tasks \/ "status" \in lost'
    BY <2>1, <2>2, <2>3, <2>4, <2>6
  <2> QED
    BY <1>5, <2>5, <2>6 DEF ReadStatus, Lose, TypeOK, read_status
<1>6. ASSUME ReadTables PROVE StatusTrue'
  BY <1>6 DEF ReadTables, Lose
<1>7. ASSUME NEW pid \in Ids, WalkFds(pid) PROVE StatusTrue'
  BY <1>7 DEF WalkFds, Lose
<1> QED
  BY <1>1, <1>2, <1>3, <1>4, <1>5, <1>6, <1>7 DEF Capture

\* Reading a status adds at most one process, and one that is there, to what the
\* sweep has resolved; no other step does.
LEMMA ResolvedGrows ==
    ASSUME IInv, Capture
    PROVE  /\ phase # "status" => Resolved' = Resolved
           /\ Resolved' \subseteq Resolved \cup Leaders
<1>t. TypeOK /\ Loops /\ GroupsHaveLeaders
  BY DEF IInv, HostInv
<1>1. ASSUME NEW id \in Ids, ReadStatus(id)
      PROVE  phase = "status" /\ Resolved' \subseteq Resolved \cup Leaders
  <2>1. phase = "status" /\ id \notin readable
    BY <1>1, <1>t DEF ReadStatus, First, Loops, Visited
  <2>2. \A t \in Ids \ {id} : sweptTgid'[t] = sweptTgid[t]
    BY <1>1, <1>t DEF ReadStatus, TypeOK
  <2>3. \/ readable' = readable
        \/ readable' = readable \cup {id} /\ sweptTgid'[id] = tgid[id] /\ id \in Tasks
    BY <1>1, <1>t DEF ReadStatus, TypeOK, read_status
  <2>4. readable \subseteq Ids
    BY <1>t DEF TypeOK
  <2> QED
    BY <1>t, <2>1, <2>2, <2>3, <2>4 DEF Resolved, GroupsHaveLeaders
<1>2. ASSUME UNCHANGED <<sweptTgid, readable>>
      PROVE  Resolved' = Resolved
  BY <1>2 DEF Resolved
<1> QED
  BY <1>1, <1>2
  DEF Capture, GatherHost, ListPids, ListPidsFails, VisitPid, EndWalk, ReadPidMax, Kill, EndKill,
      EndSweep, ReadTables, WalkFds, EndFds, Analyze

\* ... leaves pass A complete but for what began since, ...
LEMMA CapturePassAComplete ==
    ASSUME IInv, Capture, UNCHANGED hostVars
    PROVE  PassAComplete'
<1>t. /\ TypeOK /\ Loops /\ PassAComplete
      /\ Tasks' = Tasks /\ Leaders' = Leaders /\ UNCHANGED <<masked, begun>>
      /\ Leaders \subseteq Tasks
      /\ CleanHost => Readdir = Leaders
      /\ CleanHost' = CleanHost
  BY HostUnchanged, NoTaskIsNoId
  DEF IInv, HostInv, HiddenIsThere, hostVars, CleanHost, Leaders, Tasks, Readdir
<1>r. /\ phase # "status" => Resolved' = Resolved
      /\ Resolved' \subseteq Resolved \cup Leaders
  BY ResolvedGrows
<1>e. phase \in {"host", "listA", "walkA"} => Resolved = {}
  BY <1>t DEF Loops, Visited, Resolved
<1> USE <1>t, <1>r DEF PassAComplete, PassOver, Enumerated
<1>1. ASSUME \/ GatherHost \/ EndKill \/ EndSweep \/ EndFds \/ ReadPidMax \/ Analyze
             \/ ReadTables
      PROVE  PassAComplete'
  BY <1>1 DEF GatherHost, EndKill, EndSweep, EndFds, ReadPidMax, Analyze, ReadTables
<1>2. ASSUME NEW p \in Passes, ListPids(p) \/ ListPidsFails(p) \/ EndWalk(p)
      PROVE  PassAComplete'
  BY <1>2, <1>e DEF ListPids, ListPidsFails, EndWalk, FinishPass, ListPhase, WalkPhase, TypeOK
<1>3. ASSUME NEW p \in Passes, NEW pid \in Ids, VisitPid(p, pid) PROVE PassAComplete'
  <2>1. /\ seen'[p] = seen[p] \cup ({pid} \cap Tasks)
        /\ \A q \in Passes : q # p => seen'[q] = seen[q] /\ outcome'[q] = outcome[q]
    BY <1>3 DEF VisitPid, TypeOK
  <2>2. phase = WalkPhase(p) /\ phase' = phase /\ todo' = todo \ {pid}
    BY <1>3 DEF VisitPid
  <2> QED
    BY <2>1, <2>2 DEF WalkPhase
<1>4. ASSUME NEW id \in Ids, Kill(id) \/ ReadStatus(id) \/ WalkFds(id) PROVE PassAComplete'
  BY <1>4 DEF Kill, ReadStatus, WalkFds
<1> QED
  BY <1>1, <1>2, <1>3, <1>4 DEF Capture

\* ... and pass B but for what ended before it, ...
LEMMA CapturePassBComplete ==
    ASSUME IInv, Capture, UNCHANGED hostVars
    PROVE  PassBComplete'
<1>t. /\ TypeOK /\ StatusTrue /\ PassBComplete
      /\ UNCHANGED <<ended>> /\ Leaders \subseteq Tasks
      /\ CleanHost => Readdir = Leaders
      /\ CleanHost' = CleanHost
  BY NoTaskIsNoId
  DEF IInv, HostInv, HiddenIsThere, hostVars, CleanHost, Leaders, Tasks, Readdir
<1>r. phase # "status" => Resolved' = Resolved
  BY ResolvedGrows
<1>s. Resolved \subseteq Leaders \cup ended
  BY <1>t DEF StatusTrue, Resolved
<1> USE <1>t, <1>r DEF PassBComplete, PassOver, Enumerated
<1>1. ASSUME \/ GatherHost \/ EndKill \/ EndSweep \/ EndFds \/ ReadPidMax \/ Analyze
             \/ ReadTables
      PROVE  PassBComplete'
  BY <1>1 DEF GatherHost, EndKill, EndSweep, EndFds, ReadPidMax, Analyze, ReadTables
<1>2. ASSUME NEW p \in Passes, ListPids(p) \/ ListPidsFails(p) \/ EndWalk(p)
      PROVE  PassBComplete'
  BY <1>2, <1>s DEF ListPids, ListPidsFails, EndWalk, FinishPass, ListPhase, WalkPhase, TypeOK
<1>3. ASSUME NEW p \in Passes, NEW pid \in Ids, VisitPid(p, pid) PROVE PassBComplete'
  <2>1. /\ seen'[p] = seen[p] \cup ({pid} \cap Tasks)
        /\ \A q \in Passes : q # p => seen'[q] = seen[q]
    BY <1>3 DEF VisitPid, TypeOK
  <2>2. phase = WalkPhase(p) /\ phase' = phase /\ todo' = todo \ {pid}
    BY <1>3 DEF VisitPid
  <2> QED
    BY <2>1, <2>2, <1>s DEF WalkPhase
<1>4. ASSUME NEW id \in Ids, Kill(id) \/ ReadStatus(id) \/ WalkFds(id) PROVE PassBComplete'
  BY <1>4 DEF Kill, ReadStatus, WalkFds
<1> QED
  BY <1>1, <1>2, <1>3, <1>4 DEF Capture

\* The steps before the tables are read lead to no phase after it.
LEMMA BeforeTables ==
    ASSUME \/ GatherHost \/ EndKill \/ EndSweep \/ ReadPidMax
           \/ \E p \in Passes : \/ ListPids(p) \/ ListPidsFails(p) \/ EndWalk(p)
                                \/ \E pid \in Ids : VisitPid(p, pid)
           \/ \E id \in Ids : Kill(id) \/ ReadStatus(id)
    PROVE  phase' \notin AfterTables
BY DEF GatherHost, EndKill, EndSweep, ReadPidMax, ListPids, ListPidsFails, EndWalk, FinishPass,
       VisitPid, Kill, ReadStatus, ListPhase, WalkPhase

\* ... finds the concealed owner of every socket that was kept, ...
LEMMA CaptureKeptIsOwned ==
    ASSUME IInv, Capture, UNCHANGED hostVars
    PROVE  KeptIsOwned'
<1>t. /\ TypeOK /\ ConcealedSwept /\ KeptIsOwned /\ UNCHANGED <<kept, concealed, tgid, holds>>
      /\ Leaders \subseteq Tasks
      /\ \A x \in kept : x[1] \in Leaders /\ x[1] \in Ids /\ x[2] \in Inodes /\ x[2] \in holds[x[1]]
  BY NoTaskIsNoId DEF IInv, hostVars, HostInv, HistoryHolds, HostTypeOK, Leaders, Tasks
<1> USE <1>t DEF KeptIsOwned
<1>1. ASSUME EndFds \/ Analyze PROVE KeptIsOwned'
  BY <1>1 DEF EndFds, Analyze
<1>2. ASSUME ReadTables PROVE KeptIsOwned'
  <2>1. \A x \in kept : x[2] \in OpenInodes
    BY DEF OpenInodes
  <2>2. /\ "table" \notin lost' => tables' = OpenInodes
        /\ phase = "tables" /\ phase' = "fds" /\ todo' = PidsToWalk
    BY <1>2 DEF ReadTables, Lose
  <2>3. concealed \subseteq PidsToWalk
    BY <2>2 DEF ConcealedSwept, PidsToWalk
  <2> QED
    BY <2>1, <2>2, <2>3
<1>3. ASSUME NEW pid \in Ids, WalkFds(pid) PROVE KeptIsOwned'
  <2>1. /\ phase = "fds" /\ UNCHANGED <<phase, tables>> /\ todo' = todo \ {pid}
        /\ lost \subseteq lost'
    BY <1>3 DEF WalkFds, Lose
  <2>2. \A i \in Inodes : owners[i] \subseteq owners'[i]
    BY <1>3 DEF WalkFds, TypeOK
  <2>3. ASSUME NEW x \in kept, x[1] = pid, "table" \notin lost', "fd" \notin lost'
        PROVE  pid \in owners'[x[2]]
    <3>1. pid \in Tasks /\ tgid[pid] = pid /\ x[2] \in tables \cap list_fds(pid)
      BY <2>1, <2>3 DEF list_fds, Leaders
    <3>2. owners' = [i \in Inodes |-> IF i \in tables \cap list_fds(pid)
                                      THEN owners[i] \cup {pid} ELSE owners[i]]
      BY <1>3, <2>3, <3>1 DEF WalkFds, Lose
    <3> QED
      BY <3>1, <3>2
  <2> QED
    BY <2>1, <2>2, <2>3
<1> QED
  BY <1>1, <1>2, <1>3, BeforeTables DEF Capture

\* ... and on a clean host names no owner the passes have missed.
LEMMA CaptureOwnersTrue ==
    ASSUME IInv, Capture, UNCHANGED hostVars
    PROVE  OwnersTrue'
<1>t. /\ TypeOK /\ Loops /\ StatusTrue /\ PassAComplete /\ PassBComplete /\ OwnersTrue
      /\ UNCHANGED <<masked, begun, reused>> /\ CleanHost' = CleanHost
      /\ Leaders \subseteq Tasks /\ Tasks \cap ended \subseteq reused /\ GroupsHaveLeaders
  BY NoTaskIsNoId
  DEF IInv, hostVars, HostInv, ReuseIsKnown, CleanHost, Leaders, Tasks
<1>1. ASSUME EndFds \/ Analyze PROVE OwnersTrue'
  <2>1. UNCHANGED <<seen, outcome, swept, sweptTgid, readable, owners, lost>>
    BY <1>1 DEF EndFds, Analyze
  <2> QED
    BY <1>t, <1>1, <2>1 DEF OwnersTrue, EndFds, Analyze, Resolved, Fold, Enumerated
<1>2. ASSUME ReadTables PROVE OwnersTrue'
  BY <1>t, <1>2 DEF OwnersTrue, ReadTables, Loops
<1>3. ASSUME NEW pid \in Ids, WalkFds(pid) PROVE OwnersTrue'
  <2>1. /\ phase = "fds" /\ pid \in todo
        /\ UNCHANGED <<phase, seen, outcome, swept, sweptTgid, readable>>
        /\ lost \subseteq lost'
    BY <1>3 DEF WalkFds, Lose
  <2>2. Resolved' = Resolved /\ \A q : Fold(q)' = Fold(q)
    BY <2>1 DEF Resolved, Fold
  <2>3. \A i \in Inodes : \A q \in owners'[i] : q \in owners[i] \/ (q = pid /\ pid \in Tasks)
    BY <1>t, <1>3 DEF WalkFds, TypeOK
  <2>4. pid \in swept => \/ pid \in readable
                         \/ pid \in Visited \ readable
    BY <2>1 DEF Visited
  <2>5. ASSUME pid \in Tasks, CleanHost, Enumerated("B"), reused = {}
        PROVE  Fold(pid) \notin Resolved \ seen["B"]
    <3>1. pid \notin ended
      BY <1>t, <2>5
    <3>2. Fold(pid) \notin ended
      <4>1. CASE pid \in readable
        <5>1. Fold(pid) = tgid[pid]
          BY <1>t, <3>1, <4>1 DEF StatusTrue, Fold, TypeOK
        <5> QED
          BY <1>t, <2>5, <5>1 DEF GroupsHaveLeaders
      <4>2. CASE pid \notin readable
        BY <1>t, <2>4, <3>1, <4>2 DEF StatusTrue, Fold
      <4> QED
        BY <4>1, <4>2
    <3>3. Resolved \subseteq seen["B"] \cup ended
      BY <1>t, <2>1, <2>5 DEF PassBComplete, PassOver
    <3> QED
      BY <3>2, <3>3
  <2>6. ASSUME pid \in Tasks, begun = {}
        PROVE  \/ pid \in seen["A"] \ swept
               \/ pid \in readable
               \/ pid \in swept \ readable /\ "status" \in lost
    <3>1. CASE pid \in swept
      BY <1>t, <2>4, <2>6, <3>1 DEF StatusTrue
    <3>2. CASE pid \notin swept
      BY <1>t, <2>1, <3>2 DEF Loops, PidsToWalk
    <3> QED
      BY <3>1, <3>2
  <2>7. ASSUME NEW i \in Inodes, NEW q \in owners'[i]
        PROVE  /\ CleanHost /\ Enumerated("B") /\ reused = {} => Fold(q) \notin Resolved \ seen["B"]
               /\ begun = {} => \/ q \in seen["A"] \ swept
                                \/ q \in readable
                                \/ q \in swept \ readable /\ "status" \in lost
    <3>1. CASE q \in owners[i]
      BY <1>t, <2>1, <3>1 DEF OwnersTrue
    <3>2. CASE q = pid /\ pid \in Tasks
      BY <2>5, <2>6, <3>2
    <3> QED
      BY <2>3, <2>7, <3>1, <3>2
  <2>8. Enumerated("B")' = Enumerated("B")
    BY <2>1 DEF Enumerated
  <2> QED
    BY <1>t, <2>1, <2>2, <2>7, <2>8 DEF OwnersTrue
<1> QED
  BY <1>1, <1>2, <1>3, BeforeTables DEF Capture, OwnersTrue

\* A step of the capture.
LEMMA CaptureStepIInv == IInv /\ CaptureStep => IInv'
<1> SUFFICES ASSUME IInv, Capture, UNCHANGED hostVars PROVE IInv'
  BY DEF CaptureStep
<1>1. HostInv'
  BY HostUnchanged DEF IInv
<1>2. FindingsAreOfSnapshot'
  <2>1. ASSUME Analyze PROVE FindingsAreOfSnapshot'
    <3>1. findings' = score(CaptureSignals)
      BY <2>1 DEF Analyze, CaptureSignals
    <3>2. Snapshot' = Snapshot
      BY <2>1 DEF Analyze, Snapshot
    <3>3. CaptureSignals' = CaptureSignals
      BY <3>2 DEF CaptureSignals
    <3> QED
      BY <3>1, <3>3 DEF FindingsAreOfSnapshot
  <2>2. ASSUME ~Analyze PROVE phase' # "done"
    BY <2>2, BeforeTables DEF Capture, ReadTables, WalkFds, EndFds
  <2> QED
    BY <2>1, <2>2 DEF FindingsAreOfSnapshot
<1> QED
  BY <1>1, <1>2, CaptureTypeOK, CaptureLoops, CaptureSteadyRecorded, CaptureConcealedSwept,
     CaptureStatusTrue, CapturePassAComplete, CapturePassBComplete, CaptureKeptIsOwned,
     CaptureOwnersTrue
  DEF IInv

\* The invariant holds in every reachable state.
THEOREM Invariance == Spec => []IInv
<1>1. IInv /\ [Next]_vars => IInv'
  <2> SUFFICES ASSUME IInv, [Next]_vars PROVE IInv'
    OBVIOUS
  <2>1. CASE UNCHANGED vars
    <3>1. UNCHANGED hostVars /\ UNCHANGED captureVars
      BY <2>1 DEF vars
    <3>2. HostInv' /\ Tasks' = Tasks /\ Leaders' = Leaders /\ Described' = Described
      BY <3>1, HostUnchanged DEF IInv, captureVars, Described
    <3>3. TypeOK' /\ Loops' /\ SteadyRecorded' /\ ConcealedSwept'
      BY <3>1, <3>2 DEF IInv, hostVars, captureVars, HostInv, TypeOK, ObservationContract, Loops, Visited,
                        PidsToWalk,
                        SteadyRecorded, ConcealedSwept, PassOver, Enumerated, WalkPhase
    <3>4. StatusTrue' /\ PassAComplete' /\ PassBComplete'
      BY <3>1, <3>2 DEF IInv, hostVars, captureVars, StatusTrue, Visited, PassAComplete,
                        PassBComplete, PassOver, Enumerated, CleanHost, Resolved
    <3>5. KeptIsOwned' /\ OwnersTrue'
      BY <3>1, <3>2 DEF IInv, hostVars, captureVars, KeptIsOwned, OwnersTrue, Enumerated,
                        CleanHost, Resolved, Fold
    <3>6. FindingsAreOfSnapshot'
      <4>1. CaptureSignals' = CaptureSignals
        BY <3>1 DEF captureVars, CaptureSignals, Snapshot
      <4> QED
        BY <3>1, <4>1 DEF IInv, captureVars, FindingsAreOfSnapshot
    <3> QED
      BY <3>2, <3>3, <3>4, <3>5, <3>6 DEF IInv
  <2> QED
    BY <2>1, CaptureStepIInv, HostStepIInv DEF Next, Terminated
<1> QED
  BY <1>1, InitIInv, PTL DEF Spec

-----------------------------------------------------------------------------
(* What is reported *)

\* Which channels speak of process g, in terms of what the passes, the sweep and
\* the socket walk recorded.
LEMMA ChannelsExplained ==
    ASSUME TypeOK, NEW g
    PROVE  /\ ChannelsOf(g) \subseteq SweepChannels \cup {"socket_visible"}
           /\ ChannelsOf(g) \cap SweepChannels # {} => g \in Resolved \ Listed
           /\ g \in Resolved \ Listed => SweepChannels \subseteq ChannelsOf(g)
           /\ "socket_visible" \in ChannelsOf(g) <=>
                 g \notin Listed /\ \E i \in tables : \E pid \in owners[i] : g = Fold(pid)
<1>1. \A x \in CaptureSignals : x.suspect = Process(g) => x.suspect.name = g
  BY DEF Process
<1>2. "socket_visible" \notin SweepChannels
  BY DEF SweepChannels
<1>3. ASSUME NEW c \in ChannelsOf(g)
      PROVE  /\ g \notin Listed
             /\ \/ c \in SweepChannels /\ g \in Resolved
                \/ /\ c = "socket_visible"
                   /\ \E i \in tables : \E pid \in owners[i] : g = Fold(pid)
  <2>1. PICK x \in CaptureSignals : x.suspect = Process(g) /\ x.channel = c
    BY DEF ChannelsOf
  <2> QED
    BY <1>1, <2>1, SignalsExplained
<1>4. \A x \in CaptureSignals : x.suspect = Process(g) => x.channel \in ChannelsOf(g)
  BY DEF ChannelsOf
<1> QED
  BY <1>2, <1>3, <1>4, SignalsRaised

\* Confidence is HIGH exactly when the three process channels agree.
LEMMA HighIsThree ==
    ASSUME TypeOK, NEW f \in score(CaptureSignals)
    PROVE  f.confidence = "HIGH" <=> SweepChannels \cup {"socket_visible"} \subseteq f.channels
<1>0. f.channels = ChannelsOf(f.suspect.name) /\ f.confidence = Confidence(Cardinality(f.channels))
  BY FindingsOfSignals
<1>1. f.channels # {}
  <2>1. PICK x \in CaptureSignals : x.suspect = Process(f.suspect.name)
    BY FindingsOfSignals
  <2> QED
    BY <1>0, <2>1 DEF ChannelsOf
<1>2. /\ f.channels \subseteq {"syscall_kill", "direct_status", "socket_visible"}
      /\ f.channels \cap SweepChannels # {} => SweepChannels \subseteq f.channels
  BY <1>0, ChannelsExplained DEF SweepChannels
<1>3. \/ f.channels = {"socket_visible"}
      \/ f.channels = {"syscall_kill", "direct_status"}
      \/ f.channels = {"syscall_kill", "direct_status", "socket_visible"}
  BY <1>1, <1>2 DEF SweepChannels
<1>4. /\ Cardinality({"socket_visible"}) = 1
      /\ Cardinality({"syscall_kill", "direct_status"}) = 2
      /\ Cardinality({"syscall_kill", "direct_status", "socket_visible"}) = 3
  <2>1. \A S, x : IsFiniteSet(S) /\ x \notin S =>
            IsFiniteSet(S \cup {x}) /\ Cardinality(S \cup {x}) = Cardinality(S) + 1
    BY FS_AddElement
  <2>2. /\ IsFiniteSet({"syscall_kill"}) /\ Cardinality({"syscall_kill"}) = 1
        /\ Cardinality({"socket_visible"}) = 1
    BY FS_Singleton
  <2>3. /\ {"syscall_kill", "direct_status"} = {"syscall_kill"} \cup {"direct_status"}
        /\ {"syscall_kill", "direct_status", "socket_visible"} =
               {"syscall_kill", "direct_status"} \cup {"socket_visible"}
    OBVIOUS
  <2>4. /\ IsFiniteSet({"syscall_kill", "direct_status"})
        /\ Cardinality({"syscall_kill", "direct_status"}) = 2
    BY <2>1, <2>2, <2>3
  <2> QED
    BY <2>1, <2>2, <2>3, <2>4
<1> QED
  BY <1>0, <1>3, <1>4 DEF Confidence, SweepChannels

\* A suspect of a finding that has a sweep channel was resolved and not listed.
LEMMA ReportedIsResolved ==
    ASSUME IInv, phase = "done", NEW g \in ReportedOn(SweepChannels)
    PROVE  g \in Resolved \ Listed
<1>1. PICK f \in score(CaptureSignals) : SweepChannels \subseteq f.channels /\ g = f.suspect.name
  BY DEF ReportedOn, IInv, FindingsAreOfSnapshot
<1>2. TypeOK /\ SweepChannels # {}
  BY DEF IInv, SweepChannels
<1> QED
  BY <1>1, <1>2, FindingsOfSignals, ChannelsExplained

\* A process that was resolved and not listed has its finding.
LEMMA ResolvedIsReported ==
    ASSUME IInv, phase = "done", NEW g \in Resolved \ Listed
    PROVE  \E f \in findings : /\ f.suspect = Process(g) /\ f.channels = ChannelsOf(g)
                               /\ SweepChannels \subseteq f.channels
<1>1. TypeOK /\ findings = score(CaptureSignals) /\ "syscall_kill" \in SweepChannels
  BY DEF IInv, FindingsAreOfSnapshot, SweepChannels
<1>2. PICK x \in CaptureSignals : x.suspect = Process(g)
  BY <1>1, SignalsRaised
<1>3. PICK f \in findings : f.suspect = Process(g)
  BY <1>1, <1>2, FindingsOfSignals
<1>4. f.suspect.name = g
  BY <1>3 DEF Process
<1> QED
  BY <1>1, <1>3, <1>4, FindingsOfSignals, ChannelsExplained

-----------------------------------------------------------------------------
\* The observations the collectors build are well formed, whatever fails: an entity
\* of the sweep is an id that answered, every id that answered is described when
\* the sweep is over, readable or not, and only recorded sockets have owners.
THEOREM TypeCorrect == Spec => []TypeOK
BY Invariance, PTL DEF IInv

\* A process that stays in the /proc listing all through a capture is never
\* reported as hidden (signals_processes, signals_sockets and score), for every
\* pid_max, every set of read failures and every activity of the host, as long as
\* one pass could enumerate.
THEOREM SteadyNeverReported == Spec => []SteadyIsNotReported
<1>1. IInv => SteadyIsNotReported
  <2> SUFFICES ASSUME IInv, phase = "done", NEW p \in Passes, Enumerated(p), NEW f \in findings
               PROVE  f.suspect.name \notin steady
    BY DEF SteadyIsNotReported, Reported, ReportedOn
  <2>1. TypeOK /\ findings = score(CaptureSignals)
    BY DEF IInv, FindingsAreOfSnapshot
  <2>2. f.suspect.name \notin Listed
    BY <2>1, FindingsOfSignals, SignalsExplained
  <2>3. steady \subseteq Listed
    BY DEF IInv, SteadyRecorded, PassOver, Listed
  <2> QED
    BY <2>2, <2>3
<1> QED
  BY <1>1, Invariance, PTL

\* On a host that hides nothing, a process the sweep channels report began after
\* pass A listed /proc and ended before pass B read it: the sandwich of the two
\* passes around the sweep leaves no other timing race, however many tasks come
\* and go and whichever status reads fail.
THEOREM CleanReportsAreShortLived == Spec => []CleanReportIsShortLived
<1>1. IInv => CleanReportIsShortLived
  <2> SUFFICES ASSUME IInv, phase = "done", CleanHost, Enumerated("A"), Enumerated("B"),
                      NEW g \in ReportedOn(SweepChannels)
               PROVE  g \in begun \cap ended
    BY DEF CleanReportIsShortLived
  <2>1. g \in Resolved \ Listed
    BY ReportedIsResolved
  <2>2. Resolved \subseteq seen["A"] \cup begun
    BY DEF IInv, PassAComplete, PassOver
  <2>3. Resolved \subseteq seen["B"] \cup ended
    BY DEF IInv, PassBComplete, PassOver
  <2> QED
    BY <2>1, <2>2, <2>3 DEF Listed
<1> QED
  BY <1>1, Invariance, PTL

\* A process hidden all through the capture is reported on both sweep channels
\* unless its own status could not be read: neither the passes nor the order of
\* the reads nor what other tasks do can save it from the sweep.
THEOREM ConcealedReported == Spec => []ConcealedIsReported
<1>1. IInv => ConcealedIsReported
  <2> SUFFICES ASSUME IInv, phase = "done", NEW c \in concealed, c \in swept => c \in readable
               PROVE  c \in ReportedOn(SweepChannels)
    BY DEF ConcealedIsReported
  <2>1. c \in readable /\ c \notin Listed
    BY DEF IInv, ConcealedSwept, Listed
  <2>2. tgid[c] = c /\ c \notin ended
    BY DEF IInv, HostInv, HistoryHolds, HiddenIsThere, Leaders
  <2>3. c \in Resolved
    BY <2>1, <2>2 DEF IInv, StatusTrue, Resolved
  <2>4. PICK f \in findings : f.suspect = Process(c) /\ SweepChannels \subseteq f.channels
    BY <2>1, <2>3, ResolvedIsReported
  <2> QED
    BY <2>4 DEF ReportedOn, Process
<1> QED
  BY <1>1, Invariance, PTL

\* A process hidden all through the capture that holds a socket all that time is
\* reported with HIGH confidence when no read is lost: the tables, the fd walk
\* and the fold of the owner by the sweep agree on it.
THEOREM ConcealedSocketOwnerHigh == Spec => []ConcealedSocketOwnerIsHigh
<1>1. IInv => ConcealedSocketOwnerIsHigh
  <2> SUFFICES ASSUME IInv, phase = "done", lost = {}, NEW x \in kept, x[1] \in concealed
               PROVE  \E f \in findings : f.suspect = Process(x[1]) /\ f.confidence = "HIGH"
    BY DEF ConcealedSocketOwnerIsHigh
  <2> DEFINE c == x[1]
  <2>0. TypeOK /\ findings = score(CaptureSignals)
    BY DEF IInv, FindingsAreOfSnapshot
  <2>1. c \in swept /\ c \notin Listed
    BY DEF IInv, ConcealedSwept, Listed
  <2>2. tgid[c] = c /\ c \notin ended /\ c \notin begun /\ c \in Tasks
    BY NoTaskIsNoId DEF IInv, HostInv, HistoryHolds, HiddenIsThere, Leaders, Tasks
  <2>3. c \in readable
    BY <2>1, <2>2 DEF IInv, StatusTrue, Visited
  <2>4. sweptTgid[c] = c
    BY <2>2, <2>3 DEF IInv, StatusTrue
  <2>5. c \in Resolved \ Listed /\ Fold(c) = c
    BY <2>1, <2>3, <2>4 DEF Resolved, Fold
  <2>6. x[2] \in tables /\ c \in owners[x[2]]
    BY DEF IInv, KeptIsOwned
  <2>7. "socket_visible" \in ChannelsOf(c)
    BY <2>0, <2>5, <2>6, ChannelsExplained
  <2>8. PICK f \in findings : /\ f.suspect = Process(c) /\ f.channels = ChannelsOf(c)
                              /\ SweepChannels \subseteq f.channels
    BY <2>5, ResolvedIsReported
  <2> QED
    BY <2>0, <2>7, <2>8, HighIsThree
<1> QED
  BY <1>1, Invariance, PTL

\* On a host that hides nothing the three process channels agree only if an id
\* was recycled during the capture, or pass B did not enumerate: HIGH is out of
\* reach of every other race between the passes, the sweep and the socket walk.
THEOREM CleanHighIsReuse == Spec => []CleanHighNeedsReuse
<1>1. IInv => CleanHighNeedsReuse
  <2> SUFFICES ASSUME IInv, phase = "done", CleanHost, Enumerated("B"), NEW f \in findings,
                      f.confidence = "HIGH", reused = {}
               PROVE  FALSE
    BY DEF CleanHighNeedsReuse
  <2> DEFINE g == f.suspect.name
  <2>0. TypeOK /\ f \in score(CaptureSignals)
    BY DEF IInv, FindingsAreOfSnapshot
  <2>1. SweepChannels \cup {"socket_visible"} \subseteq ChannelsOf(g) /\ SweepChannels # {}
    BY <2>0, HighIsThree, FindingsOfSignals DEF SweepChannels
  <2>2. g \in Resolved \ Listed /\ \E i \in tables : \E pid \in owners[i] : g = Fold(pid)
    BY <2>0, <2>1, ChannelsExplained
  <2> QED
    BY <2>0, <2>2 DEF IInv, OwnersTrue, Listed, TypeOK
<1> QED
  BY <1>1, Invariance, PTL

\* On a host that hides nothing and where no task begins during the capture, a
\* finding needs a failed pass A and a process that ended before pass B, or the
\* lost status of a thread that holds a socket, which signals_sockets then folds
\* to the thread itself: exits, threads and other unreadable files never make one.
THEOREM QuietFindingsNeedLoss == Spec => []QuietFindingNeedsLoss
<1>1. IInv => QuietFindingNeedsLoss
  <2> SUFFICES ASSUME IInv, phase = "done", CleanHost, begun = {},
                      NEW q \in Passes, Enumerated(q), NEW f \in findings
               PROVE  \/ ~Enumerated("A") /\ f.suspect.name \in ended
                      \/ /\ "status" \in lost
                         /\ f.suspect.name \in swept \ readable
                         /\ f.channels = {"socket_visible"}
    BY DEF QuietFindingNeedsLoss
  <2> DEFINE g == f.suspect.name
  <2>0. TypeOK /\ f \in score(CaptureSignals)
    BY DEF IInv, FindingsAreOfSnapshot
  <2>1. /\ f.channels = ChannelsOf(g)
        /\ \E x \in CaptureSignals : x.suspect = Process(g)
    BY <2>0, FindingsOfSignals
  <2>2. f.channels # {}
    BY <2>1 DEF ChannelsOf
  <2>3. CASE g \in Resolved \ Listed
    <3>1. Enumerated("A") => Resolved \subseteq seen["A"]
      BY DEF IInv, PassAComplete, PassOver
    <3>2. Enumerated("B") => Resolved \subseteq seen["B"] \cup ended
      BY DEF IInv, PassBComplete, PassOver
    <3> QED
      BY <2>3, <3>1, <3>2 DEF Listed
  <2>4. CASE g \notin Resolved \ Listed
    <3>1. f.channels = {"socket_visible"}
      BY <2>0, <2>1, <2>2, <2>4, ChannelsExplained
    <3>a. "socket_visible" \in ChannelsOf(g)
      BY <2>1, <3>1
    <3>2. g \notin Listed /\ \E i \in tables : \E pid \in owners[i] : g = Fold(pid)
      BY <2>0, <3>a, ChannelsExplained
    <3>3. PICK i \in tables : \E pid \in owners[i] : g = Fold(pid)
      BY <3>2
    <3>4. PICK pid \in owners[i] : g = Fold(pid)
      BY <3>3
    <3>5. pid \notin readable
      BY <2>0, <2>4, <3>2, <3>4 DEF Fold, Resolved, TypeOK
    <3>6. pid \in swept \/ pid \notin seen["A"]
      BY <3>2, <3>4 DEF Fold, Listed
    <3>7. pid \in swept \ readable /\ "status" \in lost
      BY <2>0, <3>5, <3>6 DEF IInv, OwnersTrue, TypeOK
    <3>8. Fold(pid) = pid
      BY <3>7 DEF IInv, StatusTrue, Visited, Fold
    <3> QED
      BY <3>1, <3>4, <3>7, <3>8
  <2> QED
    BY <2>3, <2>4
<1> QED
  BY <1>1, Invariance, PTL
=============================================================================
