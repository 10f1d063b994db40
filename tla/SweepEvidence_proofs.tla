------------------------- MODULE SweepEvidence_proofs -------------------------
(***************************************************************************)
(* What the evidence files of step0_phase2.py say is true, for every       *)
(* pid_max, any number of processes that start, exit, clone and hide while *)
(* the tool runs, and whatever reads fail.                                 *)
(***************************************************************************)
EXTENDS SweepEvidence, Host_proofs

(* Where each loop stands in its file *)

Sandwich == file \in {"02", "03"}
ListAt == IF Sandwich THEN 3 ELSE 1
TasksAt == IF file = "01" THEN 2 ELSE 4
ResolveAt == CASE file = "01" -> 3 [] file = "02" -> 5 [] file = "03" -> 4 [] OTHER -> 3

\* The n-th step's loop is past t; the sweep is, or the kill of file 04 with its
\* answer known.
Past(n, t) == step > n \/ (step = n /\ t \notin todo)
Swept(t) == Past(2, t) /\ (Sandwich \/ (file = "04" /\ t = target /\ ~lost))

-----------------------------------------------------------------------------
(* The inductive invariant, in parts *)

RecordsTypeOK ==
    /\ file \in {"01", "02", "03", "04"}
    /\ target \in Ids
    /\ step \in Nat
    /\ before \subseteq Ids /\ alive \subseteq Ids /\ after \subseteq Ids
    /\ {tasks, resolved, leaders} \subseteq [Ids -> Ids \cup {NoTask}]
    /\ lost \in BOOLEAN

ToolTypeOK == RecordsTypeOK /\ todo \subseteq Ids

\* Nothing is known of a task before the loop that reads it.
Fresh ==
    step # 0 =>
        /\ step <= ListAt => Known = {}
        /\ step < ResolveAt => Resolvable = {}
        /\ step < 5 => \A t \in Ids : leaders[t] = NoTask

\* A loop has only ids left that it is to visit.
LoopsTrue ==
    /\ At("tasks") => todo \subseteq after
    /\ At("resolve") => todo \subseteq Candidates

\* The first walk shows what was listed then, and nothing hidden all the time.
BeforeTrue ==
    /\ before \subseteq (Leaders \cup ended) \ concealed
    /\ Sandwich /\ step > 1 => Leaders \ before \subseteq begun \cup masked

\* What answered was there; what did not was gone, or had yet to begin.
SweepTrue ==
    /\ alive \subseteq Tasks \cup ended
    /\ \A t \in Ids \ alive : Swept(t) => (t \in Tasks => t \in begun)
                                          /\ (t \in before => t \in ended)

\* The second walk, seen from the first and from the sweep.
AfterTrue ==
    /\ after \cap concealed = {}
    /\ Sandwich /\ step > 3 =>
          /\ after \ before \subseteq begun \cup masked
          /\ before \ after \subseteq ended \cup masked
          /\ after \ alive \subseteq begun
          /\ \A t \in alive : t \in ended \/ tgid[t] \in after \cup masked

\* A task is of the listed process it was found under until its id is released.
TasksTrue ==
    \A t \in Known : tasks[t] \in after /\ (t \in ended \/ tgid[t] = tasks[t])

\* What proc_tgid gave is right unless the id was released, and is there for
\* everything hidden all the time unless a read failed.
ResolvedTrue ==
    /\ Resolvable \subseteq Tasks \cup ended
    /\ \A t \in Resolvable :
          /\ Sandwich /\ t \in alive => t \in reused \/ resolved[t] \in after \cup masked
          /\ file = "01" => t \in reused \/ (t \in Known /\ resolved[t] = tasks[t])
    /\ ~lost /\ step # 0 =>
          \A p \in concealed \cap Candidates : Past(ResolveAt, p) => resolved[p] = p

\* The same for the second proc_tgid of file 03.
LeadersTrue ==
    /\ Sandwich => \A t \in alive :
          leaders[t] # NoTask => t \in reused \/ leaders[t] \in after \cup masked
    /\ ~lost /\ file = "03" /\ step # 0 =>
          \A p \in concealed \cap Resolvable : Past(5, p) => leaders[p] = p

IInv ==
    /\ ToolTypeOK /\ HostInv /\ Fresh /\ LoopsTrue /\ BeforeTrue /\ SweepTrue
    /\ AfterTrue /\ TasksTrue /\ ResolvedTrue /\ LeadersTrue

-----------------------------------------------------------------------------
(* Lemmas *)

\* The step of each file at which each loop runs, and what it goes over.
PositionsHold ==
    /\ At("before") <=> Sandwich /\ step = 1
    /\ At("kill") <=> file # "01" /\ step = 2
    /\ At("list") <=> step = ListAt
    /\ At("tasks") <=> file \in {"01", "02"} /\ step = TasksAt
    /\ At("resolve") <=> step = ResolveAt
    /\ At("again") <=> file = "03" /\ step = 5
    /\ At("stat") <=> file = "04" /\ step = 4
    /\ Done <=> step > IF file = "01" THEN 3 ELSE IF file = "04" THEN 4 ELSE 5

WorkHolds ==
    /\ At("kill") => Work = IF file = "04" THEN {target} ELSE Ids
    /\ At("tasks") => Work = after
    /\ At("resolve") => Work = Candidates
    /\ At("again") => Work = Resolvable
    /\ Work \subseteq Ids

\* Steps gives the positions.
LEMMA Positions == RecordsTypeOK => PositionsHold
<1> SUFFICES ASSUME RecordsTypeOK PROVE PositionsHold
  OBVIOUS
<1> USE DEF RecordsTypeOK, At, Aborted, Done, Sandwich, ListAt, TasksAt, ResolveAt, PositionsHold
<1>1. CASE file = "01"
  <2>1. Steps[file] = <<"list", "tasks", "resolve">>
    BY <1>1 DEF Steps
  <2> QED
    BY <1>1, <2>1
<1>2. CASE file = "02"
  <2>1. Steps[file] = <<"before", "kill", "list", "tasks", "resolve">>
    BY <1>2 DEF Steps
  <2> QED
    BY <1>2, <2>1
<1>3. CASE file = "03"
  <2>1. Steps[file] = <<"before", "kill", "list", "resolve", "again">>
    BY <1>3 DEF Steps
  <2> QED
    BY <1>3, <2>1
<1>4. CASE file = "04"
  <2>1. Steps[file] = <<"list", "kill", "resolve", "stat">>
    BY <1>4 DEF Steps
  <2> QED
    BY <1>4, <2>1
<1> QED
  BY <1>1, <1>2, <1>3, <1>4

\* Work gives each loop its ids.
LEMMA WorkOf == RecordsTypeOK => WorkHolds
<1> SUFFICES ASSUME RecordsTypeOK PROVE WorkHolds
  OBVIOUS
<1>1. Candidates \subseteq Ids /\ Resolvable \subseteq Ids
  BY DEF Candidates, Known, Resolvable, RecordsTypeOK
<1> QED
  BY <1>1 DEF Work, At, RecordsTypeOK, WorkHolds

\* Both hold after a step too.
LEMMA PositionsNext == RecordsTypeOK' => PositionsHold' /\ WorkHolds'
BY Positions, WorkOf, PTL

-----------------------------------------------------------------------------
(* The invariant holds at the start *)

\* The host and the tool start with nothing recorded.
LEMMA InitInv == Init => IInv
<1> SUFFICES ASSUME Init PROVE IInv
  OBVIOUS
<1> USE NoTaskIsNoId
<1>1. HostInv
  BY HostInitInv DEF Init
<1>2. file \in {"01", "02", "03", "04"}
  BY DEF Init, Steps
<1>3. ToolTypeOK
  <2>1. target \in Ids
    BY HostAssumption DEF Init, Ids
  <2> QED
    BY <1>2, <2>1 DEF Init, ToolTypeOK, RecordsTypeOK
<1>4. Known = {} /\ Resolvable = {}
  BY DEF Init, Known, Resolvable
<1>5. ~At("tasks") /\ ~At("resolve")
  BY <1>2, <1>3, Positions DEF Init, PositionsHold, ToolTypeOK, TasksAt, ResolveAt
<1>6. Fresh /\ LoopsTrue /\ TasksTrue
  BY <1>4, <1>5 DEF Init, Fresh, LoopsTrue, TasksTrue
<1>7. BeforeTrue /\ SweepTrue /\ AfterTrue
  BY DEF Init, BeforeTrue, SweepTrue, AfterTrue, Swept, Past
<1>8. ResolvedTrue
  BY <1>2, <1>4 DEF Init, ResolvedTrue, Past, ResolveAt
<1>9. LeadersTrue
  BY DEF Init, LeadersTrue, Past
<1> QED
  BY <1>1, <1>3, <1>6, <1>7, <1>8, <1>9 DEF IInv

-----------------------------------------------------------------------------
(* Every step keeps it *)

\* The host goes on: what the files say is about its history, not its state.
LEMMA HostStepInv ==
    ASSUME IInv, HostNext, UNCHANGED toolVars
    PROVE  IInv'
<1> USE NoTaskIsNoId
<1>0. HostInv /\ ToolTypeOK
  BY DEF IInv
<1>1. HostInv' /\ HostChange
  BY <1>0, HostNextInv
<1>2. /\ file' = file /\ target' = target /\ step' = step /\ todo' = todo
      /\ before' = before /\ alive' = alive /\ after' = after /\ tasks' = tasks
      /\ resolved' = resolved /\ leaders' = leaders /\ lost' = lost
  BY DEF toolVars
<1>3. /\ Known' = Known /\ Resolvable' = Resolvable /\ Candidates' = Candidates
      /\ Sandwich' = Sandwich /\ ListAt' = ListAt /\ ResolveAt' = ResolveAt
      /\ At("tasks")' = At("tasks") /\ At("resolve")' = At("resolve")
      /\ \A n, t : Past(n, t)' = Past(n, t)
      /\ \A t : Swept(t)' = Swept(t)
  BY <1>2 DEF Known, Resolvable, Candidates, Sandwich, ListAt, ResolveAt, At, Aborted, Done, Past, Swept
<1>4. \A t \in Ids :
         /\ t \in Tasks => t \in Tasks' \cup ended'
         /\ t \in Leaders => t \in Leaders' \cup ended'
         /\ t \in Tasks' => t \in Tasks \cup begun'
         /\ t \in Leaders' => t \in Leaders \cup begun'
         /\ t \in Tasks /\ t \notin ended' => tgid'[t] = tgid[t]
  BY <1>0, <1>1 DEF HostChange, TaskChange, Tasks, Leaders, HostInv, HostTypeOK
<1>5. /\ begun \subseteq begun' /\ ended \subseteq ended' /\ reused \subseteq reused'
      /\ masked \subseteq masked'
      /\ concealed' \subseteq concealed
  BY <1>1 DEF HostChange
<1>6. Leaders' \subseteq Ids /\ Tasks' \subseteq Ids /\ Tasks \subseteq Ids
  BY DEF Leaders, Tasks
<1>7. before \subseteq Ids /\ alive \subseteq Ids /\ after \subseteq Ids
  BY <1>0 DEF ToolTypeOK, RecordsTypeOK
<1>8. ToolTypeOK'
  BY <1>0, <1>2 DEF ToolTypeOK, RecordsTypeOK
<1>9. Fresh' /\ LoopsTrue'
  BY <1>2, <1>3 DEF IInv, Fresh, LoopsTrue
<1>10. BeforeTrue'
  BY <1>2, <1>3, <1>4, <1>5, <1>6, <1>7 DEF IInv, BeforeTrue
<1>11. SweepTrue'
  BY <1>2, <1>3, <1>4, <1>5, <1>7 DEF IInv, SweepTrue
<1>12. AfterTrue'
  <2>1. alive \subseteq Tasks \cup ended
    BY DEF IInv, SweepTrue
  <2> QED
    BY <2>1, <1>2, <1>3, <1>4, <1>5, <1>7 DEF IInv, AfterTrue
<1>13. TasksTrue'
  <2>1. ASSUME NEW t \in Known, t \notin ended' PROVE tgid'[t] = tasks[t]
    BY <2>1, <1>4, <1>5 DEF IInv, TasksTrue, Known, Tasks
  <2> QED
    BY <2>1, <1>2, <1>3 DEF IInv, TasksTrue
<1>14. ResolvedTrue'
  <2>1. Resolvable \subseteq Ids
    BY DEF Resolvable
  <2> QED
    BY <2>1, <1>2, <1>3, <1>4, <1>5 DEF IInv, ResolvedTrue
<1>15. LeadersTrue'
  BY <1>2, <1>3, <1>5 DEF IInv, LeadersTrue
<1> QED
  BY <1>1, <1>8, <1>9, <1>10, <1>11, <1>12, <1>13, <1>14, <1>15 DEF IInv

\* Where the steps of a file are, as numbers.
LEMMA Numbers ==
    ASSUME ToolTypeOK
    PROVE  /\ step \in Nat /\ ListAt \in {1, 3} /\ ResolveAt \in {3, 4, 5}
           /\ Sandwich => file # "01" /\ file # "04" /\ ListAt = 3 /\ ResolveAt > 3
           /\ ~Sandwich => ListAt = 1 /\ ResolveAt = 3 /\ file # "03"
           /\ file = "03" => Sandwich /\ ResolveAt = 4
           /\ file \in {"01", "02"} => TasksAt = ListAt + 1 /\ ResolveAt = TasksAt + 1
BY DEF ToolTypeOK, RecordsTypeOK, ListAt, ResolveAt, TasksAt, Sandwich

\* What a step of the tool leaves alone.
LEMMA ToolFrame ==
    ASSUME UNCHANGED <<file, hostVars>>
    PROVE  /\ HostInv' = HostInv /\ UNCHANGED <<Sandwich, ListAt, ResolveAt, TasksAt>>
           /\ UNCHANGED <<tgid, hidden, begun, ended, reused, masked, steady, concealed>>
           /\ Tasks' = Tasks /\ Leaders' = Leaders
BY HostUnchanged DEF hostVars, Sandwich, ListAt, ResolveAt, TasksAt, HostInv, HostTypeOK,
       GroupsHaveLeaders, HiddenIsThere, HistoryHolds, ReuseIsKnown, Readdir, Tasks, Leaders

\* A loop that has visited its last id hands over to the next.
LEMMA EndLoopInv ==
    ASSUME IInv, EndLoop, UNCHANGED hostVars
    PROVE  IInv'
<1>0. ToolTypeOK /\ PositionsHold /\ todo = {}
  BY Positions DEF IInv, EndLoop, ToolTypeOK
<1>1. /\ UNCHANGED <<file, target, before, alive, after, tasks, resolved, leaders, lost>>
      /\ step' = step + 1 /\ todo' = Work'
  BY DEF EndLoop, Advance
<1>2. /\ HostInv' = HostInv /\ UNCHANGED <<Sandwich, ListAt, ResolveAt, TasksAt>>
      /\ UNCHANGED <<tgid, hidden, begun, ended, reused, masked, steady, concealed>>
      /\ Tasks' = Tasks /\ Leaders' = Leaders
  BY <1>1, ToolFrame
<1>3. Known' = Known /\ Resolvable' = Resolvable /\ Candidates' = Candidates
  BY <1>1 DEF Known, Resolvable, Candidates
<1>4. RecordsTypeOK'
  BY <1>0, <1>1 DEF ToolTypeOK, RecordsTypeOK
<1>5. PositionsHold' /\ WorkHolds'
  BY <1>4, PositionsNext
<1>6. ToolTypeOK'
  BY <1>1, <1>4, <1>5 DEF ToolTypeOK, WorkHolds
<1>7. /\ step \in Nat /\ step >= 2 /\ (Sandwich => step # 3)
      /\ ListAt \in {1, 3} /\ ResolveAt \in {3, 4, 5} /\ (Sandwich => ResolveAt > 3)
  BY <1>0, Numbers DEF EndLoop, PositionsHold
<1>8. Fresh'
  BY <1>1, <1>2, <1>3, <1>7 DEF IInv, Fresh
<1>9. LoopsTrue'
  BY <1>1, <1>5 DEF LoopsTrue, WorkHolds
<1>10. BeforeTrue'
  BY <1>1, <1>2, <1>7 DEF IInv, BeforeTrue
<1>11. SweepTrue'
  <2>1. \A t : Swept(t)' => Swept(t)
    BY <1>0, <1>1, <1>2, <1>7 DEF Swept, Past
  <2> QED
    BY <2>1, <1>1, <1>2 DEF IInv, SweepTrue
<1>12. AfterTrue'
  BY <1>1, <1>2, <1>7 DEF IInv, AfterTrue
<1>13. TasksTrue'
  BY <1>1, <1>2, <1>3 DEF IInv, TasksTrue
<1>14. ResolvedTrue'
  <2>1. ASSUME NEW p \in Candidates, Past(ResolveAt, p)' PROVE Past(ResolveAt, p)
    BY <2>1, <1>0, <1>1, <1>2, <1>3, <1>5, <1>7 DEF Past, PositionsHold, WorkHolds
  <2> QED
    BY <2>1, <1>1, <1>2, <1>3, <1>7 DEF IInv, ResolvedTrue
<1>15. LeadersTrue'
  <2>1. ASSUME file = "03", NEW p \in Resolvable, Past(5, p)' PROVE Past(5, p)
    BY <2>1, <1>0, <1>1, <1>2, <1>3, <1>5, <1>7 DEF Past, PositionsHold, WorkHolds
  <2> QED
    BY <2>1, <1>1, <1>2, <1>3, <1>7 DEF IInv, LeadersTrue
<1> QED
  BY <1>2, <1>6, <1>8, <1>9, <1>10, <1>11, <1>12, <1>13, <1>14, <1>15 DEF IInv

\* The walk before the sweep.
LEMMA ListBeforeInv ==
    ASSUME IInv, ListBefore, UNCHANGED hostVars
    PROVE  IInv'
<1>0. ToolTypeOK /\ PositionsHold /\ HostInv
  BY Positions DEF IInv, ToolTypeOK
<1>1. /\ UNCHANGED <<file, target, alive, after, tasks, resolved, leaders, lost>>
      /\ step' = step + 1 /\ todo' = Work' /\ before' = Leaders \ hidden
  BY DEF ListBefore, Advance, Readdir
<1>2. /\ HostInv' = HostInv /\ UNCHANGED <<Sandwich, ListAt, ResolveAt, TasksAt>>
      /\ UNCHANGED <<tgid, hidden, begun, ended, reused, masked, steady, concealed>>
      /\ Tasks' = Tasks /\ Leaders' = Leaders
  BY <1>1, ToolFrame
<1>3. Known' = Known /\ Resolvable' = Resolvable
  BY <1>1 DEF Known, Resolvable
<1>4. step = 1 /\ step' = 2 /\ Sandwich
  BY <1>0, <1>1 DEF ListBefore, PositionsHold
<1>5. RecordsTypeOK'
  BY <1>0, <1>1, <1>4 DEF ToolTypeOK, RecordsTypeOK, Leaders
<1>6. PositionsHold' /\ WorkHolds'
  BY <1>5, PositionsNext
<1>7. ToolTypeOK'
  BY <1>1, <1>5, <1>6 DEF ToolTypeOK, WorkHolds
<1>8. file # "01" /\ file # "04" /\ ListAt = 3 /\ ResolveAt \in {4, 5}
  BY <1>0, <1>4, Numbers
<1>9. Known = {} /\ Resolvable = {} /\ \A t \in Ids : leaders[t] = NoTask
  BY <1>4, <1>8 DEF IInv, Fresh
<1>10. Fresh' /\ LoopsTrue' /\ TasksTrue'
  BY <1>1, <1>2, <1>3, <1>4, <1>6, <1>8, <1>9, Numbers
     DEF Fresh, LoopsTrue, TasksTrue, PositionsHold, TasksAt
<1>11. BeforeTrue'
  BY <1>0, <1>1, <1>2 DEF BeforeTrue, HostInv, HistoryHolds, HiddenIsThere
<1>12. SweepTrue'
  <2>1. \A t \in Ids : ~Swept(t)'
    BY <1>1, <1>2, <1>4, <1>6, <1>8 DEF Swept, Past, PositionsHold, WorkHolds
  <2> QED
    BY <2>1, <1>1, <1>2 DEF IInv, SweepTrue
<1>13. AfterTrue'
  BY <1>1, <1>2, <1>4 DEF IInv, AfterTrue
<1>14. ResolvedTrue'
  BY <1>1, <1>2, <1>3, <1>4, <1>8, <1>9 DEF ResolvedTrue, Past
<1>15. LeadersTrue'
  BY <1>0, <1>1, <1>4, <1>9 DEF LeadersTrue, Past, ToolTypeOK, RecordsTypeOK
<1> QED
  BY <1>0, <1>2, <1>7, <1>10, <1>11, <1>12, <1>13, <1>14, <1>15 DEF IInv

\* The walk after it.
LEMMA ListAfterInv ==
    ASSUME IInv, ListAfter, UNCHANGED hostVars
    PROVE  IInv'
<1> USE NoTaskIsNoId
<1>0. ToolTypeOK /\ PositionsHold /\ HostInv
  BY Positions DEF IInv, ToolTypeOK
<1>1. /\ UNCHANGED <<file, target, before, alive, tasks, resolved, leaders, lost>>
      /\ step' = step + 1 /\ todo' = Work' /\ after' = Leaders \ hidden
  BY DEF ListAfter, Advance, Readdir
<1>2. /\ HostInv' = HostInv /\ UNCHANGED <<Sandwich, ListAt, ResolveAt, TasksAt>>
      /\ UNCHANGED <<tgid, hidden, begun, ended, reused, masked, steady, concealed>>
      /\ Tasks' = Tasks /\ Leaders' = Leaders
  BY <1>1, ToolFrame
<1>3. Known' = Known /\ Resolvable' = Resolvable
  BY <1>1 DEF Known, Resolvable
<1>4. /\ step = ListAt /\ ListAt \in {1, 3} /\ ResolveAt \in {3, 4, 5}
      /\ Sandwich => step = 3 /\ ResolveAt > 3
      /\ ~Sandwich => step = 1 /\ ResolveAt = 3 /\ file # "03"
  BY <1>0, Numbers DEF ListAfter, PositionsHold
<1>5. RecordsTypeOK'
  BY <1>0, <1>1, <1>4 DEF ToolTypeOK, RecordsTypeOK, Leaders
<1>6. PositionsHold' /\ WorkHolds'
  BY <1>5, PositionsNext
<1>7. ToolTypeOK'
  BY <1>1, <1>5, <1>6 DEF ToolTypeOK, WorkHolds
<1>9. Known = {} /\ Resolvable = {} /\ \A t \in Ids : leaders[t] = NoTask
  BY <1>4 DEF IInv, Fresh
<1>10. Fresh' /\ LoopsTrue' /\ TasksTrue'
  BY <1>1, <1>2, <1>3, <1>4, <1>6, <1>9 DEF Fresh, LoopsTrue, TasksTrue, WorkHolds
<1>11. BeforeTrue'
  BY <1>1, <1>2, <1>4 DEF IInv, BeforeTrue
<1>12. SweepTrue'
  <2>1. \A t \in Ids : Swept(t)' => Swept(t)
    BY <1>1, <1>2, <1>4, <1>6 DEF Swept, Past, PositionsHold, WorkHolds, Sandwich
  <2> QED
    BY <2>1, <1>1, <1>2 DEF IInv, SweepTrue
<1>13. AfterTrue'
  <2>1. (Leaders \ hidden) \cap concealed = {}
    BY <1>0 DEF HostInv, HistoryHolds
  <2>2. CASE Sandwich
    <3>1. /\ Leaders \ before \subseteq begun \cup masked /\ before \subseteq Leaders \cup ended
          /\ alive \subseteq Tasks \cup ended /\ hidden \subseteq masked /\ Leaders \subseteq Tasks
          /\ Leaders \subseteq Ids /\ Tasks \subseteq Ids
      BY <2>2, <1>0, <1>4 DEF IInv, BeforeTrue, SweepTrue, HostInv, HiddenIsThere, Leaders, Tasks
    <3>2. \A t \in Ids \ alive : t \in Tasks => t \in begun
      BY <2>2, <1>4 DEF IInv, SweepTrue, Swept, Past
    <3>3. \A t \in Tasks : tgid[t] \in Leaders
      BY <1>0 DEF HostInv, GroupsHaveLeaders
    <3> QED
      BY <2>1, <3>1, <3>2, <3>3, <1>1, <1>2 DEF AfterTrue
  <2> QED
    BY <2>1, <2>2, <1>1, <1>2 DEF AfterTrue
<1>14. ResolvedTrue'
  <2>1. \A p \in Candidates' : ~Past(ResolveAt, p)'
    BY <1>1, <1>2, <1>4, <1>6 DEF Past, PositionsHold, WorkHolds
  <2> QED
    BY <2>1, <1>1, <1>2, <1>3, <1>9 DEF ResolvedTrue
<1>15. LeadersTrue'
  BY <1>0, <1>1, <1>2, <1>4, <1>9 DEF LeadersTrue, Past, ToolTypeOK, RecordsTypeOK
<1> QED
  BY <1>0, <1>2, <1>7, <1>10, <1>11, <1>12, <1>13, <1>14, <1>15 DEF IInv

\* One id of the sweep, or the one of file 04, whose answer may be lost.
LEMMA KillInv ==
    ASSUME IInv, NEW id \in Ids, Kill(id) \/ (KillTarget /\ id = target), UNCHANGED hostVars
    PROVE  IInv'
<1> USE NoTaskIsNoId
<1>0. ToolTypeOK /\ PositionsHold /\ HostInv
  BY Positions DEF IInv, ToolTypeOK
<1>1. /\ UNCHANGED <<file, target, before, after, tasks, resolved, leaders, step>>
      /\ todo' = todo \ {id}
      /\ \/ alive' = alive \cup ({id} \cap Tasks) /\ lost' = lost
         \/ file = "04" /\ alive' = alive /\ lost' = TRUE
  BY DEF Kill, KillTarget, Visit
<1>2. /\ HostInv' = HostInv /\ UNCHANGED <<Sandwich, ListAt, ResolveAt, TasksAt>>
      /\ UNCHANGED <<tgid, hidden, begun, ended, reused, masked, steady, concealed>>
      /\ Tasks' = Tasks /\ Leaders' = Leaders
  BY <1>1, ToolFrame
<1>3. Known' = Known /\ Resolvable' = Resolvable
  BY <1>1 DEF Known, Resolvable
<1>4. step = 2 /\ file # "01" /\ ResolveAt \in {3, 4, 5} /\ (file = "02" => TasksAt # 2)
  BY <1>0, Numbers DEF Kill, KillTarget, Visit, PositionsHold, TasksAt
<1>5. ToolTypeOK'
  BY <1>0, <1>1 DEF ToolTypeOK, RecordsTypeOK
<1>6. PositionsHold'
  BY <1>5, PositionsNext DEF ToolTypeOK
<1>7. Resolvable = {} /\ \A t \in Ids : leaders[t] = NoTask
  BY <1>4 DEF IInv, Fresh
<1>8. Fresh' /\ LoopsTrue' /\ TasksTrue'
  BY <1>1, <1>2, <1>3, <1>4, <1>6 DEF IInv, Fresh, LoopsTrue, TasksTrue, PositionsHold
<1>9. BeforeTrue' /\ AfterTrue'
  BY <1>1, <1>2, <1>4 DEF IInv, BeforeTrue, AfterTrue
<1>10. SweepTrue'
  <2>1. before \subseteq Tasks \cup ended
    BY DEF IInv, BeforeTrue, Leaders, Tasks
  <2>2. \A t \in Ids \ {id} : Swept(t)' => Swept(t)
    BY <1>1, <1>2 DEF Swept, Past
  <2>3. Swept(id)' => alive' = alive \cup ({id} \cap Tasks)
    BY <1>1, <1>2 DEF Swept, Sandwich
  <2> QED
    BY <2>1, <2>2, <2>3, <1>1, <1>2 DEF IInv, SweepTrue
<1>11. ResolvedTrue'
  BY <1>1, <1>2, <1>3, <1>4, <1>7 DEF ResolvedTrue, Past
<1>12. LeadersTrue'
  BY <1>1, <1>4, <1>5, <1>7 DEF LeadersTrue, Past, ToolTypeOK, RecordsTypeOK
<1> QED
  BY <1>0, <1>2, <1>5, <1>8, <1>9, <1>10, <1>11, <1>12 DEF IInv

\* The threads of one listed process.
LEMMA TaskIdsInv ==
    ASSUME IInv, NEW pid \in Ids, TaskIds(pid), UNCHANGED hostVars
    PROVE  IInv'
<1> USE NoTaskIsNoId
<1>0. ToolTypeOK /\ PositionsHold /\ HostInv
  BY Positions DEF IInv, ToolTypeOK
<1>1. /\ UNCHANGED <<file, target, before, alive, after, resolved, leaders, lost, step>>
      /\ todo' = todo \ {pid} /\ pid \in todo
      /\ tasks' = [t \in Ids |-> IF t \in Threads(pid) THEN pid ELSE tasks[t]]
  BY DEF TaskIds, Visit, First
<1>2. /\ HostInv' = HostInv /\ UNCHANGED <<Sandwich, ListAt, ResolveAt, TasksAt>>
      /\ UNCHANGED <<tgid, hidden, begun, ended, reused, masked, steady, concealed>>
      /\ Tasks' = Tasks /\ Leaders' = Leaders
  BY <1>1, ToolFrame
<1>3. Resolvable' = Resolvable
  BY <1>1 DEF Resolvable
<1>4. /\ At("tasks") /\ file \in {"01", "02"} /\ step = ListAt + 1 /\ ResolveAt = step + 1
      /\ ListAt \in {1, 3} /\ (Sandwich => ListAt = 3 /\ file # "01") /\ file # "04"
  BY <1>0, Numbers DEF TaskIds, Visit, PositionsHold
<1>5. ToolTypeOK'
  BY <1>0, <1>1 DEF ToolTypeOK, RecordsTypeOK
<1>6. PositionsHold'
  BY <1>5, PositionsNext DEF ToolTypeOK
<1>7. Resolvable = {}
  BY <1>4 DEF IInv, Fresh
<1>8. Fresh' /\ LoopsTrue'
  BY <1>1, <1>2, <1>3, <1>4, <1>6 DEF IInv, Fresh, LoopsTrue, PositionsHold
<1>9. BeforeTrue' /\ AfterTrue'
  BY <1>1, <1>2 DEF IInv, BeforeTrue, AfterTrue
<1>10. SweepTrue'
  <2>1. \A t : Swept(t)' => Swept(t)
    BY <1>1, <1>2, <1>4 DEF Swept, Past, Sandwich
  <2> QED
    BY <2>1, <1>1, <1>2 DEF IInv, SweepTrue
<1>11. TasksTrue'
  <2>1. pid \in after
    BY <1>1, <1>4 DEF IInv, LoopsTrue
  <2>2. \A t \in Ids : tasks'[t] = IF tgid[t] = pid THEN pid ELSE tasks[t]
    BY <1>1 DEF Threads
  <2>3. \A t \in Ids : tasks[t] # NoTask => tasks[t] \in after /\ (t \in ended \/ tgid[t] = tasks[t])
    BY DEF IInv, TasksTrue, Known
  <2> QED
    BY <2>1, <2>2, <2>3, <1>1, <1>2 DEF TasksTrue, Known
<1>12. ResolvedTrue'
  BY <1>1, <1>2, <1>3, <1>4, <1>7 DEF ResolvedTrue, Past
<1>13. LeadersTrue'
  BY <1>1, <1>2, <1>3, <1>4 DEF IInv, LeadersTrue, Past
<1> QED
  BY <1>0, <1>2, <1>5, <1>8, <1>9, <1>10, <1>11, <1>12, <1>13 DEF IInv

\* What a read of a status tells of a task, and what it does to lost.
LEMMA ReadsTrue ==
    ASSUME IInv, NEW id \in Ids, NEW g, Reads(id, g)
    PROVE  /\ lost' \in BOOLEAN /\ (lost => lost')
           /\ g # NoTask => g = tgid[id] /\ id \in Tasks
           /\ ~lost' => g = tgid[id]
           /\ g # NoTask /\ step > 3 /\ Sandwich /\ id \in alive =>
                 id \in reused \/ g \in after \cup masked
           /\ g # NoTask /\ id \in Known => id \in reused \/ g = tasks[id]
<1>1. lost \in BOOLEAN
  BY DEF IInv, ToolTypeOK, RecordsTypeOK
<1>2. lost' = lost \/ lost' = TRUE
  BY DEF Reads
<1>3. g # NoTask => g = tgid[id] /\ id \in Tasks
  BY DEF Reads, proc_tgid, Tasks
<1>4. ~lost' => g = tgid[id]
  BY <1>1 DEF Reads, proc_tgid
<1>5. id \in Tasks /\ id \in ended => id \in reused
  BY DEF IInv, HostInv, ReuseIsKnown
<1>6. g # NoTask /\ step > 3 /\ Sandwich /\ id \in alive =>
         id \in reused \/ g \in after \cup masked
  BY <1>3, <1>5 DEF IInv, AfterTrue
<1>7. g # NoTask /\ id \in Known => id \in reused \/ g = tasks[id]
  BY <1>3, <1>5 DEF IInv, TasksTrue
<1>8. lost' \in BOOLEAN /\ (lost => lost')
  BY <1>1, <1>2
<1> QED
  BY <1>3, <1>4, <1>6, <1>7, <1>8

\* One proc_tgid.
LEMMA ResolveInv ==
    ASSUME IInv, NEW id \in Ids, Resolve(id), UNCHANGED hostVars
    PROVE  IInv'
<1> USE NoTaskIsNoId
<1>0. ToolTypeOK /\ PositionsHold /\ HostInv
  BY Positions DEF IInv, ToolTypeOK
<1>g. PICK g \in Ids \cup {NoTask} : Reads(id, g) /\ resolved' = [resolved EXCEPT ![id] = g]
  BY DEF Resolve
<1>1. /\ UNCHANGED <<file, target, before, alive, after, tasks, leaders, step>>
      /\ todo' = todo \ {id} /\ id \in todo
  BY DEF Resolve, Visit, First
<1>2. /\ HostInv' = HostInv /\ UNCHANGED <<Sandwich, ListAt, ResolveAt, TasksAt>>
      /\ UNCHANGED <<tgid, hidden, begun, ended, reused, masked, steady, concealed>>
      /\ Tasks' = Tasks /\ Leaders' = Leaders
  BY <1>1, ToolFrame
<1>3. Known' = Known /\ Candidates' = Candidates
  BY <1>1 DEF Known, Candidates
<1>4. /\ At("resolve") /\ step = ResolveAt /\ ResolveAt \in {3, 4, 5} /\ ListAt < ResolveAt
      /\ Sandwich => step > 3
      /\ file = "03" => ResolveAt = 4
  BY <1>0, Numbers DEF Resolve, Visit, PositionsHold
<1>5. /\ lost' \in BOOLEAN /\ (lost => lost')
      /\ g # NoTask => g = tgid[id] /\ id \in Tasks
      /\ ~lost' => g = tgid[id]
      /\ g # NoTask /\ step > 3 /\ Sandwich /\ id \in alive =>
            id \in reused \/ g \in after \cup masked
      /\ g # NoTask /\ id \in Known => id \in reused \/ g = tasks[id]
  BY <1>g, ReadsTrue
<1>6. ToolTypeOK'
  BY <1>0, <1>1, <1>5, <1>g DEF ToolTypeOK, RecordsTypeOK
<1>7. PositionsHold'
  BY <1>6, PositionsNext DEF ToolTypeOK
<1>8. /\ resolved'[id] = g /\ \A t \in Ids \ {id} : resolved'[t] = resolved[t]
      /\ Resolvable' \subseteq Resolvable \cup {id}
      /\ id \in Resolvable' => g # NoTask
      /\ Resolvable' \subseteq Ids
  BY <1>0, <1>g DEF ToolTypeOK, RecordsTypeOK, Resolvable
<1>9. id \in Candidates
  BY <1>1, <1>4 DEF IInv, LoopsTrue
<1>10. Fresh' /\ LoopsTrue' /\ TasksTrue'
  <2>1. ~At("tasks")'
    BY <1>0, <1>1, <1>4 DEF At, Done, Aborted
  <2> QED
    BY <2>1, <1>1, <1>2, <1>3, <1>4, <1>7 DEF IInv, Fresh, LoopsTrue, TasksTrue, PositionsHold
<1>11. BeforeTrue' /\ AfterTrue'
  BY <1>1, <1>2 DEF IInv, BeforeTrue, AfterTrue
<1>12. SweepTrue'
  <2>1. \A t : Swept(t)' => Swept(t)
    BY <1>1, <1>2, <1>4, <1>5 DEF Swept, Past
  <2> QED
    BY <2>1, <1>1, <1>2 DEF IInv, SweepTrue
<1>13. ResolvedTrue'
  <2>1. Resolvable' \subseteq Tasks \cup ended
    BY <1>5, <1>8 DEF IInv, ResolvedTrue
  <2>2. file = "01" => id \in Known
    BY <1>9 DEF Candidates
  <2>3. ASSUME NEW t \in Resolvable'
        PROVE  /\ Sandwich /\ t \in alive => t \in reused \/ resolved'[t] \in after \cup masked
               /\ file = "01" => t \in reused \/ (t \in Known /\ resolved'[t] = tasks[t])
    <3>1. CASE t = id
      BY <3>1, <2>2, <2>3, <1>4, <1>5, <1>8
    <3>2. CASE t # id
      <4>1. t \in Resolvable /\ resolved'[t] = resolved[t]
        BY <3>2, <2>3, <1>8
      <4> QED
        BY <4>1 DEF IInv, ResolvedTrue
    <3> QED
      BY <3>1, <3>2
  <2>4. ASSUME ~lost', NEW p \in concealed \cap Candidates, Past(ResolveAt, p)'
        PROVE  resolved'[p] = p
    <3>1. CASE p = id
      <4>1. p \in Leaders
        BY <1>0 DEF HostInv, HistoryHolds, HiddenIsThere
      <4> QED
        BY <3>1, <4>1, <2>4, <1>5, <1>8 DEF Leaders
    <3>2. CASE p # id
      <4>1. Past(ResolveAt, p) /\ ~lost /\ step # 0
        BY <3>2, <2>4, <1>1, <1>2, <1>4, <1>5 DEF Past
      <4>2. p \in Ids
        BY <1>0 DEF HostInv, HostTypeOK
      <4> QED
        BY <4>1, <4>2, <3>2, <1>8 DEF IInv, ResolvedTrue
    <3> QED
      BY <3>1, <3>2
  <2> QED
    BY <2>1, <2>3, <2>4, <1>1, <1>2, <1>3 DEF ResolvedTrue
<1>14. LeadersTrue'
  BY <1>1, <1>2, <1>4 DEF IInv, LeadersTrue, Past
<1> QED
  BY <1>0, <1>2, <1>6, <1>10, <1>11, <1>12, <1>13, <1>14 DEF IInv

\* The second proc_tgid of file 03.
LEMMA ResolveAgainInv ==
    ASSUME IInv, NEW id \in Ids, ResolveAgain(id), UNCHANGED hostVars
    PROVE  IInv'
<1> USE NoTaskIsNoId
<1>0. ToolTypeOK /\ PositionsHold /\ HostInv
  BY Positions DEF IInv, ToolTypeOK
<1>g. PICK g \in Ids \cup {NoTask} : Reads(id, g) /\ leaders' = [leaders EXCEPT ![id] = g]
  BY DEF ResolveAgain
<1>1. /\ UNCHANGED <<file, target, before, alive, after, tasks, resolved, step>>
      /\ todo' = todo \ {id} /\ id \in todo
  BY DEF ResolveAgain, Visit, First
<1>2. /\ HostInv' = HostInv /\ UNCHANGED <<Sandwich, ListAt, ResolveAt, TasksAt>>
      /\ UNCHANGED <<tgid, hidden, begun, ended, reused, masked, steady, concealed>>
      /\ Tasks' = Tasks /\ Leaders' = Leaders
  BY <1>1, ToolFrame
<1>3. Known' = Known /\ Candidates' = Candidates /\ Resolvable' = Resolvable
  BY <1>1 DEF Known, Candidates, Resolvable
<1>4. file = "03" /\ step = 5 /\ ResolveAt = 4 /\ ListAt = 3 /\ Sandwich
  BY <1>0, Numbers DEF ResolveAgain, Visit, PositionsHold
<1>5. /\ lost' \in BOOLEAN /\ (lost => lost')
      /\ g # NoTask => g = tgid[id] /\ id \in Tasks
      /\ ~lost' => g = tgid[id]
      /\ g # NoTask /\ step > 3 /\ Sandwich /\ id \in alive =>
            id \in reused \/ g \in after \cup masked
  BY <1>g, ReadsTrue
<1>6. ToolTypeOK'
  BY <1>0, <1>1, <1>5, <1>g DEF ToolTypeOK, RecordsTypeOK
<1>7. PositionsHold'
  BY <1>6, PositionsNext DEF ToolTypeOK
<1>8. leaders'[id] = g /\ \A t \in Ids \ {id} : leaders'[t] = leaders[t]
  BY <1>0, <1>g DEF ToolTypeOK, RecordsTypeOK
<1>9. Fresh' /\ LoopsTrue' /\ TasksTrue'
  BY <1>1, <1>2, <1>3, <1>4, <1>7 DEF IInv, Fresh, LoopsTrue, TasksTrue, PositionsHold
<1>10. BeforeTrue' /\ AfterTrue'
  BY <1>1, <1>2 DEF IInv, BeforeTrue, AfterTrue
<1>11. SweepTrue'
  <2>1. \A t : Swept(t)' => Swept(t)
    BY <1>1, <1>2, <1>4 DEF Swept, Past
  <2> QED
    BY <2>1, <1>1, <1>2 DEF IInv, SweepTrue
<1>12. ResolvedTrue'
  <2>1. \A p : Past(ResolveAt, p)' => Past(ResolveAt, p)
    BY <1>1, <1>2, <1>4 DEF Past
  <2> QED
    BY <2>1, <1>1, <1>2, <1>3, <1>5 DEF IInv, ResolvedTrue
<1>13. LeadersTrue'
  <2>0. alive \subseteq Ids /\ Resolvable \subseteq Ids
    BY <1>0 DEF ToolTypeOK, RecordsTypeOK, Resolvable
  <2>1. ASSUME NEW t \in alive, leaders'[t] # NoTask
        PROVE  t \in reused \/ leaders'[t] \in after \cup masked
    BY <2>0, <2>1, <1>4, <1>5, <1>8 DEF IInv, LeadersTrue
  <2>2. ASSUME ~lost', NEW p \in concealed \cap Resolvable, Past(5, p)'
        PROVE  leaders'[p] = p
    <3>1. CASE p = id
      <4>1. p \in Leaders
        BY <1>0 DEF HostInv, HistoryHolds, HiddenIsThere
      <4> QED
        BY <3>1, <4>1, <2>2, <1>5, <1>8 DEF Leaders
    <3>2. CASE p # id
      <4>1. Past(5, p) /\ ~lost /\ step # 0
        BY <3>2, <2>2, <1>1, <1>4, <1>5 DEF Past
      <4> QED
        BY <4>1, <3>2, <2>0, <1>4, <1>8 DEF IInv, LeadersTrue
    <3> QED
      BY <3>1, <3>2
  <2> QED
    BY <2>1, <2>2, <1>1, <1>2, <1>3 DEF LeadersTrue
<1> QED
  BY <1>0, <1>2, <1>6, <1>9, <1>10, <1>11, <1>12, <1>13 DEF IInv

\* The start time of file 04, the one read that nothing guards.
LEMMA ReadStartInv ==
    ASSUME IInv, ReadStart, UNCHANGED hostVars
    PROVE  IInv'
<1>0. ToolTypeOK /\ PositionsHold /\ HostInv
  BY Positions DEF IInv, ToolTypeOK
<1>1. UNCHANGED <<file, target, before, alive, after, tasks, resolved, leaders>>
  BY DEF ReadStart
<1>2. /\ HostInv' = HostInv /\ UNCHANGED <<Sandwich, ListAt, ResolveAt, TasksAt>>
      /\ UNCHANGED <<tgid, hidden, begun, ended, reused, masked, steady, concealed>>
      /\ Tasks' = Tasks /\ Leaders' = Leaders
  BY <1>1, ToolFrame
<1>3. Known' = Known /\ Candidates' = Candidates /\ Resolvable' = Resolvable
  BY <1>1 DEF Known, Candidates, Resolvable
<1>4. file = "04" /\ step = 4 /\ ResolveAt = 3 /\ ListAt = 1 /\ ~Sandwich
  BY <1>0, Numbers DEF ReadStart, PositionsHold
<1>5. \/ step' = 5 /\ todo' = Work' /\ lost' = lost
      \/ step' = 0 /\ todo' = todo /\ lost' \in BOOLEAN /\ (lost' \/ target \in ended)
  <2>1. target \in Resolvable => target \in Tasks \cup ended
    BY DEF IInv, ResolvedTrue
  <2>2. lost \in BOOLEAN
    BY <1>0 DEF ToolTypeOK, RecordsTypeOK
  <2>3. \/ Advance /\ lost' = lost
        \/ /\ step' = 0 /\ todo' = todo
           /\ (target \notin Tasks /\ target \in Resolvable /\ lost' = lost) \/ lost' = TRUE
    BY DEF ReadStart
  <2>4. CASE Advance /\ lost' = lost
    BY <2>4, <1>4 DEF Advance
  <2> QED
    BY <2>1, <2>2, <2>3, <2>4
<1>6. RecordsTypeOK'
  BY <1>0, <1>1, <1>5 DEF ToolTypeOK, RecordsTypeOK
<1>7. PositionsHold' /\ WorkHolds'
  BY <1>6, PositionsNext
<1>8. ToolTypeOK'
  BY <1>0, <1>5, <1>6, <1>7 DEF ToolTypeOK, WorkHolds
<1>9. Fresh' /\ LoopsTrue' /\ TasksTrue'
  BY <1>1, <1>2, <1>3, <1>4, <1>5, <1>7 DEF IInv, Fresh, LoopsTrue, TasksTrue, PositionsHold
<1>10. BeforeTrue' /\ AfterTrue' /\ LeadersTrue'
  BY <1>1, <1>2, <1>4 DEF IInv, BeforeTrue, AfterTrue, LeadersTrue
<1>11. SweepTrue'
  <2>1. \A t : Swept(t)' => Swept(t)
    BY <1>1, <1>2, <1>4, <1>5 DEF Swept, Past
  <2> QED
    BY <2>1, <1>1, <1>2 DEF IInv, SweepTrue
<1>12. ResolvedTrue'
  <2>1. \A p : Past(ResolveAt, p)
    BY <1>4 DEF Past
  <2> QED
    BY <2>1, <1>1, <1>2, <1>3, <1>4, <1>5 DEF IInv, ResolvedTrue
<1> QED
  BY <1>0, <1>2, <1>8, <1>9, <1>10, <1>11, <1>12 DEF IInv

\* An exception leaves what has been read as it is.
LEMMA DieInv ==
    ASSUME IInv, Die, UNCHANGED hostVars
    PROVE  IInv'
<1>0. ToolTypeOK
  BY DEF IInv
<1>1. /\ UNCHANGED <<file, target, todo, before, alive, after, tasks, resolved, leaders, lost>>
      /\ step' = 0
  BY DEF Die
<1>2. /\ HostInv' = HostInv /\ UNCHANGED <<Sandwich, ListAt, ResolveAt, TasksAt>>
      /\ UNCHANGED <<tgid, hidden, begun, ended, reused, masked, steady, concealed>>
      /\ Tasks' = Tasks /\ Leaders' = Leaders
  BY <1>1, ToolFrame
<1>3. Known' = Known /\ Candidates' = Candidates /\ Resolvable' = Resolvable
  BY <1>1 DEF Known, Candidates, Resolvable
<1>4. ToolTypeOK'
  BY <1>0, <1>1 DEF ToolTypeOK, RecordsTypeOK
<1>5. Fresh' /\ LoopsTrue' /\ TasksTrue'
  BY <1>1, <1>2, <1>3 DEF IInv, Fresh, LoopsTrue, TasksTrue, At, Aborted
<1>6. BeforeTrue' /\ AfterTrue' /\ LeadersTrue' /\ ResolvedTrue'
  BY <1>1, <1>2, <1>3 DEF IInv, BeforeTrue, AfterTrue, LeadersTrue, ResolvedTrue
<1>7. SweepTrue'
  <2>1. \A t : ~Swept(t)'
    BY <1>1 DEF Swept, Past
  <2> QED
    BY <2>1, <1>1, <1>2 DEF IInv, SweepTrue
<1> QED
  BY <1>2, <1>4, <1>5, <1>6, <1>7 DEF IInv

\* A step that changes nothing.
LEMMA StutterInv ==
    ASSUME IInv, UNCHANGED vars
    PROVE  IInv'
<1>1. UNCHANGED hostVars /\ UNCHANGED toolVars
  BY DEF vars
<1>2. HostInv'
  BY <1>1, HostUnchanged DEF IInv
<1>3. /\ file' = file /\ target' = target /\ step' = step /\ todo' = todo
      /\ before' = before /\ alive' = alive /\ after' = after /\ tasks' = tasks
      /\ resolved' = resolved /\ leaders' = leaders /\ lost' = lost
  BY <1>1 DEF toolVars
<1>4. /\ Tasks' = Tasks /\ Leaders' = Leaders
      /\ UNCHANGED <<tgid, hidden, begun, ended, reused, masked, steady, concealed>>
      /\ UNCHANGED <<Sandwich, ListAt, ResolveAt, TasksAt>>
  BY <1>1, <1>3, ToolFrame
<1>5. /\ Known' = Known /\ Resolvable' = Resolvable /\ Candidates' = Candidates
      /\ At("tasks")' = At("tasks") /\ At("resolve")' = At("resolve")
      /\ \A n, t : Past(n, t)' = Past(n, t)
      /\ \A t : Swept(t)' = Swept(t)
  BY <1>3, <1>4 DEF Known, Resolvable, Candidates, At, Aborted, Done, Past, Swept
<1>6. ToolTypeOK' /\ Fresh' /\ LoopsTrue'
  BY <1>3, <1>4, <1>5 DEF IInv, ToolTypeOK, RecordsTypeOK, Fresh, LoopsTrue
<1>7. BeforeTrue' /\ SweepTrue' /\ AfterTrue'
  BY <1>3, <1>4, <1>5 DEF IInv, BeforeTrue, SweepTrue, AfterTrue
<1>8. TasksTrue' /\ ResolvedTrue' /\ LeadersTrue'
  BY <1>3, <1>4, <1>5 DEF IInv, TasksTrue, ResolvedTrue, LeadersTrue
<1> QED
  BY <1>2, <1>6, <1>7, <1>8 DEF IInv

\* What the tool has on record is true of the history of the host at every step.
THEOREM Invariance == Spec => []IInv
<1>1. ASSUME IInv, [Next]_vars PROVE IInv'
  <2>1. CASE ToolStep
    <3>1. ToolTypeOK /\ UNCHANGED hostVars /\ Tool
      BY <1>1, <2>1 DEF IInv, ToolStep
    <3>2. CASE ListFails \/ NoiseFails \/ CloseFails
      BY <1>1, <3>1, <3>2, DieInv DEF ListFails, NoiseFails, CloseFails
    <3>3. CASE KillTarget
      BY <1>1, <3>1, <3>3, KillInv DEF ToolTypeOK, RecordsTypeOK
    <3> QED
      BY <1>1, <3>1, <3>2, <3>3, EndLoopInv, ListBeforeInv, ListAfterInv, KillInv, TaskIdsInv,
         ResolveInv, ResolveAgainInv, ReadStartInv DEF Tool
  <2>2. CASE HostStep
    BY <1>1, <2>2, HostStepInv DEF HostStep
  <2>3. CASE Terminated \/ UNCHANGED vars
    BY <1>1, <2>3, StutterInv DEF Terminated
  <2> QED
    BY <1>1, <2>1, <2>2, <2>3 DEF Next
<1> QED
  BY <1>1, InitInv, PTL DEF Spec

-----------------------------------------------------------------------------
(* The properties *)

\* Nothing that starts, exits or clones between the listings of files 02 and 03
\* looks like a hidden process: what they leave unexplained was hidden or reused.
THEOREM UnexplainedAreHiddenOrReused == Spec => []UnexplainedIsHiddenOrReused
<1>1. ASSUME IInv PROVE UnexplainedIsHiddenOrReused
  <2>1. ASSUME Done, file = "02", NEW t \in Unexplained
        PROVE  t \in reused \/ resolved[t] \in masked
    BY <1>1, <2>1 DEF Unexplained, IInv, ResolvedTrue, Sandwich
  <2>2. ASSUME Done, file = "03", NEW t \in AbsentFromBoth
        PROVE  t \in reused \/ leaders[t] \in masked
    BY <1>1, <2>2 DEF AbsentFromBoth, IInv, LeadersTrue, Sandwich
  <2> QED
    BY <2>1, <2>2 DEF UnexplainedIsHiddenOrReused
<1> QED
  BY <1>1, Invariance, PTL

\* A process that is hidden all the time is among what files 02 and 03 leave
\* unexplained, and file 04 shows it unlisted but there, unless a read of it failed.
THEOREM ConcealedAreUnexplained == Spec => []ConcealedIsUnexplained
<1>1. ASSUME IInv PROVE ConcealedIsUnexplained
  <2> SUFFICES ASSUME Done, ~lost, NEW p \in concealed
               PROVE  /\ file = "02" => p \in Unexplained
                      /\ file = "03" => p \in AbsentFromBoth
                      /\ file = "04" /\ p = target => p \in (alive \cap Resolvable) \ after
    BY DEF ConcealedIsUnexplained
  <2>0. ToolTypeOK /\ PositionsHold /\ HostInv
    BY <1>1, Positions DEF IInv, ToolTypeOK
  <2>1. p \in Ids /\ p \in Leaders /\ p \in Tasks /\ p \notin begun \cup ended /\ p # NoTask
    BY <2>0, NoTaskIsNoId DEF HostInv, HostTypeOK, HistoryHolds, HiddenIsThere, Leaders, Tasks
  <2>2. p \notin before \cup after
    BY <1>1 DEF IInv, BeforeTrue, AfterTrue
  <2>3. /\ step # 0 /\ step > 2 /\ step > ResolveAt
        /\ file = "03" => step > 5
    BY <2>0, Numbers DEF PositionsHold, ResolveAt, ToolTypeOK, RecordsTypeOK
  <2>4. Swept(p) => p \in alive
    BY <1>1, <2>1 DEF IInv, SweepTrue
  <2>5. p \in Candidates => resolved[p] = p /\ p \in Resolvable
    BY <1>1, <2>1, <2>3 DEF IInv, ResolvedTrue, Past, Resolvable
  <2>6. p \notin Known
    BY <1>1, <2>1, <2>2 DEF IInv, TasksTrue, Leaders
  <2>7. CASE file = "02"
    BY <2>2, <2>3, <2>4, <2>5, <2>6, <2>7 DEF Unexplained, Candidates, Swept, Past, Sandwich
  <2>8. CASE file = "03"
    <3>1. p \in alive /\ p \in Resolvable
      BY <2>2, <2>3, <2>4, <2>5, <2>8 DEF Candidates, Swept, Past, Sandwich
    <3>2. leaders[p] = p
      BY <1>1, <3>1, <2>3, <2>8 DEF IInv, LeadersTrue, Past
    <3> QED
      BY <3>1, <3>2, <2>1, <2>2, <2>8 DEF AbsentFromBoth
  <2>9. CASE file = "04" /\ p = target
    BY <2>2, <2>3, <2>4, <2>5, <2>9 DEF Candidates, Swept, Past
  <2> QED
    BY <2>7, <2>8, <2>9
<1> QED
  BY <1>1, Invariance, PTL

\* File 03 calls started, exited or missed by the sweep only what was.
THEOREM LabelsAlwaysTrue == Spec => []LabelsAreTrue
<1>1. ASSUME IInv PROVE LabelsAreTrue
  <2> SUFFICES ASSUME Done, file = "03" PROVE LabelsAreTrue
    BY DEF LabelsAreTrue
  <2>1. ToolTypeOK /\ PositionsHold
    BY <1>1, Positions DEF IInv, ToolTypeOK
  <2>2. step > 5 /\ step > 3 /\ Sandwich /\ before \subseteq Ids
    BY <2>1 DEF PositionsHold, Sandwich, ToolTypeOK, RecordsTypeOK
  <2>3. \A t \in Ids : Swept(t)
    BY <2>2, <2>1 DEF Swept, Past, ToolTypeOK, RecordsTypeOK
  <2>4. before \ alive \subseteq ended
    BY <1>1, <2>2, <2>3 DEF IInv, SweepTrue
  <2>5. after \ before \subseteq begun \cup masked /\ before \ after \subseteq ended \cup masked
        /\ after \ alive \subseteq begun
    BY <1>1, <2>2 DEF IInv, AfterTrue
  <2> QED
    BY <2>4, <2>5 DEF LabelsAreTrue, StartedMidCapture, ExitedMidCapture
<1> QED
  BY <1>1, Invariance, PTL

\* File 01: an unlisted task id resolves to the listed process it was found under,
\* unless the id was given out again in between.
THEOREM ThreadsResolve == Spec => []ThreadsResolveToTheirLeader
<1>1. ASSUME IInv PROVE ThreadsResolveToTheirLeader
  BY <1>1 DEF ThreadsResolveToTheirLeader, IInv, ResolvedTrue, TasksTrue
<1> QED
  BY <1>1, Invariance, PTL
=============================================================================
