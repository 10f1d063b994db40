----------------------------- MODULE Host_proofs -----------------------------
(***************************************************************************)
(* What the host under observation keeps true by itself, and what one step *)
(* of it may change, for every pid_max and any number of steps.  The       *)
(* proofs about the programs that watch it use nothing else of it.         *)
(***************************************************************************)
EXTENDS Host, TLAPS

\* The thread group of a task has its leader in the task table.
GroupsHaveLeaders == \A t \in Tasks : tgid[t] \in Leaders

\* A hidden process is one that is there, and the history knows of it.
HiddenIsThere == hidden \subseteq Leaders \cap masked

\* Concealed processes are hidden, steady ones listed, kept sockets held, now.
HistoryHolds ==
    /\ concealed \subseteq hidden \ (begun \cup ended)
    /\ steady \subseteq Readdir
    /\ \A x \in kept : x[1] \in Leaders /\ x[2] \in holds[x[1]]

\* An id in use that was released before has been given out again.
ReuseIsKnown == Tasks \cap ended \subseteq reused

HostInv == HostTypeOK /\ GroupsHaveLeaders /\ HiddenIsThere /\ HistoryHolds /\ ReuseIsKnown

\* What one step of the host may do to the task table and to the history.
TaskChange(t) ==
    \/ tgid'[t] = tgid[t]
    \/ tgid[t] # NoTask /\ tgid'[t] = NoTask /\ t \in ended'
    \/ tgid[t] = NoTask /\ tgid'[t] # NoTask /\ t \in begun'

HostChange ==
    /\ \A t \in Ids : TaskChange(t)
    /\ begun \subseteq begun' /\ ended \subseteq ended' /\ reused \subseteq reused'
    /\ masked \subseteq masked'
    /\ steady' \subseteq steady /\ concealed' \subseteq concealed /\ kept' \subseteq kept

-----------------------------------------------------------------------------
\* The mark of an id without a task is not an id.
LEMMA NoTaskIsNoId == NoTask \notin Ids
BY DEF NoTask, Ids

\* The host may be in any state with leaders when a program starts.
LEMMA HostInitInv == HostInit => HostInv
<1> SUFFICES ASSUME HostInit PROVE HostInv
  OBVIOUS
<1>1. HostTypeOK
  BY DEF HostInit, HostTypeOK, Readdir, Leaders
<1>2. GroupsHaveLeaders /\ ReuseIsKnown
  BY DEF HostInit, GroupsHaveLeaders, ReuseIsKnown
<1>3. HiddenIsThere
  BY DEF HostInit, HiddenIsThere
<1>4. HistoryHolds
  BY NoTaskIsNoId DEF HostInit, HistoryHolds
<1> QED
  BY <1>1, <1>2, <1>3, <1>4 DEF HostInv

\* The kinds of steps the host takes.
LEMMA HostNextCases ==
    ASSUME HostInv, HostNext
    PROVE  \/ \E t, l \in Ids : Begin(t, l) /\ (t = l \/ l \in Leaders)
           \/ \E gone \in SUBSET Tasks :
                 End(gone) /\ \A t \in Tasks : tgid[t] \in gone => t \in gone
           \/ \E l \in Ids : Hide(l) \/ Unhide(l)
           \/ \E l \in Ids, i \in Inodes : OpenSocket(l, i) \/ CloseSocket(l, i)
<1>1. ASSUME NEW l \in Ids, Exit(l)
      PROVE  \E gone \in SUBSET Tasks :
                 End(gone) /\ \A t \in Tasks : tgid[t] \in gone => t \in gone
  <2>1. Threads(l) \in SUBSET Tasks
    BY <1>1, NoTaskIsNoId DEF Threads, Tasks
  <2>2. ASSUME NEW t \in Tasks, tgid[t] \in Threads(l) PROVE t \in Threads(l)
    <3>1. tgid[t] \in Leaders
      BY DEF HostInv, GroupsHaveLeaders
    <3> QED
      BY <2>2, <3>1 DEF Threads, Leaders, Tasks
  <2> QED
    BY <1>1, <2>1, <2>2 DEF Exit
<1>2. ASSUME NEW u \in Ids, ExitThread(u)
      PROVE  \E gone \in SUBSET Tasks :
                 End(gone) /\ \A t \in Tasks : tgid[t] \in gone => t \in gone
  <2>1. {u} \in SUBSET Tasks /\ End({u}) /\ u \notin Leaders
    BY <1>2 DEF ExitThread
  <2>2. \A t \in Tasks : tgid[t] \in Leaders
    BY DEF HostInv, GroupsHaveLeaders
  <2>3. \A t \in Tasks : tgid[t] \in {u} => t \in {u}
    BY <2>1, <2>2
  <2> QED
    BY <2>1, <2>3
<1> QED
  BY <1>1, <1>2 DEF HostNext, Spawn, Clone

\* A step of the host keeps its invariant and changes no more than it may.
LEMMA HostNextInv ==
    ASSUME HostInv, HostNext
    PROVE  HostInv' /\ HostChange
<1> USE NoTaskIsNoId
<1>t. HostTypeOK /\ Leaders \subseteq Tasks
  BY DEF HostInv, Leaders, Tasks
<1>1. ASSUME NEW t \in Ids, NEW l \in Ids, Begin(t, l), t = l \/ l \in Leaders
      PROVE  HostInv' /\ HostChange
  <2>1. /\ tgid' = [tgid EXCEPT ![t] = l] /\ tgid[t] = NoTask
        /\ begun' = begun \cup {t} /\ reused' = reused \cup ({t} \cap ended)
        /\ UNCHANGED <<hidden, holds, ended, masked, steady, concealed, kept>>
    BY <1>1 DEF Begin
  <2>2. HostTypeOK'
    BY <1>t, <2>1 DEF HostTypeOK
  <2>3. /\ tgid'[t] = l /\ \A u \in Ids \ {t} : tgid'[u] = tgid[u]
        /\ Tasks' = Tasks \cup {t} /\ t \notin Tasks
        /\ Leaders' = Leaders \cup ({t} \cap {l})
    BY <1>t, <2>1 DEF HostTypeOK, Tasks, Leaders
  <2>4. GroupsHaveLeaders'
    BY <1>1, <2>3 DEF HostInv, GroupsHaveLeaders, Tasks
  <2>5. HiddenIsThere'
    BY <2>1, <2>3 DEF HostInv, HiddenIsThere
  <2>6. HistoryHolds'
    BY <1>t, <2>1, <2>3 DEF HostInv, HistoryHolds, HiddenIsThere, Readdir
  <2>7. ReuseIsKnown'
    BY <2>1, <2>3 DEF HostInv, ReuseIsKnown
  <2>8. HostChange
    BY <2>1, <2>3 DEF HostChange, TaskChange
  <2> QED
    BY <2>2, <2>4, <2>5, <2>6, <2>7, <2>8 DEF HostInv
<1>2. ASSUME NEW gone \in SUBSET Tasks, End(gone),
             \A t \in Tasks : tgid[t] \in gone => t \in gone
      PROVE  HostInv' /\ HostChange
  <2>1. /\ tgid' = [t \in Ids |-> IF t \in gone THEN NoTask ELSE tgid[t]]
        /\ hidden' = hidden \ gone
        /\ holds' = [t \in Ids |-> IF t \in gone THEN {} ELSE holds[t]]
        /\ ended' = ended \cup gone /\ steady' = steady \ gone
        /\ concealed' = concealed \ gone /\ kept' = {x \in kept : x[1] \notin gone}
        /\ UNCHANGED <<begun, reused, masked>>
    BY <1>2 DEF End
  <2>0. gone \subseteq Ids
    BY DEF Tasks
  <2>2. HostTypeOK'
    BY <1>t, <2>0, <2>1 DEF HostTypeOK
  <2>3. /\ \A u \in Ids : tgid'[u] = IF u \in gone THEN NoTask ELSE tgid[u]
        /\ Tasks' = Tasks \ gone /\ Leaders' = Leaders \ gone
    BY <2>0, <2>1 DEF Tasks, Leaders
  <2>4. GroupsHaveLeaders'
    BY <1>2, <2>3 DEF HostInv, GroupsHaveLeaders, Tasks
  <2>5. HiddenIsThere'
    BY <2>1, <2>3 DEF HostInv, HiddenIsThere
  <2>6. HistoryHolds'
    BY <1>t, <2>1, <2>3 DEF HostInv, HistoryHolds, Readdir, Leaders
  <2>7. ReuseIsKnown'
    BY <2>1, <2>3 DEF HostInv, ReuseIsKnown
  <2>8. HostChange
    BY <2>1, <2>3 DEF HostChange, TaskChange, Tasks
  <2> QED
    BY <2>2, <2>4, <2>5, <2>6, <2>7, <2>8 DEF HostInv
<1>3. ASSUME NEW l \in Ids, Hide(l) PROVE HostInv' /\ HostChange
  <2> USE <1>3, <1>t DEF Hide
  <2>1. Leaders' = Leaders /\ Tasks' = Tasks
    BY DEF Leaders, Tasks
  <2>2. HostTypeOK'
    BY DEF HostTypeOK
  <2>3. GroupsHaveLeaders' /\ ReuseIsKnown'
    BY <2>1 DEF HostInv, GroupsHaveLeaders, ReuseIsKnown
  <2>4. HiddenIsThere'
    BY <2>1 DEF HostInv, HiddenIsThere, Readdir
  <2>5. HistoryHolds'
    BY <2>1 DEF HostInv, HistoryHolds, Readdir
  <2> QED
    BY <2>2, <2>3, <2>4, <2>5 DEF HostInv, HostChange, TaskChange
<1>4. ASSUME NEW l \in Ids, Unhide(l) PROVE HostInv' /\ HostChange
  <2> USE <1>4, <1>t DEF Unhide
  <2>1. Leaders' = Leaders /\ Tasks' = Tasks
    BY DEF Leaders, Tasks
  <2>2. HostTypeOK'
    BY DEF HostTypeOK
  <2>3. GroupsHaveLeaders' /\ ReuseIsKnown'
    BY <2>1 DEF HostInv, GroupsHaveLeaders, ReuseIsKnown
  <2>4. HiddenIsThere'
    BY <2>1 DEF HostInv, HiddenIsThere
  <2>5. HistoryHolds'
    BY <2>1 DEF HostInv, HistoryHolds, Readdir
  <2> QED
    BY <2>2, <2>3, <2>4, <2>5 DEF HostInv, HostChange, TaskChange
<1>5. ASSUME NEW l \in Ids, NEW i \in Inodes, OpenSocket(l, i) \/ CloseSocket(l, i)
      PROVE  HostInv' /\ HostChange
  <2>1. /\ UNCHANGED <<tgid, hidden, begun, ended, reused, masked, steady, concealed>>
        /\ kept' \subseteq kept
    BY <1>5 DEF OpenSocket, CloseSocket
  <2>2. HostTypeOK'
    BY <1>5, <1>t DEF HostTypeOK, OpenSocket, CloseSocket
  <2>3. Leaders' = Leaders /\ Tasks' = Tasks /\ Readdir' = Readdir
    BY <2>1 DEF Leaders, Tasks, Readdir
  <2>4. \A x \in kept' : x[2] \in holds'[x[1]]
    <3>1. \A x \in kept : x = <<x[1], x[2]>> /\ x[1] \in Ids /\ x[2] \in holds[x[1]]
      BY <1>t DEF HostTypeOK, HostInv, HistoryHolds
    <3>2. CASE OpenSocket(l, i)
      BY <1>t, <3>1, <3>2 DEF OpenSocket, HostTypeOK
    <3>3. CASE CloseSocket(l, i)
      BY <1>t, <3>1, <3>3 DEF CloseSocket, HostTypeOK
    <3> QED
      BY <1>5, <3>2, <3>3
  <2>5. HistoryHolds'
    BY <2>1, <2>3, <2>4 DEF HostInv, HistoryHolds
  <2> QED
    BY <2>1, <2>2, <2>3, <2>5
    DEF HostInv, GroupsHaveLeaders, HiddenIsThere, ReuseIsKnown, HostChange, TaskChange
<1> QED
  BY <1>1, <1>2, <1>3, <1>4, <1>5, HostNextCases

\* A step that leaves the host alone.
LEMMA HostUnchanged ==
    ASSUME UNCHANGED hostVars
    PROVE  /\ HostInv <=> HostInv'
           /\ Tasks' = Tasks /\ Leaders' = Leaders /\ Readdir' = Readdir
BY DEF hostVars, HostInv, HostTypeOK, GroupsHaveLeaders, HiddenIsThere, HistoryHolds,
       ReuseIsKnown, Tasks, Leaders, Readdir
=============================================================================
