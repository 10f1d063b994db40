--------------------------- MODULE Scoring_proofs ---------------------------
(***************************************************************************)
(* What scoring.score does with any set of signals, of any size and with   *)
(* any names, and which signals the process and socket detectors raise.    *)
(***************************************************************************)
EXTENDS Scoring, TLAPS

\* The shape of a suspect: the detectors build no other.
Suspect(u) == u = Process(u.name) \/ u = Module(u.name)

\* The two ways score makes a finding.
IsNamedFinding(f, S) ==
    \E x \in Named(S) : f = Compose(x.suspect, Group(S, x.suspect), {})

IsAnonymousFinding(f, S) ==
    /\ Unattributed(S) # {}
    /\ f = Compose(Anonymous, Unattributed(S), HiddenNamed(S))

\* A finding is about one named suspect, or it is the one unattributed finding.
LEMMA FindingsOfScore ==
    ASSUME NEW S, NEW f
    PROVE  f \in score(S) <=> IsNamedFinding(f, S) \/ IsAnonymousFinding(f, S)
BY DEF score, IsNamedFinding, IsAnonymousFinding

\* A finding is about a suspect some signal names.
LEMMA ScoreNames ==
    ASSUME NEW S, NEW f \in score(S)
    PROVE  \E x \in S : x.suspect.name = f.suspect.name
<1>1. CASE IsNamedFinding(f, S)
  BY <1>1 DEF IsNamedFinding, Compose, Named
<1>2. CASE IsAnonymousFinding(f, S)
  <2>1. PICK x \in Anon(S) : TRUE
    BY <1>2 DEF IsAnonymousFinding, Unattributed
  <2>2. f.suspect.name = NoName
    BY <1>2 DEF IsAnonymousFinding, Compose, Anonymous, Module
  <2> QED
    BY <2>1, <2>2 DEF Anon
<1> QED
  BY <1>1, <1>2, FindingsOfScore

\* When every signal names its suspect there is one finding per suspect, made of
\* all the signals about it and of nothing else.
LEMMA ScoreOfNamed ==
    ASSUME NEW S, \A x \in S : x.suspect.name # NoName
    PROVE  score(S) = {Compose(u, {x \in S : x.suspect = u}, {}) : u \in {x.suspect : x \in S}}
<1>1. Named(S) = S /\ Anon(S) = {}
  BY DEF Named, Anon
<1>2. Unattributed(S) = {}
  BY <1>1 DEF Unattributed
<1>3. \A u : Group(S, u) = {x \in S : x.suspect = u}
  BY <1>1 DEF Group
<1> QED
  BY <1>1, <1>2, <1>3 DEF score

\* Every signal is evidence of exactly one finding: attribution of the anonymous
\* signals moves evidence, and never loses or doubles it.
THEOREM ScoreConservesEvidence ==
    ASSUME NEW S, \A x \in S : Suspect(x.suspect), NEW x \in S
    PROVE  \E f \in score(S) : /\ x \in f.evidence
                               /\ \A g \in score(S) : x \in g.evidence => g = f
<1>e. \A u, sigs, c : Compose(u, sigs, c).evidence = sigs
  BY DEF Compose
<1>d. \A y \in S : y \in Named(S) <=> y \notin Anon(S)
  BY DEF Named, Anon
<1>1. CASE x \in Named(S)
  <2> DEFINE f == Compose(x.suspect, Group(S, x.suspect), {})
  <2>1. f \in score(S)
    BY <1>1 DEF score
  <2>2. x \in f.evidence
    BY <1>1, <1>e DEF Group
  <2>3. ASSUME NEW g \in score(S), x \in g.evidence PROVE g = f
    <3>1. CASE IsNamedFinding(g, S)
      <4>1. PICK y \in Named(S) : g = Compose(y.suspect, Group(S, y.suspect), {})
        BY <3>1 DEF IsNamedFinding
      <4>2. x \in Group(S, y.suspect)
        BY <2>3, <4>1, <1>e
      <4>3. x.suspect = y.suspect
        BY <4>2, <1>1, <1>d DEF Group
      <4> QED
        BY <4>1, <4>3
    <3>2. CASE IsAnonymousFinding(g, S)
      <4>1. x \in Unattributed(S)
        BY <2>3, <3>2, <1>e DEF IsAnonymousFinding
      <4> QED
        BY <4>1, <1>1, <1>d DEF Unattributed
    <3> QED
      BY <3>1, <3>2, FindingsOfScore
  <2> QED
    BY <2>1, <2>2, <2>3
<1>2. CASE x \in Anon(S) /\ Attributable(S)
  <2>1. PICK m : HiddenNamed(S) = {m}
    BY <1>2 DEF Attributable
  <2>2. PICK y \in Named(S) : y.suspect.kind = "module" /\ y.suspect.name = m
    BY <2>1 DEF HiddenNamed
  <2> DEFINE f == Compose(y.suspect, Group(S, y.suspect), {})
  <2>3. f \in score(S)
    BY <2>2 DEF score
  <2>4. x \in f.evidence
    BY <1>2, <1>e, <2>1, <2>2 DEF Group
  <2>5. ASSUME NEW g \in score(S), x \in g.evidence PROVE g = f
    <3>1. CASE IsNamedFinding(g, S)
      <4>1. PICK z \in Named(S) : g = Compose(z.suspect, Group(S, z.suspect), {})
        BY <3>1 DEF IsNamedFinding
      <4>2. x \in Group(S, z.suspect)
        BY <2>5, <4>1, <1>e
      <4>3. z.suspect.kind = "module" /\ z.suspect.name = m
        BY <4>2, <1>2, <1>d, <2>1 DEF Group
      <4>4. \A u : Suspect(u) /\ u.kind = "module" => u = Module(u.name)
        BY DEF Suspect, Process, Module
      <4>5. z.suspect = y.suspect
        BY <4>3, <4>4, <2>2 DEF Named
      <4> QED
        BY <4>1, <4>5
    <3>2. CASE IsAnonymousFinding(g, S)
      BY <3>2, <1>2 DEF IsAnonymousFinding, Unattributed
    <3> QED
      BY <3>1, <3>2, FindingsOfScore
  <2> QED
    BY <2>3, <2>4, <2>5
<1>3. CASE x \in Anon(S) /\ ~Attributable(S)
  <2> DEFINE f == Compose(Anonymous, Unattributed(S), HiddenNamed(S))
  <2>1. x \in Unattributed(S)
    BY <1>3 DEF Unattributed
  <2>2. f \in score(S) /\ x \in f.evidence
    BY <2>1, <1>e DEF score
  <2>3. ASSUME NEW g \in score(S), x \in g.evidence PROVE g = f
    <3>1. ~IsNamedFinding(g, S)
      <4>1. SUFFICES ASSUME NEW y \in Named(S),
                            g = Compose(y.suspect, Group(S, y.suspect), {})
                     PROVE  FALSE
        BY DEF IsNamedFinding
      <4>2. x \in Group(S, y.suspect)
        BY <2>3, <4>1, <1>e
      <4> QED
        BY <4>2, <1>3, <1>d DEF Group, Attributable, HiddenNamed
    <3> QED
      BY <3>1, FindingsOfScore DEF IsAnonymousFinding
  <2> QED
    BY <2>2, <2>3
<1> QED
  BY <1>1, <1>2, <1>3, <1>d
-----------------------------------------------------------------------------
(* The signals of the process and socket views, for any snapshot *)

\* Both sweep channels speak of every process that was swept and not listed, ...
LEMMA ProcessSignalRaised ==
    ASSUME NEW s, NEW c \in {"syscall_kill", "direct_status"},
           NEW g \in SweptTgids(s) \ ListedIds(s),
           {"procfs.processes", "syscall_sweep.processes"} \subseteq s.present
    PROVE  Signal(c, Process(g), {FirstTask(s, g)}) \in signals_processes(s)
BY SMT DEF signals_processes

\* ... and of nothing else.
LEMMA ProcessSignalExplained ==
    ASSUME NEW s, NEW x \in signals_processes(s)
    PROVE  \E c \in {"syscall_kill", "direct_status"}, g \in SweptTgids(s) \ ListedIds(s) :
               x = Signal(c, Process(g), {FirstTask(s, g)})
BY DEF signals_processes

\* The socket channel speaks of every owner of a socket whose process is not
\* listed, ...
LEMMA SocketSignalRaised ==
    ASSUME NEW s, "procfs.sockets" \in s.present, NEW i \in DOMAIN s.sockets,
           NEW pid \in s.sockets[i], FoldOwner(s, pid) \notin ListedIds(s)
    PROVE  Signal("socket_visible", Process(FoldOwner(s, pid)), {i}) \in signals_sockets(s)
<1> DEFINE Of(j) == {Signal("socket_visible", Process(FoldOwner(s, q)), {j}) :
                        q \in {p \in s.sockets[j] : FoldOwner(s, p) \notin ListedIds(s)}}
<1>1. signals_sockets(s) = UNION {Of(j) : j \in DOMAIN s.sockets}
  BY Zenon DEF signals_sockets
<1>2. Signal("socket_visible", Process(FoldOwner(s, pid)), {i}) \in Of(i)
  BY Zenon
<1> HIDE DEF Of
<1> QED
  BY <1>1, <1>2, Zenon

\* ... and of nothing else.
LEMMA SocketSignalExplained ==
    ASSUME NEW s, NEW x \in signals_sockets(s)
    PROVE  \E i \in DOMAIN s.sockets : \E pid \in s.sockets[i] :
               /\ FoldOwner(s, pid) \notin ListedIds(s)
               /\ x = Signal("socket_visible", Process(FoldOwner(s, pid)), {i})
BY DEF signals_sockets
=============================================================================
