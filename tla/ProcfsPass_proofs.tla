-------------------------- MODULE ProcfsPass_proofs --------------------------
(***************************************************************************)
(* One procfs pass, live or replayed, for any pids, any processes and any  *)
(* number of faults: what a pass that ended says is true, a recording      *)
(* replays as what was recorded, and the reads of one pid, spread over     *)
(* time, have the effect of one visit (refinement of ListingPass).         *)
(***************************************************************************)
EXTENDS ProcfsPass, FiniteSetTheorems, TLAPS

AllFields == {"stat", "cmdline", "status", "exe"}

\* The fields read so far of a pid that is being read.
Prefixes == {{"stat"}, {"stat", "cmdline"}, {"stat", "cmdline", "status"}}

Recording == pc \in {"record", "synthesiseStat", "synthesiseStatus", "save"}

-----------------------------------------------------------------------------
(* The invariant of the program: types and the shape of what it collects *)

TypeOK ==
    /\ at \in [Pids -> Procs \cup {"none"}]
    /\ freed \subseteq Pids /\ begun \subseteq Pids /\ reused \subseteq freed
    /\ faults \in Nat
    /\ source \in {"live", "fixture"}
    /\ pc \in {"list", "read", "done", "record", "synthesiseStat", "synthesiseStatus", "save"}
    /\ todo \subseteq AllPids /\ dirs \subseteq AllPids
    /\ failed \in BOOLEAN

\* Who runs, and on which pids.
ControlTrue ==
    /\ Recording => source = "fixture"
    /\ source = "live" \/ pc = "record" => todo \subseteq Pids
    /\ failed => pc = "done" /\ result = <<>>
    /\ pc \notin {"read", "done"} => result = <<>>
    /\ pc = "done" /\ ~failed => todo = {}

\* The answers of the pid at hand.
GotShape ==
    \/ got = <<>>
    \/ /\ pc \in {"read", "record"} /\ todo # {}
       /\ DOMAIN got \in Prefixes
       /\ \A f \in DOMAIN got : got[f] \in AnswerValues
       /\ pc = "read" => Kind(got["stat"]) = "none"

\* What the collector makes of a pid.
Shape(r) ==
    /\ r.fate \in {"vanished", "undescribed", "described"}
    /\ r.fate # "described" => r.partial = {}
    /\ r.fate = "described" => "stat" \notin r.partial /\ r.value["stat"] # "none"
                               /\ DOMAIN r.value = AllFields

ResultShape ==
    /\ DOMAIN result \subseteq IF source = "live" THEN Pids ELSE AllPids
    /\ DOMAIN result \cap todo = {}
    /\ \A pid \in DOMAIN result : Shape(result[pid])

ProgramInv == TypeOK /\ ControlTrue /\ GotShape /\ ResultShape

-----------------------------------------------------------------------------
(* A live pass: answers and entities against the history of the host *)

\* A pid in use that was released has been given out again.
ReuseIsKnown == \A pid \in freed : at[pid] # "none" => pid \in reused

\* What value, absence and denial tell of the process whose stat was read.
Explained(pid, value, absent) ==
    /\ value["stat"] \in Procs
    /\ value["stat"] = at[pid] \/ pid \in freed
    /\ \A f \in DOMAIN value : value[f] # "none" =>
          /\ value[f] = value["stat"] \/ pid \in reused
          /\ f = "exe" => value[f] \notin Kernel
    /\ \A f \in absent : pid \in freed \/ (f = "exe" /\ value["stat"] \in Kernel)

Absent(answers) == {f \in DOMAIN answers : Kind(answers[f]) = "vanished"}

LiveGot ==
    source = "live" /\ got # <<>> =>
        \A pid \in todo : First(pid) => Explained(pid, Value(got), Absent(got))

LiveResult ==
    source = "live" =>
        \A pid \in DOMAIN result :
            /\ result[pid].fate = "described" =>
                  Explained(pid, result[pid].value,
                            {f \in AllFields \ result[pid].partial : result[pid].value[f] = "none"})
            /\ result[pid].fate = "vanished" => at[pid] = "none" \/ pid \in begun

\* A process that is there is to be read, was read, or came after the listing.
LiveListed ==
    source = "live" /\ pc \in {"read", "done"} /\ ~failed =>
        \A pid \in Pids : at[pid] # "none" => pid \in todo \cup DOMAIN result \cup begun

LiveInv == ReuseIsKnown /\ LiveGot /\ LiveResult /\ LiveListed

-----------------------------------------------------------------------------
(* A recording and its replay *)

\* The init process is there as long as the host is read.
InitStays == ~Replaying => at[1] \in Procs \ Kernel

HeardShape ==
    /\ DOMAIN heard \subseteq Pids
    /\ \A pid \in DOMAIN heard :
          /\ DOMAIN heard[pid] \in Prefixes \cup {AllFields}
          /\ \A f \in DOMAIN heard[pid] : heard[pid][f] \in AnswerValues
          /\ "exe" \in DOMAIN heard[pid] => heard[pid]["exe"] # "ESRCH"

\* The recorder has heard nothing yet of the pids to come.
HeardGot ==
    pc = "record" =>
        \A pid \in todo :
            IF got # <<>> /\ First(pid) THEN pid \in DOMAIN heard /\ heard[pid] = got
            ELSE pid \notin DOMAIN heard

\* Every answer is kept, as a file or as an errno, and nothing else is.
Kept(pid, f) ==
    LET a == heard[pid][f] IN
    IF Kind(a) \in {"none", "malformed"}
    THEN /\ <<pid, f>> \in DOMAIN tree /\ tree[<<pid, f>>] = a
         /\ <<pid, f>> \notin DOMAIN sidecar
    ELSE /\ <<pid, f>> \notin DOMAIN tree
         /\ (Replaying /\ ~Complete) \/ <<pid, f>> \in DOMAIN sidecar
         /\ <<pid, f>> \in DOMAIN sidecar => sidecar[<<pid, f>>] = Recorded(f, a)

RecordTrue ==
    \A pid \in Pids \ {Denied, Vanished}, f \in AllFields :
        IF pid \in DOMAIN heard /\ f \in DOMAIN heard[pid] THEN Kept(pid, f)
        ELSE <<pid, f>> \notin DOMAIN tree \cup DOMAIN sidecar

\* The made-up stat of Denied is one, unless pid 1 could not be read; a failure of
\* it is one the recorder met.
DeniedTrue ==
    /\ <<Denied, "stat">> \in DOMAIN sidecar =>
          /\ Denied \in DOMAIN heard
          /\ Kind(heard[Denied]["stat"]) \notin {"none", "malformed"}
    /\ pc \in {"synthesiseStatus", "save"} \/ (Replaying /\ Complete) =>
          /\ <<Denied, "stat">> \in DOMAIN tree
          /\ tree[<<Denied, "stat">>] = Sshd \/ (tree[<<Denied, "stat">>] = "malformed" /\ faults > 0)

SyntheticTrue ==
    pc = "save" \/ (Replaying /\ Complete) =>
        /\ Complete /\ sidecar[<<Denied, "exe">>] = "EACCES"
        /\ <<Vanished, "stat">> \in DOMAIN sidecar /\ sidecar[<<Vanished, "stat">>] = "ENOENT"

\* The collector makes of a pid what the fixture answers for it.
Answers(pid) == [f \in AllFields |-> FixtureAnswer(pid, f)]

ReplayTrue ==
    Replaying =>
        /\ \A pid \in DOMAIN result : result[pid] = Describe(Answers(pid))
        /\ \A pid \in todo : First(pid) => \A f \in DOMAIN got : got[f] = FixtureAnswer(pid, f)

FixtureInv ==
    /\ InitStays /\ HeardShape /\ HeardGot /\ RecordTrue /\ DeniedTrue
    /\ SyntheticTrue /\ ReplayTrue

-----------------------------------------------------------------------------
(* Lemmas about the operators *)

\* The order of the reads leaves no field out.
LEMMA FieldsAre == Range(Fields) = AllFields
BY DEF Range, Fields, AllFields

\* How many fields have been read.
LEMMA PrefixSizes ==
    /\ Cardinality({}) = 0 /\ Cardinality({"stat"}) = 1
    /\ Cardinality({"stat", "cmdline"}) = 2
    /\ Cardinality({"stat", "cmdline", "status"}) = 3
<1>1. IsFiniteSet({}) /\ Cardinality({}) = 0
  BY FS_EmptySet
<1>2. IsFiniteSet({"stat"}) /\ Cardinality({"stat"}) = 1
  BY FS_Singleton
<1>3. IsFiniteSet({"stat"} \cup {"cmdline"}) /\ Cardinality({"stat"} \cup {"cmdline"}) = 2
  BY <1>2, FS_AddElement
<1>4. {"stat"} \cup {"cmdline"} = {"stat", "cmdline"}
  OBVIOUS
<1>5. Cardinality({"stat", "cmdline"} \cup {"status"}) = 3
  BY <1>3, <1>4, FS_AddElement
<1>6. {"stat", "cmdline"} \cup {"status"} = {"stat", "cmdline", "status"}
  OBVIOUS
<1> QED
  BY <1>1, <1>2, <1>3, <1>4, <1>5, <1>6

\* The order in which the fields of a pid are read.
LEMMA FieldIs ==
    /\ got = <<>> => Field = "stat"
    /\ DOMAIN got = {"stat"} => Field = "cmdline"
    /\ DOMAIN got = {"stat", "cmdline"} => Field = "status"
    /\ DOMAIN got = {"stat", "cmdline", "status"} => Field = "exe"
<1>1. DOMAIN <<>> = {}
  OBVIOUS
<1>2. \A n \in 0 .. 3 : Cardinality(DOMAIN got) = n =>
         Field = IF n = 0 THEN "stat" ELSE IF n = 1 THEN "cmdline"
                 ELSE IF n = 2 THEN "status" ELSE "exe"
  BY DEF Field, Fields
<1> QED
  BY <1>1, <1>2, PrefixSizes

\* The answers and what they mean.
LEMMA KindOf ==
    ASSUME NEW a \in AnswerValues
    PROVE  /\ Kind(a) \in {"none", "vanished", "denied", "malformed", "io_error"}
           /\ Kind(a) = "none" <=> a \in Procs \cup {Sshd}
           /\ Kind(a) = "vanished" <=> a \in {"ENOENT", "ESRCH"}
           /\ Kind(a) = "denied" <=> a = "EACCES"
           /\ Kind(a) = "malformed" <=> a = "malformed"
           /\ Kind(a) = "io_error" <=> a = "EIO"
           /\ Kind(a) = "none" => a # "none"
BY ProcsAssumption DEF AnswerValues, Kind

\* One more answer for the pid at hand.
LEMMA GotNext ==
    ASSUME GotShape, NEW a \in AnswerValues
    PROVE  LET h == With(got, Field, a) IN
           /\ Field \in AllFields /\ Field \notin DOMAIN got
           /\ Field = "stat" <=> got = <<>>
           /\ DOMAIN h = DOMAIN got \cup {Field} /\ DOMAIN h \in Prefixes \cup {AllFields}
           /\ DOMAIN h = AllFields <=> Field = "exe"
           /\ Field = "stat" => DOMAIN h = {"stat"}
           /\ "stat" \in DOMAIN h
           /\ h[Field] = a /\ \A f \in DOMAIN got : h[f] = got[f]
           /\ \A f \in DOMAIN h : h[f] \in AnswerValues
<1> DEFINE h == With(got, Field, a)
<1>1. /\ DOMAIN h = DOMAIN got \cup {Field} /\ h[Field] = a
      /\ \A f \in DOMAIN got : f # Field => h[f] = got[f]
  BY DEF With
<1>2. DOMAIN <<>> = {}
  OBVIOUS
<1>3. /\ Field \in AllFields /\ Field \notin DOMAIN got
      /\ Field = "stat" <=> got = <<>>
      /\ Field = "exe" <=> DOMAIN got = {"stat", "cmdline", "status"}
      /\ DOMAIN got \cup {Field} \in Prefixes \cup {AllFields}
      /\ DOMAIN got \cup {Field} = AllFields <=> Field = "exe"
      /\ Field = "stat" => DOMAIN got = {}
      /\ Field # "stat" => "stat" \in DOMAIN got
  <2>1. CASE got = <<>>
    BY <2>1, <1>2, FieldIs DEF AllFields, Prefixes
  <2>2. CASE DOMAIN got = {"stat"}
    BY <2>2, <1>2, FieldIs DEF AllFields, Prefixes
  <2>3. CASE DOMAIN got = {"stat", "cmdline"}
    BY <2>3, <1>2, FieldIs DEF AllFields, Prefixes
  <2>4. CASE DOMAIN got = {"stat", "cmdline", "status"}
    BY <2>4, <1>2, FieldIs DEF AllFields, Prefixes
  <2> QED
    BY <2>1, <2>2, <2>3, <2>4 DEF GotShape, Prefixes
<1>4. \A f \in DOMAIN got : got[f] \in AnswerValues
  BY <1>2 DEF GotShape
<1>5. \A f \in DOMAIN h : h[f] \in AnswerValues
  BY <1>1, <1>3, <1>4
<1> HIDE DEF h
<1>6. "stat" \in DOMAIN h /\ \A f \in DOMAIN got : h[f] = got[f]
  BY <1>1, <1>3
<1>7. DOMAIN h \in Prefixes \cup {AllFields} /\ (DOMAIN h = AllFields <=> Field = "exe")
  BY <1>1, <1>3
<1>8. Field = "stat" => DOMAIN h = {"stat"}
  BY <1>1, <1>3
<1> QED
  BY <1>1, <1>3, <1>5, <1>6, <1>7, <1>8 DEF h

\* What the collector makes of the answers for a pid.
LEMMA DescribeIs ==
    ASSUME NEW h, "stat" \in DOMAIN h, \A f \in DOMAIN h : h[f] \in AnswerValues
    PROVE  /\ Kind(h["stat"]) = "vanished" => Describe(h).fate = "vanished"
           /\ Kind(h["stat"]) = "none" => Describe(h).fate = "described"
           /\ Kind(h["stat"]) \notin {"none", "vanished"} => Describe(h).fate = "undescribed"
           /\ Kind(h["stat"]) # "none" => Describe(h).partial = {}
           /\ Kind(h["stat"]) = "none" =>
                 /\ Describe(h).partial = {f \in DOMAIN h : Kind(h[f]) \notin {"none", "vanished"}}
                 /\ Describe(h).value = Value(h)
           /\ Kind(h["stat"]) # "none" => Describe(h).value = Value(<<>>)
<1>1. /\ Kind(h["stat"]) = "vanished" => Fate(h["stat"]) = "vanished"
      /\ Kind(h["stat"]) = "none" => Fate(h["stat"]) = "described"
      /\ Kind(h["stat"]) \notin {"none", "vanished"} => Fate(h["stat"]) = "undescribed"
  BY DEF Fate
<1>2. Describe(h) = [fate    |-> Fate(h["stat"]),
                     value   |-> Value(IF Fate(h["stat"]) = "described" THEN h ELSE <<>>),
                     partial |-> Partial(IF Fate(h["stat"]) = "described" THEN h ELSE <<>>)]
  BY DEF Describe
<1>3. Partial(<<>>) = {}
  BY DEF Partial
<1>4. Partial(h) = {f \in DOMAIN h : Kind(h[f]) \notin {"none", "vanished"}}
  BY DEF Partial
<1>5. Kind(h["stat"]) \in {"none", "vanished", "denied", "malformed", "io_error"}
  BY KindOf
<1>6. /\ Describe(h).fate = Fate(h["stat"])
      /\ Fate(h["stat"]) = "described" =>
            Describe(h).value = Value(h) /\ Describe(h).partial = Partial(h)
      /\ Fate(h["stat"]) # "described" =>
            Describe(h).value = Value(<<>>) /\ Describe(h).partial = Partial(<<>>)
  BY <1>2
<1> QED
  BY <1>1, <1>3, <1>4, <1>5, <1>6

\* The value of a field is its answer, or nothing.
LEMMA ValueIs ==
    ASSUME NEW h, \A f \in DOMAIN h : h[f] \in AnswerValues
    PROVE  /\ DOMAIN Value(h) = DOMAIN h
           /\ \A f \in DOMAIN h : /\ Kind(h[f]) = "none" => Value(h)[f] = h[f] /\ h[f] # "none"
                                  /\ Kind(h[f]) # "none" => Value(h)[f] = "none"
BY KindOf DEF Value

\* The answer a of the pid at hand is the last one it needs, or it is not.
ReadIs(pid, a) ==
    LET h == With(got, Field, a) IN
    /\ ReadSource(pid, Field, a)
    /\ pc = "read" /\ pc' = pc /\ failed' = failed /\ pid \in todo /\ First(pid)
    /\ \/ /\ DOMAIN h = AllFields /\ Kind(h["stat"]) = "none" /\ got # <<>>
          /\ result' = With(result, pid, Describe(h)) /\ got' = <<>> /\ todo' = todo \ {pid}
       \/ /\ got = <<>> /\ DOMAIN h = {"stat"} /\ Kind(h["stat"]) # "none"
          /\ result' = With(result, pid, Describe(h)) /\ got' = <<>> /\ todo' = todo \ {pid}
       \/ /\ DOMAIN h \in Prefixes /\ Kind(h["stat"]) = "none"
          /\ got' = h /\ result' = result /\ todo' = todo

\* A read of the collector ends in one of those ways.
LEMMA ReadCases ==
    ASSUME ProgramInv, NEW pid \in AllPids, Read(pid)
    PROVE  \E a \in AnswerValues : ReadIs(pid, a)
<1>1. PICK a \in AnswerValues :
         /\ ReadSource(pid, Field, a)
         /\ IF Field = "exe" \/ Kind(With(got, Field, a)["stat"]) # "none"
            THEN /\ result' = With(result, pid, Describe(With(got, Field, a)))
                 /\ got' = <<>> /\ todo' = todo \ {pid}
            ELSE got' = With(got, Field, a) /\ UNCHANGED <<result, todo>>
  BY DEF Read
<1> DEFINE h == With(got, Field, a)
<1>2. /\ Field \in AllFields /\ Field \notin DOMAIN got
      /\ Field = "stat" <=> got = <<>>
      /\ DOMAIN h = DOMAIN got \cup {Field} /\ DOMAIN h \in Prefixes \cup {AllFields}
      /\ DOMAIN h = AllFields <=> Field = "exe"
      /\ Field = "stat" => DOMAIN h = {"stat"}
      /\ "stat" \in DOMAIN h
      /\ \A f \in DOMAIN got : h[f] = got[f]
  BY GotNext DEF ProgramInv
<1>3. pc = "read" /\ pc' = pc /\ failed' = failed /\ pid \in todo /\ First(pid)
  BY DEF Read, First
<1>4. got # <<>> => Kind(h["stat"]) = "none"
  BY <1>2, <1>3 DEF ProgramInv, GotShape
<1> HIDE DEF h
<1>5. /\ IF Field = "exe" \/ Kind(h["stat"]) # "none"
         THEN /\ result' = With(result, pid, Describe(h))
              /\ got' = <<>> /\ todo' = todo \ {pid}
         ELSE got' = h /\ result' = result /\ todo' = todo
      /\ ReadSource(pid, Field, a)
  BY <1>1 DEF h
<1>6. \/ /\ DOMAIN h = AllFields /\ Kind(h["stat"]) = "none" /\ got # <<>>
         /\ result' = With(result, pid, Describe(h)) /\ got' = <<>> /\ todo' = todo \ {pid}
      \/ /\ got = <<>> /\ DOMAIN h = {"stat"} /\ Kind(h["stat"]) # "none"
         /\ result' = With(result, pid, Describe(h)) /\ got' = <<>> /\ todo' = todo \ {pid}
      \/ /\ DOMAIN h \in Prefixes /\ Kind(h["stat"]) = "none"
         /\ got' = h /\ result' = result /\ todo' = todo
  <2>1. CASE Field = "exe"
    BY <2>1, <1>2, <1>4, <1>5
  <2>2. CASE Field # "exe" /\ Kind(h["stat"]) # "none"
    BY <2>2, <1>2, <1>4, <1>5
  <2>3. CASE Field # "exe" /\ Kind(h["stat"]) = "none"
    BY <2>3, <1>2, <1>5
  <2> QED
    BY <2>1, <2>2, <2>3
<1> QED
  BY <1>3, <1>5, <1>6 DEF h, ReadIs

-----------------------------------------------------------------------------
(* The invariant of the program *)

\* The first state.
LEMMA ProgramInit == Init => ProgramInv
<1> SUFFICES ASSUME Init PROVE ProgramInv
  OBVIOUS
<1>1. TypeOK
  BY DEF Init, TypeOK, AllPids
<1>2. ControlTrue /\ GotShape
  BY DEF Init, ControlTrue, GotShape, Recording
<1>3. ResultShape
  <2>1. DOMAIN <<>> = {}
    OBVIOUS
  <2> QED
    BY <2>1 DEF Init, ResultShape
<1> QED
  BY <1>1, <1>2, <1>3 DEF ProgramInv

\* The host changes what it is made of, and nothing of the program.
LEMMA HostStepIs ==
    ASSUME TypeOK, HostStep
    PROVE  /\ at' \in [Pids -> Procs \cup {"none"}]
           /\ freed' \subseteq Pids /\ begun' \subseteq Pids /\ reused' \subseteq freed'
           /\ UNCHANGED <<faults, source, pc, todo, got, result, failed, heard, tree, sidecar, dirs>>
           /\ freed \subseteq freed' /\ begun \subseteq begun' /\ reused \subseteq reused'
           /\ \A pid \in Pids :
                 \/ at'[pid] = at[pid]
                 \/ at[pid] # "none" /\ at'[pid] = "none" /\ pid # 1 /\ pid \in freed'
                 \/ /\ at[pid] = "none" /\ at'[pid] \in Procs /\ pid \in begun'
                    /\ pid \in freed' => pid \in reused'
<1>1. UNCHANGED <<faults, source, pc, todo, got, result, failed, heard, tree, sidecar, dirs>>
  BY DEF HostStep, collectorVars, fixtureVars
<1>2. ASSUME NEW q \in Pids, Exit(q)
      PROVE  /\ at' \in [Pids -> Procs \cup {"none"}]
             /\ freed' \subseteq Pids /\ begun' \subseteq Pids /\ reused' \subseteq freed'
             /\ freed \subseteq freed' /\ begun \subseteq begun' /\ reused \subseteq reused'
             /\ \A pid \in Pids :
                   \/ at'[pid] = at[pid]
                   \/ at[pid] # "none" /\ at'[pid] = "none" /\ pid # 1 /\ pid \in freed'
  BY <1>2 DEF Exit, TypeOK
<1>3. ASSUME NEW q \in Pids, NEW p \in Procs, Spawn(q, p)
      PROVE  /\ at' \in [Pids -> Procs \cup {"none"}]
             /\ freed' \subseteq Pids /\ begun' \subseteq Pids /\ reused' \subseteq freed'
             /\ freed \subseteq freed' /\ begun \subseteq begun' /\ reused \subseteq reused'
             /\ \A pid \in Pids :
                   \/ at'[pid] = at[pid]
                   \/ /\ at[pid] = "none" /\ at'[pid] \in Procs /\ pid \in begun'
                      /\ pid \in freed' => pid \in reused'
  BY <1>3 DEF Spawn, TypeOK
<1>4. \E q \in Pids : Exit(q) \/ \E p \in Procs : Spawn(q, p)
  BY DEF HostStep
<1> QED
  BY <1>1, <1>2, <1>3, <1>4

\* The recorded host is out of sight.
LEMMA LeaveHostIs ==
    ASSUME LeaveHost
    PROVE  /\ at' \in [Pids -> Procs \cup {"none"}]
           /\ freed' = {} /\ begun' = {} /\ reused' = {}
BY DEF LeaveHost

\* A read costs at most a fault.
LEMMA ReadFaults ==
    ASSUME TypeOK, NEW pid, NEW f, NEW a, ReadLive(pid, f, a) \/ ReadSource(pid, f, a)
    PROVE  faults' \in Nat /\ faults <= faults'
BY DEF ReadLive, ReadSource, Fault, TypeOK

\* What the collector makes of a pid has the shape of it.
LEMMA DescribeShape ==
    ASSUME NEW h, \A f \in DOMAIN h : h[f] \in AnswerValues,
           DOMAIN h = AllFields \/ (DOMAIN h = {"stat"} /\ Kind(h["stat"]) # "none")
    PROVE  Shape(Describe(h))
<1>1. "stat" \in DOMAIN h
  BY DEF AllFields
<1>2. Kind(h["stat"]) \in {"none", "vanished", "denied", "malformed", "io_error"}
  BY <1>1, KindOf
<1>3. CASE Kind(h["stat"]) # "none"
  BY <1>1, <1>2, <1>3, DescribeIs DEF Shape
<1>4. CASE Kind(h["stat"]) = "none"
  <2>1. DOMAIN h = AllFields
    BY <1>4
  <2>2. /\ Describe(h).fate = "described" /\ Describe(h).value = Value(h)
        /\ Describe(h).partial = {f \in DOMAIN h : Kind(h[f]) \notin {"none", "vanished"}}
    BY <1>1, <1>4, DescribeIs
  <2>3. DOMAIN Value(h) = AllFields /\ Value(h)["stat"] # "none"
    BY <1>1, <1>4, <2>1, ValueIs
  <2> QED
    BY <1>4, <2>2, <2>3 DEF Shape
<1> QED
  BY <1>3, <1>4

\* A step of the collector.
LEMMA CollectorProgram ==
    ASSUME ProgramInv, Collector, UNCHANGED <<hostVars, source>>
    PROVE  ProgramInv'
<1>0. TypeOK /\ ControlTrue /\ GotShape /\ ResultShape
  BY DEF ProgramInv
<1>1. UNCHANGED <<at, freed, begun, reused, source, heard, tree, sidecar, dirs>>
  BY DEF Collector, hostVars, fixtureVars
<1>2. CASE ListPids
  <2>1. /\ pc = "list" /\ pc' = "read" /\ UNCHANGED <<got, result, failed, faults>>
        /\ todo' = Listing /\ result = <<>> /\ got = <<>>
    BY <1>0, <1>2 DEF ListPids, ControlTrue, GotShape
  <2>2. Listing \subseteq AllPids /\ (source = "live" => Listing \subseteq Pids)
    BY <1>0 DEF Listing, TypeOK, AllPids
  <2>3. TypeOK'
    BY <1>0, <1>1, <2>1, <2>2 DEF TypeOK
  <2>4. ControlTrue' /\ GotShape'
    BY <1>0, <1>1, <2>1, <2>2 DEF ControlTrue, GotShape, Recording
  <2>5. ResultShape'
    <3>1. DOMAIN <<>> = {}
      OBVIOUS
    <3> QED
      BY <2>1, <3>1 DEF ResultShape
  <2> QED
    BY <2>3, <2>4, <2>5 DEF ProgramInv
<1>3. CASE ListPidsFails
  <2>1. /\ pc = "list" /\ source = "live" /\ pc' = "done" /\ failed' = TRUE /\ faults' \in Nat
        /\ UNCHANGED <<todo, got, result>> /\ result = <<>> /\ got = <<>>
    BY <1>0, <1>3 DEF ListPidsFails, Fault, ControlTrue, GotShape, TypeOK
  <2>2. TypeOK'
    BY <1>0, <1>1, <2>1 DEF TypeOK
  <2>3. ControlTrue' /\ GotShape'
    BY <1>0, <1>1, <2>1 DEF ControlTrue, GotShape, Recording
  <2>4. ResultShape'
    BY <1>0, <1>1, <2>1 DEF ResultShape
  <2> QED
    BY <2>2, <2>3, <2>4 DEF ProgramInv
<1>4. CASE EndPass
  <2>1. pc = "read" /\ pc' = "done" /\ todo = {} /\ UNCHANGED <<todo, got, result, failed, faults>>
    BY <1>4 DEF EndPass
  <2>2. TypeOK'
    BY <1>0, <1>1, <2>1 DEF TypeOK
  <2>3. ControlTrue' /\ GotShape'
    BY <1>0, <1>1, <2>1 DEF ControlTrue, GotShape, Recording
  <2>4. ResultShape'
    BY <1>0, <1>1, <2>1 DEF ResultShape
  <2> QED
    BY <2>2, <2>3, <2>4 DEF ProgramInv
<1>5. ASSUME NEW pid \in AllPids, Read(pid) PROVE ProgramInv'
  <2>1. PICK a \in AnswerValues : ReadIs(pid, a)
    BY <1>5, ReadCases
  <2> DEFINE h == With(got, Field, a)
  <2>2. \A f \in DOMAIN h : h[f] \in AnswerValues
    BY <1>0, GotNext
  <2> HIDE DEF h
  <2>3. /\ pc = "read" /\ pc' = pc /\ failed' = failed /\ pid \in todo
        /\ \/ /\ DOMAIN h = AllFields \/ (DOMAIN h = {"stat"} /\ Kind(h["stat"]) # "none")
              /\ result' = With(result, pid, Describe(h)) /\ got' = <<>> /\ todo' = todo \ {pid}
           \/ /\ DOMAIN h \in Prefixes /\ Kind(h["stat"]) = "none"
              /\ got' = h /\ result' = result /\ todo' = todo
    BY <2>1 DEF h, ReadIs
  <2>4. faults' \in Nat
    BY <1>0, <2>1, ReadFaults DEF ReadIs
  <2>5. TypeOK'
    BY <1>0, <1>1, <2>3, <2>4 DEF TypeOK
  <2>6. ControlTrue'
    BY <1>0, <1>1, <2>3 DEF ControlTrue, Recording, TypeOK
  <2>7. GotShape'
    BY <2>2, <2>3 DEF GotShape
  <2>8. ResultShape'
    <3>1. CASE result' = result /\ todo' = todo
      BY <3>1, <1>0, <1>1 DEF ResultShape
    <3>2. CASE /\ DOMAIN h = AllFields \/ (DOMAIN h = {"stat"} /\ Kind(h["stat"]) # "none")
               /\ result' = With(result, pid, Describe(h)) /\ todo' = todo \ {pid}
      <4>1. Shape(Describe(h))
        BY <3>2, <2>2, DescribeShape
      <4> DEFINE d == Describe(h)
      <4>4. Shape(d) /\ result' = With(result, pid, d)
        BY <3>2, <4>1
      <4> HIDE DEF d
      <4>2. /\ DOMAIN result' = DOMAIN result \cup {pid} /\ result'[pid] = d
            /\ \A q \in DOMAIN result : q # pid => result'[q] = result[q]
        BY <4>4 DEF With
      <4>3. pid \in IF source = "live" THEN Pids ELSE AllPids
        BY <1>0, <2>3 DEF ControlTrue
      <4>5. \A q \in DOMAIN result' : Shape(result'[q])
        BY <4>2, <4>4, <1>0 DEF ResultShape
      <4> QED
        BY <3>2, <4>2, <4>3, <4>5, <1>0, <1>1 DEF ResultShape
    <3> QED
      BY <2>3, <3>1, <3>2
  <2> QED
    BY <2>5, <2>6, <2>7, <2>8 DEF ProgramInv
<1> QED
  BY <1>2, <1>3, <1>4, <1>5 DEF Collector

\* A step of the recorder.
LEMMA RecorderProgram ==
    ASSUME ProgramInv, Recorder, UNCHANGED <<hostVars, source>>
    PROVE  ProgramInv'
<1>0. TypeOK /\ ControlTrue /\ GotShape /\ ResultShape
  BY DEF ProgramInv
<1>1. UNCHANGED <<at, freed, begun, reused, source>>
  BY DEF hostVars
<1>2. CASE EndRoster
  <2>1. /\ pc = "record" /\ todo = {} /\ pc' = "synthesiseStat"
        /\ UNCHANGED <<todo, got, result, failed, faults, dirs>> /\ got = <<>>
    BY <1>0, <1>2 DEF EndRoster, fixtureVars, GotShape
  <2>2. TypeOK'
    BY <1>0, <1>1, <2>1 DEF TypeOK
  <2>3. ControlTrue' /\ GotShape'
    BY <1>0, <1>1, <2>1 DEF ControlTrue, GotShape, Recording
  <2>4. ResultShape'
    BY <1>0, <1>1, <2>1 DEF ResultShape
  <2> QED
    BY <2>2, <2>3, <2>4 DEF ProgramInv
<1>3. CASE SynthesiseStat \/ SynthesiseStatus
  <2>1. /\ pc \in {"synthesiseStat", "synthesiseStatus"} /\ pc' \in {"synthesiseStatus", "save"}
        /\ UNCHANGED <<todo, got, result, failed>> /\ got = <<>>
        /\ dirs' \subseteq dirs \cup {Denied, Vanished}
    BY <1>0, <1>3 DEF SynthesiseStat, SynthesiseStatus, GotShape
  <2>2. faults' \in Nat
    BY <1>0, <1>3, ReadFaults DEF SynthesiseStat, SynthesiseStatus
  <2>3. TypeOK'
    BY <1>0, <1>1, <2>1, <2>2 DEF TypeOK, AllPids
  <2>4. ControlTrue' /\ GotShape'
    BY <1>0, <1>1, <2>1 DEF ControlTrue, GotShape, Recording
  <2>5. ResultShape'
    BY <1>0, <1>1, <2>1 DEF ResultShape
  <2> QED
    BY <2>3, <2>4, <2>5 DEF ProgramInv
<1>4. ASSUME NEW pid \in Pids, Record(pid) PROVE ProgramInv'
  <2>1. PICK a \in AnswerValues :
           /\ ReadLive(pid, Field, a)
           /\ IF Field = "exe" THEN got' = <<>> /\ todo' = todo \ {pid}
              ELSE got' = With(got, Field, a) /\ UNCHANGED todo
    BY <1>4 DEF Record
  <2>2. /\ pc = "record" /\ pc' = pc /\ UNCHANGED <<result, failed>> /\ dirs' = dirs \cup {pid}
        /\ pid \in todo
    BY <1>4 DEF Record, First
  <2> DEFINE h == With(got, Field, a)
  <2>3. /\ DOMAIN h \in Prefixes \cup {AllFields}
        /\ DOMAIN h = AllFields <=> Field = "exe"
        /\ \A f \in DOMAIN h : h[f] \in AnswerValues
    BY <1>0, GotNext
  <2>4. faults' \in Nat
    BY <1>0, <2>1, ReadFaults
  <2>5. TypeOK'
    BY <1>0, <1>1, <2>1, <2>2, <2>4 DEF TypeOK, AllPids
  <2>6. ControlTrue'
    BY <1>0, <1>1, <2>1, <2>2 DEF ControlTrue, Recording
  <2>7. GotShape'
    <3> HIDE DEF h
    <3>1. (got' = <<>>) \/ (got' = h /\ Field # "exe" /\ todo' = todo)
      BY <2>1 DEF h
    <3> QED
      BY <3>1, <2>2, <2>3 DEF GotShape
  <2>8. ResultShape'
    BY <1>0, <1>1, <2>1, <2>2 DEF ResultShape
  <2> QED
    BY <2>5, <2>6, <2>7, <2>8 DEF ProgramInv
<1> QED
  BY <1>2, <1>3, <1>4 DEF Recorder

\* The recorder ends, by itself or not.
LEMMA LeaveProgram ==
    ASSUME ProgramInv, Save \/ KillRecorder, LeaveHost, UNCHANGED source
    PROVE  ProgramInv'
<1>0. TypeOK /\ ControlTrue /\ GotShape /\ ResultShape
  BY DEF ProgramInv
<1>1. /\ at' \in [Pids -> Procs \cup {"none"}]
      /\ freed' = {} /\ begun' = {} /\ reused' = {}
  BY LeaveHostIs
<1>2. /\ Recording /\ pc' = "list" /\ UNCHANGED <<result, failed, faults, dirs>>
      /\ todo' \subseteq todo /\ got' = <<>> /\ (todo' = {} \/ todo' = todo)
  BY <1>0 DEF Save, KillRecorder, fixtureVars, Recording, GotShape
<1>3. TypeOK'
  BY <1>0, <1>1, <1>2 DEF TypeOK
<1>4. ControlTrue' /\ GotShape'
  BY <1>0, <1>2 DEF ControlTrue, GotShape, Recording, TypeOK
<1>5. ResultShape'
  BY <1>0, <1>2 DEF ResultShape
<1> QED
  BY <1>3, <1>4, <1>5 DEF ProgramInv

\* A step of the host, or none.
LEMMA HostProgram ==
    ASSUME ProgramInv, HostStep \/ UNCHANGED vars
    PROVE  ProgramInv'
<1>0. TypeOK /\ ControlTrue /\ GotShape /\ ResultShape
  BY DEF ProgramInv
<1>1. /\ at' \in [Pids -> Procs \cup {"none"}]
      /\ freed' \subseteq Pids /\ begun' \subseteq Pids /\ reused' \subseteq freed'
      /\ UNCHANGED <<faults, source, pc, todo, got, result, failed, heard, tree, sidecar, dirs>>
  <2>1. CASE HostStep
    BY <1>0, <2>1, HostStepIs
  <2>2. CASE UNCHANGED vars
    BY <1>0, <2>2 DEF vars, hostVars, collectorVars, fixtureVars, TypeOK
  <2> QED
    BY <2>1, <2>2
<1>2. TypeOK'
  BY <1>0, <1>1 DEF TypeOK
<1>3. ControlTrue' /\ GotShape'
  BY <1>0, <1>1 DEF ControlTrue, GotShape, Recording
<1>4. ResultShape'
  BY <1>0, <1>1 DEF ResultShape
<1> QED
  BY <1>2, <1>3, <1>4 DEF ProgramInv

\* The kinds of steps there are.
LEMMA NextCases ==
    ASSUME [Next]_vars
    PROVE  \/ Collector /\ UNCHANGED <<hostVars, source>>
           \/ Recorder /\ UNCHANGED <<hostVars, source>>
           \/ (Save \/ KillRecorder) /\ LeaveHost /\ UNCHANGED source
           \/ HostStep
           \/ UNCHANGED vars
BY DEF Next, ProgramStep, Crash, Terminated

\* Every step preserves it.
LEMMA ProgramNext == ProgramInv /\ [Next]_vars => ProgramInv'
BY NextCases, CollectorProgram, RecorderProgram, LeaveProgram, HostProgram

\* The program keeps its types and the shape of what it collects.
THEOREM ProgramInvariance == Spec => []ProgramInv
BY ProgramInit, ProgramNext, PTL DEF Spec

-----------------------------------------------------------------------------
(* The live pass *)

\* What a read of the live source tells of the process that has the pid.
LEMMA LiveReads ==
    ASSUME TypeOK, NEW pid \in Pids, NEW f, NEW a \in AnswerValues, ReadLive(pid, f, a)
    PROVE  /\ Kind(a) = "none" => a = at[pid] /\ a \in Procs /\ (f = "exe" => a \notin Kernel)
           /\ Kind(a) = "vanished" => at[pid] = "none" \/ (f = "exe" /\ at[pid] \in Kernel)
           /\ Kind(a) # "vanished" => at[pid] # "none"
           /\ f = "exe" => a # "ESRCH"
           /\ at[pid] \in Procs \ Kernel /\ Kind(a) # "none" => faults' > 0
<1>1. at[pid] \in Procs \cup {"none"}
  BY DEF TypeOK
<1>2. CASE a = LiveAnswer(pid, f)
  BY <1>1, <1>2, KindOf, ProcsAssumption DEF LiveAnswer
<1>3. CASE a \in OddAnswers(pid, f) /\ Fault
  <2>1. faults' > 0
    BY <1>3 DEF Fault, TypeOK
  <2>2. at[pid] = "none" => a = "ESRCH" /\ f # "exe"
    BY <1>3 DEF OddAnswers
  <2>3. at[pid] # "none" => a \in {"EACCES", "EIO", "malformed"}
    BY <1>3 DEF OddAnswers
  <2>4. a \in {"ESRCH", "EACCES", "EIO", "malformed"} => Kind(a) # "none"
    BY KindOf, ProcsAssumption
  <2>5. /\ a \in {"EACCES", "EIO", "malformed"} => Kind(a) # "vanished"
        /\ a = "ESRCH" => Kind(a) = "vanished"
    BY KindOf
  <2> QED
    BY <2>1, <2>2, <2>3, <2>4, <2>5
<1> QED
  BY <1>2, <1>3 DEF ReadLive

\* One more answer for a pid is explained if those before it are.
LEMMA ExplainedNext ==
    ASSUME TypeOK, GotShape, ReuseIsKnown, NEW pid \in Pids, NEW a \in AnswerValues,
           ReadLive(pid, Field, a), Kind(With(got, Field, a)["stat"]) = "none",
           got # <<>> => Explained(pid, Value(got), Absent(got))
    PROVE  Explained(pid, Value(With(got, Field, a)), Absent(With(got, Field, a)))
<1> DEFINE h == With(got, Field, a)
<1>1. /\ Field \notin DOMAIN got
      /\ Field = "stat" <=> got = <<>>
      /\ DOMAIN h = DOMAIN got \cup {Field}
      /\ "stat" \in DOMAIN h
      /\ h[Field] = a /\ \A f \in DOMAIN got : h[f] = got[f]
      /\ \A f \in DOMAIN h : h[f] \in AnswerValues
  BY GotNext
<1>0. Kind(h["stat"]) = "none"
  OBVIOUS
<1> HIDE DEF h
<1>2. /\ DOMAIN Value(h) = DOMAIN h
      /\ \A f \in DOMAIN h : /\ Kind(h[f]) = "none" => Value(h)[f] = h[f] /\ h[f] # "none"
                             /\ Kind(h[f]) # "none" => Value(h)[f] = "none"
  BY <1>1, ValueIs
<1>3. /\ Kind(a) = "none" => a = at[pid] /\ a \in Procs /\ (Field = "exe" => a \notin Kernel)
      /\ Kind(a) = "vanished" => at[pid] = "none" \/ (Field = "exe" /\ at[pid] \in Kernel)
  BY LiveReads
<1>r. pid \in freed /\ at[pid] # "none" => pid \in reused
  BY DEF ReuseIsKnown
<1>n. "none" \notin Procs /\ Kernel \subseteq Procs
  BY ProcsAssumption, PassAssumption
<1>4. CASE got = <<>>
  <2>1. DOMAIN h = {"stat"} /\ h["stat"] = a
    BY <1>1, <1>4
  <2>2. Value(h)["stat"] = a /\ a = at[pid] /\ a \in Procs
    BY <1>0, <1>2, <1>3, <2>1
  <2>3. Absent(h) = {}
    BY <1>0, <2>1 DEF Absent
  <2> QED
    BY <1>2, <2>1, <2>2, <2>3 DEF Explained, h
<1>5. CASE got # <<>>
  <2>1. \A f \in DOMAIN got : got[f] \in AnswerValues
    BY <1>1
  <2>2. /\ DOMAIN Value(got) = DOMAIN got
        /\ \A f \in DOMAIN got : /\ Kind(got[f]) = "none" => Value(got)[f] = got[f]
                                 /\ Kind(got[f]) # "none" => Value(got)[f] = "none"
    BY <2>1, ValueIs
  <2>3. "stat" \in DOMAIN got /\ h["stat"] = got["stat"] /\ Value(got)["stat"] = h["stat"]
        /\ Value(h)["stat"] = h["stat"]
    BY <1>0, <1>1, <1>2, <1>5, <2>2
  <2>4. /\ h["stat"] \in Procs /\ (h["stat"] = at[pid] \/ pid \in freed)
        /\ \A f \in DOMAIN got : Value(got)[f] # "none" =>
              /\ Value(got)[f] = h["stat"] \/ pid \in reused
              /\ f = "exe" => Value(got)[f] \notin Kernel
        /\ \A f \in Absent(got) : pid \in freed \/ (f = "exe" /\ h["stat"] \in Kernel)
    BY <1>5, <2>2, <2>3 DEF Explained
  <2>5. ASSUME NEW f \in DOMAIN h, Value(h)[f] # "none"
        PROVE  /\ Value(h)[f] = h["stat"] \/ pid \in reused
               /\ f = "exe" => Value(h)[f] \notin Kernel
    <3>1. Kind(h[f]) = "none" /\ Value(h)[f] = h[f]
      BY <2>5, <1>2
    <3>2. CASE f \in DOMAIN got
      <4>1. Value(got)[f] = h[f] /\ h[f] # "none"
        BY <3>1, <3>2, <1>1, <1>2, <2>2
      <4> QED
        BY <3>1, <3>2, <4>1, <2>4
    <3>3. CASE f = Field
      BY <3>1, <3>3, <1>1, <1>3, <1>r, <1>n, <2>4
    <3> QED
      BY <3>2, <3>3, <1>1
  <2>6. ASSUME NEW f \in Absent(h)
        PROVE  pid \in freed \/ (f = "exe" /\ h["stat"] \in Kernel)
    <3>1. f \in DOMAIN h /\ Kind(h[f]) = "vanished"
      BY DEF Absent
    <3>2. CASE f \in DOMAIN got
      BY <3>1, <3>2, <1>1, <2>4 DEF Absent
    <3>3. CASE f = Field
      BY <3>1, <3>3, <1>1, <1>3, <1>n, <2>4
    <3> QED
      BY <3>1, <3>2, <3>3, <1>1
  <2>7. Explained(pid, Value(h), Absent(h))
    BY <1>2, <2>3, <2>4, <2>5, <2>6 DEF Explained
  <2> QED
    BY <2>7 DEF h
<1> QED
  BY <1>4, <1>5

\* The pid at hand is one.
LEMMA FirstIsOne ==
    ASSUME todo \subseteq AllPids, NEW x \in todo, NEW y \in todo, First(x), First(y)
    PROVE  x = y
<1>1. x \in Nat /\ y \in Nat /\ x <= y /\ y <= x
  BY PassAssumption DEF First, AllPids
<1> QED
  BY <1>1

\* What the host does leaves an entity explained.
LEMMA ExplainedStays ==
    ASSUME TypeOK, HostStep, NEW pid \in Pids, NEW v, NEW absent, Explained(pid, v, absent)
    PROVE  Explained(pid, v, absent)'
<1>1. /\ freed \subseteq freed' /\ reused \subseteq reused'
      /\ \/ at'[pid] = at[pid]
         \/ at[pid] # "none" /\ pid \in freed'
         \/ at[pid] = "none"
  BY HostStepIs
<1>2. "none" \notin Procs
  BY ProcsAssumption
<1> QED
  BY <1>1, <1>2 DEF Explained

\* A step of the host adds to the history that explains the collected.
LEMMA LiveHost ==
    ASSUME ProgramInv, LiveInv, HostStep
    PROVE  LiveInv'
<1>0. TypeOK /\ ResultShape /\ ControlTrue
  BY DEF ProgramInv
<1>1. /\ freed' \subseteq Pids
      /\ UNCHANGED <<faults, source, pc, todo, got, result, failed, heard, tree, sidecar, dirs>>
      /\ freed \subseteq freed' /\ begun \subseteq begun' /\ reused \subseteq reused'
      /\ \A pid \in Pids :
            \/ at'[pid] = at[pid]
            \/ at[pid] # "none" /\ at'[pid] = "none" /\ pid # 1 /\ pid \in freed'
            \/ /\ at[pid] = "none" /\ at'[pid] \in Procs /\ pid \in begun'
               /\ pid \in freed' => pid \in reused'
  BY <1>0, HostStepIs
<1>2. ReuseIsKnown'
  <2>1. freed' = freed \/ \E q \in Pids : freed' = freed \cup {q} /\ at'[q] = "none"
    BY <1>0 DEF HostStep, Exit, Spawn, TypeOK
  <2> QED
    BY <1>1, <2>1 DEF LiveInv, ReuseIsKnown
<1>3. LiveGot'
  <2> SUFFICES ASSUME source = "live", got # <<>>, NEW pid \in todo, First(pid)
               PROVE  Explained(pid, Value(got), Absent(got))'
    BY <1>1 DEF LiveGot, First
  <2>1. pid \in Pids /\ Explained(pid, Value(got), Absent(got))
    BY <1>0 DEF LiveInv, LiveGot, ControlTrue
  <2>2. Value(got)' = Value(got) /\ Absent(got)' = Absent(got)
    BY <1>1 DEF Value, Absent
  <2>3. \A v, absent : Explained(pid, v, absent) => Explained(pid, v, absent)'
    BY <1>0, <2>1, ExplainedStays
  <2> QED
    BY <2>1, <2>2, <2>3 DEF Explained
<1>4. LiveResult'
  <2> SUFFICES ASSUME source = "live", NEW pid \in DOMAIN result
      PROVE  /\ result[pid].fate = "described" =>
                  Explained(pid, result[pid].value,
                     {f \in AllFields \ result[pid].partial : result[pid].value[f] = "none"})'
             /\ result[pid].fate = "vanished" => at'[pid] = "none" \/ pid \in begun'
    BY <1>1 DEF LiveResult
  <2>1. pid \in Pids
    BY <1>0 DEF ResultShape
  <2> DEFINE v == result[pid].value
             absent == {f \in AllFields \ result[pid].partial : result[pid].value[f] = "none"}
  <2>2. result[pid].fate = "vanished" => at'[pid] = "none" \/ pid \in begun'
    BY <1>1, <2>1 DEF LiveInv, LiveResult
  <2>3. ASSUME result[pid].fate = "described" PROVE Explained(pid, v, absent)'
    <3>1. Explained(pid, v, absent)
      BY <2>3 DEF LiveInv, LiveResult
    <3>2. v' = v /\ absent' = absent
      BY <1>1
    <3>3. \A w, x : Explained(pid, w, x) => Explained(pid, w, x)'
      BY <1>0, <2>1, ExplainedStays
    <3> HIDE DEF v, absent
    <3> QED
      BY <3>1, <3>2, <3>3 DEF Explained
  <2> QED
    BY <2>2, <2>3
<1>5. LiveListed'
  BY <1>1 DEF LiveInv, LiveListed
<1> QED
  BY <1>2, <1>3, <1>4, <1>5 DEF LiveInv

\* One read of the collector over the live source.
LEMMA LiveRead ==
    ASSUME ProgramInv, LiveInv, source = "live", NEW pid \in AllPids, Read(pid),
           UNCHANGED <<at, freed, begun, reused, source>>
    PROVE  LiveGot' /\ LiveResult' /\ LiveListed'
<1>0. TypeOK /\ ControlTrue /\ GotShape /\ ResultShape
  BY DEF ProgramInv
<1>1. PICK a \in AnswerValues : ReadIs(pid, a)
  BY ReadCases
<1> DEFINE h == With(got, Field, a)
<1>2. /\ Field = "stat" <=> got = <<>>
      /\ "stat" \in DOMAIN h
      /\ h[Field] = a
      /\ \A f \in DOMAIN h : h[f] \in AnswerValues
  BY <1>0, GotNext
<1>3. pid \in Pids /\ ReadLive(pid, Field, a)
  BY <1>0, <1>1 DEF ControlTrue, ReadSource, ReadIs
<1>4. Kind(h["stat"]) = "none" => Explained(pid, Value(h), Absent(h))
  <2>1. got # <<>> => Explained(pid, Value(got), Absent(got))
    BY <1>1 DEF LiveInv, LiveGot, ReadIs
  <2> QED
    BY <1>0, <1>3, <2>1, ExplainedNext DEF LiveInv
<1>5. got = <<>> /\ Kind(h["stat"]) = "vanished" => at[pid] = "none"
  BY <1>0, <1>2, <1>3, LiveReads
<1> HIDE DEF h
<1>6. /\ pc = "read" /\ pc' = pc /\ failed' = failed /\ pid \in todo /\ First(pid)
      /\ \/ /\ (DOMAIN h = AllFields /\ Kind(h["stat"]) = "none")
               \/ (got = <<>> /\ DOMAIN h = {"stat"} /\ Kind(h["stat"]) # "none")
            /\ result' = With(result, pid, Describe(h)) /\ got' = <<>> /\ todo' = todo \ {pid}
         \/ /\ DOMAIN h \in Prefixes /\ Kind(h["stat"]) = "none"
            /\ got' = h /\ result' = result /\ todo' = todo
  BY <1>1 DEF h, ReadIs
<1>7. CASE /\ DOMAIN h \in Prefixes /\ Kind(h["stat"]) = "none"
           /\ got' = h /\ result' = result /\ todo' = todo
  <2>1. LiveGot'
    <3> SUFFICES ASSUME NEW q \in todo', First(q)' PROVE Explained(q, Value(got), Absent(got))'
      BY DEF LiveGot
    <3>1. First(q) /\ q \in todo
      BY <1>7 DEF First
    <3>2. q = pid
      BY <1>0, <1>6, <3>1, FirstIsOne DEF TypeOK
    <3>3. Value(got)' = Value(h) /\ Absent(got)' = Absent(h)
      BY <1>7 DEF Value, Absent
    <3> QED
      BY <1>4, <1>7, <3>2, <3>3 DEF Explained
  <2>2. LiveResult'
    BY <1>7 DEF LiveInv, LiveResult, Explained
  <2>3. LiveListed'
    BY <1>6, <1>7 DEF LiveInv, LiveListed
  <2> QED
    BY <2>1, <2>2, <2>3
<1>8. CASE /\ (DOMAIN h = AllFields /\ Kind(h["stat"]) = "none")
              \/ (got = <<>> /\ DOMAIN h = {"stat"} /\ Kind(h["stat"]) # "none")
           /\ result' = With(result, pid, Describe(h)) /\ got' = <<>> /\ todo' = todo \ {pid}
  <2> DEFINE d == Describe(h)
             absent == {f \in AllFields \ d.partial : d.value[f] = "none"}
  <2>1. LiveGot'
    BY <1>8 DEF LiveGot
  <2>2. d.fate = "described" => Explained(pid, d.value, absent)
    <3> SUFFICES ASSUME d.fate = "described" PROVE Explained(pid, d.value, absent)
      OBVIOUS
    <3>1. Kind(h["stat"]) = "none"
      <4>1. Kind(h["stat"]) \in {"none", "vanished", "denied", "malformed", "io_error"}
        BY <1>2, KindOf
      <4> QED
        BY <4>1, <1>2, DescribeIs
    <3>2. DOMAIN h = AllFields
      BY <1>8, <3>1
    <3>3. /\ d.value = Value(h)
          /\ d.partial = {f \in DOMAIN h : Kind(h[f]) \notin {"none", "vanished"}}
      BY <1>2, <3>1, DescribeIs
    <3>4. absent = Absent(h)
      <4>1. \A f \in AllFields :
               /\ Kind(h[f]) = "none" => Value(h)[f] # "none"
               /\ Kind(h[f]) # "none" => Value(h)[f] = "none"
        BY <1>2, <3>2, ValueIs
      <4> QED
        BY <4>1, <3>2, <3>3 DEF Absent
    <3> HIDE DEF d, absent
    <3> QED
      BY <1>4, <3>1, <3>3, <3>4
  <2>3. d.fate = "vanished" => at[pid] = "none"
    <3>1. d.fate = "vanished" => Kind(h["stat"]) = "vanished"
      <4>1. Kind(h["stat"]) \in {"none", "vanished", "denied", "malformed", "io_error"}
        BY <1>2, KindOf
      <4> QED
        BY <4>1, <1>2, DescribeIs
    <3> QED
      BY <3>1, <1>5, <1>8
  <2>4. result' = With(result, pid, d)
    BY <1>8
  <2> HIDE DEF d
  <2>5. /\ DOMAIN result' = DOMAIN result \cup {pid} /\ result'[pid] = d
        /\ \A q \in DOMAIN result : q # pid => result'[q] = result[q]
    BY <2>4 DEF With
  <2>6. LiveResult'
    <3> SUFFICES ASSUME NEW q \in DOMAIN result'
        PROVE  /\ result'[q].fate = "described" =>
                    Explained(q, result[q].value,
                       {f \in AllFields \ result[q].partial : result[q].value[f] = "none"})'
               /\ result'[q].fate = "vanished" => at'[q] = "none" \/ q \in begun'
      BY DEF LiveResult
    <3>1. CASE q = pid
      BY <2>2, <2>3, <2>5, <3>1 DEF Explained
    <3>2. CASE q # pid
      <4>1. q \in DOMAIN result /\ result'[q] = result[q]
        BY <2>5, <3>2
      <4> QED
        BY <4>1 DEF LiveInv, LiveResult, Explained
    <3> QED
      BY <3>1, <3>2
  <2>7. LiveListed'
    BY <1>6, <1>8, <2>5 DEF LiveInv, LiveListed
  <2> QED
    BY <2>1, <2>6, <2>7
<1> QED
  BY <1>6, <1>7, <1>8

\* A live pass is explained by the history of the host at every step.
LEMMA LiveNext ==
    ASSUME ProgramInv, LiveInv, [Next]_vars
    PROVE  LiveInv'
<1>0. TypeOK /\ ControlTrue /\ GotShape /\ ResultShape
  BY DEF ProgramInv
<1>1. CASE Collector /\ UNCHANGED <<hostVars, source>>
  <2>1. UNCHANGED <<at, freed, begun, reused, source>>
    BY <1>1 DEF hostVars
  <2>2. ReuseIsKnown'
    BY <2>1 DEF LiveInv, ReuseIsKnown
  <2>3. CASE source # "live"
    BY <2>1, <2>2, <2>3 DEF LiveInv, LiveGot, LiveResult, LiveListed
  <2>4. CASE source = "live" /\ (ListPids \/ ListPidsFails)
    <3>1. /\ result' = <<>> /\ got' = <<>>
          /\ \/ failed' = TRUE
             \/ todo' = {pid \in Pids : at[pid] # "none"}
      BY <1>0, <2>4 DEF ListPids, ListPidsFails, Listing, ControlTrue, GotShape
    <3>2. DOMAIN <<>> = {}
      OBVIOUS
    <3> QED
      BY <2>1, <2>2, <3>1, <3>2 DEF LiveInv, LiveGot, LiveResult, LiveListed
  <2>5. CASE source = "live" /\ EndPass
    <3>1. UNCHANGED <<todo, got, result, failed>> /\ todo = {} /\ pc = "read"
      BY <2>5 DEF EndPass
    <3>2. LiveGot' /\ LiveListed'
      BY <2>1, <3>1 DEF LiveInv, LiveGot, LiveListed
    <3>3. LiveResult'
      BY <2>1, <3>1 DEF LiveInv, LiveResult, Explained
    <3> QED
      BY <2>2, <3>2, <3>3 DEF LiveInv
  <2>6. ASSUME source = "live", NEW pid \in AllPids, Read(pid) PROVE LiveInv'
    BY <2>1, <2>2, <2>6, LiveRead DEF LiveInv
  <2> QED
    BY <1>1, <2>3, <2>4, <2>5, <2>6 DEF Collector
<1>2. CASE \/ Recorder /\ UNCHANGED <<hostVars, source>>
           \/ (Save \/ KillRecorder) /\ LeaveHost /\ UNCHANGED source
  <2>1. Recording
    BY <1>2 DEF Recorder, EndRoster, SynthesiseStat, SynthesiseStatus, Record, Save, KillRecorder, Recording
  <2>2. source = "fixture" /\ source' = source
    BY <1>0, <1>2, <2>1 DEF ControlTrue
  <2>3. ReuseIsKnown'
    <3>1. CASE LeaveHost
      BY <3>1, LeaveHostIs DEF ReuseIsKnown
    <3>2. CASE UNCHANGED hostVars
      BY <3>2 DEF LiveInv, ReuseIsKnown, hostVars
    <3> QED
      BY <1>2, <3>1, <3>2
  <2> QED
    BY <2>2, <2>3 DEF LiveInv, LiveGot, LiveResult, LiveListed
<1>3. CASE HostStep
  BY <1>3, LiveHost
<1>4. CASE UNCHANGED vars
  <2>1. UNCHANGED <<at, freed, begun, reused, source, pc, todo, got, result, failed>>
    BY <1>4 DEF vars, hostVars, collectorVars
  <2>2. ReuseIsKnown' /\ LiveListed'
    BY <2>1 DEF LiveInv, ReuseIsKnown, LiveListed
  <2>3. LiveGot'
    <3>1. Value(got)' = Value(got) /\ Absent(got)' = Absent(got)
      BY <2>1 DEF Value, Absent
    <3> QED
      BY <2>1, <3>1 DEF LiveInv, LiveGot, First, Explained
  <2>4. LiveResult'
    BY <2>1 DEF LiveInv, LiveResult, Explained
  <2> QED
    BY <2>2, <2>3, <2>4 DEF LiveInv
<1> QED
  BY <1>1, <1>2, <1>3, <1>4, NextCases

\* It holds at the start.
LEMMA LiveInit == Init => LiveInv
<1>1. DOMAIN <<>> = {}
  OBVIOUS
<1> QED
  BY <1>1 DEF Init, LiveInv, ReuseIsKnown, LiveGot, LiveResult, LiveListed

\* What a live pass has collected is explained by the history of the host.
THEOREM LiveInvariance == Spec => [](ProgramInv /\ LiveInv)
<1>1. ProgramInv /\ LiveInv /\ [Next]_vars => LiveInv'
  BY LiveNext
<1> QED
  BY <1>1, ProgramInvariance, LiveInit, PTL DEF Spec

\* An entity put together from two processes has a pid that was given out again
\* between two of the reads ProcfsProcessCollector.collect makes of it.
THEOREM MixedEntitiesNeedReuse == Spec => []MixedEntityNeedsReuse
<1>1. ASSUME ProgramInv, LiveInv PROVE MixedEntityNeedsReuse
  <2> SUFFICES ASSUME source = "live", NEW pid \in DOMAIN result, Described(pid), pid \notin reused
               PROVE  ~(Cardinality(Range(result[pid].value) \ {"none"}) > 1)
    BY DEF MixedEntityNeedsReuse
  <2> DEFINE v == result[pid].value
             S == Range(v) \ {"none"}
  <2>1. \A f \in DOMAIN v : v[f] # "none" => v[f] = v["stat"]
    BY <1>1 DEF LiveInv, LiveResult, Explained, Described
  <2>2. S \subseteq {v["stat"]}
    BY <2>1 DEF Range
  <2>3. IsFiniteSet({v["stat"]}) /\ Cardinality({v["stat"]}) = 1
    BY FS_Singleton
  <2>4. Cardinality(S) <= 1 /\ Cardinality(S) \in Nat
    BY <2>2, <2>3, FS_Subset, FS_CardinalityType
  <2> QED
    BY <2>4
<1> QED
  BY <1>1, LiveInvariance, PTL

\* A field that is absent and not in partial: a kernel thread's exe, or the
\* process ended while it was read (_optional).
THEOREM AbsentFieldsNeedCause == Spec => []AbsentFieldNeedsCause
<1>1. ASSUME ProgramInv, LiveInv PROVE AbsentFieldNeedsCause
  <2> SUFFICES ASSUME source = "live", NEW pid \in DOMAIN result, Described(pid),
                      NEW f \in OptionalFields \ result[pid].partial, result[pid].value[f] = "none"
               PROVE  pid \in freed \/ (f = "exe" /\ result[pid].value["stat"] \in Kernel)
    BY DEF AbsentFieldNeedsCause
  <2>1. f \in {g \in AllFields \ result[pid].partial : result[pid].value[g] = "none"}
    BY DEF OptionalFields, AllFields
  <2> QED
    BY <1>1, <2>1 DEF LiveInv, LiveResult, Explained, Described
<1> QED
  BY <1>1, LiveInvariance, PTL

\* A live pass with status OK has one entity, and all of it, of every process that
\* was there all the time.
THEOREM OKIsComplete == Spec => []OKMeansComplete
<1>1. ASSUME ProgramInv, LiveInv PROVE OKMeansComplete
  <2> SUFFICES ASSUME pc = "done", source = "live", Status = "OK", NEW pid \in Steady
               PROVE  /\ Described(pid)
                      /\ \A f \in AllFields :
                            result[pid].value[f] =
                                IF f = "exe" /\ at[pid] \in Kernel THEN "none" ELSE at[pid]
    BY FieldsAre DEF OKMeansComplete
  <2>0. TypeOK /\ ControlTrue /\ ResultShape
    BY <1>1 DEF ProgramInv
  <2>1. ~failed /\ \A q \in DOMAIN result : ~Degraded(result[q])
    BY DEF Status
  <2>2. /\ pid \in Pids /\ at[pid] # "none" /\ pid \notin freed /\ pid \notin begun
        /\ pid \notin reused
    BY <2>0 DEF Steady, TypeOK
  <2>3. pid \in DOMAIN result
    BY <1>1, <2>0, <2>1, <2>2 DEF LiveInv, LiveListed, ControlTrue
  <2> DEFINE r == result[pid]
             v == r.value
  <2>4. r.fate # "undescribed" /\ r.partial = {}
    BY <2>1, <2>3 DEF Degraded
  <2>5. r.fate # "vanished"
    BY <1>1, <2>2, <2>3 DEF LiveInv, LiveResult
  <2>6. r.fate = "described" /\ DOMAIN v = AllFields
    BY <2>0, <2>3, <2>4, <2>5 DEF ResultShape, Shape
  <2>7. Explained(pid, v, {f \in AllFields : v[f] = "none"})
    <3>1. Explained(pid, v, {f \in AllFields \ r.partial : v[f] = "none"})
      BY <1>1, <2>3, <2>6 DEF LiveInv, LiveResult
    <3>2. {f \in AllFields \ r.partial : v[f] = "none"} = {f \in AllFields : v[f] = "none"}
      BY <2>4
    <3> QED
      BY <3>1, <3>2
  <2> HIDE DEF r, v
  <2>8. /\ v["stat"] \in Procs /\ v["stat"] = at[pid]
        /\ \A f \in AllFields : v[f] # "none" => v[f] = at[pid] /\ (f = "exe" => v[f] \notin Kernel)
        /\ \A f \in AllFields : v[f] = "none" => f = "exe" /\ at[pid] \in Kernel
    BY <2>2, <2>6, <2>7 DEF Explained
  <2>9. Described(pid)
    BY <2>3, <2>6 DEF Described, r
  <2>10. \A f \in AllFields : v[f] = IF f = "exe" /\ at[pid] \in Kernel THEN "none" ELSE at[pid]
    BY <2>8
  <2> QED
    BY <2>9, <2>10 DEF r, v
<1> QED
  BY <1>1, LiveInvariance, PTL

-----------------------------------------------------------------------------
(* The recording and its replay *)

\* Nothing is recorded at the start.
LEMMA FixtureInit == Init => FixtureInv
<1> SUFFICES ASSUME Init PROVE FixtureInv
  OBVIOUS
<1>1. DOMAIN <<>> = {}
  OBVIOUS
<1>2. ~(source = "fixture" /\ pc \in {"list", "read", "done"}) /\ ~Replaying
  BY DEF Init, Replaying
<1>3. InitStays /\ HeardShape /\ HeardGot
  BY <1>1 DEF Init, InitStays, HeardShape, HeardGot
<1>4. RecordTrue /\ DeniedTrue /\ SyntheticTrue /\ ReplayTrue
  BY <1>1, <1>2 DEF Init, RecordTrue, DeniedTrue, SyntheticTrue, ReplayTrue
<1> QED
  BY <1>3, <1>4 DEF FixtureInv

\* A step that touches nothing of the fixture.
LEMMA FixtureFrame ==
    ASSUME FixtureInv, UNCHANGED <<heard, tree, sidecar>>, Replaying' = Replaying,
           faults \in Nat, faults' \in Nat, faults <= faults',
           (pc' \in {"synthesiseStatus", "save"} => pc' = pc)
    PROVE  HeardShape' /\ RecordTrue' /\ DeniedTrue' /\ SyntheticTrue'
<1>1. Complete' = Complete
  BY DEF Complete
<1>2. HeardShape'
  BY DEF FixtureInv, HeardShape
<1>3. RecordTrue'
  <2>1. \A pid, f : Kept(pid, f)' = Kept(pid, f)
    BY <1>1 DEF Kept
  <2> QED
    BY <2>1 DEF FixtureInv, RecordTrue
<1>4. DeniedTrue'
  BY <1>1 DEF FixtureInv, DeniedTrue
<1>5. SyntheticTrue'
  BY <1>1 DEF FixtureInv, SyntheticTrue
<1> QED
  BY <1>2, <1>3, <1>4, <1>5

\* All that counts of the answers are their kinds, and the values of those that
\* are values.
LEMMA DescribeCong ==
    ASSUME NEW x, NEW y, DOMAIN x = AllFields, DOMAIN y = AllFields,
           \A f \in AllFields : Kind(x[f]) = Kind(y[f]) /\ (Kind(x[f]) = "none" => x[f] = y[f])
    PROVE  Describe(x) = Describe(y)
<1>1. "stat" \in AllFields
  BY DEF AllFields
<1>2. Fate(x["stat"]) = Fate(y["stat"])
  BY <1>1 DEF Fate
<1>3. Value(x) = Value(y)
  BY DEF Value
<1>4. Partial(x) = Partial(y)
  BY DEF Partial
<1>5. \A z : Describe(z) = [fate    |-> Fate(z["stat"]),
                            value   |-> Value(IF Fate(z["stat"]) = "described" THEN z ELSE <<>>),
                            partial |-> Partial(IF Fate(z["stat"]) = "described" THEN z ELSE <<>>)]
  BY DEF Describe
<1>6. CASE Fate(x["stat"]) = "described"
  BY <1>2, <1>3, <1>4, <1>5, <1>6
<1>7. CASE Fate(x["stat"]) # "described"
  BY <1>2, <1>5, <1>7
<1> QED
  BY <1>6, <1>7

\* Without stat nothing else counts.
LEMMA DescribeStat ==
    ASSUME NEW x, NEW y, x["stat"] = y["stat"], Kind(x["stat"]) # "none"
    PROVE  Describe(x) = Describe(y)
<1>1. Fate(x["stat"]) # "described" /\ Fate(y["stat"]) # "described"
  BY DEF Fate
<1>2. Fate(x["stat"]) = Fate(y["stat"])
  OBVIOUS
<1> QED
  BY <1>1, <1>2 DEF Describe

\* One read of the collector over the fixture.
LEMMA ReplayRead ==
    ASSUME ProgramInv, FixtureInv, Replaying, NEW pid \in AllPids, Read(pid),
           UNCHANGED <<source, heard, tree, sidecar, dirs>>
    PROVE  ReplayTrue'
<1>0. TypeOK /\ GotShape /\ ResultShape
  BY DEF ProgramInv
<1>1. PICK a \in AnswerValues : ReadIs(pid, a)
  BY ReadCases
<1> DEFINE h == With(got, Field, a)
<1>2. /\ DOMAIN h = DOMAIN got \cup {Field}
      /\ h[Field] = a /\ \A f \in DOMAIN got : h[f] = got[f]
  BY <1>0, GotNext
<1>3. a = FixtureAnswer(pid, Field)
  BY <1>1 DEF ReadSource, Replaying, ReadIs
<1>4. \A f \in DOMAIN h : h[f] = FixtureAnswer(pid, f)
  BY <1>1, <1>2, <1>3 DEF FixtureInv, ReplayTrue, ReadIs
<1>5. \A q, f : FixtureAnswer(q, f)' = FixtureAnswer(q, f)
  BY DEF FixtureAnswer
<1>6. \A q : Answers(q)' = Answers(q)
  BY <1>5 DEF Answers
<1>7. h = [f \in DOMAIN h |-> h[f]]
  BY DEF With
<1> HIDE DEF h
<1>8. /\ pc = "read" /\ pc' = pc /\ pid \in todo /\ First(pid)
      /\ \/ /\ (DOMAIN h = AllFields /\ Kind(h["stat"]) = "none")
               \/ (DOMAIN h = {"stat"} /\ Kind(h["stat"]) # "none")
            /\ result' = With(result, pid, Describe(h)) /\ got' = <<>> /\ todo' = todo \ {pid}
         \/ got' = h /\ result' = result /\ todo' = todo
  BY <1>1 DEF h, ReadIs
<1>9. CASE got' = h /\ result' = result /\ todo' = todo
  <2>1. \A q \in DOMAIN result' : result'[q] = Describe(Answers(q)')
    BY <1>6, <1>9 DEF FixtureInv, ReplayTrue
  <2>2. ASSUME NEW q \in todo', First(q)', NEW f \in DOMAIN got'
        PROVE  got'[f] = FixtureAnswer(q, f)'
    <3>1. First(q) /\ q \in todo
      BY <1>9, <2>2 DEF First
    <3>2. q = pid
      BY <1>0, <1>8, <3>1, FirstIsOne DEF TypeOK
    <3> QED
      BY <1>4, <1>5, <1>9, <3>2
  <2> QED
    BY <2>1, <2>2 DEF ReplayTrue, Describe, Fate, Kind, Value, Partial
<1>10. CASE /\ (DOMAIN h = AllFields /\ Kind(h["stat"]) = "none")
               \/ (DOMAIN h = {"stat"} /\ Kind(h["stat"]) # "none")
            /\ result' = With(result, pid, Describe(h)) /\ got' = <<>> /\ todo' = todo \ {pid}
  <2>1. Describe(h) = Describe(Answers(pid))
    <3>1. CASE DOMAIN h = AllFields
      <4>1. h = Answers(pid)
        BY <1>4, <1>7, <3>1 DEF Answers
      <4> QED
        BY <4>1
    <3>2. CASE DOMAIN h = {"stat"} /\ Kind(h["stat"]) # "none"
      <4>1. h["stat"] = Answers(pid)["stat"]
        BY <1>4, <3>2 DEF Answers, AllFields
      <4> QED
        BY <3>2, <4>1, DescribeStat
    <3> QED
      BY <1>10, <3>1, <3>2
  <2> DEFINE d == Describe(h)
  <2>2. result' = With(result, pid, d) /\ d = Describe(Answers(pid))
    BY <1>10, <2>1
  <2> HIDE DEF d
  <2>3. /\ DOMAIN result' = DOMAIN result \cup {pid} /\ result'[pid] = d
        /\ \A q \in DOMAIN result : q # pid => result'[q] = result[q]
    BY <2>2 DEF With
  <2>4. \A q \in DOMAIN result' : result'[q] = Describe(Answers(q))
    BY <2>2, <2>3 DEF FixtureInv, ReplayTrue
  <2>5. \A q \in DOMAIN result' : result'[q] = Describe(Answers(q)')
    BY <2>4, <1>6
  <2>6. DOMAIN got' = {}
    BY <1>10
  <2> QED
    BY <2>5, <2>6 DEF ReplayTrue, Describe, Fate, Kind, Value, Partial
<1> QED
  BY <1>8, <1>9, <1>10

\* A step of the collector leaves the fixture alone.
LEMMA CollectorFixture ==
    ASSUME ProgramInv, FixtureInv, Collector, UNCHANGED <<hostVars, source>>
    PROVE  FixtureInv'
<1>0. TypeOK /\ ControlTrue /\ GotShape
  BY DEF ProgramInv
<1>1. UNCHANGED <<at, source, heard, tree, sidecar, dirs>>
  BY DEF Collector, hostVars, fixtureVars
<1>2. pc \in {"list", "read", "done"} /\ pc' \in {"list", "read", "done"}
  BY <1>0 DEF Collector, ListPids, ListPidsFails, EndPass, Read
<1>3. Replaying' = Replaying
  BY <1>1, <1>2 DEF Replaying
<1>4. faults \in Nat /\ faults' \in Nat /\ faults <= faults'
  <2>1. CASE ListPids \/ ListPidsFails \/ EndPass
    BY <1>0, <2>1 DEF ListPids, ListPidsFails, EndPass, Fault, TypeOK
  <2>2. ASSUME NEW pid \in AllPids, Read(pid) PROVE faults \in Nat /\ faults' \in Nat /\ faults <= faults'
    BY <1>0, <2>2, ReadFaults DEF Read, TypeOK
  <2> QED
    BY <2>1, <2>2 DEF Collector
<1>5. HeardShape' /\ RecordTrue' /\ DeniedTrue' /\ SyntheticTrue'
  BY <1>1, <1>2, <1>3, <1>4, FixtureFrame
<1>6. InitStays' /\ HeardGot'
  BY <1>1, <1>2, <1>3 DEF FixtureInv, InitStays, HeardGot
<1>7. ReplayTrue'
  <2>1. CASE ~Replaying
    BY <1>3, <2>1 DEF ReplayTrue
  <2>2. CASE ListPids \/ ListPidsFails
    <3>1. DOMAIN result' = {} /\ DOMAIN got' = {}
      BY <1>0, <2>2 DEF ListPids, ListPidsFails, ControlTrue, GotShape
    <3> QED
      BY <3>1 DEF ReplayTrue
  <2>3. CASE Replaying /\ EndPass
    <3>1. UNCHANGED <<todo, result>> /\ todo = {}
      BY <2>3 DEF EndPass
    <3>2. \A q : Answers(q)' = Answers(q)
      BY <1>1 DEF Answers, FixtureAnswer
    <3>3. \A q \in DOMAIN result : result[q] = Describe(Answers(q))
      BY <2>3 DEF FixtureInv, ReplayTrue
    <3>4. \A q \in DOMAIN result' : result'[q] = Describe(Answers(q)')
      BY <3>1, <3>2, <3>3
    <3> QED
      BY <3>1, <3>4 DEF ReplayTrue, Describe, Fate, Kind, Value, Partial
  <2>4. ASSUME Replaying, NEW pid \in AllPids, Read(pid) PROVE ReplayTrue'
    BY <1>1, <2>4, ReplayRead
  <2> QED
    BY <2>1, <2>2, <2>3, <2>4 DEF Collector
<1> QED
  BY <1>5, <1>6, <1>7 DEF FixtureInv

\* One answer is kept as a file or as a failure, and nothing else changes.
LEMMA KeepIs ==
    ASSUME NEW pid, NEW f, NEW a, Keep(pid, f, a)
    PROVE  /\ \A k : k # <<pid, f>> =>
                 /\ k \in DOMAIN tree' <=> k \in DOMAIN tree
                 /\ k \in DOMAIN tree => tree'[k] = tree[k]
                 /\ k \in DOMAIN sidecar' <=> k \in DOMAIN sidecar
                 /\ k \in DOMAIN sidecar => sidecar'[k] = sidecar[k]
           /\ Kind(a) \in {"none", "malformed"} =>
                 /\ <<pid, f>> \in DOMAIN tree' /\ tree'[<<pid, f>>] = a /\ sidecar' = sidecar
           /\ Kind(a) \notin {"none", "malformed"} =>
                 /\ <<pid, f>> \in DOMAIN sidecar' /\ sidecar'[<<pid, f>>] = Recorded(f, a)
                 /\ tree' = tree
<1>1. CASE Kind(a) \in {"none", "malformed"}
  BY <1>1 DEF Keep, With
<1>2. CASE Kind(a) \notin {"none", "malformed"}
  <2> DEFINE r == Recorded(f, a)
  <2>1. sidecar' = With(sidecar, <<pid, f>>, r) /\ tree' = tree
    BY <1>2 DEF Keep
  <2> HIDE DEF r
  <2>2. /\ \A k : k # <<pid, f>> =>
              /\ k \in DOMAIN sidecar' <=> k \in DOMAIN sidecar
              /\ k \in DOMAIN sidecar => sidecar'[k] = sidecar[k]
        /\ <<pid, f>> \in DOMAIN sidecar' /\ sidecar'[<<pid, f>>] = r
    BY <2>1 DEF With
  <2> QED
    BY <1>2, <2>1, <2>2 DEF r
<1> QED
  BY <1>1, <1>2

\* One read of the recorder.
LEMMA RecordFixture ==
    ASSUME ProgramInv, FixtureInv, NEW pid \in Pids, Record(pid), UNCHANGED <<hostVars, source>>
    PROVE  FixtureInv'
<1>0. TypeOK /\ GotShape
  BY DEF ProgramInv
<1>1. PICK a \in AnswerValues :
         /\ ReadLive(pid, Field, a)
         /\ Keep(pid, Field, a)
         /\ heard' = With(heard, pid, With(got, Field, a))
         /\ IF Field = "exe" THEN got' = <<>> /\ todo' = todo \ {pid}
            ELSE got' = With(got, Field, a) /\ UNCHANGED todo
  BY DEF Record
<1>2. pc = "record" /\ pc' = pc /\ pid \in todo /\ First(pid) /\ UNCHANGED <<at, source>>
  BY DEF Record, First, hostVars
<1> DEFINE h == With(got, Field, a)
           K == <<pid, Field>>
<1>3. /\ Field \in AllFields /\ Field \notin DOMAIN got
      /\ Field = "stat" <=> got = <<>>
      /\ DOMAIN h = DOMAIN got \cup {Field} /\ DOMAIN h \in Prefixes \cup {AllFields}
      /\ DOMAIN h = AllFields <=> Field = "exe"
      /\ "stat" \in DOMAIN h
      /\ h[Field] = a /\ \A f \in DOMAIN got : h[f] = got[f]
      /\ \A f \in DOMAIN h : h[f] \in AnswerValues
  BY <1>0, GotNext
<1>4. /\ \A k : k # K =>
            /\ k \in DOMAIN tree' <=> k \in DOMAIN tree
            /\ k \in DOMAIN tree => tree'[k] = tree[k]
            /\ k \in DOMAIN sidecar' <=> k \in DOMAIN sidecar
            /\ k \in DOMAIN sidecar => sidecar'[k] = sidecar[k]
      /\ Kind(a) \in {"none", "malformed"} =>
            K \in DOMAIN tree' /\ tree'[K] = a /\ sidecar' = sidecar
      /\ Kind(a) \notin {"none", "malformed"} =>
            K \in DOMAIN sidecar' /\ sidecar'[K] = Recorded(Field, a) /\ tree' = tree
  BY <1>1, KeepIs
<1>h. heard' = With(heard, pid, h)
  BY <1>1
<1>g. IF Field = "exe" THEN got' = <<>> /\ todo' = todo \ {pid} ELSE got' = h /\ todo' = todo
  BY <1>1
<1> HIDE DEF h
<1>5. /\ DOMAIN heard' = DOMAIN heard \cup {pid} /\ heard'[pid] = h
      /\ \A q \in DOMAIN heard : q # pid => heard'[q] = heard[q]
  BY <1>h DEF With
<1>6. ~Replaying /\ ~Replaying'
  BY <1>2 DEF Replaying
<1>7. pid \in DOMAIN heard => got # <<>> /\ heard[pid] = got
  BY <1>2 DEF FixtureInv, HeardGot
<1>8. got # <<>> => pid \in DOMAIN heard
  BY <1>2 DEF FixtureInv, HeardGot
<1>9. InitStays'
  BY <1>2, <1>6 DEF FixtureInv, InitStays
<1>10. HeardShape'
  <2>1. "exe" \in DOMAIN h => h["exe"] # "ESRCH"
    <3>1. "exe" \notin DOMAIN got
      BY <1>0 DEF GotShape, Prefixes
    <3>2. Field = "exe" => a # "ESRCH"
      BY <1>0, <1>1, LiveReads
    <3> QED
      BY <1>3, <3>1, <3>2
  <2> QED
    BY <1>3, <1>5, <2>1 DEF FixtureInv, HeardShape
<1>11. HeardGot'
  <2> SUFFICES ASSUME NEW q \in todo'
               PROVE  IF got' # <<>> /\ First(q)' THEN q \in DOMAIN heard' /\ heard'[q] = got'
                      ELSE q \notin DOMAIN heard'
    BY DEF HeardGot
  <2>1. q \in todo
    BY <1>g
  <2>2. First(q) => q = pid
    BY <1>0, <1>2, <2>1, FirstIsOne DEF TypeOK
  <2>3. q # pid => q \notin DOMAIN heard
    BY <1>2, <2>1, <2>2 DEF FixtureInv, HeardGot
  <2>4. CASE Field = "exe"
    BY <1>g, <1>5, <2>3, <2>4
  <2>5. CASE Field # "exe"
    <3>1. got' = h /\ todo' = todo /\ First(q)' = First(q)
      BY <1>g, <2>5 DEF First
    <3>2. h # <<>>
      BY <1>3
    <3> QED
      BY <1>2, <1>5, <2>2, <2>3, <3>1, <3>2
  <2> QED
    BY <2>4, <2>5
<1>12. RecordTrue'
  <2> SUFFICES ASSUME NEW q \in Pids \ {Denied, Vanished}, NEW f \in AllFields
               PROVE  IF q \in DOMAIN heard' /\ f \in DOMAIN heard'[q] THEN Kept(q, f)'
                      ELSE <<q, f>> \notin DOMAIN tree' \cup DOMAIN sidecar'
    BY DEF RecordTrue
  <2>0. IF q \in DOMAIN heard /\ f \in DOMAIN heard[q] THEN Kept(q, f)
        ELSE <<q, f>> \notin DOMAIN tree \cup DOMAIN sidecar
    BY DEF FixtureInv, RecordTrue
  <2>1. CASE q # pid
    <3>1. <<q, f>> # K
      BY <2>1
    <3>2. (q \in DOMAIN heard' <=> q \in DOMAIN heard) /\ (q \in DOMAIN heard => heard'[q] = heard[q])
      BY <1>5, <2>1
    <3>3. CASE q \in DOMAIN heard /\ f \in DOMAIN heard[q]
      BY <1>4, <1>6, <2>0, <3>1, <3>2, <3>3 DEF Kept
    <3>4. CASE ~(q \in DOMAIN heard /\ f \in DOMAIN heard[q])
      BY <1>4, <2>0, <3>1, <3>2, <3>4
    <3> QED
      BY <3>3, <3>4
  <2>2. CASE q = pid /\ f = Field
    <3>1. <<q, f>> \notin DOMAIN tree \cup DOMAIN sidecar /\ <<q, f>> = K
      BY <1>3, <1>7, <2>0, <2>2
    <3>2. q \in DOMAIN heard' /\ f \in DOMAIN heard'[q] /\ heard'[q][f] = a
      BY <1>3, <1>5, <2>2
    <3>3. CASE Kind(a) \in {"none", "malformed"}
      BY <1>4, <3>1, <3>2, <3>3 DEF Kept, Kind
    <3>4. CASE Kind(a) \notin {"none", "malformed"}
      BY <1>4, <2>2, <3>1, <3>2, <3>4 DEF Kept, Kind, Recorded
    <3> QED
      BY <3>2, <3>3, <3>4
  <2>3. CASE q = pid /\ f # Field
    <3>1. <<q, f>> # K
      BY <2>3
    <3>2. q \in DOMAIN heard' /\ heard'[q] = h
      BY <1>5, <2>3
    <3>3. CASE f \in DOMAIN got
      <4>1. got # <<>>
        BY <3>3
      <4>2. heard[q] = got /\ q \in DOMAIN heard /\ heard'[q][f] = heard[q][f] /\ f \in DOMAIN h
        BY <1>3, <1>7, <1>8, <2>3, <3>2, <3>3, <4>1
      <4> QED
        BY <1>4, <1>6, <2>0, <3>1, <3>2, <3>3, <4>2 DEF Kept
    <3>4. CASE f \notin DOMAIN got
      BY <1>3, <1>4, <1>7, <2>0, <2>3, <3>1, <3>2, <3>4
    <3> QED
      BY <3>3, <3>4
  <2> QED
    BY <2>1, <2>2, <2>3
<1>13. DeniedTrue'
  <2>1. ASSUME <<Denied, "stat">> \in DOMAIN sidecar'
        PROVE  Denied \in DOMAIN heard' /\ Kind(heard'[Denied]["stat"]) \notin {"none", "malformed"}
    <3>1. CASE <<Denied, "stat">> \in DOMAIN sidecar
      <4>1. Denied \in DOMAIN heard /\ Kind(heard[Denied]["stat"]) \notin {"none", "malformed"}
        BY <3>1 DEF FixtureInv, DeniedTrue
      <4>2. CASE pid # Denied
        BY <1>5, <4>1, <4>2
      <4>3. CASE pid = Denied
        <5>1. got # <<>> /\ heard[pid] = got
          BY <1>7, <4>1, <4>3
        <5>2. "stat" \in DOMAIN got /\ h["stat"] = got["stat"]
          BY <1>3, <5>1
        <5> QED
          BY <1>5, <4>1, <4>3, <5>1, <5>2
      <4> QED
        BY <4>2, <4>3
    <3>2. CASE <<Denied, "stat">> \notin DOMAIN sidecar
      <4>1. <<Denied, "stat">> = K
        BY <1>4, <2>1, <3>2
      <4>2. Denied = pid /\ Field = "stat"
        BY <4>1
      <4>3. Kind(a) \notin {"none", "malformed"}
        BY <1>4, <2>1, <3>2
      <4> QED
        BY <1>3, <1>5, <4>2, <4>3
    <3> QED
      BY <3>1, <3>2
  <2> QED
    BY <1>2, <1>6, <2>1 DEF DeniedTrue, Kind
<1>14. SyntheticTrue' /\ ReplayTrue'
  BY <1>2, <1>6 DEF SyntheticTrue, ReplayTrue
<1> QED
  BY <1>9, <1>10, <1>11, <1>12, <1>13, <1>14 DEF FixtureInv

\* The made-up processes are added beside what was recorded.
LEMMA RecordFrame ==
    ASSUME FixtureInv, heard' = heard, ~Replaying, ~Replaying',
           \A pid \in Pids \ {Denied, Vanished}, f \in AllFields :
              /\ <<pid, f>> \in DOMAIN tree' <=> <<pid, f>> \in DOMAIN tree
              /\ <<pid, f>> \in DOMAIN tree => tree'[<<pid, f>>] = tree[<<pid, f>>]
              /\ <<pid, f>> \in DOMAIN sidecar' <=> <<pid, f>> \in DOMAIN sidecar
              /\ <<pid, f>> \in DOMAIN sidecar => sidecar'[<<pid, f>>] = sidecar[<<pid, f>>]
    PROVE  HeardShape' /\ RecordTrue' /\ ReplayTrue'
<1>1. HeardShape' /\ ReplayTrue'
  BY DEF FixtureInv, HeardShape, ReplayTrue
<1>2. RecordTrue'
  <2> SUFFICES ASSUME NEW pid \in Pids \ {Denied, Vanished}, NEW f \in AllFields
               PROVE  IF pid \in DOMAIN heard /\ f \in DOMAIN heard[pid] THEN Kept(pid, f)'
                      ELSE <<pid, f>> \notin DOMAIN tree' \cup DOMAIN sidecar'
    BY DEF RecordTrue
  <2>1. IF pid \in DOMAIN heard /\ f \in DOMAIN heard[pid] THEN Kept(pid, f)
        ELSE <<pid, f>> \notin DOMAIN tree \cup DOMAIN sidecar
    BY DEF FixtureInv, RecordTrue
  <2> QED
    BY <2>1 DEF Kept
<1> QED
  BY <1>1, <1>2

\* synthesise_denied, its stat.
LEMMA StatFixture ==
    ASSUME ProgramInv, FixtureInv, SynthesiseStat, UNCHANGED <<hostVars, source>>
    PROVE  FixtureInv'
<1>0. TypeOK
  BY DEF ProgramInv
<1>1. /\ pc = "synthesiseStat" /\ pc' = "synthesiseStatus"
      /\ UNCHANGED <<heard, sidecar, at, source>>
  BY DEF SynthesiseStat, hostVars
<1>2. PICK a \in AnswerValues :
         /\ ReadLive(1, "stat", a)
         /\ tree' = With(With(tree, <<Denied, "cmdline">>, Sshd), <<Denied, "stat">>, Renumbered(a, Sshd))
  BY DEF SynthesiseStat
<1>3. ~Replaying /\ ~Replaying'
  BY <1>1 DEF Replaying
<1> DEFINE r == Renumbered(a, Sshd)
<1>4. tree' = With(With(tree, <<Denied, "cmdline">>, Sshd), <<Denied, "stat">>, r)
  BY <1>2
<1>5. r = Sshd \/ (r = "malformed" /\ faults' > 0)
  <2>1. 1 \in Pids /\ at[1] \in Procs \ Kernel
    BY <1>3, PassAssumption DEF FixtureInv, InitStays
  <2>2. Kind(a) # "none" => faults' > 0
    BY <1>0, <1>2, <2>1, LiveReads
  <2> QED
    BY <2>2 DEF Renumbered
<1> HIDE DEF r
<1>6. /\ DOMAIN tree' = DOMAIN tree \cup {<<Denied, "cmdline">>, <<Denied, "stat">>}
      /\ tree'[<<Denied, "stat">>] = r
      /\ \A k \in DOMAIN tree :
            k \notin {<<Denied, "cmdline">>, <<Denied, "stat">>} => tree'[k] = tree[k]
  BY <1>4 DEF With
<1>7. HeardShape' /\ RecordTrue' /\ ReplayTrue'
  BY <1>1, <1>3, <1>6, RecordFrame
<1>8. InitStays' /\ HeardGot' /\ SyntheticTrue'
  BY <1>1, <1>3 DEF FixtureInv, InitStays, HeardGot, SyntheticTrue
<1>9. DeniedTrue'
  BY <1>1, <1>3, <1>5, <1>6 DEF FixtureInv, DeniedTrue, Kind
<1> QED
  BY <1>7, <1>8, <1>9 DEF FixtureInv

\* The rest of synthesise_denied, and synthesise_vanished.
LEMMA StatusFixture ==
    ASSUME ProgramInv, FixtureInv, SynthesiseStatus, UNCHANGED <<hostVars, source>>
    PROVE  FixtureInv'
<1>0. TypeOK
  BY DEF ProgramInv
<1>1. /\ pc = "synthesiseStatus" /\ pc' = "save" /\ UNCHANGED <<heard, at, source>>
      /\ sidecar' = With(With(sidecar, <<Vanished, "stat">>, "ENOENT"), <<Denied, "exe">>, "EACCES")
  BY DEF SynthesiseStatus, hostVars
<1>2. PICK a \in AnswerValues :
         /\ ReadLive(1, "status", a)
         /\ tree' = With(tree, <<Denied, "status">>, Renumbered(a, a))
  BY DEF SynthesiseStatus
<1>3. ~Replaying /\ ~Replaying'
  BY <1>1 DEF Replaying
<1>4. faults \in Nat /\ faults' \in Nat /\ faults <= faults'
  BY <1>0, <1>2, ReadFaults DEF TypeOK
<1>5. /\ DOMAIN tree' = DOMAIN tree \cup {<<Denied, "status">>}
      /\ \A k \in DOMAIN tree : k # <<Denied, "status">> => tree'[k] = tree[k]
  <2> DEFINE r == Renumbered(a, a)
  <2>1. tree' = With(tree, <<Denied, "status">>, r)
    BY <1>2
  <2> HIDE DEF r
  <2> QED
    BY <2>1 DEF With
<1>6. Denied # Vanished
  BY PassAssumption
<1>7. /\ DOMAIN sidecar' = DOMAIN sidecar \cup {<<Vanished, "stat">>, <<Denied, "exe">>}
      /\ sidecar'[<<Vanished, "stat">>] = "ENOENT" /\ sidecar'[<<Denied, "exe">>] = "EACCES"
      /\ \A k \in DOMAIN sidecar :
            k \notin {<<Vanished, "stat">>, <<Denied, "exe">>} => sidecar'[k] = sidecar[k]
  BY <1>1, <1>6 DEF With
<1>8. HeardShape' /\ RecordTrue' /\ ReplayTrue'
  BY <1>1, <1>3, <1>5, <1>7, RecordFrame
<1>9. InitStays' /\ HeardGot'
  BY <1>1, <1>3 DEF FixtureInv, InitStays, HeardGot
<1>10. SyntheticTrue'
  BY <1>7 DEF SyntheticTrue, Complete
<1>11. DeniedTrue'
  <2>1. <<Denied, "stat">> \in DOMAIN sidecar' => <<Denied, "stat">> \in DOMAIN sidecar
    BY <1>6, <1>7
  <2>2. /\ <<Denied, "stat">> \in DOMAIN tree' /\ tree'[<<Denied, "stat">>] = tree[<<Denied, "stat">>]
        /\ tree[<<Denied, "stat">>] = Sshd \/ (tree[<<Denied, "stat">>] = "malformed" /\ faults > 0)
    BY <1>1, <1>5 DEF FixtureInv, DeniedTrue
  <2>3. <<Denied, "stat">> \in DOMAIN sidecar =>
           Denied \in DOMAIN heard /\ Kind(heard[Denied]["stat"]) \notin {"none", "malformed"}
    BY DEF FixtureInv, DeniedTrue
  <2>4. faults > 0 => faults' > 0
    BY <1>4
  <2> QED
    BY <1>1, <2>1, <2>2, <2>3, <2>4 DEF DeniedTrue, Kind
<1> QED
  BY <1>8, <1>9, <1>10, <1>11 DEF FixtureInv

\* The tree is left for a replay, with its sidecar or without.
LEMMA LeaveFixture ==
    ASSUME ProgramInv, FixtureInv, Save \/ KillRecorder, LeaveHost, UNCHANGED source
    PROVE  FixtureInv'
<1>0. ControlTrue /\ GotShape
  BY DEF ProgramInv
<1>1. /\ Recording /\ pc' = "list" /\ UNCHANGED <<heard, tree, result, faults>> /\ got' = <<>>
      /\ (pc = "save" /\ sidecar' = sidecar) \/ sidecar' = <<>>
      /\ pc \notin {"list", "read", "done"}
  BY <1>0 DEF Save, KillRecorder, fixtureVars, Recording, GotShape
<1>2. ~Replaying /\ Replaying' /\ result' = <<>>
  BY <1>0, <1>1 DEF Replaying, ControlTrue, Recording
<1>3. InitStays' /\ HeardGot'
  BY <1>1, <1>2 DEF InitStays, HeardGot
<1>4. HeardShape'
  BY <1>1 DEF FixtureInv, HeardShape
<1>5. ReplayTrue'
  <2>1. DOMAIN result' = {} /\ DOMAIN got' = {}
    BY <1>1, <1>2
  <2> QED
    BY <2>1 DEF ReplayTrue
<1>6. CASE pc = "save" /\ sidecar' = sidecar
  <2>1. Complete' = Complete /\ Complete
    BY <1>6 DEF FixtureInv, SyntheticTrue, Complete
  <2>2. RecordTrue'
    <3> SUFFICES ASSUME NEW pid \in Pids \ {Denied, Vanished}, NEW f \in AllFields
                 PROVE  IF pid \in DOMAIN heard /\ f \in DOMAIN heard[pid] THEN Kept(pid, f)'
                        ELSE <<pid, f>> \notin DOMAIN tree \cup DOMAIN sidecar
      BY <1>1, <1>6 DEF RecordTrue
    <3>1. IF pid \in DOMAIN heard /\ f \in DOMAIN heard[pid] THEN Kept(pid, f)
          ELSE <<pid, f>> \notin DOMAIN tree \cup DOMAIN sidecar
      BY DEF FixtureInv, RecordTrue
    <3> QED
      BY <1>1, <1>2, <1>6, <3>1 DEF Kept
  <2>3. DeniedTrue' /\ SyntheticTrue'
    BY <1>1, <1>6, <2>1 DEF FixtureInv, DeniedTrue, SyntheticTrue
  <2> QED
    BY <1>3, <1>4, <1>5, <2>2, <2>3 DEF FixtureInv
<1>7. CASE sidecar' = <<>>
  <2>1. DOMAIN sidecar' = {} /\ ~Complete'
    BY <1>7 DEF Complete
  <2>2. RecordTrue'
    <3> SUFFICES ASSUME NEW pid \in Pids \ {Denied, Vanished}, NEW f \in AllFields
                 PROVE  IF pid \in DOMAIN heard /\ f \in DOMAIN heard[pid] THEN Kept(pid, f)'
                        ELSE <<pid, f>> \notin DOMAIN tree
      BY <1>1, <2>1 DEF RecordTrue
    <3>1. IF pid \in DOMAIN heard /\ f \in DOMAIN heard[pid] THEN Kept(pid, f)
          ELSE <<pid, f>> \notin DOMAIN tree \cup DOMAIN sidecar
      BY DEF FixtureInv, RecordTrue
    <3> QED
      BY <1>1, <1>2, <2>1, <3>1 DEF Kept
  <2>3. DeniedTrue' /\ SyntheticTrue'
    BY <1>1, <2>1 DEF DeniedTrue, SyntheticTrue
  <2> QED
    BY <1>3, <1>4, <1>5, <2>2, <2>3 DEF FixtureInv
<1> QED
  BY <1>1, <1>6, <1>7

\* The host goes on, or nothing happens.
LEMMA HostFixture ==
    ASSUME ProgramInv, FixtureInv, HostStep \/ UNCHANGED vars
    PROVE  FixtureInv'
<1>0. TypeOK
  BY DEF ProgramInv
<1>1. UNCHANGED <<faults, source, pc, todo, got, result, failed, heard, tree, sidecar, dirs>>
  BY DEF HostStep, vars, collectorVars, fixtureVars
<1>2. Replaying' = Replaying
  BY <1>1 DEF Replaying
<1>3. HeardShape' /\ RecordTrue' /\ DeniedTrue' /\ SyntheticTrue'
  BY <1>0, <1>1, <1>2, FixtureFrame DEF TypeOK
<1>4. HeardGot'
  BY <1>1 DEF FixtureInv, HeardGot, First
<1>5. InitStays'
  <2>1. CASE HostStep
    <3>1. at'[1] = at[1] \/ at[1] = "none"
      BY <1>0, <2>1, HostStepIs, PassAssumption
    <3>2. "none" \notin Procs
      BY ProcsAssumption
    <3> QED
      BY <1>2, <3>1, <3>2 DEF FixtureInv, InitStays
  <2>2. CASE UNCHANGED vars
    BY <1>2, <2>2 DEF FixtureInv, InitStays, vars, hostVars
  <2> QED
    BY <2>1, <2>2
<1>6. ReplayTrue'
  <2>1. CASE ~Replaying
    BY <1>2, <2>1 DEF ReplayTrue
  <2>2. CASE Replaying
    <3>1. \A q, f : FixtureAnswer(q, f)' = FixtureAnswer(q, f)
      BY <1>1 DEF FixtureAnswer
    <3>2. \A q : Answers(q)' = Answers(q)
      BY <3>1 DEF Answers
    <3>3. \A q \in DOMAIN result' : result'[q] = Describe(Answers(q)')
      BY <1>1, <2>2, <3>2 DEF FixtureInv, ReplayTrue
    <3>4. \A q \in todo' : First(q)' => \A f \in DOMAIN got' : got'[f] = FixtureAnswer(q, f)'
      BY <1>1, <2>2, <3>1 DEF FixtureInv, ReplayTrue, First
    <3> QED
      BY <3>3, <3>4 DEF ReplayTrue, Describe, Fate, Kind, Value, Partial
  <2> QED
    BY <2>1, <2>2
<1> QED
  BY <1>3, <1>4, <1>5, <1>6 DEF FixtureInv

\* The end of the roster writes nothing.
LEMMA RosterFixture ==
    ASSUME ProgramInv, FixtureInv, EndRoster, UNCHANGED <<hostVars, source>>
    PROVE  FixtureInv'
<1>1. /\ pc = "record" /\ pc' = "synthesiseStat"
      /\ UNCHANGED <<faults, heard, tree, sidecar, at, source>>
  BY DEF EndRoster, fixtureVars, hostVars
<1>2. ~Replaying /\ ~Replaying'
  BY <1>1 DEF Replaying
<1>3. HeardShape' /\ RecordTrue' /\ DeniedTrue' /\ SyntheticTrue'
  BY <1>1, <1>2, FixtureFrame DEF ProgramInv, TypeOK, Replaying
<1>4. InitStays' /\ HeardGot' /\ ReplayTrue'
  BY <1>1, <1>2 DEF FixtureInv, InitStays, HeardGot, ReplayTrue
<1> QED
  BY <1>3, <1>4 DEF FixtureInv

\* The tree and the sidecar hold what the recorder heard, and a replay is made of them.
THEOREM FixtureInvariance == Spec => [](ProgramInv /\ FixtureInv)
<1>1. ProgramInv /\ FixtureInv /\ [Next]_vars => FixtureInv'
  BY NextCases, CollectorFixture, RosterFixture, StatFixture, StatusFixture, RecordFixture,
     LeaveFixture, HostFixture DEF Recorder
<1> QED
  BY <1>1, ProgramInvariance, FixtureInit, PTL DEF Spec

\* The replay of a recorded process is what the collector would have made of the
\* reads the recorder did (read_proc, capture), unless one of those failed in a way
\* that it does not keep.
THEOREM ReplaysMatchRecordings == Spec => []ReplayMatchesRecording
<1>1. ASSUME ProgramInv, FixtureInv PROVE ReplayMatchesRecording
  <2> SUFFICES ASSUME Replaying, NEW pid \in (DOMAIN result \cap DOMAIN heard) \ {Denied, Vanished},
                      DOMAIN heard[pid] = AllFields,
                      \A f \in AllFields : ~Misrecorded(f, heard[pid][f])
               PROVE  result[pid] = Describe(heard[pid])
    BY FieldsAre DEF ReplayMatchesRecording
  <2>1. /\ pid \in Pids \ {Denied, Vanished}
        /\ \A f \in AllFields : heard[pid][f] \in AnswerValues
        /\ heard[pid]["exe"] # "ESRCH"
    BY <1>1 DEF FixtureInv, HeardShape, AllFields
  <2>2. ASSUME NEW f \in AllFields
        PROVE  /\ Kind(FixtureAnswer(pid, f)) = Kind(heard[pid][f])
               /\ Kind(heard[pid][f]) = "none" => FixtureAnswer(pid, f) = heard[pid][f]
    <3> DEFINE a == heard[pid][f]
               b == FixtureAnswer(pid, f)
    <3>0. a \in AnswerValues /\ ~Misrecorded(f, a) /\ (f = "exe" => a # "ESRCH")
      BY <2>1
    <3>1. Kept(pid, f)
      BY <1>1, <2>1 DEF FixtureInv, RecordTrue
    <3>2. CASE Kind(a) \in {"none", "malformed"}
      BY <3>1, <3>2 DEF Kept, FixtureAnswer
    <3>3. CASE Kind(a) \notin {"none", "malformed"}
      <4>1. a \in {"ENOENT", "ESRCH", "EACCES", "EIO"}
        BY <3>0, <3>3, KindOf DEF AnswerValues
      <4>2. a # "EIO" /\ (a = "EACCES" => f = "exe" /\ Complete)
        BY <3>0 DEF Misrecorded
      <4>3. /\ <<pid, f>> \notin DOMAIN tree
            /\ Complete => <<pid, f>> \in DOMAIN sidecar
            /\ <<pid, f>> \in DOMAIN sidecar => sidecar[<<pid, f>>] = Recorded(f, a)
        BY <3>1, <3>3 DEF Kept
      <4>4. Recorded(f, a) = IF a = "EACCES" THEN "EACCES" ELSE "ENOENT"
        BY <3>0, <4>1, <4>2 DEF Recorded
      <4>5. b = IF a = "EACCES" THEN "EACCES" ELSE "ENOENT"
        BY <4>2, <4>3, <4>4 DEF FixtureAnswer
      <4>6. Kind("ENOENT") = "vanished" /\ Kind("ESRCH") = "vanished"
        BY DEF Kind
      <4> HIDE DEF a, b
      <4> QED
        BY <3>3, <4>1, <4>2, <4>5, <4>6 DEF a, b
    <3> QED
      BY <3>2, <3>3
  <2>3. /\ DOMAIN Answers(pid) = AllFields
        /\ \A f \in AllFields : Answers(pid)[f] = FixtureAnswer(pid, f)
    BY DEF Answers
  <2>4. Describe(Answers(pid)) = Describe(heard[pid])
    BY <2>2, <2>3, DescribeCong
  <2> QED
    BY <1>1, <2>4 DEF FixtureInv, ReplayTrue
<1> QED
  BY <1>1, FixtureInvariance, PTL

\* Of a finished recording, the made-up pids replay as what they are there for
\* (synthesise_denied, synthesise_vanished), with the exceptions the property names.
THEOREM SyntheticsReplay == Spec => []SyntheticsReplayAsMeant
<1>1. ASSUME ProgramInv, FixtureInv PROVE SyntheticsReplayAsMeant
  <2> SUFFICES ASSUME Replaying, Complete PROVE SyntheticsReplayAsMeant
    BY DEF SyntheticsReplayAsMeant
  <2>1. /\ sidecar[<<Denied, "exe">>] = "EACCES" /\ <<Denied, "exe">> \in DOMAIN sidecar
        /\ <<Vanished, "stat">> \in DOMAIN sidecar /\ sidecar[<<Vanished, "stat">>] = "ENOENT"
    BY <1>1 DEF FixtureInv, SyntheticTrue, Complete
  <2>2. \A pid \in DOMAIN result : result[pid] = Describe(Answers(pid))
    BY <1>1 DEF FixtureInv, ReplayTrue
  <2>d. \A pid : /\ Describe(Answers(pid)).fate = Fate(FixtureAnswer(pid, "stat"))
                 /\ Fate(FixtureAnswer(pid, "stat")) = "described" =>
                       Describe(Answers(pid)).partial = Partial(Answers(pid))
    BY DEF Describe, Answers, AllFields
  <2>3. ASSUME Vanished \in DOMAIN result PROVE result[Vanished].fate = "vanished"
    <3>1. FixtureAnswer(Vanished, "stat") = "ENOENT"
      BY <2>1 DEF FixtureAnswer
    <3>2. Fate("ENOENT") = "vanished"
      BY DEF Fate, Kind
    <3> QED
      BY <2>2, <2>3, <2>d, <3>1, <3>2
  <2>4. ASSUME Denied \in DOMAIN result, <<Denied, "stat">> \notin DOMAIN sidecar
        PROVE  \/ Described(Denied) /\ "exe" \in result[Denied].partial
               \/ result[Denied].fate = "undescribed" /\ faults > 0
    <3>1. FixtureAnswer(Denied, "stat") = tree[<<Denied, "stat">>]
      BY <1>1, <2>4 DEF FixtureInv, DeniedTrue, FixtureAnswer
    <3>2. CASE tree[<<Denied, "stat">>] = Sshd
      <4>1. Kind(Sshd) = "none"
        BY KindOf DEF AnswerValues
      <4>2. Fate(Sshd) = "described"
        BY <4>1 DEF Fate
      <4>3. FixtureAnswer(Denied, "exe") = "EACCES"
        BY <2>1 DEF FixtureAnswer
      <4>4. Kind("EACCES") = "denied"
        BY DEF Kind
      <4>5. "exe" \in Partial(Answers(Denied))
        BY <4>3, <4>4 DEF Partial, Answers, AllFields
      <4> QED
        BY <2>2, <2>4, <2>d, <3>1, <3>2, <4>2, <4>5 DEF Described
    <3>3. CASE tree[<<Denied, "stat">>] = "malformed" /\ faults > 0
      <4>1. Fate("malformed") = "undescribed"
        BY DEF Fate, Kind
      <4> QED
        BY <2>2, <2>4, <2>d, <3>1, <3>3, <4>1
    <3> QED
      BY <1>1, <3>2, <3>3 DEF FixtureInv, DeniedTrue
  <2>5. <<Denied, "stat">> \in DOMAIN sidecar =>
           Denied \in DOMAIN heard /\ Kind(heard[Denied]["stat"]) \notin {"none", "malformed"}
    BY <1>1 DEF FixtureInv, DeniedTrue
  <2> QED
    BY <2>3, <2>4, <2>5 DEF SyntheticsReplayAsMeant
<1> QED
  BY <1>1, FixtureInvariance, PTL

-----------------------------------------------------------------------------
(* The pass implements ListingPass *)

\* The abstract state, as the substitution of Pass gives it.
Present ==
    IF source = "live" THEN {pid \in Pids : at[pid] # "none"}
    ELSE {pid \in AllPids : Kind(FixtureAnswer(pid, "stat")) # "vanished"}
Phase == CASE pc = "read" -> "walk" [] pc = "done" -> "done" [] OTHER -> "list"
ToVisit == IF pc = "read" THEN todo \ Visiting ELSE {}
Seen == Observed \cup Visiting
Bad(answers) == \E f \in DOMAIN answers : Kind(answers[f]) \notin {"none", "vanished"}
PassStatus == IF Visiting # {} /\ Bad(got) THEN "PARTIAL" ELSE Status

\* One of the things a step of ListingPass may do to it.
PassStep ==
    \/ /\ Listing' \subseteq AllPids /\ Present' \subseteq AllPids
       /\ UNCHANGED <<Phase, ToVisit, Seen, PassStatus>>
    \/ /\ UNCHANGED <<Listing, Present>>
       /\ \/ Phase = "list" /\ Phase' = "walk" /\ ToVisit' = Listing /\ UNCHANGED <<Seen, PassStatus>>
          \/ /\ Phase = "list" /\ Phase' = "done" /\ PassStatus' = "FAILED"
             /\ UNCHANGED <<ToVisit, Seen>>
          \/ /\ Phase = "walk" /\ Phase' = "walk" /\ PassStatus' = "PARTIAL"
             /\ UNCHANGED <<ToVisit, Seen>>
          \/ /\ Phase = "walk" /\ ToVisit = {} /\ Phase' = "done"
             /\ UNCHANGED <<ToVisit, Seen, PassStatus>>
          \/ \E pid \in AllPids :
                /\ Phase = "walk" /\ Phase' = "walk" /\ pid \in ToVisit /\ ToVisit' = ToVisit \ {pid}
                /\ \/ pid \in Present /\ Seen' = Seen \cup {pid} /\ PassStatus' \in {PassStatus, "PARTIAL"}
                   \/ pid \notin Present /\ UNCHANGED <<Seen, PassStatus>>
    \/ UNCHANGED <<Listing, Present, Phase, ToVisit, Seen, PassStatus>>

\* That is a step of ListingPass under the substitution.
LEMMA PassStepIs == PassStep => [Pass!Next]_(Pass!vars)
BY DEF PassStep, Pass!Next, Pass!vars, Pass!Churn, Pass!List, Pass!ListFails, Pass!Degrade, Pass!End,
       Pass!Visit, Present, Phase, ToVisit, Seen, PassStatus, Bad

\* The pid that is being visited, if any.
LEMMA VisitingIs ==
    ASSUME TypeOK
    PROVE  /\ got = <<>> \/ pc # "read" => Visiting = {}
           /\ \A pid \in todo : pc = "read" /\ got # <<>> /\ First(pid) => Visiting = {pid}
<1>1. ASSUME NEW pid \in todo, pc = "read", got # <<>>, First(pid) PROVE Visiting = {pid}
  <2>1. \A q \in todo : First(q) => q = pid
    BY <1>1, FirstIsOne DEF TypeOK
  <2> QED
    BY <1>1, <2>1 DEF Visiting
<1> QED
  BY <1>1 DEF Visiting

\* What a listing shows and what can be read are pids.
LEMMA AbstractTypes == TypeOK => Listing \subseteq AllPids /\ Present \subseteq AllPids
BY DEF TypeOK, Listing, Present, AllPids

\* The host, the recorder and a stuttering step are the system going on.
LEMMA ChurnStep ==
    ASSUME ProgramInv, ProgramInv',
           \/ Recorder /\ UNCHANGED <<hostVars, source>>
           \/ (Save \/ KillRecorder) /\ LeaveHost /\ UNCHANGED source
           \/ HostStep
           \/ UNCHANGED vars
    PROVE  PassStep
<1>0. TypeOK /\ TypeOK'
  BY DEF ProgramInv
<1>1. Listing' \subseteq AllPids /\ Present' \subseteq AllPids
  BY <1>0 DEF TypeOK, Listing, Present, AllPids
<1>2. CASE HostStep \/ UNCHANGED vars
  <2>1. UNCHANGED <<pc, todo, got, result, failed>>
    BY <1>2 DEF HostStep, vars, collectorVars
  <2>2. Visiting' = Visiting /\ Observed' = Observed /\ Status' = Status /\ Bad(got)' = Bad(got)
    BY <2>1 DEF Visiting, First, Observed, Status, Bad
  <2>3. UNCHANGED <<Phase, ToVisit, Seen, PassStatus>>
    BY <2>1, <2>2 DEF Phase, ToVisit, Seen, PassStatus
  <2> QED
    BY <1>1, <2>3 DEF PassStep
<1>3. CASE \/ Recorder /\ UNCHANGED <<hostVars, source>>
           \/ (Save \/ KillRecorder) /\ LeaveHost /\ UNCHANGED source
  <2>1. pc \notin {"read", "done"} /\ pc' \notin {"read", "done"} /\ UNCHANGED <<result, failed>>
    BY <1>3 DEF Recorder, EndRoster, SynthesiseStat, SynthesiseStatus, Record, Save, KillRecorder
  <2>2. Visiting = {} /\ Visiting' = {} /\ Observed' = Observed /\ Status' = Status
    BY <2>1 DEF Visiting, Observed, Status
  <2>3. UNCHANGED <<Phase, ToVisit, Seen, PassStatus>>
    BY <2>1, <2>2 DEF Phase, ToVisit, Seen, PassStatus
  <2> QED
    BY <1>1, <2>3 DEF PassStep
<1> QED
  BY <1>2, <1>3

\* One read is a visit, a part of one, or shows that the pass is not whole.
LEMMA VisitStep ==
    ASSUME ProgramInv, ProgramInv', NEW pid \in AllPids, Read(pid),
           UNCHANGED <<at, source, tree, sidecar, dirs>>
    PROVE  PassStep
<1>0. TypeOK /\ TypeOK' /\ GotShape /\ ResultShape /\ ControlTrue
  BY DEF ProgramInv
<1>1. PICK a \in AnswerValues : ReadIs(pid, a)
  BY ReadCases
<1> DEFINE h == With(got, Field, a)
<1>2. /\ Field = "stat" <=> got = <<>>
      /\ DOMAIN h = DOMAIN got \cup {Field}
      /\ "stat" \in DOMAIN h
      /\ h[Field] = a /\ \A f \in DOMAIN got : h[f] = got[f]
      /\ \A f \in DOMAIN h : h[f] \in AnswerValues
  BY <1>0, GotNext
<1>3. got = <<>> => (pid \in Present <=> Kind(h["stat"]) # "vanished")
  <2> SUFFICES ASSUME got = <<>> PROVE pid \in Present <=> Kind(a) # "vanished"
    BY <1>2
  <2>1. CASE source = "live"
    <3>1. pid \in Pids /\ ReadLive(pid, Field, a) /\ Field # "exe"
      BY <1>0, <1>1, <1>2, <2>1 DEF ControlTrue, ReadSource, ReadIs
    <3> QED
      BY <1>0, <2>1, <3>1, LiveReads DEF Present
  <2>2. CASE source # "live"
    <3>1. a = FixtureAnswer(pid, "stat")
      BY <1>1, <1>2, <2>2 DEF ReadSource, ReadIs
    <3> QED
      BY <2>2, <3>1 DEF Present
  <2> QED
    BY <2>1, <2>2
<1> HIDE DEF h
<1>4. /\ pc = "read" /\ pc' = pc /\ failed' = failed /\ pid \in todo /\ First(pid)
      /\ \/ /\ DOMAIN h = AllFields /\ Kind(h["stat"]) = "none" /\ got # <<>>
            /\ result' = With(result, pid, Describe(h)) /\ got' = <<>> /\ todo' = todo \ {pid}
         \/ /\ got = <<>> /\ DOMAIN h = {"stat"} /\ Kind(h["stat"]) # "none"
            /\ result' = With(result, pid, Describe(h)) /\ got' = <<>> /\ todo' = todo \ {pid}
         \/ /\ DOMAIN h \in Prefixes /\ Kind(h["stat"]) = "none"
            /\ got' = h /\ result' = result /\ todo' = todo
  BY <1>1 DEF h, ReadIs
<1>5. UNCHANGED <<Listing, Present>>
  <2>1. \A q : FixtureAnswer(q, "stat")' = FixtureAnswer(q, "stat")
    BY DEF FixtureAnswer
  <2> QED
    BY <2>1 DEF Listing, Present, Kind
<1>6. /\ Phase = "walk" /\ Phase' = "walk" /\ ~failed
      /\ ToVisit = todo \ Visiting /\ ToVisit' = todo' \ Visiting'
  BY <1>0, <1>4 DEF Phase, ToVisit, ControlTrue
<1>7. /\ got = <<>> => Visiting = {}
      /\ got # <<>> => Visiting = {pid}
      /\ got' = <<>> => Visiting' = {}
  <2>1. TypeOK' => (got' = <<>> => Visiting' = {})
    BY DEF Visiting
  <2> QED
    BY <1>0, <1>4, <2>1, VisitingIs
<1>8. Status = (IF \E q \in DOMAIN result : Degraded(result[q]) THEN "PARTIAL" ELSE "OK")
  BY <1>6 DEF Status
<1>9. CASE \/ DOMAIN h = AllFields /\ Kind(h["stat"]) = "none" /\ got # <<>> /\ got' = <<>>
              /\ result' = With(result, pid, Describe(h)) /\ todo' = todo \ {pid}
           \/ got = <<>> /\ DOMAIN h = {"stat"} /\ Kind(h["stat"]) # "none" /\ got' = <<>>
              /\ result' = With(result, pid, Describe(h)) /\ todo' = todo \ {pid}
  <2> DEFINE d == Describe(h)
  <2>1. /\ Kind(h["stat"]) = "vanished" => d.fate = "vanished" /\ ~Degraded(d)
        /\ Kind(h["stat"]) = "none" => d.fate = "described" /\ (Degraded(d) <=> Bad(h))
        /\ Kind(h["stat"]) \notin {"none", "vanished"} => d.fate = "undescribed" /\ Degraded(d)
    BY <1>2, DescribeIs DEF Degraded, Bad
  <2>2. result' = With(result, pid, d) /\ got' = <<>> /\ todo' = todo \ {pid}
    BY <1>9
  <2> HIDE DEF d
  <2>3. /\ DOMAIN result' = DOMAIN result \cup {pid} /\ result'[pid] = d
        /\ \A q \in DOMAIN result : q # pid => result'[q] = result[q]
        /\ pid \notin DOMAIN result
    BY <1>0, <1>4, <2>2 DEF With, ResultShape
  <2>4. Observed' = Observed \cup (IF d.fate = "vanished" THEN {} ELSE {pid})
    BY <2>3 DEF Observed
  <2>5. Status' = IF Degraded(d) THEN "PARTIAL" ELSE Status
    <3>1. Status' = (IF \E q \in DOMAIN result' : Degraded(result'[q]) THEN "PARTIAL" ELSE "OK")
      BY <1>4, <1>6 DEF Status, Degraded
    <3> QED
      BY <1>8, <2>3, <3>1
  <2>6. Seen' = Observed' /\ PassStatus' = Status' /\ ToVisit' = todo \ {pid}
    BY <1>6, <1>7, <2>2 DEF Seen, PassStatus
  <2>7. CASE got # <<>> /\ Kind(h["stat"]) = "none"
    <3>1. ToVisit = todo \ {pid} /\ Seen = Observed \cup {pid}
      BY <1>6, <1>7, <2>7 DEF Seen
    <3>2. PassStatus = IF Bad(got) THEN "PARTIAL" ELSE Status
      BY <1>7, <2>7 DEF PassStatus
    <3>3. Bad(got) => Bad(h)
      BY <1>2 DEF Bad
    <3>4. PassStatus' \in {PassStatus, "PARTIAL"}
      BY <2>1, <2>5, <2>6, <2>7, <3>2, <3>3
    <3>5. UNCHANGED <<ToVisit, Seen>>
      BY <2>1, <2>4, <2>6, <2>7, <3>1
    <3> QED
      BY <1>5, <1>6, <3>4, <3>5 DEF PassStep
  <2>8. CASE got = <<>> /\ Kind(h["stat"]) # "none"
    <3>1. ToVisit = todo /\ Seen = Observed /\ PassStatus = Status
      BY <1>6, <1>7, <2>8 DEF Seen, PassStatus
    <3>2. pid \in Present <=> Kind(h["stat"]) # "vanished"
      BY <1>3, <2>8
    <3>3. pid \in ToVisit /\ ToVisit' = ToVisit \ {pid}
      BY <1>4, <2>6, <3>1
    <3>4. CASE Kind(h["stat"]) = "vanished"
      <4>1. UNCHANGED <<Seen, PassStatus>> /\ pid \notin Present
        BY <2>1, <2>4, <2>5, <2>6, <3>1, <3>2, <3>4
      <4> QED
        BY <1>5, <1>6, <3>3, <4>1 DEF PassStep
    <3>5. CASE Kind(h["stat"]) # "vanished"
      <4>1. pid \in Present /\ Seen' = Seen \cup {pid} /\ PassStatus' = "PARTIAL"
        BY <2>1, <2>4, <2>5, <2>6, <2>8, <3>1, <3>2, <3>5
      <4> QED
        BY <1>5, <1>6, <3>3, <4>1 DEF PassStep
    <3> QED
      BY <3>4, <3>5
  <2> QED
    BY <1>9, <2>7, <2>8
<1>10. CASE DOMAIN h \in Prefixes /\ Kind(h["stat"]) = "none" /\ got' = h /\ result' = result /\ todo' = todo
  <2>1. got' # <<>>
    BY <1>2, <1>10
  <2>2. Visiting' = {pid}
    <3>1. First(pid)' /\ pid \in todo' /\ \A q \in todo' : First(q)' => q = pid
      <4>1. \A q \in todo : First(q) => q = pid
        BY <1>0, <1>4, FirstIsOne DEF TypeOK
      <4> QED
        BY <1>4, <1>10, <4>1 DEF First
    <3> QED
      BY <1>4, <2>1, <3>1 DEF Visiting
  <2>3. Observed' = Observed /\ Status' = Status
    BY <1>4, <1>10 DEF Observed, Status, Degraded
  <2>4. /\ ToVisit' = todo \ {pid} /\ Seen' = Observed \cup {pid}
        /\ PassStatus' = IF Bad(h) THEN "PARTIAL" ELSE Status
    <3>1. Bad(got)' = Bad(h)
      BY <1>10 DEF Bad, Kind
    <3> QED
      BY <1>6, <1>10, <2>2, <2>3, <3>1 DEF Seen, PassStatus
  <2>5. CASE got = <<>>
    <3>1. ToVisit = todo /\ Seen = Observed /\ PassStatus = Status /\ pid \in Present
      BY <1>3, <1>6, <1>7, <1>10, <2>5 DEF Seen, PassStatus
    <3>2. /\ pid \in ToVisit /\ ToVisit' = ToVisit \ {pid} /\ Seen' = Seen \cup {pid}
          /\ PassStatus' \in {PassStatus, "PARTIAL"}
      BY <1>4, <2>4, <3>1
    <3> QED
      BY <1>5, <1>6, <3>1, <3>2 DEF PassStep
  <2>6. CASE got # <<>>
    <3>1. UNCHANGED <<ToVisit, Seen>> /\ PassStatus = IF Bad(got) THEN "PARTIAL" ELSE Status
      BY <1>6, <1>7, <2>4, <2>6 DEF Seen, PassStatus
    <3>2. Bad(got) => Bad(h)
      BY <1>2 DEF Bad
    <3>3. PassStatus' \in {PassStatus, "PARTIAL"}
      BY <2>4, <3>1, <3>2
    <3> QED
      BY <1>5, <1>6, <3>1, <3>3 DEF PassStep
  <2> QED
    BY <2>5, <2>6
<1> QED
  BY <1>4, <1>9, <1>10

\* The listing, a listing that fails, the visits and the end of the pass.
LEMMA CollectorStep ==
    ASSUME ProgramInv, ProgramInv', Collector, UNCHANGED <<hostVars, source>>
    PROVE  PassStep
<1>0. TypeOK /\ TypeOK' /\ GotShape /\ ControlTrue
  BY DEF ProgramInv
<1>1. UNCHANGED <<at, source, heard, tree, sidecar, dirs>>
  BY DEF Collector, hostVars, fixtureVars
<1>2. UNCHANGED <<Listing, Present>>
  <2>1. \A q : FixtureAnswer(q, "stat")' = FixtureAnswer(q, "stat")
    BY <1>1 DEF FixtureAnswer
  <2> QED
    BY <1>1, <2>1 DEF Listing, Present, Kind
<1>3. CASE ListPids
  <2>1. /\ pc = "list" /\ pc' = "read" /\ todo' = Listing /\ got = <<>>
        /\ UNCHANGED <<got, result, failed>>
    BY <1>0, <1>3 DEF ListPids, GotShape
  <2>2. Visiting = {} /\ Visiting' = {} /\ Observed' = Observed /\ Status' = Status
    BY <2>1 DEF Visiting, Observed, Status, Degraded
  <2>3. Phase = "list" /\ Phase' = "walk" /\ ToVisit' = Listing /\ UNCHANGED <<Seen, PassStatus>>
    BY <2>1, <2>2 DEF Phase, ToVisit, Seen, PassStatus
  <2> QED
    BY <1>2, <2>3 DEF PassStep
<1>4. CASE ListPidsFails
  <2>1. pc = "list" /\ pc' = "done" /\ failed' = TRUE /\ result' = result
    BY <1>4 DEF ListPidsFails
  <2>2. Visiting = {} /\ Visiting' = {} /\ Observed' = Observed /\ Status' = "FAILED"
    BY <2>1 DEF Visiting, Observed, Status
  <2>3. Phase = "list" /\ Phase' = "done" /\ PassStatus' = "FAILED" /\ UNCHANGED <<ToVisit, Seen>>
    BY <2>1, <2>2 DEF Phase, ToVisit, Seen, PassStatus
  <2> QED
    BY <1>2, <2>3 DEF PassStep
<1>5. CASE EndPass
  <2>1. pc = "read" /\ todo = {} /\ pc' = "done" /\ UNCHANGED <<todo, got, result, failed>>
    BY <1>5 DEF EndPass
  <2>2. Visiting = {} /\ Visiting' = {} /\ Observed' = Observed /\ Status' = Status
    BY <2>1 DEF Visiting, Observed, Status, Degraded
  <2>3. /\ Phase = "walk" /\ ToVisit = {} /\ Phase' = "done"
        /\ UNCHANGED <<ToVisit, Seen, PassStatus>>
    BY <2>1, <2>2 DEF Phase, ToVisit, Seen, PassStatus
  <2> QED
    BY <1>2, <2>3 DEF PassStep
<1>6. ASSUME NEW pid \in AllPids, Read(pid) PROVE PassStep
  BY <1>1, <1>6, VisitStep
<1> QED
  BY <1>3, <1>4, <1>5, <1>6 DEF Collector

\* A pass that has not begun.
LEMMA PassInit == Init => Pass!Init
<1> SUFFICES ASSUME Init PROVE Pass!Init
  OBVIOUS
<1>1. Listing \subseteq AllPids /\ Present \subseteq AllPids
  BY ProgramInit, AbstractTypes DEF ProgramInv
<1>2. pc \notin {"read", "done"} /\ result = <<>> /\ failed = FALSE
  BY DEF Init
<1>3. Visiting = {} /\ Observed = {} /\ Status = "OK"
  BY <1>2 DEF Visiting, Observed, Status
<1>4. Phase = "list" /\ ToVisit = {} /\ Seen = {} /\ PassStatus = "OK"
  BY <1>2, <1>3 DEF Phase, ToVisit, Seen, PassStatus
<1> QED
  BY <1>1, <1>4 DEF Pass!Init, Present, Phase, ToVisit, Seen, PassStatus, Bad

\* The reads of one pid, spread over time, have the effect of a visit at the moment
\* stat is read: live and replayed passes implement ListingPass.
THEOREM PassImplementsListing == Spec => ImplementsListing
<1>1. ProgramInv /\ ProgramInv' /\ [Next]_vars => [Pass!Next]_(Pass!vars)
  BY NextCases, CollectorStep, ChurnStep, PassStepIs
<1> QED
  BY <1>1, PassInit, ProgramInvariance, PTL DEF Spec, ImplementsListing, Pass!Spec
=============================================================================
