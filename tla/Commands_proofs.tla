--------------------------- MODULE Commands_proofs ---------------------------
(***************************************************************************)
(* Proofs about Commands for every set of snapshots, keys and concurrent   *)
(* writers, every interleaving of their steps, crashes and foreign writes. *)
(***************************************************************************)
EXTENDS Commands, Scoring_proofs

\* Where the command is before the baseline is decided on.
Undecided == {"begin", "snapshot", "baseline", "readJson", "readSig", "verify", "parse"}

\* Signatures that were made.
Made == {Signature(x[1], x[2]) : x \in signed}

\* Every signature in a file, in the hands of a writer or of the command was made.
SignaturesAreMade ==
    /\ signed \subseteq Keys \X Contents
    /\ json \in Contents \cup {NoFile, Torn}
    /\ sig \in Made \cup {NoFile, Torn}
    /\ \A w \in Writers : writer[w].pc = "writeSig" => <<writer[w].key, writer[w].data>> \in signed
    /\ data \in Contents \cup {Torn}
    /\ mark \in Made \cup {Torn}
    /\ verifyKey \in Keys

\* A writer at work holds a content and a key.
WriterOK == writer \in [Writers -> Writing \cup {Idle}]

\* The command line is one the parser lets through, and the snapshot was loaded
\* before anything is done with it.
ArgumentsOK ==
    /\ cmd = "redact" => option = "none"
    /\ sink = "inplace" => cmd = "redact"
    /\ pc \in {"output", "write"} => input \in Loadable /\ option \in {"none", "given"}
    /\ pc \in {"readJson", "readSig", "verify", "parse"} => option = "given"
    /\ pc \in Undecided \ {"begin", "snapshot"} => input \in Loadable

\* What passed verification was signed with the key of the command, and the
\* command goes on with nothing else.
VerifiedWasSigned ==
    /\ pc = "parse" => <<verifyKey, data>> \in signed
    /\ base = {} \/ \E c \in Contents \cap Loadable : base = {c} /\ <<verifyKey, c>> \in signed
    /\ pc \in Undecided => base = {} /\ ~refused
    /\ refused => base = {} /\ pc = "done"
    /\ pc \in {"output", "write"} /\ option = "given" => base # {}

\* Exit code 0 with a baseline: nothing is new in the snapshot.
ZeroIsCovered ==
    pc = "done" /\ code = 0 /\ option = "given" =>
        \E c \in Contents : base = {c} /\ ModuleIds(Loaded[input]) \subseteq ModuleIds(Loaded[c])

\* A report that names a baseline holds the findings against it.
ReportIsFounded ==
    /\ pc \in Undecided \cup {"output"} /\ cmd = "report" => out = NoFile
    /\ pc = "write" => out = Torn
    /\ cmd = "report" /\ Written /\ out.verified =>
          \E c \in Contents : base = {c} /\ out.findings = analyze(Loaded[input], {Loaded[c]})

IInv ==
    /\ SignaturesAreMade
    /\ WriterOK
    /\ ArgumentsOK
    /\ VerifiedWasSigned
    /\ ZeroIsCovered
    /\ ReportIsFounded

-----------------------------------------------------------------------------
\* An analysis without findings had no signals.
LEMMA NoFindingNoSignal ==
    ASSUME NEW S, score(S) = {} PROVE S = {}
<1>1. Named(S) = {}
  BY DEF score
<1>2. HiddenNamed(S) = {}
  BY <1>1 DEF HiddenNamed
<1>3. Unattributed(S) = Anon(S)
  BY <1>2 DEF Unattributed, Attributable
<1>4. Anon(S) = {}
  BY <1>3 DEF score
<1> QED
  BY <1>1, <1>4 DEF Named, Anon

\* No finding against a baseline: every listed module is in it.
LEMMA NoFindingIsCovered ==
    ASSUME NEW s, NEW b, analyze(s, {b}) = {}
    PROVE  ModuleIds(s) \subseteq ModuleIds(b)
<1>1. all_signals(s, {b}) = {}
  BY NoFindingNoSignal DEF analyze
<1>2. signals_baseline(s, b) = {}
  BY <1>1 DEF all_signals
<1> QED
  BY <1>2 DEF signals_baseline

\* The first state.
LEMMA InitIInv == Init => IInv
<1> SUFFICES ASSUME Init PROVE IInv
  OBVIOUS
<1> USE DEF Init, StoreInit, SessionInit
<1>1. SignaturesAreMade
  BY DEF SignaturesAreMade, Made, Idle
<1>2. WriterOK
  BY DEF WriterOK
<1>3. ArgumentsOK
  BY DEF ArgumentsOK, Invocations
<1>4. VerifiedWasSigned /\ ZeroIsCovered /\ ReportIsFounded
  BY DEF VerifiedWasSigned, ZeroIsCovered, ReportIsFounded, Written
<1> QED
  BY <1>1, <1>2, <1>3, <1>4 DEF IInv

\* A verified pair of files: the signature was made for this content and key.
LEMMA VerifyMeansSigned ==
    ASSUME SignaturesAreMade, Verifies(verifyKey, mark, data)
    PROVE  <<verifyKey, data>> \in signed
<1>1. mark # Torn
  BY StoreAssumption DEF SignaturesAreMade, Verifies
<1>2. PICK x \in signed : mark = Signature(x[1], x[2])
  BY <1>1 DEF SignaturesAreMade, Made
<1>3. x[1] = verifyKey /\ x[2] = data
  BY <1>2 DEF Verifies, Signature
<1> QED
  BY <1>3 DEF SignaturesAreMade

-----------------------------------------------------------------------------
\* A step of a writer or of anything else that writes the files.
LEMMA StoreStepIInv == IInv /\ StoreStep => IInv'
<1> SUFFICES ASSUME IInv, StoreStep PROVE IInv'
  OBVIOUS
<1>0. UNCHANGED <<arguments, pc, data, mark, base, out, code, refused>> /\ pc # "done"
  BY DEF StoreStep, Reads
<1>1. SignaturesAreMade' /\ WriterOK' /\ signed \subseteq signed'
  <2> USE <1>0 DEF IInv, SignaturesAreMade, WriterOK, Made, Writing, Idle, Goto, arguments
  <2>1. ASSUME NEW w \in Writers, NEW c \in Contents, NEW k \in Keys, BeginWrite(w, c, k)
        PROVE  SignaturesAreMade' /\ WriterOK' /\ signed \subseteq signed'
    BY <2>1 DEF BeginWrite
  <2>2. ASSUME NEW w \in Writers, OpenJson(w)
        PROVE  SignaturesAreMade' /\ WriterOK' /\ signed \subseteq signed'
    BY <2>2 DEF OpenJson
  <2>3. ASSUME NEW w \in Writers, WriteJson(w)
        PROVE  SignaturesAreMade' /\ WriterOK' /\ signed \subseteq signed'
    BY <2>3 DEF WriteJson, Alone
  <2>4. ASSUME NEW w \in Writers, SignAndOpenSig(w)
        PROVE  SignaturesAreMade' /\ WriterOK' /\ signed \subseteq signed'
    BY <2>4 DEF SignAndOpenSig
  <2>5. ASSUME NEW w \in Writers, WriteSig(w)
        PROVE  SignaturesAreMade' /\ WriterOK' /\ signed \subseteq signed'
    <3>1. \A k, c : <<k, c>> \in signed => Signature(k, c) \in Made
      OBVIOUS
    <3>2. sig' = Signature(writer[w].key, writer[w].data) \/ sig' = Torn
      BY <2>5 DEF WriteSig
    <3>5. Signature(writer[w].key, writer[w].data) \in Made
      BY <2>5, <3>1 DEF WriteSig
    <3>3. UNCHANGED <<json, signed>> /\ Made' = Made
      BY <2>5 DEF WriteSig
    <3>4. WriterOK' /\ \A v \in Writers : writer'[v].pc = "writeSig" => writer'[v] = writer[v]
      BY <2>5 DEF WriteSig
    <3> HIDE DEF Made
    <3> QED
      BY <3>2, <3>3, <3>4, <3>5
  <2>6. ASSUME NEW w \in Writers, AbortWrite(w)
        PROVE  SignaturesAreMade' /\ WriterOK' /\ signed \subseteq signed'
    BY <2>6 DEF AbortWrite
  <2>7. ASSUME ForeignWrite
        PROVE  SignaturesAreMade' /\ WriterOK' /\ signed \subseteq signed'
    BY <2>7 DEF ForeignWrite
  <2> QED
    BY <2>1, <2>2, <2>3, <2>4, <2>5, <2>6, <2>7 DEF StoreStep, StoreNext
<1>2. ArgumentsOK' /\ VerifiedWasSigned' /\ ZeroIsCovered' /\ ReportIsFounded'
  BY <1>0, <1>1 DEF IInv, ArgumentsOK, VerifiedWasSigned, ZeroIsCovered, ReportIsFounded, Written,
                    arguments
<1> QED
  BY <1>1, <1>2 DEF IInv

\* What the analysis finds against a verified baseline.
LEMMA FindingsAgainstBaseline ==
    ASSUME NEW c \in Contents \cap Loadable, input \in Loadable, base = {c}
    PROVE  Findings = analyze(Loaded[input], {Loaded[c]})
<1>1. Findings = analyze(Loaded[input], {Loaded[b] : b \in base})
  BY DEF Findings, Judged
<1>2. {Loaded[b] : b \in base} = {Loaded[c]}
  OBVIOUS
<1> QED
  BY <1>1, <1>2

\* The output is written: it and the exit code are about the verified baseline.
LEMMA EmitIInv ==
    ASSUME IInv, pc \in {"output", "write"}, Emit,
           UNCHANGED <<storeVars, arguments, data, mark, base, undisturbed, refused>>
    PROVE  IInv'
<1>1. /\ pc' = "done" /\ code' = ExitCode /\ out' \in Outputs
      /\ UNCHANGED <<json, sig, writer, signed, cmd, input, option, verifyKey, sink, data, mark,
                     base, refused>>
  BY DEF Emit, Quit, storeVars, arguments
<1>2. SignaturesAreMade' /\ WriterOK' /\ ArgumentsOK' /\ VerifiedWasSigned'
  BY <1>1 DEF IInv, SignaturesAreMade, WriterOK, Made, ArgumentsOK, VerifiedWasSigned, Undecided
<1>3. CASE option # "given"
  <2>0. option = "none"
    BY <1>3 DEF IInv, ArgumentsOK
  <2>1. ASSUME cmd = "report" PROVE ~out'.verified
    <3>1. PICK iocs, notes : out' = Report(Findings, iocs, option # "none", notes)
      BY <1>1, <2>1 DEF Outputs, Said, Findings
    <3>2. out'.verified = (option # "none")
      BY <3>1 DEF Report
    <3> QED
      BY <2>0, <3>2
  <2> QED
    BY <1>1, <1>2, <1>3, <2>1 DEF IInv, ZeroIsCovered, ReportIsFounded, Undecided
<1>4. CASE option = "given"
  <2>1. PICK c \in Contents \cap Loadable : base = {c}
    BY <1>4 DEF IInv, VerifiedWasSigned
  <2>2. Findings = analyze(Loaded[input], {Loaded[c]})
    BY <2>1, FindingsAgainstBaseline DEF IInv, ArgumentsOK
  <2>3. ZeroIsCovered'
    <3>1. ASSUME code' = 0 PROVE Findings = {}
      BY <1>1, <1>4, <3>1 DEF ExitCode, IInv, ArgumentsOK
    <3> QED
      BY <1>1, <2>1, <2>2, <3>1, NoFindingIsCovered DEF ZeroIsCovered
  <2>4. cmd = "report" => out'.findings = Findings
    BY <1>1 DEF Outputs, Said, Findings, Report
  <2>5. ReportIsFounded'
    BY <1>1, <2>1, <2>2, <2>4 DEF ReportIsFounded, Undecided
  <2> QED
    BY <1>2, <2>3, <2>5 DEF IInv
<1> QED
  BY <1>3, <1>4

\* A step of the command.
LEMMA SessionStepIInv == IInv /\ SessionStep => IInv'
<1> SUFFICES ASSUME IInv, Session, UNCHANGED storeVars PROVE IInv'
  BY DEF SessionStep
<1>0. WriterOK' /\ UNCHANGED <<json, sig, writer, signed>> /\ Made' = Made
  BY DEF IInv, WriterOK, Made, storeVars
<1> USE <1>0 DEF IInv, SignaturesAreMade, ArgumentsOK, VerifiedWasSigned, ZeroIsCovered,
         ReportIsFounded, Written, Undecided, arguments, Proceed, Quit, Fail, Traceback
<1>1. CASE Begin
  BY <1>1 DEF Begin
<1>2. CASE LoadSnapshot
  BY <1>2 DEF LoadSnapshot
<1>3. CASE CheckOptions
  BY <1>3 DEF CheckOptions
<1>4. CASE ReadJson
  BY <1>4 DEF ReadJson
<1>5. CASE ReadSig
  BY <1>5 DEF ReadSig
<1>6. CASE Verify
  BY <1>6, VerifyMeansSigned DEF Verify
<1>7. CASE ParseBaseline
  <2>1. data \in Contents /\ out = out' /\ pc = "parse"
    BY <1>7 DEF ParseBaseline
  <2>2. CASE data \in Loadable /\ base' = {data} /\ Proceed("output") /\ UNCHANGED refused
    BY <1>7, <2>1, <2>2 DEF ParseBaseline
  <2>3. CASE pc' = "done" /\ code' = 1 /\ refused' = TRUE /\ UNCHANGED base
    BY <1>7, <2>1, <2>3 DEF ParseBaseline
  <2> QED
    BY <1>7, <2>2, <2>3 DEF ParseBaseline
<1>8. CASE PrintOut
  BY <1>8, EmitIInv DEF PrintOut
<1>9. CASE OpenOut
  BY <1>9 DEF OpenOut
<1>10. CASE WriteOut
  <2>1. CASE Emit
    BY <1>10, <2>1, EmitIInv DEF WriteOut
  <2>2. CASE UNCHANGED out /\ Fail
    BY <1>10, <2>2 DEF WriteOut
  <2> QED
    BY <1>10, <2>1, <2>2 DEF WriteOut
<1> QED
  BY <1>1, <1>2, <1>3, <1>4, <1>5, <1>6, <1>7, <1>8, <1>9, <1>10 DEF Session

\* The command is killed.
LEMMA KillIInv == IInv /\ Kill => IInv'
<1> SUFFICES ASSUME IInv, Kill PROVE IInv'
  OBVIOUS
<1>1. /\ pc \notin {"begin", "done", "killed"} /\ pc' = "killed"
      /\ UNCHANGED <<json, sig, writer, signed, cmd, input, option, verifyKey, sink, data, mark,
                     base, out, refused>>
  BY DEF Kill, storeVars, arguments
<1>2. SignaturesAreMade' /\ WriterOK' /\ ArgumentsOK' /\ VerifiedWasSigned'
  BY <1>1 DEF IInv, SignaturesAreMade, WriterOK, Made, ArgumentsOK, VerifiedWasSigned, Undecided
<1>3. ZeroIsCovered' /\ ReportIsFounded'
  BY <1>1 DEF IInv, ZeroIsCovered, ReportIsFounded, Written, Undecided
<1> QED
  BY <1>2, <1>3 DEF IInv

\* The invariant holds in every reachable state.
THEOREM Invariance == Spec => []IInv
<1>1. IInv /\ [Next]_vars => IInv'
  <2> SUFFICES ASSUME IInv, [Next]_vars PROVE IInv'
    OBVIOUS
  <2>1. CASE UNCHANGED vars
    <3> USE <2>1 DEF vars, storeVars, sessionVars, IInv, Undecided
    <3>1. SignaturesAreMade' /\ WriterOK'
      BY DEF SignaturesAreMade, WriterOK, Made
    <3>2. ArgumentsOK' /\ VerifiedWasSigned' /\ ZeroIsCovered'
      BY DEF ArgumentsOK, VerifiedWasSigned, ZeroIsCovered
    <3>3. ReportIsFounded'
      BY DEF ReportIsFounded, Written
    <3> QED
      BY <3>1, <3>2, <3>3
  <2> QED
    BY <2>1, SessionStepIInv, KillIInv, StoreStepIInv DEF Next, Terminated
<1> QED
  BY <1>1, InitIInv, PTL DEF Spec

\* Exit code 0 against a baseline means that every module of the snapshot is in a
\* snapshot signed with the key given (load_baseline, signals_baseline, cmd_analyze,
\* cmd_report), whatever is done to the two files and by whomever.
THEOREM ZeroOnlyIfSigned == Spec => []ExitZeroIsSigned
<1>1. IInv => ExitZeroIsSigned
  BY DEF IInv, VerifiedWasSigned, ZeroIsCovered, ExitZeroIsSigned
<1> QED
  BY <1>1, Invariance, PTL

\* A report that calls its baseline verified holds the findings against a snapshot
\* signed with the key given (cmd_report, render_json).
THEOREM VerifiedOnlyIfSigned == Spec => []VerifiedIsSigned
<1>1. IInv => VerifiedIsSigned
  BY DEF IInv, VerifiedWasSigned, ReportIsFounded, VerifiedIsSigned
<1> QED
  BY <1>1, Invariance, PTL

-----------------------------------------------------------------------------
(* The store and the command implement SignedBaseline *)

\* The baseline the command goes on with, once there is one.
LEMMA AnswerIsBaseline ==
    ASSUME NEW c \in Contents PROVE (CHOOSE d \in Contents : {c} = {d}) = c
<1>1. \E d \in Contents : {c} = {d}
  OBVIOUS
<1>2. {c} = {CHOOSE d \in Contents : {c} = {d}}
  BY <1>1, Zenon
<1> QED
  BY <1>2

\* Every behaviour of the files, their writers and the command is one the abstract
\* specification allows: signatures are only added, and the command accepts a
\* content signed with its key, once, or is refused.
THEOREM Implementation == Spec => ImplementsPromise
<1>1. Init => Promise!Init
  BY DEF Init, StoreInit, SessionInit, Promise!Init
<1>2. IInv /\ [Next]_vars => [Promise!Next]_Promise!vars
  <2> SUFFICES ASSUME IInv, [Next]_vars PROVE [Promise!Next]_Promise!vars
    OBVIOUS
  <2> USE DEF Promise!vars
  <2>1. CASE UNCHANGED <<signed, verifyKey, base, refused>>
    BY <2>1
  <2>2. CASE StoreStep
    <3>1. UNCHANGED <<verifyKey, base, refused>>
      BY <2>2 DEF StoreStep, arguments
    <3>2. \/ UNCHANGED signed
          \/ \E k \in Keys, c \in Contents : signed' = signed \cup {<<k, c>>}
      BY <2>2 DEF StoreStep, StoreNext, BeginWrite, OpenJson, WriteJson, SignAndOpenSig,
                  WriteSig, AbortWrite, ForeignWrite, IInv, WriterOK, Writing, Idle
    <3> QED
      BY <2>1, <3>1, <3>2 DEF Promise!Next, Promise!Sign
  <2>3. CASE SessionStep
    <3>0. UNCHANGED signed
      BY <2>3 DEF SessionStep, storeVars
    <3>1. CASE ParseBaseline /\ base' # base
      <4>1. /\ base = {} /\ ~refused /\ base' = {data} /\ UNCHANGED <<refused, verifyKey>>
            /\ data \in Contents /\ <<verifyKey, data>> \in signed
        BY <3>1 DEF ParseBaseline, IInv, VerifiedWasSigned, SignaturesAreMade, Undecided, arguments
      <4> QED
        BY <3>0, <4>1, AnswerIsBaseline DEF Promise!Next, Promise!Accept
    <3>2. CASE base' = base /\ refused' # refused
      <4>1. base = {} /\ ~refused /\ refused' /\ UNCHANGED verifyKey
        BY <2>3, <3>2 DEF SessionStep, Session, Begin, LoadSnapshot, CheckOptions, ReadJson,
           ReadSig, Verify, ParseBaseline, PrintOut, OpenOut, WriteOut, IInv, VerifiedWasSigned,
           Undecided, arguments
      <4> QED
        BY <3>0, <3>2, <4>1 DEF Promise!Next, Promise!Refuse
    <3>3. UNCHANGED verifyKey /\ (base' = base \/ ParseBaseline)
      BY <2>3 DEF SessionStep, Session, Begin, LoadSnapshot, CheckOptions, ReadJson,
         ReadSig, Verify, ParseBaseline, PrintOut, OpenOut, WriteOut, arguments
    <3> QED
      BY <2>1, <3>0, <3>1, <3>2, <3>3
  <2>4. CASE Kill
    BY <2>1, <2>4 DEF Kill, storeVars, arguments
  <2> QED
    BY <2>1, <2>2, <2>3, <2>4 DEF Next, Terminated, vars, storeVars, sessionVars
<1> QED
  BY <1>1, <1>2, Invariance, PTL DEF Spec, ImplementsPromise, Promise!Spec

-----------------------------------------------------------------------------
(* The whole session *)

\* Where the command is after it has loaded the snapshot and before it ends.
Working == {"baseline", "readJson", "readSig", "verify", "parse", "output", "write"}

\* What the command works on has been loaded, a baseline was asked for, and a file
\* that is written was.
InputLoaded ==
    /\ pc \in Working => input \in Inputs \cap Loadable
    /\ option # "given" => base = {}
    /\ pc = "write" => sink # "stdout"

\* Files that stood still are still what the command read of them; once it has
\* read the signature nobody writes them.
ReadsAreCurrent ==
    undisturbed /\ option = "given" =>
        /\ pc \in {"readSig", "verify", "parse"} => data = json
        /\ pc = "verify" => mark = sig
        /\ pc = "parse" => sig = Signature(verifyKey, json)
        /\ pc \in {"output", "write"} =>
              /\ json \in Contents \cap Loadable /\ base = {json}
              /\ sig = Signature(verifyKey, json)

\* A redaction onto its input has not touched it before it opens its output.
InputKept == sink = "inplace" /\ pc \in {"snapshot"} \cup (Working \ {"write"}) => out = input

\* What a redaction that succeeds has left.
RedactionMade ==
    pc = "done" /\ cmd = "redact" /\ code = 0 =>
        input \in Inputs \cap Loadable /\ out = FromDict(redact_snapshot(Json[input]))

SessionInv ==
    /\ TypeOK
    /\ InputLoaded
    /\ ReadsAreCurrent
    /\ UndisturbedMatchesReference
    /\ IndicatorsAreConcealed
    /\ InputKept
    /\ RedactInPlaceKeepsInput
    /\ RedactionMade

\* A signal of a hiding channel that names its suspect speaks of something the
\* listings do not show, and of a process or a module.
LEMMA HidingSignalIsUnlisted ==
    ASSUME NEW s, NEW b, NEW x \in all_signals(s, b)
    PROVE  /\ x.suspect.kind = "process" => x.suspect.name \notin ListedIds(s)
           /\ x.suspect.kind = "module" /\ x.suspect.name # NoName /\ x.channel \in HIDING =>
                 x.suspect.name \notin ModuleIds(s)
           /\ x.suspect.kind \in {"process", "module"}
<1> USE DEF Signal, Process, Module, Anonymous
<1>1. CASE x \in signals_processes(s)
  <2>1. PICK c, g : g \notin ListedIds(s) /\ x = Signal(c, Process(g), {FirstTask(s, g)})
    BY <1>1, ProcessSignalExplained
  <2> QED
    BY <2>1
<1>2. CASE x \in signals_sockets(s)
  <2>1. PICK g, i : g \notin ListedIds(s) /\ x = Signal("socket_visible", Process(g), {i})
    BY <1>2, SocketSignalExplained
  <2> QED
    BY <2>1
<1>3. CASE x \in signals_modules(s)
  <2>1. \/ x.suspect = Anonymous
        \/ \E m : m \notin ModuleIds(s) /\ x = Signal("ftrace_orphan", Module(m), {})
    BY <1>3 DEF signals_modules
  <2> QED
    BY <2>1
<1>4. CASE x \in signals_hooks(s)
  <2>1. PICK m, f : m \notin ModuleIds(s) /\ x = Signal("unexpected_hook", Module(m), {f})
    BY <1>4 DEF signals_hooks
  <2> QED
    BY <2>1
<1>5. CASE x \in signals_over_listed(s)
  <2>1. PICK m : x = Signal("over_listed", Module(m), {})
    BY <1>5 DEF signals_over_listed
  <2> QED
    BY <2>1 DEF HIDING
<1>6. CASE \E c \in b : x \in signals_baseline(s, c)
  <2>1. PICK m : x = Signal("baseline_drift", Module(m), {})
    BY <1>6 DEF signals_baseline
  <2> QED
    BY <2>1 DEF HIDING
<1> QED
  BY <1>1, <1>2, <1>3, <1>4, <1>5, <1>6 DEF all_signals

\* A finding that something is hidden is about something the listings do not show.
LEMMA HiddenFindingIsUnlisted ==
    ASSUME NEW s, NEW b, NEW f \in analyze(s, b)
    PROVE  /\ f.kind = "hidden_process" =>
                 f.suspect.kind # "module" /\ f.suspect.name \notin ListedIds(s)
           /\ f.kind = "hidden_module" =>
                 f.suspect.kind = "module" /\ f.suspect.name \notin ModuleIds(s)
<1> DEFINE S == all_signals(s, b)
<1>1. CASE IsAnonymousFinding(f, S)
  <2>1. f.kind = "suspected_hidden_module"
    BY <1>1 DEF IsAnonymousFinding, Compose, Classify, Anonymous, Module
  <2> QED
    BY <2>1
<1>2. CASE IsNamedFinding(f, S)
  <2>1. PICK x \in Named(S) : f = Compose(x.suspect, Group(S, x.suspect), {})
    BY <1>2 DEF IsNamedFinding
  <2>2. /\ f.suspect = x.suspect /\ x.suspect.name # NoName /\ x \in S
        /\ f.kind = Classify(x.suspect, Channels(Group(S, x.suspect)))
    BY <2>1 DEF Compose, Named
  <2>3. CASE x.suspect.kind = "process"
    BY <2>2, <2>3, HidingSignalIsUnlisted DEF Classify
  <2>4. CASE x.suspect.kind = "module"
    <3>1. SUFFICES ASSUME f.kind = "hidden_module" PROVE f.suspect.name \notin ModuleIds(s)
      BY <2>2, <2>4 DEF Classify
    <3>2. Channels(Group(S, x.suspect)) \cap HIDING # {}
      BY <2>2, <2>4, <3>1 DEF Classify
    <3>3. PICK y \in Group(S, x.suspect) : y.channel \in HIDING
      BY <3>2 DEF Channels
    <3>4. CASE y \in Named(S) /\ y.suspect = x.suspect
      BY <2>2, <2>4, <3>3, <3>4, HidingSignalIsUnlisted DEF Named
    <3>5. CASE HiddenNamed(S) = {x.suspect.name}
      <4>1. PICK z \in Named(S) : /\ z.suspect.kind = "module" /\ z.channel \in HIDING_NAMED
                                  /\ z.suspect.name = x.suspect.name
        BY <3>5 DEF HiddenNamed
      <4>2. z.channel \in HIDING /\ z \in S /\ z.suspect.name # NoName
        BY <4>1 DEF HIDING, HIDING_NAMED, Named
      <4> QED
        BY <2>2, <4>1, <4>2, HidingSignalIsUnlisted
    <3> QED
      BY <3>3, <3>4, <3>5 DEF Group
  <2> QED
    BY <2>2, <2>3, <2>4, HidingSignalIsUnlisted
<1> QED
  BY <1>1, <1>2, FindingsOfScore DEF analyze

\* The indicators a finding gives are pairs, and only a hidden process or a hidden
\* module gives any.
LEMMA IndicatorsOfFinding ==
    ASSUME NEW f, NEW s, NEW x \in Indicators(f, s)
    PROVE  /\ x = <<x[1], x[2]>>
           /\ f.kind \in {"hidden_module", "hidden_process"}
           /\ x[1] = "kernel_module" => f.kind = "hidden_module" /\ x[2] = f.suspect.name
<1>1. CASE f.kind = "hidden_module"
  <2>1. x = <<"kernel_module", f.suspect.name>> \/ \E g : x = <<"hooked_function", g>>
    BY <1>1 DEF Indicators
  <2> QED
    BY <1>1, <2>1
<1>2. CASE f.kind = "hidden_process"
  <2>1. (\E n : x = <<"process_name", n>>) \/ \E e : x = <<"network_endpoint", e>>
    BY <1>2 DEF Indicators
  <2> QED
    BY <1>2, <2>1
<1> QED
  BY <1>1, <1>2 DEF Indicators

\* What extract makes of the findings of an analysis.
LEMMA ExtractIsConcealed ==
    ASSUME NEW s, NEW b, NEW iocs \in extract(analyze(s, b), s)
    PROVE  /\ \A i \in iocs :
                 /\ i.source_finding.name \notin IF i.source_finding.kind = "module"
                                                 THEN ModuleIds(s) ELSE ListedIds(s)
                 /\ i.type = "kernel_module" => i.value = i.source_finding.name
                 /\ \E f \in analyze(s, b) :
                        f.suspect = i.source_finding /\ f.confidence = i.confidence
           /\ \A i, j \in iocs : i.type = j.type /\ i.value = j.value => i = j
<1> DEFINE F == analyze(s, b)
           found == UNION {Indicators(f, s) : f \in F}
           entry(c, x) == [type |-> x[1], value |-> x[2], confidence |-> c[x].confidence,
                           source_finding |-> c[x].suspect]
<1>1. PICK c \in [found -> F] : /\ \A x \in found : x \in Indicators(c[x], s)
                                /\ iocs = {entry(c, x) : x \in found}
  BY DEF extract
<1>2. \A x \in found : c[x] \in F /\ x \in Indicators(c[x], s)
  BY <1>1
<1>e. \A x : /\ entry(c, x).type = x[1] /\ entry(c, x).value = x[2]
             /\ entry(c, x).source_finding = c[x].suspect
             /\ entry(c, x).confidence = c[x].confidence
  OBVIOUS
<1> HIDE DEF F, found, entry
<1>3. ASSUME NEW i \in iocs
      PROVE  /\ i.source_finding.name \notin IF i.source_finding.kind = "module"
                                              THEN ModuleIds(s) ELSE ListedIds(s)
             /\ i.type = "kernel_module" => i.value = i.source_finding.name
             /\ \E f \in F : f.suspect = i.source_finding /\ f.confidence = i.confidence
  <2>1. PICK x \in found : i = entry(c, x)
    BY <1>1, <1>3
  <2>2. /\ c[x] \in F /\ x \in Indicators(c[x], s)
        /\ i.type = x[1] /\ i.value = x[2]
        /\ i.source_finding = c[x].suspect /\ i.confidence = c[x].confidence
    BY <1>2, <1>e, <2>1
  <2>3. /\ c[x].kind \in {"hidden_module", "hidden_process"}
        /\ x[1] = "kernel_module" => x[2] = c[x].suspect.name
    BY <2>2, IndicatorsOfFinding
  <2>4. /\ c[x].kind = "hidden_process" =>
              c[x].suspect.kind # "module" /\ c[x].suspect.name \notin ListedIds(s)
        /\ c[x].kind = "hidden_module" =>
              c[x].suspect.kind = "module" /\ c[x].suspect.name \notin ModuleIds(s)
    BY <2>2, HiddenFindingIsUnlisted DEF F
  <2> QED
    BY <2>2, <2>3, <2>4
<1>4. ASSUME NEW i \in iocs, NEW j \in iocs, i.type = j.type, i.value = j.value PROVE i = j
  <2>1. PICK x \in found : i = entry(c, x)
    BY <1>1
  <2>2. PICK y \in found : j = entry(c, y)
    BY <1>1
  <2>3. x = <<x[1], x[2]>> /\ y = <<y[1], y[2]>>
    BY <1>2, IndicatorsOfFinding
  <2>4. x[1] = y[1] /\ x[2] = y[2]
    BY <1>4, <1>e, <2>1, <2>2
  <2>5. x = y
    BY <2>3, <2>4
  <2> QED
    BY <2>1, <2>2, <2>5
<1> QED
  BY <1>3, <1>4 DEF F

-----------------------------------------------------------------------------
(* Redaction *)

\* An observation with every command line replaced.
Redacted(o) == [o EXCEPT !.entities = [k \in DOMAIN @ |-> RedactEntity(@[k])]]

\* The observations of a redacted document, loaded.
RedactedLoaded(o) == ObservationFromDict(Redacted(o))

Parts == {"collector", "pass", "ids", "entities", "numeric", "extra"}

\* The entities of an observation of the given class, without the fields this
\* build does not know.
Known(entities, type) ==
    [k \in DOMAIN entities |->
        [x \in DOMAIN entities[k] \cap (Required(type) \cup Optional(type)) |-> entities[k][x]]]

\* Loading an observation changes nothing but its entities, ...
LEMMA LoadedObservation ==
    ASSUME NEW o, Parts \subseteq DOMAIN o, NEW l, l = ObservationFromDict(o)
    PROVE  /\ DOMAIN l = DOMAIN o
           /\ \A x \in DOMAIN o : x # "entities" => l[x] = o[x]
           /\ EntityType(o.collector) = "None" => l.entities = <<>>
           /\ EntityType(o.collector) # "None" =>
                 l.entities = Known(o.entities, EntityType(o.collector))
BY DEF ObservationFromDict, Parts, Restrict, Known

\* ... and so does redacting it.
LEMMA RedactedObservation ==
    ASSUME NEW o, Parts \subseteq DOMAIN o
    PROVE  LET r == Redacted(o)
           IN  /\ DOMAIN r = DOMAIN o
               /\ \A x \in DOMAIN o : x # "entities" => r[x] = o[x]
               /\ r.entities = [k \in DOMAIN o.entities |-> RedactEntity(o.entities[k])]
BY DEF Redacted, Parts

\* A command line is a field of a process alone.
LEMMA CommandLineOfProcess ==
    ASSUME NEW c, EntityType(c) \notin {"None", "ProcessEntity"}
    PROVE  "cmdline" \notin Required(EntityType(c)) \cup Optional(EntityType(c))
BY DEF EntityType, Required, Optional, SweepKeys, ModuleKeys, HookKeys, SocketKeys

\* A redacted observation loaded, and loaded again: the same parts as of the
\* original loaded, the entities too where no command line can be.
LEMMA RedactedTwice ==
    ASSUME NEW o, Parts \subseteq DOMAIN o
    PROVE  LET t == ObservationFromDict(RedactedLoaded(o))
               l == ObservationFromDict(o)
           IN  /\ t.collector = o.collector /\ l.collector = o.collector
               /\ t.pass = l.pass /\ t.ids = l.ids
               /\ EntityType(o.collector) # "ProcessEntity" => t = l
<1> DEFINE r == Redacted(o)
           q == RedactedLoaded(o)
           t == ObservationFromDict(q)
           l == ObservationFromDict(o)
           type == EntityType(o.collector)
           known == Required(type) \cup Optional(type)
<1>r. /\ DOMAIN r = DOMAIN o
      /\ \A x \in DOMAIN o : x # "entities" => r[x] = o[x]
      /\ r.entities = [k \in DOMAIN o.entities |-> RedactEntity(o.entities[k])]
  BY RedactedObservation
<1>q. /\ DOMAIN q = DOMAIN o
      /\ \A x \in DOMAIN o : x # "entities" => q[x] = o[x]
      /\ type = "None" => q.entities = <<>>
      /\ type # "None" => q.entities = Known(r.entities, type)
  <2>1. Parts \subseteq DOMAIN r /\ r.collector = o.collector
    BY <1>r DEF Parts
  <2>2. q = ObservationFromDict(r)
    BY DEF RedactedLoaded
  <2> HIDE DEF r, q
  <2> QED
    BY <1>r, <2>1, <2>2, LoadedObservation
<1>t. /\ DOMAIN t = DOMAIN o
      /\ \A x \in DOMAIN o : x # "entities" => t[x] = o[x]
      /\ type = "None" => t.entities = <<>>
      /\ type # "None" => t.entities = Known(q.entities, type)
  <2>1. Parts \subseteq DOMAIN q /\ q.collector = o.collector
    BY <1>q DEF Parts
  <2>2. t = ObservationFromDict(q)
    OBVIOUS
  <2> HIDE DEF t, q
  <2> QED
    BY <1>q, <2>1, <2>2, LoadedObservation
<1>l. /\ DOMAIN l = DOMAIN o
      /\ \A x \in DOMAIN o : x # "entities" => l[x] = o[x]
      /\ type = "None" => l.entities = <<>>
      /\ type # "None" => l.entities = Known(o.entities, type)
  BY LoadedObservation
<1>f. t = [x \in DOMAIN t |-> t[x]] /\ l = [x \in DOMAIN l |-> l[x]]
  BY DEF ObservationFromDict
<1> HIDE DEF r, q, t, l, type, known
<1>1. ASSUME type \notin {"None", "ProcessEntity"} PROVE t.entities = l.entities
  <2>1. "cmdline" \notin known
    BY <1>1, CommandLineOfProcess DEF type, known
  <2>2. ASSUME NEW k \in DOMAIN o.entities
        PROVE  t.entities[k] = l.entities[k]
    <3>1. r.entities[k] = RedactEntity(o.entities[k])
      BY <1>r
    <3>2. /\ DOMAIN r.entities[k] = DOMAIN o.entities[k]
          /\ \A x \in DOMAIN o.entities[k] : x # "cmdline" => r.entities[k][x] = o.entities[k][x]
      BY <3>1 DEF RedactEntity
    <3>3. q.entities[k] = [x \in DOMAIN r.entities[k] \cap known |-> r.entities[k][x]]
      BY <1>1, <1>q, <1>r DEF Known, known
    <3>4. q.entities[k] = [x \in DOMAIN o.entities[k] \cap known |-> o.entities[k][x]]
      BY <2>1, <3>2, <3>3
    <3>5. t.entities[k] = [x \in DOMAIN q.entities[k] \cap known |-> q.entities[k][x]]
      BY <1>1, <1>t, <1>q, <1>r DEF Known, known
    <3>6. l.entities[k] = [x \in DOMAIN o.entities[k] \cap known |-> o.entities[k][x]]
      BY <1>1, <1>l DEF Known, known
    <3> QED
      BY <3>4, <3>5, <3>6
  <2>3. DOMAIN t.entities = DOMAIN o.entities /\ DOMAIN l.entities = DOMAIN o.entities
    BY <1>1, <1>t, <1>q, <1>r, <1>l DEF Known
  <2> QED
    BY <1>1, <1>t, <1>l, <2>2, <2>3 DEF Known
<1>2. ASSUME type # "ProcessEntity" PROVE t = l
  <2>1. t.entities = l.entities
    BY <1>1, <1>2, <1>t, <1>l
  <2>2. \A x \in DOMAIN o : t[x] = l[x]
    BY <2>1, <1>t, <1>l
  <2> QED
    BY <1>f, <1>t, <1>l, <2>2
<1> QED
  BY <1>2, <1>t, <1>l DEF Parts, t, l, q, type

\* The observations of a redacted file, of that file loaded, and of the original.
LEMMA RedactedDocument ==
    ASSUME NEW f \in DOMAIN Json, NEW d, d = Json[f], NEW r, r = FromDict(redact_snapshot(d))
    PROVE  /\ r.version = d.version
           /\ r.observations = {RedactedLoaded(o) : o \in d.observations}
           /\ FromDict(r).observations =
                 {ObservationFromDict(RedactedLoaded(o)) : o \in d.observations}
           /\ FromDict(d).observations = {ObservationFromDict(o) : o \in d.observations}
<1> DEFINE m == redact_snapshot(d)
<1>0. {"version", "observations"} \subseteq DOMAIN d
  BY DocumentAssumption
<1>1. /\ DOMAIN m = DOMAIN d /\ m.version = d.version
      /\ m.observations = {Redacted(o) : o \in d.observations}
  BY <1>0 DEF redact_snapshot, Redacted
<1>2. r = FromDict(m)
  OBVIOUS
<1> HIDE DEF m
<1>3. /\ DOMAIN r = DOMAIN d /\ r.version = d.version
      /\ r.observations = {ObservationFromDict(o) : o \in m.observations}
  BY <1>0, <1>1, <1>2 DEF FromDict
<1>4. r.observations = {RedactedLoaded(o) : o \in d.observations}
  BY <1>1, <1>3 DEF RedactedLoaded
<1>5. /\ FromDict(r).observations = {ObservationFromDict(o) : o \in r.observations}
      /\ FromDict(d).observations = {ObservationFromDict(o) : o \in d.observations}
  BY <1>0, <1>3 DEF FromDict
<1>6. {ObservationFromDict(o) : o \in r.observations} =
         {ObservationFromDict(RedactedLoaded(o)) : o \in d.observations}
  BY <1>4
<1> QED
  BY <1>3, <1>4, <1>5, <1>6

\* The observations of a file have their parts.
LEMMA ObservationParts ==
    ASSUME NEW f \in DOMAIN Json, NEW o \in Json[f].observations
    PROVE  Parts \subseteq DOMAIN o
BY DocumentAssumption DEF Parts

\* The entities of a redacted observation: those of the original, without command
\* line and with the fields that are required.
LEMMA RedactedEntities ==
    ASSUME NEW o, Parts \subseteq DOMAIN o, NEW q, q = RedactedLoaded(o)
    PROVE  /\ q.collector = o.collector /\ q.numeric = o.numeric
           /\ EntityType(o.collector) = "None" => q.entities = <<>>
           /\ EntityType(o.collector) # "None" =>
                 /\ DOMAIN q.entities = DOMAIN o.entities
                 /\ \A k \in DOMAIN o.entities :
                       /\ DOMAIN q.entities[k] = DOMAIN o.entities[k] \cap
                             (Required(EntityType(o.collector)) \cup Optional(EntityType(o.collector)))
                       /\ "cmdline" \in DOMAIN q.entities[k] =>
                             q.entities[k]["cmdline"] = Placeholder
<1> DEFINE r == Redacted(o)
           type == EntityType(o.collector)
<1>r. /\ DOMAIN r = DOMAIN o
      /\ \A x \in DOMAIN o : x # "entities" => r[x] = o[x]
      /\ r.entities = [k \in DOMAIN o.entities |-> RedactEntity(o.entities[k])]
  BY RedactedObservation
<1>0. q = ObservationFromDict(r) /\ Parts \subseteq DOMAIN r /\ r.collector = o.collector
  BY <1>r DEF RedactedLoaded, Parts
<1> HIDE DEF r
<1>q. /\ DOMAIN q = DOMAIN o
      /\ \A x \in DOMAIN o : x # "entities" => q[x] = o[x]
      /\ type = "None" => q.entities = <<>>
      /\ type # "None" => q.entities = Known(r.entities, type)
  BY <1>r, <1>0, LoadedObservation
<1> HIDE DEF type
<1>1. ASSUME type # "None", NEW k \in DOMAIN o.entities
      PROVE  /\ DOMAIN q.entities = DOMAIN o.entities
             /\ DOMAIN q.entities[k] = DOMAIN o.entities[k] \cap (Required(type) \cup Optional(type))
             /\ "cmdline" \in DOMAIN q.entities[k] => q.entities[k]["cmdline"] = Placeholder
  <2>1. r.entities[k] = RedactEntity(o.entities[k]) /\ DOMAIN r.entities = DOMAIN o.entities
    BY <1>1, <1>r
  <2>2. /\ DOMAIN r.entities[k] = DOMAIN o.entities[k]
        /\ "cmdline" \in DOMAIN o.entities[k] => r.entities[k]["cmdline"] = Placeholder
    BY <2>1 DEF RedactEntity
  <2>3. /\ DOMAIN q.entities = DOMAIN r.entities
        /\ q.entities[k] = [x \in DOMAIN r.entities[k] \cap (Required(type) \cup Optional(type)) |->
                               r.entities[k][x]]
    BY <1>1, <1>q, <2>1 DEF Known
  <2> QED
    BY <2>1, <2>2, <2>3
<1>2. type # "None" => DOMAIN q.entities = DOMAIN o.entities
  BY <1>q, <1>r DEF Known
<1> QED
  BY <1>1, <1>2, <1>q DEF Parts, type

\* A redacted snapshot loads.
LEMMA RedactedLoads ==
    ASSUME NEW f \in Loadable, NEW r, r = FromDict(redact_snapshot(Json[f]))
    PROVE  Loads(r)
<1>0. f \in DOMAIN Json /\ Errors(Json[f]) = {}
  BY DEF Loadable, Loads
<1>1. Compatible(Json[f]) /\ \A o \in Json[f].observations : ObservationErrors(o) = {}
  BY <1>0 DEF Errors
<1>2. r.version = Json[f].version /\ r.observations = {RedactedLoaded(o) : o \in Json[f].observations}
  BY <1>0, RedactedDocument
<1>3. ASSUME NEW o \in Json[f].observations PROVE ObservationErrors(RedactedLoaded(o)) = {}
  <2> DEFINE q == RedactedLoaded(o)
  <2>1. /\ q.collector = o.collector /\ q.numeric = o.numeric
        /\ EntityType(o.collector) # "None" =>
                 /\ DOMAIN q.entities = DOMAIN o.entities
                 /\ \A k \in DOMAIN o.entities :
                       DOMAIN q.entities[k] = DOMAIN o.entities[k] \cap
                             (Required(EntityType(o.collector)) \cup Optional(EntityType(o.collector)))
    BY <1>0, ObservationParts, RedactedEntities
  <2>2. ObservationErrors(o) = {}
    BY <1>1
  <2> HIDE DEF q
  <2>3. ObservationErrors(q) = {}
    BY <2>1, <2>2 DEF ObservationErrors
  <2> QED
    BY <2>3 DEF q
<1>4. Compatible(r)
  BY <1>1, <1>2 DEF Compatible
<1> QED
  BY <1>2, <1>3, <1>4 DEF Loads, Errors

\* It holds no command line.
LEMMA RedactedHoldsNoCommandLine ==
    ASSUME NEW f \in DOMAIN Json, NEW r, r = FromDict(redact_snapshot(Json[f]))
    PROVE  CommandLines(r) \subseteq {Placeholder}
<1>1. r.observations = {RedactedLoaded(o) : o \in Json[f].observations}
  BY RedactedDocument
<1>2. SUFFICES ASSUME NEW o \in Json[f].observations,
                      NEW e \in Range(RedactedLoaded(o).entities), "cmdline" \in DOMAIN e
               PROVE  e["cmdline"] = Placeholder
  BY <1>1 DEF CommandLines
<1> DEFINE q == RedactedLoaded(o)
<1>3. /\ EntityType(o.collector) = "None" => q.entities = <<>>
      /\ EntityType(o.collector) # "None" =>
                 /\ DOMAIN q.entities = DOMAIN o.entities
                 /\ \A k \in DOMAIN o.entities : "cmdline" \in DOMAIN q.entities[k] =>
                             q.entities[k]["cmdline"] = Placeholder
  BY ObservationParts, RedactedEntities
<1>4. PICK k \in DOMAIN q.entities : e = q.entities[k]
  BY <1>2 DEF Range
<1> HIDE DEF q
<1>5. EntityType(o.collector) # "None"
  BY <1>3, <1>4
<1> QED
  BY <1>2, <1>3, <1>4, <1>5

\* The detectors are given the same as by the original.
LEMMA RedactedLooksTheSame ==
    ASSUME NEW f \in DOMAIN Json
    PROVE  SnapshotOf(FromDict(FromDict(redact_snapshot(Json[f])))) = SnapshotOf(FromDict(Json[f]))
<1> DEFINE O == Json[f].observations
           T(o) == ObservationFromDict(RedactedLoaded(o))
           L(o) == ObservationFromDict(o)
           t == FromDict(FromDict(redact_snapshot(Json[f])))
           l == FromDict(Json[f])
<1>1. t.observations = {T(o) : o \in O} /\ l.observations = {L(o) : o \in O}
  BY RedactedDocument
<1>2. \A o \in O : /\ T(o).collector = o.collector /\ L(o).collector = o.collector
                   /\ T(o).pass = L(o).pass /\ T(o).ids = L(o).ids
                   /\ EntityType(o.collector) # "ProcessEntity" => T(o) = L(o)
  BY ObservationParts, RedactedTwice
<1> HIDE DEF O, T, L, t, l
<1>3. ASSUME NEW c, EntityType(c) # "ProcessEntity"
      PROVE  /\ Observations(t, c) = Observations(l, c)
             /\ TheObservation(t, c) = TheObservation(l, c)
  <2>1. Observations(t, c) = Observations(l, c)
    BY <1>1, <1>2, <1>3 DEF Observations
  <2> QED
    BY <2>1 DEF TheObservation
<1>4. {o.collector : o \in t.observations} = {o.collector : o \in l.observations}
  BY <1>1, <1>2
<1> DEFINE PT == Observations(t, "procfs.processes")
           PL == Observations(l, "procfs.processes")
           P == {o \in O : o.collector = "procfs.processes"}
<1>5. PT = {T(o) : o \in P} /\ PL = {L(o) : o \in P}
  BY <1>1, <1>2 DEF Observations
<1> HIDE DEF PT, PL
<1>6. {o.pass : o \in PT} = {o.pass : o \in PL}
  BY <1>2, <1>5
<1>7. ASSUME NEW p
      PROVE  {o.ids : o \in {x \in PT : x.pass = p}} = {o.ids : o \in {x \in PL : x.pass = p}}
  BY <1>2, <1>5
<1>8. [p \in {o.pass : o \in PT} |-> UNION {o.ids : o \in {x \in PT : x.pass = p}}] =
      [p \in {o.pass : o \in PL} |-> UNION {o.ids : o \in {x \in PL : x.pass = p}}]
  BY <1>6, <1>7
<1>9. \A c \in {"syscall_sweep.processes", "procfs.sockets", "kernel.module_evidence", "kernel.hooks",
                "procfs.modules"} : TheObservation(t, c) = TheObservation(l, c)
  BY <1>3 DEF EntityType
<1>10. SnapshotOf(t) = SnapshotOf(l)
  BY <1>4, <1>8, <1>9, Zenon DEF SnapshotOf, PT, PL
<1> QED
  BY <1>10 DEF t, l

-----------------------------------------------------------------------------
(* The invariant of the session *)

\* Made signatures are signatures.
LEMMA MadeAreSignatures == SignaturesAreMade => Made \subseteq Signatures
BY DEF SignaturesAreMade, Made, Signatures

\* The store, the bytes read and the verified baseline have their types.
LEMMA StoreTypes ==
    ASSUME IInv
    PROVE  StoreTypeOK /\ data \in Contents \cup {Torn} /\ mark \in Signatures \cup {Torn}
           /\ base \in {{}} \cup {{c} : c \in Contents}
<1>1. Made \subseteq Signatures
  BY MadeAreSignatures DEF IInv
<1>2. base \in {{}} \cup {{c} : c \in Contents}
  BY DEF IInv, VerifiedWasSigned
<1> QED
  BY <1>1, <1>2 DEF IInv, SignaturesAreMade, WriterOK, StoreTypeOK

\* A file that cannot be loaded for one reason or another is not loadable.
LEMMA NotLoadable ==
    ASSUME NEW f \in DOMAIN Json, ErrorsOf[f] # {} PROVE f \notin Loadable
BY DEF ErrorsOf, Loadable, Loads

\* The first state.
LEMMA InitSession == Init => SessionInv
<1> SUFFICES ASSUME Init PROVE SessionInv
  OBVIOUS
<1>0. IInv
  BY InitIInv
<1> USE DEF Init, SessionInit
<1>1. TypeOK
  <2>1. <<cmd, option, sink>> \in Invocations
    <3>1. PICK i \in Invocations : cmd = i[1] /\ option = i[2] /\ sink = i[3]
      OBVIOUS
    <3>2. i = <<i[1], i[2], i[3]>>
      <4>1. \/ i \in {"analyze", "analyze --json"} \X Options \X {"stdout"}
            \/ i \in {"report"} \X Options \X {"stdout", "file"}
            \/ i \in {"redact"} \X {"none"} \X {"file", "inplace"}
        BY DEF Invocations
      <4>2. \A A, B, C : i \in A \X B \X C => i = <<i[1], i[2], i[3]>>
        OBVIOUS
      <4> QED
        BY <4>1, <4>2
    <3> QED
      BY <3>1, <3>2
  <2> QED
    BY <1>0, <2>1, StoreTypes DEF TypeOK, Pcs
<1>2. InputLoaded /\ ReadsAreCurrent /\ InputKept /\ RedactionMade
  BY DEF InputLoaded, ReadsAreCurrent, InputKept, RedactionMade, Working
<1>3. UndisturbedMatchesReference /\ IndicatorsAreConcealed /\ RedactInPlaceKeepsInput
  BY DEF UndisturbedMatchesReference, IndicatorsAreConcealed, RedactInPlaceKeepsInput, Written
<1> QED
  BY <1>1, <1>2, <1>3 DEF SessionInv

\* What a write to the files can change of it: whether they stood still, while the
\* command has not read the signature.
LEMMA StoreStepSession == IInv /\ IInv' /\ SessionInv /\ StoreStep => SessionInv'
<1> SUFFICES ASSUME IInv, IInv', SessionInv, StoreStep PROVE SessionInv'
  OBVIOUS
<1>0. /\ UNCHANGED <<cmd, input, option, verifyKey, sink, pc, data, mark, base, out, code, explained,
                     refused>>
      /\ pc \in {"begin", "snapshot", "baseline", "readJson", "readSig"}
      /\ undisturbed' = (undisturbed /\ UNCHANGED <<json, sig>>)
  BY DEF StoreStep, Reads, arguments
<1>p. StoreTypeOK'
  <2>1. Made' \subseteq Signatures
    BY DEF IInv, SignaturesAreMade, Made, Signatures
  <2> QED
    BY <2>1 DEF IInv, SignaturesAreMade, WriterOK, StoreTypeOK
<1>1. TypeOK'
  <2>1. undisturbed' \in BOOLEAN
    BY <1>0
  <2> QED
    BY <1>0, <1>p, <2>1 DEF SessionInv, TypeOK
<1>2. ReadsAreCurrent'
  BY <1>0 DEF SessionInv, ReadsAreCurrent
<1>3. InputLoaded' /\ InputKept' /\ RedactionMade' /\ RedactInPlaceKeepsInput'
  BY <1>0 DEF SessionInv, InputLoaded, InputKept, RedactionMade, RedactInPlaceKeepsInput
<1>4. UndisturbedMatchesReference' /\ IndicatorsAreConcealed'
  BY <1>0 DEF SessionInv, UndisturbedMatchesReference, IndicatorsAreConcealed, Written
<1> QED
  BY <1>1, <1>2, <1>3, <1>4 DEF SessionInv

\* What the analysis finds, against whatever the command goes on with.
LEMMA FindingsAre ==
    ASSUME IInv, InputLoaded, pc \in {"output", "write"}
    PROVE  /\ base \in DOMAIN Judged[input]
           /\ Findings = analyze(Loaded[input], {Loaded[c] : c \in base})
<1>1. base = {} \/ \E c \in Contents \cap Loadable : base = {c}
  BY DEF IInv, VerifiedWasSigned
<1>2. input \in Loadable
  BY DEF InputLoaded, Working
<1> QED
  BY <1>1, <1>2 DEF Findings, Judged

\* The output is complete: it is a report on concealed things or a redaction, and
\* the exit code is the one of the reference.
LEMMA EmitSession ==
    ASSUME IInv, SessionInv, pc \in {"output", "write"}, Emit,
           UNCHANGED <<storeVars, arguments, data, mark, base, undisturbed, refused>>
    PROVE  SessionInv'
<1>1. /\ pc' = "done" /\ code' = ExitCode /\ explained' = FALSE
      /\ out' \in Said(cmd, input, base, option)
      /\ UNCHANGED <<json, sig, writer, signed, cmd, input, option, verifyKey, sink, data, mark,
                     base, undisturbed, refused>>
  BY DEF Emit, Quit, storeVars, arguments, Outputs
<1>2. input \in Inputs \cap Loadable /\ (option # "given" => base = {}) /\ option \in {"none", "given"}
  BY DEF SessionInv, InputLoaded, Working, IInv, ArgumentsOK
<1>3. base \in DOMAIN Judged[input] /\ Findings = analyze(Loaded[input], {Loaded[c] : c \in base})
  BY FindingsAre DEF SessionInv
<1>4. cmd \in {"analyze", "analyze --json", "report", "redact"} /\ option \in Options
  <2>1. <<cmd, option, sink>> \in Invocations
    BY DEF SessionInv, TypeOK
  <2> QED
    BY <2>1 DEF Invocations, Options
<1>5. out' \notin {NoFile, Torn}
  BY <1>1, <1>2, <1>3, <1>4, OutputAssumption
<1>6. TypeOK'
  BY <1>1 DEF SessionInv, TypeOK, StoreTypeOK, ExitCode, Pcs
<1>7. InputLoaded' /\ ReadsAreCurrent' /\ InputKept' /\ RedactInPlaceKeepsInput'
  BY <1>1, <1>2, <1>5 DEF InputLoaded, ReadsAreCurrent, InputKept, RedactInPlaceKeepsInput, Working
<1>8. RedactionMade'
  BY <1>1, <1>2 DEF RedactionMade, Said
<1>9. UndisturbedMatchesReference'
  <2>1. SUFFICES ASSUME undisturbed PROVE UndisturbedMatchesReference'
    BY <1>1 DEF UndisturbedMatchesReference
  <2>2. option = "given" => /\ json \in Contents \cap Loadable /\ base = {json}
                            /\ sig = Signature(verifyKey, json)
    BY <2>1 DEF SessionInv, ReadsAreCurrent
  <2>3. Usable'
    BY <1>1, <1>2, <2>2 DEF Usable
  <2>4. {Loaded[c] : c \in base} = IF option = "given" THEN {Loaded[json]} ELSE {}
    BY <1>2, <2>2
  <2>5. cmd # "redact" => Findings = ExpectedFindings'
    BY <1>1, <1>3, <2>4 DEF ExpectedFindings
  <2>6. cmd = "redact" => ExpectedFindings' = {}
    BY <1>1 DEF ExpectedFindings
  <2>7. code' = IF ExpectedFindings' # {} THEN 3 ELSE 0
    BY <1>1, <2>5, <2>6 DEF ExitCode
  <2> QED
    BY <1>5, <2>3, <2>7 DEF UndisturbedMatchesReference, Written
<1>10. IndicatorsAreConcealed'
  <2>1. SUFFICES ASSUME cmd = "report" PROVE IndicatorsAreConcealed'
    BY <1>1 DEF IndicatorsAreConcealed
  <2>2. PICK iocs \in extract(Findings, Loaded[input]) :
           out' = Report(Findings, iocs, option # "none", channel_notes(Loaded[input]))
    BY <1>1, <2>1 DEF Said, Findings
  <2>3. out'.iocs = iocs /\ out'.findings = Findings
    BY <2>2 DEF Report
  <2> DEFINE s == Loaded[input]
             b == {Loaded[c] : c \in base}
  <2>4. Findings = analyze(s, b) /\ iocs \in extract(analyze(s, b), s)
    BY <1>3, <2>2
  <2> HIDE DEF b
  <2>5. /\ \A i \in iocs :
              /\ i.source_finding.name \notin IF i.source_finding.kind = "module"
                                              THEN ModuleIds(s) ELSE ListedIds(s)
              /\ i.type = "kernel_module" => i.value = i.source_finding.name
              /\ \E f \in Findings : f.suspect = i.source_finding /\ f.confidence = i.confidence
        /\ \A i, j \in iocs : i.type = j.type /\ i.value = j.value => i = j
    BY <2>4, ExtractIsConcealed
  <2>6. (Loaded[input])' = s
    BY <1>1
  <2> QED
    BY <1>1, <2>3, <2>5, <2>6 DEF IndicatorsAreConcealed
<1> QED
  BY <1>6, <1>7, <1>8, <1>9, <1>10 DEF SessionInv

\* A command that gives up has a reason to: something it was given is unusable,
\* its files did not stand still, or its output cannot be written.
LEMMA FailSession ==
    ASSUME SessionInv, pc \notin {"begin", "done", "killed"},
           pc' = "done", code' = 1, explained' \in BOOLEAN, refused' \in BOOLEAN,
           UNCHANGED <<storeVars, arguments, data, mark, base, out, undisturbed>>,
           ~undisturbed \/ ~Usable \/ (sink # "stdout" /\ explained')
    PROVE  SessionInv'
<1>1. UNCHANGED <<json, sig, writer, signed, cmd, input, option, verifyKey, sink>>
  BY DEF storeVars, arguments
<1>2. TypeOK'
  BY <1>1 DEF SessionInv, TypeOK, StoreTypeOK, Pcs
<1>3. InputLoaded' /\ ReadsAreCurrent' /\ InputKept' /\ RedactionMade'
  BY <1>1 DEF SessionInv, InputLoaded, ReadsAreCurrent, InputKept, RedactionMade, Working
<1>4. UndisturbedMatchesReference'
  <2>1. Usable' <=> Usable
    BY <1>1 DEF Usable
  <2> QED
    BY <1>1, <2>1 DEF UndisturbedMatchesReference
<1>5. IndicatorsAreConcealed'
  BY <1>1 DEF SessionInv, IndicatorsAreConcealed, Written
<1>6. RedactInPlaceKeepsInput'
  BY <1>1 DEF SessionInv, RedactInPlaceKeepsInput
<1> QED
  BY <1>2, <1>3, <1>4, <1>5, <1>6 DEF SessionInv

\* A command that goes on.
LEMMA ProceedSession ==
    ASSUME SessionInv, IInv', pc \notin {"begin", "done", "killed"}, pc' \in Working \ {"write"},
           UNCHANGED <<storeVars, arguments, out, undisturbed, code, explained, refused>>,
           InputLoaded', ReadsAreCurrent', pc \in {"snapshot"} \cup (Working \ {"write"})
    PROVE  SessionInv'
<1>1. UNCHANGED <<json, sig, writer, signed, cmd, input, option, verifyKey, sink>>
  BY DEF storeVars, arguments
<1>2. TypeOK'
  <2>1. data' \in Contents \cup {Torn} /\ mark' \in Signatures \cup {Torn}
    BY DEF IInv, SignaturesAreMade, Made, Signatures
  <2>2. base' \in {{}} \cup {{c} : c \in Contents}
    BY DEF IInv, VerifiedWasSigned
  <2>3. pc' \in Pcs
    BY DEF Working, Pcs
  <2> QED
    BY <1>1, <2>1, <2>2, <2>3 DEF SessionInv, TypeOK, StoreTypeOK
<1>3. InputKept' /\ RedactionMade' /\ RedactInPlaceKeepsInput'
  BY <1>1 DEF SessionInv, InputKept, RedactionMade, RedactInPlaceKeepsInput, Working
<1>4. UndisturbedMatchesReference' /\ IndicatorsAreConcealed'
  BY <1>1 DEF SessionInv, UndisturbedMatchesReference, IndicatorsAreConcealed, Written, Working
<1> QED
  BY <1>2, <1>3, <1>4 DEF SessionInv

\* A step of the command.
LEMMA SessionStepSession == IInv /\ IInv' /\ SessionInv /\ SessionStep => SessionInv'
<1> SUFFICES ASSUME IInv, IInv', SessionInv, Session, UNCHANGED storeVars PROVE SessionInv'
  BY DEF SessionStep
<1>0. /\ UNCHANGED <<json, sig, writer, signed>> /\ TypeOK /\ InputLoaded /\ ReadsAreCurrent
      /\ verifyKey \in Keys /\ {explained, undisturbed, refused} \subseteq BOOLEAN
      /\ pc \in Undecided => base = {}
  BY DEF storeVars, SessionInv, TypeOK, IInv, SignaturesAreMade, VerifiedWasSigned
<1>f. FALSE \in BOOLEAN /\ TRUE \in BOOLEAN /\ explained \in BOOLEAN /\ refused \in BOOLEAN
  BY <1>0
<1>1. CASE Begin
  <2>0. /\ UNCHANGED <<cmd, option, verifyKey, sink, data, mark, base, refused, code, explained>>
        /\ pc = "begin" /\ pc' = "snapshot" /\ undisturbed' = TRUE
        /\ input' \in Inputs \cup {NoFile, Torn}
        /\ out' = IF sink = "inplace" THEN input' ELSE out
    BY <1>1 DEF Begin, Proceed
  <2>1. TypeOK'
    BY <1>0, <2>0 DEF TypeOK, StoreTypeOK, Pcs
  <2>2. InputLoaded' /\ ReadsAreCurrent' /\ InputKept' /\ RedactInPlaceKeepsInput' /\ RedactionMade'
    BY <1>0, <2>0 DEF InputLoaded, ReadsAreCurrent, InputKept, RedactInPlaceKeepsInput, RedactionMade,
                      Working
  <2>3. UndisturbedMatchesReference'
    BY <2>0 DEF UndisturbedMatchesReference
  <2>4. IndicatorsAreConcealed'
    <3>1. cmd = "report" => sink # "inplace" /\ out = NoFile
      BY <2>0 DEF IInv, ArgumentsOK, ReportIsFounded, Undecided
    <3> QED
      BY <2>0, <3>1 DEF IndicatorsAreConcealed, Written
  <2> QED
    BY <2>1, <2>2, <2>3, <2>4 DEF SessionInv
<1>2. CASE LoadSnapshot
  <2>0. UNCHANGED <<arguments, data, mark, base, out, undisturbed, refused>> /\ pc = "snapshot"
    BY <1>2 DEF LoadSnapshot
  <2>1. CASE input \notin Inputs \cap Loadable /\ pc' = "done" /\ code' = 1 /\ explained' \in BOOLEAN
    <3>1. ~Usable
      BY <2>1 DEF Usable
    <3> QED
      BY <1>f, <2>0, <2>1, <3>1, FailSession
  <2>2. CASE input \in Inputs \cap Loadable /\ Proceed(IF cmd = "redact" THEN "output" ELSE "baseline")
    <3>1. /\ pc' \in {"output", "baseline"} /\ UNCHANGED <<code, explained, input, option, base>>
          /\ pc' = "output" => option = "none" /\ option' = "none"
      BY <2>0, <2>2 DEF Proceed, arguments, IInv, ArgumentsOK
    <3>2. InputLoaded' /\ ReadsAreCurrent'
      BY <1>0, <2>2, <3>1 DEF InputLoaded, ReadsAreCurrent, Undecided
    <3> QED
      BY <2>0, <3>1, <3>2, ProceedSession DEF Working
  <2>3. ASSUME input \in Inputs, ErrorsOf[input] # {} PROVE input \notin Loadable
    BY <2>3, NotLoadable, FilesAssumption
  <2> QED
    BY <1>2, <1>f, <2>1, <2>2, <2>3, FilesAssumption DEF LoadSnapshot, Fail, Traceback, Quit
<1>3. CASE CheckOptions
  <2>0. UNCHANGED <<arguments, data, mark, base, out, undisturbed>> /\ pc = "baseline"
    BY <1>3 DEF CheckOptions
  <2>1. CASE option \in {"noKey", "badKey"} /\ Fail /\ refused' = TRUE
    <3>1. ~Usable /\ pc' = "done" /\ code' = 1 /\ explained' = TRUE
      BY <2>1 DEF Usable, Fail, Quit
    <3> QED
      BY <1>f, <2>0, <2>1, <3>1, FailSession
  <2>2. CASE /\ UNCHANGED refused
             /\ \/ option = "none" /\ Proceed("output")
                \/ option = "given" /\ Proceed("readJson")
    <3>1. /\ pc' \in {"output", "readJson"} /\ UNCHANGED <<code, explained, input, option, base>>
          /\ pc' = "output" => option' = "none"
      BY <2>0, <2>2 DEF Proceed, arguments
    <3>2. InputLoaded' /\ ReadsAreCurrent'
      BY <1>0, <2>0, <3>1 DEF InputLoaded, ReadsAreCurrent, Working, Undecided
    <3> QED
      BY <2>0, <2>2, <3>1, <3>2, ProceedSession DEF Working
  <2> QED
    BY <1>3, <2>1, <2>2 DEF CheckOptions
<1>4. CASE ReadJson
  <2>0. UNCHANGED <<arguments, mark, base, out, undisturbed>> /\ pc = "readJson" /\ option = "given"
    BY <1>4 DEF ReadJson, IInv, ArgumentsOK
  <2>1. CASE json = NoFile /\ Fail /\ refused' = TRUE /\ UNCHANGED data
    <3>1. ~Usable /\ pc' = "done" /\ code' = 1 /\ explained' = TRUE
      BY <2>0, <2>1, StoreAssumption DEF Usable, Fail, Quit
    <3> QED
      BY <1>f, <2>0, <2>1, <3>1, FailSession
  <2>2. CASE data' = json /\ Proceed("readSig") /\ UNCHANGED refused
    <3>1. pc' = "readSig" /\ UNCHANGED <<code, explained, input, option, base>>
      BY <2>0, <2>2 DEF Proceed, arguments
    <3>2. InputLoaded' /\ ReadsAreCurrent'
      BY <1>0, <2>0, <2>2, <3>1 DEF InputLoaded, ReadsAreCurrent, Working, Undecided
    <3> QED
      BY <2>0, <2>2, <3>1, <3>2, ProceedSession DEF Working
  <2> QED
    BY <1>4, <2>1, <2>2 DEF ReadJson
<1>5. CASE ReadSig
  <2>0. UNCHANGED <<arguments, data, base, out, undisturbed>> /\ pc = "readSig" /\ option = "given"
    BY <1>5 DEF ReadSig, IInv, ArgumentsOK
  <2>1. CASE sig = NoFile /\ Fail /\ refused' = TRUE /\ UNCHANGED mark
    <3>1. ~Usable /\ pc' = "done" /\ code' = 1 /\ explained' = TRUE
      BY <1>0, <2>0, <2>1, StoreAssumption DEF Usable, Fail, Quit
    <3> QED
      BY <1>f, <2>0, <2>1, <3>1, FailSession
  <2>2. CASE mark' = sig /\ Proceed("verify") /\ UNCHANGED refused
    <3>1. pc' = "verify" /\ UNCHANGED <<code, explained, input, option, base>>
      BY <2>0, <2>2 DEF Proceed, arguments
    <3>2. InputLoaded' /\ ReadsAreCurrent'
      BY <1>0, <2>0, <2>2, <3>1 DEF InputLoaded, ReadsAreCurrent, Working, Undecided
    <3> QED
      BY <2>0, <2>2, <3>1, <3>2, ProceedSession DEF Working
  <2> QED
    BY <1>5, <2>1, <2>2 DEF ReadSig
<1>6. CASE Verify
  <2>0. UNCHANGED <<arguments, data, mark, base, out, undisturbed>> /\ pc = "verify" /\ option = "given"
    BY <1>6 DEF Verify, IInv, ArgumentsOK
  <2>1. CASE ~Verifies(verifyKey, mark, data) /\ Fail /\ refused' = TRUE
    <3>1. (undisturbed => ~Usable) /\ pc' = "done" /\ code' = 1 /\ explained' = TRUE
      BY <1>0, <2>0, <2>1 DEF Usable, ReadsAreCurrent, Verifies, Fail, Quit
    <3> QED
      BY <1>f, <2>0, <2>1, <3>1, FailSession
  <2>2. CASE Verifies(verifyKey, mark, data) /\ Proceed("parse") /\ UNCHANGED refused
    <3>1. pc' = "parse" /\ UNCHANGED <<code, explained, input, option, base, verifyKey>>
      BY <2>0, <2>2 DEF Proceed, arguments
    <3>2. InputLoaded' /\ ReadsAreCurrent'
      BY <1>0, <2>0, <2>2, <3>1 DEF InputLoaded, ReadsAreCurrent, Working, Undecided, Verifies
    <3> QED
      BY <2>0, <2>2, <3>1, <3>2, ProceedSession DEF Working
  <2> QED
    BY <1>6, <2>1, <2>2 DEF Verify
<1>7. CASE ParseBaseline
  <2>0. UNCHANGED <<arguments, data, mark, out, undisturbed>> /\ pc = "parse" /\ option = "given"
    BY <1>7 DEF ParseBaseline, IInv, ArgumentsOK
  <2>c. data \in Contents /\ data \in DOMAIN Json
    <3>1. <<verifyKey, data>> \in signed /\ signed \subseteq Keys \X Contents
      BY <2>0 DEF IInv, VerifiedWasSigned, SignaturesAreMade
    <3> QED
      BY <3>1, FilesAssumption
  <2>1. CASE data \notin Loadable /\ pc' = "done" /\ code' = 1 /\ explained' \in BOOLEAN
             /\ refused' = TRUE /\ UNCHANGED base
    <3>1. undisturbed => ~Usable
      BY <1>0, <2>0, <2>1 DEF Usable, ReadsAreCurrent
    <3> QED
      BY <1>f, <2>0, <2>1, <3>1, FailSession
  <2>2. CASE data \in Loadable /\ base' = {data} /\ Proceed("output") /\ UNCHANGED refused
    <3>1. pc' = "output" /\ UNCHANGED <<code, explained, input, option, verifyKey>>
      BY <2>0, <2>2 DEF Proceed, arguments
    <3>2. InputLoaded' /\ ReadsAreCurrent'
      BY <1>0, <2>0, <2>2, <2>c, <3>1 DEF InputLoaded, ReadsAreCurrent, Working
    <3> QED
      BY <2>0, <2>2, <3>1, <3>2, ProceedSession DEF Working
  <2>3. ErrorsOf[data] # {} => data \notin Loadable
    BY <2>c, NotLoadable
  <2> QED
    BY <1>7, <1>f, <2>1, <2>2, <2>3 DEF ParseBaseline, Fail, Traceback, Quit
<1>8. CASE PrintOut
  BY <1>8, EmitSession DEF PrintOut
<1>9. CASE OpenOut
  <2>0. UNCHANGED <<arguments, data, mark, base, undisturbed, refused>> /\ pc = "output" /\ sink # "stdout"
    BY <1>9 DEF OpenOut
  <2>1. CASE UNCHANGED out /\ Fail
    <3>1. pc' = "done" /\ code' = 1 /\ explained' = TRUE
      BY <2>1 DEF Fail, Quit
    <3> QED
      BY <1>f, <2>0, <2>1, <3>1, FailSession
  <2>2. CASE out' = Torn /\ Proceed("write")
    <3>1. pc' = "write" /\ UNCHANGED <<code, explained, cmd, input, option, verifyKey, sink>>
      BY <2>0, <2>2 DEF Proceed, arguments
    <3>2. TypeOK'
      BY <1>0, <2>0, <3>1 DEF TypeOK, StoreTypeOK, Pcs
    <3>3. InputLoaded' /\ ReadsAreCurrent' /\ InputKept' /\ RedactInPlaceKeepsInput' /\ RedactionMade'
      BY <1>0, <2>0, <3>1 DEF InputLoaded, ReadsAreCurrent, InputKept, RedactInPlaceKeepsInput,
                              RedactionMade, Working
    <3>4. UndisturbedMatchesReference' /\ IndicatorsAreConcealed'
      BY <2>2, <3>1 DEF UndisturbedMatchesReference, IndicatorsAreConcealed, Written
    <3> QED
      BY <3>2, <3>3, <3>4 DEF SessionInv
  <2> QED
    BY <1>9, <2>1, <2>2 DEF OpenOut
<1>10. CASE WriteOut
  <2>0. UNCHANGED <<arguments, data, mark, base, undisturbed, refused>> /\ pc = "write"
    BY <1>10 DEF WriteOut
  <2>1. CASE Emit
    BY <2>0, <2>1, EmitSession
  <2>2. CASE UNCHANGED out /\ Fail
    <3>1. pc' = "done" /\ code' = 1 /\ explained' = TRUE
      BY <2>2 DEF Fail, Quit
    <3>2. sink # "stdout"
      BY <1>0, <2>0 DEF InputLoaded
    <3> QED
      BY <1>f, <2>0, <2>2, <3>1, <3>2, FailSession
  <2> QED
    BY <1>10, <2>1, <2>2 DEF WriteOut
<1> QED
  BY <1>1, <1>2, <1>3, <1>4, <1>5, <1>6, <1>7, <1>8, <1>9, <1>10 DEF Session

\* A command that is killed, or a stuttering step.
LEMMA KillSession == SessionInv /\ (Kill \/ UNCHANGED vars) => SessionInv'
<1> SUFFICES ASSUME SessionInv, Kill \/ UNCHANGED vars PROVE SessionInv'
  OBVIOUS
<1>1. /\ UNCHANGED <<json, sig, writer, signed, cmd, input, option, verifyKey, sink, data, mark, base,
                     out, code, explained, undisturbed, refused>>
      /\ pc' = pc \/ (pc' = "killed" /\ pc # "begin")
  BY DEF Kill, vars, storeVars, sessionVars, arguments
<1>2. TypeOK'
  BY <1>1 DEF SessionInv, TypeOK, StoreTypeOK, Pcs
<1>3. InputLoaded' /\ ReadsAreCurrent' /\ InputKept' /\ RedactInPlaceKeepsInput' /\ RedactionMade'
  BY <1>1 DEF SessionInv, InputLoaded, ReadsAreCurrent, InputKept, RedactInPlaceKeepsInput, RedactionMade,
              Working
<1>4. UndisturbedMatchesReference'
  BY <1>1 DEF SessionInv, UndisturbedMatchesReference, Usable, ExpectedFindings, Written
<1>5. IndicatorsAreConcealed'
  BY <1>1 DEF SessionInv, IndicatorsAreConcealed, Written
<1> QED
  BY <1>2, <1>3, <1>4, <1>5 DEF SessionInv

\* The invariant of the session holds in every reachable state.
THEOREM SessionInvariance == Spec => []SessionInv
<1>1. IInv /\ IInv' /\ SessionInv /\ [Next]_vars => SessionInv'
  BY SessionStepSession, KillSession, StoreStepSession DEF Next, Terminated
<1> QED
  BY <1>1, InitSession, Invariance, PTL DEF Spec

\* The state of the files, of their writers and of the command has its type.
THEOREM TypeCorrect == Spec => []TypeOK
<1>1. SessionInv => TypeOK
  BY DEF SessionInv
<1> QED
  BY <1>1, SessionInvariance, PTL

\* analyze, report and redact on files that stand still exit as the documentation
\* says, with their output complete, whatever the snapshots, the baseline and the
\* key are (cmd_analyze, cmd_report, cmd_redact, _load_verified_baseline).
THEOREM MatchesReference == Spec => []UndisturbedMatchesReference
<1>1. SessionInv => UndisturbedMatchesReference
  BY DEF SessionInv
<1> QED
  BY <1>1, SessionInvariance, PTL

\* The indicators of a report (reporting/iocs.py, extract) are of things the
\* listings do not show, cite a finding of the report and are there once.
THEOREM IndicatorsConcealed == Spec => []IndicatorsAreConcealed
<1>1. SessionInv => IndicatorsAreConcealed
  BY DEF SessionInv
<1> QED
  BY <1>1, SessionInvariance, PTL

\* A redaction onto its own input (cmd_redact) does not touch a file it cannot
\* load, and does not call a torn one a success.
THEOREM RedactKeepsInput == Spec => []RedactInPlaceKeepsInput
<1>1. SessionInv => RedactInPlaceKeepsInput
  BY DEF SessionInv
<1> QED
  BY <1>1, SessionInvariance, PTL

\* A redaction that succeeds leaves a snapshot that loads, holds no command line
\* and is judged like the original against every baseline (redact_snapshot,
\* Snapshot.from_dict, analyze).
THEOREM RedactKeepsConclusions == Spec => []RedactionKeepsConclusions
<1>1. SessionInv => RedactionKeepsConclusions
  <2>1. SUFFICES ASSUME SessionInv, pc = "done", cmd = "redact", code = 0
                 PROVE  /\ Loads(out)
                        /\ CommandLines(out) \subseteq {Placeholder}
                        /\ SnapshotOf(FromDict(out)) = Loaded[input]
    BY DEF RedactionKeepsConclusions
  <2>2. input \in Loadable /\ input \in DOMAIN Json /\ out = FromDict(redact_snapshot(Json[input]))
    BY <2>1 DEF SessionInv, RedactionMade, Loadable
  <2>3. Loaded[input] = SnapshotOf(FromDict(Json[input]))
    BY <2>2 DEF Loaded
  <2> QED
    BY <2>2, <2>3, RedactedLoads, RedactedHoldsNoCommandLine, RedactedLooksTheSame
<1> QED
  BY <1>1, SessionInvariance, PTL

=============================================================================
