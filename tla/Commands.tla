------------------------------- MODULE Commands -------------------------------
(***************************************************************************)
(* One `kdetect analyze`, `report` or `redact` command (src/kdetect/cli.py)*)
(* from its arguments to its exit code and its output, while `kdetect      *)
(* baseline` commands and others change the baseline files it reads.  It   *)
(* only reads the store and every read is a step, so one command stands    *)
(* for any number of them.  It may be killed between any two steps.        *)
(*                                                                         *)
(* undisturbed and refused are history variables: whether the two files    *)
(* have stood still since the command began, and whether                   *)
(* _load_verified_baseline gave up.                                        *)
(***************************************************************************)
EXTENDS BaselineStore

CONSTANTS
    Inputs,             \* files given as the snapshot argument that are JSON
    Pending, Refused    \* answers of SignedBaseline

ASSUME AnswersAssumption == Pending # Refused /\ {Pending, Refused} \cap Contents = {}
ASSUME FilesAssumption ==
    Contents \cup Inputs \subseteq DOMAIN Json /\ {NoFile, Torn} \cap Inputs = {}

VARIABLES
    cmd,          \* the command
    input,        \* the bytes of the snapshot argument
    option,       \* "none", "noKey", "badKey" or "given": --baseline/--verify-key
    verifyKey,    \* the public key of --verify-key
    sink,         \* "stdout", "file", or "inplace": a redaction onto its input
    pc,
    data, mark,   \* the bytes read from the .json and the .sig
    base,         \* {} or the set with the verified baseline
    out,          \* what is at the sink
    code,         \* exit code, once pc = "done"
    explained,    \* whether an "error:" line was printed
    undisturbed, refused

sessionVars == <<cmd, input, option, verifyKey, sink, pc, data, mark, base, out, code,
                 explained, undisturbed, refused>>
vars == <<storeVars, sessionVars>>

arguments == <<cmd, input, option, verifyKey, sink>>

Options == {"none", "noKey", "badKey", "given"}

\* What the argument parser lets through.
Invocations ==
    ({"analyze", "analyze --json"} \X Options \X {"stdout"})
        \cup ({"report"} \X Options \X {"stdout", "file"})
        \cup ({"redact"} \X {"none"} \X {"file", "inplace"})

SessionInit ==
    /\ \E i \in Invocations : cmd = i[1] /\ option = i[2] /\ sink = i[3]
    /\ input = NoFile
    /\ verifyKey \in Keys
    /\ pc = "begin"
    /\ data = Torn
    /\ mark = Torn
    /\ base = {}
    /\ out = NoFile
    /\ code = 0
    /\ explained = FALSE
    /\ undisturbed = TRUE
    /\ refused = FALSE

\* The process ends with an exit code; an uncaught exception is code 1 as well,
\* without the "error:" line.
Quit(c, msg) ==
    /\ pc' = "done"
    /\ code' = c
    /\ explained' = msg

Fail == Quit(1, TRUE)
Traceback == Quit(1, FALSE)

Proceed(next) ==
    /\ pc' = next
    /\ UNCHANGED <<code, explained>>

-----------------------------------------------------------------------------
\* The shell starts the command, main() parses its arguments, and there is some
\* file or none for it to load.
Begin ==
    /\ pc = "begin"
    /\ Proceed("snapshot")
    /\ input' \in Inputs \cup {NoFile, Torn}
    /\ out' = IF sink = "inplace" THEN input' ELSE out
    /\ undisturbed' = TRUE
    /\ UNCHANGED <<cmd, option, verifyKey, sink, data, mark, base, refused>>

\* The output is opened along with the input.
LoadSnapshot_TruncatesFirst ==
    /\ pc = "snapshot"
    /\ \/ input \in {NoFile, Torn} /\ Fail
       \/ /\ input \in Inputs
          /\ \/ "IncompatibleSnapshot" \in ErrorsOf[input] /\ Fail
             \/ ErrorsOf[input] \cap {"KeyError", "ValueError"} # {} /\ Traceback
             \/ input \in Loadable /\ Proceed(IF cmd = "redact" THEN "output" ELSE "baseline")
    /\ out' = IF sink = "inplace" THEN Torn ELSE out
    /\ UNCHANGED <<arguments, data, mark, base, undisturbed, refused>>

\* _load_snapshot: unreadable or no JSON, of another version, not a snapshot to
\* this build, or fine.
LoadSnapshot ==
    /\ pc = "snapshot"
    /\ \/ input \in {NoFile, Torn} /\ Fail
       \/ /\ input \in Inputs
          /\ \/ "IncompatibleSnapshot" \in ErrorsOf[input] /\ Fail
             \/ ErrorsOf[input] \cap {"KeyError", "ValueError"} # {} /\ Traceback
             \/ input \in Loadable /\ Proceed(IF cmd = "redact" THEN "output" ELSE "baseline")
    /\ UNCHANGED <<arguments, data, mark, base, out, undisturbed, refused>>

\* _load_verified_baseline up to load_baseline: no --baseline, no --verify-key,
\* a key file that is missing or no ed25519 key, or a key.
CheckOptions ==
    /\ pc = "baseline"
    /\ \/ option = "none" /\ Proceed("output") /\ UNCHANGED refused
       \/ option \in {"noKey", "badKey"} /\ Fail /\ refused' = TRUE
       \/ option = "given" /\ Proceed("readJson") /\ UNCHANGED refused
    /\ UNCHANGED <<arguments, data, mark, base, out, undisturbed>>

ReadJson_Unchecked ==
    /\ pc = "readJson"
    /\ data' = json
    /\ Proceed("readSig")
    /\ UNCHANGED <<arguments, mark, base, out, undisturbed, refused>>

ReadJson ==
    /\ pc = "readJson"
    /\ \/ json = NoFile /\ Fail /\ refused' = TRUE /\ UNCHANGED data
       \/ json # NoFile /\ data' = json /\ Proceed("readSig") /\ UNCHANGED refused
    /\ UNCHANGED <<arguments, mark, base, out, undisturbed>>

ReadSig_OptionalSignature ==
    /\ pc = "readSig"
    /\ \/ sig = NoFile /\ data # Torn /\ Proceed("parse") /\ UNCHANGED <<mark, refused>>
       \/ sig = NoFile /\ data = Torn /\ Fail /\ refused' = TRUE /\ UNCHANGED mark
       \/ sig # NoFile /\ mark' = sig /\ Proceed("verify") /\ UNCHANGED refused
    /\ UNCHANGED <<arguments, data, base, out, undisturbed>>

ReadSig_Retries ==
    /\ pc = "readSig"
    /\ \/ sig = NoFile /\ UNCHANGED <<pc, code, explained, mark>>
       \/ sig # NoFile /\ mark' = sig /\ Proceed("verify")
    /\ UNCHANGED <<arguments, data, base, out, undisturbed, refused>>

ReadSig ==
    /\ pc = "readSig"
    /\ \/ sig = NoFile /\ Fail /\ refused' = TRUE /\ UNCHANGED mark
       \/ sig # NoFile /\ mark' = sig /\ Proceed("verify") /\ UNCHANGED refused
    /\ UNCHANGED <<arguments, data, base, out, undisturbed>>

\* Verifies with the key that made the signature, whichever that is.
Verify_AnyKey ==
    /\ pc = "verify"
    /\ \/ /\ \E k \in Keys : Verifies(k, mark, data)
          /\ Proceed("parse")
          /\ UNCHANGED refused
       \/ /\ ~\E k \in Keys : Verifies(k, mark, data)
          /\ Fail
          /\ refused' = TRUE
    /\ UNCHANGED <<arguments, data, mark, base, out, undisturbed>>

Verify ==
    /\ pc = "verify"
    /\ \/ Verifies(verifyKey, mark, data) /\ Proceed("parse") /\ UNCHANGED refused
       \/ ~Verifies(verifyKey, mark, data) /\ Fail /\ refused' = TRUE
    /\ UNCHANGED <<arguments, data, mark, base, out, undisturbed>>

\* Snapshot.from_dict(json.loads(data)) on bytes that were signed, so a snapshot
\* some build wrote.  Of the exceptions it may end with, only ValueError is
\* among those _load_verified_baseline catches.
ParseBaseline ==
    /\ pc = "parse"
    /\ \/ /\ \/ "ValueError" \in ErrorsOf[data] /\ Fail
             \/ ErrorsOf[data] \ {"ValueError"} # {} /\ Traceback
          /\ refused' = TRUE
          /\ UNCHANGED base
       \/ /\ data \in Loadable
          /\ base' = {data}
          /\ Proceed("output")
          /\ UNCHANGED refused
    /\ UNCHANGED <<arguments, data, mark, out, undisturbed>>

-----------------------------------------------------------------------------
\* What analysing a file that loads says without and with a baseline.
Judged ==
    [d \in Loadable |->
        [b \in {{}} \cup {{c} : c \in Contents \cap Loadable} |->
            analyze(Loaded[d], {Loaded[c] : c \in b})]]

Findings == Judged[input][base]

\* What command c has to say of a file d that loads, with the baseline in b and
\* the options o.  analyze --json gives the findings alone.
Said(c, d, b, o) ==
    LET findings == Judged[d][b]
        notes    == channel_notes(Loaded[d])
    IN  CASE c = "analyze"        -> {[findings |-> findings, channel_notes |-> notes]}
          [] c = "analyze --json" -> {[findings |-> findings]}
          [] c = "report"         ->
                {Report(findings, iocs, o # "none", notes) :
                    iocs \in extract(findings, Loaded[d])}
          [] c = "redact"         -> {FromDict(redact_snapshot(Json[d]))}

Outputs == Said(cmd, input, base, option)

\* NoFile and Torn are told from every complete output.
ASSUME OutputAssumption ==
    \A c \in {"analyze", "analyze --json", "report", "redact"}, o \in Options, d \in Loadable :
        \A b \in DOMAIN Judged[d] : {NoFile, Torn} \cap Said(c, d, b, o) = {}

ExitCode == IF cmd # "redact" /\ Findings # {} THEN 3 ELSE 0

Emit ==
    /\ out' \in Outputs
    /\ Quit(ExitCode, FALSE)

\* What is printed in one go.  The heading that analyze prints before it loads a
\* baseline is part of it: it depends on the snapshot alone.  A reader that closes
\* the pipe is left out.
PrintOut ==
    /\ pc = "output"
    /\ sink = "stdout"
    /\ Emit
    /\ UNCHANGED <<arguments, data, mark, base, undisturbed, refused>>

\* write_text opens the file, which truncates it, and then writes; either can fail.
OpenOut ==
    /\ pc = "output"
    /\ sink # "stdout"
    /\ \/ out' = Torn /\ Proceed("write")
       \/ UNCHANGED out /\ Fail
    /\ UNCHANGED <<arguments, data, mark, base, undisturbed, refused>>

WriteOut_IgnoresError ==
    /\ pc = "write"
    /\ \/ Emit
       \/ UNCHANGED out /\ Quit(ExitCode, FALSE)
    /\ UNCHANGED <<arguments, data, mark, base, undisturbed, refused>>

WriteOut ==
    /\ pc = "write"
    /\ \/ Emit
       \/ UNCHANGED out /\ Fail
    /\ UNCHANGED <<arguments, data, mark, base, undisturbed, refused>>

Kill ==
    /\ pc \notin {"begin", "done", "killed"}
    /\ pc' = "killed"
    /\ UNCHANGED <<storeVars, arguments, data, mark, base, out, code, explained, undisturbed,
                   refused>>

-----------------------------------------------------------------------------
Session ==
    \/ Begin \/ LoadSnapshot \/ CheckOptions \/ ReadJson \/ ReadSig
    \/ Verify \/ ParseBaseline \/ PrintOut \/ OpenOut \/ WriteOut

SessionStep == Session /\ UNCHANGED storeVars

Ended == pc \in {"done", "killed"}

\* The files matter to a command that will read them.
Reads == option = "given" /\ pc \in {"begin", "snapshot", "baseline", "readJson", "readSig"}

StoreStep ==
    /\ Reads
    /\ StoreNext
    /\ undisturbed' = (undisturbed /\ UNCHANGED <<json, sig>>)
    /\ UNCHANGED <<arguments, pc, data, mark, base, out, code, explained, refused>>

Init == StoreInit /\ SessionInit

Terminated == Ended /\ UNCHANGED vars

Next == SessionStep \/ Kill \/ StoreStep \/ Terminated

\* The command keeps being scheduled; the writers may stop anywhere.
Spec == Init /\ [][Next]_vars /\ WF_vars(SessionStep)

-----------------------------------------------------------------------------
(* Properties *)

Pcs == {"begin", "snapshot", "baseline", "readJson", "readSig", "verify", "parse",
        "output", "write", "done", "killed"}

TypeOK ==
    /\ StoreTypeOK
    /\ <<cmd, option, sink>> \in Invocations
    /\ input \in Inputs \cup {NoFile, Torn}
    /\ pc \in Pcs
    /\ data \in Contents \cup {Torn}
    /\ mark \in Signatures \cup {Torn}
    /\ base \in {{}} \cup {{c} : c \in Contents}
    /\ code \in {0, 1, 3}
    /\ {explained, undisturbed, refused} \subseteq BOOLEAN

\* Exit code 0 against a baseline means that every module of the snapshot is in
\* a snapshot signed with the key given, whatever was done to the files before
\* and during the command, by crashes, other writers or anyone else.
ExitZeroIsSigned ==
    pc = "done" /\ code = 0 /\ option = "given" =>
        \E c \in Contents : /\ <<verifyKey, c>> \in signed
                            /\ ModuleIds(Loaded[input]) \subseteq ModuleIds(Loaded[c])

Written == out \notin {NoFile, Torn}

\* A report that calls its baseline verified holds the findings against one
\* snapshot that was signed with the key given (report.py renders "verified"
\* without a check of its own).
VerifiedIsSigned ==
    cmd = "report" /\ Written /\ out.verified =>
        \E c \in Contents : /\ <<verifyKey, c>> \in signed
                            /\ out.findings = analyze(Loaded[input], {Loaded[c]})

\* The exit code the documentation gives for a command run on files that stand
\* still: 1 if anything it was given is unusable, 3 on findings, 0 on none.
Usable ==
    /\ input \in Inputs \cap Loadable
    /\ \/ option = "none"
       \/ /\ option = "given"
          /\ json \in Contents \cap Loadable
          /\ sig = Signature(verifyKey, json)

ExpectedFindings ==
    IF cmd = "redact" THEN {}
    ELSE analyze(Loaded[input], IF option = "given" THEN {Loaded[json]} ELSE {})

\* A command during which the store did not change exits as that reference
\* says, with its output complete, unless its output file cannot be written.
UndisturbedMatchesReference ==
    pc = "done" /\ undisturbed =>
        \/ /\ code = IF ~Usable THEN 1 ELSE IF ExpectedFindings # {} THEN 3 ELSE 0
           /\ code # 1 => Written
        \/ sink # "stdout" /\ Usable /\ code = 1 /\ explained

\* The indicators a report shares are of concealed things only: no listed module
\* and nothing of a listed process is among them; each is there once, with the
\* confidence of a finding of the report that it cites.
IndicatorsAreConcealed ==
    cmd = "report" /\ Written =>
        /\ \A i \in out.iocs :
              /\ i.source_finding.name \notin IF i.source_finding.kind = "module"
                                              THEN ModuleIds(Loaded[input])
                                              ELSE ListedIds(Loaded[input])
              /\ i.type = "kernel_module" => i.value = i.source_finding.name
              /\ \E f \in out.findings :
                     f.suspect = i.source_finding /\ f.confidence = i.confidence
        /\ \A i, j \in out.iocs : i.type = j.type /\ i.value = j.value => i = j

\* A redaction that succeeds leaves a snapshot that loads, holds no command line,
\* and is judged like the original against every baseline.
RedactionKeepsConclusions ==
    pc = "done" /\ cmd = "redact" /\ code = 0 =>
        /\ Loads(out)
        /\ CommandLines(out) \subseteq {Placeholder}
        /\ \A b \in {{}} \cup {{Loaded[c]} : c \in Contents \cap Loadable} :
              analyze(SnapshotOf(FromDict(out)), b) = analyze(Loaded[input], b)

\* A redaction onto its own input never damages a file it cannot load, and what
\* it damages when it is cut short it does not call a success.
RedactInPlaceKeepsInput ==
    sink = "inplace" /\ pc # "begin" =>
        \/ out = input
        \/ /\ input \in Inputs \cap Loadable
           /\ pc = "done" /\ code = 0 => out # Torn

\* The command ends, whatever the writers do.
CommandEnds == <>Ended

\* The store and the command implement the promise of SignedBaseline.
Promise == INSTANCE SignedBaseline WITH
    answer <- IF refused THEN Refused
              ELSE IF base = {} THEN Pending ELSE CHOOSE c \in Contents : base = {c}

ImplementsPromise == Promise!Spec

-----------------------------------------------------------------------------
(* What a comment says, and the code does not do *)

\* _load_verified_baseline (cli.py:278): any failure to load the baseline has
\* been explained by an "error:" line.
RefusalIsExplained == pc = "done" /\ refused => explained

\* models.py:19: a document of a newer minor version loads, and the keys this
\* build does not know are only warned about.
NewerMinorLoads ==
    pc = "done" /\ input \in Inputs /\ Newer(Json[input]) =>
        explained \/ code # 1
=============================================================================
