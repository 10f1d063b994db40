------------------------------ MODULE Reporting ------------------------------
(***************************************************************************)
(* The content of a report (src/kdetect/reporting/report.py) and the       *)
(* indicators in it (src/kdetect/reporting/iocs.py): pure functions of an  *)
(* analysed snapshot.  Layout and escaping are left out.                   *)
(*                                                                         *)
(* The evidence of a process signal names the task whose entry is quoted   *)
(* (s.sweep.comm gives its name), that of a socket signal the inode        *)
(* (s.socketRows gives its state and endpoints), that of a hook signal the *)
(* function.                                                               *)
(***************************************************************************)
EXTENDS Scoring

CONSTANT Unset     \* an endpoint that is missing or has port 0

PEER_STATES == {"ESTABLISHED", "SYN_SENT", "SYN_RECV", "FIN_WAIT1", "FIN_WAIT2",
                "TIME_WAIT", "CLOSE_WAIT", "LAST_ACK", "CLOSING", "NEW_SYN_RECV"}

\* The evidence finding f has from the channels cs.
EvidenceOn(f, cs) == UNION {x.evidence : x \in {y \in f.evidence : y.channel \in cs}}

Endpoints(row) ==
    (CASE row["state"] \in PEER_STATES -> {row["remote"]}
       [] row["state"] = "LISTEN"      -> {row["local"]}
       [] OTHER                        -> {row["local"], row["remote"]}) \ {Unset}

\* The <<type, value>> pairs a finding gives.  Findings of the other kinds name
\* nothing that would be an indicator.
Indicators_AllModules(f, s) ==
    IF f.kind = "hidden_process" THEN {}
    ELSE {<<"kernel_module", f.suspect.name>>}

Indicators(f, s) ==
    CASE f.kind = "hidden_module" ->
            {<<"kernel_module", f.suspect.name>>}
                \cup {<<"hooked_function", g>> : g \in EvidenceOn(f, {"unexpected_hook"})}
      [] f.kind = "hidden_process" ->
            {<<"process_name", s.sweep.comm[t]>> :
                t \in {u \in EvidenceOn(f, {"syscall_kill", "direct_status"}) :
                          s.sweep.comm[u] # NoName}}
                \cup {<<"network_endpoint", e>> :
                        e \in UNION {Endpoints(s.socketRows[i]) :
                                        i \in EvidenceOn(f, {"socket_visible"})}}
      [] OTHER -> {}

\* One entry per indicator, citing the first finding that gives it.  Findings are
\* ordered by the text of their subject, so any of them may be the first.
extract(findings, s) ==
    LET found == UNION {Indicators(f, s) : f \in findings}
        cites == {c \in [found -> findings] : \A x \in found : x \in Indicators(c[x], s)}
    IN  {{[type |-> x[1], value |-> x[2], confidence |-> c[x].confidence,
           source_finding |-> c[x].suspect] : x \in found} : c \in cites}

\* _counts and _verdict.
Counts(findings) ==
    [level \in {"HIGH", "MEDIUM", "LOW"} |->
        Cardinality({f \in findings : f.confidence = level})]

Verdict(findings) == {f.kind : f \in findings}

\* verified says that a baseline is named, which renders as verified.
Report(findings, iocs, verified, notes) ==
    [verified |-> verified, summary |-> Counts(findings), verdict |-> Verdict(findings),
     findings |-> findings, iocs |-> iocs, channel_notes |-> notes]
=============================================================================
