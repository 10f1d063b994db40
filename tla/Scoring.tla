------------------------------- MODULE Scoring -------------------------------
(***************************************************************************)
(* The scorer of src/kdetect/analysis/scoring.py: a set of signals becomes *)
(* a set of findings, one per suspect.  Confidence is the number of        *)
(* distinct channels that agree.  Anonymous module signals (taint, region) *)
(* are given to the one module a naming channel says is hidden, when there *)
(* is exactly one; otherwise they form a finding of their own.             *)
(***************************************************************************)
EXTENDS Signals

HIDING == {"taint", "vmalloc_region", "ftrace_orphan", "unexpected_hook",
           "syscall_kill", "direct_status", "socket_visible"}

HIDING_NAMED == {"ftrace_orphan", "unexpected_hook"}

Channels(sigs) == {x.channel : x \in sigs}

Confidence(n) == IF n = 1 THEN "LOW" ELSE IF n = 2 THEN "MEDIUM" ELSE "HIGH"

Classify(suspect, channels) ==
    CASE suspect.kind = "process" -> "hidden_process"
      [] suspect.kind # "process" /\ suspect.name = NoName -> "suspected_hidden_module"
      [] OTHER ->
            IF channels \cap HIDING # {} THEN "hidden_module"
            ELSE IF "over_listed" \in channels THEN "over_listed_module"
            ELSE "baseline_drift"

Compose(suspect, sigs, candidates) ==
    [kind       |-> Classify(suspect, Channels(sigs)),
     suspect    |-> suspect,
     confidence |-> Confidence(Cardinality(Channels(sigs))),
     channels   |-> Channels(sigs),
     evidence   |-> sigs,
     candidates |-> candidates]

-----------------------------------------------------------------------------
Named(sigs) == {x \in sigs : x.suspect.name # NoName}

Anon(sigs) == {x \in sigs : x.suspect.name = NoName}

HiddenNamed(sigs) ==
    {x.suspect.name : x \in {y \in Named(sigs) :
        y.suspect.kind = "module" /\ y.channel \in HIDING_NAMED}}

\* Whether the anonymous signals have exactly one module to go to.
Attributable(sigs) == \E m \in HiddenNamed(sigs) : HiddenNamed(sigs) = {m}

\* The signals of one named suspect, with the anonymous ones when it is the one
\* hidden module.
Group_NamedOnly(sigs, suspect) == {x \in Named(sigs) : x.suspect = suspect}

Group(sigs, suspect) ==
    {x \in Named(sigs) : x.suspect = suspect}
        \cup (IF suspect.kind = "module" /\ HiddenNamed(sigs) = {suspect.name}
              THEN Anon(sigs) ELSE {})

Unattributed_KeepsAnon(sigs) == Anon(sigs)

Unattributed(sigs) == IF Attributable(sigs) THEN {} ELSE Anon(sigs)

score(sigs) ==
    {Compose(u, Group(sigs, u), {}) : u \in {x.suspect : x \in Named(sigs)}}
        \cup (IF Unattributed(sigs) = {} THEN {}
              ELSE {Compose(Anonymous, Unattributed(sigs), HiddenNamed(sigs))})

analyze(s, base) == score(all_signals(s, base))
=============================================================================
