------------------------------- MODULE Signals -------------------------------
(***************************************************************************)
(* The detectors of src/kdetect/analysis/signals.py and the taint          *)
(* reconciliation of src/kdetect/analysis/taint.py: pure functions from a  *)
(* snapshot to the set of signals it raises.                               *)
(*                                                                         *)
(* A snapshot s is a record holding what the detectors read of it:         *)
(*   s.present    the collectors that have an observation in it            *)
(*   s.passes     pass label -> entity_ids of that procfs.processes pass   *)
(*   s.sweep      [ids, tgid, readable]: the swept ids, the tgid recorded  *)
(*                for each, and the ids whose status could be read; a      *)
(*                report also reads the comm recorded for each             *)
(*   s.sockets    inode of an in-table socket -> its owner_pids            *)
(*                (a report also reads s.socketRows: inode -> its entity)  *)
(*   s.listing    listed module -> its set of taint marker letters         *)
(*   s.available  the optional kernel channels that could be read          *)
(*   s.taint      the set of bits of the kernel taint word                 *)
(*   s.regions    the number of load_module regions in vmallocinfo         *)
(*   s.ftrace     the modules tagged in available_filter_functions         *)
(*   s.kallsyms   the modules named by /proc/kallsyms                      *)
(*   s.hooks      ftrace-hooked function -> owner module, NoName if none   *)
(* A kprobe row never has an owner (parsers/kernel_hooks.py:108), so it    *)
(* raises no signal and is left out of s.hooks.                            *)
(*                                                                         *)
(* The lists of the code are sets here: the order of signals decides       *)
(* nothing but the layout of the output.  The dissent string of a signal   *)
(* is a constant of its channel and is left out.                           *)
(***************************************************************************)
EXTENDS Integers, FiniteSets

CONSTANT NoName    \* Python's None as the name of a suspect or a hook owner

Process(g) == [kind |-> "process", name |-> g]
Module(m)  == [kind |-> "module", name |-> m]
Anonymous  == Module(NoName)

Signal(channel, suspect, evidence) ==
    [channel |-> channel, suspect |-> suspect, evidence |-> evidence]

-----------------------------------------------------------------------------
(* Taint reconciliation *)

TAINT_BIT_LETTER == [b \in {12, 13} |-> IF b = 12 THEN "O" ELSE "E"]

\* Listed modules whose marker carries the letter of bit b.
Owners(b, listing) ==
    {m \in DOMAIN listing : TAINT_BIT_LETTER[b] \in listing[m]}

Explained(taint, listing) ==
    {b \in taint \cap DOMAIN TAINT_BIT_LETTER : Owners(b, listing) # {}}

Unexplained(taint, listing) ==
    {b \in taint \cap DOMAIN TAINT_BIT_LETTER : Owners(b, listing) = {}}

Saturated(taint, listing) ==
    Unexplained(taint, listing) = {} /\ Explained(taint, listing) # {}

-----------------------------------------------------------------------------
(* The process and socket views *)

\* Ids some procfs pass recorded.
ListedIds(s) ==
    IF "procfs.processes" \in s.present
    THEN UNION {s.passes[p] : p \in DOMAIN s.passes} ELSE {}

\* A sweep entry without a readable status has no reliable tgid and is skipped;
\* the others are folded into their leader, reported once.
SweptTgids(s) == {s.sweep.tgid[t] : t \in s.sweep.ids \cap s.sweep.readable}

\* The task whose entry is quoted as evidence about g: the first of its group.
FirstTask(s, g) ==
    LET group == {t \in s.sweep.ids \cap s.sweep.readable : s.sweep.tgid[t] = g}
    IN  CHOOSE t \in group : \A u \in group : t <= u

signals_processes(s) ==
    IF {"procfs.processes", "syscall_sweep.processes"} \subseteq s.present
    THEN {Signal(c, Process(g), {FirstTask(s, g)}) :
             c \in {"syscall_kill", "direct_status"},
             g \in SweptTgids(s) \ ListedIds(s)}
    ELSE {}

\* The fold of signals_sockets: it trusts the tgid of every swept id, readable
\* or not, and leaves an id the sweep did not see as it is.
FoldOwner_Unfolded(s, pid) == pid

FoldOwner(s, pid) ==
    IF "syscall_sweep.processes" \in s.present /\ pid \in s.sweep.ids
    THEN s.sweep.tgid[pid] ELSE pid

signals_sockets(s) ==
    IF "procfs.sockets" \in s.present
    THEN UNION {{Signal("socket_visible", Process(FoldOwner(s, pid)), {i}) :
                    pid \in {p \in s.sockets[i] : FoldOwner(s, p) \notin ListedIds(s)}} :
                i \in DOMAIN s.sockets}
    ELSE {}

-----------------------------------------------------------------------------
(* The module views *)

ModuleIds(s) ==
    IF "procfs.modules" \in s.present THEN DOMAIN s.listing ELSE {}

ListedMarkers(s) ==
    [m \in ModuleIds(s) |-> s.listing[m]]

RegionExcess_AtLeast(s) == "vmalloc" \in s.available /\ s.regions >= Cardinality(ModuleIds(s))

RegionExcess_OneToSpare(s) ==
    "vmalloc" \in s.available /\ s.regions > Cardinality(ModuleIds(s)) + 1

RegionExcess(s) == "vmalloc" \in s.available /\ s.regions > Cardinality(ModuleIds(s))

signals_modules(s) ==
    LET taintSignal ==
            LET bits == Unexplained(s.taint, ListedMarkers(s))
            IN  IF bits = {} THEN {} ELSE {Signal("taint", Anonymous, bits)}
        regionSignal ==
            IF RegionExcess(s)
            THEN {Signal("vmalloc_region", Anonymous, {})} ELSE {}
        orphans ==
            IF "ftrace" \in s.available
            THEN {Signal("ftrace_orphan", Module(m), {}) : m \in s.ftrace \ ModuleIds(s)}
            ELSE {}
    IN  IF {"procfs.modules", "kernel.module_evidence"} \subseteq s.present
        THEN taintSignal \cup regionSignal \cup orphans
        ELSE {}

signals_hooks_AnyOwner(s) ==
    IF "kernel.hooks" \in s.present
    THEN {Signal("unexpected_hook", Module(s.hooks[f]), {f}) :
             f \in {h \in DOMAIN s.hooks : s.hooks[h] # NoName}}
    ELSE {}

\* Orphan hooks only: a callback owned by a named module that is not listed.
signals_hooks(s) ==
    IF "kernel.hooks" \in s.present
    THEN {Signal("unexpected_hook", Module(s.hooks[f]), {f}) :
             f \in {h \in DOMAIN s.hooks :
                       s.hooks[h] # NoName /\ s.hooks[h] \notin ModuleIds(s)}}
    ELSE {}

\* The corroborating channels are there to be consulted: availability, never
\* emptiness, decides.
CanCorroborate_IgnoresAvailability(s) ==
    {"procfs.modules", "kernel.module_evidence", "kernel.hooks"} \subseteq s.present

CanCorroborate(s) ==
    /\ {"procfs.modules", "kernel.module_evidence", "kernel.hooks"} \subseteq s.present
    /\ {"ftrace", "kallsyms"} \subseteq s.available

Uncorroborated_FtraceOnly(s) == ModuleIds(s) \ s.ftrace

Uncorroborated(s) == ModuleIds(s) \ (s.ftrace \cup s.kallsyms)

\* Every listed module came back uncorroborated: the channel pair said nothing.
NothingCorroborated(s) ==
    ModuleIds(s) # {} /\ Uncorroborated(s) = ModuleIds(s)

signals_over_listed(s) ==
    IF CanCorroborate(s) /\ ~NothingCorroborated(s)
    THEN {Signal("over_listed", Module(m), {}) : m \in Uncorroborated(s)}
    ELSE {}

\* Additions only: a module gone since the baseline is benign.
signals_baseline(s, b) ==
    {Signal("baseline_drift", Module(m), {}) : m \in ModuleIds(s) \ ModuleIds(b)}

-----------------------------------------------------------------------------
\* base is the empty set, or holds the one baseline to compare with.
all_signals(s, base) ==
    signals_processes(s) \cup signals_modules(s) \cup signals_hooks(s)
        \cup signals_sockets(s) \cup signals_over_listed(s)
        \cup UNION {signals_baseline(s, b) : b \in base}

Note(channel, reason) == [channel |-> channel, reason |-> reason]

channel_notes_TaintOnly(s) ==
    IF "kernel.module_evidence" \in s.present /\ Saturated(s.taint, ListedMarkers(s))
    THEN {Note("taint", "saturated")} ELSE {}

channel_notes(s) ==
    (IF "kernel.module_evidence" \in s.present /\ Saturated(s.taint, ListedMarkers(s))
     THEN {Note("taint", "saturated")} ELSE {})
    \cup
    (IF CanCorroborate(s) /\ NothingCorroborated(s)
     THEN {Note("over_listed", "uncorroborated")} ELSE {})
=============================================================================
