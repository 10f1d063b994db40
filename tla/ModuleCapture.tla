---------------------------- MODULE ModuleCapture ----------------------------
(***************************************************************************)
(* The module and hook views of `kdetect capture`, taken from a kernel     *)
(* whose module table changes meanwhile, and what `kdetect analyze`        *)
(* concludes from them, with or without a baseline.                        *)
(*                                                                         *)
(* Unlike the process view there is no second listing: /proc/modules is    *)
(* read once for the comparison, and every other channel after it.  (The   *)
(* evidence collector reads /proc/modules again, for a marker count no     *)
(* detector uses.)  Every read is one step.                                *)
(***************************************************************************)
EXTENDS KernelModules, Functions

CONSTANT Faults    \* reads that may fail: the mandatory ones, or an optional channel

ASSUME FaultsAssumption ==
    Faults \subseteq {"mandatory", "vmalloc", "ftrace", "kallsyms", "enabled",
                       "emptyKallsyms", "malformed"}

VARIABLES
    phase,        \* the next read of cmd_capture
    snap,         \* the snapshot so far
    sym_to_mod,   \* symbol -> module, the hook collector's reading of kallsyms
    base,         \* {} or the set with the one baseline to compare with
    findings,     \* what analyze reports
    notes         \* and its channel notes

captureVars == <<phase, snap, sym_to_mod, base, findings, notes>>
vars == <<kernelVars, captureVars>>

Phases == {"modules", "tainted", "vmalloc", "ftrace", "kallsyms", "enabled",
           "kprobes", "analyze", "done", "aborted"}

\* A snapshot of the tool before the hook collector has no kernel.hooks.
Collectors == {"procfs.modules", "kernel.module_evidence", "kernel.hooks"}
ToolVersions == {Collectors, Collectors \ {"kernel.hooks"}}

\* A read or a parser raised and nothing catches it.
Abort(fault) == fault \in Faults /\ phase' = "aborted" /\ UNCHANGED snap

Over == phase \in {"done", "aborted"}

-----------------------------------------------------------------------------
(* ProcfsModuleCollector.collect *)

\* Each row with its taint marker.
parse_proc_modules == [m \in ModuleRows |-> RowMarker(m)]

ReadModules ==
    /\ phase = "modules"
    /\ \/ /\ snap' = [snap EXCEPT !.listing = parse_proc_modules]
          /\ phase' = "tainted"
       \/ Abort("mandatory")
    /\ UNCHANGED <<sym_to_mod, base, findings, notes>>

-----------------------------------------------------------------------------
(* ModuleEvidenceCollector.collect *)

ReadTainted ==
    /\ phase = "tainted"
    /\ \/ /\ snap' = [snap EXCEPT !.taint = taint]
          /\ phase' = "vmalloc"
       \/ Abort("mandatory")
    /\ UNCHANGED <<sym_to_mod, base, findings, notes>>

\* The optional reads give None, not an exception, when they fail.
Unreadable(channel) == channel \in Faults

\* The lines are counted, whichever module they belong to.
count_module_regions == Cardinality(UNION {RegionsOf[m] : m \in loaded})

parse_ftrace_modules == loaded \cap Traceable

ReadVmallocinfo_Excess ==
    /\ phase = "vmalloc"
    /\ snap' = [snap EXCEPT !.regions = count_module_regions - Cardinality(DOMAIN snap.listing),
                            !.available = @ \cup {"vmalloc"}]
    /\ phase' = "ftrace"
    /\ UNCHANGED <<sym_to_mod, base, findings, notes>>

ReadVmallocinfo ==
    /\ phase = "vmalloc"
    /\ \/ snap' = [snap EXCEPT !.regions = count_module_regions, !.available = @ \cup {"vmalloc"}]
       \/ Unreadable("vmalloc") /\ UNCHANGED snap
    /\ phase' = "ftrace"
    /\ UNCHANGED <<sym_to_mod, base, findings, notes>>

ReadFtrace_EmptyOnError ==
    /\ phase = "ftrace"
    /\ \/ snap' = [snap EXCEPT !.ftrace = parse_ftrace_modules,
                               !.available = @ \cup {"ftrace"}]
       \/ /\ Unreadable("ftrace")
          /\ snap' = [snap EXCEPT !.available = @ \cup {"ftrace"}]
    /\ phase' = IF "kernel.hooks" \in snap.present THEN "kallsyms" ELSE "analyze"
    /\ UNCHANGED <<sym_to_mod, base, findings, notes>>

ReadFtrace ==
    /\ phase = "ftrace"
    /\ \/ snap' = [snap EXCEPT !.ftrace = parse_ftrace_modules,
                               !.available = @ \cup {"ftrace"}]
       \/ Unreadable("ftrace") /\ UNCHANGED snap
    /\ phase' = IF "kernel.hooks" \in snap.present THEN "kallsyms" ELSE "analyze"
    /\ UNCHANGED <<sym_to_mod, base, findings, notes>>

-----------------------------------------------------------------------------
(* KernelHookCollector.collect *)

\* One owner per symbol name: the last line of the text wins, and nothing is
\* assumed of the order of the lines.
reduce_kallsyms(mods) ==
    {g \in [UNION {SymbolsOf[m] : m \in mods} -> mods] :
        \A s \in DOMAIN g : s \in SymbolsOf[g[s]]}

\* The modules named are those left as the owner of some symbol.  A text that
\* reads as empty is available and names no module.
ReadKallsyms ==
    /\ phase = "kallsyms"
    /\ \/ /\ sym_to_mod' \in reduce_kallsyms(loaded)
          /\ snap' = [snap EXCEPT !.kallsyms = Range(sym_to_mod'),
                                  !.available = @ \cup {"kallsyms"}]
       \/ /\ "emptyKallsyms" \in Faults
          /\ snap' = [snap EXCEPT !.available = @ \cup {"kallsyms"}]
          /\ UNCHANGED sym_to_mod
       \/ Unreadable("kallsyms") /\ UNCHANGED <<snap, sym_to_mod>>
    /\ phase' = "enabled"
    /\ UNCHANGED <<base, findings, notes>>

\* A row per hooked function: some symbol of the hooking module as callback, and
\* the module if the kernel tags it on the line.
parse_enabled_functions ==
    LET hooked == {f \in Functions : hook[f] # NoName}
    IN  {hooks \in [hooked -> [callback : UNION Range(SymbolsOf),
                               owner_module : Modules \cup {NoName}]] :
            \A f \in hooked : /\ hooks[f].callback \in SymbolsOf[hook[f]]
                              /\ hooks[f].owner_module \in {hook[f], NoName}}

\* The owner of a hook: the tag, else the module kallsyms gave for the callback,
\* else none.
HookOwner(row) ==
    IF row.owner_module # NoName THEN row.owner_module
    ELSE IF row.callback \in DOMAIN sym_to_mod THEN sym_to_mod[row.callback] ELSE NoName

ReadEnabledFunctions ==
    /\ phase = "enabled"
    /\ \/ \E hooks \in parse_enabled_functions :
             snap' = [snap EXCEPT !.hooks = [f \in DOMAIN hooks |-> HookOwner(hooks[f])]]
       \/ Unreadable("enabled") /\ UNCHANGED snap
    /\ phase' = "kprobes"
    /\ UNCHANGED <<sym_to_mod, base, findings, notes>>

\* The list of kprobes, whose rows have no owner, and then the parsing of both
\* texts: a short line of this one, or a trampoline without its parentheses in
\* the other, raises.
ReadKprobes ==
    /\ phase = "kprobes"
    /\ \/ phase' = "analyze" /\ UNCHANGED snap
       \/ Abort("malformed")
    /\ UNCHANGED <<sym_to_mod, base, findings, notes>>

-----------------------------------------------------------------------------
(* cmd_analyze on the snapshot *)

ModuleSignals(s, b) ==
    signals_modules(s) \cup signals_hooks(s) \cup signals_over_listed(s)
        \cup UNION {signals_baseline(s, x) : x \in b}

Analyze ==
    /\ phase = "analyze"
    /\ findings' = score(ModuleSignals(snap, base))
    /\ notes' = channel_notes(snap)
    /\ phase' = "done"
    /\ UNCHANGED <<snap, sym_to_mod, base>>

-----------------------------------------------------------------------------
EmptySnapshot(present) ==
    [present |-> present, available |-> {}, listing |-> <<>>,
     taint |-> {}, regions |-> 0, ftrace |-> {}, kallsyms |-> {},
     hooks |-> <<>>]

\* A baseline is an earlier snapshot; only its listing is compared.
Baseline(names) ==
    [EmptySnapshot(Collectors) EXCEPT !.listing = [m \in names |-> RowMarker(m)]]

CaptureInit ==
    /\ phase = "modules"
    /\ \E present \in ToolVersions : snap = EmptySnapshot(present)
    /\ sym_to_mod = <<>>
    /\ base \in {{}} \cup {{Baseline(names)} : names \in SUBSET Modules}
    /\ findings = {}
    /\ notes = {}

CaptureStep ==
    /\ \/ ReadModules
       \/ ReadTainted
       \/ ReadVmallocinfo
       \/ ReadFtrace
       \/ ReadKallsyms
       \/ ReadEnabledFunctions
       \/ ReadKprobes
       \/ Analyze
    /\ UNCHANGED kernelVars

KernelStep == ~Over /\ KernelNext /\ UNCHANGED captureVars

Terminated == Over /\ UNCHANGED vars

Init == KernelInit /\ CaptureInit

Next == CaptureStep \/ KernelStep \/ Terminated

Spec == Init /\ [][Next]_vars

-----------------------------------------------------------------------------
(* Properties *)

Names == Modules \cup Phantoms

TypeOK ==
    /\ KernelTypeOK
    /\ phase \in Phases
    /\ snap.present \in ToolVersions
    /\ snap.available \subseteq {"vmalloc", "ftrace", "kallsyms"}
    /\ DOMAIN snap.listing \subseteq Names
    /\ snap.taint \subseteq TaintBits
    /\ snap.regions \in Nat
    /\ snap.ftrace \subseteq Modules
    /\ snap.kallsyms \subseteq Modules
    /\ DOMAIN snap.hooks \subseteq Functions
    /\ Range(snap.hooks) \subseteq Modules \cup {NoName}
    /\ Range(sym_to_mod) \subseteq Modules

\* The modules reported with one of the finding kinds ks.
ReportedAs(ks) == {f.suspect.name : f \in {g \in findings : g.kind \in ks}}

\* Modules ftrace or a symbol name of their own can vouch for.
HasOwnSymbol(m) ==
    \E s \in SymbolsOf[m] : \A other \in Modules \ {m} : s \notin SymbolsOf[other]

Vouched == {m \in Modules : m \in Traceable \/ HasOwnSymbol(m)}

\* The kernel has not lied since the capture began: a hidden module is never
\* unloaded or listed again, and a made-up row stays.
Honest == unlisted = {} /\ rows = {}

\* On a kernel that did not lie, a module reported as hidden was loaded or
\* unloaded while the capture ran, and so was one reported as over-listed if
\* ftrace or a symbol name of its own vouches for it.  (A kallsyms that reads as
\* empty can make any untraceable module look over-listed.)
HonestReportIsChurn ==
    phase = "done" /\ Honest =>
        /\ ReportedAs({"hidden_module"}) \subseteq churned
        /\ snap.kallsyms # {} =>
               ReportedAs({"over_listed_module"}) \cap Vouched \subseteq churned

RegionExcessReported == \E f \in findings : "vmalloc_region" \in f.channels

\* On a kernel that did not lie, the region count (lines counted by substring,
\* compared with the rows by >) is evidence only if a module came or went
\* meanwhile, or some module has more than one region.
RegionExcessNeedsCause ==
    phase = "done" /\ Honest /\ RegionExcessReported =>
        churned # {} \/ \E m \in loaded : Cardinality(RegionsOf[m]) > 1

\* A module that stayed hidden while nothing else changed is counted, if every
\* loaded module has a region and no made-up row stands in for it: neither the
\* order of the reads nor the strict comparison loses the one line too many.
HiddenRegionIsCounted ==
    phase = "done" /\ "vmalloc" \in snap.available /\ churned = {} /\ unlisted # {}
    /\ DOMAIN snap.listing \cap Phantoms = {} /\ (\A m \in loaded : RegionsOf[m] # {})
        => RegionExcessReported

\* A module that stayed out of /proc/modules is reported as hidden, by name, if
\* ftrace could be read and has records of it.
HiddenIsNamed ==
    phase = "done" /\ "ftrace" \in snap.available =>
        (unlisted \cap Traceable) \ churned \subseteq ReportedAs({"hidden_module"})

\* With one hidden module and nothing else going on, the anonymous evidence
\* (taint, region count) goes to that module: no second, unattributed finding.
LoneHiddenModuleTakesAllEvidence ==
    phase = "done" /\ churned = {} /\ "ftrace" \in snap.available
    /\ (\E m \in Traceable : unlisted = {m}) =>
        ReportedAs({"suspected_hidden_module"}) = {}

\* A made-up row in the listing never passes in silence once both corroborating
\* channels were read: it is a finding of its own, or the note says the channel
\* pair corroborated nothing.
PhantomIsSurfaced ==
    phase = "done" /\ snap.present = Collectors
    /\ {"ftrace", "kallsyms"} \subseteq snap.available =>
        \/ Note("over_listed", "uncorroborated") \in notes
        \/ DOMAIN snap.listing \cap Phantoms \subseteq ReportedAs({"over_listed_module"})

\* Every signal is evidence of exactly one finding: scoring neither drops nor
\* double counts what a detector saw.
EvidenceIsConserved ==
    phase = "done" =>
        \A x \in ModuleSignals(snap, base) :
            \E f \in findings : /\ x \in f.evidence
                                /\ \A g \in findings : x \in g.evidence => g = f

\* A finding about a module never mixes channels that say it is concealed with
\* channels that say it is listed.
NoMixedChannels ==
    \A f \in findings :
        \/ f.channels \subseteq HIDING
        \/ f.channels \subseteq {"over_listed", "baseline_drift"}

\* The snapshot as it would be had channel c been unreadable.
Without(s, c) ==
    [s EXCEPT !.available = @ \ {c},
              !.ftrace = IF c = "ftrace" THEN {} ELSE @,
              !.kallsyms = IF c = "kallsyms" THEN {} ELSE @]

AccusedIn(s) == {x.suspect.name : x \in Named(ModuleSignals(s, base))}

\* Losing a channel never makes a module a suspect: an unreadable channel is
\* skipped, not read as dissent.
UnreadableAccusesNoOne ==
    phase = "done" =>
        \A c \in snap.available : AccusedIn(Without(snap, c)) \subseteq AccusedIn(snap)
=============================================================================
