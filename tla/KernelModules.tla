---------------------------- MODULE KernelModules ----------------------------
(***************************************************************************)
(* The part of the kernel the module and hook collectors look at, as       *)
(* src/kdetect/collectors/sources.py uses it: the modules in memory, the   *)
(* /proc/modules rows, the taint word and the ftrace hooks.  It changes by *)
(* itself while a capture is taken.                                        *)
(*                                                                         *)
(* A subverted kernel may leave a loaded module out of /proc/modules, or   *)
(* add a row for a module that does not exist.  Every loaded module, in    *)
(* the listing or not, has its load_module lines in vmallocinfo (one per   *)
(* region the loader allocated: one, or several, or none) and its symbols  *)
(* in kallsyms, and, if it has traceable functions, its records in         *)
(* available_filter_functions.                                             *)
(*                                                                         *)
(* churned is a history variable: the modules loaded, unloaded or unlisted *)
(* since the capture began.                                                *)
(***************************************************************************)
EXTENDS Scoring

CONSTANTS
    Modules,      \* names of modules that can be loaded
    Phantoms,     \* names of rows a subverted kernel may make up
    Functions,    \* kernel functions that can be hooked
    Marker,       \* module -> the letters of its /proc/modules taint marker
    Traceable,    \* modules with functions ftrace can trace
    Regions,      \* lines of vmallocinfo that name load_module
    RegionsOf,    \* module -> its lines among them
    SymbolsOf,    \* module -> its kallsyms symbols; two modules may share some
    Subverted,    \* whether the kernel may lie in /proc/modules
    MaxChurn      \* bound: module events while a capture is running

ASSUME ModulesAssumption ==
    /\ IsFiniteSet(Modules \cup Phantoms)
    /\ Modules \cap Phantoms = {}
    /\ NoName \notin Modules \cup Phantoms
    /\ Marker \in [Modules -> SUBSET {"O", "E"}]
    /\ Traceable \subseteq Modules
    /\ IsFiniteSet(Regions)
    /\ RegionsOf \in [Modules -> SUBSET Regions]
    /\ \A m, n \in Modules : m # n => RegionsOf[m] \cap RegionsOf[n] = {}
    /\ DOMAIN SymbolsOf = Modules
    /\ \A m \in Modules : SymbolsOf[m] # {}
    /\ Subverted \in BOOLEAN
    /\ MaxChurn \in Nat

VARIABLES
    loaded,       \* modules in memory
    unlisted,     \* loaded modules that have no /proc/modules row
    rows,         \* made-up /proc/modules rows
    taint,        \* bits of the taint word; sticky until reboot
    hook,         \* function -> module of its ftrace callback, NoName if none
    churned

kernelVars == <<loaded, unlisted, rows, taint, hook, churned>>

\* Bit 9 (TAINT_WARN) stands for the bits no module accounts for.
TaintBits == {9, 12, 13}

TaintOf(m) == {b \in DOMAIN TAINT_BIT_LETTER : TAINT_BIT_LETTER[b] \in Marker[m]}

KernelTypeOK ==
    /\ loaded \subseteq Modules
    /\ unlisted \subseteq loaded
    /\ rows \subseteq Phantoms
    /\ taint \subseteq TaintBits
    /\ hook \in [Functions -> loaded \cup {NoName}]
    /\ churned \subseteq Modules

\* What /proc/modules shows, and the marker of a row.
ModuleRows == (loaded \ unlisted) \cup rows

RowMarker(m) == IF m \in Modules THEN Marker[m] ELSE {}

KernelInit ==
    /\ loaded \in SUBSET Modules
    /\ unlisted \in IF Subverted THEN SUBSET loaded ELSE {{}}
    /\ rows \in IF Subverted THEN SUBSET Phantoms ELSE {{}}
    /\ taint \in SUBSET TaintBits
    /\ \A m \in loaded : TaintOf(m) \subseteq taint
    /\ hook \in [Functions -> loaded \cup {NoName}]
    /\ churned = {}

Churn(m) == Cardinality(churned) < MaxChurn /\ churned' = churned \cup {m}

Load(m) ==
    /\ m \notin loaded
    /\ Churn(m)
    /\ loaded' = loaded \cup {m}
    /\ taint' = taint \cup TaintOf(m)
    /\ UNCHANGED <<unlisted, rows, hook>>

Unload(m) ==
    /\ m \in loaded \ unlisted
    /\ Churn(m)
    /\ loaded' = loaded \ {m}
    /\ hook' = [f \in Functions |-> IF hook[f] = m THEN NoName ELSE hook[f]]
    /\ UNCHANGED <<unlisted, rows, taint>>

Unlist(m) ==
    /\ Subverted
    /\ m \in loaded \ unlisted
    /\ Churn(m)
    /\ unlisted' = unlisted \cup {m}
    /\ UNCHANGED <<loaded, rows, taint, hook>>

Hook(f, m) ==
    /\ m \in loaded
    /\ hook[f] = NoName
    /\ hook' = [hook EXCEPT ![f] = m]
    /\ UNCHANGED <<loaded, unlisted, rows, taint, churned>>

Unhook(f) ==
    /\ hook[f] # NoName
    /\ hook' = [hook EXCEPT ![f] = NoName]
    /\ UNCHANGED <<loaded, unlisted, rows, taint, churned>>

Fabricate(x) ==
    /\ Subverted
    /\ x \notin rows
    /\ rows' = rows \cup {x}
    /\ UNCHANGED <<loaded, unlisted, taint, hook, churned>>

KernelNext ==
    \/ \E m \in Modules : Load(m) \/ Unload(m) \/ Unlist(m)
    \/ \E f \in Functions : Unhook(f) \/ \E m \in Modules : Hook(f, m)
    \/ \E x \in Phantoms : Fabricate(x)
=============================================================================
