------------------------ MODULE ModuleCapture_proofs ------------------------
(***************************************************************************)
(* Proofs about ModuleCapture for every finite set of modules and phantom  *)
(* rows, every set of symbols and hooks, every choice of faults and any    *)
(* amount of module loading and unloading during the capture.              *)
(***************************************************************************)
EXTENDS ModuleCapture, Scoring_proofs, FiniteSetTheorems

-----------------------------------------------------------------------------
(* What the module detectors may say of a suspect *)

ListedChannels == {"over_listed", "baseline_drift"}

\* A module the listing shows is only ever accused of being listed, a suspect it
\* does not show only ever of being concealed.
LEMMA ChannelSides ==
    ASSUME NEW s, NEW b, NoName \notin ModuleIds(s), NEW x \in ModuleSignals(s, b)
    PROVE  /\ x.suspect.name \in ModuleIds(s) => x.channel \in ListedChannels
           /\ x.suspect.name \notin ModuleIds(s) => x.channel \in HIDING
           /\ Suspect(x.suspect)
<1> USE DEF Signal, Module, Process, Suspect, Anonymous, ListedChannels, HIDING
<1>1. CASE x \in signals_modules(s)
  <2>1. \/ \E bits : x = Signal("taint", Anonymous, bits)
        \/ x = Signal("vmalloc_region", Anonymous, {})
        \/ \E m \in s.ftrace \ ModuleIds(s) : x = Signal("ftrace_orphan", Module(m), {})
    BY <1>1, Zenon DEF signals_modules
  <2> QED
    BY <2>1
<1>2. CASE x \in signals_hooks(s)
  BY <1>2 DEF signals_hooks
<1>3. CASE x \in signals_over_listed(s)
  BY <1>3 DEF signals_over_listed, Uncorroborated
<1>4. ASSUME NEW y \in b, x \in signals_baseline(s, y)
      PROVE  /\ x.suspect.name \in ModuleIds(s) => x.channel \in ListedChannels
             /\ x.suspect.name \notin ModuleIds(s) => x.channel \in HIDING
             /\ Suspect(x.suspect)
  BY <1>4 DEF signals_baseline
<1> QED
  BY <1>1, <1>2, <1>3, <1>4 DEF ModuleSignals

\* So the channels of a finding are all of one side, attribution included.
LEMMA OneSide ==
    ASSUME NEW s, NEW b, NoName \notin ModuleIds(s), NEW f \in score(ModuleSignals(s, b))
    PROVE  f.channels \subseteq HIDING \/ f.channels \subseteq ListedChannels
<1> DEFINE S == ModuleSignals(s, b)
<1>c. \A u, sigs, c : Compose(u, sigs, c).channels = {x.channel : x \in sigs}
  BY DEF Compose, Channels
<1>a. \A x \in Anon(S) : x.channel \in HIDING
  BY ChannelSides DEF Anon
<1>h. \A m \in HiddenNamed(S) : m \notin ModuleIds(s)
  <2>1. SUFFICES ASSUME NEW x \in S, x.channel \in HIDING_NAMED
                 PROVE  x.suspect.name \notin ModuleIds(s)
    BY DEF HiddenNamed, Named
  <2> QED
    BY <2>1, ChannelSides DEF HIDING_NAMED, ListedChannels
<1>1. CASE IsNamedFinding(f, S)
  <2>1. PICK y \in Named(S) : f = Compose(y.suspect, Group(S, y.suspect), {})
    BY <1>1 DEF IsNamedFinding
  <2>2. CASE y.suspect.name \in ModuleIds(s)
    <3>1. \A x \in Group(S, y.suspect) : x \in S /\ x.suspect = y.suspect
      BY <2>2, <1>h DEF Group, Named
    <3> QED
      BY <2>1, <2>2, <3>1, <1>c, ChannelSides
  <2>3. CASE y.suspect.name \notin ModuleIds(s)
    <3>1. \A x \in Group(S, y.suspect) : x.channel \in HIDING
      BY <2>3, <1>a, ChannelSides DEF Group, Named
    <3> QED
      BY <2>1, <3>1, <1>c
  <2> QED
    BY <2>2, <2>3
<1>2. CASE IsAnonymousFinding(f, S)
  BY <1>2, <1>a, <1>c DEF IsAnonymousFinding, Unattributed
<1> QED
  BY <1>1, <1>2, FindingsOfScore

-----------------------------------------------------------------------------
(* The inductive invariant *)

\* The snapshot keeps its fields while they are filled in.
SnapshotFields ==
    DOMAIN snap = {"present", "available", "listing", "taint", "regions", "ftrace",
                   "kallsyms", "hooks"}

\* What is reported is the analysis of the snapshot as it stands.
FindingsAreOfSnapshot ==
    findings = IF phase = "done" THEN score(ModuleSignals(snap, base)) ELSE {}

IInv == TypeOK /\ SnapshotFields /\ FindingsAreOfSnapshot

\* The first state.
LEMMA InitIInv == Init => IInv
BY DEF Init, KernelInit, CaptureInit, IInv, TypeOK, KernelTypeOK, SnapshotFields, EmptySnapshot,
       FindingsAreOfSnapshot, Phases, Range, ToolVersions, TaintBits

\* The kernel changes only its own state.
LEMMA KernelStepIInv == IInv /\ KernelStep => IInv'
<1> SUFFICES ASSUME IInv, KernelStep PROVE IInv'
  OBVIOUS
<1>1. KernelTypeOK'
  <2> USE DEF IInv, TypeOK, KernelTypeOK
  <2>1. ASSUME NEW m \in Modules, Load(m) PROVE KernelTypeOK'
    BY <2>1 DEF Load, Churn, TaintOf, TAINT_BIT_LETTER, TaintBits
  <2>2. ASSUME NEW m \in Modules, Unload(m) PROVE KernelTypeOK'
    BY <2>2 DEF Unload, Churn
  <2>3. ASSUME NEW m \in Modules, Unlist(m) PROVE KernelTypeOK'
    BY <2>3 DEF Unlist, Churn
  <2>4. ASSUME NEW f \in Functions, NEW m \in Modules, Hook(f, m) PROVE KernelTypeOK'
    BY <2>4 DEF Hook
  <2>5. ASSUME NEW f \in Functions, Unhook(f) PROVE KernelTypeOK'
    BY <2>5 DEF Unhook
  <2>6. ASSUME NEW x \in Phantoms, Fabricate(x) PROVE KernelTypeOK'
    BY <2>6 DEF Fabricate
  <2> QED
    BY <2>1, <2>2, <2>3, <2>4, <2>5, <2>6 DEF KernelStep, KernelNext
<1>2. UNCHANGED captureVars
  BY DEF KernelStep
<1> QED
  BY <1>1, <1>2 DEF IInv, TypeOK, SnapshotFields, FindingsAreOfSnapshot, captureVars

\* A read of the capture, or its analysis.
LEMMA CaptureStepIInv == IInv /\ CaptureStep => IInv'
<1> SUFFICES ASSUME IInv, CaptureStep PROVE IInv'
  OBVIOUS
<1>k. KernelTypeOK' /\ KernelTypeOK
  BY DEF IInv, TypeOK, KernelTypeOK, CaptureStep, kernelVars
<1> USE <1>k DEF IInv, TypeOK, SnapshotFields, FindingsAreOfSnapshot, Phases, Abort
<1>1. CASE ReadModules
  BY <1>1 DEF ReadModules, parse_proc_modules, ModuleRows, KernelTypeOK, Names
<1>2. CASE ReadTainted
  BY <1>2 DEF ReadTainted, KernelTypeOK
<1>3. CASE ReadVmallocinfo
  <2>1. count_module_regions \in Nat
    <3>1. UNION {RegionsOf[m] : m \in loaded} \subseteq Regions
      BY ModulesAssumption DEF KernelTypeOK
    <3> QED
      BY <3>1, ModulesAssumption, FS_Subset, FS_CardinalityType DEF count_module_regions
  <2>2. CASE UNCHANGED snap
    BY <1>3, <2>2 DEF ReadVmallocinfo
  <2>3. CASE snap' = [snap EXCEPT !.regions = count_module_regions,
                                  !.available = @ \cup {"vmalloc"}]
    BY <1>3, <2>1, <2>3 DEF ReadVmallocinfo
  <2> QED
    BY <1>3, <2>2, <2>3 DEF ReadVmallocinfo
<1>4. CASE ReadFtrace
  <2>1. loaded \cap Traceable \subseteq Modules
    BY DEF KernelTypeOK
  <2>2. phase' \in Phases /\ phase' # "done" /\ phase # "done"
    BY <1>4 DEF ReadFtrace, parse_ftrace_modules
  <2>3. CASE UNCHANGED snap
    BY <1>4, <2>2, <2>3 DEF ReadFtrace, parse_ftrace_modules
  <2>4. CASE snap' = [snap EXCEPT !.ftrace = loaded \cap Traceable,
                                  !.available = @ \cup {"ftrace"}]
    BY <1>4, <2>1, <2>2, <2>4 DEF ReadFtrace, parse_ftrace_modules
  <2> QED
    BY <1>4, <2>3, <2>4 DEF ReadFtrace, parse_ftrace_modules
<1>5. CASE ReadKallsyms
  <2>1. CASE UNCHANGED <<snap, sym_to_mod>>
    BY <1>5, <2>1 DEF ReadKallsyms
  <2>2. CASE /\ UNCHANGED sym_to_mod
             /\ snap' = [snap EXCEPT !.available = @ \cup {"kallsyms"}]
    BY <1>5, <2>2 DEF ReadKallsyms
  <2>3. CASE /\ sym_to_mod' \in reduce_kallsyms(loaded)
             /\ snap' = [snap EXCEPT !.kallsyms = Range(sym_to_mod'),
                                     !.available = @ \cup {"kallsyms"}]
    <3>1. Range(sym_to_mod') \subseteq Modules
      BY <2>3 DEF reduce_kallsyms, Range, KernelTypeOK
    <3> QED
      BY <1>5, <2>3, <3>1 DEF ReadKallsyms
  <2> QED
    BY <1>5, <2>1, <2>2, <2>3 DEF ReadKallsyms
<1>6. CASE ReadEnabledFunctions
  <2>1. CASE UNCHANGED snap
    BY <1>6, <2>1 DEF ReadEnabledFunctions
  <2>2. ASSUME NEW hooks \in parse_enabled_functions,
               snap' = [snap EXCEPT !.hooks = [f \in DOMAIN hooks |-> HookOwner(hooks[f])]]
        PROVE  IInv'
    <3>1. /\ DOMAIN hooks \subseteq Functions
          /\ \A f \in DOMAIN hooks : hooks[f].owner_module \in Modules \cup {NoName}
      BY DEF parse_enabled_functions
    <3>2. \A f \in DOMAIN hooks : HookOwner(hooks[f]) \in Modules \cup {NoName}
      BY <3>1 DEF HookOwner, Range
    <3>3. /\ DOMAIN [f \in DOMAIN hooks |-> HookOwner(hooks[f])] \subseteq Functions
          /\ Range([f \in DOMAIN hooks |-> HookOwner(hooks[f])]) \subseteq Modules \cup {NoName}
      BY <3>1, <3>2 DEF Range
    <3> QED
      BY <1>6, <2>2, <3>3 DEF ReadEnabledFunctions
  <2> HIDE DEF IInv
  <2> QED
    BY <1>6, <2>1, <2>2 DEF ReadEnabledFunctions
<1>7. CASE ReadKprobes
  BY <1>7 DEF ReadKprobes, Abort
<1>8. CASE Analyze
  BY <1>8 DEF Analyze
<1> QED
  BY <1>1, <1>2, <1>3, <1>4, <1>5, <1>6, <1>7, <1>8 DEF CaptureStep

\* The invariant holds in every reachable state.
THEOREM Invariance == Spec => []IInv
<1>1. IInv /\ [Next]_vars => IInv'
  <2> SUFFICES ASSUME IInv, [Next]_vars PROVE IInv'
    OBVIOUS
  <2>1. CASE UNCHANGED vars
    BY <2>1 DEF vars, kernelVars, captureVars, IInv, TypeOK, KernelTypeOK, SnapshotFields,
            FindingsAreOfSnapshot
  <2> QED
    BY <2>1, CaptureStepIInv, KernelStepIInv DEF Next, Terminated
<1> QED
  BY <1>1, InitIInv, PTL DEF Spec

\* The observations of the module and hook collectors are well formed, whatever
\* fails and whatever the kernel does meanwhile.
THEOREM TypeCorrect == Spec => []TypeOK
BY Invariance, PTL DEF IInv

\* Every signal of the module and hook views is evidence of exactly one reported
\* finding (scoring.score, with its attribution of anonymous signals).
THEOREM EvidenceConserved == Spec => []EvidenceIsConserved
<1>1. IInv => EvidenceIsConserved
  <2> SUFFICES ASSUME IInv, phase = "done", NEW x \in ModuleSignals(snap, base)
               PROVE  \E f \in findings : /\ x \in f.evidence
                                          /\ \A g \in findings : x \in g.evidence => g = f
    BY DEF EvidenceIsConserved
  <2>1. NoName \notin ModuleIds(snap)
    BY ModulesAssumption DEF IInv, TypeOK, Names, ModuleIds
  <2>2. \A y \in ModuleSignals(snap, base) : Suspect(y.suspect)
    BY <2>1, ChannelSides
  <2>3. findings = score(ModuleSignals(snap, base))
    BY DEF IInv, FindingsAreOfSnapshot
  <2> QED
    BY <2>2, <2>3, ScoreConservesEvidence
<1> QED
  BY <1>1, Invariance, PTL

\* No reported finding mixes channels that say a module is concealed with
\* channels that say it is listed, even when the listing, the other channels and
\* the baseline were read at different times and the kernel lied in between.
THEOREM ChannelsNeverMixed == Spec => []NoMixedChannels
<1>1. IInv => NoMixedChannels
  <2>1. SUFFICES ASSUME IInv, NEW f \in findings
                 PROVE  f.channels \subseteq HIDING \/ f.channels \subseteq ListedChannels
    BY DEF NoMixedChannels, ListedChannels
  <2>2. NoName \notin ModuleIds(snap)
    BY <2>1, ModulesAssumption DEF IInv, TypeOK, Names, ModuleIds
  <2>3. f \in score(ModuleSignals(snap, base))
    BY <2>1 DEF IInv, FindingsAreOfSnapshot
  <2> QED
    BY <2>2, <2>3, OneSide
<1> QED
  BY <1>1, Invariance, PTL

-----------------------------------------------------------------------------
(* What the reads say of a kernel that changed between them *)

Known == DOMAIN snap.listing \cup unlisted \cup churned

\* Once /proc/modules was read: a module in memory, and every module a later
\* channel names, is in the listing, is unlisted, or came and went; what is in
\* the listing is in memory, is made up, or came and went; and nothing that was
\* hidden all along is in it.
ListingTrue ==
    IF phase = "modules"
    THEN snap.ftrace = {} /\ Range(sym_to_mod) = {} /\ Range(snap.hooks) = {}
    ELSE phase # "aborted" =>
        /\ loaded \subseteq Known
        /\ snap.ftrace \cup Range(sym_to_mod) \cup (Range(snap.hooks) \ {NoName}) \subseteq Known
        /\ DOMAIN snap.listing \subseteq loaded \cup rows \cup churned
        /\ unlisted \cap DOMAIN snap.listing \subseteq churned

\* The optional channels, when they could be read, miss no module that stayed.
ChannelsTrue ==
    /\ "ftrace" \in snap.available => loaded \cap Traceable \subseteq snap.ftrace \cup churned
    /\ snap.kallsyms # {} => {m \in loaded : HasOwnSymbol(m)} \subseteq snap.kallsyms \cup churned
    /\ "vmalloc" \in snap.available /\ churned = {} => snap.regions = count_module_regions

\* The notes are those of the snapshot.
NotesAreOfSnapshot == phase = "done" => notes = channel_notes(snap)

History == ListingTrue /\ ChannelsTrue /\ NotesAreOfSnapshot

\* What one step of the kernel may change: a module that comes, goes or is
\* unlisted is churned.
KernelChange ==
    /\ loaded' \subseteq loaded \cup churned' /\ loaded \subseteq loaded' \cup churned'
    /\ unlisted \subseteq unlisted' /\ unlisted' \subseteq unlisted \cup churned'
    /\ churned \subseteq churned' /\ rows \subseteq rows'

\* Every step of the kernel changes the history only like that.
LEMMA KernelNextChange ==
    ASSUME IInv, KernelNext
    PROVE  KernelChange
<1>1. unlisted \subseteq loaded
  BY DEF IInv, TypeOK, KernelTypeOK
<1> QED
  BY <1>1 DEF KernelNext, KernelChange, Load, Unload, Unlist, Hook, Unhook, Fabricate, Churn

\* The first state.
LEMMA InitHistory == Init => History
BY DEF Init, CaptureInit, History, ListingTrue, ChannelsTrue, NotesAreOfSnapshot, EmptySnapshot,
       Range

\* A step of the kernel.
LEMMA KernelStepHistory == IInv /\ History /\ KernelStep => History'
<1> SUFFICES ASSUME IInv, History, KernelStep PROVE History'
  OBVIOUS
<1>1. KernelChange /\ UNCHANGED captureVars
  BY KernelNextChange DEF KernelStep
<1>2. ListingTrue'
  BY <1>1 DEF History, ListingTrue, Known, KernelChange, captureVars
<1>3. ChannelsTrue'
  <2>1. churned' = {} => churned = {} /\ loaded' = loaded
    BY <1>1 DEF KernelChange
  <2>2. churned' = {} => count_module_regions' = count_module_regions
    BY <2>1 DEF count_module_regions
  <2> QED
    BY <1>1, <2>1, <2>2 DEF History, ChannelsTrue, KernelChange, captureVars, HasOwnSymbol
<1>4. NotesAreOfSnapshot'
  BY <1>1 DEF History, NotesAreOfSnapshot, captureVars
<1> QED
  BY <1>2, <1>3, <1>4 DEF History

\* A read of the capture.
LEMMA CaptureStepHistory == IInv /\ History /\ CaptureStep => History'
<1> SUFFICES ASSUME IInv, History, CaptureStep PROVE History'
  OBVIOUS
<1>k. UNCHANGED kernelVars /\ KernelTypeOK /\ SnapshotFields /\ Modules \cap Phantoms = {}
  BY ModulesAssumption DEF CaptureStep, IInv, TypeOK
<1>c. count_module_regions' = count_module_regions
  BY <1>k DEF kernelVars, count_module_regions
<1> USE <1>k, <1>c DEF SnapshotFields, History, ListingTrue, ChannelsTrue, NotesAreOfSnapshot, Known,
         kernelVars, KernelTypeOK, HasOwnSymbol
<1>1. CASE ReadModules
  <2>1. CASE Abort("mandatory")
    BY <1>1, <2>1 DEF ReadModules, Abort
  <2>2. CASE /\ snap' = [snap EXCEPT !.listing = parse_proc_modules] /\ phase' = "tainted"
             /\ phase = "modules" /\ UNCHANGED <<sym_to_mod, base, findings, notes>>
    <3>1. /\ DOMAIN snap'.listing = (loaded \ unlisted) \cup rows
          /\ snap'.ftrace = snap.ftrace /\ snap'.kallsyms = snap.kallsyms
          /\ snap'.hooks = snap.hooks /\ snap'.available = snap.available
          /\ snap'.regions = snap.regions
      BY <2>2 DEF parse_proc_modules, ModuleRows
    <3> QED
      BY <2>2, <3>1
  <2> QED
    BY <1>1, <2>1, <2>2 DEF ReadModules
<1>2. CASE ReadTainted
  BY <1>2 DEF ReadTainted, Abort
<1>3. CASE ReadVmallocinfo
  BY <1>3 DEF ReadVmallocinfo
<1>4. CASE ReadFtrace
  <2>1. phase = "ftrace" /\ phase' \in {"kallsyms", "analyze"} /\ UNCHANGED sym_to_mod
    BY <1>4 DEF ReadFtrace
  <2>2. CASE UNCHANGED snap
    BY <2>1, <2>2
  <2>3. CASE snap' = [snap EXCEPT !.ftrace = loaded \cap Traceable,
                                  !.available = @ \cup {"ftrace"}]
    <3>1. /\ snap'.ftrace = loaded \cap Traceable /\ snap'.listing = snap.listing
          /\ snap'.kallsyms = snap.kallsyms /\ snap'.hooks = snap.hooks
          /\ snap'.available = snap.available \cup {"ftrace"} /\ snap'.regions = snap.regions
      BY <2>3
    <3> QED
      BY <2>1, <3>1
  <2> QED
    BY <1>4, <2>2, <2>3 DEF ReadFtrace, parse_ftrace_modules
<1>5. CASE ReadKallsyms
  <2>0. phase = "kallsyms" /\ phase' = "enabled"
    BY <1>5 DEF ReadKallsyms
  <2>1. CASE UNCHANGED <<snap, sym_to_mod>>
    BY <2>0, <2>1
  <2>2. CASE /\ UNCHANGED sym_to_mod
             /\ snap' = [snap EXCEPT !.available = @ \cup {"kallsyms"}]
    BY <2>0, <2>2
  <2>3. CASE /\ sym_to_mod' \in reduce_kallsyms(loaded)
             /\ snap' = [snap EXCEPT !.kallsyms = Range(sym_to_mod'),
                                     !.available = @ \cup {"kallsyms"}]
    <3>1. Range(sym_to_mod') \subseteq loaded
      BY <2>3 DEF reduce_kallsyms, Range
    <3>2. ASSUME NEW m \in loaded, HasOwnSymbol(m) PROVE m \in Range(sym_to_mod')
      <4>1. PICK s \in SymbolsOf[m] : \A other \in Modules \ {m} : s \notin SymbolsOf[other]
        BY <3>2
      <4>2. /\ s \in DOMAIN sym_to_mod'
            /\ sym_to_mod'[s] \in loaded /\ s \in SymbolsOf[sym_to_mod'[s]]
        BY <2>3, <4>1 DEF reduce_kallsyms
      <4>3. sym_to_mod'[s] = m
        BY <4>1, <4>2
      <4> QED
        BY <4>2, <4>3 DEF Range
    <3>3. /\ snap'.kallsyms = Range(sym_to_mod') /\ snap'.listing = snap.listing
          /\ snap'.ftrace = snap.ftrace /\ snap'.hooks = snap.hooks
          /\ snap'.available = snap.available \cup {"kallsyms"} /\ snap'.regions = snap.regions
      BY <2>3
    <3> QED
      BY <2>0, <3>1, <3>2, <3>3
  <2> QED
    BY <1>5, <2>1, <2>2, <2>3 DEF ReadKallsyms
<1>6. CASE ReadEnabledFunctions
  <2>0. phase = "enabled" /\ phase' = "kprobes" /\ UNCHANGED sym_to_mod
    BY <1>6 DEF ReadEnabledFunctions
  <2>1. CASE UNCHANGED snap
    BY <2>0, <2>1
  <2>2. ASSUME NEW hooks \in parse_enabled_functions,
               snap' = [snap EXCEPT !.hooks = [f \in DOMAIN hooks |-> HookOwner(hooks[f])]]
        PROVE  History'
    <3>1. \A f \in DOMAIN hooks : hooks[f].owner_module \in loaded \cup {NoName}
      BY DEF parse_enabled_functions
    <3>2. \A f \in DOMAIN hooks : HookOwner(hooks[f]) \in loaded \cup Range(sym_to_mod) \cup {NoName}
      BY <3>1 DEF HookOwner, Range
    <3>3. Range(snap'.hooks) \subseteq loaded \cup Range(sym_to_mod) \cup {NoName}
      BY <2>2, <3>2 DEF Range
    <3>4. /\ snap'.listing = snap.listing /\ snap'.ftrace = snap.ftrace
          /\ snap'.kallsyms = snap.kallsyms
          /\ snap'.available = snap.available /\ snap'.regions = snap.regions
      BY <2>2
    <3> QED
      BY <2>0, <3>3, <3>4
  <2> HIDE DEF History
  <2> QED
    BY <1>6, <2>1, <2>2 DEF ReadEnabledFunctions
<1>7. CASE ReadKprobes
  BY <1>7 DEF ReadKprobes, Abort
<1>8. CASE Analyze
  BY <1>8 DEF Analyze
<1> QED
  BY <1>1, <1>2, <1>3, <1>4, <1>5, <1>6, <1>7, <1>8 DEF CaptureStep

\* What the reads say stays true however the kernel changes after them.
THEOREM HistoryInvariance == Spec => [](IInv /\ History)
<1>1. IInv /\ History /\ [Next]_vars => History'
  <2> SUFFICES ASSUME IInv, History, [Next]_vars PROVE History'
    OBVIOUS
  <2>1. CASE UNCHANGED vars
    BY <2>1 DEF vars, kernelVars, captureVars, History, ListingTrue, ChannelsTrue,
            NotesAreOfSnapshot, Known, HasOwnSymbol, count_module_regions
  <2> QED
    BY <2>1, KernelStepHistory, CaptureStepHistory DEF Next, Terminated
<1> QED
  BY <1>1, InitHistory, Invariance, PTL DEF Spec

-----------------------------------------------------------------------------
(* Who is reported as what *)

\* Every module signal, by the detector that raises it.
LEMMA ModuleSignalExplained ==
    ASSUME NEW s, NEW b, NEW x \in ModuleSignals(s, b)
    PROVE  \/ x.channel \in {"taint", "vmalloc_region"} /\ x.suspect = Anonymous
           \/ /\ x.channel = "ftrace_orphan" /\ "ftrace" \in s.available
              /\ \E m \in s.ftrace \ ModuleIds(s) : x.suspect = Module(m)
           \/ /\ x.channel = "unexpected_hook"
              /\ \E m \in Range(s.hooks) \ ModuleIds(s) : m # NoName /\ x.suspect = Module(m)
           \/ /\ x.channel = "over_listed" /\ CanCorroborate(s)
              /\ \E m \in Uncorroborated(s) : x.suspect = Module(m)
           \/ /\ x.channel = "baseline_drift"
              /\ \E m \in ModuleIds(s) : x.suspect = Module(m)
<1> USE DEF Signal
<1>1. CASE x \in signals_modules(s)
  <2>1. \/ \E bits : x = Signal("taint", Anonymous, bits)
        \/ x = Signal("vmalloc_region", Anonymous, {})
        \/ /\ "ftrace" \in s.available
           /\ \E m \in s.ftrace \ ModuleIds(s) : x = Signal("ftrace_orphan", Module(m), {})
    BY <1>1, Zenon DEF signals_modules
  <2> QED
    BY <2>1
<1>2. CASE x \in signals_hooks(s)
  <2>1. PICK f \in DOMAIN s.hooks : /\ s.hooks[f] # NoName /\ s.hooks[f] \notin ModuleIds(s)
                                    /\ x = Signal("unexpected_hook", Module(s.hooks[f]), {f})
    BY <1>2 DEF signals_hooks
  <2> QED
    BY <2>1 DEF Range
<1>3. CASE x \in signals_over_listed(s)
  BY <1>3 DEF signals_over_listed
<1>4. ASSUME NEW y \in b, x \in signals_baseline(s, y)
      PROVE  x.channel = "baseline_drift" /\ \E m \in ModuleIds(s) : x.suspect = Module(m)
  BY <1>4 DEF signals_baseline
<1> QED
  BY <1>1, <1>2, <1>3, <1>4 DEF ModuleSignals

\* A channel that names a hidden module names one of its own, not in the listing.
LEMMA NamingSignalExplained ==
    ASSUME NEW s, NEW b, NEW x \in ModuleSignals(s, b), x.channel \in HIDING_NAMED
    PROVE  x.suspect.name \in (s.ftrace \cup (Range(s.hooks) \ {NoName})) \ ModuleIds(s)
<1>1. \A m : Module(m).name = m
  BY DEF Module
<1>2. \/ \E m \in s.ftrace \ ModuleIds(s) : x.suspect = Module(m)
      \/ \E m \in Range(s.hooks) \ ModuleIds(s) : m # NoName /\ x.suspect = Module(m)
  BY ModuleSignalExplained DEF HIDING_NAMED
<1> QED
  BY <1>1, <1>2

\* The over-listed channel names a listed module the other two do not know.
LEMMA OverListedExplained ==
    ASSUME NEW s, NEW b, NEW x \in ModuleSignals(s, b), x.channel = "over_listed"
    PROVE  CanCorroborate(s) /\ x.suspect.name \in Uncorroborated(s)
<1>1. \A m : Module(m).name = m
  BY DEF Module
<1>2. CanCorroborate(s) /\ \E m \in Uncorroborated(s) : x.suspect = Module(m)
  BY ModuleSignalExplained
<1> QED
  BY <1>1, <1>2

\* The signals the theorems below need to be there.
LEMMA OrphanRaised ==
    ASSUME NEW s, NEW b, {"procfs.modules", "kernel.module_evidence"} \subseteq s.present,
           "ftrace" \in s.available, NEW m \in s.ftrace \ ModuleIds(s)
    PROVE  Signal("ftrace_orphan", Module(m), {}) \in ModuleSignals(s, b)
BY DEF ModuleSignals, signals_modules

\* The region channel speaks when there are more regions than listed modules, ...
LEMMA RegionRaised ==
    ASSUME NEW s, NEW b, {"procfs.modules", "kernel.module_evidence"} \subseteq s.present,
           RegionExcess(s)
    PROVE  Signal("vmalloc_region", Anonymous, {}) \in ModuleSignals(s, b)
BY DEF ModuleSignals, signals_modules

\* ... and then only.
LEMMA RegionSignalExplained ==
    ASSUME NEW s, NEW b, NEW x \in ModuleSignals(s, b), x.channel = "vmalloc_region"
    PROVE  RegionExcess(s)
<1>1. x \in signals_modules(s)
  BY DEF ModuleSignals, signals_hooks, signals_over_listed, signals_baseline, Signal
<1>2. \/ \E bits : x = Signal("taint", Anonymous, bits)
      \/ x = Signal("vmalloc_region", Anonymous, {}) /\ RegionExcess(s)
      \/ \E m \in s.ftrace \ ModuleIds(s) : x = Signal("ftrace_orphan", Module(m), {})
  BY <1>1, Zenon DEF signals_modules
<1> QED
  BY <1>2 DEF Signal

\* A listed module no channel corroborates is spoken of, unless none is corroborated.
LEMMA OverListedRaised ==
    ASSUME NEW s, NEW b, CanCorroborate(s), ~NothingCorroborated(s), NEW m \in Uncorroborated(s)
    PROVE  Signal("over_listed", Module(m), {}) \in ModuleSignals(s, b)
BY DEF ModuleSignals, signals_over_listed

\* What a finished capture reports, and what the listing in it is.
LEMMA Finished ==
    ASSUME IInv, phase = "done"
    PROVE  /\ findings = score(ModuleSignals(snap, base))
           /\ ModuleIds(snap) = DOMAIN snap.listing
           /\ {"procfs.modules", "kernel.module_evidence"} \subseteq snap.present
           /\ NoName \notin ModuleIds(snap)
           /\ NoName \notin Modules \cup Phantoms
BY ModulesAssumption
DEF IInv, FindingsAreOfSnapshot, TypeOK, ToolVersions, Collectors, ModuleIds, Names

\* A finding about a module that a signal names is of the kind its channels say.
LEMMA NamedModuleFinding ==
    ASSUME NEW s, NEW b, NoName \notin ModuleIds(s), NEW x \in ModuleSignals(s, b),
           NEW m, x.suspect = Module(m), m # NoName
    PROVE  \E f \in score(ModuleSignals(s, b)) :
               /\ f.suspect = Module(m)
               /\ x.channel \in f.channels
               /\ x.channel \in HIDING => f.kind = "hidden_module"
               /\ x.channel = "over_listed" => f.kind = "over_listed_module"
<1> DEFINE S == ModuleSignals(s, b)
           f == Compose(Module(m), Group(S, Module(m)), {})
<1>1. x \in Named(S) /\ x \in Group(S, Module(m))
  BY DEF Named, Group, Module
<1>2. f \in score(S)
  BY <1>1 DEF score
<1>3. f.suspect = Module(m) /\ f.channels = Channels(Group(S, Module(m)))
      /\ f.kind = Classify(Module(m), f.channels)
  BY DEF Compose
<1>4. x.channel \in f.channels
  BY <1>1, <1>3 DEF Channels
<1>5. f.kind = IF f.channels \cap HIDING # {} THEN "hidden_module"
               ELSE IF "over_listed" \in f.channels THEN "over_listed_module"
               ELSE "baseline_drift"
  BY <1>3 DEF Classify, Module
<1>6. f.channels \subseteq HIDING \/ f.channels \subseteq ListedChannels
  BY <1>2, OneSide
<1>7. x.channel = "over_listed" => f.channels \cap HIDING = {}
  BY <1>4, <1>6 DEF HIDING, ListedChannels
<1> HIDE DEF f
<1> QED
  BY <1>2, <1>3, <1>4, <1>5, <1>7

\* A finding of these kinds about a module goes back to a signal that names it.
LEMMA ModuleFindingExplained ==
    ASSUME NEW s, NEW b, NoName \notin ModuleIds(s), NEW f \in score(ModuleSignals(s, b)),
           f.kind \in {"hidden_module", "over_listed_module"}
    PROVE  /\ f.kind = "hidden_module" =>
                 \E x \in ModuleSignals(s, b) :
                     x.suspect.name = f.suspect.name /\ x.channel \in HIDING_NAMED
           /\ f.kind = "over_listed_module" =>
                 \E x \in ModuleSignals(s, b) :
                     x.suspect.name = f.suspect.name /\ x.channel = "over_listed"
<1> DEFINE S == ModuleSignals(s, b)
<1>1. CASE IsAnonymousFinding(f, S)
  <2>1. f.kind = "suspected_hidden_module"
    BY <1>1 DEF IsAnonymousFinding, Compose, Classify, Anonymous, Module
  <2> QED
    BY <2>1
<1>2. CASE IsNamedFinding(f, S)
  <2>1. PICK y \in Named(S) : f = Compose(y.suspect, Group(S, y.suspect), {})
    BY <1>2 DEF IsNamedFinding
  <2>2. /\ f.suspect = y.suspect /\ f.channels = Channels(Group(S, y.suspect))
        /\ f.kind = Classify(y.suspect, f.channels)
    BY <2>1 DEF Compose
  <2>3. y \in S /\ y.suspect.name # NoName /\ y \in Group(S, y.suspect)
    BY DEF Named, Group
  <2>4. PICK m : y.suspect = Module(m)
    BY <2>3, ModuleSignalExplained DEF Anonymous
  <2>5. /\ f.channels \cap HIDING # {} => f.kind = "hidden_module"
        /\ f.kind = "hidden_module" => f.channels \cap HIDING # {}
        /\ f.kind = "over_listed_module" => "over_listed" \in f.channels
    BY <2>2, <2>3, <2>4 DEF Classify, Module
  <2>6. f.channels \subseteq HIDING \/ f.channels \subseteq ListedChannels
    BY OneSide
  <2>7. y.channel \in f.channels
    BY <2>2, <2>3 DEF Channels
  <2>8. ASSUME f.kind = "hidden_module"
        PROVE  y.channel \in HIDING_NAMED
    <3>1. y.channel \in HIDING
      BY <2>5, <2>6, <2>7, <2>8 DEF HIDING, ListedChannels
    <3> QED
      BY <2>3, <3>1, ModuleSignalExplained DEF HIDING, HIDING_NAMED, Anonymous, Module
  <2>9. ASSUME f.kind = "over_listed_module"
        PROVE  \E x \in S : x.suspect = y.suspect /\ x.channel = "over_listed"
    <3>1. PICK x \in Group(S, y.suspect) : x.channel = "over_listed"
      BY <2>2, <2>5, <2>9 DEF Channels
    <3>2. x \notin Anon(S)
      <4>1. x \in S
        BY DEF Group, Named, Anon
      <4>2. PICK n \in ModuleIds(s) : x.suspect = Module(n)
        BY <3>1, <4>1, ModuleSignalExplained DEF Uncorroborated
      <4> QED
        BY <4>2 DEF Anon, Module
    <3> QED
      BY <3>1, <3>2 DEF Group, Named
  <2> QED
    BY <2>2, <2>3, <2>8, <2>9
<1> QED
  BY <1>1, <1>2, FindingsOfScore

-----------------------------------------------------------------------------
\* On a kernel that did not lie, a module reported as hidden came or went while
\* the capture ran, and so did a vouched one reported as over-listed: one listing
\* read before every other channel is wrong about nothing that stayed put.
THEOREM HonestReportsAreChurn == Spec => []HonestReportIsChurn
<1>1. IInv /\ History => HonestReportIsChurn
  <2> SUFFICES ASSUME IInv, History, phase = "done", unlisted = {}, rows = {}
               PROVE  /\ ReportedAs({"hidden_module"}) \subseteq churned
                      /\ snap.kallsyms # {} =>
                             ReportedAs({"over_listed_module"}) \cap Vouched \subseteq churned
    BY DEF HonestReportIsChurn, Honest
  <2> DEFINE S == ModuleSignals(snap, base)
  <2>0. /\ findings = score(S) /\ ModuleIds(snap) = DOMAIN snap.listing
        /\ NoName \notin ModuleIds(snap)
    BY Finished
  <2>1. /\ snap.ftrace \cup (Range(snap.hooks) \ {NoName}) \subseteq ModuleIds(snap) \cup churned
        /\ ModuleIds(snap) \subseteq loaded \cup churned
    BY <2>0 DEF History, ListingTrue, Known
  <2>2. ASSUME NEW f \in findings, f.kind = "hidden_module" PROVE f.suspect.name \in churned
    <3>1. PICK x \in S : x.suspect.name = f.suspect.name /\ x.channel \in HIDING_NAMED
      BY <2>0, <2>2, ModuleFindingExplained
    <3>2. x.suspect.name \in (snap.ftrace \cup (Range(snap.hooks) \ {NoName})) \ ModuleIds(snap)
      BY <3>1, NamingSignalExplained
    <3> QED
      BY <2>1, <3>1, <3>2
  <2>3. ASSUME NEW f \in findings, f.kind = "over_listed_module", snap.kallsyms # {},
               f.suspect.name \in Vouched
        PROVE  f.suspect.name \in churned
    <3> DEFINE m == f.suspect.name
    <3>1. PICK x \in S : x.suspect.name = m /\ x.channel = "over_listed"
      BY <2>0, <2>3, ModuleFindingExplained
    <3>2. CanCorroborate(snap) /\ m \in Uncorroborated(snap)
      BY <3>1, OverListedExplained
    <3>3. /\ "ftrace" \in snap.available /\ m \in ModuleIds(snap)
          /\ m \notin snap.ftrace /\ m \notin snap.kallsyms
      BY <3>2 DEF CanCorroborate, Uncorroborated
    <3>4. m \in Traceable \/ HasOwnSymbol(m)
      BY <2>3 DEF Vouched
    <3> QED
      BY <2>1, <2>3, <3>3, <3>4 DEF History, ChannelsTrue
  <2> QED
    BY <2>2, <2>3 DEF ReportedAs
<1> QED
  BY <1>1, HistoryInvariance, PTL

\* A module that stayed out of /proc/modules all through the capture is reported
\* as hidden, by name, if ftrace could be read and has records of it.
THEOREM HiddenModulesAreNamed == Spec => []HiddenIsNamed
<1>1. IInv /\ History => HiddenIsNamed
  <2> SUFFICES ASSUME IInv, History, phase = "done", "ftrace" \in snap.available,
                      NEW m \in (unlisted \cap Traceable) \ churned
               PROVE  m \in ReportedAs({"hidden_module"})
    BY DEF HiddenIsNamed
  <2> DEFINE x == Signal("ftrace_orphan", Module(m), {})
  <2>0. /\ findings = score(ModuleSignals(snap, base)) /\ ModuleIds(snap) = DOMAIN snap.listing
        /\ {"procfs.modules", "kernel.module_evidence"} \subseteq snap.present
        /\ NoName \notin ModuleIds(snap) /\ NoName \notin Modules
    BY Finished
  <2>1. m \in loaded /\ m \in Modules /\ m # NoName
    BY <2>0 DEF IInv, TypeOK, KernelTypeOK
  <2>2. m \in snap.ftrace \ ModuleIds(snap)
    BY <2>0, <2>1 DEF History, ListingTrue, ChannelsTrue
  <2>3. x \in ModuleSignals(snap, base)
    BY <2>0, <2>2, OrphanRaised
  <2>4. x.suspect = Module(m) /\ x.channel = "ftrace_orphan" /\ x.channel \in HIDING
    BY DEF Signal, HIDING
  <2>5. PICK f \in findings : f.suspect = Module(m) /\ f.kind = "hidden_module"
    BY <2>0, <2>1, <2>3, <2>4, NamedModuleFinding
  <2> QED
    BY <2>5 DEF ReportedAs, Module
<1> QED
  BY <1>1, HistoryInvariance, PTL

\* With one hidden traceable module and nothing else going on, the anonymous
\* signals go to it (score's attribution): there is no unattributed finding.
THEOREM LoneHiddenTakesAllEvidence == Spec => []LoneHiddenModuleTakesAllEvidence
<1>1. IInv /\ History => LoneHiddenModuleTakesAllEvidence
  <2> SUFFICES ASSUME IInv, History, phase = "done", churned = {}, "ftrace" \in snap.available,
                      NEW m \in Traceable, unlisted = {m}, NEW f \in findings,
                      f.kind = "suspected_hidden_module"
               PROVE  FALSE
    BY DEF LoneHiddenModuleTakesAllEvidence, ReportedAs
  <2> DEFINE S == ModuleSignals(snap, base)
             x == Signal("ftrace_orphan", Module(m), {})
  <2>0. /\ findings = score(S) /\ ModuleIds(snap) = DOMAIN snap.listing
        /\ {"procfs.modules", "kernel.module_evidence"} \subseteq snap.present
        /\ NoName \notin ModuleIds(snap) /\ NoName \notin Modules
    BY Finished
  <2>1. m \in snap.ftrace \ ModuleIds(snap) /\ m # NoName
    BY <2>0 DEF IInv, TypeOK, KernelTypeOK, History, ListingTrue, ChannelsTrue
  <2>2. m \in HiddenNamed(S)
    <3>1. x \in S
      BY <2>0, <2>1, OrphanRaised
    <3>2. /\ x.suspect.kind = "module" /\ x.suspect.name = m
          /\ x.channel \in HIDING_NAMED
      BY DEF Signal, Module, HIDING_NAMED
    <3> QED
      BY <2>1, <3>1, <3>2 DEF HiddenNamed, Named
  <2>3. ASSUME NEW n \in HiddenNamed(S) PROVE n = m
    <3>1. PICK y \in S : y.suspect.name = n /\ y.channel \in HIDING_NAMED
      BY DEF HiddenNamed, Named
    <3>2. n \in (snap.ftrace \cup (Range(snap.hooks) \ {NoName})) \ ModuleIds(snap)
      BY <3>1, NamingSignalExplained
    <3> QED
      BY <2>0, <3>2 DEF History, ListingTrue, Known
  <2>4. Unattributed(S) = {}
    BY <2>2, <2>3 DEF Unattributed, Attributable
  <2>5. PICK y \in Named(S) : f = Compose(y.suspect, Group(S, y.suspect), {})
    BY <2>0, <2>4, FindingsOfScore DEF IsNamedFinding, IsAnonymousFinding
  <2>6. f.kind = Classify(y.suspect, f.channels) /\ y.suspect.name # NoName
    BY <2>5 DEF Compose, Named
  <2> QED
    BY <2>6 DEF Classify
<1> QED
  BY <1>1, HistoryInvariance, PTL

\* A made-up row never passes in silence once both corroborating channels were
\* read: it is reported as over-listed, or the note says they corroborated
\* nothing (signals_over_listed and channel_notes between them).
THEOREM PhantomsAreSurfaced == Spec => []PhantomIsSurfaced
<1>1. IInv /\ History => PhantomIsSurfaced
  <2> SUFFICES ASSUME IInv, History, phase = "done", snap.present = Collectors,
                      {"ftrace", "kallsyms"} \subseteq snap.available,
                      Note("over_listed", "uncorroborated") \notin notes,
                      NEW m \in DOMAIN snap.listing \cap Phantoms
               PROVE  m \in ReportedAs({"over_listed_module"})
    BY DEF PhantomIsSurfaced
  <2> DEFINE x == Signal("over_listed", Module(m), {})
  <2>0. /\ findings = score(ModuleSignals(snap, base)) /\ ModuleIds(snap) = DOMAIN snap.listing
        /\ NoName \notin ModuleIds(snap)
    BY Finished
  <2>1. CanCorroborate(snap)
    BY DEF CanCorroborate, Collectors
  <2>2. ~NothingCorroborated(snap)
    BY <2>1 DEF History, NotesAreOfSnapshot, channel_notes
  <2>3. m \in Uncorroborated(snap)
    BY <2>0, ModulesAssumption DEF Uncorroborated, IInv, TypeOK
  <2>4. x \in ModuleSignals(snap, base)
    BY <2>1, <2>2, <2>3, OverListedRaised
  <2>5. x.suspect = Module(m) /\ x.channel = "over_listed"
    BY DEF Signal
  <2>6. PICK f \in findings : f.suspect = Module(m) /\ f.kind = "over_listed_module"
    BY <2>0, <2>4, <2>5, NamedModuleFinding
  <2> QED
    BY <2>6 DEF ReportedAs, Module
<1> QED
  BY <1>1, HistoryInvariance, PTL

\* Losing a channel never makes a module a suspect: a channel that could not be
\* read is skipped by every detector, not read as dissent.
THEOREM UnreadableNeverAccuses == Spec => []UnreadableAccusesNoOne
<1>1. IInv => UnreadableAccusesNoOne
  <2> SUFFICES ASSUME IInv, phase = "done", NEW c \in snap.available,
                      NEW x \in ModuleSignals(Without(snap, c), base), x.suspect.name # NoName
               PROVE  x \in ModuleSignals(snap, base)
    BY DEF UnreadableAccusesNoOne, AccusedIn, Named
  <2> DEFINE w == Without(snap, c)
  <2>1. /\ w.present = snap.present /\ w.listing = snap.listing /\ w.hooks = snap.hooks
        /\ w.available = snap.available \ {c}
        /\ c # "ftrace" => w.ftrace = snap.ftrace
        /\ c # "kallsyms" => w.kallsyms = snap.kallsyms
    BY DEF Without, IInv, SnapshotFields
  <2>2. ModuleIds(w) = ModuleIds(snap)
    BY <2>1 DEF ModuleIds
  <2> HIDE DEF w
  <2>3. CASE x \in signals_modules(w)
    <3>1. /\ {"procfs.modules", "kernel.module_evidence"} \subseteq w.present
          /\ \/ \E bits : x = Signal("taint", Anonymous, bits)
             \/ x = Signal("vmalloc_region", Anonymous, {})
             \/ /\ "ftrace" \in w.available
                /\ \E m \in w.ftrace \ ModuleIds(w) : x = Signal("ftrace_orphan", Module(m), {})
      BY <2>3, Zenon DEF signals_modules
    <3>2. PICK m \in w.ftrace \ ModuleIds(w) : /\ "ftrace" \in w.available
                                               /\ x = Signal("ftrace_orphan", Module(m), {})
      BY <3>1 DEF Signal, Anonymous, Module
    <3> QED
      BY <2>1, <2>2, <3>1, <3>2, OrphanRaised
  <2>4. CASE x \in signals_hooks(w)
    <3>1. x \in signals_hooks(snap)
      BY <2>1, <2>2, <2>4 DEF signals_hooks
    <3> QED
      BY <3>1 DEF ModuleSignals
  <2>5. CASE x \in signals_over_listed(w)
    <3>1. CanCorroborate(w) /\ ~NothingCorroborated(w)
      BY <2>5 DEF signals_over_listed
    <3>2. CanCorroborate(snap) /\ Uncorroborated(w) = Uncorroborated(snap)
      BY <2>1, <2>2, <3>1 DEF CanCorroborate, Uncorroborated
    <3>3. ~NothingCorroborated(snap)
      BY <2>2, <3>1, <3>2 DEF NothingCorroborated
    <3>4. PICK m \in Uncorroborated(w) : x = Signal("over_listed", Module(m), {})
      BY <2>5 DEF signals_over_listed
    <3> QED
      BY <3>2, <3>3, <3>4, OverListedRaised
  <2>6. ASSUME NEW y \in base, x \in signals_baseline(w, y)
        PROVE  x \in ModuleSignals(snap, base)
    <3>1. x \in signals_baseline(snap, y)
      BY <2>2, <2>6 DEF signals_baseline
    <3> QED
      BY <3>1 DEF ModuleSignals
  <2> QED
    BY <2>3, <2>4, <2>5, <2>6 DEF ModuleSignals, w
<1> QED
  BY <1>1, Invariance, PTL

-----------------------------------------------------------------------------
(* The region count *)

RegionsIn(M) == UNION {RegionsOf[m] : m \in M}

\* Modules with at most one region each have at most as many regions as there
\* are modules.
LEMMA FewRegions ==
    ASSUME NEW M \in SUBSET Modules, \A m \in M : Cardinality(RegionsOf[m]) <= 1
    PROVE  Cardinality(RegionsIn(M)) <= Cardinality(M)
<1>1. IsFiniteSet(M) /\ \A m \in M : IsFiniteSet(RegionsOf[m])
  BY ModulesAssumption, FS_Subset
<1>2. ASSUME NEW m \in M, NEW q \in RegionsOf[m], NEW r \in RegionsOf[m] PROVE q = r
  <2>1. Cardinality(RegionsOf[m]) \in Nat /\ Cardinality(RegionsOf[m]) # 0
    BY <1>1, FS_CardinalityType, FS_EmptySet
  <2>2. Cardinality(RegionsOf[m]) = 1
    BY <2>1
  <2>3. PICK z : RegionsOf[m] = {z}
    BY <1>1, <2>2, FS_Singleton
  <2> QED
    BY <2>3
<1> DEFINE owner == [r \in RegionsIn(M) |-> CHOOSE m \in M : r \in RegionsOf[m]]
<1>3. \A r \in RegionsIn(M) : owner[r] \in M /\ r \in RegionsOf[owner[r]]
  BY DEF RegionsIn
<1>4. owner \in [RegionsIn(M) -> M]
  BY <1>3
<1>5. \A q, r \in RegionsIn(M) : owner[q] = owner[r] => q = r
  BY <1>2, <1>3
<1> HIDE DEF owner
<1>6. owner \in Injection(RegionsIn(M), M)
  BY <1>4, <1>5 DEF Injection, IsInjective
<1> QED
  BY <1>1, <1>6, FS_Injection

\* Modules with a region each have at least as many regions, since no two
\* modules share one.
LEMMA ManyRegions ==
    ASSUME NEW M \in SUBSET Modules, \A m \in M : RegionsOf[m] # {}
    PROVE  Cardinality(M) <= Cardinality(RegionsIn(M))
<1>1. RegionsIn(M) \subseteq Regions /\ IsFiniteSet(Regions)
  BY ModulesAssumption DEF RegionsIn
<1>2. IsFiniteSet(RegionsIn(M))
  BY <1>1, FS_Subset
<1> DEFINE line == [m \in M |-> CHOOSE r \in RegionsOf[m] : TRUE]
<1>3. \A m \in M : line[m] \in RegionsOf[m]
  OBVIOUS
<1>4. line \in [M -> RegionsIn(M)]
  BY <1>3 DEF RegionsIn
<1>5. \A m, n \in M : line[m] = line[n] => m = n
  BY <1>3, ModulesAssumption
<1> HIDE DEF line
<1>6. line \in Injection(M, RegionsIn(M))
  BY <1>4, <1>5 DEF Injection, IsInjective
<1> QED
  BY <1>2, <1>6, FS_Injection

\* The region channel is in some finding exactly when its signal was raised.
LEMMA RegionReported ==
    ASSUME IInv, phase = "done"
    PROVE  RegionExcessReported <=> RegionExcess(snap)
<1> DEFINE S == ModuleSignals(snap, base)
           x == Signal("vmalloc_region", Anonymous, {})
<1>0. /\ findings = score(S) /\ NoName \notin ModuleIds(snap)
      /\ {"procfs.modules", "kernel.module_evidence"} \subseteq snap.present
  BY Finished
<1>c. \A f \in score(S) : f.channels = {y.channel : y \in f.evidence} /\ f.evidence \subseteq S
  <2>1. \A u, sigs, cs : /\ Compose(u, sigs, cs).channels = {y.channel : y \in sigs}
                         /\ Compose(u, sigs, cs).evidence = sigs
    BY DEF Compose, Channels
  <2>2. Unattributed(S) \subseteq S /\ \A u : Group(S, u) \subseteq S
    BY DEF Unattributed, Group, Named, Anon
  <2> QED
    BY <2>1, <2>2, FindingsOfScore DEF IsNamedFinding, IsAnonymousFinding
<1>1. ASSUME RegionExcess(snap) PROVE RegionExcessReported
  <2>1. x \in S
    BY <1>0, <1>1, RegionRaised
  <2>2. \A y \in S : Suspect(y.suspect)
    BY <1>0, ChannelSides
  <2>3. PICK f \in score(S) : x \in f.evidence
    BY <2>1, <2>2, ScoreConservesEvidence
  <2>4. x.channel = "vmalloc_region"
    BY DEF Signal
  <2> QED
    BY <1>0, <1>c, <2>3, <2>4 DEF RegionExcessReported
<1>2. ASSUME RegionExcessReported PROVE RegionExcess(snap)
  <2>1. PICK y \in S : y.channel = "vmalloc_region"
    BY <1>0, <1>2, <1>c DEF RegionExcessReported
  <2> QED
    BY <1>0, <2>1, RegionSignalExplained
<1> QED
  BY <1>1, <1>2

\* On a kernel that did not lie, more load_module regions than rows are evidence
\* only if a module came or went meanwhile, or one has more than one region
\* (count_module_regions counts lines, and the comparison is a strict one).
THEOREM RegionExcessHasCause == Spec => []RegionExcessNeedsCause
<1>1. IInv /\ History => RegionExcessNeedsCause
  <2> SUFFICES ASSUME IInv, History, phase = "done", unlisted = {}, rows = {},
                      RegionExcess(snap), churned = {},
                      \A m \in loaded : ~(Cardinality(RegionsOf[m]) > 1)
               PROVE  FALSE
    BY RegionReported DEF RegionExcessNeedsCause, Honest
  <2>1. ModuleIds(snap) = loaded /\ loaded \in SUBSET Modules
    BY Finished DEF History, ListingTrue, Known, IInv, TypeOK, KernelTypeOK
  <2>2. \A m \in loaded : Cardinality(RegionsOf[m]) \in Nat
    BY <2>1, ModulesAssumption, FS_Subset, FS_CardinalityType
  <2>3. Cardinality(RegionsIn(loaded)) <= Cardinality(loaded)
    BY <2>1, <2>2, FewRegions
  <2>4. snap.regions = Cardinality(RegionsIn(loaded)) /\ snap.regions > Cardinality(loaded)
    BY <2>1 DEF History, ChannelsTrue, RegionExcess, count_module_regions, RegionsIn
  <2>5. Cardinality(loaded) \in Nat /\ snap.regions \in Nat
    BY <2>1, ModulesAssumption, FS_Subset, FS_CardinalityType DEF IInv, TypeOK
  <2> QED
    BY <2>3, <2>4, <2>5
<1> QED
  BY <1>1, HistoryInvariance, PTL

\* A module that stayed hidden while nothing else changed is counted, if every
\* loaded module has a region and no made-up row stands in for it.
THEOREM HiddenRegionsAreCounted == Spec => []HiddenRegionIsCounted
<1>1. IInv /\ History => HiddenRegionIsCounted
  <2> SUFFICES ASSUME IInv, History, phase = "done", "vmalloc" \in snap.available, churned = {},
                      unlisted # {}, DOMAIN snap.listing \cap Phantoms = {},
                      \A m \in loaded : RegionsOf[m] # {}
               PROVE  RegionExcess(snap)
    BY RegionReported DEF HiddenRegionIsCounted
  <2>1. /\ loaded \in SUBSET Modules /\ unlisted \subseteq loaded /\ rows \subseteq Phantoms
        /\ snap.regions \in Nat
    BY DEF IInv, TypeOK, KernelTypeOK
  <2>2. /\ ModuleIds(snap) = DOMAIN snap.listing
        /\ DOMAIN snap.listing \subseteq loaded \ unlisted
    BY <2>1, Finished DEF History, ListingTrue
  <2>3. IsFiniteSet(loaded) /\ ModuleIds(snap) \subseteq loaded /\ ModuleIds(snap) # loaded
    BY <2>1, <2>2, ModulesAssumption, FS_Subset
  <2>4. /\ Cardinality(loaded) \in Nat /\ Cardinality(ModuleIds(snap)) \in Nat
        /\ Cardinality(ModuleIds(snap)) < Cardinality(loaded)
    <3>1. /\ IsFiniteSet(ModuleIds(snap)) /\ Cardinality(ModuleIds(snap)) <= Cardinality(loaded)
          /\ Cardinality(ModuleIds(snap)) # Cardinality(loaded)
      BY <2>3, FS_Subset
    <3>2. Cardinality(loaded) \in Nat /\ Cardinality(ModuleIds(snap)) \in Nat
      BY <2>3, <3>1, FS_CardinalityType
    <3> QED
      BY <3>1, <3>2
  <2>5. Cardinality(loaded) <= Cardinality(RegionsIn(loaded))
    BY <2>1, ManyRegions
  <2>6. snap.regions = Cardinality(RegionsIn(loaded))
    BY DEF History, ChannelsTrue, count_module_regions, RegionsIn
  <2>7. snap.regions > Cardinality(ModuleIds(snap))
    BY <2>1, <2>4, <2>5, <2>6
  <2> QED
    BY <2>7 DEF RegionExcess
<1> QED
  BY <1>1, HistoryInvariance, PTL
=============================================================================
