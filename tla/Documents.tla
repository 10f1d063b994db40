------------------------------ MODULE Documents ------------------------------
(***************************************************************************)
(* Snapshot documents and how this build reads them (src/kdetect/models.py *)
(* and src/kdetect/reporting/redact.py).                                   *)
(*                                                                         *)
(* A document d is the parsed JSON of a snapshot:                          *)
(*   d.version       the numbers of its schema_version, <<>> without one   *)
(*   d.observations  the set of its observations, each                     *)
(*       [collector, pass, ids, entities, numeric, extra]                  *)
(* entities maps a key to a JSON object, which is a function from the      *)
(* object's keys to values; numeric says whether the keys of entities are  *)
(* decimal numbers; extra is what stats and extra hold of a kernel view.   *)
(* The metadata of host, capture and observation are there as some build   *)
(* wrote them; only the entities of a document may be strange to this one. *)
(***************************************************************************)
EXTENDS Reporting, Functions, Sequences

CONSTANTS
    Json,                  \* the bytes of a file -> the document json.loads makes of them
    OurMajor, OurMinor,    \* SCHEMA_VERSION
    Secret, Placeholder    \* a command line, and what redaction puts in its place

\* The parts of a document this build looks at are there.
ASSUME DocumentAssumption ==
    \A f \in DOMAIN Json :
        /\ {"version", "observations"} \subseteq DOMAIN Json[f]
        /\ \A o \in Json[f].observations :
              {"collector", "pass", "ids", "entities", "numeric", "extra"} \subseteq DOMAIN o

\* _ENTITY_TYPES.  A collector this build does not know is taken to store processes.
EntityType(collector) ==
    CASE collector = "syscall_sweep.processes" -> "SweepEntity"
      [] collector = "procfs.modules"          -> "ModuleEntity"
      [] collector = "kernel.module_evidence"  -> "None"
      [] collector = "kernel.hooks"            -> "HookEntity"
      [] collector = "procfs.sockets"          -> "SocketEntity"
      [] OTHER                                 -> "ProcessEntity"

STRING_ID_COLLECTORS == {"procfs.modules", "kernel.hooks", "procfs.sockets"}

\* The keys the from_dict of each entity class looks up, and the one it can miss.
ProcessKeys ==
    {"pid", "ppid", "comm", "state", "flags", "num_threads", "starttime_ticks",
     "cmdline", "exe", "uid", "gid", "partial"}

SweepKeys == {"tgid", "status_readable"}

ModuleKeys == {"name", "size", "refcount", "dependents", "state", "base_addr", "taint"}

HookKeys == {"function", "hook_type", "callback", "owner_module"}

SocketKeys == {"inode", "kind", "state", "local", "remote", "uid", "in_table", "owner_pids"}

Required(type) ==
    CASE type = "ProcessEntity" -> ProcessKeys
      [] type = "SweepEntity"   -> SweepKeys
      [] type = "ModuleEntity"  -> ModuleKeys
      [] type = "HookEntity"    -> HookKeys
      [] type = "SocketEntity"  -> SocketKeys

Optional(type) == IF type = "SweepEntity" THEN {"comm"} ELSE {}

-----------------------------------------------------------------------------
(* Snapshot.from_dict *)

\* _check_schema_version.  A newer minor version only prints a warning.
Compatible(d) == Len(d.version) = 2 /\ d.version[1] = OurMajor

Newer(d) == Compatible(d) /\ d.version[2] > OurMinor

\* What Observation.from_dict raises: a key that is no number, a field that is
\* not there.  An observation without entity class keeps no entities.
ObservationErrors(o) ==
    IF EntityType(o.collector) = "None" \/ DOMAIN o.entities = {} THEN {}
    ELSE IF o.collector \notin STRING_ID_COLLECTORS /\ ~o.numeric THEN {"ValueError"}
    ELSE IF \E k \in DOMAIN o.entities :
               ~(Required(EntityType(o.collector)) \subseteq DOMAIN o.entities[k])
         THEN {"KeyError"}
    ELSE {}

\* The exceptions loading d can end with; with several, the first observation
\* that raises decides.
Errors(d) ==
    IF ~Compatible(d) THEN {"IncompatibleSnapshot"}
    ELSE UNION {ObservationErrors(o) : o \in d.observations}

Loads(d) == Errors(d) = {}

ErrorsOf == [f \in DOMAIN Json |-> Errors(Json[f])]
Loadable == {f \in DOMAIN Json : Loads(Json[f])}

\* Keys the entity class does not know are dropped.
ObservationFromDict(o) ==
    LET type == EntityType(o.collector)
        kept(e) == Restrict(e, DOMAIN e \cap (Required(type) \cup Optional(type)))
    IN  [o EXCEPT !.entities =
            IF type = "None" THEN <<>> ELSE [k \in DOMAIN o.entities |-> kept(o.entities[k])]]

FromDict(d) ==
    [d EXCEPT !.observations = {ObservationFromDict(o) : o \in d.observations}]

-----------------------------------------------------------------------------
(* What the detectors read of a loaded document *)

NoExtra == [available |-> {}, taint |-> {}, regions |-> 0, ftrace |-> {}, kallsyms |-> {}]

Observations(d, collector) == {o \in d.observations : o.collector = collector}

\* obs[0], or an empty observation the detectors will not look at.
TheObservation(d, collector) ==
    IF Observations(d, collector) # {} THEN CHOOSE o \in Observations(d, collector) : TRUE
    ELSE [collector |-> collector, pass |-> "", ids |-> {}, entities |-> <<>>,
          numeric |-> TRUE, extra |-> NoExtra]

\* One field of every entity of an observation.
Column(o, field) == [k \in o.ids |-> o.entities[k][field]]

SnapshotOf(d) ==
    LET sweep    == TheObservation(d, "syscall_sweep.processes")
        sockets  == TheObservation(d, "procfs.sockets")
        evidence == TheObservation(d, "kernel.module_evidence")
        hooks    == TheObservation(d, "kernel.hooks")
        modules  == TheObservation(d, "procfs.modules")
        passes   == Observations(d, "procfs.processes")
        inTable  == {k \in sockets.ids : sockets.entities[k]["in_table"]}
    IN  [present   |-> {o.collector : o \in d.observations},
         passes    |-> [p \in {o.pass : o \in passes} |->
                            UNION {o.ids : o \in {x \in passes : x.pass = p}}],
         sweep     |-> [ids      |-> sweep.ids,
                        tgid     |-> Column(sweep, "tgid"),
                        readable |-> {t \in sweep.ids : sweep.entities[t]["status_readable"]},
                        comm     |-> [t \in sweep.ids |->
                                         IF "comm" \in DOMAIN sweep.entities[t]
                                         THEN sweep.entities[t]["comm"] ELSE NoName]],
         sockets   |-> [k \in inTable |-> sockets.entities[k]["owner_pids"]],
         socketRows |-> [k \in inTable |-> sockets.entities[k]],
         listing   |-> Column(modules, "taint"),
         available |-> evidence.extra.available \cup hooks.extra.available,
         taint     |-> evidence.extra.taint,
         regions   |-> evidence.extra.regions,
         ftrace    |-> evidence.extra.ftrace,
         kallsyms  |-> hooks.extra.kallsyms,
         hooks     |-> Column(hooks, "owner_module")]

Loaded == [f \in Loadable |-> SnapshotOf(FromDict(Json[f]))]

-----------------------------------------------------------------------------
(* redact_snapshot *)

RedactEntity(e) ==
    [k \in DOMAIN e |-> IF k = "cmdline" THEN Placeholder ELSE e[k]]

redact_snapshot_FirstPass(d) ==
    [d EXCEPT !.observations =
        {IF o.pass = "B" THEN o
         ELSE [o EXCEPT !.entities = [k \in DOMAIN @ |-> RedactEntity(@[k])]] :
            o \in d.observations}]

redact_snapshot(d) ==
    [d EXCEPT !.observations =
        {[o EXCEPT !.entities = [k \in DOMAIN @ |-> RedactEntity(@[k])]] :
            o \in d.observations}]

\* The command lines a document still holds.
CommandLines(d) ==
    UNION {{e["cmdline"] : e \in {x \in Range(o.entities) : "cmdline" \in DOMAIN x}} :
              o \in d.observations}
=============================================================================
