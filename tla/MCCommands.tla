------------------------------ MODULE MCCommands ------------------------------
(* Commands with small snapshots of one host: process 1 is listed, processes 2 *)
(* and 3 of the same name and with a socket each may be found by the sweep     *)
(* alone; module m1 is listed, m2 may be, and a hook may belong to it.         *)
EXTENDS Commands

CONSTANTS
    m1, m2, f1, i1, i2, sshd, worm, here, peer,
    clean, grown, hidden, mute, other, unversioned, sameShape, otherShape, notPids  \* files

\* An entity of the given class: the fields, and anything for the other keys.
Entity(type, fields) ==
    [k \in Required(type) \cup DOMAIN fields |->
        IF k \in DOMAIN fields THEN fields[k] ELSE "any"]

Obs(collector, pass, entities, extra) ==
    [collector |-> collector, pass |-> pass, ids |-> DOMAIN entities,
     entities |-> entities, numeric |-> collector \notin STRING_ID_COLLECTORS,
     extra |-> extra]

Pass(label) ==
    Obs("procfs.processes", label,
        [p \in {1} |-> Entity("ProcessEntity", [cmdline |-> Secret])], NoExtra)

Sweep(ids) ==
    Obs("syscall_sweep.processes", "",
        [t \in ids |-> Entity("SweepEntity", [tgid |-> t, status_readable |-> TRUE,
                                              comm |-> IF t = 1 THEN sshd ELSE worm])],
        NoExtra)

Sockets(ids) ==
    Obs("procfs.sockets", "",
        [i \in {i1, i2} |->
            Entity("SocketEntity",
                   [in_table |-> TRUE, local |-> here, remote |-> IF i = i1 THEN peer ELSE Unset,
                    state |-> IF i = i1 THEN "SYN_SENT" ELSE "LISTEN",
                    owner_pids |-> ids \cap (IF i = i1 THEN {2} ELSE {1, 3})])],
        NoExtra)

Listing(listed) ==
    Obs("procfs.modules", "",
        [m \in listed |-> Entity("ModuleEntity", [taint |-> IF m = m1 THEN {"O"} ELSE {}])],
        NoExtra)

Evidence(known) ==
    Obs("kernel.module_evidence", "", <<>>,
        [NoExtra EXCEPT !.available = {"ftrace"}, !.taint = {12}, !.ftrace = known])

Hooks(known, owner) ==
    Obs("kernel.hooks", "",
        [f \in {f1} |-> Entity("HookEntity", [owner_module |-> owner])],
        [NoExtra EXCEPT !.available = {"kallsyms"}, !.kallsyms = known])

Doc(version, ids, listed, known, owner, more) ==
    [version |-> version,
     observations |-> {Pass("A"), Sweep(ids), Pass("B"), Sockets(ids), Listing(listed),
                       Evidence(known), Hooks(known, owner)} \cup more]

Ours == <<1, 1>>
Clean  == Doc(Ours, {1}, {m1}, {m1}, NoName, {})
Grown  == Doc(Ours, {1}, {m1, m2}, {m1, m2}, NoName, {})
Hidden == Doc(Ours, {1, 2, 3}, {m1}, {m1}, m2, {})
Mute   == Doc(Ours, {1}, {m1}, {}, NoName, {})

\* What a later minor version may add: a process collector of the known shape
\* with a key more, one with other fields, and one that is not about processes.
Added(collector, fields) == Obs(collector, "", [p \in {1, 2} |-> fields], NoExtra)

NewerWith(obs) == [Clean EXCEPT !.version = <<1, 2>>, !.observations = @ \cup {obs}]

SameShape  == NewerWith(Added("netlink.processes",
                          Entity("ProcessEntity", [cmdline |-> Secret, cgroup |-> "any"])))
OtherShape == NewerWith(Added("cgroup.processes", [path |-> "any"]))
NotPids    == NewerWith([Added("kernel.bpf", [path |-> "any"]) EXCEPT !.numeric = FALSE])

MCJson ==
    [f \in {clean, grown, hidden, mute, other, unversioned, sameShape, otherShape,
            notPids} |->
        CASE f = clean       -> Clean
          [] f = grown       -> Grown
          [] f = hidden      -> Hidden
          [] f = mute        -> Mute
          [] f = other       -> [Clean EXCEPT !.version = <<2, 0>>]
          [] f = unversioned -> [Clean EXCEPT !.version = <<>>]
          [] f = sameShape   -> SameShape
          [] f = otherShape  -> OtherShape
          [] f = notPids     -> NotPids]
=============================================================================
