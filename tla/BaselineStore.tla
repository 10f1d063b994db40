---------------------------- MODULE BaselineStore ----------------------------
(***************************************************************************)
(* The two files of a signed baseline and the commands that write them     *)
(* (`kdetect baseline`, write_baseline in src/kdetect/baseline/store.py).  *)
(* A write truncates and fills the .json, signs the bytes, then truncates  *)
(* and fills the .sig; each is a step, and a writer can be killed or fail  *)
(* between any two.  Several commands may write the same path at once, and *)
(* anything else on the host may overwrite either file, but nobody without *)
(* the private key makes a signature.                                      *)
(***************************************************************************)
EXTENDS Documents

CONSTANTS
    Contents,     \* snapshots one may sign, as some version of kdetect writes them
    Keys,         \* key pairs
    Writers,      \* running `kdetect baseline` commands
    Foreign,      \* whether something else may overwrite the files
    MaxSigned,    \* bound: signatures made before the last write begins
    NoFile, Torn  \* no such file; a truncated or half-written one

VARIABLES
    json, sig,    \* the bytes of the two files
    writer,       \* writer -> Idle, or what it writes and where it is
    signed        \* history: <<key, content>> pairs ever signed

storeVars == <<json, sig, writer, signed>>

\* An ed25519 signature: deterministic in key and data, unforgeable.
Signature(k, c) == [key |-> k, data |-> c]
Verifies(k, s, c) == s = Signature(k, c)

ASSUME StoreAssumption ==
    /\ {NoFile, Torn} \cap Contents = {}
    /\ \A k \in Keys, c \in Contents \cup {Torn} : Signature(k, c) \notin {NoFile, Torn}

Signatures == {Signature(k, c) : k \in Keys, c \in Contents}
Idle == [pc |-> "idle"]
Writing == [pc : {"openJson", "writeJson", "sign", "writeSig"}, data : Contents, key : Keys]

StoreTypeOK ==
    /\ json \in Contents \cup {NoFile, Torn}
    /\ sig \in Signatures \cup {NoFile, Torn}
    /\ writer \in [Writers -> Writing \cup {Idle}]
    /\ signed \subseteq Keys \X Contents

StoreInit ==
    /\ json = NoFile
    /\ sig = NoFile
    /\ writer = [w \in Writers |-> Idle]
    /\ signed = {}

Goto(w, pc) == writer' = [writer EXCEPT ![w].pc = pc]

\* cmd_baseline has its snapshot and its key.
BeginWrite(w, c, k) ==
    /\ writer[w] = Idle
    /\ Cardinality(signed) < MaxSigned
    /\ writer' = [writer EXCEPT ![w] = [pc |-> "openJson", data |-> c, key |-> k]]
    /\ UNCHANGED <<json, sig, signed>>

OpenJson(w) ==
    /\ writer[w].pc = "openJson"
    /\ json' = Torn
    /\ Goto(w, "writeJson")
    /\ UNCHANGED <<sig, signed>>

\* Nobody else writes, so that what w writes is what the file holds.  Two writes of
\* one file start at the same place, and the longer one may leave a tail.
Alone(w) == Writers = {w} /\ ~Foreign

WriteJson(w) ==
    /\ writer[w].pc = "writeJson"
    /\ json' \in {writer[w].data} \cup IF Alone(w) THEN {} ELSE {Torn}
    /\ Goto(w, "sign")
    /\ UNCHANGED <<sig, signed>>

\* The signature is computed before its file is opened.
SignAndOpenSig(w) ==
    /\ writer[w].pc = "sign"
    /\ signed' = signed \cup {<<writer[w].key, writer[w].data>>}
    /\ sig' = Torn
    /\ Goto(w, "writeSig")
    /\ UNCHANGED json

\* Signatures are of one length, so only other bytes can leave a tail.
WriteSig(w) ==
    /\ writer[w].pc = "writeSig"
    /\ sig' \in {Signature(writer[w].key, writer[w].data)} \cup IF Foreign THEN {Torn} ELSE {}
    /\ writer' = [writer EXCEPT ![w] = Idle]
    /\ UNCHANGED <<json, signed>>

\* The command is killed, or a write raises OSError.
AbortWrite(w) ==
    /\ writer[w] # Idle
    /\ writer' = [writer EXCEPT ![w] = Idle]
    /\ UNCHANGED <<json, sig, signed>>

\* Someone else rewrites a file: any bytes, but only signatures that were made.
ForeignWrite ==
    /\ Foreign
    /\ \/ json' \in Contents \cup {NoFile, Torn} /\ UNCHANGED sig
       \/ sig' \in {Signature(x[1], x[2]) : x \in signed} \cup {NoFile, Torn} /\ UNCHANGED json
    /\ UNCHANGED <<writer, signed>>

StoreNext ==
    \/ \E w \in Writers :
          \/ \E c \in Contents, k \in Keys : BeginWrite(w, c, k)
          \/ OpenJson(w) \/ WriteJson(w) \/ SignAndOpenSig(w) \/ WriteSig(w)
          \/ AbortWrite(w)
    \/ ForeignWrite
=============================================================================
