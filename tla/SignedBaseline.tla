---------------------------- MODULE SignedBaseline ----------------------------
(***************************************************************************)
(* What the signed baseline promises a command that compares with it       *)
(* (src/kdetect/baseline/store.py): the command goes on with a snapshot    *)
(* that was signed with the private half of the key it verifies with, or   *)
(* it is refused.  Nothing is said of files, of their order of writing, or *)
(* of what else happens to them.                                           *)
(***************************************************************************)
CONSTANTS Contents, Keys, Pending, Refused

VARIABLES
    signed,       \* <<key, content>> pairs ever signed
    verifyKey,    \* the key the command verifies with
    answer        \* Pending, Refused, or the content the command goes on with

vars == <<signed, verifyKey, answer>>

Init ==
    /\ signed = {}
    /\ verifyKey \in Keys
    /\ answer = Pending

Sign(k, c) ==
    /\ signed' = signed \cup {<<k, c>>}
    /\ UNCHANGED <<verifyKey, answer>>

Accept(c) ==
    /\ answer = Pending
    /\ <<verifyKey, c>> \in signed
    /\ answer' = c
    /\ UNCHANGED <<signed, verifyKey>>

Refuse ==
    /\ answer = Pending
    /\ answer' = Refused
    /\ UNCHANGED <<signed, verifyKey>>

Next ==
    \/ \E k \in Keys, c \in Contents : Sign(k, c)
    \/ \E c \in Contents : Accept(c)
    \/ Refuse

Spec == Init /\ [][Next]_vars
=============================================================================
