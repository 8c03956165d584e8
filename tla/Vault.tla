------------------------------- MODULE Vault -------------------------------
(***************************************************************************)
(* What cold storage promises, without compilers, blocks or requests: a    *)
(* reference is bound to a payload once and never rebound, and a client is *)
(* only ever handed references bound to the payload they stand for.        *)
(***************************************************************************)
CONSTANTS Clients, Refs, Payloads, Nothing

VARIABLES vault,   \* payload bound to each reference, or Nothing
          owed     \* per client: <<reference, payload>> pairs it was handed

vars == <<vault, owed>>

Init == /\ vault = [r \in Refs |-> Nothing]
        /\ owed = [c \in Clients |-> {}]

\* A payload moves to cold storage under a reference nobody uses yet.
Deposit(r) == /\ vault[r] = Nothing
              /\ vault'[r] \in Payloads
              /\ vault' = [vault EXCEPT ![r] = vault'[r]]
              /\ UNCHANGED owed

\* Clients receive transcripts: their references replace the earlier ones.
Hand(receivers) ==
    /\ owed' = [c \in Clients |-> IF c \in receivers THEN owed'[c] ELSE owed[c]]
    /\ \A c \in receivers : \A pr \in owed'[c] : vault[pr[1]] = pr[2]
    /\ UNCHANGED vault

Next == \/ \E r \in Refs : Deposit(r)
        \/ \E receivers \in SUBSET Clients : Hand(receivers)

Spec == Init /\ [][Next]_vars
=============================================================================
