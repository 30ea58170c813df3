--------------------------- MODULE KeepLifecycle ---------------------------
(***************************************************************************)
(* What a keep promises to its owner and to the clients of its members     *)
(* (the interface IBondedECDSAKeep.sol and the events a client listens     *)
(* to), whatever the order of the calls it gets:                           *)
(*  - it is opened once, ends once, and never comes back;                  *)
(*  - it has one key, which never changes once it is published;            *)
(*  - it works on one signing request at a time, which it accepts only     *)
(*    while it is active and has a key, and which ends only by a signature *)
(*    (a request may outlive the keep).                                    *)
(***************************************************************************)
CONSTANTS Keeps, Keys, NoKey, Digests, NoDigest

VARIABLES
    phase,    \* keep -> "None", "Active", "Closed" or "Terminated"
    key,      \* keep -> published key
    request   \* keep -> digest waiting for a signature

lifecycleVars == <<phase, key, request>>

LifecycleInit ==
    /\ phase = [k \in Keeps |-> "None"]
    /\ key = [k \in Keeps |-> NoKey]
    /\ request = [k \in Keeps |-> NoDigest]

Open(k) ==
    /\ phase[k] = "None"
    /\ phase' = [phase EXCEPT ![k] = "Active"]
    /\ UNCHANGED <<key, request>>

PublishKey(k, pub) ==
    /\ phase[k] # "None"
    /\ key[k] = NoKey
    /\ key' = [key EXCEPT ![k] = pub]
    /\ UNCHANGED <<phase, request>>

Request(k, d) ==
    /\ phase[k] = "Active"
    /\ key[k] # NoKey
    /\ request[k] = NoDigest
    /\ request' = [request EXCEPT ![k] = d]
    /\ UNCHANGED <<phase, key>>

Fulfil(k) ==
    /\ request[k] # NoDigest
    /\ request' = [request EXCEPT ![k] = NoDigest]
    /\ UNCHANGED <<phase, key>>

End(k, p) ==
    /\ phase[k] = "Active"
    /\ phase' = [phase EXCEPT ![k] = p]
    /\ UNCHANGED <<key, request>>

LifecycleNext ==
    \E k \in Keeps :
        \/ Open(k)
        \/ \E pub \in Keys : PublishKey(k, pub)
        \/ \E d \in Digests : Request(k, d)
        \/ Fulfil(k)
        \/ \E p \in {"Closed", "Terminated"} : End(k, p)

LifecycleSpec == LifecycleInit /\ [][LifecycleNext]_lifecycleVars
=============================================================================
