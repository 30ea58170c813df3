---------------------------- MODULE Registration ----------------------------
(***************************************************************************)
(* Registration of the operator in the sortition pool of an application:   *)
(* the loop that registers it once it is eligible, waits until it is in    *)
(* the pool and keeps its status there up to date.                         *)
(*                                                                         *)
(* Every check is made when a new block arrives, so a step stands for the  *)
(* blocks waited for before it. The pool is a contract of a library: an    *)
(* operator joins it when it is eligible, and anyone may have the status   *)
(* of an operator updated, which removes one that is not eligible.         *)
(***************************************************************************)
EXTENDS Naturals

CONSTANTS
    MaxStandings,           \* bound on the changes of the operator's stake and bond
    MaxRegistrationFaults   \* bound on failing calls, lost transactions and restarts

ASSUME RegistrationAssumption == {MaxStandings, MaxRegistrationFaults} \subseteq Nat

VARIABLES
    registrar,      \* where the goroutine is
    eligible,       \* stake and unbonded value are enough
    registered,     \* the operator is in the pool
    upToDate,       \* its weight in the pool is the one it is eligible for
    sent,           \* transactions on their way
    missed,         \* the client waits for a registration that is not there and not
                    \* on its way any more
    standings, registrationFaults

sortitionPool == <<eligible, registered, upToDate>>
registrationVars == <<registrar, sortitionPool, sent, missed, standings, registrationFaults>>

RegistrationFault ==
    registrationFaults < MaxRegistrationFaults /\ registrationFaults' = registrationFaults + 1
NoRegistrationFault == registrationFaults' = registrationFaults

RegistrationInit ==
    /\ registrar = "loop"
    /\ eligible \in BOOLEAN /\ registered \in BOOLEAN /\ upToDate = (eligible /\ registered)
    /\ sent = {} /\ missed = FALSE
    /\ standings = 0 /\ registrationFaults = 0

----------------------------------------------------------------------------
(* The client. *)

\* One round of checkStatusAndRegisterForApplication; after an error, again.
CheckRegistered ==
    /\ registrar = "loop"
    /\ \/ registrar' = (IF registered THEN "monitor" ELSE "register") /\ NoRegistrationFault
       \/ RegistrationFault /\ UNCHANGED registrar
    /\ UNCHANGED <<sent, missed>>

\* An error of the first check is like an answer that the operator is not eligible.
registerAsMemberCandidate ==
    /\ registrar = "register"
    /\ \/ registrar' = (IF eligible THEN "join" ELSE "whenEligible") /\ NoRegistrationFault
       \/ registrar' = "whenEligible" /\ RegistrationFault
    /\ UNCHANGED <<sent, missed>>

\* While the operator is not eligible the loop waits for the next block.
registerAsMemberCandidateWhenEligible ==
    /\ registrar = "whenEligible"
    /\ \/ eligible /\ registrar' = "join" /\ NoRegistrationFault
       \/ RegistrationFault /\ UNCHANGED registrar
    /\ UNCHANGED <<sent, missed>>

\* Mutant of RegisterAsMemberCandidate: the loop ends although the call failed.
RegisterAsMemberCandidateOnce ==
    /\ registrar = "join" /\ registrar' = "wait"
    /\ \/ (eligible \/ registered) /\ sent' = sent \cup {"register"} /\ NoRegistrationFault
       \/ ~(eligible \/ registered) /\ UNCHANGED sent /\ NoRegistrationFault
       \/ UNCHANGED sent /\ RegistrationFault
    /\ UNCHANGED missed

\* The gas of the transaction is estimated first, which fails when it would revert.
RegisterAsMemberCandidate ==
    /\ registrar = "join"
    /\ \/ /\ eligible \/ registered
          /\ registrar' = "wait" /\ sent' = sent \cup {"register"} /\ NoRegistrationFault
       \/ /\ ~(eligible \/ registered)
          /\ registrar' = "whenEligible" /\ UNCHANGED sent /\ NoRegistrationFault
       \/ \* The call fails; its transaction may be on its way nevertheless.
          /\ registrar' = "whenEligible" /\ RegistrationFault
          /\ sent' \in {sent, sent \cup {"register"}}
    /\ UNCHANGED missed

\* An error, or an answer that the operator is not there yet: the next block.
waitUntilRegistered ==
    /\ registrar = "wait"
    /\ \/ registered /\ registrar' = "monitor" /\ NoRegistrationFault
       \/ RegistrationFault /\ UNCHANGED registrar
    /\ UNCHANGED <<sent, missed>>

\* The status is checked every statusCheckIntervalBlocks blocks; a failing block
\* counter ends the monitoring.
monitorSignerPoolStatus ==
    /\ registrar = "monitor"
    /\ \/ registrar' = "check" /\ NoRegistrationFault
       \/ registrar' = "loop" /\ RegistrationFault
    /\ UNCHANGED <<sent, missed>>

\* The contract answers for registered operators only.
CheckStatus ==
    /\ registrar = "check"
    /\ \/ registered /\ ~upToDate /\ registrar' = "update" /\ NoRegistrationFault
       \/ ~registered /\ registrar' = "loop" /\ NoRegistrationFault
       \/ registrar' = "loop" /\ RegistrationFault
    /\ UNCHANGED <<sent, missed>>

\* An update that would change nothing reverts already in the estimate of its gas.
UpdateStatusForApplication ==
    /\ registrar = "update"
    /\ \/ /\ registered /\ ~upToDate
          /\ registrar' = "confirm" /\ sent' = sent \cup {"update"} /\ NoRegistrationFault
       \/ /\ ~registered \/ upToDate
          /\ registrar' = "loop" /\ UNCHANGED sent /\ NoRegistrationFault
       \/ registrar' = "loop" /\ UNCHANGED sent /\ RegistrationFault
    /\ UNCHANGED missed

\* blockConfirmations blocks after the check, mined or not.
ConfirmRegistered ==
    /\ registrar = "confirm"
    /\ \/ registrar' = (IF registered THEN "check" ELSE "loop") /\ NoRegistrationFault
       \/ registrar' = "loop" /\ RegistrationFault
    /\ UNCHANGED <<sent, missed>>

checkStatusAndRegisterForApplication ==
    /\ \/ CheckRegistered \/ registerAsMemberCandidate
       \/ registerAsMemberCandidateWhenEligible \/ RegisterAsMemberCandidate
       \/ waitUntilRegistered \/ monitorSignerPoolStatus \/ CheckStatus
       \/ UpdateStatusForApplication \/ ConfirmRegistered
    /\ UNCHANGED <<sortitionPool, standings>>

RestartRegistration ==
    /\ registrar # "loop" /\ RegistrationFault
    /\ registrar' = "loop" /\ missed' = FALSE
    /\ UNCHANGED <<sortitionPool, sent, standings>>

----------------------------------------------------------------------------
(* The pool. *)

\* The client waits for a registration that will not come by itself.
Misses == registrar = "wait" /\ ~registered' /\ "register" \notin sent'

updateOperatorStatus ==
    /\ registered /\ ~upToDate
    /\ registered' = eligible /\ upToDate' = eligible

\* An operator that is in the pool already is left as it is.
MineRegister ==
    /\ "register" \in sent /\ sent' = sent \ {"register"}
    /\ registered' = (registered \/ eligible)
    /\ upToDate' = IF registered THEN upToDate ELSE eligible
    /\ missed' = (missed \/ Misses)
    /\ NoRegistrationFault /\ UNCHANGED <<registrar, eligible, standings>>

MineUpdate ==
    /\ "update" \in sent /\ sent' = sent \ {"update"}
    /\ \/ updateOperatorStatus
       \/ ~(registered /\ ~upToDate) /\ UNCHANGED <<registered, upToDate>>
    /\ missed' = (missed \/ Misses)
    /\ NoRegistrationFault /\ UNCHANGED <<registrar, eligible, standings>>

LoseTransaction ==
    /\ RegistrationFault
    /\ \E t \in sent : sent' = sent \ {t}
    /\ UNCHANGED <<registrar, sortitionPool, standings>>
    /\ missed' = (missed \/ Misses)

\* Group selection, or somebody else, updates the status.
OthersUpdate ==
    /\ updateOperatorStatus
    /\ NoRegistrationFault /\ UNCHANGED <<registrar, eligible, sent, standings>>
    /\ missed' = (missed \/ Misses)

ChangeStanding ==
    /\ standings < MaxStandings /\ standings' = standings + 1
    /\ eligible' \in BOOLEAN
    /\ upToDate' \in {FALSE, registered /\ eligible'}
    /\ NoRegistrationFault /\ UNCHANGED <<registrar, registered, sent, missed>>

RegistrationNext ==
    \/ checkStatusAndRegisterForApplication \/ RestartRegistration
    \/ MineRegister \/ MineUpdate \/ LoseTransaction \/ OthersUpdate \/ ChangeStanding

RegistrationSpec == RegistrationInit /\ [][RegistrationNext]_registrationVars

\* Blocks keep coming, and with them the checks and the transactions. Which of
\* the two comes first is open.
RegistrationFairSpec ==
    /\ RegistrationSpec
    /\ WF_registrationVars(checkStatusAndRegisterForApplication)
    /\ WF_registrationVars(MineRegister \/ MineUpdate)

----------------------------------------------------------------------------
(* Correctness. *)

\* Whatever fails on the way, and however stake and bond have changed, an
\* eligible operator ends in the pool with the right weight, as long as its
\* registration was not lost while the client waited for it, and one that is not
\* eligible ends out of the pool, unless the client took the registration that
\* brought it there for a failed one and waits for it to be eligible again
\* (checkStatusAndRegisterForApplication and its loops).
StatusSettles ==
    <>[](IF eligible THEN missed \/ (registered /\ upToDate)
                     ELSE ~registered \/ registrar = "whenEligible")
=============================================================================
