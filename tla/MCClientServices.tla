-------------------------- MODULE MCClientServices --------------------------
(***************************************************************************)
(* What the client runs beside its keeps, for TLC. The services share no   *)
(* state, so a behaviour is one of one service: the others stay as they    *)
(* were initialised.                                                       *)
(***************************************************************************)
EXTENDS LiquidationRecovery, Registration, Firewall

CONSTANTS Services, p1, p2

VARIABLE service

services == <<recoveryVars, registrationVars, firewallVars>>

\* A fee at each side of a twentieth of the output, with and without a limit; a
\* product and a value that do not fit; and a deposit without bitcoin.
MCCase(value, maxFee, estimates, spentIndexes) ==
    [value |-> value, funded |-> value > 0, maxFee |-> maxFee, estimates |-> estimates,
     spent |-> spentIndexes]
MCRecoveryCases ==
    {MCCase(100, 2, {1, 3, 50}, {0}), MCCase(200, 0, {0, 80}, {}), MCCase(0, 0, {}, {})}

\* Two peers of one keep, a peer of two keeps, and two connections of a peer at once.
MCPeering(groups, peers, goroutines) ==
    [groups |-> groups, peers |-> peers, goroutines |-> 1..goroutines]
MCFirewallCases ==
    {MCPeering(<<{p1, p2}>>, {p1, p2}, 1), MCPeering(<<{p1}, {p1}>>, {p1}, 1),
     MCPeering(<<{p1}>>, {p1}, 2)}

\* The service that runs starts in any of its initial states, the others in one.
MCInit ==
    /\ service \in Services
    /\ RecoveryInit /\ RegistrationInit /\ FirewallInit
    /\ service # "recovery" => output = CHOOSE c \in RecoveryCases : TRUE
    /\ service # "registration" => ~eligible /\ ~registered
    /\ service # "firewall" => peering = CHOOSE c \in FirewallCases : TRUE

MCNext ==
    /\ \/ /\ service = "recovery" /\ RecoveryNext
          /\ UNCHANGED <<registrationVars, firewallVars>>
       \/ /\ service = "registration" /\ RegistrationNext
          /\ UNCHANGED <<recoveryVars, firewallVars>>
       \/ /\ service = "firewall" /\ FirewallNext
          /\ UNCHANGED <<recoveryVars, registrationVars>>
    /\ UNCHANGED service

Turn(name) == service = name

\* Each service with the fairness of its own specification (RecoveryFairSpec,
\* RegistrationFairSpec), for the one that runs.
MCSpec ==
    /\ MCInit /\ [][MCNext]_<<service, services>>
    /\ \A k \in TerminatedKeeps :
          WF_recoveryVars(Turn("recovery") /\ handleLiquidationRecovery(k))
    /\ WF_registrationVars(Turn("registration") /\ checkStatusAndRegisterForApplication)
    /\ WF_registrationVars(Turn("registration") /\ (MineRegister \/ MineUpdate))
=============================================================================
