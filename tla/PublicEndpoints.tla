-------------------------- MODULE PublicEndpoints --------------------------
(***************************************************************************)
(* What anybody can call, behind the one limiter and under its clock: the  *)
(* accounts and the ATM network.  They share no row and no key, so a       *)
(* behaviour follows one of the two, chosen at the start.                  *)
(***************************************************************************)
EXTENDS Accounts, AtmNetwork

VARIABLE area

vars == <<limiterVars, accountVars, requestVars, atmVars, area>>

Init ==
  /\ LimiterInit /\ AccountsInit /\ AtmInit
  /\ \/ area = "accounts"
     \/ area = "atms" /\ version = 0

Next ==
  /\ \/ area = "accounts" /\ AccountsNext /\ UNCHANGED atmVars
     \/ area = "atms" /\ AtmNext /\ UNCHANGED <<accountVars, requestVars>>
     \/ Tick /\ UNCHANGED <<accountVars, requestVars, atmVars>>
  /\ UNCHANGED area

Spec == Init /\ [][Next]_vars

-----------------------------------------------------------------------------
\* Types.
TypeOK == LimiterTypeOK /\ AccountsTypeOK /\ AtmTypeOK
=============================================================================
