------------------------------ MODULE Services ------------------------------
(***************************************************************************)
(* The service boundaries this program keeps ready for providers: the      *)
(* settings file (AuthConfig), the gate (AuthGate) and the paged read      *)
(* (PageDrain).  One invocation exercises one of them.                     *)
(***************************************************************************)
EXTENDS AuthConfig, AuthGate, PageDrain

VARIABLE useCase   \* which one

servicesVars == <<useCase, configVars, gateVars, drainVars>>

ServicesInit == useCase \in {"configure", "authenticate", "list"} /\ ConfigInit /\ GateInit /\ DrainInit

ServicesNext ==
  /\ UNCHANGED useCase
  /\ \/ useCase = "configure" /\ ConfigNext /\ UNCHANGED <<gateVars, drainVars>>
     \/ useCase = "authenticate" /\ GateNext /\ UNCHANGED <<configVars, drainVars>>
     \/ useCase = "list" /\ DrainNext /\ UNCHANGED <<configVars, gateVars>>

ServicesSpec == ServicesInit /\ [][ServicesNext]_servicesVars
=============================================================================
