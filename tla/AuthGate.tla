----------------------------- MODULE AuthGate -----------------------------
(***************************************************************************)
(* The gate in front of an authenticated action: Invoke of app/authn over  *)
(* the requirement and session of domain/authn.  The authenticator belongs *)
(* to infrastructure and may return any session, or an error; it, and the  *)
(* caller, may meanwhile change the requirement they share; time passes.   *)
(*                                                                         *)
(* A requirement is the methods, accounts and capabilities it accepts or   *)
(* asks for; authority and audience are compared as the account is.        *)
(***************************************************************************)
EXTENDS Naturals, Sequences, FiniteSets

CONSTANTS Methods, Capabilities, Accounts, AnyAccount   \* AnyAccount: the requirement names no account

VARIABLES
  declared,   \* the requirement as its owner holds it
  gate,       \* the invocation: step, snapshot, session, answer; and, for the property
              \* only, whether the session was stale: got when it would have expired
  acted,      \* the sessions the action was called with
  over,       \* the context of the caller is canceled
  late        \* the time at which the sessions that expire do has come

gateVars == <<declared, gate, acted, over, late>>

Requirements == [methods : SUBSET Methods, account : Accounts \cup {AnyAccount}, capabilities : SUBSET Capabilities]
Sessions == [valid : BOOLEAN, method : Methods, account : Accounts, granted : SUBSET Capabilities, expires : BOOLEAN]
NoSession == [valid |-> FALSE, method |-> AnyAccount, account |-> AnyAccount, granted |-> {}, expires |-> FALSE]

PreActionFaults == {"invalid_authentication_requirement", "missing_authenticator", "authentication_failed",
                    "service_fault", "invalid_authentication_session", "authentication_context_mismatch",
                    "authentication_expired", "insufficient_authentication_capability"}

Gating(step) == gate.step = step
Pass(step) == gate' = [gate EXCEPT !.step = step]
Refuse(code) == gate' = [gate EXCEPT !.step = "done", !.answer = code]

\* The first mismatch of a valid session with the requirement r, in the order of Satisfies.
Mismatch(r, s) ==
  IF s.method \notin r.methods THEN "authentication_context_mismatch"
  ELSE IF r.account \notin {AnyAccount, s.account} THEN "authentication_context_mismatch"
  ELSE IF s.expires /\ late THEN "authentication_expired"
  ELSE IF ~(r.capabilities \subseteq s.granted) THEN "insufficient_authentication_capability"
  ELSE "none"

Invoke ==
  /\ Gating("idle")
  /\ IF declared.methods = {} THEN Refuse("invalid_authentication_requirement")
     ELSE gate' = [gate EXCEPT !.step = "authenticate", !.snapshot = declared]
  /\ UNCHANGED <<declared, acted, over, late>>

\* One of the kinds sanitizeAuthenticationError lets through is a fault of the service; others are not shown.
Authenticate ==
  /\ Gating("authenticate")
  /\ \/ over /\ Refuse("authentication_canceled")
     \/ Refuse("missing_authenticator")
     \/ \E code \in {"authentication_failed", "service_fault"} :
          ~over /\ Refuse(code)
     \/ \E s \in Sessions : ~over /\ gate' = [gate EXCEPT !.step = "validate", !.session = s, !.stale = late]
  /\ UNCHANGED <<declared, acted, over, late>>

\* Mutant: the session is compared with the requirement its owner holds by then.
ValidateAgainstDeclared ==
  /\ Gating("validate")
  /\ IF over THEN Refuse("authentication_canceled")
     ELSE IF ~gate.session.valid THEN Refuse("invalid_authentication_session")
     ELSE IF Mismatch(declared, gate.session) # "none" THEN Refuse(Mismatch(declared, gate.session))
     ELSE Pass("act")
  /\ UNCHANGED <<declared, acted, over, late>>

Validate ==
  /\ Gating("validate")
  /\ IF over THEN Refuse("authentication_canceled")
     ELSE IF ~gate.session.valid THEN Refuse("invalid_authentication_session")
     ELSE IF Mismatch(gate.snapshot, gate.session) # "none" THEN Refuse(Mismatch(gate.snapshot, gate.session))
     ELSE Pass("act")
  /\ UNCHANGED <<declared, acted, over, late>>

\* The action runs once; a fault it classified is kept, anything else is named by the context.
Act ==
  /\ Gating("act")
  /\ \/ over /\ Refuse("authentication_canceled") /\ UNCHANGED acted
     \/ ~over /\ acted' = Append(acted, gate.session) /\ Pass("acted")
  /\ UNCHANGED <<declared, over, late>>

AfterAction ==
  /\ Gating("acted")
  /\ \/ Refuse("none")
     \/ Refuse("action_fault")
     \/ Refuse(IF over THEN "authentication_canceled" ELSE "unclassified_authenticated_action_error")
  /\ UNCHANGED <<declared, acted, over, late>>

\* The owner of the requirement changes it while the gate is at work.
Redeclare ==
  /\ Gating("authenticate")
  /\ declared' \in Requirements \ {declared}
  /\ UNCHANGED <<gate, acted, over, late>>

Elapse == ~late /\ late' = TRUE /\ UNCHANGED <<declared, gate, acted, over>>
CancelGate == ~over /\ ~Gating("done") /\ over' = TRUE /\ UNCHANGED <<declared, gate, acted, late>>

GateInit ==
  /\ declared \in Requirements
  /\ gate = [step |-> "idle", snapshot |-> declared, session |-> NoSession, stale |-> FALSE,
             answer |-> "none"]
  /\ acted = <<>>
  /\ over = FALSE
  /\ late = FALSE

GateStep == Invoke \/ Authenticate \/ Validate \/ Act \/ AfterAction
GateNext == GateStep \/ Redeclare \/ Elapse \/ CancelGate
GateSpec == GateInit /\ [][GateNext]_gateVars
-----------------------------------------------------------------------------
(* Properties.                                                              *)

\* The action runs at most once, and only with a session that satisfies the requirement as it was when the
\* gate was entered, whatever its owner makes of it meanwhile, and that had not expired when it was got;
\* a refusal by the gate means that it did not run, and success that it did (Invoke of app/authn).
ActionIsAuthorized ==
  /\ Len(acted) <= 1
  /\ \A k \in DOMAIN acted :
       /\ acted[k].valid
       /\ acted[k].method \in gate.snapshot.methods
       /\ gate.snapshot.account \in {AnyAccount, acted[k].account}
       /\ gate.snapshot.capabilities \subseteq acted[k].granted
       /\ acted[k].expires => ~gate.stale
  /\ gate.answer \in PreActionFaults => acted = <<>>
  /\ Gating("done") /\ gate.answer = "none" => acted # <<>>
=============================================================================
