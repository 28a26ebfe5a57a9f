------------------------------- MODULE Audits -------------------------------
(***************************************************************************)
(* The two checks of history that others rewrite meanwhile: the audit of    *)
(* the canaries (CanaryAudit, which is extended) and the gates on main      *)
(* (MainGate, an instance).  Neither knows of the other, so they are        *)
(* explored one at a time; `check` names the one that moves.                *)
(***************************************************************************)
EXTENDS CanaryAudit

CONSTANTS
    GatePaths, GateContents, Tagged, SourceDirectory, Caller, Limit, Gates, \* of MainGate
    Off \* what the variables of the check that stands still hold

VARIABLES gateMain, gate, gateAt, gateSeen, check

Gate == INSTANCE MainGate
    WITH main <- gateMain, pc <- gateAt, seen <- gateSeen,
         Paths <- GatePaths, Contents <- GateContents

ASSUME CanaryConstants == CanaryAssumption
ASSUME GateConstants == Gate!MainGateAssumption

-----------------------------------------------------------------------------

gateVars == <<gateMain, gate, gateAt, gateSeen>>

GateOff == gateMain = Off /\ gate = Off /\ gateAt = Off /\ gateSeen = Off

CanaryOff ==
    /\ policy = Off /\ estate = Off /\ time = Off /\ changes = Off /\ manifest = Off
    /\ strict = Off /\ audit = Off /\ exit = Off
    /\ faulted = Off /\ loosened = Off /\ held = {}

AuditInit ==
    \/ check = "gates" /\ Gate!Init /\ CanaryOff
    \/ check = "canaries" /\ Init /\ GateOff

AuditStep ==
    \/ check = "gates" /\ Gate!Next /\ UNCHANGED <<check, vars>>
    \/ check = "canaries" /\ Next /\ UNCHANGED <<check, gateVars>>

AuditSpec == AuditInit /\ [][AuditStep]_<<check, gateVars, vars>>

-----------------------------------------------------------------------------
(* The properties of MainGate.  Those of CanaryAudit need no guard: no audit *)
(* ends and no pin is held while the gates move.                             *)

\* A gate that let the release go on saw a head that descends from the commit,
\* with the component and the caller's workflow unchanged (gates.sh).
PassedUnchanged == check = "gates" => Gate!PassedUnchanged

\* Past the first job, a release is refused over main only for a cause the code
\* names (gates.sh).
RefusedForCause == check = "gates" => Gate!RefusedForCause

=============================================================================
