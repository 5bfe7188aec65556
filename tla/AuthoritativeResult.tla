------------------------- MODULE AuthoritativeResult -------------------------
(***************************************************************************)
(* What the calculation pipeline promises to a reader of the dashboard,    *)
(* without commands, jobs, handlers or locks: the owner's facts change     *)
(* from one input version to the next, and the rows shown as authoritative *)
(* are at any time the complete result of one input version, computed from *)
(* the facts of that version while it was the current one.                 *)
(*                                                                         *)
(* FinancialPublication implements this specification.                     *)
(***************************************************************************)
EXTENDS Naturals

CONSTANTS
    Slots,       \* what a row describes: a metric kind, a fund requirement
    Contents,    \* what the canonical facts can be
    Invalid,     \* facts that no calculation accepts
    MaxVersion   \* bound on the input versions

VARIABLES
    version,     \* the owner's input version
    facts,       \* the canonical facts at that version
    shown        \* the authoritative rows: pairs <<input version, slot>>

vars == <<version, facts, shown>>

Init ==
    /\ version = 0
    /\ facts = Invalid
    /\ shown = {}

(***************************************************************************)
(* A financial command changes the facts. The rows shown still describe    *)
(* the version they were computed from.                                    *)
(***************************************************************************)
Change ==
    /\ version < MaxVersion
    /\ version' = version + 1
    /\ facts' \in Contents
    /\ UNCHANGED shown

(***************************************************************************)
(* The result of the current facts replaces every row shown, at once.      *)
(***************************************************************************)
Publish ==
    /\ facts # Invalid
    /\ shown' = {version} \X facts
    /\ UNCHANGED <<version, facts>>

Next == Change \/ Publish

SafetySpec == Init /\ [][Next]_vars
=============================================================================
