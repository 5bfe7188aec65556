------------------------------ MODULE OnceInbox ------------------------------
(***************************************************************************)
(* What the inbox promises: an update is accepted once, and the financial  *)
(* command it carries, if any, takes effect once and is never replaced.    *)
(***************************************************************************)
CONSTANTS
    Updates,      \* update identities
    Commands,     \* financial commands
    Nothing       \* no command took effect

VARIABLES
    accepted,     \* updates whose receipt is durable
    effect,       \* the command each update has led to
    applied       \* how often it took effect

onceVars == <<accepted, effect, applied>>

Init ==
    /\ accepted = {}
    /\ effect = [u \in Updates |-> Nothing]
    /\ applied = [u \in Updates |-> 0]

Accept ==
    /\ \E page \in SUBSET (Updates \ accepted) : accepted' = accepted \cup page
    /\ UNCHANGED <<effect, applied>>

Apply(u) ==
    /\ u \in accepted
    /\ applied[u] = 0
    /\ applied' = [applied EXCEPT ![u] = 1]
    /\ effect'[u] \in Commands
    /\ effect' = [effect EXCEPT ![u] = effect'[u]]
    /\ UNCHANGED accepted

Next ==
    \/ Accept
    \/ \E u \in Updates : Apply(u)

Spec == Init /\ [][Next]_onceVars
=============================================================================
