-------------------------- MODULE EngineLifecycle --------------------------
(***************************************************************************)
(* What PID 1 promises about the engine, and nothing of how: engines run   *)
(* one after the other, each for one configuration that never changes      *)
(* under it and with at most one verdict; what is claimed about an engine  *)
(* and what is remembered as good follow from that verdict.                *)
(***************************************************************************)
CONSTANTS Configs, None

VARIABLES
    running,   \* the configuration of the engine process, None without one
    verdict,   \* what a verifier said of this very engine
    claim,     \* what the appliance says of it
    good       \* the configuration a rollback will return to

vars == <<running, verdict, claim, good>>

Init == running = None /\ verdict = "none" /\ claim = "none" /\ good = None

Start(c) ==
    /\ running = None
    /\ running' = c
    /\ UNCHANGED <<verdict, claim, good>>

Judge(v) ==
    /\ running # None /\ verdict = "none"
    /\ verdict' = v
    /\ UNCHANGED <<running, claim, good>>

Accept ==
    /\ verdict = "pass"
    /\ claim' = "serving" /\ good' = running
    /\ UNCHANGED <<running, verdict>>

Tolerate ==
    /\ verdict = "fail"
    /\ claim' = "unverified"
    /\ UNCHANGED <<running, verdict, good>>

(* An engine ends at any time; a verified one may have been remembered in the
   same breath, when only part of the acceptance could be written. *)
Stop ==
    /\ running # None
    /\ running' = None /\ verdict' = "none" /\ claim' = "none"
    /\ good' = good \/ (verdict = "pass" /\ good' = running)

(* An operator marks a configuration good by hand. *)
Vouch(c) == good' = c /\ UNCHANGED <<running, verdict, claim>>

Next ==
    \/ \E c \in Configs : Start(c) \/ Vouch(c)
    \/ \E v \in {"pass", "fail"} : Judge(v)
    \/ Accept \/ Tolerate \/ Stop

Spec == Init /\ [][Next]_vars
=============================================================================
