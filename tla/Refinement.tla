----------------------------- MODULE Refinement -----------------------------
(***************************************************************************)
(* The appliance implements EngineLifecycle.  The engine of the abstract   *)
(* specification is the process tree PID 1 launched, dead or alive, until  *)
(* PID 1 puts it away; its configuration is what PID 1 sourced.            *)
(***************************************************************************)
EXTENDS Appliance

Running == IF engine = "none" THEN None ELSE exported

Verdict == CASE verifier = "passed" -> "pass" [] verifier = "failed" -> "fail" [] OTHER -> "none"

Claim ==
    IF engine = "none" THEN "none"
    ELSE CASE status = "serving" -> "serving"
           [] status = "serving-unverified" -> "unverified"
           [] OTHER -> "none"

Lifecycle == INSTANCE EngineLifecycle WITH
    running <- Running, verdict <- Verdict, claim <- Claim, good <- knownGood

(* Engines are started, judged, accepted, tolerated and stopped as
   EngineLifecycle allows: the verdict acted on is the running engine's own and
   known-good.json follows no other (entrypoint.sh, poll loop). *)
LifecycleRefined == Lifecycle!Spec

(* The part of the invariant the refinement needs beyond Inv: PID 1
   polls exactly while there is an engine, and the verdict file and the point the
   poll loop has reached agree with how this engine's verifier ended. *)
RefineInv ==
    /\ pc \in PollSteps /\ verifyFile = "fail" => verifier = "failed"
    /\ pc \in {"verdictShould", "markUnverified"} => verifier = "failed"
    /\ pc \in PollSteps <=> engine # "none"
    /\ engine = "none" => verifier = "off"
=============================================================================
