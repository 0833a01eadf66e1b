----------------------------- MODULE Appliance -----------------------------
(***************************************************************************)
(* The appliance: PID 1, the engine and its verifier, the landing page and *)
(* the operator's shell, composed over the configuration store, with the   *)
(* properties of apply, rollback and restart.                              *)
(***************************************************************************)
EXTENDS Supervisor

Init == StoreInit /\ LandingInit /\ SupervisorInit

TypeOK == StoreTypeOK /\ LandingTypeOK /\ SupervisorTypeOK

(* The landing page is started after the initial apply_config and dies with
   PID 1; so does an operator's shell. *)
PageUp == ~initial /\ pc \notin Stopped

(* History only: strikes counts against the contents of config.json. *)
CountStrikes == strikes' = IF cfg' # cfg THEN 0 ELSE strikes

Operator ==
    /\ PageUp
    /\ Submit \/ Handler \/ LandingDies \/ Manual
    /\ CountStrikes
    /\ UNCHANGED <<pc, initial, attempts, exported, EngineVars, status, FlagVars,
                   failedDocs, proven>>

Worker == PageUp /\ (WorkerStops \/ WorkerCancels)

Next ==
    \/ Pid1
    \/ Operator
    \/ EngineDies \/ Verifier \/ VerifierKilled
    \/ Worker
    \/ ContainerRestart

Spec == Init /\ [][Next]_vars

(***************************************************************************)
(* Fairness.  PID 1 is a sequential shell script that always runs its next *)
(* command; an HTTP handler thread that holds the lock finishes; the       *)
(* verifier has a health timeout and a timeout on each request, so it      *)
(* always ends with a verdict.  Nothing obliges the operator, the worker,  *)
(* a fault or the engine.                                                  *)
(***************************************************************************)
HandlerStep == PageUp /\ Handler /\ CountStrikes
               /\ UNCHANGED <<pc, initial, attempts, exported, EngineVars, status, FlagVars,
                              failedDocs, proven>>

FairSpec ==
    /\ Spec
    /\ WF_vars(Pid1)
    /\ WF_vars(HandlerStep)
    /\ WF_vars(Verifier)

-----------------------------------------------------------------------------
(***************************************************************************)
(* Safety.                                                                 *)
(***************************************************************************)

(* Every mutation of the store happens under one lock: while a handler of the
   landing page is between two of its writes, nobody else replaces config.json,
   and what it is about to replace is what its tab was shown (landing.py: "the
   state that persists must be a state one of them was actually shown"). *)
NoLostUpdate ==
    handler.step = "write" => seen[handler.tab] = Effective

(* PID 1 replaces or drops config.json only when those exact contents were seen
   to fail a boot: a rollback for an older boot never overwrites a newer apply
   (config_cli.py, cmd_rollback). *)
RollbackOnlyFailed ==
    [][cfg' # cfg /\ pc' # pc => cfg \in failedDocs]_vars

(* known-good.json holds a configuration some verifier passed, or one that an
   operator marked by hand: it is never a configuration that merely booted, and
   never one judged by another boot's verdict (entrypoint.sh, poll loop). *)
KnownGoodVerified ==
    knownGood # None => knownGood \in proven \cup vouched

(* An acknowledged apply is not swallowed: until a boot reads config.json the
   restart request is still there, or PID 1 is on its way to read the
   configuration ("Clear the request flag BEFORE reading the config"). *)
AckedApplyKept ==
    ackPending => restartFlag \/ pc \in {"clear", "env", "env2"} \cup Stopped

(* An engine only ever runs a configuration that passed pre-validation on this
   host ("a failed rollback is not permission to launch the invalid values"). *)
NeverRunsInvalid ==
    engine # "none" => Valid(exported)

(* "Serving" is reported for a boot whose own verifier passed, never on the
   strength of an earlier one ("never call it healthy"). *)
ServingIsVerified ==
    status = "serving" /\ pc \in PollSteps => verifier = "passed"

(* PID 1 says the engine is stopped only while it is. *)
StoppedMeansStopped ==
    engineStopped => engine = "none"

(* What runs was validated on its way there, what is remembered as known-good or
   reported as serving was verified by the verifier of that very engine, and
   what is reported as stopped is. *)
EngineIsJustified ==
    NeverRunsInvalid /\ KnownGoodVerified /\ ServingIsVerified /\ StoppedMeansStopped
-----------------------------------------------------------------------------
(***************************************************************************)
(* The inductive invariant behind the safety properties.                   *)
(***************************************************************************)

(* PID 1 has begun a boot before it asks anything about it, and while the boot
   is its own, what it sourced is what that boot resolved. *)
AttemptInv ==
    /\ bootAttempt = None \/ exported = None => initial /\ pc \in {"env", "exited"}
    /\ bootAttempt # None /\ bootAttempt.owner = "pid1" => exported = bootAttempt.eff

(* Only a failed preparation counts its strike before it checks the budget. *)
BudgetInv ==
    attempts > MaxRestarts => pc \in {"prepShould", "prepRollback", "gaveUp"}

(* The verdict in the runtime directory belongs to the engine being polled. *)
VerdictInv ==
    /\ verifier = "probing" => pc \in PollSteps
    /\ pc \in PollSteps /\ (verifyFile = "pass" \/ pc = "markGood") => exported \in proven

(* Wherever PID 1 considers a rollback, the boot it holds has failed. *)
FailSteps == {"should", "rollback", "prepFailed", "prepShould", "prepRollback",
              "verdictShould", "failShould", "failRollback"}
FailedInv ==
    pc \in FailSteps /\ bootAttempt.owner = "pid1" => bootAttempt.id \in failedDocs

(* A handler of the landing page holds the lock from its checks to its flag. *)
LockInv ==
    handler.step # "idle" => lock = "landing" /\ handler.tab \in Tabs

(* There is an engine only while PID 1 polls it, it was validated on the way
   there, and the engine's verdict is the one being read. *)
EngineInv ==
    /\ engine # "none" => pc \in PollSteps
    /\ pc \in PrepareSteps \cup PollSteps => Valid(exported)
    /\ engineStopped => pc \in {"standdown", "resume"}
    /\ pc \in PollSteps /\ (verifyFile = "pass" \/ pc = "markGood") => verifier = "passed"

Inv ==
    /\ TypeOK
    /\ AttemptInv
    /\ BudgetInv
    /\ VerdictInv
    /\ FailedInv
    /\ LockInv
    /\ EngineInv
    /\ NoLostUpdate
    /\ KnownGoodVerified
    /\ AckedApplyKept
    /\ ServingIsVerified

-----------------------------------------------------------------------------
(***************************************************************************)
(* What the documentation says and the code does not do.                   *)
(***************************************************************************)

(* docs/self-service-config.md: "A rollback or an applied change sets
   attempt=0, so the 5-restart crash budget still means `this config
   crash-looped'".  PID 1 gives up only on contents of config.json whose boots
   failed more than MaxRestarts times. *)
BudgetIsPerConfig ==
    pc = "gaveUp" => strikes > MaxRestarts

-----------------------------------------------------------------------------
(***************************************************************************)
(* Liveness, under FairSpec.                                               *)
(***************************************************************************)

(* An acknowledged apply is eventually read by a boot, unless PID 1 has given
   up or a termination owns the box. *)
AckedApplyBoots ==
    ackPending ~> ~ackPending \/ pc \in Stopped \/ terminateFlag

(* Booting comes to an end: PID 1 does not restart, roll back and retry forever
   ("Rolling back to the same configuration is a crash loop, not a rollback").
   And a trial is decided: verified, rolled back, degraded or failed.  A page
   that died half-way through its apply, or a verifier that was killed, may
   leave one undecided. *)
Settles ==
    /\ <>[](pc \in PollSteps \cup Stopped \cup {"standdown"})
    /\ applyState = "trial" ~>
            \/ applyState # "trial"
            \/ pc \in Stopped \/ terminateFlag
            \/ stranded \/ verifier = "lost"

(* The appliance heals itself: as long as known-good.json holds a sound
   configuration that validates on this host, a sound one is eventually served,
   whatever broken ones are applied or inherited from the environment.  The one
   way to miss it is a budget spent on earlier contents (BudgetIsPerConfig). *)
GoodUsable == knownGood # None /\ knownGood \notin Broken /\ Valid(knownGood)

ServesSound ==
    engine = "up" /\ exported \notin Broken /\ status \in {"serving", "serving-unverified"}

SelfHeals ==
    []<>(GoodUsable => \/ ServesSound
                       \/ pc = "standdown"
                       \/ stranded \/ verifier = "lost"
                       \/ ~BudgetIsPerConfig)

=============================================================================
