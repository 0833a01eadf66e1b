----------------------------- MODULE Supervisor -----------------------------
(***************************************************************************)
(* PID 1 (entrypoint.sh): the initial apply_config, then the supervision   *)
(* loop - clear the restart request, resolve and validate, prepare the     *)
(* checkpoint, launch, poll, and what each way out of the poll loop does.  *)
(* One action per command a concurrent process can run between; pc names   *)
(* the command PID 1 is about to run.                                      *)
(***************************************************************************)
EXTENDS Landing

CONSTANTS
    Broken,        \* configurations the engine cannot serve correctly
    MaxRestarts,   \* SUPERVISOR_MAX_RESTARTS
    VerifyEnabled  \* VERIFY # 0

ASSUME SupervisorAssumption ==
    /\ Broken \subseteq Configs
    /\ MaxRestarts \in Nat \ {0}
    /\ VerifyEnabled \in BOOLEAN

VARIABLES
    pc,            \* the next command of PID 1
    initial,       \* the initial apply_config has not returned yet
    attempts,      \* shell variable `attempt`
    exported,      \* the configuration sourced from config.env
    engine,        \* the vLLM process tree: none, up, dead
    verifier,      \* verify_serving.py: off, probing, passed, failed, lost
    verifyFile,    \* the verdict in the runtime directory: none, pass, fail
    verifyLast,    \* the verdict persisted on the volume
    consumed,      \* `verified`: this boot's verdict has been acted on
    status,        \* boot status, as the landing page reports it
    terminateFlag, \* the terminate worker asks the engine to stop
    engineStopped, \* PID 1's answer
    failedDocs,    \* history: config.json contents whose boot failed
    proven,        \* history: configurations a verifier passed
    strikes        \* history: failed boots of the current config.json contents

supVars == <<pc, initial, attempts, exported, engine, verifier, verifyFile, verifyLast,
             consumed, status, terminateFlag, engineStopped, failedDocs, proven, strikes>>
vars == <<storeVars, landingVars, supVars>>

ConfigSteps == {"env", "validate", "should", "rollback", "env2", "validate2"}
PrepareSteps == {"prepare", "prepFailed", "prepShould", "prepRollback", "flagCheck", "launch"}
PollSteps == {"pollTerm", "pollRestart", "pollPid", "pollVerify",
              "markGood", "verdictShould", "markUnverified"}
ExitSteps == {"failShould", "failRollback", "standdown", "resume"}
Stopped == {"gaveUp", "exited"}
PCs == {"clear"} \cup ConfigSteps \cup PrepareSteps \cup PollSteps \cup ExitSteps \cup Stopped

Verdicts == {"none", "pass", "fail"}
Statuses == {"booting", "restarting", "rolling-back", "starting-engine", "serving",
             "serving-unverified", "applying-config", "terminating", "failed"}

ControlOK ==
    /\ pc \in PCs
    /\ attempts \in 0..(MaxRestarts + 1)
    /\ strikes \in 0..(MaxRestarts + 1)
    /\ status \in Statuses

FlagsOK ==
    /\ initial \in BOOLEAN
    /\ consumed \in BOOLEAN
    /\ terminateFlag \in BOOLEAN
    /\ engineStopped \in BOOLEAN

EngineOK ==
    /\ engine \in {"none", "up", "dead"}
    /\ verifier \in {"off", "probing", "passed", "failed", "lost"}
    /\ verifyFile \in Verdicts
    /\ verifyLast \in Verdicts

BootOK ==
    /\ exported \in Configs \cup {None}
    /\ failedDocs \subseteq Docs \cup {None}
    /\ proven \subseteq Configs

SupervisorTypeOK == ControlOK /\ FlagsOK /\ EngineOK /\ BootOK

SupervisorInit ==
    /\ pc = "env"
    /\ initial = TRUE
    /\ attempts = 0
    /\ exported = None
    /\ engine = "none"
    /\ verifier = "off"
    /\ verifyFile = "none"
    /\ verifyLast = "none"
    /\ consumed = FALSE
    /\ status = "booting"
    /\ terminateFlag = FALSE
    /\ engineStopped = FALSE
    /\ failedDocs = {}
    /\ proven = {}
    /\ strikes = 0

(***************************************************************************)
(* The restart budget.                                                     *)
(***************************************************************************)
Strike == strikes' = IF strikes > MaxRestarts THEN strikes ELSE strikes + 1

(* Seeded defect: one restart too many. *)
Retry_OneMore(n) ==
    /\ attempts' = n
    /\ IF n > MaxRestarts + 1
       THEN pc' = "gaveUp" /\ status' = "failed"
       ELSE pc' = "clear" /\ UNCHANGED status

(* attempt=$((attempt + 1)); past MAXR the loop is left for exit 1. *)
Retry(n) ==
    /\ attempts' = n
    /\ IF n > MaxRestarts
       THEN pc' = "gaveUp" /\ status' = "failed"
       ELSE pc' = "clear" /\ UNCHANGED status

(* attempt=0; continue *)
StartOver == attempts' = 0 /\ pc' = "clear"

EngineVars == <<engine, verifier, verifyFile, verifyLast, consumed>>
FlagVars == <<terminateFlag, engineStopped>>

(***************************************************************************)
(* Top of the loop and apply_config.                                       *)
(***************************************************************************)
ClearRestart ==
    /\ pc = "clear"
    /\ restartFlag' = FALSE
    /\ status' = IF attempts > 0 THEN "restarting" ELSE status
    /\ engine' = IF attempts > 0 THEN "none" ELSE engine
    /\ pc' = "env"
    /\ UNCHANGED <<env, cfg, clock, knownGood, applyState, bootAttempt, lock, landingVars,
                   initial, attempts, exported, verifier, verifyFile, verifyLast, consumed,
                   FlagVars, failedDocs, proven, strikes>>

(* What the caller does with apply_config's exit code.  The initial call runs
   under set -e: anything but 0 ends the container. *)
Return(rc) ==
    \/ /\ initial /\ rc = 0
       /\ pc' = "clear" /\ initial' = FALSE
       /\ UNCHANGED <<attempts, status, strikes>>
    \/ /\ initial /\ rc # 0
       /\ pc' = "exited"
       /\ UNCHANGED <<initial, attempts, status, strikes>>
    \/ /\ ~initial /\ rc = 2
       /\ Retry(attempts + 1) /\ Strike
       /\ UNCHANGED initial
    \/ /\ ~initial /\ rc # 2
       /\ pc' = IF rc = 0 THEN "prepare" ELSE "clear"
       /\ UNCHANGED <<initial, attempts, status, strikes>>

ConfigFrame == UNCHANGED <<exported, EngineVars, FlagVars, proven>>

(* config_cli env --begin-attempt, then source config.env. *)
BeginEnv ==
    /\ pc \in {"env", "env2"}
    /\ LockFree
    /\ BeginAttempt("pid1")
    /\ exported' = Effective
    /\ ackPending' = FALSE
    /\ pc' = IF pc = "env" THEN "validate" ELSE "validate2"
    /\ UNCHANGED <<env, cfg, clock, knownGood, applyState, restartFlag, lock,
                   seen, handler, ops, faults, stranded, vouched,
                   initial, attempts, EngineVars, status, FlagVars, failedDocs, proven, strikes>>

(* config.env could not be produced: "refusing to start stale configuration". *)
BeginEnvFails ==
    /\ pc \in {"env", "env2"}
    /\ SpendFault
    /\ Return(2)
    /\ ConfigFrame
    /\ UNCHANGED <<storeVars, seen, handler, ops, ackPending, stranded, vouched, failedDocs>>

Validate ==
    /\ pc = "validate"
    /\ LockFree
    /\ IF Superseded
       THEN Return(3) /\ UNCHANGED failedDocs
       ELSE IF Valid(bootAttempt.eff)
       THEN Return(0) /\ UNCHANGED failedDocs
       ELSE /\ pc' = "should"
            /\ failedDocs' = failedDocs \cup {bootAttempt.id}
            /\ UNCHANGED <<initial, attempts, status, strikes>>
    /\ ConfigFrame
    /\ UNCHANGED <<storeVars, landingVars>>

AttemptRollbackUseful ==
    RollbackUseful(bootAttempt.eff, StateValues(bootAttempt.id))

ShouldRollbackInvalid ==
    /\ pc = "should"
    /\ LockFree
    /\ IF Superseded
       THEN Return(3)
       ELSE IF AttemptRollbackUseful
       THEN pc' = "rollback" /\ UNCHANGED <<initial, attempts, status, strikes>>
       ELSE Return(2)
    /\ ConfigFrame
    /\ UNCHANGED <<storeVars, landingVars, failedDocs>>

(* config_cli rollback as PID 1 runs it: exit 3 both for a superseded boot, with
   nothing written, and for nothing to restore; `done` is exit 0. *)
PidRollback(done) ==
    IF Superseded
    THEN ~done /\ UNCHANGED <<cfg, clock, applyState, restartFlag>>
    ELSE Rollback(bootAttempt.eff, StateValues(bootAttempt.id), done)

RollbackInvalid ==
    /\ pc = "rollback"
    /\ LockFree
    /\ \E done \in BOOLEAN :
        /\ PidRollback(done)
        /\ IF done
           THEN /\ pc' = "env2"
                /\ strikes' = 0
                /\ UNCHANGED <<initial, attempts, status>>
           ELSE Return(3)
    /\ ConfigFrame
    /\ UNCHANGED <<env, knownGood, bootAttempt, lock, landingVars, failedDocs>>

ValidateAgain ==
    /\ pc = "validate2"
    /\ LockFree
    /\ Return(IF Superseded THEN 3 ELSE IF Valid(bootAttempt.eff) THEN 0 ELSE 2)
    /\ ConfigFrame
    /\ UNCHANGED <<storeVars, landingVars, failedDocs>>

ApplyConfig ==
    \/ BeginEnv \/ BeginEnvFails \/ Validate
    \/ ShouldRollbackInvalid \/ RollbackInvalid \/ ValidateAgain

(***************************************************************************)
(* Checkpoint preparation and launch.                                      *)
(***************************************************************************)
PrepareFrame == UNCHANGED <<initial, exported, FlagVars, proven>>

(* Seeded defect: the restart request is cleared after the long preparation. *)
PrepareOk_ClearsFlag ==
    /\ pc = "prepare"
    /\ pc' = "flagCheck"
    /\ restartFlag' = FALSE
    /\ PrepareFrame
    /\ UNCHANGED <<env, cfg, clock, knownGood, applyState, bootAttempt, lock, landingVars,
                   attempts, EngineVars, status, failedDocs, strikes>>

(* A broken configuration may pass preparation or not; a sound one fails it
   only by a fault (network, token, disk). *)
PrepareOk ==
    /\ pc = "prepare"
    /\ pc' = "flagCheck"
    /\ PrepareFrame
    /\ UNCHANGED <<storeVars, landingVars, attempts, EngineVars, status, failedDocs, strikes>>

PrepareFails ==
    /\ pc = "prepare"
    /\ IF exported \in Broken THEN UNCHANGED faults ELSE SpendFault
    /\ pc' = "prepFailed"
    /\ failedDocs' = failedDocs \cup {bootAttempt.id}
    /\ PrepareFrame
    /\ UNCHANGED <<storeVars, seen, handler, ops, ackPending, stranded, vouched,
                   attempts, EngineVars, status, strikes>>

PrepareFailed ==
    /\ pc = "prepFailed"
    /\ IF restartFlag
       THEN StartOver /\ UNCHANGED <<status, strikes>>
       ELSE /\ Strike
            /\ IF attempts + 1 > 1
               THEN pc' = "prepShould" /\ attempts' = attempts + 1 /\ UNCHANGED status
               ELSE Retry(attempts + 1)
    /\ PrepareFrame
    /\ UNCHANGED <<storeVars, landingVars, EngineVars, failedDocs>>

PrepareShouldRollback ==
    /\ pc = "prepShould"
    /\ LockFree
    /\ IF ~Superseded /\ AttemptRollbackUseful
       THEN pc' = "prepRollback" /\ status' = "rolling-back" /\ UNCHANGED attempts
       ELSE Retry(attempts)
    /\ PrepareFrame
    /\ UNCHANGED <<storeVars, landingVars, EngineVars, failedDocs, strikes>>

PrepareRollback ==
    /\ pc = "prepRollback"
    /\ LockFree
    /\ \E done \in BOOLEAN :
        /\ PidRollback(done)
        /\ IF done
           THEN StartOver /\ strikes' = 0 /\ UNCHANGED status
           ELSE Retry(attempts) /\ UNCHANGED strikes
    /\ PrepareFrame
    /\ UNCHANGED <<env, knownGood, bootAttempt, lock, landingVars, EngineVars, failedDocs>>

(* "Do not load a superseded checkpoint after a long preparation step." *)
FlagCheck ==
    /\ pc = "flagCheck"
    /\ IF restartFlag THEN StartOver ELSE pc' = "launch" /\ UNCHANGED attempts
    /\ PrepareFrame
    /\ UNCHANGED <<storeVars, landingVars, EngineVars, status, failedDocs, strikes>>

(* Seeded defect: a verdict nobody consumed survives into the next boot. *)
ClearVerdict_Kept == UNCHANGED verifyFile

ClearVerdict == verifyFile' = "none"

Launch ==
    /\ pc = "launch"
    /\ ClearVerdict
    /\ status' = "starting-engine"
    /\ engine' = "up"
    /\ verifier' = IF VerifyEnabled THEN "probing" ELSE "off"
    /\ consumed' = FALSE
    /\ pc' = "pollTerm"
    /\ PrepareFrame
    /\ UNCHANGED <<storeVars, landingVars, attempts, verifyLast, failedDocs, strikes>>

(* recover_sparkinfer_extension_lock failed: no launch. *)
LaunchFails ==
    /\ pc = "launch"
    /\ SpendFault
    /\ ClearVerdict
    /\ attempts' = attempts + 1
    /\ IF attempts + 1 > MaxRestarts
       THEN pc' = "gaveUp" /\ status' = "failed"
       ELSE pc' = "clear" /\ status' = "starting-engine"
    /\ Strike
    /\ failedDocs' = failedDocs \cup {bootAttempt.id}
    /\ PrepareFrame
    /\ UNCHANGED <<storeVars, seen, handler, ops, ackPending, stranded, vouched,
                   engine, verifier, verifyLast, consumed>>

Prepare ==
    \/ PrepareOk \/ PrepareFails \/ PrepareFailed \/ PrepareShouldRollback
    \/ PrepareRollback \/ FlagCheck \/ Launch \/ LaunchFails

(***************************************************************************)
(* The poll loop and its ways out.                                         *)
(***************************************************************************)
PollFrame == UNCHANGED <<initial, exported, proven>>

(* stop_verifier; status_update; kill_server_tree *)
StopEngine == engine' = "none" /\ verifier' = "off"

Requested ==
    /\ StopEngine
    /\ status' = "applying-config"
    /\ StartOver

FailedBoot ==
    /\ StopEngine
    /\ pc' = "failShould"
    /\ UNCHANGED <<status, attempts>>

PollTerminate ==
    /\ pc = "pollTerm"
    /\ IF terminateFlag
       THEN /\ StopEngine
            /\ status' = "terminating"
            /\ engineStopped' = TRUE
            /\ pc' = "standdown"
       ELSE /\ pc' = "pollRestart"
            /\ UNCHANGED <<engine, verifier, status, engineStopped>>
    /\ PollFrame
    /\ UNCHANGED <<storeVars, landingVars, attempts, verifyFile, verifyLast, consumed,
                   terminateFlag, failedDocs, strikes>>

(* Seeded defect: a running engine is never interrupted for a new configuration. *)
PollRestart_Ignored ==
    /\ pc = "pollRestart"
    /\ pc' = "pollPid"
    /\ PollFrame
    /\ UNCHANGED <<storeVars, landingVars, attempts, EngineVars, status, FlagVars,
                   failedDocs, strikes>>

PollRestart ==
    /\ pc = "pollRestart"
    /\ IF restartFlag
       THEN Requested
       ELSE pc' = "pollPid" /\ UNCHANGED <<engine, verifier, status, attempts>>
    /\ PollFrame
    /\ UNCHANGED <<storeVars, landingVars, verifyFile, verifyLast, consumed, FlagVars,
                   failedDocs, strikes>>

(* The background certificate retry left its restart-required marker. *)
PollCertificate ==
    /\ pc = "pollPid"
    /\ SpendFault
    /\ Requested
    /\ PollFrame
    /\ UNCHANGED <<storeVars, seen, handler, ops, ackPending, stranded, vouched,
                   verifyFile, verifyLast, consumed, FlagVars, failedDocs, strikes>>

PollPid ==
    /\ pc = "pollPid"
    /\ IF engine = "dead"
       THEN FailedBoot /\ failedDocs' = failedDocs \cup {bootAttempt.id}
       ELSE pc' = "pollVerify" /\ UNCHANGED <<engine, verifier, status, attempts, failedDocs>>
    /\ PollFrame
    /\ UNCHANGED <<storeVars, landingVars, verifyFile, verifyLast, consumed, FlagVars, strikes>>

(* Seeded defect: what is judged is always the verdict on the volume. *)
PollVerify_JudgesLast ==
    /\ pc = "pollVerify"
    /\ IF consumed \/ verifyFile = "none"
       THEN /\ pc' = "pollTerm"
            /\ UNCHANGED <<verifyFile, verifyLast, consumed, failedDocs, faults>>
       ELSE /\ consumed' = TRUE
            /\ \/ /\ verifyLast' = verifyFile
                  /\ verifyFile' = "none"
                  /\ UNCHANGED faults
               \/ /\ SpendFault
                  /\ UNCHANGED <<verifyFile, verifyLast>>
            /\ IF verifyLast' = "pass"
               THEN pc' = "markGood" /\ UNCHANGED failedDocs
               ELSE pc' = "verdictShould" /\ failedDocs' = failedDocs \cup {bootAttempt.id}
    /\ PollFrame
    /\ UNCHANGED <<storeVars, seen, handler, ops, ackPending, stranded, vouched,
                   attempts, engine, verifier, status, FlagVars, strikes>>

(* The fresh verdict is moved to the volume; when that fails it is judged where
   it is, so that a previous boot's verdict is never judged in its place. *)
PollVerify ==
    /\ pc = "pollVerify"
    /\ IF consumed \/ verifyFile = "none"
       THEN /\ pc' = "pollTerm"
            /\ UNCHANGED <<verifyFile, verifyLast, consumed, failedDocs, faults>>
       ELSE /\ consumed' = TRUE
            /\ \/ /\ verifyLast' = verifyFile
                  /\ verifyFile' = "none"
                  /\ UNCHANGED faults
               \/ /\ SpendFault
                  /\ UNCHANGED <<verifyFile, verifyLast>>
            /\ IF verifyFile = "pass"
               THEN pc' = "markGood" /\ UNCHANGED failedDocs
               ELSE pc' = "verdictShould" /\ failedDocs' = failedDocs \cup {bootAttempt.id}
    /\ PollFrame
    /\ UNCHANGED <<storeVars, seen, handler, ops, ackPending, stranded, vouched,
                   attempts, engine, verifier, status, FlagVars, strikes>>

MarkGoodStep ==
    /\ pc = "markGood"
    /\ LockFree
    /\ IF Superseded
       THEN Requested /\ UNCHANGED <<knownGood, applyState>>
       ELSE /\ MarkGood(bootAttempt.eff)
            /\ status' = "serving"
            /\ attempts' = 0
            /\ pc' = "pollTerm"
            /\ UNCHANGED <<engine, verifier>>
    /\ PollFrame
    /\ UNCHANGED <<env, cfg, clock, bootAttempt, restartFlag, lock, landingVars,
                   verifyFile, verifyLast, consumed, FlagVars, failedDocs, strikes>>

(* mark-good failed, before or after known-good.json was replaced. *)
MarkGoodFails ==
    /\ pc = "markGood"
    /\ LockFree
    /\ ~Superseded
    /\ SpendFault
    /\ knownGood' \in {knownGood, bootAttempt.eff}
    /\ FailedBoot
    /\ failedDocs' = failedDocs \cup {bootAttempt.id}
    /\ PollFrame
    /\ UNCHANGED <<env, cfg, clock, applyState, bootAttempt, restartFlag, lock,
                   seen, handler, ops, ackPending, stranded, vouched,
                   verifyFile, verifyLast, consumed, FlagVars, strikes>>

VerdictShouldRollback ==
    /\ pc = "verdictShould"
    /\ LockFree
    /\ IF Superseded THEN Requested
       ELSE IF AttemptRollbackUseful THEN FailedBoot
       ELSE pc' = "markUnverified" /\ UNCHANGED <<engine, verifier, status, attempts>>
    /\ PollFrame
    /\ UNCHANGED <<storeVars, landingVars, verifyFile, verifyLast, consumed, FlagVars,
                   failedDocs, strikes>>

MarkUnverified ==
    /\ pc = "markUnverified"
    /\ LockFree
    /\ IF Superseded
       THEN Requested /\ UNCHANGED applyState
       ELSE /\ applyState' = "degraded"
            /\ status' = "serving-unverified"
            /\ pc' = "pollTerm"
            /\ UNCHANGED <<engine, verifier, attempts>>
    /\ PollFrame
    /\ UNCHANGED <<env, cfg, clock, knownGood, bootAttempt, restartFlag, lock, landingVars,
                   verifyFile, verifyLast, consumed, FlagVars, failedDocs, strikes>>

FailShouldRollback ==
    /\ pc = "failShould"
    /\ LockFree
    /\ IF Superseded
       THEN StartOver /\ UNCHANGED <<status, strikes>>
       ELSE IF AttemptRollbackUseful
       THEN pc' = "failRollback" /\ status' = "rolling-back" /\ UNCHANGED <<attempts, strikes>>
       ELSE Retry(attempts + 1) /\ Strike
    /\ PollFrame
    /\ UNCHANGED <<storeVars, landingVars, EngineVars, FlagVars, failedDocs>>

(* Exit 3 means superseded or nothing to restore: both start over. *)
FailRollback ==
    /\ pc = "failRollback"
    /\ LockFree
    /\ \E done \in BOOLEAN :
        /\ PidRollback(done)
        /\ strikes' = IF done THEN 0 ELSE strikes
    /\ StartOver
    /\ PollFrame
    /\ UNCHANGED <<env, knownGood, bootAttempt, lock, landingVars, EngineVars, status,
                   FlagVars, failedDocs>>

(* "Termination was cancelled": first the flag is seen gone, then the answer is
   withdrawn and the loop resumes. *)
SeeCancelled ==
    /\ pc = "standdown"
    /\ ~terminateFlag
    /\ pc' = "resume"
    /\ PollFrame
    /\ UNCHANGED <<storeVars, landingVars, attempts, EngineVars, status, FlagVars,
                   failedDocs, strikes>>

Resume ==
    /\ pc = "resume"
    /\ engineStopped' = FALSE
    /\ StartOver
    /\ PollFrame
    /\ UNCHANGED <<storeVars, landingVars, EngineVars, status, terminateFlag,
                   failedDocs, strikes>>

Poll ==
    \/ PollTerminate \/ PollRestart \/ PollCertificate \/ PollPid \/ PollVerify
    \/ MarkGoodStep \/ MarkGoodFails \/ VerdictShouldRollback \/ MarkUnverified
    \/ FailShouldRollback \/ FailRollback \/ SeeCancelled \/ Resume

(* PID 1 performs its next command. *)
Pid1 == ClearRestart \/ ApplyConfig \/ Prepare \/ Poll

(***************************************************************************)
(* The engine and its verifier.                                            *)
(***************************************************************************)
EngineFrame ==
    UNCHANGED <<storeVars, seen, handler, ops, ackPending, stranded, vouched,
                pc, initial, attempts, exported, verifyLast, consumed, status, FlagVars,
                failedDocs, strikes>>

EngineDies ==
    /\ engine = "up"
    /\ IF exported \in Broken THEN UNCHANGED faults ELSE SpendFault
    /\ engine' = "dead"
    /\ UNCHANGED <<verifier, verifyFile, proven>>
    /\ EngineFrame

(* verify_serving.py ends with a verdict: a pass takes a live, sound engine. *)
VerifierPasses ==
    /\ verifier = "probing"
    /\ engine = "up"
    /\ exported \notin Broken
    /\ verifier' = "passed"
    /\ verifyFile' = "pass"
    /\ proven' = proven \cup {exported}
    /\ UNCHANGED <<engine, faults>>
    /\ EngineFrame

VerifierFails ==
    /\ verifier = "probing"
    /\ IF exported \in Broken \/ engine = "dead" THEN UNCHANGED faults ELSE SpendFault
    /\ verifier' = "failed"
    /\ verifyFile' = "fail"
    /\ UNCHANGED <<engine, proven>>
    /\ EngineFrame

Verifier == VerifierPasses \/ VerifierFails

(* Killed (OOM, a debugging session): no verdict, and nobody watches VERIFY_PID. *)
VerifierKilled ==
    /\ verifier = "probing"
    /\ SpendFault
    /\ verifier' = "lost"
    /\ UNCHANGED <<engine, verifyFile, proven>>
    /\ EngineFrame

(***************************************************************************)
(* The terminate worker, as PID 1 sees it: its flag appears and, when the  *)
(* worker gives up, disappears.                                            *)
(***************************************************************************)
WorkerFrame ==
    UNCHANGED <<storeVars, seen, handler, faults, ackPending, stranded, vouched, pc, initial,
                attempts, exported, EngineVars, status, engineStopped, failedDocs, proven,
                strikes>>

WorkerStops == ~terminateFlag /\ SpendOp /\ terminateFlag' = TRUE /\ WorkerFrame

WorkerCancels ==
    /\ terminateFlag
    /\ terminateFlag' = FALSE
    /\ UNCHANGED ops
    /\ WorkerFrame

(***************************************************************************)
(* The container stops at any moment and is started again on the same      *)
(* volume, in the same or in another environment.  The entrypoint clears   *)
(* every request file before anything else and freezes the environment.    *)
(***************************************************************************)
ContainerRestart ==
    /\ SpendFault
    /\ env' \in Envs
    /\ restartFlag' = FALSE
    /\ lock' = "free"
    /\ handler' = Idle
    /\ bootAttempt' = None
    /\ stranded' = (stranded \/ handler.step \in {"trial", "flag"})
    /\ pc' = "env"
    /\ initial' = TRUE
    /\ attempts' = 0
    /\ exported' = None
    /\ engine' = "none"
    /\ verifier' = "off"
    /\ verifyFile' = "none"
    /\ consumed' = FALSE
    /\ status' = "booting"
    /\ terminateFlag' = FALSE
    /\ engineStopped' = FALSE
    /\ strikes' = 0
    /\ UNCHANGED <<cfg, clock, knownGood, applyState, seen, ops, ackPending, vouched,
                   verifyLast, failedDocs, proven>>
=============================================================================
