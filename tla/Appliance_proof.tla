-------------------------- MODULE Appliance_proof --------------------------
(***************************************************************************)
(* Proofs of the safety of apply and rollback, for every value of the      *)
(* constants.  Inv (Appliance.tla) is inductive and holds each safety      *)
(* invariant, as a conjunct or as a consequence of EngineInv;              *)
(* RollbackOnlyFailed follows from its conjunct FailedInv and from what    *)
(* Superseded tests.  The last part proves that the appliance implements   *)
(* EngineLifecycle.                                                        *)
(***************************************************************************)
EXTENDS Refinement, TLAPS

(* Every leaf below reasons about members of these sets and about these frames
   and conjuncts; a leaf cites only the actions and helpers it opens. *)
USE StoreAssumption, LandingAssumption, SupervisorAssumption
USE DEF StoreAssumption, LandingAssumption, SupervisorAssumption,
        Values, Docs, ApplyModes, Attempts, Handlers, PCs, ConfigSteps, PrepareSteps,
        PollSteps, ExitSteps, Stopped, Verdicts, Statuses, FailSteps,
        storeVars, landingVars, EngineVars, FlagVars,
        Inv, TypeOK, StoreTypeOK, LandingTypeOK, SupervisorTypeOK,
        ControlOK, FlagsOK, EngineOK, BootOK,
        AttemptInv, BudgetInv, VerdictInv, FailedInv, LockInv, EngineInv, NoLostUpdate,
        KnownGoodVerified, AckedApplyKept, ServingIsVerified,
        StateValues, Resolve, Effective, Valid

(* The initial states satisfy the invariant. *)
LEMMA InitInv == Init => Inv
<1> SUFFICES ASSUME Init PROVE Inv
  OBVIOUS
<1> USE DEF Init, StoreInit, LandingInit, SupervisorInit, Idle
<1>1. StoreTypeOK
  <2>1. clock \in 0..MaxStamp /\ env \in Envs
    OBVIOUS
  <2>2. restartFlag \in BOOLEAN
    OBVIOUS
  <2> QED  BY <2>1, <2>2
<1>2. LandingTypeOK
  <2>1. ops \in 0..MaxOps /\ faults \in 0..MaxFaults
    OBVIOUS
  <2>2. handler \in Handlers
    OBVIOUS
  <2>3. seen \in [Tabs -> Configs \cup {None}]
    OBVIOUS
  <2>4. ackPending \in BOOLEAN /\ stranded \in BOOLEAN /\ vouched \subseteq Configs
    OBVIOUS
  <2> QED  BY <2>1, <2>2, <2>3, <2>4
<1>3. SupervisorTypeOK
  <2>1. pc \in PCs /\ attempts \in 0..(MaxRestarts + 1) /\ strikes \in 0..(MaxRestarts + 1)
    OBVIOUS
  <2>2. initial \in BOOLEAN /\ consumed \in BOOLEAN
    OBVIOUS
  <2>3. terminateFlag \in BOOLEAN /\ engineStopped \in BOOLEAN
    OBVIOUS
  <2> QED  BY <2>1, <2>2, <2>3
<1>4. /\ AttemptInv /\ BudgetInv /\ VerdictInv /\ FailedInv /\ LockInv /\ EngineInv
      /\ NoLostUpdate /\ KnownGoodVerified /\ AckedApplyKept /\ ServingIsVerified
  OBVIOUS
<1> QED  BY <1>1, <1>2, <1>3, <1>4

(* What a rollback leaves in the store has the right type: either nothing, or
   known-good.json re-minimised against today's environment. *)
LEMMA RollbackTypes ==
    ASSUME StoreTypeOK, NEW eff, NEW values, NEW done, Rollback(eff, values, done)
    PROVE  /\ cfg' \in Docs \cup {None}
           /\ clock' \in 0..MaxStamp
           /\ applyState' \in ApplyModes
           /\ restartFlag' \in BOOLEAN
<1>1. CASE ~done
  BY <1>1 DEF Rollback
<1>2. CASE done
  <2>1. applyState' \in ApplyModes /\ restartFlag' \in BOOLEAN
    BY <1>2 DEF Rollback
  <2>2. CASE knownGood = None
    BY <1>2, <2>1, <2>2 DEF Rollback
  <2>3. CASE knownGood # None
    <3>1. Minimize(knownGood) \in Values
      BY <2>3 DEF Minimize
    <3>2. WriteState(Minimize(knownGood))
      BY <1>2, <2>3 DEF Rollback
    <3>3. PICK s \in {clock, clock + 1} \cap 0..MaxStamp :
              cfg' = [vals |-> Minimize(knownGood), at |-> s] /\ clock' = s
      BY <3>2 DEF WriteState
    <3> QED  BY <2>1, <3>1, <3>3
  <2> QED  BY <2>2, <2>3
<1> QED  BY <1>1, <1>2

(* The same for the command as PID 1 runs it, which may find itself superseded. *)
LEMMA PidRollbackTypes ==
    ASSUME StoreTypeOK, NEW done, PidRollback(done)
    PROVE  /\ cfg' \in Docs \cup {None}
           /\ clock' \in 0..MaxStamp
           /\ applyState' \in ApplyModes
           /\ restartFlag' \in BOOLEAN
  BY RollbackTypes DEF PidRollback

(* apply_config: begin, validate, roll back, validate again. *)
LEMMA ApplyConfigInv ==
    ASSUME Inv, ApplyConfig
    PROVE  Inv'
<1>1. CASE BeginEnv
  <2>1. StoreTypeOK'
    BY <1>1 DEF BeginEnv, LockFree, BeginAttempt
  <2>2. LandingTypeOK'
    BY <1>1 DEF BeginEnv, LockFree, BeginAttempt
  <2>3. ControlOK'
    BY <1>1 DEF BeginEnv, LockFree, BeginAttempt
  <2>4. FlagsOK'
    BY <1>1 DEF BeginEnv, LockFree, BeginAttempt
  <2>5. EngineOK'
    BY <1>1 DEF BeginEnv, LockFree, BeginAttempt
  <2>6. BootOK'
    BY <1>1 DEF BeginEnv, LockFree, BeginAttempt
  <2>7. AttemptInv' /\ BudgetInv' /\ FailedInv' /\ LockInv'
    BY <1>1 DEF BeginEnv, LockFree, BeginAttempt
  <2>8. VerdictInv' /\ EngineInv' /\ ServingIsVerified'
    BY <1>1 DEF BeginEnv, LockFree, BeginAttempt
  <2>9. NoLostUpdate'
    BY <1>1 DEF BeginEnv, LockFree, BeginAttempt
  <2>10. KnownGoodVerified' /\ AckedApplyKept'
    BY <1>1 DEF BeginEnv, LockFree, BeginAttempt
  <2> QED  BY <2>1, <2>2, <2>3, <2>4, <2>5, <2>6, <2>7, <2>8, <2>9, <2>10
<1>2. CASE BeginEnvFails
  BY <1>2 DEF BeginEnvFails, SpendFault, Return, Retry, Strike, ConfigFrame
<1>3. CASE Validate
  <2>1. StoreTypeOK'
    BY <1>3 DEF Validate, LockFree, Return, Retry, Strike, ConfigFrame, Superseded
  <2>2. LandingTypeOK'
    BY <1>3 DEF Validate, LockFree, Return, Retry, Strike, ConfigFrame, Superseded
  <2>3. ControlOK'
    BY <1>3 DEF Validate, LockFree, Return, Retry, Strike, ConfigFrame, Superseded
  <2>4. FlagsOK'
    BY <1>3 DEF Validate, LockFree, Return, Retry, Strike, ConfigFrame, Superseded
  <2>5. EngineOK'
    BY <1>3 DEF Validate, LockFree, Return, Retry, Strike, ConfigFrame, Superseded
  <2>6. BootOK'
    BY <1>3 DEF Validate, LockFree, Return, Retry, Strike, ConfigFrame, Superseded
  <2>7. AttemptInv' /\ BudgetInv' /\ FailedInv' /\ LockInv'
    BY <1>3 DEF Validate, LockFree, Return, Retry, Strike, ConfigFrame, Superseded
  <2>8. VerdictInv' /\ EngineInv' /\ ServingIsVerified'
    BY <1>3 DEF Validate, LockFree, Return, Retry, Strike, ConfigFrame, Superseded
  <2>9. NoLostUpdate'
    BY <1>3 DEF Validate, LockFree, Return, Retry, Strike, ConfigFrame, Superseded
  <2>10. KnownGoodVerified' /\ AckedApplyKept'
    BY <1>3 DEF Validate, LockFree, Return, Retry, Strike, ConfigFrame, Superseded
  <2> QED  BY <2>1, <2>2, <2>3, <2>4, <2>5, <2>6, <2>7, <2>8, <2>9, <2>10
<1>4. CASE ShouldRollbackInvalid
  BY <1>4 DEF ShouldRollbackInvalid, LockFree, Return, Retry, Strike, ConfigFrame
<1>5. CASE RollbackInvalid
  <2>1. StoreTypeOK'
    <3>1. PICK done \in BOOLEAN : PidRollback(done)
      BY <1>5 DEF RollbackInvalid
    <3> QED  BY <1>5, <3>1, PidRollbackTypes DEF RollbackInvalid, ConfigFrame
  <2>2. LandingTypeOK'
    BY <1>5 DEF RollbackInvalid, LockFree, Return, Retry, Strike, ConfigFrame,
       PidRollback, Superseded, Rollback, WriteState, Minimize
  <2>3. ControlOK'
    BY <1>5 DEF RollbackInvalid, LockFree, Return, Retry, Strike, ConfigFrame,
       PidRollback, Superseded, Rollback, WriteState, Minimize
  <2>4. FlagsOK'
    BY <1>5 DEF RollbackInvalid, LockFree, Return, Retry, Strike, ConfigFrame,
       PidRollback, Superseded, Rollback, WriteState, Minimize
  <2>5. EngineOK'
    BY <1>5 DEF RollbackInvalid, LockFree, Return, Retry, Strike, ConfigFrame,
       PidRollback, Superseded, Rollback, WriteState, Minimize
  <2>6. BootOK'
    BY <1>5 DEF RollbackInvalid, LockFree, Return, Retry, Strike, ConfigFrame,
       PidRollback, Superseded, Rollback, WriteState, Minimize
  <2>7. AttemptInv' /\ BudgetInv' /\ FailedInv' /\ LockInv'
    BY <1>5 DEF RollbackInvalid, LockFree, Return, Retry, Strike, ConfigFrame,
       PidRollback, Superseded, Rollback, WriteState, Minimize
  <2>8. VerdictInv' /\ EngineInv' /\ ServingIsVerified'
    BY <1>5 DEF RollbackInvalid, LockFree, Return, Retry, Strike, ConfigFrame,
       PidRollback, Superseded, Rollback, WriteState, Minimize
  <2>9. NoLostUpdate'
    BY <1>5 DEF RollbackInvalid, LockFree, Return, Retry, Strike, ConfigFrame,
       PidRollback, Superseded, Rollback, WriteState, Minimize
  <2>10. KnownGoodVerified' /\ AckedApplyKept'
    BY <1>5 DEF RollbackInvalid, LockFree, Return, Retry, Strike, ConfigFrame,
       PidRollback, Superseded, Rollback, WriteState, Minimize
  <2> QED  BY <2>1, <2>2, <2>3, <2>4, <2>5, <2>6, <2>7, <2>8, <2>9, <2>10
<1>6. CASE ValidateAgain
  <2>1. StoreTypeOK'
    BY <1>6 DEF ValidateAgain, LockFree, Return, Retry, Strike, ConfigFrame, Superseded
  <2>2. LandingTypeOK'
    BY <1>6 DEF ValidateAgain, LockFree, Return, Retry, Strike, ConfigFrame, Superseded
  <2>3. ControlOK'
    BY <1>6 DEF ValidateAgain, LockFree, Return, Retry, Strike, ConfigFrame, Superseded
  <2>4. FlagsOK'
    BY <1>6 DEF ValidateAgain, LockFree, Return, Retry, Strike, ConfigFrame, Superseded
  <2>5. EngineOK'
    BY <1>6 DEF ValidateAgain, LockFree, Return, Retry, Strike, ConfigFrame, Superseded
  <2>6. BootOK'
    BY <1>6 DEF ValidateAgain, LockFree, Return, Retry, Strike, ConfigFrame, Superseded
  <2>7. AttemptInv' /\ BudgetInv' /\ FailedInv' /\ LockInv'
    BY <1>6 DEF ValidateAgain, LockFree, Return, Retry, Strike, ConfigFrame, Superseded
  <2>8. VerdictInv' /\ EngineInv' /\ ServingIsVerified'
    BY <1>6 DEF ValidateAgain, LockFree, Return, Retry, Strike, ConfigFrame, Superseded
  <2>9. NoLostUpdate'
    BY <1>6 DEF ValidateAgain, LockFree, Return, Retry, Strike, ConfigFrame, Superseded
  <2>10. KnownGoodVerified' /\ AckedApplyKept'
    BY <1>6 DEF ValidateAgain, LockFree, Return, Retry, Strike, ConfigFrame, Superseded
  <2> QED  BY <2>1, <2>2, <2>3, <2>4, <2>5, <2>6, <2>7, <2>8, <2>9, <2>10
<1> QED
  BY <1>1, <1>2, <1>3, <1>4, <1>5, <1>6 DEF ApplyConfig

(* Checkpoint preparation, its rollback, and the launch. *)
LEMMA PrepareInv ==
    ASSUME Inv, Prepare
    PROVE  Inv'
<1>1. CASE PrepareOk
  BY <1>1 DEF PrepareOk, PrepareFrame
<1>2. CASE PrepareFails
  BY <1>2 DEF PrepareFails, SpendFault, PrepareFrame
<1>3. CASE PrepareFailed
  BY <1>3 DEF PrepareFailed, StartOver, Retry, Strike, PrepareFrame
<1>4. CASE PrepareShouldRollback
  BY <1>4 DEF PrepareShouldRollback, LockFree, Retry, PrepareFrame
<1>5. CASE PrepareRollback
  <2>1. StoreTypeOK'
    <3>1. PICK done \in BOOLEAN : PidRollback(done)
      BY <1>5 DEF PrepareRollback
    <3> QED  BY <1>5, <3>1, PidRollbackTypes DEF PrepareRollback, PrepareFrame
  <2>2. LandingTypeOK'
    BY <1>5 DEF PrepareRollback, LockFree, StartOver, Retry, PrepareFrame, PidRollback,
       Rollback, WriteState, Minimize
  <2>3. ControlOK'
    BY <1>5 DEF PrepareRollback, LockFree, StartOver, Retry, PrepareFrame, PidRollback,
       Rollback, WriteState, Minimize
  <2>4. FlagsOK'
    BY <1>5 DEF PrepareRollback, LockFree, StartOver, Retry, PrepareFrame, PidRollback,
       Rollback, WriteState, Minimize
  <2>5. EngineOK'
    BY <1>5 DEF PrepareRollback, LockFree, StartOver, Retry, PrepareFrame, PidRollback,
       Rollback, WriteState, Minimize
  <2>6. BootOK'
    BY <1>5 DEF PrepareRollback, LockFree, StartOver, Retry, PrepareFrame, PidRollback,
       Rollback, WriteState, Minimize
  <2>7. AttemptInv' /\ BudgetInv' /\ FailedInv' /\ LockInv'
    BY <1>5 DEF PrepareRollback, LockFree, StartOver, Retry, PrepareFrame, PidRollback,
       Rollback, WriteState, Minimize
  <2>8. VerdictInv' /\ EngineInv' /\ ServingIsVerified'
    BY <1>5 DEF PrepareRollback, LockFree, StartOver, Retry, PrepareFrame, PidRollback,
       Rollback, WriteState, Minimize
  <2>9. NoLostUpdate'
    BY <1>5 DEF PrepareRollback, LockFree, StartOver, Retry, PrepareFrame, PidRollback,
       Rollback, WriteState, Minimize
  <2>10. KnownGoodVerified' /\ AckedApplyKept'
    BY <1>5 DEF PrepareRollback, LockFree, StartOver, Retry, PrepareFrame, PidRollback,
       Rollback, WriteState, Minimize
  <2> QED  BY <2>1, <2>2, <2>3, <2>4, <2>5, <2>6, <2>7, <2>8, <2>9, <2>10
<1>6. CASE FlagCheck
  BY <1>6 DEF FlagCheck, StartOver, PrepareFrame
<1>7. CASE Launch
  <2>1. StoreTypeOK'
    BY <1>7 DEF Launch, ClearVerdict, PrepareFrame
  <2>2. LandingTypeOK'
    BY <1>7 DEF Launch, ClearVerdict, PrepareFrame
  <2>3. ControlOK'
    BY <1>7 DEF Launch, ClearVerdict, PrepareFrame
  <2>4. FlagsOK'
    BY <1>7 DEF Launch, ClearVerdict, PrepareFrame
  <2>5. EngineOK'
    BY <1>7 DEF Launch, ClearVerdict, PrepareFrame
  <2>6. BootOK'
    BY <1>7 DEF Launch, ClearVerdict, PrepareFrame
  <2>7. AttemptInv' /\ BudgetInv' /\ FailedInv' /\ LockInv'
    BY <1>7 DEF Launch, ClearVerdict, PrepareFrame
  <2>8. VerdictInv' /\ EngineInv' /\ ServingIsVerified'
    BY <1>7 DEF Launch, ClearVerdict, PrepareFrame
  <2>9. NoLostUpdate'
    BY <1>7 DEF Launch, ClearVerdict, PrepareFrame
  <2>10. KnownGoodVerified' /\ AckedApplyKept'
    BY <1>7 DEF Launch, ClearVerdict, PrepareFrame
  <2> QED  BY <2>1, <2>2, <2>3, <2>4, <2>5, <2>6, <2>7, <2>8, <2>9, <2>10
<1>8. CASE LaunchFails
  BY <1>8 DEF LaunchFails, SpendFault, ClearVerdict, Strike, PrepareFrame
<1> QED
  BY <1>1, <1>2, <1>3, <1>4, <1>5, <1>6, <1>7, <1>8 DEF Prepare

(* The poll loop and its ways out. *)
LEMMA PollInv ==
    ASSUME Inv, Poll
    PROVE  Inv'
<1>1. CASE PollTerminate
  <2>1. StoreTypeOK'
    BY <1>1 DEF PollTerminate, StopEngine, PollFrame
  <2>2. LandingTypeOK'
    BY <1>1 DEF PollTerminate, StopEngine, PollFrame
  <2>3. ControlOK'
    BY <1>1 DEF PollTerminate, StopEngine, PollFrame
  <2>4. FlagsOK'
    BY <1>1 DEF PollTerminate, StopEngine, PollFrame
  <2>5. EngineOK'
    BY <1>1 DEF PollTerminate, StopEngine, PollFrame
  <2>6. BootOK'
    BY <1>1 DEF PollTerminate, StopEngine, PollFrame
  <2>7. AttemptInv' /\ BudgetInv' /\ FailedInv' /\ LockInv'
    BY <1>1 DEF PollTerminate, StopEngine, PollFrame
  <2>8. VerdictInv' /\ EngineInv' /\ ServingIsVerified'
    BY <1>1 DEF PollTerminate, StopEngine, PollFrame
  <2>9. NoLostUpdate'
    BY <1>1 DEF PollTerminate, StopEngine, PollFrame
  <2>10. KnownGoodVerified' /\ AckedApplyKept'
    BY <1>1 DEF PollTerminate, StopEngine, PollFrame
  <2> QED  BY <2>1, <2>2, <2>3, <2>4, <2>5, <2>6, <2>7, <2>8, <2>9, <2>10
<1>2. CASE PollRestart
  BY <1>2 DEF PollRestart, Requested, StopEngine, StartOver, PollFrame
<1>3. CASE PollCertificate
  BY <1>3 DEF PollCertificate, SpendFault, Requested, StopEngine, StartOver, PollFrame
<1>4. CASE PollPid
  BY <1>4 DEF PollPid, FailedBoot, StopEngine, PollFrame
<1>5. CASE PollVerify
  <2>1. StoreTypeOK'
    BY <1>5 DEF PollVerify, SpendFault, PollFrame
  <2>2. LandingTypeOK'
    BY <1>5 DEF PollVerify, SpendFault, PollFrame
  <2>3. ControlOK'
    BY <1>5 DEF PollVerify, SpendFault, PollFrame
  <2>4. FlagsOK'
    BY <1>5 DEF PollVerify, SpendFault, PollFrame
  <2>5. EngineOK'
    BY <1>5 DEF PollVerify, SpendFault, PollFrame
  <2>6. BootOK'
    BY <1>5 DEF PollVerify, SpendFault, PollFrame
  <2>7. AttemptInv' /\ BudgetInv' /\ FailedInv' /\ LockInv'
    BY <1>5 DEF PollVerify, SpendFault, PollFrame
  <2>8. VerdictInv' /\ EngineInv' /\ ServingIsVerified'
    BY <1>5 DEF PollVerify, SpendFault, PollFrame
  <2>9. NoLostUpdate'
    BY <1>5 DEF PollVerify, SpendFault, PollFrame
  <2>10. KnownGoodVerified' /\ AckedApplyKept'
    BY <1>5 DEF PollVerify, SpendFault, PollFrame
  <2> QED  BY <2>1, <2>2, <2>3, <2>4, <2>5, <2>6, <2>7, <2>8, <2>9, <2>10
<1>6. CASE MarkGoodStep
  BY <1>6 DEF MarkGoodStep, LockFree, Superseded, MarkGood, Requested, StopEngine,
     StartOver, PollFrame
<1>7. CASE MarkGoodFails
  BY <1>7 DEF MarkGoodFails, LockFree, Superseded, SpendFault, FailedBoot, StopEngine,
     PollFrame
<1>8. CASE VerdictShouldRollback
  BY <1>8 DEF VerdictShouldRollback, LockFree, Requested, FailedBoot, StopEngine,
     StartOver, PollFrame
<1>9. CASE MarkUnverified
  BY <1>9 DEF MarkUnverified, LockFree, Requested, StopEngine, StartOver, PollFrame
<1>10. CASE FailShouldRollback
  BY <1>10 DEF FailShouldRollback, LockFree, StartOver, Retry, Strike, PollFrame
<1>11. CASE FailRollback
  <2>1. StoreTypeOK'
    <3>1. PICK done \in BOOLEAN : PidRollback(done)
      BY <1>11 DEF FailRollback
    <3> QED  BY <1>11, <3>1, PidRollbackTypes DEF FailRollback, PollFrame
  <2>2. LandingTypeOK'
    BY <1>11 DEF FailRollback, LockFree, PidRollback, Rollback, WriteState, Minimize,
       StartOver, PollFrame
  <2>3. ControlOK'
    BY <1>11 DEF FailRollback, LockFree, PidRollback, Rollback, WriteState, Minimize,
       StartOver, PollFrame
  <2>4. FlagsOK'
    BY <1>11 DEF FailRollback, LockFree, PidRollback, Rollback, WriteState, Minimize,
       StartOver, PollFrame
  <2>5. EngineOK'
    BY <1>11 DEF FailRollback, LockFree, PidRollback, Rollback, WriteState, Minimize,
       StartOver, PollFrame
  <2>6. BootOK'
    BY <1>11 DEF FailRollback, LockFree, PidRollback, Rollback, WriteState, Minimize,
       StartOver, PollFrame
  <2>7. AttemptInv' /\ BudgetInv' /\ FailedInv' /\ LockInv'
    BY <1>11 DEF FailRollback, LockFree, PidRollback, Rollback, WriteState, Minimize,
       StartOver, PollFrame
  <2>8. VerdictInv' /\ EngineInv' /\ ServingIsVerified'
    BY <1>11 DEF FailRollback, LockFree, PidRollback, Rollback, WriteState, Minimize,
       StartOver, PollFrame
  <2>9. NoLostUpdate'
    BY <1>11 DEF FailRollback, LockFree, PidRollback, Rollback, WriteState, Minimize,
       StartOver, PollFrame
  <2>10. KnownGoodVerified' /\ AckedApplyKept'
    BY <1>11 DEF FailRollback, LockFree, PidRollback, Rollback, WriteState, Minimize,
       StartOver, PollFrame
  <2> QED  BY <2>1, <2>2, <2>3, <2>4, <2>5, <2>6, <2>7, <2>8, <2>9, <2>10
<1>12. CASE SeeCancelled
  BY <1>12 DEF SeeCancelled, PollFrame
<1>13. CASE Resume
  <2>1. StoreTypeOK'
    BY <1>13 DEF Resume, StartOver, PollFrame
  <2>2. LandingTypeOK'
    BY <1>13 DEF Resume, StartOver, PollFrame
  <2>3. ControlOK'
    BY <1>13 DEF Resume, StartOver, PollFrame
  <2>4. FlagsOK'
    BY <1>13 DEF Resume, StartOver, PollFrame
  <2>5. EngineOK'
    BY <1>13 DEF Resume, StartOver, PollFrame
  <2>6. BootOK'
    BY <1>13 DEF Resume, StartOver, PollFrame
  <2>7. AttemptInv' /\ BudgetInv' /\ FailedInv' /\ LockInv'
    BY <1>13 DEF Resume, StartOver, PollFrame
  <2>8. VerdictInv' /\ EngineInv' /\ ServingIsVerified'
    BY <1>13 DEF Resume, StartOver, PollFrame
  <2>9. NoLostUpdate'
    BY <1>13 DEF Resume, StartOver, PollFrame
  <2>10. KnownGoodVerified' /\ AckedApplyKept'
    BY <1>13 DEF Resume, StartOver, PollFrame
  <2> QED  BY <2>1, <2>2, <2>3, <2>4, <2>5, <2>6, <2>7, <2>8, <2>9, <2>10
<1> QED
  BY <1>1, <1>2, <1>3, <1>4, <1>5, <1>6, <1>7, <1>8, <1>9, <1>10, <1>11, <1>12, <1>13
     DEF Poll

(* Every command of PID 1. *)
LEMMA Pid1Inv ==
    ASSUME Inv, Pid1
    PROVE  Inv'
<1>1. CASE ClearRestart
  <2>1. StoreTypeOK'
    BY <1>1 DEF ClearRestart
  <2>2. LandingTypeOK'
    BY <1>1 DEF ClearRestart
  <2>3. ControlOK'
    BY <1>1 DEF ClearRestart
  <2>4. FlagsOK'
    BY <1>1 DEF ClearRestart
  <2>5. EngineOK'
    BY <1>1 DEF ClearRestart
  <2>6. BootOK'
    BY <1>1 DEF ClearRestart
  <2>7. AttemptInv' /\ BudgetInv' /\ FailedInv' /\ LockInv'
    BY <1>1 DEF ClearRestart
  <2>8. VerdictInv' /\ EngineInv' /\ ServingIsVerified'
    BY <1>1 DEF ClearRestart
  <2>9. NoLostUpdate'
    BY <1>1 DEF ClearRestart
  <2>10. KnownGoodVerified' /\ AckedApplyKept'
    BY <1>1 DEF ClearRestart
  <2> QED  BY <2>1, <2>2, <2>3, <2>4, <2>5, <2>6, <2>7, <2>8, <2>9, <2>10
<1>2. CASE ApplyConfig
  BY <1>2, ApplyConfigInv
<1>3. CASE Prepare
  BY <1>3, PrepareInv
<1>4. CASE Poll
  BY <1>4, PollInv
<1> QED
  BY <1>1, <1>2, <1>3, <1>4 DEF Pid1

(* The landing page's handlers and the operator's shell.  They run only while
   PID 1 is past its initial apply_config, so a boot has begun. *)
LEMMA OperatorInv ==
    ASSUME Inv, Operator
    PROVE  Inv'
<1> USE DEF Operator, PageUp, CountStrikes
<1>1. CASE \E t \in Tabs : Render(t)
  BY <1>1 DEF Render
<1>2. CASE \E t \in Tabs : StartReset(t)
  <2>1. StoreTypeOK'
    BY <1>2 DEF StartReset, SpendOp, Fresh
  <2>2. LandingTypeOK'
    BY <1>2 DEF StartReset, SpendOp, Fresh
  <2>3. ControlOK'
    BY <1>2 DEF StartReset, SpendOp, Fresh
  <2>4. FlagsOK'
    BY <1>2 DEF StartReset, SpendOp, Fresh
  <2>5. EngineOK'
    BY <1>2 DEF StartReset, SpendOp, Fresh
  <2>6. BootOK'
    BY <1>2 DEF StartReset, SpendOp, Fresh
  <2>7. AttemptInv' /\ BudgetInv' /\ FailedInv' /\ LockInv'
    BY <1>2 DEF StartReset, SpendOp, Fresh
  <2>8. VerdictInv' /\ EngineInv' /\ ServingIsVerified'
    BY <1>2 DEF StartReset, SpendOp, Fresh
  <2>9. NoLostUpdate'
    BY <1>2 DEF StartReset, SpendOp, Fresh
  <2>10. KnownGoodVerified' /\ AckedApplyKept'
    BY <1>2 DEF StartReset, SpendOp, Fresh
  <2> QED  BY <2>1, <2>2, <2>3, <2>4, <2>5, <2>6, <2>7, <2>8, <2>9, <2>10
<1>3. CASE \E t \in Tabs, c \in Configs : StartApply(t, c)
  <2>1. StoreTypeOK'
    BY <1>3 DEF StartApply, SpendOp, Fresh, Minimize
  <2>2. LandingTypeOK'
    BY <1>3 DEF StartApply, SpendOp, Fresh, Minimize
  <2>3. ControlOK'
    BY <1>3 DEF StartApply, SpendOp, Fresh, Minimize
  <2>4. FlagsOK'
    BY <1>3 DEF StartApply, SpendOp, Fresh, Minimize
  <2>5. EngineOK'
    BY <1>3 DEF StartApply, SpendOp, Fresh, Minimize
  <2>6. BootOK'
    BY <1>3 DEF StartApply, SpendOp, Fresh, Minimize
  <2>7. AttemptInv' /\ BudgetInv' /\ FailedInv' /\ LockInv'
    BY <1>3 DEF StartApply, SpendOp, Fresh, Minimize
  <2>8. VerdictInv' /\ EngineInv' /\ ServingIsVerified'
    BY <1>3 DEF StartApply, SpendOp, Fresh, Minimize
  <2>9. NoLostUpdate'
    BY <1>3 DEF StartApply, SpendOp, Fresh, Minimize
  <2>10. KnownGoodVerified' /\ AckedApplyKept'
    BY <1>3 DEF StartApply, SpendOp, Fresh, Minimize
  <2> QED  BY <2>1, <2>2, <2>3, <2>4, <2>5, <2>6, <2>7, <2>8, <2>9, <2>10
<1>4. CASE HandlerWrites
  BY <1>4 DEF HandlerWrites, WriteState
<1>5. CASE HandlerSetsTrial
  BY <1>5 DEF HandlerSetsTrial
<1>6. CASE HandlerRequestsRestart
  BY <1>6 DEF HandlerRequestsRestart, Idle
<1>7. CASE LandingDies
  BY <1>7 DEF LandingDies, SpendFault, Idle
<1>8. CASE RequestRestart
  BY <1>8 DEF RequestRestart, SpendOp
<1>9. CASE ManualRollback
  <2>1. StoreTypeOK'
    <3>1. PICK done \in BOOLEAN : Rollback(Effective, StateValues(cfg), done)
      BY <1>9 DEF ManualRollback
    <3> QED  BY <1>9, <3>1, RollbackTypes DEF ManualRollback
  <2>2. LandingTypeOK'
    BY <1>9 DEF ManualRollback, LockFree, SpendOp, Rollback, WriteState, Minimize
  <2>3. ControlOK'
    BY <1>9 DEF ManualRollback, LockFree, SpendOp, Rollback, WriteState, Minimize
  <2>4. FlagsOK'
    BY <1>9 DEF ManualRollback, LockFree, SpendOp, Rollback, WriteState, Minimize
  <2>5. EngineOK'
    BY <1>9 DEF ManualRollback, LockFree, SpendOp, Rollback, WriteState, Minimize
  <2>6. BootOK'
    BY <1>9 DEF ManualRollback, LockFree, SpendOp, Rollback, WriteState, Minimize
  <2>7. AttemptInv' /\ BudgetInv' /\ FailedInv' /\ LockInv'
    BY <1>9 DEF ManualRollback, LockFree, SpendOp, Rollback, WriteState, Minimize
  <2>8. VerdictInv' /\ EngineInv' /\ ServingIsVerified'
    BY <1>9 DEF ManualRollback, LockFree, SpendOp, Rollback, WriteState, Minimize
  <2>9. NoLostUpdate'
    BY <1>9 DEF ManualRollback, LockFree, SpendOp, Rollback, WriteState, Minimize
  <2>10. KnownGoodVerified' /\ AckedApplyKept'
    BY <1>9 DEF ManualRollback, LockFree, SpendOp, Rollback, WriteState, Minimize
  <2> QED  BY <2>1, <2>2, <2>3, <2>4, <2>5, <2>6, <2>7, <2>8, <2>9, <2>10
<1>10. CASE ManualMarkGood
  BY <1>10 DEF ManualMarkGood, SpendOp, MarkGood
<1>11. CASE ManualBegin
  BY <1>11 DEF ManualBegin, SpendOp, BeginAttempt
<1> QED
  BY <1>1, <1>2, <1>3, <1>4, <1>5, <1>6, <1>7, <1>8, <1>9, <1>10, <1>11 DEF Submit,
     Handler, Manual

(* The engine, its verifier, the terminate worker and a container restart. *)
LEMMA EnvironmentInv ==
    ASSUME Inv, EngineDies \/ Verifier \/ VerifierKilled \/ Worker \/ ContainerRestart
    PROVE  Inv'
<1>1. CASE EngineDies
  BY <1>1 DEF EngineDies, SpendFault, EngineFrame
<1>2. CASE VerifierPasses
  BY <1>2 DEF VerifierPasses, EngineFrame
<1>3. CASE VerifierFails
  BY <1>3 DEF VerifierFails, SpendFault, EngineFrame
<1>4. CASE VerifierKilled
  BY <1>4 DEF VerifierKilled, SpendFault, EngineFrame
<1>5. CASE Worker
  <2>1. StoreTypeOK'
    BY <1>5 DEF Worker, WorkerStops, WorkerCancels, WorkerFrame, SpendOp
  <2>2. LandingTypeOK'
    BY <1>5 DEF Worker, WorkerStops, WorkerCancels, WorkerFrame, SpendOp
  <2>3. ControlOK'
    BY <1>5 DEF Worker, WorkerStops, WorkerCancels, WorkerFrame, SpendOp
  <2>4. FlagsOK'
    BY <1>5 DEF Worker, WorkerStops, WorkerCancels, WorkerFrame, SpendOp
  <2>5. EngineOK'
    BY <1>5 DEF Worker, WorkerStops, WorkerCancels, WorkerFrame, SpendOp
  <2>6. BootOK'
    BY <1>5 DEF Worker, WorkerStops, WorkerCancels, WorkerFrame, SpendOp
  <2>7. AttemptInv' /\ BudgetInv' /\ FailedInv' /\ LockInv'
    BY <1>5 DEF Worker, WorkerStops, WorkerCancels, WorkerFrame, SpendOp
  <2>8. VerdictInv' /\ EngineInv' /\ ServingIsVerified'
    BY <1>5 DEF Worker, WorkerStops, WorkerCancels, WorkerFrame, SpendOp
  <2>9. NoLostUpdate'
    BY <1>5 DEF Worker, WorkerStops, WorkerCancels, WorkerFrame, SpendOp
  <2>10. KnownGoodVerified' /\ AckedApplyKept'
    BY <1>5 DEF Worker, WorkerStops, WorkerCancels, WorkerFrame, SpendOp
  <2> QED  BY <2>1, <2>2, <2>3, <2>4, <2>5, <2>6, <2>7, <2>8, <2>9, <2>10
<1>6. CASE ContainerRestart
  <2>1. StoreTypeOK'
    BY <1>6 DEF ContainerRestart, SpendFault, Idle
  <2>2. LandingTypeOK'
    BY <1>6 DEF ContainerRestart, SpendFault, Idle
  <2>3. ControlOK'
    BY <1>6 DEF ContainerRestart, SpendFault, Idle
  <2>4. FlagsOK'
    BY <1>6 DEF ContainerRestart, SpendFault, Idle
  <2>5. EngineOK'
    BY <1>6 DEF ContainerRestart, SpendFault, Idle
  <2>6. BootOK'
    BY <1>6 DEF ContainerRestart, SpendFault, Idle
  <2>7. AttemptInv' /\ BudgetInv' /\ FailedInv' /\ LockInv'
    BY <1>6 DEF ContainerRestart, SpendFault, Idle
  <2>8. VerdictInv' /\ EngineInv' /\ ServingIsVerified'
    BY <1>6 DEF ContainerRestart, SpendFault, Idle
  <2>9. NoLostUpdate'
    BY <1>6 DEF ContainerRestart, SpendFault, Idle
  <2>10. KnownGoodVerified' /\ AckedApplyKept'
    BY <1>6 DEF ContainerRestart, SpendFault, Idle
  <2> QED  BY <2>1, <2>2, <2>3, <2>4, <2>5, <2>6, <2>7, <2>8, <2>9, <2>10
<1> QED
  BY <1>1, <1>2, <1>3, <1>4, <1>5, <1>6 DEF Verifier

(* A stuttering step. *)
LEMMA StutterInv ==
    ASSUME Inv, UNCHANGED vars
    PROVE  Inv'
  BY DEF vars, supVars

(* Inv is inductive. *)
LEMMA NextInv == Inv /\ [Next]_vars => Inv'
  BY Pid1Inv, OperatorInv, EnvironmentInv, StutterInv DEF Next

(* The invariant holds in every reachable state. *)
THEOREM Invariant == Spec => []Inv
<1> HIDE DEF Inv, Init, Next, vars
<1> QED  BY InitInv, NextInv, PTL DEF Spec

(* The type invariant, for any number of tabs, configurations and environments. *)
THEOREM TypeCorrect == Spec => []TypeOK
<1>1. Inv => TypeOK
  BY DEF Inv
<1> HIDE DEF Inv, TypeOK
<1> QED  BY <1>1, Invariant, PTL

(* No acknowledged apply is swallowed by a boot that has already read its
   configuration. *)
THEOREM NoAckLost == Spec => []AckedApplyKept
<1>1. Inv => AckedApplyKept
  BY DEF Inv
<1> HIDE DEF Inv, AckedApplyKept
<1> QED  BY <1>1, Invariant, PTL

(* No update is lost: what a page is about to replace is what it was shown. *)
THEOREM UpdatesAreKept == Spec => []NoLostUpdate
<1>1. Inv => NoLostUpdate
  BY DEF Inv
<1> HIDE DEF Inv, NoLostUpdate
<1> QED  BY <1>1, Invariant, PTL

(* An engine only runs a configuration that validated on this host; known-good.json
   holds one a verifier passed; "serving" rests on this boot's own verifier; and
   the answer to the terminate worker is withdrawn before the next engine. *)
THEOREM EngineAlwaysJustified == Spec => []EngineIsJustified
<1>1. Inv => NeverRunsInvalid
  BY DEF NeverRunsInvalid
<1>2. Inv => StoppedMeansStopped
  BY DEF StoppedMeansStopped
<1>3. Inv => EngineIsJustified
  BY <1>1, <1>2 DEF Inv, EngineIsJustified
<1> HIDE DEF Inv, EngineIsJustified
<1> QED  BY <1>3, Invariant, PTL

(* Only the three rollback commands of PID 1 move both pc and config.json, and
   each of them acts only while its boot is not superseded; FailedInv says that
   boot has failed. *)
LEMMA RollbackStep ==
    ASSUME Inv, Next, cfg' # cfg, pc' # pc
    PROVE  cfg \in failedDocs
<1>1. PICK done \in BOOLEAN : PidRollback(done) /\ pc \in {"rollback", "prepRollback", "failRollback"}
  <2>1. CASE ClearRestart
    BY <2>1 DEF ClearRestart
  <2>2. CASE ApplyConfig
    BY <2>2 DEF ApplyConfig, BeginEnv, BeginEnvFails, Validate, ShouldRollbackInvalid,
       RollbackInvalid, ValidateAgain
  <2>3. CASE Prepare
    BY <2>3 DEF Prepare, PrepareOk, PrepareFails, PrepareFailed, PrepareShouldRollback,
       PrepareRollback, FlagCheck, Launch, LaunchFails
  <2>4. CASE Poll
    BY <2>4 DEF Poll, PollTerminate, PollRestart, PollCertificate, PollPid, PollVerify,
       MarkGoodStep, MarkGoodFails, VerdictShouldRollback, MarkUnverified,
       FailShouldRollback, FailRollback, SeeCancelled, Resume
  <2>5. CASE Operator
    BY <2>5 DEF Operator
  <2>6. CASE EngineDies \/ Verifier \/ VerifierKilled
    BY <2>6 DEF EngineDies, Verifier, VerifierPasses, VerifierFails, VerifierKilled, EngineFrame
  <2>7. CASE Worker
    BY <2>7 DEF Worker, WorkerStops, WorkerCancels, WorkerFrame
  <2>8. CASE ContainerRestart
    BY <2>8 DEF ContainerRestart
  <2> QED  BY <2>1, <2>2, <2>3, <2>4, <2>5, <2>6, <2>7, <2>8 DEF Next, Pid1
<1>2. ~Superseded
  BY <1>1 DEF PidRollback
<1>3. bootAttempt.owner = "pid1" /\ bootAttempt.id = cfg
  BY <1>2 DEF Superseded
<1> QED  BY <1>1, <1>3

(* PID 1 never replaces contents of config.json that it has not seen fail. *)
THEOREM RollbackIsJustified == Spec => RollbackOnlyFailed
<1>1. Inv /\ [Next]_vars => [cfg' # cfg /\ pc' # pc => cfg \in failedDocs]_vars
  BY RollbackStep
<1> HIDE DEF Inv, Init, Next, vars
<1> QED  BY <1>1, Invariant, PTL DEF Spec, RollbackOnlyFailed

-----------------------------------------------------------------------------
(* Refinement: RefineInv is inductive relative to Inv; under both, each step
   of the appliance is a step of the engine's life or leaves the abstract
   state alone. *)

USE DEF RefineInv, PCs, ConfigSteps, PrepareSteps, PollSteps, ExitSteps, Stopped,
        storeVars, landingVars, EngineVars, FlagVars

(* apply_config and the commands before the launch keep RefineInv. *)
LEMMA ApplyConfigRefineInv ==
    ASSUME Inv, RefineInv, ClearRestart \/ ApplyConfig
    PROVE  RefineInv'
<1>1. CASE ClearRestart
  BY <1>1 DEF ClearRestart
<1>2. CASE BeginEnv
  BY <1>2 DEF BeginEnv
<1>3. CASE BeginEnvFails
  BY <1>3 DEF BeginEnvFails, ConfigFrame, Return, Retry
<1>4. CASE Validate
  BY <1>4 DEF Validate, ConfigFrame, Return, Retry
<1>5. CASE ShouldRollbackInvalid
  BY <1>5 DEF ShouldRollbackInvalid, ConfigFrame, Return, Retry
<1>6. CASE RollbackInvalid
  BY <1>6 DEF RollbackInvalid, ConfigFrame, Return, Retry
<1>7. CASE ValidateAgain
  <2>1. \E rc \in {0, 2, 3} : Return(rc)
    BY <1>7 DEF ValidateAgain
  <2>2. UNCHANGED EngineVars /\ pc = "validate2"
    BY <1>7 DEF ValidateAgain, ConfigFrame
  <2> QED  BY <2>1, <2>2 DEF Return, Retry
<1> QED  BY <1>1, <1>2, <1>3, <1>4, <1>5, <1>6, <1>7 DEF ApplyConfig

(* Preparation and launch. *)
LEMMA PrepareRefineInv ==
    ASSUME Inv, RefineInv, Prepare
    PROVE  RefineInv'
<1>1. CASE PrepareOk
  BY <1>1 DEF PrepareOk
<1>2. CASE PrepareFails
  BY <1>2 DEF PrepareFails
<1>3. CASE PrepareFailed
  BY <1>3 DEF PrepareFailed, StartOver, Retry
<1>4. CASE PrepareShouldRollback
  BY <1>4 DEF PrepareShouldRollback, Retry
<1>5. CASE PrepareRollback
  BY <1>5 DEF PrepareRollback, StartOver, Retry
<1>6. CASE FlagCheck
  BY <1>6 DEF FlagCheck, StartOver
<1>7. CASE Launch
  BY <1>7 DEF Launch, ClearVerdict
<1>8. CASE LaunchFails
  BY <1>8 DEF LaunchFails, ClearVerdict
<1> QED  BY <1>1, <1>2, <1>3, <1>4, <1>5, <1>6, <1>7, <1>8 DEF Prepare

(* The poll loop and its ways out. *)
LEMMA PollRefineInv ==
    ASSUME Inv, RefineInv, Poll
    PROVE  RefineInv'
<1> USE DEF StopEngine, Requested, FailedBoot, StartOver
<1>1. CASE PollTerminate
  BY <1>1 DEF PollTerminate
<1>2. CASE PollRestart
  BY <1>2 DEF PollRestart
<1>3. CASE PollCertificate
  BY <1>3 DEF PollCertificate
<1>4. CASE PollPid
  BY <1>4 DEF PollPid
<1>5. CASE PollVerify
  BY <1>5 DEF PollVerify, Inv, TypeOK, SupervisorTypeOK, EngineOK, Verdicts
<1>6. CASE MarkGoodStep
  BY <1>6 DEF MarkGoodStep
<1>7. CASE MarkGoodFails
  BY <1>7 DEF MarkGoodFails
<1>8. CASE VerdictShouldRollback
  BY <1>8 DEF VerdictShouldRollback
<1>9. CASE MarkUnverified
  BY <1>9 DEF MarkUnverified
<1>10. CASE FailShouldRollback
  BY <1>10 DEF FailShouldRollback, Retry
<1>11. CASE FailRollback
  BY <1>11 DEF FailRollback
<1>12. CASE SeeCancelled \/ Resume
  BY <1>12 DEF SeeCancelled, Resume
<1> QED
  BY <1>1, <1>2, <1>3, <1>4, <1>5, <1>6, <1>7, <1>8, <1>9, <1>10, <1>11, <1>12 DEF Poll

(* Everybody else, and stuttering. *)
LEMMA OthersRefineInv ==
    ASSUME Inv, RefineInv,
           Operator \/ EngineDies \/ Verifier \/ VerifierKilled \/ Worker
             \/ ContainerRestart \/ UNCHANGED vars
    PROVE  RefineInv'
<1>1. CASE Operator
  BY <1>1 DEF Operator
<1>2. CASE EngineDies
  BY <1>2 DEF EngineDies, EngineFrame
<1>3. CASE Verifier \/ VerifierKilled
  BY <1>3 DEF Verifier, VerifierPasses, VerifierFails, VerifierKilled, EngineFrame
<1>4. CASE Worker
  BY <1>4 DEF Worker, WorkerStops, WorkerCancels, WorkerFrame
<1>5. CASE ContainerRestart
  BY <1>5 DEF ContainerRestart
<1>6. CASE UNCHANGED vars
  BY <1>6 DEF vars, supVars
<1> QED  BY <1>1, <1>2, <1>3, <1>4, <1>5, <1>6

(* RefineInv is inductive relative to Inv. *)
LEMMA RefineInvInductive ==
    /\ Init => RefineInv
    /\ Inv /\ RefineInv /\ [Next]_vars => RefineInv'
<1>1. Init => RefineInv
  BY DEF Init, StoreInit, LandingInit, SupervisorInit
<1>2. Inv /\ RefineInv /\ [Next]_vars => RefineInv'
  <2> HIDE DEF Inv, RefineInv
  <2> QED
    BY ApplyConfigRefineInv, PrepareRefineInv, PollRefineInv, OthersRefineInv DEF Next, Pid1
<1> QED  BY <1>1, <1>2

(* While there is no engine, nothing PID 1 does is visible in the abstract
   state, except that known-good.json may be marked by hand. *)
LEMMA NoEngineStutter ==
    ASSUME engine = "none", engine' = "none", verifier = "off", verifier' = "off",
           UNCHANGED knownGood
    PROVE  UNCHANGED Lifecycle!vars
  BY DEF Lifecycle!vars, Running, Verdict, Claim

(* Putting the engine away is Stop. *)
LEMMA StopRefines ==
    ASSUME Inv, engine # "none", engine' = "none", verifier' = "off",
           \/ UNCHANGED knownGood
           \/ verifier = "passed" /\ knownGood' = exported
    PROVE  Lifecycle!Next
<1>1. exported # None
  BY DEF Inv, EngineInv, AttemptInv
<1>2. Lifecycle!Stop
  BY <1>1 DEF Lifecycle!Stop, Running, Verdict, Claim
<1> QED  BY <1>2 DEF Lifecycle!Next

(* Before the launch PID 1 has no engine; the launch is Start. *)
LEMMA BootRefines ==
    ASSUME Inv, RefineInv, RefineInv', ClearRestart \/ ApplyConfig \/ Prepare
    PROVE  Lifecycle!Next \/ UNCHANGED Lifecycle!vars
<1>1. engine = "none" /\ verifier = "off"
  BY DEF ClearRestart, ApplyConfig, BeginEnv, BeginEnvFails, Validate, ShouldRollbackInvalid,
     RollbackInvalid, ValidateAgain, Prepare, PrepareOk, PrepareFails, PrepareFailed,
     PrepareShouldRollback, PrepareRollback, FlagCheck, Launch, LaunchFails
<1>2. CASE Launch
  <2>1. exported \in Configs
    BY <1>2 DEF Launch, Inv, AttemptInv, TypeOK, SupervisorTypeOK, BootOK
  <2>2. Lifecycle!Start(exported)
    BY <1>1, <1>2, <2>1, StoreAssumption
    DEF Launch, PrepareFrame, Lifecycle!Start, Running, Verdict, Claim
  <2> QED  BY <2>1, <2>2 DEF Lifecycle!Next
<1>3. CASE ~Launch
  <2>1. engine' = "none" /\ UNCHANGED knownGood
    BY <1>1, <1>3 DEF ClearRestart, ApplyConfig, BeginEnv, BeginEnvFails, Validate,
       ShouldRollbackInvalid, RollbackInvalid, ValidateAgain, ConfigFrame, Prepare, PrepareOk,
       PrepareFails, PrepareFailed, PrepareShouldRollback, PrepareRollback, FlagCheck, LaunchFails
  <2> QED  BY <1>1, <2>1, NoEngineStutter
<1> QED  BY <1>2, <1>3

(* The poll loop stops the engine, accepts it or tolerates it. *)
LEMMA PollRefines ==
    ASSUME Inv, RefineInv, RefineInv', Poll
    PROVE  Lifecycle!Next \/ UNCHANGED Lifecycle!vars
<1> USE DEF StopEngine, Requested, FailedBoot, StartOver, PollFrame
<1>1. CASE engine = "none"
  <2>1. engine' = "none" /\ UNCHANGED knownGood
    BY <1>1 DEF Poll, PollTerminate, PollRestart, PollCertificate, PollPid, PollVerify,
       MarkGoodStep, MarkGoodFails, VerdictShouldRollback, MarkUnverified,
       FailShouldRollback, FailRollback, SeeCancelled, Resume
  <2> QED  BY <1>1, <2>1, NoEngineStutter
<1>2. CASE engine # "none" /\ engine' = "none"
  <2>1. \/ UNCHANGED knownGood
        \/ verifier = "passed" /\ knownGood' = exported
    <3>1. CASE MarkGoodFails
      <4>1. pc = "markGood" /\ ~Superseded
        BY <3>1 DEF MarkGoodFails
      <4>2. knownGood' = knownGood \/ knownGood' = bootAttempt.eff
        BY <3>1 DEF MarkGoodFails
      <4>3. bootAttempt.eff = exported /\ verifier = "passed"
        BY <4>1 DEF Superseded, Inv, AttemptInv, EngineInv
      <4> QED  BY <4>2, <4>3
    <3>2. CASE ~MarkGoodFails
      BY <1>2, <3>2 DEF Poll, PollTerminate, PollRestart, PollCertificate, PollPid, PollVerify,
         MarkGoodStep, VerdictShouldRollback, MarkUnverified,
         FailShouldRollback, FailRollback, SeeCancelled, Resume
    <3> QED  BY <3>1, <3>2
  <2> QED  BY <1>2, <2>1, StopRefines
<1>3. CASE engine # "none" /\ engine' # "none" /\ MarkGoodStep
  <2>1. bootAttempt.eff = exported /\ verifier = "passed"
    BY <1>3 DEF MarkGoodStep, Superseded, Inv, AttemptInv, EngineInv
  <2>2. Lifecycle!Accept
    BY <1>3, <2>1 DEF MarkGoodStep, MarkGood, Lifecycle!Accept, Running, Verdict, Claim
  <2> QED  BY <2>2 DEF Lifecycle!Next
<1>4. CASE engine # "none" /\ engine' # "none" /\ MarkUnverified
  <2>1. Lifecycle!Tolerate
    BY <1>4 DEF MarkUnverified, Lifecycle!Tolerate, Running, Verdict, Claim
  <2> QED  BY <2>1 DEF Lifecycle!Next
<1>5. CASE engine # "none" /\ engine' # "none" /\ ~MarkGoodStep /\ ~MarkUnverified
  <2>1. UNCHANGED <<engine, verifier, status, exported, knownGood>>
    BY <1>5 DEF Poll, PollTerminate, PollRestart, PollCertificate, PollPid, PollVerify,
       MarkGoodFails, VerdictShouldRollback, FailShouldRollback, FailRollback,
       SeeCancelled, Resume
  <2> QED  BY <2>1 DEF Lifecycle!vars, Running, Verdict, Claim
<1> QED  BY <1>1, <1>2, <1>3, <1>4, <1>5

(* The verifier judges; an operator vouches; a container stop is Stop. *)
LEMMA OthersRefine ==
    ASSUME Inv, RefineInv, RefineInv',
           Operator \/ EngineDies \/ Verifier \/ VerifierKilled \/ Worker
             \/ ContainerRestart \/ UNCHANGED vars
    PROVE  Lifecycle!Next \/ UNCHANGED Lifecycle!vars
<1>1. CASE Operator
  <2>1. UNCHANGED <<engine, verifier, status, exported>>
    BY <1>1 DEF Operator
  <2>2. CASE ManualMarkGood
    <3>1. Effective \in Configs
      BY StoreAssumption DEF Effective, Resolve, StateValues, Inv, TypeOK, StoreTypeOK,
         StoreAssumption, Docs, Values
    <3>2. Lifecycle!Vouch(Effective)
      BY <2>1, <2>2 DEF ManualMarkGood, MarkGood, Lifecycle!Vouch, Running, Verdict, Claim
    <3> QED  BY <3>1, <3>2 DEF Lifecycle!Next
  <2>3. CASE ~ManualMarkGood
    <3>1. UNCHANGED knownGood
      BY <1>1, <2>3 DEF Operator, Submit, Render, StartApply, StartReset, Handler, HandlerWrites,
         HandlerSetsTrial, HandlerRequestsRestart, LandingDies, Manual, RequestRestart,
         ManualRollback, ManualBegin
    <3> QED  BY <2>1, <3>1 DEF Lifecycle!vars, Running, Verdict, Claim
  <2> QED  BY <2>2, <2>3
<1>2. CASE EngineDies \/ VerifierKilled \/ Worker \/ UNCHANGED vars
  BY <1>2 DEF EngineDies, VerifierKilled, EngineFrame, Worker, WorkerStops, WorkerCancels,
     WorkerFrame, vars, supVars, Lifecycle!vars, Running, Verdict, Claim
<1>3. CASE Verifier
  <2>1. engine # "none" /\ exported # None
    BY <1>3 DEF Verifier, VerifierPasses, VerifierFails, Inv, VerdictInv, EngineInv, AttemptInv
  <2>2. Lifecycle!Judge("pass") \/ Lifecycle!Judge("fail")
    BY <1>3, <2>1 DEF Verifier, VerifierPasses, VerifierFails, EngineFrame, Lifecycle!Judge,
       Running, Verdict, Claim
  <2> QED  BY <2>2 DEF Lifecycle!Next
<1>4. CASE ContainerRestart
  <2>1. engine' = "none" /\ verifier' = "off" /\ UNCHANGED knownGood
    BY <1>4 DEF ContainerRestart
  <2>2. CASE engine = "none"
    BY <2>1, <2>2, NoEngineStutter
  <2>3. CASE engine # "none"
    BY <2>1, <2>3, StopRefines
  <2> QED  BY <2>2, <2>3
<1> QED  BY <1>1, <1>2, <1>3, <1>4

(* The appliance implements EngineLifecycle. *)
THEOREM ImplementsLifecycle == Spec => LifecycleRefined
<1>1. Init => Lifecycle!Init
  BY DEF Init, StoreInit, SupervisorInit, Lifecycle!Init, Running, Verdict, Claim
<1>2. Inv /\ RefineInv /\ RefineInv' /\ [Next]_vars => [Lifecycle!Next]_(Lifecycle!vars)
  <2> HIDE DEF Inv, RefineInv, vars
  <2> QED  BY BootRefines, PollRefines, OthersRefine DEF Next, Pid1
<1>3. Spec => []Inv
  BY Invariant
<1> HIDE DEF Inv, RefineInv, Init, Next, vars
<1>4. Spec => []RefineInv
  BY <1>3, RefineInvInductive, PTL DEF Spec
<1> QED  BY <1>1, <1>2, <1>3, <1>4, PTL DEF Spec, LifecycleRefined, Lifecycle!Spec
=============================================================================
