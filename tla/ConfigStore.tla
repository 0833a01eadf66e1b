---------------------------- MODULE ConfigStore ----------------------------
(***************************************************************************)
(* The configuration store of the appliance: the documents that glm_config *)
(* keeps on the volume (config.json, known-good.json, apply-state.json)    *)
(* and in the runtime directory (config-attempt.json, restart-request),    *)
(* and the decisions config_cli takes over them.  Both writers, PID 1      *)
(* through config_cli and the landing page in process, take one flock      *)
(* (.state.lock) around every read-validate-write.                         *)
(*                                                                         *)
(* A configuration is abstract here: a member of Configs, as if the knob   *)
(* registry held one knob.  The state file holds either an override (a     *)
(* member of Configs) or the empty diff (Unset), and the template          *)
(* environment supplies the value underneath it.                           *)
(***************************************************************************)
EXTENDS Integers

CONSTANTS
    Configs,     \* effective configurations
    Envs,        \* startup environments a container of this volume may have
    Unset,       \* the empty "values" of a state file: nothing overridden
    None,        \* an absent file
    MaxStamp     \* bound: written_at takes MaxStamp + 1 values (whole seconds)

Values == Configs \cup {Unset}
Docs == [vals: Values, at: 0..MaxStamp]
ApplyModes == {"absent", "trial", "steady", "degraded", "rolled-back", "failed"}
Attempts == [id: Docs \cup {None}, eff: Configs, owner: {"pid1", "manual"}]

(***************************************************************************)
(* An environment is the value it gives the knob and the configurations    *)
(* pre-validation rejects on its host (GPU count, PCIe topology, ...).     *)
(* An absent file is told apart from every content.                        *)
(***************************************************************************)
ASSUME StoreAssumption ==
    /\ Envs \subseteq [dflt: Configs, invalid: SUBSET Configs]
    /\ Envs # {}
    /\ Unset \notin Configs
    /\ MaxStamp \in Nat
    /\ None \notin Docs \cup Configs \cup Attempts

VARIABLES
    env,          \* the startup snapshot, frozen for the life of the container
    cfg,          \* config.json
    clock,        \* the second of the last write to config.json
    knownGood,    \* known-good.json: the effective configuration it recorded
    applyState,   \* apply-state.json: its mode
    bootAttempt,  \* config-attempt.json: the boot PID 1 or an operator began
    restartFlag,  \* the restart-request file exists
    lock          \* who holds .state.lock across steps

storeVars == <<env, cfg, clock, knownGood, applyState, bootAttempt, restartFlag, lock>>

StoreTypeOK ==
    /\ env \in Envs
    /\ cfg \in Docs \cup {None}
    /\ clock \in 0..MaxStamp
    /\ knownGood \in Configs \cup {None}
    /\ applyState \in ApplyModes
    /\ bootAttempt \in Attempts \cup {None}
    /\ restartFlag \in BOOLEAN
    /\ lock \in {"free", "landing"}

(***************************************************************************)
(* glm_config: layering and validation.                                    *)
(***************************************************************************)
StateValues(doc) == IF doc = None THEN Unset ELSE doc.vals
Resolve(v) == IF v = Unset THEN env.dflt ELSE v
Effective == Resolve(StateValues(cfg))
Minimize(c) == IF c = env.dflt THEN Unset ELSE c
Valid(c) == c \notin env.invalid

(* write_json_atomic(p_state(), {values, written_at}): the stamp has one-second
   resolution, so two writes may carry the same one. *)
WriteState(v) ==
    \E s \in {clock, clock + 1} \cap 0..MaxStamp :
        /\ cfg' = [vals |-> v, at |-> s]
        /\ clock' = s

(***************************************************************************)
(* config_cli.  A command is atomic: it runs under the flock from its      *)
(* first read to its last write, so it needs the lock free and leaves it   *)
(* free.  One that a container stop cuts short is not modelled: its writes *)
(* are each atomic and it re-runs from the top on the next boot.           *)
(***************************************************************************)
(* Seeded defect: the commands forget the flock. *)
LockFree_NoFlock == TRUE

LockFree == lock = "free"

BeginAttempt(owner) ==
    bootAttempt' = [id |-> cfg, eff |-> Effective, owner |-> owner]

(* Seeded defect: only the token is compared, not config.json itself. *)
Superseded_TokenOnly == bootAttempt.owner # "pid1"

(* _current_attempt() is False: another boot took over config-attempt.json, or
   config.json is no longer byte for byte what this boot read. *)
Superseded ==
    \/ bootAttempt.owner # "pid1"
    \/ bootAttempt.id # cfg

(* Seeded defects: rolling back to what just failed; rolling back only what the
   state file overrides, not what the environment supplies. *)
RollbackUseful_SameConfig(eff, values) ==
    IF knownGood = None THEN values # Unset ELSE Valid(knownGood)

RollbackUseful_OverridesOnly(eff, values) ==
    /\ values # Unset
    /\ knownGood # None => Valid(knownGood) /\ eff # knownGood

(* should-rollback, and the three refusals of rollback itself: there must be
   something to drop, or a known-good configuration that replays and validates
   under today's environment and differs from the one that failed. *)
RollbackUseful(eff, values) ==
    IF knownGood = None
    THEN values # Unset
    ELSE Valid(knownGood) /\ eff # knownGood

(* _cmd_rollback_locked.  `done` tells whether it exits 0. *)
Rollback(eff, values, done) ==
    /\ done = RollbackUseful(eff, values)
    /\ IF done
       THEN /\ IF knownGood = None
               THEN cfg' = None /\ UNCHANGED clock
               ELSE WriteState(Minimize(knownGood))
            /\ applyState' = "rolled-back"
            /\ restartFlag' = TRUE
       ELSE /\ applyState' = "failed"
            /\ UNCHANGED <<cfg, clock, restartFlag>>

(* mark-good: the record is what the boot resolved, not what resolves now. *)
MarkGood(eff) ==
    /\ knownGood' = eff
    /\ applyState' = "steady"

StoreInit ==
    /\ env \in Envs
    /\ cfg = None
    /\ clock = 0
    /\ knownGood = None
    /\ applyState = "absent"
    /\ bootAttempt = None
    /\ restartFlag = FALSE
    /\ lock = "free"
=============================================================================
