------------------------------ MODULE Landing ------------------------------
(***************************************************************************)
(* The configuration editor of the landing page (landing.py): browser tabs *)
(* that were rendered from the configuration of some moment and are        *)
(* submitted at a later one, the handler that carries an accepted          *)
(* submission to disk under the lock, and the operator's own use of        *)
(* config_cli in a shell.                                                  *)
(***************************************************************************)
EXTENDS ConfigStore

CONSTANTS
    Tabs,       \* open editor pages
    MaxOps,     \* bound: submissions and manual commands in a behaviour
    MaxFaults   \* bound: faults in a behaviour, of every kind

ASSUME LandingAssumption ==
    /\ None \notin Tabs
    /\ MaxOps \in Nat
    /\ MaxFaults \in Nat

VARIABLES
    seen,        \* [Tabs -> effective configuration the page was rendered from]
    handler,     \* the apply in progress: what it will write and how far it is
    ops, faults, \* how much of the two budgets is used
    ackPending,  \* history: an apply was acknowledged that no boot has read yet
    stranded,    \* history: the page died between config.json and the flag
    vouched      \* history: configurations an operator marked good by hand

landingVars == <<seen, handler, ops, faults, ackPending, stranded, vouched>>

Idle == [step |-> "idle", tab |-> None, vals |-> Unset, reset |-> FALSE]
Handlers == [step: {"idle", "write", "trial", "flag"}, tab: Tabs \cup {None},
             vals: Values, reset: BOOLEAN]

LandingTypeOK ==
    /\ seen \in [Tabs -> Configs \cup {None}]
    /\ handler \in Handlers
    /\ ops \in 0..MaxOps
    /\ faults \in 0..MaxFaults
    /\ ackPending \in BOOLEAN
    /\ stranded \in BOOLEAN
    /\ vouched \subseteq Configs

LandingInit ==
    /\ seen = [t \in Tabs |-> None]
    /\ handler = Idle
    /\ ops = 0
    /\ faults = 0
    /\ ackPending = FALSE
    /\ stranded = FALSE
    /\ vouched = {}

SpendOp == ops < MaxOps /\ ops' = ops + 1
SpendFault == faults < MaxFaults /\ faults' = faults + 1

(* render_config reads without the lock: os.replace makes each read whole. *)
Render(t) ==
    /\ seen[t] # Effective
    /\ seen' = [seen EXCEPT ![t] = Effective]
    /\ UNCHANGED <<storeVars, handler, ops, faults, ackPending, stranded, vouched>>

(* The stale-form check: config_revision against what resolves now. *)
Fresh(t) == seen[t] = Effective

(* apply_values up to its last check: the handler holds the lock, the form is
   fresh, the candidate validates on this host.  A stale form, an invalid
   candidate and "no change" return with nothing written. *)
StartApply(t, c) ==
    /\ LockFree
    /\ SpendOp
    /\ Fresh(t)
    /\ Valid(c)
    /\ c # Effective
    /\ lock' = "landing"
    /\ handler' = [step |-> "write", tab |-> t, vals |-> Minimize(c), reset |-> FALSE]
    /\ UNCHANGED <<env, cfg, clock, knownGood, applyState, bootAttempt, restartFlag,
                   seen, faults, ackPending, stranded, vouched>>

StartReset(t) ==
    /\ LockFree
    /\ SpendOp
    /\ Fresh(t)
    /\ Valid(env.dflt)
    /\ lock' = "landing"
    /\ handler' = [step |-> "write", tab |-> t, vals |-> Unset, reset |-> TRUE]
    /\ UNCHANGED <<env, cfg, clock, knownGood, applyState, bootAttempt, restartFlag,
                   seen, faults, ackPending, stranded, vouched>>

HandlerWrites ==
    /\ handler.step = "write"
    /\ handler' = [handler EXCEPT !.step = "trial"]
    /\ IF handler.reset THEN cfg' = None /\ UNCHANGED clock ELSE WriteState(handler.vals)
    /\ UNCHANGED <<env, knownGood, applyState, bootAttempt, restartFlag, lock,
                   seen, ops, faults, ackPending, stranded, vouched>>

HandlerSetsTrial ==
    /\ handler.step = "trial"
    /\ handler' = [handler EXCEPT !.step = "flag"]
    /\ applyState' = "trial"
    /\ UNCHANGED <<env, cfg, clock, knownGood, bootAttempt, restartFlag, lock,
                   seen, ops, faults, ackPending, stranded, vouched>>

(* The flag is written last and still under the lock; then "Applied". *)
HandlerRequestsRestart ==
    /\ handler.step = "flag"
    /\ handler' = Idle
    /\ restartFlag' = TRUE
    /\ lock' = "free"
    /\ ackPending' = TRUE
    /\ UNCHANGED <<env, cfg, clock, knownGood, applyState, bootAttempt,
                   seen, ops, faults, stranded, vouched>>

Handler == HandlerWrites \/ HandlerSetsTrial \/ HandlerRequestsRestart

(* The page's process dies inside apply_values: the kernel drops the flock, and
   the supervision loop starts a new page that knows nothing of the apply. *)
LandingDies ==
    /\ handler # Idle
    /\ SpendFault
    /\ handler' = Idle
    /\ lock' = "free"
    /\ stranded' = (stranded \/ handler.step \in {"trial", "flag"})
    /\ UNCHANGED <<env, cfg, clock, knownGood, applyState, bootAttempt, restartFlag,
                   seen, ops, ackPending, vouched>>

(***************************************************************************)
(* The other operator entries: /config/restart and request-restart write   *)
(* the flag without the lock; config_cli in a shell has no                 *)
(* GLM_CONFIG_ATTEMPT, so it acts on what resolves now.                    *)
(***************************************************************************)
RequestRestart ==
    /\ SpendOp
    /\ restartFlag' = TRUE
    /\ UNCHANGED <<env, cfg, clock, knownGood, applyState, bootAttempt, lock,
                   seen, handler, faults, ackPending, stranded, vouched>>

ManualRollback ==
    /\ LockFree
    /\ SpendOp
    /\ \E done \in BOOLEAN : Rollback(Effective, StateValues(cfg), done)
    /\ UNCHANGED <<env, knownGood, bootAttempt, lock,
                   seen, handler, faults, ackPending, stranded, vouched>>

ManualMarkGood ==
    /\ LockFree
    /\ SpendOp
    /\ MarkGood(Effective)
    /\ vouched' = vouched \cup {Effective}
    /\ UNCHANGED <<env, cfg, clock, bootAttempt, restartFlag, lock,
                   seen, handler, faults, ackPending, stranded>>

ManualBegin ==
    /\ LockFree
    /\ SpendOp
    /\ BeginAttempt("manual")
    /\ UNCHANGED <<env, cfg, clock, knownGood, applyState, restartFlag, lock,
                   seen, handler, faults, ackPending, stranded, vouched>>

Submit ==
    \E t \in Tabs : Render(t) \/ StartReset(t) \/ \E c \in Configs : StartApply(t, c)

Manual == RequestRestart \/ ManualRollback \/ ManualMarkGood \/ ManualBegin
=============================================================================
