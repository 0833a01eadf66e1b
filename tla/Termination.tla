----------------------------- MODULE Termination -----------------------------
(***************************************************************************)
(* Terminating the instance from inside: request threads of the landing    *)
(* page hand over to detached worker processes, which ask PID 1 to stop    *)
(* the engine, erase the session, look at the switches again and call the  *)
(* provider.  Workers and PID 1 talk through two files of the runtime      *)
(* directory, workers and the page through a third, terminate.json.        *)
(*                                                                         *)
(* The switches are one file here and tightening them is one step; module  *)
(* Switches opens that step.  PID 1 is its stand-down protocol with the    *)
(* preparation and the launch around it; module Supervisor has the rest.   *)
(***************************************************************************)
EXTENDS Integers, FiniteSets

CONSTANTS
    Posts,       \* concurrent request threads of the landing page
    Workers,     \* worker processes; one is used per termination started
    None,
    MaxFaults    \* bound: killed workers, engine crashes, container restarts

ASSUME TerminationAssumption ==
    /\ None \notin Posts \cup Workers \cup {"open", "shut", "running", "done"}
    /\ MaxFaults \in Nat

VARIABLES
    post,           \* [Posts -> what the thread has got to]
    mutex,          \* holder of the page's _terminate_lock
    worker,         \* [Workers -> phase of the process]
    told,           \* [Workers -> whether it saw the engine-stopped file]
    progress,       \* terminate.json: missing, running or done
    stopRequest,    \* the terminate-in-progress file exists
    engineStopped,  \* the engine-stopped file exists
    pid1,           \* what PID 1 is doing
    engine,         \* an engine process exists
    prepared,       \* the checkpoint on disk went through preparation
    startup,        \* what the startup environment says of the switches
    switches,       \* terminate-switches.json: missing, open or shut
    instance,       \* "up", or "gone" once the provider destroyed it
    faults,         \* how much of the fault budget is used
    lockAcked,      \* history: this container's page has confirmed a lock
    killed          \* history: a worker of this container was killed half-way

tmVars == <<post, mutex, worker, told, progress, stopRequest, engineStopped, pid1,
            engine, prepared, startup, switches, instance, faults, lockAcked, killed>>

pageVars == <<post, mutex>>
pidVars == <<pid1, engine, engineStopped, prepared>>
switchVars == <<startup, switches, lockAcked>>
faultVars == <<instance, faults, killed>>

Running == {"starting", "checking", "asking", "waiting", "erasing", "terminating",
            "calling", "givingUp", "finishing"}

TerminationTypeOK ==
    /\ post \in [Posts -> {"idle", "gated", "starting"}]
    /\ mutex \in Posts \cup {None}
    /\ \A p \in Posts : post[p] = "starting" <=> mutex = p
    /\ worker \in [Workers -> Running \cup {"new", "over"}]
    /\ told \in [Workers -> BOOLEAN]
    /\ progress \in {None, "running", "done"}
    /\ stopRequest \in BOOLEAN
    /\ engineStopped \in BOOLEAN
    /\ engine \in BOOLEAN
    /\ prepared \in BOOLEAN
    /\ lockAcked \in BOOLEAN
    /\ killed \in BOOLEAN
    /\ pid1 \in {"prepare", "launch", "poll", "stop", "answer", "standdown", "resume"}
    /\ startup \in {"open", "shut"}
    /\ switches \in {None, "open", "shut"}
    /\ instance \in {"up", "gone"}
    /\ faults \in 0..MaxFaults

(* termination_allowed: a missing file leaves the startup environment to speak. *)
Allowed == (IF switches = None THEN startup ELSE switches) = "open"

TerminationInit ==
    /\ post = [p \in Posts |-> "idle"]
    /\ mutex = None
    /\ worker = [w \in Workers |-> "new"]
    /\ told = [w \in Workers |-> FALSE]
    /\ progress = None
    /\ stopRequest = FALSE /\ engineStopped = FALSE
    /\ pid1 = "prepare" /\ engine = FALSE /\ prepared = FALSE
    /\ startup \in {"open", "shut"}
    /\ switches = startup
    /\ instance = "up"
    /\ faults = 0
    /\ lockAcked = FALSE /\ killed = FALSE
-----------------------------------------------------------------------------
(* POST /terminate: the gates, before the lock is taken. *)
PassGates(p) ==
    /\ post[p] = "idle"
    /\ Allowed
    /\ post' = [post EXCEPT ![p] = "gated"]
    /\ UNCHANGED <<mutex, worker, told, progress, stopRequest, pidVars, switchVars, faultVars>>

(* Seeded defect: the lock is released between the check and the spawn. *)
ReadProgress_NoLock(p) ==
    /\ post[p] = "gated"
    /\ post' = [post EXCEPT ![p] = IF progress = "running" THEN "idle" ELSE "starting"]
    /\ UNCHANGED <<mutex, worker, told, progress, stopRequest, pidVars, switchVars, faultVars>>

(* Under _terminate_lock: a termination in progress refuses this one. *)
ReadProgress(p) ==
    /\ post[p] = "gated"
    /\ mutex = None
    /\ IF progress = "running"
       THEN post' = [post EXCEPT ![p] = "idle"] /\ UNCHANGED mutex
       ELSE post' = [post EXCEPT ![p] = "starting"] /\ mutex' = p
    /\ UNCHANGED <<worker, told, progress, stopRequest, pidVars, switchVars, faultVars>>

(* Popen, still under the lock; the new process writes terminate.json later. *)
SpawnWorker(p) ==
    /\ post[p] = "starting"
    /\ \E w \in Workers :
        /\ worker[w] = "new"
        /\ worker' = [worker EXCEPT ![w] = "starting"]
    /\ post' = [post EXCEPT ![p] = "idle"]
    /\ mutex' = None
    /\ UNCHANGED <<told, progress, stopRequest, pidVars, switchVars, faultVars>>

(* POST /terminate/lock, answered once the tightened switches are written. *)
LockPage ==
    /\ switches' = "shut"
    /\ lockAcked' = TRUE
    /\ UNCHANGED <<pageVars, worker, told, progress, stopRequest, pidVars, startup, faultVars>>
-----------------------------------------------------------------------------
Goto(w, phase) == worker' = [worker EXCEPT ![w] = phase]

(* Progress(): the first thing the process writes. *)
WorkerStarts(w) ==
    /\ worker[w] = "starting"
    /\ Goto(w, "checking")
    /\ progress' = "running"
    /\ UNCHANGED <<pageVars, told, stopRequest, pidVars, switchVars, faultVars>>

(* The three gates again: the switches, and a confirmation and a provider that
   may not be accepted.  Nothing was asked of PID 1 yet. *)
WorkerChecks(w) ==
    /\ worker[w] = "checking"
    /\ \/ Allowed /\ Goto(w, "asking") /\ progress' = "running"
       \/ Goto(w, "finishing") /\ UNCHANGED progress
    /\ UNCHANGED <<pageVars, told, stopRequest, pidVars, switchVars, faultVars>>

(* default_stopper writes terminate-in-progress. *)
AsksStop(w) ==
    /\ worker[w] = "asking"
    /\ stopRequest' = TRUE
    /\ Goto(w, "waiting")
    /\ UNCHANGED <<pageVars, told, progress, pidVars, switchVars, faultVars>>

(* It waits for engine-stopped, for 180 s at most, and goes on either way; the
   erase is optional. *)
EndsWaiting(w) ==
    /\ worker[w] = "waiting"
    /\ told' = [told EXCEPT ![w] = engineStopped]
    /\ \E next \in {"erasing", "terminating"} : Goto(w, next)
    /\ progress' = "running"
    /\ UNCHANGED <<pageVars, stopRequest, pidVars, switchVars, faultVars>>

(* Seeded defect: the erase plan does not keep terminate-switches.json. *)
Erases_TakesSwitches(w) ==
    /\ worker[w] = "erasing"
    /\ Goto(w, "terminating")
    /\ progress' = "running"
    /\ switches' = None
    /\ UNCHANGED <<pageVars, told, stopRequest, pidVars, startup, lockAcked, faultVars>>

(* plan(keep = ...) and erase: the files of the protocol and the switches stay,
   and a failure does not stop the sequence. *)
Erases(w) ==
    /\ worker[w] = "erasing"
    /\ Goto(w, "terminating")
    /\ progress' = "running"
    /\ UNCHANGED <<pageVars, told, stopRequest, pidVars, switchVars, faultVars>>

(* Seeded defect: a refusal in mid-flight leaves the stop request behind. *)
Rechecks_LeavesRequest(w) ==
    /\ worker[w] = "terminating"
    /\ Goto(w, IF Allowed THEN "calling" ELSE "finishing")
    /\ UNCHANGED <<pageVars, told, progress, stopRequest, pidVars, switchVars, faultVars>>

(* The switches are read again right before the call. *)
Rechecks(w) ==
    /\ worker[w] = "terminating"
    /\ Goto(w, IF Allowed THEN "calling" ELSE "givingUp")
    /\ UNCHANGED <<pageVars, told, progress, stopRequest, pidVars, switchVars, faultVars>>

(* p.terminate: the instance is destroyed, or the call fails or raises; a call
   that raises may have destroyed it. *)
Calls(w) ==
    /\ worker[w] = "calling"
    /\ \/ instance' = "gone" /\ \E next \in {"finishing", "givingUp"} : Goto(w, next)
       \/ UNCHANGED instance /\ Goto(w, "givingUp")
    /\ UNCHANGED <<pageVars, told, progress, stopRequest, pidVars, switchVars, faults, killed>>

(* _clear_request_stop *)
ClearsRequest(w) ==
    /\ worker[w] = "givingUp"
    /\ stopRequest' = FALSE
    /\ Goto(w, "finishing")
    /\ UNCHANGED <<pageVars, told, progress, pidVars, switchVars, faultVars>>

(* Progress.finish *)
Finishes(w) ==
    /\ worker[w] = "finishing"
    /\ progress' = "done"
    /\ Goto(w, "over")
    /\ UNCHANGED <<pageVars, told, stopRequest, pidVars, switchVars, faultVars>>

WorkerStep(w) ==
    \/ WorkerStarts(w) \/ WorkerChecks(w) \/ AsksStop(w) \/ EndsWaiting(w) \/ Erases(w)
    \/ Rechecks(w) \/ Calls(w) \/ ClearsRequest(w) \/ Finishes(w)
-----------------------------------------------------------------------------
(* prepare_checkpoint: skipped when a termination is requested, and then the
   engine is started on whatever is there. *)
Prepare ==
    /\ pid1 = "prepare"
    /\ prepared' = (prepared \/ ~stopRequest)
    /\ pid1' = "launch"
    /\ UNCHANGED <<pageVars, worker, told, progress, stopRequest, engineStopped, engine,
                   switchVars, faultVars>>

Launch ==
    /\ pid1 = "launch"
    /\ engine' = TRUE
    /\ pid1' = "poll"
    /\ UNCHANGED <<pageVars, worker, told, progress, stopRequest, engineStopped, prepared,
                   switchVars, faultVars>>

(* Seeded defect: PID 1 answers first and stops the engine afterwards. *)
PollTerminate_AnswersFirst ==
    /\ pid1 = "poll"
    /\ stopRequest
    /\ engineStopped' = TRUE
    /\ pid1' = "stop"
    /\ UNCHANGED <<pageVars, worker, told, progress, stopRequest, engine, prepared,
                   switchVars, faultVars>>

(* The poll loop looks at the request before anything else. *)
PollTerminate ==
    /\ pid1 = "poll"
    /\ stopRequest
    /\ pid1' = "stop"
    /\ UNCHANGED <<pageVars, worker, told, progress, stopRequest, engineStopped, engine,
                   prepared, switchVars, faultVars>>

(* An engine on a checkpoint that was never prepared does not live; the next
   iteration of the main loop prepares it. *)
PollDied ==
    /\ pid1 = "poll"
    /\ ~stopRequest
    /\ ~engine \/ ~prepared
    /\ engine' = FALSE
    /\ pid1' = "prepare"
    /\ UNCHANGED <<pageVars, worker, told, progress, stopRequest, engineStopped, prepared,
                   switchVars, faultVars>>

(* kill_server_tree *)
StopEngine ==
    /\ pid1 = "stop"
    /\ engine' = FALSE
    /\ pid1' = "answer"
    /\ UNCHANGED <<pageVars, worker, told, progress, stopRequest, engineStopped, prepared,
                   switchVars, faultVars>>

Answer ==
    /\ pid1 = "answer"
    /\ engineStopped' = TRUE
    /\ pid1' = "standdown"
    /\ UNCHANGED <<pageVars, worker, told, progress, stopRequest, engine, prepared,
                   switchVars, faultVars>>

(* while [ -f "$TERMINATE_FLAG" ] *)
SeeCancelled ==
    /\ pid1 = "standdown"
    /\ ~stopRequest
    /\ pid1' = "resume"
    /\ UNCHANGED <<pageVars, worker, told, progress, stopRequest, engineStopped, engine,
                   prepared, switchVars, faultVars>>

Resume ==
    /\ pid1 = "resume"
    /\ engineStopped' = FALSE
    /\ pid1' = "prepare"
    /\ UNCHANGED <<pageVars, worker, told, progress, stopRequest, engine, prepared,
                   switchVars, faultVars>>

Pid1 == \/ Prepare \/ Launch \/ PollTerminate \/ PollDied
        \/ StopEngine \/ Answer \/ SeeCancelled \/ Resume
-----------------------------------------------------------------------------
EngineCrashes ==
    /\ engine
    /\ engine' = FALSE
    /\ UNCHANGED <<pageVars, worker, told, progress, stopRequest, pid1, engineStopped,
                   prepared, switchVars, instance, killed>>

(* The worker is killed half-way; nothing restarts it. *)
WorkerDies ==
    /\ \E w \in Workers : worker[w] \in Running /\ Goto(w, "over")
    /\ killed' = TRUE
    /\ UNCHANGED <<pageVars, told, progress, stopRequest, pidVars, switchVars, instance>>

(* The container starts again, perhaps with another environment: the flags go,
   terminate.json stays. *)
ContainerRestart ==
    /\ post' = [p \in Posts |-> "idle"]
    /\ mutex' = None
    /\ worker' = [w \in Workers |-> IF worker[w] \in Running THEN "over" ELSE worker[w]]
    /\ stopRequest' = FALSE
    /\ engineStopped' = FALSE
    /\ engine' = FALSE
    /\ pid1' = "prepare"
    /\ startup' \in {"open", "shut"}
    /\ switches' = startup'
    /\ lockAcked' = FALSE
    /\ killed' = FALSE
    /\ UNCHANGED <<told, progress, prepared, instance>>

Fault ==
    /\ faults < MaxFaults
    /\ faults' = faults + 1
    /\ EngineCrashes \/ WorkerDies \/ ContainerRestart

TerminationNext ==
    /\ instance = "up"
    /\ \/ \E p \in Posts : PassGates(p) \/ ReadProgress(p) \/ SpawnWorker(p)
       \/ LockPage
       \/ \E w \in Workers : WorkerStep(w)
       \/ Pid1
       \/ Fault

(* PID 1 and the workers are sequential programs that never block but where they
   wait, and the wait for engine-stopped is bounded; nobody need send a POST. *)
TerminationFairness ==
    /\ WF_tmVars(instance = "up" /\ Pid1)
    /\ \A w \in Workers : WF_tmVars(instance = "up" /\ WorkerStep(w))

TerminationSpec ==
    TerminationInit /\ [][TerminationNext]_tmVars /\ TerminationFairness
-----------------------------------------------------------------------------
(* Once a lock is confirmed no worker goes on to the destroy call, whatever it had
   checked, stopped and erased before (terminate_worker's re-check, and the
   switches file in the erase's keep list). *)
LockStopsDestroy ==
    [][lockAcked => \A w \in Workers : worker'[w] = "calling" => worker[w] = "calling"]_tmVars

(* A confirmed lock is in the switches file, whatever was erased since. *)
LockInFile == lockAcked => switches = "shut"

Serving == engine /\ prepared

(* A termination that is refused or fails does not leave the engine stopped: in
   the end PID 1 serves for good, unless the instance is gone or a worker was
   killed and the container never restarted. *)
ServingResumes == <>[](Serving \/ instance = "gone" \/ killed)

(* At most one worker was ever started. *)
OneWorker == \A v, w \in Workers : worker[v] # "new" /\ worker[w] # "new" => v = w

(* The protocol's files follow the phase of that worker, and PID 1's answer its
   own phase: the invariant behind EngineDownDuringErase. *)
Asked == {"waiting", "erasing", "terminating", "calling", "givingUp"}
StandDownSteps == {"stop", "answer", "standdown", "resume"}

RequestFollowsWorker ==
    /\ stopRequest \/ pid1 \in StandDownSteps
            => \E w \in Workers : worker[w] \in Asked \cup {"finishing", "over"}
    /\ \A w \in Workers :
        /\ worker[w] \in Asked => stopRequest
        /\ told[w] /\ worker[w] \in {"erasing", "terminating"} => pid1 = "standdown"

AnswerFollowsPid1 ==
    /\ engineStopped => pid1 \in {"standdown", "resume"}
    /\ engine => pid1 \in {"poll", "stop"}
    /\ pid1 = "resume" => ~stopRequest

(* What default_stopper waits for: a worker that was told the engine is stopped
   erases, and looks at the switches, with no engine running.  A second worker
   breaks it: the request file is one, and the first to end removes it. *)
EngineDownDuringErase ==
    OneWorker =>
        \A w \in Workers : worker[w] \in {"erasing", "terminating"} /\ told[w] => ~engine

(* What the comment at _terminate_lock says: concurrent POSTs cannot both pass
   the "already in progress" check. *)
OneTermination == Cardinality({w \in Workers : worker[w] \in Running}) <= 1
=============================================================================
