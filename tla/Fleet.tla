------------------------------- MODULE Fleet -------------------------------
(***************************************************************************)
(* The fleet manager (fleet_manager.py): one loop on the router VM that    *)
(* lists the replica slots, keeps a minimum alive, reaps the broken, scales*)
(* with the load and rewires the router, while the provider reclaims,      *)
(* pauses and boots machines between any two of its calls.                 *)
(*                                                                         *)
(* Windows of time are abstract: "since" is running, "due" has elapsed.    *)
(* Of the provider's machine identifiers only the successive machines of   *)
(* one slot are told apart; an identifier nothing refers to any more is    *)
(* used again.                                                             *)
(***************************************************************************)
EXTENDS Integers, FiniteSets, FiniteSetsExt

CONSTANTS
    Names,        \* numeric slots, glm53-serve-<n>
    Mids,         \* bound: tell the successive machines of one slot apart
    None,
    MinReplicas, MaxReplicas,
    OnDemandMin,  \* replicas kept off the spot market
    RouterApis,   \* which wirings are deployed, values of router_api
    Tunnels,      \* replicas are reached through a local port per slot
    SlowBoots,    \* a boot may take longer than boot_timeout
    MaxFaults     \* bound: provider reclaims, pauses, hangs and failed calls

ASSUME FleetAssumption ==
    /\ Names \subseteq Nat /\ Mids \subseteq Nat /\ None \notin Mids
    /\ MinReplicas \in Nat /\ MaxReplicas \in Nat /\ OnDemandMin \in Nat
    /\ MinReplicas <= MaxReplicas /\ MaxReplicas <= Cardinality(Names)
    /\ RouterApis \subseteq BOOLEAN /\ Tunnels \in BOOLEAN /\ SlowBoots \in BOOLEAN
    /\ MaxFaults \in Nat

VARIABLES
    machines,   \* what `jl list` shows of the numeric slots, and whether each
                \* is young (within boot_timeout), healthy or hung
    step,       \* the next step of the manager's cycle: list, min, reap, scale,
                \* rewire, wire, add
    view,       \* this cycle's Replica objects: the slots as last listed and probed
    after,      \* where wire_litellm returns to
    retiring,   \* self.retiring: per name, no, since, due
    unhealthy,  \* self.unhealthy_since: per name, no, since, due
    idle,       \* self.idle_since: no, since, due
    cooling,    \* self.last_scale is younger than the cooldown
    wired,      \* self.wired
    router,     \* the API bases the router sends requests to
    routerApi,  \* the router keeps its deployments in a database; never changes
    victim,     \* history: the machine each name was retired for
    faults

managerVars == <<step, view, after, retiring, unhealthy, idle, cooling, wired, routerApi,
                victim>>
vars == <<machines, managerVars, router, faults>>

Alive == {"Running", "Pending"}
AliveIn(S) == {r \in S : r.status \in Alive}

(* ensure_tunnel: a port per slot, or the address the machine is exposed under. *)
Base(r) == <<r.name, IF Tunnels THEN None ELSE r.mid>>
Key(r) == <<r.name, IF routerApi THEN Base(r) ELSE None>>

Init ==
    /\ machines = {} /\ view = {} /\ step = "list" /\ after = "list"
    /\ retiring = [n \in Names |-> "no"] /\ unhealthy = [n \in Names |-> "no"]
    /\ idle = "no" /\ cooling = FALSE
    /\ wired = {} /\ router = {} /\ routerApi \in RouterApis
    /\ victim = [n \in Names |-> None]
    /\ faults = 0

SpendFault == faults < MaxFaults /\ faults' = faults + 1

Same(r, q) == r.name = q.name /\ r.mid = q.mid
Listed(r) == \E m \in machines : Same(m, r)
Without(r) == {m \in machines : ~Same(m, r)}

(* Identifiers of slot n nothing refers to: no machine is created without one. *)
FreshMids(n) == {d \in Mids :
    /\ \A m \in machines \cup view : ~(m.name = n /\ m.mid = d)
    /\ victim[n] # d /\ <<n, d>> \notin router /\ <<n, <<n, d>>>> \notin wired}
NewMid(n) == Min(FreshMids(n))

(***************************************************************************)
(* create_slot, over the slots it lists afresh.                            *)
(***************************************************************************)
CreateSkipped(S) ==
    \/ Cardinality(S) >= MaxReplicas
    \/ \E r \in AliveIn(S) : r.young

FreeName(S) == Min(Names \ {r.name : r \in S})
NewSlot(S) ==
    [mid |-> NewMid(FreeName(S)), name |-> FreeName(S), status |-> "Pending",
     spot |-> Cardinality({r \in AliveIn(S) : ~r.spot}) >= OnDemandMin,
     young |-> TRUE, healthy |-> FALSE, hung |-> FALSE]

CreateSlot(S) ==
    IF CreateSkipped(S)
    THEN machines' = S /\ UNCHANGED cooling
    ELSE /\ Names # {r.name : r \in S} /\ FreshMids(FreeName(S)) # {}
         /\ machines' = S \cup {NewSlot(S)}
         /\ cooling' = TRUE

(* Where a step leaves the cycle: the exception drops the Replica objects, the
   second listing replaces them. *)
Abort == step' = "list" /\ view' = {} /\ after' = "list"
ToScale == step' = "scale" /\ UNCHANGED <<view, after>>
ToRewire == step' = "rewire" /\ view' = {} /\ UNCHANGED after

(***************************************************************************)
(* The cycle.  A failing jl or router call raises: the rest of the cycle   *)
(* is skipped and what was done stays.                                     *)
(***************************************************************************)
List ==
    /\ step = "list"
    /\ view' = machines
    /\ step' = "min"
    /\ UNCHANGED <<machines, after, retiring, unhealthy, idle, cooling, wired, router, routerApi,
                   victim, faults>>

EnsureMin ==
    /\ step = "min"
    /\ step' = "reap"
    /\ IF Cardinality(AliveIn(view)) < MinReplicas
       THEN CreateSlot(machines)
       ELSE UNCHANGED <<machines, cooling>>
    /\ UNCHANGED <<view, after, retiring, unhealthy, idle, wired, router, routerApi, victim, faults>>

(* Seeded defect: an instance that is still booting counts as broken. *)
Late_Young(r) == ~r.healthy /\ r.status # "Paused"

(* Neither serving, nor paused, nor alive and young. *)
Late(r) == ~r.healthy /\ r.status # "Paused" /\ ~(r.status \in Alive /\ r.young)

(* Seeded defect: an instance that runs is never given up, serving or not. *)
Condemned_NotRunning(r) == Late(r) /\ r.status # "Running"

Condemned(r) == Late(r) /\ (r.status # "Running" \/ unhealthy[r.name] = "due")

(* What the loop over the replicas in S leaves of unhealthy_since. *)
Marked(S) ==
    [n \in Names |->
        IF \E r \in S : r.name = n /\ r.healthy THEN "no"
        ELSE IF unhealthy[n] = "no" /\ \E r \in S : r.name = n /\ Late(r) THEN "since"
        ELSE unhealthy[n]]

(* A resumed instance keeps its slot and market and comes back under another id. *)
Resumed(r) == [r EXCEPT !.mid = NewMid(r.name), !.status = "Pending", !.young = TRUE]

(* reap acts on the first paused or condemned replica it meets and returns; the
   others it met before are only marked. *)
Reap ==
    /\ step = "reap"
    /\ LET acting == {r \in view : r.status = "Paused" \/ Condemned(r)}
           calm == view \ acting
       IN \/ /\ acting = {}
             /\ unhealthy' = Marked(calm) /\ ToScale
             /\ UNCHANGED <<machines, cooling, faults>>
          \/ \E r \in acting, met \in SUBSET calm :
                /\ r.status = "Paused"
                /\ unhealthy' = Marked(met) /\ ToScale
                /\ IF Listed(r)
                   THEN \/ /\ FreshMids(r.name) # {}
                           /\ machines' = Without(r) \cup {Resumed(r)}
                           /\ UNCHANGED faults
                        \/ SpendFault /\ UNCHANGED machines
                   ELSE UNCHANGED <<machines, faults>>
                /\ UNCHANGED cooling
          \/ \E r \in acting, met \in SUBSET calm :
                /\ Condemned(r)
                /\ IF r.status = "Running" /\ ~Listed(r)
                   THEN /\ Abort /\ unhealthy' = Marked(met \cup {r})
                        /\ UNCHANGED <<machines, cooling, faults>>
                   ELSE LET left == IF r.status = "Running" THEN Without(r) ELSE machines
                        IN \/ /\ CreateSlot(left)
                              /\ unhealthy' = [Marked(met) EXCEPT ![r.name] = "no"]
                              /\ ToScale /\ UNCHANGED faults
                           \/ /\ ~CreateSkipped(left) /\ SpendFault
                              /\ machines' = left
                              /\ unhealthy' = Marked(met \cup {r})
                              /\ Abort /\ UNCHANGED cooling
    /\ UNCHANGED <<retiring, idle, wired, router, routerApi, victim>>

FinishRetirement(n) ==
    /\ step = "scale" /\ retiring[n] = "due"
    /\ \/ /\ \A r \in view : r.name = n => Listed(r)
          /\ machines' = {m \in machines : \A r \in view : r.name = n => ~Same(r, m)}
          /\ retiring' = [retiring EXCEPT ![n] = "no"]
          /\ victim' = [victim EXCEPT ![n] = None]
          /\ cooling' = TRUE /\ UNCHANGED <<step, view, after>>
       \/ /\ \E r \in view : r.name = n /\ ~Listed(r)
          /\ Abort /\ UNCHANGED <<machines, retiring, victim, cooling>>
    /\ UNCHANGED <<unhealthy, idle, wired, router, routerApi, faults>>

Healthy == {r \in view : r.healthy}
Deciding == step = "scale" /\ \A n \in Names : retiring[n] # "due"

HoldScale ==
    /\ Deciding
    /\ Healthy = {} \/ cooling
    /\ ToRewire
    /\ UNCHANGED <<machines, retiring, unhealthy, idle, cooling, wired, router, routerApi,
                   victim, faults>>

(* Queueing, or every batch slot busy. *)
ScaleUp ==
    /\ Deciding /\ Healthy # {} /\ ~cooling
    /\ ToRewire
    /\ IF Cardinality(view) < MaxReplicas
       THEN CreateSlot(machines)
       ELSE UNCHANGED <<machines, cooling>>
    /\ UNCHANGED <<retiring, unhealthy, idle, wired, router, routerApi, victim, faults>>

Loaded ==
    /\ Deciding /\ Healthy # {} /\ ~cooling
    /\ ToRewire
    /\ idle' = "no"
    /\ UNCHANGED <<machines, retiring, unhealthy, cooling, wired, router, routerApi,
                   victim, faults>>

Candidates == {r \in Healthy : retiring[r.name] = "no"}
MayShrink == idle = "due" /\ Cardinality(view) > MinReplicas /\ Candidates # {}

LightLoad ==
    /\ Deciding /\ Healthy # {} /\ ~cooling
    /\ ~MayShrink
    /\ idle' = IF idle = "no" THEN "since" ELSE idle
    /\ ToRewire
    /\ UNCHANGED <<machines, retiring, unhealthy, cooling, wired, router, routerApi,
                   victim, faults>>

(* The least-loaded replica, spot before on-demand: rewire first, destroy later. *)
StartRetirement ==
    /\ Deciding /\ ~cooling /\ MayShrink
    /\ \E r \in Candidates :
        /\ (\E q \in Candidates : q.spot) => r.spot
        /\ retiring' = [retiring EXCEPT ![r.name] = "since"]
        /\ victim' = [victim EXCEPT ![r.name] = r.mid]
    /\ step' = "wire" /\ after' = "rewire"
    /\ UNCHANGED <<machines, view, unhealthy, idle, cooling, wired, router, routerApi, faults>>

(* The second listing of the cycle, so that the wiring sees reality. *)
Rewire ==
    /\ step = "rewire"
    /\ view' = machines
    /\ step' = "wire" /\ after' = "list"
    /\ UNCHANGED <<machines, retiring, unhealthy, idle, cooling, wired, router, routerApi, victim, faults>>

(***************************************************************************)
(* wire_litellm and wire_via_api.                                          *)
(***************************************************************************)
Wanted == {r \in view : r.healthy /\ retiring[r.name] = "no"}
Bases(S) == {Base(r) : r \in S}
Keys(S) == {Key(r) : r \in S}

(* Nothing to route to, or nothing changed. *)
Settled(S) == S = {} \/ Keys(S) = wired

WireFrame == UNCHANGED <<machines, retiring, unhealthy, cooling, routerApi, victim>>

(* Back in autoscale, the idle window of a retirement starts over; it does not
   when the wiring raises. *)
Return ==
    /\ step' = after /\ after' = "list"
    /\ idle' = IF after = "rewire" THEN "no" ELSE idle
    /\ view' = {}

WireNothing ==
    /\ step = "wire" /\ Settled(Wanted)
    /\ Return
    /\ WireFrame /\ UNCHANGED <<wired, router, faults>>

(* config.yaml is replaced and litellm restarted. *)
WireFile ==
    /\ step = "wire" /\ ~Settled(Wanted) /\ ~routerApi
    /\ router' = Bases(Wanted) /\ wired' = Keys(Wanted)
    /\ Return
    /\ WireFrame /\ UNCHANGED faults

(* The restart failed: wired is left for the next cycle. *)
WireFileFails ==
    /\ step = "wire" /\ ~Settled(Wanted) /\ ~routerApi
    /\ SpendFault
    /\ Return
    /\ WireFrame /\ UNCHANGED <<wired, router>>

(* /model/delete for the stale, then /model/new for the missing. *)
ApiDelete ==
    /\ step = "wire" /\ ~Settled(Wanted) /\ routerApi
    /\ router' = router \cap Bases(Wanted)
    /\ step' = "add"
    /\ WireFrame /\ UNCHANGED <<view, after, idle, wired, faults>>

ApiAdd ==
    /\ step = "add"
    /\ router' = router \cup Bases(Wanted)
    /\ wired' = Keys(Wanted)
    /\ Return
    /\ WireFrame /\ UNCHANGED faults

(* A call to the provider or the router raised at the start of a step. *)
CycleRaises ==
    /\ step # "list" /\ (step = "wire" => routerApi)
    /\ SpendFault
    /\ Abort
    /\ UNCHANGED <<machines, retiring, unhealthy, idle, cooling, wired, router, routerApi,
                   victim>>

Cycle ==
    \/ List \/ EnsureMin \/ Reap \/ (\E n \in Names : FinishRetirement(n))
    \/ HoldScale \/ ScaleUp \/ Loaded \/ LightLoad \/ StartRetirement
    \/ Rewire \/ WireNothing \/ WireFile \/ WireFileFails \/ ApiDelete \/ ApiAdd

(* systemd restarts the manager: everything beside the configuration is forgotten. *)
ManagerRestarts ==
    /\ SpendFault
    /\ Abort
    /\ retiring' = [n \in Names |-> "no"] /\ unhealthy' = [n \in Names |-> "no"]
    /\ idle' = "no" /\ cooling' = FALSE /\ wired' = {}
    /\ victim' = [n \in Names |-> None]
    /\ UNCHANGED <<machines, router, routerApi>>

(***************************************************************************)
(* Time.  Every window is longer than a cycle and elapses between cycles.  *)
(* The idle window is longer than the drain (900 s against 120 s) and      *)
(* restarts with it, so it elapses only when no drain is running.          *)
(***************************************************************************)
Elapse(w) == IF w = "since" THEN "due" ELSE w

DrainElapses ==
    /\ step = "list"
    /\ \E n \in Names : /\ retiring[n] = "since"
                        /\ retiring' = [retiring EXCEPT ![n] = "due"]
    /\ UNCHANGED <<machines, step, view, after, unhealthy, idle, cooling, wired, router, routerApi,
                   victim, faults>>

GraceElapses ==
    /\ step = "list"
    /\ \E n \in Names : /\ unhealthy[n] = "since"
                        /\ unhealthy' = [unhealthy EXCEPT ![n] = "due"]
    /\ UNCHANGED <<machines, step, view, after, retiring, idle, cooling, wired, router, routerApi,
                   victim, faults>>

IdleElapses ==
    /\ step = "list" /\ idle = "since" /\ \A n \in Names : retiring[n] = "no"
    /\ idle' = "due"
    /\ UNCHANGED <<machines, step, view, after, retiring, unhealthy, cooling, wired, router, routerApi,
                   victim, faults>>

CooldownElapses ==
    /\ step = "list" /\ cooling /\ cooling' = FALSE
    /\ UNCHANGED <<machines, step, view, after, retiring, unhealthy, idle, wired, router, routerApi,
                   victim, faults>>

(***************************************************************************)
(* The provider.                                                           *)
(***************************************************************************)
Become(m, q) ==
    /\ machines' = (machines \ {m}) \cup {q}
    /\ UNCHANGED <<managerVars, router>>

Provisions(m) == m.status = "Pending" /\ Become(m, [m EXCEPT !.status = "Running"]) /\ UNCHANGED faults

Serves(m) ==
    /\ m.status = "Running" /\ ~m.healthy /\ ~m.hung
    /\ Become(m, [m EXCEPT !.healthy = TRUE]) /\ UNCHANGED faults

(* boot_timeout passes over a machine. *)
Ages(m) ==
    /\ step = "list" /\ m.young
    /\ SlowBoots \/ m.healthy \/ m.hung \/ m.status \notin Alive
    /\ Become(m, [m EXCEPT !.young = FALSE]) /\ UNCHANGED faults

Hangs(m) ==
    /\ m.status = "Running" /\ ~m.hung /\ SpendFault
    /\ Become(m, [m EXCEPT !.healthy = FALSE, !.hung = TRUE])

Pauses(m) ==
    /\ m.spot /\ m.status \in Alive /\ SpendFault
    /\ Become(m, [m EXCEPT !.status = "Paused", !.healthy = FALSE])

(* Reclaimed: the row may linger as a dead one before it disappears. *)
Reclaimed(m) ==
    /\ m.status \in Alive \cup {"Paused"} /\ SpendFault
    /\ Become(m, [m EXCEPT !.status = "Gone", !.healthy = FALSE])

Delists(m) ==
    /\ m.status = "Gone"
    /\ machines' = machines \ {m}
    /\ UNCHANGED <<managerVars, router, faults>>

Progress == \E m \in machines : Provisions(m) \/ Serves(m) \/ Delists(m)

Provider ==
    \/ Progress
    \/ \E m \in machines : Ages(m) \/ Hangs(m) \/ Pauses(m) \/ Reclaimed(m)

Next ==
    \/ Cycle \/ CycleRaises \/ ManagerRestarts
    \/ DrainElapses \/ GraceElapses \/ IdleElapses \/ CooldownElapses
    \/ Provider

Spec == Init /\ [][Next]_vars

(***************************************************************************)
(* Fairness.  The loop of the manager always runs its next step; a window  *)
(* that is running elapses in the end, and as it does so between cycles,   *)
(* which is now and then, that is strong fairness; the provider boots what *)
(* was created, unless it hangs, and drops dead rows.  Nothing obliges the *)
(* load or the faults.                                                     *)
(***************************************************************************)
FairSpec ==
    /\ Spec
    /\ WF_vars(Cycle)
    /\ SF_vars(DrainElapses) /\ SF_vars(GraceElapses) /\ SF_vars(CooldownElapses)
    /\ SF_vars(\E m \in machines : Ages(m))
    /\ WF_vars(Progress)

-----------------------------------------------------------------------------
(***************************************************************************)
(* Safety.                                                                 *)
(***************************************************************************)

(* "max_replicas bounds the whole fleet, not just autoscale": whatever creates a
   slot - the minimum, the reaper, the load - and however stale its view is. *)
MaxRespected == Cardinality(machines) <= MaxReplicas

(* Two slots never share a name. *)
NamesAreUnique == \A r, q \in machines : r # q => r.name # q.name

(* "The manager never reaps an alive slot younger than that": what the reaper
   destroys is not a machine that is still booting. *)
BootingSpared ==
    \A m \in machines :
        step = "reap" /\ step' # step /\ m.status \in Alive /\ m.young => m \in machines'

(* A replica that is being drained is not given to the router again. *)
RetiringNotWired ==
    \A n \in Names : retiring'[n] # "no" => <<n, victim'[n]>> \notin router' \ router

(* The drain of n has elapsed and the manager takes it off its books. *)
Finishes(n) ==
    step = "scale" /\ step' = step /\ retiring[n] = "due" /\ retiring'[n] = "no"

(* A retirement ends with the machine it was started for gone. *)
RetiredIsDestroyed ==
    \A n \in Names : Finishes(n) =>
        \A m \in machines' : ~(m.name = n /\ m.mid = victim[n])

(* "Never rewrite the config to an empty model_list: the last good config keeps
   serving while reap rebuilds the fleet" (the config.yaml mode). *)
RouterNotEmptied == ~routerApi /\ router # {} => router' # {}

(* What no step of the manager may do, whatever it sees of the provider and
   however late: exceed the fleet, give a name twice, reap what boots, give the router a replica it
   drains, forget one it retired, or take the router's last replica. *)
StepsAreSafe ==
    [][/\ MaxRespected' /\ NamesAreUnique'
       /\ BootingSpared
       /\ RetiringNotWired
       /\ RetiredIsDestroyed
       /\ RouterNotEmptied]_vars

-----------------------------------------------------------------------------
(***************************************************************************)
(* Liveness, under FairSpec.                                               *)
(***************************************************************************)

(* A retirement comes to an end, also when the replica disappears first. *)
RetirementEnds == \A n \in Names : retiring[n] # "no" ~> retiring[n] = "no"

(* However machines are reclaimed, paused or hang, the fleet serves again. *)
ServiceReturns == []<>(\E m \in machines : m.healthy)

(* A router with a database comes to know every replica that serves and is not
   being drained, also one that came back under the name of another. *)
RouterCatchesUp ==
    []<>(routerApi => \A m \in machines : m.healthy /\ retiring[m.name] = "no" => Base(m) \in router)

(* Whatever is reclaimed, paused or hangs, and whenever: retirements end, the
   fleet serves and its router finds it (cycle, reap and autoscale). *)
FleetRecovers == RetirementEnds /\ ServiceReturns /\ RouterCatchesUp

=============================================================================
