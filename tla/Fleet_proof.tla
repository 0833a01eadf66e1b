----------------------------- MODULE Fleet_proof -----------------------------
(***************************************************************************)
(* What no step of the fleet manager may do, for every number of slots, of *)
(* identifiers and of faults, and for every market and wiring.             *)
(*                                                                         *)
(* The manager acts on the replicas as it last listed them while their     *)
(* machines go on.  What makes that safe is that a machine only ever moves *)
(* towards its end (Seen), and that a machine of its slot that it has not  *)
(* seen is not the one it retires (Known).                                 *)
(***************************************************************************)
EXTENDS Fleet, FiniteSetTheorems, WellFoundedInduction, TLAPS

Machine == [mid : Mids, name : Names, status : {"Pending", "Running", "Paused", "Gone"},
            spot : BOOLEAN, young : BOOLEAN, healthy : BOOLEAN, hung : BOOLEAN]
Windows == {"no", "since", "due"}
Tracking == {"min", "reap", "scale"}

TypeOK ==
    /\ machines \subseteq Machine /\ IsFiniteSet(machines) /\ view \subseteq Machine
    /\ step \in Tracking \cup {"list", "rewire", "wire", "add"}
    /\ retiring \in [Names -> Windows] /\ unhealthy \in [Names -> Windows]
    /\ after \in {"list", "rewire"} /\ victim \in [Names -> Mids \cup {None}]

(* A machine once listed is paused, gone or past its boot for good. *)
Later(r, m) ==
    /\ r.status = "Paused" => m.status \in {"Paused", "Gone"}
    /\ r.status = "Gone" => m.status = "Gone"
    /\ ~r.young => ~m.young
Seen == \A r \in view, m \in machines : Same(r, m) => Later(r, m)

(* Until retirements are finished, a machine that is to be retired is in view. *)
Known ==
    step \in Tracking =>
        \A m \in machines : m.mid = victim[m.name] => \E r \in view : Same(r, m)

IInv == TypeOK /\ MaxRespected /\ NamesAreUnique /\ Seen /\ Known

USE FleetAssumption

(* The order of the naturals has no infinite descent. *)
Descent == {p \in Nat \X Nat : p[1] < p[2]}
LEMMA NoDescent == IsWellFoundedOn(Descent, Nat)
  BY NatLessThanWellFounded DEF OpToRel, Descent

(* A set of naturals has a least element. *)
LEMMA LeastOf ==
    ASSUME NEW S \in SUBSET Nat, S # {}
    PROVE  Min(S) \in S
  <1>1. PICK x \in S : \A y \in S : <<y, x>> \notin Descent
    BY NoDescent, WFMin
  <1>2. ASSUME NEW y \in S PROVE x <= y
    <2>1. x \in Nat /\ y \in Nat OBVIOUS
    <2>2. <<y, x>> \in Nat \X Nat /\ <<y, x>>[1] = y /\ <<y, x>>[2] = x BY <2>1
    <2>3. y < x => <<y, x>> \in Descent BY <2>2 DEF Descent
    <2> QED BY <1>1, <2>1, <2>3
  <1> QED BY <1>2 DEF Min

-----------------------------------------------------------------------------
(* Steps that leave some machines and create at most one.                  *)

NewIn(S) ==
    {q \in Machine : /\ \A m \in S : m.name # q.name
                     /\ q.mid \in FreshMids(q.name)
                     /\ Cardinality(S) < MaxReplicas}
Leaves(S) == machines' = S \/ \E q \in NewIn(S) : machines' = S \cup {q}

(* What the manager remembers stays or is forgotten. *)
Remembers ==
    /\ view' \in {view, {}}
    /\ step' \in Tracking \cup {"list", "rewire", "wire", "add"}
    /\ retiring' \in [Names -> Windows] /\ unhealthy' \in [Names -> Windows]
    /\ after' \in {"list", "rewire"} /\ victim' \in [Names -> Mids \cup {None}]
    /\ step' \in Tracking =>
        /\ step \in Tracking /\ view' = view
        /\ \A n \in Names : victim'[n] \in {victim[n], None}

(* Part of the machines is a finite number of them, and no more. *)
LEMMA Fewer ==
    ASSUME TypeOK, MaxRespected, NEW S \in SUBSET machines
    PROVE  /\ IsFiniteSet(S) /\ Cardinality(S) \in Nat /\ Cardinality(S) <= MaxReplicas
           /\ S # machines => Cardinality(S) < MaxReplicas
  <1>1. /\ IsFiniteSet(S) /\ Cardinality(S) \in Nat /\ Cardinality(machines) \in Nat
        /\ Cardinality(S) <= Cardinality(machines)
        /\ S # machines => Cardinality(S) < Cardinality(machines)
    BY FS_Subset, FS_CardinalityType DEF TypeOK
  <1> QED BY <1>1 DEF MaxRespected

(* Such a step keeps the invariant. *)
LEMMA LeavesSound ==
    ASSUME IInv, NEW S \in SUBSET machines, Leaves(S), Remembers
    PROVE  IInv'
  <1> USE DEF IInv
  <1>1. IsFiniteSet(S) /\ Cardinality(S) \in Nat /\ Cardinality(S) <= MaxReplicas BY Fewer
  <1>2. CASE machines' = S
    <2>1. TypeOK' BY <1>1, <1>2 DEF TypeOK, Remembers
    <2>2. MaxRespected' /\ NamesAreUnique' BY <1>1, <1>2 DEF MaxRespected, NamesAreUnique
    <2>3. Seen' BY <1>2 DEF Seen, Remembers, Same, Later
    <2>4. Known'
      <3> SUFFICES ASSUME step' \in Tracking, NEW m \in machines', m.mid = victim'[m.name]
                   PROVE  \E r \in view' : Same(r, m)
        BY DEF Known
      <3>1. m \in Machine /\ m \in machines BY <1>2 DEF TypeOK
      <3>2. m.mid \in Mids /\ m.name \in Names BY <3>1 DEF Machine
      <3>3. m.mid = victim[m.name] BY <3>2 DEF Remembers
      <3> QED BY <3>1, <3>3 DEF Known, Remembers
    <2> QED BY <2>1, <2>2, <2>3, <2>4
  <1>3. ASSUME NEW q \in NewIn(S), machines' = S \cup {q} PROVE IInv'
    <2>0. /\ q \in Machine /\ q.name \in Names /\ \A m \in S : m.name # q.name
          /\ q.mid \in FreshMids(q.name)
          /\ Cardinality(S) < MaxReplicas
      BY <1>3 DEF NewIn, Machine
    <2>a. /\ q.mid \in Mids /\ victim[q.name] # q.mid
          /\ \A r \in machines \cup view : ~(r.name = q.name /\ r.mid = q.mid)
      BY <2>0 DEF FreshMids
    <2>1. TypeOK'
      <3>1. IsFiniteSet(machines') BY <1>1, <1>3, FS_AddElement
      <3> QED BY <1>3, <2>0, <3>1 DEF TypeOK, Remembers
    <2>2. MaxRespected'
      <3>1. Cardinality(S \cup {q}) \in {Cardinality(S), Cardinality(S) + 1} BY <1>1, FS_AddElement
      <3> QED BY <1>1, <1>3, <2>0, <3>1 DEF MaxRespected
    <2>3. NamesAreUnique' BY <1>3, <2>0 DEF NamesAreUnique
    <2>4. Seen'
      <3> SUFFICES ASSUME NEW r \in view', NEW m \in machines', Same(r, m) PROVE Later(r, m)
        BY DEF Seen, Same, Later
      <3>1. r \in view BY DEF Remembers
      <3>2. m # q BY <2>a, <3>1 DEF Same
      <3> QED BY <1>3, <3>1, <3>2 DEF Seen
    <2>5. Known'
      <3> SUFFICES ASSUME step' \in Tracking, NEW m \in machines', m.mid = victim'[m.name]
                   PROVE  \E r \in view' : Same(r, m)
        BY DEF Known
      <3>1. m \in Machine BY <1>3, <2>0 DEF TypeOK
      <3>2. m.mid \in Mids /\ m.name \in Names BY <3>1 DEF Machine
      <3>3. m.mid = victim[m.name] BY <3>2 DEF Remembers
      <3>4. m # q BY <2>a, <3>3
      <3> QED BY <1>3, <3>3, <3>4 DEF Known, Remembers
    <2> QED BY <2>1, <2>2, <2>3, <2>4, <2>5
  <1> QED BY <1>2, <1>3 DEF Leaves

(* create_slot over the machines that are left. *)
LEMMA CreateLeaves ==
    ASSUME IInv, NEW S \in SUBSET machines, CreateSlot(S)
    PROVE  Leaves(S)
  <1> USE DEF IInv
  <1>1. CASE CreateSkipped(S) BY <1>1 DEF CreateSlot, Leaves
  <1>2. CASE ~CreateSkipped(S)
    <2> DEFINE n == FreeName(S)
    <2> DEFINE q == NewSlot(S)
    <2>1. /\ Names # {r.name : r \in S} /\ FreshMids(n) # {} /\ machines' = S \cup {q}
      BY <1>2 DEF CreateSlot
    <2>2. n \in Names /\ \A m \in S : m.name # n
      <3>1. {r.name : r \in S} \subseteq Names BY DEF TypeOK, Machine
      <3>2. Names \ {r.name : r \in S} \in SUBSET Nat /\ Names \ {r.name : r \in S} # {} BY <2>1, <3>1
      <3>3. n \in Names \ {r.name : r \in S} BY <3>2, LeastOf DEF FreeName
      <3> QED BY <3>3
    <2> HIDE DEF n
    <2>3. NewMid(n) \in FreshMids(n) /\ NewMid(n) \in Mids
      <3>1. FreshMids(n) \in SUBSET Nat /\ FreshMids(n) \subseteq Mids BY DEF FreshMids
      <3>2. NewMid(n) \in FreshMids(n) BY <2>1, <3>1, LeastOf DEF NewMid
      <3> QED BY <3>1, <3>2
    <2>4. q.name = n /\ q.mid = NewMid(n) /\ q \in Machine
      BY <2>2, <2>3 DEF NewSlot, n, Machine
    <2>5. Cardinality(S) < MaxReplicas
      <3>1. Cardinality(S) \in Nat BY Fewer
      <3> QED BY <1>2, <3>1 DEF CreateSkipped
    <2> HIDE DEF q
    <2>6. q \in NewIn(S) BY <2>2, <2>3, <2>4, <2>5 DEF NewIn
    <2> QED BY <2>1, <2>6 DEF Leaves
  <1> QED BY <1>1, <1>2

(* A resumed machine takes the place of the paused one. *)
LEMMA ResumeLeaves ==
    ASSUME IInv, NEW r \in view, Listed(r), FreshMids(r.name) # {},
           machines' = Without(r) \cup {Resumed(r)}
    PROVE  Leaves(Without(r))
  <1> USE DEF IInv
  <1> DEFINE q == Resumed(r)
  <1>1. r \in Machine /\ r.name \in Names BY DEF TypeOK, Machine
  <1>2. NewMid(r.name) \in FreshMids(r.name) /\ NewMid(r.name) \in Mids
    <2>1. FreshMids(r.name) \in SUBSET Nat /\ FreshMids(r.name) \subseteq Mids BY DEF FreshMids
    <2>2. NewMid(r.name) \in FreshMids(r.name) BY <2>1, LeastOf DEF NewMid
    <2> QED BY <2>1, <2>2
  <1>3. q \in Machine /\ q.name = r.name /\ q.mid = NewMid(r.name)
    BY <1>1, <1>2 DEF Resumed, Machine
  <1> HIDE DEF q
  <1>4. PICK m \in machines : Same(m, r) BY DEF Listed
  <1>5. /\ Without(r) \in SUBSET machines /\ m \notin Without(r)
        /\ \A k \in Without(r) : k.name # r.name
    BY <1>4 DEF Without, Same, NamesAreUnique
  <1>6. Cardinality(Without(r)) < MaxReplicas BY <1>4, <1>5, Fewer
  <1>7. q \in NewIn(Without(r)) BY <1>2, <1>3, <1>5, <1>6 DEF NewIn
  <1> QED BY <1>7 DEF Leaves, q

-----------------------------------------------------------------------------
(* Each step keeps the invariant.                                          *)

(* Nothing is listed yet. *)
LEMMA InitIInv == Init => IInv
  <1> SUFFICES ASSUME Init PROVE IInv OBVIOUS
  <1> USE DEF Init
  <1>1. TypeOK BY FS_EmptySet DEF TypeOK, Windows, Tracking
  <1>2. MaxRespected BY FS_EmptySet DEF MaxRespected
  <1>3. NamesAreUnique /\ Seen /\ Known BY DEF NamesAreUnique, Seen, Known
  <1> QED BY <1>1, <1>2, <1>3 DEF IInv

(* A step that leaves the machines alone. *)
LEMMA SameMachines ==
    ASSUME IInv, machines' = machines, Remembers
    PROVE  IInv'
  <1>1. Leaves(machines) BY DEF Leaves
  <1> QED BY <1>1, LeavesSound

(* A listing shows the machines as they are. *)
LEMMA ListingSound ==
    ASSUME IInv, List \/ Rewire
    PROVE  IInv'
  <1> USE DEF IInv, List, Rewire
  <1>1. TypeOK' BY DEF TypeOK, Tracking
  <1>2. MaxRespected' /\ NamesAreUnique' BY DEF MaxRespected, NamesAreUnique
  <1>3. Seen' BY DEF Seen, Same, Later, NamesAreUnique
  <1>4. Known' BY DEF Known, Same
  <1> QED BY <1>1, <1>2, <1>3, <1>4

(* What the reaper leaves of its marks. *)
LEMMA MarkedType ==
    ASSUME TypeOK, NEW S
    PROVE  Marked(S) \in [Names -> Windows]
  BY DEF TypeOK, Marked, Windows

(* The minimum. *)
LEMMA EnsureMinSound == IInv /\ EnsureMin => IInv'
  <1> SUFFICES ASSUME IInv, EnsureMin PROVE IInv' OBVIOUS
  <1>1. Remembers BY DEF EnsureMin, Remembers, IInv, TypeOK, Tracking
  <1>2. Leaves(machines)
    <2>1. CASE CreateSlot(machines) BY <2>1, CreateLeaves
    <2>2. CASE UNCHANGED machines BY <2>2 DEF Leaves
    <2> QED BY <2>1, <2>2 DEF EnsureMin
  <1> QED BY <1>1, <1>2, LeavesSound

(* The reaper: a resumed, a replaced or an aborted replica, or none. *)
LEMMA ReapSound == IInv /\ Reap => IInv'
  <1> SUFFICES ASSUME IInv, Reap PROVE IInv' OBVIOUS
  <1> DEFINE acting == {r \in view : r.status = "Paused" \/ Condemned(r)}
  <1> DEFINE calm == view \ acting
  <1>0. TypeOK /\ step = "reap" /\ UNCHANGED <<retiring, victim>> BY DEF IInv, Reap
  <1>1. ASSUME unhealthy' \in [Names -> Windows], ToScale \/ Abort PROVE Remembers
    BY <1>0, <1>1 DEF ToScale, Abort, Remembers, TypeOK, Tracking
  <1>2. CASE acting = {} /\ unhealthy' = Marked(calm) /\ ToScale /\ UNCHANGED <<machines, cooling, faults>>
    <2>1. Remembers BY <1>0, <1>1, <1>2, MarkedType
    <2> QED BY <1>2, <2>1, SameMachines
  <1>3. ASSUME NEW r \in acting, NEW met \in SUBSET calm,
               unhealthy' = Marked(met), ToScale,
               IF Listed(r)
               THEN \/ /\ FreshMids(r.name) # {}
                       /\ machines' = Without(r) \cup {Resumed(r)}
                       /\ UNCHANGED faults
                    \/ SpendFault /\ UNCHANGED machines
               ELSE UNCHANGED <<machines, faults>>
        PROVE  IInv'
    <2>1. Remembers BY <1>0, <1>1, <1>3, MarkedType
    <2>2. CASE machines' = machines BY <2>1, <2>2, SameMachines
    <2>3. CASE Listed(r) /\ FreshMids(r.name) # {} /\ machines' = Without(r) \cup {Resumed(r)}
      <3>1. Leaves(Without(r)) BY <2>3, ResumeLeaves
      <3>2. Without(r) \in SUBSET machines BY DEF Without
      <3> QED BY <2>1, <3>1, <3>2, LeavesSound
    <2> QED BY <1>3, <2>2, <2>3
  <1>4. ASSUME NEW r \in acting, NEW met \in SUBSET calm,
               IF r.status = "Running" /\ ~Listed(r)
               THEN /\ Abort /\ unhealthy' = Marked(met \cup {r})
                    /\ UNCHANGED <<machines, cooling, faults>>
               ELSE LET left == IF r.status = "Running" THEN Without(r) ELSE machines
                    IN \/ /\ CreateSlot(left)
                          /\ unhealthy' = [Marked(met) EXCEPT ![r.name] = "no"]
                          /\ ToScale /\ UNCHANGED faults
                       \/ /\ ~CreateSkipped(left) /\ SpendFault
                          /\ machines' = left
                          /\ unhealthy' = Marked(met \cup {r})
                          /\ Abort /\ UNCHANGED cooling
        PROVE  IInv'
    <2> DEFINE left == IF r.status = "Running" THEN Without(r) ELSE machines
    <2>1. left \in SUBSET machines BY DEF Without
    <2>2. CASE /\ Abort /\ unhealthy' = Marked(met \cup {r}) /\ machines' = machines
      <3>1. Remembers BY <1>0, <1>1, <2>2, MarkedType
      <3> QED BY <2>2, <3>1, SameMachines
    <2>3. CASE /\ CreateSlot(left) /\ unhealthy' = [Marked(met) EXCEPT ![r.name] = "no"] /\ ToScale
      <3>1. Marked(met) \in [Names -> Windows] BY <1>0, MarkedType
      <3>2. unhealthy' \in [Names -> Windows] BY <2>3, <3>1 DEF Windows
      <3>3. Remembers BY <1>1, <2>3, <3>2
      <3> HIDE DEF left
      <3>4. Leaves(left) BY <2>1, <2>3, CreateLeaves
      <3> QED BY <2>1, <3>3, <3>4, LeavesSound
    <2>4. CASE machines' = left /\ unhealthy' = Marked(met \cup {r}) /\ Abort
      <3>1. Remembers BY <1>0, <1>1, <2>4, MarkedType
      <3> HIDE DEF left
      <3>2. Leaves(left) BY <2>4 DEF Leaves
      <3> QED BY <2>1, <3>1, <3>2, LeavesSound
    <2>5. CASE r.status = "Running" /\ ~Listed(r) BY <1>4, <2>2, <2>5
    <2>6. CASE ~(r.status = "Running" /\ ~Listed(r)) BY <1>4, <2>3, <2>4, <2>6
    <2> QED BY <2>5, <2>6
  <1> HIDE DEF acting, calm
  <1>5. \/ acting = {} /\ unhealthy' = Marked(calm) /\ ToScale /\ UNCHANGED <<machines, cooling, faults>>
        \/ \E r \in acting, met \in SUBSET calm :
              /\ unhealthy' = Marked(met) /\ ToScale
              /\ IF Listed(r)
                 THEN \/ /\ FreshMids(r.name) # {}
                         /\ machines' = Without(r) \cup {Resumed(r)}
                         /\ UNCHANGED faults
                      \/ SpendFault /\ UNCHANGED machines
                 ELSE UNCHANGED <<machines, faults>>
        \/ \E r \in acting, met \in SUBSET calm :
              IF r.status = "Running" /\ ~Listed(r)
              THEN /\ Abort /\ unhealthy' = Marked(met \cup {r})
                   /\ UNCHANGED <<machines, cooling, faults>>
              ELSE LET left == IF r.status = "Running" THEN Without(r) ELSE machines
                   IN \/ /\ CreateSlot(left)
                         /\ unhealthy' = [Marked(met) EXCEPT ![r.name] = "no"]
                         /\ ToScale /\ UNCHANGED faults
                      \/ /\ ~CreateSkipped(left) /\ SpendFault
                         /\ machines' = left
                         /\ unhealthy' = Marked(met \cup {r})
                         /\ Abort /\ UNCHANGED cooling
    BY DEF Reap, acting, calm
  <1> QED BY <1>2, <1>3, <1>4, <1>5

(* The end of a retirement. *)
LEMMA FinishSound ==
    ASSUME IInv, NEW n \in Names, FinishRetirement(n)
    PROVE  IInv'
  <1>1. CASE step' = step
    <2> DEFINE left == {m \in machines : \A r \in view : r.name = n => ~Same(r, m)}
    <2>1. /\ machines' = left /\ left \in SUBSET machines
          /\ retiring' = [retiring EXCEPT ![n] = "no"] /\ victim' = [victim EXCEPT ![n] = None]
          /\ UNCHANGED <<step, view, after, unhealthy>>
      BY <1>1 DEF FinishRetirement, Abort
    <2> HIDE DEF left
    <2>2. Remembers
      <3>1. TypeOK BY DEF IInv
      <3>2. victim' \in [Names -> Mids \cup {None}] /\ \A k \in Names : victim'[k] \in {victim[k], None}
        BY <2>1, <3>1 DEF TypeOK
      <3>3. retiring' \in [Names -> Windows] BY <2>1, <3>1 DEF TypeOK, Windows
      <3> QED BY <2>1, <3>1, <3>2, <3>3 DEF TypeOK, Remembers
    <2> QED BY <2>1, <2>2, LeavesSound DEF Leaves
  <1>2. CASE step' # step
    <2>1. /\ machines' = machines /\ view' = {} /\ step' = "list" /\ after' = "list"
          /\ UNCHANGED <<retiring, unhealthy, victim>>
      BY <1>2 DEF FinishRetirement, Abort
    <2>2. TypeOK BY DEF IInv
    <2>3. Remembers BY <2>1, <2>2 DEF Remembers, TypeOK, Tracking
    <2> QED BY <2>1, <2>3, SameMachines
  <1> QED BY <1>1, <1>2

(* Autoscaling. *)
LEMMA ScaleSound == IInv /\ (HoldScale \/ ScaleUp \/ Loaded \/ LightLoad \/ StartRetirement) => IInv'
  <1>1. ASSUME IInv, HoldScale \/ Loaded \/ LightLoad PROVE IInv'
    <2>1. Remembers /\ machines' = machines
      BY <1>1 DEF HoldScale, Loaded, LightLoad, Deciding, ToRewire, Remembers, IInv, TypeOK, Tracking
    <2> QED BY <1>1, <2>1, SameMachines
  <1>2. ASSUME IInv, ScaleUp PROVE IInv'
    <2>1. Remembers
      BY <1>2 DEF ScaleUp, Deciding, ToRewire, Remembers, IInv, TypeOK, Tracking
    <2>2. Leaves(machines)
      <3>1. CASE CreateSlot(machines) BY <1>2, <3>1, CreateLeaves
      <3>2. CASE UNCHANGED machines BY <3>2 DEF Leaves
      <3> QED BY <1>2, <3>1, <3>2 DEF ScaleUp
    <2> QED BY <1>2, <2>1, <2>2, LeavesSound
  <1>3. ASSUME IInv, StartRetirement PROVE IInv'
    <2>1. PICK r \in Candidates : /\ retiring' = [retiring EXCEPT ![r.name] = "since"]
                                  /\ victim' = [victim EXCEPT ![r.name] = r.mid]
      BY <1>3 DEF StartRetirement
    <2>2. r \in Machine BY <1>3, <2>1 DEF Candidates, Healthy, IInv, TypeOK
    <2>3. r.name \in Names /\ r.mid \in Mids BY <2>2 DEF Machine
    <2>4. /\ retiring' \in [Names -> Windows] /\ victim' \in [Names -> Mids \cup {None}]
      BY <1>3, <2>1, <2>3 DEF IInv, TypeOK, Windows
    <2>5. Remembers /\ machines' = machines
      BY <1>3, <2>4 DEF StartRetirement, Deciding, Remembers, IInv, TypeOK, Tracking
    <2> QED BY <1>3, <2>5, SameMachines
  <1> QED BY <1>1, <1>2, <1>3

(* Wiring, failures, and what only the clock changes. *)
LEMMA WireSound ==
    IInv /\ (WireNothing \/ WireFile \/ WireFileFails \/ ApiDelete \/ ApiAdd) => IInv'
  <1> SUFFICES ASSUME IInv, WireNothing \/ WireFile \/ WireFileFails \/ ApiDelete \/ ApiAdd
               PROVE  IInv'
    OBVIOUS
  <1>0. TypeOK BY DEF IInv
  <1>1. machines' = machines /\ UNCHANGED <<retiring, unhealthy, victim>>
    BY DEF WireNothing, WireFile, WireFileFails, ApiDelete, ApiAdd, WireFrame
  <1>2. Remembers
    BY <1>0, <1>1 DEF WireNothing, WireFile, WireFileFails, ApiDelete, ApiAdd, Return, Remembers,
       TypeOK, Tracking
  <1> QED BY <1>1, <1>2, SameMachines

(* The manager restarts, a call raises, or time passes. *)
LEMMA ElapseSound ==
    IInv /\ (CycleRaises \/ ManagerRestarts \/ DrainElapses \/ GraceElapses \/ IdleElapses
             \/ CooldownElapses) => IInv'
  <1> SUFFICES ASSUME IInv, \/ CycleRaises \/ ManagerRestarts \/ DrainElapses \/ GraceElapses
                            \/ IdleElapses \/ CooldownElapses
               PROVE  IInv'
    OBVIOUS
  <1>1. TypeOK BY DEF IInv
  <1>2. CASE CycleRaises \/ ManagerRestarts
    <2>1. /\ machines' = machines /\ view' = {} /\ step' = "list" /\ after' = "list"
      BY <1>2 DEF CycleRaises, ManagerRestarts, Abort
    <2>2. CASE CycleRaises
      <3>1. UNCHANGED <<retiring, unhealthy, victim>> BY <2>2 DEF CycleRaises
      <3> QED BY <1>1, <2>1, <3>1, SameMachines DEF Remembers, TypeOK, Tracking
    <2>3. CASE ManagerRestarts
      <3>1. /\ retiring' \in [Names -> Windows] /\ unhealthy' \in [Names -> Windows]
            /\ victim' \in [Names -> Mids \cup {None}]
        BY <2>3 DEF ManagerRestarts, Windows
      <3> QED BY <2>1, <3>1, SameMachines DEF Remembers, Tracking
    <2> QED BY <1>2, <2>2, <2>3
  <1>3. CASE DrainElapses \/ GraceElapses \/ IdleElapses \/ CooldownElapses
    <2>1. retiring' \in [Names -> Windows] /\ unhealthy' \in [Names -> Windows]
      BY <1>1, <1>3 DEF DrainElapses, GraceElapses, IdleElapses, CooldownElapses, TypeOK, Windows
    <2>2. machines' = machines /\ UNCHANGED <<step, view, after, victim>> /\ step = "list"
      BY <1>3 DEF DrainElapses, GraceElapses, IdleElapses, CooldownElapses
    <2>3. Remembers BY <1>1, <2>1, <2>2 DEF Remembers, TypeOK, Tracking
    <2> QED BY <2>2, <2>3, SameMachines
  <1> QED BY <1>2, <1>3

(* What the provider makes of a machine is the same machine, later. *)
LEMMA BecomeSound ==
    ASSUME IInv, NEW m \in machines, NEW q \in Machine, Become(m, q), Same(m, q), Later(m, q)
    PROVE  IInv'
  <1> USE DEF IInv
  <1>0. /\ machines' = (machines \ {m}) \cup {q} /\ UNCHANGED managerVars
        /\ q.name = m.name /\ q.mid = m.mid /\ m \in Machine
    BY DEF Become, Same, TypeOK
  <1>1. /\ IsFiniteSet(machines') /\ MaxRespected'
    <2> DEFINE S == machines \ {m}
    <2>1. S \in SUBSET machines /\ S # machines OBVIOUS
    <2>2. IsFiniteSet(S) /\ Cardinality(S) \in Nat /\ Cardinality(S) < MaxReplicas BY <2>1, Fewer
    <2>3. machines' = S \cup {q} BY <1>0
    <2> HIDE DEF S
    <2>4. IsFiniteSet(machines') /\ Cardinality(machines') \in {Cardinality(S), Cardinality(S) + 1}
      BY <2>2, <2>3, FS_AddElement
    <2> QED BY <2>2, <2>4 DEF MaxRespected
  <1>2. TypeOK' BY <1>0, <1>1 DEF TypeOK, managerVars
  <1>3. NamesAreUnique' BY <1>0 DEF NamesAreUnique
  <1>4. Seen'
    <2> SUFFICES ASSUME NEW r \in view, NEW k \in machines', Same(r, k) PROVE Later(r, k)
      BY <1>0 DEF managerVars, Seen, Same, Later
    <2>1. CASE k \in machines BY <2>1 DEF Seen
    <2>2. CASE k = q
      <3>1. Same(r, m) BY <1>0, <2>2 DEF Same
      <3>2. Later(r, m) BY <3>1 DEF Seen
      <3> QED BY <2>2, <3>2 DEF Later
    <2> QED BY <1>0, <2>1, <2>2
  <1>5. Known'
    <2>1. UNCHANGED <<step, view, victim>> BY <1>0 DEF managerVars
    <2> SUFFICES ASSUME step \in Tracking, NEW k \in machines', k.mid = victim[k.name]
                 PROVE  \E r \in view : Same(r, k)
      BY <2>1 DEF Known, Same
    <2>2. CASE k \in machines BY <2>2 DEF Known
    <2>3. CASE k = q
      <3>1. m.mid = victim[m.name] BY <1>0, <2>3
      <3>2. PICK r \in view : Same(r, m) BY <3>1 DEF Known
      <3> QED BY <1>0, <2>3, <3>2 DEF Same
    <2> QED BY <1>0, <2>2, <2>3
  <1> QED BY <1>1, <1>2, <1>3, <1>4, <1>5

(* Whatever the provider does. *)
LEMMA ProviderSound == IInv /\ Provider => IInv'
  <1> SUFFICES ASSUME IInv, Provider PROVE IInv' OBVIOUS
  <1>1. PICK m \in machines : \/ Provisions(m) \/ Serves(m) \/ Delists(m)
                              \/ Ages(m) \/ Hangs(m) \/ Pauses(m) \/ Reclaimed(m)
    BY DEF Provider, Progress
  <1>2. m \in Machine BY DEF IInv, TypeOK
  <1> USE DEF Machine, Same, Later
  <1>3. CASE Provisions(m)
    <2> DEFINE q == [m EXCEPT !.status = "Running"]
    <2>1. q \in Machine /\ Same(m, q) /\ Later(m, q) BY <1>2, <1>3 DEF Provisions
    <2>2. Become(m, q) BY <1>3 DEF Provisions
    <2> HIDE DEF q
    <2> QED BY <2>1, <2>2, BecomeSound
  <1>4. CASE Serves(m)
    <2> DEFINE q == [m EXCEPT !.healthy = TRUE]
    <2>1. q \in Machine /\ Same(m, q) /\ Later(m, q) BY <1>2
    <2>2. Become(m, q) BY <1>4 DEF Serves
    <2> HIDE DEF q
    <2> QED BY <2>1, <2>2, BecomeSound
  <1>5. CASE Delists(m)
    <2>1. machines' = machines \ {m} /\ UNCHANGED managerVars BY <1>5 DEF Delists
    <2>2. Remembers BY <2>1 DEF managerVars, Remembers, IInv, TypeOK
    <2>3. Leaves(machines \ {m}) BY <2>1 DEF Leaves
    <2> QED BY <2>2, <2>3, LeavesSound
  <1>6. CASE Ages(m)
    <2> DEFINE q == [m EXCEPT !.young = FALSE]
    <2>1. q \in Machine /\ Same(m, q) /\ Later(m, q) BY <1>2
    <2>2. Become(m, q) BY <1>6 DEF Ages
    <2> HIDE DEF q
    <2> QED BY <2>1, <2>2, BecomeSound
  <1>7. CASE Hangs(m)
    <2> DEFINE q == [m EXCEPT !.healthy = FALSE, !.hung = TRUE]
    <2>1. q \in Machine /\ Same(m, q) /\ Later(m, q) BY <1>2
    <2>2. Become(m, q) BY <1>7 DEF Hangs
    <2> HIDE DEF q
    <2> QED BY <2>1, <2>2, BecomeSound
  <1>8. CASE Pauses(m)
    <2> DEFINE q == [m EXCEPT !.status = "Paused", !.healthy = FALSE]
    <2>1. q \in Machine /\ Same(m, q) BY <1>2
    <2>2. Later(m, q) BY <1>2, <1>8 DEF Pauses, Alive
    <2>3. Become(m, q) BY <1>8 DEF Pauses
    <2> HIDE DEF q
    <2> QED BY <2>1, <2>2, <2>3, BecomeSound
  <1>9. CASE Reclaimed(m)
    <2> DEFINE q == [m EXCEPT !.status = "Gone", !.healthy = FALSE]
    <2>1. q \in Machine /\ Same(m, q) BY <1>2
    <2>2. Later(m, q) BY <1>2
    <2>3. Become(m, q) BY <1>9 DEF Reclaimed
    <2> HIDE DEF q
    <2> QED BY <2>1, <2>2, <2>3, BecomeSound
  <1> QED BY <1>1, <1>3, <1>4, <1>5, <1>6, <1>7, <1>8, <1>9

(* Every step keeps the invariant. *)
LEMMA StepIInv == IInv /\ [Next]_vars => IInv'
  <1> SUFFICES ASSUME IInv, [Next]_vars PROVE IInv' OBVIOUS
  <1>1. CASE UNCHANGED vars
    <2>1. Remembers /\ machines' = machines
      BY <1>1 DEF vars, managerVars, Remembers, IInv, TypeOK
    <2> QED BY <2>1, SameMachines
  <1>2. CASE Cycle
    BY <1>2, ListingSound, EnsureMinSound, ReapSound, FinishSound, ScaleSound, WireSound DEF Cycle
  <1>3. CASE Provider BY <1>3, ProviderSound
  <1> QED BY <1>1, <1>2, <1>3, ElapseSound DEF Next

(* The fleet as the provider lists it and as the manager last saw it. *)
THEOREM Invariant == Spec => []IInv
  BY InitIInv, StepIInv, PTL DEF Spec

-----------------------------------------------------------------------------
(* What no step may do.                                                    *)

(* The provider does not touch the manager or the router. *)
LEMMA ProviderLeaves == Provider => UNCHANGED <<managerVars, router>>
  BY DEF Provider, Progress, Provisions, Serves, Delists, Ages, Hangs, Pauses, Reclaimed, Become

(* Nothing but the wiring changes the router. *)
LEMMA Rerouted == [Next]_vars => UNCHANGED router \/ WireFile \/ ApiDelete \/ ApiAdd
  <1> SUFFICES ASSUME [Next]_vars PROVE UNCHANGED router \/ WireFile \/ ApiDelete \/ ApiAdd
    OBVIOUS
  <1>1. CASE Cycle
    BY <1>1 DEF Cycle, List, EnsureMin, Reap, FinishRetirement, HoldScale, ScaleUp, Loaded, LightLoad,
       StartRetirement, Rewire, WireNothing, WireFileFails
  <1>2. CASE \/ CycleRaises \/ ManagerRestarts
             \/ DrainElapses \/ GraceElapses \/ IdleElapses \/ CooldownElapses
    BY <1>2 DEF CycleRaises, ManagerRestarts, DrainElapses, GraceElapses, IdleElapses, CooldownElapses
  <1>3. CASE Provider BY <1>3, ProviderLeaves
  <1>4. CASE UNCHANGED vars BY <1>4 DEF vars
  <1> QED BY <1>1, <1>2, <1>3, <1>4 DEF Next

(* The reaper spares what boots: what it has seen of a machine still holds. *)
LEMMA Spared == IInv /\ Next => BootingSpared
  <1> SUFFICES ASSUME IInv, Next, NEW m \in machines,
                      step = "reap", step' # step, m.status \in Alive, m.young
               PROVE  m \in machines'
    BY DEF BootingSpared
  <1>1. CASE Reap
    <2>1. CASE machines' = machines BY <2>1
    <2>2. ASSUME NEW S \in SUBSET machines, CreateSlot(S), m \in S PROVE m \in machines'
      BY <2>2 DEF CreateSlot
    <2>3. ASSUME NEW r \in view, r.status = "Paused" PROVE m \in Without(r)
      BY <2>3 DEF IInv, Seen, Later, Without, Same, Alive
    <2>4. ASSUME NEW r \in view, Condemned(r) PROVE m \in Without(r) \/ r.status # "Running"
      BY <2>4 DEF IInv, Seen, Later, Without, Same, Alive, Condemned, Late
    <2>5. ASSUME NEW r \in view PROVE Without(r) \in SUBSET machines BY DEF Without
    <2>6. \/ machines' = machines
          \/ \E r \in view : r.status = "Paused" /\ machines' = Without(r) \cup {Resumed(r)}
          \/ \E r \in view : /\ Condemned(r)
                             /\ LET left == IF r.status = "Running" THEN Without(r) ELSE machines
                                IN CreateSlot(left) \/ machines' = left
      BY <1>1 DEF Reap
    <2>7. CASE \E r \in view : r.status = "Paused" /\ machines' = Without(r) \cup {Resumed(r)}
      BY <2>3, <2>7
    <2>8. ASSUME NEW r \in view, Condemned(r), r.status = "Running",
                 CreateSlot(Without(r)) \/ machines' = Without(r)
          PROVE  m \in machines'
      BY <2>2, <2>4, <2>5, <2>8
    <2>9. ASSUME CreateSlot(machines) PROVE m \in machines' BY <2>2, <2>9
    <2> QED BY <2>1, <2>6, <2>7, <2>8, <2>9
  <1>2. CASE CycleRaises \/ ManagerRestarts BY <1>2 DEF CycleRaises, ManagerRestarts
  <1>3. step' = step \/ Reap \/ CycleRaises \/ ManagerRestarts
    <2>1. CASE Cycle
      BY <2>1 DEF Cycle, List, EnsureMin, FinishRetirement, HoldScale, ScaleUp, Loaded, LightLoad,
         StartRetirement, Deciding, Rewire, WireNothing, WireFile, WireFileFails, ApiDelete, ApiAdd
    <2>2. CASE DrainElapses \/ GraceElapses \/ IdleElapses \/ CooldownElapses
      BY <2>2 DEF DrainElapses, GraceElapses, IdleElapses, CooldownElapses
    <2>3. CASE Provider BY <2>3, ProviderLeaves DEF managerVars
    <2> QED BY <2>1, <2>2, <2>3 DEF Next
  <1> QED BY <1>1, <1>2, <1>3

(* The router is given only what is not being drained. *)
LEMMA NotWired == IInv /\ [Next]_vars => RetiringNotWired
  <1> SUFFICES ASSUME IInv, [Next]_vars, NEW n \in Names, retiring'[n] # "no",
                      <<n, victim'[n]>> \in router' \ router
               PROVE  FALSE
    BY DEF RetiringNotWired
  <1>1. WireFile \/ ApiAdd
    BY Rerouted DEF ApiDelete
  <1>2. retiring' = retiring /\ <<n, victim'[n]>> \in Bases(Wanted)
    BY <1>1 DEF WireFile, ApiAdd, WireFrame
  <1>3. PICK r \in Wanted : <<n, victim'[n]>> = Base(r) BY <1>2 DEF Bases
  <1> QED BY <1>2, <1>3 DEF Wanted, Base

(* A retirement ends with its machine. *)
LEMMA Destroyed == IInv /\ [Next]_vars => RetiredIsDestroyed
  <1> SUFFICES ASSUME IInv, [Next]_vars, NEW n \in Names, Finishes(n),
                      NEW m \in machines', m.name = n, m.mid = victim[n]
               PROVE  FALSE
    BY DEF RetiredIsDestroyed
  <1>1. PICK k \in Names : FinishRetirement(k)
    <2>1. CASE Cycle
      BY <2>1 DEF Finishes, Cycle, List, EnsureMin, Reap, HoldScale, ScaleUp, Loaded, LightLoad,
         StartRetirement, Rewire, WireNothing, WireFile, WireFileFails, ApiDelete, ApiAdd, WireFrame
    <2>2. CASE DrainElapses \/ GraceElapses \/ IdleElapses \/ CooldownElapses
      BY <2>2 DEF Finishes, DrainElapses, GraceElapses, IdleElapses, CooldownElapses
    <2>3. CASE Provider BY <2>3, ProviderLeaves DEF Finishes, managerVars
    <2>4. CASE CycleRaises \/ ManagerRestarts
      BY <2>4 DEF Finishes, CycleRaises, ManagerRestarts, Abort
    <2>5. CASE UNCHANGED vars BY <2>5 DEF Finishes, vars, managerVars
    <2> QED BY <2>1, <2>2, <2>3, <2>4, <2>5 DEF Next
  <1>2. k = n
    BY <1>1 DEF FinishRetirement, Finishes, IInv, TypeOK
  <1>3. machines' = {i \in machines : \A r \in view : r.name = n => ~Same(r, i)}
    BY <1>1, <1>2 DEF FinishRetirement, Finishes, Abort
  <1>4. step \in Tracking BY DEF Finishes, Tracking
  <1>5. PICK r \in view : Same(r, m) BY <1>3, <1>4 DEF IInv, Known
  <1> QED BY <1>3, <1>5 DEF Same

(* config.yaml is never written without a replica. *)
LEMMA NotEmptied == IInv /\ [Next]_vars => RouterNotEmptied
  <1> SUFFICES ASSUME [Next]_vars, ~routerApi, router # {} PROVE router' # {}
    BY DEF RouterNotEmptied
  <1>1. CASE UNCHANGED router BY <1>1
  <1>2. CASE WireFile
    BY <1>2 DEF WireFile, Settled, Bases
  <1>3. CASE ApiAdd BY <1>3 DEF ApiAdd
  <1>4. ~ApiDelete BY DEF ApiDelete
  <1> QED BY <1>1, <1>2, <1>3, <1>4, Rerouted

(* Whatever is reclaimed, paused or hangs, whatever the manager has seen of it
   and whichever of its calls fail: a step never exceeds the fleet or gives a name
   twice, never reaps what boots, never gives the router what is being drained,
   never forgets a retired machine, never empties the router. *)
THEOREM SafeSteps == Spec => StepsAreSafe
  <1>1. IInv /\ [Next]_vars =>
            [/\ MaxRespected' /\ NamesAreUnique'
             /\ BootingSpared
             /\ RetiringNotWired
             /\ RetiredIsDestroyed
             /\ RouterNotEmptied]_vars
    BY StepIInv, Spared, NotWired, Destroyed, NotEmptied DEF IInv
  <1> QED BY <1>1, Invariant, PTL DEF Spec, StepsAreSafe
=============================================================================
