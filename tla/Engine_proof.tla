---------------------------- MODULE Engine_proof ----------------------------
(***************************************************************************)
(* Proofs about the engine, for any number of requests, blocks, tokens and *)
(* faults, with one step or two on their way.  Core, one part of the       *)
(* invariant after the other, gives the types and the ownership of the     *)
(* blocks; KvInv and PutInv, on top of it, that the KV is a request's own. *)
(***************************************************************************)
EXTENDS EngineSteps_proof

-----------------------------------------------------------------------------
(* PlaceInv: placeholders and counts.                                        *)

(* A request has at most two placeholders.                                   *)
LEMMA CountIs ==
    ASSUME NEW r
    PROVE  /\ Count(r) \in {0, 1, 2}
           /\ Count(r) = (IF Sampled(r, 1) THEN 1 ELSE 0) + (IF Sampled(r, 2) THEN 1 ELSE 0)
           /\ Count(r) = 0 <=> ~Sampled(r, 1) /\ ~Sampled(r, 2)
BY DEF Count

(* What is said of the placeholders of r stays true while r keeps its       *)
(* counters, unless its status changes in a way that matters.               *)
LEMMA PlaceFrame ==
    ASSUME NEW r \in Reqs, PlaceOf(r),
           st'[r] = st[r], computed'[r] = computed[r], out'[r] = out[r], place'[r] = place[r],
           r \in hurt' => r \in hurt, r \in stores' => r \in stores \/ st[r] \notin Fresher,
           Clean' => Clean, Count(r)' = Count(r)
    PROVE  PlaceOf(r)'
  <1>1. Tokens(r)' = Tokens(r) BY DEF Tokens
  <1> QED BY <1>1 DEF PlaceOf

(* The samples on their way, while the steps stay as they are.               *)
LEMMA CountSame ==
    ASSUME NEW r, pipe' = pipe PROVE Count(r)' = Count(r)
BY DEF Count, Sampled

(* The samples on their way, while the steps keep their shape.               *)
LEMMA CountShape ==
    ASSUME NEW r, PipeTypes, SameShape PROVE Count(r)' = Count(r)
  <1>1. \A i : Sampled(r, i)' <=> Sampled(r, i) BY DEF Sampled, SameShape
  <1>2. (Sampled(r, 1)' <=> Sampled(r, 1)) /\ (Sampled(r, 2)' <=> Sampled(r, 2)) BY <1>1
  <1> QED BY <1>2 DEF Count

(* The last of the steps on their way.                                       *)
LEMMA LastIs == ASSUME pipe # << >>, PipeTypes PROVE Last(pipe) = pipe[Len(pipe)] /\ Len(pipe) \in DOMAIN pipe
  <1>1. pipe \in Seq(StepT) BY DEF PipeTypes
  <1> QED BY <1>1, EmptySeq, LenProperties DEF Last

(* The last step samples no preempted request, while nothing of it changes.  *)
LEMMA LastSame ==
    ASSUME PlaceInv, Base, Base', DOMAIN pipe' = DOMAIN pipe,
           \A k \in DOMAIN pipe : pipe'[k].samples = pipe[k].samples,
           cur.preempted => cur'.preempted,
           \A r \in Reqs : st'[r] = "preempted" => st[r] = "preempted"
    PROVE  pipe' # << >> /\ ~cur'.preempted => \A r \in Last(pipe').samples : st'[r] # "preempted"
  <1> SUFFICES ASSUME pipe' # << >>, ~cur'.preempted, NEW r \in Last(pipe').samples
               PROVE  st'[r] # "preempted"
    OBVIOUS
  <1>1. pipe \in Seq(StepT) /\ pipe' \in Seq(StepT) BY DEF Base, Types, PipeTypes
  <1>2. Len(pipe') = Len(pipe) /\ Len(pipe) \in Nat /\ DOMAIN pipe = 1..Len(pipe)
    <2> DEFINE a == Len(pipe)  b == Len(pipe')
    <2>1. a \in Nat /\ b \in Nat /\ DOMAIN pipe = 1..a /\ DOMAIN pipe' = 1..b BY <1>1, LenProperties
    <2> HIDE DEF a, b
    <2>2. 1..a = 1..b BY <2>1
    <2>3. a = b
      <3>1. a # 0 => a \in 1..b BY <2>1, <2>2
      <3>2. b # 0 => b \in 1..a BY <2>1, <2>2
      <3> QED BY <2>1, <3>1, <3>2
    <2> QED BY <2>1, <2>3 DEF a, b
  <1>3. pipe # << >> BY <1>1, <1>2, EmptySeq
  <1>4. Last(pipe) = pipe[Len(pipe)] /\ Len(pipe) \in DOMAIN pipe BY <1>3, LastIs DEF Base, Types
  <1>5. Last(pipe') = pipe'[Len(pipe')] BY DEF Last
  <1>6. Last(pipe').samples = Last(pipe).samples BY <1>2, <1>4, <1>5
  <1>7. st[r] # "preempted" /\ r \in Reqs
    <2>1. r \in Last(pipe).samples BY <1>6
    <2>2. pipe[Len(pipe)] \in StepT BY <1>4, PipeIs DEF Base, Types
    <2>3. r \in Reqs BY <1>4, <2>1, <2>2, StepFields
    <2> QED BY <1>3, <2>1, <2>3 DEF PlaceInv
  <1> QED BY <1>7

(* PlaceInv, in a decision of schedule() that only moves the scan, the       *)
(* queues or a note.                                                         *)
LEMMA LightPlace ==
    ASSUME Base, PlaceInv, Light, Base' PROVE PlaceInv'
  <1>1. /\ st' = st /\ computed' = computed /\ out' = out /\ place' = place /\ hurt' = hurt
        /\ stores' = stores /\ pipe' = pipe /\ cur'.preempted = cur.preempted /\ seen' = seen
    BY DEF Light, SameReqs, SameWork, SameCur
  <1>2. \A r \in Reqs : PlaceOf(r)' BY <1>1, PlaceFrame, CountSame DEF PlaceInv, Clean
  <1>3. Depth = 1 => place' = Zero BY <1>1 DEF PlaceInv
  <1>4. pipe' # << >> /\ ~cur'.preempted => \A r \in Last(pipe').samples : st'[r] # "preempted"
    BY <1>1, LastSame
  <1> QED BY <1>2, <1>3, <1>4 DEF PlaceInv, Zero

(* PlaceInv, in a step that leaves the requests, the blocks and the shape of *)
(* the pipe.                                                                 *)
LEMMA AsidePlace ==
    ASSUME Base, PlaceInv, Aside, Base', \A r \in Reqs : r \in stores' => r \in stores \/ st[r] \notin Fresher
    PROVE PlaceInv'
  <1>1. /\ st' = st /\ computed' = computed /\ out' = out /\ place' = place /\ hurt' = hurt
        /\ SameShape /\ cur' = cur /\ Clean' = Clean
    BY DEF Aside, SameReqs
  <1>2. \A r \in Reqs : PlaceOf(r)' BY <1>1, PlaceFrame, CountShape DEF PlaceInv, Base, Types
  <1>3. Depth = 1 => place' = Zero BY <1>1 DEF PlaceInv
  <1>5. DOMAIN pipe' = DOMAIN pipe /\ \A k \in DOMAIN pipe : pipe'[k].samples = pipe[k].samples
    BY <1>1 DEF SameShape
  <1>4. pipe' # << >> /\ ~cur'.preempted => \A r \in Last(pipe').samples : st'[r] # "preempted"
    BY <1>1, <1>5, LastSame
  <1> QED BY <1>2, <1>3, <1>4 DEF PlaceInv, Zero

(* PlaceInv, when a step is executed.                                        *)
LEMMA ExecutePlace ==
    ASSUME Base, PlaceInv, NEW over, Execute(over) PROVE PlaceInv'
  <1>1. Aside /\ Base' BY ExecuteAside, ExecuteBase DEF Base
  <1>2. At \in DOMAIN pipe /\ stores' \subseteq stores \cup Stored BY ExecuteIs DEF Base
  <1>3. \A r \in Reqs : r \in Stored => st[r] \notin Fresher
    BY <1>2 DEF Stored, Base, StepInv
  <1> QED BY <1>1, <1>2, <1>3, AsidePlace

(* PlaceInv, when a running request is scheduled.                            *)
LEMMA TakeRunningPlace ==
    ASSUME CacheAssumption, EngineAssumption, Base, PlaceInv, TakeRunning PROVE PlaceInv'
  <1>1. Base' BY TakeRunningBase
  <1>2. /\ cur'.preempted = cur.preempted
        /\ UNCHANGED <<cacheVars, queueVars, reqVars, doneVars, pipe, aborts, seen>>
    BY TakeRunningIs DEF Base
  <1>3. /\ st' = st /\ computed' = computed /\ out' = out /\ place' = place /\ hurt' = hurt
        /\ stores' = stores /\ pipe' = pipe /\ seen' = seen
    BY <1>2 DEF reqVars, cacheVars, workVars
  <1>4. \A r \in Reqs : PlaceOf(r)' BY <1>3, PlaceFrame, CountSame DEF PlaceInv, Clean
  <1>5. Depth = 1 => place' = Zero BY <1>3 DEF PlaceInv
  <1>6. pipe' # << >> /\ ~cur'.preempted => \A r \in Last(pipe').samples : st'[r] # "preempted"
    BY <1>1, <1>2, <1>3, LastSame
  <1> QED BY <1>4, <1>5, <1>6 DEF PlaceInv, Zero

(* PlaceInv, when the last running request is preempted.                     *)
LEMMA PreemptPlace ==
    ASSUME CacheAssumption, EngineAssumption, Base, PlaceInv, Preempt PROVE PlaceInv'
  <1>0. PICK v \in Reqs : v = Last(running) BY PreemptIs DEF Base
  <1>1. Base' BY PreemptBase
  <1>2. /\ v \in Reqs /\ st[v] = "running"
        /\ st'[v] = "preempted" /\ computed'[v] = 0
        /\ \A q \in Reqs : q # v => st'[q] = st[q] /\ computed'[q] = computed[q]
        /\ hurt' = hurt \cup {v} /\ cur'.preempted = TRUE
        /\ UNCHANGED <<cacheVars, out, place, pipe, seen>>
    BY <1>0, PreemptIs DEF Base
  <1>3. stores' = stores /\ pipe' = pipe /\ out' = out /\ place' = place /\ (Clean' <=> Clean)
    BY <1>2 DEF cacheVars, workVars, Clean
  <1>4. PlaceOf(v)'
    <2>1. PlaceOf(v) /\ Count(v)' = Count(v) /\ Tokens(v)' = Tokens(v)
      BY <1>2, <1>3, CountSame DEF PlaceInv, Tokens
    <2>2. Tokens(v) \in Nat /\ place[v] \in Nat /\ Prompt + MaxNew > 0 BY <1>2, ReqFields DEF Base, Types
    <2>3. computed'[v] <= Tokens(v)' + place'[v] /\ computed'[v] < Prompt + MaxNew
      BY <1>2, <1>3, <2>1, <2>2
    <2> QED BY <1>2, <1>3, <2>1, <2>3 DEF PlaceOf, Over, Fresher
  <1>5. \A r \in Reqs : r # v => PlaceOf(r)'
    BY <1>2, <1>3, PlaceFrame, CountSame DEF PlaceInv
  <1>6. Depth = 1 => place' = Zero BY <1>3 DEF PlaceInv
  <1> QED BY <1>2, <1>4, <1>5, <1>6 DEF PlaceInv, Zero

(* PlaceInv, when the wait of a request for its load is over.                *)
LEMMA PromotePlace ==
    ASSUME CacheAssumption, EngineAssumption, Base, PlaceInv, Promote PROVE PlaceInv'
  <1>0. PICK r \in Reqs : r = Head1 BY PromoteIs
  <1>1. /\ r \in Reqs /\ st[r] = "remote"
        /\ st'[r] = IF r \in hurt THEN "preempted" ELSE "waiting"
        /\ computed'[r] = IF r \notin recvFailed /\ computed[r] = Tokens(r)
                          THEN computed[r] - 1 ELSE computed[r]
        /\ \A q \in Reqs : q # r => st'[q] = st[q] /\ computed'[q] = computed[q]
        /\ seen' = IF Lost(r) THEN seen \cup {"lost"} ELSE seen
        /\ UNCHANGED <<cacheVars, out, place, hurt, pipe, cur>>
        /\ Base'
    BY <1>0, PromoteIs
  <1>2. stores' = stores /\ pipe' = pipe /\ out' = out /\ place' = place /\ hurt' = hurt /\ (Clean' <=> Clean)
    BY <1>1 DEF cacheVars, workVars, Clean
  <1>3. PlaceOf(r) BY <1>1 DEF PlaceInv
  <1>4. r \notin hurt /\ st'[r] = "waiting" BY <1>1, <1>3 DEF PlaceOf, Fresher
  <1>5. PlaceOf(r)'
    <2>1. Count(r)' = Count(r) /\ Tokens(r)' = Tokens(r) BY <1>2, CountSame DEF Tokens
    <2>2. /\ Tokens(r) \in Nat /\ Tokens(r) > 0 /\ place[r] \in Nat /\ computed[r] \in Nat
          /\ MaxNew \in Nat /\ Prompt \in Nat
      BY <1>1, ReqFields DEF Base, Types
    <2>3. computed'[r] <= computed[r] /\ computed'[r] \in Nat BY <1>1, <2>2
    <2>4. computed'[r] <= Tokens(r)' + place'[r]
      BY <1>2, <1>3, <2>1, <2>2, <2>3 DEF PlaceOf
    <2>5. Clean' => computed'[r] < Prompt + MaxNew BY <1>2, <1>3, <2>2, <2>3 DEF PlaceOf
    <2> QED BY <1>1, <1>2, <1>3, <1>4, <2>1, <2>4, <2>5 DEF PlaceOf, Over, Fresher
  <1>6. \A q \in Reqs : q # r => PlaceOf(q)' BY <1>1, <1>2, PlaceFrame, CountSame DEF PlaceInv
  <1>7. Depth = 1 => place' = Zero BY <1>2 DEF PlaceInv
  <1>8. pipe' # << >> /\ ~cur'.preempted => \A q \in Last(pipe').samples : st'[q] # "preempted"
    <2>1. \A q \in Reqs : st'[q] = "preempted" => st[q] = "preempted" BY <1>1, <1>4
    <2>2. cur' = cur BY <1>1
    <2> QED BY <1>1, <1>2, <2>1, <2>2, LastSame
  <1> QED BY <1>5, <1>6, <1>7, <1>8 DEF PlaceInv, Zero

(* PlaceInv, when a request is admitted to load its hit.                     *)
LEMMA LoadPlace ==
    ASSUME CacheAssumption, EngineAssumption, Base, PlaceInv, NEW base \in Nat, AdmittedAs(base, TRUE)
    PROVE PlaceInv'
  <1>0. PICK r \in Reqs : r = Head1 BY LoadIs
  <1>1. /\ r \in Reqs /\ st[r] = "waiting" /\ base > 0 /\ base <= Prompt
        /\ computed[r] = 0 /\ computed'[r] = base /\ st'[r] = "remote"
        /\ \A q \in Reqs : q # r => st'[q] = st[q] /\ computed'[q] = computed[q]
        /\ cur'.preempted = cur.preempted
        /\ UNCHANGED <<workVars, out, place, hurt, pipe, seen>>
        /\ Base'
    BY <1>0, LoadIs
  <1>2. stores' = stores /\ pipe' = pipe /\ out' = out /\ place' = place /\ hurt' = hurt /\ (Clean' <=> Clean)
    BY <1>1 DEF workVars, Clean
  <1>3. PlaceOf(r) BY <1>1 DEF PlaceInv
  <1>5. PlaceOf(r)'
    <2>1. Count(r)' = Count(r) /\ Tokens(r)' = Tokens(r) BY <1>2, CountSame DEF Tokens
    <2>2. /\ Tokens(r) = Prompt + out[r] /\ out[r] \in Nat /\ place[r] \in Nat
          /\ MaxNew \in Nat /\ MaxNew > 0 /\ Prompt \in Nat
      BY <1>1, ReqFields DEF Base, Types
    <2>4. computed'[r] <= Tokens(r)' + place'[r] /\ computed'[r] < Prompt + MaxNew
      BY <1>1, <1>2, <2>1, <2>2
    <2> QED BY <1>1, <1>2, <1>3, <2>1, <2>4 DEF PlaceOf, Over, Fresher
  <1>6. \A q \in Reqs : q # r => PlaceOf(q)' BY <1>1, <1>2, PlaceFrame, CountSame DEF PlaceInv
  <1>7. Depth = 1 => place' = Zero BY <1>2 DEF PlaceInv
  <1>8. pipe' # << >> /\ ~cur'.preempted => \A q \in Last(pipe').samples : st'[q] # "preempted"
    <2>1. \A q \in Reqs : st'[q] = "preempted" => st[q] = "preempted" BY <1>1
    <2> QED BY <1>1, <1>2, <2>1, LastSame
  <1> QED BY <1>5, <1>6, <1>7, <1>8 DEF PlaceInv, Zero

(* A request that is admitted has no placeholder: it is new to the steps,   *)
(* or its preemption was in an earlier call of schedule().                  *)
LEMMA NoPlace ==
    ASSUME CacheAssumption, EngineAssumption, Base, PlaceInv, NEW r \in Reqs, Clean,
           st[r] \in {"waiting", "preempted"}, cur.pass = "wait"
    PROVE  place[r] = 0
  <1>1. PlaceOf(r) BY DEF PlaceInv
  <1>2. CASE st[r] = "waiting" BY <1>1, <1>2 DEF PlaceOf, Fresher
  <1>3. CASE st[r] = "preempted"
    <2>1. CASE Depth = 1 BY <2>1, ZeroIs DEF PlaceInv
    <2>2. CASE Depth = 2
      <3>1. place[r] = Count(r) BY <1>1, <1>3, <2>2 DEF PlaceOf, Over
      <3>2. DOMAIN pipe \in {{}, {1}} /\ Len(pipe) \in {0, 1} BY ShortPipe DEF Base, Types
      <3>3. ~Sampled(r, 2) BY <3>2 DEF Sampled
      <3>4. ~Sampled(r, 1)
        <4>1. SUFFICES ASSUME Sampled(r, 1) PROVE FALSE OBVIOUS
        <4>2. 1 \in DOMAIN pipe /\ r \in pipe[1].samples BY <4>1 DEF Sampled
        <4>3. pipe # << >> BY <4>2
        <4>4. Len(pipe) \in DOMAIN pipe /\ Last(pipe) = pipe[Len(pipe)] BY <4>3, LastIs DEF Base, Types
        <4>5. Last(pipe) = pipe[1] BY <3>2, <4>2, <4>4
        <4>6. ~cur.preempted BY DEF Base, CurInv
        <4> QED BY <1>3, <4>2, <4>3, <4>5, <4>6 DEF PlaceInv
      <3> QED BY <3>1, <3>3, <3>4, CountIs
    <2> QED BY <2>1, <2>2 DEF EngineAssumption
  <1> QED BY <1>2, <1>3

(* PlaceInv, when a request is admitted to run.                              *)
LEMMA RunPlace ==
    ASSUME CacheAssumption, EngineAssumption, Base, PlaceInv, NEW base \in Nat, AdmittedAs(base, FALSE)
    PROVE PlaceInv'
  <1>0. PICK r \in Reqs : r = Head1 BY RunIs
  <1>1. /\ r \in Reqs /\ st[r] \in {"waiting", "preempted"} /\ cur.pass = "wait" /\ base < Prompt
        /\ computed'[r] = base /\ st'[r] = "running"
        /\ \A q \in Reqs : q # r => st'[q] = st[q] /\ computed'[q] = computed[q]
        /\ cur'.preempted = cur.preempted
        /\ UNCHANGED <<workVars, out, place, hurt, pipe, seen>>
        /\ Base'
    BY <1>0, RunIs
  <1>2. stores' = stores /\ pipe' = pipe /\ out' = out /\ place' = place /\ hurt' = hurt /\ (Clean' <=> Clean)
    BY <1>1 DEF workVars, Clean
  <1>3. PlaceOf(r) /\ (Clean => place[r] = 0) BY <1>1, NoPlace DEF PlaceInv
  <1>5. PlaceOf(r)'
    <2>1. Count(r)' = Count(r) /\ Tokens(r)' = Tokens(r) BY <1>2, CountSame DEF Tokens
    <2>2. /\ Tokens(r) = Prompt + out[r] /\ out[r] \in Nat /\ place[r] \in Nat
          /\ MaxNew \in Nat /\ MaxNew > 0 /\ Prompt \in Nat
      BY <1>1, ReqFields DEF Base, Types
    <2>4. computed'[r] <= Tokens(r)' + place'[r] /\ computed'[r] < Prompt + MaxNew
      BY <1>1, <1>2, <2>1, <2>2
    <2>5. ~(Clean' /\ place'[r] >= 1) BY <1>2, <1>3
    <2> QED BY <1>1, <1>2, <1>3, <2>1, <2>4, <2>5 DEF PlaceOf, Over, Fresher
  <1>6. \A q \in Reqs : q # r => PlaceOf(q)' BY <1>1, <1>2, PlaceFrame, CountSame DEF PlaceInv
  <1>7. Depth = 1 => place' = Zero BY <1>2 DEF PlaceInv
  <1>8. pipe' # << >> /\ ~cur'.preempted => \A q \in Last(pipe').samples : st'[q] # "preempted"
    <2>1. \A q \in Reqs : st'[q] = "preempted" => st[q] = "preempted" BY <1>1
    <2> QED BY <1>1, <1>2, <2>1, LastSame
  <1> QED BY <1>5, <1>6, <1>7, <1>8 DEF PlaceInv, Zero

(* PlaceInv, when a request arrives.                                         *)
LEMMA AddPlace ==
    ASSUME Base, PlaceInv, NEW r \in Reqs, Add(r) PROVE PlaceInv'
  <1>1. /\ st[r] = "new" /\ st'[r] = "waiting" /\ \A q \in Reqs : q # r => st'[q] = st[q]
        /\ UNCHANGED <<cacheVars, computed, out, place, hurt, pipe, cur, seen>>
        /\ Base'
    BY AddBase
  <1>2. stores' = stores /\ pipe' = pipe /\ out' = out /\ place' = place /\ hurt' = hurt /\ (Clean' <=> Clean)
        /\ computed' = computed /\ cur' = cur
    BY <1>1 DEF cacheVars, workVars, Clean
  <1>3. PlaceOf(r) BY <1>1 DEF PlaceInv
  <1>5. PlaceOf(r)'
    <2>1. Count(r)' = Count(r) /\ Tokens(r)' = Tokens(r) BY <1>2, CountSame DEF Tokens
    <2> QED BY <1>1, <1>2, <1>3, <2>1 DEF PlaceOf, Over, Fresher
  <1>6. \A q \in Reqs : q # r => PlaceOf(q)' BY <1>1, <1>2, PlaceFrame, CountSame DEF PlaceInv
  <1>7. Depth = 1 => place' = Zero BY <1>2 DEF PlaceInv
  <1>8. pipe' # << >> /\ ~cur'.preempted => \A q \in Last(pipe').samples : st'[q] # "preempted"
    <2>1. \A q \in Reqs : st'[q] = "preempted" => st[q] = "preempted" BY <1>1
    <2> QED BY <1>1, <1>2, <2>1, LastSame
  <1> QED BY <1>5, <1>6, <1>7, <1>8 DEF PlaceInv, Zero

(* PlaceInv, when a request is aborted.                                      *)
LEMMA AbortPlace ==
    ASSUME Base, PlaceInv, NEW r \in Reqs, Abort(r) PROVE PlaceInv'
  <1>1. /\ st[r] \in {"waiting", "preempted", "remote", "running"}
        /\ st'[r] = "finished" /\ \A q \in Reqs : q # r => st'[q] = st[q]
        /\ seen' = IF Loading(r) THEN seen \cup {"stray"} ELSE seen
        /\ UNCHANGED <<workVars, computed, out, place, hurt, pipe, cur>>
        /\ Base'
    BY AbortBase
  <1>2. stores' = stores /\ pipe' = pipe /\ out' = out /\ place' = place /\ hurt' = hurt /\ (Clean' => Clean)
        /\ computed' = computed /\ cur' = cur
    BY <1>1 DEF workVars, Clean
  <1>3. PlaceOf(r) BY <1>1 DEF PlaceInv
  <1>5. PlaceOf(r)'
    <2>1. Count(r)' = Count(r) /\ Tokens(r)' = Tokens(r) BY <1>2, CountSame DEF Tokens
    <2> QED BY <1>1, <1>2, <1>3, <2>1 DEF PlaceOf, Over, Fresher
  <1>6. \A q \in Reqs : q # r => PlaceOf(q)' BY <1>1, <1>2, PlaceFrame, CountSame DEF PlaceInv
  <1>7. Depth = 1 => place' = Zero BY <1>2 DEF PlaceInv
  <1>8. pipe' # << >> /\ ~cur'.preempted => \A q \in Last(pipe').samples : st'[q] # "preempted"
    <2>1. \A q \in Reqs : st'[q] = "preempted" => st[q] = "preempted" BY <1>1
    <2> QED BY <1>1, <1>2, <2>1, LastSame
  <1> QED BY <1>5, <1>6, <1>7, <1>8 DEF PlaceInv, Zero

(* PlaceInv, when a call of schedule() ends.                                 *)
LEMMA FinishSchedulePlace ==
    ASSUME CacheAssumption, EngineAssumption, Base, PlaceInv, FinishSchedule PROVE PlaceInv'
  <1>1. /\ Len(pipe) < Depth /\ DOMAIN pipe' = 1..Len(pipe) + 1 /\ DOMAIN pipe = 1..Len(pipe)
        /\ Len(pipe') = Len(pipe) + 1
        /\ \A k \in DOMAIN pipe : pipe'[k] = pipe[k]
        /\ pipe'[Len(pipe) + 1] = NewStep
        /\ computed' = [r \in Reqs |-> computed[r] + cur.n[r]]
        /\ place' = [r \in Reqs |-> IF Depth > 1 /\ r \in Scheduling \ Chunked
                                    THEN place[r] + 1 ELSE place[r]]
        /\ seen' = IF \E o \in Retrieves : st[o.req] # "remote" THEN seen \cup {"stray"} ELSE seen
        /\ UNCHANGED <<workVars, st, out, hurt>>
    BY FinishScheduleIs
  <1>2. NewStep.samples = Scheduling \ Chunked BY NewStepIs DEF Base
  <1>3. stores' = stores /\ out' = out /\ hurt' = hurt /\ st' = st /\ (Clean' => Clean)
    BY <1>1 DEF workVars, Clean
  <1>4. Len(pipe) \in {0, 1} /\ (DOMAIN pipe # {} => Depth = 2) BY <1>1, PipeLen DEF Base, Types, EngineAssumption
  <1>5. ASSUME NEW r \in Reqs, Depth = 2
        PROVE  Count(r)' = Count(r) + (IF r \in Scheduling \ Chunked THEN 1 ELSE 0)
    <2>1. CASE Len(pipe) = 0
      <3>1. DOMAIN pipe = {} /\ DOMAIN pipe' = {1} /\ pipe'[1] = NewStep BY <1>1, <2>1
      <3>2. ~Sampled(r, 1) /\ ~Sampled(r, 2) BY <3>1 DEF Sampled
      <3>3. (Sampled(r, 1)' <=> r \in Scheduling \ Chunked) /\ ~Sampled(r, 2)' BY <1>2, <3>1 DEF Sampled
      <3> QED BY <3>2, <3>3 DEF Count
    <2>2. CASE Len(pipe) = 1
      <3>0. 1..1 = {1} /\ 1..2 = {1, 2} /\ 1 + 1 = 2 OBVIOUS
      <3>1. DOMAIN pipe = {1} /\ DOMAIN pipe' = {1, 2} /\ pipe'[2] = NewStep /\ pipe'[1] = pipe[1]
        BY <1>1, <2>2, <3>0
      <3>2. ~Sampled(r, 2) BY <3>1 DEF Sampled
      <3>3. (Sampled(r, 2)' <=> r \in Scheduling \ Chunked) /\ (Sampled(r, 1)' <=> Sampled(r, 1))
        BY <1>2, <3>1 DEF Sampled
      <3> QED BY <3>2, <3>3 DEF Count
    <2> QED BY <1>4, <2>1, <2>2
  <1>6. ASSUME NEW r \in Reqs PROVE PlaceOf(r)'
    <2>1. /\ PlaceOf(r) /\ Tokens(r)' = Tokens(r) /\ Count(r) \in Nat
      BY <1>3, CountIs DEF PlaceInv, Tokens
    <2>2. /\ Tokens(r) \in Nat /\ place[r] \in Nat /\ computed[r] \in Nat /\ cur.n[r] \in Nat
          /\ Prompt \in Nat /\ MaxNew \in Nat /\ MaxNew > 0 /\ st[r] \in Sts
      BY ReqFields, CurFields DEF Base, Types, CurTypes
    <2>3. computed'[r] = computed[r] + cur.n[r] BY <1>1
    <2>4. place'[r] = IF Depth > 1 /\ r \in Scheduling \ Chunked THEN place[r] + 1 ELSE place[r] BY <1>1
    <2>5. CASE cur.n[r] = 0
      <3>1. r \notin Scheduling BY <2>5 DEF Scheduling
      <3>2. computed'[r] = computed[r] /\ place'[r] = place[r] BY <2>2, <2>3, <2>4, <2>5, <3>1
      <3>3. Depth = 2 => Count(r)' = Count(r) BY <1>5, <2>1, <3>1
      <3> QED BY <1>3, <2>1, <3>2, <3>3 DEF PlaceOf
    <2>6. CASE cur.n[r] > 0
      <3>1. /\ st[r] = "running" /\ computed[r] + cur.n[r] <= Tokens(r) + place[r]
            /\ Clean => computed[r] + cur.n[r] < Prompt + MaxNew
        BY <2>6, CurOf DEF Base
      <3>2. r \in Scheduling BY <2>6 DEF Scheduling
      <3>3. CASE r \in Chunked
        <4>1. place'[r] = place[r] BY <2>4, <3>3
        <4>2. Depth = 2 => Count(r)' = Count(r) BY <1>5, <2>1, <3>3
        <4>3. computed'[r] <= Tokens(r)' + place'[r] BY <2>1, <2>3, <3>1, <4>1
        <4>4. Clean' => computed'[r] < Prompt + MaxNew BY <1>3, <2>3, <3>1
        <4>5. Clean' /\ place'[r] >= 1 /\ st'[r] = "running" => computed'[r] >= Tokens(r)' + place'[r] - 1
          <5>1. Clean /\ place[r] >= 1 => computed[r] >= Tokens(r) + place[r] - 1
            BY <2>1, <3>1 DEF PlaceOf
          <5>2. Clean /\ place[r] >= 1 => computed[r] + cur.n[r] >= Tokens(r) + place[r] - 1
            BY <5>1, <2>2
          <5> QED BY <1>3, <2>1, <2>3, <4>1, <5>2
        <4> QED BY <1>3, <2>1, <3>1, <4>1, <4>2, <4>3, <4>4, <4>5 DEF PlaceOf, Over, Fresher
      <3>4. CASE r \notin Chunked
        <4>1. computed[r] + cur.n[r] = Tokens(r) + place[r]
          BY <2>2, <2>6, <3>1, <3>4 DEF Chunked
        <4>2. Clean' => computed'[r] < Prompt + MaxNew BY <1>3, <2>3, <3>1
        <4>3. CASE Depth = 1
          <5>1. place'[r] = place[r] /\ place[r] = 0 BY <2>4, <4>3, ZeroIs DEF PlaceInv
          <5>2. computed'[r] <= Tokens(r)' + place'[r] BY <2>1, <2>2, <2>3, <4>1, <5>1
          <5>3. ~(place'[r] >= 1) BY <5>1
          <5> QED BY <1>3, <2>1, <3>1, <4>2, <4>3, <5>2, <5>3 DEF PlaceOf, Over, Fresher
        <4>4. CASE Depth = 2
          <5>1. place'[r] = place[r] + 1 /\ Count(r)' = Count(r) + 1
            BY <1>5, <2>4, <3>2, <3>4, <4>4
          <5>2. computed'[r] >= Tokens(r)' + place'[r] - 1 /\ computed'[r] <= Tokens(r)' + place'[r]
            BY <2>1, <2>2, <2>3, <4>1, <5>1
          <5>3. Count(r)' <= 2 BY DEF Count
          <5>4. place'[r] >= Count(r)' BY <2>1, <2>2, <4>4, <5>1 DEF PlaceOf
          <5>5. Clean' => place'[r] = Count(r)' BY <1>3, <2>1, <3>1, <4>4, <5>1 DEF PlaceOf, Over
          <5>6. Clean' => place'[r] <= 2 BY <5>3, <5>5
          <5>7. out'[r] <= MaxNew /\ out'[r] < MaxNew BY <1>3, <2>1, <3>1 DEF PlaceOf, Over
          <5> QED BY <1>3, <3>1, <4>2, <4>4, <5>2, <5>4, <5>5, <5>6, <5>7 DEF PlaceOf, Fresher
        <4> QED BY <4>3, <4>4 DEF EngineAssumption
      <3> QED BY <3>3, <3>4
    <2> QED BY <2>2, <2>5, <2>6
  <1>7. Depth = 1 => place' = Zero
    <2>1. Depth = 1 => \A r \in Reqs : place'[r] = 0 BY <1>1, ZeroIs DEF PlaceInv
    <2> QED BY <1>1, <2>1 DEF Zero
  <1>8. pipe' # << >> /\ ~cur'.preempted => \A r \in Last(pipe').samples : st'[r] # "preempted"
    <2>1. Last(pipe') = NewStep BY <1>1 DEF Last
    <2>2. \A r \in Scheduling : st[r] = "running" BY ScheduledReq DEF Base
    <2> QED BY <1>2, <1>3, <2>1, <2>2
  <1> QED BY <1>6, <1>7, <1>8 DEF PlaceInv, Zero

(* Unless something strayed, only requests that still wait for their load   *)
(* have blocks that did not load.                                           *)
LEMMA LostAreRemote ==
    ASSUME Base, LoadInv, BadInv, Clean, 1 \in DOMAIN pipe, NEW r \in Recovered(pipe[1])
    PROVE  r \in pipe[1].recv /\ st[r] = "remote" /\ pipe[1].n[r] = 0 /\ computed[r] = Len(table[r])
           /\ r \notin recvDone /\ Range(table[r]) \subseteq pipe[1].bad /\ RecvOf(r)
  <1> DEFINE s == pipe[1]
  <1>1. s \in StepT BY PipeIs DEF Base, Types
  <1>2. r \in Reqs /\ st[r] \in {"running", "remote"} /\ \E m \in DOMAIN table[r] : table[r][m] \in s.bad
    BY <1>1, RecoveredIs DEF Base
  <1>3. s.bad \subseteq Held(s.recv) BY DEF BadInv
  <1>4. PICK m \in DOMAIN table[r] : table[r][m] \in s.bad BY <1>2
  <1>5. PICK q \in s.recv : table[r][m] \in Range(table[q]) BY <1>3, <1>4 DEF Held
  <1>6. q \in Reqs BY <1>1, <1>5, StepFields
  <1>7. q = r BY <1>2, <1>4, <1>5, <1>6 DEF Base, BlockInv, Partition, Range
  <1>8. RecvOf(r) BY <1>2 DEF LoadInv, LoadOf
  <1>9. /\ st[r] \in {"remote", "finished"} /\ Unrun(r) /\ computed[r] = Len(table[r])
        /\ r \notin recvDone
        /\ Range(table[r]) \cap s.bad = {} \/ Range(table[r]) \subseteq s.bad
    BY <1>5, <1>7, <1>8 DEF RecvOf
  <1>10. table[r][m] \in Range(table[r]) BY <1>4 DEF Range
  <1> QED BY <1>2, <1>4, <1>5, <1>7, <1>8, <1>9, <1>10 DEF Unrun

(* What processing a step does to the counters of one request.              *)
LEMMA UpdatedReq ==
    ASSUME CacheAssumption, EngineAssumption, Base, PlaceInv, NEW over, NEW s, UpdatedAs(s, over),
           NEW r \in Reqs
    PROVE  /\ s = pipe[1] /\ s \in StepT /\ 1 \in DOMAIN pipe
           /\ st'[r] = IF r \in LeftBy(s, over) THEN "gone" ELSE IF r \in over THEN "finished" ELSE st[r]
           /\ out'[r] = IF r \in GotBy(s) THEN out[r] + 1 ELSE out[r]
           /\ place'[r] = IF r \in GotBy(s) /\ Depth > 1 THEN place[r] - 1 ELSE place[r]
           /\ r \notin Recovered(s) => computed'[r] = computed[r]
           /\ r \in Recovered(s) => /\ computed'[r] = Min(Invalid(r, s)) - 1
                                    /\ computed'[r] \in Nat /\ computed'[r] < computed[r]
           /\ r \in LeftBy(s, over) => st[r] = "finished" \/ r \in over
           /\ r \in GotBy(s) => r \in s.samples /\ st[r] \notin Over /\ s.n[r] > 0 /\ st[r] \notin Fresher
           /\ r \in over => r \in GotBy(s)
           /\ r \in GotBy(s) /\ out[r] + 1 = MaxNew => r \in over
  <1>1. /\ s = pipe[1] /\ s \in StepT /\ 1 \in DOMAIN pipe
        /\ st'[r] = IF r \in LeftBy(s, over) THEN "gone" ELSE IF r \in over THEN "finished" ELSE st[r]
    BY UpdatedTypes
  <1>2. /\ over \subseteq GotBy(s) /\ \A q \in GotBy(s) : out[q] + 1 = MaxNew => q \in over
        /\ out'[r] = IF r \in GotBy(s) THEN out[r] + 1 ELSE out[r]
        /\ place'[r] = IF r \in GotBy(s) /\ Depth > 1 THEN place[r] - 1 ELSE place[r]
        /\ computed'[r] = IF r \in Recovered(s) THEN Min(Invalid(r, s)) - 1 ELSE computed[r]
    BY DEF UpdatedAs
  <1>3. r \in Recovered(s) =>
            Min(Invalid(r, s)) - 1 \in Nat /\ Min(Invalid(r, s)) <= computed[r] /\ Min(Invalid(r, s)) \in Nat
    BY <1>1, RecoveredIs DEF Base
  <1>4. computed[r] \in Nat BY DEF Base, Types, ReqTypes
  <1>5. r \in Recovered(s) => computed'[r] \in Nat /\ computed'[r] < computed[r] BY <1>2, <1>3, <1>4
  <1>6. /\ GotBy(s) \subseteq s.samples
        /\ \A q \in LeftBy(s, over) : st[q] = "finished" \/ q \in over
    BY <1>1, <1>2, LeftAre DEF Base
  <1>7. r \in GotBy(s) => st[r] \notin Over BY DEF GotBy
  <1>8. r \in s.samples => s.n[r] > 0 BY <1>1 DEF Base, StepInv
  <1>9. s.n[r] > 0 => st[r] \notin Fresher BY <1>1 DEF Base, StepInv
  <1> QED BY <1>1, <1>2, <1>5, <1>6, <1>7, <1>8, <1>9

(* PlaceInv, when the output of a step is processed.                         *)
LEMMA UpdatedPlace ==
    ASSUME CacheAssumption, EngineAssumption, Base, PlaceInv, LoadInv, BadInv,
           NEW over, NEW s, UpdatedAs(s, over)
    PROVE PlaceInv'
  <1>1. pipe # << >> /\ pipe' = Tail(pipe) /\ cur = Idle /\ cur' = cur /\ hurt' = hurt /\ stores' = stores
        /\ (Clean' <=> Clean)
    BY DEF UpdatedAs, workVars, Clean
  <1>2. /\ 1 \in DOMAIN pipe
        /\ DOMAIN pipe' \in {{}, {1}}
        /\ 1 \in DOMAIN pipe' => pipe'[1] = pipe[2] /\ DOMAIN pipe = {1, 2} /\ Len(pipe) = 2
        /\ 1 \notin DOMAIN pipe' => DOMAIN pipe = {1}
    BY <1>1, PipeTail DEF Base, Types
  <1>3. s = pipe[1] /\ s \in StepT BY UpdatedTypes
  <1>4. ASSUME NEW r \in Reqs
        PROVE  Count(r)' = Count(r) - (IF r \in s.samples THEN 1 ELSE 0) /\ Count(r)' \in Nat
    <2>1. Sampled(r, 1) <=> r \in s.samples BY <1>2, <1>3 DEF Sampled
    <2>2. ~Sampled(r, 2)' BY <1>2 DEF Sampled
    <2>3. Sampled(r, 1)' <=> Sampled(r, 2) BY <1>2 DEF Sampled
    <2> QED BY <2>1, <2>2, <2>3 DEF Count
  <1>5. ASSUME NEW r \in Reqs PROVE PlaceOf(r)'
    <2>0. /\ st'[r] = IF r \in LeftBy(s, over) THEN "gone" ELSE IF r \in over THEN "finished" ELSE st[r]
          /\ out'[r] = IF r \in GotBy(s) THEN out[r] + 1 ELSE out[r]
          /\ place'[r] = IF r \in GotBy(s) /\ Depth > 1 THEN place[r] - 1 ELSE place[r]
          /\ r \notin Recovered(s) => computed'[r] = computed[r]
          /\ r \in Recovered(s) => computed'[r] \in Nat /\ computed'[r] < computed[r]
          /\ r \in LeftBy(s, over) => st[r] = "finished" \/ r \in over
          /\ r \in GotBy(s) => r \in s.samples /\ st[r] \notin Over /\ s.n[r] > 0 /\ st[r] \notin Fresher
          /\ r \in over => r \in GotBy(s)
          /\ r \in GotBy(s) /\ out[r] + 1 = MaxNew => r \in over
      BY UpdatedReq
    <2>1. PlaceOf(r) BY DEF PlaceInv
    <2>2. /\ Tokens(r) = Prompt + out[r] /\ out[r] \in Nat /\ place[r] \in Nat /\ computed[r] \in Nat
          /\ MaxNew \in Nat /\ MaxNew > 0 /\ Prompt \in Nat /\ Depth \in {1, 2}
      BY ReqFields DEF Base, Types, EngineAssumption
    <2>3. Tokens(r)' = Prompt + out'[r] BY DEF Tokens
    <2>4. st'[r] \notin Over => st'[r] = st[r] /\ r \notin over BY <2>0 DEF Over
    <2>5. /\ Clean /\ r \in Recovered(s) => st[r] = "remote" /\ r \notin s.samples
      <3>1. Clean /\ r \in Recovered(s) => st[r] = "remote" /\ s.n[r] = 0 BY <1>2, <1>3, LostAreRemote
      <3>2. r \in s.samples => s.n[r] > 0 BY <1>2, <1>3 DEF Base, StepInv
      <3> QED BY <3>1, <3>2
    <2>6. Clean /\ st'[r] \notin Over /\ r \in s.samples => r \in GotBy(s)
      BY <2>4, <2>5 DEF GotBy
    <2>7. CASE r \in GotBy(s)
      <3>1. /\ out'[r] = out[r] + 1 /\ r \in s.samples /\ st[r] \notin Over /\ st[r] \notin Fresher
            /\ Tokens(r)' = Tokens(r) + 1
        BY <2>0, <2>2, <2>3, <2>7
      <3>2. out[r] < MaxNew BY <2>1, <3>1 DEF PlaceOf
      <3>3. out'[r] <= MaxNew /\ (st'[r] \notin Over => out'[r] < MaxNew)
        <4>1. out[r] + 1 <= MaxNew BY <2>2, <3>2
        <4>2. st'[r] \notin Over => out[r] + 1 # MaxNew BY <2>0, <2>4, <2>7
        <4> QED BY <2>2, <3>1, <4>1, <4>2
      <3>4. st'[r] \notin Fresher BY <2>0, <3>1 DEF Fresher
      <3>5. Clean => computed'[r] = computed[r] BY <2>0, <2>5, <3>1
      <3>6. Clean => computed'[r] < Prompt + MaxNew BY <2>1, <3>5 DEF PlaceOf
      <3>7. computed'[r] <= computed[r] BY <2>0, <2>2
      <3>8. CASE Depth = 1
        <4>1. place'[r] = 0 /\ place[r] = 0 BY <2>0, <3>8, ZeroIs DEF PlaceInv
        <4>2. computed'[r] <= Tokens(r)' + place'[r]
          <5>1. computed[r] <= Tokens(r) + place[r] BY <2>1 DEF PlaceOf
          <5>2. computed'[r] \in Nat BY <2>0, <2>2
          <5> QED BY <2>2, <3>1, <3>7, <4>1, <5>1, <5>2
        <4>3. ~(place'[r] >= 1) BY <4>1
        <4> QED BY <1>1, <3>3, <3>4, <3>6, <3>8, <4>2, <4>3 DEF PlaceOf
      <3>9. CASE Depth = 2
        <4>1. place'[r] = place[r] - 1 /\ Count(r)' = Count(r) - 1 /\ Count(r)' \in Nat
          BY <1>4, <2>0, <2>7, <3>1, <3>9
        <4>2. place[r] >= Count(r) /\ (Clean => place[r] = Count(r) /\ place[r] <= 2)
          BY <2>1, <3>1, <3>9 DEF PlaceOf
        <4>3. Count(r) \in Nat BY CountIs
        <4>4. place'[r] >= Count(r)' /\ (Clean => place'[r] = Count(r)' /\ place'[r] <= 2)
          BY <2>2, <4>1, <4>2, <4>3
        <4>5. Tokens(r)' + place'[r] = Tokens(r) + place[r] BY <2>2, <3>1, <4>1
        <4>6. computed[r] <= Tokens(r) + place[r] BY <2>1 DEF PlaceOf
        <4>7. computed'[r] \in Nat /\ Tokens(r) + place[r] \in Nat BY <2>0, <2>2
        <4>8. computed'[r] <= Tokens(r)' + place'[r] BY <2>2, <3>7, <4>5, <4>6, <4>7
        <4>9. Clean /\ place'[r] >= 1 /\ st'[r] = "running" => computed'[r] >= Tokens(r)' + place'[r] - 1
          <5>1. place'[r] >= 1 => place[r] >= 1 BY <2>2, <4>1
          <5>2. st'[r] = "running" => st[r] = "running" BY <2>4 DEF Over
          <5> SUFFICES ASSUME Clean, place'[r] >= 1, st'[r] = "running"
                       PROVE  computed'[r] >= Tokens(r)' + place'[r] - 1
            OBVIOUS
          <5>3. computed[r] >= Tokens(r) + place[r] - 1 BY <2>1, <5>1, <5>2 DEF PlaceOf
          <5>4. Tokens(r)' + place'[r] - 1 = Tokens(r) + place[r] - 1 BY <2>2, <3>1, <4>1
          <5>5. computed'[r] = computed[r] BY <3>5
          <5> QED BY <5>3, <5>4, <5>5
        <4> QED BY <1>1, <3>3, <3>4, <3>6, <3>9, <4>4, <4>8, <4>9 DEF PlaceOf
      <3> QED BY <2>2, <3>8, <3>9
    <2>8. CASE r \notin GotBy(s)
      <3>1. out'[r] = out[r] /\ place'[r] = place[r] /\ Tokens(r)' = Tokens(r) BY <2>0, <2>2, <2>3, <2>8
      <3>2. Count(r) \in Nat /\ Count(r)' \in Nat /\ Count(r)' <= Count(r)
        BY <1>4, CountIs
      <3>3. Clean /\ st'[r] \notin Over => Count(r)' = Count(r)
        <4>1. Clean /\ st'[r] \notin Over => r \notin s.samples BY <2>6, <2>8
        <4> QED BY <1>4, <3>2, <4>1
      <3>4. Depth = 2 => place'[r] >= Count(r)'
        <4>1. Depth = 2 => place[r] >= Count(r) BY <2>1 DEF PlaceOf
        <4> QED BY <2>2, <3>1, <3>2, <4>1
      <3>5. Clean /\ Depth = 2 => place'[r] <= 2 /\ (st'[r] \notin Over => place'[r] = Count(r)')
        BY <2>1, <2>4, <3>1, <3>3 DEF PlaceOf
      <3>6. computed'[r] <= computed[r] /\ computed'[r] \in Nat BY <2>0, <2>2
      <3>7. computed'[r] <= Tokens(r)' + place'[r]
        <4>1. computed[r] <= Tokens(r) + place[r] BY <2>1 DEF PlaceOf
        <4> QED BY <2>2, <3>1, <3>6, <4>1
      <3>8. Clean => computed'[r] < Prompt + MaxNew
        <4>1. Clean => computed[r] < Prompt + MaxNew BY <2>1 DEF PlaceOf
        <4> QED BY <2>2, <3>6, <4>1
      <3>9. Clean /\ place'[r] >= 1 /\ st'[r] = "running" => computed'[r] >= Tokens(r)' + place'[r] - 1
        <4>1. st'[r] = "running" => st[r] = "running" BY <2>4 DEF Over
        <4>2. Clean /\ st[r] = "running" => computed'[r] = computed[r] BY <2>0, <2>5
        <4> QED BY <2>1, <3>1, <4>1, <4>2 DEF PlaceOf
      <3>10. out'[r] <= MaxNew /\ (st'[r] \notin Over => out'[r] < MaxNew)
        BY <2>1, <2>4, <3>1 DEF PlaceOf
      <3>11. st'[r] \in Fresher => out'[r] = 0 /\ place'[r] = 0 /\ r \notin hurt' /\ r \notin stores'
        <4>1. st'[r] \in Fresher => st'[r] \notin Over BY DEF Fresher, Over
        <4> QED BY <1>1, <2>1, <2>4, <3>1, <4>1 DEF PlaceOf
      <3> QED BY <1>1, <3>4, <3>5, <3>7, <3>8, <3>9, <3>10, <3>11 DEF PlaceOf
    <2> QED BY <2>7, <2>8
  <1>6. Depth = 1 => place' = Zero
    <2>1. Depth = 1 => \A r \in Reqs : place'[r] = 0 BY UpdatedReq, ZeroIs DEF PlaceInv
    <2>2. place' = [r \in Reqs |-> IF r \in GotBy(s) /\ Depth > 1 THEN place[r] - 1 ELSE place[r]]
      BY DEF UpdatedAs
    <2> QED BY <2>1, <2>2 DEF Zero
  <1>7. pipe' # << >> /\ ~cur'.preempted => \A r \in Last(pipe').samples : st'[r] # "preempted"
    <2> SUFFICES ASSUME pipe' # << >>, NEW r \in Last(pipe').samples PROVE st'[r] # "preempted"
      OBVIOUS
    <2>1. Base' BY UpdatedBase
    <2>2. Last(pipe') = pipe'[Len(pipe')] /\ Len(pipe') \in DOMAIN pipe'
      <3>1. pipe' \in Seq(StepT) BY <2>1 DEF Base, Types, PipeTypes
      <3> QED BY <3>1, EmptySeq, LenProperties DEF Last
    <2>3. Last(pipe') = pipe[2] /\ DOMAIN pipe = {1, 2} /\ Len(pipe) = 2 BY <1>2, <2>2
    <2>4. Last(pipe) = pipe[2] BY <2>3 DEF Last
    <2>5. r \in pipe[2].samples /\ pipe[2] \in StepT BY <2>3, PipeIs DEF Base, Types
    <2>6. r \in Reqs BY <2>5, StepFields
    <2>7. st[r] # "preempted" BY <1>1, <2>4, <2>5, IdleIs DEF PlaceInv
    <2> QED BY <2>6, <2>7, UpdatedReq
  <1> QED BY <1>5, <1>6, <1>7 DEF PlaceInv, Zero

-----------------------------------------------------------------------------
(* TableInv: blocks and counts.                                              *)

(* What is said of the table of r stays true while r keeps its status and   *)
(* its counts and gains no mark of a load that is over.                     *)
LEMMA TableFrame ==
    ASSUME NEW r \in Reqs, TableOf(r),
           st'[r] = st[r], computed'[r] = computed[r], table'[r] = table[r],
           st[r] = "waiting" /\ trk'[r].s \in {"none", "prefetching"} => trk[r].s \in {"none", "prefetching"},
           r \in recvDone' => r \in recvDone, r \in recvFailed' => r \in recvFailed
    PROVE  TableOf(r)'
BY DEF TableOf

(* What a light step leaves of a tracker.                                    *)
LEMMA NotesKeep ==
    ASSUME TrkTypes, TrkNotes, NEW q \in Reqs
    PROVE  /\ st[q] \notin {"waiting", "preempted"} => trk'[q] = trk[q]
           /\ \/ trk'[q].s = trk[q].s /\ trk'[q].blocks = trk[q].blocks /\ trk'[q].sched = trk[q].sched
              \/ /\ st[q] \in {"waiting", "preempted"} /\ (trk[q].s = "none" \/ st[q] = "preempted")
                 /\ trk'[q].s = "prefetching" /\ trk'[q].blocks = << >> /\ trk'[q].sched = 0
  <1>1. CASE trk' = trk BY <1>1
  <1>2. CASE \E r \in Reqs, t \in TrackerT :
        /\ st[r] \in {"waiting", "preempted"} /\ trk' = [trk EXCEPT ![r] = t]
        /\ \/ t.s = trk[r].s /\ t.blocks = trk[r].blocks /\ t.sched = trk[r].sched
           \/ /\ trk[r].s = "none" \/ st[r] = "preempted"
              /\ t.s = "prefetching" /\ t.blocks = << >> /\ t.sched = 0
    <2>1. PICK r \in Reqs, t \in TrackerT :
            /\ st[r] \in {"waiting", "preempted"} /\ trk' = [trk EXCEPT ![r] = t]
            /\ \/ t.s = trk[r].s /\ t.blocks = trk[r].blocks /\ t.sched = trk[r].sched
               \/ /\ trk[r].s = "none" \/ st[r] = "preempted"
                  /\ t.s = "prefetching" /\ t.blocks = << >> /\ t.sched = 0
      BY <1>2
    <2>2. trk'[q] = IF q = r THEN t ELSE trk[q] BY <2>1 DEF TrkTypes
    <2> QED BY <2>1, <2>2
  <1> QED BY <1>1, <1>2 DEF TrkNotes

(* TableInv, in a decision of schedule() that only moves the scan, the       *)
(* queues or a note.                                                         *)
LEMMA LightTable ==
    ASSUME Base, TableInv, Light PROVE TableInv'
  <1>1. /\ st' = st /\ computed' = computed /\ table' = table /\ recvDone' = recvDone
        /\ recvFailed' = recvFailed /\ TrkNotes
    BY DEF Light, SameReqs, SameBlocks, SameDone
  <1> SUFFICES ASSUME NEW r \in Reqs PROVE TableOf(r)' BY DEF TableInv
  <1>2. \/ trk'[r].s = trk[r].s
        \/ trk[r].s = "none" \/ st[r] = "preempted"
    BY <1>1, NotesKeep DEF Base, Types
  <1>3. TableOf(r) BY DEF TableInv
  <1> QED BY <1>1, <1>2, <1>3, TableFrame

(* TableInv, in a step that leaves the requests, the blocks and the shape of *)
(* the pipe.                                                                 *)
LEMMA AsideTable ==
    ASSUME TableInv, Aside PROVE TableInv'
  <1>1. /\ st' = st /\ computed' = computed /\ table' = table /\ recvDone' = recvDone
        /\ recvFailed' = recvFailed /\ trk' = trk
    BY DEF Aside, SameReqs, SameBlocks, SameDone
  <1> QED BY <1>1, TableFrame DEF TableInv

(* TableInv, when a running request is scheduled.                            *)
LEMMA TakeRunningTable ==
    ASSUME CacheAssumption, EngineAssumption, Base, PlaceInv, TableInv, TakeRunning PROVE TableInv'
  <1>0. PICK r \in Reqs : r = Here BY TakeRunningIs DEF Base
  <1>1. /\ st[r] = "running"
        /\ \A q \in Reqs : q # r => table'[q] = table[q]
        /\ Len(table'[r]) >= Len(table[r])
        /\ UNCHANGED <<cacheVars, queueVars, reqVars, doneVars, pipe, aborts, seen>>
    <2>1. /\ st[r] = "running" /\ cur'.n[r] \in Nat \ {0}
          /\ \A q \in Reqs : q # r => table'[q] = table[q]
          /\ Len(table'[r]) = Len(table[r]) + Missing(r, computed[r] + cur'.n[r])
          /\ Fits(r, computed[r] + cur'.n[r])
          /\ UNCHANGED <<cacheVars, queueVars, reqVars, doneVars, pipe, aborts, seen>>
      BY <1>0, TakeRunningIs DEF Base
    <2>2. computed[r] \in Nat BY DEF Base, Types, ReqTypes
    <2> DEFINE n == computed[r] + cur'.n[r]
    <2>3. n \in Nat BY <2>1, <2>2
    <2>4. Fits(r, n) /\ Len(table'[r]) = Len(table[r]) + Missing(r, n) BY <2>1
    <2> HIDE DEF n
    <2>5. Missing(r, n) \in Nat /\ Len(table[r]) \in Nat BY <2>3, <2>4, GivenIs DEF Base, Types
    <2>6. Len(table'[r]) >= Len(table[r]) BY <2>4, <2>5
    <2> QED BY <2>1, <2>6
  <1>2. st' = st /\ computed' = computed /\ trk' = trk /\ recvDone' = recvDone /\ recvFailed' = recvFailed
    BY <1>1 DEF reqVars, doneVars, cacheVars, trkVars
  <1>3. computed[r] \in Nat /\ Len(table[r]) \in Nat /\ Len(table'[r]) \in Nat
    <2>1. Base' BY TakeRunningBase
    <2>2. table[r] \in Seq(Blocks) /\ table'[r] \in Seq(Blocks) BY <2>1 DEF Base, Types, BlockTypes
    <2> QED BY <2>2, LenProperties DEF Base, Types, ReqTypes
  <1>4. TableOf(r)'
    <2>1. TableOf(r) BY DEF TableInv
    <2>2. computed'[r] <= Len(table'[r])
      <3>1. computed[r] <= Len(table[r]) BY <1>1, <2>1 DEF TableOf
      <3> QED BY <1>1, <1>2, <1>3, <3>1
    <2> QED BY <1>1, <1>2, <2>1, <2>2 DEF TableOf
  <1> QED BY <1>1, <1>2, <1>4, TableFrame DEF TableInv

(* TableInv, when the last running request is preempted.                     *)
LEMMA PreemptTable ==
    ASSUME CacheAssumption, EngineAssumption, Base, TableInv, Preempt PROVE TableInv'
  <1>0. PICK v \in Reqs : v = Last(running) BY PreemptIs DEF Base
  <1>1. /\ st[v] = "running"
        /\ st'[v] = "preempted" /\ computed'[v] = 0 /\ table'[v] = << >>
        /\ \A q \in Reqs : q # v => st'[q] = st[q] /\ computed'[q] = computed[q] /\ table'[q] = table[q]
        /\ UNCHANGED <<cacheVars, recvDone, recvFailed>>
    BY <1>0, PreemptIs DEF Base
  <1>2. trk' = trk /\ recvDone' = recvDone /\ recvFailed' = recvFailed BY <1>1 DEF cacheVars, trkVars
  <1>3. TableOf(v)'
    <2>1. TableOf(v) BY DEF TableInv
    <2> QED BY <1>1, <1>2, <2>1 DEF TableOf
  <1> QED BY <1>1, <1>2, <1>3, TableFrame DEF TableInv

(* TableInv, when the wait of a request for its load is over.                *)
LEMMA PromoteTable ==
    ASSUME CacheAssumption, EngineAssumption, Base, PlaceInv, TableInv, TrkInv, Promote PROVE TableInv'
  <1>0. PICK r \in Reqs : r = Head1 BY PromoteIs
  <1>1. /\ st[r] = "remote" /\ r \in recvDone
        /\ st'[r] = IF r \in hurt THEN "preempted" ELSE "waiting"
        /\ computed'[r] = IF r \notin recvFailed /\ computed[r] = Tokens(r)
                          THEN computed[r] - 1 ELSE computed[r]
        /\ table'[r] = IF Lost(r) THEN << >> ELSE table[r]
        /\ \A q \in Reqs : q # r => st'[q] = st[q] /\ computed'[q] = computed[q] /\ table'[q] = table[q]
        /\ recvDone' = recvDone \ {r} /\ recvFailed' = recvFailed \ {r}
        /\ UNCHANGED <<cacheVars, hurt>>
    BY <1>0, PromoteIs
  <1>2. trk' = trk BY <1>1 DEF cacheVars, trkVars
  <1>3. PlaceOf(r) /\ TableOf(r) /\ TrkOf(r) BY DEF PlaceInv, TableInv, TrkInv
  <1>4. st'[r] = "waiting" /\ out[r] = 0 BY <1>1, <1>3 DEF PlaceOf, Fresher
  <1>5. /\ computed[r] \in Nat /\ Prompt \in Nat /\ Prompt > 0 /\ Tokens(r) = Prompt + out[r]
    BY ReqFields DEF Base, Types
  <1>6. computed[r] <= Prompt /\ computed[r] <= Len(table[r]) /\ Len(table[r]) \in Nat
    <2>1. table[r] \in Seq(Blocks) BY DEF Base, Types, BlockTypes
    <2> QED BY <1>1, <1>3, <2>1, LenProperties DEF TableOf
  <1>7. computed'[r] <= Len(table'[r])
    <2>1. CASE Lost(r)
      <3>1. computed'[r] = 0 /\ table'[r] = << >> BY <1>1, <2>1 DEF Lost
      <3>2. Len(<< >>) = 0 OBVIOUS
      <3> QED BY <3>1, <3>2
    <2>2. CASE ~Lost(r)
      <3>1. table'[r] = table[r] BY <1>1, <2>2
      <3>2. computed'[r] <= computed[r] /\ computed'[r] \in Int BY <1>1, <1>5
      <3> QED BY <1>5, <1>6, <3>1, <3>2
    <2> QED BY <2>1, <2>2
  <1>8. computed'[r] < Prompt
    <2>1. CASE r \in recvFailed
      <3>1. computed[r] < Prompt BY <1>3, <2>1 DEF TableOf
      <3> QED BY <1>1, <2>1, <3>1
    <2>2. CASE r \notin recvFailed
      <3>1. Tokens(r) = Prompt BY <1>4, <1>5
      <3> QED BY <1>1, <1>5, <1>6, <2>2, <3>1
    <2> QED BY <2>1, <2>2
  <1>9. TableOf(r)'
    <2>1. trk'[r].s \in {"waiting", "ready"} BY <1>1, <1>2, <1>3 DEF TrkOf
    <2> QED BY <1>1, <1>4, <1>7, <1>8, <2>1 DEF TableOf
  <1> QED BY <1>1, <1>2, <1>9, TableFrame DEF TableInv

(* TableInv, when a request is admitted to load its hit.                     *)
LEMMA LoadTable ==
    ASSUME CacheAssumption, EngineAssumption, Base, TableInv, NEW base \in Nat, AdmittedAs(base, TRUE)
    PROVE TableInv'
  <1>0. PICK r \in Reqs : r = Head1 BY LoadIs
  <1>1. /\ base <= Prompt
        /\ computed'[r] = base /\ st'[r] = "remote" /\ st[r] = "waiting"
        /\ \A q \in Reqs : q # r => /\ st'[q] = st[q] /\ computed'[q] = computed[q]
                                    /\ table'[q] = table[q] /\ trk'[q] = trk[q]
        /\ Len(table'[r]) >= base
        /\ UNCHANGED <<recvDone, recvFailed>>
    BY <1>0, LoadIs
  <1>2. TableOf(r)'
    <2>1. TableOf(r) BY DEF TableInv
    <2>2. table'[r] \in Seq(Blocks) BY LoadIs DEF Base, Types, BlockTypes
    <2>3. computed'[r] <= Len(table'[r]) BY <1>1, <2>2, LenProperties
    <2>4. r \notin recvDone' \cup recvFailed' BY <1>1, <2>1 DEF TableOf
    <2> QED BY <1>1, <2>3, <2>4 DEF TableOf
  <1> QED BY <1>1, <1>2, TableFrame DEF TableInv

(* TableInv, when a request is admitted to run.                              *)
LEMMA RunTable ==
    ASSUME CacheAssumption, EngineAssumption, Base, PlaceInv, TableInv, NEW base \in Nat,
           AdmittedAs(base, FALSE)
    PROVE TableInv'
  <1>0. PICK r \in Reqs : r = Head1 BY RunIs
  <1>1. /\ base < Prompt
        /\ computed'[r] = base /\ st'[r] = "running" /\ st[r] \in {"waiting", "preempted"}
        /\ \A q \in Reqs : q # r => /\ st'[q] = st[q] /\ computed'[q] = computed[q]
                                    /\ table'[q] = table[q] /\ trk'[q] = trk[q]
        /\ cur'.n[r] \in Nat \ {0} /\ Len(table'[r]) >= base + cur'.n[r]
        /\ UNCHANGED <<recvDone, recvFailed>>
    BY <1>0, RunIs
  <1>2. TableOf(r)'
    <2>1. TableOf(r) BY DEF TableInv
    <2>2. table'[r] \in Seq(Blocks) BY RunIs DEF Base, Types, BlockTypes
    <2>3. computed'[r] <= Len(table'[r])
      <3>1. Len(table'[r]) \in Nat BY <2>2, LenProperties
      <3> QED BY <1>1, <3>1
    <2>4. r \notin recvDone' \cup recvFailed' BY <1>1, <2>1 DEF TableOf
    <2> QED BY <1>1, <2>3, <2>4 DEF TableOf
  <1> QED BY <1>1, <1>2, TableFrame DEF TableInv

(* What a call of schedule() makes of a tracker.                             *)
SchedAs(u, t, n, g) ==
  /\ u \in TrackerT /\ u.sched = t.sched + n /\ u.blocks = t.blocks \o g
  /\ u.s = IF t.s = "waiting" THEN "ready" ELSE t.s
  /\ u.hit = t.hit

(* What a call of schedule() leaves in a tracker.                           *)
LEMMA ScheduledAs ==
    ASSUME NEW t \in TrackerT, NEW n \in Nat, NEW g \in Seq(Blocks), NEW k \in Nat
    PROVE SchedAs(Scheduled(t, n, g, k), t, n, g)
  <1> DEFINE u == Scheduled(t, n, g, k)
  <1> DEFINE c == Counted(t, n, g)  s == Cardinality(Storable(c, k))  m == c.stored + s
  <1>0. c = Counted(t, n, g) OBVIOUS
  <1>2. u = IF n = 0 THEN c ELSE [c EXCEPT !.stored = m] BY DEF Scheduled
  <1> HIDE DEF c
  <1>1. /\ c \in TrackerT /\ c.sched = t.sched + n /\ c.blocks = t.blocks \o g
        /\ c.s = IF t.s = "waiting" THEN "ready" ELSE t.s
        /\ c.stored = t.stored /\ c.hit = t.hit
    <2>1. t \in TrackerT /\ n \in Nat /\ g \in Seq(Blocks) OBVIOUS
    <2> HIDE DEF s
    <2>2. c \in TrackerT BY <1>0, <2>1, CountedIs
    <2>3. c.sched = t.sched + n BY <1>0, <2>1, CountedIs
    <2>4. c.blocks = t.blocks \o g BY <1>0, <2>1, CountedIs
    <2>5. c.s = IF t.s = "waiting" THEN "ready" ELSE t.s BY <1>0, <2>1, CountedIs
    <2>6. c.stored = t.stored /\ c.hit = t.hit BY <1>0, <2>1, CountedIs
    <2> QED BY <2>2, <2>3, <2>4, <2>5, <2>6
  <1>5. s \in Nat /\ c.stored \in Nat BY <1>1, StorableIs, TrackerFields
  <1> HIDE DEF s
  <1>3. m \in Nat BY <1>5
  <1> HIDE DEF m
  <1> HIDE DEF u
  <1>4. n # 0 => /\ u \in TrackerT /\ u.sched = c.sched /\ u.blocks = c.blocks /\ u.s = c.s
                 /\ u.hit = c.hit
    BY <1>1, <1>2, <1>3 DEF TrackerT
  <1>6. SchedAs(u, t, n, g) BY <1>1, <1>2, <1>4 DEF SchedAs
  <1> QED BY <1>6 DEF u

(* The tracker of a request after a call of schedule().                     *)
LEMMA ScheduledTrk ==
    ASSUME CacheAssumption, EngineAssumption, Base, FinishSchedule, NEW r \in Reqs
    PROVE  /\ trk[r] \in TrackerT /\ cur.n[r] \in Nat /\ cur.got[r] \in Seq(Blocks) /\ Tokens(r) \in Nat
           /\ trk'[r] \in TrackerT /\ trk'[r].sched = trk[r].sched + cur.n[r]
           /\ trk'[r].blocks = trk[r].blocks \o cur.got[r]
           /\ trk'[r].s = IF trk[r].s = "waiting" THEN "ready" ELSE trk[r].s
           /\ trk'[r].hit = trk[r].hit
  <1>1. trk'[r] = Scheduled(trk[r], cur.n[r], cur.got[r], Tokens(r)) BY FinishScheduleIs
  <1>2. trk[r] \in TrackerT /\ cur.n[r] \in Nat /\ cur.got[r] \in Seq(Blocks) /\ Tokens(r) \in Nat
    BY CurFields, ReqFields DEF Base, Types, CurTypes, TrkTypes
  <1>3. PICK t \in TrackerT, n \in Nat, g \in Seq(Blocks), k \in Nat :
          t = trk[r] /\ n = cur.n[r] /\ g = cur.got[r] /\ k = Tokens(r)
    BY <1>2
  <1>4. SchedAs(Scheduled(t, n, g, k), t, n, g) BY ScheduledAs
  <1>5. SchedAs(trk'[r], t, n, g) BY <1>1, <1>3, <1>4
  <1> QED BY <1>2, <1>3, <1>5 DEF SchedAs

(* TableInv, when a call of schedule() ends.                                 *)
LEMMA FinishScheduleTable ==
    ASSUME CacheAssumption, EngineAssumption, Base, TableInv, FinishSchedule PROVE TableInv'
  <1>1. /\ \A r \in Reqs : trk'[r] = Scheduled(trk[r], cur.n[r], cur.got[r], Tokens(r))
        /\ computed' = [r \in Reqs |-> computed[r] + cur.n[r]]
        /\ UNCHANGED <<st, blockVars, recvDone, recvFailed>>
    BY FinishScheduleIs
  <1>2. st' = st /\ table' = table /\ recvDone' = recvDone /\ recvFailed' = recvFailed
    BY <1>1 DEF blockVars
  <1> SUFFICES ASSUME NEW r \in Reqs PROVE TableOf(r)' BY DEF TableInv
  <1>3. /\ trk[r] \in TrackerT /\ cur.n[r] \in Nat /\ cur.got[r] \in Seq(Blocks) /\ Tokens(r) \in Nat
        /\ computed[r] \in Nat
    BY CurFields, ReqFields DEF Base, Types, CurTypes, TrkTypes
  <1>4. trk'[r].s = IF trk[r].s = "waiting" THEN "ready" ELSE trk[r].s
    BY ScheduledTrk
  <1>5. TableOf(r) BY DEF TableInv
  <1>6. CASE cur.n[r] = 0
    <2>1. computed'[r] = computed[r] BY <1>1, <1>3, <1>6
    <2> QED BY <1>2, <1>4, <1>5, <2>1, TableFrame
  <1>7. CASE cur.n[r] > 0
    <2>1. st[r] = "running" /\ Len(table[r]) >= computed[r] + cur.n[r] BY <1>7, CurOf DEF Base
    <2>2. Len(table[r]) \in Nat BY LenProperties DEF Base, Types, BlockTypes
    <2>3. computed'[r] <= Len(table'[r]) BY <1>1, <1>2, <1>3, <2>1, <2>2
    <2> QED BY <1>2, <1>5, <2>1, <2>3 DEF TableOf
  <1> QED BY <1>3, <1>6, <1>7

(* TableInv, when a request arrives.                                         *)
LEMMA AddTable ==
    ASSUME CacheAssumption, Base, TableInv, NEW r \in Reqs, Add(r) PROVE TableInv'
  <1>1. /\ st[r] = "new" /\ st'[r] = "waiting" /\ \A q \in Reqs : q # r => st'[q] = st[q]
        /\ UNCHANGED <<cacheVars, computed, blockVars, doneVars>>
    BY AddBase
  <1>2. table' = table /\ computed' = computed /\ trk' = trk /\ recvDone' = recvDone /\ recvFailed' = recvFailed
    BY <1>1 DEF cacheVars, trkVars, blockVars, doneVars
  <1>3. TableOf(r)'
    <2>1. TableOf(r) /\ table[r] = << >> /\ computed[r] = 0 BY <1>1 DEF TableInv, TableOf
    <2>2. Prompt \in Nat \ {0} /\ Len(<< >>) = 0 BY DEF CacheAssumption
    <2>3. computed'[r] <= Len(table'[r]) /\ computed'[r] < Prompt BY <1>2, <2>1, <2>2
    <2> QED BY <1>1, <1>2, <2>1, <2>3 DEF TableOf
  <1> QED BY <1>1, <1>2, <1>3, TableFrame DEF TableInv

(* TableInv, when a request is aborted.                                      *)
LEMMA AbortTable ==
    ASSUME Base, TableInv, NEW r \in Reqs, Abort(r) PROVE TableInv'
  <1>1. /\ st'[r] = "finished" /\ \A q \in Reqs : q # r => st'[q] = st[q]
        /\ \A q \in Reqs : trk'[q] = IF q = r THEN NoTracker ELSE trk[q]
        /\ recvDone' = recvDone \ {r} /\ recvFailed' = recvFailed \ {r}
        /\ UNCHANGED <<computed, blockVars>>
    BY AbortBase
  <1>2. table' = table /\ computed' = computed BY <1>1 DEF blockVars
  <1>3. TableOf(r)' BY <1>1 DEF TableOf
  <1> QED BY <1>1, <1>2, <1>3, TableFrame DEF TableInv

(* TableInv, when the output of a step is processed.                         *)
LEMMA UpdatedTable ==
    ASSUME CacheAssumption, EngineAssumption, Base, PlaceInv, TableInv,
           NEW over, NEW s, UpdatedAs(s, over)
    PROVE TableInv'
  <1> SUFFICES ASSUME NEW r \in Reqs PROVE TableOf(r)' BY DEF TableInv
  <1>1. /\ s \in StepT
        /\ st'[r] = IF r \in LeftBy(s, over) THEN "gone" ELSE IF r \in over THEN "finished" ELSE st[r]
        /\ r \notin Recovered(s) => computed'[r] = computed[r]
        /\ r \in Recovered(s) => /\ computed'[r] \in Nat /\ computed'[r] < computed[r]
        /\ r \in LeftBy(s, over) => st[r] = "finished" \/ r \in over
        /\ r \in GotBy(s) => st[r] \notin Over /\ st[r] \notin Fresher
        /\ r \in over => r \in GotBy(s)
    BY UpdatedReq
  <1>2. /\ table'[r] = IF r \in LeftBy(s, over) THEN << >> ELSE table[r]
        /\ trk'[r] = IF r \in over THEN NoTracker ELSE trk[r]
    BY UpdatedTypes
  <1>3. /\ recvFailed' = recvFailed \cup {q \in Recovered(s) : st[q] = "remote"}
        /\ recvDone' = recvDone \cup {q \in s.recv : st[q] = "remote"}
    BY DEF UpdatedAs
  <1>4. TableOf(r) BY DEF TableInv
  <1>5. st[r] = "remote" => r \notin over /\ r \notin LeftBy(s, over) BY <1>1 DEF Fresher
  <1>6. r \in recvDone' \cup recvFailed' => st'[r] = "remote" BY <1>1, <1>3, <1>4, <1>5 DEF TableOf
  <1>7. CASE st'[r] \in Over BY <1>6, <1>7 DEF TableOf, Over
  <1>8. CASE st'[r] \notin Over
    <2>1. st'[r] = st[r] /\ table'[r] = table[r] /\ trk'[r] = trk[r] BY <1>1, <1>2, <1>8 DEF Over
    <2>2. r \in Recovered(s) => st[r] \in {"running", "remote"} BY <1>1, RecoveredIs DEF Base
    <2>3. computed[r] \in Nat /\ Len(table[r]) \in Nat /\ Prompt \in Nat
      BY LenProperties DEF Base, Types, ReqTypes, BlockTypes, CacheAssumption
    <2>4. computed'[r] <= computed[r] /\ computed'[r] \in Nat BY <1>1, <2>3
    <2>5. /\ st[r] \in {"remote", "waiting", "running"} => computed'[r] <= Len(table'[r])
          /\ st[r] = "waiting" => computed'[r] < Prompt
          /\ st[r] = "remote" => computed'[r] <= Prompt
      <3>1. /\ st[r] \in {"remote", "waiting", "running"} => computed[r] <= Len(table[r])
            /\ st[r] = "waiting" => computed[r] < Prompt
            /\ st[r] = "remote" => computed[r] <= Prompt
        BY <1>4 DEF TableOf
      <3> QED BY <2>1, <2>3, <2>4, <3>1
    <2>6. r \in recvFailed' => computed'[r] < Prompt
      <3>1. CASE r \in recvFailed
        <4>1. computed[r] < Prompt BY <1>4, <3>1 DEF TableOf
        <4> QED BY <2>3, <2>4, <4>1
      <3>2. CASE r \in Recovered(s) /\ st[r] = "remote"
        <4>1. computed[r] <= Prompt /\ computed'[r] < computed[r] BY <1>1, <1>4, <3>2 DEF TableOf
        <4> QED BY <2>3, <2>4, <4>1
      <3> QED BY <1>3, <3>1, <3>2
    <2>7. st[r] \notin {"running", "remote"} => computed'[r] = computed[r] BY <1>1, <2>2
    <2> QED BY <1>4, <1>6, <2>1, <2>5, <2>6, <2>7 DEF TableOf
  <1> QED BY <1>7, <1>8

-----------------------------------------------------------------------------
(* TrkInv: trackers.                                                         *)

(* What is said of the tracker of r stays true while r keeps its status,    *)
(* its tracker and its load.                                                *)
LEMMA TrkFrame ==
    ASSUME NEW r \in Reqs, TrkOf(r), st'[r] = st[r], trk'[r] = trk[r],
           r \in loading' <=> dma'[r].s # "none"
    PROVE  TrkOf(r)'
BY DEF TrkOf, Over

(* TrkInv, in a light step.                                                  *)
LEMMA LightTrk ==
    ASSUME Base, TrkInv, Light PROVE TrkInv'
  <1>1. st' = st /\ loading' = loading /\ dma' = dma /\ TrkNotes BY DEF Light, SameReqs, SameWork
  <1> SUFFICES ASSUME NEW r \in Reqs PROVE TrkOf(r)' BY DEF TrkInv
  <1>2. TrkOf(r) BY DEF TrkInv
  <1>3. /\ st[r] \notin {"waiting", "preempted"} => trk'[r] = trk[r]
        /\ \/ trk'[r].s = trk[r].s /\ trk'[r].blocks = trk[r].blocks /\ trk'[r].sched = trk[r].sched
           \/ /\ st[r] \in {"waiting", "preempted"}
              /\ trk'[r].s = "prefetching" /\ trk'[r].blocks = << >> /\ trk'[r].sched = 0
    BY <1>1, NotesKeep DEF Base, Types
  <1> QED BY <1>1, <1>2, <1>3 DEF TrkOf, Over

(* TrkInv, in a step of the others after which a transfer has its future.    *)
LEMMA AsideTrk ==
    ASSUME TrkInv, Aside, \A r \in Reqs : r \in loading' <=> dma'[r].s # "none"
    PROVE TrkInv'
  <1>1. st' = st /\ trk' = trk BY DEF Aside, SameReqs
  <1> QED BY <1>1, TrkFrame DEF TrkInv

(* A load that is submitted has a future and a transfer.                    *)
LEMMA StartStepTrk ==
    ASSUME Base, TrkInv, StartStep PROVE TrkInv'
  <1>1. Aside BY StartStepAside DEF Base
  <1>2. StartLoads(pipe[At].retr) BY StartStepIs DEF Base
  <1>3. loading \subseteq Reqs BY DEF Base, Types, WorkTypes
  <1>4. ASSUME NEW r \in Reqs PROVE r \in loading' <=> dma'[r].s # "none"
    <2>1. r \in loading <=> dma[r].s # "none" BY DEF TrkInv, TrkOf
    <2>2. CASE health
      <3>1. Submitted(pipe[At].retr) BY <1>2, <2>2 DEF StartLoads
      <3> DEFINE ops == pipe[At].retr
      <3>2. loading' = loading \cup {o.req : o \in ops} /\ dma' = [q \in Reqs |->
               IF \E o \in ops : o.req = q
               THEN [s |-> "flying", blocks |-> (CHOOSE o \in ops : o.req = q).blocks] ELSE dma[q]]
        BY <3>1 DEF Submitted
      <3> HIDE DEF ops
      <3>3. CASE \E o \in ops : o.req = r
        <4>1. dma'[r] = [s |-> "flying", blocks |-> (CHOOSE o \in ops : o.req = r).blocks] BY <3>2, <3>3
        <4>2. dma'[r].s = "flying" BY <4>1
        <4> QED BY <3>2, <3>3, <4>2
      <3>4. CASE ~ \E o \in ops : o.req = r
        <4>1. dma'[r] = dma[r] BY <3>2, <3>4
        <4> QED BY <3>2, <3>4, <4>1, <2>1
      <3> QED BY <3>3, <3>4
    <2>3. CASE ~health
      <3>1. loading' = loading /\ dma' = dma BY <1>2, <2>3 DEF StartLoads
      <3> QED BY <2>1, <3>1
    <2> QED BY <2>2, <2>3
  <1> QED BY <1>1, <1>4, AsideTrk

(* TrkInv, when a step is executed.                                          *)
LEMMA ExecuteTrk ==
    ASSUME Base, TrkInv, NEW over, Execute(over) PROVE TrkInv'
  <1>1. Aside BY ExecuteAside DEF Base
  <1>2. /\ ~health => loading' = loading /\ dma' = dma
        /\ health => /\ loading' = loading \ Ended
                     /\ dma' = [r \in Reqs |-> IF r \in Ended THEN NoLoad ELSE dma[r]]
    BY ExecuteIs DEF Base
  <1>3. ASSUME NEW r \in Reqs PROVE r \in loading' <=> dma'[r].s # "none"
    <2>1. r \in loading <=> dma[r].s # "none" BY DEF TrkInv, TrkOf
    <2>2. NoLoad.s = "none" BY DEF NoLoad
    <2> QED BY <1>2, <2>1, <2>2
  <1> QED BY <1>1, <1>3, AsideTrk

(* TrkInv, when a transfer ends.                                             *)
LEMMA TransferEndsTrk ==
    ASSUME Base, TrkInv, NEW r \in Reqs, TransferEnds(r) PROVE TrkInv'
  <1>1. /\ Aside /\ dma[r].s = "flying" /\ loading' = loading
        /\ \A q \in Reqs : q # r => dma'[q] = dma[q]
        /\ dma'[r].s \in {"good", "bad"}
    BY TransferEndsAside DEF Base
  <1>2. ASSUME NEW q \in Reqs PROVE q \in loading' <=> dma'[q].s # "none"
    <2>1. q \in loading <=> dma[q].s # "none" BY DEF TrkInv, TrkOf
    <2> QED BY <1>1, <2>1
  <1> QED BY <1>1, <1>2, AsideTrk

(* TrkInv, when a running request is scheduled.                              *)
LEMMA TakeRunningTrk ==
    ASSUME CacheAssumption, EngineAssumption, Base, PlaceInv, TrkInv, TakeRunning PROVE TrkInv'
  <1>1. UNCHANGED <<cacheVars, reqVars>>
    <2>0. PICK r \in Reqs : r = Here BY TakeRunningIs DEF Base
    <2> QED BY <2>0, TakeRunningIs DEF Base
  <1>2. st' = st /\ trk' = trk /\ loading' = loading /\ dma' = dma
    BY <1>1 DEF cacheVars, trkVars, workVars, reqVars
  <1> QED BY <1>2, TrkFrame DEF TrkInv, TrkOf

(* TrkInv, when the last running request is preempted.                       *)
LEMMA PreemptTrk ==
    ASSUME CacheAssumption, EngineAssumption, Base, TrkInv, Preempt PROVE TrkInv'
  <1>0. PICK v \in Reqs : v = Last(running) BY PreemptIs DEF Base
  <1>1. /\ st'[v] = "preempted" /\ \A q \in Reqs : q # v => st'[q] = st[q]
        /\ UNCHANGED cacheVars
    BY <1>0, PreemptIs DEF Base
  <1>2. trk' = trk /\ loading' = loading /\ dma' = dma
    BY <1>1 DEF cacheVars, trkVars, workVars
  <1>3. TrkOf(v)' BY <1>1, <1>2 DEF TrkInv, TrkOf, Over
  <1> QED BY <1>1, <1>2, <1>3, TrkFrame DEF TrkInv, TrkOf

(* TrkInv, when the wait of a request for its load is over.                  *)
LEMMA PromoteTrk ==
    ASSUME CacheAssumption, Base, TrkInv, Promote PROVE TrkInv'
  <1>0. PICK r \in Reqs : r = Head1 BY PromoteIs
  <1>1. /\ st'[r] = IF r \in hurt THEN "preempted" ELSE "waiting"
        /\ \A q \in Reqs : q # r => st'[q] = st[q]
        /\ UNCHANGED cacheVars
    BY <1>0, PromoteIs
  <1>2. trk' = trk /\ loading' = loading /\ dma' = dma
    BY <1>1 DEF cacheVars, trkVars, workVars
  <1>3. TrkOf(r)' BY <1>1, <1>2 DEF TrkInv, TrkOf, Over
  <1> QED BY <1>1, <1>2, <1>3, TrkFrame DEF TrkInv, TrkOf

(* The tracker of a request that is admitted to load asks for the load or   *)
(* is ready.                                                                *)
LEMMA LoadTrk ==
    ASSUME CacheAssumption, EngineAssumption, Base, TrkInv, NEW base \in Nat, AdmittedAs(base, TRUE)
    PROVE TrkInv'
  <1>0. PICK r \in Reqs : r = Head1 BY LoadIs
  <1>1. /\ st'[r] = "remote" /\ computed[r] = 0 /\ base > 0
        /\ \A q \in Reqs : q # r => st'[q] = st[q] /\ trk'[q] = trk[q]
        /\ trk'[r] = AfterAlloc(Noted(base), table'[r])
        /\ UNCHANGED workVars
    BY <1>0, LoadIs
  <1>2. loading' = loading /\ dma' = dma BY <1>1 DEF workVars
  <1>3. trk'[r].s \in {"waiting", "ready"}
    <2>1. table'[r] \in Seq(Blocks) BY LoadIs DEF Base, Types, BlockTypes
    <2>2. Noted(base) \in TrackerT BY <1>0, NotedIs DEF Base, Types
    <2>3. Noted(base).s # "none" BY <1>0, <1>1, NotedIs DEF Base, Types
    <2> DEFINE t == Noted(base)  tab == table'[r]
    <2>4. trk'[r] = AfterAlloc(t, tab) /\ t \in TrackerT /\ tab \in Seq(Blocks) /\ t.s # "none"
      BY <1>1, <2>1, <2>2, <2>3
    <2> HIDE DEF t, tab
    <2>5. trk'[r].s = IF t.s # "prefetching" THEN t.s ELSE IF t.hit > 0 THEN "waiting" ELSE "ready"
      BY <2>4, AfterAllocIs
    <2>6. t.s \in {"none", "prefetching", "waiting", "ready"} BY <2>4, TrackerFields
    <2> QED BY <2>4, <2>5, <2>6
  <1>4. TrkOf(r)' BY <1>1, <1>2, <1>3 DEF TrkInv, TrkOf, Over
  <1> QED BY <1>1, <1>2, <1>4, TrkFrame DEF TrkInv, TrkOf

(* TrkInv, when a request is admitted to run.                                *)
LEMMA RunTrk ==
    ASSUME CacheAssumption, EngineAssumption, Base, PlaceInv, TableInv, TrkInv, NEW base \in Nat,
           AdmittedAs(base, FALSE)
    PROVE TrkInv'
  <1>0. PICK r \in Reqs : r = Head1 BY RunIs
  <1>1. /\ st'[r] = "running" /\ st[r] \in {"waiting", "preempted"}
        /\ \A q \in Reqs : q # r => st'[q] = st[q] /\ trk'[q] = trk[q]
        /\ trk'[r] = AfterAlloc(Noted(base), table'[r])
        /\ UNCHANGED workVars
    BY <1>0, RunIs
  <1>2. loading' = loading /\ dma' = dma BY <1>1 DEF workVars
  <1>3. trk'[r].s \in {"waiting", "ready"}
    <2>1. table'[r] \in Seq(Blocks) BY RunIs DEF Base, Types, BlockTypes
    <2>2. Noted(base) \in TrackerT BY <1>0, NotedIs DEF Base, Types
    <2>3. Noted(base).s # "none"
      <3>1. CASE computed[r] = 0 BY <1>0, <3>1, NotedIs DEF Base, Types
      <3>2. CASE computed[r] # 0
        <4>1. computed[r] > 0 BY <3>2 DEF Base, Types, ReqTypes
        <4>2. Noted(base) = trk[r] BY <1>0, <4>1 DEF Noted
        <4> QED BY <1>1, <3>2, <4>2 DEF TableInv, TableOf
      <3> QED BY <3>1, <3>2
    <2> DEFINE t == Noted(base)  tab == table'[r]
    <2>4. trk'[r] = AfterAlloc(t, tab) /\ t \in TrackerT /\ tab \in Seq(Blocks) /\ t.s # "none"
      BY <1>1, <2>1, <2>2, <2>3
    <2> HIDE DEF t, tab
    <2>5. trk'[r].s = IF t.s # "prefetching" THEN t.s ELSE IF t.hit > 0 THEN "waiting" ELSE "ready"
      BY <2>4, AfterAllocIs
    <2>6. t.s \in {"none", "prefetching", "waiting", "ready"} BY <2>4, TrackerFields
    <2> QED BY <2>4, <2>5, <2>6
  <1>4. TrkOf(r)' BY <1>1, <1>2, <1>3 DEF TrkInv, TrkOf, Over
  <1> QED BY <1>1, <1>2, <1>4, TrkFrame DEF TrkInv, TrkOf

(* TrkInv, when a call of schedule() ends.                                   *)
LEMMA FinishScheduleTrk ==
    ASSUME CacheAssumption, EngineAssumption, Base, TrkInv, FinishSchedule PROVE TrkInv'
  <1>1. UNCHANGED <<workVars, st>> BY FinishScheduleIs
  <1>2. st' = st /\ loading' = loading /\ dma' = dma BY <1>1 DEF workVars
  <1> SUFFICES ASSUME NEW r \in Reqs PROVE TrkOf(r)' BY DEF TrkInv
  <1>3. TrkOf(r) BY DEF TrkInv
  <1>4. /\ trk[r] \in TrackerT /\ cur.n[r] \in Nat /\ cur.got[r] \in Seq(Blocks)
        /\ trk'[r].sched = trk[r].sched + cur.n[r]
        /\ trk'[r].blocks = trk[r].blocks \o cur.got[r]
        /\ trk'[r].s = IF trk[r].s = "waiting" THEN "ready" ELSE trk[r].s
    BY ScheduledTrk
  <1>5. ASSUME trk'[r].s \in {"none", "prefetching"} PROVE trk'[r].blocks = << >> /\ trk'[r].sched = 0
    <2>1. trk[r].s \in {"none", "prefetching"} BY <1>4, <1>5
    <2>2. cur.n[r] = 0 /\ cur.got[r] = << >>
      <3>1. st[r] # "running" BY <1>3, <2>1 DEF TrkOf
      <3>2. ~(cur.n[r] > 0) BY <3>1, CurOf DEF Base
      <3> QED BY <1>4, <3>2, CurOf DEF Base
    <2>3. trk[r].blocks = << >> /\ trk[r].sched = 0 BY <1>3, <2>1 DEF TrkOf
    <2>4. << >> \o << >> = << >> OBVIOUS
    <2> QED BY <1>4, <2>2, <2>3, <2>4
  <1> QED BY <1>2, <1>3, <1>4, <1>5 DEF TrkOf, Over

(* TrkInv, when a request arrives.                                           *)
LEMMA AddTrk ==
    ASSUME Base, TrkInv, NEW r \in Reqs, Add(r) PROVE TrkInv'
  <1>1. /\ st[r] = "new" /\ st'[r] = "waiting" /\ \A q \in Reqs : q # r => st'[q] = st[q]
        /\ UNCHANGED cacheVars
    BY AddBase
  <1>2. trk' = trk /\ loading' = loading /\ dma' = dma
    BY <1>1 DEF cacheVars, trkVars, workVars
  <1>3. TrkOf(r)' BY <1>1, <1>2 DEF TrkInv, TrkOf, Over
  <1> QED BY <1>1, <1>2, <1>3, TrkFrame DEF TrkInv, TrkOf

(* TrkInv, when a request is aborted.                                        *)
LEMMA AbortTrk ==
    ASSUME Base, TrkInv, NEW r \in Reqs, Abort(r) PROVE TrkInv'
  <1>1. /\ st'[r] = "finished" /\ \A q \in Reqs : q # r => st'[q] = st[q]
        /\ \A q \in Reqs : trk'[q] = IF q = r THEN NoTracker ELSE trk[q]
        /\ UNCHANGED workVars
    BY AbortBase
  <1>2. loading' = loading /\ dma' = dma BY <1>1 DEF workVars
  <1>3. trk'[r] = NoTracker BY <1>1
  <1>4. TrkOf(r)' BY <1>1, <1>2, <1>3, NoTrackerIs DEF TrkInv, TrkOf, Over
  <1> QED BY <1>1, <1>2, <1>4, TrkFrame DEF TrkInv, TrkOf

(* TrkInv, when the output of a step is processed.                           *)
LEMMA UpdatedTrk ==
    ASSUME CacheAssumption, EngineAssumption, Base, PlaceInv, TrkInv, NEW over, NEW s, UpdatedAs(s, over)
    PROVE TrkInv'
  <1> SUFFICES ASSUME NEW r \in Reqs PROVE TrkOf(r)' BY DEF TrkInv
  <1>1. /\ st'[r] = IF r \in LeftBy(s, over) THEN "gone" ELSE IF r \in over THEN "finished" ELSE st[r]
        /\ r \in LeftBy(s, over) => st[r] = "finished" \/ r \in over
    BY UpdatedReq
  <1>2. trk'[r] = IF r \in over THEN NoTracker ELSE trk[r] BY UpdatedTypes
  <1>3. UNCHANGED workVars BY DEF UpdatedAs
  <1>4. loading' = loading /\ dma' = dma BY <1>3 DEF workVars
  <1>5. TrkOf(r) BY DEF TrkInv
  <1> QED BY <1>1, <1>2, <1>4, <1>5, NoTrackerIs DEF TrkOf, Over

-----------------------------------------------------------------------------
(* LoadInv: loads and their requests.                                        *)

(* Nothing is known of a load of r.                                         *)
Quiet(r) == r \notin loading \cup dropped \cup recvDone \cup recvFailed /\ NoRecv(r) /\ NoRetr(r)

(* What is said of the load of r stays true while nothing of r changes.     *)
LEMMA LoadFrame ==
    ASSUME NEW r \in Reqs, LoadOf(r), pipe' = pipe,
           st'[r] = st[r], computed'[r] = computed[r], table'[r] = table[r],
           st[r] = "waiting" /\ trk[r].s # "waiting" => trk'[r].s # "waiting",
           st[r] = "remote" => trk'[r] = trk[r],
           r \in loading' <=> r \in loading, r \in dropped' <=> r \in dropped,
           r \in recvDone' <=> r \in recvDone, r \in recvFailed' <=> r \in recvFailed,
           r \in loading => dma'[r] = dma[r], errs' = errs,
           r \in prevFin' => r \in prevFin, r \in stores' => r \in stores,
           st[r] \notin {"new", "preempted", "running", "gone"} =>
               \A i \in DOMAIN table[r] : content'[table[r][i]] = content[table[r][i]],
           computed[r] <= Len(table[r]) \/ r \notin recvDone, computed[r] \in Nat, table[r] \in Seq(Blocks),
           r \in recvDone => st[r] = "remote"
    PROVE  LoadOf(r)'
  <1>1. WantOf(r)' BY DEF LoadOf, WantOf, NoRecv, NoRetr, InRetr
  <1>2. RetrOf(r)' BY DEF LoadOf, RetrOf, NoRecv, InRetr
  <1>3. LoadingOf(r)' BY DEF LoadOf, LoadingOf, NoRecv, GoodT
  <1>4. DroppedOf(r)' BY DEF LoadOf, DroppedOf, NoRecv, Unrun
  <1>5. RecvOf(r)' BY DEF LoadOf, RecvOf, Unrun, GoodT
  <1>6. CameOf(r)'
    <2>1. CASE r \notin recvDone BY <2>1 DEF LoadOf, CameOf
    <2>2. CASE r \in recvDone
      <3>1. computed[r] <= Len(table[r]) /\ Len(table[r]) \in Nat /\ DOMAIN table[r] = 1..Len(table[r])
        BY <2>2, LenProperties
      <3>2. 1..computed[r] \subseteq DOMAIN table[r] BY <3>1
      <3> QED BY <2>2, <3>2 DEF LoadOf, CameOf
    <2> QED BY <2>1, <2>2
  <1> QED BY <1>1, <1>2, <1>3, <1>4, <1>5, <1>6 DEF LoadOf

(* A request that neither waits for a load nor has ended has none.          *)
LEMMA NotLoading ==
    ASSUME NEW r \in Reqs, LoadOf(r), TableOf(r), st[r] \notin {"remote", "finished"}
    PROVE  Quiet(r)
BY DEF LoadOf, TableOf, Quiet, RetrOf, LoadingOf, DroppedOf, RecvOf, NoRecv, NoRetr

(* One whose load is over has none on its way either.                       *)
LEMMA HasCome ==
    ASSUME NEW r \in Reqs, LoadOf(r), r \in recvDone
    PROVE  /\ r \notin loading \cup dropped /\ NoRecv(r) /\ NoRetr(r)
           /\ st[r] = "remote" => trk[r].s # "waiting"
BY DEF LoadOf, WantOf, RetrOf, LoadingOf, DroppedOf, RecvOf, NoRecv, NoRetr

(* LoadInv, in a step that changes only what the worker or a lookup keeps.   *)
LEMMA QuietLoad ==
    ASSUME NEW r \in Reqs, Quiet(r)', st'[r] = "waiting" => trk'[r].s # "waiting",
           st'[r] = "remote" => trk'[r].s # "waiting"
    PROVE  LoadOf(r)'
BY DEF LoadOf, Quiet, WantOf, RetrOf, LoadingOf, DroppedOf, RecvOf, CameOf, NoRecv, NoRetr

(* A request without a load stays so.                                        *)
LEMMA QuietKept ==
    ASSUME NEW r \in Reqs, Quiet(r), pipe' = pipe, r \in loading' => r \in loading,
           r \in dropped' => r \in dropped, r \in recvDone' => r \in recvDone,
           r \in recvFailed' => r \in recvFailed
    PROVE  Quiet(r)'
BY DEF Quiet, NoRecv, NoRetr, InRetr

(* What a frame asks of the types.                                          *)
LEMMA LoadTyped ==
    ASSUME Base, TableInv, NEW r \in Reqs
    PROVE  /\ computed[r] \in Nat /\ table[r] \in Seq(Blocks) /\ TableOf(r)
           /\ Len(table[r]) \in Nat /\ DOMAIN table[r] = 1..Len(table[r])
           /\ r \in recvDone => st[r] = "remote"
           /\ computed[r] <= Len(table[r]) \/ r \notin recvDone
           /\ IsInjective(table[r]) /\ Range(table[r]) \cap free = {}
           /\ \A i \in DOMAIN table[r] : table[r][i] \in Blocks /\ table[r][i] \in Range(table[r])
  <1>1. computed[r] \in Nat /\ table[r] \in Seq(Blocks) BY DEF Base, Types, ReqTypes, BlockTypes
  <1>2. TableOf(r) BY DEF TableInv
  <1>3. Len(table[r]) \in Nat /\ DOMAIN table[r] = 1..Len(table[r]) BY <1>1, LenProperties
  <1>4. \A i \in DOMAIN table[r] : table[r][i] \in Blocks BY <1>1, <1>3, ElementOfSeq
  <1>5. \A i \in DOMAIN table[r] : table[r][i] \in Range(table[r]) BY DEF Range
  <1>6. IsInjective(table[r]) /\ Range(table[r]) \cap free = {} BY DEF Base, BlockInv, Partition
  <1>7. r \in recvDone => st[r] = "remote" /\ computed[r] <= Len(table[r]) BY <1>2 DEF TableOf
  <1> QED BY <1>1, <1>2, <1>3, <1>4, <1>5, <1>6, <1>7

(* What has strayed has strayed for good.                                    *)
LEMMA CleanOf == ASSUME seen \subseteq seen', Clean' PROVE Clean
BY DEF Clean

(* LoadInv, in a decision of schedule() that only moves the scan, the queues *)
(* or a note.                                                                *)
LEMMA LightLoad ==
    ASSUME Base, TableInv, LoadInv, Light PROVE LoadInv'
  <1>1. /\ st' = st /\ computed' = computed /\ table' = table /\ loading' = loading /\ dma' = dma
        /\ dropped' = dropped /\ errs' = errs /\ prevFin' = prevFin /\ stores' = stores /\ pipe' = pipe
        /\ content' = content /\ seen' = seen /\ recvDone' = recvDone /\ recvFailed' = recvFailed
        /\ TrkNotes
    BY DEF Light, SameReqs, SameWork, SameBlocks, SameDone
  <1> SUFFICES ASSUME Clean', NEW r \in Reqs PROVE LoadOf(r)' BY DEF LoadInv
  <1>2. LoadOf(r) BY <1>1 DEF LoadInv, Clean
  <1>3. /\ st[r] = "waiting" /\ trk[r].s # "waiting" => trk'[r].s # "waiting"
        /\ st[r] = "remote" => trk'[r] = trk[r]
    BY <1>1, NotesKeep DEF Base, Types
  <1> QED BY <1>1, <1>2, <1>3, LoadTyped, LoadFrame

(* LoadInv, in a step of the others that touches no load.                    *)
LEMMA StillLoad ==
    ASSUME Base, TableInv, LoadInv, Aside, pipe' = pipe, content' = content, seen' = seen,
           UNCHANGED <<loading, dma, stores, prevFin, dropped, errs>>
    PROVE LoadInv'
  <1>1. /\ st' = st /\ computed' = computed /\ table' = table /\ loading' = loading /\ dma' = dma
        /\ dropped' = dropped /\ errs' = errs /\ prevFin' = prevFin /\ stores' = stores
        /\ recvDone' = recvDone /\ recvFailed' = recvFailed /\ trk' = trk
    BY DEF Aside, SameReqs, SameBlocks, SameDone
  <1> SUFFICES ASSUME Clean', NEW r \in Reqs PROVE LoadOf(r)' BY DEF LoadInv
  <1>2. LoadOf(r) BY <1>1 DEF LoadInv, Clean
  <1> QED BY <1>1, <1>2, LoadTyped, LoadFrame

(* LoadInv, when a running request is scheduled.                             *)
LEMMA TakeRunningLoad ==
    ASSUME CacheAssumption, EngineAssumption, Base, PlaceInv, TableInv, LoadInv, TakeRunning
    PROVE LoadInv'
  <1>0. PICK r \in Reqs : r = Here BY TakeRunningIs DEF Base
  <1>1. /\ st[r] = "running"
        /\ \A q \in Reqs : q # r => table'[q] = table[q]
        /\ \A b \in Blocks \ free : content'[b] = content[b]
        /\ UNCHANGED <<cacheVars, reqVars, doneVars, pipe, seen>>
    BY <1>0, TakeRunningIs DEF Base
  <1>2. /\ st' = st /\ computed' = computed /\ trk' = trk /\ loading' = loading /\ dma' = dma
        /\ dropped' = dropped /\ errs' = errs /\ prevFin' = prevFin /\ stores' = stores /\ pipe' = pipe
        /\ seen' = seen /\ recvDone' = recvDone /\ recvFailed' = recvFailed
    BY <1>1 DEF reqVars, cacheVars, trkVars, workVars, doneVars
  <1> SUFFICES ASSUME Clean', NEW q \in Reqs PROVE LoadOf(q)' BY DEF LoadInv
  <1>3. LoadOf(q) BY <1>2 DEF LoadInv, Clean
  <1>4. CASE q = r
    <2>1. Quiet(q) BY <1>1, <1>3, <1>4, NotLoading DEF TableInv
    <2>2. Quiet(q)' BY <1>2, <2>1, QuietKept
    <2> QED BY <1>1, <1>2, <1>4, <2>2, QuietLoad
  <1>5. CASE q # r
    <2>1. \A i \in DOMAIN table[q] : content'[table[q][i]] = content[table[q][i]] BY <1>1, LoadTyped
    <2>2. table'[q] = table[q] BY <1>1, <1>5
    <2> QED BY <1>2, <1>3, <2>1, <2>2, LoadTyped, LoadFrame
  <1> QED BY <1>4, <1>5

(* LoadInv, when the last running request is preempted.                      *)
LEMMA PreemptLoad ==
    ASSUME CacheAssumption, EngineAssumption, Base, TableInv, LoadInv, Preempt PROVE LoadInv'
  <1>0. PICK v \in Reqs : v = Last(running) BY PreemptIs DEF Base
  <1>1. /\ st[v] = "running" /\ st'[v] = "preempted"
        /\ \A q \in Reqs : q # v => st'[q] = st[q] /\ computed'[q] = computed[q] /\ table'[q] = table[q]
        /\ UNCHANGED <<cacheVars, content, recvDone, recvFailed, pipe, seen>>
    BY <1>0, PreemptIs DEF Base
  <1>2. /\ trk' = trk /\ loading' = loading /\ dma' = dma
        /\ dropped' = dropped /\ errs' = errs /\ prevFin' = prevFin /\ stores' = stores /\ pipe' = pipe
        /\ seen' = seen /\ recvDone' = recvDone /\ recvFailed' = recvFailed /\ content' = content
    BY <1>1 DEF cacheVars, trkVars, workVars
  <1> SUFFICES ASSUME Clean', NEW q \in Reqs PROVE LoadOf(q)' BY DEF LoadInv
  <1>3. LoadOf(q) BY <1>2 DEF LoadInv, Clean
  <1>4. CASE q = v
    <2>1. Quiet(q) BY <1>1, <1>3, <1>4, NotLoading DEF TableInv
    <2>2. Quiet(q)' BY <1>2, <2>1, QuietKept
    <2> QED BY <1>1, <1>4, <2>2, QuietLoad
  <1>5. CASE q # v
    <2>1. st'[q] = st[q] /\ computed'[q] = computed[q] /\ table'[q] = table[q] BY <1>1, <1>5
    <2> QED BY <1>2, <1>3, <2>1, LoadTyped, LoadFrame
  <1> QED BY <1>4, <1>5

(* LoadInv, when the wait of a request for its load is over.                 *)
LEMMA PromoteLoad ==
    ASSUME CacheAssumption, Base, TableInv, LoadInv, Promote PROVE LoadInv'
  <1>0. PICK r \in Reqs : r = Head1 BY PromoteIs
  <1>1. /\ st[r] = "remote" /\ r \in recvDone
        /\ st'[r] = IF r \in hurt THEN "preempted" ELSE "waiting"
        /\ \A q \in Reqs : q # r => st'[q] = st[q] /\ computed'[q] = computed[q] /\ table'[q] = table[q]
        /\ seen \subseteq seen'
        /\ recvDone' = recvDone \ {r} /\ recvFailed' = recvFailed \ {r}
        /\ UNCHANGED <<cacheVars, content, pipe>>
    BY <1>0, PromoteIs
  <1>2. /\ trk' = trk /\ loading' = loading /\ dma' = dma
        /\ dropped' = dropped /\ errs' = errs /\ prevFin' = prevFin /\ stores' = stores /\ pipe' = pipe
        /\ content' = content
    BY <1>1 DEF cacheVars, trkVars, workVars
  <1> SUFFICES ASSUME Clean', NEW q \in Reqs PROVE LoadOf(q)' BY DEF LoadInv
  <1>3. LoadOf(q) BY <1>1, CleanOf DEF LoadInv
  <1>4. CASE q = r
    <2>1. r \notin loading \cup dropped /\ NoRecv(r) /\ NoRetr(r) /\ trk[r].s # "waiting"
      BY <1>1, <1>3, <1>4, HasCome
    <2>2. Quiet(q)' BY <1>1, <1>2, <1>4, <2>1 DEF Quiet, NoRecv, NoRetr, InRetr
    <2> QED BY <1>1, <1>2, <1>4, <2>1, <2>2, QuietLoad
  <1>5. CASE q # r
    <2>1. st'[q] = st[q] /\ computed'[q] = computed[q] /\ table'[q] = table[q] BY <1>1, <1>5
    <2>2. (q \in recvDone' <=> q \in recvDone) /\ (q \in recvFailed' <=> q \in recvFailed) BY <1>1, <1>5
    <2> QED BY <1>2, <1>3, <2>1, <2>2, LoadTyped, LoadFrame
  <1> QED BY <1>4, <1>5

(* LoadInv, when a request is admitted to run.                               *)
LEMMA RunLoad ==
    ASSUME CacheAssumption, EngineAssumption, Base, PlaceInv, TableInv, LoadInv, NEW base \in Nat,
           AdmittedAs(base, FALSE)
    PROVE LoadInv'
  <1>0. PICK r \in Reqs : r = Head1 BY RunIs
  <1>1. /\ st[r] \in {"waiting", "preempted"} /\ st'[r] = "running"
        /\ \A q \in Reqs : q # r => /\ st'[q] = st[q] /\ computed'[q] = computed[q]
                                    /\ table'[q] = table[q] /\ trk'[q] = trk[q]
        /\ \A b \in Blocks \ free : content'[b] = content[b]
        /\ UNCHANGED <<workVars, recvDone, recvFailed, pipe, seen>>
    BY <1>0, RunIs
  <1>2. /\ loading' = loading /\ dma' = dma
        /\ dropped' = dropped /\ errs' = errs /\ prevFin' = prevFin /\ stores' = stores /\ pipe' = pipe
        /\ seen' = seen /\ recvDone' = recvDone /\ recvFailed' = recvFailed
    BY <1>1 DEF workVars
  <1> SUFFICES ASSUME Clean', NEW q \in Reqs PROVE LoadOf(q)' BY DEF LoadInv
  <1>3. LoadOf(q) BY <1>2 DEF LoadInv, Clean
  <1>4. CASE q = r
    <2>1. Quiet(q) BY <1>1, <1>3, <1>4, NotLoading DEF TableInv
    <2>2. Quiet(q)' BY <1>2, <2>1, QuietKept
    <2> QED BY <1>1, <1>4, <2>2, QuietLoad
  <1>5. CASE q # r
    <2>1. \A i \in DOMAIN table[q] : content'[table[q][i]] = content[table[q][i]] BY <1>1, LoadTyped
    <2>2. st'[q] = st[q] /\ computed'[q] = computed[q] /\ table'[q] = table[q] /\ trk'[q] = trk[q]
      BY <1>1, <1>5
    <2> QED BY <1>2, <1>3, <2>1, <2>2, LoadTyped, LoadFrame
  <1> QED BY <1>4, <1>5

(* LoadInv, when a request arrives.                                          *)
LEMMA AddLoad ==
    ASSUME Base, TableInv, TrkInv, LoadInv, NEW r \in Reqs, Add(r) PROVE LoadInv'
  <1>1. /\ st[r] = "new" /\ st'[r] = "waiting" /\ \A q \in Reqs : q # r => st'[q] = st[q]
        /\ UNCHANGED <<cacheVars, computed, blockVars, doneVars, pipe, seen>>
    BY AddBase
  <1>2. /\ trk' = trk /\ loading' = loading /\ dma' = dma /\ computed' = computed
        /\ dropped' = dropped /\ errs' = errs /\ prevFin' = prevFin /\ stores' = stores /\ pipe' = pipe
        /\ seen' = seen /\ recvDone' = recvDone /\ recvFailed' = recvFailed /\ table' = table
        /\ content' = content
    BY <1>1 DEF cacheVars, trkVars, workVars, blockVars, doneVars
  <1> SUFFICES ASSUME Clean', NEW q \in Reqs PROVE LoadOf(q)' BY DEF LoadInv
  <1>3. LoadOf(q) BY <1>2 DEF LoadInv, Clean
  <1>4. CASE q = r
    <2>1. Quiet(q) BY <1>1, <1>3, <1>4, NotLoading DEF TableInv
    <2>2. Quiet(q)' BY <1>2, <2>1, QuietKept
    <2>3. trk[r].s = "none" BY <1>1 DEF TrkInv, TrkOf
    <2> QED BY <1>1, <1>2, <1>4, <2>2, <2>3, QuietLoad
  <1>5. CASE q # r
    <2>1. st'[q] = st[q] BY <1>1, <1>5
    <2> QED BY <1>2, <1>3, <2>1, LoadTyped, LoadFrame
  <1> QED BY <1>4, <1>5

(* LoadInv, when a request is aborted.                                       *)
LEMMA AbortLoad ==
    ASSUME Base, TableInv, LoadInv, NEW r \in Reqs, Abort(r) PROVE LoadInv'
  <1>1. /\ st[r] \in {"waiting", "preempted", "remote", "running"}
        /\ st'[r] = "finished" /\ \A q \in Reqs : q # r => st'[q] = st[q]
        /\ \A q \in Reqs : trk'[q] = IF q = r THEN NoTracker ELSE trk[q]
        /\ recvDone' = recvDone \ {r} /\ recvFailed' = recvFailed \ {r}
        /\ seen' = IF Loading(r) THEN seen \cup {"stray"} ELSE seen
        /\ UNCHANGED <<workVars, computed, blockVars, pipe>>
    BY AbortBase
  <1>2. /\ loading' = loading /\ dma' = dma /\ computed' = computed
        /\ dropped' = dropped /\ errs' = errs /\ prevFin' = prevFin /\ stores' = stores /\ pipe' = pipe
        /\ table' = table /\ content' = content
    BY <1>1 DEF workVars, blockVars
  <1> SUFFICES ASSUME Clean', NEW q \in Reqs PROVE LoadOf(q)' BY DEF LoadInv
  <1>3. LoadOf(q) /\ ~Loading(r) BY <1>1 DEF LoadInv, Clean
  <1>4. CASE q = r
    <2>1. r \notin loading /\ NoRetr(r) BY <1>3 DEF Loading, NoRetr, InRetr
    <2>2. r \notin recvDone' /\ r \notin recvFailed' BY <1>1
    <2>3. WantOf(q)' BY <1>1, <1>4 DEF WantOf
    <2>4. RetrOf(q)' BY <1>2, <1>4, <2>1 DEF RetrOf, NoRetr, InRetr
    <2>5. LoadingOf(q)' BY <1>2, <1>4, <2>1 DEF LoadingOf
    <2>6. DroppedOf(q)' BY <1>1, <1>2, <1>3, <1>4, <2>2 DEF LoadOf, DroppedOf, Unrun, NoRecv
    <2>7. RecvOf(q)' BY <1>1, <1>2, <1>3, <1>4, <2>2 DEF LoadOf, RecvOf, Unrun, NoRecv, GoodT
    <2>8. CameOf(q)' BY <1>4, <2>2 DEF CameOf
    <2> QED BY <2>3, <2>4, <2>5, <2>6, <2>7, <2>8 DEF LoadOf
  <1>5. CASE q # r
    <2>1. st'[q] = st[q] /\ trk'[q] = trk[q] BY <1>1, <1>5
    <2>2. (q \in recvDone' <=> q \in recvDone) /\ (q \in recvFailed' <=> q \in recvFailed) BY <1>1, <1>5
    <2> QED BY <1>2, <1>3, <2>1, <2>2, LoadTyped, LoadFrame
  <1> QED BY <1>4, <1>5

(* A request that is admitted to load asks for the load of all its blocks.  *)
LEMMA LoadLoad ==
    ASSUME CacheAssumption, EngineAssumption, Base, TableInv, TrkInv, LoadInv, NEW base \in Nat,
           AdmittedAs(base, TRUE)
    PROVE LoadInv'
  <1>0. PICK r \in Reqs : r = Head1 BY LoadIs
  <1>1. /\ st[r] = "waiting" /\ st'[r] = "remote" /\ computed[r] = 0 /\ computed'[r] = base /\ base > 0
        /\ \A q \in Reqs : q # r => /\ st'[q] = st[q] /\ computed'[q] = computed[q]
                                    /\ table'[q] = table[q] /\ trk'[q] = trk[q]
        /\ trk'[r] = AfterAlloc(Noted(base), table'[r])
        /\ Len(table'[r]) = Len(table[r]) + Missing(r, base)
        /\ \A b \in Blocks \ free : content'[b] = content[b]
        /\ UNCHANGED <<workVars, recvDone, recvFailed, pipe, seen>>
    BY <1>0, LoadIs
  <1>2. /\ loading' = loading /\ dma' = dma
        /\ dropped' = dropped /\ errs' = errs /\ prevFin' = prevFin /\ stores' = stores /\ pipe' = pipe
        /\ seen' = seen /\ recvDone' = recvDone /\ recvFailed' = recvFailed
    BY <1>1 DEF workVars
  <1> SUFFICES ASSUME Clean', NEW q \in Reqs PROVE LoadOf(q)' BY DEF LoadInv
  <1>3. LoadOf(q) BY <1>2 DEF LoadInv, Clean
  <1>4. CASE q = r
    <2>1. Quiet(r) /\ TableOf(r) /\ TrkOf(r) BY <1>1, <1>3, <1>4, NotLoading DEF TableInv, TrkInv
    <2>2. Quiet(r)' BY <1>2, <2>1, QuietKept
    <2>3. trk[r].s # "waiting" BY <1>1, <1>3, <1>4 DEF LoadOf, WantOf
    <2> DEFINE t == Noted(base)  tab == table'[r]
    <2>4. /\ t \in TrackerT /\ t.s # "none" /\ t.hit = base
          /\ \/ t.s = trk[r].s /\ t.blocks = trk[r].blocks
             \/ trk[r].s = "none" /\ t.s = "prefetching" /\ t.blocks = << >>
      <3>1. /\ t \in TrackerT /\ t.s # "none"
            /\ \/ t.s = trk[r].s /\ t.blocks = trk[r].blocks
               \/ trk[r].s = "none" /\ t.s = "prefetching" /\ t.blocks = << >>
        BY <1>0, <1>1, NotedIs DEF Base, Types
      <3>2. base \notin {None, 0} BY <1>1 DEF CacheAssumption
      <3>3. t.hit = base BY <1>0, <1>1, <3>2, NotedIs DEF Base, Types
      <3> QED BY <3>1, <3>3
    <2>5. trk'[r] = AfterAlloc(t, tab) /\ tab \in Seq(Blocks)
      BY <1>1, LoadIs DEF Base, Types, BlockTypes
    <2> HIDE DEF t, tab
    <2>6. trk'[r].s = IF t.s # "prefetching" THEN t.s ELSE IF t.hit > 0 THEN "waiting" ELSE "ready"
      BY <2>4, <2>5, AfterAllocIs
    <2>7. CASE trk'[r].s # "waiting" BY <1>1, <1>4, <2>2, <2>7, QuietLoad
    <2>8. CASE trk'[r].s = "waiting"
      <3>1. t.s = "prefetching" BY <2>3, <2>4, <2>6, <2>8
      <3>2. trk[r].s \in {"none", "prefetching"} BY <2>4, <3>1
      <3>3. t.blocks = << >> BY <2>1, <2>4, <3>2 DEF TrkOf
      <3>4. table[r] = << >> BY <1>1, <2>1, <3>2 DEF TableOf
      <3>5. Len(table[r]) = 0 BY <3>4
      <3>6. Missing(r, base) = base BY <1>1, <3>5 DEF Missing
      <3>7. Len(tab) = base
        <4>1. Len(tab) = 0 + base BY <1>1, <3>5, <3>6 DEF tab
        <4> QED BY <4>1
      <3>8. trk'[r].blocks = tab
        <4>1. Len(t.blocks) <= Len(tab) /\ \A i \in DOMAIN t.blocks : tab[i] = t.blocks[i]
          <5>1. Len(t.blocks) = 0 /\ DOMAIN t.blocks = {} BY <3>3
          <5>2. Len(tab) >= 0 BY <3>7
          <5> QED BY <5>1, <5>2
        <4> QED BY <2>4, <2>5, <4>1, AfterAllocIs
      <3>9. trk'[r].hit = base BY <2>4, <2>5, AfterAllocIs
      <3>10. WantOf(r)' BY <1>1, <1>2, <2>2, <3>7, <3>8, <3>9 DEF WantOf, Quiet, tab
      <3>11. RetrOf(r)' BY <2>2 DEF RetrOf, Quiet, NoRetr
      <3>12. LoadingOf(r)' /\ DroppedOf(r)' /\ RecvOf(r)' /\ CameOf(r)'
        BY <2>2 DEF LoadingOf, DroppedOf, RecvOf, CameOf, Quiet, NoRecv
      <3> QED BY <1>4, <3>10, <3>11, <3>12 DEF LoadOf
    <2> QED BY <2>7, <2>8
  <1>5. CASE q # r
    <2>1. \A i \in DOMAIN table[q] : content'[table[q][i]] = content[table[q][i]] BY <1>1, LoadTyped
    <2>2. st'[q] = st[q] /\ computed'[q] = computed[q] /\ table'[q] = table[q] /\ trk'[q] = trk[q]
      BY <1>1, <1>5
    <2> QED BY <1>2, <1>3, <2>1, <2>2, LoadTyped, LoadFrame
  <1> QED BY <1>4, <1>5

(* A transfer that ends writes the blocks of its request and no other.      *)
LEMMA TransferEndsLoad ==
    ASSUME Base, TableInv, TrkInv, LoadInv, NEW r \in Reqs, TransferEnds(r) PROVE LoadInv'
  <1>1. /\ Aside /\ pipe' = pipe /\ seen' = seen /\ dma[r].s = "flying"
        /\ UNCHANGED <<loading, stores, prevFin, dropped, errs>>
        /\ \A q \in Reqs : q # r => dma'[q] = dma[q]
        /\ dma'[r].blocks = dma[r].blocks /\ dma'[r].s \in {"good", "bad"}
        /\ \A b \in Blocks : b \notin Ids(dma[r].blocks) => content'[b] = content[b]
        /\ dma'[r].s = "good" => content' = [b \in Blocks |->
              IF b \in Ids(dma[r].blocks)
              THEN <<r, CHOOSE i \in DOMAIN dma[r].blocks : dma[r].blocks[i] = b>>
              ELSE content[b]]
    BY TransferEndsAside DEF Base
  <1>2. /\ st' = st /\ computed' = computed /\ table' = table
        /\ recvDone' = recvDone /\ recvFailed' = recvFailed /\ trk' = trk
    BY <1>1 DEF Aside, SameReqs, SameBlocks, SameDone
  <1> SUFFICES ASSUME Clean', NEW q \in Reqs PROVE LoadOf(q)' BY DEF LoadInv
  <1>3. LoadOf(q) /\ LoadOf(r) BY <1>1 DEF LoadInv, Clean
  <1>4. r \in loading BY <1>1 DEF TrkInv, TrkOf
  <1>5. dma[r].blocks = table[r] /\ r \notin dropped \cup recvDone /\ NoRecv(r)
    BY <1>3, <1>4 DEF LoadOf, LoadingOf
  <1>6. CASE q = r
    <2>0. WantOf(q)' BY <1>1, <1>2, <1>3, <1>4, <1>6 DEF LoadOf, WantOf
    <2>1. RetrOf(q)' BY <1>1, <1>3, <1>4, <1>6 DEF LoadOf, RetrOf, InRetr
    <2>2. dma'[r].s = "good" => GoodT(r)'
      <3> SUFFICES ASSUME dma'[r].s = "good", NEW i \in DOMAIN table[r]
                   PROVE  content'[table[r][i]] = <<r, i>>
        BY <1>2 DEF GoodT
      <3>1. table[r][i] \in Blocks /\ IsInjective(table[r]) BY LoadTyped
      <3>2. table[r][i] \in Ids(table[r]) BY DEF Ids
      <3>3. content'[table[r][i]] = <<r, CHOOSE j \in DOMAIN table[r] : table[r][j] = table[r][i]>>
        BY <1>1, <1>5, <3>1, <3>2
      <3>4. (CHOOSE j \in DOMAIN table[r] : table[r][j] = table[r][i]) = i
        BY <3>1 DEF IsInjective
      <3> QED BY <3>3, <3>4
    <2>3. LoadingOf(q)' BY <1>1, <1>2, <1>3, <1>4, <1>6, <2>2 DEF LoadOf, LoadingOf, NoRecv
    <2>4. DroppedOf(q)' /\ RecvOf(q)' BY <1>1, <1>5, <1>6 DEF DroppedOf, RecvOf, NoRecv
    <2>5. CameOf(q)' BY <1>1, <1>2, <1>3, <1>5, <1>6 DEF LoadOf, CameOf
    <2> QED BY <2>0, <2>1, <2>3, <2>4, <2>5 DEF LoadOf
  <1>7. CASE q # r
    <2>1. ASSUME NEW i \in DOMAIN table[q] PROVE content'[table[q][i]] = content[table[q][i]]
      <3>1. table[q][i] \in Blocks /\ table[q][i] \in Range(table[q]) BY LoadTyped
      <3>2. Range(table[q]) \cap Range(table[r]) = {} BY <1>7 DEF Base, BlockInv, Partition
      <3>3. table[q][i] \notin Ids(dma[r].blocks) BY <1>5, <3>1, <3>2 DEF Ids, Range
      <3> QED BY <1>1, <3>1, <3>3
    <2>2. dma'[q] = dma[q] BY <1>1, <1>7
    <2> QED BY <1>1, <1>2, <1>3, <2>1, <2>2, LoadTyped, LoadFrame
  <1> QED BY <1>6, <1>7

(* The metadata of a step asks for the loads of the requests that wait for  *)
(* them, and for no other unless one is stray.                              *)
LEMMA FinishScheduleLoad ==
    ASSUME CacheAssumption, EngineAssumption, Base, TableInv, LoadInv, FinishSchedule PROVE LoadInv'
  <1>1. /\ DOMAIN pipe' = 1..Len(pipe) + 1 /\ DOMAIN pipe = 1..Len(pipe)
        /\ \A k \in DOMAIN pipe : pipe'[k] = pipe[k]
        /\ pipe'[Len(pipe) + 1] = NewStep
        /\ computed' = [r \in Reqs |-> computed[r] + cur.n[r]]
        /\ seen' = IF \E o \in Retrieves : st[o.req] # "remote" THEN seen \cup {"stray"} ELSE seen
        /\ UNCHANGED <<workVars, st, blockVars, recvDone, recvFailed>>
    BY FinishScheduleIs
  <1>2. /\ loading' = loading /\ dma' = dma /\ dropped' = dropped /\ errs' = errs /\ prevFin' = prevFin
        /\ stores' = stores /\ table' = table /\ content' = content
        /\ st' = st /\ recvDone' = recvDone /\ recvFailed' = recvFailed
    BY <1>1 DEF workVars, blockVars
  <1>3. /\ NewStep.n = cur.n /\ NewStep.retr = Retrieves /\ NewStep.exec = "no" /\ NewStep.recv = {}
        /\ NewStep.send = {} /\ NewStep.bad = {}
    BY NewStepIs DEF Base
  <1>0. PICK z \in Nat : z = Len(pipe) + 1 BY PipeIs DEF Base, Types
  <1>4. DOMAIN pipe' = DOMAIN pipe \cup {z} /\ z \notin DOMAIN pipe /\ pipe'[z] = NewStep
        /\ \A k \in DOMAIN pipe : k < z
    <2>1. Len(pipe) \in Nat BY PipeIs DEF Base, Types
    <2> QED BY <1>0, <1>1, <2>1
  <1>5. DOMAIN pipe \subseteq Nat BY <1>1, PipeIs DEF Base, Types
  <1> SUFFICES ASSUME Clean', NEW r \in Reqs PROVE LoadOf(r)' BY DEF LoadInv
  <1>6. LoadOf(r) /\ \A o \in Retrieves : st[o.req] = "remote" BY <1>1 DEF LoadInv, Clean
  <1>7. /\ trk[r] \in TrackerT /\ cur.n[r] \in Nat
        /\ trk'[r].s = IF trk[r].s = "waiting" THEN "ready" ELSE trk[r].s
    BY ScheduledTrk
  <1>8. cur.n[r] > 0 => st[r] = "running" BY CurOf DEF Base
  <1>9. st[r] # "running" => cur.n[r] = 0 /\ computed'[r] = computed[r]
    BY <1>1, <1>7, <1>8 DEF Base, Types, ReqTypes
  <1>10. NoRecv(r)' <=> NoRecv(r) BY <1>1, <1>3, <1>4 DEF NoRecv
  <1>11. \A k \in DOMAIN pipe : InRetr(r, k)' <=> InRetr(r, k) BY <1>1 DEF InRetr
  <1>12. InRetr(r, z)' => trk[r].s = "waiting" /\ st[r] = "remote"
                         /\ \A o \in Retrieves : o.req = r => o.blocks = SubSeq(trk[r].blocks, 1, trk[r].hit)
    BY <1>3, <1>4, <1>6, RetrievesAre DEF InRetr, Base, Types
  <1>13. InRetr(r, z)' => /\ r \notin loading \cup dropped \cup recvDone /\ NoRecv(r) /\ NoRetr(r)
                          /\ computed[r] = Len(table[r])
                          /\ \A o \in Retrieves : o.req = r => o.blocks = table[r]
    <2> SUFFICES ASSUME InRetr(r, z)'
                 PROVE  /\ r \notin loading \cup dropped \cup recvDone /\ NoRecv(r) /\ NoRetr(r)
                        /\ computed[r] = Len(table[r])
                        /\ SubSeq(trk[r].blocks, 1, trk[r].hit) = table[r]
      BY <1>12
    <2>1. /\ trk[r].blocks = table[r] /\ trk[r].hit = computed[r] /\ computed[r] = Len(table[r])
          /\ r \notin loading \cup dropped \cup recvDone /\ NoRecv(r) /\ NoRetr(r)
      BY <1>6, <1>12 DEF LoadOf, WantOf
    <2>2. table[r] \in Seq(Blocks) BY LoadTyped
    <2>3. SubSeq(table[r], 1, Len(table[r])) = table[r] BY <2>2, SubSeqFull
    <2> QED BY <2>1, <2>3
  <1>14. WantOf(r)' BY <1>7 DEF WantOf
  <1>15. RetrOf(r)'
    <2> SUFFICES ASSUME NEW i \in DOMAIN pipe', InRetr(r, i)'
                 PROVE  /\ st[r] = "remote" /\ \A o \in pipe'[i].retr : o.req = r => o.blocks = table[r]
                        /\ computed'[r] = Len(table[r])
                        /\ r \notin loading \cup dropped \cup recvDone /\ NoRecv(r)
                        /\ \A j \in DOMAIN pipe' : j # i => ~InRetr(r, j)'
      BY <1>2, <1>10 DEF RetrOf
    <2>1. CASE i \in DOMAIN pipe
      <3>1. InRetr(r, i) BY <1>11, <2>1
      <3>2. /\ st[r] = "remote" /\ \A o \in pipe[i].retr : o.req = r => o.blocks = table[r]
            /\ computed[r] = Len(table[r])
            /\ r \notin loading \cup dropped \cup recvDone /\ NoRecv(r)
            /\ \A j \in DOMAIN pipe : j # i => ~InRetr(r, j)
        BY <1>6, <2>1, <3>1 DEF LoadOf, RetrOf
      <3>3. ~InRetr(r, z)' BY <1>13, <2>1, <3>1 DEF NoRetr
      <3> QED BY <1>1, <1>4, <1>9, <1>11, <2>1, <3>2, <3>3
    <2>2. CASE i = z
      <3>1. /\ st[r] = "remote" /\ r \notin loading \cup dropped \cup recvDone /\ NoRecv(r) /\ NoRetr(r)
            /\ computed[r] = Len(table[r])
            /\ \A o \in Retrieves : o.req = r => o.blocks = table[r]
        BY <1>12, <1>13, <2>2
      <3> QED BY <1>3, <1>4, <1>9, <1>11, <2>2, <3>1 DEF NoRetr
    <2> QED BY <1>4, <2>1, <2>2
  <1>16. LoadingOf(r)' BY <1>2, <1>6, <1>9, <1>10 DEF LoadOf, LoadingOf, GoodT
  <1>17. DroppedOf(r)'
    <2> SUFFICES ASSUME r \in dropped PROVE DroppedOf(r)' BY <1>2 DEF DroppedOf
    <2>1. /\ st[r] \in {"remote", "finished"} /\ Range(table[r]) \subseteq errs
          /\ computed[r] = Len(table[r])
          /\ Unrun(r) /\ r \notin recvDone /\ NoRecv(r) /\ r \notin prevFin
          /\ \A i \in DOMAIN pipe : pipe[i].exec # "no" => r \notin pipe[i].fin \cup pipe[i].send
      BY <1>6 DEF LoadOf, DroppedOf
    <2>2. Unrun(r)' BY <1>1, <1>2, <1>3, <1>4, <1>9, <2>1 DEF Unrun
    <2> QED BY <1>1, <1>2, <1>3, <1>4, <1>9, <1>10, <2>1, <2>2 DEF DroppedOf
  <1>18. RecvOf(r)'
    <2> SUFFICES ASSUME NEW i \in DOMAIN pipe', r \in pipe'[i].recv
                 PROVE  /\ st[r] \in {"remote", "finished"} /\ Unrun(r)' /\ computed'[r] = Len(table[r])
                        /\ r \notin recvDone /\ \A j \in DOMAIN pipe' : j # i => r \notin pipe'[j].recv
                        /\ \A j \in DOMAIN pipe' : j <= i => r \notin pipe'[j].send
                        /\ \/ GoodT(r)' /\ Range(table[r]) \cap pipe'[i].bad = {}
                           \/ Range(table[r]) \subseteq pipe'[i].bad
      BY <1>2 DEF RecvOf
    <2>1. i \in DOMAIN pipe /\ r \in pipe[i].recv BY <1>1, <1>3, <1>4
    <2>2. /\ st[r] \in {"remote", "finished"} /\ Unrun(r) /\ computed[r] = Len(table[r])
          /\ r \notin recvDone /\ \A j \in DOMAIN pipe : j # i => r \notin pipe[j].recv
          /\ \A j \in DOMAIN pipe : j <= i => r \notin pipe[j].send
          /\ \/ GoodT(r) /\ Range(table[r]) \cap pipe[i].bad = {}
             \/ Range(table[r]) \subseteq pipe[i].bad
      BY <1>6, <2>1 DEF LoadOf, RecvOf
    <2>3. Unrun(r)' BY <1>1, <1>2, <1>3, <1>4, <1>9, <2>2 DEF Unrun
    <2>4. GoodT(r)' <=> GoodT(r) BY <1>2 DEF GoodT
    <2> QED BY <1>1, <1>3, <1>4, <1>9, <2>1, <2>2, <2>3, <2>4
  <1>19. CameOf(r)'
    <2>1. r \in recvDone => st[r] = "remote" BY LoadTyped
    <2> QED BY <1>2, <1>6, <1>9, <2>1 DEF LoadOf, CameOf
  <1> QED BY <1>14, <1>15, <1>16, <1>17, <1>18, <1>19 DEF LoadOf

(* No load was refused before the first step that is not done is begun.     *)
LEMMA NoneDropped ==
    ASSUME Base, BadInv, NEW k \in DOMAIN pipe, pipe[k].exec = "no",
           \A i \in DOMAIN pipe : i < k => pipe[i].exec = "done"
    PROVE  dropped = {} /\ errs = {}
  <1>1. \A j \in DOMAIN pipe : j > k => pipe[j].exec = "no" BY DEF Base, StepInv
  <1>2. \A j \in DOMAIN pipe : j < k \/ j = k \/ j > k BY PipeIs DEF Base, Types
  <1>3. ~ \E i \in DOMAIN pipe : pipe[i].exec = "loaded" BY <1>1, <1>2
  <1> QED BY <1>3 DEF BadInv

(* A request that never ran is in no step and has no store.                 *)
LEMMA RemoteUnrun ==
    ASSUME Base, PlaceInv, NEW r \in Reqs, st[r] \in Fresher
    PROVE  Unrun(r)
  <1>1. r \notin stores BY DEF PlaceInv, PlaceOf
  <1>2. \A i \in DOMAIN pipe : ~(pipe[i].n[r] > 0) BY DEF Base, StepInv
  <1>3. \A i \in DOMAIN pipe : pipe[i].n[r] \in Nat BY PipeIs, StepFields DEF Base, Types
  <1> QED BY <1>1, <1>2, <1>3 DEF Unrun

(* A load is begun for the requests that wait for it, or refused for them.  *)
LEMMA StartStepLoad ==
    ASSUME Base, PlaceInv, TableInv, LoadInv, BadInv, FinInv, StartStep PROVE LoadInv'
  <1>0. PICK k \in DOMAIN pipe : k = At BY StartStepIs DEF Base
  <1>1. /\ pipe[k] \in StepT /\ pipe[k].exec = "no"
        /\ \A i \in DOMAIN pipe : i < k => pipe[i].exec = "done"
        /\ \A j \in DOMAIN pipe : j # k => pipe'[j] = pipe[j]
        /\ pipe'[k].exec = "loaded" /\ pipe'[k].recv = pipe[k].recv
        /\ pipe'[k].send = pipe[k].send /\ pipe'[k].bad = pipe[k].bad
        /\ StartLoads(pipe[k].retr) /\ SameShape
        /\ UNCHANGED <<blockVars, seen>>
    BY <1>0, StartStepIs DEF Base
  <1>2. Aside BY StartStepAside DEF Base
  <1>3. /\ st' = st /\ computed' = computed /\ table' = table /\ content' = content /\ seen' = seen
        /\ recvDone' = recvDone /\ recvFailed' = recvFailed /\ trk' = trk
        /\ stores' = stores /\ prevFin' = prevFin
    BY <1>1, <1>2 DEF Aside, SameReqs, SameBlocks, SameDone, StartLoads, blockVars
  <1>4. DOMAIN pipe' = DOMAIN pipe
        /\ \A i \in DOMAIN pipe : /\ pipe'[i].n = pipe[i].n /\ pipe'[i].fin = pipe[i].fin
                                  /\ pipe'[i].retr = pipe[i].retr /\ pipe'[i].recv = pipe[i].recv
                                  /\ pipe'[i].send = pipe[i].send /\ pipe'[i].bad = pipe[i].bad
    BY <1>1 DEF SameShape
  <1>5. dropped = {} /\ errs = {} BY <1>1, NoneDropped
  <1> SUFFICES ASSUME Clean', NEW r \in Reqs PROVE LoadOf(r)' BY DEF LoadInv
  <1>6. LoadOf(r) BY <1>3 DEF LoadInv, Clean
  <1>7. (NoRecv(r)' <=> NoRecv(r)) /\ (Unrun(r)' <=> Unrun(r)) /\ (GoodT(r)' <=> GoodT(r))
    BY <1>3, <1>4 DEF NoRecv, Unrun, GoodT
  <1>8. \A i \in DOMAIN pipe : InRetr(r, i)' <=> i # k /\ InRetr(r, i) BY <1>1 DEF InRetr
  <1> DEFINE mine == \E o \in pipe[k].retr : o.req = r
  <1>9. InRetr(r, k) <=> mine BY <1>1 DEF InRetr
  <1>10. mine => /\ st[r] = "remote" /\ \A o \in pipe[k].retr : o.req = r => o.blocks = table[r]
                 /\ computed[r] = Len(table[r])
                 /\ r \notin loading \cup recvDone /\ NoRecv(r)
                 /\ \A j \in DOMAIN pipe : j # k => ~InRetr(r, j)
    BY <1>6, <1>9 DEF LoadOf, RetrOf
  <1>11. /\ r \in loading' <=> r \in loading \/ (health /\ mine)
         /\ r \in dropped' <=> ~health /\ mine
         /\ health /\ mine => dma'[r].s = "flying" /\ dma'[r].blocks = table[r]
         /\ ~(health /\ mine) => dma'[r] = dma[r]
         /\ ~health /\ mine => Range(table[r]) \subseteq errs'
    <2>1. CASE health
      <3>1. Submitted(pipe[k].retr) /\ dropped' = dropped BY <1>1, <2>1 DEF StartLoads
      <3>2. loading' = loading \cup {o.req : o \in pipe[k].retr} /\ dma' = [q \in Reqs |->
               IF \E o \in pipe[k].retr : o.req = q
               THEN [s |-> "flying", blocks |-> (CHOOSE o \in pipe[k].retr : o.req = q).blocks] ELSE dma[q]]
        BY <3>1 DEF Submitted
      <3>3. mine => dma'[r] = [s |-> "flying", blocks |-> (CHOOSE o \in pipe[k].retr : o.req = r).blocks]
        BY <3>2
      <3>4. mine => (CHOOSE o \in pipe[k].retr : o.req = r).blocks = table[r]
        <4> SUFFICES ASSUME mine PROVE (CHOOSE o \in pipe[k].retr : o.req = r).blocks = table[r] OBVIOUS
        <4>1. PICK o \in pipe[k].retr : o = CHOOSE x \in pipe[k].retr : x.req = r OBVIOUS
        <4>2. o.req = r BY <4>1
        <4> QED BY <1>10, <4>1, <4>2
      <3>5. ~mine => dma'[r] = dma[r] BY <3>2
      <3> QED BY <1>5, <2>1, <3>1, <3>2, <3>3, <3>4, <3>5
    <2>2. CASE ~health
      <3>1. /\ dropped' = dropped \cup {o.req : o \in pipe[k].retr}
            /\ errs' = errs \cup UNION {Ids(o.blocks) : o \in pipe[k].retr}
            /\ loading' = loading /\ dma' = dma
        BY <1>1, <2>2 DEF StartLoads
      <3>2. mine => Range(table[r]) \subseteq errs'
        <4> SUFFICES ASSUME mine PROVE Range(table[r]) \subseteq errs' OBVIOUS
        <4>1. PICK o \in pipe[k].retr : o.req = r OBVIOUS
        <4>2. Ids(o.blocks) \subseteq errs' BY <3>1
        <4>3. o.blocks = table[r] BY <1>10, <4>1
        <4> QED BY <4>2, <4>3 DEF Ids, Range
      <3> QED BY <1>5, <2>2, <3>1, <3>2
    <2> QED BY <2>1, <2>2
  <1> HIDE DEF mine
  <1>12. WantOf(r)'
    <2>1. st[r] = "remote" /\ trk[r].s = "waiting" => NoRetr(r) BY <1>6 DEF LoadOf, WantOf
    <2>2. NoRetr(r) => ~mine /\ NoRetr(r)' BY <1>4, <1>8, <1>9 DEF NoRetr
    <2> QED BY <1>3, <1>5, <1>6, <1>7, <1>11, <2>1, <2>2 DEF LoadOf, WantOf
  <1>13. RetrOf(r)'
    <2> SUFFICES ASSUME NEW i \in DOMAIN pipe, i # k, InRetr(r, i)
                 PROVE  /\ st[r] = "remote" /\ \A o \in pipe[i].retr : o.req = r => o.blocks = table[r]
                        /\ computed[r] = Len(table[r])
                        /\ r \notin loading' \cup dropped' \cup recvDone /\ NoRecv(r)
                        /\ \A j \in DOMAIN pipe : j # i => ~InRetr(r, j)
      BY <1>3, <1>4, <1>7, <1>8 DEF RetrOf
    <2>1. /\ st[r] = "remote" /\ \A o \in pipe[i].retr : o.req = r => o.blocks = table[r]
          /\ computed[r] = Len(table[r])
          /\ r \notin loading \cup dropped \cup recvDone /\ NoRecv(r)
          /\ \A j \in DOMAIN pipe : j # i => ~InRetr(r, j)
      BY <1>6 DEF LoadOf, RetrOf
    <2>2. ~mine BY <1>9, <2>1
    <2> QED BY <1>11, <2>1, <2>2
  <1>14. LoadingOf(r)'
    <2>1. CASE mine BY <1>3, <1>5, <1>7, <1>10, <1>11, <2>1, <1>6 DEF LoadOf, LoadingOf
    <2>2. CASE ~mine BY <1>3, <1>5, <1>6, <1>7, <1>11, <2>2 DEF LoadOf, LoadingOf
    <2> QED BY <2>1, <2>2
  <1>15. DroppedOf(r)'
    <2> SUFFICES ASSUME ~health, mine PROVE DroppedOf(r)' BY <1>11 DEF DroppedOf
    <2>1. st[r] \in Fresher /\ st[r] \notin Over BY <1>10 DEF Fresher, Over
    <2>2. Unrun(r) BY <2>1, RemoteUnrun
    <2>3. r \notin prevFin /\ \A i \in DOMAIN pipe : r \notin pipe[i].fin \cup pipe[i].send
      BY <2>1 DEF FinInv
    <2> QED BY <1>3, <1>4, <1>7, <1>10, <1>11, <2>2, <2>3 DEF DroppedOf
  <1>16. RecvOf(r)' BY <1>3, <1>4, <1>6, <1>7 DEF LoadOf, RecvOf
  <1>17. CameOf(r)' BY <1>3, <1>6 DEF LoadOf, CameOf
  <1> QED BY <1>12, <1>13, <1>14, <1>15, <1>16, <1>17 DEF LoadOf

(* What a step writes belongs to a request that the step computes.          *)
LEMMA WritesApart ==
    ASSUME Base, NEW k \in DOMAIN pipe, NEW r \in Reqs, pipe[k].n[r] = 0, NEW w \in pipe[k].writes
    PROVE  w.block \notin Range(table[r])
  <1>1. pipe[k].n[w.kv[1]] > 0 /\ InPlace(w, k) BY DEF Base, StepInv
  <1>2. w.kv[1] \in Reqs BY PipeIs, StepFields, WriteFields DEF Base, Types
  <1>3. w.kv[1] # r BY <1>1
  <1>4. CASE w.kv[2] \in DOMAIN table[w.kv[1]] /\ table[w.kv[1]][w.kv[2]] = w.block
    <2>1. w.block \in Range(table[w.kv[1]]) BY <1>4 DEF Range
    <2> QED BY <1>2, <1>3, <2>1 DEF Base, BlockInv, Partition
  <1>5. CASE \E d \in deferred : w.block \in d.blocks
    BY <1>5 DEF Base, BlockInv, Partition
  <1> QED BY <1>1, <1>4, <1>5 DEF InPlace

(* A step that runs leaves alone what the requests it does not compute hold.*)
LEMMA ExecuteKeeps ==
    ASSUME Base, TableInv, NEW over, Execute(over), NEW r \in Reqs, pipe[At].n[r] = 0
    PROVE  \A i \in DOMAIN table[r] : content'[table[r][i]] = content[table[r][i]]
  <1>0. PICK k \in DOMAIN pipe : k = At BY ExecuteIs DEF Base
  <1>1. content' = [b \in Blocks |->
           IF \E w \in pipe[k].writes : w.block = b
           THEN (CHOOSE w \in pipe[k].writes : w.block = b).kv ELSE content[b]]
    BY <1>0, ExecuteIs DEF Base
  <1> SUFFICES ASSUME NEW i \in DOMAIN table[r] PROVE content'[table[r][i]] = content[table[r][i]]
    OBVIOUS
  <1>2. table[r][i] \in Blocks /\ table[r][i] \in Range(table[r]) BY LoadTyped
  <1>3. ~ \E w \in pipe[k].writes : w.block = table[r][i] BY <1>0, <1>2, WritesApart
  <1> QED BY <1>1, <1>2, <1>3

(* What the step that runs reports of a request: it came, well or flagged.  *)
LEMMA CameIs ==
    ASSUME Base, PlaceInv, TableInv, TrkInv, LoadInv, BadInv, FinInv, Clean, Working,
           NEW r \in Reqs, r \in Came
    PROVE  /\ st[r] \in {"remote", "finished"} /\ Unrun(r) /\ computed[r] = Len(table[r])
           /\ r \notin recvDone /\ NoRecv(r)
           /\ \/ GoodT(r) /\ Range(table[r]) \cap Flagged = {}
              \/ Range(table[r]) \subseteq Flagged
           /\ \A i \in DOMAIN pipe : pipe[i].exec # "no" => r \notin pipe[i].send \cup pipe[i].fin
           /\ r \notin prevFin
  <1>1. LoadOf(r) BY DEF LoadInv
  <1>2. CASE r \in dropped
    <2>1. Range(table[r]) \subseteq errs BY <1>1, <1>2 DEF LoadOf, DroppedOf
    <2>2. Range(table[r]) \subseteq Flagged BY <2>1 DEF Flagged
    <2> QED BY <1>1, <1>2, <2>2 DEF LoadOf, DroppedOf
  <1>3. CASE r \notin dropped
    <2>1. health /\ r \in loading /\ dma[r].s # "flying" BY <1>3 DEF Came, Ended
    <2>2. /\ st[r] = "remote" /\ dma[r].blocks = table[r] /\ computed[r] = Len(table[r])
          /\ r \notin recvDone /\ NoRecv(r)
          /\ dma[r].s = "good" => GoodT(r)
      BY <1>1, <2>1 DEF LoadOf, LoadingOf
    <2>3. Unrun(r) BY <2>2, RemoteUnrun DEF Fresher
    <2>4. r \notin prevFin /\ \A i \in DOMAIN pipe : r \notin pipe[i].fin \cup pipe[i].send
      BY <2>2 DEF FinInv, Over
    <2>5. dma[r].s \in {"good", "bad"}
      <3>1. dma[r] \in LoadT BY DEF Base, Types, WorkTypes
      <3>2. dma[r].s # "none" BY <2>1 DEF TrkInv, TrkOf
      <3> QED BY <2>1, <3>1, <3>2, LoadFields
    <2>6. CASE dma[r].s = "bad"
      <3>1. Ids(dma[r].blocks) \subseteq Flagged BY <2>1, <2>6 DEF Flagged, Ended
      <3>2. Range(table[r]) \subseteq Flagged BY <2>2, <3>1 DEF Ids, Range
      <3> QED BY <2>2, <2>3, <2>4, <3>2
    <2>7. CASE dma[r].s = "good"
      <3>1. Range(table[r]) \cap Flagged = {}
        <4> SUFFICES ASSUME NEW b \in Flagged PROVE b \notin Range(table[r]) OBVIOUS
        <4>1. CASE b \in errs
          <5>1. PICK q \in dropped : b \in Range(table[q]) BY <4>1 DEF BadInv, Held
          <5>2. q # r /\ q \in Reqs BY <1>3, <5>1 DEF Base, Types, WorkTypes
          <5> QED BY <5>1, <5>2 DEF Base, BlockInv, Partition
        <4>2. CASE b \in UNION {Ids(dma[q].blocks) : q \in {p \in Ended : dma[p].s = "bad"}}
          <5>1. PICK q \in Ended : dma[q].s = "bad" /\ b \in Ids(dma[q].blocks) BY <4>2
          <5>2. q # r /\ q \in loading /\ q \in Reqs BY <2>7, <5>1 DEF Ended, Base, Types, WorkTypes
          <5>3. dma[q].blocks = table[q] BY <5>2 DEF LoadInv, LoadOf, LoadingOf
          <5>4. b \in Range(table[q]) BY <5>1, <5>3 DEF Ids, Range
          <5> QED BY <5>2, <5>4 DEF Base, BlockInv, Partition
        <4> QED BY <4>1, <4>2 DEF Flagged
      <3> QED BY <2>2, <2>3, <2>4, <2>7, <3>1
    <2> QED BY <2>5, <2>6, <2>7
  <1> QED BY <1>2, <1>3

(* A step that runs reports the loads that ended, each once.                *)
LEMMA ExecuteLoad ==
    ASSUME Base, PlaceInv, TableInv, TrkInv, LoadInv, BadInv, FinInv, NEW over, Execute(over)
    PROVE LoadInv'
  <1>0. PICK k \in DOMAIN pipe : k = At BY ExecuteIs DEF Base
  <1>1. /\ pipe[k] \in StepT /\ pipe[k].exec # "done"
        /\ \A i \in DOMAIN pipe : i < k => pipe[i].exec = "done"
        /\ pipe[k].exec = "loaded" \/ pipe[k].retr = {}
        /\ SameShape /\ \A j \in DOMAIN pipe : j # k => pipe'[j] = pipe[j]
        /\ pipe'[k].exec = "done" /\ pipe'[k].recv = Came /\ pipe'[k].bad = Flagged
        /\ errs' = {} /\ dropped' = {} /\ health' = health
        /\ stores' \subseteq stores \cup Stored
        /\ ~health => stores' = {} /\ loading = {} /\ loading' = loading /\ dma' = dma
        /\ health => /\ loading' = loading \ Ended
                     /\ dma' = [r \in Reqs |-> IF r \in Ended THEN NoLoad ELSE dma[r]]
        /\ pipe'[k].send \subseteq prevFin \cup pipe[k].fin
        /\ seen \subseteq seen'
        /\ trk' = trk
    BY <1>0, ExecuteIs DEF Base
  <1>2. Aside BY ExecuteAside DEF Base
  <1>3. /\ st' = st /\ computed' = computed /\ table' = table
        /\ recvDone' = recvDone /\ recvFailed' = recvFailed
    BY <1>2 DEF Aside, SameReqs, SameBlocks, SameDone
  <1>4. DOMAIN pipe' = DOMAIN pipe
        /\ \A i \in DOMAIN pipe : /\ pipe'[i].n = pipe[i].n /\ pipe'[i].fin = pipe[i].fin
                                  /\ pipe'[i].retr = pipe[i].retr
    BY <1>1 DEF SameShape
  <1>5. Working BY DEF Execute
  <1>6. pipe[k].exec = "no" => dropped = {} BY <1>1, NoneDropped
  <1>7. \A i \in DOMAIN pipe : pipe[i].recv # {} => i < k
    <2>1. \A i \in DOMAIN pipe : pipe[i].recv # {} => pipe[i].exec = "done" BY DEF Base, StepInv
    <2>2. \A j \in DOMAIN pipe : j > k => pipe[j].exec = "no" BY <1>1 DEF Base, StepInv
    <2>3. \A i \in DOMAIN pipe : i < k \/ i = k \/ i > k BY PipeIs DEF Base, Types
    <2> QED BY <1>1, <2>1, <2>2, <2>3
  <1> SUFFICES ASSUME Clean', NEW r \in Reqs PROVE LoadOf(r)' BY DEF LoadInv
  <1>8. Clean /\ LoadOf(r) BY <1>1, CleanOf DEF LoadInv
  <1>9. \A i \in DOMAIN pipe : InRetr(r, i)' <=> i # k /\ InRetr(r, i)
    <2>1. \A i \in DOMAIN pipe : i # k => (InRetr(r, i)' <=> InRetr(r, i)) BY <1>1 DEF InRetr
    <2>2. ~InRetr(r, k)' BY <1>1 DEF InRetr
    <2> QED BY <2>1, <2>2
  <1>10. r \notin Came => (NoRecv(r) => NoRecv(r)') BY <1>1, <1>4 DEF NoRecv
  <1>11. pipe[k].n[r] = 0 => /\ \A i \in DOMAIN table[r] : content'[table[r][i]] = content[table[r][i]]
                             /\ GoodT(r) => GoodT(r)'
    <2> SUFFICES ASSUME pipe[k].n[r] = 0
                 PROVE  /\ \A i \in DOMAIN table[r] : content'[table[r][i]] = content[table[r][i]]
                        /\ GoodT(r) => GoodT(r)'
      OBVIOUS
    <2>1. \A i \in DOMAIN table[r] : content'[table[r][i]] = content[table[r][i]]
      BY <1>0, ExecuteKeeps
    <2> QED BY <1>3, <2>1 DEF GoodT
  <1>12. Unrun(r) => Unrun(r)'
    <2> SUFFICES ASSUME Unrun(r) PROVE Unrun(r)' OBVIOUS
    <2>1. r \notin stores /\ \A i \in DOMAIN pipe : pipe[i].n[r] = 0 BY DEF Unrun
    <2>2. r \notin Stored
      <3> SUFFICES ASSUME r \in Stored PROVE FALSE OBVIOUS
      <3>1. PICK p \in pipe[k].puts : r = p.kv[1] BY <1>0 DEF Stored
      <3>2. pipe[k].n[p.kv[1]] > 0 BY DEF Base, StepInv
      <3> QED BY <2>1, <3>1, <3>2
    <2> QED BY <1>1, <1>4, <2>1, <2>2 DEF Unrun
  <1>13. r \in loading' => r \in loading /\ r \notin Ended /\ dma'[r] = dma[r] /\ health BY <1>1
  <1>14. WantOf(r)'
    <2>1. st[r] = "remote" /\ trk[r].s = "waiting" =>
             r \notin loading \cup dropped /\ NoRecv(r) /\ NoRetr(r)
      BY <1>8 DEF LoadOf, WantOf
    <2>2. r \notin loading \cup dropped => r \notin Came BY DEF Came, Ended
    <2>3. NoRetr(r) => NoRetr(r)' BY <1>4, <1>9 DEF NoRetr
    <2> QED BY <1>1, <1>3, <1>8, <1>10, <1>13, <2>1, <2>2, <2>3 DEF LoadOf, WantOf
  <1>15. RetrOf(r)'
    <2> SUFFICES ASSUME NEW i \in DOMAIN pipe, i # k, InRetr(r, i)
                 PROVE  /\ st[r] = "remote" /\ \A o \in pipe[i].retr : o.req = r => o.blocks = table[r]
                        /\ computed[r] = Len(table[r])
                        /\ r \notin loading' \cup dropped' \cup recvDone /\ NoRecv(r)'
                        /\ \A j \in DOMAIN pipe : j # i => ~InRetr(r, j)
      BY <1>3, <1>4, <1>9 DEF RetrOf
    <2>1. /\ st[r] = "remote" /\ \A o \in pipe[i].retr : o.req = r => o.blocks = table[r]
          /\ computed[r] = Len(table[r])
          /\ r \notin loading \cup dropped \cup recvDone /\ NoRecv(r)
          /\ \A j \in DOMAIN pipe : j # i => ~InRetr(r, j)
      BY <1>8 DEF LoadOf, RetrOf
    <2>2. r \notin Came BY <2>1 DEF Came, Ended
    <2> QED BY <1>1, <1>10, <1>13, <2>1, <2>2
  <1>16. LoadingOf(r)'
    <2> SUFFICES ASSUME r \in loading' PROVE LoadingOf(r)' BY DEF LoadingOf
    <2>1. r \in loading /\ dma[r].s = "flying" /\ dma'[r] = dma[r] BY <1>13 DEF Ended
    <2>2. /\ st[r] = "remote" /\ dma[r].blocks = table[r] /\ computed[r] = Len(table[r])
          /\ r \notin dropped \cup recvDone /\ NoRecv(r)
      BY <1>8, <2>1 DEF LoadOf, LoadingOf
    <2>3. r \notin Came BY <1>13, <2>2 DEF Came
    <2>4. NoRecv(r)' BY <1>10, <2>2, <2>3
    <2> QED BY <1>1, <1>3, <2>1, <2>2, <2>4 DEF LoadingOf
  <1>17. DroppedOf(r)' BY <1>1 DEF DroppedOf
  <1>18. RecvOf(r)'
    <2> SUFFICES ASSUME NEW i \in DOMAIN pipe, r \in pipe'[i].recv
                 PROVE  /\ st[r] \in {"remote", "finished"} /\ Unrun(r)' /\ computed[r] = Len(table[r])
                        /\ r \notin recvDone /\ \A j \in DOMAIN pipe : j # i => r \notin pipe'[j].recv
                        /\ \A j \in DOMAIN pipe : j <= i => r \notin pipe'[j].send
                        /\ \/ GoodT(r)' /\ Range(table[r]) \cap pipe'[i].bad = {}
                           \/ Range(table[r]) \subseteq pipe'[i].bad
      BY <1>3, <1>4 DEF RecvOf
    <2>1. CASE i = k
      <3>1. r \in Came BY <1>1, <2>1
      <3>2. /\ st[r] \in {"remote", "finished"} /\ Unrun(r) /\ computed[r] = Len(table[r])
            /\ r \notin recvDone /\ NoRecv(r)
            /\ \/ GoodT(r) /\ Range(table[r]) \cap Flagged = {}
               \/ Range(table[r]) \subseteq Flagged
            /\ \A j \in DOMAIN pipe : pipe[j].exec # "no" => r \notin pipe[j].send \cup pipe[j].fin
            /\ r \notin prevFin
        BY <1>5, <1>8, <3>1, CameIs
      <3>3. GoodT(r) => GoodT(r)' BY <1>11, <3>2 DEF Unrun
      <3>4. \A j \in DOMAIN pipe : j # k => r \notin pipe'[j].recv BY <1>1, <3>2 DEF NoRecv
      <3>5. \A j \in DOMAIN pipe : j <= k => r \notin pipe'[j].send
        <4>1. \A j \in DOMAIN pipe : j < k => r \notin pipe'[j].send BY <1>1, <3>2
        <4>2. r \notin pipe'[k].send
          <5>1. CASE pipe[k].exec # "no" BY <1>1, <3>2, <5>1
          <5>2. CASE pipe[k].exec = "no"
            <6>1. health /\ r \in loading BY <1>6, <3>1, <5>2 DEF Came, Ended
            <6>2. st[r] = "remote" BY <1>8, <6>1 DEF LoadOf, LoadingOf
            <6>3. r \notin prevFin \cup pipe[k].fin BY <6>2 DEF FinInv, Over
            <6> QED BY <1>1, <6>3
          <5> QED BY <5>1, <5>2
        <4>3. \A j \in DOMAIN pipe : j <= k => j < k \/ j = k BY PipeIs DEF Base, Types
        <4> QED BY <4>1, <4>2, <4>3
      <3> QED BY <1>1, <1>12, <2>1, <3>2, <3>3, <3>4, <3>5
    <2>2. CASE i # k
      <3>1. r \in pipe[i].recv /\ pipe'[i] = pipe[i] BY <1>1, <2>2
      <3>2. /\ st[r] \in {"remote", "finished"} /\ Unrun(r) /\ computed[r] = Len(table[r])
            /\ r \notin recvDone /\ \A j \in DOMAIN pipe : j # i => r \notin pipe[j].recv
            /\ \A j \in DOMAIN pipe : j <= i => r \notin pipe[j].send
            /\ \/ GoodT(r) /\ Range(table[r]) \cap pipe[i].bad = {}
               \/ Range(table[r]) \subseteq pipe[i].bad
        BY <1>8, <3>1 DEF LoadOf, RecvOf
      <3>3. i < k BY <1>7, <3>1
      <3>4. r \notin Came
        <4>1. ~NoRecv(r) BY <3>1 DEF NoRecv
        <4> QED BY <1>5, <1>8, <4>1, CameIs
      <3>5. \A j \in DOMAIN pipe : j # i => r \notin pipe'[j].recv BY <1>1, <3>2, <3>4
      <3>6. \A j \in DOMAIN pipe : j <= i => j # k BY <3>3, PipeIs DEF Base, Types
      <3>7. \A j \in DOMAIN pipe : j <= i => r \notin pipe'[j].send BY <1>1, <3>2, <3>6
      <3>8. GoodT(r) => GoodT(r)' BY <1>11, <3>2 DEF Unrun
      <3> QED BY <1>12, <3>1, <3>2, <3>5, <3>7, <3>8
    <2> QED BY <2>1, <2>2
  <1>19. CameOf(r)'
    <2>1. CASE r \notin recvDone BY <1>3, <1>8, <2>1 DEF LoadOf, CameOf
    <2>2. CASE r \in recvDone
      <3>1. st[r] = "remote" BY <2>2, LoadTyped
      <3>2. pipe[k].n[r] = 0 BY <3>1, RemoteUnrun DEF Fresher, Unrun
      <3>3. 1..computed[r] \subseteq DOMAIN table[r] BY <2>2, LoadTyped
      <3> QED BY <1>3, <1>8, <1>11, <2>2, <3>2, <3>3 DEF LoadOf, CameOf
    <2> QED BY <2>1, <2>2
  <1> QED BY <1>14, <1>15, <1>16, <1>17, <1>18, <1>19 DEF LoadOf

(* The steps that are left once the first is processed.                     *)
LEMMA TailIs ==
    ASSUME EngineAssumption, PipeTypes, pipe # << >>, pipe' = Tail(pipe)
    PROVE  /\ 1 \in DOMAIN pipe /\ pipe[1] \in StepT
           /\ DOMAIN pipe' \in {{}, {1}}
           /\ \A i \in DOMAIN pipe' : /\ i = 1 /\ 2 \in DOMAIN pipe /\ pipe'[i] = pipe[2]
                                      /\ DOMAIN pipe = {1, 2}
           /\ 2 \in DOMAIN pipe => 1 \in DOMAIN pipe'
BY PipeTail

(* A request without a load has none after a step was processed.            *)
LEMMA QuietTail ==
    ASSUME CacheAssumption, EngineAssumption, Base, NEW over, NEW s, UpdatedAs(s, over),
           NEW r \in Reqs, NoRecv(r) \/ r \notin s.recv
    PROVE  /\ NoRecv(r) => NoRecv(r)'
           /\ NoRetr(r) => NoRetr(r)'
           /\ Unrun(r) => Unrun(r)'
  <1>1. pipe # << >> /\ pipe' = Tail(pipe) /\ UNCHANGED workVars BY DEF UpdatedAs
  <1>2. \A i \in DOMAIN pipe' : i = 1 /\ 2 \in DOMAIN pipe /\ pipe'[i] = pipe[2]
    BY <1>1, TailIs DEF Base, Types
  <1>3. stores' = stores BY <1>1 DEF workVars
  <1>4. NoRecv(r) => NoRecv(r)' BY <1>2 DEF NoRecv
  <1>5. NoRetr(r) => NoRetr(r)' BY <1>2 DEF NoRetr, InRetr
  <1>6. Unrun(r) => Unrun(r)' BY <1>2, <1>3 DEF Unrun
  <1> QED BY <1>4, <1>5, <1>6

(* Processing the output of a step leaves no load without its request.      *)
LEMMA UpdatedLoad ==
    ASSUME CacheAssumption, EngineAssumption, Base, PlaceInv, TableInv, TrkInv, LoadInv, BadInv,
           NEW over, NEW s, UpdatedAs(s, over)
    PROVE LoadInv'
  <1>1. /\ s = Head(pipe) /\ s.exec = "done" /\ pipe # << >> /\ pipe' = Tail(pipe)
        /\ recvFailed' = recvFailed \cup {q \in Recovered(s) : st[q] = "remote"}
        /\ recvDone' = recvDone \cup {q \in s.recv : st[q] = "remote"}
        /\ UNCHANGED <<workVars, content, seen>>
    BY DEF UpdatedAs
  <1>2. /\ loading' = loading /\ dma' = dma /\ dropped' = dropped /\ errs' = errs /\ prevFin' = prevFin
        /\ stores' = stores /\ content' = content /\ seen' = seen
    BY <1>1 DEF workVars
  <1>3. \A i \in DOMAIN pipe' : i = 1 /\ 2 \in DOMAIN pipe /\ pipe'[i] = pipe[2] /\ DOMAIN pipe = {1, 2}
    BY <1>1, TailIs DEF Base, Types
  <1> SUFFICES ASSUME Clean', NEW r \in Reqs PROVE LoadOf(r)' BY DEF LoadInv
  <1>4. Clean /\ LoadOf(r) BY <1>2 DEF LoadInv, Clean
  <1>5. /\ s = pipe[1] /\ s \in StepT /\ 1 \in DOMAIN pipe
        /\ st'[r] = IF r \in LeftBy(s, over) THEN "gone" ELSE IF r \in over THEN "finished" ELSE st[r]
        /\ r \notin Recovered(s) => computed'[r] = computed[r]
        /\ r \in Recovered(s) => computed'[r] = Min(Invalid(r, s)) - 1
        /\ r \in LeftBy(s, over) => st[r] = "finished" \/ r \in over
        /\ r \in GotBy(s) => st[r] \notin Over /\ st[r] \notin Fresher
        /\ r \in over => r \in GotBy(s)
    BY UpdatedReq
  <1>6. /\ table'[r] = IF r \in LeftBy(s, over) THEN << >> ELSE table[r]
        /\ trk'[r] = IF r \in over THEN NoTracker ELSE trk[r]
    BY UpdatedTypes
  <1>7. r \in Recovered(s) => r \in s.recv /\ st[r] = "remote" BY <1>4, <1>5, LostAreRemote
  <1>8. /\ r \in recvDone' <=> r \in recvDone \/ (r \in s.recv /\ st[r] = "remote")
        /\ r \in recvFailed' <=> r \in recvFailed \/ r \in Recovered(s)
    BY <1>1, <1>7
  <1>9. Quiet(r) => Quiet(r)'
    <2> SUFFICES ASSUME Quiet(r) PROVE Quiet(r)' OBVIOUS
    <2>1. r \notin s.recv BY <1>5 DEF Quiet, NoRecv
    <2>2. NoRecv(r)' /\ NoRetr(r)' BY QuietTail DEF Quiet
    <2> QED BY <1>2, <1>7, <1>8, <2>1, <2>2 DEF Quiet
  <1>10. TableOf(r) BY DEF TableInv
  <1>11. CASE r \in over
    <2>1. st[r] \notin {"remote", "finished"} BY <1>5, <1>11 DEF Over, Fresher
    <2>2. Quiet(r)' BY <1>4, <1>9, <1>10, <2>1, NotLoading
    <2>3. st'[r] \in Over BY <1>5, <1>11 DEF Over
    <2> QED BY <2>2, <2>3, QuietLoad DEF Over
  <1>12. CASE r \in LeftBy(s, over) /\ r \notin over
    <2>1. st[r] = "finished" /\ st'[r] = "gone" /\ r \in s.recv \cup s.send
      BY <1>5, <1>12 DEF LeftBy
    <2>2. r \notin loading /\ NoRetr(r) /\ r \notin recvDone \cup recvFailed
      BY <1>4, <1>10, <2>1 DEF LoadOf, LoadingOf, RetrOf, NoRetr, TableOf
    <2>3. r \notin dropped
      <3> SUFFICES ASSUME r \in dropped PROVE FALSE OBVIOUS
      <3>1. NoRecv(r) /\ \A i \in DOMAIN pipe : pipe[i].exec # "no" => r \notin pipe[i].fin \cup pipe[i].send
        BY <1>4 DEF LoadOf, DroppedOf
      <3>2. r \notin s.recv BY <1>5, <3>1 DEF NoRecv
      <3>3. r \notin s.send BY <1>1, <1>5, <3>1
      <3> QED BY <2>1, <3>2, <3>3
    <2>4. NoRecv(r)'
      <3> SUFFICES ASSUME NEW i \in DOMAIN pipe', r \in pipe'[i].recv PROVE FALSE BY DEF NoRecv
      <3>1. 2 \in DOMAIN pipe /\ r \in pipe[2].recv /\ DOMAIN pipe = {1, 2} BY <1>3
      <3>2. /\ \A j \in DOMAIN pipe : j # 2 => r \notin pipe[j].recv
            /\ \A j \in DOMAIN pipe : j <= 2 => r \notin pipe[j].send
        BY <1>4, <3>1 DEF LoadOf, RecvOf
      <3>3. r \notin pipe[1].recv /\ r \notin pipe[1].send BY <1>5, <3>2
      <3> QED BY <1>5, <2>1, <3>3
    <2>5. NoRetr(r)' BY <1>3, <2>2 DEF NoRetr, InRetr
    <2>6. Quiet(r)' BY <1>2, <1>7, <1>8, <2>1, <2>2, <2>3, <2>4, <2>5 DEF Quiet
    <2> QED BY <2>1, <2>6, QuietLoad
  <1>13. CASE r \notin over /\ r \notin LeftBy(s, over)
    <2>1. st'[r] = st[r] /\ table'[r] = table[r] /\ trk'[r] = trk[r] BY <1>5, <1>6, <1>13
    <2>2. CASE st[r] \notin {"remote", "finished"}
      <3>1. Quiet(r)' BY <1>4, <1>9, <1>10, <2>2, NotLoading
      <3>2. st'[r] = "waiting" => trk'[r].s # "waiting" BY <1>4, <2>1 DEF LoadOf, WantOf
      <3> QED BY <2>1, <2>2, <3>1, <3>2, QuietLoad
    <2>3. CASE r \in s.recv /\ st[r] = "remote"
      <3>1. /\ Unrun(r) /\ computed[r] = Len(table[r]) /\ r \notin recvDone
            /\ \A j \in DOMAIN pipe : j # 1 => r \notin pipe[j].recv
            /\ \/ GoodT(r) /\ Range(table[r]) \cap s.bad = {}
               \/ Range(table[r]) \subseteq s.bad
        BY <1>4, <1>5, <2>3 DEF LoadOf, RecvOf
      <3>2. ~NoRecv(r) BY <1>5, <2>3 DEF NoRecv
      <3>3. r \notin loading \cup dropped /\ NoRetr(r) /\ trk[r].s # "waiting"
        BY <1>4, <2>3, <3>2 DEF LoadOf, WantOf, LoadingOf, DroppedOf, RetrOf, NoRetr
      <3>4. NoRecv(r)' BY <1>3, <3>1 DEF NoRecv
      <3>5. NoRetr(r)' BY <1>3, <3>3 DEF NoRetr, InRetr
      <3>6. WantOf(r)' BY <2>1, <2>3, <3>3 DEF WantOf
      <3>7. RetrOf(r)' BY <3>5 DEF RetrOf, NoRetr
      <3>8. LoadingOf(r)' /\ DroppedOf(r)' BY <1>2, <3>3 DEF LoadingOf, DroppedOf
      <3>9. RecvOf(r)' BY <3>4 DEF RecvOf, NoRecv
      <3>10. r \notin recvFailed BY <1>4, <3>1 DEF LoadOf, CameOf
      <3>11. Len(table[r]) \in Nat /\ DOMAIN table[r] = 1..Len(table[r]) /\ s.n[r] = 0
        BY <1>5, <3>1, LoadTyped DEF Unrun
      <3>12. /\ r \in Recovered(s) => computed'[r] = 0
             /\ r \notin Recovered(s) => \A i \in 1..computed[r] : content[table[r][i]] = <<r, i>>
        <4>1. CASE Range(table[r]) \subseteq s.bad
          <5>1. \A i \in DOMAIN table[r] : table[r][i] \in s.bad BY <4>1 DEF Range
          <5>2. Invalid(r, s) = DOMAIN table[r]
            <6>1. \A i \in DOMAIN table[r] : i <= computed[r] - s.n[r] BY <3>1, <3>11
            <6> QED BY <5>1, <6>1 DEF Invalid
          <5>3. CASE DOMAIN table[r] = {}
            <6>1. r \notin Recovered(s) BY <5>2, <5>3 DEF Recovered
            <6>2. 1..computed[r] = {} BY <3>1, <3>11, <5>3
            <6> QED BY <6>1, <6>2
          <5>4. CASE DOMAIN table[r] # {}
            <6>1. 1 \in Invalid(r, s) BY <3>11, <5>2, <5>4
            <6>2. Invalid(r, s) \in SUBSET Nat BY <3>11, <5>2
            <6>3. Min(Invalid(r, s)) = 1
              <7>1. Min(Invalid(r, s)) \in Invalid(r, s) /\ \A y \in Invalid(r, s) : Min(Invalid(r, s)) <= y
                BY <6>1, <6>2, LeastOf
              <7>2. Min(Invalid(r, s)) \in 1..Len(table[r]) /\ Min(Invalid(r, s)) <= 1
                BY <3>11, <5>2, <6>1, <7>1
              <7> QED BY <3>11, <7>2
            <6>4. r \in Recovered(s)
              <7>1. r \in Range(skipped) \/ r \in Range(running) \/ r \in Range(waiting) \/ r \in Range(cur.skip)
                BY <2>3 DEF Base, QueueInv, Waits
              <7>2. r \notin Range(waiting) BY <2>3 DEF Base, QueueInv
              <7>3. r \notin Range(cur.skip)
                <8>1. cur.skip = << >> BY IdleIs DEF UpdatedAs
                <8> QED BY <8>1 DEF Range
              <7> QED BY <2>3, <6>1, <7>1, <7>2, <7>3 DEF Recovered
            <6> QED BY <1>5, <6>3, <6>4
          <5> QED BY <5>3, <5>4
        <4>2. CASE GoodT(r) /\ Range(table[r]) \cap s.bad = {}
          <5>1. Invalid(r, s) = {} BY <4>2 DEF Invalid, Range
          <5>2. r \notin Recovered(s) BY <5>1 DEF Recovered
          <5>3. \A i \in 1..computed[r] : content[table[r][i]] = <<r, i>> BY <3>1, <3>11, <4>2 DEF GoodT
          <5> QED BY <5>2, <5>3
        <4> QED BY <3>1, <4>1, <4>2
      <3>13. CameOf(r)'
        <4>1. CASE r \in Recovered(s)
          <5>1. computed'[r] = 0 /\ r \in recvDone' BY <1>8, <2>3, <3>12, <4>1
          <5>2. 1..0 = {} OBVIOUS
          <5> QED BY <5>1, <5>2 DEF CameOf
        <4>2. CASE r \notin Recovered(s)
          <5>1. r \notin recvFailed' /\ computed'[r] = computed[r] BY <1>5, <1>8, <3>10, <4>2
          <5> QED BY <1>2, <2>1, <3>12, <4>2, <5>1 DEF CameOf
        <4> QED BY <4>1, <4>2
      <3> QED BY <3>6, <3>7, <3>8, <3>9, <3>13 DEF LoadOf
    <2>4. CASE st[r] \in {"remote", "finished"} /\ ~(r \in s.recv /\ st[r] = "remote")
      <3>1. r \notin s.recv
        <4>1. st[r] = "finished" => r \notin s.recv BY <1>13 DEF LeftBy
        <4> QED BY <2>4, <4>1
      <3>2. computed'[r] = computed[r] BY <1>5, <1>7, <3>1
      <3>3. (r \in recvDone' <=> r \in recvDone) /\ (r \in recvFailed' <=> r \in recvFailed)
        BY <1>7, <1>8, <3>1
      <3>4. /\ NoRecv(r) => NoRecv(r)'
            /\ NoRetr(r) => NoRetr(r)'
            /\ Unrun(r) => Unrun(r)'
        BY <3>1, QuietTail
      <3>5. GoodT(r)' <=> GoodT(r) BY <1>2, <2>1 DEF GoodT
      <3>6. WantOf(r)'
        BY <1>2, <1>4, <2>1, <3>2, <3>3, <3>4 DEF LoadOf, WantOf
      <3>7. RetrOf(r)'
        <4> SUFFICES ASSUME NEW i \in DOMAIN pipe', InRetr(r, i)'
                     PROVE  /\ st[r] = "remote" /\ \A o \in pipe'[i].retr : o.req = r => o.blocks = table[r]
                            /\ computed[r] = Len(table[r])
                            /\ r \notin loading \cup dropped \cup recvDone /\ NoRecv(r)
                            /\ \A j \in DOMAIN pipe' : j # i => ~InRetr(r, j)'
          BY <1>2, <2>1, <3>2, <3>3, <3>4 DEF RetrOf
        <4>1. i = 1 /\ 2 \in DOMAIN pipe /\ pipe'[i] = pipe[2] /\ \A j \in DOMAIN pipe' : j = 1
          BY <1>3
        <4>2. InRetr(r, 2) BY <4>1 DEF InRetr
        <4>3. /\ st[r] = "remote" /\ \A o \in pipe[2].retr : o.req = r => o.blocks = table[r]
              /\ computed[r] = Len(table[r])
              /\ r \notin loading \cup dropped \cup recvDone /\ NoRecv(r)
          BY <1>4, <4>1, <4>2 DEF LoadOf, RetrOf
        <4> QED BY <4>1, <4>3
      <3>8. LoadingOf(r)' BY <1>2, <1>4, <2>1, <3>2, <3>3, <3>4, <3>5 DEF LoadOf, LoadingOf
      <3>9. DroppedOf(r)'
        <4> SUFFICES ASSUME r \in dropped PROVE DroppedOf(r)' BY <1>2 DEF DroppedOf
        <4>1. /\ Range(table[r]) \subseteq errs
              /\ computed[r] = Len(table[r])
              /\ Unrun(r) /\ r \notin recvDone /\ NoRecv(r) /\ r \notin prevFin
              /\ \A i \in DOMAIN pipe : pipe[i].exec # "no" => r \notin pipe[i].fin \cup pipe[i].send
          BY <1>4 DEF LoadOf, DroppedOf
        <4>2. \A i \in DOMAIN pipe' : pipe'[i].exec # "no" => r \notin pipe'[i].fin \cup pipe'[i].send
          BY <1>3, <4>1
        <4> QED BY <1>2, <2>1, <2>4, <3>2, <3>3, <3>4, <4>1, <4>2 DEF DroppedOf
      <3>10. RecvOf(r)'
        <4> SUFFICES ASSUME NEW i \in DOMAIN pipe', r \in pipe'[i].recv
                     PROVE  /\ Unrun(r)' /\ computed[r] = Len(table[r])
                            /\ r \notin recvDone /\ \A j \in DOMAIN pipe' : j # i => r \notin pipe'[j].recv
                            /\ \A j \in DOMAIN pipe' : j <= i => r \notin pipe'[j].send
                            /\ \/ GoodT(r)' /\ Range(table[r]) \cap pipe'[i].bad = {}
                               \/ Range(table[r]) \subseteq pipe'[i].bad
          BY <2>1, <2>4, <3>2, <3>3 DEF RecvOf
        <4>1. i = 1 /\ 2 \in DOMAIN pipe /\ pipe'[i] = pipe[2] /\ \A j \in DOMAIN pipe' : j = 1
          BY <1>3
        <4>2. /\ Unrun(r) /\ computed[r] = Len(table[r]) /\ r \notin recvDone
              /\ \A j \in DOMAIN pipe : j <= 2 => r \notin pipe[j].send
              /\ \/ GoodT(r) /\ Range(table[r]) \cap pipe[2].bad = {}
                 \/ Range(table[r]) \subseteq pipe[2].bad
          BY <1>4, <4>1 DEF LoadOf, RecvOf
        <4>3. r \notin pipe[2].send BY <4>1, <4>2
        <4> QED BY <3>4, <3>5, <4>1, <4>2, <4>3
      <3>11. CameOf(r)' BY <1>2, <1>4, <2>1, <3>2, <3>3 DEF LoadOf, CameOf
      <3> QED BY <3>6, <3>7, <3>8, <3>9, <3>10, <3>11 DEF LoadOf
    <2> QED BY <2>2, <2>3, <2>4
  <1> QED BY <1>11, <1>12, <1>13

-----------------------------------------------------------------------------
(* BadInv: flagged blocks.                                                   *)

(* The flagged blocks stay those of the loads that failed, while the steps  *)
(* stay as they are and no request with a load loses a block.               *)
LEMMA BadFrame ==
    ASSUME Base, BadInv, LoadInv', pipe' = pipe, errs' = errs, dropped' = dropped, Clean' => Clean,
           \A r \in Reqs : st'[r] \in {"remote", "finished"} => Range(table[r]) \subseteq Range(table'[r])
    PROVE  BadInv'
  <1>1. errs' # {} \/ dropped' # {} => \E i \in DOMAIN pipe' : pipe'[i].exec = "loaded" BY DEF BadInv
  <1> SUFFICES ASSUME Clean'
               PROVE  /\ errs' \subseteq Held(dropped)'
                      /\ \A i \in DOMAIN pipe' : pipe'[i].bad \subseteq Held(pipe[i].recv)'
    BY <1>1 DEF BadInv, Held
  <1>2. dropped \subseteq Reqs /\ \A i \in DOMAIN pipe : pipe[i].recv \subseteq Reqs
    BY PipeIs, StepFields DEF Base, Types, WorkTypes
  <1>3. \A r \in Reqs : LoadOf(r)' BY DEF LoadInv
  <1>4. \A r \in dropped : st'[r] \in {"remote", "finished"} BY <1>2, <1>3 DEF LoadOf, DroppedOf
  <1>5. \A i \in DOMAIN pipe : \A r \in pipe[i].recv : st'[r] \in {"remote", "finished"}
    BY <1>2, <1>3 DEF LoadOf, RecvOf
  <1>6. errs \subseteq Held(dropped) /\ \A i \in DOMAIN pipe : pipe[i].bad \subseteq Held(pipe[i].recv)
    BY DEF BadInv
  <1>7. \A r \in dropped : Range(table[r]) \subseteq Range(table'[r]) BY <1>2, <1>4
  <1>8. errs' \subseteq Held(dropped)' BY <1>6, <1>7 DEF Held
  <1>9. ASSUME NEW i \in DOMAIN pipe PROVE pipe'[i].bad \subseteq Held(pipe[i].recv)'
    <2>1. \A r \in pipe[i].recv : Range(table[r]) \subseteq Range(table'[r]) BY <1>2, <1>5
    <2> QED BY <1>6, <2>1 DEF Held
  <1> QED BY <1>8, <1>9

(* BadInv, in a decision of schedule() that only moves the scan, the queues  *)
(* or a note.                                                                *)
LEMMA LightBad ==
    ASSUME Base, BadInv, LoadInv', Light PROVE BadInv'
BY BadFrame DEF Light, SameBlocks, SameWork, Clean

(* BadInv, in a step of the others that leaves the blocks and the pipe as    *)
(* they are.                                                                 *)
LEMMA StillBad ==
    ASSUME Base, BadInv, LoadInv', Aside, pipe' = pipe, UNCHANGED <<dropped, errs>>
    PROVE BadInv'
BY BadFrame DEF Aside, SameBlocks

(* BadInv, when a running request is scheduled.                              *)
LEMMA TakeRunningBad ==
    ASSUME CacheAssumption, EngineAssumption, Base, PlaceInv, BadInv, LoadInv', TakeRunning
    PROVE BadInv'
  <1>0. PICK r \in Reqs : r = Here BY TakeRunningIs DEF Base
  <1>1. /\ \A q \in Reqs : q # r => table'[q] = table[q]
        /\ Range(table[r]) \subseteq Range(table'[r])
        /\ UNCHANGED <<cacheVars, pipe, seen>>
    BY <1>0, TakeRunningIs DEF Base
  <1>2. dropped' = dropped /\ errs' = errs /\ pipe' = pipe /\ seen' = seen
    BY <1>1 DEF cacheVars, workVars
  <1> QED BY <1>1, <1>2, BadFrame DEF Clean

(* BadInv, when the last running request is preempted.                       *)
LEMMA PreemptBad ==
    ASSUME CacheAssumption, EngineAssumption, Base, BadInv, LoadInv', Preempt PROVE BadInv'
  <1>0. PICK v \in Reqs : v = Last(running) BY PreemptIs DEF Base
  <1>1. /\ st'[v] = "preempted" /\ \A q \in Reqs : q # v => table'[q] = table[q]
        /\ UNCHANGED <<cacheVars, pipe, seen>>
    BY <1>0, PreemptIs DEF Base
  <1>2. dropped' = dropped /\ errs' = errs /\ pipe' = pipe /\ seen' = seen
    BY <1>1 DEF cacheVars, workVars
  <1> QED BY <1>1, <1>2, BadFrame DEF Clean

(* BadInv, when the wait of a request for its load is over.                  *)
LEMMA PromoteBad ==
    ASSUME CacheAssumption, Base, BadInv, LoadInv', Promote PROVE BadInv'
  <1>0. PICK r \in Reqs : r = Head1 BY PromoteIs
  <1>1. /\ st'[r] = IF r \in hurt THEN "preempted" ELSE "waiting"
        /\ \A q \in Reqs : q # r => table'[q] = table[q]
        /\ seen \subseteq seen' /\ UNCHANGED <<cacheVars, pipe>>
    BY <1>0, PromoteIs
  <1>2. dropped' = dropped /\ errs' = errs /\ pipe' = pipe BY <1>1 DEF cacheVars, workVars
  <1>3. Clean' => Clean BY <1>1, CleanOf
  <1> QED BY <1>1, <1>2, <1>3, BadFrame

(* A request that keeps its blocks in place keeps them.                      *)
LEMMA StaysRange ==
    ASSUME NEW r \in Reqs, Stays(r) PROVE Range(table[r]) \subseteq Range(table'[r])
BY DEF Stays, Range

(* BadInv, when a request is admitted.                                       *)
LEMMA AdmittedBad ==
    ASSUME CacheAssumption, EngineAssumption, Base, PlaceInv, BadInv, LoadInv', NEW base \in Nat,
           NEW async \in BOOLEAN, AdmittedAs(base, async)
    PROVE BadInv'
  <1>1. PICK r \in Reqs : /\ \A q \in Reqs : q # r => table'[q] = table[q]
                          /\ Stays(r) /\ UNCHANGED <<workVars, pipe, seen>>
    <2>1. CASE async
      <3>1. PICK r \in Reqs : r = Head1 BY <2>1, LoadIs
      <3>2. /\ \A q \in Reqs : q # r => table'[q] = table[q]
            /\ Stays(r) /\ UNCHANGED <<workVars, pipe, seen>>
        BY <2>1, <3>1, LoadIs
      <3> QED BY <3>2
    <2>2. CASE ~async
      <3>1. PICK r \in Reqs : r = Head1 BY <2>2, RunIs
      <3>2. /\ \A q \in Reqs : q # r => table'[q] = table[q]
            /\ Stays(r) /\ UNCHANGED <<workVars, pipe, seen>>
        BY <2>2, <3>1, RunIs
      <3> QED BY <3>2
    <2> QED BY <2>1, <2>2
  <1>2. dropped' = dropped /\ errs' = errs /\ pipe' = pipe /\ seen' = seen BY <1>1 DEF workVars
  <1>3. Range(table[r]) \subseteq Range(table'[r]) BY <1>1, StaysRange
  <1> QED BY <1>1, <1>2, <1>3, BadFrame DEF Clean

(* BadInv, when a call of schedule() ends.                                   *)
LEMMA FinishScheduleBad ==
    ASSUME CacheAssumption, EngineAssumption, Base, BadInv, FinishSchedule PROVE BadInv'
  <1>0. PICK z \in Nat : z = Len(pipe) + 1 BY PipeIs DEF Base, Types
  <1>1. /\ DOMAIN pipe' = 1..z /\ DOMAIN pipe = 1..Len(pipe)
        /\ \A k \in DOMAIN pipe : pipe'[k] = pipe[k]
        /\ pipe'[z] = NewStep
        /\ seen \subseteq seen'
        /\ UNCHANGED <<workVars, blockVars>>
    BY <1>0, FinishScheduleIs
  <1>2. dropped' = dropped /\ errs' = errs /\ table' = table BY <1>1 DEF workVars, blockVars
  <1>3. NewStep.bad = {} BY NewStepIs DEF Base
  <1>4. DOMAIN pipe' = DOMAIN pipe \cup {z}
    <2>1. Len(pipe) \in Nat BY PipeIs DEF Base, Types
    <2> QED BY <1>0, <1>1, <2>1
  <1>5. Clean' => Clean BY <1>1, CleanOf
  <1>6. errs' # {} \/ dropped' # {} => \E i \in DOMAIN pipe' : pipe'[i].exec = "loaded"
    BY <1>1, <1>2, <1>4 DEF BadInv
  <1>7. Clean' => errs' \subseteq Held(dropped)' BY <1>2, <1>5 DEF BadInv, Held
  <1>8. Clean' => \A i \in DOMAIN pipe' : pipe'[i].bad \subseteq Held(pipe[i].recv)'
    <2> SUFFICES ASSUME Clean', NEW i \in DOMAIN pipe' PROVE pipe'[i].bad \subseteq Held(pipe[i].recv)'
      BY DEF Held
    <2>1. CASE i = z BY <1>1, <1>3, <2>1
    <2>2. CASE i \in DOMAIN pipe
      <3>1. pipe[i].bad \subseteq Held(pipe[i].recv) BY <1>5, <2>2 DEF BadInv
      <3> QED BY <1>1, <1>2, <2>2, <3>1 DEF Held
    <2> QED BY <1>4, <2>1, <2>2
  <1> QED BY <1>6, <1>7, <1>8 DEF BadInv, Held

(* BadInv, when a request arrives.                                           *)
LEMMA AddBad ==
    ASSUME Base, BadInv, LoadInv', NEW r \in Reqs, Add(r) PROVE BadInv'
  <1>1. UNCHANGED <<cacheVars, blockVars, pipe, seen>> BY AddBase
  <1>2. dropped' = dropped /\ errs' = errs /\ pipe' = pipe /\ seen' = seen /\ table' = table
    BY <1>1 DEF cacheVars, workVars, blockVars
  <1> QED BY <1>2, BadFrame DEF Clean

(* BadInv, when a request is aborted.                                        *)
LEMMA AbortBad ==
    ASSUME Base, BadInv, LoadInv', NEW r \in Reqs, Abort(r) PROVE BadInv'
  <1>1. UNCHANGED <<workVars, blockVars, pipe>> /\ seen \subseteq seen' BY AbortBase
  <1>2. dropped' = dropped /\ errs' = errs /\ pipe' = pipe /\ table' = table
    BY <1>1 DEF workVars, blockVars
  <1>3. Clean' => Clean BY <1>1, CleanOf
  <1> QED BY <1>2, <1>3, BadFrame

(* A load that is refused flags the blocks of its request.                  *)
LEMMA StartStepBad ==
    ASSUME Base, LoadInv, BadInv, StartStep PROVE BadInv'
  <1>0. PICK k \in DOMAIN pipe : k = At BY StartStepIs DEF Base
  <1>1. /\ pipe[k] \in StepT /\ pipe[k].exec = "no"
        /\ \A i \in DOMAIN pipe : i < k => pipe[i].exec = "done"
        /\ \A j \in DOMAIN pipe : j # k => pipe'[j] = pipe[j]
        /\ pipe'[k].exec = "loaded" /\ pipe'[k].recv = pipe[k].recv /\ pipe'[k].bad = pipe[k].bad
        /\ StartLoads(pipe[k].retr) /\ SameShape
        /\ UNCHANGED <<blockVars, seen>>
    BY <1>0, StartStepIs DEF Base
  <1>2. table' = table /\ seen' = seen /\ DOMAIN pipe' = DOMAIN pipe BY <1>1 DEF blockVars, SameShape
  <1>3. dropped = {} /\ errs = {} BY <1>1, NoneDropped
  <1>4. \E i \in DOMAIN pipe' : pipe'[i].exec = "loaded" BY <1>1, <1>2
  <1>5. Clean' => Clean BY <1>2 DEF Clean
  <1>6. Clean' => errs' \subseteq Held(dropped)'
    <2> SUFFICES ASSUME Clean', NEW b \in errs' PROVE b \in Held(dropped)' OBVIOUS
    <2>1. ~health /\ dropped' = dropped \cup {o.req : o \in pipe[k].retr}
          /\ errs' = errs \cup UNION {Ids(o.blocks) : o \in pipe[k].retr}
      BY <1>1, <1>3 DEF StartLoads
    <2>2. PICK o \in pipe[k].retr : b \in Ids(o.blocks) BY <1>3, <2>1
    <2>3. o.req \in Reqs BY <1>1, StepFields, RetrFields
    <2>4. InRetr(o.req, k) BY <1>1 DEF InRetr
    <2>5. o.blocks = table[o.req] BY <1>5, <2>3, <2>4 DEF LoadInv, LoadOf, RetrOf
    <2>6. b \in Range(table[o.req]) /\ o.req \in dropped' BY <2>1, <2>2, <2>5 DEF Ids, Range
    <2> QED BY <1>2, <2>6 DEF Held
  <1>7. Clean' => \A i \in DOMAIN pipe' : pipe'[i].bad \subseteq Held(pipe[i].recv)'
    <2>1. \A i \in DOMAIN pipe : pipe'[i].bad = pipe[i].bad /\ pipe'[i].recv = pipe[i].recv BY <1>1
    <2> QED BY <1>2, <1>5, <2>1 DEF BadInv, Held
  <1> QED BY <1>4, <1>6, <1>7 DEF BadInv, Held

(* What a step flags are blocks of requests it reports.                     *)
LEMMA ExecuteBad ==
    ASSUME Base, LoadInv, BadInv, NEW over, Execute(over) PROVE BadInv'
  <1>0. PICK k \in DOMAIN pipe : k = At BY ExecuteIs DEF Base
  <1>1. /\ SameShape /\ \A j \in DOMAIN pipe : j # k => pipe'[j] = pipe[j]
        /\ pipe'[k].recv = Came /\ pipe'[k].bad = Flagged
        /\ errs' = {} /\ dropped' = {} /\ SameBlocks /\ seen \subseteq seen'
    BY <1>0, ExecuteIs DEF Base
  <1>2. table' = table /\ DOMAIN pipe' = DOMAIN pipe BY <1>1 DEF SameBlocks, SameShape
  <1>3. Clean' => Clean BY <1>1, CleanOf
  <1>4. Clean => Flagged \subseteq Held(Came)
    <2> SUFFICES ASSUME Clean, NEW b \in Flagged PROVE b \in Held(Came) OBVIOUS
    <2>1. CASE b \in errs
      <3>1. PICK q \in dropped : b \in Range(table[q]) BY <2>1 DEF BadInv, Held
      <3>2. q \in Came BY DEF Came
      <3> QED BY <3>1, <3>2 DEF Held
    <2>2. CASE b \notin errs
      <3>1. health /\ b \in UNION {Ids(dma[q].blocks) : q \in {p \in Ended : dma[p].s = "bad"}}
        BY <2>2 DEF Flagged
      <3>2. PICK q \in Ended : b \in Ids(dma[q].blocks) BY <3>1
      <3>3. q \in loading /\ q \in Reqs BY DEF Ended, Base, Types, WorkTypes
      <3>4. dma[q].blocks = table[q] BY <3>3 DEF LoadInv, LoadOf, LoadingOf
      <3>5. b \in Range(table[q]) /\ q \in Came BY <3>1, <3>2, <3>4 DEF Ids, Range, Came
      <3> QED BY <3>5 DEF Held
    <2> QED BY <2>1, <2>2
  <1>5. ASSUME Clean', NEW i \in DOMAIN pipe' PROVE pipe'[i].bad \subseteq Held(pipe'[i].recv)
    <2>1. CASE i = k BY <1>1, <1>3, <1>4, <1>5, <2>1
    <2>2. CASE i # k BY <1>1, <1>2, <1>3, <1>5, <2>2 DEF BadInv
    <2> QED BY <2>1, <2>2
  <1>6. Clean' => \A i \in DOMAIN pipe' : pipe'[i].bad \subseteq Held(pipe[i].recv)'
    BY <1>2, <1>5 DEF Held
  <1> QED BY <1>1, <1>6 DEF BadInv, Held

(* BadInv, when the output of a step is processed.                           *)
LEMMA UpdatedBad ==
    ASSUME CacheAssumption, EngineAssumption, Base, PlaceInv, BadInv, LoadInv',
           NEW over, NEW s, UpdatedAs(s, over)
    PROVE BadInv'
  <1>1. /\ pipe # << >> /\ pipe' = Tail(pipe) /\ UNCHANGED <<workVars, seen>> BY DEF UpdatedAs
  <1>2. dropped' = dropped /\ errs' = errs /\ (Clean' => Clean) BY <1>1 DEF workVars, Clean
  <1>3. /\ \A i \in DOMAIN pipe' : i = 1 /\ 2 \in DOMAIN pipe /\ pipe'[i] = pipe[2]
        /\ 2 \in DOMAIN pipe => 1 \in DOMAIN pipe'
    BY <1>1, TailIs DEF Base, Types
  <1>4. /\ s = pipe[1] /\ s.exec = "done"
        /\ \A r \in Reqs : st'[r] = IF r \in LeftBy(s, over) THEN "gone"
                                    ELSE IF r \in over THEN "finished" ELSE st[r]
        /\ \A r \in Reqs : table'[r] = IF r \in LeftBy(s, over) THEN << >> ELSE table[r]
    BY UpdatedTypes
  <1>5. \A r \in Reqs : st'[r] \in {"remote", "finished"} => table'[r] = table[r] BY <1>4
  <1>6. errs' # {} \/ dropped' # {} => \E i \in DOMAIN pipe' : pipe'[i].exec = "loaded"
    <2> SUFFICES ASSUME errs' # {} \/ dropped' # {}
                 PROVE  \E i \in DOMAIN pipe' : pipe'[i].exec = "loaded"
      OBVIOUS
    <2>1. PICK i \in DOMAIN pipe : pipe[i].exec = "loaded" BY <1>2 DEF BadInv
    <2>2. i # 1 BY <1>4, <2>1
    <2>3. i = 2 BY <2>2, PipeLen DEF Base, Types
    <2> QED BY <1>3, <2>1, <2>3
  <1>7. dropped \subseteq Reqs /\ \A i \in DOMAIN pipe : pipe[i].recv \subseteq Reqs
    BY PipeIs, StepFields DEF Base, Types, WorkTypes
  <1>8. Clean' => errs' \subseteq Held(dropped)'
    <2> SUFFICES ASSUME Clean' PROVE errs' \subseteq Held(dropped)' OBVIOUS
    <2>1. \A r \in dropped : st'[r] \in {"remote", "finished"}
      BY <1>2, <1>7 DEF LoadInv, LoadOf, DroppedOf
    <2>2. \A r \in dropped : table'[r] = table[r] BY <1>5, <1>7, <2>1
    <2>3. errs \subseteq Held(dropped) BY <1>2 DEF BadInv
    <2> QED BY <1>2, <2>2, <2>3 DEF Held
  <1>9. Clean' => \A i \in DOMAIN pipe' : pipe'[i].bad \subseteq Held(pipe[i].recv)'
    <2> SUFFICES ASSUME Clean', NEW i \in DOMAIN pipe' PROVE pipe'[i].bad \subseteq Held(pipe[i].recv)'
      BY DEF Held
    <2>1. i = 1 /\ 2 \in DOMAIN pipe /\ pipe'[i] = pipe[2] BY <1>3
    <2>2. \A r \in pipe[2].recv : r \in Reqs /\ r \in pipe'[i].recv BY <1>7, <2>1
    <2>3. \A r \in pipe[2].recv : st'[r] \in {"remote", "finished"}
      <3> SUFFICES ASSUME NEW r \in pipe[2].recv PROVE st'[r] \in {"remote", "finished"} OBVIOUS
      <3>1. RecvOf(r)' BY <2>2 DEF LoadInv, LoadOf
      <3> QED BY <2>2, <3>1 DEF RecvOf
    <2>4. \A r \in pipe[2].recv : table'[r] = table[r] BY <1>5, <2>2, <2>3
    <2>5. pipe[2].bad \subseteq Held(pipe[2].recv) BY <1>2, <2>1 DEF BadInv
    <2> QED BY <2>1, <2>4, <2>5 DEF Held
  <1> QED BY <1>6, <1>8, <1>9 DEF BadInv, Held

-----------------------------------------------------------------------------
(* FinInv: requests that ended.                                              *)

(* What is said of the stores and of the requests that ended stays true     *)
(* while the steps and the stores stay as they are and nothing comes back.  *)
LEMMA FinFrame ==
    ASSUME Base, FinInv, SameShape, Clean' => Clean,
           \A i \in DOMAIN pipe : pipe'[i].send = pipe[i].send /\ (pipe'[i].exec # "done" => pipe[i].exec # "done"),
           finStores' = finStores, stores' = stores, prevFin' = prevFin, returned' = returned,
           \A r \in Reqs : /\ st[r] \in Over => st'[r] \in Over
                           /\ st'[r] = "gone" => st[r] = "gone"
                           /\ st[r] \notin Fresher => st'[r] \notin Fresher,
           \A r \in finIds' : r \in finIds \/ st'[r] \in Over
    PROVE  FinInv'
  <1>1. /\ finIds \subseteq Reqs /\ prevFin \subseteq Reqs /\ returned \subseteq Reqs /\ stores \subseteq Reqs
        /\ \A i \in DOMAIN pipe : pipe[i].fin \subseteq Reqs /\ pipe[i].send \subseteq Reqs
    BY PipeIs, StepFields DEF Base, Types, WorkTypes, DoneTypes
  <1>2. /\ DOMAIN pipe' = DOMAIN pipe
        /\ \A i \in DOMAIN pipe : pipe'[i].fin = pipe[i].fin /\ pipe'[i].n = pipe[i].n
    BY DEF SameShape
  <1>3. /\ \A r \in finIds \cup prevFin \cup returned : st[r] \in Over
        /\ \A i \in DOMAIN pipe : \A r \in pipe[i].fin \cup pipe[i].send : st[r] \in Over
    BY DEF FinInv
  <1>4. /\ \A r \in finIds' \cup prevFin' \cup returned' : st'[r] \in Over
        /\ \A i \in DOMAIN pipe' : \A r \in pipe'[i].fin \cup pipe'[i].send : st'[r] \in Over
    BY <1>1, <1>2, <1>3
  <1>5. \A i \in DOMAIN pipe' : \A r \in pipe'[i].fin :
          \A j \in DOMAIN pipe' : j >= i => pipe'[j].n[r] = 0
    BY <1>2 DEF FinInv
  <1>6. \A j \in DOMAIN pipe' : pipe'[j].exec # "done" =>
          /\ \A r \in prevFin' : pipe'[j].n[r] = 0
          /\ \A i \in DOMAIN pipe' : \A r \in pipe'[i].send : pipe'[j].n[r] = 0
          /\ Clean' => \A r \in Reqs : st'[r] = "gone" => pipe'[j].n[r] = 0
    BY <1>2 DEF FinInv
  <1>7. \A r \in stores' : /\ st'[r] \notin Fresher /\ (Clean' => st'[r] # "gone")
                           /\ \A i \in DOMAIN pipe' : r \notin pipe'[i].send
    BY <1>1, <1>2 DEF FinInv
  <1>8. finStores' \cap stores' = {} BY DEF FinInv
  <1> QED BY <1>4, <1>5, <1>6, <1>7, <1>8 DEF FinInv

(* Steps that stay as they are keep their shape.                             *)
LEMMA SameShapeIs == ASSUME PipeTypes, pipe' = pipe PROVE SameShape
BY DEF SameShape, PipeTypes

(* FinInv, in a decision of schedule() that only moves the scan, the queues  *)
(* or a note.                                                                *)
LEMMA LightFin ==
    ASSUME Base, FinInv, Light PROVE FinInv'
  <1>1. SameShape BY SameShapeIs DEF Light, Base, Types
  <1> QED BY <1>1, FinFrame DEF Light, SameReqs, SameWork, SameDone, Clean

(* FinInv, in a step that leaves the requests, the blocks and the shape of   *)
(* the pipe.                                                                 *)
LEMMA AsideFin ==
    ASSUME Base, FinInv, Aside, UNCHANGED <<finStores, stores, prevFin, returned>>,
           \A i \in DOMAIN pipe : pipe'[i].send = pipe[i].send /\ (pipe'[i].exec # "done" => pipe[i].exec # "done")
    PROVE FinInv'
BY FinFrame DEF Aside, SameReqs, SameDone

(* FinInv, when the loads of a step are begun.                               *)
LEMMA StartStepFin ==
    ASSUME Base, FinInv, StartStep PROVE FinInv'
  <1>0. PICK k \in DOMAIN pipe : k = At BY StartStepIs DEF Base
  <1>1. /\ pipe[k].exec = "no"
        /\ \A j \in DOMAIN pipe : j # k => pipe'[j] = pipe[j]
        /\ pipe'[k].send = pipe[k].send /\ StartLoads(pipe[k].retr)
    BY <1>0, StartStepIs DEF Base
  <1>2. Aside BY StartStepAside DEF Base
  <1>3. UNCHANGED <<finStores, stores, prevFin, returned>> BY <1>1 DEF StartLoads
  <1> QED BY <1>1, <1>2, <1>3, AsideFin

(* FinInv, when a running request is scheduled.                              *)
LEMMA TakeRunningFin ==
    ASSUME CacheAssumption, EngineAssumption, Base, PlaceInv, FinInv, TakeRunning PROVE FinInv'
  <1>1. UNCHANGED <<cacheVars, reqVars, doneVars, pipe, seen>>
    <2>0. PICK r \in Reqs : r = Here BY TakeRunningIs DEF Base
    <2> QED BY <2>0, TakeRunningIs DEF Base
  <1>2. /\ st' = st /\ finIds' = finIds /\ pipe' = pipe /\ seen' = seen
        /\ finStores' = finStores /\ stores' = stores /\ prevFin' = prevFin /\ returned' = returned
    BY <1>1 DEF cacheVars, workVars, reqVars, doneVars
  <1>3. SameShape BY <1>2, SameShapeIs DEF Base, Types
  <1> QED BY <1>2, <1>3, FinFrame DEF Clean

(* FinInv, when the last running request is preempted.                       *)
LEMMA PreemptFin ==
    ASSUME CacheAssumption, EngineAssumption, Base, FinInv, Preempt PROVE FinInv'
  <1>0. PICK v \in Reqs : v = Last(running) BY PreemptIs DEF Base
  <1>1. /\ st[v] = "running" /\ st'[v] = "preempted"
        /\ \A q \in Reqs : q # v => st'[q] = st[q]
        /\ UNCHANGED <<cacheVars, finIds, pipe, seen>>
    BY <1>0, PreemptIs DEF Base
  <1>2. /\ finIds' = finIds /\ pipe' = pipe /\ seen' = seen
        /\ finStores' = finStores /\ stores' = stores /\ prevFin' = prevFin /\ returned' = returned
    BY <1>1 DEF cacheVars, workVars
  <1>3. SameShape BY <1>2, SameShapeIs DEF Base, Types
  <1>4. \A r \in Reqs : /\ st[r] \in Over => st'[r] \in Over
                        /\ st'[r] = "gone" => st[r] = "gone"
                        /\ st[r] \notin Fresher => st'[r] \notin Fresher
    BY <1>1 DEF Over, Fresher
  <1> QED BY <1>2, <1>3, <1>4, FinFrame DEF Clean

(* FinInv, when the wait of a request for its load is over.                  *)
LEMMA PromoteFin ==
    ASSUME CacheAssumption, Base, FinInv, Promote PROVE FinInv'
  <1>0. PICK r \in Reqs : r = Head1 BY PromoteIs
  <1>1. /\ st[r] = "remote" /\ st'[r] = IF r \in hurt THEN "preempted" ELSE "waiting"
        /\ \A q \in Reqs : q # r => st'[q] = st[q]
        /\ seen \subseteq seen' /\ UNCHANGED <<cacheVars, finIds, pipe>>
    BY <1>0, PromoteIs
  <1>2. /\ finIds' = finIds /\ pipe' = pipe
        /\ finStores' = finStores /\ stores' = stores /\ prevFin' = prevFin /\ returned' = returned
    BY <1>1 DEF cacheVars, workVars
  <1>3. SameShape BY <1>2, SameShapeIs DEF Base, Types
  <1>4. \A q \in Reqs : /\ st[q] \in Over => st'[q] \in Over
                        /\ st'[q] = "gone" => st[q] = "gone"
                        /\ st[q] \notin Fresher => st'[q] \notin Fresher
    BY <1>1 DEF Over, Fresher
  <1>5. Clean' => Clean BY <1>1, CleanOf
  <1> QED BY <1>2, <1>3, <1>4, <1>5, FinFrame

(* FinInv, when a request is admitted.                                       *)
LEMMA AdmittedFin ==
    ASSUME CacheAssumption, EngineAssumption, Base, PlaceInv, FinInv, NEW base \in Nat,
           NEW async \in BOOLEAN, AdmittedAs(base, async)
    PROVE FinInv'
  <1>1. PICK r \in Reqs : /\ st[r] \in {"waiting", "preempted"} /\ st'[r] \in {"remote", "running"}
                          /\ st'[r] = "remote" => st[r] = "waiting"
                          /\ \A q \in Reqs : q # r => st'[q] = st[q]
                          /\ UNCHANGED <<workVars, finIds, pipe, seen>>
    <2>1. CASE async
      <3>1. PICK r \in Reqs : r = Head1 BY <2>1, LoadIs
      <3>2. /\ st[r] = "waiting" /\ st'[r] = "remote"
            /\ \A q \in Reqs : q # r => st'[q] = st[q]
            /\ UNCHANGED <<workVars, finIds, pipe, seen>>
        BY <2>1, <3>1, LoadIs
      <3> QED BY <3>2
    <2>2. CASE ~async
      <3>1. PICK r \in Reqs : r = Head1 BY <2>2, RunIs
      <3>2. /\ st[r] \in {"waiting", "preempted"} /\ st'[r] = "running"
            /\ \A q \in Reqs : q # r => st'[q] = st[q]
            /\ UNCHANGED <<workVars, finIds, pipe, seen>>
        BY <2>2, <3>1, RunIs
      <3> QED BY <3>2
    <2> QED BY <2>1, <2>2
  <1>2. /\ finIds' = finIds /\ pipe' = pipe /\ seen' = seen
        /\ finStores' = finStores /\ stores' = stores /\ prevFin' = prevFin /\ returned' = returned
    BY <1>1 DEF workVars
  <1>3. SameShape BY <1>2, SameShapeIs DEF Base, Types
  <1>4. \A q \in Reqs : /\ st[q] \in Over => st'[q] \in Over
                        /\ st'[q] = "gone" => st[q] = "gone"
                        /\ st[q] \notin Fresher => st'[q] \notin Fresher
    BY <1>1 DEF Over, Fresher
  <1> QED BY <1>2, <1>3, <1>4, FinFrame DEF Clean

(* FinInv, when a request arrives.                                           *)
LEMMA AddFin ==
    ASSUME Base, FinInv, NEW r \in Reqs, Add(r) PROVE FinInv'
  <1>1. /\ st[r] = "new" /\ st'[r] = "waiting" /\ \A q \in Reqs : q # r => st'[q] = st[q]
        /\ UNCHANGED <<cacheVars, doneVars, pipe, seen>>
    BY AddBase
  <1>2. /\ finIds' = finIds /\ pipe' = pipe /\ seen' = seen
        /\ finStores' = finStores /\ stores' = stores /\ prevFin' = prevFin /\ returned' = returned
    BY <1>1 DEF cacheVars, workVars, doneVars
  <1>3. SameShape BY <1>2, SameShapeIs DEF Base, Types
  <1>4. \A q \in Reqs : /\ st[q] \in Over => st'[q] \in Over
                        /\ st'[q] = "gone" => st[q] = "gone"
                        /\ st[q] \notin Fresher => st'[q] \notin Fresher
    BY <1>1 DEF Over, Fresher
  <1> QED BY <1>2, <1>3, <1>4, FinFrame DEF Clean

(* FinInv, when a request is aborted.                                        *)
LEMMA AbortFin ==
    ASSUME Base, FinInv, NEW r \in Reqs, Abort(r) PROVE FinInv'
  <1>1. /\ st[r] \in {"waiting", "preempted", "remote", "running"}
        /\ st'[r] = "finished" /\ \A q \in Reqs : q # r => st'[q] = st[q]
        /\ finIds' = finIds \cup {r} /\ seen \subseteq seen'
        /\ UNCHANGED <<workVars, pipe>>
    BY AbortBase
  <1>2. /\ pipe' = pipe
        /\ finStores' = finStores /\ stores' = stores /\ prevFin' = prevFin /\ returned' = returned
    BY <1>1 DEF workVars
  <1>3. SameShape BY <1>2, SameShapeIs DEF Base, Types
  <1>4. \A q \in Reqs : /\ st[q] \in Over => st'[q] \in Over
                        /\ st'[q] = "gone" => st[q] = "gone"
                        /\ st[q] \notin Fresher => st'[q] \notin Fresher
    BY <1>1 DEF Over, Fresher
  <1>5. \A q \in finIds' : q \in finIds \/ st'[q] \in Over BY <1>1 DEF Over
  <1>6. Clean' => Clean BY <1>1, CleanOf
  <1> QED BY <1>2, <1>3, <1>4, <1>5, <1>6, FinFrame

(* The step that is scheduled computes no request that has ended.           *)
LEMMA FinishScheduleFin ==
    ASSUME CacheAssumption, EngineAssumption, Base, FinInv, FinishSchedule PROVE FinInv'
  <1>0. PICK z \in Nat : z = Len(pipe) + 1 BY PipeIs DEF Base, Types
  <1>1. /\ DOMAIN pipe' = 1..z /\ DOMAIN pipe = 1..Len(pipe)
        /\ \A k \in DOMAIN pipe : pipe'[k] = pipe[k]
        /\ pipe'[z] = NewStep /\ finIds' = {}
        /\ seen \subseteq seen'
        /\ UNCHANGED <<workVars, st>>
    BY <1>0, FinishScheduleIs
  <1>2. /\ st' = st /\ finStores' = finStores /\ stores' = stores /\ prevFin' = prevFin
        /\ returned' = returned
    BY <1>1 DEF workVars
  <1>3. NewStep.n = cur.n /\ NewStep.fin = finIds /\ NewStep.send = {} BY NewStepIs DEF Base
  <1>4. DOMAIN pipe' = DOMAIN pipe \cup {z} /\ \A k \in DOMAIN pipe : k < z
    <2>1. Len(pipe) \in Nat BY PipeIs DEF Base, Types
    <2> QED BY <1>0, <1>1, <2>1
  <1>5. Clean' => Clean BY <1>1, CleanOf
  <1>6. \A r \in Reqs : st[r] \in Over => cur.n[r] = 0
    <2> SUFFICES ASSUME NEW r \in Reqs, st[r] \in Over PROVE cur.n[r] = 0 OBVIOUS
    <2>1. cur.n[r] \in Nat BY CurFields DEF Base, Types, CurTypes
    <2>2. ~(cur.n[r] > 0) BY CurOf DEF Base, Over
    <2> QED BY <2>1, <2>2
  <1>7. /\ finIds \subseteq Reqs /\ prevFin \subseteq Reqs /\ returned \subseteq Reqs /\ stores \subseteq Reqs
        /\ \A i \in DOMAIN pipe : pipe[i].fin \subseteq Reqs /\ pipe[i].send \subseteq Reqs
    BY PipeIs, StepFields DEF Base, Types, WorkTypes, DoneTypes
  <1>8. /\ \A r \in finIds \cup prevFin \cup returned : st[r] \in Over
        /\ \A i \in DOMAIN pipe : \A r \in pipe[i].fin \cup pipe[i].send : st[r] \in Over
    BY DEF FinInv
  <1>9. /\ \A r \in finIds' \cup prevFin' \cup returned' : st'[r] \in Over
        /\ \A i \in DOMAIN pipe' : \A r \in pipe'[i].fin \cup pipe'[i].send : st'[r] \in Over
    BY <1>1, <1>2, <1>3, <1>4, <1>8
  <1>10. ASSUME NEW i \in DOMAIN pipe', NEW r \in pipe'[i].fin, NEW j \in DOMAIN pipe', j >= i
         PROVE  pipe'[j].n[r] = 0
    <2>1. CASE j = z
      <3>1. r \in Reqs /\ st[r] \in Over BY <1>1, <1>2, <1>3, <1>4, <1>7, <1>9
      <3> QED BY <1>1, <1>3, <1>6, <2>1, <3>1
    <2>2. CASE j \in DOMAIN pipe
      <3>1. j < z /\ i \in Nat /\ j \in Nat BY <1>1, <1>4, <2>2
      <3>2. i # z BY <1>10, <3>1
      <3>3. i \in DOMAIN pipe BY <1>4, <3>2
      <3> QED BY <1>1, <1>10, <2>2, <3>3 DEF FinInv
    <2> QED BY <1>4, <2>1, <2>2
  <1>11. ASSUME NEW j \in DOMAIN pipe', pipe'[j].exec # "done"
         PROVE  /\ \A r \in prevFin' : pipe'[j].n[r] = 0
                /\ \A i \in DOMAIN pipe' : \A r \in pipe'[i].send : pipe'[j].n[r] = 0
                /\ Clean' => \A r \in Reqs : st'[r] = "gone" => pipe'[j].n[r] = 0
    <2>1. CASE j = z
      <3>1. \A r \in Reqs : st[r] \in Over => pipe'[j].n[r] = 0 BY <1>1, <1>3, <1>6, <2>1
      <3>2. \A r \in Reqs : st[r] = "gone" => pipe'[j].n[r] = 0 BY <3>1 DEF Over
      <3>3. \A i \in DOMAIN pipe' : \A r \in pipe'[i].send : pipe'[j].n[r] = 0
        BY <1>1, <1>2, <1>3, <1>4, <1>7, <1>9, <3>1
      <3> QED BY <1>2, <1>7, <1>8, <3>1, <3>2, <3>3
    <2>2. CASE j \in DOMAIN pipe
      <3>1. pipe'[j] = pipe[j] /\ pipe[j].exec # "done" BY <1>1, <1>11, <2>2
      <3>2. /\ \A r \in prevFin : pipe[j].n[r] = 0
            /\ \A i \in DOMAIN pipe : \A r \in pipe[i].send : pipe[j].n[r] = 0
            /\ Clean => \A r \in Reqs : st[r] = "gone" => pipe[j].n[r] = 0
        BY <2>2, <3>1 DEF FinInv
      <3> QED BY <1>1, <1>2, <1>3, <1>4, <1>5, <3>1, <3>2
    <2> QED BY <1>4, <2>1, <2>2
  <1>12. \A r \in stores' : /\ st'[r] \notin Fresher /\ (Clean' => st'[r] # "gone")
                            /\ \A i \in DOMAIN pipe' : r \notin pipe'[i].send
    BY <1>1, <1>2, <1>3, <1>4, <1>5 DEF FinInv
  <1>13. finStores' \cap stores' = {} BY <1>2 DEF FinInv
  <1> QED BY <1>9, <1>10, <1>11, <1>12, <1>13 DEF FinInv

(* A step that runs reports no request that a later one computes, and none  *)
(* with a store on its way.                                                 *)
LEMMA ExecuteFin ==
    ASSUME Base, FinInv, NEW over, Execute(over) PROVE FinInv'
  <1>0. PICK k \in DOMAIN pipe : k = At BY ExecuteIs DEF Base
  <1>1. /\ pipe[k] \in StepT /\ pipe[k].exec # "done"
        /\ \A i \in DOMAIN pipe : i < k => pipe[i].exec = "done"
        /\ SameShape /\ \A j \in DOMAIN pipe : j # k => pipe'[j] = pipe[j]
        /\ pipe'[k].exec = "done"
        /\ stores' \subseteq stores \cup Stored
        /\ prevFin' \subseteq prevFin \cup pipe[k].fin
        /\ pipe'[k].send \subseteq prevFin \cup pipe[k].fin
        /\ returned' \subseteq returned \cup prevFin \cup pipe[k].fin
        /\ finStores \cap stores = {} =>
              finStores' \cap stores' = {} /\ pipe'[k].send \cap stores' = {}
        /\ seen \subseteq seen'
    BY <1>0, ExecuteIs DEF Base
  <1>2. Aside BY ExecuteAside DEF Base
  <1>3. st' = st /\ finIds' = finIds BY <1>2 DEF Aside, SameReqs, SameDone
  <1>4. DOMAIN pipe' = DOMAIN pipe
        /\ \A i \in DOMAIN pipe : pipe'[i].n = pipe[i].n /\ pipe'[i].fin = pipe[i].fin
    BY <1>1 DEF SameShape
  <1>5. Clean' => Clean BY <1>1, CleanOf
  <1>6. /\ \A r \in finIds \cup prevFin \cup returned : st[r] \in Over
        /\ \A i \in DOMAIN pipe : \A r \in pipe[i].fin \cup pipe[i].send : st[r] \in Over
    BY DEF FinInv
  <1>7. \A r \in finIds' \cup prevFin' \cup returned' : st'[r] \in Over BY <1>1, <1>3, <1>6
  <1>8. ASSUME NEW i \in DOMAIN pipe', NEW r \in pipe'[i].fin \cup pipe'[i].send PROVE st'[r] \in Over
    <2>1. CASE r \in pipe'[i].fin BY <1>3, <1>4, <1>6, <2>1
    <2>2. CASE r \in pipe'[i].send /\ i = k BY <1>1, <1>3, <1>6, <2>2
    <2>3. CASE r \in pipe'[i].send /\ i # k BY <1>1, <1>3, <1>4, <1>6, <2>3
    <2> QED BY <1>8, <2>1, <2>2, <2>3
  <1>9. \A i \in DOMAIN pipe' : \A r \in pipe'[i].fin :
          \A j \in DOMAIN pipe' : j >= i => pipe'[j].n[r] = 0
    BY <1>4 DEF FinInv
  <1>10. ASSUME NEW j \in DOMAIN pipe', pipe'[j].exec # "done"
         PROVE  /\ \A r \in prevFin' : pipe'[j].n[r] = 0
                /\ \A i \in DOMAIN pipe' : \A r \in pipe'[i].send : pipe'[j].n[r] = 0
                /\ Clean' => \A r \in Reqs : st'[r] = "gone" => pipe'[j].n[r] = 0
    <2>1. j \in DOMAIN pipe /\ j # k /\ pipe'[j] = pipe[j] /\ pipe[j].exec # "done" BY <1>1, <1>4, <1>10
    <2>2. j >= k BY <1>1, <2>1, PipeIs DEF Base, Types
    <2>3. /\ \A r \in prevFin : pipe[j].n[r] = 0
          /\ \A i \in DOMAIN pipe : \A r \in pipe[i].send : pipe[j].n[r] = 0
          /\ Clean => \A r \in Reqs : st[r] = "gone" => pipe[j].n[r] = 0
      BY <2>1 DEF FinInv
    <2>4. \A r \in pipe[k].fin : pipe[j].n[r] = 0 BY <2>1, <2>2 DEF FinInv
    <2>5. \A i \in DOMAIN pipe' : \A r \in pipe'[i].send : pipe'[j].n[r] = 0
      <3> SUFFICES ASSUME NEW i \in DOMAIN pipe, NEW r \in pipe'[i].send PROVE pipe[j].n[r] = 0
        BY <1>4, <2>1
      <3>1. CASE i = k BY <1>1, <2>3, <2>4, <3>1
      <3>2. CASE i # k BY <1>1, <2>3, <3>2
      <3> QED BY <3>1, <3>2
    <2> QED BY <1>1, <1>3, <1>5, <2>1, <2>3, <2>4, <2>5
  <1>11. ASSUME NEW r \in stores'
         PROVE  /\ st'[r] \notin Fresher /\ (Clean' => st'[r] # "gone")
                /\ \A i \in DOMAIN pipe' : r \notin pipe'[i].send
    <2>1. r \notin pipe'[k].send BY <1>1 DEF FinInv
    <2>2. CASE r \in stores
      <3>1. st[r] \notin Fresher /\ (Clean => st[r] # "gone") /\ \A i \in DOMAIN pipe : r \notin pipe[i].send
        BY <2>2 DEF FinInv
      <3> QED BY <1>1, <1>3, <1>4, <1>5, <2>1, <3>1
    <2>3. CASE r \in Stored
      <3>1. PICK p \in pipe[k].puts : r = p.kv[1] BY <1>0, <2>3 DEF Stored
      <3>2. pipe[k].n[r] > 0 BY <3>1 DEF Base, StepInv
      <3>3. r \in Reqs BY <1>1, <3>1, StepFields, WriteFields
      <3>4. st[r] \notin Fresher BY <3>2, <3>3 DEF Base, StepInv
      <3>5. Clean => st[r] # "gone" BY <1>1, <3>2, <3>3 DEF FinInv
      <3>6. \A i \in DOMAIN pipe : r \notin pipe[i].send BY <1>1, <3>2 DEF FinInv
      <3> QED BY <1>1, <1>3, <1>4, <1>5, <2>1, <3>4, <3>5, <3>6
    <2> QED BY <1>1, <2>2, <2>3
  <1>12. finStores' \cap stores' = {} BY <1>1 DEF FinInv
  <1> QED BY <1>7, <1>8, <1>9, <1>10, <1>11, <1>12 DEF FinInv

(* The blocks of a request are given back after its last step and store.    *)
LEMMA UpdatedFin ==
    ASSUME CacheAssumption, EngineAssumption, Base, PlaceInv, LoadInv, FinInv,
           NEW over, NEW s, UpdatedAs(s, over)
    PROVE FinInv'
  <1>1. /\ pipe # << >> /\ pipe' = Tail(pipe) /\ UNCHANGED <<workVars, seen>> BY DEF UpdatedAs
  <1>2. /\ finStores' = finStores /\ stores' = stores /\ prevFin' = prevFin /\ returned' = returned
        /\ (Clean' => Clean)
    BY <1>1 DEF workVars, Clean
  <1>3. \A i \in DOMAIN pipe' : i = 1 /\ 2 \in DOMAIN pipe /\ pipe'[i] = pipe[2] /\ DOMAIN pipe = {1, 2}
    BY <1>1, TailIs DEF Base, Types
  <1>4. /\ s = pipe[1] /\ s \in StepT /\ 1 \in DOMAIN pipe
        /\ \A r \in Reqs : st'[r] = IF r \in LeftBy(s, over) THEN "gone"
                                    ELSE IF r \in over THEN "finished" ELSE st[r]
        /\ finIds' = finIds \cup over
    BY UpdatedTypes
  <1>5. /\ over \subseteq Reqs /\ LeftBy(s, over) \subseteq s.recv \cup s.send
        /\ \A r \in LeftBy(s, over) : st[r] = "finished" \/ r \in over
        /\ \A r \in over : st[r] \notin Over
    BY <1>4, LeftAre DEF Base, UpdatedAs
  <1>6. /\ finIds \subseteq Reqs /\ prevFin \subseteq Reqs /\ returned \subseteq Reqs /\ stores \subseteq Reqs
        /\ \A i \in DOMAIN pipe : pipe[i].fin \subseteq Reqs /\ pipe[i].send \subseteq Reqs
    BY PipeIs, StepFields DEF Base, Types, WorkTypes, DoneTypes
  <1>7. \A r \in Reqs : st[r] \in Over \/ r \in over => st'[r] \in Over BY <1>4 DEF Over
  <1>8. /\ \A r \in finIds \cup prevFin \cup returned : st[r] \in Over
        /\ \A i \in DOMAIN pipe : \A r \in pipe[i].fin \cup pipe[i].send : st[r] \in Over
    BY DEF FinInv
  <1>9. /\ \A r \in finIds' \cup prevFin' \cup returned' : st'[r] \in Over
        /\ \A i \in DOMAIN pipe' : \A r \in pipe'[i].fin \cup pipe'[i].send : st'[r] \in Over
    BY <1>2, <1>3, <1>4, <1>5, <1>6, <1>7, <1>8
  <1>10. \A i \in DOMAIN pipe' : \A r \in pipe'[i].fin :
          \A j \in DOMAIN pipe' : j >= i => pipe'[j].n[r] = 0
    BY <1>3 DEF FinInv
  <1>11. ASSUME Clean', NEW r \in Reqs, r \in s.recv PROVE Unrun(r)
    BY <1>2, <1>4, <1>11 DEF LoadInv, LoadOf, RecvOf
  <1>12. ASSUME NEW j \in DOMAIN pipe', pipe'[j].exec # "done"
         PROVE  /\ \A r \in prevFin' : pipe'[j].n[r] = 0
                /\ \A i \in DOMAIN pipe' : \A r \in pipe'[i].send : pipe'[j].n[r] = 0
                /\ Clean' => \A r \in Reqs : st'[r] = "gone" => pipe'[j].n[r] = 0
    <2>1. 2 \in DOMAIN pipe /\ pipe'[j] = pipe[2] /\ pipe[2].exec # "done" BY <1>3, <1>12
    <2>2. /\ \A r \in prevFin : pipe[2].n[r] = 0
          /\ \A i \in DOMAIN pipe : \A r \in pipe[i].send : pipe[2].n[r] = 0
          /\ Clean => \A r \in Reqs : st[r] = "gone" => pipe[2].n[r] = 0
      BY <2>1 DEF FinInv
    <2>3. ASSUME Clean', NEW r \in Reqs, st'[r] = "gone" PROVE pipe[2].n[r] = 0
      <3>1. CASE st[r] = "gone" BY <1>2, <2>2, <2>3, <3>1
      <3>2. CASE r \in s.send BY <1>4, <2>2, <3>2
      <3>3. CASE r \in s.recv BY <1>11, <2>1, <2>3, <3>3 DEF Unrun
      <3> QED BY <1>4, <1>5, <2>3, <3>1, <3>2, <3>3
    <2> QED BY <1>2, <1>3, <2>1, <2>2, <2>3
  <1>13. ASSUME NEW r \in stores'
         PROVE  /\ st'[r] \notin Fresher /\ (Clean' => st'[r] # "gone")
                /\ \A i \in DOMAIN pipe' : r \notin pipe'[i].send
    <2>1. /\ r \in Reqs /\ st[r] \notin Fresher /\ (Clean => st[r] # "gone")
          /\ \A i \in DOMAIN pipe : r \notin pipe[i].send
      BY <1>2, <1>6 DEF FinInv
    <2>2. st'[r] \notin Fresher BY <1>4, <2>1 DEF Fresher
    <2>3. Clean' => st'[r] # "gone"
      <3> SUFFICES ASSUME Clean', st'[r] = "gone" PROVE FALSE OBVIOUS
      <3>1. r \in LeftBy(s, over) BY <1>2, <1>4, <2>1
      <3>2. r \in s.recv BY <1>4, <1>5, <2>1, <3>1
      <3>3. Unrun(r) BY <1>11, <2>1, <3>2
      <3> QED BY <1>2, <3>3 DEF Unrun
    <2> QED BY <1>3, <2>1, <2>2, <2>3
  <1>14. finStores' \cap stores' = {} BY <1>2 DEF FinInv
  <1> QED BY <1>9, <1>10, <1>12, <1>13, <1>14 DEF FinInv

-----------------------------------------------------------------------------
(* Core is inductive.                                                        *)

(* What keeps the blocks with their owners.                                 *)
Core == Base /\ PlaceInv /\ TableInv /\ TrkInv /\ LoadInv /\ BadInv /\ FinInv

(* The decisions of schedule() that change only queues and trackers.        *)
LEMMA LightCore ==
    ASSUME Core, Light, Types', QueueInv', CurInv' PROVE Core'
  <1>1. Base' BY LightBase DEF Core
  <1>2. PlaceInv' BY <1>1, LightPlace DEF Core
  <1>3. TableInv' BY LightTable DEF Core
  <1>4. TrkInv' BY LightTrk DEF Core
  <1>5. LoadInv' BY LightLoad DEF Core
  <1>6. BadInv' BY <1>5, LightBad DEF Core
  <1>7. FinInv' BY LightFin DEF Core
  <1> QED BY <1>1, <1>2, <1>3, <1>4, <1>5, <1>6, <1>7 DEF Core

(* A step that leaves the transfers of the worker as they are.              *)
LEMMA StillCore ==
    ASSUME Core, Aside, Types', pipe' = pipe, content' = content, seen' = seen,
           UNCHANGED <<loading, dma, stores, finStores, prevFin, returned, dropped, errs>>
    PROVE  Core'
  <1>1. Base' BY QuietBase DEF Core
  <1>2. PlaceInv' BY <1>1, AsidePlace DEF Core
  <1>3. TableInv' BY AsideTable DEF Core
  <1>4. TrkInv'
    <2>1. \A r \in Reqs : r \in loading <=> dma[r].s # "none" BY DEF Core, TrkInv, TrkOf
    <2> QED BY <2>1, AsideTrk DEF Core
  <1>5. LoadInv' BY StillLoad DEF Core
  <1>6. BadInv' BY <1>5, StillBad DEF Core
  <1>7. FinInv' BY AsideFin DEF Core
  <1> QED BY <1>1, <1>2, <1>3, <1>4, <1>5, <1>6, <1>7 DEF Core

(* Core, when a running request is scheduled.                                *)
LEMMA TakeRunningCore ==
    ASSUME CacheAssumption, EngineAssumption, Core, TakeRunning PROVE Core'
  <1>1. Base' BY TakeRunningBase DEF Core
  <1>2. PlaceInv' BY TakeRunningPlace DEF Core
  <1>3. TableInv' BY TakeRunningTable DEF Core
  <1>4. TrkInv' BY TakeRunningTrk DEF Core
  <1>5. LoadInv' BY TakeRunningLoad DEF Core
  <1>6. BadInv' BY <1>5, TakeRunningBad DEF Core
  <1>7. FinInv' BY TakeRunningFin DEF Core
  <1> QED BY <1>1, <1>2, <1>3, <1>4, <1>5, <1>6, <1>7 DEF Core

(* Core, when the last running request is preempted.                         *)
LEMMA PreemptCore ==
    ASSUME CacheAssumption, EngineAssumption, Core, Preempt PROVE Core'
  <1>1. Base' BY PreemptBase DEF Core
  <1>2. PlaceInv' BY PreemptPlace DEF Core
  <1>3. TableInv' BY PreemptTable DEF Core
  <1>4. TrkInv' BY PreemptTrk DEF Core
  <1>5. LoadInv' BY PreemptLoad DEF Core
  <1>6. BadInv' BY <1>5, PreemptBad DEF Core
  <1>7. FinInv' BY PreemptFin DEF Core
  <1> QED BY <1>1, <1>2, <1>3, <1>4, <1>5, <1>6, <1>7 DEF Core

(* Core, when the wait of a request for its load is over.                    *)
LEMMA PromoteCore ==
    ASSUME CacheAssumption, EngineAssumption, Core, Promote PROVE Core'
  <1>1. Base' BY PromoteIs DEF Core
  <1>2. PlaceInv' BY PromotePlace DEF Core
  <1>3. TableInv' BY PromoteTable DEF Core
  <1>4. TrkInv' BY PromoteTrk DEF Core
  <1>5. LoadInv' BY PromoteLoad DEF Core
  <1>6. BadInv' BY <1>5, PromoteBad DEF Core
  <1>7. FinInv' BY PromoteFin DEF Core
  <1> QED BY <1>1, <1>2, <1>3, <1>4, <1>5, <1>6, <1>7 DEF Core

(* Core, when a request is admitted.                                         *)
LEMMA AdmitCore ==
    ASSUME CacheAssumption, EngineAssumption, Core, Admit PROVE Core'
  <1>1. PICK base \in Nat, async \in BOOLEAN : AdmittedAs(base, async) BY AdmitIs DEF Core
  <1>2. CASE async = TRUE
    <2>1. AdmittedAs(base, TRUE) BY <1>1, <1>2
    <2>2. Base' BY <2>1, LoadIs DEF Core
    <2>3. PlaceInv' BY <2>1, LoadPlace DEF Core
    <2>4. TableInv' BY <2>1, LoadTable DEF Core
    <2>5. TrkInv' BY <2>1, LoadTrk DEF Core
    <2>6. LoadInv' BY <2>1, LoadLoad DEF Core
    <2>7. BadInv' BY <1>1, <2>6, AdmittedBad DEF Core
    <2>8. FinInv' BY <1>1, AdmittedFin DEF Core
    <2> QED BY <2>2, <2>3, <2>4, <2>5, <2>6, <2>7, <2>8 DEF Core
  <1>3. CASE async = FALSE
    <2>1. AdmittedAs(base, FALSE) BY <1>1, <1>3
    <2>2. Base' BY <2>1, RunIs DEF Core
    <2>3. PlaceInv' BY <2>1, RunPlace DEF Core
    <2>4. TableInv' BY <2>1, RunTable DEF Core
    <2>5. TrkInv' BY <2>1, RunTrk DEF Core
    <2>6. LoadInv' BY <2>1, RunLoad DEF Core
    <2>7. BadInv' BY <1>1, <2>6, AdmittedBad DEF Core
    <2>8. FinInv' BY <1>1, AdmittedFin DEF Core
    <2> QED BY <2>2, <2>3, <2>4, <2>5, <2>6, <2>7, <2>8 DEF Core
  <1> QED BY <1>2, <1>3

(* Core, when a call of schedule() ends.                                     *)
LEMMA FinishScheduleCore ==
    ASSUME CacheAssumption, EngineAssumption, Core, FinishSchedule PROVE Core'
  <1>1. Base' BY FinishScheduleBase DEF Core
  <1>2. PlaceInv' BY FinishSchedulePlace DEF Core
  <1>3. TableInv' BY FinishScheduleTable DEF Core
  <1>4. TrkInv' BY FinishScheduleTrk DEF Core
  <1>5. LoadInv' BY FinishScheduleLoad DEF Core
  <1>6. BadInv' BY FinishScheduleBad DEF Core
  <1>7. FinInv' BY FinishScheduleFin DEF Core
  <1> QED BY <1>1, <1>2, <1>3, <1>4, <1>5, <1>6, <1>7 DEF Core

(* Core, in any decision of schedule().                                      *)
LEMMA ScheduleCore ==
    ASSUME CacheAssumption, EngineAssumption, Core, Schedule PROVE Core'
  <1>1. CASE Begin BY <1>1, BeginLight, LightCore DEF Core, Base
  <1>2. CASE PassOver BY <1>2, PassOverLight, LightCore DEF Core, Base
  <1>3. CASE TakeRunning BY <1>3, TakeRunningCore
  <1>4. CASE Preempt BY <1>4, PreemptCore
  <1>5. CASE EndScan BY <1>5, EndScanLight, LightCore DEF Core, Base
  <1>6. CASE SetAside BY <1>6, SetAsideLight, LightCore DEF Core, Base
  <1>7. CASE Promote BY <1>7, PromoteCore
  <1>8. CASE LookupPending BY <1>8, LookupPendingLight, LightCore DEF Core, Base
  <1>9. CASE StopAdmitting BY <1>9, StopAdmittingLight, LightCore DEF Core, Base
  <1>10. CASE EndAdmitting BY <1>10, EndAdmittingLight, LightCore DEF Core, Base
  <1>11. CASE Admit BY <1>11, AdmitCore
  <1>12. CASE FinishSchedule BY <1>12, FinishScheduleCore
  <1> QED BY <1>1, <1>2, <1>3, <1>4, <1>5, <1>6, <1>7, <1>8, <1>9, <1>10, <1>11, <1>12 DEF Schedule

(* Core, when the loads of a step are begun.                                 *)
LEMMA StartStepCore ==
    ASSUME Core, StartStep PROVE Core'
  <1>1. Base' BY StartStepBase DEF Core
  <1>2. PlaceInv'
    <2>1. Aside BY StartStepAside DEF Core, Base
    <2>2. stores' = stores BY StartStepIs DEF Core, Base, StartLoads
    <2> QED BY <1>1, <2>1, <2>2, AsidePlace DEF Core
  <1>3. TableInv' BY StartStepAside, AsideTable DEF Core, Base
  <1>4. TrkInv' BY StartStepTrk DEF Core
  <1>5. LoadInv' BY StartStepLoad DEF Core
  <1>6. BadInv' BY StartStepBad DEF Core
  <1>7. FinInv' BY StartStepFin DEF Core
  <1> QED BY <1>1, <1>2, <1>3, <1>4, <1>5, <1>6, <1>7 DEF Core

(* Core, when a step is executed.                                            *)
LEMMA ExecuteCore ==
    ASSUME Core, NEW over, Execute(over) PROVE Core'
  <1>1. Base' BY ExecuteBase DEF Core
  <1>2. PlaceInv' BY ExecutePlace DEF Core
  <1>3. TableInv' BY ExecuteAside, AsideTable DEF Core, Base
  <1>4. TrkInv' BY ExecuteTrk DEF Core
  <1>5. LoadInv' BY ExecuteLoad DEF Core
  <1>6. BadInv' BY ExecuteBad DEF Core
  <1>7. FinInv' BY ExecuteFin DEF Core
  <1> QED BY <1>1, <1>2, <1>3, <1>4, <1>5, <1>6, <1>7 DEF Core

(* Core, when a transfer ends.                                               *)
LEMMA TransferEndsCore ==
    ASSUME Core, NEW r \in Reqs, TransferEnds(r) PROVE Core'
  <1>0. /\ Aside /\ Types' /\ pipe' = pipe
        /\ UNCHANGED <<stores, finStores, prevFin, returned, dropped, errs>>
    BY TransferEndsAside DEF Core, Base
  <1>1. Base' BY <1>0, QuietBase DEF Core
  <1>2. PlaceInv' BY <1>0, <1>1, AsidePlace DEF Core
  <1>3. TableInv' BY <1>0, AsideTable DEF Core
  <1>4. TrkInv' BY TransferEndsTrk DEF Core
  <1>5. LoadInv' BY TransferEndsLoad DEF Core
  <1>6. BadInv' BY <1>0, <1>5, StillBad DEF Core
  <1>7. FinInv' BY <1>0, AsideFin DEF Core
  <1> QED BY <1>1, <1>2, <1>3, <1>4, <1>5, <1>6, <1>7 DEF Core

(* Core, when a request arrives.                                             *)
LEMMA AddCore ==
    ASSUME CacheAssumption, Core, NEW r \in Reqs, Add(r) PROVE Core'
  <1>1. Base' BY AddBase DEF Core
  <1>2. PlaceInv' BY AddPlace DEF Core
  <1>3. TableInv' BY AddTable DEF Core
  <1>4. TrkInv' BY AddTrk DEF Core
  <1>5. LoadInv' BY AddLoad DEF Core
  <1>6. BadInv' BY <1>5, AddBad DEF Core
  <1>7. FinInv' BY AddFin DEF Core
  <1> QED BY <1>1, <1>2, <1>3, <1>4, <1>5, <1>6, <1>7 DEF Core

(* Core, when a request is aborted.                                          *)
LEMMA AbortCore ==
    ASSUME Core, NEW r \in Reqs, Abort(r) PROVE Core'
  <1>1. Base' BY AbortBase DEF Core
  <1>2. PlaceInv' BY AbortPlace DEF Core
  <1>3. TableInv' BY AbortTable DEF Core
  <1>4. TrkInv' BY AbortTrk DEF Core
  <1>5. LoadInv' BY AbortLoad DEF Core
  <1>6. BadInv' BY <1>5, AbortBad DEF Core
  <1>7. FinInv' BY AbortFin DEF Core
  <1> QED BY <1>1, <1>2, <1>3, <1>4, <1>5, <1>6, <1>7 DEF Core

(* Core, when the output of a step is processed.                             *)
LEMMA UpdateCore ==
    ASSUME CacheAssumption, EngineAssumption, Core, Update PROVE Core'
  <1>0. PICK over : UpdatedAs(Head(pipe), over) BY UpdateIs
  <1>1. PICK s : s = Head(pipe) OBVIOUS
  <1>2. UpdatedAs(s, over) BY <1>0, <1>1
  <1>3. Base' BY <1>2, UpdatedBase DEF Core
  <1>4. PlaceInv' BY <1>2, UpdatedPlace DEF Core
  <1>5. TableInv' BY <1>2, UpdatedTable DEF Core
  <1>6. TrkInv' BY <1>2, UpdatedTrk DEF Core
  <1>7. LoadInv' BY <1>2, UpdatedLoad DEF Core
  <1>8. BadInv' BY <1>2, <1>7, UpdatedBad DEF Core
  <1>9. FinInv' BY <1>2, UpdatedFin DEF Core
  <1> QED BY <1>3, <1>4, <1>5, <1>6, <1>7, <1>8, <1>9 DEF Core

(* Core, when nothing changes.                                               *)
LEMMA SameCore ==
    ASSUME Core, UNCHANGED vars PROVE Core'
  <1>1. SameAside /\ UNCHANGED workVars
    BY DEF vars, engineVars, cacheVars, SameAside
  <1>2. WorkTypes' BY <1>1, WorkTypesSame DEF Core, Base, Types
  <1>3. Aside /\ Types' /\ pipe' = pipe BY <1>1, <1>2, QuietIs DEF Core, Base
  <1>4. content' = content /\ seen' = seen /\ UNCHANGED <<loading, dma, stores, finStores, prevFin, returned, dropped, errs>>
    BY <1>1 DEF SameAside, engineVars, blockVars, workVars
  <1> QED BY <1>3, <1>4, StillCore

(* Every step keeps Core.                                                    *)
LEMMA NextCore ==
    ASSUME CacheAssumption, EngineAssumption, Core, [Next]_vars PROVE Core'
  <1>1. CASE Schedule BY <1>1, ScheduleCore
  <1>2. CASE StartStep BY <1>2, StartStepCore
  <1>3. ASSUME NEW over \in SUBSET Reqs, Execute(over) PROVE Core' BY <1>3, ExecuteCore
  <1>4. CASE Crash BY <1>4, CrashAside, StillCore DEF Core, Base
  <1>5. CASE Update BY <1>5, UpdateCore
  <1>6. ASSUME NEW r \in Reqs, TransferEnds(r) PROVE Core' BY <1>6, TransferEndsCore
  <1>7. ASSUME NEW r \in Reqs, LookupEnds(r) PROVE Core' BY <1>7, LookupEndsAside, StillCore DEF Core, Base
  <1>8. ASSUME NEW r \in Reqs, Add(r) PROVE Core' BY <1>8, AddCore
  <1>9. ASSUME NEW r \in Reqs, Abort(r) PROVE Core' BY <1>9, AbortCore
  <1>10. CASE Heartbeat BY <1>10, HeartbeatAside, StillCore DEF Core, Base
  <1>11. CASE UNCHANGED vars BY <1>11, SameCore
  <1> QED BY <1>1, <1>2, <1>3, <1>4, <1>5, <1>6, <1>7, <1>8, <1>9, <1>10, <1>11 DEF Next, Work

-----------------------------------------------------------------------------
(* Core holds, and what follows.                                             *)

(* The empty sequence.                                                       *)
LEMMA EmptyIs ==
  /\ << >> \in Seq(Reqs) /\ << >> \in Seq(Blocks) /\ << >> \in Seq(StepT) /\ DOMAIN << >> = {} /\ Len(<< >>) = 0
  /\ Range(<< >>) = {} /\ IsInjective(<< >>)
  BY EmptySeq DEF Range, IsInjective

(* The types hold at first.                                                  *)
LEMMA InitTypes ==
    ASSUME CacheAssumption, EngineAssumption, Init PROVE Types
  <1> USE DEF Init, EngineInit, CacheInit
  <1>1. TrkTypes
    <2>1. NoTracker \in TrackerT BY NoTrackerIs
    <2> QED BY <2>1 DEF TrkTypes
  <1>2. WorkTypes
    <2>1. NoLoad \in LoadT BY EmptyIs DEF NoLoad, LoadT
    <2> QED BY <2>1 DEF WorkTypes
  <1>3. QueueTypes BY EmptyIs DEF QueueTypes
  <1>4. ReqTypes BY DEF ReqTypes, Zero, Sts
  <1>5. BlockTypes BY EmptyIs DEF BlockTypes, Nothing
  <1>6. DoneTypes BY DEF DoneTypes
  <1>7. PipeTypes BY EmptyIs DEF PipeTypes, EngineAssumption
  <1>8. CurTypes BY IdleTyped DEF CurTypes
  <1> QED BY <1>1, <1>2, <1>3, <1>4, <1>5, <1>6, <1>7, <1>8 DEF Types

(* Base holds at first.                                                      *)
LEMMA InitBase ==
    ASSUME CacheAssumption, EngineAssumption, Init PROVE Base
  <1>1. Types BY InitTypes
  <1>2. /\ pipe = << >> /\ DOMAIN pipe = {} /\ cur = Idle /\ waiting = << >> /\ skipped = << >> /\ running = << >>
        /\ \A r \in Reqs : st[r] = "new"
        /\ \A r \in Reqs : table[r] = << >> /\ Range(table[r]) = {} /\ IsInjective(table[r])
        /\ free = Blocks /\ deferred = {}
    BY EmptyIs DEF Init, EngineInit, Nothing
  <1>3. cur.skip = << >> BY <1>2, IdleIs
  <1>4. QueueInv BY <1>2, <1>3, EmptyIs DEF QueueInv, Waits
  <1>5. CurInv
    <2>1. cur' = Idle => CurInv' BY IdleCur
    <2>2. /\ cur.pass = "idle" /\ cur.skip = << >> /\ cur.preempted = FALSE
          /\ \A r \in Reqs : cur.n[r] = 0 /\ cur.got[r] = << >>
      BY <1>2, IdleIs, ZeroIs
    <2> QED BY <1>2, <2>2 DEF CurInv
  <1>6. BlockInv BY <1>2 DEF BlockInv, Partition
  <1>7. StepInv BY <1>2 DEF StepInv
  <1> QED BY <1>1, <1>4, <1>5, <1>6, <1>7 DEF Base

(* Core holds at first.                                                      *)
LEMMA InitCore ==
    ASSUME CacheAssumption, EngineAssumption, Init PROVE Core
  <1>1. Base BY InitBase
  <1>2. /\ pipe = << >> /\ DOMAIN pipe = {} /\ seen = {}
        /\ \A r \in Reqs : /\ st[r] = "new" /\ computed[r] = 0 /\ out[r] = 0 /\ place[r] = 0
                           /\ table[r] = << >> /\ trk[r] = NoTracker /\ dma[r] = NoLoad
        /\ place = Zero /\ hurt = {} /\ stores = {} /\ loading = {} /\ dropped = {} /\ errs = {}
        /\ recvDone = {} /\ recvFailed = {} /\ finIds = {} /\ prevFin = {} /\ returned = {} /\ finStores = {}
    BY EmptyIs DEF Init, EngineInit, CacheInit, Zero, Nothing
  <1>3. PlaceInv
    <2> SUFFICES ASSUME NEW r \in Reqs PROVE PlaceOf(r) BY <1>2 DEF PlaceInv
    <2>1. Count(r) = 0 BY <1>2, CountIs DEF Sampled
    <2>2. Tokens(r) = Prompt /\ Prompt \in Nat \ {0} /\ MaxNew \in Nat \ {0}
      BY <1>2 DEF Tokens, CacheAssumption, EngineAssumption
    <2> QED BY <1>2, <2>1, <2>2 DEF PlaceOf, Fresher, Over
  <1>4. TableInv
    <2>1. CacheAssumption => Prompt > 0 BY DEF CacheAssumption
    <2> QED BY <1>2, <2>1, EmptyIs DEF TableInv, TableOf
  <1>5. TrkInv BY <1>2, NoTrackerIs DEF TrkInv, TrkOf, Over, NoLoad
  <1>6. LoadInv
    <2> SUFFICES ASSUME NEW r \in Reqs PROVE LoadOf(r) BY DEF LoadInv
    <2> QED BY <1>2 DEF LoadOf, WantOf, RetrOf, LoadingOf, DroppedOf, RecvOf, CameOf
  <1>7. BadInv BY <1>2 DEF BadInv
  <1>8. FinInv BY <1>2 DEF FinInv
  <1> QED BY <1>1, <1>3, <1>4, <1>5, <1>6, <1>7, <1>8 DEF Core

(* Core holds in every state.                                                *)
THEOREM CoreHolds == Spec => []Core
  <1>1. Init => Core BY CacheAssumption, EngineAssumption, InitCore
  <1>2. Core /\ [Next]_vars => Core' BY CacheAssumption, EngineAssumption, NextCore
  <1> QED BY <1>1, <1>2, PTL DEF Spec

(* The invariant implies the types and that the queues match the statuses.   *)
LEMMA CoreTypeOK ==
    ASSUME CacheAssumption, EngineAssumption, Core PROVE TypeOK
  <1>1. Types /\ QueueInv /\ PlaceInv BY DEF Core, Base
  <1>2. QueuesMatch
    <2>1. /\ waiting \in Seq(Reqs) /\ skipped \in Seq(Reqs) /\ running \in Seq(Reqs) /\ cur.skip \in Seq(Reqs)
      BY <1>1, CurFields DEF Types, QueueTypes, CurTypes
    <2> DEFINE a == waiting \o skipped
    <2>2. a \in Seq(Reqs) /\ Range(a) = Range(waiting) \cup Range(skipped) BY <2>1, RangeConcatenation
    <2>3. IsInjective(a) BY <2>1, <1>1, InjectiveConcat DEF QueueInv
    <2>4. Range(a) \cap Range(cur.skip) = {} BY <2>2, <1>1 DEF QueueInv
    <2>5. IsInjective(a \o cur.skip) /\ Range(a \o cur.skip) = Range(a) \cup Range(cur.skip)
      <3> HIDE DEF a
      <3>1. IsInjective(cur.skip) BY <1>1 DEF QueueInv
      <3>2. Range(a \o cur.skip) = Range(a) \cup Range(cur.skip) BY <2>1, <2>2, RangeConcatenation
      <3> QED BY <3>1, <3>2, <2>1, <2>2, <2>3, <2>4, InjectiveConcat
    <2>6. a \o cur.skip = waiting \o skipped \o cur.skip OBVIOUS
    <2> QED BY <2>2, <2>5, <2>6, <1>1 DEF QueuesMatch, QueueInv, Waits
  <1>3. ASSUME NEW r \in Reqs
        PROVE  /\ computed[r] \in Nat /\ out[r] \in 0..MaxNew /\ place[r] \in Nat
               /\ "stray" \notin seen => computed[r] < Prompt + MaxNew /\ place[r] <= Depth
               /\ Range(table[r]) \subseteq Blocks
    <2>1. PlaceOf(r) BY <1>1 DEF PlaceInv
    <2>2. computed[r] \in Nat /\ out[r] \in Nat /\ place[r] \in Nat /\ MaxNew \in Nat
      BY <1>1, ReqFields DEF Types
    <2>3. out[r] \in 0..MaxNew BY <2>1, <2>2 DEF PlaceOf
    <2>4. Clean => place[r] <= Depth
      <3>1. CASE Depth = 1 
        <4>1. place[r] = 0 BY <3>1, <1>1, ZeroIs DEF PlaceInv
        <4> QED BY <4>1, <3>1
      <3>2. CASE Depth = 2 BY <3>2, <2>1 DEF PlaceOf
      <3> QED BY <3>1, <3>2 DEF EngineAssumption
    <2>5. Range(table[r]) \subseteq Blocks
      <3>1. table[r] \in Seq(Blocks) BY <1>1 DEF Types, BlockTypes
      <3> QED BY <3>1, SeqIn
    <2> QED BY <2>1, <2>2, <2>3, <2>4, <2>5 DEF PlaceOf, Clean
  <1> QED BY <1>1, <1>2, <1>3 DEF TypeOK, Types, ReqTypes, DoneTypes, BlockTypes, PipeTypes, Sts

(* A block is counted once: free, of one request, or of one deferral.       *)
LEMMA CoreConserves ==
    ASSUME Core PROVE BlocksConserved
  <1>1. Partition(table, free, deferred) BY DEF Core, Base, BlockInv
  <1> SUFFICES ASSUME NEW b \in Blocks
               PROVE Cardinality({r \in Reqs : b \in Range(table[r])})
                     + Cardinality({d \in deferred : b \in d.blocks})
                     + (IF b \in free THEN 1 ELSE 0) = 1
    BY DEF BlocksConserved
  <1> DEFINE T == {r \in Reqs : b \in Range(table[r])}
             D == {d \in deferred : b \in d.blocks}
  <1>2. Cardinality({}) = 0 BY FS_EmptySet
  <1>3. CASE b \in free
    <2>1. T = {} /\ D = {} BY <1>1, <1>3 DEF Partition
    <2>2. Cardinality(T) = 0 /\ Cardinality(D) = 0 BY <2>1, <1>2
    <2> QED BY <2>2, <1>3
  <1>4. CASE \E r \in Reqs : b \in Range(table[r])
    <2>1. PICK q \in Reqs : b \in Range(table[q]) BY <1>4
    <2>2. T = {q} /\ D = {} /\ b \notin free BY <1>1, <2>1 DEF Partition
    <2>3. Cardinality(T) = 1 /\ Cardinality(D) = 0 BY <2>2, <1>2, FS_Singleton
    <2> QED BY <2>2, <2>3
  <1>5. CASE \E d \in deferred : b \in d.blocks
    <2>1. PICK d \in deferred : b \in d.blocks BY <1>5
    <2>2. D = {d} /\ T = {} /\ b \notin free BY <1>1, <2>1 DEF Partition
    <2>3. Cardinality(D) = 1 /\ Cardinality(T) = 0 BY <2>2, <1>2, FS_Singleton
    <2> QED BY <2>2, <2>3
  <1> QED BY <1>1, <1>3, <1>4, <1>5 DEF Partition

(* A step on its way writes only what is still its request's, or waits for   *)
(* it.                                                                       *)
LEMMA CoreStepOwns ==
    ASSUME Core PROVE StepOwnsBlocks
  <1>1. Partition(table, free, deferred) /\ StepInv /\ Types BY DEF Core, Base, BlockInv
  <1> SUFFICES ASSUME NEW k \in DOMAIN pipe, NEW w \in pipe[k].writes
               PROVE w.block \notin free \cup UNION {Range(table[r]) : r \in Reqs \ {w.kv[1]}}
    BY DEF StepOwnsBlocks
  <1>2. w \in WriteT
    <2>1. pipe[k] \in StepT BY <1>1, PipeIs DEF Types
    <2> QED BY <2>1, StepFields
  <1>3. w.kv[1] \in Reqs BY <1>2, WriteFields
  <1>4. InPlace(w, k) BY <1>1 DEF StepInv
  <1>5. CASE w.kv[2] \in DOMAIN table[w.kv[1]] /\ table[w.kv[1]][w.kv[2]] = w.block
    <2>1. w.block \in Range(table[w.kv[1]]) BY <1>5 DEF Range
    <2> QED BY <2>1, <1>1, <1>3 DEF Partition
  <1>6. CASE \E d \in deferred : w.block \in d.blocks
    <2>1. PICK d \in deferred : w.block \in d.blocks BY <1>6
    <2> QED BY <2>1, <1>1 DEF Partition
  <1> QED BY <1>4, <1>5, <1>6 DEF InPlace

(* A load on its way writes only into the blocks of its request.             *)
LEMMA CoreLoadsOwn ==
    ASSUME Core PROVE LoadsOwnBlocks
  <1> SUFFICES ASSUME Clean, NEW r \in Reqs, dma[r].s = "flying"
               PROVE  Ids(dma[r].blocks) \subseteq Range(table[r])
    BY DEF LoadsOwnBlocks, Owned, Clean
  <1>1. r \in loading BY DEF Core, TrkInv, TrkOf
  <1>2. LoadingOf(r) BY DEF Core, LoadInv, LoadOf
  <1> QED BY <1>1, <1>2 DEF LoadingOf, Ids, Range

(* The invariant implies that every block has one owner.                     *)
LEMMA CoreOwns ==
    ASSUME Core PROVE OwnBlocks
  <1>1. StoresHoldBlocks BY DEF Core, FinInv, StoresHoldBlocks, Clean
  <1> QED BY <1>1, CoreConserves, CoreStepOwns, CoreLoadsOwn DEF OwnBlocks

(* In every state of the engine and its scheduler, a live request is in      *)
(* exactly one queue, the one of its status, its counts are in range, and it *)
(* never computes past the token that ends it (scheduler.py).                *)
THEOREM EngineTypeOK == Spec => []TypeOK
  <1>1. Core => TypeOK BY CacheAssumption, EngineAssumption, CoreTypeOK
  <1> QED BY <1>1, CoreHolds, PTL

(* No block is lost or given twice, and a block belongs to its request until *)
(* the last of its writers and readers is done: the steps on their way, the  *)
(* loads and the stores (scheduler.py, the deferred releases;                *)
(* lmcache_mp_connector.py, request_finished).                               *)
THEOREM BlocksAreOwned == Spec => []OwnBlocks
  <1>1. Core => OwnBlocks BY CacheAssumption, EngineAssumption, CoreOwns
  <1> QED BY <1>1, CoreHolds, PTL

-----------------------------------------------------------------------------
(* KvInv: the KV of a request.                                               *)

(* A block that a step may still write and that a request holds is of that  *)
(* request, at that position.                                               *)
LEMMA WhoseBlock ==
    ASSUME Base, NEW k, NEW w \in WriteT, InPlace(w, k), NEW r \in Reqs, NEW i \in DOMAIN table[r],
           w.block = table[r][i]
    PROVE  w.kv = <<r, i>>
  <1>1. Partition(table, free, deferred) BY DEF Base, BlockInv
  <1>2. w.kv[1] \in Reqs /\ w.kv = <<w.kv[1], w.kv[2]>> BY WriteFields
  <1>3. w.block \in Range(table[r]) BY DEF Range
  <1>4. ~ \E d \in deferred : w.block \in d.blocks BY <1>1, <1>3 DEF Partition
  <1>5. w.kv[2] \in DOMAIN table[w.kv[1]] /\ table[w.kv[1]][w.kv[2]] = w.block BY <1>4 DEF InPlace
  <1>6. w.block \in Range(table[w.kv[1]]) BY <1>5 DEF Range
  <1>7. w.kv[1] = r BY <1>1, <1>2, <1>3, <1>6 DEF Partition
  <1>8. w.kv[2] = i
    <2>1. IsInjective(table[r]) BY <1>1 DEF Partition
    <2> QED BY <2>1, <1>5, <1>7 DEF IsInjective
  <1> QED BY <1>2, <1>7, <1>8

(* What a step writes is in place.                                           *)
LEMMA StepWrites ==
    ASSUME Base, NEW k \in DOMAIN pipe, NEW w \in pipe[k].writes
    PROVE  w \in WriteT /\ InPlace(w, k) /\ pipe[k].n[w.kv[1]] > 0
  <1>1. pipe[k] \in StepT BY PipeIs DEF Base, Types
  <1> QED BY <1>1, StepFields DEF Base, StepInv

(* The KV that r counts as computed is its own, or on its way.               *)
KvOf(r) ==
    st[r] \in {"running", "waiting"} =>
        \A i \in 1..computed[r] : content[table[r][i]] = <<r, i>> \/ Pendw(r, i)

(* The KV of r is still its own while no other writes on it and the steps    *)
(* that write it stay.                                                       *)
LEMMA KvFrame ==
    ASSUME NEW r \in Reqs, KvOf(r),
           st'[r] \in {"running", "waiting"} =>
               /\ st[r] \in {"running", "waiting"}
               /\ computed[r] \in Nat /\ computed'[r] \in Nat /\ computed'[r] <= computed[r]
               /\ \A i \in 1..computed[r] : /\ table'[r][i] = table[r][i]
                                            /\ content'[table[r][i]] = content[table[r][i]],
           \A k \in DOMAIN pipe : pipe[k].exec # "done" =>
               \E m \in DOMAIN pipe' : pipe'[m].exec # "done" /\ pipe'[m].writes = pipe[k].writes
    PROVE  KvOf(r)'
  <1> SUFFICES ASSUME st'[r] \in {"running", "waiting"}, NEW i \in 1..computed'[r]
               PROVE  content'[table'[r][i]] = <<r, i>> \/ Pendw(r, i)'
    BY DEF KvOf
  <1>1. i \in 1..computed[r] OBVIOUS
  <1>2. content[table[r][i]] = <<r, i>> \/ Pendw(r, i) BY <1>1 DEF KvOf
  <1>3. CASE Pendw(r, i)
    <2>1. PICK k \in DOMAIN pipe : pipe[k].exec # "done" /\ [block |-> table[r][i], kv |-> <<r, i>>] \in pipe[k].writes
      BY <1>3 DEF Pendw
    <2>2. PICK m \in DOMAIN pipe' : pipe'[m].exec # "done" /\ pipe'[m].writes = pipe[k].writes BY <2>1
    <2> QED BY <1>1, <2>1, <2>2 DEF Pendw
  <1> QED BY <1>1, <1>2, <1>3

(* What KvFrame wants of a request whose table and KV are left alone.       *)
LEMMA KvTyped ==
    ASSUME Base, TableInv, NEW r \in Reqs, st[r] \in {"running", "waiting"}
    PROVE  /\ computed[r] \in Nat /\ computed[r] <= Len(table[r]) /\ 1..computed[r] \subseteq DOMAIN table[r]
           /\ \A i \in 1..computed[r] : i \in DOMAIN table[r] /\ table[r][i] \in Blocks \ free
  <1>1. /\ computed[r] \in Nat /\ table[r] \in Seq(Blocks) /\ TableOf(r) /\ Len(table[r]) \in Nat
        /\ DOMAIN table[r] = 1..Len(table[r]) /\ Range(table[r]) \cap free = {}
        /\ \A i \in DOMAIN table[r] : table[r][i] \in Blocks /\ table[r][i] \in Range(table[r])
    BY LoadTyped
  <1>2. computed[r] <= Len(table[r]) BY <1>1 DEF TableOf
  <1>3. 1..computed[r] \subseteq DOMAIN table[r] BY <1>1, <1>2
  <1> QED BY <1>1, <1>2, <1>3

(* KvInv, in a step of the others that leaves the blocks and the pipe as     *)
(* they are.                                                                 *)
LEMMA StillKv ==
    ASSUME Base, TableInv, KvInv, SameShape, Clean' => Clean,
           st' = st, computed' = computed, table' = table, content' = content,
           \A k \in DOMAIN pipe : pipe[k].exec # "done" => pipe'[k].exec # "done"
    PROVE  KvInv'
  <1> SUFFICES ASSUME Clean', NEW r \in Reqs PROVE KvOf(r)' BY DEF KvInv, KvOf
  <1>1. KvOf(r) BY DEF KvInv, KvOf
  <1>2. \A k \in DOMAIN pipe : pipe[k].exec # "done" => k \in DOMAIN pipe' /\ pipe'[k].exec # "done" /\ pipe'[k].writes = pipe[k].writes
    BY DEF SameShape
  <1> QED BY <1>1, <1>2, KvTyped, KvFrame

(* KvInv, in a decision of schedule() that only moves the scan, the queues   *)
(* or a note.                                                                *)
LEMMA LightKv ==
    ASSUME Base, TableInv, KvInv, Light PROVE KvInv'
  <1>1. SameShape BY SameShapeIs DEF Base, Types, Light
  <1> QED BY <1>1, StillKv DEF Light, SameReqs, SameBlocks, Clean

(* KvInv, in a step of the others that leaves the KV and the steps.          *)
LEMMA AsideKv ==
    ASSUME Base, TableInv, KvInv, Aside, content' = content, pipe' = pipe PROVE KvInv'
  BY StillKv DEF Aside, SameReqs, SameBlocks

(* KvInv, when the loads of a step are begun.                                *)
LEMMA StartStepKv ==
    ASSUME Base, TableInv, KvInv, StartStep PROVE KvInv'
  <1>0. PICK a \in DOMAIN pipe : a = At BY StartStepIs DEF Base
  <1>1. /\ SameShape /\ (\A k \in DOMAIN pipe : k # a => pipe'[k] = pipe[k]) /\ pipe'[a].exec = "loaded"
        /\ UNCHANGED <<reqVars, blockVars, seen>>
    BY <1>0, StartStepIs DEF Base
  <1>2. \A k \in DOMAIN pipe : pipe[k].exec # "done" => pipe'[k].exec # "done" BY <1>1
  <1> QED BY <1>1, <1>2, StillKv DEF reqVars, blockVars, Clean

(* The steps that are not executed, while none changes.                      *)
LEMMA SamePipe ==
    ASSUME pipe' = pipe
    PROVE \A k \in DOMAIN pipe : pipe[k].exec # "done" =>
               \E m \in DOMAIN pipe' : pipe'[m].exec # "done" /\ pipe'[m].writes = pipe[k].writes
  OBVIOUS

(* KvInv, when a transfer ends.                                              *)
LEMMA TransferEndsKv ==
    ASSUME Base, TableInv, TrkInv, LoadInv, KvInv, NEW r \in Reqs, TransferEnds(r) PROVE KvInv'
  <1>1. /\ Aside /\ pipe' = pipe /\ seen' = seen /\ dma[r].s = "flying"
        /\ \A b \in Blocks : b \notin Ids(dma[r].blocks) => content'[b] = content[b]
    BY TransferEndsAside DEF Base
  <1>2. st' = st /\ computed' = computed /\ table' = table BY <1>1 DEF Aside, SameReqs, SameBlocks
  <1> SUFFICES ASSUME Clean', NEW q \in Reqs PROVE KvOf(q)' BY DEF KvInv, KvOf
  <1>3. Clean /\ KvOf(q) BY <1>1 DEF KvInv, KvOf, Clean
  <1>4. r \in loading BY <1>1 DEF TrkInv, TrkOf
  <1>5. st[r] = "remote" /\ dma[r].blocks = table[r] BY <1>3, <1>4 DEF LoadInv, LoadOf, LoadingOf
  <1>6. ASSUME st[q] \in {"running", "waiting"}, NEW i \in 1..computed[q]
        PROVE  content'[table[q][i]] = content[table[q][i]]
    <2>1. q # r BY <1>5, <1>6
    <2>2. i \in DOMAIN table[q] /\ table[q][i] \in Blocks BY <1>6, KvTyped
    <2>3. table[q][i] \in Range(table[q]) BY <2>2 DEF Range
    <2>4. table[q][i] \notin Range(table[r]) BY <2>1, <2>3 DEF Base, BlockInv, Partition
    <2>5. table[q][i] \notin Ids(dma[r].blocks) BY <1>5, <2>4 DEF Ids, Range
    <2> QED BY <1>1, <2>2, <2>5
  <1>7. st[q] \in {"running", "waiting"} => computed[q] \in Nat BY KvTyped
  <1> QED BY <1>1, <1>2, <1>3, <1>6, <1>7, SamePipe, KvFrame

(* KvInv, when a running request is scheduled.                               *)
LEMMA TakeRunningKv ==
    ASSUME CacheAssumption, EngineAssumption, Base, PlaceInv, TableInv, KvInv, TakeRunning PROVE KvInv'
  <1>0. PICK r \in Reqs : r = Here BY TakeRunningIs DEF Base
  <1>1. /\ \A q \in Reqs : q # r => table'[q] = table[q]
        /\ \A i \in DOMAIN table[r] : i \in DOMAIN table'[r] /\ table'[r][i] = table[r][i]
        /\ \A b \in Blocks \ free : content'[b] = content[b]
        /\ UNCHANGED <<reqVars, pipe, seen>>
    BY <1>0, TakeRunningIs DEF Base
  <1>2. st' = st /\ computed' = computed /\ pipe' = pipe /\ seen' = seen BY <1>1 DEF reqVars
  <1> SUFFICES ASSUME Clean', NEW q \in Reqs PROVE KvOf(q)' BY DEF KvInv, KvOf
  <1>3. KvOf(q) BY <1>2 DEF KvInv, KvOf, Clean
  <1>4. ASSUME st[q] \in {"running", "waiting"}, NEW i \in 1..computed[q]
        PROVE  table'[q][i] = table[q][i] /\ content'[table[q][i]] = content[table[q][i]]
    BY <1>1, <1>4, KvTyped
  <1>5. st[q] \in {"running", "waiting"} => computed[q] \in Nat BY KvTyped
  <1> QED BY <1>2, <1>3, <1>4, <1>5, SamePipe, KvFrame

(* KvInv, when the last running request is preempted.                        *)
LEMMA PreemptKv ==
    ASSUME CacheAssumption, EngineAssumption, Base, TableInv, KvInv, Preempt PROVE KvInv'
  <1>0. PICK v \in Reqs : v = Last(running) BY PreemptIs DEF Base
  <1>1. /\ st'[v] = "preempted"
        /\ \A q \in Reqs : q # v => st'[q] = st[q] /\ computed'[q] = computed[q] /\ table'[q] = table[q]
        /\ content' = content /\ pipe' = pipe /\ seen' = seen
    BY <1>0, PreemptIs DEF Base
  <1> SUFFICES ASSUME Clean', NEW q \in Reqs PROVE KvOf(q)' BY DEF KvInv, KvOf
  <1>2. KvOf(q) BY <1>1 DEF KvInv, KvOf, Clean
  <1>3. st[q] \in {"running", "waiting"} => computed[q] \in Nat BY KvTyped
  <1> QED BY <1>1, <1>2, <1>3, SamePipe, KvFrame

(* KvInv, when the wait of a request for its load is over.                   *)
LEMMA PromoteKv ==
    ASSUME CacheAssumption, Base, TableInv, LoadInv, KvInv, Promote PROVE KvInv'
  <1>0. PICK r \in Reqs : r = Head1 BY PromoteIs
  <1>1. /\ st[r] = "remote" /\ r \in recvDone
        /\ computed'[r] = IF r \notin recvFailed /\ computed[r] = Tokens(r)
                          THEN computed[r] - 1 ELSE computed[r]
        /\ table'[r] = IF Lost(r) THEN << >> ELSE table[r]
        /\ \A q \in Reqs : q # r => st'[q] = st[q] /\ computed'[q] = computed[q] /\ table'[q] = table[q]
        /\ seen' = IF Lost(r) THEN seen \cup {"lost"} ELSE seen
        /\ content' = content /\ pipe' = pipe
    BY <1>0, PromoteIs
  <1> SUFFICES ASSUME Clean', NEW q \in Reqs PROVE KvOf(q)' BY DEF KvInv, KvOf
  <1>2. Clean
    <2>1. seen \subseteq seen' BY <1>1
    <2> QED BY <2>1, CleanOf
  <1>3. CASE q = r
    <2>1. \A i \in 1..computed[r] : content[table[r][i]] = <<r, i>>
      BY <1>1, <1>2 DEF LoadInv, LoadOf, CameOf
    <2>2. computed[r] \in Nat BY LoadTyped
    <2>3. CASE Lost(r)
      <3>1. computed'[r] = 0 BY <1>1, <2>3 DEF Lost
      <3> QED BY <1>3, <3>1 DEF KvOf
    <2>4. CASE ~Lost(r)
      <3>1. table'[r] = table[r] BY <1>1, <2>4
      <3>2. \A i \in 1..computed'[r] : i \in 1..computed[r] BY <1>1, <2>2
      <3> QED BY <1>1, <1>3, <2>1, <3>1, <3>2 DEF KvOf
    <2> QED BY <2>3, <2>4
  <1>4. CASE q # r
    <2>1. KvOf(q) BY <1>2 DEF KvInv, KvOf
    <2>2. st[q] \in {"running", "waiting"} => computed[q] \in Nat BY KvTyped
    <2> QED BY <1>1, <1>4, <2>1, <2>2, SamePipe, KvFrame
  <1> QED BY <1>3, <1>4

(* KvInv, when a request is admitted to load its hit.                        *)
LEMMA LoadKv ==
    ASSUME CacheAssumption, EngineAssumption, Base, TableInv, KvInv, NEW base \in Nat,
           AdmittedAs(base, TRUE)
    PROVE KvInv'
  <1>0. PICK r \in Reqs : r = Head1 BY LoadIs
  <1>1. /\ st'[r] = "remote"
        /\ \A q \in Reqs : q # r => /\ st'[q] = st[q] /\ computed'[q] = computed[q]
                                    /\ table'[q] = table[q]
        /\ \A b \in Blocks \ free : content'[b] = content[b]
        /\ pipe' = pipe /\ seen' = seen
    BY <1>0, LoadIs
  <1> SUFFICES ASSUME Clean', NEW q \in Reqs PROVE KvOf(q)' BY DEF KvInv, KvOf
  <1>2. KvOf(q) BY <1>1 DEF KvInv, KvOf, Clean
  <1>3. st[q] \in {"running", "waiting"} =>
           computed[q] \in Nat /\ \A i \in 1..computed[q] : content'[table[q][i]] = content[table[q][i]]
    BY <1>1, KvTyped
  <1> QED BY <1>1, <1>2, <1>3, SamePipe, KvFrame

(* KvInv, when a request is admitted to run.                                 *)
LEMMA RunKv ==
    ASSUME CacheAssumption, EngineAssumption, Base, PlaceInv, TableInv, KvInv, NEW base \in Nat,
           AdmittedAs(base, FALSE)
    PROVE KvInv'
  <1>0. PICK r \in Reqs : r = Head1 BY RunIs
  <1>1. /\ st[r] \in {"waiting", "preempted"} /\ st'[r] = "running" /\ base = computed[r] /\ computed'[r] = base
        /\ \A q \in Reqs : q # r => /\ st'[q] = st[q] /\ computed'[q] = computed[q]
                                    /\ table'[q] = table[q]
        /\ \A i \in DOMAIN table[r] : i \in DOMAIN table'[r] /\ table'[r][i] = table[r][i]
        /\ \A b \in Blocks \ free : content'[b] = content[b]
        /\ pipe' = pipe /\ seen' = seen
    BY <1>0, RunIs DEF Stays
  <1> SUFFICES ASSUME Clean', NEW q \in Reqs PROVE KvOf(q)' BY DEF KvInv, KvOf
  <1>2. KvOf(q) BY <1>1 DEF KvInv, KvOf, Clean
  <1>3. st[q] \in {"running", "waiting"} =>
           /\ computed[q] \in Nat
           /\ \A i \in 1..computed[q] : i \in DOMAIN table[q] /\ content'[table[q][i]] = content[table[q][i]]
    BY <1>1, KvTyped
  <1>4. CASE q = r /\ st[r] = "preempted"
    <2>1. computed[r] = 0 BY <1>4 DEF TableInv, TableOf
    <2>2. computed'[q] = 0 BY <2>1, <1>1, <1>4
    <2> QED BY <2>2 DEF KvOf
  <1>5. CASE q = r /\ st[r] = "waiting"
    BY <1>1, <1>2, <1>3, <1>5, SamePipe, KvFrame
  <1>6. CASE q # r
    BY <1>1, <1>2, <1>3, <1>6, SamePipe, KvFrame
  <1> QED BY <1>1, <1>4, <1>5, <1>6

(* KvInv, when a call of schedule() ends.                                    *)
LEMMA FinishScheduleKv ==
    ASSUME CacheAssumption, EngineAssumption, Base, TableInv, KvInv, FinishSchedule PROVE KvInv'
  <1>0. PICK z \in Nat : z = Len(pipe) + 1 BY PipeIs DEF Base, Types
  <1>1. /\ z \in DOMAIN pipe' /\ \A k \in DOMAIN pipe : k \in DOMAIN pipe' /\ pipe'[k] = pipe[k]
        /\ pipe'[z].writes = NewWrites /\ pipe'[z].exec = "no"
    <2>1. /\ pipe'[z] = NewStep /\ DOMAIN pipe' = 1..z /\ DOMAIN pipe = 1..Len(pipe) /\ Len(pipe) \in Nat
          /\ \A k \in DOMAIN pipe : pipe'[k] = pipe[k]
      BY <1>0, FinishScheduleIs, PipeIs DEF Base, Types
    <2>2. NewStep.writes = NewWrites /\ NewStep.exec = "no" BY NewStepIs DEF Base
    <2> QED BY <1>0, <2>1, <2>2
  <1>2. /\ \A r \in Reqs : computed'[r] = computed[r] + cur.n[r]
        /\ st' = st /\ table' = table /\ content' = content /\ seen \subseteq seen'
    BY FinishScheduleIs DEF blockVars
  <1> SUFFICES ASSUME Clean', NEW r \in Reqs, st[r] \in {"running", "waiting"}, NEW i \in 1..computed'[r]
               PROVE  content[table[r][i]] = <<r, i>> \/ Pendw(r, i)'
    BY <1>2 DEF KvInv
  <1>3. Clean BY <1>2, CleanOf
  <1>4. computed[r] \in Nat /\ cur.n[r] \in Nat /\ computed'[r] = computed[r] + cur.n[r]
    BY <1>2, KvTyped, CurFields DEF Base, Types, CurTypes
  <1>5. CASE i \in 1..computed[r]
    <2>1. content[table[r][i]] = <<r, i>> \/ Pendw(r, i) BY <1>3, <1>5 DEF KvInv
    <2>2. Pendw(r, i) => Pendw(r, i)' BY <1>1, <1>2 DEF Pendw
    <2> QED BY <2>1, <2>2
  <1>6. CASE i \notin 1..computed[r]
    <2>1. i \in Positions(r) /\ cur.n[r] > 0 BY <1>4, <1>6 DEF Positions
    <2>2. r \in Scheduling BY <2>1 DEF Scheduling
    <2>3. [block |-> table[r][i], kv |-> <<r, i>>] \in NewWrites BY <2>1, <2>2, NewWritesAre DEF Base
    <2> QED BY <1>1, <1>2, <2>3 DEF Pendw
  <1> QED BY <1>5, <1>6

(* KvInv, when a step is executed.                                           *)
LEMMA ExecuteKv ==
    ASSUME Base, TableInv, KvInv, NEW over, Execute(over) PROVE KvInv'
  <1>0. PICK a \in DOMAIN pipe : a = At BY ExecuteIs DEF Base
  <1>1. /\ SameShape /\ pipe[a].exec # "done" /\ \A k \in DOMAIN pipe : k # a => pipe'[k] = pipe[k]
        /\ content' = [b \in Blocks |->
              IF \E w \in pipe[a].writes : w.block = b
              THEN (CHOOSE w \in pipe[a].writes : w.block = b).kv ELSE content[b]]
        /\ SameReqs /\ SameBlocks
    BY <1>0, ExecuteIs DEF Base
  <1>2. seen \subseteq seen' BY ExecuteIs DEF Base
  <1>3. DOMAIN pipe' = DOMAIN pipe BY <1>1 DEF SameShape
  <1>4. st' = st /\ computed' = computed /\ table' = table BY <1>1 DEF SameReqs, SameBlocks
  <1> SUFFICES ASSUME Clean', NEW r \in Reqs, st[r] \in {"running", "waiting"}, NEW i \in 1..computed[r]
               PROVE  content'[table[r][i]] = <<r, i>> \/ Pendw(r, i)'
    BY <1>4 DEF KvInv
  <1>5. content[table[r][i]] = <<r, i>> \/ Pendw(r, i) BY <1>2, CleanOf DEF KvInv
  <1>6. i \in DOMAIN table[r] /\ table[r][i] \in Blocks BY KvTyped
  <1>7. CASE \E w \in pipe[a].writes : w.block = table[r][i]
    <2>1. PICK w \in pipe[a].writes : w = CHOOSE x \in pipe[a].writes : x.block = table[r][i] BY <1>7
    <2>2. w.block = table[r][i] BY <1>7, <2>1
    <2>3. w \in WriteT /\ InPlace(w, a) BY StepWrites
    <2>4. w.kv = <<r, i>> BY <2>2, <2>3, <1>6, WhoseBlock
    <2> QED BY <1>1, <1>6, <1>7, <2>1, <2>4
  <1>8. CASE ~ \E w \in pipe[a].writes : w.block = table[r][i]
    <2>1. content'[table[r][i]] = content[table[r][i]] BY <1>1, <1>6, <1>8
    <2>2. CASE Pendw(r, i)
      <3>1. PICK k \in DOMAIN pipe : pipe[k].exec # "done" /\ [block |-> table[r][i], kv |-> <<r, i>>] \in pipe[k].writes
        BY <2>2 DEF Pendw
      <3>2. k # a BY <1>8, <3>1
      <3>3. pipe'[k] = pipe[k] /\ k \in DOMAIN pipe' BY <1>1, <1>3, <3>2
      <3> QED BY <1>4, <3>1, <3>3 DEF Pendw
    <2> QED BY <1>5, <2>1, <2>2
  <1> QED BY <1>7, <1>8

(* KvInv, when a request arrives.                                            *)
LEMMA AddKv ==
    ASSUME Base, TableInv, KvInv, NEW r \in Reqs, Add(r) PROVE KvInv'
  <1>1. /\ st[r] = "new" /\ st'[r] = "waiting" /\ \A q \in Reqs : q # r => st'[q] = st[q]
        /\ computed' = computed /\ table' = table /\ content' = content /\ pipe' = pipe /\ seen' = seen
    BY AddBase DEF blockVars
  <1> SUFFICES ASSUME Clean', NEW q \in Reqs PROVE KvOf(q)' BY DEF KvInv, KvOf
  <1>2. KvOf(q) BY <1>1 DEF KvInv, KvOf, Clean
  <1>3. CASE q = r
    <2>1. computed'[r] = 0 BY <1>1 DEF TableInv, TableOf
    <2> QED BY <1>3, <2>1 DEF KvOf
  <1>4. CASE q # r
    <2>1. st[q] \in {"running", "waiting"} => computed[q] \in Nat BY KvTyped
    <2> QED BY <1>1, <1>2, <1>4, <2>1, SamePipe, KvFrame
  <1> QED BY <1>3, <1>4

(* KvInv, when a request is aborted.                                         *)
LEMMA AbortKv ==
    ASSUME Base, TableInv, KvInv, NEW r \in Reqs, Abort(r) PROVE KvInv'
  <1>1. /\ st'[r] = "finished" /\ \A q \in Reqs : q # r => st'[q] = st[q]
        /\ computed' = computed /\ table' = table /\ content' = content /\ pipe' = pipe /\ seen \subseteq seen'
    BY AbortBase DEF blockVars
  <1> SUFFICES ASSUME Clean', NEW q \in Reqs PROVE KvOf(q)' BY DEF KvInv, KvOf
  <1>2. KvOf(q) BY <1>1, CleanOf DEF KvInv, KvOf
  <1>3. st[q] \in {"running", "waiting"} => computed[q] \in Nat BY KvTyped
  <1> QED BY <1>1, <1>2, <1>3, SamePipe, KvFrame

(* KvInv, when the output of a step is processed.                            *)
LEMMA UpdatedKv ==
    ASSUME CacheAssumption, EngineAssumption, Base, PlaceInv, TableInv, KvInv,
           NEW over, NEW s, UpdatedAs(s, over)
    PROVE KvInv'
  <1>1. /\ pipe # << >> /\ pipe' = Tail(pipe) /\ content' = content /\ seen' = seen
        /\ s = pipe[1] /\ s.exec = "done"
    BY UpdatedTypes DEF UpdatedAs
  <1>2. \A k \in DOMAIN pipe : pipe[k].exec # "done" =>
           \E m \in DOMAIN pipe' : pipe'[m].exec # "done" /\ pipe'[m].writes = pipe[k].writes
    <2> SUFFICES ASSUME NEW k \in DOMAIN pipe, pipe[k].exec # "done"
                 PROVE  \E m \in DOMAIN pipe' : pipe'[m].exec # "done" /\ pipe'[m].writes = pipe[k].writes
      OBVIOUS
    <2>1. /\ \A i \in DOMAIN pipe' : /\ i = 1 /\ 2 \in DOMAIN pipe /\ pipe'[i] = pipe[2]
                                      /\ DOMAIN pipe = {1, 2}
          /\ 2 \in DOMAIN pipe => 1 \in DOMAIN pipe'
      BY <1>1, TailIs DEF Base, Types
    <2>2. DOMAIN pipe \in {{}, {1}, {1, 2}}
      BY PipeLen DEF Base, Types
    <2>3. k # 1 BY <1>1
    <2>4. k = 2 BY <2>2, <2>3
    <2> QED BY <2>1, <2>4
  <1> SUFFICES ASSUME Clean', NEW r \in Reqs PROVE KvOf(r)' BY DEF KvInv, KvOf
  <1>3. KvOf(r) BY <1>1 DEF KvInv, KvOf, Clean
  <1>4. ASSUME st'[r] \in {"running", "waiting"}
        PROVE  /\ st[r] \in {"running", "waiting"} /\ computed[r] \in Nat /\ computed'[r] \in Nat
               /\ computed'[r] <= computed[r] /\ table'[r] = table[r]
    <2>1. st'[r] = IF r \in LeftBy(s, over) THEN "gone" ELSE IF r \in over THEN "finished" ELSE st[r]
      BY UpdatedReq
    <2>2. r \notin LeftBy(s, over) /\ st[r] = st'[r] BY <1>4, <2>1
    <2>3. table'[r] = table[r] BY <2>2, UpdatedTypes
    <2>4. computed[r] \in Nat BY <1>4, <2>2, KvTyped
    <2>5. computed'[r] \in Nat /\ computed'[r] <= computed[r]
      <3>1. CASE r \in Recovered(s) 
        <4>1. computed'[r] \in Nat /\ computed'[r] < computed[r] BY <3>1, UpdatedReq
        <4> QED BY <4>1, <2>4
      <3>2. CASE r \notin Recovered(s)
        <4>1. computed'[r] = computed[r] BY <3>2, UpdatedReq
        <4> QED BY <4>1, <2>4
      <3> QED BY <3>1, <3>2
    <2> QED BY <1>4, <2>2, <2>3, <2>4, <2>5
  <1> QED BY <1>1, <1>2, <1>3, <1>4, KvFrame

-----------------------------------------------------------------------------
(* PutInv: what is stored.                                                   *)

(* A request that is not scheduled was given nothing.                        *)
LEMMA GotNone ==
    ASSUME Base, NEW r \in Reqs, cur.n[r] = 0
    PROVE  cur.got[r] = << >> /\ trk[r].blocks \o cur.got[r] = trk[r].blocks
  <1>1. cur.got[r] = << >> BY CurOf DEF Base
  <1>2. trk[r].blocks \in Seq(Blocks) BY TrackerFields DEF Base, Types, TrkTypes
  <1> QED BY <1>1, <1>2, ConcatEmptySeq

(* What was lost or has strayed is so for good.                              *)
LEMMA IntactOf == ASSUME seen \subseteq seen', Intact' PROVE Intact /\ Clean /\ Clean'
  BY DEF Intact, Clean

(* The tracker of r still has its blocks while r stays as it is.             *)
LEMMA PutReqFrame ==
    ASSUME NEW r \in Reqs, PutReq(r), st'[r] = st[r], computed'[r] = computed[r], table'[r] = table[r],
           st[r] \in {"waiting", "remote", "running"} => trk'[r].blocks = trk[r].blocks,
           cur'.got[r] = cur.got[r], cur'.n[r] = cur.n[r], r \in recvFailed => r \in recvFailed'
    PROVE  PutReq(r)'
  BY DEF PutReq

(* What a step stores is of a request that it computes.                      *)
LEMMA PutTyped ==
    ASSUME Base, NEW k \in DOMAIN pipe, NEW p \in pipe[k].puts
    PROVE  /\ p \in WriteT /\ p.kv[1] \in Reqs /\ pipe[k].n[p.kv[1]] > 0
           /\ st[p.kv[1]] \notin Fresher /\ p.block \in Blocks
  <1>1. pipe[k] \in StepT BY PipeIs DEF Base, Types
  <1>2. p \in WriteT BY <1>1, StepFields
  <1>3. p.kv[1] \in Reqs /\ p.block \in Blocks BY <1>2, WriteFields
  <1>4. pipe[k].n[p.kv[1]] > 0 BY DEF Base, StepInv
  <1>5. st[p.kv[1]] \notin Fresher BY <1>3, <1>4 DEF Base, StepInv
  <1> QED BY <1>2, <1>3, <1>4, <1>5

(* A block in place is not free.                                             *)
LEMMA NotFree ==
    ASSUME Base, NEW k, NEW w \in WriteT, InPlace(w, k) PROVE w.block \in Blocks \ free
  <1>1. Partition(table, free, deferred) BY DEF Base, BlockInv
  <1>2. w.kv[1] \in Reqs /\ w.block \in Blocks BY WriteFields
  <1>3. CASE w.kv[2] \in DOMAIN table[w.kv[1]] /\ table[w.kv[1]][w.kv[2]] = w.block
    <2>1. w.block \in Range(table[w.kv[1]]) BY <1>3 DEF Range
    <2> QED BY <1>1, <1>2, <2>1 DEF Partition
  <1>4. CASE \E d \in deferred : w.block \in d.blocks BY <1>1, <1>2, <1>4 DEF Partition
  <1> QED BY <1>3, <1>4 DEF InPlace

(* A store still rests on what it did while the blocks it stores stay as     *)
(* they are.                                                                 *)
LEMMA PutFrame ==
    ASSUME Base, SameShape, NEW k \in DOMAIN pipe, NEW p \in pipe[k].puts, PutOf(k, p), InPlace(p, k)',
           content'[p.block] = content[p.block],
           \A j \in DOMAIN pipe : pipe'[j].exec # "done" <=> pipe[j].exec # "done"
    PROVE  PutOf(k, p)'
  <1>1. /\ DOMAIN pipe' = DOMAIN pipe
        /\ \A j \in DOMAIN pipe : pipe'[j].writes = pipe[j].writes
    BY DEF SameShape
  <1>2. \A j \in 1..k : j \in DOMAIN pipe BY PipeIs DEF Base, Types
  <1>3. \A j \in DOMAIN pipe' : \A w \in pipe'[j].writes : w.block = p.block => w.kv = p.kv
    BY <1>1 DEF PutOf
  <1>4. pipe'[k].exec # "done" =>
          content'[p.block] = p.kv \/ \E j \in 1..k : pipe'[j].exec # "done" /\ p \in pipe'[j].writes
    BY <1>1, <1>2 DEF PutOf
  <1> QED BY <1>3, <1>4 DEF PutOf

(* A block stays in place while its request keeps its blocks.                *)
LEMMA InPlaceShape ==
    ASSUME Base, SameShape, NEW k \in DOMAIN pipe, NEW w, InPlace(w, k), deferred \subseteq deferred',
           Stays(w.kv[1])
    PROVE  InPlace(w, k)'
  <1>1. Upto(k)' = Upto(k)
    <2>1. \A i \in 1..k : i \in DOMAIN pipe BY PipeIs DEF Base, Types
    <2>2. \A i \in 1..k : pipe'[i].n = pipe[i].n BY <2>1 DEF SameShape
    <2>3. {i \in 1..k : pipe'[i].n # Zero} = {i \in 1..k : pipe[i].n # Zero} BY <2>2
    <2> QED BY <2>3 DEF Upto
  <1> QED BY <1>1 DEF InPlace, Stays

(* What the stores of the steps on their way rest on is kept.               *)
LEMMA PutsKept ==
    ASSUME Base, PutInv, Intact, SameShape,
           \A j \in DOMAIN pipe : pipe'[j].exec # "done" <=> pipe[j].exec # "done",
           deferred \subseteq deferred', \A q \in Reqs : st[q] \notin Fresher => Stays(q),
           \A b \in Blocks \ free : content'[b] = content[b],
           "misfiled" \in seen' => "misfiled" \in seen,
           \A r \in Reqs : PutReq(r)'
    PROVE  PutInv'
  <1>1. \A k \in DOMAIN pipe' : k \in DOMAIN pipe /\ pipe'[k].puts = pipe[k].puts BY DEF SameShape
  <1>2. ASSUME NEW k \in DOMAIN pipe, NEW p \in pipe[k].puts PROVE PutOf(k, p)'
    <2>1. PutOf(k, p) BY DEF PutInv
    <2>2. p \in WriteT /\ p.kv[1] \in Reqs /\ st[p.kv[1]] \notin Fresher BY PutTyped
    <2>3. InPlace(p, k) BY <2>1 DEF PutOf
    <2>4. InPlace(p, k)' BY <2>2, <2>3, InPlaceShape
    <2>5. p.block \in Blocks \ free BY <2>2, <2>3, NotFree
    <2> QED BY <2>1, <2>4, <2>5, PutFrame
  <1> QED BY <1>1, <1>2 DEF PutInv

(* A table that does not change stays.                                       *)
LEMMA StaysSame == ASSUME NEW q, table'[q] = table[q] PROVE Stays(q)
  BY DEF Stays

(* PutInv, in a decision of schedule() that only moves the scan, the queues  *)
(* or a note.                                                                *)
LEMMA LightPut ==
    ASSUME Base, TrkInv, PutInv, Light PROVE PutInv'
  <1>1. SameShape BY SameShapeIs DEF Base, Types, Light
  <1>2. /\ st' = st /\ computed' = computed /\ table' = table /\ deferred' = deferred /\ content' = content
        /\ pipe' = pipe /\ seen' = seen /\ recvFailed' = recvFailed /\ cur'.n = cur.n /\ cur'.got = cur.got
        /\ TrkNotes
    BY DEF Light, SameReqs, SameBlocks, SameDone, SameCur
  <1> SUFFICES ASSUME Intact' PROVE PutInv' BY DEF PutInv
  <1>3. Intact BY <1>2, IntactOf
  <1>4. ASSUME NEW r \in Reqs PROVE PutReq(r)'
    <2>1. PutReq(r) BY <1>3 DEF PutInv
    <2>2. st[r] \in {"waiting", "remote", "running"} => trk'[r].blocks = trk[r].blocks
      <3>1. \/ trk'[r].blocks = trk[r].blocks
            \/ /\ st[r] \in {"waiting", "preempted"} /\ (trk[r].s = "none" \/ st[r] = "preempted")
               /\ trk'[r].blocks = << >>
        BY <1>2, NotesKeep DEF Base, Types
      <3>2. trk[r].s = "none" => trk[r].blocks = << >> BY DEF TrkInv, TrkOf
      <3> QED BY <3>1, <3>2
    <2> QED BY <1>2, <2>1, <2>2, PutReqFrame
  <1> QED BY <1>1, <1>2, <1>3, <1>4, PutsKept, StaysSame

(* The tracker of r still has its blocks in a step of the others.            *)
LEMMA AsideReq ==
    ASSUME Aside, NEW r \in Reqs, PutReq(r) PROVE PutReq(r)'
  BY PutReqFrame DEF Aside, SameReqs, SameBlocks, SameDone

(* PutInv, in a step of the others that leaves the blocks and the pipe as    *)
(* they are.                                                                 *)
LEMMA StillPut ==
    ASSUME Base, PutInv, Aside, content' = content, seen' = seen,
           \A j \in DOMAIN pipe : pipe'[j].exec # "done" <=> pipe[j].exec # "done"
    PROVE  PutInv'
  <1>1. SameShape /\ table' = table /\ deferred' = deferred BY DEF Aside, SameBlocks
  <1> SUFFICES ASSUME Intact' PROVE PutInv' BY DEF PutInv
  <1>2. Intact BY IntactOf
  <1>3. ASSUME NEW r \in Reqs PROVE PutReq(r)'
    <2>1. PutReq(r) BY <1>2 DEF PutInv
    <2> QED BY <2>1, AsideReq
  <1> QED BY <1>1, <1>2, <1>3, PutsKept, StaysSame

(* PutInv, when the loads of a step are begun.                               *)
LEMMA StartStepPut ==
    ASSUME Base, PutInv, StartStep PROVE PutInv'
  <1>0. PICK a \in DOMAIN pipe : a = At BY StartStepIs DEF Base
  <1>1. /\ (\A k \in DOMAIN pipe : k # a => pipe'[k] = pipe[k])
        /\ pipe[a].exec = "no" /\ pipe'[a].exec = "loaded"
        /\ UNCHANGED <<blockVars, seen>>
    BY <1>0, StartStepIs DEF Base
  <1>2. Aside BY StartStepAside DEF Base
  <1>3. \A k \in DOMAIN pipe : pipe'[k].exec # "done" <=> pipe[k].exec # "done" BY <1>1
  <1> QED BY <1>1, <1>2, <1>3, StillPut DEF blockVars

(* PutInv, when a transfer ends.                                             *)
LEMMA TransferEndsPut ==
    ASSUME Base, TrkInv, LoadInv, PutInv, NEW r \in Reqs, TransferEnds(r) PROVE PutInv'
  <1>1. /\ Aside /\ pipe' = pipe /\ seen' = seen /\ dma[r].s = "flying"
        /\ \A b \in Blocks : b \notin Ids(dma[r].blocks) => content'[b] = content[b]
    BY TransferEndsAside DEF Base
  <1>2. SameShape /\ table' = table /\ deferred' = deferred BY <1>1 DEF Aside, SameBlocks
  <1> SUFFICES ASSUME Intact' PROVE PutInv' BY DEF PutInv
  <1>3. Intact /\ Clean BY <1>1, IntactOf
  <1>4. r \in loading BY <1>1 DEF TrkInv, TrkOf
  <1>5. st[r] = "remote" /\ dma[r].blocks = table[r] BY <1>3, <1>4 DEF LoadInv, LoadOf, LoadingOf
  <1>6. ASSUME NEW q \in Reqs PROVE PutReq(q)'
    <2>1. PutReq(q) BY <1>3 DEF PutInv
    <2> QED BY <1>1, <2>1, AsideReq
  <1>7. ASSUME NEW k \in DOMAIN pipe, NEW p \in pipe[k].puts PROVE PutOf(k, p)'
    <2>1. PutOf(k, p) BY <1>3 DEF PutInv
    <2>2. p \in WriteT /\ p.kv[1] \in Reqs /\ st[p.kv[1]] \notin Fresher /\ p.block \in Blocks BY PutTyped
    <2>3. InPlace(p, k) BY <2>1 DEF PutOf
    <2>4. InPlace(p, k)' BY <1>2, <2>2, <2>3, InPlaceShape, StaysSame
    <2>5. p.block \notin Range(table[r])
      <3> SUFFICES ASSUME p.block \in Range(table[r]) PROVE FALSE OBVIOUS
      <3>1. PICK i \in DOMAIN table[r] : p.block = table[r][i] BY DEF Range
      <3>2. p.kv = <<r, i>> BY <2>2, <2>3, <3>1, WhoseBlock
      <3> QED BY <1>5, <2>2, <3>2 DEF Fresher
    <2>6. p.block \notin Ids(dma[r].blocks) BY <1>5, <2>5 DEF Ids, Range
    <2>7. content'[p.block] = content[p.block] BY <1>1, <2>2, <2>6
    <2> QED BY <1>1, <1>2, <2>1, <2>4, <2>7, PutFrame
  <1> QED BY <1>1, <1>3, <1>6, <1>7 DEF PutInv

(* PutInv, when a running request is scheduled.                              *)
LEMMA TakeRunningPut ==
    ASSUME CacheAssumption, EngineAssumption, Base, PlaceInv, PutInv, TakeRunning PROVE PutInv'
  <1>0. PICK r \in Reqs : r = Here BY TakeRunningIs DEF Base
  <1>1. /\ st[r] = "running" /\ cur.n[r] = 0
        /\ cur'.n[r] \in Nat \ {0} /\ \A q \in Reqs : q # r => cur'.n[q] = cur.n[q]
        /\ cur'.got[r] = Given(r, computed[r] + cur'.n[r])
        /\ \A q \in Reqs : q # r => cur'.got[q] = cur.got[q]
        /\ table'[r] = table[r] \o Given(r, computed[r] + cur'.n[r])
        /\ \A q \in Reqs : q # r => table'[q] = table[q]
        /\ Len(table'[r]) = Len(table[r]) + Missing(r, computed[r] + cur'.n[r])
        /\ \A i \in DOMAIN table[r] : i \in DOMAIN table'[r] /\ table'[r][i] = table[r][i]
        /\ \A b \in Blocks \ free : content'[b] = content[b]
        /\ deferred' = deferred
        /\ UNCHANGED <<cacheVars, reqVars, doneVars, pipe, seen>>
    BY <1>0, TakeRunningIs DEF Base
  <1>2. st' = st /\ computed' = computed /\ trk' = trk /\ recvFailed' = recvFailed /\ pipe' = pipe /\ seen' = seen
    BY <1>1 DEF reqVars, cacheVars, trkVars, doneVars
  <1> SUFFICES ASSUME Intact' PROVE PutInv' BY DEF PutInv
  <1>3. Intact BY <1>2, IntactOf
  <1>4. ASSUME NEW q \in Reqs PROVE PutReq(q)'
    <2>1. PutReq(q) BY <1>3 DEF PutInv
    <2>2. CASE q # r BY <1>1, <1>2, <2>1, <2>2, PutReqFrame
    <2>3. CASE q = r
      <3>1. trk[r].blocks = table[r] /\ Len(table[r]) = computed[r]
        <4>1. trk[r].blocks \o cur.got[r] = trk[r].blocks BY <1>1, GotNone
        <4>2. computed[r] + 0 = computed[r] BY DEF Base, Types, ReqTypes
        <4> QED BY <1>1, <2>1, <2>3, <4>1, <4>2 DEF PutReq
      <3>2. trk'[r].blocks \o cur'.got[r] = table'[r] BY <1>1, <1>2, <3>1
      <3>3. Len(table'[r]) = computed'[r] + cur'.n[r]
        <4> DEFINE m == cur'.n[r]
        <4>1. computed[r] \in Nat /\ m \in Nat \ {0} BY <1>1 DEF Base, Types, ReqTypes
        <4>2. Missing(r, computed[r] + m) = m BY <3>1, <4>1 DEF Missing
        <4>3. Len(table'[r]) = Len(table[r]) + Missing(r, computed[r] + m) BY <1>1
        <4> HIDE DEF m
        <4>4. Len(table'[r]) = computed[r] + m BY <3>1, <4>2, <4>3
        <4> QED BY <1>2, <4>4 DEF m
      <3> QED BY <1>1, <1>2, <2>3, <3>2, <3>3 DEF PutReq
    <2> QED BY <2>2, <2>3
  <1>5. SameShape BY <1>2, SameShapeIs DEF Base, Types
  <1>6. \A q \in Reqs : Stays(q) BY <1>1 DEF Stays
  <1> QED BY <1>1, <1>2, <1>3, <1>4, <1>5, <1>6, PutsKept

(* PutInv, when the last running request is preempted.                       *)
LEMMA PreemptPut ==
    ASSUME CacheAssumption, EngineAssumption, Base, PutInv, Preempt PROVE PutInv'
  <1>0. PICK v \in Reqs : v = Last(running) BY PreemptIs DEF Base
  <1>1. /\ st'[v] = "preempted"
        /\ \A q \in Reqs : q # v => st'[q] = st[q] /\ computed'[q] = computed[q] /\ table'[q] = table[q]
        /\ deferred \subseteq deferred' /\ cur'.n = cur.n /\ cur'.got = cur.got
        /\ UNCHANGED <<cacheVars, content, recvFailed, pipe, seen>>
        /\ \A k \in DOMAIN pipe : pipe[k].n[v] > 0 =>
              \A b \in Range(table[v]) : \E d \in deferred' : b \in d.blocks /\ d.steps >= Upto(k)
    BY <1>0, PreemptIs DEF Base
  <1>2. trk' = trk /\ content' = content /\ recvFailed' = recvFailed /\ pipe' = pipe /\ seen' = seen
    BY <1>1 DEF cacheVars, trkVars
  <1> SUFFICES ASSUME Intact' PROVE PutInv' BY DEF PutInv
  <1>3. Intact BY <1>2, IntactOf
  <1>4. ASSUME NEW q \in Reqs PROVE PutReq(q)'
    <2>1. PutReq(q) BY <1>3 DEF PutInv
    <2>2. CASE q # v BY <1>1, <1>2, <2>1, <2>2, PutReqFrame
    <2>3. CASE q = v BY <1>1, <2>3 DEF PutReq
    <2> QED BY <2>2, <2>3
  <1>5. SameShape BY <1>2, SameShapeIs DEF Base, Types
  <1>6. ASSUME NEW k \in DOMAIN pipe, NEW p \in pipe[k].puts PROVE PutOf(k, p)'
    <2>1. PutOf(k, p) BY <1>3 DEF PutInv
    <2>2. p \in WriteT /\ p.kv[1] \in Reqs /\ pipe[k].n[p.kv[1]] > 0 BY PutTyped
    <2>3. InPlace(p, k) BY <2>1 DEF PutOf
    <2>4. InPlace(p, k)'
      <3>1. CASE p.kv[1] # v
        <4>1. Stays(p.kv[1]) BY <1>1, <2>2, <3>1, StaysSame
        <4> QED BY <1>1, <1>5, <2>3, <4>1, InPlaceShape
      <3>2. CASE p.kv[1] = v
        <4>1. Upto(k)' = Upto(k) BY <1>2 DEF Upto
        <4>2. CASE p.kv[2] \in DOMAIN table[v] /\ table[v][p.kv[2]] = p.block
          <5>1. p.block \in Range(table[v]) BY <4>2 DEF Range
          <5> QED BY <1>1, <2>2, <3>2, <4>1, <5>1 DEF InPlace
        <4>3. CASE \E d \in deferred : p.block \in d.blocks /\ d.steps >= Upto(k)
          BY <1>1, <4>1, <4>3 DEF InPlace
        <4> QED BY <2>3, <3>2, <4>2, <4>3 DEF InPlace
      <3> QED BY <3>1, <3>2
    <2> QED BY <1>2, <1>5, <2>1, <2>4, PutFrame
  <1> QED BY <1>2, <1>3, <1>4, <1>6 DEF PutInv

(* PutInv, when the wait of a request for its load is over.                  *)
LEMMA PromotePut ==
    ASSUME CacheAssumption, Base, LoadInv, PutInv, Promote PROVE PutInv'
  <1>0. PICK r \in Reqs : r = Head1 BY PromoteIs
  <1>1. /\ st[r] = "remote" /\ r \in recvDone
        /\ st'[r] = IF r \in hurt THEN "preempted" ELSE "waiting"
        /\ computed'[r] = IF r \notin recvFailed /\ computed[r] = Tokens(r)
                          THEN computed[r] - 1 ELSE computed[r]
        /\ table'[r] = IF Lost(r) THEN << >> ELSE table[r]
        /\ \A q \in Reqs : q # r => st'[q] = st[q] /\ computed'[q] = computed[q] /\ table'[q] = table[q]
        /\ seen' = IF Lost(r) THEN seen \cup {"lost"} ELSE seen
        /\ recvFailed' = recvFailed \ {r}
        /\ UNCHANGED <<cacheVars, content, deferred, pipe, cur>>
    BY <1>0, PromoteIs
  <1>2. trk' = trk /\ content' = content /\ deferred' = deferred /\ pipe' = pipe /\ cur' = cur
    BY <1>1 DEF cacheVars, trkVars
  <1> SUFFICES ASSUME Intact' PROVE PutInv' BY DEF PutInv
  <1>3. seen \subseteq seen' BY <1>1
  <1>4. Intact /\ Clean BY <1>3, IntactOf
  <1>5. ~Lost(r) BY <1>1 DEF Intact
  <1>6. r \notin recvFailed BY <1>4, <1>5 DEF LoadInv, LoadOf, CameOf, Lost
  <1>7. table' = table /\ seen' = seen
    <2>1. table'[r] = table[r] /\ seen' = seen BY <1>1, <1>5
    <2>2. table \in [Reqs -> Seq(Blocks)] /\ table' \in [Reqs -> Seq(Blocks)] 
      BY PromoteIs DEF Base, Types, BlockTypes
    <2> QED BY <1>1, <2>1, <2>2
  <1>8. ASSUME NEW q \in Reqs PROVE PutReq(q)'
    <2>1. PutReq(q) BY <1>4 DEF PutInv
    <2>2. CASE q # r
      <3>1. q \in recvFailed => q \in recvFailed' BY <1>1, <2>2
      <3> QED BY <1>1, <1>2, <2>1, <2>2, <3>1, PutReqFrame
    <2>3. CASE q = r
      <3>1. trk[r].blocks \o cur.got[r] = table[r] /\ Len(table[r]) = computed[r]
        BY <1>1, <1>6, <2>1, <2>3 DEF PutReq
      <3>2. computed[r] \in Nat /\ computed'[r] \in Nat BY PromoteIs DEF Base, Types, ReqTypes
      <3>3. Len(table[r]) <= computed'[r] + 1 BY <1>1, <3>1, <3>2
      <3> QED BY <1>1, <1>2, <1>7, <2>3, <3>1, <3>3 DEF PutReq
    <2> QED BY <2>2, <2>3
  <1>9. SameShape BY <1>2, SameShapeIs DEF Base, Types
  <1> QED BY <1>2, <1>4, <1>7, <1>8, <1>9, PutsKept, StaysSame

(* A request that is admitted has all its blocks in the tracker it is noted in. *)
LEMMA NotedBlocks ==
    ASSUME CacheAssumption, EngineAssumption, Base, TableInv, TrkInv, NEW r \in Reqs, r = Head1,
           st[r] \in {"waiting", "preempted"}, PutReq(r), cur.n[r] = 0, NEW base \in Nat,
           st[r] = "preempted" => base = 0
    PROVE  Noted(base) \in TrackerT /\ Noted(base).blocks = table[r]
  <1>1. TableOf(r) /\ TrkOf(r) /\ trk[r] \in TrackerT BY TrackerFields DEF TableInv, TrkInv, Base, Types, TrkTypes
  <1>2. Noted(base) \in TrackerT BY NotedIs DEF Base, Types
  <1>3. CASE st[r] = "waiting"
    <2>1. trk[r].blocks = table[r] BY <1>3, GotNone DEF PutReq
    <2>2. \/ Noted(base).blocks = trk[r].blocks
          \/ trk[r].s = "none" /\ Noted(base).blocks = << >>
      BY <1>3, NotedIs DEF Base, Types
    <2>3. trk[r].s = "none" => trk[r].blocks = << >> BY <1>1 DEF TrkOf
    <2> QED BY <1>2, <2>1, <2>2, <2>3
  <1>4. CASE st[r] = "preempted"
    <2>1. computed[r] = 0 /\ table[r] = << >> BY <1>1, <1>4 DEF TableOf
    <2>2. Noted(base) = Tracker(r, TRUE)
      <3>1. ~ (computed[r] > 0) BY <2>1
      <3>2. Noted(base) = Matched(r, TRUE, base) BY <1>4, <3>1 DEF Noted
      <3> QED BY <1>4, <3>2 DEF Matched
    <2>3. Tracker(r, TRUE).blocks = << >>
      <3>1. trk[r].s = "prefetching" => trk[r].blocks = << >> BY <1>1 DEF TrkOf
      <3>2. Fresh.blocks = << >> BY DEF Fresh, NoTracker
      <3> QED BY <3>1, <3>2 DEF Tracker
    <2> QED BY <1>2, <2>1, <2>2, <2>3
  <1> QED BY <1>3, <1>4

(* And it has all its blocks in it once they are allocated.                  *)
LEMMA AdmitBlocks ==
    ASSUME NEW t \in TrackerT, NEW tab \in Seq(Blocks), NEW u, u = AfterAlloc(t, tab),
           Len(t.blocks) <= Len(tab), \A i \in DOMAIN t.blocks : tab[i] = t.blocks[i]
    PROVE  u.blocks = tab
  BY AfterAllocIs

(* PutInv, when a request is admitted to load its hit.                       *)
LEMMA LoadPut ==
    ASSUME CacheAssumption, EngineAssumption, Base, TableInv, TrkInv, PutInv, NEW base \in Nat,
           AdmittedAs(base, TRUE)
    PROVE  PutInv'
  <1>0. PICK r \in Reqs : r = Head1 BY LoadIs
  <1>1. /\ st[r] = "waiting" /\ st'[r] = "remote" /\ computed[r] = 0 /\ computed'[r] = base /\ base > 0
        /\ \A q \in Reqs : q # r => /\ st'[q] = st[q] /\ computed'[q] = computed[q]
                                    /\ table'[q] = table[q] /\ trk'[q] = trk[q]
        /\ trk'[r] = AfterAlloc(Noted(base), table'[r])
        /\ Len(table'[r]) = Len(table[r]) + Missing(r, base) /\ Stays(r)
        /\ \A b \in Blocks \ free : content'[b] = content[b]
        /\ cur'.n = cur.n /\ cur'.got = cur.got
        /\ UNCHANGED <<deferred, recvFailed, pipe, seen>>
        /\ Base'
    BY <1>0, LoadIs
  <1> SUFFICES ASSUME Intact' PROVE PutInv' BY DEF PutInv
  <1>2. Intact BY <1>1, IntactOf
  <1>3. ASSUME NEW q \in Reqs PROVE PutReq(q)'
    <2>1. PutReq(q) BY <1>2 DEF PutInv
    <2>2. CASE q # r BY <1>1, <2>1, <2>2, PutReqFrame
    <2>3. CASE q = r
      <3>1. cur.n[r] = 0
        <4>1. cur.n[r] \in Nat BY CurFields DEF Base, Types, CurTypes
        <4> QED BY <1>1, <4>1, CurOf DEF Base
      <3>2. Noted(base) \in TrackerT /\ Noted(base).blocks = table[r]
        BY <1>0, <1>1, <2>1, <2>3, <3>1, NotedBlocks
      <3>3. table[r] \in Seq(Blocks) /\ table'[r] \in Seq(Blocks) /\ Len(table[r]) \in Nat
        BY <1>1, LoadTyped DEF Base, Types, BlockTypes
      <3>4. Len(table[r]) <= 1 BY <1>1, <2>1, <2>3 DEF PutReq
      <3>5. Len(table'[r]) = base
        <4>1. Missing(r, base) = IF base > Len(table[r]) THEN base - Len(table[r]) ELSE 0 BY DEF Missing
        <4>2. Missing(r, base) = base - Len(table[r]) BY <1>1, <3>3, <3>4, <4>1
        <4> QED BY <1>1, <3>3, <4>2
      <3>6. Len(table[r]) <= Len(table'[r]) BY <1>1, <3>3, <3>4, <3>5
      <3>7. trk'[r].blocks = table'[r] 
        <4> DEFINE t == Noted(base)
        <4>1. t \in TrackerT /\ t.blocks = table[r] /\ trk'[r] = AfterAlloc(t, table'[r]) BY <1>1, <3>2
        <4>2. Len(t.blocks) <= Len(table'[r]) /\ \A i \in DOMAIN t.blocks : table'[r][i] = t.blocks[i]
          BY <1>1, <3>6, <4>1 DEF Stays
        <4> HIDE DEF t
        <4> QED BY <3>3, <4>1, <4>2, AdmitBlocks
      <3>8. cur'.got[r] = << >> BY <1>1, <3>1, GotNone
      <3>9. trk'[r].blocks \o cur'.got[r] = table'[r] BY <3>3, <3>7, <3>8, ConcatEmptySeq
      <3> QED BY <1>1, <2>3, <3>5, <3>9 DEF PutReq
    <2> QED BY <2>2, <2>3
  <1>4. SameShape BY <1>1, SameShapeIs DEF Base, Types
  <1>5. \A q \in Reqs : Stays(q)
    <2>1. \A q \in Reqs : q # r => Stays(q) BY <1>1, StaysSame
    <2> QED BY <1>1, <2>1
  <1> QED BY <1>1, <1>2, <1>3, <1>4, <1>5, PutsKept

(* A request that lacks blocks for n tokens is given those.                  *)
LEMMA MissingIs ==
    ASSUME NEW r, NEW n \in Nat, Len(table[r]) \in Nat, Len(table[r]) <= n
    PROVE  Len(table[r]) + Missing(r, n) = n
  <1>1. PICK l \in Nat : l = Len(table[r]) OBVIOUS
  <1>2. l <= n BY <1>1
  <1>3. Missing(r, n) = IF n > l THEN n - l ELSE 0 BY <1>1 DEF Missing
  <1>4. l + (IF n > l THEN n - l ELSE 0) = n BY <1>2
  <1> QED BY <1>1, <1>3, <1>4

(* PutInv, when a request is admitted to run.                                *)
LEMMA RunPut ==
    ASSUME CacheAssumption, EngineAssumption, Base, PlaceInv, TableInv, TrkInv, PutInv, NEW base \in Nat,
           AdmittedAs(base, FALSE)
    PROVE  PutInv'
  <1>0. PICK r \in Reqs : r = Head1 BY RunIs
  <1>1. /\ st[r] \in {"waiting", "preempted"} /\ st'[r] = "running" /\ base = computed[r] /\ computed'[r] = base
        /\ \A q \in Reqs : q # r => /\ st'[q] = st[q] /\ computed'[q] = computed[q]
                                    /\ table'[q] = table[q] /\ trk'[q] = trk[q]
                                    /\ cur'.n[q] = cur.n[q]
        /\ trk'[r] = AfterAlloc(Noted(base), table'[r])
        /\ cur'.n[r] \in Nat \ {0}
        /\ Len(table'[r]) = Len(table[r]) + Missing(r, base + cur'.n[r]) /\ Stays(r)
        /\ \A b \in Blocks \ free : content'[b] = content[b]
        /\ cur.n[r] = 0 /\ cur'.got = cur.got
        /\ UNCHANGED <<deferred, recvFailed, pipe, seen>>
        /\ Base'
    BY <1>0, RunIs
  <1> SUFFICES ASSUME Intact' PROVE PutInv' BY DEF PutInv
  <1>2. Intact BY <1>1, IntactOf
  <1>3. ASSUME NEW q \in Reqs PROVE PutReq(q)'
    <2>1. PutReq(q) BY <1>2 DEF PutInv
    <2>2. CASE q # r BY <1>1, <2>1, <2>2, PutReqFrame
    <2>3. CASE q = r
      <3>1. TableOf(r) BY DEF TableInv
      <3>2. Noted(base) \in TrackerT /\ Noted(base).blocks = table[r]
        <4>1. st[r] = "preempted" => base = 0 BY <1>1, <3>1 DEF TableOf
        <4> QED BY <1>0, <1>1, <2>1, <2>3, <4>1, NotedBlocks
      <3>3. table[r] \in Seq(Blocks) /\ table'[r] \in Seq(Blocks) /\ Len(table[r]) \in Nat
        BY <1>1, LoadTyped DEF Base, Types, BlockTypes
      <3>4. Len(table[r]) <= base + 1
        <4>1. CASE st[r] = "waiting" BY <1>1, <2>1, <2>3, <4>1 DEF PutReq
        <4>2. CASE st[r] = "preempted"
          <5>1. Len(table[r]) = 0 BY <3>1, <4>2 DEF TableOf
          <5> QED BY <5>1
        <4> QED BY <1>1, <4>1, <4>2
      <3> DEFINE m == base + cur'.n[r]
      <3>5. m \in Nat /\ Len(table[r]) <= m
        <4>1. PICK n \in Nat \ {0} : n = cur'.n[r] BY <1>1
        <4>2. Len(table[r]) <= base + n /\ base + n \in Nat BY <3>3, <3>4
        <4> QED BY <4>1, <4>2
      <3>6. Len(table'[r]) = m
        <4>1. Len(table'[r]) = Len(table[r]) + Missing(r, m) BY <1>1
        <4>2. Len(table[r]) \in Nat BY <3>3
        <4> HIDE DEF m
        <4>3. Len(table[r]) + Missing(r, m) = m BY <3>5, <4>2, MissingIs
        <4> QED BY <4>1, <4>3
      <3>7. Len(table[r]) <= Len(table'[r]) BY <3>5, <3>6
      <3>8. trk'[r].blocks = table'[r]
        <4> DEFINE t == Noted(base)
        <4>1. t \in TrackerT /\ t.blocks = table[r] /\ trk'[r] = AfterAlloc(t, table'[r]) BY <1>1, <3>2
        <4>2. Len(t.blocks) <= Len(table'[r]) /\ \A i \in DOMAIN t.blocks : table'[r][i] = t.blocks[i]
          BY <1>1, <3>7, <4>1 DEF Stays
        <4> HIDE DEF t
        <4> QED BY <3>3, <4>1, <4>2, AdmitBlocks
      <3>9. cur'.got[r] = << >> BY <1>1, GotNone
      <3>10. trk'[r].blocks \o cur'.got[r] = table'[r] BY <3>3, <3>8, <3>9, ConcatEmptySeq
      <3> QED BY <1>1, <2>3, <3>6, <3>10 DEF PutReq
    <2> QED BY <2>2, <2>3
  <1>4. SameShape BY <1>1, SameShapeIs DEF Base, Types
  <1>5. \A q \in Reqs : Stays(q)
    <2>1. \A q \in Reqs : q # r => Stays(q) BY <1>1, StaysSame
    <2> QED BY <1>1, <2>1
  <1> QED BY <1>1, <1>2, <1>3, <1>4, <1>5, PutsKept

(* The blocks of a tracker whose chunk is scheduled.                         *)
LEMMA CountedBlocks ==
    ASSUME NEW t \in TrackerT, NEW n \in Nat, NEW g \in Seq(Blocks)
    PROVE  Counted(t, n, g).blocks = t.blocks \o g
  <1> DEFINE u == Counted(t, n, g)
  <1>1. u = Counted(t, n, g) OBVIOUS
  <1> HIDE DEF u
  <1>2. u.blocks = t.blocks \o g BY <1>1, CountedIs
  <1> QED BY <1>1, <1>2

(* The tracker of a request at the end of schedule().                        *)
LEMMA AfterStepIs ==
    ASSUME CacheAssumption, Base, NEW r \in Reqs
    PROVE  AfterStep(r) \in TrackerT /\ AfterStep(r).blocks = trk[r].blocks \o cur.got[r]
  <1> DEFINE t == trk[r]  n == cur.n[r]  g == cur.got[r]  u == AfterStep(r)
  <1>1. t \in TrackerT BY DEF Base, Types, TrkTypes
  <1>2. n \in Nat /\ g \in Seq(Blocks) BY CurFields DEF Base, Types, CurTypes
  <1>3. u = Counted(t, n, g) BY DEF AfterStep
  <1> HIDE DEF t, n, g, u
  <1>4. u \in TrackerT BY <1>1, <1>2, <1>3, CountedIs
  <1>5. u.blocks = t.blocks \o g BY <1>1, <1>2, <1>3, CountedBlocks
  <1> QED BY <1>4, <1>5 DEF t, g, u

(* What a step is to store is the KV of its chunk, or some step on its way  *)
(* up to that one writes it.                                                *)
LEMMA NewPutIs ==
    ASSUME CacheAssumption, EngineAssumption, Base, TableInv, KvInv, Clean, NEW p \in NewPuts,
           \A q \in Reqs : PutReq(q)
    PROVE  \E r \in Reqs : \E i \in DOMAIN table[r] :
             /\ p.kv = <<r, i>> /\ p.block = table[r][i] /\ p \in WriteT
             /\ content[p.block] = p.kv \/ p \in NewWrites
                \/ \E k \in DOMAIN pipe : pipe[k].exec # "done" /\ p \in pipe[k].writes
  <1>1. /\ p \in WriteT /\ p.kv[1] \in Scheduling
        /\ p.kv[2] \in Storable(AfterStep(p.kv[1]), Tokens(p.kv[1]))
        /\ p.block = AfterStep(p.kv[1]).blocks[p.kv[2]]
    BY NewPutsAre DEF Base
  <1>2. PICK r \in Reqs : r = p.kv[1] BY <1>1, ScheduledReq DEF Base
  <1>3. PICK i \in Nat : i = p.kv[2] BY <1>1, WriteFields
  <1>4. p.kv = <<r, i>> /\ p = [block |-> p.block, kv |-> <<r, i>>] BY <1>1, <1>2, <1>3, WriteFields DEF WriteT
  <1>5. /\ st[r] = "running" /\ computed[r] \in Nat /\ cur.n[r] \in Nat /\ Len(table[r]) \in Nat
        /\ DOMAIN table[r] = 1..Len(table[r]) /\ Tokens(r) \in Nat
    BY <1>1, <1>2, ScheduledReq DEF Base
  <1>6. AfterStep(r) \in TrackerT /\ AfterStep(r).blocks = table[r]
    <2>1. PutReq(r) OBVIOUS
    <2> QED BY <1>5, <2>1, AfterStepIs DEF PutReq
  <1>7. i \in DOMAIN table[r] /\ i > 0
    <2>1. i \in Storable(AfterStep(r), Tokens(r)) BY <1>1, <1>2, <1>3
    <2>2. i \in DOMAIN AfterStep(r).blocks /\ i \in Nat \ {0} BY <2>1, <1>5, <1>6, StorableIs
    <2> QED BY <1>6, <2>2
  <1>8. p.block = table[r][i] BY <1>1, <1>2, <1>3, <1>6
  <1>9. Len(table[r]) = computed[r] + cur.n[r] BY <1>5 DEF PutReq
  <1>10. CASE i <= computed[r]
    <2>1. i \in 1..computed[r] BY <1>5, <1>7, <1>10
    <2>2. content[table[r][i]] = <<r, i>> \/ Pendw(r, i) BY <1>5, <2>1 DEF KvInv
    <2>3. Pendw(r, i) => \E k \in DOMAIN pipe : pipe[k].exec # "done" /\ p \in pipe[k].writes
      BY <1>4, <1>8 DEF Pendw
    <2> QED BY <1>1, <1>4, <1>7, <1>8, <2>2, <2>3
  <1>11. CASE ~(i <= computed[r])
    <2>1. i \in Positions(r) BY <1>5, <1>7, <1>9, <1>11 DEF Positions
    <2>2. [block |-> table[r][i], kv |-> <<r, i>>] \in NewWrites
      BY <1>1, <1>2, <2>1, NewWritesAre DEF Base
    <2>3. p \in NewWrites BY <1>4, <1>8, <2>2
    <2> QED BY <1>1, <1>4, <1>7, <1>8, <2>3
  <1> QED BY <1>10, <1>11

(* What the new step writes is in place.                                     *)
LEMMA NewWriteIs ==
    ASSUME CacheAssumption, EngineAssumption, Base, NEW w \in NewWrites
    PROVE  w \in WriteT /\ InPlace(w, 0)
           /\ \E r \in Reqs : \E i \in DOMAIN table[r] : w.kv = <<r, i>> /\ w.block = table[r][i]
  <1>1. /\ w \in WriteT /\ w.kv[1] \in Scheduling /\ w.kv[2] \in Positions(w.kv[1])
        /\ w.block = table[w.kv[1]][w.kv[2]]
    BY NewWritesAre DEF Base
  <1>2. w.kv[1] \in Reqs /\ w.kv[2] \in DOMAIN table[w.kv[1]] BY <1>1, ScheduledReq DEF Base
  <1>3. w.kv = <<w.kv[1], w.kv[2]>> BY <1>1, WriteFields
  <1> QED BY <1>1, <1>2, <1>3 DEF InPlace

(* PutInv, when a call of schedule() ends.                                   *)
LEMMA FinishSchedulePut ==
    ASSUME CacheAssumption, EngineAssumption, Base, TableInv, KvInv, PutInv, FinishSchedule
    PROVE  PutInv'
  <1>0. PICK z \in Nat : z = Len(pipe) + 1 BY PipeIs DEF Base, Types
  <1>1. /\ DOMAIN pipe' = 1..z /\ z \in DOMAIN pipe' /\ z \notin DOMAIN pipe
        /\ \A k \in DOMAIN pipe' : k # z => k \in DOMAIN pipe
        /\ \A k \in DOMAIN pipe : k \in DOMAIN pipe' /\ k \in 1..z /\ k \in Nat /\ 1..k \subseteq DOMAIN pipe
        /\ \A k \in DOMAIN pipe : pipe'[k] = pipe[k]
        /\ pipe'[z].writes = NewWrites /\ pipe'[z].puts = NewPuts /\ pipe'[z].exec = "no"
    <2>1. /\ pipe'[z] = NewStep /\ DOMAIN pipe' = 1..z /\ DOMAIN pipe = 1..Len(pipe) /\ Len(pipe) \in Nat
          /\ \A k \in DOMAIN pipe : pipe'[k] = pipe[k]
      BY <1>0, FinishScheduleIs, PipeIs DEF Base, Types
    <2>2. NewStep.writes = NewWrites /\ NewStep.puts = NewPuts /\ NewStep.exec = "no" BY NewStepIs DEF Base
    <2> QED BY <1>0, <2>1, <2>2
  <1>2. /\ \A r \in Reqs : computed'[r] = computed[r] + cur.n[r]
        /\ st' = st /\ table' = table /\ content' = content /\ deferred' = deferred /\ recvFailed' = recvFailed
        /\ seen \subseteq seen' /\ ("misfiled" \in seen' => "misfiled" \in seen)
        /\ cur' = Idle
    BY FinishScheduleIs DEF blockVars
  <1> SUFFICES ASSUME Intact' PROVE PutInv' BY DEF PutInv
  <1>3. Intact /\ Clean BY <1>2, IntactOf
  <1>4. \A r \in Reqs : PutReq(r) BY <1>3 DEF PutInv
  <1>5. ASSUME NEW r \in Reqs PROVE PutReq(r)'
    <2>1. /\ computed[r] \in Nat /\ cur.n[r] \in Nat /\ cur'.n[r] = 0 /\ cur'.got[r] = << >>
          /\ computed'[r] = computed[r] + cur.n[r] /\ computed'[r] \in Nat
      <3>1. computed[r] \in Nat /\ cur.n[r] \in Nat BY LoadTyped, CurFields DEF Base, Types, CurTypes
      <3> QED BY <1>2, <3>1, IdleIs, ZeroIs
    <2>2. trk'[r].blocks = trk[r].blocks \o cur.got[r] /\ trk'[r].blocks \in Seq(Blocks)
      BY ScheduledTrk, TrackerFields
    <2>3. trk'[r].blocks \o cur'.got[r] = trk'[r].blocks BY <2>1, <2>2, ConcatEmptySeq
    <2>4. cur.n[r] > 0 => st[r] = "running" BY CurOf DEF Base
    <2>5. st[r] # "running" => computed'[r] = computed[r] BY <2>1, <2>4
    <2>6. computed'[r] + cur'.n[r] = computed[r] + cur.n[r] BY <2>1
    <2> QED BY <1>2, <1>4, <2>2, <2>3, <2>5, <2>6 DEF PutReq
  <1>6. ASSUME NEW k \in DOMAIN pipe, NEW p \in pipe[k].puts PROVE PutOf(k, p)'
    <2>1. PutOf(k, p) BY <1>3 DEF PutInv
    <2>2. p \in WriteT /\ InPlace(p, k) BY <2>1, PutTyped DEF PutOf
    <2>3. InPlace(p, k)'
      <3>1. k \in Nat /\ \A i \in 1..k : pipe'[i] = pipe[i] BY <1>1
      <3>2. Upto(k)' = Upto(k) BY <3>1, UptoSame
      <3> QED BY <1>2, <2>2, <3>2 DEF InPlace
    <2>4. ASSUME NEW w \in NewWrites, w.block = p.block PROVE w.kv = p.kv
      <3>1. PICK r \in Reqs : \E i \in DOMAIN table[r] : w.kv = <<r, i>> /\ w.block = table[r][i] BY NewWriteIs
      <3>2. PICK i \in DOMAIN table[r] : w.kv = <<r, i>> /\ w.block = table[r][i] BY <3>1
      <3>3. p.block = table[r][i] BY <2>4, <3>2
      <3>4. p.kv = <<r, i>> BY <2>2, <3>3, WhoseBlock
      <3> QED BY <3>2, <3>4
    <2>5. \A j \in DOMAIN pipe' : \A w \in pipe'[j].writes : w.block = p.block => w.kv = p.kv
      BY <1>1, <2>1, <2>4 DEF PutOf
    <2>6. pipe'[k].exec # "done" =>
            content'[p.block] = p.kv \/ \E j \in 1..k : pipe'[j].exec # "done" /\ p \in pipe'[j].writes
      BY <1>1, <1>2, <2>1 DEF PutOf
    <2> QED BY <2>3, <2>5, <2>6 DEF PutOf
  <1>7. ASSUME NEW p \in NewPuts PROVE PutOf(z, p)'
    <2>1. PICK r \in Reqs : \E i \in DOMAIN table[r] :
             /\ p.kv = <<r, i>> /\ p.block = table[r][i] /\ p \in WriteT
             /\ content[p.block] = p.kv \/ p \in NewWrites
                \/ \E k \in DOMAIN pipe : pipe[k].exec # "done" /\ p \in pipe[k].writes
      BY <1>3, <1>4, NewPutIs
    <2>2. PICK i \in DOMAIN table[r] :
             /\ p.kv = <<r, i>> /\ p.block = table[r][i] /\ p \in WriteT
             /\ content[p.block] = p.kv \/ p \in NewWrites
                \/ \E k \in DOMAIN pipe : pipe[k].exec # "done" /\ p \in pipe[k].writes
      BY <2>1
    <2>3. InPlace(p, z)' BY <1>2, <2>2 DEF InPlace
    <2>4. ASSUME NEW j \in DOMAIN pipe', NEW w \in pipe'[j].writes, w.block = p.block PROVE w.kv = p.kv
      <3>1. w \in WriteT /\ \E k : InPlace(w, k) BY <1>1, StepWrites, NewWriteIs
      <3>2. PICK k : InPlace(w, k) BY <3>1
      <3>3. w.block = table[r][i] BY <2>2, <2>4
      <3>4. w.kv = <<r, i>> BY <3>1, <3>2, <3>3, WhoseBlock
      <3> QED BY <2>2, <3>4
    <2>5. content'[p.block] = p.kv \/ \E j \in 1..z : pipe'[j].exec # "done" /\ p \in pipe'[j].writes
      BY <1>1, <1>2, <2>2
    <2> QED BY <2>3, <2>4, <2>5 DEF PutOf
  <1>8. ASSUME NEW k \in DOMAIN pipe', NEW p \in pipe'[k].puts PROVE PutOf(k, p)'
    <2>1. CASE k = z BY <1>1, <1>7, <2>1
    <2>2. CASE k # z BY <1>1, <1>6, <2>2
    <2> QED BY <2>1, <2>2
  <1>9. "misfiled" \notin seen' BY <1>2, <1>3 DEF PutInv
  <1> QED BY <1>5, <1>8, <1>9 DEF PutInv

(* PutInv, when a step is executed.                                          *)
LEMMA ExecutePut ==
    ASSUME Base, PutInv, NEW over, Execute(over) PROVE PutInv'
  <1>0. PICK a \in DOMAIN pipe : a = At BY ExecuteIs DEF Base
  <1>1. /\ SameShape /\ pipe[a].exec # "done" /\ \A k \in DOMAIN pipe : k # a => pipe'[k] = pipe[k]
        /\ \A i \in DOMAIN pipe : i < a => pipe[i].exec = "done"
        /\ pipe'[a].exec = "done"
        /\ content' = [b \in Blocks |->
              IF \E w \in pipe[a].writes : w.block = b
              THEN (CHOOSE w \in pipe[a].writes : w.block = b).kv ELSE content[b]]
        /\ seen' = IF Stored # {} /\ \E p \in pipe[a].puts : content'[p.block] # p.kv
                   THEN seen \cup {"misfiled"} ELSE seen
        /\ SameReqs /\ SameBlocks /\ SameDone /\ trk' = trk /\ cur' = cur
    BY <1>0, ExecuteIs DEF Base
  <1>2. /\ st' = st /\ computed' = computed /\ table' = table /\ deferred' = deferred
        /\ recvFailed' = recvFailed
    BY <1>1 DEF SameReqs, SameBlocks, SameDone
  <1> SUFFICES ASSUME Intact' PROVE PutInv' BY DEF PutInv
  <1>3. Intact
    <2>1. seen \subseteq seen' BY <1>1
    <2> QED BY <2>1, IntactOf
  <1>4. ASSUME NEW q \in Reqs PROVE PutReq(q)'
    <2>1. PutReq(q) BY <1>3 DEF PutInv
    <2> QED BY <1>1, <1>2, <2>1, PutReqFrame
  <1>5. ASSUME NEW k \in DOMAIN pipe, NEW p \in pipe[k].puts,
               content[p.block] = p.kv \/ p \in pipe[a].writes
        PROVE  content'[p.block] = p.kv
    <2>1. PutOf(k, p) BY <1>3 DEF PutInv
    <2>2. p.block \in Blocks BY PutTyped
    <2>3. \A w \in pipe[a].writes : w.block = p.block => w.kv = p.kv BY <2>1 DEF PutOf
    <2>4. CASE \E w \in pipe[a].writes : w.block = p.block
      <3>1. PICK w \in pipe[a].writes : w = CHOOSE x \in pipe[a].writes : x.block = p.block BY <2>4
      <3>2. w.block = p.block BY <2>4, <3>1
      <3> QED BY <1>1, <2>2, <2>3, <2>4, <3>1, <3>2
    <2>5. CASE ~ \E w \in pipe[a].writes : w.block = p.block
      <3>1. p \notin pipe[a].writes BY <2>5
      <3> QED BY <1>1, <1>5, <2>2, <2>5, <3>1
    <2> QED BY <2>4, <2>5
  <1>6. \A k \in DOMAIN pipe : k \in Nat /\ \A j \in 1..k : j \in DOMAIN pipe BY PipeIs DEF Base, Types
  <1>7. \A k \in DOMAIN pipe : /\ k \in DOMAIN pipe' /\ pipe'[k].writes = pipe[k].writes
                               /\ pipe'[k].puts = pipe[k].puts
    BY <1>1 DEF SameShape
  <1>8. ASSUME NEW k \in DOMAIN pipe, NEW p \in pipe[k].puts PROVE PutOf(k, p)'
    <2>1. PutOf(k, p) BY <1>3 DEF PutInv
    <2>2. InPlace(p, k) BY <2>1 DEF PutOf
    <2>3. InPlace(p, k)' BY <1>1, <1>2, <2>2, InPlaceShape, StaysSame
    <2>4. \A j \in DOMAIN pipe' : \A w \in pipe'[j].writes : w.block = p.block => w.kv = p.kv
      <3>1. DOMAIN pipe' = DOMAIN pipe BY <1>1 DEF SameShape
      <3> QED BY <1>7, <2>1, <3>1 DEF PutOf
    <2>5. ASSUME pipe'[k].exec # "done"
          PROVE  content'[p.block] = p.kv \/ \E j \in 1..k : pipe'[j].exec # "done" /\ p \in pipe'[j].writes
      <3>1. k # a /\ pipe[k].exec # "done" BY <1>1, <2>5
      <3>2. CASE content[p.block] = p.kv BY <1>5, <3>2
      <3>3. CASE \E j \in 1..k : pipe[j].exec # "done" /\ p \in pipe[j].writes
        <4>1. PICK j \in 1..k : pipe[j].exec # "done" /\ p \in pipe[j].writes BY <3>3
        <4>2. CASE j = a BY <1>5, <4>1, <4>2
        <4>3. CASE j # a
          <5>1. pipe'[j] = pipe[j] BY <1>1, <1>6, <4>3
          <5> QED BY <4>1, <5>1
        <4> QED BY <4>2, <4>3
      <3> QED BY <2>1, <3>1, <3>2, <3>3 DEF PutOf
    <2> QED BY <2>3, <2>4, <2>5 DEF PutOf
  <1>9. \A p \in pipe[a].puts : content'[p.block] = p.kv
    <2> SUFFICES ASSUME NEW p \in pipe[a].puts PROVE content'[p.block] = p.kv OBVIOUS
    <2>1. PutOf(a, p) BY <1>3 DEF PutInv
    <2>2. CASE content[p.block] = p.kv BY <1>5, <2>2
    <2>3. CASE \E j \in 1..a : pipe[j].exec # "done" /\ p \in pipe[j].writes
      <3>1. PICK j \in 1..a : pipe[j].exec # "done" /\ p \in pipe[j].writes BY <2>3
      <3>2. j \in DOMAIN pipe /\ ~(j < a) BY <1>1, <1>6, <3>1
      <3>3. j = a BY <1>6, <3>2
      <3> QED BY <1>5, <3>1, <3>3
    <2> QED BY <1>1, <2>1, <2>2, <2>3 DEF PutOf
  <1>10. "misfiled" \notin seen' BY <1>1, <1>3, <1>9 DEF PutInv
  <1>11. \A k \in DOMAIN pipe' : k \in DOMAIN pipe /\ pipe'[k].puts = pipe[k].puts BY <1>1 DEF SameShape
  <1> QED BY <1>4, <1>8, <1>10, <1>11 DEF PutInv

(* PutInv, when a request arrives.                                           *)
LEMMA AddPut ==
    ASSUME Base, TableInv, TrkInv, PutInv, NEW r \in Reqs, Add(r) PROVE PutInv'
  <1>1. /\ st[r] = "new" /\ st'[r] = "waiting" /\ \A q \in Reqs : q # r => st'[q] = st[q]
        /\ UNCHANGED <<cacheVars, computed, blockVars, doneVars, pipe, cur, seen>>
    BY AddBase
  <1>2. /\ computed' = computed /\ table' = table /\ deferred' = deferred /\ content' = content
        /\ trk' = trk /\ recvFailed' = recvFailed /\ pipe' = pipe /\ seen' = seen /\ cur' = cur
    BY <1>1 DEF blockVars, cacheVars, trkVars, doneVars
  <1> SUFFICES ASSUME Intact' PROVE PutInv' BY DEF PutInv
  <1>3. Intact BY <1>2, IntactOf
  <1>4. ASSUME NEW q \in Reqs PROVE PutReq(q)'
    <2>1. PutReq(q) BY <1>3 DEF PutInv
    <2>2. CASE q # r BY <1>1, <1>2, <2>1, <2>2, PutReqFrame
    <2>3. CASE q = r
      <3>1. trk[r].s = "none" /\ trk[r].blocks = << >> BY <1>1 DEF TrkInv, TrkOf
      <3>2. table[r] = << >> /\ computed[r] = 0 BY <1>1 DEF TableInv, TableOf
      <3>3. cur.n[r] = 0
        <4>1. cur.n[r] \in Nat BY CurFields DEF Base, Types, CurTypes
        <4> QED BY <1>1, <4>1, CurOf DEF Base
      <3>4. trk[r].blocks \o cur.got[r] = table[r] BY <3>1, <3>2, <3>3, GotNone
      <3>5. Len(table[r]) = 0 BY <3>2
      <3>6. Len(table[r]) <= computed[r] + 1 BY <3>2, <3>5
      <3> QED BY <1>1, <1>2, <2>3, <3>4, <3>6 DEF PutReq
    <2> QED BY <2>2, <2>3
  <1>5. SameShape BY <1>2, SameShapeIs DEF Base, Types
  <1> QED BY <1>2, <1>3, <1>4, <1>5, PutsKept, StaysSame

(* PutInv, when a request is aborted.                                        *)
LEMMA AbortPut ==
    ASSUME Base, PutInv, NEW r \in Reqs, Abort(r) PROVE PutInv'
  <1>1. /\ st'[r] = "finished" /\ \A q \in Reqs : q # r => st'[q] = st[q]
        /\ \A q \in Reqs : trk'[q] = IF q = r THEN NoTracker ELSE trk[q]
        /\ recvFailed' = recvFailed \ {r}
        /\ seen' = IF Loading(r) THEN seen \cup {"stray"} ELSE seen
        /\ UNCHANGED <<computed, blockVars, pipe, cur>>
    BY AbortBase
  <1>2. /\ computed' = computed /\ table' = table /\ deferred' = deferred /\ content' = content
        /\ pipe' = pipe /\ cur' = cur /\ seen \subseteq seen' /\ ("misfiled" \in seen' => "misfiled" \in seen)
    BY <1>1 DEF blockVars
  <1> SUFFICES ASSUME Intact' PROVE PutInv' BY DEF PutInv
  <1>3. Intact BY <1>2, IntactOf
  <1>4. ASSUME NEW q \in Reqs PROVE PutReq(q)'
    <2>1. PutReq(q) BY <1>3 DEF PutInv
    <2>2. CASE q # r
      <3>1. q \in recvFailed => q \in recvFailed' BY <1>1, <2>2
      <3>2. trk'[q] = trk[q] BY <1>1, <2>2
      <3> QED BY <1>1, <1>2, <2>1, <2>2, <3>1, <3>2, PutReqFrame
    <2>3. CASE q = r BY <1>1, <2>3 DEF PutReq
    <2> QED BY <2>2, <2>3
  <1>5. SameShape BY <1>2, SameShapeIs DEF Base, Types
  <1> QED BY <1>2, <1>3, <1>4, <1>5, PutsKept, StaysSame

(* PutInv, when the output of a step is processed.                           *)
LEMMA UpdatedPut ==
    ASSUME CacheAssumption, EngineAssumption, Base, PlaceInv, LoadInv, BadInv, PutInv,
           NEW over, NEW s, UpdatedAs(s, over)
    PROVE PutInv'
  <1>1. /\ pipe # << >> /\ pipe' = Tail(pipe) /\ content' = content /\ seen' = seen /\ cur' = cur
        /\ recvFailed' = recvFailed \cup {r \in Recovered(s) : st[r] = "remote"}
        /\ s = pipe[1] /\ s.exec = "done" /\ 1 \in DOMAIN pipe
        /\ \A r \in Reqs : table'[r] = IF r \in LeftBy(s, over) THEN << >> ELSE table[r]
        /\ \A r \in Reqs : trk'[r] = IF r \in over THEN NoTracker ELSE trk[r]
    <2>1. /\ pipe # << >> /\ pipe' = Tail(pipe) /\ content' = content /\ seen' = seen /\ cur' = cur
          /\ recvFailed' = recvFailed \cup {r \in Recovered(s) : st[r] = "remote"}
      BY DEF UpdatedAs
    <2>2. /\ s = pipe[1] /\ s.exec = "done" /\ 1 \in DOMAIN pipe
          /\ \A r \in Reqs : table'[r] = IF r \in LeftBy(s, over) THEN << >> ELSE table[r]
          /\ \A r \in Reqs : trk'[r] = IF r \in over THEN NoTracker ELSE trk[r]
      BY UpdatedTypes
    <2> QED BY <2>1, <2>2
  <1> SUFFICES ASSUME Intact' PROVE PutInv' BY DEF PutInv
  <1>2. Intact /\ Clean BY <1>1, IntactOf
  <1>3. ASSUME NEW r \in Reqs PROVE PutReq(r)'
    <2>1. PutReq(r) BY <1>2 DEF PutInv
    <2>2. st'[r] = IF r \in LeftBy(s, over) THEN "gone" ELSE IF r \in over THEN "finished" ELSE st[r]
      BY UpdatedReq
    <2>3. CASE r \in LeftBy(s, over) \/ r \in over
      <3>1. st'[r] \in {"gone", "finished"} BY <2>2, <2>3
      <3> QED BY <3>1 DEF PutReq
    <2>4. CASE r \notin LeftBy(s, over) /\ r \notin over
      <3>1. st'[r] = st[r] /\ table'[r] = table[r] /\ trk'[r] = trk[r] BY <1>1, <2>2, <2>4
      <3>2. r \in recvFailed => r \in recvFailed' BY <1>1
      <3>3. CASE r \notin Recovered(s)
        <4>1. computed'[r] = computed[r] BY <3>3, UpdatedReq
        <4> QED BY <1>1, <2>1, <3>1, <3>2, <4>1, PutReqFrame
      <3>4. CASE r \in Recovered(s)
        <4>1. st[r] = "remote" BY <1>1, <1>2, <3>4, LostAreRemote
        <4>2. r \in recvFailed' BY <1>1, <3>4, <4>1
        <4> QED BY <1>1, <2>1, <3>1, <4>1, <4>2 DEF PutReq
      <3> QED BY <3>3, <3>4
    <2> QED BY <2>3, <2>4
  <1>4. ASSUME NEW k \in DOMAIN pipe', NEW p \in pipe'[k].puts PROVE PutOf(k, p)'
    <2>1. k = 1 /\ 2 \in DOMAIN pipe /\ pipe'[1] = pipe[2] /\ 1 \in DOMAIN pipe'
      BY <1>1, TailIs DEF Base, Types
    <2>2. p \in pipe[2].puts BY <2>1
    <2>3. PutOf(2, p) BY <1>2, <2>1, <2>2 DEF PutInv
    <2>4. p \in WriteT /\ pipe[2].n[p.kv[1]] > 0 BY <2>1, <2>2, PutTyped
    <2>5. InPlace(p, 2) BY <2>3 DEF PutOf
    <2>6. InPlace(p, 1)' BY <2>1, <2>4, <2>5, UpdatedAt
    <2>7. \A j \in DOMAIN pipe' : \A w \in pipe'[j].writes : w.block = p.block => w.kv = p.kv
      <3>1. \A j \in DOMAIN pipe' : pipe'[j] = pipe[2] BY <1>1, TailIs DEF Base, Types
      <3> QED BY <2>1, <2>3, <3>1 DEF PutOf
    <2>8. pipe'[1].exec # "done" =>
            content'[p.block] = p.kv \/ \E j \in 1..1 : pipe'[j].exec # "done" /\ p \in pipe'[j].writes
      <3> SUFFICES ASSUME pipe[2].exec # "done", content[p.block] # p.kv
                   PROVE  p \in pipe[2].writes
        BY <1>1, <2>1
      <3>1. PICK j \in 1..2 : pipe[j].exec # "done" /\ p \in pipe[j].writes BY <2>3 DEF PutOf
      <3>2. j = 2 BY <1>1, <3>1
      <3> QED BY <3>1, <3>2
    <2> QED BY <2>1, <2>6, <2>7, <2>8 DEF PutOf
  <1>5. "misfiled" \notin seen' BY <1>1, <1>2 DEF PutInv
  <1> QED BY <1>3, <1>4, <1>5 DEF PutInv

-----------------------------------------------------------------------------
(* KvCore holds, and what follows.                                           *)

(* What keeps the KV of the requests their own.                             *)
KvCore == Core /\ KvInv /\ PutInv

(* KvInv and PutInv, in a decision of schedule() that only moves the scan,   *)
(* the queues or a note.                                                     *)
LEMMA LightKvCore ==
    ASSUME KvCore, Light PROVE KvInv' /\ PutInv'
  BY LightKv, LightPut DEF KvCore, Core

(* KvInv and PutInv, in a step that leaves the requests, the blocks and the  *)
(* shape of the pipe.                                                        *)
LEMMA AsideKvCore ==
    ASSUME KvCore, Aside, content' = content, pipe' = pipe, seen' = seen PROVE KvInv' /\ PutInv'
  <1>1. KvInv' BY AsideKv DEF KvCore, Core
  <1>2. PutInv' BY StillPut DEF KvCore, Core
  <1> QED BY <1>1, <1>2

(* KvInv and PutInv, when a request is admitted.                             *)
LEMMA AdmitKvCore ==
    ASSUME CacheAssumption, EngineAssumption, KvCore, Admit PROVE KvInv' /\ PutInv'
  <1>1. PICK base \in Nat, async \in BOOLEAN : AdmittedAs(base, async) BY AdmitIs DEF KvCore, Core
  <1>2. CASE async = TRUE
    <2>1. AdmittedAs(base, TRUE) BY <1>1, <1>2
    <2>2. KvInv' BY <2>1, LoadKv DEF KvCore, Core
    <2>3. PutInv' BY <2>1, LoadPut DEF KvCore, Core
    <2> QED BY <2>2, <2>3
  <1>3. CASE async = FALSE
    <2>1. AdmittedAs(base, FALSE) BY <1>1, <1>3
    <2>2. KvInv' BY <2>1, RunKv DEF KvCore, Core
    <2>3. PutInv' BY <2>1, RunPut DEF KvCore, Core
    <2> QED BY <2>2, <2>3
  <1> QED BY <1>2, <1>3

(* KvInv and PutInv, in any decision of schedule().                          *)
LEMMA ScheduleKvCore ==
    ASSUME CacheAssumption, EngineAssumption, KvCore, Schedule PROVE KvInv' /\ PutInv'
  <1>0. Base /\ PlaceInv /\ TableInv /\ TrkInv /\ LoadInv /\ KvInv /\ PutInv /\ Types /\ QueueInv /\ CurInv
    BY DEF KvCore, Core, Base
  <1>1. CASE Begin BY <1>0, <1>1, BeginLight, LightKvCore
  <1>2. CASE PassOver BY <1>0, <1>2, PassOverLight, LightKvCore
  <1>3. CASE TakeRunning BY <1>0, <1>3, TakeRunningKv, TakeRunningPut
  <1>4. CASE Preempt BY <1>0, <1>4, PreemptKv, PreemptPut
  <1>5. CASE EndScan BY <1>0, <1>5, EndScanLight, LightKvCore
  <1>6. CASE SetAside BY <1>0, <1>6, SetAsideLight, LightKvCore
  <1>7. CASE Promote BY <1>0, <1>7, PromoteKv, PromotePut
  <1>8. CASE LookupPending BY <1>0, <1>8, LookupPendingLight, LightKvCore
  <1>9. CASE StopAdmitting BY <1>0, <1>9, StopAdmittingLight, LightKvCore
  <1>10. CASE EndAdmitting BY <1>0, <1>10, EndAdmittingLight, LightKvCore
  <1>11. CASE Admit BY <1>11, AdmitKvCore
  <1>12. CASE FinishSchedule BY <1>0, <1>12, FinishScheduleKv, FinishSchedulePut
  <1> QED BY <1>1, <1>2, <1>3, <1>4, <1>5, <1>6, <1>7, <1>8, <1>9, <1>10, <1>11, <1>12 DEF Schedule

(* KvInv and PutInv, when the output of a step is processed.                 *)
LEMMA UpdateKvCore ==
    ASSUME CacheAssumption, EngineAssumption, KvCore, Update PROVE KvInv' /\ PutInv'
  <1>0. PICK over : UpdatedAs(Head(pipe), over) BY UpdateIs
  <1>1. PICK s : s = Head(pipe) OBVIOUS
  <1>2. UpdatedAs(s, over) BY <1>0, <1>1
  <1>3. KvInv' BY <1>2, UpdatedKv DEF KvCore, Core
  <1>4. PutInv' BY <1>2, UpdatedPut DEF KvCore, Core
  <1> QED BY <1>3, <1>4

(* KvInv and PutInv, when nothing changes.                                   *)
LEMMA SameKvCore ==
    ASSUME KvCore, UNCHANGED vars PROVE KvInv' /\ PutInv'
  <1>1. SameAside /\ UNCHANGED workVars
    BY DEF vars, engineVars, cacheVars, SameAside
  <1>2. WorkTypes' BY <1>1, WorkTypesSame DEF KvCore, Core, Base, Types
  <1>3. Aside /\ pipe' = pipe BY <1>1, <1>2, QuietIs DEF KvCore, Core, Base
  <1>4. content' = content /\ seen' = seen BY <1>1 DEF SameAside, engineVars, blockVars
  <1> QED BY <1>3, <1>4, AsideKvCore

(* Every step keeps KvCore.                                                  *)
LEMMA NextKvCore ==
    ASSUME CacheAssumption, EngineAssumption, KvCore, [Next]_vars PROVE KvCore'
  <1>0. Core' BY NextCore DEF KvCore
  <1>a. Base /\ PlaceInv /\ TableInv /\ TrkInv /\ LoadInv /\ KvInv /\ PutInv /\ Types BY DEF KvCore, Core, Base
  <1> SUFFICES KvInv' /\ PutInv' BY <1>0 DEF KvCore
  <1>1. CASE Schedule BY <1>1, ScheduleKvCore
  <1>2. CASE StartStep BY <1>a, <1>2, StartStepKv, StartStepPut
  <1>3. ASSUME NEW over \in SUBSET Reqs, Execute(over) PROVE KvInv' /\ PutInv'
    BY <1>a, <1>3, ExecuteKv, ExecutePut
  <1>4. CASE Crash BY <1>a, <1>4, CrashAside, AsideKvCore
  <1>5. CASE Update BY <1>5, UpdateKvCore
  <1>6. ASSUME NEW r \in Reqs, TransferEnds(r) PROVE KvInv' /\ PutInv'
    BY <1>a, <1>6, TransferEndsKv, TransferEndsPut
  <1>7. ASSUME NEW r \in Reqs, LookupEnds(r) PROVE KvInv' /\ PutInv'
    BY <1>a, <1>7, LookupEndsAside, AsideKvCore
  <1>8. ASSUME NEW r \in Reqs, Add(r) PROVE KvInv' /\ PutInv' BY <1>a, <1>8, AddKv, AddPut
  <1>9. ASSUME NEW r \in Reqs, Abort(r) PROVE KvInv' /\ PutInv' BY <1>a, <1>9, AbortKv, AbortPut
  <1>10. CASE Heartbeat BY <1>a, <1>10, HeartbeatAside, AsideKvCore
  <1>11. CASE UNCHANGED vars BY <1>11, SameKvCore
  <1> QED BY <1>1, <1>2, <1>3, <1>4, <1>5, <1>6, <1>7, <1>8, <1>9, <1>10, <1>11 DEF Next, Work

(* KvCore holds at first.                                                    *)
LEMMA InitKvCore ==
    ASSUME CacheAssumption, EngineAssumption, Init PROVE KvCore
  <1>1. Core BY InitCore
  <1>2. pipe = << >> /\ DOMAIN pipe = {} /\ seen = {} /\ \A r \in Reqs : st[r] = "new"
    BY EmptyIs DEF Init, EngineInit
  <1>3. KvInv BY <1>2 DEF KvInv
  <1>4. PutInv BY <1>2 DEF PutInv, PutReq
  <1> QED BY <1>1, <1>3, <1>4 DEF KvCore

(* KvCore holds in every state.                                              *)
THEOREM KvHolds == Spec => []KvCore
  <1>1. Init => KvCore BY CacheAssumption, EngineAssumption, InitKvCore
  <1>2. KvCore /\ [Next]_vars => KvCore' BY CacheAssumption, EngineAssumption, NextKvCore
  <1> QED BY <1>1, <1>2, PTL DEF Spec

(* KvCore implies that a request computes on, and stores, its own KV.        *)
LEMMA KvCoreOwns ==
    ASSUME KvCore PROVE OwnKv
  <1>1. KvIsOwn BY DEF KvCore, KvInv, KvIsOwn, Pendw, Clean
  <1>2. StoresOwnKv BY DEF KvCore, PutInv, StoresOwnKv, Intact, Clean
  <1> QED BY <1>1, <1>2 DEF OwnKv

(* A request computes on its own KV, and stores its own KV as that of its    *)
(* chunks, whatever was preempted, aborted, recomputed or failed to load     *)
(* (scheduler.py, multi_process_adapter.py).                                 *)
THEOREM KvIsTheirs == Spec => []OwnKv
  <1>1. KvCore => OwnKv BY CacheAssumption, EngineAssumption, KvCoreOwns
  <1> QED BY <1>1, KvHolds, PTL
=============================================================================
