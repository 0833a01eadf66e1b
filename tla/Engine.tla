------------------------------- MODULE Engine -------------------------------
(***************************************************************************)
(* vLLM's engine core and scheduler as the appliance patches them          *)
(* (patches/glm53-selected), over the LMCache connector.                   *)
(*                                                                         *)
(* The engine's thread schedules a step, one decision of schedule() at a   *)
(* time, hands it to the worker and later processes its output; up to      *)
(* Depth steps are on their way.  The worker executes them in order.  The  *)
(* heartbeat, the cache server and the clients run in between; a call of   *)
(* schedule() reads nothing they write, so they wait for its end.          *)
(*                                                                         *)
(* The policy is FCFS.  Speculative tokens, encoder inputs, LoRA, Mamba    *)
(* layers, pipeline stages, streaming sessions, priorities, pauses, the    *)
(* watermark of free blocks (0) and the flush before a preemption are left *)
(* out, as are statistics and events.                                      *)
(* max_concurrent_batches (Depth) is 2 with asynchronous scheduling and 1  *)
(* without: one pipeline stage, so none is added for the others.           *)
(* kv_load_failure_policy is recompute.                                    *)
(***************************************************************************)
EXTENDS LMCache, SequencesExt

CONSTANTS
    MaxNew,     \* max_tokens of every request
    MaxRunning, \* max_num_running_reqs
    Budget,     \* max_num_scheduled_tokens
    Depth,      \* max_concurrent_batches
    MaxAborts   \* bound on the requests that clients abort

ASSUME EngineAssumption ==
    /\ {MaxNew, MaxRunning, Budget} \subseteq Nat \ {0}
    /\ Depth \in {1, 2}
    /\ MaxAborts \in Nat
    /\ IsFiniteSet(Blocks)
    /\ Cardinality(Blocks) >= Prompt + MaxNew

VARIABLES
    st,         \* Request.status
    waiting, skipped, running,
    computed,   \* num_computed_tokens
    out,        \* the number of output tokens
    place,      \* num_output_placeholders
    chunk,      \* is_prefill_chunk
    hurt,       \* num_preemptions > 0
    table,      \* the KV blocks of a request
    free,       \* the free blocks
    content,    \* whose KV a block holds, and of which position
    deferred,   \* deferred_frees: the steps still to process, the blocks
    finIds,     \* finished_req_ids
    recvDone, recvFailed,
    inflight,   \* _inflight_prefills
    pipe,       \* the steps scheduled and not yet processed
    cur,        \* the step being scheduled
    aborts,
    seen        \* history: which of "stray", "lost", "misfiled" has happened

queueVars == <<waiting, skipped, running>>
reqVars == <<st, computed, out, place, chunk, hurt>>
blockVars == <<table, free, content, deferred>>
doneVars == <<finIds, recvDone, recvFailed, inflight>>
engineVars == <<queueVars, reqVars, blockVars, doneVars, pipe, cur, aborts, seen>>
vars == <<cacheVars, engineVars>>

Tokens(r) == Prompt + out[r]
Zero == [r \in Reqs |-> 0]
Nothing == [r \in Reqs |-> << >>]
Idle == [pass |-> "idle", turn |-> "none", defer |-> FALSE, i |-> 1, budget |-> 0,
         n |-> Zero, got |-> Nothing, skip |-> << >>, ids |-> {}, preempted |-> FALSE]

(* The queue q without the requests of R, in the order it has.              *)
Staying(q, R) == {i \in DOMAIN q : q[i] \notin R}
InOrder(S) == CHOOSE f \in [1..Cardinality(S) -> S] : \A i, j \in DOMAIN f : i < j => f[i] < f[j]
Without(q, R) == [k \in 1..Cardinality(Staying(q, R)) |-> q[InOrder(Staying(q, R))[k]]]

EngineInit ==
    /\ CacheInit
    /\ st = [r \in Reqs |-> "new"]
    /\ waiting = << >> /\ skipped = << >> /\ running = << >>
    /\ computed = Zero /\ out = Zero /\ place = Zero
    /\ chunk = {} /\ hurt = {}
    /\ table = Nothing /\ free = Blocks /\ content = [b \in Blocks |-> None]
    /\ deferred = {}
    /\ finIds = {} /\ recvDone = {} /\ recvFailed = {} /\ inflight = {}
    /\ pipe = << >> /\ cur = Idle
    /\ aborts = 0 /\ seen = {}

Queued == Range(waiting) \cup Range(skipped) \cup Range(running)
(* Seeded defect: requests whose blocks the connector keeps are forgotten.  *)
HasRequests_Queued == Queued # {} \/ finIds # {}

HasRequests == Queued # {} \/ finIds # {} \/ \E r \in Reqs : st[r] = "finished"
Up == ~fatal /\ cur = Idle

-----------------------------------------------------------------------------
(* Blocks                                                                   *)

(* KVCacheManager.allocate_slots: blocks for n tokens, one token per block;  *)
(* the block pool, outside this repository, gives any that are free.        *)
Missing(r, n) == IF n > Len(table[r]) THEN n - Len(table[r]) ELSE 0
Fits(r, n) == Missing(r, n) <= Cardinality(free)
Given(r, n) == CHOOSE new \in [1..Missing(r, n) -> free] : IsInjective(new)

Allocate(r, n) ==
    /\ table' = [table EXCEPT ![r] = @ \o Given(r, n)]
    /\ free' = free \ Range(Given(r, n))
    /\ content' = [b \in Blocks |-> IF b \in Range(Given(r, n)) THEN None ELSE content[b]]

Busy(p) == Cardinality({i \in DOMAIN p : p[i].n # Zero})
Held(R) == UNION {Range(table[r]) : r \in R}

(* _free_request_blocks: with overlapping steps, the blocks of a request    *)
(* that a step on its way (of p) may still write wait until that step, and  *)
(* all those before the call, are processed.                                *)
Release(R, p, fr, df) ==
    LET later == {r \in R : Depth > 1 /\ table[r] # << >> /\ \E i \in DOMAIN p : p[i].n[r] > 0}
    IN /\ free' = fr \cup Held(R \ later)
       /\ deferred' = IF later = {} THEN df
                      ELSE df \cup {[steps |-> Busy(p), blocks |-> Held(later)]}
       /\ table' = [r \in Reqs |-> IF r \in R THEN << >> ELSE table[r]]

(* _drain_deferred_frees, after a step that wrote was processed.            *)
Drained(s) ==
    LET df == IF s.n = Zero THEN deferred
              ELSE {[d EXCEPT !.steps = @ - 1] : d \in deferred}
    IN [blocks |-> UNION {d.blocks : d \in {e \in df : e.steps = 0}},
        rest |-> {d \in df : d.steps > 0}]

(* _inflight_prefill_reserved_blocks                                        *)
Reserved == SumFunction([r \in inflight |-> Missing(r, Tokens(r))])

-----------------------------------------------------------------------------
(* schedule(): the running requests                                         *)

(* When decoding requests contend with prefills, the compute-share          *)
(* controller gives the step to one of the two.                             *)
Contended ==
    /\ Range(running) \ chunk # {}
    /\ \/ Range(running) \cap chunk # {}
       \/ \E r \in Range(waiting) \cup Range(skipped) :
            st[r] \in {"waiting", "preempted"} \/ (st[r] = "remote" /\ r \in recvDone)

Begin ==
    /\ Up /\ Len(pipe) < Depth /\ HasRequests
    /\ \E turn \in IF Contended THEN {"decode", "prefill"} ELSE {"none"} :
        cur' = [Idle EXCEPT !.pass = "first", !.turn = turn, !.defer = turn = "decode",
                             !.budget = Budget, !.ids = Range(running)]
    /\ UNCHANGED <<cacheVars, queueVars, reqVars, blockVars, doneVars, pipe, aborts, seen>>

Only == CASE cur.pass = "first" -> IF cur.turn = "prefill" THEN chunk ELSE Reqs
          [] cur.pass = "late" -> chunk
          [] OTHER -> Reqs \ chunk

(* Seeded defect: nothing is known of the steps on their way.               *)
AtLimit_Never(r) == FALSE

AtLimit(r) == place[r] > 0 /\ computed[r] + 2 - place[r] >= Prompt + MaxNew
Wanted(r) == Min({Tokens(r) + place[r] - computed[r], cur.budget})

PassedOver(r) ==
    \/ r \notin Only \cap cur.ids \/ cur.n[r] > 0
    \/ AtLimit(r)
    \/ cur.defer /\ r \in chunk
    \/ Wanted(r) = 0

Scanning == cur.pass \in {"first", "late", "rest"}
More == Scanning /\ cur.i <= Len(running) /\ cur.budget > 0
Here == running[cur.i]
Takes == More /\ ~PassedOver(Here)
Room == Fits(Here, computed[Here] + Wanted(Here))

PassOver ==
    /\ More /\ PassedOver(Here)
    /\ cur' = [cur EXCEPT !.i = @ + 1]
    /\ UNCHANGED <<cacheVars, queueVars, reqVars, blockVars, doneVars, pipe, aborts, seen>>

TakeRunning ==
    /\ Takes /\ Room
    /\ Allocate(Here, computed[Here] + Wanted(Here))
    /\ cur' = [cur EXCEPT !.i = @ + 1, !.n[Here] = Wanted(Here), !.budget = @ - Wanted(Here),
                          !.got[Here] = Given(Here, computed[Here] + Wanted(Here))]
    /\ UNCHANGED <<cacheVars, queueVars, reqVars, deferred, doneVars, pipe, aborts, seen>>

(* The last of the running requests is preempted, whichever it is: it loses *)
(* its blocks and goes back to the head of the waiting queue.               *)
Preempt ==
    /\ Takes /\ ~Room /\ cur.pass # "rest"
    /\ LET v == Last(running)
       IN /\ running' = Front(running)
          /\ waiting' = <<v>> \o waiting
          /\ Release({v}, pipe, free, deferred)
          /\ st' = [st EXCEPT ![v] = "preempted"]
          /\ computed' = [computed EXCEPT ![v] = 0]
          /\ hurt' = hurt \cup {v}
          /\ inflight' = inflight \ {v}
    /\ cur' = [cur EXCEPT !.preempted = TRUE]
    /\ UNCHANGED <<cacheVars, skipped, out, place, chunk, content, finIds, recvDone,
                   recvFailed, pipe, aborts, seen>>

(* What follows the waiting requests: if the decodes that were given the    *)
(* step could not use it, the prefills get it after all; what a prefill's   *)
(* step leaves of the budget goes to the decodes, who preempt nobody.       *)
Rest ==
    IF cur.turn = "decode" /\ cur.n = Zero THEN "late"
    ELSE IF cur.turn = "prefill" /\ cur.budget > 0 THEN "rest" ELSE "end"

EndScan ==
    /\ Scanning /\ (~More \/ (cur.pass = "rest" /\ Takes /\ ~Room))
    /\ cur' = [cur EXCEPT !.i = 1,
                          !.pass = IF @ # "first" THEN "end"
                                   ELSE IF cur.preempted THEN Rest ELSE "wait",
                          !.defer = @ /\ cur.pass = "first" /\ ~cur.preempted]
    /\ UNCHANGED <<cacheVars, queueVars, reqVars, blockVars, doneVars, pipe, aborts, seen>>

-----------------------------------------------------------------------------
(* schedule(): the waiting requests                                         *)

Head1 == Head(skipped \o waiting)
Admitting == /\ cur.pass = "wait" /\ cur.budget > 0
             /\ skipped \o waiting # << >> /\ Len(running) < MaxRunning
Ready == Admitting /\ st[Head1] \in {"waiting", "preempted"}

PopHead == IF skipped # << >>
           THEN skipped' = Tail(skipped) /\ UNCHANGED waiting
           ELSE waiting' = Tail(waiting) /\ UNCHANGED skipped

(* A request that still waits for its load is set aside.                    *)
SetAside ==
    /\ Admitting
    /\ st[Head1] = "remote" /\ Head1 \notin recvDone
    /\ PopHead
    /\ cur' = [cur EXCEPT !.skip = Append(@, Head1)]
    /\ UNCHANGED <<cacheVars, running, reqVars, blockVars, doneVars, pipe, aborts, seen>>

(* _update_waiting_for_remote_kv: a load that failed keeps the blocks       *)
(* before the first that failed, or none; one that covers all the tokens    *)
(* leaves the last one to compute.                                          *)
Promote ==
    /\ Admitting
    /\ LET r == Head1
           lost == r \in recvFailed /\ computed[r] = 0
       IN /\ st[r] = "remote" /\ r \in recvDone
          /\ st' = [st EXCEPT ![r] = IF r \in hurt THEN "preempted" ELSE "waiting"]
          /\ computed' = [computed EXCEPT ![r] =
                 IF r \notin recvFailed /\ @ = Tokens(r) THEN @ - 1 ELSE @]
          /\ free' = IF lost THEN free \cup Held({r}) ELSE free
          /\ table' = IF lost THEN [table EXCEPT ![r] = << >>] ELSE table
          /\ seen' = IF lost THEN seen \cup {"lost"} ELSE seen
          /\ recvDone' = recvDone \ {r}
          /\ recvFailed' = recvFailed \ {r}
    /\ UNCHANGED <<cacheVars, queueVars, out, place, chunk, hurt, content, deferred,
                   finIds, inflight, pipe, cur, aborts>>

(* What the head of the queue need not compute (base), whether that must be *)
(* loaded first, and what the lookup leaves in its tracker.                 *)
Noted(base) ==
    IF computed[Head1] > 0 THEN trk[Head1] ELSE Matched(Head1, st[Head1] = "preempted", base)

Known(base, async, admitted) ==
    LET r == Head1
    IN IF computed[r] > 0
       THEN base = computed[r] /\ ~async /\ UNCHANGED <<pending, result, job, lookupOk, faults>>
       ELSE /\ Matches(r, st[r] = "preempted", base, admitted /\ Noted(base).s = "prefetching")
            /\ async = (base \notin {None, 0})

(* The lookup is not over: the request is set aside.                        *)
LookupPending ==
    /\ Ready
    /\ Known(None, FALSE, FALSE)
    /\ trk' = [trk EXCEPT ![Head1] = Noted(None)]
    /\ PopHead
    /\ cur' = [cur EXCEPT !.skip = Append(@, Head1)]
    /\ UNCHANGED <<workVars, running, reqVars, blockVars, doneVars, pipe, aborts, seen>>

(* The admission stops at a prefill that is deferred for a decode (unless   *)
(* no decode could be scheduled), at a request whose tokens do not all fit  *)
(* (full_sequence_must_fit), and at a load that does not fit beside what    *)
(* the prefills and loads on their way still need (reserved_blocks).        *)
Deferring(base, async) == cur.defer /\ ~async /\ base + 1 < Tokens(Head1)
Crowds(r, base) == Missing(r, base) + Reserved > Cardinality(free)
Blocked(base, async) ==
    \/ Deferring(base, async) /\ cur.n # Zero
    \/ ~Fits(Head1, Tokens(Head1))
    \/ async /\ Crowds(Head1, base)

Close == /\ skipped' = cur.skip \o skipped
         /\ cur' = [cur EXCEPT !.pass = Rest, !.skip = << >>]

Bases == 0..Prompt + MaxNew

StopAdmitting ==
    /\ Ready
    /\ \E base \in Bases, async \in BOOLEAN :
        /\ Known(base, async, FALSE) /\ Blocked(base, async)
        /\ trk' = [trk EXCEPT ![Head1] = Noted(base)]
    /\ Close
    /\ UNCHANGED <<workVars, waiting, running, reqVars, blockVars, doneVars, pipe, aborts, seen>>

EndAdmitting ==
    /\ cur.pass = "wait" /\ ~Admitting
    /\ Close
    /\ UNCHANGED <<cacheVars, waiting, running, reqVars, blockVars, doneVars, pipe, aborts, seen>>

(* A hit gets its blocks and waits for the load; any other request runs.    *)
Load(r, base) ==
    /\ Allocate(r, base)
    /\ st' = [st EXCEPT ![r] = "remote"]
    /\ cur' = [cur EXCEPT !.skip = Append(@, r)]
    /\ inflight' = inflight \cup {r}
    /\ UNCHANGED running

Run(r, base, n) ==
    /\ Allocate(r, base + n)
    /\ st' = [st EXCEPT ![r] = "running"]
    /\ cur' = [cur EXCEPT !.n[r] = n, !.budget = @ - n,
                          !.defer = @ /\ ~Deferring(base, FALSE)]
    /\ inflight' = IF base + n < Tokens(r) THEN inflight \cup {r} ELSE inflight
    /\ running' = Append(running, r)

Admit ==
    /\ Ready
    /\ LET r == Head1 IN
       \E base \in Bases, async \in BOOLEAN :
        /\ Known(base, async, TRUE) /\ ~Blocked(base, async)
        /\ IF async THEN Load(r, base) ELSE Run(r, base, Min({Tokens(r) - base, cur.budget}))
        /\ trk' = [trk EXCEPT ![r] = AfterAlloc(Noted(base), table'[r])]
        /\ computed' = [computed EXCEPT ![r] = base]
    /\ PopHead
    /\ UNCHANGED <<workVars, out, place, chunk, hurt, deferred, finIds, recvDone, recvFailed,
                   pipe, aborts, seen>>

-----------------------------------------------------------------------------
(* The end of schedule(): the step, its transfers, the new token counts     *)

Positions(r) == computed[r] + 1 .. computed[r] + cur.n[r]
AfterStep(r) == Counted(trk[r], cur.n[r], cur.got[r])
Chunked == {r \in Reqs : cur.n[r] > 0 /\ computed[r] + cur.n[r] < Tokens(r) + place[r]}
Scheduling == {r \in Reqs : cur.n[r] > 0}

FinishSchedule ==
    LET puts == UNION {{[block |-> AfterStep(r).blocks[i], kv |-> <<r, i>>] :
                           i \in Storable(AfterStep(r), Tokens(r))} : r \in Scheduling}
        step == [n |-> cur.n, samples |-> Scheduling \ Chunked, fin |-> finIds,
                 writes |-> UNION {{[block |-> table[r][i], kv |-> <<r, i>>] :
                                       i \in Positions(r)} : r \in Scheduling},
                 retr |-> Retrieves, puts |-> puts,
                 exec |-> "no", recv |-> {}, send |-> {}, bad |-> {}]
    IN /\ cur.pass = "end"
       /\ pipe' = Append(pipe, step)
       /\ trk' = [r \in Reqs |-> Scheduled(trk[r], cur.n[r], cur.got[r], Tokens(r))]
       /\ computed' = [r \in Reqs |-> computed[r] + cur.n[r]]
       /\ chunk' = (chunk \ Scheduling) \cup Chunked
       /\ place' = [r \in Reqs |-> IF Depth > 1 /\ r \in Scheduling \ Chunked
                                   THEN place[r] + 1 ELSE place[r]]
       /\ inflight' = inflight \ (Scheduling \ Chunked)
       /\ finIds' = {}
       /\ cur' = Idle
       /\ seen' = IF \E o \in Retrieves : st[o.req] # "remote" THEN seen \cup {"stray"} ELSE seen
    /\ UNCHANGED <<pending, result, job, lookupOk, workVars, faults, queueVars, st, out, hurt,
                   blockVars, recvDone, recvFailed, aborts>>

-----------------------------------------------------------------------------
(* The worker executes the steps in order: it starts the loads, runs the    *)
(* forward pass, submits the stores and asks what has ended.                *)

At == Min({i \in DOMAIN pipe : pipe[i].exec # "done"})
Working == ~fatal /\ cur = Idle /\ \E i \in DOMAIN pipe : pipe[i].exec # "done"

StartStep ==
    /\ Working /\ pipe[At].exec = "no" /\ pipe[At].retr # {}
    /\ StartLoads(pipe[At].retr)
    /\ pipe' = [pipe EXCEPT ![At].exec = "loaded"]
    /\ UNCHANGED <<trkVars, faults, queueVars, reqVars, blockVars, doneVars, cur, aborts, seen>>

Ran(recv, sent) ==
    pipe' = [pipe EXCEPT ![At] = [@ EXCEPT !.exec = "done", !.recv = recv, !.bad = Flagged,
                                           !.send = sent.send \ IF health THEN {} ELSE recv]]

Execute(over) ==
    LET s == pipe[At]
        put == IF health THEN {p.kv[1] : p \in s.puts} ELSE {}
    IN /\ Working /\ (s.exec = "loaded" \/ s.retr = {})
       /\ content' = [b \in Blocks |->
              IF \E w \in s.writes : w.block = b
              THEN (CHOOSE w \in s.writes : w.block = b).kv ELSE content[b]]
       /\ over \subseteq stores \cup put
       /\ \/ Drain(s.fin) /\ over = {} /\ Ran(dropped, DrainOut(s.fin))
          \/ Poll(s.fin, put, over) /\ Ran(Ended \cup dropped, PollOut(s.fin, put, over))
       /\ errs' = {}
       /\ seen' = IF put # {} /\ \E p \in s.puts : content'[p.block] # p.kv
                  THEN seen \cup {"misfiled"} ELSE seen
    /\ UNCHANGED <<trkVars, faults, queueVars, reqVars, table, free, deferred, doneVars, cur,
                   aborts>>

Crash ==
    /\ Working /\ (pipe[At].exec = "loaded" \/ pipe[At].retr = {})
    /\ FailStop
    /\ UNCHANGED <<trkVars, engineVars>>

(* The cache server, outside this repository: it moves the blocks of a      *)
(* retrieve, wherever they belong by then, or fails; it answers a lookup.   *)
TransferEnds(r) ==
    /\ Up /\ dma[r].s = "flying"
    /\ \/ /\ dma' = [dma EXCEPT ![r].s = "good"]
          /\ content' = [b \in Blocks |->
                 IF b \in Ids(dma[r].blocks)
                 THEN <<r, CHOOSE i \in DOMAIN dma[r].blocks : dma[r].blocks[i] = b>>
                 ELSE content[b]]
          /\ UNCHANGED faults
       \/ /\ Fault
          /\ dma' = [dma EXCEPT ![r].s = "bad"]
          /\ content' = [b \in Blocks |->
                 IF b \in Ids(dma[r].blocks) THEN None ELSE content[b]]
    /\ UNCHANGED <<trkVars, health, loading, stores, finStores, prevFin, returned, dropped, errs,
                   fatal, queueVars, reqVars, table, free, deferred, doneVars, pipe, cur, aborts,
                   seen>>

LookupEnds(r) ==
    /\ Up /\ job[r] = Unready
    /\ \E h \in 0..Prompt : job' = [job EXCEPT ![r] = h]
    /\ UNCHANGED <<trk, pending, result, lookupOk, workVars, faults, engineVars>>

Heartbeat ==
    /\ Up
    /\ HeartbeatFails \/ HeartbeatRecovers
    /\ UNCHANGED <<trkVars, engineVars>>

-----------------------------------------------------------------------------
(* update_from_output: blocks that failed to load, the sampled tokens, the  *)
(* requests they finish, and the transfers that ended                       *)

(* _update_requests_with_invalid_blocks: the first position, among those    *)
(* computed before the step, whose block did not load.                      *)
Invalid(r, s) ==
    {i \in DOMAIN table[r] : i <= computed[r] - s.n[r] /\ table[r][i] \in s.bad}
Recovered(s) ==
    {r \in Range(running) \cup {q \in Range(skipped) : st[q] = "remote"} : Invalid(r, s) # {}}

(* _free_request, up to the blocks, which the connector keeps.    *)
Finish(R) ==
    /\ waiting' = Without(waiting, R)
    /\ skipped' = Without(skipped, R)
    /\ running' = Without(running, R)
    /\ inflight' = inflight \ R
    /\ finIds' = finIds \cup R
    /\ trk' = [r \in Reqs |-> IF r \in R THEN NoTracker ELSE trk[r]]

Update ==
    LET s == Head(pipe)
        lost == Recovered(s)
        got == {r \in s.samples : st[r] \notin {"finished", "gone"}
                                    /\ ~(r \in lost /\ st[r] = "running")}
        ended == {r \in s.recv \cup s.send : st[r] = "finished"}
        loaded == {r \in s.recv : st[r] = "remote"}
    IN /\ Up /\ pipe # << >> /\ s.exec = "done"
       /\ HasRequests => Len(pipe) = Depth
       /\ \E stop \in SUBSET got :
            LET over == {r \in got : r \in stop \/ out[r] + 1 = MaxNew}
                gone == ended \cup {r \in over : r \in s.recv \cup s.send}
            IN /\ Finish(over)
               /\ st' = [r \in Reqs |-> IF r \in gone THEN "gone"
                                        ELSE IF r \in over THEN "finished" ELSE st[r]]
               /\ Release(gone, Tail(pipe), free \cup Drained(s).blocks, Drained(s).rest)
       /\ out' = [r \in Reqs |-> IF r \in got THEN out[r] + 1 ELSE out[r]]
       /\ place' = [r \in Reqs |-> IF r \in got /\ Depth > 1 THEN place[r] - 1 ELSE place[r]]
       /\ computed' = [r \in Reqs |->
              IF r \in lost THEN Min(Invalid(r, s)) - 1 ELSE computed[r]]
       /\ recvFailed' = recvFailed \cup {r \in lost : st[r] = "remote"}
       /\ recvDone' = recvDone \cup loaded
       /\ pipe' = Tail(pipe)
    /\ UNCHANGED <<pending, result, job, lookupOk, workVars, faults, chunk, hurt, content, cur,
                   aborts, seen>>

-----------------------------------------------------------------------------
(* The clients                                                              *)

Add(r) ==
    /\ Up /\ Len(pipe) < Depth
    /\ st[r] = "new"
    /\ st' = [st EXCEPT ![r] = "waiting"]
    /\ waiting' = Append(waiting, r)
    /\ UNCHANGED <<cacheVars, skipped, running, computed, out, place, chunk, hurt, blockVars,
                   doneVars, pipe, cur, aborts, seen>>

(* finish_requests: aborts are handled between two steps and before the     *)
(* output of one is processed.  A request that waits for its load leaves as *)
(* any other does.                                                          *)
Loading(r) == r \in loading \/ \E i \in DOMAIN pipe : \E o \in pipe[i].retr :
                                   o.req = r /\ pipe[i].exec = "no"

Abort(r) ==
    /\ Up
    /\ Len(pipe) = Depth => Head(pipe).exec = "done"
    /\ aborts < MaxAborts /\ aborts' = aborts + 1
    /\ st[r] \in {"waiting", "preempted", "remote", "running"}
    /\ st' = [st EXCEPT ![r] = "finished"]
    /\ Finish({r})
    /\ recvDone' = recvDone \ {r}
    /\ recvFailed' = recvFailed \ {r}
    /\ seen' = IF Loading(r) THEN seen \cup {"stray"} ELSE seen
    /\ UNCHANGED <<pending, result, job, lookupOk, workVars, faults, computed, out, place, chunk,
                   hurt, blockVars, pipe, cur>>

-----------------------------------------------------------------------------
Schedule ==
    \/ Begin \/ PassOver \/ TakeRunning \/ Preempt \/ EndScan
    \/ SetAside \/ Promote \/ LookupPending \/ StopAdmitting \/ EndAdmitting \/ Admit
    \/ FinishSchedule

Work == StartStep \/ \E over \in SUBSET Reqs : Execute(over)

Next ==
    \/ Schedule /\ ~fatal
    \/ Work \/ Crash \/ Update
    \/ \E r \in Reqs : TransferEnds(r) \/ LookupEnds(r) \/ Add(r) \/ Abort(r)
    \/ Heartbeat

Init == EngineInit
Spec == Init /\ [][Next]_vars

(* The engine's loop and the worker never stop while there is work, the     *)
(* server answers (strongly fair, since the model lets it wait for the end  *)
(* of a call of schedule()), and a store that is polled again and again is  *)
(* over at some poll.                                                       *)
Fairness ==
    /\ WF_vars(Schedule /\ ~fatal) /\ WF_vars(Work) /\ WF_vars(Update)
    /\ SF_vars(\E over \in SUBSET Reqs : Execute(over) /\ stores' = {})
    /\ \A r \in Reqs : SF_vars(TransferEnds(r)) /\ SF_vars(LookupEnds(r))
    /\ SF_vars(Heartbeat /\ health')

FairSpec == Spec /\ Fairness

-----------------------------------------------------------------------------
(* A live request is in exactly one queue, the one of its status, whatever  *)
(* order aborts, outputs, preemptions and loads come in.                    *)
QueuesMatch ==
    LET waits == waiting \o skipped \o cur.skip
    IN /\ IsInjective(waits) /\ IsInjective(running)
       /\ Range(waits) = {r \in Reqs : st[r] \in {"waiting", "preempted", "remote"}}
       /\ Range(running) = {r \in Reqs : st[r] = "running"}

(* Types, the queues match them, and no request computes past the token that *)
(* ends it, unless a load outlived its wait (its placeholders then stay).   *)
TypeOK ==
    /\ QueuesMatch
    /\ st \in [Reqs -> {"new", "waiting", "preempted", "remote", "running", "finished", "gone"}]
    /\ \A r \in Reqs : /\ computed[r] \in Nat /\ out[r] \in 0..MaxNew /\ place[r] \in Nat
                        /\ "stray" \notin seen =>
                               computed[r] < Prompt + MaxNew /\ place[r] <= Depth
                        /\ Range(table[r]) \subseteq Blocks
    /\ chunk \cup hurt \cup finIds \cup recvDone \cup recvFailed \cup inflight \subseteq Reqs
    /\ free \subseteq Blocks /\ Len(pipe) <= Depth

(* Every block is free, or held by one request, or waits for the steps that *)
(* may write it: none is lost, none is given twice (scheduler.py, free and  *)
(* allocate on every path).                                                 *)
BlocksConserved ==
    \A b \in Blocks :
        Cardinality({r \in Reqs : b \in Range(table[r])})
      + Cardinality({d \in deferred : b \in d.blocks})
      + (IF b \in free THEN 1 ELSE 0) = 1

(* A step on its way writes only blocks that nobody else was given since it *)
(* was scheduled (_free_request_blocks and its fence).                      *)
StepOwnsBlocks ==
    \A i \in DOMAIN pipe : pipe[i].exec # "done" =>
        \A w \in pipe[i].writes :
            w.block \notin free \cup UNION {Range(table[r]) : r \in Reqs \ {w.kv[1]}}

(* Unless a load outlived its request's wait for it: a request that runs or *)
(* was loaded counts only tokens whose KV its blocks hold, or a step on its *)
(* way writes.  This is what flagging the blocks of a failed load, and      *)
(* recomputing from the first of them, are for.                             *)
KvIsOwn ==
    "stray" \notin seen =>
        \A r \in Reqs : st[r] \in {"running", "waiting"} =>
            \A i \in 1..computed[r] :
                \/ content[table[r][i]] = <<r, i>>
                \/ \E k \in DOMAIN pipe :
                     /\ pipe[k].exec # "done"
                     /\ [block |-> table[r][i], kv |-> <<r, i>>] \in pipe[k].writes

(* Unless an abort or a stale hit took its request from it: what a load on  *)
(* its way will write into belongs to its request ("Keep futures, exporting *)
(* events and block ownership intact", _fail_stop_retrieve).                *)
Owned == \A r \in Reqs : dma[r].s = "flying" => Ids(dma[r].blocks) \subseteq Range(table[r])
LoadsOwnBlocks == ~fatal /\ "stray" \notin seen => Owned

(* Unless a load was lost, or outlived the wait for it, what is stored as   *)
(* the KV of a chunk is the KV of that chunk.                               *)
StoresOwnKv == {"stray", "lost"} \cap seen = {} => "misfiled" \notin seen

(* The blocks of a finished request are not freed while a store of it is on *)
(* its way to a healthy server (request_finished returns TRUE, and          *)
(* _process_finished_stores waits for the stores).                          *)
StoresHoldBlocks == health /\ "stray" \notin seen => \A r \in stores : st[r] # "gone"

(* No block is lost or given twice, and a block belongs to its request until *)
(* the last of its writers and readers is done, be it a step, a load or a    *)
(* store, whatever was preempted, aborted or finished in the meantime.       *)
OwnBlocks == BlocksConserved /\ StepOwnsBlocks /\ LoadsOwnBlocks /\ StoresHoldBlocks

(* A request computes on its own KV and stores its own KV.                   *)
OwnKv == KvIsOwn /\ StoresOwnKv

(* The admission stops at q, which is ahead of r: schedule() breaks there    *)
(* and does not see that r's load is over.                                  *)
Crowded(r) ==
    LET waits == cur.skip \o skipped \o waiting
    IN \E i, j \in DOMAIN waits :
          /\ i < j /\ waits[j] = r
          /\ st[waits[i]] # "remote" /\ Crowds(waits[i], Tokens(waits[i]))

(* A load the worker was asked for ends the request's wait, and the blocks   *)
(* of a finished request come back; or the worker has ended, or the request *)
(* waits for ever behind one that does not fit beside it.                   *)
Awaited(r) ==
    /\ st[r] = "remote"
    /\ trk[r].s = "waiting" \/ Loading(r) \/ r \in dropped
TransfersEnd ==
    \A r \in Reqs :
        /\ Awaited(r) ~> (st[r] # "remote" \/ fatal \/ []Crowded(r))
        /\ (st[r] = "finished") ~> (st[r] = "gone" \/ fatal)
=============================================================================
