------------------------------ MODULE LMCache ------------------------------
(***************************************************************************)
(* The LMCache multi-process connector (patches/scopedlmcache): on the     *)
(* scheduler's side the request trackers and the lookups, on the worker's  *)
(* side the retrieves, the stores and the health of the cache server.      *)
(*                                                                         *)
(* Tokens are counted in blocks, and a cache chunk is one block.  Each     *)
(* request has its own tokens, so vLLM's local prefix cache never hits.    *)
(* One server, one worker.  Read locks at the server, block telemetry and  *)
(* the bytes of the transfers are left out.                                *)
(***************************************************************************)
EXTENDS Naturals, Sequences, FiniteSets, FiniteSetsExt

CONSTANTS
    Reqs,       \* the requests
    Blocks,     \* the KV blocks of the engine
    Prompt,     \* the length of every prompt
    None,
    Unready,    \* the state of a prefetch job that runs
    MaxFaults   \* bound on the timeouts and failures of the cache server

ASSUME CacheAssumption ==
    /\ Prompt \in Nat \ {0}
    /\ MaxFaults \in Nat
    /\ {None, Unready} \cap Nat = {} /\ None # Unready

VARIABLES
    trk,        \* request_trackers
    pending,    \* _pending_lookups
    result,     \* _finished_lookup_results
    job,        \* the prefetch job of a request at the server
    lookupOk,   \* the scheduler adapter's health
    health,     \* the worker adapter's health
    loading,    \* the requests with a retrieve future
    dma,        \* the transfer of a retrieve: where it writes, how far it is
    stores,     \* the requests with a store future
    finStores, prevFin, returned, dropped,
    errs,       \* error_block_ids
    fatal,      \* _retrieve_fatal_error: the worker, and the engine, are down
    faults

trkVars == <<trk, pending, result, job, lookupOk>>
workVars == <<health, loading, dma, stores, finStores, prevFin, returned, dropped, errs, fatal>>
cacheVars == <<trkVars, workVars, faults>>

Fresh == [s |-> "prefetching", blocks |-> << >>, stored |-> 0, sched |-> 0, hit |-> 0]
NoTracker == [Fresh EXCEPT !.s = "none"]
NoLoad == [s |-> "none", blocks |-> << >>]

Fault == faults < MaxFaults /\ faults' = faults + 1

CacheInit ==
    /\ trk = [r \in Reqs |-> NoTracker]
    /\ pending = {}
    /\ result = [r \in Reqs |-> None]
    /\ job = [r \in Reqs |-> None]
    /\ lookupOk = TRUE
    /\ health = TRUE
    /\ loading = {}
    /\ dma = [r \in Reqs |-> NoLoad]
    /\ stores = {}
    /\ finStores = {} /\ prevFin = {} /\ returned = {} /\ dropped = {}
    /\ errs = {}
    /\ fatal = FALSE
    /\ faults = 0

-----------------------------------------------------------------------------
(* The scheduler's side                                                     *)

(* A request that was preempted starts over with a new tracker; any other   *)
(* keeps the one it has, whatever happened to its load.                     *)
Tracker(r, preempted) ==
    IF trk[r].s = "none" \/ (preempted /\ trk[r].s # "prefetching")
    THEN Fresh ELSE trk[r]

(* maybe_submit_lookup_request followed by check_lookup_result: h is the    *)
(* number of cached blocks, None while the prefetch job runs.  A timeout    *)
(* marks the server unhealthy for the scheduler, and since _heartbeats is   *)
(* created as an empty dictionary, never None, _ensure_heartbeat_started    *)
(* returns at once and nothing ever marks it healthy again.                 *)
Kept(r, h, forget) ==
    /\ pending' = IF forget THEN pending \ {r} ELSE pending
    /\ result' = [result EXCEPT ![r] = IF forget THEN None ELSE h]

Submit(r) ==
    /\ lookupOk /\ r \notin pending
    /\ pending' = pending \cup {r}
    /\ job' = [job EXCEPT ![r] = Unready]
    /\ UNCHANGED <<result, lookupOk, faults>>

LookupLost(r, forget) ==
    /\ lookupOk /\ result[r] = None /\ Fault
    /\ lookupOk' = FALSE
    /\ Kept(r, None, forget)
    /\ UNCHANGED job

Query(r, h, forget) ==
    /\ lookupOk /\ r \in pending /\ result[r] = None /\ job[r] \in Nat
    /\ h = job[r]
    /\ job' = [job EXCEPT ![r] = None]
    /\ Kept(r, h, forget)
    /\ UNCHANGED <<lookupOk, faults>>

Answered(r, h) ==
    \/ lookupOk /\ r \in pending /\ (result[r] # None \/ job[r] = Unready) /\ h = result[r]
    \/ ~lookupOk /\ h = 0

Lookup(r, h, forget) ==
    \/ Submit(r) /\ h = None
    \/ LookupLost(r, forget) /\ h = 0
    \/ Query(r, h, forget)
    \/ Answered(r, h) /\ Kept(r, result[r], forget) /\ UNCHANGED <<job, lookupOk, faults>>

(* get_num_new_matched_tokens: the blocks to load, and what it notes in the *)
(* tracker, where a count past all the blocks is cut.  A preempted request  *)
(* is never loaded.  The result of the lookup is forgotten once blocks are  *)
(* allocated to a fresh tracker.                                            *)
Matches(r, preempted, ext, forget) ==
    IF preempted
    THEN ext = 0 /\ Kept(r, result[r], forget) /\ UNCHANGED <<job, lookupOk, faults>>
    ELSE Lookup(r, ext, forget)

Matched(r, preempted, ext) ==
    LET t == Tracker(r, preempted)
    IN IF ext \in {None, 0} THEN t ELSE [t EXCEPT !.stored = Min({@ + ext, Cardinality(Blocks)}), !.hit = ext]

(* update_state_after_alloc: only the blocks beyond the tracked ones are    *)
(* added, and only a tracker that is still prefetching asks for the load.   *)
AfterAlloc(t, tab) ==
    [t EXCEPT !.blocks = @ \o SubSeq(tab, Len(@) + 1, Len(tab)),
              !.s = IF @ # "prefetching" THEN @
                    ELSE IF t.hit > 0 THEN "waiting" ELSE "ready"]

(* The metadata of one step: a retrieve for every tracker that waits for    *)
(* its load, if its blocks cover the hit, ...                               *)
Retrieves ==
    {[req |-> r, blocks |-> SubSeq(trk[r].blocks, 1, trk[r].hit)] :
        r \in {q \in Reqs : trk[q].s = "waiting" /\ Len(trk[q].blocks) >= trk[q].hit}}

(* ... and a store for every scheduled request with a new full chunk.  got  *)
(* are the blocks a running request was given in this step.                 *)
Counted(t, n, got) ==
    [t EXCEPT !.sched = @ + n, !.blocks = @ \o got,
              !.s = IF @ = "waiting" THEN "ready" ELSE @]

Storable(t, tokens) ==
    t.stored + 1 .. Min({tokens, Len(t.blocks), t.sched + t.hit})

Scheduled(t, n, got, tokens) ==
    LET u == Counted(t, n, got)
    IN IF n = 0 THEN u
       ELSE [u EXCEPT !.stored = @ + Cardinality(Storable(u, tokens))]

-----------------------------------------------------------------------------
(* The worker's side                                                        *)

Ids(b) == {b[i] : i \in DOMAIN b}

Submitted(ops) ==
    /\ loading' = loading \cup {o.req : o \in ops}
    /\ dma' = [r \in Reqs |->
           IF \E o \in ops : o.req = r
           THEN [s |-> "flying", blocks |-> (CHOOSE o \in ops : o.req = r).blocks]
           ELSE dma[r]]

(* start_load_kv: submit_retrieve_request for every retrieve of the step.   *)
(* An unhealthy server gets nothing: the blocks are flagged and the request *)
(* is remembered, to be reported once.                                      *)
StartLoads(ops) ==
    /\ IF health
       THEN Submitted(ops) /\ UNCHANGED <<dropped, errs>>
       ELSE /\ dropped' = dropped \cup {o.req : o \in ops}
            /\ errs' = errs \cup UNION {Ids(o.blocks) : o \in ops}
            /\ UNCHANGED <<loading, dma>>
    /\ UNCHANGED <<health, stores, finStores, prevFin, returned, fatal>>

(* _process_finished_stores: of the requests the engine has finished, those *)
(* with a store on its way are kept for later.  had are the requests whose  *)
(* stores ended earlier, ended those whose stores ended now and left those  *)
(* with a store future left.                                                *)
Sent(fin, had, ended, left) ==
    LET ready == had \cup ended
        asked == fin \ returned
        waits == prevFin \cup (asked \cap (ready \cup left))
    IN [send |-> (asked \ (ready \cup left)) \cup (ready \cap waits),
        fins |-> ready \ waits,
        prev |-> waits \ ready]

Report(out) ==
    /\ finStores' = out.fins
    /\ prevFin' = out.prev
    /\ returned' = returned \cup out.send

(* get_finished while the server is unhealthy: a retrieve that was          *)
(* submitted is fatal, because nothing says that its transfer has stopped.  *)
(* So is, at any time, a transfer that outlasts retrieve_timeout or whose   *)
(* completion cannot be queried.                                            *)
FailStop ==
    /\ \/ ~health /\ loading # {} /\ UNCHANGED faults
       \/ health /\ (\E r \in loading : dma[r].s = "flying") /\ Fault
    /\ fatal' = TRUE
    /\ UNCHANGED <<health, loading, dma, stores, finStores, prevFin, returned, dropped, errs>>

DrainOut(fin) == Sent(fin, finStores, stores, {})

(* Seeded defect: the loads on their way are given up with the stores.      *)
Drain_GivesUpLoads(fin) ==
    /\ ~health
    /\ Report(DrainOut(fin))
    /\ stores' = {} /\ dropped' = {} /\ loading' = {}
    /\ UNCHANGED <<health, dma, fatal>>

(* Without one, the stores are given up, and the loads that were never      *)
(* submitted are reported.                                                  *)
Drain(fin) ==
    /\ ~health /\ loading = {}
    /\ Report(DrainOut(fin))
    /\ stores' = {}
    /\ dropped' = {}
    /\ UNCHANGED <<health, loading, dma, fatal>>

(* get_finished while it is healthy, after the stores of the step (put)     *)
(* were submitted: the futures that are done (over, for the stores) are     *)
(* reported.                                                                *)
Ended == {r \in loading : dma[r].s # "flying"}
PollOut(fin, put, over) == Sent(fin, finStores \ put, over, (stores \cup put) \ over)

Poll(fin, put, over) ==
    /\ health
    /\ Report(PollOut(fin, put, over))
    /\ stores' = (stores \cup put) \ over
    /\ loading' = loading \ Ended
    /\ dma' = [r \in Reqs |-> IF r \in Ended THEN NoLoad ELSE dma[r]]
    /\ dropped' = {}
    /\ UNCHANGED <<health, fatal>>

(* Seeded defect: the blocks of a load that failed are not flagged.         *)
Flagged_DroppedOnly == errs

(* get_block_ids_with_load_errors, in the same pass as get_finished.        *)
Flagged ==
    errs \cup (IF health THEN UNION {Ids(dma[r].blocks) : r \in {q \in Ended : dma[q].s = "bad"}}
              ELSE {})

(* The heartbeat: a ping that fails stops the traffic, and one that         *)
(* succeeds resumes it after the KV caches were registered again.           *)
HeartbeatFails ==
    /\ health /\ Fault
    /\ health' = FALSE
    /\ UNCHANGED <<loading, dma, stores, finStores, prevFin, returned, dropped, errs, fatal>>

HeartbeatRecovers ==
    /\ ~health
    /\ health' = TRUE
    /\ UNCHANGED <<loading, dma, stores, finStores, prevFin, returned, dropped, errs, fatal, faults>>

=============================================================================
