----------------------------- MODULE EngineInv ------------------------------
(***************************************************************************)
(* The inductive invariant of the engine, one part after the other: what   *)
(* the proofs of Engine_proof show to hold in every state.  Each part is a *)
(* state predicate that TLC can evaluate.                                  *)
(***************************************************************************)
EXTENDS Engine

-----------------------------------------------------------------------------
(* The types                                                                 *)

Sts == {"new", "waiting", "preempted", "remote", "running", "finished", "gone"}
TrackerT == [s : {"none", "prefetching", "waiting", "ready"}, blocks : Seq(Blocks),
             stored : Nat, sched : Nat, hit : Nat]
LoadT == [s : {"none", "flying", "good", "bad"}, blocks : Seq(Blocks)]
WriteT == [block : Blocks, kv : Reqs \X Nat]
RetrT == [req : Reqs, blocks : Seq(Blocks)]
StepT == [n : [Reqs -> Nat], samples : SUBSET Reqs, fin : SUBSET Reqs, writes : SUBSET WriteT,
          retr : SUBSET RetrT, puts : SUBSET WriteT, exec : {"no", "loaded", "done"},
          recv : SUBSET Reqs, send : SUBSET Reqs, bad : SUBSET Blocks]
CurT == [pass : {"idle", "first", "wait", "late", "rest", "end"}, turn : {"none", "decode", "prefill"},
         defer : BOOLEAN, i : Nat \ {0}, budget : Nat, n : [Reqs -> Nat],
         got : [Reqs -> Seq(Blocks)], skip : Seq(Reqs), ids : SUBSET Reqs, preempted : BOOLEAN]
DeferT == [steps : Nat, blocks : SUBSET Blocks]

TrkTypes ==
    /\ trk \in [Reqs -> TrackerT] /\ pending \subseteq Reqs
    /\ result \in [Reqs -> 0..Prompt \cup {None}]
    /\ job \in [Reqs -> 0..Prompt \cup {None, Unready}]
WorkTypes ==
    /\ health \in BOOLEAN
    /\ loading \subseteq Reqs /\ dma \in [Reqs -> LoadT]
    /\ stores \subseteq Reqs /\ finStores \subseteq Reqs /\ prevFin \subseteq Reqs
    /\ returned \subseteq Reqs /\ dropped \subseteq Reqs /\ errs \subseteq Blocks
QueueTypes == waiting \in Seq(Reqs) /\ skipped \in Seq(Reqs) /\ running \in Seq(Reqs)
ReqTypes ==
    /\ st \in [Reqs -> Sts] /\ computed \in [Reqs -> Nat] /\ out \in [Reqs -> Nat]
    /\ place \in [Reqs -> Nat] /\ chunk \subseteq Reqs /\ hurt \subseteq Reqs
BlockTypes == table \in [Reqs -> Seq(Blocks)] /\ free \subseteq Blocks /\ deferred \subseteq DeferT
DoneTypes == finIds \subseteq Reqs /\ recvDone \subseteq Reqs /\ recvFailed \subseteq Reqs
             /\ inflight \subseteq Reqs
PipeTypes == pipe \in Seq(StepT) /\ Len(pipe) <= Depth
CurTypes == cur \in CurT
(* Every variable has its type.                                              *)
Types == TrkTypes /\ WorkTypes /\ QueueTypes /\ ReqTypes /\ BlockTypes /\ DoneTypes
         /\ PipeTypes /\ CurTypes

-----------------------------------------------------------------------------
(* No load has outlived its wait, and none has come back with nothing: what  *)
(* the last parts of the invariant ask for.                                  *)
Clean == "stray" \notin seen
Intact == Clean /\ "lost" \notin seen
Over == {"finished", "gone"}
Fresher == {"new", "waiting", "remote"}
Waits == {"waiting", "preempted", "remote"}

-----------------------------------------------------------------------------
(* The queues, the step being scheduled, the blocks, the steps on their way  *)

(* A request is once in the queue of its status; one that waits is in one of *)
(* three, and none of those in waiting awaits its load.                      *)
QueueInv ==
    /\ IsInjective(waiting) /\ IsInjective(skipped) /\ IsInjective(running)
    /\ IsInjective(cur.skip)
    /\ Range(waiting) \cap Range(skipped) = {}
    /\ Range(waiting) \cap Range(cur.skip) = {}
    /\ Range(skipped) \cap Range(cur.skip) = {}
    /\ Range(waiting) \cup Range(skipped) \cup Range(cur.skip) = {r \in Reqs : st[r] \in Waits}
    /\ Range(running) = {r \in Reqs : st[r] = "running"}
    /\ \A r \in Range(waiting) : st[r] # "remote"

(* The step being scheduled computes running requests that the scan has      *)
(* passed, has their blocks, and computes no further than their tokens.      *)
CurInv ==
    /\ cur.pass = "idle" => cur = Idle
    /\ cur.pass # "wait" => cur.skip = << >>
    /\ cur.pass = "wait" => ~cur.preempted
    /\ cur.pass # "idle" => Len(pipe) < Depth
    /\ \A r \in Reqs :
        /\ cur.n[r] = 0 => cur.got[r] = << >>
        /\ cur.n[r] > 0 =>
            /\ st[r] = "running"
            /\ cur.pass \in {"first", "late"} => \E k \in DOMAIN running : k < cur.i /\ running[k] = r
            /\ Len(table[r]) >= computed[r] + cur.n[r]
            /\ computed[r] + cur.n[r] <= Tokens(r) + place[r]
            /\ Clean => computed[r] + cur.n[r] < Prompt + MaxNew

(* A block is free, of one request, or of one deferred release.              *)
Partition(tab, fr, df) ==
    /\ \A r \in Reqs : IsInjective(tab[r]) /\ Range(tab[r]) \cap fr = {}
    /\ \A r, q \in Reqs : r # q => Range(tab[r]) \cap Range(tab[q]) = {}
    /\ \A d \in df : /\ d.steps > 0 /\ d.blocks \cap fr = {}
                     /\ \A r \in Reqs : d.blocks \cap Range(tab[r]) = {}
    /\ \A d, e \in df : d # e => d.blocks \cap e.blocks = {}
    /\ \A b \in Blocks : \/ b \in fr
                         \/ \E r \in Reqs : b \in Range(tab[r])
                         \/ \E d \in df : b \in d.blocks
BlockInv == Partition(table, free, deferred)

(* The number of the first k steps on their way that write.                  *)
Upto(k) == Cardinality({i \in 1..k : pipe[i].n # Zero})
(* What w writes is still a block of its request, or waits for the step k.   *)
InPlace(w, k) ==
    \/ w.kv[2] \in DOMAIN table[w.kv[1]] /\ table[w.kv[1]][w.kv[2]] = w.block
    \/ \E d \in deferred : w.block \in d.blocks /\ d.steps >= Upto(k)

(* What a step writes has its place, whatever became of the request since;   *)
(* and only the first steps have run.                                        *)
StepInv ==
    \A k \in DOMAIN pipe :
        /\ \A w \in pipe[k].writes : pipe[k].n[w.kv[1]] > 0 /\ InPlace(w, k)
        /\ \A w \in pipe[k].puts : pipe[k].n[w.kv[1]] > 0
        /\ \A v, w \in pipe[k].writes : v.block = w.block => v = w
        /\ \A r \in Reqs : pipe[k].n[r] > 0 => st[r] \notin Fresher
        /\ \A r \in pipe[k].samples : pipe[k].n[r] > 0
        /\ \A o, p \in pipe[k].retr : o.req = p.req => o = p
        /\ pipe[k].exec # "done" =>
            /\ \A j \in DOMAIN pipe : j > k => pipe[j].exec = "no"
            /\ pipe[k].recv = {} /\ pipe[k].send = {} /\ pipe[k].bad = {}

-----------------------------------------------------------------------------
(* The requests                                                              *)

(* How many tokens of r the steps on their way sample.                       *)
Sampled(r, i) == i \in DOMAIN pipe /\ r \in pipe[i].samples
Count(r) == (IF Sampled(r, 1) THEN 1 ELSE 0) + (IF Sampled(r, 2) THEN 1 ELSE 0)

(* With asynchronous scheduling a request has a placeholder for each, and    *)
(* never computes past them nor past its last token.                         *)
PlaceOf(r) ==
    /\ Depth = 2 => place[r] >= Count(r)
    /\ Clean /\ Depth = 2 => place[r] <= 2 /\ (st[r] \notin Over => place[r] = Count(r))
    /\ computed[r] <= Tokens(r) + place[r]
    /\ Clean /\ place[r] >= 1 /\ st[r] = "running" => computed[r] >= Tokens(r) + place[r] - 1
    /\ Clean => computed[r] < Prompt + MaxNew
    /\ out[r] <= MaxNew /\ (st[r] \notin Over => out[r] < MaxNew)
    /\ st[r] \in Fresher => out[r] = 0 /\ place[r] = 0 /\ r \notin hurt /\ r \notin stores
PlaceInv ==
    /\ Depth = 1 => place = Zero
    /\ \A r \in Reqs : PlaceOf(r)
    /\ pipe # << >> /\ ~cur.preempted => \A r \in Last(pipe).samples : st[r] # "preempted"

(* A request has blocks for what it counts as computed, and none before it   *)
(* is admitted or after it was preempted.                                    *)
TableOf(r) ==
    /\ st[r] \in {"new", "preempted"} => table[r] = << >> /\ computed[r] = 0
    /\ st[r] = "waiting" /\ trk[r].s \in {"none", "prefetching"} =>
           table[r] = << >> /\ computed[r] = 0
    /\ st[r] \in {"remote", "waiting", "running"} => computed[r] <= Len(table[r])
    /\ st[r] = "waiting" => computed[r] < Prompt
    /\ st[r] = "remote" => computed[r] <= Prompt
    /\ r \in recvDone \cup recvFailed => st[r] = "remote"
    /\ r \in recvFailed => computed[r] < Prompt
TableInv == \A r \in Reqs : TableOf(r)

(* The tracker of a request is at the point its status says, and a transfer  *)
(* has a future.                                                             *)
TrkOf(r) ==
    /\ trk[r].s \in {"none", "prefetching"} => trk[r].blocks = << >> /\ trk[r].sched = 0
    /\ st[r] \in {"running", "remote"} => trk[r].s \in {"waiting", "ready"}
    /\ st[r] \in Over \cup {"new"} => trk[r].s = "none"
    /\ r \in loading <=> dma[r].s # "none"
TrkInv == \A r \in Reqs : TrkOf(r)

-----------------------------------------------------------------------------
(* The loads: unless one is stray, the load of a request is at one point     *)
(* only, from the tracker that asks for it to the step that asks the worker  *)
(* for it, the transfer, the step that reports it and the scheduler that is  *)
(* told, and all its blocks are the request's meanwhile.                     *)

InRetr(r, i) == pipe[i].exec = "no" /\ \E o \in pipe[i].retr : o.req = r
NoRecv(r) == \A i \in DOMAIN pipe : r \notin pipe[i].recv
NoRetr(r) == \A i \in DOMAIN pipe : ~InRetr(r, i)
Unrun(r) == r \notin stores /\ \A i \in DOMAIN pipe : pipe[i].n[r] = 0
GoodT(r) == \A i \in DOMAIN table[r] : content[table[r][i]] = <<r, i>>

(* Wanted by the tracker; asked for by a step; on its way.                   *)
WantOf(r) ==
    /\ st[r] = "waiting" => trk[r].s # "waiting"
    /\ st[r] = "remote" /\ trk[r].s = "waiting" =>
        /\ trk[r].blocks = table[r] /\ trk[r].hit = computed[r] /\ computed[r] = Len(table[r])
        /\ r \notin loading \cup dropped \cup recvDone /\ NoRecv(r) /\ NoRetr(r)
RetrOf(r) ==
    \A i \in DOMAIN pipe : InRetr(r, i) =>
        /\ st[r] = "remote" /\ \A o \in pipe[i].retr : o.req = r => o.blocks = table[r]
        /\ computed[r] = Len(table[r])
        /\ r \notin loading \cup dropped \cup recvDone /\ NoRecv(r)
        /\ \A j \in DOMAIN pipe : j # i => ~InRetr(r, j)
LoadingOf(r) ==
    r \in loading =>
        /\ st[r] = "remote" /\ dma[r].blocks = table[r] /\ computed[r] = Len(table[r])
        /\ r \notin dropped \cup recvDone /\ NoRecv(r)
        /\ dma[r].s = "good" => GoodT(r)
(* Refused; reported by a step, loaded or flagged; over.                     *)
DroppedOf(r) ==
    r \in dropped =>
        /\ st[r] \in {"remote", "finished"} /\ Range(table[r]) \subseteq errs
        /\ computed[r] = Len(table[r])
        /\ Unrun(r) /\ r \notin recvDone /\ NoRecv(r) /\ r \notin prevFin
        /\ \A i \in DOMAIN pipe : pipe[i].exec # "no" => r \notin pipe[i].fin \cup pipe[i].send
RecvOf(r) ==
    \A i \in DOMAIN pipe : r \in pipe[i].recv =>
        /\ st[r] \in {"remote", "finished"} /\ Unrun(r) /\ computed[r] = Len(table[r])
        /\ r \notin recvDone /\ \A j \in DOMAIN pipe : j # i => r \notin pipe[j].recv
        /\ \A j \in DOMAIN pipe : j <= i => r \notin pipe[j].send
        /\ \/ GoodT(r) /\ Range(table[r]) \cap pipe[i].bad = {}
           \/ Range(table[r]) \subseteq pipe[i].bad
CameOf(r) ==
    /\ r \in recvFailed => r \in recvDone /\ computed[r] = 0
    /\ r \in recvDone => \A i \in 1..computed[r] : content[table[r][i]] = <<r, i>>
LoadOf(r) == WantOf(r) /\ RetrOf(r) /\ LoadingOf(r) /\ DroppedOf(r) /\ RecvOf(r) /\ CameOf(r)
LoadInv == Clean => \A r \in Reqs : LoadOf(r)

(* The worker flags only blocks of the loads it reports with them.           *)
BadInv ==
    /\ errs # {} \/ dropped # {} => \E i \in DOMAIN pipe : pipe[i].exec = "loaded"
    /\ Clean => /\ errs \subseteq Held(dropped)
                /\ \A i \in DOMAIN pipe : pipe[i].bad \subseteq Held(pipe[i].recv)

(* A request that ended is computed by no later step, and its blocks are     *)
(* given back after the last step and store of it.                           *)
FinInv ==
    /\ finStores \cap stores = {}
    /\ \A r \in finIds \cup prevFin \cup returned : st[r] \in Over
    /\ \A i \in DOMAIN pipe : \A r \in pipe[i].fin \cup pipe[i].send : st[r] \in Over
    /\ \A i \in DOMAIN pipe : \A r \in pipe[i].fin :
          \A j \in DOMAIN pipe : j >= i => pipe[j].n[r] = 0
    /\ \A j \in DOMAIN pipe : pipe[j].exec # "done" =>
          /\ \A r \in prevFin : pipe[j].n[r] = 0
          /\ \A i \in DOMAIN pipe : \A r \in pipe[i].send : pipe[j].n[r] = 0
          /\ Clean => \A r \in Reqs : st[r] = "gone" => pipe[j].n[r] = 0
    /\ \A r \in stores : st[r] \notin Fresher /\ (Clean => st[r] # "gone")
                         /\ \A i \in DOMAIN pipe : r \notin pipe[i].send

-----------------------------------------------------------------------------
(* The KV                                                                    *)

(* What a request counts as computed is its own KV, or on its way.           *)
Pendw(r, i) ==
    \E k \in DOMAIN pipe : pipe[k].exec # "done"
                           /\ [block |-> table[r][i], kv |-> <<r, i>>] \in pipe[k].writes
KvInv ==
    Clean => \A r \in Reqs : st[r] \in {"running", "waiting"} =>
                \A i \in 1..computed[r] : content[table[r][i]] = <<r, i>> \/ Pendw(r, i)

(* Unless a load was lost: the tracker of a request has all its blocks, and  *)
(* what a step is to store is there when it stores it.                       *)
PutReq(r) ==
    /\ st[r] \in {"waiting", "remote", "running"} => trk[r].blocks \o cur.got[r] = table[r]
    /\ st[r] = "running" => Len(table[r]) = computed[r] + cur.n[r]
    /\ st[r] = "waiting" => Len(table[r]) <= computed[r] + 1
    /\ st[r] = "remote" /\ r \notin recvFailed => Len(table[r]) = computed[r]
PutOf(k, p) ==
    /\ InPlace(p, k)
    /\ \A j \in DOMAIN pipe : \A w \in pipe[j].writes : w.block = p.block => w.kv = p.kv
    /\ pipe[k].exec # "done" =>
          content[p.block] = p.kv \/ \E j \in 1..k : pipe[j].exec # "done" /\ p \in pipe[j].writes
PutInv ==
    Intact =>
        /\ \A r \in Reqs : PutReq(r)
        /\ \A k \in DOMAIN pipe : \A p \in pipe[k].puts : PutOf(k, p)
        /\ "misfiled" \notin seen
=============================================================================
