------------------------------ MODULE IpcPool ------------------------------
(***************************************************************************)
(* The channels of the PCIe one-shot all-reduce                            *)
(* (patches/glm53-selected/b12x/comm/pcie/pcie_oneshot.py).  The ranks of  *)
(* a group are processes that export GPU memory to each other through CUDA *)
(* IPC.  A channel is, on every rank, one export, the imports of the       *)
(* exports of its peers, and a native runtime that uses them.  Setting a   *)
(* channel up, undoing a setup that failed, retrying the undo and closing  *)
(* are sequences of local steps, any of which may fail, each followed by   *)
(* an exchange in which every rank tells the others how its own went.      *)
(*                                                                         *)
(* An exchange is a rendezvous: a rank posts and waits for all the others. *)
(* It may raise on all ranks or, since it is several broadcasts, on some   *)
(* only.  A rank whose peers have left the call gets an exception too, the *)
(* timeout of the process group.                                           *)
(*                                                                         *)
(* The callers are outside this repository: they make every rank call the  *)
(* same operation of the pool, each with its own arguments, and make the   *)
(* next call when all ranks have come back.  Argument and device checks of *)
(* the pool's construction, stream keys, the legacy close, pools with one  *)
(* channel or with a channel factory, and the kernels are left out.        *)
(***************************************************************************)
EXTENDS Integers, FiniteSets, Sequences, FiniteSetsExt

CONSTANTS
    Ranks,
    Ids,        \* logical channel ids; their order is the order of setup
    None,
    MaxFaults,  \* bound: failing local steps and exchanges
    MaxCalls    \* bound: calls of the pool's operations

ASSUME PoolAssumption ==
    /\ Ids \subseteq Nat /\ IsFiniteSet(Ids)
    /\ IsFiniteSet(Ranks) /\ Cardinality(Ranks) > 1
    /\ MaxFaults \in Nat /\ MaxCalls \in Nat

VARIABLES
    call,       \* the operation the ranks were last made to call
    step,       \* where a rank is: outside, entering, or at which exchange
    io,         \* what it posted there, or heard
    frame,      \* the locals of its call
    chans,      \* _all_channels and _logical_channels
    captured,   \* _captured_channel_ids
    saved,      \* the checkpoint the caller holds
    closed,     \* _closed
    ticket,     \* its entry of _RETAINED_FAILED_IPC_EXPORTS
    live,       \* exports: allocated and not freed
    maps,       \* imports: <<s, e>>, setup s has the export e mapped
    native,     \* setups whose native runtime is not disposed of
    faults, calls,
    split       \* history: an exchange has raised on some of the ranks only

poolVars == <<chans, captured, saved, closed>>
memVars == <<live, maps, native>>
vars == <<call, step, io, frame, poolVars, ticket, memVars, faults, calls, split>>

Ops == {"prepare", "capture", "checkpoint", "rollback", "close", "retry"}
Phases == {"native", "unmap", "free"}
Steps == {"validate", "contract", "gate", "export", "handles", "import", "init", "capture", "request",
          "sync", "closeUnmap", "closeBarrier", "closeFree", "closeEnd"} \cup Phases

(* A setup is known by the rank and by a number of the rank's own, which is *)
(* used again when nothing of the setup is left, as addresses are.          *)
Numbers == 1..Cardinality(Ids) + 1
Setups == Ranks \X Numbers
Tickets == [s : Setups, phase : Phases]
ASSUME NoneIsNothing == None \notin Ops /\ None \notin Ids /\ None \notin Setups /\ None \notin Tickets

NoFrame == [todo |-> {}, id |-> None, s |-> None, cl |-> {}]
Calm == <<"calm">>
Catalog(r) == {chans[r][i].id : i \in DOMAIN chans[r]}
Owned(r) == {chans[r][i].s : i \in DOMAIN chans[r]}
            \cup (IF ticket[r] = None THEN {} ELSE {ticket[r].s})
Unused(r) == {<<r, k>> : k \in Numbers} \ (Owned(r) \cup live)

Init ==
    /\ call = None
    /\ step = [r \in Ranks |-> "outside"]
    /\ io = [r \in Ranks |-> Calm]
    /\ frame = [r \in Ranks |-> NoFrame]
    /\ chans = [r \in Ranks |-> << >>]
    /\ captured = [r \in Ranks |-> {}]
    /\ saved = [r \in Ranks |-> [len |-> 0, captured |-> {}]]
    /\ closed = [r \in Ranks |-> FALSE]
    /\ ticket = [r \in Ranks |-> None]
    /\ live = {} /\ maps = {} /\ native = {}
    /\ faults = 0 /\ calls = 0
    /\ split = FALSE

-----------------------------------------------------------------------------
(* Exchanges                                                                *)

Goto(r, st, v) ==
    /\ step' = [step EXCEPT ![r] = st]
    /\ io' = [io EXCEPT ![r] = <<"post", v>>]
Post(r, st, v) == Goto(r, st, v) /\ UNCHANGED frame

Leave(r) ==
    /\ step' = [step EXCEPT ![r] = "outside"]
    /\ io' = [io EXCEPT ![r] = Calm]
    /\ frame' = [frame EXCEPT ![r] = NoFrame]

Waits(r) == io[r][1] = "post"
Heard(r) == io[r][1] = "heard"
Raised(r) == io[r][1] = "raise"
At(r, st) == step[r] = st /\ ~Waits(r)

(* Some step of the rank fails (bad), or none does.                         *)
Trouble(bad) ==
    /\ bad => faults < MaxFaults
    /\ faults' = IF bad THEN faults + 1 ELSE faults

(* _broadcast_gather_object: R is the set of ranks on which it raises.      *)
Exchange ==
    /\ \A r \in Ranks : Waits(r)
    /\ \E R \in SUBSET Ranks :
        /\ Trouble(R # {})
        /\ io' = [r \in Ranks |-> IF r \in R THEN <<"raise">>
                                  ELSE <<"heard", [q \in Ranks |-> io[q][2]]>>]
        /\ split' = (split \/ R \notin {{}, Ranks})
    /\ UNCHANGED <<call, step, frame, poolVars, ticket, memVars, calls>>

(* The process group gives up waiting for a rank that has left the call.    *)
TimesOut(r) ==
    /\ Waits(r) /\ \E q \in Ranks : step[q] = "outside"
    /\ io' = [io EXCEPT ![r] = <<"raise">>]
    /\ UNCHANGED <<call, step, frame, poolVars, ticket, memVars, faults, calls, split>>

(* _exchange_setup_failures, _exchange_close_failures: what every rank said *)
(* of its own step.                                                         *)
Passed(r) == Heard(r) /\ \A q \in Ranks : io[r][2][q]
Failed(r) == Heard(r) /\ \E q \in Ranks : ~io[r][2][q]

-----------------------------------------------------------------------------
(* Undoing a setup: _abort_collective_ipc_setup, and retry() from the phase *)
(* that the ticket names                                                    *)

Dispose(S) ==
    \E bad \in SUBSET (native \cap S) :
        Trouble(bad # {}) /\ native' = (native \ S) \cup bad

Unmap(S) ==
    LET mine == {m \in maps : m[1] \in S}
    IN \E bad \in SUBSET mine : Trouble(bad # {}) /\ maps' = (maps \ mine) \cup bad

Free(S) ==
    \E bad \in SUBSET (live \cap S) :
        Trouble(bad # {}) /\ live' = (live \ S) \cup bad

Undo(r, s, phase) ==
    \/ /\ phase = "native" /\ Dispose({s})
       /\ Goto(r, phase, s \notin native')
       /\ UNCHANGED <<live, maps>>
    \/ /\ phase = "unmap" /\ Unmap({s})
       /\ Goto(r, phase, \A m \in maps' : m[1] # s)
       /\ UNCHANGED <<live, native>>
    \/ /\ phase = "free" /\ Free({s})
       /\ Goto(r, phase, s \notin live')
       /\ UNCHANGED <<maps, native>>

(* A rank's ticket keeps what is left of the setup, and its part in the     *)
(* retry: a rank with nothing left to release keeps one too.                *)
Retain(r, phase) ==
    /\ ticket' = [ticket EXCEPT ![r] = [s |-> frame[r].s, phase |-> phase]]
    /\ Leave(r)
    /\ UNCHANGED <<memVars, faults>>

After == [native |-> "unmap", unmap |-> "free"]

Advance(r) ==
    \/ /\ step[r] # "free"
       /\ Undo(r, frame[r].s, After[step[r]])
       /\ UNCHANGED <<frame, ticket>>
    \/ /\ step[r] = "free"
       /\ ticket' = [ticket EXCEPT ![r] = None]
       /\ Leave(r)
       /\ UNCHANGED <<memVars, faults>>

(* Seeded defect: a rank that succeeded goes on without the others.         *)
Undone_Alone(r) ==
    /\ step[r] \in Phases /\ ~Waits(r)
    /\ IF Heard(r) /\ io[r][2][r] THEN Advance(r) ELSE Retain(r, step[r])
    /\ UNCHANGED <<call, poolVars, calls, split>>

(* Seeded defect: a rank that has freed its export needs no ticket.         *)
Undone_Dropped(r) ==
    /\ step[r] \in Phases /\ ~Waits(r)
    /\ IF Passed(r) \/ (step[r] = "free" /\ frame[r].s \notin live)
       THEN Advance(r) ELSE Retain(r, step[r])
    /\ UNCHANGED <<call, poolVars, calls, split>>

(* Seeded defect: a phase that failed is repeated in place.                 *)
Undone_Again(r) ==
    /\ step[r] \in Phases /\ ~Waits(r)
    /\ \/ Passed(r) /\ Advance(r)
       \/ ~Passed(r) /\ Undo(r, frame[r].s, step[r]) /\ UNCHANGED <<frame, ticket>>
    /\ UNCHANGED <<call, poolVars, calls, split>>

Undone(r) ==
    /\ step[r] \in Phases /\ ~Waits(r)
    /\ \/ Passed(r) /\ Advance(r)
       \/ ~Passed(r) /\ Retain(r, step[r])
    /\ UNCHANGED <<call, poolVars, calls, split>>

-----------------------------------------------------------------------------
(* Setting channels up: prepare_channels                                    *)

Quit(r) == Leave(r) /\ UNCHANGED <<poolVars, ticket, memVars, faults>>

(* The channels of the call that the catalog has not are set up, the least  *)
(* id first.  A capture goes on with its channel.                           *)
Remaining(r, ids) == ids \ Catalog(r)

Captures(r, id) ==
    captured' = IF id = None THEN captured ELSE [captured EXCEPT ![r] = @ \cup {id}]

Gate(r, ids) ==
    IF ids = {}
    THEN Leave(r) /\ Captures(r, frame[r].id)
    ELSE /\ Goto(r, "gate", ticket[r] = None)
         /\ frame' = [frame EXCEPT ![r].todo = ids, ![r].s = None]
         /\ UNCHANGED captured

Validated(r) ==
    /\ At(r, "validate")
    /\ \/ /\ Passed(r)
          /\ Post(r, "contract", [ids |-> frame[r].todo, catalog |-> Catalog(r)])
          /\ UNCHANGED <<poolVars, ticket, memVars, faults>>
       \/ ~Passed(r) /\ Quit(r)
    /\ UNCHANGED <<call, calls, split>>

Agreed(r) ==
    /\ At(r, "contract")
    /\ LET same == Heard(r) /\ \A q \in Ranks : io[r][2][q] = io[r][2][r]
       IN \/ /\ same /\ Gate(r, Remaining(r, frame[r].todo))
             /\ UNCHANGED <<chans, saved, closed, ticket, memVars, faults>>
          \/ ~same /\ Quit(r)
    /\ UNCHANGED <<call, calls, split>>

(* The export is allocated, cleared and given a handle, one of which may    *)
(* fail.                                                                    *)
Export(r) ==
    /\ LET s == CHOOSE x \in Unused(r) : \A y \in Unused(r) : x[2] <= y[2]
       IN \E made \in {"yes", "half", "no"} :
            /\ Trouble(made # "yes")
            /\ live' = IF made = "no" THEN live ELSE live \cup {s}
            /\ Goto(r, "export", made = "yes")
            /\ frame' = [frame EXCEPT ![r].s = s]
    /\ UNCHANGED <<poolVars, ticket, maps, native>>

(* Seeded defect: a gate that does not answer leaves a ticket.              *)
Gated_Retains(r) ==
    /\ At(r, "gate")
    /\ \/ Passed(r) /\ Export(r)
       \/ Failed(r) /\ Quit(r)
       \/ Raised(r) /\ Retain(r, "unmap") /\ UNCHANGED poolVars
    /\ UNCHANGED <<call, calls, split>>

(* _require_no_retained_ipc_setup                                           *)
Gated(r) ==
    /\ At(r, "gate")
    /\ \/ Passed(r) /\ Export(r)
       \/ ~Passed(r) /\ Quit(r)
    /\ UNCHANGED <<call, calls, split>>

Exported(r) ==
    /\ At(r, "export")
    /\ \/ /\ Passed(r)
          /\ Post(r, "handles", frame[r].s)
          /\ UNCHANGED <<ticket, memVars, faults>>
       \/ /\ Failed(r)
          /\ Undo(r, frame[r].s, "free")
          /\ UNCHANGED <<frame, ticket>>
       \/ Raised(r) /\ Retain(r, "unmap")
    /\ UNCHANGED <<call, poolVars, calls, split>>

(* Every handle of a peer is opened, whatever happens to the others.        *)
HandlesGot(r) ==
    /\ At(r, "handles")
    /\ \/ /\ Heard(r)
          /\ LET theirs == {<<frame[r].s, io[r][2][q]>> : q \in Ranks \ {r}}
             IN \E bad \in SUBSET theirs :
                 /\ Trouble(bad # {})
                 /\ maps' = maps \cup (theirs \ bad)
                 /\ Post(r, "import", bad = {})
          /\ UNCHANGED <<ticket, live, native>>
       \/ Raised(r) /\ Retain(r, "unmap")
    /\ UNCHANGED <<call, poolVars, calls, split>>

(* _initialize_native_runtime: it may fail with the runtime there.          *)
Imported(r) ==
    /\ At(r, "import")
    /\ \/ /\ Passed(r)
          /\ \E made \in {"yes", "half", "no"} :
                 /\ Trouble(made # "yes")
                 /\ native' = IF made = "no" THEN native ELSE native \cup {frame[r].s}
                 /\ Post(r, "init", made = "yes")
          /\ UNCHANGED <<ticket, live, maps>>
       \/ /\ Failed(r)
          /\ Undo(r, frame[r].s, "unmap")
          /\ UNCHANGED <<frame, ticket>>
       \/ Raised(r) /\ Retain(r, "unmap")
    /\ UNCHANGED <<call, poolVars, calls, split>>

(* The channel is the pool's, and the next one is set up, in their order.   *)
Adopt(r) ==
    /\ chans' = [chans EXCEPT ![r] = Append(@, [id |-> Min(frame[r].todo), s |-> frame[r].s])]
    /\ Gate(r, frame[r].todo \ {Min(frame[r].todo)})
    /\ UNCHANGED <<ticket, memVars, faults, saved, closed>>

AbortInit(r) ==
    /\ Undo(r, frame[r].s, "native")
    /\ UNCHANGED <<frame, ticket, poolVars>>

(* _finish_collective_runtime_setup: only when every rank has its runtime.  *)
Initialized(r) ==
    /\ At(r, "init")
    /\ \/ Passed(r) /\ Adopt(r)
       \/ Failed(r) /\ AbortInit(r)
       \/ Raised(r) /\ Retain(r, "native") /\ UNCHANGED poolVars
    /\ UNCHANGED <<call, calls, split>>

(* capture: the id is valid on every rank ("capture"), and then             *)
(* _collective_capture_needs_preparation: with equal catalogs, ranks may    *)
(* capture prepared channels in any order; one that is not prepared must be *)
(* the same on every rank, and is prepared.                                 *)
CaptureValidated(r) ==
    /\ At(r, "capture")
    /\ \/ /\ Passed(r)
          /\ Post(r, "request", [id |-> frame[r].id, catalog |-> Catalog(r)])
          /\ UNCHANGED <<poolVars, ticket, memVars, faults>>
       \/ ~Passed(r) /\ Quit(r)
    /\ UNCHANGED <<call, calls, split>>

Requested(r) ==
    /\ At(r, "request")
    /\ LET said == io[r][2]
           same == Heard(r) /\ \A q \in Ranks : said[q].catalog = Catalog(r)
           known == same /\ \A q \in Ranks : said[q].id \in Catalog(r)
           fresh == same /\ ~known /\ \A q \in Ranks : said[q].id = frame[r].id
       IN \/ /\ known /\ Gate(r, {})
             /\ UNCHANGED <<chans, saved, closed, ticket, memVars, faults>>
          \/ /\ fresh /\ Goto(r, "validate", ~closed[r])
             /\ frame' = [frame EXCEPT ![r].todo = {frame[r].id}]
             /\ UNCHANGED <<poolVars, ticket, memVars, faults>>
          \/ ~known /\ ~fresh /\ Quit(r)
    /\ UNCHANGED <<call, calls, split>>

-----------------------------------------------------------------------------
(* _coordinated_close_channels, for rollback_channels and close             *)

CloseSynced(r) ==
    /\ At(r, "sync")
    /\ \/ /\ Passed(r)
          /\ LET S == frame[r].cl
                 mine == {m \in maps : m[1] \in S}
             IN \E badRt \in SUBSET (native \cap S), badMap \in SUBSET mine :
                 /\ Trouble(badRt # {} \/ badMap # {})
                 /\ native' = (native \ S) \cup badRt
                 /\ maps' = (maps \ mine) \cup badMap
                 /\ Post(r, "closeUnmap", badRt = {} /\ badMap = {})
          /\ UNCHANGED live
       \/ ~Passed(r) /\ Leave(r) /\ UNCHANGED <<memVars, faults>>
    /\ UNCHANGED <<call, poolVars, ticket, calls, split>>

CloseUnmapped(r) ==
    /\ At(r, "closeUnmap")
    /\ \/ Passed(r) /\ Post(r, "closeBarrier", TRUE)
       \/ ~Passed(r) /\ Leave(r)
    /\ UNCHANGED <<call, poolVars, ticket, memVars, faults, calls, split>>

CloseFrees(r) ==
    /\ At(r, "closeBarrier")
    /\ \/ /\ Passed(r) /\ Free(frame[r].cl)
          /\ Post(r, "closeFree", live' \cap frame[r].cl = {})
          /\ UNCHANGED <<maps, native>>
       \/ ~Passed(r) /\ Leave(r) /\ UNCHANGED <<memVars, faults>>
    /\ UNCHANGED <<call, poolVars, ticket, calls, split>>

CloseFreed(r) ==
    /\ At(r, "closeFree")
    /\ \/ Passed(r) /\ Post(r, "closeEnd", TRUE)
       \/ ~Passed(r) /\ Leave(r)
    /\ UNCHANGED <<call, poolVars, ticket, memVars, faults, calls, split>>

(* What the caller restores or clears when the channels are closed.         *)
Dropped(r) ==
    IF call = "close"
    THEN /\ chans' = [chans EXCEPT ![r] = << >>]
         /\ captured' = [captured EXCEPT ![r] = {}]
         /\ closed' = [closed EXCEPT ![r] = TRUE]
    ELSE /\ chans' = [chans EXCEPT ![r] = SubSeq(@, 1, saved[r].len)]
         /\ captured' = [captured EXCEPT ![r] = saved[r].captured]
         /\ UNCHANGED closed

CloseEnds(r) ==
    /\ At(r, "closeEnd")
    /\ \/ Passed(r) /\ Dropped(r)
       \/ ~Passed(r) /\ UNCHANGED <<chans, captured, closed>>
    /\ Leave(r)
    /\ UNCHANGED <<call, saved, ticket, memVars, faults, calls, split>>

-----------------------------------------------------------------------------
(* The calls                                                                *)

Call(op) ==
    /\ \A r \in Ranks : step[r] = "outside"
    /\ calls < MaxCalls /\ calls' = calls + 1
    /\ call' = op
    /\ step' = [r \in Ranks |-> "entering"]
    /\ UNCHANGED <<io, frame, poolVars, ticket, memVars, faults, split>>

EnterPrepare(r) ==
    /\ call = "prepare"
    /\ \E ids \in SUBSET Ids : frame' = [frame EXCEPT ![r].todo = ids]
    /\ Goto(r, "validate", ~closed[r])
    /\ UNCHANGED <<poolVars, ticket, memVars, faults>>

EnterCapture(r) ==
    /\ call = "capture"
    /\ \E id \in Ids :
        /\ frame' = [frame EXCEPT ![r].id = id]
        /\ Goto(r, "capture", id \notin captured[r])
    /\ UNCHANGED <<poolVars, ticket, memVars, faults>>

EnterCheckpoint(r) ==
    /\ call = "checkpoint"
    /\ saved' = IF closed[r] THEN saved
                ELSE [saved EXCEPT ![r] = [len |-> Len(chans[r]), captured |-> captured[r]]]
    /\ Leave(r)
    /\ UNCHANGED <<chans, captured, closed, ticket, memVars, faults>>

ToClose(r) ==
    LET from == IF call = "close" THEN 1 ELSE saved[r].len + 1
    IN {chans[r][i].s : i \in from..Len(chans[r])}

EnterClose(r) ==
    /\ call \in {"rollback", "close"}
    /\ IF closed[r] THEN Quit(r)
       ELSE IF ToClose(r) = {}
       THEN /\ Leave(r) /\ Dropped(r)
            /\ UNCHANGED <<saved, ticket, memVars, faults>>
       ELSE /\ Goto(r, "sync", TRUE)
            /\ frame' = [frame EXCEPT ![r].cl = ToClose(r)]
            /\ UNCHANGED <<poolVars, ticket, memVars, faults>>

EnterRetry(r) ==
    /\ call = "retry"
    /\ IF ticket[r] = None THEN Quit(r)
       ELSE /\ Undo(r, ticket[r].s, ticket[r].phase)
            /\ frame' = [frame EXCEPT ![r].s = ticket[r].s]
            /\ UNCHANGED <<poolVars, ticket>>

Enter(r) ==
    /\ step[r] = "entering"
    /\ EnterPrepare(r) \/ EnterCapture(r) \/ EnterCheckpoint(r) \/ EnterClose(r) \/ EnterRetry(r)
    /\ UNCHANGED <<call, calls, split>>

SetUp(r) ==
    \/ Validated(r) \/ Agreed(r) \/ Gated(r) \/ Exported(r) \/ HandlesGot(r) \/ Imported(r)
    \/ Initialized(r) \/ CaptureValidated(r) \/ Requested(r)
Close(r) == CloseSynced(r) \/ CloseUnmapped(r) \/ CloseFrees(r) \/ CloseFreed(r) \/ CloseEnds(r)
Step(r) == Enter(r) \/ SetUp(r) \/ Undone(r) \/ Close(r)

Work == Exchange \/ \E r \in Ranks : Step(r) \/ TimesOut(r)

Next == (\E op \in Ops : Call(op)) \/ Work

Spec == Init /\ [][Next]_vars

(* Something that can go on does: a rank's call, an exchange for which all  *)
(* have come, or the timeout of the process group.                          *)
FairSpec == Spec /\ WF_vars(Work)

-----------------------------------------------------------------------------
Frames ==
    [todo : SUBSET Ids, id : Ids \cup {None}, s : Setups \cup {None}, cl : SUBSET Setups]

(* Types.                                                                   *)
TypeOK ==
    /\ call \in Ops \cup {None}
    /\ step \in [Ranks -> Steps \cup {"outside", "entering"}]
    /\ frame \in [Ranks -> Frames]
    /\ chans \in [Ranks -> Seq([id : Ids, s : Setups])]
    /\ captured \in [Ranks -> SUBSET Ids]
    /\ saved \in [Ranks -> [len : Nat, captured : SUBSET Ids]]
    /\ closed \in [Ranks -> BOOLEAN]
    /\ ticket \in [Ranks -> Tickets \cup {None}]
    /\ live \subseteq Setups /\ native \subseteq Setups
    /\ maps \subseteq Setups \X Setups
    /\ faults \in 0..MaxFaults /\ calls \in 0..MaxCalls
    /\ split \in BOOLEAN

Outside == \A r \in Ranks : step[r] = "outside"

(* Nothing is lost: what a rank still holds of a setup when it is not in a  *)
(* call, be it memory, a mapping or a runtime, belongs to a channel of its  *)
(* pool or to its ticket, whatever failed and however often.                *)
NothingLeaked ==
    \A r \in Ranks : step[r] = "outside" =>
        \A s \in live \cup native \cup {m[1] : m \in maps} : s[1] = r => s \in Owned(r)

(* As long as every exchange raised on all ranks or on none, an export is   *)
(* freed only when no peer has it mapped and the runtime over it is gone    *)
(* ("Undo a failed collective IPC setup without freeing a mapped export",   *)
(* "Strictly release exports only after every peer reports successful       *)
(* unmap").                                                                 *)
MappedIsLive ==
    ~split => native \cup {m[2] : m \in maps} \subseteq live

(* Memory is neither lost nor freed too early, on any path of a setup, a    *)
(* rollback, a close and their retries.                                     *)
MemoryIsSound == NothingLeaked /\ MappedIsLive

(* The ranks that wait for an exchange wait for the same one, and no rank   *)
(* waits for another that has left the call                                 *)
(* ("Collect a setup verdict without allowing one rank to return early").   *)
InStep ==
    \A r, q \in Ranks :
        Waits(r) => /\ Waits(q) => step[q] = step[r]
                    /\ step[q] # "outside"

(* Under the same condition, the ranks stay in step in a call, and between  *)
(* calls their pools agree on their channels and on the order of their      *)
(* setup, and a retry finds every rank at the same phase of an undo, or     *)
(* none with anything to undo.                                              *)
Phase(r) == IF ticket[r] = None THEN None ELSE ticket[r].phase
Names(r) == [i \in DOMAIN chans[r] |-> chans[r][i].id]
RanksAgree ==
    ~split =>
        /\ InStep
        /\ Outside => \A r, q \in Ranks :
            /\ Phase(r) = Phase(q)
            /\ Names(r) = Names(q) /\ closed[r] = closed[q]

(* Every call comes to an end on every rank.                                *)
CallsEnd == []<>Outside
=============================================================================
