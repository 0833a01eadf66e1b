-------------------------------- MODULE Soul --------------------------------
(***************************************************************************)
(* The SOUL diagnostic controller, its launcher and its supervisor         *)
(* (entrypoint.sh 658-895, scripts/soul_launcher.py, soul_config.py and    *)
(* soul_controller.py).                                                    *)
(*                                                                         *)
(* The supervisor, a subshell of PID 1, follows the autonomy level the     *)
(* landing page writes: it starts the launcher, which starts the           *)
(* controller, starts it again when it is gone, and stops both at level 0  *)
(* and when PID 1 stands down.  The controller opens and closes incidents  *)
(* from what it observes, queues their events, keeps the size of its       *)
(* evidence and its journal in bounds, and writes a record of each event   *)
(* to the journal.  It may be killed between any two of its file writes.   *)
(*                                                                         *)
(* PID 1 may resume before the supervisor it stopped has ended, so there   *)
(* are supervisors of several eras: the one of `era' follows the level,    *)
(* those in `leaving' have been told to stop and do so, each with its own  *)
(* launcher, when their trap runs.                                         *)
(*                                                                         *)
(* Levels are 0 and 1.  The probes of level 3, the hourly and daily        *)
(* records, what the analyses say, the status document, permissions, the   *)
(* credential and the landing page's reading are left out.  The delays of  *)
(* the restart ladder pass at some time.                                   *)
(***************************************************************************)
EXTENDS Integers, FiniteSets, SequencesExt

CONSTANTS
    Checks,
    Requires,     \* how many failures in a row open an incident
    Reach,        \* the checks that count only while the engine serves
    Cap,          \* maxStateMB, in snapshots
    None,
    MaxTurns      \* bound: changes of the configuration, stand-downs, deaths,
                  \* failing analyses, writes and applies, openings of an
                  \* incident; so one more than it bounds the supervisors

ASSUME SoulAssumption ==
    /\ Requires \in [Checks -> Nat \ {0}] /\ Reach \subseteq Checks
    /\ IsFiniteSet(Checks)
    /\ Cap \in Nat /\ MaxTurns \in Nat
ASSUME NoneIsNoCheck == None \notin Checks /\ None \notin Checks \X (1..MaxTurns)

VARIABLES
    level, page,                \* the effective level; where the page is
    marker,                     \* the reconcile marker
    pid1, era,                  \* PID 1; its supervisor
    leaving,                    \* the supervisors that have still to stop
    sup,                        \* where the supervisor of this era is
    cache, idle,                \* SOUL_LEVEL_CACHE, SOUL_IDLE_STOPPED
    pid, due,                   \* SOUL_PID is set (of each supervisor);
                                \* SOUL_NEXT_START has come
    launch,                     \* the launcher of each supervisor
    ctl, child,                 \* the controller: where it is, its locals;
                                \* whose launcher started it, if any
    book,                       \* incidents/index.json
    queue,                      \* incidents/pending-events.json
    rollback,                   \* a failed apply without its analysis
    journal, files,             \* journal.jsonl; how many snapshots are kept
    lock,                       \* the journal's lock is held
    turns, opened,              \* what happened; the incidents of a check
    told,                       \* history: the events journaled
    torn, escaped               \* history: see Torn, StandDown

pageVars == <<level, page>>
supVars == <<pid1, era, leaving, sup, cache, idle, pid, due, escaped>>
procVars == <<launch, ctl, child, lock, torn>>
diskVars == <<book, queue, rollback, journal, files>>
vars == <<pageVars, marker, supVars, procVars, diskVars, turns, opened, told>>

Eras == 0..MaxTurns
Gone == [pc |-> "gone"]
Calm == [fails |-> 0, id |-> None, snap |-> 0]

Init ==
    /\ level \in {0, 1} /\ page = "idle"
    /\ marker = FALSE
    /\ pid1 = "up" /\ era = 0 /\ leaving = {} /\ sup = "tick"
    /\ cache = None /\ idle = FALSE /\ pid = [e \in Eras |-> FALSE] /\ due = TRUE
    /\ launch = [e \in Eras |-> "gone"] /\ ctl = Gone /\ child = None
    /\ book = [c \in Checks |-> Calm] /\ queue = << >> /\ rollback = "none"
    /\ journal = << >> /\ files = 0 /\ lock = FALSE
    /\ turns = 0 /\ opened = [c \in Checks |-> 0]
    /\ told = {}
    /\ torn = FALSE /\ escaped = FALSE

(* append_jsonl, under the lock of the journal.                             *)
Journal(ev, snap) ==
    /\ ~lock
    /\ journal' = Append(journal, [ev |-> ev, snap |-> snap])

Turn == turns < MaxTurns /\ turns' = turns + 1

-----------------------------------------------------------------------------
(* The page: write_override                                                 *)

WriteOverride ==
    /\ page = "idle" /\ Turn
    /\ level' \in {0, 1}
    /\ page' = "audit"
    /\ UNCHANGED <<marker, supVars, procVars, diskVars, opened, told>>

Audit ==
    /\ page = "audit"
    /\ Journal(<<<<None, turns>>, "audit">>, 0)
    /\ page' = "touch"
    /\ UNCHANGED <<level, marker, supVars, procVars, book, queue, rollback,
                   files, turns, opened, told>>

Touch ==
    /\ page = "touch"
    /\ marker' = TRUE
    /\ page' = "signal"
    /\ UNCHANGED <<level, supVars, procVars, diskVars, turns, opened, told>>

(* SIGUSR1, which PID 1 traps: it ends the wait for a supervisor early.     *)
(* Nothing else of PID 1 is disturbed.                                      *)
Signal ==
    /\ page = "signal"
    /\ page' = "idle"
    /\ pid1' \in {pid1} \cup (IF pid1 = "stopping" THEN {"stood"} ELSE {})
    /\ UNCHANGED <<level, marker, era, leaving, sup, cache, idle, pid, due, escaped,
                   procVars, diskVars, turns, opened, told>>

(* The page is started again when it dies, and knows nothing of the write.  *)
PageDies ==
    /\ page \in {"audit", "touch", "signal"} /\ Turn
    /\ page' = "idle"
    /\ UNCHANGED <<level, marker, supVars, procVars, diskVars, opened, told>>

-----------------------------------------------------------------------------
(* The supervisor: reconcile_soul every five seconds                        *)

Supervises(at) == pid1 = "up" /\ sup = at
supRest == <<pageVars, diskVars, turns, opened, told>>
pid1Vars == <<pid1, era, leaving, escaped>>

(* A controller that is killed between the write of its index and that of   *)
(* its queue loses the events for good.                                     *)
Torn == torn \/ (ctl.pc = "queue" /\ ctl.events # {})
UserKilled == ctl' = Gone /\ child' = None /\ lock' = FALSE /\ torn' = Torn

(* Seeded defect: only the launcher is killed.                              *)
StopSoul_Launcher(e) ==
    /\ launch' = [launch EXCEPT ![e] = IF pid[e] THEN "gone" ELSE @]
    /\ pid' = [pid EXCEPT ![e] = FALSE]
    /\ UNCHANGED <<ctl, child, lock, torn>>

(* stop_soul: the supervisor's launcher, if its pid is known, and every     *)
(* process of the user are killed.                                          *)
StopSoul(e) ==
    /\ launch' = [launch EXCEPT ![e] = IF pid[e] THEN "gone" ELSE @]
    /\ UserKilled
    /\ pid' = [pid EXCEPT ![e] = FALSE]

(* Seeded defect: a controller that was stopped once is not stopped again.  *)
Follow_StaysIdle ==
    \/ /\ cache' = 0 /\ ~idle
       /\ StopSoul(era) /\ idle' = TRUE /\ sup' = "tick" /\ UNCHANGED due
    \/ /\ cache' = 0 /\ idle
       /\ sup' = "tick" /\ UNCHANGED <<idle, pid, due, procVars>>
    \/ /\ cache' = 1 /\ UNCHANGED idle
       /\ sup' = IF ~pid[era] /\ due THEN "start" ELSE "tick"
       /\ pid' = [pid EXCEPT ![era] = @ /\ launch[era] # "gone"]
       /\ due' = (due /\ pid = pid')
       /\ UNCHANGED procVars

(* What reconcile_soul does with the level: at 0 it stops SOUL, once; above *)
(* it, it notices that the launcher is gone and starts one after a delay.   *)
Follow ==
    \/ /\ cache' = 0 /\ ~idle
       /\ StopSoul(era) /\ idle' = TRUE /\ sup' = "tick" /\ UNCHANGED due
    \/ /\ cache' = 0 /\ idle
       /\ sup' = "tick" /\ UNCHANGED <<idle, pid, due, procVars>>
    \/ /\ cache' = 1 /\ idle' = FALSE
       /\ sup' = IF ~pid[era] /\ due THEN "start" ELSE "tick"
       /\ pid' = [pid EXCEPT ![era] = @ /\ launch[era] # "gone"]
       /\ due' = (due /\ pid = pid')
       /\ UNCHANGED procVars

(* soul_level_cached: a marker, a change of the file's time stamp or a      *)
(* minute make the level be read again (that it is the same as before shows *)
(* nothing and is left out).  The marker goes first.                        *)
Consume ==
    /\ Supervises("tick") /\ (marker \/ cache # level)
    /\ sup' = "read" /\ marker' = FALSE
    /\ UNCHANGED <<pid1Vars, cache, idle, pid, due, procVars, supRest>>

ReadLevel ==
    /\ Supervises("read")
    /\ cache' = level /\ Follow
    /\ UNCHANGED <<pid1Vars, marker, supRest>>

KeepCache ==
    /\ Supervises("tick") /\ cache # None /\ ~marker
    /\ cache' = cache /\ Follow
    /\ UNCHANGED <<pid1Vars, marker, supRest>>

(* start_soul reads the level itself, and notes the launcher's pid by a     *)
(* command of its own.                                                      *)
StartSoul ==
    /\ Supervises("start")
    /\ \/ level > 0 /\ launch' = [launch EXCEPT ![era] = "reap"] /\ sup' = "forked"
       \/ level = 0 /\ sup' = "tick" /\ UNCHANGED launch
    /\ UNCHANGED <<pid1Vars, cache, idle, pid, due, marker, ctl, child, lock, torn, supRest>>

NotePid ==
    /\ Supervises("forked")
    /\ sup' = "tick" /\ pid' = [pid EXCEPT ![era] = TRUE] /\ due' = TRUE
    /\ UNCHANGED <<pid1Vars, cache, idle, marker, procVars, supRest>>

DelayPasses ==
    /\ pid1 = "up" /\ ~due /\ due' = TRUE
    /\ UNCHANGED <<pid1Vars, sup, cache, idle, pid, marker, procVars, supRest>>

(* stop_soul_supervisor, when PID 1 stands down: it signals the supervisor  *)
(* and waits for it.  All the supervisor has still to do is its trap, which *)
(* needs the pid it noted; the next one starts with fresh notes.            *)
(* (Bound: a stop that lets a launcher escape counts for two.)              *)
StandDown ==
    /\ pid1 = "up"
    /\ turns' = turns + (IF sup = "forked" THEN 2 ELSE 1) /\ turns' <= MaxTurns
    /\ pid1' = "stopping" /\ leaving' = leaving \cup {era}
    /\ escaped' = (escaped \/ sup = "forked")
    /\ sup' = "tick" /\ cache' = None /\ idle' = FALSE /\ due' = TRUE
    /\ UNCHANGED <<era, pid, marker, procVars, pageVars, diskVars, opened, told>>

(* The trap of a supervisor runs before its next command; PID 1 need not be *)
(* waiting for it any more.                                                 *)
Trap(e) ==
    /\ e \in leaving
    /\ StopSoul(e)
    /\ leaving' = leaving \ {e}
    /\ pid1' = IF pid1 = "stopping" /\ e = era THEN "stood" ELSE pid1
    /\ UNCHANGED <<era, sup, cache, idle, due, escaped, marker, supRest>>

(* start_soul_supervisor, when it resumes.                                  *)
Resume ==
    /\ pid1 = "stood"
    /\ pid1' = "up" /\ era' = era + 1
    /\ UNCHANGED <<leaving, sup, cache, idle, pid, due, escaped, marker, procVars, supRest>>

-----------------------------------------------------------------------------
(* The launcher                                                             *)

(* It kills what is left of the user's processes and starts a controller,   *)
(* which loads its index and its queue.                                     *)
Launch(e) ==
    /\ launch[e] = "reap"
    /\ launch' = [launch EXCEPT ![e] = "up"]
    /\ ctl' = [pc |-> "begin"] /\ child' = e
    /\ lock' = FALSE /\ torn' = Torn
    /\ UNCHANGED <<pageVars, marker, supVars, diskVars, turns, opened, told>>

(* Its controller is gone: so is it, and with it what else of the user's    *)
(* processes there is, another launcher's controller too.                   *)
LauncherEnds(e) ==
    /\ launch[e] = "up" /\ (ctl = Gone \/ child # e)
    /\ launch' = [launch EXCEPT ![e] = "gone"]
    /\ UserKilled
    /\ UNCHANGED <<pageVars, marker, supVars, diskVars, turns, opened, told>>

(* The launcher is killed hard: its controller goes on without it.          *)
LauncherDies(e) ==
    /\ launch[e] = "up" /\ Turn
    /\ launch' = [launch EXCEPT ![e] = "gone"]
    /\ UNCHANGED <<pageVars, marker, supVars, ctl, child, lock, torn, diskVars, opened,
                   told>>

(* The controller is killed or exits, whatever it was doing.                *)
Crash ==
    /\ ctl # Gone /\ Turn
    /\ UserKilled
    /\ UNCHANGED <<pageVars, marker, supVars, launch, diskVars, opened, told>>

-----------------------------------------------------------------------------
(* The controller: one_cycle                                                *)

At(pc) == ctl.pc = pc
ctlFixed == <<pageVars, marker, supVars, launch, child>>
ctlRest == <<ctlFixed, torn>>
Cycle == [pc |-> "cycle"]

Begin ==
    /\ At("begin")
    /\ Journal(<<<<None, 0>>, "started">>, 0)
    /\ ctl' = Cycle
    /\ UNCHANGED <<ctlRest, lock, book, queue, rollback, files, turns, opened, told>>

Opens(c) == book[c].id = None /\ book[c].fails + 1 >= Requires[c]

(* A heartbeat at a level that is not 0: what fails is found and the        *)
(* snapshot written.  The boot phase is read once, before.                  *)
Heartbeat(serving) ==
    /\ At("cycle") /\ level > 0
    /\ \E failing \in SUBSET Checks :
        LET found == IF serving THEN failing ELSE failing \ Reach
        IN /\ turns' = turns + Cardinality({c \in found : Opens(c)}) /\ turns' <= MaxTurns
           /\ files' = files + 1
           /\ ctl' = [pc |-> "index", serving |-> serving, found |-> found, snap |-> files']
    /\ UNCHANGED <<ctlRest, lock, book, queue, rollback, journal, opened, told>>

(* Seeded defect: a check that is well again keeps its incident.            *)
Entry_Keeps(c) ==
    IF c \notin ctl.found THEN [Calm EXCEPT !.id = book[c].id]
    ELSE [fails |-> Min({book[c].fails + 1, Requires[c]}),
          id |-> IF Opens(c) THEN <<c, opened[c] + 1>> ELSE book[c].id,
          snap |-> IF Opens(c) \/ book[c].id # None THEN ctl.snap ELSE 0]

(* IncidentBook.reconcile: the entry of a check, and what happened to it.   *)
(* An incident that goes on is told again after a while (once, here).       *)
Entry(c) ==
    IF c \notin ctl.found THEN Calm
    ELSE [fails |-> Min({book[c].fails + 1, Requires[c]}),
          id |-> IF Opens(c) THEN <<c, opened[c] + 1>> ELSE book[c].id,
          snap |-> IF Opens(c) \/ book[c].id # None THEN ctl.snap ELSE 0]

(* Seeded defect: nothing recovers while the engine does not serve.         *)
Events_Serving(c, later) ==
    IF c \in ctl.found /\ Opens(c) THEN {<<Entry(c).id, "opened">>}
    ELSE IF c \in ctl.found /\ book[c].id # None /\ later THEN {<<book[c].id, "updated">>}
    ELSE IF c \notin ctl.found /\ book[c].id # None /\ ctl.serving
         THEN {<<book[c].id, "recovered">>}
    ELSE {}

Events(c, later) ==
    IF c \in ctl.found /\ Opens(c) THEN {<<Entry(c).id, "opened">>}
    ELSE IF c \in ctl.found /\ book[c].id # None /\ later THEN {<<book[c].id, "updated">>}
    ELSE IF c \notin ctl.found /\ book[c].id # None THEN {<<book[c].id, "recovered">>}
    ELSE {}

(* What the book holds then, and the identities it has given.               *)
Booked ==
    /\ book' = [c \in Checks |-> Entry(c)]
    /\ opened' = [c \in Checks |->
                     IF c \in ctl.found /\ Opens(c) THEN opened[c] + 1 ELSE opened[c]]

Reconcile ==
    /\ At("index") /\ Booked
    /\ \E later \in BOOLEAN :
        LET events == UNION {Events(c, later) : c \in Checks}
        IN /\ \A e \in events : e[2] = "updated" => e \notin told \cup Range(queue)
           /\ ctl' = [pc |-> "queue", serving |-> ctl.serving, snap |-> ctl.snap,
                      events |-> events]
    /\ UNCHANGED <<ctlRest, lock, queue, rollback, journal, files, turns, told>>

(* Its index cannot be written: the cycle ends, and the events are lost     *)
(* with it.  The book in memory is ahead of the file until a later cycle    *)
(* writes it; if none does before the controller dies, the controller might *)
(* as well have died before it reconciled (Crash).                          *)
IndexFails ==
    /\ At("index") /\ Turn /\ Booked
    /\ torn' = (torn \/ \E c \in Checks : Events(c, FALSE) # {})
    /\ ctl' = Cycle
    /\ UNCHANGED <<ctlFixed, lock, queue, rollback, journal, files, told>>

(* An event that is in the queue is not queued again.                       *)
Queued(events) == queue \o SetToSeq(events \ Range(queue))

Queue ==
    /\ At("queue")
    /\ queue' = Queued(ctl.events)
    /\ ctl' = [pc |-> "retain", serving |-> ctl.serving, snap |-> ctl.snap]
    /\ UNCHANGED <<ctlRest, lock, book, rollback, journal, files, turns, opened, told>>

Open == {c \in Checks : book[c].id # None}

(* _open_incident_files: what an open incident was last seen in, and what   *)
(* its records in the journal refer to.                                     *)
Protected ==
    {book[c].snap : c \in Open}
    \cup {journal[i].snap : i \in {k \in DOMAIN journal :
                                       \E c \in Open : journal[k].ev[1] = book[c].id}}

(* enforce_retention: the oldest of what is not protected goes, by its age  *)
(* or until the rest fits, and the oldest records of the journal.  Their    *)
(* choice is made here, the journal replaced in Replace.  A snapshot is     *)
(* known by its rank among those kept, 0 once it is gone.                   *)
Retain_With(hold) ==
    /\ At("retain") /\ ~lock /\ lock' = hold
    /\ \E k \in 0..files, j \in 0..Len(journal) :
        LET kept == {s \in 1..files : s > k \/ s \in Protected}
            Rank(s) == IF s \in kept THEN Cardinality(kept \cap 1..s) ELSE 0
            ranked == [i \in DOMAIN journal |-> [journal[i] EXCEPT !.snap = Rank(@)]]
        IN /\ Cardinality(kept) <= Cap \/ k = files
           /\ files' = Cardinality(kept)
           /\ book' = [c \in Checks |-> [book[c] EXCEPT !.snap = Rank(@)]]
           /\ journal' = ranked
           /\ ctl' = [pc |-> "replace", serving |-> ctl.serving, snap |-> Rank(ctl.snap),
                      keep |-> SubSeq(ranked, j + 1, Len(journal)),
                      drop |-> {journal[i].ev : i \in 1..j}]
    /\ UNCHANGED <<ctlRest, queue, rollback, turns, opened, told>>

(* Seeded defect: the journal's lock is not taken.                          *)
Retain_Unlocked == Retain_With(FALSE)

Retain == Retain_With(TRUE)

Replace ==
    /\ At("replace")
    /\ journal' = ctl.keep /\ lock' = FALSE
    /\ ctl' = IF ctl.serving THEN [pc |-> "failure", snap |-> ctl.snap] ELSE Cycle
    /\ UNCHANGED <<ctlRest, book, queue, rollback, files, turns, opened, told>>

(* An analysis raises: the cycle ends.                                      *)
AnalysisFails ==
    /\ \/ At("failure") /\ rollback = "pending"
       \/ At("events") /\ queue # << >>
    /\ Turn /\ ctl' = Cycle
    /\ UNCHANGED <<ctlRest, lock, diskVars, opened, told>>

(* A failed apply is analysed, journaled, and then marked as analysed.      *)
Rollback ==
    /\ At("failure")
    /\ \/ /\ rollback # "pending" /\ ctl' = [ctl EXCEPT !.pc = "events"]
          /\ UNCHANGED journal
       \/ /\ rollback = "pending" /\ ctl' = [ctl EXCEPT !.pc = "mark"]
          /\ Journal(<<<<None, 0>>, "rollback">>, 0)
    /\ UNCHANGED <<ctlRest, lock, book, queue, rollback, files, turns, opened, told>>

MarkAnalyzed ==
    /\ At("mark")
    /\ rollback' = "done"
    /\ ctl' = [ctl EXCEPT !.pc = "events"]
    /\ UNCHANGED <<ctlRest, lock, book, queue, journal, files, turns, opened, told>>

(* The first event of the queue is analysed and journaled, and then taken   *)
(* off the queue.                                                           *)
Report ==
    /\ At("events")
    /\ \/ /\ queue = << >> /\ ctl' = Cycle
          /\ UNCHANGED <<journal, told>>
       \/ /\ queue # << >> /\ ctl' = [ctl EXCEPT !.pc = "pop"]
          /\ Journal(Head(queue), ctl.snap)
          /\ told' = told \cup {Head(queue)}
    /\ UNCHANGED <<ctlRest, lock, book, queue, rollback, files, turns, opened>>

Pop ==
    /\ At("pop")
    /\ queue' = Tail(queue)
    /\ ctl' = [ctl EXCEPT !.pc = "events"]
    /\ UNCHANGED <<ctlRest, lock, book, rollback, journal, files, turns, opened, told>>

-----------------------------------------------------------------------------
(* An apply of the configuration is rolled back.                            *)
ApplyFails ==
    /\ rollback = "none" /\ Turn
    /\ rollback' = "pending"
    /\ UNCHANGED <<pageVars, marker, supVars, procVars, book, queue, journal, files, opened, told>>

Page == Audit \/ Touch \/ Signal
Supervisor == ReadLevel \/ KeepCache \/ StartSoul \/ NotePid
Launcher(e) == Launch(e) \/ LauncherEnds(e)
Controller ==
    \/ Begin \/ (\E serving \in BOOLEAN : Heartbeat(serving))
    \/ Reconcile \/ Queue \/ Retain \/ Replace
    \/ Rollback \/ MarkAnalyzed \/ Report \/ Pop

Next ==
    \/ WriteOverride \/ Page \/ PageDies
    \/ Consume \/ Supervisor \/ DelayPasses \/ StandDown \/ Resume
    \/ (\E e \in Eras : Trap(e) \/ Launcher(e) \/ LauncherDies(e))
    \/ Crash
    \/ Controller \/ IndexFails \/ AnalysisFails
    \/ ApplyFails

Spec == Init /\ [][Next]_vars

(* The processes go on, the delay of the restart ladder passes, a level     *)
(* that differs is read again within a minute, and heartbeats go on and     *)
(* find the engine serving at some.                                         *)
FairSpec ==
    /\ Spec
    /\ WF_vars(Page) /\ SF_vars(Consume) /\ WF_vars(Supervisor) /\ WF_vars(DelayPasses)
    /\ \A e \in Eras : WF_vars(Trap(e)) /\ WF_vars(Launcher(e))
    /\ WF_vars(Controller)
    /\ SF_vars(Heartbeat(TRUE))

-----------------------------------------------------------------------------
Ids == Checks \X (1..MaxTurns)
Entries == [fails : Nat, id : Ids \cup {None}, snap : 0..files]
Evs == (Ids \X {"opened", "updated", "recovered"})
       \cup ({<<None, 0>>} \X {"started", "rollback"})
       \cup {<<<<None, n>>, "audit">> : n \in 1..MaxTurns}

(* Types, and an incident is open exactly after enough failures in a row.   *)
TypeOK ==
    /\ level \in {0, 1} /\ page \in {"idle", "audit", "touch", "signal"}
    /\ pid1 \in {"up", "stopping", "stood"}
    /\ sup \in {"tick", "read", "start", "forked"} /\ cache \in {None, 0, 1}
    /\ era \in Eras /\ leaving \subseteq 0..era
    /\ launch \in [Eras -> {"gone", "reap", "up"}]
    /\ book \in [Checks -> Entries]
    /\ \A c \in Checks : book[c].fails = Requires[c] <=> book[c].id # None
    /\ Range(queue) \subseteq Evs
    /\ \A i \in DOMAIN journal : journal[i].ev \in Evs
    /\ turns <= MaxTurns

(* Once PID 1 is stood down and the supervisors it stopped have run their   *)
(* trap, nothing of SOUL runs, unless a stop came between the start of a    *)
(* launcher and the note of its pid.  PID 1 may answer before (Signal),     *)
(* against "is stopped before secure erase or container exit"               *)
(* (docs/soul.md): what is left then ends with the trap.                    *)
NothingRuns == ctl = Gone /\ \A e \in Eras : launch[e] = "gone"
StoodDownIsQuiet == pid1 = "stood" /\ leaving = {} /\ ~escaped => NothingRuns

(* What is in the journal stays until the retention chooses to drop it: no  *)
(* line of the page is lost to the replacement of the journal               *)
(* (journal_lock).                                                          *)
Lines == {journal[i].ev : i \in DOMAIN journal}
JournalKept == Lines \ Lines' \subseteq IF At("replace") THEN ctl.drop ELSE {}

(* An event leaves the queue only for the journal, whatever dies and when.  *)
QueueKept == Range(queue) \subseteq Range(queue') \cup told

(* Unless the controller died between its two writes: the opening and the   *)
(* recovery of every incident are queued or journaled, and in this order.   *)
Past == {i \in Ids : i[2] <= opened[i[1]]} \ {book[c].id : c \in Open}
IncidentsTold ==
    ~torn /\ ctl.pc # "queue" =>
        /\ \A c \in Open : <<book[c].id, "opened">> \in told \cup Range(queue)
        /\ \A i \in Past : {<<i, "opened">>, <<i, "recovered">>} \subseteq told \cup Range(queue)
        /\ \A i \in Past : <<i, "recovered">> \in told => <<i, "opened">> \in told

(* The evidence of an open incident is kept: what it was last seen in, and  *)
(* what its records in the journal refer to (_open_incident_files).         *)
EvidenceKept ==
    \A c \in Open :
        /\ book[c].snap # 0
        /\ \A i \in DOMAIN journal : journal[i].ev[1] = book[c].id => journal[i].snap # 0

(* No step of a process, and no death of one, loses a line of the journal,  *)
(* an event of the queue or the evidence of an open incident.               *)
NothingLost == [][JournalKept /\ QueueKept /\ EvidenceKept']_vars

(* A level that stays at 0 ends in silence, for good.  With a level that    *)
(* stays up, the queue is emptied and the failed apply is analysed in the   *)
(* end, so (QueueKept) every event reaches the journal.                     *)
LevelIsFollowed ==
    /\ <>[](level = 0 /\ pid1 = "up") /\ []~escaped => <>[]NothingRuns
    /\ <>[](level = 1 /\ pid1 = "up") => []<>(queue = << >> /\ rollback # "pending")
=============================================================================
