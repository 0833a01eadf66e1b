----------------------------- MODULE Soul_proof -----------------------------
(***************************************************************************)
(* What the SOUL supervisor, its launcher and its controller keep, for any *)
(* checks, thresholds and evidence budget, and for any number of crashes,  *)
(* stand-downs and failing analyses.                                       *)
(*                                                                         *)
(* The controller dies between any two of its writes and starts from what  *)
(* is on disk.  An event is safe because it is in the queue before it is   *)
(* in the journal and in the journal before it leaves the queue (Popping,  *)
(* Told); a line of the page, because the journal is locked while it is    *)
(* replaced (Locked); the evidence of an incident, because an open one was *)
(* last seen in the snapshot of this very cycle (Evident).                 *)
(***************************************************************************)
EXTENDS Soul, FiniteSetTheorems, SequenceTheorems, TLAPS

Recs == [ev : Evs, snap : 0..files]

(* What the controller is at, with its locals.                             *)
Found == [pc : {"index"}, serving : BOOLEAN, found : SUBSET Checks, snap : {files}]
Reconciled == [pc : {"queue"}, serving : BOOLEAN, snap : 0..files, events : SUBSET Evs]
Retaining == [pc : {"retain"}, serving : BOOLEAN, snap : 0..files]
Replacing == [pc : {"replace"}, serving : BOOLEAN, snap : 0..files, keep : Seq(Recs),
              drop : SUBSET Evs]
Reporting == [pc : {"failure", "mark", "events", "pop"}, snap : 0..files]
Loaded == [pc |-> "begin"]
Places == {Gone, Loaded, Cycle} \cup Found \cup Reconciled \cup Retaining \cup Replacing
          \cup Reporting

Controls ==
    /\ level \in {0, 1} /\ page \in {"idle", "audit", "touch", "signal"}
    /\ sup \in {"tick", "read", "start", "forked"} /\ cache \in {None, 0, 1}
    /\ launch \in [Eras -> {"gone", "reap", "up"}]
    /\ pid \in [Eras -> BOOLEAN] /\ escaped \in BOOLEAN
    /\ turns \in 0..MaxTurns
    /\ page = "audit" => turns > 0

(* Every supervisor but the first follows a stop, and a supervisor that is  *)
(* at work was not told to stop.                                            *)
Succession ==
    /\ pid1 \in {"up", "stopping", "stood"}
    /\ era \in Nat /\ era <= turns /\ (pid1 # "up" => era < turns)
    /\ leaving \subseteq 0..era
    /\ pid1 = "up" => era \notin leaving

Shapes ==
    /\ files \in Nat /\ ctl \in Places
    /\ book \in [Checks -> Entries]
    /\ \A c \in Checks : book[c].fails = Requires[c] <=> book[c].id # None
    /\ queue \in Seq(Evs) /\ journal \in Seq(Recs)
    /\ lock \in BOOLEAN /\ torn \in BOOLEAN

(* The incidents of a check are numbered as they are opened, and an open   *)
(* one is the last of its check; one about to be opened has its turn.  Only *)
(* such incidents are spoken of.                                           *)
Due(c) == ctl.pc = "index" /\ c \in ctl.found /\ Opens(c)
Pending == IF ctl.pc = "queue" THEN ctl.events ELSE {}
Issued(e) == e[1] \in Ids => e[1][2] <= opened[e[1][1]]
Numbered ==
    /\ opened \in [Checks -> 0..turns]
    /\ \A c \in Checks : Due(c) => opened[c] < turns
    /\ \A c \in Open : book[c].id = <<c, opened[c]>>
    /\ \A e \in Range(queue) \cup Pending \cup Lines : Issued(e)

(* Once the incidents are reconciled, what is open was last seen in the    *)
(* snapshot of this cycle.                                                 *)
Working == {"queue", "retain", "replace", "failure", "mark", "events", "pop"}
Evident ==
    /\ EvidenceKept
    /\ ctl.pc = "index" => files > 0
    /\ ctl.pc \in Working => \A c \in Open : book[c].snap = ctl.snap

(* The journal is locked while it is replaced.                             *)
Locked ==
    ctl.pc = "replace" =>
        /\ lock
        /\ Range(ctl.keep) \subseteq Range(journal)
        /\ \A k \in DOMAIN journal :
              journal[k].ev \in ctl.drop \/ journal[k] \in Range(ctl.keep)

(* An event is journaled before it is taken off the queue.                 *)
Popping == ctl.pc = "pop" => queue # << >> /\ Head(queue) \in told

(* Every incident's opening, and its recovery once it is closed, are told, *)
(* queued or about to be queued, the opening first.                        *)
Somewhere == told \cup Range(queue) \cup Pending
Told ==
    ~torn =>
        /\ \A c \in Open : <<book[c].id, "opened">> \in Somewhere
        /\ \A i \in Past : <<i, "opened">> \in Somewhere /\ <<i, "recovered">> \in Somewhere
        /\ \A i \in Ids : <<i, "recovered">> \in told => <<i, "opened">> \in told
        /\ \A k \in DOMAIN queue, i \in Ids :
              queue[k] = <<i, "recovered">> =>
                \/ <<i, "opened">> \in told
                \/ \E h \in DOMAIN queue : h < k /\ queue[h] = <<i, "opened">>
        /\ \A i \in Ids :
              <<i, "recovered">> \in Pending => <<i, "opened">> \in told \cup Range(queue)

(* Unless a stop came between a start and its note, a launcher is known to  *)
(* a supervisor that is at work or has still to stop, and PID 1 leaves its  *)
(* wait only when told to or when the trap has run.                         *)
Known(e) ==
    \/ pid[e] /\ (e \in leaving \/ (e = era /\ pid1 = "up"))
    \/ e = era /\ pid1 = "up" /\ sup = "forked"
Noted ==
    ~escaped =>
        /\ \A e \in Eras : launch[e] # "gone" => Known(e)
        /\ ctl # Gone => pid1 = "up" \/ leaving # {}
        /\ pid1 = "stopping" => era \in leaving

Kept == Shapes /\ Numbered /\ Evident /\ Locked /\ Popping /\ Told
IInv == Controls /\ Succession /\ Noted /\ Kept

USE SoulAssumption

-----------------------------------------------------------------------------
(* Of two numbers Min returns the smaller.                                 *)
LEMMA MinOfTwo ==
    ASSUME NEW a \in Int, NEW b \in Int
    PROVE  Min({a, b}) = IF a <= b THEN a ELSE b
  <1>1. \E x \in {a, b} : \A y \in {a, b} : x <= y OBVIOUS
  <1> QED BY <1>1 DEF Min

(* SetToSeq lists the members of a finite set.                             *)
LEMMA ListOf ==
    ASSUME NEW S, IsFiniteSet(S)
    PROVE  SetToSeq(S) \in Seq(S) /\ Range(SetToSeq(S)) = S
  <1> DEFINE n == Cardinality(S)  f == SetToSeq(S)
  <1>1. n \in Nat /\ ExistsBijection(1..n, S) BY FS_CardinalityType
  <1>2. PICK g : g \in Bijection(1..n, S) BY <1>1 DEF ExistsBijection
  <1>3. g \in [1..n -> S] /\ IsInjective(g) BY <1>2 DEF Bijection, Injection
  <1>4. f \in [1..n -> S] /\ IsInjective(f) BY <1>3 DEF SetToSeq
  <1>5. f \in Injection(1..n, S) BY <1>4 DEF Injection
  <1>6. IsFiniteSet(1..n) /\ Cardinality(1..n) = n BY <1>1, FS_Interval
  <1>7. f \in Surjection(1..n, S) BY <1>5, <1>6, FS_Injection
  <1>8. Range(f) = S BY <1>4, <1>7 DEF Surjection, Range
  <1> QED BY <1>1, <1>4, <1>8

(* There are finitely many events.                                         *)
LEMMA EvsFinite == IsFiniteSet(Evs)
  <1>1. IsFiniteSet(1..MaxTurns) BY FS_Interval
  <1>2. IsFiniteSet(Ids) BY <1>1, FS_Product DEF Ids
  <1>3. IsFiniteSet({"opened", "updated", "recovered"})
    <2>1. IsFiniteSet({"opened"}) BY FS_Singleton
    <2>2. IsFiniteSet({"opened"} \cup {"updated"}) BY <2>1, FS_AddElement
    <2>3. IsFiniteSet(({"opened"} \cup {"updated"}) \cup {"recovered"}) BY <2>2, FS_AddElement
    <2>4. ({"opened"} \cup {"updated"}) \cup {"recovered"} = {"opened", "updated", "recovered"}
      OBVIOUS
    <2> QED BY <2>3, <2>4
  <1>4. IsFiniteSet(Ids \X {"opened", "updated", "recovered"}) BY <1>2, <1>3, FS_Product
  <1>5. IsFiniteSet({<<None, 0>>} \X {"started", "rollback"})
    <2>1. IsFiniteSet({"started"} \cup {"rollback"}) BY FS_Singleton, FS_AddElement
    <2>2. {"started"} \cup {"rollback"} = {"started", "rollback"} OBVIOUS
    <2>3. IsFiniteSet({<<None, 0>>}) BY FS_Singleton
    <2> QED BY <2>1, <2>2, <2>3, FS_Product
  <1>6. IsFiniteSet({<<<<None, n>>, "audit">> : n \in 1..MaxTurns})
    <2> DEFINE A == ({None} \X (1..MaxTurns)) \X {"audit"}
    <2>1. IsFiniteSet({None}) /\ IsFiniteSet({"audit"}) BY FS_Singleton
    <2>2. IsFiniteSet(A) BY <1>1, <2>1, FS_Product
    <2>3. {<<<<None, n>>, "audit">> : n \in 1..MaxTurns} \in SUBSET A OBVIOUS
    <2> QED BY <2>2, <2>3, FS_Subset
  <1>7. IsFiniteSet((Ids \X {"opened", "updated", "recovered"})
                    \cup ({<<None, 0>>} \X {"started", "rollback"}))
    BY <1>4, <1>5, FS_Union
  <1> QED BY <1>6, <1>7, FS_Union DEF Evs

(* Where the controller is tells its locals.                               *)
LEMMA PlaceOf ==
    ASSUME NEW x \in Places
    PROVE  /\ x.pc = "gone" => x = Gone
           /\ x.pc = "index" => x \in Found
           /\ x.pc = "queue" => x \in Reconciled
           /\ x.pc = "retain" => x \in Retaining
           /\ x.pc = "replace" => x \in Replacing
           /\ x.pc \in {"failure", "mark", "events", "pop"} => x \in Reporting
  BY DEF Places, Gone, Loaded, Cycle, Found, Reconciled, Retaining, Replacing, Reporting

(* The identity of an incident is not that of an audit, of a start or of a *)
(* failed apply, and a check is its own.                                   *)
LEMMA Identities ==
    /\ \A n : <<None, n>> \notin Ids
    /\ None \notin Ids
    /\ \A i \in Ids : \A x : <<i, x>>[1] = i /\ <<i, x>>[2] = x
  BY NoneIsNoCheck DEF Ids

(* What holds initially.                                                   *)
LEMMA InitInv == Init => IInv
  <1> SUFFICES ASSUME Init PROVE IInv OBVIOUS
  <1> USE DEF Init
  <1>1. Controls
    <2>1. escaped \in BOOLEAN OBVIOUS
    <2>2. turns \in 0..MaxTurns OBVIOUS
    <2>3. page # "audit" OBVIOUS
    <2>4. pid \in [Eras -> BOOLEAN] /\ launch \in [Eras -> {"gone", "reap", "up"}] OBVIOUS
    <2> QED BY <2>1, <2>2, <2>3, <2>4 DEF Controls
  <1>2. Succession /\ Noted BY DEF Succession, Noted
  <1>3. Open = {} BY DEF Open, Calm
  <1>4. Range(queue) = {} /\ Lines = {} /\ DOMAIN queue = {} /\ DOMAIN journal = {}
    BY DEF Range, Lines
  <1>5. ctl.pc = "gone" /\ Pending = {} BY DEF Gone, Pending
  <1>6. Shapes
    <2>1. \A c \in Checks : book[c] = Calm OBVIOUS
    <2>2. Calm \in Entries BY DEF Calm, Entries
    <2>3. \A c \in Checks : book[c].fails = Requires[c] <=> book[c].id # None
      BY <2>1 DEF Calm
    <2>4. << >> \in Seq(Evs) /\ << >> \in Seq(Recs) BY EmptySeq
    <2> QED BY <2>2, <2>3, <2>4 DEF Shapes, Places
  <1>7. Numbered
    <2>1. opened \in [Checks -> 0..turns] OBVIOUS
    <2> QED BY <1>3, <1>4, <1>5, <2>1 DEF Numbered, Due
  <1>8. Evident BY <1>3, <1>5 DEF Evident, EvidenceKept, Working
  <1>9. Locked /\ Popping BY <1>5 DEF Locked, Popping
  <1>10. Past = {} BY DEF Past, Ids
  <1>11. Told BY <1>3, <1>4, <1>5, <1>10 DEF Told
  <1> QED BY <1>1, <1>2, <1>6, <1>7, <1>8, <1>9, <1>11 DEF IInv, Kept

-----------------------------------------------------------------------------
(* The levels, the processes and the notes of the supervisors.             *)

(* The controller's steps leave the page, the supervisors and the launchers *)
(* alone, and are taken while it lives.                                    *)
Works == Controller \/ IndexFails \/ AnalysisFails
LEMMA AtWork ==
    IInv /\ Works =>
        /\ UNCHANGED <<pageVars, supVars, launch>> /\ ctl # Gone
        /\ turns' \in turns..MaxTurns
  <1> SUFFICES ASSUME IInv, Works
               PROVE  /\ UNCHANGED <<pageVars, supVars, launch>> /\ ctl # Gone
                      /\ turns' \in turns..MaxTurns
    OBVIOUS
  <1>0. turns \in 0..MaxTurns BY DEF IInv, Controls
  <1> USE DEF ctlRest, ctlFixed
  <1>1. CASE \E serving \in BOOLEAN : Heartbeat(serving)
    <2>1. PICK serving \in BOOLEAN : Heartbeat(serving) BY <1>1
    <2>2. PICK failing \in SUBSET Checks :
            LET found == IF serving THEN failing ELSE failing \ Reach
            IN turns' = turns + Cardinality({c \in found : Opens(c)}) /\ turns' <= MaxTurns
      BY <2>1 DEF Heartbeat
    <2> DEFINE found == IF serving THEN failing ELSE failing \ Reach
               S == {c \in found : Opens(c)}
    <2>3. S \in SUBSET Checks OBVIOUS
    <2>4. Cardinality(S) \in Nat BY <2>3, FS_Subset, FS_CardinalityType
    <2>5. turns' = turns + Cardinality(S) /\ turns' <= MaxTurns BY <2>2
    <2> HIDE DEF S
    <2>6. turns' \in turns..MaxTurns BY <1>0, <2>4, <2>5
    <2> QED BY <2>1, <2>6 DEF Heartbeat, At, Gone
  <1>2. CASE IndexFails \/ AnalysisFails
    <2>1. UNCHANGED <<pageVars, supVars, launch>> BY <1>2 DEF IndexFails, AnalysisFails
    <2>2. Turn /\ ctl.pc \in {"index", "failure", "events"}
      BY <1>2 DEF IndexFails, AnalysisFails, At
    <2> QED BY <1>0, <2>1, <2>2 DEF Turn, Gone
  <1>3. CASE Begin \/ Reconcile \/ Queue \/ Retain \/ Replace
    <2>1. UNCHANGED <<pageVars, supVars, launch, turns>> /\ ctl # Gone
      BY <1>3 DEF Begin, Reconcile, Queue, Retain, Retain_With, Replace, At, Gone
    <2> QED BY <1>0, <2>1
  <1>4. CASE Rollback \/ MarkAnalyzed \/ Report \/ Pop
    <2>1. UNCHANGED <<pageVars, supVars, launch, turns>> /\ ctl # Gone
      BY <1>4 DEF Rollback, MarkAnalyzed, Report, Pop, At, Gone
    <2> QED BY <1>0, <2>1
  <1> QED BY <1>1, <1>2, <1>3, <1>4 DEF Works, Controller

(* What stop_soul of supervisor e leaves: its launcher is gone if it knew   *)
(* it, the others are as they were.                                        *)
LEMMA Stops ==
    ASSUME Controls, NEW e \in Eras, StopSoul(e)
    PROVE  /\ launch' \in [Eras -> {"gone", "reap", "up"}] /\ pid' \in [Eras -> BOOLEAN]
           /\ ctl' = Gone
           /\ launch[e] = "gone" \/ pid[e] => launch'[e] = "gone"
           /\ \A f \in Eras \ {e} : launch'[f] = launch[f] /\ pid'[f] = pid[f]
  BY DEF Controls, StopSoul, UserKilled

(* What the supervisor does with the level it has read.                    *)
LEMMA FollowControls ==
    IInv /\ Follow /\ pid1 = "up" /\ sup # "forked" /\ cache' \in {0, 1}
    /\ UNCHANGED <<pid1Vars, supRest>>
        => Controls' /\ Noted'
  <1> SUFFICES ASSUME IInv, Follow, pid1 = "up", sup # "forked", cache' \in {0, 1},
                      UNCHANGED <<pid1Vars, supRest>>
               PROVE  Controls' /\ Noted'
    OBVIOUS
  <1>0. Controls /\ Succession /\ Noted BY DEF IInv
  <1>1. era \in Eras BY <1>0 DEF Succession, Controls, Eras
  <1> USE DEF supRest, pid1Vars, pageVars
  <1>2. CASE cache' = 0 /\ ~idle /\ StopSoul(era) /\ idle' = TRUE /\ sup' = "tick"
             /\ UNCHANGED due
    <2>1. /\ launch' \in [Eras -> {"gone", "reap", "up"}] /\ pid' \in [Eras -> BOOLEAN]
          /\ ctl' = Gone
          /\ launch[era] = "gone" \/ pid[era] => launch'[era] = "gone"
          /\ \A f \in Eras \ {era} : launch'[f] = launch[f] /\ pid'[f] = pid[f]
      BY <1>0, <1>1, <1>2, Stops
    <2>2. Controls' BY <1>0, <1>2, <2>1 DEF Controls
    <2>3. ASSUME ~escaped, NEW f \in Eras, launch'[f] # "gone" PROVE Known(f)'
      <3>1. CASE f = era
        <4>1. launch[era] # "gone" => pid[era] BY <1>0, <1>1, <2>3 DEF Noted, Known
        <4> QED BY <2>1, <2>3, <3>1, <4>1
      <3>2. CASE f # era BY <1>0, <2>1, <2>3, <3>2 DEF Noted, Known
      <3> QED BY <3>1, <3>2
    <2> QED BY <2>1, <2>2, <2>3 DEF Noted
  <1>3. CASE cache' = 0 /\ idle /\ sup' = "tick" /\ UNCHANGED <<idle, pid, due, procVars>>
    BY <1>0, <1>3 DEF Controls, Noted, Known, procVars
  <1>4. CASE /\ cache' = 1 /\ idle' = FALSE
             /\ sup' = IF ~pid[era] /\ due THEN "start" ELSE "tick"
             /\ pid' = [pid EXCEPT ![era] = @ /\ launch[era] # "gone"]
             /\ due' = (due /\ pid = pid')
             /\ UNCHANGED procVars
    <2>1. sup' \in {"start", "tick"} BY <1>4
    <2>2. launch' = launch /\ ctl' = ctl BY <1>4 DEF procVars
    <2>3. /\ pid' \in [Eras -> BOOLEAN]
          /\ \A f \in Eras : launch[f] # "gone" => pid'[f] = pid[f]
      BY <1>0, <1>4 DEF Controls
    <2>4. Controls' BY <1>0, <1>4, <2>1, <2>2, <2>3 DEF Controls
    <2>5. \A f \in Eras : ~escaped /\ launch[f] # "gone" => Known(f)'
      BY <1>0, <2>3 DEF Noted, Known
    <2> QED BY <1>0, <2>2, <2>4, <2>5 DEF Noted
  <1> QED BY <1>2, <1>3, <1>4 DEF Follow

(* The steps that leave PID 1 alone leave the succession as it was.        *)
LEMMA SuccessionSame ==
    ASSUME Succession, UNCHANGED <<pid1, era, leaving>>, turns \in 0..MaxTurns,
           turns' \in turns..MaxTurns
    PROVE  Succession'
  BY DEF Succession

(* PID 1: each of its supervisors is at work, told to stop, or gone.       *)
LEMMA StandDownControls == IInv /\ StandDown => Controls' /\ Succession' /\ Noted'
  <1> SUFFICES ASSUME IInv, StandDown PROVE Controls' /\ Succession' /\ Noted' OBVIOUS
  <1>0. Controls /\ Succession /\ Noted BY DEF IInv
  <1>1. /\ pid1 = "up" /\ pid1' = "stopping" /\ leaving' = leaving \cup {era}
        /\ escaped' = (escaped \/ sup = "forked")
        /\ sup' = "tick" /\ cache' = None
        /\ UNCHANGED <<era, pid, launch, ctl, level, page>>
    BY DEF StandDown, procVars, pageVars
  <1>2. turns' \in 0..MaxTurns /\ turns' > turns BY <1>0 DEF StandDown, Controls
  <1>3. Controls' BY <1>0, <1>1, <1>2 DEF Controls
  <1>4. Succession' BY <1>0, <1>1, <1>2 DEF Succession, Controls
  <1>5. Noted' BY <1>0, <1>1 DEF Noted, Known, Controls
  <1> QED BY <1>3, <1>4, <1>5

LEMMA TrapControls ==
    ASSUME IInv, NEW e \in Eras, Trap(e)
    PROVE  Controls' /\ Succession' /\ Noted'
  <1>0. Controls /\ Succession /\ Noted BY DEF IInv
  <1>1. /\ e \in leaving /\ leaving' = leaving \ {e}
        /\ pid1' = IF pid1 = "stopping" /\ e = era THEN "stood" ELSE pid1
        /\ UNCHANGED <<era, sup, cache, escaped, level, page, turns>>
    BY DEF Trap, supRest, pageVars
  <1>2. /\ launch' \in [Eras -> {"gone", "reap", "up"}] /\ pid' \in [Eras -> BOOLEAN]
        /\ ctl' = Gone
        /\ launch[e] = "gone" \/ pid[e] => launch'[e] = "gone"
        /\ \A f \in Eras \ {e} : launch'[f] = launch[f] /\ pid'[f] = pid[f]
    BY <1>0, Stops DEF Trap
  <1>3. Controls' BY <1>0, <1>1, <1>2 DEF Controls
  <1>4. Succession' BY <1>0, <1>1 DEF Succession
  <1>5. ASSUME ~escaped, NEW f \in Eras, launch'[f] # "gone" PROVE Known(f)'
    <2>1. CASE f = e
      <3>1. launch[e] # "gone" => pid[e]
        BY <1>0, <1>1, <1>5 DEF Noted, Known, Succession
      <3> QED BY <1>2, <1>5, <2>1, <3>1
    <2>2. CASE f # e
      <3>1. Known(f) /\ pid'[f] = pid[f] BY <1>0, <1>2, <1>5, <2>2 DEF Noted
      <3>2. f \in leaving => f \in leaving' BY <1>1, <2>2
      <3>3. pid1 = "up" => pid1' = "up" BY <1>1
      <3> QED BY <1>1, <3>1, <3>2, <3>3 DEF Known
    <2> QED BY <2>1, <2>2
  <1>6. ~escaped /\ pid1' = "stopping" => era \in leaving' BY <1>0, <1>1 DEF Noted
  <1> QED BY <1>1, <1>2, <1>3, <1>4, <1>5, <1>6 DEF Noted

LEMMA ResumeControls == IInv /\ Resume => Controls' /\ Succession' /\ Noted'
  <1> SUFFICES ASSUME IInv, Resume PROVE Controls' /\ Succession' /\ Noted' OBVIOUS
  <1>0. Controls /\ Succession /\ Noted BY DEF IInv
  <1>1. /\ pid1 = "stood" /\ pid1' = "up" /\ era' = era + 1
        /\ UNCHANGED <<leaving, sup, cache, pid, escaped, launch, ctl, level, page, turns>>
    BY DEF Resume, procVars, supRest, pageVars
  <1>2. Controls' BY <1>0, <1>1 DEF Controls
  <1>3. Succession' BY <1>0, <1>1 DEF Succession, Controls
  <1>4. Noted' BY <1>0, <1>1 DEF Noted, Known
  <1> QED BY <1>2, <1>3, <1>4

(* SIGUSR1 may end the wait: the supervisor has still to stop then.        *)
LEMMA SignalControls == IInv /\ Signal => Controls' /\ Succession' /\ Noted'
  <1> SUFFICES ASSUME IInv, Signal PROVE Controls' /\ Succession' /\ Noted' OBVIOUS
  <1>0. Controls /\ Succession /\ Noted BY DEF IInv
  <1>1. /\ pid1' = pid1 \/ (pid1 = "stopping" /\ pid1' = "stood")
        /\ page' = "idle"
        /\ UNCHANGED <<level, era, leaving, sup, cache, pid, escaped, launch, ctl, turns>>
    BY DEF Signal, procVars
  <1>2. Controls' BY <1>0, <1>1 DEF Controls
  <1>3. Succession' BY <1>0, <1>1 DEF Succession
  <1>4. Noted' BY <1>0, <1>1 DEF Noted, Known
  <1> QED BY <1>2, <1>3, <1>4

(* No step forgets a launcher that is running.                             *)
LEMMA StepControls == IInv /\ Next => Controls' /\ Succession' /\ Noted'
  <1> SUFFICES ASSUME IInv, Next PROVE Controls' /\ Succession' /\ Noted' OBVIOUS
  <1>0. Controls /\ Succession /\ Noted BY DEF IInv
  <1>a. turns \in 0..MaxTurns /\ era \in Eras BY <1>0 DEF Controls, Succession, Eras
  <1> USE DEF pageVars, supVars, pid1Vars, procVars
  <1>1. CASE WriteOverride \/ Touch \/ PageDies
    <2>1. UNCHANGED <<supVars, procVars>> BY <1>1 DEF WriteOverride, Touch, PageDies
    <2>2. level' \in {0, 1} /\ page' \in {"idle", "audit", "touch", "signal"}
      BY <1>0, <1>1 DEF WriteOverride, Touch, PageDies, Controls
    <2>3. turns' \in turns..MaxTurns /\ (page' = "audit" => turns' > 0)
      BY <1>a, <1>1 DEF WriteOverride, Touch, PageDies, Turn
    <2> QED BY <1>0, <1>a, <2>1, <2>2, <2>3, SuccessionSame DEF Controls, Noted, Known
  <1>2. CASE Audit
    BY <1>0, <1>a, <1>2, SuccessionSame DEF Audit, Controls, Noted, Known
  <1>3. CASE Consume \/ DelayPasses
    <2>1. /\ UNCHANGED <<pageVars, pid1Vars, pid, cache, procVars, turns>>
          /\ sup' \in {sup, "read"} /\ (sup = "forked" => sup' = sup)
      BY <1>3 DEF Consume, DelayPasses, Supervises, supRest
    <2> QED BY <1>0, <1>a, <2>1, SuccessionSame DEF Controls, Noted, Known
  <1>4. CASE ReadLevel \/ KeepCache
    <2>1. cache' \in {0, 1} BY <1>0, <1>4 DEF ReadLevel, KeepCache, Controls
    <2>2. /\ Follow /\ pid1 = "up" /\ sup # "forked"
          /\ UNCHANGED <<pid1Vars, supRest>>
      BY <1>4 DEF ReadLevel, KeepCache, Supervises
    <2>3. turns' \in turns..MaxTurns BY <1>a, <2>2 DEF supRest
    <2> QED BY <1>0, <1>a, <2>1, <2>2, <2>3, FollowControls, SuccessionSame
  <1>5. CASE StartSoul
    <2>1. /\ pid1 = "up" /\ sup = "start" /\ sup' \in {"tick", "forked"}
          /\ UNCHANGED <<pageVars, pid1Vars, cache, pid, ctl, turns>>
          /\ \/ launch' = launch
             \/ sup' = "forked" /\ launch' = [launch EXCEPT ![era] = "reap"]
      BY <1>5 DEF StartSoul, Supervises, supRest
    <2>2. launch' \in [Eras -> {"gone", "reap", "up"}] BY <1>0, <2>1 DEF Controls
    <2>3. Controls' BY <1>0, <2>1, <2>2 DEF Controls
    <2>4. ASSUME ~escaped, NEW f \in Eras, launch'[f] # "gone" PROVE Known(f)'
      <3>1. CASE launch'[f] = launch[f] BY <1>0, <2>1, <2>4, <3>1 DEF Noted, Known
      <3>2. CASE launch'[f] # launch[f]
        <4>1. f = era /\ sup' = "forked" BY <1>0, <2>1, <3>2 DEF Controls
        <4> QED BY <2>1, <4>1 DEF Known
      <3> QED BY <3>1, <3>2
    <2>5. Noted' BY <1>0, <2>1, <2>4 DEF Noted
    <2> QED BY <1>0, <1>a, <2>1, <2>3, <2>5, SuccessionSame
  <1>6. CASE NotePid
    <2>1. /\ pid1 = "up" /\ sup' = "tick" /\ pid' = [pid EXCEPT ![era] = TRUE]
          /\ UNCHANGED <<pageVars, pid1Vars, cache, procVars, turns>>
      BY <1>6 DEF NotePid, Supervises, supRest
    <2>2. /\ pid' \in [Eras -> BOOLEAN] /\ pid'[era]
          /\ \A f \in Eras : pid[f] => pid'[f]
      BY <1>0, <1>a, <2>1 DEF Controls
    <2>3. Controls' BY <1>0, <2>1, <2>2 DEF Controls
    <2>4. \A f \in Eras : Known(f) => Known(f)' BY <2>1, <2>2 DEF Known
    <2>5. Noted' BY <1>0, <2>1, <2>4 DEF Noted
    <2> QED BY <1>0, <1>a, <2>1, <2>3, <2>5, SuccessionSame
  <1>7. CASE StandDown BY <1>7, StandDownControls
  <1>8. CASE \E e \in Eras : Trap(e) BY <1>8, TrapControls
  <1>9. CASE Resume BY <1>9, ResumeControls
  <1>10. CASE \E e \in Eras : Launcher(e) \/ LauncherDies(e)
    <2>1. PICK e \in Eras : Launcher(e) \/ LauncherDies(e) BY <1>10
    <2>2. /\ launch[e] # "gone" /\ launch' \in [Eras -> {"gone", "reap", "up"}]
          /\ \A f \in Eras : launch'[f] # "gone" => launch[f] # "gone"
      BY <1>0, <2>1 DEF Launcher, Launch, LauncherEnds, LauncherDies, Controls
    <2>3. turns' \in turns..MaxTurns
      BY <1>a, <2>1 DEF Launcher, Launch, LauncherEnds, LauncherDies, Turn
    <2>4. UNCHANGED <<pageVars, supVars>>
      BY <2>1 DEF Launcher, Launch, LauncherEnds, LauncherDies
    <2>5. Controls' BY <1>0, <1>a, <2>2, <2>3, <2>4 DEF Controls
    <2>6. ~escaped => pid1 = "up" \/ leaving # {} BY <1>0, <2>2 DEF Noted, Known
    <2>7. Noted' BY <1>0, <2>2, <2>4, <2>6 DEF Noted, Known
    <2> QED BY <1>0, <1>a, <2>3, <2>4, <2>5, <2>7, SuccessionSame
  <1>11. CASE Crash
    BY <1>0, <1>a, <1>11, SuccessionSame DEF Crash, UserKilled, Controls, Noted, Known, Turn
  <1>12. CASE ApplyFails
    BY <1>0, <1>a, <1>12, SuccessionSame DEF ApplyFails, Controls, Noted, Known, Turn
  <1>13. CASE Works
    <2>1. /\ UNCHANGED <<pageVars, supVars, launch>> /\ ctl # Gone
          /\ turns' \in turns..MaxTurns
      BY <1>13, AtWork
    <2> QED BY <1>0, <1>a, <2>1, SuccessionSame DEF Controls, Noted, Known
  <1>14. CASE Signal BY <1>14, SignalControls
  <1> QED BY <1>1, <1>2, <1>3, <1>4, <1>5, <1>6, <1>7, <1>8, <1>9, <1>10, <1>11, <1>12, <1>13,
             <1>14
          DEF Next, Page, Supervisor, Works

-----------------------------------------------------------------------------
(* What a step keeps by leaving it alone.                                  *)

SameIds == \A c \in Checks : book'[c].id = book[c].id

(* The numbering of the incidents, by a step that opens none.              *)
LEMMA NumberedSame ==
    ASSUME Controls, Numbered, turns' \in turns..MaxTurns, UNCHANGED <<opened, queue>>,
           SameIds, Pending' \subseteq Pending, \A c \in Checks : Due(c)' => Due(c),
           \A e \in Lines' \ Lines : Issued(e)
    PROVE  Numbered'
  <1>1. Open' = Open BY DEF SameIds, Open
  <1>2. opened' \in [Checks -> 0..turns']
    <2>1. opened \in [Checks -> 0..turns] /\ turns \in Nat BY DEF Numbered, Controls
    <2>2. 0..turns \subseteq 0..turns' BY <2>1
    <2> QED BY <2>1, <2>2
  <1>3. \A c \in Checks : Due(c)' => opened'[c] < turns'
    <2> SUFFICES ASSUME NEW c \in Checks, Due(c)' PROVE opened'[c] < turns' OBVIOUS
    <2>1. opened[c] < turns /\ opened[c] \in Nat BY DEF Numbered
    <2>2. turns \in Nat BY DEF Controls
    <2> QED BY <2>1, <2>2
  <1>4. \A c \in Open' : book'[c].id = <<c, opened'[c]>>
    BY <1>1 DEF Numbered, SameIds, Open
  <1>5. \A e : Issued(e)' <=> Issued(e) BY DEF Issued, Ids
  <1>6. \A e \in (Range(queue) \cup Pending \cup Lines)' : Issued(e)
    BY DEF Numbered
  <1> QED BY <1>2, <1>3, <1>4, <1>5, <1>6 DEF Numbered

(* What was told, by a step that neither opens nor tells anything.         *)
LEMMA ToldSame ==
    ASSUME Told, UNCHANGED <<opened, queue, told>>, SameIds, ~torn' => ~torn,
           ~torn' => Pending' = Pending
    PROVE  Told'
  <1> SUFFICES ASSUME ~torn' PROVE Told' BY DEF Told
  <1>1. Open' = Open BY DEF SameIds, Open
  <1>2. Past' = Past
    <2>1. {book'[c].id : c \in Open} = {book[c].id : c \in Open} BY DEF SameIds, Open
    <2> QED BY <1>1, <2>1 DEF Past, Ids
  <1>3. Somewhere' = Somewhere BY DEF Somewhere
  <1>4. \A c \in Open : book'[c].id = book[c].id BY DEF SameIds, Open
  <1> QED BY <1>1, <1>2, <1>3, <1>4 DEF Told

(* The data, by a step of somebody else.                                   *)
DataSame == UNCHANGED <<ctl, lock, torn, book, queue, journal, files, opened, told>>
LEMMA KeptSame ==
    ASSUME IInv, DataSame, turns' \in turns..MaxTurns
    PROVE  Kept'
  <1> USE DEF DataSame
  <1>1. SameIds /\ Pending' = Pending /\ Lines' = Lines BY DEF SameIds, Pending, Lines
  <1>2. \A c \in Checks : Due(c)' => Due(c) BY DEF Due, Opens
  <1>3. Numbered' BY <1>1, <1>2, NumberedSame DEF IInv, Kept
  <1>4. Told' BY <1>1, ToldSame DEF IInv, Kept
  <1>5. Shapes'
    <2>1. Entries' = Entries /\ Places' = Places
      BY DEF Entries, Ids, Places, Found, Reconciled, Retaining, Replacing, Reporting, Evs, Recs
    <2>2. Seq(Recs)' = Seq(Recs) BY DEF Recs
    <2> QED BY <2>1, <2>2 DEF IInv, Kept, Shapes
  <1>6. Open' = Open BY DEF Open
  <1>7. Evident' BY <1>6 DEF IInv, Kept, Evident, EvidenceKept
  <1>8. Locked' /\ Popping' BY DEF IInv, Kept, Locked, Popping
  <1> QED BY <1>3, <1>4, <1>5, <1>7, <1>8 DEF Kept

(* The data, when the controller dies or a new one starts from the disk.   *)
Dies ==
    /\ ctl' \in {Gone, Loaded} /\ lock' = FALSE /\ torn' = Torn
    /\ UNCHANGED <<book, queue, journal, files, opened, told>>
LEMMA KeptDies ==
    ASSUME IInv, Dies, turns' \in turns..MaxTurns
    PROVE  Kept'
  <1> USE DEF Dies
  <1>1. ctl'.pc \in {"gone", "begin"} BY DEF Gone, Loaded
  <1>2. SameIds /\ Pending' = {} /\ Lines' = Lines BY <1>1 DEF SameIds, Pending, Lines
  <1>3. \A c \in Checks : ~Due(c)' BY <1>1 DEF Due
  <1>4. Numbered' BY <1>2, <1>3, NumberedSame DEF IInv, Kept
  <1>5. ~torn' => ~torn /\ Pending = {} BY DEF Torn, Pending
  <1>6. Told' BY <1>2, <1>5, ToldSame DEF IInv, Kept
  <1>7. Shapes'
    <2>1. torn' \in BOOLEAN BY DEF Torn, IInv, Kept, Shapes
    <2>2. Entries' = Entries BY DEF Entries, Ids
    <2>3. Seq(Recs)' = Seq(Recs) BY DEF Recs
    <2>4. ctl' \in Places' BY DEF Places, Gone, Loaded, Cycle
    <2> QED BY <2>1, <2>2, <2>3, <2>4 DEF IInv, Kept, Shapes
  <1>8. Open' = Open BY DEF Open
  <1>9. Evident' BY <1>1, <1>8 DEF IInv, Kept, Evident, EvidenceKept, Working
  <1>10. Locked' /\ Popping' BY <1>1 DEF Locked, Popping
  <1> QED BY <1>4, <1>6, <1>7, <1>9, <1>10 DEF Kept

(* The steps of the others.                                                *)
Others ==
    \/ WriteOverride \/ Touch \/ Signal \/ PageDies
    \/ Consume \/ Supervisor \/ DelayPasses \/ StandDown \/ Resume
    \/ (\E e \in Eras : Trap(e) \/ Launcher(e) \/ LauncherDies(e))
    \/ Crash \/ ApplyFails
LEMMA OthersApart == Controls /\ Others => (DataSame \/ Dies) /\ turns' \in turns..MaxTurns
  <1> SUFFICES ASSUME Controls, Others PROVE (DataSame \/ Dies) /\ turns' \in turns..MaxTurns
    OBVIOUS
  <1>0. turns \in 0..MaxTurns BY DEF Controls
  <1> USE DEF procVars, diskVars, supRest, UserKilled
  <1>1. CASE WriteOverride \/ Touch \/ Signal \/ PageDies \/ ApplyFails
    <2>1. DataSame BY <1>1 DEF WriteOverride, Touch, Signal, PageDies, ApplyFails, DataSame
    <2>2. turns' \in turns..MaxTurns
      BY <1>0, <1>1 DEF WriteOverride, Touch, Signal, PageDies, ApplyFails, Turn
    <2> QED BY <2>1, <2>2
  <1>2. CASE Consume \/ DelayPasses \/ Resume \/ StartSoul \/ NotePid
    <2>1. DataSame /\ turns' = turns
      BY <1>2 DEF Consume, DelayPasses, Resume, StartSoul, NotePid, DataSame
    <2> QED BY <1>0, <2>1
  <1>3. CASE ReadLevel \/ KeepCache
    <2>1. Follow /\ UNCHANGED supRest BY <1>3 DEF ReadLevel, KeepCache
    <2>2. StopSoul(era) \/ UNCHANGED procVars BY <2>1 DEF Follow
    <2> QED BY <1>0, <2>1, <2>2 DEF StopSoul, Dies, DataSame
  <1>4. CASE StandDown
    <2>1. DataSame BY <1>4 DEF StandDown, DataSame
    <2>2. turns' \in turns..MaxTurns BY <1>0, <1>4 DEF StandDown
    <2> QED BY <2>1, <2>2
  <1>5. ASSUME NEW e \in Eras, Trap(e) \/ Launcher(e) \/ LauncherDies(e)
        PROVE  (DataSame \/ Dies) /\ turns' \in turns..MaxTurns
    <2>1. CASE Trap(e) BY <1>0, <2>1 DEF Trap, StopSoul, Dies
    <2>2. CASE Launch(e) BY <1>0, <2>2 DEF Launch, Dies, Loaded
    <2>3. CASE LauncherEnds(e) BY <1>0, <2>3 DEF LauncherEnds, Dies
    <2>4. CASE LauncherDies(e)
      <3>1. DataSame BY <2>4 DEF LauncherDies, DataSame
      <3>2. turns' \in turns..MaxTurns BY <1>0, <2>4 DEF LauncherDies, Turn
      <3> QED BY <3>1, <3>2
    <2> QED BY <1>5, <2>1, <2>2, <2>3, <2>4 DEF Launcher
  <1>6. CASE Crash
    <2>1. Dies BY <1>6 DEF Crash, Dies
    <2>2. turns' \in turns..MaxTurns BY <1>0, <1>6 DEF Crash, Turn
    <2> QED BY <2>1, <2>2
  <1> QED BY <1>1, <1>2, <1>3, <1>4, <1>5, <1>6 DEF Others, Supervisor

-----------------------------------------------------------------------------
(* Records of the journal.                                                 *)

(* While the snapshots stay, so do the places of the controller.           *)
LEMMA PlacesSame ==
    ASSUME files' = files
    PROVE  Entries' = Entries /\ Places' = Places /\ Seq(Recs)' = Seq(Recs) /\ Recs' = Recs
  <1>1. Entries' = Entries /\ Recs' = Recs BY DEF Entries, Recs, Ids, Evs
  <1>2. Seq(Recs)' = Seq(Recs) BY DEF Recs
  <1> QED BY <1>1, <1>2 DEF Places, Found, Reconciled, Retaining, Replacing, Reporting, Evs, Ids

(* A record is added at the end of the journal.                            *)
LEMMA JournalAdds ==
    ASSUME Shapes, NEW ev \in Evs, NEW snap \in 0..files, Journal(ev, snap)
    PROVE  /\ journal' \in Seq(Recs) /\ Lines' = Lines \cup {ev}
           /\ \A i \in DOMAIN journal' :
                 \/ i \in DOMAIN journal /\ journal'[i] = journal[i]
                 \/ journal'[i].ev = ev /\ journal'[i].snap = snap
  <1> DEFINE r == [ev |-> ev, snap |-> snap]
  <1>1. journal \in Seq(Recs) /\ r \in Recs BY DEF Shapes, Recs
  <1>2. journal' = Append(journal, r) BY DEF Journal
  <1>3. r.ev = ev /\ r.snap = snap OBVIOUS
  <1> HIDE DEF r
  <1>4. /\ journal' \in Seq(Recs) /\ Len(journal') = Len(journal) + 1
        /\ \A i \in 1..Len(journal) : journal'[i] = journal[i]
        /\ journal'[Len(journal) + 1] = r
    BY <1>1, <1>2, AppendProperties
  <1>5. Len(journal) \in Nat /\ DOMAIN journal = 1..Len(journal) BY <1>1, LenProperties
  <1>6. DOMAIN journal' = 1..(Len(journal) + 1) BY <1>4, LenProperties
  <1>7. \A i \in DOMAIN journal' :
           (i \in DOMAIN journal /\ journal'[i] = journal[i]) \/ i = Len(journal) + 1
    BY <1>4, <1>5, <1>6
  <1>8. Lines \subseteq Lines' BY <1>4, <1>5, <1>6 DEF Lines
  <1>9. Lines' \subseteq Lines \cup {ev} BY <1>3, <1>4, <1>7 DEF Lines
  <1>10. ev \in Lines' BY <1>3, <1>4, <1>5, <1>6 DEF Lines
  <1> QED BY <1>3, <1>4, <1>7, <1>8, <1>9, <1>10

(* It refers to evidence that is kept.                                     *)
Refers(ev, snap) == \A c \in Open : ev[1] = book[c].id => snap # 0
LEMMA EvidenceAdds ==
    ASSUME Shapes, NEW ev \in Evs, NEW snap \in 0..files, Journal(ev, snap), Refers(ev, snap),
           EvidenceKept, UNCHANGED <<book, files>>
    PROVE  EvidenceKept'
  <1>1. Open' = Open BY DEF Open
  <1>2. \A i \in DOMAIN journal' :
                 \/ i \in DOMAIN journal /\ journal'[i] = journal[i]
                 \/ journal'[i].ev = ev /\ journal'[i].snap = snap
    BY JournalAdds
  <1>3. ASSUME NEW c \in Open, NEW i \in DOMAIN journal', journal'[i].ev[1] = book[c].id
        PROVE  journal'[i].snap # 0
    BY <1>2, <1>3 DEF EvidenceKept, Refers
  <1>4. \A c \in Open : book[c].snap # 0 BY DEF EvidenceKept
  <1> QED BY <1>1, <1>3, <1>4 DEF EvidenceKept

(* The events that are no incident's.                                      *)
Plain(ev) == ev \in Evs /\ ev[1] \notin Ids
LEMMA PlainEvents ==
    ASSUME Controls
    PROVE  /\ page = "audit" => Plain(<<<<None, turns>>, "audit">>)
           /\ Plain(<<<<None, 0>>, "started">>) /\ Plain(<<<<None, 0>>, "rollback">>)
  <1>1. page = "audit" => turns \in 1..MaxTurns BY DEF Controls
  <1>2. page = "audit" => <<<<None, turns>>, "audit">> \in Evs BY <1>1 DEF Evs
  <1>3. <<<<None, 0>>, "started">> \in Evs /\ <<<<None, 0>>, "rollback">> \in Evs BY DEF Evs
  <1> QED BY <1>2, <1>3, Identities DEF Plain

(* A step that changes the journal by such an event at most, and moves the *)
(* controller within its cycle or to the start of the next.                *)
Moves ==
    \/ ctl' = ctl
    \/ ctl.pc # "queue" /\ ctl' = Cycle
    \/ /\ ctl.pc \in {"failure", "mark", "events"}
       /\ ctl' \in Reporting /\ ctl'.pc \in {"mark", "events"} /\ ctl'.snap = ctl.snap
LEMMA KeptMoves ==
    ASSUME IInv, UNCHANGED <<lock, torn, book, queue, files, opened, told>>,
           turns' \in turns..MaxTurns, Moves,
           journal' = journal \/ \E ev : Plain(ev) /\ Journal(ev, 0)
    PROVE  Kept'
  <1>0. Controls /\ Shapes /\ Numbered /\ Evident /\ Locked /\ Popping /\ Told BY DEF IInv, Kept
  <1>1. Pending' = Pending
    BY DEF Moves, Pending, Cycle, Reporting
  <1>2. /\ journal' \in Seq(Recs)
        /\ \A e \in Lines' \ Lines : Issued(e)
        /\ EvidenceKept'
    <2>1. CASE journal' = journal
      <3>1. Lines' = Lines /\ Open' = Open BY <2>1 DEF Lines, Open
      <3> QED BY <1>0, <2>1, <3>1 DEF Shapes, Evident, EvidenceKept
    <2>2. CASE \E ev : Plain(ev) /\ Journal(ev, 0)
      <3>1. PICK ev : Plain(ev) /\ Journal(ev, 0) BY <2>2
      <3>2. ev \in Evs /\ 0 \in 0..files BY <1>0, <3>1 DEF Plain, Shapes
      <3>3. Refers(ev, 0)
        <4> SUFFICES ASSUME NEW c \in Open PROVE ev[1] # book[c].id BY DEF Refers
        <4>1. book[c].id \in Ids BY <1>0 DEF Open, Shapes, Entries
        <4> QED BY <3>1, <4>1 DEF Plain
      <3>4. Issued(ev) BY <3>1 DEF Plain, Issued
      <3>5. journal' \in Seq(Recs) /\ Lines' = Lines \cup {ev} BY <1>0, <3>1, <3>2, JournalAdds
      <3>6. EvidenceKept' BY <1>0, <3>1, <3>2, <3>3, EvidenceAdds DEF Evident
      <3> QED BY <3>4, <3>5, <3>6
    <2> QED BY <2>1, <2>2
  <1>3. SameIds BY DEF SameIds
  <1>4. \A c \in Checks : Due(c)' => Due(c) BY DEF Due, Opens, Moves, Cycle, Reporting
  <1>5. Numbered' BY <1>0, <1>1, <1>2, <1>3, <1>4, NumberedSame
  <1>6. Told' BY <1>0, <1>1, <1>3, ToldSame
  <1>7. Shapes'
    <2>1. ctl' \in Places BY <1>0 DEF Moves, Shapes, Places
    <2> QED BY <1>0, <1>2, <2>1, PlacesSame DEF Shapes
  <1>8. Evident'
    <2>1. Open' = Open BY DEF Open
    <2>2. CASE ctl' = ctl BY <1>0, <1>2, <2>1, <2>2 DEF Evident
    <2>3. CASE ctl' = Cycle
      <3>1. ctl'.pc = "cycle" BY <2>3 DEF Cycle
      <3> QED BY <1>2, <3>1 DEF Evident, Working
    <2>4. CASE /\ ctl.pc \in {"failure", "mark", "events"}
               /\ ctl'.pc \in {"mark", "events"} /\ ctl'.snap = ctl.snap
      BY <1>0, <1>2, <2>1, <2>4 DEF Evident, Working
    <2> QED BY <2>2, <2>3, <2>4 DEF Moves
  <1>9. Locked'
    <2>1. CASE ctl' = ctl
      <3>1. journal' # journal => ~lock BY DEF Journal
      <3> QED BY <1>0, <2>1, <3>1 DEF Locked
    <2>2. CASE ctl' # ctl
      <3>1. ctl'.pc # "replace" BY <2>2 DEF Moves, Cycle
      <3> QED BY <3>1 DEF Locked
    <2> QED BY <2>1, <2>2
  <1>10. Popping'
    <2>1. ctl' = ctl \/ ctl'.pc # "pop" BY DEF Moves, Cycle
    <2> QED BY <1>0, <2>1 DEF Popping
  <1> QED BY <1>5, <1>6, <1>7, <1>8, <1>9, <1>10 DEF Kept

(* The controller within its cycle: `ctl EXCEPT !.pc'.                      *)
LEMMA Turned ==
    ASSUME Shapes, ctl.pc \in {"failure", "mark", "events", "pop"},
           NEW pc \in {"failure", "mark", "events", "pop"}
    PROVE  LET x == [ctl EXCEPT !.pc = pc]
           IN x \in Reporting /\ x.pc = pc /\ x.snap = ctl.snap
  <1>1. ctl \in Reporting BY PlaceOf DEF Shapes
  <1> QED BY <1>1 DEF Reporting

(* The page's audit and the controller's own records.                      *)
LEMMA KeptAudit == IInv /\ Audit => Kept'
  <1> SUFFICES ASSUME IInv, Audit PROVE Kept' OBVIOUS
  <1>1. Plain(<<<<None, turns>>, "audit">>) BY PlainEvents DEF Audit, IInv
  <1>2. Journal(<<<<None, turns>>, "audit">>, 0) BY DEF Audit
  <1>3. UNCHANGED <<ctl, lock, torn, book, queue, files, opened, told, turns>>
    BY DEF Audit, procVars
  <1>4. turns' \in turns..MaxTurns BY <1>3 DEF IInv, Controls
  <1>5. Moves BY <1>3 DEF Moves
  <1> QED BY <1>1, <1>2, <1>3, <1>4, <1>5, KeptMoves

LEMMA KeptBegin == IInv /\ Begin => Kept'
  <1> SUFFICES ASSUME IInv, Begin PROVE Kept' OBVIOUS
  <1>1. Plain(<<<<None, 0>>, "started">>) BY PlainEvents DEF IInv
  <1>2. Journal(<<<<None, 0>>, "started">>, 0) BY DEF Begin
  <1>3. UNCHANGED <<lock, torn, book, queue, files, opened, told, turns>>
    BY DEF Begin, ctlRest
  <1>4. turns' \in turns..MaxTurns BY <1>3 DEF IInv, Controls
  <1>5. Moves BY DEF Moves, Begin, At
  <1> QED BY <1>1, <1>2, <1>3, <1>4, <1>5, KeptMoves

LEMMA KeptRollback == IInv /\ Rollback => Kept'
  <1> SUFFICES ASSUME IInv, Rollback PROVE Kept' OBVIOUS
  <1>1. Plain(<<<<None, 0>>, "rollback">>) BY PlainEvents DEF IInv
  <1>2. journal' = journal \/ Journal(<<<<None, 0>>, "rollback">>, 0) BY DEF Rollback
  <1>3. UNCHANGED <<lock, torn, book, queue, files, opened, told, turns>>
    BY DEF Rollback, ctlRest
  <1>4. turns' \in turns..MaxTurns BY <1>3 DEF IInv, Controls
  <1>5. Moves
    <2>1. ctl.pc = "failure" BY DEF Rollback, At
    <2>2. PICK pc \in {"events", "mark"} : ctl' = [ctl EXCEPT !.pc = pc] BY DEF Rollback
    <2>3. ctl' \in Reporting /\ ctl'.pc = pc /\ ctl'.snap = ctl.snap
      BY <2>1, <2>2, Turned DEF IInv, Kept
    <2> QED BY <2>1, <2>3 DEF Moves
  <1> QED BY <1>1, <1>2, <1>3, <1>4, <1>5, KeptMoves

LEMMA KeptMark == IInv /\ MarkAnalyzed => Kept'
  <1> SUFFICES ASSUME IInv, MarkAnalyzed PROVE Kept' OBVIOUS
  <1>1. UNCHANGED <<lock, torn, book, queue, journal, files, opened, told, turns>>
    BY DEF MarkAnalyzed, ctlRest
  <1>2. turns' \in turns..MaxTurns BY <1>1 DEF IInv, Controls
  <1>3. Moves
    <2>1. ctl.pc = "mark" /\ ctl' = [ctl EXCEPT !.pc = "events"] BY DEF MarkAnalyzed, At
    <2>2. ctl' \in Reporting /\ ctl'.pc = "events" /\ ctl'.snap = ctl.snap
      BY <2>1, Turned DEF IInv, Kept
    <2> QED BY <2>1, <2>2 DEF Moves
  <1> QED BY <1>1, <1>2, <1>3, KeptMoves

LEMMA KeptFails == IInv /\ AnalysisFails => Kept'
  <1> SUFFICES ASSUME IInv, AnalysisFails PROVE Kept' OBVIOUS
  <1>1. UNCHANGED <<lock, torn, book, queue, journal, files, opened, told>>
    BY DEF AnalysisFails, ctlRest, diskVars
  <1>2. turns' \in turns..MaxTurns BY DEF AnalysisFails, Turn, IInv, Controls
  <1>3. Moves BY DEF AnalysisFails, Moves, At
  <1> QED BY <1>1, <1>2, <1>3, KeptMoves

(* A heartbeat: every incident it is about to open has its turn.           *)
LEMMA KeptHeartbeat ==
    ASSUME IInv, NEW serving \in BOOLEAN, Heartbeat(serving)
    PROVE  Kept'
  <1>0. Controls /\ Shapes /\ Numbered /\ Evident /\ Locked /\ Popping /\ Told BY DEF IInv, Kept
  <1>1. PICK failing \in SUBSET Checks :
            LET found == IF serving THEN failing ELSE failing \ Reach
            IN /\ turns' = turns + Cardinality({c \in found : Opens(c)})
               /\ turns' <= MaxTurns
               /\ files' = files + 1
               /\ ctl' = [pc |-> "index", serving |-> serving, found |-> found, snap |-> files']
    BY DEF Heartbeat
  <1> DEFINE found == IF serving THEN failing ELSE failing \ Reach
             S == {c \in found : Opens(c)}
  <1>2. found \in SUBSET Checks OBVIOUS
  <1>3. S \in SUBSET Checks /\ S \subseteq found /\ \A c \in found : Opens(c) => c \in S
    BY <1>2
  <1>4. turns' = turns + Cardinality(S) /\ files' = files + 1 BY <1>1
  <1>5. ctl' = [pc |-> "index", serving |-> serving, found |-> found, snap |-> files'] BY <1>1
  <1> HIDE DEF found, S
  <1>6. ctl' \in Found' /\ ctl'.pc = "index" /\ ctl'.found = found
    BY <1>2, <1>5 DEF Found
  <1>7. UNCHANGED <<lock, torn, book, queue, journal, opened, told>> /\ ctl.pc = "cycle"
    BY DEF Heartbeat, ctlRest, At
  <1>8. Cardinality(S) \in Nat /\ (S # {} => Cardinality(S) > 0)
    <2>1. IsFiniteSet(S) BY <1>3, FS_Subset
    <2>2. Cardinality(S) \in Nat BY <2>1, FS_CardinalityType
    <2>3. Cardinality(S) = 0 <=> S = {} BY <2>1, FS_EmptySet
    <2> QED BY <2>2, <2>3
  <1>9. Shapes'
    <2>1. files \in Nat BY <1>0 DEF Shapes
    <2>2. files' \in Nat /\ 0..files \subseteq 0..files' BY <1>4, <2>1
    <2>3. Entries \subseteq Entries'
      BY <2>2 DEF Entries, Ids
    <2>4. book' \in [Checks -> Entries'] BY <1>0, <1>7, <2>3 DEF Shapes
    <2>5. Recs \subseteq Recs' BY <2>2 DEF Recs, Evs, Ids
    <2>6. journal \in Seq(Recs) BY <1>0 DEF Shapes
    <2>7. journal \in Seq(Recs') BY <2>5, <2>6, SeqMonotonic
    <2>8. ctl' \in Places' BY <1>6 DEF Places
    <2>9. queue' \in Seq(Evs') BY <1>0, <1>7 DEF Shapes, Evs, Ids
    <2> QED BY <1>0, <1>7, <2>2, <2>4, <2>7, <2>8, <2>9 DEF Shapes
  <1>10. Pending = {} /\ Pending' = {} BY <1>6, <1>7 DEF Pending
  <1>11. Open' = Open /\ Lines' = Lines /\ SameIds BY <1>7 DEF Open, Lines, SameIds
  <1>12. Numbered'
    <2>0. turns \in Nat BY <1>0 DEF Controls
    <2>1. opened' \in [Checks -> 0..turns']
      <3>1. opened \in [Checks -> 0..turns] BY <1>0 DEF Numbered
      <3>2. 0..turns \subseteq 0..turns' BY <2>0, <1>4, <1>8
      <3> QED BY <1>7, <3>1, <3>2
    <2>2. ASSUME NEW c \in Checks, Due(c)' PROVE opened'[c] < turns'
      <3>1. c \in found /\ Opens(c) BY <1>6, <1>7, <2>2 DEF Due, Opens
      <3>2. turns' > turns BY <3>1, <1>3, <1>4, <1>8, <2>0
      <3>3. opened[c] \in 0..turns BY <1>0 DEF Numbered
      <3> QED BY <1>4, <1>7, <1>8, <2>0, <3>2, <3>3
    <2>3. \A e : Issued(e)' <=> Issued(e) BY <1>7 DEF Issued, Ids
    <2> QED BY <1>0, <1>7, <1>10, <1>11, <2>1, <2>2, <2>3 DEF Numbered
  <1>13. Told' BY <1>0, <1>7, <1>10, <1>11, ToldSame
  <1>14. Evident'
    <2>1. EvidenceKept' BY <1>0, <1>7, <1>11 DEF Evident, EvidenceKept
    <2>2. files' > 0 BY <1>0, <1>4 DEF Shapes
    <2> QED BY <1>6, <2>1, <2>2 DEF Evident, Working
  <1>15. Locked' /\ Popping' BY <1>6 DEF Locked, Popping
  <1> QED BY <1>9, <1>12, <1>13, <1>14, <1>15 DEF Kept

-----------------------------------------------------------------------------
(* The incidents and their events.                                         *)

(* The entry of a check after the heartbeat: it is of the type of entries, *)
(* it is open exactly after enough failures, and an open one was last seen *)
(* in the new snapshot.                                                    *)
LEMMA EntryOf ==
    ASSUME IInv, At("index"), NEW c \in Checks, Due(c) => opened[c] < turns
    PROVE  /\ Entry(c) \in Entries
           /\ Entry(c).fails = Requires[c] <=> Entry(c).id # None
           /\ Entry(c).id = IF c \notin ctl.found THEN None
                            ELSE IF Opens(c) THEN <<c, opened[c] + 1>> ELSE book[c].id
           /\ Entry(c).id # None => Entry(c).snap = ctl.snap
  <1>0. Controls /\ Shapes /\ Numbered BY DEF IInv, Kept
  <1>1. ctl \in Found /\ ctl.pc = "index" BY <1>0, PlaceOf DEF Shapes, At
  <1>2. ctl.snap \in 0..files BY <1>0, <1>1 DEF Found, Shapes
  <1>3. book[c] \in Entries BY <1>0 DEF Shapes
  <1>4. book[c].fails \in Nat /\ book[c].id \in Ids \cup {None} BY <1>3 DEF Entries
  <1>5. book[c].fails = Requires[c] <=> book[c].id # None BY <1>0 DEF Shapes
  <1>6. Requires[c] \in Nat \ {0} OBVIOUS
  <1>7. CASE c \notin ctl.found
    <2>1. Entry(c) = Calm BY <1>7 DEF Entry
    <2>2. 0 \in 0..files BY <1>0 DEF Shapes
    <2>3. Calm \in Entries /\ Calm.fails = 0 /\ Calm.id = None BY <2>2 DEF Calm, Entries
    <2> QED BY <1>6, <1>7, <2>1, <2>3
  <1>8. CASE c \in ctl.found
    <2> DEFINE low == Min({book[c].fails + 1, Requires[c]})
               id == IF Opens(c) THEN <<c, opened[c] + 1>> ELSE book[c].id
               snap == IF Opens(c) \/ book[c].id # None THEN ctl.snap ELSE 0
    <2>1. Entry(c) = [fails |-> low, id |-> id, snap |-> snap] BY <1>8 DEF Entry
    <2>2. low = IF book[c].fails + 1 <= Requires[c] THEN book[c].fails + 1 ELSE Requires[c]
      BY <1>4, <1>6, MinOfTwo
    <2>3. id \in Ids \cup {None}
      <3>1. CASE Opens(c)
        <4>1. opened[c] < turns BY <1>1, <1>8, <3>1 DEF Due
        <4>2. opened[c] \in 0..turns /\ turns \in 0..MaxTurns BY <1>0 DEF Numbered, Controls
        <4>3. opened[c] + 1 \in 1..MaxTurns BY <4>1, <4>2
        <4> QED BY <3>1, <4>3 DEF Ids
      <3>2. CASE ~Opens(c) BY <1>4, <3>2
      <3> QED BY <3>1, <3>2
    <2>4. snap \in 0..files BY <1>0, <1>2 DEF Shapes
    <2>5. id # None <=> Opens(c) \/ book[c].id # None
      <3>1. Opens(c) => <<c, opened[c] + 1>> # None
        <4>1. Opens(c) => <<c, opened[c] + 1>> \in Ids
          <5>1. Opens(c) => opened[c] < turns BY <1>1, <1>8 DEF Due
          <5>2. opened[c] \in 0..turns /\ turns \in 0..MaxTurns BY <1>0 DEF Numbered, Controls
          <5>3. Opens(c) => opened[c] + 1 \in 1..MaxTurns BY <5>1, <5>2
          <5> QED BY <5>3 DEF Ids
        <4> QED BY <4>1, Identities
      <3> QED BY <3>1
    <2>6. low \in Nat BY <1>4, <1>6, <2>2
    <2>7. low = Requires[c] <=> book[c].fails + 1 >= Requires[c] BY <1>4, <1>6, <2>2
    <2>8. book[c].fails + 1 >= Requires[c] <=> Opens(c) \/ book[c].id # None
      BY <1>4, <1>5, <1>6 DEF Opens
    <2> HIDE DEF low, id, snap
    <2>9. /\ Entry(c) \in Entries /\ Entry(c).fails = low /\ Entry(c).id = id
          /\ Entry(c).snap = snap
      BY <2>1, <2>3, <2>4, <2>6 DEF Entries
    <2> QED BY <1>8, <2>5, <2>7, <2>8, <2>9 DEF id, snap
  <1> QED BY <1>7, <1>8

(* What is told of a check: its incident's opening when it opens, its      *)
(* recovery when it was open and is well.                                  *)
LEMMA EventsOf ==
    ASSUME IInv, At("index"), NEW c \in Checks, NEW later \in BOOLEAN
    PROVE  /\ Events(c, later) \subseteq Evs
           /\ \A e \in Events(c, later) :
                 \/ c \in ctl.found /\ Opens(c) /\ e = <<<<c, opened[c] + 1>>, "opened">>
                 \/ c \in Open /\ e = <<book[c].id, "updated">>
                 \/ c \in Open /\ e = <<book[c].id, "recovered">>
           /\ c \in ctl.found /\ Opens(c) =>
                 <<<<c, opened[c] + 1>>, "opened">> \in Events(c, later)
           /\ c \in Open /\ c \notin ctl.found =>
                 <<book[c].id, "recovered">> \in Events(c, later)
  <1>0. Controls /\ Shapes /\ Numbered BY DEF IInv, Kept
  <1>1. Due(c) => opened[c] < turns BY <1>0 DEF Numbered
  <1>2. Entry(c) \in Entries BY <1>1, EntryOf
  <1>3. book[c].id \in Ids \cup {None} BY <1>0 DEF Shapes, Entries
  <1>4. c \in Open <=> book[c].id # None BY DEF Open
  <1>5. CASE c \in ctl.found /\ Opens(c)
    <2>1. Entry(c).id = <<c, opened[c] + 1>> BY <1>1, <1>5, EntryOf
    <2>2. Events(c, later) = {<<<<c, opened[c] + 1>>, "opened">>} BY <1>5, <2>1 DEF Events
    <2>3. <<c, opened[c] + 1>> \in Ids
      <3>1. opened[c] < turns BY <1>1, <1>5 DEF Due, At
      <3>2. opened[c] \in 0..turns /\ turns \in 0..MaxTurns BY <1>0 DEF Numbered, Controls
      <3>3. opened[c] + 1 \in 1..MaxTurns BY <3>1, <3>2
      <3> QED BY <3>3 DEF Ids
    <2>4. <<<<c, opened[c] + 1>>, "opened">> \in Evs BY <2>3 DEF Evs
    <2> QED BY <1>5, <2>2, <2>4
  <1>6. CASE ~(c \in ctl.found /\ Opens(c)) /\ c \in ctl.found /\ book[c].id # None /\ later
    <2>1. Events(c, later) = {<<book[c].id, "updated">>} BY <1>6 DEF Events
    <2>2. <<book[c].id, "updated">> \in Evs BY <1>3, <1>6 DEF Evs
    <2> QED BY <1>4, <1>6, <2>1, <2>2
  <1>7. CASE c \notin ctl.found /\ book[c].id # None
    <2>1. Events(c, later) = {<<book[c].id, "recovered">>} BY <1>7 DEF Events
    <2>2. <<book[c].id, "recovered">> \in Evs BY <1>3, <1>7 DEF Evs
    <2> QED BY <1>4, <1>7, <2>1, <2>2
  <1>8. CASE /\ ~(c \in ctl.found /\ Opens(c))
             /\ ~(c \in ctl.found /\ book[c].id # None /\ later)
             /\ ~(c \notin ctl.found /\ book[c].id # None)
    <2>1. Events(c, later) = {} BY <1>8 DEF Events
    <2> QED BY <1>4, <1>8, <2>1
  <1> QED BY <1>5, <1>6, <1>7, <1>8

(* The book after the heartbeat: its entries, the identities given since,  *)
(* and the evidence of what is open.                                       *)
LEMMA BookOf ==
    ASSUME IInv, At("index"), Booked, UNCHANGED <<journal, files>>
    PROVE  /\ book' \in [Checks -> Entries]
           /\ \A c \in Checks :
                 /\ book'[c].fails = Requires[c] <=> book'[c].id # None
                 /\ book'[c].id = IF c \notin ctl.found THEN None
                                  ELSE IF Opens(c) THEN <<c, opened[c] + 1>> ELSE book[c].id
           /\ opened' \in [Checks -> 0..turns] /\ \A c \in Checks : opened[c] <= opened'[c]
           /\ \A e : Issued(e) => Issued(e)'
           /\ \A c \in Open' :
                 /\ c \in Checks /\ c \in ctl.found /\ book'[c].id = <<c, opened'[c]>>
                 /\ ~Opens(c) => c \in Open /\ book'[c].id = book[c].id
                 /\ book'[c].snap = ctl.snap
           /\ EvidenceKept'
  <1>0. Controls /\ Shapes /\ Numbered /\ Evident BY DEF IInv, Kept
  <1>1. ctl \in Found /\ ctl.pc = "index" BY <1>0, PlaceOf DEF Shapes, At
  <1>3. ctl.snap = files /\ files > 0 BY <1>0, <1>1 DEF Found, Evident
  <1>4. book' = [c \in Checks |-> Entry(c)] BY DEF Booked
  <1>5. opened' = [c \in Checks |->
                     IF c \in ctl.found /\ Opens(c) THEN opened[c] + 1 ELSE opened[c]]
    BY DEF Booked
  <1>8. \A c \in Checks : Due(c) => opened[c] < turns BY <1>0 DEF Numbered
  <1>9. \A c \in Checks : Due(c) <=> c \in ctl.found /\ Opens(c) BY <1>1 DEF Due
  <1>10. \A c \in Checks :
           /\ book'[c] \in Entries
           /\ book'[c].fails = Requires[c] <=> book'[c].id # None
           /\ book'[c].id = IF c \notin ctl.found THEN None
                            ELSE IF Opens(c) THEN <<c, opened[c] + 1>> ELSE book[c].id
           /\ book'[c].id # None => book'[c].snap = ctl.snap
    <2> SUFFICES ASSUME NEW c \in Checks
                 PROVE  /\ Entry(c) \in Entries
                        /\ Entry(c).fails = Requires[c] <=> Entry(c).id # None
                        /\ Entry(c).id = IF c \notin ctl.found THEN None
                                         ELSE IF Opens(c) THEN <<c, opened[c] + 1>>
                                         ELSE book[c].id
                        /\ Entry(c).id # None => Entry(c).snap = ctl.snap
      BY <1>4
    <2> QED BY <1>8, EntryOf
  <1>17. opened \in [Checks -> 0..turns] /\ turns \in 0..MaxTurns BY <1>0 DEF Numbered, Controls
  <1>18. opened' \in [Checks -> 0..turns] /\ \A c \in Checks : opened[c] <= opened'[c]
    <2>1. ASSUME NEW c \in Checks PROVE opened'[c] \in 0..turns /\ opened[c] <= opened'[c]
      <3>1. opened[c] \in 0..turns BY <1>17
      <3>2. CASE c \in ctl.found /\ Opens(c)
        <4>1. opened[c] < turns /\ opened'[c] = opened[c] + 1 BY <1>5, <1>8, <1>9, <3>2
        <4> QED BY <1>17, <3>1, <4>1
      <3>3. CASE ~(c \in ctl.found /\ Opens(c)) BY <1>5, <3>1, <3>3
      <3> QED BY <3>2, <3>3
    <2> QED BY <1>5, <2>1
  <1>19. ASSUME NEW e, Issued(e) PROVE Issued(e)'
    <2> SUFFICES ASSUME e[1] \in Ids PROVE e[1][2] <= opened'[e[1][1]] BY DEF Issued, Ids
    <2>1. e[1][1] \in Checks /\ e[1][2] \in 1..MaxTurns BY DEF Ids
    <2>2. e[1][2] <= opened[e[1][1]] BY <1>19 DEF Issued
    <2>3. opened[e[1][1]] \in 0..turns /\ opened'[e[1][1]] \in 0..turns BY <1>17, <1>18, <2>1
    <2> QED BY <1>17, <1>18, <2>1, <2>2, <2>3
  <1>20. \A c \in Open : book[c].id = <<c, opened[c]>> BY <1>0 DEF Numbered
  <1>21. ASSUME NEW c \in Open'
         PROVE  /\ c \in Checks /\ c \in ctl.found /\ book'[c].id = <<c, opened'[c]>>
                /\ ~Opens(c) => c \in Open /\ book'[c].id = book[c].id
                /\ book'[c].snap = ctl.snap
    <2>1. c \in Checks /\ book'[c].id # None BY DEF Open
    <2>2. c \in ctl.found /\ book'[c].snap = ctl.snap BY <1>10, <2>1
    <2>3. CASE Opens(c) BY <1>5, <1>10, <2>1, <2>2, <2>3
    <2>4. CASE ~Opens(c)
      <3>1. book'[c].id = book[c].id BY <1>10, <2>1, <2>2, <2>4
      <3>2. c \in Open BY <2>1, <3>1 DEF Open
      <3>3. opened'[c] = opened[c] BY <1>5, <2>1, <2>4
      <3> QED BY <1>20, <2>1, <2>2, <3>1, <3>2, <3>3
    <2> QED BY <2>3, <2>4
  <1>22. ASSUME NEW c \in Open', NEW k \in DOMAIN journal, journal[k].ev[1] = book'[c].id
         PROVE  journal[k].snap # 0
    <2>1. CASE Opens(c)
      <3>1. book'[c].id = <<c, opened[c] + 1>> /\ book'[c].id \in Ids
        <4>1. c \in Checks /\ c \in ctl.found BY <1>21
        <4>2. book'[c].id # None BY DEF Open
        <4> QED BY <1>10, <2>1, <4>1, <4>2 DEF Entries
      <3>2. Issued(journal[k].ev) BY <1>0 DEF Numbered, Lines
      <3>3. opened[c] + 1 <= opened[c] BY <1>22, <3>1, <3>2 DEF Issued
      <3>4. opened[c] \in 0..turns BY <1>17, <1>21
      <3> QED BY <3>3, <3>4
    <2>2. CASE ~Opens(c) BY <1>0, <1>21, <1>22, <2>2 DEF Evident, EvidenceKept
    <2> QED BY <2>1, <2>2
  <1>23. EvidenceKept' BY <1>3, <1>21, <1>22 DEF EvidenceKept
  <1> QED BY <1>4, <1>10, <1>18, <1>19, <1>21, <1>23

(* The incidents are reconciled: what opens or recovers is about to be     *)
(* queued, and a recovered incident's opening was told or queued before.   *)
LEMMA KeptReconcile == IInv /\ Reconcile => Kept'
  <1> SUFFICES ASSUME IInv, Reconcile PROVE Kept' OBVIOUS
  <1>0. Controls /\ Shapes /\ Numbered /\ Evident /\ Locked /\ Popping /\ Told BY DEF IInv, Kept
  <1>1. At("index") /\ ctl.pc = "index" /\ Booked BY DEF Reconcile, At
  <1>2. ctl \in Found BY <1>0, <1>1, PlaceOf DEF Shapes
  <1>3. ctl.snap = files /\ files \in Nat /\ ctl.serving \in BOOLEAN
    BY <1>0, <1>1, <1>2 DEF Found, Shapes
  <1>5. opened' = [c \in Checks |->
                     IF c \in ctl.found /\ Opens(c) THEN opened[c] + 1 ELSE opened[c]]
    BY <1>1 DEF Booked
  <1>6. PICK later \in BOOLEAN :
            ctl' = [pc |-> "queue", serving |-> ctl.serving, snap |-> ctl.snap,
                    events |-> UNION {Events(c, later) : c \in Checks}]
    BY DEF Reconcile
  <1> DEFINE events == UNION {Events(c, later) : c \in Checks}
  <1>7. UNCHANGED <<lock, torn, queue, journal, files, turns, told>>
    BY DEF Reconcile, ctlRest
  <1>10. /\ book' \in [Checks -> Entries]
         /\ \A c \in Checks :
               /\ book'[c].fails = Requires[c] <=> book'[c].id # None
               /\ book'[c].id = IF c \notin ctl.found THEN None
                                ELSE IF Opens(c) THEN <<c, opened[c] + 1>> ELSE book[c].id
    BY <1>1, <1>7, BookOf
  <1>11. \A e \in events : \E c \in Checks : e \in Events(c, later) OBVIOUS
  <1>12. \A c \in Checks : Events(c, later) \subseteq events OBVIOUS
  <1>13. ctl' = [pc |-> "queue", serving |-> ctl.serving, snap |-> ctl.snap, events |-> events]
    BY <1>6
  <1> HIDE DEF events
  <1>14. events \subseteq Evs
    <2> SUFFICES ASSUME NEW e \in events PROVE e \in Evs OBVIOUS
    <2>1. PICK c \in Checks : e \in Events(c, later) BY <1>11
    <2> QED BY <1>1, <2>1, EventsOf
  <1>15. ctl' \in Reconciled /\ ctl'.pc = "queue" /\ Pending' = events /\ ctl'.snap = ctl.snap
    <2>1. ctl.snap \in 0..files BY <1>3
    <2>2. ctl'.pc = "queue" /\ ctl'.events = events /\ ctl'.snap = ctl.snap BY <1>13
    <2>3. ctl' \in Reconciled BY <1>3, <1>13, <1>14, <2>1 DEF Reconciled
    <2> QED BY <2>2, <2>3 DEF Pending
  <1>16. Pending = {} BY <1>1 DEF Pending
  <1>17. opened \in [Checks -> 0..turns] /\ turns \in 0..MaxTurns BY <1>0 DEF Numbered, Controls
  <1>18. opened' \in [Checks -> 0..turns] /\ \A c \in Checks : opened[c] <= opened'[c]
    BY <1>1, <1>7, BookOf
  <1>19. \A e : Issued(e) => Issued(e)' BY <1>1, <1>7, BookOf
  <1>20. \A c \in Open : book[c].id = <<c, opened[c]>> /\ book[c].id \in Ids /\ c \in Checks
    BY <1>0 DEF Numbered, Open, Shapes, Entries
  <1>21. \A c \in Open' :
           /\ c \in Checks /\ c \in ctl.found /\ book'[c].id = <<c, opened'[c]>>
           /\ ~Opens(c) => c \in Open /\ book'[c].id = book[c].id
           /\ book'[c].snap = ctl.snap
    BY <1>1, <1>7, BookOf
  <1>22. Lines' = Lines BY <1>7 DEF Lines
  <1>23. Shapes'
    <2>1. book' \in [Checks -> Entries] BY <1>10
    <2>2. \A c \in Checks : book'[c].fails = Requires[c] <=> book'[c].id # None BY <1>10
    <2>3. ctl' \in Places BY <1>15 DEF Places
    <2> QED BY <1>0, <1>7, <2>1, <2>2, <2>3, PlacesSame DEF Shapes
  <1>24. Numbered'
    <2>1. opened' \in [Checks -> 0..turns'] BY <1>7, <1>18
    <2>2. \A c \in Checks : ~Due(c)' BY <1>15 DEF Due
    <2>3. \A c \in Open' : book'[c].id = <<c, opened'[c]>> BY <1>21
    <2>4. ASSUME NEW e \in Range(queue) \cup Lines PROVE Issued(e)'
      BY <1>0, <1>19 DEF Numbered
    <2>5. ASSUME NEW e \in events PROVE Issued(e)'
      <3>1. PICK c \in Checks : e \in Events(c, later) BY <1>11
      <3>2. opened[c] \in 0..turns /\ opened'[c] \in 0..turns BY <1>17, <1>18
      <3>3. CASE c \in ctl.found /\ Opens(c) /\ e = <<<<c, opened[c] + 1>>, "opened">>
        <4>1. opened'[c] = opened[c] + 1 BY <1>5, <3>3
        <4>2. e[1] = <<c, opened'[c]>> BY <3>3, <4>1
        <4>3. e[1][1] = c /\ e[1][2] = opened'[c] BY <4>2
        <4>4. e[1][2] <= opened'[e[1][1]] BY <3>2, <4>3
        <4> QED BY <4>4 DEF Issued, Ids
      <3>4. CASE c \in Open /\ (e = <<book[c].id, "updated">> \/ e = <<book[c].id, "recovered">>)
        <4>1. e[1] = <<c, opened[c]>> BY <1>20, <3>4
        <4>2. e[1][1] = c /\ e[1][2] = opened[c] BY <4>1
        <4>3. e[1][2] <= opened'[e[1][1]] BY <1>18, <4>2
        <4> QED BY <4>3 DEF Issued, Ids
      <3> QED BY <1>1, <3>1, <3>3, <3>4, EventsOf
    <2> QED BY <1>7, <1>15, <1>22, <2>1, <2>2, <2>3, <2>4, <2>5 DEF Numbered
  <1>25. Evident'
    <2>1. EvidenceKept' BY <1>1, <1>7, BookOf
    <2> QED BY <1>15, <1>21, <2>1 DEF Evident
  <1>26. Locked' /\ Popping' BY <1>15 DEF Locked, Popping
  <1>27. Told'
    <2> SUFFICES ASSUME ~torn' PROVE Told' BY DEF Told
    <2>0. ~torn BY <1>7
    <2>1. Somewhere = told \cup Range(queue) /\ Somewhere' = told \cup Range(queue) \cup events
      BY <1>7, <1>15, <1>16 DEF Somewhere
    <2>2. ASSUME NEW c \in Open' PROVE <<book'[c].id, "opened">> \in Somewhere'
      <3>1. CASE Opens(c)
        <4>1. c \in Checks /\ c \in ctl.found BY <1>21
        <4>2. <<<<c, opened[c] + 1>>, "opened">> \in Events(c, later) BY <1>1, <3>1, <4>1, EventsOf
        <4>3. book'[c].id = <<c, opened[c] + 1>> BY <1>10, <3>1, <4>1
        <4> QED BY <1>12, <2>1, <4>1, <4>2, <4>3
      <3>2. CASE ~Opens(c) BY <1>0, <1>21, <2>0, <2>1, <3>2 DEF Told
      <3> QED BY <3>1, <3>2
    <2>3. ASSUME NEW i \in Past'
          PROVE  <<i, "opened">> \in Somewhere' /\ <<i, "recovered">> \in Somewhere'
      <3>1. i \in Ids /\ i[2] <= opened'[i[1]] /\ \A c \in Open' : i # book'[c].id
        BY DEF Past, Ids
      <3> DEFINE c == i[1]
      <3>2. c \in Checks /\ i[2] \in 1..MaxTurns /\ i = <<c, i[2]>> BY <3>1 DEF Ids
      <3>3. opened[c] \in 0..turns /\ opened'[c] \in 0..turns BY <1>17, <1>18, <3>2
      <3>4. i[2] <= opened[c]
        <4>1. CASE c \in ctl.found /\ Opens(c)
          <5>1. book'[c].id = <<c, opened[c] + 1>> /\ opened'[c] = opened[c] + 1
            BY <1>5, <1>10, <3>2, <4>1
          <5>2. c \in Open'
            <6>1. <<c, opened[c] + 1>> \in Ids
              BY <1>17, <1>18, <3>2, <3>3, <5>1 DEF Ids
            <6>2. book'[c].id # None BY <5>1, <6>1, Identities
            <6> QED BY <3>2, <6>2 DEF Open
          <5>3. i[2] # opened[c] + 1 BY <3>1, <3>2, <5>1, <5>2
          <5> QED BY <3>1, <3>2, <3>3, <5>1, <5>3
        <4>2. CASE ~(c \in ctl.found /\ Opens(c)) BY <1>5, <3>1, <3>2, <4>2
        <4> QED BY <4>1, <4>2
      <3>5. CASE i \in Past BY <1>0, <2>0, <2>1, <3>5 DEF Told
      <3>6. CASE i \notin Past
        <4>1. PICK d \in Open : i = book[d].id BY <3>1, <3>4, <3>6 DEF Past
        <4>2. d = c /\ d \in Checks BY <1>20, <3>2, <4>1
        <4>3. <<i, "opened">> \in Somewhere' BY <1>0, <2>0, <2>1, <4>1 DEF Told
        <4>4. c \notin ctl.found
          <5> SUFFICES ASSUME c \in ctl.found PROVE FALSE OBVIOUS
          <5>1. ~Opens(c) BY <4>1, <4>2 DEF Opens, Open
          <5>2. book'[c].id = book[c].id BY <1>10, <3>2, <5>1
          <5>3. c \in Open' BY <4>1, <4>2, <5>2 DEF Open
          <5> QED BY <3>1, <4>1, <4>2, <5>2, <5>3
        <4>5. <<book[d].id, "recovered">> \in Events(d, later)
          BY <1>1, <4>1, <4>2, <4>4, EventsOf
        <4> QED BY <1>12, <2>1, <4>1, <4>2, <4>3, <4>5
      <3> QED BY <3>5, <3>6
    <2>4. ASSUME NEW i \in Ids, <<i, "recovered">> \in events
          PROVE  <<i, "opened">> \in told \cup Range(queue)
      <3>1. PICK c \in Checks : <<i, "recovered">> \in Events(c, later) BY <1>11, <2>4
      <3>2. c \in Open /\ <<i, "recovered">> = <<book[c].id, "recovered">>
        BY <1>1, <3>1, EventsOf
      <3> QED BY <1>0, <2>0, <2>1, <3>2 DEF Told
    <2>5. /\ \A i \in Ids : <<i, "recovered">> \in told' => <<i, "opened">> \in told'
          /\ \A k \in DOMAIN queue', i \in Ids :
              queue'[k] = <<i, "recovered">> =>
                \/ <<i, "opened">> \in told'
                \/ \E h \in DOMAIN queue' : h < k /\ queue'[h] = <<i, "opened">>
      BY <1>0, <1>7, <2>0 DEF Told
    <2>6. \A i \in Ids : <<i, "recovered">> \in Pending' => <<i, "opened">> \in (told \cup Range(queue))'
      BY <1>7, <1>15, <2>4
    <2>7. Ids' = Ids BY DEF Ids
    <2> QED BY <2>2, <2>3, <2>5, <2>6, <2>7 DEF Told
  <1> QED BY <1>23, <1>24, <1>25, <1>26, <1>27 DEF Kept

(* The index could not be written: either nothing had happened, or what    *)
(* did is lost (torn).                                                     *)
LEMMA KeptIndexFails == IInv /\ IndexFails => Kept'
  <1> SUFFICES ASSUME IInv, IndexFails PROVE Kept' OBVIOUS
  <1>0. Controls /\ Shapes /\ Numbered /\ Evident /\ Told BY DEF IInv, Kept
  <1>1. At("index") /\ ctl.pc = "index" /\ Booked BY DEF IndexFails, At
  <1>2. UNCHANGED <<lock, queue, journal, files, told>> /\ ctl' = Cycle BY DEF IndexFails
  <1>3. torn' = (torn \/ \E c \in Checks : Events(c, FALSE) # {}) BY DEF IndexFails
  <1>4. turns' = turns + 1 /\ turns \in Nat BY <1>0 DEF IndexFails, Turn, Controls
  <1>5. /\ book' \in [Checks -> Entries]
        /\ \A c \in Checks :
              /\ book'[c].fails = Requires[c] <=> book'[c].id # None
              /\ book'[c].id = IF c \notin ctl.found THEN None
                               ELSE IF Opens(c) THEN <<c, opened[c] + 1>> ELSE book[c].id
        /\ opened' \in [Checks -> 0..turns]
        /\ \A e : Issued(e) => Issued(e)'
        /\ \A c \in Open' : book'[c].id = <<c, opened'[c]>>
        /\ EvidenceKept'
    BY <1>1, <1>2, BookOf
  <1>6. ctl'.pc = "cycle" /\ Pending = {} /\ Pending' = {} BY <1>1, <1>2 DEF Cycle, Pending
  <1>7. Lines' = Lines BY <1>2 DEF Lines
  <1>8. Shapes'
    <2>1. ctl' \in Places BY <1>2 DEF Places
    <2>2. torn' \in BOOLEAN BY <1>0, <1>3 DEF Shapes
    <2> QED BY <1>0, <1>2, <1>5, <2>1, <2>2, PlacesSame DEF Shapes
  <1>9. Numbered'
    <2>1. opened' \in [Checks -> 0..turns']
      <3>1. 0..turns \subseteq 0..turns' BY <1>4
      <3> QED BY <1>5, <3>1
    <2>2. \A c \in Checks : ~Due(c)' BY <1>6 DEF Due
    <2> QED BY <1>0, <1>2, <1>5, <1>6, <1>7, <2>1, <2>2 DEF Numbered
  <1>10. Evident' BY <1>5, <1>6 DEF Evident, Working
  <1>11. Locked' /\ Popping' BY <1>6 DEF Locked, Popping
  <1>12. Told'
    <2> SUFFICES ASSUME ~torn' PROVE Told' BY DEF Told
    <2>1. ~torn /\ \A c \in Checks : Events(c, FALSE) = {} BY <1>3
    <2>2. ASSUME NEW c \in Checks
          PROVE  ~(c \in ctl.found /\ Opens(c)) /\ (c \in Open => c \in ctl.found)
      BY <1>1, <2>1, EventsOf
    <2>3. opened' = opened
      <3>1. opened' = [c \in Checks |->
                          IF c \in ctl.found /\ Opens(c) THEN opened[c] + 1 ELSE opened[c]]
        BY <1>1 DEF Booked
      <3>2. opened' = [c \in Checks |-> opened[c]] BY <2>2, <3>1
      <3> QED BY <1>0, <3>2 DEF Numbered
    <2>4. SameIds
      <3> SUFFICES ASSUME NEW c \in Checks PROVE book'[c].id = book[c].id BY DEF SameIds
      <3>1. CASE c \in ctl.found BY <1>5, <2>2, <3>1
      <3>2. CASE c \notin ctl.found BY <1>5, <2>2, <3>2 DEF Open
      <3> QED BY <3>1, <3>2
    <2> QED BY <1>0, <1>2, <1>6, <2>1, <2>3, <2>4, ToldSame
  <1> QED BY <1>8, <1>9, <1>10, <1>11, <1>12 DEF Kept

(* What happened is queued, at the end.                                    *)
LEMMA KeptQueue == IInv /\ Queue => Kept' /\ Range(queue) \subseteq Range(queue')
  <1> SUFFICES ASSUME IInv, Queue PROVE Kept' /\ Range(queue) \subseteq Range(queue') OBVIOUS
  <1>0. Controls /\ Shapes /\ Numbered /\ Evident /\ Locked /\ Popping /\ Told BY DEF IInv, Kept
  <1>1. ctl.pc = "queue" /\ ctl \in Reconciled
    <2>1. ctl.pc = "queue" BY DEF Queue, At
    <2> QED BY <1>0, <2>1, PlaceOf DEF Shapes
  <1>2. ctl.events \subseteq Evs /\ ctl.snap \in 0..files /\ ctl.serving \in BOOLEAN
    BY <1>1 DEF Reconciled
  <1> DEFINE new == ctl.events \ Range(queue)  list == SetToSeq(new)
  <1>3. ctl' = [pc |-> "retain", serving |-> ctl.serving, snap |-> ctl.snap] BY DEF Queue
  <1>4. ctl' \in Retaining /\ ctl'.pc = "retain" /\ ctl'.snap = ctl.snap
    BY <1>2, <1>3 DEF Retaining
  <1>5. UNCHANGED <<lock, torn, book, journal, files, turns, opened, told>>
    BY DEF Queue, ctlRest
  <1>6. IsFiniteSet(new) BY <1>2, EvsFinite, FS_Subset
  <1>7. list \in Seq(new) /\ Range(list) = new BY <1>6, ListOf
  <1>8. list \in Seq(Evs) BY <1>2, <1>7, SeqMonotonic
  <1>9. queue' = queue \o list BY DEF Queue, Queued
  <1>10. queue \in Seq(Evs) BY <1>0 DEF Shapes
  <1>11. Pending = ctl.events /\ Pending' = {} BY <1>1, <1>4 DEF Pending
  <1> HIDE DEF list
  <1>12. queue' \in Seq(Evs) /\ Range(queue') = Range(queue) \cup Pending
    <2>1. Range(queue') = Range(queue) \cup Range(list) BY <1>8, <1>9, <1>10, RangeConcatenation
    <2>2. queue' \in Seq(Evs) BY <1>8, <1>9, <1>10, ConcatProperties
    <2> QED BY <1>7, <1>11, <2>1, <2>2
  <1> HIDE DEF new
  <1>13. SameIds /\ Open' = Open /\ Lines' = Lines /\ Past' = Past
    <2>1. SameIds /\ Open' = Open /\ Lines' = Lines BY <1>5 DEF SameIds, Open, Lines
    <2> QED BY <1>5, <2>1 DEF Past, Ids
  <1>14. Shapes'
    <2>1. ctl' \in Places BY <1>4 DEF Places
    <2>2. Seq(Evs)' = Seq(Evs) BY DEF Evs, Ids
    <2> QED BY <1>0, <1>5, <1>12, <2>1, <2>2, PlacesSame DEF Shapes
  <1>15. Numbered'
    <2>1. \A c \in Checks : ~Due(c)' BY <1>4 DEF Due
    <2>2. \A e : Issued(e)' <=> Issued(e) BY <1>5 DEF Issued, Ids
    <2> QED BY <1>0, <1>5, <1>11, <1>12, <1>13, <2>1, <2>2 DEF Numbered
  <1>16. Evident'
    <2>1. \A c \in Open : book[c].snap = ctl.snap BY <1>0, <1>1 DEF Evident, Working
    <2>2. EvidenceKept' BY <1>0, <1>5, <1>13 DEF Evident, EvidenceKept
    <2> QED BY <1>4, <1>5, <1>13, <2>1, <2>2 DEF Evident
  <1>17. Locked' /\ Popping' BY <1>4 DEF Locked, Popping
  <1>18. Told'
    <2> SUFFICES ASSUME ~torn' PROVE Told' BY DEF Told
    <2>0. ~torn BY <1>5
    <2>1. Somewhere' = Somewhere BY <1>5, <1>11, <1>12 DEF Somewhere
    <2>2. ASSUME NEW k \in DOMAIN queue', NEW i \in Ids, queue'[k] = <<i, "recovered">>
          PROVE  \/ <<i, "opened">> \in told
                 \/ \E h \in DOMAIN queue' : h < k /\ queue'[h] = <<i, "opened">>
      <3>1. /\ Len(queue) \in Nat /\ DOMAIN queue = 1..Len(queue)
            /\ Len(list) \in Nat /\ DOMAIN list = 1..Len(list)
        BY <1>8, <1>10, LenProperties
      <3>2. Len(queue') = Len(queue) + Len(list) BY <1>8, <1>9, <1>10, ConcatProperties
      <3>3. DOMAIN queue' = 1..(Len(queue) + Len(list)) BY <1>12, <3>2, LenProperties
      <3>4. \A h \in 1..(Len(queue) + Len(list)) :
               queue'[h] = IF h <= Len(queue) THEN queue[h] ELSE list[h - Len(queue)]
        BY <1>8, <1>9, <1>10, ConcatProperties
      <3>5. CASE k \in DOMAIN queue
        <4>1. queue[k] = <<i, "recovered">> BY <2>2, <3>1, <3>3, <3>4, <3>5
        <4>2. \/ <<i, "opened">> \in told
              \/ \E h \in DOMAIN queue : h < k /\ queue[h] = <<i, "opened">>
          BY <1>0, <2>0, <3>5, <4>1 DEF Told
        <4>3. ASSUME NEW h \in DOMAIN queue PROVE h \in DOMAIN queue' /\ queue'[h] = queue[h]
          BY <3>1, <3>3, <3>4
        <4> QED BY <4>2, <4>3
      <3>6. CASE k \notin DOMAIN queue
        <4>1. k - Len(queue) \in DOMAIN list /\ list[k - Len(queue)] = <<i, "recovered">>
          BY <2>2, <3>1, <3>3, <3>4, <3>6
        <4>2. <<i, "recovered">> \in Range(list) BY <4>1 DEF Range
        <4>3. <<i, "recovered">> \in Pending BY <1>7, <1>11, <4>2 DEF new
        <4>4. <<i, "opened">> \in told \cup Range(queue) BY <1>0, <2>0, <4>3 DEF Told
        <4>5. ASSUME <<i, "opened">> \in Range(queue)
              PROVE  \E h \in DOMAIN queue' : h < k /\ queue'[h] = <<i, "opened">>
          <5>1. PICK h \in DOMAIN queue : queue[h] = <<i, "opened">> BY <4>5 DEF Range
          <5>2. h \in DOMAIN queue' /\ queue'[h] = queue[h] /\ h < k
            BY <3>1, <3>3, <3>4, <3>6
          <5> QED BY <5>1, <5>2
        <4> QED BY <4>4, <4>5
      <3> QED BY <3>5, <3>6
    <2>3. \A c \in Open' : <<book'[c].id, "opened">> \in Somewhere'
      BY <1>0, <1>5, <1>13, <2>0, <2>1 DEF Told
    <2>4. \A i \in Past' : <<i, "opened">> \in Somewhere' /\ <<i, "recovered">> \in Somewhere'
      BY <1>0, <1>13, <2>0, <2>1 DEF Told
    <2>5. \A i \in Ids : <<i, "recovered">> \in told' => <<i, "opened">> \in told'
      BY <1>0, <1>5, <2>0 DEF Told
    <2>6. Ids' = Ids BY DEF Ids
    <2> QED BY <1>5, <1>11, <2>2, <2>3, <2>4, <2>5, <2>6 DEF Told
  <1> QED BY <1>12, <1>14, <1>15, <1>16, <1>17, <1>18 DEF Kept

(* The first event of the queue is journaled: of an incident that recovers *)
(* the opening is before it.                                               *)
LEMMA KeptReport == IInv /\ Report => Kept'
  <1> SUFFICES ASSUME IInv, Report PROVE Kept' OBVIOUS
  <1>0. Controls /\ Shapes /\ Numbered /\ Evident /\ Locked /\ Popping /\ Told BY DEF IInv, Kept
  <1>1. ctl.pc = "events" /\ ctl \in Reporting
    <2>1. ctl.pc = "events" BY DEF Report, At
    <2> QED BY <1>0, <2>1, PlaceOf DEF Shapes
  <1>2. UNCHANGED <<lock, torn, book, queue, files, turns, opened>> BY DEF Report, ctlRest
  <1>3. turns' \in turns..MaxTurns BY <1>0, <1>2 DEF Controls
  <1>4. CASE queue = << >> /\ ctl' = Cycle /\ UNCHANGED <<journal, told>>
    <2>1. Moves BY <1>1, <1>4 DEF Moves
    <2> QED BY <1>2, <1>3, <1>4, <2>1, KeptMoves
  <1>5. CASE /\ queue # << >> /\ ctl' = [ctl EXCEPT !.pc = "pop"]
             /\ Journal(Head(queue), ctl.snap)
             /\ told' = told \cup {Head(queue)}
    <2> DEFINE ev == Head(queue)
    <2>1. queue \in Seq(Evs) /\ ev \in Evs /\ ev = queue[1] /\ 1 \in DOMAIN queue
      <3>1. queue \in Seq(Evs) BY <1>0 DEF Shapes
      <3> QED BY <1>5, <3>1, HeadTailProperties, EmptySeq, LenProperties
    <2> HIDE DEF ev
    <2>2. Journal(ev, ctl.snap) /\ told' = told \cup {ev} BY <1>5 DEF ev
    <2>3. ctl' \in Reporting /\ ctl'.pc = "pop" /\ ctl'.snap = ctl.snap
      BY <1>0, <1>1, <1>5, Turned
    <2>4. ctl.snap \in 0..files BY <1>1 DEF Reporting
    <2>5. \A c \in Open : book[c].snap = ctl.snap BY <1>0, <1>1 DEF Evident, Working
    <2>6. Refers(ev, ctl.snap) BY <1>0, <2>5 DEF Refers, Evident, EvidenceKept
    <2>7. journal' \in Seq(Recs) /\ Lines' = Lines \cup {ev}
      BY <1>0, <2>1, <2>2, <2>4, JournalAdds
    <2>8. EvidenceKept' BY <1>0, <1>2, <2>1, <2>2, <2>4, <2>6, EvidenceAdds DEF Evident
    <2>9. SameIds /\ Open' = Open /\ Past' = Past
      <3>1. SameIds /\ Open' = Open BY <1>2 DEF SameIds, Open
      <3> QED BY <1>2, <3>1 DEF Past, Ids
    <2>10. Pending = {} /\ Pending' = {} BY <1>1, <2>3 DEF Pending
    <2>11. ev \in Range(queue) BY <2>1 DEF Range
    <2>12. Numbered'
      <3>1. \A c \in Checks : ~Due(c)' BY <2>3 DEF Due
      <3>2. Issued(ev) BY <1>0, <2>11 DEF Numbered
      <3>3. \A e \in Lines' \ Lines : Issued(e) BY <2>7, <3>2
      <3> QED BY <1>0, <1>2, <1>3, <2>9, <2>10, <3>1, <3>3, NumberedSame
    <2>13. Shapes'
      <3>1. ctl' \in Places BY <2>3 DEF Places
      <3> QED BY <1>0, <1>2, <2>7, <3>1, PlacesSame DEF Shapes
    <2>14. Evident' BY <1>2, <2>3, <2>5, <2>8, <2>9 DEF Evident
    <2>15. Locked' BY <2>3 DEF Locked
    <2>16. Popping' BY <1>2, <1>5, <2>2 DEF Popping, ev
    <2>17. Told'
      <3> SUFFICES ASSUME ~torn' PROVE Told' BY DEF Told
      <3>0. ~torn BY <1>2
      <3>1. Somewhere' = Somewhere BY <1>2, <2>2, <2>10, <2>11 DEF Somewhere
      <3>2. ASSUME NEW i \in Ids, <<i, "recovered">> \in told' PROVE <<i, "opened">> \in told'
        <4>1. CASE <<i, "recovered">> \in told BY <1>0, <2>2, <3>0, <4>1 DEF Told
        <4>2. CASE <<i, "recovered">> = ev
          <5>1. \/ <<i, "opened">> \in told
                \/ \E h \in DOMAIN queue : h < 1 /\ queue[h] = <<i, "opened">>
            BY <1>0, <2>1, <3>0, <4>2 DEF Told
          <5>2. \A h \in DOMAIN queue : ~(h < 1) BY <2>1, LenProperties
          <5> QED BY <2>2, <5>1, <5>2
        <4> QED BY <2>2, <3>2, <4>1, <4>2
      <3>3. \A c \in Open' : <<book'[c].id, "opened">> \in Somewhere'
        BY <1>0, <1>2, <2>9, <3>0, <3>1 DEF Told
      <3>4. \A i \in Past' : <<i, "opened">> \in Somewhere' /\ <<i, "recovered">> \in Somewhere'
        BY <1>0, <2>9, <3>0, <3>1 DEF Told
      <3>5. \A k \in DOMAIN queue', i \in Ids :
              queue'[k] = <<i, "recovered">> =>
                \/ <<i, "opened">> \in told'
                \/ \E h \in DOMAIN queue' : h < k /\ queue'[h] = <<i, "opened">>
        <4>1. \A k \in DOMAIN queue, i \in Ids :
              queue[k] = <<i, "recovered">> =>
                \/ <<i, "opened">> \in told
                \/ \E h \in DOMAIN queue : h < k /\ queue[h] = <<i, "opened">>
          BY <1>0, <3>0 DEF Told
        <4> QED BY <1>2, <2>2, <4>1
      <3>6. Ids' = Ids BY DEF Ids
      <3> QED BY <2>10, <3>2, <3>3, <3>4, <3>5, <3>6 DEF Told
    <2> QED BY <2>12, <2>13, <2>14, <2>15, <2>16, <2>17 DEF Kept
  <1> QED BY <1>4, <1>5 DEF Report

(* It is taken off the queue.                                              *)
LEMMA KeptPop == IInv /\ Pop => Kept' /\ Range(queue) \subseteq Range(queue') \cup told
  <1> SUFFICES ASSUME IInv, Pop PROVE Kept' /\ Range(queue) \subseteq Range(queue') \cup told
    OBVIOUS
  <1>0. Controls /\ Shapes /\ Numbered /\ Evident /\ Locked /\ Popping /\ Told BY DEF IInv, Kept
  <1>1. ctl.pc = "pop" BY DEF Pop, At
  <1>2. UNCHANGED <<lock, torn, book, journal, files, turns, opened, told>> BY DEF Pop, ctlRest
  <1>3. ctl' \in Reporting /\ ctl'.pc = "events" /\ ctl'.snap = ctl.snap
    BY <1>0, <1>1, Turned DEF Pop
  <1>4. queue \in Seq(Evs) /\ queue # << >> /\ Head(queue) \in told
    BY <1>0, <1>1 DEF Shapes, Popping
  <1>5. queue' = Tail(queue) BY DEF Pop
  <1>6. /\ queue' \in Seq(Evs) /\ Len(queue') = Len(queue) - 1
        /\ \A k \in 1..Len(queue') : queue'[k] = queue[k + 1]
    BY <1>4, <1>5, HeadTailProperties
  <1>7. /\ Len(queue) \in Nat /\ DOMAIN queue = 1..Len(queue)
        /\ Len(queue') \in Nat /\ DOMAIN queue' = 1..Len(queue')
    BY <1>4, <1>6, LenProperties
  <1>8. queue[1] \in told BY <1>4
  <1>9. Range(queue') \subseteq Range(queue) BY <1>6, <1>7 DEF Range
  <1>10. Range(queue) \subseteq Range(queue') \cup told
    <2> SUFFICES ASSUME NEW k \in DOMAIN queue PROVE queue[k] \in Range(queue') \cup told
      BY DEF Range
    <2>1. CASE k = 1 BY <1>8, <2>1
    <2>2. CASE k # 1
      <3>1. k - 1 \in DOMAIN queue' /\ queue'[k - 1] = queue[k] BY <1>6, <1>7, <2>2
      <3> QED BY <3>1 DEF Range
    <2> QED BY <2>1, <2>2
  <1>11. SameIds /\ Open' = Open /\ Lines' = Lines /\ Past' = Past
    <2>1. SameIds /\ Open' = Open /\ Lines' = Lines BY <1>2 DEF SameIds, Open, Lines
    <2> QED BY <1>2, <2>1 DEF Past, Ids
  <1>12. Pending = {} /\ Pending' = {} BY <1>1, <1>3 DEF Pending
  <1>13. Shapes'
    <2>1. ctl' \in Places BY <1>3 DEF Places
    <2>2. Seq(Evs)' = Seq(Evs) BY DEF Evs, Ids
    <2> QED BY <1>0, <1>2, <1>6, <2>1, <2>2, PlacesSame DEF Shapes
  <1>14. Numbered'
    <2>1. \A c \in Checks : ~Due(c)' BY <1>3 DEF Due
    <2>2. \A e : Issued(e)' <=> Issued(e) BY <1>2 DEF Issued, Ids
    <2> QED BY <1>0, <1>2, <1>9, <1>11, <1>12, <2>1, <2>2 DEF Numbered
  <1>15. Evident'
    <2>1. \A c \in Open : book[c].snap = ctl.snap BY <1>0, <1>1 DEF Evident, Working
    <2>2. EvidenceKept' BY <1>0, <1>2, <1>11 DEF Evident, EvidenceKept
    <2> QED BY <1>2, <1>3, <1>11, <2>1, <2>2 DEF Evident
  <1>16. Locked' /\ Popping' BY <1>3 DEF Locked, Popping
  <1>17. Told'
    <2> SUFFICES ASSUME ~torn' PROVE Told' BY DEF Told
    <2>0. ~torn BY <1>2
    <2>1. Somewhere' = Somewhere BY <1>2, <1>9, <1>10, <1>12 DEF Somewhere
    <2>2. ASSUME NEW k \in DOMAIN queue', NEW i \in Ids, queue'[k] = <<i, "recovered">>
          PROVE  \/ <<i, "opened">> \in told
                 \/ \E h \in DOMAIN queue' : h < k /\ queue'[h] = <<i, "opened">>
      <3>1. k + 1 \in DOMAIN queue /\ queue[k + 1] = <<i, "recovered">> BY <1>6, <1>7, <2>2
      <3>2. \/ <<i, "opened">> \in told
            \/ \E h \in DOMAIN queue : h < k + 1 /\ queue[h] = <<i, "opened">>
        BY <1>0, <2>0, <3>1 DEF Told
      <3>3. ASSUME NEW h \in DOMAIN queue, h < k + 1, queue[h] = <<i, "opened">>
            PROVE  \/ <<i, "opened">> \in told
                   \/ \E g \in DOMAIN queue' : g < k /\ queue'[g] = <<i, "opened">>
        <4>1. CASE h = 1 BY <1>8, <3>3, <4>1
        <4>2. CASE h # 1
          <5>1. h - 1 \in DOMAIN queue' /\ h - 1 < k /\ queue'[h - 1] = queue[h]
            BY <1>6, <1>7, <3>3, <4>2
          <5> QED BY <3>3, <5>1
        <4> QED BY <4>1, <4>2
      <3> QED BY <3>2, <3>3
    <2>3. \A c \in Open' : <<book'[c].id, "opened">> \in Somewhere'
      BY <1>0, <1>2, <1>11, <2>0, <2>1 DEF Told
    <2>4. \A i \in Past' : <<i, "opened">> \in Somewhere' /\ <<i, "recovered">> \in Somewhere'
      BY <1>0, <1>11, <2>0, <2>1 DEF Told
    <2>5. \A i \in Ids : <<i, "recovered">> \in told' => <<i, "opened">> \in told'
      BY <1>0, <1>2, <2>0 DEF Told
    <2>6. Ids' = Ids BY DEF Ids
    <2> QED BY <1>2, <1>12, <2>2, <2>3, <2>4, <2>5, <2>6 DEF Told
  <1> QED BY <1>10, <1>13, <1>14, <1>15, <1>16, <1>17 DEF Kept

-----------------------------------------------------------------------------
(* The retention.                                                          *)

(* What is kept has a rank, and what has one is kept.                      *)
LEMMA Ranked ==
    ASSUME NEW n \in Nat, NEW kept \in SUBSET (1..n), NEW s \in Nat
    PROVE  LET Rank(r) == IF r \in kept THEN Cardinality(kept \cap 1..r) ELSE 0
           IN Rank(s) \in 0..Cardinality(kept) /\ (s \in kept => Rank(s) # 0)
  <1> DEFINE A == kept \cap 1..s  R == IF s \in kept THEN Cardinality(A) ELSE 0
  <1>1. IsFiniteSet(kept) /\ Cardinality(kept) \in Nat
    <2>1. IsFiniteSet(1..n) BY FS_Interval
    <2> QED BY <2>1, FS_Subset, FS_CardinalityType
  <1>2. IsFiniteSet(A) /\ Cardinality(A) \in Nat /\ Cardinality(A) <= Cardinality(kept)
    <2>1. A \in SUBSET kept OBVIOUS
    <2> QED BY <1>1, <2>1, FS_Subset, FS_CardinalityType
  <1>3. ASSUME s \in kept PROVE Cardinality(A) # 0
    <2>1. s \in A BY <1>3
    <2> QED BY <1>2, <2>1, FS_EmptySet
  <1> HIDE DEF A
  <1>4. R \in 0..Cardinality(kept) /\ (s \in kept => R # 0) BY <1>1, <1>2, <1>3
  <1> QED BY <1>4 DEF A

(* What is protected keeps a rank; the records that are kept are those of  *)
(* the journal, in its order, and the others are dropped by choice.        *)
LEMMA KeptRetain == IInv /\ Retain => Kept' /\ Lines' = Lines
  <1> SUFFICES ASSUME IInv, Retain PROVE Kept' /\ Lines' = Lines OBVIOUS
  <1>0. Controls /\ Shapes /\ Numbered /\ Evident /\ Locked /\ Popping /\ Told BY DEF IInv, Kept
  <1>1. PICK k \in 0..files, j \in 0..Len(journal) :
        LET kept == {s \in 1..files : s > k \/ s \in Protected}
            Rank(s) == IF s \in kept THEN Cardinality(kept \cap 1..s) ELSE 0
            ranked == [i \in DOMAIN journal |-> [journal[i] EXCEPT !.snap = Rank(@)]]
        IN /\ files' = Cardinality(kept)
           /\ book' = [c \in Checks |-> [book[c] EXCEPT !.snap = Rank(@)]]
           /\ journal' = ranked
           /\ ctl' = [pc |-> "replace", serving |-> ctl.serving, snap |-> Rank(ctl.snap),
                      keep |-> SubSeq(ranked, j + 1, Len(journal)),
                      drop |-> {journal[i].ev : i \in 1..j}]
    BY DEF Retain, Retain_With
  <1> DEFINE kept == {s \in 1..files : s > k \/ s \in Protected}
             Rank(s) == IF s \in kept THEN Cardinality(kept \cap 1..s) ELSE 0
             keep == SubSeq(journal', j + 1, Len(journal))
             drop == {journal[i].ev : i \in 1..j}
  <1>2. files \in Nat /\ kept \in SUBSET (1..files) BY <1>0 DEF Shapes
  <1>3. \A s \in 0..files : Rank(s) \in 0..Cardinality(kept) /\ (s \in kept => Rank(s) # 0)
    <2> SUFFICES ASSUME NEW s \in 0..files
                 PROVE  Rank(s) \in 0..Cardinality(kept) /\ (s \in kept => Rank(s) # 0)
      OBVIOUS
    <2>1. s \in Nat BY <1>2
    <2> HIDE DEF kept
    <2> QED BY <1>2, <2>1, Ranked
  <1>4. Cardinality(kept) \in Nat
    <2>1. IsFiniteSet(1..files) BY <1>2, FS_Interval
    <2> HIDE DEF kept
    <2>2. IsFiniteSet(kept) BY <1>2, <2>1, FS_Subset
    <2> QED BY <2>2, FS_CardinalityType
  <1>5. files' = Cardinality(kept) BY <1>1
  <1>6. book' = [c \in Checks |-> [book[c] EXCEPT !.snap = Rank(@)]] BY <1>1
  <1>7. journal' = [i \in DOMAIN journal |-> [journal[i] EXCEPT !.snap = Rank(@)]] BY <1>1
  <1>8. ctl' = [pc |-> "replace", serving |-> ctl.serving, snap |-> Rank(ctl.snap),
                keep |-> keep, drop |-> drop]
    BY <1>1
  <1>9. \A s \in Protected : s \in 1..files => s \in kept OBVIOUS
  <1> HIDE DEF Rank, kept
  <1>10. \A s \in 0..files : Rank(s) \in 0..files' BY <1>3, <1>5
  <1>11. ctl.pc = "retain" /\ ctl \in Retaining
    <2>1. ctl.pc = "retain" BY DEF Retain, Retain_With, At
    <2> QED BY <1>0, <2>1, PlaceOf DEF Shapes
  <1>12. ctl.snap \in 0..files /\ ctl.serving \in BOOLEAN BY <1>11 DEF Retaining
  <1>13. UNCHANGED <<torn, queue, turns, opened, told>> /\ lock' = TRUE
    BY DEF Retain, Retain_With, ctlRest
  <1>14. ASSUME NEW c \in Checks
         PROVE  /\ book[c].snap \in 0..files
                /\ book'[c].fails = book[c].fails /\ book'[c].id = book[c].id
                /\ book'[c].snap = Rank(book[c].snap) /\ book'[c] \in Entries'
    <2>1. book[c] \in Entries BY <1>0 DEF Shapes
    <2>2. book[c].snap \in 0..files BY <2>1 DEF Entries
    <2>3. book'[c] = [book[c] EXCEPT !.snap = Rank(book[c].snap)] BY <1>6
    <2>4. Rank(book[c].snap) \in 0..files' BY <1>10, <2>2
    <2> QED BY <2>1, <2>2, <2>3, <2>4 DEF Entries, Ids
  <1>15. SameIds /\ Open' = Open BY <1>14 DEF SameIds, Open
  <1>16. journal \in Seq(Recs) /\ Len(journal) \in Nat /\ DOMAIN journal = 1..Len(journal)
    <2>1. journal \in Seq(Recs) BY <1>0 DEF Shapes
    <2> QED BY <2>1, LenProperties
  <1>17. ASSUME NEW i \in 1..Len(journal)
         PROVE  /\ journal[i] \in Recs /\ journal[i].snap \in 0..files /\ journal[i].ev \in Evs
                /\ journal'[i].ev = journal[i].ev
                /\ journal'[i].snap = Rank(journal[i].snap) /\ journal'[i] \in Recs'
    <2>1. journal[i] \in Recs BY <1>16, ElementOfSeq
    <2>2. journal[i].snap \in 0..files /\ journal[i].ev \in Evs BY <2>1 DEF Recs
    <2>3. journal'[i] = [journal[i] EXCEPT !.snap = Rank(journal[i].snap)] BY <1>7, <1>16
    <2>4. Rank(journal[i].snap) \in 0..files' BY <1>10, <2>2
    <2>5. Evs' = Evs BY DEF Evs, Ids
    <2> QED BY <2>1, <2>2, <2>3, <2>4, <2>5 DEF Recs
  <1>18. journal' \in Seq(Recs') /\ Len(journal') = Len(journal) /\ DOMAIN journal' = DOMAIN journal
    <2>1. journal' = [i \in 1..Len(journal) |-> journal'[i]] BY <1>7, <1>16
    <2>2. journal' \in [1..Len(journal) -> Recs'] BY <1>17, <2>1
    <2> QED BY <1>16, <2>2
  <1>19. Lines' = Lines BY <1>16, <1>17, <1>18 DEF Lines
  <1>20. /\ keep \in Seq(Recs')
         /\ Len(keep) = Len(journal) - j
         /\ \A i \in 1..(Len(journal) - j) : keep[i] = journal'[j + i]
    <2>1. \A i \in (j + 1)..Len(journal) : journal'[i] \in Recs' BY <1>16, <1>17
    <2>2. j + 1 \in Int /\ Len(journal) \in Int BY <1>16
    <2>3. /\ keep \in Seq(Recs')
          /\ Len(keep) = IF j + 1 <= Len(journal) THEN Len(journal) - (j + 1) + 1 ELSE 0
          /\ \A i \in 1..(Len(journal) - (j + 1) + 1) : keep[i] = journal'[j + 1 + i - 1]
      BY <2>1, <2>2, SubSeqProperties
    <2> HIDE DEF keep
    <2>4. Len(keep) = Len(journal) - j
      <3>1. Len(keep) = IF j + 1 <= Len(journal) THEN Len(journal) - (j + 1) + 1 ELSE 0
        BY <2>3
      <3>2. j \in 0..Len(journal) /\ Len(journal) \in Nat BY <1>16
      <3>3. CASE j + 1 <= Len(journal) BY <3>1, <3>2, <3>3
      <3>4. CASE ~(j + 1 <= Len(journal)) BY <3>1, <3>2, <3>4
      <3> QED BY <3>3, <3>4
    <2>5. ASSUME NEW i \in 1..(Len(journal) - j) PROVE keep[i] = journal'[j + i]
      <3>1. i \in 1..(Len(journal) - (j + 1) + 1) /\ j + 1 + i - 1 = j + i BY <1>16
      <3>2. keep[i] = journal'[j + 1 + i - 1] BY <2>3, <3>1
      <3> QED BY <3>1, <3>2
    <2> QED BY <2>3, <2>4, <2>5
  <1>21. drop \subseteq Evs BY <1>16, <1>17
  <1> HIDE DEF keep
  <1>22. DOMAIN keep = 1..Len(keep) BY <1>20, LenProperties
  <1>23. Range(keep) \subseteq Range(journal')
    <2> SUFFICES ASSUME NEW i \in DOMAIN keep PROVE keep[i] \in Range(journal') BY DEF Range
    <2>1. i \in 1..(Len(journal) - j) BY <1>20, <1>22
    <2>2. j + i \in DOMAIN journal' BY <1>16, <1>18, <2>1
    <2>3. keep[i] = journal'[j + i] BY <1>20, <2>1
    <2> QED BY <2>2, <2>3 DEF Range
  <1>24. ASSUME NEW i \in DOMAIN journal'
         PROVE  journal'[i].ev \in drop \/ journal'[i] \in Range(keep)
    <2>1. i \in 1..Len(journal) BY <1>16, <1>18
    <2>2. CASE i <= j
      <3>1. i \in 1..j BY <2>1, <2>2
      <3> QED BY <1>17, <2>1, <3>1
    <2>3. CASE i > j
      <3>1. i - j \in 1..(Len(journal) - j) /\ j + (i - j) = i BY <1>16, <2>1, <2>3
      <3>2. i - j \in DOMAIN keep BY <1>20, <1>22, <3>1
      <3>3. keep[i - j] = journal'[j + (i - j)] BY <1>20, <3>1
      <3> QED BY <3>1, <3>2, <3>3 DEF Range
    <2> QED BY <2>1, <2>2, <2>3
  <1> HIDE DEF drop
  <1>25. /\ ctl'.pc = "replace" /\ ctl'.keep = keep /\ ctl'.drop = drop
         /\ ctl'.snap = Rank(ctl.snap) /\ ctl' \in Replacing'
    <2>1. Rank(ctl.snap) \in 0..files' BY <1>10, <1>12
    <2>2. keep \in Seq(Recs)' BY <1>20
    <2>3. drop \in SUBSET Evs' BY <1>21 DEF Evs, Ids
    <2> QED BY <1>8, <1>12, <2>1, <2>2, <2>3 DEF Replacing
  <1>26. Pending = {} /\ Pending' = {} BY <1>11, <1>25 DEF Pending
  <1>27. Shapes'
    <2>1. files' \in Nat BY <1>4, <1>5
    <2>2. ctl' \in Places' BY <1>25 DEF Places
    <2>3. book' \in [Checks -> Entries'] BY <1>6, <1>14
    <2>4. \A c \in Checks : book'[c].fails = Requires[c] <=> book'[c].id # None
      BY <1>0, <1>14 DEF Shapes
    <2>5. Seq(Evs)' = Seq(Evs) /\ Seq(Recs)' = Seq(Recs') BY DEF Evs, Ids
    <2> QED BY <1>0, <1>13, <1>18, <2>1, <2>2, <2>3, <2>4, <2>5 DEF Shapes
  <1>28. Numbered'
    <2>1. \A c \in Checks : ~Due(c)' BY <1>25 DEF Due
    <2>2. turns' \in turns..MaxTurns BY <1>0, <1>13 DEF Controls
    <2> QED BY <1>0, <1>13, <1>15, <1>19, <1>26, <2>1, <2>2, NumberedSame
  <1>29. Told' BY <1>0, <1>13, <1>15, <1>26, ToldSame
  <1>30. Evident'
    <2>1. ASSUME NEW c \in Open
          PROVE  book'[c].snap # 0 /\ book'[c].snap = ctl'.snap
      <3>1. c \in Checks BY DEF Open
      <3>2. book[c].snap # 0 /\ book[c].snap = ctl.snap
        BY <1>0, <1>11 DEF Evident, EvidenceKept, Working
      <3>3. book[c].snap \in 1..files /\ book[c].snap \in Protected
        BY <1>14, <3>1, <3>2 DEF Protected
      <3>4. Rank(book[c].snap) # 0 BY <1>3, <1>9, <3>3
      <3> QED BY <1>14, <1>25, <3>1, <3>2, <3>4
    <2>2. ASSUME NEW c \in Open, NEW i \in DOMAIN journal', journal'[i].ev[1] = book'[c].id
          PROVE  journal'[i].snap # 0
      <3>1. c \in Checks BY DEF Open
      <3>2. i \in 1..Len(journal) /\ i \in DOMAIN journal BY <1>16, <1>18
      <3>3. journal[i].ev[1] = book[c].id BY <1>14, <1>17, <2>2, <3>1, <3>2
      <3>4. journal[i].snap # 0 BY <1>0, <3>2, <3>3 DEF Evident, EvidenceKept
      <3>5. journal[i].snap \in 1..files BY <1>17, <3>2, <3>4
      <3>6. journal[i].snap \in Protected BY <3>2, <3>3 DEF Protected
      <3>7. Rank(journal[i].snap) # 0 BY <1>3, <1>9, <3>5, <3>6
      <3> QED BY <1>17, <3>2, <3>7
    <2>3. EvidenceKept' BY <1>15, <2>1, <2>2 DEF EvidenceKept
    <2> QED BY <1>15, <1>25, <2>1, <2>3 DEF Evident
  <1>31. Locked' BY <1>13, <1>23, <1>24, <1>25 DEF Locked
  <1>32. Popping' BY <1>25 DEF Popping
  <1> QED BY <1>19, <1>27, <1>28, <1>29, <1>30, <1>31, <1>32 DEF Kept

(* The journal is replaced: nobody has added to it since.                  *)
LEMMA KeptReplace == IInv /\ Replace => Kept' /\ Lines \ Lines' \subseteq ctl.drop
  <1> SUFFICES ASSUME IInv, Replace PROVE Kept' /\ Lines \ Lines' \subseteq ctl.drop OBVIOUS
  <1>0. Controls /\ Shapes /\ Numbered /\ Evident /\ Locked /\ Popping /\ Told BY DEF IInv, Kept
  <1>1. ctl.pc = "replace" /\ ctl \in Replacing
    <2>1. ctl.pc = "replace" BY DEF Replace, At
    <2> QED BY <1>0, <2>1, PlaceOf DEF Shapes
  <1>2. ctl.keep \in Seq(Recs) /\ ctl.snap \in 0..files BY <1>1 DEF Replacing
  <1>3. journal' = ctl.keep /\ lock' = FALSE BY DEF Replace
  <1>4. UNCHANGED <<torn, book, queue, files, turns, opened, told>> BY DEF Replace, ctlRest
  <1>5. ctl' = Cycle \/ ctl' = [pc |-> "failure", snap |-> ctl.snap] BY DEF Replace
  <1>6. /\ Range(journal') \subseteq Range(journal)
        /\ \A i \in DOMAIN journal : journal[i].ev \in ctl.drop \/ journal[i] \in Range(journal')
    BY <1>0, <1>1, <1>3 DEF Locked
  <1>7. \A i \in DOMAIN journal' : \E h \in DOMAIN journal : journal'[i] = journal[h]
    BY <1>6 DEF Range
  <1>8. Lines' \subseteq Lines BY <1>7 DEF Lines
  <1>9. Lines \ Lines' \subseteq ctl.drop
    <2> SUFFICES ASSUME NEW i \in DOMAIN journal, journal[i] \in Range(journal')
                 PROVE  journal[i].ev \in Lines'
      BY <1>6 DEF Lines
    <2>1. PICK h \in DOMAIN journal' : journal'[h] = journal[i] BY DEF Range
    <2> QED BY <2>1 DEF Lines
  <1>10. /\ ctl' \in {Cycle} \cup Reporting /\ ctl'.pc \in {"cycle", "failure"}
         /\ ctl'.pc = "failure" => ctl'.snap = ctl.snap
    <2>1. CASE ctl' = Cycle BY <2>1 DEF Cycle
    <2>2. CASE ctl' = [pc |-> "failure", snap |-> ctl.snap] BY <1>2, <2>2 DEF Reporting
    <2> QED BY <1>5, <2>1, <2>2
  <1>11. SameIds /\ Open' = Open BY <1>4 DEF SameIds, Open
  <1>12. Pending = {} /\ Pending' = {} BY <1>1, <1>10 DEF Pending
  <1>13. Shapes'
    <2>1. ctl' \in Places BY <1>10 DEF Places
    <2>2. lock' \in BOOLEAN BY <1>3
    <2> QED BY <1>0, <1>2, <1>3, <1>4, <2>1, <2>2, PlacesSame DEF Shapes
  <1>14. Numbered'
    <2>1. \A c \in Checks : ~Due(c)' BY <1>10 DEF Due
    <2>2. turns' \in turns..MaxTurns BY <1>0, <1>4 DEF Controls
    <2> QED BY <1>0, <1>4, <1>8, <1>11, <1>12, <2>1, <2>2, NumberedSame
  <1>15. Told' BY <1>0, <1>4, <1>11, <1>12, ToldSame
  <1>16. Evident'
    <2>1. \A c \in Open : book[c].snap = ctl.snap BY <1>0, <1>1 DEF Evident, Working
    <2>2. EvidenceKept'
      BY <1>0, <1>4, <1>7, <1>11 DEF Evident, EvidenceKept
    <2> QED BY <1>4, <1>10, <1>11, <2>1, <2>2 DEF Evident, Working
  <1>17. Locked' /\ Popping' BY <1>10 DEF Locked, Popping
  <1> QED BY <1>9, <1>13, <1>14, <1>15, <1>16, <1>17 DEF Kept

-----------------------------------------------------------------------------
(* All steps together.                                                     *)

(* Every step keeps the data.                                              *)
LEMMA StepKept == IInv /\ Next => Kept'
  <1> SUFFICES ASSUME IInv, Next PROVE Kept' OBVIOUS
  <1>1. CASE Others
    <2>1. (DataSame \/ Dies) /\ turns' \in turns..MaxTurns BY <1>1, OthersApart DEF IInv
    <2> QED BY <2>1, KeptSame, KeptDies
  <1>2. CASE Audit BY <1>2, KeptAudit
  <1>3. CASE AnalysisFails \/ IndexFails BY <1>3, KeptFails, KeptIndexFails
  <1>4. CASE Controller
    <2>1. CASE \E serving \in BOOLEAN : Heartbeat(serving) BY <2>1, KeptHeartbeat
    <2> QED BY <1>4, <2>1, KeptBegin, KeptReconcile, KeptQueue, KeptRetain, KeptReplace,
               KeptRollback, KeptMark, KeptReport, KeptPop DEF Controller
  <1> QED BY <1>1, <1>2, <1>3, <1>4 DEF Next, Page, Others

(* What the steps keep, and what they lead to.                             *)
THEOREM Invariant == Spec => []IInv
  <1>1. IInv /\ [Next]_vars => IInv'
    <2> SUFFICES ASSUME IInv, [Next]_vars PROVE IInv' OBVIOUS
    <2>1. CASE Next BY <2>1, StepControls, StepKept DEF IInv
    <2>2. CASE UNCHANGED vars
      <3>1. UNCHANGED <<pageVars, supVars, launch, turns>> /\ DataSame
        BY <2>2 DEF vars, procVars, diskVars, DataSame
      <3>2. turns \in 0..MaxTurns /\ turns' \in turns..MaxTurns
        BY <3>1 DEF IInv, Controls
      <3>3. Controls' BY <3>1 DEF IInv, Controls, pageVars, supVars
      <3>4. Noted' BY <3>1 DEF IInv, Noted, Known, supVars, DataSame
      <3>5. Succession' BY <3>1, <3>2, SuccessionSame DEF IInv, supVars
      <3> QED BY <3>1, <3>2, <3>3, <3>4, <3>5, KeptSame DEF IInv
    <2> QED BY <2>1, <2>2
  <1> QED BY <1>1, InitInv, PTL DEF Spec

(* The types, and an incident is open exactly after enough failures in a   *)
(* row.                                                                    *)
THEOREM Typed == Spec => []TypeOK
  <1>1. IInv => TypeOK
    <2> SUFFICES ASSUME IInv PROVE TypeOK OBVIOUS
    <2>0. Controls /\ Succession /\ Shapes BY DEF IInv, Kept
    <2>1. Range(queue) \subseteq Evs
      <3>1. queue \in Seq(Evs) BY <2>0 DEF Shapes
      <3> QED BY <3>1, RangeOfSeq
    <2>2. \A i \in DOMAIN journal : journal[i].ev \in Evs
      <3>1. journal \in Seq(Recs) BY <2>0 DEF Shapes
      <3>2. \A i \in DOMAIN journal : journal[i] \in Recs BY <3>1, ElementOfSeq, LenProperties
      <3> QED BY <3>2 DEF Recs
    <2>3. era \in Eras BY <2>0 DEF Controls, Succession, Eras
    <2> QED BY <2>0, <2>1, <2>2, <2>3 DEF TypeOK, Controls, Succession, Shapes
  <1> QED BY <1>1, Invariant, PTL

(* Once PID 1 is stood down and the supervisors it stopped have run their   *)
(* trap, nothing of SOUL runs, unless a stop came between the start of a    *)
(* launcher and the note of its pid (stop_soul_supervisor, stop_soul).      *)
THEOREM Quiet == Spec => []StoodDownIsQuiet
  <1>1. IInv => StoodDownIsQuiet
    <2> SUFFICES ASSUME IInv, pid1 = "stood", leaving = {}, ~escaped PROVE NothingRuns
      BY DEF StoodDownIsQuiet
    <2>1. Noted BY DEF IInv
    <2>2. ctl = Gone BY <2>1 DEF Noted
    <2>3. \A e \in Eras : launch[e] = "gone" BY <2>1 DEF Noted, Known
    <2> QED BY <2>2, <2>3 DEF NothingRuns
  <1> QED BY <1>1, Invariant, PTL

(* Unless the controller died between its two writes, the opening and the  *)
(* recovery of every incident are queued or journaled, in this order.      *)
THEOREM Telling == Spec => []IncidentsTold
  <1>1. IInv => IncidentsTold
    <2> SUFFICES ASSUME IInv, ~torn, ctl.pc # "queue" PROVE IncidentsTold
      BY DEF IncidentsTold
    <2>1. Told BY DEF IInv, Kept
    <2>2. Somewhere = told \cup Range(queue) BY DEF Somewhere, Pending
    <2>3. Past \subseteq Ids BY DEF Past
    <2> QED BY <2>1, <2>2, <2>3 DEF Told, IncidentsTold
  <1> QED BY <1>1, Invariant, PTL

(* No step loses a line of the journal or an event of the queue.           *)
LEMMA StepLoses == IInv /\ Next => JournalKept /\ QueueKept
  <1> SUFFICES ASSUME IInv, Next PROVE JournalKept /\ QueueKept OBVIOUS
  <1>0. Controls /\ Shapes BY DEF IInv, Kept
  <1>1. CASE UNCHANGED <<queue, journal>> BY <1>1 DEF JournalKept, QueueKept, Lines
  <1>2. CASE queue' = queue /\ \E ev \in Evs, snap \in 0..files : Journal(ev, snap)
    BY <1>0, <1>2, JournalAdds DEF JournalKept, QueueKept
  <1>3. CASE Others
    <2>1. DataSame \/ Dies BY <1>0, <1>3, OthersApart
    <2> QED BY <1>1, <2>1 DEF DataSame, Dies
  <1>4. CASE Audit
    <2>1. Plain(<<<<None, turns>>, "audit">>) BY <1>0, <1>4, PlainEvents DEF Audit
    <2>2. Journal(<<<<None, turns>>, "audit">>, 0) /\ queue' = queue BY <1>4 DEF Audit
    <2>3. 0 \in 0..files BY <1>0 DEF Shapes
    <2> QED BY <1>2, <2>1, <2>2, <2>3 DEF Plain
  <1>5. CASE Begin \/ Rollback
    <2>1. Plain(<<<<None, 0>>, "started">>) /\ Plain(<<<<None, 0>>, "rollback">>)
      BY <1>0, PlainEvents
    <2>2. /\ queue' = queue
          /\ \/ UNCHANGED journal
             \/ Journal(<<<<None, 0>>, "started">>, 0)
             \/ Journal(<<<<None, 0>>, "rollback">>, 0)
      BY <1>5 DEF Begin, Rollback
    <2>3. 0 \in 0..files BY <1>0 DEF Shapes
    <2> QED BY <1>1, <1>2, <2>1, <2>2, <2>3 DEF Plain
  <1>6. CASE (\E serving \in BOOLEAN : Heartbeat(serving)) \/ Reconcile \/ IndexFails
             \/ MarkAnalyzed \/ AnalysisFails
    BY <1>1, <1>6 DEF Heartbeat, Reconcile, IndexFails, MarkAnalyzed, AnalysisFails, diskVars
  <1>7. CASE Queue
    <2>1. journal' = journal BY <1>7 DEF Queue
    <2>2. Lines' = Lines BY <2>1 DEF Lines
    <2> QED BY <1>7, <2>2, KeptQueue DEF JournalKept, QueueKept
  <1>8. CASE Retain
    <2>1. queue' = queue BY <1>8 DEF Retain, Retain_With
    <2> QED BY <1>8, <2>1, KeptRetain DEF JournalKept, QueueKept
  <1>9. CASE Replace
    <2>1. queue' = queue /\ At("replace") BY <1>9 DEF Replace
    <2> QED BY <1>9, <2>1, KeptReplace DEF JournalKept, QueueKept
  <1>10. CASE Report
    <2>1. queue' = queue BY <1>10 DEF Report
    <2>2. CASE UNCHANGED journal BY <1>1, <2>1, <2>2
    <2>3. CASE queue # << >> /\ Journal(Head(queue), ctl.snap)
      <3>1. queue \in Seq(Evs) BY <1>0 DEF Shapes
      <3>2. Head(queue) \in Evs BY <2>3, <3>1, HeadTailProperties
      <3>3. ctl.pc = "events" BY <1>10 DEF Report, At
      <3>4. ctl \in Reporting BY <1>0, <3>3, PlaceOf DEF Shapes
      <3>5. ctl.snap \in 0..files BY <3>4 DEF Reporting
      <3> QED BY <1>2, <2>1, <2>3, <3>2, <3>5
    <2> QED BY <1>10, <2>2, <2>3 DEF Report
  <1>11. CASE Pop
    <2>1. journal' = journal BY <1>11 DEF Pop
    <2>2. Lines' = Lines BY <2>1 DEF Lines
    <2> QED BY <1>11, <2>2, KeptPop DEF JournalKept, QueueKept
  <1> QED BY <1>3, <1>4, <1>5, <1>6, <1>7, <1>8, <1>9, <1>10, <1>11
          DEF Next, Page, Controller, Others

(* Nor does it lose the evidence of an open incident: of the page's, the   *)
(* supervisor's and the controller's steps and deaths none loses anything  *)
(* (journal_lock, dequeue_event, _open_incident_files).                    *)
THEOREM Safekeeping == Spec => NothingLost
  <1>1. IInv /\ IInv' /\ [Next]_vars => [JournalKept /\ QueueKept /\ EvidenceKept']_vars
    <2> SUFFICES ASSUME IInv, IInv', Next PROVE JournalKept /\ QueueKept /\ EvidenceKept'
      OBVIOUS
    <2>1. EvidenceKept' BY DEF IInv, Kept, Evident
    <2> QED BY <2>1, StepLoses
  <1> QED BY <1>1, Invariant, PTL DEF Spec, NothingLost

=============================================================================
