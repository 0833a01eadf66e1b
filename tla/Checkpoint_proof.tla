-------------------------- MODULE Checkpoint_proof --------------------------
(***************************************************************************)
(* What an engine is started on, for every set of revisions and any number *)
(* of stops and failed steps.                                              *)
(***************************************************************************)
EXTENDS Checkpoint, TLAPS

(* The reconciler's results once its steps are done: nothing after a step undoes
   what it derived. *)
Done1 == {"recIdx", "recTplBackup", "recTpl", "recGrafted", "recTrellis", "recVision", "ready"}
Done2 == Done1 \ {"recIdx"}
Done3 == {"recTrellis", "recVision", "ready"}

Derived ==
    /\ pc \in Done1 => Readable("cfg") /\ disk["cfg"].l78 = L78 /\ disk["cfg"].vision = VisionOn
    /\ pc \in Done2 => disk["idx"] = [rev |-> disk["shard"].rev, l78 |-> L78, vision |-> VisionOn]
    /\ pc \in Done3 => (Has(".grafted") => L78 = "trellis" \/ ".grafted" \in passed)

(* The native layer is in place or saved, and what is saved is native. *)
Native ==
    /\ L78 = "trellis" => Has("shard.orig")
    /\ Has("shard.orig") => disk["shard.orig"].l78 = "bf16"
    /\ pc \in {"graftShard", "graftIdx", "graftCfg", "graftMark"} =>
            Has("shard.orig") /\ Has("idx.orig") /\ Has("cfg.orig")

(* The text-only template is in place or saved.  A backup was cut short only by its
   own copy, config.json and the index only where a backup of them was, and none
   is before the first fault. *)
Template ==
    /\ disk["tpl"] # "text" => Has("tpl.text-only")
    /\ disk["tpl.text-only"] = Torn => "tpl.text-only" \in cut
    /\ \A f \in {"cfg", "cfg.orig", "cfg.text-only"} : disk[f] = Torn => "cfg.text-only" \in cut
    /\ \A f \in {"idx", "idx.orig", "idx.text-only"} : disk[f] = Torn => "idx.text-only" \in cut
    /\ faults = 0 => cut = {}
    /\ pc \in {"tpl", "cfgBackup", "cfg", "mark", "idxBackup", "idx"} => Has("tpl.text-only")
    /\ pc \in {"cfg", "mark", "idxBackup", "idx"} => Has("cfg.text-only")
    /\ pc = "idx" => Has("idx.text-only")
    /\ pc = "recTpl" /\ VisionOn => Has("tpl.text-only")

(* The tower is whole where the marker says so, and where the reconciler finds that
   vision was asked for; the marker is gone where it was not. *)
Installing == {"tplBackup", "tpl", "cfgBackup", "cfg", "mark", "idxBackup", "idx"}
Towered ==
    /\ Has(".vision") => disk["tower"] = "present"
    /\ pc \in Installing /\ ~(pc = "tplBackup" /\ back = "idle") => disk["tower"] = "present"
    /\ pc \in Installing \cup {"tower"} => want.vision
    /\ pc = "tower" => ~Has(".vision")
    /\ pc = "revert" => back # "recCfg"
    /\ pc \in {"unCfg", "unMark", "unIdx", "unTpl"} /\ back = "recCfg" => ~want.vision
    /\ pc \in {"unCfg", "unMark", "unIdx", "unTpl"} => back \in {"idle", "recCfg"}
    /\ pc \in {"unIdx", "unTpl"} /\ back = "recCfg" => ~Has(".vision")
    /\ pc \in {"recCfg"} \cup Done1 =>
            IF want.vision THEN disk["tower"] = "present" ELSE ~Has(".vision")
    /\ pc \in {"recGrafted"} \cup Done3 /\ "tpl" \notin passed =>
            IF want.vision THEN disk["tpl"] = "vision"
            ELSE disk["tpl"] = "text" \/ "tpl.text-only" \in cut
    /\ pc = "ready" => Has(".vision") = want.vision

IInv == TypeOK /\ Derived /\ Native /\ Template /\ Towered

(* As long as nothing failed and vision was never installed.  The preparation *)
(* knows what is on disk from .complete and .grafted: the revision, but for   *)
(* the files a running download has replaced, and a graft, but for a running  *)
(* graft or revert.                                                           *)
Calm == faults = 0 /\ ~Has("tpl.text-only")
Grafting == {"overlay", "graftShard", "graftIdx", "graftCfg", "graftMark"}
Uninstalling == {"unCfg", "unMark", "unIdx", "unTpl"}
Chosen == Steps \ ({"idle", "revert", "fetch", "mtp"} \cup Grafting)

RevisionKnown ==
    /\ \A f \in {"shard", "cfg"} :
        /\ Has(Orig[f]) => disk[Orig[f]].rev = disk[".complete"]
        /\ disk[f].rev = IF pc = "fetch" /\ f \in got THEN want.rev ELSE disk[".complete"]
    /\ pc \notin {"idle", "revert", "fetch"} => disk[".complete"] = want.rev
    /\ pc = "fetch" /\ got # {} => disk[".complete"] # want.rev
    /\ pc = "fetch" /\ disk[".complete"] # want.rev => ~Has(".grafted")

GraftKnown ==
    /\ pc \notin Grafting \cup {"revert"} =>
        /\ Has(".grafted") <=> L78 = "trellis"
        /\ Has(".grafted") \/ Saved = {}
    /\ pc = "revert" => back = "fetch" /\ got = {} /\ (Has("shard.orig") \/ L78 = "bf16")
    /\ pc \in {"fetch", "mtp"} /\ Has(".grafted") => want.graft
    /\ pc \in Grafting => want.graft /\ ~Has(".grafted")
    /\ pc \in {"graftIdx", "graftCfg", "graftMark"} => L78 = "trellis"
    /\ pc \in Chosen => (Has(".grafted") <=> want.graft)

VisionAbsent ==
    /\ ~Has(".vision") /\ pc \notin Uninstalling
    /\ pc \in {"recCfg"} \cup Done1 => ~want.vision

Asked == Calm => RevisionKnown /\ GraftKnown /\ VisionAbsent

USE CheckpointAssumption, NoneIsNoFile

(* A checkpoint that was only downloaded. *)
LEMMA InitIInv == Init => IInv
  <1> SUFFICES ASSUME Init PROVE IInv OBVIOUS
  <1> USE DEF Init, Files, Readable, CopiedInPlace
  <1>1. PICK w \in Wish : want = w /\ disk["shard"] = [rev |-> w.rev, l78 |-> "bf16"]
            /\ disk["idx"] = [rev |-> w.rev, l78 |-> "bf16", vision |-> FALSE]
            /\ disk["cfg"] = [rev |-> w.rev, l78 |-> "bf16", vision |-> FALSE]
            /\ disk["tpl"] = "text" /\ disk[".complete"] = w.rev
            /\ disk = [f \in Files |-> disk[f]]
            /\ \A f \in Files \ {"shard", "idx", "cfg", "tpl", ".complete"} : disk[f] = None
    BY DEF Wish
  <1>2. TypeOK BY <1>1 DEF TypeOK, Shard, Doc, Layer, Steps, Touched, Orig, Text, Wish
  <1>3. disk["cfg"] \in Doc /\ disk["idx"] \in Doc BY <1>1 DEF Doc, Layer, Wish
  <1>4. pc = "idle" /\ back = "idle" /\ cut = {} OBVIOUS
  <1>5. Derived /\ Native /\ Towered
    BY <1>1, <1>4 DEF Derived, Native, Towered, Installing, VisionOn, L78, Has, Done1, Done2, Done3
  <1>6. Template
    BY <1>1, <1>3, <1>4 DEF Template, Has
  <1> QED BY <1>2, <1>5, <1>6 DEF IInv

(* Wrapping or unwrapping a configuration gives a configuration. *)
LEMMA Wrapping ==
    ASSUME NEW d \in Doc, NEW v \in BOOLEAN
    PROVE  [d EXCEPT !.vision = v] \in Doc
  BY DEF Doc

(* What updating one file means: the others are left alone. *)
Only(f, v) ==
    /\ disk' = [g \in Files |-> disk'[g]]
    /\ disk'[f] = v
    /\ \A g \in Files : g # f => disk'[g] = disk[g]

(* The same without the value. *)
Framed(f) ==
    /\ disk' = [g \in Files |-> disk'[g]]
    /\ \A g \in Files : g # f => disk'[g] = disk[g]

(* Writing a file. *)
LEMMA WriteOnly ==
    ASSUME disk = [g \in Files |-> disk[g]], NEW f \in Files, NEW v, Write(f, v)
    PROVE  Only(f, v)
  BY DEF Write, Only

(* Removing one. *)
LEMMA RemoveOnly ==
    ASSUME disk = [g \in Files |-> disk[g]], NEW f \in Files, Remove(f)
    PROVE  Only(f, None)
  BY DEF Remove, Only

(* Renaming one over another. *)
LEMMA ReplaceBoth ==
    ASSUME disk = [g \in Files |-> disk[g]], NEW b \in Files, NEW f \in Files, b # f, Replace(b, f)
    PROVE  /\ disk' = [g \in Files |-> disk'[g]]
           /\ disk'[f] = disk[b] /\ disk'[b] = None
           /\ \A g \in Files : g # f /\ g # b => disk'[g] = disk[g]
  BY DEF Replace

(* Starting, and failing or being stopped anywhere. *)
LEMMA BeginIInv ==
    ASSUME IInv, Begin \/ Stopped \/ Failed \/ DownloadFails
    PROVE  IInv'
  <1> USE DEF Goto, Step, Has, L78, VisionOn, Orig, Text, Files, Readable, Reads, WriteIf, seen, CopiedInPlace
  <1>0. disk = [g \in Files |-> disk[g]] BY DEF IInv, TypeOK
  <1>1. CASE Begin
    BY <1>1 DEF Begin, Keep, IInv, TypeOK, Derived, Native, Template, Towered, Installing, Done1, Done2, Done3, Steps, Shard, Doc, Layer, Touched, Wish
  <1>2. CASE Stopped
    BY <1>2 DEF Stopped, GoOn, IInv, TypeOK, Derived, Native, Template, Towered, Installing, Done1, Done2, Done3, Steps, Shard, Doc, Layer, Touched, Wish
  <1>3. CASE Failed
    BY <1>3 DEF Failed, Fails, Unwind, GoOn, PassOver, IInv, TypeOK, Derived, Native, Template, Towered, Installing, Done1, Done2, Done3, Steps, Shard, Doc, Layer, Touched, Wish
  <1>4. CASE DownloadFails
    BY <1>4 DEF DownloadFails, Unwind, IInv, TypeOK, Derived, Native, Template, Towered, Installing, Done1, Done2, Done3, Steps, Shard, Doc, Layer, Touched, Wish
  <1> QED BY <1>1, <1>2, <1>3, <1>4

(* A copy that is cut short: the file is one of those that are copied in place, and
   a step that fails goes where it does without the copy. *)
LEMMA CutIInv ==
    ASSUME IInv, CutShort
    PROVE  IInv'
  <1> USE DEF Goto, Step, Has, L78, VisionOn, Orig, Text, Files, Readable, Reads, WriteIf, seen, CopiedInPlace
  <1>0. disk = [g \in Files |-> disk[g]] BY DEF IInv, TypeOK
  <1>1. PICK f \in CopiedInPlace : Copies(f) /\ Write(f, Torn) /\ cut' = cut \cup {f}
    BY DEF CutShort
  <1>2. Only(f, Torn) BY <1>0, <1>1, WriteOnly
  <1>3. Fails \/ GoOn("idle") BY DEF CutShort
  <1>4. faults' \in 0..MaxFaults /\ UNCHANGED <<want, got>> BY DEF CutShort, IInv, TypeOK
  <1>5. CASE f = "tower"
    <2>1. /\ pc = "tower" /\ passed' = passed
          /\ \/ pc' = "idle" /\ back' = back
             \/ pc' = "tplBackup" /\ back' = "idle"
      BY <1>1, <1>3, <1>5 DEF Copies, Fails, Unwind, GoOn, PassOver
    <2>2. TypeOK' BY <1>1, <1>2, <1>4, <1>5, <2>1 DEF Only, IInv, TypeOK, Steps, Touched
    <2>3. Derived' BY <1>2, <1>4, <1>5, <2>1 DEF Only, IInv, TypeOK, Derived, Done1, Done2, Done3
    <2>4. Native' BY <1>2, <1>4, <1>5, <2>1 DEF Only, IInv, TypeOK, Native
    <2>5. Template'
      <3>1. faults' # 0 BY DEF CutShort, IInv, TypeOK
      <3> QED BY <1>1, <1>2, <1>5, <2>1, <3>1 DEF Only, Copies, IInv, TypeOK, Template
    <2>6. Towered' BY <1>1, <1>2, <1>4, <1>5, <2>1 DEF Only, Copies, IInv, TypeOK, Towered, Installing, Done1, Done3
    <2> QED BY <2>2, <2>3, <2>4, <2>5, <2>6 DEF IInv
  <1>6. CASE f = "tpl"
    <2>1. \/ pc \in {"tpl", "unTpl", "recTpl"} /\ pc' = "idle" /\ UNCHANGED <<back, passed>>
          \/ pc = "tpl" /\ pc' = "unCfg" /\ back' = "idle" /\ passed' = passed
          \/ pc = "recTpl" /\ pc' = "recGrafted" /\ back' = back /\ passed' = passed \cup {"tpl"}
      BY <1>1, <1>3, <1>6 DEF Copies, Fails, Unwind, GoOn, PassOver
    <2>2. TypeOK' BY <1>1, <1>2, <1>4, <1>6, <2>1 DEF Only, IInv, TypeOK, Steps, Touched
    <2>3. Derived' BY <1>2, <1>4, <1>6, <2>1 DEF Only, IInv, TypeOK, Derived, Done1, Done2, Done3
    <2>4. Native' BY <1>2, <1>4, <1>6, <2>1 DEF Only, IInv, TypeOK, Native
    <2>5. Template'
      <3>1. faults' # 0 BY DEF CutShort, IInv, TypeOK
      <3> QED BY <1>1, <1>2, <1>6, <2>1, <3>1 DEF Only, Copies, IInv, TypeOK, Template
    <2>6. Towered' BY <1>1, <1>2, <1>4, <1>6, <2>1 DEF Only, Copies, IInv, TypeOK, Towered, Installing, Done1, Done3
    <2> QED BY <2>2, <2>3, <2>4, <2>5, <2>6 DEF IInv
  <1>7. CASE f = "tpl.text-only"
    <2>1. \/ pc \in {"tplBackup", "recTplBackup"} /\ pc' = "idle" /\ UNCHANGED <<back, passed>>
          \/ pc = "tplBackup" /\ pc' = "unCfg" /\ back' = "idle" /\ passed' = passed
          \/ pc = "recTplBackup" /\ pc' = "recGrafted" /\ back' = back /\ passed' = passed \cup {"tpl"}
      BY <1>1, <1>3, <1>7 DEF Copies, Fails, Unwind, GoOn, PassOver
    <2>2. TypeOK' BY <1>1, <1>2, <1>4, <1>7, <2>1 DEF Only, IInv, TypeOK, Steps, Touched
    <2>3. Derived' BY <1>2, <1>4, <1>7, <2>1 DEF Only, IInv, TypeOK, Derived, Done1, Done2, Done3
    <2>4. Native' BY <1>2, <1>4, <1>7, <2>1 DEF Only, IInv, TypeOK, Native
    <2>5. Template'
      <3>1. faults' # 0 BY DEF CutShort, IInv, TypeOK
      <3> QED BY <1>1, <1>2, <1>7, <2>1, <3>1 DEF Only, Copies, IInv, TypeOK, Template
    <2>6. Towered' BY <1>1, <1>2, <1>4, <1>7, <2>1 DEF Only, Copies, IInv, TypeOK, Towered, Installing, Done1, Done3
    <2> QED BY <2>2, <2>3, <2>4, <2>5, <2>6 DEF IInv
  <1>8. CASE f = "cfg.text-only"
    <2>1. /\ pc = "cfgBackup" /\ passed' = passed
          /\ \/ pc' = "idle" /\ back' = back
             \/ pc' = "unCfg" /\ back' = "idle"
      BY <1>1, <1>3, <1>8 DEF Copies, Fails, Unwind, GoOn, PassOver
    <2>2. TypeOK' BY <1>1, <1>2, <1>4, <1>8, <2>1 DEF Only, IInv, TypeOK, Steps, Touched
    <2>3. Derived' BY <1>2, <1>4, <1>8, <2>1 DEF Only, IInv, TypeOK, Derived, Done1, Done2, Done3
    <2>4. Native' BY <1>2, <1>4, <1>8, <2>1 DEF Only, IInv, TypeOK, Native
    <2>5. Template'
      <3>1. faults' # 0 BY DEF CutShort, IInv, TypeOK
      <3> QED BY <1>1, <1>2, <1>8, <2>1, <3>1 DEF Only, Copies, IInv, TypeOK, Template
    <2>6. Towered' BY <1>1, <1>2, <1>4, <1>8, <2>1 DEF Only, Copies, IInv, TypeOK, Towered, Installing, Done1, Done3
    <2> QED BY <2>2, <2>3, <2>4, <2>5, <2>6 DEF IInv
  <1>9. CASE f = "idx.text-only"
    <2>1. /\ pc = "idxBackup" /\ passed' = passed
          /\ \/ pc' = "idle" /\ back' = back
             \/ pc' = "unCfg" /\ back' = "idle"
      BY <1>1, <1>3, <1>9 DEF Copies, Fails, Unwind, GoOn, PassOver
    <2>2. TypeOK' BY <1>1, <1>2, <1>4, <1>9, <2>1 DEF Only, IInv, TypeOK, Steps, Touched
    <2>3. Derived' BY <1>2, <1>4, <1>9, <2>1 DEF Only, IInv, TypeOK, Derived, Done1, Done2, Done3
    <2>4. Native' BY <1>2, <1>4, <1>9, <2>1 DEF Only, IInv, TypeOK, Native
    <2>5. Template'
      <3>1. faults' # 0 BY DEF CutShort, IInv, TypeOK
      <3> QED BY <1>1, <1>2, <1>9, <2>1, <3>1 DEF Only, Copies, IInv, TypeOK, Template
    <2>6. Towered' BY <1>1, <1>2, <1>4, <1>9, <2>1 DEF Only, Copies, IInv, TypeOK, Towered, Installing, Done1, Done3
    <2> QED BY <2>2, <2>3, <2>4, <2>5, <2>6 DEF IInv
  <1> QED BY <1>5, <1>6, <1>7, <1>8, <1>9

(* The revert and the download. *)
LEMMA FetchIInv ==
    ASSUME IInv, RevertFile \/ RevertDone \/ Fetched \/ Download \/ Downloaded
    PROVE  IInv'
  <1> USE DEF Goto, Step, Has, L78, VisionOn, Orig, Text, Files, Readable, Reads, WriteIf, seen, CopiedInPlace
  <1>0. disk = [g \in Files |-> disk[g]] BY DEF IInv, TypeOK
  <1>1. CASE RevertFile
    <2>1. PICK f \in Touched : Saved # {} /\ f \in Saved /\ f = Next3(Saved) /\ Replace(Orig[f], f)
      BY <1>1 DEF RevertFile, Saved, Next3, Touched
    <2>2. /\ disk' = [g \in Files |-> disk'[g]]
          /\ disk'[f] = disk[Orig[f]] /\ disk'[Orig[f]] = None
          /\ \A g \in Files : g # f /\ g # Orig[f] => disk'[g] = disk[g]
      BY <2>1, <1>0, ReplaceBoth DEF Touched
    <2>3. Has(Orig[f]) BY <2>1 DEF Saved
    <2>4. CASE f = "shard" BY <1>1, <2>2, <2>3, <2>4 DEF RevertFile, IInv, TypeOK, Derived, Native, Template, Towered, Installing, Done1, Done2, Done3, Steps, Shard, Doc, Layer, Touched, Wish
    <2>5. CASE f = "idx" BY <1>1, <2>2, <2>3, <2>5 DEF RevertFile, IInv, TypeOK, Derived, Native, Template, Towered, Installing, Done1, Done2, Done3, Steps, Shard, Doc, Layer, Touched, Wish
    <2>6. CASE f = "cfg" BY <1>1, <2>2, <2>3, <2>6 DEF RevertFile, IInv, TypeOK, Derived, Native, Template, Towered, Installing, Done1, Done2, Done3, Steps, Shard, Doc, Layer, Touched, Wish
    <2> QED BY <2>4, <2>5, <2>6 DEF Touched
  <1>2. CASE RevertDone
    <2>1. Only(".grafted", None) BY <1>2, <1>0, RemoveOnly DEF RevertDone
    <2> QED BY <1>2, <2>1 DEF Only, RevertDone, IInv, TypeOK, Derived, Native, Template, Towered, Installing, Done1, Done2, Done3, Steps, Shard, Doc, Layer, Touched, Wish
  <1>3. CASE Fetched
    BY <1>3 DEF Fetched, IInv, TypeOK, Derived, Native, Template, Towered, Installing, Done1, Done2, Done3, Steps, Shard, Doc, Layer, Touched, Wish
  <1>4. CASE Download
    <2>1. PICK f \in Snapshot : Only(f, Pristine(f)) /\ got' = got \cup {f}
      BY <1>4, <1>0, WriteOnly DEF Download, Snapshot, Touched
    <2>2. CASE f = "shard" BY <1>4, <2>1, <2>2 DEF Download, Only, Pristine, IInv, TypeOK, Derived, Native, Template, Towered, Installing, Done1, Done2, Done3, Steps, Shard, Doc, Layer, Touched, Wish
    <2>3. CASE f = "idx"
      <3>0. Pristine(f) \in Doc BY <2>1, <1>4, <2>3 DEF Pristine, IInv, TypeOK, Wish, Doc, Layer
      <3>a. disk'["idx"] \in Doc BY <2>1, <2>3, <3>0 DEF Only
      <3>b. Framed("idx") BY <2>1, <2>3 DEF Only, Framed
      <3>c. got' \subseteq Snapshot BY <2>1 DEF IInv, TypeOK, Snapshot
      <3>1. TypeOK' BY <1>4, <3>a, <3>b, <3>c DEF Download, Framed, Snapshot, IInv, TypeOK, Steps, Touched, Wish
      <3>2. Derived' BY <1>4, <2>1, <2>3 DEF Download, Only, IInv, TypeOK, Derived, Done1, Done2, Done3
      <3>3. Native' BY <1>4, <2>1, <2>3 DEF Download, Only, IInv, TypeOK, Native
      <3>4. Template' BY <1>4, <2>1, <2>3, <3>0 DEF Download, Only, IInv, TypeOK, Template
      <3>5. Towered' BY <1>4, <2>1, <2>3 DEF Download, Only, IInv, TypeOK, Towered, Installing, Done1, Done3
      <3> QED BY <3>1, <3>2, <3>3, <3>4, <3>5 DEF IInv
    <2>4. CASE f = "cfg"
      <3>0. Pristine(f) \in Doc BY <2>1, <1>4, <2>4 DEF Pristine, IInv, TypeOK, Wish, Doc, Layer
      <3>a. disk'["cfg"] \in Doc BY <2>1, <2>4, <3>0 DEF Only
      <3>b. Framed("cfg") BY <2>1, <2>4 DEF Only, Framed
      <3>c. got' \subseteq Snapshot BY <2>1 DEF IInv, TypeOK, Snapshot
      <3>1. TypeOK' BY <1>4, <3>a, <3>b, <3>c DEF Download, Framed, Snapshot, IInv, TypeOK, Steps, Touched, Wish
      <3>2. Derived' BY <1>4, <2>1, <2>4 DEF Download, Only, IInv, TypeOK, Derived, Done1, Done2, Done3
      <3>3. Native' BY <1>4, <2>1, <2>4 DEF Download, Only, IInv, TypeOK, Native
      <3>4. Template' BY <1>4, <2>1, <2>4, <3>0 DEF Download, Only, IInv, TypeOK, Template
      <3>5. Towered' BY <1>4, <2>1, <2>4 DEF Download, Only, IInv, TypeOK, Towered, Installing, Done1, Done3
      <3> QED BY <3>1, <3>2, <3>3, <3>4, <3>5 DEF IInv
    <2>5. CASE f = "tpl" BY <1>4, <2>1, <2>5 DEF Download, Only, Pristine, IInv, TypeOK, Derived, Native, Template, Towered, Installing, Done1, Done2, Done3, Steps, Shard, Doc, Layer, Touched, Wish
    <2> QED BY <2>1, <2>2, <2>3, <2>4, <2>5 DEF Snapshot, Touched
  <1>5. CASE Downloaded
    <2>1. Only(".complete", want.rev) BY <1>5, <1>0, WriteOnly DEF Downloaded, GraftFile
    <2> QED BY <1>5, <2>1 DEF Only, Downloaded, IInv, TypeOK, Derived, Native, Template, Towered, Installing, Done1, Done2, Done3, Steps, Shard, Doc, Layer, Touched, Wish
  <1> QED BY <1>1, <1>2, <1>3, <1>4, <1>5

(* The graft: the native shard is saved before it is replaced. *)
LEMMA GraftIInv ==
    ASSUME IInv, Mtp \/ Backup \/ GraftShard \/ GraftIdx \/ GraftCfg \/ GraftMark
    PROVE  IInv'
  <1> USE DEF Goto, Step, Has, L78, VisionOn, Orig, Text, Files, Readable, Reads, WriteIf, seen, CopiedInPlace
  <1>0. disk = [g \in Files |-> disk[g]] BY DEF IInv, TypeOK
  <1>1. CASE Mtp
    BY <1>1 DEF Mtp, IInv, TypeOK, Derived, Native, Template, Towered, Installing, Done1, Done2, Done3, Steps, Shard, Doc, Layer, Touched, Wish
  <1>2. CASE Backup
    <2>1. CASE Saved = Touched
      BY <1>2, <2>1 DEF Backup, Saved, IInv, TypeOK, Derived, Native, Template, Towered, Installing, Done1, Done2, Done3, Steps, Shard, Doc, Layer, Touched, Wish
    <2>2. CASE Saved # Touched
      <3>1. PICK f \in Touched : f \notin Saved /\ Write(Orig[f], disk[f])
        BY <1>2, <2>2 DEF Backup, Saved, Next3, Touched
      <3>2. Only(Orig[f], disk[f]) BY <3>1, <1>0, WriteOnly DEF Touched
      <3>3. ~Has(Orig[f]) BY <3>1 DEF Saved
      <3>3a. UNCHANGED pc BY <1>2, <2>2 DEF Backup
      <3>4. CASE f = "shard" BY <1>2, <3>2, <3>3, <3>3a, <3>4 DEF Backup, Only, IInv, TypeOK, Derived, Native, Template, Towered, Installing, Done1, Done2, Done3, Steps, Shard, Doc, Layer, Touched, Wish
      <3>5. CASE f = "idx" BY <1>2, <3>2, <3>3, <3>3a, <3>5 DEF Backup, Only, IInv, TypeOK, Derived, Native, Template, Towered, Installing, Done1, Done2, Done3, Steps, Shard, Doc, Layer, Touched, Wish
      <3>6. CASE f = "cfg" BY <1>2, <3>2, <3>3, <3>3a, <3>6 DEF Backup, Only, IInv, TypeOK, Derived, Native, Template, Towered, Installing, Done1, Done2, Done3, Steps, Shard, Doc, Layer, Touched, Wish
      <3> QED BY <3>4, <3>5, <3>6 DEF Touched
    <2> QED BY <2>1, <2>2
  <1>3. CASE GraftShard
    <2>1. CASE Readable("shard.orig")
      <3>1. Only("shard", [disk["shard.orig"] EXCEPT !.l78 = "trellis"]) BY <1>3, <2>1, <1>0, WriteOnly DEF GraftShard, GraftFile
      <3> QED BY <1>3, <2>1, <3>1 DEF Only, GraftShard, GraftFile, IInv, TypeOK, Derived, Native, Template, Towered, Installing, Done1, Done2, Done3, Steps, Shard, Doc, Layer, Touched, Wish
    <2>2. CASE ~Readable("shard.orig")
      BY <1>3, <2>2 DEF GraftShard, GraftFile, IInv, TypeOK, Derived, Native, Template, Towered, Installing, Done1, Done2, Done3, Steps, Shard, Doc, Layer, Touched, Wish
    <2> QED BY <2>1, <2>2
  <1>4. CASE GraftIdx
    <2>1. CASE Readable("idx.orig")
      <3>1. Only("idx", [disk["idx.orig"] EXCEPT !.l78 = "trellis"]) BY <1>4, <2>1, <1>0, WriteOnly DEF GraftIdx, GraftFile
      <3> QED BY <1>4, <2>1, <3>1 DEF Only, GraftIdx, GraftFile, IInv, TypeOK, Derived, Native, Template, Towered, Installing, Done1, Done2, Done3, Steps, Shard, Doc, Layer, Touched, Wish
    <2>2. CASE ~Readable("idx.orig")
      BY <1>4, <2>2 DEF GraftIdx, GraftFile, IInv, TypeOK, Derived, Native, Template, Towered, Installing, Done1, Done2, Done3, Steps, Shard, Doc, Layer, Touched, Wish
    <2> QED BY <2>1, <2>2
  <1>5. CASE GraftCfg
    <2>1. CASE Readable("cfg.orig")
      <3>1. Only("cfg", [disk["cfg.orig"] EXCEPT !.l78 = "trellis"]) BY <1>5, <2>1, <1>0, WriteOnly DEF GraftCfg, GraftFile
      <3> QED BY <1>5, <2>1, <3>1 DEF Only, GraftCfg, GraftFile, IInv, TypeOK, Derived, Native, Template, Towered, Installing, Done1, Done2, Done3, Steps, Shard, Doc, Layer, Touched, Wish
    <2>2. CASE ~Readable("cfg.orig")
      BY <1>5, <2>2 DEF GraftCfg, GraftFile, IInv, TypeOK, Derived, Native, Template, Towered, Installing, Done1, Done2, Done3, Steps, Shard, Doc, Layer, Touched, Wish
    <2> QED BY <2>1, <2>2
  <1>6. CASE GraftMark
    <2>1. Only(".grafted", "present") BY <1>6, <1>0, WriteOnly DEF GraftMark, GraftFile
    <2> QED BY <1>6, <2>1 DEF Only, GraftMark, GraftFile, IInv, TypeOK, Derived, Native, Template, Towered, Installing, Done1, Done2, Done3, Steps, Shard, Doc, Layer, Touched, Wish
  <1> QED BY <1>1, <1>2, <1>3, <1>4, <1>5, <1>6

(* Installing vision. *)
LEMMA InstallIInv ==
    ASSUME IInv, Vision \/ Tower \/ TplBackup \/ Tpl \/ CfgBackup \/ Cfg \/ Mark \/ IdxBackup \/ Idx
    PROVE  IInv'
  <1> USE DEF Goto, Step, Has, L78, VisionOn, Orig, Text, Files, Readable, Reads, WriteIf, seen, CopiedInPlace
  <1>0. disk = [g \in Files |-> disk[g]] BY DEF IInv, TypeOK
  <1>1. CASE Vision
    <2>1. CASE want.vision /\ ~(Has(".vision") /\ Wrapped)
      <3>1. Only(".vision", None) BY <1>1, <2>1, <1>0, RemoveOnly DEF Vision
      <3>2. TypeOK' BY <1>1, <2>1, <3>1 DEF Only, Vision, Wrapped, IInv, TypeOK, Steps, Shard, Doc, Layer, Touched, Wish
      <3>3. Derived' BY <1>1, <2>1, <3>1 DEF Only, Vision, Wrapped, IInv, TypeOK, Derived, Done1, Done2, Done3
      <3>4. Native' BY <1>1, <2>1, <3>1 DEF Only, Vision, Wrapped, IInv, TypeOK, Native
      <3>5. Template' BY <1>1, <2>1, <3>1 DEF Only, Vision, Wrapped, IInv, TypeOK, Template
      <3>t. Towered' BY <1>1, <2>1, <3>1 DEF Only, Vision, Wrapped, IInv, TypeOK, Template, Towered, Installing, Done1, Done3
      <3> QED BY <3>2, <3>3, <3>4, <3>5, <3>t DEF IInv
    <2>2. CASE ~(want.vision /\ ~(Has(".vision") /\ Wrapped))
      BY <1>1, <2>2 DEF Vision, Wrapped, IInv, TypeOK, Derived, Native, Template, Towered, Installing, Done1, Done2, Done3, Steps, Shard, Doc, Layer, Touched, Wish
    <2> QED BY <2>1, <2>2
  <1>2. CASE Tower
    <2>1. Only("tower", "present") BY <1>2, <1>0, WriteOnly DEF Tower, GraftFile
    <2> QED BY <1>2, <2>1 DEF Only, Tower, IInv, TypeOK, Derived, Native, Template, Towered, Installing, Done1, Done2, Done3, Steps, Shard, Doc, Layer, Touched, Wish
  <1>3. CASE TplBackup
    <2>1. CASE ~Has("tpl.text-only")
      <3>1. Only("tpl.text-only", disk["tpl"]) BY <1>3, <2>1, <1>0, WriteOnly DEF TplBackup
      <3>a. disk["tpl"] = "text" BY <2>1 DEF IInv, Template
      <3>b. pc' \in {"unCfg", "tpl"} BY <1>3 DEF TplBackup
      <3>2. TypeOK' BY <1>3, <2>1, <3>1, <3>a, <3>b DEF Only, TplBackup, IInv, TypeOK, Steps, Shard, Doc, Layer, Touched, Wish
      <3>3. Derived' BY <1>3, <2>1, <3>1 DEF Only, TplBackup, IInv, TypeOK, Derived, Done1, Done2, Done3
      <3>4. Native' BY <1>3, <2>1, <3>1 DEF Only, TplBackup, IInv, TypeOK, Native
      <3>5. Template' BY <1>3, <2>1, <3>1 DEF Only, TplBackup, IInv, TypeOK, Template
      <3>t. Towered' BY <1>3, <2>1, <3>1 DEF Only, TplBackup, IInv, TypeOK, Template, Towered, Installing, Done1, Done3
      <3> QED BY <3>2, <3>3, <3>4, <3>5, <3>t DEF IInv
    <2>2. CASE ~(~Has("tpl.text-only"))
      BY <1>3, <2>2 DEF TplBackup, IInv, TypeOK, Derived, Native, Template, Towered, Installing, Done1, Done2, Done3, Steps, Shard, Doc, Layer, Touched, Wish
    <2> QED BY <2>1, <2>2
  <1>4. CASE Tpl
    <2>1. Only("tpl", "vision") BY <1>4, <1>0, WriteOnly DEF Tpl, GraftFile
    <2> QED BY <1>4, <2>1 DEF Only, Tpl, IInv, TypeOK, Derived, Native, Template, Towered, Installing, Done1, Done2, Done3, Steps, Shard, Doc, Layer, Touched, Wish
  <1>5. CASE CfgBackup
    <2>1. CASE ~Has("cfg.text-only") /\ Readable("cfg")
      <3>1. Only("cfg.text-only", [disk["cfg"] EXCEPT !.vision = FALSE]) BY <1>5, <2>1, <1>0, WriteOnly DEF CfgBackup
      <3>6. [disk["cfg"] EXCEPT !.vision = FALSE] \in Doc BY <2>1, Wrapping DEF IInv, TypeOK
      <3>7. disk'["cfg.text-only"] \in Doc /\ disk'["cfg.text-only"] # None /\ disk'["cfg.text-only"] # Torn BY <3>1, <3>6 DEF Only
      <3>8. Framed("cfg.text-only") BY <3>1 DEF Only, Framed
      <3>2. TypeOK' BY <1>5, <2>1, <3>7, <3>8 DEF Framed, CfgBackup, IInv, TypeOK, Steps, Touched, Wish
      <3>3. Derived' BY <1>5, <2>1, <3>1 DEF Only, CfgBackup, IInv, TypeOK, Derived, Done1, Done2, Done3
      <3>4. Native' BY <1>5, <2>1, <3>1 DEF Only, CfgBackup, IInv, TypeOK, Native
      <3>5. Template' BY <1>5, <2>1, <3>7, <3>8 DEF Framed, CfgBackup, IInv, TypeOK, Template
      <3>t. Towered' BY <1>5, <2>1, <3>1 DEF Only, CfgBackup, IInv, TypeOK, Template, Towered, Installing, Done1, Done3
      <3> QED BY <3>2, <3>3, <3>4, <3>5, <3>t DEF IInv
    <2>2. CASE Has("cfg.text-only")
      BY <1>5, <2>2 DEF CfgBackup, IInv, TypeOK, Derived, Native, Template, Towered, Installing, Done1, Done2, Done3, Steps, Shard, Doc, Layer, Touched, Wish
    <2>3. CASE ~Has("cfg.text-only") /\ ~Readable("cfg")
      BY <1>5, <2>3 DEF CfgBackup, IInv, TypeOK, Derived, Native, Template, Towered, Installing, Done1, Done2, Done3, Steps, Shard, Doc, Layer, Touched, Wish
    <2> QED BY <2>1, <2>2, <2>3
  <1>6. CASE Cfg
    <2>1. CASE Readable("cfg.text-only")
      <3>0. disk["cfg.text-only"] \in Doc BY <1>6, <2>1 DEF Cfg, IInv, TypeOK, Template
      <3>1. Only("cfg", [disk["cfg.text-only"] EXCEPT !.vision = TRUE]) BY <1>6, <2>1, <1>0, WriteOnly DEF Cfg
      <3>6. [disk["cfg.text-only"] EXCEPT !.vision = TRUE] \in Doc BY <3>0, Wrapping
      <3>7. disk'["cfg"] \in Doc /\ disk'["cfg"] # None /\ disk'["cfg"] # Torn BY <3>1, <3>6 DEF Only
      <3>8. Framed("cfg") BY <3>1 DEF Only, Framed
      <3>2. TypeOK' BY <1>6, <2>1, <3>7, <3>8 DEF Framed, Cfg, IInv, TypeOK, Steps, Touched, Wish
      <3>3. Derived' BY <1>6, <2>1, <3>1 DEF Only, Cfg, IInv, TypeOK, Derived, Done1, Done2, Done3
      <3>4. Native' BY <1>6, <2>1, <3>1 DEF Only, Cfg, IInv, TypeOK, Native
      <3>5. Template' BY <1>6, <2>1, <3>7, <3>8 DEF Framed, Cfg, IInv, TypeOK, Template
      <3>t. Towered' BY <1>6, <2>1, <3>1 DEF Only, Cfg, IInv, TypeOK, Template, Towered, Installing, Done1, Done3
      <3> QED BY <3>2, <3>3, <3>4, <3>5, <3>t DEF IInv
    <2>2. CASE ~Readable("cfg.text-only")
      BY <1>6, <2>2 DEF Cfg, IInv, TypeOK, Derived, Native, Template, Towered, Installing, Done1, Done2, Done3, Steps, Shard, Doc, Layer, Touched, Wish
    <2> QED BY <2>1, <2>2
  <1>7. CASE Mark
    <2>1. Only(".vision", "present") BY <1>7, <1>0, WriteOnly DEF Mark, GraftFile
    <2> QED BY <1>7, <2>1 DEF Only, Mark, IInv, TypeOK, Derived, Native, Template, Towered, Installing, Done1, Done2, Done3, Steps, Shard, Doc, Layer, Touched, Wish
  <1>8. CASE IdxBackup
    <2>1. CASE ~Has("idx.text-only")
      <3>1. Only("idx.text-only", disk["idx"]) BY <1>8, <2>1, <1>0, WriteOnly DEF IdxBackup
      <3>2. TypeOK' BY <1>8, <2>1, <3>1 DEF Only, IdxBackup, IInv, TypeOK, Steps, Shard, Doc, Layer, Touched, Wish
      <3>3. Derived' BY <1>8, <2>1, <3>1 DEF Only, IdxBackup, IInv, TypeOK, Derived, Done1, Done2, Done3
      <3>4. Native' BY <1>8, <2>1, <3>1 DEF Only, IdxBackup, IInv, TypeOK, Native
      <3>5. Template' BY <1>8, <2>1, <3>1 DEF Only, IdxBackup, IInv, TypeOK, Template
      <3>t. Towered' BY <1>8, <2>1, <3>1 DEF Only, IdxBackup, IInv, TypeOK, Template, Towered, Installing, Done1, Done3
      <3> QED BY <3>2, <3>3, <3>4, <3>5, <3>t DEF IInv
    <2>2. CASE ~(~Has("idx.text-only"))
      BY <1>8, <2>2 DEF IdxBackup, IInv, TypeOK, Derived, Native, Template, Towered, Installing, Done1, Done2, Done3, Steps, Shard, Doc, Layer, Touched, Wish
    <2> QED BY <2>1, <2>2
  <1>9. CASE Idx
    <2>1. CASE Readable("idx.text-only")
      <3>0. disk["idx.text-only"] \in Doc BY <1>9, <2>1 DEF Idx, IInv, TypeOK, Template
      <3>1. Only("idx", [disk["idx.text-only"] EXCEPT !.vision = TRUE]) BY <1>9, <2>1, <1>0, WriteOnly DEF Idx
      <3>6. [disk["idx.text-only"] EXCEPT !.vision = TRUE] \in Doc BY <3>0, Wrapping
      <3>7. disk'["idx"] \in Doc /\ disk'["idx"] # None /\ disk'["idx"] # Torn BY <3>1, <3>6 DEF Only
      <3>8. Framed("idx") BY <3>1 DEF Only, Framed
      <3>2. TypeOK' BY <1>9, <2>1, <3>7, <3>8 DEF Framed, Idx, IInv, TypeOK, Steps, Touched, Wish
      <3>3. Derived' BY <1>9, <2>1, <3>1 DEF Only, Idx, IInv, TypeOK, Derived, Done1, Done2, Done3
      <3>4. Native' BY <1>9, <2>1, <3>1 DEF Only, Idx, IInv, TypeOK, Native
      <3>5. Template' BY <1>9, <2>1, <3>7, <3>8 DEF Framed, Idx, IInv, TypeOK, Template
      <3>t. Towered' BY <1>9, <2>1, <3>1 DEF Only, Idx, IInv, TypeOK, Template, Towered, Installing, Done1, Done3
      <3> QED BY <3>2, <3>3, <3>4, <3>5, <3>t DEF IInv
    <2>2. CASE ~Readable("idx.text-only")
      BY <1>9, <2>2 DEF Idx, IInv, TypeOK, Derived, Native, Template, Towered, Installing, Done1, Done2, Done3, Steps, Shard, Doc, Layer, Touched, Wish
    <2> QED BY <2>1, <2>2
  <1> QED BY <1>1, <1>2, <1>3, <1>4, <1>5, <1>6, <1>7, <1>8, <1>9

(* Restoring the text-only state. *)
LEMMA UninstallIInv ==
    ASSUME IInv, UnCfg \/ UnMark \/ UnIdx \/ UnTpl
    PROVE  IInv'
  <1> USE DEF Goto, Step, Has, L78, VisionOn, Orig, Text, Files, Readable, Reads, WriteIf, seen, CopiedInPlace
  <1>0. disk = [g \in Files |-> disk[g]] BY DEF IInv, TypeOK
  <1>1. CASE UnCfg
    <2>1. CASE Has("cfg.text-only")
      <3>1. /\ disk' = [g \in Files |-> disk'[g]]
            /\ disk'["cfg"] = disk["cfg.text-only"] /\ disk'["cfg.text-only"] = None
            /\ \A g \in Files : g # "cfg" /\ g # "cfg.text-only" => disk'[g] = disk[g]
        BY <1>1, <2>1, <1>0, ReplaceBoth DEF UnCfg
      <3> QED BY <1>1, <2>1, <3>1 DEF UnCfg, IInv, TypeOK, Derived, Native, Template, Towered, Installing, Done1, Done2, Done3, Steps, Shard, Doc, Layer, Touched, Wish
    <2>2. CASE ~(Has("cfg.text-only"))
      BY <1>1, <2>2 DEF UnCfg, IInv, TypeOK, Derived, Native, Template, Towered, Installing, Done1, Done2, Done3, Steps, Shard, Doc, Layer, Touched, Wish
    <2> QED BY <2>1, <2>2
  <1>2. CASE UnMark
    <2>1. Only(".vision", None) BY <1>2, <1>0, RemoveOnly DEF UnMark
    <2> QED BY <1>2, <2>1 DEF Only, UnMark, IInv, TypeOK, Derived, Native, Template, Towered, Installing, Done1, Done2, Done3, Steps, Shard, Doc, Layer, Touched, Wish
  <1>3. CASE UnIdx
    <2>1. CASE Has("idx.text-only")
      <3>1. /\ disk' = [g \in Files |-> disk'[g]]
            /\ disk'["idx"] = disk["idx.text-only"] /\ disk'["idx.text-only"] = None
            /\ \A g \in Files : g # "idx" /\ g # "idx.text-only" => disk'[g] = disk[g]
        BY <1>3, <2>1, <1>0, ReplaceBoth DEF UnIdx
      <3> QED BY <1>3, <2>1, <3>1 DEF UnIdx, IInv, TypeOK, Derived, Native, Template, Towered, Installing, Done1, Done2, Done3, Steps, Shard, Doc, Layer, Touched, Wish
    <2>2. CASE ~(Has("idx.text-only"))
      BY <1>3, <2>2 DEF UnIdx, IInv, TypeOK, Derived, Native, Template, Towered, Installing, Done1, Done2, Done3, Steps, Shard, Doc, Layer, Touched, Wish
    <2> QED BY <2>1, <2>2
  <1>4. CASE UnTpl
    <2>1. CASE Has("tpl.text-only")
      <3>1. Only("tpl", disk["tpl.text-only"]) BY <1>4, <2>1, <1>0, WriteOnly DEF UnTpl
      <3> QED BY <1>4, <2>1, <3>1 DEF Only, UnTpl, IInv, TypeOK, Derived, Native, Template, Towered, Installing, Done1, Done2, Done3, Steps, Shard, Doc, Layer, Touched, Wish
    <2>2. CASE ~(Has("tpl.text-only"))
      BY <1>4, <2>2 DEF UnTpl, IInv, TypeOK, Derived, Native, Template, Towered, Installing, Done1, Done2, Done3, Steps, Shard, Doc, Layer, Touched, Wish
    <2> QED BY <2>1, <2>2
  <1> QED BY <1>1, <1>2, <1>3, <1>4

(* The reconciler: each derived file stays as derived. *)
LEMMA ReconcileIInv ==
    ASSUME IInv, RecCfg \/ RecIdx \/ RecTplBackup \/ RecTpl \/ RecGrafted \/ RecTrellis \/ RecVision
    PROVE  IInv'
  <1> USE DEF Goto, Step, Has, L78, VisionOn, Orig, Text, Files, Readable, Reads, WriteIf, seen, CopiedInPlace
  <1>0. disk = [g \in Files |-> disk[g]] BY DEF IInv, TypeOK
  <1>1. CASE RecCfg
    <2>1. CASE Readable("cfg")
      <3>1. Only("cfg", [rev |-> disk["cfg"].rev, l78 |-> L78, vision |-> VisionOn]) BY <1>1, <2>1, <1>0, WriteOnly DEF RecCfg
      <3>2. [rev |-> disk["cfg"].rev, l78 |-> L78, vision |-> VisionOn] \in Doc
        BY <2>1 DEF IInv, TypeOK, Doc, Shard, Wish
      <3> QED BY <1>1, <2>1, <3>1, <3>2 DEF Only, RecCfg, IInv, TypeOK, Derived, Native, Template, Towered, Installing, Done1, Done2, Done3, Steps, Shard, Doc, Layer, Touched, Wish
    <2>2. CASE ~Readable("cfg")
      BY <1>1, <2>2 DEF RecCfg, IInv, TypeOK, Derived, Native, Template, Towered, Installing, Done1, Done2, Done3, Steps, Shard, Doc, Layer, Touched, Wish
    <2> QED BY <2>1, <2>2
  <1>2. CASE RecIdx
    <2>1. Only("idx", [rev |-> disk["shard"].rev, l78 |-> L78, vision |-> VisionOn]) BY <1>2, <1>0, WriteOnly DEF RecIdx, GraftFile
    <2> QED BY <1>2, <2>1 DEF Only, RecIdx, IInv, TypeOK, Derived, Native, Template, Towered, Installing, Done1, Done2, Done3, Steps, Shard, Doc, Layer, Touched, Wish
  <1>3. CASE RecTplBackup
    <2>1. CASE VisionOn /\ ~Has("tpl.text-only") /\ disk["tpl"] # "vision"
      <3>1. Only("tpl.text-only", disk["tpl"]) BY <1>3, <2>1, <1>0, WriteOnly DEF RecTplBackup
      <3>2. TypeOK' BY <1>3, <2>1, <3>1 DEF Only, RecTplBackup, IInv, TypeOK, Steps, Shard, Doc, Layer, Touched, Wish
      <3>3. Derived' BY <1>3, <2>1, <3>1 DEF Only, RecTplBackup, IInv, TypeOK, Derived, Done1, Done2, Done3
      <3>4. Native' BY <1>3, <2>1, <3>1 DEF Only, RecTplBackup, IInv, TypeOK, Native
      <3>5. Template' BY <1>3, <2>1, <3>1 DEF Only, RecTplBackup, IInv, TypeOK, Template
      <3>t. Towered' BY <1>3, <2>1, <3>1 DEF Only, RecTplBackup, IInv, TypeOK, Template, Towered, Installing, Done1, Done3
      <3> QED BY <3>2, <3>3, <3>4, <3>5, <3>t DEF IInv
    <2>2. CASE ~(VisionOn /\ ~Has("tpl.text-only") /\ disk["tpl"] # "vision")
      BY <1>3, <2>2 DEF RecTplBackup, IInv, TypeOK, Derived, Native, Template, Towered, Installing, Done1, Done2, Done3, Steps, Shard, Doc, Layer, Touched, Wish
    <2> QED BY <2>1, <2>2
  <1>4. CASE RecTpl
    <2>1. CASE VisionOn
      <3>1. Only("tpl", "vision") BY <1>4, <2>1, <1>0, WriteOnly DEF RecTpl
      <3>2. TypeOK' BY <1>4, <2>1, <3>1 DEF Only, RecTpl, IInv, TypeOK, Steps, Shard, Doc, Layer, Touched, Wish
      <3>3. Derived' BY <1>4, <2>1, <3>1 DEF Only, RecTpl, IInv, TypeOK, Derived, Done1, Done2, Done3
      <3>4. Native' BY <1>4, <2>1, <3>1 DEF Only, RecTpl, IInv, TypeOK, Native
      <3>5. Template' BY <1>4, <2>1, <3>1 DEF Only, RecTpl, IInv, TypeOK, Template
      <3>t. Towered' BY <1>4, <2>1, <3>1 DEF Only, RecTpl, IInv, TypeOK, Template, Towered, Installing, Done1, Done3
      <3> QED BY <3>2, <3>3, <3>4, <3>5, <3>t DEF IInv
    <2>2. CASE ~VisionOn /\ Has("tpl.text-only")
      <3>1. Only("tpl", disk["tpl.text-only"]) BY <1>4, <2>2, <1>0, WriteOnly DEF RecTpl
      <3>2. TypeOK' BY <1>4, <2>2, <3>1 DEF Only, RecTpl, IInv, TypeOK, Steps, Shard, Doc, Layer, Touched, Wish
      <3>3. Derived' BY <1>4, <2>2, <3>1 DEF Only, RecTpl, IInv, TypeOK, Derived, Done1, Done2, Done3
      <3>4. Native' BY <1>4, <2>2, <3>1 DEF Only, RecTpl, IInv, TypeOK, Native
      <3>5. Template' BY <1>4, <2>2, <3>1 DEF Only, RecTpl, IInv, TypeOK, Template
      <3>t. Towered' BY <1>4, <2>2, <3>1 DEF Only, RecTpl, IInv, TypeOK, Template, Towered, Installing, Done1, Done3
      <3> QED BY <3>2, <3>3, <3>4, <3>5, <3>t DEF IInv
    <2>3. CASE ~VisionOn /\ ~Has("tpl.text-only")
      BY <1>4, <2>3 DEF RecTpl, IInv, TypeOK, Derived, Native, Template, Towered, Installing, Done1, Done2, Done3, Steps, Shard, Doc, Layer, Touched, Wish
    <2> QED BY <2>1, <2>2, <2>3
  <1>5. CASE RecGrafted
    <2>1. CASE L78 = "bf16"
      <3>1. Only(".grafted", None) BY <1>5, <2>1, <1>0, RemoveOnly DEF RecGrafted
      <3> QED BY <1>5, <2>1, <3>1 DEF Only, RecGrafted, IInv, TypeOK, Derived, Native, Template, Towered, Installing, Done1, Done2, Done3, Steps, Shard, Doc, Layer, Touched, Wish
    <2>2. CASE ~(L78 = "bf16")
      BY <1>5, <2>2 DEF RecGrafted, IInv, TypeOK, Derived, Native, Template, Towered, Installing, Done1, Done2, Done3, Steps, Shard, Doc, Layer, Touched, Wish
    <2> QED BY <2>1, <2>2
  <1>6. CASE RecTrellis
    <2>1. Only(".trellis", IF L78 = "trellis" THEN "present" ELSE None) BY <1>6, <1>0, WriteOnly DEF RecTrellis, GraftFile
    <2> QED BY <1>6, <2>1 DEF Only, RecTrellis, IInv, TypeOK, Derived, Native, Template, Towered, Installing, Done1, Done2, Done3, Steps, Shard, Doc, Layer, Touched, Wish
  <1>7. CASE RecVision
    <2>1. Only(".vision", IF VisionOn THEN "present" ELSE None) BY <1>7, <1>0, WriteOnly DEF RecVision, GraftFile
    <2> QED BY <1>7, <2>1 DEF Only, RecVision, IInv, TypeOK, Derived, Native, Template, Towered, Installing, Done1, Done2, Done3, Steps, Shard, Doc, Layer, Touched, Wish
  <1> QED BY <1>1, <1>2, <1>3, <1>4, <1>5, <1>6, <1>7

(* Every step keeps the invariant. *)
LEMMA StepIInv == IInv /\ [Next]_vars => IInv'
  <1> SUFFICES ASSUME IInv, [Next]_vars PROVE IInv' OBVIOUS
  <1>1. CASE Next
    BY <1>1, BeginIInv, CutIInv, FetchIInv, GraftIInv, InstallIInv, UninstallIInv, ReconcileIInv
       DEF Next, Faults, Prepare, Revert, Fetch, Graft, Install, Uninstall, Reconcile
  <1>2. CASE UNCHANGED vars
    BY <1>2 DEF vars, Has, Readable, L78, VisionOn, IInv, TypeOK, Derived, Native, Template, Towered, Installing, Done1, Done2, Done3, Steps, Shard, Doc, Layer, Touched, Wish
  <1> QED BY <1>1, <1>2

(* So it always holds. *)
LEMMA AlwaysIInv == Spec => []IInv
  BY InitIInv, StepIInv, PTL DEF Spec

(* The types of the files and of the preparation's position. *)
THEOREM TypesCorrect == Spec => []TypeOK
  <1>1. IInv => TypeOK BY DEF IInv
  <1> QED BY <1>1, AlwaysIInv, PTL

(* Whatever was stopped, failed or cut short before, a checkpoint that is served is
   described by a configuration and an index that parse, with a whole tower; image
   input is served exactly when it was asked for; the template is the one that goes
   with it, and a graft journal that is left is that of a graft on disk, unless the
   reconciler passed over them or the text-only template's backup was cut short. *)
THEOREM ServedCheckpointIsConsistent == Spec => []ServedIsConsistent
  <1>1. IInv => DescribesTensors
    BY DEF IInv, TypeOK, Derived, Towered, DescribesTensors, Ready, Readable, Done1, Done2, Has, VisionOn, L78, Doc, Shard, Wish
  <1>2. IInv => VisionHonoured
    BY DEF IInv, TypeOK, Derived, Towered, VisionHonoured, Ready, Done1, Done3, Has, VisionOn, Wish
  <1>3. IInv => TemplateServed
    BY DEF IInv, Towered, TemplateServed, Ready, Done3, Text
  <1>4. IInv => JournalIsLive
    BY DEF IInv, Derived, JournalIsLive, Ready, Done3, Has, L78
  <1>5. IInv => ServedIsConsistent
    BY <1>1, <1>2, <1>3, <1>4 DEF ServedIsConsistent
  <1> QED BY <1>5, AlwaysIInv, PTL

(* The native layer 78 is never lost, wherever a preparation fails or is stopped;
   the text-only chat template and config.json are lost only by a copy of theirs
   that was cut short. *)
THEOREM BackupsAreKept == Spec => []BackupsKept
  <1>1. IInv => NativeLayerKept BY DEF IInv, Native, NativeLayerKept, Has, L78, Orig
  <1>2. IInv => TextTemplateKept
    BY DEF IInv, TypeOK, Template, TextTemplateKept, Has, Text
  <1>3. IInv => ConfigKept BY DEF IInv, Template, ConfigKept, Readable, Text
  <1>4. IInv => BackupsKept BY <1>1, <1>2, <1>3 DEF BackupsKept
  <1> QED BY <1>4, AlwaysIInv, PTL

-----------------------------------------------------------------------------
(* What is served is what was asked for.                                    *)

(* What is saved of the shard is the native layer. *)
LEMMA NativeSaved == IInv /\ Has("shard.orig") => disk["shard.orig"].l78 = "bf16"
  BY DEF IInv, Native

(* A preparation begins: it knows what the last one left. *)
LEMMA BeginAsked ==
    ASSUME IInv, Asked, Calm', Begin
    PROVE  Asked'
  <1> USE DEF Goto, Step, Has, L78, VisionOn, Orig, Text, Files, Readable, Reads, WriteIf, seen, CopiedInPlace
  <1>0. disk = [g \in Files |-> disk[g]] BY DEF IInv, TypeOK
  <1>1. CASE Begin
    <2>1. Calm BY <1>1 DEF Begin, Calm
    <2>2. RevisionKnown /\ GraftKnown /\ VisionAbsent BY <2>1 DEF Asked
    <2>3. RevisionKnown'
      BY <1>1, <2>2 DEF Begin, Keep, IInv, TypeOK, RevisionKnown, GraftKnown, Grafting, Uninstalling, Chosen, Done1, Steps, Shard, Doc, Layer, Touched, Saved, Wish
    <2>4. GraftKnown'
      BY <1>1, <2>2 DEF Begin, Keep, IInv, TypeOK, Native, GraftKnown, Grafting, Uninstalling, Chosen, Done1, Steps, Shard, Doc, Layer, Touched, Saved, Wish
    <2>5. VisionAbsent' BY <1>1, <2>2 DEF Begin, VisionAbsent, Uninstalling, Done1
    <2> QED BY <2>3, <2>4, <2>5 DEF Asked
  <1> QED BY <1>1

(* The revert and the download. *)
LEMMA FetchAsked ==
    ASSUME IInv, Asked, Calm', RevertFile \/ RevertDone \/ Fetched \/ Download \/ Downloaded
    PROVE  Asked'
  <1> USE DEF Goto, Step, Has, L78, VisionOn, Orig, Text, Files, Readable, Reads, WriteIf, seen, CopiedInPlace
  <1>0. disk = [g \in Files |-> disk[g]] BY DEF IInv, TypeOK
  <1>1. CASE RevertFile
    <2>1. PICK f \in Touched : Saved # {} /\ f \in Saved /\ f = Next3(Saved) /\ Replace(Orig[f], f)
      BY <1>1 DEF RevertFile, Saved, Next3, Touched
    <2>2. /\ disk' = [g \in Files |-> disk'[g]]
          /\ disk'[f] = disk[Orig[f]] /\ disk'[Orig[f]] = None
          /\ \A g \in Files : g # f /\ g # Orig[f] => disk'[g] = disk[g]
      BY <2>1, <1>0, ReplaceBoth DEF Touched
    <2>3. Has(Orig[f]) BY <2>1 DEF Saved
    <2>4. CASE f = "shard" BY <1>1, <2>2, <2>3, <2>4, NativeSaved DEF RevertFile, IInv, TypeOK, Asked, Calm, RevisionKnown, GraftKnown, VisionAbsent, Grafting, Uninstalling, Chosen, Done1, Steps, Shard, Doc, Layer, Touched, Saved, Wish
    <2>5. CASE f = "idx" BY <1>1, <2>2, <2>3, <2>5 DEF RevertFile, IInv, TypeOK, Asked, Calm, RevisionKnown, GraftKnown, VisionAbsent, Grafting, Uninstalling, Chosen, Done1, Steps, Shard, Doc, Layer, Touched, Saved, Wish
    <2>6. CASE f = "cfg" BY <1>1, <2>2, <2>3, <2>6 DEF RevertFile, IInv, TypeOK, Asked, Calm, RevisionKnown, GraftKnown, VisionAbsent, Grafting, Uninstalling, Chosen, Done1, Steps, Shard, Doc, Layer, Touched, Saved, Wish
    <2> QED BY <2>4, <2>5, <2>6 DEF Touched
  <1>2. CASE RevertDone
    <2>1. Only(".grafted", None) BY <1>2, <1>0, RemoveOnly DEF RevertDone
    <2> QED BY <1>2, <2>1 DEF Only, RevertDone, IInv, TypeOK, Asked, Calm, RevisionKnown, GraftKnown, VisionAbsent, Grafting, Uninstalling, Chosen, Done1, Steps, Shard, Doc, Layer, Touched, Saved, Wish
  <1>3. CASE Fetched
    BY <1>3 DEF Fetched, IInv, TypeOK, Asked, Calm, RevisionKnown, GraftKnown, VisionAbsent, Grafting, Uninstalling, Chosen, Done1, Steps, Shard, Doc, Layer, Touched, Saved, Wish
  <1>4. CASE Download
    <2>1. PICK f \in Snapshot : f \notin got /\ Only(f, Pristine(f)) /\ got' = got \cup {f}
      BY <1>4, <1>0, WriteOnly DEF Download, Snapshot, Touched
    <2>2. CASE f = "shard" BY <1>4, <2>1, <2>2 DEF Download, Only, Pristine, IInv, TypeOK, Asked, Calm, RevisionKnown, GraftKnown, VisionAbsent, Grafting, Uninstalling, Chosen, Done1, Steps, Shard, Doc, Layer, Touched, Saved, Wish
    <2>3. CASE f = "idx" BY <1>4, <2>1, <2>3 DEF Download, Only, Pristine, IInv, TypeOK, Asked, Calm, RevisionKnown, GraftKnown, VisionAbsent, Grafting, Uninstalling, Chosen, Done1, Steps, Shard, Doc, Layer, Touched, Saved, Wish
    <2>4. CASE f = "cfg" BY <1>4, <2>1, <2>4 DEF Download, Only, Pristine, IInv, TypeOK, Asked, Calm, RevisionKnown, GraftKnown, VisionAbsent, Grafting, Uninstalling, Chosen, Done1, Steps, Shard, Doc, Layer, Touched, Saved, Wish
    <2>5. CASE f = "tpl" BY <1>4, <2>1, <2>5 DEF Download, Only, Pristine, IInv, TypeOK, Asked, Calm, RevisionKnown, GraftKnown, VisionAbsent, Grafting, Uninstalling, Chosen, Done1, Steps, Shard, Doc, Layer, Touched, Saved, Wish
    <2> QED BY <2>1, <2>2, <2>3, <2>4, <2>5 DEF Snapshot, Touched
  <1>5. CASE Downloaded
    <2>1. Only(".complete", want.rev) BY <1>5, <1>0, WriteOnly DEF Downloaded, Snapshot
    <2> QED BY <1>5, <2>1 DEF Only, Downloaded, Snapshot, IInv, TypeOK, Asked, Calm, RevisionKnown, GraftKnown, VisionAbsent, Grafting, Uninstalling, Chosen, Done1, Steps, Shard, Doc, Layer, Touched, Saved, Wish
  <1> QED BY <1>1, <1>2, <1>3, <1>4, <1>5

(* The graft: it keeps the revision of the files that it replaces. *)
LEMMA GraftAsked ==
    ASSUME IInv, Asked, Calm', Mtp \/ Backup \/ GraftShard \/ GraftIdx \/ GraftCfg \/ GraftMark
    PROVE  Asked'
  <1> USE DEF Goto, Step, Has, L78, VisionOn, Orig, Text, Files, Readable, Reads, WriteIf, seen, CopiedInPlace
  <1>0. disk = [g \in Files |-> disk[g]] BY DEF IInv, TypeOK
  <1>1. CASE Mtp
    BY <1>1 DEF Mtp, IInv, TypeOK, Asked, Calm, RevisionKnown, GraftKnown, VisionAbsent, Grafting, Uninstalling, Chosen, Done1, Steps, Shard, Doc, Layer, Touched, Saved, Wish
  <1>2. CASE Backup
    <2>1. CASE Saved = Touched
      BY <1>2, <2>1 DEF Backup, IInv, TypeOK, Asked, Calm, RevisionKnown, GraftKnown, VisionAbsent, Grafting, Uninstalling, Chosen, Done1, Steps, Shard, Doc, Layer, Touched, Saved, Wish
    <2>2. CASE Saved # Touched
      <3>1. PICK f \in Touched : f \notin Saved /\ Write(Orig[f], disk[f])
        BY <1>2, <2>2 DEF Backup, Saved, Next3, Touched
      <3>2. Only(Orig[f], disk[f]) BY <3>1, <1>0, WriteOnly DEF Touched
      <3>3. ~Has(Orig[f]) BY <3>1 DEF Saved
      <3>4. pc = "overlay" /\ UNCHANGED <<pc, back, want, got, faults, seen>> BY <1>2, <2>2 DEF Backup
      <3>a. Calm /\ RevisionKnown /\ GraftKnown /\ VisionAbsent
        <4>1. disk'["tpl.text-only"] = disk["tpl.text-only"] BY <3>2 DEF Only, Touched
        <4> QED BY <3>4, <4>1 DEF Calm, Asked
      <3>5. CASE f = "shard"
        <4>1. RevisionKnown'
          BY <3>a, <3>2, <3>4, <3>5 DEF Only, RevisionKnown, GraftKnown, Grafting
        <4>2. Has(".grafted") = Has(".grafted")' /\ L78' = L78 BY <3>2, <3>5 DEF Only
        <4>3. GraftKnown'
          BY <3>a, <3>4, <4>2 DEF GraftKnown, Grafting, Chosen
        <4>4. VisionAbsent' BY <3>a, <3>2, <3>4, <3>5 DEF Only, VisionAbsent, Uninstalling, Done1
        <4> QED BY <4>1, <4>3, <4>4 DEF Asked
      <3>6. CASE f = "idx"
        <4>1. RevisionKnown'
          BY <3>a, <3>2, <3>4, <3>6 DEF Only, RevisionKnown, GraftKnown, Grafting
        <4>2. Has(".grafted") = Has(".grafted")' /\ L78' = L78 BY <3>2, <3>6 DEF Only
        <4>3. GraftKnown'
          BY <3>a, <3>4, <4>2 DEF GraftKnown, Grafting, Chosen
        <4>4. VisionAbsent' BY <3>a, <3>2, <3>4, <3>6 DEF Only, VisionAbsent, Uninstalling, Done1
        <4> QED BY <4>1, <4>3, <4>4 DEF Asked
      <3>7. CASE f = "cfg"
        <4>1. RevisionKnown'
          BY <3>a, <3>2, <3>4, <3>7 DEF Only, RevisionKnown, GraftKnown, Grafting
        <4>2. Has(".grafted") = Has(".grafted")' /\ L78' = L78 BY <3>2, <3>7 DEF Only
        <4>3. GraftKnown'
          BY <3>a, <3>4, <4>2 DEF GraftKnown, Grafting, Chosen
        <4>4. VisionAbsent' BY <3>a, <3>2, <3>4, <3>7 DEF Only, VisionAbsent, Uninstalling, Done1
        <4> QED BY <4>1, <4>3, <4>4 DEF Asked
      <3> QED BY <3>5, <3>6, <3>7 DEF Touched
    <2> QED BY <2>1, <2>2
  <1>3. CASE GraftShard
    <2>0. pc = "graftShard" /\ faults' = faults BY <1>3 DEF GraftShard, GraftFile
    <2>1. Readable("shard.orig") BY <2>0 DEF IInv, TypeOK, Template, Calm, Native, Shard
    <2>2. Only("shard", [disk["shard.orig"] EXCEPT !.l78 = "trellis"]) BY <1>3, <2>1, <1>0, WriteOnly DEF GraftShard, GraftFile
    <2> QED BY <1>3, <2>1, <2>2 DEF Only, GraftShard, GraftFile, Native, Template, IInv, TypeOK, Asked, Calm, RevisionKnown, GraftKnown, VisionAbsent, Grafting, Uninstalling, Chosen, Done1, Steps, Shard, Doc, Layer, Touched, Saved, Wish
  <1>4. CASE GraftIdx
    <2>0. pc = "graftIdx" /\ faults' = faults BY <1>4 DEF GraftIdx, GraftFile
    <2>1. Readable("idx.orig") BY <2>0 DEF IInv, TypeOK, Template, Calm, Native, Shard
    <2>2. Only("idx", [disk["idx.orig"] EXCEPT !.l78 = "trellis"]) BY <1>4, <2>1, <1>0, WriteOnly DEF GraftIdx, GraftFile
    <2> QED BY <1>4, <2>1, <2>2 DEF Only, GraftIdx, GraftFile, Native, Template, IInv, TypeOK, Asked, Calm, RevisionKnown, GraftKnown, VisionAbsent, Grafting, Uninstalling, Chosen, Done1, Steps, Shard, Doc, Layer, Touched, Saved, Wish
  <1>5. CASE GraftCfg
    <2>0. pc = "graftCfg" /\ faults' = faults BY <1>5 DEF GraftCfg, GraftFile
    <2>1. Readable("cfg.orig") BY <2>0 DEF IInv, TypeOK, Template, Calm, Native, Shard
    <2>2. Only("cfg", [disk["cfg.orig"] EXCEPT !.l78 = "trellis"]) BY <1>5, <2>1, <1>0, WriteOnly DEF GraftCfg, GraftFile
    <2> QED BY <1>5, <2>1, <2>2 DEF Only, GraftCfg, GraftFile, Native, Template, IInv, TypeOK, Asked, Calm, RevisionKnown, GraftKnown, VisionAbsent, Grafting, Uninstalling, Chosen, Done1, Steps, Shard, Doc, Layer, Touched, Saved, Wish
  <1>6. CASE GraftMark
    <2>1. Only(".grafted", "present") BY <1>6, <1>0, WriteOnly DEF GraftMark
    <2> QED BY <1>6, <2>1 DEF Only, GraftMark, IInv, TypeOK, Asked, Calm, RevisionKnown, GraftKnown, VisionAbsent, Grafting, Uninstalling, Chosen, Done1, Steps, Shard, Doc, Layer, Touched, Saved, Wish
  <1> QED BY <1>1, <1>2, <1>3, <1>4, <1>5, <1>6

(* Installing vision ends what is said of it once the template is saved. *)
LEMMA InstallAsked ==
    ASSUME IInv, Asked, Calm', Vision \/ Tower \/ TplBackup \/ Tpl \/ CfgBackup \/ Cfg \/ Mark \/ IdxBackup \/ Idx
    PROVE  Asked'
  <1> USE DEF Goto, Step, Has, L78, VisionOn, Orig, Text, Files, Readable, Reads, WriteIf, seen, CopiedInPlace
  <1>0. disk = [g \in Files |-> disk[g]] BY DEF IInv, TypeOK
  <1>1. CASE Vision
    <2>1. CASE want.vision
      <3>1. Only(".vision", None)
        <4>1. disk'["tpl.text-only"] = disk["tpl.text-only"] /\ faults' = faults
          BY <1>0, <1>1, <2>1 DEF Vision, Remove
        <4>2. Remove(".vision") BY <1>1, <2>1, <4>1 DEF Vision, Calm, Asked, VisionAbsent
        <4> QED BY <1>0, <4>2, RemoveOnly
      <3> QED BY <1>1, <2>1, <3>1 DEF Only, Vision, Wrapped, IInv, TypeOK, Asked, Calm, RevisionKnown, GraftKnown, VisionAbsent, Grafting, Uninstalling, Chosen, Done1, Steps, Shard, Doc, Layer, Touched, Saved, Wish
    <2>2. CASE ~want.vision
      BY <1>1, <2>2 DEF Vision, Wrapped, IInv, TypeOK, Asked, Calm, RevisionKnown, GraftKnown, VisionAbsent, Grafting, Uninstalling, Chosen, Done1, Steps, Shard, Doc, Layer, Touched, Saved, Wish
    <2> QED BY <2>1, <2>2
  <1>2. CASE Tower
    <2>1. Only("tower", "present") BY <1>2, <1>0, WriteOnly DEF Tower
    <2> QED BY <1>2, <2>1 DEF Only, Tower, IInv, TypeOK, Asked, Calm, RevisionKnown, GraftKnown, VisionAbsent, Grafting, Uninstalling, Chosen, Done1, Steps, Shard, Doc, Layer, Touched, Saved, Wish
  <1>3. CASE TplBackup
    <2>1. CASE ~Has("tpl.text-only")
      <3>1. Only("tpl.text-only", disk["tpl"]) BY <1>3, <2>1, <1>0, WriteOnly DEF TplBackup
      <3>2. disk["tpl"] # None BY DEF IInv, TypeOK
      <3> QED BY <3>1, <3>2 DEF Only, Calm, Asked
    <2>2. CASE Has("tpl.text-only")
      BY <1>3, <2>2 DEF TplBackup, Calm
    <2> QED BY <2>1, <2>2
  <1>4. CASE Tpl \/ CfgBackup \/ Cfg \/ Mark \/ IdxBackup \/ Idx
    <2>1. Has("tpl.text-only") BY <1>4 DEF Tpl, CfgBackup, Cfg, Mark, IdxBackup, Idx, IInv, Template
    <2>2. disk'["tpl.text-only"] = disk["tpl.text-only"]
      BY <1>0, <1>4 DEF Tpl, CfgBackup, Cfg, Mark, IdxBackup, Idx, Write
    <2> QED BY <2>1, <2>2 DEF Calm
  <1> QED BY <1>1, <1>2, <1>3, <1>4

(* Vision is not removed where it never was installed. *)
LEMMA UninstallAsked ==
    ASSUME IInv, Asked, Calm', UnCfg \/ UnMark \/ UnIdx \/ UnTpl
    PROVE  Asked'
  <1> USE DEF Goto, Step, Has, L78, VisionOn, Orig, Text, Files, Readable, Reads, WriteIf, seen, CopiedInPlace
  <1>0. disk = [g \in Files |-> disk[g]] BY DEF IInv, TypeOK
  <1>1. CASE UnCfg \/ UnMark \/ UnIdx \/ UnTpl
    <2>1. disk'["tpl.text-only"] = disk["tpl.text-only"] /\ faults' = faults
      BY <1>0, <1>1 DEF UnCfg, UnMark, UnIdx, UnTpl, Write, Replace, Remove
    <2>2. Calm BY <2>1 DEF Calm
    <2> QED BY <1>1, <2>2 DEF UnCfg, UnMark, UnIdx, UnTpl, Asked, VisionAbsent, Uninstalling
  <1> QED BY <1>1

(* The reconciler changes no revision and no layer. *)
LEMMA ReconcileAsked ==
    ASSUME IInv, Asked, Calm', RecCfg \/ RecIdx \/ RecTplBackup \/ RecTpl \/ RecGrafted \/ RecTrellis \/ RecVision
    PROVE  Asked'
  <1> USE DEF Goto, Step, Has, L78, VisionOn, Orig, Text, Files, Readable, Reads, WriteIf, seen, CopiedInPlace
  <1>0. disk = [g \in Files |-> disk[g]] BY DEF IInv, TypeOK
  <1>1. CASE RecCfg
    <2>0. faults' = faults BY <1>1 DEF RecCfg
    <2>1. Readable("cfg") BY <2>0 DEF IInv, Template, Calm
    <2>2. Only("cfg", [rev |-> disk["cfg"].rev, l78 |-> L78, vision |-> VisionOn]) BY <1>1, <2>1, <1>0, WriteOnly DEF RecCfg
    <2> QED BY <1>1, <2>1, <2>2 DEF Only, RecCfg, IInv, TypeOK, Asked, Calm, RevisionKnown, GraftKnown, VisionAbsent, Grafting, Uninstalling, Chosen, Done1, Steps, Shard, Doc, Layer, Touched, Saved, Wish
  <1>2. CASE RecIdx
    <2>1. Only("idx", [rev |-> disk["shard"].rev, l78 |-> L78, vision |-> VisionOn]) BY <1>2, <1>0, WriteOnly DEF RecIdx
    <2> QED BY <1>2, <2>1 DEF Only, RecIdx, IInv, TypeOK, Asked, Calm, RevisionKnown, GraftKnown, VisionAbsent, Grafting, Uninstalling, Chosen, Done1, Steps, Shard, Doc, Layer, Touched, Saved, Wish
  <1>3. CASE RecTplBackup
    BY <1>3 DEF RecTplBackup, Towered, IInv, TypeOK, Asked, Calm, RevisionKnown, GraftKnown, VisionAbsent, Grafting, Uninstalling, Chosen, Done1, Steps, Shard, Doc, Layer, Touched, Saved, Wish
  <1>4. CASE RecTpl
    <2>1. disk'["tpl.text-only"] = disk["tpl.text-only"] /\ faults' = faults
      BY <1>0, <1>4 DEF RecTpl, Write
    <2>2. Calm /\ VisionAbsent BY <2>1 DEF Calm, Asked
    <2>3. disk' = disk BY <1>4, <2>2 DEF RecTpl, Calm, VisionAbsent, Done1
    <2> QED BY <1>4, <2>3 DEF RecTpl, IInv, TypeOK, Asked, Calm, RevisionKnown, GraftKnown, VisionAbsent, Grafting, Uninstalling, Chosen, Done1, Steps, Shard, Doc, Layer, Touched, Saved, Wish
  <1>5. CASE RecGrafted
    <2>1. CASE L78 = "bf16"
      <3>1. Only(".grafted", None) BY <1>5, <2>1, <1>0, RemoveOnly DEF RecGrafted
      <3> QED BY <1>5, <2>1, <3>1 DEF Only, RecGrafted, IInv, TypeOK, Asked, Calm, RevisionKnown, GraftKnown, VisionAbsent, Grafting, Uninstalling, Chosen, Done1, Steps, Shard, Doc, Layer, Touched, Saved, Wish
    <2>2. CASE L78 # "bf16"
      BY <1>5, <2>2 DEF RecGrafted, IInv, TypeOK, Asked, Calm, RevisionKnown, GraftKnown, VisionAbsent, Grafting, Uninstalling, Chosen, Done1, Steps, Shard, Doc, Layer, Touched, Saved, Wish
    <2> QED BY <2>1, <2>2
  <1>6. CASE RecTrellis
    <2>1. Only(".trellis", IF L78 = "trellis" THEN "present" ELSE None) BY <1>6, <1>0, WriteOnly DEF RecTrellis
    <2> QED BY <1>6, <2>1 DEF Only, RecTrellis, IInv, TypeOK, Asked, Calm, RevisionKnown, GraftKnown, VisionAbsent, Grafting, Uninstalling, Chosen, Done1, Steps, Shard, Doc, Layer, Touched, Saved, Wish
  <1>7. CASE RecVision
    <2>0. disk'["tpl.text-only"] = disk["tpl.text-only"] /\ faults' = faults
      BY <1>0, <1>7 DEF RecVision, Write
    <2>1. ~VisionOn BY <1>7, <2>0 DEF RecVision, Calm, Asked, VisionAbsent, Done1
    <2>2. Only(".vision", None) BY <1>7, <2>1, <1>0, WriteOnly DEF RecVision
    <2> QED BY <1>7, <2>2 DEF Only, RecVision, IInv, TypeOK, Asked, Calm, RevisionKnown, GraftKnown, VisionAbsent, Grafting, Uninstalling, Chosen, Done1, Steps, Shard, Doc, Layer, Touched, Saved, Wish
  <1> QED BY <1>1, <1>2, <1>3, <1>4, <1>5, <1>6, <1>7

(* Every step keeps it. *)
LEMMA StepAsked == IInv /\ Asked /\ [Next]_vars => Asked'
  <1> SUFFICES ASSUME IInv, Asked, [Next]_vars, Calm' PROVE Asked' BY DEF Asked
  <1>1. CASE UNCHANGED vars
    BY <1>1 DEF vars, Asked, Calm, RevisionKnown, GraftKnown, VisionAbsent, Has, L78, Saved
  <1>2. CASE Faults
    <2>1. faults' = faults + 1 /\ faults \in Nat
      BY <1>2 DEF Faults, Stopped, Failed, DownloadFails, CutShort, IInv, TypeOK
    <2> QED BY <2>1 DEF Calm
  <1>3. CASE Begin \/ Prepare
    BY <1>3, BeginAsked, FetchAsked, GraftAsked, InstallAsked, UninstallAsked, ReconcileAsked
       DEF Prepare, Revert, Fetch, Graft, Install, Uninstall, Reconcile
  <1> QED BY <1>1, <1>2, <1>3 DEF Next

(* A first download is what was asked for. *)
LEMMA InitAsked == Init => Asked
  <1> SUFFICES ASSUME Init PROVE Asked OBVIOUS
  <1>1. PICK w \in Wish : want = w /\ disk["shard"] = [rev |-> w.rev, l78 |-> "bf16"]
            /\ disk["cfg"] = [rev |-> w.rev, l78 |-> "bf16", vision |-> FALSE]
            /\ disk[".complete"] = w.rev
            /\ \A f \in Files \ {"shard", "idx", "cfg", "tpl", ".complete"} : disk[f] = None
    BY DEF Init, Files
  <1>2. pc = "idle" /\ got = {} BY DEF Init
  <1> QED BY <1>1, <1>2 DEF Asked, RevisionKnown, GraftKnown, VisionAbsent, Grafting, Uninstalling,
             Chosen, Done1, Has, L78, Saved, Touched, Orig, Files

(* Without a stop and as long as vision was never installed, the graft and the
   revision that are served are those that were asked for. *)
THEOREM ServedAsAsked == Spec => []WishHonoured
  <1>1. IInv /\ Asked => WishHonoured
    <2> SUFFICES ASSUME Asked, Ready, faults = 0, ~Has(Text["tpl"]), IInv
                 PROVE  /\ (L78 = "trellis") = want.graft
                        /\ disk["shard"].rev = want.rev /\ disk["cfg"].rev = want.rev
      BY DEF WishHonoured
    <2>1. RevisionKnown /\ GraftKnown BY DEF Asked, Calm, Text, Has
    <2>2. want.graft \in BOOLEAN BY DEF IInv, TypeOK, Wish
    <2>3. (L78 = "trellis") = want.graft
      BY <2>1, <2>2 DEF GraftKnown, Ready, Grafting, Chosen, Steps
    <2>4. disk["shard"].rev = want.rev /\ disk["cfg"].rev = want.rev
      BY <2>1 DEF RevisionKnown, Ready
    <2> QED BY <2>3, <2>4
  <1>2. Spec => []Asked
    <2>1. Spec => []IInv BY AlwaysIInv
    <2> QED BY <2>1, InitAsked, StepAsked, PTL DEF Spec
  <1> QED BY <1>1, <1>2, AlwaysIInv, PTL
=============================================================================
