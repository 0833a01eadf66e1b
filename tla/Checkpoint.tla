----------------------------- MODULE Checkpoint -----------------------------
(***************************************************************************)
(* Preparing the GLM-5.2 checkpoint before an engine is started            *)
(* (prepare_checkpoint of entrypoint.sh): an earlier graft of layer 78 is  *)
(* reverted, the weights are fetched, layer 78 is grafted or not, the      *)
(* vision wrapper is installed or removed, and reconcile_checkpoint.py     *)
(* derives from the tensors on disk what the snapshots may have got wrong. *)
(* Every step writes, replaces or removes one file of the volume, and the  *)
(* container may be stopped between any two of them, or in the middle of a *)
(* copy that is made in place; the next preparation may want something     *)
(* else.                                                                   *)
(*                                                                         *)
(* A file is what the properties tell apart: the revision it came from,    *)
(* whether it holds or describes a BF16 or a trellis layer 78, and whether *)
(* it holds or describes the vision tower.  The checkpoint's own layer 78  *)
(* is BF16.  The target is writable and no external draft is set.          *)
(***************************************************************************)
EXTENDS Naturals, FiniteSets

CONSTANTS
    Revs,        \* revisions of the one repository in this directory
    None,        \* no such file
    Torn,        \* the content of a file whose copy was cut short
    Grafts,      \* MTP78_MODE=graft may be asked for
    Visions,     \* VISION=1 may be asked for
    MaxFaults    \* bound: container stops, failing steps and copies cut short

ASSUME CheckpointAssumption ==
    /\ Revs # {}
    /\ Grafts \in BOOLEAN /\ Visions \in BOOLEAN /\ MaxFaults \in Nat

VARIABLES
    disk,    \* the files of MODEL_DIR
    pc,      \* the next step of the preparation
    back,    \* where a revert returns to
    want,    \* what this preparation was asked for
    got,     \* files this download has refreshed
    faults,
    cut,     \* history: the files whose copy was cut short
    passed   \* history: what this preparation's reconciler failed to do and passed over

vars == <<disk, pc, back, want, got, faults, cut, passed>>
seen == <<cut, passed>>

Layer == {"bf16", "trellis"}
Shard == [rev : Revs, l78 : Layer]
Doc == [rev : Revs, l78 : Layer, vision : BOOLEAN]
ASSUME NoneIsNoFile ==
    /\ None \notin Revs /\ None \notin Shard /\ None \notin Doc
    /\ None \notin {"text", "vision", "present"}
    /\ Torn \notin Revs /\ Torn \notin Shard /\ Torn \notin Doc
    /\ Torn \notin {"text", "vision", "present", None}

Wish == {w \in [rev : Revs, graft : BOOLEAN, vision : BOOLEAN] :
            (w.graft => Grafts) /\ (w.vision => Visions)}

(* The three files a graft touches, in the order it touches them, and the
   others.  A marker is there or not; .complete names the revision fetched. *)
Touched == {"shard", "idx", "cfg"}
Orig == [shard |-> "shard.orig", idx |-> "idx.orig", cfg |-> "cfg.orig"]
Text == [idx |-> "idx.text-only", cfg |-> "cfg.text-only", tpl |-> "tpl.text-only"]
Files == {"shard", "idx", "cfg", "tpl", "tower", "shard.orig", "idx.orig", "cfg.orig",
          "idx.text-only", "cfg.text-only", "tpl.text-only",
          ".grafted", ".trellis", ".vision", ".complete"}

Has(f) == disk[f] # None
Readable(f) == disk[f] # Torn
Write(f, v) == disk' = [disk EXCEPT ![f] = v]
Remove(f) == disk' = [disk EXCEPT ![f] = None]
Replace(b, f) == disk' = [disk EXCEPT ![f] = disk[b], ![b] = None]
Goto(l) == pc' = l

Steps == {"idle", "revert", "fetch", "mtp", "overlay", "graftShard", "graftIdx", "graftCfg",
          "graftMark", "vision", "tower", "tplBackup", "tpl", "cfgBackup", "cfg", "mark", "idxBackup",
          "idx", "unCfg", "unMark", "unIdx", "unTpl", "recCfg", "recIdx", "recTplBackup", "recTpl",
          "recGrafted", "recTrellis", "recVision", "ready"}

(* The files that are copied in place, under their final name. *)
CopiedInPlace == {"tower", "tpl", "tpl.text-only", "cfg.text-only", "idx.text-only"}

TypeOK ==
    /\ disk = [f \in Files |-> disk[f]]
    /\ disk["shard"] \in Shard /\ disk["idx"] \in Doc \cup {Torn} /\ disk["cfg"] \in Doc \cup {Torn}
    /\ disk[Orig["shard"]] \in Shard \cup {None}
    /\ \A f \in {Orig["idx"], Orig["cfg"], Text["idx"], Text["cfg"]} : disk[f] \in Doc \cup {Torn, None}
    /\ disk["tpl"] \in {"text", "vision", Torn} /\ disk[Text["tpl"]] \in {"text", Torn, None}
    /\ disk["tower"] \in {"present", Torn, None}
    /\ \A f \in {".grafted", ".trellis", ".vision"} : disk[f] \in {"present", None}
    /\ disk[".complete"] \in Revs
    /\ pc \in Steps /\ back \in {"idle", "fetch", "vision", "recCfg"}
    /\ want \in Wish /\ got \subseteq Touched \cup {"tpl"} /\ faults \in 0..MaxFaults
    /\ cut \subseteq CopiedInPlace /\ passed \subseteq {"tpl", ".grafted"}

(* A first download of some revision has completed. *)
Init ==
    /\ \E w \in Wish :
        /\ want = w
        /\ disk = [f \in Files |->
                CASE f = "shard" -> [rev |-> w.rev, l78 |-> "bf16"]
                  [] f \in {"idx", "cfg"} -> [rev |-> w.rev, l78 |-> "bf16", vision |-> FALSE]
                  [] f = "tpl" -> "text"
                  [] f = ".complete" -> w.rev
                  [] OTHER -> None]
    /\ pc = "idle" /\ back = "idle" /\ got = {} /\ faults = 0 /\ cut = {} /\ passed = {}

-----------------------------------------------------------------------------
(***************************************************************************)
(* revert_mtp78_before_fetch and graft_mtp78.py --revert.                  *)
(***************************************************************************)
(* Seeded defect: a graft of another revision is kept. *)
Keep_Mode(w) == w.graft

Keep(w) == w.graft /\ disk[".complete"] = w.rev

Begin ==
    /\ pc \in {"idle", "ready"}
    /\ \E w \in Wish :
        /\ want' = w
        /\ Goto(IF Has(".grafted") /\ ~Keep(w) THEN "revert" ELSE "fetch")
    /\ back' = "fetch" /\ got' = {} /\ passed' = {}
    /\ UNCHANGED <<disk, faults, cut>>

Next3(S) == IF "shard" \in S THEN "shard" ELSE IF "idx" \in S THEN "idx" ELSE "cfg"
Saved == {f \in Touched : Has(Orig[f])}

RevertFile ==
    /\ pc = "revert" /\ Saved # {}
    /\ Replace(Orig[Next3(Saved)], Next3(Saved))
    /\ UNCHANGED <<pc, back, want, got, faults, seen>>

RevertDone ==
    /\ pc = "revert" /\ Saved = {}
    /\ Remove(".grafted")
    /\ Goto(back)
    /\ UNCHANGED <<back, want, got, faults, seen>>

(***************************************************************************)
(* fetch_weights.  The completion marker decides; snapshot_download        *)
(* replaces the files in any order.                                        *)
(***************************************************************************)
Fetched ==
    /\ pc = "fetch" /\ disk[".complete"] = want.rev
    /\ Goto("mtp")
    /\ UNCHANGED <<disk, back, want, got, faults, seen>>

Snapshot == Touched \cup {"tpl"}
Pristine(f) == IF f = "tpl" THEN "text"
               ELSE IF f = "shard" THEN [rev |-> want.rev, l78 |-> "bf16"]
               ELSE [rev |-> want.rev, l78 |-> "bf16", vision |-> FALSE]

Download ==
    /\ pc = "fetch" /\ disk[".complete"] # want.rev
    /\ \E f \in Snapshot \ got : Write(f, Pristine(f)) /\ got' = got \cup {f}
    /\ UNCHANGED <<pc, back, want, faults, seen>>

Downloaded ==
    /\ pc = "fetch" /\ disk[".complete"] # want.rev /\ got = Snapshot
    /\ Write(".complete", want.rev)
    /\ Goto("mtp")
    /\ UNCHANGED <<back, want, got, faults, seen>>

(***************************************************************************)
(* prepare_mtp78 and graft_mtp78.py.                                       *)
(***************************************************************************)
Mtp ==
    /\ pc = "mtp"
    /\ Goto(IF want.graft
            THEN IF Has(".grafted") THEN "vision" ELSE "overlay"
            ELSE IF Has(".grafted") THEN "revert" ELSE "vision")
    /\ back' = "vision"
    /\ UNCHANGED <<disk, want, got, faults, seen>>

(* Seeded defect: the backups are made again. *)
Backup_Again ==
    /\ pc = "overlay"
    /\ disk' = [f \in Files |-> IF \E t \in Touched : f = Orig[t]
                              THEN disk[CHOOSE t \in Touched : f = Orig[t]] ELSE disk[f]]
    /\ Goto("graftShard")
    /\ UNCHANGED <<back, want, got, faults, seen>>

(* Backups are made only where there are none. *)
Backup ==
    /\ pc = "overlay"
    /\ IF Saved = Touched
       THEN Goto("graftShard") /\ UNCHANGED disk
       ELSE LET f == Next3(Touched \ Saved)
            IN Write(Orig[f], disk[f]) /\ UNCHANGED pc
    /\ UNCHANGED <<back, want, got, faults, seen>>

(* A step that reads a JSON document; one that does not parse makes it fail. *)
Reads(f, at, next, undo) ==
    /\ pc = at
    /\ IF Readable(f) THEN Goto(next) /\ UNCHANGED back ELSE Goto(undo) /\ back' = "idle"
    /\ UNCHANGED <<want, got, faults, seen>>
WriteIf(c, f, v) == IF c THEN Write(f, v) ELSE UNCHANGED disk

GraftFile(at, f, next) ==
    /\ Reads(Orig[f], at, next, "revert")
    /\ WriteIf(Readable(Orig[f]), f, [disk[Orig[f]] EXCEPT !.l78 = "trellis"])

GraftShard == GraftFile("graftShard", "shard", "graftIdx")
GraftIdx == GraftFile("graftIdx", "idx", "graftCfg")
GraftCfg == GraftFile("graftCfg", "cfg", "graftMark")

GraftMark ==
    /\ pc = "graftMark"
    /\ Write(".grafted", "present")
    /\ Goto("vision")
    /\ UNCHANGED <<back, want, got, faults, seen>>

(***************************************************************************)
(* prepare_vision, build_vision_config.py and index_add_vision.py.         *)
(***************************************************************************)
(* The marker is believed only when config.json is a wrapper. *)
Wrapped == Readable("cfg") /\ disk["cfg"].vision

Vision ==
    /\ pc = "vision"
    /\ IF want.vision
       THEN IF Has(".vision") /\ Wrapped
            THEN Goto("recCfg") /\ UNCHANGED <<disk, back>>
            ELSE Goto("tower") /\ Remove(".vision") /\ UNCHANGED back
       ELSE /\ Goto(IF Has(".vision") THEN "unCfg" ELSE "recCfg")
            /\ back' = "recCfg" /\ UNCHANGED disk
    /\ UNCHANGED <<want, got, faults, seen>>

Step(at, next) == pc = at /\ Goto(next) /\ UNCHANGED <<back, want, got, faults, seen>>

Tower == Step("tower", "tplBackup") /\ Write("tower", "present")

(* The template is saved even when the copy of the tower has failed. *)
TplBackup ==
    /\ Step("tplBackup", IF back = "idle" THEN "unCfg" ELSE "tpl")
    /\ WriteIf(~Has(Text["tpl"]), Text["tpl"], disk["tpl"])
Tpl == Step("tpl", "cfgBackup") /\ Write("tpl", "vision")

(* The text-only backup of a wrapper is what it wraps; where there is a backup
   already, config.json is not read. *)
CfgBackup ==
    IF Has(Text["cfg"])
    THEN Step("cfgBackup", "cfg") /\ UNCHANGED disk
    ELSE /\ Reads("cfg", "cfgBackup", "cfg", "unCfg")
         /\ WriteIf(Readable("cfg"), Text["cfg"], [disk["cfg"] EXCEPT !.vision = FALSE])
Cfg == /\ Reads(Text["cfg"], "cfg", "mark", "unCfg")
       /\ WriteIf(Readable(Text["cfg"]), "cfg", [disk[Text["cfg"]] EXCEPT !.vision = TRUE])
Mark == Step("mark", "idxBackup") /\ Write(".vision", "present")
IdxBackup ==
    /\ Step("idxBackup", "idx")
    /\ WriteIf(~Has(Text["idx"]), Text["idx"], disk["idx"])
Idx == /\ Reads(Text["idx"], "idx", "recCfg", "unCfg")
       /\ WriteIf(Readable(Text["idx"]), "idx", [disk[Text["idx"]] EXCEPT !.vision = TRUE])

(* restore_text_vision_state, before reconciling or after a failed install. *)
(* Seeded defect: restores a backup that may not be there. *)
UnCfg_Blind == Step("unCfg", "unMark") /\ Replace(Text["cfg"], "cfg")

UnCfg ==
    /\ Step("unCfg", "unMark")
    /\ IF Has(Text["cfg"]) THEN Replace(Text["cfg"], "cfg") ELSE UNCHANGED disk
UnMark == Step("unMark", "unIdx") /\ Remove(".vision")
UnIdx ==
    /\ Step("unIdx", "unTpl")
    /\ IF Has(Text["idx"]) THEN Replace(Text["idx"], "idx") ELSE UNCHANGED disk
UnTpl ==
    /\ Step("unTpl", back)
    /\ IF Has(Text["tpl"]) THEN Write("tpl", disk[Text["tpl"]]) ELSE UNCHANGED disk

(***************************************************************************)
(* reconcile_checkpoint.py: what is derived is derived from the tensors.   *)
(***************************************************************************)
VisionOn == want.vision /\ Has("tower")
L78 == disk["shard"].l78

(* A config.json that does not parse cannot be reconciled. *)
RecCfg ==
    /\ Reads("cfg", "recCfg", "recIdx", "idle")
    /\ WriteIf(Readable("cfg"), "cfg", [rev |-> disk["cfg"].rev, l78 |-> L78, vision |-> VisionOn])

(* An index that does not parse is rebuilt all the same. *)
RecIdx ==
    /\ Step("recIdx", "recTplBackup")
    /\ Write("idx", [rev |-> disk["shard"].rev, l78 |-> L78, vision |-> VisionOn])

(* Only a template that is not the vision one is saved as the text-only one. *)
RecTplBackup ==
    /\ Step("recTplBackup", "recTpl")
    /\ WriteIf(VisionOn /\ ~Has(Text["tpl"]) /\ disk["tpl"] # "vision", Text["tpl"], disk["tpl"])

RecTpl ==
    /\ Step("recTpl", "recGrafted")
    /\ IF VisionOn THEN Write("tpl", "vision")
       ELSE IF Has(Text["tpl"]) THEN Write("tpl", disk[Text["tpl"]])
       ELSE UNCHANGED disk

(* Seeded defect: a journal of a graft that is gone is kept. *)
RecGrafted_Kept == Step("recGrafted", "recTrellis") /\ UNCHANGED disk

(* The journal of a graft that is not on disk is stale. *)
RecGrafted ==
    /\ Step("recGrafted", "recTrellis")
    /\ IF L78 = "bf16" THEN Remove(".grafted") ELSE UNCHANGED disk
RecTrellis ==
    /\ Step("recTrellis", "recVision")
    /\ Write(".trellis", IF L78 = "trellis" THEN "present" ELSE None)
RecVision ==
    /\ Step("recVision", "ready")
    /\ Write(".vision", IF VisionOn THEN "present" ELSE None)

-----------------------------------------------------------------------------
Revert == RevertFile \/ RevertDone
Fetch == Fetched \/ Download \/ Downloaded
Graft == Mtp \/ Backup \/ GraftShard \/ GraftIdx \/ GraftCfg \/ GraftMark
Install == Vision \/ Tower \/ TplBackup \/ Tpl \/ CfgBackup \/ Cfg \/ Mark \/ IdxBackup \/ Idx
Uninstall == UnCfg \/ UnMark \/ UnIdx \/ UnTpl
Reconcile == RecCfg \/ RecIdx \/ RecTplBackup \/ RecTpl \/ RecGrafted \/ RecTrellis \/ RecVision
Prepare == Revert \/ Fetch \/ Graft \/ Install \/ Uninstall \/ Reconcile

(* A step fails.  A failed graft is reverted.  A failed install, and what fails
   while it is undone, only ends the preparation after the rest of the undoing.
   A marker that cannot be removed counts as an install.  The reconciler passes
   over a template it cannot copy and a marker it cannot remove; that of vision
   was removed before, or the preparation has ended. *)
Unwind(l) == Goto(l) /\ back' = "idle" /\ UNCHANGED passed
PassOver(f, l) == Goto(l) /\ passed' = passed \cup {f} /\ UNCHANGED back
GoOn(l) == Goto(l) /\ UNCHANGED <<back, passed>>

Fails ==
    \/ pc \in {"overlay", "graftShard", "graftIdx", "graftCfg", "graftMark"} /\ Unwind("revert")
    \/ pc = "vision" /\ want.vision /\ Has(".vision") /\ GoOn("recCfg")
    \/ pc = "tower" /\ Unwind("tplBackup")
    \/ pc \in {"tplBackup", "tpl", "cfgBackup", "cfg", "mark", "idxBackup", "idx"} /\ Unwind("unCfg")
    \/ pc \in {"unCfg", "unMark"} /\ Unwind("unIdx")
    \/ pc = "unIdx" /\ Unwind("unTpl")
    \/ pc \in {"recTplBackup", "recTpl"} /\ PassOver("tpl", "recGrafted")
    \/ pc = "recGrafted" /\ L78 = "bf16" /\ Has(".grafted") /\ PassOver(".grafted", "recTrellis")
    \/ pc = "recTrellis" /\ L78 = "bf16" /\ Has(".trellis") /\ GoOn("recVision")

Failed ==
    /\ faults < MaxFaults /\ faults' = faults + 1
    /\ Fails
    /\ UNCHANGED <<disk, want, got, cut>>

(* The tower cannot be downloaded: nothing is copied or saved. *)
DownloadFails ==
    /\ pc = "tower"
    /\ faults < MaxFaults /\ faults' = faults + 1
    /\ Unwind("unCfg")
    /\ UNCHANGED <<disk, want, got, cut>>

(* The container is stopped, or a step fails that ends the preparation. *)
Stopped ==
    /\ pc \notin {"idle", "ready"}
    /\ faults < MaxFaults /\ faults' = faults + 1
    /\ GoOn("idle")
    /\ UNCHANGED <<disk, want, got, cut>>

(* The file that the step at pc copies in place, under its final name: cp,
   shutil.copy2 and open(.., "w") are not a temporary file and a rename. *)
Copies(f) ==
    \/ pc = "tower" /\ f = "tower"
    \/ pc = "tplBackup" /\ f = Text["tpl"] /\ ~Has(f)
    \/ pc = "tpl" /\ f = "tpl"
    \/ pc = "cfgBackup" /\ f = Text["cfg"] /\ ~Has(f) /\ Readable("cfg")
    \/ pc = "idxBackup" /\ f = Text["idx"] /\ ~Has(f)
    \/ pc = "unTpl" /\ f = "tpl" /\ Has(Text["tpl"])
    \/ pc = "recTplBackup" /\ f = Text["tpl"] /\ ~Has(f) /\ VisionOn /\ disk["tpl"] # "vision"
    \/ /\ pc = "recTpl" /\ f = "tpl"
       /\ IF VisionOn THEN disk["tpl"] # "vision"
          ELSE Has(Text["tpl"]) /\ disk["tpl"] # disk[Text["tpl"]]

(* The container is stopped in the middle of such a copy, or the disk is full:
   the file is there, cut short. *)
CutShort ==
    /\ faults < MaxFaults /\ faults' = faults + 1
    /\ \E f \in CopiedInPlace : Copies(f) /\ Write(f, Torn) /\ cut' = cut \cup {f}
    /\ Fails \/ GoOn("idle")
    /\ UNCHANGED <<want, got>>

Faults == Failed \/ DownloadFails \/ Stopped \/ CutShort
Next == Begin \/ Prepare \/ Faults

Spec == Init /\ [][Next]_vars

-----------------------------------------------------------------------------
(***************************************************************************)
(* Safety: what an engine is started on.                                   *)
(***************************************************************************)
Ready == pc = "ready"

(* "A transition cannot leave the config describing weights that are not there":
   config.json and the index parse, and describe the layer 78 and the whole tower
   on disk. *)
DescribesTensors ==
    Ready => /\ Readable("cfg") /\ Readable("idx")
             /\ disk["cfg"].l78 = L78 /\ disk["idx"].l78 = L78
             /\ disk["idx"].rev = disk["shard"].rev
             /\ disk["cfg"].vision = disk["idx"].vision
             /\ disk["cfg"].vision => disk["tower"] = "present"

(* Image input is served exactly when it was asked for, with the wrapper, the index
   and the marker together. *)
VisionHonoured ==
    Ready => disk["cfg"].vision = want.vision /\ Has(".vision") = want.vision

(* So is the chat template, unless the reconciler failed to copy one and passed
   over it.  The text-only template served is the original, unless its backup was
   cut short. *)
TemplateServed ==
    Ready /\ "tpl" \notin passed =>
        IF want.vision THEN disk["tpl"] = "vision"
        ELSE disk["tpl"] = "text" \/ Text["tpl"] \in cut

(* A journal of a graft never outlives the trellis layer 78 it stands for, unless
   the reconciler failed to remove it: the next preparation would take the native
   layer for a grafted one. *)
JournalIsLive == Ready /\ Has(".grafted") => L78 = "trellis" \/ ".grafted" \in passed

(* What an engine is started on is consistent: the files describe each other, the
   wish for image input is honoured, and no journal speaks of what is gone. *)
ServedIsConsistent == DescribesTensors /\ VisionHonoured /\ TemplateServed /\ JournalIsLive

(* The text-only template is in place or saved, unless the copy that saved it was
   cut short: such a backup is never made again. *)
TextTemplateKept ==
    disk["tpl"] = "text" \/ disk[Text["tpl"]] = "text" \/ Text["tpl"] \in cut

(* config.json is lost only with its backup: a backup that was cut short is moved
   over it. *)
ConfigKept == Readable("cfg") \/ Text["cfg"] \in cut

(* Nothing of a preparation loses the native layer 78: it is in place, or in the
   graft's backup, which is written to a temporary file and renamed. *)
NativeLayerKept == L78 = "trellis" => Has(Orig["shard"]) /\ disk[Orig["shard"]].l78 = "bf16"

(* Whatever stops or fails, the way back to the native layer is kept; that to the
   text-only template and config.json itself are lost only by a stop or a full disk
   in the middle of the one copy that made their backup. *)
BackupsKept == TextTemplateKept /\ ConfigKept /\ NativeLayerKept

(* Without a stop, and as long as vision was never installed, what was asked for
   is what is served: the graft, and one revision in all the files. *)
WishHonoured ==
    Ready /\ faults = 0 /\ ~Has(Text["tpl"]) =>
        /\ (L78 = "trellis") = want.graft
        /\ disk["shard"].rev = want.rev /\ disk["cfg"].rev = want.rev
=============================================================================
