------------------------------- MODULE Layers -------------------------------
(***************************************************************************)
(* The layering of the knobs (scripts/glm_config.py): the built-in         *)
(* defaults, the family's, what the host was detected to have, the         *)
(* variant's, the startup environment and the state file resolve to one    *)
(* configuration; the state file keeps only the difference.  The page      *)
(* edits that configuration, PID 1 records a good one whole and reduces it *)
(* again when it rolls back, and a new container brings another            *)
(* environment to the same state file.                                     *)
(*                                                                         *)
(* The registry is cut down to the knobs that are treated differently:     *)
(* the two identities, a detected one (tp), one that follows it (dcp), one *)
(* that silences another (draft, tokens) and a strict one (share), over    *)
(* two families and three variants.                                        *)
(***************************************************************************)
EXTENDS Integers, FiniteSets, Functions

CONSTANTS
  Templates,  \* startup environments: raw knob values and the GPUs found
  Offered,    \* values an operator gives to each knob
  MaxOps      \* bound on applied changes and container replacements

VARIABLES
  env,   \* the frozen startup layer
  file,  \* "values" of config.json: a function on the knobs it overrides
  good,  \* the "effective" of known-good.json, or <<>>
  ops    \* changes so far

vars == <<env, file, good, ops>>

Identity == {"family", "variant"}

\* Knobs marked reject_invalid.
Strict == {"share"}

\* What coerce accepts.  A share is the default, one that its form field
\* prints in full, or one with more digits than the field prints.
Legal == [family |-> {"glm52", "qwen36"},
          variant |-> {"exl3-tr3", "nvfp4", "qwen36-nvfp4"},
          tp |-> 1 .. 16, dcp |-> {1, 2, 4, 8},
          draft |-> {"native", "tr3-graft", "off"}, tokens |-> 0 .. 8,
          share |-> {"default", "short", "long"}]

Knobs == DOMAIN Legal

Builtin == [family |-> "glm52", variant |-> "exl3-tr3", tp |-> 4, dcp |-> 4,
            draft |-> "native", tokens |-> 3, share |-> "default"]

FamilyDefaults ==
  [glm52 |-> [variant |-> "exl3-tr3", tokens |-> 3],
   qwen36 |-> [variant |-> "qwen36-nvfp4", tp |-> 1, tokens |-> 0]]

VariantFamily == [v \in Legal.variant |->
                    IF v = "qwen36-nvfp4" THEN "qwen36" ELSE "glm52"]

VariantDefaults == [v \in Legal.variant |->
  IF v = "exl3-tr3" THEN [dcp |-> 2, tokens |-> 5, draft |-> "native"] ELSE <<>>]

\* A template holds raw values; what an operator gives has passed coerce.
ASSUME LayersAssumption ==
  /\ \A t \in Templates : /\ t = [values |-> t.values, gpus |-> t.gpus]
                          /\ DOMAIN t.values \subseteq Knobs
                          /\ t.gpus \in Nat
  /\ \A k \in Knobs : Offered[k] \subseteq Legal[k]

Applies(k, family) == k \in {"dcp", "draft", "share"} => family = "glm52"

\* One layer over another.
upper ++ lower ==
  [k \in DOMAIN upper \cup DOMAIN lower |-> IF k \in DOMAIN upper THEN upper[k] ELSE lower[k]]

Sound(layer) == {k \in DOMAIN layer : layer[k] \in Legal[k]}

\* Malformed values are dropped here, but for those of strict knobs.
Snapshot(template) ==
  [template EXCEPT !.values = Restrict(@, Sound(@) \cup (Strict \cap DOMAIN @))]

-----------------------------------------------------------------------------
(* Resolution *)

Said(values, e) == Restrict(values, Sound(values)) ++ Restrict(e.values, Sound(e.values))

FamilyOf(values, e) == (Said(values, e) ++ Builtin).family

Detected(gpus) ==
  IF gpus = 0 THEN <<>>
  ELSE [tp |-> IF gpus < 16 THEN gpus ELSE 16, dcp |-> IF gpus < 8 THEN gpus ELSE 8]

\* One KV shard per rank, as far as the rank count divides.
LargestShard(tp) ==
  CHOOSE c \in {1, 2, 4, 8} : /\ c <= tp /\ tp % c = 0
                              /\ \A d \in {1, 2, 4, 8} : d <= tp /\ tp % d = 0 => d <= c

\* A dcp that nobody gave follows tp; draft "off" silences tokens.
Follow(c, e, given) ==
  IF e.gpus > 0 /\ c.family = "glm52" /\ "dcp" \notin given
  THEN [c EXCEPT !.dcp = LargestShard(c.tp)] ELSE c

Silence(c) ==
  IF c.family = "glm52" /\ c.draft = "off" THEN [c EXCEPT !.tokens = 0] ELSE c

Layered(family, said, e) ==
  LET preset == VariantDefaults[(said ++ FamilyDefaults[family]).variant]
      upper == said ++ Restrict(preset, {k \in DOMAIN preset : Applies(k, family)})
  IN  Silence(Follow(upper ++ Detected(e.gpus) ++ FamilyDefaults[family] ++ Builtin,
                     e, DOMAIN said \cup DOMAIN preset))

Resolve(values, e) == Layered(FamilyOf(values, e), Said(values, e), e)

\* resolve raises: a strict knob is malformed and the file does not supersede it.
Refuses(values, e) ==
  \E k \in Strict \ Sound(values) :
    /\ Applies(k, FamilyOf(values, e))
    /\ \E layer \in {values, e.values} : k \in DOMAIN layer \ Sound(layer)

\* The rules of validate that relate these knobs, with the keys of the file.
Valid(c, gpus, keys) ==
  /\ VariantFamily[c.variant] = c.family
  /\ gpus > 0 => c.tp <= gpus
  /\ c.family = "glm52" => c.tp >= 4 /\ c.tp % c.dcp = 0
  /\ \A k \in keys : Applies(k, c.family)

-----------------------------------------------------------------------------
(* Minimisation *)

Broken(e) == (Strict \cap DOMAIN e.values) \ Sound(e.values)

\* Seeded defect: a repair that equals the default is not kept.
Reduce_DropRepair(values, e, profile, below, own) ==
  Restrict(values ++ profile,
    {k \in Identity : profile[k] # below[k]}
    \cup {k \in DOMAIN values \ Identity :
            Applies(k, profile.family) /\ values[k] # own[k]})

Reduce(values, e, profile, below, own) ==
  Restrict(values ++ profile,
    {k \in Identity : profile[k] # below[k]}
    \cup {k \in DOMAIN values \ Identity :
            /\ Applies(k, profile.family)
            /\ values[k] # own[k] \/ k \in Broken(e)})

\* Seeded defect: the family is compared with the baseline built from it.
Below_Circular(base, e) == base

\* The family is compared with no file at all, the variant with the family
\* alone, every other knob with the chosen profile.
Below(base, e) == [family |-> Resolve(<<>>, e).family, variant |-> base.variant]

ReduceOver(values, e, base) ==
  LET profile == [family |-> base.family, variant |-> (values ++ base).variant]
  IN  Reduce(values, e, profile, Below(base, e), Resolve(profile, e))

Minimize(values, e) == ReduceOver(values, e, Resolve([family |-> FamilyOf(values, e)], e))

-----------------------------------------------------------------------------
(* The page *)

Current == Resolve(file, env)

\* The controls of a rendered configuration.  A field prints six digits;
\* inapplicable knobs have none.
Form(shown) == [k \in {k \in Knobs : Applies(k, shown.family)} |->
                  IF k = "share" /\ shown.share = "long" THEN "short" ELSE shown[k]]

\* Seeded defect: every control of the old profile is kept.
SwitchProfile_KeepAll(values, current) == values

\* A change of profile discards the controls that were left alone.
SwitchProfile(values, current) ==
  IF \A k \in Identity : values[k] = current[k] THEN values
  ELSE Restrict(values, {k \in DOMAIN values : k \in Identity \/ values[k] # current[k]})

\* Documents over at most two knobs, with values an operator gives.
Documents ==
  UNION {{[i \in {j, k} |-> IF i = j THEN x ELSE y] : x \in Offered[j], y \in Offered[k]} :
           j \in Knobs, k \in Knobs}

\* Edits of a form; no control is set to what it shows.
Edits(form) == {d \in Documents : \A k \in DOMAIN d : k \in DOMAIN form /\ d[k] # form[k]}

Submitted(edits, current) == SwitchProfile(edits ++ Form(current), current)

Accepted(minimal) ==
  /\ ~Refuses(file, env) /\ ~Refuses(minimal, env)
  /\ Valid(Resolve(minimal, env), env.gpus, DOMAIN minimal)

\* apply_values past the comparison of revisions; no change, no write.
ApplyValues(values, current) ==
  LET minimal == Minimize(values, env)
  IN  /\ Accepted(minimal)
      /\ Resolve(minimal, env) # current
      /\ file' = minimal
      /\ UNCHANGED <<env, good>>

Submit == LET current == Current
          IN  \E edits \in Edits(Form(current)) :
                ApplyValues(Submitted(edits, current), current)

Import == LET current == Current
          IN  \E doc \in Documents : ApplyValues(doc, current)

Reset ==
  /\ Accepted(<<>>)
  /\ file' = <<>>
  /\ UNCHANGED <<env, good>>

-----------------------------------------------------------------------------
(* PID 1 *)

MarkGood ==
  /\ ~Refuses(file, env) /\ Valid(Current, env.gpus, DOMAIN file)
  /\ good' = Current
  /\ UNCHANGED <<env, file>>

\* _known_good_replay: exact on what the family has, and valid on this host.
Replayable(target) ==
  LET replay == Minimize(target, env)
      restored == Resolve(replay, env)
  IN  /\ ~Refuses(replay, env)
      /\ \A k \in Knobs : Applies(k, target.family) => restored[k] = target[k]
      /\ Valid(restored, env.gpus, DOMAIN replay)

Rollback ==
  /\ ~Refuses(file, env)
  /\ \/ /\ good = <<>> /\ file # <<>>
        /\ file' = <<>>
     \/ /\ good # <<>> /\ Current # good
        /\ Replayable(good)
        /\ file' = Minimize(good, env)
  /\ UNCHANGED <<env, good>>

\* A container started from another template, on another host perhaps, with
\* the same volume.
NewContainer ==
  /\ \E t \in Templates : env' = Snapshot(t)
  /\ UNCHANGED <<file, good>>

Init == /\ env \in {Snapshot(t) : t \in Templates}
        /\ file = <<>> /\ good = <<>> /\ ops = 0

Next ==
  \/ /\ ops < MaxOps /\ ops' = ops + 1
     /\ Submit \/ Import \/ Reset \/ NewContainer
  \/ (MarkGood \/ Rollback) /\ UNCHANGED ops

Spec == Init /\ [][Next]_vars

-----------------------------------------------------------------------------
(* Properties *)

\* Two knobs of the glm52 family can differ from the baseline without having
\* been touched, or equal it although they were: tokens, which draft "off"
\* zeroes, when the profile has "off" and the configuration not, or the other
\* way round; and a detected dcp, which follows tp, under another tp than the
\* profile's.
Adrift(c) ==
  LET own == Resolve(Restrict(c, Identity), env)
  IN  {k \in {"tokens", "dcp"} :
         /\ c.family = "glm52"
         /\ k = "tokens" => (own.draft = "off") # (c.draft = "off")
         /\ k = "dcp" =>
              /\ env.gpus > 0 /\ own.tp # c.tp
              /\ "dcp" \notin Sound(env.values) \cup DOMAIN VariantDefaults[c.variant]}

\* The knobs that say something: of the family, and not silenced.
Binding(c) ==
  {k \in Knobs : /\ Applies(k, c.family)
                 /\ k = "tokens" => c.family # "glm52" \/ c.draft # "off"}

AsAsked(minimal, got, asked) ==
  Accepted(minimal) =>
    \A k \in (DOMAIN asked \cap Binding(got)) \ Adrift(got) : got[k] = asked[k]

Resolved(minimal, asked) == AsAsked(minimal, Resolve(minimal, env), asked)

\* An accepted submission or import resolves to what was asked: each edited
\* knob has the value asked for, each other knob of an unchanged profile the
\* one it showed, and of a changed profile that profile's own
\* (apply_values, minimize, _profile_switch_form_values).
AppliedAsAsked ==
  /\ LET current == Current
     IN  \A edits \in Edits(Form(current)) :
           LET values == Submitted(edits, current)
           IN  Resolved(Minimize(values, env),
                        values ++ Resolve(Restrict(values, Identity), env))
  /\ \A doc \in Documents : Resolved(Minimize(doc, env), doc)

Pinned(minimal, current, edits) ==
  Accepted(minimal) =>
    DOMAIN minimal \subseteq
      DOMAIN file \cup DOMAIN edits
      \cup Adrift(current)
      \cup {k \in Strict : current[k] = "long"}

\* "The state file is a diff, not a snapshot": a submission adds to the file
\* only knobs that were edited.
OnlyEditsArePinned ==
  LET current == Current
  IN  \A edits \in Edits(Form(current)) :
        Pinned(Minimize(Submitted(edits, current), env), current, edits)

\* A configuration recorded as good can be reproduced by a state file over any
\* later template and host on which it is valid: rollback never depends on
\* where its values came from (cmd_mark_good, _known_good_replay).
GoodIsReplayable ==
  /\ good # <<>>
  /\ Valid(good, env.gpus, {})
  /\ Adrift(good) = {}
  => Replayable(good)
=============================================================================
