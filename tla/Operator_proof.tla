-------------------------- MODULE Operator_proof ---------------------------
(***************************************************************************)
(* Proofs about what an operator asks of the landing page: the layered     *)
(* configuration, the termination switches and a termination.              *)
(*                                                                         *)
(* Layers, for every template, host and legal value, on one lemma,         *)
(* Faithful: what a minimised document resolves to.                        *)
(* Switches, for any number of requests, inodes and containers: while no   *)
(* two requests overlap they only tighten, however often the page dies and *)
(* whatever temporary it leaves behind.                                    *)
(* Termination, for any number of request threads, workers and faults: a   *)
(* confirmed lock keeps every worker from the destroy call, and while one  *)
(* worker was started at most, no engine runs under an erase it was told   *)
(* is safe.                                                                *)
(***************************************************************************)
EXTENDS Layers, Switches, Termination, TLAPS

\* A layer whose values are legal, and a startup layer as it is frozen.
Lawful(layer) == DOMAIN layer \subseteq Knobs /\ \A k \in DOMAIN layer : layer[k] \in Legal[k]

Host(e) == DOMAIN e.values \subseteq Knobs /\ e.gpus \in Nat

\* A resolved configuration: what its family has is legal, and a draft that is
\* off silences the tokens.
Config(c) ==
  /\ DOMAIN c = Knobs
  /\ \A k \in Knobs : Applies(k, c.family) => c[k] \in Legal[k]
  /\ c.family = "glm52" /\ c.draft = "off" => c.tokens = 0

(* The inductive invariant.                                                *)
LayersInv == Host(env) /\ DOMAIN file \subseteq Knobs /\ (good = <<>> \/ Config(good))

-----------------------------------------------------------------------------
(* Layers *)

(* The knobs, and what their tables say of them.                           *)
LEMMA Tables ==
    /\ Knobs = {"family", "variant", "tp", "dcp", "draft", "tokens", "share"}
    /\ Identity = {"family", "variant"} /\ Strict = {"share"}
    /\ Legal["family"] = {"glm52", "qwen36"}
    /\ Legal["variant"] = {"exl3-tr3", "nvfp4", "qwen36-nvfp4"}
    /\ Legal["tp"] = 1 .. 16 /\ Legal["dcp"] = {1, 2, 4, 8}
    /\ Legal["draft"] = {"native", "tr3-graft", "off"} /\ Legal["tokens"] = 0 .. 8
    /\ Legal["share"] = {"default", "short", "long"}
  BY DEF Knobs, Identity, Strict, Legal

(* One layer over another has the knobs of both and the upper one's values. *)
LEMMA Over ==
    ASSUME NEW f, NEW g
    PROVE  /\ DOMAIN (f ++ g) = DOMAIN f \cup DOMAIN g
           /\ \A k \in DOMAIN f : (f ++ g)[k] = f[k]
           /\ \A k \in DOMAIN g : k \notin DOMAIN f => (f ++ g)[k] = g[k]
  BY DEF ++

(* A restriction has the values of what it restricts.                      *)
LEMMA Restricted ==
    ASSUME NEW f, NEW S
    PROVE  DOMAIN Restrict(f, S) = S /\ \A k \in S : Restrict(f, S)[k] = f[k]
  BY DEF Restrict

(* A layer over another is lawful when both are.                           *)
LEMMA LawfulOver ==
    ASSUME NEW f, NEW g, Lawful(f), Lawful(g) PROVE Lawful(f ++ g)
  <1>1. DOMAIN (f ++ g) \subseteq Knobs BY Over DEF Lawful
  <1>2. ASSUME NEW k \in DOMAIN (f ++ g) PROVE (f ++ g)[k] \in Legal[k]
    <2>1. CASE k \in DOMAIN f
      <3>1. (f ++ g)[k] = f[k] BY <2>1 DEF ++
      <3> QED BY <2>1, <3>1 DEF Lawful
    <2>2. CASE k \notin DOMAIN f
      <3>1. k \in DOMAIN g BY <2>2, <1>2 DEF ++
      <3>2. (f ++ g)[k] = g[k] BY <2>2, <3>1 DEF ++
      <3> QED BY <3>1, <3>2 DEF Lawful
    <2> QED BY <2>1, <2>2
  <1> QED BY <1>1, <1>2 DEF Lawful

(* The defaults are lawful, and none but the built-in names a family.      *)
LEMMA Defaults ==
    /\ Lawful(Builtin) /\ DOMAIN Builtin = Knobs /\ Builtin.family = "glm52"
    /\ \A f \in Legal.family :
         /\ Lawful(FamilyDefaults[f])
         /\ "variant" \in DOMAIN FamilyDefaults[f] /\ "family" \notin DOMAIN FamilyDefaults[f]
         /\ VariantFamily[FamilyDefaults[f].variant] = f
    /\ \A v \in Legal.variant :
         Lawful(VariantDefaults[v]) /\ DOMAIN VariantDefaults[v] \cap Identity = {}
  <1>1. Lawful(Builtin) /\ DOMAIN Builtin = Knobs /\ Builtin.family = "glm52"
    BY Tables DEF Lawful, Builtin
  <1>2. ASSUME NEW f \in Legal.family
        PROVE  /\ Lawful(FamilyDefaults[f])
               /\ "variant" \in DOMAIN FamilyDefaults[f] /\ "family" \notin DOMAIN FamilyDefaults[f]
               /\ VariantFamily[FamilyDefaults[f].variant] = f
    <2>1. CASE f = "glm52" BY <2>1, Tables DEF Lawful, FamilyDefaults, VariantFamily
    <2>2. CASE f = "qwen36" BY <2>2, Tables DEF Lawful, FamilyDefaults, VariantFamily
    <2> QED BY <2>1, <2>2, Tables
  <1>3. ASSUME NEW v \in Legal.variant
        PROVE  Lawful(VariantDefaults[v]) /\ DOMAIN VariantDefaults[v] \cap Identity = {}
    <2>1. CASE v = "exl3-tr3" BY <2>1, Tables DEF Lawful, VariantDefaults
    <2>2. CASE v # "exl3-tr3" BY <2>2, Tables DEF Lawful, VariantDefaults
    <2> QED BY <2>1, <2>2
  <1> QED BY <1>1, <1>2, <1>3

(* What is detected is a rank count and a shard count; only the latter may  *)
(* be illegal.                                                             *)
LEMMA Detections ==
    ASSUME NEW n \in Nat
    PROVE  /\ DOMAIN Detected(n) \subseteq {"tp", "dcp"}
           /\ "tp" \in DOMAIN Detected(n) => Detected(n)["tp"] \in Legal["tp"]
           /\ "dcp" \in DOMAIN Detected(n) => n > 0
  <1>1. CASE n = 0 BY <1>1 DEF Detected
  <1>2. CASE n # 0
    <2>1. DOMAIN Detected(n) = {"tp", "dcp"} /\ Detected(n)["tp"] = IF n < 16 THEN n ELSE 16
      BY <1>2 DEF Detected
    <2>2. Detected(n)["tp"] \in 1 .. 16 BY <2>1, <1>2
    <2> QED BY <2>1, <2>2, <1>2, Tables
  <1> QED BY <1>1, <1>2

(* A positive rank count has a largest shard.                              *)
LEMMA Shards == ASSUME NEW n \in 1 .. 16 PROVE LargestShard(n) \in {1, 2, 4, 8}
  <1> DEFINE Fits(c) == c <= n /\ n % c = 0
  <1>1. Fits(1) OBVIOUS
  <1>2. \E c \in {1, 2, 4, 8} : Fits(c) /\ \A d \in {1, 2, 4, 8} : Fits(d) => d <= c
    <2> HIDE DEF Fits
    <2>1. CASE Fits(8) BY <2>1
    <2>2. CASE ~Fits(8) /\ Fits(4) BY <2>2
    <2>3. CASE ~Fits(8) /\ ~Fits(4) /\ Fits(2) BY <2>3
    <2>4. CASE ~Fits(8) /\ ~Fits(4) /\ ~Fits(2) BY <2>4, <1>1
    <2> QED BY <2>1, <2>2, <2>3, <2>4
  <1> QED BY <1>2 DEF LargestShard

-----------------------------------------------------------------------------
(* Resolution *)

\* The parts of Layered: the family that follows from what was said, the
\* variant chosen, the knobs its preset gives, the layers before any knob
\* follows or silences another.
Family(said) == (said ++ Builtin).family

Chosen(said) == (said ++ FamilyDefaults[Family(said)]).variant

Given(said) == DOMAIN said \cup DOMAIN VariantDefaults[Chosen(said)]

Plain(said, e) ==
  LET preset == VariantDefaults[Chosen(said)]
      upper == said ++ Restrict(preset, {k \in DOMAIN preset : Applies(k, Family(said))})
  IN  upper ++ Detected(e.gpus) ++ FamilyDefaults[Family(said)] ++ Builtin

(* What was said settles a legal family and a legal variant.               *)
LEMMA Settled ==
    ASSUME NEW said, Lawful(said)
    PROVE  /\ Family(said) \in Legal.family /\ Chosen(said) \in Legal.variant
           /\ Family(said) = IF "family" \in DOMAIN said THEN said["family"] ELSE "glm52"
           /\ Chosen(said) = IF "variant" \in DOMAIN said THEN said["variant"]
                             ELSE FamilyDefaults[Family(said)].variant
  <1>1. Family(said) = IF "family" \in DOMAIN said THEN said["family"] ELSE "glm52"
    <2>1. "family" \in DOMAIN Builtin /\ Builtin["family"] = "glm52" BY Defaults, Tables
    <2>2. CASE "family" \in DOMAIN said
      <3>1. (said ++ Builtin)["family"] = said["family"] BY <2>2 DEF ++
      <3> QED BY <2>2, <3>1 DEF Family
    <2>3. CASE "family" \notin DOMAIN said
      <3>1. (said ++ Builtin)["family"] = "glm52" BY <2>1, <2>3 DEF ++
      <3> QED BY <2>3, <3>1 DEF Family
    <2> QED BY <2>2, <2>3
  <1>2. Family(said) \in Legal.family
    BY <1>1, Tables DEF Lawful
  <1>3. Chosen(said) = IF "variant" \in DOMAIN said THEN said["variant"]
                      ELSE FamilyDefaults[Family(said)].variant
    <2> DEFINE own == FamilyDefaults[Family(said)]
    <2>1. "variant" \in DOMAIN own BY <1>2, Defaults
    <2>2. Chosen(said) = (said ++ own)["variant"] BY DEF Chosen
    <2> HIDE DEF own
    <2>3. Chosen(said) = IF "variant" \in DOMAIN said THEN said["variant"] ELSE own["variant"]
      <3>1. CASE "variant" \in DOMAIN said BY <2>2, <3>1 DEF ++
      <3>2. CASE "variant" \notin DOMAIN said BY <2>1, <2>2, <3>2 DEF ++
      <3> QED BY <3>1, <3>2
    <2> QED BY <2>3 DEF own
  <1>4. FamilyDefaults[Family(said)]["variant"] \in Legal["variant"]
    BY <1>2, Defaults DEF Lawful
  <1>5. Chosen(said) \in Legal.variant
    BY <1>3, <1>4 DEF Lawful
  <1> QED BY <1>1, <1>2, <1>3, <1>5

(* Of five layers, each knob has the value of the first that names it.     *)
LEMMA Stacked ==
    ASSUME NEW s, NEW p, NEW h, NEW f, NEW b, NEW k \in DOMAIN b
    PROVE  (s ++ p ++ h ++ f ++ b)[k] =
              IF k \in DOMAIN s THEN s[k] ELSE IF k \in DOMAIN p THEN p[k]
              ELSE IF k \in DOMAIN h THEN h[k] ELSE IF k \in DOMAIN f THEN f[k] ELSE b[k]
  BY DEF ++

(* What a knob is before it follows or is silenced.                        *)
LEMMA PlainValue ==
    ASSUME NEW said, NEW e, Lawful(said), e.gpus \in Nat, NEW k \in Knobs
    PROVE  Plain(said, e)[k] =
              IF k \in DOMAIN said THEN said[k]
              ELSE IF k \in DOMAIN VariantDefaults[Chosen(said)] /\ Applies(k, Family(said))
              THEN VariantDefaults[Chosen(said)][k]
              ELSE IF k \in DOMAIN Detected(e.gpus) THEN Detected(e.gpus)[k]
              ELSE IF k \in DOMAIN FamilyDefaults[Family(said)] THEN FamilyDefaults[Family(said)][k]
              ELSE Builtin[k]
  <1> DEFINE v == VariantDefaults[Chosen(said)]
             p == Restrict(v, {j \in DOMAIN v : Applies(j, Family(said))})
             h == Detected(e.gpus)
             f == FamilyDefaults[Family(said)]
  <1>1. k \in DOMAIN Builtin BY Defaults
  <1>2. Plain(said, e) = said ++ p ++ h ++ f ++ Builtin BY DEF Plain
  <1>3. DOMAIN p = {j \in DOMAIN v : Applies(j, Family(said))} BY DEF Restrict
  <1>4. k \in DOMAIN p => p[k] = v[k] BY DEF Restrict
  <1> HIDE DEF v, p, h, f
  <1>5. Plain(said, e)[k] =
           IF k \in DOMAIN said THEN said[k] ELSE IF k \in DOMAIN p THEN p[k]
           ELSE IF k \in DOMAIN h THEN h[k] ELSE IF k \in DOMAIN f THEN f[k] ELSE Builtin[k]
    BY <1>1, <1>2, Stacked
  <1>6. Plain(said, e)[k] =
           IF k \in DOMAIN said THEN said[k]
           ELSE IF k \in DOMAIN v /\ Applies(k, Family(said)) THEN v[k]
           ELSE IF k \in DOMAIN h THEN h[k] ELSE IF k \in DOMAIN f THEN f[k] ELSE Builtin[k]
    BY <1>3, <1>4, <1>5
  <1> QED BY <1>6 DEF v, h, f

(* The layers name every knob; what was said wins, the identity is what was *)
(* settled, and only a detected dcp may be illegal.                        *)
LEMMA PlainFacts ==
    ASSUME NEW said, NEW e, Lawful(said), e.gpus \in Nat
    PROVE  /\ DOMAIN Plain(said, e) = Knobs
           /\ \A k \in DOMAIN said : Plain(said, e)[k] = said[k]
           /\ Plain(said, e).family = Family(said)
           /\ Plain(said, e).variant = Chosen(said)
           /\ \A k \in Knobs :
                \/ Plain(said, e)[k] \in Legal[k]
                \/ k = "dcp" /\ e.gpus > 0 /\ (Family(said) = "glm52" => k \notin Given(said))
  <1> DEFINE v == VariantDefaults[Chosen(said)]
             h == Detected(e.gpus)
             f == FamilyDefaults[Family(said)]
  <1>1. Family(said) \in Legal.family /\ Chosen(said) \in Legal.variant BY Settled
  <1>2. Lawful(v) /\ DOMAIN v \cap Identity = {} BY <1>1, Defaults
  <1>3. Lawful(f) /\ "variant" \in DOMAIN f /\ "family" \notin DOMAIN f BY <1>1, Defaults
  <1>4. /\ DOMAIN h \subseteq {"tp", "dcp"}
        /\ "tp" \in DOMAIN h => h["tp"] \in Legal["tp"]
        /\ "dcp" \in DOMAIN h => e.gpus > 0
    BY Detections
  <1>5. Lawful(Builtin) /\ DOMAIN Builtin = Knobs /\ Builtin["family"] = "glm52" BY Defaults
  <1>6. DOMAIN Plain(said, e) = Knobs
    <2>1. DOMAIN Plain(said, e) =
             DOMAIN said \cup {j \in DOMAIN v : Applies(j, Family(said))}
             \cup DOMAIN h \cup DOMAIN f \cup DOMAIN Builtin
      BY DEF Plain, ++, Restrict
    <2> QED BY <2>1, <1>2, <1>3, <1>4, <1>5, Tables DEF Lawful
  <1>7. \A k \in Knobs : Plain(said, e)[k] =
              IF k \in DOMAIN said THEN said[k]
              ELSE IF k \in DOMAIN v /\ Applies(k, Family(said)) THEN v[k]
              ELSE IF k \in DOMAIN h THEN h[k] ELSE IF k \in DOMAIN f THEN f[k] ELSE Builtin[k]
    BY PlainValue
  <1>8. /\ Family(said) = IF "family" \in DOMAIN said THEN said["family"] ELSE "glm52"
        /\ Chosen(said) = IF "variant" \in DOMAIN said THEN said["variant"] ELSE f["variant"]
    BY Settled
  <1>9. Given(said) = DOMAIN said \cup DOMAIN v BY DEF Given
  <1> HIDE DEF v, h, f
  <1>10. \A k \in DOMAIN said : Plain(said, e)[k] = said[k] BY <1>7 DEF Lawful
  <1>11. Plain(said, e)["family"] = Family(said)
    BY <1>2, <1>3, <1>4, <1>5, <1>7, <1>8, Tables
  <1>12. Plain(said, e)["variant"] = Chosen(said)
    BY <1>2, <1>3, <1>4, <1>7, <1>8, Tables
  <1>13. ASSUME NEW k \in Knobs
         PROVE  \/ Plain(said, e)[k] \in Legal[k]
                \/ k = "dcp" /\ e.gpus > 0 /\ (Family(said) = "glm52" => k \notin Given(said))
    <2>1. CASE k \in DOMAIN said BY <2>1, <1>10 DEF Lawful
    <2>2. CASE k \notin DOMAIN said /\ k \in DOMAIN v /\ Applies(k, Family(said))
      BY <2>2, <1>2, <1>7 DEF Lawful
    <2>3. CASE /\ k \notin DOMAIN said /\ ~(k \in DOMAIN v /\ Applies(k, Family(said)))
               /\ k \in DOMAIN h
      <3>1. Plain(said, e)[k] = h[k] BY <2>3, <1>7
      <3>2. CASE k = "tp" BY <2>3, <3>1, <3>2, <1>4
      <3>3. CASE k = "dcp" BY <2>3, <3>3, <1>4, <1>9 DEF Applies
      <3> QED BY <2>3, <3>2, <3>3, <1>4
    <2>4. CASE /\ k \notin DOMAIN said /\ ~(k \in DOMAIN v /\ Applies(k, Family(said)))
               /\ k \notin DOMAIN h /\ k \in DOMAIN f
      BY <2>4, <1>3, <1>7 DEF Lawful
    <2>5. CASE /\ k \notin DOMAIN said /\ ~(k \in DOMAIN v /\ Applies(k, Family(said)))
               /\ k \notin DOMAIN h /\ k \notin DOMAIN f
      BY <2>5, <1>5, <1>7 DEF Lawful
    <2> QED BY <2>1, <2>2, <2>3, <2>4, <2>5
  <1> QED BY <1>6, <1>10, <1>11, <1>12, <1>13

\* A detected dcp that nobody gave.
Detects(said, e) == e.gpus > 0 /\ Family(said) = "glm52" /\ "dcp" \notin Given(said)

\* The draft is off where there is one.
Off(said, e) == Family(said) = "glm52" /\ Plain(said, e)["draft"] = "off"

(* A configuration is its layers but for a dcp that follows tp and tokens   *)
(* that are silenced.                                                      *)
LEMMA LayeredFacts ==
    ASSUME NEW said, NEW e, Lawful(said), e.gpus \in Nat, NEW c,
           c = Layered(Family(said), said, e)
    PROVE  /\ DOMAIN c = Knobs
           /\ \A k \in Knobs \ {"dcp", "tokens"} : c[k] = Plain(said, e)[k]
           /\ c["dcp"] = IF Detects(said, e) THEN LargestShard(c["tp"]) ELSE Plain(said, e)["dcp"]
           /\ c["tokens"] = IF Off(said, e) THEN 0 ELSE Plain(said, e)["tokens"]
           /\ c["family"] = Family(said) /\ c["variant"] = Chosen(said)
           /\ Config(c)
  <1> DEFINE p == Plain(said, e)
             q == Follow(p, e, Given(said))
  <1>1. c = Silence(q) BY DEF Layered, Plain, Given, Chosen
  <1>2. /\ DOMAIN p = Knobs /\ p["family"] = Family(said) /\ p["variant"] = Chosen(said)
        /\ \A k \in Knobs :
             \/ p[k] \in Legal[k]
             \/ k = "dcp" /\ e.gpus > 0 /\ (Family(said) = "glm52" => k \notin Given(said))
    BY PlainFacts
  <1> HIDE DEF p
  <1>3. /\ DOMAIN q = Knobs
        /\ \A k \in Knobs \ {"dcp"} : q[k] = p[k]
        /\ q["dcp"] = IF Detects(said, e) THEN LargestShard(p["tp"]) ELSE p["dcp"]
    <2>1. CASE Detects(said, e)
      <3>1. q = [p EXCEPT !.dcp = LargestShard(p.tp)] BY <2>1, <1>2 DEF Detects, Follow
      <3> QED BY <3>1, <2>1, <1>2, Tables
    <2>2. CASE ~Detects(said, e)
      <3>1. q = p BY <2>2, <1>2 DEF Detects, Follow
      <3> QED BY <3>1, <2>2, <1>2
    <2> QED BY <2>1, <2>2
  <1> HIDE DEF q
  <1>4. q["family"] = Family(said) /\ q["draft"] = p["draft"] BY <1>2, <1>3, Tables
  <1>5. Off(said, e) <=> q["family"] = "glm52" /\ q["draft"] = "off" BY <1>4 DEF Off, p
  <1>6. /\ DOMAIN c = Knobs
        /\ \A k \in Knobs \ {"tokens"} : c[k] = q[k]
        /\ c["tokens"] = IF Off(said, e) THEN 0 ELSE q["tokens"]
    <2>1. CASE Off(said, e)
      <3>1. c = [q EXCEPT !.tokens = 0] BY <2>1, <1>1, <1>5 DEF Silence
      <3> QED BY <3>1, <2>1, <1>3, Tables
    <2>2. CASE ~Off(said, e)
      <3>1. c = q BY <2>2, <1>1, <1>5 DEF Silence
      <3> QED BY <3>1, <2>2, <1>3
    <2> QED BY <2>1, <2>2
  <1>7. \A k \in Knobs \ {"dcp", "tokens"} : c[k] = p[k] BY <1>3, <1>6
  <1>8. c["tokens"] = IF Off(said, e) THEN 0 ELSE p["tokens"] BY <1>3, <1>6, Tables
  <1>9. c["tp"] = p["tp"] /\ c["family"] = Family(said) /\ c["variant"] = Chosen(said)
        /\ c["draft"] = p["draft"]
    BY <1>2, <1>7, Tables
  <1>10. c["dcp"] = IF Detects(said, e) THEN LargestShard(c["tp"]) ELSE p["dcp"]
    BY <1>3, <1>6, <1>9, Tables
  <1>11. Config(c)
    <2>1. c["family"] = "glm52" /\ c["draft"] = "off" => c["tokens"] = 0
      BY <1>8, <1>9 DEF Off, p
    <2>2. ASSUME NEW k \in Knobs, Applies(k, c["family"]) PROVE c[k] \in Legal[k]
      <3>1. CASE k = "dcp"
        <4>1. Family(said) = "glm52" BY <2>2, <3>1, <1>9 DEF Applies
        <4>2. CASE Detects(said, e)
          <5>1. c["tp"] \in 1 .. 16 BY <1>2, <1>9, Tables
          <5> QED BY <5>1, <4>2, <3>1, <1>10, Shards, Tables
        <4>3. CASE ~Detects(said, e) BY <4>1, <4>3, <3>1, <1>2, <1>10 DEF Detects
        <4> QED BY <4>2, <4>3
      <3>2. CASE k = "tokens"
        <4>1. p["tokens"] \in Legal["tokens"] BY <1>2, Tables
        <4>2. 0 \in Legal["tokens"] BY Tables
        <4> QED BY <3>2, <4>1, <4>2, <1>8
      <3>3. CASE k \notin {"dcp", "tokens"} BY <3>3, <1>2, <1>7
      <3> QED BY <3>1, <3>2, <3>3
    <2> QED BY <2>1, <2>2, <1>6 DEF Config
  <1> QED BY <1>6, <1>7, <1>8, <1>9, <1>10, <1>11 DEF p

(* What is said: the sound values of the file, then those of the startup    *)
(* environment; the configuration follows from it.                         *)
LEMMA SaidFacts ==
    ASSUME NEW values, NEW e, Host(e), DOMAIN values \subseteq Knobs
    PROVE  /\ Lawful(Said(values, e))
           /\ DOMAIN Said(values, e) = Sound(values) \cup Sound(e.values)
           /\ \A k \in Sound(values) : Said(values, e)[k] = values[k]
           /\ \A k \in Sound(e.values) : k \notin Sound(values) => Said(values, e)[k] = e.values[k]
           /\ FamilyOf(values, e) = Family(Said(values, e))
           /\ Resolve(values, e) = Layered(Family(Said(values, e)), Said(values, e), e)
  <1> DEFINE upper == Restrict(values, Sound(values))
             lower == Restrict(e.values, Sound(e.values))
  <1>1. Said(values, e) = upper ++ lower BY DEF Said
  <1>2. Lawful(upper) BY DEF Lawful, Restrict, Sound
  <1>3. Lawful(lower) BY DEF Lawful, Restrict, Sound, Host
  <1>4. /\ DOMAIN upper = Sound(values) /\ DOMAIN lower = Sound(e.values)
        /\ \A k \in Sound(values) : upper[k] = values[k]
        /\ \A k \in Sound(e.values) : lower[k] = e.values[k]
    BY DEF Restrict
  <1> HIDE DEF upper, lower
  <1>5. Lawful(Said(values, e)) BY <1>1, <1>2, <1>3, LawfulOver
  <1>6. /\ DOMAIN Said(values, e) = Sound(values) \cup Sound(e.values)
        /\ \A k \in Sound(values) : Said(values, e)[k] = values[k]
        /\ \A k \in Sound(e.values) : k \notin Sound(values) => Said(values, e)[k] = e.values[k]
    BY <1>1, <1>4 DEF ++
  <1>7. /\ FamilyOf(values, e) = Family(Said(values, e))
        /\ Resolve(values, e) = Layered(Family(Said(values, e)), Said(values, e), e)
    BY DEF FamilyOf, Family, Resolve
  <1> QED BY <1>5, <1>6, <1>7

(* What the file leaves unsaid, the startup environment says.              *)
LEMMA SaidBelow ==
    ASSUME NEW values, NEW e, Host(e), DOMAIN values \subseteq Knobs,
           NEW k \in Sound(e.values), k \notin Sound(values)
    PROVE  Said(values, e)[k] = e.values[k]
  BY DEF Said, ++, Restrict

(* A resolved configuration is one.                                        *)
LEMMA ResolvedIsConfig ==
    ASSUME NEW values, NEW e, Host(e), DOMAIN values \subseteq Knobs
    PROVE  Config(Resolve(values, e))
  <1>1. /\ Lawful(Said(values, e)) /\ e.gpus \in Nat
        /\ Resolve(values, e) = Layered(Family(Said(values, e)), Said(values, e), e)
    BY SaidFacts DEF Host
  <1> QED BY <1>1, LayeredFacts

(* A knob on which two sayings of one profile agree has one value under     *)
(* both, and is given by both or by neither.                               *)
LEMMA Alike ==
    ASSUME NEW s, NEW t, NEW e, Lawful(s), Lawful(t), e.gpus \in Nat,
           Family(s) = Family(t), Chosen(s) = Chosen(t), NEW k \in Knobs,
           k \in DOMAIN s <=> k \in DOMAIN t, k \in DOMAIN s => s[k] = t[k]
    PROVE  Plain(s, e)[k] = Plain(t, e)[k] /\ (k \in Given(s) <=> k \in Given(t))
  <1> DEFINE below == IF k \in DOMAIN VariantDefaults[Chosen(s)] /\ Applies(k, Family(s))
                      THEN VariantDefaults[Chosen(s)][k]
                      ELSE IF k \in DOMAIN Detected(e.gpus) THEN Detected(e.gpus)[k]
                      ELSE IF k \in DOMAIN FamilyDefaults[Family(s)] THEN FamilyDefaults[Family(s)][k]
                      ELSE Builtin[k]
  <1>1. Plain(s, e)[k] = IF k \in DOMAIN s THEN s[k] ELSE below BY PlainValue
  <1>2. Plain(t, e)[k] = IF k \in DOMAIN t THEN t[k] ELSE below
    <2>1. below = IF k \in DOMAIN VariantDefaults[Chosen(t)] /\ Applies(k, Family(t))
                  THEN VariantDefaults[Chosen(t)][k]
                  ELSE IF k \in DOMAIN Detected(e.gpus) THEN Detected(e.gpus)[k]
                  ELSE IF k \in DOMAIN FamilyDefaults[Family(t)] THEN FamilyDefaults[Family(t)][k]
                  ELSE Builtin[k]
      OBVIOUS
    <2> HIDE DEF below
    <2> QED BY <2>1, PlainValue
  <1> HIDE DEF below
  <1>3. k \in Given(s) <=> k \in Given(t) BY DEF Given
  <1> QED BY <1>1, <1>2, <1>3

-----------------------------------------------------------------------------
(* Minimisation *)

\* Values of which those the family has are legal.
Proper(values, family) ==
  /\ DOMAIN values \subseteq Knobs
  /\ \A k \in DOMAIN values : Applies(k, family) => values[k] \in Legal[k]

\* The parts of Minimize: the baseline of the family, the profile chosen, what
\* that profile gives, the knobs that are kept.
Base(values, e) == Resolve([family |-> FamilyOf(values, e)], e)

Profile(values, e) ==
  [family |-> Base(values, e).family, variant |-> (values ++ Base(values, e)).variant]

Own(values, e) == Resolve(Profile(values, e), e)

Kept(values, e) ==
  {k \in Identity : Profile(values, e)[k] # Below(Base(values, e), e)[k]}
  \cup {k \in DOMAIN values \ Identity :
          /\ Applies(k, Profile(values, e).family)
          /\ values[k] # Own(values, e)[k] \/ k \in Broken(e)}

(* A family alone resolves to that family and the variant below the file.   *)
LEMMA BaseFacts ==
    ASSUME NEW f \in Legal.family, NEW e, Host(e)
    PROVE  /\ Resolve([family |-> f], e).family = f
           /\ Resolve([family |-> f], e).variant =
                IF "variant" \in Sound(e.values) THEN e.values["variant"]
                ELSE FamilyDefaults[f].variant
           /\ "variant" \in DOMAIN Resolve([family |-> f], e)
           /\ Resolve([family |-> f], e).variant \in Legal.variant
  <1> DEFINE only == [family |-> f]
             s == Said(only, e)
  <1>1. DOMAIN only = {"family"} /\ only["family"] = f OBVIOUS
  <1>2. DOMAIN only \subseteq Knobs BY <1>1, Tables
  <1>3. Sound(only) = {"family"} BY <1>1 DEF Sound
  <1> HIDE DEF only
  <1>4. /\ Lawful(s) /\ DOMAIN s = Sound(only) \cup Sound(e.values)
        /\ \A k \in Sound(only) : s[k] = only[k]
        /\ \A k \in Sound(e.values) : k \notin Sound(only) => s[k] = e.values[k]
        /\ Resolve(only, e) = Layered(Family(s), s, e)
    BY <1>2, SaidFacts
  <1> HIDE DEF s
  <1>5. /\ DOMAIN s = {"family"} \cup Sound(e.values) /\ s["family"] = f
        /\ \A k \in Sound(e.values) : k # "family" => s[k] = e.values[k]
    BY <1>1, <1>3, <1>4
  <1>6. Family(s) = f BY <1>4, <1>5, Settled
  <1>7. /\ Resolve(only, e)["family"] = Family(s) /\ Resolve(only, e)["variant"] = Chosen(s)
        /\ DOMAIN Resolve(only, e) = Knobs
    BY <1>4, LayeredFacts DEF Host
  <1>8. Chosen(s) = IF "variant" \in Sound(e.values) THEN e.values["variant"]
                   ELSE FamilyDefaults[f].variant
    BY <1>4, <1>5, <1>6, Settled
  <1>9. Chosen(s) \in Legal.variant BY <1>4, Settled
  <1> QED BY <1>6, <1>7, <1>8, <1>9, Tables DEF only

(* The profile is the family settled and the variant asked for, or else the *)
(* one below the file.                                                     *)
LEMMA ProfileFacts ==
    ASSUME NEW values, NEW e, Host(e), Proper(values, FamilyOf(values, e)),
           NEW p, p = Profile(values, e)
    PROVE  /\ FamilyOf(values, e) \in Legal.family
           /\ "family" \in DOMAIN values => values["family"] = FamilyOf(values, e)
           /\ DOMAIN p = Identity /\ Lawful(p) /\ p["family"] = FamilyOf(values, e)
           /\ p["variant"] = IF "variant" \in DOMAIN values THEN values["variant"]
                             ELSE Base(values, e)["variant"]
           /\ Family(Said(p, e)) = FamilyOf(values, e) /\ Chosen(Said(p, e)) = p["variant"]
  <1> DEFINE f == FamilyOf(values, e)
             b == Base(values, e)
  <1>1. /\ Lawful(Said(values, e)) /\ f = Family(Said(values, e))
        /\ DOMAIN Said(values, e) = Sound(values) \cup Sound(e.values)
        /\ \A k \in Sound(values) : Said(values, e)[k] = values[k]
    BY SaidFacts DEF Proper
  <1>2. f \in Legal.family BY <1>1, Settled
  <1>3. \A k \in Identity : k \in DOMAIN values => k \in Sound(values)
    BY Tables DEF Proper, Applies, Sound
  <1>4. "family" \in DOMAIN values => values["family"] = f
    BY <1>1, <1>3, Settled, Tables
  <1>5. /\ b["family"] = f /\ "variant" \in DOMAIN b /\ b["variant"] \in Legal["variant"]
    BY <1>2, BaseFacts DEF Base
  <1>6. p = [family |-> b.family, variant |-> (values ++ b).variant] BY DEF Profile
  <1> HIDE DEF f, b
  <1>7. (values ++ b)["variant"] =
          IF "variant" \in DOMAIN values THEN values["variant"] ELSE b["variant"]
    BY <1>5 DEF ++
  <1>8. /\ DOMAIN p = Identity /\ p["family"] = f
        /\ p["variant"] = IF "variant" \in DOMAIN values THEN values["variant"] ELSE b["variant"]
    BY <1>5, <1>6, <1>7, Tables
  <1>9. p["variant"] \in Legal["variant"] BY <1>3, <1>5, <1>8, Tables DEF Sound
  <1>10. Lawful(p) BY <1>2, <1>8, <1>9, Tables DEF Lawful
  <1>11. Sound(p) = Identity BY <1>8, <1>10 DEF Sound, Lawful
  <1>12. /\ Lawful(Said(p, e)) /\ DOMAIN Said(p, e) = Identity \cup Sound(e.values)
         /\ \A k \in Identity : Said(p, e)[k] = p[k]
    BY <1>10, <1>11, SaidFacts DEF Lawful
  <1>13. Family(Said(p, e)) = f BY <1>8, <1>12, Settled, Tables
  <1>14. Chosen(Said(p, e)) = p["variant"] BY <1>12, Settled, Tables
  <1> QED BY <1>2, <1>4, <1>8, <1>10, <1>13, <1>14 DEF f, b

(* What is kept is a lawful layer; it has the values it was made from.      *)
LEMMA KeptFacts ==
    ASSUME NEW values, NEW e, Host(e), Proper(values, FamilyOf(values, e)),
           NEW m, m = Minimize(values, e)
    PROVE  /\ DOMAIN m = Kept(values, e) /\ Lawful(m)
           /\ \A k \in DOMAIN m \cap Identity : m[k] = Profile(values, e)[k]
           /\ \A k \in DOMAIN m \ Identity : k \in DOMAIN values /\ m[k] = values[k]
  <1> DEFINE f == FamilyOf(values, e)
             p == Profile(values, e)
             K == Kept(values, e)
  <1>1. /\ "family" \in DOMAIN values => values["family"] = f
        /\ DOMAIN p = Identity /\ Lawful(p) /\ p["family"] = f
        /\ p["variant"] = IF "variant" \in DOMAIN values THEN values["variant"]
                          ELSE Base(values, e)["variant"]
    BY ProfileFacts
  <1>2. m = Restrict(values ++ p, K)
    BY DEF Minimize, ReduceOver, Reduce, Kept, Own, Profile, Base
  <1>3. /\ K \subseteq Identity \cup (DOMAIN values \ Identity)
        /\ \A k \in K \ Identity : k \in DOMAIN values /\ Applies(k, p["family"])
    BY DEF Kept
  <1> HIDE DEF f, p, K
  <1>4. DOMAIN m = K /\ \A k \in K : m[k] = (values ++ p)[k] BY <1>2 DEF Restrict
  <1>5. ASSUME NEW k \in K \cap Identity PROVE m[k] = p[k]
    <2>1. m[k] = IF k \in DOMAIN values THEN values[k] ELSE p[k]
      BY <1>1, <1>4 DEF ++
    <2> QED BY <2>1, <1>1, Tables
  <1>6. ASSUME NEW k \in K \ Identity PROVE k \in DOMAIN values /\ m[k] = values[k]
    <2>1. m[k] = IF k \in DOMAIN values THEN values[k] ELSE p[k]
      BY <1>1, <1>3, <1>4 DEF ++
    <2> QED BY <2>1, <1>3
  <1>7. Lawful(m)
    <2>1. DOMAIN m \subseteq Knobs BY <1>3, <1>4, Tables DEF Proper
    <2>2. ASSUME NEW k \in DOMAIN m PROVE m[k] \in Legal[k]
      <3>1. CASE k \in Identity BY <3>1, <1>1, <1>4, <1>5 DEF Lawful
      <3>2. CASE k \notin Identity BY <3>2, <1>1, <1>3, <1>4, <1>6 DEF Proper, f
      <3> QED BY <3>1, <3>2
    <2> QED BY <2>1, <2>2 DEF Lawful
  <1> QED BY <1>4, <1>5, <1>6, <1>7 DEF f, p, K

(* Minimised values keep the profile.  A knob is kept with its value, or    *)
(* else both say the same of it as the profile alone, to which it is equal  *)
(* when it was among the values.                                           *)
LEMMA Minimized ==
    ASSUME NEW values, NEW e, Host(e), Proper(values, FamilyOf(values, e)),
           NEW m, m = Minimize(values, e), NEW p, p = Profile(values, e)
    PROVE  /\ Family(Said(m, e)) = FamilyOf(values, e)
           /\ Chosen(Said(m, e)) = p["variant"]
           /\ \A k \in Knobs \ Identity :
                IF k \in DOMAIN m
                THEN Plain(Said(m, e), e)[k] = values[k] /\ k \in Given(Said(m, e))
                ELSE /\ Plain(Said(m, e), e)[k] = Plain(Said(p, e), e)[k]
                     /\ k \in Given(Said(m, e)) <=> k \in Given(Said(p, e))
                     /\ k \in DOMAIN values /\ Applies(k, FamilyOf(values, e)) =>
                          values[k] = Own(values, e)[k] /\ k \notin Broken(e)
  <1> DEFINE f == FamilyOf(values, e)
             s == Said(m, e)
             t == Said(p, e)
             own == Own(values, e)
             below == Below(Base(values, e), e)
  <1>1. /\ f \in Legal.family
        /\ DOMAIN p = Identity /\ Lawful(p) /\ p["family"] = f
        /\ Family(t) = f /\ Chosen(t) = p["variant"]
    BY ProfileFacts
  <1>2. /\ DOMAIN m = Kept(values, e) /\ Lawful(m)
        /\ \A k \in DOMAIN m \cap Identity : m[k] = p[k]
        /\ \A k \in DOMAIN m \ Identity : k \in DOMAIN values /\ m[k] = values[k]
    BY KeptFacts
  <1>3. /\ \A k \in Identity : k \in DOMAIN m <=> p[k] # below[k]
        /\ \A k \in DOMAIN values \ Identity :
             k \in DOMAIN m <=> Applies(k, p["family"]) /\ (values[k] # own[k] \/ k \in Broken(e))
    BY <1>2 DEF Kept
  <1>4. below["family"] = Resolve(<<>>, e)["family"] /\ below["variant"] = Base(values, e)["variant"]
    BY DEF Below
  <1> HIDE DEF own, below
  <1>5. Sound(m) = DOMAIN m /\ Sound(p) = Identity BY <1>1, <1>2 DEF Sound, Lawful
  <1>6. /\ Lawful(s) /\ DOMAIN s = Sound(m) \cup Sound(e.values)
        /\ \A k \in Sound(m) : s[k] = m[k]
        /\ \A k \in Sound(e.values) : k \notin Sound(m) => s[k] = e.values[k]
    <2>1. DOMAIN m \subseteq Knobs BY <1>2 DEF Lawful
    <2>2. Lawful(s) /\ DOMAIN s = Sound(m) \cup Sound(e.values) BY <2>1, SaidFacts
    <2>3. \A k \in Sound(m) : s[k] = m[k] BY <2>1, SaidFacts
    <2>4. \A k \in Sound(e.values) : k \notin Sound(m) => s[k] = e.values[k]
      BY <2>1, SaidBelow
    <2> QED BY <2>2, <2>3, <2>4
  <1>7. /\ Lawful(t) /\ DOMAIN t = Sound(p) \cup Sound(e.values)
        /\ \A k \in Sound(e.values) : k \notin Sound(p) => t[k] = e.values[k]
    <2>1. DOMAIN p \subseteq Knobs BY <1>1 DEF Lawful
    <2>2. Lawful(t) /\ DOMAIN t = Sound(p) \cup Sound(e.values) BY <2>1, SaidFacts
    <2>3. \A k \in Sound(e.values) : k \notin Sound(p) => t[k] = e.values[k]
      BY <2>1, SaidBelow
    <2> QED BY <2>2, <2>3
  <1> HIDE DEF f, s, t
  <1>8. Family(s) = IF "family" \in DOMAIN s THEN s["family"] ELSE "glm52" BY <1>6, Settled
  <1>9. Family(s) = f
    <2>1. CASE "family" \in DOMAIN m
      BY <2>1, <1>1, <1>2, <1>5, <1>6, <1>8, Tables
    <2>2. CASE "family" \notin DOMAIN m
      <3> DEFINE n == Said(<<>>, e)
      <3>1. DOMAIN <<>> = {} OBVIOUS
      <3>2. DOMAIN <<>> \subseteq Knobs /\ Sound(<<>>) = {} BY <3>1 DEF Sound
      <3>3. /\ Lawful(n) /\ DOMAIN n = Sound(<<>>) \cup Sound(e.values)
            /\ \A k \in Sound(e.values) : k \notin Sound(<<>>) => n[k] = e.values[k]
            /\ Resolve(<<>>, e) = Layered(Family(n), n, e)
        <4>1. DOMAIN <<>> \subseteq Knobs BY <3>2
        <4> QED BY <4>1, SaidFacts
      <3> HIDE DEF n
      <3>4. DOMAIN n = Sound(e.values) /\ \A k \in Sound(e.values) : n[k] = e.values[k]
        BY <3>2, <3>3
      <3>5. Resolve(<<>>, e)["family"] = Family(n) BY <3>3, LayeredFacts DEF Host
      <3>6. Family(n) = IF "family" \in DOMAIN n THEN n["family"] ELSE "glm52" BY <3>3, Settled
      <3>7. Family(s) = Family(n) BY <2>2, <3>4, <3>6, <1>5, <1>6, <1>8
      <3>8. p["family"] = below["family"] BY <2>2, <1>3, Tables
      <3> QED BY <3>5, <3>7, <3>8, <1>1, <1>4
    <2> QED BY <2>1, <2>2
  <1>10. Chosen(s) = IF "variant" \in DOMAIN s THEN s["variant"] ELSE FamilyDefaults[f].variant
    BY <1>6, <1>9, Settled
  <1>11. Chosen(s) = p["variant"]
    <2>1. CASE "variant" \in DOMAIN m
      BY <2>1, <1>2, <1>5, <1>6, <1>10, Tables
    <2>2. CASE "variant" \notin DOMAIN m
      <3>1. p["variant"] = Base(values, e)["variant"] BY <2>2, <1>3, <1>4, Tables
      <3>2. Base(values, e)["variant"] = IF "variant" \in Sound(e.values) THEN e.values["variant"]
                                        ELSE FamilyDefaults[f].variant
        BY <1>1, BaseFacts DEF Base, f
      <3> QED BY <2>2, <3>1, <3>2, <1>5, <1>6, <1>10
    <2> QED BY <2>1, <2>2
  <1>12. ASSUME NEW k \in Knobs \ Identity, k \in DOMAIN m
         PROVE  Plain(s, e)[k] = values[k] /\ k \in Given(s)
    <2>1. k \in DOMAIN s /\ s[k] = values[k] BY <1>2, <1>5, <1>6, <1>12
    <2>2. Plain(s, e)[k] = s[k] BY <2>1, <1>6, PlainFacts DEF Host
    <2> QED BY <2>1, <2>2 DEF Given
  <1>13. ASSUME NEW k \in Knobs \ Identity, k \notin DOMAIN m
         PROVE  /\ Plain(s, e)[k] = Plain(t, e)[k]
                /\ k \in Given(s) <=> k \in Given(t)
                /\ k \in DOMAIN values /\ Applies(k, f) => values[k] = own[k] /\ k \notin Broken(e)
    <2>1. k \in DOMAIN s <=> k \in DOMAIN t BY <1>5, <1>6, <1>7, <1>13
    <2>2. k \in DOMAIN s => s[k] = t[k] BY <1>5, <1>6, <1>7, <1>13
    <2>3. /\ Plain(s, e)[k] = Plain(t, e)[k]
          /\ k \in Given(s) <=> k \in Given(t)
      BY <2>1, <2>2, <1>1, <1>6, <1>7, <1>9, <1>11, Alike DEF Host
    <2> QED BY <2>3, <1>1, <1>3, <1>13
  <1> QED BY <1>9, <1>11, <1>12, <1>13 DEF f, s, t, own

\* A dcp that is detected under a variant, when no file gives it.
Detectable(variant, e) ==
  e.gpus > 0 /\ "dcp" \notin Sound(e.values) \cup DOMAIN VariantDefaults[variant]

(* Minimised values resolve to what they were made from: each knob of the   *)
(* family has the value given, or else the profile's own; but for tokens    *)
(* that are silenced, now or in the profile alone, and for a dcp that was   *)
(* detected under another tp.                                              *)
LEMMA Faithful ==
    ASSUME NEW values, NEW e, Host(e), Proper(values, FamilyOf(values, e)),
           NEW got, got = Resolve(Minimize(values, e), e),
           NEW own, own = Own(values, e), NEW v, v = Profile(values, e)["variant"]
    PROVE  /\ Config(got) /\ Config(own)
           /\ got["family"] = FamilyOf(values, e) /\ own["family"] = FamilyOf(values, e)
           /\ got["variant"] = v /\ own["variant"] = v
           /\ \A k \in Knobs \ Identity : Applies(k, FamilyOf(values, e)) =>
                \/ got[k] = IF k \in DOMAIN values THEN values[k] ELSE own[k]
                \/ /\ k = "tokens" /\ got[k] = 0
                   /\ FamilyOf(values, e) = "glm52" /\ got["draft"] = "off"
                \/ /\ k = "tokens" /\ FamilyOf(values, e) = "glm52"
                   /\ own["draft"] = "off" /\ got["draft"] # "off"
                \/ k = "dcp" /\ Detectable(v, e) /\ own["tp"] # got["tp"]
  <1> DEFINE f == FamilyOf(values, e)
             m == Minimize(values, e)
             p == Profile(values, e)
             s == Said(m, e)
             t == Said(p, e)
  <1>1. DOMAIN p = Identity /\ Lawful(p) BY ProfileFacts
  <1>2. Lawful(m) BY KeptFacts
  <1>3. /\ Family(s) = f /\ Chosen(s) = v
        /\ \A k \in Knobs \ Identity :
             IF k \in DOMAIN m
             THEN Plain(s, e)[k] = values[k] /\ k \in Given(s)
             ELSE /\ Plain(s, e)[k] = Plain(t, e)[k]
                  /\ k \in Given(s) <=> k \in Given(t)
                  /\ k \in DOMAIN values /\ Applies(k, f) => values[k] = own[k] /\ k \notin Broken(e)
    BY Minimized
  <1>4. Family(t) = f /\ Chosen(t) = v BY ProfileFacts
  <1>5. \A k \in DOMAIN m \ Identity : k \in DOMAIN values BY KeptFacts
  <1>6. Lawful(s) /\ got = Layered(Family(s), s, e)
    <2>1. DOMAIN m \subseteq Knobs BY <1>2 DEF Lawful
    <2> QED BY <2>1, SaidFacts
  <1>7. Lawful(t) /\ own = Layered(Family(t), t, e) /\ DOMAIN t = Sound(p) \cup Sound(e.values)
    <2>1. DOMAIN p \subseteq Knobs BY <1>1 DEF Lawful
    <2> QED BY <2>1, SaidFacts DEF Own
  <1>8. Sound(p) = Identity BY <1>1 DEF Lawful, Sound
  <1> HIDE DEF f, m, p, s, t
  <1>9. /\ \A k \in Knobs \ {"dcp", "tokens"} : got[k] = Plain(s, e)[k]
        /\ got["dcp"] = IF Detects(s, e) THEN LargestShard(got["tp"]) ELSE Plain(s, e)["dcp"]
        /\ got["tokens"] = IF Off(s, e) THEN 0 ELSE Plain(s, e)["tokens"]
        /\ got["family"] = f /\ got["variant"] = v /\ Config(got)
    BY <1>3, <1>6, LayeredFacts DEF Host
  <1>10. /\ \A k \in Knobs \ {"dcp", "tokens"} : own[k] = Plain(t, e)[k]
         /\ own["dcp"] = IF Detects(t, e) THEN LargestShard(own["tp"]) ELSE Plain(t, e)["dcp"]
         /\ own["tokens"] = IF Off(t, e) THEN 0 ELSE Plain(t, e)["tokens"]
         /\ own["family"] = f /\ own["variant"] = v /\ Config(own)
    BY <1>4, <1>7, LayeredFacts DEF Host
  <1>11. Given(t) = Identity \cup Sound(e.values) \cup DOMAIN VariantDefaults[v]
    BY <1>4, <1>7, <1>8 DEF Given
  <1>12. ASSUME NEW k \in Knobs \ Identity, Applies(k, f), k \notin {"dcp", "tokens"}
         PROVE  got[k] = IF k \in DOMAIN values THEN values[k] ELSE own[k]
    BY <1>3, <1>5, <1>9, <1>10, <1>12
  <1>13. ASSUME Applies("dcp", f)
         PROVE  \/ got["dcp"] = IF "dcp" \in DOMAIN values THEN values["dcp"] ELSE own["dcp"]
                \/ Detectable(v, e) /\ own["tp"] # got["tp"]
    <2>1. "dcp" \in Knobs \ Identity /\ f = "glm52" BY <1>13, Tables DEF Applies
    <2>2. CASE "dcp" \in DOMAIN m
      <3>1. ~Detects(s, e) /\ Plain(s, e)["dcp"] = values["dcp"] BY <2>1, <2>2, <1>3 DEF Detects
      <3> QED BY <2>1, <2>2, <3>1, <1>5, <1>9
    <2>3. CASE "dcp" \notin DOMAIN m
      <3>1. /\ Plain(s, e)["dcp"] = Plain(t, e)["dcp"]
            /\ Detects(s, e) <=> Detects(t, e)
            /\ "dcp" \in DOMAIN values => values["dcp"] = own["dcp"]
        BY <2>1, <2>3, <1>3, <1>4, <1>13 DEF Detects
      <3>2. CASE Detects(t, e) /\ own["tp"] # got["tp"]
        <4>1. e.gpus > 0 /\ "dcp" \notin Given(t) BY <3>2 DEF Detects
        <4> QED BY <3>2, <4>1, <1>11 DEF Detectable
      <3>3. CASE ~Detects(t, e) \/ own["tp"] = got["tp"]
        <4>1. got["dcp"] = own["dcp"] BY <3>1, <3>3, <1>9, <1>10
        <4> QED BY <3>1, <4>1
      <3> QED BY <3>2, <3>3
    <2> QED BY <2>2, <2>3
  <1>14. \/ got["tokens"] = IF "tokens" \in DOMAIN values THEN values["tokens"] ELSE own["tokens"]
         \/ got["tokens"] = 0 /\ f = "glm52" /\ got["draft"] = "off"
         \/ f = "glm52" /\ own["draft"] = "off" /\ got["draft"] # "off"
    <2>1. "tokens" \in Knobs \ Identity /\ "draft" \in Knobs /\ Applies("tokens", f)
      BY Tables DEF Applies
    <2>2. /\ Off(s, e) <=> f = "glm52" /\ got["draft"] = "off"
          /\ Off(t, e) <=> f = "glm52" /\ own["draft"] = "off"
      BY <2>1, <1>3, <1>4, <1>9, <1>10 DEF Off
    <2>3. CASE Off(s, e) BY <2>2, <2>3, <1>9
    <2>4. CASE ~Off(s, e) /\ Off(t, e) BY <2>2, <2>4
    <2>5. CASE ~Off(s, e) /\ ~Off(t, e)
      <3>1. got["tokens"] = Plain(s, e)["tokens"] /\ own["tokens"] = Plain(t, e)["tokens"]
        BY <2>5, <1>9, <1>10
      <3> QED BY <2>1, <3>1, <1>3, <1>5
    <2> QED BY <2>3, <2>4, <2>5
  <1> QED BY <1>9, <1>10, <1>12, <1>13, <1>14 DEF f

-----------------------------------------------------------------------------
(* The invariant *)

(* A frozen startup layer is a host.                                       *)
LEMMA SnapshotIsHost == ASSUME NEW t \in Templates PROVE Host(Snapshot(t))
  <1> DEFINE r == Restrict(t.values, Sound(t.values) \cup (Strict \cap DOMAIN t.values))
  <1>1. t = [values |-> t.values, gpus |-> t.gpus] /\ DOMAIN t.values \subseteq Knobs /\ t.gpus \in Nat
    BY LayersAssumption
  <1>2. Snapshot(t) = [t EXCEPT !.values = r] BY DEF Snapshot
  <1>3. DOMAIN r \subseteq DOMAIN t.values BY DEF Restrict, Sound
  <1> HIDE DEF r
  <1>4. Snapshot(t).values = r /\ Snapshot(t).gpus = t.gpus BY <1>1, <1>2
  <1> QED BY <1>1, <1>3, <1>4 DEF Host

(* What an operator writes is proper for any family.                       *)
LEMMA DocumentsAreProper == \A d \in Documents : Lawful(d)
  <1> SUFFICES ASSUME NEW d \in Documents PROVE Lawful(d) OBVIOUS
  <1> DEFINE Of(j, k) ==
             {[i \in {j, k} |-> IF i = j THEN x ELSE y] : x \in Offered[j], y \in Offered[k]}
  <1>0. Documents = UNION {Of(j, k) : j \in Knobs, k \in Knobs} BY DEF Documents
  <1>1. PICK j \in Knobs, k \in Knobs : d \in Of(j, k)
    <2> HIDE DEF Of
    <2> QED BY <1>0
  <1>2. PICK x \in Offered[j], y \in Offered[k] : d = [i \in {j, k} |-> IF i = j THEN x ELSE y]
    BY <1>1
  <1>3. x \in Legal[j] /\ y \in Legal[k] BY LayersAssumption
  <1>4. DOMAIN d = {j, k} /\ d[j] = x /\ (j # k => d[k] = y) BY <1>2
  <1> QED BY <1>3, <1>4 DEF Lawful

(* The controls of a configuration are lawful.                             *)
LEMMA FormFacts ==
    ASSUME NEW c, Config(c), c.family \in Legal.family
    PROVE  /\ Lawful(Form(c)) /\ DOMAIN Form(c) = {k \in Knobs : Applies(k, c.family)}
           /\ \A k \in DOMAIN Form(c) : Form(c)[k] = c[k] \/ (k = "share" /\ c[k] = "long")
           /\ Identity \subseteq DOMAIN Form(c)
  <1>1. DOMAIN Form(c) = {k \in Knobs : Applies(k, c.family)} BY DEF Form
  <1>2. \A k \in DOMAIN Form(c) :
           Form(c)[k] = IF k = "share" /\ c["share"] = "long" THEN "short" ELSE c[k]
    BY DEF Form
  <1>3. "short" \in Legal["share"] BY Tables
  <1>4. \A k \in DOMAIN Form(c) : c[k] \in Legal[k] BY <1>1 DEF Config
  <1>5. Lawful(Form(c)) BY <1>1, <1>2, <1>3, <1>4 DEF Lawful
  <1> QED BY <1>1, <1>2, <1>5, Tables DEF Applies

(* Submitted values are lawful and name the profile.  Under an unchanged    *)
(* profile each control is there, edited or as it was shown; under another  *)
(* one only what differs from the configuration.                           *)
LEMMA SubmittedFacts ==
    ASSUME NEW c, Config(c), NEW edits \in Edits(Form(c)),
           NEW values, values = Submitted(edits, c)
    PROVE  /\ Lawful(values) /\ Identity \subseteq DOMAIN values
           /\ \A k \in DOMAIN values : k \in DOMAIN Form(c)
           /\ \A k \in DOMAIN values : k \notin DOMAIN edits => values[k] = Form(c)[k]
           /\ \/ \A k \in Identity : values[k] = c[k]
              \/ \A k \in DOMAIN values \ Identity : values[k] # c[k]
  <1> DEFINE w == edits ++ Form(c)
  <1>1. /\ Lawful(edits) /\ \A k \in DOMAIN edits : k \in DOMAIN Form(c)
    BY DocumentsAreProper DEF Edits
  <1>2. "family" \in Knobs /\ Applies("family", c.family) BY Tables DEF Applies
  <1>3. c.family \in Legal.family BY <1>2 DEF Config
  <1>4. Lawful(Form(c)) /\ Identity \subseteq DOMAIN Form(c) BY <1>3, FormFacts
  <1>5. Lawful(w) BY <1>1, <1>4, LawfulOver
  <1>6. /\ DOMAIN w = DOMAIN Form(c)
        /\ \A k \in DOMAIN w : k \notin DOMAIN edits => w[k] = Form(c)[k]
    BY <1>1 DEF ++
  <1>7. values = SwitchProfile(w, c) BY DEF Submitted
  <1> HIDE DEF w
  <1>8. CASE \A k \in Identity : w[k] = c[k]
    <2>1. values = w BY <1>7, <1>8 DEF SwitchProfile
    <2> QED BY <2>1, <1>4, <1>5, <1>6, <1>8
  <1>9. CASE ~\A k \in Identity : w[k] = c[k]
    <2> DEFINE S == {k \in DOMAIN w : k \in Identity \/ w[k] # c[k]}
    <2>1. values = Restrict(w, S) BY <1>7, <1>9 DEF SwitchProfile
    <2>2. DOMAIN values = S /\ \A k \in S : values[k] = w[k] BY <2>1 DEF Restrict
    <2>3. Lawful(values) BY <2>2, <1>5 DEF Lawful
    <2>4. \A k \in DOMAIN values \ Identity : values[k] # c[k] BY <2>2
    <2>5. Identity \subseteq DOMAIN values BY <2>2, <1>4, <1>6
    <2>6. \A k \in DOMAIN values : k \in DOMAIN w /\ values[k] = w[k] BY <2>2
    <2> QED BY <2>3, <2>4, <2>5, <2>6, <1>6
  <1> QED BY <1>8, <1>9

(* Lawful values and configurations are proper for the family they settle.  *)
LEMMA LawfulIsProper ==
    ASSUME NEW values, NEW e, Lawful(values) PROVE Proper(values, FamilyOf(values, e))
  BY DEF Lawful, Proper

LEMMA ConfigIsProper ==
    ASSUME NEW c, NEW e, Host(e), Config(c)
    PROVE  FamilyOf(c, e) = c.family /\ Proper(c, FamilyOf(c, e)) /\ c["variant"] \in Legal["variant"]
  <1>1. "family" \in Knobs /\ Applies("family", c.family) /\ DOMAIN c = Knobs
        /\ "variant" \in Knobs /\ Applies("variant", c.family)
    BY Tables DEF Applies, Config
  <1>2. "family" \in Sound(c) /\ c["variant"] \in Legal["variant"] BY <1>1 DEF Sound, Config
  <1>3. /\ Lawful(Said(c, e)) /\ FamilyOf(c, e) = Family(Said(c, e))
        /\ DOMAIN Said(c, e) = Sound(c) \cup Sound(e.values)
        /\ \A k \in Sound(c) : Said(c, e)[k] = c[k]
    <2>1. DOMAIN c \subseteq Knobs BY <1>1
    <2> QED BY <2>1, SaidFacts
  <1>4. FamilyOf(c, e) = c["family"] BY <1>2, <1>3, Settled
  <1>5. Proper(c, c["family"]) BY <1>1 DEF Proper, Config
  <1> QED BY <1>2, <1>4, <1>5

(* Nothing else than knobs reaches the file.                               *)
LEMMA MinimalIsOfKnobs ==
    ASSUME NEW values, NEW e, Host(e), Proper(values, FamilyOf(values, e))
    PROVE  DOMAIN Minimize(values, e) \subseteq Knobs
  BY KeptFacts DEF Lawful

(* What holds initially.                                                   *)
LEMMA LayersInit == Init => LayersInv
  <1> SUFFICES ASSUME Init PROVE LayersInv OBVIOUS
  <1>1. PICK t \in Templates : env = Snapshot(t) BY DEF Init
  <1>2. Host(env) BY <1>1, SnapshotIsHost
  <1>3. DOMAIN file \subseteq Knobs /\ good = <<>> BY DEF Init
  <1> QED BY <1>2, <1>3 DEF LayersInv

(* Every step keeps the invariant.                                         *)
LEMMA LayersNext == LayersInv /\ [Next]_vars => LayersInv'
  <1> SUFFICES ASSUME LayersInv, [Next]_vars PROVE LayersInv' OBVIOUS
  <1>1. Host(env) /\ DOMAIN file \subseteq Knobs /\ (good = <<>> \/ Config(good)) BY DEF LayersInv
  <1>2. Config(Current) BY <1>1, ResolvedIsConfig DEF Current
  <1>3. CASE Submit
    <2>1. PICK edits \in Edits(Form(Current)) : ApplyValues(Submitted(edits, Current), Current)
      BY <1>3 DEF Submit
    <2>2. Lawful(Submitted(edits, Current)) BY <1>2, SubmittedFacts
    <2>3. DOMAIN Minimize(Submitted(edits, Current), env) \subseteq Knobs
      BY <2>2, <1>1, LawfulIsProper, MinimalIsOfKnobs
    <2> QED BY <2>1, <2>3, <1>1 DEF ApplyValues, LayersInv, Host
  <1>4. CASE Import
    <2>1. PICK doc \in Documents : ApplyValues(doc, Current) BY <1>4 DEF Import
    <2>2. DOMAIN Minimize(doc, env) \subseteq Knobs
      BY <1>1, DocumentsAreProper, LawfulIsProper, MinimalIsOfKnobs
    <2> QED BY <2>1, <2>2, <1>1 DEF ApplyValues, LayersInv, Host
  <1>5. CASE Reset
    <2>1. DOMAIN <<>> \subseteq Knobs OBVIOUS
    <2> QED BY <2>1, <1>1, <1>5 DEF Reset, LayersInv, Host
  <1>6. CASE MarkGood BY <1>1, <1>2, <1>6 DEF MarkGood, LayersInv, Host
  <1>7. CASE Rollback
    <2>1. DOMAIN <<>> \subseteq Knobs OBVIOUS
    <2>2. good # <<>> => DOMAIN Minimize(good, env) \subseteq Knobs
      BY <1>1, ConfigIsProper, MinimalIsOfKnobs
    <2>3. DOMAIN file' \subseteq Knobs BY <2>1, <2>2, <1>7 DEF Rollback
    <2> QED BY <2>3, <1>1, <1>7 DEF Rollback, LayersInv, Host
  <1>8. CASE NewContainer
    <2>1. PICK t \in Templates : env' = Snapshot(t) BY <1>8 DEF NewContainer
    <2>2. Host(env)' BY <2>1, SnapshotIsHost DEF Host
    <2> QED BY <2>2, <1>1, <1>8 DEF NewContainer, LayersInv
  <1>9. CASE UNCHANGED vars BY <1>1, <1>9 DEF vars, LayersInv, Host
  <1> QED BY <1>3, <1>4, <1>5, <1>6, <1>7, <1>8, <1>9 DEF Next

(* LayersInv holds of every behaviour.                                          *)
THEOREM LayersInvariant == Spec => []LayersInv
  BY LayersInit, LayersNext, PTL DEF Spec

-----------------------------------------------------------------------------
(* A good configuration can be restored *)

\* The profile of a configuration, alone.
LEMMA ProfileOf ==
    ASSUME NEW c, NEW p, DOMAIN p = Identity, c["family"] = p["family"], c["variant"] = p["variant"],
           NEW values, NEW e, p = Profile(values, e)
    PROVE  Restrict(c, Identity) = p
  BY Tables DEF Restrict, Profile

(* What a proper document over which the share is repaired resolves to is   *)
(* not refused.                                                            *)
LEMMA NotRefused ==
    ASSUME NEW values, NEW e, Host(e), Proper(values, FamilyOf(values, e)), "share" \in DOMAIN values
    PROVE  ~Refuses(Minimize(values, e), e)
  <1> DEFINE m == Minimize(values, e)
             f == FamilyOf(values, e)
  <1>1. Lawful(m) BY KeptFacts
  <1>2. DOMAIN m \subseteq Knobs /\ Sound(m) = DOMAIN m BY <1>1 DEF Lawful, Sound
  <1>3. FamilyOf(m, e) = f
    <2>1. FamilyOf(m, e) = Family(Said(m, e)) BY <1>2, SaidFacts
    <2> QED BY <2>1, Minimized
  <1>4. \A k \in Knobs \ Identity :
           k \notin DOMAIN m => (k \in DOMAIN values /\ Applies(k, f) => k \notin Broken(e))
    BY Minimized
  <1> HIDE DEF m, f
  <1>5. ASSUME NEW k \in Strict \ Sound(m), Applies(k, f),
               NEW layer \in {m, e.values}, k \in DOMAIN layer \ Sound(layer)
        PROVE  FALSE
    <2>1. layer = e.values BY <1>2, <1>5
    <2>2. k \in Broken(e) BY <2>1, <1>5 DEF Broken
    <2>3. k = "share" /\ k \in Knobs \ Identity BY <1>5, Tables
    <2> QED BY <2>2, <2>3, <1>2, <1>4, <1>5
  <1> QED BY <1>3, <1>5 DEF Refuses, m

(* A good configuration is replayable over any host on which it is valid.   *)
LEMMA GoodRestored == LayersInv => GoodIsReplayable
  <1> SUFFICES ASSUME LayersInv, good # <<>>, Valid(good, env.gpus, {}), Adrift(good) = {}
               PROVE  Replayable(good)
    BY DEF GoodIsReplayable
  <1> DEFINE m == Minimize(good, env)
             got == Resolve(m, env)
             own == Own(good, env)
             p == Profile(good, env)
             f == good["family"]
  <1>1. Host(env) /\ Config(good) BY DEF LayersInv
  <1>2. /\ DOMAIN good = Knobs
        /\ good["family"] = "glm52" /\ good["draft"] = "off" => good["tokens"] = 0
    BY <1>1 DEF Config
  <1>3. FamilyOf(good, env) = f /\ Proper(good, FamilyOf(good, env)) BY <1>1, ConfigIsProper
  <1>4. DOMAIN p = Identity /\ p["family"] = f /\ p["variant"] = good["variant"]
    BY <1>1, <1>2, <1>3, ProfileFacts, Tables
  <1>5. /\ got["family"] = f /\ got["variant"] = p["variant"]
        /\ \A k \in Knobs \ Identity : Applies(k, f) =>
             \/ got[k] = IF k \in DOMAIN good THEN good[k] ELSE own[k]
             \/ k = "tokens" /\ got[k] = 0 /\ f = "glm52" /\ got["draft"] = "off"
             \/ k = "tokens" /\ f = "glm52" /\ own["draft"] = "off" /\ got["draft"] # "off"
             \/ k = "dcp" /\ Detectable(p["variant"], env) /\ own["tp"] # got["tp"]
    BY <1>1, <1>3, Faithful
  <1>6. Resolve(Restrict(good, Identity), env) = own
    BY <1>4, ProfileOf DEF Own
  <1>7. f = "glm52" => /\ (own["draft"] = "off") = (good["draft"] = "off")
                       /\ Detectable(good["variant"], env) => own["tp"] = good["tp"]
    BY <1>6 DEF Adrift, Detectable
  <1>8. DOMAIN m = Kept(good, env) BY <1>1, <1>3, KeptFacts
  <1>9. ~Refuses(m, env) BY <1>1, <1>2, <1>3, NotRefused, Tables
  <1>10. \A k \in DOMAIN m : Applies(k, f)
    BY <1>4, <1>8, Tables DEF Kept, Applies
  <1>11. Valid(good, env.gpus, {}) OBVIOUS
  <1> HIDE DEF m, got, own, p, f
  <1>12. got["tp"] = good["tp"] /\ (f = "glm52" => got["draft"] = good["draft"])
    BY <1>2, <1>5, Tables DEF Applies
  <1>13. ASSUME NEW k \in Knobs, Applies(k, f) PROVE got[k] = good[k]
    <2>1. CASE k \in Identity BY <2>1, <1>4, <1>5, Tables DEF f
    <2>2. CASE k \in Knobs \ Identity /\ k \notin {"tokens", "dcp"} BY <2>2, <1>2, <1>5, <1>13
    <2>3. CASE k = "dcp"
      <3>1. f = "glm52" BY <2>3, <1>13 DEF Applies
      <3> QED BY <3>1, <2>3, <1>2, <1>4, <1>5, <1>7, <1>12, <1>13, Tables
    <2>4. CASE k = "tokens"
      <3>1. CASE f = "glm52"
        BY <3>1, <2>4, <1>2, <1>5, <1>7, <1>12, <1>13, Tables DEF f
      <3>2. CASE f # "glm52"
        BY <3>2, <2>4, <1>2, <1>5, <1>7, <1>12, <1>13, Tables DEF f
      <3> QED BY <3>1, <3>2
    <2> QED BY <2>1, <2>2, <2>3, <2>4
  <1>14. Valid(got, env.gpus, DOMAIN m)
    <2>1. got["family"] = good["family"] /\ got["variant"] = good["variant"] /\ got["tp"] = good["tp"]
      BY <1>4, <1>5, <1>12 DEF f
    <2>2. f = "glm52" => got["dcp"] = good["dcp"] BY <1>13, Tables DEF Applies
    <2> QED BY <2>1, <2>2, <1>10, <1>11 DEF Valid, f
  <1> QED BY <1>9, <1>13, <1>14 DEF Replayable, m, got, f

-----------------------------------------------------------------------------
(* What is applied is what was asked *)

(* Proper values and the profile's own for the rest are what a minimised    *)
(* document resolves to.                                                   *)
LEMMA AskedIsGot ==
    ASSUME LayersInv, NEW values, Lawful(values), NEW asked,
           \A k \in DOMAIN asked \cap Knobs :
              asked[k] = IF k \in DOMAIN values THEN values[k] ELSE Own(values, env)[k]
    PROVE  Resolved(Minimize(values, env), asked)
  <1> DEFINE m == Minimize(values, env)
             got == Resolve(m, env)
             own == Own(values, env)
             p == Profile(values, env)
             f == FamilyOf(values, env)
  <1>1. Host(env) /\ Proper(values, f) BY LawfulIsProper DEF LayersInv
  <1>2. /\ "family" \in DOMAIN values => values["family"] = f
        /\ DOMAIN p = Identity /\ p["family"] = f
        /\ p["variant"] = IF "variant" \in DOMAIN values THEN values["variant"]
                          ELSE Base(values, env)["variant"]
    BY <1>1, ProfileFacts
  <1>3. /\ got["family"] = f /\ own["family"] = f
        /\ got["variant"] = p["variant"] /\ own["variant"] = p["variant"]
        /\ \A k \in Knobs \ Identity : Applies(k, f) =>
             \/ got[k] = IF k \in DOMAIN values THEN values[k] ELSE own[k]
             \/ k = "tokens" /\ got[k] = 0 /\ f = "glm52" /\ got["draft"] = "off"
             \/ k = "tokens" /\ f = "glm52" /\ own["draft"] = "off" /\ got["draft"] # "off"
             \/ k = "dcp" /\ Detectable(p["variant"], env) /\ own["tp"] # got["tp"]
    BY <1>1, Faithful
  <1>4. Resolve(Restrict(got, Identity), env) = own
    <2>1. Restrict(got, Identity) = p BY <1>2, <1>3, ProfileOf
    <2> QED BY <2>1 DEF Own
  <1> HIDE DEF m, got, own, p, f
  <1>5. Adrift(got) =
           {k \in {"tokens", "dcp"} :
              /\ got["family"] = "glm52"
              /\ k = "tokens" => (own["draft"] = "off") # (got["draft"] = "off")
              /\ k = "dcp" => env.gpus > 0 /\ own["tp"] # got["tp"]
                               /\ "dcp" \notin Sound(env.values) \cup DOMAIN VariantDefaults[got["variant"]]}
    BY <1>4 DEF Adrift
  <1>6. ASSUME NEW k \in (DOMAIN asked \cap Binding(got)) \ Adrift(got)
        PROVE  got[k] = asked[k]
    <2>1. /\ k \in Knobs /\ Applies(k, f)
          /\ k = "tokens" => f # "glm52" \/ got["draft"] # "off"
      BY <1>3, <1>6 DEF Binding
    <2>2. asked[k] = IF k \in DOMAIN values THEN values[k] ELSE own[k] BY <2>1, <1>6 DEF own
    <2>3. CASE k = "family" BY <2>2, <2>3, <1>2, <1>3
    <2>4. CASE k = "variant" BY <2>2, <2>4, <1>2, <1>3
    <2>5. CASE k \notin Identity
      <3>1. \/ got[k] = IF k \in DOMAIN values THEN values[k] ELSE own[k]
            \/ k = "tokens" /\ got[k] = 0 /\ f = "glm52" /\ got["draft"] = "off"
            \/ k = "tokens" /\ f = "glm52" /\ own["draft"] = "off" /\ got["draft"] # "off"
            \/ k = "dcp" /\ Detectable(p["variant"], env) /\ own["tp"] # got["tp"]
        BY <2>1, <2>5, <1>3
      <3>2. k \notin Adrift(got) BY <1>6
      <3>3. CASE k = "tokens" BY <3>1, <3>2, <3>3, <2>1, <2>2, <1>3, <1>5
      <3>4. CASE k = "dcp"
        <4>1. f = "glm52" BY <3>4, <2>1 DEF Applies
        <4>2. ~(Detectable(p["variant"], env) /\ own["tp"] # got["tp"])
          BY <3>2, <3>4, <4>1, <1>3, <1>5 DEF Detectable
        <4> QED BY <3>1, <3>4, <4>2, <2>2
      <3>5. CASE k \notin {"tokens", "dcp"} BY <3>1, <3>5, <2>2
      <3> QED BY <3>3, <3>4, <3>5
    <2> QED BY <2>3, <2>4, <2>5, Tables
  <1> QED BY <1>6 DEF Resolved, AsAsked, m, got

(* An accepted submission or import resolves to what was asked.            *)
LEMMA InvApplies == LayersInv => AppliedAsAsked
  <1> SUFFICES ASSUME LayersInv PROVE AppliedAsAsked OBVIOUS
  <1>1. Host(env) /\ DOMAIN file \subseteq Knobs BY DEF LayersInv
  <1>2. Config(Current) BY <1>1, ResolvedIsConfig DEF Current
  <1>3. ASSUME NEW edits \in Edits(Form(Current)), NEW values, values = Submitted(edits, Current)
        PROVE  Resolved(Minimize(values, env),
                        values ++ Resolve(Restrict(values, Identity), env))
    <2> DEFINE p == Profile(values, env)
               own == Own(values, env)
    <2>1. Lawful(values) /\ Identity \subseteq DOMAIN values BY <1>2, <1>3, SubmittedFacts
    <2>2. Proper(values, FamilyOf(values, env)) BY <2>1, LawfulIsProper
    <2>3. /\ "family" \in DOMAIN values => values["family"] = FamilyOf(values, env)
          /\ DOMAIN p = Identity /\ p["family"] = FamilyOf(values, env)
          /\ p["variant"] = IF "variant" \in DOMAIN values THEN values["variant"]
                            ELSE Base(values, env)["variant"]
      BY <1>1, <2>2, ProfileFacts
    <2>4. values["family"] = p["family"] /\ values["variant"] = p["variant"]
      BY <2>1, <2>3, Tables
    <2>5. Resolve(Restrict(values, Identity), env) = own
      <3>1. Restrict(values, Identity) = p BY <2>3, <2>4, ProfileOf
      <3> QED BY <3>1 DEF Own
    <2>6. DOMAIN own = Knobs BY <1>1, <2>2, Faithful DEF Config
    <2>7. \A k \in DOMAIN (values ++ own) \cap Knobs :
             (values ++ own)[k] = IF k \in DOMAIN values THEN values[k] ELSE own[k]
      <3> HIDE DEF own
      <3> QED BY DEF ++
    <2> QED BY <2>1, <2>5, <2>7, AskedIsGot
  <1>4. ASSUME NEW doc \in Documents PROVE Resolved(Minimize(doc, env), doc)
    <2>1. Lawful(doc) BY DocumentsAreProper
    <2> QED BY <2>1, AskedIsGot
  <1> QED BY <1>3, <1>4 DEF AppliedAsAsked

-----------------------------------------------------------------------------
(* Only edits are pinned *)

(* The variant of a configuration, if the file does not name it, is the one *)
(* below the file, or else belongs to its family.                          *)
LEMMA UnfiledVariant ==
    ASSUME LayersInv, "variant" \notin DOMAIN file
    PROVE  Current["variant"] = IF "variant" \in Sound(env.values) THEN env.values["variant"]
                               ELSE FamilyDefaults[Current["family"]].variant
  <1> DEFINE s == Said(file, env)
  <1>1. Host(env) /\ DOMAIN file \subseteq Knobs BY DEF LayersInv
  <1>2. /\ Lawful(s) /\ DOMAIN s = Sound(file) \cup Sound(env.values)
        /\ Current = Layered(Family(s), s, env)
    BY <1>1, SaidFacts DEF Current
  <1>3. "variant" \notin Sound(file) BY DEF Sound
  <1>4. "variant" \in Sound(env.values) => s["variant"] = env.values["variant"]
    BY <1>1, <1>3, SaidBelow
  <1> HIDE DEF s
  <1>5. Current["family"] = Family(s) /\ Current["variant"] = Chosen(s)
    BY <1>1, <1>2, LayeredFacts DEF Host
  <1> QED BY <1>2, <1>3, <1>4, <1>5, Settled

(* The family of a configuration, if the file does not name it, is the one  *)
(* of no file at all.                                                      *)
LEMMA UnfiledFamily ==
    ASSUME LayersInv, "family" \notin DOMAIN file
    PROVE  Current["family"] = Resolve(<<>>, env)["family"]
  <1> DEFINE s == Said(file, env)
             n == Said(<<>>, env)
  <1>1. Host(env) /\ DOMAIN file \subseteq Knobs BY DEF LayersInv
  <1>2. DOMAIN <<>> \subseteq Knobs /\ Sound(<<>>) = {}
    <2>1. DOMAIN <<>> = {} OBVIOUS
    <2> QED BY <2>1 DEF Sound
  <1>3. /\ Lawful(s) /\ DOMAIN s = Sound(file) \cup Sound(env.values)
        /\ Current = Layered(Family(s), s, env)
    BY <1>1, SaidFacts DEF Current
  <1>4. /\ Lawful(n) /\ DOMAIN n = Sound(<<>>) \cup Sound(env.values)
        /\ Resolve(<<>>, env) = Layered(Family(n), n, env)
    <2>1. DOMAIN <<>> \subseteq Knobs BY <1>2
    <2> QED BY <2>1, <1>1, SaidFacts
  <1>5. "family" \notin Sound(file) BY DEF Sound
  <1>6. "family" \in Sound(env.values) =>
           s["family"] = env.values["family"] /\ n["family"] = env.values["family"]
    BY <1>1, <1>2, <1>5, SaidBelow
  <1> HIDE DEF s, n
  <1>7. Current["family"] = Family(s) /\ Resolve(<<>>, env)["family"] = Family(n)
    BY <1>1, <1>3, <1>4, LayeredFacts DEF Host
  <1>8. /\ Family(s) = IF "family" \in DOMAIN s THEN s["family"] ELSE "glm52"
        /\ Family(n) = IF "family" \in DOMAIN n THEN n["family"] ELSE "glm52"
    BY <1>3, <1>4, Settled
  <1> QED BY <1>2, <1>3, <1>4, <1>5, <1>6, <1>7, <1>8

(* Over its own profile, a knob that the file does not name is what the     *)
(* profile gives, but for tokens and dcp that are adrift.                  *)
LEMMA UnfiledKnob ==
    ASSUME LayersInv, NEW p, p = [family |-> Current.family, variant |-> Current.variant],
           NEW k \in Knobs \ Identity, k \notin DOMAIN file, Applies(k, Current.family)
    PROVE  Current[k] = Resolve(p, env)[k] \/ k \in Adrift(Current)
  <1> DEFINE c == Current
             own == Resolve(p, env)
             s == Said(file, env)
             t == Said(p, env)
  <1>1. Host(env) /\ DOMAIN file \subseteq Knobs BY DEF LayersInv
  <1>2. Config(c) BY <1>1, ResolvedIsConfig DEF Current
  <1>3. DOMAIN p = Identity /\ p["family"] = c["family"] /\ p["variant"] = c["variant"] /\ Lawful(p)
    BY <1>2, Tables DEF Config, Lawful, Applies
  <1>4. Sound(p) = Identity BY <1>3 DEF Lawful, Sound
  <1>5. /\ Lawful(s) /\ DOMAIN s = Sound(file) \cup Sound(env.values)
        /\ c = Layered(Family(s), s, env)
    BY <1>1, SaidFacts DEF Current
  <1>6. /\ Lawful(t) /\ DOMAIN t = Sound(p) \cup Sound(env.values)
        /\ \A j \in Sound(p) : t[j] = p[j]
        /\ own = Layered(Family(t), t, env)
    <2>1. DOMAIN p \subseteq Knobs BY <1>3 DEF Lawful
    <2>2. Lawful(t) /\ DOMAIN t = Sound(p) \cup Sound(env.values) BY <2>1, <1>1, SaidFacts
    <2>3. \A j \in Sound(p) : t[j] = p[j] BY <2>1, <1>1, SaidFacts
    <2>4. own = Layered(Family(t), t, env) BY <2>1, <1>1, SaidFacts
    <2> QED BY <2>2, <2>3, <2>4
  <1>7. k \notin Sound(file) /\ k \notin Sound(p) BY <1>4 DEF Sound
  <1>8. k \in Sound(env.values) => s[k] = env.values[k] /\ t[k] = env.values[k]
    <2>1. DOMAIN p \subseteq Knobs BY <1>3 DEF Lawful
    <2> QED BY <2>1, <1>1, <1>7, SaidBelow
  <1>9. Resolve(Restrict(c, Identity), env) = own
    <2>1. Restrict(c, Identity) = p BY Tables DEF Restrict
    <2> QED BY <2>1
  <1>10. env.gpus \in Nat BY <1>1 DEF Host
  <1> HIDE DEF c, own, s, t
  <1>11. /\ \A j \in Knobs \ {"dcp", "tokens"} : c[j] = Plain(s, env)[j]
         /\ c["dcp"] = IF Detects(s, env) THEN LargestShard(c["tp"]) ELSE Plain(s, env)["dcp"]
         /\ c["tokens"] = IF Off(s, env) THEN 0 ELSE Plain(s, env)["tokens"]
         /\ c["family"] = Family(s) /\ c["variant"] = Chosen(s)
    BY <1>5, <1>10, LayeredFacts
  <1>12. /\ \A j \in Knobs \ {"dcp", "tokens"} : own[j] = Plain(t, env)[j]
         /\ own["dcp"] = IF Detects(t, env) THEN LargestShard(own["tp"]) ELSE Plain(t, env)["dcp"]
         /\ own["tokens"] = IF Off(t, env) THEN 0 ELSE Plain(t, env)["tokens"]
    BY <1>6, <1>10, LayeredFacts
  <1>13. Family(t) = c["family"] /\ Chosen(t) = c["variant"]
    BY <1>3, <1>4, <1>6, Settled, Tables
  <1>14. Plain(s, env)[k] = Plain(t, env)[k] /\ (k \in Given(s) <=> k \in Given(t))
    <2>1. k \in DOMAIN s <=> k \in DOMAIN t BY <1>5, <1>6, <1>7
    <2>2. k \in DOMAIN s => s[k] = t[k] BY <1>5, <1>7, <1>8
    <2> QED BY <2>1, <2>2, <1>5, <1>6, <1>10, <1>11, <1>13, Alike
  <1>15. Adrift(c) =
           {j \in {"tokens", "dcp"} :
              /\ c["family"] = "glm52"
              /\ j = "tokens" => (own["draft"] = "off") # (c["draft"] = "off")
              /\ j = "dcp" => env.gpus > 0 /\ own["tp"] # c["tp"]
                               /\ "dcp" \notin Sound(env.values) \cup DOMAIN VariantDefaults[c["variant"]]}
    BY <1>9 DEF Adrift
  <1>16. CASE k \notin {"dcp", "tokens"} BY <1>16, <1>11, <1>12, <1>14 DEF c, own
  <1>17. CASE k = "tokens"
    <2>1. "draft" \in Knobs \ {"dcp", "tokens"} BY Tables
    <2>2. /\ Off(s, env) <=> c["family"] = "glm52" /\ c["draft"] = "off"
          /\ Off(t, env) <=> c["family"] = "glm52" /\ own["draft"] = "off"
      BY <2>1, <1>11, <1>12, <1>13 DEF Off
    <2>3. CASE Off(s, env) <=> Off(t, env) BY <2>3, <1>11, <1>12, <1>14, <1>17 DEF c, own
    <2>4. CASE ~(Off(s, env) <=> Off(t, env)) BY <2>2, <2>4, <1>15, <1>17 DEF c
    <2> QED BY <2>3, <2>4
  <1>18. CASE k = "dcp"
    <2>1. c["family"] = "glm52" BY <1>18 DEF Applies, c
    <2>2. Detects(s, env) <=> Detects(t, env) BY <1>11, <1>13, <1>14, <1>18 DEF Detects
    <2>3. CASE ~Detects(t, env) \/ own["tp"] = c["tp"]
      BY <2>2, <2>3, <1>11, <1>12, <1>14, <1>18 DEF c, own
    <2>4. CASE Detects(t, env) /\ own["tp"] # c["tp"]
      <3>1. env.gpus > 0 /\ "dcp" \notin Given(t) BY <2>4 DEF Detects
      <3>2. "dcp" \notin Sound(env.values) \cup DOMAIN VariantDefaults[c["variant"]]
        BY <3>1, <1>6, <1>13 DEF Given
      <3> QED BY <3>1, <3>2, <2>1, <2>4, <1>15, <1>18 DEF c
    <2> QED BY <2>3, <2>4
  <1> QED BY <1>16, <1>17, <1>18

(* A submission adds to the file only knobs that were edited.              *)
LEMMA InvPins == LayersInv => OnlyEditsArePinned
  <1> SUFFICES ASSUME LayersInv, NEW edits \in Edits(Form(Current)),
                      NEW values, values = Submitted(edits, Current),
                      NEW m, m = Minimize(values, env), Accepted(m),
                      NEW k \in DOMAIN m, k \notin DOMAIN file, k \notin DOMAIN edits,
                      k \notin Adrift(Current), ~(k \in Strict /\ Current[k] = "long")
               PROVE  FALSE
    BY DEF OnlyEditsArePinned, Pinned
  <1> DEFINE c == Current
             p == Profile(values, env)
             f == FamilyOf(values, env)
             own == Own(values, env)
             got == Resolve(m, env)
  <1>1. Host(env) /\ DOMAIN file \subseteq Knobs BY DEF LayersInv
  <1>2. Config(c) BY <1>1, ResolvedIsConfig DEF Current
  <1>3. c["family"] \in Legal.family
    BY <1>2, Tables DEF Config, Applies
  <1>4. /\ Lawful(values) /\ Identity \subseteq DOMAIN values
        /\ \A j \in DOMAIN values : j \in DOMAIN Form(c)
        /\ \A j \in DOMAIN values : j \notin DOMAIN edits => values[j] = Form(c)[j]
        /\ \/ \A j \in Identity : values[j] = c[j]
           \/ \A j \in DOMAIN values \ Identity : values[j] # c[j]
    BY <1>2, SubmittedFacts
  <1>5. \A j \in DOMAIN Form(c) : Form(c)[j] = c[j] \/ (j = "share" /\ c[j] = "long")
    BY <1>2, <1>3, FormFacts
  <1>6. Proper(values, f) BY <1>4, LawfulIsProper
  <1>7. /\ f \in Legal.family
        /\ DOMAIN p = Identity /\ p["family"] = f /\ p["family"] = values["family"]
        /\ p["variant"] = values["variant"]
    <2>1. /\ f \in Legal.family /\ ("family" \in DOMAIN values => values["family"] = f)
          /\ DOMAIN p = Identity /\ p["family"] = f
          /\ p["variant"] = IF "variant" \in DOMAIN values THEN values["variant"]
                            ELSE Base(values, env)["variant"]
      BY <1>1, <1>6, ProfileFacts
    <2> QED BY <2>1, <1>4, Tables
  <1>8. k \in Kept(values, env) BY <1>1, <1>6, KeptFacts
  <1>9. k \in DOMAIN values
    BY <1>4, <1>8 DEF Kept
  <1>10. values[k] = c[k] BY <1>4, <1>5, <1>9, Tables
  <1>11. CASE k = "family"
    <2>1. p[k] # Below(Base(values, env), env)[k] BY <1>8, <1>11, Tables DEF Kept
    <2>2. Below(Base(values, env), env)["family"] = Resolve(<<>>, env)["family"] BY DEF Below
    <2>3. c["family"] = Resolve(<<>>, env)["family"] BY <1>11, UnfiledFamily
    <2> QED BY <2>1, <2>2, <2>3, <1>7, <1>10, <1>11
  <1>12. CASE k = "variant"
    <2>1. p[k] # Below(Base(values, env), env)[k] BY <1>8, <1>12, Tables DEF Kept
    <2>2. Below(Base(values, env), env)["variant"] = Base(values, env)["variant"] BY DEF Below
    <2>3. Base(values, env)["variant"] = IF "variant" \in Sound(env.values) THEN env.values["variant"]
                                        ELSE FamilyDefaults[f].variant
      BY <1>1, <1>7, BaseFacts DEF Base
    <2>4. c["variant"] = IF "variant" \in Sound(env.values) THEN env.values["variant"]
                        ELSE FamilyDefaults[c["family"]].variant
      BY <1>12, UnfiledVariant
    <2>5. p["variant"] = c["variant"] BY <1>7, <1>10, <1>12
    <2>6. c["variant"] = FamilyDefaults[c["family"]].variant /\ c["family"] # f
      BY <2>1, <2>2, <2>3, <2>4, <2>5, <1>12
    <2>7. VariantFamily[c["variant"]] = c["family"] BY <2>6, <1>3, Defaults
    <2>8. got["family"] = f /\ got["variant"] = p["variant"] BY <1>1, <1>6, Faithful
    <2>9. VariantFamily[got.variant] = got.family BY DEF Accepted, Valid
    <2> QED BY <2>5, <2>6, <2>7, <2>8, <2>9
  <1>13. CASE k \notin Identity
    <2>1. Applies(k, p["family"]) /\ (values[k] # own[k] \/ k \in Broken(env))
      BY <1>8, <1>13 DEF Kept
    <2>2. \A j \in Identity : values[j] = c[j] BY <1>4, <1>9, <1>10, <1>13
    <2>3. p["family"] = c["family"] /\ p["variant"] = c["variant"] BY <2>2, <1>7, Tables
    <2>4. p = [family |-> c.family, variant |-> c.variant]
      BY <2>3 DEF Profile
    <2>5. k \in Knobs \ Identity BY <1>4, <1>9, <1>13 DEF Lawful
    <2>6. c[k] = Resolve(p, env)[k]
      <3>1. Applies(k, c.family) BY <2>1, <2>3
      <3> QED BY <2>4, <2>5, <3>1, UnfiledKnob
    <2>7. k \in Broken(env) BY <2>1, <2>6, <1>10 DEF Own
    <2>8. k \in Strict /\ k \in DOMAIN env.values \ Sound(env.values) BY <2>7 DEF Broken
    <2>9. k \in Strict \ Sound(file) BY <2>8 DEF Sound
    <2>10. FamilyOf(file, env) = c["family"]
      <3> DEFINE s == Said(file, env)
      <3>1. FamilyOf(file, env) = Family(s) BY <1>1, SaidFacts
      <3>2. Lawful(s) /\ c = Layered(Family(s), s, env) BY <1>1, SaidFacts DEF Current
      <3> HIDE DEF s
      <3>3. c["family"] = Family(s) BY <3>2, <1>1, LayeredFacts DEF Host
      <3> QED BY <3>1, <3>3
    <2>11. Refuses(file, env) BY <2>1, <2>3, <2>8, <2>9, <2>10 DEF Refuses
    <2> QED BY <2>11 DEF Accepted
  <1> QED BY <1>11, <1>12, <1>13, Tables

-----------------------------------------------------------------------------
(* The theorems *)

(* An accepted submission or import resolves to what was asked.            *)
THEOREM Granted == Spec => []AppliedAsAsked
  BY LayersInvariant, InvApplies, PTL

(* The file is a difference: a submission pins only what was edited.       *)
THEOREM Difference == Spec => []OnlyEditsArePinned
  BY LayersInvariant, InvPins, PTL

(* What was recorded as good can be restored over any later template and    *)
(* host on which it is valid.                                              *)
THEOREM Restorable == Spec => []GoodIsReplayable
  BY LayersInvariant, GoodRestored, PTL

-----------------------------------------------------------------------------
(* The termination switches                                                  *)

USE SwitchesAssumption DEF SwitchesAssumption

OneThread == \A s, t \in Threads : s = t

SwitchInv == SwitchesTypeOK /\ PublishedParses /\ WriterInv /\ AckedTightening

USE DEF Requests, Switch, Docs, Contents, SwitchInv, PublishedParses, WriterInv, AckedTightening,
        ReadSwitches

(* Tightening keeps what was tight and does what was asked. *)
LEMMA Tightens ==
    ASSUME NEW cur \in Switch, NEW r \in Requests
    PROVE  /\ Tightened(cur, r) \in Switch
           /\ cur.locked => Tightened(cur, r).locked
           /\ Tightened(cur, r).enabled => cur.enabled
           /\ r = "lock" => Tightened(cur, r).locked
           /\ r = "disable" => ~Tightened(cur, r).enabled
BY DEF Tightened

LEMMA SwitchInit == SwitchesInit => SwitchInv
<1> SUFFICES ASSUME SwitchesInit PROVE SwitchInv
  OBVIOUS
<1> PICK i \in Inodes :
        /\ published = i
        /\ content = [j \in Inodes |->
                        IF j = i THEN [switch |-> declared, source |-> "startup"] ELSE Empty]
  BY DEF SwitchesInit
<1>1. SwitchesTypeOK
  BY DEF SwitchesInit, SwitchesTypeOK, Waiting
<1> QED  BY <1>1 DEF SwitchesInit, Waiting

LEMMA ReadsInv ==
    ASSUME OneThread, SwitchInv, NEW t \in Threads, NEW r \in Requests, TightenReads(t, r)
    PROVE  SwitchInv'
<1> USE DEF OneThread, TightenReads
<1>1. Tightened(ReadSwitches, r) \in Switch
  BY Tightens
<1>2. SwitchesTypeOK'
  BY <1>1 DEF SwitchesTypeOK
<1> QED  BY <1>1, <1>2 DEF SwitchesTypeOK

LEMMA OpenInv ==
    ASSUME OneThread, SwitchInv, NEW t \in Threads, OpenTmp(t)
    PROVE  SwitchInv'
<1> USE DEF OneThread, OpenTmp
<1> PICK i \in IF tmp = NoFile THEN Unused ELSE {tmp} :
        /\ tmp' = i
        /\ content' = [content EXCEPT ![i] = Empty]
        /\ thread' = [thread EXCEPT ![t].step = "write", ![t].fd = i]
  OBVIOUS
<1>1. i \in Inodes /\ i # published
  BY DEF SwitchesTypeOK, Unused
<1>2. SwitchesTypeOK'
  BY <1>1 DEF SwitchesTypeOK
<1> QED  BY <1>1, <1>2 DEF SwitchesTypeOK

LEMMA WriteInv ==
    ASSUME OneThread, SwitchInv, NEW t \in Threads, WriteTmp(t)
    PROVE  SwitchInv'
<1> USE DEF OneThread, WriteTmp
<1>1. Overwrite(content[tmp], thread[t].doc) = thread[t].doc
  BY DEF Overwrite
<1>2. tmp \in Inodes /\ content' = [content EXCEPT ![tmp] = thread[t].doc]
  BY <1>1 DEF SwitchesTypeOK
<1>3. SwitchesTypeOK'
  BY <1>2 DEF SwitchesTypeOK
<1> QED  BY <1>2, <1>3 DEF SwitchesTypeOK

LEMMA PublishInv ==
    ASSUME OneThread, SwitchInv, NEW t \in Threads, Publish(t)
    PROVE  SwitchInv'
<1> USE DEF OneThread, Publish
<1>1. /\ published' = tmp /\ tmp' = NoFile
      /\ content[published'] = thread[t].doc
      /\ acked' = acked \cup {thread[t].request}
  OBVIOUS
<1>2. SwitchesTypeOK'
  BY <1>1 DEF SwitchesTypeOK, Waiting
<1>3. AckedTightening'
  BY <1>1, Tightens DEF SwitchesTypeOK
<1>4. PublishedParses' /\ WriterInv'
  BY <1>1, <1>2 DEF SwitchesTypeOK, Waiting
<1> QED  BY <1>2, <1>3, <1>4

LEMMA PageDiesInv == SwitchInv /\ PageDies => SwitchInv'
<1> SUFFICES ASSUME SwitchInv, PageDies PROVE SwitchInv'
  OBVIOUS
<1>1. SwitchesTypeOK'
  BY DEF SwitchesTypeOK, PageDies, Waiting
<1> QED  BY <1>1 DEF SwitchesTypeOK, PageDies, Waiting

LEMMA StartInv == SwitchInv /\ ContainerStart => SwitchInv'
<1> SUFFICES ASSUME SwitchInv, ContainerStart PROVE SwitchInv'
  OBVIOUS
<1> USE DEF ContainerStart
<1> PICK i \in IF tmp = NoFile THEN Inodes \ {published} ELSE {tmp} :
        /\ published' = i
        /\ content' = [content EXCEPT ![i] = [switch |-> declared', source |-> "startup"]]
  OBVIOUS
<1>1. i \in Inodes
  BY DEF SwitchesTypeOK
<1>2. SwitchesTypeOK'
  BY <1>1 DEF SwitchesTypeOK, Waiting
<1> QED  BY <1>1, <1>2 DEF SwitchesTypeOK, Waiting

LEMMA SwitchNext == ASSUME OneThread PROVE SwitchInv /\ [SwitchesNext]_swVars => SwitchInv'
<1> SUFFICES ASSUME SwitchInv, [SwitchesNext]_swVars PROVE SwitchInv'
  OBVIOUS
<1>1. CASE UNCHANGED swVars
  BY <1>1 DEF swVars, SwitchesTypeOK
<1>2. CASE SwitchesNext
  <2>1. ASSUME NEW t \in Threads, Tighten(t) PROVE SwitchInv'
    BY <2>1, ReadsInv, OpenInv, WriteInv, PublishInv DEF Tighten
  <2> QED  BY <1>2, <2>1, PageDiesInv, StartInv DEF SwitchesNext
<1> QED  BY <1>1, <1>2

(* SwitchInv holds in every reachable state. *)
THEOREM SwitchInvariant == ASSUME OneThread PROVE SwitchesSpec => []SwitchInv
<1>1. SwitchInv /\ [SwitchesNext]_swVars => SwitchInv'
  BY SwitchNext
<1> QED  BY <1>1, SwitchInit, PTL DEF SwitchesSpec

(* The types hold whatever other threads do in between: it takes what a busy thread
   carries. *)
Carries ==
    \A t \in Threads : thread[t].step # "idle" =>
        thread[t].doc \in Docs /\ thread[t].request \in Requests
TypeInv == SwitchesTypeOK /\ Carries

(* A request reads, combines, opens, writes and publishes next to any others. *)
LEMMA TightenTyped ==
    ASSUME TypeInv, NEW t \in Threads, Tighten(t)
    PROVE  TypeInv'
<1>0. published \in Inodes /\ tmp \in Inodes \cup {NoFile} /\ acked \subseteq Requests
  BY DEF TypeInv, SwitchesTypeOK
<1> USE DEF TypeInv, SwitchesTypeOK, Carries
<1>1. ASSUME NEW r \in Requests, TightenReads(t, r) PROVE TypeInv'
  <2>1. ReadSwitches \in Switch
    OBVIOUS
  <2>2. Tightened(ReadSwitches, r) \in Switch
    BY <2>1, Tightens
  <2>3. [switch |-> Tightened(ReadSwitches, r), source |-> r] \in Docs
    BY <2>2
  <2> HIDE DEF Docs, ReadSwitches
  <2> QED  BY <1>1, <2>3 DEF TightenReads
<1>2. CASE OpenTmp(t)
  <2>1. PICK i : /\ i \in IF tmp = NoFile THEN Unused ELSE {tmp}
                 /\ tmp' = i
                 /\ content' = [content EXCEPT ![i] = Empty]
                 /\ thread' = [thread EXCEPT ![t].step = "write", ![t].fd = i]
    BY <1>2, Zenon DEF OpenTmp
  <2>2. i \in Inodes
    BY <2>1 DEF Unused
  <2>3. thread[t].step = "open" /\ UNCHANGED <<declared, published, requests, boots, acked>>
    BY <1>2 DEF OpenTmp
  <2> QED  BY <2>1, <2>2, <2>3
<1>3. CASE WriteTmp(t)
  <2>1. thread[t].doc \in Docs /\ thread[t].fd \in Inodes
    BY <1>3 DEF WriteTmp
  <2>2. Overwrite(content[thread[t].fd], thread[t].doc) \in Contents
    BY <2>1 DEF Overwrite
  <2> HIDE DEF Docs, Contents
  <2> QED  BY <1>3, <2>1, <2>2 DEF WriteTmp
<1>4. CASE Publish(t)
  <2>1. /\ thread' = [thread EXCEPT ![t] = Waiting] /\ thread[t].step = "publish"
        /\ UNCHANGED <<declared, content, requests, boots>>
    BY <1>4 DEF Publish
  <2>2. thread[t].request \in Requests
    BY <2>1
  <2>3. /\ published' \in Inodes /\ tmp' \in Inodes \cup {NoFile}
        /\ acked' \subseteq Requests
    <3>1. CASE tmp = NoFile
      <4>1. published' = published /\ tmp' = tmp /\ acked' = acked
        BY <1>4, <3>1, Zenon DEF Publish
      <4> QED  BY <1>0, <4>1
    <3>2. CASE tmp # NoFile
      <4>1. published' = tmp /\ tmp' = NoFile /\ acked' = acked \cup {thread[t].request}
        BY <1>4, <3>2, Zenon DEF Publish
      <4> QED  BY <1>0, <2>2, <3>2, <4>1
    <3> QED  BY <3>1, <3>2
  <2> HIDE DEF Docs, Contents
  <2> QED  BY <2>1, <2>3 DEF Waiting
<1> QED  BY <1>1, <1>2, <1>3, <1>4 DEF Tighten

LEMMA StartTyped == TypeInv /\ ContainerStart => TypeInv'
<1> SUFFICES ASSUME TypeInv, ContainerStart PROVE TypeInv'
  OBVIOUS
<1> USE DEF TypeInv, SwitchesTypeOK, ContainerStart
<1> PICK i \in IF tmp = NoFile THEN Inodes \ {published} ELSE {tmp} :
        /\ published' = i
        /\ content' = [content EXCEPT ![i] = [switch |-> declared', source |-> "startup"]]
  OBVIOUS
<1>1. i \in Inodes
  OBVIOUS
<1> QED  BY <1>1 DEF Carries, Waiting

(* Types, and that a descriptor is open only while its document is written, for any
   number of request threads that overlap as they may. *)
THEOREM SwitchTypes == SwitchesSpec => []SwitchesTypeOK
<1>1. SwitchesInit => TypeInv
  BY SwitchInit DEF SwitchesInit, TypeInv, Carries, Waiting
<1>2. TypeInv /\ [SwitchesNext]_swVars => TypeInv'
  <2> SUFFICES ASSUME TypeInv, [SwitchesNext]_swVars PROVE TypeInv'
    OBVIOUS
  <2>1. CASE UNCHANGED swVars
    BY <2>1 DEF swVars, TypeInv, SwitchesTypeOK, Carries
  <2>2. CASE PageDies
    BY <2>2 DEF PageDies, TypeInv, SwitchesTypeOK, Carries, Waiting
  <2> QED  BY <2>1, <2>2, TightenTyped, StartTyped DEF SwitchesNext
<1>3. TypeInv => SwitchesTypeOK
  BY DEF TypeInv
<1> QED  BY <1>1, <1>2, <1>3, PTL DEF SwitchesSpec

(* Every tightening the page confirmed is in effect (glm_config.tighten). *)
THEOREM ConfirmedIsInEffect == ASSUME OneThread PROVE SwitchesSpec => []AckedTightening
<1>1. SwitchInv => AckedTightening
  OBVIOUS
<1>2. SwitchesSpec => []SwitchInv
  BY SwitchInvariant
<1> QED  BY <1>1, <1>2, PTL

(* A step within a container publishes a tightening, or changes no published
   document. *)
LEMMA RatchetStep ==
    ASSUME OneThread, SwitchInv, [SwitchesNext]_swVars, boots' = boots
    PROVE  /\ ReadSwitches.locked => ReadSwitches'.locked
           /\ ReadSwitches'.enabled => ReadSwitches.enabled
<1>1. CASE \E t \in Threads : Publish(t)
  <2> PICK t \in Threads : Publish(t)
    BY <1>1
  <2>1. content'[published'] = thread[t].doc
    BY DEF Publish
  <2> DEFINE cur == content[published].switch
             r == thread[t].request
  <2>2. cur \in Switch /\ r \in Requests /\ ReadSwitches = cur
    BY DEF SwitchesTypeOK, Publish
  <2>3. ReadSwitches' = Tightened(cur, r)
    BY <2>1 DEF SwitchesTypeOK, Publish
  <2> HIDE DEF cur, r
  <2> QED  BY <2>2, <2>3, Tightens
<1>2. CASE \E t \in Threads : OpenTmp(t)
  BY <1>2 DEF OpenTmp, SwitchesTypeOK, Unused
<1>3. CASE \E t \in Threads : WriteTmp(t)
  BY <1>3 DEF WriteTmp, SwitchesTypeOK
<1>4. CASE \/ \E t \in Threads, r \in Requests : TightenReads(t, r)
           \/ PageDies \/ UNCHANGED swVars
  BY <1>4 DEF TightenReads, PageDies, swVars
<1>5. ~ContainerStart
  BY DEF ContainerStart, SwitchesTypeOK
<1> QED  BY <1>1, <1>2, <1>3, <1>4, <1>5 DEF SwitchesNext, Tighten

(* The switches never loosen while a container lives (glm_config: "loosening is not
   disallowed, it is unrepresentable"). *)
THEOREM Ratchet == ASSUME OneThread PROVE SwitchesSpec => RatchetHolds
<1>1. SwitchInv /\ [SwitchesNext]_swVars =>
        [boots' = boots =>
            /\ ReadSwitches.locked => ReadSwitches'.locked
            /\ ReadSwitches'.enabled => ReadSwitches.enabled]_swVars
  BY RatchetStep
<1>2. SwitchesSpec => []SwitchInv
  BY SwitchInvariant
<1> QED  BY <1>1, <1>2, PTL DEF SwitchesSpec, RatchetHolds

HIDE SwitchesAssumption
HIDE DEF SwitchesAssumption, Requests, Switch, Docs, Contents, SwitchInv, PublishedParses,
         WriterInv, AckedTightening, ReadSwitches

-----------------------------------------------------------------------------
(* Terminations                                                              *)

USE TerminationAssumption DEF TerminationAssumption

TermInv == TerminationTypeOK /\ LockInFile

(* Every leaf about a step opens the frames and the invariant, and its action. *)
USE DEF pageVars, pidVars, switchVars, faultVars, Running, Goto, Allowed

LEMMA TermInit == TerminationInit => TermInv
<1> SUFFICES ASSUME TerminationInit PROVE TermInv
  OBVIOUS
<1> USE DEF TerminationInit, TermInv, TerminationTypeOK, LockInFile
<1>1. /\ stopRequest \in BOOLEAN /\ engineStopped \in BOOLEAN /\ engine \in BOOLEAN
      /\ prepared \in BOOLEAN /\ lockAcked \in BOOLEAN /\ killed \in BOOLEAN
  OBVIOUS
<1>2. told \in [Workers -> BOOLEAN] /\ faults \in 0..MaxFaults
  OBVIOUS
<1>3. /\ post \in [Posts -> {"idle", "gated", "starting"}]
      /\ worker \in [Workers -> Running \cup {"new", "over"}]
      /\ \A p \in Posts : post[p] = "starting" <=> mutex = p
  OBVIOUS
<1> QED  BY <1>1, <1>2, <1>3

(* A request thread of the page. *)
LEMMA PageInv ==
    ASSUME TermInv, NEW p \in Posts, PassGates(p) \/ ReadProgress(p) \/ SpawnWorker(p)
    PROVE  TermInv'
<1> USE DEF TermInv, TerminationTypeOK, LockInFile
<1>1. CASE PassGates(p)
  BY <1>1 DEF PassGates
<1>2. CASE ReadProgress(p)
  BY <1>2 DEF ReadProgress
<1>3. CASE SpawnWorker(p)
  BY <1>3 DEF SpawnWorker
<1> QED  BY <1>1, <1>2, <1>3

LEMMA LockPageInv == TermInv /\ LockPage => TermInv'
BY DEF TermInv, TerminationTypeOK, LockInFile, LockPage

(* A worker changes its own phase; only the erase could have touched the
   switches, and its plan keeps them. *)
LEMMA WorkerInv ==
    ASSUME TermInv, NEW w \in Workers, WorkerStep(w)
    PROVE  TermInv'
<1> USE DEF TermInv, TerminationTypeOK, LockInFile
<1>1. CASE WorkerStarts(w)
  BY <1>1 DEF WorkerStarts
<1>2. CASE WorkerChecks(w)
  BY <1>2 DEF WorkerChecks
<1>3. CASE AsksStop(w)
  BY <1>3 DEF AsksStop
<1>4. CASE EndsWaiting(w)
  BY <1>4 DEF EndsWaiting
<1>5. CASE Erases(w)
  BY <1>5 DEF Erases
<1>6. CASE Rechecks(w)
  BY <1>6 DEF Rechecks
<1>7. CASE Calls(w)
  BY <1>7 DEF Calls
<1>8. CASE ClearsRequest(w)
  <2>1. stopRequest' \in BOOLEAN
    BY <1>8 DEF ClearsRequest
  <2> QED  BY <1>8, <2>1 DEF ClearsRequest
<1>9. CASE Finishes(w)
  BY <1>9 DEF Finishes
<1> QED  BY <1>1, <1>2, <1>3, <1>4, <1>5, <1>6, <1>7, <1>8, <1>9 DEF WorkerStep

LEMMA Pid1Inv == TermInv /\ Pid1 => TermInv'
<1> SUFFICES ASSUME TermInv, Pid1 PROVE TermInv'
  OBVIOUS
<1> USE DEF TermInv, TerminationTypeOK, LockInFile
<1>1. CASE Prepare
  BY <1>1 DEF Prepare
<1>2. CASE Launch
  BY <1>2 DEF Launch
<1>3. CASE PollTerminate
  BY <1>3 DEF PollTerminate
<1>4. CASE PollDied
  BY <1>4 DEF PollDied
<1>5. CASE StopEngine
  BY <1>5 DEF StopEngine
<1>6. CASE Answer
  BY <1>6 DEF Answer
<1>7. CASE SeeCancelled
  BY <1>7 DEF SeeCancelled
<1>8. CASE Resume
  BY <1>8 DEF Resume
<1> QED  BY <1>1, <1>2, <1>3, <1>4, <1>5, <1>6, <1>7, <1>8 DEF Pid1

LEMMA FaultInv == TermInv /\ Fault => TermInv'
<1> SUFFICES ASSUME TermInv, Fault PROVE TermInv'
  OBVIOUS
<1> USE DEF TermInv, TerminationTypeOK, LockInFile
<1>1. faults' \in 0..MaxFaults
  BY DEF Fault
<1>2. CASE EngineCrashes
  <2>1. engine' \in BOOLEAN
    BY <1>2 DEF EngineCrashes
  <2> QED  BY <1>1, <1>2, <2>1 DEF EngineCrashes
<1>3. CASE WorkerDies
  BY <1>1, <1>3 DEF WorkerDies
<1>4. CASE ContainerRestart
  BY <1>1, <1>4 DEF ContainerRestart
<1> QED  BY <1>2, <1>3, <1>4 DEF Fault

LEMMA TermNext == TermInv /\ [TerminationNext]_tmVars => TermInv'
<1> SUFFICES ASSUME TermInv, [TerminationNext]_tmVars PROVE TermInv'
  OBVIOUS
<1>1. CASE UNCHANGED tmVars
  BY <1>1 DEF TermInv, TerminationTypeOK, LockInFile, tmVars
<1>2. CASE TerminationNext
  BY <1>2, PageInv, LockPageInv, WorkerInv, Pid1Inv, FaultInv DEF TerminationNext
<1> QED  BY <1>1, <1>2

(* TermInv holds in every reachable state. *)
THEOREM TermInvariant == TerminationSpec => []TermInv
BY TermInit, TermNext, PTL DEF TerminationSpec

(* Types, and who holds the page's lock (Termination.tla). *)
THEOREM TypeCorrect == TerminationSpec => []TerminationTypeOK
<1>1. TermInv => TerminationTypeOK
  BY DEF TermInv
<1> QED  BY <1>1, TermInvariant, PTL

(* The one way to the destroy call is the re-check, which reads the file a
   confirmed lock is in. *)
LEMMA LockStep ==
    ASSUME TermInv, [TerminationNext]_tmVars, lockAcked,
           NEW w \in Workers, worker'[w] = "calling"
    PROVE  worker[w] = "calling"
<1> USE DEF TermInv, TerminationTypeOK, LockInFile
<1>1. ~Allowed
  OBVIOUS
<1>2. CASE \E v \in Workers : WorkerStep(v)
  <2> PICK v \in Workers : WorkerStep(v)
    BY <1>2
  <2>1. CASE Rechecks(v)
    BY <1>1, <2>1 DEF Rechecks
  <2>2. CASE ~Rechecks(v)
    BY <2>2 DEF WorkerStep, WorkerStarts, WorkerChecks, AsksStop, EndsWaiting, Erases,
                Calls, ClearsRequest, Finishes
  <2> QED  BY <2>1, <2>2
<1>3. CASE \E p \in Posts : PassGates(p) \/ ReadProgress(p) \/ SpawnWorker(p)
  BY <1>3 DEF PassGates, ReadProgress, SpawnWorker
<1>4. CASE Pid1 \/ LockPage
  BY <1>4 DEF Pid1, Prepare, Launch, PollTerminate, PollDied, StopEngine, Answer,
              SeeCancelled, Resume, LockPage
<1>5. CASE Fault
  BY <1>5 DEF Fault, EngineCrashes, WorkerDies, ContainerRestart
<1>6. CASE UNCHANGED tmVars
  BY <1>6 DEF tmVars
<1> QED  BY <1>2, <1>3, <1>4, <1>5, <1>6 DEF TerminationNext

(* A confirmed lock stops every worker that has not called the provider yet,
   whatever it has stopped and erased (terminate_worker's re-check). *)
THEOREM LockHonoured == TerminationSpec => LockStopsDestroy
<1>1. TermInv /\ [TerminationNext]_tmVars
        => [lockAcked => \A w \in Workers :
                worker'[w] = "calling" => worker[w] = "calling"]_tmVars
  BY LockStep
<1> QED  BY <1>1, TermInvariant, PTL DEF TerminationSpec, LockStopsDestroy
-----------------------------------------------------------------------------
(* A single worker: the stop request is its own, so PID 1 does not resume before
   it gives up. *)
OneInv == TermInv /\ (OneWorker => RequestFollowsWorker /\ AnswerFollowsPid1)

USE DEF Asked, StandDownSteps

LEMMA OneInit == TerminationInit => OneInv
BY TermInit DEF OneInv, RequestFollowsWorker, AnswerFollowsPid1, TerminationInit

(* A worker that was started stays started, so a step to a state with one worker
   comes from a state with one worker. *)
LEMMA OneWorkerBefore ==
    ASSUME TermInv, TerminationNext, OneWorker'
    PROVE  OneWorker
<1>1. \A w \in Workers : worker[w] # "new" => worker'[w] # "new"
  <2> USE DEF TermInv, TerminationTypeOK
  <2>1. CASE \E v \in Workers : WorkerStep(v)
    BY <2>1 DEF WorkerStep, WorkerStarts, WorkerChecks, AsksStop, EndsWaiting, Erases,
                Rechecks, Calls, ClearsRequest, Finishes
  <2>2. CASE \E p \in Posts : PassGates(p) \/ ReadProgress(p) \/ SpawnWorker(p)
    BY <2>2 DEF PassGates, ReadProgress, SpawnWorker
  <2>3. CASE Pid1 \/ LockPage
    BY <2>3 DEF Pid1, Prepare, Launch, PollTerminate, PollDied, StopEngine, Answer,
                SeeCancelled, Resume, LockPage
  <2>4. CASE Fault
    BY <2>4 DEF Fault, EngineCrashes, WorkerDies, ContainerRestart
  <2> QED  BY <2>1, <2>2, <2>3, <2>4 DEF TerminationNext
<1> QED  BY <1>1 DEF OneWorker

LEMMA OneWorkerStep ==
    ASSUME OneWorker, OneInv, NEW w \in Workers, WorkerStep(w)
    PROVE  RequestFollowsWorker' /\ AnswerFollowsPid1'
<1> USE DEF OneWorker, OneInv, TermInv, TerminationTypeOK, RequestFollowsWorker, AnswerFollowsPid1
<1>1. CASE WorkerStarts(w)
  BY <1>1 DEF WorkerStarts
<1>2. CASE WorkerChecks(w)
  BY <1>2 DEF WorkerChecks
<1>3. CASE AsksStop(w)
  BY <1>3 DEF AsksStop
<1>4. CASE EndsWaiting(w)
  BY <1>4 DEF EndsWaiting
<1>5. CASE Erases(w)
  BY <1>5 DEF Erases
<1>6. CASE Rechecks(w)
  BY <1>6 DEF Rechecks
<1>7. CASE Calls(w)
  BY <1>7 DEF Calls
<1>8. CASE ClearsRequest(w)
  BY <1>8 DEF ClearsRequest
<1>9. CASE Finishes(w)
  BY <1>9 DEF Finishes
<1> QED  BY <1>1, <1>2, <1>3, <1>4, <1>5, <1>6, <1>7, <1>8, <1>9 DEF WorkerStep

LEMMA OnePid1Step ==
    ASSUME OneWorker, OneInv, Pid1
    PROVE  RequestFollowsWorker' /\ AnswerFollowsPid1'
<1> USE DEF OneInv, TermInv, TerminationTypeOK, RequestFollowsWorker, AnswerFollowsPid1
<1>1. CASE Prepare
  BY <1>1 DEF Prepare
<1>2. CASE Launch
  BY <1>2 DEF Launch
<1>3. CASE PollTerminate
  BY <1>3 DEF PollTerminate
<1>4. CASE PollDied
  BY <1>4 DEF PollDied
<1>5. CASE StopEngine
  BY <1>5 DEF StopEngine
<1>6. CASE Answer
  BY <1>6 DEF Answer
<1>7. CASE SeeCancelled
  BY <1>7 DEF SeeCancelled
<1>8. CASE Resume
  BY <1>8 DEF Resume
<1> QED  BY <1>1, <1>2, <1>3, <1>4, <1>5, <1>6, <1>7, <1>8 DEF Pid1

LEMMA OneOtherStep ==
    ASSUME OneWorker', OneWorker, OneInv,
           \/ Fault \/ LockPage
           \/ \E p \in Posts : PassGates(p) \/ ReadProgress(p) \/ SpawnWorker(p)
    PROVE  RequestFollowsWorker' /\ AnswerFollowsPid1'
<1> USE DEF OneInv, TermInv, TerminationTypeOK, RequestFollowsWorker, AnswerFollowsPid1
<1>1. CASE \E p \in Posts : PassGates(p) \/ ReadProgress(p) \/ SpawnWorker(p)
  <2> PICK p \in Posts : PassGates(p) \/ ReadProgress(p) \/ SpawnWorker(p)
    BY <1>1
  <2>1. CASE PassGates(p)
    BY <2>1 DEF PassGates
  <2>2. CASE ReadProgress(p)
    BY <2>2 DEF ReadProgress
  <2>3. CASE SpawnWorker(p)
    BY <2>3 DEF SpawnWorker
  <2> QED  BY <2>1, <2>2, <2>3
<1>2. CASE LockPage
  BY <1>2 DEF LockPage
<1>3. CASE Fault /\ EngineCrashes
  BY <1>3 DEF EngineCrashes
<1>4. CASE Fault /\ WorkerDies
  BY <1>4 DEF WorkerDies
<1>5. CASE Fault /\ ContainerRestart
  BY <1>5 DEF ContainerRestart
<1> QED  BY <1>1, <1>2, <1>3, <1>4, <1>5 DEF Fault

LEMMA OneNext == OneInv /\ [TerminationNext]_tmVars => OneInv'
<1> SUFFICES ASSUME OneInv, [TerminationNext]_tmVars PROVE OneInv'
  OBVIOUS
<1>1. TermInv'
  BY TermNext DEF OneInv
<1>2. CASE UNCHANGED tmVars
  BY <1>1, <1>2 DEF OneInv, OneWorker, RequestFollowsWorker, AnswerFollowsPid1, tmVars
<1>3. CASE TerminationNext
  <2>1. SUFFICES ASSUME OneWorker' PROVE RequestFollowsWorker' /\ AnswerFollowsPid1'
    BY <1>1 DEF OneInv
  <2>2. OneWorker
    BY <1>3, <2>1, OneWorkerBefore DEF OneInv
  <2> QED
    BY <1>3, <2>1, <2>2, OneWorkerStep, OnePid1Step, OneOtherStep DEF TerminationNext
<1> QED  BY <1>2, <1>3

(* While a single worker was started, no engine runs while it erases on PID 1's
   word that the engine is stopped (default_stopper, PID 1's stand-down). *)
THEOREM EraseIsQuiet == TerminationSpec => []EngineDownDuringErase
<1>1. OneInv => EngineDownDuringErase
  BY DEF OneInv, RequestFollowsWorker, AnswerFollowsPid1, EngineDownDuringErase
<1> QED  BY <1>1, OneNext, OneInit, PTL DEF TerminationSpec
=============================================================================
