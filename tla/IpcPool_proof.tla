--------------------------- MODULE IpcPool_proof ---------------------------
(***************************************************************************)
(* Nothing leaks, nothing is freed while a peer has it mapped, and the     *)
(* ranks agree, for every number of ranks, of channels, of failing steps   *)
(* and of calls.                                                           *)
(*                                                                         *)
(* The ranks act at different times: one may have acted on an exchange     *)
(* while another has only heard it.  What they agree on is therefore not   *)
(* where they are but where they will be once each has done the step it is *)
(* about to do (Soon below): no local step changes that, and an exchange   *)
(* takes ranks that agree to ranks that agree.                             *)
(***************************************************************************)
EXTENDS IpcPool, FiniteSetTheorems, WellFoundedInduction, TLAPS

SetupSteps == {"export", "handles", "import", "init"}
CloseSteps == {"sync", "closeUnmap", "closeBarrier", "closeFree", "closeEnd"}
Posting == SetupSteps \cup CloseSteps \cup Phases
           \cup {"validate", "contract", "gate", "capture", "request"}
Working(r) == step[r] \in SetupSteps \cup Phases

NotNative(s) == s \notin native
NotMapping(s) == \A m \in maps : m[1] # s
Released(S) == \A s \in S : NotNative(s) /\ NotMapping(s)

Knows(r) == Waits(r) \/ Heard(r)
Said(r) == IF Waits(r) THEN io[r][2] ELSE io[r][2][r]

(* The channels of a rank have one id each, and everything a rank names is its own. *)
Named(r) ==
    /\ \A i, j \in DOMAIN chans[r] : chans[r][i].id = chans[r][j].id => i = j
    /\ \A i \in DOMAIN chans[r] : chans[r][i].s[1] = r
    /\ ticket[r] # None => ticket[r].s[1] = r
    /\ Working(r) => frame[r].s \in Setups /\ frame[r].s[1] = r

(* What a rank holds, it knows of. *)
Kept(r) ==
    \A s \in Setups :
        /\ s[1] = r
        /\ s \in live \/ ~NotNative(s) \/ ~NotMapping(s)
        => s \in Owned(r) \/ (Working(r) /\ s = frame[r].s)

(* How far the setup that a ticket or a call is about has come, or is undone. *)
Progressed(r) ==
    /\ ticket[r] # None =>
        /\ ticket[r].phase \in {"unmap", "free"} => NotNative(ticket[r].s)
        /\ ticket[r].phase = "free" => NotMapping(ticket[r].s)
    /\ step[r] \in SetupSteps => ticket[r] = None
    /\ step[r] \in Phases => ticket[r] = None \/ ticket[r].s = frame[r].s
    /\ step[r] \in {"export", "handles", "import", "unmap", "free"} => NotNative(frame[r].s)
    /\ step[r] \in {"export", "handles", "free"} => NotMapping(frame[r].s)
    /\ step[r] \in {"handles", "import", "init"} => frame[r].s \in live
    /\ step[r] \in {"gate"} \cup SetupSteps => frame[r].todo # {} /\ frame[r].todo \cap Catalog(r) = {}
    /\ step[r] \in {"capture", "request"} => frame[r].id \in Ids

(* A close is about the channels it will drop. *)
Closes(r) ==
    /\ ~closed[r] => saved[r].len <= Len(chans[r])
    /\ step[r] \in CloseSteps =>
        /\ ~closed[r] /\ call \in {"rollback", "close"} /\ frame[r].cl = ToClose(r)
    /\ step[r] \in {"closeBarrier", "closeFree", "closeEnd"} => Released(frame[r].cl)
    /\ step[r] = "closeEnd" => live \cap frame[r].cl = {}

(* What a rank says of itself is so. *)
Honest(r) ==
    Knows(r) =>
        /\ step[r] = "gate" => Said(r) = (ticket[r] = None)
        /\ step[r] = "contract" => Said(r) = [ids |-> frame[r].todo, catalog |-> Catalog(r)]
        /\ step[r] = "request" => Said(r) = [id |-> frame[r].id, catalog |-> Catalog(r)]
        /\ step[r] = "handles" => Said(r) = frame[r].s
        /\ step[r] = "export" /\ Said(r) => frame[r].s \in live
        /\ step[r] = "native" /\ Said(r) => NotNative(frame[r].s)
        /\ step[r] = "unmap" /\ Said(r) => NotMapping(frame[r].s)
        /\ step[r] = "free" /\ Said(r) => frame[r].s \notin live
        /\ step[r] = "closeUnmap" /\ Said(r) => Released(frame[r].cl)
        /\ step[r] = "closeFree" /\ Said(r) => live \cap frame[r].cl = {}

IoOK ==
    /\ io = [r \in Ranks |-> io[r]]
    /\ \A r \in Ranks :
        io[r][1] \in IF step[r] \in Posting THEN {"post", "heard", "raise"} ELSE {"calm"}

Mine(r) == Named(r) /\ Kept(r) /\ Progressed(r) /\ Closes(r) /\ Honest(r)
Local == \A r \in Ranks : Mine(r)

-----------------------------------------------------------------------------
(* Where a rank will be when it has done the step it is about to do.        *)
Acts(r) == step[r] # "outside" /\ ~Waits(r)
Same(r) == Heard(r) /\ \A q \in Ranks : io[r][2][q] = io[r][2][r]
Fresh(r) ==
    Heard(r) /\ (\A q \in Ranks : io[r][2][q].catalog = Catalog(r))
    /\ ~(\A q \in Ranks : io[r][2][q].id \in Catalog(r))
    /\ \A q \in Ranks : io[r][2][q].id = frame[r].id

First(r) ==
    CASE call = "prepare" -> "validate"
      [] call = "capture" -> "capture"
      [] call = "retry" -> IF ticket[r] = None THEN "outside" ELSE ticket[r].phase
      [] call \in {"rollback", "close"} ->
            IF closed[r] \/ ToClose(r) = {} THEN "outside" ELSE "sync"
      [] OTHER -> "outside"

SoonStep(r) ==
    IF ~Acts(r) THEN step[r]
    ELSE CASE step[r] = "entering" -> First(r)
      [] step[r] = "validate" /\ Passed(r) -> "contract"
      [] step[r] = "contract" /\ Same(r) /\ Remaining(r, frame[r].todo) # {} -> "gate"
      [] step[r] = "gate" /\ Passed(r) -> "export"
      [] step[r] = "export" /\ Passed(r) -> "handles"
      [] step[r] = "export" /\ Failed(r) -> "free"
      [] step[r] = "handles" /\ Heard(r) -> "import"
      [] step[r] = "import" /\ Passed(r) -> "init"
      [] step[r] = "import" /\ Failed(r) -> "unmap"
      [] step[r] = "init" /\ Passed(r) /\ frame[r].todo # {Min(frame[r].todo)} -> "gate"
      [] step[r] = "init" /\ Failed(r) -> "native"
      [] step[r] = "capture" /\ Passed(r) -> "request"
      [] step[r] = "request" /\ Fresh(r) -> "validate"
      [] step[r] = "native" /\ Passed(r) -> "unmap"
      [] step[r] = "unmap" /\ Passed(r) -> "free"
      [] step[r] = "sync" /\ Passed(r) -> "closeUnmap"
      [] step[r] = "closeUnmap" /\ Passed(r) -> "closeBarrier"
      [] step[r] = "closeBarrier" /\ Passed(r) -> "closeFree"
      [] step[r] = "closeFree" /\ Passed(r) -> "closeEnd"
      [] OTHER -> "outside"

(* Its channels: how many, their ids, and the numbers of their setups. *)
Drops(r) ==
    /\ Acts(r)
    /\ \/ step[r] = "closeEnd" /\ Passed(r)
       \/ /\ step[r] = "entering" /\ call \in {"rollback", "close"}
          /\ ~closed[r] /\ ToClose(r) = {}
Adopts(r) == Acts(r) /\ step[r] = "init" /\ Passed(r)
SoonLen(r) ==
    IF Adopts(r) THEN Len(chans[r]) + 1
    ELSE IF Drops(r) THEN (IF call = "close" THEN 0 ELSE saved[r].len)
    ELSE Len(chans[r])
SoonChan(r, i) ==
    IF i <= Len(chans[r]) THEN <<chans[r][i].id, chans[r][i].s[2]>>
    ELSE <<Min(frame[r].todo), frame[r].s[2]>>
SoonClosed(r) == closed[r] \/ (Drops(r) /\ call = "close")

(* Its ticket. *)
Retains(r) ==
    /\ Acts(r)
    /\ \/ step[r] \in {"export", "handles", "import", "init"} /\ ~Heard(r)
       \/ step[r] \in Phases /\ ~Passed(r)
SoonTicket(r) ==
    IF Retains(r)
    THEN <<frame[r].s[2], IF step[r] \in Phases \cup {"init"}
                          THEN (IF step[r] = "init" THEN "native" ELSE step[r]) ELSE "unmap">>
    ELSE IF Acts(r) /\ step[r] = "free" THEN <<0, None>>
    ELSE IF ticket[r] = None THEN <<0, None>>
    ELSE <<ticket[r].s[2], ticket[r].phase>>
SoonSaved(r) ==
    IF Acts(r) /\ step[r] = "entering" /\ call = "checkpoint" /\ ~closed[r]
    THEN Len(chans[r]) ELSE saved[r].len

(* The channels it has still to set up. *)
SoonTodo(r) ==
    IF ~Acts(r) THEN frame[r].todo
    ELSE IF step[r] = "contract" THEN Remaining(r, frame[r].todo)
    ELSE IF step[r] = "init" THEN frame[r].todo \ {Min(frame[r].todo)}
    ELSE frame[r].todo

(* The number of the setup it works on. *)
Taken(r) ==
    {chans[r][i].s[2] : i \in DOMAIN chans[r]} \cup (IF ticket[r] = None THEN {} ELSE {ticket[r].s[2]})
SoonNumber(r) ==
    IF ~Acts(r) THEN frame[r].s[2]
    ELSE IF step[r] = "gate" THEN Min(Numbers \ Taken(r))
    ELSE IF step[r] = "entering" THEN ticket[r].s[2]
    ELSE frame[r].s[2]

(* Ranks that are still in a call are at the same step of it, whatever was raised on
   whom; only undoing from tickets may be at different phases.  What is handed over
   is a setup. *)
Meets ==
    \A r, q \in Ranks : SoonStep(r) # "outside" /\ SoonStep(q) # "outside" =>
        /\ SoonStep(r) = SoonStep(q) \/ {SoonStep(r), SoonStep(q)} \subseteq Phases
        /\ SoonStep(r) \in {"gate"} \cup SetupSteps => SoonTodo(r) = SoonTodo(q)
Given ==
    \A r, q \in Ranks : step[r] = "handles" /\ Heard(r) => io[r][2][q] \in Setups

Agree(r, q) ==
    /\ SoonStep(r) = SoonStep(q)
    /\ SoonLen(r) = SoonLen(q)
    /\ \A i \in 1..SoonLen(r) : SoonChan(r, i) = SoonChan(q, i)
    /\ SoonClosed(r) = SoonClosed(q)
    /\ SoonTicket(r) = SoonTicket(q)
    /\ SoonSaved(r) = SoonSaved(q)
    /\ SoonStep(r) \in SetupSteps \cup Phases => SoonNumber(r) = SoonNumber(q)

(* An import is of the setup with the same number, and of an export that is there. *)
Paired == \A m \in maps : m[1][2] = m[2][2]
Backed == native \cup {m[2] : m \in maps} \subseteq live
Handed ==
    \A r, q \in Ranks : step[r] = "handles" /\ Heard(r) => io[r][2][q] = frame[q].s

(* As long as no exchange has raised on some ranks only. *)
Joint == ~split => (\A r, q \in Ranks : Agree(r, q)) /\ Paired /\ Backed /\ Handed

IInv == TypeOK /\ IoOK /\ Local /\ Meets /\ Given /\ Joint

-----------------------------------------------------------------------------
USE PoolAssumption, NoneIsNothing

(* The naturals have no infinite descent. *)
Descent == {p \in Nat \X Nat : p[1] < p[2]}
LEMMA NoDescent == IsWellFoundedOn(Descent, Nat)
  BY NatLessThanWellFounded DEF OpToRel, Descent

(* A set of naturals has a least element. *)
LEMMA LeastOf ==
    ASSUME NEW S \in SUBSET Nat, S # {}
    PROVE  Min(S) \in S /\ \A y \in S : Min(S) <= y
  <1>1. PICK x \in S : \A y \in S : <<y, x>> \notin Descent
    BY NoDescent, WFMin
  <1>2. ASSUME NEW y \in S PROVE x <= y
    <2>1. x \in Nat /\ y \in Nat OBVIOUS
    <2>2. <<y, x>> \in Nat \X Nat /\ <<y, x>>[1] = y /\ <<y, x>>[2] = x BY <2>1
    <2>3. y < x => <<y, x>> \in Descent BY <2>2 DEF Descent
    <2> QED BY <1>1, <2>1, <2>3
  <1> QED BY <1>2 DEF Min

(* The channels of a rank, as a sequence. *)
LEMMA Channels ==
    ASSUME TypeOK, NEW r \in Ranks
    PROVE  /\ chans[r] \in Seq([id : Ids, s : Setups])
           /\ Len(chans[r]) \in Nat /\ DOMAIN chans[r] = 1..Len(chans[r])
           /\ \A i \in DOMAIN chans[r] : chans[r][i].id \in Ids /\ chans[r][i].s \in Setups
  <1> DEFINE R == [id : Ids, s : Setups]
  <1>1. chans[r] \in Seq(R)
    BY DEF TypeOK
  <1>2. \A x \in R : x.id \in Ids /\ x.s \in Setups
    OBVIOUS
  <1> HIDE DEF R
  <1>3. Len(chans[r]) \in Nat /\ DOMAIN chans[r] = 1..Len(chans[r])
        /\ \A i \in DOMAIN chans[r] : chans[r][i] \in R
    BY <1>1
  <1> QED BY <1>1, <1>2, <1>3 DEF R

(* There is a number left for a setup: channels have different ids. *)
LEMMA NumberLeft ==
    ASSUME TypeOK, NEW r \in Ranks, Named(r), ticket[r] = None
    PROVE  Numbers \ Taken(r) # {}
  <1> DEFINE n == Len(chans[r])
             f == [i \in 1..n |-> chans[r][i].id]
             g == [i \in 1..n |-> chans[r][i].s[2]]
  <1>1. /\ n \in Nat /\ DOMAIN chans[r] = 1..n
        /\ \A i \in DOMAIN chans[r] : chans[r][i].id \in Ids /\ chans[r][i].s \in Setups
    BY Channels
  <1>2. f \in Injection(1..n, Ids)
    BY <1>1 DEF Named, Injection, IsInjective
  <1>3. n <= Cardinality(Ids) /\ Cardinality(Ids) \in Nat
    <2>1. IsFiniteSet(1..n) /\ Cardinality(1..n) = n
      <3>1. 1 \in Int /\ n \in Int /\ (1 > n => n = 0) BY <1>1
      <3> HIDE DEF n
      <3> QED BY <1>1, <3>1, FS_Interval
    <2>2. Cardinality(1..n) <= Cardinality(Ids)
      BY <1>2, FS_Injection
    <2> QED BY <2>1, <2>2, FS_CardinalityType
  <1>4. g \in Surjection(1..n, Taken(r))
    BY <1>1 DEF Taken, Surjection
  <1>5. IsFiniteSet(Taken(r)) /\ Cardinality(Taken(r)) <= n
    <2>1. IsFiniteSet(1..n) /\ Cardinality(1..n) = n
      <3>1. 1 \in Int /\ n \in Int /\ (1 > n => n = 0) BY <1>1
      <3> HIDE DEF n
      <3> QED BY <1>1, <3>1, FS_Interval
    <2> QED BY <1>4, <2>1, FS_Surjection
  <1>6. Cardinality(Numbers) = Cardinality(Ids) + 1
    BY <1>3, FS_Interval DEF Numbers
  <1>7. Cardinality(Taken(r)) \in Nat
    BY <1>5, FS_CardinalityType
  <1>8. CASE Numbers \subseteq Taken(r)
    <2>1. Cardinality(Numbers) <= Cardinality(Taken(r))
      BY <1>5, <1>8, FS_Subset
    <2> QED BY <1>1, <1>3, <1>5, <1>6, <1>7, <2>1
  <1> QED BY <1>8

(* An export takes the least number left, whichever rank allocates it. *)
LEMMA Allocated ==
    ASSUME TypeOK, NEW r \in Ranks, Named(r), Kept(r), ticket[r] = None, ~Working(r)
    PROVE  LET s == CHOOSE x \in Unused(r) : \A y \in Unused(r) : x[2] <= y[2]
           IN /\ s = <<r, Min(Numbers \ Taken(r))>>
              /\ s \in Setups /\ s \notin live /\ NotNative(s) /\ NotMapping(s)
              /\ s \notin Owned(r)
  <1> DEFINE k == Min(Numbers \ Taken(r))
             s == CHOOSE x \in Unused(r) : \A y \in Unused(r) : x[2] <= y[2]
  <1>1. Numbers \subseteq Nat
    <2>1. Cardinality(Ids) \in Nat BY FS_CardinalityType
    <2> QED BY <2>1 DEF Numbers
  <1>2. k \in Numbers \ Taken(r) /\ \A j \in Numbers \ Taken(r) : k <= j
    BY <1>1, NumberLeft, LeastOf
  <1>3. \A j \in Numbers : <<r, j>> \in Owned(r) <=> j \in Taken(r)
    <2> SUFFICES ASSUME NEW j \in Numbers PROVE <<r, j>> \in Owned(r) <=> j \in Taken(r)
      OBVIOUS
    <2>1. \A i \in DOMAIN chans[r] : chans[r][i].s = <<r, chans[r][i].s[2]>>
      BY Channels DEF Named, Setups
    <2> QED BY <2>1 DEF Owned, Taken
  <1>4. \A j \in Numbers : <<r, j>> \in live \/ ~NotNative(<<r, j>>) \/ ~NotMapping(<<r, j>>)
                           => <<r, j>> \in Owned(r)
    BY DEF Kept, Setups
  <1>5. \A j \in Numbers : <<r, j>> \in Unused(r) <=> j \notin Taken(r)
    BY <1>3, <1>4 DEF Unused
  <1>6. <<r, k>> \in Unused(r) /\ \A y \in Unused(r) : k <= y[2]
    BY <1>2, <1>5 DEF Unused
  <1>7. s \in Unused(r) /\ \A y \in Unused(r) : s[2] <= y[2]
    BY <1>6
  <1>8. PICK j \in Numbers : s = <<r, j>> /\ j \notin Taken(r)
    BY <1>5, <1>7 DEF Unused
  <1>9. j = k
    <2>1. k <= j BY <1>2, <1>8
    <2>2. <<r, k>> \in Unused(r) /\ <<r, k>>[2] = k /\ <<r, j>>[2] = j BY <1>6
    <2>3. s[2] <= <<r, k>>[2] BY <1>7, <2>2
    <2>4. j <= k BY <1>8, <2>2, <2>3
    <2>5. j \in Nat /\ k \in Nat BY <1>1, <1>2
    <2> HIDE DEF k
    <2> QED BY <2>1, <2>4, <2>5
  <1>10. s = <<r, k>> /\ k \in Numbers /\ k \notin Taken(r)
    BY <1>2, <1>8, <1>9
  <1>11. <<r, k>> \in Setups /\ <<r, k>> \notin Owned(r)
    BY <1>3, <1>10 DEF Setups
  <1>12. <<r, k>> \notin live /\ NotNative(<<r, k>>) /\ NotMapping(<<r, k>>)
    BY <1>4, <1>10, <1>11
  <1> HIDE DEF s
  <1>13. s = <<r, Min(Numbers \ Taken(r))>> /\ s \in Setups /\ s \notin live
         /\ NotNative(s) /\ NotMapping(s) /\ s \notin Owned(r)
    BY <1>10, <1>11, <1>12
  <1> QED BY <1>13 DEF s

-----------------------------------------------------------------------------
(* What a step of one rank leaves alone: the other ranks, and what they own. *)
OnlyRank(r) ==
    /\ call' = call
    /\ \A q \in Ranks : q # r =>
        /\ step'[q] = step[q] /\ io'[q] = io[q] /\ frame'[q] = frame[q] /\ ticket'[q] = ticket[q]
        /\ chans'[q] = chans[q] /\ saved'[q] = saved[q] /\ closed'[q] = closed[q]
OnlyMemory(r) ==
    \A s \in Setups : s[1] # r =>
        /\ s \in live' <=> s \in live
        /\ NotNative(s)' <=> NotNative(s)
        /\ NotMapping(s)' <=> NotMapping(s)

(* What is shown of every local step. *)
Sound(r) == OnlyRank(r) /\ OnlyMemory(r) /\ TypeOK' /\ IoOK' /\ Mine(r)'

(* What a close is about is the rank's own channels. *)
LEMMA ToCloseOwn ==
    ASSUME TypeOK, NEW r \in Ranks, Named(r), NEW s \in ToClose(r)
    PROVE  s \in Setups /\ s[1] = r /\ s \in Owned(r)
  <1> DEFINE from == IF call = "close" THEN 1 ELSE saved[r].len + 1
  <1>1. s \in {chans[r][i].s : i \in from..Len(chans[r])} BY DEF ToClose
  <1>2. from \in 1..from /\ from \in Nat BY DEF TypeOK
  <1>3. PICK i \in DOMAIN chans[r] : s = chans[r][i].s
    BY <1>1, <1>2, Channels
  <1> QED BY <1>3, Channels DEF Named, Owned

(* The others stay as they were. *)
LEMMA OthersMine ==
    ASSUME TypeOK, NEW r \in Ranks, NEW q \in Ranks, q # r, OnlyRank(r), OnlyMemory(r), Mine(q)
    PROVE  Mine(q)'
  <1> USE DEF OnlyRank
  <1>0. /\ \A i \in DOMAIN chans[q] : chans[q][i].id \in Ids /\ chans[q][i].s \in Setups
        /\ ticket[q] # None => ticket[q].s \in Setups
    BY Channels DEF TypeOK, Tickets
  <1>1. Named(q)'
    BY DEF Mine, Named, Working
  <1>2. Kept(q)'
    BY DEF Mine, Kept, OnlyMemory, Owned, Working
  <1>3. Working(q) => frame[q].s \in Setups /\ frame[q].s[1] # r
    BY DEF Mine, Named
  <1>4. ticket[q] # None => ticket[q].s[1] # r
    BY DEF Mine, Named
  <1>5. Progressed(q)'
    BY <1>0, <1>3, <1>4 DEF Mine, Progressed, OnlyMemory, Working, Catalog, SetupSteps, Phases
  <1>6. ToClose(q)' = ToClose(q)
    BY DEF ToClose
  <1>7. step[q] \in CloseSteps => frame[q].cl \subseteq Setups /\ \A s \in frame[q].cl : s[1] # r
    BY ToCloseOwn DEF Mine, Closes
  <1>8. step[q] \in CloseSteps => Released(frame[q].cl)' = Released(frame[q].cl)
                                  /\ live' \cap frame[q].cl = live \cap frame[q].cl
    BY <1>7 DEF Released, OnlyMemory
  <1>9. Closes(q)'
    BY <1>6, <1>8 DEF Mine, Closes, CloseSteps
  <1>10. Honest(q)'
    <2>1. Knows(q)' = Knows(q) /\ Said(q)' = Said(q)
      BY DEF Knows, Said, Waits, Heard
    <2>2. Catalog(q)' = Catalog(q)
      BY DEF Catalog
    <2> QED BY <1>3, <1>8, <2>1, <2>2 DEF Mine, Honest, OnlyMemory, Working, SetupSteps, CloseSteps, Phases
  <1> QED BY <1>1, <1>2, <1>5, <1>9, <1>10 DEF Mine

(* A rank that posts. *)
LEMMA Posted ==
    ASSUME TypeOK, IoOK, NEW r \in Ranks, NEW st, NEW v, Goto(r, st, v)
    PROVE  /\ step'[r] = st /\ step' = [q \in Ranks |-> step'[q]] /\ io' = [q \in Ranks |-> io'[q]]
           /\ io'[r][1] = "post" /\ Waits(r)' /\ ~Heard(r)' /\ Said(r)' = v
           /\ \A q \in Ranks : q # r => step'[q] = step[q] /\ io'[q] = io[q]
  BY DEF Goto, TypeOK, IoOK, Waits, Heard, Said

(* A rank that comes back from its call. *)
LEMMA Left ==
    ASSUME TypeOK, IoOK, NEW r \in Ranks, Leave(r)
    PROVE  /\ step'[r] = "outside" /\ step' = [q \in Ranks |-> step'[q]]
           /\ io' = [q \in Ranks |-> io'[q]] /\ io'[r][1] = "calm" /\ ~Waits(r)' /\ ~Heard(r)'
           /\ frame'[r] = NoFrame /\ frame' = [q \in Ranks |-> frame'[q]]
           /\ \A q \in Ranks : q # r =>
                  step'[q] = step[q] /\ io'[q] = io[q] /\ frame'[q] = frame[q]
  BY DEF Leave, TypeOK, IoOK, Waits, Heard, Calm

(* A rank that posts keeps the types. *)
LEMMA PostedType ==
    ASSUME TypeOK, IoOK, NEW r \in Ranks, NEW st \in Posting, NEW v, Goto(r, st, v)
    PROVE  IoOK' /\ step' \in [Ranks -> Steps \cup {"outside", "entering"}]
  <1>1. st \in Steps BY DEF Posting, Steps, SetupSteps, CloseSteps, Phases
  <1>2. \A q \in Ranks : step'[q] \in Steps \cup {"outside", "entering"}
    <2>1. \A q \in Ranks : step[q] \in Steps \cup {"outside", "entering"} BY DEF TypeOK
    <2> QED BY <1>1, <2>1, Posted
  <1>3. \A q \in Ranks : io'[q][1] \in IF step'[q] \in Posting THEN {"post", "heard", "raise"} ELSE {"calm"}
    BY Posted DEF IoOK
  <1> QED BY <1>2, <1>3, Posted DEF IoOK

(* So does one that comes back. *)
LEMMA LeftType ==
    ASSUME TypeOK, IoOK, NEW r \in Ranks, Leave(r)
    PROVE  IoOK' /\ step' \in [Ranks -> Steps \cup {"outside", "entering"}]
           /\ frame' \in [Ranks -> Frames]
  <1>1. "outside" \notin Posting BY DEF Posting, SetupSteps, CloseSteps, Phases
  <1>2. \A q \in Ranks : step'[q] \in Steps \cup {"outside", "entering"}
    <2>1. \A q \in Ranks : step[q] \in Steps \cup {"outside", "entering"} BY DEF TypeOK
    <2> QED BY <2>1, Left
  <1>3. NoFrame \in Frames BY DEF NoFrame, Frames
  <1>4. \A q \in Ranks : frame'[q] \in Frames
    <2>1. \A q \in Ranks : frame[q] \in Frames BY DEF TypeOK
    <2> QED BY <1>3, <2>1, Left
  <1>5. \A q \in Ranks : io'[q][1] \in IF step'[q] \in Posting THEN {"post", "heard", "raise"} ELSE {"calm"}
    BY <1>1, Left DEF IoOK
  <1> QED BY <1>2, <1>4, <1>5, Left DEF IoOK

(* Leaving a call that has nothing in hand. *)
LEMMA QuitSound ==
    ASSUME TypeOK, IoOK, Local, NEW r \in Ranks, Leave(r), ~Working(r),
           captured' \in [Ranks -> SUBSET Ids],
           UNCHANGED <<call, chans, saved, closed, ticket, memVars, faults, calls, split>>
    PROVE  Sound(r)
  <1>0. Mine(r) BY DEF Local
  <1>1. TypeOK' BY LeftType DEF TypeOK, memVars
  <1>2. OnlyRank(r) /\ OnlyMemory(r)
    BY Left DEF OnlyRank, OnlyMemory, memVars, NotNative, NotMapping
  <1>3. Mine(r)'
    BY <1>0, Left DEF Mine, Named, Kept, Owned, Progressed, Catalog, Closes, ToClose, Honest,
       Working, SetupSteps, CloseSteps, Phases, memVars, NotNative, NotMapping, Knows
  <1> QED BY <1>1, <1>2, <1>3, LeftType DEF Sound

(* Entering an exchange without having changed anything. *)
LEMMA SayingSound ==
    ASSUME TypeOK, IoOK, Local, NEW r \in Ranks, NEW st \in Posting, NEW v, Goto(r, st, v),
           frame' = frame,
           UNCHANGED <<call, poolVars, ticket, memVars, faults, calls, split>>,
           st \in {"contract", "request", "handles", "closeBarrier", "closeEnd"},
           st \in {"contract", "request"} => ~Working(r),
           st = "contract" => v = [ids |-> frame[r].todo, catalog |-> Catalog(r)],
           st = "request" => v = [id |-> frame[r].id, catalog |-> Catalog(r)] /\ frame[r].id \in Ids,
           st = "handles" => v = frame[r].s /\ step[r] = "export" /\ frame[r].s \in live,
           st \in {"closeBarrier", "closeEnd"} =>
                step[r] \in CloseSteps /\ Released(frame[r].cl),
           st = "closeEnd" => live \cap frame[r].cl = {}
    PROVE  Sound(r)
  <1>0. Mine(r) BY DEF Local
  <1>1. TypeOK' BY PostedType DEF TypeOK, poolVars, memVars
  <1>2. OnlyRank(r) /\ OnlyMemory(r)
    BY Posted DEF OnlyRank, OnlyMemory, poolVars, memVars, NotNative, NotMapping
  <1>3. Named(r)' /\ Kept(r)'
    BY <1>0, Posted DEF Mine, Named, Kept, Owned, Working, SetupSteps, CloseSteps, Phases,
       poolVars, memVars, NotNative, NotMapping
  <1>4. Progressed(r)'
    BY <1>0, Posted DEF Mine, Progressed, Catalog, SetupSteps, CloseSteps, Phases,
       poolVars, memVars, NotNative, NotMapping
  <1>5. Closes(r)'
    BY <1>0, Posted DEF Mine, Closes, ToClose, SetupSteps, CloseSteps, Phases,
       poolVars, memVars, NotNative, NotMapping, Released
  <1>6. Honest(r)'
    BY <1>0, Posted DEF Mine, Honest, Catalog, poolVars, memVars
  <1> QED BY <1>1, <1>2, <1>3, <1>4, <1>5, <1>6, PostedType DEF Sound, Mine

(* A rank that keeps a ticket for the setup it leaves. *)
LEMMA RetainSound ==
    ASSUME TypeOK, IoOK, Local, NEW r \in Ranks, NEW phase \in Phases, Working(r),
           Retain(r, phase),
           UNCHANGED <<call, poolVars, calls, split>>,
           ticket[r] = None \/ ticket[r].s = frame[r].s,
           phase \in {"unmap", "free"} => NotNative(frame[r].s),
           phase = "free" => NotMapping(frame[r].s)
    PROVE  Sound(r)
  <1>0. Mine(r) BY DEF Local
  <1>1. /\ Leave(r) /\ UNCHANGED <<memVars, faults>>
        /\ ticket' = [ticket EXCEPT ![r] = [s |-> frame[r].s, phase |-> phase]]
    BY DEF Retain
  <1>2. frame[r].s \in Setups /\ frame[r].s[1] = r
    BY <1>0 DEF Mine, Named
  <1>3. /\ ticket'[r] = [s |-> frame[r].s, phase |-> phase]
        /\ \A q \in Ranks : q # r => ticket'[q] = ticket[q]
        /\ ticket' \in [Ranks -> Tickets \cup {None}] /\ ticket'[r] # None
    BY <1>1, <1>2 DEF TypeOK, Tickets
  <1>4. TypeOK'
    BY <1>1, <1>3, LeftType DEF TypeOK, poolVars, memVars
  <1>5. OnlyRank(r) /\ OnlyMemory(r)
    BY <1>1, <1>3, Left DEF OnlyRank, OnlyMemory, poolVars, memVars, NotNative, NotMapping
  <1>6. Named(r)' /\ Kept(r)'
    <2>1. ~Working(r)' /\ chans' = chans
      BY <1>1, Left DEF Working, SetupSteps, Phases, poolVars
    <2>2. Named(r)'
      BY <1>0, <1>2, <1>3, <2>1 DEF Mine, Named
    <2>3. Owned(r) \cup {frame[r].s} \subseteq Owned(r)'
      BY <1>3, <2>1 DEF Owned, TypeOK
    <2>4. Kept(r)'
      BY <1>0, <1>1, <2>3 DEF Mine, Kept, memVars, NotNative, NotMapping
    <2> QED BY <2>2, <2>4
  <1>7. Progressed(r)' /\ Closes(r)' /\ Honest(r)'
    BY <1>0, <1>1, <1>2, <1>3, Left DEF Mine, Progressed, Closes, Honest, SetupSteps, CloseSteps,
       Phases, poolVars, memVars, NotNative, NotMapping, Knows
  <1> QED BY <1>1, <1>4, <1>5, <1>6, <1>7, LeftType DEF Sound, Mine

(* What undoing does to the memory: it takes from the setup, and says what is left. *)
LEMMA Undoing ==
    ASSUME TypeOK, NEW r \in Ranks, NEW s \in Setups, NEW phase \in Phases, Undo(r, s, phase)
    PROVE  \E v : /\ Goto(r, phase, v)
                  /\ faults' \in 0..MaxFaults
                  /\ live' \subseteq live /\ native' \subseteq native /\ maps' \subseteq maps
                  /\ \A x \in live \ live' : x = s /\ phase = "free"
                  /\ \A x \in native \ native' : x = s
                  /\ \A m \in maps \ maps' : m[1] = s
                  /\ v = CASE phase = "native" -> NotNative(s)'
                           [] phase = "unmap" -> NotMapping(s)'
                           [] OTHER -> s \notin live'
  <1>1. ASSUME NEW bad, Trouble(bad # {}) PROVE faults' \in 0..MaxFaults
    BY <1>1 DEF Trouble, TypeOK
  <1>2. CASE phase = "native"
    BY <1>1, <1>2 DEF Undo, Dispose, NotNative
  <1>3. CASE phase = "unmap"
    <2>1. Unmap({s}) /\ Goto(r, phase, \A m \in maps' : m[1] # s) /\ UNCHANGED <<live, native>>
      BY <1>3 DEF Undo
    <2>2. PICK bad \in SUBSET {m \in maps : m[1] \in {s}} :
            Trouble(bad # {}) /\ maps' = (maps \ {m \in maps : m[1] \in {s}}) \cup bad
      BY <2>1 DEF Unmap
    <2>3. maps' \subseteq maps /\ \A m \in maps \ maps' : m[1] = s
      BY <2>2
    <2>4. Goto(r, phase, NotMapping(s)')
      BY <2>1 DEF NotMapping
    <2> QED BY <1>1, <1>3, <2>1, <2>2, <2>3, <2>4
  <1>4. CASE phase = "free"
    BY <1>1, <1>4 DEF Undo, Free
  <1> QED BY <1>2, <1>3, <1>4 DEF Phases

(* A rank that undoes a phase of its setup, in its call or from its ticket. *)
LEMMA UndoSound ==
    ASSUME TypeOK, IoOK, Local, NEW r \in Ranks, NEW s \in Setups, NEW phase \in Phases,
           Undo(r, s, phase), s[1] = r,
           frame' \in [Ranks -> Frames], frame'[r].s = s,
           \A q \in Ranks : q # r => frame'[q] = frame[q],
           UNCHANGED <<call, poolVars, ticket, calls, split>>,
           ticket[r] = None \/ ticket[r].s = s,
           IF Working(r) THEN frame[r].s = s ELSE ticket[r] # None,
           phase \in {"unmap", "free"} => NotNative(s),
           phase = "free" => NotMapping(s)
    PROVE  Sound(r)
  <1>0. Mine(r) BY DEF Local
  <1>1. PICK v : /\ Goto(r, phase, v)
                 /\ faults' \in 0..MaxFaults
                 /\ live' \subseteq live /\ native' \subseteq native /\ maps' \subseteq maps
                 /\ \A x \in live \ live' : x = s /\ phase = "free"
                 /\ \A x \in native \ native' : x = s
                 /\ \A m \in maps \ maps' : m[1] = s
                 /\ v = CASE phase = "native" -> NotNative(s)'
                          [] phase = "unmap" -> NotMapping(s)'
                          [] OTHER -> s \notin live'
    BY Undoing
  <1>2. phase \in Posting BY DEF Posting
  <1>3. /\ frame'[r].s = s /\ frame' \in [Ranks -> Frames]
        /\ \A q \in Ranks : q # r => frame'[q] = frame[q]
    OBVIOUS
  <1>4. TypeOK'
    BY <1>1, <1>2, <1>3, PostedType DEF TypeOK, poolVars
  <1>a. ASSUME NEW x
        PROVE  /\ NotNative(x) => NotNative(x)'
               /\ NotMapping(x) => NotMapping(x)'
               /\ x # s => (NotNative(x) <=> NotNative(x)') /\ (NotMapping(x) <=> NotMapping(x)')
                            /\ (x \in live <=> x \in live')
    <2>1. (NotNative(x) => NotNative(x)') /\ (x # s => (NotNative(x) <=> NotNative(x)'))
      BY <1>1 DEF NotNative
    <2>2. (NotMapping(x) => NotMapping(x)') /\ (x # s => (NotMapping(x) <=> NotMapping(x)'))
      BY <1>1 DEF NotMapping
    <2> QED BY <1>1, <2>1, <2>2
  <1>5. OnlyRank(r) /\ OnlyMemory(r)
    <2>1. OnlyRank(r) BY <1>1, <1>3, Posted DEF OnlyRank, poolVars
    <2>2. OnlyMemory(r) BY <1>a DEF OnlyMemory
    <2> QED BY <2>1, <2>2
  <1>6. Named(r)'
    BY <1>0, <1>1, <1>3, Posted DEF Mine, Named, poolVars
  <1>7. Kept(r)'
    <2>1. Owned(r)' = Owned(r) /\ Working(r)' /\ frame'[r].s = s
      BY <1>1, <1>3, Posted DEF Owned, poolVars, Working
    <2> SUFFICES ASSUME NEW x \in Setups, x[1] = r, x # s,
                        x \in live' \/ ~NotNative(x)' \/ ~NotMapping(x)'
                 PROVE  x \in Owned(r)
      BY <2>1 DEF Kept
    <2>2. x \in live \/ ~NotNative(x) \/ ~NotMapping(x)
      BY <1>a
    <2>3. x \in Owned(r) \/ (Working(r) /\ x = frame[r].s)
      BY <1>0, <2>2 DEF Mine, Kept
    <2> QED BY <2>3
  <1>8. Progressed(r)'
    <2>1. step'[r] = phase /\ ticket' = ticket BY <1>1, Posted
    <2>2. phase \notin {"gate", "capture", "request", "handles", "export", "import", "init"}
          /\ phase \notin SetupSteps
      BY DEF Phases, SetupSteps
    <2>3. ticket[r] # None =>
            /\ ticket[r].phase \in {"unmap", "free"} => NotNative(ticket[r].s)'
            /\ ticket[r].phase = "free" => NotMapping(ticket[r].s)'
      BY <1>0, <1>a DEF Mine, Progressed
    <2>4. phase \in {"unmap", "free"} => NotNative(s)' BY <1>a
    <2>5. phase = "free" => NotMapping(s)' BY <1>a
    <2> QED BY <1>3, <2>1, <2>2, <2>3, <2>4, <2>5 DEF Progressed
  <1>9. Closes(r)'
    BY <1>0, <1>1, Posted DEF Mine, Closes, CloseSteps, Phases, poolVars
  <1>10. Honest(r)'
    <2>1. step'[r] = phase /\ frame'[r].s = s /\ Said(r)' = v BY <1>1, <1>3, Posted
    <2>2. CASE phase = "native" BY <1>1, <2>1, <2>2 DEF Honest
    <2>3. CASE phase = "unmap" BY <1>1, <2>1, <2>3 DEF Honest
    <2>4. CASE phase = "free" BY <1>1, <2>1, <2>4 DEF Honest
    <2> QED BY <2>2, <2>3, <2>4 DEF Phases
  <1> QED BY <1>1, <1>2, <1>4, <1>5, <1>6, <1>7, <1>8, <1>9, <1>10, PostedType DEF Sound, Mine

(* The ids and the capture were validated. *)
LEMMA ValidatedSound ==
    ASSUME TypeOK, IoOK, Local, NEW r \in Ranks, Validated(r) \/ CaptureValidated(r)
    PROVE  Sound(r)
  <1>0. Mine(r) BY DEF Local
  <1>1. ~Working(r) BY DEF Validated, CaptureValidated, At, Working, SetupSteps, Phases
  <1>2. captured \in [Ranks -> SUBSET Ids] BY DEF TypeOK
  <1>3. {"contract", "request"} \subseteq Posting BY DEF Posting
  <1>4. CASE Validated(r)
    <2>1. CASE Quit(r)
      BY <1>1, <1>2, <1>4, <2>1, QuitSound DEF Quit, Validated, poolVars
    <2>2. CASE Post(r, "contract", [ids |-> frame[r].todo, catalog |-> Catalog(r)])
               /\ UNCHANGED <<poolVars, ticket, memVars, faults>>
      BY <1>1, <1>3, <1>4, <2>2, SayingSound DEF Post, Validated
    <2> QED BY <1>4, <2>1, <2>2 DEF Validated
  <1>5. CASE CaptureValidated(r)
    <2>1. CASE Quit(r)
      BY <1>1, <1>2, <1>5, <2>1, QuitSound DEF Quit, CaptureValidated, poolVars
    <2>2. CASE Post(r, "request", [id |-> frame[r].id, catalog |-> Catalog(r)])
               /\ UNCHANGED <<poolVars, ticket, memVars, faults>>
      <3>1. frame[r].id \in Ids
        BY <1>0, <1>5 DEF Mine, Progressed, CaptureValidated, At
      <3> QED BY <1>1, <1>3, <1>5, <2>2, <3>1, SayingSound DEF Post, CaptureValidated
    <2> QED BY <1>5, <2>1, <2>2 DEF CaptureValidated
  <1> QED BY <1>4, <1>5

(* The gate before a setup, or the end of the call. *)
LEMMA GateSound ==
    ASSUME TypeOK, IoOK, Local, NEW r \in Ranks, NEW ids \in SUBSET Ids, ~Working(r),
           Gate(r, ids), ids \cap Catalog(r) = {},
           ids = {} => frame[r].id \in Ids \cup {None},
           UNCHANGED <<call, chans, saved, closed, ticket, memVars, faults, calls, split>>
    PROVE  Sound(r)
  <1>0. Mine(r) BY DEF Local
  <1>1. CASE ids = {}
    <2>1. captured' \in [Ranks -> SUBSET Ids]
      <3>1. captured \in [Ranks -> SUBSET Ids] BY DEF TypeOK
      <3>2. CASE frame[r].id = None BY <1>1, <3>1, <3>2 DEF Gate, Captures
      <3>3. CASE frame[r].id # None BY <1>1, <3>1, <3>3 DEF Gate, Captures
      <3> QED BY <3>2, <3>3
    <2> QED BY <1>1, <2>1, QuitSound DEF Gate
  <1>2. CASE ids # {}
    <2>1. /\ Goto(r, "gate", ticket[r] = None) /\ captured' = captured
          /\ frame' = [frame EXCEPT ![r].todo = ids, ![r].s = None]
      BY <1>2 DEF Gate
    <2>2. "gate" \in Posting BY DEF Posting
    <2>3. /\ frame'[r].todo = ids
          /\ \A q \in Ranks : q # r => frame'[q] = frame[q]
          /\ frame' \in [Ranks -> Frames]
      <3>1. frame \in [Ranks -> Frames] /\ frame' = [frame EXCEPT ![r].todo = ids, ![r].s = None]
        BY <2>1 DEF TypeOK
      <3> DEFINE new == [frame[r] EXCEPT !.todo = ids, !.s = None]
      <3>2. frame[r] \in Frames BY <3>1
      <3>3. new \in Frames BY <3>1, <3>2 DEF Frames
      <3>4. new.todo = ids BY <3>1, <3>2 DEF Frames
      <3>5. frame' = [frame EXCEPT ![r] = new] BY <3>1
      <3> HIDE DEF new
      <3>6. frame'[r] = new /\ \A q \in Ranks : q # r => frame'[q] = frame[q]
        BY <3>1, <3>5
      <3>7. frame' \in [Ranks -> Frames] BY <3>1, <3>3, <3>5
      <3> QED BY <3>4, <3>6, <3>7
    <2>4. TypeOK'
      BY <2>1, <2>2, <2>3, PostedType DEF TypeOK, memVars
    <2>5. OnlyRank(r) /\ OnlyMemory(r)
      BY <2>1, <2>3, Posted DEF OnlyRank, OnlyMemory, memVars, NotNative, NotMapping
    <2>6. ~Working(r)' BY <2>1, Posted DEF Working, SetupSteps, Phases
    <2>7. Named(r)' /\ Kept(r)'
      BY <1>0, <2>6 DEF Mine, Named, Kept, Owned, memVars, NotNative, NotMapping
    <2>8. Progressed(r)'
      BY <1>0, <1>2, <2>1, <2>3, Posted DEF Mine, Progressed, Catalog, SetupSteps, Phases,
         memVars, NotNative, NotMapping
    <2>9. Closes(r)' /\ Honest(r)'
      BY <1>0, <2>1, Posted DEF Mine, Closes, Honest, CloseSteps
    <2> QED BY <2>1, <2>2, <2>4, <2>5, <2>7, <2>8, <2>9, PostedType DEF Sound, Mine
  <1> QED BY <1>1, <1>2

(* The contract of a preparation. *)
LEMMA AgreedSound ==
    ASSUME TypeOK, IoOK, Local, NEW r \in Ranks, Agreed(r)
    PROVE  Sound(r)
  <1>1. ~Working(r) BY DEF Agreed, At, Working, SetupSteps, Phases
  <1>2. CASE Quit(r)
    <2>1. captured \in [Ranks -> SUBSET Ids] BY DEF TypeOK
    <2> QED BY <1>1, <1>2, <2>1, QuitSound DEF Quit, Agreed, poolVars
  <1>3. CASE Gate(r, Remaining(r, frame[r].todo))
             /\ UNCHANGED <<chans, saved, closed, ticket, memVars, faults>>
    <2>1. frame[r] \in Frames BY DEF TypeOK
    <2>2. frame[r].todo \in SUBSET Ids /\ frame[r].id \in Ids \cup {None} BY <2>1 DEF Frames
    <2> QED BY <1>1, <1>3, <2>2, GateSound DEF Agreed, Remaining
  <1> QED BY <1>2, <1>3 DEF Agreed

(* The request of a capture: its channel is prepared, is to be, or is refused. *)
LEMMA RequestedSound ==
    ASSUME TypeOK, IoOK, Local, NEW r \in Ranks, Requested(r)
    PROVE  Sound(r)
  <1>0. Mine(r) BY DEF Local
  <1>1. ~Working(r) BY DEF Requested, At, Working, SetupSteps, Phases
  <1>2. frame[r] \in Frames /\ frame[r].id \in Ids
    BY <1>0 DEF TypeOK, Mine, Progressed, Requested, At
  <1>3. CASE Quit(r)
    <2>1. captured \in [Ranks -> SUBSET Ids] BY DEF TypeOK
    <2> QED BY <1>1, <1>3, <2>1, QuitSound DEF Quit, Requested, poolVars
  <1>4. CASE Gate(r, {}) /\ UNCHANGED <<chans, saved, closed, ticket, memVars, faults>>
    BY <1>1, <1>2, <1>4, GateSound DEF Requested
  <1>5. CASE /\ Goto(r, "validate", ~closed[r])
             /\ frame' = [frame EXCEPT ![r].todo = {frame[r].id}]
             /\ UNCHANGED <<poolVars, ticket, memVars, faults>>
    <2>1. "validate" \in Posting BY DEF Posting
    <2>2. /\ \A q \in Ranks : q # r => frame'[q] = frame[q]
          /\ frame' \in [Ranks -> Frames]
      <3>1. frame \in [Ranks -> Frames] BY DEF TypeOK
      <3> QED BY <1>2, <1>5, <3>1 DEF Frames
    <2>3. TypeOK'
      BY <1>5, <2>1, <2>2, PostedType DEF TypeOK, memVars, poolVars, Requested
    <2>4. OnlyRank(r) /\ OnlyMemory(r)
      BY <1>5, <2>2, Posted DEF OnlyRank, OnlyMemory, memVars, poolVars, NotNative, NotMapping,
         Requested
    <2>5. ~Working(r)' /\ step'[r] = "validate" BY <1>5, Posted DEF Working, SetupSteps, Phases
    <2>a. chans' = chans /\ ticket' = ticket /\ UNCHANGED memVars
      BY <1>5 DEF poolVars
    <2>6. Named(r)' /\ Kept(r)'
      BY <1>0, <1>1, <2>5, <2>a DEF Mine, Named, Kept, Owned, memVars, NotNative, NotMapping
    <2>7. Progressed(r)' /\ Closes(r)' /\ Honest(r)'
      BY <1>0, <1>5, <2>5 DEF Mine, Progressed, Closes, Honest, SetupSteps, CloseSteps, Phases,
         memVars, poolVars, NotNative, NotMapping
    <2> QED BY <1>5, <2>1, <2>3, <2>4, <2>6, <2>7, PostedType DEF Sound, Mine
  <1> QED BY <1>3, <1>4, <1>5 DEF Requested

(* An export is allocated, and may be there though its preparation failed. *)
LEMMA GatedSound ==
    ASSUME TypeOK, IoOK, Local, NEW r \in Ranks, Gated(r)
    PROVE  Sound(r)
  <1>0. Mine(r) BY DEF Local
  <1>1. ~Working(r) BY DEF Gated, At, Working, SetupSteps, Phases
  <1>2. CASE Quit(r)
    <2>1. captured \in [Ranks -> SUBSET Ids] BY DEF TypeOK
    <2> QED BY <1>1, <1>2, <2>1, QuitSound DEF Quit, Gated, poolVars
  <1>3. CASE Passed(r) /\ Export(r)
    <2> DEFINE s == CHOOSE x \in Unused(r) : \A y \in Unused(r) : x[2] <= y[2]
    <2>1. ticket[r] = None
      BY <1>0, <1>3 DEF Mine, Honest, Gated, At, Passed, Knows, Said
    <2>2. /\ s \in Setups /\ s \notin live /\ NotNative(s) /\ NotMapping(s) /\ s[1] = r
      <3>1. /\ s = <<r, Min(Numbers \ Taken(r))>>
            /\ s \in Setups /\ s \notin live /\ NotNative(s) /\ NotMapping(s)
        BY <1>0, <1>1, <2>1, Allocated DEF Mine
      <3> HIDE DEF s
      <3> QED BY <3>1
    <2>3. PICK made \in {"yes", "half", "no"} :
            /\ Trouble(made # "yes")
            /\ live' = IF made = "no" THEN live ELSE live \cup {s}
            /\ Goto(r, "export", made = "yes")
            /\ frame' = [frame EXCEPT ![r].s = s]
            /\ UNCHANGED <<poolVars, ticket, maps, native>>
      BY <1>3 DEF Export
    <2> HIDE DEF s
    <2>4. "export" \in Posting BY DEF Posting, SetupSteps
    <2>5. /\ frame'[r].s = s /\ frame'[r].todo = frame[r].todo
          /\ \A q \in Ranks : q # r => frame'[q] = frame[q]
          /\ frame' \in [Ranks -> Frames]
      <3>1. frame \in [Ranks -> Frames] BY DEF TypeOK
      <3> QED BY <2>2, <2>3, <3>1 DEF Frames
    <2>6. TypeOK'
      <3>1. faults' \in 0..MaxFaults BY <2>3 DEF Trouble, TypeOK
      <3> QED BY <2>2, <2>3, <2>4, <2>5, <3>1, PostedType DEF TypeOK, poolVars, Gated
    <2>7. OnlyRank(r) /\ OnlyMemory(r)
      <3>1. OnlyRank(r) BY <2>3, <2>5, Posted DEF OnlyRank, poolVars, Gated
      <3>2. OnlyMemory(r) BY <2>2, <2>3 DEF OnlyMemory, NotNative, NotMapping
      <3> QED BY <3>1, <3>2
    <2>8. step'[r] = "export" /\ Working(r)' /\ Said(r)' = (made = "yes")
      BY <2>3, Posted DEF Working, SetupSteps
    <2>9. Named(r)'
      BY <1>0, <2>2, <2>3, <2>5 DEF Mine, Named, poolVars
    <2>10. Kept(r)'
      BY <1>0, <1>1, <2>3, <2>5, <2>8 DEF Mine, Kept, Owned, poolVars, NotNative, NotMapping
    <2>11. Progressed(r)'
      <3>1. frame[r].todo # {} /\ frame[r].todo \cap Catalog(r) = {}
        BY <1>0 DEF Mine, Progressed, Gated, At
      <3> QED BY <2>1, <2>2, <2>3, <2>5, <2>8, <3>1 DEF Progressed, Catalog, poolVars, NotNative,
                 NotMapping, Phases
    <2>12. Closes(r)'
      BY <1>0, <2>3, <2>8 DEF Mine, Closes, poolVars, CloseSteps
    <2>13. Honest(r)'
      <3>1. made = "yes" => s \in live' BY <2>3
      <3> QED BY <2>5, <2>8, <3>1 DEF Honest
    <2> QED BY <2>3, <2>4, <2>6, <2>7, <2>9, <2>10, <2>11, <2>12, <2>13, PostedType DEF Sound, Mine
  <1> QED BY <1>2, <1>3 DEF Gated

(* The handles are exchanged, the export freed again, or the setup retained. *)
LEMMA ExportedSound ==
    ASSUME TypeOK, IoOK, Local, NEW r \in Ranks, Exported(r)
    PROVE  Sound(r)
  <1>0. Mine(r) /\ step[r] = "export" /\ Working(r) BY DEF Local, Exported, At, Working, SetupSteps
  <1>1. /\ ticket[r] = None /\ NotNative(frame[r].s) /\ NotMapping(frame[r].s)
        /\ frame[r].s \in Setups /\ frame[r].s[1] = r
    BY <1>0 DEF Mine, Progressed, Named, SetupSteps
  <1>2. UNCHANGED <<call, poolVars, calls, split>> BY DEF Exported
  <1>3. CASE /\ Passed(r) /\ Post(r, "handles", frame[r].s) /\ UNCHANGED <<ticket, memVars, faults>>
    <2>1. frame[r].s \in live
      BY <1>0, <1>3 DEF Mine, Honest, Passed, Knows, Said, Exported, At
    <2>2. "handles" \in Posting BY DEF Posting, SetupSteps
    <2> QED BY <1>0, <1>2, <1>3, <2>1, <2>2, SayingSound DEF Post
  <1>4. CASE Undo(r, frame[r].s, "free") /\ UNCHANGED <<frame, ticket>>
    <2>1. frame \in [Ranks -> Frames] BY DEF TypeOK
    <2> QED BY <1>0, <1>1, <1>2, <1>4, <2>1, UndoSound DEF Phases
  <1>5. CASE Retain(r, "unmap")
    BY <1>0, <1>1, <1>2, <1>5, RetainSound DEF Phases
  <1> QED BY <1>3, <1>4, <1>5 DEF Exported

(* The handles of the peers are opened: the imports are of the rank's own setup. *)
LEMMA HandlesGotSound ==
    ASSUME TypeOK, IoOK, Local, NEW r \in Ranks, HandlesGot(r),
           Heard(r) => \A q \in Ranks : io[r][2][q] \in Setups
    PROVE  Sound(r)
  <1>0. Mine(r) /\ step[r] = "handles" /\ Working(r)
    BY DEF Local, HandlesGot, At, Working, SetupSteps
  <1>1. /\ ticket[r] = None /\ NotNative(frame[r].s) /\ NotMapping(frame[r].s)
        /\ frame[r].s \in Setups /\ frame[r].s[1] = r /\ frame[r].s \in live
        /\ frame[r].todo # {} /\ frame[r].todo \cap Catalog(r) = {}
    BY <1>0 DEF Mine, Progressed, Named, SetupSteps
  <1>2. UNCHANGED <<call, poolVars, calls, split>> BY DEF HandlesGot
  <1>3. ASSUME Heard(r), NEW theirs, theirs = {<<frame[r].s, io[r][2][q]>> : q \in Ranks \ {r}},
               NEW bad \in SUBSET theirs, Trouble(bad # {}), maps' = maps \cup (theirs \ bad),
               Post(r, "import", bad = {}), UNCHANGED <<ticket, live, native>>
        PROVE  Sound(r)
    <2>1. "import" \in Posting BY DEF Posting, SetupSteps
    <2>2. theirs \subseteq Setups \X Setups /\ \A m \in theirs : m[1] = frame[r].s
      BY <1>1, <1>3
    <2>3. frame' = frame /\ Goto(r, "import", bad = {}) BY <1>3 DEF Post
    <2>4. TypeOK'
      <3>1. faults' \in 0..MaxFaults BY <1>3 DEF Trouble, TypeOK
      <3>2. maps' \subseteq Setups \X Setups BY <1>3, <2>2 DEF TypeOK
      <3> QED BY <1>2, <1>3, <2>1, <2>3, <3>1, <3>2, PostedType DEF TypeOK, poolVars
    <2>5. ASSUME NEW x, x # frame[r].s PROVE NotMapping(x)' <=> NotMapping(x)
      BY <1>3, <2>2, <2>5 DEF NotMapping
    <2>6. OnlyRank(r) /\ OnlyMemory(r)
      <3>1. OnlyRank(r) BY <1>2, <1>3, <2>3, Posted DEF OnlyRank, poolVars
      <3>2. OnlyMemory(r) BY <1>1, <1>3, <2>5 DEF OnlyMemory, NotNative
      <3> QED BY <3>1, <3>2
    <2>7. step'[r] = "import" /\ Working(r)' /\ chans' = chans /\ ticket' = ticket
          /\ saved' = saved /\ closed' = closed
      BY <1>2, <1>3, <2>3, Posted DEF Working, SetupSteps, poolVars
    <2>8. Named(r)'
      BY <1>0, <2>3, <2>7 DEF Mine, Named
    <2>9. Kept(r)'
      BY <1>0, <1>3, <2>3, <2>5, <2>7 DEF Mine, Kept, Owned, NotNative
    <2>10. Progressed(r)' /\ Closes(r)' /\ Honest(r)'
      BY <1>0, <1>1, <1>3, <2>3, <2>7 DEF Mine, Progressed, Closes, Honest, Catalog, SetupSteps,
         CloseSteps, Phases, NotNative
    <2> QED BY <2>1, <2>3, <2>4, <2>6, <2>8, <2>9, <2>10, PostedType DEF Sound, Mine
  <1>4. CASE Retain(r, "unmap")
    BY <1>0, <1>1, <1>2, <1>4, RetainSound DEF Phases
  <1>5. CASE Heard(r) /\ ~Retain(r, "unmap")
    <2> DEFINE theirs == {<<frame[r].s, io[r][2][q]>> : q \in Ranks \ {r}}
    <2>1. PICK bad \in SUBSET theirs :
            /\ Trouble(bad # {}) /\ maps' = maps \cup (theirs \ bad) /\ Post(r, "import", bad = {})
            /\ UNCHANGED <<ticket, live, native>>
      BY <1>5 DEF HandlesGot
    <2> HIDE DEF theirs
    <2>2. theirs = {<<frame[r].s, io[r][2][q]>> : q \in Ranks \ {r}} BY DEF theirs
    <2> QED BY <1>3, <1>5, <2>1, <2>2
  <1> QED BY <1>4, <1>5 DEF HandlesGot

(* The native runtime is there, is not, or is though its creation failed. *)
LEMMA ImportedSound ==
    ASSUME TypeOK, IoOK, Local, NEW r \in Ranks, Imported(r)
    PROVE  Sound(r)
  <1>0. Mine(r) /\ step[r] = "import" /\ Working(r)
    BY DEF Local, Imported, At, Working, SetupSteps
  <1>1. /\ ticket[r] = None /\ NotNative(frame[r].s)
        /\ frame[r].s \in Setups /\ frame[r].s[1] = r /\ frame[r].s \in live
        /\ frame[r].todo # {} /\ frame[r].todo \cap Catalog(r) = {}
    BY <1>0 DEF Mine, Progressed, Named, SetupSteps
  <1>2. UNCHANGED <<call, poolVars, calls, split>> BY DEF Imported
  <1>3. ASSUME NEW made \in {"yes", "half", "no"}, Trouble(made # "yes"),
               native' = IF made = "no" THEN native ELSE native \cup {frame[r].s},
               Post(r, "init", made = "yes"), UNCHANGED <<ticket, live, maps>>
        PROVE  Sound(r)
    <2>1. "init" \in Posting BY DEF Posting, SetupSteps
    <2>2. frame' = frame /\ Goto(r, "init", made = "yes") BY <1>3 DEF Post
    <2>3. TypeOK'
      <3>1. faults' \in 0..MaxFaults BY <1>3 DEF Trouble, TypeOK
      <3>2. native' \subseteq Setups BY <1>1, <1>3 DEF TypeOK
      <3> QED BY <1>2, <1>3, <2>1, <2>2, <3>1, <3>2, PostedType DEF TypeOK, poolVars
    <2>4. \A x : NotMapping(x)' <=> NotMapping(x) BY <1>3 DEF NotMapping
    <2>5. \A x : x # frame[r].s => (NotNative(x)' <=> NotNative(x)) BY <1>3 DEF NotNative
    <2>6. OnlyRank(r) /\ OnlyMemory(r)
      <3>1. OnlyRank(r) BY <1>2, <1>3, <2>2, Posted DEF OnlyRank, poolVars
      <3>2. OnlyMemory(r) BY <1>1, <1>3, <2>4, <2>5 DEF OnlyMemory
      <3> QED BY <3>1, <3>2
    <2>7. step'[r] = "init" /\ Working(r)' /\ chans' = chans /\ ticket' = ticket
          /\ saved' = saved /\ closed' = closed
      BY <1>2, <1>3, <2>2, Posted DEF Working, SetupSteps, poolVars
    <2>8. Named(r)'
      BY <1>0, <2>2, <2>7 DEF Mine, Named
    <2>9. Kept(r)'
      BY <1>0, <1>3, <2>2, <2>4, <2>5, <2>7 DEF Mine, Kept, Owned
    <2>10. Progressed(r)' /\ Closes(r)' /\ Honest(r)'
      BY <1>0, <1>1, <1>3, <2>2, <2>7 DEF Mine, Progressed, Closes, Honest, Catalog, SetupSteps,
         CloseSteps, Phases
    <2> QED BY <2>1, <2>2, <2>3, <2>6, <2>8, <2>9, <2>10, PostedType DEF Sound, Mine
  <1>4. CASE Undo(r, frame[r].s, "unmap") /\ UNCHANGED <<frame, ticket>>
    <2>1. frame \in [Ranks -> Frames] BY DEF TypeOK
    <2> QED BY <1>0, <1>1, <1>2, <1>4, <2>1, UndoSound DEF Phases
  <1>5. CASE Retain(r, "unmap")
    BY <1>0, <1>1, <1>2, <1>5, RetainSound DEF Phases
  <1> QED BY <1>3, <1>4, <1>5 DEF Imported

(* A channel more: its id is new, and it takes over the setup. *)
LEMMA AdoptSound ==
    ASSUME TypeOK, IoOK, Local, NEW r \in Ranks, step[r] = "init", Adopt(r), UNCHANGED <<call, calls, split>>
    PROVE  Sound(r)
  <1> DEFINE n == Len(chans[r])
             id == Min(frame[r].todo)
             new == [id |-> id, s |-> frame[r].s]
             rest == frame[r].todo \ {id}
  <1>0. Mine(r) /\ Working(r) BY DEF Local, Working, SetupSteps
  <1>1. /\ ticket[r] = None /\ frame[r].s \in Setups /\ frame[r].s[1] = r /\ frame[r].s \in live
        /\ frame[r].todo # {} /\ frame[r].todo \cap Catalog(r) = {}
        /\ frame[r] \in Frames
    BY <1>0 DEF Mine, Progressed, Named, SetupSteps, TypeOK
  <1>2. frame[r].todo \subseteq Ids /\ frame[r].id \in Ids \cup {None} BY <1>1 DEF Frames
  <1>3. id \in frame[r].todo
    <2>1. frame[r].todo \in SUBSET Nat BY <1>2
    <2> QED BY <1>1, <2>1, LeastOf
  <1> HIDE DEF id
  <1>4. /\ chans' = [chans EXCEPT ![r] = Append(@, new)] /\ Gate(r, rest)
        /\ UNCHANGED <<ticket, memVars, faults, saved, closed>>
    BY DEF Adopt, id
  <1>5. /\ n \in Nat /\ chans[r] \in Seq([id : Ids, s : Setups]) /\ DOMAIN chans[r] = 1..n
        /\ new \in [id : Ids, s : Setups] /\ new.id = id /\ new.s = frame[r].s
    BY <1>1, <1>2, <1>3, Channels
  <1> HIDE DEF new
  <1>6. /\ chans'[r] \in Seq([id : Ids, s : Setups])
        /\ Len(chans'[r]) = n + 1 /\ DOMAIN chans'[r] = 1..(n + 1)
        /\ \A i \in 1..n : chans'[r][i] = chans[r][i]
        /\ chans'[r][n + 1] = new
        /\ \A q \in Ranks : q # r => chans'[q] = chans[q]
        /\ chans' \in [Ranks -> Seq([id : Ids, s : Setups])]
    <2>1. chans \in [Ranks -> Seq([id : Ids, s : Setups])] BY DEF TypeOK
    <2>2. chans'[r] = Append(chans[r], new) BY <1>4, <2>1
    <2> HIDE DEF n
    <2>3. \A q \in Ranks : q # r => chans'[q] = chans[q] BY <1>4, <2>1
    <2>4. /\ chans'[r] \in Seq([id : Ids, s : Setups])
          /\ Len(chans'[r]) = n + 1 /\ DOMAIN chans'[r] = 1..(n + 1)
          /\ \A i \in 1..n : chans'[r][i] = chans[r][i]
          /\ chans'[r][n + 1] = new
      BY <1>5, <2>2 DEF n
    <2>5. chans' \in [Ranks -> Seq([id : Ids, s : Setups])]
      <3>1. chans' = [q \in Ranks |-> chans'[q]] BY <1>4, <2>1
      <3> QED BY <2>1, <2>3, <2>4, <3>1
    <2> QED BY <2>3, <2>4, <2>5
  <1>a. /\ DOMAIN chans'[r] = (1..n) \cup {n + 1} /\ DOMAIN chans[r] = 1..n /\ n + 1 \notin 1..n
        /\ \A i \in 1..n : chans'[r][i].id = chans[r][i].id /\ chans'[r][i].s = chans[r][i].s
        /\ chans'[r][n + 1].id = id /\ chans'[r][n + 1].s = frame[r].s
    <2> HIDE DEF n
    <2>1. n + 1 \notin 1..n /\ 1..(n + 1) = (1..n) \cup {n + 1} BY <1>5
    <2>2. DOMAIN chans'[r] = (1..n) \cup {n + 1} /\ DOMAIN chans[r] = 1..n BY <1>5, <1>6, <2>1
    <2>3. \A i \in 1..n : chans'[r][i].id = chans[r][i].id /\ chans'[r][i].s = chans[r][i].s
      BY <1>6
    <2>4. chans'[r][n + 1].id = id /\ chans'[r][n + 1].s = frame[r].s BY <1>5, <1>6
    <2> QED BY <2>1, <2>2, <2>3, <2>4
  <1> HIDE DEF n
  <1>7. Catalog(r)' = Catalog(r) \cup {id}
    BY <1>a DEF Catalog
  <1>8. Owned(r)' = Owned(r) \cup {frame[r].s}
    <2>1. {chans'[r][i].s : i \in DOMAIN chans'[r]} = {chans[r][i].s : i \in DOMAIN chans[r]} \cup {frame[r].s}
      BY <1>a
    <2> QED BY <1>1, <1>4, <2>1 DEF Owned
  <1>9. \A i, j \in DOMAIN chans'[r] : chans'[r][i].id = chans'[r][j].id => i = j
    <2>1. \A i \in 1..n : chans[r][i].id # id BY <1>1, <1>3, <1>a DEF Catalog
    <2>2. \A i, j \in 1..n : chans[r][i].id = chans[r][j].id => i = j
      BY <1>0, <1>a DEF Mine, Named
    <2> QED BY <1>a, <2>1, <2>2
  <1>10. \A i \in DOMAIN chans'[r] : chans'[r][i].s[1] = r
    <2>1. \A i \in 1..n : chans[r][i].s[1] = r BY <1>0, <1>a DEF Mine, Named
    <2> QED BY <1>1, <1>a, <2>1
  <1>11. ~closed'[r] => saved'[r].len <= Len(chans'[r])
    <2>1. saved[r].len \in Nat BY DEF TypeOK
    <2>2. ~closed[r] => saved[r].len <= n BY <1>0 DEF Mine, Closes, n
    <2> QED BY <1>4, <1>5, <1>6, <2>1, <2>2
  <1>12. /\ IoOK' /\ step' \in [Ranks -> Steps \cup {"outside", "entering"}]
         /\ frame' \in [Ranks -> Frames] /\ captured' \in [Ranks -> SUBSET Ids]
         /\ step'[r] \in {"outside", "gate"}
         /\ step'[r] = "gate" => rest # {} /\ frame'[r].todo = rest /\ Waits(r)' /\ Said(r)' = (ticket[r] = None)
         /\ step'[r] = "outside" => ~Knows(r)'
         /\ \A q \in Ranks : q # r => step'[q] = step[q] /\ io'[q] = io[q] /\ frame'[q] = frame[q]
    <2>1. captured \in [Ranks -> SUBSET Ids] /\ frame \in [Ranks -> Frames] BY DEF TypeOK
    <2>2. CASE rest = {}
      <3>1. Leave(r) /\ Captures(r, frame[r].id) BY <1>4, <2>2 DEF Gate
      <3>2. captured' \in [Ranks -> SUBSET Ids]
        <4>1. CASE frame[r].id = None BY <2>1, <3>1, <4>1 DEF Captures
        <4>2. CASE frame[r].id # None BY <1>2, <2>1, <3>1, <4>2 DEF Captures
        <4> QED BY <4>1, <4>2
      <3> QED BY <3>1, <3>2, Left, LeftType DEF Knows
    <2>3. CASE rest # {}
      <3>1. /\ Goto(r, "gate", ticket[r] = None) /\ captured' = captured
            /\ frame' = [frame EXCEPT ![r].todo = rest, ![r].s = None]
        BY <1>4, <2>3 DEF Gate
      <3>2. "gate" \in Posting BY DEF Posting
      <3>3. frame' \in [Ranks -> Frames] /\ frame'[r].todo = rest
            /\ \A q \in Ranks : q # r => frame'[q] = frame[q]
        <4>1. frame \in [Ranks -> Frames] /\ rest \in SUBSET Ids
              /\ frame' = [frame EXCEPT ![r].todo = rest, ![r].s = None]
          BY <1>2, <2>1, <3>1
        <4> HIDE DEF rest
        <4> DEFINE fr == [frame[r] EXCEPT !.todo = rest, !.s = None]
        <4>2. frame[r] \in Frames BY <4>1
        <4>3. fr \in Frames BY <4>1, <4>2 DEF Frames
        <4>4. fr.todo = rest BY <4>1, <4>2 DEF Frames
        <4>5. frame' = [frame EXCEPT ![r] = fr] BY <4>1
        <4> HIDE DEF fr
        <4>6. frame'[r] = fr /\ \A q \in Ranks : q # r => frame'[q] = frame[q]
          BY <4>1, <4>5
        <4>7. frame' \in [Ranks -> Frames] BY <4>1, <4>3, <4>5
        <4> QED BY <4>4, <4>6, <4>7
      <3> QED BY <2>1, <2>3, <3>1, <3>2, <3>3, Posted, PostedType
    <2> QED BY <2>2, <2>3
  <1>13. TypeOK'
    BY <1>4, <1>6, <1>12 DEF TypeOK, memVars
  <1>14. OnlyRank(r) /\ OnlyMemory(r)
    <2>1. OnlyRank(r) BY <1>4, <1>6, <1>12 DEF OnlyRank
    <2>2. OnlyMemory(r) BY <1>4 DEF OnlyMemory, memVars, NotNative, NotMapping
    <2> QED BY <2>1, <2>2
  <1>15. ~Working(r)' /\ ticket' = ticket BY <1>4, <1>12 DEF Working, SetupSteps, Phases
  <1>16. Named(r)'
    BY <1>0, <1>1, <1>9, <1>10, <1>15 DEF Mine, Named
  <1>17. Kept(r)'
    BY <1>0, <1>4, <1>8 DEF Mine, Kept, memVars, NotNative, NotMapping
  <1>18. Progressed(r)'
    <2>1. rest \cap Catalog(r)' = {} BY <1>1, <1>7
    <2> QED BY <1>1, <1>12, <1>15, <2>1 DEF Progressed, SetupSteps, Phases
  <1>19. Closes(r)' /\ Honest(r)'
    <2>1. Closes(r)' BY <1>11, <1>12 DEF Closes, CloseSteps
    <2>2. Honest(r)' BY <1>12, <1>15 DEF Honest, Knows
    <2> QED BY <2>1, <2>2
  <1> QED BY <1>12, <1>13, <1>14, <1>16, <1>17, <1>18, <1>19 DEF Sound, Mine

(* The runtimes are there on all ranks, or the setup is undone. *)
LEMMA InitializedSound ==
    ASSUME TypeOK, IoOK, Local, NEW r \in Ranks, Initialized(r)
    PROVE  Sound(r)
  <1>0. Mine(r) /\ step[r] = "init" /\ Working(r)
    BY DEF Local, Initialized, At, Working, SetupSteps
  <1>1. /\ ticket[r] = None /\ frame[r].s \in Setups /\ frame[r].s[1] = r
    BY <1>0 DEF Mine, Progressed, Named, SetupSteps
  <1>2. UNCHANGED <<call, calls, split>> BY DEF Initialized
  <1>3. CASE Adopt(r)
    BY <1>0, <1>2, <1>3, AdoptSound
  <1>4. CASE AbortInit(r)
    <2>1. frame \in [Ranks -> Frames] BY DEF TypeOK
    <2> QED BY <1>0, <1>1, <1>2, <1>4, <2>1, UndoSound DEF AbortInit, Phases
  <1>5. CASE Retain(r, "native") /\ UNCHANGED poolVars
    BY <1>0, <1>1, <1>2, <1>5, RetainSound DEF Phases
  <1> QED BY <1>3, <1>4, <1>5 DEF Initialized

(* A phase of the undoing passed on all ranks, or it did not. *)
LEMMA UndoneSound ==
    ASSUME TypeOK, IoOK, Local, NEW r \in Ranks, Undone(r)
    PROVE  Sound(r)
  <1>0. Mine(r) /\ step[r] \in Phases /\ Working(r) BY DEF Local, Undone, Working
  <1>1. /\ frame[r].s \in Setups /\ frame[r].s[1] = r
        /\ ticket[r] = None \/ ticket[r].s = frame[r].s
        /\ step[r] \in {"unmap", "free"} => NotNative(frame[r].s)
        /\ step[r] = "free" => NotMapping(frame[r].s)
    BY <1>0 DEF Mine, Progressed, Named
  <1>2. UNCHANGED <<call, poolVars, calls, split>> BY DEF Undone
  <1>3. CASE Retain(r, step[r])
    BY <1>0, <1>1, <1>2, <1>3, RetainSound
  <1>4. CASE Passed(r) /\ Advance(r)
    <2>0. Heard(r) /\ Said(r) BY <1>4 DEF Passed, Said, Undone
    <2>1. CASE step[r] # "free"
      <3>1. /\ Undo(r, frame[r].s, After[step[r]]) /\ UNCHANGED <<frame, ticket>>
        BY <1>4, <2>1 DEF Advance
      <3>2. step[r] = "native" => NotNative(frame[r].s)
        BY <1>0, <2>0 DEF Mine, Honest, Knows
      <3>3. step[r] = "unmap" => NotMapping(frame[r].s)
        BY <1>0, <2>0 DEF Mine, Honest, Knows
      <3>4. frame \in [Ranks -> Frames] BY DEF TypeOK
      <3>5. CASE step[r] = "native"
        <4>1. After[step[r]] = "unmap" BY <3>5 DEF After
        <4> QED BY <1>0, <1>1, <1>2, <3>1, <3>2, <3>4, <3>5, <4>1, UndoSound DEF Phases
      <3>6. CASE step[r] = "unmap"
        <4>1. After[step[r]] = "free" BY <3>6 DEF After
        <4> QED BY <1>0, <1>1, <1>2, <3>1, <3>3, <3>4, <3>6, <4>1, UndoSound DEF Phases
      <3> QED BY <1>0, <2>1, <3>5, <3>6 DEF Phases
    <2>2. CASE step[r] = "free"
      <3>1. /\ ticket' = [ticket EXCEPT ![r] = None] /\ Leave(r) /\ UNCHANGED <<memVars, faults>>
        BY <1>4, <2>2 DEF Advance
      <3>2. frame[r].s \notin live /\ NotNative(frame[r].s) /\ NotMapping(frame[r].s)
        BY <1>0, <1>1, <2>0, <2>2 DEF Mine, Honest, Knows
      <3>3. /\ ticket'[r] = None /\ \A q \in Ranks : q # r => ticket'[q] = ticket[q]
            /\ ticket' \in [Ranks -> Tickets \cup {None}]
        BY <3>1 DEF TypeOK
      <3>4. TypeOK'
        BY <1>2, <3>1, <3>3, LeftType DEF TypeOK, poolVars, memVars
      <3>5. OnlyRank(r) /\ OnlyMemory(r)
        BY <1>2, <3>1, <3>3, Left DEF OnlyRank, OnlyMemory, poolVars, memVars, NotNative, NotMapping
      <3>6. ~Working(r)' /\ chans' = chans /\ step'[r] = "outside"
        BY <1>2, <3>1, Left DEF Working, SetupSteps, Phases, poolVars
      <3>7. Named(r)'
        BY <1>0, <3>3, <3>6 DEF Mine, Named
      <3>8. Kept(r)'
        <4>1. Owned(r) \subseteq Owned(r)' \cup {frame[r].s}
          BY <1>1, <3>3, <3>6 DEF Owned
        <4> QED BY <1>0, <3>1, <3>2, <4>1 DEF Mine, Kept, memVars, NotNative, NotMapping
      <3>9. Progressed(r)' /\ Closes(r)' /\ Honest(r)'
        BY <1>0, <1>2, <3>1, <3>3, <3>6, Left DEF Mine, Progressed, Closes, Honest, SetupSteps,
           CloseSteps, Phases, poolVars, Knows
      <3> QED BY <3>1, <3>4, <3>5, <3>7, <3>8, <3>9, LeftType DEF Sound, Mine
    <2> QED BY <2>1, <2>2
  <1> QED BY <1>3, <1>4 DEF Undone

(* The first half of a close: nothing is freed. *)
LEMMA CloseSyncedSound ==
    ASSUME TypeOK, IoOK, Local, NEW r \in Ranks, CloseSynced(r)
    PROVE  Sound(r)
  <1>0. Mine(r) /\ step[r] = "sync" /\ ~Working(r)
    BY DEF Local, CloseSynced, At, Working, SetupSteps, Phases
  <1>1. frame[r].cl = ToClose(r) /\ ~closed[r] /\ call \in {"rollback", "close"}
        /\ \A s \in frame[r].cl : s \in Setups /\ s[1] = r
    BY <1>0, ToCloseOwn DEF Mine, Closes, CloseSteps
  <1>2. UNCHANGED <<call, poolVars, ticket, calls, split>> BY DEF CloseSynced
  <1>3. CASE Leave(r) /\ UNCHANGED <<memVars, faults>>
    <2>1. captured \in [Ranks -> SUBSET Ids] BY DEF TypeOK
    <2> QED BY <1>0, <1>2, <1>3, <2>1, QuitSound DEF poolVars
  <1>4. CASE ~(Leave(r) /\ UNCHANGED <<memVars, faults>>)
    <2> DEFINE S == frame[r].cl
               mine == {m \in maps : m[1] \in S}
    <2>1. PICK badRt \in SUBSET (native \cap S), badMap \in SUBSET mine :
            /\ Trouble(badRt # {} \/ badMap # {})
            /\ native' = (native \ S) \cup badRt
            /\ maps' = (maps \ mine) \cup badMap
            /\ Post(r, "closeUnmap", badRt = {} /\ badMap = {})
            /\ live' = live
      BY <1>4 DEF CloseSynced
    <2>2. frame' = frame /\ Goto(r, "closeUnmap", badRt = {} /\ badMap = {}) BY <2>1 DEF Post
    <2>3. "closeUnmap" \in Posting BY DEF Posting, CloseSteps
    <2>4. TypeOK'
      <3>1. faults' \in 0..MaxFaults BY <2>1 DEF Trouble, TypeOK
      <3>2. native' \subseteq native /\ maps' \subseteq maps BY <2>1
      <3> QED BY <1>2, <2>1, <2>2, <2>3, <3>1, <3>2, PostedType DEF TypeOK, poolVars
    <2>5. ASSUME NEW x
          PROVE  /\ x \notin S => (NotNative(x)' <=> NotNative(x)) /\ (NotMapping(x)' <=> NotMapping(x))
                 /\ NotNative(x) => NotNative(x)'
                 /\ NotMapping(x) => NotMapping(x)'
      <3>1. (x \notin S => (NotNative(x)' <=> NotNative(x))) /\ (NotNative(x) => NotNative(x)')
        BY <2>1 DEF NotNative
      <3>2. (x \notin S => (NotMapping(x)' <=> NotMapping(x))) /\ (NotMapping(x) => NotMapping(x)')
        BY <2>1 DEF NotMapping
      <3> QED BY <3>1, <3>2
    <2>6. badRt = {} /\ badMap = {} => Released(S)'
      BY <2>1, <2>2 DEF Released, NotNative, NotMapping
    <2>7. OnlyRank(r) /\ OnlyMemory(r)
      <3>1. OnlyRank(r) BY <1>2, <2>2, Posted DEF OnlyRank, poolVars
      <3>2. OnlyMemory(r) BY <1>1, <2>1, <2>5 DEF OnlyMemory
      <3> QED BY <3>1, <3>2
    <2>8. step'[r] = "closeUnmap" /\ ~Working(r)' /\ chans' = chans /\ ticket' = ticket
          /\ Said(r)' = (badRt = {} /\ badMap = {})
      BY <1>2, <2>2, Posted DEF Working, SetupSteps, Phases, poolVars
    <2>9. Named(r)'
      BY <1>0, <2>8 DEF Mine, Named
    <2>10. Kept(r)'
      BY <1>0, <2>1, <2>5, <2>8 DEF Mine, Kept, Owned
    <2>11. Progressed(r)'
      BY <1>0, <2>5, <2>8 DEF Mine, Progressed, SetupSteps, Phases
    <2>12. Closes(r)'
      <3>1. ToClose(r)' = ToClose(r) BY <1>2, <2>8 DEF ToClose, poolVars
      <3> QED BY <1>0, <1>1, <1>2, <2>2, <2>8, <3>1 DEF Mine, Closes, poolVars
    <2>13. Honest(r)'
      BY <2>2, <2>6, <2>8 DEF Honest
    <2> QED BY <2>2, <2>3, <2>4, <2>7, <2>9, <2>10, <2>11, <2>12, <2>13, PostedType DEF Sound, Mine
  <1> QED BY <1>3, <1>4 DEF CloseSynced

(* All have unmapped; and all have freed: only then does a rank go on. *)
LEMMA CloseSaysSound ==
    ASSUME TypeOK, IoOK, Local, NEW r \in Ranks, CloseUnmapped(r) \/ CloseFreed(r)
    PROVE  Sound(r)
  <1>0. Mine(r) /\ step[r] \in {"closeUnmap", "closeFree"} /\ ~Working(r) /\ step[r] \in CloseSteps
    BY DEF Local, CloseUnmapped, CloseFreed, At, Working, SetupSteps, Phases, CloseSteps
  <1>1. UNCHANGED <<call, poolVars, ticket, memVars, faults, calls, split>>
    BY DEF CloseUnmapped, CloseFreed
  <1>2. CASE Leave(r)
    <2>1. captured \in [Ranks -> SUBSET Ids] BY DEF TypeOK
    <2> QED BY <1>0, <1>1, <1>2, <2>1, QuitSound DEF poolVars
  <1>3. CASE CloseUnmapped(r) /\ Passed(r) /\ Post(r, "closeBarrier", TRUE)
    <2>1. Released(frame[r].cl)
      BY <1>0, <1>3 DEF Mine, Honest, Knows, Said, Passed, CloseUnmapped, At
    <2>2. "closeBarrier" \in Posting BY DEF Posting, CloseSteps
    <2> QED BY <1>0, <1>1, <1>3, <2>1, <2>2, SayingSound DEF Post
  <1>4. CASE CloseFreed(r) /\ Passed(r) /\ Post(r, "closeEnd", TRUE)
    <2>0. step[r] = "closeFree" BY <1>4 DEF CloseFreed, At
    <2>1. live \cap frame[r].cl = {}
      BY <1>0, <1>4, <2>0 DEF Mine, Honest, Knows, Said, Passed, CloseFreed, At
    <2>2. Released(frame[r].cl)
      BY <1>0, <2>0 DEF Mine, Closes
    <2>3. "closeEnd" \in Posting BY DEF Posting, CloseSteps
    <2> QED BY <1>0, <1>1, <1>4, <2>1, <2>2, <2>3, SayingSound DEF Post
  <1> QED BY <1>2, <1>3, <1>4 DEF CloseUnmapped, CloseFreed

(* The second half: the exports of what it closes. *)
LEMMA CloseFreesSound ==
    ASSUME TypeOK, IoOK, Local, NEW r \in Ranks, CloseFrees(r)
    PROVE  Sound(r)
  <1>0. Mine(r) /\ step[r] = "closeBarrier" /\ ~Working(r)
    BY DEF Local, CloseFrees, At, Working, SetupSteps, Phases
  <1>1. frame[r].cl = ToClose(r) /\ ~closed[r] /\ call \in {"rollback", "close"}
        /\ (\A s \in frame[r].cl : s \in Setups /\ s[1] = r) /\ Released(frame[r].cl)
    BY <1>0, ToCloseOwn DEF Mine, Closes, CloseSteps
  <1>2. UNCHANGED <<call, poolVars, ticket, calls, split>> BY DEF CloseFrees
  <1>3. CASE Leave(r) /\ UNCHANGED <<memVars, faults>>
    <2>1. captured \in [Ranks -> SUBSET Ids] BY DEF TypeOK
    <2> QED BY <1>0, <1>2, <1>3, <2>1, QuitSound DEF poolVars
  <1>4. CASE Free(frame[r].cl) /\ Post(r, "closeFree", live' \cap frame[r].cl = {})
             /\ UNCHANGED <<maps, native>>
    <2>1. /\ frame' = frame /\ Goto(r, "closeFree", live' \cap frame[r].cl = {})
          /\ "closeFree" \in Posting
      BY <1>4 DEF Post, Posting, CloseSteps
    <2>2. live' \subseteq live /\ \A x \in live \ live' : x \in frame[r].cl
      BY <1>4 DEF Free
    <2>3. TypeOK'
      <3>1. faults' \in 0..MaxFaults BY <1>4 DEF Free, Trouble, TypeOK
      <3> QED BY <1>2, <1>4, <2>1, <2>2, <3>1, PostedType DEF TypeOK, poolVars
    <2>4. \A x : (NotNative(x)' <=> NotNative(x)) /\ (NotMapping(x)' <=> NotMapping(x))
      BY <1>4 DEF NotNative, NotMapping
    <2>5. OnlyRank(r) /\ OnlyMemory(r)
      <3>1. OnlyRank(r) BY <1>2, <2>1, Posted DEF OnlyRank, poolVars
      <3>2. OnlyMemory(r) BY <1>1, <2>2, <2>4 DEF OnlyMemory
      <3> QED BY <3>1, <3>2
    <2>6. step'[r] = "closeFree" /\ ~Working(r)' /\ chans' = chans /\ ticket' = ticket
          /\ Said(r)' = (live' \cap frame[r].cl = {})
      BY <1>2, <2>1, Posted DEF Working, SetupSteps, Phases, poolVars
    <2>7. Named(r)'
      BY <1>0, <2>6 DEF Mine, Named
    <2>8. Kept(r)'
      BY <1>0, <2>2, <2>4, <2>6 DEF Mine, Kept, Owned
    <2>9. Progressed(r)'
      BY <1>0, <2>4, <2>6 DEF Mine, Progressed, SetupSteps, Phases
    <2>10. Closes(r)'
      <3>1. ToClose(r)' = ToClose(r) BY <1>2, <2>6 DEF ToClose, poolVars
      <3>2. Released(frame[r].cl)' BY <1>1, <2>1, <2>4 DEF Released
      <3> QED BY <1>0, <1>1, <1>2, <2>1, <2>6, <3>1, <3>2 DEF Mine, Closes, poolVars
    <2>11. Honest(r)'
      BY <2>1, <2>6 DEF Honest
    <2> QED BY <2>1, <2>3, <2>5, <2>7, <2>8, <2>9, <2>10, <2>11, PostedType DEF Sound, Mine
  <1> QED BY <1>3, <1>4 DEF CloseFrees

(* A rank that drops the channels it has closed. *)
LEMMA Dropping ==
    ASSUME TypeOK, NEW r \in Ranks, saved[r].len <= Len(chans[r]), Dropped(r),
           ticket' = ticket, call \in {"rollback", "close"}
    PROVE  LET k == IF call = "close" THEN 0 ELSE saved[r].len
           IN /\ k \in 0..Len(chans[r])
              /\ chans' \in [Ranks -> Seq([id : Ids, s : Setups])]
              /\ captured' \in [Ranks -> SUBSET Ids] /\ closed' \in [Ranks -> BOOLEAN]
              /\ Len(chans'[r]) = k /\ DOMAIN chans'[r] = 1..k
              /\ \A i \in 1..k : chans'[r][i] = chans[r][i]
              /\ closed'[r] = (closed[r] \/ call = "close")
              /\ \A q \in Ranks : q # r => chans'[q] = chans[q] /\ closed'[q] = closed[q]
              /\ \A s \in Owned(r) : s \in Owned(r)' \/ s \in ToClose(r)
  <1> DEFINE k == IF call = "close" THEN 0 ELSE saved[r].len
             R == [id : Ids, s : Setups]
  <1>1. saved[r].len \in Nat /\ saved[r].captured \in SUBSET Ids
        /\ chans \in [Ranks -> Seq(R)] /\ closed \in [Ranks -> BOOLEAN]
        /\ captured \in [Ranks -> SUBSET Ids]
    BY DEF TypeOK
  <1>2. Len(chans[r]) \in Nat /\ DOMAIN chans[r] = 1..Len(chans[r])
    BY Channels
  <1>3. k \in 0..Len(chans[r]) BY <1>1, <1>2
  <1>4. /\ captured' \in [Ranks -> SUBSET Ids] /\ closed' \in [Ranks -> BOOLEAN]
        /\ closed'[r] = (closed[r] \/ call = "close")
        /\ \A q \in Ranks : q # r => closed'[q] = closed[q]
    <2>1. CASE call = "close" BY <1>1, <2>1 DEF Dropped
    <2>2. CASE call # "close" BY <1>1, <2>2 DEF Dropped
    <2> QED BY <2>1, <2>2
  <1>5. /\ chans' = [chans EXCEPT ![r] = chans'[r]]
        /\ chans'[r] = IF call = "close" THEN << >> ELSE SubSeq(chans[r], 1, saved[r].len)
    BY <1>1 DEF Dropped
  <1> HIDE DEF R
  <1>6. /\ chans'[r] \in Seq(R) /\ Len(chans'[r]) = k /\ DOMAIN chans'[r] = 1..k
        /\ \A i \in 1..k : chans'[r][i] = chans[r][i]
    <2>1. CASE call = "close" BY <1>1, <1>5, <2>1
    <2>2. CASE call # "close" BY <1>1, <1>2, <1>3, <1>5, <2>2
    <2> QED BY <2>1, <2>2
  <1>7. chans' \in [Ranks -> Seq(R)] /\ \A q \in Ranks : q # r => chans'[q] = chans[q]
    BY <1>1, <1>5, <1>6
  <1>8. ASSUME NEW s \in Owned(r) PROVE s \in Owned(r)' \/ s \in ToClose(r)
    <2>1. CASE \E i \in DOMAIN chans[r] : s = chans[r][i].s
      <3>1. PICK i \in 1..Len(chans[r]) : s = chans[r][i].s BY <1>2, <2>1
      <3>2. CASE i <= k
        <4>1. i \in DOMAIN chans'[r] /\ chans'[r][i] = chans[r][i] BY <1>2, <1>3, <1>6, <3>2
        <4> QED BY <3>1, <4>1 DEF Owned
      <3>3. CASE i > k
        BY <1>1, <1>2, <3>1, <3>3 DEF ToClose
      <3> QED BY <1>2, <1>3, <3>2, <3>3
    <2>2. CASE ~(\E i \in DOMAIN chans[r] : s = chans[r][i].s)
      BY <1>8, <2>2 DEF Owned
    <2> QED BY <2>1, <2>2
  <1> QED BY <1>3, <1>4, <1>6, <1>7, <1>8 DEF R

(* The channels that are dropped hold nothing any more. *)
LEMMA DropSound ==
    ASSUME TypeOK, IoOK, Local, NEW r \in Ranks, ~Working(r), ~closed[r],
           call \in {"rollback", "close"}, Dropped(r), Leave(r),
           UNCHANGED <<call, saved, ticket, memVars, faults, calls, split>>,
           \A s \in ToClose(r) : s \notin live /\ NotNative(s) /\ NotMapping(s)
    PROVE  Sound(r)
  <1>0. Mine(r) /\ saved[r].len <= Len(chans[r]) BY DEF Local, Mine, Closes
  <1> DEFINE k == IF call = "close" THEN 0 ELSE saved[r].len
  <1>1. /\ k \in 0..Len(chans[r])
        /\ chans' \in [Ranks -> Seq([id : Ids, s : Setups])]
        /\ captured' \in [Ranks -> SUBSET Ids] /\ closed' \in [Ranks -> BOOLEAN]
        /\ Len(chans'[r]) = k /\ DOMAIN chans'[r] = 1..k
        /\ \A i \in 1..k : chans'[r][i] = chans[r][i]
        /\ closed'[r] = (closed[r] \/ call = "close")
        /\ \A q \in Ranks : q # r => chans'[q] = chans[q] /\ closed'[q] = closed[q]
        /\ \A s \in Owned(r) : s \in Owned(r)' \/ s \in ToClose(r)
    BY <1>0, Dropping
  <1>2. DOMAIN chans'[r] \subseteq DOMAIN chans[r] /\ ticket' = ticket /\ call' = call
    BY <1>1, Channels
  <1> HIDE DEF k
  <1>3. TypeOK' BY <1>1, LeftType DEF TypeOK, memVars
  <1>4. OnlyRank(r) /\ OnlyMemory(r)
    <2>1. OnlyRank(r) BY <1>1, Left DEF OnlyRank
    <2>2. OnlyMemory(r) BY DEF OnlyMemory, memVars, NotNative, NotMapping
    <2> QED BY <2>1, <2>2
  <1>5. step'[r] = "outside" /\ ~Working(r)' BY Left DEF Working, SetupSteps, Phases
  <1>6. Named(r)'
    BY <1>0, <1>1, <1>2, <1>5 DEF Mine, Named
  <1>7. Kept(r)'
    BY <1>0, <1>1, <1>5 DEF Mine, Kept, memVars, NotNative, NotMapping
  <1>8. Progressed(r)' /\ Closes(r)' /\ Honest(r)'
    <2>1. ~closed'[r] => saved'[r].len <= Len(chans'[r])
      <3>1. saved[r].len \in Nat BY DEF TypeOK
      <3> QED BY <1>1, <3>1 DEF k
    <2>2. Progressed(r)' BY <1>0, <1>5 DEF Mine, Progressed, memVars, SetupSteps, Phases, NotNative, NotMapping
    <2>3. Closes(r)' /\ Honest(r)'
      BY <1>5, <2>1, Left DEF Closes, Honest, CloseSteps, Knows
    <2> QED BY <2>2, <2>3
  <1> QED BY <1>3, <1>4, <1>6, <1>7, <1>8, LeftType DEF Sound, Mine

(* The end of a close: all have freed, or nothing is dropped. *)
LEMMA CloseEndsSound ==
    ASSUME TypeOK, IoOK, Local, NEW r \in Ranks, CloseEnds(r)
    PROVE  Sound(r)
  <1>0. Mine(r) /\ step[r] = "closeEnd" /\ ~Working(r)
    BY DEF Local, CloseEnds, At, Working, SetupSteps, Phases
  <1>1. frame[r].cl = ToClose(r) /\ ~closed[r] /\ call \in {"rollback", "close"}
        /\ Released(frame[r].cl) /\ live \cap frame[r].cl = {}
    BY <1>0 DEF Mine, Closes, CloseSteps
  <1>2. Leave(r) /\ UNCHANGED <<call, saved, ticket, memVars, faults, calls, split>> BY DEF CloseEnds
  <1>3. CASE Dropped(r)
    BY <1>0, <1>1, <1>2, <1>3, DropSound DEF Released
  <1>4. CASE UNCHANGED <<chans, captured, closed>>
    <2>1. captured \in [Ranks -> SUBSET Ids] BY DEF TypeOK
    <2> QED BY <1>0, <1>2, <1>4, <2>1, QuitSound
  <1> QED BY <1>3, <1>4 DEF CloseEnds

(* A rank that begins a call with an exchange. *)
LEMMA BeginSound ==
    ASSUME TypeOK, IoOK, Local, NEW r \in Ranks, NEW st \in {"validate", "capture", "sync"}, NEW v,
           Goto(r, st, v), frame' \in [Ranks -> Frames],
           \A q \in Ranks : q # r => frame'[q] = frame[q],
           UNCHANGED <<call, poolVars, ticket, memVars, faults, calls, split>>,
           step[r] = "entering",
           st = "capture" => frame'[r].id \in Ids,
           st = "sync" => /\ ~closed[r] /\ call \in {"rollback", "close"}
                          /\ frame'[r].cl = ToClose(r)
    PROVE  Sound(r)
  <1>0. Mine(r) BY DEF Local
  <1>1. st \in Posting BY DEF Posting, CloseSteps
  <1>2. TypeOK' BY <1>1, PostedType DEF TypeOK, poolVars, memVars
  <1>3. /\ chans' = chans /\ saved' = saved /\ closed' = closed /\ ticket' = ticket /\ call' = call
        /\ UNCHANGED memVars /\ frame' \in [Ranks -> Frames]
    BY DEF poolVars
  <1>4. /\ step'[r] = st /\ \A q \in Ranks : q # r => step'[q] = step[q] /\ io'[q] = io[q] /\ frame'[q] = frame[q]
    BY Posted
  <1>5. OnlyRank(r) /\ OnlyMemory(r)
    BY <1>3, <1>4 DEF OnlyRank, OnlyMemory, memVars, NotNative, NotMapping
  <1>6. ~Working(r)' /\ ~Working(r)
    BY <1>4 DEF Working, SetupSteps, Phases
  <1>7. Named(r)' /\ Kept(r)'
    BY <1>0, <1>3, <1>6 DEF Mine, Named, Kept, Owned, memVars, NotNative, NotMapping
  <1>8. Progressed(r)'
    BY <1>0, <1>3, <1>4 DEF Mine, Progressed, SetupSteps, Phases, memVars, NotNative, NotMapping
  <1>9. Closes(r)'
    <2>1. ToClose(r)' = ToClose(r) BY <1>3 DEF ToClose
    <2> QED BY <1>0, <1>3, <1>4, <2>1 DEF Mine, Closes, CloseSteps
  <1>10. Honest(r)'
    BY <1>4 DEF Honest
  <1> QED BY <1>1, <1>2, <1>5, <1>7, <1>8, <1>9, <1>10, PostedType DEF Sound, Mine

(* The calls that set channels up, or remember where they are. *)
LEMMA EnterSound ==
    ASSUME TypeOK, IoOK, Local, NEW r \in Ranks, Enter(r)
    PROVE  Sound(r)
  <1>0. Mine(r) /\ step[r] = "entering" /\ ~Working(r) BY DEF Local, Enter, Working, SetupSteps, Phases
  <1>1. UNCHANGED <<call, calls, split>> BY DEF Enter
  <1>2. captured \in [Ranks -> SUBSET Ids] /\ frame \in [Ranks -> Frames] BY DEF TypeOK
  <1>3. CASE EnterPrepare(r)
    <2>1. PICK ids \in SUBSET Ids : frame' = [frame EXCEPT ![r].todo = ids]
      BY <1>3 DEF EnterPrepare
    <2>2. frame' \in [Ranks -> Frames] /\ \A q \in Ranks : q # r => frame'[q] = frame[q]
      BY <1>2, <2>1 DEF Frames
    <2>3. "validate" \in {"validate", "capture", "sync"} OBVIOUS
    <2> QED BY <1>0, <1>1, <1>3, <2>2, <2>3, BeginSound DEF EnterPrepare
  <1>4. CASE EnterCapture(r)
    <2>1. PICK id \in Ids : frame' = [frame EXCEPT ![r].id = id] /\ Goto(r, "capture", id \notin captured[r])
      BY <1>4 DEF EnterCapture
    <2>2. /\ frame' \in [Ranks -> Frames] /\ \A q \in Ranks : q # r => frame'[q] = frame[q]
          /\ frame'[r].id = id
      BY <1>2, <2>1 DEF Frames
    <2>3. "capture" \in {"validate", "capture", "sync"} OBVIOUS
    <2> QED BY <1>0, <1>1, <1>4, <2>1, <2>2, <2>3, BeginSound DEF EnterCapture
  <1>5. CASE EnterCheckpoint(r)
    <2>1. /\ Leave(r) /\ UNCHANGED <<chans, captured, closed, ticket, memVars, faults>>
          /\ saved' = IF closed[r] THEN saved
                      ELSE [saved EXCEPT ![r] = [len |-> Len(chans[r]), captured |-> captured[r]]]
      BY <1>5 DEF EnterCheckpoint
    <2>2. /\ saved' \in [Ranks -> [len : Nat, captured : SUBSET Ids]]
          /\ \A q \in Ranks : q # r => saved'[q] = saved[q]
          /\ ~closed[r] => saved'[r].len = Len(chans[r])
      <3>1. Len(chans[r]) \in Nat BY Channels
      <3>2. saved \in [Ranks -> [len : Nat, captured : SUBSET Ids]] BY DEF TypeOK
      <3> QED BY <1>2, <2>1, <3>1, <3>2
    <2>3. TypeOK' BY <1>1, <2>1, <2>2, LeftType DEF TypeOK, memVars
    <2>4. OnlyRank(r) /\ OnlyMemory(r)
      BY <1>1, <2>1, <2>2, Left DEF OnlyRank, OnlyMemory, memVars, NotNative, NotMapping
    <2>5. step'[r] = "outside" /\ ~Working(r)' /\ ~Knows(r)'
      BY <2>1, Left DEF Working, SetupSteps, Phases, Knows
    <2>6. Named(r)' /\ Kept(r)'
      BY <1>0, <2>1, <2>5 DEF Mine, Named, Kept, Owned, memVars, NotNative, NotMapping
    <2>7. Progressed(r)'
      BY <1>0, <2>1, <2>5 DEF Mine, Progressed, SetupSteps, Phases, memVars, NotNative, NotMapping
    <2>8. Closes(r)' /\ Honest(r)'
      <3>1. Len(chans[r]) \in Nat BY Channels
      <3> QED BY <2>1, <2>2, <2>5, <3>1 DEF Closes, Honest, CloseSteps
    <2> QED BY <2>1, <2>3, <2>4, <2>6, <2>7, <2>8, LeftType DEF Sound, Mine
  <1>6. CASE EnterClose(r)
    <2>1. CASE closed[r]
      BY <1>0, <1>1, <1>2, <1>6, <2>1, QuitSound DEF EnterClose, Quit, poolVars
    <2>2. CASE ~closed[r] /\ ToClose(r) = {}
      BY <1>0, <1>1, <1>6, <2>2, DropSound DEF EnterClose
    <2>3. CASE ~closed[r] /\ ToClose(r) # {}
      <3>1. /\ Goto(r, "sync", TRUE) /\ frame' = [frame EXCEPT ![r].cl = ToClose(r)]
            /\ UNCHANGED <<poolVars, ticket, memVars, faults>> /\ call \in {"rollback", "close"}
        BY <1>6, <2>3 DEF EnterClose
      <3>2. ToClose(r) \subseteq Setups BY <1>0, ToCloseOwn DEF Mine
      <3>3. /\ frame' \in [Ranks -> Frames] /\ \A q \in Ranks : q # r => frame'[q] = frame[q]
            /\ frame'[r].cl = ToClose(r)
        BY <1>2, <3>1, <3>2 DEF Frames
      <3>4. "sync" \in {"validate", "capture", "sync"} OBVIOUS
      <3> QED BY <1>0, <1>1, <2>3, <3>1, <3>3, <3>4, BeginSound
    <2> QED BY <2>1, <2>2, <2>3
  <1>7. CASE EnterRetry(r)
    <2>1. CASE ticket[r] = None
      BY <1>0, <1>1, <1>2, <1>7, <2>1, QuitSound DEF EnterRetry, Quit, poolVars
    <2>2. CASE ticket[r] # None
      <3>1. /\ Undo(r, ticket[r].s, ticket[r].phase)
            /\ frame' = [frame EXCEPT ![r].s = ticket[r].s]
            /\ UNCHANGED <<poolVars, ticket>>
        BY <1>7, <2>2 DEF EnterRetry
      <3>2. ticket[r].s \in Setups /\ ticket[r].phase \in Phases /\ ticket[r].s[1] = r
        BY <1>0, <2>2 DEF TypeOK, Tickets, Mine, Named
      <3>3. /\ frame' \in [Ranks -> Frames] /\ \A q \in Ranks : q # r => frame'[q] = frame[q]
            /\ frame'[r].s = ticket[r].s
        BY <1>2, <3>1, <3>2 DEF Frames
      <3>4. /\ ticket[r].phase \in {"unmap", "free"} => NotNative(ticket[r].s)
            /\ ticket[r].phase = "free" => NotMapping(ticket[r].s)
        BY <1>0, <2>2 DEF Mine, Progressed
      <3> QED BY <1>0, <1>1, <2>2, <3>1, <3>2, <3>3, <3>4, UndoSound
    <2> QED BY <2>1, <2>2
  <1> QED BY <1>3, <1>4, <1>5, <1>6, <1>7 DEF Enter

(* Every step of a rank. *)
LEMMA StepSound ==
    ASSUME TypeOK, IoOK, Local, Given, NEW r \in Ranks, Step(r)
    PROVE  Sound(r)
  <1>1. CASE Enter(r) BY <1>1, EnterSound
  <1>2. CASE SetUp(r)
    <2>1. HandlesGot(r) /\ Heard(r) => \A q \in Ranks : io[r][2][q] \in Setups
      BY DEF Given, HandlesGot, At
    <2> QED BY <1>2, <2>1, ValidatedSound, AgreedSound, GatedSound, ExportedSound, HandlesGotSound,
            ImportedSound, InitializedSound, RequestedSound DEF SetUp
  <1>3. CASE Undone(r) BY <1>3, UndoneSound
  <1>4. CASE Close(r)
    BY <1>4, CloseSyncedSound, CloseSaysSound, CloseFreesSound, CloseEndsSound DEF Close
  <1> QED BY <1>1, <1>2, <1>3, <1>4 DEF Step

(* A step of one rank keeps what every rank knows of itself. *)
LEMMA StepLocal ==
    ASSUME TypeOK, IoOK, Local, Given, NEW r \in Ranks, Step(r)
    PROVE  TypeOK' /\ IoOK' /\ Local'
  <1>1. Sound(r) BY StepSound
  <1>2. \A q \in Ranks : q # r => Mine(q)'
    BY <1>1, OthersMine DEF Sound, Local
  <1> QED BY <1>1, <1>2 DEF Sound, Local

-----------------------------------------------------------------------------
(* A local step takes a rank where it was about to go, and nowhere else. *)
Done(r) ==
    /\ ~Acts(r)' /\ ~Heard(r)'
    /\ step'[r] = SoonStep(r)
    /\ Len(chans'[r]) = SoonLen(r)
    /\ \A i \in 1..SoonLen(r) : <<chans'[r][i].id, chans'[r][i].s[2]>> = SoonChan(r, i)
    /\ closed'[r] = SoonClosed(r)
    /\ (IF ticket'[r] = None THEN <<0, None>> ELSE <<ticket'[r].s[2], ticket'[r].phase>>) = SoonTicket(r)
    /\ saved'[r].len = SoonSaved(r)
    /\ step'[r] \in SetupSteps \cup Phases => frame'[r].s[2] = SoonNumber(r)
    /\ step'[r] \in {"gate"} \cup SetupSteps => frame'[r].todo = SoonTodo(r)

(* A step that leaves the pool and the ticket alone. *)
LEMMA StillDone ==
    ASSUME TypeOK, NEW r \in Ranks, Acts(r), ~Acts(r)', ~Heard(r)', step'[r] = SoonStep(r),
           ~Adopts(r), ~Drops(r), ~Retains(r), step[r] # "free",
           ~(step[r] = "entering" /\ call = "checkpoint"),
           chans'[r] = chans[r], closed'[r] = closed[r], saved'[r] = saved[r], ticket'[r] = ticket[r],
           step'[r] \in SetupSteps \cup Phases => frame'[r].s[2] = SoonNumber(r),
           step'[r] \in {"gate"} \cup SetupSteps => frame'[r].todo = SoonTodo(r)
    PROVE  Done(r)
  <1>1. SoonLen(r) = Len(chans[r]) /\ Len(chans[r]) \in Nat
    BY Channels DEF SoonLen
  <1>2. \A i \in 1..SoonLen(r) : <<chans'[r][i].id, chans'[r][i].s[2]>> = SoonChan(r, i)
    BY <1>1 DEF SoonChan
  <1>3. closed'[r] = SoonClosed(r)
    BY DEF SoonClosed, TypeOK
  <1>4. SoonTicket(r) = (IF ticket'[r] = None THEN <<0, None>> ELSE <<ticket'[r].s[2], ticket'[r].phase>>)
    BY DEF SoonTicket
  <1>5. SoonSaved(r) = saved[r].len BY DEF SoonSaved
  <1> QED BY <1>1, <1>2, <1>3, <1>4, <1>5 DEF Done

(* A rank that goes on to an exchange so. *)
LEMMA MovedDone ==
    ASSUME TypeOK, IoOK, NEW r \in Ranks, NEW st \in Posting, NEW v, Goto(r, st, v),
           Acts(r), SoonStep(r) = st,
           ~Adopts(r), ~Drops(r), ~Retains(r), step[r] # "free",
           ~(step[r] = "entering" /\ call = "checkpoint"),
           chans'[r] = chans[r], closed'[r] = closed[r], saved'[r] = saved[r], ticket'[r] = ticket[r],
           st \in SetupSteps \cup Phases => frame'[r].s[2] = SoonNumber(r),
           st \in {"gate"} \cup SetupSteps => frame'[r].todo = SoonTodo(r)
    PROVE  Done(r)
  <1>1. step'[r] = st /\ ~Acts(r)' /\ ~Heard(r)'
    BY Posted DEF Acts
  <1> QED BY <1>1, StillDone

(* A rank that leaves its call so. *)
LEMMA LeftDone ==
    ASSUME TypeOK, IoOK, NEW r \in Ranks, Leave(r), Acts(r), SoonStep(r) = "outside",
           ~Adopts(r), ~Drops(r), ~Retains(r), step[r] # "free",
           ~(step[r] = "entering" /\ call = "checkpoint"),
           chans'[r] = chans[r], closed'[r] = closed[r], saved'[r] = saved[r], ticket'[r] = ticket[r]
    PROVE  Done(r)
  <1>1. "outside" \notin {"gate"} \cup SetupSteps \cup Phases BY DEF SetupSteps, Phases
  <1>2. step'[r] = "outside" /\ ~Acts(r)' /\ ~Heard(r)'
    BY Left DEF Acts
  <1> QED BY <1>1, <1>2, StillDone

(* What a rank that acts on an exchange has heard of it. *)
LEMMA Acting ==
    ASSUME IoOK, NEW r \in Ranks, step[r] \in Posting, ~Waits(r)
    PROVE  Acts(r) /\ (Heard(r) \/ Raised(r)) /\ ~(Heard(r) /\ Raised(r))
           /\ (Heard(r) => Passed(r) \/ Failed(r)) /\ ~(Passed(r) /\ Failed(r))
  BY DEF IoOK, Posting, Acts, Waits, Heard, Raised, Passed, Failed, SetupSteps, CloseSteps, Phases

(* Up to the setup of the next channel. *)
LEMMA BeforeDone ==
    ASSUME TypeOK, IoOK, Local, NEW r \in Ranks,
           Validated(r) \/ Agreed(r) \/ CaptureValidated(r) \/ Requested(r)
    PROVE  Done(r)
  <1>0. /\ step[r] \in {"validate", "contract", "capture", "request"} /\ step[r] \in Posting
        /\ ~Waits(r) /\ call' = call
    BY DEF Validated, Agreed, CaptureValidated, Requested, At, Posting
  <1>1. Acts(r) /\ ~Adopts(r) /\ ~Drops(r) /\ ~Retains(r)
    BY <1>0, Acting DEF Adopts, Drops, Retains, Phases
  <1>2. {"contract", "gate", "request", "validate"} \subseteq Posting
        /\ \A st \in {"contract", "gate", "request", "validate", "outside"} : st \notin SetupSteps \cup Phases
    BY DEF Posting, SetupSteps, Phases
  <1>3. frame \in [Ranks -> Frames] BY DEF TypeOK
  <1>4. CASE Validated(r)
    <2>0. step[r] = "validate" BY <1>4 DEF Validated, At
    <2>1. CASE Passed(r)
      <3>1. SoonStep(r) = "contract" BY <1>1, <2>0, <2>1 DEF SoonStep
      <3> QED BY <1>0, <1>1, <1>2, <1>4, <2>0, <2>1, <3>1, MovedDone DEF Validated, Post, poolVars
    <2>2. CASE ~Passed(r)
      <3>1. SoonStep(r) = "outside" BY <1>1, <2>0, <2>2 DEF SoonStep
      <3> QED BY <1>0, <1>1, <1>2, <1>4, <2>0, <2>2, <3>1, LeftDone DEF Validated, Quit, poolVars
    <2> QED BY <2>1, <2>2
  <1>5. CASE CaptureValidated(r)
    <2>0. step[r] = "capture" BY <1>5 DEF CaptureValidated, At
    <2>1. CASE Passed(r)
      <3>1. SoonStep(r) = "request" BY <1>1, <2>0, <2>1 DEF SoonStep
      <3> QED BY <1>0, <1>1, <1>2, <1>5, <2>0, <2>1, <3>1, MovedDone DEF CaptureValidated, Post, poolVars
    <2>2. CASE ~Passed(r)
      <3>1. SoonStep(r) = "outside" BY <1>1, <2>0, <2>2 DEF SoonStep
      <3> QED BY <1>0, <1>1, <1>2, <1>5, <2>0, <2>2, <3>1, LeftDone DEF CaptureValidated, Quit, poolVars
    <2> QED BY <2>1, <2>2
  <1>6. CASE Agreed(r)
    <2>0. step[r] = "contract" BY <1>6 DEF Agreed, At
    <2>1. CASE Same(r) /\ Remaining(r, frame[r].todo) # {}
      <3>1. SoonStep(r) = "gate" BY <1>1, <2>0, <2>1 DEF SoonStep
      <3>2. /\ Goto(r, "gate", ticket[r] = None)
            /\ frame' = [frame EXCEPT ![r].todo = Remaining(r, frame[r].todo), ![r].s = None]
            /\ UNCHANGED <<chans, saved, closed, ticket>>
        BY <1>6, <2>1 DEF Agreed, Gate, Same
      <3>3. frame'[r].todo = SoonTodo(r) BY <1>1, <1>3, <2>0, <3>2 DEF SoonTodo
      <3> QED BY <1>0, <1>1, <1>2, <2>0, <3>1, <3>2, <3>3, MovedDone
    <2>2. CASE Same(r) /\ Remaining(r, frame[r].todo) = {}
      <3>1. SoonStep(r) = "outside" BY <1>1, <2>0, <2>2 DEF SoonStep
      <3>2. Leave(r) /\ UNCHANGED <<chans, saved, closed, ticket>>
        BY <1>6, <2>2 DEF Agreed, Gate, Same
      <3> QED BY <1>0, <1>1, <1>2, <2>0, <3>1, <3>2, LeftDone
    <2>3. CASE ~Same(r)
      <3>1. SoonStep(r) = "outside" BY <1>1, <2>0, <2>3 DEF SoonStep
      <3>2. Leave(r) /\ UNCHANGED <<chans, saved, closed, ticket>>
        BY <1>6, <2>3 DEF Agreed, Quit, Same, poolVars
      <3> QED BY <1>0, <1>1, <1>2, <2>0, <3>1, <3>2, LeftDone
    <2> QED BY <2>1, <2>2, <2>3
  <1>7. CASE Requested(r)
    <2>0. step[r] = "request" BY <1>7 DEF Requested, At
    <2>1. CASE Fresh(r)
      <3>1. SoonStep(r) = "validate" BY <1>1, <2>0, <2>1 DEF SoonStep
      <3>2. Goto(r, "validate", ~closed[r]) /\ UNCHANGED <<poolVars, ticket>>
        BY <1>7, <2>1 DEF Requested, Fresh
      <3> QED BY <1>0, <1>1, <1>2, <2>0, <3>1, <3>2, MovedDone DEF poolVars
    <2>2. CASE ~Fresh(r)
      <3>1. SoonStep(r) = "outside" BY <1>1, <2>0, <2>2 DEF SoonStep
      <3>2. Leave(r) /\ UNCHANGED <<chans, saved, closed, ticket>>
        BY <1>7, <2>2 DEF Requested, Fresh, Gate, Quit, poolVars
      <3> QED BY <1>0, <1>1, <1>2, <2>0, <3>1, <3>2, LeftDone
    <2> QED BY <2>1, <2>2
  <1> QED BY <1>4, <1>5, <1>6, <1>7

(* A rank that keeps a ticket. *)
LEMMA RetainDone ==
    ASSUME TypeOK, IoOK, NEW r \in Ranks, NEW phase \in Phases, Retain(r, phase),
           UNCHANGED <<call, poolVars, calls, split>>,
           frame[r].s \in Setups, Retains(r), SoonStep(r) = "outside",
           phase = IF step[r] \in Phases THEN step[r] ELSE IF step[r] = "init" THEN "native" ELSE "unmap"
    PROVE  Done(r)
  <1>1. Acts(r) /\ step[r] \notin {"entering", "closeEnd"} /\ ~Drops(r) /\ ~Adopts(r)
    BY Acting DEF Retains, Drops, Adopts, Phases, Passed
  <1>2. Leave(r) /\ ticket' = [ticket EXCEPT ![r] = [s |-> frame[r].s, phase |-> phase]]
    BY DEF Retain
  <1>3. ticket'[r] = [s |-> frame[r].s, phase |-> phase] /\ ticket'[r] # None
    BY <1>2 DEF TypeOK, Tickets
  <1>4. /\ step'[r] = "outside" /\ ~Acts(r)' /\ ~Heard(r)'
        /\ "outside" \notin {"gate"} \cup SetupSteps \cup Phases
    BY <1>2, Left DEF Acts, SetupSteps, Phases
  <1>5. SoonTicket(r) = <<frame[r].s[2], phase>>
    BY DEF SoonTicket, Phases
  <1>6. /\ SoonLen(r) = Len(chans[r]) /\ Len(chans[r]) \in Nat /\ chans' = chans
        /\ SoonClosed(r) = closed[r] /\ closed' = closed /\ SoonSaved(r) = saved[r].len /\ saved' = saved
    BY <1>1, Channels DEF SoonLen, SoonClosed, SoonSaved, poolVars, TypeOK
  <1>7. \A i \in 1..SoonLen(r) : <<chans'[r][i].id, chans'[r][i].s[2]>> = SoonChan(r, i)
    BY <1>6 DEF SoonChan
  <1> QED BY <1>3, <1>4, <1>5, <1>6, <1>7 DEF Done

(* A rank that undoes a phase. *)
LEMMA UndoDone ==
    ASSUME TypeOK, IoOK, NEW r \in Ranks, NEW s \in Setups, NEW phase \in Phases, Undo(r, s, phase),
           UNCHANGED <<call, poolVars, ticket, calls, split>>,
           Acts(r), SoonStep(r) = phase, frame'[r].s = s, s[2] = SoonNumber(r),
           ~Adopts(r), ~Drops(r), ~Retains(r), step[r] # "free",
           ~(step[r] = "entering" /\ call = "checkpoint")
    PROVE  Done(r)
  <1>1. PICK v : Goto(r, phase, v) BY Undoing
  <1>2. phase \in Posting /\ phase \notin {"gate"} \cup SetupSteps BY DEF Posting, Phases, SetupSteps
  <1>3. chans' = chans /\ closed' = closed /\ saved' = saved /\ ticket' = ticket BY DEF poolVars
  <1> QED BY <1>1, <1>2, <1>3, MovedDone

(* A setup, up to its last exchange. *)
LEMMA SetupDone ==
    ASSUME TypeOK, IoOK, Local, NEW r \in Ranks,
           Gated(r) \/ Exported(r) \/ HandlesGot(r) \/ Imported(r)
    PROVE  Done(r)
  <1>0. /\ step[r] \in {"gate", "export", "handles", "import"} /\ step[r] \in Posting
        /\ ~Waits(r) /\ Mine(r)
    BY DEF Gated, Exported, HandlesGot, Imported, At, Posting, SetupSteps, Local
  <1>1. /\ Acts(r) /\ ~Adopts(r) /\ ~Drops(r)
        /\ Retains(r) <=> step[r] # "gate" /\ ~Heard(r)
    BY <1>0, Acting DEF Adopts, Drops, Retains, Phases
  <1>a. /\ Heard(r) \/ Raised(r)
        /\ ~(Heard(r) /\ Raised(r))
        /\ Heard(r) => Passed(r) \/ Failed(r)
        /\ ~(Passed(r) /\ Failed(r))
        /\ (Passed(r) \/ Failed(r) => Heard(r))
    BY <1>0, Acting DEF Passed, Failed
  <1>2. /\ {"export", "handles", "import", "init"} \subseteq Posting \cap SetupSteps
        /\ {"free", "unmap"} \subseteq Phases
    BY DEF Posting, SetupSteps, Phases
  <1>3. frame \in [Ranks -> Frames] BY DEF TypeOK
  <1>4. /\ SoonTodo(r) = frame[r].todo /\ (step[r] # "gate" => SoonNumber(r) = frame[r].s[2])
    BY <1>0 DEF SoonTodo, SoonNumber
  <1>5. step[r] # "gate" => frame[r].s \in Setups
    BY <1>0 DEF Mine, Named, Working, SetupSteps
  <1>6. CASE Gated(r)
    <2>0. step[r] = "gate" BY <1>6 DEF Gated, At
    <2>1. CASE ~Passed(r)
      <3>1. SoonStep(r) = "outside" BY <1>1, <1>a, <2>0, <2>1 DEF SoonStep
      <3> QED BY <1>0, <1>1, <1>6, <2>0, <2>1, <3>1, LeftDone DEF Gated, Quit, poolVars
    <2>2. CASE Passed(r)
      <3> DEFINE s == CHOOSE x \in Unused(r) : \A y \in Unused(r) : x[2] <= y[2]
      <3>1. ticket[r] = None
        BY <1>0, <2>0, <2>2 DEF Mine, Honest, Passed, Knows, Said
      <3>2. s = <<r, Min(Numbers \ Taken(r))>>
        <4>1. ~Working(r) BY <2>0 DEF Working, SetupSteps, Phases
        <4> HIDE DEF s
        <4> QED BY <1>0, <3>1, <4>1, Allocated DEF Mine, s
      <3>3. PICK made \in {"yes", "half", "no"} :
              /\ Goto(r, "export", made = "yes") /\ frame' = [frame EXCEPT ![r].s = s]
              /\ UNCHANGED <<poolVars, ticket>>
        BY <1>6, <2>2 DEF Gated, Export
      <3> HIDE DEF s
      <3>4. frame'[r].s[2] = SoonNumber(r) /\ frame'[r].todo = frame[r].todo
        BY <1>1, <1>3, <2>0, <3>2, <3>3 DEF SoonNumber, Frames
      <3>5. SoonStep(r) = "export" BY <1>1, <2>0, <2>2 DEF SoonStep
      <3>6. chans' = chans /\ closed' = closed /\ saved' = saved /\ ticket' = ticket BY <3>3 DEF poolVars
      <3> QED BY <1>0, <1>1, <1>2, <1>4, <2>0, <3>3, <3>4, <3>5, <3>6, MovedDone
    <2> QED BY <2>1, <2>2
  <1>7. CASE Exported(r)
    <2>0. step[r] = "export" /\ UNCHANGED <<call, poolVars, calls, split>> BY <1>7 DEF Exported, At
    <2>1. CASE Passed(r)
      <3>1. SoonStep(r) = "handles" BY <1>1, <1>a, <2>0, <2>1 DEF SoonStep
      <3>2. /\ Goto(r, "handles", frame[r].s) /\ frame' = frame
            /\ chans' = chans /\ closed' = closed /\ saved' = saved /\ ticket' = ticket
        BY <1>a, <1>7, <2>0, <2>1 DEF Exported, Post, poolVars
      <3> QED BY <1>0, <1>1, <1>2, <1>4, <2>0, <2>1, <3>1, <3>2, MovedDone DEF Passed
    <2>2. CASE Failed(r)
      <3>1. SoonStep(r) = "free" BY <1>1, <1>a, <2>0, <2>2 DEF SoonStep
      <3>2. Undo(r, frame[r].s, "free") /\ UNCHANGED <<frame, ticket>>
        BY <1>a, <1>7, <2>2 DEF Exported
      <3> QED BY <1>1, <1>2, <1>4, <1>5, <2>0, <2>2, <3>1, <3>2, UndoDone DEF Failed
    <2>3. CASE ~Heard(r)
      <3>1. SoonStep(r) = "outside" BY <1>1, <2>0, <2>3 DEF SoonStep, Passed, Failed
      <3>2. Retain(r, "unmap") BY <1>7, <2>3 DEF Exported, Passed, Failed
      <3>3. step[r] \notin Phases BY <2>0 DEF Phases
      <3> QED BY <1>1, <1>2, <1>5, <2>0, <2>3, <3>1, <3>2, <3>3, RetainDone
    <2> QED BY <1>a, <2>1, <2>2, <2>3
  <1>8. CASE HandlesGot(r)
    <2>0. step[r] = "handles" /\ UNCHANGED <<call, poolVars, calls, split>> BY <1>8 DEF HandlesGot, At
    <2>1. CASE Heard(r)
      <3>1. SoonStep(r) = "import" BY <1>1, <1>a, <2>0, <2>1 DEF SoonStep
      <3>2. PICK v : /\ Goto(r, "import", v) /\ frame' = frame
                     /\ chans' = chans /\ closed' = closed /\ saved' = saved /\ ticket' = ticket
        BY <1>a, <1>8, <2>0, <2>1 DEF HandlesGot, Post, poolVars
      <3> QED BY <1>0, <1>1, <1>2, <1>4, <2>0, <2>1, <3>1, <3>2, MovedDone
    <2>2. CASE ~Heard(r)
      <3>1. SoonStep(r) = "outside" BY <1>1, <2>0, <2>2 DEF SoonStep
      <3>2. Retain(r, "unmap") BY <1>8, <2>2 DEF HandlesGot
      <3>3. step[r] \notin Phases BY <2>0 DEF Phases
      <3> QED BY <1>1, <1>2, <1>5, <2>0, <2>2, <3>1, <3>2, <3>3, RetainDone
    <2> QED BY <2>1, <2>2
  <1>9. CASE Imported(r)
    <2>0. step[r] = "import" /\ UNCHANGED <<call, poolVars, calls, split>> BY <1>9 DEF Imported, At
    <2>1. CASE Passed(r)
      <3>1. SoonStep(r) = "init" BY <1>1, <1>a, <2>0, <2>1 DEF SoonStep
      <3>2. PICK v : /\ Goto(r, "init", v) /\ frame' = frame
                     /\ chans' = chans /\ closed' = closed /\ saved' = saved /\ ticket' = ticket
        BY <1>a, <1>9, <2>0, <2>1 DEF Imported, Post, poolVars
      <3> QED BY <1>0, <1>1, <1>2, <1>4, <2>0, <2>1, <3>1, <3>2, MovedDone DEF Passed
    <2>2. CASE Failed(r)
      <3>1. SoonStep(r) = "unmap" BY <1>1, <1>a, <2>0, <2>2 DEF SoonStep
      <3>2. Undo(r, frame[r].s, "unmap") /\ UNCHANGED <<frame, ticket>>
        BY <1>a, <1>9, <2>2 DEF Imported
      <3> QED BY <1>1, <1>2, <1>4, <1>5, <2>0, <2>2, <3>1, <3>2, UndoDone DEF Failed
    <2>3. CASE ~Heard(r)
      <3>1. SoonStep(r) = "outside" BY <1>1, <2>0, <2>3 DEF SoonStep, Passed, Failed
      <3>2. Retain(r, "unmap") BY <1>9, <2>3 DEF Imported, Passed, Failed
      <3>3. step[r] \notin Phases BY <2>0 DEF Phases
      <3> QED BY <1>1, <1>2, <1>5, <2>0, <2>3, <3>1, <3>2, <3>3, RetainDone
    <2> QED BY <1>a, <2>1, <2>2, <2>3
  <1> QED BY <1>6, <1>7, <1>8, <1>9

(* A channel more, and the gate of the next one or the end of the call. *)
LEMMA AdoptDone ==
    ASSUME TypeOK, IoOK, NEW r \in Ranks, Adopt(r), Adopts(r), frame[r].todo # {}
    PROVE  Done(r)
  <1> DEFINE n == Len(chans[r])
             id == Min(frame[r].todo)
             new == [id |-> id, s |-> frame[r].s]
             rest == frame[r].todo \ {id}
  <1> HIDE DEF id
  <1>1. step[r] = "init" /\ Acts(r) /\ Passed(r) /\ Heard(r) /\ ~Drops(r) /\ ~Retains(r)
    BY DEF Adopts, Drops, Retains, Passed, Phases
  <1>2. /\ chans' = [chans EXCEPT ![r] = Append(@, new)] /\ Gate(r, rest)
        /\ UNCHANGED <<ticket, saved, closed>>
    BY DEF Adopt, id
  <1>3. /\ n \in Nat /\ DOMAIN chans[r] = 1..n /\ chans[r] \in Seq([id : Ids, s : Setups])
        /\ new.id = id /\ new.s = frame[r].s
    BY Channels
  <1> HIDE DEF new
  <1>4. chans'[r] = Append(chans[r], new) BY <1>2 DEF TypeOK
  <1> HIDE DEF n
  <1>5. /\ Len(chans'[r]) = n + 1 /\ \A i \in 1..n : chans'[r][i] = chans[r][i]
        /\ chans'[r][n + 1] = new
    BY <1>3, <1>4 DEF n
  <1>6. SoonLen(r) = n + 1 BY DEF SoonLen, n
  <1>7. \A i \in 1..SoonLen(r) : <<chans'[r][i].id, chans'[r][i].s[2]>> = SoonChan(r, i)
    <2> SUFFICES ASSUME NEW i \in 1..(n + 1) PROVE <<chans'[r][i].id, chans'[r][i].s[2]>> = SoonChan(r, i)
      BY <1>6
    <2>1. CASE i \in 1..n
      BY <1>3, <1>5, <2>1 DEF SoonChan, n
    <2>2. CASE i = n + 1
      <3>1. ~(i <= Len(chans[r])) BY <1>3, <2>2 DEF n
      <3> QED BY <1>3, <1>5, <2>2, <3>1 DEF SoonChan, id
    <2> QED BY <1>3, <2>1, <2>2
  <1>8. closed'[r] = SoonClosed(r) /\ saved'[r].len = SoonSaved(r)
    BY <1>1, <1>2 DEF SoonClosed, SoonSaved, TypeOK
  <1>9. (IF ticket'[r] = None THEN <<0, None>> ELSE <<ticket'[r].s[2], ticket'[r].phase>>) = SoonTicket(r)
    BY <1>1, <1>2 DEF SoonTicket
  <1>10. /\ step'[r] = SoonStep(r) /\ ~Acts(r)' /\ ~Heard(r)'
         /\ step'[r] \notin SetupSteps \cup Phases
         /\ step'[r] \in {"gate"} \cup SetupSteps => frame'[r].todo = SoonTodo(r)
    <2>1. CASE rest = {}
      <3>1. Leave(r) BY <1>2, <2>1 DEF Gate
      <3>2. frame[r].todo = {Min(frame[r].todo)} BY <2>1 DEF id
      <3>3. SoonStep(r) = "outside" BY <1>1, <3>2 DEF SoonStep, Failed, Passed
      <3> QED BY <3>1, <3>3, Left DEF Acts, SetupSteps, Phases
    <2>2. CASE rest # {}
      <3>1. /\ Goto(r, "gate", ticket[r] = None)
            /\ frame' = [frame EXCEPT ![r].todo = rest, ![r].s = None]
        BY <1>2, <2>2 DEF Gate
      <3>2. frame'[r].todo = rest
        <4>1. frame \in [Ranks -> Frames] BY DEF TypeOK
        <4> QED BY <3>1, <4>1 DEF Frames
      <3>3. SoonTodo(r) = rest BY <1>1 DEF SoonTodo, id
      <3>4. frame[r].todo # {Min(frame[r].todo)} BY <2>2 DEF id
      <3>5. SoonStep(r) = "gate" BY <1>1, <3>4 DEF SoonStep, Failed, Passed
      <3> QED BY <3>1, <3>2, <3>3, <3>5, Posted DEF Acts, SetupSteps, Phases
    <2> QED BY <2>1, <2>2
  <1> QED BY <1>5, <1>6, <1>7, <1>8, <1>9, <1>10 DEF Done

(* The last exchange of a setup, and the phases of its undoing. *)
LEMMA UndoneDone ==
    ASSUME TypeOK, IoOK, Local, NEW r \in Ranks, Initialized(r) \/ Undone(r)
    PROVE  Done(r)
  <1>0. /\ step[r] \in {"init", "native", "unmap", "free"} /\ step[r] \in Posting
        /\ ~Waits(r) /\ Mine(r)
    BY DEF Initialized, Undone, At, Posting, SetupSteps, Local, Phases
  <1>a. /\ Heard(r) \/ Raised(r)
        /\ ~(Heard(r) /\ Raised(r))
        /\ Heard(r) => Passed(r) \/ Failed(r)
        /\ ~(Passed(r) /\ Failed(r))
        /\ (Passed(r) \/ Failed(r) => Heard(r))
    BY <1>0, Acting DEF Passed, Failed
  <1>1. Acts(r) /\ ~Drops(r)
    BY <1>0, Acting DEF Drops
  <1>2. SoonNumber(r) = frame[r].s[2] /\ frame[r].s \in Setups
    BY <1>0 DEF SoonNumber, Mine, Named, Working, SetupSteps, Phases
  <1>3. CASE Initialized(r)
    <2>0. step[r] = "init" /\ UNCHANGED <<call, calls, split>> /\ step[r] \notin Phases
      BY <1>3 DEF Initialized, At, Phases
    <2>1. CASE Passed(r)
      <3>1. Adopt(r) BY <1>3, <1>a, <2>1 DEF Initialized
      <3>2. Adopts(r) BY <1>1, <2>0, <2>1 DEF Adopts
      <3>3. frame[r].todo # {} BY <1>0, <2>0 DEF Mine, Progressed, SetupSteps
      <3> QED BY <3>1, <3>2, <3>3, AdoptDone
    <2>2. CASE Failed(r)
      <3>1. Undo(r, frame[r].s, "native") /\ UNCHANGED <<poolVars, ticket>> /\ frame' = frame
        BY <1>3, <1>a, <2>2 DEF Initialized, AbortInit
      <3>2. SoonStep(r) = "native" BY <1>1, <1>a, <2>0, <2>2 DEF SoonStep
      <3>3. "native" \in Phases BY DEF Phases
      <3>4. ~Adopts(r) /\ ~Retains(r) BY <1>a, <2>0, <2>2 DEF Adopts, Retains
      <3> QED BY <1>1, <1>2, <2>0, <3>1, <3>2, <3>3, <3>4, UndoDone
    <2>3. CASE ~Heard(r)
      <3>1. Retain(r, "native") /\ UNCHANGED poolVars BY <1>3, <1>a, <2>3 DEF Initialized
      <3>2. SoonStep(r) = "outside" BY <1>1, <1>a, <2>0, <2>3 DEF SoonStep
      <3>3. "native" \in Phases BY DEF Phases
      <3>4. Retains(r) BY <1>1, <2>0, <2>3 DEF Retains
      <3> QED BY <1>1, <1>2, <2>0, <3>1, <3>2, <3>3, <3>4, RetainDone
    <2> QED BY <1>a, <2>1, <2>2, <2>3
  <1>4. CASE Undone(r)
    <2>0. step[r] \in Phases /\ UNCHANGED <<call, poolVars, calls, split>> /\ ~Adopts(r)
      BY <1>4 DEF Undone, Phases, Adopts
    <2>1. CASE ~Passed(r)
      <3>1. Retain(r, step[r]) BY <1>4, <2>1 DEF Undone
      <3>2. SoonStep(r) = "outside" BY <1>1, <2>0, <2>1 DEF SoonStep, Phases
      <3>3. Retains(r) BY <1>1, <2>0, <2>1 DEF Retains
      <3> QED BY <1>1, <1>2, <2>0, <3>1, <3>2, <3>3, RetainDone
    <2>2. CASE Passed(r) /\ step[r] # "free"
      <3>1. Undo(r, frame[r].s, After[step[r]]) /\ UNCHANGED <<frame, ticket>>
        BY <1>4, <2>2 DEF Undone, Advance
      <3>2. ~Retains(r) BY <1>a, <2>0, <2>2 DEF Retains, Phases
      <3>3. CASE step[r] = "native"
        <4>1. After[step[r]] = "unmap" /\ "unmap" \in Phases BY <3>3 DEF After, Phases
        <4>2. SoonStep(r) = "unmap" BY <1>1, <1>a, <2>2, <3>3 DEF SoonStep
        <4> QED BY <1>1, <1>2, <2>0, <3>1, <3>2, <3>3, <4>1, <4>2, UndoDone
      <3>4. CASE step[r] = "unmap"
        <4>1. After[step[r]] = "free" /\ "free" \in Phases BY <3>4 DEF After, Phases
        <4>2. SoonStep(r) = "free" BY <1>1, <1>a, <2>2, <3>4 DEF SoonStep
        <4> QED BY <1>1, <1>2, <2>0, <3>1, <3>2, <3>4, <4>1, <4>2, UndoDone
      <3> QED BY <2>0, <2>2, <3>3, <3>4 DEF Phases
    <2>3. CASE Passed(r) /\ step[r] = "free"
      <3>1. Leave(r) /\ ticket' = [ticket EXCEPT ![r] = None]
        BY <1>4, <2>3 DEF Undone, Advance
      <3>2. SoonStep(r) = "outside" BY <1>1, <1>a, <2>3 DEF SoonStep
      <3>3. /\ step'[r] = "outside" /\ ~Acts(r)' /\ ~Heard(r)'
            /\ "outside" \notin {"gate"} \cup SetupSteps \cup Phases
        BY <3>1, Left DEF Acts, SetupSteps, Phases
      <3>4. ticket'[r] = None BY <3>1 DEF TypeOK
      <3>5. SoonTicket(r) = <<0, None>>
        BY <1>1, <1>a, <2>3 DEF SoonTicket, Retains
      <3>6. /\ SoonLen(r) = Len(chans[r]) /\ Len(chans[r]) \in Nat /\ chans' = chans
            /\ SoonClosed(r) = closed[r] /\ closed' = closed /\ SoonSaved(r) = saved[r].len /\ saved' = saved
        BY <1>1, <2>0, <2>3, Channels DEF SoonLen, SoonClosed, SoonSaved, poolVars, TypeOK
      <3>7. \A i \in 1..SoonLen(r) : <<chans'[r][i].id, chans'[r][i].s[2]>> = SoonChan(r, i)
        BY <3>6 DEF SoonChan
      <3> QED BY <3>2, <3>3, <3>4, <3>5, <3>6, <3>7 DEF Done
    <2> QED BY <2>1, <2>2, <2>3
  <1> QED BY <1>3, <1>4

(* Channels dropped. *)
LEMMA DropDone ==
    ASSUME TypeOK, IoOK, Local, NEW r \in Ranks, Drops(r), ~closed[r],
           call \in {"rollback", "close"}, Dropped(r), Leave(r), saved' = saved, ticket' = ticket,
           SoonStep(r) = "outside"
    PROVE  Done(r)
  <1>0. saved[r].len <= Len(chans[r]) BY DEF Local, Mine, Closes
  <1> DEFINE k == IF call = "close" THEN 0 ELSE saved[r].len
  <1>1. /\ k \in 0..Len(chans[r]) /\ Len(chans'[r]) = k
        /\ \A i \in 1..k : chans'[r][i] = chans[r][i]
        /\ closed'[r] = (closed[r] \/ call = "close")
    BY <1>0, Dropping
  <1>2. /\ step'[r] = "outside" /\ ~Acts(r)' /\ ~Heard(r)'
        /\ "outside" \notin {"gate"} \cup SetupSteps \cup Phases
    BY Left DEF Acts, SetupSteps, Phases
  <1>3. ~Adopts(r) /\ ~Retains(r) /\ step[r] # "free" /\ ~(step[r] = "entering" /\ call = "checkpoint")
    BY DEF Drops, Adopts, Retains, Phases
  <1>4. SoonLen(r) = k BY <1>3 DEF SoonLen
  <1> HIDE DEF k
  <1>5. \A i \in 1..SoonLen(r) : <<chans'[r][i].id, chans'[r][i].s[2]>> = SoonChan(r, i)
    <2>1. Len(chans[r]) \in Nat BY Channels
    <2> QED BY <1>1, <1>4, <2>1 DEF SoonChan
  <1>6. SoonClosed(r) = closed'[r] BY <1>1 DEF SoonClosed
  <1>7. SoonSaved(r) = saved'[r].len BY <1>3 DEF SoonSaved
  <1>8. (IF ticket'[r] = None THEN <<0, None>> ELSE <<ticket'[r].s[2], ticket'[r].phase>>) = SoonTicket(r)
    BY <1>3 DEF SoonTicket
  <1> QED BY <1>1, <1>2, <1>4, <1>5, <1>6, <1>7, <1>8 DEF Done

(* A close. *)
LEMMA CloseDone ==
    ASSUME TypeOK, IoOK, Local, NEW r \in Ranks, Close(r)
    PROVE  Done(r)
  <1>0. /\ step[r] \in CloseSteps /\ step[r] \in Posting /\ ~Waits(r) /\ Mine(r)
    BY DEF Close, CloseSynced, CloseUnmapped, CloseFrees, CloseFreed, CloseEnds, At, Posting,
       CloseSteps, Local
  <1>1. Acts(r) /\ ~Adopts(r) /\ ~Retains(r) /\ step[r] \notin {"free", "entering"}
    BY <1>0, Acting DEF Adopts, Retains, CloseSteps, Phases
  <1>2. /\ {"closeUnmap", "closeBarrier", "closeFree", "closeEnd"} \subseteq Posting
        /\ \A st \in {"closeUnmap", "closeBarrier", "closeFree", "closeEnd"} :
                st \notin SetupSteps \cup Phases \cup {"gate"}
    BY DEF Posting, CloseSteps, SetupSteps, Phases
  <1>3. ~CloseEnds(r) => UNCHANGED <<poolVars, ticket, call>>
    BY DEF Close, CloseSynced, CloseUnmapped, CloseFrees, CloseFreed
  <1>4. CASE ~Passed(r) /\ ~CloseEnds(r)
    <2>1. Leave(r) BY <1>4 DEF Close, CloseSynced, CloseUnmapped, CloseFrees, CloseFreed
    <2>2. SoonStep(r) = "outside" BY <1>0, <1>1, <1>4 DEF SoonStep, CloseSteps
    <2>3. ~Drops(r) BY <1>1, <1>4 DEF Drops
    <2> QED BY <1>1, <1>3, <1>4, <2>1, <2>2, <2>3, LeftDone DEF poolVars
  <1>5. CASE Passed(r) /\ ~CloseEnds(r)
    <2>1. PICK st \in {"closeUnmap", "closeBarrier", "closeFree", "closeEnd"} :
            SoonStep(r) = st /\ \E v : Goto(r, st, v)
      BY <1>1, <1>5 DEF Close, CloseSynced, CloseUnmapped, CloseFrees, CloseFreed, Post, At, SoonStep
    <2>2. PICK v : Goto(r, st, v) BY <2>1
    <2>3. ~Drops(r)
      BY <1>1, <1>5 DEF Close, CloseSynced, CloseUnmapped, CloseFrees, CloseFreed, At, Drops
    <2>4. chans' = chans /\ closed' = closed /\ saved' = saved /\ ticket' = ticket
      BY <1>3, <1>5 DEF poolVars
    <2>5. st \in Posting /\ st \notin SetupSteps \cup Phases \cup {"gate"} BY <1>2
    <2> QED BY <1>1, <2>1, <2>2, <2>3, <2>4, <2>5, MovedDone
  <1>6. CASE CloseEnds(r)
    <2>1. step[r] = "closeEnd" /\ Leave(r) /\ saved' = saved /\ ticket' = ticket /\ call' = call
      BY <1>6 DEF CloseEnds, At
    <2>2. SoonStep(r) = "outside" BY <1>1, <2>1 DEF SoonStep
    <2>3. CASE Passed(r)
      <3>1. Drops(r) BY <1>1, <2>1, <2>3 DEF Drops
      <3>2. ~closed[r] /\ call \in {"rollback", "close"}
        BY <1>0 DEF Mine, Closes
      <3>3. Dropped(r) BY <1>6, <2>3 DEF CloseEnds
      <3> QED BY <2>1, <2>2, <3>1, <3>2, <3>3, DropDone
    <2>4. CASE ~Passed(r)
      <3>1. ~Drops(r) BY <2>1, <2>4 DEF Drops
      <3>2. UNCHANGED <<chans, closed>> BY <1>6, <2>4 DEF CloseEnds
      <3> QED BY <1>1, <2>1, <2>2, <3>1, <3>2, LeftDone
    <2> QED BY <2>3, <2>4
  <1> QED BY <1>4, <1>5, <1>6

(* The beginning of a call. *)
LEMMA EnterDone ==
    ASSUME TypeOK, IoOK, Local, NEW r \in Ranks, Enter(r)
    PROVE  Done(r)
  <1>0. step[r] = "entering" /\ call' = call /\ Mine(r) BY DEF Enter, Local
  <1>1. Acts(r) /\ ~Adopts(r) /\ ~Retains(r)
    BY <1>0 DEF IoOK, Posting, SetupSteps, CloseSteps, Phases, Acts, Waits, Adopts, Retains
  <1>2. SoonStep(r) = First(r) BY <1>0, <1>1 DEF SoonStep
  <1>3. CASE EnterPrepare(r) \/ EnterCapture(r)
    <2>0. PICK st \in {"validate", "capture"} : SoonStep(r) = st /\ \E v : Goto(r, st, v)
      BY <1>2, <1>3 DEF EnterPrepare, EnterCapture, First
    <2>1. PICK v : SoonStep(r) = st /\ Goto(r, st, v)
      BY <2>0
    <2>2. /\ chans' = chans /\ closed' = closed /\ saved' = saved /\ ticket' = ticket
          /\ call \in {"prepare", "capture"}
      BY <1>3 DEF EnterPrepare, EnterCapture, poolVars
    <2>3. ~Drops(r) BY <1>0, <2>2 DEF Drops
    <2>4. st \in Posting /\ st \notin SetupSteps \cup Phases \cup {"gate"}
      BY DEF Posting, SetupSteps, Phases
    <2> QED BY <1>0, <1>1, <2>1, <2>2, <2>3, <2>4, MovedDone
  <1>4. CASE EnterCheckpoint(r)
    <2>1. /\ Leave(r) /\ UNCHANGED <<chans, closed, ticket>> /\ call = "checkpoint"
          /\ saved' = IF closed[r] THEN saved
                      ELSE [saved EXCEPT ![r] = [len |-> Len(chans[r]), captured |-> captured[r]]]
      BY <1>4 DEF EnterCheckpoint
    <2>2. SoonStep(r) = "outside" BY <1>2, <2>1 DEF First
    <2>3. /\ step'[r] = "outside" /\ ~Acts(r)' /\ ~Heard(r)'
          /\ "outside" \notin {"gate"} \cup SetupSteps \cup Phases
      BY <2>1, Left DEF Acts, SetupSteps, Phases
    <2>4. saved'[r].len = SoonSaved(r)
      <3>1. saved \in [Ranks -> [len : Nat, captured : SUBSET Ids]] BY DEF TypeOK
      <3> QED BY <1>0, <1>1, <2>1, <3>1 DEF SoonSaved
    <2>5. ~Drops(r) BY <1>0, <2>1 DEF Drops
    <2>6. SoonLen(r) = Len(chans[r]) /\ Len(chans[r]) \in Nat /\ SoonClosed(r) = closed[r]
      BY <1>1, <2>5, Channels DEF SoonLen, SoonClosed, TypeOK
    <2>7. \A i \in 1..SoonLen(r) : <<chans'[r][i].id, chans'[r][i].s[2]>> = SoonChan(r, i)
      BY <2>1, <2>6 DEF SoonChan
    <2>8. (IF ticket'[r] = None THEN <<0, None>> ELSE <<ticket'[r].s[2], ticket'[r].phase>>) = SoonTicket(r)
      BY <1>0, <1>1, <2>1 DEF SoonTicket
    <2> QED BY <2>1, <2>2, <2>3, <2>4, <2>6, <2>7, <2>8 DEF Done
  <1>5. CASE EnterClose(r)
    <2>0. call \in {"rollback", "close"} BY <1>5 DEF EnterClose
    <2>1. CASE closed[r]
      <3>1. SoonStep(r) = "outside" BY <1>2, <2>0, <2>1 DEF First
      <3>2. ~Drops(r) BY <1>0, <2>1 DEF Drops
      <3> QED BY <1>0, <1>1, <1>5, <2>0, <2>1, <3>1, <3>2, LeftDone DEF EnterClose, Quit, poolVars
    <2>2. CASE ~closed[r] /\ ToClose(r) = {}
      <3>1. SoonStep(r) = "outside" BY <1>2, <2>0, <2>2 DEF First
      <3>2. Drops(r) BY <1>0, <1>1, <2>0, <2>2 DEF Drops
      <3> QED BY <1>5, <2>0, <2>2, <3>1, <3>2, DropDone DEF EnterClose
    <2>3. CASE ~closed[r] /\ ToClose(r) # {}
      <3>1. SoonStep(r) = "sync" BY <1>2, <2>0, <2>3 DEF First
      <3>2. ~Drops(r) BY <1>0, <2>3 DEF Drops
      <3>3. /\ Goto(r, "sync", TRUE)
            /\ chans' = chans /\ closed' = closed /\ saved' = saved /\ ticket' = ticket
        BY <1>5, <2>3 DEF EnterClose, poolVars
      <3>4. "sync" \in Posting /\ "sync" \notin SetupSteps \cup Phases \cup {"gate"}
        BY DEF Posting, CloseSteps, SetupSteps, Phases
      <3> QED BY <1>0, <1>1, <2>0, <3>1, <3>2, <3>3, <3>4, MovedDone
    <2> QED BY <2>1, <2>2, <2>3
  <1>6. CASE EnterRetry(r)
    <2>0. call = "retry" BY <1>6 DEF EnterRetry
    <2>1. ~Drops(r) BY <1>0, <2>0 DEF Drops
    <2>2. CASE ticket[r] = None
      <3>1. SoonStep(r) = "outside" BY <1>2, <2>0, <2>2 DEF First
      <3> QED BY <1>0, <1>1, <1>6, <2>0, <2>1, <2>2, <3>1, LeftDone DEF EnterRetry, Quit, poolVars
    <2>3. CASE ticket[r] # None
      <3>1. SoonStep(r) = ticket[r].phase BY <1>2, <2>0, <2>3 DEF First
      <3>2. /\ Undo(r, ticket[r].s, ticket[r].phase)
            /\ frame' = [frame EXCEPT ![r].s = ticket[r].s]
            /\ UNCHANGED <<poolVars, ticket>>
        BY <1>6, <2>3 DEF EnterRetry
      <3>3. ticket[r].s \in Setups /\ ticket[r].phase \in Phases
        BY <2>3 DEF TypeOK, Tickets
      <3>4. frame'[r].s = ticket[r].s
        <4>1. frame \in [Ranks -> Frames] BY DEF TypeOK
        <4> QED BY <3>2, <4>1 DEF Frames
      <3>5. ticket[r].s[2] = SoonNumber(r) BY <1>0, <1>1 DEF SoonNumber
      <3>6. UNCHANGED <<calls, split>> BY DEF Enter
      <3> QED BY <1>0, <1>1, <2>0, <2>1, <3>1, <3>2, <3>3, <3>4, <3>5, <3>6, UndoDone
    <2> QED BY <2>2, <2>3
  <1> QED BY <1>3, <1>4, <1>5, <1>6 DEF Enter

(* Every step of a rank takes it where it was about to go. *)
LEMMA StepDone ==
    ASSUME TypeOK, IoOK, Local, NEW r \in Ranks, Step(r)
    PROVE  Done(r)
  BY BeforeDone, SetupDone, UndoneDone, CloseDone, EnterDone DEF Step, SetUp

-----------------------------------------------------------------------------
(* Where a rank will be, in a state and in the next. *)
Still(r) ==
    /\ SoonStep(r)' = SoonStep(r)
    /\ SoonLen(r)' = SoonLen(r)
    /\ \A i \in 1..SoonLen(r) : SoonChan(r, i)' = SoonChan(r, i)
    /\ SoonClosed(r)' = SoonClosed(r)
    /\ SoonTicket(r)' = SoonTicket(r)
    /\ SoonSaved(r)' = SoonSaved(r)
    /\ SoonStep(r) \in SetupSteps \cup Phases => SoonNumber(r)' = SoonNumber(r)
    /\ SoonStep(r) \in {"gate"} \cup SetupSteps => SoonTodo(r)' = SoonTodo(r)

(* Having done its step, a rank is where it was about to be. *)
LEMMA DoneStill ==
    ASSUME NEW r \in Ranks, Done(r)
    PROVE  Still(r)
  <1>1. ~Acts(r)' /\ step'[r] = SoonStep(r) BY DEF Done
  <1>2. ~Adopts(r)' /\ ~Drops(r)' /\ ~Retains(r)' BY <1>1 DEF Adopts, Drops, Retains
  <1>3. SoonStep(r)' = SoonStep(r) BY <1>1 DEF SoonStep
  <1>4. SoonLen(r)' = SoonLen(r) BY <1>2 DEF SoonLen, Done
  <1>5. \A i \in 1..SoonLen(r) : SoonChan(r, i)' = SoonChan(r, i)
    <2> SUFFICES ASSUME NEW i \in 1..SoonLen(r) PROVE SoonChan(r, i)' = SoonChan(r, i)
      OBVIOUS
    <2>1. i <= Len(chans'[r]) BY DEF Done
    <2>2. SoonChan(r, i)' = <<chans'[r][i].id, chans'[r][i].s[2]>> BY <2>1 DEF SoonChan
    <2> QED BY <2>2 DEF Done
  <1>7. SoonClosed(r)' = SoonClosed(r)
    <2>1. SoonClosed(r)' = (closed'[r] \/ FALSE) BY <1>2 DEF SoonClosed
    <2>2. closed'[r] = SoonClosed(r) BY DEF Done
    <2> QED BY <2>1, <2>2 DEF SoonClosed
  <1>8. SoonTicket(r)' = SoonTicket(r)
    <2>1. SoonTicket(r)' = IF ticket'[r] = None THEN <<0, None>> ELSE <<ticket'[r].s[2], ticket'[r].phase>>
      BY <1>1, <1>2 DEF SoonTicket
    <2> QED BY <2>1 DEF Done
  <1>9. SoonSaved(r)' = SoonSaved(r)
    BY <1>1 DEF SoonSaved, Done
  <1>10. SoonStep(r) \in SetupSteps \cup Phases => SoonNumber(r)' = SoonNumber(r)
    BY <1>1 DEF SoonNumber, Done
  <1>11. SoonStep(r) \in {"gate"} \cup SetupSteps => SoonTodo(r)' = SoonTodo(r)
    BY <1>1 DEF SoonTodo, Done
  <1> QED BY <1>3, <1>4, <1>5, <1>7, <1>8, <1>9, <1>10, <1>11 DEF Still

(* The other ranks are about to be where they were about to be. *)
LEMMA OthersStill ==
    ASSUME NEW r \in Ranks, NEW q \in Ranks, q # r, OnlyRank(r)
    PROVE  Still(q)
  <1>1. /\ call' = call /\ step'[q] = step[q] /\ io'[q] = io[q] /\ frame'[q] = frame[q]
        /\ ticket'[q] = ticket[q] /\ chans'[q] = chans[q] /\ saved'[q] = saved[q]
        /\ closed'[q] = closed[q]
    BY DEF OnlyRank
  <1>2. /\ Acts(q)' <=> Acts(q)
        /\ Heard(q)' <=> Heard(q)
        /\ Passed(q)' <=> Passed(q)
        /\ Failed(q)' <=> Failed(q)
        /\ Same(q)' <=> Same(q)
        /\ Catalog(q)' = Catalog(q)
        /\ ToClose(q)' = ToClose(q)
    BY <1>1 DEF Acts, Waits, Heard, Passed, Failed, Same, Catalog, ToClose
  <1>3. /\ Fresh(q)' <=> Fresh(q)
        /\ First(q)' = First(q)
        /\ Remaining(q, frame[q].todo)' = Remaining(q, frame[q].todo)
        /\ Adopts(q)' <=> Adopts(q)
        /\ Drops(q)' <=> Drops(q)
        /\ Retains(q)' <=> Retains(q)
        /\ Taken(q)' = Taken(q)
    BY <1>1, <1>2 DEF Fresh, First, Remaining, Adopts, Drops, Retains, Taken
  <1>4. SoonStep(q)' = SoonStep(q) BY <1>1, <1>2, <1>3 DEF SoonStep
  <1>5. SoonLen(q)' = SoonLen(q) BY <1>1, <1>3 DEF SoonLen
  <1>6. \A i \in 1..SoonLen(q) : SoonChan(q, i)' = SoonChan(q, i) BY <1>1 DEF SoonChan
  <1>7. SoonClosed(q)' = SoonClosed(q) BY <1>1, <1>3 DEF SoonClosed
  <1>8. SoonTicket(q)' = SoonTicket(q) BY <1>1, <1>2, <1>3 DEF SoonTicket
  <1>9. SoonSaved(q)' = SoonSaved(q) BY <1>1, <1>2 DEF SoonSaved
  <1>10. SoonNumber(q)' = SoonNumber(q) BY <1>1, <1>2, <1>3 DEF SoonNumber
  <1>11. SoonTodo(q)' = SoonTodo(q) BY <1>1, <1>2, <1>3 DEF SoonTodo
  <1> QED BY <1>4, <1>5, <1>6, <1>7, <1>8, <1>9, <1>10, <1>11 DEF Still

(* So a local step keeps what the ranks agree on. *)
LEMMA StillAgree ==
    ASSUME Meets, \A q \in Ranks : Still(q)
    PROVE  Meets' /\ \A r, q \in Ranks : Agree(r, q) => Agree(r, q)'
  <1>1. Meets'
    <2>1. \A r \in Ranks : /\ SoonStep(r)' = SoonStep(r)
                           /\ SoonStep(r) \in {"gate"} \cup SetupSteps => SoonTodo(r)' = SoonTodo(r)
      BY DEF Still
    <2> SUFFICES ASSUME NEW r \in Ranks, NEW q \in Ranks, SoonStep(r)' # "outside", SoonStep(q)' # "outside"
                 PROVE  /\ SoonStep(r)' = SoonStep(q)' \/ {SoonStep(r)', SoonStep(q)'} \subseteq Phases
                        /\ SoonStep(r)' \in {"gate"} \cup SetupSteps => SoonTodo(r)' = SoonTodo(q)'
      BY DEF Meets
    <2>2. SoonStep(r) # "outside" /\ SoonStep(q) # "outside" BY <2>1
    <2>3. /\ SoonStep(r) = SoonStep(q) \/ {SoonStep(r), SoonStep(q)} \subseteq Phases
          /\ SoonStep(r) \in {"gate"} \cup SetupSteps => SoonTodo(r) = SoonTodo(q)
      BY <2>2 DEF Meets
    <2>4. SoonStep(r) \in {"gate"} \cup SetupSteps => SoonStep(q) \in {"gate"} \cup SetupSteps
      BY <2>3 DEF Phases, SetupSteps
    <2> QED BY <2>1, <2>3, <2>4
  <1>2. ASSUME NEW r \in Ranks, NEW q \in Ranks, Agree(r, q) PROVE Agree(r, q)'
    BY <1>2 DEF Agree, Still
  <1> QED BY <1>1, <1>2

(* What a local step does to the memory. *)
LEMMA StepMemory ==
    ASSUME TypeOK, IoOK, Local, NEW r \in Ranks, Step(r)
    PROVE  /\ \A x \in native' \ native : step[r] = "import" /\ x = frame[r].s
           /\ \A m \in maps' \ maps : step[r] = "handles" /\ Heard(r)
                                      /\ \E q \in Ranks : m = <<frame[r].s, io[r][2][q]>>
           /\ \A x \in live \ live' :
                \/ SoonStep(r) = "free" /\ x = <<r, SoonNumber(r)>>
                \/ step[r] = "closeBarrier" /\ SoonStep(r) = "closeFree" /\ x \in frame[r].cl
  <1>0. Done(r) BY StepDone
  <1>1. CASE UNCHANGED memVars BY <1>1 DEF memVars
  <1>2. ASSUME NEW s \in Setups, NEW phase \in Phases, Undo(r, s, phase), s[1] = r, frame'[r].s = s
        PROVE  /\ native' \subseteq native /\ maps' \subseteq maps
               /\ \A x \in live \ live' : SoonStep(r) = "free" /\ x = <<r, SoonNumber(r)>>
    <2>1. PICK v : /\ Goto(r, phase, v)
                   /\ native' \subseteq native /\ maps' \subseteq maps
                   /\ \A x \in live \ live' : x = s /\ phase = "free"
      BY <1>2, Undoing
    <2>2. step'[r] = phase
      BY <2>1 DEF Goto, TypeOK
    <2>3. s[2] = SoonNumber(r) BY <1>0, <1>2, <2>2 DEF Done
    <2>4. s = <<r, s[2]>> BY <1>2 DEF Setups
    <2> QED BY <1>0, <2>1, <2>2, <2>3, <2>4 DEF Done
  <1>3. CASE Enter(r)
    <2>1. CASE EnterRetry(r) /\ ticket[r] # None
      <3>1. /\ Undo(r, ticket[r].s, ticket[r].phase)
            /\ frame' = [frame EXCEPT ![r].s = ticket[r].s]
        BY <2>1 DEF EnterRetry
      <3>2. ticket[r].s \in Setups /\ ticket[r].phase \in Phases /\ ticket[r].s[1] = r
        BY <2>1 DEF TypeOK, Tickets, Local, Mine, Named
      <3>3. frame'[r].s = ticket[r].s
        <4>1. frame \in [Ranks -> Frames] BY DEF TypeOK
        <4> QED BY <3>1, <4>1 DEF Frames
      <3> QED BY <1>2, <3>1, <3>2, <3>3
    <2>2. CASE ~(EnterRetry(r) /\ ticket[r] # None)
      <3>1. UNCHANGED memVars
        BY <1>3, <2>2 DEF Enter, EnterPrepare, EnterCapture, EnterCheckpoint, EnterClose, EnterRetry, Quit
      <3> QED BY <1>1, <3>1
    <2> QED BY <2>1, <2>2
  <1>4. ASSUME step[r] \in SetupSteps \cup Phases PROVE frame[r].s \in Setups /\ frame[r].s[1] = r
    BY <1>4 DEF Local, Mine, Named, Working
  <1>5. CASE Undone(r)
    <2>1. CASE Passed(r) /\ Advance(r) /\ step[r] # "free"
      <3>1. Undo(r, frame[r].s, After[step[r]]) /\ frame' = frame BY <2>1 DEF Advance
      <3>2. step[r] \in {"native", "unmap"} BY <1>5, <2>1 DEF Undone, Phases
      <3>3. After[step[r]] \in Phases BY <3>2 DEF After, Phases
      <3>4. frame[r].s \in Setups /\ frame[r].s[1] = r BY <1>4, <3>2 DEF Phases
      <3> QED BY <1>2, <3>1, <3>3, <3>4
    <2>2. CASE ~(Passed(r) /\ Advance(r) /\ step[r] # "free")
      <3>1. UNCHANGED memVars BY <1>5, <2>2 DEF Undone, Advance, Retain
      <3> QED BY <1>1, <3>1
    <2> QED BY <2>1, <2>2
  <1>6. CASE Exported(r) \/ Imported(r) \/ Initialized(r)
    <2>0. step[r] \in {"export", "import", "init"} /\ frame[r].s \in Setups /\ frame[r].s[1] = r
      BY <1>4, <1>6 DEF Exported, Imported, Initialized, At, SetupSteps
    <2>1. ASSUME NEW phase \in Phases, Undo(r, frame[r].s, phase), frame' = frame
          PROVE  /\ native' \subseteq native /\ maps' \subseteq maps
                 /\ \A x \in live \ live' : SoonStep(r) = "free" /\ x = <<r, SoonNumber(r)>>
      BY <1>2, <2>0, <2>1
    <2>2. CASE Exported(r)
      <3>1. "free" \in Phases BY DEF Phases
      <3> QED BY <1>1, <2>1, <2>2, <3>1 DEF Exported, Retain
    <2>3. CASE Imported(r)
      <3>1. "unmap" \in Phases BY DEF Phases
      <3>2. CASE Undo(r, frame[r].s, "unmap") /\ frame' = frame BY <2>1, <3>1, <3>2
      <3>3. CASE Retain(r, "unmap") BY <1>1, <3>3 DEF Retain
      <3>4. CASE \E made \in {"yes", "half", "no"} :
                   /\ native' = IF made = "no" THEN native ELSE native \cup {frame[r].s}
                   /\ UNCHANGED <<live, maps>> /\ step[r] = "import"
        BY <3>4
      <3> QED BY <2>3, <3>2, <3>3, <3>4 DEF Imported, At
    <2>4. CASE Initialized(r)
      <3>1. "native" \in Phases BY DEF Phases
      <3> QED BY <1>1, <2>1, <2>4, <3>1 DEF Initialized, Adopt, AbortInit, Retain
    <2> QED BY <1>6, <2>2, <2>3, <2>4
  <1>7. CASE HandlesGot(r)
    <2>1. CASE Retain(r, "unmap") BY <1>1, <2>1 DEF Retain
    <2>2. CASE Heard(r) /\ ~Retain(r, "unmap")
      <3>1. PICK bad \in SUBSET {<<frame[r].s, io[r][2][q]>> : q \in Ranks \ {r}} :
              /\ maps' = maps \cup ({<<frame[r].s, io[r][2][q]>> : q \in Ranks \ {r}} \ bad)
              /\ UNCHANGED <<live, native>>
        BY <1>7, <2>2 DEF HandlesGot
      <3>2. step[r] = "handles" BY <1>7 DEF HandlesGot, At
      <3> QED BY <2>2, <3>1, <3>2
    <2> QED BY <1>7, <2>1, <2>2 DEF HandlesGot
  <1>8. CASE Validated(r) \/ CaptureValidated(r) \/ Agreed(r) \/ Requested(r)
    BY <1>1, <1>8 DEF Validated, CaptureValidated, Agreed, Requested, Quit
  <1>9. CASE Gated(r)
    <2>1. live \subseteq live' /\ maps' = maps /\ native' = native
      BY <1>9 DEF Gated, Quit, Export, memVars
    <2> QED BY <2>1
  <1>10. CASE Close(r)
    <2>1. CASE CloseFrees(r) /\ Passed(r) /\ Free(frame[r].cl) /\ UNCHANGED <<maps, native>>
      <3>1. \A x \in live \ live' : x \in frame[r].cl BY <2>1 DEF Free
      <3>2. step[r] = "closeBarrier" /\ ~Waits(r) BY <2>1 DEF CloseFrees, At
      <3>3. SoonStep(r) = "closeFree" BY <2>1, <3>2 DEF SoonStep, Acts
      <3> QED BY <2>1, <3>1, <3>2, <3>3
    <2>2. CASE CloseSynced(r)
      <3>1. live' = live /\ native' \subseteq native /\ maps' \subseteq maps
        BY <2>2 DEF CloseSynced, memVars
      <3> QED BY <3>1
    <2>3. CASE CloseUnmapped(r) \/ CloseFreed(r) \/ CloseEnds(r)
      BY <1>1, <2>3 DEF CloseUnmapped, CloseFreed, CloseEnds
    <2>4. CASE CloseFrees(r) /\ UNCHANGED memVars BY <1>1, <2>4
    <2> QED BY <1>10, <2>1, <2>2, <2>3, <2>4 DEF Close, CloseFrees
  <1> QED BY <1>3, <1>5, <1>6, <1>7, <1>8, <1>9, <1>10 DEF Step, SetUp

(* A rank that is about to free the export of a setup has nothing over it. *)
LEMMA FreeSafe ==
    ASSUME TypeOK, IoOK, NEW a \in Ranks, Mine(a), SoonStep(a) = "free"
    PROVE  NotNative(<<a, SoonNumber(a)>>) /\ NotMapping(<<a, SoonNumber(a)>>)
  <1>1. \/ ~Acts(a) /\ step[a] = "free"
        \/ Acts(a) /\ step[a] = "entering" /\ First(a) = "free"
        \/ Acts(a) /\ step[a] = "export"
        \/ Acts(a) /\ step[a] = "unmap" /\ Passed(a)
    BY DEF SoonStep
  <1>2. Working(a) => frame[a].s = <<a, frame[a].s[2]>>
    BY DEF Mine, Named, Setups
  <1>3. CASE (~Acts(a) /\ step[a] = "free") \/ step[a] = "export"
    <2>1. NotNative(frame[a].s) /\ NotMapping(frame[a].s) BY <1>3 DEF Mine, Progressed
    <2>2. SoonNumber(a) = frame[a].s[2] BY <1>3 DEF SoonNumber
    <2>3. Working(a) BY <1>3 DEF Working, SetupSteps, Phases
    <2> QED BY <1>2, <2>1, <2>2, <2>3
  <1>4. CASE Acts(a) /\ step[a] = "entering" /\ First(a) = "free"
    <2>1. ticket[a] # None /\ ticket[a].phase = "free" BY <1>4 DEF First
    <2>2. NotNative(ticket[a].s) /\ NotMapping(ticket[a].s) BY <2>1 DEF Mine, Progressed
    <2>3. ticket[a].s = <<a, ticket[a].s[2]>> BY <2>1 DEF TypeOK, Tickets, Mine, Named, Setups
    <2>4. SoonNumber(a) = ticket[a].s[2] BY <1>4 DEF SoonNumber
    <2> QED BY <2>2, <2>3, <2>4
  <1>5. CASE Acts(a) /\ step[a] = "unmap" /\ Passed(a)
    <2>1. Heard(a) /\ Said(a) BY <1>5 DEF Passed, Said, Acts
    <2>2. NotNative(frame[a].s) /\ NotMapping(frame[a].s)
      BY <1>5, <2>1 DEF Mine, Progressed, Honest, Knows
    <2>3. SoonNumber(a) = frame[a].s[2] BY <1>5 DEF SoonNumber
    <2>4. Working(a) BY <1>5 DEF Working, Phases
    <2> QED BY <1>2, <2>2, <2>3, <2>4
  <1> QED BY <1>1, <1>3, <1>4, <1>5

(* A rank that is about to have the handles of the others, or has them, has an export. *)
LEMMA HandsOut ==
    ASSUME TypeOK, IoOK, NEW a \in Ranks, Mine(a), SoonStep(a) = "import"
    PROVE  /\ frame[a].s = <<a, SoonNumber(a)>> /\ frame[a].s \in live /\ frame[a].s \in Setups
  <1>1. First(a) # "import"
    BY DEF First, TypeOK, Tickets, Phases
  <1>2. step[a] \in {"handles", "import"}
    BY <1>1 DEF SoonStep
  <1>3. Working(a) BY <1>2 DEF Working, SetupSteps
  <1>4. SoonNumber(a) = frame[a].s[2] BY <1>2 DEF SoonNumber
  <1> QED BY <1>2, <1>3, <1>4 DEF Mine, Named, Progressed, Setups

(* What a rank that is about to free the exports of a close has released. *)
LEMMA CloseSafe ==
    ASSUME TypeOK, IoOK, NEW a \in Ranks, Mine(a), SoonStep(a) = "closeFree"
    PROVE  /\ step[a] \in CloseSteps /\ Released(ToClose(a))
           /\ SoonLen(a) = Len(chans[a]) /\ SoonSaved(a) = saved[a].len
  <1>1. First(a) # "closeFree"
    BY DEF First, TypeOK, Tickets, Phases
  <1>2. step[a] \in {"closeBarrier", "closeFree"}
    BY <1>1 DEF SoonStep
  <1>3. step[a] \in CloseSteps BY <1>2 DEF CloseSteps
  <1>4. Released(ToClose(a)) BY <1>2, <1>3 DEF Mine, Closes
  <1>5. SoonLen(a) = Len(chans[a]) /\ SoonSaved(a) = saved[a].len
    BY <1>2 DEF SoonLen, Adopts, Drops, SoonSaved
  <1> QED BY <1>3, <1>4, <1>5

(* No export is freed under a mapping or a runtime, none is mapped that is not there. *)
LEMMA StepBacked ==
    ASSUME TypeOK, IoOK, Local, NEW r \in Ranks, Step(r),
           \A a, b \in Ranks : Agree(a, b), Paired, Backed, Handed
    PROVE  Paired' /\ Backed'
  <1>0. \A a \in Ranks : Mine(a) BY DEF Local
  <1>1. /\ \A x \in native' \ native : step[r] = "import" /\ x = frame[r].s
        /\ \A m \in maps' \ maps : step[r] = "handles" /\ Heard(r)
                                   /\ \E q \in Ranks : m = <<frame[r].s, io[r][2][q]>>
        /\ \A x \in live \ live' :
             \/ SoonStep(r) = "free" /\ x = <<r, SoonNumber(r)>>
             \/ step[r] = "closeBarrier" /\ SoonStep(r) = "closeFree" /\ x \in frame[r].cl
    BY StepMemory
  <1>2. \A m \in maps : m = <<m[1], m[2]>> /\ m[1] \in Setups /\ m[2] \in Setups
    BY DEF TypeOK
  <1>3. ASSUME NEW m \in maps' \ maps
        PROVE  m[1][2] = m[2][2] /\ m[2] \in live /\ live \subseteq live'
    <2>1. step[r] = "handles" /\ Heard(r) BY <1>1, <1>3
    <2>2. PICK q \in Ranks : m = <<frame[r].s, io[r][2][q]>> BY <1>1, <1>3
    <2>3. io[r][2][q] = frame[q].s BY <2>1 DEF Handed
    <2>4. SoonStep(r) = "import"
      BY <2>1 DEF SoonStep, Acts, Heard, Waits
    <2>5. SoonStep(q) = "import" BY <2>4 DEF Agree
    <2>6. SoonNumber(r) = SoonNumber(q) BY <2>4 DEF Agree, SetupSteps
    <2>7. frame[r].s = <<r, SoonNumber(r)>> /\ frame[q].s = <<q, SoonNumber(q)>> /\ frame[q].s \in live
      BY <1>0, <2>4, <2>5, HandsOut
    <2>8. live \subseteq live' BY <1>1, <2>1, <2>4
    <2> QED BY <2>2, <2>3, <2>6, <2>7, <2>8
  <1>4. Paired'
    BY <1>3 DEF Paired
  <1>5. ASSUME NEW x \in native' PROVE x \in live'
    <2>1. x \in live
      <3>1. CASE x \in native BY <3>1 DEF Backed
      <3>2. CASE x \notin native
        <4>1. step[r] = "import" /\ x = frame[r].s BY <1>1, <1>5, <3>2
        <4> QED BY <1>0, <4>1 DEF Mine, Progressed
      <3> QED BY <3>1, <3>2
    <2>2. CASE x \in live \ live'
      <3>1. CASE SoonStep(r) = "free" /\ x = <<r, SoonNumber(r)>>
        <4>1. NotNative(x) BY <1>0, <3>1, FreeSafe
        <4>2. step[r] = "import" /\ x = frame[r].s BY <1>1, <1>5, <4>1 DEF NotNative
        <4>3. SoonStep(r) # "free"
          BY <4>2 DEF SoonStep
        <4> QED BY <3>1, <4>3
      <3>2. CASE step[r] = "closeBarrier" /\ SoonStep(r) = "closeFree" /\ x \in frame[r].cl
        <4>1. x \in native BY <1>1, <1>5, <3>2
        <4>2. Released(frame[r].cl) BY <1>0, <3>2 DEF Mine, Closes
        <4> QED BY <3>2, <4>1, <4>2 DEF Released, NotNative
      <3> QED BY <1>1, <2>2, <3>1, <3>2
    <2> QED BY <2>1, <2>2
  <1>6. ASSUME NEW m \in maps' PROVE m[2] \in live'
    <2>1. CASE m \notin maps BY <1>3, <1>6, <2>1
    <2>2. CASE m \in maps /\ m[2] \in live'
      BY <2>2
    <2>3. CASE m \in maps /\ m[2] \notin live'
      <3>1. m[2] \in live \ live' BY <2>3 DEF Backed
      <3>2. m[1] = <<m[1][1], m[1][2]>> /\ m[1][1] \in Ranks /\ m[1][2] = m[2][2]
            /\ m[2] = <<m[2][1], m[2][2]>>
        BY <1>2, <2>3 DEF Paired, Setups
      <3> DEFINE a == m[1][1]
      <3>3. CASE SoonStep(r) = "free" /\ m[2] = <<r, SoonNumber(r)>>
        <4>1. SoonStep(a) = "free" BY <3>2, <3>3 DEF Agree
        <4>2. SoonNumber(a) = SoonNumber(r) BY <3>2, <3>3 DEF Agree, Phases
        <4>3. m[1] = <<a, SoonNumber(a)>> BY <3>2, <3>3, <4>2
        <4> HIDE DEF a
        <4>4. NotMapping(m[1]) BY <1>0, <3>2, <4>1, <4>3, FreeSafe DEF a
        <4> QED BY <2>3, <4>4 DEF NotMapping
      <3>4. CASE step[r] = "closeBarrier" /\ SoonStep(r) = "closeFree" /\ m[2] \in frame[r].cl
        <4>1. Agree(a, r) /\ SoonStep(a) = "closeFree" BY <3>2, <3>4 DEF Agree
        <4> HIDE DEF a
        <4>0. a \in Ranks BY <3>2 DEF a
        <4>2. /\ Released(ToClose(a)) /\ SoonLen(a) = Len(chans[a]) /\ SoonSaved(a) = saved[a].len
              /\ SoonLen(r) = Len(chans[r]) /\ SoonSaved(r) = saved[r].len
          BY <1>0, <3>4, <4>0, <4>1, CloseSafe
        <4>3. Len(chans[a]) = Len(chans[r]) /\ saved[a].len = saved[r].len
          BY <4>1, <4>2 DEF Agree
        <4>4. m[2] \in ToClose(r) BY <1>0, <3>4 DEF Mine, Closes, CloseSteps
        <4> DEFINE from == IF call = "close" THEN 1 ELSE saved[r].len + 1
        <4>5. PICK i \in from..Len(chans[r]) : m[2] = chans[r][i].s BY <4>4 DEF ToClose
        <4>6. i \in from..Len(chans[a]) /\ i \in 1..Len(chans[r]) /\ i <= Len(chans[a])
              /\ i <= Len(chans[r]) /\ i \in DOMAIN chans[a]
          <5>1. saved[r].len \in Nat /\ Len(chans[r]) \in Nat /\ Len(chans[a]) \in Nat
                /\ DOMAIN chans[a] = 1..Len(chans[a])
            BY <4>0, Channels DEF TypeOK
          <5> QED BY <4>3, <4>5, <5>1
        <4>7. SoonChan(a, i) = SoonChan(r, i) BY <4>1, <4>2, <4>3, <4>6 DEF Agree
        <4>8. chans[a][i].s[2] = chans[r][i].s[2] BY <4>6, <4>7 DEF SoonChan
        <4>9. chans[a][i].s = <<a, chans[a][i].s[2]>>
          BY <1>0, <4>0, <4>6, Channels DEF Mine, Named, Setups
        <4>10. m[1] = chans[a][i].s BY <3>2, <4>5, <4>8, <4>9 DEF a
        <4>11. chans[a][i].s \in ToClose(a) BY <4>3, <4>6 DEF ToClose
        <4> QED BY <2>3, <4>2, <4>10, <4>11 DEF Released, NotMapping
      <3> QED BY <1>1, <3>1, <3>3, <3>4
    <2> QED BY <2>1, <2>2, <2>3
  <1>7. Backed' BY <1>5, <1>6 DEF Backed
  <1> QED BY <1>4, <1>7

(* A step of a rank keeps the rest of the invariant. *)
LEMMA StepJoint ==
    ASSUME IInv, NEW r \in Ranks, Step(r)
    PROVE  IInv'
  <1> USE DEF IInv
  <1>0. Done(r) /\ Sound(r) BY StepDone, StepSound
  <1>1. TypeOK' /\ IoOK' /\ Local' BY StepLocal
  <1>2. \A q \in Ranks : Still(q)
    BY <1>0, DoneStill, OthersStill DEF Sound
  <1>3. Meets' BY <1>2, StillAgree
  <1>4. Given'
    <2> SUFFICES ASSUME NEW x \in Ranks, NEW q \in Ranks, step'[x] = "handles", Heard(x)'
                 PROVE  io'[x][2][q] \in Setups
      BY DEF Given
    <2>1. x # r BY <1>0 DEF Done
    <2>2. step'[x] = step[x] /\ io'[x] = io[x] BY <1>0, <2>1 DEF Sound, OnlyRank
    <2> QED BY <2>2 DEF Given, Heard
  <1>5. split' = split
    BY DEF Step, Enter, SetUp, Validated, Agreed, Gated, Exported, HandlesGot, Imported, Initialized,
       CaptureValidated, Requested, Undone, Close, CloseSynced, CloseUnmapped, CloseFrees, CloseFreed,
       CloseEnds
  <1>6. ASSUME ~split
        PROVE  (\A x, q \in Ranks : Agree(x, q)') /\ Paired' /\ Backed' /\ Handed'
    <2>1. (\A x, q \in Ranks : Agree(x, q)) /\ Paired /\ Backed /\ Handed
      BY <1>6 DEF Joint
    <2>2. \A x, q \in Ranks : Agree(x, q)' BY <1>2, <2>1, StillAgree
    <2>3. Paired' /\ Backed' BY <2>1, StepBacked
    <2>4. Handed'
      <3> SUFFICES ASSUME NEW x \in Ranks, NEW q \in Ranks, step'[x] = "handles", Heard(x)'
                   PROVE  io'[x][2][q] = frame'[q].s
        BY DEF Handed
      <3>1. x # r BY <1>0 DEF Done
      <3>2. step'[x] = step[x] /\ io'[x] = io[x] BY <1>0, <3>1 DEF Sound, OnlyRank
      <3>3. step[x] = "handles" /\ Heard(x) BY <3>2 DEF Heard
      <3>4. io'[x][2][q] = frame[q].s BY <2>1, <3>2, <3>3 DEF Handed
      <3>5. CASE q # r BY <1>0, <3>4, <3>5 DEF Sound, OnlyRank
      <3>6. CASE q = r
        <4>1. SoonStep(x) = "import" BY <3>3 DEF SoonStep, Acts, Heard, Waits
        <4>2. SoonStep(r) = "import" BY <2>1, <4>1 DEF Agree
        <4>3. frame[r].s = <<r, SoonNumber(r)>> BY <4>2, HandsOut DEF Local
        <4>4. step'[r] = "import" /\ frame'[r].s[2] = SoonNumber(r)
          BY <1>0, <4>2 DEF Done, SetupSteps
        <4>5. frame'[r].s \in Setups /\ frame'[r].s[1] = r
          BY <1>0, <4>4 DEF Sound, Mine, Named, Working, SetupSteps
        <4> QED BY <3>4, <3>6, <4>3, <4>4, <4>5 DEF Setups
      <3> QED BY <3>5, <3>6
    <2> QED BY <2>2, <2>3, <2>4
  <1>7. Joint' BY <1>5, <1>6 DEF Joint
  <1> QED BY <1>1, <1>3, <1>4, <1>7

-----------------------------------------------------------------------------
(* A rank gives up waiting, which it does only after an exchange has split. *)
LEMMA TimesOutSound ==
    ASSUME IInv, NEW r \in Ranks, TimesOut(r)
    PROVE  IInv'
  <1> USE DEF IInv
  <1>1. /\ Waits(r) /\ UNCHANGED <<call, step, frame, poolVars, ticket, memVars, faults, calls, split>>
        /\ io' = [io EXCEPT ![r] = <<"raise">>]
    BY DEF TimesOut
  <1>2. /\ io'[r] = <<"raise">> /\ \A q \in Ranks : q # r => io'[q] = io[q]
        /\ io' = [q \in Ranks |-> io'[q]]
    BY <1>1 DEF IoOK
  <1>3. step[r] \in Posting BY <1>1 DEF IoOK, Waits
  <1>4. TypeOK' BY <1>1 DEF TypeOK, poolVars, memVars
  <1>5. IoOK' BY <1>1, <1>2, <1>3 DEF IoOK
  <1>6. ~Heard(r)' /\ ~Waits(r)' /\ ~Knows(r)' BY <1>2 DEF Heard, Waits, Knows
  <1>7. chans' = chans /\ saved' = saved /\ closed' = closed /\ live' = live /\ native' = native
        /\ maps' = maps
    BY <1>1 DEF poolVars, memVars
  <1>8. Local'
    <2> SUFFICES ASSUME NEW q \in Ranks PROVE Mine(q)'
      BY DEF Local
    <2>0. Mine(q) BY DEF Local
    <2>1. Named(q)' /\ Kept(q)' /\ Progressed(q)' /\ Closes(q)'
      BY <1>1, <1>7, <2>0 DEF Mine, Named, Kept, Progressed, Closes, Owned, Catalog, ToClose, Working,
         NotNative, NotMapping, Released
    <2>2. Honest(q)'
      <3>1. CASE q = r BY <1>6, <3>1 DEF Honest
      <3>2. CASE q # r
        <4>1. Knows(q)' = Knows(q) /\ Said(q)' = Said(q) BY <1>2, <3>2 DEF Knows, Said, Waits, Heard
        <4> QED BY <1>1, <1>7, <2>0, <4>1 DEF Mine, Honest, Catalog, NotNative, NotMapping, Released
      <3> QED BY <3>1, <3>2
    <2> QED BY <2>1, <2>2 DEF Mine
  <1>9. \A q \in Ranks : q # r => Still(q)
    <2> SUFFICES ASSUME NEW q \in Ranks, q # r PROVE Still(q)
      OBVIOUS
    <2>1. OnlyRank(r) BY <1>1, <1>2, <1>7 DEF OnlyRank
    <2> QED BY <2>1, OthersStill
  <1>10. SoonStep(r)' = "outside"
    <2>1. ~Passed(r)' /\ ~Failed(r)' /\ ~Same(r)' /\ ~Fresh(r)' /\ step'[r] \in Posting
      BY <1>1, <1>3, <1>6 DEF Passed, Failed, Same, Fresh
    <2>2. step'[r] # "entering" BY <2>1 DEF Posting, SetupSteps, CloseSteps, Phases
    <2> QED BY <1>6, <2>1, <2>2 DEF SoonStep, Acts
  <1>11. Meets'
    <2> SUFFICES ASSUME NEW x \in Ranks, NEW q \in Ranks, SoonStep(x)' # "outside", SoonStep(q)' # "outside"
                 PROVE  /\ SoonStep(x)' = SoonStep(q)' \/ {SoonStep(x)', SoonStep(q)'} \subseteq Phases
                        /\ SoonStep(x)' \in {"gate"} \cup SetupSteps => SoonTodo(x)' = SoonTodo(q)'
      BY DEF Meets
    <2>1. x # r /\ q # r BY <1>10
    <2>2. Still(x) /\ Still(q) BY <1>9, <2>1
    <2>3. /\ SoonStep(x) = SoonStep(q) \/ {SoonStep(x), SoonStep(q)} \subseteq Phases
          /\ SoonStep(x) \in {"gate"} \cup SetupSteps => SoonTodo(x) = SoonTodo(q)
      BY <2>2 DEF Meets, Still
    <2>4. SoonStep(x) \in {"gate"} \cup SetupSteps => SoonStep(q) \in {"gate"} \cup SetupSteps
      BY <2>3 DEF Phases, SetupSteps
    <2> QED BY <2>2, <2>3, <2>4 DEF Still
  <1>12. Given'
    <2> SUFFICES ASSUME NEW x \in Ranks, NEW q \in Ranks, step'[x] = "handles", Heard(x)'
                 PROVE  io'[x][2][q] \in Setups
      BY DEF Given
    <2>1. x # r BY <1>6
    <2> QED BY <1>1, <1>2, <2>1 DEF Given, Heard
  <1>13. split
    <2>1. PICK q \in Ranks : step[q] = "outside" BY DEF TimesOut
    <2>2. SoonStep(q) = "outside" BY <2>1 DEF SoonStep, Acts
    <2>3. SoonStep(r) = step[r] BY <1>1 DEF SoonStep, Acts
    <2>4. step[r] # "outside" BY <1>3 DEF Posting, SetupSteps, CloseSteps, Phases
    <2> QED BY <2>2, <2>3, <2>4 DEF Joint, Agree
  <1>14. Joint' BY <1>1, <1>13 DEF Joint
  <1> QED BY <1>4, <1>5, <1>8, <1>11, <1>12, <1>14

(* The next call: all the ranks enter it. *)
LEMMA CallSound ==
    ASSUME IInv, NEW op \in Ops, Call(op)
    PROVE  IInv'
  <1> USE DEF IInv
  <1>1. /\ \A r \in Ranks : step[r] = "outside" /\ step'[r] = "entering"
        /\ step' = [r \in Ranks |-> "entering"] /\ call' = op
        /\ UNCHANGED <<io, frame, poolVars, ticket, memVars, faults, split>>
        /\ calls < MaxCalls /\ calls' = calls + 1
    BY DEF Call
  <1>2. chans' = chans /\ saved' = saved /\ closed' = closed /\ live' = live /\ native' = native
        /\ maps' = maps /\ io' = io /\ frame' = frame /\ ticket' = ticket
    BY <1>1 DEF poolVars, memVars
  <1>3. /\ "entering" \notin Posting /\ "outside" \notin Posting
    BY DEF Posting, SetupSteps, CloseSteps, Phases
  <1>4. \A r \in Ranks : /\ ~Waits(r) /\ ~Heard(r) /\ ~Waits(r)' /\ ~Heard(r)' /\ ~Knows(r)'
                         /\ ~Acts(r) /\ Acts(r)'
    BY <1>1, <1>2, <1>3 DEF IoOK, Waits, Heard, Knows, Acts
  <1>5. TypeOK'
    <2>1. step' \in [Ranks -> Steps \cup {"outside", "entering"}] BY <1>1
    <2>2. calls' \in 0..MaxCalls BY <1>1 DEF TypeOK
    <2> QED BY <1>1, <2>1, <2>2 DEF TypeOK, poolVars, memVars
  <1>6. IoOK' BY <1>1, <1>2, <1>3 DEF IoOK
  <1>7. Local'
    <2> SUFFICES ASSUME NEW r \in Ranks PROVE Mine(r)'
      BY DEF Local
    <2>0. Mine(r) BY DEF Local
    <2>1. step'[r] = "entering" /\ step[r] = "outside" BY <1>1
    <2>2. ~Working(r)' /\ ~Working(r) BY <2>1 DEF Working, SetupSteps, Phases
    <2>3. Named(r)' /\ Kept(r)'
      BY <1>2, <2>0, <2>2 DEF Mine, Named, Kept, Owned, NotNative, NotMapping
    <2>4. Progressed(r)'
      BY <1>2, <2>0, <2>1 DEF Mine, Progressed, SetupSteps, Phases, NotNative, NotMapping
    <2>5. Closes(r)'
      BY <1>2, <2>0, <2>1 DEF Mine, Closes, CloseSteps
    <2>6. Honest(r)' BY <1>4 DEF Honest
    <2> QED BY <2>3, <2>4, <2>5, <2>6 DEF Mine
  <1>8. \A r \in Ranks : SoonStep(r)' = First(r)'
    BY <1>1, <1>4 DEF SoonStep
  <1>9. ASSUME NEW r \in Ranks, NEW q \in Ranks,
               First(r)' # "outside", First(q)' # "outside"
        PROVE  /\ First(r)' = First(q)' \/ {First(r)', First(q)'} \subseteq Phases
               /\ First(r)' \notin {"gate"} \cup SetupSteps
    <2>1. /\ ticket'[r] # None => ticket'[r].phase \in Phases
          /\ ticket'[q] # None => ticket'[q].phase \in Phases
      BY <1>2 DEF TypeOK, Tickets
    <2>2. CASE call' = "prepare" BY <2>2 DEF First, SetupSteps
    <2>3. CASE call' = "capture" BY <2>3 DEF First, SetupSteps
    <2>4. CASE call' = "retry" BY <1>9, <2>1, <2>4 DEF First, SetupSteps, Phases
    <2>5. CASE call' \in {"rollback", "close"} BY <1>9, <2>5 DEF First, SetupSteps
    <2>6. CASE call' = "checkpoint" BY <1>9, <2>6 DEF First
    <2> QED BY <1>1, <2>2, <2>3, <2>4, <2>5, <2>6 DEF Ops
  <1>10. Meets'
    BY <1>8, <1>9 DEF Meets
  <1>11. Given' BY <1>4 DEF Given
  <1>12. ASSUME ~split, NEW r \in Ranks, NEW q \in Ranks PROVE Agree(r, q)'
    <2>1. Agree(r, q) BY <1>12 DEF Joint
    <2>a. /\ Mine(r) /\ Mine(q) /\ Len(chans[r]) \in Nat /\ Len(chans[q]) \in Nat
          /\ saved[r].len \in Nat /\ saved[q].len \in Nat
          /\ closed[r] \in BOOLEAN /\ closed[q] \in BOOLEAN
      BY Channels DEF Local, TypeOK
    <2>2. /\ Len(chans[r]) = Len(chans[q])
          /\ \A i \in 1..Len(chans[r]) :
                <<chans[r][i].id, chans[r][i].s[2]>> = <<chans[q][i].id, chans[q][i].s[2]>>
          /\ closed[r] = closed[q] /\ saved[r].len = saved[q].len
          /\ SoonTicket(r) = SoonTicket(q)
      <3>1. \A x \in Ranks : /\ SoonLen(x) = Len(chans[x]) /\ SoonSaved(x) = saved[x].len
                             /\ (closed[x] \in BOOLEAN => SoonClosed(x) = closed[x])
        BY <1>4 DEF SoonLen, Adopts, Drops, SoonSaved, SoonClosed
      <3>2. /\ Len(chans[r]) = Len(chans[q]) /\ closed[r] = closed[q] /\ saved[r].len = saved[q].len
            /\ SoonTicket(r) = SoonTicket(q)
        BY <2>1, <2>a, <3>1 DEF Agree
      <3>3. ASSUME NEW i \in 1..Len(chans[r])
            PROVE  <<chans[r][i].id, chans[r][i].s[2]>> = <<chans[q][i].id, chans[q][i].s[2]>>
        <4>1. i \in 1..SoonLen(r) /\ i <= Len(chans[r]) /\ i <= Len(chans[q]) BY <2>a, <3>1, <3>2
        <4>2. SoonChan(r, i) = SoonChan(q, i) BY <2>1, <4>1 DEF Agree
        <4> QED BY <4>1, <4>2 DEF SoonChan
      <3> QED BY <3>2, <3>3
    <2>3. \A x \in Ranks : SoonTicket(x) = IF ticket[x] = None THEN <<0, None>>
                                           ELSE <<ticket[x].s[2], ticket[x].phase>>
      BY <1>1, <1>4 DEF SoonTicket, Retains
    <2>4. /\ ticket[r] = None <=> ticket[q] = None
          /\ ticket[r] # None => ticket[r].s[2] = ticket[q].s[2] /\ ticket[r].phase = ticket[q].phase
      <3>1. \A x \in Ranks : ticket[x] # None => ticket[x].s[2] # 0
        BY DEF TypeOK, Tickets, Setups, Numbers
      <3> QED BY <2>2, <2>3, <3>1
    <2>5. /\ \A x \in Ranks : ~Adopts(x)' /\ ~Retains(x)' /\ step'[x] # "free"
      BY <1>1 DEF Adopts, Retains, Phases
    <2>6. (ToClose(r) = {})' <=> (ToClose(q) = {})'
      <3> DEFINE k == (IF call = "close" THEN 1 ELSE saved[r].len + 1)'
      <3>0. k \in Nat BY <1>2, <2>a
      <3>1. ToClose(r)' = {chans[r][i].s : i \in k..Len(chans[r])} BY <1>2 DEF ToClose
      <3>2. ToClose(q)' = {chans[q][i].s : i \in k..Len(chans[r])} BY <1>2, <2>2 DEF ToClose
      <3> HIDE DEF k
      <3> QED BY <3>1, <3>2
    <2>7. Drops(r)' <=> Drops(q)'
      BY <1>1, <1>2, <1>4, <2>2, <2>6 DEF Drops
    <2>8. SoonStep(r)' = SoonStep(q)'
      <3>1. First(r)' = First(q)' BY <1>2, <2>2, <2>4, <2>6 DEF First
      <3> QED BY <1>8, <3>1
    <2>9. SoonLen(r)' = SoonLen(q)' /\ SoonLen(r)' \in 0..Len(chans[r])
      <3>1. SoonLen(r)' = SoonLen(q)' BY <1>2, <2>2, <2>5, <2>7 DEF SoonLen
      <3>2. Drops(r)' => saved[r].len <= Len(chans[r])
        BY <1>1, <1>2, <2>a DEF Drops, Mine, Closes
      <3> QED BY <1>2, <2>a, <2>5, <3>1, <3>2 DEF SoonLen
    <2>10. \A i \in 1..SoonLen(r)' : SoonChan(r, i)' = SoonChan(q, i)'
      <3> SUFFICES ASSUME NEW i \in 1..SoonLen(r)' PROVE SoonChan(r, i)' = SoonChan(q, i)'
        OBVIOUS
      <3>1. i \in 1..Len(chans[r]) /\ i <= Len(chans[r]) /\ i <= Len(chans[q]) BY <2>a, <2>2, <2>9
      <3> QED BY <1>2, <2>2, <3>1 DEF SoonChan
    <2>11. SoonClosed(r)' = SoonClosed(q)'
      BY <1>2, <2>2, <2>7 DEF SoonClosed
    <2>12. SoonTicket(r)' = SoonTicket(q)'
      <3>1. \A x \in Ranks : SoonTicket(x)' = IF ticket[x] = None THEN <<0, None>>
                                             ELSE <<ticket[x].s[2], ticket[x].phase>>
        BY <1>2, <2>5 DEF SoonTicket
      <3> QED BY <2>2, <2>3, <3>1
    <2>13. SoonSaved(r)' = SoonSaved(q)'
      BY <1>1, <1>2, <1>4, <2>2 DEF SoonSaved
    <2>14. SoonStep(r)' \in SetupSteps \cup Phases => SoonNumber(r)' = SoonNumber(q)'
      <3>1. ASSUME SoonStep(r)' \in SetupSteps \cup Phases
            PROVE  SoonNumber(r)' = SoonNumber(q)'
        <4>1. ticket[r] # None
          BY <1>2, <1>8, <3>1 DEF First, SetupSteps, Phases
        <4> QED BY <1>1, <1>2, <1>4, <2>4, <4>1 DEF SoonNumber
      <3> QED BY <3>1
    <2> QED BY <2>8, <2>9, <2>10, <2>11, <2>12, <2>13, <2>14 DEF Agree
  <1>13. ~split => (Paired /\ Backed)'
    BY <1>2 DEF Joint, Paired, Backed
  <1>14. Handed' BY <1>4 DEF Handed
  <1>15. Joint' BY <1>1, <1>12, <1>13, <1>14 DEF Joint
  <1> QED BY <1>5, <1>6, <1>7, <1>10, <1>11, <1>15

-----------------------------------------------------------------------------
(* An exchange that raises on R. *)
Exchanged(R) ==
    /\ \A r \in Ranks : Waits(r)
    /\ io' = [r \in Ranks |-> IF r \in R THEN <<"raise">>
                              ELSE <<"heard", [q \in Ranks |-> io[q][2]]>>]
    /\ UNCHANGED <<call, step, frame, poolVars, ticket, memVars, calls>>

(* All are in the same exchange, or undo what their tickets say. *)
LEMMA Together ==
    ASSUME IInv, NEW R \in SUBSET Ranks, Exchanged(R)
    PROVE  /\ \A r \in Ranks : /\ step[r] \in Posting /\ step[r] \notin {"entering", "outside"}
                               /\ ~Acts(r) /\ Acts(r)' /\ ~Waits(r)'
                               /\ SoonStep(r) = step[r] /\ Knows(r) /\ Said(r) = io[r][2]
                               /\ Heard(r)' <=> r \notin R
                               /\ Passed(r)' <=> r \notin R /\ \A q \in Ranks : Said(q)
                               /\ Failed(r)' <=> r \notin R /\ \E q \in Ranks : ~Said(q)
                               /\ r \notin R => \A q \in Ranks : io'[r][2][q] = Said(q)
           /\ \A r, q \in Ranks :
                /\ step[r] = step[q] \/ {step[r], step[q]} \subseteq Phases
                /\ step[r] \in {"gate"} \cup SetupSteps => frame[r].todo = frame[q].todo
  <1> USE DEF IInv
  <1>1. ASSUME NEW r \in Ranks
        PROVE  /\ step[r] \in Posting /\ step[r] \notin {"entering", "outside"}
               /\ ~Acts(r) /\ Acts(r)' /\ ~Waits(r)'
               /\ SoonStep(r) = step[r] /\ Knows(r) /\ Said(r) = io[r][2]
               /\ Heard(r)' <=> r \notin R
               /\ r \notin R => \A q \in Ranks : io'[r][2][q] = io[q][2]
    <2>1. step[r] \in Posting BY DEF Exchanged, IoOK, Waits
    <2>2. step[r] \notin {"entering", "outside"} BY <2>1 DEF Posting, SetupSteps, CloseSteps, Phases
    <2>3. ~Acts(r) /\ Knows(r) /\ Said(r) = io[r][2] BY DEF Exchanged, Acts, Knows, Said
    <2>4. SoonStep(r) = step[r] BY <2>3 DEF SoonStep
    <2>5. io'[r] = IF r \in R THEN <<"raise">> ELSE <<"heard", [q \in Ranks |-> io[q][2]]>>
      BY DEF Exchanged
    <2>6. ~Waits(r)' /\ (Heard(r)' <=> r \notin R) BY <2>5 DEF Waits, Heard
    <2>7. Acts(r)' BY <2>2, <2>6 DEF Acts, Exchanged
    <2> QED BY <2>1, <2>2, <2>3, <2>4, <2>5, <2>6, <2>7
  <1>2. ASSUME NEW r \in Ranks
        PROVE  /\ Passed(r)' <=> r \notin R /\ \A q \in Ranks : Said(q)
               /\ Failed(r)' <=> r \notin R /\ \E q \in Ranks : ~Said(q)
               /\ r \notin R => \A q \in Ranks : io'[r][2][q] = Said(q)
    BY <1>1 DEF Passed, Failed
  <1>3. ASSUME NEW r \in Ranks, NEW q \in Ranks
        PROVE  /\ step[r] = step[q] \/ {step[r], step[q]} \subseteq Phases
               /\ step[r] \in {"gate"} \cup SetupSteps => frame[r].todo = frame[q].todo
    <2>1. SoonTodo(r) = frame[r].todo /\ SoonTodo(q) = frame[q].todo BY <1>1 DEF SoonTodo
    <2> QED BY <1>1, <2>1 DEF Meets
  <1> QED BY <1>1, <1>2, <1>3

(* Two that have heard the same, at the same exchange, go the same way. *)
LEMMA HeardAlike ==
    ASSUME IInv, NEW R \in SUBSET Ranks, Exchanged(R),
           NEW r \in Ranks \ R, NEW q \in Ranks \ R, step[r] = step[q]
    PROVE  /\ SoonStep(r)' = SoonStep(q)'
           /\ SoonStep(r)' \in {"gate"} \cup SetupSteps => SoonTodo(r)' = SoonTodo(q)'
  <1> USE DEF IInv
  <1>1. /\ \A x \in Ranks : /\ step[x] \in Posting /\ step[x] \notin {"entering", "outside"}
                            /\ Acts(x)' /\ Knows(x)
                            /\ Heard(x)' <=> x \notin R
                            /\ Passed(x)' <=> x \notin R /\ \A y \in Ranks : Said(y)
                            /\ Failed(x)' <=> x \notin R /\ \E y \in Ranks : ~Said(y)
                            /\ x \notin R => \A y \in Ranks : io'[x][2][y] = Said(y)
        /\ \A x, y \in Ranks :
             /\ step[x] = step[y] \/ {step[x], step[y]} \subseteq Phases
             /\ step[x] \in {"gate"} \cup SetupSteps => frame[x].todo = frame[y].todo
    BY Together
  <1>2. /\ step' = step /\ frame' = frame /\ \A x \in Ranks : Catalog(x)' = Catalog(x)
    BY DEF Exchanged, Catalog, poolVars
  <1>3. /\ Acts(r)' /\ Acts(q)' /\ Heard(r)' /\ Heard(q)'
        /\ Passed(r)' <=> Passed(q)'
        /\ Failed(r)' <=> Failed(q)'
    BY <1>1
  <1>4. CASE step[r] = "contract"
    <2>1. \A x \in Ranks : step[x] = "contract"
      BY <1>1, <1>4 DEF Phases
    <2>2. \A x \in Ranks : Said(x) = [ids |-> frame[x].todo, catalog |-> Catalog(x)]
      BY <1>1, <2>1 DEF Local, Mine, Honest
    <2>3. /\ Same(r)' <=> \A x \in Ranks : Said(x) = Said(r)
          /\ Same(q)' <=> \A x \in Ranks : Said(x) = Said(q)
      BY <1>1, <1>3 DEF Same
    <2>4. Same(r)' <=> Same(q)'
      BY <2>3
    <2>5. Same(r)' => frame[r].todo = frame[q].todo /\ Catalog(r) = Catalog(q)
      <3>1. Same(r)' => Said(q) = Said(r) BY <2>3
      <3>2. Said(q) = Said(r) => frame[r].todo = frame[q].todo /\ Catalog(r) = Catalog(q)
        BY <2>2
      <3> QED BY <3>1, <3>2
    <2>6. /\ Remaining(r, frame[r].todo)' = frame[r].todo \ Catalog(r)
          /\ Remaining(q, frame[q].todo)' = frame[q].todo \ Catalog(q)
      BY <1>2 DEF Remaining
    <2>7. /\ SoonStep(r)' = IF Same(r)' /\ Remaining(r, frame[r].todo)' # {} THEN "gate" ELSE "outside"
          /\ SoonStep(q)' = IF Same(q)' /\ Remaining(q, frame[q].todo)' # {} THEN "gate" ELSE "outside"
      BY <1>2, <1>3, <1>4, <2>1 DEF SoonStep
    <2>8. SoonTodo(r)' = Remaining(r, frame[r].todo)' /\ SoonTodo(q)' = Remaining(q, frame[q].todo)'
      BY <1>2, <1>3, <2>1 DEF SoonTodo
    <2> QED BY <2>4, <2>5, <2>6, <2>7, <2>8 DEF SetupSteps
  <1>5. CASE step[r] = "request"
    <2>1. \A x \in Ranks : step[x] = "request"
      BY <1>1, <1>5 DEF Phases
    <2>2. \A x \in Ranks : Said(x).id = frame[x].id /\ Said(x).catalog = Catalog(x)
      BY <1>1, <2>1 DEF Local, Mine, Honest
    <2>3. \A x \in {r, q} : \A y \in Ranks : io'[x][2][y].id = frame[y].id /\ io'[x][2][y].catalog = Catalog(y)
      BY <1>1, <2>2
    <2>4. \A x \in {r, q} :
            Fresh(x)' <=> /\ \A y \in Ranks : Catalog(y) = Catalog(x)
                          /\ ~ \A y \in Ranks : frame[y].id \in Catalog(x)
                          /\ \A y \in Ranks : frame[y].id = frame[x].id
      BY <1>2, <1>3, <2>3 DEF Fresh
    <2>5. Fresh(r)' <=> Fresh(q)' BY <2>4
    <2>6. \A x \in {r, q} : SoonStep(x)' = IF Fresh(x)' THEN "validate" ELSE "outside"
      BY <1>2, <1>3, <2>1 DEF SoonStep
    <2> QED BY <2>5, <2>6 DEF SetupSteps
  <1>6. CASE step[r] \notin {"contract", "request", "init"}
    <2>1. SoonStep(r)' = SoonStep(q)'
      BY <1>1, <1>2, <1>3, <1>6 DEF SoonStep
    <2>2. SoonStep(r)' \in {"gate"} \cup SetupSteps => step[r] \in {"gate"} \cup SetupSteps
      BY <1>1, <1>2, <1>3, <1>6 DEF SoonStep, SetupSteps
    <2>3. SoonTodo(r)' = frame[r].todo /\ SoonTodo(q)' = frame[q].todo
      BY <1>2, <1>6 DEF SoonTodo
    <2> QED BY <1>1, <2>1, <2>2, <2>3
  <1>7. CASE step[r] = "init"
    <2>1. frame[r].todo = frame[q].todo BY <1>1, <1>7 DEF SetupSteps
    <2>2. SoonStep(r)' = SoonStep(q)'
      BY <1>2, <1>3, <1>7, <2>1 DEF SoonStep
    <2>3. SoonTodo(r)' = SoonTodo(q)'
      BY <1>2, <1>3, <1>7, <2>1 DEF SoonTodo
    <2> QED BY <2>2, <2>3
  <1> QED BY <1>4, <1>5, <1>6, <1>7

(* One that has heard nothing leaves. *)
LEMMA RaisedLeaves ==
    ASSUME IInv, NEW R \in SUBSET Ranks, Exchanged(R), NEW r \in R
    PROVE  SoonStep(r)' = "outside"
  <1>1. /\ step[r] \notin {"entering", "outside"} /\ Acts(r)' /\ ~Heard(r)'
        /\ ~Passed(r)' /\ ~Failed(r)' /\ step' = step
    BY Together DEF Exchanged
  <1>2. ~Same(r)' /\ ~Fresh(r)' BY <1>1 DEF Same, Fresh
  <1> QED BY <1>1, <1>2 DEF SoonStep

(* An exchange keeps what every rank knows of itself, and where they meet. *)
LEMMA ExchangeMeets ==
    ASSUME IInv, NEW R \in SUBSET Ranks, Exchanged(R)
    PROVE  IoOK' /\ Local' /\ Meets' /\ Given'
  <1> USE DEF IInv
  <1>1. /\ \A x \in Ranks : /\ step[x] \in Posting /\ step[x] \notin {"entering", "outside"}
                            /\ Acts(x)' /\ ~Waits(x)' /\ Knows(x) /\ Said(x) = io[x][2]
                            /\ Heard(x)' <=> x \notin R
                            /\ Passed(x)' <=> x \notin R /\ \A y \in Ranks : Said(y)
                            /\ x \notin R => \A y \in Ranks : io'[x][2][y] = Said(y)
        /\ \A x, y \in Ranks : step[x] = step[y] \/ {step[x], step[y]} \subseteq Phases
    BY Together
  <1>2. /\ chans' = chans /\ saved' = saved /\ closed' = closed /\ live' = live /\ native' = native
        /\ maps' = maps /\ step' = step /\ frame' = frame /\ ticket' = ticket /\ call' = call
    BY DEF Exchanged, poolVars, memVars
  <1>3. IoOK'
    BY <1>1, <1>2 DEF IoOK, Exchanged
  <1>4. Local'
    <2> SUFFICES ASSUME NEW q \in Ranks PROVE Mine(q)'
      BY DEF Local
    <2>0. Mine(q) BY DEF Local
    <2>1. Named(q)' /\ Kept(q)' /\ Progressed(q)' /\ Closes(q)'
      BY <1>2, <2>0 DEF Mine, Named, Kept, Progressed, Closes, Owned, Catalog, ToClose, Working,
         NotNative, NotMapping, Released
    <2>2. Knows(q) /\ (Knows(q)' => Said(q)' = Said(q))
      BY <1>1 DEF Knows, Said
    <2>3. Honest(q)'
      BY <1>2, <2>0, <2>2 DEF Mine, Honest, Catalog, NotNative, NotMapping, Released
    <2> QED BY <2>1, <2>3 DEF Mine
  <1>5. Meets'
    <2> SUFFICES ASSUME NEW x \in Ranks, NEW q \in Ranks, SoonStep(x)' # "outside", SoonStep(q)' # "outside"
                 PROVE  /\ SoonStep(x)' = SoonStep(q)' \/ {SoonStep(x)', SoonStep(q)'} \subseteq Phases
                        /\ SoonStep(x)' \in {"gate"} \cup SetupSteps => SoonTodo(x)' = SoonTodo(q)'
      BY DEF Meets
    <2>1. x \in Ranks \ R /\ q \in Ranks \ R BY RaisedLeaves
    <2>2. CASE step[x] = step[q] BY <2>1, <2>2, HeardAlike
    <2>3. CASE step[x] \in Phases /\ step[q] \in Phases
      <3>1. \A y \in {x, q} : SoonStep(y)' \in {"unmap", "free", "outside"}
        BY <1>1, <1>2, <2>3 DEF SoonStep, Phases
      <3> QED BY <3>1 DEF Phases, SetupSteps
    <2> QED BY <1>1, <2>2, <2>3
  <1>6. Given'
    <2> SUFFICES ASSUME NEW x \in Ranks, NEW q \in Ranks, step'[x] = "handles", Heard(x)'
                 PROVE  io'[x][2][q] \in Setups
      BY DEF Given
    <2>1. io'[x][2][q] = Said(q) /\ step[q] = "handles" BY <1>1, <1>2 DEF Phases
    <2>2. Said(q) = frame[q].s /\ frame[q].s \in Setups
      BY <1>1, <2>1 DEF Local, Mine, Honest, Named, Working, SetupSteps
    <2> QED BY <2>1, <2>2
  <1> QED BY <1>3, <1>4, <1>5, <1>6

(* What two ranks that agree and wait at the same exchange have in common. *)
LEMMA Common ==
    ASSUME IInv, ~split, NEW R \in SUBSET Ranks, Exchanged(R), NEW r \in Ranks, NEW q \in Ranks
    PROVE  /\ step[r] = step[q] /\ closed[r] = closed[q] /\ saved[r].len = saved[q].len
           /\ Len(chans[r]) = Len(chans[q]) /\ Len(chans[r]) \in Nat
           /\ DOMAIN chans[r] = 1..Len(chans[r]) /\ DOMAIN chans[q] = 1..Len(chans[r])
           /\ \A i \in 1..Len(chans[r]) :
                <<chans[r][i].id, chans[r][i].s[2]>> = <<chans[q][i].id, chans[q][i].s[2]>>
           /\ (IF ticket[r] = None THEN <<0, None>> ELSE <<ticket[r].s[2], ticket[r].phase>>)
              = (IF ticket[q] = None THEN <<0, None>> ELSE <<ticket[q].s[2], ticket[q].phase>>)
           /\ step[r] \in SetupSteps \cup Phases => frame[r].s[2] = frame[q].s[2]
  <1> USE DEF IInv
  <1>1. Agree(r, q) BY DEF Joint
  <1>2. \A x \in {r, q} : /\ ~Acts(x) /\ SoonStep(x) = step[x] /\ SoonNumber(x) = frame[x].s[2]
                          /\ SoonLen(x) = Len(chans[x]) /\ SoonSaved(x) = saved[x].len
                          /\ SoonTicket(x) = IF ticket[x] = None THEN <<0, None>>
                                             ELSE <<ticket[x].s[2], ticket[x].phase>>
    BY Together DEF SoonNumber, SoonLen, Adopts, Drops, Retains, SoonSaved, SoonTicket
  <1>3. SoonClosed(r) = closed[r] /\ SoonClosed(q) = closed[q]
    BY <1>2 DEF SoonClosed, Drops, TypeOK
  <1>4. /\ Len(chans[r]) \in Nat /\ DOMAIN chans[r] = 1..Len(chans[r])
        /\ DOMAIN chans[q] = 1..Len(chans[q])
    BY Channels
  <1>5. Len(chans[r]) = Len(chans[q]) BY <1>1, <1>2 DEF Agree
  <1>6. ASSUME NEW i \in 1..Len(chans[r])
        PROVE  <<chans[r][i].id, chans[r][i].s[2]>> = <<chans[q][i].id, chans[q][i].s[2]>>
    <2>1. i \in 1..SoonLen(r) /\ i <= Len(chans[r]) /\ i <= Len(chans[q]) BY <1>2, <1>4, <1>5
    <2>2. SoonChan(r, i) = SoonChan(q, i) BY <1>1, <2>1 DEF Agree
    <2> QED BY <2>1, <2>2 DEF SoonChan
  <1> QED BY <1>1, <1>2, <1>3, <1>4, <1>5, <1>6 DEF Agree

(* So they agree still, when it raises on all ranks or on none. *)
LEMMA ExchangeAgree ==
    ASSUME IInv, ~split, NEW R \in {{}, Ranks}, Exchanged(R), NEW r \in Ranks, NEW q \in Ranks
    PROVE  Agree(r, q)'
  <1> USE DEF IInv
  <1>0. R \in SUBSET Ranks /\ (r \in R <=> q \in R) OBVIOUS
  <1> DEFINE Tick(x) == IF ticket[x] = None THEN <<0, None>> ELSE <<ticket[x].s[2], ticket[x].phase>>
  <1>1. /\ step[r] = step[q] /\ closed[r] = closed[q] /\ saved[r].len = saved[q].len
        /\ Len(chans[r]) = Len(chans[q]) /\ Len(chans[r]) \in Nat
        /\ DOMAIN chans[r] = 1..Len(chans[r]) /\ DOMAIN chans[q] = 1..Len(chans[r])
        /\ \A i \in 1..Len(chans[r]) :
             <<chans[r][i].id, chans[r][i].s[2]>> = <<chans[q][i].id, chans[q][i].s[2]>>
        /\ Tick(r) = Tick(q)
        /\ step[r] \in SetupSteps \cup Phases => frame[r].s[2] = frame[q].s[2]
    BY <1>0, Common
  <1>2. /\ \A x \in {r, q} : /\ step[x] \in Posting /\ step[x] \notin {"entering", "outside"}
                             /\ Acts(x)' /\ ~Waits(x)' /\ Knows(x)
                             /\ Heard(x)' <=> r \notin R
                             /\ Passed(x)' <=> r \notin R /\ \A y \in Ranks : Said(y)
        /\ step[r] \in {"gate"} \cup SetupSteps => frame[r].todo = frame[q].todo
    BY <1>0, Together
  <1>3. /\ chans' = chans /\ saved' = saved /\ closed' = closed
        /\ step' = step /\ frame' = frame /\ ticket' = ticket /\ call' = call
    BY DEF Exchanged, poolVars
  <1>4. /\ Heard(r)' <=> Heard(q)'
        /\ Passed(r)' <=> Passed(q)'
        /\ Acts(r)' /\ Acts(q)' /\ (Passed(r)' => Heard(r)')
    BY <1>2 DEF Passed
  <1>5. SoonStep(r)' = SoonStep(q)'
    <2>1. CASE r \in R BY <1>0, <2>1, RaisedLeaves
    <2>2. CASE r \notin R BY <1>0, <1>1, <2>2, HeardAlike
    <2> QED BY <2>1, <2>2
  <1>6. /\ Adopts(r)' <=> Adopts(q)'
        /\ Drops(r)' <=> Drops(q)'
        /\ Retains(r)' <=> Retains(q)'
        /\ Adopts(r)' => step[r] = "init"
        /\ Drops(r)' => step[r] = "closeEnd"
    BY <1>1, <1>2, <1>3, <1>4 DEF Adopts, Drops, Retains
  <1>7. SoonLen(r)' = SoonLen(q)' BY <1>1, <1>3, <1>6 DEF SoonLen
  <1>8. SoonLen(r)' \in Nat
        /\ \A i \in 1..SoonLen(r)' : i \in 1..Len(chans[r]) \/ (step[r] = "init" /\ i = Len(chans[r]) + 1)
    <2>1. CASE Adopts(r)' BY <1>1, <1>3, <1>6, <2>1 DEF SoonLen
    <2>2. CASE Drops(r)' /\ ~Adopts(r)'
      <3>1. saved[r].len <= Len(chans[r]) /\ saved[r].len \in Nat
        BY <1>6, <2>2 DEF Local, Mine, Closes, CloseSteps, TypeOK
      <3> QED BY <1>1, <1>3, <2>2, <3>1 DEF SoonLen
    <2>3. CASE ~Adopts(r)' /\ ~Drops(r)' BY <1>1, <1>3, <2>3 DEF SoonLen
    <2> QED BY <2>1, <2>2, <2>3
  <1>9. ASSUME NEW i \in 1..SoonLen(r)' PROVE SoonChan(r, i)' = SoonChan(q, i)'
    <2>1. CASE i \in 1..Len(chans[r])
      <3>1. i <= Len(chans[r]) /\ i <= Len(chans[q]) BY <1>1, <2>1
      <3> QED BY <1>1, <1>3, <2>1, <3>1 DEF SoonChan
    <2>2. CASE step[r] = "init" /\ i = Len(chans[r]) + 1
      <3>1. ~(i <= Len(chans[r])) /\ ~(i <= Len(chans[q])) BY <1>1, <2>2
      <3>2. frame[r].todo = frame[q].todo /\ frame[r].s[2] = frame[q].s[2]
        BY <1>1, <1>2, <2>2 DEF SetupSteps
      <3> QED BY <1>3, <3>1, <3>2 DEF SoonChan
    <2> QED BY <1>8, <2>1, <2>2
  <1>10. SoonClosed(r)' = SoonClosed(q)' BY <1>1, <1>3, <1>6 DEF SoonClosed
  <1>11. SoonTicket(r)' = SoonTicket(q)'
    <2>1. CASE Retains(r)'
      <3>1. step[r] \in SetupSteps \cup Phases BY <1>3, <2>1 DEF Retains, SetupSteps
      <3>2. frame[r].s[2] = frame[q].s[2] BY <1>1, <3>1
      <3> QED BY <1>1, <1>3, <1>6, <2>1, <3>2 DEF SoonTicket
    <2>2. CASE ~Retains(r)'
      <3>1. \A x \in {r, q} : SoonTicket(x)' = IF step[r] = "free" THEN <<0, None>> ELSE Tick(x)
        BY <1>1, <1>2, <1>3, <1>6, <2>2 DEF SoonTicket
      <3> HIDE DEF Tick
      <3> QED BY <1>1, <3>1
    <2> QED BY <2>1, <2>2
  <1>12. SoonSaved(r)' = SoonSaved(q)'
    BY <1>1, <1>2, <1>3 DEF SoonSaved
  <1>13. ASSUME SoonStep(r)' \in SetupSteps \cup Phases PROVE SoonNumber(r)' = SoonNumber(q)'
    <2>1. /\ r \notin R /\ step[r] \in {"gate"} \cup SetupSteps \cup Phases
          /\ step[r] = "gate" => Passed(r)'
      <3>1. r \notin R BY <1>0, <1>13, RaisedLeaves DEF SetupSteps, Phases
      <3>2. step[r] \in {"gate"} \cup SetupSteps \cup Phases /\ (step[r] = "gate" => Passed(r)')
        BY <1>2, <1>3, <1>13 DEF SoonStep, SetupSteps, Phases
      <3> QED BY <3>1, <3>2
    <2>2. CASE step[r] = "gate"
      <3>1. Said(r) /\ Said(q) BY <1>2, <2>1, <2>2
      <3>2. ticket[r] = None /\ ticket[q] = None
        BY <1>1, <1>2, <2>2, <3>1 DEF Local, Mine, Honest
      <3>3. \A i \in 1..Len(chans[r]) : chans[r][i].s[2] = chans[q][i].s[2] BY <1>1
      <3>4. Taken(r)' = Taken(q)'
        BY <1>1, <1>3, <3>2, <3>3 DEF Taken
      <3> QED BY <1>1, <1>2, <1>3, <2>2, <3>4 DEF SoonNumber
    <2>3. CASE step[r] # "gate"
      <3>1. frame[r].s[2] = frame[q].s[2] BY <1>1, <2>1, <2>3
      <3> QED BY <1>1, <1>2, <1>3, <2>3, <3>1 DEF SoonNumber
    <2> QED BY <2>2, <2>3
  <1> QED BY <1>5, <1>7, <1>9, <1>10, <1>11, <1>12, <1>13 DEF Agree

(* An exchange. *)
LEMMA ExchangeSound ==
    ASSUME IInv, Exchange
    PROVE  IInv'
  <1>1. PICK R \in SUBSET Ranks :
          /\ Trouble(R # {}) /\ Exchanged(R) /\ split' = (split \/ R \notin {{}, Ranks})
    BY DEF Exchange, Exchanged
  <1> USE DEF IInv
  <1>2. IoOK' /\ Local' /\ Meets' /\ Given' BY <1>1, ExchangeMeets
  <1>3. TypeOK'
    <2>1. faults' \in 0..MaxFaults BY <1>1 DEF Trouble, TypeOK
    <2>2. split' \in BOOLEAN BY <1>1 DEF TypeOK
    <2> QED BY <1>1, <2>1, <2>2 DEF TypeOK, Exchanged, poolVars, memVars
  <1>4. ASSUME ~split' PROVE (\A r, q \in Ranks : Agree(r, q)') /\ Paired' /\ Backed' /\ Handed'
    <2>1. ~split /\ R \in {{}, Ranks} BY <1>1, <1>4
    <2>2. \A r, q \in Ranks : Agree(r, q)' BY <1>1, <2>1, ExchangeAgree
    <2>3. Paired' /\ Backed'
      BY <1>1, <2>1 DEF Joint, Paired, Backed, Exchanged, memVars
    <2>4. Handed'
      <3> SUFFICES ASSUME NEW r \in Ranks, NEW q \in Ranks, step'[r] = "handles", Heard(r)'
                   PROVE  io'[r][2][q] = frame'[q].s
        BY DEF Handed
      <3>1. step' = step /\ frame' = frame BY <1>1 DEF Exchanged
      <3>2. io'[r][2][q] = Said(q) /\ Knows(q) BY <1>1, Together
      <3>3. step[q] = "handles" BY <1>1, <2>1, <3>1, Common
      <3>4. Said(q) = frame[q].s BY <3>2, <3>3 DEF Local, Mine, Honest
      <3> QED BY <3>1, <3>2, <3>4
    <2> QED BY <2>2, <2>3, <2>4
  <1>5. Joint' BY <1>4 DEF Joint
  <1> QED BY <1>2, <1>3, <1>5

-----------------------------------------------------------------------------
(* The invariant holds at the start. *)
LEMMA InitInv == Init => IInv
  <1> SUFFICES ASSUME Init PROVE IInv
    OBVIOUS
  <1>1. TypeOK
    <2>1. NoFrame \in Frames BY DEF NoFrame, Frames
    <2>2. << >> \in Seq([id : Ids, s : Setups]) OBVIOUS
    <2>3. /\ step \in [Ranks -> Steps \cup {"outside", "entering"}]
          /\ frame \in [Ranks -> Frames] /\ chans \in [Ranks -> Seq([id : Ids, s : Setups])]
      BY <2>1, <2>2 DEF Init
    <2>4. /\ captured \in [Ranks -> SUBSET Ids] /\ closed \in [Ranks -> BOOLEAN]
          /\ saved \in [Ranks -> [len : Nat, captured : SUBSET Ids]]
          /\ ticket \in [Ranks -> Tickets \cup {None}]
      BY DEF Init
    <2>5. /\ call \in Ops \cup {None} /\ live \subseteq Setups /\ native \subseteq Setups
          /\ maps \subseteq Setups \X Setups /\ faults \in 0..MaxFaults /\ calls \in 0..MaxCalls
          /\ split \in BOOLEAN
      <3>1. call = None /\ live = {} /\ native = {} /\ maps = {} /\ split = FALSE BY DEF Init
      <3>2. faults = 0 /\ calls = 0 BY DEF Init
      <3>3. 0 \in 0..MaxFaults /\ 0 \in 0..MaxCalls OBVIOUS
      <3> QED BY <3>1, <3>2, <3>3
    <2> QED BY <2>3, <2>4, <2>5 DEF TypeOK
  <1>2. \A r \in Ranks : /\ step[r] = "outside" /\ io[r] = Calm /\ frame[r] = NoFrame
                         /\ chans[r] = << >> /\ saved[r].len = 0 /\ closed[r] = FALSE
                         /\ ticket[r] = None
    BY DEF Init
  <1>3. live = {} /\ maps = {} /\ native = {} BY DEF Init
  <1>4. IoOK BY <1>2 DEF Init, IoOK, Calm, Posting, SetupSteps, CloseSteps, Phases
  <1>5. \A r \in Ranks : ~Waits(r) /\ ~Heard(r) /\ ~Acts(r) /\ ~Working(r) /\ ~Knows(r)
    BY <1>2 DEF Calm, Waits, Heard, Acts, Working, Knows, SetupSteps, Phases
  <1>6. Local
    <2> SUFFICES ASSUME NEW r \in Ranks PROVE Mine(r)
      BY DEF Local
    <2>1. Named(r) BY <1>2, <1>5 DEF Named
    <2>2. Kept(r) BY <1>3 DEF Kept, NotNative, NotMapping
    <2>3. Progressed(r) /\ Closes(r) /\ Honest(r)
      BY <1>2, <1>5 DEF Progressed, Closes, Honest, SetupSteps, CloseSteps, Phases
    <2> QED BY <2>1, <2>2, <2>3 DEF Mine
  <1>7. \A r \in Ranks : SoonStep(r) = "outside" /\ SoonLen(r) = 0 /\ SoonClosed(r) = FALSE
                         /\ SoonTicket(r) = <<0, None>> /\ SoonSaved(r) = 0
    BY <1>2, <1>5 DEF SoonStep, SoonLen, SoonClosed, SoonTicket, SoonSaved, Adopts, Drops, Retains
  <1>8. Meets /\ Given BY <1>5, <1>7 DEF Meets, Given
  <1>9. Joint
    <2>1. ASSUME NEW r \in Ranks, NEW q \in Ranks PROVE Agree(r, q)
      <3>1. 1..SoonLen(r) = {} BY <1>7
      <3>2. "outside" \notin SetupSteps \cup Phases BY DEF SetupSteps, Phases
      <3> QED BY <1>7, <3>1, <3>2 DEF Agree
    <2>2. Paired /\ Backed /\ Handed BY <1>3, <1>5 DEF Paired, Backed, Handed
    <2> QED BY <2>1, <2>2 DEF Joint
  <1> QED BY <1>1, <1>4, <1>6, <1>8, <1>9 DEF IInv

(* Every step keeps it. *)
LEMMA NextInv == IInv /\ [Next]_vars => IInv'
  <1> SUFFICES ASSUME IInv, [Next]_vars PROVE IInv'
    OBVIOUS
  <1>1. CASE \E op \in Ops : Call(op) BY <1>1, CallSound
  <1>2. CASE Exchange BY <1>2, ExchangeSound
  <1>3. CASE \E r \in Ranks : Step(r) BY <1>3, StepJoint
  <1>4. CASE \E r \in Ranks : TimesOut(r) BY <1>4, TimesOutSound
  <1>5. CASE UNCHANGED vars
    <2>1. /\ call' = call /\ step' = step /\ io' = io /\ frame' = frame /\ chans' = chans
          /\ captured' = captured /\ saved' = saved /\ closed' = closed /\ ticket' = ticket
          /\ live' = live /\ maps' = maps /\ native' = native /\ faults' = faults
          /\ calls' = calls /\ split' = split
      BY <1>5 DEF vars, poolVars, memVars
    <2>2. TypeOK' BY <2>1 DEF IInv, TypeOK
    <2>3. IoOK' BY <2>1 DEF IInv, IoOK
    <2>4. Local'
      BY <2>1 DEF IInv, Local, Mine, Named, Kept, Progressed, Closes, Honest, Owned, Catalog, ToClose,
         Working, NotNative, NotMapping, Released, Knows, Said, Waits, Heard
    <2>5. \A q \in Ranks : Still(q)
      <3>1. \A r \in Ranks : OnlyRank(r) BY <2>1 DEF OnlyRank
      <3>2. \A q \in Ranks : \E r \in Ranks : r # q
        <4> SUFFICES ASSUME NEW q \in Ranks, \A r \in Ranks : r = q PROVE FALSE
          OBVIOUS
        <4>1. Ranks = {q} OBVIOUS
        <4>2. Cardinality(Ranks) = 1 BY <4>1, FS_Singleton
        <4> QED BY <4>2
      <3> QED BY <3>1, <3>2, OthersStill
    <2>6. Meets' /\ \A r, q \in Ranks : Agree(r, q) => Agree(r, q)' BY <2>5, StillAgree DEF IInv
    <2>7. Given' BY <2>1 DEF IInv, Given, Heard
    <2>8. Joint' BY <2>1, <2>6 DEF IInv, Joint, Paired, Backed, Handed, Heard
    <2> QED BY <2>2, <2>3, <2>4, <2>6, <2>7, <2>8 DEF IInv
  <1> QED BY <1>1, <1>2, <1>3, <1>4, <1>5 DEF Next, Work

(* The inductive invariant, for any ranks, channels, faults and calls. *)
THEOREM Invariant == Spec => []IInv
  BY InitInv, NextInv, PTL DEF Spec

(* Every variable keeps its type: what a rank retains is a setup and a phase, what it *)
(* works on is a setup of the finite stock of numbers that are used again.            *)
THEOREM Typed == Spec => []TypeOK
  BY Invariant, PTL DEF IInv

(* MemoryIsSound: no memory, mapping or runtime of a setup outlives the channel or the *)
(* ticket that knows of it, and, as long as every exchange raised on all ranks or on   *)
(* none, no export is freed while a peer has it mapped or a runtime uses it.           *)
THEOREM MemorySound == Spec => []MemoryIsSound
  <1>1. IInv => MemoryIsSound
    <2> SUFFICES ASSUME IInv PROVE MemoryIsSound
      OBVIOUS
    <2>1. NothingLeaked
      <3> SUFFICES ASSUME NEW r \in Ranks, step[r] = "outside",
                          NEW s \in live \cup native \cup {m[1] : m \in maps}, s[1] = r
                   PROVE  s \in Owned(r)
        BY DEF NothingLeaked
      <3>1. s \in Setups BY DEF IInv, TypeOK
      <3>2. s \in live \/ ~NotNative(s) \/ ~NotMapping(s) BY DEF NotNative, NotMapping
      <3>3. ~Working(r) BY DEF Working, SetupSteps, Phases
      <3> QED BY <3>1, <3>2, <3>3 DEF IInv, Local, Mine, Kept
    <2>2. MappedIsLive BY DEF IInv, Joint, Backed, MappedIsLive
    <2> QED BY <2>1, <2>2 DEF MemoryIsSound
  <1> QED BY <1>1, Invariant, PTL

(* RanksAgree: as long as every exchange raised on all ranks or on none, the ranks that *)
(* wait wait for the same exchange and for nobody who has left, and between calls they  *)
(* agree on channels, on being closed, and on the phase of what they have to undo.      *)
THEOREM InAgreement == Spec => []RanksAgree
  <1>1. IInv => RanksAgree
    <2> SUFFICES ASSUME IInv, ~split PROVE InStep /\ (Outside => \A r, q \in Ranks :
                    Phase(r) = Phase(q) /\ Names(r) = Names(q) /\ closed[r] = closed[q])
      BY DEF RanksAgree
    <2>0. \A r, q \in Ranks : Agree(r, q) BY DEF IInv, Joint
    <2>1. InStep
      <3> SUFFICES ASSUME NEW r \in Ranks, NEW q \in Ranks, Waits(r)
                   PROVE  (Waits(q) => step[q] = step[r]) /\ step[q] # "outside"
        BY DEF InStep
      <3>1. step[r] # "outside"
        BY DEF IInv, IoOK, Waits, Posting, SetupSteps, CloseSteps, Phases
      <3>2. SoonStep(r) = step[r] /\ SoonStep(r) = SoonStep(q) BY <2>0 DEF SoonStep, Acts, Agree
      <3>3. ~Acts(q) => SoonStep(q) = step[q] BY DEF SoonStep
      <3> QED BY <3>1, <3>2, <3>3 DEF Acts
    <2>2. ASSUME Outside, NEW r \in Ranks, NEW q \in Ranks
          PROVE  Phase(r) = Phase(q) /\ Names(r) = Names(q) /\ closed[r] = closed[q]
      <3>1. ~Acts(r) /\ ~Acts(q) BY <2>2 DEF Outside, Acts
      <3>2. Agree(r, q) BY <2>0
      <3>3. /\ SoonLen(r) = Len(chans[r]) /\ SoonLen(q) = Len(chans[q])
            /\ (SoonClosed(r) <=> closed[r]) /\ (SoonClosed(q) <=> closed[q])
            /\ SoonTicket(r) = IF ticket[r] = None THEN <<0, None>> ELSE <<ticket[r].s[2], ticket[r].phase>>
            /\ SoonTicket(q) = IF ticket[q] = None THEN <<0, None>> ELSE <<ticket[q].s[2], ticket[q].phase>>
        BY <3>1 DEF SoonLen, SoonClosed, SoonTicket, Adopts, Drops, Retains
      <3>4. closed[r] = closed[q]
        BY <3>2, <3>3 DEF Agree, IInv, TypeOK
      <3>5. Phase(r) = Phase(q)
        <4>1. Phase(r) = SoonTicket(r)[2] /\ Phase(q) = SoonTicket(q)[2] BY <3>3 DEF Phase
        <4> QED BY <3>2, <4>1 DEF Agree
      <3>6. Names(r) = Names(q)
        <4>1. /\ Len(chans[r]) \in Nat /\ DOMAIN chans[r] = 1..Len(chans[r])
              /\ DOMAIN chans[q] = 1..Len(chans[q]) /\ Len(chans[r]) = Len(chans[q])
          BY <3>2, <3>3, Channels DEF IInv, Agree
        <4>2. ASSUME NEW i \in 1..Len(chans[r]) PROVE chans[r][i].id = chans[q][i].id
          <5>1. i \in 1..SoonLen(r) /\ i <= Len(chans[r]) /\ i <= Len(chans[q]) BY <3>3, <4>1
          <5>2. SoonChan(r, i) = SoonChan(q, i) BY <3>2, <5>1 DEF Agree
          <5> QED BY <5>1, <5>2 DEF SoonChan
        <4> QED BY <4>1, <4>2 DEF Names
      <3> QED BY <3>4, <3>5, <3>6
    <2> QED BY <2>1, <2>2
  <1> QED BY <1>1, Invariant, PTL
=============================================================================
