------------------------- MODULE EngineSteps_proof --------------------------
(***************************************************************************)
(* What every action of the engine does, stated as facts about the next    *)
(* state, and that each keeps Base: the types, the queues, the step being  *)
(* scheduled, the partition of the blocks, and what the steps on their way *)
(* may write.                                                              *)
(***************************************************************************)
EXTENDS EngineInv, SequenceTheorems, FiniteSetTheorems, WellFoundedInduction, TLAPS

-----------------------------------------------------------------------------
(* Numbers, finite sets and queues.                                          *)

(* Numbers and sets of them                                                 *)
(* The order of the naturals has no infinite descent.                       *)
Descent == {p \in Nat \X Nat : p[1] < p[2]}

(* The order of the naturals is well-founded.                                *)
LEMMA NoDescent == IsWellFoundedOn(Descent, Nat)
  BY NatLessThanWellFounded DEF OpToRel, Descent

(* A set of naturals has a least element, which Min returns.                *)
LEMMA LeastOf ==
    ASSUME NEW S \in SUBSET Nat, S # {}
    PROVE  Min(S) \in S /\ \A y \in S : Min(S) <= y
  <1>1. PICK x \in S : \A y \in S : <<y, x>> \notin Descent
    BY NoDescent, WFMin
  <1>2. ASSUME NEW y \in S PROVE x <= y
    <2>1. x \in Nat /\ y \in Nat OBVIOUS
    <2>2. <<y, x>> \in Nat \X Nat /\ <<y, x>>[1] = y /\ <<y, x>>[2] = x BY <2>1
    <2>3. y < x => <<y, x>> \in Descent BY <2>2 DEF Descent
    <2> QED BY <1>1, <2>1, <2>3
  <1> QED BY <1>2 DEF Min

(* Min of two numbers is at most each of them.                               *)
LEMMA MinOfTwo ==
    ASSUME NEW a \in Nat, NEW b \in Nat
    PROVE  Min({a, b}) \in Nat /\ Min({a, b}) <= a /\ Min({a, b}) <= b /\ Min({a, b}) \in {a, b}
  BY LeastOf

(* Min of three numbers is at most each of them.                             *)
LEMMA MinOfThree ==
    ASSUME NEW a \in Nat, NEW b \in Nat, NEW c \in Nat
    PROVE  LET m == Min({a, b, c}) IN m \in Nat /\ m <= a /\ m <= b /\ m <= c
  BY LeastOf

(* A finite set of naturals has an increasing enumeration.                  *)
Enumerates(f, n, S) == f \in [1..n -> S] /\ \A i, j \in 1..n : i < j => f[i] < f[j]

(* The sizes of the sets that had none.                                      *)
Unordered == {n \in Nat : \E S \in SUBSET Nat :
                 IsFiniteSet(S) /\ Cardinality(S) = n /\ ~(\E f : Enumerates(f, n, S))}

(* Every finite set of naturals has an increasing enumeration, so InOrder is *)
(* one.                                                                      *)
LEMMA Ordered ==
    ASSUME NEW S \in SUBSET Nat, IsFiniteSet(S)
    PROVE  \E f : Enumerates(f, Cardinality(S), S)
  <1>1. SUFFICES ASSUME Unordered # {} PROVE FALSE
    BY FS_CardinalityType DEF Unordered
  <1> DEFINE n == Min(Unordered)
  <1>2. n \in Unordered /\ \A m \in Unordered : n <= m BY <1>1, LeastOf DEF Unordered
  <1> HIDE DEF n
  <1>3. n \in Nat BY <1>2 DEF Unordered
  <1>4. PICK T \in SUBSET Nat : IsFiniteSet(T) /\ Cardinality(T) = n /\ ~(\E f : Enumerates(f, n, T))
    BY <1>2 DEF Unordered
  <1>5. CASE n = 0
    <2> DEFINE e == [i \in 1..0 |-> 0]
    <2>1. Enumerates(e, 0, T) BY DEF Enumerates
    <2> QED BY <1>4, <1>5, <2>1
  <1>6. CASE n # 0
    <2>1. T # {} BY <1>4, <1>6, FS_EmptySet
    <2> DEFINE m == Min(T)  U == T \ {m}
    <2>2. m \in T /\ \A y \in T : m <= y BY <2>1, LeastOf
    <2> HIDE DEF m
    <2>3. IsFiniteSet(U) /\ Cardinality(U) = n - 1 BY <1>4, <2>2, FS_RemoveElement
    <2>4. n - 1 \in Nat /\ n - 1 \notin Unordered BY <1>2, <1>3, <1>6
    <2>5. PICK g : Enumerates(g, n - 1, U) BY <2>3, <2>4 DEF Unordered
    <2> DEFINE f == [i \in 1..n |-> IF i = 1 THEN m ELSE g[i - 1]]
    <2>6. \A i \in 1..n : i # 1 => i - 1 \in 1..n - 1 /\ g[i - 1] \in U BY <1>3, <2>5 DEF Enumerates
    <2>7. f \in [1..n -> T] BY <2>2, <2>6
    <2>8. ASSUME NEW i \in 1..n, NEW j \in 1..n, i < j PROVE f[i] < f[j]
      <3>1. j # 1 /\ f[j] = g[j - 1] /\ g[j - 1] \in U BY <1>3, <2>6, <2>8
      <3>2. CASE i = 1
        <4>1. f[i] = m /\ m \in Nat /\ g[j - 1] \in Nat /\ g[j - 1] # m /\ m <= g[j - 1]
          BY <3>1, <3>2, <2>2, <1>4
        <4> HIDE DEF f
        <4> QED BY <4>1, <3>1
      <3>3. CASE i # 1
        <4>1. f[i] = g[i - 1] /\ i - 1 \in 1..n - 1 /\ j - 1 \in 1..n - 1 /\ i - 1 < j - 1
          BY <2>6, <2>8, <3>1, <3>3, <1>3
        <4> QED BY <4>1, <3>1, <2>5 DEF Enumerates
      <3> QED BY <3>2, <3>3
    <2> HIDE DEF f
    <2>9. Enumerates(f, n, T) BY <2>7, <2>8 DEF Enumerates
    <2> QED BY <1>4, <2>9
  <1> QED BY <1>5, <1>6

(* Queues                                                                   *)
(* Two queues one after the other.                                          *)
LEMMA InjectiveConcat ==
    ASSUME NEW S, NEW s \in Seq(S), NEW t \in Seq(S),
           IsInjective(s), IsInjective(t), Range(s) \cap Range(t) = {}
    PROVE  IsInjective(s \o t)
  <1>1. s \o t \in Seq(S) /\ DOMAIN (s \o t) = 1..Len(s) + Len(t)
    BY ConcatProperties, LenProperties
  <1>2. \A i \in 1..Len(s) + Len(t) : (s \o t)[i] = IF i <= Len(s) THEN s[i] ELSE t[i - Len(s)]
    BY ConcatProperties
  <1>3. DOMAIN s = 1..Len(s) /\ DOMAIN t = 1..Len(t) /\ Len(s) \in Nat /\ Len(t) \in Nat
    BY LenProperties
  <1>4. ASSUME NEW i \in 1..Len(s) + Len(t), NEW j \in 1..Len(s) + Len(t), (s \o t)[i] = (s \o t)[j]
        PROVE  i = j
    <2>1. i > Len(s) => i - Len(s) \in 1..Len(t) BY <1>3
    <2>2. j > Len(s) => j - Len(s) \in 1..Len(t) BY <1>3
    <2>3. i <= Len(s) => i \in 1..Len(s) /\ s[i] \in Range(s) BY <1>3 DEF Range
    <2>4. j <= Len(s) => j \in 1..Len(s) /\ s[j] \in Range(s) BY <1>3 DEF Range
    <2>5. i > Len(s) => t[i - Len(s)] \in Range(t) BY <1>3, <2>1 DEF Range
    <2>6. j > Len(s) => t[j - Len(s)] \in Range(t) BY <1>3, <2>2 DEF Range
    <2>7. CASE i <= Len(s) /\ j <= Len(s)
      BY <1>2, <1>3, <1>4, <2>3, <2>4, <2>7 DEF IsInjective
    <2>8. CASE i > Len(s) /\ j > Len(s)
      <3>1. t[i - Len(s)] = t[j - Len(s)] BY <1>2, <1>3, <1>4, <2>8
      <3>2. i - Len(s) = j - Len(s) BY <1>3, <2>1, <2>2, <2>8, <3>1 DEF IsInjective
      <3> QED BY <1>3, <3>2
    <2>9. CASE i <= Len(s) /\ j > Len(s) BY <1>2, <1>3, <1>4, <2>3, <2>6, <2>9
    <2>10. CASE i > Len(s) /\ j <= Len(s) BY <1>2, <1>3, <1>4, <2>4, <2>5, <2>10
    <2> QED BY <1>3, <2>7, <2>8, <2>9, <2>10
  <1> QED BY <1>1, <1>4 DEF IsInjective

(* A request added at the end.                                              *)
LEMMA AddedTo ==
    ASSUME NEW S, NEW s \in Seq(S), NEW x \in S
    PROVE  /\ Append(s, x) \in Seq(S)
           /\ Range(Append(s, x)) = Range(s) \cup {x}
           /\ IsInjective(s) /\ x \notin Range(s) => IsInjective(Append(s, x))
  <1> DEFINE t == <<x>>
  <1>1. Append(s, x) = s \o t /\ t \in Seq(S) OBVIOUS
  <1>2. Range(t) = {x} /\ IsInjective(t) BY DEF Range, IsInjective
  <1>3. Append(s, x) \in Seq(S) OBVIOUS
  <1> HIDE DEF t
  <1>4. Range(Append(s, x)) = Range(s) \cup {x} BY <1>1, <1>2, RangeConcatenation
  <1>5. IsInjective(s) /\ x \notin Range(s) => IsInjective(Append(s, x))
    BY <1>1, <1>2, InjectiveConcat
  <1> QED BY <1>3, <1>4, <1>5

(* A request added at the head.                                              *)
LEMMA AddedBefore ==
    ASSUME NEW S, NEW s \in Seq(S), NEW x \in S
    PROVE  /\ <<x>> \o s \in Seq(S)
           /\ Range(<<x>> \o s) = Range(s) \cup {x}
           /\ IsInjective(s) /\ x \notin Range(s) => IsInjective(<<x>> \o s)
  <1> DEFINE t == <<x>>
  <1>1. t \in Seq(S) OBVIOUS
  <1>2. Range(t) = {x} /\ IsInjective(t) BY DEF Range, IsInjective
  <1> HIDE DEF t
  <1>3. t \o s \in Seq(S) BY <1>1, ConcatProperties
  <1>4. Range(t \o s) = Range(s) \cup {x} BY <1>1, <1>2, RangeConcatenation
  <1>5. IsInjective(s) /\ x \notin Range(s) => IsInjective(t \o s)
    BY <1>1, <1>2, InjectiveConcat
  <1> QED BY <1>3, <1>4, <1>5 DEF t

(* The first request taken off.                                             *)
LEMMA TakenOff ==
    ASSUME NEW S, NEW s \in Seq(S), s # << >>, IsInjective(s)
    PROVE  /\ Head(s) \in S /\ Head(s) \in Range(s)
           /\ Tail(s) \in Seq(S) /\ IsInjective(Tail(s))
           /\ Range(Tail(s)) = Range(s) \ {Head(s)}
  <1>1. Len(s) \in Nat \ {0} /\ DOMAIN s = 1..Len(s) BY EmptySeq, LenProperties
  <1>2. Head(s) = s[1] /\ Head(s) \in S OBVIOUS
  <1>3. Tail(s) \in Seq(S) /\ DOMAIN Tail(s) = 1..Len(s) - 1
    BY HeadTailProperties, LenProperties
  <1>4. \A i \in 1..Len(s) - 1 : Tail(s)[i] = s[i + 1] BY <1>1, HeadTailProperties
  <1>5. ASSUME NEW i \in 1..Len(s) - 1 PROVE i + 1 \in 1..Len(s) /\ i + 1 # 1 BY <1>1
  <1>6. IsInjective(Tail(s))
    <2> SUFFICES ASSUME NEW i \in 1..Len(s) - 1, NEW j \in 1..Len(s) - 1, Tail(s)[i] = Tail(s)[j]
                 PROVE  i = j
      BY <1>3 DEF IsInjective
    <2>1. i + 1 = j + 1 BY <1>1, <1>4, <1>5 DEF IsInjective
    <2> QED BY <2>1
  <1>7. ASSUME NEW x \in Range(Tail(s)) PROVE x \in Range(s) /\ x # Head(s)
    <2>1. PICK i \in 1..Len(s) - 1 : x = s[i + 1] BY <1>3, <1>4, <1>7 DEF Range
    <2> QED BY <2>1, <1>1, <1>2, <1>5 DEF Range, IsInjective
  <1>8. ASSUME NEW x \in Range(s), x # Head(s) PROVE x \in Range(Tail(s))
    <2>1. PICK i \in 1..Len(s) : x = s[i] BY <1>1 DEF Range
    <2>2. i # 1 BY <1>2, <1>8, <2>1
    <2>3. i - 1 \in 1..Len(s) - 1 /\ (i - 1) + 1 = i BY <1>1, <2>2
    <2>4. Tail(s)[i - 1] = x BY <1>4, <2>1, <2>3
    <2> QED BY <1>3, <2>3, <2>4 DEF Range
  <1>9. Head(s) \in Range(s) BY <1>1, <1>2 DEF Range
  <1> QED BY <1>2, <1>3, <1>6, <1>7, <1>8, <1>9

(* The last request taken off.                                              *)
LEMMA TakenBack ==
    ASSUME NEW S, NEW s \in Seq(S), s # << >>, IsInjective(s)
    PROVE  /\ Last(s) \in S /\ Last(s) \in Range(s)
           /\ Front(s) \in Seq(S) /\ IsInjective(Front(s)) /\ Len(Front(s)) = Len(s) - 1
           /\ \A i \in 1..Len(s) - 1 : Front(s)[i] = s[i]
           /\ Range(Front(s)) = Range(s) \ {Last(s)}
  <1>1. Len(s) \in Nat \ {0} /\ DOMAIN s = 1..Len(s) BY EmptySeq, LenProperties
  <1>2. Last(s) = s[Len(s)] /\ Last(s) \in S BY <1>1, ElementOfSeq DEF Last
  <1>3. /\ Front(s) \in Seq(S) /\ Len(Front(s)) = Len(s) - 1
        /\ \A i \in 1..Len(s) - 1 : Front(s)[i] = s[i]
    <2> DEFINE n == Len(s) - 1
    <2>1. \A i \in 1..n : s[i] \in S BY <1>1, ElementOfSeq
    <2>2. n \in Nat /\ 1 \in Int /\ n \in Int BY <1>1
    <2> HIDE DEF n
    <2>3. /\ SubSeq(s, 1, n) \in Seq(S)
          /\ Len(SubSeq(s, 1, n)) = IF 1 <= n THEN n - 1 + 1 ELSE 0
          /\ \A i \in 1..n - 1 + 1 : SubSeq(s, 1, n)[i] = s[1 + i - 1]
      BY <2>1, <2>2, SubSeqProperties
    <2>4. \A i \in 1..n : 1 + i - 1 = i /\ i \in 1..n - 1 + 1 BY <2>2
    <2>5. Len(SubSeq(s, 1, n)) = n BY <2>2, <2>3
    <2> QED BY <2>3, <2>4, <2>5 DEF Front, n
  <1>4. DOMAIN Front(s) = 1..Len(s) - 1 BY <1>3, LenProperties
  <1>5. IsInjective(Front(s)) BY <1>1, <1>3, <1>4 DEF IsInjective
  <1>6. ASSUME NEW x \in Range(Front(s)) PROVE x \in Range(s) /\ x # Last(s)
    <2>1. PICK i \in 1..Len(s) - 1 : x = s[i] BY <1>3, <1>4, <1>6 DEF Range
    <2> DEFINE n == Len(s)
    <2>2. n \in Nat \ {0} /\ DOMAIN s = 1..n /\ Last(s) = s[n] /\ i \in 1..n - 1 BY <1>1, <1>2, <2>1
    <2> HIDE DEF n
    <2>3. i \in 1..n /\ i # n /\ n \in 1..n BY <2>2
    <2> QED BY <2>1, <2>2, <2>3 DEF Range, IsInjective
  <1>7. ASSUME NEW x \in Range(s), x # Last(s) PROVE x \in Range(Front(s))
    <2>1. PICK i \in 1..Len(s) : x = s[i] BY <1>1 DEF Range
    <2>2. i \in 1..Len(s) - 1 BY <1>1, <1>2, <1>7, <2>1
    <2> QED BY <1>3, <1>4, <2>1, <2>2 DEF Range
  <1>8. Last(s) \in Range(s) BY <1>1, <1>2 DEF Range
  <1> QED BY <1>2, <1>3, <1>5, <1>6, <1>7, <1>8

(* The requests of R taken out.                                             *)
LEMMA TakenOut ==
    ASSUME NEW S, NEW s \in Seq(S), NEW R
    PROVE  /\ Without(s, R) \in Seq(S)
           /\ Range(Without(s, R)) = Range(s) \ R
           /\ IsInjective(s) => IsInjective(Without(s, R))
  <1> DEFINE K == Staying(s, R)  n == Cardinality(K)  f == InOrder(K)
  <1>1. Len(s) \in Nat /\ DOMAIN s = 1..Len(s) /\ s \in [1..Len(s) -> S] BY LenProperties
  <1>2. K \in SUBSET Nat /\ K \subseteq 1..Len(s) BY <1>1 DEF Staying
  <1>3. IsFiniteSet(K) /\ n \in Nat
    <2>1. 1 \in Int /\ Len(s) \in Int BY <1>1
    <2>2. IsFiniteSet(1..Len(s)) BY <2>1, FS_Interval
    <2> HIDE DEF K
    <2> QED BY <1>2, <2>2, FS_Subset, FS_CardinalityType
  <1> HIDE DEF K
  <1>4. \E g : Enumerates(g, n, K) BY <1>2, <1>3, Ordered
  <1>5. \E g \in [1..n -> K] : \A i, j \in DOMAIN g : i < j => g[i] < g[j]
    BY <1>4 DEF Enumerates
  <1>6. f \in [1..n -> K] /\ \A i, j \in 1..n : i < j => f[i] < f[j]
    BY <1>5 DEF InOrder
  <1> HIDE DEF f
  <1>3n. n \in Nat BY <1>3
  <1> HIDE DEF n
  <1>7. IsInjective(f)
    <2> SUFFICES ASSUME NEW i \in 1..n, NEW j \in 1..n, f[i] = f[j] PROVE i = j
      BY <1>6 DEF IsInjective
    <2>1. f[i] \in Nat /\ f[j] \in Nat BY <1>2, <1>6
    <2> QED BY <1>6, <2>1, <1>3
  <1>8. f \in Surjection(1..n, K)
    <2>1. f \in Injection(1..n, K) BY <1>6, <1>7 DEF Injection
    <2>2. Cardinality(1..n) = n /\ IsFiniteSet(1..n)
      <3>1. 1 \in Int /\ n \in Int BY <1>3n
      <3>2. Cardinality(1..n) = IF 1 > n THEN 0 ELSE n - 1 + 1 BY <3>1, FS_Interval
      <3> QED BY <1>3n, <3>1, <3>2, FS_Interval
    <2> QED BY <2>1, <2>2, <1>3, FS_Injection DEF n
  <1>9. Without(s, R) = [k \in 1..n |-> s[f[k]]] BY DEF Without, n, f, K
  <1>10. \A k \in 1..n : f[k] \in 1..Len(s) /\ s[f[k]] \in S /\ s[f[k]] \notin R
    BY <1>1, <1>2, <1>6 DEF K, Staying
  <1>11. Without(s, R) \in [1..n -> S] BY <1>9, <1>10
  <1>12. Without(s, R) \in Seq(S) BY <1>3, <1>11, SeqDef
  <1>13. ASSUME NEW x \in Range(Without(s, R)) PROVE x \in Range(s) \ R
    BY <1>1, <1>9, <1>10 DEF Range
  <1>14. ASSUME NEW x \in Range(s), x \notin R PROVE x \in Range(Without(s, R))
    <2>1. PICK i \in 1..Len(s) : x = s[i] BY <1>1 DEF Range
    <2>2. i \in K BY <1>1, <1>14, <2>1 DEF K, Staying
    <2>3. PICK k \in 1..n : f[k] = i BY <1>8, <2>2 DEF Surjection
    <2> QED BY <1>9, <2>1, <2>3 DEF Range
  <1>15. ASSUME IsInjective(s) PROVE IsInjective(Without(s, R))
    <2> SUFFICES ASSUME NEW i \in 1..n, NEW j \in 1..n, s[f[i]] = s[f[j]] PROVE i = j
      BY <1>9 DEF IsInjective
    <2>1. f[i] = f[j] BY <1>1, <1>10, <1>15 DEF IsInjective
    <2> QED BY <1>6, <1>7, <2>1 DEF IsInjective
  <1> QED BY <1>12, <1>13, <1>14, <1>15

-----------------------------------------------------------------------------
(* The types of the step being scheduled; the head of the queues.            *)

(* The passes of schedule(), and whose turn it is.                           *)
Passes == {"idle", "first", "wait", "late", "rest", "end"}

Turns == {"none", "decode", "prefill"}

(* The fields of the step being scheduled.                                   *)
LEMMA CurFields ==
    ASSUME NEW c \in CurT
    PROVE  /\ c.pass \in Passes /\ c.turn \in Turns /\ c.defer \in BOOLEAN /\ c.i \in Nat \ {0}
           /\ c.budget \in Nat /\ c.n \in [Reqs -> Nat] /\ c.got \in [Reqs -> Seq(Blocks)]
           /\ c.skip \in Seq(Reqs) /\ c.ids \in SUBSET Reqs /\ c.preempted \in BOOLEAN
  BY DEF CurT, Passes, Turns

(* No step being scheduled is a value of cur.                                *)
LEMMA IdleTyped == Idle \in CurT
  BY EmptySeq DEF Idle, CurT, Zero, Nothing

(* What a tracker, a lookup and a job are does not change with the others.   *)
LEMMA TrkTypesSame == ASSUME TrkTypes, UNCHANGED trkVars PROVE TrkTypes'
  BY DEF TrkTypes, trkVars

(* Nor do the transfers of the worker.                                       *)
LEMMA WorkTypesSame == ASSUME WorkTypes, UNCHANGED workVars PROVE WorkTypes'
  BY DEF WorkTypes, workVars

(* Nor do the queues.                                                        *)
LEMMA QueueTypesSame == ASSUME QueueTypes, UNCHANGED queueVars PROVE QueueTypes'
  BY DEF QueueTypes, queueVars

(* Nor do the requests.                                                      *)
LEMMA ReqTypesSame == ASSUME ReqTypes, UNCHANGED reqVars PROVE ReqTypes'
  BY DEF ReqTypes, reqVars

(* Nor do the blocks.                                                        *)
LEMMA BlockTypesSame == ASSUME BlockTypes, UNCHANGED <<table, free, deferred>> PROVE BlockTypes'
  BY DEF BlockTypes

(* Nor does what ended.                                                      *)
LEMMA DoneTypesSame == ASSUME DoneTypes, UNCHANGED doneVars PROVE DoneTypes'
  BY DEF DoneTypes, doneVars

(* Nor do the steps on their way.                                            *)
LEMMA PipeTypesSame == ASSUME PipeTypes, UNCHANGED pipe PROVE PipeTypes'
  BY DEF PipeTypes

(* Nor does the step being scheduled.                                        *)
LEMMA CurTypesSame == ASSUME CurTypes, UNCHANGED cur PROVE CurTypes'
  BY DEF CurTypes

(* The head of the queues is taken off.                                     *)
Pop == skipped \o waiting # << >> /\ PopHead

(* Which request is at the head of the queues.                               *)
LEMMA HeadIs ==
    ASSUME QueueTypes, skipped \o waiting # << >>
    PROVE  /\ Head1 = IF skipped # << >> THEN Head(skipped) ELSE Head(waiting)
           /\ skipped # << >> \/ waiting # << >>
           /\ Head1 \in Reqs /\ Head1 \in Range(skipped) \cup Range(waiting)
  <1>1. waiting \in Seq(Reqs) /\ skipped \in Seq(Reqs) BY DEF QueueTypes
  <1>2. CASE skipped = << >>
    <2>1. skipped \o waiting = waiting BY <1>1, <1>2, ConcatEmptySeq
    <2>2. Head(waiting) = waiting[1] /\ 1 \in DOMAIN waiting /\ Head(waiting) \in Reqs
      BY <1>1, <2>1, EmptySeq, LenProperties, HeadTailProperties
    <2> QED BY <1>2, <2>1, <2>2 DEF Head1, Range
  <1>3. CASE skipped # << >>
    <2>1. Len(skipped) \in Nat \ {0} /\ Len(waiting) \in Nat BY <1>1, <1>3, EmptySeq, LenProperties
    <2>2. 1 \in 1..Len(skipped) + Len(waiting) BY <2>1
    <2>3. (skipped \o waiting)[1] = skipped[1] BY <1>1, <2>1, <2>2, ConcatProperties
    <2>4. /\ Head(skipped \o waiting) = (skipped \o waiting)[1]
          /\ Head(skipped) = skipped[1] /\ 1 \in DOMAIN skipped /\ skipped[1] \in Reqs
      BY <1>1, <1>3, <2>1, LenProperties, HeadTailProperties
    <2> QED BY <1>3, <2>3, <2>4 DEF Head1, Range
  <1> QED BY <1>2, <1>3

(* What is left of the queues without their head.                            *)
LEMMA Popped ==
    ASSUME QueueTypes, QueueInv, Pop
    PROVE  /\ Head1 \in Reqs /\ st[Head1] \in Waits /\ Head1 \notin Range(cur.skip)
           /\ waiting' \in Seq(Reqs) /\ skipped' \in Seq(Reqs)
           /\ IsInjective(waiting') /\ IsInjective(skipped')
           /\ Range(waiting') \subseteq Range(waiting) /\ Range(skipped') \subseteq Range(skipped)
           /\ Range(waiting') \cup Range(skipped') = (Range(waiting) \cup Range(skipped)) \ {Head1}
  <1>1. /\ waiting \in Seq(Reqs) /\ skipped \in Seq(Reqs)
        /\ IsInjective(waiting) /\ IsInjective(skipped) /\ Range(waiting) \cap Range(skipped) = {}
    BY DEF QueueTypes, QueueInv
  <1>2. /\ Head1 = IF skipped # << >> THEN Head(skipped) ELSE Head(waiting)
        /\ skipped # << >> \/ waiting # << >>
        /\ Head1 \in Reqs /\ Head1 \in Range(skipped) \cup Range(waiting)
    BY HeadIs DEF Pop
  <1>3. st[Head1] \in Waits /\ Head1 \notin Range(cur.skip) BY <1>2 DEF QueueInv
  <1>4. CASE skipped # << >>
    <2>1. /\ Tail(skipped) \in Seq(Reqs) /\ IsInjective(Tail(skipped))
          /\ Range(Tail(skipped)) = Range(skipped) \ {Head1} /\ Head1 \in Range(skipped)
      BY <1>1, <1>2, <1>4, TakenOff
    <2>2. skipped' = Tail(skipped) /\ waiting' = waiting BY <1>4 DEF Pop, PopHead
    <2>3. Head1 \notin Range(waiting) BY <1>1, <2>1
    <2> QED BY <1>1, <1>2, <1>3, <2>1, <2>2, <2>3
  <1>5. CASE skipped = << >>
    <2>1. /\ Tail(waiting) \in Seq(Reqs) /\ IsInjective(Tail(waiting))
          /\ Range(Tail(waiting)) = Range(waiting) \ {Head1} /\ Head1 \in Range(waiting)
      BY <1>1, <1>2, <1>5, TakenOff
    <2>2. waiting' = Tail(waiting) /\ skipped' = skipped BY <1>5 DEF Pop, PopHead
    <2>3. Head1 \notin Range(skipped) BY <1>1, <2>1
    <2> QED BY <1>1, <1>2, <1>3, <2>1, <2>2, <2>3
  <1> QED BY <1>4, <1>5

(* The head of the queues is set aside.                                     *)
LEMMA CurSkips ==
    ASSUME NEW c \in CurT, NEW q \in Seq(Reqs)
    PROVE  LET d2 == [c EXCEPT !.skip = q]
           IN /\ d2 \in CurT /\ d2.n = c.n /\ d2.got = c.got /\ d2.skip = q
              /\ d2.preempted = c.preempted /\ d2.pass = c.pass /\ d2.i = c.i /\ d2.budget = c.budget
  BY DEF CurT

-----------------------------------------------------------------------------
(* The decisions of schedule() that take nothing.                            *)

(* A step of schedule() that decides nothing about a request but its place  *)
(* in the queues and what its tracker notes.                                *)
TrkNotes ==
    \/ trk' = trk
    \/ \E r \in Reqs, t \in TrackerT :
        /\ st[r] \in {"waiting", "preempted"} /\ trk' = [trk EXCEPT ![r] = t]
        /\ \/ t.s = trk[r].s /\ t.blocks = trk[r].blocks /\ t.sched = trk[r].sched
           \/ /\ trk[r].s = "none" \/ st[r] = "preempted"
              /\ t.s = "prefetching" /\ t.blocks = << >> /\ t.sched = 0

(* What a step leaves alone.                                                 *)
SameReqs ==
    /\ st' = st /\ computed' = computed /\ out' = out /\ place' = place /\ hurt' = hurt

SameBlocks == table' = table /\ free' = free /\ deferred' = deferred

SameWork ==
    /\ health' = health /\ loading' = loading /\ dma' = dma /\ stores' = stores
    /\ finStores' = finStores /\ prevFin' = prevFin /\ returned' = returned
    /\ dropped' = dropped /\ errs' = errs /\ fatal' = fatal

SameDone ==
    finIds' = finIds /\ recvDone' = recvDone /\ recvFailed' = recvFailed

SameCur == cur'.n = cur.n /\ cur'.got = cur.got /\ cur'.preempted = cur.preempted

Light ==
    /\ running' = running /\ SameReqs /\ SameBlocks /\ SameWork /\ SameDone /\ SameCur
    /\ content' = content /\ pipe' = pipe /\ seen' = seen /\ TrkNotes

(* When a step is a light one.                                               *)
LEMMA LightIs ==
    ASSUME UNCHANGED <<running, reqVars, blockVars, doneVars, pipe, seen, workVars>>, SameCur, TrkNotes
    PROVE  Light
  <1>1. UNCHANGED <<running, reqVars, blockVars, doneVars, pipe, seen, workVars>> OBVIOUS
  <1>2. SameReqs BY <1>1 DEF reqVars, SameReqs
  <1>3. SameBlocks BY <1>1 DEF blockVars, SameBlocks
  <1>4. SameWork BY <1>1 DEF workVars, SameWork
  <1>5. SameDone BY <1>1 DEF doneVars, SameDone
  <1>6. running' = running /\ pipe' = pipe /\ seen' = seen /\ content' = content BY <1>1 DEF blockVars
  <1> QED BY <1>2, <1>3, <1>4, <1>5, <1>6 DEF Light

(* The types of all but the queues, the trackers and the step.              *)
LEMMA LightTypes ==
    ASSUME Types, UNCHANGED <<running, reqVars, blockVars, doneVars, pipe, seen, workVars>>,
           TrkTypes', waiting' \in Seq(Reqs), skipped' \in Seq(Reqs), cur' \in CurT
    PROVE  Types'
  <1>1. UNCHANGED <<running, reqVars, blockVars, doneVars, pipe, seen, workVars>> OBVIOUS
  <1>2. WorkTypes' BY <1>1, WorkTypesSame DEF Types
  <1>3. ReqTypes' BY <1>1, ReqTypesSame DEF Types
  <1>4. BlockTypes' BY <1>1, BlockTypesSame DEF Types, blockVars
  <1>5. DoneTypes' BY <1>1, DoneTypesSame DEF Types
  <1>6. PipeTypes' BY <1>1, PipeTypesSame DEF Types
  <1>7. QueueTypes' BY <1>1 DEF Types, QueueTypes
  <1> QED BY <1>2, <1>3, <1>4, <1>5, <1>6, <1>7 DEF Types, CurTypes

(* What Begin does.                                                          *)
LEMMA BeginIs ==
    ASSUME Types, CurInv, EngineAssumption, Begin
    PROVE  /\ cur = Idle /\ Len(pipe) < Depth
           /\ cur' \in CurT /\ cur'.n = Zero /\ cur'.got = Nothing /\ cur'.skip = << >>
           /\ cur'.preempted = FALSE /\ cur'.pass = "first"
           /\ UNCHANGED <<cacheVars, queueVars, reqVars, blockVars, doneVars, pipe, aborts, seen>>
  <1>1. Budget \in Nat /\ Range(running) \in SUBSET Reqs
    BY RangeOfSeq DEF EngineAssumption, Types, QueueTypes
  <1>2. PICK turn \in {"none", "decode", "prefill"} :
          cur' = [Idle EXCEPT !.pass = "first", !.turn = turn, !.defer = turn = "decode",
                              !.budget = Budget, !.ids = Range(running)]
    BY DEF Begin
  <1> DEFINE d == turn = "decode"
  <1>3. d \in BOOLEAN /\ cur' = [Idle EXCEPT !.pass = "first", !.turn = turn, !.defer = d,
                                           !.budget = Budget, !.ids = Range(running)]
    BY <1>2
  <1> HIDE DEF d
  <1>4. /\ cur' \in CurT /\ cur'.n = Zero /\ cur'.got = Nothing /\ cur'.skip = << >>
        /\ cur'.preempted = FALSE /\ cur'.pass = "first"
    BY <1>1, <1>3, IdleTyped DEF CurT, Idle
  <1> QED BY <1>4 DEF Begin, Up

(* The request at which the scan of the running requests is.                *)
LEMMA HereIs ==
    ASSUME Types, More
    PROVE  cur.i \in DOMAIN running /\ Here \in Reqs /\ Here \in Range(running)
  <1>1. cur.i \in Nat \ {0} BY CurFields DEF Types, CurTypes
  <1>2. running \in Seq(Reqs) /\ Len(running) \in Nat /\ DOMAIN running = 1..Len(running)
    BY LenProperties DEF Types, QueueTypes
  <1>3. cur.i \in 1..Len(running) BY <1>1, <1>2 DEF More
  <1> QED BY <1>2, <1>3, ElementOfSeq DEF Here, Range

(* What PassOver does.                                                       *)
LEMMA PassOverIs ==
    ASSUME Types, PassOver
    PROVE  /\ cur' \in CurT /\ SameCur /\ cur'.skip = cur.skip
           /\ cur'.pass = cur.pass /\ cur'.i = cur.i + 1 /\ cur.pass \in {"first", "late", "rest"}
           /\ UNCHANGED <<cacheVars, queueVars, reqVars, blockVars, doneVars, pipe, aborts, seen>>
  <1>1. cur \in CurT /\ cur.i + 1 \in Nat \ {0} BY CurFields DEF Types, CurTypes
  <1>2. cur' = [cur EXCEPT !.i = cur.i + 1] /\ cur.pass \in {"first", "late", "rest"}
    BY DEF PassOver, More, Scanning
  <1>3. /\ cur' \in CurT /\ cur'.n = cur.n /\ cur'.got = cur.got /\ cur'.preempted = cur.preempted
        /\ cur'.skip = cur.skip /\ cur'.pass = cur.pass /\ cur'.i = cur.i + 1
    BY <1>1, <1>2 DEF CurT
  <1> QED BY <1>2, <1>3 DEF PassOver, SameCur

(* What EndScan does.                                                        *)
LEMMA EndScanIs ==
    ASSUME Types, EndScan
    PROVE  /\ cur' \in CurT /\ SameCur /\ cur'.skip = cur.skip
           /\ cur'.pass \in {"end", "wait", "late", "rest"} /\ cur.pass \in {"first", "late", "rest"}
           /\ cur'.pass = "wait" => ~cur.preempted
           /\ cur'.pass = "late" => cur.n = Zero
           /\ UNCHANGED <<cacheVars, queueVars, reqVars, blockVars, doneVars, pipe, aborts, seen>>
  <1> DEFINE p == IF cur.pass # "first" THEN "end" ELSE IF cur.preempted THEN Rest ELSE "wait"
             d == cur.defer /\ cur.pass = "first" /\ ~cur.preempted
  <1>1. cur \in CurT /\ 1 \in Nat \ {0} /\ d \in BOOLEAN BY CurFields DEF Types, CurTypes
  <1>2. Rest \in {"late", "rest", "end"} /\ (Rest = "late" => cur.n = Zero) BY DEF Rest
  <1>3. /\ p \in Passes /\ p \in {"end", "wait", "late", "rest"} /\ (p = "wait" => ~cur.preempted)
        /\ p = "late" => cur.n = Zero
    BY <1>2 DEF Passes
  <1>4. cur' = [cur EXCEPT !.i = 1, !.pass = p, !.defer = d] BY DEF EndScan
  <1> HIDE DEF p, d
  <1>5. /\ cur' \in CurT /\ cur'.n = cur.n /\ cur'.got = cur.got /\ cur'.preempted = cur.preempted
        /\ cur'.skip = cur.skip /\ cur'.pass = p
    BY <1>1, <1>3, <1>4 DEF CurT, Passes
  <1> QED BY <1>3, <1>5 DEF EndScan, Scanning, SameCur

(* What a lookup answers, and what it keeps.                                *)
Answers == 0..Prompt \cup {None}

LookupTypes == /\ pending' \subseteq Reqs /\ result' \in [Reqs -> Answers]
               /\ job' \in [Reqs -> 0..Prompt \cup {None, Unready}]

(* An answer that is kept is an answer.                                      *)
LEMMA KeptTypes ==
    ASSUME TrkTypes, NEW r \in Reqs, NEW h \in Answers, NEW forget, Kept(r, h, forget)
    PROVE  pending' \subseteq Reqs /\ result' \in [Reqs -> Answers]
  <1>1. (IF forget THEN None ELSE h) \in Answers BY DEF Answers
  <1>2. result \in [Reqs -> Answers] /\ pending \subseteq Reqs BY DEF TrkTypes, Answers
  <1>3. result' = [result EXCEPT ![r] = IF forget THEN None ELSE h] BY DEF Kept
  <1>4. pending' \subseteq Reqs BY <1>2 DEF Kept
  <1> QED BY <1>1, <1>2, <1>3, <1>4

(* What the answer of a lookup can be.                                       *)
LEMMA LookupIs ==
    ASSUME CacheAssumption, TrkTypes, NEW r \in Reqs, NEW h, NEW forget, Lookup(r, h, forget)
    PROVE  h \in Answers /\ LookupTypes
  <1>1. result \in [Reqs -> Answers] /\ job \in [Reqs -> 0..Prompt \cup {None, Unready}]
    BY DEF TrkTypes, Answers
  <1>2. Prompt \in Nat /\ None \notin Nat /\ Unready \notin Nat BY DEF CacheAssumption
  <1>3. 0 \in Answers /\ None \in Answers BY <1>2 DEF Answers
  <1>4. CASE Submit(r) /\ h = None
    <2>1. pending' \subseteq Reqs BY <1>4 DEF Submit, TrkTypes
    <2>2. job' \in [Reqs -> 0..Prompt \cup {None, Unready}] BY <1>1, <1>4 DEF Submit
    <2> QED BY <1>1, <1>3, <1>4, <2>1, <2>2 DEF Submit, LookupTypes
  <1>5. CASE LookupLost(r, forget) /\ h = 0
    BY <1>1, <1>3, <1>5, KeptTypes DEF LookupLost, LookupTypes
  <1>6. CASE Query(r, h, forget)
    <2>1. h \in Answers BY <1>1, <1>2, <1>6 DEF Query, Answers
    <2>2. job' \in [Reqs -> 0..Prompt \cup {None, Unready}] BY <1>1, <1>6 DEF Query
    <2> QED BY <1>6, <2>1, <2>2, KeptTypes DEF Query, LookupTypes
  <1>7. CASE Answered(r, h) /\ Kept(r, result[r], forget) /\ UNCHANGED <<job, lookupOk, faults>>
    <2>1. h \in Answers /\ result[r] \in Answers BY <1>1, <1>3, <1>7 DEF Answered
    <2> QED BY <1>1, <1>7, <2>1, KeptTypes DEF LookupTypes
  <1> QED BY <1>4, <1>5, <1>6, <1>7 DEF Lookup

(* What the head of the queues need not compute, and when it must be loaded. *)
LEMMA KnownIs ==
    ASSUME CacheAssumption, Types, Head1 \in Reqs, NEW base, NEW async \in BOOLEAN, NEW admitted \in BOOLEAN,
           Known(base, async, admitted)
    PROVE  /\ LookupTypes
           /\ computed[Head1] > 0 => base = computed[Head1] /\ ~async
           /\ computed[Head1] = 0 => base \in Answers /\ (async <=> base \notin {None, 0})
           /\ computed[Head1] = 0 /\ st[Head1] = "preempted" => base = 0
  <1>0. computed[Head1] \in Nat /\ TrkTypes BY DEF Types, ReqTypes
  <1>1. result \in [Reqs -> Answers] BY <1>0 DEF TrkTypes, Answers
  <1>2. CASE computed[Head1] > 0
    <2>1. base = computed[Head1] /\ ~async /\ UNCHANGED <<pending, result, job>>
      BY <1>2 DEF Known
    <2>2. LookupTypes BY <1>0, <1>1, <2>1 DEF LookupTypes, TrkTypes
    <2>3. computed[Head1] # 0 BY <1>0, <1>2
    <2> QED BY <2>1, <2>2, <2>3, Zenon
  <1>3. CASE computed[Head1] = 0
    <2> DEFINE forget == admitted /\ Noted(base).s = "prefetching"
    <2>1. /\ Matches(Head1, st[Head1] = "preempted", base, forget)
          /\ async = (base \notin {None, 0})
      BY <1>3 DEF Known
    <2> HIDE DEF forget
    <2>2. CASE st[Head1] = "preempted"
      <3>1. base = 0 /\ Kept(Head1, result[Head1], forget) /\ UNCHANGED job
        BY <2>1, <2>2 DEF Matches
      <3>2. result[Head1] \in Answers /\ 0 \in Answers BY <1>1 DEF Answers, CacheAssumption
      <3>3. pending' \subseteq Reqs /\ result' \in [Reqs -> Answers] BY <1>0, <3>1, <3>2, KeptTypes
      <3>4. LookupTypes BY <1>0, <3>1, <3>3 DEF LookupTypes, TrkTypes
      <3>5. ~(computed[Head1] > 0) BY <1>3
      <3> QED BY <1>3, <2>1, <3>1, <3>2, <3>4, <3>5, Zenon
    <2>3. CASE st[Head1] # "preempted"
      <3>1. Lookup(Head1, base, forget) BY <2>1, <2>3 DEF Matches
      <3>2. base \in Answers /\ LookupTypes BY <1>0, <3>1, LookupIs
      <3>3. ~(computed[Head1] > 0) BY <1>3
      <3> QED BY <1>3, <2>1, <2>3, <3>2, <3>3, Zenon
    <2> QED BY <2>2, <2>3
  <1>4. computed[Head1] > 0 \/ computed[Head1] = 0 BY <1>0
  <1> QED BY <1>2, <1>3, <1>4, Zenon

(* The fields of a tracker.                                                  *)
LEMMA TrackerFields ==
    ASSUME NEW t \in TrackerT
    PROVE  /\ t.s \in {"none", "prefetching", "waiting", "ready"} /\ t.blocks \in Seq(Blocks)
           /\ t.stored \in Nat /\ t.sched \in Nat /\ t.hit \in Nat
  BY DEF TrackerT

(* What a lookup leaves in the tracker of the head.                          *)
LEMMA NotedIs ==
    ASSUME EngineAssumption, Types, Head1 \in Reqs, NEW base \in Nat \cup {None}
    PROVE  LET t == Noted(base)  u == trk[Head1]
           IN /\ t \in TrackerT
              /\ \/ t.s = u.s /\ t.blocks = u.blocks /\ t.sched = u.sched
                 \/ /\ u.s = "none" \/ st[Head1] = "preempted"
                    /\ t.s = "prefetching" /\ t.blocks = << >> /\ t.sched = 0
              /\ computed[Head1] > 0 => t = u
              /\ computed[Head1] = 0 /\ base \notin {None, 0} => t.hit = base
              /\ computed[Head1] = 0 /\ base \in {None, 0} =>
                    \/ t = u
                    \/ (t = Fresh /\ (u.s = "none" \/ (st[Head1] = "preempted" /\ u.s # "prefetching")))
              /\ computed[Head1] = 0 => t.s # "none"
  <1> DEFINE u == trk[Head1]  p == st[Head1] = "preempted"  v == Tracker(Head1, p)
  <1>1. u \in TrackerT /\ computed[Head1] \in Nat BY DEF Types, TrkTypes, ReqTypes
  <1>2. Fresh \in TrackerT /\ Fresh.s = "prefetching" /\ Fresh.blocks = << >> /\ Fresh.sched = 0
    BY EmptySeq DEF Fresh, TrackerT
  <1>3. \/ v = u /\ u.s # "none"
        \/ v = Fresh /\ (u.s = "none" \/ (p /\ u.s # "prefetching"))
    BY DEF Tracker
  <1> HIDE DEF v, u
  <1>4. v \in TrackerT /\ v.s # "none" BY <1>1, <1>2, <1>3
  <1>5. CASE computed[Head1] > 0
    <2>1. Noted(base) = u BY <1>5 DEF Noted, u
    <2> QED BY <1>1, <1>5, <2>1 DEF u
  <1>6. CASE computed[Head1] = 0 /\ base \in {None, 0}
    <2>1. Noted(base) = v BY <1>6 DEF Noted, Matched, v
    <2> QED BY <1>2, <1>3, <1>4, <1>6, <2>1 DEF u
  <1>7. CASE computed[Head1] = 0 /\ base \notin {None, 0}
    <2> DEFINE m == Min({v.stored + base, Cardinality(Blocks)})
    <2>1. Noted(base) = [v EXCEPT !.stored = m, !.hit = base] BY <1>7 DEF Noted, Matched, v
    <2>2. base \in Nat /\ v.stored + base \in Nat /\ Cardinality(Blocks) \in Nat
      BY <1>4, <1>7, TrackerFields, FS_CardinalityType DEF EngineAssumption
    <2>3. m \in Nat BY <2>2, MinOfTwo
    <2> HIDE DEF m
    <2>4. /\ Noted(base) \in TrackerT /\ Noted(base).s = v.s /\ Noted(base).blocks = v.blocks
          /\ Noted(base).sched = v.sched /\ Noted(base).hit = base
      BY <1>4, <2>1, <2>2, <2>3 DEF TrackerT
    <2> QED BY <1>2, <1>3, <1>4, <1>7, <2>4 DEF u
  <1> QED BY <1>1, <1>5, <1>6, <1>7

-----------------------------------------------------------------------------
(* Those decisions keep the queues and the step being scheduled.             *)

(* No request has tokens in an empty step.                                   *)
LEMMA ZeroIs == \A r \in Reqs : Zero[r] = 0 /\ Nothing[r] = << >>
  BY DEF Zero, Nothing

(* The step being scheduled stays consistent in a light step.                *)
LEMMA LightCur ==
    ASSUME Types, CurInv, Light, cur' \in CurT, cur.pass # "idle", cur'.pass # "idle",
           cur'.pass # "wait" => cur'.skip = << >>,
           cur'.pass = "wait" => ~cur.preempted,
           cur'.pass \in {"first", "late"} =>
               cur.n = Zero \/ (cur.pass \in {"first", "late"} /\ cur'.i >= cur.i)
    PROVE  CurInv'
  <1>1. /\ cur'.n = cur.n /\ cur'.got = cur.got /\ cur'.preempted = cur.preempted
        /\ running' = running /\ st' = st /\ computed' = computed /\ out' = out /\ place' = place
        /\ table' = table /\ pipe' = pipe /\ seen' = seen
    BY DEF Light, SameCur, SameReqs, SameBlocks
  <1>2. ASSUME NEW r \in Reqs, cur.n[r] > 0, cur'.pass \in {"first", "late"}
        PROVE  \E k \in DOMAIN running : k < cur'.i /\ running[k] = r
    <2>1. cur.n # Zero BY <1>2, ZeroIs
    <2>2. cur.pass \in {"first", "late"} /\ cur'.i >= cur.i BY <1>2, <2>1
    <2>3. PICK k \in DOMAIN running : k < cur.i /\ running[k] = r BY <1>2, <2>2 DEF CurInv
    <2>4. k \in Nat BY LenProperties, <2>3 DEF Types, QueueTypes
    <2>5. cur.i \in Nat /\ cur'.i \in Nat BY CurFields DEF Types, CurTypes
    <2> QED BY <2>2, <2>3, <2>4, <2>5
  <1>3. ASSUME NEW r \in Reqs
        PROVE  /\ cur'.n[r] = 0 => cur'.got[r] = << >>
               /\ cur'.n[r] > 0 =>
                    /\ st'[r] = "running"
                    /\ cur'.pass \in {"first", "late"} =>
                           \E k \in DOMAIN running' : k < cur'.i /\ running'[k] = r
                    /\ Len(table'[r]) >= computed'[r] + cur'.n[r]
                    /\ computed'[r] + cur'.n[r] <= Tokens(r)' + place'[r]
                    /\ Clean' => computed'[r] + cur'.n[r] < Prompt + MaxNew
    BY <1>1, <1>2 DEF CurInv, Tokens, Clean
  <1>4. Len(pipe') < Depth BY <1>1 DEF CurInv
  <1> QED BY <1>1, <1>3, <1>4 DEF CurInv

(* Begin is light, but for the step being scheduled.                         *)
LEMMA BeginLight ==
    ASSUME Types, QueueInv, CurInv, EngineAssumption, Begin
    PROVE  Light /\ Types' /\ QueueInv' /\ CurInv'
  <1>1. /\ cur = Idle /\ Len(pipe) < Depth
        /\ cur' \in CurT /\ cur'.n = Zero /\ cur'.got = Nothing /\ cur'.skip = << >>
        /\ cur'.preempted = FALSE /\ cur'.pass = "first"
    BY BeginIs
  <1>2. UNCHANGED <<cacheVars, queueVars, reqVars, blockVars, doneVars, pipe, aborts, seen>>
    BY BeginIs
  <1>3. UNCHANGED <<running, reqVars, blockVars, doneVars, pipe, seen, workVars>> /\ UNCHANGED trkVars
    BY <1>2 DEF cacheVars, queueVars
  <1>4. waiting' = waiting /\ skipped' = skipped /\ running' = running /\ pipe' = pipe
    BY <1>2 DEF queueVars
  <1>5. trk' = trk BY <1>3 DEF trkVars
  <1>6. SameCur /\ cur'.skip = cur.skip BY <1>1 DEF SameCur, Idle
  <1>7. Light BY <1>3, <1>5, <1>6, LightIs DEF TrkNotes
  <1>8. Types' BY <1>1, <1>3, <1>4, LightTypes, TrkTypesSame DEF Types, QueueTypes
  <1>9. st' = st BY <1>7 DEF Light, SameReqs
  <1>10. QueueInv' BY <1>4, <1>6, <1>9 DEF QueueInv
  <1>11. CurInv' BY <1>1, <1>4, ZeroIs DEF CurInv
  <1> QED BY <1>7, <1>8, <1>10, <1>11

(* PassOver is light.                                                        *)
LEMMA PassOverLight ==
    ASSUME Types, QueueInv, CurInv, PassOver
    PROVE  Light /\ Types' /\ QueueInv' /\ CurInv'
  <1>1. /\ cur' \in CurT /\ SameCur /\ cur'.skip = cur.skip
        /\ cur'.pass = cur.pass /\ cur'.i = cur.i + 1 /\ cur.pass \in {"first", "late", "rest"}
    BY PassOverIs
  <1>2. UNCHANGED <<cacheVars, queueVars, reqVars, blockVars, doneVars, pipe, aborts, seen>>
    BY PassOverIs
  <1>3. UNCHANGED <<running, reqVars, blockVars, doneVars, pipe, seen, workVars>> /\ UNCHANGED trkVars
    BY <1>2 DEF cacheVars, queueVars
  <1>4. waiting' = waiting /\ skipped' = skipped /\ running' = running /\ pipe' = pipe
    BY <1>2 DEF queueVars
  <1>5. trk' = trk BY <1>3 DEF trkVars
  <1>7. Light BY <1>1, <1>3, <1>5, LightIs DEF TrkNotes
  <1>8. Types' BY <1>1, <1>3, <1>4, LightTypes, TrkTypesSame DEF Types, QueueTypes
  <1>9. st' = st BY <1>7 DEF Light, SameReqs
  <1>10. QueueInv' BY <1>1, <1>4, <1>9 DEF QueueInv
  <1>11. cur.i \in Nat /\ cur'.i >= cur.i BY <1>1, CurFields DEF Types, CurTypes
  <1>12. cur'.pass # "wait" => cur'.skip = << >> BY <1>1 DEF CurInv
  <1>13. CurInv' BY <1>1, <1>7, <1>11, <1>12, LightCur
  <1> QED BY <1>7, <1>8, <1>10, <1>13

(* EndScan is light.                                                         *)
LEMMA EndScanLight ==
    ASSUME Types, QueueInv, CurInv, EndScan
    PROVE  Light /\ Types' /\ QueueInv' /\ CurInv'
  <1>1. /\ cur' \in CurT /\ SameCur /\ cur'.skip = cur.skip
        /\ cur'.pass \in {"end", "wait", "late", "rest"} /\ cur.pass \in {"first", "late", "rest"}
        /\ cur'.pass = "wait" => ~cur.preempted
        /\ cur'.pass = "late" => cur.n = Zero
    BY EndScanIs
  <1>2. UNCHANGED <<cacheVars, queueVars, reqVars, blockVars, doneVars, pipe, aborts, seen>>
    BY EndScanIs
  <1>3. UNCHANGED <<running, reqVars, blockVars, doneVars, pipe, seen, workVars>> /\ UNCHANGED trkVars
    BY <1>2 DEF cacheVars, queueVars
  <1>4. waiting' = waiting /\ skipped' = skipped /\ running' = running /\ pipe' = pipe
    BY <1>2 DEF queueVars
  <1>5. trk' = trk BY <1>3 DEF trkVars
  <1>7. Light BY <1>1, <1>3, <1>5, LightIs DEF TrkNotes
  <1>8. Types' BY <1>1, <1>3, <1>4, LightTypes, TrkTypesSame DEF Types, QueueTypes
  <1>9. st' = st BY <1>7 DEF Light, SameReqs
  <1>10. QueueInv' BY <1>1, <1>4, <1>9 DEF QueueInv
  <1>12. cur'.skip = << >> BY <1>1 DEF CurInv
  <1>13. CurInv' BY <1>1, <1>7, <1>12, LightCur
  <1> QED BY <1>7, <1>8, <1>10, <1>13

(* The head of the queues is set aside.                                     *)
LEMMA AsideQueue ==
    ASSUME Types, QueueInv, Pop, running' = running, st' = st, cur'.skip = Append(cur.skip, Head1)
    PROVE  QueueInv' /\ Head1 \in Reqs /\ waiting' \in Seq(Reqs) /\ skipped' \in Seq(Reqs)
  <1>1. /\ Head1 \in Reqs /\ st[Head1] \in Waits /\ Head1 \notin Range(cur.skip)
        /\ waiting' \in Seq(Reqs) /\ skipped' \in Seq(Reqs)
        /\ IsInjective(waiting') /\ IsInjective(skipped')
        /\ Range(waiting') \subseteq Range(waiting) /\ Range(skipped') \subseteq Range(skipped)
        /\ Range(waiting') \cup Range(skipped') = (Range(waiting) \cup Range(skipped)) \ {Head1}
    BY Popped DEF Types
  <1>2. cur.skip \in Seq(Reqs) BY CurFields DEF Types, CurTypes
  <1>3. IsInjective(cur.skip) BY DEF QueueInv
  <1>4. Range(cur'.skip) = Range(cur.skip) \cup {Head1} /\ IsInjective(cur'.skip)
    BY <1>1, <1>2, <1>3, AddedTo
  <1> QED BY <1>1, <1>4 DEF QueueInv

(* SetAside is light.                                                        *)
LEMMA SetAsideLight ==
    ASSUME Types, QueueInv, CurInv, SetAside
    PROVE  Light /\ Types' /\ QueueInv' /\ CurInv'
  <1>1. cur \in CurT /\ cur.skip \in Seq(Reqs) BY CurFields DEF Types, CurTypes
  <1>2. Pop /\ cur.pass = "wait" BY DEF SetAside, Admitting, Pop
  <1>3. Head1 \in Reqs BY <1>2, HeadIs DEF Pop, Types
  <1>4. Append(cur.skip, Head1) \in Seq(Reqs) BY <1>1, <1>3, AppendProperties
  <1>5. cur' = [cur EXCEPT !.skip = Append(cur.skip, Head1)] BY DEF SetAside
  <1>6. /\ cur' \in CurT /\ SameCur /\ cur'.skip = Append(cur.skip, Head1)
        /\ cur'.pass = "wait"
    BY <1>1, <1>2, <1>4, <1>5, CurSkips DEF SameCur
  <1>7. UNCHANGED <<cacheVars, running, reqVars, blockVars, doneVars, pipe, aborts, seen>> BY DEF SetAside
  <1>8. UNCHANGED <<running, reqVars, blockVars, doneVars, pipe, seen, workVars>> /\ UNCHANGED trkVars
    BY <1>7 DEF cacheVars
  <1>9. trk' = trk BY <1>8 DEF trkVars
  <1>10. Light BY <1>6, <1>8, <1>9, LightIs DEF TrkNotes
  <1>11. st' = st BY <1>10 DEF Light, SameReqs
  <1>12. QueueInv' /\ waiting' \in Seq(Reqs) /\ skipped' \in Seq(Reqs)
    BY <1>2, <1>6, <1>8, <1>11, AsideQueue
  <1>13. Types' BY <1>6, <1>8, <1>12, LightTypes, TrkTypesSame DEF Types
  <1>14. CurInv'
    BY <1>2, <1>6, <1>10, LightCur DEF CurInv
  <1> QED BY <1>10, <1>12, <1>13, <1>14

(* A head that is ready waits or was preempted.                              *)
LEMMA ReadyIs ==
    ASSUME Types, Ready
    PROVE  /\ Head1 \in Reqs /\ st[Head1] \in {"waiting", "preempted"}
           /\ cur.pass = "wait" /\ skipped \o waiting # << >> /\ cur.budget > 0
           /\ Head1 \in Range(skipped) \cup Range(waiting)
  BY HeadIs DEF Ready, Admitting, Types

(* What a lookup notes is what a light step may note.                        *)
LEMMA NotesAre ==
    ASSUME EngineAssumption, Types, Ready, NEW base \in Nat \cup {None},
           trk' = [trk EXCEPT ![Head1] = Noted(base)]
    PROVE  TrkNotes /\ trk' \in [Reqs -> TrackerT]
  <1> DEFINE t == Noted(base)
  <1>1. Head1 \in Reqs /\ st[Head1] \in {"waiting", "preempted"} BY ReadyIs
  <1>2. /\ t \in TrackerT
        /\ \/ t.s = trk[Head1].s /\ t.blocks = trk[Head1].blocks /\ t.sched = trk[Head1].sched
           \/ /\ trk[Head1].s = "none" \/ st[Head1] = "preempted"
              /\ t.s = "prefetching" /\ t.blocks = << >> /\ t.sched = 0
    BY <1>1, NotedIs
  <1>3. trk \in [Reqs -> TrackerT] BY DEF Types, TrkTypes
  <1>4. trk' = [trk EXCEPT ![Head1] = t] OBVIOUS
  <1> HIDE DEF t
  <1>5. trk' \in [Reqs -> TrackerT] BY <1>1, <1>2, <1>3, <1>4
  <1>6. TrkNotes BY <1>1, <1>2, <1>4 DEF TrkNotes
  <1> QED BY <1>5, <1>6

(* LookupPending is light.                                                   *)
LEMMA LookupPendingLight ==
    ASSUME CacheAssumption, EngineAssumption, Types, QueueInv, CurInv, LookupPending
    PROVE  Light /\ Types' /\ QueueInv' /\ CurInv'
  <1>1. cur \in CurT /\ cur.skip \in Seq(Reqs) BY CurFields DEF Types, CurTypes
  <1>0. Ready BY DEF LookupPending
  <1>2. Pop /\ cur.pass = "wait" BY <1>0, ReadyIs DEF LookupPending, Pop
  <1>3. Head1 \in Reqs BY <1>0, ReadyIs
  <1>4. Append(cur.skip, Head1) \in Seq(Reqs) BY <1>1, <1>3, AppendProperties
  <1>5. cur' = [cur EXCEPT !.skip = Append(cur.skip, Head1)] BY DEF LookupPending
  <1>6. /\ cur' \in CurT /\ SameCur /\ cur'.skip = Append(cur.skip, Head1)
        /\ cur'.pass = "wait"
    BY <1>1, <1>2, <1>4, <1>5, CurSkips DEF SameCur
  <1>8. UNCHANGED <<running, reqVars, blockVars, doneVars, pipe, seen, workVars>> BY DEF LookupPending
  <1>9. TrkNotes /\ trk' \in [Reqs -> TrackerT] BY <1>0, NotesAre DEF LookupPending
  <1>10. Light BY <1>6, <1>8, <1>9, LightIs
  <1>11. st' = st BY <1>10 DEF Light, SameReqs
  <1>12. QueueInv' /\ waiting' \in Seq(Reqs) /\ skipped' \in Seq(Reqs)
    BY <1>2, <1>6, <1>8, <1>11, AsideQueue
  <1>15. Known(None, FALSE, FALSE) BY DEF LookupPending
  <1>16. LookupTypes BY <1>3, <1>15, KnownIs
  <1>17. TrkTypes' BY <1>9, <1>16 DEF TrkTypes, LookupTypes, Answers
  <1>13. Types' BY <1>6, <1>8, <1>12, <1>17, LightTypes
  <1>14. CurInv'
    BY <1>2, <1>6, <1>10, LightCur DEF CurInv
  <1> QED BY <1>10, <1>12, <1>13, <1>14

(* The requests set aside go back to the queue.                             *)
LEMMA CloseIs ==
    ASSUME Types, QueueInv, CurInv, Close, cur.pass = "wait",
           running' = running, waiting' = waiting, st' = st
    PROVE  /\ cur' \in CurT /\ SameCur /\ cur'.skip = << >> /\ cur'.pass \in {"late", "rest", "end"}
           /\ cur'.pass = "late" => cur.n = Zero
           /\ skipped' \in Seq(Reqs) /\ waiting' \in Seq(Reqs) /\ QueueInv'
  <1>1. cur \in CurT /\ cur.skip \in Seq(Reqs) BY CurFields DEF Types, CurTypes
  <1>2. << >> \in Seq(Reqs) /\ skipped \in Seq(Reqs) /\ waiting \in Seq(Reqs)
    BY EmptySeq DEF Types, QueueTypes
  <1>3. Rest \in Passes /\ Rest \in {"late", "rest", "end"} /\ (Rest = "late" => cur.n = Zero)
    BY DEF Rest, Passes
  <1> DEFINE none == << >>
  <1>4. cur' = [cur EXCEPT !.pass = Rest, !.skip = none] /\ none \in Seq(Reqs)
    BY <1>2 DEF Close
  <1> HIDE DEF none
  <1>a. cur' \in CurT /\ SameCur /\ cur'.skip = none /\ cur'.pass = Rest
    BY <1>1, <1>3, <1>4 DEF SameCur, CurT, Passes
  <1>5. cur' \in CurT /\ SameCur /\ cur'.skip = << >> /\ cur'.pass = Rest
    BY <1>a DEF none
  <1>6. IsInjective(cur.skip) /\ IsInjective(skipped) /\ Range(skipped) \cap Range(cur.skip) = {}
    BY DEF QueueInv
  <1>7. skipped' = cur.skip \o skipped BY DEF Close
  <1>8. /\ skipped' \in Seq(Reqs) /\ IsInjective(skipped')
        /\ Range(skipped') = Range(cur.skip) \cup Range(skipped)
    BY <1>1, <1>2, <1>6, <1>7, ConcatProperties, RangeConcatenation, InjectiveConcat
  <1>9. Range(cur'.skip) = {} /\ IsInjective(cur'.skip)
    BY <1>5 DEF Range, IsInjective
  <1>10. QueueInv' BY <1>8, <1>9 DEF QueueInv
  <1> QED BY <1>2, <1>3, <1>5, <1>8, <1>10

(* StopAdmitting is light.                                                   *)
LEMMA StopAdmittingLight ==
    ASSUME CacheAssumption, EngineAssumption, Types, QueueInv, CurInv, StopAdmitting
    PROVE  Light /\ Types' /\ QueueInv' /\ CurInv'
  <1>0. Ready BY DEF StopAdmitting
  <1>1. cur.pass = "wait" /\ Head1 \in Reqs BY <1>0, ReadyIs
  <1>2. PICK base \in Bases, async \in BOOLEAN :
          Known(base, async, FALSE) /\ trk' = [trk EXCEPT ![Head1] = Noted(base)]
    BY DEF StopAdmitting
  <1>3. base \in Nat BY <1>2 DEF Bases, CacheAssumption, EngineAssumption
  <1>4. LookupTypes BY <1>1, <1>2, KnownIs
  <1>5. TrkNotes /\ trk' \in [Reqs -> TrackerT] BY <1>0, <1>2, <1>3, NotesAre
  <1>6. TrkTypes' BY <1>4, <1>5 DEF TrkTypes, LookupTypes, Answers
  <1>7. UNCHANGED <<running, reqVars, blockVars, doneVars, pipe, seen, workVars>> BY DEF StopAdmitting
  <1>8. waiting' = waiting /\ running' = running /\ st' = st /\ Close BY DEF StopAdmitting, reqVars
  <1>9. /\ cur' \in CurT /\ SameCur /\ cur'.skip = << >> /\ cur'.pass \in {"late", "rest", "end"}
        /\ cur'.pass = "late" => cur.n = Zero
        /\ skipped' \in Seq(Reqs) /\ waiting' \in Seq(Reqs) /\ QueueInv'
    BY <1>1, <1>8, CloseIs
  <1>10. Light BY <1>5, <1>7, <1>9, LightIs
  <1>11. Types' BY <1>6, <1>7, <1>9, LightTypes
  <1>12. CurInv' BY <1>1, <1>9, <1>10, LightCur
  <1> QED BY <1>9, <1>10, <1>11, <1>12

(* EndAdmitting is light.                                                    *)
LEMMA EndAdmittingLight ==
    ASSUME Types, QueueInv, CurInv, EndAdmitting
    PROVE  Light /\ Types' /\ QueueInv' /\ CurInv'
  <1>1. cur.pass = "wait" BY DEF EndAdmitting
  <1>2. UNCHANGED <<cacheVars, waiting, running, reqVars, blockVars, doneVars, pipe, aborts, seen>>
    BY DEF EndAdmitting
  <1>7. UNCHANGED <<running, reqVars, blockVars, doneVars, pipe, seen, workVars>> /\ UNCHANGED trkVars
    BY <1>2 DEF cacheVars
  <1>8. waiting' = waiting /\ running' = running /\ st' = st /\ Close BY DEF EndAdmitting, reqVars
  <1>9. /\ cur' \in CurT /\ SameCur /\ cur'.skip = << >> /\ cur'.pass \in {"late", "rest", "end"}
        /\ cur'.pass = "late" => cur.n = Zero
        /\ skipped' \in Seq(Reqs) /\ waiting' \in Seq(Reqs) /\ QueueInv'
    BY <1>1, <1>8, CloseIs
  <1>5. trk' = trk BY <1>7 DEF trkVars
  <1>10. Light BY <1>5, <1>7, <1>9, LightIs DEF TrkNotes
  <1>11. Types' BY <1>7, <1>9, LightTypes, TrkTypesSame DEF Types
  <1>12. CurInv' BY <1>1, <1>9, <1>10, LightCur
  <1> QED BY <1>9, <1>10, <1>11, <1>12

-----------------------------------------------------------------------------
(* The worker, the cache server and the heartbeat.                           *)

(* The steps on their way, up to how far they are.                           *)
SameShape ==
    /\ pipe' \in Seq(StepT) /\ Len(pipe') = Len(pipe) /\ DOMAIN pipe' = DOMAIN pipe
    /\ \A k \in DOMAIN pipe :
        /\ pipe'[k].n = pipe[k].n /\ pipe'[k].samples = pipe[k].samples
        /\ pipe'[k].fin = pipe[k].fin /\ pipe'[k].writes = pipe[k].writes
        /\ pipe'[k].retr = pipe[k].retr /\ pipe'[k].puts = pipe[k].puts

SameQueues == waiting' = waiting /\ skipped' = skipped /\ running' = running

(* A step of the others leaves the engine alone but for the KV.              *)
Aside ==
    /\ SameQueues /\ SameReqs /\ SameBlocks /\ SameDone /\ cur' = cur /\ trk' = trk /\ SameShape
    /\ Clean' = Clean /\ ("lost" \in seen' <=> "lost" \in seen)

(* The fields of a step.                                                     *)
LEMMA StepFields ==
    ASSUME NEW s \in StepT
    PROVE  /\ s.n \in [Reqs -> Nat] /\ s.samples \in SUBSET Reqs /\ s.fin \in SUBSET Reqs
           /\ s.writes \in SUBSET WriteT /\ s.retr \in SUBSET RetrT /\ s.puts \in SUBSET WriteT
           /\ s.exec \in {"no", "loaded", "done"} /\ s.recv \in SUBSET Reqs
           /\ s.send \in SUBSET Reqs /\ s.bad \in SUBSET Blocks
  BY DEF StepT

(* The fields of a write.                                                    *)
LEMMA WriteFields ==
    ASSUME NEW w \in WriteT
    PROVE  /\ w.block \in Blocks /\ w.kv \in Reqs \X Nat
           /\ w.kv[1] \in Reqs /\ w.kv[2] \in Nat /\ w.kv = <<w.kv[1], w.kv[2]>>
           /\ w = [block |-> w.block, kv |-> w.kv]
  BY DEF WriteT

(* The fields of a load that is asked for.                                   *)
LEMMA RetrFields ==
    ASSUME NEW o \in RetrT PROVE o.req \in Reqs /\ o.blocks \in Seq(Blocks)
  BY DEF RetrT

(* The fields of a transfer.                                                 *)
LEMMA LoadFields ==
    ASSUME NEW l \in LoadT
    PROVE  l.s \in {"none", "flying", "good", "bad"} /\ l.blocks \in Seq(Blocks)
  BY DEF LoadT

(* The steps on their way, by their number.                                  *)
LEMMA PipeIs ==
    ASSUME PipeTypes
    PROVE  /\ Len(pipe) \in Nat /\ DOMAIN pipe = 1..Len(pipe) /\ DOMAIN pipe \subseteq Nat
           /\ \A k \in DOMAIN pipe : pipe[k] \in StepT
  <1>1. pipe \in Seq(StepT) BY DEF PipeTypes
  <1>2. Len(pipe) \in Nat /\ DOMAIN pipe = 1..Len(pipe) BY <1>1, LenProperties
  <1>3. \A k \in 1..Len(pipe) : pipe[k] \in StepT BY <1>1, ElementOfSeq
  <1> QED BY <1>2, <1>3

(* The step the worker is at.                                               *)
LEMMA AtIs ==
    ASSUME PipeTypes, Working
    PROVE  /\ At \in DOMAIN pipe /\ pipe[At].exec # "done" /\ pipe[At] \in StepT
           /\ \A i \in DOMAIN pipe : pipe[i].exec # "done" => At <= i
           /\ \A i \in DOMAIN pipe : i < At => pipe[i].exec = "done"
           /\ ~fatal /\ cur = Idle
  <1> DEFINE S == {i \in DOMAIN pipe : pipe[i].exec # "done"}
  <1>1. S \in SUBSET Nat /\ S # {} BY PipeIs DEF Working
  <1>2. At = Min(S) BY DEF At
  <1>3. At \in S /\ \A i \in S : At <= i BY <1>1, <1>2, LeastOf
  <1>4. At \in DOMAIN pipe /\ pipe[At].exec # "done" BY <1>3
  <1>5. \A i \in DOMAIN pipe : pipe[i].exec # "done" => At <= i BY <1>3
  <1>6. \A i \in DOMAIN pipe : i < At => pipe[i].exec = "done" BY <1>1, <1>4, <1>5, PipeIs
  <1> QED BY <1>4, <1>5, <1>6, PipeIs DEF Working

(* A step whose loads are begun.                                             *)
LEMMA LoadedStep ==
    ASSUME NEW s \in StepT
    PROVE  LET t == [s EXCEPT !.exec = "loaded"]
           IN /\ t \in StepT /\ t.exec = "loaded" /\ t.n = s.n /\ t.samples = s.samples
              /\ t.fin = s.fin /\ t.writes = s.writes /\ t.retr = s.retr /\ t.puts = s.puts
              /\ t.recv = s.recv /\ t.send = s.send /\ t.bad = s.bad
  BY DEF StepT

(* A step that moves along leaves the shape of the pipe.                     *)
LEMMA ShapeIs ==
    ASSUME PipeTypes, NEW i \in DOMAIN pipe, NEW s \in StepT, pipe' = [pipe EXCEPT ![i] = s],
           s.n = pipe[i].n, s.samples = pipe[i].samples, s.fin = pipe[i].fin,
           s.writes = pipe[i].writes, s.retr = pipe[i].retr, s.puts = pipe[i].puts
    PROVE  SameShape /\ PipeTypes' /\ pipe'[i] = s /\ \A k \in DOMAIN pipe : k # i => pipe'[k] = pipe[k]
  <1>1. pipe \in Seq(StepT) /\ i \in 1..Len(pipe) BY PipeIs DEF PipeTypes
  <1>2. /\ pipe' \in Seq(StepT) /\ Len(pipe') = Len(pipe)
        /\ \A j \in 1..Len(pipe) : pipe'[j] = IF j = i THEN s ELSE pipe[j]
    BY <1>1, ExceptSeq
  <1>3. DOMAIN pipe' = DOMAIN pipe /\ DOMAIN pipe = 1..Len(pipe) BY <1>1, <1>2, LenProperties
  <1>4. PipeTypes' BY <1>2 DEF PipeTypes
  <1>5. pipe'[i] = s /\ \A k \in DOMAIN pipe : k # i => pipe'[k] = pipe[k] BY <1>1, <1>2, <1>3
  <1> QED BY <1>2, <1>3, <1>4, <1>5 DEF SameShape

(* What StartStep does.                                                      *)
LEMMA StartStepIs ==
    ASSUME Types, StartStep
    PROVE  /\ At \in DOMAIN pipe /\ pipe[At] \in StepT /\ pipe[At].exec = "no" /\ pipe[At].retr # {}
           /\ \A i \in DOMAIN pipe : i < At => pipe[i].exec = "done"
           /\ ~fatal /\ cur = Idle
           /\ SameShape /\ PipeTypes' /\ \A k \in DOMAIN pipe : k # At => pipe'[k] = pipe[k]
           /\ pipe'[At].exec = "loaded" /\ pipe'[At].recv = pipe[At].recv
           /\ pipe'[At].send = pipe[At].send /\ pipe'[At].bad = pipe[At].bad
           /\ StartLoads(pipe[At].retr)
           /\ UNCHANGED <<trkVars, faults, queueVars, reqVars, blockVars, doneVars, cur, seen>>
  <1>1. Working /\ pipe[At].exec = "no" /\ pipe[At].retr # {} BY DEF StartStep
  <1>2. /\ At \in DOMAIN pipe /\ pipe[At] \in StepT /\ ~fatal /\ cur = Idle
        /\ \A i \in DOMAIN pipe : i < At => pipe[i].exec = "done"
    BY <1>1, AtIs DEF Types
  <1> DEFINE s == [pipe[At] EXCEPT !.exec = "loaded"]
  <1>3. pipe' = [pipe EXCEPT ![At] = s] BY <1>2 DEF StartStep
  <1>4. /\ s \in StepT /\ s.exec = "loaded" /\ s.n = pipe[At].n /\ s.samples = pipe[At].samples
        /\ s.fin = pipe[At].fin /\ s.writes = pipe[At].writes /\ s.retr = pipe[At].retr
        /\ s.puts = pipe[At].puts /\ s.recv = pipe[At].recv /\ s.send = pipe[At].send
        /\ s.bad = pipe[At].bad
    BY <1>2, LoadedStep
  <1> HIDE DEF s
  <1>5. SameShape /\ PipeTypes' /\ pipe'[At] = s /\ \A k \in DOMAIN pipe : k # At => pipe'[k] = pipe[k]
    BY <1>2, <1>3, <1>4, ShapeIs DEF Types
  <1> QED BY <1>1, <1>2, <1>4, <1>5 DEF StartStep

(* The loads that are begun are loads.                                       *)
LEMMA StartLoadsTypes ==
    ASSUME WorkTypes, NEW ops \in SUBSET RetrT, StartLoads(ops)
    PROVE  WorkTypes'
  <1>1. {o.req : o \in ops} \subseteq Reqs /\ \A o \in ops : o.blocks \in Seq(Blocks) /\ o.req \in Reqs
    BY RetrFields
  <1>2. UNCHANGED <<health, stores, finStores, prevFin, returned, fatal>> BY DEF StartLoads
  <1>3. CASE health
    <2>1. Submitted(ops) /\ dropped' = dropped /\ errs' = errs BY <1>3 DEF StartLoads
    <2>2. ASSUME NEW r \in Reqs, \E o \in ops : o.req = r
          PROVE  [s |-> "flying", blocks |-> (CHOOSE o \in ops : o.req = r).blocks] \in LoadT
      BY <1>1, <2>2 DEF LoadT
    <2>3. dma' \in [Reqs -> LoadT] BY <2>1, <2>2 DEF Submitted, WorkTypes
    <2>4. loading' \subseteq Reqs BY <1>1, <2>1 DEF Submitted, WorkTypes
    <2> QED BY <1>2, <2>1, <2>3, <2>4 DEF WorkTypes
  <1>4. CASE ~health
    <2>1. /\ dropped' = dropped \cup {o.req : o \in ops} /\ loading' = loading /\ dma' = dma
          /\ errs' = errs \cup UNION {Ids(o.blocks) : o \in ops}
      BY <1>4 DEF StartLoads
    <2>2. ASSUME NEW o \in ops PROVE Ids(o.blocks) \subseteq Blocks
      BY <1>1, LenProperties, ElementOfSeq DEF Ids
    <2> QED BY <1>1, <1>2, <2>1, <2>2 DEF WorkTypes
  <1> QED BY <1>3, <1>4

(* The types, in a step that leaves the engine as it is.                     *)
LEMMA AsideTypes ==
    ASSUME Types, SameQueues, UNCHANGED <<reqVars, doneVars, cur, trkVars>>, SameBlocks, WorkTypes', PipeTypes'
    PROVE  Types'
  <1>1. TrkTypes' BY TrkTypesSame DEF Types
  <1>2. QueueTypes' BY DEF Types, QueueTypes, SameQueues
  <1>3. ReqTypes' BY ReqTypesSame DEF Types
  <1>4. BlockTypes' BY DEF SameBlocks, Types, BlockTypes
  <1>5. DoneTypes' BY DoneTypesSame DEF Types
  <1>6. CurTypes' BY DEF Types, CurTypes
  <1> QED BY <1>1, <1>2, <1>3, <1>4, <1>5, <1>6 DEF Types

(* StartStep leaves the engine as it is.                                     *)
LEMMA StartStepAside ==
    ASSUME Types, StartStep PROVE Aside /\ Types'
  <1>1. /\ SameShape /\ PipeTypes' /\ StartLoads(pipe[At].retr) /\ pipe[At] \in StepT
        /\ UNCHANGED <<trkVars, faults, queueVars, reqVars, blockVars, doneVars, cur, seen>>
    BY StartStepIs
  <1>2. WorkTypes' BY <1>1, StartLoadsTypes, StepFields DEF Types
  <1>3. SameQueues /\ SameBlocks /\ SameReqs /\ SameDone /\ trk' = trk
    BY <1>1 DEF SameQueues, SameBlocks, SameReqs, SameDone, queueVars, blockVars, reqVars, doneVars, trkVars
  <1>4. Types' BY <1>1, <1>2, <1>3, AsideTypes
  <1> QED BY <1>1, <1>3, <1>4 DEF Aside, Clean

SameAside == UNCHANGED <<trkVars, engineVars>>

(* A step that only changes the worker leaves the engine as it is.           *)
LEMMA QuietIs ==
    ASSUME Types, SameAside, WorkTypes' PROVE Aside /\ Types' /\ pipe' = pipe
  <1>0. UNCHANGED <<trkVars, engineVars>> BY DEF SameAside
  <1>1. UNCHANGED <<trkVars, queueVars, reqVars, blockVars, doneVars, pipe, cur, seen>>
    BY <1>0 DEF engineVars
  <1>2. SameQueues /\ SameBlocks /\ SameReqs /\ SameDone /\ trk' = trk
    BY <1>1 DEF SameQueues, SameBlocks, SameReqs, SameDone, queueVars, blockVars, reqVars, doneVars, trkVars
  <1>3. PipeTypes' BY <1>1, PipeTypesSame DEF Types
  <1>4. Types' BY <1>1, <1>2, <1>3, AsideTypes
  <1>5. SameShape BY <1>1, <1>3 DEF SameShape, PipeTypes
  <1> QED BY <1>1, <1>2, <1>4, <1>5 DEF Aside, Clean

(* A crash leaves the engine as it is.                                       *)
LEMMA CrashAside ==
    ASSUME Types, Crash
    PROVE  /\ Aside /\ Types' /\ pipe' = pipe /\ content' = content /\ fatal' /\ seen' = seen
           /\ UNCHANGED <<health, loading, dma, stores, finStores, prevFin, returned, dropped, errs>>
  <1>1. /\ UNCHANGED <<trkVars, engineVars>> /\ fatal'
        /\ UNCHANGED <<health, loading, dma, stores, finStores, prevFin, returned, dropped, errs>>
    BY DEF Crash, FailStop
  <1>2. WorkTypes' BY <1>1 DEF Types, WorkTypes
  <1>3. content' = content /\ seen' = seen BY <1>1 DEF engineVars, blockVars
  <1> QED BY <1>1, <1>2, <1>3, QuietIs DEF SameAside

(* The heartbeat leaves the engine as it is.                                 *)
LEMMA HeartbeatAside ==
    ASSUME Types, Heartbeat
    PROVE  /\ Aside /\ Types' /\ pipe' = pipe /\ content' = content /\ seen' = seen
           /\ UNCHANGED <<loading, dma, stores, finStores, prevFin, returned, dropped, errs, fatal>>
           /\ Up
  <1>1. /\ UNCHANGED <<trkVars, engineVars>> /\ health' \in BOOLEAN /\ Up
        /\ UNCHANGED <<loading, dma, stores, finStores, prevFin, returned, dropped, errs, fatal>>
    BY DEF Heartbeat, HeartbeatFails, HeartbeatRecovers
  <1>2. WorkTypes' BY <1>1 DEF Types, WorkTypes
  <1>3. content' = content /\ seen' = seen BY <1>1 DEF engineVars, blockVars
  <1> QED BY <1>1, <1>2, <1>3, QuietIs DEF SameAside

(* The answer of a lookup leaves the engine as it is.                        *)
LEMMA LookupEndsAside ==
    ASSUME CacheAssumption, Types, NEW r \in Reqs, LookupEnds(r)
    PROVE  /\ Aside /\ Types' /\ pipe' = pipe /\ content' = content /\ seen' = seen
           /\ UNCHANGED <<health, loading, dma, stores, finStores, prevFin, returned, dropped, errs, fatal>>
  <1>1. /\ UNCHANGED <<trk, pending, result, lookupOk, workVars, engineVars>>
        /\ \E h \in 0..Prompt : job' = [job EXCEPT ![r] = h]
    BY DEF LookupEnds
  <1>2. UNCHANGED <<health, loading, dma, stores, finStores, prevFin, returned, dropped, errs, fatal>>
    BY <1>1 DEF workVars
  <1>3. UNCHANGED <<queueVars, reqVars, blockVars, doneVars, pipe, cur, seen>> /\ trk' = trk
    BY <1>1 DEF engineVars
  <1>4. WorkTypes' BY <1>2 DEF Types, WorkTypes
  <1>5. TrkTypes' BY <1>1 DEF Types, TrkTypes
  <1>6. SameQueues /\ SameBlocks /\ SameReqs /\ SameDone /\ content' = content
    BY <1>3 DEF SameQueues, SameBlocks, SameReqs, SameDone, queueVars, blockVars, reqVars, doneVars
  <1>7. PipeTypes' BY <1>3, PipeTypesSame DEF Types
  <1>8. QueueTypes' /\ BlockTypes' BY <1>6 DEF Types, QueueTypes, SameQueues, BlockTypes, SameBlocks
  <1>9. ReqTypes' /\ DoneTypes' BY <1>3, ReqTypesSame, DoneTypesSame DEF Types
  <1>10. CurTypes' BY <1>3 DEF Types, CurTypes
  <1>11. SameShape BY <1>3, <1>7 DEF SameShape, PipeTypes
  <1>12. Types' BY <1>4, <1>5, <1>7, <1>8, <1>9, <1>10 DEF Types
  <1> QED BY <1>2, <1>3, <1>6, <1>11, <1>12 DEF Aside, Clean

(* The end of a transfer changes the KV of blocks and no more.               *)
LEMMA TransferEndsAside ==
    ASSUME Types, NEW r \in Reqs, TransferEnds(r)
    PROVE  /\ Aside /\ Types' /\ pipe' = pipe /\ seen' = seen /\ Up /\ dma[r].s = "flying"
           /\ UNCHANGED <<health, loading, stores, finStores, prevFin, returned, dropped, errs, fatal>>
           /\ dma' \in [Reqs -> LoadT] /\ \A q \in Reqs : q # r => dma'[q] = dma[q]
           /\ dma'[r].blocks = dma[r].blocks /\ dma'[r].s \in {"good", "bad"}
           /\ \A b \in Blocks : b \notin Ids(dma[r].blocks) => content'[b] = content[b]
           /\ dma'[r].s = "good" => content' = [b \in Blocks |->
                 IF b \in Ids(dma[r].blocks)
                 THEN <<r, CHOOSE i \in DOMAIN dma[r].blocks : dma[r].blocks[i] = b>>
                 ELSE content[b]]
  <1>1. /\ UNCHANGED <<trkVars, health, loading, stores, finStores, prevFin, returned, dropped, errs,
                   fatal, queueVars, reqVars, table, free, deferred, doneVars, pipe, cur, aborts,
                   seen>>
        /\ Up /\ dma[r].s = "flying"
    BY DEF TransferEnds
  <1>2. dma \in [Reqs -> LoadT] BY DEF Types, WorkTypes
  <1>3. PICK x \in {"good", "bad"} :
          /\ dma' = [dma EXCEPT ![r] = [dma[r] EXCEPT !.s = x]]
          /\ content' = [b \in Blocks |->
                 IF b \in Ids(dma[r].blocks)
                 THEN IF x = "good" THEN <<r, CHOOSE i \in DOMAIN dma[r].blocks : dma[r].blocks[i] = b>>
                      ELSE None
                 ELSE content[b]]
    BY <1>2 DEF TransferEnds
  <1> DEFINE l == [dma[r] EXCEPT !.s = x]
  <1>4. l \in LoadT /\ l.s = x /\ l.blocks = dma[r].blocks BY <1>2 DEF LoadT
  <1>5. dma' = [dma EXCEPT ![r] = l] BY <1>3
  <1> HIDE DEF l
  <1>6. dma' \in [Reqs -> LoadT] /\ dma'[r] = l /\ \A q \in Reqs : q # r => dma'[q] = dma[q]
    BY <1>2, <1>4, <1>5
  <1>7. WorkTypes' BY <1>1, <1>6 DEF Types, WorkTypes
  <1>8. SameQueues /\ SameBlocks /\ SameReqs /\ SameDone /\ trk' = trk
    BY <1>1 DEF SameQueues, SameBlocks, SameReqs, SameDone, queueVars, reqVars, doneVars, trkVars
  <1>9. PipeTypes' BY <1>1, PipeTypesSame DEF Types
  <1>10. Types' BY <1>1, <1>7, <1>8, <1>9, AsideTypes
  <1>11. SameShape BY <1>1, <1>9 DEF SameShape, PipeTypes
  <1>12. Aside BY <1>1, <1>8, <1>11 DEF Aside, Clean
  <1>13. \A b \in Blocks : b \notin Ids(dma[r].blocks) => content'[b] = content[b] BY <1>3
  <1>14. dma'[r].s = "good" => content' = [b \in Blocks |->
                 IF b \in Ids(dma[r].blocks)
                 THEN <<r, CHOOSE i \in DOMAIN dma[r].blocks : dma[r].blocks[i] = b>>
                 ELSE content[b]]
    BY <1>3, <1>4, <1>6
  <1> QED BY <1>1, <1>4, <1>6, <1>10, <1>12, <1>13, <1>14

-----------------------------------------------------------------------------
(* The worker executes a step.                                               *)

(* What the worker reports of the stores.                                   *)
LEMMA SentIs ==
    ASSUME NEW fin, NEW had, NEW ended, NEW left, fin \subseteq Reqs, had \subseteq Reqs,
           ended \subseteq Reqs, left \subseteq Reqs, returned \subseteq Reqs, prevFin \subseteq Reqs,
           NEW o, o = Sent(fin, had, ended, left)
    PROVE  /\ o.send \subseteq fin \cup prevFin /\ o.prev \subseteq fin \cup prevFin
           /\ o.fins \subseteq had \cup ended /\ o.send \subseteq Reqs /\ o.prev \subseteq Reqs
           /\ o.fins \subseteq Reqs
           /\ (had \cup ended) \cap left = {} => o.send \cap left = {}
  BY DEF Sent

(* The requests whose stores the step submits, and those whose loads it      *)
(* reports.                                                                  *)
Stored == IF health THEN {p.kv[1] : p \in pipe[At].puts} ELSE {}

Came == IF health THEN Ended \cup dropped ELSE dropped

(* What Execute does.                                                        *)
LEMMA ExecuteIs ==
    ASSUME Types, NEW over, Execute(over)
    PROVE  /\ At \in DOMAIN pipe /\ pipe[At] \in StepT /\ pipe[At].exec # "done"
           /\ \A i \in DOMAIN pipe : i < At => pipe[i].exec = "done"
           /\ ~fatal /\ cur = Idle
           /\ pipe[At].exec = "loaded" \/ pipe[At].retr = {}
           /\ SameShape /\ PipeTypes' /\ \A k \in DOMAIN pipe : k # At => pipe'[k] = pipe[k]
           /\ pipe'[At].exec = "done" /\ pipe'[At].recv = Came /\ pipe'[At].bad = Flagged
           /\ Stored \subseteq Reqs
           /\ errs' = {} /\ dropped' = {} /\ fatal' = fatal /\ health' = health
           /\ stores' \subseteq stores \cup Stored
           /\ ~health => stores' = {} /\ loading = {} /\ loading' = loading /\ dma' = dma
           /\ health => /\ loading' = loading \ Ended
                        /\ dma' = [r \in Reqs |-> IF r \in Ended THEN NoLoad ELSE dma[r]]
           /\ prevFin' \subseteq prevFin \cup pipe[At].fin
           /\ pipe'[At].send \subseteq prevFin \cup pipe[At].fin
           /\ pipe'[At].send \cap Came # {} => health
           /\ returned' \subseteq returned \cup prevFin \cup pipe[At].fin
           /\ finStores' \subseteq finStores \cup stores \cup Stored
           /\ finStores \cap stores = {} =>
                 finStores' \cap stores' = {} /\ pipe'[At].send \cap stores' = {}
           /\ content' = [b \in Blocks |->
                 IF \E w \in pipe[At].writes : w.block = b
                 THEN (CHOOSE w \in pipe[At].writes : w.block = b).kv ELSE content[b]]
           /\ seen' = IF Stored # {} /\ \E p \in pipe[At].puts : content'[p.block] # p.kv
                      THEN seen \cup {"misfiled"} ELSE seen
           /\ SameQueues /\ SameReqs /\ SameBlocks /\ SameDone /\ trk' = trk /\ cur' = cur
           /\ UNCHANGED <<trkVars, reqVars, doneVars, cur>>
           /\ WorkTypes'
  <1> DEFINE s == pipe[At]
  <1>1. Working /\ (s.exec = "loaded" \/ s.retr = {}) BY DEF Execute
  <1>2. /\ At \in DOMAIN pipe /\ s \in StepT /\ s.exec # "done" /\ ~fatal /\ cur = Idle
        /\ \A i \in DOMAIN pipe : i < At => pipe[i].exec = "done"
    BY <1>1, AtIs DEF Types
  <1>3. /\ s.fin \subseteq Reqs /\ Stored \subseteq Reqs
    <2>1. s.puts \subseteq WriteT /\ s.fin \subseteq Reqs BY <1>2, StepFields
    <2> QED BY <2>1, WriteFields DEF Stored
  <1>4. over \subseteq stores \cup Stored BY DEF Execute, Stored
  <1>5. /\ loading \subseteq Reqs /\ stores \subseteq Reqs /\ finStores \subseteq Reqs
        /\ prevFin \subseteq Reqs /\ returned \subseteq Reqs /\ dropped \subseteq Reqs /\ errs \subseteq Blocks
        /\ dma \in [Reqs -> LoadT] /\ health \in BOOLEAN
    BY DEF Types, WorkTypes
  <1>6. Flagged \subseteq Blocks
    <2>1. \A r \in Ended : Ids(dma[r].blocks) \subseteq Blocks
      BY <1>5, LoadFields, LenProperties, ElementOfSeq DEF Ids, Ended
    <2> QED BY <1>5, <2>1 DEF Flagged
  <1>7. Came \subseteq Reqs BY <1>5 DEF Came, Ended
  <1>8. PICK sent :
          /\ pipe' = [pipe EXCEPT ![At] = [@ EXCEPT !.exec = "done", !.recv = Came, !.bad = Flagged,
                                           !.send = sent.send \ IF health THEN {} ELSE Came]]
          /\ Report(sent)
          /\ dropped' = {} /\ fatal' = fatal /\ health' = health
          /\ \/ /\ ~health /\ loading = {} /\ loading' = loading /\ dma' = dma /\ stores' = {}
                /\ sent = Sent(s.fin, finStores, stores, {})
             \/ /\ health /\ loading' = loading \ Ended
                /\ dma' = [r \in Reqs |-> IF r \in Ended THEN NoLoad ELSE dma[r]]
                /\ stores' = (stores \cup Stored) \ over
                /\ sent = Sent(s.fin, finStores \ Stored, over, (stores \cup Stored) \ over)
    <2>1. CASE Drain(s.fin) /\ over = {} /\ Ran(dropped, DrainOut(s.fin))
      BY <2>1 DEF Drain, Ran, DrainOut, Came
    <2>2. CASE /\ Poll(s.fin, Stored, over)
               /\ Ran(Ended \cup dropped, PollOut(s.fin, Stored, over))
      BY <2>2 DEF Poll, Ran, PollOut, Came
    <2> QED BY <2>1, <2>2 DEF Execute, Stored
  <1> DEFINE had == IF health THEN finStores \ Stored ELSE finStores
             ended == IF health THEN over ELSE stores
             left == IF health THEN (stores \cup Stored) \ over ELSE {}
  <1>9. /\ sent = Sent(s.fin, had, ended, left) /\ stores' = left
        /\ had \subseteq Reqs /\ ended \subseteq Reqs /\ left \subseteq Reqs
    BY <1>3, <1>4, <1>5, <1>8
  <1>10. /\ had \subseteq finStores /\ ended \subseteq stores \cup Stored
         /\ left \subseteq stores \cup Stored
         /\ finStores \cap stores = {} => (had \cup ended) \cap left = {}
    BY <1>4
  <1> HIDE DEF had, ended, left
  <1>11. /\ sent.send \subseteq s.fin \cup prevFin /\ sent.prev \subseteq s.fin \cup prevFin
         /\ sent.fins \subseteq had \cup ended /\ sent.send \subseteq Reqs /\ sent.prev \subseteq Reqs
         /\ sent.fins \subseteq Reqs
         /\ (had \cup ended) \cap left = {} => sent.send \cap left = {}
    BY <1>3, <1>5, <1>9, SentIs
  <1>12. finStores' = sent.fins /\ prevFin' = sent.prev /\ returned' = returned \cup sent.send
    BY <1>8 DEF Report
  <1> DEFINE snd == sent.send \ IF health THEN {} ELSE Came
             t == [s EXCEPT !.exec = "done", !.recv = Came, !.bad = Flagged, !.send = snd]
  <1>13. snd \subseteq sent.send /\ (snd \cap Came # {} => health) /\ snd \subseteq Reqs BY <1>11
  <1>14. pipe' = [pipe EXCEPT ![At] = t] BY <1>2, <1>8
  <1> HIDE DEF snd
  <1>15. /\ t \in StepT /\ t.exec = "done" /\ t.n = s.n /\ t.samples = s.samples
         /\ t.fin = s.fin /\ t.writes = s.writes /\ t.retr = s.retr /\ t.puts = s.puts
         /\ t.recv = Came /\ t.send = snd /\ t.bad = Flagged
    BY <1>2, <1>6, <1>7, <1>13 DEF StepT
  <1> HIDE DEF t
  <1>16. SameShape /\ PipeTypes' /\ pipe'[At] = t /\ \A k \in DOMAIN pipe : k # At => pipe'[k] = pipe[k]
    BY <1>2, <1>14, <1>15, ShapeIs DEF Types
  <1>17. UNCHANGED <<trkVars, faults, queueVars, reqVars, table, free, deferred, doneVars, cur>>
         /\ errs' = {}
    BY DEF Execute
  <1>18. SameQueues /\ SameReqs /\ SameBlocks /\ SameDone /\ trk' = trk /\ cur' = cur
    BY <1>17 DEF SameQueues, SameBlocks, SameReqs, SameDone, queueVars, reqVars, doneVars, trkVars
  <1>19. /\ content' = [b \in Blocks |->
                 IF \E w \in pipe[At].writes : w.block = b
                 THEN (CHOOSE w \in pipe[At].writes : w.block = b).kv ELSE content[b]]
         /\ seen' = IF Stored # {} /\ \E p \in pipe[At].puts : content'[p.block] # p.kv
                    THEN seen \cup {"misfiled"} ELSE seen
    BY DEF Execute, Stored
  <1>20. loading' \subseteq Reqs /\ dma' \in [Reqs -> LoadT]
    <2>1. NoLoad \in LoadT BY EmptySeq DEF NoLoad, LoadT
    <2> QED BY <1>5, <1>8, <2>1
  <1>21. WorkTypes' BY <1>5, <1>8, <1>9, <1>11, <1>12, <1>17, <1>20 DEF WorkTypes
  <1>22. /\ ~health => stores' = {} /\ loading = {} /\ loading' = loading /\ dma' = dma
         /\ health => /\ loading' = loading \ Ended
                      /\ dma' = [r \in Reqs |-> IF r \in Ended THEN NoLoad ELSE dma[r]]
         /\ dropped' = {} /\ fatal' = fatal /\ health' = health
    BY <1>8
  <1>23. /\ stores' \subseteq stores \cup Stored
         /\ prevFin' \subseteq prevFin \cup s.fin
         /\ snd \subseteq prevFin \cup s.fin
         /\ returned' \subseteq returned \cup prevFin \cup s.fin
         /\ finStores' \subseteq finStores \cup stores \cup Stored
    BY <1>9, <1>10, <1>11, <1>12, <1>13
  <1>24. finStores \cap stores = {} => finStores' \cap stores' = {} /\ snd \cap stores' = {}
    BY <1>9, <1>10, <1>11, <1>12, <1>13
  <1>25. UNCHANGED <<trkVars, reqVars, doneVars, cur>> BY <1>17
  <1> QED BY <1>1, <1>2, <1>3, <1>13, <1>15, <1>16, <1>17, <1>18, <1>19, <1>21, <1>22, <1>23, <1>24, <1>25

(* Execute leaves the engine as it is but for the KV.                        *)
LEMMA ExecuteAside ==
    ASSUME Types, NEW over, Execute(over) PROVE Aside /\ Types'
  <1>1. /\ SameQueues /\ SameReqs /\ SameBlocks /\ SameDone /\ trk' = trk /\ cur' = cur
        /\ SameShape /\ PipeTypes' /\ WorkTypes' /\ UNCHANGED <<trkVars, reqVars, doneVars, cur>>
    BY ExecuteIs
  <1>2. Clean' = Clean /\ ("lost" \in seen' <=> "lost" \in seen)
    <2>1. seen' = seen \/ seen' = seen \cup {"misfiled"} BY ExecuteIs
    <2>2. "misfiled" # "stray" /\ "misfiled" # "lost" OBVIOUS
    <2> QED BY <2>1, <2>2 DEF Clean
  <1>3. Types' BY <1>1, AsideTypes
  <1> QED BY <1>1, <1>2, <1>3 DEF Aside

-----------------------------------------------------------------------------
(* Blocks given and taken back.                                              *)

(* A finite set has an injection from any smaller number.                   *)
LEMMA Injects ==
    ASSUME NEW F, IsFiniteSet(F), NEW m \in Nat, m <= Cardinality(F)
    PROVE  \E f \in [1..m -> F] : IsInjective(f)
  <1>1. Cardinality(F) \in Nat BY FS_CardinalityType
  <1>2. ExistsBijection(1..Cardinality(F), F) BY FS_NatBijection, FS_CardinalityType
  <1>3. PICK g \in Bijection(1..Cardinality(F), F) : TRUE BY <1>2 DEF ExistsBijection
  <1>4. g \in [1..Cardinality(F) -> F] /\ \A i, j \in 1..Cardinality(F) : g[i] = g[j] => i = j
    BY <1>3 DEF Bijection, Injection, IsInjective
  <1> DEFINE f == [i \in 1..m |-> g[i]]
  <1>5. \A i \in 1..m : i \in 1..Cardinality(F) BY <1>1
  <1>6. f \in [1..m -> F] BY <1>4, <1>5
  <1>7. IsInjective(f) BY <1>4, <1>5 DEF IsInjective
  <1> QED BY <1>6, <1>7

(* The blocks that the pool gives are free and different.                    *)
LEMMA GivenIs ==
    ASSUME EngineAssumption, BlockTypes, NEW r \in Reqs, NEW n \in Nat, Fits(r, n)
    PROVE  /\ Given(r, n) \in Seq(Blocks) /\ Given(r, n) \in Seq(free)
           /\ Len(Given(r, n)) = Missing(r, n) /\ Missing(r, n) \in Nat
           /\ Missing(r, n) = IF n > Len(table[r]) THEN n - Len(table[r]) ELSE 0
           /\ IsInjective(Given(r, n)) /\ Range(Given(r, n)) \subseteq free
           /\ Len(table[r]) \in Nat
  <1>1. table[r] \in Seq(Blocks) /\ Len(table[r]) \in Nat BY LenProperties DEF BlockTypes
  <1>2. Missing(r, n) \in Nat BY <1>1 DEF Missing
  <1>3. IsFiniteSet(free) BY FS_Subset DEF EngineAssumption, BlockTypes
  <1>4. \E f \in [1..Missing(r, n) -> free] : IsInjective(f) BY <1>2, <1>3, Injects DEF Fits
  <1>5. Given(r, n) \in [1..Missing(r, n) -> free] /\ IsInjective(Given(r, n)) BY <1>4 DEF Given
  <1>6. Given(r, n) \in Seq(free) BY <1>2, <1>5, SeqDef
  <1>7. Given(r, n) \in Seq(Blocks) BY <1>6, SeqMonotonic DEF BlockTypes
  <1>8. Len(Given(r, n)) = Missing(r, n)
    <2>1. DOMAIN Given(r, n) = 1..Missing(r, n) BY <1>5
    <2>2. DOMAIN Given(r, n) = 1..Len(Given(r, n)) /\ Len(Given(r, n)) \in Nat BY <1>6, LenProperties
    <2> QED BY <1>2, <2>1, <2>2
  <1>9. Range(Given(r, n)) \subseteq free BY <1>5 DEF Range
  <1> QED BY <1>1, <1>2, <1>5, <1>6, <1>7, <1>8, <1>9 DEF Missing

(* A request is given blocks.                                               *)
LEMMA AllocateIs ==
    ASSUME EngineAssumption, BlockTypes, BlockInv, NEW r \in Reqs, NEW n \in Nat, Fits(r, n),
           Allocate(r, n), deferred' = deferred
    PROVE  /\ BlockTypes' /\ BlockInv'
           /\ table'[r] = table[r] \o Given(r, n)
           /\ \A q \in Reqs : q # r => table'[q] = table[q]
           /\ Len(table'[r]) = Len(table[r]) + Missing(r, n) /\ Len(table'[r]) >= n
           /\ \A i \in DOMAIN table[r] : i \in DOMAIN table'[r] /\ table'[r][i] = table[r][i]
           /\ Range(table'[r]) = Range(table[r]) \cup Range(Given(r, n))
           /\ \A b \in Blocks \ free : content'[b] = content[b]
           /\ free' \subseteq free
  <1> DEFINE g == Given(r, n)
  <1>1. /\ g \in Seq(Blocks) /\ Len(g) = Missing(r, n) /\ Missing(r, n) \in Nat
        /\ Missing(r, n) = IF n > Len(table[r]) THEN n - Len(table[r]) ELSE 0
        /\ IsInjective(g) /\ Range(g) \subseteq free /\ Len(table[r]) \in Nat
    BY GivenIs
  <1>2. /\ table' = [table EXCEPT ![r] = table[r] \o g] /\ free' = free \ Range(g)
        /\ content' = [b \in Blocks |-> IF b \in Range(g) THEN None ELSE content[b]]
    BY DEF Allocate
  <1> HIDE DEF g
  <1>3. table \in [Reqs -> Seq(Blocks)] /\ table[r] \in Seq(Blocks) /\ free \subseteq Blocks
    BY DEF BlockTypes
  <1>4. /\ table[r] \o g \in Seq(Blocks) /\ Len(table[r] \o g) = Len(table[r]) + Len(g)
        /\ \A i \in 1..Len(table[r]) + Len(g) :
              (table[r] \o g)[i] = IF i <= Len(table[r]) THEN table[r][i] ELSE g[i - Len(table[r])]
    BY <1>1, <1>3, ConcatProperties
  <1>5. table' \in [Reqs -> Seq(Blocks)] /\ table'[r] = table[r] \o g
    BY <1>2, <1>3, <1>4
  <1>6. \A q \in Reqs : q # r => table'[q] = table[q] BY <1>2, <1>3
  <1>7. Len(table'[r]) = Len(table[r]) + Missing(r, n) /\ Len(table'[r]) >= n
    <2> DEFINE a == Len(table[r])  m == Missing(r, n)
    <2>1. a \in Nat /\ m \in Nat /\ m = IF n > a THEN n - a ELSE 0 BY <1>1
    <2>2. Len(table'[r]) = a + m BY <1>1, <1>4, <1>5
    <2> HIDE DEF a, m
    <2>3. a + m >= n BY <2>1
    <2> QED BY <2>2, <2>3 DEF a, m
  <1>8. ASSUME NEW i \in DOMAIN table[r] PROVE i \in DOMAIN table'[r] /\ table'[r][i] = table[r][i]
    <2>1. i \in 1..Len(table[r]) BY <1>3, LenProperties
    <2> DEFINE a == Len(table[r])  m == Len(g)
    <2>a. a \in Nat /\ m \in Nat /\ i \in 1..a BY <1>1, <2>1
    <2> HIDE DEF a, m
    <2>b. i \in 1..a + m /\ i <= a BY <2>a
    <2>2. i \in 1..Len(table[r]) + Len(g) /\ i <= Len(table[r]) BY <2>b DEF a, m
    <2>3. DOMAIN table'[r] = 1..Len(table[r]) + Len(g) BY <1>4, <1>5, LenProperties
    <2> QED BY <1>4, <1>5, <2>2, <2>3
  <1>9. Range(table'[r]) = Range(table[r]) \cup Range(g) BY <1>1, <1>3, <1>5, RangeConcatenation
  <1>10. IsInjective(table[r]) /\ Range(table[r]) \cap free = {} BY DEF BlockInv, Partition
  <1>11. IsInjective(table'[r])
    BY <1>1, <1>3, <1>5, <1>10, InjectiveConcat
  <1>12. BlockTypes' BY <1>2, <1>5, <1>3 DEF BlockTypes
  <1>13. \A q \in Reqs : Range(table'[q]) = IF q = r THEN Range(table[r]) \cup Range(g) ELSE Range(table[q])
    BY <1>6, <1>9
  <1>14. BlockInv'
    <2>1. \A q \in Reqs : IsInjective(table'[q]) /\ Range(table'[q]) \cap free' = {}
      BY <1>2, <1>6, <1>10, <1>11, <1>13 DEF BlockInv, Partition
    <2>2. \A p, q \in Reqs : p # q => Range(table'[p]) \cap Range(table'[q]) = {}
      BY <1>1, <1>13 DEF BlockInv, Partition
    <2>3. \A d \in deferred' : /\ d.steps > 0 /\ d.blocks \cap free' = {}
                               /\ \A q \in Reqs : d.blocks \cap Range(table'[q]) = {}
      BY <1>1, <1>2, <1>13 DEF BlockInv, Partition
    <2>4. \A d, e \in deferred' : d # e => d.blocks \cap e.blocks = {} BY DEF BlockInv, Partition
    <2>5. \A b \in Blocks : \/ b \in free'
                            \/ \E q \in Reqs : b \in Range(table'[q])
                            \/ \E d \in deferred' : b \in d.blocks
      BY <1>2, <1>13 DEF BlockInv, Partition
    <2> QED BY <2>1, <2>2, <2>3, <2>4, <2>5 DEF BlockInv, Partition
  <1>15. \A b \in Blocks \ free : content'[b] = content[b] BY <1>1, <1>2
  <1> QED BY <1>2, <1>5, <1>6, <1>7, <1>8, <1>9, <1>12, <1>14, <1>15 DEF g

(* How many of the steps on their way write.                                *)
Wrote(s) == IF s.n # Zero THEN 1 ELSE 0

(* How many of at most one step write.                                       *)
LEMMA BusyIs ==
    ASSUME NEW p, DOMAIN p \in {{}, {1}}
    PROVE  Busy(p) = IF 1 \in DOMAIN p THEN Wrote(p[1]) ELSE 0
  <1> DEFINE S == {i \in DOMAIN p : p[i].n # Zero}
  <1>1. S = IF 1 \in DOMAIN p /\ p[1].n # Zero THEN {1} ELSE {} OBVIOUS
  <1>2. Cardinality({1}) = 1 /\ Cardinality({}) = 0 BY FS_Singleton, FS_EmptySet
  <1> QED BY <1>1, <1>2 DEF Busy, Wrote

(* How many of at most two steps write.                                      *)
LEMMA UptoIs ==
    /\ Upto(1) = Wrote(pipe[1])
    /\ Upto(2) = Wrote(pipe[1]) + Wrote(pipe[2])
  <1>1. 1..1 = {1} /\ 1..2 = {1, 2} OBVIOUS
  <1>2. /\ Cardinality({1}) = 1 /\ Cardinality({2}) = 1 /\ Cardinality({}) = 0
        /\ Cardinality({1, 2}) = 2
    <2>1. Cardinality({1}) = 1 /\ IsFiniteSet({1}) /\ Cardinality({2}) = 1 /\ Cardinality({}) = 0
      BY FS_Singleton, FS_EmptySet
    <2>2. 2 \notin {1} /\ {1, 2} = {1} \cup {2} OBVIOUS
    <2>3. Cardinality({1} \cup {2}) = Cardinality({1}) + 1 BY <2>1, <2>2, FS_AddElement
    <2> QED BY <2>1, <2>2, <2>3
  <1>3. {i \in {1} : pipe[i].n # Zero} = IF pipe[1].n # Zero THEN {1} ELSE {} OBVIOUS
  <1>4. {i \in {1, 2} : pipe[i].n # Zero} =
            IF pipe[1].n # Zero THEN IF pipe[2].n # Zero THEN {1, 2} ELSE {1}
            ELSE IF pipe[2].n # Zero THEN {2} ELSE {}
    OBVIOUS
  <1>5. Upto(1) = Wrote(pipe[1]) BY <1>1, <1>2, <1>3 DEF Upto, Wrote
  <1>6. Upto(2) = Wrote(pipe[1]) + Wrote(pipe[2]) BY <1>1, <1>2, <1>4 DEF Upto, Wrote
  <1> QED BY <1>5, <1>6

(* The fields of a deferred release.                                         *)
LEMMA DeferFields ==
    ASSUME NEW d \in DeferT
    PROVE  d.steps \in Nat /\ d.blocks \subseteq Blocks /\ d = [steps |-> d.steps, blocks |-> d.blocks]
  BY DEF DeferT

(* The requests whose blocks must wait, and their release.                   *)
Later(R, p) == {r \in R : Depth > 1 /\ table[r] # << >> /\ \E i \in DOMAIN p : p[i].n[r] > 0}

Deferral(R, p) == [steps |-> Busy(p), blocks |-> Held(Later(R, p))]

(* Blocks that are given back are free, or wait for the steps that may write *)
(* them.                                                                     *)
LEMMA ReleaseIs ==
    ASSUME BlockTypes, NEW R, R \subseteq Reqs, NEW p, NEW fr, fr \subseteq Blocks,
           NEW df, df \subseteq DeferT, Partition(table, fr, df), Release(R, p, fr, df),
           Busy(p) \in Nat, Later(R, p) # {} => Busy(p) > 0
    PROVE  /\ BlockTypes' /\ BlockInv'
           /\ \A r \in Reqs : table'[r] = IF r \in R THEN << >> ELSE table[r]
           /\ df \subseteq deferred'
           /\ Later(R, p) # {} => Deferral(R, p) \in deferred'
  <1> DEFINE L == Later(R, p)
             e == [steps |-> Busy(p), blocks |-> Held(L)]
  <1>1. /\ free' = fr \cup Held(R \ L)
        /\ deferred' = IF L = {} THEN df ELSE df \cup {e}
        /\ table' = [r \in Reqs |-> IF r \in R THEN << >> ELSE table[r]]
    BY DEF Release, Later
  <1>2. L \subseteq R BY DEF Later
  <1> HIDE DEF L
  <1>3. \A r \in Reqs : table[r] \in Seq(Blocks) /\ Range(table[r]) \subseteq Blocks
    BY RangeOfSeq DEF BlockTypes
  <1>4. \A S \in SUBSET Reqs : Held(S) \subseteq Blocks /\ (\A b : b \in Held(S) <=> \E r \in S : b \in Range(table[r]))
    BY <1>3 DEF Held
  <1>5. \A b : /\ b \in Held(L) <=> \E r \in L : b \in Range(table[r])
               /\ b \in Held(R \ L) <=> \E r \in R \ L : b \in Range(table[r])
    BY <1>2, <1>4
  <1>6. e \in DeferT /\ e.blocks = Held(L) /\ e.steps = Busy(p) BY <1>2, <1>4 DEF DeferT
  <1>7. free' \subseteq Blocks BY <1>1, <1>2, <1>4
  <1>8. table' \in [Reqs -> Seq(Blocks)]
    <2>1. << >> \in Seq(Blocks) BY EmptySeq
    <2> QED BY <1>1, <1>3, <2>1
  <1>9. deferred' \subseteq DeferT BY <1>1, <1>6
  <1>10. \A r \in Reqs : table'[r] = IF r \in R THEN << >> ELSE table[r] BY <1>1
  <1>11. \A r \in Reqs : Range(table'[r]) = IF r \in R THEN {} ELSE Range(table[r])
    BY <1>10 DEF Range
  <1> HIDE DEF e
  <1>12. BlockInv'
    <2>1. ASSUME NEW r \in Reqs PROVE IsInjective(table'[r]) /\ Range(table'[r]) \cap free' = {}
      <3>1. IsInjective(table'[r]) BY <1>10 DEF Partition, IsInjective
      <3>2. CASE r \in R BY <1>11, <3>1, <3>2
      <3>3. CASE r \notin R
        <4>1. Range(table[r]) \cap fr = {} BY DEF Partition
        <4>2. \A q \in R \ L : Range(table[q]) \cap Range(table[r]) = {} BY <3>3 DEF Partition
        <4> QED BY <1>1, <1>5, <1>11, <3>1, <3>3, <4>1, <4>2
      <3> QED BY <3>2, <3>3
    <2>2. \A r, q \in Reqs : r # q => Range(table'[r]) \cap Range(table'[q]) = {}
      BY <1>11 DEF Partition
    <2>3. ASSUME NEW d \in deferred'
          PROVE  /\ d.steps > 0 /\ d.blocks \cap free' = {}
                 /\ \A r \in Reqs : d.blocks \cap Range(table'[r]) = {}
      <3>1. CASE d \in df
        <4>1. /\ d.steps > 0 /\ d.blocks \cap fr = {}
              /\ \A r \in Reqs : d.blocks \cap Range(table[r]) = {}
          BY <3>1 DEF Partition
        <4>2. d.blocks \cap Held(R \ L) = {} BY <1>5, <4>1
        <4> QED BY <1>1, <1>11, <4>1, <4>2
      <3>2. CASE d = e /\ L # {}
        <4>1. \A b \in Held(L) : b \notin fr BY <1>2, <1>5 DEF Partition
        <4>2. \A b \in Held(L) : b \notin Held(R \ L) BY <1>2, <1>5 DEF Partition
        <4>3. ASSUME NEW r \in Reqs PROVE Held(L) \cap Range(table'[r]) = {}
          BY <1>2, <1>5, <1>11 DEF Partition
        <4>4. d.steps > 0 BY <1>6, <3>2 DEF L
        <4> QED BY <1>1, <1>6, <3>2, <4>1, <4>2, <4>3, <4>4
      <3> QED BY <1>1, <3>1, <3>2
    <2>4. ASSUME NEW d \in deferred', NEW c \in deferred', d # c PROVE d.blocks \cap c.blocks = {}
      <3>1. \A x \in df : x.blocks \cap Held(L) = {} BY <1>2, <1>5 DEF Partition
      <3>2. CASE d \in df /\ c \in df BY <2>4, <3>2 DEF Partition
      <3> QED BY <1>1, <1>6, <2>4, <3>1, <3>2
    <2>5. ASSUME NEW b \in Blocks
          PROVE  \/ b \in free'
                 \/ \E r \in Reqs : b \in Range(table'[r])
                 \/ \E d \in deferred' : b \in d.blocks
      <3>1. CASE b \in fr BY <1>1, <3>1
      <3>2. ASSUME NEW d \in df, b \in d.blocks PROVE \E c \in deferred' : b \in c.blocks
        BY <1>1, <3>2
      <3>3. ASSUME NEW r \in Reqs, b \in Range(table[r])
            PROVE  \/ b \in free'
                   \/ \E q \in Reqs : b \in Range(table'[q])
                   \/ \E d \in deferred' : b \in d.blocks
        <4>1. CASE r \in L
          <5>1. b \in Held(L) /\ L # {} /\ e \in deferred' BY <1>1, <1>5, <3>3, <4>1
          <5> QED BY <1>6, <5>1
        <4>2. CASE r \in R \ L BY <1>1, <1>5, <3>3, <4>2
        <4>3. CASE r \notin R BY <1>11, <3>3, <4>3
        <4> QED BY <4>1, <4>2, <4>3
      <3> QED BY <3>1, <3>2, <3>3 DEF Partition
    <2> QED BY <2>1, <2>2, <2>3, <2>4, <2>5 DEF BlockInv, Partition
  <1>13. BlockTypes' BY <1>7, <1>8, <1>9 DEF BlockTypes
  <1>14. df \subseteq deferred' /\ (L # {} => e \in deferred') BY <1>1
  <1>15. e = Deferral(R, p) BY DEF e, L, Deferral
  <1> QED BY <1>10, <1>12, <1>13, <1>14, <1>15 DEF L

(* A step that wrote is processed: some deferred releases are over.         *)
Less(d) == [d EXCEPT !.steps = @ - 1]

(* Blocks whose wait is over are free, and the others wait for one step      *)
(* less.                                                                     *)
LEMMA DrainedIs ==
    ASSUME BlockTypes, BlockInv, NEW s
    PROVE  LET D == Drained(s)
           IN /\ D.rest \subseteq DeferT /\ free \cup D.blocks \subseteq Blocks
              /\ Partition(table, free \cup D.blocks, D.rest)
              /\ \A d \in deferred : IF s.n = Zero THEN d \in D.rest
                                     ELSE d.steps > 1 => \E c \in D.rest : c.steps = d.steps - 1 /\ c.blocks = d.blocks
  <1>1. \A d \in deferred : d \in DeferT /\ d.steps \in Nat /\ d.blocks \subseteq Blocks /\ d.steps > 0
    BY DeferFields DEF BlockTypes, BlockInv, Partition
  <1>2. CASE s.n = Zero
    <2> DEFINE B == UNION {d.blocks : d \in {c \in deferred : c.steps = 0}}
               T == {d \in deferred : d.steps > 0}
    <2>1. Drained(s) = [blocks |-> B, rest |-> T] BY <1>2 DEF Drained
    <2>2. B = {} /\ T = deferred BY <1>1
    <2> HIDE DEF B, T
    <2>3. Drained(s).blocks = {} /\ Drained(s).rest = deferred BY <2>1, <2>2
    <2>4. free \cup {} = free OBVIOUS
    <2> QED BY <1>2, <2>3, <2>4 DEF BlockTypes, BlockInv
  <1>3. CASE s.n # Zero
    <2> DEFINE N == {Less(d) : d \in deferred}
               B == UNION {d.blocks : d \in {c \in N : c.steps = 0}}
               T == {d \in N : d.steps > 0}
    <2>1. Drained(s) = [blocks |-> B, rest |-> T] BY <1>3 DEF Drained, Less
    <2>2. \A d \in deferred : /\ Less(d) \in DeferT /\ Less(d).steps = d.steps - 1
                              /\ Less(d).blocks = d.blocks
      <3> SUFFICES ASSUME NEW d \in deferred
                   PROVE  Less(d) \in DeferT /\ Less(d).steps = d.steps - 1 /\ Less(d).blocks = d.blocks
        OBVIOUS
      <3>1. d.steps - 1 \in Nat /\ d \in DeferT BY <1>1
      <3> DEFINE m == d.steps - 1
      <3>2. Less(d) = [d EXCEPT !.steps = m] /\ m \in Nat BY <3>1 DEF Less
      <3> HIDE DEF m
      <3>3. Less(d) \in DeferT /\ Less(d).steps = m /\ Less(d).blocks = d.blocks
        BY <3>1, <3>2 DEF DeferT
      <3> QED BY <3>3 DEF m
    <2>3. \A b : b \in B <=> \E d \in deferred : d.steps = 1 /\ b \in d.blocks
      <3>1. \A d \in deferred : d.steps - 1 = 0 <=> d.steps = 1 BY <1>1
      <3>2. \A b : b \in B <=> \E c \in N : c.steps = 0 /\ b \in c.blocks OBVIOUS
      <3>3. \A c : c \in N <=> \E d \in deferred : c = Less(d) OBVIOUS
      <3> HIDE DEF B, N
      <3>4. ASSUME NEW b, b \in B PROVE \E d \in deferred : d.steps = 1 /\ b \in d.blocks
        <4>1. PICK c \in N : c.steps = 0 /\ b \in c.blocks BY <3>2, <3>4
        <4>2. PICK d \in deferred : c = Less(d) BY <3>3
        <4>3. d.steps - 1 = 0 /\ c.blocks = d.blocks BY <2>2, <4>1, <4>2
        <4> QED BY <3>1, <4>1, <4>3
      <3>5. ASSUME NEW b, NEW d \in deferred, d.steps = 1, b \in d.blocks PROVE b \in B
        <4>1. Less(d) \in N BY <3>3
        <4>2. Less(d).steps = 0 /\ b \in Less(d).blocks BY <2>2, <3>1, <3>5
        <4> QED BY <3>2, <4>1, <4>2
      <3> QED BY <3>4, <3>5
    <2>4. \A c : c \in T <=> \E d \in deferred : d.steps > 1 /\ c = Less(d)
      <3>1. \A d \in deferred : d.steps - 1 > 0 <=> d.steps > 1 BY <1>1
      <3> QED BY <2>2, <3>1
    <2>5. Drained(s).blocks = B /\ Drained(s).rest = T BY <2>1
    <2> HIDE DEF N, B, T
    <2>6. T \subseteq DeferT BY <2>2, <2>4
    <2>7. B \subseteq Blocks BY <1>1, <2>3
    <2>8. Partition(table, free \cup B, T)
      <3>1. \A r \in Reqs : IsInjective(table[r]) /\ Range(table[r]) \cap (free \cup B) = {}
        BY <2>3 DEF BlockInv, Partition
      <3>2. \A r, q \in Reqs : r # q => Range(table[r]) \cap Range(table[q]) = {}
        BY DEF BlockInv, Partition
      <3>3. ASSUME NEW c \in T
            PROVE  /\ c.steps > 0 /\ c.blocks \cap (free \cup B) = {}
                   /\ \A r \in Reqs : c.blocks \cap Range(table[r]) = {}
        <4>1. PICK d \in deferred : d.steps > 1 /\ c = Less(d) BY <2>4
        <4>2. c.blocks = d.blocks /\ c.steps = d.steps - 1 /\ d.steps \in Nat BY <1>1, <2>2, <4>1
        <4>3. /\ d.blocks \cap free = {} /\ \A r \in Reqs : d.blocks \cap Range(table[r]) = {}
              /\ \A x \in deferred : x.steps = 1 => x.blocks \cap d.blocks = {}
          BY <4>1, <4>2 DEF BlockInv, Partition
        <4>4. c.steps > 0 BY <4>1, <4>2
        <4> QED BY <2>3, <4>2, <4>3, <4>4
      <3>4. ASSUME NEW c \in T, NEW x \in T, c # x PROVE c.blocks \cap x.blocks = {}
        <4>1. PICK d \in deferred : d.steps > 1 /\ c = Less(d) BY <2>4
        <4>2. PICK y \in deferred : y.steps > 1 /\ x = Less(y) BY <2>4
        <4>3. d # y /\ c.blocks = d.blocks /\ x.blocks = y.blocks BY <2>2, <3>4, <4>1, <4>2
        <4> QED BY <4>3 DEF BlockInv, Partition
      <3>5. ASSUME NEW b \in Blocks
            PROVE  \/ b \in free \cup B
                   \/ \E r \in Reqs : b \in Range(table[r])
                   \/ \E c \in T : b \in c.blocks
        <4>1. ASSUME NEW d \in deferred, b \in d.blocks PROVE b \in B \/ \E c \in T : b \in c.blocks
          <5>1. d.steps = 1 \/ d.steps > 1 BY <1>1
          <5>2. CASE d.steps = 1 BY <2>3, <4>1, <5>2
          <5>3. CASE d.steps > 1
            <6>1. Less(d) \in T /\ Less(d).blocks = d.blocks BY <2>2, <2>4, <5>3
            <6> QED BY <4>1, <6>1
          <5> QED BY <5>1, <5>2, <5>3
        <4> QED BY <4>1 DEF BlockInv, Partition
      <3> QED BY <3>1, <3>2, <3>3, <3>4, <3>5 DEF Partition
    <2>9. \A d \in deferred : d.steps > 1 => \E c \in T : c.steps = d.steps - 1 /\ c.blocks = d.blocks
      BY <2>2, <2>4
    <2>10. free \cup B \subseteq Blocks BY <2>7 DEF BlockTypes
    <2> QED BY <1>3, <2>5, <2>6, <2>8, <2>9, <2>10
  <1> QED BY <1>2, <1>3

-----------------------------------------------------------------------------
(* A running request is scheduled.                                           *)

(* At most two steps are on their way.                                       *)
LEMMA PipeLen ==
    ASSUME EngineAssumption, PipeTypes
    PROVE  /\ Len(pipe) \in {0, 1, 2} /\ Len(pipe) <= Depth /\ DOMAIN pipe = 1..Len(pipe)
           /\ Len(pipe) = 0 => DOMAIN pipe = {} /\ pipe = << >>
           /\ Len(pipe) = 1 => DOMAIN pipe = {1}
           /\ Len(pipe) = 2 => DOMAIN pipe = {1, 2} /\ Depth = 2
  <1>1. pipe \in Seq(StepT) /\ Len(pipe) \in Nat /\ DOMAIN pipe = 1..Len(pipe) /\ Len(pipe) <= Depth
    BY PipeIs DEF PipeTypes
  <1>2. Depth \in {1, 2} BY DEF EngineAssumption
  <1>3. Len(pipe) \in {0, 1, 2} BY <1>1, <1>2
  <1>4. Len(pipe) = 0 => pipe = << >> BY <1>1, EmptySeq
  <1>5. 1..0 = {} /\ 1..1 = {1} /\ 1..2 = {1, 2} OBVIOUS
  <1>6. Len(pipe) = 2 => Depth = 2 BY <1>1, <1>2
  <1> HIDE DEF PipeTypes
  <1> QED BY <1>1, <1>3, <1>4, <1>5, <1>6

(* While a step is being scheduled there is room for it.                    *)
LEMMA ShortPipe ==
    ASSUME EngineAssumption, PipeTypes, CurInv, cur.pass # "idle"
    PROVE  /\ Len(pipe) \in {0, 1} /\ DOMAIN pipe \in {{}, {1}} /\ Len(pipe) < Depth
           /\ Depth = 1 => pipe = << >>
           /\ DOMAIN pipe # {} => Depth = 2 /\ DOMAIN pipe = {1}
  <1>1. Len(pipe) < Depth BY DEF CurInv
  <1>2. Depth \in {1, 2} BY DEF EngineAssumption
  <1>3. Len(pipe) \in {0, 1, 2} /\ (Len(pipe) = 0 => DOMAIN pipe = {} /\ pipe = << >>)
        /\ (Len(pipe) = 1 => DOMAIN pipe = {1})
    BY PipeLen
  <1>4. Len(pipe) \in {0, 1} /\ (Depth = 1 => Len(pipe) = 0)
    <2> DEFINE n == Len(pipe)
    <2>1. n \in {0, 1, 2} /\ n < Depth /\ Depth \in {1, 2} BY <1>1, <1>2, <1>3
    <2> HIDE DEF n
    <2>2. n \in {0, 1} /\ (Depth = 1 => n = 0) BY <2>1
    <2> QED BY <2>2 DEF n
  <1> QED BY <1>1, <1>2, <1>3, <1>4

(* The counts of a request.                                                  *)
LEMMA ReqFields ==
    ASSUME CacheAssumption, EngineAssumption, ReqTypes, NEW r \in Reqs
    PROVE  /\ st[r] \in Sts /\ computed[r] \in Nat /\ out[r] \in Nat /\ place[r] \in Nat
           /\ Tokens(r) \in Nat /\ Tokens(r) = Prompt + out[r] /\ Prompt \in Nat /\ MaxNew \in Nat
           /\ Prompt > 0 /\ MaxNew > 0
  BY DEF ReqTypes, Tokens, CacheAssumption, EngineAssumption

(* How much of a running request is scheduled.                              *)
LEMMA WantedIs ==
    ASSUME CacheAssumption, EngineAssumption, Types, PlaceInv, Takes
    PROVE  /\ Here \in Reqs /\ Here \in Range(running) /\ cur.i \in DOMAIN running /\ cur.i \in Nat \ {0}
           /\ Wanted(Here) \in Nat \ {0} /\ Wanted(Here) <= cur.budget
           /\ computed[Here] + Wanted(Here) <= Tokens(Here) + place[Here]
           /\ ~AtLimit(Here) /\ cur.n[Here] = 0 /\ cur.budget \in Nat
           /\ cur.pass \in {"first", "late", "rest"}
  <1>1. More /\ ~PassedOver(Here) BY DEF Takes
  <1>2. cur.i \in DOMAIN running /\ Here \in Reqs /\ Here \in Range(running) BY <1>1, HereIs
  <1>3. cur.i \in Nat \ {0} /\ cur.budget \in Nat /\ cur.n[Here] \in Nat
    BY <1>2, CurFields DEF Types, CurTypes
  <1>4. ~AtLimit(Here) /\ Wanted(Here) # 0 /\ ~(cur.n[Here] > 0) BY <1>1 DEF PassedOver
  <1>5. /\ computed[Here] \in Nat /\ place[Here] \in Nat /\ Tokens(Here) \in Nat
        /\ computed[Here] <= Tokens(Here) + place[Here]
    BY <1>2, ReqFields DEF Types, PlaceInv, PlaceOf
  <1> DEFINE a == Tokens(Here) + place[Here] - computed[Here]
  <1>6. a \in Nat BY <1>5
  <1>7. Wanted(Here) = Min({a, cur.budget}) BY DEF Wanted
  <1> HIDE DEF a
  <1>8. Wanted(Here) \in Nat /\ Wanted(Here) <= a /\ Wanted(Here) <= cur.budget
    BY <1>3, <1>6, <1>7, MinOfTwo
  <1>9. computed[Here] + Wanted(Here) <= Tokens(Here) + place[Here] BY <1>5, <1>8 DEF a
  <1> QED BY <1>1, <1>2, <1>3, <1>4, <1>8, <1>9 DEF More, Scanning

(* What TakeRunning does.                                                    *)
LEMMA TakeRunningIs ==
    ASSUME CacheAssumption, EngineAssumption, Types, QueueInv, CurInv, BlockInv, PlaceInv, TakeRunning
    PROVE  LET r == Here IN
           /\ r \in Reqs /\ st[r] = "running" /\ cur.n[r] = 0 /\ cur.pass \in {"first", "late", "rest"}
           /\ cur'.n[r] \in Nat \ {0} /\ \A q \in Reqs : q # r => cur'.n[q] = cur.n[q]
           /\ cur'.got[r] = Given(r, computed[r] + cur'.n[r])
           /\ \A q \in Reqs : q # r => cur'.got[q] = cur.got[q]
           /\ cur'.preempted = cur.preempted /\ cur'.skip = cur.skip
           /\ cur'.pass = cur.pass
           /\ table'[r] = table[r] \o Given(r, computed[r] + cur'.n[r])
           /\ Len(table'[r]) >= computed[r] + cur'.n[r]
           /\ Fits(r, computed[r] + cur'.n[r])
           /\ \A q \in Reqs : q # r => table'[q] = table[q]
           /\ Len(table'[r]) = Len(table[r]) + Missing(r, computed[r] + cur'.n[r])
           /\ \A i \in DOMAIN table[r] : i \in DOMAIN table'[r] /\ table'[r][i] = table[r][i]
           /\ Range(table'[r]) = Range(table[r]) \cup Range(Given(r, computed[r] + cur'.n[r]))
           /\ \A b \in Blocks \ free : content'[b] = content[b]
           /\ free' \subseteq free /\ deferred' = deferred
           /\ UNCHANGED <<cacheVars, queueVars, reqVars, doneVars, pipe, aborts, seen>>
           /\ Types' /\ QueueInv' /\ CurInv' /\ BlockInv'
  <1> DEFINE r == Here  n == Wanted(Here)  m == computed[Here] + Wanted(Here)
  <1>1. /\ r \in Reqs /\ r \in Range(running) /\ cur.i \in DOMAIN running /\ cur.i \in Nat \ {0}
        /\ n \in Nat \ {0} /\ n <= cur.budget /\ m <= Tokens(r) + place[r]
        /\ ~AtLimit(r) /\ cur.n[r] = 0 /\ cur.budget \in Nat
        /\ cur.pass \in {"first", "late", "rest"}
    BY WantedIs DEF TakeRunning
  <1>2. computed[r] \in Nat /\ m \in Nat BY <1>1, ReqFields DEF Types
  <1>3. Fits(r, m) /\ Allocate(r, m) BY DEF TakeRunning, Room
  <1>4. deferred' = deferred BY DEF TakeRunning
  <1>5. /\ BlockTypes' /\ BlockInv'
        /\ table'[r] = table[r] \o Given(r, m)
        /\ \A q \in Reqs : q # r => table'[q] = table[q]
        /\ Len(table'[r]) = Len(table[r]) + Missing(r, m) /\ Len(table'[r]) >= m
        /\ \A i \in DOMAIN table[r] : i \in DOMAIN table'[r] /\ table'[r][i] = table[r][i]
        /\ Range(table'[r]) = Range(table[r]) \cup Range(Given(r, m))
        /\ \A b \in Blocks \ free : content'[b] = content[b]
        /\ free' \subseteq free
    BY <1>1, <1>2, <1>3, <1>4, AllocateIs DEF Types
  <1>6. Given(r, m) \in Seq(Blocks) BY <1>1, <1>2, <1>3, GivenIs DEF Types
  <1> DEFINE g == Given(Here, computed[Here] + Wanted(Here))  i == cur.i + 1  b == cur.budget - n
  <1>7. cur \in CurT /\ i \in Nat \ {0} /\ b \in Nat /\ g \in Seq(Blocks) BY <1>1, <1>6 DEF Types, CurTypes
  <1>8. cur' = [cur EXCEPT !.i = i, !.n[r] = n, !.budget = b, !.got[r] = g] BY DEF TakeRunning
  <1> HIDE DEF r, n, m, g, i, b
  <1>9. /\ cur' \in CurT /\ cur'.n = [cur.n EXCEPT ![r] = n] /\ cur'.got = [cur.got EXCEPT ![r] = g]
        /\ cur'.skip = cur.skip /\ cur'.preempted = cur.preempted /\ cur'.pass = cur.pass
        /\ cur'.i = i
    BY <1>1, <1>7, <1>8 DEF CurT
  <1>10. cur.n \in [Reqs -> Nat] /\ cur.got \in [Reqs -> Seq(Blocks)] BY <1>7, CurFields
  <1>11. /\ cur'.n[r] = n /\ \A q \in Reqs : q # r => cur'.n[q] = cur.n[q]
         /\ cur'.got[r] = g /\ \A q \in Reqs : q # r => cur'.got[q] = cur.got[q]
    BY <1>1, <1>9, <1>10
  <1>12. UNCHANGED <<cacheVars, queueVars, reqVars, doneVars, pipe, aborts, seen>> BY DEF TakeRunning
  <1>13. /\ waiting' = waiting /\ skipped' = skipped /\ running' = running /\ st' = st
         /\ computed' = computed /\ out' = out /\ place' = place /\ pipe' = pipe /\ seen' = seen
    BY <1>12 DEF queueVars, reqVars
  <1>14. Types'
    <2>1. UNCHANGED trkVars /\ UNCHANGED workVars BY <1>12 DEF cacheVars
    <2>2. TrkTypes' BY <2>1, TrkTypesSame DEF Types
    <2>3. WorkTypes' BY <2>1, WorkTypesSame DEF Types
    <2>4. QueueTypes' BY <1>12, QueueTypesSame DEF Types
    <2>5. ReqTypes' BY <1>12, ReqTypesSame DEF Types
    <2>6. DoneTypes' BY <1>12, DoneTypesSame DEF Types
    <2>7. PipeTypes' BY <1>12, PipeTypesSame DEF Types
    <2> QED BY <1>5, <1>9, <2>2, <2>3, <2>4, <2>5, <2>6, <2>7 DEF Types, CurTypes
  <1>15. st[r] = "running" BY <1>1 DEF QueueInv
  <1>16. QueueInv' BY <1>9, <1>13 DEF QueueInv
  <1>17. Clean => m < Prompt + MaxNew
    <2> SUFFICES ASSUME Clean PROVE m < Prompt + MaxNew OBVIOUS
    <2>1. /\ place[r] \in Nat /\ out[r] \in Nat /\ Tokens(r) = Prompt + out[r] /\ Prompt \in Nat
          /\ MaxNew \in Nat
      BY <1>1, ReqFields DEF Types
    <2>2. out[r] < MaxNew BY <1>1, <1>15 DEF PlaceInv, PlaceOf, Over
    <2>3. place[r] >= 1 => computed[r] >= Tokens(r) + place[r] - 1
      BY <1>1, <1>15 DEF PlaceInv, PlaceOf
    <2>4. place[r] <= 1
      <3>1. DOMAIN pipe \in {{}, {1}} /\ Len(pipe) < Depth
        BY <1>1, ShortPipe DEF Types
      <3>2. Count(r) <= 1 BY <3>1 DEF Count, Sampled
      <3>3. Depth = 1 => place[r] = 0 BY <1>1, ZeroIs DEF PlaceInv, PlaceOf
      <3>4. Depth = 2 => place[r] = Count(r) BY <1>1, <1>15 DEF PlaceInv, PlaceOf, Over
      <3> QED BY <3>2, <3>3, <3>4 DEF EngineAssumption
    <2>5. place[r] > 0 => computed[r] + 2 - place[r] < Prompt + MaxNew
      <3>1. ~(place[r] > 0 /\ computed[r] + 2 - place[r] >= Prompt + MaxNew) BY <1>1 DEF AtLimit
      <3> QED BY <1>2, <2>1, <3>1
    <2>6. CASE place[r] = 0 BY <1>1, <1>2, <2>1, <2>2, <2>6
    <2>7. CASE place[r] = 1 BY <1>1, <1>2, <2>1, <2>3, <2>5, <2>7
    <2> QED BY <2>1, <2>4, <2>6, <2>7
  <1>18. m = computed[r] + n BY DEF m, n, r
  <1>19. CurInv'
    <2>1. ASSUME NEW q \in Reqs, cur'.pass \in {"first", "late"}, cur'.n[q] > 0
          PROVE  \E k \in DOMAIN running' : k < cur'.i /\ running'[k] = q
      <3>1. CASE q = r
        <4>1. running[cur.i] = r BY DEF r, Here
        <4>2. cur.i < i BY <1>1 DEF i
        <4> QED BY <1>1, <1>9, <1>13, <3>1, <4>1, <4>2
      <3>2. CASE q # r
        <4>1. PICK k \in DOMAIN running : k < cur.i /\ running[k] = q
          BY <1>9, <1>11, <2>1, <3>2 DEF CurInv
        <4>2. k \in Nat BY LenProperties, <4>1 DEF Types, QueueTypes
        <4>3. k < i BY <1>1, <4>1, <4>2 DEF i
        <4> QED BY <1>9, <1>13, <4>1, <4>3
      <3> QED BY <3>1, <3>2
    <2>2. ASSUME NEW q \in Reqs
          PROVE  /\ cur'.n[q] = 0 => cur'.got[q] = << >>
                 /\ cur'.n[q] > 0 =>
                      /\ st'[q] = "running"
                      /\ Len(table'[q]) >= computed'[q] + cur'.n[q]
                      /\ computed'[q] + cur'.n[q] <= Tokens(q)' + place'[q]
                      /\ Clean' => computed'[q] + cur'.n[q] < Prompt + MaxNew
      <3>1. CASE q = r
        BY <1>1, <1>5, <1>11, <1>13, <1>15, <1>17, <1>18, <3>1 DEF Clean, Tokens
      <3>2. CASE q # r
        BY <1>5, <1>11, <1>13, <3>2 DEF CurInv, Clean, Tokens
      <3> QED BY <3>1, <3>2
    <2>3. /\ cur'.pass # "idle" /\ cur'.pass # "wait" /\ cur'.skip = << >> /\ Len(pipe') < Depth
      BY <1>1, <1>9, <1>13 DEF CurInv
    <2> QED BY <2>1, <2>2, <2>3 DEF CurInv
  <1>20. r = Here /\ g = Given(r, computed[r] + n) BY DEF r, g, n
  <1> QED BY <1>1, <1>3, <1>4, <1>5, <1>9, <1>11, <1>12, <1>14, <1>15, <1>16, <1>18, <1>19, <1>20

-----------------------------------------------------------------------------
(* A running request is preempted.                                           *)

(* Blocks that a step writes stay where they are.                           *)
Stays(q) == \A i \in DOMAIN table[q] : i \in DOMAIN table'[q] /\ table'[q][i] = table[q][i]

(* What a step on its way writes stays its request's while no block is taken *)
(* back.                                                                     *)
LEMMA StepFrame ==
    ASSUME PipeTypes, StepInv, pipe' = pipe, deferred \subseteq deferred',
           \A q \in Reqs : st[q] \notin Fresher => st'[q] \notin Fresher /\ Stays(q)
    PROVE  StepInv'
  <1>1. \A k : Upto(k)' = Upto(k) BY DEF Upto
  <1>2. ASSUME NEW k \in DOMAIN pipe, NEW w \in pipe[k].writes PROVE InPlace(w, k)'
    <2>1. w \in WriteT BY PipeIs, StepFields
    <2>2. w.kv[1] \in Reqs /\ pipe[k].n[w.kv[1]] > 0 /\ InPlace(w, k) BY <2>1, WriteFields DEF StepInv
    <2>3. Stays(w.kv[1]) BY <2>2 DEF StepInv
    <2> QED BY <1>1, <2>2, <2>3 DEF InPlace, Stays
  <1>3. ASSUME NEW k \in DOMAIN pipe
        PROVE  /\ \A w \in pipe[k].writes : pipe[k].n[w.kv[1]] > 0 /\ InPlace(w, k)'
               /\ \A w \in pipe[k].puts : pipe[k].n[w.kv[1]] > 0
               /\ \A v, w \in pipe[k].writes : v.block = w.block => v = w
               /\ \A r \in Reqs : pipe[k].n[r] > 0 => st'[r] \notin Fresher
               /\ \A r \in pipe[k].samples : pipe[k].n[r] > 0
               /\ \A o, p \in pipe[k].retr : o.req = p.req => o = p
               /\ pipe[k].exec # "done" =>
                    /\ \A j \in DOMAIN pipe : j > k => pipe[j].exec = "no"
                    /\ pipe[k].recv = {} /\ pipe[k].send = {} /\ pipe[k].bad = {}
    BY <1>2 DEF StepInv
  <1> QED BY <1>3 DEF StepInv

(* What Preempt does.                                                        *)
LEMMA PreemptIs ==
    ASSUME CacheAssumption, EngineAssumption, Types, QueueInv, CurInv, BlockInv, StepInv, Preempt
    PROVE  LET v == Last(running) IN
           /\ v \in Reqs /\ st[v] = "running" /\ cur.n[v] = 0 /\ cur.pass \in {"first", "late"}
           /\ st'[v] = "preempted" /\ computed'[v] = 0 /\ table'[v] = << >>
           /\ \A q \in Reqs : q # v => st'[q] = st[q] /\ computed'[q] = computed[q] /\ table'[q] = table[q]
           /\ hurt' = hurt \cup {v} /\ deferred \subseteq deferred'
           /\ cur'.n = cur.n /\ cur'.got = cur.got /\ cur'.pass = cur.pass /\ cur'.preempted = TRUE
           /\ UNCHANGED <<cacheVars, skipped, out, place, chunk, content, finIds, recvDone,
                          recvFailed, pipe, aborts, seen>>
           /\ Types' /\ QueueInv' /\ CurInv' /\ BlockInv' /\ StepInv'
           /\ \A k \in DOMAIN pipe : pipe[k].n[v] > 0 =>
                 \A b \in Range(table[v]) : \E d \in deferred' : b \in d.blocks /\ d.steps >= Upto(k)
  <1> DEFINE v == Last(running)
  <1>1. /\ Takes /\ ~Room /\ cur.pass # "rest" /\ running' = Front(running)
        /\ waiting' = <<v>> \o waiting /\ Release({v}, pipe, free, deferred)
        /\ st' = [st EXCEPT ![v] = "preempted"] /\ computed' = [computed EXCEPT ![v] = 0]
        /\ hurt' = hurt \cup {v} /\ inflight' = inflight \ {v}
        /\ cur' = [cur EXCEPT !.preempted = TRUE]
        /\ UNCHANGED <<cacheVars, skipped, out, place, chunk, content, finIds, recvDone,
                       recvFailed, pipe, aborts, seen>>
    BY DEF Preempt
  <1>2. More /\ cur.pass \in {"first", "late"} BY <1>1 DEF Takes, More, Scanning
  <1>3. cur.i \in DOMAIN running BY <1>2, HereIs
  <1>4. /\ waiting \in Seq(Reqs) /\ skipped \in Seq(Reqs) /\ running \in Seq(Reqs) /\ running # << >>
        /\ DOMAIN running = 1..Len(running) /\ Len(running) \in Nat
    BY <1>3, LenProperties DEF Types, QueueTypes
  <1>5. IsInjective(running) BY DEF QueueInv
  <1>6. /\ v \in Reqs /\ v \in Range(running)
        /\ Front(running) \in Seq(Reqs) /\ IsInjective(Front(running))
        /\ Len(Front(running)) = Len(running) - 1
        /\ \A i \in 1..Len(running) - 1 : Front(running)[i] = running[i]
        /\ Range(Front(running)) = Range(running) \ {v}
    BY <1>4, <1>5, TakenBack
  <1>7. v = running[Len(running)] BY DEF Last
  <1> HIDE DEF v
  <1>8. st[v] = "running" /\ v \notin Range(waiting) BY <1>6 DEF QueueInv, Waits
  <1>9. cur \in CurT /\ cur.i \in Nat \ {0} /\ cur.n \in [Reqs -> Nat] BY CurFields DEF Types, CurTypes
  <1>10. ASSUME NEW q \in Reqs, cur.n[q] > 0
         PROVE  q # v /\ \E k \in DOMAIN running' : k < cur.i /\ running'[k] = q
    <2>1. PICK k \in DOMAIN running : k < cur.i /\ running[k] = q BY <1>2, <1>10 DEF CurInv
    <2> DEFINE m == Len(running)
    <2>2. m \in Nat /\ cur.i \in 1..m /\ k \in 1..m /\ k < cur.i BY <1>3, <1>4, <2>1
    <2>3. running[m] = v /\ DOMAIN running = 1..m /\ DOMAIN running' = 1..m - 1
      BY <1>1, <1>4, <1>6, <1>7, LenProperties
    <2>4. \A i \in 1..m - 1 : running'[i] = running[i] BY <1>1, <1>6
    <2> HIDE DEF m
    <2>5. k \in 1..m - 1 /\ k # m /\ m \in 1..m BY <2>2
    <2>6. q # v BY <1>5, <2>1, <2>2, <2>3, <2>5 DEF IsInjective
    <2> QED BY <2>1, <2>3, <2>4, <2>5, <2>6
  <1>11. cur.n[v] = 0 BY <1>6, <1>9, <1>10
  <1>12. /\ cur' \in CurT /\ cur'.n = cur.n /\ cur'.got = cur.got /\ cur'.skip = cur.skip
         /\ cur'.pass = cur.pass /\ cur'.i = cur.i /\ cur'.preempted = TRUE
    BY <1>1, <1>9 DEF CurT
  <1>13. Len(pipe) < Depth /\ DOMAIN pipe \in {{}, {1}} /\ (DOMAIN pipe # {} => Depth = 2)
    BY <1>2, ShortPipe DEF Types
  <1>14. Busy(pipe) = IF 1 \in DOMAIN pipe THEN Wrote(pipe[1]) ELSE 0 BY <1>13, BusyIs
  <1>15. \A q \in Reqs, k \in DOMAIN pipe : pipe[k].n[q] > 0 => k = 1 /\ Wrote(pipe[k]) = 1 /\ Busy(pipe) = 1
    BY <1>13, <1>14, ZeroIs DEF Wrote
  <1> DEFINE R == {v}
  <1>16. Busy(pipe) \in Nat /\ (Later(R, pipe) # {} => Busy(pipe) > 0)
    BY <1>6, <1>14, <1>15 DEF Wrote, Later
  <1>17. /\ BlockTypes' /\ BlockInv'
         /\ \A r \in Reqs : table'[r] = IF r \in R THEN << >> ELSE table[r]
         /\ deferred \subseteq deferred'
         /\ Later(R, pipe) # {} => Deferral(R, pipe) \in deferred'
    <2>1. R \subseteq Reqs /\ BlockTypes /\ free \subseteq Blocks /\ deferred \subseteq DeferT
          /\ Partition(table, free, deferred) /\ Release(R, pipe, free, deferred)
      BY <1>1, <1>6 DEF Types, BlockTypes, BlockInv
    <2>2. Busy(pipe) \in Nat /\ (Later(R, pipe) # {} => Busy(pipe) > 0) BY <1>16
    <2> HIDE DEF R
    <2>3. BlockTypes' /\ BlockInv' BY <2>1, <2>2, ReleaseIs
    <2>4. \A r \in Reqs : table'[r] = IF r \in R THEN << >> ELSE table[r] BY <2>1, <2>2, ReleaseIs
    <2>5. deferred \subseteq deferred' BY <2>1, <2>2, ReleaseIs
    <2>6. Later(R, pipe) # {} => Deferral(R, pipe) \in deferred' BY <2>1, <2>2, ReleaseIs
    <2> QED BY <2>3, <2>4, <2>5, <2>6
  <1>18. ASSUME NEW k \in DOMAIN pipe, pipe[k].n[v] > 0, NEW b \in Range(table[v])
         PROVE  \E d \in deferred' : b \in d.blocks /\ d.steps >= Upto(k)
    <2>1. k = 1 /\ Wrote(pipe[k]) = 1 /\ Busy(pipe) = 1 BY <1>6, <1>15, <1>18
    <2>2. table[v] # << >> BY <1>18 DEF Range
    <2>3. Later(R, pipe) = {v} BY <1>13, <1>18, <2>2 DEF Later
    <2>4. Held({v}) = Range(table[v]) BY DEF Held
    <2>5. PICK d \in deferred' : d.steps = 1 /\ d.blocks = Range(table[v])
      BY <1>17, <2>1, <2>3, <2>4 DEF Deferral
    <2>6. Upto(k) = 1 BY <2>1, UptoIs
    <2> QED BY <1>18, <2>5, <2>6
  <1>19. /\ st'[v] = "preempted" /\ computed'[v] = 0 /\ table'[v] = << >>
         /\ \A q \in Reqs : q # v => st'[q] = st[q] /\ computed'[q] = computed[q] /\ table'[q] = table[q]
    BY <1>1, <1>6, <1>17 DEF Types, ReqTypes
  <1>20. /\ waiting' \in Seq(Reqs) /\ Range(waiting') = Range(waiting) \cup {v} /\ IsInjective(waiting')
    <2>1. IsInjective(waiting) BY DEF QueueInv
    <2> QED BY <1>1, <1>4, <1>6, <1>8, <2>1, AddedBefore
  <1>21. /\ out' = out /\ place' = place /\ chunk' = chunk /\ pipe' = pipe /\ seen' = seen
         /\ skipped' = skipped /\ finIds' = finIds /\ recvDone' = recvDone /\ recvFailed' = recvFailed
         /\ UNCHANGED trkVars /\ UNCHANGED workVars
    BY <1>1 DEF cacheVars
  <1>22. Types'
    <2>1. TrkTypes' BY <1>21, TrkTypesSame DEF Types
    <2>2. WorkTypes' BY <1>21, WorkTypesSame DEF Types
    <2>3. QueueTypes' BY <1>1, <1>4, <1>6, <1>20, <1>21 DEF QueueTypes
    <2>4. ReqTypes' BY <1>1, <1>6, <1>21 DEF Types, ReqTypes, Sts
    <2>5. DoneTypes' BY <1>1, <1>21 DEF Types, DoneTypes
    <2>6. PipeTypes' BY <1>21, PipeTypesSame DEF Types
    <2> QED BY <1>12, <1>17, <2>1, <2>2, <2>3, <2>4, <2>5, <2>6 DEF Types, CurTypes
  <1>23. QueueInv'
    <2>1. cur.skip = << >> /\ cur'.skip = << >> BY <1>2, <1>12 DEF CurInv
    <2>2. Range(cur.skip) = {} /\ IsInjective(cur'.skip) /\ Range(cur'.skip) = {} BY <2>1 DEF Range, IsInjective
    <2>3. /\ Range(running') = {r \in Reqs : st'[r] = "running"} /\ IsInjective(running')
      BY <1>1, <1>6, <1>19 DEF QueueInv
    <2>4. Range(waiting') \cup Range(skipped') \cup Range(cur'.skip) = {r \in Reqs : st'[r] \in Waits}
      BY <1>6, <1>8, <1>19, <1>20, <1>21, <2>2 DEF QueueInv, Waits
    <2>5. v \notin Range(skipped) BY <1>8 DEF QueueInv, Waits
    <2>6. \A r \in Range(waiting') : st'[r] # "remote"
      <3>1. \A r \in Range(waiting) : r \in Reqs BY <1>4, RangeOfSeq
      <3> QED BY <1>19, <1>20, <3>1 DEF QueueInv
    <2> QED BY <1>20, <1>21, <2>2, <2>3, <2>4, <2>5, <2>6 DEF QueueInv
  <1>24. CurInv'
    <2>1. ASSUME NEW q \in Reqs
          PROVE  /\ cur'.n[q] = 0 => cur'.got[q] = << >>
                 /\ cur'.n[q] > 0 =>
                      /\ st'[q] = "running"
                      /\ \E k \in DOMAIN running' : k < cur'.i /\ running'[k] = q
                      /\ Len(table'[q]) >= computed'[q] + cur'.n[q]
                      /\ computed'[q] + cur'.n[q] <= Tokens(q)' + place'[q]
                      /\ Clean' => computed'[q] + cur'.n[q] < Prompt + MaxNew
      <3>1. CASE q = v BY <1>11, <1>12, <3>1 DEF CurInv
      <3>2. CASE q # v
        BY <1>10, <1>12, <1>19, <1>21, <3>2 DEF CurInv, Tokens, Clean
      <3> QED BY <3>1, <3>2
    <2>2. cur'.pass # "idle" /\ cur'.pass # "wait" /\ cur'.skip = << >> /\ Len(pipe') < Depth
      BY <1>2, <1>12, <1>13, <1>21 DEF CurInv
    <2> QED BY <2>1, <2>2 DEF CurInv
  <1>25. StepInv'
    <2>1. \A k : Upto(k)' = Upto(k) BY <1>21 DEF Upto
    <2>2. ASSUME NEW k \in DOMAIN pipe, NEW w \in pipe[k].writes PROVE InPlace(w, k)'
      <3>1. w \in WriteT BY PipeIs, StepFields DEF Types
      <3>2. w.kv[1] \in Reqs /\ pipe[k].n[w.kv[1]] > 0 /\ InPlace(w, k) BY <3>1, WriteFields DEF StepInv
      <3>3. CASE \E d \in deferred : w.block \in d.blocks /\ d.steps >= Upto(k)
        BY <1>17, <2>1, <3>3 DEF InPlace
      <3>4. CASE w.kv[2] \in DOMAIN table[w.kv[1]] /\ table[w.kv[1]][w.kv[2]] = w.block
        <4>1. CASE w.kv[1] = v
          <5>1. w.block \in Range(table[v]) BY <3>4, <4>1 DEF Range
          <5>2. \E d \in deferred' : w.block \in d.blocks /\ d.steps >= Upto(k)
            BY <1>18, <3>2, <4>1, <5>1
          <5> QED BY <2>1, <5>2 DEF InPlace
        <4>2. CASE w.kv[1] # v BY <1>19, <3>2, <3>4, <4>2 DEF InPlace
        <4> QED BY <4>1, <4>2
      <3> QED BY <3>2, <3>3, <3>4 DEF InPlace
    <2>3. \A q \in Reqs : st[q] \notin Fresher => st'[q] \notin Fresher BY <1>19 DEF Fresher
    <2>4. ASSUME NEW k \in DOMAIN pipe
          PROVE  /\ \A w \in pipe[k].writes : pipe[k].n[w.kv[1]] > 0 /\ InPlace(w, k)'
                 /\ \A w \in pipe[k].puts : pipe[k].n[w.kv[1]] > 0
                 /\ \A x, w \in pipe[k].writes : x.block = w.block => x = w
                 /\ \A r \in Reqs : pipe[k].n[r] > 0 => st'[r] \notin Fresher
                 /\ \A r \in pipe[k].samples : pipe[k].n[r] > 0
                 /\ \A o, p \in pipe[k].retr : o.req = p.req => o = p
                 /\ pipe[k].exec # "done" =>
                      /\ \A j \in DOMAIN pipe : j > k => pipe[j].exec = "no"
                      /\ pipe[k].recv = {} /\ pipe[k].send = {} /\ pipe[k].bad = {}
      BY <2>2, <2>3 DEF StepInv
    <2> QED BY <1>21, <2>4 DEF StepInv
  <1> QED BY <1>1, <1>2, <1>6, <1>8, <1>11, <1>12, <1>17, <1>18, <1>19, <1>22, <1>23, <1>24, <1>25 DEF v

-----------------------------------------------------------------------------
(* The first part of the invariant.                                          *)

(* The part of the invariant about the queues, the blocks and the steps on  *)
(* their way.                                                               *)
Base == Types /\ QueueInv /\ CurInv /\ BlockInv /\ StepInv

(* The partition of the blocks while they stay where they are.               *)
LEMMA BlockSame ==
    ASSUME BlockInv, SameBlocks PROVE BlockInv'
  BY DEF BlockInv, SameBlocks

(* Base, in a decision of schedule() that only moves the scan, the queues or *)
(* a note.                                                                   *)
LEMMA LightBase ==
    ASSUME Base, Light, Types', QueueInv', CurInv' PROVE Base'
  <1>1. /\ table' = table /\ deferred' = deferred /\ st' = st /\ pipe' = pipe /\ SameBlocks
    BY DEF Light, SameReqs, SameBlocks
  <1>2. BlockInv' BY <1>1, BlockSame DEF Base
  <1>3. \A q \in Reqs : st[q] \notin Fresher => st'[q] \notin Fresher /\ Stays(q) BY <1>1 DEF Stays
  <1>4. StepInv' BY <1>1, <1>3, StepFrame DEF Base, Types
  <1> QED BY <1>2, <1>4 DEF Base

(* Base, when a running request is scheduled.                                *)
LEMMA TakeRunningBase ==
    ASSUME CacheAssumption, EngineAssumption, Base, PlaceInv, TakeRunning PROVE Base'
  <1>1. Types' /\ QueueInv' /\ CurInv' /\ BlockInv' BY TakeRunningIs DEF Base
  <1>2. /\ UNCHANGED <<reqVars, pipe>> /\ deferred' = deferred /\ Here \in Reqs
        /\ \A q \in Reqs : q # Here => table'[q] = table[q]
        /\ \A i \in DOMAIN table[Here] : i \in DOMAIN table'[Here] /\ table'[Here][i] = table[Here][i]
    BY TakeRunningIs DEF Base
  <1>3. \A q \in Reqs : st[q] \notin Fresher => st'[q] \notin Fresher /\ Stays(q)
    BY <1>2 DEF Stays, reqVars
  <1>4. StepInv' BY <1>2, <1>3, StepFrame DEF Base, Types
  <1> QED BY <1>1, <1>4 DEF Base

(* Base, when the last running request is preempted.                         *)
LEMMA PreemptBase ==
    ASSUME CacheAssumption, EngineAssumption, Base, Preempt PROVE Base'
  BY PreemptIs DEF Base

(* A step of the worker moves along.                                        *)
Along ==
    \A k \in DOMAIN pipe : pipe'[k].exec # "done" =>
        /\ pipe[k].exec # "done"
        /\ pipe'[k].recv = pipe[k].recv /\ pipe'[k].send = pipe[k].send /\ pipe'[k].bad = pipe[k].bad
        /\ \A j \in DOMAIN pipe : j > k => pipe'[j].exec = pipe[j].exec

(* Base, in a step that leaves the requests, the blocks and the shape of the *)
(* pipe.                                                                     *)
LEMMA AsideBase ==
    ASSUME Base, Aside, Types', Along PROVE Base'
  <1>1. /\ SameQueues /\ SameReqs /\ SameBlocks /\ cur' = cur /\ SameShape /\ Clean' = Clean
    BY DEF Aside
  <1>2. /\ waiting' = waiting /\ skipped' = skipped /\ running' = running /\ st' = st
        /\ computed' = computed /\ out' = out /\ place' = place /\ table' = table
        /\ deferred' = deferred
    BY <1>1 DEF SameQueues, SameReqs, SameBlocks
  <1>3. QueueInv' BY <1>1, <1>2 DEF Base, QueueInv
  <1>4. Len(pipe') = Len(pipe) /\ DOMAIN pipe' = DOMAIN pipe BY <1>1 DEF SameShape
  <1>5. CurInv' BY <1>1, <1>2, <1>4 DEF Base, CurInv, Tokens
  <1>6. BlockInv' BY <1>1, BlockSame DEF Base
  <1>7. ASSUME NEW k \in DOMAIN pipe PROVE Upto(k)' = Upto(k)
    <2>1. \A i \in 1..k : i \in DOMAIN pipe BY PipeIs DEF Base, Types
    <2>2. \A i \in 1..k : pipe'[i].n = pipe[i].n BY <1>1, <2>1 DEF SameShape
    <2>3. {i \in 1..k : pipe'[i].n # Zero} = {i \in 1..k : pipe[i].n # Zero} BY <2>2
    <2> QED BY <2>3 DEF Upto
  <1>8. ASSUME NEW k \in DOMAIN pipe
        PROVE  /\ \A w \in pipe'[k].writes : pipe'[k].n[w.kv[1]] > 0 /\ InPlace(w, k)'
               /\ \A w \in pipe'[k].puts : pipe'[k].n[w.kv[1]] > 0
               /\ \A v, w \in pipe'[k].writes : v.block = w.block => v = w
               /\ \A r \in Reqs : pipe'[k].n[r] > 0 => st'[r] \notin Fresher
               /\ \A r \in pipe'[k].samples : pipe'[k].n[r] > 0
               /\ \A o, p \in pipe'[k].retr : o.req = p.req => o = p
    <2>1. /\ \A w \in pipe[k].writes : pipe[k].n[w.kv[1]] > 0 /\ InPlace(w, k)
          /\ \A w \in pipe[k].puts : pipe[k].n[w.kv[1]] > 0
          /\ \A v, w \in pipe[k].writes : v.block = w.block => v = w
          /\ \A r \in Reqs : pipe[k].n[r] > 0 => st[r] \notin Fresher
          /\ \A r \in pipe[k].samples : pipe[k].n[r] > 0
          /\ \A o, p \in pipe[k].retr : o.req = p.req => o = p
      BY DEF Base, StepInv
    <2>2. \A w \in pipe[k].writes : InPlace(w, k)' BY <1>2, <1>7, <2>1 DEF InPlace
    <2>3. /\ pipe'[k].n = pipe[k].n /\ pipe'[k].samples = pipe[k].samples
          /\ pipe'[k].writes = pipe[k].writes /\ pipe'[k].retr = pipe[k].retr
          /\ pipe'[k].puts = pipe[k].puts
      BY <1>1 DEF SameShape
    <2> QED BY <1>2, <2>1, <2>2, <2>3
  <1>9. ASSUME NEW k \in DOMAIN pipe, pipe'[k].exec # "done"
        PROVE  /\ \A j \in DOMAIN pipe : j > k => pipe'[j].exec = "no"
               /\ pipe'[k].recv = {} /\ pipe'[k].send = {} /\ pipe'[k].bad = {}
    BY <1>9 DEF Along, Base, StepInv
  <1>10. StepInv' BY <1>4, <1>8, <1>9 DEF StepInv
  <1> QED BY <1>3, <1>5, <1>6, <1>10 DEF Base

(* Base, when the loads of a step are begun.                                 *)
LEMMA StartStepBase ==
    ASSUME Base, StartStep PROVE Base'
  <1>1. Aside /\ Types' BY StartStepAside DEF Base
  <1>2. /\ At \in DOMAIN pipe /\ pipe[At].exec = "no"
        /\ \A i \in DOMAIN pipe : i < At => pipe[i].exec = "done"
        /\ \A k \in DOMAIN pipe : k # At => pipe'[k] = pipe[k]
        /\ pipe'[At].exec = "loaded" /\ pipe'[At].recv = pipe[At].recv
        /\ pipe'[At].send = pipe[At].send /\ pipe'[At].bad = pipe[At].bad
    BY StartStepIs DEF Base
  <1>3. DOMAIN pipe \subseteq Nat BY PipeIs DEF Base, Types
  <1>4. ASSUME NEW k \in DOMAIN pipe, pipe'[k].exec # "done"
        PROVE  /\ pipe[k].exec # "done"
               /\ pipe'[k].recv = pipe[k].recv /\ pipe'[k].send = pipe[k].send /\ pipe'[k].bad = pipe[k].bad
               /\ \A j \in DOMAIN pipe : j > k => pipe'[j].exec = pipe[j].exec
    <2>1. CASE k = At
      <3>1. \A j \in DOMAIN pipe : j > k => j # At BY <1>3, <2>1
      <3> QED BY <1>2, <2>1, <3>1
    <2>2. CASE k # At
      <3>1. pipe'[k] = pipe[k] BY <1>2, <2>2
      <3>2. ~(k < At) BY <1>2, <1>4, <3>1
      <3>3. \A j \in DOMAIN pipe : j > k => j # At BY <1>2, <1>3, <2>2, <3>2
      <3> QED BY <1>2, <1>4, <3>1, <3>3
    <2> QED BY <2>1, <2>2
  <1>5. Along BY <1>4 DEF Along
  <1> QED BY <1>1, <1>5, AsideBase

(* Base, when a step is executed.                                            *)
LEMMA ExecuteBase ==
    ASSUME Base, NEW over, Execute(over) PROVE Base'
  <1>1. Aside /\ Types' BY ExecuteAside DEF Base
  <1>2. /\ At \in DOMAIN pipe /\ pipe'[At].exec = "done"
        /\ \A i \in DOMAIN pipe : i < At => pipe[i].exec = "done"
        /\ \A k \in DOMAIN pipe : k # At => pipe'[k] = pipe[k]
    BY ExecuteIs DEF Base
  <1>3. DOMAIN pipe \subseteq Nat BY PipeIs DEF Base, Types
  <1>4. ASSUME NEW k \in DOMAIN pipe, pipe'[k].exec # "done"
        PROVE  /\ pipe[k].exec # "done"
               /\ pipe'[k].recv = pipe[k].recv /\ pipe'[k].send = pipe[k].send /\ pipe'[k].bad = pipe[k].bad
               /\ \A j \in DOMAIN pipe : j > k => pipe'[j].exec = pipe[j].exec
    <2>1. k # At BY <1>2, <1>4
    <2>2. pipe'[k] = pipe[k] BY <1>2, <2>1
    <2>3. ~(k < At) BY <1>2, <1>4, <2>2
    <2>4. \A j \in DOMAIN pipe : j > k => j # At BY <1>2, <1>3, <2>1, <2>3
    <2> QED BY <1>2, <1>4, <2>2, <2>4
  <1>5. Along BY <1>4 DEF Along
  <1> QED BY <1>1, <1>5, AsideBase

(* Base, in a step that changes only what the worker or a lookup keeps.      *)
LEMMA QuietBase ==
    ASSUME Base, Aside, Types', pipe' = pipe PROVE Base'
  <1>1. Along BY DEF Along
  <1> QED BY <1>1, AsideBase

-----------------------------------------------------------------------------
(* The wait for a load is over.                                              *)

(* The head of the queues, while requests are admitted.                      *)
LEMMA ReadyReq ==
    ASSUME Types, Admitting
    PROVE  /\ Head1 \in Reqs /\ Head1 \in Range(skipped) \cup Range(waiting)
           /\ cur.pass = "wait" /\ cur.budget > 0 /\ skipped \o waiting # << >>
  BY HeadIs DEF Admitting, Types

(* The load of r failed and left nothing.                                    *)
Lost(r) == r \in recvFailed /\ computed[r] = 0

(* What Promote does.                                                        *)
LEMMA PromoteIs ==
    ASSUME CacheAssumption, Base, Promote
    PROVE  LET r == Head1 IN
           /\ r \in Reqs /\ st[r] = "remote" /\ r \in recvDone /\ cur.pass = "wait"
           /\ st'[r] = IF r \in hurt THEN "preempted" ELSE "waiting"
           /\ computed'[r] = IF r \notin recvFailed /\ computed[r] = Tokens(r)
                             THEN computed[r] - 1 ELSE computed[r]
           /\ table'[r] = IF Lost(r) THEN << >> ELSE table[r]
           /\ \A q \in Reqs : q # r => st'[q] = st[q] /\ computed'[q] = computed[q] /\ table'[q] = table[q]
           /\ seen' = IF Lost(r) THEN seen \cup {"lost"} ELSE seen
           /\ recvDone' = recvDone \ {r} /\ recvFailed' = recvFailed \ {r}
           /\ UNCHANGED <<cacheVars, queueVars, out, place, chunk, hurt, content, deferred,
                          finIds, inflight, pipe, cur, aborts>>
           /\ Base'
  <1> DEFINE r == Head1
  <1>1. /\ Admitting /\ st[r] = "remote" /\ r \in recvDone
        /\ st' = [st EXCEPT ![r] = IF r \in hurt THEN "preempted" ELSE "waiting"]
        /\ computed' = [computed EXCEPT ![r] =
                 IF r \notin recvFailed /\ computed[r] = Tokens(r) THEN computed[r] - 1 ELSE computed[r]]
        /\ free' = IF Lost(r) THEN free \cup Held({r}) ELSE free
        /\ table' = IF Lost(r) THEN [table EXCEPT ![r] = << >>] ELSE table
        /\ seen' = IF Lost(r) THEN seen \cup {"lost"} ELSE seen
        /\ recvDone' = recvDone \ {r} /\ recvFailed' = recvFailed \ {r}
        /\ UNCHANGED <<cacheVars, queueVars, out, place, chunk, hurt, content, deferred,
                       finIds, inflight, pipe, cur, aborts>>
    <2>1. Admitting BY DEF Promote
    <2>2. r \in Reqs BY <2>1, ReadyReq DEF Base
    <2>3. computed \in [Reqs -> Nat] BY DEF Base, Types, ReqTypes
    <2> QED BY <2>1, <2>2, <2>3 DEF Promote, Lost
  <1>2. r \in Reqs /\ cur.pass = "wait" BY <1>1, ReadyReq DEF Base
  <1> HIDE DEF r
  <1>3. /\ st \in [Reqs -> Sts] /\ computed \in [Reqs -> Nat] /\ table \in [Reqs -> Seq(Blocks)]
        /\ out \in [Reqs -> Nat] /\ Prompt \in Nat \ {0}
    BY DEF Base, Types, ReqTypes, BlockTypes, CacheAssumption
  <1>4. /\ st'[r] = IF r \in hurt THEN "preempted" ELSE "waiting"
        /\ computed'[r] = IF r \notin recvFailed /\ computed[r] = Tokens(r)
                          THEN computed[r] - 1 ELSE computed[r]
        /\ table'[r] = IF Lost(r) THEN << >> ELSE table[r]
        /\ \A q \in Reqs : q # r => st'[q] = st[q] /\ computed'[q] = computed[q] /\ table'[q] = table[q]
    BY <1>1, <1>2, <1>3
  <1>5. st' \in [Reqs -> Sts] BY <1>1, <1>2, <1>3 DEF Sts
  <1>6. computed' \in [Reqs -> Nat]
    <2>1. Tokens(r) \in Nat /\ Tokens(r) > 0 BY <1>2, <1>3 DEF Tokens
    <2>2. (IF r \notin recvFailed /\ computed[r] = Tokens(r) THEN computed[r] - 1 ELSE computed[r]) \in Nat
      BY <1>2, <1>3, <2>1
    <2> QED BY <1>1, <1>3, <2>2
  <1>7. /\ out' = out /\ place' = place /\ chunk' = chunk /\ hurt' = hurt /\ deferred' = deferred
        /\ finIds' = finIds /\ inflight' = inflight /\ pipe' = pipe /\ cur' = cur
        /\ waiting' = waiting /\ skipped' = skipped /\ running' = running
        /\ UNCHANGED trkVars /\ UNCHANGED workVars /\ UNCHANGED queueVars
    BY <1>1 DEF cacheVars, queueVars
  <1>8. BlockTypes' /\ BlockInv'
    <2>1. CASE Lost(r)
      <3> DEFINE p == << >>  R == {r}
      <3>1. DOMAIN p = {} OBVIOUS
      <3>2. Busy(p) = 0 BY <3>1, BusyIs
      <3>3. Later(R, p) = {} BY <3>1 DEF Later
      <3>4. {q \in R : Depth > 1 /\ table[q] # << >> /\ \E i \in DOMAIN p : p[i].n[q] > 0} = {}
        BY <3>1
      <3>5. table' = [q \in Reqs |-> IF q \in R THEN << >> ELSE table[q]]
        BY <1>1, <1>2, <1>3, <2>1
      <3>6. free' = free \cup Held(R) /\ deferred' = deferred BY <1>1, <1>7, <2>1
      <3> HIDE DEF p
      <3>7. Release(R, p, free, deferred) BY <3>4, <3>5, <3>6 DEF Release
      <3>8. /\ BlockTypes /\ R \subseteq Reqs /\ free \subseteq Blocks /\ deferred \subseteq DeferT
            /\ Partition(table, free, deferred)
        BY <1>2 DEF Base, Types, BlockTypes, BlockInv
      <3>9. Busy(p) \in Nat /\ (Later(R, p) # {} => Busy(p) > 0) BY <3>2, <3>3
      <3> HIDE DEF R
      <3> QED BY <3>7, <3>8, <3>9, ReleaseIs
    <2>2. CASE ~Lost(r)
      <3>1. SameBlocks BY <1>1, <1>7, <2>2 DEF SameBlocks
      <3> QED BY <3>1, BlockSame DEF Base, Types, BlockTypes, SameBlocks
    <2> QED BY <2>1, <2>2
  <1>9. Types'
    <2>1. TrkTypes' BY <1>7, TrkTypesSame DEF Base, Types
    <2>2. WorkTypes' BY <1>7, WorkTypesSame DEF Base, Types
    <2>3. QueueTypes' BY <1>7, QueueTypesSame DEF Base, Types
    <2>4. ReqTypes' BY <1>5, <1>6, <1>7 DEF Base, Types, ReqTypes
    <2>5. DoneTypes' BY <1>1, <1>7 DEF Base, Types, DoneTypes
    <2>6. PipeTypes' BY <1>7, PipeTypesSame DEF Base, Types
    <2>7. CurTypes' BY <1>7 DEF Base, Types, CurTypes
    <2> QED BY <1>8, <2>1, <2>2, <2>3, <2>4, <2>5, <2>6, <2>7 DEF Types
  <1>10. QueueInv'
    <2>1. {q \in Reqs : st'[q] \in Waits} = {q \in Reqs : st[q] \in Waits}
      BY <1>1, <1>2, <1>4 DEF Waits
    <2>2. {q \in Reqs : st'[q] = "running"} = {q \in Reqs : st[q] = "running"}
      BY <1>1, <1>2, <1>4
    <2>3. \A q \in Range(waiting) : st'[q] # "remote"
      <3>1. Range(waiting) \subseteq Reqs BY RangeOfSeq DEF Base, Types, QueueTypes
      <3> QED BY <1>1, <1>4, <3>1 DEF Base, QueueInv
    <2> QED BY <1>7, <2>1, <2>2, <2>3 DEF Base, QueueInv
  <1>11. CurInv'
    <2>0. Clean' = Clean BY <1>1 DEF Clean
    <2>1. ASSUME NEW q \in Reqs
          PROVE  /\ cur'.n[q] = 0 => cur'.got[q] = << >>
                 /\ cur'.n[q] > 0 =>
                      /\ st'[q] = "running"
                      /\ Len(table'[q]) >= computed'[q] + cur'.n[q]
                      /\ computed'[q] + cur'.n[q] <= Tokens(q)' + place'[q]
                      /\ Clean' => computed'[q] + cur'.n[q] < Prompt + MaxNew
      <3>1. CASE q = r BY <1>1, <1>7, <3>1 DEF Base, CurInv
      <3>2. CASE q # r BY <1>4, <1>7, <2>0, <3>2 DEF Base, CurInv, Tokens
      <3> QED BY <3>1, <3>2
    <2> QED BY <1>2, <1>7, <2>1 DEF Base, CurInv
  <1>12. \A q \in Reqs : st[q] \notin Fresher => st'[q] \notin Fresher /\ Stays(q)
    BY <1>1, <1>4 DEF Fresher, Stays
  <1>13. StepInv' BY <1>7, <1>12, StepFrame DEF Base, Types
  <1>14. Base' BY <1>8, <1>9, <1>10, <1>11, <1>13 DEF Base
  <1> QED BY <1>1, <1>2, <1>4, <1>14 DEF r

-----------------------------------------------------------------------------
(* A request is admitted.                                                    *)

(* What a tracker holds once blocks were allocated.                         *)
LEMMA SubSeqIs ==
    ASSUME NEW S, NEW s \in Seq(S), NEW k \in Nat
    PROVE  /\ SubSeq(s, k + 1, Len(s)) \in Seq(S)
           /\ Len(SubSeq(s, k + 1, Len(s))) = IF k + 1 <= Len(s) THEN Len(s) - k ELSE 0
           /\ \A i \in 1..Len(s) - k : SubSeq(s, k + 1, Len(s))[i] = s[k + i]
  <1> DEFINE n == Len(s)
  <1>1. n \in Nat /\ \A i \in 1..n : s[i] \in S BY LenProperties, ElementOfSeq
  <1>2. k + 1 \in Int /\ n \in Int /\ \A i \in k + 1..n : s[i] \in S BY <1>1
  <1> HIDE DEF n
  <1>3. /\ SubSeq(s, k + 1, n) \in Seq(S)
        /\ Len(SubSeq(s, k + 1, n)) = IF k + 1 <= n THEN n - (k + 1) + 1 ELSE 0
        /\ \A i \in 1..n - (k + 1) + 1 : SubSeq(s, k + 1, n)[i] = s[k + 1 + i - 1]
    BY <1>2, SubSeqProperties
  <1>4. n - (k + 1) + 1 = n - k /\ \A i \in 1..n - k : k + 1 + i - 1 = k + i BY <1>1
  <1> QED BY <1>3, <1>4 DEF n

(* The tracker of a request that was given blocks.                           *)
LEMMA AfterAllocIs ==
    ASSUME NEW t \in TrackerT, NEW tab \in Seq(Blocks), NEW u, u = AfterAlloc(t, tab)
    PROVE  /\ u \in TrackerT
           /\ u.s = IF t.s # "prefetching" THEN t.s ELSE IF t.hit > 0 THEN "waiting" ELSE "ready"
           /\ u.stored = t.stored /\ u.sched = t.sched /\ u.hit = t.hit
           /\ Len(t.blocks) <= Len(tab) /\ (\A i \in DOMAIN t.blocks : tab[i] = t.blocks[i])
                 => u.blocks = tab
  <1> DEFINE k == Len(t.blocks)  q == SubSeq(tab, k + 1, Len(tab))  bs == t.blocks \o q
             z == IF t.s # "prefetching" THEN t.s ELSE IF t.hit > 0 THEN "waiting" ELSE "ready"
  <1>1. t.blocks \in Seq(Blocks) /\ t.s \in {"none", "prefetching", "waiting", "ready"} BY TrackerFields
  <1>2. k \in Nat /\ Len(tab) \in Nat BY <1>1, LenProperties
  <1> HIDE DEF k
  <1>3. /\ q \in Seq(Blocks)
        /\ Len(q) = IF k + 1 <= Len(tab) THEN Len(tab) - k ELSE 0
        /\ \A i \in 1..Len(tab) - k : q[i] = tab[k + i]
    BY <1>2, SubSeqIs
  <1>4. u = [t EXCEPT !.blocks = bs, !.s = z] BY DEF AfterAlloc, k
  <1> HIDE DEF q
  <1>5. /\ bs \in Seq(Blocks) /\ Len(bs) = k + Len(q)
        /\ \A i \in 1..k + Len(q) : bs[i] = IF i <= k THEN t.blocks[i] ELSE q[i - k]
    BY <1>1, <1>3, ConcatProperties DEF k
  <1>6. z \in {"none", "prefetching", "waiting", "ready"} BY <1>1
  <1> HIDE DEF z, bs
  <1>7. /\ u \in TrackerT /\ u.s = z /\ u.blocks = bs /\ u.stored = t.stored /\ u.sched = t.sched
        /\ u.hit = t.hit
    BY <1>4, <1>5, <1>6 DEF TrackerT
  <1>8. ASSUME k <= Len(tab), \A i \in DOMAIN t.blocks : tab[i] = t.blocks[i] PROVE bs = tab
    <2> DEFINE n == Len(tab)
    <2>1. n \in Nat /\ k <= n BY <1>2, <1>8
    <2>a. Len(q) = IF k + 1 <= n THEN n - k ELSE 0 BY <1>3
    <2>b. \A i \in 1..n - k : q[i] = tab[k + i] BY <1>3
    <2> HIDE DEF n
    <2>2. Len(q) = n - k /\ k + Len(q) = n BY <1>2, <2>1, <2>a
    <2>3. DOMAIN t.blocks = 1..k BY <1>1, LenProperties DEF k
    <2>4. ASSUME NEW i \in 1..n PROVE bs[i] = tab[i]
      <3>1. CASE i <= k
        <4>1. i \in 1..k BY <3>1
        <4>2. bs[i] = t.blocks[i] BY <1>5, <2>2, <3>1
        <4> QED BY <1>8, <2>3, <4>1, <4>2
      <3>2. CASE ~(i <= k)
        <4>1. i - k \in 1..n - k /\ k + (i - k) = i BY <1>2, <2>1, <3>2
        <4>2. bs[i] = q[i - k] BY <1>5, <2>2, <3>2
        <4>3. q[i - k] = tab[k + (i - k)] BY <2>b, <4>1
        <4> QED BY <4>1, <4>2, <4>3
      <3> QED BY <3>1, <3>2
    <2>5. Len(bs) = Len(tab) BY <1>5, <2>2 DEF n
    <2> QED BY <1>5, <2>4, <2>5, SeqEqual DEF n
  <1> QED BY <1>7, <1>8 DEF k, z

(* The request at the head of the queues is admitted.                       *)
LEMMA MissingLess ==
    ASSUME EngineAssumption, BlockTypes, NEW r \in Reqs, NEW m \in Nat, NEW n \in Nat, m <= n, Fits(r, n)
    PROVE  Fits(r, m)
  <1> DEFINE a == Len(table[r])  c == Cardinality(free)
  <1>1. a \in Nat BY LenProperties DEF BlockTypes
  <1>2. c \in Nat
    <2>1. IsFiniteSet(free) BY FS_Subset DEF EngineAssumption, BlockTypes
    <2> QED BY <2>1, FS_CardinalityType
  <1>3. (IF n > a THEN n - a ELSE 0) <= c BY DEF Fits, Missing
  <1> HIDE DEF a, c
  <1>4. (IF m > a THEN m - a ELSE 0) <= c BY <1>1, <1>2, <1>3
  <1> QED BY <1>4 DEF Fits, Missing, a, c

(* What Admit does to a request that need not compute base tokens.           *)
AdmittedAs(base, async) ==
    LET r == Head1 IN
    /\ r \in Reqs /\ st[r] \in {"waiting", "preempted"} /\ Pop /\ cur.pass = "wait" /\ cur.budget > 0
    /\ base <= Prompt /\ (async => base > 0 /\ st[r] = "waiting" /\ computed[r] = 0)
    /\ ~async => base < Prompt /\ base = computed[r]
    /\ IF async THEN Load(r, base) ELSE Run(r, base, Min({Tokens(r) - base, cur.budget}))
    /\ trk' = [trk EXCEPT ![r] = AfterAlloc(Noted(base), table'[r])]
    /\ computed' = [computed EXCEPT ![r] = base]
    /\ Fits(r, Tokens(r)) /\ LookupTypes
    /\ UNCHANGED <<workVars, out, place, chunk, hurt, deferred, finIds, recvDone, recvFailed,
                   pipe, aborts, seen>>

(* What Admit does, with what the request need not compute.                  *)
LEMMA AdmitIs ==
    ASSUME CacheAssumption, EngineAssumption, Base, PlaceInv, TableInv, Admit
    PROVE  \E base \in Nat, async \in BOOLEAN : AdmittedAs(base, async)
  <1> DEFINE r == Head1
  <1>1. Ready BY DEF Admit
  <1>2. /\ r \in Reqs /\ st[r] \in {"waiting", "preempted"} /\ cur.pass = "wait" /\ Pop
    BY <1>1, ReadyIs DEF Base, Admit, Pop
  <1>3. PICK base \in Bases, async \in BOOLEAN :
                /\ Known(base, async, TRUE) /\ ~Blocked(base, async)
                /\ IF async THEN Load(r, base) ELSE Run(r, base, Min({Tokens(r) - base, cur.budget}))
                /\ trk' = [trk EXCEPT ![r] = AfterAlloc(Noted(base), table'[r])]
                /\ computed' = [computed EXCEPT ![r] = base]
    BY DEF Admit
  <1>4. Prompt \in Nat \ {0} /\ base \in Nat /\ None \notin Nat
    BY <1>3 DEF Bases, CacheAssumption, EngineAssumption
  <1>5. /\ LookupTypes
        /\ computed[r] > 0 => base = computed[r] /\ ~async
        /\ computed[r] = 0 => base \in Answers /\ (async <=> base \notin {None, 0})
        /\ computed[r] = 0 /\ st[r] = "preempted" => base = 0
    BY <1>2, <1>3, KnownIs DEF Base
  <1>6. computed[r] \in Nat BY <1>2 DEF Base, Types, ReqTypes
  <1>7. /\ st[r] = "preempted" => computed[r] = 0
        /\ st[r] = "waiting" => computed[r] < Prompt
    BY <1>2 DEF TableInv, TableOf
  <1>11. /\ UNCHANGED <<workVars, out, place, chunk, hurt, deferred, finIds, recvDone, recvFailed,
                        pipe, aborts, seen>>
         /\ cur.budget > 0
    BY <1>1, ReadyIs DEF Admit, Base
  <1> HIDE DEF r
  <1>8. CASE computed[r] > 0
    <2>1. st[r] = "waiting" /\ computed[r] < Prompt BY <1>2, <1>6, <1>7, <1>8
    <2>2. base = computed[r] /\ ~async BY <1>5, <1>8
    <2>3. base <= Prompt /\ base < Prompt BY <1>4, <1>6, <2>1, <2>2
    <2>4. Fits(r, Tokens(r)) BY <1>3 DEF Blocked, r
    <2> QED BY <1>2, <1>3, <1>4, <1>5, <1>11, <2>2, <2>3, <2>4 DEF AdmittedAs, r
  <1>9. CASE computed[r] = 0
    <2>1. base \in 0..Prompt /\ (async <=> base # 0) BY <1>4, <1>5, <1>9 DEF Answers
    <2>2. base <= Prompt /\ (base > 0 <=> base # 0) /\ 0 < Prompt BY <1>4, <2>1
    <2>3. async => base > 0 /\ st[r] = "waiting" BY <1>2, <1>5, <1>9, <2>1, <2>2
    <2>4. ~async => base < Prompt /\ base = computed[r] BY <1>9, <2>1, <2>2
    <2>5. Fits(r, Tokens(r)) BY <1>3 DEF Blocked, r
    <2> QED BY <1>2, <1>3, <1>4, <1>5, <1>9, <1>11, <2>2, <2>3, <2>4, <2>5 DEF AdmittedAs, r
  <1>10. computed[r] > 0 \/ computed[r] = 0 BY <1>6
  <1> QED BY <1>8, <1>9, <1>10

(* What the step being scheduled says of a request.                         *)
LEMMA CurOf ==
    ASSUME CurInv, NEW q \in Reqs
    PROVE  /\ cur.n[q] = 0 => cur.got[q] = << >>
           /\ cur.n[q] > 0 =>
                /\ st[q] = "running" /\ Len(table[q]) >= computed[q] + cur.n[q]
                /\ computed[q] + cur.n[q] <= Tokens(q) + place[q]
                /\ Clean => computed[q] + cur.n[q] < Prompt + MaxNew
  BY DEF CurInv

(* A hit is given its blocks and waits for the load.                        *)
LEMMA LoadIs ==
    ASSUME CacheAssumption, EngineAssumption, Base, NEW base \in Nat, AdmittedAs(base, TRUE)
    PROVE  LET r == Head1 IN
           /\ r \in Reqs /\ st[r] = "waiting" /\ cur.pass = "wait" /\ base > 0 /\ base <= Prompt
           /\ computed[r] = 0 /\ computed'[r] = base /\ st'[r] = "remote"
           /\ \A q \in Reqs : q # r => /\ st'[q] = st[q] /\ computed'[q] = computed[q]
                                       /\ table'[q] = table[q] /\ trk'[q] = trk[q]
           /\ trk'[r] = AfterAlloc(Noted(base), table'[r])
           /\ Len(table'[r]) = Len(table[r]) + Missing(r, base) /\ Stays(r)
           /\ Len(table'[r]) >= base
           /\ \A b \in Blocks \ free : content'[b] = content[b]
           /\ cur'.n = cur.n /\ cur'.got = cur.got /\ cur'.preempted = cur.preempted
           /\ UNCHANGED <<workVars, running, out, place, chunk, hurt, deferred, finIds, recvDone,
                          recvFailed, pipe, aborts, seen>>
           /\ Base'
  <1> DEFINE r == Head1
  <1>1. /\ r \in Reqs /\ st[r] = "waiting" /\ Pop /\ cur.pass = "wait"
        /\ base <= Prompt /\ base > 0 /\ computed[r] = 0
        /\ Allocate(r, base) /\ st' = [st EXCEPT ![r] = "remote"]
        /\ cur' = [cur EXCEPT !.skip = Append(cur.skip, r)]
        /\ inflight' = inflight \cup {r} /\ running' = running
        /\ trk' = [trk EXCEPT ![r] = AfterAlloc(Noted(base), table'[r])]
        /\ computed' = [computed EXCEPT ![r] = base]
        /\ Fits(r, Tokens(r)) /\ LookupTypes
        /\ UNCHANGED <<workVars, out, place, chunk, hurt, deferred, finIds, recvDone, recvFailed,
                       pipe, aborts, seen>>
    BY DEF AdmittedAs, Load
  <1>2. /\ st \in [Reqs -> Sts] /\ computed \in [Reqs -> Nat] /\ out \in [Reqs -> Nat]
        /\ trk \in [Reqs -> TrackerT] /\ Prompt \in Nat /\ BlockTypes /\ BlockInv /\ cur \in CurT
    BY DEF Base, Types, ReqTypes, TrkTypes, CurTypes, CacheAssumption
  <1>3. Noted(base) \in TrackerT BY <1>1, NotedIs DEF Base
  <1> HIDE DEF r
  <1>4. Fits(r, base)
    <2>1. Tokens(r) \in Nat /\ base <= Tokens(r) BY <1>1, <1>2 DEF Tokens
    <2> QED BY <1>1, <1>2, <2>1, MissingLess
  <1>5. /\ BlockTypes' /\ BlockInv'
        /\ table'[r] = table[r] \o Given(r, base)
        /\ \A q \in Reqs : q # r => table'[q] = table[q]
        /\ Len(table'[r]) = Len(table[r]) + Missing(r, base) /\ Len(table'[r]) >= base
        /\ \A i \in DOMAIN table[r] : i \in DOMAIN table'[r] /\ table'[r][i] = table[r][i]
        /\ \A b \in Blocks \ free : content'[b] = content[b]
    BY <1>1, <1>2, <1>4, AllocateIs
  <1>6. /\ st'[r] = "remote" /\ computed'[r] = base
        /\ trk'[r] = AfterAlloc(Noted(base), table'[r])
        /\ \A q \in Reqs : q # r => st'[q] = st[q] /\ computed'[q] = computed[q] /\ trk'[q] = trk[q]
    BY <1>1, <1>2
  <1>7. AfterAlloc(Noted(base), table'[r]) \in TrackerT
    BY <1>1, <1>3, <1>5, AfterAllocIs DEF BlockTypes
  <1>8. TrkTypes'
    <2>1. trk' \in [Reqs -> TrackerT] BY <1>1, <1>2, <1>7
    <2> QED BY <1>1, <2>1 DEF TrkTypes, LookupTypes, Answers
  <1>9. /\ cur.skip \in Seq(Reqs) /\ Append(cur.skip, r) \in Seq(Reqs)
    BY <1>1, <1>2, CurFields, AppendProperties
  <1>10. /\ cur' \in CurT /\ cur'.n = cur.n /\ cur'.got = cur.got /\ cur'.preempted = cur.preempted
         /\ cur'.skip = Append(cur.skip, r) /\ cur'.pass = cur.pass
    BY <1>1, <1>2, <1>9 DEF CurT
  <1>11. /\ r \notin Range(cur.skip)
         /\ waiting' \in Seq(Reqs) /\ skipped' \in Seq(Reqs)
         /\ IsInjective(waiting') /\ IsInjective(skipped')
         /\ Range(waiting') \subseteq Range(waiting) /\ Range(skipped') \subseteq Range(skipped)
         /\ Range(waiting') \cup Range(skipped') = (Range(waiting) \cup Range(skipped)) \ {r}
    BY <1>1, Popped DEF Base, Types, r
  <1>12. Types'
    <2>2. WorkTypes' BY <1>1, WorkTypesSame DEF Base, Types
    <2>3. QueueTypes' BY <1>1, <1>11 DEF Base, Types, QueueTypes
    <2>4. ReqTypes'
      <3>1. st' \in [Reqs -> Sts] /\ computed' \in [Reqs -> Nat] BY <1>1, <1>2 DEF Sts
      <3> QED BY <1>1, <3>1 DEF Base, Types, ReqTypes
    <2>5. DoneTypes' BY <1>1 DEF Base, Types, DoneTypes
    <2>6. PipeTypes' BY <1>1, PipeTypesSame DEF Base, Types
    <2>7. CurTypes' BY <1>10 DEF CurTypes
    <2> QED BY <1>5, <1>8, <2>2, <2>3, <2>4, <2>5, <2>6, <2>7 DEF Types
  <1>13. QueueInv'
    <2>1. IsInjective(cur.skip) /\ IsInjective(running) BY DEF Base, QueueInv
    <2>2. Range(cur'.skip) = Range(cur.skip) \cup {r} /\ IsInjective(cur'.skip)
      BY <1>1, <1>9, <1>10, <1>11, <2>1, AddedTo
    <2>3. {q \in Reqs : st'[q] \in Waits} = {q \in Reqs : st[q] \in Waits}
      BY <1>1, <1>6 DEF Waits
    <2>4. {q \in Reqs : st'[q] = "running"} = {q \in Reqs : st[q] = "running"}
      BY <1>1, <1>6
    <2>5. r \notin Range(waiting') /\ r \notin Range(skipped') BY <1>11
    <2>6. \A q \in Range(waiting') : st'[q] # "remote"
      <3>1. Range(waiting) \subseteq Reqs BY RangeOfSeq DEF Base, Types, QueueTypes
      <3> QED BY <1>6, <1>11, <2>5, <3>1 DEF Base, QueueInv
    <2>7. Range(waiting') \cup Range(skipped') \cup Range(cur'.skip) =
              Range(waiting) \cup Range(skipped) \cup Range(cur.skip)
      BY <1>1, <1>11, <2>2 DEF Base, QueueInv, Waits
    <2> QED BY <1>1, <1>11, <2>1, <2>2, <2>3, <2>4, <2>5, <2>6, <2>7 DEF Base, QueueInv
  <1>14. CurInv'
    <2>0. Clean' = Clean /\ pipe' = pipe /\ out' = out /\ place' = place BY <1>1 DEF Clean
    <2>1. ASSUME NEW q \in Reqs
          PROVE  /\ cur'.n[q] = 0 => cur'.got[q] = << >>
                 /\ cur'.n[q] > 0 =>
                      /\ st'[q] = "running"
                      /\ Len(table'[q]) >= computed'[q] + cur'.n[q]
                      /\ computed'[q] + cur'.n[q] <= Tokens(q)' + place'[q]
                      /\ Clean' => computed'[q] + cur'.n[q] < Prompt + MaxNew
      <3>1. CASE q = r BY <1>1, <1>10, <3>1, CurOf DEF Base
      <3>2. CASE q # r
        <4>1. Tokens(q)' = Tokens(q) BY <2>0 DEF Tokens
        <4> QED BY <1>5, <1>6, <1>10, <2>0, <3>2, <4>1, CurOf DEF Base
      <3> QED BY <3>1, <3>2
    <2> QED BY <1>1, <1>10, <2>0, <2>1 DEF Base, CurInv
  <1>15. Stays(r) BY <1>5 DEF Stays
  <1>16. \A q \in Reqs : st[q] \notin Fresher => st'[q] \notin Fresher /\ Stays(q)
    BY <1>1, <1>5, <1>6 DEF Fresher, Stays
  <1>17. StepInv' BY <1>1, <1>16, StepFrame DEF Base, Types
  <1>18. Base' BY <1>5, <1>12, <1>13, <1>14, <1>17 DEF Base
  <1> QED BY <1>1, <1>5, <1>6, <1>10, <1>15, <1>18 DEF r

(* Any other request runs.                                                  *)
LEMMA RunIs ==
    ASSUME CacheAssumption, EngineAssumption, Base, PlaceInv, NEW base \in Nat, AdmittedAs(base, FALSE)
    PROVE  LET r == Head1 IN
           /\ r \in Reqs /\ st[r] \in {"waiting", "preempted"} /\ cur.pass = "wait" /\ base < Prompt
           /\ base = computed[r] /\ computed'[r] = base /\ st'[r] = "running"
           /\ \A q \in Reqs : q # r => /\ st'[q] = st[q] /\ computed'[q] = computed[q]
                                       /\ table'[q] = table[q] /\ trk'[q] = trk[q]
                                       /\ cur'.n[q] = cur.n[q]
           /\ trk'[r] = AfterAlloc(Noted(base), table'[r])
           /\ cur'.n[r] \in Nat \ {0} /\ base + cur'.n[r] <= Tokens(r)
           /\ Len(table'[r]) = Len(table[r]) + Missing(r, base + cur'.n[r]) /\ Stays(r)
           /\ Len(table'[r]) >= base + cur'.n[r]
           /\ \A b \in Blocks \ free : content'[b] = content[b]
           /\ cur.n[r] = 0 /\ cur'.got = cur.got /\ cur'.preempted = cur.preempted
           /\ UNCHANGED <<workVars, out, place, chunk, hurt, deferred, finIds, recvDone,
                          recvFailed, pipe, aborts, seen>>
           /\ Base'
  <1> DEFINE r == Head1  n == Min({Tokens(r) - base, cur.budget})
             d == cur.defer /\ ~Deferring(base, FALSE)
  <1>1. /\ r \in Reqs /\ st[r] \in {"waiting", "preempted"} /\ Pop /\ cur.pass = "wait"
        /\ cur.budget > 0 /\ base < Prompt /\ base = computed[r]
        /\ Allocate(r, base + n) /\ st' = [st EXCEPT ![r] = "running"]
        /\ cur' = [cur EXCEPT !.n[r] = n, !.budget = cur.budget - n, !.defer = d]
        /\ inflight' = IF base + n < Tokens(r) THEN inflight \cup {r} ELSE inflight
        /\ running' = Append(running, r)
        /\ trk' = [trk EXCEPT ![r] = AfterAlloc(Noted(base), table'[r])]
        /\ computed' = [computed EXCEPT ![r] = base]
        /\ Fits(r, Tokens(r)) /\ LookupTypes
        /\ UNCHANGED <<workVars, out, place, chunk, hurt, deferred, finIds, recvDone, recvFailed,
                       pipe, aborts, seen>>
    BY DEF AdmittedAs, Run
  <1>2. /\ st \in [Reqs -> Sts] /\ computed \in [Reqs -> Nat] /\ out \in [Reqs -> Nat]
        /\ trk \in [Reqs -> TrackerT] /\ Prompt \in Nat /\ BlockTypes /\ BlockInv /\ cur \in CurT
        /\ place \in [Reqs -> Nat] /\ MaxNew \in Nat
    BY DEF Base, Types, ReqTypes, TrkTypes, CurTypes, CacheAssumption, EngineAssumption
  <1>3. Noted(base) \in TrackerT BY <1>1, NotedIs DEF Base
  <1>4. /\ n \in Nat \ {0} /\ n <= cur.budget /\ base + n <= Tokens(r) /\ Tokens(r) \in Nat
        /\ cur.budget \in Nat
    <2>1. Tokens(r) \in Nat /\ base < Tokens(r) BY <1>1, <1>2 DEF Tokens
    <2>2. cur.budget \in Nat \ {0} BY <1>1, <1>2, CurFields
    <2> DEFINE a == Tokens(r) - base
    <2>3. a \in Nat \ {0} BY <2>1
    <2>4. n = Min({a, cur.budget}) OBVIOUS
    <2> HIDE DEF a, n
    <2>5. n \in {a, cur.budget} /\ n \in Nat /\ n <= a /\ n <= cur.budget BY <2>2, <2>3, <2>4, MinOfTwo
    <2>6. n # 0 BY <2>2, <2>3, <2>5
    <2>7. base + n <= Tokens(r) BY <2>1, <2>5 DEF a
    <2> QED BY <2>1, <2>2, <2>5, <2>6, <2>7
  <1>a. d \in BOOLEAN BY <1>2, CurFields
  <1> HIDE DEF r, n, d
  <1>5. /\ BlockTypes' /\ BlockInv'
        /\ table'[r] = table[r] \o Given(r, base + n)
        /\ \A q \in Reqs : q # r => table'[q] = table[q]
        /\ Len(table'[r]) = Len(table[r]) + Missing(r, base + n) /\ Len(table'[r]) >= base + n
        /\ \A i \in DOMAIN table[r] : i \in DOMAIN table'[r] /\ table'[r][i] = table[r][i]
        /\ \A b \in Blocks \ free : content'[b] = content[b]
    <2>1. base + n \in Nat /\ base + n <= Tokens(r) /\ Tokens(r) \in Nat BY <1>4
    <2>2. Fits(r, base + n) BY <1>1, <1>2, <2>1, MissingLess
    <2>3. deferred' = deferred BY <1>1
    <2> QED BY <1>1, <1>2, <2>1, <2>2, <2>3, AllocateIs
  <1>6. /\ st'[r] = "running" /\ computed'[r] = base
        /\ trk'[r] = AfterAlloc(Noted(base), table'[r])
        /\ \A q \in Reqs : q # r => st'[q] = st[q] /\ computed'[q] = computed[q] /\ trk'[q] = trk[q]
    BY <1>1, <1>2
  <1>7. AfterAlloc(Noted(base), table'[r]) \in TrackerT
    BY <1>1, <1>3, <1>5, AfterAllocIs DEF BlockTypes
  <1>8. TrkTypes'
    <2>1. trk' \in [Reqs -> TrackerT] BY <1>1, <1>2, <1>7
    <2> QED BY <1>1, <2>1 DEF TrkTypes, LookupTypes, Answers
  <1>9. cur.n[r] = 0 /\ cur.got[r] = << >> /\ cur.n \in [Reqs -> Nat]
    BY <1>1, <1>2, CurFields DEF Base, CurInv
  <1>10. /\ cur' \in CurT /\ cur'.n = [cur.n EXCEPT ![r] = n] /\ cur'.got = cur.got
         /\ cur'.preempted = cur.preempted
         /\ cur'.skip = cur.skip /\ cur'.pass = cur.pass
    <2> DEFINE b == cur.budget - n
    <2>1. b \in Nat /\ cur' = [cur EXCEPT !.n[r] = n, !.budget = b, !.defer = d] BY <1>1, <1>4
    <2> HIDE DEF b
    <2>2. cur \in CurT /\ r \in Reqs /\ n \in Nat /\ d \in BOOLEAN BY <1>1, <1>2, <1>4, <1>a
    <2>3. cur' \in CurT BY <2>1, <2>2 DEF CurT
    <2> QED BY <2>1, <2>2, <2>3 DEF CurT
  <1>11. /\ r \notin Range(cur.skip)
         /\ waiting' \in Seq(Reqs) /\ skipped' \in Seq(Reqs)
         /\ IsInjective(waiting') /\ IsInjective(skipped')
         /\ Range(waiting') \subseteq Range(waiting) /\ Range(skipped') \subseteq Range(skipped)
         /\ Range(waiting') \cup Range(skipped') = (Range(waiting) \cup Range(skipped)) \ {r}
    BY <1>1, Popped DEF Base, Types, r
  <1>b. /\ running' \in Seq(Reqs) /\ Range(running') = Range(running) \cup {r}
        /\ IsInjective(running')
    <2>1. running \in Seq(Reqs) /\ IsInjective(running) /\ r \notin Range(running)
      BY <1>1 DEF Base, Types, QueueTypes, QueueInv
    <2> QED BY <1>1, <2>1, AddedTo
  <1>12. Types'
    <2>2. WorkTypes' BY <1>1, WorkTypesSame DEF Base, Types
    <2>3. QueueTypes' BY <1>b, <1>11 DEF QueueTypes
    <2>4. ReqTypes'
      <3>1. st' \in [Reqs -> Sts] /\ computed' \in [Reqs -> Nat] BY <1>1, <1>2 DEF Sts
      <3> QED BY <1>1, <3>1 DEF Base, Types, ReqTypes
    <2>5. DoneTypes' BY <1>1 DEF Base, Types, DoneTypes
    <2>6. PipeTypes' BY <1>1, PipeTypesSame DEF Base, Types
    <2>7. CurTypes' BY <1>10 DEF CurTypes
    <2> QED BY <1>5, <1>8, <2>2, <2>3, <2>4, <2>5, <2>6, <2>7 DEF Types
  <1>13. QueueInv'
    <2>1. IsInjective(cur.skip) BY DEF Base, QueueInv
    <2>3. {q \in Reqs : st'[q] \in Waits} = {q \in Reqs : st[q] \in Waits} \ {r}
      BY <1>1, <1>6 DEF Waits
    <2>4. {q \in Reqs : st'[q] = "running"} = {q \in Reqs : st[q] = "running"} \cup {r}
      BY <1>1, <1>6
    <2>5. r \notin Range(waiting') /\ r \notin Range(skipped') BY <1>11
    <2>6. \A q \in Range(waiting') : st'[q] # "remote"
      <3>1. Range(waiting) \subseteq Reqs BY RangeOfSeq DEF Base, Types, QueueTypes
      <3> QED BY <1>6, <1>11, <2>5, <3>1 DEF Base, QueueInv
    <2>7. Range(waiting') \cup Range(skipped') \cup Range(cur'.skip) =
              (Range(waiting) \cup Range(skipped) \cup Range(cur.skip)) \ {r}
      BY <1>10, <1>11
    <2> QED BY <1>10, <1>11, <1>b, <2>1, <2>3, <2>4, <2>5, <2>6, <2>7 DEF Base, QueueInv
  <1>14. CurInv'
    <2>0. Clean' = Clean /\ pipe' = pipe /\ out' = out /\ place' = place BY <1>1 DEF Clean
    <2>1. ASSUME NEW q \in Reqs
          PROVE  /\ cur'.n[q] = 0 => cur'.got[q] = << >>
                 /\ cur'.n[q] > 0 =>
                      /\ st'[q] = "running"
                      /\ Len(table'[q]) >= computed'[q] + cur'.n[q]
                      /\ computed'[q] + cur'.n[q] <= Tokens(q)' + place'[q]
                      /\ Clean' => computed'[q] + cur'.n[q] < Prompt + MaxNew
      <3>1. CASE q = r
        <4>1. out[r] < MaxNew BY <1>1 DEF PlaceInv, PlaceOf, Over
        <4>2. /\ place[q] \in Nat /\ out[q] \in Nat /\ Tokens(q)' = Tokens(q)
              /\ Tokens(q) = Prompt + out[q]
          BY <1>2, <2>0 DEF Tokens
        <4>3. base + n <= Tokens(q) + place[q] /\ base + n < Prompt + MaxNew
          BY <1>2, <1>4, <3>1, <4>1, <4>2
        <4>4. cur'.n[q] = n /\ computed'[q] = base /\ n # 0 BY <1>1, <1>4, <1>6, <1>9, <1>10, <3>1
        <4> QED BY <1>5, <1>6, <2>0, <3>1, <4>2, <4>3, <4>4
      <3>2. CASE q # r
        <4>1. Tokens(q)' = Tokens(q) BY <2>0 DEF Tokens
        <4>2. cur'.n[q] = cur.n[q] BY <1>1, <1>9, <1>10, <3>2
        <4> QED BY <1>5, <1>6, <1>10, <2>0, <3>2, <4>1, <4>2, CurOf DEF Base
      <3> QED BY <3>1, <3>2
    <2> QED BY <1>1, <1>10, <2>0, <2>1 DEF Base, CurInv
  <1>15. Stays(r) BY <1>5 DEF Stays
  <1>16. \A q \in Reqs : st[q] \notin Fresher => st'[q] \notin Fresher /\ Stays(q)
    BY <1>1, <1>5, <1>6 DEF Fresher, Stays
  <1>17. StepInv' BY <1>1, <1>16, StepFrame DEF Base, Types
  <1>18. Base' BY <1>5, <1>12, <1>13, <1>14, <1>17 DEF Base
  <1>19. cur'.n[r] = n /\ \A q \in Reqs : q # r => cur'.n[q] = cur.n[q] BY <1>1, <1>9, <1>10
  <1> QED BY <1>1, <1>4, <1>5, <1>6, <1>9, <1>10, <1>15, <1>18, <1>19 DEF r

-----------------------------------------------------------------------------
(* The end of schedule().                                                    *)

(* The tracker of a request whose chunk is scheduled.                        *)
LEMMA CountedIs ==
    ASSUME NEW t \in TrackerT, NEW n \in Nat, NEW g \in Seq(Blocks), NEW u, u = Counted(t, n, g)
    PROVE  /\ u \in TrackerT /\ u.sched = t.sched + n /\ u.blocks = t.blocks \o g
           /\ u.s = IF t.s = "waiting" THEN "ready" ELSE t.s
           /\ u.stored = t.stored /\ u.hit = t.hit
  <1> DEFINE m == t.sched + n  bs == t.blocks \o g  z == IF t.s = "waiting" THEN "ready" ELSE t.s
  <1>1. /\ t.s \in {"none", "prefetching", "waiting", "ready"} /\ t.blocks \in Seq(Blocks)
        /\ t.sched \in Nat
    BY TrackerFields
  <1>2. m \in Nat /\ bs \in Seq(Blocks) /\ z \in {"none", "prefetching", "waiting", "ready"}
    BY <1>1, ConcatProperties
  <1>3. u = [t EXCEPT !.sched = m, !.blocks = bs, !.s = z] BY DEF Counted
  <1> HIDE DEF m, bs, z
  <1>4. u \in TrackerT BY <1>2, <1>3 DEF TrackerT
  <1> QED BY <1>2, <1>3, <1>4 DEF TrackerT, m, bs, z

(* The positions of a request that a step stores.                           *)
LEMMA StorableIs ==
    ASSUME NEW t \in TrackerT, NEW k \in Nat
    PROVE  /\ IsFiniteSet(Storable(t, k)) /\ Cardinality(Storable(t, k)) \in Nat
           /\ \A i \in Storable(t, k) : /\ i \in Nat \ {0} /\ i > t.stored /\ i \in DOMAIN t.blocks
                                        /\ i <= t.sched + t.hit /\ i <= k
  <1> DEFINE a == Len(t.blocks)  b == t.sched + t.hit  m == Min({k, a, b})
  <1>1. /\ t.blocks \in Seq(Blocks) /\ t.stored \in Nat /\ t.sched \in Nat /\ t.hit \in Nat
    BY TrackerFields
  <1>2. a \in Nat /\ b \in Nat /\ DOMAIN t.blocks = 1..a BY <1>1, LenProperties
  <1>3. Storable(t, k) = t.stored + 1 .. m BY DEF Storable
  <1> HIDE DEF a, b
  <1>4. m \in Nat /\ m <= k /\ m <= a /\ m <= b BY <1>2, MinOfThree
  <1> HIDE DEF m
  <1>5. t.stored + 1 \in Int /\ m \in Int BY <1>1, <1>4
  <1>6. IsFiniteSet(t.stored + 1 .. m) BY <1>5, FS_Interval
  <1>7. \A i \in t.stored + 1 .. m : /\ i \in Nat \ {0} /\ i > t.stored /\ i \in 1..a /\ i <= b /\ i <= k
    BY <1>1, <1>2, <1>4
  <1> QED BY <1>2, <1>3, <1>6, <1>7, FS_CardinalityType DEF b

(* The tracker of a request after a call of schedule().                      *)
LEMMA ScheduledIs ==
    ASSUME NEW t \in TrackerT, NEW n \in Nat, NEW g \in Seq(Blocks), NEW k \in Nat,
           NEW u, u = Scheduled(t, n, g, k)
    PROVE  /\ u \in TrackerT /\ u.sched = t.sched + n /\ u.blocks = t.blocks \o g
           /\ u.s = IF t.s = "waiting" THEN "ready" ELSE t.s
           /\ u.hit = t.hit
           /\ n = 0 => u.stored = t.stored
  <1> DEFINE c == Counted(t, n, g)  s == Cardinality(Storable(c, k))  m == c.stored + s
  <1>0. c = Counted(t, n, g) OBVIOUS
  <1>2. u = IF n = 0 THEN c ELSE [c EXCEPT !.stored = m] BY DEF Scheduled
  <1> HIDE DEF c
  <1>1. /\ c \in TrackerT /\ c.sched = t.sched + n /\ c.blocks = t.blocks \o g
        /\ c.s = IF t.s = "waiting" THEN "ready" ELSE t.s
        /\ c.stored = t.stored /\ c.hit = t.hit
    <2>1. t \in TrackerT /\ n \in Nat /\ g \in Seq(Blocks) OBVIOUS
    <2> HIDE DEF s
    <2>2. c \in TrackerT BY <1>0, <2>1, CountedIs
    <2>3. c.sched = t.sched + n BY <1>0, <2>1, CountedIs
    <2>4. c.blocks = t.blocks \o g BY <1>0, <2>1, CountedIs
    <2>5. c.s = IF t.s = "waiting" THEN "ready" ELSE t.s BY <1>0, <2>1, CountedIs
    <2>6. c.stored = t.stored /\ c.hit = t.hit BY <1>0, <2>1, CountedIs
    <2> QED BY <2>2, <2>3, <2>4, <2>5, <2>6
  <1>5. s \in Nat /\ c.stored \in Nat BY <1>1, StorableIs, TrackerFields
  <1> HIDE DEF s
  <1>3. m \in Nat BY <1>5
  <1> HIDE DEF m
  <1>4. n # 0 => /\ u \in TrackerT /\ u.sched = c.sched /\ u.blocks = c.blocks /\ u.s = c.s
                 /\ u.hit = c.hit
    BY <1>1, <1>2, <1>3 DEF TrackerT
  <1> QED BY <1>1, <1>2, <1>4

(* The step that is scheduled.                                              *)
NewPuts == UNION {{[block |-> AfterStep(r).blocks[i], kv |-> <<r, i>>] :
                      i \in Storable(AfterStep(r), Tokens(r))} : r \in Scheduling}

NewWrites == UNION {{[block |-> table[r][i], kv |-> <<r, i>>] : i \in Positions(r)} : r \in Scheduling}

NewStep == [n |-> cur.n, samples |-> Scheduling \ Chunked, fin |-> finIds,
            writes |-> NewWrites, retr |-> Retrieves, puts |-> NewPuts,
            exec |-> "no", recv |-> {}, send |-> {}, bad |-> {}]

(* A request that is scheduled runs and has the blocks of its chunk.         *)
LEMMA ScheduledReq ==
    ASSUME CacheAssumption, Types, CurInv, NEW r \in Scheduling
    PROVE  /\ r \in Reqs /\ cur.n[r] \in Nat \ {0} /\ st[r] = "running"
           /\ computed[r] \in Nat /\ table[r] \in Seq(Blocks) /\ Len(table[r]) \in Nat
           /\ DOMAIN table[r] = 1..Len(table[r])
           /\ Positions(r) \subseteq DOMAIN table[r] /\ Positions(r) \subseteq Nat
           /\ \A i \in Positions(r) : table[r][i] \in Blocks /\ i > computed[r]
           /\ AfterStep(r) \in TrackerT /\ Tokens(r) \in Nat
  <1>1. /\ r \in Reqs /\ cur.n[r] > 0 /\ cur.n[r] \in Nat
    BY CurFields DEF Scheduling, Types, CurTypes
  <1>2. /\ st[r] = "running" /\ Len(table[r]) >= computed[r] + cur.n[r] BY <1>1, CurOf
  <1>3. /\ computed[r] \in Nat /\ table[r] \in Seq(Blocks) /\ trk[r] \in TrackerT
        /\ cur.got[r] \in Seq(Blocks)
    BY <1>1, CurFields DEF Types, ReqTypes, BlockTypes, TrkTypes, CurTypes
  <1>4. Len(table[r]) \in Nat /\ DOMAIN table[r] = 1..Len(table[r])
        /\ \A i \in 1..Len(table[r]) : table[r][i] \in Blocks
    BY <1>3, LenProperties, ElementOfSeq
  <1> DEFINE a == Len(table[r])
  <1>5. a >= computed[r] + cur.n[r] /\ a \in Nat BY <1>2, <1>4
  <1> HIDE DEF a
  <1>6. \A i \in computed[r] + 1 .. computed[r] + cur.n[r] : i \in 1..a /\ i \in Nat /\ i > computed[r]
    BY <1>1, <1>3, <1>5
  <1>7. \A i \in Positions(r) : i \in DOMAIN table[r] /\ i \in Nat /\ i > computed[r] /\ table[r][i] \in Blocks
    BY <1>4, <1>6 DEF Positions, a
  <1>8. AfterStep(r) \in TrackerT BY <1>1, <1>3, CountedIs DEF AfterStep
  <1>9. Tokens(r) \in Nat BY <1>1 DEF Tokens, Types, ReqTypes, CacheAssumption
  <1> QED BY <1>1, <1>2, <1>3, <1>4, <1>7, <1>8, <1>9

(* What the new step writes.                                                 *)
LEMMA NewWritesAre ==
    ASSUME CacheAssumption, Types, CurInv
    PROVE  /\ NewWrites \subseteq WriteT
           /\ \A w \in NewWrites : /\ w.kv[1] \in Scheduling /\ w.kv[2] \in Positions(w.kv[1])
                                   /\ w.block = table[w.kv[1]][w.kv[2]]
           /\ \A r \in Scheduling : \A i \in Positions(r) :
                 [block |-> table[r][i], kv |-> <<r, i>>] \in NewWrites
  <1>1. ASSUME NEW w \in NewWrites
        PROVE  /\ w \in WriteT /\ w.kv[1] \in Scheduling /\ w.kv[2] \in Positions(w.kv[1])
               /\ w.block = table[w.kv[1]][w.kv[2]]
    <2>1. PICK r \in Scheduling : w \in {[block |-> table[r][i], kv |-> <<r, i>>] : i \in Positions(r)}
      BY DEF NewWrites
    <2>2. PICK i \in Positions(r) : w = [block |-> table[r][i], kv |-> <<r, i>>] BY <2>1
    <2>3. w.kv = <<r, i>> /\ w.kv[1] = r /\ w.kv[2] = i /\ w.block = table[r][i] BY <2>2
    <2>4. r \in Reqs /\ i \in Nat /\ table[r][i] \in Blocks BY <2>1, <2>2, ScheduledReq
    <2>5. w \in WriteT BY <2>2, <2>4 DEF WriteT
    <2> QED BY <2>1, <2>2, <2>3, <2>5
  <1>2. ASSUME NEW r \in Scheduling, NEW i \in Positions(r)
        PROVE  [block |-> table[r][i], kv |-> <<r, i>>] \in NewWrites
    BY DEF NewWrites
  <1> QED BY <1>1, <1>2

(* What the new step stores.                                                 *)
LEMMA NewPutsAre ==
    ASSUME CacheAssumption, Types, CurInv
    PROVE  /\ NewPuts \subseteq WriteT
           /\ \A p \in NewPuts : /\ p.kv[1] \in Scheduling
                                 /\ p.kv[2] \in Storable(AfterStep(p.kv[1]), Tokens(p.kv[1]))
                                 /\ p.block = AfterStep(p.kv[1]).blocks[p.kv[2]]
  <1>1. ASSUME NEW w \in NewPuts
        PROVE  /\ w \in WriteT /\ w.kv[1] \in Scheduling
               /\ w.kv[2] \in Storable(AfterStep(w.kv[1]), Tokens(w.kv[1]))
               /\ w.block = AfterStep(w.kv[1]).blocks[w.kv[2]]
    <2>1. PICK r \in Scheduling : w \in {[block |-> AfterStep(r).blocks[i], kv |-> <<r, i>>] :
                                           i \in Storable(AfterStep(r), Tokens(r))}
      BY DEF NewPuts
    <2>2. PICK i \in Storable(AfterStep(r), Tokens(r)) :
             w = [block |-> AfterStep(r).blocks[i], kv |-> <<r, i>>]
      BY <2>1
    <2>3. w.kv = <<r, i>> /\ w.kv[1] = r /\ w.kv[2] = i /\ w.block = AfterStep(r).blocks[i] BY <2>2
    <2>4. r \in Reqs /\ AfterStep(r) \in TrackerT /\ Tokens(r) \in Nat BY <2>1, ScheduledReq
    <2>5. i \in Nat /\ i \in DOMAIN AfterStep(r).blocks BY <2>2, <2>4, StorableIs
    <2>6. AfterStep(r).blocks[i] \in Blocks BY <2>4, <2>5, TrackerFields, LenProperties, ElementOfSeq
    <2>7. w \in WriteT BY <2>2, <2>4, <2>5, <2>6 DEF WriteT
    <2> QED BY <2>1, <2>2, <2>3, <2>7
  <1> QED BY <1>1

(* The loads the new step asks for.                                          *)
LEMMA RetrievesAre ==
    ASSUME TrkTypes
    PROVE  /\ Retrieves \subseteq RetrT
           /\ \A o \in Retrieves : /\ trk[o.req].s = "waiting" /\ Len(trk[o.req].blocks) >= trk[o.req].hit
                                   /\ o.blocks = SubSeq(trk[o.req].blocks, 1, trk[o.req].hit)
           /\ \A o, p \in Retrieves : o.req = p.req => o = p
           /\ \A r \in Reqs : trk[r].s = "waiting" /\ Len(trk[r].blocks) >= trk[r].hit
                 => \E o \in Retrieves : o.req = r
  <1> DEFINE W == {q \in Reqs : trk[q].s = "waiting" /\ Len(trk[q].blocks) >= trk[q].hit}
             O(r) == [req |-> r, blocks |-> SubSeq(trk[r].blocks, 1, trk[r].hit)]
  <1>1. Retrieves = {O(r) : r \in W} BY DEF Retrieves
  <1>2. ASSUME NEW r \in W PROVE O(r) \in RetrT /\ O(r).req = r /\ O(r).blocks = SubSeq(trk[r].blocks, 1, trk[r].hit)
    <2>1. trk[r] \in TrackerT /\ r \in Reqs BY DEF TrkTypes
    <2>2. /\ trk[r].blocks \in Seq(Blocks) /\ trk[r].hit \in Nat /\ Len(trk[r].blocks) \in Nat
          /\ DOMAIN trk[r].blocks = 1..Len(trk[r].blocks)
      BY <2>1, TrackerFields, LenProperties
    <2> DEFINE a == Len(trk[r].blocks)  h == trk[r].hit
    <2>3. a >= h /\ a \in Nat /\ h \in Nat BY <2>2
    <2>4. \A i \in 1..a : trk[r].blocks[i] \in Blocks BY <2>2, ElementOfSeq
    <2> HIDE DEF a, h
    <2>5. 1 \in Int /\ h \in Int /\ \A i \in 1..h : trk[r].blocks[i] \in Blocks BY <2>3, <2>4
    <2>6. SubSeq(trk[r].blocks, 1, h) \in Seq(Blocks) BY <2>5, SubSeqProperties
    <2> QED BY <2>1, <2>6 DEF h, RetrT
  <1>3. ASSUME NEW o \in Retrieves PROVE o.req \in W /\ o = O(o.req)
    <2>1. PICK r \in W : o = O(r) BY <1>1
    <2> QED BY <2>1
  <1>4. \A r \in W : O(r) \in Retrieves BY <1>1
  <1> HIDE DEF O
  <1> QED BY <1>2, <1>3, <1>4

(* The fields of the new step.                                               *)
LEMMA NewStepIs ==
    ASSUME CacheAssumption, Types, CurInv
    PROVE  /\ NewStep \in StepT /\ NewStep.n = cur.n /\ NewStep.samples = Scheduling \ Chunked
           /\ NewStep.fin = finIds /\ NewStep.writes = NewWrites /\ NewStep.retr = Retrieves
           /\ NewStep.puts = NewPuts /\ NewStep.exec = "no" /\ NewStep.recv = {}
           /\ NewStep.send = {} /\ NewStep.bad = {}
  <1>1. NewWrites \subseteq WriteT /\ NewPuts \subseteq WriteT BY NewWritesAre, NewPutsAre
  <1>2. Retrieves \subseteq RetrT BY RetrievesAre DEF Types
  <1>3. cur.n \in [Reqs -> Nat] /\ finIds \subseteq Reqs BY CurFields DEF Types, CurTypes, DoneTypes
  <1>4. Scheduling \ Chunked \subseteq Reqs BY DEF Scheduling
  <1> HIDE DEF Types
  <1> DEFINE W == NewWrites  P == NewPuts  T == Retrieves  S == Scheduling \ Chunked  C == cur.n
  <1>5. NewStep = [n |-> C, samples |-> S, fin |-> finIds, writes |-> W, retr |-> T, puts |-> P,
            exec |-> "no", recv |-> {}, send |-> {}, bad |-> {}]
    BY DEF NewStep
  <1> HIDE DEF W, P, T, S, C
  <1>6. /\ W \subseteq WriteT /\ P \subseteq WriteT /\ T \subseteq RetrT /\ S \subseteq Reqs
        /\ C \in [Reqs -> Nat]
    BY <1>1, <1>2, <1>3, <1>4 DEF W, P, T, S, C
  <1>7. NewStep \in StepT BY <1>3, <1>5, <1>6 DEF StepT
  <1> QED BY <1>5, <1>7 DEF W, P, T, S, C

(* The end of schedule(), variable by variable.                             *)
LEMMA FinishScheduleIs ==
    ASSUME CacheAssumption, EngineAssumption, Base, FinishSchedule
    PROVE  /\ cur.pass = "end" /\ cur.skip = << >> /\ Len(pipe) < Depth
           /\ pipe' = Append(pipe, NewStep) /\ pipe' \in Seq(StepT) /\ Len(pipe') = Len(pipe) + 1
           /\ DOMAIN pipe' = 1..Len(pipe) + 1 /\ DOMAIN pipe = 1..Len(pipe)
           /\ \A k \in DOMAIN pipe : pipe'[k] = pipe[k]
           /\ pipe'[Len(pipe) + 1] = NewStep
           /\ \A r \in Reqs : trk'[r] = Scheduled(trk[r], cur.n[r], cur.got[r], Tokens(r))
           /\ computed' = [r \in Reqs |-> computed[r] + cur.n[r]]
           /\ chunk' = (chunk \ Scheduling) \cup Chunked
           /\ place' = [r \in Reqs |-> IF Depth > 1 /\ r \in Scheduling \ Chunked
                                       THEN place[r] + 1 ELSE place[r]]
           /\ inflight' = inflight \ (Scheduling \ Chunked)
           /\ finIds' = {} /\ cur' = Idle
           /\ seen' = IF \E o \in Retrieves : st[o.req] # "remote" THEN seen \cup {"stray"} ELSE seen
           /\ UNCHANGED <<pending, result, job, lookupOk, workVars, faults, queueVars, st, out, hurt,
                          blockVars, recvDone, recvFailed, aborts>>
           /\ Types'
  <1>1. /\ cur.pass = "end" /\ pipe' = Append(pipe, NewStep)
        /\ trk' = [r \in Reqs |-> Scheduled(trk[r], cur.n[r], cur.got[r], Tokens(r))]
        /\ computed' = [r \in Reqs |-> computed[r] + cur.n[r]]
        /\ chunk' = (chunk \ Scheduling) \cup Chunked
        /\ place' = [r \in Reqs |-> IF Depth > 1 /\ r \in Scheduling \ Chunked
                                    THEN place[r] + 1 ELSE place[r]]
        /\ inflight' = inflight \ (Scheduling \ Chunked)
        /\ finIds' = {} /\ cur' = Idle
        /\ seen' = IF \E o \in Retrieves : st[o.req] # "remote" THEN seen \cup {"stray"} ELSE seen
        /\ UNCHANGED <<pending, result, job, lookupOk, workVars, faults, queueVars, st, out, hurt,
                       blockVars, recvDone, recvFailed, aborts>>
    BY DEF FinishSchedule, NewStep, NewPuts, NewWrites
  <1>2. cur.skip = << >> /\ Len(pipe) < Depth BY <1>1 DEF Base, CurInv
  <1>3. NewStep \in StepT BY NewStepIs DEF Base
  <1>4. pipe \in Seq(StepT) /\ Len(pipe) \in Nat /\ DOMAIN pipe = 1..Len(pipe) /\ Depth \in Nat
    BY PipeIs DEF Base, Types, PipeTypes, EngineAssumption
  <1>5. /\ pipe' \in Seq(StepT) /\ Len(pipe') = Len(pipe) + 1 /\ DOMAIN pipe' = 1..Len(pipe) + 1
        /\ \A k \in DOMAIN pipe : pipe'[k] = pipe[k]
        /\ pipe'[Len(pipe) + 1] = NewStep
    BY <1>1, <1>3, <1>4, AppendProperties, LenProperties
  <1>6. /\ cur.n \in [Reqs -> Nat] /\ cur.got \in [Reqs -> Seq(Blocks)] /\ trk \in [Reqs -> TrackerT]
        /\ computed \in [Reqs -> Nat] /\ place \in [Reqs -> Nat] /\ \A r \in Reqs : Tokens(r) \in Nat
    BY CurFields, ReqFields DEF Base, Types, CurTypes, TrkTypes, ReqTypes
  <1>7. \A r \in Reqs : Scheduled(trk[r], cur.n[r], cur.got[r], Tokens(r)) \in TrackerT
    BY <1>6, ScheduledIs
  <1>8. \A r \in Reqs : trk'[r] = Scheduled(trk[r], cur.n[r], cur.got[r], Tokens(r)) BY <1>1
  <1>9. trk' \in [Reqs -> TrackerT] BY <1>1, <1>7
  <1>10. TrkTypes' BY <1>1, <1>9 DEF Base, Types, TrkTypes
  <1>11. WorkTypes' /\ QueueTypes' BY <1>1, WorkTypesSame, QueueTypesSame DEF Base, Types
  <1>12. Chunked \subseteq Reqs /\ Scheduling \subseteq Reqs BY DEF Chunked, Scheduling
  <1>13. ReqTypes'
    <2>2. \A r \in Reqs : place[r] + 1 \in Nat /\ place[r] \in Nat /\ computed[r] + cur.n[r] \in Nat
      BY <1>6
    <2>3. computed' \in [Reqs -> Nat] BY <1>1, <2>2
    <2>4. place' \in [Reqs -> Nat] BY <1>1, <2>2
    <2>1. computed' \in [Reqs -> Nat] /\ place' \in [Reqs -> Nat] BY <2>3, <2>4
    <2> QED BY <1>1, <1>12, <2>1 DEF Base, Types, ReqTypes
  <1>14. BlockTypes' BY <1>1, BlockTypesSame DEF Base, Types, blockVars
  <1>15. DoneTypes' BY <1>1 DEF Base, Types, DoneTypes
  <1>16. PipeTypes' BY <1>2, <1>4, <1>5 DEF PipeTypes
  <1>17. CurTypes' BY <1>1, IdleTyped DEF CurTypes
  <1>18. Types' BY <1>10, <1>11, <1>13, <1>14, <1>15, <1>16, <1>17 DEF Types
  <1> QED BY <1>1, <1>2, <1>4, <1>5, <1>8, <1>18

(* The fields of Idle.                                                       *)
LEMMA IdleIs ==
    /\ Idle.pass = "idle" /\ Idle.skip = << >> /\ Idle.preempted = FALSE /\ Idle.n = Zero
    /\ Idle.got = Nothing
BY DEF Idle

(* No block is written twice by the new step.                               *)
LEMMA NewWritesApart ==
    ASSUME CacheAssumption, Base, NEW v \in NewWrites, NEW w \in NewWrites, v.block = w.block
    PROVE  v = w
  <1>1. /\ v \in WriteT /\ w \in WriteT
        /\ v.kv[1] \in Scheduling /\ v.kv[2] \in Positions(v.kv[1]) /\ v.block = table[v.kv[1]][v.kv[2]]
        /\ w.kv[1] \in Scheduling /\ w.kv[2] \in Positions(w.kv[1]) /\ w.block = table[w.kv[1]][w.kv[2]]
    BY NewWritesAre DEF Base
  <1>2. /\ v.kv[1] \in Reqs /\ v.kv[2] \in DOMAIN table[v.kv[1]]
        /\ w.kv[1] \in Reqs /\ w.kv[2] \in DOMAIN table[w.kv[1]]
    BY <1>1, ScheduledReq DEF Base
  <1>3. v.block \in Range(table[v.kv[1]]) /\ v.block \in Range(table[w.kv[1]])
    BY <1>1, <1>2 DEF Range
  <1>4. v.kv[1] = w.kv[1] BY <1>2, <1>3 DEF Base, BlockInv, Partition
  <1>5. IsInjective(table[v.kv[1]]) BY <1>2 DEF Base, BlockInv, Partition
  <1>6. v.kv[2] = w.kv[2] BY <1>1, <1>2, <1>4, <1>5 DEF IsInjective
  <1> QED BY <1>1, <1>4, <1>6, WriteFields

(* The steps up to the k-th that write, while they stay.                     *)
LEMMA UptoSame ==
    ASSUME NEW k \in Nat, \A i \in 1..k : pipe'[i] = pipe[i]
    PROVE  Upto(k)' = Upto(k)
  <1>1. {i \in 1..k : pipe'[i].n # Zero} = {i \in 1..k : pipe[i].n # Zero} OBVIOUS
  <1> QED BY <1>1 DEF Upto, Zero

(* Base, when a call of schedule() ends.                                     *)
LEMMA FinishScheduleBase ==
    ASSUME CacheAssumption, EngineAssumption, Base, FinishSchedule PROVE Base'
  <1>1. /\ cur.skip = << >> /\ DOMAIN pipe' = 1..Len(pipe) + 1 /\ DOMAIN pipe = 1..Len(pipe)
        /\ \A k \in DOMAIN pipe : pipe'[k] = pipe[k]
        /\ pipe'[Len(pipe) + 1] = NewStep /\ cur' = Idle /\ Types'
        /\ UNCHANGED <<queueVars, st, blockVars>>
    BY FinishScheduleIs
  <1>2. waiting' = waiting /\ skipped' = skipped /\ running' = running /\ st' = st
    BY <1>1 DEF queueVars
  <1>3. SameBlocks BY <1>1 DEF SameBlocks, blockVars
  <1>4. QueueInv' BY <1>1, <1>2, IdleIs DEF Base, QueueInv
  <1>5. \A r \in Reqs : cur'.n[r] = 0 /\ cur'.got[r] = << >> BY <1>1, ZeroIs, IdleIs
  <1>6. CurInv' BY <1>1, <1>5, IdleIs DEF CurInv
  <1>7. BlockInv' BY <1>3, BlockSame DEF Base
  <1> DEFINE m == Len(pipe) + 1
  <1>8. Len(pipe) \in Nat BY PipeIs DEF Base, Types
  <1>9. /\ NewStep.n = cur.n /\ NewStep.samples \subseteq Scheduling
        /\ NewStep.writes = NewWrites /\ NewStep.retr = Retrieves
        /\ NewStep.puts = NewPuts /\ NewStep.exec = "no" /\ NewStep.recv = {}
        /\ NewStep.send = {} /\ NewStep.bad = {}
    BY NewStepIs DEF Base
  <1>10. ASSUME NEW k \in 1..m
         PROVE  /\ \A w \in pipe'[k].writes : pipe'[k].n[w.kv[1]] > 0 /\ InPlace(w, k)'
                /\ \A w \in pipe'[k].puts : pipe'[k].n[w.kv[1]] > 0
                /\ \A v, w \in pipe'[k].writes : v.block = w.block => v = w
                /\ \A r \in Reqs : pipe'[k].n[r] > 0 => st'[r] \notin Fresher
                /\ \A r \in pipe'[k].samples : pipe'[k].n[r] > 0
                /\ \A o, p \in pipe'[k].retr : o.req = p.req => o = p
                /\ pipe'[k].exec # "done" =>
                    /\ \A j \in 1..m : j > k => pipe'[j].exec = "no"
                    /\ pipe'[k].recv = {} /\ pipe'[k].send = {} /\ pipe'[k].bad = {}
    <2>1. CASE k = m
      <3>1. pipe'[k] = NewStep BY <1>1, <2>1
      <3>2. ASSUME NEW w \in NewWrites PROVE cur.n[w.kv[1]] > 0 /\ InPlace(w, k)'
        <4>1. w.kv[1] \in Scheduling /\ w.kv[2] \in Positions(w.kv[1]) /\ w.block = table[w.kv[1]][w.kv[2]]
          BY NewWritesAre DEF Base
        <4>2. cur.n[w.kv[1]] > 0 /\ w.kv[2] \in DOMAIN table[w.kv[1]]
          BY <4>1, ScheduledReq DEF Base, Scheduling
        <4> QED BY <4>1, <4>2, <1>3 DEF InPlace, SameBlocks
      <3>3. \A p \in NewPuts : p.kv[1] \in Scheduling BY NewPutsAre DEF Base
      <3>4. \A r \in Scheduling : cur.n[r] > 0 BY DEF Scheduling
      <3>5. \A r \in Reqs : cur.n[r] > 0 => st[r] = "running" BY CurOf DEF Base
      <3>6. \A o, p \in Retrieves : o.req = p.req => o = p BY RetrievesAre DEF Base, Types
      <3>7. \A j \in 1..m : ~(j > k) BY <1>8, <2>1
      <3> HIDE DEF m
      <3> QED BY <1>2, <1>9, <3>1, <3>2, <3>3, <3>4, <3>5, <3>6, <3>7, NewWritesApart DEF Fresher
    <2>2. CASE k # m
      <3>1. k \in DOMAIN pipe /\ pipe'[k] = pipe[k] /\ k \in Nat BY <1>1, <1>8, <2>2
      <3>2. \A i \in 1..k : pipe'[i] = pipe[i] BY <1>1, <1>8, <3>1
      <3>3. Upto(k)' = Upto(k) BY <3>1, <3>2, UptoSame
      <3>4. ASSUME NEW w \in pipe[k].writes PROVE pipe[k].n[w.kv[1]] > 0 /\ InPlace(w, k)'
        <4>1. pipe[k].n[w.kv[1]] > 0 /\ InPlace(w, k) BY <3>1 DEF Base, StepInv
        <4> QED BY <4>1, <3>3, <1>3 DEF InPlace, SameBlocks
      <3>5. /\ \A w \in pipe[k].puts : pipe[k].n[w.kv[1]] > 0
            /\ \A v, w \in pipe[k].writes : v.block = w.block => v = w
            /\ \A r \in Reqs : pipe[k].n[r] > 0 => st[r] \notin Fresher
            /\ \A r \in pipe[k].samples : pipe[k].n[r] > 0
            /\ \A o, p \in pipe[k].retr : o.req = p.req => o = p
            /\ pipe[k].exec # "done" =>
                    /\ \A j \in DOMAIN pipe : j > k => pipe[j].exec = "no"
                    /\ pipe[k].recv = {} /\ pipe[k].send = {} /\ pipe[k].bad = {}
        BY <3>1 DEF Base, StepInv
      <3>6. \A j \in 1..m : j \in DOMAIN pipe \/ j = m BY <1>1, <1>8
      <3> HIDE DEF m
      <3>7. pipe'[m].exec = "no" BY <1>1, <1>9 DEF m
      <3>8. pipe[k].exec # "done" => \A j \in 1..m : j > k => pipe'[j].exec = "no"
        BY <3>5, <3>6, <3>7, <1>1
      <3> QED BY <1>2, <3>1, <3>4, <3>5, <3>8
    <2> QED BY <2>1, <2>2
  <1>11. StepInv' BY <1>1, <1>10 DEF StepInv
  <1> QED BY <1>1, <1>4, <1>6, <1>7, <1>11 DEF Base

-----------------------------------------------------------------------------
(* Requests come, end and are aborted.                                       *)

(* A sequence over S has its values in S.                                    *)
LEMMA SeqIn == ASSUME NEW S, NEW s \in Seq(S) PROVE Range(s) \subseteq S
BY LenProperties, ElementOfSeq DEF Range

(* The fields of a tracker that was dropped.                                 *)
LEMMA NoTrackerIs ==
    NoTracker \in TrackerT /\ NoTracker.s = "none" /\ NoTracker.blocks = << >> /\ NoTracker.sched = 0
    /\ NoTracker.hit = 0
  <1> DEFINE e == << >>
  <1>1. e \in Seq(Blocks) OBVIOUS
  <1>2. Fresh = [s |-> "prefetching", blocks |-> e, stored |-> 0, sched |-> 0, hit |-> 0] BY DEF Fresh
  <1> HIDE DEF e
  <1>3. NoTracker = [s |-> "none", blocks |-> e, stored |-> 0, sched |-> 0, hit |-> 0]
    BY <1>2 DEF NoTracker
  <1>4. NoTracker \in TrackerT BY <1>1, <1>3 DEF TrackerT
  <1> QED BY <1>3, <1>4 DEF e

(* When requests end, the queues match the statuses again.                  *)
LEMMA FinishQueues ==
    ASSUME Types, QueueInv, cur = Idle, cur' = cur, NEW R, R \subseteq Reqs, Finish(R),
           \A r \in Reqs : IF r \in R THEN st'[r] \in Over
                           ELSE st'[r] = st[r] \/ (st[r] \in Over /\ st'[r] \in Over)
    PROVE  /\ QueueInv' /\ QueueTypes'
           /\ inflight' \subseteq Reqs /\ finIds' \subseteq Reqs /\ finIds' = finIds \cup R
           /\ trk' \in [Reqs -> TrackerT]
           /\ \A r \in Reqs : trk'[r] = IF r \in R THEN NoTracker ELSE trk[r]
  <1>1. waiting \in Seq(Reqs) /\ skipped \in Seq(Reqs) /\ running \in Seq(Reqs)
    BY DEF Types, QueueTypes
  <1>2. /\ waiting' = Without(waiting, R) /\ skipped' = Without(skipped, R)
        /\ running' = Without(running, R) /\ inflight' = inflight \ R /\ finIds' = finIds \cup R
        /\ trk' = [r \in Reqs |-> IF r \in R THEN NoTracker ELSE trk[r]]
    BY DEF Finish
  <1>3. /\ waiting' \in Seq(Reqs) /\ Range(waiting') = Range(waiting) \ R /\ IsInjective(waiting')
        /\ skipped' \in Seq(Reqs) /\ Range(skipped') = Range(skipped) \ R /\ IsInjective(skipped')
        /\ running' \in Seq(Reqs) /\ Range(running') = Range(running) \ R /\ IsInjective(running')
    BY <1>1, <1>2, TakenOut DEF QueueInv
  <1>4. cur.skip = << >> /\ Range(<< >>) = {} BY IdleIs DEF Range
  <1>5. /\ \A r \in Reqs : r \in Range(waiting) \cup Range(skipped) <=> st[r] \in Waits
        /\ \A r \in Reqs : r \in Range(running) <=> st[r] = "running"
        /\ \A r \in Range(waiting) : st[r] # "remote"
        /\ Range(waiting) \subseteq Reqs /\ Range(skipped) \subseteq Reqs /\ Range(running) \subseteq Reqs
    BY <1>1, <1>4, SeqIn DEF QueueInv
  <1>6. Range(waiting') \cup Range(skipped') \cup Range(cur'.skip) = {r \in Reqs : st'[r] \in Waits}
    BY <1>3, <1>4, <1>5 DEF Over, Waits
  <1>7. Range(running') = {r \in Reqs : st'[r] = "running"}
    BY <1>3, <1>5 DEF Over
  <1>8. \A r \in Range(waiting') : st'[r] # "remote" BY <1>3, <1>5 DEF Over
  <1>9. IsInjective(cur'.skip) BY DEF QueueInv
  <1>10. QueueInv' BY <1>3, <1>4, <1>6, <1>7, <1>8, <1>9 DEF QueueInv
  <1>11. trk \in [Reqs -> TrackerT] /\ inflight \subseteq Reqs /\ finIds \subseteq Reqs
    BY DEF Types, TrkTypes, DoneTypes
  <1>12. trk' \in [Reqs -> TrackerT] BY <1>2, <1>11, NoTrackerIs
  <1>13. QueueTypes' BY <1>3 DEF QueueTypes
  <1>14. inflight' \subseteq Reqs /\ finIds' \subseteq Reqs BY <1>2, <1>11
  <1> QED BY <1>2, <1>10, <1>12, <1>13, <1>14

(* The step being scheduled is consistent when there is none.                *)
LEMMA IdleCur ==
    ASSUME cur' = Idle PROVE CurInv'
  <1>1. \A r \in Reqs : cur'.n[r] = 0 /\ cur'.got[r] = << >> BY ZeroIs, IdleIs
  <1> QED BY <1>1, IdleIs DEF CurInv

(* Base, when a request arrives.                                             *)
LEMMA AddBase ==
    ASSUME Base, NEW r \in Reqs, Add(r)
    PROVE  /\ st[r] = "new" /\ st'[r] = "waiting" /\ \A q \in Reqs : q # r => st'[q] = st[q]
           /\ cur = Idle
           /\ UNCHANGED <<cacheVars, skipped, running, computed, out, place, chunk, hurt, blockVars,
                          doneVars, pipe, cur, aborts, seen>>
           /\ Base'
  <1>1. /\ st[r] = "new" /\ st' = [st EXCEPT ![r] = "waiting"] /\ waiting' = Append(waiting, r)
        /\ cur = Idle
        /\ UNCHANGED <<cacheVars, skipped, running, computed, out, place, chunk, hurt, blockVars,
                       doneVars, pipe, cur, aborts, seen>>
    BY DEF Add, Up
  <1>2. st \in [Reqs -> Sts] /\ waiting \in Seq(Reqs) BY DEF Base, Types, ReqTypes, QueueTypes
  <1>3. st'[r] = "waiting" /\ (\A q \in Reqs : q # r => st'[q] = st[q]) /\ st' \in [Reqs -> Sts]
    BY <1>1, <1>2 DEF Sts
  <1>4. r \notin Range(waiting) /\ r \notin Range(skipped) /\ r \notin Range(cur.skip)
    BY <1>1 DEF Base, QueueInv, Waits
  <1>5. /\ waiting' \in Seq(Reqs) /\ Range(waiting') = Range(waiting) \cup {r}
        /\ IsInjective(waiting')
    BY <1>1, <1>2, <1>4, AddedTo DEF Base, QueueInv
  <1>6. QueueInv'
    <2>1. Range(waiting') \cup Range(skipped') \cup Range(cur'.skip) = {q \in Reqs : st'[q] \in Waits}
      BY <1>1, <1>3, <1>5 DEF Base, QueueInv, Waits
    <2>2. Range(running') = {q \in Reqs : st'[q] = "running"} BY <1>1, <1>3 DEF Base, QueueInv
    <2>3. \A q \in Range(waiting') : st'[q] # "remote"
      <3>1. Range(waiting) \subseteq Reqs BY <1>2, SeqIn
      <3> QED BY <1>3, <1>5, <3>1 DEF Base, QueueInv
    <2> QED BY <1>1, <1>4, <1>5, <2>1, <2>2, <2>3 DEF Base, QueueInv
  <1>7. trkVars' = trkVars /\ workVars' = workVars /\ pipe' = pipe /\ doneVars' = doneVars
        /\ table' = table /\ free' = free /\ deferred' = deferred /\ content' = content
    BY <1>1 DEF cacheVars, blockVars
  <1>8. Types'
    <2>1. QueueTypes' BY <1>1, <1>5 DEF Base, Types, QueueTypes
    <2>2. ReqTypes' BY <1>1, <1>3 DEF Base, Types, ReqTypes
    <2>3. CurTypes' BY <1>1, CurTypesSame DEF Base, Types
    <2> QED BY <1>7, <2>1, <2>2, <2>3, TrkTypesSame, WorkTypesSame, BlockTypesSame, DoneTypesSame,
               PipeTypesSame DEF Base, Types
  <1>9. CurInv' BY <1>1, IdleCur
  <1>10. BlockInv' BY <1>7, BlockSame DEF Base, SameBlocks
  <1>11. StepInv'
    <2>1. \A q \in Reqs : st[q] \notin Fresher => st'[q] \notin Fresher /\ Stays(q)
      BY <1>1, <1>3, <1>7 DEF Fresher, Stays
    <2> QED BY <1>7, <2>1, StepFrame DEF Base, Types
  <1> QED BY <1>1, <1>3, <1>6, <1>8, <1>9, <1>10, <1>11 DEF Base

(* Base, when a request is aborted.                                          *)
LEMMA AbortBase ==
    ASSUME Base, NEW r \in Reqs, Abort(r)
    PROVE  /\ st[r] \in {"waiting", "preempted", "remote", "running"}
           /\ st'[r] = "finished" /\ \A q \in Reqs : q # r => st'[q] = st[q]
           /\ cur = Idle /\ ~fatal /\ Len(pipe) = Depth => Head(pipe).exec = "done"
           /\ finIds' = finIds \cup {r}
           /\ \A q \in Reqs : trk'[q] = IF q = r THEN NoTracker ELSE trk[q]
           /\ recvDone' = recvDone \ {r} /\ recvFailed' = recvFailed \ {r}
           /\ seen' = IF Loading(r) THEN seen \cup {"stray"} ELSE seen
           /\ UNCHANGED <<pending, result, job, lookupOk, workVars, faults, computed, out, place, chunk,
                          hurt, blockVars, pipe, cur>>
           /\ Base'
  <1>1. /\ st[r] \in {"waiting", "preempted", "remote", "running"}
        /\ st' = [st EXCEPT ![r] = "finished"] /\ Finish({r})
        /\ cur = Idle /\ ~fatal /\ (Len(pipe) = Depth => Head(pipe).exec = "done")
        /\ recvDone' = recvDone \ {r} /\ recvFailed' = recvFailed \ {r}
        /\ seen' = IF Loading(r) THEN seen \cup {"stray"} ELSE seen
        /\ UNCHANGED <<pending, result, job, lookupOk, workVars, faults, computed, out, place, chunk,
                       hurt, blockVars, pipe, cur>>
    BY DEF Abort, Up
  <1>2. st \in [Reqs -> Sts] BY DEF Base, Types, ReqTypes
  <1>3. st'[r] = "finished" /\ (\A q \in Reqs : q # r => st'[q] = st[q]) /\ st' \in [Reqs -> Sts]
    BY <1>1, <1>2 DEF Sts
  <1> DEFINE R == {r}
  <1>4. \A q \in Reqs : IF q \in R THEN st'[q] \in Over
                        ELSE st'[q] = st[q] \/ (st[q] \in Over /\ st'[q] \in Over)
    BY <1>3 DEF Over
  <1>5. R \subseteq Reqs /\ Finish(R) BY <1>1
  <1> HIDE DEF R
  <1>6. /\ QueueInv' /\ QueueTypes'
        /\ inflight' \subseteq Reqs /\ finIds' \subseteq Reqs /\ finIds' = finIds \cup R
        /\ trk' \in [Reqs -> TrackerT]
        /\ \A q \in Reqs : trk'[q] = IF q \in R THEN NoTracker ELSE trk[q]
    BY <1>1, <1>4, <1>5, FinishQueues DEF Base
  <1>7. /\ workVars' = workVars /\ pipe' = pipe /\ table' = table /\ free' = free
        /\ deferred' = deferred /\ content' = content
    BY <1>1 DEF blockVars
  <1>8. Types'
    <2>1. TrkTypes' BY <1>1, <1>6 DEF Base, Types, TrkTypes
    <2>2. ReqTypes' BY <1>1, <1>3 DEF Base, Types, ReqTypes
    <2>3. CurTypes' BY <1>1, CurTypesSame DEF Base, Types
    <2>4. DoneTypes' BY <1>1, <1>6 DEF Base, Types, DoneTypes
    <2> QED BY <1>6, <1>7, <2>1, <2>2, <2>3, <2>4, WorkTypesSame, BlockTypesSame,
               PipeTypesSame DEF Base, Types
  <1>9. CurInv' BY <1>1, IdleCur
  <1>10. BlockInv' BY <1>7, BlockSame DEF Base, SameBlocks
  <1>11. StepInv'
    <2>1. \A q \in Reqs : st[q] \notin Fresher => st'[q] \notin Fresher /\ Stays(q)
      BY <1>3, <1>7 DEF Fresher, Stays
    <2> QED BY <1>7, <2>1, StepFrame DEF Base, Types
  <1> QED BY <1>1, <1>3, <1>6, <1>8, <1>9, <1>10, <1>11 DEF Base, R

-----------------------------------------------------------------------------
(* The output of a step is processed.                                        *)

(* The requests that get a token, and those that leave, when a step is       *)
(* processed.                                                                *)
GotBy(s) == {r \in s.samples : st[r] \notin Over /\ ~(r \in Recovered(s) /\ st[r] = "running")}

LeftBy(s, over) ==
    {r \in s.recv \cup s.send : st[r] = "finished"} \cup {r \in over : r \in s.recv \cup s.send}

(* What update_from_output does with a step s, ending the requests over.    *)
UpdatedAs(s, over) ==
    /\ s = Head(pipe) /\ s.exec = "done" /\ pipe # << >> /\ cur = Idle /\ ~fatal
    /\ over \subseteq GotBy(s) /\ \A r \in GotBy(s) : out[r] + 1 = MaxNew => r \in over
    /\ Finish(over)
    /\ st' = [r \in Reqs |-> IF r \in LeftBy(s, over) THEN "gone"
                             ELSE IF r \in over THEN "finished" ELSE st[r]]
    /\ Release(LeftBy(s, over), Tail(pipe), free \cup Drained(s).blocks, Drained(s).rest)
    /\ out' = [r \in Reqs |-> IF r \in GotBy(s) THEN out[r] + 1 ELSE out[r]]
    /\ place' = [r \in Reqs |-> IF r \in GotBy(s) /\ Depth > 1 THEN place[r] - 1 ELSE place[r]]
    /\ computed' = [r \in Reqs |->
           IF r \in Recovered(s) THEN Min(Invalid(r, s)) - 1 ELSE computed[r]]
    /\ recvFailed' = recvFailed \cup {r \in Recovered(s) : st[r] = "remote"}
    /\ recvDone' = recvDone \cup {r \in s.recv : st[r] = "remote"}
    /\ pipe' = Tail(pipe)
    /\ UNCHANGED <<pending, result, job, lookupOk, workVars, faults, chunk, hurt, content, cur,
                   aborts, seen>>

(* What Update does.                                                         *)
LEMMA UpdateIs ==
    ASSUME Update PROVE \E over : UpdatedAs(Head(pipe), over)
  <1> DEFINE s == Head(pipe)
  <1>1. GotBy(s) = {r \in s.samples : st[r] \notin {"finished", "gone"}
                                       /\ ~(r \in Recovered(s) /\ st[r] = "running")}
    BY DEF GotBy, Over
  <1> DEFINE got == {r \in s.samples : st[r] \notin {"finished", "gone"}
                                       /\ ~(r \in Recovered(s) /\ st[r] = "running")}
             ended == {r \in s.recv \cup s.send : st[r] = "finished"}
  <1>a. \E stop \in SUBSET got :
          LET over == {r \in got : r \in stop \/ out[r] + 1 = MaxNew}
              gone == ended \cup {r \in over : r \in s.recv \cup s.send}
          IN /\ Finish(over)
             /\ st' = [r \in Reqs |-> IF r \in gone THEN "gone"
                                      ELSE IF r \in over THEN "finished" ELSE st[r]]
             /\ Release(gone, Tail(pipe), free \cup Drained(s).blocks, Drained(s).rest)
    BY DEF Update
  <1>b. got = GotBy(s) BY <1>1
  <1> HIDE DEF got
  <1>2. PICK stop \in SUBSET GotBy(s) :
          LET over == {r \in GotBy(s) : r \in stop \/ out[r] + 1 = MaxNew}
              gone == LeftBy(s, over)
          IN /\ Finish(over)
             /\ st' = [r \in Reqs |-> IF r \in gone THEN "gone"
                                      ELSE IF r \in over THEN "finished" ELSE st[r]]
             /\ Release(gone, Tail(pipe), free \cup Drained(s).blocks, Drained(s).rest)
    BY <1>a, <1>b DEF LeftBy
  <1> DEFINE over == {r \in GotBy(s) : r \in stop \/ out[r] + 1 = MaxNew}
  <1>3. over \subseteq GotBy(s) /\ \A r \in GotBy(s) : out[r] + 1 = MaxNew => r \in over OBVIOUS
  <1>4. /\ Finish(over)
        /\ st' = [r \in Reqs |-> IF r \in LeftBy(s, over) THEN "gone"
                                 ELSE IF r \in over THEN "finished" ELSE st[r]]
        /\ Release(LeftBy(s, over), Tail(pipe), free \cup Drained(s).blocks, Drained(s).rest)
    BY <1>2
  <1>5. /\ s.exec = "done" /\ pipe # << >> /\ cur = Idle /\ ~fatal
        /\ out' = [r \in Reqs |-> IF r \in GotBy(s) THEN out[r] + 1 ELSE out[r]]
        /\ place' = [r \in Reqs |-> IF r \in GotBy(s) /\ Depth > 1 THEN place[r] - 1 ELSE place[r]]
        /\ computed' = [r \in Reqs |->
               IF r \in Recovered(s) THEN Min(Invalid(r, s)) - 1 ELSE computed[r]]
        /\ recvFailed' = recvFailed \cup {r \in Recovered(s) : st[r] = "remote"}
        /\ recvDone' = recvDone \cup {r \in s.recv : st[r] = "remote"}
        /\ pipe' = Tail(pipe)
        /\ UNCHANGED <<pending, result, job, lookupOk, workVars, faults, chunk, hurt, content, cur,
                       aborts, seen>>
    BY <1>1 DEF Update, Up
  <1> HIDE DEF over
  <1>6. UpdatedAs(s, over) BY <1>3, <1>4, <1>5 DEF UpdatedAs
  <1> QED BY <1>6

(* The steps that remain when the first was processed.                      *)
LEMMA PipeTail ==
    ASSUME EngineAssumption, PipeTypes, pipe # << >>
    PROVE  /\ 1 \in DOMAIN pipe /\ Head(pipe) = pipe[1] /\ pipe[1] \in StepT
           /\ Tail(pipe) \in Seq(StepT) /\ Len(Tail(pipe)) = Len(pipe) - 1 /\ Len(Tail(pipe)) <= Depth
           /\ DOMAIN Tail(pipe) \in {{}, {1}}
           /\ 1 \in DOMAIN Tail(pipe) => /\ Tail(pipe)[1] = pipe[2] /\ DOMAIN pipe = {1, 2} /\ Depth = 2
                                         /\ pipe[2] \in StepT /\ Len(pipe) = 2
           /\ 1 \notin DOMAIN Tail(pipe) => DOMAIN pipe = {1} /\ Len(pipe) = 1
  <1>1. pipe \in Seq(StepT) BY DEF PipeTypes
  <1>2. /\ Len(pipe) \in {0, 1, 2} /\ Len(pipe) <= Depth /\ DOMAIN pipe = 1..Len(pipe)
        /\ Len(pipe) = 0 => pipe = << >>
        /\ Len(pipe) = 1 => DOMAIN pipe = {1}
        /\ Len(pipe) = 2 => DOMAIN pipe = {1, 2} /\ Depth = 2
    BY PipeLen
  <1>3. Len(pipe) \in {1, 2} BY <1>2
  <1>4. /\ Tail(pipe) \in Seq(StepT) /\ Len(Tail(pipe)) = Len(pipe) - 1
        /\ \A i \in 1..Len(Tail(pipe)) : Tail(pipe)[i] = pipe[i + 1]
    BY <1>1, HeadTailProperties
  <1>5. DOMAIN Tail(pipe) = 1..Len(pipe) - 1 BY <1>4, LenProperties
  <1>6. Head(pipe) = pipe[1] BY <1>1
  <1>7. \A k \in DOMAIN pipe : pipe[k] \in StepT BY PipeIs
  <1>8. CASE Len(pipe) = 1
    <2>1. DOMAIN Tail(pipe) = {} BY <1>5, <1>8
    <2>2. Len(pipe) - 1 <= Depth BY <1>8 DEF EngineAssumption
    <2> QED BY <1>2, <1>4, <1>6, <1>7, <1>8, <2>1, <2>2
  <1>9. CASE Len(pipe) = 2
    <2>0. 1..2 - 1 = {1} OBVIOUS
    <2>1. DOMAIN Tail(pipe) = {1} BY <1>5, <1>9, <2>0
    <2>4. Len(Tail(pipe)) = 1 /\ 1 \in 1..1 BY <1>4, <1>9
    <2>5. 1 \in 1..Len(Tail(pipe)) /\ 1 + 1 = 2 BY <2>4
    <2>2. Tail(pipe)[1] = pipe[2] BY <1>4, <2>5
    <2>3. Len(pipe) - 1 <= Depth BY <1>9 DEF EngineAssumption
    <2> QED BY <1>2, <1>4, <1>6, <1>7, <1>9, <2>1, <2>2, <2>3
  <1> QED BY <1>3, <1>8, <1>9

(* The blocks of a request before the first that did not load.              *)
LEMMA RecoveredIs ==
    ASSUME Types, QueueInv, NEW s \in StepT, NEW r \in Recovered(s)
    PROVE  LET m == Min(Invalid(r, s)) IN
           /\ r \in Reqs /\ st[r] \in {"running", "remote"}
           /\ m \in DOMAIN table[r] /\ m \in Nat \ {0} /\ m - 1 \in Nat /\ m <= computed[r] - s.n[r]
           /\ m <= computed[r] /\ table[r][m] \in s.bad
           /\ \A i \in DOMAIN table[r] : i < m => table[r][i] \notin s.bad
  <1>1. Invalid(r, s) # {} /\ r \in Range(running) \cup {q \in Range(skipped) : st[q] = "remote"}
    BY DEF Recovered
  <1>2. r \in Reqs BY <1>1, SeqIn DEF Types, QueueTypes
  <1>3. table[r] \in Seq(Blocks) /\ DOMAIN table[r] = 1..Len(table[r]) /\ Len(table[r]) \in Nat
    BY <1>2, LenProperties DEF Types, BlockTypes
  <1>4. Invalid(r, s) \in SUBSET Nat BY <1>3 DEF Invalid
  <1> DEFINE m == Min(Invalid(r, s))
  <1>5. m \in Invalid(r, s) /\ \A i \in Invalid(r, s) : m <= i BY <1>1, <1>4, LeastOf
  <1>6. computed[r] \in Nat /\ s.n[r] \in Nat BY <1>2, StepFields DEF Types, ReqTypes
  <1> HIDE DEF m
  <1>7. m \in DOMAIN table[r] /\ m <= computed[r] - s.n[r] /\ table[r][m] \in s.bad
    BY <1>5 DEF Invalid
  <1>8. m \in Nat \ {0} /\ m - 1 \in Nat /\ m <= computed[r] BY <1>3, <1>6, <1>7
  <1>9. ASSUME NEW i \in DOMAIN table[r], i < m PROVE table[r][i] \notin s.bad
    <2>1. i \in Nat BY <1>3
    <2>2. i <= computed[r] - s.n[r] BY <2>1, <1>6, <1>7, <1>8, <1>9
    <2>3. i \notin Invalid(r, s) BY <1>5, <1>8, <1>9, <2>1
    <2> QED BY <2>2, <2>3 DEF Invalid
  <1>10. st[r] \in {"running", "remote"} BY <1>1 DEF QueueInv
  <1> QED BY <1>2, <1>7, <1>8, <1>9, <1>10 DEF m

(* Whose blocks a step that is processed sets free.                         *)
LEMMA LeftAre ==
    ASSUME Types, NEW s \in StepT, NEW over, over \subseteq GotBy(s)
    PROVE  /\ over \subseteq Reqs /\ LeftBy(s, over) \subseteq Reqs /\ GotBy(s) \subseteq s.samples
           /\ GotBy(s) \subseteq Reqs /\ LeftBy(s, over) \subseteq s.recv \cup s.send
           /\ \A r \in LeftBy(s, over) : st[r] = "finished" \/ r \in over
           /\ \A r \in over : st[r] \notin Over /\ ~(r \in Recovered(s) /\ st[r] = "running")
BY StepFields DEF LeftBy, GotBy

(* Processing a step keeps the types, the queues and the partition of the    *)
(* blocks.                                                                   *)
LEMMA UpdatedTypes ==
    ASSUME CacheAssumption, EngineAssumption, Base, PlaceInv, NEW over, NEW s, UpdatedAs(s, over)
    PROVE  /\ s = pipe[1] /\ s \in StepT /\ s.exec = "done" /\ 1 \in DOMAIN pipe /\ cur = Idle /\ ~fatal
           /\ \A r \in Reqs : st'[r] = IF r \in LeftBy(s, over) THEN "gone"
                                       ELSE IF r \in over THEN "finished" ELSE st[r]
           /\ \A r \in Reqs : table'[r] = IF r \in LeftBy(s, over) THEN << >> ELSE table[r]
           /\ \A r \in Reqs : trk'[r] = IF r \in over THEN NoTracker ELSE trk[r]
           /\ finIds' = finIds \cup over
           /\ Types' /\ QueueInv' /\ CurInv' /\ BlockInv' /\ Drained(s).rest \subseteq deferred'
           /\ Later(LeftBy(s, over), Tail(pipe)) # {} => Deferral(LeftBy(s, over), Tail(pipe)) \in deferred'
  <1>1. /\ s = Head(pipe) /\ s.exec = "done" /\ pipe # << >> /\ cur = Idle /\ ~fatal
        /\ over \subseteq GotBy(s)
        /\ Finish(over)
        /\ st' = [r \in Reqs |-> IF r \in LeftBy(s, over) THEN "gone"
                                 ELSE IF r \in over THEN "finished" ELSE st[r]]
        /\ Release(LeftBy(s, over), Tail(pipe), free \cup Drained(s).blocks, Drained(s).rest)
        /\ out' = [r \in Reqs |-> IF r \in GotBy(s) THEN out[r] + 1 ELSE out[r]]
        /\ place' = [r \in Reqs |-> IF r \in GotBy(s) /\ Depth > 1 THEN place[r] - 1 ELSE place[r]]
        /\ computed' = [r \in Reqs |->
               IF r \in Recovered(s) THEN Min(Invalid(r, s)) - 1 ELSE computed[r]]
        /\ recvFailed' = recvFailed \cup {r \in Recovered(s) : st[r] = "remote"}
        /\ recvDone' = recvDone \cup {r \in s.recv : st[r] = "remote"}
        /\ pipe' = Tail(pipe)
        /\ UNCHANGED <<pending, result, job, lookupOk, workVars, faults, chunk, hurt, content, cur,
                       aborts, seen>>
    BY DEF UpdatedAs
  <1>2. /\ 1 \in DOMAIN pipe /\ s = pipe[1] /\ s \in StepT
        /\ Tail(pipe) \in Seq(StepT) /\ Len(Tail(pipe)) <= Depth
        /\ DOMAIN Tail(pipe) \in {{}, {1}}
        /\ 1 \in DOMAIN Tail(pipe) => Depth = 2
    BY <1>1, PipeTail DEF Base, Types
  <1>3. /\ over \subseteq Reqs /\ LeftBy(s, over) \subseteq Reqs /\ GotBy(s) \subseteq Reqs
        /\ \A r \in LeftBy(s, over) : st[r] = "finished" \/ r \in over
    BY <1>1, <1>2, LeftAre DEF Base
  <1>4. \A r \in Reqs : st'[r] = IF r \in LeftBy(s, over) THEN "gone"
                                 ELSE IF r \in over THEN "finished" ELSE st[r]
    BY <1>1
  <1>5. \A r \in Reqs : IF r \in over THEN st'[r] \in Over
                        ELSE st'[r] = st[r] \/ (st[r] \in Over /\ st'[r] \in Over)
    BY <1>3, <1>4 DEF Over
  <1>6. /\ QueueInv' /\ QueueTypes'
        /\ inflight' \subseteq Reqs /\ finIds' \subseteq Reqs /\ finIds' = finIds \cup over
        /\ trk' \in [Reqs -> TrackerT]
        /\ \A r \in Reqs : trk'[r] = IF r \in over THEN NoTracker ELSE trk[r]
    BY <1>1, <1>3, <1>5, FinishQueues DEF Base
  <1>7. TrkTypes' BY <1>1, <1>6 DEF Base, Types, TrkTypes
  <1>8. WorkTypes' BY <1>1, WorkTypesSame DEF Base, Types
  <1>9. ReqTypes'
    <2>1. st' \in [Reqs -> Sts] BY <1>1 DEF Base, Types, ReqTypes, Sts
    <2>2. computed' \in [Reqs -> Nat]
      <3>1. \A r \in Reqs : r \in Recovered(s) => Min(Invalid(r, s)) - 1 \in Nat
        BY <1>2, RecoveredIs DEF Base
      <3>2. \A r \in Reqs : computed[r] \in Nat BY DEF Base, Types, ReqTypes
      <3> QED BY <1>1, <3>1, <3>2
    <2>3. \A r \in Reqs : out[r] \in Nat /\ place[r] \in Nat BY DEF Base, Types, ReqTypes
    <2>4. out' \in [Reqs -> Nat] BY <1>1, <2>3
    <2>5. ASSUME NEW r \in GotBy(s), Depth > 1 PROVE place[r] - 1 \in Nat
      <3>1. r \in Reqs /\ r \in s.samples /\ Depth = 2 BY <1>3, <2>5 DEF GotBy, EngineAssumption
      <3>2. Sampled(r, 1) BY <1>2, <3>1 DEF Sampled
      <3>3. place[r] >= Count(r) BY <3>1 DEF PlaceInv, PlaceOf
      <3>4. Count(r) \in {1, 2} BY <3>2 DEF Count
      <3> QED BY <2>3, <3>1, <3>3, <3>4
    <2>6. place' \in [Reqs -> Nat] BY <1>1, <2>3, <2>5
    <2> QED BY <1>1, <2>1, <2>2, <2>4, <2>6 DEF Base, Types, ReqTypes
  <1>10. DoneTypes' BY <1>1, <1>2, <1>6, StepFields, SeqIn DEF Base, Types, DoneTypes, ReqTypes, QueueTypes, Recovered
  <1>11. PipeTypes' BY <1>1, <1>2 DEF PipeTypes
  <1>12. CurTypes' BY <1>1, CurTypesSame DEF Base, Types
  <1>13. Busy(Tail(pipe)) \in Nat /\ (Later(LeftBy(s, over), Tail(pipe)) # {} => Busy(Tail(pipe)) > 0)
    <2>1. Busy(Tail(pipe)) = IF 1 \in DOMAIN Tail(pipe) THEN Wrote(Tail(pipe)[1]) ELSE 0
      <3> DEFINE p == Tail(pipe)
      <3>1. DOMAIN p \in {{}, {1}} BY <1>2
      <3> HIDE DEF p
      <3>2. Busy(p) = IF 1 \in DOMAIN p THEN Wrote(p[1]) ELSE 0 BY <3>1, BusyIs
      <3> QED BY <3>2 DEF p
    <2>2. ASSUME NEW r \in Later(LeftBy(s, over), Tail(pipe))
          PROVE  1 \in DOMAIN Tail(pipe) /\ Tail(pipe)[1].n # Zero
      <3>1. r \in Reqs /\ \E i \in DOMAIN Tail(pipe) : Tail(pipe)[i].n[r] > 0 BY <1>3 DEF Later
      <3>2. 1 \in DOMAIN Tail(pipe) /\ Tail(pipe)[1].n[r] > 0 BY <1>2, <3>1
      <3> QED BY <3>1, <3>2, ZeroIs
    <2> QED BY <2>1, <2>2 DEF Wrote
  <1>14. /\ Drained(s).rest \subseteq DeferT /\ free \cup Drained(s).blocks \subseteq Blocks
         /\ Partition(table, free \cup Drained(s).blocks, Drained(s).rest)
    BY DrainedIs DEF Base, Types
  <1>15. /\ BlockTypes' /\ BlockInv'
         /\ \A r \in Reqs : table'[r] = IF r \in LeftBy(s, over) THEN << >> ELSE table[r]
         /\ Drained(s).rest \subseteq deferred'
         /\ Later(LeftBy(s, over), Tail(pipe)) # {} => Deferral(LeftBy(s, over), Tail(pipe)) \in deferred'
    <2> DEFINE R == LeftBy(s, over)  p == Tail(pipe)  fr == free \cup Drained(s).blocks  df == Drained(s).rest
    <2>1. /\ R \subseteq Reqs /\ fr \subseteq Blocks /\ df \subseteq DeferT /\ Partition(table, fr, df)
          /\ Release(R, p, fr, df) /\ Busy(p) \in Nat /\ (Later(R, p) # {} => Busy(p) > 0) /\ BlockTypes
      BY <1>1, <1>3, <1>13, <1>14 DEF Base, Types
    <2> HIDE DEF R, p, fr, df
    <2>2. /\ BlockTypes' /\ BlockInv'
          /\ \A r \in Reqs : table'[r] = IF r \in R THEN << >> ELSE table[r]
          /\ df \subseteq deferred'
          /\ Later(R, p) # {} => Deferral(R, p) \in deferred'
      BY <2>1, ReleaseIs
    <2> QED BY <2>2 DEF R, p, fr, df
  <1>16. Types' BY <1>6, <1>7, <1>8, <1>9, <1>10, <1>11, <1>12, <1>15 DEF Types
  <1>17. CurInv' BY <1>1, IdleCur
  <1> QED BY <1>1, <1>2, <1>4, <1>6, <1>15, <1>16, <1>17

(* What the remaining step writes is still there, or waits for it.          *)
(* What a step may write stays with its request, or waits for the step.     *)
LEMMA UpdatedAt ==
    ASSUME CacheAssumption, EngineAssumption, Base, PlaceInv, NEW over, NEW s, UpdatedAs(s, over),
           1 \in DOMAIN pipe', NEW w \in WriteT, pipe[2].n[w.kv[1]] > 0, InPlace(w, 2)
    PROVE  InPlace(w, 1)'
  <1>1. /\ s = pipe[1] /\ s \in StepT /\ s.exec = "done" /\ 1 \in DOMAIN pipe
        /\ \A r \in Reqs : st'[r] = IF r \in LeftBy(s, over) THEN "gone"
                                     ELSE IF r \in over THEN "finished" ELSE st[r]
        /\ \A r \in Reqs : table'[r] = IF r \in LeftBy(s, over) THEN << >> ELSE table[r]
        /\ Drained(s).rest \subseteq deferred'
        /\ Later(LeftBy(s, over), Tail(pipe)) # {} => Deferral(LeftBy(s, over), Tail(pipe)) \in deferred'
    BY UpdatedTypes
  <1>2. pipe # << >> /\ pipe' = Tail(pipe) BY DEF UpdatedAs
  <1>3. /\ DOMAIN pipe' \in {{}, {1}}
        /\ 1 \in DOMAIN pipe' => /\ pipe'[1] = pipe[2] /\ 2 \in DOMAIN pipe /\ Depth = 2
                                 /\ pipe[2] \in StepT
    BY <1>2, PipeTail DEF Base, Types
  <1> DEFINE q == w.kv[1]  i == w.kv[2]
  <1>4. q \in Reqs /\ i \in Nat /\ w.block \in Blocks
    BY WriteFields
  <1>5. pipe[2].n[q] > 0 /\ InPlace(w, 2) OBVIOUS
  <1>6. Wrote(pipe[2]) = 1 BY <1>4, <1>5, ZeroIs DEF Wrote
  <1>7. Upto(2) = Wrote(pipe[1]) + 1 BY <1>6, UptoIs
  <1>8. Upto(1)' = 1
    <2>1. (Upto(1) = Wrote(pipe[1]))' BY UptoIs, PTL
    <2>2. Upto(1)' = Wrote(pipe[1])' BY <2>1
    <2>3. Wrote(pipe[1])' = Wrote(pipe[2]) BY <1>3 DEF Wrote, Zero
    <2> QED BY <1>6, <2>2, <2>3
  <1>9. CASE i \in DOMAIN table[q] /\ table[q][i] = w.block
    <2>1. CASE q \notin LeftBy(s, over)
      <3>1. table'[q] = table[q] BY <1>1, <1>4, <2>1
      <3> QED BY <1>5, <1>9, <3>1 DEF InPlace
    <2>2. CASE q \in LeftBy(s, over)
      <3> DEFINE R == LeftBy(s, over)  p == Tail(pipe)
      <3>1. table[q] # << >> BY <1>9
      <3>2. 1 \in DOMAIN p /\ p[1].n[q] > 0 /\ Depth > 1 BY <1>2, <1>3, <1>5
      <3> HIDE DEF p, R
      <3>3. q \in Later(R, p) BY <2>2, <3>1, <3>2 DEF Later, R
      <3>4. Deferral(R, p) \in deferred' BY <1>1, <3>3 DEF R, p
      <3>5. w.block \in Held(Later(R, p)) BY <1>9, <3>3 DEF Held, Range
      <3>6. DOMAIN p \in {{}, {1}} /\ Wrote(p[1]) = 1 BY <1>2, <1>3, <1>6 DEF p
      <3>7. Busy(p) = 1 BY <3>2, <3>6, BusyIs
      <3>8. Deferral(R, p).steps = 1 /\ w.block \in Deferral(R, p).blocks BY <3>5, <3>7 DEF Deferral
      <3>9. \E d \in deferred' : w.block \in d.blocks /\ d.steps >= Upto(1)' BY <3>4, <3>8, <1>8
      <3> QED BY <1>5, <3>9 DEF InPlace
    <2> QED BY <2>1, <2>2
  <1>10. CASE \E d \in deferred : w.block \in d.blocks /\ d.steps >= Upto(2)
    <2>1. PICK d \in deferred : w.block \in d.blocks /\ d.steps >= Upto(2) BY <1>10
    <2>2. d.steps \in Nat BY DeferFields DEF Base, Types, BlockTypes
    <2>3. \E c \in Drained(s).rest : w.block \in c.blocks /\ c.steps >= 1
      <3>1. CASE s.n = Zero
        <4>1. d \in Drained(s).rest BY <3>1, DrainedIs DEF Base, Types
        <4>2. Wrote(pipe[1]) = 0 BY <1>1, <3>1 DEF Wrote
        <4> QED BY <1>7, <2>1, <2>2, <4>1, <4>2
      <3>2. CASE s.n # Zero
        <4>1. Wrote(pipe[1]) = 1 BY <1>1, <3>2 DEF Wrote
        <4>2. d.steps > 1 BY <1>7, <2>1, <2>2, <4>1
        <4>3. PICK c \in Drained(s).rest : c.steps = d.steps - 1 /\ c.blocks = d.blocks
          BY <3>2, <4>2, DrainedIs DEF Base, Types
        <4>4. c.steps >= 1 BY <2>2, <4>2, <4>3
        <4> QED BY <2>1, <4>3, <4>4
      <3> QED BY <3>1, <3>2
    <2>4. \E c \in deferred' : w.block \in c.blocks /\ c.steps >= Upto(1)' BY <1>1, <1>8, <2>3
    <2> QED BY <1>5, <2>4 DEF InPlace
  <1> QED BY <1>5, <1>9, <1>10 DEF InPlace

(* Processing a step leaves the blocks of the other one where it writes      *)
(* them.                                                                     *)
LEMMA UpdatedSteps ==
    ASSUME CacheAssumption, EngineAssumption, Base, PlaceInv, NEW over, NEW s, UpdatedAs(s, over)
    PROVE  StepInv'
  <1>1. /\ s = pipe[1] /\ s \in StepT /\ s.exec = "done" /\ 1 \in DOMAIN pipe
        /\ \A r \in Reqs : st'[r] = IF r \in LeftBy(s, over) THEN "gone"
                                     ELSE IF r \in over THEN "finished" ELSE st[r]
        /\ \A r \in Reqs : table'[r] = IF r \in LeftBy(s, over) THEN << >> ELSE table[r]
        /\ Drained(s).rest \subseteq deferred'
        /\ Later(LeftBy(s, over), Tail(pipe)) # {} => Deferral(LeftBy(s, over), Tail(pipe)) \in deferred'
    BY UpdatedTypes
  <1>2. pipe # << >> /\ pipe' = Tail(pipe) BY DEF UpdatedAs
  <1>3. /\ DOMAIN pipe' \in {{}, {1}}
        /\ 1 \in DOMAIN pipe' => /\ pipe'[1] = pipe[2] /\ 2 \in DOMAIN pipe /\ Depth = 2
                                 /\ pipe[2] \in StepT
    BY <1>2, PipeTail DEF Base, Types
  <1>4. ASSUME 1 \in DOMAIN pipe', NEW w \in pipe[2].writes
        PROVE  pipe[2].n[w.kv[1]] > 0 /\ InPlace(w, 1)'
    <2>1. w \in WriteT BY <1>3, <1>4, StepFields
    <2>2. pipe[2].n[w.kv[1]] > 0 /\ InPlace(w, 2) BY <1>3, <1>4 DEF Base, StepInv
    <2> QED BY <1>4, <2>1, <2>2, UpdatedAt
  <1>5. ASSUME 1 \in DOMAIN pipe'
        PROVE  /\ \A w \in pipe[2].puts : pipe[2].n[w.kv[1]] > 0
               /\ \A v, w \in pipe[2].writes : v.block = w.block => v = w
               /\ \A r \in Reqs : pipe[2].n[r] > 0 => st'[r] \notin Fresher
               /\ \A r \in pipe[2].samples : pipe[2].n[r] > 0
               /\ \A o, p \in pipe[2].retr : o.req = p.req => o = p
               /\ pipe[2].exec # "done" => pipe[2].recv = {} /\ pipe[2].send = {} /\ pipe[2].bad = {}
    <2>1. 2 \in DOMAIN pipe BY <1>3, <1>5
    <2>2. \A r \in Reqs : pipe[2].n[r] > 0 => st[r] \notin Fresher BY <2>1 DEF Base, StepInv
    <2>3. \A r \in Reqs : pipe[2].n[r] > 0 => st'[r] \notin Fresher
      BY <1>1, <2>2 DEF Fresher
    <2> QED BY <2>1, <2>3 DEF Base, StepInv
  <1>6. \A k \in DOMAIN pipe' : k = 1 /\ 1 \in DOMAIN pipe' /\ pipe'[k] = pipe[2] BY <1>3
  <1>7. \A k, j \in DOMAIN pipe' : ~(j > k) BY <1>3
  <1> QED BY <1>4, <1>5, <1>6, <1>7 DEF StepInv

(* Base, when the output of a step is processed.                             *)
LEMMA UpdatedBase ==
    ASSUME CacheAssumption, EngineAssumption, Base, PlaceInv, NEW over, NEW s, UpdatedAs(s, over)
    PROVE  Base'
BY UpdatedTypes, UpdatedSteps DEF Base
=============================================================================
