------------------------- MODULE WakeupPlannerProofs -------------------------
(***************************************************************************)
(* What holds of WakeupPlanner for every set of assignments, every policy   *)
(* and every number of operator requests and crashes.                      *)
(*                                                                         *)
(* The planner's guard against overlapping wakeups is a Set in memory that  *)
(* is read before an await and written around it.  The invariant ties that  *)
(* Set to the runs the process is awaiting and to the one callback whose    *)
(* finally is still to come: an assignment is in at most one of those       *)
(* places.                                                                 *)
(*                                                                         *)
(* Then the types, for which the budgets shared out to children must be     *)
(* numbers; what one pass over the children leaves behind; the rows that    *)
(* names lead to; the agreement of each child with its siblings, as far as  *)
(* the rest of the running callback does not owe it still; for trees of two *)
(* levels, that children get no more wakeups than their parent has; and,    *)
(* where operators hand over no work that nobody schedules, that whoever    *)
(* has a wakeup to come has a job, a run, or a step that will see to it.    *)
(***************************************************************************)
EXTENDS WakeupPlanner, FiniteSetTheorems, WellFoundedInduction, NaturalsInduction, TLAPS

\* A run has kept the shape StartWakeup gave it, and belongs to an assignment.
RunShape ==
    \A r \in runs :
        /\ r = [id |-> r.id, wakeup |-> r.wakeup, marker |-> r.marker]
        /\ r.id \in Ids

\* The callback that is about to release an assignment awaits nothing for it.
HolderFree == \A r \in runs : r.id # holder

FlightInv == RunShape /\ HolderFree /\ SingleFlight

LEMMA InitFlight == Init => FlightInv
BY NoneAssumption DEF Init, FlightInv, RunShape, HolderFree, SingleFlight

-----------------------------------------------------------------------------
(* One lemma for each shape a step has *)

\* Steps that leave the runs, the Set and the holder alone.
LEMMA UntouchedFlight ==
    ASSUME FlightInv, UNCHANGED <<runs, activeWakeups, holder>>
    PROVE  FlightInv'
BY DEF FlightInv, RunShape, HolderFree, SingleFlight

\* wakeNow refuses after it has taken the Set: its finally is to come.
LEMMA RefusalFlight ==
    ASSUME NEW a \in Ids, FlightInv, Wakes(a), holder' = a, UNCHANGED runs
    PROVE  FlightInv'
<1>1. holder = None /\ activeWakeups = {r.id : r \in runs} /\ a \notin activeWakeups
      BY DEF Wakes, Fires, Idle, Overlaps, FlightInv, SingleFlight
<1>2. \A r \in runs : r.id # a
      BY <1>1
<1>3. activeWakeups' = {r.id : r \in runs'} \cup ({holder'} \ {None})
      BY <1>1, NoneAssumption DEF Wakes
<1> QED BY <1>1, <1>2, <1>3 DEF FlightInv, RunShape, HolderFree, SingleFlight

\* A run is started.
LEMMA StartFlight ==
    ASSUME NEW a \in Ids, FlightInv, StartWakeup(a)
    PROVE  FlightInv'
<1> DEFINE new == [id |-> a, wakeup |-> asg[a].wakeups + 1, marker |-> NoMarker]
<1>1. /\ holder = None /\ holder' = None
      /\ activeWakeups = {r.id : r \in runs} /\ a \notin activeWakeups
      /\ activeWakeups' = activeWakeups \cup {a}
      /\ runs' = runs \cup {new}
      BY DEF StartWakeup, Wakes, Fires, Idle, Overlaps, FlightInv, SingleFlight
<1>2. new.id = a /\ new = [id |-> new.id, wakeup |-> new.wakeup, marker |-> new.marker]
      OBVIOUS
<1> HIDE DEF new
<1>3. RunShape'
      BY <1>1, <1>2 DEF FlightInv, RunShape
<1>4. HolderFree'
      <2>1. \A r \in runs' : r.id \in Ids
            BY <1>3 DEF RunShape
      <2> QED BY <2>1, <1>1, NoneAssumption DEF HolderFree
<1>5. \A r, t \in runs' : r.id = t.id => r = t
      <2>1. \A r \in runs : r.id # a
            BY <1>1
      <2> QED BY <2>1, <1>1, <1>2 DEF FlightInv, SingleFlight
<1>6. {r.id : r \in runs'} = {r.id : r \in runs} \cup {a}
      BY <1>1, <1>2
<1> QED BY <1>1, <1>3, <1>4, <1>5, <1>6 DEF FlightInv, SingleFlight

\* A run ends, and the rest of wakeNow is in the thread.
LEMMA EndFlight ==
    ASSUME NEW r \in runs, FlightInv, Idle,
           runs' = runs \ {r}, holder' = r.id, UNCHANGED activeWakeups
    PROVE  FlightInv'
<1>1. holder = None /\ activeWakeups = {t.id : t \in runs} /\ r.id \in Ids /\ r.id # None
      BY NoneAssumption DEF Idle, FlightInv, RunShape, SingleFlight
<1>2. \A t \in runs' : t.id # r.id
      BY DEF FlightInv, SingleFlight
<1>3. activeWakeups = {t.id : t \in runs'} \cup {r.id}
      BY <1>1
<1> QED BY <1>1, <1>2, <1>3 DEF FlightInv, RunShape, HolderFree, SingleFlight

\* The coordinator has answered with a mutation to await.
LEMMA MutatingFlight ==
    ASSUME NEW r \in runs, NEW m, FlightInv,
           runs' = (runs \ {r}) \cup {[r EXCEPT !.marker = m]},
           UNCHANGED <<holder, activeWakeups>>
    PROVE  FlightInv'
<1> DEFINE next == [r EXCEPT !.marker = m]
<1>1. next = [id |-> r.id, wakeup |-> r.wakeup, marker |-> m]
      <2>1. r = [id |-> r.id, wakeup |-> r.wakeup, marker |-> r.marker]
            BY DEF FlightInv, RunShape
      <2> QED BY <2>1
<1>2. /\ next.id = r.id
      /\ next = [id |-> next.id, wakeup |-> next.wakeup, marker |-> next.marker]
      BY <1>1
<1>3. runs' = (runs \ {r}) \cup {next}
      OBVIOUS
<1> HIDE DEF next
<1>4. RunShape' /\ HolderFree'
      BY <1>2, <1>3 DEF FlightInv, RunShape, HolderFree
<1>5. \A s, t \in runs' : s.id = t.id => s = t
      BY <1>2, <1>3 DEF FlightInv, SingleFlight
<1>6. {t.id : t \in runs'} = {t.id : t \in runs}
      BY <1>2, <1>3
<1> QED BY <1>4, <1>5, <1>6 DEF FlightInv, SingleFlight

-----------------------------------------------------------------------------
(* The steps *)

LEMMA FireFlight ==
    ASSUME NEW a \in Ids, FlightInv, FireJob(a)
    PROVE  FlightInv'
<1>1. CASE SkipWakeup(a) \/ ExpireIdle(a)
      BY <1>1, UntouchedFlight DEF SkipWakeup, ExpireIdle
<1>2. CASE RefuseLostDependency(a)
      BY <1>2, RefusalFlight DEF RefuseLostDependency
<1>3. CASE RefusePendingDependency(a)
      BY <1>3, RefusalFlight DEF RefusePendingDependency
<1>4. CASE RefuseReserved(a)
      BY <1>4, RefusalFlight DEF RefuseReserved
<1>5. CASE StartWakeup(a)
      BY <1>5, StartFlight
<1> QED BY <1>1, <1>2, <1>3, <1>4, <1>5 DEF FireJob

LEMMA RunEndsFlight ==
    ASSUME NEW r \in runs, FlightInv, RunEnds(r)
    PROVE  FlightInv'
<1>1. CASE \E m \in Markers(r.id) : RunReturns(r, m)
      <2>1. PICK m \in Markers(r.id) : RunReturns(r, m)
            BY <1>1
      <2>2. CASE m.mutates
            BY <2>1, <2>2, MutatingFlight DEF RunReturns
      <2>3. CASE ~m.mutates
            BY <2>1, <2>3, EndFlight DEF RunReturns
      <2> QED BY <2>2, <2>3
<1>2. CASE MutationEnds(r)
      BY <1>2, EndFlight DEF MutationEnds
<1>3. CASE RunFails(r)
      BY <1>3, EndFlight DEF RunFails
<1> QED BY <1>1, <1>2, <1>3 DEF RunEnds

LEMMA ThreadFlight ==
    ASSUME FlightInv, ThreadStep
    PROVE  FlightInv'
<1>1. CASE \E c \in FreshChildren : PromoteChild(c)
      BY <1>1, UntouchedFlight DEF PromoteChild
<1>2. CASE NoChild
      BY <1>2, UntouchedFlight DEF NoChild
<1>3. CASE TakeDecision \/ ScheduleNext
      BY <1>3, UntouchedFlight DEF TakeDecision, ScheduleNext
<1>4. CASE ResolveChild
      BY <1>4, UntouchedFlight DEF ResolveChild
<1>5. CASE NextPass
      BY <1>5, UntouchedFlight DEF NextPass
<1>6. CASE EndResolution
      BY <1>6, UntouchedFlight DEF EndResolution
<1>7. CASE Release
      <2>1. activeWakeups' = {r.id : r \in runs'} /\ holder' = None
            BY <1>7 DEF Release, FlightInv, HolderFree, SingleFlight
      <2> QED BY <1>7, <2>1, NoneAssumption
              DEF Release, FlightInv, RunShape, HolderFree, SingleFlight
<1> QED BY <1>1, <1>2, <1>3, <1>4, <1>5, <1>6, <1>7 DEF ThreadStep

LEMMA OperatorFlight ==
    ASSUME FlightInv, OperatorRequest
    PROVE  FlightInv'
<1>1. CASE \E a \in Roots, policy \in Policies : AdminCreate(a, policy)
      BY <1>1, UntouchedFlight DEF AdminCreate, Operates
<1>2. CASE \E p \in Ids, c \in Ids, policy \in Policies : AdminPromote(p, c, policy)
      BY <1>2, UntouchedFlight DEF AdminPromote, Operates
<1>3. CASE \E a \in Ids, action \in AllOperatorActions : ControlRequest(a, action)
      BY <1>3, UntouchedFlight DEF ControlRequest, Controls, Operates
<1>4. CASE \E a \in Ids, policy \in Policies : ChangePolicy(a, policy)
      BY <1>4, UntouchedFlight DEF ChangePolicy, Controls, Operates
<1> QED BY <1>1, <1>2, <1>3, <1>4 DEF OperatorRequest

LEMMA NextFlight == FlightInv /\ [Next]_vars => FlightInv'
<1> SUFFICES ASSUME FlightInv, [Next]_vars PROVE FlightInv'
    OBVIOUS
<1>1. CASE \E a \in Roots, policy \in Policies : Intake(a, policy)
      BY <1>1, UntouchedFlight DEF Intake
<1>2. CASE OperatorRequest
      BY <1>2, OperatorFlight
<1>3. CASE \E a \in Ids : FireJob(a)
      BY <1>3, FireFlight
<1>4. CASE \E r \in runs : RunEnds(r)
      BY <1>4, RunEndsFlight
<1>5. CASE ThreadStep
      BY <1>5, ThreadFlight
<1>6. CASE CrashAndRestart
      BY <1>6 DEF CrashAndRestart, FlightInv, RunShape, HolderFree, SingleFlight
<1>7. CASE UNCHANGED vars
      BY <1>7, UntouchedFlight DEF vars
<1> QED BY <1>1, <1>2, <1>3, <1>4, <1>5, <1>6, <1>7 DEF Next

\* No two wakeups of one assignment overlap, however jobs, operator requests,
\* coordinator runs, mutations and crashes are interleaved: the Set the planner
\* asks holds exactly the assignments it is working on.
THEOREM SingleFlightAlways == Spec => []SingleFlight
<1>1. FlightInv => SingleFlight
      BY DEF FlightInv
<1> QED BY InitFlight, NextFlight, <1>1, PTL DEF Spec

-----------------------------------------------------------------------------
(* Reserved, the sum of what the children of a set hold *)

\* A property of naturals that does not hold has a least one it fails for.
LEMMA LeastNat ==
    ASSUME NEW T, T \subseteq Nat, T # {}
    PROVE  \E n \in T : \A k \in T : n <= k
<1>1. PICK n \in T : \A k \in T : ~(<<k, n>> \in OpToRel(<, Nat))
  BY NatLessThanWellFounded, WFMin
<1>2. \A k \in T : ~(k < n)
  BY <1>1 DEF OpToRel
<1>3. QED
  BY <1>2

First(T) == CHOOSE c \in T : TRUE

\* The function by which MapThenSumSet adds up weight w over the subsets of S.
IsSum(g, w, S) ==
    g = [T \in SUBSET S |-> IF T = {} THEN 0 ELSE w[First(T)] + g[T \ {First(T)}]]

LEMMA RemoveFirst ==
    ASSUME NEW T, IsFiniteSet(T), T # {}
    PROVE  /\ First(T) \in T
           /\ IsFiniteSet(T \ {First(T)})
           /\ Cardinality(T) \in Nat /\ Cardinality(T \ {First(T)}) \in Nat
           /\ Cardinality(T \ {First(T)}) = Cardinality(T) - 1
<1>1. First(T) \in T
  BY DEF First
<1>2. QED
  BY <1>1, FS_RemoveElement, FS_CardinalityType

SumsUp(g, w, S) == \A T \in SUBSET S : g[T] = IF T = {} THEN 0 ELSE w[First(T)] + g[T \ {First(T)}]

Adds(g, w, S) == w \in [S -> Nat] /\ g \in [SUBSET S -> Nat] /\ IsSum(g, w, S)

\* There is such a function.
LEMMA SumExists ==
    ASSUME NEW S, IsFiniteSet(S), NEW w \in [S -> Nat]
    PROVE  \E g : Adds(g, w, S)
<1> DEFINE Upto(n) == {T \in SUBSET S : Cardinality(T) <= n}
           Sums(g, n) == \A T \in Upto(n) : g[T] = IF T = {} THEN 0 ELSE w[First(T)] + g[T \ {First(T)}]
           Bad == {n \in Nat : ~ \E g \in [Upto(n) -> Nat] : Sums(g, n)}
<1>1. \A T \in SUBSET S : IsFiniteSet(T) /\ Cardinality(T) \in Nat
  BY FS_Subset, FS_CardinalityType
<1>2. 0 \notin Bad
  <2> DEFINE g == [T \in Upto(0) |-> 0]
  <2>1. \A T \in Upto(0) : T = {}
    BY <1>1, FS_EmptySet
  <2>2. g \in [Upto(0) -> Nat] /\ Sums(g, 0)
    BY <2>1
  <2>3. QED
    BY <2>2
<1>3. ASSUME NEW n \in Nat, n \notin Bad PROVE n + 1 \notin Bad
  <2>1. PICK h \in [Upto(n) -> Nat] : Sums(h, n)
    BY <1>3
  <2> DEFINE g == [T \in Upto(n + 1) |-> IF T = {} THEN 0 ELSE w[First(T)] + h[T \ {First(T)}]]
  <2>2. ASSUME NEW T \in Upto(n + 1), T # {}
        PROVE  First(T) \in S /\ T \ {First(T)} \in Upto(n)
    <3>1. /\ First(T) \in T /\ Cardinality(T) \in Nat /\ Cardinality(T \ {First(T)}) \in Nat
          /\ Cardinality(T \ {First(T)}) = Cardinality(T) - 1
      BY <1>1, <2>2, RemoveFirst
    <3>2. Cardinality(T \ {First(T)}) <= n
      BY <3>1
    <3>3. QED
      BY <3>1, <3>2
  <2>3. g \in [Upto(n + 1) -> Nat]
    <3>1. ASSUME NEW T \in Upto(n + 1) PROVE g[T] \in Nat
      <4>1. CASE T = {}
        BY <4>1
      <4>2. CASE T # {}
        <5>1. w[First(T)] \in Nat /\ h[T \ {First(T)}] \in Nat
          BY <2>1, <2>2, <4>2
        <5>2. g[T] = w[First(T)] + h[T \ {First(T)}]
          BY <4>2
        <5>3. QED
          BY <5>1, <5>2
      <4>3. QED
        BY <4>1, <4>2
    <3>2. QED
      BY <3>1
  <2>4. ASSUME NEW T \in Upto(n) PROVE T \in Upto(n + 1) /\ g[T] = h[T]
    <3>1. Cardinality(T) \in Nat /\ Cardinality(T) <= n
      BY <1>1
    <3>2. Cardinality(T) <= n + 1
      BY <3>1
    <3>3. T \in Upto(n + 1)
      BY <3>2
    <3>4. QED
      BY <2>1, <3>3
  <2>5. Sums(g, n + 1)
    <3>1. ASSUME NEW T \in Upto(n + 1), T # {} PROVE g[T] = w[First(T)] + g[T \ {First(T)}]
      BY <2>2, <2>4, <3>1
    <3>2. ASSUME NEW T \in Upto(n + 1), T = {} PROVE g[T] = 0
      BY <3>2
    <3> HIDE DEF g
    <3>3. QED
      BY <3>1, <3>2
  <2>6. QED
    BY <2>3, <2>5
<1>4. Bad = {}
  <2> SUFFICES ASSUME Bad # {} PROVE FALSE
    OBVIOUS
  <2>1. PICK n \in Bad : \A k \in Bad : n <= k
    BY LeastNat
  <2> HIDE DEF Bad
  <2>2. n \in Nat /\ n # 0
    BY <1>2 DEF Bad
  <2>3. n - 1 \in Nat /\ n - 1 \notin Bad /\ n = (n - 1) + 1
    BY <2>1, <2>2
  <2>4. QED
    BY <1>3, <2>3
<1> DEFINE N == Cardinality(S)
<1>5. N \in Nat
  BY FS_CardinalityType
<1>6. PICK g \in [Upto(N) -> Nat] : Sums(g, N)
  BY <1>4, <1>5
<1>7. Upto(N) = SUBSET S
  BY FS_Subset
<1>8. IsSum(g, w, S)
  BY <1>6, <1>7 DEF IsSum
<1>9. QED
  BY <1>6, <1>7, <1>8 DEF Adds

\* And only one, even with the larger sets left out.
LEMMA SumUnique ==
    ASSUME NEW S, IsFiniteSet(S), NEW w, NEW g, NEW h,
           SumsUp(g, w, S), SumsUp(h, w, S)
    PROVE  \A T \in SUBSET S : g[T] = h[T]
<1> DEFINE Bad == {n \in Nat : \E T \in SUBSET S : Cardinality(T) = n /\ g[T] # h[T]}
<1> USE DEF SumsUp
<1>1. \A T \in SUBSET S : IsFiniteSet(T) /\ Cardinality(T) \in Nat
  BY FS_Subset, FS_CardinalityType
<1>2. Bad = {}
  <2> SUFFICES ASSUME Bad # {} PROVE FALSE
    OBVIOUS
  <2>1. PICK n \in Bad : \A k \in Bad : n <= k
    BY LeastNat
  <2>2. PICK T \in SUBSET S : Cardinality(T) = n /\ g[T] # h[T]
    OBVIOUS
  <2>3. T # {}
    BY <2>2
  <2>4. /\ Cardinality(T) \in Nat /\ Cardinality(T \ {First(T)}) \in Nat
        /\ Cardinality(T \ {First(T)}) = Cardinality(T) - 1
    BY <1>1, <2>3, RemoveFirst
  <2>5. Cardinality(T \ {First(T)}) \notin Bad
    <3> HIDE DEF Bad
    <3>1. QED
      BY <2>1, <2>2, <2>4
  <2>6. g[T \ {First(T)}] = h[T \ {First(T)}]
    BY <2>4, <2>5
  <2>7. QED
    BY <2>2, <2>3, <2>6
<1>3. QED
  BY <1>1, <1>2

\* What MapThenSumSet chooses.
Folded(g, table, S) ==
    g = [T \in SUBSET S |->
           IF T = {} THEN 0
           ELSE table[CHOOSE c \in T : TRUE].policy.maxWakeups + g[T \ {CHOOSE c \in T : TRUE}]]

LEMMA SumFolded ==
    ASSUME NEW table, NEW S, NEW sum, Folded(sum, table, S)
    PROVE  \E g : Folded(g, table, S) /\ Reserved(table, S) = g[S]
BY DEF Folded, Reserved, MapThenSumSet, MapThenFoldSet

Weighs(w, table, S) == \A c \in S : w[c] = table[c].policy.maxWakeups

\* Reserved is such a function's value.
LEMMA ReservedSum ==
    ASSUME NEW table, NEW U, IsFiniteSet(U), NEW w, NEW g, NEW S \in SUBSET U, Adds(g, w, U),
           Weighs(w, table, S)
    PROVE  Reserved(table, S) = g[S]
<1> USE DEF Weighs
<1> DEFINE sum == [T \in SUBSET S |-> g[T]]
<1>1. IsFiniteSet(S)
  BY FS_Subset
<1>2. \A T \in SUBSET U : g[T] = IF T = {} THEN 0 ELSE w[First(T)] + g[T \ {First(T)}]
  BY DEF Adds, IsSum
<1>3. \A T \in SUBSET S : T # {} => First(T) \in S
  BY DEF First
<1>4. ASSUME NEW T \in SUBSET S
      PROVE  sum[T] = IF T = {} THEN 0 ELSE table[First(T)].policy.maxWakeups + sum[T \ {First(T)}]
  <2>1. T \in SUBSET U /\ T \ {First(T)} \in SUBSET S
    OBVIOUS
  <2>2. CASE T = {}
    BY <1>2, <2>1, <2>2
  <2>3. CASE T # {}
    BY <1>2, <1>3, <2>1, <2>3
  <2>4. QED
    BY <2>2, <2>3
<1>5. Folded(sum, table, S)
  <2>1. \A T \in SUBSET S :
           sum[T] = IF T = {} THEN 0 ELSE table[First(T)].policy.maxWakeups + sum[T \ {First(T)}]
    BY <1>4
  <2>2. sum = [T \in SUBSET S |-> sum[T]]
    OBVIOUS
  <2> HIDE DEF sum
  <2>3. QED
    BY <2>1, <2>2 DEF Folded, First
<1> HIDE DEF sum
<1>6. PICK iter : Folded(iter, table, S) /\ Reserved(table, S) = iter[S]
  BY <1>5, SumFolded
<1> DEFINE v == [c \in S |-> table[c].policy.maxWakeups]
<1>7. SumsUp(sum, v, S)
  BY <1>3, <1>4 DEF SumsUp
<1>8. SumsUp(iter, v, S)
  BY <1>3, <1>6 DEF SumsUp, Folded, First
<1> HIDE DEF v
<1>9. \A T \in SUBSET S : sum[T] = iter[T]
  BY <1>1, <1>7, <1>8, SumUnique
<1>10. sum[S] = iter[S]
  BY <1>9
<1>11. QED
  BY <1>6, <1>10 DEF sum

Weights(table, S) == [c \in S |-> table[c].policy.maxWakeups]

LEMMA ReservedNat ==
    ASSUME NEW table, NEW S, IsFiniteSet(S), \A c \in S : table[c].policy.maxWakeups \in Nat
    PROVE  Reserved(table, S) \in Nat
<1> DEFINE w == Weights(table, S)
<1>1. w \in [S -> Nat] /\ Weighs(w, table, S)
  BY DEF Weights, Weighs
<1> HIDE DEF w
<1>2. PICK g : Adds(g, w, S)
  BY <1>1, SumExists
<1>3. Reserved(table, S) = g[S]
  BY <1>1, <1>2, ReservedSum
<1>4. QED
  BY <1>2, <1>3 DEF Adds

\* Only the policies of the set matter.
LEMMA ReservedSame ==
    ASSUME NEW table, NEW other, NEW S, IsFiniteSet(S),
           \A c \in S : /\ table[c].policy.maxWakeups \in Nat
                        /\ other[c].policy.maxWakeups = table[c].policy.maxWakeups
    PROVE  Reserved(other, S) = Reserved(table, S)
<1> DEFINE w == Weights(table, S)
<1>1. w \in [S -> Nat] /\ Weighs(w, table, S)
  BY DEF Weights, Weighs
<1> HIDE DEF w
<1>2. PICK g : Adds(g, w, S)
  BY <1>1, SumExists
<1>3. Reserved(table, S) = g[S]
  BY <1>1, <1>2, ReservedSum
<1>4. Weighs(w, other, S)
  BY <1>1 DEF Weighs
<1>5. Reserved(other, S) = g[S]
  BY <1>2, <1>4, ReservedSum
<1>6. QED
  BY <1>3, <1>5

Splits(g, w, S) == \A T \in SUBSET S : \A c \in T : g[T] = w[c] + g[T \ {c}]

\* The order in which the weights are added does not matter.
LEMMA SumRemoved ==
    ASSUME NEW S, IsFiniteSet(S), NEW w, NEW g, Adds(g, w, S)
    PROVE  Splits(g, w, S)
<1> USE DEF Adds, Splits
<1> DEFINE Bad == {n \in Nat : \E T \in SUBSET S : Cardinality(T) = n /\ \E c \in T : g[T] # w[c] + g[T \ {c}]}
<1>1. \A T \in SUBSET S : IsFiniteSet(T) /\ Cardinality(T) \in Nat
  BY FS_Subset, FS_CardinalityType
<1>2. Bad = {}
  <2> SUFFICES ASSUME Bad # {} PROVE FALSE
    OBVIOUS
  <2>1. PICK n \in Bad : \A k \in Bad : n <= k
    BY LeastNat
  <2>2. PICK T \in SUBSET S : Cardinality(T) = n /\ \E c \in T : g[T] # w[c] + g[T \ {c}]
    OBVIOUS
  <2>3. PICK c \in T : g[T] # w[c] + g[T \ {c}]
    BY <2>2
  <2>4. ASSUME NEW V \in SUBSET S, NEW d \in V, Cardinality(V) < n PROVE g[V] = w[d] + g[V \ {d}]
    <3>1. Cardinality(V) \in Nat /\ n \in Nat
      BY <1>1
    <3>2. Cardinality(V) \notin Bad
      <4> HIDE DEF Bad
      <4>1. QED
        BY <2>1, <2>4, <3>1
    <3>3. QED
      BY <3>1, <3>2
  <2> HIDE DEF Bad
  <2> DEFINE d == First(T)
  <2>5. d \in T
    BY <2>3, RemoveFirst, <1>1
  <2>6. g[T] = w[d] + g[T \ {d}]
    BY <2>3 DEF IsSum
  <2> HIDE DEF d
  <2>7. c # d
    BY <2>3, <2>6
  <2>8. ASSUME NEW e \in T PROVE Cardinality(T \ {e}) < n
    <3>1. Cardinality(T \ {e}) = Cardinality(T) - 1 /\ Cardinality(T) \in Nat
      BY <1>1, FS_RemoveElement
    <3>2. QED
      BY <2>2, <3>1
  <2>9. g[T \ {d}] = w[c] + g[(T \ {d}) \ {c}]
    <3>1. c \in T \ {d} /\ T \ {d} \in SUBSET S
      BY <2>3, <2>7
    <3>2. QED
      BY <2>4, <2>5, <2>8, <3>1
  <2>10. g[T \ {c}] = w[d] + g[(T \ {c}) \ {d}]
    <3>1. d \in T \ {c} /\ T \ {c} \in SUBSET S
      BY <2>5, <2>7
    <3>2. QED
      BY <2>3, <2>4, <2>8, <3>1
  <2>11. (T \ {c}) \ {d} = (T \ {d}) \ {c}
    OBVIOUS
  <2> DEFINE rest == g[(T \ {d}) \ {c}]
  <2>12. w[c] \in Nat /\ w[d] \in Nat /\ rest \in Nat
    BY <2>3, <2>5
  <2>13. g[T \ {c}] = w[d] + rest
    BY <2>10, <2>11
  <2>14. g[T \ {d}] = w[c] + rest
    BY <2>9
  <2> HIDE DEF rest
  <2>15. QED
    BY <2>3, <2>6, <2>12, <2>13, <2>14
<1>3. QED
  BY <1>1, <1>2

\* One child more.
LEMMA ReservedAdded ==
    ASSUME NEW table, NEW S, IsFiniteSet(S), NEW c \in S,
           \A d \in S : table[d].policy.maxWakeups \in Nat
    PROVE  Reserved(table, S) = table[c].policy.maxWakeups + Reserved(table, S \ {c})
<1> DEFINE w == Weights(table, S)
<1>1. w \in [S -> Nat] /\ Weighs(w, table, S) /\ Weighs(w, table, S \ {c})
  BY DEF Weights, Weighs
<1> HIDE DEF w
<1>2. PICK g : Adds(g, w, S)
  BY <1>1, SumExists
<1>3. Reserved(table, S) = g[S] /\ Reserved(table, S \ {c}) = g[S \ {c}]
  BY <1>1, <1>2, ReservedSum
<1>4. Splits(g, w, S)
  BY <1>2, SumRemoved
<1>5. g[S] = w[c] + g[S \ {c}]
  BY <1>4 DEF Splits
<1>6. w[c] = table[c].policy.maxWakeups
  BY <1>1 DEF Weighs
<1>7. QED
  BY <1>3, <1>5, <1>6

-----------------------------------------------------------------------------
(* Types of the rows *)

Table == [Ids -> Assignment]

LEMMA MinOfTwo ==
    ASSUME NEW i \in Int, NEW j \in Int
    PROVE  Min({i, j}) \in {i, j} /\ Min({i, j}) <= i /\ Min({i, j}) <= j
<1>1. \E k \in {i, j} : \A l \in {i, j} : k <= l
  BY DEF Min
<1>2. QED
  BY <1>1 DEF Min

LEMMA DecidedType ==
    ASSUME NEW row \in Assignment, NEW decision \in Decisions
    PROVE  Decided(row, decision) \in Assignment
<1> DEFINE waits == decision \in {"deps", "child", "other"}
           blocks == decision \in {"blocked", "depBlocked"}
           life == IF waits THEN "waiting" ELSE IF blocks THEN "blocked" ELSE decision
           wait == IF waits THEN decision ELSE row.wait
           lost == IF blocks THEN decision = "depBlocked" ELSE row.depBlocked
           open == waits /\ row.open
<1>1. life \in LifecycleStates /\ wait \in Waits
  BY DEF Decisions, LifecycleStates, TerminalStates, Waits, Assignment
<1>2. lost \in BOOLEAN /\ open \in BOOLEAN
  BY DEF Assignment
<1>3. Decided(row, decision) = [row EXCEPT !.life = life, !.wait = wait, !.depBlocked = lost, !.open = open]
  BY DEF Decided
<1> HIDE DEF life, wait, lost, open
<1>4. QED
  BY <1>1, <1>2, <1>3 DEF Assignment

LEMMA ControlledType ==
    ASSUME NEW row \in Assignment, NEW action
    PROVE  Controlled(row, action) \in Assignment
BY DEF Controlled, Assignment, LifecycleStates, TerminalStates, Waits

LEMMA WokenType ==
    ASSUME NEW row \in Assignment
    PROVE  Woken(row) \in Assignment
<1> DEFINE n == row.wakeups + 1
<1>1. n \in Nat
  BY DEF Assignment
<1>2. Woken(row) = [row EXCEPT !.life = "active", !.wakeups = n, !.open = TRUE]
  BY DEF Woken
<1> HIDE DEF n
<1>3. QED
  BY <1>1, <1>2 DEF Assignment, LifecycleStates

LEMMA RemainingInt ==
    ASSUME NEW table \in Table, NEW p \in Ids, NEW S \in SUBSET Ids
    PROVE  RemainingWakeups(table, p, S) \in Int
<1>1. \A a \in Ids : table[a].policy.maxWakeups \in Nat /\ table[a].wakeups \in Nat
  BY DEF Table, Assignment, Policy
<1>2. IsFiniteSet(S)
  BY IdsAssumption, FS_Subset
<1>3. Reserved(table, S) \in Nat
  BY <1>1, <1>2, ReservedNat
<1>4. QED
  BY <1>1, <1>3 DEF RemainingWakeups

LEMMA CapPolicyType ==
    ASSUME NEW requested \in Policy, NEW parent \in Policy, NEW remaining \in Int, remaining > 0
    PROVE  /\ CapPolicy(requested, parent, remaining) \in Policy
           /\ CapPolicy(requested, parent, remaining).maxWakeups <= remaining
<1>1. ASSUME NEW i \in Nat, NEW j \in Nat PROVE Min({i, j}) \in Nat
  BY MinOfTwo
<1>2. Min({requested.maxFailures, parent.maxFailures}) \in Nat \ {0}
  <2>1. requested.maxFailures \in Nat \ {0} /\ parent.maxFailures \in Nat \ {0}
    BY DEF Policy
  <2>2. ASSUME NEW i \in Nat \ {0}, NEW j \in Nat \ {0} PROVE Min({i, j}) \in Nat \ {0}
    <3>1. i \in Int /\ j \in Int
      OBVIOUS
    <3>2. Min({i, j}) = i \/ Min({i, j}) = j
      BY <3>1, MinOfTwo
    <3>3. QED
      BY <3>2
  <2>3. QED
    BY <2>1, <2>2
<1>3. /\ Min({requested.maxWakeups, remaining}) \in Nat \ {0}
      /\ Min({requested.maxWakeups, remaining}) <= remaining
  BY MinOfTwo DEF Policy
<1>4. Min({requested.maxChildren, parent.maxChildren}) \in Nat
  BY <1>1 DEF Policy
<1>5. Min({requested.maxDepth, parent.maxDepth}) \in Nat
  BY <1>1 DEF Policy
<1>6. QED
  BY <1>2, <1>3, <1>4, <1>5 DEF CapPolicy, Policy

LEMMA NewAssignmentType ==
    ASSUME NEW policy \in Policy
    PROVE  NewAssignment(policy) \in Assignment
BY DEF NewAssignment, Assignment, LifecycleStates, Waits

BirthState(table, deps, mode) == DependencyState(Lives(table), deps, mode)

\* The parent has wakeups left to give.
Funded(table, p) == RemainingWakeups(table, p, ActiveChildren(table, p)) > 0

\* What promoteChild gives a new row.
Born(row, table, p, waited, deps, mode) ==
    LET state == BirthState(table, deps, mode)
    IN  /\ row \in Assignment
        /\ row.parent = p /\ row.waited = waited /\ row.deps = deps /\ row.mode = mode
        /\ row.wakeups = 0 /\ row.open = FALSE
        /\ row.life = IF state = "waiting" THEN "waiting" ELSE IF state = "blocked" THEN "blocked" ELSE "active"
        /\ row.wait = IF state = "waiting" THEN "deps" ELSE "none"
        /\ row.depBlocked = (state = "blocked")
        /\ row.policy.maxWakeups <= RemainingWakeups(table, p, ActiveChildren(table, p))

LEMMA ChildRowFacts ==
    ASSUME NEW table \in Table, NEW p \in Ids, NEW waited \in BOOLEAN, NEW deps \in SUBSET Ids,
           NEW mode \in {"all", "any"}, NEW requested \in Policy, Funded(table, p)
    PROVE  Born(ChildRow(table, p, waited, deps, mode, requested), table, p, waited, deps, mode)
<1> DEFINE row == ChildRow(table, p, waited, deps, mode, requested)
           state == BirthState(table, deps, mode)
<1>0. row = ChildRow(table, p, waited, deps, mode, requested) /\ state = BirthState(table, deps, mode)
  OBVIOUS
<1> HIDE DEF row, state
<1> DEFINE remaining == RemainingWakeups(table, p, ActiveChildren(table, p))
           policy == CapPolicy(requested, table[p].policy, remaining)
           base == NewAssignment(policy)
           life == CASE state = "waiting" -> "waiting" [] state = "blocked" -> "blocked" [] OTHER -> base.life
           wait == IF state = "waiting" THEN "deps" ELSE base.wait
           lost == (state = "blocked")
<1>1. remaining \in Int /\ remaining > 0
  <2>1. ActiveChildren(table, p) \in SUBSET Ids
    BY DEF ActiveChildren, Children
  <2>2. QED
    BY <2>1, RemainingInt DEF Funded
<1>2. table[p].policy \in Policy
  BY DEF Table, Assignment
<1>3. policy \in Policy /\ policy.maxWakeups <= remaining
  BY <1>1, <1>2, CapPolicyType
<1>4. row = [base EXCEPT !.parent = p, !.waited = waited, !.deps = deps, !.mode = mode,
                         !.life = life, !.wait = wait, !.depBlocked = lost]
  BY <1>0 DEF ChildRow, BirthState
<1> HIDE DEF policy, remaining
<1>5. /\ base \in Assignment /\ base.wakeups = 0 /\ base.open = FALSE
      /\ base.life = "active" /\ base.wait = "none" /\ base.policy = policy
  BY <1>3, NewAssignmentType DEF NewAssignment
<1> HIDE DEF base
<1>6. /\ life = IF state = "waiting" THEN "waiting" ELSE IF state = "blocked" THEN "blocked" ELSE "active"
      /\ wait = IF state = "waiting" THEN "deps" ELSE "none"
  BY <1>5
<1>7. life \in LifecycleStates /\ wait \in Waits /\ lost \in BOOLEAN
  BY <1>6 DEF LifecycleStates, Waits
<1>8. lost = (state = "blocked")
  OBVIOUS
<1> HIDE DEF life, wait, lost
<1>9. /\ row \in Assignment
      /\ row.parent = p /\ row.waited = waited /\ row.deps = deps /\ row.mode = mode
      /\ row.wakeups = base.wakeups /\ row.open = base.open /\ row.policy = base.policy
      /\ row.life = life /\ row.wait = wait /\ row.depBlocked = lost
  <2>1. row = [life |-> life, parent |-> p, waited |-> waited, deps |-> deps, mode |-> mode,
               policy |-> base.policy, wakeups |-> base.wakeups, failures |-> base.failures,
               wait |-> wait, depBlocked |-> lost, open |-> base.open]
    BY <1>4, <1>5 DEF Assignment
  <2>2. /\ base.policy \in Policy /\ base.wakeups \in Nat /\ base.failures \in Nat
        /\ base.open \in BOOLEAN
    BY <1>5 DEF Assignment
  <2>3. row \in Assignment
    BY <1>7, <2>1, <2>2 DEF Assignment
  <2>4. QED
    BY <2>1, <2>3
<1>10. row.policy.maxWakeups <= remaining
  BY <1>3, <1>5, <1>9
<1>11. QED
  BY <1>0, <1>5, <1>6, <1>8, <1>9, <1>10 DEF remaining, Born

-----------------------------------------------------------------------------
(* Types of the steps of a callback *)

\* A step as the code begins it: a resolution has its loop still to enter.
FreshStep == {s \in Step : s.step = "resolve" => s.changed}

LEMMA FreshSteps ==
    ASSUME NEW t \in Seq(FreshStep)
    PROVE  t \in Seq(Step)
BY DEF FreshStep

LEMMA ResolveStepType ==
    ASSUME NEW p \in Ids, NEW cause \in Ids \cup {None}
    PROVE  ResolveStep(p, cause) \in FreshStep
<1>1. NotTaken \in [Ids -> LifecycleStates]
  BY DEF NotTaken, LifecycleStates
<1>2. QED
  BY <1>1 DEF ResolveStep, Step, FreshStep

LEMMA StepTypes ==
    ASSUME NEW a \in Ids
    PROVE  /\ \A decision \in Decisions : DecideStep(a, decision) \in FreshStep
           /\ \A S \in SUBSET Ids : ScheduleStep(S) \in FreshStep
           /\ \A marker \in Marker : PlannerStep(a, marker) \in FreshStep
BY DEF DecideStep, ScheduleStep, PlannerStep, Step, FreshStep

LEMMA RefreshType ==
    ASSUME NEW p \in Ids \cup {None}, NEW a \in Ids
    PROVE  Refresh(p) \in Seq(FreshStep) /\ Continue(p, a) \in Seq(FreshStep)
BY ResolveStepType, NoneAssumption DEF Refresh, Continue

LEMMA SettleType ==
    ASSUME asg \in Table, NEW a \in Ids, NEW decision \in Decisions
    PROVE  Settle(a, decision) \in Seq(FreshStep)
<1>1. asg[a].parent \in Ids \cup {None}
  BY DEF Table, Assignment
<1>2. Continue(asg[a].parent, a) \in Seq(FreshStep)
  BY <1>1, RefreshType
<1>3. DecideStep(a, decision) \in FreshStep
  BY StepTypes
<1>4. QED
  BY <1>2, <1>3 DEF Settle

LEMMA ParkType ==
    ASSUME asg \in Table, NEW a \in Ids, NEW why \in Decisions
    PROVE  Park(a, why) \in Seq(FreshStep)
<1>1. asg[a].parent \in Ids \cup {None}
  BY DEF Table, Assignment
<1>2. Refresh(asg[a].parent) \in Seq(FreshStep)
  BY <1>1, RefreshType
<1>3. DecideStep(a, why) \in FreshStep /\ ScheduleStep({a}) \in FreshStep
  BY StepTypes
<1>4. QED
  BY <1>2, <1>3 DEF Park

LEMMA OutcomeType ==
    ASSUME asg \in Table, NEW a \in Ids, NEW status
    PROVE  Outcome(a, status) \in Seq(FreshStep)
<1>1. \A d \in {"completed", "blocked", "expired", "other"} : d \in Decisions
  BY DEF Decisions
<1>2. Settle(a, "completed") \in Seq(FreshStep) /\ Settle(a, "blocked") \in Seq(FreshStep)
  BY <1>1, SettleType
<1>3. Settle(a, "expired") \in Seq(FreshStep) /\ Park(a, "other") \in Seq(FreshStep)
  BY <1>1, SettleType, ParkType
<1>4. QED
  BY <1>2, <1>3 DEF Outcome

-----------------------------------------------------------------------------
(* Type correctness, an action at a time *)

\* What the code does to one row.
Changed(a, row) == asg' = [asg EXCEPT ![a] = row]

LEMMA RowType ==
    ASSUME asg \in Table, NEW a \in Ids, NEW row \in Assignment, Changed(a, row)
    PROVE  asg' \in Table
BY DEF Table, Changed

LEMMA RunType ==
    ASSUME TypeOK, NEW r \in runs
    PROVE  r.id \in Ids /\ r.wakeup \in Nat /\ r.marker \in Marker
BY DEF TypeOK, Run

LEMMA MarkerFields ==
    ASSUME NEW m \in Marker
    PROVE  /\ m.status \in {"none", "completed", "blocked", "continue"}
           /\ m.child \in {"none", "background", "waited"}
           /\ m.deps \in SUBSET Ids /\ m.mode \in {"all", "any"} /\ m.mutates \in BOOLEAN
BY DEF Marker

LEMMA MarkersType ==
    ASSUME NEW a \in Ids, NEW m \in Markers(a)
    PROVE  m \in Marker /\ m.deps \subseteq Children(asg, a)
           /\ (m.child = "none" => m.deps = {})
<1>1. m \in [status : {"completed", "blocked", "continue"},
             child : {"none", "background", "waited"},
             deps : SUBSET Children(asg, a), mode : {"all", "any"},
             mutates : {FALSE, MutationPolicies # {}}]
  BY DEF Markers
<1>2. Children(asg, a) \subseteq Ids
  BY DEF Children
<1>3. m \in Marker
  BY <1>1, <1>2 DEF Marker
<1>4. m.child = "none" => m.deps = {}
  BY DEF Markers
<1>5. QED
  BY <1>1, <1>3, <1>4

\* The kinds of steps.
LEMMA StepFields ==
    ASSUME NEW s \in Step
    PROVE  /\ s.step \in {"decide", "schedule", "resolve", "planner"}
           /\ s.step = "decide" => s.id \in Ids /\ s.decision \in Decisions
           /\ s.step = "schedule" => s.ids \in SUBSET Ids
           /\ s.step = "planner" => s.id \in Ids /\ s.marker \in Marker
           /\ s.step = "resolve" =>
                 s \in [step : {"resolve"}, parent : Ids, cause : Ids \cup {None}, changed : BOOLEAN,
                        before : [Ids -> LifecycleStates], todo : SUBSET Ids, activated : SUBSET Ids,
                        lost : SUBSET Ids]
BY DEF Step

LEMMA HeadStep ==
    ASSUME TypeOK, thread # <<>>
    PROVE  /\ Head(thread) \in Step /\ Tail(thread) \in Seq(Step)
BY DEF TypeOK

LEMMA LivesType ==
    ASSUME NEW table \in Table
    PROVE  Lives(table) \in [Ids -> LifecycleStates]
BY DEF Table, Lives, Assignment

LEMMA ResolvedType ==
    ASSUME NEW table \in Table, NEW life, NEW c \in Ids
    PROVE  /\ Resolution(table, life, c) \in {"nothing", "resume", "depBlocked", "deps", "other"}
           /\ Resolution(table, life, c) # "nothing" => Resolve(table, c, Resolution(table, life, c)) \in Table
<1>1. Resolution(table, life, c) \in {"nothing", "resume", "depBlocked", "deps", "other"}
  BY DEF Resolution
<1>2. table[c] \in Assignment
  BY DEF Table
<1>3. ASSUME NEW row \in Assignment PROVE [table EXCEPT ![c] = row] \in Table
  BY DEF Table
<1>4. Control(table, c, "resume") \in Table
  BY <1>2, <1>3, ControlledType DEF Control
<1>5. ASSUME NEW decision \in Decisions PROVE Decide(table, c, decision) \in Table
  BY <1>2, <1>3, DecidedType DEF Decide
<1>6. \A d \in {"depBlocked", "deps", "other"} : d \in Decisions
  BY DEF Decisions
<1>7. QED
  BY <1>1, <1>4, <1>5, <1>6 DEF Resolve

LEMMA PromoteType ==
    ASSUME asg \in Table, NEW p \in Ids, NEW c \in Ids, CanPromote(asg, p), NEW waited \in BOOLEAN,
           NEW deps \in SUBSET Ids, NEW mode \in {"all", "any"}, NEW requested \in Policy
    PROVE  Promote(asg, p, c, waited, deps, mode, requested) \in Table
<1>1. Funded(asg, p)
  BY DEF CanPromote, Funded
<1> DEFINE row == ChildRow(asg, p, waited, deps, mode, requested)
<1>2. row \in Assignment
  <2>1. Born(row, asg, p, waited, deps, mode)
    BY <1>1, ChildRowFacts
  <2>2. QED
    BY <2>1 DEF Born
<1>3. Promote(asg, p, c, waited, deps, mode, requested) = [asg EXCEPT ![c] = row]
  BY DEF Promote
<1> HIDE DEF row
<1>4. QED
  BY <1>2, <1>3 DEF Table

LEMMA FireType ==
    ASSUME TypeOK, NEW a \in Ids, FireJob(a)
    PROVE  TypeOK' /\ thread' \in Seq(FreshStep)
<1> USE DEF Table
<1>1. \A d \in {"expired", "depBlocked", "deps", "child"} : d \in Decisions
  BY DEF Decisions
<1>2. scheduled' \in SUBSET Ids /\ controlled' = controlled /\ crashed' = crashed
  BY DEF TypeOK, FireJob, SkipWakeup, ExpireIdle, RefuseLostDependency, RefusePendingDependency,
         RefuseReserved, StartWakeup, Wakes, Fires
<1>3. activeWakeups' \in SUBSET Ids
  BY DEF TypeOK, FireJob, SkipWakeup, ExpireIdle, RefuseLostDependency, RefusePendingDependency,
         RefuseReserved, StartWakeup, Wakes
<1>4. holder' \in Ids \cup {None}
  BY DEF TypeOK, FireJob, SkipWakeup, ExpireIdle, RefuseLostDependency, RefusePendingDependency,
         RefuseReserved, StartWakeup
<1>5. ASSUME thread' \in Seq(FreshStep), UNCHANGED <<asg, runs>>
      PROVE  TypeOK' /\ thread' \in Seq(FreshStep)
  BY <1>2, <1>3, <1>4, <1>5, FreshSteps DEF TypeOK
<1>6. CASE SkipWakeup(a)
  BY <1>5, <1>6 DEF SkipWakeup, Fires, Idle
<1>7. CASE ExpireIdle(a)
  BY <1>1, <1>5, <1>7, SettleType DEF ExpireIdle, TypeOK
<1>8. CASE RefuseLostDependency(a)
  BY <1>1, <1>5, <1>8, SettleType DEF RefuseLostDependency, TypeOK
<1>9. CASE RefusePendingDependency(a)
  <2>1. asg[a].parent \in Ids \cup {None}
    BY DEF TypeOK, Assignment
  <2>2. Refresh(asg[a].parent) \in Seq(FreshStep) /\ DecideStep(a, "deps") \in FreshStep
    BY <1>1, <2>1, RefreshType, StepTypes
  <2>3. QED
    BY <1>5, <1>9, <2>2 DEF RefusePendingDependency
<1>10. CASE RefuseReserved(a)
  BY <1>1, <1>5, <1>10, ParkType DEF RefuseReserved, TypeOK
<1>11. CASE StartWakeup(a)
  <2>1. asg' \in Table
    <3>1. Woken(asg[a]) \in Assignment
      BY WokenType DEF TypeOK
    <3>2. QED
      BY <1>11, <3>1 DEF StartWakeup, TypeOK
  <2>2. runs' \in SUBSET Run
    <3> DEFINE n == asg[a].wakeups + 1
               new == [id |-> a, wakeup |-> n, marker |-> NoMarker]
    <3>1. n \in Nat
      BY DEF TypeOK, Assignment
    <3>2. NoMarker \in Marker
      BY DEF NoMarker, Marker
    <3>3. runs' = runs \cup {new}
      BY <1>11 DEF StartWakeup
    <3> HIDE DEF n
    <3>4. new \in Run
      BY <3>1, <3>2 DEF Run
    <3>5. QED
      BY <3>3, <3>4 DEF TypeOK
  <2>3. thread' \in Seq(FreshStep)
    BY <1>11 DEF StartWakeup, Wakes, Fires, Idle
  <2>4. QED
    BY <1>2, <1>3, <1>4, <2>1, <2>2, <2>3, FreshSteps DEF TypeOK
<1>12. QED
  BY <1>6, <1>7, <1>8, <1>9, <1>10, <1>11 DEF FireJob

LEMMA RunRows ==
    ASSUME asg \in Table, NEW a \in Ids
    PROVE  RunSucceeded(a) \in Table /\ RunFailed(a) \in Table
<1> DEFINE n == asg[a].failures + 1
           lost == [asg[a] EXCEPT !.failures = n, !.open = FALSE]
           won == [asg[a] EXCEPT !.failures = 0, !.open = FALSE]
<1>1. asg[a] \in Assignment
  BY DEF Table
<1>2. n \in Nat
  BY <1>1 DEF Assignment
<1>3. RunFailed(a) = [asg EXCEPT ![a] = lost] /\ RunSucceeded(a) = [asg EXCEPT ![a] = won]
  BY DEF RunFailed, RunSucceeded
<1> HIDE DEF n
<1>4. lost \in Assignment /\ won \in Assignment
  BY <1>1, <1>2 DEF Assignment
<1> HIDE DEF lost, won
<1>5. QED
  BY <1>3, <1>4 DEF Table

LEMMA PolicyRow ==
    ASSUME asg \in Table, NEW a \in Ids, NEW policy \in Policy
    PROVE  [asg EXCEPT ![a].policy = policy] \in Table
<1> DEFINE row == [asg[a] EXCEPT !.policy = policy]
<1>1. row \in Assignment
  BY DEF Table, Assignment
<1>2. [asg EXCEPT ![a].policy = policy] = [asg EXCEPT ![a] = row]
  OBVIOUS
<1> HIDE DEF row
<1>3. QED
  BY <1>1, <1>2 DEF Table

LEMMA RunEndsType ==
    ASSUME TypeOK, NEW r \in runs, RunEnds(r)
    PROVE  TypeOK' /\ thread' \in Seq(FreshStep)
<1> USE DEF Table
<1>1. r.id \in Ids /\ r.marker \in Marker /\ r \in Run
  BY RunType DEF TypeOK
<1>2. asg \in Table
  BY DEF TypeOK
<1>3. ASSUME NEW m \in Marker PROVE <<PlannerStep(r.id, m)>> \in Seq(FreshStep)
  <2>1. PlannerStep(r.id, m) \in FreshStep
    BY <1>1, StepTypes
  <2>2. QED
    BY <2>1
<1>4. CASE \E m \in Markers(r.id) : RunReturns(r, m)
  <2>1. PICK m \in Markers(r.id) : RunReturns(r, m)
    BY <1>4
  <2>2. m \in Marker
    BY <1>1, MarkersType
  <2>3. asg' \in Table
    BY <1>1, <1>2, <2>1, RunRows DEF RunReturns
  <2>4. CASE m.mutates
    <3> DEFINE next == [r EXCEPT !.marker = m]
    <3>1. next \in Run
      BY <1>1, <2>2 DEF Run
    <3>2. runs' = (runs \ {r}) \cup {next} /\ UNCHANGED <<thread, holder>> /\ thread = <<>>
      BY <2>1, <2>4 DEF RunReturns, Idle
    <3> HIDE DEF next
    <3>3. runs' \in SUBSET Run
      BY <3>1, <3>2 DEF TypeOK
    <3>4. QED
      BY <2>1, <2>3, <3>2, <3>3 DEF RunReturns, TypeOK
  <2>5. CASE ~m.mutates
    <3>1. thread' \in Seq(FreshStep) /\ runs' \in SUBSET Run /\ holder' \in Ids
      BY <1>1, <1>3, <2>1, <2>2, <2>5 DEF RunReturns, TypeOK
    <3>2. QED
      BY <2>1, <2>3, <3>1, FreshSteps DEF RunReturns, TypeOK
  <2>6. QED
    BY <2>4, <2>5
<1>5. CASE MutationEnds(r)
  <2>1. PICK policy \in MutationPolicies \cup {asg[r.id].policy} :
           asg' = [asg EXCEPT ![r.id].policy = policy]
    BY <1>5 DEF MutationEnds
  <2>2. policy \in Policy
    BY <1>1, <1>2, PlannerAssumption DEF Assignment
  <2>3. asg' \in Table
    BY <1>1, <1>2, <2>1, <2>2, PolicyRow
  <2>4. thread' \in Seq(FreshStep) /\ runs' \in SUBSET Run /\ holder' \in Ids
    BY <1>1, <1>3, <1>5 DEF MutationEnds, TypeOK
  <2>5. QED
    BY <1>5, <2>3, <2>4, FreshSteps DEF MutationEnds, TypeOK
<1>6. CASE RunFails(r)
  <2>1. asg' \in Table
    BY <1>1, <1>2, <1>6, RunRows DEF RunFails
  <2>2. "failed" \in Decisions /\ "other" \in Decisions
    BY DEF Decisions
  <2>3. Settle(r.id, "failed") \in Seq(FreshStep) /\ Park(r.id, "other") \in Seq(FreshStep)
    BY <1>1, <1>2, <2>2, SettleType, ParkType
  <2>4. thread' \in Seq(FreshStep) /\ runs' \in SUBSET Run /\ holder' \in Ids
    BY <1>1, <1>6, <2>3 DEF RunFails, TypeOK
  <2>5. QED
    BY <1>6, <2>1, <2>4, FreshSteps DEF RunFails, TypeOK
<1>7. QED
  BY <1>4, <1>5, <1>6 DEF RunEnds

LEMMA PromoteThread ==
    ASSUME TypeOK, NEW c \in FreshChildren, PromoteChild(c)
    PROVE  asg' \in Table /\ thread' \in Seq(FreshStep)
<1> USE DEF Table
<1>0. asg \in Table
  BY DEF TypeOK
<1> DEFINE s == Head(thread)
           m == s.marker
           a == s.id
           waited == (m.child = "waited")
           promoted == Promote(asg, a, c, waited, m.deps, m.mode, asg[a].policy)
           child == CASE promoted[c].life = "active" -> <<ScheduleStep({c})>>
                      [] promoted[c].life = "blocked" -> Continue(a, c)
                      [] OTHER -> <<>>
           rest == IF waited /\ promoted[c].life # "blocked" THEN Park(a, "child") ELSE Outcome(a, m.status)
<1>1. a \in Ids /\ m \in Marker
  BY HeadStep, StepFields DEF PromoteChild
<1>2. c \in Ids
  BY DEF FreshChildren
<1>3. CanPromote(asg, a)
  BY DEF PromoteChild
<1>4. promoted \in Table
  <2>1. asg[a].policy \in Policy
    BY <1>0, <1>1 DEF Assignment
  <2>2. waited \in BOOLEAN /\ m.deps \in SUBSET Ids /\ m.mode \in {"all", "any"}
    BY <1>1, MarkerFields
  <2> HIDE DEF waited, m, a
  <2>3. QED
    BY <1>0, <1>1, <1>2, <1>3, <2>1, <2>2, PromoteType
<1>5. child \in Seq(FreshStep)
  <2>1. <<ScheduleStep({c})>> \in Seq(FreshStep)
    <3>1. ScheduleStep({c}) \in FreshStep
      BY <1>2, StepTypes
    <3>2. QED
      BY <3>1
  <2>2. Continue(a, c) \in Seq(FreshStep)
    BY <1>1, <1>2, RefreshType
  <2> HIDE DEF promoted, a
  <2>3. QED
    BY <2>1, <2>2
<1>6. rest \in Seq(FreshStep)
  <2>1. "child" \in Decisions
    BY DEF Decisions
  <2>2. Park(a, "child") \in Seq(FreshStep) /\ Outcome(a, m.status) \in Seq(FreshStep)
    BY <1>0, <1>1, <2>1, ParkType, OutcomeType
  <2> HIDE DEF promoted, a, m, waited
  <2>3. QED
    BY <2>2
<1>7. asg' = promoted /\ thread' = child \o rest
  BY DEF PromoteChild
<1> HIDE DEF promoted, child, rest
<1>8. asg' \in Table
  BY <1>4, <1>7
<1>9. thread' \in Seq(FreshStep)
  BY <1>5, <1>6, <1>7
<1>10. QED
  BY <1>8, <1>9

LEMMA ThreadType ==
    ASSUME TypeOK, ThreadStep
    PROVE  TypeOK'
<1> USE DEF Table
<1>1. asg \in Table /\ thread \in Seq(Step)
  BY DEF TypeOK
<1>2. ASSUME asg' \in Table, thread' \in Seq(Step), scheduled' \in SUBSET Ids,
             UNCHANGED <<runs, activeWakeups, holder, controlled, crashed>>
      PROVE  TypeOK'
  BY <1>2 DEF TypeOK
<1>3. ASSUME NEW c \in FreshChildren, PromoteChild(c) PROVE TypeOK'
  <2>1. asg' \in Table /\ thread' \in Seq(Step)
    BY <1>3, PromoteThread, FreshSteps
  <2>2. scheduled' \in SUBSET Ids /\ UNCHANGED <<runs, activeWakeups, holder, controlled, crashed>>
    BY <1>3 DEF PromoteChild, TypeOK
  <2>3. QED
    BY <1>2, <2>1, <2>2
<1>4. CASE NoChild
  <2>1. Head(thread).id \in Ids
    BY <1>4, HeadStep, StepFields DEF NoChild
  <2>2. thread' \in Seq(Step)
    BY <1>1, <1>4, <2>1, OutcomeType, FreshSteps DEF NoChild
  <2>3. QED
    BY <1>2, <1>4, <2>2 DEF NoChild, TypeOK
<1>5. CASE TakeDecision
  <2> DEFINE s == Head(thread)
  <2>1. s.id \in Ids /\ s.decision \in Decisions /\ thread' \in Seq(Step)
    BY <1>5, HeadStep, StepFields DEF TakeDecision
  <2>2. asg' = Decide(asg, s.id, s.decision)
    BY <1>5 DEF TakeDecision
  <2> HIDE DEF s
  <2>3. Decided(asg[s.id], s.decision) \in Assignment
    BY <1>1, <2>1, DecidedType
  <2>4. asg' \in Table
    BY <1>1, <2>1, <2>2, <2>3 DEF Decide
  <2>5. QED
    BY <1>2, <1>5, <2>1, <2>4 DEF TakeDecision, TypeOK
<1>6. CASE ScheduleNext
  <2> DEFINE s == Head(thread)
  <2>1. PICK a \in s.ids : /\ scheduled' = scheduled \cup {a}
                           /\ thread' = (IF s.ids = {a} THEN <<>> ELSE <<ScheduleStep(s.ids \ {a})>>) \o Tail(thread)
    BY <1>6 DEF ScheduleNext
  <2>2. s.ids \in SUBSET Ids /\ Tail(thread) \in Seq(Step)
    BY <1>6, HeadStep, StepFields DEF ScheduleNext
  <2> HIDE DEF s
  <2>3. ScheduleStep(s.ids \ {a}) \in Step
    BY <2>1, <2>2, StepTypes DEF FreshStep
  <2>4. thread' \in Seq(Step)
    BY <2>1, <2>2, <2>3
  <2>5. scheduled' \in SUBSET Ids
    BY <2>1, <2>2 DEF TypeOK
  <2>6. QED
    BY <1>1, <1>2, <1>6, <2>4, <2>5 DEF ScheduleNext
<1>7. CASE ResolveChild
  <2> DEFINE s == Head(thread)
  <2>1. PICK c \in s.todo :
           LET what == Resolution(asg, s.before, c)
               next == [s EXCEPT !.changed = TRUE, !.todo = @ \ {c},
                                 !.activated = IF what = "resume" THEN @ \cup {c} ELSE @,
                                 !.lost = IF what = "depBlocked" THEN @ \cup {c} ELSE @]
           IN  what # "nothing" /\ asg' = Resolve(asg, c, what) /\ thread' = <<next>> \o Tail(thread)
    BY <1>7 DEF ResolveChild
  <2> DEFINE what == Resolution(asg, s.before, c)
             todo == s.todo \ {c}
             activated == IF what = "resume" THEN s.activated \cup {c} ELSE s.activated
             lost == IF what = "depBlocked" THEN s.lost \cup {c} ELSE s.lost
             next == [s EXCEPT !.changed = TRUE, !.todo = todo, !.activated = activated, !.lost = lost]
  <2>2. /\ s \in [step : {"resolve"}, parent : Ids, cause : Ids \cup {None}, changed : BOOLEAN,
                  before : [Ids -> LifecycleStates], todo : SUBSET Ids, activated : SUBSET Ids,
                  lost : SUBSET Ids]
        /\ Tail(thread) \in Seq(Step)
    BY <1>7, HeadStep, StepFields DEF ResolveChild
  <2>3. what # "nothing" /\ asg' = Resolve(asg, c, what) /\ thread' = <<next>> \o Tail(thread)
    BY <2>1
  <2> HIDE DEF s
  <2>4. c \in Ids
    BY <2>1, <2>2
  <2>5. todo \in SUBSET Ids /\ activated \in SUBSET Ids /\ lost \in SUBSET Ids
    <3> HIDE DEF what
    <3>1. QED
      BY <2>2, <2>4
  <2>6. asg' \in Table
    BY <1>1, <2>3, <2>4, ResolvedType
  <2> HIDE DEF what, todo, activated, lost
  <2>7. next \in Step
    BY <2>2, <2>5 DEF Step
  <2> HIDE DEF next
  <2>8. thread' \in Seq(Step)
    BY <2>2, <2>3, <2>7
  <2>9. QED
    BY <1>2, <1>7, <2>6, <2>8 DEF ResolveChild, TypeOK
<1>8. CASE NextPass
  <2> DEFINE s == Head(thread)
             lives == Lives(asg)
             children == Children(asg, s.parent)
             next == [s EXCEPT !.changed = FALSE, !.before = lives, !.todo = children]
  <2>1. thread' = <<next>> \o Tail(thread)
    BY <1>8 DEF NextPass
  <2>2. /\ s \in [step : {"resolve"}, parent : Ids, cause : Ids \cup {None}, changed : BOOLEAN,
                  before : [Ids -> LifecycleStates], todo : SUBSET Ids, activated : SUBSET Ids,
                  lost : SUBSET Ids]
        /\ Tail(thread) \in Seq(Step)
    BY <1>8, HeadStep, StepFields DEF NextPass
  <2>3. lives \in [Ids -> LifecycleStates]
    BY <1>1, LivesType
  <2>4. children \in SUBSET Ids
    BY DEF Children
  <2> HIDE DEF s, lives, children
  <2>5. next \in Step
    BY <2>2, <2>3, <2>4 DEF Step
  <2> HIDE DEF next
  <2>6. thread' \in Seq(Step)
    BY <2>1, <2>2, <2>5
  <2>7. QED
    BY <1>1, <1>2, <1>8, <2>6 DEF NextPass, TypeOK
<1>9. CASE EndResolution
  <2>1. ASSUME NEW S \in SUBSET Ids PROVE <<ScheduleStep(S)>> \in Seq(Step)
    <3>1. ScheduleStep(S) \in Step
      BY <2>1 DEF ScheduleStep, Step
    <3>2. QED
      BY <3>1
  <2> DEFINE s == Head(thread)
             p == s.parent
             children == IF s.activated = {} THEN <<>> ELSE <<ScheduleStep(s.activated)>>
             waitedFor == \E c \in {s.cause} \cup s.activated \cup s.lost : asg[c].waited
             parent == IF /\ ActiveWaitedChildren(asg, p) = {}
                          /\ waitedFor
                          /\ ParentMayContinue(p)
                         THEN <<ScheduleStep({p})>> ELSE <<>>
             front == IF s.cause = None THEN <<>> ELSE children \o parent
  <2>2. thread' = front \o Tail(thread)
    BY <1>9 DEF EndResolution
  <2>3. p \in Ids /\ s.activated \in SUBSET Ids /\ Tail(thread) \in Seq(Step)
    BY <1>9, HeadStep, StepFields DEF EndResolution
  <2>4. children \in Seq(Step)
    <3> HIDE DEF s
    <3>1. QED
      BY <2>1, <2>3
  <2>5. parent \in Seq(Step)
    <3> HIDE DEF p, waitedFor
    <3>1. QED
      BY <2>1, <2>3
  <2> HIDE DEF children, parent
  <2>6. front \in Seq(Step)
    <3>1. children \o parent \in Seq(Step)
      BY <2>4, <2>5
    <3> HIDE DEF s
    <3>2. QED
      BY <3>1
  <2> HIDE DEF front
  <2>7. thread' \in Seq(Step)
    BY <2>2, <2>3, <2>6
  <2>8. QED
    BY <1>1, <1>2, <1>9, <2>7 DEF EndResolution, TypeOK
<1>10. CASE Release
  BY <1>10 DEF Release, TypeOK
<1>11. QED
  BY <1>3, <1>4, <1>5, <1>6, <1>7, <1>8, <1>9, <1>10 DEF ThreadStep

LEMMA OperatorType ==
    ASSUME TypeOK, OperatorRequest
    PROVE  TypeOK' /\ thread' \in Seq(FreshStep)
<1> USE DEF Table
<1>1. asg \in Table /\ (Idle => thread \in Seq(FreshStep))
  BY DEF TypeOK, Idle
<1>2. ASSUME asg' \in Table, thread' \in Seq(FreshStep), controlled' \in 0..MaxControls,
             UNCHANGED <<scheduled, runs, activeWakeups, holder, crashed>>
      PROVE  TypeOK' /\ thread' \in Seq(FreshStep)
  BY <1>2, FreshSteps DEF TypeOK
<1>3. controlled' \in 0..MaxControls
  <2>1. \/ controlled' = controlled
        \/ controlled < MaxControls /\ controlled' = controlled + 1
    BY DEF OperatorRequest, AdminCreate, AdminPromote, ControlRequest, ChangePolicy, Controls
  <2>2. QED
    BY <2>1, PlannerAssumption DEF TypeOK
<1>4. UNCHANGED <<scheduled, runs, activeWakeups, holder, crashed>>
  BY DEF OperatorRequest, AdminCreate, AdminPromote, ControlRequest, ChangePolicy, Controls, Operates
<1>5. ASSUME NEW a \in Roots, NEW policy \in Policies, AdminCreate(a, policy) PROVE TypeOK' /\ thread' \in Seq(FreshStep)
  <2>1. NewAssignment(policy) \in Assignment
    BY PlannerAssumption, NewAssignmentType
  <2>2. asg' \in Table /\ thread' \in Seq(FreshStep)
    BY <1>1, <1>5, <2>1 DEF AdminCreate, Operates
  <2>3. QED
    BY <1>2, <1>3, <1>4, <2>2
<1>6. ASSUME NEW p \in Ids, NEW c \in Ids, NEW policy \in Policies, AdminPromote(p, c, policy)
      PROVE  TypeOK' /\ thread' \in Seq(FreshStep)
  <2>1. policy \in Policy
    BY PlannerAssumption
  <2>2. CanPromote(asg, p) /\ asg' = Promote(asg, p, c, FALSE, {}, "all", policy)
    BY <1>6 DEF AdminPromote
  <2>3. asg' \in Table
    <3>1. FALSE \in BOOLEAN /\ {} \in SUBSET Ids /\ "all" \in {"all", "any"}
      OBVIOUS
    <3>2. QED
      BY <1>1, <2>1, <2>2, <3>1, PromoteType
  <2>4. thread' \in Seq(FreshStep)
    BY <1>1, <1>6 DEF AdminPromote, Operates
  <2>5. QED
    BY <1>2, <1>3, <1>4, <2>3, <2>4
<1>7. ASSUME NEW a \in Ids, NEW action, ControlRequest(a, action) PROVE TypeOK' /\ thread' \in Seq(FreshStep)
  <2>1. Controlled(asg[a], action) \in Assignment
    BY <1>1, ControlledType
  <2>2. asg' \in Table
    BY <1>1, <1>7, <2>1 DEF ControlRequest, Control
  <2>3. asg[a].parent \in Ids \cup {None}
    BY <1>1 DEF Assignment
  <2>4. Refresh(asg[a].parent) \in Seq(FreshStep) /\ Continue(asg[a].parent, a) \in Seq(FreshStep)
    BY <2>3, RefreshType
  <2>5. <<ScheduleStep({a})>> \in Seq(FreshStep)
    <3>1. ScheduleStep({a}) \in FreshStep
      BY StepTypes
    <3>2. QED
      BY <3>1
  <2>6. thread' \in Seq(FreshStep)
    <3> DEFINE dropped == IF action = "add_context" THEN <<>> ELSE Refresh(asg[a].parent)
               kept == IF action = "force_wakeup" THEN <<ScheduleStep({a})>> ELSE Continue(asg[a].parent, a)
    <3>1. dropped \in Seq(FreshStep) /\ kept \in Seq(FreshStep)
      BY <2>4, <2>5
    <3>2. thread' = dropped \o kept
      BY <1>7 DEF ControlRequest
    <3> HIDE DEF dropped, kept
    <3>3. QED
      BY <3>1, <3>2
  <2>7. QED
    BY <1>2, <1>3, <1>4, <2>2, <2>6
<1>8. ASSUME NEW a \in Ids, NEW policy \in Policies, ChangePolicy(a, policy) PROVE TypeOK' /\ thread' \in Seq(FreshStep)
  <2>1. asg' \in Table
    BY <1>1, <1>8, PolicyRow, PlannerAssumption DEF ChangePolicy
  <2>2. asg[a].parent \in Ids \cup {None}
    BY <1>1 DEF Assignment
  <2>3. thread' \in Seq(FreshStep)
    BY <1>8, <2>2, RefreshType DEF ChangePolicy
  <2>4. QED
    BY <1>2, <1>3, <1>4, <2>1, <2>3
<1>9. QED
  BY <1>5, <1>6, <1>7, <1>8 DEF OperatorRequest

LEMMA IntakeType ==
    ASSUME TypeOK, NEW a \in Roots, NEW policy \in Policies, Intake(a, policy)
    PROVE  TypeOK' /\ thread' \in Seq(FreshStep)
<1>1. a \in Ids /\ policy \in Policy
  BY PlannerAssumption
<1>2. NewAssignment(policy) \in Assignment
  BY <1>1, NewAssignmentType
<1>3. asg' \in Table
  BY <1>1, <1>2 DEF Intake, TypeOK, Table
<1>4. thread' \in Seq(FreshStep)
  <2>1. ScheduleStep({a}) \in FreshStep
    BY <1>1, StepTypes
  <2>2. QED
    BY <2>1 DEF Intake
<1>5. QED
  BY <1>3, <1>4, FreshSteps DEF Intake, TypeOK, Table

LEMMA InitType == Init => TypeOK
<1> SUFFICES ASSUME Init PROVE TypeOK
  OBVIOUS
<1>1. asg \in [Ids -> Assignment]
  BY PlannerAssumption DEF Init
<1>2. controlled \in 0..MaxControls /\ crashed \in 0..MaxCrashes
  BY PlannerAssumption DEF Init
<1>3. QED
  BY <1>1, <1>2 DEF Init, TypeOK

LEMMA StepType == TypeOK /\ [Next]_vars => TypeOK'
<1> SUFFICES ASSUME TypeOK, [Next]_vars PROVE TypeOK'
  OBVIOUS
<1>1. CASE UNCHANGED vars
  BY <1>1 DEF vars, TypeOK
<1>2. CASE CrashAndRestart
  <2>1. crashed' \in 0..MaxCrashes
    BY <1>2, PlannerAssumption DEF CrashAndRestart, TypeOK
  <2>2. QED
    BY <1>2, <2>1 DEF CrashAndRestart, TypeOK
<1>3. QED
  BY <1>1, <1>2, IntakeType, OperatorType, FireType, RunEndsType, ThreadType DEF Next

\* The tables, the timers, the awaited runs and the rest of the callback are always
\* of their types: a decision, a resolution and a schedule name only assignments of
\* the table, whatever was written to it, by whomever, and however often the
\* process died.
THEOREM TypeCorrect == Spec => []TypeOK
<1>1. Init => TypeOK
  BY InitType
<1>2. TypeOK /\ [Next]_vars => TypeOK'
  BY StepType
<1>3. QED
  BY <1>1, <1>2, PTL DEF Spec

-----------------------------------------------------------------------------
(* Resolution and the waits that are not its own *)

\* What resolution may do to a child that waits for something else.
LEMMA WaitsRespected ==
    ASSUME NEW table \in Table, NEW life, NEW c \in Ids,
           table[c].life \in {"waiting", "blocked"}, RestoresWait(table, c)
    PROVE  Resolution(table, life, c) \in {"nothing", "depBlocked", "other"}
BY DEF Resolution, RestoresWait, DependencyWaiting, DependencyBlocked, IsTerminal, TerminalStates

LEMMA WaitSurvives ==
    ASSUME NEW table \in Table, NEW c \in Ids, NEW decision \in {"depBlocked", "other"},
           table[c].life \in {"waiting", "blocked"}, RestoresWait(table, c)
    PROVE  /\ Resolve(table, c, decision)[c].life \in {"waiting", "blocked"}
           /\ RestoresWait(Resolve(table, c, decision), c)
<1> DEFINE row == Decided(table[c], decision)
<1>1. Resolve(table, c, decision) = [table EXCEPT ![c] = row]
  BY DEF Resolve, Decide
<1>2. row.life = IF decision = "other" THEN "waiting" ELSE "blocked"
  BY DEF Decided, Table, Assignment
<1>3. row.wait = IF decision = "other" THEN "other" ELSE table[c].wait
  BY DEF Decided, Table, Assignment
<1> HIDE DEF row
<1>4. Resolve(table, c, decision)[c] = row
  BY <1>1 DEF Table
<1>5. QED
  BY <1>2, <1>3, <1>4 DEF RestoresWait

\* A pass writes to the child whose turn it is, and to no other.
LEMMA OneResolved ==
    ASSUME NEW table \in Table, NEW c \in Ids, NEW d \in Ids, c # d, NEW what
    PROVE  Resolve(table, d, what)[c] = table[c]
BY DEF Resolve, Control, Decide, Table

\* Which steps are taken while a resolution is at the head of the callback.
LEMMA ResolutionSteps ==
    ASSUME Next, thread # <<>>, Head(thread).step = "resolve"
    PROVE  ResolveChild \/ UNCHANGED asg
<1>1. ASSUME NEW a \in Roots, NEW policy \in Policies, Intake(a, policy) PROVE FALSE
  BY <1>1 DEF Intake, Idle
<1>2. CASE OperatorRequest
  BY <1>2 DEF OperatorRequest, AdminCreate, AdminPromote, ControlRequest, ChangePolicy, Controls,
              Operates, Idle
<1>3. ASSUME NEW a \in Ids, FireJob(a) PROVE FALSE
  BY <1>3 DEF FireJob, SkipWakeup, ExpireIdle, RefuseLostDependency, RefusePendingDependency,
              RefuseReserved, StartWakeup, Wakes, Fires, Idle
<1>4. ASSUME NEW r \in runs, RunEnds(r) PROVE FALSE
  BY <1>4 DEF RunEnds, RunReturns, MutationEnds, RunFails, Idle
<1>5. CASE ThreadStep
  BY <1>5 DEF ThreadStep, PromoteChild, NoChild, TakeDecision, ScheduleNext, NextPass, EndResolution,
              Release
<1>6. CASE CrashAndRestart
  BY <1>6 DEF CrashAndRestart
<1>7. QED
  BY <1>1, <1>2, <1>3, <1>4, <1>5, <1>6 DEF Next

\* ResolutionRespectsWaits: whatever a resolution does to a child that an operator
\* paused or that waits for a later wakeup, it neither runs it nor overwrites its
\* wait by one for siblings: shouldRestoreWaitingAfterDependencyBlock, from every
\* table the service can be in, in every pass of every loop.
THEOREM ResolutionRespectsWaitsAlways == Spec => ResolutionRespectsWaits
<1> DEFINE Respects ==
             \A c \in Ids :
                /\ thread # <<>> /\ Head(thread).step = "resolve"
                /\ asg[c].life \in {"waiting", "blocked"} /\ RestoresWait(asg, c)
                => asg'[c].life \in {"waiting", "blocked"} /\ RestoresWait(asg', c)
<1>1. TypeOK /\ [Next]_vars => [Respects]_vars
  <2> SUFFICES ASSUME TypeOK, Next, NEW c \in Ids, thread # <<>>, Head(thread).step = "resolve",
                      asg[c].life \in {"waiting", "blocked"}, RestoresWait(asg, c)
               PROVE  asg'[c].life \in {"waiting", "blocked"} /\ RestoresWait(asg', c)
    OBVIOUS
  <2>1. asg \in Table
    BY DEF TypeOK, Table
  <2>2. CASE UNCHANGED asg
    BY <2>2 DEF RestoresWait
  <2>3. CASE ResolveChild
    <3> DEFINE life == Head(thread).before
    <3>1. PICK d \in Head(thread).todo : /\ Resolution(asg, life, d) # "nothing"
                                         /\ asg' = Resolve(asg, d, Resolution(asg, life, d))
      BY <2>3 DEF ResolveChild
    <3>2. d \in Ids
      BY <2>3, <3>1, HeadStep, StepFields DEF ResolveChild
    <3> HIDE DEF life
    <3>3. CASE d # c
      BY <2>1, <3>1, <3>2, <3>3, OneResolved DEF RestoresWait
    <3>4. CASE d = c
      BY <2>1, <3>1, <3>4, WaitsRespected, WaitSurvives
    <3>5. QED
      BY <3>3, <3>4
  <2>4. QED
    BY <2>2, <2>3, ResolutionSteps
<1>2. QED
  BY <1>1, TypeCorrect, PTL DEF Spec, ResolutionRespectsWaits

-----------------------------------------------------------------------------
(* A resolution that ends has settled its children *)

\* Only the step at the head of a callback is under way, and a resolution whose pass
\* has changed nothing yet still knows the children and their states as they are.
PassInv ==
    thread # <<>> =>
        /\ Tail(thread) \in Seq(FreshStep)
        /\ LET s == Head(thread)
           IN  s.step = "resolve" /\ ~s.changed =>
                 s.before = Lives(asg) /\ s.todo = Children(asg, s.parent)

LEMMA FreshPass ==
    ASSUME NEW t \in Seq(FreshStep), t # <<>>
    PROVE  /\ Tail(t) \in Seq(FreshStep)
           /\ Head(t).step = "resolve" => Head(t).changed
BY DEF FreshStep

LEMMA FreshStart ==
    ASSUME thread' \in Seq(FreshStep)
    PROVE  PassInv'
BY FreshPass DEF PassInv

\* What a callback goes on with once the step at its head is taken.
LEMMA FreshRest ==
    ASSUME NEW t \in Seq(FreshStep), NEW front \in Seq(FreshStep), thread' = front \o t
    PROVE  PassInv'
BY FreshStart

LEMMA PassStep == TypeOK /\ PassInv /\ [Next]_vars => PassInv'
<1> SUFFICES ASSUME TypeOK, PassInv, [Next]_vars PROVE PassInv'
  OBVIOUS
<1> DEFINE s == Head(thread)
<1>1. CASE UNCHANGED vars
  BY <1>1 DEF vars, PassInv, Lives, Children, Exists
<1>2. ASSUME NEW a \in Roots, NEW policy \in Policies, Intake(a, policy) PROVE PassInv'
  <2>1. ScheduleStep({a}) \in FreshStep
    BY PlannerAssumption, StepTypes
  <2>2. QED
    BY <1>2, <2>1, FreshStart DEF Intake
<1>3. CASE OperatorRequest
  BY <1>3, OperatorType, FreshStart
<1>4. ASSUME NEW a \in Ids, FireJob(a) PROVE PassInv'
  BY <1>4, FireType, FreshStart
<1>5. ASSUME NEW r \in runs, RunEnds(r) PROVE PassInv'
  BY <1>5, RunEndsType, FreshStart
<1>6. ASSUME NEW c \in FreshChildren, PromoteChild(c) PROVE PassInv'
  BY <1>6, PromoteThread, FreshStart
<1>7. CASE NoChild
  <2>1. s.id \in Ids /\ asg \in Table
    BY <1>7, HeadStep, StepFields DEF NoChild, TypeOK, Table
  <2>2. Outcome(s.id, s.marker.status) \in Seq(FreshStep)
    BY <2>1, OutcomeType
  <2>3. QED
    BY <1>7, <2>2, FreshStart DEF NoChild
<1>8. CASE TakeDecision
  BY <1>8, FreshStart DEF TakeDecision, PassInv
<1>9. CASE ScheduleNext
  <2>1. PICK a \in s.ids : thread' = (IF s.ids = {a} THEN <<>> ELSE <<ScheduleStep(s.ids \ {a})>>) \o Tail(thread)
    BY <1>9 DEF ScheduleNext
  <2>2. s.ids \in SUBSET Ids /\ Tail(thread) \in Seq(FreshStep)
    BY <1>9, HeadStep, StepFields DEF ScheduleNext, PassInv
  <2>3. ScheduleStep(s.ids \ {a}) \in FreshStep
    BY <2>2, StepTypes
  <2> HIDE DEF s
  <2>4. (IF s.ids = {a} THEN <<>> ELSE <<ScheduleStep(s.ids \ {a})>>) \in Seq(FreshStep)
    BY <2>3
  <2>5. QED
    BY <2>1, <2>2, <2>4, FreshRest
<1>10. CASE ResolveChild
  <2>1. PICK next : thread' = <<next>> \o Tail(thread) /\ next.changed
    <3>1. PICK c \in s.todo :
             LET what == Resolution(asg, s.before, c)
                 next == [s EXCEPT !.changed = TRUE, !.todo = @ \ {c},
                                   !.activated = IF what = "resume" THEN @ \cup {c} ELSE @,
                                   !.lost = IF what = "depBlocked" THEN @ \cup {c} ELSE @]
             IN  thread' = <<next>> \o Tail(thread)
      BY <1>10 DEF ResolveChild
    <3> DEFINE what == Resolution(asg, s.before, c)
               todo == s.todo \ {c}
               activated == IF what = "resume" THEN s.activated \cup {c} ELSE s.activated
               lost == IF what = "depBlocked" THEN s.lost \cup {c} ELSE s.lost
               next == [s EXCEPT !.changed = TRUE, !.todo = todo, !.activated = activated, !.lost = lost]
    <3>2. thread' = <<next>> \o Tail(thread)
      BY <3>1
    <3>3. s \in [step : {"resolve"}, parent : Ids, cause : Ids \cup {None}, changed : BOOLEAN,
                 before : [Ids -> LifecycleStates], todo : SUBSET Ids, activated : SUBSET Ids,
                 lost : SUBSET Ids]
      BY <1>10, HeadStep, StepFields DEF ResolveChild
    <3> HIDE DEF s, what, todo, activated, lost
    <3>4. next.changed
      BY <3>3
    <3>5. QED
      BY <3>2, <3>4
  <2>2. Tail(thread) \in Seq(FreshStep)
    BY <1>10 DEF ResolveChild, PassInv
  <2>3. Head(thread') = next /\ Tail(thread') = Tail(thread)
    BY <2>1, <2>2
  <2>4. QED
    BY <2>1, <2>2, <2>3 DEF PassInv
<1>11. CASE NextPass
  <2> DEFINE lives == Lives(asg)
             children == Children(asg, s.parent)
             next == [s EXCEPT !.changed = FALSE, !.before = lives, !.todo = children]
  <2>1. thread' = <<next>> \o Tail(thread) /\ asg' = asg
    BY <1>11 DEF NextPass
  <2>2. s \in [step : {"resolve"}, parent : Ids, cause : Ids \cup {None}, changed : BOOLEAN,
               before : [Ids -> LifecycleStates], todo : SUBSET Ids, activated : SUBSET Ids,
               lost : SUBSET Ids]
    BY <1>11, HeadStep, StepFields DEF NextPass
  <2>3. next.before = Lives(asg) /\ next.todo = Children(asg, next.parent)
    <3>1. next.before = lives /\ next.todo = children /\ next.parent = s.parent
      BY <2>2
    <3>2. QED
      BY <3>1
  <2>4. Tail(thread) \in Seq(FreshStep)
    BY <1>11 DEF NextPass, PassInv
  <2> HIDE DEF next, s
  <2>5. Head(thread') = next /\ Tail(thread') = Tail(thread)
    BY <2>1, <2>4
  <2>6. Lives(asg)' = Lives(asg) /\ Children(asg', next.parent) = Children(asg, next.parent)
    BY <2>1 DEF Lives
  <2>7. QED
    BY <2>3, <2>4, <2>5, <2>6 DEF PassInv
<1>12. CASE EndResolution
  <2> DEFINE p == s.parent
             children == IF s.activated = {} THEN <<>> ELSE <<ScheduleStep(s.activated)>>
             waitedFor == \E c \in {s.cause} \cup s.activated \cup s.lost : asg[c].waited
             parent == IF /\ ActiveWaitedChildren(asg, p) = {}
                          /\ waitedFor
                          /\ ParentMayContinue(p)
                         THEN <<ScheduleStep({p})>> ELSE <<>>
             front == IF s.cause = None THEN <<>> ELSE children \o parent
  <2>1. thread' = front \o Tail(thread)
    BY <1>12 DEF EndResolution
  <2>2. p \in Ids /\ s.activated \in SUBSET Ids /\ Tail(thread) \in Seq(FreshStep)
    BY <1>12, HeadStep, StepFields DEF EndResolution, PassInv
  <2>3. ASSUME NEW S \in SUBSET Ids PROVE <<ScheduleStep(S)>> \in Seq(FreshStep)
    <3>1. ScheduleStep(S) \in FreshStep
      BY <2>3 DEF ScheduleStep, Step, FreshStep
    <3>2. QED
      BY <3>1
  <2>4. children \in Seq(FreshStep)
    <3> HIDE DEF s
    <3>1. QED
      BY <2>2, <2>3
  <2>5. parent \in Seq(FreshStep)
    <3> HIDE DEF p, waitedFor
    <3>1. QED
      BY <2>2, <2>3
  <2> HIDE DEF children, parent
  <2>6. front \in Seq(FreshStep)
    <3>1. children \o parent \in Seq(FreshStep)
      BY <2>4, <2>5
    <3> HIDE DEF s
    <3>2. QED
      BY <3>1
  <2> HIDE DEF front
  <2>7. QED
    BY <2>1, <2>2, <2>6, FreshRest
<1>13. CASE Release
  BY <1>13, FreshStart DEF Release
<1>14. CASE CrashAndRestart
  BY <1>14, FreshStart DEF CrashAndRestart
<1>15. QED
  BY <1>1, <1>2, <1>3, <1>4, <1>5, <1>6, <1>7, <1>8, <1>9, <1>10, <1>11, <1>12, <1>13, <1>14
  DEF Next, ThreadStep

\* A child the pass leaves alone, by the states as they are, agrees with its siblings.
LEMMA NothingToResolve ==
    ASSUME NEW c \in Ids, Resolution(asg, Lives(asg), c) = "nothing"
    PROVE  AgreesWithSiblings(c)
<1> DEFINE state == DependencyNow(c)
<1>1. state = DependencyStateOf(asg, Lives(asg), c)
  BY DEF DependencyNow
<1>2. CASE IsTerminal(asg, c) \/ asg[c].deps = {}
  BY <1>2 DEF AgreesWithSiblings
<1>3. CASE ~IsTerminal(asg, c) /\ asg[c].deps # {}
  <2> HIDE DEF state
  <2>1. state = "blocked" => asg[c].life = "blocked"
    BY <1>1, <1>3 DEF Resolution
  <2>2. state = "waiting" => asg[c].life # "active"
    BY <1>1, <1>3 DEF Resolution
  <2>3. CASE state = "satisfied" /\ HasCapacityToReactivate(asg, c)
    <3>1. ~(\/ DependencyWaiting(asg, c)
            \/ DependencyBlocked(asg, c) /\ ~RestoresWait(asg, c))
      BY <1>1, <1>3, <2>3 DEF Resolution
    <3>2. QED
      BY <1>1, <2>3, <3>1 DEF AgreesWithSiblings, state
  <2>4. CASE ~(state = "satisfied" /\ HasCapacityToReactivate(asg, c))
    BY <2>1, <2>2, <2>4 DEF AgreesWithSiblings, state
  <2>5. QED
    BY <2>3, <2>4
<1>4. QED
  BY <1>2, <1>3

\* ResolutionSettles: when the loop of resolveChildDependencies ends, every child of
\* its parent agrees with the siblings it depends on, whatever table the service
\* started from, whatever its operator did, and wherever a process died before.
THEOREM ResolutionSettlesAlways == Spec => []ResolutionSettles
<1>1. Init => PassInv
  BY DEF Init, PassInv
<1>2. TypeOK /\ PassInv /\ [Next]_vars => PassInv'
  BY PassStep
<1>3. PassInv => ResolutionSettles
  <2> SUFFICES ASSUME PassInv, thread # <<>>, Head(thread).step = "resolve",
                      ResolutionOver(Head(thread)), NEW c \in Children(asg, Head(thread).parent)
               PROVE  AgreesWithSiblings(c)
    BY DEF ResolutionSettles
  <2>1. Resolution(asg, Lives(asg), c) = "nothing"
    BY DEF PassInv, ResolutionOver, PassOver
  <2>2. c \in Ids
    BY DEF Children
  <2>3. QED
    BY <2>1, <2>2, NothingToResolve
<1>4. QED
  BY <1>1, <1>2, <1>3, TypeCorrect, PTL DEF Spec

-----------------------------------------------------------------------------
(* The table and what the callbacks refer to *)

Existing(table) == {c \in Ids : Exists(table, c)}

\* Parents exist, and a child depends on siblings of its own.
Whole(table) ==
    \A c \in Ids :
        Exists(table, c) =>
          /\ table[c].parent # None => Exists(table, table[c].parent)
          /\ table[c].deps # {} => table[c].parent # None
          /\ table[c].deps \subseteq Children(table, table[c].parent) \ {c}

\* No row goes away, or is given to another parent or to other dependencies.
Kept(table, next) ==
    \A c \in Ids :
        Exists(table, c) =>
          /\ Exists(next, c)
          /\ next[c].parent = table[c].parent /\ next[c].deps = table[c].deps
          /\ next[c].mode = table[c].mode

\* The steps that speak of rows of the table only.
KnownStep(table, s) ==
    /\ s.step = "decide" => Exists(table, s.id)
    /\ s.step = "schedule" => s.ids \subseteq Existing(table)
    /\ s.step = "planner" => Exists(table, s.id) /\ s.marker.deps \subseteq Children(table, s.id)
    /\ s.step = "resolve" => /\ Exists(table, s.parent)
                             /\ s.todo \subseteq Children(table, s.parent)
                             /\ s.activated \subseteq Children(table, s.parent)

KnownSteps(table) == {s \in Step : KnownStep(table, s)}

KnownRun(table, r) == Exists(table, r.id) /\ r.marker.deps \subseteq Children(table, r.id)

WholeInv ==
    /\ Whole(asg)
    /\ scheduled \subseteq Existing(asg)
    /\ \A r \in runs : KnownRun(asg, r)
    /\ thread \in Seq(KnownSteps(asg))

LEMMA KeptChildren ==
    ASSUME NEW table, NEW next, Kept(table, next), NEW p
    PROVE  Children(table, p) \subseteq Children(next, p)
BY DEF Kept, Children

LEMMA KeptKnown ==
    ASSUME NEW table, NEW next, Kept(table, next)
    PROVE  /\ Existing(table) \subseteq Existing(next)
           /\ KnownSteps(table) \subseteq KnownSteps(next)
           /\ \A t \in Seq(KnownSteps(table)) : t \in Seq(KnownSteps(next))
<1>1. Existing(table) \subseteq Existing(next)
  BY DEF Kept, Existing
<1>2. \A a \in Ids : Exists(table, a) => Exists(next, a)
  BY DEF Kept
<1>3. ASSUME NEW s \in KnownSteps(table) PROVE s \in KnownSteps(next)
  <2>1. s \in Step /\ KnownStep(table, s)
    BY DEF KnownSteps
  <2>2. s.step = "decide" => Exists(next, s.id)
    BY <1>2, <2>1, StepFields DEF KnownStep
  <2>3. s.step = "schedule" => s.ids \subseteq Existing(next)
    BY <1>1, <2>1 DEF KnownStep
  <2>4. s.step = "planner" => Exists(next, s.id) /\ s.marker.deps \subseteq Children(next, s.id)
    BY <1>2, <2>1, StepFields, KeptChildren DEF KnownStep
  <2>5. s.step = "resolve" => /\ Exists(next, s.parent)
                              /\ s.todo \subseteq Children(next, s.parent)
                              /\ s.activated \subseteq Children(next, s.parent)
    BY <1>2, <2>1, StepFields, KeptChildren DEF KnownStep
  <2>6. QED
    BY <2>1, <2>2, <2>3, <2>4, <2>5 DEF KnownSteps, KnownStep
<1>4. KnownSteps(table) \subseteq KnownSteps(next)
  BY <1>3
<1>5. QED
  BY <1>1, <1>4

\* A write to a row of the table.
SameShape(row, next) ==
    /\ next.life # "absent" /\ next.parent = row.parent /\ next.deps = row.deps /\ next.mode = row.mode

LEMMA WriteKept ==
    ASSUME NEW table \in Table, NEW a \in Ids, NEW row, Exists(table, a), SameShape(table[a], row),
           NEW next, next = [table EXCEPT ![a] = row]
    PROVE  Kept(table, next) /\ (Whole(table) => Whole(next))
<1>1. \A c \in Ids : next[c] = IF c = a THEN row ELSE table[c]
  BY DEF Table
<1>2. \A c \in Ids : Exists(next, c) = Exists(table, c) /\ next[c].parent = table[c].parent
                       /\ next[c].deps = table[c].deps /\ next[c].mode = table[c].mode
  BY <1>1 DEF Exists, SameShape
<1>3. Kept(table, next)
  BY <1>2 DEF Kept
<1>4. \A p : Children(next, p) = Children(table, p)
  BY <1>2 DEF Children
<1>5. ASSUME Whole(table) PROVE Whole(next)
  <2> SUFFICES ASSUME NEW c \in Ids, Exists(next, c)
               PROVE  /\ next[c].parent # None => Exists(next, next[c].parent)
                      /\ next[c].deps # {} => next[c].parent # None
                      /\ next[c].deps \subseteq Children(next, next[c].parent) \ {c}
    BY DEF Whole
  <2>1. Exists(table, c) /\ next[c].parent = table[c].parent /\ next[c].deps = table[c].deps
    BY <1>2
  <2>2. table[c].parent # None => table[c].parent \in Ids
    BY DEF Table, Assignment
  <2>3. /\ table[c].parent # None => Exists(table, table[c].parent)
        /\ table[c].deps # {} => table[c].parent # None
        /\ table[c].deps \subseteq Children(table, table[c].parent) \ {c}
    BY <1>5, <2>1 DEF Whole
  <2>4. table[c].parent # None => Exists(next, table[c].parent)
    BY <1>2, <2>2, <2>3
  <2>5. QED
    BY <1>4, <2>1, <2>3, <2>4
<1>6. QED
  BY <1>3, <1>5

LEMMA BirthKept ==
    ASSUME NEW table \in Table, NEW c \in Ids, NEW row, ~Exists(table, c), row.life # "absent",
           row.parent = None \/ (row.parent \in Ids /\ Exists(table, row.parent)),
           row.deps # {} => row.parent # None,
           row.deps \subseteq Children(table, row.parent),
           NEW next, next = [table EXCEPT ![c] = row]
    PROVE  Kept(table, next) /\ (Whole(table) => Whole(next)) /\ Exists(next, c)
<1>1. \A d \in Ids : next[d] = IF d = c THEN row ELSE table[d]
  BY DEF Table
<1>2. Kept(table, next) /\ Exists(next, c)
  BY <1>1 DEF Kept, Exists
<1>3. \A p : Children(table, p) \subseteq Children(next, p)
  BY <1>2, KeptChildren
<1>4. ASSUME Whole(table) PROVE Whole(next)
  <2> SUFFICES ASSUME NEW d \in Ids, Exists(next, d)
               PROVE  /\ next[d].parent # None => Exists(next, next[d].parent)
                      /\ next[d].deps # {} => next[d].parent # None
                      /\ next[d].deps \subseteq Children(next, next[d].parent) \ {d}
    BY DEF Whole
  <2>1. CASE d = c
    <3>1. next[d] = row
      BY <1>1, <2>1
    <3>2. row.parent # None => Exists(next, row.parent)
      BY <1>2 DEF Kept
    <3>3. c \notin row.deps
      BY DEF Children
    <3>4. row.deps \subseteq Children(next, row.parent)
      BY <1>3
    <3>5. QED
      BY <2>1, <3>1, <3>2, <3>3, <3>4
  <2>2. CASE d # c
    <3>1. next[d] = table[d] /\ Exists(table, d)
      BY <1>1, <2>2 DEF Exists
    <3>2. table[d].parent # None => table[d].parent \in Ids
      BY DEF Table, Assignment
    <3>3. /\ table[d].parent # None => Exists(next, table[d].parent)
          /\ table[d].deps # {} => table[d].parent # None
          /\ table[d].deps \subseteq Children(table, table[d].parent) \ {d}
      BY <1>2, <1>4, <3>1, <3>2 DEF Whole, Kept
    <3>4. QED
      BY <1>3, <3>1, <3>3
  <2>3. QED
    BY <2>1, <2>2
<1>5. QED
  BY <1>2, <1>4

LEMMA DecidedShape ==
    ASSUME NEW row \in Assignment, NEW decision \in Decisions
    PROVE  SameShape(row, Decided(row, decision))
BY DEF SameShape, Decided, Decisions, Assignment

LEMMA ControlledShape ==
    ASSUME NEW row \in Assignment, row.life # "absent", NEW action
    PROVE  SameShape(row, Controlled(row, action))
BY DEF SameShape, Controlled, Assignment

LEMMA WokenShape ==
    ASSUME NEW row \in Assignment
    PROVE  SameShape(row, Woken(row))
BY DEF SameShape, Woken, Assignment

LEMMA SameTable ==
    ASSUME UNCHANGED asg, Whole(asg)
    PROVE  Kept(asg, asg') /\ Whole(asg')
BY DEF Kept, Exists

\* Steps a callback is given.
LEMMA KnownRefresh ==
    ASSUME NEW p \in Ids \cup {None}, p # None => Exists(asg, p), NEW cause \in Ids \cup {None}
    PROVE  /\ Refresh(p) \in Seq(KnownSteps(asg))
           /\ Continue(p, cause) \in Seq(KnownSteps(asg))
<1>1. ASSUME p # None, NEW by \in Ids \cup {None} PROVE ResolveStep(p, by) \in KnownSteps(asg)
  <2>1. ResolveStep(p, by) \in Step
    BY <1>1, ResolveStepType DEF FreshStep
  <2>2. KnownStep(asg, ResolveStep(p, by))
    BY <1>1 DEF KnownStep, ResolveStep
  <2>3. QED
    BY <2>1, <2>2 DEF KnownSteps
<1>2. CASE p = None
  BY <1>2 DEF Refresh, Continue
<1>3. CASE p # None
  <2>1. ResolveStep(p, None) \in KnownSteps(asg) /\ ResolveStep(p, cause) \in KnownSteps(asg)
    BY <1>1, <1>3
  <2>2. QED
    BY <1>3, <2>1 DEF Refresh, Continue
<1>4. QED
  BY <1>2, <1>3

LEMMA KnownSimple ==
    ASSUME NEW table \in Table, NEW a \in Ids, Exists(table, a)
    PROVE  /\ \A decision \in Decisions : DecideStep(a, decision) \in KnownSteps(table)
           /\ ScheduleStep({a}) \in KnownSteps(table)
           /\ \A marker \in Marker : marker.deps \subseteq Children(table, a) =>
                 PlannerStep(a, marker) \in KnownSteps(table)
<1>1. \A decision \in Decisions : DecideStep(a, decision) \in Step
  BY StepTypes DEF FreshStep
<1>2. ScheduleStep({a}) \in Step
  BY StepTypes DEF FreshStep
<1>3. \A marker \in Marker : PlannerStep(a, marker) \in Step
  BY StepTypes DEF FreshStep
<1>4. QED
  BY <1>1, <1>2, <1>3 DEF DecideStep, ScheduleStep, PlannerStep, KnownSteps, KnownStep, Existing

LEMMA KnownSchedule ==
    ASSUME NEW S \in SUBSET Ids, S \subseteq Existing(asg)
    PROVE  ScheduleStep(S) \in KnownSteps(asg)
<1>1. ScheduleStep(S) \in Step
  BY DEF ScheduleStep, Step
<1>2. QED
  BY <1>1 DEF ScheduleStep, KnownSteps, KnownStep

LEMMA ParentKnown ==
    ASSUME asg \in Table, Whole(asg), NEW a \in Ids, Exists(asg, a)
    PROVE  asg[a].parent \in Ids \cup {None} /\ (asg[a].parent # None => Exists(asg, asg[a].parent))
BY DEF Table, Assignment, Whole

LEMMA KnownOutcomes ==
    ASSUME asg \in Table, Whole(asg), NEW a \in Ids, Exists(asg, a)
    PROVE  /\ \A decision \in Decisions : Settle(a, decision) \in Seq(KnownSteps(asg))
           /\ \A why \in Decisions : Park(a, why) \in Seq(KnownSteps(asg))
           /\ \A status : Outcome(a, status) \in Seq(KnownSteps(asg))
<1> DEFINE p == asg[a].parent
<1>1. p \in Ids \cup {None} /\ (p # None => Exists(asg, p))
  BY ParentKnown
<1>2. Refresh(p) \in Seq(KnownSteps(asg)) /\ Continue(p, a) \in Seq(KnownSteps(asg))
  BY <1>1, KnownRefresh
<1>3. ASSUME NEW decision \in Decisions PROVE Settle(a, decision) \in Seq(KnownSteps(asg))
  <2>1. DecideStep(a, decision) \in KnownSteps(asg)
    BY KnownSimple
  <2>2. QED
    BY <1>2, <2>1 DEF Settle
<1>4. ASSUME NEW why \in Decisions PROVE Park(a, why) \in Seq(KnownSteps(asg))
  <2>1. DecideStep(a, why) \in KnownSteps(asg) /\ ScheduleStep({a}) \in KnownSteps(asg)
    BY KnownSimple
  <2>2. QED
    BY <1>2, <2>1 DEF Park
<1>5. \A d \in {"completed", "blocked", "expired", "other"} : d \in Decisions
  BY DEF Decisions
<1>6. /\ Settle(a, "completed") \in Seq(KnownSteps(asg)) /\ Settle(a, "blocked") \in Seq(KnownSteps(asg))
      /\ Settle(a, "expired") \in Seq(KnownSteps(asg)) /\ Park(a, "other") \in Seq(KnownSteps(asg))
  BY <1>3, <1>4, <1>5
<1>7. ASSUME NEW status PROVE Outcome(a, status) \in Seq(KnownSteps(asg))
  BY <1>6 DEF Outcome
<1>8. QED
  BY <1>3, <1>4, <1>7

\* What is left to show of a step.
LEMMA WholeBy ==
    ASSUME TypeOK, WholeInv, Kept(asg, asg'), Whole(asg'),
           scheduled' \subseteq scheduled \cup Existing(asg'),
           \A r \in runs' : r \in runs \/ KnownRun(asg', r),
           \/ thread' \in Seq(KnownSteps(asg))
           \/ thread' \in Seq(KnownSteps(asg'))
    PROVE  WholeInv'
<1>1. scheduled' \subseteq Existing(asg')
  BY KeptKnown DEF WholeInv
<1>2. thread' \in Seq(KnownSteps(asg'))
  BY KeptKnown
<1>3. ASSUME NEW r \in runs PROVE KnownRun(asg', r)
  <2>1. r.id \in Ids /\ KnownRun(asg, r)
    BY RunType DEF WholeInv
  <2>2. Exists(asg', r.id)
    BY <2>1 DEF KnownRun, Kept
  <2>3. Children(asg, r.id) \subseteq Children(asg', r.id)
    BY KeptChildren
  <2>4. QED
    BY <2>1, <2>2, <2>3 DEF KnownRun
<1>4. \A r \in runs' : KnownRun(asg', r)
  BY <1>3
<1>5. QED
  BY <1>1, <1>2, <1>4 DEF WholeInv

LEMMA WholeFire ==
    ASSUME TypeOK, WholeInv, NEW a \in Ids, FireJob(a)
    PROVE  WholeInv' /\ Kept(asg, asg')
<1>1. asg \in Table /\ Whole(asg) /\ Exists(asg, a)
  BY DEF TypeOK, Table, WholeInv, FireJob, SkipWakeup, ExpireIdle, RefuseLostDependency,
         RefusePendingDependency, RefuseReserved, StartWakeup, Wakes, Fires, Existing
<1>2. scheduled' \subseteq scheduled
  BY DEF FireJob, SkipWakeup, ExpireIdle, RefuseLostDependency, RefusePendingDependency,
         RefuseReserved, StartWakeup, Wakes, Fires
<1>3. \A d \in {"expired", "depBlocked", "deps", "child"} : d \in Decisions
  BY DEF Decisions
<1>4. /\ Settle(a, "expired") \in Seq(KnownSteps(asg)) /\ Settle(a, "depBlocked") \in Seq(KnownSteps(asg))
      /\ Park(a, "child") \in Seq(KnownSteps(asg))
  BY <1>1, <1>3, KnownOutcomes
<1>5. <<DecideStep(a, "deps")>> \o Refresh(asg[a].parent) \in Seq(KnownSteps(asg))
  <2>1. DecideStep(a, "deps") \in KnownSteps(asg)
    BY <1>1, <1>3, KnownSimple
  <2>2. Refresh(asg[a].parent) \in Seq(KnownSteps(asg))
    BY <1>1, ParentKnown, KnownRefresh
  <2>3. QED
    BY <2>1, <2>2
<1>6. CASE ~StartWakeup(a)
  <2>1. UNCHANGED <<asg, runs>>
    BY <1>6 DEF FireJob, SkipWakeup, ExpireIdle, RefuseLostDependency, RefusePendingDependency,
                RefuseReserved
  <2>2. thread' \in Seq(KnownSteps(asg))
    BY <1>4, <1>5, <1>6 DEF FireJob, SkipWakeup, ExpireIdle, RefuseLostDependency,
                             RefusePendingDependency, RefuseReserved, WholeInv
  <2>3. Kept(asg, asg') /\ Whole(asg')
    BY <1>1, <2>1, SameTable
  <2>4. QED
    BY <1>2, <2>1, <2>2, <2>3, WholeBy
<1>7. CASE StartWakeup(a)
  <2>1. asg[a] \in Assignment
    BY <1>1 DEF Table
  <2>2. Kept(asg, asg') /\ Whole(asg')
    <3> DEFINE row == Woken(asg[a])
    <3>1. SameShape(asg[a], row)
      BY <2>1, WokenShape
    <3>2. asg' = [asg EXCEPT ![a] = row]
      BY <1>7 DEF StartWakeup
    <3> HIDE DEF row
    <3>3. QED
      BY <1>1, <3>1, <3>2, WriteKept
  <2> DEFINE n == asg[a].wakeups + 1
             new == [id |-> a, wakeup |-> n, marker |-> NoMarker]
  <2>3. runs' = runs \cup {new}
    BY <1>7 DEF StartWakeup
  <2>4. KnownRun(asg', new)
    <3>1. Exists(asg', a)
      BY <1>1, <2>2 DEF Kept
    <3>2. QED
      BY <3>1 DEF KnownRun, NoMarker
  <2>5. thread' \in Seq(KnownSteps(asg))
    BY <1>7 DEF StartWakeup, WholeInv
  <2> HIDE DEF new
  <2>6. QED
    BY <1>2, <2>2, <2>3, <2>4, <2>5, WholeBy
<1>8. QED
  BY <1>6, <1>7

LEMMA TallyShape ==
    ASSUME asg \in Table, Whole(asg), NEW a \in Ids, Exists(asg, a), NEW n,
           asg' = [asg EXCEPT ![a] = [asg[a] EXCEPT !.failures = n, !.open = FALSE]]
    PROVE  Kept(asg, asg') /\ Whole(asg')
<1> DEFINE row == [asg[a] EXCEPT !.failures = n, !.open = FALSE]
<1>1. asg' = [asg EXCEPT ![a] = row]
  OBVIOUS
<1>2. SameShape(asg[a], row)
  BY DEF SameShape, Table, Assignment, Exists
<1> HIDE DEF row
<1>3. QED
  BY <1>1, <1>2, WriteKept

LEMMA TallyRows ==
    ASSUME asg \in Table, Whole(asg), NEW a \in Ids, Exists(asg, a)
    PROVE  /\ asg' = RunSucceeded(a) => Kept(asg, asg') /\ Whole(asg')
           /\ asg' = RunFailed(a) => Kept(asg, asg') /\ Whole(asg')
<1>1. ASSUME asg' = RunSucceeded(a) PROVE Kept(asg, asg') /\ Whole(asg')
  BY <1>1, TallyShape DEF RunSucceeded
<1>2. ASSUME asg' = RunFailed(a) PROVE Kept(asg, asg') /\ Whole(asg')
  <2> DEFINE n == asg[a].failures + 1
  <2>1. asg' = [asg EXCEPT ![a] = [asg[a] EXCEPT !.failures = n, !.open = FALSE]]
    BY <1>2 DEF RunFailed
  <2> HIDE DEF n
  <2>2. QED
    BY <2>1, TallyShape
<1>3. QED
  BY <1>1, <1>2

LEMMA PolicyShape ==
    ASSUME asg \in Table, Whole(asg), NEW a \in Ids, Exists(asg, a), NEW policy,
           asg' = [asg EXCEPT ![a].policy = policy]
    PROVE  Kept(asg, asg') /\ Whole(asg')
<1> DEFINE row == [asg[a] EXCEPT !.policy = policy]
<1>1. asg' = [asg EXCEPT ![a] = row]
  OBVIOUS
<1>2. SameShape(asg[a], row)
  BY DEF SameShape, Table, Assignment, Exists
<1> HIDE DEF row
<1>3. QED
  BY <1>1, <1>2, WriteKept

LEMMA WholeRun ==
    ASSUME TypeOK, WholeInv, NEW r \in runs, RunEnds(r)
    PROVE  WholeInv' /\ Kept(asg, asg')
<1>1. asg \in Table /\ Whole(asg) /\ r.id \in Ids /\ Exists(asg, r.id)
  BY RunType DEF TypeOK, Table, WholeInv, KnownRun
<1>2. scheduled' = scheduled
  BY DEF RunEnds, RunReturns, MutationEnds, RunFails
<1>3. CASE \E m \in Markers(r.id) : RunReturns(r, m)
  <2>1. PICK m \in Markers(r.id) : RunReturns(r, m)
    BY <1>3
  <2>2. m \in Marker /\ m.deps \subseteq Children(asg, r.id)
    BY <1>1, MarkersType
  <2>3. Kept(asg, asg') /\ Whole(asg')
    <3>1. asg' = RunSucceeded(r.id)
      BY <2>1 DEF RunReturns
    <3>2. QED
      BY <1>1, <3>1, TallyRows
  <2>4. CASE m.mutates
    <3> DEFINE next == [r EXCEPT !.marker = m]
    <3>1. runs' = (runs \ {r}) \cup {next} /\ thread' = thread
      BY <2>1, <2>4 DEF RunReturns
    <3>2. next.id = r.id /\ next.marker = m
      BY DEF TypeOK, Run
    <3>3. Exists(asg', r.id) /\ Children(asg, r.id) \subseteq Children(asg', r.id)
      BY <1>1, <2>3, KeptChildren DEF Kept
    <3>4. KnownRun(asg', next)
      BY <2>2, <3>2, <3>3 DEF KnownRun
    <3> HIDE DEF next
    <3>5. thread' \in Seq(KnownSteps(asg))
      BY <3>1 DEF WholeInv
    <3>6. QED
      BY <1>2, <2>3, <3>1, <3>4, <3>5, WholeBy
  <2>5. CASE ~m.mutates
    <3>1. runs' \subseteq runs /\ thread' = <<PlannerStep(r.id, m)>>
      BY <2>1, <2>5 DEF RunReturns
    <3>2. PlannerStep(r.id, m) \in KnownSteps(asg)
      BY <1>1, <2>2, KnownSimple
    <3>3. thread' \in Seq(KnownSteps(asg))
      BY <3>1, <3>2
    <3>4. QED
      BY <1>2, <2>3, <3>1, <3>3, WholeBy
  <2>6. QED
    BY <2>4, <2>5
<1>4. CASE MutationEnds(r)
  <2>1. Kept(asg, asg') /\ Whole(asg')
    BY <1>1, <1>4, PolicyShape DEF MutationEnds
  <2>2. PlannerStep(r.id, r.marker) \in KnownSteps(asg)
    BY <1>1, RunType, KnownSimple DEF WholeInv, KnownRun
  <2>3. runs' \subseteq runs /\ thread' \in Seq(KnownSteps(asg))
    BY <1>4, <2>2 DEF MutationEnds
  <2>4. QED
    BY <1>2, <2>1, <2>3, WholeBy
<1>5. CASE RunFails(r)
  <2>1. Kept(asg, asg') /\ Whole(asg')
    <3>1. asg' = RunFailed(r.id)
      BY <1>5 DEF RunFails
    <3>2. QED
      BY <1>1, <3>1, TallyRows
  <2>2. "failed" \in Decisions /\ "other" \in Decisions
    BY DEF Decisions
  <2>3. Settle(r.id, "failed") \in Seq(KnownSteps(asg)) /\ Park(r.id, "other") \in Seq(KnownSteps(asg))
    BY <1>1, <2>2, KnownOutcomes
  <2>4. runs' \subseteq runs /\ thread' \in Seq(KnownSteps(asg))
    BY <1>5, <2>3 DEF RunFails
  <2>5. QED
    BY <1>2, <2>1, <2>4, WholeBy
<1>6. QED
  BY <1>3, <1>4, <1>5 DEF RunEnds

LEMMA PromoteKept ==
    ASSUME asg \in Table, NEW p \in Ids, Exists(asg, p), CanPromote(asg, p), NEW c \in FreshChildren,
           NEW waited \in BOOLEAN, NEW deps \in SUBSET Children(asg, p), NEW mode \in {"all", "any"},
           NEW requested \in Policy, asg' = Promote(asg, p, c, waited, deps, mode, requested)
    PROVE  /\ Kept(asg, asg') /\ (Whole(asg) => Whole(asg')) /\ Exists(asg', c)
           /\ Born(asg'[c], asg, p, waited, deps, mode)
           /\ \A d \in Ids \ {c} : asg'[d] = asg[d]
           /\ c \in Ids /\ ~Exists(asg, c)
<1> DEFINE row == ChildRow(asg, p, waited, deps, mode, requested)
<1>1. deps \in SUBSET Ids
  BY DEF Children
<1>2. Funded(asg, p)
  BY DEF CanPromote, Funded
<1>3. Born(row, asg, p, waited, deps, mode)
  BY <1>1, <1>2, ChildRowFacts
<1>4. c \in Ids /\ ~Exists(asg, c)
  BY DEF FreshChildren
<1>5. asg' = [asg EXCEPT ![c] = row]
  BY DEF Promote
<1> HIDE DEF row
<1>6. row.parent = p /\ row.deps = deps /\ row.life # "absent"
  BY <1>3 DEF Born
<1>7. p # None
  BY NoneAssumption
<1>8. Kept(asg, asg') /\ (Whole(asg) => Whole(asg')) /\ Exists(asg', c)
  BY <1>4, <1>5, <1>6, <1>7, BirthKept
<1>9. asg'[c] = row /\ \A d \in Ids \ {c} : asg'[d] = asg[d]
  BY <1>4, <1>5 DEF Table
<1>10. QED
  BY <1>3, <1>4, <1>8, <1>9

LEMMA WholePromote ==
    ASSUME TypeOK, WholeInv, NEW c \in FreshChildren, PromoteChild(c)
    PROVE  WholeInv' /\ Kept(asg, asg')
<1> DEFINE s == Head(thread)
           m == s.marker
           a == s.id
           waited == (m.child = "waited")
           promoted == Promote(asg, a, c, waited, m.deps, m.mode, asg[a].policy)
           child == CASE promoted[c].life = "active" -> <<ScheduleStep({c})>>
                      [] promoted[c].life = "blocked" -> Continue(a, c)
                      [] OTHER -> <<>>
           rest == IF waited /\ promoted[c].life # "blocked" THEN Park(a, "child") ELSE Outcome(a, m.status)
<1>1. a \in Ids /\ m \in Marker /\ s \in KnownSteps(asg)
  <2>1. thread # <<>> /\ s.step = "planner"
    BY DEF PromoteChild
  <2>2. s \in KnownSteps(asg)
    BY <2>1 DEF WholeInv
  <2>3. QED
    BY <2>1, <2>2, HeadStep, StepFields
<1>2. asg \in Table /\ Whole(asg) /\ Exists(asg, a) /\ m.deps \subseteq Children(asg, a)
  BY <1>1 DEF TypeOK, Table, WholeInv, KnownSteps, KnownStep, PromoteChild
<1>3. asg' = promoted /\ thread' = child \o rest /\ scheduled' = scheduled /\ runs' = runs
  BY DEF PromoteChild
<1>4. Kept(asg, asg') /\ Whole(asg') /\ Exists(asg', c) /\ c \in Ids
  <2>1. CanPromote(asg, a)
    BY DEF PromoteChild
  <2>2. asg[a].policy \in Policy
    BY <1>1, <1>2 DEF Table, Assignment
  <2>3. waited \in BOOLEAN /\ m.deps \in SUBSET Children(asg, a) /\ m.mode \in {"all", "any"}
    BY <1>1, <1>2, MarkerFields
  <2> HIDE DEF waited, m, a
  <2>4. QED
    BY <1>1, <1>2, <1>3, <2>1, <2>2, <2>3, PromoteKept
<1>5. asg' \in Table
  BY PromoteThread
<1>6. child \in Seq(KnownSteps(asg'))
  <2>1. <<ScheduleStep({c})>> \in Seq(KnownSteps(asg'))
    <3>1. ScheduleStep({c}) \in KnownSteps(asg')
      BY <1>4, <1>5, KnownSimple
    <3>2. QED
      BY <3>1
  <2>2. Continue(a, c) \in Seq(KnownSteps(asg'))
    <3>1. Continue(a, c) \in Seq(KnownSteps(asg))
      BY <1>1, <1>2, <1>4, KnownRefresh
    <3>2. QED
      BY <1>4, <3>1, KeptKnown
  <2> HIDE DEF promoted, a
  <2>3. QED
    BY <2>1, <2>2
<1>7. rest \in Seq(KnownSteps(asg'))
  <2>1. "child" \in Decisions
    BY DEF Decisions
  <2>2. Park(a, "child") \in Seq(KnownSteps(asg)) /\ Outcome(a, m.status) \in Seq(KnownSteps(asg))
    BY <1>1, <1>2, <2>1, KnownOutcomes
  <2>3. Park(a, "child") \in Seq(KnownSteps(asg')) /\ Outcome(a, m.status) \in Seq(KnownSteps(asg'))
    BY <1>4, <2>2, KeptKnown
  <2> HIDE DEF promoted, a, m, waited
  <2>4. QED
    BY <2>3
<1> HIDE DEF child, rest, promoted
<1>8. thread' \in Seq(KnownSteps(asg'))
  BY <1>3, <1>6, <1>7
<1>9. QED
  BY <1>3, <1>4, <1>8, WholeBy

LEMMA WholeResolve ==
    ASSUME TypeOK, WholeInv, ResolveChild
    PROVE  WholeInv' /\ Kept(asg, asg')
<1> DEFINE s == Head(thread)
<1>1. PICK c \in s.todo :
         LET what == Resolution(asg, s.before, c)
             next == [s EXCEPT !.changed = TRUE, !.todo = @ \ {c},
                               !.activated = IF what = "resume" THEN @ \cup {c} ELSE @,
                               !.lost = IF what = "depBlocked" THEN @ \cup {c} ELSE @]
         IN  what # "nothing" /\ asg' = Resolve(asg, c, what) /\ thread' = <<next>> \o Tail(thread)
  BY DEF ResolveChild
<1> DEFINE what == Resolution(asg, s.before, c)
           todo == s.todo \ {c}
           activated == IF what = "resume" THEN s.activated \cup {c} ELSE s.activated
           lost == IF what = "depBlocked" THEN s.lost \cup {c} ELSE s.lost
           next == [s EXCEPT !.changed = TRUE, !.todo = todo, !.activated = activated, !.lost = lost]
<1>2. /\ s \in [step : {"resolve"}, parent : Ids, cause : Ids \cup {None}, changed : BOOLEAN,
                before : [Ids -> LifecycleStates], todo : SUBSET Ids, activated : SUBSET Ids,
                lost : SUBSET Ids]
      /\ s \in KnownSteps(asg) /\ Tail(thread) \in Seq(KnownSteps(asg))
  BY HeadStep, StepFields DEF ResolveChild, WholeInv
<1>3. what # "nothing" /\ asg' = Resolve(asg, c, what) /\ thread' = <<next>> \o Tail(thread)
  BY <1>1
<1>4. asg \in Table /\ Whole(asg)
  BY DEF TypeOK, Table, WholeInv
<1> HIDE DEF s
<1>5. /\ Exists(asg, s.parent) /\ s.todo \subseteq Children(asg, s.parent)
      /\ s.activated \subseteq Children(asg, s.parent)
  BY <1>2 DEF KnownSteps, KnownStep
<1>6. c \in Children(asg, s.parent) /\ c \in Ids /\ Exists(asg, c)
  BY <1>1, <1>5 DEF Children
<1>7. Kept(asg, asg') /\ Whole(asg')
  <2>1. what \in {"resume", "depBlocked", "deps", "other"}
    BY <1>3, <1>4, <1>6, ResolvedType
  <2>2. asg[c] \in Assignment /\ asg[c].life # "absent"
    BY <1>4, <1>6 DEF Table, Exists
  <2>3. CASE what = "resume"
    <3> DEFINE row == Controlled(asg[c], "resume")
    <3>1. SameShape(asg[c], row)
      BY <2>2, ControlledShape
    <3>2. asg' = [asg EXCEPT ![c] = row]
      BY <1>3, <2>3 DEF Resolve, Control
    <3> HIDE DEF row
    <3>3. QED
      BY <1>4, <1>6, <3>1, <3>2, WriteKept
  <2>4. CASE what # "resume"
    <3> DEFINE row == Decided(asg[c], what)
    <3>1. what \in Decisions
      BY <2>1, <2>4 DEF Decisions
    <3>2. SameShape(asg[c], row)
      BY <2>2, <3>1, DecidedShape
    <3>3. asg' = [asg EXCEPT ![c] = row]
      BY <1>3, <2>4 DEF Resolve, Decide
    <3> HIDE DEF row
    <3>4. QED
      BY <1>4, <1>6, <3>2, <3>3, WriteKept
  <2>5. QED
    BY <2>3, <2>4
<1>8. next \in KnownSteps(asg)
  <2>1. todo \in SUBSET Ids /\ activated \in SUBSET Ids /\ lost \in SUBSET Ids
    <3> HIDE DEF what
    <3>1. QED
      BY <1>2, <1>6
  <2>2. todo \subseteq Children(asg, s.parent) /\ activated \subseteq Children(asg, s.parent)
    <3> HIDE DEF what
    <3>1. QED
      BY <1>5, <1>6
  <2> HIDE DEF what, todo, activated, lost
  <2>3. next \in Step
    BY <1>2, <2>1 DEF Step
  <2>4. /\ next.step = "resolve" /\ next.parent = s.parent /\ next.todo = todo
        /\ next.activated = activated
    BY <1>2
  <2> HIDE DEF next
  <2>5. QED
    BY <1>5, <2>2, <2>3, <2>4 DEF KnownSteps, KnownStep
<1> HIDE DEF what, next
<1>9. thread' \in Seq(KnownSteps(asg))
  BY <1>2, <1>3, <1>8
<1>10. scheduled' = scheduled /\ runs' = runs
  BY DEF ResolveChild
<1>11. QED
  BY <1>7, <1>9, <1>10, WholeBy

\* The steps of a callback that write no row of the table but the one they name.
LEMMA WholeThread ==
    ASSUME TypeOK, WholeInv, ThreadStep
    PROVE  WholeInv' /\ Kept(asg, asg')
<1> DEFINE s == Head(thread)
<1>1. asg \in Table /\ Whole(asg)
  BY DEF TypeOK, Table, WholeInv
<1>2. ASSUME thread # <<>>
      PROVE  s \in Step /\ KnownStep(asg, s) /\ s \in KnownSteps(asg) /\ Tail(thread) \in Seq(KnownSteps(asg))
  BY <1>2, HeadStep DEF WholeInv, KnownSteps
<1>3. ASSUME NEW c \in FreshChildren, PromoteChild(c) PROVE WholeInv' /\ Kept(asg, asg')
  BY <1>3, WholePromote
<1>4. CASE NoChild
  <2>1. thread # <<>> /\ s.step = "planner"
    BY <1>4 DEF NoChild
  <2>2. s.id \in Ids /\ Exists(asg, s.id)
    BY <1>2, <2>1, StepFields DEF KnownStep
  <2>3. Outcome(s.id, s.marker.status) \in Seq(KnownSteps(asg))
    BY <1>1, <2>2, KnownOutcomes
  <2>4. thread' \in Seq(KnownSteps(asg)) /\ UNCHANGED <<asg, scheduled, runs>>
    BY <1>4, <2>3 DEF NoChild
  <2>5. QED
    BY <1>1, <2>4, SameTable, WholeBy
<1>5. CASE TakeDecision
  <2>1. thread # <<>> /\ s.step = "decide"
    BY <1>5 DEF TakeDecision
  <2>2. s.id \in Ids /\ s.decision \in Decisions /\ Exists(asg, s.id)
    BY <1>2, <2>1, StepFields DEF KnownStep
  <2> DEFINE a == s.id
             row == Decided(asg[a], s.decision)
  <2>3. asg[a] \in Assignment
    BY <1>1, <2>2 DEF Table
  <2>4. SameShape(asg[a], row)
    BY <2>2, <2>3, DecidedShape
  <2>5. asg' = [asg EXCEPT ![a] = row] /\ a \in Ids /\ Exists(asg, a)
    BY <1>5, <2>2 DEF TakeDecision, Decide
  <2> HIDE DEF row, a
  <2>6. Kept(asg, asg') /\ Whole(asg')
    BY <1>1, <2>4, <2>5, WriteKept
  <2>7. thread' \in Seq(KnownSteps(asg)) /\ UNCHANGED <<scheduled, runs>>
    BY <1>2, <1>5, <2>1 DEF TakeDecision
  <2>8. QED
    BY <2>6, <2>7, WholeBy
<1>6. CASE ScheduleNext
  <2>1. thread # <<>> /\ s.step = "schedule"
    BY <1>6 DEF ScheduleNext
  <2>2. PICK a \in s.ids : /\ scheduled' = scheduled \cup {a}
                           /\ thread' = (IF s.ids = {a} THEN <<>> ELSE <<ScheduleStep(s.ids \ {a})>>) \o Tail(thread)
    BY <1>6 DEF ScheduleNext
  <2>3. s.ids \in SUBSET Ids /\ s.ids \subseteq Existing(asg) /\ UNCHANGED <<asg, runs>>
    BY <1>2, <1>6, <2>1, StepFields DEF KnownStep, ScheduleNext
  <2>4. ScheduleStep(s.ids \ {a}) \in KnownSteps(asg)
    BY <2>3, KnownSchedule
  <2>5. (IF s.ids = {a} THEN <<>> ELSE <<ScheduleStep(s.ids \ {a})>>) \in Seq(KnownSteps(asg))
    <3> HIDE DEF s
    <3>1. QED
      BY <2>4
  <2>6. thread' \in Seq(KnownSteps(asg))
    BY <1>2, <2>1, <2>2, <2>5
  <2>7. scheduled' \subseteq scheduled \cup Existing(asg')
    BY <2>2, <2>3 DEF Existing
  <2>8. QED
    BY <1>1, <2>3, <2>6, <2>7, SameTable, WholeBy
<1>7. CASE ResolveChild
  BY <1>7, WholeResolve
<1>8. CASE NextPass
  <2> DEFINE lives == Lives(asg)
             children == Children(asg, s.parent)
             next == [s EXCEPT !.changed = FALSE, !.before = lives, !.todo = children]
  <2>1. thread # <<>> /\ s.step = "resolve" /\ thread' = <<next>> \o Tail(thread)
    BY <1>8 DEF NextPass
  <2>2. /\ s \in [step : {"resolve"}, parent : Ids, cause : Ids \cup {None}, changed : BOOLEAN,
                  before : [Ids -> LifecycleStates], todo : SUBSET Ids, activated : SUBSET Ids,
                  lost : SUBSET Ids]
    BY <2>1, HeadStep, StepFields
  <2>3. Exists(asg, s.parent) /\ s.activated \subseteq Children(asg, s.parent)
    BY <1>2, <2>1 DEF KnownStep
  <2>4. lives \in [Ids -> LifecycleStates]
    BY <1>1, LivesType
  <2>5. children \in SUBSET Ids
    BY DEF Children
  <2>6. children \subseteq Children(asg, s.parent)
    OBVIOUS
  <2>7. next \in KnownSteps(asg)
    <3> HIDE DEF s, lives, children
    <3>1. next \in Step
      BY <2>2, <2>4, <2>5 DEF Step
    <3>2. /\ next.step = "resolve" /\ next.parent = s.parent /\ next.todo = children
          /\ next.activated = s.activated
      BY <2>2
    <3> HIDE DEF next
    <3>3. QED
      BY <2>3, <2>6, <3>1, <3>2 DEF KnownSteps, KnownStep
  <2> HIDE DEF next
  <2>8. thread' \in Seq(KnownSteps(asg))
    BY <1>2, <2>1, <2>7
  <2>9. UNCHANGED <<asg, scheduled, runs>>
    BY <1>8 DEF NextPass
  <2>10. QED
    BY <1>1, <2>8, <2>9, SameTable, WholeBy
<1>9. CASE EndResolution
  <2> DEFINE p == s.parent
             children == IF s.activated = {} THEN <<>> ELSE <<ScheduleStep(s.activated)>>
             waitedFor == \E c \in {s.cause} \cup s.activated \cup s.lost : asg[c].waited
             parent == IF /\ ActiveWaitedChildren(asg, p) = {}
                          /\ waitedFor
                          /\ ParentMayContinue(p)
                         THEN <<ScheduleStep({p})>> ELSE <<>>
             front == IF s.cause = None THEN <<>> ELSE children \o parent
  <2>1. thread # <<>> /\ s.step = "resolve" /\ thread' = front \o Tail(thread)
    BY <1>9 DEF EndResolution
  <2>2. /\ p \in Ids /\ s.activated \in SUBSET Ids /\ Exists(asg, p)
        /\ s.activated \subseteq Existing(asg)
    BY <1>2, <2>1, StepFields DEF KnownStep, Children, Existing
  <2>3. ScheduleStep(s.activated) \in KnownSteps(asg) /\ ScheduleStep({p}) \in KnownSteps(asg)
    BY <1>1, <2>2, KnownSchedule, KnownSimple
  <2>4. children \in Seq(KnownSteps(asg))
    <3> HIDE DEF s
    <3>1. QED
      BY <2>3
  <2>5. parent \in Seq(KnownSteps(asg))
    <3> HIDE DEF p, waitedFor
    <3>1. QED
      BY <2>3
  <2> HIDE DEF children, parent
  <2>6. front \in Seq(KnownSteps(asg))
    <3>1. children \o parent \in Seq(KnownSteps(asg))
      BY <2>4, <2>5
    <3> HIDE DEF s
    <3>2. QED
      BY <3>1
  <2> HIDE DEF front
  <2>7. thread' \in Seq(KnownSteps(asg))
    BY <1>2, <2>1, <2>6
  <2>8. UNCHANGED <<asg, scheduled, runs>>
    BY <1>9 DEF EndResolution
  <2>9. QED
    BY <1>1, <2>7, <2>8, SameTable, WholeBy
<1>10. CASE Release
  <2>1. UNCHANGED <<asg, scheduled, runs, thread>>
    BY <1>10 DEF Release
  <2>2. QED
    BY <1>1, <2>1, SameTable, WholeBy DEF WholeInv
<1>11. QED
  BY <1>3, <1>4, <1>5, <1>6, <1>7, <1>8, <1>9, <1>10 DEF ThreadStep

LEMMA RootKept ==
    ASSUME asg \in Table, NEW a \in Ids, ~Exists(asg, a), NEW policy,
           asg' = [asg EXCEPT ![a] = NewAssignment(policy)]
    PROVE  Kept(asg, asg') /\ (Whole(asg) => Whole(asg')) /\ Exists(asg', a)
<1> DEFINE row == NewAssignment(policy)
<1>1. row.life # "absent" /\ row.parent = None /\ row.deps = {}
  BY DEF NewAssignment
<1>2. asg' = [asg EXCEPT ![a] = row]
  OBVIOUS
<1> HIDE DEF row
<1>3. QED
  BY <1>1, <1>2, BirthKept

LEMMA WholeOperator ==
    ASSUME TypeOK, WholeInv, OperatorRequest
    PROVE  WholeInv' /\ Kept(asg, asg')
<1>1. asg \in Table /\ Whole(asg)
  BY DEF TypeOK, Table, WholeInv
<1>2. UNCHANGED <<scheduled, runs>>
  BY DEF OperatorRequest, AdminCreate, AdminPromote, ControlRequest, ChangePolicy, Controls, Operates
<1>3. ASSUME NEW a \in Roots, NEW policy \in Policies, AdminCreate(a, policy)
      PROVE  WholeInv' /\ Kept(asg, asg')
  <2>1. Kept(asg, asg') /\ Whole(asg')
    BY <1>1, <1>3, RootKept, PlannerAssumption DEF AdminCreate
  <2>2. thread' \in Seq(KnownSteps(asg))
    BY <1>3 DEF AdminCreate, WholeInv
  <2>3. QED
    BY <1>2, <2>1, <2>2, WholeBy
<1>4. ASSUME NEW p \in Ids, NEW c \in Ids, NEW policy \in Policies, AdminPromote(p, c, policy)
      PROVE  WholeInv' /\ Kept(asg, asg')
  <2>1. /\ Exists(asg, p) /\ CanPromote(asg, p) /\ c \in FreshChildren
        /\ asg' = Promote(asg, p, c, FALSE, {}, "all", policy)
    BY <1>4 DEF AdminPromote
  <2>2. /\ policy \in Policy /\ FALSE \in BOOLEAN /\ {} \in SUBSET Children(asg, p)
        /\ "all" \in {"all", "any"}
    BY PlannerAssumption
  <2>3. Kept(asg, asg') /\ Whole(asg')
    BY <1>1, <2>1, <2>2, PromoteKept
  <2>4. thread' \in Seq(KnownSteps(asg))
    BY <1>4 DEF AdminPromote, WholeInv
  <2>5. QED
    BY <1>2, <2>3, <2>4, WholeBy
<1>5. ASSUME NEW a \in Ids, NEW action, ControlRequest(a, action)
      PROVE  WholeInv' /\ Kept(asg, asg')
  <2> DEFINE row == Controlled(asg[a], action)
             p == asg[a].parent
             dropped == IF action = "add_context" THEN <<>> ELSE Refresh(p)
             kept == IF action = "force_wakeup" THEN <<ScheduleStep({a})>> ELSE Continue(p, a)
  <2>1. Exists(asg, a) /\ asg' = [asg EXCEPT ![a] = row] /\ thread' = dropped \o kept
    BY <1>5 DEF ControlRequest, Control
  <2>2. SameShape(asg[a], row)
    BY <1>1, <2>1, ControlledShape DEF Table, Exists
  <2> HIDE DEF row
  <2>3. Kept(asg, asg') /\ Whole(asg')
    BY <1>1, <2>1, <2>2, WriteKept
  <2>4. Refresh(p) \in Seq(KnownSteps(asg)) /\ Continue(p, a) \in Seq(KnownSteps(asg))
    BY <1>1, <2>1, ParentKnown, KnownRefresh
  <2>5. ScheduleStep({a}) \in KnownSteps(asg)
    BY <1>1, <2>1, KnownSimple
  <2>6. dropped \in Seq(KnownSteps(asg)) /\ kept \in Seq(KnownSteps(asg))
    <3> HIDE DEF p
    <3>1. QED
      BY <2>4, <2>5
  <2> HIDE DEF dropped, kept
  <2>7. thread' \in Seq(KnownSteps(asg))
    BY <2>1, <2>6
  <2>8. QED
    BY <1>2, <2>3, <2>7, WholeBy
<1>6. ASSUME NEW a \in Ids, NEW policy \in Policies, ChangePolicy(a, policy)
      PROVE  WholeInv' /\ Kept(asg, asg')
  <2>1. Exists(asg, a) /\ asg' = [asg EXCEPT ![a].policy = policy] /\ thread' = Continue(asg[a].parent, a)
    BY <1>6 DEF ChangePolicy
  <2>2. Kept(asg, asg') /\ Whole(asg')
    BY <1>1, <2>1, PolicyShape
  <2>3. thread' \in Seq(KnownSteps(asg))
    BY <1>1, <2>1, ParentKnown, KnownRefresh
  <2>4. QED
    BY <1>2, <2>2, <2>3, WholeBy
<1>7. QED
  BY <1>3, <1>4, <1>5, <1>6 DEF OperatorRequest

LEMMA WholeIntake ==
    ASSUME TypeOK, WholeInv, NEW a \in Roots, NEW policy \in Policies, Intake(a, policy)
    PROVE  WholeInv' /\ Kept(asg, asg')
<1>1. asg \in Table /\ Whole(asg) /\ a \in Ids
  BY PlannerAssumption DEF TypeOK, Table, WholeInv
<1>2. Kept(asg, asg') /\ Whole(asg') /\ Exists(asg', a)
  BY <1>1, RootKept DEF Intake
<1>3. asg' \in Table
  BY IntakeType DEF TypeOK, Table
<1>4. ScheduleStep({a}) \in KnownSteps(asg')
  BY <1>1, <1>2, <1>3, KnownSimple
<1>5. thread' \in Seq(KnownSteps(asg')) /\ UNCHANGED <<scheduled, runs>>
  BY <1>4 DEF Intake
<1>6. QED
  BY <1>2, <1>5, WholeBy

LEMMA WholeStep ==
    ASSUME TypeOK, WholeInv, [Next]_vars
    PROVE  WholeInv' /\ Kept(asg, asg')
<1>1. asg \in Table /\ Whole(asg)
  BY DEF TypeOK, Table, WholeInv
<1>2. CASE UNCHANGED vars
  <2>1. UNCHANGED <<asg, scheduled, runs, thread>>
    BY <1>2 DEF vars
  <2>2. QED
    BY <1>1, <2>1, SameTable, WholeBy DEF WholeInv
<1>3. CASE CrashAndRestart
  <2>1. UNCHANGED <<asg, scheduled>> /\ runs' = {} /\ thread' = <<>>
    BY <1>3 DEF CrashAndRestart
  <2>2. thread' \in Seq(KnownSteps(asg))
    BY <2>1
  <2>3. QED
    BY <1>1, <2>1, <2>2, SameTable, WholeBy
<1>4. QED
  BY <1>2, <1>3, WholeIntake, WholeOperator, WholeFire, WholeRun, WholeThread DEF Next

\* The tables a first process may find have parents and siblings where a child
\* names them: what promoteChild writes, and no code takes away.
WholeTables == \A table \in InitialTables : Whole(table)

LEMMA WholeInit ==
    ASSUME WholeTables, Init
    PROVE  WholeInv
<1>1. Whole(asg) /\ runs = {} /\ thread = <<>>
  BY DEF WholeTables, Init
<1>2. scheduled \subseteq Existing(asg)
  BY DEF Init, Existing, Exists, AwaitsWakeup
<1>3. QED
  BY <1>1, <1>2 DEF WholeInv

\* What a callback, a wakeup job or an awaited run names is a row of the table, a
\* child depends on siblings of its own, and no row goes away or changes its parent or
\* dependencies (Kept, in WholeStep): under every operator, and through crashes.
THEOREM NamesRowsAlways == ASSUME WholeTables PROVE Spec => []WholeInv
<1>1. Init => WholeInv
  BY WholeInit
<1>2. TypeOK /\ WholeInv /\ [Next]_vars => WholeInv'
  BY WholeStep
<1>3. QED
  BY <1>1, <1>2, TypeCorrect, PTL DEF Spec

-----------------------------------------------------------------------------
(* Agreement with siblings, in any table *)

\* AgreesWithSiblings, of a table.
Agrees(table, c) ==
    LET state == DependencyStateOf(table, Lives(table), c)
        awaits == \/ DependencyWaiting(table, c)
                  \/ DependencyBlocked(table, c) /\ ~RestoresWait(table, c)
    IN  ~IsTerminal(table, c) /\ table[c].deps # {} =>
          /\ state = "blocked" => table[c].life = "blocked"
          /\ state = "waiting" => table[c].life # "active"
          /\ state = "satisfied" /\ awaits => ~HasCapacityToReactivate(table, c)

LEMMA AgreesHere == \A c : AgreesWithSiblings(c) <=> Agrees(asg, c)
BY DEF AgreesWithSiblings, Agrees, DependencyNow

\* The parent has no more room for a child than before.
Tighter(table, next, c) ==
    LET p == table[c].parent
    IN  p # None =>
          /\ next[p].policy = table[p].policy /\ table[p].wakeups <= next[p].wakeups
          /\ ActiveChildren(table, p) \subseteq ActiveChildren(next, p)
          /\ \A d \in ActiveChildren(table, p) : next[d].policy = table[d].policy
          /\ \E a : ActiveChildren(next, p) \subseteq ActiveChildren(table, p) \cup {a}

\* Another active child takes room away.
LEMMA ReservedMore ==
    ASSUME NEW table \in Table, NEW next \in Table, NEW S \in SUBSET Ids, NEW T \in SUBSET Ids, NEW a,
           S \subseteq T, T \subseteq S \cup {a},
           \A d \in S : next[d].policy = table[d].policy
    PROVE  /\ Reserved(table, S) \in Nat /\ Reserved(next, T) \in Nat
           /\ Reserved(table, S) <= Reserved(next, T)
<1>1. IsFiniteSet(S) /\ IsFiniteSet(T)
  BY IdsAssumption, FS_Subset
<1>2. \A d \in Ids : table[d].policy.maxWakeups \in Nat /\ next[d].policy.maxWakeups \in Nat
  BY DEF Table, Assignment, Policy
<1>3. Reserved(next, S) = Reserved(table, S)
  BY <1>1, <1>2, ReservedSame
<1>4. Reserved(table, S) \in Nat /\ Reserved(next, T) \in Nat
  BY <1>1, <1>2, ReservedNat
<1>5. CASE T = S
  BY <1>3, <1>4, <1>5
<1>6. CASE T # S
  <2>1. a \in T /\ T \ {a} = S /\ a \in Ids
    BY <1>6
  <2>2. Reserved(next, T) = next[a].policy.maxWakeups + Reserved(next, T \ {a})
    BY <1>1, <1>2, <2>1, ReservedAdded
  <2>3. next[a].policy.maxWakeups \in Nat
    BY <1>2, <2>1
  <2> DEFINE m == next[a].policy.maxWakeups
             held == Reserved(table, S)
             all == Reserved(next, T)
  <2>4. all = m + held
    BY <1>3, <2>1, <2>2
  <2>5. m \in Nat /\ held \in Nat /\ all \in Nat
    BY <1>4, <2>3
  <2> HIDE DEF m, held, all
  <2>6. held <= all
    BY <2>4, <2>5
  <2>7. QED
    BY <1>4, <2>6 DEF held, all
<1>7. QED
  BY <1>5, <1>6

LEMMA TighterRoom ==
    ASSUME NEW table \in Table, NEW next \in Table, NEW c \in Ids, Tighter(table, next, c),
           next[c].parent = table[c].parent, next[c].policy = table[c].policy,
           HasCapacityToReactivate(next, c)
    PROVE  HasCapacityToReactivate(table, c)
<1> DEFINE p == table[c].parent
           S == ActiveChildren(table, p) \ {c}
           T == ActiveChildren(next, p) \ {c}
<1> SUFFICES ASSUME p # None PROVE HasCapacityToReactivate(table, c)
  BY DEF HasCapacityToReactivate
<1>0. /\ Cardinality(ActiveChildren(next, next[c].parent) \ {c}) < next[next[c].parent].policy.maxChildren
      /\ RemainingWakeups(next, next[c].parent, ActiveChildren(next, next[c].parent) \ {c})
           >= next[c].policy.maxWakeups
  BY DEF HasCapacityToReactivate
<1>1. p # None /\ p \in Ids
  BY DEF Table, Assignment
<1>2. /\ next[p].policy = table[p].policy /\ table[p].wakeups <= next[p].wakeups
      /\ S \subseteq T /\ \A d \in S : next[d].policy = table[d].policy
  BY <1>1 DEF Tighter
<1>3. PICK a : T \subseteq S \cup {a}
  BY <1>1 DEF Tighter
<1>4. S \in SUBSET Ids /\ T \in SUBSET Ids
  BY DEF ActiveChildren, Children
<1>5. Cardinality(T) < next[p].policy.maxChildren
  BY <1>0
<1>6. next[p].policy.maxWakeups - next[p].wakeups - Reserved(next, T) >= next[c].policy.maxWakeups
  BY <1>0 DEF RemainingWakeups
<1> HIDE DEF S, T
<1>7. /\ Reserved(table, S) \in Nat /\ Reserved(next, T) \in Nat
      /\ Reserved(table, S) <= Reserved(next, T)
  BY <1>2, <1>3, <1>4, ReservedMore
<1>8. /\ IsFiniteSet(T) /\ Cardinality(S) \in Nat /\ Cardinality(T) \in Nat
      /\ Cardinality(S) <= Cardinality(T)
  BY <1>2, <1>4, IdsAssumption, FS_Subset, FS_CardinalityType
<1>9. /\ table[p].wakeups \in Nat /\ next[p].wakeups \in Nat
      /\ table[p].policy.maxWakeups \in Nat /\ table[p].policy.maxChildren \in Nat
      /\ table[c].policy.maxWakeups \in Nat
  BY <1>1 DEF Table, Assignment, Policy
<1>10. Cardinality(S) < table[p].policy.maxChildren
  BY <1>2, <1>5, <1>8, <1>9
<1>11. table[p].policy.maxWakeups - table[p].wakeups - Reserved(table, S) >= table[c].policy.maxWakeups
  BY <1>2, <1>6, <1>7, <1>9
<1>12. QED
  BY <1>1, <1>10, <1>11 DEF HasCapacityToReactivate, RemainingWakeups, S

\* A row as the resolution sees it.
SameView(row, next) ==
    /\ next.life = row.life /\ next.wait = row.wait /\ next.depBlocked = row.depBlocked
    /\ next.parent = row.parent /\ next.deps = row.deps /\ next.mode = row.mode
    /\ next.policy = row.policy

LEMMA SameState ==
    ASSUME NEW life, NEW other, NEW deps, \A d \in deps : other[d] = life[d], NEW mode
    PROVE  DependencyState(other, deps, mode) = DependencyState(life, deps, mode)
<1>1. {other[d] : d \in deps} = {life[d] : d \in deps}
  OBVIOUS
<1>2. QED
  BY <1>1 DEF DependencyState

\* A child agrees as long as what it looks at stays, and its parent gets no more room.
LEMMA AgreementKept ==
    ASSUME NEW table \in Table, NEW next \in Table, NEW c \in Ids, Agrees(table, c),
           SameView(table[c], next[c]), \A d \in table[c].deps : next[d].life = table[d].life,
           Tighter(table, next, c)
    PROVE  Agrees(next, c)
<1>1. table[c].deps \subseteq Ids
  BY DEF Table, Assignment
<1>2. DependencyStateOf(next, Lives(next), c) = DependencyStateOf(table, Lives(table), c)
  <2>1. \A d \in table[c].deps : Lives(next)[d] = Lives(table)[d]
    BY <1>1 DEF Lives
  <2>2. QED
    BY <2>1, SameState DEF DependencyStateOf, SameView
<1>3. HasCapacityToReactivate(next, c) => HasCapacityToReactivate(table, c)
  BY TighterRoom DEF SameView
<1>4. QED
  BY <1>2, <1>3 DEF Agrees, SameView, IsTerminal, DependencyWaiting, DependencyBlocked, RestoresWait

\* A sibling that goes on, or is woken from being blocked, satisfies and loses no one,
\* and takes a loss back.
Occupied(life, other, a) ==
    /\ \A d \in Ids \ {a} : other[d] = life[d]
    /\ life[a] \in {"active", "waiting", "blocked"}
    /\ other[a] \in {"active", "waiting"}

LEMMA OccupiedState ==
    ASSUME NEW life, NEW other, NEW a \in Ids, Occupied(life, other, a),
           NEW deps \in SUBSET Ids, NEW mode \in {"all", "any"},
           NEW before, before = DependencyState(life, deps, mode),
           NEW now, now = DependencyState(other, deps, mode)
    PROVE  /\ now = "satisfied" <=> before = "satisfied"
           /\ now = "blocked" => before = "blocked"
           /\ now \in {"satisfied", "blocked", "waiting"} /\ before \in {"satisfied", "blocked", "waiting"}
<1> DEFINE B == {life[d] : d \in deps}
           N == {other[d] : d \in deps}
           lost == {"cancelled", "expired", "failed", "blocked"}
<1>1. "completed" \in B <=> "completed" \in N
  BY DEF Occupied
<1>2. N = {"completed"} <=> B = {"completed"}
  BY DEF Occupied
<1>3. N \subseteq lost => B \subseteq lost
  BY DEF Occupied
<1>4. N \cap lost # {} => B \cap lost # {}
  BY DEF Occupied
<1>5. (TerminalStates \ {"completed"}) \cup {"blocked"} = lost
  BY DEF TerminalStates
<1>6. before = IF deps = {} THEN "satisfied"
               ELSE IF mode = "any"
                    THEN IF "completed" \in B THEN "satisfied"
                         ELSE IF B \subseteq lost THEN "blocked" ELSE "waiting"
                    ELSE IF B \cap lost # {} THEN "blocked"
                         ELSE IF B = {"completed"} THEN "satisfied" ELSE "waiting"
  BY <1>5 DEF DependencyState
<1>7. now = IF deps = {} THEN "satisfied"
            ELSE IF mode = "any"
                 THEN IF "completed" \in N THEN "satisfied"
                      ELSE IF N \subseteq lost THEN "blocked" ELSE "waiting"
                 ELSE IF N \cap lost # {} THEN "blocked"
                      ELSE IF N = {"completed"} THEN "satisfied" ELSE "waiting"
  BY <1>5 DEF DependencyState
<1>8. B = {"completed"} => B \cap lost = {}
  OBVIOUS
<1> HIDE DEF B, N, lost
<1>9. QED
  BY <1>1, <1>2, <1>3, <1>4, <1>6, <1>7, <1>8

\* The row holds a slot and wakeups afterwards, if it did not before.
Occupies(row, next) ==
    /\ SameShape(row, next) /\ next.policy = row.policy /\ row.wakeups <= next.wakeups
    /\ row.life \in {"active", "waiting", "blocked"} /\ next.life \in {"active", "waiting"}

LEMMA OccupiesTighter ==
    ASSUME NEW table \in Table, NEW a \in Ids, NEW row \in Assignment, Occupies(table[a], row),
           NEW next, next = [table EXCEPT ![a] = row], NEW c \in Ids
    PROVE  Tighter(table, next, c)
<1> DEFINE p == table[c].parent
<1>1. SUFFICES ASSUME p # None
               PROVE  /\ next[p].policy = table[p].policy /\ table[p].wakeups <= next[p].wakeups
                      /\ ActiveChildren(table, p) \subseteq ActiveChildren(next, p)
                      /\ \A d \in ActiveChildren(table, p) : next[d].policy = table[d].policy
                      /\ \E x : ActiveChildren(next, p) \subseteq ActiveChildren(table, p) \cup {x}
  BY DEF Tighter
<1>2. p \in Ids
  BY <1>1 DEF Table, Assignment
<1>3. next[a] = row /\ \A d \in Ids \ {a} : next[d] = table[d]
  BY DEF Table
<1>4. \A d \in Ids : next[d].policy = table[d].policy /\ table[d].wakeups <= next[d].wakeups
  BY <1>3 DEF Occupies, Table, Assignment
<1>5. ActiveChildren(table, p) \subseteq ActiveChildren(next, p)
  BY <1>3 DEF ActiveChildren, Children, HoldsCapacity, Exists, Occupies, SameShape, TerminalStates
<1>6. ActiveChildren(next, p) \subseteq ActiveChildren(table, p) \cup {a}
  BY <1>3 DEF ActiveChildren, Children, HoldsCapacity, Exists
<1>7. \A d \in ActiveChildren(table, p) : d \in Ids
  BY DEF ActiveChildren, Children
<1>8. QED
  BY <1>2, <1>4, <1>5, <1>6, <1>7

LEMMA OccupiesAgreement ==
    ASSUME NEW table \in Table, NEW a \in Ids, NEW row \in Assignment, Occupies(table[a], row),
           NEW next, next = [table EXCEPT ![a] = row],
           NEW c \in Ids, c # a, Agrees(table, c)
    PROVE  Agrees(next, c)
<1> DEFINE before == DependencyStateOf(table, Lives(table), c)
           now == DependencyStateOf(next, Lives(next), c)
<1>1. next \in Table /\ next[a] = row /\ \A d \in Ids \ {a} : next[d] = table[d]
  BY DEF Table
<1>2. next[c] = table[c] /\ table[c].deps \in SUBSET Ids /\ table[c].mode \in {"all", "any"}
  BY <1>1 DEF Table, Assignment
<1>3. Occupied(Lives(table), Lives(next), a)
  BY <1>1 DEF Occupied, Lives, Occupies
<1>4. /\ before = DependencyState(Lives(table), table[c].deps, table[c].mode)
      /\ now = DependencyState(Lives(next), table[c].deps, table[c].mode)
  BY <1>2 DEF DependencyStateOf
<1> HIDE DEF before, now
<1>5. /\ now = "satisfied" <=> before = "satisfied"
      /\ now = "blocked" => before = "blocked"
      /\ now \in {"satisfied", "blocked", "waiting"} /\ before \in {"satisfied", "blocked", "waiting"}
  BY <1>2, <1>3, <1>4, OccupiedState
<1>6. HasCapacityToReactivate(next, c) => HasCapacityToReactivate(table, c)
  BY <1>1, <1>2, OccupiesTighter, TighterRoom
<1>7. /\ IsTerminal(next, c) = IsTerminal(table, c) /\ RestoresWait(next, c) = RestoresWait(table, c)
      /\ DependencyWaiting(next, c) = DependencyWaiting(table, c)
      /\ DependencyBlocked(next, c) = DependencyBlocked(table, c)
  BY <1>2 DEF IsTerminal, DependencyWaiting, DependencyBlocked, RestoresWait
<1>8. SUFFICES ASSUME ~IsTerminal(table, c), table[c].deps # {}
               PROVE  /\ now = "blocked" => table[c].life = "blocked"
                      /\ now = "waiting" => table[c].life # "active"
                      /\ now = "satisfied" /\ (\/ DependencyWaiting(table, c)
                                               \/ DependencyBlocked(table, c) /\ ~RestoresWait(table, c))
                           => ~HasCapacityToReactivate(next, c)
  BY <1>2, <1>7 DEF Agrees, now
<1>9. /\ before = "blocked" => table[c].life = "blocked"
      /\ before = "waiting" => table[c].life # "active"
      /\ before = "satisfied" /\ (\/ DependencyWaiting(table, c)
                                  \/ DependencyBlocked(table, c) /\ ~RestoresWait(table, c))
           => ~HasCapacityToReactivate(table, c)
  BY <1>8 DEF Agrees, before
<1>10. QED
  BY <1>5, <1>6, <1>9

\* A child without siblings to wait for agrees with them.
LEMMA NoDependencies ==
    ASSUME NEW table, NEW c, table[c].deps = {}
    PROVE  Agrees(table, c)
BY DEF Agrees

\* A decision or a control: the budget and what it has used are left alone.
Rewrites(row, next) == SameShape(row, next) /\ next.policy = row.policy /\ next.wakeups = row.wakeups

\* Whatever is written to a row is seen by the children of its parent only.
LEMMA OtherFamily ==
    ASSUME NEW table \in Table, Whole(table), NEW a \in Ids, Exists(table, a), NEW row \in Assignment,
           Rewrites(table[a], row),
           NEW next, next = [table EXCEPT ![a] = row],
           NEW c \in Ids, Exists(table, c), Agrees(table, c),
           table[c].parent # table[a].parent \/ table[c].parent = None
    PROVE  Agrees(next, c)
<1> DEFINE p == table[c].parent
<1>1. next \in Table /\ next[a] = row /\ \A d \in Ids \ {a} : next[d] = table[d]
  BY DEF Table
<1>2. CASE p = None
  <2>1. table[c].deps = {}
    BY <1>2 DEF Whole
  <2>2. next[c].deps = {}
    BY <1>1, <2>1 DEF SameShape, Rewrites
  <2>3. QED
    BY <2>2, NoDependencies
<1>3. CASE p # None
  <2>1. c # a /\ p \in Ids /\ table[a].parent # p
    BY <1>3 DEF Table, Assignment
  <2>2. next[c] = table[c] /\ SameView(table[c], next[c])
    BY <1>1, <2>1 DEF SameView
  <2>3. table[c].deps \subseteq Children(table, p) \ {c}
    BY DEF Whole
  <2>4. \A d \in table[c].deps : d \in Ids \ {a}
    BY <2>1, <2>3 DEF Children
  <2>5. \A d \in table[c].deps : next[d].life = table[d].life
    BY <1>1, <2>4
  <2>6. ActiveChildren(next, p) = ActiveChildren(table, p)
    BY <1>1, <2>1 DEF ActiveChildren, Children, HoldsCapacity, Exists, SameShape, Rewrites
  <2>7. \A d \in Ids : next[d].policy = table[d].policy /\ table[d].wakeups <= next[d].wakeups
    BY <1>1 DEF Table, Assignment, Rewrites
  <2>8. Tighter(table, next, c)
    BY <2>1, <2>6, <2>7 DEF Tighter, ActiveChildren, Children
  <2>9. QED
    BY <1>1, <2>2, <2>5, <2>8, AgreementKept
<1>4. QED
  BY <1>2, <1>3

\* A child, or a root, that is born takes room and is nobody's sibling yet.
LEMMA BirthAgreement ==
    ASSUME NEW table \in Table, Whole(table), NEW next \in Table, NEW b \in Ids, ~Exists(table, b),
           \A d \in Ids \ {b} : next[d] = table[d],
           NEW c \in Ids, Exists(table, c), Agrees(table, c)
    PROVE  Agrees(next, c)
<1> DEFINE p == table[c].parent
<1>1. c # b
  OBVIOUS
<1>2. next[c] = table[c] /\ SameView(table[c], next[c])
  BY <1>1 DEF SameView
<1>3. CASE p = None
  <2>1. table[c].deps = {}
    BY <1>3 DEF Whole
  <2>2. QED
    BY <1>2, <2>1, NoDependencies
<1>4. CASE p # None
  <2>1. p \in Ids /\ Exists(table, p) /\ table[c].deps \subseteq Children(table, p) \ {c}
    BY <1>4 DEF Whole, Table, Assignment
  <2>2. p # b /\ \A d \in table[c].deps : d \in Ids \ {b}
    BY <2>1 DEF Children
  <2>3. next[p] = table[p] /\ \A d \in table[c].deps : next[d].life = table[d].life
    BY <2>1, <2>2
  <2>4. \A d \in ActiveChildren(table, p) : d \in Ids \ {b}
    BY DEF ActiveChildren, Children
  <2>5. /\ ActiveChildren(table, p) \subseteq ActiveChildren(next, p)
        /\ ActiveChildren(next, p) \subseteq ActiveChildren(table, p) \cup {b}
    BY <2>4 DEF ActiveChildren, Children, HoldsCapacity, Exists
  <2>6. \A d \in ActiveChildren(table, p) : next[d].policy = table[d].policy
    BY <2>4
  <2>7. table[p].wakeups <= next[p].wakeups
    BY <2>1, <2>3 DEF Table, Assignment
  <2>8. Tighter(table, next, c)
    BY <2>3, <2>5, <2>6, <2>7 DEF Tighter
  <2>9. QED
    BY <1>2, <2>3, <2>8, AgreementKept
<1>5. QED
  BY <1>3, <1>4

\* And it agrees with the siblings it is born among.
LEMMA NewbornAgrees ==
    ASSUME NEW table \in Table, NEW next \in Table, NEW b \in Ids, ~Exists(table, b),
           \A d \in Ids \ {b} : next[d] = table[d], NEW p \in Ids, NEW waited,
           NEW deps \in SUBSET Children(table, p), NEW mode,
           Born(next[b], table, p, waited, deps, mode)
    PROVE  Agrees(next, b)
<1> DEFINE state == BirthState(table, deps, mode)
<1>1. \A d \in deps : d \in Ids \ {b}
  BY DEF Children
<1>2. \A d \in deps : Lives(next)[d] = Lives(table)[d]
  BY <1>1 DEF Lives
<1>3. DependencyStateOf(next, Lives(next), b) = state
  BY <1>2, SameState DEF DependencyStateOf, BirthState, Born
<1>4. state \in {"satisfied", "blocked", "waiting"}
  BY DEF BirthState, DependencyState
<1>5. /\ next[b].life = IF state = "waiting" THEN "waiting" ELSE IF state = "blocked" THEN "blocked" ELSE "active"
  BY DEF Born
<1> HIDE DEF state
<1>6. QED
  BY <1>3, <1>4, <1>5 DEF Agrees, DependencyWaiting, DependencyBlocked

-----------------------------------------------------------------------------
(* What a callback owes *)

Resolves(s, p) == s.step = "resolve" /\ s.parent = p

\* A resolution of the children of p is still to end.
Owes(t, p) == \E j \in 1..Len(t) : Resolves(t[j], p)

\* A decision is followed by the resolution of the siblings.
Led(table, t) ==
    \A i \in 1..Len(t) :
        t[i].step = "decide" =>
          /\ Exists(table, t[i].id)
          /\ table[t[i].id].parent # None =>
               \E j \in (i + 1)..Len(t) : Resolves(t[j], table[t[i].id].parent)

\* Steps that only schedule or resolve.
Light(t) == \A i \in 1..Len(t) : t[i].step \in {"schedule", "resolve"}

Unplanned(t) == \A i \in 1..Len(t) : t[i].step # "planner"

LedInv == Led(asg, thread) /\ (Unplanned(thread) \/ Len(thread) = 1)

\* A child agrees with its siblings, or will be looked at before the callback is over.
AgreeInv ==
    crashed = 0 => \A c \in Ids : Exists(asg, c) => Agrees(asg, c) \/ Owes(thread, asg[c].parent)

LEMMA LedKept ==
    ASSUME NEW table, NEW next, Kept(table, next), NEW t \in Seq(Step), Led(table, t)
    PROVE  Led(next, t)
<1>1. \A i \in 1..Len(t) : t[i] \in Step
  OBVIOUS
<1>2. \A i \in 1..Len(t) : t[i].step = "decide" => t[i].id \in Ids
  BY <1>1, StepFields
<1>3. QED
  BY <1>2 DEF Led, Kept

LEMMA LightLed ==
    ASSUME NEW table, NEW t, Light(t)
    PROVE  Led(table, t) /\ Unplanned(t)
BY DEF Light, Led, Unplanned

LEMMA LightJoined ==
    ASSUME NEW front \in Seq(Step), NEW rest \in Seq(Step), Light(front), Light(rest)
    PROVE  Light(front \o rest)
BY DEF Light

LEMMA OwesJoined ==
    ASSUME NEW front \in Seq(Step), NEW rest \in Seq(Step), NEW p
    PROVE  Owes(front \o rest, p) <=> Owes(front, p) \/ Owes(rest, p)
<1> DEFINE t == front \o rest
<1>1. Len(t) = Len(front) + Len(rest) /\ Len(front) \in Nat /\ Len(rest) \in Nat
  OBVIOUS
<1>2. \A i \in 1..Len(front) : t[i] = front[i]
  OBVIOUS
<1>3. \A i \in 1..Len(rest) : t[i + Len(front)] = rest[i]
  OBVIOUS
<1> HIDE DEF t
<1>4. ASSUME Owes(front, p) \/ Owes(rest, p) PROVE Owes(t, p)
  <2>1. CASE Owes(front, p)
    <3>1. PICK i \in 1..Len(front) : Resolves(front[i], p)
      BY <2>1 DEF Owes
    <3>2. i \in 1..Len(t) /\ Resolves(t[i], p)
      BY <1>1, <1>2, <3>1
    <3>3. QED
      BY <3>2 DEF Owes
  <2>2. CASE Owes(rest, p)
    <3>1. PICK i \in 1..Len(rest) : Resolves(rest[i], p)
      BY <2>2 DEF Owes
    <3>2. i + Len(front) \in 1..Len(t) /\ Resolves(t[i + Len(front)], p)
      BY <1>1, <1>3, <3>1
    <3>3. QED
      BY <3>2 DEF Owes
  <2>3. QED
    BY <1>4, <2>1, <2>2
<1>5. ASSUME Owes(t, p) PROVE Owes(front, p) \/ Owes(rest, p)
  <2>1. PICK i \in 1..Len(t) : Resolves(t[i], p)
    BY <1>5 DEF Owes
  <2>2. CASE i <= Len(front)
    <3>1. i \in 1..Len(front) /\ Resolves(front[i], p)
      BY <1>1, <1>2, <2>1, <2>2
    <3>2. QED
      BY <3>1 DEF Owes
  <2>3. CASE ~(i <= Len(front))
    <3>1. i - Len(front) \in 1..Len(rest) /\ Resolves(rest[i - Len(front)], p)
      <4>1. i - Len(front) \in 1..Len(rest) /\ (i - Len(front)) + Len(front) = i
        BY <1>1, <2>3
      <4>2. QED
        BY <1>3, <2>1, <4>1
    <3>2. QED
      BY <3>1 DEF Owes
  <2>4. QED
    BY <2>2, <2>3
<1>6. QED
  BY <1>4, <1>5 DEF t

LEMMA LedJoined ==
    ASSUME NEW table, NEW front \in Seq(Step), NEW rest \in Seq(Step), Light(front),
           Led(table, rest), Unplanned(rest)
    PROVE  Led(table, front \o rest) /\ Unplanned(front \o rest)
<1> DEFINE t == front \o rest
<1>1. Len(t) = Len(front) + Len(rest) /\ Len(front) \in Nat /\ Len(rest) \in Nat
  OBVIOUS
<1>2. \A i \in 1..Len(front) : t[i] = front[i]
  OBVIOUS
<1>3. \A i \in 1..Len(rest) : t[i + Len(front)] = rest[i]
  OBVIOUS
<1> HIDE DEF t
<1>4. ASSUME NEW i \in 1..Len(t), t[i].step \notin {"schedule", "resolve"}
      PROVE  i - Len(front) \in 1..Len(rest) /\ t[i] = rest[i - Len(front)]
  <2>1. ~(i <= Len(front))
    BY <1>1, <1>2, <1>4 DEF Light
  <2>2. i - Len(front) \in 1..Len(rest) /\ (i - Len(front)) + Len(front) = i
    BY <1>1, <2>1
  <2>3. QED
    BY <1>3, <2>2
<1>5. Unplanned(t)
  BY <1>4 DEF Unplanned
<1>6. ASSUME NEW i \in 1..Len(t), t[i].step = "decide"
      PROVE  /\ Exists(table, t[i].id)
             /\ table[t[i].id].parent # None =>
                  \E j \in (i + 1)..Len(t) : Resolves(t[j], table[t[i].id].parent)
  <2> DEFINE k == i - Len(front)
  <2>1. k \in 1..Len(rest) /\ t[i] = rest[k]
    BY <1>4, <1>6
  <2>2. /\ Exists(table, rest[k].id)
        /\ table[rest[k].id].parent # None =>
             \E j \in (k + 1)..Len(rest) : Resolves(rest[j], table[rest[k].id].parent)
    <3> HIDE DEF k
    <3>1. QED
      BY <1>6, <2>1 DEF Led
  <2>3. ASSUME NEW j \in (k + 1)..Len(rest)
        PROVE  j + Len(front) \in (i + 1)..Len(t) /\ t[j + Len(front)] = rest[j]
    <3>1. Len(front) + k = i /\ k \in 1..Len(rest)
      BY <1>1, <2>1
    <3> HIDE DEF k
    <3>2. j + Len(front) \in (i + 1)..Len(t) /\ j \in 1..Len(rest)
      BY <1>1, <3>1
    <3>3. QED
      BY <1>3, <3>2
  <2> HIDE DEF k
  <2>4. QED
    BY <2>1, <2>2, <2>3
<1>7. Led(table, t)
  BY <1>6 DEF Led
<1>8. QED
  BY <1>5, <1>7 DEF t

\* The head of the callback, and what is left.
LEMMA LedTail ==
    ASSUME NEW table, NEW t \in Seq(Step), t # <<>>, Led(table, t), Unplanned(t) \/ Len(t) = 1
    PROVE  /\ Led(table, Tail(t)) /\ Unplanned(Tail(t))
           /\ Head(t).step = "decide" /\ table[Head(t).id].parent # None =>
                Owes(Tail(t), table[Head(t).id].parent)
           /\ Head(t).step = "planner" => Tail(t) = <<>>
           /\ \A p : Owes(t, p) => Resolves(Head(t), p) \/ Owes(Tail(t), p)
<1> DEFINE u == Tail(t)
<1>1. Len(t) \in Nat \ {0} /\ Len(u) = Len(t) - 1
  OBVIOUS
<1>2. \A i \in 1..Len(u) : u[i] = t[i + 1]
  OBVIOUS
<1>3. Head(t) = t[1]
  OBVIOUS
<1>4. u \in Seq(Step)
  OBVIOUS
<1> HIDE DEF u
<1>5. Unplanned(u)
  <2>1. CASE Len(t) = 1
    BY <1>1, <2>1 DEF Unplanned
  <2>2. CASE Unplanned(t)
    <3>1. \A i \in 1..Len(u) : i + 1 \in 1..Len(t)
      BY <1>1
    <3>2. QED
      BY <1>2, <2>2, <3>1 DEF Unplanned
  <2>3. QED
    BY <2>1, <2>2
<1>6. t[1].step = "planner" => u = <<>>
  <2>1. t[1].step = "planner" => Len(t) = 1
    BY <1>1 DEF Unplanned
  <2>2. Len(u) = 0 => u = <<>>
    BY <1>4
  <2>3. QED
    BY <1>1, <2>1, <2>2
<1>7. ASSUME NEW i \in 1..Len(t), NEW p, \E j \in (i + 1)..Len(t) : Resolves(t[j], p)
      PROVE  \E j \in i..Len(u) : Resolves(u[j], p)
  <2>1. PICK j \in (i + 1)..Len(t) : Resolves(t[j], p)
    BY <1>7
  <2>2. j - 1 \in i..Len(u) /\ j - 1 \in 1..Len(u) /\ (j - 1) + 1 = j
    BY <1>1
  <2>3. Resolves(u[j - 1], p)
    BY <1>2, <2>1, <2>2
  <2>4. QED
    BY <2>2, <2>3
<1>8. Led(table, u)
  <2> SUFFICES ASSUME NEW k \in 1..Len(u), u[k].step = "decide"
               PROVE  /\ Exists(table, u[k].id)
                      /\ table[u[k].id].parent # None =>
                           \E j \in (k + 1)..Len(u) : Resolves(u[j], table[u[k].id].parent)
    BY DEF Led
  <2>1. k + 1 \in 1..Len(t) /\ u[k] = t[k + 1]
    BY <1>1, <1>2
  <2>2. QED
    BY <1>7, <2>1 DEF Led
<1>9. ASSUME t[1].step = "decide", table[t[1].id].parent # None
      PROVE  Owes(u, table[t[1].id].parent)
  <2>1. 1 \in 1..Len(t)
    BY <1>1
  <2>2. \E j \in (1 + 1)..Len(t) : Resolves(t[j], table[t[1].id].parent)
    BY <1>9, <2>1 DEF Led
  <2>3. QED
    BY <1>7, <2>1, <2>2 DEF Owes
<1>10. ASSUME NEW p, Owes(t, p) PROVE Resolves(t[1], p) \/ Owes(u, p)
  <2>1. PICK j \in 1..Len(t) : Resolves(t[j], p)
    BY <1>10 DEF Owes
  <2>2. CASE j = 1
    BY <2>1, <2>2
  <2>3. CASE j # 1
    <3>1. 1 \in 1..Len(t) /\ j \in (1 + 1)..Len(t)
      BY <1>1, <2>3
    <3>2. QED
      BY <1>7, <2>1, <3>1 DEF Owes
  <2>4. QED
    BY <2>2, <2>3
<1>11. QED
  BY <1>3, <1>5, <1>6, <1>8, <1>9, <1>10 DEF u

-----------------------------------------------------------------------------
(* The callbacks the handlers leave *)

LEMMA RefreshOwes ==
    ASSUME NEW p \in Ids \cup {None}, NEW a \in Ids
    PROVE  /\ Refresh(p) \in Seq(Step) /\ Continue(p, a) \in Seq(Step)
           /\ Light(Refresh(p)) /\ Light(Continue(p, a))
           /\ p # None => Owes(Refresh(p), p) /\ Owes(Continue(p, a), p)
<1>1. Refresh(p) \in Seq(Step) /\ Continue(p, a) \in Seq(Step)
  BY RefreshType, FreshSteps
<1>2. ASSUME NEW cause PROVE Light(<<ResolveStep(p, cause)>>) /\ Owes(<<ResolveStep(p, cause)>>, p)
  <2> DEFINE s == ResolveStep(p, cause)
  <2>1. s.step = "resolve" /\ s.parent = p
    BY DEF ResolveStep
  <2> HIDE DEF s
  <2>2. Len(<<s>>) = 1 /\ <<s>>[1] = s
    OBVIOUS
  <2>3. 1 \in 1..Len(<<s>>) /\ Resolves(<<s>>[1], p)
    BY <2>1, <2>2 DEF Resolves
  <2>4. Owes(<<s>>, p)
    BY <2>3 DEF Owes
  <2>5. Light(<<s>>)
    BY <2>1 DEF Light
  <2>6. QED
    BY <2>4, <2>5 DEF s
<1>3. Light(<<>>)
  BY DEF Light
<1>4. QED
  BY <1>1, <1>2, <1>3 DEF Refresh, Continue

LEMMA ScheduleLight ==
    ASSUME NEW S \in SUBSET Ids
    PROVE  <<ScheduleStep(S)>> \in Seq(Step) /\ Light(<<ScheduleStep(S)>>)
<1> DEFINE s == ScheduleStep(S)
<1>1. s \in Step /\ s.step = "schedule"
  BY DEF ScheduleStep, Step
<1> HIDE DEF s
<1>2. <<s>> \in Seq(Step) /\ Light(<<s>>)
  BY <1>1 DEF Light
<1>3. QED
  BY <1>2 DEF s

LEMMA NoneLight == <<>> \in Seq(Step) /\ Light(<<>>) /\ \A p : ~Owes(<<>>, p)
BY DEF Light, Owes

LEMMA DecisionLed ==
    ASSUME NEW a \in Ids, Exists(asg, a), NEW decision \in Decisions, NEW rest \in Seq(Step),
           Light(rest), asg[a].parent # None => Owes(rest, asg[a].parent)
    PROVE  /\ <<DecideStep(a, decision)>> \o rest \in Seq(Step)
           /\ Led(asg, <<DecideStep(a, decision)>> \o rest)
           /\ Unplanned(<<DecideStep(a, decision)>> \o rest)
<1> DEFINE s == DecideStep(a, decision)
           t == <<s>> \o rest
<1>1. s \in Step /\ s.step = "decide" /\ s.id = a
  BY DEF DecideStep, Step
<1> HIDE DEF s
<1>2. t \in Seq(Step) /\ Len(t) = Len(rest) + 1 /\ t[1] = s /\ Len(rest) \in Nat
  BY <1>1
<1>3. \A i \in 1..Len(rest) : t[i + 1] = rest[i]
  BY <1>1
<1> HIDE DEF t
<1>4. ASSUME NEW i \in 1..Len(t), i # 1
      PROVE  t[i].step \in {"schedule", "resolve"}
  <2>1. i - 1 \in 1..Len(rest) /\ (i - 1) + 1 = i
    BY <1>2, <1>4
  <2>2. t[i] = rest[i - 1]
    BY <1>3, <2>1
  <2>3. QED
    BY <2>1, <2>2 DEF Light
<1>5. Unplanned(t)
  BY <1>1, <1>2, <1>4 DEF Unplanned
<1>6. ASSUME asg[a].parent # None
      PROVE  \E j \in (1 + 1)..Len(t) : Resolves(t[j], asg[a].parent)
  <2>1. PICK k \in 1..Len(rest) : Resolves(rest[k], asg[a].parent)
    BY <1>6 DEF Owes
  <2>2. k + 1 \in (1 + 1)..Len(t)
    BY <1>2
  <2>3. Resolves(t[k + 1], asg[a].parent)
    BY <1>3, <2>1
  <2>4. QED
    BY <2>2, <2>3
<1>7. Led(asg, t)
  BY <1>1, <1>2, <1>4, <1>6 DEF Led
<1>8. QED
  BY <1>2, <1>5, <1>7 DEF t, s

LEMMA OutcomesLed ==
    ASSUME asg \in Table, NEW a \in Ids, Exists(asg, a)
    PROVE  /\ \A d \in Decisions : Led(asg, Settle(a, d)) /\ Unplanned(Settle(a, d)) /\ Settle(a, d) \in Seq(Step)
           /\ \A d \in Decisions : Led(asg, Park(a, d)) /\ Unplanned(Park(a, d)) /\ Park(a, d) \in Seq(Step)
           /\ \A status : /\ Led(asg, Outcome(a, status)) /\ Unplanned(Outcome(a, status))
                          /\ Outcome(a, status) \in Seq(Step)
<1> DEFINE p == asg[a].parent
<1>1. p \in Ids \cup {None}
  BY DEF Table, Assignment
<1>2. /\ Refresh(p) \in Seq(Step) /\ Continue(p, a) \in Seq(Step)
      /\ Light(Refresh(p)) /\ Light(Continue(p, a))
      /\ p # None => Owes(Refresh(p), p) /\ Owes(Continue(p, a), p)
  BY <1>1, RefreshOwes
<1>3. ASSUME NEW d \in Decisions
      PROVE  Led(asg, Settle(a, d)) /\ Unplanned(Settle(a, d)) /\ Settle(a, d) \in Seq(Step)
  BY <1>2, DecisionLed DEF Settle
<1>4. ASSUME NEW d \in Decisions
      PROVE  Led(asg, Park(a, d)) /\ Unplanned(Park(a, d)) /\ Park(a, d) \in Seq(Step)
  <2> DEFINE rest == <<DecideStep(a, d)>> \o Refresh(p)
             front == <<ScheduleStep({a})>>
  <2>1. rest \in Seq(Step) /\ Led(asg, rest) /\ Unplanned(rest)
    BY <1>2, DecisionLed
  <2>2. front \in Seq(Step) /\ Light(front)
    BY ScheduleLight
  <2>3. Park(a, d) = front \o rest
    <3>1. DecideStep(a, d) \in Step /\ ScheduleStep({a}) \in Step
      BY StepTypes DEF FreshStep
    <3>2. Park(a, d) = <<ScheduleStep({a}), DecideStep(a, d)>> \o Refresh(p)
      BY DEF Park
    <3>3. QED
      BY <1>2, <3>1, <3>2
  <2> HIDE DEF rest, front
  <2>4. front \o rest \in Seq(Step) /\ Led(asg, front \o rest) /\ Unplanned(front \o rest)
    BY <2>1, <2>2, LedJoined
  <2>5. QED
    BY <2>3, <2>4
<1>5. \A d \in {"completed", "blocked", "expired", "other"} : d \in Decisions
  BY DEF Decisions
<1>6. ASSUME NEW status
      PROVE  /\ Led(asg, Outcome(a, status)) /\ Unplanned(Outcome(a, status))
             /\ Outcome(a, status) \in Seq(Step)
  <2>1. Outcome(a, status) \in {Settle(a, "completed"), Settle(a, "blocked"), Settle(a, "expired"), Park(a, "other")}
    BY DEF Outcome
  <2>2. QED
    BY <1>3, <1>4, <1>5, <2>1
<1>7. QED
  BY <1>3, <1>4, <1>6

-----------------------------------------------------------------------------
(* Agreement, an action at a time *)

\* No policy changes under a parent: what it has room for is looked at by no one then.
FixedPolicies == "change_policy" \notin OperatorActions /\ MutationPolicies = {}

LEMMA AgreeSame ==
    ASSUME AgreeInv, UNCHANGED <<asg, crashed>>, \A p : Owes(thread, p) => Owes(thread', p)
    PROVE  AgreeInv'
BY DEF AgreeInv

\* What is left to show of a step that keeps the rows.
LEMMA LedBy ==
    ASSUME Kept(asg, asg'), thread' \in Seq(Step), Led(asg, thread'),
           Unplanned(thread') \/ Len(thread') = 1
    PROVE  LedInv'
BY LedKept DEF LedInv

LEMMA LedIdle ==
    ASSUME NEW table
    PROVE  Led(table, <<>>) /\ Unplanned(<<>>)
BY NoneLight, LightLed

LEMMA AgreeFire ==
    ASSUME TypeOK, WholeInv, AgreeInv, NEW a \in Ids, FireJob(a)
    PROVE  LedInv' /\ AgreeInv'
<1>1. asg \in Table /\ Whole(asg) /\ Exists(asg, a) /\ crashed' = crashed /\ thread = <<>>
  BY DEF TypeOK, Table, WholeInv, FireJob, SkipWakeup, ExpireIdle, RefuseLostDependency,
         RefusePendingDependency, RefuseReserved, StartWakeup, Wakes, Fires, Existing, Idle
<1>2. \A p : ~Owes(thread, p)
  BY <1>1, NoneLight
<1>3. Kept(asg, asg')
  BY WholeFire
<1>4. \A d \in {"expired", "depBlocked", "deps", "child"} : d \in Decisions
  BY DEF Decisions
<1>5. thread' \in Seq(Step) /\ Led(asg, thread') /\ Unplanned(thread')
  <2>1. thread' \in Seq(Step)
    BY FireType DEF TypeOK
  <2>2. CASE thread' = <<>>
    BY <2>1, <2>2, LedIdle
  <2>3. CASE thread' = <<DecideStep(a, "deps")>> \o Refresh(asg[a].parent)
    <3> DEFINE p == asg[a].parent
    <3>1. p \in Ids \cup {None}
      BY <1>1 DEF Table, Assignment
    <3>2. Refresh(p) \in Seq(Step) /\ Light(Refresh(p)) /\ (p # None => Owes(Refresh(p), p))
      BY <3>1, RefreshOwes
    <3>3. QED
      BY <1>1, <1>4, <2>1, <2>3, <3>2, DecisionLed
  <2>4. CASE thread' \in {Settle(a, "expired"), Settle(a, "depBlocked"), Park(a, "child")}
    BY <1>1, <1>4, <2>1, <2>4, OutcomesLed
  <2>5. QED
    BY <1>1, <2>2, <2>3, <2>4 DEF FireJob, SkipWakeup, ExpireIdle, RefuseLostDependency,
           RefusePendingDependency, RefuseReserved, StartWakeup
<1>6. LedInv'
  BY <1>3, <1>5, LedBy
<1>7. CASE ~StartWakeup(a)
  <2>1. UNCHANGED asg
    BY <1>7 DEF FireJob, SkipWakeup, ExpireIdle, RefuseLostDependency, RefusePendingDependency,
                RefuseReserved
  <2>2. QED
    BY <1>1, <1>2, <1>6, <2>1, AgreeSame
<1>8. CASE StartWakeup(a)
  <2> DEFINE row == Woken(asg[a])
  <2>1. asg' = [asg EXCEPT ![a] = row] /\ ~IsTerminal(asg, a) /\ DependencyNow(a) = "satisfied"
    BY <1>8 DEF StartWakeup, Wakes, Overlaps
  <2>2. asg[a] \in Assignment /\ row \in Assignment
    BY <1>1, WokenType DEF Table
  <2>3. Occupies(asg[a], row) /\ row.life = "active" /\ row.deps = asg[a].deps /\ row.mode = asg[a].mode
    BY <1>1, <2>1, <2>2 DEF Occupies, SameShape, Woken, Assignment, IsTerminal, Exists, LifecycleStates
  <2> HIDE DEF row
  <2>4. asg' \in Table /\ asg'[a] = row /\ \A d \in Ids \ {a} : asg'[d] = asg[d]
    BY <1>1, <2>1, <2>2 DEF Table
  <2>5. Agrees(asg', a)
    <3>1. asg[a].deps \subseteq Ids \ {a}
      BY <1>1 DEF Whole, Children
    <3>2. \A d \in asg[a].deps : Lives(asg')[d] = Lives(asg)[d]
      BY <2>4, <3>1 DEF Lives
    <3>3. DependencyStateOf(asg', Lives(asg'), a) = "satisfied"
      <4> DEFINE life == Lives(asg)
                 other == Lives(asg')
      <4>1. DependencyState(life, asg[a].deps, asg[a].mode) = "satisfied"
        BY <2>1 DEF DependencyNow, DependencyStateOf
      <4>2. DependencyStateOf(asg', other, a) = DependencyState(other, asg[a].deps, asg[a].mode)
        BY <2>3, <2>4 DEF DependencyStateOf
      <4>3. \A d \in asg[a].deps : other[d] = life[d]
        BY <3>2
      <4> HIDE DEF life, other
      <4>4. DependencyState(other, asg[a].deps, asg[a].mode) = DependencyState(life, asg[a].deps, asg[a].mode)
        BY <4>3, SameState
      <4>5. QED
        BY <4>1, <4>2, <4>4 DEF other
    <3>4. QED
      BY <2>3, <2>4, <3>3 DEF Agrees, DependencyWaiting, DependencyBlocked
  <2>6. ASSUME crashed' = 0, NEW c \in Ids, Exists(asg', c) PROVE Agrees(asg', c)
    <3>1. CASE c = a
      BY <2>5, <3>1
    <3>2. CASE c # a
      <4>1. Exists(asg, c)
        BY <2>4, <2>6, <3>2 DEF Exists
      <4>2. Agrees(asg, c)
        BY <1>1, <1>2, <2>6, <4>1 DEF AgreeInv
      <4>3. QED
        BY <1>1, <2>1, <2>2, <2>3, <3>2, <4>2, OccupiesAgreement
    <3>3. QED
      BY <3>1, <3>2
  <2>7. QED
    BY <1>6, <2>6 DEF AgreeInv
<1>9. QED
  BY <1>7, <1>8

LEMMA AgreeTally ==
    ASSUME asg \in Table, Whole(asg), NEW a \in Ids, Exists(asg, a), NEW n \in Nat,
           asg' = [asg EXCEPT ![a] = [asg[a] EXCEPT !.failures = n, !.open = FALSE]],
           NEW c \in Ids, Agrees(asg, c)
    PROVE  Agrees(asg', c)
<1> DEFINE row == [asg[a] EXCEPT !.failures = n, !.open = FALSE]
<1>1. asg' = [asg EXCEPT ![a] = row]
  OBVIOUS
<1>2. row \in Assignment /\ SameView(asg[a], row) /\ row.wakeups = asg[a].wakeups
  <2>1. asg[a] \in Assignment
    BY DEF Table
  <2>2. row \in Assignment
    BY <2>1 DEF Assignment
  <2>3. SameView(asg[a], row) /\ row.wakeups = asg[a].wakeups
    BY <2>1 DEF SameView, Assignment
  <2>4. QED
    BY <2>2, <2>3
<1> HIDE DEF row
<1>3. /\ asg' \in Table
      /\ \A d \in Ids : SameView(asg[d], asg'[d]) /\ asg'[d].wakeups = asg[d].wakeups
  BY <1>1, <1>2 DEF Table, SameView
<1>4. \A p : ActiveChildren(asg', p) = ActiveChildren(asg, p)
  BY <1>3 DEF SameView, ActiveChildren, Children, HoldsCapacity, Exists
<1>5. \A d \in Ids : asg[d].wakeups <= asg'[d].wakeups
  BY <1>3 DEF Table, Assignment
<1>6. Tighter(asg, asg', c)
  <2> DEFINE p == asg[c].parent
  <2>1. p # None => p \in Ids
    BY DEF Table, Assignment
  <2>2. \A d \in Ids : asg'[d].policy = asg[d].policy
    BY <1>3 DEF SameView
  <2>3. \A d \in ActiveChildren(asg, p) : d \in Ids
    BY DEF ActiveChildren, Children
  <2>4. QED
    BY <1>4, <1>5, <2>1, <2>2, <2>3 DEF Tighter
<1>7. \A d \in asg[c].deps : asg'[d].life = asg[d].life
  BY <1>3 DEF SameView, Table, Assignment
<1>8. QED
  BY <1>3, <1>6, <1>7, AgreementKept

LEMMA AgreeRuns ==
    ASSUME asg \in Table, Whole(asg), NEW a \in Ids, Exists(asg, a), NEW c \in Ids, Agrees(asg, c)
    PROVE  /\ asg' = RunSucceeded(a) => Agrees(asg', c)
           /\ asg' = RunFailed(a) => Agrees(asg', c)
<1>1. ASSUME asg' = RunSucceeded(a) PROVE Agrees(asg', c)
  BY <1>1, AgreeTally DEF RunSucceeded
<1>2. ASSUME asg' = RunFailed(a) PROVE Agrees(asg', c)
  <2> DEFINE n == asg[a].failures + 1
  <2>1. asg' = [asg EXCEPT ![a] = [asg[a] EXCEPT !.failures = n, !.open = FALSE]]
    BY <1>2 DEF RunFailed
  <2>2. n \in Nat
    BY DEF Table, Assignment
  <2> HIDE DEF n
  <2>3. QED
    BY <2>1, <2>2, AgreeTally
<1>3. QED
  BY <1>1, <1>2

LEMMA PlannerLed ==
    ASSUME NEW table, NEW a \in Ids, NEW m \in Marker
    PROVE  /\ <<PlannerStep(a, m)>> \in Seq(Step) /\ Len(<<PlannerStep(a, m)>>) = 1
           /\ Led(table, <<PlannerStep(a, m)>>)
<1> DEFINE s == PlannerStep(a, m)
<1>1. s \in Step /\ s.step = "planner"
  BY DEF PlannerStep, Step
<1> HIDE DEF s
<1>2. <<s>> \in Seq(Step) /\ Len(<<s>>) = 1 /\ Led(table, <<s>>)
  BY <1>1 DEF Led
<1>3. QED
  BY <1>2 DEF s

LEMMA AgreeRun ==
    ASSUME FixedPolicies, TypeOK, WholeInv, AgreeInv, NEW r \in runs, RunEnds(r)
    PROVE  LedInv' /\ AgreeInv'
<1>1. asg \in Table /\ Whole(asg) /\ r.id \in Ids /\ r.marker \in Marker /\ Exists(asg, r.id)
  BY RunType DEF TypeOK, Table, WholeInv, KnownRun
<1>2. thread = <<>> /\ crashed' = crashed
  BY DEF RunEnds, RunReturns, MutationEnds, RunFails, Idle
<1>3. Kept(asg, asg') /\ thread' \in Seq(Step)
  BY WholeRun, RunEndsType DEF TypeOK
<1>4. \A c \in Ids : crashed' = 0 /\ Exists(asg, c) => Agrees(asg, c)
  BY <1>2, NoneLight DEF AgreeInv
<1>5. ASSUME \A c \in Ids : Agrees(asg, c) => Agrees(asg', c),
             \A c \in Ids : Exists(asg', c) => Exists(asg, c)
      PROVE  AgreeInv'
  BY <1>4, <1>5 DEF AgreeInv
<1>6. ASSUME asg' = RunSucceeded(r.id) \/ asg' = RunFailed(r.id)
      PROVE  \A c \in Ids : (Agrees(asg, c) => Agrees(asg', c)) /\ (Exists(asg', c) => Exists(asg, c))
  <2> TAKE c \in Ids
  <2>1. Agrees(asg, c) => Agrees(asg', c)
    BY <1>1, <1>6, AgreeRuns
  <2>2. Exists(asg', c) => Exists(asg, c)
    BY <1>1, <1>6 DEF RunSucceeded, RunFailed, Exists, Table, Assignment
  <2>3. QED
    BY <2>1, <2>2
<1>7. CASE \E m \in Markers(r.id) : RunReturns(r, m)
  <2>1. PICK m \in Markers(r.id) : RunReturns(r, m)
    BY <1>7
  <2>2. m \in Marker /\ asg' = RunSucceeded(r.id)
    BY <1>1, <2>1, MarkersType DEF RunReturns
  <2>3. thread' = <<>> \/ thread' = <<PlannerStep(r.id, m)>>
    BY <1>2, <2>1 DEF RunReturns
  <2>4. Led(asg, thread') /\ (Unplanned(thread') \/ Len(thread') = 1)
    BY <1>1, <2>2, <2>3, PlannerLed, LedIdle
  <2>5. QED
    BY <1>3, <1>5, <1>6, <2>2, <2>4, LedBy
<1>8. CASE MutationEnds(r)
  <2>1. asg' = [asg EXCEPT ![r.id].policy = asg[r.id].policy]
    BY <1>8 DEF MutationEnds, FixedPolicies
  <2>2. asg' = asg
    BY <1>1, <2>1 DEF Table, Assignment
  <2>3. thread' = <<PlannerStep(r.id, r.marker)>>
    BY <1>8 DEF MutationEnds
  <2>4. Led(asg, thread') /\ Len(thread') = 1
    BY <1>1, <2>3, PlannerLed
  <2>5. QED
    BY <1>3, <1>5, <2>2, <2>4, LedBy
<1>9. CASE RunFails(r)
  <2>1. asg' = RunFailed(r.id)
    BY <1>9 DEF RunFails
  <2>2. "failed" \in Decisions /\ "other" \in Decisions
    BY DEF Decisions
  <2>3. thread' \in {Settle(r.id, "failed"), Park(r.id, "other")}
    BY <1>9 DEF RunFails
  <2>4. Led(asg, thread') /\ Unplanned(thread')
    BY <1>1, <2>2, <2>3, OutcomesLed
  <2>5. QED
    BY <1>3, <1>5, <1>6, <2>1, <2>4, LedBy
<1>10. QED
  BY <1>7, <1>8, <1>9 DEF RunEnds

\* The planner's child: the callback holds nothing else then.
LEMMA AgreePromote ==
    ASSUME TypeOK, WholeInv, LedInv, AgreeInv, NEW c \in FreshChildren, PromoteChild(c)
    PROVE  LedInv' /\ AgreeInv'
<1> DEFINE s == Head(thread)
           m == s.marker
           a == s.id
           waited == (m.child = "waited")
           promoted == Promote(asg, a, c, waited, m.deps, m.mode, asg[a].policy)
           child == CASE promoted[c].life = "active" -> <<ScheduleStep({c})>>
                      [] promoted[c].life = "blocked" -> Continue(a, c)
                      [] OTHER -> <<>>
           rest == IF waited /\ promoted[c].life # "blocked" THEN Park(a, "child") ELSE Outcome(a, m.status)
<1>1. a \in Ids /\ m \in Marker /\ s \in KnownSteps(asg) /\ s.step = "planner"
  <2>1. thread # <<>> /\ s.step = "planner"
    BY DEF PromoteChild
  <2>2. s \in KnownSteps(asg)
    BY <2>1 DEF WholeInv
  <2>3. QED
    BY <2>1, <2>2, HeadStep, StepFields
<1>2. /\ asg \in Table /\ Whole(asg) /\ Exists(asg, a) /\ m.deps \subseteq Children(asg, a)
      /\ thread \in Seq(Step) /\ thread # <<>>
  BY <1>1 DEF TypeOK, Table, WholeInv, KnownSteps, KnownStep, PromoteChild
<1>3. asg' = promoted /\ thread' = child \o rest /\ crashed' = crashed
  BY DEF PromoteChild
<1>4. /\ Born(asg'[c], asg, a, waited, m.deps, m.mode)
      /\ \A d \in Ids \ {c} : asg'[d] = asg[d]
      /\ c \in Ids /\ ~Exists(asg, c)
  <2>1. CanPromote(asg, a)
    BY DEF PromoteChild
  <2>2. asg[a].policy \in Policy
    BY <1>1, <1>2 DEF Table, Assignment
  <2>3. waited \in BOOLEAN /\ m.deps \in SUBSET Children(asg, a) /\ m.mode \in {"all", "any"}
    BY <1>1, <1>2, MarkerFields
  <2> HIDE DEF waited, m, a
  <2>4. QED
    BY <1>1, <1>2, <1>3, <2>1, <2>2, <2>3, PromoteKept
<1>5. asg' \in Table /\ Kept(asg, asg') /\ thread' \in Seq(Step)
  BY PromoteThread, WholePromote, FreshSteps
<1>6. \A p : ~Owes(thread, p)
  <2>1. Tail(thread) = <<>> /\ \A p : Owes(thread, p) => Resolves(s, p) \/ Owes(Tail(thread), p)
    BY <1>1, <1>2, LedTail DEF LedInv
  <2>2. \A p : ~Resolves(s, p)
    BY <1>1 DEF Resolves
  <2>3. QED
    BY <2>1, <2>2, NoneLight
<1>7. child \in Seq(Step) /\ Light(child)
  <2>1. <<ScheduleStep({c})>> \in Seq(Step) /\ Light(<<ScheduleStep({c})>>)
    BY <1>4, ScheduleLight
  <2>2. Continue(a, c) \in Seq(Step) /\ Light(Continue(a, c))
    BY <1>1, <1>4, RefreshOwes
  <2> HIDE DEF promoted, a
  <2>3. QED
    BY <2>1, <2>2, NoneLight
<1>8. rest \in Seq(Step) /\ Led(asg, rest) /\ Unplanned(rest)
  <2>1. "child" \in Decisions
    BY DEF Decisions
  <2>2. /\ Park(a, "child") \in Seq(Step) /\ Outcome(a, m.status) \in Seq(Step)
        /\ Led(asg, Park(a, "child")) /\ Led(asg, Outcome(a, m.status))
        /\ Unplanned(Park(a, "child")) /\ Unplanned(Outcome(a, m.status))
    BY <1>1, <1>2, <2>1, OutcomesLed
  <2> HIDE DEF promoted, a, m, waited
  <2>3. QED
    BY <2>2
<1> HIDE DEF child, rest, promoted
<1>9. Led(asg, thread') /\ Unplanned(thread')
  BY <1>3, <1>7, <1>8, LedJoined
<1>10. LedInv'
  BY <1>5, <1>9, LedBy
<1>11. ASSUME crashed' = 0, NEW d \in Ids, Exists(asg', d) PROVE Agrees(asg', d)
  <2>1. CASE d = c
    <3>1. m.deps \in SUBSET Children(asg, a)
      BY <1>2
    <3> HIDE DEF m, a, waited
    <3>2. QED
      BY <1>1, <1>2, <1>4, <1>5, <2>1, <3>1, NewbornAgrees
  <2>2. CASE d # c
    <3>1. Exists(asg, d)
      BY <1>4, <1>11, <2>2 DEF Exists
    <3>2. Agrees(asg, d)
      BY <1>3, <1>6, <1>11, <3>1 DEF AgreeInv
    <3>3. QED
      BY <1>2, <1>4, <1>5, <3>1, <3>2, BirthAgreement
  <2>3. QED
    BY <2>1, <2>2
<1>12. QED
  BY <1>10, <1>11 DEF AgreeInv

LEMMA FamilyOnly ==
    ASSUME asg \in Table, Whole(asg), AgreeInv, crashed' = crashed, NEW a \in Ids, Exists(asg, a),
           NEW row \in Assignment, Rewrites(asg[a], row), asg' = [asg EXCEPT ![a] = row],
           asg[a].parent # None => Owes(thread', asg[a].parent),
           \A p : Owes(thread, p) => Owes(thread', p)
    PROVE  AgreeInv'
<1>1. Kept(asg, asg')
  BY WriteKept DEF Rewrites
<1>2. SUFFICES ASSUME crashed' = 0, NEW c \in Ids, Exists(asg', c)
               PROVE  Agrees(asg', c) \/ Owes(thread', asg'[c].parent)
  BY DEF AgreeInv
<1>3. Exists(asg, c)
  BY <1>2 DEF Exists, Table
<1>4. asg'[c].parent = asg[c].parent
  BY <1>1, <1>3 DEF Kept
<1>5. Agrees(asg, c) \/ Owes(thread, asg[c].parent)
  BY <1>2, <1>3 DEF AgreeInv
<1>6. CASE Owes(thread, asg[c].parent)
  BY <1>4, <1>6
<1>7. CASE Agrees(asg, c) /\ asg[c].parent = asg[a].parent /\ asg[a].parent # None
  BY <1>4, <1>7
<1>8. CASE Agrees(asg, c) /\ (asg[c].parent # asg[a].parent \/ asg[c].parent = None)
  BY <1>3, <1>8, OtherFamily
<1>9. QED
  BY <1>5, <1>6, <1>7, <1>8

LEMMA DecidedRewrites ==
    ASSUME NEW row \in Assignment, NEW decision \in Decisions
    PROVE  Rewrites(row, Decided(row, decision))
<1>1. SameShape(row, Decided(row, decision))
  BY DecidedShape
<1>2. Decided(row, decision).policy = row.policy /\ Decided(row, decision).wakeups = row.wakeups
  BY DEF Decided, Assignment
<1>3. QED
  BY <1>1, <1>2 DEF Rewrites

LEMMA ControlledRewrites ==
    ASSUME NEW row \in Assignment, row.life # "absent", NEW action
    PROVE  Rewrites(row, Controlled(row, action))
<1>1. SameShape(row, Controlled(row, action))
  BY ControlledShape
<1>2. Controlled(row, action).policy = row.policy /\ Controlled(row, action).wakeups = row.wakeups
  BY DEF Controlled, Assignment
<1>3. QED
  BY <1>1, <1>2 DEF Rewrites

LEMMA AgreeDecision ==
    ASSUME TypeOK, WholeInv, LedInv, AgreeInv, TakeDecision
    PROVE  LedInv' /\ AgreeInv'
<1> DEFINE s == Head(thread)
           a == s.id
           row == Decided(asg[a], s.decision)
<1>1. thread \in Seq(Step) /\ thread # <<>> /\ s.step = "decide" /\ thread' = Tail(thread)
  BY DEF TakeDecision, TypeOK
<1>2. a \in Ids /\ s.decision \in Decisions /\ asg \in Table /\ Whole(asg)
  BY <1>1, HeadStep, StepFields DEF TypeOK, Table, WholeInv
<1>3. Exists(asg, a)
  <2>1. s \in KnownSteps(asg)
    BY <1>1 DEF WholeInv
  <2>2. QED
    BY <1>1, <2>1 DEF KnownSteps, KnownStep
<1>4. asg' = [asg EXCEPT ![a] = row] /\ crashed' = crashed
  BY DEF TakeDecision, Decide
<1>5. row \in Assignment /\ Rewrites(asg[a], row)
  <2>1. asg[a] \in Assignment
    BY <1>2 DEF Table
  <2>2. QED
    BY <1>2, <2>1, DecidedType, DecidedRewrites
<1>6. /\ Led(asg, Tail(thread)) /\ Unplanned(Tail(thread))
      /\ asg[a].parent # None => Owes(Tail(thread), asg[a].parent)
      /\ \A p : Owes(thread, p) => Resolves(s, p) \/ Owes(Tail(thread), p)
  BY <1>1, LedTail DEF LedInv
<1>7. \A p : ~Resolves(s, p)
  BY <1>1 DEF Resolves
<1> HIDE DEF s, a, row
<1>8. Kept(asg, asg')
  BY <1>2, <1>3, <1>4, <1>5, WriteKept DEF Rewrites
<1>9. LedInv'
  <2>1. thread' \in Seq(Step)
    BY <1>1
  <2>2. QED
    BY <1>1, <1>6, <1>8, <2>1, LedBy
<1>10. AgreeInv'
  BY <1>1, <1>2, <1>3, <1>4, <1>5, <1>6, <1>7, FamilyOnly
<1>11. QED
  BY <1>9, <1>10

LEMMA AgreeResolve ==
    ASSUME TypeOK, WholeInv, LedInv, AgreeInv, ResolveChild
    PROVE  LedInv' /\ AgreeInv'
<1> DEFINE s == Head(thread)
<1>1. PICK c \in s.todo :
         LET what == Resolution(asg, s.before, c)
             next == [s EXCEPT !.changed = TRUE, !.todo = @ \ {c},
                               !.activated = IF what = "resume" THEN @ \cup {c} ELSE @,
                               !.lost = IF what = "depBlocked" THEN @ \cup {c} ELSE @]
         IN  what # "nothing" /\ asg' = Resolve(asg, c, what) /\ thread' = <<next>> \o Tail(thread)
  BY DEF ResolveChild
<1> DEFINE what == Resolution(asg, s.before, c)
           todo == s.todo \ {c}
           activated == IF what = "resume" THEN s.activated \cup {c} ELSE s.activated
           lost == IF what = "depBlocked" THEN s.lost \cup {c} ELSE s.lost
           next == [s EXCEPT !.changed = TRUE, !.todo = todo, !.activated = activated, !.lost = lost]
           p == s.parent
           row == IF what = "resume" THEN Controlled(asg[c], "resume") ELSE Decided(asg[c], what)
<1>2. /\ s \in [step : {"resolve"}, parent : Ids, cause : Ids \cup {None}, changed : BOOLEAN,
                before : [Ids -> LifecycleStates], todo : SUBSET Ids, activated : SUBSET Ids,
                lost : SUBSET Ids]
      /\ s \in KnownSteps(asg) /\ Tail(thread) \in Seq(Step)
      /\ thread # <<>> /\ thread \in Seq(Step) /\ s.step = "resolve"
  BY HeadStep, StepFields DEF ResolveChild, WholeInv, TypeOK
<1>3. what # "nothing" /\ asg' = Resolve(asg, c, what) /\ thread' = <<next>> \o Tail(thread)
  BY <1>1
<1>4. asg \in Table /\ Whole(asg) /\ crashed' = crashed
  BY DEF TypeOK, Table, WholeInv, ResolveChild
<1>5. c \in Ids /\ Exists(asg, c) /\ asg[c].parent = p
  BY <1>1, <1>2 DEF KnownSteps, KnownStep, Children
<1>6. what \in {"resume", "depBlocked", "deps", "other"}
  BY <1>3, <1>4, <1>5, ResolvedType
<1>7. asg' = [asg EXCEPT ![c] = row]
  BY <1>3 DEF Resolve, Control, Decide
<1>8. row \in Assignment /\ Rewrites(asg[c], row)
  <2>1. asg[c] \in Assignment /\ asg[c].life # "absent"
    BY <1>4, <1>5 DEF Table, Exists
  <2>2. what # "resume" => what \in Decisions
    BY <1>6 DEF Decisions
  <2> HIDE DEF what
  <2>3. QED
    BY <2>1, <2>2, DecidedType, ControlledType, DecidedRewrites, ControlledRewrites
<1>9. next.step = "resolve" /\ next.parent = p
  BY <1>2
<1>10. <<next>> \in Seq(Step)
  <2>1. thread' \in Seq(Step)
    BY ThreadType DEF ThreadStep, TypeOK
  <2>2. next = Head(thread')
    <3> HIDE DEF next
    <3>1. QED
      BY <1>2, <1>3
  <2>3. thread' # <<>>
    <3> HIDE DEF next
    <3>1. QED
      BY <1>2, <1>3
  <2> HIDE DEF next
  <2>4. QED
    BY <2>1, <2>2, <2>3
<1>11. Light(<<next>>) /\ Owes(<<next>>, p)
  <2> HIDE DEF next, p
  <2>1. Len(<<next>>) = 1 /\ <<next>>[1] = next
    OBVIOUS
  <2>2. 1 \in 1..Len(<<next>>) /\ Resolves(<<next>>[1], p)
    BY <1>9, <2>1 DEF Resolves
  <2>3. Owes(<<next>>, p)
    BY <2>2 DEF Owes
  <2>4. QED
    BY <1>9, <2>3 DEF Light
<1>12. /\ Led(asg, Tail(thread)) /\ Unplanned(Tail(thread))
       /\ \A q : Owes(thread, q) => Resolves(s, q) \/ Owes(Tail(thread), q)
  BY <1>2, LedTail DEF LedInv
<1>13. \A q : Resolves(s, q) => q = p
  BY DEF Resolves
<1> HIDE DEF s, what, next, p, row
<1>14. Led(asg, thread') /\ Unplanned(thread')
  BY <1>2, <1>3, <1>10, <1>11, <1>12, LedJoined
<1>15. \A q : Owes(thread', q) <=> Owes(<<next>>, q) \/ Owes(Tail(thread), q)
  BY <1>2, <1>3, <1>10, OwesJoined
<1>16. Kept(asg, asg')
  BY <1>4, <1>5, <1>7, <1>8, WriteKept DEF Rewrites
<1>17. LedInv'
  <2>1. thread' \in Seq(Step)
    BY <1>2, <1>3, <1>10
  <2>2. QED
    BY <1>14, <1>16, <2>1, LedBy
<1>18. AgreeInv'
  BY <1>4, <1>5, <1>7, <1>8, <1>11, <1>12, <1>13, <1>15, FamilyOnly
<1>19. QED
  BY <1>17, <1>18

LEMMA AgreeEnd ==
    ASSUME TypeOK, WholeInv, PassInv, LedInv, AgreeInv, EndResolution
    PROVE  LedInv' /\ AgreeInv'
<1> DEFINE s == Head(thread)
           p == s.parent
           children == IF s.activated = {} THEN <<>> ELSE <<ScheduleStep(s.activated)>>
           waitedFor == \E c \in {s.cause} \cup s.activated \cup s.lost : asg[c].waited
           parent == IF /\ ActiveWaitedChildren(asg, p) = {}
                        /\ waitedFor
                        /\ ParentMayContinue(p)
                       THEN <<ScheduleStep({p})>> ELSE <<>>
           front == IF s.cause = None THEN <<>> ELSE children \o parent
<1>1. /\ thread # <<>> /\ s.step = "resolve" /\ thread' = front \o Tail(thread)
      /\ ResolutionOver(s) /\ UNCHANGED <<asg, crashed>>
  BY DEF EndResolution
<1>2. /\ p \in Ids /\ s.activated \in SUBSET Ids /\ thread \in Seq(Step)
      /\ Tail(thread) \in Seq(Step) /\ asg \in Table /\ Whole(asg)
  BY <1>1, HeadStep, StepFields DEF TypeOK, Table, WholeInv
<1>3. \A c \in Children(asg, p) : Agrees(asg, c)
  <2> TAKE c \in Children(asg, p)
  <2>1. Resolution(asg, Lives(asg), c) = "nothing" /\ c \in Ids
    BY <1>1 DEF PassInv, ResolutionOver, PassOver, Children
  <2>2. AgreesWithSiblings(c)
    BY <2>1, NothingToResolve
  <2>3. QED
    BY <2>2, AgreesHere
<1>4. children \in Seq(Step) /\ Light(children)
  <2>1. <<ScheduleStep(s.activated)>> \in Seq(Step) /\ Light(<<ScheduleStep(s.activated)>>)
    BY <1>2, ScheduleLight
  <2> HIDE DEF s
  <2>2. QED
    BY <2>1, NoneLight
<1>5. parent \in Seq(Step) /\ Light(parent)
  <2>1. <<ScheduleStep({p})>> \in Seq(Step) /\ Light(<<ScheduleStep({p})>>)
    BY <1>2, ScheduleLight
  <2> HIDE DEF p, waitedFor
  <2>2. QED
    BY <2>1, NoneLight
<1> HIDE DEF children, parent
<1>6. front \in Seq(Step) /\ Light(front)
  <2>1. children \o parent \in Seq(Step) /\ Light(children \o parent)
    BY <1>4, <1>5, LightJoined
  <2> HIDE DEF s
  <2>2. QED
    BY <2>1, NoneLight
<1> HIDE DEF front
<1>7. /\ Led(asg, Tail(thread)) /\ Unplanned(Tail(thread))
      /\ \A q : Owes(thread, q) => Resolves(s, q) \/ Owes(Tail(thread), q)
  BY <1>1, <1>2, LedTail DEF LedInv
<1>8. \A q : Resolves(s, q) => q = p
  BY DEF Resolves
<1> HIDE DEF s, p
<1>9. Led(asg, thread') /\ Unplanned(thread') /\ thread' \in Seq(Step)
  <2>1. Led(asg, front \o Tail(thread)) /\ Unplanned(front \o Tail(thread))
    BY <1>2, <1>6, <1>7, LedJoined
  <2>2. front \o Tail(thread) \in Seq(Step)
    BY <1>2, <1>6
  <2>3. QED
    BY <1>1, <2>1, <2>2
<1>10. \A q : Owes(Tail(thread), q) => Owes(thread', q)
  BY <1>1, <1>2, <1>6, OwesJoined
<1>11. LedInv'
  <2>1. Kept(asg, asg')
    BY <1>1, <1>2, SameTable
  <2>2. QED
    BY <1>9, <2>1, LedBy
<1>12. ASSUME crashed' = 0, NEW c \in Ids, Exists(asg, c)
       PROVE  Agrees(asg, c) \/ Owes(thread', asg[c].parent)
  <2>1. Agrees(asg, c) \/ Owes(thread, asg[c].parent)
    BY <1>1, <1>12 DEF AgreeInv
  <2>2. CASE asg[c].parent = p
    <3>1. c \in Children(asg, p)
      BY <1>12, <2>2 DEF Children
    <3>2. QED
      BY <1>3, <3>1
  <2>3. CASE asg[c].parent # p
    BY <1>7, <1>8, <1>10, <2>1, <2>3
  <2>4. QED
    BY <2>2, <2>3
<1>13. AgreeInv'
  BY <1>1, <1>12 DEF AgreeInv
<1>14. QED
  BY <1>11, <1>13

LEMMA AgreeThread ==
    ASSUME TypeOK, WholeInv, PassInv, LedInv, AgreeInv, ThreadStep
    PROVE  LedInv' /\ AgreeInv'
<1> DEFINE s == Head(thread)
<1>1. asg \in Table /\ Whole(asg) /\ thread \in Seq(Step) /\ thread' \in Seq(Step)
  BY ThreadType DEF TypeOK, Table, WholeInv
<1>2. ASSUME thread # <<>>
      PROVE  /\ s \in Step /\ Tail(thread) \in Seq(Step)
             /\ Led(asg, Tail(thread)) /\ Unplanned(Tail(thread))
             /\ s.step = "planner" => Tail(thread) = <<>>
             /\ \A q : Owes(thread, q) => Resolves(s, q) \/ Owes(Tail(thread), q)
  BY <1>1, <1>2, HeadStep, LedTail DEF LedInv
<1>3. ASSUME UNCHANGED <<asg, crashed>>, Led(asg, thread'), Unplanned(thread'),
             \A q : Owes(thread, q) => Owes(thread', q)
      PROVE  LedInv' /\ AgreeInv'
  <2>1. Kept(asg, asg')
    BY <1>1, <1>3, SameTable
  <2>2. QED
    BY <1>1, <1>3, <2>1, LedBy, AgreeSame
<1>4. CASE NoChild
  <2>1. thread # <<>> /\ s.step = "planner" /\ UNCHANGED <<asg, crashed>>
    BY <1>4 DEF NoChild
  <2>2. s.id \in Ids /\ Exists(asg, s.id)
    <3>1. s \in KnownSteps(asg)
      BY <2>1 DEF WholeInv
    <3>2. QED
      BY <1>2, <2>1, <3>1, StepFields DEF KnownSteps, KnownStep
  <2>3. thread' = Outcome(s.id, s.marker.status)
    BY <1>4 DEF NoChild
  <2>4. Led(asg, thread') /\ Unplanned(thread')
    BY <1>1, <2>2, <2>3, OutcomesLed
  <2>5. \A q : ~Owes(thread, q)
    <3>1. \A q : ~Resolves(s, q)
      BY <2>1 DEF Resolves
    <3>2. QED
      BY <1>2, <2>1, <3>1, NoneLight
  <2>6. QED
    BY <1>3, <2>1, <2>4, <2>5
<1>5. CASE ScheduleNext
  <2>1. thread # <<>> /\ s.step = "schedule" /\ UNCHANGED <<asg, crashed>>
    BY <1>5 DEF ScheduleNext
  <2>2. PICK a \in s.ids :
           thread' = (IF s.ids = {a} THEN <<>> ELSE <<ScheduleStep(s.ids \ {a})>>) \o Tail(thread)
    BY <1>5 DEF ScheduleNext
  <2> DEFINE rest == s.ids \ {a}
             front == IF s.ids = {a} THEN <<>> ELSE <<ScheduleStep(rest)>>
  <2>3. rest \in SUBSET Ids
    BY <1>2, <2>1, StepFields
  <2>4. front \in Seq(Step) /\ Light(front)
    <3>1. <<ScheduleStep(rest)>> \in Seq(Step) /\ Light(<<ScheduleStep(rest)>>)
      BY <2>3, ScheduleLight
    <3> HIDE DEF rest
    <3>2. QED
      BY <3>1, NoneLight
  <2>5. thread' = front \o Tail(thread)
    BY <2>2
  <2> HIDE DEF front
  <2>6. Led(asg, thread') /\ Unplanned(thread')
    BY <1>2, <2>1, <2>4, <2>5, LedJoined
  <2>7. \A q : ~Resolves(s, q)
    BY <2>1 DEF Resolves
  <2>8. \A q : Owes(thread, q) => Owes(thread', q)
    BY <1>2, <2>1, <2>4, <2>5, <2>7, OwesJoined
  <2>9. QED
    BY <1>3, <2>1, <2>6, <2>8
<1>6. CASE NextPass
  <2> DEFINE lives == Lives(asg)
             children == Children(asg, s.parent)
             next == [s EXCEPT !.changed = FALSE, !.before = lives, !.todo = children]
  <2>1. thread # <<>> /\ s.step = "resolve" /\ thread' = <<next>> \o Tail(thread) /\ UNCHANGED <<asg, crashed>>
    BY <1>6 DEF NextPass
  <2>2. /\ s \in [step : {"resolve"}, parent : Ids, cause : Ids \cup {None}, changed : BOOLEAN,
                  before : [Ids -> LifecycleStates], todo : SUBSET Ids, activated : SUBSET Ids,
                  lost : SUBSET Ids]
    BY <1>2, <2>1, StepFields
  <2>3. next \in Step
    <3>1. lives \in [Ids -> LifecycleStates] /\ children \in SUBSET Ids
      BY <1>1, LivesType DEF Children
    <3> HIDE DEF s, lives, children
    <3>2. QED
      BY <2>2, <3>1 DEF Step
  <2>4. next.step = "resolve" /\ next.parent = s.parent
    BY <2>2
  <2> HIDE DEF next
  <2>5. <<next>> \in Seq(Step) /\ Light(<<next>>)
    BY <2>3, <2>4 DEF Light
  <2>6. \A q : Resolves(s, q) => Owes(<<next>>, q)
    <3>1. Len(<<next>>) = 1 /\ <<next>>[1] = next /\ 1 \in 1..1
      OBVIOUS
    <3>2. QED
      BY <2>4, <3>1 DEF Resolves, Owes
  <2>7. Led(asg, thread') /\ Unplanned(thread')
    BY <1>2, <2>1, <2>5, LedJoined
  <2>8. \A q : Owes(thread, q) => Owes(thread', q)
    BY <1>2, <2>1, <2>5, <2>6, OwesJoined
  <2>9. QED
    BY <1>3, <2>1, <2>7, <2>8
<1>7. CASE Release
  <2>1. thread = <<>> /\ UNCHANGED <<asg, thread, crashed>>
    BY <1>7 DEF Release
  <2>2. QED
    BY <1>3, <2>1, LedIdle
<1>8. QED
  BY <1>4, <1>5, <1>6, <1>7, AgreePromote, AgreeDecision, AgreeResolve, AgreeEnd DEF ThreadStep

LEMMA AgreeOperator ==
    ASSUME FixedPolicies, TypeOK, WholeInv, AgreeInv, OperatorRequest
    PROVE  LedInv' /\ AgreeInv'
<1>1. asg \in Table /\ asg' \in Table /\ Whole(asg) /\ thread' \in Seq(Step) /\ Kept(asg, asg')
  BY OperatorType, WholeOperator DEF TypeOK, Table, WholeInv
<1>2. thread = <<>> /\ crashed' = crashed
  BY DEF OperatorRequest, AdminCreate, AdminPromote, ControlRequest, ChangePolicy, Controls, Operates, Idle
<1>3. ASSUME crashed' = 0, NEW c \in Ids, Exists(asg, c) PROVE Agrees(asg, c)
  BY <1>2, <1>3, NoneLight DEF AgreeInv
<1>4. ASSUME NEW b \in Ids, ~Exists(asg, b), \A d \in Ids \ {b} : asg'[d] = asg[d], Agrees(asg', b),
             thread' = thread
      PROVE  LedInv' /\ AgreeInv'
  <2>1. ASSUME crashed' = 0, NEW c \in Ids, Exists(asg', c) PROVE Agrees(asg', c)
    <3>1. CASE c = b
      BY <1>4, <3>1
    <3>2. CASE c # b
      <4>1. Exists(asg, c)
        BY <1>4, <2>1, <3>2 DEF Exists
      <4>2. Agrees(asg, c)
        BY <1>3, <2>1, <4>1
      <4>3. QED
        BY <1>1, <1>4, <4>1, <4>2, BirthAgreement
    <3>3. QED
      BY <3>1, <3>2
  <2>2. LedInv'
    BY <1>1, <1>2, <1>4, LedIdle, LedBy
  <2>3. QED
    BY <2>1, <2>2 DEF AgreeInv
<1>5. ASSUME NEW a \in Roots, NEW policy \in Policies, AdminCreate(a, policy)
      PROVE  LedInv' /\ AgreeInv'
  <2>1. a \in Ids /\ ~Exists(asg, a) /\ asg' = [asg EXCEPT ![a] = NewAssignment(policy)] /\ thread' = thread
    BY <1>5, PlannerAssumption DEF AdminCreate
  <2>2. asg'[a].deps = {} /\ \A d \in Ids \ {a} : asg'[d] = asg[d]
    BY <1>1, <2>1 DEF NewAssignment, Table
  <2>3. QED
    BY <1>4, <2>1, <2>2, NoDependencies
<1>6. ASSUME NEW p \in Ids, NEW c \in Ids, NEW policy \in Policies, AdminPromote(p, c, policy)
      PROVE  LedInv' /\ AgreeInv'
  <2>1. /\ Exists(asg, p) /\ CanPromote(asg, p) /\ c \in FreshChildren /\ thread' = thread
        /\ asg' = Promote(asg, p, c, FALSE, {}, "all", policy)
    BY <1>6 DEF AdminPromote
  <2>2. /\ policy \in Policy /\ FALSE \in BOOLEAN /\ {} \in SUBSET Children(asg, p)
        /\ "all" \in {"all", "any"}
    BY PlannerAssumption
  <2>3. /\ Born(asg'[c], asg, p, FALSE, {}, "all") /\ ~Exists(asg, c)
        /\ \A d \in Ids \ {c} : asg'[d] = asg[d]
    BY <1>1, <2>1, <2>2, PromoteKept
  <2>4. asg'[c].deps = {}
    BY <2>3 DEF Born
  <2>5. QED
    BY <1>4, <2>1, <2>3, <2>4, NoDependencies
<1>7. ASSUME NEW a \in Ids, NEW action, ControlRequest(a, action)
      PROVE  LedInv' /\ AgreeInv'
  <2> DEFINE row == Controlled(asg[a], action)
             p == asg[a].parent
             dropped == IF action = "add_context" THEN <<>> ELSE Refresh(p)
             kept == IF action = "force_wakeup" THEN <<ScheduleStep({a})>> ELSE Continue(p, a)
  <2>1. Exists(asg, a) /\ asg' = [asg EXCEPT ![a] = row] /\ thread' = dropped \o kept
    BY <1>7 DEF ControlRequest, Control
  <2>2. asg[a] \in Assignment /\ asg[a].life # "absent" /\ p \in Ids \cup {None}
    BY <1>1, <2>1 DEF Table, Exists, Assignment
  <2>3. row \in Assignment /\ Rewrites(asg[a], row)
    BY <2>2, ControlledType, ControlledRewrites
  <2>4. /\ Refresh(p) \in Seq(Step) /\ Continue(p, a) \in Seq(Step)
        /\ Light(Refresh(p)) /\ Light(Continue(p, a))
        /\ p # None => Owes(Refresh(p), p) /\ Owes(Continue(p, a), p)
    BY <2>2, RefreshOwes
  <2>5. dropped \in Seq(Step) /\ Light(dropped)
    <3> HIDE DEF p
    <3>1. QED
      BY <2>4, NoneLight
  <2>6. kept \in Seq(Step) /\ Light(kept)
    <3>1. <<ScheduleStep({a})>> \in Seq(Step) /\ Light(<<ScheduleStep({a})>>)
      BY ScheduleLight
    <3> HIDE DEF p
    <3>2. QED
      BY <2>4, <3>1
  <2>7. p # None => Owes(dropped, p) \/ Owes(kept, p)
    <3>1. action = "force_wakeup" => action # "add_context"
      OBVIOUS
    <3> HIDE DEF p
    <3>2. QED
      BY <2>4, <3>1
  <2> HIDE DEF row, p, dropped, kept
  <2>8. Light(thread') /\ Led(asg, thread') /\ Unplanned(thread')
    BY <2>1, <2>5, <2>6, LightJoined, LightLed
  <2>9. p # None => Owes(thread', p)
    BY <2>1, <2>5, <2>6, <2>7, OwesJoined
  <2>10. LedInv'
    BY <1>1, <2>8, LedBy
  <2>11. \A q : Owes(thread, q) => Owes(thread', q)
    BY <1>2, NoneLight
  <2>12. AgreeInv'
    <3>1. asg[a].parent # None => Owes(thread', asg[a].parent)
      BY <2>9 DEF p
    <3>2. QED
      BY <1>1, <1>2, <2>1, <2>3, <2>11, <3>1, FamilyOnly
  <2>13. QED
    BY <2>10, <2>12
<1>8. \A a \in Ids, policy \in Policies : ~ChangePolicy(a, policy)
  BY DEF FixedPolicies, ChangePolicy, Controls, Operates
<1>9. QED
  BY <1>5, <1>6, <1>7, <1>8 DEF OperatorRequest

LEMMA AgreeIntake ==
    ASSUME TypeOK, WholeInv, AgreeInv, NEW a \in Roots, NEW policy \in Policies, Intake(a, policy)
    PROVE  LedInv' /\ AgreeInv'
<1>1. /\ asg \in Table /\ asg' \in Table /\ Whole(asg) /\ thread' \in Seq(Step)
      /\ thread = <<>> /\ crashed' = crashed /\ a \in Ids
  BY IntakeType, PlannerAssumption DEF TypeOK, Table, WholeInv, Intake, Idle
<1>2. ~Exists(asg, a) /\ asg' = [asg EXCEPT ![a] = NewAssignment(policy)] /\ thread' = <<ScheduleStep({a})>>
  BY DEF Intake
<1>3. asg'[a].deps = {} /\ \A d \in Ids \ {a} : asg'[d] = asg[d]
  BY <1>1, <1>2 DEF NewAssignment, Table
<1>4. Led(asg, thread') /\ Unplanned(thread')
  BY <1>1, <1>2, ScheduleLight, LightLed
<1>5. LedInv'
  BY <1>1, <1>4, WholeIntake, LedBy
<1>6. ASSUME crashed' = 0, NEW c \in Ids, Exists(asg', c) PROVE Agrees(asg', c)
  <2>1. CASE c = a
    BY <1>3, <2>1, NoDependencies
  <2>2. CASE c # a
    <3>1. Exists(asg, c)
      BY <1>3, <1>6, <2>2 DEF Exists
    <3>2. Agrees(asg, c)
      BY <1>1, <1>6, <3>1, NoneLight DEF AgreeInv
    <3>3. QED
      BY <1>1, <1>2, <1>3, <3>1, <3>2, BirthAgreement
  <2>3. QED
    BY <2>1, <2>2
<1>7. QED
  BY <1>5, <1>6 DEF AgreeInv

LEMMA AgreeStep ==
    ASSUME FixedPolicies, TypeOK, WholeInv, PassInv, LedInv, AgreeInv, [Next]_vars
    PROVE  LedInv' /\ AgreeInv'
<1>1. CASE UNCHANGED vars
  <2>1. UNCHANGED <<asg, thread, crashed>>
    BY <1>1 DEF vars
  <2>2. AgreeInv'
    BY <2>1, AgreeSame
  <2>3. LedInv'
    BY <2>1 DEF LedInv
  <2>4. QED
    BY <2>2, <2>3
<1>2. CASE CrashAndRestart
  <2>1. thread' = <<>> /\ asg' = asg /\ crashed' = crashed + 1 /\ crashed \in Nat
    BY <1>2, PlannerAssumption DEF CrashAndRestart, TypeOK
  <2>2. crashed' # 0
    BY <2>1
  <2>3. LedInv'
    BY <2>1, LedIdle DEF LedInv
  <2>4. QED
    BY <2>2, <2>3 DEF AgreeInv
<1>3. QED
  BY <1>1, <1>2, AgreeIntake, AgreeOperator, AgreeFire, AgreeRun, AgreeThread DEF Next

\* The children an earlier process left agree with their siblings.
AgreeingTables == \A table \in InitialTables : \A c \in Ids : Exists(table, c) => Agrees(table, c)

\* DependenciesSettled: between two callbacks, until a process dies, every child is
\* blocked, parked or free as its siblings and the room of its parent have it: no path
\* of service.ts or wakeup-planner.ts that changes a child forgets those that depend on
\* it.  For every table to start from in which they agree, every operator who changes no
\* policy, any depth and any number of assignments.  (A policy changed under a parent
\* is looked at by nobody; the bound on it is the run's.)
THEOREM DependenciesSettledAlways ==
    ASSUME WholeTables, AgreeingTables, FixedPolicies
    PROVE  Spec => []DependenciesSettled
<1>1. Init => WholeInv /\ PassInv /\ LedInv /\ AgreeInv
  <2> SUFFICES ASSUME Init PROVE WholeInv /\ PassInv /\ LedInv /\ AgreeInv
    OBVIOUS
  <2>1. WholeInv
    BY WholeInit
  <2>2. thread = <<>> /\ asg \in InitialTables
    BY DEF Init
  <2>3. PassInv
    BY <2>2 DEF PassInv
  <2>4. LedInv
    BY <2>2, LedIdle DEF LedInv
  <2>5. AgreeInv
    BY <2>2 DEF AgreeingTables, AgreeInv
  <2>6. QED
    BY <2>1, <2>3, <2>4, <2>5
<1>2. TypeOK /\ WholeInv /\ PassInv /\ LedInv /\ AgreeInv /\ [Next]_vars
        => WholeInv' /\ PassInv' /\ LedInv' /\ AgreeInv'
  BY WholeStep, PassStep, AgreeStep
<1>3. AgreeInv => DependenciesSettled
  BY AgreesHere, NoneLight DEF AgreeInv, DependenciesSettled, Idle
<1>4. QED
  BY <1>1, <1>2, <1>3, TypeCorrect, PTL DEF Spec

-----------------------------------------------------------------------------
(* Children without children of their own *)

\* Over, or held up by a loss or by their own word: they hold nothing of their parent.
Stopped == TerminalStates \cup {"blocked"}

IsChild(table, c) == Exists(table, c) /\ table[c].parent # None

IsRoot(table, a) == Exists(table, a) /\ table[a].parent = None

\* No child has the depth to promote one.
Flat(table) ==
    \A c \in Ids :
        /\ Exists(table, c) => table[c].policy.maxDepth <= 1
        /\ table[c].parent # None => Exists(table, c) /\ IsRoot(table, table[c].parent)

\* What assignmentDepth computes by recursion.
Deep(depth, table) == depth = [x \in Ids |-> IF table[x].parent = None THEN 0 ELSE 1 + depth[table[x].parent]]

LEMMA DepthChosen ==
    ASSUME NEW table, NEW some, Deep(some, table), NEW a
    PROVE  \E depth : Deep(depth, table) /\ Depth(table, a) = depth[a]
BY DEF Depth, Deep

\* Who may promote is a root.
LEMMA RootPromotes ==
    ASSUME NEW table \in Table, Flat(table), NEW a \in Ids, Exists(table, a), CanPromote(table, a)
    PROVE  IsRoot(table, a)
<1> SUFFICES ASSUME table[a].parent # None PROVE FALSE
  BY DEF IsRoot
<1> DEFINE some == [x \in Ids |-> IF table[x].parent = None THEN 0 ELSE 1]
<1>1. \A x \in Ids : table[x].parent # None => table[x].parent \in Ids /\ table[table[x].parent].parent = None
  BY DEF Flat, IsRoot, Table, Assignment
<1>2. Deep(some, table)
  BY <1>1 DEF Deep
<1> HIDE DEF some
<1>3. PICK depth : Deep(depth, table) /\ Depth(table, a) = depth[a]
  BY <1>2, DepthChosen
<1>4. \A x \in Ids : depth[x] = IF table[x].parent = None THEN 0 ELSE 1 + depth[table[x].parent]
  BY <1>3 DEF Deep
<1>5. depth[a] = 1
  BY <1>1, <1>4
<1>6. Depth(table, a) + 1 <= table[a].policy.maxDepth
  BY DEF CanPromote
<1>7. table[a].policy.maxDepth <= 1 /\ table[a].policy.maxDepth \in Nat
  BY DEF Flat, Table, Assignment, Policy
<1>8. QED
  BY <1>3, <1>5, <1>6, <1>7

-----------------------------------------------------------------------------
(* States of dependencies that stay *)

StateIn(table, c) == DependencyStateOf(table, Lives(table), c)

\* What the cases of evaluateChildDependencies come to, for the states S of the siblings.
Lost == (TerminalStates \ {"completed"}) \cup {"blocked"}

Satisfies(S, deps, mode) ==
    \/ deps = {}
    \/ mode = "any" /\ "completed" \in S
    \/ mode = "all" /\ S = {"completed"}

Loses(S, deps, mode) ==
    /\ deps # {}
    /\ \/ mode = "any" /\ S \subseteq Lost
       \/ mode = "all" /\ S \cap Lost # {}

LEMMA StateCases ==
    ASSUME NEW life, NEW deps, NEW mode \in {"all", "any"}, NEW S, S = {life[d] : d \in deps}
    PROVE  /\ DependencyState(life, deps, mode) = "satisfied" <=> Satisfies(S, deps, mode)
           /\ DependencyState(life, deps, mode) = "blocked" <=> Loses(S, deps, mode)
<1> DEFINE state == DependencyState(life, deps, mode)
<1>1. Lost = {"cancelled", "expired", "failed", "blocked"}
  BY DEF Lost, TerminalStates
<1>2. state = IF deps = {} THEN "satisfied"
              ELSE IF mode = "any"
                   THEN IF "completed" \in S THEN "satisfied"
                        ELSE IF S \subseteq Lost THEN "blocked" ELSE "waiting"
                   ELSE IF S \cap Lost # {} THEN "blocked"
                        ELSE IF S = {"completed"} THEN "satisfied" ELSE "waiting"
  <2>1. S = {"completed"} => S \cap Lost = {}
    BY <1>1
  <2>2. "completed" \in S => ~(S \subseteq Lost)
    BY <1>1
  <2>3. QED
    BY <2>1, <2>2 DEF DependencyState, Lost
<1>3. /\ S = {"completed"} => S \cap Lost = {}
      /\ "completed" \in S => ~(S \subseteq Lost)
      /\ deps = {} => S = {}
  BY <1>1
<1> HIDE DEF state
<1>4. (state = "satisfied" <=> Satisfies(S, deps, mode)) /\ (state = "blocked" <=> Loses(S, deps, mode))
  BY <1>2, <1>3 DEF Satisfies, Loses
<1>5. QED
  BY <1>4 DEF state

\* As long as those who have stopped stay as they are, what is satisfied or lost stays.
LEMMA StateStays ==
    ASSUME NEW life, NEW other, NEW deps, NEW mode \in {"all", "any"},
           \A d \in deps : life[d] \in Stopped => other[d] = life[d]
    PROVE  /\ DependencyState(life, deps, mode) = "satisfied" => DependencyState(other, deps, mode) = "satisfied"
           /\ DependencyState(life, deps, mode) = "blocked" => DependencyState(other, deps, mode) = "blocked"
<1> DEFINE B == {life[d] : d \in deps}
           N == {other[d] : d \in deps}
<1>1. \A d \in deps : life[d] \in Lost \cup {"completed"} => other[d] = life[d]
  BY DEF Stopped, Lost, TerminalStates
<1>2. ("completed" \in B => "completed" \in N) /\ (B = {"completed"} => N = {"completed"})
  BY <1>1
<1>3. (B \subseteq Lost => N \subseteq Lost) /\ (B \cap Lost # {} => N \cap Lost # {})
  BY <1>1
<1>4. (Satisfies(B, deps, mode) => Satisfies(N, deps, mode)) /\ (Loses(B, deps, mode) => Loses(N, deps, mode))
  BY <1>2, <1>3 DEF Satisfies, Loses
<1>5. /\ DependencyState(life, deps, mode) = "satisfied" <=> Satisfies(B, deps, mode)
      /\ DependencyState(life, deps, mode) = "blocked" <=> Loses(B, deps, mode)
  BY StateCases
<1>6. /\ DependencyState(other, deps, mode) = "satisfied" <=> Satisfies(N, deps, mode)
      /\ DependencyState(other, deps, mode) = "blocked" <=> Loses(N, deps, mode)
  BY StateCases
<1>7. QED
  BY <1>4, <1>5, <1>6

\* As long as nobody has completed since, nothing has become satisfied.
LEMMA SatisfiedBefore ==
    ASSUME NEW life, NEW other, NEW deps, NEW mode \in {"all", "any"},
           \A d \in deps : other[d] = "completed" => life[d] = "completed",
           DependencyState(other, deps, mode) = "satisfied"
    PROVE  DependencyState(life, deps, mode) = "satisfied"
<1> DEFINE B == {life[d] : d \in deps}
           N == {other[d] : d \in deps}
<1>1. Satisfies(N, deps, mode)
  BY StateCases
<1>2. ("completed" \in N => "completed" \in B) /\ (N = {"completed"} => B = {"completed"})
  OBVIOUS
<1>3. Satisfies(B, deps, mode)
  BY <1>1, <1>2 DEF Satisfies
<1>4. QED
  BY <1>3, StateCases

\* Children that have stopped stay as they are.
Steady(table, next) ==
    \A c \in Ids : IsChild(table, c) /\ table[c].life \in Stopped => next[c].life = table[c].life

\* Free to go on: nothing stopped it and its siblings do not hold it up.
Sound(table, c) == table[c].life \notin Stopped /\ StateIn(table, c) = "satisfied"

LEMMA ChildDeps ==
    ASSUME NEW table \in Table, Whole(table), NEW c \in Ids, Exists(table, c)
    PROVE  /\ table[c].mode \in {"all", "any"} /\ table[c].deps \subseteq Ids \ {c}
           /\ \A d \in table[c].deps : IsChild(table, d)
BY DEF Whole, Table, Assignment, Children, IsChild

LEMMA StateKept ==
    ASSUME NEW table \in Table, Whole(table), NEW next, Kept(table, next), Steady(table, next),
           NEW c \in Ids, Exists(table, c)
    PROVE  /\ StateIn(table, c) = "satisfied" => StateIn(next, c) = "satisfied"
           /\ StateIn(table, c) = "blocked" => StateIn(next, c) = "blocked"
           /\ Sound(table, c) /\ next[c].life \notin Stopped => Sound(next, c)
<1>1. /\ table[c].mode \in {"all", "any"} /\ table[c].deps \subseteq Ids
      /\ \A d \in table[c].deps : IsChild(table, d)
  BY ChildDeps
<1>2. next[c].deps = table[c].deps /\ next[c].mode = table[c].mode
  BY DEF Kept
<1>3. \A d \in table[c].deps : Lives(table)[d] \in Stopped => Lives(next)[d] = Lives(table)[d]
  BY <1>1 DEF Lives, Steady
<1>4. /\ StateIn(table, c) = "satisfied" => StateIn(next, c) = "satisfied"
      /\ StateIn(table, c) = "blocked" => StateIn(next, c) = "blocked"
  BY <1>1, <1>2, <1>3, StateStays DEF StateIn, DependencyStateOf
<1>5. QED
  BY <1>4 DEF Sound

-----------------------------------------------------------------------------
(* The shares of the children, in any table *)

\* ChildrenWithinBudget, of a table.
Within(table) ==
    \A p \in Ids :
        ActiveChildren(table, p) # {} => RemainingWakeups(table, p, ActiveChildren(table, p)) >= 0

\* Nothing brings back what a blocked child has lost.
LostStay(table) ==
    \A c \in Ids : IsChild(table, c) /\ DependencyBlocked(table, c) => StateIn(table, c) = "blocked"

Shared(table) == Flat(table) /\ Within(table) /\ LostStay(table)

\* A wakeup is counted when there is one left.
Spends(table, a, row) ==
    \/ row.wakeups = table[a].wakeups
    \/ row.wakeups = table[a].wakeups + 1 /\ Funded(table, a)

\* What the code does to a row: a child that has stopped stays as it is, and is blocked
\* for its siblings only when it has lost them.
Plain(table, a, row) ==
    /\ SameShape(table[a], row) /\ row.policy = table[a].policy /\ Spends(table, a, row)
    /\ table[a].parent # None =>
         /\ table[a].life \in Stopped => row.life = table[a].life /\ row.depBlocked = table[a].depBlocked
         /\ table[a].life \notin Stopped /\ row.life = "blocked" /\ row.depBlocked =>
                StateIn(table, a) = "blocked"

\* Less is reserved, and no more is used than there is.
LEMMA SharesLeft ==
    ASSUME NEW table \in Table, NEW next \in Table, NEW p \in Ids, NEW S \in SUBSET Ids, NEW T \in SUBSET Ids,
           NEW a, S \subseteq T, T \subseteq S \cup {a},
           \A d \in Ids : next[d].policy = table[d].policy,
           \/ next[p].wakeups = table[p].wakeups /\ RemainingWakeups(table, p, T) >= 0
           \/ next[p].wakeups = table[p].wakeups + 1 /\ RemainingWakeups(table, p, T) > 0
    PROVE  RemainingWakeups(next, p, S) >= 0
<1> DEFINE held == Reserved(next, S)
           all == Reserved(table, T)
           had == table[p].wakeups
           has == next[p].wakeups
           budget == table[p].policy.maxWakeups
<1>1. held \in Nat /\ all \in Nat /\ held <= all
  <2>1. \A d \in S : table[d].policy = next[d].policy
    OBVIOUS
  <2>2. QED
    BY <2>1, ReservedMore
<1>2. had \in Nat /\ has \in Nat /\ budget \in Nat /\ next[p].policy.maxWakeups = budget
  BY DEF Table, Assignment, Policy
<1>3. RemainingWakeups(table, p, T) = budget - had - all
  BY DEF RemainingWakeups
<1>4. RemainingWakeups(next, p, S) = budget - has - held
  BY <1>2 DEF RemainingWakeups
<1>5. \/ has = had /\ budget - had - all >= 0
      \/ has = had + 1 /\ budget - had - all > 0
  BY <1>3
<1> HIDE DEF held, all, had, has, budget
<1>6. QED
  BY <1>1, <1>2, <1>4, <1>5

LEMMA TableWrite ==
    ASSUME NEW table \in Table, Whole(table), Shared(table), NEW a \in Ids, Exists(table, a),
           NEW row \in Assignment, Plain(table, a, row), NEW next, next = [table EXCEPT ![a] = row]
    PROVE  Shared(next) /\ Steady(table, next) /\ Kept(table, next) /\ Whole(next) /\ next \in Table
<1>1. /\ next \in Table /\ next[a] = row /\ \A d \in Ids \ {a} : next[d] = table[d]
      /\ \A d \in Ids : next[d] = IF d = a THEN row ELSE table[d]
  BY DEF Table
<1>2. Kept(table, next) /\ Whole(next)
  BY WriteKept DEF Plain
<1>3. \A d \in Ids : /\ Exists(next, d) = Exists(table, d) /\ next[d].parent = table[d].parent
                     /\ next[d].policy = table[d].policy
  BY <1>1 DEF Plain, SameShape, Exists
<1>4. Steady(table, next)
  BY <1>1 DEF Steady, Plain, IsChild
<1>5. Flat(next)
  <2> SUFFICES ASSUME NEW c \in Ids
               PROVE  /\ Exists(next, c) => next[c].policy.maxDepth <= 1
                      /\ next[c].parent # None => Exists(next, c) /\ IsRoot(next, next[c].parent)
    BY DEF Flat
  <2>1. next[c].parent # None => next[c].parent \in Ids
    BY <1>1 DEF Table, Assignment
  <2>2. /\ Exists(table, c) => table[c].policy.maxDepth <= 1
        /\ table[c].parent # None => Exists(table, c) /\ IsRoot(table, table[c].parent)
    BY DEF Shared, Flat
  <2>3. \A d \in Ids : IsRoot(next, d) = IsRoot(table, d)
    BY <1>3 DEF IsRoot
  <2>4. QED
    BY <1>3, <2>1, <2>2, <2>3
<1>6. LostStay(next)
  <2> SUFFICES ASSUME NEW c \in Ids, IsChild(next, c), DependencyBlocked(next, c)
               PROVE  StateIn(next, c) = "blocked"
    BY DEF LostStay
  <2>1. IsChild(table, c) /\ Exists(table, c)
    BY <1>3 DEF IsChild
  <2>2. StateIn(table, c) = "blocked"
    <3>1. CASE c = a
      <4>1. row.life = "blocked" /\ row.depBlocked
        BY <1>1, <3>1 DEF DependencyBlocked
      <4>2. CASE table[a].life \in Stopped
        <5>1. table[a].life = "blocked" /\ table[a].depBlocked
          BY <2>1, <3>1, <4>1, <4>2 DEF Plain, IsChild
        <5>2. QED
          BY <2>1, <3>1, <5>1 DEF Shared, LostStay, DependencyBlocked
      <4>3. CASE table[a].life \notin Stopped
        BY <2>1, <3>1, <4>1, <4>3 DEF Plain, IsChild
      <4>4. QED
        BY <4>2, <4>3
    <3>2. CASE c # a
      <4>1. DependencyBlocked(table, c)
        BY <1>1, <3>2 DEF DependencyBlocked
      <4>2. QED
        BY <2>1, <4>1 DEF Shared, LostStay
    <3>3. QED
      BY <3>1, <3>2
  <2>3. QED
    BY <1>2, <1>4, <2>1, <2>2, StateKept
<1>7. Within(next)
  <2> SUFFICES ASSUME NEW p \in Ids, ActiveChildren(next, p) # {}
               PROVE  RemainingWakeups(next, p, ActiveChildren(next, p)) >= 0
    BY DEF Within
  <2> DEFINE S == ActiveChildren(next, p)
             T == ActiveChildren(table, p)
  <2>1. S \in SUBSET Ids /\ T \in SUBSET Ids
    BY DEF ActiveChildren, Children
  <2>2. \A d \in Ids \ {a} : d \in S <=> d \in T
    BY <1>1 DEF ActiveChildren, Children, HoldsCapacity, Exists
  <2>3. a \in S => a \in T
    <3> SUFFICES ASSUME a \in S PROVE a \in T
      OBVIOUS
    <3>1. row.life \notin Stopped /\ table[a].parent = p /\ p # None
      BY <1>1, <1>3, NoneAssumption DEF ActiveChildren, Children, HoldsCapacity, Stopped
    <3>2. table[a].life \notin Stopped
      BY <3>1 DEF Plain
    <3>3. QED
      BY <3>1, <3>2 DEF ActiveChildren, Children, HoldsCapacity, Exists, Stopped
  <2>4. S \subseteq T /\ T \subseteq S \cup {a} /\ T # {}
    BY <2>1, <2>2, <2>3
  <2>5. RemainingWakeups(table, p, T) >= 0
    BY <2>4 DEF Shared, Within
  <2>6. \/ next[p].wakeups = table[p].wakeups
        \/ next[p].wakeups = table[p].wakeups + 1 /\ RemainingWakeups(table, p, T) > 0
    BY <1>1 DEF Plain, Spends, Funded
  <2>7. \A d \in Ids : next[d].policy = table[d].policy
    BY <1>3
  <2> HIDE DEF S, T
  <2>8. RemainingWakeups(next, p, S) >= 0
    BY <1>1, <2>1, <2>4, <2>5, <2>6, <2>7, SharesLeft
  <2>9. QED
    BY <2>8 DEF S
<1>8. QED
  BY <1>1, <1>2, <1>4, <1>5, <1>6, <1>7 DEF Shared

\* A row that is born: of a root, or of a child that its parent has wakeups left for.
Fits(table, next, c) ==
    /\ next[c].policy.maxDepth <= 1
    /\ next[c].parent # None =>
         /\ next[c].parent \in Ids /\ IsRoot(table, next[c].parent)
         /\ next[c].policy.maxWakeups <=
              RemainingWakeups(table, next[c].parent, ActiveChildren(table, next[c].parent))
         /\ DependencyBlocked(next, c) => StateIn(next, c) = "blocked"

LEMMA TableBirth ==
    ASSUME NEW table \in Table, Whole(table), Shared(table), NEW c \in Ids, ~Exists(table, c),
           NEW next \in Table, Exists(next, c), \A d \in Ids \ {c} : next[d] = table[d], Fits(table, next, c)
    PROVE  Shared(next) /\ Steady(table, next)
<1>1. \A d \in Ids : IsChild(table, d) \/ IsRoot(table, d) => d # c /\ next[d] = table[d]
  BY DEF IsChild, IsRoot
<1>2. Steady(table, next)
  BY <1>1 DEF Steady
<1>3. Kept(table, next)
  BY DEF Kept, Exists
<1>4. \A d \in Ids : IsRoot(table, d) => IsRoot(next, d)
  BY <1>1 DEF IsRoot, Exists
<1>5. Flat(next)
  <2> SUFFICES ASSUME NEW d \in Ids
               PROVE  /\ Exists(next, d) => next[d].policy.maxDepth <= 1
                      /\ next[d].parent # None => Exists(next, d) /\ IsRoot(next, next[d].parent)
    BY DEF Flat
  <2>1. CASE d = c
    BY <1>4, <2>1 DEF Fits
  <2>2. CASE d # c
    <3>1. next[d] = table[d] /\ (table[d].parent # None => table[d].parent \in Ids)
      BY <2>2 DEF Table, Assignment
    <3>2. QED
      BY <1>4, <3>1 DEF Shared, Flat, Exists
  <2>3. QED
    BY <2>1, <2>2
<1>6. LostStay(next)
  <2> SUFFICES ASSUME NEW d \in Ids, IsChild(next, d), DependencyBlocked(next, d)
               PROVE  StateIn(next, d) = "blocked"
    BY DEF LostStay
  <2>1. CASE d = c
    BY <2>1 DEF Fits, IsChild
  <2>2. CASE d # c
    <3>1. next[d] = table[d]
      BY <2>2
    <3>2. IsChild(table, d) /\ DependencyBlocked(table, d) /\ Exists(table, d)
      BY <3>1 DEF IsChild, DependencyBlocked, Exists
    <3>3. StateIn(table, d) = "blocked"
      BY <3>2 DEF Shared, LostStay
    <3>4. QED
      BY <1>2, <1>3, <3>2, <3>3, StateKept
  <2>3. QED
    BY <2>1, <2>2
<1>7. Within(next)
  <2> SUFFICES ASSUME NEW p \in Ids, ActiveChildren(next, p) # {}
               PROVE  RemainingWakeups(next, p, ActiveChildren(next, p)) >= 0
    BY DEF Within
  <2> DEFINE S == ActiveChildren(next, p)
             T == ActiveChildren(table, p)
  <2>1. S \in SUBSET Ids /\ T \in SUBSET Ids /\ c \notin T
    BY DEF ActiveChildren, Children
  <2>2. \A d \in Ids \ {c} : d \in S <=> d \in T
    BY DEF ActiveChildren, Children, HoldsCapacity, Exists
  <2>3. p # c
    <3>1. PICK d \in Ids : Exists(next, d) /\ next[d].parent = p
      BY DEF ActiveChildren, Children
    <3>2. IsRoot(table, p)
      BY <3>1, NoneAssumption DEF Fits, Shared, Flat
    <3>3. QED
      BY <3>2 DEF IsRoot
  <2>4. next[p] = table[p]
    BY <2>3
  <2>5. \A d \in T : next[d] = table[d]
    BY <2>1
  <2>6. /\ \A d \in Ids : table[d].policy.maxWakeups \in Nat /\ next[d].policy.maxWakeups \in Nat
        /\ IsFiniteSet(S) /\ IsFiniteSet(T)
    BY <2>1, IdsAssumption, FS_Subset DEF Table, Assignment, Policy
  <2>7. Reserved(next, T) = Reserved(table, T)
    BY <2>1, <2>5, <2>6, ReservedSame
  <2>8. RemainingWakeups(next, p, T) = RemainingWakeups(table, p, T)
    BY <2>4, <2>7 DEF RemainingWakeups
  <2>9. CASE c \notin S
    <3>1. S = T
      BY <2>1, <2>2, <2>9
    <3>2. QED
      BY <2>8, <3>1 DEF Shared, Within
  <2>10. CASE c \in S
    <3>1. next[c].parent = p /\ p # None /\ S \ {c} = T
      BY <2>1, <2>2, <2>10, NoneAssumption DEF ActiveChildren, Children
    <3> DEFINE share == next[c].policy.maxWakeups
               held == Reserved(next, T)
               all == Reserved(next, S)
    <3>2. all = share + held
      <4>1. \A d \in S : next[d].policy.maxWakeups \in Nat
        BY <2>1, <2>6
      <4> HIDE DEF S, T
      <4>2. Reserved(next, S) = next[c].policy.maxWakeups + Reserved(next, S \ {c})
        BY <2>6, <2>10, <4>1, ReservedAdded
      <4>3. QED
        BY <3>1, <4>2
    <3>3. share <= RemainingWakeups(next, p, T)
      BY <2>8, <3>1 DEF Fits
    <3>4. share \in Nat /\ held \in Nat /\ all \in Nat
      BY <2>1, <2>6, ReservedNat
    <3> DEFINE had == next[p].policy.maxWakeups - next[p].wakeups
    <3>5. had \in Int
      BY DEF Table, Assignment, Policy
    <3>6. RemainingWakeups(next, p, T) = had - held /\ RemainingWakeups(next, p, S) = had - all
      BY DEF RemainingWakeups
    <3> HIDE DEF share, held, all, had
    <3>7. QED
      BY <3>2, <3>3, <3>4, <3>5, <3>6
  <2>11. QED
    BY <2>9, <2>10
<1>8. QED
  BY <1>2, <1>5, <1>6, <1>7 DEF Shared

-----------------------------------------------------------------------------
(* Who is engaged by a callback *)

Names(s, c) ==
    \/ s.step \in {"decide", "planner"} /\ s.id = c
    \/ s.step = "schedule" /\ c \in s.ids
    \/ s.step = "resolve" /\ c \in s.activated

Silent(c) == {s \in Step : ~Names(s, c)}

\* The steps that engage children which are free to go on, and resolve for roots only.
Fine(table) ==
    {s \in Step :
        /\ \A c \in Ids : IsChild(table, c) /\ Names(s, c) => Sound(table, c)
        /\ s.step = "resolve" => IsRoot(table, s.parent)
        /\ s.step = "decide" /\ s.decision \in {"deps", "depBlocked"} => IsRoot(table, s.id)}

\* A decision after which a child may hold nothing.
Final(s) == s.step = "decide" /\ s.decision \notin {"child", "other"}

\* What may come after the first step: resolutions still to begin, and no child's end.
Rest(table) ==
    {s \in Step :
        /\ s.step # "planner"
        /\ s.step = "resolve" => s.todo = {}
        /\ Final(s) => IsRoot(table, s.id)}

\* The first step: a child that is about to stop has no job, and nobody else names it.
Closing(table, sched, t) ==
    \A c \in Ids :
        IsChild(table, c) /\ Head(t).step \in {"planner", "decide"} /\ Head(t).id = c
          /\ (Head(t).step = "decide" => Final(Head(t)))
        => c \notin sched /\ Tail(t) \in Seq(Silent(c))

\* In a pass nobody has come back, or completed, since it began; and whom it finds
\* blocked has lost its siblings before.
InPass(table, s) ==
    s.step = "resolve" /\ s.todo # {} =>
        /\ \A c \in Ids : IsChild(table, c) =>
              /\ s.before[c] \in Stopped => table[c].life = s.before[c]
              /\ table[c].life = "completed" => s.before[c] = "completed"
        /\ \A c \in s.todo : DependencyBlocked(table, c) => DependencyStateOf(table, s.before, c) = "blocked"

Leading(table, sched, t) ==
    t # <<>> => Tail(t) \in Seq(Rest(table)) /\ Closing(table, sched, t) /\ InPass(table, Head(t))

\* A child whose run is awaited is active, and has no other callback to come.
Working(table, sched, t, c) ==
    Sound(table, c) /\ table[c].life = "active" /\ c \notin sched /\ t \in Seq(Silent(c))

Promised(table, sched, rs, t) ==
    /\ Shared(table)
    /\ \A c \in sched : IsChild(table, c) => Sound(table, c)
    /\ \A r \in rs : IsChild(table, r.id) => Working(table, sched, t, r.id)
    /\ t \in Seq(Fine(table))
    /\ Leading(table, sched, t)

BudgetInv == Promised(asg, scheduled, runs, thread)

LEMMA RestLeads ==
    ASSUME NEW table, NEW sched, NEW t \in Seq(Rest(table))
    PROVE  Leading(table, sched, t)
<1> SUFFICES ASSUME t # <<>> PROVE Tail(t) \in Seq(Rest(table)) /\ Closing(table, sched, t) /\ InPass(table, Head(t))
  BY DEF Leading
<1>1. Head(t) \in Rest(table) /\ Tail(t) \in Seq(Rest(table))
  OBVIOUS
<1>2. QED
  BY <1>1 DEF Rest, Closing, InPass, IsChild, IsRoot

LEMMA KinKept ==
    ASSUME NEW table, NEW next, Kept(table, next), NEW c \in Ids
    PROVE  /\ IsChild(table, c) => IsChild(next, c)
           /\ IsRoot(table, c) => IsRoot(next, c)
           /\ IsChild(next, c) /\ Exists(table, c) => IsChild(table, c)
BY DEF Kept, IsChild, IsRoot

\* What is still to come stays fine, if no child it names has stopped meanwhile.
LEMMA FineKept ==
    ASSUME NEW table \in Table, Whole(table), NEW next, Kept(table, next), Steady(table, next),
           NEW t \in Seq(Step), t \in Seq(KnownSteps(table)), t \in Seq(Fine(table)),
           \A c \in Ids : IsChild(table, c) /\ next[c].life \in Stopped /\ table[c].life \notin Stopped =>
              t \in Seq(Silent(c))
    PROVE  t \in Seq(Fine(next))
<1>1. ASSUME NEW i \in 1..Len(t) PROVE t[i] \in Fine(next)
  <2> DEFINE s == t[i]
  <2>1. /\ s \in Step /\ s \in Fine(table) /\ KnownStep(table, s)
    BY DEF KnownSteps
  <2>2. \A c \in Ids : t \in Seq(Silent(c)) => ~Names(s, c)
    <3>1. \A c \in Ids : t \in Seq(Silent(c)) => s \in Silent(c)
      OBVIOUS
    <3>2. QED
      BY <3>1 DEF Silent
  <2> HIDE DEF s
  <2>3. s.step = "resolve" => IsRoot(next, s.parent)
    BY <2>1, StepFields, KinKept DEF Fine
  <2>4. s.step = "decide" /\ s.decision \in {"deps", "depBlocked"} => IsRoot(next, s.id)
    BY <2>1, StepFields, KinKept DEF Fine
  <2>5. ASSUME NEW c \in Ids, IsChild(next, c), Names(s, c) PROVE Sound(next, c)
    <3>1. Exists(table, c)
      BY <2>1, <2>5 DEF KnownStep, Names, Existing, Children
    <3>2. IsChild(table, c) /\ Sound(table, c)
      BY <2>1, <2>5, <3>1, KinKept DEF Fine
    <3>3. next[c].life \notin Stopped
      BY <2>2, <2>5, <3>2 DEF Sound
    <3>4. QED
      BY <3>1, <3>2, <3>3, StateKept
  <2>6. QED
    BY <2>1, <2>3, <2>4, <2>5 DEF Fine, s
<1>2. QED
  BY <1>1

LEMMA RestKept ==
    ASSUME NEW table, NEW next, Kept(table, next), NEW t \in Seq(Rest(table))
    PROVE  t \in Seq(Rest(next))
<1>1. ASSUME NEW s \in Rest(table) PROVE s \in Rest(next)
  <2>1. s.step = "decide" => s.id \in Ids
    BY StepFields DEF Rest
  <2>2. QED
    BY <2>1, KinKept DEF Rest, Final
<1>2. Rest(table) \subseteq Rest(next)
  BY <1>1
<1>3. QED
  BY <1>2

\* The steps a callback is made of.
LEMMA ScheduleFine ==
    ASSUME NEW table, NEW S \in SUBSET Ids, \A c \in S : IsChild(table, c) => Sound(table, c)
    PROVE  /\ ScheduleStep(S) \in Fine(table) /\ ScheduleStep(S) \in Rest(table)
           /\ \A c \in Ids \ S : ScheduleStep(S) \in Silent(c)
<1>1. ScheduleStep(S) \in Step
  BY DEF ScheduleStep, Step
<1>2. QED
  BY <1>1 DEF ScheduleStep, Fine, Rest, Silent, Names, Final

LEMMA ResolveFine ==
    ASSUME NEW table, NEW p \in Ids \cup {None}, p # None => IsRoot(table, p), NEW cause \in Ids \cup {None}
    PROVE  /\ Refresh(p) \in Seq(Fine(table)) /\ Refresh(p) \in Seq(Rest(table))
           /\ Continue(p, cause) \in Seq(Fine(table)) /\ Continue(p, cause) \in Seq(Rest(table))
           /\ \A c : Refresh(p) \in Seq(Silent(c)) /\ Continue(p, cause) \in Seq(Silent(c))
<1>1. CASE p = None
  BY <1>1 DEF Refresh, Continue
<1>2. CASE p # None
  <2>1. ASSUME NEW by \in Ids \cup {None}
        PROVE  /\ ResolveStep(p, by) \in Fine(table) /\ ResolveStep(p, by) \in Rest(table)
               /\ \A c : ResolveStep(p, by) \in Silent(c)
    <3>1. ResolveStep(p, by) \in Step
      BY <1>2, ResolveStepType DEF FreshStep
    <3>2. QED
      BY <1>2, <3>1 DEF ResolveStep, Fine, Rest, Silent, Names, Final
  <2>2. Refresh(p) = <<ResolveStep(p, None)>> /\ Continue(p, cause) = <<ResolveStep(p, cause)>>
    BY <1>2 DEF Refresh, Continue
  <2>3. ResolveStep(p, None) \in Fine(table) /\ ResolveStep(p, cause) \in Fine(table)
    BY <2>1
  <2>4. ResolveStep(p, None) \in Rest(table) /\ ResolveStep(p, cause) \in Rest(table)
    BY <2>1
  <2>5. \A c : ResolveStep(p, None) \in Silent(c) /\ ResolveStep(p, cause) \in Silent(c)
    BY <2>1
  <2>6. QED
    BY <2>2, <2>3, <2>4, <2>5
<1>3. QED
  BY <1>1, <1>2

LEMMA DecideFine ==
    ASSUME NEW table, NEW a \in Ids, IsChild(table, a) => Sound(table, a), NEW decision \in Decisions,
           decision \in {"deps", "depBlocked"} => IsRoot(table, a)
    PROVE  /\ DecideStep(a, decision) \in Fine(table)
           /\ decision \in {"child", "other"} \/ IsRoot(table, a) => DecideStep(a, decision) \in Rest(table)
           /\ \A c \in Ids \ {a} : DecideStep(a, decision) \in Silent(c)
<1>1. DecideStep(a, decision) \in Step
  BY StepTypes DEF FreshStep
<1>2. QED
  BY <1>1 DEF DecideStep, Fine, Rest, Silent, Names, Final

LEMMA PlannerFine ==
    ASSUME NEW table, NEW a \in Ids, IsChild(table, a) => Sound(table, a), NEW marker \in Marker
    PROVE  /\ PlannerStep(a, marker) \in Fine(table)
           /\ \A c \in Ids \ {a} : PlannerStep(a, marker) \in Silent(c)
<1>1. PlannerStep(a, marker) \in Step
  BY StepTypes DEF FreshStep
<1>2. QED
  BY <1>1 DEF PlannerStep, Fine, Silent, Names, Final

\* A callback that is begun for an assignment: the first step is its own, and what
\* follows engages nobody.
Opens(table, t, a) ==
    /\ t \in Seq(Fine(table))
    /\ \A c \in Ids \ {a} : t \in Seq(Silent(c))
    /\ \/ t \in Seq(Rest(table))
       \/ /\ t # <<>> /\ Head(t).step \in {"decide", "planner"} /\ Head(t).id = a
          /\ Tail(t) \in Seq(Rest(table)) /\ \A c \in Ids : Tail(t) \in Seq(Silent(c))

LEMMA OpensLeads ==
    ASSUME NEW table, NEW sched, NEW t, NEW a \in Ids, Opens(table, t, a), IsChild(table, a) => a \notin sched
    PROVE  Leading(table, sched, t)
<1>1. CASE t \in Seq(Rest(table))
  BY <1>1, RestLeads
<1>2. CASE t \notin Seq(Rest(table))
  BY <1>2 DEF Opens, Leading, Closing, InPass
<1>3. QED
  BY <1>1, <1>2

LEMMA OutcomesOpen ==
    ASSUME asg \in Table, Flat(asg), NEW table, Kept(asg, table), NEW a \in Ids, Exists(asg, a),
           IsChild(table, a) => Sound(table, a)
    PROVE  /\ \A d \in Decisions : (d \in {"deps", "depBlocked"} => IsRoot(table, a)) =>
                 /\ Opens(table, Settle(a, d), a)
                 /\ IsRoot(table, a) => Settle(a, d) \in Seq(Rest(table))
           /\ \A w \in {"child", "other"} : /\ Opens(table, Park(a, w), a)
                                            /\ Park(a, w) \in Seq(Rest(table))
           /\ \A status : /\ Opens(table, Outcome(a, status), a)
                          /\ IsRoot(table, a) => Outcome(a, status) \in Seq(Rest(table))
<1> DEFINE p == asg[a].parent
<1>1. p \in Ids \cup {None} /\ (p # None => IsRoot(table, p))
  <2>1. p \in Ids \cup {None} /\ (p # None => IsRoot(asg, p))
    BY DEF Flat, Table, Assignment
  <2>2. QED
    BY <2>1, KinKept
<1> HIDE DEF p
<1>2. /\ Refresh(p) \in Seq(Fine(table)) /\ Refresh(p) \in Seq(Rest(table))
      /\ Continue(p, a) \in Seq(Fine(table)) /\ Continue(p, a) \in Seq(Rest(table))
      /\ \A c : Refresh(p) \in Seq(Silent(c)) /\ Continue(p, a) \in Seq(Silent(c))
  BY <1>1, ResolveFine
<1>3. ASSUME NEW d \in Decisions, d \in {"deps", "depBlocked"} => IsRoot(table, a)
      PROVE  /\ Opens(table, Settle(a, d), a)
             /\ IsRoot(table, a) => Settle(a, d) \in Seq(Rest(table))
  <2> DEFINE s == DecideStep(a, d)
             rest == Continue(p, a)
  <2>1. /\ s \in Fine(table) /\ (IsRoot(table, a) => s \in Rest(table))
        /\ \A c \in Ids \ {a} : s \in Silent(c)
    BY <1>3, DecideFine
  <2>2. s.step = "decide" /\ s.id = a
    BY DEF DecideStep
  <2>3. Settle(a, d) = <<s>> \o rest
    BY DEF Settle, p
  <2> HIDE DEF s, rest
  <2>4. /\ rest \in Seq(Fine(table)) /\ rest \in Seq(Rest(table)) /\ \A c : rest \in Seq(Silent(c))
    BY <1>2 DEF rest
  <2>5. /\ <<s>> \o rest \in Seq(Fine(table))
        /\ <<s>> \o rest # <<>> /\ Head(<<s>> \o rest) = s /\ Tail(<<s>> \o rest) = rest
        /\ IsRoot(table, a) => <<s>> \o rest \in Seq(Rest(table))
    BY <2>1, <2>4
  <2>6. \A c \in Ids \ {a} : <<s>> \o rest \in Seq(Silent(c))
    BY <2>1, <2>4
  <2>7. QED
    BY <2>2, <2>3, <2>4, <2>5, <2>6 DEF Opens
<1>4. ASSUME NEW w \in {"child", "other"}
      PROVE  Opens(table, Park(a, w), a) /\ Park(a, w) \in Seq(Rest(table))
  <2> DEFINE s == ScheduleStep({a})
             d == DecideStep(a, w)
             rest == Refresh(p)
  <2>1. w \in Decisions /\ w \notin {"deps", "depBlocked"}
    BY DEF Decisions
  <2>2. d \in Fine(table) /\ d \in Rest(table) /\ \A c \in Ids \ {a} : d \in Silent(c)
    BY <2>1, DecideFine
  <2>3. s \in Fine(table) /\ s \in Rest(table) /\ \A c \in Ids \ {a} : s \in Silent(c)
    BY ScheduleFine
  <2>4. Park(a, w) = <<s, d>> \o rest
    BY DEF Park, p
  <2> HIDE DEF s, d, rest
  <2>5. rest \in Seq(Fine(table)) /\ rest \in Seq(Rest(table)) /\ \A c : rest \in Seq(Silent(c))
    BY <1>2 DEF rest
  <2>6. <<s, d>> \o rest \in Seq(Fine(table)) /\ <<s, d>> \o rest \in Seq(Rest(table))
    BY <2>2, <2>3, <2>5
  <2>7. \A c \in Ids \ {a} : <<s, d>> \o rest \in Seq(Silent(c))
    BY <2>2, <2>3, <2>5
  <2>8. QED
    BY <2>4, <2>6, <2>7 DEF Opens
<1>5. ASSUME NEW status
      PROVE  /\ Opens(table, Outcome(a, status), a)
             /\ IsRoot(table, a) => Outcome(a, status) \in Seq(Rest(table))
  <2>1. \A d \in {"completed", "blocked", "expired"} : d \in Decisions /\ d \notin {"deps", "depBlocked"}
    BY DEF Decisions
  <2>2. Outcome(a, status) \in {Settle(a, "completed"), Settle(a, "blocked"), Settle(a, "expired"), Park(a, "other")}
    BY DEF Outcome
  <2>3. QED
    BY <1>3, <1>4, <2>1, <2>2
<1>6. QED
  BY <1>3, <1>4, <1>5

-----------------------------------------------------------------------------
(* The steps *)

\* Whoever a step leaves going goes on.
LEMMA OthersGoOn ==
    ASSUME TypeOK, WholeInv, BudgetInv, Kept(asg, asg'), Steady(asg, asg')
    PROVE  /\ \A c \in scheduled : IsChild(asg', c) /\ asg'[c].life \notin Stopped => Sound(asg', c)
           /\ \A r \in runs : /\ IsChild(asg', r.id) => IsChild(asg, r.id) /\ Working(asg, scheduled, thread, r.id)
                              /\ IsChild(asg', r.id) /\ asg'[r.id].life \notin Stopped => Sound(asg', r.id)
<1>1. asg \in Table /\ Whole(asg)
  BY DEF TypeOK, Table, WholeInv
<1>2. ASSUME NEW c \in Ids, Exists(asg, c), IsChild(asg', c) PROVE IsChild(asg, c)
  BY <1>2, KinKept
<1>3. ASSUME NEW c \in Ids, Exists(asg, c), Sound(asg, c), asg'[c].life \notin Stopped PROVE Sound(asg', c)
  BY <1>1, <1>3, StateKept
<1>4. \A c \in scheduled : c \in Ids /\ Exists(asg, c) /\ (IsChild(asg, c) => Sound(asg, c))
  BY DEF TypeOK, WholeInv, Existing, BudgetInv, Promised
<1>5. ASSUME NEW r \in runs
      PROVE  r.id \in Ids /\ Exists(asg, r.id) /\ (IsChild(asg, r.id) => Working(asg, scheduled, thread, r.id))
  BY RunType DEF WholeInv, KnownRun, BudgetInv, Promised
<1>6. QED
  BY <1>2, <1>3, <1>4, <1>5 DEF Working

\* A step that leaves the table alone.
LEMMA SameSteady ==
    ASSUME UNCHANGED asg
    PROVE  Kept(asg, asg') /\ Steady(asg, asg')
BY DEF Kept, Steady, IsChild, Exists

\* A callback is begun for a wakeup that fires.
LEMMA FireOpens ==
    ASSUME TypeOK, WholeInv, BudgetInv, NEW a \in Ids, scheduled' = scheduled \ {a}, UNCHANGED <<asg, runs>>,
           \A r \in runs : r.id # a, Opens(asg, thread', a)
    PROVE  BudgetInv'
<1>1. Shared(asg') /\ Kept(asg, asg') /\ Steady(asg, asg')
  BY SameSteady DEF BudgetInv, Promised
<1>2. \A c \in scheduled' : IsChild(asg', c) => Sound(asg', c)
  BY DEF BudgetInv, Promised
<1>3. ASSUME NEW r \in runs', IsChild(asg', r.id) PROVE Working(asg', scheduled', thread', r.id)
  <2>1. Working(asg, scheduled, thread, r.id) /\ r.id \in Ids \ {a}
    BY <1>3, RunType DEF BudgetInv, Promised
  <2>2. QED
    BY <2>1 DEF Working, Opens
<1>4. thread' \in Seq(Fine(asg')) /\ Leading(asg', scheduled', thread')
  BY OpensLeads DEF Opens
<1>5. QED
  BY <1>1, <1>2, <1>3, <1>4 DEF BudgetInv, Promised

LEMMA BudgetFire ==
    ASSUME TypeOK, WholeInv, FlightInv, BudgetInv, NEW a \in Ids, FireJob(a)
    PROVE  BudgetInv'
<1>1. /\ asg \in Table /\ Whole(asg) /\ Shared(asg) /\ Flat(asg) /\ thread = <<>> /\ holder = None
      /\ a \in scheduled /\ scheduled' = scheduled \ {a}
  BY DEF TypeOK, Table, WholeInv, BudgetInv, Promised, Shared, FireJob, SkipWakeup, ExpireIdle,
         RefuseLostDependency, RefusePendingDependency, RefuseReserved, StartWakeup, Wakes, Fires, Idle
<1>2. Exists(asg, a) /\ (IsChild(asg, a) => Sound(asg, a))
  BY <1>1 DEF WholeInv, Existing, BudgetInv, Promised
<1>3. DependencyNow(a) # "satisfied" => IsRoot(asg, a)
  BY <1>2 DEF DependencyNow, Sound, StateIn, IsChild, IsRoot
<1>4. ~Overlaps(a) => \A r \in runs : r.id # a
  <2>1. \A r \in runs : r.id \in activeWakeups
    BY DEF FlightInv, SingleFlight
  <2>2. QED
    BY <2>1 DEF Overlaps
<1>5. Kept(asg, asg)
  BY DEF Kept
<1>6. /\ \A d \in {"expired"} : Opens(asg, Settle(a, d), a)
      /\ IsRoot(asg, a) => Opens(asg, Settle(a, "depBlocked"), a)
      /\ Opens(asg, Park(a, "child"), a)
  <2>1. "expired" \in Decisions /\ "depBlocked" \in Decisions
    BY DEF Decisions
  <2>2. QED
    BY <1>1, <1>2, <1>5, <2>1, OutcomesOpen
<1>7. CASE SkipWakeup(a)
  <2>1. UNCHANGED <<asg, runs, thread>>
    BY <1>7 DEF SkipWakeup
  <2>2. ASSUME NEW r \in runs', IsChild(asg', r.id) PROVE Working(asg', scheduled', thread', r.id)
    BY <1>1, <2>1, <2>2 DEF Working, BudgetInv, Promised
  <2>3. thread' \in Seq(Fine(asg')) /\ Leading(asg', scheduled', thread')
    BY <1>1, <2>1 DEF Leading
  <2>4. QED
    BY <1>1, <2>1, <2>2, <2>3 DEF BudgetInv, Promised
<1>8. CASE ExpireIdle(a)
  <2>1. Opens(asg, thread', a) /\ UNCHANGED <<asg, runs>> /\ ~Overlaps(a)
    BY <1>6, <1>8 DEF ExpireIdle
  <2>2. QED
    BY <1>1, <1>4, <2>1, FireOpens
<1>9. CASE RefuseLostDependency(a)
  <2>1. DependencyNow(a) # "satisfied" /\ ~Overlaps(a) /\ UNCHANGED <<asg, runs>> /\ thread' = Settle(a, "depBlocked")
    BY <1>9 DEF RefuseLostDependency, Wakes
  <2>2. Opens(asg, thread', a)
    BY <1>3, <1>6, <2>1
  <2>3. QED
    BY <1>1, <1>4, <2>1, <2>2, FireOpens
<1>10. CASE RefusePendingDependency(a)
  <2>1. /\ DependencyNow(a) # "satisfied" /\ ~Overlaps(a) /\ UNCHANGED <<asg, runs>>
        /\ thread' = <<DecideStep(a, "deps")>> \o Refresh(asg[a].parent)
    BY <1>10 DEF RefusePendingDependency, Wakes
  <2>2. IsRoot(asg, a) /\ Refresh(asg[a].parent) = <<>>
    BY <1>3, <2>1 DEF IsRoot, Refresh
  <2>3. /\ DecideStep(a, "deps") \in Fine(asg) /\ DecideStep(a, "deps") \in Rest(asg)
        /\ \A c \in Ids \ {a} : DecideStep(a, "deps") \in Silent(c)
    BY <1>2, <2>2, DecideFine DEF Decisions
  <2>4. Opens(asg, thread', a)
    BY <2>1, <2>2, <2>3 DEF Opens
  <2>5. QED
    BY <1>1, <1>4, <2>1, <2>4, FireOpens
<1>11. CASE RefuseReserved(a)
  <2>1. Opens(asg, thread', a) /\ UNCHANGED <<asg, runs>> /\ ~Overlaps(a)
    BY <1>6, <1>11 DEF RefuseReserved, Wakes
  <2>2. QED
    BY <1>1, <1>4, <2>1, FireOpens
<1>12. CASE StartWakeup(a)
  <2> DEFINE row == Woken(asg[a])
             new == [id |-> a, wakeup |-> asg[a].wakeups + 1, marker |-> NoMarker]
  <2>1. /\ asg' = [asg EXCEPT ![a] = row] /\ runs' = runs \cup {new} /\ thread' = <<>>
        /\ ~Overlaps(a) /\ ~Reserves(a)
    BY <1>1, <1>12 DEF StartWakeup, Wakes
  <2>2. row \in Assignment
    BY <1>1, WokenType DEF Table
  <2>3. Plain(asg, a, row)
    <3>1. Funded(asg, a)
      <4>1. RemainingWakeups(asg, a, ActiveChildren(asg, a)) \in Int
        <5>1. ActiveChildren(asg, a) \in SUBSET Ids
          BY DEF ActiveChildren, Children
        <5>2. QED
          BY <1>1, <5>1, RemainingInt
      <4>2. QED
        BY <2>1, <4>1 DEF Reserves, Funded
    <3>2. asg[a] \in Assignment
      BY <1>1 DEF Table
    <3>3. /\ row.life = "active" /\ row.wakeups = asg[a].wakeups + 1 /\ row.policy = asg[a].policy
      BY <3>2 DEF Woken, Assignment
    <3>4. SameShape(asg[a], row)
      BY <3>2, WokenShape
    <3>5. asg[a].parent # None => asg[a].life \notin Stopped
      BY <1>2 DEF IsChild, Sound
    <3> HIDE DEF row
    <3>6. QED
      BY <3>1, <3>3, <3>4, <3>5 DEF Plain, Spends
  <2>4. new.id = a
    OBVIOUS
  <2>5. row.life = "active"
    BY <1>1 DEF Woken, Table, Assignment
  <2> HIDE DEF row, new
  <2>6. Shared(asg') /\ Steady(asg, asg') /\ Kept(asg, asg') /\ asg' \in Table
    BY <1>1, <1>2, <2>1, <2>2, <2>3, TableWrite
  <2>7. asg'[a].life = "active" /\ \A c \in Ids \ {a} : asg'[c] = asg[c]
    BY <1>1, <2>1, <2>5 DEF Table
  <2>8. \A c \in scheduled' : IsChild(asg', c) => Sound(asg', c)
    <3> SUFFICES ASSUME NEW c \in scheduled', IsChild(asg', c) PROVE Sound(asg', c)
      OBVIOUS
    <3>1. c \in scheduled /\ c \in Ids /\ asg'[c] = asg[c]
      BY <1>1, <2>7 DEF TypeOK
    <3>2. Sound(asg, c)
      BY <3>1 DEF BudgetInv, Promised, IsChild, Exists
    <3>3. QED
      BY <2>6, <3>1, <3>2, OthersGoOn DEF Sound
  <2>9. ASSUME NEW r \in runs', IsChild(asg', r.id) PROVE Working(asg', scheduled', thread', r.id)
    <3>1. CASE r \in runs
      <4>1. Working(asg, scheduled, thread, r.id) /\ r.id \in Ids \ {a}
        BY <1>4, <2>1, <2>6, <2>9, <3>1, RunType, OthersGoOn
      <4>2. asg'[r.id].life = "active" /\ "active" \notin Stopped
        BY <2>7, <4>1 DEF Working, Stopped, TerminalStates
      <4>3. Sound(asg', r.id)
        BY <2>6, <2>9, <3>1, <4>2, OthersGoOn
      <4>4. QED
        BY <1>1, <2>1, <4>1, <4>2, <4>3 DEF Working
    <3>2. CASE r = new
      <4>1. r.id = a /\ "active" \notin Stopped
        BY <2>4, <3>2 DEF Stopped, TerminalStates
      <4>2. Sound(asg', a)
        BY <1>1, <2>6, <2>7, <2>9, <4>1, OthersGoOn
      <4>3. QED
        BY <1>1, <2>1, <2>7, <4>1, <4>2 DEF Working
    <3>3. QED
      BY <2>1, <2>9, <3>1, <3>2
  <2>10. thread' \in Seq(Fine(asg'))
    BY <2>1
  <2>11. Leading(asg', scheduled', thread')
    BY <2>1 DEF Leading
  <2>12. QED
    BY <2>6, <2>8, <2>9, <2>10, <2>11 DEF BudgetInv, Promised
<1>13. QED
  BY <1>7, <1>8, <1>9, <1>10, <1>11, <1>12 DEF FireJob

\* A callback is begun for an assignment that nobody else has to do with.
LEMMA BudgetOpens ==
    ASSUME TypeOK, WholeInv, BudgetInv, NEW a \in Ids, Shared(asg'), Kept(asg, asg'), Steady(asg, asg'),
           \A c \in Ids \ {a} : asg'[c].life = asg[c].life,
           scheduled' = scheduled, IsChild(asg', a) => a \notin scheduled,
           runs' \subseteq runs, \A r \in runs' : IsChild(asg', r.id) => r.id # a, Opens(asg', thread', a)
    PROVE  BudgetInv'
<1>1. \A c \in scheduled' : IsChild(asg', c) => Sound(asg', c)
  <2> SUFFICES ASSUME NEW c \in scheduled', IsChild(asg', c) PROVE Sound(asg', c)
    OBVIOUS
  <2>1. c \in scheduled /\ c \in Ids \ {a} /\ Exists(asg, c)
    BY DEF TypeOK, WholeInv, Existing
  <2>2. IsChild(asg, c)
    BY <2>1, KinKept
  <2>3. asg[c].life \notin Stopped
    BY <2>1, <2>2 DEF BudgetInv, Promised, Sound
  <2>4. QED
    BY <2>1, <2>3, OthersGoOn
<1>2. ASSUME NEW r \in runs', IsChild(asg', r.id) PROVE Working(asg', scheduled', thread', r.id)
  <2>1. r \in runs /\ r.id \in Ids \ {a}
    BY <1>2, RunType
  <2>2. Working(asg, scheduled, thread, r.id)
    BY <1>2, <2>1, OthersGoOn
  <2>3. asg'[r.id].life = "active" /\ "active" \notin Stopped
    BY <2>1, <2>2 DEF Working, Stopped, TerminalStates
  <2>4. Sound(asg', r.id)
    BY <1>2, <2>1, <2>3, OthersGoOn
  <2>5. QED
    BY <2>1, <2>2, <2>3, <2>4 DEF Working, Opens
<1>3. thread' \in Seq(Fine(asg')) /\ Leading(asg', scheduled', thread')
  BY OpensLeads DEF Opens
<1>4. QED
  BY <1>1, <1>2, <1>3 DEF BudgetInv, Promised

\* The bookkeeping of a wakeup that is over.
LEMMA TallyPlain ==
    ASSUME asg \in Table, NEW a \in Ids, Exists(asg, a), NEW n \in Nat,
           NEW row, row = [asg[a] EXCEPT !.failures = n, !.open = FALSE]
    PROVE  row \in Assignment /\ Plain(asg, a, row) /\ row.life = asg[a].life
<1>1. asg[a] \in Assignment
  BY DEF Table
<1>2. row \in Assignment
  BY <1>1 DEF Assignment
<1>3. /\ row.life = asg[a].life /\ row.parent = asg[a].parent /\ row.deps = asg[a].deps /\ row.mode = asg[a].mode
      /\ row.policy = asg[a].policy /\ row.wakeups = asg[a].wakeups /\ row.depBlocked = asg[a].depBlocked
  BY <1>1 DEF Assignment
<1>4. "blocked" \in Stopped
  BY DEF Stopped
<1>5. QED
  BY <1>2, <1>3, <1>4 DEF Plain, SameShape, Spends, Exists

LEMMA TallyWrite ==
    ASSUME TypeOK, WholeInv, BudgetInv, NEW a \in Ids, Exists(asg, a),
           asg' = RunSucceeded(a) \/ asg' = RunFailed(a)
    PROVE  /\ Shared(asg') /\ Steady(asg, asg') /\ Kept(asg, asg')
           /\ \A c \in Ids : asg'[c].life = asg[c].life
<1>1. asg \in Table /\ Whole(asg) /\ Shared(asg)
  BY DEF TypeOK, Table, WholeInv, BudgetInv, Promised
<1>2. PICK n \in Nat : asg' = [asg EXCEPT ![a] = [asg[a] EXCEPT !.failures = n, !.open = FALSE]]
  <2>1. CASE asg' = RunSucceeded(a)
    BY <2>1 DEF RunSucceeded
  <2>2. CASE asg' = RunFailed(a)
    <3> DEFINE n == asg[a].failures + 1
    <3>1. n \in Nat
      BY <1>1 DEF Table, Assignment
    <3>2. asg' = [asg EXCEPT ![a] = [asg[a] EXCEPT !.failures = n, !.open = FALSE]]
      BY <2>2 DEF RunFailed
    <3> HIDE DEF n
    <3>3. QED
      BY <3>1, <3>2
  <2>3. QED
    BY <2>1, <2>2
<1> DEFINE row == [asg[a] EXCEPT !.failures = n, !.open = FALSE]
<1>3. row \in Assignment /\ Plain(asg, a, row) /\ row.life = asg[a].life
  BY <1>1, TallyPlain
<1>4. asg' = [asg EXCEPT ![a] = row]
  BY <1>2
<1> HIDE DEF row
<1>5. Shared(asg') /\ Steady(asg, asg') /\ Kept(asg, asg')
  BY <1>1, <1>3, <1>4, TableWrite
<1>6. \A c \in Ids : asg'[c].life = asg[c].life
  BY <1>1, <1>3, <1>4 DEF Table
<1>7. QED
  BY <1>5, <1>6

\* The operator creates and promotes only, nobody changes a policy, and no policy lets
\* a child have children of its own.
FlatRules ==
    /\ OperatorActions \subseteq {"create", "promote"}
    /\ MutationPolicies = {}
    /\ \A policy \in Policies : policy.maxDepth <= 1

LEMMA BudgetRun ==
    ASSUME FlatRules, TypeOK, WholeInv, FlightInv, BudgetInv, NEW r \in runs, RunEnds(r)
    PROVE  BudgetInv'
<1> DEFINE a == r.id
<1>1. /\ asg \in Table /\ Whole(asg) /\ Shared(asg) /\ Flat(asg) /\ a \in Ids /\ Exists(asg, a)
      /\ r.marker \in Marker
  BY RunType DEF TypeOK, Table, WholeInv, KnownRun, BudgetInv, Promised, Shared
<1>2. scheduled' = scheduled
  BY DEF RunEnds, RunReturns, MutationEnds, RunFails
<1>3. IsChild(asg, a) => Sound(asg, a) /\ asg[a].life = "active" /\ a \notin scheduled
  BY DEF BudgetInv, Promised, Working
<1>4. \A t \in runs \ {r} : t.id # a
  BY DEF FlightInv, SingleFlight
<1> HIDE DEF a
<1>5. ASSUME Shared(asg'), Steady(asg, asg'), Kept(asg, asg'), \A c \in Ids : asg'[c].life = asg[c].life
      PROVE  /\ IsChild(asg', a) => a \notin scheduled /\ Sound(asg', a)
             /\ runs' = runs \ {r} /\ Opens(asg', thread', a) => BudgetInv'
             /\ \A m \in Marker : Opens(asg', <<PlannerStep(a, m)>>, a)
  <2>1. IsChild(asg', a) => IsChild(asg, a)
    BY <1>1, <1>5, KinKept
  <2>2. IsChild(asg', a) => a \notin scheduled /\ Sound(asg', a)
    <3>1. IsChild(asg', a) => asg'[a].life \notin Stopped
      BY <1>1, <1>3, <1>5, <2>1 DEF Sound
    <3>2. QED
      BY <1>1, <1>3, <1>5, <2>1, <3>1, StateKept
  <2>3. runs' = runs \ {r} /\ Opens(asg', thread', a) => BudgetInv'
    BY <1>1, <1>2, <1>4, <1>5, <2>2, BudgetOpens
  <2>4. ASSUME NEW m \in Marker PROVE Opens(asg', <<PlannerStep(a, m)>>, a)
    <3> DEFINE s == PlannerStep(a, m)
    <3>1. s \in Fine(asg') /\ \A c \in Ids \ {a} : s \in Silent(c)
      BY <1>1, <2>2, PlannerFine
    <3>2. s.step = "planner" /\ s.id = a
      BY DEF PlannerStep
    <3> HIDE DEF s
    <3> DEFINE t == <<s>>
    <3>3. t # <<>> /\ Head(t) = s /\ Tail(t) = <<>> /\ t \in Seq(Fine(asg')) /\ \A c \in Ids \ {a} : t \in Seq(Silent(c))
      BY <3>1
    <3>4. <<>> \in Seq(Rest(asg')) /\ \A c \in Ids : <<>> \in Seq(Silent(c))
      OBVIOUS
    <3> HIDE DEF t
    <3>5. Opens(asg', t, a)
      BY <3>2, <3>3, <3>4 DEF Opens
    <3>6. QED
      BY <3>5 DEF t, s
  <2>5. QED
    BY <2>2, <2>3, <2>4
<1>6. CASE \E m \in Markers(a) : RunReturns(r, m)
  <2>1. PICK m \in Markers(a) : RunReturns(r, m)
    BY <1>6
  <2>2. m \in Marker /\ ~m.mutates
    <3>1. m.mutates \in {FALSE, MutationPolicies # {}}
      BY DEF Markers
    <3>2. QED
      BY <1>1, <3>1, MarkersType DEF FlatRules
  <2>3. asg' = RunSucceeded(a) /\ runs' = runs \ {r} /\ thread' = <<PlannerStep(a, m)>>
    BY <2>1, <2>2 DEF RunReturns, a
  <2>4. Shared(asg') /\ Steady(asg, asg') /\ Kept(asg, asg') /\ \A c \in Ids : asg'[c].life = asg[c].life
    BY <1>1, <2>3, TallyWrite
  <2>5. QED
    BY <1>5, <2>2, <2>3, <2>4
<1>7. CASE MutationEnds(r)
  <2>1. asg' = [asg EXCEPT ![a].policy = asg[a].policy]
    BY <1>7 DEF MutationEnds, FlatRules, a
  <2>2. asg' = asg
    BY <1>1, <2>1 DEF Table, Assignment
  <2>3. Shared(asg') /\ Steady(asg, asg') /\ Kept(asg, asg') /\ \A c \in Ids : asg'[c].life = asg[c].life
    BY <1>1, <2>2, SameSteady
  <2>4. runs' = runs \ {r} /\ thread' = <<PlannerStep(a, r.marker)>>
    BY <1>7 DEF MutationEnds, a
  <2>5. QED
    BY <1>1, <1>5, <2>3, <2>4
<1>8. CASE RunFails(r)
  <2>1. /\ asg' = RunFailed(a) /\ runs' = runs \ {r}
        /\ thread' = Settle(a, "failed") \/ thread' = Park(a, "other")
    BY <1>8 DEF RunFails, a
  <2>2. Shared(asg') /\ Steady(asg, asg') /\ Kept(asg, asg') /\ \A c \in Ids : asg'[c].life = asg[c].life
    BY <1>1, <2>1, TallyWrite
  <2>3. "failed" \in Decisions /\ "failed" \notin {"deps", "depBlocked"}
    BY DEF Decisions
  <2>4. Opens(asg', thread', a)
    <3>1. Opens(asg', Settle(a, "failed"), a) /\ Opens(asg', Park(a, "other"), a)
      BY <1>1, <1>5, <2>2, <2>3, OutcomesOpen
    <3>2. QED
      BY <2>1, <3>1
  <2>5. QED
    BY <1>5, <2>1, <2>2, <2>4
<1>9. QED
  BY <1>6, <1>7, <1>8 DEF RunEnds, a

\* What is left to show of a step of a callback.
LEMMA BudgetBy ==
    ASSUME TypeOK, WholeInv, BudgetInv, Shared(asg'), Kept(asg, asg'), Steady(asg, asg'), runs' = runs,
           \A c \in scheduled' : IsChild(asg', c) => Sound(asg', c) \/ (c \in scheduled /\ asg'[c].life \notin Stopped),
           \A r \in runs : IsChild(asg', r.id) =>
              asg'[r.id].life = "active" /\ r.id \notin scheduled' /\ thread' \in Seq(Silent(r.id)),
           thread' \in Seq(Fine(asg')), Leading(asg', scheduled', thread')
    PROVE  BudgetInv'
<1>1. \A c \in scheduled' : IsChild(asg', c) => Sound(asg', c)
  BY OthersGoOn
<1>2. \A r \in runs : IsChild(asg', r.id) => Sound(asg', r.id)
  BY OthersGoOn DEF Stopped, TerminalStates
<1>3. QED
  BY <1>1, <1>2 DEF BudgetInv, Promised, Working

\* What is known of a callback that goes on.
LEMMA HeadFacts ==
    ASSUME TypeOK, WholeInv, BudgetInv, thread # <<>>
    PROVE  /\ Head(thread) \in Step /\ KnownStep(asg, Head(thread)) /\ Head(thread) \in Fine(asg)
           /\ /\ Tail(thread) \in Seq(Step) /\ Tail(thread) \in Seq(KnownSteps(asg))
              /\ Tail(thread) \in Seq(Fine(asg)) /\ Tail(thread) \in Seq(Rest(asg))
           /\ Closing(asg, scheduled, thread) /\ InPass(asg, Head(thread))
           /\ asg \in Table /\ Whole(asg) /\ Shared(asg) /\ Flat(asg)
<1>1. Head(thread) \in KnownSteps(asg) /\ Tail(thread) \in Seq(KnownSteps(asg))
  BY DEF WholeInv
<1>2. Head(thread) \in Fine(asg) /\ Tail(thread) \in Seq(Fine(asg))
  BY DEF BudgetInv, Promised
<1>3. Tail(thread) \in Seq(Rest(asg)) /\ Closing(asg, scheduled, thread) /\ InPass(asg, Head(thread))
  BY DEF BudgetInv, Promised, Leading
<1>4. asg \in Table /\ Whole(asg) /\ Shared(asg) /\ Flat(asg)
  BY DEF TypeOK, Table, WholeInv, BudgetInv, Promised, Shared
<1>5. QED
  BY <1>1, <1>2, <1>3, <1>4, HeadStep DEF KnownSteps

LEMMA RunsSilent ==
    ASSUME TypeOK, WholeInv, BudgetInv, thread # <<>>, NEW r \in runs, IsChild(asg, r.id)
    PROVE  /\ r.id \in Ids /\ Sound(asg, r.id) /\ asg[r.id].life = "active" /\ r.id \notin scheduled
           /\ ~Names(Head(thread), r.id) /\ Tail(thread) \in Seq(Silent(r.id))
<1>1. Working(asg, scheduled, thread, r.id)
  BY DEF BudgetInv, Promised
<1>2. Head(thread) \in Silent(r.id) /\ Tail(thread) \in Seq(Silent(r.id))
  BY <1>1 DEF Working
<1>3. QED
  BY <1>1, <1>2, RunType DEF Working, Silent

LEMMA BudgetNoChild ==
    ASSUME TypeOK, WholeInv, BudgetInv, NoChild
    PROVE  BudgetInv'
<1> DEFINE s == Head(thread)
           a == s.id
<1>1. /\ thread # <<>> /\ s.step = "planner" /\ thread' = Outcome(a, s.marker.status)
      /\ asg' = asg /\ scheduled' = scheduled /\ runs' = runs
  BY DEF NoChild
<1>2. /\ s \in Step /\ KnownStep(asg, s) /\ s \in Fine(asg) /\ Closing(asg, scheduled, thread)
      /\ asg \in Table /\ Shared(asg) /\ Flat(asg)
  BY <1>1, HeadFacts
<1>3. a \in Ids /\ Exists(asg, a)
  BY <1>1, <1>2, StepFields DEF KnownStep
<1>4. IsChild(asg, a) => Sound(asg, a) /\ a \notin scheduled
  BY <1>1, <1>2, <1>3 DEF Fine, Names, Closing
<1>5. \A r \in runs : IsChild(asg, r.id) => r.id # a
  BY <1>1, RunsSilent DEF Names
<1>6. Kept(asg, asg)
  BY DEF Kept
<1> HIDE DEF a
<1>7. Opens(asg, thread', a)
  BY <1>1, <1>2, <1>3, <1>4, <1>6, OutcomesOpen
<1>8. Kept(asg, asg') /\ Steady(asg, asg')
  BY <1>1, SameSteady
<1>9. Shared(asg') /\ \A c \in Ids : asg'[c].life = asg[c].life
  BY <1>1, <1>2
<1>10. QED
  BY <1>1, <1>3, <1>4, <1>5, <1>7, <1>8, <1>9, BudgetOpens

LEMMA BudgetDecision ==
    ASSUME TypeOK, WholeInv, BudgetInv, TakeDecision
    PROVE  BudgetInv'
<1> DEFINE s == Head(thread)
           t == Tail(thread)
           a == s.id
           row == Decided(asg[a], s.decision)
<1>1. /\ thread # <<>> /\ s.step = "decide" /\ thread' = t /\ scheduled' = scheduled /\ runs' = runs
      /\ asg' = [asg EXCEPT ![a] = row]
  BY DEF TakeDecision, Decide
<1>2. /\ s \in Step /\ KnownStep(asg, s) /\ s \in Fine(asg)
      /\ t \in Seq(Step) /\ t \in Seq(KnownSteps(asg)) /\ t \in Seq(Fine(asg)) /\ t \in Seq(Rest(asg))
      /\ Closing(asg, scheduled, thread) /\ asg \in Table /\ Whole(asg) /\ Shared(asg)
  BY <1>1, HeadFacts
<1>3. a \in Ids /\ Exists(asg, a) /\ s.decision \in Decisions
  BY <1>1, <1>2, StepFields DEF KnownStep
<1>4. asg[a] \in Assignment
  BY <1>2, <1>3 DEF Table
<1>5. row \in Assignment /\ Rewrites(asg[a], row)
  BY <1>3, <1>4, DecidedType, DecidedRewrites
<1>6. /\ row.life \in Stopped => s.decision \notin {"deps", "child", "other"}
      /\ row.life = "blocked" /\ row.depBlocked => s.decision = "depBlocked"
  BY <1>3, <1>4 DEF Decided, Assignment, Decisions, Stopped, TerminalStates
<1>7. IsChild(asg, a) => Sound(asg, a) /\ s.decision \notin {"deps", "depBlocked"}
  BY <1>1, <1>2, <1>3 DEF Fine, Names, IsChild, IsRoot
<1>8. IsChild(asg, a) /\ row.life \in Stopped => a \notin scheduled /\ t \in Seq(Silent(a))
  BY <1>1, <1>2, <1>3, <1>6 DEF Closing, Final
<1>9. \A r \in runs : IsChild(asg, r.id) => r.id # a /\ t \in Seq(Silent(r.id))
  BY <1>1, RunsSilent DEF Names
<1> HIDE DEF s, t, a, row
<1>10. Plain(asg, a, row)
  BY <1>3, <1>5, <1>6, <1>7 DEF Plain, Rewrites, Spends, IsChild, Sound
<1>11. Shared(asg') /\ Steady(asg, asg') /\ Kept(asg, asg')
  BY <1>1, <1>2, <1>3, <1>5, <1>10, TableWrite
<1>12. asg'[a].life = row.life /\ \A c \in Ids \ {a} : asg'[c].life = asg[c].life
  BY <1>1, <1>2, <1>3 DEF Table
<1>13. thread' \in Seq(Fine(asg'))
  <2>1. \A c \in Ids : IsChild(asg, c) /\ asg'[c].life \in Stopped /\ asg[c].life \notin Stopped => t \in Seq(Silent(c))
    BY <1>8, <1>12
  <2>2. QED
    BY <1>1, <1>2, <1>11, <2>1, FineKept
<1>14. Leading(asg', scheduled', thread')
  BY <1>1, <1>2, <1>11, RestKept, RestLeads
<1>15. ASSUME NEW c \in scheduled', IsChild(asg', c) PROVE c \in scheduled /\ asg'[c].life \notin Stopped
  <2>1. c \in scheduled /\ c \in Ids /\ Exists(asg, c)
    BY <1>1, <1>15 DEF TypeOK, WholeInv, Existing
  <2>2. IsChild(asg, c) /\ asg[c].life \notin Stopped
    BY <1>11, <1>15, <2>1, KinKept DEF BudgetInv, Promised, Sound
  <2>3. QED
    BY <1>8, <1>12, <2>1, <2>2
<1>16. ASSUME NEW r \in runs, IsChild(asg', r.id)
       PROVE  asg'[r.id].life = "active" /\ r.id \notin scheduled' /\ thread' \in Seq(Silent(r.id))
  <2>1. IsChild(asg, r.id)
    BY <1>11, <1>16, OthersGoOn
  <2>2. QED
    BY <1>1, <1>9, <1>12, <2>1, RunsSilent
<1>17. QED
  BY <1>1, <1>11, <1>13, <1>14, <1>15, <1>16, BudgetBy

LEMMA BudgetSchedule ==
    ASSUME TypeOK, WholeInv, BudgetInv, ScheduleNext
    PROVE  BudgetInv'
<1> DEFINE s == Head(thread)
           t == Tail(thread)
<1>1. /\ thread # <<>> /\ s.step = "schedule" /\ asg' = asg /\ runs' = runs
  BY DEF ScheduleNext
<1>2. PICK a \in s.ids : /\ scheduled' = scheduled \cup {a}
                         /\ thread' = (IF s.ids = {a} THEN <<>> ELSE <<ScheduleStep(s.ids \ {a})>>) \o t
  BY DEF ScheduleNext
<1>3. /\ s \in Step /\ s \in Fine(asg) /\ t \in Seq(Fine(asg)) /\ t \in Seq(Rest(asg)) /\ Shared(asg)
  BY <1>1, HeadFacts
<1>4. s.ids \in SUBSET Ids /\ \A c \in s.ids : IsChild(asg, c) => Sound(asg, c)
  BY <1>1, <1>3, StepFields DEF Fine, Names
<1>5. \A r \in runs : IsChild(asg, r.id) =>
         /\ r.id \in Ids \ s.ids /\ asg[r.id].life = "active" /\ r.id \notin scheduled /\ t \in Seq(Silent(r.id))
  BY <1>1, RunsSilent DEF Names
<1> DEFINE left == s.ids \ {a}
           front == IF s.ids = {a} THEN <<>> ELSE <<ScheduleStep(left)>>
<1>6. /\ ScheduleStep(left) \in Fine(asg) /\ ScheduleStep(left) \in Rest(asg)
      /\ \A c \in Ids \ left : ScheduleStep(left) \in Silent(c)
  <2>1. left \in SUBSET Ids /\ \A c \in left : IsChild(asg, c) => Sound(asg, c)
    BY <1>4
  <2> HIDE DEF left
  <2>2. QED
    BY <2>1, ScheduleFine
<1>7. thread' = front \o t
  BY <1>2
<1>8. front \in Seq(Fine(asg)) /\ front \in Seq(Rest(asg)) /\ \A c \in Ids \ s.ids : front \in Seq(Silent(c))
  <2>1. \A c \in Ids \ s.ids : c \in Ids \ left
    OBVIOUS
  <2> HIDE DEF left, s
  <2>2. QED
    BY <1>6, <2>1
<1> HIDE DEF front, left, s, t
<1>9. thread' \in Seq(Fine(asg)) /\ thread' \in Seq(Rest(asg))
  BY <1>3, <1>7, <1>8
<1>10. Leading(asg', scheduled', thread')
  BY <1>1, <1>9, RestLeads
<1>11. \A r \in runs : IsChild(asg', r.id) =>
          asg'[r.id].life = "active" /\ r.id \notin scheduled' /\ thread' \in Seq(Silent(r.id))
  <2> SUFFICES ASSUME NEW r \in runs, IsChild(asg, r.id)
               PROVE  asg[r.id].life = "active" /\ r.id \notin scheduled' /\ thread' \in Seq(Silent(r.id))
    BY <1>1
  <2>1. r.id \in Ids \ s.ids /\ asg[r.id].life = "active" /\ r.id \notin scheduled /\ t \in Seq(Silent(r.id))
    BY <1>5
  <2>2. front \in Seq(Silent(r.id))
    BY <1>8, <2>1
  <2>3. thread' \in Seq(Silent(r.id))
    BY <1>7, <2>1, <2>2
  <2>4. QED
    BY <1>2, <2>1, <2>3
<1>12. \A c \in scheduled' : IsChild(asg', c) => Sound(asg', c)
  BY <1>1, <1>2, <1>4 DEF BudgetInv, Promised
<1>13. Kept(asg, asg') /\ Steady(asg, asg') /\ Shared(asg')
  BY <1>1, <1>3, SameSteady
<1>14. QED
  BY <1>1, <1>9, <1>10, <1>11, <1>12, <1>13, BudgetBy

LEMMA BudgetResolve ==
    ASSUME TypeOK, WholeInv, BudgetInv, ResolveChild
    PROVE  BudgetInv'
<1> DEFINE s == Head(thread)
           t == Tail(thread)
<1>1. PICK c \in s.todo :
         LET what == Resolution(asg, s.before, c)
             next == [s EXCEPT !.changed = TRUE, !.todo = @ \ {c},
                               !.activated = IF what = "resume" THEN @ \cup {c} ELSE @,
                               !.lost = IF what = "depBlocked" THEN @ \cup {c} ELSE @]
         IN  what # "nothing" /\ asg' = Resolve(asg, c, what) /\ thread' = <<next>> \o t
  BY DEF ResolveChild
<1> DEFINE what == Resolution(asg, s.before, c)
           todo == s.todo \ {c}
           activated == IF what = "resume" THEN s.activated \cup {c} ELSE s.activated
           lost == IF what = "depBlocked" THEN s.lost \cup {c} ELSE s.lost
           next == [s EXCEPT !.changed = TRUE, !.todo = todo, !.activated = activated, !.lost = lost]
           row == IF what = "resume" THEN Controlled(asg[c], "resume") ELSE Decided(asg[c], what)
           then == DependencyStateOf(asg, s.before, c)
<1>2. /\ s \in [step : {"resolve"}, parent : Ids, cause : Ids \cup {None}, changed : BOOLEAN,
                before : [Ids -> LifecycleStates], todo : SUBSET Ids, activated : SUBSET Ids,
                lost : SUBSET Ids]
      /\ thread # <<>> /\ s.step = "resolve" /\ scheduled' = scheduled /\ runs' = runs
  BY HeadStep, StepFields DEF ResolveChild
<1>3. what # "nothing" /\ asg' = Resolve(asg, c, what) /\ thread' = <<next>> \o t
  BY <1>1
<1>4. /\ KnownStep(asg, s) /\ s \in Fine(asg) /\ InPass(asg, s)
      /\ t \in Seq(Step) /\ t \in Seq(KnownSteps(asg)) /\ t \in Seq(Fine(asg)) /\ t \in Seq(Rest(asg))
      /\ asg \in Table /\ Whole(asg) /\ Shared(asg)
  BY <1>2, HeadFacts
<1>5. c \in Ids /\ Exists(asg, c) /\ IsChild(asg, c)
  <2>1. c \in Children(asg, s.parent) /\ s.parent \in Ids
    BY <1>1, <1>2, <1>4 DEF KnownStep
  <2>2. QED
    BY <2>1, NoneAssumption DEF Children, IsChild
<1>6. /\ \A d \in Ids : IsChild(asg, d) =>
            /\ s.before[d] \in Stopped => asg[d].life = s.before[d]
            /\ asg[d].life = "completed" => s.before[d] = "completed"
      /\ \A d \in s.todo : DependencyBlocked(asg, d) => DependencyStateOf(asg, s.before, d) = "blocked"
  BY <1>1, <1>2, <1>4 DEF InPass
<1>7. IsRoot(asg, s.parent) /\ \A d \in s.activated : IsChild(asg, d) => Sound(asg, d)
  BY <1>2, <1>4 DEF Fine, Names
<1>8. \A r \in runs : IsChild(asg, r.id) =>
         /\ r.id \in Ids /\ Sound(asg, r.id) /\ asg[r.id].life = "active" /\ r.id \notin scheduled
         /\ r.id \notin s.activated /\ t \in Seq(Silent(r.id))
  BY <1>2, RunsSilent DEF Names
\* What the states of the siblings then say of those now.
<1>9. /\ then = "satisfied" => StateIn(asg, c) = "satisfied"
      /\ then = "blocked" => StateIn(asg, c) = "blocked"
      /\ then # "satisfied" => StateIn(asg, c) # "satisfied"
  <2> DEFINE before == s.before
  <2>1. asg[c].mode \in {"all", "any"} /\ asg[c].deps \subseteq Ids /\ \A d \in asg[c].deps : IsChild(asg, d)
    BY <1>4, <1>5, ChildDeps
  <2>2. \A d \in asg[c].deps : /\ before[d] \in Stopped => Lives(asg)[d] = before[d]
                               /\ Lives(asg)[d] = "completed" => before[d] = "completed"
    BY <1>6, <2>1 DEF Lives
  <2> HIDE DEF before
  <2>3. /\ DependencyState(before, asg[c].deps, asg[c].mode) = "satisfied" => StateIn(asg, c) = "satisfied"
        /\ DependencyState(before, asg[c].deps, asg[c].mode) = "blocked" => StateIn(asg, c) = "blocked"
    BY <2>1, <2>2, StateStays DEF StateIn, DependencyStateOf
  <2>4. StateIn(asg, c) = "satisfied" => DependencyState(before, asg[c].deps, asg[c].mode) = "satisfied"
    BY <2>1, <2>2, SatisfiedBefore DEF StateIn, DependencyStateOf
  <2>5. QED
    BY <2>3, <2>4 DEF DependencyStateOf, before
<1>10. DependencyBlocked(asg, c) => then = "blocked"
  BY <1>1, <1>6
\* Only a child that waits for its siblings is resumed; the others are not free to go on.
<1>11. /\ what \in {"resume", "depBlocked", "deps"}
       /\ asg[c].life \notin Stopped
       /\ what = "resume" => then = "satisfied" /\ asg[c].life = "waiting"
       /\ what = "depBlocked" => then = "blocked"
       /\ what # "resume" => then # "satisfied"
  <2> DEFINE waits == DependencyWaiting(asg, c)
             blocked == DependencyBlocked(asg, c)
             over == IsTerminal(asg, c)
             life == asg[c].life
  <2>1. /\ waits => life = "waiting"
        /\ blocked => life = "blocked"
        /\ over <=> life \in TerminalStates
        /\ blocked => then = "blocked"
    BY <1>10 DEF DependencyWaiting, DependencyBlocked, IsTerminal
  <2>2. what = IF over \/ asg[c].deps = {} THEN "nothing"
               ELSE CASE then = "blocked" /\ life # "blocked" -> "depBlocked"
                      [] then = "satisfied" /\ (waits \/ (blocked /\ ~RestoresWait(asg, c))) ->
                           IF HasCapacityToReactivate(asg, c) THEN "resume"
                           ELSE IF life = "blocked" THEN "deps" ELSE "nothing"
                      [] then = "satisfied" /\ blocked /\ RestoresWait(asg, c) -> "other"
                      [] then = "waiting" /\ (life = "active" \/ blocked) ->
                           IF life = "blocked" /\ RestoresWait(asg, c) THEN "other" ELSE "deps"
                      [] OTHER -> "nothing"
    BY DEF Resolution
  <2>3. then \in {"satisfied", "blocked", "waiting"}
    BY DEF DependencyStateOf, DependencyState
  <2> HIDE DEF what, then, waits, blocked, over, life
  <2>4. /\ ~over /\ what \in {"resume", "depBlocked", "deps"}
        /\ what = "resume" => then = "satisfied" /\ waits
        /\ what = "depBlocked" => then = "blocked" /\ life # "blocked"
        /\ what = "deps" => then = "waiting" /\ life = "active"
    <3>1. CASE then = "blocked"
      BY <1>3, <2>2, <3>1
    <3>2. CASE then = "satisfied"
      BY <1>3, <2>1, <2>2, <3>2
    <3>3. CASE then = "waiting"
      BY <1>3, <2>1, <2>2, <3>3
    <3>4. QED
      BY <2>3, <3>1, <3>2, <3>3
  <2>5. life \notin TerminalStates /\ life # "blocked"
    BY <2>1, <2>4
  <2>6. QED
    BY <2>1, <2>4, <2>5 DEF Stopped, life
<1>12. Sound(asg, c) => what = "resume"
  BY <1>9, <1>11 DEF Sound
<1>13. \A r \in runs : IsChild(asg, r.id) => r.id # c
  BY <1>8, <1>11, <1>12
<1>14. asg' = [asg EXCEPT ![c] = row]
  BY <1>3 DEF Resolve, Control, Decide
<1>15. asg[c] \in Assignment
  BY <1>4, <1>5 DEF Table
<1>16. row \in Assignment /\ Rewrites(asg[c], row)
  <2>1. asg[c].life # "absent"
    BY <1>5 DEF Exists
  <2>2. what # "resume" => what \in Decisions
    BY <1>11 DEF Decisions
  <2> HIDE DEF what
  <2>3. QED
    BY <1>15, <2>1, <2>2, DecidedType, ControlledType, DecidedRewrites, ControlledRewrites
<1>17. /\ what = "resume" => row.life = "active"
       /\ row.life \in Stopped => what = "depBlocked" /\ row.life = "blocked"
  <2> HIDE DEF what
  <2>1. what = "resume" => row.life = "active"
    BY <1>15 DEF Controlled, Assignment
  <2>2. what # "resume" => row.life = IF what = "depBlocked" THEN "blocked" ELSE "waiting"
    BY <1>11, <1>15 DEF Decided, Assignment
  <2>3. "active" \notin Stopped /\ "waiting" \notin Stopped
    BY DEF Stopped, TerminalStates
  <2> HIDE DEF row
  <2>4. QED
    BY <2>1, <2>2, <2>3
<1> HIDE DEF s, t, what, next, row, then, todo, activated, lost
<1>18. Plain(asg, c, row)
  <2>1. row.life = "blocked" => StateIn(asg, c) = "blocked"
    BY <1>9, <1>11, <1>17 DEF Stopped
  <2>2. QED
    BY <1>11, <1>16, <2>1 DEF Plain, Rewrites, Spends
<1>19. Shared(asg') /\ Steady(asg, asg') /\ Kept(asg, asg')
  BY <1>4, <1>5, <1>14, <1>16, <1>18, TableWrite
<1>20. asg'[c] = row /\ \A d \in Ids \ {c} : asg'[d] = asg[d]
  BY <1>4, <1>5, <1>14 DEF Table
<1>21. \A d \in Ids : IsChild(asg, d) /\ Sound(asg, d) => asg'[d].life \notin Stopped
  BY <1>12, <1>17, <1>20 DEF Sound
<1>22. Sound(asg, c) \/ what = "resume" => Sound(asg', c)
  <2> SUFFICES ASSUME what = "resume" PROVE Sound(asg', c)
    BY <1>12
  <2>1. StateIn(asg, c) = "satisfied"
    BY <1>9, <1>11
  <2>2. asg'[c].life \notin Stopped
    BY <1>17, <1>20 DEF Stopped, TerminalStates
  <2>3. QED
    BY <1>4, <1>5, <1>19, <2>1, <2>2, StateKept DEF Sound
<1>23. t \in Seq(Fine(asg')) /\ t \in Seq(Rest(asg'))
  <2>1. ASSUME NEW d \in Ids, IsChild(asg, d), asg'[d].life \in Stopped, asg[d].life \notin Stopped
        PROVE  t \in Seq(Silent(d))
    <3>1. ~Sound(asg, d)
      BY <1>21, <2>1
    <3>2. Fine(asg) \subseteq Silent(d)
      BY <2>1, <3>1 DEF Fine, Silent
    <3>3. QED
      BY <1>4, <3>2
  <2>2. QED
    BY <1>4, <1>19, <2>1, FineKept, RestKept
<1>24. /\ next \in Step /\ next.step = "resolve" /\ next.parent = s.parent /\ next.before = s.before
       /\ next.todo = s.todo \ {c} /\ next.activated \subseteq s.activated \cup {c}
       /\ what # "resume" => next.activated = s.activated
  <2>1. todo \in SUBSET Ids /\ activated \in SUBSET Ids /\ lost \in SUBSET Ids
    BY <1>2, <1>5 DEF todo, activated, lost
  <2>2. next = [s EXCEPT !.changed = TRUE, !.todo = todo, !.activated = activated, !.lost = lost]
    BY DEF next
  <2>3. next \in Step
    BY <1>2, <2>1, <2>2 DEF Step
  <2>4. /\ next.step = "resolve" /\ next.parent = s.parent /\ next.before = s.before
        /\ next.todo = todo /\ next.activated = activated
    BY <1>2, <2>2
  <2>5. QED
    BY <2>3, <2>4 DEF todo, activated
<1>25. next \in Fine(asg')
  <2>1. IsRoot(asg', next.parent)
    BY <1>2, <1>7, <1>19, <1>24, KinKept
  <2>2. ASSUME NEW d \in Ids, IsChild(asg', d), d \in next.activated PROVE Sound(asg', d)
    <3>1. CASE d = c
      <4>1. what = "resume" \/ c \in s.activated
        BY <1>24, <2>2, <3>1
      <4>2. c \in s.activated => Sound(asg, c)
        BY <1>5, <1>7
      <4>3. QED
        BY <1>22, <3>1, <4>1, <4>2
    <3>2. CASE d # c
      <4>1. d \in s.activated /\ Exists(asg, d)
        BY <1>2, <1>4, <1>24, <2>2, <3>2 DEF KnownStep, Children
      <4>2. IsChild(asg, d) /\ Sound(asg, d)
        BY <1>7, <1>19, <2>2, <4>1, KinKept
      <4>3. QED
        BY <1>4, <1>19, <1>21, <4>1, <4>2, StateKept
    <3>3. QED
      BY <3>1, <3>2
  <2>3. QED
    BY <1>24, <2>1, <2>2 DEF Fine, Names
<1>26. InPass(asg', next)
  <2>1. ASSUME NEW d \in Ids, IsChild(asg', d)
        PROVE  /\ s.before[d] \in Stopped => asg'[d].life = s.before[d]
               /\ asg'[d].life = "completed" => s.before[d] = "completed"
    <3>1. IsChild(asg, d)
      BY <1>5, <1>20, <2>1 DEF IsChild, Exists
    <3>2. s.before[d] \in Stopped => asg'[d].life = s.before[d]
      BY <1>6, <1>19, <3>1 DEF Steady
    <3>3. asg'[d].life = "completed" => d # c
      BY <1>17, <1>20 DEF Stopped, TerminalStates
    <3>4. QED
      BY <1>6, <1>20, <3>1, <3>2, <3>3
  <2>2. ASSUME NEW d \in next.todo, DependencyBlocked(asg', d) PROVE DependencyStateOf(asg', next.before, d) = "blocked"
    <3>1. d \in s.todo /\ d \in Ids \ {c} /\ next.before = s.before
      BY <1>2, <1>24
    <3>2. asg'[d] = asg[d]
      BY <1>20, <3>1
    <3>3. DependencyBlocked(asg, d)
      BY <2>2, <3>2 DEF DependencyBlocked
    <3>4. DependencyStateOf(asg, s.before, d) = "blocked"
      BY <1>6, <3>1, <3>3
    <3>5. QED
      BY <3>1, <3>2, <3>4 DEF DependencyStateOf
  <2>3. QED
    BY <1>24, <2>1, <2>2 DEF InPass
<1>27. \A d \in Ids : d \notin s.activated /\ d # c => next \in Silent(d)
  BY <1>24 DEF Silent, Names
<1>28. /\ thread' \in Seq(Fine(asg')) /\ thread' # <<>> /\ Head(thread') = next /\ Tail(thread') = t
       /\ \A d \in Ids : d \notin s.activated /\ d # c /\ t \in Seq(Silent(d)) => thread' \in Seq(Silent(d))
  BY <1>3, <1>4, <1>23, <1>25, <1>27
<1>29. Leading(asg', scheduled', thread')
  BY <1>23, <1>24, <1>26, <1>28 DEF Leading, Closing
<1>30. ASSUME NEW r \in runs, IsChild(asg', r.id)
       PROVE  asg'[r.id].life = "active" /\ r.id \notin scheduled' /\ thread' \in Seq(Silent(r.id))
  <2>1. IsChild(asg, r.id)
    BY <1>19, <1>30, OthersGoOn
  <2>2. QED
    BY <1>2, <1>8, <1>13, <1>20, <1>28, <2>1
<1>31. ASSUME NEW d \in scheduled', IsChild(asg', d) PROVE d \in scheduled /\ asg'[d].life \notin Stopped
  <2>1. d \in scheduled /\ d \in Ids /\ Exists(asg, d)
    BY <1>2, <1>31 DEF TypeOK, WholeInv, Existing
  <2>2. IsChild(asg, d) /\ Sound(asg, d)
    BY <1>19, <1>31, <2>1, KinKept DEF BudgetInv, Promised
  <2>3. QED
    BY <1>21, <2>1, <2>2
<1>32. QED
  BY <1>2, <1>19, <1>28, <1>29, <1>30, <1>31, BudgetBy

LEMMA BudgetPass ==
    ASSUME TypeOK, WholeInv, BudgetInv, NextPass
    PROVE  BudgetInv'
<1> DEFINE s == Head(thread)
           t == Tail(thread)
           lives == Lives(asg)
           children == Children(asg, s.parent)
           next == [s EXCEPT !.changed = FALSE, !.before = lives, !.todo = children]
<1>1. /\ thread # <<>> /\ s.step = "resolve" /\ thread' = <<next>> \o t
      /\ asg' = asg /\ scheduled' = scheduled /\ runs' = runs
  BY DEF NextPass
<1>2. s \in [step : {"resolve"}, parent : Ids, cause : Ids \cup {None}, changed : BOOLEAN,
             before : [Ids -> LifecycleStates], todo : SUBSET Ids, activated : SUBSET Ids,
             lost : SUBSET Ids]
  BY <1>1, HeadStep, StepFields
<1>3. s \in Fine(asg) /\ t \in Seq(Fine(asg)) /\ t \in Seq(Rest(asg)) /\ asg \in Table /\ Shared(asg)
  BY <1>1, HeadFacts
<1>4. \A r \in runs : IsChild(asg, r.id) =>
         /\ asg[r.id].life = "active" /\ r.id \notin scheduled
         /\ r.id \notin s.activated /\ t \in Seq(Silent(r.id))
  BY <1>1, RunsSilent DEF Names
<1>5. IsRoot(asg, s.parent) /\ \A d \in Ids : IsChild(asg, d) /\ d \in s.activated => Sound(asg, d)
  BY <1>1, <1>3 DEF Fine, Names
<1>6. lives \in [Ids -> LifecycleStates] /\ children \in SUBSET Ids
  BY <1>3, LivesType DEF Children
<1>7. /\ next \in Step /\ next.step = "resolve" /\ next.parent = s.parent /\ next.before = lives
      /\ next.todo = children /\ next.activated = s.activated
  <2> HIDE DEF s, lives, children
  <2>1. next \in Step
    BY <1>2, <1>6 DEF Step
  <2>2. QED
    BY <1>2, <2>1
<1> HIDE DEF next
<1>8. next \in Fine(asg) /\ \A d \in Ids \ s.activated : next \in Silent(d)
  BY <1>5, <1>7 DEF Fine, Names, Silent
<1>9. InPass(asg, next)
  <2>1. \A d \in children : d \in Ids /\ IsChild(asg, d)
    BY <1>2, NoneAssumption DEF Children, IsChild
  <2>2. \A d \in children : DependencyBlocked(asg, d) => DependencyStateOf(asg, lives, d) = "blocked"
    BY <1>3, <2>1 DEF Shared, LostStay, StateIn
  <2>3. \A d \in Ids : lives[d] = asg[d].life
    BY DEF Lives
  <2> HIDE DEF lives, children
  <2>4. QED
    BY <1>7, <2>2, <2>3 DEF InPass
<1> HIDE DEF s, t, lives, children
<1>10. /\ thread' \in Seq(Fine(asg)) /\ thread' # <<>> /\ Head(thread') = next /\ Tail(thread') = t
       /\ \A d \in Ids \ s.activated : t \in Seq(Silent(d)) => thread' \in Seq(Silent(d))
  BY <1>1, <1>3, <1>8
<1>11. Leading(asg', scheduled', thread')
  BY <1>1, <1>3, <1>7, <1>9, <1>10 DEF Leading, Closing
<1>12. \A r \in runs : IsChild(asg', r.id) =>
          asg'[r.id].life = "active" /\ r.id \notin scheduled' /\ thread' \in Seq(Silent(r.id))
  BY <1>1, <1>4, <1>10, RunType
<1>13. \A c \in scheduled' : IsChild(asg', c) => Sound(asg', c)
  BY <1>1 DEF BudgetInv, Promised
<1>14. Kept(asg, asg') /\ Steady(asg, asg') /\ Shared(asg')
  BY <1>1, <1>3, SameSteady
<1>15. QED
  BY <1>1, <1>10, <1>11, <1>12, <1>13, <1>14, BudgetBy

LEMMA BudgetEnd ==
    ASSUME TypeOK, WholeInv, BudgetInv, EndResolution
    PROVE  BudgetInv'
<1> DEFINE s == Head(thread)
           t == Tail(thread)
           p == s.parent
           children == IF s.activated = {} THEN <<>> ELSE <<ScheduleStep(s.activated)>>
           waitedFor == \E c \in {s.cause} \cup s.activated \cup s.lost : asg[c].waited
           parent == IF /\ ActiveWaitedChildren(asg, p) = {}
                        /\ waitedFor
                        /\ ParentMayContinue(p)
                       THEN <<ScheduleStep({p})>> ELSE <<>>
           front == IF s.cause = None THEN <<>> ELSE children \o parent
<1>1. /\ thread # <<>> /\ s.step = "resolve" /\ thread' = front \o t
      /\ asg' = asg /\ scheduled' = scheduled /\ runs' = runs
  BY DEF EndResolution
<1>2. s \in Step /\ s \in Fine(asg) /\ t \in Seq(Fine(asg)) /\ t \in Seq(Rest(asg)) /\ Shared(asg)
  BY <1>1, HeadFacts
<1>3. p \in Ids /\ s.activated \in SUBSET Ids
  BY <1>1, <1>2, StepFields
<1>4. \A r \in runs : IsChild(asg, r.id) =>
         /\ asg[r.id].life = "active" /\ r.id \notin scheduled
         /\ r.id \notin s.activated /\ t \in Seq(Silent(r.id))
  BY <1>1, RunsSilent DEF Names
<1>5. IsRoot(asg, p) /\ \A d \in s.activated : IsChild(asg, d) => Sound(asg, d)
  BY <1>1, <1>2, <1>3 DEF Fine, Names
<1>6. /\ ScheduleStep(s.activated) \in Fine(asg) /\ ScheduleStep(s.activated) \in Rest(asg)
      /\ \A d \in Ids \ s.activated : ScheduleStep(s.activated) \in Silent(d)
  BY <1>3, <1>5, ScheduleFine
<1>7. /\ ScheduleStep({p}) \in Fine(asg) /\ ScheduleStep({p}) \in Rest(asg)
      /\ \A d \in Ids \ {p} : ScheduleStep({p}) \in Silent(d)
  <2>1. {p} \in SUBSET Ids /\ \A d \in {p} : IsChild(asg, d) => Sound(asg, d)
    BY <1>3, <1>5 DEF IsChild, IsRoot
  <2>2. QED
    BY <2>1, ScheduleFine
<1>8. /\ children \in Seq(Fine(asg)) /\ children \in Seq(Rest(asg))
      /\ \A d \in Ids \ s.activated : children \in Seq(Silent(d))
  <2> HIDE DEF s
  <2>1. QED
    BY <1>6
<1>9. /\ parent \in Seq(Fine(asg)) /\ parent \in Seq(Rest(asg))
      /\ \A d \in Ids \ {p} : parent \in Seq(Silent(d))
  <2> HIDE DEF p, waitedFor
  <2>1. QED
    BY <1>7
<1> HIDE DEF children, parent
<1>10. /\ front \in Seq(Fine(asg)) /\ front \in Seq(Rest(asg))
       /\ \A d \in Ids : d \notin s.activated /\ d # p => front \in Seq(Silent(d))
  <2>1. /\ children \o parent \in Seq(Fine(asg)) /\ children \o parent \in Seq(Rest(asg))
        /\ \A d \in Ids : d \notin s.activated /\ d # p => children \o parent \in Seq(Silent(d))
    <3> HIDE DEF s, p
    <3>1. QED
      BY <1>8, <1>9
  <2>2. <<>> \in Seq(Fine(asg)) /\ <<>> \in Seq(Rest(asg)) /\ \A d : <<>> \in Seq(Silent(d))
    OBVIOUS
  <2> HIDE DEF s, p
  <2>3. QED
    BY <2>1, <2>2
<1> HIDE DEF front, s, t, p
<1>11. thread' \in Seq(Fine(asg)) /\ thread' \in Seq(Rest(asg))
  BY <1>1, <1>2, <1>10
<1>12. Leading(asg', scheduled', thread')
  BY <1>1, <1>11, RestLeads
<1>13. ASSUME NEW r \in runs, IsChild(asg', r.id)
       PROVE  asg'[r.id].life = "active" /\ r.id \notin scheduled' /\ thread' \in Seq(Silent(r.id))
  <2>1. /\ asg[r.id].life = "active" /\ r.id \notin scheduled
        /\ r.id \notin s.activated /\ t \in Seq(Silent(r.id))
    BY <1>1, <1>4, <1>13
  <2>2. r.id \in Ids /\ r.id # p
    BY <1>1, <1>5, <1>13, RunType DEF IsChild, IsRoot
  <2>3. front \in Seq(Silent(r.id))
    BY <1>10, <2>1, <2>2
  <2>4. thread' \in Seq(Silent(r.id))
    BY <1>1, <2>1, <2>3
  <2>5. QED
    BY <1>1, <2>1, <2>4
<1>14. \A c \in scheduled' : IsChild(asg', c) => Sound(asg', c)
  BY <1>1 DEF BudgetInv, Promised
<1>15. Kept(asg, asg') /\ Steady(asg, asg') /\ Shared(asg')
  BY <1>1, <1>2, SameSteady
<1>16. QED
  BY <1>1, <1>11, <1>12, <1>13, <1>14, <1>15, BudgetBy

\* A child is given no more depth than its parent has.
LEMMA ChildDepth ==
    ASSUME NEW table \in Table, NEW p \in Ids, NEW waited, NEW deps, NEW mode, NEW requested \in Policy
    PROVE  ChildRow(table, p, waited, deps, mode, requested).policy.maxDepth <= table[p].policy.maxDepth
<1> DEFINE policy == CapPolicy(requested, table[p].policy, RemainingWakeups(table, p, ActiveChildren(table, p)))
<1>1. requested.maxDepth \in Int /\ table[p].policy.maxDepth \in Int
  BY DEF Table, Assignment, Policy
<1>2. policy.maxDepth <= table[p].policy.maxDepth
  BY <1>1, MinOfTwo DEF CapPolicy
<1> HIDE DEF policy
<1>3. ChildRow(table, p, waited, deps, mode, requested).policy = policy
  BY DEF ChildRow, NewAssignment, policy
<1>4. QED
  BY <1>2, <1>3

\* A child is born within the budget of a root.
LEMMA ChildBirth ==
    ASSUME TypeOK, WholeInv, BudgetInv, NEW p \in Ids, Exists(asg, p), CanPromote(asg, p), NEW c \in FreshChildren,
           NEW waited \in BOOLEAN, NEW deps \in SUBSET Children(asg, p), NEW mode \in {"all", "any"},
           NEW requested \in Policy, asg' = Promote(asg, p, c, waited, deps, mode, requested)
    PROVE  /\ Shared(asg') /\ Steady(asg, asg') /\ Kept(asg, asg') /\ IsRoot(asg, p)
           /\ c \in Ids /\ ~Exists(asg, c) /\ \A d \in Ids \ {c} : asg'[d] = asg[d]
           /\ asg'[c].life = "active" => Sound(asg', c)
<1>1. asg \in Table /\ Whole(asg) /\ Shared(asg) /\ Flat(asg)
  BY DEF TypeOK, Table, WholeInv, BudgetInv, Promised, Shared
<1>2. /\ Kept(asg, asg') /\ Exists(asg', c) /\ Born(asg'[c], asg, p, waited, deps, mode)
      /\ \A d \in Ids \ {c} : asg'[d] = asg[d]
      /\ c \in Ids /\ ~Exists(asg, c)
  BY <1>1, PromoteKept
<1>3. asg' \in Table
  <2>1. deps \in SUBSET Ids
    BY DEF Children
  <2>2. QED
    BY <1>1, <1>2, <2>1, PromoteType
<1>4. IsRoot(asg, p)
  BY <1>1, RootPromotes
<1>5. asg'[c].policy.maxDepth <= 1
  <2> DEFINE row == ChildRow(asg, p, waited, deps, mode, requested)
  <2>1. asg' = [asg EXCEPT ![c] = row]
    BY DEF Promote
  <2>2. row.policy.maxDepth <= asg[p].policy.maxDepth
    BY <1>1, ChildDepth
  <2> HIDE DEF row
  <2>3. asg'[c] = row
    BY <1>1, <1>2, <2>1 DEF Table
  <2>4. asg[p].policy.maxDepth <= 1 /\ asg[p].policy.maxDepth \in Nat /\ row.policy.maxDepth \in Nat
    BY <1>1, <1>2, <1>3, <2>3 DEF Flat, Table, Assignment, Policy
  <2>5. QED
    BY <2>2, <2>3, <2>4
<1> DEFINE state == BirthState(asg, deps, mode)
<1>6. StateIn(asg', c) = state
  <2>1. \A d \in deps : d \in Ids \ {c}
    BY <1>2 DEF Children
  <2>2. \A d \in deps : Lives(asg')[d] = Lives(asg)[d]
    BY <1>2, <2>1 DEF Lives
  <2>3. QED
    BY <1>2, <2>2, SameState DEF StateIn, DependencyStateOf, BirthState, Born
<1>7. state \in {"satisfied", "blocked", "waiting"}
  BY DEF BirthState, DependencyState
<1>8. /\ asg'[c].life = IF state = "waiting" THEN "waiting" ELSE IF state = "blocked" THEN "blocked" ELSE "active"
      /\ asg'[c].parent = p
      /\ asg'[c].policy.maxWakeups <= RemainingWakeups(asg, p, ActiveChildren(asg, p))
  BY <1>2 DEF Born
<1> HIDE DEF state
<1>9. Fits(asg, asg', c)
  BY <1>4, <1>5, <1>6, <1>7, <1>8 DEF Fits, DependencyBlocked
<1>10. Shared(asg') /\ Steady(asg, asg')
  BY <1>1, <1>2, <1>3, <1>9, TableBirth
<1>11. asg'[c].life = "active" => Sound(asg', c)
  BY <1>6, <1>7, <1>8 DEF Sound, Stopped, TerminalStates
<1>12. QED
  BY <1>2, <1>4, <1>10, <1>11

LEMMA BudgetPromote ==
    ASSUME TypeOK, WholeInv, BudgetInv, NEW c \in FreshChildren, PromoteChild(c)
    PROVE  BudgetInv'
<1> DEFINE s == Head(thread)
           m == s.marker
           a == s.id
           waited == (m.child = "waited")
           promoted == Promote(asg, a, c, waited, m.deps, m.mode, asg[a].policy)
           child == CASE promoted[c].life = "active" -> <<ScheduleStep({c})>>
                      [] promoted[c].life = "blocked" -> Continue(a, c)
                      [] OTHER -> <<>>
           rest == IF waited /\ promoted[c].life # "blocked" THEN Park(a, "child") ELSE Outcome(a, m.status)
<1>1. thread # <<>> /\ s.step = "planner"
  BY DEF PromoteChild
<1>2. /\ s \in Step /\ KnownStep(asg, s) /\ asg \in Table /\ Whole(asg) /\ Flat(asg)
  BY <1>1, HeadFacts
<1>3. a \in Ids /\ m \in Marker /\ Exists(asg, a) /\ m.deps \subseteq Children(asg, a)
  BY <1>1, <1>2, StepFields DEF KnownStep
<1>4. asg' = promoted /\ thread' = child \o rest /\ scheduled' = scheduled /\ runs' = runs /\ CanPromote(asg, a)
  BY DEF PromoteChild
<1>5. /\ Shared(asg') /\ Steady(asg, asg') /\ Kept(asg, asg') /\ IsRoot(asg, a)
      /\ c \in Ids /\ ~Exists(asg, c) /\ \A d \in Ids \ {c} : asg'[d] = asg[d]
      /\ asg'[c].life = "active" => Sound(asg', c)
  <2>1. asg[a].policy \in Policy
    BY <1>2, <1>3 DEF Table, Assignment
  <2>2. waited \in BOOLEAN /\ m.deps \in SUBSET Children(asg, a) /\ m.mode \in {"all", "any"}
    BY <1>3, MarkerFields
  <2> HIDE DEF waited, m, a
  <2>3. QED
    BY <1>3, <1>4, <2>1, <2>2, ChildBirth
<1>6. IsRoot(asg', a) /\ ~IsChild(asg', a)
  BY <1>3, <1>5, KinKept DEF IsRoot, IsChild
<1>7. asg'[c].life = "active" =>
         /\ <<ScheduleStep({c})>> \in Seq(Fine(asg')) /\ <<ScheduleStep({c})>> \in Seq(Rest(asg'))
         /\ \A d \in Ids \ {c} : <<ScheduleStep({c})>> \in Seq(Silent(d))
  <2> SUFFICES ASSUME asg'[c].life = "active"
               PROVE  /\ <<ScheduleStep({c})>> \in Seq(Fine(asg')) /\ <<ScheduleStep({c})>> \in Seq(Rest(asg'))
                      /\ \A d \in Ids \ {c} : <<ScheduleStep({c})>> \in Seq(Silent(d))
    OBVIOUS
  <2>1. {c} \in SUBSET Ids /\ \A d \in {c} : IsChild(asg', d) => Sound(asg', d)
    BY <1>5
  <2>2. /\ ScheduleStep({c}) \in Fine(asg') /\ ScheduleStep({c}) \in Rest(asg')
        /\ \A d \in Ids \ {c} : ScheduleStep({c}) \in Silent(d)
    BY <2>1, ScheduleFine
  <2>3. QED
    BY <2>2
<1>8. /\ Continue(a, c) \in Seq(Fine(asg')) /\ Continue(a, c) \in Seq(Rest(asg'))
      /\ \A d : Continue(a, c) \in Seq(Silent(d))
  BY <1>3, <1>5, <1>6, ResolveFine
<1>9. /\ child \in Seq(Fine(asg')) /\ child \in Seq(Rest(asg'))
      /\ \A d \in Ids \ {c} : child \in Seq(Silent(d))
  <2>1. <<>> \in Seq(Fine(asg')) /\ <<>> \in Seq(Rest(asg')) /\ \A d : <<>> \in Seq(Silent(d))
    OBVIOUS
  <2>2. promoted[c].life = asg'[c].life
    BY <1>4
  <2> DEFINE life == promoted[c].life
  <2>3. child = CASE life = "active" -> <<ScheduleStep({c})>> [] life = "blocked" -> Continue(a, c) [] OTHER -> <<>>
    OBVIOUS
  <2>4. \/ life = "active" /\ child = <<ScheduleStep({c})>>
        \/ child = Continue(a, c)
        \/ child = <<>>
    <3> HIDE DEF life, child, a
    <3>1. CASE life = "active"
      BY <2>3, <3>1
    <3>2. CASE life = "blocked"
      BY <2>3, <3>2
    <3>3. CASE life # "active" /\ life # "blocked"
      BY <2>3, <3>3
    <3>4. QED
      BY <3>1, <3>2, <3>3
  <2> HIDE DEF child, promoted, a
  <2>5. QED
    BY <1>7, <1>8, <2>1, <2>2, <2>4
<1>10. /\ rest \in Seq(Fine(asg')) /\ rest \in Seq(Rest(asg'))
       /\ \A d \in Ids \ {a} : rest \in Seq(Silent(d))
  <2>1. Opens(asg', Park(a, "child"), a) /\ Park(a, "child") \in Seq(Rest(asg'))
    BY <1>2, <1>3, <1>5, <1>6, OutcomesOpen
  <2>2. Opens(asg', Outcome(a, m.status), a) /\ Outcome(a, m.status) \in Seq(Rest(asg'))
    BY <1>2, <1>3, <1>5, <1>6, OutcomesOpen
  <2> HIDE DEF promoted, a, m, waited
  <2>3. QED
    BY <2>1, <2>2 DEF Opens
<1> HIDE DEF child, rest, promoted
<1>11. thread' \in Seq(Fine(asg')) /\ thread' \in Seq(Rest(asg'))
  BY <1>4, <1>9, <1>10
<1>12. Leading(asg', scheduled', thread')
  BY <1>11, RestLeads
<1>13. ASSUME NEW r \in runs, IsChild(asg', r.id)
       PROVE  asg'[r.id].life = "active" /\ r.id \notin scheduled' /\ thread' \in Seq(Silent(r.id))
  <2>1. IsChild(asg, r.id)
    BY <1>5, <1>13, OthersGoOn
  <2>2. r.id \in Ids /\ r.id # c /\ r.id # a
    BY <1>5, <1>6, <1>13, <2>1, RunType DEF IsChild
  <2>3. asg[r.id].life = "active" /\ r.id \notin scheduled
    BY <1>1, <2>1, RunsSilent
  <2>4. child \in Seq(Silent(r.id)) /\ rest \in Seq(Silent(r.id))
    BY <1>9, <1>10, <2>2
  <2>5. thread' \in Seq(Silent(r.id))
    BY <1>4, <2>4
  <2>6. QED
    BY <1>4, <1>5, <2>2, <2>3, <2>5
<1>14. ASSUME NEW d \in scheduled', IsChild(asg', d) PROVE d \in scheduled /\ asg'[d].life \notin Stopped
  <2>1. d \in scheduled /\ d \in Ids /\ Exists(asg, d) /\ d # c
    BY <1>4, <1>5, <1>14 DEF TypeOK, WholeInv, Existing
  <2>2. IsChild(asg, d) /\ Sound(asg, d)
    BY <1>5, <1>14, <2>1, KinKept DEF BudgetInv, Promised
  <2>3. QED
    BY <1>5, <2>1, <2>2 DEF Sound
<1>15. QED
  BY <1>4, <1>5, <1>11, <1>12, <1>13, <1>14, BudgetBy

LEMMA BudgetThread ==
    ASSUME TypeOK, WholeInv, BudgetInv, ThreadStep
    PROVE  BudgetInv'
<1>1. CASE Release
  <2>1. UNCHANGED <<asg, scheduled, runs, thread>>
    BY <1>1 DEF Release
  <2>2. QED
    BY <2>1 DEF BudgetInv
<1>2. QED
  BY <1>1, BudgetPromote, BudgetNoChild, BudgetDecision, BudgetSchedule, BudgetResolve, BudgetPass, BudgetEnd
     DEF ThreadStep

\* A root is born with a share of its own.
LEMMA RootBirth ==
    ASSUME FlatRules, TypeOK, WholeInv, BudgetInv, NEW a \in Ids, ~Exists(asg, a), NEW policy \in Policies,
           asg' = [asg EXCEPT ![a] = NewAssignment(policy)]
    PROVE  /\ Shared(asg') /\ Steady(asg, asg') /\ Kept(asg, asg') /\ ~IsChild(asg', a)
           /\ \A d \in Ids \ {a} : asg'[d] = asg[d]
<1>1. asg \in Table /\ Whole(asg) /\ Shared(asg) /\ policy \in Policy
  BY PlannerAssumption DEF TypeOK, Table, WholeInv, BudgetInv, Promised
<1> DEFINE row == NewAssignment(policy)
<1>2. row \in Assignment /\ row.life = "active" /\ row.parent = None /\ row.policy = policy
  BY <1>1, NewAssignmentType DEF NewAssignment
<1>3. Kept(asg, asg')
  BY <1>1, RootKept
<1>4. asg' = [asg EXCEPT ![a] = row]
  OBVIOUS
<1> HIDE DEF row
<1>5. asg' \in Table /\ asg'[a] = row /\ \A d \in Ids \ {a} : asg'[d] = asg[d]
  BY <1>1, <1>2, <1>4 DEF Table
<1>6. Exists(asg', a) /\ ~IsChild(asg', a) /\ Fits(asg, asg', a)
  BY <1>2, <1>5 DEF Exists, IsChild, Fits, FlatRules
<1>7. Shared(asg') /\ Steady(asg, asg')
  BY <1>1, <1>5, <1>6, TableBirth
<1>8. QED
  BY <1>3, <1>5, <1>6, <1>7

\* A row is born between two callbacks.
LEMMA BudgetBirth ==
    ASSUME TypeOK, WholeInv, BudgetInv, thread = <<>>, NEW a \in Ids, ~Exists(asg, a),
           Shared(asg'), Kept(asg, asg'), Steady(asg, asg'), \A d \in Ids \ {a} : asg'[d] = asg[d],
           scheduled' = scheduled, runs' = runs,
           \/ thread' = <<>>
           \/ thread' = <<ScheduleStep({a})>> /\ ~IsChild(asg', a)
    PROVE  BudgetInv'
<1>1. /\ thread' \in Seq(Fine(asg')) /\ thread' \in Seq(Rest(asg'))
      /\ \A d \in Ids \ {a} : thread' \in Seq(Silent(d))
  <2>1. CASE thread' = <<>>
    BY <2>1
  <2>2. CASE thread' = <<ScheduleStep({a})>> /\ ~IsChild(asg', a)
    <3>1. {a} \in SUBSET Ids /\ \A d \in {a} : IsChild(asg', d) => Sound(asg', d)
      BY <2>2
    <3>2. /\ ScheduleStep({a}) \in Fine(asg') /\ ScheduleStep({a}) \in Rest(asg')
          /\ \A d \in Ids \ {a} : ScheduleStep({a}) \in Silent(d)
      BY <3>1, ScheduleFine
    <3> DEFINE s == ScheduleStep({a})
    <3>3. s \in Fine(asg') /\ s \in Rest(asg') /\ \A d \in Ids \ {a} : s \in Silent(d)
      BY <3>2
    <3>4. thread' = <<s>>
      BY <2>2
    <3> HIDE DEF s
    <3>5. <<s>> \in Seq(Fine(asg')) /\ <<s>> \in Seq(Rest(asg')) /\ \A d \in Ids \ {a} : <<s>> \in Seq(Silent(d))
      BY <3>3
    <3>6. QED
      BY <3>4, <3>5
  <2>3. QED
    BY <2>1, <2>2
<1>2. Leading(asg', scheduled', thread')
  BY <1>1, RestLeads
<1>3. ASSUME NEW r \in runs, IsChild(asg', r.id)
      PROVE  asg'[r.id].life = "active" /\ r.id \notin scheduled' /\ thread' \in Seq(Silent(r.id))
  <2>1. Working(asg, scheduled, thread, r.id)
    BY <1>3, OthersGoOn
  <2>2. r.id \in Ids \ {a}
    BY RunType DEF WholeInv, KnownRun
  <2>3. QED
    BY <1>1, <2>1, <2>2 DEF Working
<1>4. ASSUME NEW d \in scheduled', IsChild(asg', d) PROVE d \in scheduled /\ asg'[d].life \notin Stopped
  <2>1. d \in scheduled /\ d \in Ids \ {a} /\ Exists(asg, d)
    BY <1>4 DEF TypeOK, WholeInv, Existing
  <2>2. IsChild(asg, d) /\ Sound(asg, d)
    BY <1>4, <2>1, KinKept DEF BudgetInv, Promised
  <2>3. QED
    BY <2>1, <2>2 DEF Sound
<1>5. QED
  BY <1>1, <1>2, <1>3, <1>4, BudgetBy

LEMMA BudgetOperator ==
    ASSUME FlatRules, TypeOK, WholeInv, BudgetInv, OperatorRequest
    PROVE  BudgetInv'
<1>1. CASE \E a \in Roots, policy \in Policies : AdminCreate(a, policy)
  <2>1. PICK a \in Roots, policy \in Policies : AdminCreate(a, policy)
    BY <1>1
  <2>2. /\ a \in Ids /\ ~Exists(asg, a) /\ asg' = [asg EXCEPT ![a] = NewAssignment(policy)]
        /\ thread = <<>> /\ thread' = <<>> /\ scheduled' = scheduled /\ runs' = runs
    BY <2>1, PlannerAssumption DEF AdminCreate, Operates, Idle
  <2>3. /\ Shared(asg') /\ Steady(asg, asg') /\ Kept(asg, asg')
        /\ \A d \in Ids \ {a} : asg'[d] = asg[d]
    BY <2>2, RootBirth
  <2>4. QED
    BY <2>2, <2>3, BudgetBirth
<1>2. CASE \E p \in Ids, c \in Ids, policy \in Policies : AdminPromote(p, c, policy)
  <2>1. PICK p \in Ids, c \in Ids, policy \in Policies : AdminPromote(p, c, policy)
    BY <1>2
  <2>2. /\ Exists(asg, p) /\ CanPromote(asg, p) /\ c \in FreshChildren
        /\ asg' = Promote(asg, p, c, FALSE, {}, "all", policy) /\ policy \in Policy
        /\ thread = <<>> /\ thread' = <<>> /\ scheduled' = scheduled /\ runs' = runs
    BY <2>1, PlannerAssumption DEF AdminPromote, Operates, Idle
  <2>3. /\ Shared(asg') /\ Steady(asg, asg') /\ Kept(asg, asg') /\ ~Exists(asg, c)
        /\ \A d \in Ids \ {c} : asg'[d] = asg[d]
    <3>1. {} \in SUBSET Children(asg, p) /\ FALSE \in BOOLEAN /\ "all" \in {"all", "any"}
      OBVIOUS
    <3>2. QED
      BY <2>2, <3>1, ChildBirth
  <2>4. QED
    BY <2>2, <2>3, BudgetBirth
<1>3. ASSUME NEW a \in Ids, NEW action \in AllOperatorActions, ControlRequest(a, action) PROVE FALSE
  BY <1>3 DEF ControlRequest, Controls, Operates, FlatRules
<1>4. ASSUME NEW a \in Ids, NEW policy \in Policies, ChangePolicy(a, policy) PROVE FALSE
  BY <1>4 DEF ChangePolicy, Controls, Operates, FlatRules
<1>5. QED
  BY <1>1, <1>2, <1>3, <1>4 DEF OperatorRequest

LEMMA BudgetIntake ==
    ASSUME FlatRules, TypeOK, WholeInv, BudgetInv, NEW a \in Roots, NEW policy \in Policies, Intake(a, policy)
    PROVE  BudgetInv'
<1>1. /\ a \in Ids /\ ~Exists(asg, a) /\ asg' = [asg EXCEPT ![a] = NewAssignment(policy)]
      /\ thread = <<>> /\ thread' = <<ScheduleStep({a})>> /\ scheduled' = scheduled /\ runs' = runs
  BY PlannerAssumption DEF Intake, Idle
<1>2. /\ Shared(asg') /\ Steady(asg, asg') /\ Kept(asg, asg') /\ ~IsChild(asg', a)
      /\ \A d \in Ids \ {a} : asg'[d] = asg[d]
  BY <1>1, RootBirth
<1>3. QED
  BY <1>1, <1>2, BudgetBirth

LEMMA BudgetStep ==
    ASSUME FlatRules, TypeOK, WholeInv, FlightInv, BudgetInv, [Next]_vars
    PROVE  BudgetInv'
<1>1. CASE UNCHANGED vars
  BY <1>1 DEF vars, BudgetInv
<1>2. CASE CrashAndRestart
  <2>1. asg' = asg /\ scheduled' = scheduled /\ runs' = {} /\ thread' = <<>>
    BY <1>2 DEF CrashAndRestart
  <2>2. thread' \in Seq(Fine(asg')) /\ Leading(asg', scheduled', thread')
    BY <2>1 DEF Leading
  <2>3. QED
    BY <2>1, <2>2 DEF BudgetInv, Promised
<1>3. QED
  BY <1>1, <1>2, BudgetIntake, BudgetOperator, BudgetFire, BudgetRun, BudgetThread DEF Next

\* What an earlier process has left: children within the budget of their parents and
\* without children of their own, the lost ones blocked, and those that are to be woken
\* not held up by their siblings.
SharedTables ==
    \A table \in InitialTables :
        /\ Shared(table)
        /\ \A c \in Ids :
              /\ IsChild(table, c)
              /\ \/ table[c].life = "active"
                 \/ table[c].life = "waiting" /\ table[c].wait \in {"child", "other"}
              => Sound(table, c)

LEMMA BudgetInit ==
    ASSUME SharedTables, Init
    PROVE  BudgetInv
<1>1. /\ asg \in InitialTables /\ runs = {} /\ thread = <<>>
      /\ scheduled = {a \in Ids : asg[a].life = "active" \/ AwaitsWakeup(a)}
  BY DEF Init
<1>2. Shared(asg)
  BY <1>1 DEF SharedTables
<1>3. \A c \in scheduled : IsChild(asg, c) => Sound(asg, c)
  BY <1>1 DEF SharedTables, AwaitsWakeup
<1>4. thread \in Seq(Fine(asg)) /\ Leading(asg, scheduled, thread)
  BY <1>1 DEF Leading
<1>5. QED
  BY <1>1, <1>2, <1>3, <1>4 DEF BudgetInv, Promised

\* ChildrenWithinBudget: what the children of an assignment hold and what it has used
\* itself stays within its wakeups, while children are promoted, wait for each other, end,
\* block and are woken, and through crashes (promoteChild, startWakeup and
\* resolveChildDependencies, service.ts): nothing that takes a share of the budget does so
\* without asking.  For operators who only create and promote, policies nobody changes,
\* and children without children of their own, since a child that is cancelled while its
\* wakeup is awaited, a lowered budget and a blocked child with children take a share back
\* unasked.
THEOREM ChildrenWithinBudgetAlways ==
    ASSUME WholeTables, SharedTables, FlatRules
    PROVE  Spec => []ChildrenWithinBudget
<1>1. Init => WholeInv /\ FlightInv /\ BudgetInv
  BY WholeInit, InitFlight, BudgetInit
<1>2. TypeOK /\ WholeInv /\ FlightInv /\ BudgetInv /\ [Next]_vars => WholeInv' /\ FlightInv' /\ BudgetInv'
  BY WholeStep, NextFlight, BudgetStep
<1>3. BudgetInv => ChildrenWithinBudget
  BY DEF BudgetInv, Promised, Shared, Within, ChildrenWithinBudget
<1>4. QED
  BY <1>1, <1>2, <1>3, TypeCorrect, PTL DEF Spec

-----------------------------------------------------------------------------
(* Nobody is forgotten: who has earned a wakeup, and who owes it *)

\* Its siblings do not hold it up; since they stay completed, not any more.
Free(table, c) == StateIn(table, c) = "satisfied"

\* Only who was free has been at work, paused, or put off to a later wakeup: who lost
\* its siblings had nothing to wait for but them, so nothing but that is given back.
Earned(table) ==
    \A c \in Ids :
        Exists(table, c) =>
          /\ table[c].life = "active" \/ RestoresWait(table, c) => Free(table, c)
          /\ DependencyBlocked(table, c) => ~RestoresWait(table, c)
          /\ table[c].parent # c

\* A resolution whose result is dropped.
Drops(s) == s.step = "resolve" /\ s.cause = None

\* What a step may rely on; a resolution that drops its result finds nobody to activate.
Apt(table) ==
    {s \in Step :
        /\ s.step \in {"decide", "planner"} => ~IsTerminal(table, s.id)
        /\ s.step = "planner" => Free(table, s.id)
        /\ s.step = "decide" /\ s.decision \in {"child", "other"} => Free(table, s.id)
        /\ s.step = "decide" /\ s.decision = "deps" => StateIn(table, s.id) = "waiting"
        /\ s.step = "decide" /\ s.decision = "depBlocked" => ~RestoresWait(table, s.id)
        /\ Drops(s) => \A c \in Children(table, s.parent) : Agrees(table, c)}

\* What may follow a step: one decision in a callback, resolutions still to begin, and
\* one that drops its result neither after an end nor after one for the same children.
Follows(s, u) ==
    /\ u.step # "planner" /\ (s.step \in {"decide", "planner"} => u.step \in {"schedule", "resolve"})
    /\ u.step = "resolve" => u.todo = {}
    /\ u.step = "decide" => u.decision \notin {"deps", "depBlocked"}
    /\ Drops(u) /\ s.step = "resolve" => s.parent # u.parent
    /\ Drops(u) /\ s.step = "decide" => s.decision \in {"deps", "child", "other"}

Ordered(t) == \A i, j \in 1..Len(t) : i < j => Follows(t[i], t[j])

\* In a pass nobody has completed since it began; and in one whose result is dropped
\* nobody was lost since, and whom it takes for lost is blocked already.
Steadied(table, s) ==
    s.step = "resolve" /\ s.todo # {} =>
        /\ \A c \in Ids : s.before[c] = "completed" <=> table[c].life = "completed"
        /\ s.cause = None =>
             /\ \A c \in Ids : table[c].life \in Lost => s.before[c] \in Lost
             /\ \A c \in s.todo : DependencyStateOf(table, s.before, c) = "blocked" =>
                                    table[c].life \in Stopped

Has(t, S) == \E i \in 1..Len(t) : t[i] \in S

\* The steps that decide about a, that schedule it, that leave it waiting for a wakeup,
\* and all those that will see to it.
Acting(a) == {s \in Step : s.step \in {"decide", "planner"} /\ s.id = a}
Scheduling(a) == {s \in Step : s.step = "schedule" /\ a \in s.ids}
Postponing(a) == {s \in Step : s.step = "decide" /\ s.id = a /\ s.decision \in {"child", "other"}}
Minding(a) ==
    Acting(a) \cup Scheduling(a)
      \cup {s \in Step : s.step = "resolve" /\ s.cause # None /\ a \in s.activated}

\* Active, or waiting for a wakeup.
Expects(table, a) ==
    table[a].life = "active" \/ (table[a].life = "waiting" /\ table[a].wait \in {"child", "other"})


Minded(table, sched, rs, t) ==
    /\ Earned(table)
    /\ \A r \in rs : Free(table, r.id) /\ ~IsTerminal(table, r.id) /\ ~Has(t, Acting(r.id))
    /\ t \in Seq(Apt(table))
    /\ Ordered(t)
    /\ t # <<>> => Steadied(table, Head(t))
    /\ \A a \in Ids : Expects(table, a) => a \in sched \/ (\E r \in rs : r.id = a) \/ Has(t, Minding(a))
    /\ \A a \in Ids : Has(t, Postponing(a)) => a \in sched \/ Has(t, Scheduling(a))

\* As long as no process has died.
MindedInv == crashed = 0 => Minded(asg, scheduled, runs, thread)

LEMMA HasNone == \A S : ~Has(<<>>, S)
BY DEF Has

LEMMA HasJoined ==
    ASSUME NEW front \in Seq(Step), NEW rest \in Seq(Step), NEW S
    PROVE  Has(front \o rest, S) <=> Has(front, S) \/ Has(rest, S)
<1> DEFINE t == front \o rest
<1>1. Len(t) = Len(front) + Len(rest) /\ Len(front) \in Nat /\ Len(rest) \in Nat
  OBVIOUS
<1>2. \A i \in 1..Len(front) : t[i] = front[i]
  OBVIOUS
<1>3. \A i \in 1..Len(rest) : t[i + Len(front)] = rest[i]
  OBVIOUS
<1> HIDE DEF t
<1>4. ASSUME NEW i \in 1..Len(front), front[i] \in S PROVE Has(t, S)
  BY <1>1, <1>2, <1>4 DEF Has
<1>5. ASSUME NEW i \in 1..Len(rest), rest[i] \in S PROVE Has(t, S)
  <2>1. i + Len(front) \in 1..Len(t) /\ t[i + Len(front)] \in S
    BY <1>1, <1>3, <1>5
  <2>2. QED
    BY <2>1 DEF Has
<1>6. ASSUME NEW i \in 1..Len(t), t[i] \in S PROVE Has(front, S) \/ Has(rest, S)
  <2>1. CASE i <= Len(front)
    <3>1. i \in 1..Len(front) /\ front[i] \in S
      BY <1>1, <1>2, <1>6, <2>1
    <3>2. QED
      BY <3>1 DEF Has
  <2>2. CASE ~(i <= Len(front))
    <3>1. i - Len(front) \in 1..Len(rest) /\ (i - Len(front)) + Len(front) = i
      BY <1>1, <2>2
    <3>2. rest[i - Len(front)] \in S
      BY <1>3, <1>6, <3>1
    <3>3. QED
      BY <3>1, <3>2 DEF Has
  <2>3. QED
    BY <2>1, <2>2
<1>7. Has(t, S) <=> Has(front, S) \/ Has(rest, S)
  BY <1>4, <1>5, <1>6 DEF Has
<1>8. QED
  BY <1>7 DEF t

LEMMA HasFirst ==
    ASSUME NEW s \in Step, NEW rest \in Seq(Step), NEW S
    PROVE  /\ Has(<<s>>, S) <=> s \in S
           /\ Has(<<s>> \o rest, S) <=> s \in S \/ Has(rest, S)
<1>1. <<s>> \in Seq(Step) /\ Len(<<s>>) = 1 /\ <<s>>[1] = s
  OBVIOUS
<1>2. Has(<<s>>, S) <=> s \in S
  BY <1>1 DEF Has
<1>3. QED
  BY <1>1, <1>2, HasJoined

LEMMA HasHead ==
    ASSUME NEW t \in Seq(Step), t # <<>>, NEW S
    PROVE  Has(t, S) <=> Head(t) \in S \/ Has(Tail(t), S)
<1>1. Head(t) \in Step /\ Tail(t) \in Seq(Step) /\ t = <<Head(t)>> \o Tail(t)
  OBVIOUS
<1>2. QED
  BY <1>1, HasFirst

\* The steps that may come after s.
After(s) == {u \in Step : Follows(s, u)}

LEMMA OrderedFirst ==
    ASSUME NEW s \in Step, NEW rest \in Seq(Step), Ordered(rest), rest \in Seq(After(s))
    PROVE  Ordered(<<s>> \o rest)
<1> DEFINE t == <<s>> \o rest
<1>1. Len(t) = Len(rest) + 1 /\ Len(rest) \in Nat /\ t[1] = s
  OBVIOUS
<1>2. \A i \in 1..Len(rest) : t[i + 1] = rest[i]
  OBVIOUS
<1>3. \A i \in 1..Len(rest) : Follows(s, rest[i])
  BY DEF After
<1> HIDE DEF t
<1>4. ASSUME NEW i \in 1..Len(t), NEW j \in 1..Len(t), i < j PROVE Follows(t[i], t[j])
  <2>1. j - 1 \in 1..Len(rest) /\ (j - 1) + 1 = j
    BY <1>1, <1>4
  <2>2. t[j] = rest[j - 1]
    BY <1>2, <2>1
  <2>3. CASE i = 1
    BY <1>1, <1>3, <2>1, <2>2, <2>3
  <2>4. CASE i # 1
    <3>1. i - 1 \in 1..Len(rest) /\ (i - 1) + 1 = i /\ i - 1 < j - 1
      BY <1>1, <1>4, <2>4
    <3>2. t[i] = rest[i - 1]
      BY <1>2, <3>1
    <3>3. QED
      BY <2>1, <2>2, <3>1, <3>2 DEF Ordered
  <2>5. QED
    BY <2>3, <2>4
<1>5. Ordered(t)
  BY <1>4 DEF Ordered
<1>6. QED
  BY <1>5 DEF t

LEMMA OrderedTail ==
    ASSUME NEW t \in Seq(Step), t # <<>>, Ordered(t)
    PROVE  Ordered(Tail(t)) /\ Tail(t) \in Seq(After(Head(t)))
<1> DEFINE u == Tail(t)
<1>1. Len(t) \in Nat \ {0} /\ Len(u) = Len(t) - 1 /\ u \in Seq(Step)
  OBVIOUS
<1>2. \A i \in 1..Len(u) : u[i] = t[i + 1]
  OBVIOUS
<1>3. Head(t) = t[1]
  OBVIOUS
<1> HIDE DEF u
<1>4. ASSUME NEW i \in 1..Len(u), NEW j \in 1..Len(u), i < j PROVE Follows(u[i], u[j])
  <2>1. i + 1 \in 1..Len(t) /\ j + 1 \in 1..Len(t) /\ i + 1 < j + 1
    BY <1>1, <1>4
  <2>2. QED
    BY <1>2, <2>1 DEF Ordered
<1>5. ASSUME NEW j \in 1..Len(u) PROVE u[j] \in After(t[1])
  <2>1. 1 \in 1..Len(t) /\ j + 1 \in 1..Len(t) /\ 1 < j + 1
    BY <1>1
  <2>2. Follows(t[1], t[j + 1]) /\ u[j] = t[j + 1] /\ u[j] \in Step
    BY <1>1, <1>2, <2>1 DEF Ordered
  <2>3. QED
    BY <2>2 DEF After
<1>6. Ordered(u)
  BY <1>4 DEF Ordered
<1>7. u \in Seq(After(t[1]))
  BY <1>1, <1>5
<1>8. QED
  BY <1>3, <1>6, <1>7 DEF u

LEMMA OrderedNone == Ordered(<<>>) /\ \A s : <<>> \in Seq(After(s))
BY DEF Ordered

\* The same steps, in a callback that goes on.
LEMMA StepsIn ==
    ASSUME NEW A, NEW B, NEW C, NEW t, t \in Seq(A), t \in Seq(B), NEW D, A \cap B \subseteq D
    PROVE  t \in Seq(D)
OBVIOUS

-----------------------------------------------------------------------------
(* Tables in which nobody is given back what it has not earned *)

Completes(table, next) == \A c \in Ids : table[c].life = "completed" => next[c].life = "completed"

LEMMA SatisfiedAfter ==
    ASSUME NEW life, NEW other, NEW deps, NEW mode \in {"all", "any"},
           \A d \in deps : life[d] = "completed" => other[d] = "completed",
           DependencyState(life, deps, mode) = "satisfied"
    PROVE  DependencyState(other, deps, mode) = "satisfied"
<1> DEFINE B == {life[d] : d \in deps}
           N == {other[d] : d \in deps}
<1>1. Satisfies(B, deps, mode)
  BY StateCases
<1>2. ("completed" \in B => "completed" \in N) /\ (B = {"completed"} => N = {"completed"})
  OBVIOUS
<1>3. Satisfies(N, deps, mode)
  BY <1>1, <1>2 DEF Satisfies
<1>4. QED
  BY <1>3, StateCases

LEMMA FreeStays ==
    ASSUME NEW table \in Table, Whole(table), NEW next, Kept(table, next), Completes(table, next),
           NEW c \in Ids, Exists(table, c), Free(table, c)
    PROVE  Free(next, c)
<1> DEFINE life == Lives(table)
           other == Lives(next)
<1>1. table[c].mode \in {"all", "any"} /\ table[c].deps \subseteq Ids
  BY ChildDeps
<1>2. next[c].deps = table[c].deps /\ next[c].mode = table[c].mode
  BY DEF Kept
<1>3. \A d \in table[c].deps : life[d] = "completed" => other[d] = "completed"
  BY <1>1 DEF Lives, Completes
<1>4. DependencyState(life, table[c].deps, table[c].mode) = "satisfied"
  BY DEF Free, StateIn, DependencyStateOf
<1> HIDE DEF life, other
<1>5. DependencyState(other, table[c].deps, table[c].mode) = "satisfied"
  BY <1>1, <1>3, <1>4, SatisfiedAfter
<1>6. QED
  BY <1>2, <1>5 DEF Free, StateIn, DependencyStateOf, other

\* Writing one row: the others keep what they have earned.
LEMMA EarnedWrite ==
    ASSUME NEW table \in Table, Whole(table), Earned(table), NEW a \in Ids, Exists(table, a),
           NEW row \in Assignment, SameShape(table[a], row), table[a].life = "completed" => row.life = "completed",
           NEW next, next = [table EXCEPT ![a] = row],
           row.life = "active" \/ row.wait \in {"child", "other", "paused"} => Free(table, a),
           row.life = "blocked" /\ row.depBlocked => row.wait \notin {"child", "other", "paused"}
    PROVE  Earned(next) /\ Completes(table, next) /\ Kept(table, next)
<1>1. next[a] = row /\ \A d \in Ids \ {a} : next[d] = table[d]
  BY DEF Table
<1>2. Kept(table, next)
  BY WriteKept
<1>3. Completes(table, next)
  BY <1>1 DEF Completes
<1>4. ASSUME NEW c \in Ids, Exists(next, c)
      PROVE  /\ next[c].life = "active" \/ RestoresWait(next, c) => Free(next, c)
             /\ DependencyBlocked(next, c) => ~RestoresWait(next, c)
             /\ next[c].parent # c
  <2>1. Exists(table, c)
    BY <1>1, <1>4 DEF Exists
  <2>2. Free(table, c) => Free(next, c)
    BY <1>2, <1>3, <2>1, FreeStays
  <2>3. CASE c = a
    BY <1>1, <2>1, <2>2, <2>3 DEF RestoresWait, DependencyBlocked, SameShape, Earned
  <2>4. CASE c # a
    BY <1>1, <2>1, <2>2, <2>4 DEF RestoresWait, DependencyBlocked, Earned
  <2>5. QED
    BY <2>3, <2>4
<1>5. QED
  BY <1>2, <1>3, <1>4 DEF Earned

-----------------------------------------------------------------------------
(* The callbacks that mind an assignment *)

\* Resolutions that have not begun.
Unbegun(p, by) == {s \in Step : s.step = "resolve" /\ s.parent = p /\ s.cause = by /\ s.todo = {}}

LEMMA HasNot ==
    ASSUME NEW A, NEW t, t \in Seq(A), NEW S, A \cap S = {}
    PROVE  ~Has(t, S)
BY DEF Has

LEMMA UnbegunResolutions ==
    ASSUME NEW p \in Ids \cup {None}, NEW by \in Ids \cup {None}
    PROVE  /\ Refresh(p) \in Seq(Unbegun(p, None)) /\ Ordered(Refresh(p))
           /\ Continue(p, by) \in Seq(Unbegun(p, by)) /\ Ordered(Continue(p, by))
<1>1. CASE p = None
  BY <1>1, OrderedNone DEF Refresh, Continue
<1>2. CASE p # None
  <2>1. ASSUME NEW x \in Ids \cup {None}
        PROVE  <<ResolveStep(p, x)>> \in Seq(Unbegun(p, x)) /\ Ordered(<<ResolveStep(p, x)>>)
    <3> DEFINE s == ResolveStep(p, x)
    <3>1. s \in Step
      BY <1>2, ResolveStepType DEF FreshStep
    <3>2. s \in Unbegun(p, x)
      BY <3>1 DEF ResolveStep, Unbegun
    <3> HIDE DEF s
    <3>3. <<s>> \in Seq(Unbegun(p, x)) /\ Ordered(<<s>>)
      BY <3>2 DEF Ordered
    <3>4. QED
      BY <3>3 DEF s
  <2>2. QED
    BY <1>2, <2>1 DEF Refresh, Continue
<1>3. QED
  BY <1>1, <1>2

LEMMA UnbegunSteps ==
    ASSUME NEW p, NEW by, NEW s \in Unbegun(p, by)
    PROVE  /\ s \in Step /\ (by # None => ~Drops(s))
           /\ \A table : by # None \/ (\A c \in Children(table, p) : Agrees(table, c)) => s \in Apt(table)
           /\ \A table : Steadied(table, s)
           /\ \A a : s \notin Acting(a) /\ s \notin Postponing(a) /\ s \notin Scheduling(a)
BY DEF Unbegun, Drops, Apt, Steadied, Acting, Postponing, Scheduling

\* A callback under way for assignment a, and for nobody else.
Begun(table, t, a) ==
    /\ t \in Seq(Apt(table)) /\ Ordered(t) /\ (t # <<>> => Steadied(table, Head(t)))
    /\ Has(t, Minding(a))
    /\ \A b \in Ids : b # a => ~Has(t, Acting(b))
    /\ \A b \in Ids : Has(t, Postponing(b)) => Has(t, Scheduling(b))

\* What may come after a step of schedule, with resolutions for parents of P only.
Later(P) ==
    {s \in Step : /\ s.step # "planner"
                  /\ s.step = "resolve" => s.todo = {} /\ s.parent \in P
                  /\ s.step = "decide" => s.decision \notin {"deps", "depBlocked"}}

\* The steps of t are s and then those of rest.
Starts(t, s, rest) == t = <<s>> \o rest

\* When a decision may be left to a callback, with the resolution by that follows.
Decidable(table, a, d, p, by) ==
    /\ a \in Ids /\ ~IsTerminal(table, a) /\ d \in Decisions
    /\ d \in {"child", "other"} => Free(table, a)
    /\ d = "deps" => StateIn(table, a) = "waiting"
    /\ d = "depBlocked" => ~RestoresWait(table, a)
    /\ by = None => /\ d \in {"deps", "child", "other"}
                    /\ \A c \in Children(table, p) : Agrees(table, c)

\* The same with resolutions for the children of p only.
LaterFor(p) == Later({p})

\* A decision, and the resolution of the siblings.
LEMMA DecisionBegun ==
    ASSUME NEW table, NEW a, NEW d, NEW p, NEW by, Decidable(table, a, d, p, by),
           NEW rest \in Seq(Unbegun(p, by)), Ordered(rest),
           NEW t, Starts(t, DecideStep(a, d), rest)
    PROVE  /\ t \in Seq(Step) /\ t \in Seq(Apt(table)) /\ Ordered(t) /\ t # <<>> /\ Steadied(table, Head(t))
           /\ Has(t, Minding(a)) /\ (\A b \in Ids : b # a => ~Has(t, Acting(b)))
           /\ \A b \in Ids : Has(t, Postponing(b)) => b = a /\ d \in {"child", "other"}
           /\ d \notin {"deps", "depBlocked"} => t \in Seq(LaterFor(p))
<1> DEFINE s == DecideStep(a, d)
<1>1. s \in Step /\ s.step = "decide" /\ s.id = a /\ s.decision = d
  BY StepTypes DEF FreshStep, DecideStep, Decidable
<1> HIDE DEF s
<1>2. s \in Apt(table)
  BY <1>1 DEF Apt, Drops, Decidable
<1>3. \A u \in Unbegun(p, by) : /\ u \in Step /\ u \in Apt(table)
                                /\ \A b : u \notin Acting(b) /\ u \notin Postponing(b)
  BY UnbegunSteps DEF Decidable
<1>4. ASSUME NEW u \in Unbegun(p, by) PROVE u \in After(s)
  BY <1>1 DEF Unbegun, After, Follows, Drops, Decidable
<1>5. rest \in Seq(Step) /\ rest \in Seq(Apt(table)) /\ rest \in Seq(After(s))
  BY <1>3, <1>4
<1>6. \A b : ~Has(rest, Acting(b)) /\ ~Has(rest, Postponing(b))
  BY <1>3, HasNot
<1>10. t = <<s>> \o rest
  BY DEF s, Starts
<1>7. Has(t, Minding(a)) /\ (\A b \in Ids : b # a => ~Has(t, Acting(b)))
  <2>1. s \in Minding(a)
    BY <1>1 DEF Minding, Acting
  <2>2. \A b \in Ids : b # a => s \notin Acting(b)
    BY <1>1 DEF Acting
  <2>3. QED
    BY <1>1, <1>5, <1>6, <1>10, <2>1, <2>2, HasFirst
<1>8. ASSUME NEW b \in Ids, Has(t, Postponing(b)) PROVE b = a /\ d \in {"child", "other"}
  <2>1. s \in Postponing(b)
    BY <1>1, <1>5, <1>6, <1>8, <1>10, HasFirst
  <2>2. QED
    BY <1>1, <2>1 DEF Postponing
<1>9. Ordered(t)
  BY <1>1, <1>5, <1>10, OrderedFirst
<1>11. t \in Seq(Step) /\ t \in Seq(Apt(table)) /\ t # <<>> /\ Head(t) = s
  BY <1>1, <1>2, <1>5, <1>10
<1>12. Steadied(table, Head(t))
  BY <1>1, <1>11 DEF Steadied
<1>13. ASSUME d \notin {"deps", "depBlocked"} PROVE t \in Seq(LaterFor(p))
  <2>1. s \in LaterFor(p) /\ Unbegun(p, by) \subseteq LaterFor(p)
    BY <1>1, <1>13 DEF LaterFor, Later, Unbegun
  <2>2. QED
    BY <1>10, <2>1
<1>14. QED
  BY <1>7, <1>8, <1>9, <1>11, <1>12, <1>13

\* A step of schedule before a callback changes nothing of that.
LEMMA ScheduleBefore ==
    ASSUME NEW table, NEW S \in SUBSET Ids, NEW rest \in Seq(Step), Ordered(rest),
           NEW P, rest \in Seq(Later(P)), NEW t, Starts(t, ScheduleStep(S), rest)
    PROVE  /\ t \in Seq(Step) /\ t # <<>> /\ Ordered(t) /\ Steadied(table, Head(t)) /\ t \in Seq(Later(P))
           /\ rest \in Seq(Apt(table)) => t \in Seq(Apt(table))
           /\ \A b : Has(t, Acting(b)) => Has(rest, Acting(b))
           /\ \A b : Has(t, Postponing(b)) => Has(rest, Postponing(b))
           /\ \A b : Has(rest, Scheduling(b)) \/ b \in S => Has(t, Scheduling(b))
           /\ \A b : Has(rest, Minding(b)) \/ b \in S => Has(t, Minding(b))
<1> DEFINE s == ScheduleStep(S)
<1>1. s \in Step /\ s.step = "schedule" /\ s.ids = S
  BY DEF ScheduleStep, Step
<1> HIDE DEF s
<1>2. s \in Apt(table) /\ s \in Later(P) /\ Steadied(table, s)
  BY <1>1 DEF Apt, Later, Drops, Steadied
<1>3. \A b : s \notin Acting(b) /\ s \notin Postponing(b) /\ (b \in S => s \in Scheduling(b) /\ s \in Minding(b))
  BY <1>1 DEF Acting, Postponing, Scheduling, Minding
<1>4. Later(P) \subseteq After(s)
  BY <1>1 DEF Later, After, Follows
<1>5. t = <<s>> \o rest
  BY DEF s, Starts
<1>6. rest \in Seq(After(s))
  BY <1>4
<1>7. t \in Seq(Step) /\ t # <<>> /\ Head(t) = s /\ t \in Seq(Later(P))
  BY <1>1, <1>2, <1>5
<1>8. rest \in Seq(Apt(table)) => t \in Seq(Apt(table))
  BY <1>2, <1>5
<1>9. \A X : Has(t, X) <=> s \in X \/ Has(rest, X)
  BY <1>1, <1>5, HasFirst
<1>10. QED
  BY <1>1, <1>2, <1>3, <1>5, <1>6, <1>7, <1>8, <1>9, OrderedFirst

\* Nor does a resolution that begins before it.
LEMMA ResolveBefore ==
    ASSUME NEW table, NEW q \in Ids, NEW by \in Ids \cup {None},
           by # None \/ (\A c \in Children(table, q) : Agrees(table, c)),
           NEW rest \in Seq(Step), Ordered(rest), NEW P, rest \in Seq(Later(P)),
           rest \in Seq({u \in Step : Drops(u) => u.parent # q}),
           NEW t, Starts(t, ResolveStep(q, by), rest)
    PROVE  /\ t \in Seq(Step) /\ t # <<>> /\ Ordered(t) /\ Steadied(table, Head(t))
           /\ rest \in Seq(Apt(table)) => t \in Seq(Apt(table))
           /\ \A b : Has(t, Acting(b)) <=> Has(rest, Acting(b))
           /\ \A b : Has(t, Postponing(b)) <=> Has(rest, Postponing(b))
           /\ \A b : Has(t, Scheduling(b)) <=> Has(rest, Scheduling(b))
           /\ \A b : Has(rest, Minding(b)) => Has(t, Minding(b))
<1> DEFINE s == ResolveStep(q, by)
<1>1. s \in Step
  BY ResolveStepType DEF FreshStep
<1>2. s \in Unbegun(q, by)
  BY <1>1 DEF ResolveStep, Unbegun
<1>3. t = <<s>> \o rest
  BY DEF s, Starts
<1> HIDE DEF s
<1>4. s \in Apt(table) /\ Steadied(table, s)
  BY <1>2, UnbegunSteps
<1>5. \A b : s \notin Acting(b) /\ s \notin Postponing(b) /\ s \notin Scheduling(b)
  BY <1>2, UnbegunSteps
<1>6. Later(P) \cap {u \in Step : Drops(u) => u.parent # q} \subseteq After(s)
  BY <1>2 DEF Later, After, Follows, Unbegun
<1>7. rest \in Seq(After(s))
  BY <1>6, StepsIn
<1>8. t \in Seq(Step) /\ t # <<>> /\ Head(t) = s
  BY <1>1, <1>3
<1>9. rest \in Seq(Apt(table)) => t \in Seq(Apt(table))
  BY <1>3, <1>4
<1>10. \A X : Has(t, X) <=> s \in X \/ Has(rest, X)
  BY <1>1, <1>3, HasFirst
<1>11. Ordered(t)
  BY <1>1, <1>3, <1>7, OrderedFirst
<1>12. QED
  BY <1>4, <1>5, <1>8, <1>9, <1>10, <1>11

LEMMA OutcomesBegun ==
    ASSUME asg \in Table, NEW table, NEW a \in Ids, ~IsTerminal(table, a), NEW p, p = asg[a].parent
    PROVE  /\ \A d \in Decisions : d \notin {"deps", "child", "other"} /\ (d = "depBlocked" => ~RestoresWait(table, a)) =>
                 /\ Settle(a, d) \in Seq(Step) /\ Begun(table, Settle(a, d), a)
                 /\ d # "depBlocked" => Settle(a, d) \in Seq(LaterFor(p))
           /\ StateIn(table, a) = "waiting" /\ (\A c \in Children(table, p) : Agrees(table, c)) =>
                 Begun(table, <<DecideStep(a, "deps")>> \o Refresh(p), a)
           /\ Free(table, a) /\ (\A c \in Children(table, p) : Agrees(table, c)) =>
                 /\ \A w \in {"child", "other"} : /\ Park(a, w) \in Seq(Step) /\ Begun(table, Park(a, w), a)
                                                  /\ Park(a, w) \in Seq(LaterFor(p))
                 /\ \A status : /\ Outcome(a, status) \in Seq(Step) /\ Begun(table, Outcome(a, status), a)
                                /\ Outcome(a, status) \in Seq(LaterFor(p))
<1>1. p \in Ids \cup {None}
  BY DEF Table, Assignment
<1>2. /\ Refresh(p) \in Seq(Unbegun(p, None)) /\ Ordered(Refresh(p))
      /\ Continue(p, a) \in Seq(Unbegun(p, a)) /\ Ordered(Continue(p, a))
  BY <1>1, UnbegunResolutions
<1>3. a # None
  BY NoneAssumption
<1>4. ASSUME NEW d \in Decisions, d \notin {"deps", "child", "other"}, d = "depBlocked" => ~RestoresWait(table, a)
      PROVE  /\ Settle(a, d) \in Seq(Step) /\ Begun(table, Settle(a, d), a)
             /\ d # "depBlocked" => Settle(a, d) \in Seq(LaterFor(p))
  <2> DEFINE t == Settle(a, d)
             rest == Continue(p, a)
  <2>1. Starts(t, DecideStep(a, d), rest)
    BY DEF Settle, Starts
  <2> HIDE DEF t, rest
  <2>2. rest \in Seq(Unbegun(p, a)) /\ Ordered(rest)
    BY <1>2 DEF rest
  <2>3. /\ t \in Seq(Step) /\ t \in Seq(Apt(table)) /\ Ordered(t) /\ t # <<>> /\ Steadied(table, Head(t))
        /\ Has(t, Minding(a)) /\ (\A b \in Ids : b # a => ~Has(t, Acting(b)))
        /\ \A b \in Ids : Has(t, Postponing(b)) => b = a /\ d \in {"child", "other"}
        /\ d \notin {"deps", "depBlocked"} => t \in Seq(LaterFor(p))
    <3>1. Decidable(table, a, d, p, a)
      BY <1>3, <1>4 DEF Decidable
    <3>2. QED
      BY <2>1, <2>2, <3>1, DecisionBegun
  <2>4. QED
    BY <1>4, <2>3 DEF Begun, t
<1>5. ASSUME StateIn(table, a) = "waiting", \A c \in Children(table, p) : Agrees(table, c)
      PROVE  Begun(table, <<DecideStep(a, "deps")>> \o Refresh(p), a)
  <2> DEFINE rest == Refresh(p)
             t == <<DecideStep(a, "deps")>> \o rest
  <2>1. "deps" \in Decisions /\ rest \in Seq(Unbegun(p, None)) /\ Ordered(rest)
    BY <1>2 DEF Decisions
  <2> HIDE DEF rest
  <2>2. Starts(t, DecideStep(a, "deps"), rest)
    BY DEF Starts
  <2> HIDE DEF t
  <2>3. /\ t \in Seq(Apt(table)) /\ Ordered(t) /\ t # <<>> /\ Steadied(table, Head(t))
        /\ Has(t, Minding(a)) /\ (\A b \in Ids : b # a => ~Has(t, Acting(b)))
        /\ \A b \in Ids : Has(t, Postponing(b)) => b = a /\ "deps" \in {"child", "other"}
    <3>1. Decidable(table, a, "deps", p, None)
      BY <1>5, <2>1 DEF Decidable
    <3>2. QED
      BY <2>1, <2>2, <3>1, DecisionBegun
  <2>4. Begun(table, t, a)
    BY <2>3 DEF Begun
  <2>5. QED
    BY <2>4 DEF t, rest
<1>6. ASSUME Free(table, a), \A c \in Children(table, p) : Agrees(table, c), NEW w \in {"child", "other"}
      PROVE  Park(a, w) \in Seq(Step) /\ Begun(table, Park(a, w), a) /\ Park(a, w) \in Seq(LaterFor(p))
  <2> DEFINE rest == Refresh(p)
             d == <<DecideStep(a, w)>> \o rest
             t == <<ScheduleStep({a})>> \o d
  <2>1. /\ w \in Decisions /\ rest \in Seq(Unbegun(p, None)) /\ Ordered(rest) /\ rest \in Seq(Step)
        /\ DecideStep(a, w) \in Step /\ ScheduleStep({a}) \in Step
    <3>1. w \in Decisions
      BY DEF Decisions
    <3>2. Unbegun(p, None) \subseteq Step
      BY DEF Unbegun
    <3>3. rest \in Seq(Unbegun(p, None)) /\ Ordered(rest)
      BY <1>2
    <3> HIDE DEF rest
    <3>4. QED
      BY <3>1, <3>2, <3>3, StepTypes DEF FreshStep
  <2>2. Park(a, w) = <<ScheduleStep({a}), DecideStep(a, w)>> \o rest
    BY DEF Park
  <2> HIDE DEF rest
  <2>3. Park(a, w) = t
    BY <2>1, <2>2
  <2>4. Starts(d, DecideStep(a, w), rest) /\ Starts(t, ScheduleStep({a}), d)
    BY DEF Starts
  <2> HIDE DEF d, t
  <2>5. /\ d \in Seq(Step) /\ d \in Seq(Apt(table)) /\ Ordered(d)
        /\ (\A b \in Ids : b # a => ~Has(d, Acting(b)))
        /\ \A b \in Ids : Has(d, Postponing(b)) => b = a
        /\ d \in Seq(LaterFor(p))
    <3>1. Decidable(table, a, w, p, None)
      BY <1>6, <2>1 DEF Decidable
    <3>2. w \notin {"deps", "depBlocked"}
      OBVIOUS
    <3>3. QED
      BY <2>1, <2>4, <3>1, <3>2, DecisionBegun
  <2>6. /\ t \in Seq(Step) /\ t # <<>> /\ Ordered(t) /\ Steadied(table, Head(t)) /\ t \in Seq(LaterFor(p))
        /\ t \in Seq(Apt(table))
        /\ \A b : Has(t, Acting(b)) => Has(d, Acting(b))
        /\ \A b : Has(t, Postponing(b)) => Has(d, Postponing(b))
        /\ Has(t, Scheduling(a)) /\ Has(t, Minding(a))
    <3>1. {a} \in SUBSET Ids /\ a \in {a}
      OBVIOUS
    <3>2. QED
      BY <2>4, <2>5, <3>1, ScheduleBefore DEF LaterFor
  <2>7. QED
    BY <2>3, <2>5, <2>6 DEF Begun
<1>7. ASSUME Free(table, a), \A c \in Children(table, p) : Agrees(table, c), NEW status
      PROVE  /\ Outcome(a, status) \in Seq(Step) /\ Begun(table, Outcome(a, status), a)
             /\ Outcome(a, status) \in Seq(LaterFor(p))
  <2>1. \A d \in {"completed", "blocked", "expired"} : d \in Decisions /\ d \notin {"deps", "depBlocked", "child", "other"}
    BY DEF Decisions
  <2>2. Outcome(a, status) \in {Settle(a, "completed"), Settle(a, "blocked"), Settle(a, "expired"), Park(a, "other")}
    BY DEF Outcome
  <2>3. QED
    BY <1>4, <1>6, <1>7, <2>1, <2>2
<1>8. QED
  BY <1>4, <1>5, <1>6, <1>7

-----------------------------------------------------------------------------
(* Each step keeps them in mind: wakeups and runs *)

\* Between two callbacks every child agrees with its siblings.
LEMMA AllAgree ==
    ASSUME AgreeInv, crashed = 0, thread = <<>>
    PROVE  \A c \in Ids : Exists(asg, c) => Agrees(asg, c)
BY NoneLight DEF AgreeInv

\* What is known of the callback before a step of it.
LEMMA MindedHead ==
    ASSUME TypeOK, WholeInv, Minded(asg, scheduled, runs, thread), thread # <<>>
    PROVE  /\ Head(thread) \in Step /\ Head(thread) \in Apt(asg) /\ KnownStep(asg, Head(thread))
           /\ Tail(thread) \in Seq(Step) /\ Tail(thread) \in Seq(Apt(asg))
           /\ Tail(thread) \in Seq(KnownSteps(asg)) /\ Tail(thread) \in Seq(After(Head(thread)))
           /\ Ordered(Tail(thread)) /\ Steadied(asg, Head(thread))
           /\ \A S : Has(thread, S) <=> Head(thread) \in S \/ Has(Tail(thread), S)
           /\ asg \in Table /\ Whole(asg) /\ Earned(asg)
<1>1. thread \in Seq(Step) /\ thread \in Seq(KnownSteps(asg)) /\ thread \in Seq(Apt(asg))
  BY DEF TypeOK, WholeInv, Minded
<1>2. Head(thread) \in Step /\ Head(thread) \in KnownSteps(asg) /\ Head(thread) \in Apt(asg)
  BY <1>1
<1>3. Tail(thread) \in Seq(Step) /\ Tail(thread) \in Seq(KnownSteps(asg)) /\ Tail(thread) \in Seq(Apt(asg))
  BY <1>1
<1>4. Ordered(Tail(thread)) /\ Tail(thread) \in Seq(After(Head(thread)))
  BY <1>1, OrderedTail DEF Minded
<1>5. \A S : Has(thread, S) <=> Head(thread) \in S \/ Has(Tail(thread), S)
  BY <1>1, HasHead
<1>6. QED
  BY <1>2, <1>3, <1>4, <1>5 DEF KnownSteps, Minded, TypeOK, Table, WholeInv

\* The runs under way go on.
LEMMA RunsGoOn ==
    ASSUME TypeOK, WholeInv, Minded(asg, scheduled, runs, thread),
           Kept(asg, asg'), Completes(asg, asg'), NEW r \in runs
    PROVE  r.id \in Ids /\ Exists(asg, r.id) /\ Free(asg', r.id) /\ ~IsTerminal(asg, r.id)
<1>1. r.id \in Ids /\ Exists(asg, r.id) /\ Free(asg, r.id) /\ ~IsTerminal(asg, r.id)
  BY RunType DEF WholeInv, KnownRun, Minded
<1>2. asg \in Table /\ Whole(asg)
  BY DEF TypeOK, Table, WholeInv
<1>3. QED
  BY <1>1, <1>2, FreeStays

\* A callback for assignment a begins, and whatever it was that a waited for is in it.
LEMMA BegunMinded ==
    ASSUME TypeOK, WholeInv, Minded(asg, scheduled, runs, thread), thread = <<>>,
           Earned(asg'), Kept(asg, asg'), Completes(asg, asg'),
           \A b \in Ids : asg'[b].life = asg[b].life /\ asg'[b].wait = asg[b].wait,
           NEW a \in Ids, scheduled \subseteq scheduled' \cup {a},
           runs' \subseteq runs, \A r \in runs : r.id # a => r \in runs', \A r \in runs' : r.id # a,
           Begun(asg', thread', a)
    PROVE  Minded(asg', scheduled', runs', thread')
<1>1. \A r \in runs' : /\ r.id \in Ids /\ Free(asg', r.id) /\ ~IsTerminal(asg', r.id)
                       /\ ~Has(thread', Acting(r.id))
  BY RunsGoOn DEF Begun, IsTerminal
<1>2. ASSUME NEW b \in Ids, Expects(asg', b)
      PROVE  b \in scheduled' \/ (\E r \in runs' : r.id = b) \/ Has(thread', Minding(b))
  <2>1. CASE b = a
    BY <2>1 DEF Begun
  <2>2. CASE b # a
    <3>1. Expects(asg, b)
      BY <1>2 DEF Expects
    <3>2. b \in scheduled \/ (\E r \in runs : r.id = b)
      BY <3>1, HasNone DEF Minded
    <3>3. QED
      BY <2>2, <3>2
  <2>3. QED
    BY <2>1, <2>2
<1>3. QED
  BY <1>1, <1>2 DEF Minded, Begun

LEMMA MindedFire ==
    ASSUME TypeOK, WholeInv, FlightInv, AgreeInv, crashed = 0, Minded(asg, scheduled, runs, thread),
           NEW a \in Ids, FireJob(a)
    PROVE  Minded(asg', scheduled', runs', thread')
<1>1. /\ thread = <<>> /\ holder = None /\ a \in scheduled /\ scheduled' = scheduled \ {a}
      /\ asg \in Table /\ Whole(asg) /\ Exists(asg, a) /\ Earned(asg)
  BY DEF FireJob, SkipWakeup, ExpireIdle, RefuseLostDependency, RefusePendingDependency, RefuseReserved,
         StartWakeup, Wakes, Fires, Idle, TypeOK, Table, WholeInv, Existing, Minded
<1>2. activeWakeups = {r.id : r \in runs}
  BY <1>1 DEF FlightInv, SingleFlight
<1>3. \A c \in Children(asg, asg[a].parent) : Agrees(asg, c)
  BY <1>1, AllAgree DEF Children
<1>4. ASSUME UNCHANGED <<asg, runs>>, ~Overlaps(a), Begun(asg, thread', a)
      PROVE  Minded(asg', scheduled', runs', thread')
  <2>1. \A r \in runs : r.id # a
    BY <1>2, <1>4 DEF Overlaps
  <2>2. Kept(asg, asg') /\ Completes(asg, asg') /\ Earned(asg')
    BY <1>1, <1>4, SameTable DEF Completes
  <2>3. QED
    BY <1>1, <1>4, <2>1, <2>2, BegunMinded
<1>5. CASE SkipWakeup(a)
  <2>1. UNCHANGED <<asg, runs, thread>> /\ Overlaps(a)
    BY <1>5 DEF SkipWakeup
  <2>2. (\E r \in runs : r.id = a) \/ ~Expects(asg, a)
    BY <1>2, <2>1 DEF Overlaps, IsTerminal, Expects, TerminalStates
  <2>3. QED
    BY <1>1, <2>1, <2>2, HasNone DEF Minded
<1>6. ASSUME ~Overlaps(a)
      PROVE  /\ \A d \in {"expired", "depBlocked"} : (d = "depBlocked" => ~RestoresWait(asg, a)) =>
                   Begun(asg, Settle(a, d), a)
             /\ StateIn(asg, a) = "waiting" => Begun(asg, <<DecideStep(a, "deps")>> \o Refresh(asg[a].parent), a)
             /\ StateIn(asg, a) = "satisfied" => Begun(asg, Park(a, "child"), a)
  <2>1. ~IsTerminal(asg, a)
    BY <1>6 DEF Overlaps
  <2>2. {"expired", "depBlocked"} \subseteq Decisions
    BY DEF Decisions
  <2> DEFINE p == asg[a].parent
  <2>3. p = asg[a].parent
    OBVIOUS
  <2> HIDE DEF p
  <2>4. /\ \A d \in Decisions : d \notin {"deps", "child", "other"} /\ (d = "depBlocked" => ~RestoresWait(asg, a)) =>
              Begun(asg, Settle(a, d), a)
        /\ StateIn(asg, a) = "waiting" => Begun(asg, <<DecideStep(a, "deps")>> \o Refresh(p), a)
        /\ Free(asg, a) => Begun(asg, Park(a, "child"), a)
    BY <1>1, <1>3, <2>1, <2>3, OutcomesBegun
  <2>5. QED
    BY <2>2, <2>4 DEF Free, p
<1>7. CASE ExpireIdle(a)
  BY <1>4, <1>6, <1>7 DEF ExpireIdle
<1>8. CASE RefuseLostDependency(a)
  <2>1. StateIn(asg, a) = "blocked"
    BY <1>8 DEF RefuseLostDependency, DependencyNow, StateIn
  <2>2. ~RestoresWait(asg, a)
    BY <1>1, <2>1 DEF Earned, Free
  <2>3. QED
    BY <1>4, <1>6, <1>8, <2>2 DEF RefuseLostDependency, Wakes
<1>9. CASE RefusePendingDependency(a)
  <2>1. StateIn(asg, a) = "waiting"
    BY <1>9 DEF RefusePendingDependency, DependencyNow, StateIn
  <2>2. QED
    BY <1>4, <1>6, <1>9, <2>1 DEF RefusePendingDependency, Wakes
<1>10. CASE RefuseReserved(a)
  <2>1. StateIn(asg, a) = "satisfied"
    BY <1>10 DEF RefuseReserved, DependencyNow, StateIn
  <2>2. QED
    BY <1>4, <1>6, <1>10, <2>1 DEF RefuseReserved, Wakes
<1>11. CASE StartWakeup(a)
  <2> DEFINE row == Woken(asg[a])
  <2>1. row \in Assignment /\ SameShape(asg[a], row) /\ row.life = "active"
    <3>1. asg[a] \in Assignment
      BY <1>1 DEF Table
    <3>2. QED
      BY <3>1, WokenType, WokenShape DEF Woken, Assignment
  <2>2. asg' = [asg EXCEPT ![a] = row]
    BY <1>11 DEF StartWakeup
  <2>3. Free(asg, a) /\ ~IsTerminal(asg, a) /\ thread' = <<>>
    <3>1. DependencyNow(a) = "satisfied" /\ ~Overlaps(a) /\ thread' = thread
      BY <1>11 DEF StartWakeup, Wakes
    <3>2. QED
      BY <1>1, <3>1 DEF Overlaps, DependencyNow, Free, StateIn
  <2> DEFINE new == [id |-> a, wakeup |-> asg[a].wakeups + 1, marker |-> NoMarker]
  <2>4. runs' = runs \cup {new} /\ new.id = a
    BY <1>11 DEF StartWakeup
  <2> HIDE DEF row, new
  <2>5. Earned(asg') /\ Completes(asg, asg') /\ Kept(asg, asg')
    BY <1>1, <2>1, <2>2, <2>3, EarnedWrite DEF IsTerminal, TerminalStates
  <2>6. asg'[a].life = "active" /\ \A b \in Ids \ {a} : asg'[b] = asg[b]
    BY <1>1, <2>1, <2>2 DEF Table
  <2>7. Free(asg', a)
    BY <1>1, <2>3, <2>5, FreeStays
  <2>8. \A r \in runs : r.id \in Ids /\ Free(asg', r.id) /\ ~IsTerminal(asg', r.id)
    <3>1. \A r \in runs : r.id \in Ids /\ Free(asg', r.id) /\ ~IsTerminal(asg, r.id)
      BY <2>5, RunsGoOn
    <3>2. QED
      BY <2>6, <3>1 DEF IsTerminal, TerminalStates
  <2>9. \A r \in runs' : Free(asg', r.id) /\ ~IsTerminal(asg', r.id) /\ ~Has(thread', Acting(r.id))
    BY <2>3, <2>4, <2>6, <2>7, <2>8, HasNone DEF IsTerminal, TerminalStates
  <2>10. \A b \in Ids : Expects(asg', b) => b \in scheduled' \/ (\E r \in runs' : r.id = b)
    <3>1. ASSUME NEW b \in Ids, Expects(asg', b), b # a PROVE b \in scheduled' \/ (\E r \in runs' : r.id = b)
      <4>1. Expects(asg, b)
        BY <2>6, <3>1 DEF Expects
      <4>2. QED
        BY <1>1, <2>4, <3>1, <4>1, HasNone DEF Minded
    <3>2. QED
      BY <2>4, <3>1
  <2>11. thread' \in Seq(Apt(asg')) /\ Ordered(thread')
    BY <2>3, OrderedNone
  <2>12. QED
    BY <2>3, <2>5, <2>9, <2>10, <2>11, HasNone DEF Minded
<1>12. QED
  BY <1>5, <1>7, <1>8, <1>9, <1>10, <1>11 DEF FireJob

\* The wakeups and failures are counted: nothing changes that matters here.
LEMMA TallyMinded ==
    ASSUME TypeOK, WholeInv, Minded(asg, scheduled, runs, thread), NEW a \in Ids, Exists(asg, a),
           asg' = RunSucceeded(a) \/ asg' = RunFailed(a)
    PROVE  /\ Earned(asg') /\ Completes(asg, asg') /\ Kept(asg, asg')
           /\ \A b \in Ids : asg'[b].life = asg[b].life /\ asg'[b].wait = asg[b].wait
<1>1. asg \in Table /\ Whole(asg) /\ Earned(asg) /\ asg[a] \in Assignment
  BY DEF TypeOK, Table, WholeInv, Minded
<1>2. PICK n \in Nat : asg' = [asg EXCEPT ![a] = [asg[a] EXCEPT !.failures = n, !.open = FALSE]]
  <2>1. asg[a].failures + 1 \in Nat /\ 0 \in Nat
    BY <1>1 DEF Assignment
  <2>2. CASE asg' = RunSucceeded(a)
    BY <2>1, <2>2 DEF RunSucceeded
  <2>3. CASE asg' = RunFailed(a)
    <3>1. [asg[a] EXCEPT !.failures = @ + 1, !.open = FALSE]
            = [asg[a] EXCEPT !.failures = asg[a].failures + 1, !.open = FALSE]
      BY <1>1 DEF Assignment
    <3>2. QED
      BY <2>1, <2>3, <3>1 DEF RunFailed
  <2>4. QED
    BY <2>2, <2>3
<1> DEFINE row == [asg[a] EXCEPT !.failures = n, !.open = FALSE]
<1>3. /\ row \in Assignment /\ SameShape(asg[a], row)
      /\ row.life = asg[a].life /\ row.wait = asg[a].wait /\ row.depBlocked = asg[a].depBlocked
  <2>1. asg[a].life # "absent"
    BY DEF Exists
  <2>2. QED
    BY <1>1, <2>1 DEF Assignment, SameShape
<1>4. asg' = [asg EXCEPT ![a] = row]
  BY <1>2
<1> HIDE DEF row
<1>5. row.life = "active" \/ row.wait \in {"child", "other", "paused"} => Free(asg, a)
  BY <1>1, <1>3 DEF Earned, RestoresWait
<1>6. row.life = "blocked" /\ row.depBlocked => row.wait \notin {"child", "other", "paused"}
  BY <1>1, <1>3 DEF Earned, RestoresWait, DependencyBlocked
<1>7. Earned(asg') /\ Completes(asg, asg') /\ Kept(asg, asg')
  BY <1>1, <1>3, <1>4, <1>5, <1>6, EarnedWrite
<1>8. \A b \in Ids : asg'[b].life = asg[b].life /\ asg'[b].wait = asg[b].wait
  BY <1>1, <1>3, <1>4 DEF Table
<1>9. QED
  BY <1>7, <1>8

\* Only the operator's own controls are left that keep what they find: a new assignment
\* of an operator is scheduled by nobody, nor is what a resume, a cancellation or a new
\* policy activates inside control(), nor what is reopened after a failure.
HarmlessRules ==
    /\ OperatorActions \subseteq {"pause", "force_wakeup", "add_context"}
    /\ MutationPolicies = {}

\* The rest of a planner's answer.
LEMMA PlannerBegun ==
    ASSUME NEW table, NEW a \in Ids, ~IsTerminal(table, a), Free(table, a), NEW m \in Marker,
           NEW t, t = <<PlannerStep(a, m)>>
    PROVE  Begun(table, t, a)
<1> DEFINE s == PlannerStep(a, m)
<1>1. s \in Step /\ s.step = "planner" /\ s.id = a
  BY DEF PlannerStep, Step
<1> HIDE DEF s
<1>2. s \in Apt(table) /\ Steadied(table, s)
  BY <1>1 DEF Apt, Drops, Steadied
<1>3. s \in Minding(a) /\ (\A b : b # a => s \notin Acting(b)) /\ \A b : s \notin Postponing(b)
  BY <1>1 DEF Minding, Acting, Postponing
<1>4. t = <<s>>
  BY DEF s
<1>5. \A S : Has(t, S) <=> s \in S
  <2>1. Len(t) = 1 /\ t[1] = s
    BY <1>4
  <2>2. QED
    BY <2>1 DEF Has
<1>6. t \in Seq(Apt(table)) /\ Ordered(t) /\ Head(t) = s
  BY <1>2, <1>4 DEF Ordered
<1>7. QED
  BY <1>2, <1>3, <1>5, <1>6 DEF Begun

LEMMA MindedRun ==
    ASSUME HarmlessRules, TypeOK, WholeInv, FlightInv, AgreeInv, crashed = 0,
           Minded(asg, scheduled, runs, thread), NEW r \in runs, RunEnds(r)
    PROVE  Minded(asg', scheduled', runs', thread')
<1> DEFINE a == r.id
<1>1. /\ thread = <<>> /\ scheduled' = scheduled /\ a \in Ids /\ Exists(asg, a)
      /\ asg \in Table /\ Whole(asg) /\ Earned(asg) /\ Free(asg, a) /\ ~IsTerminal(asg, a)
  BY RunType DEF RunEnds, RunReturns, MutationEnds, RunFails, Idle, TypeOK, Table, WholeInv, KnownRun, Minded
<1>2. \A q \in runs : q.id = a => q = r
  BY DEF FlightInv, SingleFlight
<1>3. \A c \in Ids : Exists(asg, c) => Agrees(asg, c)
  BY <1>1, AllAgree
<1> HIDE DEF a
<1>4. ASSUME runs' = runs \ {r}, Earned(asg'), Kept(asg, asg'), Completes(asg, asg'),
             \A b \in Ids : asg'[b].life = asg[b].life /\ asg'[b].wait = asg[b].wait,
             Begun(asg', thread', a)
      PROVE  Minded(asg', scheduled', runs', thread')
  <2>1. /\ runs' \subseteq runs /\ (\A q \in runs : q.id # a => q \in runs')
        /\ \A q \in runs' : q.id # a
    BY <1>2, <1>4 DEF a
  <2>2. scheduled \subseteq scheduled' \cup {a}
    BY <1>1
  <2>3. QED
    BY <1>1, <1>4, <2>1, <2>2, BegunMinded
<1>5. ASSUME asg' = RunSucceeded(a) \/ asg' = RunFailed(a)
      PROVE  /\ Earned(asg') /\ Completes(asg, asg') /\ Kept(asg, asg')
             /\ \A b \in Ids : asg'[b].life = asg[b].life /\ asg'[b].wait = asg[b].wait
             /\ ~IsTerminal(asg', a) /\ Free(asg', a)
             /\ \A c \in Children(asg', asg[a].parent) : Agrees(asg', c)
  <2>1. /\ Earned(asg') /\ Completes(asg, asg') /\ Kept(asg, asg')
        /\ \A b \in Ids : asg'[b].life = asg[b].life /\ asg'[b].wait = asg[b].wait
    BY <1>1, <1>5, TallyMinded
  <2>2. ~IsTerminal(asg', a)
    BY <1>1, <2>1 DEF IsTerminal
  <2>3. Free(asg', a)
    BY <1>1, <2>1, FreeStays
  <2>4. ASSUME NEW c \in Children(asg', asg[a].parent) PROVE Agrees(asg', c)
    <3>1. c \in Ids /\ Exists(asg, c)
      BY <2>1 DEF Children, Exists
    <3>2. QED
      BY <1>1, <1>3, <1>5, <3>1, AgreeRuns
  <2>5. QED
    BY <2>1, <2>2, <2>3, <2>4
<1>6. CASE \E m \in Markers(r.id) : RunReturns(r, m)
  <2>1. PICK m \in Markers(a) : RunReturns(r, m)
    BY <1>6 DEF a
  <2>2. m \in Marker /\ ~m.mutates
    <3>1. m \in Marker
      BY <1>1, <2>1, MarkersType
    <3>2. m.mutates \in {FALSE, MutationPolicies # {}}
      BY <2>1 DEF Markers
    <3>3. QED
      BY <3>1, <3>2 DEF HarmlessRules
  <2>3. asg' = RunSucceeded(a) /\ runs' = runs \ {r} /\ thread' = <<PlannerStep(a, m)>>
    BY <2>1, <2>2 DEF RunReturns, a
  <2>4. Begun(asg', thread', a)
    BY <1>1, <1>5, <2>2, <2>3, PlannerBegun
  <2>5. QED
    BY <1>4, <1>5, <2>3, <2>4
<1>7. CASE MutationEnds(r)
  <2>1. asg' = asg
    <3>1. asg' = [asg EXCEPT ![a].policy = asg[a].policy]
      BY <1>7 DEF MutationEnds, HarmlessRules, a
    <3>2. [asg[a] EXCEPT !.policy = asg[a].policy] = asg[a]
      BY <1>1 DEF Table, Assignment
    <3>3. QED
      BY <1>1, <3>1, <3>2 DEF Table
  <2>2. runs' = runs \ {r} /\ thread' = <<PlannerStep(a, r.marker)>> /\ r.marker \in Marker
    BY <1>7, RunType DEF MutationEnds, a
  <2>3. Begun(asg', thread', a)
    BY <1>1, <2>1, <2>2, PlannerBegun
  <2>4. Kept(asg, asg') /\ Completes(asg, asg') /\ Earned(asg')
    BY <1>1, <2>1, SameTable DEF Completes
  <2>5. QED
    BY <1>4, <2>1, <2>2, <2>3, <2>4
<1>8. CASE RunFails(r)
  <2>1. asg' = RunFailed(a) /\ runs' = runs \ {r} /\ thread' \in {Settle(a, "failed"), Park(a, "other")}
    BY <1>8 DEF RunFails, a
  <2> DEFINE p == asg[a].parent
  <2>2. p = asg[a].parent
    OBVIOUS
  <2>3. \A c \in Children(asg', p) : Agrees(asg', c)
    BY <1>5, <2>1
  <2> HIDE DEF p
  <2>4. /\ \A d \in Decisions : d \notin {"deps", "child", "other", "depBlocked"} => Begun(asg', Settle(a, d), a)
        /\ \A w \in {"child", "other"} : Begun(asg', Park(a, w), a)
    BY <1>1, <1>5, <2>1, <2>2, <2>3, OutcomesBegun
  <2>5. "failed" \in Decisions
    BY DEF Decisions
  <2>6. Begun(asg', thread', a)
    BY <2>1, <2>4, <2>5
  <2>7. QED
    BY <1>4, <1>5, <2>1, <2>6
<1>9. QED
  BY <1>6, <1>7, <1>8 DEF RunEnds

-----------------------------------------------------------------------------
(* The steps of a callback *)

\* Only the planner's step is left, and who is awaited is somebody else.
LEMMA PlannerAlone ==
    ASSUME TypeOK, WholeInv, LedInv, AgreeInv, crashed = 0, Minded(asg, scheduled, runs, thread),
           thread # <<>>, NEW s, s = Head(thread), s.step = "planner"
    PROVE  /\ s \in Step /\ s.id \in Ids /\ Exists(asg, s.id) /\ ~IsTerminal(asg, s.id) /\ Free(asg, s.id)
           /\ \A S : Has(thread, S) <=> s \in S
           /\ \A r \in runs : r.id # s.id
           /\ \A c \in Ids : Exists(asg, c) => Agrees(asg, c)
           /\ \A b \in Ids : Expects(asg, b) => b \in scheduled \/ (\E r \in runs : r.id = b) \/ b = s.id
<1>1. /\ s \in Step /\ s \in Apt(asg) /\ KnownStep(asg, s) /\ s.id \in Ids
      /\ \A S : Has(thread, S) <=> s \in S \/ Has(Tail(thread), S)
  BY MindedHead, StepFields
<1>2. Tail(thread) = <<>> /\ \A p : ~Owes(thread, p)
  <2>1. Tail(thread) = <<>> /\ \A p : Owes(thread, p) => Resolves(Head(thread), p) \/ Owes(Tail(thread), p)
    BY LedTail DEF LedInv, TypeOK
  <2>2. QED
    BY <2>1, NoneLight DEF Resolves
<1>3. \A S : Has(thread, S) <=> s \in S
  BY <1>1, <1>2, HasNone
<1>4. \A b \in Ids : s \in Acting(b) <=> b = s.id
  BY <1>1 DEF Acting
<1>5. \A r \in runs : r.id # s.id
  BY <1>1, <1>3, <1>4 DEF Minded
<1>6. \A b \in Ids : s \in Minding(b) => b = s.id
  BY <1>1 DEF Minding, Acting, Scheduling
<1>7. \A b \in Ids : Expects(asg, b) => b \in scheduled \/ (\E r \in runs : r.id = b) \/ b = s.id
  BY <1>3, <1>6 DEF Minded
<1>8. \A c \in Ids : Exists(asg, c) => Agrees(asg, c)
  BY <1>2 DEF AgreeInv
<1>9. QED
  BY <1>1, <1>3, <1>5, <1>7, <1>8 DEF Apt, KnownStep

LEMMA MindedNoChild ==
    ASSUME TypeOK, WholeInv, LedInv, AgreeInv, crashed = 0, Minded(asg, scheduled, runs, thread), NoChild
    PROVE  Minded(asg', scheduled', runs', thread')
<1> DEFINE s == Head(thread)
           a == s.id
           p == asg[a].parent
<1>1. /\ thread # <<>> /\ s.step = "planner" /\ thread' = Outcome(a, s.marker.status)
      /\ UNCHANGED <<asg, scheduled, runs>>
  BY DEF NoChild
<1> HIDE DEF s
<1>2. /\ a \in Ids /\ Exists(asg, a) /\ ~IsTerminal(asg, a) /\ Free(asg, a)
      /\ \A r \in runs : r.id # a
      /\ \A c \in Ids : Exists(asg, c) => Agrees(asg, c)
      /\ \A b \in Ids : Expects(asg, b) => b \in scheduled \/ (\E r \in runs : r.id = b) \/ b = a
  BY <1>1, PlannerAlone DEF s
<1>3. p = asg[a].parent /\ asg \in Table /\ \A c \in Children(asg, p) : Agrees(asg, c)
  BY <1>2 DEF Children, TypeOK, Table
<1> HIDE DEF p, a
<1>4. \A status : Begun(asg, Outcome(a, status), a)
  BY <1>2, <1>3, OutcomesBegun
<1>5. Begun(asg', thread', a)
  BY <1>1, <1>4
<1>6. \A r \in runs : r.id \in Ids /\ ~Has(thread', Acting(r.id))
  BY <1>2, <1>5, RunType DEF Begun
<1>7. QED
  BY <1>1, <1>2, <1>5, <1>6 DEF Begun, Minded

\* A child that is born was never held up, or is held up from its birth.
LEMMA EarnedBirth ==
    ASSUME NEW table \in Table, Whole(table), Earned(table), NEW next \in Table, Kept(table, next),
           NEW c \in Ids, ~Exists(table, c), \A d \in Ids \ {c} : next[d] = table[d],
           NEW p \in Ids, Exists(table, p), NEW waited, NEW deps \in SUBSET Children(table, p), NEW mode,
           Born(next[c], table, p, waited, deps, mode)
    PROVE  Earned(next) /\ Completes(table, next)
<1>1. Completes(table, next)
  BY DEF Completes, Exists
<1>2. /\ next[c].parent = p /\ next[c].deps = deps /\ next[c].mode = mode
      /\ next[c].wait \in {"deps", "none"} /\ p # c
      /\ next[c].life = "active" => BirthState(table, deps, mode) \notin {"waiting", "blocked"}
      /\ mode \in {"all", "any"}
  BY DEF Born, Assignment
<1>3. next[c].life = "active" => Free(next, c)
  <2>1. \A d \in deps : Lives(next)[d] = Lives(table)[d]
    BY DEF Lives, Children
  <2>2. StateIn(next, c) = BirthState(table, deps, mode)
    BY <1>2, <2>1, SameState DEF StateIn, DependencyStateOf, BirthState
  <2>3. BirthState(table, deps, mode) \in {"satisfied", "blocked", "waiting"}
    BY <1>2 DEF BirthState, DependencyState
  <2>4. QED
    BY <1>2, <2>2, <2>3 DEF Free
<1>4. ASSUME NEW d \in Ids, Exists(next, d)
      PROVE  /\ next[d].life = "active" \/ RestoresWait(next, d) => Free(next, d)
             /\ DependencyBlocked(next, d) => ~RestoresWait(next, d)
             /\ next[d].parent # d
  <2>1. CASE d = c
    BY <1>2, <1>3, <2>1 DEF RestoresWait
  <2>2. CASE d # c
    <3>1. Exists(table, d)
      BY <1>4, <2>2 DEF Exists
    <3>2. Free(table, d) => Free(next, d)
      BY <1>1, <3>1, FreeStays
    <3>3. QED
      BY <2>2, <3>1, <3>2 DEF RestoresWait, DependencyBlocked, Earned
  <2>3. QED
    BY <2>1, <2>2
<1>5. QED
  BY <1>1, <1>4 DEF Earned

LEMMA MindedPromote ==
    ASSUME TypeOK, WholeInv, LedInv, AgreeInv, crashed = 0, Minded(asg, scheduled, runs, thread),
           NEW c \in FreshChildren, PromoteChild(c)
    PROVE  Minded(asg', scheduled', runs', thread')
<1> DEFINE s == Head(thread)
           m == s.marker
           a == s.id
           p == asg[a].parent
           waited == (m.child = "waited")
           promoted == Promote(asg, a, c, waited, m.deps, m.mode, asg[a].policy)
           rest == IF waited /\ promoted[c].life # "blocked"
                     THEN Park(a, "child") ELSE Outcome(a, m.status)
           child == CASE promoted[c].life = "active" -> <<ScheduleStep({c})>>
                      [] promoted[c].life = "blocked" -> Continue(a, c)
                      [] OTHER -> <<>>
<1>1. /\ thread # <<>> /\ s.step = "planner" /\ CanPromote(asg, a) /\ asg' = promoted
      /\ thread' = child \o rest /\ UNCHANGED <<scheduled, runs>>
  BY DEF PromoteChild
<1>2. /\ s \in Step /\ a \in Ids /\ Exists(asg, a) /\ ~IsTerminal(asg, a) /\ Free(asg, a)
      /\ \A r \in runs : r.id # a
      /\ \A d \in Ids : Exists(asg, d) => Agrees(asg, d)
      /\ \A b \in Ids : Expects(asg, b) => b \in scheduled \/ (\E r \in runs : r.id = b) \/ b = a
  <2> HIDE DEF s
  <2>1. s = Head(thread)
    BY DEF s
  <2>2. QED
    BY <1>1, <2>1, PlannerAlone
<1>3. /\ asg \in Table /\ Whole(asg) /\ Earned(asg) /\ m \in Marker /\ m.deps \in SUBSET Children(asg, a)
      /\ m.mode \in {"all", "any"} /\ asg[a].policy \in Policy
  <2>1. asg \in Table /\ Whole(asg) /\ Earned(asg) /\ KnownStep(asg, s)
    BY <1>1, MindedHead
  <2> HIDE DEF s
  <2>2. m \in Marker /\ m.deps \subseteq Children(asg, a)
    BY <1>1, <1>2, <2>1, StepFields DEF KnownStep
  <2>3. m.mode \in {"all", "any"} /\ asg[a].policy \in Policy
    BY <1>2, <2>1, <2>2, MarkerFields DEF Table, Assignment
  <2>4. QED
    BY <2>1, <2>2, <2>3
<1>4. /\ Kept(asg, asg') /\ c \in Ids /\ ~Exists(asg, c) /\ \A d \in Ids \ {c} : asg'[d] = asg[d]
      /\ Born(asg'[c], asg, a, waited, m.deps, m.mode)
  <2>1. waited \in BOOLEAN
    OBVIOUS
  <2> HIDE DEF waited, m, a
  <2>2. QED
    BY <1>1, <1>2, <1>3, <2>1, PromoteKept
<1>5. asg' \in Table
  BY PromoteThread
<1>6. promoted = asg'
  BY <1>1
<1>7. thread' = child \o rest /\ child = CASE asg'[c].life = "active" -> <<ScheduleStep({c})>>
                                            [] asg'[c].life = "blocked" -> Continue(a, c)
                                            [] OTHER -> <<>>
  BY <1>1, <1>6
<1>8. rest = Park(a, "child") \/ rest = Outcome(a, m.status)
  OBVIOUS
<1>9. p = asg[a].parent
  OBVIOUS
<1> DEFINE deps == m.deps
           mode == m.mode
<1>10. deps \in SUBSET Children(asg, a) /\ Born(asg'[c], asg, a, waited, deps, mode)
  BY <1>3, <1>4
<1> HIDE DEF s, m, a, p, promoted, rest, child, waited, deps, mode
<1>11. Earned(asg') /\ Completes(asg, asg')
  BY <1>2, <1>3, <1>4, <1>5, <1>10, EarnedBirth
<1>12. /\ c # a /\ Exists(asg', a) /\ asg'[a] = asg[a] /\ ~IsTerminal(asg', a) /\ Free(asg', a)
  BY <1>2, <1>3, <1>4, <1>11, FreeStays DEF IsTerminal, Exists
<1>13. ASSUME NEW d \in Ids, Exists(asg', d) PROVE Agrees(asg', d)
  <2>1. CASE d = c
    <3>1. deps \in SUBSET Children(asg, a) /\ Born(asg'[c], asg, a, waited, deps, mode)
      BY <1>10
    <3>2. QED
      BY <1>2, <1>3, <1>4, <1>5, <2>1, <3>1, NewbornAgrees
  <2>2. CASE d # c
    <3>1. Exists(asg, d) /\ Agrees(asg, d)
      BY <1>2, <1>4, <1>13, <2>2 DEF Exists
    <3>2. QED
      BY <1>3, <1>4, <1>5, <3>1, BirthAgreement
  <2>3. QED
    BY <2>1, <2>2
<1>14. rest \in Seq(Step) /\ Begun(asg', rest, a) /\ rest \in Seq(LaterFor(p))
  <2>1. \A d \in Children(asg', p) : Agrees(asg', d)
    BY <1>13 DEF Children
  <2>2. /\ \A w \in {"child", "other"} : /\ Park(a, w) \in Seq(Step) /\ Begun(asg', Park(a, w), a)
                                         /\ Park(a, w) \in Seq(LaterFor(p))
        /\ \A status : /\ Outcome(a, status) \in Seq(Step) /\ Begun(asg', Outcome(a, status), a)
                       /\ Outcome(a, status) \in Seq(LaterFor(p))
    BY <1>2, <1>3, <1>9, <1>12, <2>1, OutcomesBegun
  <2>3. QED
    BY <1>8, <2>2
<1> DEFINE t == thread'
<1>15. /\ t \in Seq(Apt(asg')) /\ Ordered(t) /\ (t # <<>> => Steadied(asg', Head(t)))
       /\ (\A b \in Ids : Has(t, Acting(b)) => Has(rest, Acting(b)))
       /\ (\A b \in Ids : Has(t, Postponing(b)) => Has(rest, Postponing(b)))
       /\ (\A b \in Ids : Has(rest, Scheduling(b)) => Has(t, Scheduling(b)))
       /\ (\A b \in Ids : Has(rest, Minding(b)) => Has(t, Minding(b)))
       /\ asg'[c].life = "active" => Has(t, Minding(c))
  <2>1. CASE asg'[c].life = "active"
    <3>1. Starts(t, ScheduleStep({c}), rest)
      BY <1>7, <2>1 DEF Starts
    <3> HIDE DEF t
    <3>2. {c} \in SUBSET Ids /\ c \in {c}
      BY <1>4
    <3>3. Ordered(rest) /\ rest \in Seq(Apt(asg'))
      BY <1>14 DEF Begun
    <3>4. QED
      BY <1>14, <3>1, <3>2, <3>3, ScheduleBefore DEF LaterFor
  <2>2. CASE asg'[c].life = "blocked"
    <3>1. Starts(t, ResolveStep(a, c), rest)
      BY <1>2, <1>7, <2>2, NoneAssumption DEF Starts, Continue
    <3> HIDE DEF t
    <3>2. Ordered(rest) /\ rest \in Seq(Apt(asg'))
      BY <1>14 DEF Begun
    <3>3. p # a
      BY <1>2, <1>3, <1>9 DEF Earned
    <3>4. LaterFor(p) \subseteq {u \in Step : Drops(u) => u.parent # a}
      BY <3>3 DEF LaterFor, Later, Drops
    <3>5. rest \in Seq({u \in Step : Drops(u) => u.parent # a}) /\ c # None
      BY <1>4, <1>14, <3>4, NoneAssumption
    <3>6. asg'[c].life # "active"
      BY <2>2
    <3>7. QED
      BY <1>2, <1>4, <1>14, <3>1, <3>2, <3>5, <3>6, ResolveBefore DEF LaterFor
  <2>3. CASE asg'[c].life \notin {"active", "blocked"}
    <3>1. t = rest
      BY <1>7, <1>14, <2>3
    <3> HIDE DEF t
    <3>2. QED
      BY <1>14, <2>3, <3>1 DEF Begun
  <2>4. QED
    BY <2>1, <2>2, <2>3
<1> HIDE DEF t
<1>16. \A r \in runs : Free(asg', r.id) /\ ~IsTerminal(asg', r.id) /\ ~Has(t, Acting(r.id))
  <2>1. \A r \in runs : r.id \in Ids /\ Exists(asg, r.id) /\ Free(asg', r.id) /\ ~IsTerminal(asg, r.id) /\ r.id # a
    BY <1>2, <1>4, <1>11, RunsGoOn
  <2>2. QED
    BY <1>4, <1>14, <1>15, <2>1 DEF Begun, IsTerminal
<1>17. ASSUME NEW b \in Ids, Expects(asg', b)
       PROVE  b \in scheduled \/ (\E r \in runs : r.id = b) \/ Has(t, Minding(b))
  <2>1. CASE b = c
    <3>1. asg'[c].wait \in {"deps", "none"}
      BY <1>10 DEF Born
    <3>2. QED
      BY <1>15, <1>17, <2>1, <3>1 DEF Expects
  <2>2. CASE b # c
    <3>1. Expects(asg, b)
      BY <1>4, <1>17, <2>2 DEF Expects
    <3>2. b = a => Has(t, Minding(b))
      BY <1>14, <1>15 DEF Begun
    <3>3. QED
      BY <1>2, <3>1, <3>2
  <2>3. QED
    BY <2>1, <2>2
<1>18. \A b \in Ids : Has(t, Postponing(b)) => Has(t, Scheduling(b))
  BY <1>14, <1>15 DEF Begun
<1>19. t = thread' /\ scheduled' = scheduled /\ runs' = runs
  BY <1>1 DEF t
<1>20. QED
  BY <1>11, <1>15, <1>16, <1>17, <1>18, <1>19 DEF Minded

LEMMA SameChildren ==
    ASSUME NEW table, NEW next, NEW a \in Ids, Exists(table, a), SameShape(table[a], next[a]),
           \A d \in Ids \ {a} : next[d] = table[d]
    PROVE  \A p : Children(next, p) = Children(table, p)
<1>1. \A d \in Ids : (Exists(next, d) <=> Exists(table, d)) /\ next[d].parent = table[d].parent
  BY DEF Exists, SameShape
<1>2. QED
  BY <1>1 DEF Children

\* The steps that a write spares.
Spared(next) ==
    {s \in Step :
        /\ s.step # "planner"
        /\ s.step = "decide" => s.decision \notin {"deps", "depBlocked"} /\ ~IsTerminal(next, s.id)
        /\ Drops(s) => \A c \in Children(next, s.parent) : Agrees(next, c)}

LEMMA AptKept ==
    ASSUME NEW table \in Table, Whole(table), NEW next, Kept(table, next), Completes(table, next),
           NEW t, t \in Seq(KnownSteps(table)), t \in Seq(Apt(table)), t \in Seq(Spared(next))
    PROVE  t \in Seq(Apt(next))
<1>1. ASSUME NEW s \in KnownSteps(table), s \in Apt(table), s \in Spared(next) PROVE s \in Apt(next)
  <2>1. s.step = "decide" => s.id \in Ids /\ Exists(table, s.id)
    BY <1>1, StepFields DEF KnownSteps, KnownStep
  <2>2. s.step = "decide" /\ s.decision \in {"child", "other"} => Free(next, s.id)
    BY <1>1, <2>1, FreeStays DEF Apt
  <2>3. QED
    BY <1>1, <2>2 DEF Apt, Spared
<1>2. (KnownSteps(table) \cap Apt(table)) \cap Spared(next) \subseteq Apt(next)
  BY <1>1
<1>3. t \in Seq(KnownSteps(table) \cap Apt(table))
  BY StepsIn
<1>4. QED
  BY <1>2, <1>3, StepsIn

\* A row that is written for a while on: the children that agreed still do.
LEMMA OthersAgree ==
    ASSUME NEW table \in Table, NEW a \in Ids, Exists(table, a), NEW row \in Assignment,
           Occupies(table[a], row), NEW next, next = [table EXCEPT ![a] = row],
           Agrees(next, a), NEW p, \A c \in Children(table, p) : Agrees(table, c)
    PROVE  \A c \in Children(next, p) : Agrees(next, c)
<1>1. Children(next, p) = Children(table, p)
  <2>1. SameShape(table[a], row)
    BY DEF Occupies
  <2>2. next[a] = row /\ \A d \in Ids \ {a} : next[d] = table[d]
    BY DEF Table
  <2>3. QED
    BY <2>1, <2>2, SameChildren
<1>2. ASSUME NEW c \in Children(table, p), c # a PROVE Agrees(next, c)
  BY <1>2, OccupiesAgreement DEF Children
<1>3. QED
  BY <1>1, <1>2

\* A child does not depend on itself: what it is does not change what it waits for.
LEMMA OwnState ==
    ASSUME NEW table \in Table, Whole(table), NEW a \in Ids, Exists(table, a), NEW row, SameShape(table[a], row),
           NEW next, next = [table EXCEPT ![a] = row]
    PROVE  StateIn(next, a) = StateIn(table, a)
<1>1. next[a] = row /\ \A d \in Ids \ {a} : next[d] = table[d]
  BY DEF Table
<1>2. table[a].deps \subseteq Ids \ {a}
  BY ChildDeps
<1> DEFINE life == Lives(table)
           other == Lives(next)
           deps == table[a].deps
           mode == table[a].mode
<1>3. \A d \in deps : other[d] = life[d]
  BY <1>1, <1>2 DEF Lives
<1>4. StateIn(table, a) = DependencyState(life, deps, mode) /\ StateIn(next, a) = DependencyState(other, deps, mode)
  BY <1>1 DEF StateIn, DependencyStateOf, SameShape
<1> HIDE DEF life, other, deps, mode
<1>5. QED
  BY <1>3, <1>4, SameState

LEMMA MindedDecision ==
    ASSUME TypeOK, WholeInv, crashed = 0, Minded(asg, scheduled, runs, thread), TakeDecision
    PROVE  Minded(asg', scheduled', runs', thread')
<1> DEFINE s == Head(thread)
           a == s.id
           d == s.decision
           rest == Tail(thread)
           row == Decided(asg[a], d)
<1>1. /\ thread # <<>> /\ s.step = "decide" /\ asg' = [asg EXCEPT ![a] = row]
      /\ thread' = rest /\ UNCHANGED <<scheduled, runs>>
  BY DEF TakeDecision, Decide
<1>2. /\ s \in Step /\ s \in Apt(asg) /\ KnownStep(asg, s)
      /\ rest \in Seq(Step) /\ rest \in Seq(Apt(asg))
      /\ rest \in Seq(KnownSteps(asg)) /\ rest \in Seq(After(s))
      /\ Ordered(rest) /\ \A S : Has(thread, S) <=> s \in S \/ Has(rest, S)
      /\ asg \in Table /\ Whole(asg) /\ Earned(asg)
  BY <1>1, MindedHead
<1>3. /\ a \in Ids /\ d \in Decisions /\ Exists(asg, a) /\ ~IsTerminal(asg, a)
      /\ d \in {"child", "other"} => Free(asg, a)
      /\ d = "deps" => StateIn(asg, a) = "waiting"
      /\ d = "depBlocked" => ~RestoresWait(asg, a)
  <2> HIDE DEF s
  <2>1. QED
    BY <1>1, <1>2, StepFields DEF KnownStep, Apt
<1>4. asg[a] \in Assignment /\ row \in Assignment /\ SameShape(asg[a], row) /\ Rewrites(asg[a], row)
  <2> HIDE DEF a, d
  <2>1. asg[a] \in Assignment
    BY <1>2, <1>3 DEF Table
  <2>2. QED
    BY <1>3, <2>1, DecidedType, DecidedShape, DecidedRewrites
<1>5. /\ row.life = IF d \in {"deps", "child", "other"} THEN "waiting"
                    ELSE IF d \in {"blocked", "depBlocked"} THEN "blocked" ELSE d
      /\ row.wait = IF d \in {"deps", "child", "other"} THEN d ELSE asg[a].wait
      /\ d \in {"blocked", "depBlocked"} => row.depBlocked = (d = "depBlocked")
  <2> HIDE DEF a, d
  <2>1. QED
    BY <1>4 DEF Decided, Assignment
<1>6. s.step = "decide" /\ s.id = a /\ s.decision = d
  BY <1>1
<1> HIDE DEF s, a, d, rest, row
<1>7. row.life # "active" /\ (row.life = "blocked" => d \in {"blocked", "depBlocked"})
  BY <1>3, <1>5 DEF Decisions
<1>8. row.wait \in {"child", "other", "paused"} => Free(asg, a)
  <2>1. d \in {"deps", "child", "other"} \/ row.wait = asg[a].wait
    BY <1>5
  <2>2. QED
    BY <1>2, <1>3, <1>5, <2>1 DEF Earned, RestoresWait
<1>9. row.life = "blocked" /\ row.depBlocked => row.wait \notin {"child", "other", "paused"}
  BY <1>3, <1>5, <1>7 DEF RestoresWait
<1>10. Earned(asg') /\ Completes(asg, asg') /\ Kept(asg, asg')
  <2>1. asg[a].life # "completed"
    BY <1>3 DEF IsTerminal, TerminalStates
  <2>2. QED
    BY <1>1, <1>2, <1>3, <1>4, <1>7, <1>8, <1>9, <2>1, EarnedWrite
<1>11. asg'[a] = row /\ \A b \in Ids \ {a} : asg'[b] = asg[b]
  BY <1>1, <1>2, <1>3 DEF Table
<1>12. \A u \in After(s) : /\ u \in Step /\ u.step \in {"schedule", "resolve"}
                           /\ u.step = "resolve" => u.todo = {}
                           /\ Drops(u) => d \in {"deps", "child", "other"}
  BY <1>6 DEF After, Follows
<1>13. ASSUME d \in {"deps", "child", "other"}, NEW p, \A c \in Children(asg, p) : Agrees(asg, c)
       PROVE  \A c \in Children(asg', p) : Agrees(asg', c)
  <2>1. Occupies(asg[a], row)
    <3>1. asg[a].life \in {"active", "waiting", "blocked"}
      BY <1>3, <1>4 DEF Assignment, LifecycleStates, IsTerminal, Exists
    <3>2. row.life = "waiting"
      BY <1>5, <1>13
    <3>3. asg[a].wakeups <= row.wakeups
      BY <1>4 DEF Rewrites, Assignment
    <3>4. QED
      BY <1>4, <3>1, <3>2, <3>3 DEF Occupies, Rewrites
  <2>2. StateIn(asg', a) = StateIn(asg, a)
    BY <1>1, <1>2, <1>3, <1>4, OwnState
  <2>3. Agrees(asg', a)
    <3>1. asg'[a].life = "waiting" /\ asg'[a].wait = d
      BY <1>5, <1>11, <1>13
    <3>2. (d = "deps" => StateIn(asg', a) = "waiting") /\ (d # "deps" => StateIn(asg', a) = "satisfied")
      BY <1>3, <1>13, <2>2 DEF Free
    <3>3. QED
      BY <3>1, <3>2 DEF Agrees, StateIn, DependencyWaiting, DependencyBlocked
  <2>4. QED
    BY <1>1, <1>2, <1>3, <1>4, <1>13, <2>1, <2>3, OthersAgree
<1>14. rest \in Seq(Apt(asg'))
  <2>1. ASSUME NEW u \in After(s), u \in Apt(asg) PROVE u \in Spared(asg')
    <3>1. /\ u \in Step /\ u.step \in {"schedule", "resolve"}
          /\ Drops(u) => d \in {"deps", "child", "other"} /\ \A c \in Children(asg, u.parent) : Agrees(asg, c)
      BY <1>12, <2>1 DEF Apt
    <3>2. Drops(u) => \A c \in Children(asg', u.parent) : Agrees(asg', c)
      BY <1>13, <3>1
    <3>3. QED
      BY <3>1, <3>2 DEF Spared
  <2>2. After(s) \cap Apt(asg) \subseteq Spared(asg')
    BY <2>1
  <2>3. rest \in Seq(Spared(asg'))
    BY <1>2, <2>2, StepsIn
  <2>4. QED
    BY <1>2, <1>10, <2>3, AptKept
<1>15. rest # <<>> => Steadied(asg', Head(rest))
  <2>1. ASSUME rest # <<>> PROVE Steadied(asg', Head(rest))
    <3>1. Head(rest) \in After(s)
      BY <1>2, <2>1
    <3>2. QED
      BY <1>12, <3>1 DEF Steadied
  <2>2. QED
    BY <2>1
<1>16. /\ s \in Acting(a) /\ (\A b : s \notin Scheduling(b)) /\ (\A b : b # a => s \notin Minding(b))
       /\ (d \in {"child", "other"} => s \in Postponing(a))
  BY <1>2, <1>6 DEF Acting, Scheduling, Minding, Postponing
<1>17. \A r \in runs : Free(asg', r.id) /\ ~IsTerminal(asg', r.id) /\ ~Has(rest, Acting(r.id))
  <2>1. \A r \in runs : r.id \in Ids /\ Free(asg', r.id) /\ ~IsTerminal(asg, r.id) /\ ~Has(thread, Acting(r.id))
    BY <1>10, RunsGoOn DEF Minded
  <2>2. \A r \in runs : r.id # a
    BY <1>2, <1>16, <2>1
  <2>3. QED
    BY <1>2, <1>11, <2>1, <2>2 DEF IsTerminal
<1>18. \A b \in Ids : Has(thread, Postponing(b)) => b \in scheduled \/ Has(rest, Scheduling(b))
  BY <1>2, <1>16 DEF Minded
<1>19. ASSUME NEW b \in Ids, Expects(asg', b)
       PROVE  b \in scheduled \/ (\E r \in runs : r.id = b) \/ Has(rest, Minding(b))
  <2>1. CASE b = a
    <3>1. d \in {"child", "other"}
      <4>1. row.life = "waiting" /\ row.wait \in {"child", "other"}
        BY <1>7, <1>11, <1>19, <2>1 DEF Expects
      <4>2. d \in {"deps", "child", "other"}
        BY <1>3, <1>5, <4>1 DEF Decisions
      <4>3. QED
        BY <1>5, <4>1, <4>2
    <3>2. a \in scheduled \/ Has(rest, Scheduling(a))
      BY <1>2, <1>3, <1>16, <1>18, <3>1
    <3>3. Scheduling(a) \subseteq Minding(a)
      BY DEF Minding
    <3>4. QED
      BY <2>1, <3>2, <3>3 DEF Has
  <2>2. CASE b # a
    <3>1. Expects(asg, b)
      BY <1>11, <1>19, <2>2 DEF Expects
    <3>2. b \in scheduled \/ (\E r \in runs : r.id = b) \/ Has(thread, Minding(b))
      BY <3>1 DEF Minded
    <3>3. QED
      BY <1>2, <1>16, <2>2, <3>2
  <2>3. QED
    BY <2>1, <2>2
<1>20. \A b \in Ids : Has(rest, Postponing(b)) => b \in scheduled \/ Has(rest, Scheduling(b))
  BY <1>2, <1>18
<1>21. QED
  BY <1>1, <1>2, <1>10, <1>14, <1>15, <1>17, <1>19, <1>20 DEF Minded

LEMMA MindedSchedule ==
    ASSUME TypeOK, WholeInv, crashed = 0, Minded(asg, scheduled, runs, thread), ScheduleNext
    PROVE  Minded(asg', scheduled', runs', thread')
<1> DEFINE s == Head(thread)
           rest == Tail(thread)
<1>1. PICK a \in s.ids :
        /\ scheduled' = scheduled \cup {a}
        /\ thread' = (IF s.ids = {a} THEN <<>> ELSE <<ScheduleStep(s.ids \ {a})>>) \o rest
  BY DEF ScheduleNext
<1>2. thread # <<>> /\ s.step = "schedule" /\ UNCHANGED <<asg, runs>>
  BY DEF ScheduleNext
<1>3. /\ s \in Step /\ s \in Apt(asg) /\ rest \in Seq(Step) /\ rest \in Seq(Apt(asg)) /\ rest \in Seq(After(s))
      /\ Ordered(rest) /\ \A S : Has(thread, S) <=> s \in S \/ Has(rest, S)
      /\ asg \in Table /\ Whole(asg) /\ Earned(asg)
  BY <1>2, MindedHead
<1>4. s = Head(thread)
  OBVIOUS
<1> HIDE DEF s, rest
<1>5. s.ids \in SUBSET Ids
  BY <1>2, <1>3, StepFields
<1>6. After(s) \subseteq Later(Ids)
  <2>1. ASSUME NEW u \in After(s) PROVE u \in Later(Ids)
    <3>1. u \in Step /\ Follows(s, u)
      BY DEF After
    <3>2. u.step = "resolve" => u.parent \in Ids
      BY <3>1, StepFields
    <3>3. QED
      BY <3>1, <3>2 DEF Later, Follows
  <2>2. QED
    BY <2>1
<1>7. rest \in Seq(Later(Ids))
  BY <1>3, <1>6
<1>8. \A b : s \notin Acting(b) /\ s \notin Postponing(b) /\ (s \in Minding(b) <=> b \in s.ids) /\ (s \in Scheduling(b) <=> b \in s.ids)
  BY <1>2, <1>3 DEF Acting, Postponing, Minding, Scheduling
<1> DEFINE t == thread'
<1>9. /\ t \in Seq(Step) /\ t \in Seq(Apt(asg)) /\ Ordered(t) /\ (t # <<>> => Steadied(asg, Head(t)))
      /\ (\A b : Has(t, Acting(b)) => Has(rest, Acting(b)))
      /\ (\A b : Has(t, Postponing(b)) => Has(rest, Postponing(b)))
      /\ (\A b : Has(rest, Scheduling(b)) \/ b \in s.ids \ {a} => Has(t, Scheduling(b)))
      /\ (\A b : Has(rest, Minding(b)) \/ b \in s.ids \ {a} => Has(t, Minding(b)))
  <2>1. CASE s.ids = {a}
    <3>1. t = rest
      BY <1>1, <1>3, <2>1
    <3> HIDE DEF t
    <3>2. rest # <<>> => Steadied(asg, Head(rest))
      <4>1. rest # <<>> => Head(rest) \in Later(Ids)
        BY <1>7
      <4>2. QED
        BY <4>1 DEF Later, Steadied
    <3>3. s.ids \ {a} = {}
      BY <2>1
    <3>4. QED
      BY <1>3, <3>1, <3>2, <3>3
  <2>2. CASE s.ids # {a}
    <3> DEFINE others == s.ids \ {a}
    <3>1. others \in SUBSET Ids
      BY <1>5
    <3>2. Starts(t, ScheduleStep(others), rest)
      BY <1>1, <2>2 DEF Starts
    <3> HIDE DEF t, others
    <3>3. /\ t \in Seq(Step) /\ t # <<>> /\ Ordered(t) /\ Steadied(asg, Head(t))
          /\ t \in Seq(Apt(asg))
          /\ (\A b : Has(t, Acting(b)) => Has(rest, Acting(b)))
          /\ (\A b : Has(t, Postponing(b)) => Has(rest, Postponing(b)))
          /\ (\A b : Has(rest, Scheduling(b)) \/ b \in others => Has(t, Scheduling(b)))
          /\ (\A b : Has(rest, Minding(b)) \/ b \in others => Has(t, Minding(b)))
      BY <1>3, <1>7, <3>1, <3>2, ScheduleBefore
    <3>4. QED
      BY <3>3 DEF others
  <2>3. QED
    BY <2>1, <2>2
<1>10. t = thread'
  OBVIOUS
<1> HIDE DEF t
<1>11. \A r \in runs : Free(asg, r.id) /\ ~IsTerminal(asg, r.id) /\ ~Has(t, Acting(r.id))
  BY <1>3, <1>9 DEF Minded
<1>12. ASSUME NEW b \in Ids, Expects(asg, b)
       PROVE  b \in scheduled' \/ (\E r \in runs : r.id = b) \/ Has(t, Minding(b))
  <2>1. b \in scheduled \/ (\E r \in runs : r.id = b) \/ Has(thread, Minding(b))
    BY <1>12 DEF Minded
  <2>2. Has(thread, Minding(b)) => b = a \/ b \in s.ids \ {a} \/ Has(rest, Minding(b))
    BY <1>3, <1>8
  <2>3. QED
    BY <1>1, <1>9, <2>1, <2>2
<1>13. ASSUME NEW b \in Ids, Has(t, Postponing(b)) PROVE b \in scheduled' \/ Has(t, Scheduling(b))
  <2>1. Has(thread, Postponing(b))
    BY <1>3, <1>9, <1>13
  <2>2. b \in scheduled \/ Has(thread, Scheduling(b))
    BY <2>1 DEF Minded
  <2>3. Has(thread, Scheduling(b)) => b = a \/ b \in s.ids \ {a} \/ Has(rest, Scheduling(b))
    BY <1>3, <1>8
  <2>4. QED
    BY <1>1, <1>9, <2>2, <2>3
<1>14. QED
  BY <1>2, <1>3, <1>9, <1>10, <1>11, <1>12, <1>13 DEF Minded

\* A pass begins on the states as they are.
LEMMA MindedPass ==
    ASSUME TypeOK, WholeInv, crashed = 0, Minded(asg, scheduled, runs, thread), NextPass
    PROVE  Minded(asg', scheduled', runs', thread')
<1> DEFINE s == Head(thread)
           rest == Tail(thread)
           next == [s EXCEPT !.changed = FALSE, !.before = Lives(asg), !.todo = Children(asg, s.parent)]
<1>1. /\ thread # <<>> /\ s.step = "resolve" /\ thread' = <<next>> \o rest
      /\ UNCHANGED <<asg, scheduled, runs>>
  BY DEF NextPass
<1>2. /\ s \in Step /\ s \in Apt(asg) /\ rest \in Seq(Step) /\ rest \in Seq(Apt(asg)) /\ rest \in Seq(After(s))
      /\ Ordered(rest) /\ (\A S : Has(thread, S) <=> s \in S \/ Has(rest, S))
      /\ asg \in Table /\ Whole(asg) /\ Earned(asg)
  BY <1>1, MindedHead
<1>3. /\ next \in Step /\ next.step = "resolve" /\ next.parent = s.parent /\ next.cause = s.cause
      /\ next.activated = s.activated /\ next.before = Lives(asg) /\ next.todo = Children(asg, s.parent)
  <2>1. Lives(asg) \in [Ids -> LifecycleStates] /\ Children(asg, s.parent) \in SUBSET Ids
    BY <1>2, LivesType DEF Children
  <2>2. s \in [step : {"resolve"}, parent : Ids, cause : Ids \cup {None}, changed : BOOLEAN,
               before : [Ids -> LifecycleStates], todo : SUBSET Ids, activated : SUBSET Ids, lost : SUBSET Ids]
    BY <1>1, <1>2, StepFields
  <2> HIDE DEF s
  <2>3. /\ next \in [step : {"resolve"}, parent : Ids, cause : Ids \cup {None}, changed : BOOLEAN,
                     before : [Ids -> LifecycleStates], todo : SUBSET Ids, activated : SUBSET Ids, lost : SUBSET Ids]
        /\ next.parent = s.parent /\ next.cause = s.cause
        /\ next.activated = s.activated /\ next.before = Lives(asg) /\ next.todo = Children(asg, s.parent)
    BY <2>1, <2>2
  <2>4. QED
    BY <2>3 DEF Step
<1> HIDE DEF s, rest, next
<1>4. /\ next \in Apt(asg) /\ After(s) = After(next)
      /\ \A b : /\ next \notin Acting(b) /\ next \notin Postponing(b) /\ next \notin Scheduling(b)
                /\ s \notin Scheduling(b) /\ (s \in Minding(b) => next \in Minding(b))
  BY <1>1, <1>2, <1>3 DEF Apt, Drops, After, Follows, Acting, Postponing, Scheduling, Minding
<1>5. Steadied(asg, next)
  <2>1. \A c \in Ids : next.before[c] = asg[c].life
    BY <1>3 DEF Lives
  <2>2. ASSUME next.cause = None, NEW c \in next.todo, DependencyStateOf(asg, next.before, c) = "blocked"
        PROVE  asg[c].life \in Stopped
    <3>1. Agrees(asg, c) /\ c \in Ids
      BY <1>3, <1>4, <2>2 DEF Apt, Drops, Children
    <3>2. asg[c].deps # {} /\ DependencyStateOf(asg, Lives(asg), c) = "blocked"
      BY <1>3, <2>2 DEF DependencyStateOf, DependencyState
    <3>3. QED
      BY <3>1, <3>2 DEF Agrees, IsTerminal, Stopped
  <2>3. QED
    BY <2>1, <2>2 DEF Steadied
<1>6. Ordered(thread') /\ thread' \in Seq(Apt(asg)) /\ Head(thread') = next
  <2>1. rest \in Seq(After(next))
    BY <1>2, <1>4
  <2>2. Ordered(<<next>> \o rest)
    BY <1>2, <1>3, <2>1, OrderedFirst
  <2>3. QED
    BY <1>1, <1>2, <1>3, <1>4, <2>2
<1>7. \A S : Has(thread', S) <=> next \in S \/ Has(rest, S)
  BY <1>1, <1>2, <1>3, HasFirst
<1>8. \A r \in runs : Free(asg, r.id) /\ ~IsTerminal(asg, r.id) /\ ~Has(thread', Acting(r.id))
  BY <1>2, <1>4, <1>7 DEF Minded
<1>9. \A b \in Ids : Expects(asg, b) => b \in scheduled \/ (\E r \in runs : r.id = b) \/ Has(thread', Minding(b))
  BY <1>2, <1>4, <1>7 DEF Minded
<1>10. \A b \in Ids : Has(thread', Postponing(b)) => b \in scheduled \/ Has(thread', Scheduling(b))
  BY <1>2, <1>4, <1>7 DEF Minded
<1>11. QED
  BY <1>1, <1>2, <1>5, <1>6, <1>8, <1>9, <1>10 DEF Minded

\* The resolution is over: whom it activated is scheduled next.
LEMMA MindedEnd ==
    ASSUME TypeOK, WholeInv, crashed = 0, Minded(asg, scheduled, runs, thread), EndResolution
    PROVE  Minded(asg', scheduled', runs', thread')
<1> DEFINE s == Head(thread)
           rest == Tail(thread)
           p == s.parent
           children == IF s.activated = {} THEN <<>> ELSE <<ScheduleStep(s.activated)>>
           waitedFor == \E c \in {s.cause} \cup s.activated \cup s.lost : asg[c].waited
           parent == IF /\ ActiveWaitedChildren(asg, p) = {}
                        /\ waitedFor
                        /\ ParentMayContinue(p)
                       THEN <<ScheduleStep({p})>> ELSE <<>>
<1>1. /\ thread # <<>> /\ s.step = "resolve"
      /\ thread' = (IF s.cause = None THEN <<>> ELSE children \o parent) \o rest
      /\ UNCHANGED <<asg, scheduled, runs>>
  BY DEF EndResolution
<1>2. /\ s \in Step /\ rest \in Seq(Step) /\ rest \in Seq(Apt(asg)) /\ rest \in Seq(After(s))
      /\ Ordered(rest) /\ (\A S : Has(thread, S) <=> s \in S \/ Has(rest, S))
      /\ asg \in Table /\ Whole(asg) /\ Earned(asg)
  BY <1>1, MindedHead
<1>3. p \in Ids /\ s.activated \in SUBSET Ids
  BY <1>1, <1>2, StepFields
<1>4. parent \in {<<>>, <<ScheduleStep({p})>>}
  OBVIOUS
<1>5. ScheduleStep({p}) \in Step /\ ScheduleStep(s.activated) \in Step
  <2>1. {p} \in SUBSET Ids
    BY <1>3
  <2>2. QED
    BY <1>3, <2>1 DEF ScheduleStep, Step
<1> DEFINE late == parent \o rest
<1>6. late = rest \/ Starts(late, ScheduleStep({p}), rest)
  <2> HIDE DEF parent, p
  <2>1. parent = <<>> => late = rest
    BY <1>2
  <2>2. QED
    BY <1>4, <2>1 DEF Starts
<1>7. /\ s.cause = None => thread' = rest
      /\ s.cause # None /\ s.activated = {} => thread' = late
      /\ s.cause # None /\ s.activated # {} => Starts(thread', ScheduleStep(s.activated), late)
  <2>1. parent \in Seq(Step)
    BY <1>4, <1>5
  <2> DEFINE first == ScheduleStep(s.activated)
  <2>2. first \in Step
    BY <1>5
  <2> HIDE DEF s, rest, parent, first
  <2>3. s.cause = None => thread' = rest
    BY <1>1, <1>2
  <2>4. s.cause # None /\ s.activated = {} => thread' = late
    BY <1>1, <1>2, <2>1
  <2>5. (<<first>> \o parent) \o rest = <<first>> \o (parent \o rest)
    BY <1>2, <2>1, <2>2
  <2>6. s.cause # None /\ s.activated # {} => Starts(thread', ScheduleStep(s.activated), late)
    BY <1>1, <2>5 DEF Starts, first
  <2>7. QED
    BY <2>3, <2>4, <2>6
<1> HIDE DEF s, rest, p, children, waitedFor, parent, late
<1>8. After(s) \subseteq Later(Ids)
  <2>1. ASSUME NEW u \in After(s) PROVE u \in Later(Ids)
    <3>1. u \in Step /\ Follows(s, u)
      BY DEF After
    <3>2. u.step = "resolve" => u.parent \in Ids
      BY <3>1, StepFields
    <3>3. QED
      BY <3>1, <3>2 DEF Later, Follows
  <2>2. QED
    BY <2>1
<1>9. rest \in Seq(Later(Ids)) /\ \A u \in Later(Ids) : Steadied(asg, u)
  BY <1>2, <1>8 DEF Later, Steadied
<1>10. /\ late \in Seq(Step) /\ late \in Seq(Later(Ids)) /\ late \in Seq(Apt(asg)) /\ Ordered(late)
       /\ (\A b : Has(late, Acting(b)) => Has(rest, Acting(b)))
       /\ (\A b : Has(late, Postponing(b)) => Has(rest, Postponing(b)))
       /\ (\A b : Has(rest, Scheduling(b)) => Has(late, Scheduling(b)))
       /\ (\A b : Has(rest, Minding(b)) => Has(late, Minding(b)))
  <2>1. CASE late = rest
    BY <1>2, <1>9, <2>1
  <2>2. CASE Starts(late, ScheduleStep({p}), rest)
    <3>1. {p} \in SUBSET Ids
      BY <1>3
    <3>2. QED
      BY <1>2, <1>9, <2>2, <3>1, ScheduleBefore
  <2>3. QED
    BY <1>6, <2>1, <2>2
<1> DEFINE t == thread'
<1>11. /\ t \in Seq(Later(Ids)) /\ t \in Seq(Apt(asg)) /\ Ordered(t)
       /\ (\A b : Has(t, Acting(b)) => Has(rest, Acting(b)))
       /\ (\A b : Has(t, Postponing(b)) => Has(rest, Postponing(b)))
       /\ (\A b : Has(rest, Scheduling(b)) => Has(t, Scheduling(b)))
       /\ (\A b : Has(rest, Minding(b)) => Has(t, Minding(b)))
       /\ s.cause # None => \A b \in s.activated : Has(t, Minding(b))
  <2>1. CASE s.cause = None
    <3>1. t = rest
      BY <1>7, <2>1
    <3> HIDE DEF t
    <3>2. QED
      BY <1>2, <1>9, <2>1, <3>1
  <2>2. CASE s.cause # None /\ s.activated = {}
    <3>1. t = late
      BY <1>7, <2>2
    <3> HIDE DEF t
    <3>2. QED
      BY <1>10, <2>2, <3>1
  <2>3. CASE s.cause # None /\ s.activated # {}
    <3>1. Starts(t, ScheduleStep(s.activated), late)
      BY <1>7, <2>3
    <3> HIDE DEF t
    <3>2. QED
      BY <1>3, <1>10, <3>1, ScheduleBefore
  <2>4. QED
    BY <2>1, <2>2, <2>3
<1>12. t = thread'
  OBVIOUS
<1> HIDE DEF t
<1>13. t # <<>> => Steadied(asg, Head(t))
  <2>1. t # <<>> => Head(t) \in Later(Ids)
    BY <1>11
  <2>2. QED
    BY <1>9, <2>1
<1>14. \A b : /\ s \notin Scheduling(b)
              /\ s \in Minding(b) => s.cause # None /\ b \in s.activated
  BY <1>1, <1>2 DEF Scheduling, Minding, Acting
<1>15. \A r \in runs : Free(asg, r.id) /\ ~IsTerminal(asg, r.id) /\ ~Has(t, Acting(r.id))
  BY <1>2, <1>11 DEF Minded
<1>16. \A b \in Ids : Expects(asg, b) => b \in scheduled \/ (\E r \in runs : r.id = b) \/ Has(t, Minding(b))
  BY <1>2, <1>11, <1>14 DEF Minded
<1>17. \A b \in Ids : Has(t, Postponing(b)) => b \in scheduled \/ Has(t, Scheduling(b))
  BY <1>2, <1>11, <1>14 DEF Minded
<1>18. QED
  BY <1>1, <1>2, <1>11, <1>12, <1>13, <1>15, <1>16, <1>17 DEF Minded

\* In a pass nobody has been freed since it began, and who waits for nobody but his
\* siblings is not given anything else.
LEMMA PassStates ==
    ASSUME NEW table \in Table, Whole(table), NEW s \in Step, s.step = "resolve", Steadied(table, s),
           NEW c \in s.todo, c \in Ids, Exists(table, c)
    PROVE  /\ DependencyStateOf(table, s.before, c) = "satisfied" <=> Free(table, c)
           /\ s.cause = None /\ StateIn(table, c) = "blocked" => DependencyStateOf(table, s.before, c) = "blocked"
<1> DEFINE life == Lives(table)
           before == s.before
           deps == table[c].deps
           mode == table[c].mode
<1>1. deps \subseteq Ids /\ mode \in {"all", "any"}
  BY ChildDeps
<1>2. \A d \in deps : (before[d] = "completed" <=> life[d] = "completed")
  BY <1>1 DEF Steadied, Lives
<1>3. s.cause = None => \A d \in deps : life[d] \in Lost => before[d] \in Lost
  BY <1>1 DEF Steadied, Lives
<1>4. /\ Free(table, c) <=> DependencyState(life, deps, mode) = "satisfied"
      /\ StateIn(table, c) = DependencyState(life, deps, mode)
      /\ DependencyStateOf(table, s.before, c) = DependencyState(before, deps, mode)
  BY DEF Free, StateIn, DependencyStateOf
<1> HIDE DEF life, before, deps, mode
<1>5. DependencyState(before, deps, mode) = "satisfied" <=> DependencyState(life, deps, mode) = "satisfied"
  BY <1>1, <1>2, SatisfiedBefore
<1>6. ASSUME s.cause = None, DependencyState(life, deps, mode) = "blocked"
      PROVE  DependencyState(before, deps, mode) = "blocked"
  <2> DEFINE B == {before[d] : d \in deps}
             N == {life[d] : d \in deps}
  <2>1. Loses(N, deps, mode)
    BY <1>1, <1>6, StateCases
  <2>2. (N \subseteq Lost => B \subseteq Lost) /\ (N \cap Lost # {} => B \cap Lost # {})
    BY <1>3, <1>6
  <2>3. Loses(B, deps, mode)
    BY <2>1, <2>2 DEF Loses
  <2>4. QED
    BY <1>1, <2>3, StateCases
<1>7. QED
  BY <1>4, <1>5, <1>6

\* What a pass does to a child: its wait is given back only if there is none to restore.
LEMMA PassWrites ==
    ASSUME NEW table \in Table, Whole(table), Earned(table), NEW s \in Step, s.step = "resolve",
           Steadied(table, s), NEW c \in s.todo, c \in Ids, Exists(table, c),
           NEW what, what = Resolution(table, s.before, c), what # "nothing"
    PROVE  /\ what \in {"resume", "depBlocked", "deps"} /\ ~IsTerminal(table, c) /\ table[c].deps # {}
           /\ what = "resume" => /\ Free(table, c) /\ HasCapacityToReactivate(table, c)
                                 /\ DependencyWaiting(table, c) \/ (DependencyBlocked(table, c) /\ ~RestoresWait(table, c))
           /\ what = "depBlocked" => /\ DependencyStateOf(table, s.before, c) = "blocked"
                                     /\ ~RestoresWait(table, c) /\ table[c].life # "blocked"
           /\ what = "deps" => \/ /\ Free(table, c) /\ ~HasCapacityToReactivate(table, c)
                                  /\ DependencyBlocked(table, c) /\ ~RestoresWait(table, c)
                               \/ /\ ~Free(table, c) /\ DependencyStateOf(table, s.before, c) = "waiting"
                                  /\ table[c].life = "active" \/ DependencyBlocked(table, c)
<1> DEFINE state == DependencyStateOf(table, s.before, c)
<1>1. state = "satisfied" <=> Free(table, c)
  BY PassStates
<1>2. /\ RestoresWait(table, c) => Free(table, c)
      /\ DependencyBlocked(table, c) => ~RestoresWait(table, c)
      /\ DependencyBlocked(table, c) => table[c].life = "blocked"
  BY DEF Earned, DependencyBlocked
<1>3. ~IsTerminal(table, c) /\ table[c].deps # {}
  BY DEF Resolution
<1>4. what = CASE state = "blocked" /\ table[c].life # "blocked" -> "depBlocked"
               [] /\ state = "satisfied"
                  /\ \/ DependencyWaiting(table, c)
                     \/ DependencyBlocked(table, c) /\ ~RestoresWait(table, c) ->
                       IF HasCapacityToReactivate(table, c) THEN "resume"
                       ELSE IF table[c].life = "blocked" THEN "deps" ELSE "nothing"
               [] state = "satisfied" /\ DependencyBlocked(table, c) /\ RestoresWait(table, c) -> "other"
               [] state = "waiting" /\ (table[c].life = "active" \/ DependencyBlocked(table, c)) ->
                     IF table[c].life = "blocked" /\ RestoresWait(table, c) THEN "other" ELSE "deps"
               [] OTHER -> "nothing"
  BY <1>3 DEF Resolution
<1> HIDE DEF state
<1>5. CASE state = "blocked"
  <2>1. what = IF table[c].life # "blocked" THEN "depBlocked" ELSE "nothing"
    BY <1>4, <1>5
  <2>2. QED
    BY <1>1, <1>2, <1>3, <1>5, <2>1 DEF state
<1>6. CASE state = "satisfied"
  <2>1. DependencyWaiting(table, c) \/ (DependencyBlocked(table, c) /\ ~RestoresWait(table, c))
    BY <1>2, <1>4, <1>6
  <2>2. HasCapacityToReactivate(table, c) => what = "resume"
    BY <1>2, <1>4, <1>6, <2>1
  <2>3. ~HasCapacityToReactivate(table, c) => what = "deps" /\ table[c].life = "blocked"
    BY <1>2, <1>3, <1>4, <1>6, <2>1
  <2>4. what = "deps" => DependencyBlocked(table, c) /\ ~RestoresWait(table, c)
    BY <2>1, <2>2, <2>3 DEF DependencyWaiting
  <2>5. QED
    BY <1>1, <1>3, <1>6, <2>1, <2>2, <2>3, <2>4
<1>7. CASE state = "waiting"
  <2>1. table[c].life = "active" \/ DependencyBlocked(table, c)
    BY <1>4, <1>7
  <2>2. table[c].life = "blocked" => ~RestoresWait(table, c)
    BY <1>2, <2>1
  <2>3. what = "deps"
    BY <1>4, <1>7, <2>1, <2>2
  <2>4. QED
    BY <1>1, <1>3, <1>7, <2>1, <2>3 DEF state
<1>8. CASE state \notin {"blocked", "satisfied", "waiting"}
  BY <1>4, <1>8
<1>9. QED
  BY <1>5, <1>6, <1>7, <1>8

\* And when its result is to be dropped, all it does is park: whom it could activate
\* there is nobody, and whom it could block is blocked.
LEMMA DroppedWrites ==
    ASSUME NEW table \in Table, Whole(table), Earned(table), NEW s \in Step, s.step = "resolve", s.cause = None,
           Steadied(table, s), NEW c \in s.todo, c \in Ids, Exists(table, c), Agrees(table, c),
           NEW what, what = Resolution(table, s.before, c), what # "nothing"
    PROVE  /\ what = "deps" /\ table[c].life \in {"active", "blocked"}
           /\ \/ Free(table, c) /\ ~HasCapacityToReactivate(table, c)
              \/ StateIn(table, c) = "waiting"
<1>1. /\ what \in {"resume", "depBlocked", "deps"} /\ ~IsTerminal(table, c) /\ table[c].deps # {}
      /\ what = "resume" => /\ Free(table, c) /\ HasCapacityToReactivate(table, c)
                            /\ DependencyWaiting(table, c) \/ (DependencyBlocked(table, c) /\ ~RestoresWait(table, c))
      /\ what = "depBlocked" => /\ DependencyStateOf(table, s.before, c) = "blocked"
                                /\ ~RestoresWait(table, c) /\ table[c].life # "blocked"
      /\ what = "deps" => \/ /\ Free(table, c) /\ ~HasCapacityToReactivate(table, c)
                             /\ DependencyBlocked(table, c) /\ ~RestoresWait(table, c)
                          \/ /\ ~Free(table, c) /\ DependencyStateOf(table, s.before, c) = "waiting"
                             /\ table[c].life = "active" \/ DependencyBlocked(table, c)
  BY PassWrites
<1>2. what # "resume"
  BY <1>1 DEF Agrees, Free, StateIn
<1>3. what # "depBlocked"
  <2>1. DependencyStateOf(table, s.before, c) = "blocked" => table[c].life \in Stopped
    BY DEF Steadied
  <2>2. QED
    BY <1>1, <2>1 DEF Stopped, IsTerminal
<1>4. ASSUME ~Free(table, c), DependencyStateOf(table, s.before, c) = "waiting" PROVE StateIn(table, c) = "waiting"
  <2>1. StateIn(table, c) # "blocked"
    BY <1>4, PassStates
  <2>2. StateIn(table, c) \in {"satisfied", "blocked", "waiting"}
    <3>1. table[c].mode \in {"all", "any"}
      BY ChildDeps
    <3>2. QED
      BY <3>1 DEF StateIn, DependencyStateOf, DependencyState
  <2>3. QED
    BY <1>4, <2>1, <2>2 DEF Free
<1>5. QED
  BY <1>1, <1>2, <1>3, <1>4 DEF DependencyBlocked

LEMMA MindedResolve ==
    ASSUME TypeOK, WholeInv, crashed = 0, Minded(asg, scheduled, runs, thread), ResolveChild
    PROVE  Minded(asg', scheduled', runs', thread')
<1> DEFINE s == Head(thread)
           rest == Tail(thread)
<1>1. PICK c \in s.todo :
        LET what == Resolution(asg, s.before, c)
            next == [s EXCEPT
                       !.changed = TRUE,
                       !.todo = @ \ {c},
                       !.activated = IF what = "resume" THEN @ \cup {c} ELSE @,
                       !.lost = IF what = "depBlocked" THEN @ \cup {c} ELSE @]
        IN  what # "nothing" /\ asg' = Resolve(asg, c, what) /\ thread' = <<next>> \o rest
  BY DEF ResolveChild
<1>2. thread # <<>> /\ s.step = "resolve" /\ UNCHANGED <<scheduled, runs>>
  BY DEF ResolveChild
<1> DEFINE what == Resolution(asg, s.before, c)
           next == [s EXCEPT
                      !.changed = TRUE,
                      !.todo = @ \ {c},
                      !.activated = IF what = "resume" THEN @ \cup {c} ELSE @,
                      !.lost = IF what = "depBlocked" THEN @ \cup {c} ELSE @]
           row == Resolve(asg, c, what)[c]
<1>3. what # "nothing" /\ asg' = Resolve(asg, c, what) /\ thread' = <<next>> \o rest
  BY <1>1
<1>4. /\ s \in Step /\ s \in Apt(asg) /\ KnownStep(asg, s)
      /\ rest \in Seq(Step) /\ rest \in Seq(Apt(asg))
      /\ rest \in Seq(KnownSteps(asg)) /\ rest \in Seq(After(s))
      /\ Ordered(rest) /\ Steadied(asg, s) /\ (\A S : Has(thread, S) <=> s \in S \/ Has(rest, S))
      /\ asg \in Table /\ Whole(asg) /\ Earned(asg)
  BY <1>2, MindedHead
<1>5. s \in [step : {"resolve"}, parent : Ids, cause : Ids \cup {None}, changed : BOOLEAN,
             before : [Ids -> LifecycleStates], todo : SUBSET Ids, activated : SUBSET Ids, lost : SUBSET Ids]
  BY <1>2, <1>4, StepFields
<1>6. s = Head(thread) /\ what = Resolution(asg, s.before, c)
  OBVIOUS
<1>7. c \in Ids /\ c \in Children(asg, s.parent) /\ Exists(asg, c) /\ asg[c].parent = s.parent
  <2> HIDE DEF s
  <2>1. QED
    BY <1>2, <1>4, <1>5 DEF KnownStep, Children
<1> HIDE DEF s, rest
<1>8. /\ what \in {"resume", "depBlocked", "deps"} /\ ~IsTerminal(asg, c)
      /\ what = "resume" => Free(asg, c)
      /\ what = "depBlocked" => ~RestoresWait(asg, c)
      /\ what = "resume" => DependencyWaiting(asg, c) \/ (DependencyBlocked(asg, c) /\ ~RestoresWait(asg, c))
  <2> HIDE DEF what
  <2>1. QED
    BY <1>2, <1>3, <1>4, <1>6, <1>7, PassWrites
<1>9. /\ next \in Step /\ next.step = "resolve" /\ next.parent = s.parent /\ next.cause = s.cause
      /\ next.before = s.before /\ next.todo = s.todo \ {c}
      /\ next.activated = IF what = "resume" THEN s.activated \cup {c} ELSE s.activated
  <2> HIDE DEF what
  <2>1. /\ next \in [step : {"resolve"}, parent : Ids, cause : Ids \cup {None}, changed : BOOLEAN,
                     before : [Ids -> LifecycleStates], todo : SUBSET Ids, activated : SUBSET Ids, lost : SUBSET Ids]
        /\ next.parent = s.parent /\ next.cause = s.cause
        /\ next.before = s.before /\ next.todo = s.todo \ {c}
        /\ next.activated = IF what = "resume" THEN s.activated \cup {c} ELSE s.activated
    BY <1>5, <1>7
  <2>2. QED
    BY <2>1 DEF Step
<1> HIDE DEF what, next
<1>10. /\ asg[c] \in Assignment /\ row \in Assignment /\ Rewrites(asg[c], row) /\ asg' = [asg EXCEPT ![c] = row]
       /\ row.life = CASE what = "resume" -> "active" [] what = "deps" -> "waiting" [] what = "depBlocked" -> "blocked"
       /\ row.wait = CASE what = "resume" -> "resumed" [] what = "deps" -> "deps" [] what = "depBlocked" -> asg[c].wait
  <2>1. asg[c] \in Assignment /\ asg[c].life # "absent"
    BY <1>4, <1>7 DEF Table, Exists
  <2>2. CASE what = "resume"
    <3>1. row = Controlled(asg[c], "resume") /\ asg' = [asg EXCEPT ![c] = Controlled(asg[c], "resume")]
      BY <1>3, <1>4, <1>7, <2>2 DEF Resolve, Control, Table
    <3>2. Controlled(asg[c], "resume") \in Assignment /\ Rewrites(asg[c], Controlled(asg[c], "resume"))
      BY <2>1, ControlledType, ControlledRewrites
    <3>3. Controlled(asg[c], "resume").life = "active" /\ Controlled(asg[c], "resume").wait = "resumed"
      BY <2>1 DEF Controlled, Assignment
    <3> HIDE DEF row
    <3>4. QED
      BY <2>1, <2>2, <3>1, <3>2, <3>3
  <2>3. CASE what # "resume"
    <3>1. row = Decided(asg[c], what) /\ asg' = [asg EXCEPT ![c] = Decided(asg[c], what)]
      BY <1>3, <1>4, <1>7, <2>3 DEF Resolve, Decide, Table
    <3>2. what \in Decisions /\ what \in {"deps", "depBlocked"}
      BY <1>8, <2>3 DEF Decisions
    <3>3. Decided(asg[c], what) \in Assignment /\ Rewrites(asg[c], Decided(asg[c], what))
      BY <2>1, <3>2, DecidedType, DecidedRewrites
    <3>4. /\ Decided(asg[c], what).life = IF what = "deps" THEN "waiting" ELSE "blocked"
          /\ Decided(asg[c], what).wait = IF what = "deps" THEN "deps" ELSE asg[c].wait
      BY <2>1, <3>2 DEF Decided, Assignment
    <3> HIDE DEF row
    <3>5. QED
      BY <2>1, <3>1, <3>2, <3>3, <3>4
  <2>4. QED
    BY <2>2, <2>3
<1> HIDE DEF row
<1>11. SameShape(asg[c], row) /\ row.life \in {"active", "waiting", "blocked"} /\ asg[c].life \in {"active", "waiting", "blocked"}
  <2>1. asg[c].life \in {"active", "waiting", "blocked"}
    BY <1>7, <1>8, <1>10 DEF Assignment, LifecycleStates, IsTerminal, Exists
  <2>2. QED
    BY <1>8, <1>10, <2>1 DEF Rewrites
<1>12. Earned(asg') /\ Completes(asg, asg') /\ Kept(asg, asg')
  <2>1. row.life = "active" \/ row.wait \in {"child", "other", "paused"} => Free(asg, c)
    <3>1. row.life = "active" => Free(asg, c)
      BY <1>8, <1>10
    <3>2. row.wait \in {"child", "other", "paused"} => row.wait = asg[c].wait
      BY <1>8, <1>10
    <3>3. QED
      BY <1>4, <1>7, <3>1, <3>2 DEF Earned, RestoresWait
  <2>2. row.life = "blocked" => row.wait \notin {"child", "other", "paused"}
    BY <1>8, <1>10 DEF RestoresWait
  <2>3. asg[c].life # "completed"
    BY <1>11
  <2>4. QED
    BY <1>4, <1>7, <1>10, <1>11, <2>1, <2>2, <2>3, EarnedWrite
<1>13. /\ asg'[c] = row /\ \A d \in Ids \ {c} : asg'[d] = asg[d]
       /\ \A p : Children(asg', p) = Children(asg, p)
       /\ \A d \in Ids : ~IsTerminal(asg, d) => ~IsTerminal(asg', d)
  <2>1. asg'[c] = row /\ \A d \in Ids \ {c} : asg'[d] = asg[d]
    BY <1>4, <1>7, <1>10 DEF Table
  <2>2. \A p : Children(asg', p) = Children(asg, p)
    BY <1>7, <1>11, <2>1, SameChildren
  <2>3. QED
    BY <1>11, <2>1, <2>2 DEF IsTerminal, TerminalStates
\* A resolution whose result is dropped parks c, and nobody else notices.
<1>14. ASSUME s.cause = None
       PROVE  /\ what = "deps"
              /\ \A d \in Children(asg', s.parent) : Agrees(asg', d)
  <2>1. \A d \in Children(asg, s.parent) : Agrees(asg, d)
    BY <1>2, <1>4, <1>14 DEF Apt, Drops
  <2>2. /\ what = "deps" /\ asg[c].life \in {"active", "blocked"}
        /\ \/ Free(asg, c) /\ ~HasCapacityToReactivate(asg, c)
           \/ StateIn(asg, c) = "waiting"
    BY <1>2, <1>3, <1>4, <1>6, <1>7, <1>14, <2>1, DroppedWrites
  <2>3. Occupies(asg[c], row)
    BY <1>8, <1>10, <1>11, <2>2 DEF Occupies, Rewrites, Assignment
  <2>4. StateIn(asg', c) = StateIn(asg, c)
    BY <1>4, <1>7, <1>10, <1>11, OwnState
  <2>5. ~HasCapacityToReactivate(asg, c) => ~HasCapacityToReactivate(asg', c)
    <3>1. asg' \in Table
      BY <1>4, <1>7, <1>10 DEF Table
    <3>2. Tighter(asg, asg', c)
      BY <1>4, <1>7, <1>10, <2>3, OccupiesTighter
    <3>3. asg'[c].parent = asg[c].parent /\ asg'[c].policy = asg[c].policy
      BY <1>10, <1>13 DEF Rewrites, SameShape
    <3>4. QED
      BY <1>4, <1>7, <3>1, <3>2, <3>3, TighterRoom
  <2>6. Agrees(asg', c)
    <3>1. asg'[c].life = "waiting"
      BY <1>10, <1>13, <2>2
    <3>2. StateIn(asg', c) = "waiting" \/ (StateIn(asg', c) = "satisfied" /\ ~HasCapacityToReactivate(asg', c))
      BY <2>2, <2>4, <2>5 DEF Free
    <3>3. QED
      BY <3>1, <3>2 DEF Agrees, StateIn
  <2>7. QED
    BY <1>4, <1>7, <1>10, <2>1, <2>2, <2>3, <2>6, OthersAgree
<1>15. next \in Apt(asg')
  BY <1>9, <1>14 DEF Apt, Drops
<1>16. rest \in Seq(Apt(asg'))
  <2>1. ASSUME NEW u \in KnownSteps(asg), u \in Apt(asg), u \in After(s) PROVE u \in Spared(asg')
    <3>1. u \in Step /\ u.step # "planner"
      BY <2>1 DEF After, Follows
    <3>2. u.step = "decide" => u.decision \notin {"deps", "depBlocked"} /\ ~IsTerminal(asg', u.id)
      BY <1>13, <2>1, <3>1, StepFields DEF After, Follows, Apt
    <3>3. ASSUME Drops(u), NEW d \in Children(asg', u.parent) PROVE Agrees(asg', d)
      <4>1. d \in Children(asg, u.parent) /\ Agrees(asg, d)
        BY <1>13, <2>1, <3>3 DEF Apt
      <4>2. u.parent # s.parent
        BY <1>2, <2>1, <3>3 DEF After, Follows
      <4>3. d \in Ids /\ Exists(asg, d) /\ asg[d].parent # asg[c].parent
        BY <1>7, <4>1, <4>2 DEF Children
      <4>4. QED
        BY <1>4, <1>7, <1>10, <4>1, <4>3, OtherFamily
    <3>4. QED
      BY <3>1, <3>2, <3>3 DEF Spared
  <2>2. (KnownSteps(asg) \cap Apt(asg)) \cap After(s) \subseteq Spared(asg')
    BY <2>1
  <2>3. rest \in Seq(KnownSteps(asg) \cap Apt(asg))
    BY <1>4, StepsIn
  <2>4. rest \in Seq(Spared(asg'))
    BY <1>4, <2>2, <2>3, StepsIn
  <2>5. QED
    BY <1>4, <1>12, <2>4, AptKept
<1>17. Steadied(asg', next)
  <2>1. \A d \in Ids : next.before[d] = "completed" <=> asg'[d].life = "completed"
    BY <1>2, <1>4, <1>7, <1>9, <1>11, <1>13 DEF Steadied
  <2>2. ASSUME next.cause = None, NEW d \in Ids, asg'[d].life \in Lost PROVE next.before[d] \in Lost
    <3>1. asg'[c].life = "waiting"
      BY <1>9, <1>10, <1>13, <1>14, <2>2
    <3>2. d # c
      BY <2>2, <3>1 DEF Lost, TerminalStates
    <3>3. QED
      BY <1>2, <1>7, <1>4, <1>9, <1>13, <2>2, <3>2 DEF Steadied
  <2>3. ASSUME next.cause = None, NEW d \in next.todo, DependencyStateOf(asg', next.before, d) = "blocked"
        PROVE  asg'[d].life \in Stopped
    <3>1. d \in s.todo /\ d # c /\ d \in Ids
      BY <1>5, <1>9, <2>3
    <3>2. DependencyStateOf(asg, s.before, d) = "blocked"
      BY <1>9, <1>13, <2>3, <3>1 DEF DependencyStateOf
    <3>3. QED
      BY <1>2, <1>4, <1>9, <1>13, <2>3, <3>1, <3>2 DEF Steadied
  <2>4. QED
    BY <2>1, <2>2, <2>3 DEF Steadied
<1>18. Ordered(thread') /\ thread' \in Seq(Apt(asg')) /\ Head(thread') = next
  <2>1. After(s) \subseteq After(next)
    BY <1>2, <1>9 DEF After, Follows
  <2>2. rest \in Seq(After(next))
    BY <1>4, <2>1
  <2>3. Ordered(<<next>> \o rest)
    BY <1>4, <1>9, <2>2, OrderedFirst
  <2>4. QED
    BY <1>3, <1>9, <1>15, <1>16, <2>3
<1>19. \A S : Has(thread', S) <=> next \in S \/ Has(rest, S)
  BY <1>3, <1>4, <1>9, HasFirst
<1>20. \A b : /\ next \notin Acting(b) /\ next \notin Postponing(b)
              /\ s \notin Scheduling(b) /\ (s \in Minding(b) => next \in Minding(b))
  BY <1>2, <1>4, <1>9 DEF Acting, Postponing, Scheduling, Minding
<1>21. \A r \in runs : Free(asg', r.id) /\ ~IsTerminal(asg', r.id) /\ ~Has(thread', Acting(r.id))
  <2>1. \A r \in runs : r.id \in Ids /\ Free(asg', r.id) /\ ~IsTerminal(asg, r.id) /\ ~Has(thread, Acting(r.id))
    BY <1>12, RunsGoOn DEF Minded
  <2>2. QED
    BY <1>4, <1>13, <1>19, <1>20, <2>1
<1>22. ASSUME NEW b \in Ids, Expects(asg', b)
       PROVE  b \in scheduled \/ (\E r \in runs : r.id = b) \/ Has(thread', Minding(b))
  <2>1. CASE b = c /\ what = "resume"
    <3>1. s.cause # None /\ c \in next.activated
      BY <1>9, <1>14, <2>1
    <3>2. next \in Minding(c)
      BY <1>9, <3>1 DEF Minding
    <3>3. QED
      BY <1>19, <2>1, <3>2
  <2>2. CASE b = c /\ what # "resume"
    BY <1>8, <1>10, <1>13, <1>22, <2>2 DEF Expects
  <2>3. CASE b # c
    <3>1. Expects(asg, b)
      BY <1>13, <1>22, <2>3 DEF Expects
    <3>2. b \in scheduled \/ (\E r \in runs : r.id = b) \/ Has(thread, Minding(b))
      BY <3>1 DEF Minded
    <3>3. QED
      BY <1>4, <1>19, <1>20, <3>2
  <2>4. QED
    BY <2>1, <2>2, <2>3
<1>23. \A b \in Ids : Has(thread', Postponing(b)) => b \in scheduled \/ Has(thread', Scheduling(b))
  BY <1>4, <1>19, <1>20 DEF Minded
<1>24. QED
  BY <1>2, <1>12, <1>17, <1>18, <1>21, <1>22, <1>23 DEF Minded

-----------------------------------------------------------------------------
(* Intake and the operator *)

LEMMA MindedIntake ==
    ASSUME TypeOK, WholeInv, crashed = 0, Minded(asg, scheduled, runs, thread),
           NEW a \in Roots, NEW policy \in Policies, Intake(a, policy)
    PROVE  Minded(asg', scheduled', runs', thread')
<1>1. /\ asg \in Table /\ Whole(asg) /\ Earned(asg) /\ a \in Ids /\ thread = <<>> /\ ~Exists(asg, a)
      /\ asg' = [asg EXCEPT ![a] = NewAssignment(policy)] /\ thread' = <<ScheduleStep({a})>>
      /\ UNCHANGED <<scheduled, runs>>
  BY PlannerAssumption DEF TypeOK, Table, WholeInv, Minded, Intake, Idle
<1>2. Kept(asg, asg')
  BY <1>1, RootKept
<1>3. /\ \A d \in Ids \ {a} : asg'[d] = asg[d]
      /\ asg'[a].life = "active" /\ asg'[a].wait = "none" /\ asg'[a].deps = {} /\ asg'[a].parent = None
  BY <1>1 DEF Table, NewAssignment
<1>4. Completes(asg, asg')
  BY <1>1, <1>3 DEF Completes, Exists
<1>5. Free(asg', a)
  BY <1>3 DEF Free, StateIn, DependencyStateOf, DependencyState
<1>6. Earned(asg')
  <2>1. ASSUME NEW d \in Ids, Exists(asg', d)
        PROVE  /\ asg'[d].life = "active" \/ RestoresWait(asg', d) => Free(asg', d)
               /\ DependencyBlocked(asg', d) => ~RestoresWait(asg', d)
               /\ asg'[d].parent # d
    <3>1. CASE d = a
      BY <1>1, <1>3, <1>5, <3>1, NoneAssumption DEF RestoresWait
    <3>2. CASE d # a
      <4>1. Exists(asg, d)
        BY <1>3, <2>1, <3>2 DEF Exists
      <4>2. Free(asg, d) => Free(asg', d)
        BY <1>1, <1>2, <1>4, <4>1, FreeStays
      <4>3. QED
        BY <1>1, <1>3, <3>2, <4>1, <4>2 DEF RestoresWait, DependencyBlocked, Earned
    <3>3. QED
      BY <3>1, <3>2
  <2>2. QED
    BY <2>1 DEF Earned
<1> DEFINE t == thread'
<1>7. Starts(t, ScheduleStep({a}), <<>>)
  BY <1>1 DEF Starts
<1> HIDE DEF t
<1>8. /\ t \in Seq(Apt(asg')) /\ Ordered(t) /\ Steadied(asg', Head(t))
      /\ (\A b : ~Has(t, Acting(b)) /\ ~Has(t, Postponing(b))) /\ Has(t, Minding(a))
  <2>1. <<>> \in Seq(Step) /\ Ordered(<<>>) /\ <<>> \in Seq(Later(Ids)) /\ <<>> \in Seq(Apt(asg'))
    BY OrderedNone
  <2>2. {a} \in SUBSET Ids /\ a \in {a}
    BY <1>1
  <2> DEFINE rest == <<>>
  <2>3. /\ rest \in Seq(Step) /\ Ordered(rest) /\ rest \in Seq(Later(Ids)) /\ rest \in Seq(Apt(asg'))
        /\ Starts(t, ScheduleStep({a}), rest) /\ \A S : ~Has(rest, S)
    BY <1>7, <2>1, HasNone
  <2> HIDE DEF rest
  <2>4. QED
    BY <2>2, <2>3, ScheduleBefore
<1>9. t = thread'
  BY DEF t
<1>10. \A r \in runs : Free(asg', r.id) /\ ~IsTerminal(asg', r.id) /\ ~Has(t, Acting(r.id))
  <2>1. \A r \in runs : r.id \in Ids /\ Exists(asg, r.id) /\ Free(asg', r.id) /\ ~IsTerminal(asg, r.id)
    BY <1>2, <1>4, RunsGoOn
  <2>2. QED
    BY <1>1, <1>3, <1>8, <2>1 DEF IsTerminal
<1>11. ASSUME NEW b \in Ids, Expects(asg', b)
       PROVE  b \in scheduled \/ (\E r \in runs : r.id = b) \/ Has(t, Minding(b))
  <2>1. CASE b = a
    BY <1>8, <2>1
  <2>2. CASE b # a
    <3>1. Expects(asg, b)
      BY <1>3, <1>11, <2>2 DEF Expects
    <3>2. QED
      BY <1>1, <3>1, HasNone DEF Minded
  <2>3. QED
    BY <2>1, <2>2
<1>12. QED
  BY <1>1, <1>6, <1>8, <1>9, <1>10, <1>11 DEF Minded

LEMMA MindedControl ==
    ASSUME HarmlessRules, TypeOK, WholeInv, AgreeInv, crashed = 0, Minded(asg, scheduled, runs, thread),
           NEW a \in Ids, NEW action, ControlRequest(a, action)
    PROVE  Minded(asg', scheduled', runs', thread')
<1> DEFINE row == Controlled(asg[a], action)
           p == asg[a].parent
           dropped == IF action = "add_context" THEN <<>> ELSE Refresh(p)
           kept == IF action = "force_wakeup" THEN <<ScheduleStep({a})>> ELSE Continue(p, a)
<1>1. /\ action \in {"pause", "force_wakeup", "add_context"} /\ thread = <<>> /\ UNCHANGED <<scheduled, runs>>
      /\ Exists(asg, a) /\ ControlAllowed(asg, a, action)
      /\ asg' = [asg EXCEPT ![a] = row] /\ thread' = dropped \o kept
      /\ asg \in Table /\ Whole(asg) /\ Earned(asg)
  BY DEF ControlRequest, Controls, Operates, Control, Idle, HarmlessRules, TypeOK, Table, WholeInv, Minded
<1>2. /\ asg[a] \in Assignment /\ row \in Assignment /\ Rewrites(asg[a], row) /\ p \in Ids \cup {None}
  <2>1. asg[a] \in Assignment /\ asg[a].life # "absent" /\ p \in Ids \cup {None}
    BY <1>1 DEF Table, Exists, Assignment
  <2>2. QED
    BY <2>1, ControlledType, ControlledRewrites
<1>3. /\ action = "pause" => /\ asg[a].life = "active" /\ row.life = "waiting" /\ row.wait = "paused"
                             /\ row.depBlocked = asg[a].depBlocked
      /\ action # "pause" => row = asg[a]
  BY <1>1, <1>2 DEF ControlAllowed, Controlled, Assignment
<1>4. \A c \in Ids : Exists(asg, c) => Agrees(asg, c)
  BY <1>1, AllAgree
<1>5. p = asg[a].parent
  OBVIOUS
<1>6. /\ action = "add_context" => dropped = <<>>
      /\ action # "add_context" => dropped = Refresh(p)
      /\ action = "force_wakeup" => kept = <<ScheduleStep({a})>>
      /\ action # "force_wakeup" => kept = Continue(p, a)
  OBVIOUS
<1> HIDE DEF row, p, dropped, kept
<1>7. SameShape(asg[a], row)
  BY <1>2 DEF Rewrites
<1>8. Earned(asg') /\ Completes(asg, asg') /\ Kept(asg, asg')
  <2>1. row.life = "active" \/ row.wait \in {"child", "other", "paused"} => Free(asg, a)
    <3>1. asg[a].life = "active" \/ asg[a].wait \in {"child", "other", "paused"} => Free(asg, a)
      BY <1>1 DEF Earned, RestoresWait
    <3>2. QED
      BY <1>3, <3>1
  <2>2. row.life = "blocked" /\ row.depBlocked => row.wait \notin {"child", "other", "paused"}
    <3>1. asg[a].life = "blocked" /\ asg[a].depBlocked => asg[a].wait \notin {"child", "other", "paused"}
      BY <1>1 DEF Earned, RestoresWait, DependencyBlocked
    <3>2. QED
      BY <1>3, <3>1
  <2>3. asg[a].life = "completed" => row.life = "completed"
    BY <1>3
  <2>4. QED
    BY <1>1, <1>2, <1>7, <2>1, <2>2, <2>3, EarnedWrite
<1>9. asg'[a] = row /\ \A d \in Ids \ {a} : asg'[d] = asg[d]
  BY <1>1 DEF Table
<1>10. \A c \in Ids : Exists(asg', c) => Agrees(asg', c)
  <2>1. CASE action = "pause"
    <3>1. Occupies(asg[a], row)
      BY <1>2, <1>3, <2>1 DEF Occupies, Rewrites, Assignment
    <3>2. Free(asg', a)
      BY <1>1, <1>3, <1>8, <2>1, FreeStays DEF Earned
    <3>3. Agrees(asg', a)
      BY <1>3, <1>9, <2>1, <3>2 DEF Agrees, Free, StateIn, DependencyWaiting, DependencyBlocked
    <3>4. ASSUME NEW c \in Ids, Exists(asg', c), c # a PROVE Agrees(asg', c)
      <4>1. Agrees(asg, c)
        BY <1>4, <1>9, <3>4 DEF Exists
      <4>2. QED
        BY <1>1, <1>2, <3>1, <3>4, <4>1, OccupiesAgreement
    <3>5. QED
      BY <3>3, <3>4
  <2>2. CASE action # "pause"
    <3>1. asg' = asg
      BY <1>1, <1>3, <2>2 DEF Table
    <3>2. QED
      BY <1>4, <3>1
  <2>3. QED
    BY <2>1, <2>2
\* Nothing in the callback decides about anybody.
<1>11. /\ kept \in Seq(Step) /\ kept \in Seq(Apt(asg')) /\ Ordered(kept) /\ kept \in Seq(Later(Ids))
       /\ kept \in Seq({u \in Step : ~Drops(u)})
       /\ \A b : ~Has(kept, Acting(b)) /\ ~Has(kept, Postponing(b))
  <2>1. CASE action = "force_wakeup"
    <3> DEFINE s == ScheduleStep({a})
    <3>1. s \in Step /\ s.step = "schedule" /\ kept = <<s>>
      <4>1. {a} \in SUBSET Ids
        OBVIOUS
      <4>2. QED
        BY <1>6, <2>1, <4>1 DEF ScheduleStep, Step
    <3> HIDE DEF s
    <3>2. /\ s \in Apt(asg') /\ s \in Later(Ids) /\ s \in {u \in Step : ~Drops(u)}
          /\ \A b : s \notin Acting(b) /\ s \notin Postponing(b)
      BY <3>1 DEF Apt, Later, Drops, Acting, Postponing
    <3>3. Len(kept) = 1 /\ kept[1] = s
      BY <3>1
    <3>4. QED
      BY <3>1, <3>2, <3>3 DEF Has, Ordered
  <2>2. CASE action # "force_wakeup"
    <3>1. kept \in Seq(Unbegun(p, a)) /\ Ordered(kept)
      BY <1>2, <1>6, <2>2, UnbegunResolutions
    <3>2. a # None
      BY NoneAssumption
    <3>3. ASSUME NEW u \in Unbegun(p, a)
          PROVE  /\ u \in Step /\ u \in Apt(asg') /\ u \in Later(Ids) /\ u \in {v \in Step : ~Drops(v)}
                 /\ \A b : u \notin Acting(b) /\ u \notin Postponing(b)
      <4>1. /\ u \in Step /\ ~Drops(u) /\ u \in Apt(asg')
            /\ \A b : u \notin Acting(b) /\ u \notin Postponing(b)
        BY <3>2, UnbegunSteps
      <4>2. u \in Later(Ids)
        <5>1. u.step = "resolve" /\ u.todo = {} /\ u \in Step
          BY DEF Unbegun
        <5>2. u.parent \in Ids
          BY <5>1, StepFields
        <5>3. QED
          BY <5>1, <5>2 DEF Later
      <4>3. QED
        BY <4>1, <4>2
    <3>4. \A b : Unbegun(p, a) \cap Acting(b) = {} /\ Unbegun(p, a) \cap Postponing(b) = {}
      BY <3>3
    <3>5. \A b : ~Has(kept, Acting(b)) /\ ~Has(kept, Postponing(b))
      BY <3>1, <3>4, HasNot
    <3>6. QED
      BY <3>1, <3>3, <3>5
  <2>3. QED
    BY <2>1, <2>2
<1> DEFINE t == thread'
<1>12. t = kept \/ (p \in Ids /\ Starts(t, ResolveStep(p, None), kept))
  <2>1. dropped = <<>> \/ (p # None /\ dropped = <<ResolveStep(p, None)>>)
    BY <1>6 DEF Refresh
  <2>2. dropped = <<>> => t = kept
    BY <1>1, <1>11
  <2>3. p # None => p \in Ids
    BY <1>2
  <2>4. QED
    BY <1>1, <2>1, <2>2, <2>3 DEF Starts
<1> HIDE DEF t
<1>13. /\ t \in Seq(Apt(asg')) /\ Ordered(t) /\ (t # <<>> => Steadied(asg', Head(t)))
       /\ \A b : ~Has(t, Acting(b)) /\ ~Has(t, Postponing(b))
  <2>1. CASE t = kept
    <3>1. kept # <<>> => Head(kept) \in Later(Ids)
      BY <1>11
    <3>2. kept # <<>> => Steadied(asg', Head(kept))
      BY <3>1 DEF Later, Steadied
    <3>3. QED
      BY <1>11, <2>1, <3>2
  <2>2. CASE p \in Ids /\ Starts(t, ResolveStep(p, None), kept)
    <3>1. \A c \in Children(asg', p) : Agrees(asg', c)
      BY <1>10 DEF Children
    <3>2. kept \in Seq({u \in Step : Drops(u) => u.parent # p})
      BY <1>11
    <3>3. QED
      BY <1>11, <2>2, <3>1, <3>2, ResolveBefore
  <2>3. QED
    BY <1>12, <2>1, <2>2
<1>14. t = thread'
  BY DEF t
<1>15. \A r \in runs : Free(asg', r.id) /\ ~IsTerminal(asg', r.id) /\ ~Has(t, Acting(r.id))
  <2>1. \A r \in runs : r.id \in Ids /\ Free(asg', r.id) /\ ~IsTerminal(asg, r.id)
    BY <1>8, RunsGoOn
  <2>2. ~IsTerminal(asg, a) => ~IsTerminal(asg', a)
    BY <1>1, <1>3, <1>9 DEF IsTerminal, TerminalStates
  <2>3. QED
    BY <1>9, <1>13, <2>1, <2>2 DEF IsTerminal
<1>16. ASSUME NEW b \in Ids, Expects(asg', b) PROVE b \in scheduled \/ (\E r \in runs : r.id = b)
  <2>1. Expects(asg, b)
    BY <1>1, <1>3, <1>9, <1>16 DEF Expects
  <2>2. QED
    BY <1>1, <2>1, HasNone DEF Minded
<1>17. QED
  BY <1>1, <1>8, <1>13, <1>14, <1>15, <1>16 DEF Minded

-----------------------------------------------------------------------------
(* Every step *)

LEMMA MindedStep ==
    ASSUME HarmlessRules, TypeOK, WholeInv, FlightInv, LedInv, AgreeInv, MindedInv, [Next]_vars
    PROVE  MindedInv'
<1> SUFFICES ASSUME crashed' = 0 PROVE Minded(asg', scheduled', runs', thread')
  BY DEF MindedInv
<1>1. CASE UNCHANGED vars
  <2>1. UNCHANGED <<asg, scheduled, runs, thread, crashed>>
    BY <1>1 DEF vars
  <2>2. QED
    BY <2>1 DEF MindedInv
<1>2. CASE CrashAndRestart
  <2>1. crashed' = crashed + 1 /\ crashed \in Nat
    BY <1>2, PlannerAssumption DEF CrashAndRestart, TypeOK
  <2>2. QED
    BY <2>1
<1>3. ASSUME NEW a \in Roots, NEW policy \in Policies, Intake(a, policy)
      PROVE  Minded(asg', scheduled', runs', thread')
  <2>1. crashed = 0
    BY <1>3 DEF Intake
  <2>2. QED
    BY <1>3, <2>1, MindedIntake DEF MindedInv
<1>4. CASE OperatorRequest
  <2>1. \A action \in {"create", "promote", "change_policy"} : action \notin OperatorActions
    BY DEF HarmlessRules
  <2>2. PICK a \in Ids, action \in AllOperatorActions : ControlRequest(a, action)
    BY <1>4, <2>1 DEF OperatorRequest, AdminCreate, AdminPromote, ChangePolicy, Controls, Operates
  <2>3. crashed = 0
    BY <2>2 DEF ControlRequest, Controls, Operates
  <2>4. QED
    BY <2>2, <2>3, MindedControl DEF MindedInv
<1>5. ASSUME NEW a \in Ids, FireJob(a) PROVE Minded(asg', scheduled', runs', thread')
  <2>1. crashed = 0
    BY <1>5 DEF FireJob, SkipWakeup, ExpireIdle, RefuseLostDependency, RefusePendingDependency, RefuseReserved,
                StartWakeup, Wakes, Fires
  <2>2. QED
    BY <1>5, <2>1, MindedFire DEF MindedInv
<1>6. ASSUME NEW r \in runs, RunEnds(r) PROVE Minded(asg', scheduled', runs', thread')
  <2>1. crashed = 0
    BY <1>6 DEF RunEnds, RunReturns, MutationEnds, RunFails
  <2>2. QED
    BY <1>6, <2>1, MindedRun DEF MindedInv
<1>7. CASE ThreadStep
  <2>1. crashed = 0
    BY <1>7 DEF ThreadStep, PromoteChild, NoChild, TakeDecision, ScheduleNext, ResolveChild, NextPass,
                EndResolution, Release
  <2>2. Minded(asg, scheduled, runs, thread)
    BY <2>1 DEF MindedInv
  <2>3. ASSUME NEW c \in FreshChildren, PromoteChild(c) PROVE Minded(asg', scheduled', runs', thread')
    BY <2>1, <2>2, <2>3, MindedPromote
  <2>4. CASE Release
    BY <2>2, <2>4 DEF Release
  <2>5. QED
    BY <1>7, <2>1, <2>2, <2>3, <2>4, MindedNoChild, MindedDecision, MindedSchedule, MindedResolve, MindedPass,
       MindedEnd DEF ThreadStep
<1>8. QED
  BY <1>1, <1>2, <1>3, <1>4, <1>5, <1>6, <1>7 DEF Next

\* Whoever an earlier process has left active, paused or put off had nothing to wait for.
EarnedTables == \A table \in InitialTables : Earned(table)

LEMMA MindedInit ==
    ASSUME EarnedTables, Init
    PROVE  MindedInv
<1>1. /\ asg \in InitialTables /\ runs = {} /\ thread = <<>>
      /\ scheduled = {a \in Ids : asg[a].life = "active" \/ AwaitsWakeup(a)}
  BY DEF Init
<1>2. Earned(asg)
  BY <1>1 DEF EarnedTables
<1>3. thread \in Seq(Apt(asg)) /\ Ordered(thread) /\ \A S : ~Has(thread, S)
  BY <1>1, OrderedNone, HasNone
<1>4. \A a \in Ids : Expects(asg, a) => a \in scheduled
  BY <1>1 DEF Expects, AwaitsWakeup
<1>5. QED
  BY <1>1, <1>2, <1>3, <1>4 DEF MindedInv, Minded

\* NeverForgotten: between two callbacks, until a process dies, every assignment that is
\* active or waits for anything but its siblings has a wakeup job or a wakeup under way:
\* no path of wakeup-planner.ts or service.ts through a wakeup, its answer, the promotion
\* of a child and the resolution of the siblings loses one, and what a resolution whose
\* result is dropped could have activated was activated before.  For any depth, any number
\* of assignments and any policies, wakeups that overlap, fail, expire or are refused, and
\* an operator who pauses, forces wakeups and adds context.  The operator's other requests
\* forget assignments: what they create, resume or activate is scheduled by nobody.
THEOREM NeverForgottenAlways ==
    ASSUME WholeTables, AgreeingTables, EarnedTables, HarmlessRules
    PROVE  Spec => []NeverForgotten
<1>1. FixedPolicies
  BY DEF HarmlessRules, FixedPolicies
<1>2. Init => WholeInv /\ PassInv /\ LedInv /\ AgreeInv /\ FlightInv /\ MindedInv
  <2> SUFFICES ASSUME Init PROVE WholeInv /\ PassInv /\ LedInv /\ AgreeInv /\ FlightInv /\ MindedInv
    OBVIOUS
  <2>1. WholeInv /\ FlightInv /\ MindedInv
    BY WholeInit, InitFlight, MindedInit
  <2>2. thread = <<>> /\ asg \in InitialTables
    BY DEF Init
  <2>3. PassInv
    BY <2>2 DEF PassInv
  <2>4. LedInv
    BY <2>2, LedIdle DEF LedInv
  <2>5. AgreeInv
    BY <2>2 DEF AgreeingTables, AgreeInv
  <2>6. QED
    BY <2>1, <2>3, <2>4, <2>5
<1>3. TypeOK /\ WholeInv /\ PassInv /\ LedInv /\ AgreeInv /\ FlightInv /\ MindedInv /\ [Next]_vars
        => WholeInv' /\ PassInv' /\ LedInv' /\ AgreeInv' /\ FlightInv' /\ MindedInv'
  BY <1>1, WholeStep, PassStep, AgreeStep, NextFlight, MindedStep
<1>4. FlightInv /\ MindedInv => NeverForgotten
  <2> SUFFICES ASSUME FlightInv, MindedInv, Idle, crashed = 0, NEW a \in Ids,
                      asg[a].life = "active" \/ AwaitsWakeup(a)
               PROVE  a \in scheduled \cup activeWakeups
    BY DEF NeverForgotten
  <2>1. a \in scheduled \/ (\E r \in runs : r.id = a)
    BY HasNone DEF MindedInv, Minded, Expects, AwaitsWakeup, Idle
  <2>2. QED
    BY <2>1 DEF FlightInv, SingleFlight
<1>5. QED
  BY <1>2, <1>3, <1>4, TypeCorrect, PTL DEF Spec
=============================================================================
