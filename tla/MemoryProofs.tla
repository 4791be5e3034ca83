---------------------------- MODULE MemoryProofs ----------------------------
(***************************************************************************)
(* Proofs about Memory, for any runs, insights, policies, initial rows and  *)
(* bounds, any order of the awaits, any failures, deaths and mutations.     *)
(***************************************************************************)
EXTENDS Memory, FiniteSetTheorems, SequenceTheorems, WellFoundedInduction, NaturalsInduction, TLAPS

\* The types of what the agent runs and the mutations share; a worker holds ids of rows.
StoreTyped ==
    /\ entries \in Seq(Entry) /\ Len(entries) <= MaxEntries
    /\ links \subseteq Ids \X Ids
    /\ reinforced \subseteq DOMAIN entries /\ points \subseteq DOMAIN entries
    /\ policy \in Policy /\ policy.cluster <= policy.trigger
    /\ available \in BOOLEAN
    /\ work \in [Workers -> Work]
    /\ \A w \in Workers : work[w].ids \subseteq DOMAIN entries
    /\ mutations \in Seq(Mutation)
    /\ DOMAIN made \subseteq DOMAIN entries
    /\ made \in [DOMAIN made -> [from : SUBSET Ids, since : 0..MaxEntries]]
    /\ faults \in Nat /\ crashes \in Nat
    /\ faults + crashes + Len(mutations) <= MaxIncidents

-----------------------------------------------------------------------------
(* Numbers *)

\* The least of a set of naturals is one of them.
LEMMA MinFacts ==
    ASSUME NEW S \in SUBSET Nat, S # {}
    PROVE  Min(S) \in S
<1> DEFINE R == OpToRel(<, Nat)
<1>1. IsWellFoundedOn(R, Nat)
  BY NatLessThanWellFounded
<1>2. R = {ss \in Nat \X Nat : ss[1] < ss[2]}
  BY Zenon DEF OpToRel
<1> HIDE DEF R
<1>3. \A x, y \in Nat : x < y => <<x, y>> \in R
  BY <1>2
<1>4. PICK x \in S : \A y \in S : <<y, x>> \notin R
  BY <1>1, WFMin
<1>5. ASSUME NEW y \in S PROVE x <= y
  <2>1. x \in Nat /\ y \in Nat
    OBVIOUS
  <2>2. ~(y < x)
    BY <1>3, <1>4, <2>1, Zenon
  <2>3. QED
    BY <2>1, <2>2
<1>6. QED
  BY <1>5 DEF Min

\* The lesser of two integers.
LEMMA MinOfTwo ==
    ASSUME NEW a \in Int, NEW b \in Int
    PROVE  Min({a, b}) \in {a, b} /\ Min({a, b}) <= a /\ Min({a, b}) <= b
<1>1. \E x \in {a, b} : \A y \in {a, b} : x <= y
  OBVIOUS
<1>2. QED
  BY <1>1 DEF Min

-----------------------------------------------------------------------------
(* Rows *)

\* What every write to the rows respects: none goes, none changes kind, a deleted
\* one stays deleted, and one that is in a summary stays in one.
Grown(old, new) ==
    /\ Len(old) <= Len(new)
    /\ \A e \in DOMAIN old :
          /\ new[e].kind = old[e].kind
          /\ old[e].state = "deleted" => new[e].state = "deleted"
          /\ old[e].parent # 0 => new[e].parent # 0

\* The rows are rewritten in place.
LEMMA Rewritten ==
    ASSUME NEW S, NEW s \in Seq(S), NEW T, NEW t, DOMAIN t = DOMAIN s,
           t = [e \in DOMAIN s |-> t[e]], \A e \in DOMAIN s : t[e] \in T
    PROVE  t \in Seq(T) /\ Len(t) = Len(s)
<1>1. DOMAIN s = 1..Len(s) /\ Len(s) \in Nat
  BY LenProperties
<1>2. t \in [1..Len(s) -> T]
  BY <1>1
<1>3. QED
  BY <1>1, <1>2, SeqDef, LenProperties

LEMMA RowOf ==
    ASSUME NEW e \in Entry
    PROVE  /\ e.kind \in Kinds /\ e.state \in States /\ e.parent \in 0..MaxEntries
           /\ e.embedded \in BOOLEAN /\ e.synced \in BOOLEAN
BY DEF Entry

LEMMA StateWritten ==
    ASSUME NEW e \in Entry, NEW state \in States
    PROVE  LET n == [e EXCEPT !.state = state]
           IN  /\ n \in Entry /\ n.state = state /\ n.kind = e.kind
               /\ n.parent = e.parent /\ n.synced = e.synced /\ n.embedded = e.embedded
BY DEF Entry

LEMMA SyncedWritten ==
    ASSUME NEW e \in Entry, NEW ok \in BOOLEAN
    PROVE  LET n == [e EXCEPT !.synced = ok]
           IN  /\ n \in Entry /\ n.synced = ok /\ n.kind = e.kind /\ n.state = e.state
               /\ n.parent = e.parent /\ n.embedded = e.embedded
BY DEF Entry

LEMMA EmbeddedWritten ==
    ASSUME NEW e \in Entry, NEW ok \in BOOLEAN
    PROVE  LET n == [e EXCEPT !.embedded = ok]
           IN  /\ n \in Entry /\ n.synced = e.synced /\ n.kind = e.kind /\ n.state = e.state
               /\ n.parent = e.parent
BY DEF Entry

LEMMA ParentWritten ==
    ASSUME NEW e \in Entry, NEW p \in 0..MaxEntries
    PROVE  LET n == [e EXCEPT !.parent = p]
           IN  /\ n \in Entry /\ n.parent = p /\ n.kind = e.kind /\ n.state = e.state
               /\ n.synced = e.synced
BY DEF Entry

LEMMA InStateRows ==
    ASSUME StoreTyped, NEW S, NEW state \in States
    PROVE  LET n == InState(S, state)
           IN  /\ n \in Seq(Entry) /\ Len(n) = Len(entries) /\ Grown(entries, n)
               /\ \A e \in DOMAIN entries :
                     /\ n[e].synced = entries[e].synced
                     /\ n[e].state = IF e \in S /\ Live(e) THEN state ELSE entries[e].state
<1> DEFINE n == InState(S, state)
<1>1. n = [e \in DOMAIN entries |-> n[e]] /\ DOMAIN n = DOMAIN entries
  BY DEF InState
<1>2. \A e \in DOMAIN entries :
         /\ n[e] = IF e \in S /\ Live(e) THEN [entries[e] EXCEPT !.state = state] ELSE entries[e]
         /\ entries[e] \in Entry
  BY DEF InState, StoreTyped
<1>3. \A e \in DOMAIN entries :
         /\ n[e] \in Entry /\ n[e].synced = entries[e].synced /\ n[e].kind = entries[e].kind
         /\ n[e].parent = entries[e].parent
         /\ n[e].state = IF e \in S /\ Live(e) THEN state ELSE entries[e].state
  <2> TAKE e \in DOMAIN entries
  <2>1. CASE e \in S /\ Live(e)
    <3>1. entries[e] \in Entry /\ n[e] = [entries[e] EXCEPT !.state = state]
      BY <1>2, <2>1
    <3>2. QED
      BY <2>1, <3>1, StateWritten
  <2>2. CASE ~(e \in S /\ Live(e))
    BY <1>2, <2>2
  <2>3. QED
    BY <2>1, <2>2
<1> HIDE DEF n
<1>4. n \in Seq(Entry) /\ Len(n) = Len(entries)
  BY <1>1, <1>3, Rewritten DEF StoreTyped
<1>5. Grown(entries, n)
  BY <1>3, <1>4, LenProperties DEF Grown, Live, StoreTyped
<1>6. QED
  BY <1>3, <1>4, <1>5 DEF n

LEMMA MarkedRows ==
    ASSUME StoreTyped, NEW S, NEW ok \in BOOLEAN
    PROVE  LET n == Marked(S, ok)
           IN  /\ n \in Seq(Entry) /\ Len(n) = Len(entries) /\ Grown(entries, n)
               /\ \A e \in DOMAIN entries :
                     /\ n[e].state = entries[e].state
                     /\ n[e].synced = IF e \in S /\ Live(e) THEN ok ELSE entries[e].synced
<1> DEFINE n == Marked(S, ok)
<1>1. n = [e \in DOMAIN entries |-> n[e]] /\ DOMAIN n = DOMAIN entries
  BY DEF Marked
<1>2. \A e \in DOMAIN entries :
         /\ n[e] = IF e \in S /\ Live(e) THEN [entries[e] EXCEPT !.synced = ok] ELSE entries[e]
         /\ entries[e] \in Entry
  BY DEF Marked, StoreTyped
<1>3. \A e \in DOMAIN entries :
         /\ n[e] \in Entry /\ n[e].state = entries[e].state /\ n[e].kind = entries[e].kind
         /\ n[e].parent = entries[e].parent
         /\ n[e].synced = IF e \in S /\ Live(e) THEN ok ELSE entries[e].synced
  <2> TAKE e \in DOMAIN entries
  <2>1. CASE e \in S /\ Live(e)
    <3>1. entries[e] \in Entry /\ n[e] = [entries[e] EXCEPT !.synced = ok]
      BY <1>2, <2>1
    <3>2. QED
      BY <2>1, <3>1, SyncedWritten
  <2>2. CASE ~(e \in S /\ Live(e))
    BY <1>2, <2>2
  <2>3. QED
    BY <2>1, <2>2
<1> HIDE DEF n
<1>4. n \in Seq(Entry) /\ Len(n) = Len(entries)
  BY <1>1, <1>3, Rewritten DEF StoreTyped
<1>5. Grown(entries, n)
  BY <1>3, <1>4, LenProperties DEF Grown, StoreTyped
<1>6. QED
  BY <1>3, <1>4, <1>5 DEF n

LEMMA UndoneRows ==
    ASSUME StoreTyped, NEW m
    PROVE  LET n == Undone(m)
           IN  /\ n \in Seq(Entry) /\ Len(n) = Len(entries) /\ Grown(entries, n)
               /\ \A e \in DOMAIN entries :
                     /\ n[e].synced = entries[e].synced
                     /\ n[e].state = IF e \in Created(m) THEN "deleted"
                                     ELSE IF e \in Touched(m) /\ Live(e) THEN "active"
                                     ELSE entries[e].state
<1> DEFINE n == Undone(m)
<1>1. n = [e \in DOMAIN entries |-> n[e]] /\ DOMAIN n = DOMAIN entries
  BY DEF Undone
<1>2. \A e \in DOMAIN entries :
         /\ n[e] = IF e \in Created(m) THEN [entries[e] EXCEPT !.state = "deleted"]
                   ELSE IF e \in Touched(m) /\ Live(e) THEN [entries[e] EXCEPT !.state = "active"]
                   ELSE entries[e]
         /\ entries[e] \in Entry
  BY DEF Undone, StoreTyped
<1>3. \A e \in DOMAIN entries :
         /\ n[e] \in Entry /\ n[e].synced = entries[e].synced /\ n[e].kind = entries[e].kind
         /\ n[e].parent = entries[e].parent
         /\ n[e].state = IF e \in Created(m) THEN "deleted"
                         ELSE IF e \in Touched(m) /\ Live(e) THEN "active" ELSE entries[e].state
  <2> TAKE e \in DOMAIN entries
  <2>0. entries[e] \in Entry /\ "deleted" \in States /\ "active" \in States
    BY <1>2 DEF States
  <2>1. CASE e \in Created(m)
    <3>1. n[e] = [entries[e] EXCEPT !.state = "deleted"]
      BY <1>2, <2>1
    <3>2. QED
      BY <2>0, <2>1, <3>1, StateWritten
  <2>2. CASE e \notin Created(m) /\ e \in Touched(m) /\ Live(e)
    <3>1. n[e] = [entries[e] EXCEPT !.state = "active"]
      BY <1>2, <2>2
    <3>2. QED
      BY <2>0, <2>2, <3>1, StateWritten
  <2>3. CASE e \notin Created(m) /\ ~(e \in Touched(m) /\ Live(e))
    BY <1>2, <2>3
  <2>4. QED
    BY <2>1, <2>2, <2>3
<1> HIDE DEF n
<1>4. n \in Seq(Entry) /\ Len(n) = Len(entries)
  BY <1>1, <1>3, Rewritten DEF StoreTyped
<1>5. Grown(entries, n)
  BY <1>3, <1>4, LenProperties DEF Grown, StoreTyped, Live
<1>6. QED
  BY <1>3, <1>4, <1>5 DEF n

\* backfillEmbeddings' and compaction's rewriting of the rows.
EmbeddedIn(S) ==
    [e \in DOMAIN entries |->
        IF e \in S THEN [entries[e] EXCEPT !.embedded = TRUE] ELSE entries[e]]

SummedIn(S, s) ==
    [e \in DOMAIN entries |->
        IF e \in S /\ Live(e) THEN [entries[e] EXCEPT !.parent = s] ELSE entries[e]]

LEMMA EmbeddedRows ==
    ASSUME StoreTyped, NEW S
    PROVE  LET n == EmbeddedIn(S)
           IN  /\ n \in Seq(Entry) /\ Len(n) = Len(entries) /\ Grown(entries, n)
               /\ \A e \in DOMAIN entries :
                     n[e].synced = entries[e].synced /\ n[e].state = entries[e].state
<1> DEFINE n == EmbeddedIn(S)
<1>1. n = [e \in DOMAIN entries |-> n[e]] /\ DOMAIN n = DOMAIN entries
  BY DEF EmbeddedIn
<1>2. \A e \in DOMAIN entries :
         /\ n[e] = IF e \in S THEN [entries[e] EXCEPT !.embedded = TRUE] ELSE entries[e]
         /\ entries[e] \in Entry
  BY DEF EmbeddedIn, StoreTyped
<1>3. \A e \in DOMAIN entries :
         /\ n[e] \in Entry /\ n[e].synced = entries[e].synced /\ n[e].kind = entries[e].kind
         /\ n[e].parent = entries[e].parent /\ n[e].state = entries[e].state
  <2> TAKE e \in DOMAIN entries
  <2>1. CASE e \in S
    <3>1. entries[e] \in Entry /\ n[e] = [entries[e] EXCEPT !.embedded = TRUE]
      BY <1>2, <2>1
    <3>2. QED
      BY <3>1, EmbeddedWritten
  <2>2. CASE e \notin S
    BY <1>2, <2>2
  <2>3. QED
    BY <2>1, <2>2
<1> HIDE DEF n
<1>4. n \in Seq(Entry) /\ Len(n) = Len(entries)
  BY <1>1, <1>3, Rewritten DEF StoreTyped
<1>5. Grown(entries, n)
  BY <1>3, <1>4, LenProperties DEF Grown, StoreTyped
<1>6. QED
  BY <1>3, <1>4, <1>5 DEF n

LEMMA SummedRows ==
    ASSUME StoreTyped, NEW S, NEW s \in 1..MaxEntries
    PROVE  LET n == SummedIn(S, s)
           IN  /\ n \in Seq(Entry) /\ Len(n) = Len(entries) /\ Grown(entries, n)
               /\ \A e \in DOMAIN entries :
                     /\ n[e].synced = entries[e].synced /\ n[e].state = entries[e].state
                     /\ e \in S => n[e].parent = s \/ ~Live(e)
<1> DEFINE n == SummedIn(S, s)
<1>1. n = [e \in DOMAIN entries |-> n[e]] /\ DOMAIN n = DOMAIN entries
  BY DEF SummedIn
<1>2. \A e \in DOMAIN entries :
         /\ n[e] = IF e \in S /\ Live(e) THEN [entries[e] EXCEPT !.parent = s] ELSE entries[e]
         /\ entries[e] \in Entry
  BY DEF SummedIn, StoreTyped
<1>3. \A e \in DOMAIN entries :
         /\ n[e] \in Entry /\ n[e].synced = entries[e].synced /\ n[e].kind = entries[e].kind
         /\ n[e].state = entries[e].state
         /\ n[e].parent = IF e \in S /\ Live(e) THEN s ELSE entries[e].parent
  <2> TAKE e \in DOMAIN entries
  <2>1. CASE e \in S /\ Live(e)
    <3>1. entries[e] \in Entry /\ n[e] = [entries[e] EXCEPT !.parent = s] /\ s \in 0..MaxEntries
      BY <1>2, <2>1, MemoryAssumption
    <3>2. QED
      BY <2>1, <3>1, ParentWritten
  <2>2. CASE ~(e \in S /\ Live(e))
    BY <1>2, <2>2
  <2>3. QED
    BY <2>1, <2>2
<1> HIDE DEF n
<1>4. n \in Seq(Entry) /\ Len(n) = Len(entries)
  BY <1>1, <1>3, Rewritten DEF StoreTyped
<1>5. Grown(entries, n)
  <2>1. \A e \in DOMAIN entries : entries[e].parent # 0 => n[e].parent # 0
    BY <1>3, MemoryAssumption
  <2>2. Len(entries) \in Nat
    BY LenProperties DEF StoreTyped
  <2>3. QED
    BY <1>3, <1>4, <2>1, <2>2 DEF Grown
<1>6. QED
  BY <1>3, <1>4, <1>5, MemoryAssumption DEF n

\* Rows at the end.
LEMMA AppendedRows ==
    ASSUME NEW s \in Seq(Entry), NEW t \in Seq(Entry)
    PROVE  LET n == s \o t
           IN  /\ n \in Seq(Entry) /\ Len(n) = Len(s) + Len(t) /\ Grown(s, n)
               /\ \A e \in DOMAIN s : e \in DOMAIN n /\ n[e] = s[e]
               /\ \A e \in DOMAIN n \ DOMAIN s : e - Len(s) \in DOMAIN t /\ n[e] = t[e - Len(s)]
BY ConcatProperties, LenProperties DEF Grown

LEMMA AppendedRow ==
    ASSUME NEW s \in Seq(Entry), NEW row \in Entry
    PROVE  LET n == Append(s, row)
           IN  /\ n \in Seq(Entry) /\ Len(n) = Len(s) + 1 /\ Grown(s, n)
               /\ \A e \in DOMAIN s : e \in DOMAIN n /\ n[e] = s[e]
               /\ n[Len(s) + 1] = row /\ DOMAIN n = DOMAIN s \cup {Len(s) + 1}
BY AppendProperties, LenProperties DEF Grown

LEMMA GrownOn ==
    ASSUME NEW a \in Seq(Entry), NEW b \in Seq(Entry), NEW c \in Seq(Entry), Grown(a, b), Grown(b, c)
    PROVE  Grown(a, c)
BY LenProperties DEF Grown

LEMMA GrownDomain ==
    ASSUME NEW a \in Seq(Entry), NEW b \in Seq(Entry), Grown(a, b)
    PROVE  DOMAIN a \subseteq DOMAIN b
BY LenProperties DEF Grown

LEMMA NewRow ==
    ASSUME NEW kind \in Kinds, NEW text \in Texts, NEW importance \in Nat, NEW embedded \in BOOLEAN
    PROVE  LET r == Row(kind, text, importance, embedded)
           IN  r \in Entry /\ r.state = "active" /\ r.kind = kind /\ ~r.synced /\ r.parent = 0
BY MemoryAssumption DEF Row, Entry, States

-----------------------------------------------------------------------------
(* What a worker holds *)

LEMMA WorkFields ==
    ASSUME NEW wk \in Work
    PROVE  /\ wk.at \in Awaits /\ wk.ids \in SUBSET Ids /\ wk.new \in SUBSET Insights
           /\ wk.left \in Seq(Range(Categories)) /\ wk.since \in 0..MaxEntries
           /\ wk.policy \in Policy
BY DEF Work

LEMMA WorkAt ==
    ASSUME NEW wk \in Work, NEW at \in Awaits, NEW ids \in SUBSET Ids
    PROVE  LET n == At(wk, at, ids)
           IN  /\ n \in Work /\ n.at = at /\ n.ids = ids /\ n.new = wk.new /\ n.left = wk.left
               /\ n.since = wk.since /\ n.policy = wk.policy
<1> DEFINE one == [wk EXCEPT !.at = at]
<1>1. /\ one \in Work /\ one.at = at /\ one.new = wk.new /\ one.left = wk.left
      /\ one.since = wk.since /\ one.policy = wk.policy
  BY DEF Work
<1>2. At(wk, at, ids) = [one EXCEPT !.ids = ids]
  BY DEF At
<1> HIDE DEF one
<1>3. QED
  BY <1>1, <1>2 DEF Work

LEMMA NewPut ==
    ASSUME NEW wk \in Work, NEW new \in SUBSET Insights
    PROVE  LET n == [wk EXCEPT !.new = new]
           IN  n \in Work /\ n.at = wk.at /\ n.ids = wk.ids /\ n.since = wk.since
BY DEF Work

LEMMA PolicyPut ==
    ASSUME NEW wk \in Work, NEW p \in Policy
    PROVE  LET n == [wk EXCEPT !.policy = p]
           IN  n \in Work /\ n.at = wk.at /\ n.ids = wk.ids /\ n.since = wk.since /\ n.policy = p
BY DEF Work

LEMMA LeftPut ==
    ASSUME NEW wk \in Work, NEW left \in Seq(Range(Categories))
    PROVE  LET n == [wk EXCEPT !.left = left]
           IN  n \in Work /\ n.at = wk.at /\ n.ids = wk.ids /\ n.since = wk.since
BY DEF Work

LEMMA SincePut ==
    ASSUME NEW wk \in Work, NEW since \in 0..MaxEntries
    PROVE  LET n == [wk EXCEPT !.since = since]
           IN  n \in Work /\ n.at = wk.at /\ n.ids = wk.ids /\ n.since = since
BY DEF Work

\* The policy a pass begins with is one that validation lets through.
LEMMA ClampedType ==
    ASSUME NEW p \in Policy
    PROVE  Clamped(p) \in Policy /\ Clamped(p).cluster <= Clamped(p).trigger
<1>1. p.cluster \in Nat /\ p.trigger \in Nat
  BY DEF Policy
<1>2. Min({p.cluster, p.trigger}) \in Nat /\ Min({p.cluster, p.trigger}) <= p.trigger
  <2> DEFINE a == p.cluster
             b == p.trigger
  <2>1. a \in Int /\ b \in Int /\ a \in Nat /\ b \in Nat
    BY <1>1
  <2> HIDE DEF a, b
  <2>2. Min({a, b}) \in {a, b} /\ Min({a, b}) <= b
    BY <2>1, MinOfTwo
  <2>3. QED
    BY <2>1, <2>2 DEF a, b
<1>3. QED
  BY <1>1, <1>2 DEF Clamped, Policy

LEMMA PruningWork ==
    ASSUME NEW wk \in Work
    PROVE  Pruning(wk) \in Work /\ Pruning(wk).at = "prune" /\ Pruning(wk).ids = {}
<1>1. At(wk, "prune", {}) \in Work /\ At(wk, "prune", {}).at = "prune" /\ At(wk, "prune", {}).ids = {}
  BY WorkAt DEF Awaits
<1>2. Categories \in Seq(Range(Categories))
  BY DEF Categories, Range
<1>3. QED
  BY <1>1, <1>2, LeftPut DEF Pruning

\* Rows that a summary may be made of.
Raw == {e \in DOMAIN entries : Live(e) /\ entries[e].parent = 0}

LEMMA ClusterIsRaw ==
    ASSUME NEW p
    PROVE  Cluster(p) \subseteq Raw
BY DEF Cluster, Recent, Raw

\* A compaction begins with a cluster of raw rows, chosen now, or goes on to prune.
Begins(wk) ==
    /\ wk \in Work
    /\ wk.at \in {"compact", "prune"}
    /\ wk.ids \subseteq Raw
    /\ wk.at = "compact" => wk.since = Len(entries)

LEMMA CompactingWork ==
    ASSUME StoreTyped, NEW wk \in Work
    PROVE  Begins(Compacting(wk))
<1>1. CASE Cluster(wk.policy) # {}
  <2>1. Cluster(wk.policy) \subseteq Raw /\ Cluster(wk.policy) \in SUBSET Ids
    BY ClusterIsRaw, LenProperties, MemoryAssumption DEF Raw, StoreTyped, Ids
  <2> DEFINE n == At(wk, "compact", Cluster(wk.policy))
  <2>2. n \in Work /\ n.at = "compact" /\ n.ids = Cluster(wk.policy)
    BY <2>1, WorkAt DEF Awaits
  <2>3. Compacting(wk) = [n EXCEPT !.since = Len(entries)]
    BY <1>1 DEF Compacting
  <2>4. Len(entries) \in 0..MaxEntries
    BY LenProperties, MemoryAssumption DEF StoreTyped
  <2> HIDE DEF n
  <2>5. QED
    BY <2>1, <2>2, <2>3, <2>4, SincePut DEF Begins
<1>2. CASE Cluster(wk.policy) = {}
  BY <1>2, PruningWork DEF Compacting, Begins
<1>3. QED
  BY <1>1, <1>2

-----------------------------------------------------------------------------
(* What a step of a worker does *)

\* The rows are written as they may be.
Writes ==
    entries' \in Seq(Entry) /\ Len(entries') <= MaxEntries /\ Grown(entries, entries')

\* Worker w gets to wk; what it chose to compact was raw, what it is to delete is gone.
Moves(w, wk) ==
    /\ wk \in Work
    /\ work' = [work EXCEPT ![w] = wk]
    /\ wk.ids \subseteq DOMAIN entries'
    /\ wk.at = "compact" => wk.ids \subseteq Raw /\ wk.since = Len(entries)
    /\ wk.at = "delete" => \A e \in wk.ids : entries'[e].state = "deleted"

\* A step of a run, or of the maintenance at work, which only its end settles.
Advances(w) ==
    /\ w = "maintenance" => work[w].at # "idle"
    /\ \E wk \in Work :
          /\ Moves(w, wk)
          /\ IF wk.at = "idle"
             THEN w = "maintenance" /\ \E status \in {"completed", "failed"} : Settled(status)
             ELSE UNCHANGED upkeep

LEMMA Unwritten ==
    ASSUME StoreTyped, entries' = entries
    PROVE  Writes
BY LenProperties DEF Writes, Grown, StoreTyped

LEMMA WritesDomain ==
    ASSUME StoreTyped, Writes
    PROVE  DOMAIN entries \subseteq DOMAIN entries' /\ Raw \subseteq DOMAIN entries'
BY GrownDomain DEF StoreTyped, Writes, Raw

LEMMA WorkerWork ==
    ASSUME StoreTyped, NEW w \in Workers
    PROVE  work[w] \in Work /\ work[w].ids \subseteq DOMAIN entries
BY DEF StoreTyped

LEMMA RowIds ==
    ASSUME StoreTyped
    PROVE  DOMAIN entries \in SUBSET Ids /\ Len(entries) \in Nat /\ DOMAIN entries = 1..Len(entries)
BY LenProperties, MemoryAssumption DEF StoreTyped, Ids

LEMMA RunWorker ==
    ASSUME NEW r \in Runs
    PROVE  r \in Workers /\ r # "maintenance"
BY MemoryAssumption DEF Workers

LEMMA MovesOn ==
    ASSUME StoreTyped, Writes, NEW w \in Workers, w = "maintenance" => work[w].at # "idle",
           NEW wk \in Work, work' = [work EXCEPT ![w] = wk], wk.ids \subseteq DOMAIN entries',
           wk.at \notin {"idle", "compact", "delete"}, UNCHANGED upkeep
    PROVE  Advances(w)
BY DEF Advances, Moves

LEMMA BeginsOn ==
    ASSUME StoreTyped, Writes, NEW w \in Workers, w = "maintenance" => work[w].at # "idle",
           NEW wk, Begins(wk), work' = [work EXCEPT ![w] = wk], UNCHANGED upkeep
    PROVE  Advances(w)
<1>1. wk.ids \subseteq DOMAIN entries'
  BY WritesDomain DEF Begins
<1>2. QED
  BY <1>1 DEF Advances, Moves, Begins

LEMMA StartRunStep ==
    ASSUME StoreTyped, NEW r \in Runs, StartRun(r)
    PROVE  Writes /\ Advances(r)
<1> DEFINE at == At(work[r], "embed", {})
           wk == [at EXCEPT !.policy = CurrentPolicy]
<1>1. Writes
  BY Unwritten DEF StartRun, store
<1>2. work' = [work EXCEPT ![r] = wk] /\ UNCHANGED upkeep
  BY DEF StartRun
<1>3. at \in Work /\ at.at = "embed" /\ at.ids = {}
  BY RunWorker, WorkerWork, WorkAt DEF Awaits
<1>4. CurrentPolicy \in Policy
  BY ClampedType DEF StoreTyped, CurrentPolicy
<1> HIDE DEF at
<1>5. wk \in Work /\ wk.at = "embed" /\ wk.ids = {}
  BY <1>3, <1>4, PolicyPut
<1> HIDE DEF wk
<1>6. QED
  BY <1>1, <1>2, <1>5, MovesOn, RunWorker

LEMMA SearchStep ==
    ASSUME StoreTyped, NEW r \in Runs, Search(r)
    PROVE  Writes /\ Advances(r)
<1>1. Writes
  BY Unwritten DEF Search, store
<1>2. PICK found \in SUBSET Findable : work' = [work EXCEPT ![r] = At(work[r], "search", found)]
  BY DEF Search
<1>3. found \subseteq DOMAIN entries /\ found \in SUBSET Ids
  BY RowIds DEF Findable, StoreTyped
<1> DEFINE wk == At(work[r], "search", found)
<1>4. wk \in Work /\ wk.at = "search" /\ wk.ids = found
  BY <1>3, RunWorker, WorkerWork, WorkAt DEF Awaits
<1>5. work' = [work EXCEPT ![r] = wk] /\ UNCHANGED upkeep
  BY <1>2 DEF Search
<1> HIDE DEF wk
<1>6. wk.ids \subseteq DOMAIN entries'
  BY <1>1, <1>3, <1>4, WritesDomain
<1>7. QED
  BY <1>1, <1>4, <1>5, <1>6, MovesOn, RunWorker

LEMMA SearchFailsStep ==
    ASSUME StoreTyped, NEW r \in Runs, SearchFails(r)
    PROVE  Writes /\ Advances(r)
<1> DEFINE wk == At(work[r], "failed", {})
<1>1. Writes
  BY Unwritten DEF SearchFails, store
<1>2. work' = [work EXCEPT ![r] = wk] /\ UNCHANGED upkeep
  BY DEF SearchFails
<1>3. wk \in Work /\ wk.at = "failed" /\ wk.ids = {}
  BY RunWorker, WorkerWork, WorkAt DEF Awaits
<1> HIDE DEF wk
<1>4. QED
  BY <1>1, <1>2, <1>3, MovesOn, RunWorker

LEMMA RetrieveStep ==
    ASSUME StoreTyped, NEW r \in Runs, Retrieve(r)
    PROVE  Writes /\ Advances(r)
<1> DEFINE wk == At(work[r], "answer", {})
<1>1. Writes
  BY Unwritten DEF Retrieve
<1>2. work' = [work EXCEPT ![r] = wk] /\ UNCHANGED upkeep
  BY DEF Retrieve
<1>3. wk \in Work /\ wk.at = "answer" /\ wk.ids = {}
  BY RunWorker, WorkerWork, WorkAt DEF Awaits
<1> HIDE DEF wk
<1>4. QED
  BY <1>1, <1>2, <1>3, MovesOn, RunWorker

\* Rows of a batch are new, active and not in Qdrant yet.
Batch(rows) ==
    /\ rows \in Seq(Entry) /\ Len(entries) + Len(rows) <= MaxEntries
    /\ \A n \in DOMAIN rows : rows[n].state = "active" /\ ~rows[n].synced

LEMMA StoredStep ==
    ASSUME StoreTyped, NEW r \in Runs, NEW rows, Batch(rows), NEW embedded,
           NEW sync \in {"turnSync", "factsSync"}, NEW next \in Work,
           Begins(next) \/ (next.at = "insights" /\ next.ids = {}),
           Stored(r, rows, embedded, sync, next), UNCHANGED upkeep
    PROVE  Writes /\ Advances(r) /\ entries' = entries \o rows
<1> DEFINE ids == (Len(entries) + 1)..(Len(entries) + Len(rows))
           sent == Upserting(ids, embedded)
           old == At(work[r], sync, sent)
           wk == [IF sent # {} THEN old ELSE next EXCEPT !.new = {}]
<1>1. entries' = entries \o rows /\ work' = [work EXCEPT ![r] = wk]
  BY DEF Stored
<1>2. Writes
  BY <1>1, AppendedRows DEF Writes, Batch, StoreTyped
<1>3. ids \subseteq DOMAIN entries' /\ ids \in SUBSET Ids
  <2>1. Len(entries) \in Nat /\ Len(rows) \in Nat /\ Len(entries') = Len(entries) + Len(rows)
    BY <1>1, AppendedRows, LenProperties DEF Batch, StoreTyped
  <2>2. DOMAIN entries' = 1..Len(entries')
    BY <1>2, LenProperties DEF Writes
  <2>3. QED
    BY <2>1, <2>2, MemoryAssumption DEF Batch, Ids
<1>4. sent \subseteq ids
  BY DEF Upserting
<1> HIDE DEF ids, sent
<1>5. r \in Workers /\ r # "maintenance"
  BY RunWorker
<1>6. old \in Work /\ old.at = sync /\ old.ids = sent
  BY <1>3, <1>4, <1>5, WorkerWork, WorkAt DEF Awaits
<1> HIDE DEF old
<1>7. CASE sent # {}
  <2>1. wk = [old EXCEPT !.new = {}]
    BY <1>7
  <2> HIDE DEF wk
  <2>2. wk \in Work /\ wk.at = sync /\ wk.ids = sent
    BY <1>6, <2>1, NewPut
  <2>3. QED
    BY <1>1, <1>2, <1>3, <1>4, <1>5, <2>2, MovesOn
<1>8. CASE sent = {}
  <2>1. wk = [next EXCEPT !.new = {}]
    BY <1>8
  <2> HIDE DEF wk
  <2>2. wk \in Work /\ wk.at = next.at /\ wk.ids = next.ids /\ wk.since = next.since
    BY <2>1, NewPut
  <2>3. CASE Begins(next)
    <3>1. Begins(wk)
      BY <2>2, <2>3 DEF Begins
    <3>2. QED
      BY <1>1, <1>2, <1>5, <3>1, BeginsOn
  <2>4. CASE next.at = "insights" /\ next.ids = {}
    BY <1>1, <1>2, <1>5, <2>2, <2>4, MovesOn
  <2>5. QED
    BY <2>3, <2>4
<1>9. QED
  BY <1>1, <1>2, <1>7, <1>8

LEMMA StoreTurnStep ==
    ASSUME StoreTyped, NEW r \in Runs, NEW ok \in BOOLEAN, StoreTurn(r, ok)
    PROVE  /\ Writes /\ Advances(r)
           /\ \E rows : Batch(rows) /\ entries' = entries \o rows
<1> DEFINE rows == <<Row("turn", "said", Importance("turn"), ok)>>
           at == At(work[r], "insights", {})
           next == [at EXCEPT !.policy = CurrentPolicy]
<1>1. Stored(r, rows, ok, "turnSync", next) /\ UNCHANGED upkeep /\ Room(1)
  BY DEF StoreTurn
<1>2. Row("turn", "said", Importance("turn"), ok) \in Entry
      /\ Row("turn", "said", Importance("turn"), ok).state = "active"
      /\ ~Row("turn", "said", Importance("turn"), ok).synced
  <2>1. Importance("turn") \in Nat
    BY DEF Importance
  <2>2. QED
    BY <2>1, NewRow DEF Kinds, Texts
<1>3. Batch(rows)
  <2> DEFINE row == Row("turn", "said", Importance("turn"), ok)
  <2> HIDE DEF row
  <2>1. <<row>> \in Seq(Entry) /\ Len(<<row>>) = 1 /\ DOMAIN <<row>> = {1} /\ <<row>>[1] = row
    BY <1>2 DEF row
  <2>2. Batch(<<row>>)
    BY <1>1, <1>2, <2>1 DEF Batch, Room, row
  <2>3. QED
    BY <2>2 DEF row
<1>4. at \in Work /\ at.at = "insights" /\ at.ids = {}
  BY RunWorker, WorkerWork, WorkAt DEF Awaits
<1>5. CurrentPolicy \in Policy
  BY ClampedType DEF StoreTyped, CurrentPolicy
<1> HIDE DEF at
<1>6. next \in Work /\ next.at = "insights" /\ next.ids = {}
  BY <1>4, <1>5, PolicyPut
<1> HIDE DEF next, rows
<1>7. QED
  BY <1>1, <1>3, <1>6, StoredStep

LEMMA ConcludeStep ==
    ASSUME StoreTyped, NEW r \in Runs, Conclude(r)
    PROVE  Writes /\ Advances(r)
<1>1. Writes
  BY Unwritten DEF Conclude, store
<1>2. PICK all \in SUBSET Insights :
         LET new == {i \in all : ~Similar(i)}
         IN  work' = [work EXCEPT ![r] =
                        IF new = {} THEN Compacting(work[r])
                        ELSE [At(work[r], "facts", {}) EXCEPT !.new = new]]
  BY DEF Conclude
<1> DEFINE new == {i \in all : ~Similar(i)}
           at == At(work[r], "facts", {})
           wk == [at EXCEPT !.new = new]
<1>3. r \in Workers /\ r # "maintenance" /\ work[r] \in Work /\ UNCHANGED upkeep
  BY RunWorker, WorkerWork DEF Conclude
<1>4. CASE new = {}
  <2>1. work' = [work EXCEPT ![r] = Compacting(work[r])]
    BY <1>2, <1>4
  <2>2. Begins(Compacting(work[r]))
    BY <1>3, CompactingWork
  <2>3. QED
    BY <1>1, <1>3, <2>1, <2>2, BeginsOn
<1>5. CASE new # {}
  <2>1. work' = [work EXCEPT ![r] = wk]
    BY <1>2, <1>5
  <2>2. at \in Work /\ at.at = "facts" /\ at.ids = {}
    BY <1>3, WorkAt DEF Awaits
  <2>3. new \in SUBSET Insights
    OBVIOUS
  <2> HIDE DEF at, new
  <2>4. wk \in Work /\ wk.at = "facts" /\ wk.ids = {}
    BY <2>2, <2>3, NewPut
  <2> HIDE DEF wk
  <2>5. QED
    BY <1>1, <1>3, <2>1, <2>4, MovesOn
<1>6. QED
  BY <1>4, <1>5

\* Sets of insights are finite, and each is stored in a row of its kind.
LEMMA ToSequence ==
    ASSUME NEW S, IsFiniteSet(S)
    PROVE  SetToSeq(S) \in [1..Cardinality(S) -> S] /\ Cardinality(S) \in Nat
<1>1. ExistsBijection(1..Cardinality(S), S) /\ Cardinality(S) \in Nat
  BY FS_CardinalityType
<1>2. \E f \in [1..Cardinality(S) -> S] : IsInjective(f)
  BY <1>1 DEF ExistsBijection, Bijection, Injection, IsInjective
<1>3. QED
  BY <1>1, <1>2 DEF SetToSeq

LEMMA StoreFactsStep ==
    ASSUME StoreTyped, NEW r \in Runs, NEW ok \in BOOLEAN, StoreFacts(r, ok)
    PROVE  /\ Writes /\ Advances(r)
           /\ \E rows : Batch(rows) /\ entries' = entries \o rows
<1> DEFINE order == SetToSeq(work[r].new)
           row(i) == Row(i.kind, i.text, Importance(i.kind), ok)
           size == Cardinality(work[r].new)
           rows == [n \in 1..size |-> row(order[n])]
<1>1. r \in Workers /\ work[r] \in Work
  BY RunWorker, WorkerWork
<1>2. work[r].new \subseteq Insights /\ IsFiniteSet(work[r].new)
  BY <1>1, WorkFields, FS_Subset, MemoryAssumption
<1>3. order \in [1..size -> work[r].new] /\ size \in Nat
  BY <1>2, ToSequence
<1>4. Stored(r, rows, ok, "factsSync", Compacting(work[r])) /\ Room(Len(rows)) /\ UNCHANGED upkeep
  BY DEF StoreFacts
<1> HIDE DEF order, size
<1>5. ASSUME NEW i \in Insights
      PROVE  row(i) \in Entry /\ row(i).state = "active" /\ ~row(i).synced
  <2>1. i.kind \in {"fact", "note"} /\ i.text \in Texts
    BY MemoryAssumption DEF Texts
  <2>2. Importance(i.kind) \in Nat /\ i.kind \in Kinds
    BY <2>1 DEF Importance, Kinds
  <2>3. QED
    BY <2>1, <2>2, NewRow
<1>6. Batch(rows)
  <2>1. \A n \in 1..size : order[n] \in Insights
    BY <1>2, <1>3
  <2> HIDE DEF row
  <2>2. rows \in [1..size -> Entry]
    BY <1>5, <2>1
  <2>3. rows \in Seq(Entry) /\ Len(rows) = size /\ DOMAIN rows = 1..size
    BY <1>3, <2>2, SeqDef, LenProperties
  <2>4. \A n \in DOMAIN rows : rows[n].state = "active" /\ ~rows[n].synced
    BY <1>5, <2>1, <2>3
  <2>5. QED
    BY <1>4, <2>3, <2>4 DEF Batch, Room
<1>7. Begins(Compacting(work[r])) /\ Compacting(work[r]) \in Work
  BY <1>1, CompactingWork DEF Begins
<1> HIDE DEF rows
<1>8. QED
  BY <1>4, <1>6, <1>7, StoredStep

LEMMA SyncStep ==
    ASSUME StoreTyped, NEW w \in Workers, NEW ok \in BOOLEAN, NEW held \in BOOLEAN, Sync(w, ok, held)
    PROVE  Writes /\ Advances(w)
<1> DEFINE wk == AfterSync(work[w])
<1>1. work[w] \in Work /\ work[w].at \in {"turnSync", "factsSync", "summarySync"}
  BY WorkerWork DEF Sync
<1>2. /\ entries' = Marked(work[w].ids, ok) /\ work' = [work EXCEPT ![w] = wk]
      /\ UNCHANGED upkeep
  BY DEF Sync
<1>3. Writes
  BY <1>2, MarkedRows DEF Writes, StoreTyped
<1>4. CASE work[w].at = "turnSync"
  <2> DEFINE at == At(work[w], "insights", {})
             next == [at EXCEPT !.policy = CurrentPolicy]
  <2>1. wk = next
    BY <1>4 DEF AfterSync
  <2>2. at \in Work /\ at.at = "insights" /\ at.ids = {}
    BY <1>1, WorkAt DEF Awaits
  <2>3. CurrentPolicy \in Policy
    BY ClampedType DEF StoreTyped, CurrentPolicy
  <2> HIDE DEF at, wk
  <2>4. wk \in Work /\ wk.at = "insights" /\ wk.ids = {}
    BY <2>1, <2>2, <2>3, PolicyPut
  <2>5. QED
    BY <1>1, <1>2, <1>3, <2>4, MovesOn
<1>5. CASE work[w].at = "factsSync"
  <2>1. wk = Compacting(work[w])
    BY <1>5 DEF AfterSync
  <2>2. Begins(wk)
    BY <1>1, <2>1, CompactingWork
  <2> HIDE DEF wk
  <2>3. QED
    BY <1>1, <1>2, <1>3, <2>2, BeginsOn
<1>6. CASE work[w].at = "summarySync"
  <2>1. wk = Pruning(work[w])
    BY <1>6 DEF AfterSync
  <2>2. wk \in Work /\ wk.at = "prune" /\ wk.ids = {}
    BY <1>1, <2>1, PruningWork
  <2> HIDE DEF wk
  <2>3. QED
    BY <1>1, <1>2, <1>3, <2>2, MovesOn
<1>7. QED
  BY <1>1, <1>4, <1>5, <1>6

\* The summary, and its sources that point at it.
Summed(w, ok) ==
    LET s == Len(entries) + 1
        sent == Upserting({s}, ok)
        old == SummedIn(work[w].ids, s)
    IN  /\ s \in 1..MaxEntries
        /\ old \in Seq(Entry) /\ Len(old) = Len(entries) /\ Grown(entries, old)
        /\ \A e \in DOMAIN entries :
              /\ old[e].synced = entries[e].synced /\ old[e].state = entries[e].state
              /\ e \in work[w].ids => old[e].parent = s \/ ~Live(e)
        /\ \E summary \in Entry :
              /\ entries' = Append(old, summary)
              /\ summary.kind = "summary" /\ summary.state = "active" /\ summary.synced = (sent # {})
        /\ work'[w].at \in {"summarySync", "prune"}
        /\ sent # {} => work'[w].at = "summarySync" /\ work'[w].ids = {s}

LEMMA CompactStep ==
    ASSUME StoreTyped, NEW w \in Workers, NEW ok \in BOOLEAN, Compact(w, ok)
    PROVE  Writes /\ Advances(w) /\ Summed(w, ok)
<1> DEFINE s == Len(entries) + 1
           sent == Upserting({s}, ok)
           plain == Row("summary", "said", Importance("summary"), ok)
           summary == [plain EXCEPT !.synced = sent # {}]
           old == SummedIn(work[w].ids, s)
           at == At(work[w], "summarySync", sent)
           wk == [IF sent # {} THEN at ELSE Pruning(work[w]) EXCEPT !.since = 0]
<1>1. work[w] \in Work /\ work[w].at = "compact"
  BY WorkerWork DEF Compact
<1>2. Len(entries) \in Nat /\ s \in 1..MaxEntries
  BY RowIds, MemoryAssumption DEF Compact, Room
<1>3. /\ entries' = Append(old, summary) /\ work' = [work EXCEPT ![w] = wk]
      /\ UNCHANGED upkeep
  BY DEF Compact, SummedIn
<1>4. summary \in Entry /\ summary.kind = "summary" /\ summary.state = "active"
      /\ summary.synced = (sent # {})
  <2>1. Importance("summary") \in Nat
    BY DEF Importance
  <2>2. plain \in Entry /\ plain.kind = "summary" /\ plain.state = "active"
    BY <2>1, NewRow DEF Kinds, Texts
  <2>3. (sent # {}) \in BOOLEAN
    OBVIOUS
  <2> HIDE DEF plain, sent
  <2>4. QED
    BY <2>2, <2>3, SyncedWritten
<1>5. /\ old \in Seq(Entry) /\ Len(old) = Len(entries) /\ Grown(entries, old)
      /\ \A e \in DOMAIN entries :
            /\ old[e].synced = entries[e].synced /\ old[e].state = entries[e].state
            /\ e \in work[w].ids => old[e].parent = s \/ ~Live(e)
  BY <1>2, SummedRows
<1>6. sent \in {{}, {s}} /\ {s} \in SUBSET Ids /\ {} \in SUBSET Ids
  BY <1>2, MemoryAssumption DEF Upserting, Ids
<1> HIDE DEF summary, old, sent
<1>7. /\ entries' \in Seq(Entry) /\ Len(entries') = Len(entries) + 1 /\ Grown(old, entries')
      /\ s \in DOMAIN entries'
  BY <1>3, <1>4, <1>5, AppendedRow
<1>8. Writes
  BY <1>2, <1>5, <1>7, GrownOn DEF Writes, StoreTyped
<1>9. at \in Work /\ at.at = "summarySync" /\ at.ids = sent
  BY <1>1, <1>6, WorkAt DEF Awaits
<1>10. Pruning(work[w]) \in Work /\ Pruning(work[w]).at = "prune" /\ Pruning(work[w]).ids = {}
  BY <1>1, PruningWork
<1>11. 0 \in 0..MaxEntries
  BY MemoryAssumption
<1> HIDE DEF at, s
<1>12. /\ wk \in Work
       /\ sent # {} => wk.at = "summarySync" /\ wk.ids = sent
       /\ sent = {} => wk.at = "prune" /\ wk.ids = {}
  <2>1. CASE sent # {}
    <3>1. wk = [at EXCEPT !.since = 0]
      BY <2>1
    <3> HIDE DEF wk
    <3>2. QED
      BY <1>9, <1>11, <2>1, <3>1, SincePut
  <2>2. CASE sent = {}
    <3>1. wk = [Pruning(work[w]) EXCEPT !.since = 0]
      BY <2>2
    <3> HIDE DEF wk
    <3>2. QED
      BY <1>10, <1>11, <2>2, <3>1, SincePut
  <2>3. QED
    BY <2>1, <2>2
<1> HIDE DEF wk
<1>13. Advances(w)
  BY <1>1, <1>3, <1>6, <1>7, <1>8, <1>12, MovesOn
<1>14. work'[w] = wk
  BY <1>3 DEF StoreTyped
<1>15. Summed(w, ok)
  BY <1>2, <1>3, <1>4, <1>5, <1>6, <1>12, <1>14 DEF Summed, s, sent, old
<1>16. QED
  BY <1>8, <1>13, <1>15

LEMMA SurplusIsActive ==
    ASSUME NEW category, NEW p
    PROVE  Surplus(category, p) \subseteq {e \in DOMAIN entries : Active(e)}
BY DEF Surplus, ActiveIn

\* The rows a pass prunes are those of one category.
PrunedBy(w) ==
    \E surplus \in SUBSET {e \in DOMAIN entries : Active(e)} :
        /\ \A e \in surplus : ~Referred(e)
        /\ entries' = InState(surplus, "deleted")

\* The pass of a worker ends.
LEMMA EndsStep ==
    ASSUME StoreTyped, Writes, NEW w \in Workers, work[w].at # "idle",
           NEW outcome \in {"done", "failed"}, Ends(w, outcome)
    PROVE  Advances(w)
<1> DEFINE where == IF w = "maintenance" THEN "idle" ELSE outcome
           at == At(work[w], where, {})
           wk == [at EXCEPT !.left = <<>>]
<1>1. work' = [work EXCEPT ![w] = wk]
  BY DEF Ends
<1>2. where \in Awaits
  BY DEF Awaits
<1>3. at \in Work /\ at.at = where /\ at.ids = {}
  BY <1>2, WorkerWork, WorkAt
<1>4. <<>> \in Seq(Range(Categories))
  OBVIOUS
<1> HIDE DEF at
<1>5. wk \in Work /\ wk.at = where /\ wk.ids = {}
  BY <1>3, <1>4, LeftPut
<1> HIDE DEF wk
<1>6. Moves(w, wk)
  BY <1>1, <1>5 DEF Moves
<1>7. CASE w = "maintenance"
  <2>1. \E status \in {"completed", "failed"} : Settled(status)
    BY <1>7 DEF Ends
  <2>2. QED
    BY <1>5, <1>6, <1>7, <2>1 DEF Advances
<1>8. CASE w # "maintenance"
  BY <1>5, <1>6, <1>8 DEF Advances, Ends
<1>9. QED
  BY <1>7, <1>8

LEMMA PruneStep ==
    ASSUME StoreTyped, NEW w \in Workers, Prune(w)
    PROVE  Writes /\ Advances(w) /\ (entries' = entries \/ PrunedBy(w))
<1> DEFINE full == {c \in DOMAIN work[w].left : Surplus(work[w].left[c], work[w].policy) # {}}
           first == Min(full)
           surplus == Surplus(work[w].left[first], work[w].policy)
<1>1. work[w] \in Work /\ work[w].at = "prune"
  BY WorkerWork DEF Prune
<1>2. CASE (Ends(w, "done") \/ Ends(w, "failed")) /\ UNCHANGED entries
  BY <1>1, <1>2, Unwritten, EndsStep
<1>3. CASE /\ full # {} /\ \A e \in surplus : ~Referred(e)
           /\ entries' = InState(surplus, "deleted")
           /\ work' = [work EXCEPT ![w] =
                         [IF available THEN At(work[w], "delete", surplus) ELSE At(work[w], "prune", {})
                          EXCEPT !.left = SubSeq(work[w].left, first + 1, Len(work[w].left))]]
           /\ UNCHANGED upkeep
  <2> DEFINE at == IF available THEN At(work[w], "delete", surplus) ELSE At(work[w], "prune", {})
             wk == [at EXCEPT !.left = SubSeq(work[w].left, first + 1, Len(work[w].left))]
  <2>1. surplus \subseteq {e \in DOMAIN entries : Active(e)}
    BY SurplusIsActive
  <2>2. work[w].left \in Seq(Range(Categories)) /\ DOMAIN work[w].left = 1..Len(work[w].left)
        /\ Len(work[w].left) \in Nat
    BY <1>1, WorkFields, LenProperties
  <2>3. full \in SUBSET Nat
    BY <2>2
  <2>4. first \in full
    <3> HIDE DEF full
    <3>1. QED
      BY <1>3, <2>3, MinFacts
  <2>5. first \in 1..Len(work[w].left)
    BY <2>2, <2>4
  <2> HIDE DEF first, full
  <2>6. "deleted" \in States
    BY DEF States
  <2>7. /\ entries' \in Seq(Entry) /\ Len(entries') = Len(entries) /\ Grown(entries, entries')
        /\ \A e \in DOMAIN entries :
              entries'[e].state = IF e \in surplus /\ Live(e) THEN "deleted" ELSE entries[e].state
    BY <1>3, <2>6, InStateRows
  <2>8. Writes
    BY <2>7 DEF Writes, StoreTyped
  <2> HIDE DEF surplus
  <2>9. /\ at \in Work /\ at.at \in {"delete", "prune"} /\ at.ids \subseteq surplus
    <3>1. surplus \in SUBSET Ids
      BY <2>1, RowIds
    <3>2. QED
      BY <1>1, <3>1, WorkAt DEF Awaits
  <2> HIDE DEF at
  <2>10. SubSeq(work[w].left, first + 1, Len(work[w].left)) \in Seq(Range(Categories))
    BY <2>2, <2>5, SubSeqProperties
  <2>11. wk \in Work /\ wk.at \in {"delete", "prune"} /\ wk.ids \subseteq surplus
    BY <2>9, <2>10, LeftPut
  <2>12. work' = [work EXCEPT ![w] = wk]
    BY <1>3 DEF at
  <2> HIDE DEF wk
  <2>13. wk.ids \subseteq DOMAIN entries' /\ \A e \in wk.ids : entries'[e].state = "deleted"
    BY <2>1, <2>7, <2>8, <2>11, WritesDomain DEF Active, Live
  <2>14. Moves(w, wk)
    BY <2>11, <2>12, <2>13 DEF Moves
  <2>15. Advances(w)
    BY <1>1, <1>3, <2>11, <2>14 DEF Advances
  <2>16. PrunedBy(w)
    BY <1>3, <2>1 DEF PrunedBy
  <2>17. QED
    BY <2>8, <2>15, <2>16
<1>4. QED
  BY <1>2, <1>3 DEF Prune

LEMMA DeletePointsStep ==
    ASSUME StoreTyped, NEW w \in Workers, DeletePoints(w)
    PROVE  Writes /\ Advances(w)
<1> DEFINE wk == At(work[w], "prune", {})
<1>1. Writes
  BY Unwritten DEF DeletePoints, store
<1>2. work' = [work EXCEPT ![w] = wk] /\ UNCHANGED upkeep /\ work[w].at # "idle"
  BY DEF DeletePoints
<1>3. wk \in Work /\ wk.at = "prune" /\ wk.ids = {}
  BY WorkerWork, WorkAt DEF Awaits
<1> HIDE DEF wk
<1>4. QED
  BY <1>1, <1>2, <1>3, MovesOn

LEMMA DeleteFailsStep ==
    ASSUME StoreTyped, NEW w \in Workers, DeleteFails(w)
    PROVE  Writes /\ Advances(w)
<1>1. Writes
  BY Unwritten DEF DeleteFails, store
<1>2. Ends(w, "failed") /\ work[w].at # "idle"
  BY DEF DeleteFails
<1>3. QED
  BY <1>1, <1>2, EndsStep

-----------------------------------------------------------------------------
(* Types, apart from the maintenance *)

MadeTyped ==
    /\ DOMAIN made \subseteq DOMAIN entries
    /\ made \in [DOMAIN made -> [from : SUBSET Ids, since : 0..MaxEntries]]

\* A call failed, or did not.
Faulted == faults' = faults \/ (Disturbable /\ faults' = faults + 1)

LEMMA WorksOn ==
    ASSUME StoreTyped, Writes, (\E w \in Workers, wk \in Work : Moves(w, wk)) \/ work' = work
    PROVE  work' \in [Workers -> Work] /\ \A w \in Workers : work'[w].ids \subseteq DOMAIN entries'
<1>1. DOMAIN entries \subseteq DOMAIN entries'
  BY WritesDomain
<1>2. CASE work' = work
  BY <1>1, <1>2 DEF StoreTyped
<1>3. ASSUME NEW v \in Workers, NEW wk \in Work, Moves(v, wk)
      PROVE  work' \in [Workers -> Work] /\ \A w \in Workers : work'[w].ids \subseteq DOMAIN entries'
  BY <1>1, <1>3 DEF StoreTyped, Moves
<1>4. QED
  BY <1>2, <1>3

LEMMA Counted ==
    ASSUME StoreTyped, Faulted, UNCHANGED <<mutations, crashes>>
    PROVE  /\ faults' \in Nat /\ crashes' \in Nat
           /\ faults' + crashes' + Len(mutations') <= MaxIncidents
<1>1. faults \in Nat /\ crashes \in Nat /\ Len(mutations) \in Nat /\ MaxIncidents \in Nat
  BY LenProperties, MemoryAssumption DEF StoreTyped
<1>2. CASE faults' = faults
  BY <1>1, <1>2 DEF StoreTyped
<1>3. CASE Disturbable /\ faults' = faults + 1
  BY <1>1, <1>3 DEF Disturbable, StoreTyped
<1>4. QED
  BY <1>2, <1>3 DEF Faulted

LEMMA WorkerTyped ==
    ASSUME StoreTyped, NEW w \in Workers, Writes, Advances(w), Faulted,
           UNCHANGED <<links, policy, available, mutations, crashes>>,
           reinforced' \subseteq DOMAIN entries, points' \subseteq points \cup work[w].ids,
           made' = made \/ MadeTyped'
    PROVE  StoreTyped'
<1>1. DOMAIN entries \subseteq DOMAIN entries'
  BY WritesDomain
<1>2. work' \in [Workers -> Work] /\ \A v \in Workers : work'[v].ids \subseteq DOMAIN entries'
  BY WorksOn DEF Advances
<1>3. points' \subseteq DOMAIN entries' /\ reinforced' \subseteq DOMAIN entries'
  BY <1>1 DEF StoreTyped
<1>4. MadeTyped'
  BY <1>1 DEF StoreTyped, MadeTyped
<1>5. /\ faults' \in Nat /\ crashes' \in Nat
      /\ faults' + crashes' + Len(mutations') <= MaxIncidents
  BY Counted
<1>6. QED
  BY <1>2, <1>3, <1>4, <1>5 DEF StoreTyped, MadeTyped, Writes

LEMMA FailureCounted ==
    ASSUME StoreTyped, NEW ok \in BOOLEAN, MayFail(ok), Succeeds(ok)
    PROVE  Faulted
BY DEF MayFail, Succeeds, Faulted

LEMMA WorkerStepTyped ==
    ASSUME StoreTyped, NEW w \in Workers, WorkerStep(w)
    PROVE  StoreTyped'
<1>0. /\ reinforced \subseteq DOMAIN entries /\ points \subseteq DOMAIN entries
      /\ work[w] \in Work /\ work[w].ids \subseteq DOMAIN entries
  BY WorkerWork DEF StoreTyped
<1>1. ASSUME NEW ok \in BOOLEAN, NEW held \in BOOLEAN, Sync(w, ok, held) PROVE StoreTyped'
  <2>1. Writes /\ Advances(w)
    BY <1>1, SyncStep
  <2>2. Faulted
    BY <1>1, FailureCounted DEF Sync
  <2>3. /\ UNCHANGED <<links, policy, available, mutations, crashes, reinforced, made>>
        /\ points' \subseteq points \cup work[w].ids
    BY <1>1 DEF Sync
  <2>4. QED
    BY <1>0, <2>1, <2>2, <2>3, WorkerTyped
<1>2. ASSUME NEW ok \in BOOLEAN, Compact(w, ok) PROVE StoreTyped'
  <2> DEFINE s == Len(entries) + 1
  <2>1. Writes /\ Advances(w) /\ Summed(w, ok)
    BY <1>2, CompactStep
  <2>2. Faulted
    BY <1>2, FailureCounted DEF Compact
  <2>3. /\ UNCHANGED <<links, policy, available, mutations, crashes, reinforced, points>>
        /\ made' = [t \in DOMAIN made \cup {s} |->
                      IF t = s THEN [from |-> work[w].ids, since |-> work[w].since] ELSE made[t]]
    BY <1>2 DEF Compact
  <2>4. DOMAIN entries \subseteq DOMAIN entries' /\ s \in DOMAIN entries'
    <3>1. PICK old \in Seq(Entry), summary \in Entry :
             Len(old) = Len(entries) /\ entries' = Append(old, summary)
      BY <2>1 DEF Summed
    <3>2. QED
      BY <2>1, <3>1, WritesDomain, AppendedRow
  <2>5. [from |-> work[w].ids, since |-> work[w].since] \in [from : SUBSET Ids, since : 0..MaxEntries]
    BY <1>0, WorkFields
  <2> HIDE DEF s
  <2>6. MadeTyped'
    BY <2>3, <2>4, <2>5 DEF StoreTyped, MadeTyped
  <2>7. QED
    BY <1>0, <2>1, <2>2, <2>3, <2>6, WorkerTyped
<1>3. CASE Prune(w)
  <2>1. Writes /\ Advances(w)
    BY <1>3, PruneStep
  <2>2. Faulted /\ UNCHANGED <<links, policy, available, mutations, crashes, reinforced, points, made>>
    BY <1>3 DEF Prune, Faulted
  <2>3. QED
    BY <1>0, <2>1, <2>2, WorkerTyped
<1>4. CASE DeletePoints(w)
  <2>1. Writes /\ Advances(w)
    BY <1>4, DeletePointsStep
  <2>2. /\ Faulted /\ UNCHANGED <<links, policy, available, mutations, crashes, reinforced, made>>
        /\ points' \subseteq points
    BY <1>4 DEF DeletePoints, Faulted, store
  <2>3. QED
    BY <1>0, <2>1, <2>2, WorkerTyped
<1>5. CASE DeleteFails(w)
  <2>1. Writes /\ Advances(w)
    BY <1>5, DeleteFailsStep
  <2>2. /\ Faulted /\ UNCHANGED <<links, policy, available, mutations, crashes, reinforced, made>>
        /\ points' \subseteq points
    BY <1>5 DEF DeleteFails, Faulted, store
  <2>3. QED
    BY <1>0, <2>1, <2>2, WorkerTyped
<1>6. QED
  BY <1>1, <1>2, <1>3, <1>4, <1>5 DEF WorkerStep

LEMMA RunTyped ==
    ASSUME StoreTyped, NEW r \in Runs, StartRun(r) \/ RunStep(r)
    PROVE  StoreTyped'
<1>0. r \in Workers
  BY RunWorker
<1>a. /\ reinforced \subseteq DOMAIN entries /\ points \subseteq DOMAIN entries
      /\ work[r] \in Work /\ work[r].ids \subseteq DOMAIN entries
  BY <1>0, WorkerWork DEF StoreTyped
<1>1. CASE StartRun(r)
  <2>1. Faulted /\ UNCHANGED <<links, policy, available, mutations, crashes, reinforced, points, made>>
    BY <1>1 DEF StartRun, Faulted, store
  <2>2. QED
    BY <1>0, <1>a, <1>1, <2>1, StartRunStep, WorkerTyped
<1>2. CASE Search(r)
  <2>1. Faulted /\ UNCHANGED <<links, policy, available, mutations, crashes, reinforced, points, made>>
    BY <1>2 DEF Search, Faulted, store
  <2>2. QED
    BY <1>0, <1>a, <1>2, <2>1, SearchStep, WorkerTyped
<1>3. CASE SearchFails(r)
  <2>1. Faulted /\ UNCHANGED <<links, policy, available, mutations, crashes, reinforced, points, made>>
    BY <1>3 DEF SearchFails, Faulted, store
  <2>2. QED
    BY <1>0, <1>a, <1>3, <2>1, SearchFailsStep, WorkerTyped
<1>4. CASE Retrieve(r)
  <2>1. Faulted /\ UNCHANGED <<links, policy, available, mutations, crashes, points, made>>
    BY <1>4 DEF Retrieve, Faulted
  <2>2. Candidates(work[r].ids, work[r].policy.topK) \subseteq DOMAIN entries
    BY <1>a DEF Candidates
  <2>3. reinforced' \subseteq DOMAIN entries
    BY <1>a, <1>4, <2>2 DEF Retrieve, Retrieved
  <2>4. QED
    BY <1>0, <1>4, <2>1, <2>3, RetrieveStep, WorkerTyped
<1>5. ASSUME NEW ok \in BOOLEAN, StoreTurn(r, ok) PROVE StoreTyped'
  <2>1. Faulted
    BY <1>5, FailureCounted DEF StoreTurn
  <2>2. UNCHANGED <<links, policy, available, mutations, crashes, reinforced, points, made>>
    BY <1>5 DEF StoreTurn
  <2>3. QED
    BY <1>0, <1>a, <1>5, <2>1, <2>2, StoreTurnStep, WorkerTyped
<1>6. CASE Conclude(r)
  <2>1. Faulted /\ UNCHANGED <<links, policy, available, mutations, crashes, reinforced, points, made>>
    BY <1>6 DEF Conclude, Faulted, store
  <2>2. QED
    BY <1>0, <1>a, <1>6, <2>1, ConcludeStep, WorkerTyped
<1>7. ASSUME NEW ok \in BOOLEAN, StoreFacts(r, ok) PROVE StoreTyped'
  <2>1. Faulted
    BY <1>7, FailureCounted DEF StoreFacts
  <2>2. UNCHANGED <<links, policy, available, mutations, crashes, reinforced, points, made>>
    BY <1>7 DEF StoreFacts
  <2>3. QED
    BY <1>0, <1>a, <1>7, <2>1, <2>2, StoreFactsStep, WorkerTyped
<1>8. CASE WorkerStep(r)
  BY <1>0, <1>8, WorkerStepTyped
<1>9. QED
  BY <1>1, <1>2, <1>3, <1>4, <1>5, <1>6, <1>7, <1>8 DEF RunStep

\* A run of the maintenance begins with its compaction.
LEMMA ExecuteMoves ==
    ASSUME StoreTyped,
           work' = [work EXCEPT !["maintenance"] = Compacting([@ EXCEPT !.policy = CurrentPolicy])],
           UNCHANGED entries
    PROVE  \E wk \in Work : Begins(wk) /\ Moves("maintenance", wk)
<1> DEFINE fresh == [work["maintenance"] EXCEPT !.policy = CurrentPolicy]
           wk == Compacting(fresh)
<1>1. "maintenance" \in Workers /\ CurrentPolicy \in Policy
  BY ClampedType DEF StoreTyped, CurrentPolicy, Workers
<1>2. fresh \in Work
  BY <1>1, WorkerWork, PolicyPut
<1>3. work' = [work EXCEPT !["maintenance"] = wk]
  OBVIOUS
<1> HIDE DEF fresh
<1>4. Begins(wk)
  BY <1>2, CompactingWork
<1> HIDE DEF wk
<1>5. QED
  BY <1>3, <1>4 DEF Begins, Moves, Raw

LEMMA MutatedRowType ==
    ASSUME NEW kind \in MutatedKinds
    PROVE  /\ MutatedRow(kind) \in Entry /\ MutatedRow(kind).state = "active"
           /\ ~MutatedRow(kind).synced
<1>1. kind \in Kinds /\ "mutated" \in Texts
  BY MemoryAssumption DEF Texts
<1>2. QED
  BY <1>1, MemoryAssumption DEF MutatedRow, Row, Entry, States

\* The rows after each mutation.
LEMMA CreateRows ==
    ASSUME StoreTyped, NEW kind \in MutatedKinds, Create(kind)
    PROVE  Writes /\ Len(entries) + 1 \in DOMAIN entries'
<1>1. entries' = Append(entries, MutatedRow(kind)) /\ Len(entries) + 1 <= MaxEntries
  BY DEF Create, Room
<1>2. QED
  BY <1>1, MutatedRowType, AppendedRow DEF Writes, StoreTyped

LEMMA DeactivateRows ==
    ASSUME StoreTyped, NEW e \in DOMAIN entries, Deactivate(e)
    PROVE  Writes
<1>1. entries' = InState({e}, "deactivated") /\ "deactivated" \in States
  BY DEF Deactivate, States
<1>2. QED
  BY <1>1, InStateRows DEF Writes, StoreTyped

LEMMA SupersedeRows ==
    ASSUME StoreTyped, NEW e \in DOMAIN entries, NEW kind \in MutatedKinds, Supersede(e, kind)
    PROVE  /\ Writes /\ Len(entries) + 1 \in DOMAIN entries'
           /\ entries'[Len(entries) + 1] = MutatedRow(kind)
           /\ DOMAIN entries' = DOMAIN entries \cup {Len(entries) + 1}
           /\ \A f \in DOMAIN entries :
                 /\ entries'[f].synced = entries[f].synced
                 /\ entries'[f].state = IF f = e /\ Live(f) THEN "superseded" ELSE entries[f].state
<1> DEFINE old == InState({e}, "superseded")
<1>1. entries' = Append(old, MutatedRow(kind)) /\ Len(entries) + 1 <= MaxEntries
  BY DEF Supersede, Room
<1>2. "superseded" \in States
  BY DEF States
<1>3. /\ old \in Seq(Entry) /\ Len(old) = Len(entries) /\ Grown(entries, old)
      /\ \A f \in DOMAIN entries :
            /\ old[f].synced = entries[f].synced
            /\ old[f].state = IF f \in {e} /\ Live(f) THEN "superseded" ELSE entries[f].state
  BY <1>2, InStateRows
<1> HIDE DEF old
<1>4. DOMAIN old = DOMAIN entries
  BY <1>3, LenProperties DEF StoreTyped
<1>5. /\ entries' \in Seq(Entry) /\ Len(entries') = Len(entries) + 1 /\ Grown(old, entries')
      /\ entries'[Len(entries) + 1] = MutatedRow(kind)
      /\ DOMAIN entries' = DOMAIN entries \cup {Len(entries) + 1}
      /\ \A f \in DOMAIN entries : entries'[f] = old[f]
  BY <1>1, <1>3, <1>4, MutatedRowType, AppendedRow
<1>6. Writes
  BY <1>1, <1>3, <1>5, GrownOn DEF Writes, StoreTyped
<1>7. QED
  BY <1>3, <1>5, <1>6

LEMMA MutatedCounted ==
    ASSUME StoreTyped, NEW m \in Mutation, Mutated(m)
    PROVE  /\ mutations' = Append(mutations, m) /\ mutations' \in Seq(Mutation)
           /\ Len(mutations') = Len(mutations) + 1
           /\ UNCHANGED <<faults, crashes, reinforced, points, policy, available, work, made>>
           /\ faults' + crashes' + Len(mutations') <= MaxIncidents
<1>1. mutations \in Seq(Mutation) /\ mutations' = Append(mutations, m)
  BY DEF StoreTyped, Mutated
<1>2. mutations' \in Seq(Mutation) /\ Len(mutations') = Len(mutations) + 1
  BY <1>1, AppendProperties
<1>3. UNCHANGED <<faults, crashes, reinforced, points, policy, available, work, made>>
  BY DEF Mutated
<1>4. faults + crashes + Len(mutations) < MaxIncidents
  BY DEF Mutated, Disturbable
<1>5. faults \in Nat /\ crashes \in Nat /\ Len(mutations) \in Nat /\ MaxIncidents \in Nat
  BY LenProperties, MemoryAssumption DEF StoreTyped
<1>6. faults + crashes + (Len(mutations) + 1) <= MaxIncidents
  BY <1>4, <1>5
<1>7. QED
  BY <1>1, <1>2, <1>3, <1>6

\* A write to the rows and the links that no worker makes.
LEMMA WrittenTyped ==
    ASSUME StoreTyped, Writes, links' \subseteq Ids \X Ids, reinforced' \subseteq reinforced,
           points' \subseteq DOMAIN entries, UNCHANGED <<policy, work, made>>,
           available' \in BOOLEAN, mutations' \in Seq(Mutation),
           faults' \in Nat /\ crashes' \in Nat,
           faults' + crashes' + Len(mutations') <= MaxIncidents
    PROVE  StoreTyped'
<1>1. DOMAIN entries \subseteq DOMAIN entries'
  BY WritesDomain
<1>2. work' \in [Workers -> Work] /\ \A v \in Workers : work'[v].ids \subseteq DOMAIN entries'
  BY WorksOn
<1>3. QED
  BY <1>1, <1>2 DEF StoreTyped, Writes

LEMMA LinkIds ==
    ASSUME StoreTyped, NEW e
    PROVE  LinksOf(e) \in SUBSET (Ids \X Ids)
BY DEF LinksOf, StoreTyped

LEMMA MutateTyped ==
    ASSUME StoreTyped, Mutate
    PROVE  StoreTyped'
<1>1. ASSUME NEW kind \in MutatedKinds, Create(kind) PROVE StoreTyped'
  <2> DEFINE m == NewMutation("create", Len(entries) + 1, 0, {})
  <2>1. Writes /\ UNCHANGED links /\ Mutated(m)
    BY <1>1, CreateRows DEF Create
  <2>2. m \in Mutation
    BY <1>1, RowIds, MemoryAssumption DEF NewMutation, Mutation, Create, Room, Ids
  <2> HIDE DEF m
  <2>3. QED
    BY <2>1, <2>2, MutatedCounted, WrittenTyped DEF StoreTyped
<1>2. ASSUME NEW e \in DOMAIN entries, Deactivate(e) PROVE StoreTyped'
  <2> DEFINE m == NewMutation("deactivate", e, 0, LinksOf(e))
  <2>1. Writes /\ UNCHANGED links /\ Mutated(m)
    BY <1>2, DeactivateRows DEF Deactivate
  <2>2. m \in Mutation
    BY RowIds, LinkIds, MemoryAssumption DEF NewMutation, Mutation
  <2> HIDE DEF m
  <2>3. QED
    BY <2>1, <2>2, MutatedCounted, WrittenTyped DEF StoreTyped
<1>3. ASSUME NEW e \in DOMAIN entries, NEW kind \in MutatedKinds, Supersede(e, kind)
      PROVE  StoreTyped'
  <2> DEFINE s == Len(entries) + 1
             m == NewMutation("supersede", s, e, LinksOf(e) \cup {<<s, e>>})
  <2>1. Writes /\ links' = links \cup {<<s, e>>} /\ Mutated(m)
    BY <1>3, SupersedeRows DEF Supersede
  <2>2. s \in Ids /\ e \in Ids /\ e \in 0..MaxEntries
    BY <1>3, RowIds, MemoryAssumption DEF Supersede, Room, Ids
  <2>3. LinksOf(e) \cup {<<s, e>>} \in SUBSET (Ids \X Ids)
    BY <2>2, LinkIds
  <2>4. m \in Mutation
    BY <2>2, <2>3 DEF NewMutation, Mutation
  <2> HIDE DEF m, s
  <2>5. links' \subseteq Ids \X Ids
    BY <2>1, <2>2 DEF StoreTyped
  <2>6. QED
    BY <2>1, <2>4, <2>5, MutatedCounted, WrittenTyped DEF StoreTyped
<1>4. ASSUME NEW n \in DOMAIN mutations, RollBack(n) PROVE StoreTyped'
  <2>1. /\ entries' = Undone(mutations[n]) /\ links' \subseteq links /\ reinforced' \subseteq reinforced
        /\ mutations' = [mutations EXCEPT ![n].applied = FALSE]
        /\ UNCHANGED <<points, policy, available, work, made, faults, crashes>>
    BY <1>4 DEF RollBack
  <2>2. Writes
    BY <2>1, UndoneRows DEF Writes, StoreTyped
  <2>3. mutations[n] \in Mutation
    BY DEF StoreTyped
  <2>4. [mutations[n] EXCEPT !.applied = FALSE] \in Mutation
    BY <2>3 DEF Mutation
  <2>5. mutations' \in Seq(Mutation) /\ Len(mutations') = Len(mutations)
    BY <2>1, <2>4, ExceptSeq DEF StoreTyped
  <2>6. QED
    BY <2>1, <2>2, <2>5, WrittenTyped DEF StoreTyped
<1>5. QED
  BY <1>1, <1>2, <1>3, <1>4 DEF Mutate

\* What a worker is left with when the process dies.
LEMMA LostWork ==
    ASSUME NEW wk \in Work
    PROVE  /\ Lost(wk) \in Work /\ Lost(wk).ids \subseteq wk.ids
           /\ Lost(wk).at \in {"idle", "done", "failed", "lost"}
<1>1. CASE wk.at \in {"idle", "done", "failed", "lost"}
  BY <1>1 DEF Lost
<1>2. CASE wk.at \notin {"idle", "done", "failed", "lost"}
  <2>1. NoWork(wk.policy) \in Work /\ NoWork(wk.policy).ids = {}
    BY WorkFields, MemoryAssumption DEF NoWork, Work, Awaits
  <2>2. Lost(wk) = [NoWork(wk.policy) EXCEPT !.at = "lost"]
    BY <1>2 DEF Lost
  <2>3. QED
    BY <2>1, <2>2 DEF Work, Awaits
<1>3. QED
  BY <1>1, <1>2

LEMMA CrashTyped ==
    ASSUME StoreTyped, Crash
    PROVE  StoreTyped'
<1>1. /\ UNCHANGED <<store, points, policy, available, mutations, made, faults>>
      /\ Disturbable /\ crashes' = crashes + 1
      /\ work' = [w \in Workers |-> IF w = "maintenance" THEN NoWork(policy) ELSE Lost(work[w])]
  BY DEF Crash
<1>2. NoWork(policy) \in Work /\ NoWork(policy).ids = {}
  BY MemoryAssumption DEF StoreTyped, NoWork, Work, Awaits
<1>3. ASSUME NEW w \in Workers PROVE work'[w] \in Work /\ work'[w].ids \subseteq DOMAIN entries
  <2>1. work[w] \in Work /\ work[w].ids \subseteq DOMAIN entries
    BY WorkerWork
  <2>2. CASE w = "maintenance"
    BY <1>1, <1>2, <2>2
  <2>3. CASE w # "maintenance"
    BY <1>1, <2>1, <2>3, LostWork
  <2>4. QED
    BY <2>2, <2>3
<1>4. work' \in [Workers -> Work]
  BY <1>1, <1>3
<1>5. faults + (crashes + 1) + Len(mutations) <= MaxIncidents
  BY <1>1, LenProperties, MemoryAssumption DEF Disturbable, StoreTyped
<1>6. QED
  BY <1>1, <1>3, <1>4, <1>5 DEF StoreTyped, store

LEMMA BootTyped ==
    ASSUME StoreTyped, Boot
    PROVE  StoreTyped'
<1>1. CASE BackfillEmbeddings
  <2>1. PICK S : entries' = EmbeddedIn(S)
    BY <1>1 DEF BackfillEmbeddings, EmbeddedIn
  <2>2. Writes
    BY <2>1, EmbeddedRows DEF Writes, StoreTyped
  <2>3. UNCHANGED <<links, reinforced, points, policy, available, work, mutations, made, faults, crashes>>
    BY <1>1 DEF BackfillEmbeddings
  <2>4. QED
    BY <2>2, <2>3, WrittenTyped DEF StoreTyped
<1>2. CASE InitializeVectorStore
  <2>1. Writes
    BY <1>2, Unwritten DEF InitializeVectorStore, store
  <2>2. /\ UNCHANGED <<store, points, policy, work, mutations, made, faults, crashes>>
        /\ available' \in BOOLEAN
    BY <1>2 DEF InitializeVectorStore
  <2>3. QED
    BY <2>1, <2>2, WrittenTyped DEF StoreTyped, store
<1>3. ASSUME NEW ok \in BOOLEAN, NEW held \in BOOLEAN, BackfillVectors(ok, held) PROVE StoreTyped'
  <2> DEFINE sent == IF available THEN Unsynced ELSE {}
  <2>1. entries' = Marked(sent, ok) /\ points' = IF held THEN points \cup sent ELSE points
    BY <1>3 DEF BackfillVectors
  <2>2. sent \subseteq DOMAIN entries
    BY DEF Unsynced
  <2> HIDE DEF sent
  <2>3. Writes
    BY <2>1, MarkedRows DEF Writes, StoreTyped
  <2>4. /\ UNCHANGED <<links, reinforced, policy, available, work, mutations, made, crashes>>
        /\ Faulted
    BY <1>3, FailureCounted DEF BackfillVectors
  <2>5. /\ faults' \in Nat /\ crashes' \in Nat
        /\ faults' + crashes' + Len(mutations') <= MaxIncidents
    BY <2>4, Counted
  <2>6. QED
    BY <2>1, <2>2, <2>3, <2>4, <2>5, WrittenTyped DEF StoreTyped
<1>4. CASE StartMaintenance
  <2>1. UNCHANGED <<store, points, policy, available, work, mutations, made, faults, crashes>>
    BY <1>4 DEF StartMaintenance
  <2>2. QED
    BY <2>1 DEF StoreTyped, store
<1>5. QED
  BY <1>1, <1>2, <1>3, <1>4 DEF Boot

LEMMA BeginTyped ==
    ASSUME StoreTyped, TimerFires \/ RunNow
    PROVE  StoreTyped'
<1>1. /\ UNCHANGED <<store, points, policy, available, mutations, made, faults, crashes>>
      /\ work' = [work EXCEPT !["maintenance"] = Compacting([@ EXCEPT !.policy = CurrentPolicy])]
  BY DEF TimerFires, RunNow, Execute
<1>2. Writes
  BY <1>1, Unwritten DEF store
<1>3. "maintenance" \in Workers /\ \E wk \in Work : Moves("maintenance", wk)
  BY <1>1, ExecuteMoves DEF store, Workers
<1>4. work' \in [Workers -> Work] /\ \A v \in Workers : work'[v].ids \subseteq DOMAIN entries'
  BY <1>2, <1>3, WorksOn
<1>5. QED
  BY <1>1, <1>4 DEF StoreTyped, store

LEMMA PolicyTyped ==
    ASSUME StoreTyped, NEW p \in Policies, UpdatePolicy(p)
    PROVE  StoreTyped'
<1>1. p \in Policy /\ p.cluster <= p.trigger /\ policy' = p
  BY MemoryAssumption DEF UpdatePolicy
<1>2. Faulted /\ UNCHANGED <<store, points, available, work, mutations, made, crashes>>
  BY DEF UpdatePolicy, Faulted
<1>3. /\ faults' \in Nat /\ crashes' \in Nat
      /\ faults' + crashes' + Len(mutations') <= MaxIncidents
  BY <1>2, Counted
<1>4. QED
  BY <1>1, <1>2, <1>3 DEF StoreTyped, store

LEMMA StopTyped ==
    ASSUME StoreTyped, Stop
    PROVE  StoreTyped'
<1>1. /\ UNCHANGED <<store, points, policy, available, work, mutations, made, faults>>
      /\ Disturbable /\ crashes' = crashes + 1
  BY DEF Stop
<1>2. faults + (crashes + 1) + Len(mutations) <= MaxIncidents
  BY <1>1, LenProperties, MemoryAssumption DEF Disturbable, StoreTyped
<1>3. QED
  BY <1>1, <1>2 DEF StoreTyped, store

LEMMA StoreTypedInit == Init => StoreTyped
<1> SUFFICES ASSUME Init PROVE StoreTyped
  OBVIOUS
<1>1. entries \in Seq(Entry) /\ Len(entries) <= MaxEntries
  BY MemoryAssumption DEF Init
<1>2. policy \in Policy /\ policy.cluster <= policy.trigger
  BY ClampedType, MemoryAssumption DEF Init
<1>3. NoWork(policy) \in Work /\ NoWork(policy).ids = {}
  BY <1>2, MemoryAssumption DEF NoWork, Work, Awaits
<1>4. work \in [Workers -> Work] /\ \A w \in Workers : work[w].ids \subseteq DOMAIN entries
  BY <1>3 DEF Init
<1>5. mutations \in Seq(Mutation) /\ Len(mutations) = 0
  BY DEF Init
<1>6. DOMAIN made = {} /\ made \in [DOMAIN made -> [from : SUBSET Ids, since : 0..MaxEntries]]
  BY DEF Init
<1>7. QED
  BY <1>1, <1>2, <1>4, <1>5, <1>6, MemoryAssumption DEF Init, StoreTyped

LEMMA StoreTypedNext == StoreTyped /\ [Next]_vars => StoreTyped'
<1> SUFFICES ASSUME StoreTyped, [Next]_vars PROVE StoreTyped'
  OBVIOUS
<1>1. ASSUME NEW r \in Runs, StartRun(r) \/ RunStep(r) PROVE StoreTyped'
  BY <1>1, RunTyped
<1>2. CASE WorkerStep("maintenance")
  BY <1>2, WorkerStepTyped DEF Workers
<1>3. CASE TimerFires \/ RunNow
  BY <1>3, BeginTyped
<1>4. CASE Mutate
  BY <1>4, MutateTyped
<1>5. ASSUME NEW p \in Policies, UpdatePolicy(p) PROVE StoreTyped'
  BY <1>5, PolicyTyped
<1>6. CASE Stop
  BY <1>6, StopTyped
<1>7. CASE Crash
  BY <1>7, CrashTyped
<1>8. CASE Boot
  BY <1>8, BootTyped
<1>9. CASE UNCHANGED vars
  BY <1>9 DEF StoreTyped, vars
<1>10. QED
  BY <1>1, <1>2, <1>3, <1>4, <1>5, <1>6, <1>7, <1>8, <1>9 DEF Next

-----------------------------------------------------------------------------
(* The maintenance *)

HasScheduled == \E m \in DOMAIN maintenance : maintenance[m].status = "scheduled"

UpkeepTyped ==
    /\ phase \in {"down", "embedded", "connected", "synced", "up"}
    /\ started \in BOOLEAN
    /\ maintenance \in Seq(Upkeep) /\ Len(maintenance) <= MaxMaintenance
    /\ executing \in 0..Len(maintenance) /\ timer \in 0..Len(maintenance)

\* There is a scheduled run whenever none executes, or room for one; the timer is
\* for a scheduled run; and the worker is at work exactly while a run executes.
UpkeepInv ==
    /\ UpkeepTyped
    /\ MaintenanceInStep
    /\ phase # "up" => executing = 0 /\ timer = 0 /\ ~started
    /\ work["maintenance"].at = "idle" <=> executing = 0
    /\ HasScheduled \/ Len(maintenance) < MaxMaintenance
    /\ phase = "up" /\ executing = 0 => HasScheduled
    /\ timer # 0 => maintenance[timer].status = "scheduled"

LEMMA EarliestFacts ==
    ASSUME NEW ms \in Seq(Upkeep), \E m \in DOMAIN ms : ms[m].status = "scheduled"
    PROVE  Earliest(ms) \in DOMAIN ms /\ ms[Earliest(ms)].status = "scheduled"
<1> DEFINE waiting == {m \in DOMAIN ms : ms[m].status = "scheduled"}
           soon == {m \in waiting : ms[m].soon}
           choice == IF soon # {} THEN soon ELSE waiting
<1>1. DOMAIN ms \in SUBSET Nat
  BY LenProperties
<1>2. choice \in SUBSET Nat /\ choice # {} /\ choice \subseteq waiting
  BY <1>1
<1>3. Earliest(ms) = Min(choice)
  BY DEF Earliest
<1> HIDE DEF choice
<1>4. Min(choice) \in waiting
  BY <1>2, MinFacts
<1>5. QED
  BY <1>3, <1>4

LEMMA EnsuredFacts ==
    ASSUME NEW ms \in Seq(Upkeep), Len(ms) <= MaxMaintenance,
           (\E m \in DOMAIN ms : ms[m].status = "scheduled") \/ Len(ms) < MaxMaintenance
    PROVE  LET n == Ensured(ms)
           IN  /\ n \in Seq(Upkeep) /\ Len(n) <= MaxMaintenance /\ Len(ms) <= Len(n)
               /\ \E m \in DOMAIN n : n[m].status = "scheduled"
               /\ \A m \in DOMAIN n :
                     n[m].status = "running" => m \in DOMAIN ms /\ ms[m].status = "running"
               /\ Earliest(n) \in 1..Len(n) /\ n[Earliest(n)].status = "scheduled"
<1> DEFINE n == Ensured(ms)
           row == [status |-> "scheduled", soon |-> FALSE]
<1>1. CASE \E m \in DOMAIN ms : ms[m].status = "scheduled"
  <2>1. n = ms
    BY <1>1 DEF Ensured
  <2> HIDE DEF n
  <2>2. Earliest(ms) \in DOMAIN ms /\ ms[Earliest(ms)].status = "scheduled"
    BY <1>1, EarliestFacts
  <2>3. Len(ms) \in Nat /\ DOMAIN ms = 1..Len(ms)
    BY LenProperties
  <2>4. QED
    BY <1>1, <2>1, <2>2, <2>3 DEF n
<1>2. CASE ~\E m \in DOMAIN ms : ms[m].status = "scheduled"
  <2>1. n = Append(ms, row) /\ row \in Upkeep
    BY <1>2 DEF Ensured, Upkeep, Statuses
  <2>2. row.status = "scheduled"
    OBVIOUS
  <2>3. Len(ms) \in Nat /\ DOMAIN ms = 1..Len(ms)
    BY LenProperties
  <2> HIDE DEF n, row
  <2>4. /\ n \in Seq(Upkeep) /\ Len(n) = Len(ms) + 1 /\ DOMAIN n = 1..Len(n)
        /\ n[Len(ms) + 1] = row /\ \A m \in 1..Len(ms) : n[m] = ms[m]
    BY <2>1, AppendProperties, LenProperties
  <2>5. /\ \E m \in DOMAIN n : n[m].status = "scheduled"
        /\ \A m \in DOMAIN n : n[m].status = "running" => m \in DOMAIN ms /\ ms[m].status = "running"
    BY <2>2, <2>3, <2>4
  <2>6. Earliest(n) \in DOMAIN n /\ n[Earliest(n)].status = "scheduled"
    BY <2>4, <2>5, EarliestFacts
  <2>7. Len(n) <= MaxMaintenance
    BY <1>2, <2>3, <2>4, MemoryAssumption
  <2>8. QED
    BY <2>3, <2>4, <2>5, <2>6, <2>7 DEF n
<1>3. QED
  BY <1>1, <1>2

\* A row of a maintenance run gets another status.
LEMMA StatusWritten ==
    ASSUME NEW ms \in Seq(Upkeep), NEW m \in DOMAIN ms, NEW status \in Statuses
    PROVE  LET n == [ms EXCEPT ![m].status = status]
           IN  /\ n \in Seq(Upkeep) /\ Len(n) = Len(ms) /\ DOMAIN n = DOMAIN ms
               /\ n[m].status = status
               /\ \A k \in DOMAIN ms : k # m => n[k] = ms[k]
<1> DEFINE row == [ms[m] EXCEPT !.status = status]
           n == [ms EXCEPT ![m] = row]
<1>0. ms[m] \in Upkeep
  OBVIOUS
<1>1. row \in Upkeep /\ row.status = status
  BY <1>0 DEF Upkeep
<1> HIDE DEF row
<1>2. /\ n \in Seq(Upkeep) /\ Len(n) = Len(ms) /\ DOMAIN n = DOMAIN ms
      /\ n[m] = row /\ \A k \in DOMAIN ms : k # m => n[k] = ms[k]
  BY <1>1, ExceptSeq, LenProperties
<1>3. QED
  BY <1>1, <1>2 DEF row

\* The maintenance is left alone.
LEMMA UpkeepKept ==
    ASSUME UpkeepInv, UNCHANGED upkeep, phase' = phase,
           work'["maintenance"].at = "idle" <=> work["maintenance"].at = "idle"
    PROVE  UpkeepInv'
BY DEF UpkeepInv, UpkeepTyped, upkeep, MaintenanceInStep, RunningExecutes, MaintenanceRecurs, HasScheduled

LEMMA UpkeepSettled ==
    ASSUME UpkeepInv, phase' = phase, executing # 0, work'["maintenance"].at = "idle",
           NEW status \in {"completed", "failed"}, Settled(status)
    PROVE  UpkeepInv'
<1> DEFINE ended == [maintenance EXCEPT ![executing].status = status]
<1>1. /\ phase = "up" /\ maintenance \in Seq(Upkeep) /\ Len(maintenance) \in Nat
      /\ DOMAIN maintenance = 1..Len(maintenance) /\ executing \in DOMAIN maintenance
      /\ timer \in 0..Len(maintenance) /\ started \in BOOLEAN
      /\ {m \in DOMAIN maintenance : maintenance[m].status = "running"} = {executing}
  BY LenProperties DEF UpkeepInv, UpkeepTyped, MaintenanceInStep, RunningExecutes
<1>2. status \in Statuses /\ status # "running" /\ status # "scheduled"
  BY DEF Statuses
<1>3. /\ ended \in Seq(Upkeep) /\ Len(ended) = Len(maintenance) /\ DOMAIN ended = DOMAIN maintenance
      /\ ended[executing].status = status
      /\ \A k \in DOMAIN maintenance : k # executing => ended[k] = maintenance[k]
  BY <1>1, <1>2, StatusWritten
<1>4. executing' = 0 /\ UNCHANGED started
  BY DEF Settled
<1>5. timer = 0 => /\ maintenance' = Ensured(ended)
                   /\ timer' = IF started THEN Earliest(Ensured(ended)) ELSE 0
  BY DEF Settled
<1>6. timer # 0 => maintenance' = ended /\ timer' = timer
  BY DEF Settled
<1> HIDE DEF ended
<1>7. \A m \in DOMAIN ended : ended[m].status # "running"
  BY <1>1, <1>2, <1>3
<1>8. maintenance[executing].status = "running"
  BY <1>1
<1>9. CASE timer = 0
  <2>1. (\E m \in DOMAIN ended : ended[m].status = "scheduled") \/ Len(ended) < MaxMaintenance
    BY <1>1, <1>3, <1>8 DEF UpkeepInv, HasScheduled
  <2>2. Len(ended) <= MaxMaintenance
    BY <1>3 DEF UpkeepInv, UpkeepTyped
  <2> DEFINE n == Ensured(ended)
  <2>3. /\ n \in Seq(Upkeep) /\ Len(n) <= MaxMaintenance /\ Len(ended) <= Len(n)
        /\ \E m \in DOMAIN n : n[m].status = "scheduled"
        /\ \A m \in DOMAIN n :
              n[m].status = "running" => m \in DOMAIN ended /\ ended[m].status = "running"
        /\ Earliest(n) \in 1..Len(n) /\ n[Earliest(n)].status = "scheduled"
    BY <1>3, <2>1, <2>2, EnsuredFacts
  <2>4. maintenance' = n /\ timer' = IF started THEN Earliest(n) ELSE 0
    BY <1>5, <1>9
  <2> HIDE DEF n
  <2>5. Len(n) \in Nat
    BY <2>3, LenProperties
  <2>6. UpkeepTyped'
    BY <1>1, <1>4, <2>3, <2>4, <2>5 DEF UpkeepInv, UpkeepTyped
  <2>7. HasScheduled'
    BY <2>3, <2>4 DEF HasScheduled
  <2>8. RunningExecutes'
    BY <1>4, <1>7, <2>3, <2>4 DEF RunningExecutes
  <2>9. timer' # 0 => maintenance'[timer'].status = "scheduled"
    BY <2>3, <2>4
  <2>10. MaintenanceRecurs'
    BY <1>4, <2>3, <2>4, <2>5 DEF MaintenanceRecurs
  <2>11. QED
    BY <1>1, <1>4, <2>6, <2>7, <2>8, <2>9, <2>10 DEF UpkeepInv, MaintenanceInStep
<1>10. CASE timer # 0
  <2>1. maintenance[timer].status = "scheduled" /\ timer \in DOMAIN maintenance /\ timer # executing
    BY <1>1, <1>8, <1>10 DEF UpkeepInv
  <2>2. maintenance' = ended /\ timer' = timer /\ ended[timer].status = "scheduled"
    BY <1>3, <1>6, <1>10, <2>1
  <2>3. UpkeepTyped'
    BY <1>1, <1>3, <1>4, <2>2 DEF UpkeepInv, UpkeepTyped
  <2>4. HasScheduled'
    BY <1>3, <2>1, <2>2 DEF HasScheduled
  <2>5. RunningExecutes'
    BY <1>4, <1>7, <2>2 DEF RunningExecutes
  <2>6. MaintenanceRecurs'
    BY <1>10, <2>2 DEF MaintenanceRecurs
  <2>7. QED
    BY <1>1, <1>4, <2>2, <2>3, <2>4, <2>5, <2>6 DEF UpkeepInv, MaintenanceInStep
<1>11. QED
  BY <1>9, <1>10

\* The maintenance executes, and its pass is the compaction or the pruning.
LEMMA ExecuteAt ==
    ASSUME StoreTyped,
           work' = [work EXCEPT !["maintenance"] = Compacting([@ EXCEPT !.policy = CurrentPolicy])],
           UNCHANGED entries
    PROVE  work'["maintenance"].at # "idle"
<1>1. PICK wk \in Work : Begins(wk) /\ Moves("maintenance", wk)
  BY ExecuteMoves
<1>2. work'["maintenance"] = wk
  BY <1>1 DEF Moves, StoreTyped, Workers
<1>3. QED
  BY <1>1, <1>2 DEF Begins

LEMMA TimerFiresUpkeep ==
    ASSUME StoreTyped, UpkeepInv, TimerFires
    PROVE  UpkeepInv'
<1> DEFINE n == [maintenance EXCEPT ![timer].status = "running"]
<1>1. /\ phase = "up" /\ phase' = phase /\ timer # 0 /\ executing = 0 /\ timer' = 0
      /\ Len(maintenance) < MaxMaintenance /\ started' = started
      /\ maintenance' = n /\ executing' = timer
  BY DEF TimerFires, Execute
<1>2. /\ maintenance \in Seq(Upkeep) /\ timer \in DOMAIN maintenance
      /\ DOMAIN maintenance = 1..Len(maintenance) /\ Len(maintenance) \in Nat
  BY <1>1, LenProperties DEF UpkeepInv, UpkeepTyped
<1>3. /\ n \in Seq(Upkeep) /\ Len(n) = Len(maintenance) /\ DOMAIN n = DOMAIN maintenance
      /\ n[timer].status = "running"
      /\ \A k \in DOMAIN maintenance : k # timer => n[k] = maintenance[k]
  BY <1>2, StatusWritten DEF Statuses
<1> HIDE DEF n
<1>4. work'["maintenance"].at # "idle"
  BY ExecuteAt DEF TimerFires, Execute, store
<1>5. UpkeepTyped'
  BY <1>1, <1>2, <1>3, MemoryAssumption DEF UpkeepInv, UpkeepTyped
<1>6. {m \in DOMAIN maintenance : maintenance[m].status = "running"} = {}
  BY <1>1 DEF UpkeepInv, MaintenanceInStep, RunningExecutes
<1>7. {m \in DOMAIN n : n[m].status = "running"} = {timer}
  BY <1>2, <1>3, <1>6
<1>8. RunningExecutes'
  BY <1>1, <1>7 DEF RunningExecutes
<1>9. MaintenanceRecurs'
  BY <1>1 DEF MaintenanceRecurs
<1>10. QED
  BY <1>1, <1>3, <1>4, <1>5, <1>8, <1>9 DEF UpkeepInv, MaintenanceInStep

LEMMA RunNowUpkeep ==
    ASSUME StoreTyped, UpkeepInv, RunNow
    PROVE  UpkeepInv'
<1> DEFINE m == Len(maintenance) + 1
           row == [status |-> "running", soon |-> TRUE]
           n == Append(maintenance, row)
<1>1. /\ phase = "up" /\ phase' = phase /\ executing = 0 /\ timer' = timer
      /\ Len(maintenance) < MaxMaintenance /\ started' = started
      /\ maintenance' = n /\ executing' = m
  BY DEF RunNow
<1>2. row \in Upkeep /\ row.status = "running"
  BY DEF Upkeep, Statuses
<1>3. /\ maintenance \in Seq(Upkeep) /\ timer \in 0..Len(maintenance)
      /\ DOMAIN maintenance = 1..Len(maintenance) /\ Len(maintenance) \in Nat
  BY LenProperties DEF UpkeepInv, UpkeepTyped
<1> HIDE DEF row
<1>4. /\ n \in Seq(Upkeep) /\ Len(n) = m /\ DOMAIN n = 1..m
      /\ n[m] = row /\ \A k \in 1..Len(maintenance) : n[k] = maintenance[k]
  BY <1>2, <1>3, AppendProperties, LenProperties
<1> HIDE DEF n
<1>5. work'["maintenance"].at # "idle"
  BY ExecuteAt DEF RunNow, store
<1>6. UpkeepTyped'
  BY <1>1, <1>3, <1>4, MemoryAssumption DEF UpkeepInv, UpkeepTyped
<1>7. {k \in DOMAIN maintenance : maintenance[k].status = "running"} = {}
  BY <1>1 DEF UpkeepInv, MaintenanceInStep, RunningExecutes
<1>8. {k \in DOMAIN n : n[k].status = "running"} = {m}
  BY <1>2, <1>3, <1>4, <1>7
<1>9. m # 0
  BY <1>3
<1>10. HasScheduled'
  <2>1. PICK k \in DOMAIN maintenance : maintenance[k].status = "scheduled"
    BY <1>1 DEF UpkeepInv, HasScheduled
  <2>2. k \in DOMAIN n /\ n[k].status = "scheduled"
    BY <1>3, <1>4, <2>1
  <2>3. QED
    BY <1>1, <2>2 DEF HasScheduled
<1>11. timer' # 0 => maintenance'[timer'].status = "scheduled"
  <2>1. timer # 0 => timer \in 1..Len(maintenance) /\ maintenance[timer].status = "scheduled"
    BY <1>3 DEF UpkeepInv
  <2>2. QED
    BY <1>1, <1>4, <2>1
<1> HIDE DEF m
<1>12. RunningExecutes'
  BY <1>1, <1>8, <1>9 DEF RunningExecutes
<1>13. MaintenanceRecurs'
  BY <1>1, <1>9, <1>11 DEF MaintenanceRecurs
<1>14. QED
  BY <1>1, <1>5, <1>6, <1>9, <1>10, <1>11, <1>12, <1>13 DEF UpkeepInv, MaintenanceInStep

LEMMA StopUpkeep ==
    ASSUME UpkeepInv, Stop
    PROVE  UpkeepInv'
<1>1. /\ phase = "up" /\ phase' = phase /\ started' = FALSE /\ timer' = 0
      /\ UNCHANGED <<work, maintenance, executing>>
  BY DEF Stop
<1>a. started' \in BOOLEAN
  BY <1>1
<1>b. timer' \in 0..Len(maintenance)
  BY <1>1, LenProperties DEF UpkeepInv, UpkeepTyped
<1>2. UpkeepTyped'
  BY <1>1, <1>a, <1>b DEF UpkeepInv, UpkeepTyped
<1>3. QED
  BY <1>1, <1>2
     DEF UpkeepInv, MaintenanceInStep, RunningExecutes, MaintenanceRecurs, HasScheduled

LEMMA CrashUpkeep ==
    ASSUME StoreTyped, UpkeepInv, Crash
    PROVE  UpkeepInv'
<1>1. /\ phase' = "down" /\ executing' = 0 /\ timer' = 0 /\ started' = FALSE
      /\ work' = [w \in Workers |-> IF w = "maintenance" THEN NoWork(policy) ELSE Lost(work[w])]
  BY DEF Crash
<1>2. work'["maintenance"].at = "idle"
  BY <1>1 DEF Workers, NoWork
<1>3. maintenance \in Seq(Upkeep) /\ Len(maintenance) \in Nat /\ Len(maintenance) <= MaxMaintenance
  BY LenProperties DEF UpkeepInv, UpkeepTyped
<1>4. /\ maintenance' \in Seq(Upkeep) /\ Len(maintenance') <= MaxMaintenance /\ Len(maintenance') \in Nat
      /\ HasScheduled' \/ Len(maintenance') < MaxMaintenance
  <2>1. CASE UNCHANGED maintenance
    BY <1>3, <2>1 DEF UpkeepInv, HasScheduled
  <2>2. CASE /\ Len(maintenance) < MaxMaintenance
             /\ maintenance' = Append(maintenance, [status |-> "scheduled", soon |-> TRUE])
    <3> DEFINE row == [status |-> "scheduled", soon |-> TRUE]
               n == Append(maintenance, row)
    <3>1. row \in Upkeep /\ row.status = "scheduled"
      BY DEF Upkeep, Statuses
    <3> HIDE DEF row
    <3>2. /\ n \in Seq(Upkeep) /\ Len(n) = Len(maintenance) + 1 /\ n[Len(maintenance) + 1] = row
          /\ DOMAIN n = 1..Len(n)
      BY <1>3, <3>1, AppendProperties, LenProperties
    <3>3. maintenance' = n
      BY <2>2 DEF row
    <3> HIDE DEF n
    <3>4. Len(n) <= MaxMaintenance /\ Len(n) \in Nat /\ Len(maintenance) + 1 \in DOMAIN n
      BY <1>3, <2>2, <3>2, MemoryAssumption
    <3>5. QED
      BY <3>1, <3>2, <3>3, <3>4 DEF HasScheduled
  <2>3. QED
    BY <2>1, <2>2 DEF Crash
<1>a. started' \in BOOLEAN
  BY <1>1
<1>b. 0 \in 0..Len(maintenance')
  BY <1>4
<1>5. UpkeepTyped'
  BY <1>1, <1>4, <1>a, <1>b DEF UpkeepTyped
<1>6. QED
  BY <1>1, <1>2, <1>4, <1>5 DEF UpkeepInv, MaintenanceInStep, RunningExecutes, MaintenanceRecurs

LEMMA RecoveredFacts ==
    ASSUME UpkeepInv
    PROVE  /\ RecoverInterruptedRuns \in Seq(Upkeep)
           /\ Len(RecoverInterruptedRuns) = Len(maintenance)
           /\ \A m \in DOMAIN RecoverInterruptedRuns :
                 /\ RecoverInterruptedRuns[m].status # "running"
                 /\ maintenance[m].status = "scheduled" =>
                       RecoverInterruptedRuns[m].status = "scheduled"
           /\ DOMAIN RecoverInterruptedRuns = DOMAIN maintenance
<1> DEFINE n == RecoverInterruptedRuns
<1>1. maintenance \in Seq(Upkeep)
  BY DEF UpkeepInv, UpkeepTyped
<1>2. n = [m \in DOMAIN maintenance |-> n[m]] /\ DOMAIN n = DOMAIN maintenance
  BY DEF RecoverInterruptedRuns
<1>3. \A m \in DOMAIN maintenance :
         /\ n[m] = IF maintenance[m].status = "running" THEN [maintenance[m] EXCEPT !.status = "failed"]
                   ELSE maintenance[m]
         /\ maintenance[m] \in Upkeep
  BY <1>1 DEF RecoverInterruptedRuns
<1> HIDE DEF n
<1>4. ASSUME NEW m \in DOMAIN maintenance
      PROVE  /\ n[m] \in Upkeep /\ n[m].status # "running"
             /\ maintenance[m].status = "scheduled" => n[m].status = "scheduled"
  <2>1. CASE maintenance[m].status = "running"
    <3>1. n[m] = [maintenance[m] EXCEPT !.status = "failed"] /\ maintenance[m] \in Upkeep
      BY <1>3, <2>1
    <3>2. QED
      BY <2>1, <3>1 DEF Upkeep, Statuses
  <2>2. CASE maintenance[m].status # "running"
    BY <1>3, <2>2
  <2>3. QED
    BY <2>1, <2>2
<1>5. n \in Seq(Upkeep) /\ Len(n) = Len(maintenance)
  BY <1>1, <1>2, <1>4, Rewritten
<1>6. QED
  BY <1>2, <1>4, <1>5 DEF n

LEMMA StartUpkeep ==
    ASSUME UpkeepInv, StartMaintenance
    PROVE  UpkeepInv'
<1> DEFINE ms == RecoverInterruptedRuns
           n == Ensured(ms)
<1>1. /\ phase = "synced" /\ phase' = "up" /\ started' = TRUE /\ maintenance' = n
      /\ timer' = Earliest(n) /\ UNCHANGED <<work, executing>>
  BY DEF StartMaintenance
<1>2. executing = 0 /\ work["maintenance"].at = "idle"
  BY <1>1 DEF UpkeepInv
<1>3. /\ ms \in Seq(Upkeep) /\ Len(ms) = Len(maintenance) /\ DOMAIN ms = DOMAIN maintenance
      /\ \A m \in DOMAIN ms : /\ ms[m].status # "running"
                              /\ maintenance[m].status = "scheduled" => ms[m].status = "scheduled"
  BY RecoveredFacts
<1> HIDE DEF ms
<1>4. (\E m \in DOMAIN ms : ms[m].status = "scheduled") \/ Len(ms) < MaxMaintenance
  BY <1>3 DEF UpkeepInv, HasScheduled
<1>5. Len(ms) <= MaxMaintenance
  BY <1>3 DEF UpkeepInv, UpkeepTyped
<1>6. /\ n \in Seq(Upkeep) /\ Len(n) <= MaxMaintenance
      /\ \E m \in DOMAIN n : n[m].status = "scheduled"
      /\ \A m \in DOMAIN n : n[m].status = "running" => m \in DOMAIN ms /\ ms[m].status = "running"
      /\ Earliest(n) \in 1..Len(n) /\ n[Earliest(n)].status = "scheduled"
  BY <1>3, <1>4, <1>5, EnsuredFacts
<1> HIDE DEF n
<1>7. Len(n) \in Nat
  BY <1>6, LenProperties
<1>8. UpkeepTyped'
  BY <1>1, <1>2, <1>6, <1>7 DEF UpkeepTyped
<1>9. RunningExecutes'
  BY <1>1, <1>2, <1>3, <1>6 DEF RunningExecutes
<1>10. MaintenanceRecurs'
  BY <1>1, <1>6, <1>7 DEF MaintenanceRecurs
<1>11. HasScheduled'
  BY <1>1, <1>6 DEF HasScheduled
<1>12. QED
  BY <1>1, <1>2, <1>6, <1>8, <1>9, <1>10, <1>11 DEF UpkeepInv, MaintenanceInStep

\* A step of a worker leaves the maintenance alone, or is the end of its run.
LEMMA AdvanceUpkeep ==
    ASSUME StoreTyped, UpkeepInv, NEW w \in Workers, Advances(w), phase' = phase
    PROVE  UpkeepInv'
<1>1. PICK wk \in Work :
         /\ Moves(w, wk)
         /\ IF wk.at = "idle"
            THEN w = "maintenance" /\ \E status \in {"completed", "failed"} : Settled(status)
            ELSE UNCHANGED upkeep
  BY DEF Advances
<1>2. work' = [work EXCEPT ![w] = wk] /\ work \in [Workers -> Work] /\ "maintenance" \in Workers
  BY <1>1 DEF Moves, StoreTyped, Workers
<1>3. CASE wk.at = "idle"
  <2>1. w = "maintenance" /\ work'["maintenance"].at = "idle" /\ executing # 0
    BY <1>1, <1>2, <1>3 DEF Advances, UpkeepInv
  <2>2. QED
    BY <1>1, <1>3, <2>1, UpkeepSettled
<1>4. CASE wk.at # "idle"
  <2>1. work'["maintenance"].at = "idle" <=> work["maintenance"].at = "idle"
    BY <1>2, <1>4 DEF Advances
  <2>2. QED
    BY <1>1, <1>4, <2>1, UpkeepKept
<1>5. QED
  BY <1>3, <1>4

LEMMA WorkerUpkeep ==
    ASSUME StoreTyped, UpkeepInv, NEW w \in Workers, WorkerStep(w)
    PROVE  UpkeepInv'
<1>1. phase' = phase
  BY DEF WorkerStep, Sync, Compact, Prune, DeletePoints, DeleteFails
<1>2. Advances(w)
  BY SyncStep, CompactStep, PruneStep, DeletePointsStep, DeleteFailsStep DEF WorkerStep
<1>3. QED
  BY <1>1, <1>2, AdvanceUpkeep

LEMMA RunUpkeep ==
    ASSUME StoreTyped, UpkeepInv, NEW r \in Runs, StartRun(r) \/ RunStep(r)
    PROVE  UpkeepInv'
<1>1. CASE WorkerStep(r)
  BY <1>1, WorkerUpkeep, RunWorker
<1>2. CASE ~WorkerStep(r)
  <2>1. phase' = phase
    BY <1>2 DEF StartRun, RunStep, Search, SearchFails, Retrieve, StoreTurn, Conclude, StoreFacts
  <2>2. Advances(r)
    BY <1>2, StartRunStep, SearchStep, SearchFailsStep, RetrieveStep, StoreTurnStep, ConcludeStep,
       StoreFactsStep DEF RunStep
  <2>3. QED
    BY <2>1, <2>2, AdvanceUpkeep, RunWorker
<1>3. QED
  BY <1>1, <1>2

LEMMA BootUpkeep ==
    ASSUME UpkeepInv, Boot
    PROVE  UpkeepInv'
<1>1. CASE StartMaintenance
  BY <1>1, StartUpkeep
<1>2. CASE ~StartMaintenance
  <2>1. /\ phase # "up" /\ phase' \in {"embedded", "connected", "synced"}
        /\ UNCHANGED <<work, upkeep>>
    BY <1>2 DEF Boot, BackfillEmbeddings, InitializeVectorStore, BackfillVectors
  <2>2. QED
    BY <2>1 DEF UpkeepInv, UpkeepTyped, upkeep, MaintenanceInStep, RunningExecutes,
       MaintenanceRecurs, HasScheduled
<1>3. QED
  BY <1>1, <1>2

LEMMA UpkeepInit == Init => UpkeepInv
<1> SUFFICES ASSUME Init PROVE UpkeepInv
  OBVIOUS
<1>1. /\ maintenance = <<>> /\ executing = 0 /\ timer = 0 /\ started = FALSE
      /\ phase = "connected" /\ work["maintenance"].at = "idle"
  BY DEF Init, NoWork, Workers
<1>2. maintenance \in Seq(Upkeep) /\ Len(maintenance) = 0
  BY <1>1
<1>3. 0 < MaxMaintenance /\ MaxMaintenance \in Nat
  BY MemoryAssumption
<1>4. started \in BOOLEAN /\ ~started
  BY <1>1
<1>5. UpkeepTyped
  BY <1>1, <1>2, <1>3, <1>4 DEF UpkeepTyped
<1>6. MaintenanceInStep
  BY <1>1 DEF MaintenanceInStep, RunningExecutes, MaintenanceRecurs
<1>7. QED
  BY <1>1, <1>2, <1>3, <1>4, <1>5, <1>6 DEF UpkeepInv

LEMMA UpkeepNext == StoreTyped /\ UpkeepInv /\ [Next]_vars => UpkeepInv'
<1> SUFFICES ASSUME StoreTyped, UpkeepInv, [Next]_vars PROVE UpkeepInv'
  OBVIOUS
<1>1. ASSUME NEW r \in Runs, StartRun(r) \/ RunStep(r) PROVE UpkeepInv'
  BY <1>1, RunUpkeep
<1>2. CASE WorkerStep("maintenance")
  BY <1>2, WorkerUpkeep DEF Workers
<1>3. CASE TimerFires
  BY <1>3, TimerFiresUpkeep
<1>4. CASE RunNow
  BY <1>4, RunNowUpkeep
<1>5. CASE Mutate
  <2>1. UNCHANGED <<upkeep, phase, work>>
    BY <1>5 DEF Mutate, Create, Deactivate, Supersede, RollBack, Mutated
  <2>2. QED
    BY <2>1, UpkeepKept
<1>6. ASSUME NEW p \in Policies, UpdatePolicy(p) PROVE UpkeepInv'
  <2>1. UNCHANGED <<upkeep, phase, work>>
    BY <1>6 DEF UpdatePolicy
  <2>2. QED
    BY <2>1, UpkeepKept
<1>7. CASE Stop
  BY <1>7, StopUpkeep
<1>8. CASE Crash
  BY <1>8, CrashUpkeep
<1>9. CASE Boot
  BY <1>9, BootUpkeep
<1>10. CASE UNCHANGED vars
  <2>1. UNCHANGED <<upkeep, phase, work>>
    BY <1>10 DEF vars, upkeep
  <2>2. QED
    BY <2>1, UpkeepKept
<1>11. QED
  BY <1>1, <1>2, <1>3, <1>4, <1>5, <1>6, <1>7, <1>8, <1>9, <1>10 DEF Next

\* Every variable keeps its type, whatever fails, dies or is mutated.
THEOREM TypeCorrect == Spec => []TypeOK
<1>1. Init => StoreTyped /\ UpkeepInv
  BY StoreTypedInit, UpkeepInit
<1>2. (StoreTyped /\ UpkeepInv) /\ [Next]_vars => (StoreTyped /\ UpkeepInv)'
  BY StoreTypedNext, UpkeepNext
<1>3. StoreTyped /\ UpkeepInv => TypeOK
  BY DEF StoreTyped, UpkeepInv, UpkeepTyped, TypeOK
<1>4. QED
  BY <1>1, <1>2, <1>3, PTL DEF Spec

\* The run marked as running is the one that executes, and until it is stopped the
\* maintenance has a timer for a scheduled run or a run that arms one, whatever
\* order the timer, the operator, the end of a pass, a shutdown and a death come in.
THEOREM MaintenanceInStepAlways == Spec => []MaintenanceInStep
<1>1. Init => StoreTyped /\ UpkeepInv
  BY StoreTypedInit, UpkeepInit
<1>2. (StoreTyped /\ UpkeepInv) /\ [Next]_vars => (StoreTyped /\ UpkeepInv)'
  BY StoreTypedNext, UpkeepNext
<1>3. UpkeepInv => MaintenanceInStep
  BY DEF UpkeepInv
<1>4. QED
  BY <1>1, <1>2, <1>3, PTL DEF Spec

-----------------------------------------------------------------------------
(* What Qdrant holds *)

\* Points are deleted of rows that are gone.
DeletedAreGone ==
    \A w \in Workers : work[w].at = "delete" =>
        \A e \in work[w].ids : e \in DOMAIN entries /\ ~Live(e)

SyncInv == SyncedIsFindable /\ DeletedAreGone

\* A row that the step leaves marked, without its point.
Missing(e) == entries'[e].state # "deleted" /\ entries'[e].synced /\ e \notin points'

Sending(w, e) == work[w].at = "summarySync" /\ e \in work[w].ids

LEMMA GoneKept ==
    ASSUME StoreTyped, DeletedAreGone, Writes, (\E w \in Workers, wk \in Work : Moves(w, wk)) \/ work' = work
    PROVE  DeletedAreGone'
<1>1. DOMAIN entries \subseteq DOMAIN entries'
  BY WritesDomain
<1>2. ASSUME NEW w \in Workers, work'[w] = work[w], work[w].at = "delete", NEW e \in work[w].ids
      PROVE  e \in DOMAIN entries' /\ entries'[e].state = "deleted"
  BY <1>1, <1>2 DEF DeletedAreGone, Live, Writes, Grown
<1>3. CASE work' = work
  BY <1>2, <1>3 DEF DeletedAreGone, Live
<1>4. ASSUME NEW v \in Workers, NEW wk \in Work, Moves(v, wk) PROVE DeletedAreGone'
  <2>1. ASSUME NEW w \in Workers, work'[w].at = "delete", NEW e \in work'[w].ids
        PROVE  e \in DOMAIN entries' /\ entries'[e].state = "deleted"
    <3>1. CASE w = v
      <4>1. work'[w] = wk
        BY <1>4, <3>1 DEF Moves, StoreTyped
      <4>2. QED
        BY <1>4, <2>1, <4>1 DEF Moves
    <3>2. CASE w # v
      <4>1. work'[w] = work[w]
        BY <1>4, <3>2 DEF Moves, StoreTyped
      <4>2. QED
        BY <1>2, <2>1, <4>1
    <3>3. QED
      BY <3>1, <3>2
  <2>2. QED
    BY <2>1 DEF DeletedAreGone, Live
<1>5. QED
  BY <1>3, <1>4

\* A row that is missing was missing, and who is to send it is at it still; or it is
\* a summary that is to be sent.
LEMMA FindableKept ==
    ASSUME StoreTyped, SyncedIsFindable, crashes' \in {crashes, crashes + 1},
           \A e \in DOMAIN entries' : Missing(e) =>
              \/ /\ e \in DOMAIN entries /\ Live(e) /\ entries[e].synced /\ e \notin points
                 /\ entries'[e].kind = entries[e].kind
                 /\ \A w \in Workers : Sending(w, e) => work'[w] = work[w] \/ crashes' > 0
              \/ entries'[e].kind = "summary" /\ \E w \in Workers : Sending(w, e)'
    PROVE  SyncedIsFindable'
<1> SUFFICES ASSUME NEW e \in DOMAIN entries', Missing(e)
             PROVE  /\ entries'[e].kind = "summary"
                    /\ (\E w \in Workers : work'[w].at = "summarySync" /\ e \in work'[w].ids)
                       \/ crashes' > 0
  BY DEF SyncedIsFindable, Missing, Live
<1>1. CASE entries'[e].kind = "summary" /\ \E w \in Workers : Sending(w, e)'
  BY <1>1 DEF Sending
<1>2. CASE /\ e \in DOMAIN entries /\ Live(e) /\ entries[e].synced /\ e \notin points
           /\ entries'[e].kind = entries[e].kind
           /\ \A w \in Workers : Sending(w, e) => work'[w] = work[w] \/ crashes' > 0
  <2>1. /\ entries[e].kind = "summary"
        /\ (\E w \in Workers : Sending(w, e)) \/ crashes > 0
    BY <1>2 DEF SyncedIsFindable, Sending
  <2>2. CASE crashes > 0
    <3>1. crashes' > 0
      BY <2>2 DEF StoreTyped
    <3>2. QED
      BY <1>2, <2>1, <3>1
  <2>3. ASSUME NEW w \in Workers, Sending(w, e)
        PROVE  (\E v \in Workers : work'[v].at = "summarySync" /\ e \in work'[v].ids) \/ crashes' > 0
    BY <1>2, <2>3 DEF Sending
  <2>4. QED
    BY <1>2, <2>1, <2>2, <2>3
<1>3. QED
  BY <1>1, <1>2

\* The rows that a step marks as synced are none but those it has sent.
Unmarking ==
    /\ Writes /\ points \subseteq points' /\ crashes' \in {crashes, crashes + 1}
    /\ \A e \in DOMAIN entries' : Missing(e) => e \in DOMAIN entries /\ entries[e].synced

LEMMA UnmarkingKept ==
    ASSUME StoreTyped, SyncedIsFindable, Unmarking,
           \A w \in Workers : work[w].at = "summarySync" => work'[w] = work[w] \/ crashes' > 0
    PROVE  SyncedIsFindable'
<1>1. ASSUME NEW e \in DOMAIN entries', Missing(e)
      PROVE  /\ e \in DOMAIN entries /\ Live(e) /\ entries[e].synced /\ e \notin points
             /\ entries'[e].kind = entries[e].kind
             /\ \A w \in Workers : Sending(w, e) => work'[w] = work[w] \/ crashes' > 0
  BY <1>1 DEF Unmarking, Missing, Writes, Grown, Live, Sending
<1>2. QED
  BY <1>1, FindableKept DEF Unmarking

\* A worker moves on from an await that is not the sending of a summary.
LEMMA OthersSend ==
    ASSUME StoreTyped, NEW w \in Workers, Advances(w), work[w].at # "summarySync"
    PROVE  \A v \in Workers : work[v].at = "summarySync" => work'[v] = work[v]
BY DEF Advances, Moves, StoreTyped

LEMMA SyncSync ==
    ASSUME StoreTyped, SyncedIsFindable, NEW w \in Workers, NEW ok \in BOOLEAN, NEW held \in BOOLEAN,
           Sync(w, ok, held)
    PROVE  SyncedIsFindable'
<1> DEFINE ids == work[w].ids
<1>1. /\ entries' = Marked(ids, ok) /\ points' = IF held THEN points \cup ids ELSE points
      /\ ok => held
      /\ crashes' = crashes
  BY DEF Sync
<1>2. Writes /\ Advances(w)
  BY SyncStep
<1>3. /\ DOMAIN entries' = DOMAIN entries
      /\ \A e \in DOMAIN entries :
            /\ entries'[e].state = entries[e].state
            /\ entries'[e].synced = IF e \in ids /\ Live(e) THEN ok ELSE entries[e].synced
  <2>1. /\ entries' \in Seq(Entry) /\ Len(entries') = Len(entries)
        /\ \A e \in DOMAIN entries :
              /\ entries'[e].state = entries[e].state
              /\ entries'[e].synced = IF e \in ids /\ Live(e) THEN ok ELSE entries[e].synced
    BY <1>1, MarkedRows
  <2>2. QED
    BY <2>1, LenProperties DEF StoreTyped
<1>4. \A v \in Workers : v # w => work'[v] = work[v]
  BY <1>2 DEF Advances, Moves, StoreTyped
<1>5. ASSUME NEW e \in DOMAIN entries', Missing(e)
      PROVE  /\ e \in DOMAIN entries /\ Live(e) /\ entries[e].synced /\ e \notin points
             /\ entries'[e].kind = entries[e].kind
             /\ \A v \in Workers : Sending(v, e) => work'[v] = work[v] \/ crashes' > 0
  <2>1. e \in DOMAIN entries /\ Live(e) /\ entries'[e].kind = entries[e].kind
    BY <1>2, <1>3, <1>5 DEF Missing, Live, Writes, Grown
  <2>2. e \notin points
    BY <1>1, <1>5 DEF Missing
  <2>3. e \notin ids
    <3>1. CASE held
      BY <1>1, <1>5, <3>1 DEF Missing
    <3>2. CASE ~held
      <4>1. ~ok
        BY <1>1, <3>2
      <4>2. e \in ids => entries'[e].synced = FALSE
        BY <1>3, <2>1, <4>1
      <4>3. QED
        BY <1>5, <4>2 DEF Missing
    <3>3. QED
      BY <3>1, <3>2
  <2>4. entries[e].synced
    BY <1>3, <1>5, <2>1, <2>3 DEF Missing
  <2>5. \A v \in Workers : Sending(v, e) => v # w
    BY <2>3 DEF Sending
  <2>6. QED
    BY <1>4, <2>1, <2>2, <2>4, <2>5
<1>6. QED
  BY <1>1, <1>5, FindableKept

LEMMA CompactSync ==
    ASSUME StoreTyped, SyncedIsFindable, NEW w \in Workers, NEW ok \in BOOLEAN, Compact(w, ok)
    PROVE  SyncedIsFindable'
<1> DEFINE s == Len(entries) + 1
           sent == Upserting({s}, ok)
           old == SummedIn(work[w].ids, s)
<1>1. Writes /\ Advances(w) /\ Summed(w, ok)
  BY CompactStep
<1>2. /\ old \in Seq(Entry) /\ Len(old) = Len(entries)
      /\ \A e \in DOMAIN entries :
            old[e].synced = entries[e].synced /\ old[e].state = entries[e].state
      /\ sent # {} => work'[w].at = "summarySync" /\ work'[w].ids = {s}
  BY <1>1 DEF Summed
<1>3. PICK summary \in Entry :
         /\ entries' = Append(old, summary)
         /\ summary.kind = "summary" /\ summary.synced = (sent # {})
  BY <1>1 DEF Summed
<1> HIDE DEF old, sent
<1>4. DOMAIN old = DOMAIN entries
  BY <1>2, LenProperties DEF StoreTyped
<1>5. /\ DOMAIN entries' = DOMAIN entries \cup {s} /\ entries'[s] = summary
      /\ \A e \in DOMAIN entries : entries'[e] = old[e]
  BY <1>2, <1>3, <1>4, AppendedRow
<1>6. UNCHANGED <<points, crashes>> /\ work[w].at = "compact"
  BY DEF Compact
<1>7. \A v \in Workers : work[v].at = "summarySync" => work'[v] = work[v]
  BY <1>1, <1>6, OthersSend
<1> HIDE DEF s
<1>8. ASSUME NEW e \in DOMAIN entries', Missing(e)
      PROVE  \/ /\ e \in DOMAIN entries /\ Live(e) /\ entries[e].synced /\ e \notin points
                /\ entries'[e].kind = entries[e].kind
                /\ \A v \in Workers : Sending(v, e) => work'[v] = work[v] \/ crashes' > 0
             \/ entries'[e].kind = "summary" /\ \E v \in Workers : Sending(v, e)'
  <2>1. CASE e \in DOMAIN entries
    <3>1. entries'[e].kind = entries[e].kind
      BY <1>1, <2>1 DEF Writes, Grown
    <3>2. Live(e) /\ entries[e].synced /\ e \notin points
      BY <1>2, <1>5, <1>6, <1>8, <2>1 DEF Missing, Live
    <3>3. QED
      BY <1>7, <2>1, <3>1, <3>2 DEF Sending
  <2>2. CASE e \notin DOMAIN entries
    <3>1. e = s /\ entries'[e] = summary /\ summary.synced
      BY <1>5, <1>8, <2>2 DEF Missing
    <3>2. work'[w].at = "summarySync" /\ e \in work'[w].ids
      BY <1>2, <1>3, <3>1
    <3>3. QED
      BY <1>3, <3>1, <3>2 DEF Sending
  <2>3. QED
    BY <2>1, <2>2
<1>9. QED
  BY <1>6, <1>8, FindableKept

\* Points go of rows that are gone.
LEMMA DeleteSync ==
    ASSUME StoreTyped, SyncInv, NEW w \in Workers, DeletePoints(w) \/ DeleteFails(w)
    PROVE  SyncedIsFindable'
<1>1. /\ UNCHANGED <<entries, crashes>> /\ work[w].at = "delete"
      /\ points \ work[w].ids \subseteq points'
  BY DEF DeletePoints, DeleteFails, store
<1>2. Advances(w)
  BY DeletePointsStep, DeleteFailsStep
<1>3. \A v \in Workers : work[v].at = "summarySync" => work'[v] = work[v]
  BY <1>1, <1>2, OthersSend
<1>4. ASSUME NEW e \in DOMAIN entries', Missing(e)
      PROVE  /\ e \in DOMAIN entries /\ Live(e) /\ entries[e].synced /\ e \notin points
             /\ entries'[e].kind = entries[e].kind
             /\ \A v \in Workers : Sending(v, e) => work'[v] = work[v] \/ crashes' > 0
  <2>1. e \in DOMAIN entries /\ Live(e) /\ entries[e].synced /\ e \notin points'
    BY <1>1, <1>4 DEF Missing, Live
  <2>2. e \notin work[w].ids
    BY <1>1, <2>1 DEF SyncInv, DeletedAreGone
  <2>3. QED
    BY <1>1, <1>3, <2>1, <2>2 DEF Sending
<1>5. QED
  BY <1>1, <1>4, FindableKept DEF SyncInv

LEMMA SameRowsUnmarking ==
    ASSUME StoreTyped, UNCHANGED <<entries, points>>, crashes' \in {crashes, crashes + 1}
    PROVE  Unmarking
<1>1. Writes
  BY Unwritten
<1>2. QED
  BY <1>1 DEF Unmarking, Missing

LEMMA BatchUnmarking ==
    ASSUME StoreTyped, Writes, UNCHANGED <<points, crashes>>,
           \E rows : Batch(rows) /\ entries' = entries \o rows
    PROVE  Unmarking
<1>1. PICK rows : Batch(rows) /\ entries' = entries \o rows
  OBVIOUS
<1>2. /\ \A e \in DOMAIN entries : entries'[e] = entries[e]
      /\ \A e \in DOMAIN entries' \ DOMAIN entries :
            e - Len(entries) \in DOMAIN rows /\ entries'[e] = rows[e - Len(entries)]
  <2>1. entries \in Seq(Entry) /\ rows \in Seq(Entry)
    BY <1>1 DEF Batch, StoreTyped
  <2>2. /\ \A e \in DOMAIN entries : (entries \o rows)[e] = entries[e]
        /\ \A e \in DOMAIN (entries \o rows) \ DOMAIN entries :
              e - Len(entries) \in DOMAIN rows /\ (entries \o rows)[e] = rows[e - Len(entries)]
    BY <2>1, AppendedRows
  <2>3. QED
    BY <1>1, <2>2
<1>3. \A n \in DOMAIN rows : ~rows[n].synced
  BY <1>1 DEF Batch
<1>4. QED
  BY <1>2, <1>3 DEF Unmarking, Missing

LEMMA RunSync ==
    ASSUME StoreTyped, SyncInv, NEW r \in Runs, StartRun(r) \/ RunStep(r), ~WorkerStep(r)
    PROVE  SyncedIsFindable' /\ Writes /\ Advances(r)
<1>1. r \in Workers /\ work[r].at # "summarySync"
  BY RunWorker
     DEF StartRun, RunStep, Search, SearchFails, Retrieve, StoreTurn, Conclude, StoreFacts
<1>2. Writes /\ Advances(r)
  BY StartRunStep, SearchStep, SearchFailsStep, RetrieveStep, StoreTurnStep, ConcludeStep,
     StoreFactsStep DEF RunStep
<1>3. \A w \in Workers : work[w].at = "summarySync" => work'[w] = work[w]
  BY <1>1, <1>2, OthersSend
<1>4. ASSUME NEW ok \in BOOLEAN, StoreTurn(r, ok) \/ StoreFacts(r, ok) PROVE Unmarking
  <2>1. UNCHANGED <<points, crashes>>
    BY <1>4 DEF StoreTurn, StoreFacts
  <2>2. \E rows : Batch(rows) /\ entries' = entries \o rows
    BY <1>4, StoreTurnStep, StoreFactsStep
  <2>3. QED
    BY <1>2, <2>1, <2>2, BatchUnmarking
<1>5. CASE StartRun(r) \/ Search(r) \/ SearchFails(r) \/ Retrieve(r) \/ Conclude(r)
  <2>1. UNCHANGED <<entries, points, crashes>>
    BY <1>5 DEF StartRun, Search, SearchFails, Retrieve, Conclude, store
  <2>2. Unmarking
    BY <2>1, SameRowsUnmarking
  <2>3. QED
    BY <1>2, <1>3, <2>2, UnmarkingKept DEF SyncInv
<1>6. CASE \E ok \in BOOLEAN : StoreTurn(r, ok) \/ StoreFacts(r, ok)
  BY <1>2, <1>3, <1>4, <1>6, UnmarkingKept DEF SyncInv
<1>7. QED
  BY <1>5, <1>6 DEF RunStep

LEMMA PruneSync ==
    ASSUME StoreTyped, SyncInv, NEW w \in Workers, Prune(w)
    PROVE  SyncedIsFindable'
<1>1. Writes /\ Advances(w) /\ (entries' = entries \/ PrunedBy(w))
  BY PruneStep
<1>2. UNCHANGED <<points, crashes>> /\ work[w].at # "summarySync"
  BY DEF Prune
<1>3. \A v \in Workers : work[v].at = "summarySync" => work'[v] = work[v]
  BY <1>1, <1>2, OthersSend
<1>4. CASE entries' = entries
  <2>1. Unmarking
    BY <1>2, <1>4, SameRowsUnmarking
  <2>2. QED
    BY <1>3, <2>1, UnmarkingKept DEF SyncInv
<1>5. CASE PrunedBy(w)
  <2>1. PICK surplus : entries' = InState(surplus, "deleted")
    BY <1>5 DEF PrunedBy
  <2>2. /\ Len(entries') = Len(entries)
        /\ \A e \in DOMAIN entries : entries'[e].synced = entries[e].synced
    BY <2>1, InStateRows DEF States
  <2>3. DOMAIN entries' = DOMAIN entries
    BY <1>1, <2>2, LenProperties DEF Writes, StoreTyped
  <2>4. Unmarking
    BY <1>1, <1>2, <2>2, <2>3 DEF Unmarking, Missing
  <2>5. QED
    BY <1>3, <2>4, UnmarkingKept DEF SyncInv
<1>6. QED
  BY <1>1, <1>4, <1>5

LEMMA WorkerSync ==
    ASSUME StoreTyped, SyncInv, NEW w \in Workers, WorkerStep(w)
    PROVE  SyncedIsFindable' /\ Writes /\ Advances(w)
<1>1. Writes /\ Advances(w)
  BY SyncStep, CompactStep, PruneStep, DeletePointsStep, DeleteFailsStep DEF WorkerStep
<1>2. SyncedIsFindable'
  BY SyncSync, CompactSync, PruneSync, DeleteSync DEF WorkerStep, SyncInv
<1>3. QED
  BY <1>1, <1>2

LEMMA MutateSync ==
    ASSUME StoreTyped, SyncInv, Mutate
    PROVE  SyncedIsFindable' /\ Writes /\ work' = work
<1>0. UNCHANGED <<points, crashes, work>>
  BY DEF Mutate, Create, Deactivate, Supersede, RollBack, Mutated
<1>1. ASSUME NEW kind \in MutatedKinds, Create(kind) PROVE Unmarking
  <2>1. entries' = Append(entries, MutatedRow(kind))
    BY <1>1 DEF Create
  <2>2. /\ entries'[Len(entries) + 1] = MutatedRow(kind)
        /\ DOMAIN entries' = DOMAIN entries \cup {Len(entries) + 1}
        /\ \A e \in DOMAIN entries : entries'[e] = entries[e]
    BY <2>1, MutatedRowType, AppendedRow DEF StoreTyped
  <2>3. QED
    BY <1>0, <1>1, <2>2, CreateRows, MutatedRowType DEF Unmarking, Missing
<1>2. ASSUME NEW e \in DOMAIN entries, Deactivate(e) PROVE Unmarking
  <2>1. entries' = InState({e}, "deactivated") /\ "deactivated" \in States
    BY <1>2 DEF Deactivate, States
  <2>2. /\ Len(entries') = Len(entries)
        /\ \A f \in DOMAIN entries : entries'[f].synced = entries[f].synced
    BY <2>1, InStateRows
  <2>3. Writes
    BY <1>2, DeactivateRows
  <2>4. DOMAIN entries' = DOMAIN entries
    BY <2>2, <2>3, LenProperties DEF Writes, StoreTyped
  <2>5. QED
    BY <1>0, <2>2, <2>3, <2>4 DEF Unmarking, Missing
<1>3. ASSUME NEW e \in DOMAIN entries, NEW kind \in MutatedKinds, Supersede(e, kind)
      PROVE  Unmarking
  BY <1>0, <1>3, SupersedeRows, MutatedRowType DEF Unmarking, Missing
<1>4. ASSUME NEW n \in DOMAIN mutations, RollBack(n) PROVE Unmarking
  <2>1. entries' = Undone(mutations[n])
    BY <1>4 DEF RollBack
  <2>2. /\ entries' \in Seq(Entry) /\ Len(entries') = Len(entries) /\ Grown(entries, entries')
        /\ \A f \in DOMAIN entries : entries'[f].synced = entries[f].synced
    BY <2>1, UndoneRows
  <2>3. Writes /\ DOMAIN entries' = DOMAIN entries
    BY <2>2, LenProperties DEF Writes, StoreTyped
  <2>4. QED
    BY <1>0, <2>2, <2>3 DEF Unmarking, Missing
<1>5. Unmarking
  BY <1>1, <1>2, <1>3, <1>4 DEF Mutate
<1>6. QED
  BY <1>0, <1>5, UnmarkingKept DEF Unmarking, SyncInv

LEMMA BootSync ==
    ASSUME StoreTyped, SyncInv, Boot
    PROVE  SyncedIsFindable' /\ Writes /\ work' = work
<1>0. UNCHANGED <<crashes, work>>
  BY DEF Boot, BackfillEmbeddings, InitializeVectorStore, BackfillVectors, StartMaintenance
<1>1. CASE BackfillEmbeddings
  <2>1. (\E S : entries' = EmbeddedIn(S)) /\ UNCHANGED points
    BY <1>1 DEF BackfillEmbeddings, EmbeddedIn
  <2>2. /\ entries' \in Seq(Entry) /\ Len(entries') = Len(entries) /\ Grown(entries, entries')
        /\ \A f \in DOMAIN entries : entries'[f].synced = entries[f].synced
    BY <2>1, EmbeddedRows
  <2>3. Writes /\ DOMAIN entries' = DOMAIN entries
    BY <2>2, LenProperties DEF Writes, StoreTyped
  <2>4. Unmarking
    BY <1>0, <2>1, <2>2, <2>3 DEF Unmarking, Missing
  <2>5. QED
    BY <1>0, <2>4, UnmarkingKept DEF Unmarking, SyncInv
<1>2. ASSUME NEW ok \in BOOLEAN, NEW held \in BOOLEAN, BackfillVectors(ok, held)
      PROVE  SyncedIsFindable' /\ Writes
  <2> DEFINE sent == IF available THEN Unsynced ELSE {}
  <2>1. /\ entries' = Marked(sent, ok) /\ points' = IF held THEN points \cup sent ELSE points
        /\ ok => held
    BY <1>2 DEF BackfillVectors
  <2> HIDE DEF sent
  <2>2. /\ entries' \in Seq(Entry) /\ Len(entries') = Len(entries) /\ Grown(entries, entries')
        /\ \A e \in DOMAIN entries :
              entries'[e].synced = IF e \in sent /\ Live(e) THEN ok ELSE entries[e].synced
    BY <2>1, MarkedRows
  <2>3. Writes /\ DOMAIN entries' = DOMAIN entries
    BY <2>2, LenProperties DEF Writes, StoreTyped
  <2>4. ASSUME NEW e \in DOMAIN entries', Missing(e) PROVE entries[e].synced
    <3>1. CASE e \in sent /\ Live(e)
      <4>1. ok
        BY <2>2, <2>3, <2>4, <3>1 DEF Missing
      <4>2. e \in points'
        BY <2>1, <3>1, <4>1
      <4>3. QED
        BY <2>4, <4>2 DEF Missing
    <3>2. CASE ~(e \in sent /\ Live(e))
      BY <2>2, <2>3, <2>4, <3>2 DEF Missing
    <3>3. QED
      BY <3>1, <3>2
  <2>5. Unmarking
    BY <1>0, <2>1, <2>3, <2>4 DEF Unmarking
  <2>6. QED
    BY <1>0, <2>5, UnmarkingKept DEF Unmarking, SyncInv
<1>3. CASE InitializeVectorStore \/ StartMaintenance
  <2>1. UNCHANGED <<entries, points>>
    BY <1>3 DEF InitializeVectorStore, StartMaintenance, store
  <2>2. Unmarking
    BY <1>0, <2>1, SameRowsUnmarking
  <2>3. QED
    BY <1>0, <2>2, UnmarkingKept DEF Unmarking, SyncInv
<1>4. QED
  BY <1>0, <1>1, <1>2, <1>3 DEF Boot

LEMMA CrashWork ==
    ASSUME StoreTyped, Crash, NEW w \in Workers
    PROVE  work'[w].at \in {"idle", "done", "failed", "lost"}
<1>1. work' = [v \in Workers |-> IF v = "maintenance" THEN NoWork(policy) ELSE Lost(work[v])]
  BY DEF Crash
<1>2. NoWork(policy).at = "idle"
  BY DEF NoWork
<1>3. Lost(work[w]).at \in {"idle", "done", "failed", "lost"}
  BY WorkerWork, LostWork
<1>4. QED
  BY <1>1, <1>2, <1>3

LEMMA CrashSync ==
    ASSUME StoreTyped, SyncInv, Crash
    PROVE  SyncInv'
<1>1. /\ UNCHANGED <<entries, points>> /\ crashes' = crashes + 1
      /\ work' = [w \in Workers |-> IF w = "maintenance" THEN NoWork(policy) ELSE Lost(work[w])]
  BY DEF Crash, store
<1>2. crashes' > 0
  BY <1>1 DEF StoreTyped
<1>3. Unmarking
  BY <1>1, SameRowsUnmarking
<1>4. SyncedIsFindable'
  BY <1>2, <1>3, UnmarkingKept DEF SyncInv
<1>5. \A w \in Workers : work'[w].at # "delete"
  BY CrashWork
<1>6. DeletedAreGone'
  BY <1>5 DEF DeletedAreGone
<1>7. QED
  BY <1>4, <1>6 DEF SyncInv

LEMMA SyncInit == Init => SyncInv
<1> SUFFICES ASSUME Init PROVE SyncInv
  OBVIOUS
<1>1. points = {e \in DOMAIN entries : entries[e].synced}
  BY DEF Init
<1>2. SyncedIsFindable
  BY <1>1 DEF SyncedIsFindable
<1>3. \A w \in Workers : work[w].at = "idle"
  BY DEF Init, NoWork
<1>4. QED
  BY <1>2, <1>3 DEF SyncInv, DeletedAreGone

LEMMA SyncNext == StoreTyped /\ UpkeepInv /\ SyncInv /\ [Next]_vars => SyncInv'
<1> SUFFICES ASSUME StoreTyped, UpkeepInv, SyncInv, [Next]_vars PROVE SyncInv'
  OBVIOUS
<1>0. ASSUME SyncedIsFindable', Writes, (\E w \in Workers, wk \in Work : Moves(w, wk)) \/ work' = work
      PROVE  SyncInv'
  BY <1>0, GoneKept DEF SyncInv
<1>1. ASSUME NEW w \in Workers, WorkerStep(w) PROVE SyncInv'
  BY <1>0, <1>1, WorkerSync DEF Advances
<1>2. ASSUME NEW r \in Runs, StartRun(r) \/ RunStep(r) PROVE SyncInv'
  <2>1. CASE WorkerStep(r)
    BY <1>1, <2>1, RunWorker
  <2>2. CASE ~WorkerStep(r)
    BY <1>0, <1>2, <2>2, RunSync, RunWorker DEF Advances
  <2>3. QED
    BY <2>1, <2>2
<1>3. CASE TimerFires \/ RunNow
  <2>1. /\ UNCHANGED <<entries, points, crashes>> /\ "maintenance" \in Workers
        /\ work' = [work EXCEPT !["maintenance"] = Compacting([@ EXCEPT !.policy = CurrentPolicy])]
    BY <1>3 DEF TimerFires, RunNow, Execute, store, Workers
  <2>2. PICK wk \in Work : Moves("maintenance", wk)
    BY <2>1, ExecuteMoves
  <2>3. Unmarking /\ Writes
    BY <2>1, SameRowsUnmarking DEF Unmarking
  <2>4. work["maintenance"].at = "idle"
    BY <1>3 DEF TimerFires, RunNow, UpkeepInv
  <2>5. \A w \in Workers : work[w].at = "summarySync" => work'[w] = work[w]
    BY <2>2, <2>4 DEF Moves, StoreTyped
  <2>6. QED
    BY <1>0, <2>1, <2>2, <2>3, <2>5, UnmarkingKept DEF SyncInv
<1>4. CASE Mutate
  BY <1>0, <1>4, MutateSync
<1>5. CASE Stop \/ (\E p \in Policies : UpdatePolicy(p)) \/ UNCHANGED vars
  <2>1. UNCHANGED <<entries, points, work>> /\ crashes' \in {crashes, crashes + 1}
    BY <1>5 DEF Stop, UpdatePolicy, vars, store
  <2>2. Unmarking /\ Writes
    BY <2>1, SameRowsUnmarking DEF Unmarking
  <2>3. QED
    BY <1>0, <2>1, <2>2, UnmarkingKept DEF SyncInv
<1>6. CASE Crash
  BY <1>6, CrashSync
<1>7. CASE Boot
  BY <1>0, <1>7, BootSync
<1>8. QED
  BY <1>1, <1>2, <1>3, <1>4, <1>5, <1>6, <1>7 DEF Next, Workers

\* A row that is marked as synced has its point, or is a summary that a worker is
\* about to send or that a death left behind; the awaits of the workers, Qdrant's
\* answers, pruning, mutations and the backfills come in any order.
THEOREM SyncedIsFindableAlways == Spec => []SyncedIsFindable
<1>1. Init => StoreTyped /\ UpkeepInv /\ SyncInv
  BY StoreTypedInit, UpkeepInit, SyncInit
<1>2. (StoreTyped /\ UpkeepInv /\ SyncInv) /\ [Next]_vars => (StoreTyped /\ UpkeepInv /\ SyncInv)'
  BY StoreTypedNext, UpkeepNext, SyncNext
<1>3. SyncInv => SyncedIsFindable
  BY DEF SyncInv
<1>4. QED
  BY <1>1, <1>2, <1>3, PTL DEF Spec

-----------------------------------------------------------------------------
(* Summaries *)

\* What a summary was made of is in a summary, or gone.
SourcesCovered ==
    \A s \in DOMAIN made : \A e \in made[s].from :
        e \in DOMAIN entries /\ (entries[e].parent # 0 \/ ~Live(e))

\* A cluster has nothing of the summaries that were there when it was chosen.
ClustersFresh ==
    \A w \in Workers : work[w].at = "compact" =>
        /\ work[w].since <= Len(entries)
        /\ \A s \in DOMAIN made : s <= work[w].since => made[s].from \cap work[w].ids = {}

SummaryInv == SummariesApart /\ SourcesCovered /\ ClustersFresh

LEMMA SummaryKept ==
    ASSUME StoreTyped, SummaryInv, Writes, made' = made,
           (\E w \in Workers, wk \in Work : Moves(w, wk)) \/ work' = work
    PROVE  SummaryInv'
<1>1. DOMAIN entries \subseteq DOMAIN entries' /\ Len(entries) \in Nat /\ Len(entries') \in Nat
  BY WritesDomain, LenProperties DEF StoreTyped, Writes
<1>2. Len(entries) <= Len(entries')
  BY DEF Writes, Grown
<1>3. SummariesApart'
  BY DEF SummaryInv, SummariesApart
<1>4. ASSUME NEW s \in DOMAIN made, NEW e \in made[s].from
      PROVE  e \in DOMAIN entries' /\ (entries'[e].parent # 0 \/ entries'[e].state = "deleted")
  <2>1. e \in DOMAIN entries /\ (entries[e].parent # 0 \/ entries[e].state = "deleted")
    BY DEF SummaryInv, SourcesCovered, Live
  <2>2. QED
    BY <1>1, <2>1 DEF Writes, Grown
<1>5. SourcesCovered'
  BY <1>4 DEF SourcesCovered, Live
<1>6. ASSUME NEW w \in Workers, work'[w].at = "compact", work'[w] = work[w]
      PROVE  /\ work'[w].since <= Len(entries')
             /\ \A s \in DOMAIN made : s <= work'[w].since => made[s].from \cap work'[w].ids = {}
  <2>1. work[w].since \in Nat
    BY WorkerWork, WorkFields, MemoryAssumption
  <2>2. QED
    BY <1>1, <1>2, <1>6, <2>1 DEF SummaryInv, ClustersFresh
<1>7. ASSUME NEW v \in Workers, NEW wk \in Work, Moves(v, wk), wk.at = "compact"
      PROVE  /\ wk.since <= Len(entries')
             /\ \A s \in DOMAIN made : s <= wk.since => made[s].from \cap wk.ids = {}
  <2>1. wk.ids \subseteq Raw /\ wk.since = Len(entries)
    BY <1>7 DEF Moves
  <2>2. \A s \in DOMAIN made : made[s].from \cap Raw = {}
    BY DEF SummaryInv, SourcesCovered, Raw
  <2>3. QED
    BY <1>1, <1>2, <2>1, <2>2
<1>8. ASSUME NEW w \in Workers, work'[w].at = "compact"
      PROVE  /\ work'[w].since <= Len(entries')
             /\ \A s \in DOMAIN made : s <= work'[w].since => made[s].from \cap work'[w].ids = {}
  <2>1. CASE work' = work
    BY <1>6, <1>8, <2>1
  <2>2. ASSUME NEW v \in Workers, NEW wk \in Work, Moves(v, wk)
        PROVE  /\ work'[w].since <= Len(entries')
               /\ \A s \in DOMAIN made : s <= work'[w].since => made[s].from \cap work'[w].ids = {}
    <3>1. CASE w = v
      <4>1. work'[w] = wk
        BY <2>2, <3>1 DEF Moves, StoreTyped
      <4>2. QED
        BY <1>7, <1>8, <2>2, <4>1
    <3>2. CASE w # v
      <4>1. work'[w] = work[w]
        BY <2>2, <3>2 DEF Moves, StoreTyped
      <4>2. QED
        BY <1>6, <1>8, <4>1
    <3>3. QED
      BY <3>1, <3>2
  <2>3. QED
    BY <2>1, <2>2
<1>9. ClustersFresh'
  BY <1>8 DEF ClustersFresh
<1>10. QED
  BY <1>3, <1>5, <1>9 DEF SummaryInv

LEMMA SummaryMade ==
    ASSUME StoreTyped, SummaryInv, NEW w \in Workers, NEW ok \in BOOLEAN, Compact(w, ok)
    PROVE  SummaryInv'
<1> DEFINE s == Len(entries) + 1
           new == [from |-> work[w].ids, since |-> work[w].since]
<1>1. Writes /\ Advances(w) /\ Summed(w, ok)
  BY CompactStep
<1>2. /\ work[w].at = "compact"
      /\ made' = [t \in DOMAIN made \cup {s} |-> IF t = s THEN new ELSE made[t]]
  BY DEF Compact
<1>3. /\ Len(entries) \in Nat /\ DOMAIN entries = 1..Len(entries) /\ DOMAIN made \subseteq DOMAIN entries
      /\ work[w].since \in Nat /\ work[w].ids \subseteq DOMAIN entries
  BY RowIds, WorkerWork, WorkFields, MemoryAssumption DEF StoreTyped
<1>4. \A t \in DOMAIN made : t \in Nat /\ t < s
  BY <1>3
<1>5. PICK old \in Seq(Entry), summary \in Entry :
         /\ Len(old) = Len(entries) /\ entries' = Append(old, summary)
         /\ \A e \in DOMAIN entries :
               /\ old[e].state = entries[e].state
               /\ e \in work[w].ids => old[e].parent = s \/ ~Live(e)
  BY <1>1 DEF Summed
<1>6. Len(entries') = Len(entries) + 1 /\ \A e \in DOMAIN entries : entries'[e] = old[e]
  <2>1. DOMAIN old = DOMAIN entries
    BY <1>5, LenProperties DEF StoreTyped
  <2>2. QED
    BY <1>5, <2>1, AppendedRow
<1>7. DOMAIN entries \subseteq DOMAIN entries'
  BY <1>1, WritesDomain
<1>8. s # 0 /\ s \in Nat
  BY <1>3
<1>9. Len(entries) < s /\ \A k \in Nat : k <= Len(entries) => k <= Len(entries')
  BY <1>3, <1>6
<1>10. \A v \in Workers : v # w => work'[v] = work[v]
  BY <1>1 DEF Advances, Moves, StoreTyped
<1>11. work'[w].at # "compact"
  BY <1>1 DEF Summed
<1> HIDE DEF s, new
<1>12. DOMAIN made' = DOMAIN made \cup {s} /\ made'[s] = new /\ \A t \in DOMAIN made : made'[t] = made[t]
  <2>1. \A t \in DOMAIN made : t # s
    BY <1>4, <1>8
  <2>2. QED
    BY <1>2, <2>1
<1>13. new.from = work[w].ids /\ new.since = work[w].since
  BY DEF new
<1>14. SummariesApart'
  <2>1. ASSUME NEW t \in DOMAIN made', NEW u \in DOMAIN made', t < u,
               made'[t].from \cap made'[u].from # {}
        PROVE  made'[u].since < t
    <3>1. CASE u = s
      <4>1. t \in DOMAIN made
        BY <1>8, <1>12, <2>1, <3>1
      <4>2. made[t].from \cap work[w].ids # {}
        BY <1>12, <1>13, <2>1, <3>1, <4>1
      <4>3. ~(t <= work[w].since)
        BY <1>2, <4>1, <4>2 DEF SummaryInv, ClustersFresh
      <4>4. work[w].since < t
        BY <1>3, <1>4, <4>1, <4>3
      <4>5. QED
        BY <1>12, <1>13, <3>1, <4>4
    <3>2. CASE u # s
      <4>1. u \in DOMAIN made
        BY <1>12, <3>2
      <4>2. t # s
        BY <1>4, <1>8, <2>1, <4>1
      <4>3. t \in DOMAIN made
        BY <1>12, <4>2
      <4>4. QED
        BY <1>12, <2>1, <4>1, <4>3 DEF SummaryInv, SummariesApart
    <3>3. QED
      BY <3>1, <3>2
  <2>2. QED
    BY <2>1 DEF SummariesApart
<1>15. SourcesCovered'
  <2>1. ASSUME NEW t \in DOMAIN made', NEW e \in made'[t].from
        PROVE  e \in DOMAIN entries' /\ (entries'[e].parent # 0 \/ entries'[e].state = "deleted")
    <3>1. CASE t = s
      <4>1. e \in work[w].ids /\ e \in DOMAIN entries
        BY <1>3, <1>12, <1>13, <2>1, <3>1
      <4>2. entries'[e].parent = s \/ entries'[e].state = "deleted"
        BY <1>5, <1>6, <4>1 DEF Live
      <4>3. QED
        BY <1>7, <1>8, <4>1, <4>2
    <3>2. CASE t # s
      <4>1. t \in DOMAIN made /\ e \in made[t].from
        BY <1>12, <2>1, <3>2
      <4>2. e \in DOMAIN entries /\ (entries[e].parent # 0 \/ entries[e].state = "deleted")
        BY <4>1 DEF SummaryInv, SourcesCovered, Live
      <4>3. QED
        BY <1>1, <1>7, <4>2 DEF Writes, Grown
    <3>3. QED
      BY <3>1, <3>2
  <2>2. QED
    BY <2>1 DEF SourcesCovered, Live
<1>16. ClustersFresh'
  <2>1. ASSUME NEW v \in Workers, work'[v].at = "compact"
        PROVE  /\ work'[v].since <= Len(entries')
               /\ \A t \in DOMAIN made' :
                     t <= work'[v].since => made'[t].from \cap work'[v].ids = {}
    <3>1. v # w /\ work'[v] = work[v] /\ work[v].at = "compact"
      BY <1>10, <1>11, <2>1
    <3>2. work[v].since \in Nat /\ work[v].since <= Len(entries)
      BY <3>1, WorkerWork, WorkFields, MemoryAssumption DEF SummaryInv, ClustersFresh
    <3>3. work'[v].since <= Len(entries')
      BY <1>9, <3>1, <3>2
    <3>4. ~(s <= work[v].since)
      BY <1>3, <1>8, <1>9, <3>2
    <3>5. ASSUME NEW t \in DOMAIN made', t <= work'[v].since
          PROVE  made'[t].from \cap work'[v].ids = {}
      <4>1. t \in DOMAIN made
        BY <1>12, <3>1, <3>4, <3>5
      <4>2. QED
        BY <1>12, <3>1, <3>5, <4>1 DEF SummaryInv, ClustersFresh
    <3>6. QED
      BY <3>3, <3>5
  <2>2. QED
    BY <2>1 DEF ClustersFresh
<1>17. QED
  BY <1>14, <1>15, <1>16 DEF SummaryInv

LEMMA SummaryInit == Init => SummaryInv
<1> SUFFICES ASSUME Init PROVE SummaryInv
  OBVIOUS
<1>1. DOMAIN made = {} /\ \A w \in Workers : work[w].at = "idle"
  BY DEF Init, NoWork
<1>2. QED
  BY <1>1 DEF SummaryInv, SummariesApart, SourcesCovered, ClustersFresh

\* The rows of every step, and the worker that moved in it.
LEMMA StepWrites ==
    ASSUME StoreTyped, UpkeepInv, SyncInv, [Next]_vars, ~Crash
    PROVE  Writes /\ ((\E w \in Workers, wk \in Work : Moves(w, wk)) \/ work' = work)
<1>1. ASSUME NEW w \in Workers, WorkerStep(w) PROVE Writes /\ Advances(w)
  BY <1>1, WorkerSync
<1>2. ASSUME NEW r \in Runs, StartRun(r) \/ RunStep(r) PROVE Writes /\ Advances(r) /\ r \in Workers
  <2>1. CASE WorkerStep(r)
    BY <1>1, <2>1, RunWorker
  <2>2. CASE ~WorkerStep(r)
    BY <1>2, <2>2, RunSync, RunWorker
  <2>3. QED
    BY <2>1, <2>2
<1>3. CASE TimerFires \/ RunNow
  <2>1. /\ UNCHANGED entries /\ "maintenance" \in Workers
        /\ work' = [work EXCEPT !["maintenance"] = Compacting([@ EXCEPT !.policy = CurrentPolicy])]
    BY <1>3 DEF TimerFires, RunNow, Execute, store, Workers
  <2>2. QED
    BY <2>1, ExecuteMoves, Unwritten
<1>4. CASE Mutate
  BY <1>4, MutateSync
<1>5. CASE Stop \/ (\E p \in Policies : UpdatePolicy(p)) \/ UNCHANGED vars
  <2>1. UNCHANGED <<entries, work>>
    BY <1>5 DEF Stop, UpdatePolicy, vars, store
  <2>2. QED
    BY <2>1, Unwritten
<1>6. CASE Boot
  BY <1>6, BootSync
<1>7. QED
  BY <1>1, <1>2, <1>3, <1>4, <1>5, <1>6 DEF Next, Workers, Advances

LEMMA SummaryNext == StoreTyped /\ UpkeepInv /\ SyncInv /\ SummaryInv /\ [Next]_vars => SummaryInv'
<1> SUFFICES ASSUME StoreTyped, UpkeepInv, SyncInv, SummaryInv, [Next]_vars PROVE SummaryInv'
  OBVIOUS
<1>1. CASE Crash
  <2>1. UNCHANGED <<entries, made>>
    BY <1>1 DEF Crash, store
  <2>2. \A w \in Workers : work'[w].at # "compact"
    BY <1>1, CrashWork
  <2>3. QED
    BY <2>1, <2>2 DEF SummaryInv, SummariesApart, SourcesCovered, ClustersFresh, Live
<1>2. ASSUME NEW w \in Workers, \E ok \in BOOLEAN : Compact(w, ok) PROVE SummaryInv'
  BY <1>2, SummaryMade
<1>3. CASE ~Crash /\ ~\E w \in Workers, ok \in BOOLEAN : Compact(w, ok)
  <2>1. ASSUME NEW w \in Workers, WorkerStep(w) PROVE made' = made
    BY <1>3, <2>1 DEF WorkerStep, Sync, Prune, DeletePoints, DeleteFails
  <2>2. ASSUME NEW r \in Runs, StartRun(r) \/ RunStep(r) PROVE made' = made
    <3>1. CASE WorkerStep(r)
      BY <2>1, <3>1, RunWorker
    <3>2. CASE ~WorkerStep(r)
      BY <2>2, <3>2
         DEF RunStep, StartRun, Search, SearchFails, Retrieve, StoreTurn, Conclude, StoreFacts
    <3>3. QED
      BY <3>1, <3>2
  <2>3. ASSUME Mutate PROVE made' = made
    BY <2>3 DEF Mutate, Create, Deactivate, Supersede, RollBack, Mutated
  <2>4. ASSUME Boot PROVE made' = made
    BY <2>4 DEF Boot, BackfillEmbeddings, InitializeVectorStore, BackfillVectors, StartMaintenance
  <2>5. ASSUME TimerFires \/ RunNow \/ Stop \/ (\E p \in Policies : UpdatePolicy(p)) \/ UNCHANGED vars PROVE made' = made
    BY <2>5 DEF TimerFires, RunNow, Stop, UpdatePolicy, vars
  <2>6. made' = made
    BY <1>3, <2>1, <2>2, <2>3, <2>4, <2>5 DEF Next, Workers
  <2>7. QED
    BY <1>3, <2>6, StepWrites, SummaryKept
<1>4. QED
  BY <1>1, <1>2, <1>3

\* Two summaries share a source only when the second one's cluster was chosen before
\* the first one's row was there.
THEOREM SummariesApartAlways == Spec => []SummariesApart
<1>1. Init => StoreTyped /\ UpkeepInv /\ SyncInv /\ SummaryInv
  BY StoreTypedInit, UpkeepInit, SyncInit, SummaryInit
<1>2. (StoreTyped /\ UpkeepInv /\ SyncInv /\ SummaryInv) /\ [Next]_vars
      => (StoreTyped /\ UpkeepInv /\ SyncInv /\ SummaryInv)'
  BY StoreTypedNext, UpkeepNext, SyncNext, SummaryNext
<1>3. SummaryInv => SummariesApart
  BY DEF SummaryInv
<1>4. QED
  BY <1>1, <1>2, <1>3, PTL DEF Spec

-----------------------------------------------------------------------------
(* Successors *)

\* What the evidence of a mutation allows tells of the links there are.
MutationsLinked ==
    \A n \in DOMAIN mutations :
        /\ mutations[n].id \in DOMAIN entries
        /\ mutations[n].do = "create" => mutations[n].allowed = {}
        /\ mutations[n].do = "supersede" =>
              \A l \in links : l[1] = mutations[n].id => l[2] = mutations[n].target

LinksBetweenRows == links \subseteq (DOMAIN entries) \X (DOMAIN entries)

SuccessorInv == SupersededHasSuccessor /\ LinksBetweenRows /\ MutationsLinked

\* No row becomes superseded, and none that a link refers to goes.
StatesKept ==
    /\ \A e \in DOMAIN entries' :
          entries'[e].state = "superseded" => e \in DOMAIN entries /\ entries[e].state = "superseded"
    /\ \A l \in links : Live(l[1]) => entries'[l[1]].state # "deleted"

LEMMA LinkEnds ==
    ASSUME SuccessorInv, NEW l \in links
    PROVE  l[1] \in DOMAIN entries /\ l[2] \in DOMAIN entries
BY DEF SuccessorInv, LinksBetweenRows

\* While the links stay, so does the successor of every superseded row.
LEMMA SuccessorStays ==
    ASSUME SuccessorInv, StatesKept, links' = links
    PROVE  SupersededHasSuccessor'
<1>1. ASSUME NEW e \in DOMAIN entries', entries'[e].state = "superseded"
      PROVE  \E l \in links' : l[2] = e /\ entries'[l[1]].state # "deleted"
  <2>1. PICK l \in links : l[2] = e /\ Live(l[1])
    BY <1>1 DEF StatesKept, SuccessorInv, SupersededHasSuccessor
  <2>2. QED
    BY <2>1 DEF StatesKept
<1>2. QED
  BY <1>1 DEF SupersededHasSuccessor, Live

LEMMA SuccessorKept ==
    ASSUME StoreTyped, SuccessorInv, Writes, StatesKept, UNCHANGED <<links, mutations>>
    PROVE  SuccessorInv'
<1>1. DOMAIN entries \subseteq DOMAIN entries'
  BY WritesDomain
<1>2. SupersededHasSuccessor'
  BY SuccessorStays
<1>3. LinksBetweenRows'
  BY <1>1 DEF SuccessorInv, LinksBetweenRows
<1>4. MutationsLinked'
  BY <1>1 DEF SuccessorInv, MutationsLinked
<1>5. QED
  BY <1>2, <1>3, <1>4 DEF SuccessorInv

\* The states of the rows stay, and a new row is active.
LEMMA SameStates ==
    ASSUME StoreTyped, SuccessorInv,
           \A e \in DOMAIN entries : entries'[e].state = entries[e].state,
           \A e \in DOMAIN entries' \ DOMAIN entries : entries'[e].state = "active"
    PROVE  StatesKept
<1>1. \A l \in links : l[1] \in DOMAIN entries
  BY LinkEnds
<1>2. QED
  BY <1>1 DEF StatesKept, Live

LEMMA SyncStates ==
    ASSUME StoreTyped, SuccessorInv, NEW S, NEW ok \in BOOLEAN, entries' = Marked(S, ok)
    PROVE  StatesKept
<1>1. /\ entries' \in Seq(Entry) /\ Len(entries') = Len(entries)
      /\ \A e \in DOMAIN entries : entries'[e].state = entries[e].state
  BY MarkedRows
<1>2. DOMAIN entries' = DOMAIN entries
  BY <1>1, LenProperties DEF StoreTyped
<1>3. QED
  BY <1>1, <1>2, SameStates

LEMMA BatchStates ==
    ASSUME StoreTyped, SuccessorInv, \E rows : Batch(rows) /\ entries' = entries \o rows
    PROVE  StatesKept
<1>1. PICK rows : Batch(rows) /\ entries' = entries \o rows
  OBVIOUS
<1>2. /\ \A e \in DOMAIN entries : entries'[e] = entries[e]
      /\ \A e \in DOMAIN entries' \ DOMAIN entries :
            e - Len(entries) \in DOMAIN rows /\ entries'[e] = rows[e - Len(entries)]
  <2>1. entries \in Seq(Entry) /\ rows \in Seq(Entry)
    BY <1>1 DEF Batch, StoreTyped
  <2>2. /\ \A e \in DOMAIN entries : (entries \o rows)[e] = entries[e]
        /\ \A e \in DOMAIN (entries \o rows) \ DOMAIN entries :
              e - Len(entries) \in DOMAIN rows /\ (entries \o rows)[e] = rows[e - Len(entries)]
    BY <2>1, AppendedRows
  <2>3. QED
    BY <1>1, <2>2
<1>3. \A n \in DOMAIN rows : rows[n].state = "active"
  BY <1>1 DEF Batch
<1>4. QED
  BY <1>2, <1>3, SameStates

LEMMA CompactStates ==
    ASSUME StoreTyped, SuccessorInv, NEW w \in Workers, NEW ok \in BOOLEAN, Compact(w, ok)
    PROVE  StatesKept
<1> DEFINE s == Len(entries) + 1
<1>1. PICK old \in Seq(Entry), summary \in Entry :
         /\ Len(old) = Len(entries) /\ entries' = Append(old, summary)
         /\ summary.state = "active"
         /\ \A e \in DOMAIN entries : old[e].state = entries[e].state
  BY CompactStep DEF Summed
<1>2. DOMAIN old = DOMAIN entries
  BY <1>1, LenProperties DEF StoreTyped
<1>3. /\ DOMAIN entries' = DOMAIN entries \cup {s} /\ entries'[s] = summary
      /\ \A e \in DOMAIN entries : entries'[e] = old[e]
  BY <1>1, <1>2, AppendedRow
<1>4. QED
  BY <1>1, <1>3, SameStates

\* A row that a link refers to is not pruned.
LEMMA PruneStates ==
    ASSUME StoreTyped, SuccessorInv, NEW w, PrunedBy(w)
    PROVE  StatesKept
<1>1. PICK surplus : (\A e \in surplus : ~Referred(e)) /\ entries' = InState(surplus, "deleted")
  BY DEF PrunedBy
<1>2. /\ entries' \in Seq(Entry) /\ Len(entries') = Len(entries)
      /\ \A e \in DOMAIN entries :
            entries'[e].state = IF e \in surplus /\ Live(e) THEN "deleted" ELSE entries[e].state
  BY <1>1, InStateRows DEF States
<1>3. DOMAIN entries' = DOMAIN entries
  BY <1>2, LenProperties DEF StoreTyped
<1>4. ASSUME NEW l \in links, Live(l[1]) PROVE entries'[l[1]].state # "deleted"
  <2>1. l[1] \in DOMAIN entries
    BY LinkEnds
  <2>2. l[1] \notin surplus
    BY <1>1 DEF Referred
  <2>3. QED
    BY <1>2, <1>4, <2>1, <2>2 DEF Live
<1>5. QED
  BY <1>2, <1>3, <1>4 DEF StatesKept

LEMMA WorkerSuccessor ==
    ASSUME StoreTyped, SyncInv, SuccessorInv, NEW w \in Workers, WorkerStep(w)
    PROVE  SuccessorInv'
<1>1. Writes
  BY WorkerSync
<1>2. UNCHANGED <<links, mutations>>
  BY DEF WorkerStep, Sync, Compact, Prune, DeletePoints, DeleteFails, store
<1>3. CASE entries' = entries
  BY <1>1, <1>2, <1>3, SameStates, SuccessorKept
<1>4. CASE entries' # entries
  <2>1. ASSUME NEW ok \in BOOLEAN, NEW held \in BOOLEAN, Sync(w, ok, held) PROVE StatesKept
    BY <2>1, SyncStates DEF Sync
  <2>2. ASSUME NEW ok \in BOOLEAN, Compact(w, ok) PROVE StatesKept
    BY <2>2, CompactStates
  <2>3. ASSUME Prune(w) PROVE StatesKept
    BY <1>4, <2>3, PruneStep, PruneStates
  <2>4. ~DeletePoints(w) /\ ~DeleteFails(w)
    BY <1>4 DEF DeletePoints, DeleteFails, store
  <2>5. StatesKept
    BY <2>1, <2>2, <2>3, <2>4 DEF WorkerStep
  <2>6. QED
    BY <1>1, <1>2, <2>5, SuccessorKept
<1>5. QED
  BY <1>3, <1>4

LEMMA RunSuccessor ==
    ASSUME StoreTyped, SyncInv, SuccessorInv, NEW r \in Runs, StartRun(r) \/ RunStep(r)
    PROVE  SuccessorInv'
<1>1. CASE WorkerStep(r)
  BY <1>1, WorkerSuccessor, RunWorker
<1>2. CASE ~WorkerStep(r)
  <2>1. Writes
    BY <1>2, RunSync
  <2>2. UNCHANGED <<links, mutations>>
    BY <1>2
       DEF RunStep, StartRun, Search, SearchFails, Retrieve, StoreTurn, Conclude, StoreFacts, store
  <2>3. ASSUME StartRun(r) \/ Search(r) \/ SearchFails(r) \/ Retrieve(r) \/ Conclude(r)
        PROVE  StatesKept
    <3>1. entries' = entries
      BY <2>3 DEF StartRun, Search, SearchFails, Retrieve, Conclude, store
    <3>2. QED
      BY <3>1, SameStates
  <2>4. ASSUME NEW ok \in BOOLEAN, StoreTurn(r, ok) \/ StoreFacts(r, ok) PROVE StatesKept
    BY <2>4, StoreTurnStep, StoreFactsStep, BatchStates
  <2>5. StatesKept
    BY <1>2, <2>3, <2>4 DEF RunStep
  <2>6. QED
    BY <2>1, <2>2, <2>5, SuccessorKept
<1>3. QED
  BY <1>1, <1>2

LEMMA MutationFields ==
    ASSUME NEW do, NEW id, NEW target, NEW allowed
    PROVE  LET m == NewMutation(do, id, target, allowed)
           IN  m.do = do /\ m.id = id /\ m.target = target /\ m.allowed = allowed
BY DEF NewMutation

\* A mutation is recorded: those before it keep what they tell of the links.
LEMMA RecordedLinked ==
    ASSUME StoreTyped, SuccessorInv, Writes, NEW m, m \in Mutation, mutations' = Append(mutations, m),
           \A l \in links' \ links : l[1] \notin DOMAIN entries,
           m.id \in DOMAIN entries',
           m.do = "create" => m.allowed = {},
           m.do = "supersede" => \A l \in links' : l[1] = m.id => l[2] = m.target
    PROVE  MutationsLinked'
<1>1. /\ DOMAIN mutations' = DOMAIN mutations \cup {Len(mutations) + 1}
      /\ mutations'[Len(mutations) + 1] = m
      /\ \A n \in DOMAIN mutations : mutations'[n] = mutations[n]
  BY AppendProperties, LenProperties DEF StoreTyped
<1>2. DOMAIN entries \subseteq DOMAIN entries'
  BY WritesDomain
<1>3. ASSUME NEW n \in DOMAIN mutations
      PROVE  /\ mutations[n].id \in DOMAIN entries'
             /\ mutations[n].do = "create" => mutations[n].allowed = {}
             /\ mutations[n].do = "supersede" =>
                   \A l \in links' : l[1] = mutations[n].id => l[2] = mutations[n].target
  BY <1>2 DEF SuccessorInv, MutationsLinked
<1>4. QED
  BY <1>1, <1>3 DEF MutationsLinked

LEMMA CreateSuccessor ==
    ASSUME StoreTyped, SuccessorInv, NEW kind \in MutatedKinds, Create(kind)
    PROVE  SuccessorInv'
<1> DEFINE s == Len(entries) + 1
           m == NewMutation("create", s, 0, {})
<1>1. Writes /\ s \in DOMAIN entries'
  BY CreateRows
<1>2. /\ entries' = Append(entries, MutatedRow(kind)) /\ links' = links /\ Mutated(m)
      /\ Len(entries) + 1 <= MaxEntries
  BY DEF Create, Room
<1>3. m \in Mutation
  BY <1>2, RowIds, MemoryAssumption DEF NewMutation, Mutation, Ids
<1>4. m.do = "create" /\ m.id = s /\ m.allowed = {}
  BY MutationFields
<1> HIDE DEF m
<1>5. mutations' = Append(mutations, m)
  BY <1>2 DEF Mutated
<1>6. MutationsLinked'
  BY <1>1, <1>2, <1>3, <1>4, <1>5, RecordedLinked
<1>7. /\ DOMAIN entries' = DOMAIN entries \cup {s} /\ entries'[s] = MutatedRow(kind)
      /\ \A e \in DOMAIN entries : entries'[e] = entries[e]
  BY <1>2, MutatedRowType, AppendedRow DEF StoreTyped
<1>8. StatesKept
  BY <1>7, MutatedRowType, SameStates
<1>9. SupersededHasSuccessor'
  BY <1>2, <1>8, SuccessorStays
<1>10. LinksBetweenRows'
  BY <1>2, <1>7 DEF SuccessorInv, LinksBetweenRows
<1>11. QED
  BY <1>6, <1>9, <1>10 DEF SuccessorInv

LEMMA DeactivateSuccessor ==
    ASSUME StoreTyped, SuccessorInv, NEW e \in DOMAIN entries, Deactivate(e)
    PROVE  SuccessorInv'
<1> DEFINE m == NewMutation("deactivate", e, 0, LinksOf(e))
<1>1. Writes
  BY DeactivateRows
<1>2. entries' = InState({e}, "deactivated") /\ links' = links /\ Mutated(m)
  BY DEF Deactivate
<1>3. m \in Mutation
  BY RowIds, LinkIds, MemoryAssumption DEF NewMutation, Mutation
<1>4. m.do = "deactivate" /\ m.id = e
  BY MutationFields
<1> HIDE DEF m
<1>5. mutations' = Append(mutations, m)
  BY <1>2 DEF Mutated
<1>6. MutationsLinked'
  BY <1>1, <1>2, <1>3, <1>4, <1>5, RecordedLinked, WritesDomain
<1>7. /\ Len(entries') = Len(entries)
      /\ \A f \in DOMAIN entries :
            entries'[f].state = IF f \in {e} /\ Live(f) THEN "deactivated" ELSE entries[f].state
  BY <1>2, InStateRows DEF States
<1>8. DOMAIN entries' = DOMAIN entries
  BY <1>1, <1>7, LenProperties DEF Writes, StoreTyped
<1>9. \A l \in links : l[1] \in DOMAIN entries
  BY LinkEnds
<1>10. StatesKept
  BY <1>7, <1>8, <1>9 DEF StatesKept, Live
<1>11. SupersededHasSuccessor'
  BY <1>2, <1>10, SuccessorStays
<1>12. LinksBetweenRows'
  BY <1>2, <1>8 DEF SuccessorInv, LinksBetweenRows
<1>13. QED
  BY <1>6, <1>11, <1>12 DEF SuccessorInv

LEMMA SupersedeSuccessor ==
    ASSUME StoreTyped, SuccessorInv, NEW e \in DOMAIN entries, NEW kind \in MutatedKinds,
           Supersede(e, kind)
    PROVE  SuccessorInv'
<1> DEFINE s == Len(entries) + 1
           allowed == LinksOf(e) \cup {<<s, e>>}
           m == NewMutation("supersede", s, e, allowed)
<1>1. /\ Writes /\ s \in DOMAIN entries' /\ entries'[s] = MutatedRow(kind)
      /\ DOMAIN entries' = DOMAIN entries \cup {s}
      /\ \A f \in DOMAIN entries :
            entries'[f].state = IF f = e /\ Live(f) THEN "superseded" ELSE entries[f].state
  BY SupersedeRows
<1>2. /\ links' = links \cup {<<s, e>>} /\ Mutated(m) /\ Len(entries) + 1 <= MaxEntries
  BY DEF Supersede, Room
<1>3. s \notin DOMAIN entries /\ s \in Ids /\ e \in Ids /\ e \in 0..MaxEntries
  BY <1>2, RowIds, MemoryAssumption DEF Ids
<1>4. allowed \in SUBSET (Ids \X Ids)
  BY <1>3, LinkIds
<1>5. m \in Mutation
  BY <1>3, <1>4 DEF NewMutation, Mutation
<1>6. m.do = "supersede" /\ m.id = s /\ m.target = e
  BY MutationFields
<1> HIDE DEF m, allowed
<1>7. mutations' = Append(mutations, m)
  BY <1>2 DEF Mutated
<1> HIDE DEF s
<1>8. \A l \in links : l[1] \in DOMAIN entries /\ l[2] \in DOMAIN entries
  BY LinkEnds
<1>9. \A l \in links' : l \in links \/ (l = <<s, e>> /\ l[1] = s /\ l[2] = e)
  BY <1>2
<1>10. MutationsLinked'
  <2>1. \A l \in links' \ links : l[1] \notin DOMAIN entries
    BY <1>3, <1>9
  <2>2. \A l \in links' : l[1] = s => l[2] = e
    BY <1>3, <1>8, <1>9
  <2>3. QED
    BY <1>1, <1>5, <1>6, <1>7, <2>1, <2>2, RecordedLinked
<1>11. entries'[s].state = "active"
  BY <1>1, MutatedRowType
<1>12. SupersededHasSuccessor'
  <2>1. ASSUME NEW f \in DOMAIN entries', entries'[f].state = "superseded"
        PROVE  \E l \in links' : l[2] = f /\ entries'[l[1]].state # "deleted"
    <3>1. f \in DOMAIN entries
      BY <1>1, <1>11, <2>1
    <3>2. CASE f = e
      <4>1. <<s, e>> \in links' /\ <<s, e>>[1] = s /\ <<s, e>>[2] = f
        BY <1>2, <3>2
      <4>2. QED
        BY <1>11, <4>1
    <3>3. CASE f # e
      <4>1. entries[f].state = "superseded"
        BY <1>1, <2>1, <3>1, <3>3
      <4>2. PICK l \in links : l[2] = f /\ Live(l[1])
        BY <3>1, <4>1 DEF SuccessorInv, SupersededHasSuccessor
      <4>3. l \in links' /\ l[1] \in DOMAIN entries
        BY <1>2, <1>8
      <4>4. entries'[l[1]].state # "deleted"
        BY <1>1, <4>2, <4>3 DEF Live
      <4>5. QED
        BY <4>2, <4>3, <4>4
    <3>4. QED
      BY <3>2, <3>3
  <2>2. QED
    BY <2>1 DEF SupersededHasSuccessor, Live
<1>13. LinksBetweenRows'
  <2>1. <<s, e>> \in (DOMAIN entries') \X (DOMAIN entries')
    BY <1>1
  <2>2. QED
    BY <1>1, <1>2, <2>1 DEF SuccessorInv, LinksBetweenRows
<1>14. QED
  BY <1>10, <1>12, <1>13 DEF SuccessorInv

\* What was superseded by a mutation is active again when it is undone, and no other
\* link goes with what the mutation created.
LEMMA RollBackSuccessor ==
    ASSUME StoreTyped, SuccessorInv, NEW n \in DOMAIN mutations, RollBack(n)
    PROVE  SuccessorInv'
<1> DEFINE m == mutations[n]
<1>1. /\ entries' = Undone(m)
      /\ links' = {l \in links : {l[1], l[2]} \cap Created(m) = {}}
      /\ mutations' = [mutations EXCEPT ![n].applied = FALSE]
      /\ LinksOf(m.id) \subseteq m.allowed
  BY DEF RollBack
<1>2. /\ m \in Mutation /\ m.id \in DOMAIN entries
      /\ m.do = "create" => m.allowed = {}
      /\ m.do = "supersede" => \A l \in links : l[1] = m.id => l[2] = m.target
  BY DEF StoreTyped, SuccessorInv, MutationsLinked
<1>3. m.do \in {"create", "deactivate", "supersede"}
  BY <1>2 DEF Mutation
<1>4. /\ entries' \in Seq(Entry) /\ Len(entries') = Len(entries) /\ Grown(entries, entries')
      /\ \A e \in DOMAIN entries :
            entries'[e].state = IF e \in Created(m) THEN "deleted"
                                ELSE IF e \in Touched(m) /\ Live(e) THEN "active"
                                ELSE entries[e].state
  BY <1>1, UndoneRows
<1>5. DOMAIN entries' = DOMAIN entries
  BY <1>4, LenProperties DEF StoreTyped
<1>6. \A k \in DOMAIN mutations :
         /\ mutations'[k].id = mutations[k].id /\ mutations'[k].do = mutations[k].do
         /\ mutations'[k].target = mutations[k].target /\ mutations'[k].allowed = mutations[k].allowed
  <2> TAKE k \in DOMAIN mutations
  <2>1. mutations[k] \in Mutation
    BY DEF StoreTyped
  <2>2. CASE k = n
    <3>1. mutations'[k] = [mutations[k] EXCEPT !.applied = FALSE]
      BY <1>1, <2>2
    <3>2. QED
      BY <2>1, <3>1 DEF Mutation
  <2>3. CASE k # n
    BY <1>1, <2>3
  <2>4. QED
    BY <2>2, <2>3
<1>7. DOMAIN mutations' = DOMAIN mutations
  BY <1>1
<1>8. links' \subseteq links
  BY <1>1
<1> HIDE DEF m
<1>9. MutationsLinked'
  BY <1>5, <1>6, <1>7, <1>8 DEF SuccessorInv, MutationsLinked
<1>10. LinksBetweenRows'
  BY <1>5, <1>8 DEF SuccessorInv, LinksBetweenRows
<1>11. SupersededHasSuccessor'
  <2>1. ASSUME NEW e \in DOMAIN entries', entries'[e].state = "superseded"
        PROVE  \E l \in links' : l[2] = e /\ entries'[l[1]].state # "deleted"
    <3>1. e \in DOMAIN entries /\ e \notin Created(m) /\ entries[e].state = "superseded"
      BY <1>4, <1>5, <2>1
    <3>2. e \notin Touched(m)
      BY <1>4, <2>1, <3>1 DEF Live
    <3>3. PICK l \in links : l[2] = e /\ Live(l[1])
      BY <3>1 DEF SuccessorInv, SupersededHasSuccessor
    <3>4. l[1] \in DOMAIN entries
      BY LinkEnds
    <3>5. l[1] \notin Created(m)
      <4>1. CASE m.do = "deactivate"
        BY <4>1 DEF Created
      <4>2. CASE m.do = "create"
        <5>1. LinksOf(m.id) = {}
          BY <1>1, <1>2, <4>2
        <5>2. l[1] # m.id
          BY <5>1 DEF LinksOf
        <5>3. QED
          BY <4>2, <5>2 DEF Created
      <4>3. CASE m.do = "supersede"
        <5>1. l[1] = m.id => e = m.target
          BY <1>2, <3>3, <4>3
        <5>2. QED
          BY <3>2, <4>3, <5>1 DEF Created, Touched
      <4>4. QED
        BY <1>3, <4>1, <4>2, <4>3
    <3>6. l \in links'
      BY <1>1, <3>1, <3>3, <3>5
    <3>7. entries'[l[1]].state # "deleted"
      BY <1>4, <3>3, <3>4, <3>5 DEF Live
    <3>8. QED
      BY <3>3, <3>6, <3>7
  <2>2. QED
    BY <2>1 DEF SupersededHasSuccessor, Live
<1>12. QED
  BY <1>9, <1>10, <1>11 DEF SuccessorInv

LEMMA BootSuccessor ==
    ASSUME StoreTyped, SyncInv, SuccessorInv, Boot
    PROVE  SuccessorInv'
<1>1. Writes /\ UNCHANGED <<links, mutations>>
  BY BootSync
     DEF Boot, BackfillEmbeddings, InitializeVectorStore, BackfillVectors, StartMaintenance, store
<1>2. ASSUME BackfillEmbeddings PROVE StatesKept
  <2>1. \E S : entries' = EmbeddedIn(S)
    BY <1>2 DEF BackfillEmbeddings, EmbeddedIn
  <2>2. /\ entries' \in Seq(Entry) /\ Len(entries') = Len(entries)
        /\ \A e \in DOMAIN entries : entries'[e].state = entries[e].state
    BY <2>1, EmbeddedRows
  <2>3. DOMAIN entries' = DOMAIN entries
    BY <2>2, LenProperties DEF StoreTyped
  <2>4. QED
    BY <2>2, <2>3, SameStates
<1>3. ASSUME NEW ok \in BOOLEAN, NEW held \in BOOLEAN, BackfillVectors(ok, held) PROVE StatesKept
  BY <1>3, SyncStates DEF BackfillVectors
<1>4. ASSUME InitializeVectorStore \/ StartMaintenance PROVE StatesKept
  <2>1. entries' = entries
    BY <1>4 DEF InitializeVectorStore, StartMaintenance, store
  <2>2. QED
    BY <2>1, SameStates
<1>5. StatesKept
  BY <1>2, <1>3, <1>4 DEF Boot
<1>6. QED
  BY <1>1, <1>5, SuccessorKept

LEMMA SuccessorInit == Init => SuccessorInv
<1> SUFFICES ASSUME Init PROVE SuccessorInv
  OBVIOUS
<1>1. links = {} /\ mutations = <<>>
  BY DEF Init
<1>2. \A e \in DOMAIN entries : entries[e].state # "superseded"
  BY MemoryAssumption DEF Init
<1>3. QED
  BY <1>1, <1>2 DEF SuccessorInv, SupersededHasSuccessor, LinksBetweenRows, MutationsLinked

LEMMA SuccessorNext ==
    StoreTyped /\ UpkeepInv /\ SyncInv /\ SuccessorInv /\ [Next]_vars => SuccessorInv'
<1> SUFFICES ASSUME StoreTyped, UpkeepInv, SyncInv, SuccessorInv, [Next]_vars PROVE SuccessorInv'
  OBVIOUS
<1>1. ASSUME NEW r \in Runs, StartRun(r) \/ RunStep(r) PROVE SuccessorInv'
  BY <1>1, RunSuccessor
<1>2. CASE WorkerStep("maintenance")
  BY <1>2, WorkerSuccessor DEF Workers
<1>3. CASE Mutate
  BY <1>3, CreateSuccessor, DeactivateSuccessor, SupersedeSuccessor, RollBackSuccessor DEF Mutate
<1>4. CASE Boot
  BY <1>4, BootSuccessor
<1>5. CASE \/ TimerFires \/ RunNow \/ Stop \/ Crash \/ \E p \in Policies : UpdatePolicy(p)
           \/ UNCHANGED vars
  <2>1. UNCHANGED <<entries, links, mutations>>
    BY <1>5 DEF TimerFires, RunNow, Stop, Crash, UpdatePolicy, vars, store
  <2>2. StatesKept /\ Writes
    BY <2>1, SameStates, Unwritten
  <2>3. QED
    BY <2>1, <2>2, SuccessorKept
<1>6. QED
  BY <1>1, <1>2, <1>3, <1>4, <1>5 DEF Next

\* A superseded entry keeps the entry that superseded it, whatever is pruned,
\* superseded in turn or rolled back.
THEOREM SupersededHasSuccessorAlways == Spec => []SupersededHasSuccessor
<1>1. Init => StoreTyped /\ UpkeepInv /\ SyncInv /\ SuccessorInv
  BY StoreTypedInit, UpkeepInit, SyncInit, SuccessorInit
<1>2. (StoreTyped /\ UpkeepInv /\ SyncInv /\ SuccessorInv) /\ [Next]_vars
      => (StoreTyped /\ UpkeepInv /\ SyncInv /\ SuccessorInv)'
  BY StoreTypedNext, UpkeepNext, SyncNext, SuccessorNext
<1>3. SuccessorInv => SupersededHasSuccessor
  BY DEF SuccessorInv
<1>4. QED
  BY <1>1, <1>2, <1>3, PTL DEF Spec
=============================================================================
