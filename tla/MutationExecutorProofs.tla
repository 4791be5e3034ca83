----------------------- MODULE MutationExecutorProofs -----------------------
(***************************************************************************)
(* Proofs about MutationExecutor, for any assignments, files, channels,    *)
(* contents and bounds, any order of requests, any failures and deaths.    *)
(***************************************************************************)
EXTENDS MutationExecutor, FiniteSetTheorems, SequenceTheorems, TLAPS

\* Evidence that the resources could hold.
Fitting(e) == \A r \in DOMAIN e : e[r] \in Content(r)

\* Evidence of all the resources of a row.
Full(e, row) == e \in [row.resources -> Contents] /\ Fitting(e)

\* A kind of mutation writes its own resources.
Shape(row) ==
    /\ row.kind = "assignment_policy" => row.resources \subseteq {row.assignment}
    /\ row.kind = "operator_settings" => row.resources \subseteq {"settings"}
    /\ row.kind = "runtime_limits" => row.resources \subseteq {"limits"}
    /\ row.kind = "project_file" => row.resources \subseteq Files
    /\ row.kind = "channel_state" =>
          row.resources \subseteq Channels /\ (row.status # "failed" => row.resources # {})
    /\ row.status \in {"applied", "rolled_back"} => Full(row.before, row) /\ Full(row.after, row)

\* A row of the channel adapter.
Switches(id) ==
    /\ id \in DOMAIN ledger
    /\ ledger[id].kind = "channel_state" /\ \E c \in Channels : c \in ledger[id].resources

\* The row of a mutation under way is the last one, and still planned; only the
\* channel adapter lets others in.
UnderWay(id) ==
    /\ id = Len(ledger) /\ id \in DOMAIN ledger
    /\ ledger[id].kind # "channel_state" /\ ledger[id].status = "planned"

\* What the request being run knows of its row.
CallbackFits ==
    LET s == callback
        row == ledger[s.id]
    IN  /\ s.step = "write" =>
              /\ UnderWay(s.id) /\ Full(s.new, row)
              /\ DOMAIN s.before \subseteq row.resources /\ Fitting(s.before)
        /\ s.step = "undo" =>
              UnderWay(s.id) /\ DOMAIN s.before \subseteq row.resources /\ Fitting(s.before)
        /\ s.step = "applied" =>
              /\ UnderWay(s.id) \/ Switches(s.id)
              /\ Full(s.before, row) /\ Full(s.after, row)
        /\ s.step = "failed" => UnderWay(s.id) \/ Switches(s.id)
        /\ s.step = "restore" =>
              /\ s.id \in DOMAIN ledger /\ row.kind # "channel_state" /\ row.status = "applied"
              /\ s.todo \subseteq row.resources
        /\ s.step = "rolledBack" =>
              s.id \in DOMAIN ledger /\ (row.status = "applied" \/ row.kind = "channel_state")
        /\ s.step = "switch" => Switches(s.id)

Fits ==
    /\ \A id \in DOMAIN ledger : Shape(ledger[id])
    /\ CallbackFits
    /\ \A i \in DOMAIN calls : Switches(calls[i].id)

Typed == TypeOK /\ Fits

\* Who will settle a planned row, unless a process has died.
Awaited(id) == \E i \in DOMAIN calls : calls[i].id = id /\ ~calls[i].back

Running(id) ==
    \/ callback.step \in {"write", "undo", "applied", "failed"} /\ callback.id = id
    \/ callback.step = "switch" /\ callback.id = id /\ ~callback.back

Pending ==
    crashed = 0 =>
        \A id \in DOMAIN ledger : ledger[id].status = "planned" => Awaited(id) \/ Running(id)

\* Mutations that are not of a channel are applied in the order of their rows.
Done(id) ==
    id \in DOMAIN ledger /\ ledger[id].status = "applied" /\ ledger[id].kind # "channel_state"

Ordered ==
    \A j \in DOMAIN ledger : Done(j) =>
        /\ ledger[j].appliedAt <= clock
        /\ \A i \in DOMAIN ledger : Done(i) /\ i < j => ledger[i].appliedAt <= ledger[j].appliedAt

\* v is what the last of the rows N of L, or none of them, left in resource r.
LeftBy(L, N, r, v) ==
    IF N = {} THEN v = InitialStore[r]
    ELSE \E n \in N : (\A m \in N : m <= n) /\ v \in {L[n].before[r], L[n].after[r]}

\* Accounted, also while a request is run.
Tracked(r) ==
    /\ r \notin Channels /\ r \notin operated /\ r \notin stray /\ ~Contested(r)
    /\ \A id \in DOMAIN ledger : ledger[id].status = "planned" /\ Names(id, r) =>
          callback.step \in {"write", "undo", "applied", "failed"} /\ callback.id = id

Chain(r) ==
    \A id \in Applied(r) : LeftBy(ledger, {n \in Applied(r) : n < id}, r, ledger[id].before[r])

Standing(r, v) == LeftBy(ledger, Applied(r), r, v)

\* The request being run has written r, and knows what it held.
Written(r) == callback.step \in {"write", "undo", "applied"} /\ r \in DOMAIN callback.before

\* It is rolling back the last mutation of r.
Reverting(r) == callback.step \in {"restore", "rolledBack"} /\ Names(callback.id, r)

Traced(r) ==
    /\ Chain(r)
    /\ IF Written(r)
       THEN /\ Standing(r, callback.before[r])
            /\ callback.step = "write" => store[r] = callback.new[r]
            /\ callback.step = "applied" => store[r] = callback.after[r]
       ELSE Standing(r, store[r])
    /\ Reverting(r) =>
          /\ callback.id \in Applied(r) /\ \A n \in Applied(r) : n <= callback.id
          /\ callback.step = "rolledBack" \/ r \notin callback.todo =>
                store[r] = ledger[callback.id].before[r]

Trace == \A r \in Resources : Tracked(r) => Traced(r)

-----------------------------------------------------------------------------
(* What the operators return *)

LEMMA RowsOf ==
    ASSUME NEW L \in Seq(Row)
    PROVE  /\ Len(L) \in Nat /\ DOMAIN L = 1..Len(L)
           /\ \A id \in DOMAIN L : L[id] \in Row
BY LenProperties, ElementOfSeq

LEMMA RowAdded ==
    ASSUME NEW L \in Seq(Row), NEW row \in Row
    PROVE  /\ Append(L, row) \in Seq(Row) /\ Len(Append(L, row)) = Len(L) + 1
           /\ DOMAIN Append(L, row) = DOMAIN L \cup {Len(L) + 1}
           /\ Len(L) + 1 \notin DOMAIN L
           /\ \A id \in DOMAIN L : Append(L, row)[id] = L[id]
           /\ Append(L, row)[Len(L) + 1] = row
<1>1. /\ Len(L) \in Nat /\ DOMAIN L = 1..Len(L)
  BY LenProperties
<1>2. /\ Append(L, row) \in Seq(Row) /\ Len(Append(L, row)) = Len(L) + 1
      /\ \A i \in 1..Len(L) : Append(L, row)[i] = L[i]
      /\ Append(L, row)[Len(L) + 1] = row
  BY AppendProperties
<1>3. DOMAIN Append(L, row) = 1..(Len(L) + 1)
  BY <1>2, LenProperties
<1>4. QED
  BY <1>1, <1>2, <1>3

LEMMA RowReplaced ==
    ASSUME NEW L \in Seq(Row), NEW id \in DOMAIN L, NEW row \in Row
    PROVE  /\ [L EXCEPT ![id] = row] \in Seq(Row) /\ Len([L EXCEPT ![id] = row]) = Len(L)
           /\ DOMAIN [L EXCEPT ![id] = row] = DOMAIN L
           /\ \A n \in DOMAIN L : [L EXCEPT ![id] = row][n] = IF n = id THEN row ELSE L[n]
<1>1. DOMAIN L = 1..Len(L)
  BY LenProperties
<1>2. QED
  BY <1>1, ExceptSeq

\* The calls that remain when one is over.
LEMMA CallRemoved ==
    ASSUME NEW C \in Seq(Call), NEW i \in DOMAIN C
    PROVE  /\ RemoveAt(C, i) \in Seq(Call) /\ Len(RemoveAt(C, i)) = Len(C) - 1
           /\ \A j \in DOMAIN RemoveAt(C, i) : \E k \in DOMAIN C : RemoveAt(C, i)[j] = C[k]
           /\ \A k \in DOMAIN C \ {i} : \E j \in DOMAIN RemoveAt(C, i) : RemoveAt(C, i)[j] = C[k]
<1> DEFINE n == Len(C)
           left == SubSeq(C, 1, i - 1)
           right == SubSeq(C, i + 1, n)
<1>1. n \in Nat /\ DOMAIN C = 1..n /\ i \in 1..n /\ \A k \in 1..n : C[k] \in Call
  BY LenProperties, ElementOfSeq
<1>2. /\ left \in Seq(Call) /\ Len(left) = i - 1
      /\ \A k \in 1..(i - 1) : left[k] = C[k]
  <2>1. \A k \in 1..(i - 1) : C[k] \in Call
    BY <1>1
  <2>2. 1 \in Int /\ i - 1 \in Int
    BY <1>1
  <2>3. /\ left \in Seq(Call) /\ Len(left) = IF 1 <= i - 1 THEN i - 1 - 1 + 1 ELSE 0
        /\ \A k \in 1..(i - 1 - 1 + 1) : left[k] = C[1 + k - 1]
    BY <2>1, <2>2, SubSeqProperties
  <2>4. /\ i - 1 - 1 + 1 = i - 1 /\ \A k \in 1..(i - 1) : 1 + k - 1 = k
        /\ (IF 1 <= i - 1 THEN i - 1 - 1 + 1 ELSE 0) = i - 1
    BY <1>1
  <2> HIDE DEF left
  <2>5. QED
    BY <2>3, <2>4
<1>3. /\ right \in Seq(Call) /\ Len(right) = n - i
      /\ \A k \in 1..(n - i) : right[k] = C[i + k]
  <2>1. \A k \in (i + 1)..n : C[k] \in Call
    BY <1>1
  <2>2. i + 1 \in Int /\ n \in Int
    BY <1>1
  <2>3. /\ right \in Seq(Call) /\ Len(right) = IF i + 1 <= n THEN n - (i + 1) + 1 ELSE 0
        /\ \A k \in 1..(n - (i + 1) + 1) : right[k] = C[i + 1 + k - 1]
    BY <2>1, <2>2, SubSeqProperties
  <2>4. /\ n - (i + 1) + 1 = n - i /\ \A k \in 1..(n - i) : i + 1 + k - 1 = i + k
        /\ (IF i + 1 <= n THEN n - (i + 1) + 1 ELSE 0) = n - i
    BY <1>1
  <2> HIDE DEF right
  <2>5. QED
    BY <2>3, <2>4
<1> HIDE DEF left, right, n
<1>4. RemoveAt(C, i) = left \o right
  BY DEF RemoveAt, left, right, n
<1>5. /\ RemoveAt(C, i) \in Seq(Call) /\ Len(RemoveAt(C, i)) = n - 1
      /\ \A j \in 1..(n - 1) : RemoveAt(C, i)[j] = IF j <= i - 1 THEN left[j] ELSE right[j - (i - 1)]
  <2>1. Len(left) + Len(right) = n - 1
    BY <1>1, <1>2, <1>3
  <2>2. /\ left \o right \in Seq(Call) /\ Len(left \o right) = Len(left) + Len(right)
        /\ \A j \in 1..(Len(left) + Len(right)) :
              (left \o right)[j] = IF j <= Len(left) THEN left[j] ELSE right[j - Len(left)]
    BY <1>2, <1>3, ConcatProperties
  <2>3. QED
    BY <1>2, <1>4, <2>1, <2>2
<1>6. DOMAIN RemoveAt(C, i) = 1..(n - 1)
  BY <1>5, LenProperties
<1>7. \A j \in 1..(n - 1) : RemoveAt(C, i)[j] = IF j <= i - 1 THEN C[j] ELSE C[j + 1]
  <2>1. ASSUME NEW j \in 1..(n - 1) PROVE RemoveAt(C, i)[j] = IF j <= i - 1 THEN C[j] ELSE C[j + 1]
    <3>1. CASE j <= i - 1
      BY <1>1, <1>2, <1>5, <3>1
    <3>2. CASE ~(j <= i - 1)
      <4>1. j - (i - 1) \in 1..(n - i) /\ i + (j - (i - 1)) = j + 1
        BY <1>1, <3>2
      <4>2. right[j - (i - 1)] = C[i + (j - (i - 1))]
        BY <1>3, <4>1
      <4>3. QED
        BY <1>5, <3>2, <4>1, <4>2
    <3>3. QED
      BY <3>1, <3>2
  <2>2. QED
    BY <2>1
<1>8. \A j \in 1..(n - 1) : \E k \in DOMAIN C : RemoveAt(C, i)[j] = C[k]
  BY <1>1, <1>7
<1>9. ASSUME NEW k \in DOMAIN C \ {i}
      PROVE  \E j \in 1..(n - 1) : RemoveAt(C, i)[j] = C[k]
  <2>1. CASE k < i
    BY <1>1, <1>7, <2>1
  <2>2. CASE k > i
    <3>1. k - 1 \in 1..(n - 1) /\ ~(k - 1 <= i - 1) /\ k - 1 + 1 = k
      BY <1>1, <2>2
    <3>2. QED
      BY <1>7, <3>1
  <2>3. QED
    BY <1>1, <2>1, <2>2
<1>10. QED
  BY <1>5, <1>6, <1>8, <1>9 DEF n

\* The variants of a request being run.
LEMMA CallbackFacts ==
    ASSUME callback \in Callback
    PROVE  /\ callback.step = "none" <=> Idle
           /\ callback.step = "write" =>
                 callback \in [step : {"write"}, id : Nat, new : Evidence, before : Evidence]
           /\ callback.step = "undo" => callback \in [step : {"undo"}, id : Nat, before : Evidence]
           /\ callback.step = "applied" =>
                 callback \in [step : {"applied"}, id : Nat, before : Evidence, after : Evidence]
           /\ callback.step \in {"failed", "rolledBack"} =>
                 callback \in [step : {"failed", "rolledBack"}, id : Nat]
           /\ callback.step = "restore" =>
                 callback \in [step : {"restore"}, id : Nat, todo : SUBSET Resources]
           /\ callback.step = "switch" =>
                 callback \in [step : {"switch"}, id : Nat, back : BOOLEAN, want : BOOLEAN]
BY DEF Callback, NoCallback, Idle

LEMMA NewRowFacts ==
    ASSUME NEW status \in Statuses, NEW a \in Assignments, NEW kind \in AllKinds,
           NEW S \in SUBSET Resources
    PROVE  /\ NewRow(status, a, kind, S) \in Row
           /\ NewRow(status, a, kind, S).status = status /\ NewRow(status, a, kind, S).kind = kind
           /\ NewRow(status, a, kind, S).assignment = a
           /\ NewRow(status, a, kind, S).resources = S
<1>1. NoEvidence \in [{} -> Contents] /\ {} \in SUBSET Resources
  BY DEF NoEvidence
<1>2. NoEvidence \in Evidence
  BY <1>1 DEF Evidence
<1>3. QED
  BY <1>2 DEF NewRow, Row

\* What recordApplied makes of a row, and what the other records make of its status.
AppliedRow(row, before, after, at) ==
    [row EXCEPT !.status = "applied", !.before = before, !.after = after, !.appliedAt = at]

LEMMA RowRecorded ==
    ASSUME NEW row \in Row, NEW before \in Evidence, NEW after \in Evidence, NEW at \in Nat,
           NEW applied, applied = AppliedRow(row, before, after, at)
    PROVE  /\ applied \in Row /\ applied.status = "applied" /\ applied.before = before
           /\ applied.after = after /\ applied.appliedAt = at
           /\ applied.kind = row.kind /\ applied.assignment = row.assignment
           /\ applied.resources = row.resources
<1> DEFINE r1 == [row EXCEPT !.status = "applied"]
           r2 == [r1 EXCEPT !.before = before]
           r3 == [r2 EXCEPT !.after = after]
<1>1. /\ r1 \in Row /\ r1.status = "applied"
      /\ r1.kind = row.kind /\ r1.assignment = row.assignment /\ r1.resources = row.resources
  BY DEF Row, Statuses
<1>2. applied = [r3 EXCEPT !.appliedAt = at]
  BY DEF AppliedRow
<1> HIDE DEF r1
<1>3. /\ r2 \in Row /\ r2.status = "applied" /\ r2.before = before
      /\ r2.kind = row.kind /\ r2.assignment = row.assignment /\ r2.resources = row.resources
  BY <1>1 DEF Row
<1> HIDE DEF r2
<1>4. /\ r3 \in Row /\ r3.status = "applied" /\ r3.before = before /\ r3.after = after
      /\ r3.kind = row.kind /\ r3.assignment = row.assignment /\ r3.resources = row.resources
  BY <1>3 DEF Row
<1> HIDE DEF r3
<1>5. QED
  BY <1>2, <1>4 DEF Row

LEMMA RowSettled ==
    ASSUME NEW row \in Row, NEW status \in Statuses
    PROVE  LET settled == [row EXCEPT !.status = status]
           IN  /\ settled \in Row /\ settled.status = status /\ settled.before = row.before
               /\ settled.after = row.after /\ settled.appliedAt = row.appliedAt
               /\ settled.kind = row.kind /\ settled.assignment = row.assignment
               /\ settled.resources = row.resources
BY DEF Row

-----------------------------------------------------------------------------
(* Types *)

\* What a resource may hold.
LEMMA Fitted ==
    ASSUME NEW e \in Evidence, Fitting(e), NEW r \in DOMAIN e
    PROVE  r \in Resources /\ e[r] \in Content(r) /\ e[r] \in Contents
BY DEF Fitting, Evidence, Content, Contents

LEMMA Stored ==
    ASSUME TypeOK, NEW r \in Resources, NEW v \in Content(r), store' = [store EXCEPT ![r] = v]
    PROVE  store' \in [Resources -> Contents] /\ \A q \in Resources : store'[q] \in Content(q)
<1>1. v \in Contents
  BY DEF Content, Contents
<1>2. QED
  BY <1>1 DEF TypeOK

\* A file left anyhow.
LEMMA Spoiled ==
    ASSUME TypeOK, NEW r \in Files, NEW S \in SUBSET Files, Spoil(r, S)
    PROVE  /\ store' \in [Resources -> Contents] /\ \A q \in Resources : store'[q] \in Content(q)
           /\ \A q \in Resources \ {r} : store'[q] = store[q]
           /\ stray' = stray \cup S /\ stray' \in SUBSET Files
<1>1. PICK v \in Content(r) : store' = [store EXCEPT ![r] = v]
  BY DEF Spoil
<1>2. r \in Resources
  BY DEF Resources
<1>3. store' \in [Resources -> Contents] /\ \A q \in Resources : store'[q] \in Content(q)
  BY <1>1, <1>2, Stored
<1>4. \A q \in Resources \ {r} : store'[q] = store[q]
  BY <1>1 DEF TypeOK
<1>5. stray' = stray \cup S /\ stray' \in SUBSET Files
  BY DEF Spoil, TypeOK
<1>6. QED
  BY <1>3, <1>4, <1>5

\* The channel of a row of the channel adapter.
LEMMA ChannelFacts ==
    ASSUME TypeOK, NEW id, Switches(id)
    PROVE  /\ ChannelOf(id) \in Channels /\ ChannelOf(id) \in Resources
           /\ ChannelOf(id) \in ledger[id].resources
           /\ Content(ChannelOf(id)) = BOOLEAN /\ store[ChannelOf(id)] \in BOOLEAN
<1>1. ChannelOf(id) \in Channels /\ ChannelOf(id) \in ledger[id].resources
  BY DEF Switches, ChannelOf
<1>2. QED
  BY <1>1 DEF TypeOK, Content, Resources

\* The outcome of a channel update.
LEMMA UpdatedFacts ==
    ASSUME Typed, NEW id, Switches(id), NEW back \in BOOLEAN, NEW x \in BOOLEAN, NEW y \in BOOLEAN,
           callback' = Updated(id, back, x, y), ledger' = ledger
    PROVE  callback' \in Callback /\ CallbackFits'
<1>0. id \in DOMAIN ledger /\ ledger[id] \in Row /\ id \in Nat /\ Shape(ledger[id])
      /\ ledger[id].kind = "channel_state"
  BY RowsOf DEF Typed, TypeOK, Fits, Switches
<1>1. ledger[id].resources \subseteq Channels /\ ledger[id].resources \in SUBSET Resources
  BY <1>0 DEF Shape, Resources
<1>2. CASE back
  <2>1. callback' = [step |-> "rolledBack", id |-> id]
    BY <1>2 DEF Updated
  <2>2. QED
    BY <1>0, <2>1 DEF CallbackFits, Callback
<1>3. CASE ~back
  <2> DEFINE before == [c \in ledger[id].resources |-> x]
             after == [c \in ledger[id].resources |-> y]
  <2>1. callback' = [step |-> "applied", id |-> id, before |-> before, after |-> after]
    BY <1>3 DEF Updated
  <2>2. /\ before \in [ledger[id].resources -> Contents] /\ after \in [ledger[id].resources -> Contents]
    BY DEF Contents
  <2>3. Fitting(before) /\ Fitting(after)
    BY <1>1 DEF Fitting, Content
  <2>4. before \in Evidence /\ after \in Evidence
    BY <1>1, <2>2 DEF Evidence
  <2> HIDE DEF before, after
  <2>5. callback' \in Callback
    BY <1>0, <2>1, <2>4 DEF Callback
  <2>6. Switches(id)'
    BY DEF Switches
  <2>7. CallbackFits'
    BY <2>1, <2>2, <2>3, <2>6 DEF CallbackFits, Full
  <2>8. QED
    BY <2>5, <2>7
<1>4. QED
  BY <1>2, <1>3

\* Whatever the step, the types are kept.
LEMMA TypeKept ==
    ASSUME Typed, [Next]_vars
    PROVE  Typed'
<1>0. /\ ledger \in Seq(Row) /\ Len(ledger) \in Nat /\ Len(ledger) <= MaxRows
      /\ DOMAIN ledger = 1..Len(ledger) /\ \A id \in DOMAIN ledger : ledger[id] \in Row
      /\ store \in [Resources -> Contents] /\ \A r \in Resources : store[r] \in Content(r)
      /\ poller \in [Channels -> BOOLEAN] /\ callback \in Callback
      /\ calls \in Seq(Call) /\ Len(calls) <= MaxCalls
      /\ DOMAIN calls = 1..Len(calls) /\ Len(calls) \in Nat /\ \A i \in DOMAIN calls : calls[i] \in Call
      /\ clock \in 0..MaxClock /\ operated \in SUBSET Resources /\ stray \in SUBSET Files
      /\ crashed \in 0..MaxCrashes
  BY RowsOf, LenProperties, ElementOfSeq DEF Typed, TypeOK
<1>01. /\ \A id \in DOMAIN ledger : Shape(ledger[id])
       /\ CallbackFits
       /\ \A i \in DOMAIN calls : Switches(calls[i].id)
  BY DEF Typed, Fits
<1>02. NoCallback \in Callback /\ NoCallback.step = "none"
  BY DEF Callback, NoCallback
<1>03. ASSUME ledger' = ledger
       PROVE  /\ \A id \in DOMAIN ledger' : Shape(ledger'[id])
              /\ \A id : Switches(id)' <=> Switches(id)
              /\ \A id : UnderWay(id)' <=> UnderWay(id)
  BY <1>01, <1>03 DEF Switches, UnderWay
<1>04. ASSUME ledger' = ledger, calls' = calls PROVE (\A i \in DOMAIN calls : Switches(calls[i].id))'
  BY <1>01, <1>03, <1>04
<1>05. ASSUME callback' = NoCallback PROVE CallbackFits'
  BY <1>02, <1>05 DEF CallbackFits
<1>1. ASSUME NEW row \in Row, Shape(row), ledger' = Append(ledger, row), Len(ledger) < MaxRows
      PROVE  /\ ledger' \in Seq(Row) /\ Len(ledger') <= MaxRows /\ Len(ledger') = Len(ledger) + 1
             /\ DOMAIN ledger' = DOMAIN ledger \cup {Len(ledger')} /\ ledger'[Len(ledger')] = row
             /\ Len(ledger') \notin DOMAIN ledger
             /\ \A id \in DOMAIN ledger : ledger'[id] = ledger[id]
             /\ \A id \in DOMAIN ledger' : Shape(ledger'[id])
             /\ \A id : Switches(id) => Switches(id)'
  <2>1. /\ ledger' \in Seq(Row) /\ Len(ledger') = Len(ledger) + 1
        /\ DOMAIN ledger' = DOMAIN ledger \cup {Len(ledger')} /\ ledger'[Len(ledger')] = row
        /\ Len(ledger') \notin DOMAIN ledger
        /\ \A id \in DOMAIN ledger : ledger'[id] = ledger[id]
    BY <1>0, <1>1, RowAdded
  <2>2. Len(ledger') <= MaxRows
    BY <1>0, <1>1, <2>1, ExecutorAssumption
  <2>3. \A id \in DOMAIN ledger' : Shape(ledger'[id])
    BY <1>01, <1>1, <2>1
  <2>4. \A id : Switches(id) => Switches(id)'
    BY <2>1 DEF Switches
  <2>5. QED
    BY <2>1, <2>2, <2>3, <2>4
<1>2. ASSUME NEW id \in DOMAIN ledger, NEW row \in Row, Shape(row), ledger' = [ledger EXCEPT ![id] = row],
             row.kind = ledger[id].kind, row.resources = ledger[id].resources
      PROVE  /\ ledger' \in Seq(Row) /\ Len(ledger') <= MaxRows
             /\ \A n \in DOMAIN ledger' : Shape(ledger'[n])
             /\ \A n : Switches(n) => Switches(n)'
  <2>1. /\ ledger' \in Seq(Row) /\ Len(ledger') = Len(ledger) /\ DOMAIN ledger' = DOMAIN ledger
        /\ \A n \in DOMAIN ledger : ledger'[n] = IF n = id THEN row ELSE ledger[n]
    BY <1>0, <1>2, RowReplaced
  <2>2. \A n \in DOMAIN ledger' : Shape(ledger'[n])
    BY <1>01, <1>2, <2>1
  <2>3. \A n : Switches(n) => Switches(n)'
    BY <1>2, <2>1 DEF Switches
  <2>4. QED
    BY <1>0, <2>1, <2>2, <2>3
<1>3. ASSUME NEW a \in Assignments, NEW kind \in Kinds, Deny(a, kind) PROVE Typed'
  <2> DEFINE row == NewRow("failed", a, kind, {})
  <2>1. row \in Row /\ row.status = "failed" /\ row.resources = {}
    BY NewRowFacts, ExecutorAssumption DEF Statuses
  <2>2. Shape(row)
    BY <2>1 DEF Shape
  <2>3. ledger' = Append(ledger, row) /\ Len(ledger) < MaxRows
        /\ UNCHANGED <<store, poller, callback, calls, clock, operated, stray, crashed>> /\ callback = NoCallback
    BY <1>3 DEF Deny, Idle
  <2> HIDE DEF row
  <2>4. /\ ledger' \in Seq(Row) /\ Len(ledger') <= MaxRows
        /\ \A id \in DOMAIN ledger' : Shape(ledger'[id])
        /\ \A id : Switches(id) => Switches(id)'
    BY <1>1, <2>1, <2>2, <2>3
  <2>5. Fits'
    BY <1>01, <1>05, <2>3, <2>4 DEF Fits
  <2>6. TypeOK'
    BY <1>0, <2>3, <2>4 DEF TypeOK
  <2>7. QED
    BY <2>5, <2>6 DEF Typed
<1>4. ASSUME NEW a \in Assignments, NEW kind \in Kinds, NEW S \in Targets(kind, a), Plan(a, kind, S)
      PROVE  Typed'
  <2> DEFINE row == NewRow("planned", a, kind, S)
  <2>1. kind \in AllKinds /\ S \in SUBSET Resources
    BY ExecutorAssumption DEF Targets, AllKinds, Resources
  <2>2. /\ row \in Row /\ row.status = "planned" /\ row.resources = S /\ row.kind = kind
        /\ row.assignment = a
    BY <2>1, NewRowFacts DEF Statuses
  <2>3. Shape(row)
    BY <2>1, <2>2 DEF Shape, Targets, AllKinds
  <2>4. ledger' = Append(ledger, row) /\ Len(ledger) < MaxRows
        /\ UNCHANGED <<store, poller, calls, clock, operated, stray, crashed>> /\ callback = NoCallback
    BY <1>4 DEF Plan, Idle
  <2> HIDE DEF row
  <2>5. /\ ledger' \in Seq(Row) /\ Len(ledger') <= MaxRows /\ Len(ledger') = Len(ledger) + 1
        /\ DOMAIN ledger' = DOMAIN ledger \cup {Len(ledger')} /\ ledger'[Len(ledger')] = row
        /\ \A n \in DOMAIN ledger' : Shape(ledger'[n])
        /\ \A n : Switches(n) => Switches(n)'
    BY <1>1, <2>2, <2>3, <2>4
  <2>6. PICK id \in Nat : id = Len(ledger') /\ id \in DOMAIN ledger' /\ ledger'[id] = row
    BY <1>0, <2>5
  <2>7. PICK new \in [S -> Contents] :
          /\ \A r \in S : new[r] \in Content(r)
          /\ callback' = IF kind = "channel_state"
                          THEN [step |-> "switch", id |-> id, back |-> FALSE, want |-> \A r \in S : new[r]]
                          ELSE [step |-> "write", id |-> id, new |-> new, before |-> NoEvidence]
    BY <1>4, <2>6 DEF Plan
  <2>8. callback' \in Callback /\ CallbackFits'
    <3>1. CASE kind = "channel_state"
      <4> DEFINE want == \A r \in S : new[r]
      <4>1. callback' = [step |-> "switch", id |-> id, back |-> FALSE, want |-> want]
        BY <2>7, <3>1
      <4>2. want \in BOOLEAN
        OBVIOUS
      <4> HIDE DEF want
      <4>3. \E c \in Channels : c \in S
        BY <3>1 DEF Targets
      <4>4. Switches(id)'
        BY <2>2, <2>6, <3>1, <4>3 DEF Switches
      <4>5. QED
        BY <2>6, <4>1, <4>2, <4>4 DEF Callback, CallbackFits
    <3>2. CASE kind # "channel_state"
      <4>1. callback' = [step |-> "write", id |-> id, new |-> new, before |-> NoEvidence]
        BY <2>7, <3>2
      <4>2. NoEvidence \in [{} -> Contents] /\ {} \in SUBSET Resources /\ DOMAIN NoEvidence = {}
        BY DEF NoEvidence
      <4>3. new \in Evidence /\ NoEvidence \in Evidence /\ Fitting(NoEvidence) /\ Fitting(new)
        BY <2>1, <2>7, <4>2 DEF Evidence, Fitting
      <4>4. UnderWay(id)'
        BY <2>2, <2>6, <3>2 DEF UnderWay
      <4>5. Full(new, ledger'[id])
        BY <2>2, <2>6, <4>3 DEF Full
      <4>6. QED
        BY <2>6, <4>1, <4>2, <4>3, <4>4, <4>5 DEF Callback, CallbackFits, Full
    <3>3. QED
      BY <3>1, <3>2
  <2>9. Fits'
    BY <1>01, <2>4, <2>5, <2>8 DEF Fits
  <2>10. TypeOK'
    BY <1>0, <2>4, <2>5, <2>8 DEF TypeOK
  <2>11. QED
    BY <2>9, <2>10 DEF Typed
<1>5. CASE Write
  <2>1. PICK r \in DOMAIN callback.new \ DOMAIN callback.before :
          /\ store' = [store EXCEPT ![r] = callback.new[r]]
          /\ LET now == [q \in DOMAIN callback.before \cup {r} |->
                            IF q = r THEN store[r] ELSE callback.before[q]]
             IN  callback' = IF now \in [DOMAIN callback.new -> Contents]
                              THEN [step |-> "applied", id |-> callback.id, before |-> now,
                                    after |-> callback.new]
                              ELSE [callback EXCEPT !.before = now]
    BY <1>5 DEF Write
  <2> DEFINE now == [q \in DOMAIN callback.before \cup {r} |->
                            IF q = r THEN store[r] ELSE callback.before[q]]
  <2>2. /\ callback.step = "write"
        /\ UNCHANGED <<ledger, poller, calls, clock, operated, stray, crashed>>
    BY <1>5 DEF Write
  <2>3. /\ callback \in [step : {"write"}, id : Nat, new : Evidence, before : Evidence]
        /\ UnderWay(callback.id) /\ Full(callback.new, ledger[callback.id])
        /\ DOMAIN callback.before \subseteq ledger[callback.id].resources /\ Fitting(callback.before)
    BY <1>0, <1>01, <2>2, CallbackFacts DEF CallbackFits
  <2>4. /\ r \in Resources /\ callback.new[r] \in Content(r) /\ r \in ledger[callback.id].resources
    BY <2>1, <2>3, Fitted DEF Full
  <2>5. store' \in [Resources -> Contents] /\ \A q \in Resources : store'[q] \in Content(q)
    BY <2>1, <2>4, Stored DEF Typed
  <2>6. /\ DOMAIN now = DOMAIN callback.before \cup {r}
        /\ \A q \in DOMAIN now : now[q] = IF q = r THEN store[r] ELSE callback.before[q]
    OBVIOUS
  <2>7. /\ DOMAIN now \subseteq ledger[callback.id].resources /\ DOMAIN now \in SUBSET Resources
    BY <2>3, <2>4, <2>6, Fitted
  <2>8. Fitting(now)
    BY <1>0, <2>3, <2>4, <2>6 DEF Fitting
  <2>9. now \in [DOMAIN now -> Contents]
    <3>1. \A q \in DOMAIN now : now[q] \in Contents
      BY <2>7, <2>8 DEF Fitting, Content, Contents
    <3>2. QED
      BY <3>1
  <2>10. now \in Evidence
    BY <2>7, <2>9 DEF Evidence
  <2> HIDE DEF now
  <2>11. callback' \in Callback /\ CallbackFits'
    <3>1. CASE now \in [DOMAIN callback.new -> Contents]
      <4>1. callback' = [step |-> "applied", id |-> callback.id, before |-> now, after |-> callback.new]
        BY <2>1, <3>1 DEF now
      <4>2. Full(now, ledger[callback.id])
        BY <2>3, <2>8, <3>1 DEF Full
      <4>3. QED
        BY <1>03, <2>2, <2>3, <2>10, <4>1, <4>2 DEF Callback, CallbackFits, Full
    <3>2. CASE now \notin [DOMAIN callback.new -> Contents]
      <4>1. callback' = [callback EXCEPT !.before = now]
        BY <2>1, <3>2 DEF now
      <4>2. callback' = [step |-> "write", id |-> callback.id, new |-> callback.new, before |-> now]
        BY <2>3, <4>1
      <4>3. QED
        BY <1>03, <2>2, <2>3, <2>7, <2>8, <2>10, <4>2 DEF Callback, CallbackFits, Full
    <3>3. QED
      BY <3>1, <3>2
  <2>12. Fits'
    BY <1>03, <1>04, <2>2, <2>11 DEF Fits
  <2>13. TypeOK'
    BY <1>0, <2>2, <2>5, <2>11 DEF TypeOK
  <2>14. QED
    BY <2>12, <2>13 DEF Typed
<1>6. CASE WriteFails
  <2>1. /\ callback.step \in {"write", "applied"}
        /\ callback.step = "applied" => ledger[callback.id].kind = "project_file"
        /\ callback' = [step |-> "undo", id |-> callback.id, before |-> callback.before]
        /\ UNCHANGED <<ledger, store, poller, calls, clock, operated, stray, crashed>>
    BY <1>6 DEF WriteFails
  <2>2. callback.id \in Nat /\ callback.before \in Evidence
    BY <1>0, <2>1, CallbackFacts
  <2>3. UnderWay(callback.id) /\ Fitting(callback.before)
        /\ DOMAIN callback.before \subseteq ledger[callback.id].resources
    BY <1>01, <2>1 DEF CallbackFits, Switches, Full
  <2>4. callback' \in Callback /\ CallbackFits'
    BY <1>03, <2>1, <2>2, <2>3 DEF Callback, CallbackFits
  <2>5. Fits'
    BY <1>03, <1>04, <2>1, <2>4 DEF Fits
  <2>6. TypeOK'
    BY <1>0, <2>1, <2>4 DEF TypeOK
  <2>7. QED
    BY <2>5, <2>6 DEF Typed
<1>61. CASE WriteSpoils
  <2>1. /\ callback.step = "write" /\ ledger[callback.id].kind = "project_file"
        /\ callback' = [step |-> "undo", id |-> callback.id, before |-> callback.before]
        /\ UNCHANGED <<ledger, poller, calls, clock, operated, crashed>>
    BY <1>61 DEF WriteSpoils
  <2>2. PICK r \in DOMAIN callback.new \ DOMAIN callback.before : Spoil(r, {r})
    BY <1>61 DEF WriteSpoils
  <2>3. callback.id \in Nat /\ callback.before \in Evidence
    BY <1>0, <2>1, CallbackFacts
  <2>4. /\ UnderWay(callback.id) /\ Fitting(callback.before)
        /\ DOMAIN callback.before \subseteq ledger[callback.id].resources
        /\ DOMAIN callback.new = ledger[callback.id].resources
    BY <1>01, <2>1 DEF CallbackFits, Full
  <2>5. r \in Files
    BY <1>01, <2>1, <2>2, <2>4 DEF Shape, UnderWay
  <2>6. /\ store' \in [Resources -> Contents] /\ \A q \in Resources : store'[q] \in Content(q)
        /\ stray' \in SUBSET Files
    BY <2>2, <2>5, Spoiled DEF Typed
  <2>7. callback' \in Callback /\ CallbackFits'
    BY <1>03, <2>1, <2>3, <2>4 DEF Callback, CallbackFits
  <2>8. Fits'
    BY <1>03, <1>04, <2>1, <2>7 DEF Fits
  <2>9. TypeOK'
    BY <1>0, <2>1, <2>6, <2>7 DEF TypeOK
  <2>10. QED
    BY <2>8, <2>9 DEF Typed
<1>62. CASE UndoSpoils
  <2>1. /\ callback.step = "undo" /\ ledger[callback.id].kind = "project_file"
        /\ callback' = [step |-> "failed", id |-> callback.id]
        /\ UNCHANGED <<ledger, poller, calls, clock, operated, crashed>>
    BY <1>62 DEF UndoSpoils
  <2>2. PICK r \in DOMAIN callback.before : Spoil(r, DOMAIN callback.before)
    BY <1>62 DEF UndoSpoils
  <2>3. callback.id \in Nat
    BY <1>0, <2>1, CallbackFacts
  <2>4. UnderWay(callback.id) /\ DOMAIN callback.before \subseteq ledger[callback.id].resources
    BY <1>01, <2>1 DEF CallbackFits
  <2>5. DOMAIN callback.before \in SUBSET Files
    BY <1>01, <2>1, <2>4 DEF Shape, UnderWay
  <2>6. /\ store' \in [Resources -> Contents] /\ \A q \in Resources : store'[q] \in Content(q)
        /\ stray' \in SUBSET Files
    BY <2>2, <2>5, Spoiled DEF Typed
  <2>7. callback' \in Callback /\ CallbackFits'
    BY <1>03, <2>1, <2>3, <2>4 DEF Callback, CallbackFits
  <2>8. Fits'
    BY <1>03, <1>04, <2>1, <2>7 DEF Fits
  <2>9. TypeOK'
    BY <1>0, <2>1, <2>6, <2>7 DEF TypeOK
  <2>10. QED
    BY <2>8, <2>9 DEF Typed
<1>7. CASE Undo
  <2>1. callback.step = "undo" /\ UNCHANGED <<ledger, poller, calls, clock, operated, stray, crashed>>
    BY <1>7 DEF Undo
  <2>2. /\ callback \in [step : {"undo"}, id : Nat, before : Evidence]
        /\ UnderWay(callback.id) /\ Fitting(callback.before)
        /\ DOMAIN callback.before \subseteq ledger[callback.id].resources
    BY <1>0, <1>01, <2>1, CallbackFacts DEF CallbackFits
  <2>3. /\ callback' \in Callback /\ CallbackFits'
        /\ store' \in [Resources -> Contents] /\ \A q \in Resources : store'[q] \in Content(q)
    <3>1. CASE callback.before = NoEvidence
      <4>1. callback' = [step |-> "failed", id |-> callback.id] /\ store' = store
        BY <1>7, <3>1 DEF Undo
      <4>2. QED
        BY <1>0, <1>03, <2>1, <2>2, <4>1 DEF Callback, CallbackFits
    <3>2. CASE callback.before # NoEvidence
      <4>1. PICK r \in DOMAIN callback.before :
              /\ store' = [store EXCEPT ![r] = callback.before[r]]
              /\ callback' = [callback EXCEPT !.before = [q \in DOMAIN @ \ {r} |-> @[q]]]
        BY <1>7, <3>2 DEF Undo
      <4> DEFINE rest == [q \in DOMAIN callback.before \ {r} |-> callback.before[q]]
      <4>2. callback' = [step |-> "undo", id |-> callback.id, before |-> rest]
        BY <2>2, <4>1
      <4>3. r \in Resources /\ callback.before[r] \in Content(r)
        BY <2>2, Fitted
      <4>4. \A q \in DOMAIN callback.before : q \in Resources /\ callback.before[q] \in Contents
        BY <2>2, Fitted
      <4>5. rest \in [DOMAIN callback.before \ {r} -> Contents]
            /\ DOMAIN callback.before \ {r} \in SUBSET Resources
        BY <4>4
      <4>6. rest \in Evidence /\ Fitting(rest) /\ DOMAIN rest \subseteq ledger[callback.id].resources
        BY <2>2, <4>5 DEF Evidence, Fitting
      <4> HIDE DEF rest
      <4>7. store' \in [Resources -> Contents] /\ \A q \in Resources : store'[q] \in Content(q)
        BY <4>1, <4>3, Stored DEF Typed
      <4>8. callback' \in Callback /\ CallbackFits'
        BY <1>03, <2>1, <2>2, <4>2, <4>6 DEF Callback, CallbackFits
      <4>9. QED
        BY <4>7, <4>8
    <3>3. QED
      BY <3>1, <3>2
  <2>4. Fits'
    BY <1>03, <1>04, <2>1, <2>3 DEF Fits
  <2>5. TypeOK'
    BY <1>0, <2>1, <2>3 DEF TypeOK
  <2>6. QED
    BY <2>4, <2>5 DEF Typed
<1>8. CASE RecordApplied
  <2> DEFINE row == AppliedRow(ledger[callback.id], callback.before, callback.after, clock)
  <2>1. /\ callback.step = "applied" /\ callback' = NoCallback
        /\ ledger' = [ledger EXCEPT ![callback.id] = row]
        /\ UNCHANGED <<store, poller, calls, clock, operated, stray, crashed>>
    BY <1>8 DEF RecordApplied, AppliedRow
  <2>2. /\ callback.id \in DOMAIN ledger /\ callback.before \in Evidence /\ callback.after \in Evidence
        /\ Full(callback.before, ledger[callback.id]) /\ Full(callback.after, ledger[callback.id])
        /\ ledger[callback.id] \in Row /\ Shape(ledger[callback.id]) /\ clock \in Nat
    BY <1>0, <1>01, <2>1, CallbackFacts DEF CallbackFits, UnderWay, Switches
  <2>3. /\ row \in Row /\ row.status = "applied" /\ row.before = callback.before
        /\ row.after = callback.after /\ row.kind = ledger[callback.id].kind
        /\ row.assignment = ledger[callback.id].assignment
        /\ row.resources = ledger[callback.id].resources
    BY <2>2, RowRecorded
  <2> HIDE DEF row
  <2>4. Shape(row)
    <3>1. row.kind = "channel_state" => row.resources # {}
      BY <1>01, <2>1, <2>3 DEF CallbackFits, UnderWay, Switches
    <3>2. QED
      BY <2>2, <2>3, <3>1 DEF Shape, Full
  <2>5. /\ ledger' \in Seq(Row) /\ Len(ledger') <= MaxRows
        /\ \A n \in DOMAIN ledger' : Shape(ledger'[n])
        /\ \A n : Switches(n) => Switches(n)'
    BY <1>2, <2>1, <2>2, <2>3, <2>4
  <2>6. Fits'
    BY <1>01, <1>05, <2>1, <2>5 DEF Fits
  <2>7. TypeOK'
    BY <1>0, <1>02, <2>1, <2>5 DEF TypeOK
  <2>8. QED
    BY <2>6, <2>7 DEF Typed
<1>9. ASSUME NEW status \in {"failed", "rolled_back"},
             callback.id \in DOMAIN ledger, callback' = NoCallback,
             status = "rolled_back" => ledger[callback.id].status = "applied",
             ledger' = [ledger EXCEPT ![callback.id].status = status],
             UNCHANGED <<store, poller, calls, clock, operated, stray, crashed>>
      PROVE  Typed'
  <2> DEFINE row == [ledger[callback.id] EXCEPT !.status = status]
  <2>1. ledger' = [ledger EXCEPT ![callback.id] = row]
    BY <1>9
  <2>2. ledger[callback.id] \in Row /\ Shape(ledger[callback.id]) /\ status \in Statuses
    BY <1>0, <1>01, <1>9 DEF Statuses
  <2>3. /\ row \in Row /\ row.status = status /\ row.before = ledger[callback.id].before
        /\ row.after = ledger[callback.id].after /\ row.kind = ledger[callback.id].kind
        /\ row.assignment = ledger[callback.id].assignment
        /\ row.resources = ledger[callback.id].resources
    BY <2>2, RowSettled
  <2> HIDE DEF row
  <2>4. Shape(row)
    BY <1>9, <2>2, <2>3 DEF Shape, Full
  <2>5. /\ ledger' \in Seq(Row) /\ Len(ledger') <= MaxRows
        /\ \A n \in DOMAIN ledger' : Shape(ledger'[n])
        /\ \A n : Switches(n) => Switches(n)'
    BY <1>2, <1>9, <2>1, <2>3, <2>4
  <2>6. Fits'
    BY <1>01, <1>05, <1>9, <2>5 DEF Fits
  <2>7. TypeOK'
    BY <1>0, <1>02, <1>9, <2>5 DEF TypeOK
  <2>8. QED
    BY <2>6, <2>7 DEF Typed
<1>10. CASE RecordFailed
  <2>1. callback.id \in DOMAIN ledger
    BY <1>01, <1>10 DEF RecordFailed, CallbackFits, UnderWay, Switches
  <2>2. QED
    BY <1>9, <1>10, <2>1 DEF RecordFailed
<1>11. ASSUME callback' = NoCallback, UNCHANGED <<ledger, store, poller, calls, clock, operated, stray, crashed>>
       PROVE  Typed'
  <2>1. Fits'
    BY <1>03, <1>04, <1>05, <1>11 DEF Fits
  <2>2. TypeOK'
    BY <1>0, <1>02, <1>11 DEF TypeOK
  <2>3. QED
    BY <2>1, <2>2 DEF Typed
<1>12. CASE RecordRolledBack
  <2>1. CASE ledger[callback.id].status = "applied"
    <3>1. callback.id \in DOMAIN ledger
      BY <1>01, <1>12 DEF RecordRolledBack, CallbackFits
    <3>2. QED
      BY <1>9, <1>12, <2>1, <3>1 DEF RecordRolledBack
  <2>2. CASE ledger[callback.id].status # "applied"
    BY <1>11, <1>12, <2>2 DEF RecordRolledBack
  <2>3. QED
    BY <2>1, <2>2
<1>13. ASSUME NEW id \in DOMAIN ledger, Rollback(id) PROVE Typed'
  <2>1. /\ ledger[id].status = "applied" /\ ledger[id] \in Row /\ Shape(ledger[id]) /\ id \in Nat
        /\ UNCHANGED <<ledger, store, poller, calls, clock, operated, stray, crashed>>
    BY <1>0, <1>01, <1>13 DEF Rollback
  <2>2. callback' \in Callback /\ CallbackFits'
    <3>1. CASE ledger[id].kind = "channel_state"
      <4> DEFINE want == \A r \in ledger[id].resources : ledger[id].before[r]
      <4>1. callback' = [step |-> "switch", id |-> id, back |-> TRUE, want |-> want]
        BY <1>13, <3>1 DEF Rollback
      <4>2. want \in BOOLEAN
        OBVIOUS
      <4> HIDE DEF want
      <4>3. Switches(id)
        BY <2>1, <3>1 DEF Switches, Shape
      <4>4. QED
        BY <1>03, <2>1, <4>1, <4>2, <4>3 DEF Callback, CallbackFits
    <3>2. CASE ledger[id].kind # "channel_state"
      <4>1. callback' = [step |-> "restore", id |-> id, todo |-> ledger[id].resources]
        BY <1>13, <3>2 DEF Rollback
      <4>2. ledger[id].resources \in SUBSET Resources
        BY <2>1 DEF Row
      <4>3. QED
        BY <2>1, <3>2, <4>1, <4>2 DEF Callback, CallbackFits
    <3>3. QED
      BY <3>1, <3>2
  <2>3. Fits'
    BY <1>03, <1>04, <2>1, <2>2 DEF Fits
  <2>4. TypeOK'
    BY <1>0, <2>1, <2>2 DEF TypeOK
  <2>5. QED
    BY <2>3, <2>4 DEF Typed
<1>14. CASE Restore
  <2>1. /\ callback.step = "restore"
        /\ UNCHANGED <<ledger, poller, calls, clock, operated, stray, crashed>>
    BY <1>14 DEF Restore
  <2>2. PICK r \in callback.todo :
          /\ store' = [store EXCEPT ![r] = ledger[callback.id].before[r]]
          /\ callback' = IF callback.todo = {r} THEN [step |-> "rolledBack", id |-> callback.id]
                         ELSE [callback EXCEPT !.todo = @ \ {r}]
    BY <1>14 DEF Restore
  <2>3. /\ callback \in [step : {"restore"}, id : Nat, todo : SUBSET Resources]
        /\ callback.id \in DOMAIN ledger /\ ledger[callback.id].kind # "channel_state"
        /\ ledger[callback.id].status = "applied"
        /\ callback.todo \subseteq ledger[callback.id].resources
        /\ Full(ledger[callback.id].before, ledger[callback.id])
    BY <1>0, <1>01, <2>1, CallbackFacts DEF CallbackFits, Shape
  <2>4. r \in Resources /\ ledger[callback.id].before[r] \in Content(r)
    BY <2>2, <2>3 DEF Full, Fitting
  <2>5. store' \in [Resources -> Contents] /\ \A q \in Resources : store'[q] \in Content(q)
    BY <2>2, <2>4, Stored DEF Typed
  <2>6. callback' \in Callback /\ CallbackFits'
    <3>1. CASE callback.todo = {r}
      <4>1. callback' = [step |-> "rolledBack", id |-> callback.id]
        BY <2>2, <3>1
      <4>2. QED
        BY <2>1, <2>3, <4>1 DEF Callback, CallbackFits
    <3>2. CASE callback.todo # {r}
      <4>1. callback' = [step |-> "restore", id |-> callback.id, todo |-> callback.todo \ {r}]
        BY <2>2, <2>3, <3>2
      <4>2. callback.todo \ {r} \in SUBSET Resources
        BY <2>3
      <4>3. QED
        BY <2>1, <2>3, <4>1, <4>2 DEF Callback, CallbackFits
    <3>3. QED
      BY <3>1, <3>2
  <2>7. Fits'
    BY <1>03, <1>04, <2>1, <2>6 DEF Fits
  <2>8. TypeOK'
    BY <1>0, <2>1, <2>5, <2>6 DEF TypeOK
  <2>9. QED
    BY <2>7, <2>8 DEF Typed
<1>15. CASE RestoreFails
  BY <1>11, <1>15 DEF RestoreFails
<1>151. CASE RestoreSpoils
  <2>1. /\ callback.step = "restore" /\ ledger[callback.id].kind = "project_file"
        /\ callback' = NoCallback
        /\ UNCHANGED <<ledger, poller, calls, clock, operated, crashed>>
    BY <1>151 DEF RestoreSpoils
  <2>2. PICK r \in callback.todo : Spoil(r, {r})
    BY <1>151 DEF RestoreSpoils
  <2>3. r \in Files
    BY <1>01, <2>1, <2>2 DEF CallbackFits, Shape
  <2>4. /\ store' \in [Resources -> Contents] /\ \A q \in Resources : store'[q] \in Content(q)
        /\ stray' \in SUBSET Files
    BY <2>2, <2>3, Spoiled DEF Typed
  <2>5. Fits'
    BY <1>03, <1>04, <1>05, <2>1 DEF Fits
  <2>6. TypeOK'
    BY <1>0, <1>02, <2>1, <2>4 DEF TypeOK
  <2>7. QED
    BY <2>5, <2>6 DEF Typed
<1>16. CASE Switch
  <2> DEFINE c == ChannelOf(callback.id)
  <2>1. /\ callback.step = "switch" /\ UNCHANGED <<ledger, clock, operated, stray, crashed>>
        /\ store' = [store EXCEPT ![c] = callback.want]
        /\ poller' = [poller EXCEPT ![c] = callback.want]
    BY <1>16 DEF Switch
  <2>2. /\ callback \in [step : {"switch"}, id : Nat, back : BOOLEAN, want : BOOLEAN]
        /\ Switches(callback.id)
    BY <1>0, <1>01, <2>1, CallbackFacts DEF CallbackFits
  <2>3. c \in Channels /\ c \in Resources /\ Content(c) = BOOLEAN /\ store[c] \in BOOLEAN
    BY <2>2, ChannelFacts DEF Typed
  <2> HIDE DEF c
  <2>4. store' \in [Resources -> Contents] /\ \A q \in Resources : store'[q] \in Content(q)
    BY <2>1, <2>2, <2>3, Stored DEF Typed
  <2>5. poller' \in [Channels -> BOOLEAN]
    BY <1>0, <2>1, <2>2, <2>3
  <2>6. /\ callback' \in Callback /\ CallbackFits'
        /\ calls' \in Seq(Call) /\ Len(calls') <= MaxCalls
        /\ (\A i \in DOMAIN calls : Switches(calls[i].id))'
    <3>1. CASE callback.want
      <4>1. callback' = Updated(callback.id, callback.back, store[c], callback.want) /\ calls' = calls
        BY <1>16, <3>1 DEF Switch, c
      <4>2. QED
        BY <1>0, <1>04, <2>1, <2>2, <2>3, <4>1, UpdatedFacts
    <3>2. CASE ~callback.want
      <4> DEFINE new == [id |-> callback.id, back |-> callback.back, restore |-> store[c]]
      <4>1. callback' = NoCallback /\ Len(calls) < MaxCalls /\ calls' = Append(calls, new)
        BY <1>16, <3>2 DEF Switch, c
      <4>2. new \in Call /\ new.id = callback.id
        BY <2>2, <2>3 DEF Call
      <4> HIDE DEF new
      <4>3. /\ calls' \in Seq(Call) /\ Len(calls') = Len(calls) + 1
            /\ \A i \in 1..Len(calls) : calls'[i] = calls[i]
            /\ calls'[Len(calls) + 1] = new
        BY <1>0, <4>1, <4>2, AppendProperties
      <4>4. DOMAIN calls' = 1..(Len(calls) + 1)
        BY <4>3, LenProperties
      <4>5. ASSUME NEW i \in DOMAIN calls' PROVE \E n : n = calls'[i].id /\ Switches(n)'
        <5>1. calls'[i].id = callback.id \/ (i \in DOMAIN calls /\ calls'[i].id = calls[i].id)
          BY <1>0, <4>2, <4>3, <4>4
        <5>2. \A n : Switches(n) => Switches(n)'
          BY <1>03, <2>1
        <5>3. QED
          BY <1>01, <2>2, <5>1, <5>2
      <4>6. (\A i \in DOMAIN calls : Switches(calls[i].id))'
        BY <4>5
      <4>7. Len(calls') <= MaxCalls
        BY <1>0, <4>1, <4>3, ExecutorAssumption
      <4>8. QED
        BY <1>02, <1>05, <4>1, <4>3, <4>6, <4>7
    <3>3. QED
      BY <3>1, <3>2
  <2>7. Fits'
    BY <1>03, <2>1, <2>6 DEF Fits
  <2>8. TypeOK'
    BY <1>0, <2>1, <2>4, <2>5, <2>6 DEF TypeOK
  <2>9. QED
    BY <2>7, <2>8 DEF Typed
<1>17. ASSUME NEW i \in DOMAIN calls, CallReturns(i) \/ CallFails(i) PROVE Typed'
  <2>1. /\ calls' = RemoveAt(calls, i) /\ UNCHANGED <<ledger, poller, clock, operated, stray, crashed>>
    BY <1>17 DEF CallReturns, CallFails
  <2>2. /\ calls' \in Seq(Call) /\ Len(calls') = Len(calls) - 1
        /\ \A j \in DOMAIN calls' : \E k \in DOMAIN calls : calls'[j] = calls[k]
    BY <1>0, <2>1, CallRemoved
  <2>3. (\A j \in DOMAIN calls : Switches(calls[j].id))'
    <3>1. ASSUME NEW j \in DOMAIN calls' PROVE \E n : n = calls'[j].id /\ Switches(n)'
      BY <1>01, <1>03, <2>1, <2>2
    <3>2. QED
      BY <3>1
  <2>4. Len(calls') <= MaxCalls
    BY <1>0, <2>2, ExecutorAssumption
  <2>5. calls[i] \in Call /\ Switches(calls[i].id) /\ calls[i].id \in Nat
    BY <1>0, <1>01 DEF Call
  <2> DEFINE c == ChannelOf(calls[i].id)
  <2>6. c \in Resources /\ Content(c) = BOOLEAN /\ store[c] \in BOOLEAN
    BY <2>5, ChannelFacts DEF Typed
  <2> HIDE DEF c
  <2>7. /\ callback' \in Callback /\ CallbackFits'
        /\ store' \in [Resources -> Contents] /\ \A q \in Resources : store'[q] \in Content(q)
    <3>1. CASE CallReturns(i)
      <4>1. callback' = Updated(calls[i].id, calls[i].back, calls[i].restore, store[c]) /\ store' = store
        BY <3>1 DEF CallReturns, c
      <4>2. calls[i].back \in BOOLEAN /\ calls[i].restore \in BOOLEAN
        BY <2>5 DEF Call
      <4>3. QED
        BY <1>0, <2>1, <2>5, <2>6, <4>1, <4>2, UpdatedFacts
    <3>2. CASE CallFails(i)
      <4>1. store' = [store EXCEPT ![c] = calls[i].restore] /\ calls[i].restore \in Content(c)
        BY <2>5, <2>6, <3>2 DEF CallFails, c, Call
      <4>2. store' \in [Resources -> Contents] /\ \A q \in Resources : store'[q] \in Content(q)
        BY <2>6, <4>1, Stored DEF Typed
      <4>3. CASE calls[i].back
        <5>1. callback' = NoCallback
          BY <3>2, <4>3 DEF CallFails
        <5>2. QED
          BY <1>02, <1>05, <4>2, <5>1
      <4>4. CASE ~calls[i].back
        <5>1. callback' = [step |-> "failed", id |-> calls[i].id]
          BY <3>2, <4>4 DEF CallFails
        <5>3. \A n : Switches(n) => Switches(n)'
          BY <1>03, <2>1
        <5>4. CallbackFits'
          BY <2>5, <5>1, <5>3 DEF CallbackFits
        <5>5. QED
          BY <2>5, <4>2, <5>1, <5>4 DEF Callback
      <4>5. QED
        BY <4>3, <4>4
    <3>3. QED
      BY <1>17, <3>1, <3>2
  <2>8. Fits'
    BY <1>03, <2>1, <2>3, <2>7 DEF Fits
  <2>9. TypeOK'
    BY <1>0, <2>1, <2>2, <2>4, <2>7 DEF TypeOK
  <2>10. QED
    BY <2>8, <2>9 DEF Typed
<1>18. ASSUME NEW r \in Operated, NEW value \in Contents, OperatorWrites(r, value) PROVE Typed'
  <2>1. /\ r \in Resources /\ value \in Content(r) /\ store' = [store EXCEPT ![r] = value]
        /\ operated' = operated \cup {r} /\ UNCHANGED <<ledger, callback, calls, clock, stray, crashed>>
        /\ poller' = IF r \in Channels THEN [poller EXCEPT ![r] = value] ELSE poller
        /\ callback = NoCallback
    BY <1>18, ExecutorAssumption DEF OperatorWrites, Idle
  <2>2. store' \in [Resources -> Contents] /\ \A q \in Resources : store'[q] \in Content(q)
    BY <2>1, Stored DEF Typed
  <2>3. poller' \in [Channels -> BOOLEAN]
    <3>1. CASE r \in Channels
      <4>1. value \in BOOLEAN
        BY <2>1, <3>1 DEF Content
      <4>2. QED
        BY <1>0, <2>1, <3>1, <4>1
    <3>2. CASE r \notin Channels
      BY <1>0, <2>1, <3>2
    <3>3. QED
      BY <3>1, <3>2
  <2>4. Fits'
    BY <1>03, <1>04, <1>05, <2>1 DEF Fits
  <2>5. TypeOK'
    BY <1>0, <2>1, <2>2, <2>3 DEF TypeOK
  <2>6. QED
    BY <2>4, <2>5 DEF Typed
<1>19. CASE Tick
  <2>1. /\ clock' = clock + 1 /\ clock < MaxClock /\ callback = NoCallback
        /\ UNCHANGED <<ledger, store, poller, callback, calls, operated, stray, crashed>>
    BY <1>19 DEF Tick, Idle
  <2>2. clock' \in 0..MaxClock
    BY <1>0, <2>1, ExecutorAssumption
  <2>3. Fits'
    BY <1>03, <1>04, <1>05, <2>1 DEF Fits
  <2>4. TypeOK'
    BY <1>0, <2>1, <2>2 DEF TypeOK
  <2>5. QED
    BY <2>3, <2>4 DEF Typed
<1>20. CASE CrashAndRestart
  <2>1. /\ crashed < MaxCrashes /\ crashed' = crashed + 1 /\ callback' = NoCallback /\ calls' = <<>>
        /\ poller' = [c \in Channels |-> store[c]] /\ UNCHANGED <<ledger, clock, operated>>
    BY <1>20 DEF CrashAndRestart
  <2>11. /\ store' \in [Resources -> Contents] /\ \A q \in Resources : store'[q] \in Content(q)
         /\ stray' \in SUBSET Files
    <3>1. CASE UNCHANGED <<store, stray>>
      BY <1>0, <3>1
    <3>2. ASSUME NEW r \in Files, Spoil(r, {r})
          PROVE  /\ store' \in [Resources -> Contents] /\ \A q \in Resources : store'[q] \in Content(q)
                 /\ stray' \in SUBSET Files
      BY <3>2, Spoiled DEF Typed
    <3>3. QED
      BY <1>20, <3>1, <3>2 DEF CrashAndRestart
  <2>2. crashed' \in 0..MaxCrashes
    BY <1>0, <2>1, ExecutorAssumption
  <2>3. calls' \in Seq(Call) /\ Len(calls') = 0 /\ DOMAIN calls' = {}
    BY <2>1
  <2>4. poller' \in [Channels -> BOOLEAN]
    <3>1. \A c \in Channels : store[c] \in BOOLEAN
      BY <1>0 DEF Content, Resources
    <3>2. QED
      BY <2>1, <3>1
  <2>5. Fits'
    BY <1>03, <1>05, <2>1, <2>3 DEF Fits
  <2>6. TypeOK'
    BY <1>0, <1>02, <2>1, <2>11, <2>2, <2>3, <2>4, ExecutorAssumption DEF TypeOK
  <2>7. QED
    BY <2>5, <2>6 DEF Typed
<1>21. CASE UNCHANGED vars
  BY <1>21 DEF vars, Typed, TypeOK, Fits, Switches, CallbackFits, UnderWay
<1>22. QED
  BY <1>3, <1>4, <1>5, <1>6, <1>61, <1>62, <1>7, <1>8, <1>10, <1>12, <1>13, <1>14, <1>15, <1>151, <1>16, <1>17, <1>18, <1>19,
     <1>20, <1>21 DEF Next, Requests, CallbackStep

LEMMA TypeInit ==
    ASSUME Init
    PROVE  Typed
<1>1. /\ ledger \in Seq(Row) /\ Len(ledger) = 0 /\ DOMAIN ledger = {}
      /\ calls \in Seq(Call) /\ Len(calls) = 0 /\ DOMAIN calls = {}
  BY DEF Init
<1>2. callback = NoCallback /\ callback.step = "none" /\ callback \in Callback
  BY DEF Init, NoCallback, Callback
<1>3. store \in [Resources -> Contents] /\ \A r \in Resources : store[r] \in Content(r)
  BY ExecutorAssumption DEF Init, Contents
<1>4. poller \in [Channels -> BOOLEAN]
  BY ExecutorAssumption DEF Init, Content, Resources
<1>5. TypeOK
  BY <1>1, <1>2, <1>3, <1>4, ExecutorAssumption DEF Init, TypeOK
<1>6. Fits
  BY <1>1, <1>2 DEF Fits, CallbackFits
<1>7. QED
  BY <1>5, <1>6 DEF Typed

\* Every variable keeps its type, and the evidence of a mutation names the resources of
\* its row and fits them, whoever writes them and whatever fails half way.
THEOREM TypeCorrect == Spec => [](TypeOK /\ Fits)
<1>1. Init => Typed
  BY TypeInit
<1>2. Typed /\ [Next]_vars => Typed'
  BY TypeKept
<1>3. Typed => TypeOK /\ Fits
  BY DEF Typed
<1>4. QED
  BY <1>1, <1>2, <1>3, PTL DEF Spec

-----------------------------------------------------------------------------
(* Planned rows *)

\* A step leaves a planned row to whoever has it, or hands it on.
LEMMA PendingKept ==
    ASSUME Typed, Typed', Pending, [Next]_vars
    PROVE  Pending'
<1>0. /\ ledger \in Seq(Row) /\ calls \in Seq(Call) /\ callback \in Callback
      /\ DOMAIN calls = 1..Len(calls) /\ Len(calls) \in Nat
      /\ DOMAIN ledger = 1..Len(ledger) /\ \A n \in DOMAIN ledger : ledger[n] \in Row
  BY RowsOf, LenProperties DEF Typed, TypeOK
<1>1. SUFFICES ASSUME crashed' = 0, crashed = 0, NEW id \in DOMAIN ledger', ledger'[id].status = "planned"
               PROVE  Awaited(id)' \/ Running(id)'
  <2>1. crashed' = 0 => crashed = 0
    BY DEF Typed, TypeOK, Next, Requests, CallbackStep, Deny, Plan, Write, WriteFails, WriteSpoils, Undo, UndoSpoils, RecordApplied,
           RecordFailed, Rollback, Restore, RestoreFails, RestoreSpoils, RecordRolledBack, Switch, CallReturns, CallFails,
           OperatorWrites, Tick, CrashAndRestart, vars
  <2>2. QED
    BY <2>1 DEF Pending
<1>2. id \in DOMAIN ledger /\ ledger[id].status = "planned" => Awaited(id) \/ Running(id)
  BY <1>1 DEF Pending
<1>3. calls' = calls /\ Awaited(id) => Awaited(id)'
  BY DEF Awaited
<1>4. callback.step \notin {"write", "undo", "applied", "failed", "switch"} => ~Running(id)
  BY DEF Running
<1>5. Idle => ~Running(id)
  BY DEF Running, Idle, NoCallback
<1>6. ASSUME NEW row, row \in Row, ledger' = Append(ledger, row)
      PROVE  /\ id # Len(ledger') => id \in DOMAIN ledger /\ ledger'[id] = ledger[id]
             /\ ledger'[Len(ledger')] = row
  BY <1>0, <1>1, <1>6, RowAdded
<1>7. ASSUME NEW a \in Assignments, NEW kind \in Kinds, Deny(a, kind) PROVE Awaited(id)'
  <2> DEFINE row == NewRow("failed", a, kind, {})
  <2>1. row \in Row /\ row.status = "failed"
    BY NewRowFacts, ExecutorAssumption DEF Statuses
  <2>2. ledger' = Append(ledger, row) /\ calls' = calls /\ Idle
    BY <1>7 DEF Deny
  <2> HIDE DEF row
  <2>3. QED
    BY <1>1, <1>2, <1>3, <1>5, <1>6, <2>1, <2>2
<1>8. ASSUME NEW a \in Assignments, NEW kind \in Kinds, NEW S \in Targets(kind, a), Plan(a, kind, S)
      PROVE  Awaited(id)' \/ Running(id)'
  <2> DEFINE row == NewRow("planned", a, kind, S)
  <2>1. S \in SUBSET Resources /\ kind \in AllKinds
    BY ExecutorAssumption DEF Targets, AllKinds, Resources
  <2>2. row \in Row
    BY <2>1, NewRowFacts DEF Statuses
  <2>3. ledger' = Append(ledger, row) /\ calls' = calls /\ Idle
    BY <1>8 DEF Plan
  <2> HIDE DEF row
  <2>4. CASE id # Len(ledger')
    BY <1>1, <1>2, <1>3, <1>5, <1>6, <2>2, <2>3, <2>4
  <2>5. CASE id = Len(ledger')
    BY <1>8, <2>5 DEF Plan, Running
  <2>6. QED
    BY <2>4, <2>5
<1>9. ASSUME ledger' = ledger, calls' = calls,
             callback.step \in {"write", "applied", "undo"} => callback'.id = callback.id,
             callback.step \in {"write", "applied", "undo"} =>
                callback'.step \in {"write", "applied", "undo", "failed"},
             callback.step \notin {"failed", "switch"}
      PROVE  Awaited(id)' \/ Running(id)'
  BY <1>1, <1>2, <1>3, <1>9 DEF Running
<1>10. CASE Write
  <2>1. /\ ledger' = ledger /\ calls' = calls /\ callback.step = "write"
        /\ callback \in [step : {"write"}, id : Nat, new : Evidence, before : Evidence]
    BY <1>0, <1>10, CallbackFacts DEF Write
  <2>2. PICK now :
          \/ callback' = [step |-> "applied", id |-> callback.id, before |-> now, after |-> callback.new]
          \/ callback' = [callback EXCEPT !.before = now]
    BY <1>10 DEF Write
  <2>3. [callback EXCEPT !.before = now].id = callback.id /\ [callback EXCEPT !.before = now].step = "write"
    BY <2>1
  <2>4. callback'.id = callback.id /\ callback'.step \in {"write", "applied"}
    <3>1. CASE callback' = [step |-> "applied", id |-> callback.id, before |-> now, after |-> callback.new]
      BY <3>1
    <3>2. CASE callback' = [callback EXCEPT !.before = now]
      BY <2>3, <3>2
    <3>3. QED
      BY <2>2, <3>1, <3>2
  <2>5. QED
    BY <1>9, <2>1, <2>4
<1>11. CASE WriteFails \/ WriteSpoils \/ UndoSpoils
  BY <1>9, <1>11 DEF WriteFails, WriteSpoils, UndoSpoils
<1>12. CASE Undo
  <2>1. /\ ledger' = ledger /\ calls' = calls /\ callback.step = "undo"
        /\ callback \in [step : {"undo"}, id : Nat, before : Evidence]
    BY <1>0, <1>12, CallbackFacts DEF Undo
  <2>2. callback'.id = callback.id /\ callback'.step \in {"undo", "failed"}
    <3>1. CASE callback.before = NoEvidence
      BY <1>12, <3>1 DEF Undo
    <3>2. CASE callback.before # NoEvidence
      BY <1>12, <2>1, <3>2 DEF Undo
    <3>3. QED
      BY <3>1, <3>2
  <2>3. QED
    BY <1>9, <2>1, <2>2
<1>13. ASSUME calls' = calls, callback.step \in {"applied", "failed", "rolledBack"},
              NEW row, row.status # "planned", ledger' = [ledger EXCEPT ![callback.id] = row]
       PROVE  Awaited(id)'
  <2>1. DOMAIN ledger' = DOMAIN ledger
    BY <1>13
  <2>2. id # callback.id /\ ledger'[id] = ledger[id]
    BY <1>1, <1>13, <2>1
  <2>3. QED
    BY <1>1, <1>2, <1>3, <1>13, <2>1, <2>2 DEF Running
<1>14. CASE RecordApplied
  <2> DEFINE row == AppliedRow(ledger[callback.id], callback.before, callback.after, clock)
  <2>1. /\ callback.step = "applied" /\ calls' = calls
        /\ ledger' = [ledger EXCEPT ![callback.id] = row]
    BY <1>14 DEF RecordApplied, AppliedRow
  <2>2. /\ ledger[callback.id] \in Row /\ callback.before \in Evidence /\ callback.after \in Evidence
        /\ clock \in Nat
    BY <1>0, <2>1, CallbackFacts DEF Typed, TypeOK, Fits, CallbackFits, UnderWay, Switches
  <2>3. row.status # "planned"
    BY <2>2, RowRecorded
  <2> HIDE DEF row
  <2>4. QED
    BY <1>13, <2>1, <2>3
<1>15. CASE RecordFailed
  <2> DEFINE row == [ledger[callback.id] EXCEPT !.status = "failed"]
  <2>1. callback.step = "failed" /\ calls' = calls /\ ledger' = [ledger EXCEPT ![callback.id] = row]
    BY <1>15 DEF RecordFailed
  <2>2. ledger[callback.id] \in Row
    BY <1>0, <2>1 DEF Typed, Fits, CallbackFits, UnderWay, Switches
  <2>3. row.status # "planned"
    BY <2>2 DEF Row
  <2> HIDE DEF row
  <2>4. QED
    BY <1>13, <2>1, <2>3
<1>16. CASE RecordRolledBack
  <2> DEFINE row == [ledger[callback.id] EXCEPT !.status = "rolled_back"]
  <2>1. /\ callback.step = "rolledBack" /\ calls' = calls
        /\ ledger' = [ledger EXCEPT ![callback.id] = row] \/ ledger' = ledger
    BY <1>16 DEF RecordRolledBack
  <2>2. ledger[callback.id] \in Row
    BY <1>0, <2>1 DEF Typed, Fits, CallbackFits
  <2>3. row.status # "planned"
    BY <2>2 DEF Row
  <2> HIDE DEF row
  <2>4. CASE ledger' = ledger
    BY <1>1, <1>2, <1>3, <1>4, <2>1, <2>4
  <2>5. QED
    BY <1>13, <2>1, <2>3, <2>4
<1>17. ASSUME NEW n \in DOMAIN ledger, Rollback(n) PROVE Awaited(id)'
  BY <1>1, <1>2, <1>3, <1>5, <1>17 DEF Rollback
<1>18. CASE Restore \/ RestoreFails \/ RestoreSpoils
  BY <1>1, <1>2, <1>3, <1>4, <1>18 DEF Restore, RestoreFails, RestoreSpoils
<1>19. CASE Switch
  <2>1. /\ callback.step = "switch" /\ ledger' = ledger
        /\ callback \in [step : {"switch"}, id : Nat, back : BOOLEAN, want : BOOLEAN]
    BY <1>0, <1>19, CallbackFacts DEF Switch
  <2> DEFINE old == store[ChannelOf(callback.id)]
  <2>2. CASE callback.want
    <3>1. calls' = calls /\ callback' = Updated(callback.id, callback.back, old, callback.want)
      BY <1>19, <2>2 DEF Switch
    <3>2. CASE callback.back
      BY <1>1, <1>2, <1>3, <2>1, <3>1, <3>2 DEF Running
    <3>3. CASE ~callback.back
      <4>1. callback'.step = "applied" /\ callback'.id = callback.id
        BY <3>1, <3>3 DEF Updated
      <4>2. QED
        BY <1>1, <1>2, <1>3, <2>1, <3>1, <4>1 DEF Running
    <3>4. QED
      BY <3>2, <3>3
  <2>3. CASE ~callback.want
    <3> DEFINE new == [id |-> callback.id, back |-> callback.back, restore |-> old]
    <3>1. calls' = Append(calls, new)
      BY <1>19, <2>3 DEF Switch
    <3>2. calls' \in Seq(Call) /\ new.id = callback.id /\ new.back = callback.back
      BY DEF Typed, TypeOK
    <3> HIDE DEF new
    <3>3. /\ Len(calls') = Len(calls) + 1 /\ calls'[Len(calls) + 1] = new
          /\ \A i \in 1..Len(calls) : calls'[i] = calls[i]
      BY <1>0, <3>1
    <3>4. DOMAIN calls' = 1..(Len(calls) + 1)
      BY <3>2, <3>3, LenProperties
    <3>5. CASE Awaited(id)
      BY <1>0, <3>3, <3>4, <3>5 DEF Awaited
    <3>6. CASE Running(id)
      BY <1>0, <2>1, <3>2, <3>3, <3>4, <3>6 DEF Awaited, Running
    <3>7. QED
      BY <1>1, <1>2, <2>1, <3>5, <3>6
  <2>4. QED
    BY <2>2, <2>3
<1>20. ASSUME NEW i \in DOMAIN calls, CallReturns(i) \/ CallFails(i) PROVE Awaited(id)' \/ Running(id)'
  <2>1. calls' = RemoveAt(calls, i) /\ ledger' = ledger /\ Idle
    BY <1>20 DEF CallReturns, CallFails
  <2>2. PICK k \in DOMAIN calls : calls[k].id = id /\ ~calls[k].back
    BY <1>1, <1>2, <1>5, <2>1 DEF Awaited
  <2>3. CASE k # i
    <3>1. \E j \in DOMAIN calls' : calls'[j] = calls[k]
      BY <1>0, <2>1, <2>3, CallRemoved
    <3>2. QED
      BY <2>2, <3>1 DEF Awaited
  <2>4. CASE k = i
    <3>1. callback'.step \in {"applied", "failed"} /\ callback'.id = id
      BY <1>20, <2>2, <2>4 DEF CallReturns, CallFails, Updated
    <3>2. QED
      BY <3>1 DEF Running
  <2>5. QED
    BY <2>3, <2>4
<1>21. ASSUME UNCHANGED <<ledger, calls, callback>> PROVE Awaited(id)' \/ Running(id)'
  BY <1>1, <1>2, <1>3, <1>21 DEF Running
<1>22. CASE CrashAndRestart
  BY <1>1, <1>22 DEF CrashAndRestart
<1>23. QED
  BY <1>7, <1>8, <1>10, <1>11, <1>12, <1>14, <1>15, <1>16, <1>17, <1>18, <1>19, <1>20, <1>21, <1>22
  DEF Next, Requests, CallbackStep, OperatorWrites, Tick, vars

\* A row is left "planned" by a dead process only: while it lives somebody is about to
\* settle every planned row, however requests, failures and awaited updates overlap.
THEOREM PlannedIsPendingAlways == Spec => []PlannedIsPending
<1>1. Init => Typed /\ Pending
  BY TypeInit DEF Init, Pending
<1>2. Typed /\ Pending /\ [Next]_vars => Typed' /\ Pending'
  BY TypeKept, PendingKept
<1>3. Pending => PlannedIsPending
  BY DEF Pending, PlannedIsPending, Awaited, Running, Idle, NoCallback
<1>4. QED
  BY <1>1, <1>2, <1>3, PTL DEF Spec

-----------------------------------------------------------------------------
(* The steps of the ledger *)

\* The two rows are of the same mutation.
Same(row, old) ==
    row.kind = old.kind /\ row.assignment = old.assignment /\ row.resources = old.resources

\* A step leaves the ledger as it is, or adds a row that is not applied, or settles the
\* row of the request being run.
LEMMA LedgerSteps ==
    ASSUME Typed, [Next]_vars
    PROVE  \/ ledger' = ledger
           \/ Idle /\ \E row \in Row : row.status \in {"failed", "planned"} /\ ledger' = Append(ledger, row)
           \/ /\ callback.id \in DOMAIN ledger /\ callback' = NoCallback
              /\ callback.step = "rolledBack" => ledger[callback.id].status = "applied"
              /\ \E row \in Row :
                   /\ Same(row, ledger[callback.id]) /\ row.status # "planned"
                   /\ callback.step \in {"applied", "failed", "rolledBack"}
                   /\ row.status = "applied" => row.appliedAt = clock /\ callback.step = "applied"
                   /\ ledger' = [ledger EXCEPT ![callback.id] = row]
<1>0. /\ callback \in Callback /\ \A n \in DOMAIN ledger : ledger[n] \in Row
      /\ clock \in Nat /\ CallbackFits
  BY RowsOf DEF Typed, TypeOK, Fits
<1>1. CASE ledger' = ledger
  BY <1>1
<1>2. ASSUME NEW a \in Assignments, NEW kind \in Kinds, Deny(a, kind)
      PROVE  Idle /\ \E row \in Row : row.status \in {"failed", "planned"} /\ ledger' = Append(ledger, row)
  <2>1. NewRow("failed", a, kind, {}) \in Row /\ NewRow("failed", a, kind, {}).status = "failed"
    BY NewRowFacts, ExecutorAssumption DEF Statuses
  <2>2. Idle /\ ledger' = Append(ledger, NewRow("failed", a, kind, {}))
    BY <1>2 DEF Deny
  <2>3. QED
    BY <2>1, <2>2
<1>3. ASSUME NEW a \in Assignments, NEW kind \in Kinds, NEW S \in Targets(kind, a), Plan(a, kind, S)
      PROVE  Idle /\ \E row \in Row : row.status \in {"failed", "planned"} /\ ledger' = Append(ledger, row)
  <2>1. S \in SUBSET Resources /\ kind \in AllKinds
    BY ExecutorAssumption DEF Targets, AllKinds, Resources
  <2>2. NewRow("planned", a, kind, S) \in Row /\ NewRow("planned", a, kind, S).status = "planned"
    BY <2>1, NewRowFacts DEF Statuses
  <2>3. Idle /\ ledger' = Append(ledger, NewRow("planned", a, kind, S))
    BY <1>3 DEF Plan
  <2>4. QED
    BY <2>2, <2>3
<1>4. ASSUME NEW row \in Row, Same(row, ledger[callback.id]), row.status # "planned",
             callback.step \in {"applied", "failed", "rolledBack"}, callback' = NoCallback,
             callback.id \in DOMAIN ledger,
             callback.step = "rolledBack" => ledger[callback.id].status = "applied",
             row.status = "applied" => row.appliedAt = clock /\ callback.step = "applied",
             ledger' = [ledger EXCEPT ![callback.id] = row]
      PROVE  /\ callback.id \in DOMAIN ledger /\ callback' = NoCallback
             /\ callback.step = "rolledBack" => ledger[callback.id].status = "applied"
             /\ \E new \in Row :
                  /\ Same(new, ledger[callback.id]) /\ new.status # "planned"
                  /\ callback.step \in {"applied", "failed", "rolledBack"}
                  /\ new.status = "applied" => new.appliedAt = clock /\ callback.step = "applied"
                  /\ ledger' = [ledger EXCEPT ![callback.id] = new]
  BY <1>4
<1>5. CASE RecordApplied
  <2> DEFINE row == AppliedRow(ledger[callback.id], callback.before, callback.after, clock)
  <2>1. /\ callback.step = "applied" /\ callback' = NoCallback
        /\ ledger' = [ledger EXCEPT ![callback.id] = row]
    BY <1>5 DEF RecordApplied, AppliedRow
  <2>2. /\ callback.id \in DOMAIN ledger /\ ledger[callback.id] \in Row
        /\ callback.before \in Evidence /\ callback.after \in Evidence
    BY <1>0, <2>1, CallbackFacts DEF CallbackFits, UnderWay, Switches
  <2>3. row \in Row /\ Same(row, ledger[callback.id]) /\ row.status = "applied" /\ row.appliedAt = clock
    BY <1>0, <2>2, RowRecorded DEF Same
  <2> HIDE DEF row
  <2>4. QED
    BY <1>4, <2>1, <2>2, <2>3
<1>6. CASE RecordFailed
  <2> DEFINE row == [ledger[callback.id] EXCEPT !.status = "failed"]
  <2>1. /\ callback.step = "failed" /\ callback' = NoCallback
        /\ ledger' = [ledger EXCEPT ![callback.id] = row]
    BY <1>6 DEF RecordFailed
  <2>2. callback.id \in DOMAIN ledger /\ ledger[callback.id] \in Row
    BY <1>0, <2>1 DEF CallbackFits, UnderWay, Switches
  <2>3. row \in Row /\ Same(row, ledger[callback.id]) /\ row.status = "failed"
    BY <2>2, RowSettled DEF Same, Statuses
  <2> HIDE DEF row
  <2>4. QED
    BY <1>4, <2>1, <2>2, <2>3
<1>7. CASE RecordRolledBack
  <2> DEFINE row == [ledger[callback.id] EXCEPT !.status = "rolled_back"]
  <2>1. /\ callback.step = "rolledBack" /\ callback' = NoCallback
        /\ ledger' = IF ledger[callback.id].status = "applied"
                       THEN [ledger EXCEPT ![callback.id] = row] ELSE ledger
    BY <1>7 DEF RecordRolledBack
  <2>2. callback.id \in DOMAIN ledger /\ ledger[callback.id] \in Row
    BY <1>0, <2>1 DEF CallbackFits
  <2>3. row \in Row /\ Same(row, ledger[callback.id]) /\ row.status = "rolled_back"
    BY <2>2, RowSettled DEF Same, Statuses
  <2> HIDE DEF row
  <2>4. QED
    BY <1>1, <1>4, <2>1, <2>2, <2>3
<1>8. QED
  BY <1>1, <1>2, <1>3, <1>5, <1>6, <1>7 DEF Next, Requests, CallbackStep, Write, WriteFails, WriteSpoils, Undo, UndoSpoils, Rollback,
     Restore, RestoreFails, RestoreSpoils, Switch, CallReturns, CallFails, OperatorWrites, Tick, CrashAndRestart, vars

\* No row is lost, or given to another mutation.
LEMMA RowsKept ==
    ASSUME Typed, [Next]_vars, NEW id \in DOMAIN ledger
    PROVE  id \in DOMAIN ledger' /\ Same(ledger'[id], ledger[id])
<1>0. ledger \in Seq(Row) /\ DOMAIN ledger = 1..Len(ledger) /\ Same(ledger[id], ledger[id])
  BY RowsOf DEF Typed, TypeOK, Same
<1>1. CASE ledger' = ledger
  BY <1>0, <1>1
<1>2. ASSUME NEW row \in Row, ledger' = Append(ledger, row)
      PROVE  id \in DOMAIN ledger' /\ Same(ledger'[id], ledger[id])
  BY <1>0, <1>2, RowAdded
<1>3. ASSUME NEW row \in Row, Same(row, ledger[callback.id]), callback.id \in DOMAIN ledger,
             ledger' = [ledger EXCEPT ![callback.id] = row]
      PROVE  id \in DOMAIN ledger' /\ Same(ledger'[id], ledger[id])
  BY <1>0, <1>3, RowReplaced
<1>4. QED
  BY <1>1, <1>2, <1>3, LedgerSteps

-----------------------------------------------------------------------------
(* The order of the ledger *)

\* A mutation is recorded as applied after all those of the rows before its own.
LEMMA OrderKept ==
    ASSUME Typed, Typed', Ordered, [Next]_vars
    PROVE  Ordered'
<1>0. /\ ledger \in Seq(Row) /\ DOMAIN ledger = 1..Len(ledger) /\ Len(ledger) \in Nat
      /\ \A n \in DOMAIN ledger : ledger[n] \in Row /\ ledger[n].appliedAt \in Nat
      /\ clock \in Nat /\ clock' \in Nat /\ CallbackFits
  <2>1. /\ ledger \in Seq(Row) /\ clock \in Nat /\ clock' \in Nat /\ CallbackFits
    BY DEF Typed, TypeOK, Fits
  <2>2. \A row \in Row : row.appliedAt \in Nat
    BY DEF Row
  <2>3. QED
    BY <2>1, <2>2, RowsOf
<1>1. clock <= clock'
  BY <1>0 DEF Next, Requests, CallbackStep, Deny, Plan, Write, WriteFails, WriteSpoils, Undo, UndoSpoils, RecordApplied,
         RecordFailed, Rollback, Restore, RestoreFails, RestoreSpoils, RecordRolledBack, Switch, CallReturns, CallFails,
         OperatorWrites, Tick, CrashAndRestart, vars
<1>2. ASSUME \A j \in DOMAIN ledger' : Done(j)' =>
                Done(j) /\ ledger'[j].appliedAt = ledger[j].appliedAt
      PROVE  Ordered'
  <2>1. \A j : Done(j) => j \in DOMAIN ledger
    BY DEF Done
  <2>2. ASSUME NEW j \in DOMAIN ledger', Done(j)' PROVE ledger'[j].appliedAt <= clock'
    <3>1. Done(j) /\ ledger'[j].appliedAt = ledger[j].appliedAt /\ j \in DOMAIN ledger
      BY <1>2, <2>1, <2>2
    <3>2. ledger[j].appliedAt <= clock /\ ledger[j].appliedAt \in Nat
      BY <1>0, <3>1 DEF Ordered
    <3>3. QED
      BY <1>0, <1>1, <3>1, <3>2
  <2>3. ASSUME NEW j \in DOMAIN ledger', Done(j)', NEW i \in DOMAIN ledger', Done(i)', i < j
        PROVE  ledger'[i].appliedAt <= ledger'[j].appliedAt
    <3>1. /\ Done(i) /\ ledger'[i].appliedAt = ledger[i].appliedAt /\ i \in DOMAIN ledger
          /\ Done(j) /\ ledger'[j].appliedAt = ledger[j].appliedAt /\ j \in DOMAIN ledger
      BY <1>2, <2>1, <2>3
    <3>2. QED
      BY <2>3, <3>1 DEF Ordered
  <2>4. QED
    BY <2>2, <2>3 DEF Ordered
<1>3. CASE ledger' = ledger
  BY <1>2, <1>3 DEF Done
<1>4. ASSUME NEW row \in Row, row.status \in {"failed", "planned"}, ledger' = Append(ledger, row)
      PROVE  Ordered'
  <2>1. \A j \in DOMAIN ledger' : (j \in DOMAIN ledger /\ ledger'[j] = ledger[j]) \/ ledger'[j] = row
    BY <1>0, <1>4, RowAdded
  <2>2. QED
    BY <1>2, <1>4, <2>1 DEF Done
<1>5. ASSUME NEW row \in Row, callback.id \in DOMAIN ledger, Same(row, ledger[callback.id]),
             row.status = "applied" => row.appliedAt = clock /\ callback.step = "applied",
             ledger' = [ledger EXCEPT ![callback.id] = row]
      PROVE  Ordered'
  <2> DEFINE id == callback.id
  <2>1. /\ DOMAIN ledger' = DOMAIN ledger
        /\ \A j \in DOMAIN ledger : ledger'[j] = IF j = id THEN row ELSE ledger[j]
    BY <1>0, <1>5, RowReplaced
  <2>2. CASE row.status # "applied" \/ row.kind = "channel_state"
    BY <1>2, <2>1, <2>2 DEF Done
  <2>3. CASE row.status = "applied" /\ row.kind # "channel_state"
    <3>1. id = Len(ledger) /\ row.appliedAt = clock
      BY <1>0, <1>5, <2>3 DEF CallbackFits, UnderWay, Switches, Same
    <3> HIDE DEF id
    <3>2. \A j \in DOMAIN ledger \ {id} : Done(j)' <=> Done(j)
      BY <2>1 DEF Done
    <3>3. \A j \in DOMAIN ledger : j < id => j \in DOMAIN ledger \ {id}
      BY <1>0, <3>1
    <3>4. \A j \in DOMAIN ledger : j <= id
      BY <1>0, <3>1
    <3>5. ASSUME NEW j \in DOMAIN ledger, Done(j)' PROVE ledger'[j].appliedAt <= clock
      <4>1. CASE j = id
        BY <1>0, <2>1, <3>1, <4>1
      <4>2. CASE j # id
        BY <2>1, <3>2, <3>5, <4>2 DEF Ordered
      <4>3. QED
        BY <4>1, <4>2
    <3>6. ASSUME NEW j \in DOMAIN ledger, Done(j)' PROVE ledger'[j].appliedAt <= clock'
      <4>1. ledger'[j].appliedAt \in Nat
        BY <1>0, <2>1, <3>1
      <4>2. QED
        BY <1>0, <1>1, <3>5, <3>6, <4>1
    <3>7. ASSUME NEW j \in DOMAIN ledger, Done(j)', NEW i \in DOMAIN ledger, Done(i)', i < j
          PROVE  ledger'[i].appliedAt <= ledger'[j].appliedAt
      <4>1. CASE j = id
        BY <2>1, <3>1, <3>5, <3>7, <4>1
      <4>2. CASE j # id
        <5>1. i # id
          BY <1>0, <3>4, <3>7
        <5>2. Done(i) /\ Done(j) /\ ledger'[i] = ledger[i] /\ ledger'[j] = ledger[j]
          BY <2>1, <3>2, <3>7, <4>2, <5>1
        <5>3. QED
          BY <3>7, <5>2 DEF Ordered
      <4>3. QED
        BY <4>1, <4>2
    <3>8. QED
      BY <2>1, <3>6, <3>7 DEF Ordered
  <2>4. QED
    BY <2>2, <2>3
<1>6. QED
  BY <1>3, <1>4, <1>5, LedgerSteps

-----------------------------------------------------------------------------
(* The trace of a resource *)

\* What a row names, and whom it belongs to, once a step is taken.
LEMMA TrackedBefore ==
    ASSUME Typed, [Next]_vars, NEW r \in Resources, Tracked(r)'
    PROVE  Tracked(r)
<1> DEFINE Runs(id) == callback.step \in {"write", "undo", "applied", "failed"} /\ callback.id = id
<1>0. /\ ledger \in Seq(Row) /\ DOMAIN ledger = 1..Len(ledger) /\ Len(ledger) \in Nat
      /\ callback \in Callback /\ CallbackFits
      /\ \A n \in DOMAIN ledger : Shape(ledger[n])
      /\ \A i \in DOMAIN calls : Switches(calls[i].id)
  BY RowsOf DEF Typed, TypeOK, Fits
<1>1. \A id \in DOMAIN ledger : id \in DOMAIN ledger' /\ Same(ledger'[id], ledger[id])
  BY RowsKept
<1>2. r \notin Channels /\ r \notin operated /\ r \notin stray
  BY DEF Spoil, Tracked, Next, Requests, CallbackStep, Deny, Plan, Write, WriteFails, WriteSpoils, Undo, UndoSpoils, RecordApplied,
         RecordFailed, Rollback, Restore, RestoreFails, RestoreSpoils, RecordRolledBack, Switch, CallReturns, CallFails,
         OperatorWrites, Tick, CrashAndRestart, vars
<1>3. ~Contested(r)
  BY <1>1 DEF Tracked, Contested, Names, Same
<1>4. \A id : Switches(id) => ~Names(id, r)
  BY <1>0, <1>2 DEF Switches, Shape, Names
<1>5. ASSUME NEW id \in DOMAIN ledger, ledger[id].status = "planned", Names(id, r)
      PROVE  Runs(id)
  <2>1. id \in DOMAIN ledger' /\ ledger'[id].resources = ledger[id].resources
    BY <1>1 DEF Same
  <2>2. CASE ledger'[id].status = "planned"
    <3>1. Runs(id)'
      BY <1>5, <2>1, <2>2 DEF Tracked, Names
    <3>2. ASSUME NEW a \in Assignments, NEW kind \in Kinds, NEW S \in Targets(kind, a), Plan(a, kind, S)
          PROVE  FALSE
      <4>1. callback'.id = Len(ledger') /\ ledger' = Append(ledger, NewRow("planned", a, kind, S))
        BY <3>2 DEF Plan
      <4>2. Len(ledger') = Len(ledger) + 1
        BY <4>1
      <4>3. QED
        BY <1>0, <3>1, <4>1, <4>2
    <3>3. CASE Write
      BY <3>1, <3>3, <1>0, CallbackFacts DEF Write
    <3>4. CASE WriteFails \/ WriteSpoils \/ UndoSpoils
      BY <3>1, <3>4 DEF WriteFails, WriteSpoils, UndoSpoils
    <3>5. CASE Undo
      <4>1. callback \in [step : {"undo"}, id : Nat, before : Evidence]
        BY <1>0, <3>5, CallbackFacts DEF Undo
      <4>2. \/ callback' = [step |-> "failed", id |-> callback.id]
            \/ \E rest : callback' = [callback EXCEPT !.before = rest]
        BY <3>5 DEF Undo
      <4>3. \A rest : [callback EXCEPT !.before = rest].id = callback.id
        BY <4>1
      <4>4. callback'.id = callback.id
        <5>1. CASE callback' = [step |-> "failed", id |-> callback.id]
          BY <5>1
        <5>2. ASSUME NEW rest, callback' = [callback EXCEPT !.before = rest]
              PROVE  callback'.id = callback.id
          BY <4>3, <5>2
        <5>3. QED
          BY <4>2, <5>1, <5>2
      <4>5. QED
        BY <3>1, <3>5, <4>4 DEF Undo
    <3>6. CASE Restore
      BY <3>1, <3>6, <1>0, CallbackFacts DEF Restore
    <3>7. CASE Switch
      <4>1. callback.step = "switch" /\ Switches(callback.id)
        BY <1>0, <3>7 DEF Switch, CallbackFits
      <4>2. callback' = NoCallback \/ callback'.id = callback.id
        BY <3>7 DEF Switch, Updated
      <4>3. QED
        BY <1>4, <1>5, <3>1, <4>1, <4>2 DEF NoCallback
    <3>8. ASSUME NEW i \in DOMAIN calls, CallReturns(i) \/ CallFails(i) PROVE FALSE
      <4>1. callback' = NoCallback \/ callback'.id = calls[i].id
        BY <3>8 DEF CallReturns, CallFails, Updated
      <4>2. QED
        BY <1>0, <1>4, <1>5, <3>1, <4>1 DEF NoCallback
    <3>9. ASSUME NEW n \in DOMAIN ledger, Rollback(n) PROVE FALSE
      BY <3>1, <3>9 DEF Rollback
    <3>10. QED
      BY <3>1, <3>2, <3>3, <3>4, <3>5, <3>6, <3>7, <3>8, <3>9 DEF Next, Requests, CallbackStep, Deny,
         RecordApplied, RecordFailed, RestoreFails, RestoreSpoils, RecordRolledBack, OperatorWrites, Tick,
         CrashAndRestart, vars, NoCallback
  <2>3. CASE ledger'[id].status # "planned"
    <3>1. ledger' # ledger
      BY <1>5, <2>3
    <3>2. ~ \E row \in Row : ledger' = Append(ledger, row)
      BY <1>0, <1>5, <2>3, RowAdded
    <3>3. ASSUME NEW row \in Row, callback.id \in DOMAIN ledger,
                 callback.step = "rolledBack" => ledger[callback.id].status = "applied",
                 callback.step \in {"applied", "failed", "rolledBack"},
                 ledger' = [ledger EXCEPT ![callback.id] = row]
          PROVE  Runs(id)
      BY <1>0, <1>5, <2>3, <3>3, RowReplaced
    <3>4. QED
      BY <3>1, <3>2, <3>3, LedgerSteps
  <2>4. QED
    BY <2>2, <2>3
<1>6. QED
  BY <1>2, <1>3, <1>5 DEF Tracked

\* While the applied rows of a resource stay as they are, so does what they say of it.
LEMMA Frame ==
    ASSUME NEW r, Applied(r)' = Applied(r),
           \A n \in Applied(r) :
              ledger'[n].before[r] = ledger[n].before[r] /\ ledger'[n].after[r] = ledger[n].after[r]
    PROVE  /\ Chain(r) => Chain(r)'
           /\ \A v : Standing(r, v) => LeftBy(ledger', Applied(r)', r, v)
<1>1. ASSUME NEW N, N \subseteq Applied(r), NEW v, LeftBy(ledger, N, r, v)
      PROVE  LeftBy(ledger', N, r, v)
  BY <1>1 DEF LeftBy
<1>2. ASSUME NEW v, Standing(r, v) PROVE LeftBy(ledger', Applied(r)', r, v)
  BY <1>1, <1>2 DEF Standing
<1>3. ASSUME Chain(r), NEW id \in Applied(r)'
      PROVE  LeftBy(ledger', {n \in Applied(r)' : n < id}, r, ledger'[id].before[r])
  <2>1. LeftBy(ledger, {n \in Applied(r) : n < id}, r, ledger[id].before[r])
    BY <1>3 DEF Chain
  <2>2. ledger'[id].before[r] = ledger[id].before[r]
    OBVIOUS
  <2>3. QED
    BY <1>1, <2>1, <2>2
<1>4. QED
  BY <1>2, <1>3 DEF Chain

\* Of two mutations of a resource, that are not of a channel, the earlier one cannot be
\* rolled back while the later one is applied.
LEMMA LastIsRolledBack ==
    ASSUME Typed, Ordered, NEW r \in Resources, Tracked(r),
           NEW id \in Applied(r), NewerApplied(id) = {}
    PROVE  \A n \in Applied(r) : n <= id
<1> SUFFICES ASSUME NEW n \in Applied(r), ~(n <= id)
             PROVE  FALSE
  OBVIOUS
<1> DEFINE old == ledger[id]
           new == ledger[n]
<1>0. /\ DOMAIN ledger = 1..Len(ledger) /\ Len(ledger) \in Nat
      /\ id \in DOMAIN ledger /\ n \in DOMAIN ledger /\ old \in Row /\ new \in Row
      /\ old.status = "applied" /\ new.status = "applied" /\ r \in old.resources /\ r \in new.resources
      /\ Shape(old) /\ Shape(new)
  BY RowsOf DEF Typed, TypeOK, Fits, Applied, Names
<1>1. r \notin Channels /\ ~Contested(r)
  BY DEF Tracked
<1>2. /\ old.kind \in AllKinds /\ new.kind \in AllKinds /\ old.assignment \in Assignments
      /\ new.assignment \in Assignments /\ old.appliedAt \in Nat /\ new.appliedAt \in Nat
  BY <1>0 DEF Row
<1>3. old.kind # "channel_state" /\ new.kind # "channel_state"
  BY <1>0, <1>1 DEF Shape
<1>4. old.kind = "assignment_policy" =>
         new.kind = "assignment_policy" /\ old.assignment = new.assignment
  BY <1>0, <1>2, <1>3, ExecutorAssumption DEF Shape, AllKinds
<1>5. old.kind = "operator_settings" =>
         new.kind = "operator_settings" /\ old.assignment = new.assignment
  BY <1>0, <1>1, <1>2, <1>3, ExecutorAssumption DEF Shape, AllKinds, Contested, Names
<1>6. old.kind = "runtime_limits" => new.kind = "runtime_limits"
  BY <1>0, <1>2, <1>3, ExecutorAssumption DEF Shape, AllKinds
<1>7. old.kind = "project_file" => new.kind = "project_file"
  BY <1>0, <1>2, <1>3, ExecutorAssumption DEF Shape, AllKinds
<1>8. old.appliedAt <= new.appliedAt /\ id < n
  <2>1. Done(id) /\ Done(n)
    BY <1>0, <1>3 DEF Done
  <2>2. id < n
    BY <1>0
  <2>3. QED
    BY <1>0, <2>1, <2>2 DEF Ordered
<1>9. new.appliedAt > old.appliedAt \/ (new.appliedAt = old.appliedAt /\ n > id)
  BY <1>0, <1>2, <1>8
<1>10. new.kind = old.kind
  BY <1>2, <1>3, <1>4, <1>5, <1>6, <1>7 DEF AllKinds
<1>11. old.resources \cap new.resources # {} /\ new.resources \cap old.resources # {}
  BY <1>0
<1>12. CASE Scope(old.kind) = "assignment"
  <2>1. old.assignment = new.assignment
    BY <1>2, <1>3, <1>4, <1>5, <1>12 DEF AllKinds, Scope
  <2>2. n \in NewerApplied(id)
    BY <1>0, <1>9, <1>10, <1>12, <2>1 DEF NewerApplied
  <2>3. QED
    BY <2>2
<1>13. CASE Scope(old.kind) = "affected_resources"
  <2>1. n \in NewerApplied(id)
    BY <1>0, <1>9, <1>10, <1>11, <1>13 DEF NewerApplied
  <2>2. QED
    BY <2>1
<1>14. CASE Scope(old.kind) \notin {"assignment", "affected_resources"}
  <2>1. n \in NewerApplied(id)
    BY <1>0, <1>9, <1>10, <1>14 DEF NewerApplied
  <2>2. QED
    BY <2>1
<1>15. QED
  BY <1>12, <1>13, <1>14

\* Whoever works on a resource, its applied rows account for what it holds.
LEMMA TraceKept ==
    ASSUME Typed, Typed', Ordered, Trace, [Next]_vars
    PROVE  Trace'
<1> SUFFICES ASSUME NEW r \in Resources, Tracked(r)'
             PROVE  Traced(r)'
  BY DEF Trace
<1> DEFINE Stands(v) == LeftBy(ledger', Applied(r)', r, v)
<1>1. Tracked(r) /\ Traced(r)
  BY TrackedBefore DEF Trace
<1>2. /\ ledger \in Seq(Row) /\ DOMAIN ledger = 1..Len(ledger) /\ Len(ledger) \in Nat
      /\ \A n \in DOMAIN ledger : ledger[n] \in Row /\ Shape(ledger[n])
      /\ store \in [Resources -> Contents] /\ callback \in Callback /\ CallbackFits
      /\ \A i \in DOMAIN calls : Switches(calls[i].id)
  BY RowsOf DEF Typed, TypeOK, Fits
<1>3. r \notin Channels /\ r \notin operated' /\ r \notin stray'
  BY DEF Tracked
\* What fails leaves other files anyhow.
<1>31. ASSUME NEW q, NEW S, Spoil(q, S), q \in S
       PROVE  store'[r] = store[r] /\ r \notin S
  BY <1>2, <1>3, <1>31 DEF Spoil
<1>4. \A id : Switches(id) => r \notin ledger[id].resources
  BY <1>2, <1>3 DEF Switches, Shape
<1>5. ASSUME ledger' = ledger
      PROVE  /\ Applied(r)' = Applied(r) /\ Chain(r)'
             /\ \A v : Standing(r, v) => Stands(v)
  <2>1. Applied(r)' = Applied(r)
    BY <1>5 DEF Applied, Names
  <2>2. QED
    BY <1>1, <1>5, <2>1, Frame DEF Traced, Standing
\* A step that does not concern r.
<1>6. ASSUME Chain(r)', \A v : Standing(r, v) => Stands(v),
             store'[r] = store[r], ~Written(r), ~Written(r)', ~Reverting(r)'
      PROVE  Traced(r)'
  <2>1. Standing(r, store[r])
    BY <1>1, <1>6 DEF Traced, Standing
  <2>2. Stands(store'[r])
    BY <1>6, <2>1
  <2>3. QED
    BY <1>6, <2>2 DEF Traced, Standing
<1>7. Idle => ~Written(r) /\ ~Reverting(r)
  BY DEF Idle, NoCallback, Written, Reverting
<1>8. Idle' => ~Written(r)' /\ ~Reverting(r)'
  BY DEF Idle, NoCallback, Written, Reverting
<1>9. ASSUME NEW row \in Row, row.status \in {"failed", "planned"}, ledger' = Append(ledger, row)
      PROVE  Chain(r)' /\ \A v : Standing(r, v) => Stands(v)
  <2>1. /\ DOMAIN ledger' = DOMAIN ledger \cup {Len(ledger) + 1}
        /\ \A n \in DOMAIN ledger : ledger'[n] = ledger[n]
        /\ ledger'[Len(ledger) + 1] = row
    BY <1>2, <1>9, RowAdded
  <2>2. Applied(r)' = Applied(r)
    BY <1>9, <2>1 DEF Applied, Names
  <2>3. \A n \in Applied(r) : ledger'[n] = ledger[n]
    BY <2>1 DEF Applied
  <2>4. QED
    BY <1>1, <2>2, <2>3, Frame DEF Traced, Standing
<1>10. ASSUME NEW a \in Assignments, NEW kind \in Kinds, Deny(a, kind) PROVE Traced(r)'
  <2>1. Idle /\ Idle' /\ store' = store /\ ledger' # ledger
    <3>1. Idle /\ store' = store /\ callback' = callback /\ ledger' = Append(ledger, NewRow("failed", a, kind, {}))
      BY <1>10 DEF Deny
    <3>2. Len(ledger') = Len(ledger) + 1
      BY <3>1
    <3>3. ledger' # ledger
      BY <1>2, <3>2
    <3>4. QED
      BY <3>1, <3>3 DEF Idle
  <2>2. \E row \in Row : row.status \in {"failed", "planned"} /\ ledger' = Append(ledger, row)
    BY <2>1, LedgerSteps DEF Idle, NoCallback
  <2>3. QED
    BY <1>6, <1>7, <1>8, <1>9, <2>1, <2>2
<1>11. ASSUME NEW a \in Assignments, NEW kind \in Kinds, NEW S \in Targets(kind, a), Plan(a, kind, S)
       PROVE  Traced(r)'
  <2>1. Idle /\ store' = store /\ ledger' # ledger
    <3>1. Idle /\ store' = store /\ ledger' = Append(ledger, NewRow("planned", a, kind, S))
      BY <1>11 DEF Plan
    <3>2. Len(ledger') = Len(ledger) + 1
      BY <3>1
    <3>3. ledger' # ledger
      BY <1>2, <3>2
    <3>4. QED
      BY <3>1, <3>3
  <2>2. \E row \in Row : row.status \in {"failed", "planned"} /\ ledger' = Append(ledger, row)
    BY <2>1, LedgerSteps DEF Idle, NoCallback
  <2>3. callback'.step = "switch" \/ (callback'.step = "write" /\ callback'.before = NoEvidence)
    BY <1>11 DEF Plan
  <2>4. ~Written(r)' /\ ~Reverting(r)'
    BY <2>3 DEF Written, Reverting, NoEvidence
  <2>5. QED
    BY <1>6, <1>7, <1>9, <2>1, <2>2, <2>4
<1>12. CASE Write
  <2> DEFINE Now(q) == [p \in DOMAIN callback.before \cup {q} |->
                          IF p = q THEN store[q] ELSE callback.before[p]]
  <2>1. PICK q \in DOMAIN callback.new \ DOMAIN callback.before :
          /\ store' = [store EXCEPT ![q] = callback.new[q]]
          /\ callback' = IF Now(q) \in [DOMAIN callback.new -> Contents]
                           THEN [step |-> "applied", id |-> callback.id, before |-> Now(q),
                                 after |-> callback.new]
                           ELSE [callback EXCEPT !.before = Now(q)]
    BY <1>12 DEF Write
  <2> DEFINE now == Now(q)
  <2>2. callback.step = "write" /\ ledger' = ledger
    BY <1>12 DEF Write
  <2>3. callback \in [step : {"write"}, id : Nat, new : Evidence, before : Evidence]
    BY <1>2, <2>2, CallbackFacts
  <2>4. /\ DOMAIN now = DOMAIN callback.before \cup {q} /\ now[q] = store[q]
        /\ \A p \in DOMAIN callback.before : now[p] = callback.before[p]
    BY <2>1
  <2>5. /\ callback'.before = now /\ callback'.step \in {"write", "applied"}
        /\ callback'.step = "write" => callback'.new = callback.new
        /\ callback'.step = "applied" => callback'.after = callback.new
    <3> HIDE DEF now
    <3>1. CASE now \in [DOMAIN callback.new -> Contents]
      <4>1. callback' = [step |-> "applied", id |-> callback.id, before |-> now, after |-> callback.new]
        BY <2>1, <3>1 DEF now
      <4>2. QED
        BY <4>1
    <3>2. CASE now \notin [DOMAIN callback.new -> Contents]
      <4>1. callback' = [callback EXCEPT !.before = now]
        BY <2>1, <3>2 DEF now
      <4>2. callback' = [step |-> "write", id |-> callback.id, new |-> callback.new, before |-> now]
        BY <2>3, <4>1
      <4>3. QED
        BY <4>2
    <3>3. QED
      BY <3>1, <3>2
  <2> HIDE DEF now
  <2>6. ~Reverting(r)'
    BY <2>5 DEF Reverting
  <2>7. CASE r = q
    <3>1. ~Written(r)
      BY <2>1, <2>7 DEF Written
    <3>2. Standing(r, store[r])
      BY <1>1, <3>1 DEF Traced, Standing
    <3>3. Stands(now[r]) /\ Written(r)'
      BY <1>5, <2>2, <2>4, <2>5, <2>7, <3>2 DEF Written
    <3>4. store'[r] = callback.new[r]
      BY <1>2, <2>1, <2>7
    <3>5. QED
      BY <1>5, <2>2, <2>5, <2>6, <3>3, <3>4 DEF Traced, Standing
  <2>8. CASE r # q
    <3>1. store'[r] = store[r]
      BY <1>2, <2>1, <2>8
    <3>2. Written(r)' <=> Written(r)
      BY <2>2, <2>4, <2>5, <2>8 DEF Written
    <3>3. CASE ~Written(r)
      BY <1>5, <1>6, <2>2, <2>6, <3>1, <3>2, <3>3
    <3>4. CASE Written(r)
      <4>1. /\ Standing(r, callback.before[r]) /\ store[r] = callback.new[r]
            /\ now[r] = callback.before[r]
        BY <1>1, <2>2, <2>4, <3>4 DEF Traced, Written
      <4>2. Stands(now[r])
        BY <1>5, <2>2, <4>1
      <4>3. QED
        BY <1>5, <2>2, <2>5, <2>6, <3>1, <3>2, <3>4, <4>1, <4>2 DEF Traced, Standing
    <3>5. QED
      BY <3>3, <3>4
  <2>9. QED
    BY <2>7, <2>8
<1>13. CASE WriteFails
  <2>1. /\ callback.step \in {"write", "applied"} /\ ledger' = ledger /\ store' = store
        /\ callback'.step = "undo" /\ callback'.before = callback.before
    BY <1>13 DEF WriteFails
  <2>2. (Written(r)' <=> Written(r)) /\ ~Reverting(r)'
    BY <2>1 DEF Written, Reverting
  <2>3. CASE ~Written(r)
    BY <1>5, <1>6, <2>1, <2>2, <2>3
  <2>4. CASE Written(r)
    <3>1. Standing(r, callback.before[r])
      BY <1>1, <2>4 DEF Traced, Standing
    <3>2. Stands(callback'.before[r])
      BY <1>5, <2>1, <3>1
    <3>3. QED
      BY <1>5, <2>1, <2>2, <2>4, <3>2 DEF Traced, Standing
  <2>5. QED
    BY <2>3, <2>4
<1>131. CASE WriteSpoils
  <2>1. /\ callback.step = "write" /\ ledger' = ledger
        /\ callback'.step = "undo" /\ callback'.before = callback.before
    BY <1>131 DEF WriteSpoils
  <2>2. store'[r] = store[r]
    BY <1>131, <1>31 DEF WriteSpoils
  <2>3. (Written(r)' <=> Written(r)) /\ ~Reverting(r)'
    BY <2>1 DEF Written, Reverting
  <2>4. CASE ~Written(r)
    BY <1>5, <1>6, <2>1, <2>2, <2>3, <2>4
  <2>5. CASE Written(r)
    <3>1. Standing(r, callback.before[r])
      BY <1>1, <2>5 DEF Traced, Standing
    <3>2. Stands(callback'.before[r])
      BY <1>5, <2>1, <3>1
    <3>3. QED
      BY <1>5, <2>1, <2>3, <2>5, <3>2 DEF Traced, Standing
  <2>6. QED
    BY <2>4, <2>5
<1>132. CASE UndoSpoils
  <2>1. callback.step = "undo" /\ ledger' = ledger /\ callback'.step = "failed"
    BY <1>132 DEF UndoSpoils
  <2>2. store'[r] = store[r] /\ r \notin DOMAIN callback.before
    BY <1>132, <1>31 DEF UndoSpoils
  <2>3. ~Written(r) /\ ~Written(r)' /\ ~Reverting(r)'
    BY <2>1, <2>2 DEF Written, Reverting
  <2>4. QED
    BY <1>5, <1>6, <2>1, <2>2, <2>3
<1>14. CASE Undo
  <2>1. callback.step = "undo" /\ ledger' = ledger
    BY <1>14 DEF Undo
  <2>2. callback \in [step : {"undo"}, id : Nat, before : Evidence]
    BY <1>2, <2>1, CallbackFacts
  <2>3. CASE callback.before = NoEvidence
    <3>1. callback'.step = "failed" /\ store' = store
      BY <1>14, <2>3 DEF Undo
    <3>2. ~Written(r)' /\ ~Reverting(r)' /\ ~Written(r)
      BY <2>3, <3>1 DEF Written, Reverting, NoEvidence
    <3>3. QED
      BY <1>5, <1>6, <2>1, <3>1, <3>2
  <2>4. CASE callback.before # NoEvidence
    <3>1. PICK q \in DOMAIN callback.before :
            /\ store' = [store EXCEPT ![q] = callback.before[q]]
            /\ callback' = [callback EXCEPT !.before = [p \in DOMAIN @ \ {q} |-> @[p]]]
      BY <1>14, <2>4 DEF Undo
    <3> DEFINE rest == [p \in DOMAIN callback.before \ {q} |-> callback.before[p]]
    <3>2. callback' = [step |-> "undo", id |-> callback.id, before |-> rest]
      BY <2>2, <3>1
    <3>3. DOMAIN rest = DOMAIN callback.before \ {q} /\ \A p \in DOMAIN rest : rest[p] = callback.before[p]
      OBVIOUS
    <3> HIDE DEF rest
    <3>4. ~Reverting(r)' /\ (Written(r)' <=> Written(r) /\ r # q)
      BY <2>1, <3>2, <3>3 DEF Reverting, Written
    <3>5. CASE r = q
      <4>1. Written(r) /\ store'[r] = callback.before[r]
        BY <1>2, <2>1, <3>1, <3>5 DEF Written
      <4>2. Standing(r, store'[r])
        BY <1>1, <4>1 DEF Traced, Standing
      <4>3. Stands(store'[r])
        BY <1>5, <2>1, <4>2
      <4>4. QED
        BY <1>5, <2>1, <3>4, <3>5, <4>3 DEF Traced, Standing
    <3>6. CASE r # q /\ Written(r)
      <4>1. Standing(r, callback.before[r]) /\ rest[r] = callback.before[r]
        BY <1>1, <3>3, <3>6 DEF Traced, Written
      <4>2. Stands(rest[r])
        BY <1>5, <2>1, <4>1
      <4>3. callback'.before = rest /\ callback'.step = "undo"
        BY <3>2
      <4>4. QED
        BY <1>5, <2>1, <3>4, <3>6, <4>2, <4>3 DEF Traced, Standing
    <3>7. CASE r # q /\ ~Written(r)
      <4>1. store'[r] = store[r]
        BY <1>2, <3>1, <3>7
      <4>2. QED
        BY <1>5, <1>6, <2>1, <3>4, <3>7, <4>1
    <3>8. QED
      BY <3>5, <3>6, <3>7
  <2>5. QED
    BY <2>3, <2>4
\* The row of the request being run is settled, and r is none of its resources.
<1>15. ASSUME NEW row \in Row, callback.id \in DOMAIN ledger, Same(row, ledger[callback.id]),
              r \notin ledger[callback.id].resources \/
                 (ledger[callback.id].status # "applied" /\ row.status # "applied"),
              ledger' = [ledger EXCEPT ![callback.id] = row]
       PROVE  Chain(r)' /\ \A v : Standing(r, v) => Stands(v)
  <2>1. /\ DOMAIN ledger' = DOMAIN ledger
        /\ \A n \in DOMAIN ledger : ledger'[n] = IF n = callback.id THEN row ELSE ledger[n]
    BY <1>2, <1>15, RowReplaced
  <2>2. callback.id \notin Applied(r) /\ callback.id \notin Applied(r)'
    BY <1>15, <2>1 DEF Applied, Names, Same
  <2>3. \A n \in DOMAIN ledger \ {callback.id} : ledger'[n] = ledger[n]
    BY <2>1
  <2>4. Applied(r)' = Applied(r)
    BY <2>1, <2>2, <2>3 DEF Applied, Names
  <2>5. \A n \in Applied(r) : ledger'[n] = ledger[n]
    BY <2>2, <2>3 DEF Applied
  <2>6. QED
    BY <1>1, <2>4, <2>5, Frame DEF Traced, Standing
<1>16. CASE RecordApplied
  <2> DEFINE id == callback.id
             row == AppliedRow(ledger[id], callback.before, callback.after, clock)
  <2>1. /\ callback.step = "applied" /\ callback' = NoCallback /\ store' = store
        /\ ledger' = [ledger EXCEPT ![id] = row]
    BY <1>16 DEF RecordApplied, AppliedRow
  <2>2. /\ id \in DOMAIN ledger /\ ledger[id] \in Row
        /\ callback.before \in Evidence /\ callback.after \in Evidence
        /\ DOMAIN callback.before = ledger[id].resources
        /\ UnderWay(id) \/ Switches(id)
    BY <1>2, <2>1, CallbackFacts DEF CallbackFits, UnderWay, Switches, Full
  <2>3. clock \in Nat
    BY DEF Typed, TypeOK
  <2>4. /\ row \in Row /\ Same(row, ledger[id]) /\ row.status = "applied"
        /\ row.before = callback.before /\ row.after = callback.after
    BY <2>2, <2>3, RowRecorded DEF Same
  <2> HIDE DEF row
  <2>5. ~Written(r)' /\ ~Reverting(r)'
    BY <2>1 DEF Written, Reverting, NoCallback
  <2>6. CASE r \notin ledger[id].resources
    <3>1. ~Written(r)
      BY <2>2, <2>6 DEF Written
    <3>2. QED
      BY <1>6, <1>15, <2>1, <2>2, <2>4, <2>5, <2>6, <3>1
  <2>7. CASE r \in ledger[id].resources
    <3>1. id = Len(ledger) /\ ledger[id].status = "planned"
      BY <1>4, <2>2, <2>7 DEF UnderWay
    <3>2. Standing(r, callback.before[r]) /\ store[r] = callback.after[r]
      BY <1>1, <2>1, <2>2, <2>7 DEF Traced, Written
    <3>3. /\ DOMAIN ledger' = DOMAIN ledger /\ ledger'[id] = row
          /\ \A n \in DOMAIN ledger \ {id} : ledger'[n] = ledger[n]
      BY <1>2, <2>1, <2>2, <2>4, RowReplaced
    <3> DEFINE Before == Applied(r)
    <3>4. id \notin Before /\ Before \subseteq DOMAIN ledger
      BY <3>1 DEF Applied
    <3>5. Applied(r)' = Before \cup {id}
      <4>1. \A n \in DOMAIN ledger \ {id} : n \in Applied(r)' <=> n \in Applied(r)
        BY <3>3 DEF Applied, Names
      <4>2. id \in Applied(r)'
        BY <2>2, <2>4, <2>7, <3>3 DEF Applied, Names, Same
      <4>3. Applied(r)' \subseteq DOMAIN ledger
        BY <3>3 DEF Applied
      <4>4. QED
        BY <3>4, <4>1, <4>2, <4>3
    <3>6. \A n \in Before : ledger'[n] = ledger[n] /\ n < id /\ n \in Nat
      BY <1>2, <3>1, <3>3, <3>4
    <3>7. id \in Nat /\ id <= id
      BY <1>2, <2>2
    <3> HIDE DEF id, Before
    <3>8. {n \in Before \cup {id} : n < id} = Before
      BY <3>4, <3>6, <3>7
    <3>9. \A k \in Before : {n \in Before \cup {id} : n < k} = {n \in Before : n < k}
      BY <3>6, <3>7
    \* What the rows before it say, they still say.
    <3>10. ASSUME NEW N, N \subseteq Before, NEW v, LeftBy(ledger, N, r, v)
           PROVE  LeftBy(ledger', N, r, v)
      BY <3>6, <3>10 DEF LeftBy
    <3>11. ASSUME NEW k \in Applied(r)'
           PROVE  LeftBy(ledger', {n \in Applied(r)' : n < k}, r, ledger'[k].before[r])
      <4>1. CASE k = id
        <5>1. LeftBy(ledger, Before, r, ledger'[k].before[r])
          BY <2>4, <3>2, <3>3, <4>1 DEF Standing, Before
        <5>2. LeftBy(ledger', Before, r, ledger'[k].before[r])
          BY <3>10, <5>1
        <5>3. {n \in Applied(r)' : n < k} = Before
          BY <3>5, <3>8, <4>1
        <5>4. QED
          BY <5>2, <5>3
      <4>2. CASE k \in Before
        <5>1. LeftBy(ledger, {n \in Before : n < k}, r, ledger'[k].before[r])
          BY <1>1, <3>6, <4>2 DEF Traced, Chain, Before
        <5>2. LeftBy(ledger', {n \in Before : n < k}, r, ledger'[k].before[r])
          BY <3>10, <5>1
        <5>3. {n \in Applied(r)' : n < k} = {n \in Before : n < k}
          BY <3>5, <3>9, <4>2
        <5>4. QED
          BY <5>2, <5>3
      <4>3. QED
        BY <3>5, <4>1, <4>2
    <3>12. Chain(r)'
      BY <3>11 DEF Chain
    <3>13. Stands(store'[r])
      <4>1. \A m \in Applied(r)' : m <= id
        BY <3>5, <3>6, <3>7
      <4>2. store'[r] = ledger'[id].after[r] /\ id \in Applied(r)'
        BY <2>1, <2>4, <3>2, <3>3, <3>5
      <4>3. QED
        BY <4>1, <4>2 DEF Standing, LeftBy
    <3>14. QED
      BY <2>5, <3>12, <3>13 DEF Traced, Standing
  <2>8. QED
    BY <2>6, <2>7
<1>17. CASE RecordFailed
  <2>1. callback.step = "failed" /\ store' = store /\ Idle'
    BY <1>17 DEF RecordFailed, Idle
  <2>2. /\ callback.id \in DOMAIN ledger
        /\ ledger[callback.id].status # "applied" \/ r \notin ledger[callback.id].resources
    BY <1>2, <1>4, <2>1 DEF CallbackFits, UnderWay, Switches
  <2> DEFINE row == [ledger[callback.id] EXCEPT !.status = "failed"]
  <2>3. row \in Row /\ Same(row, ledger[callback.id]) /\ row.status = "failed"
    BY <1>2, <2>2, RowSettled DEF Same, Statuses
  <2>4. ledger' = [ledger EXCEPT ![callback.id] = row]
    BY <1>17 DEF RecordFailed
  <2> HIDE DEF row
  <2>5. ~Written(r)
    BY <2>1 DEF Written
  <2>6. QED
    BY <1>6, <1>8, <1>15, <2>1, <2>2, <2>3, <2>4, <2>5
<1>18. ASSUME NEW id \in DOMAIN ledger, Rollback(id) PROVE Traced(r)'
  <2>1. /\ Idle /\ ledger' = ledger /\ store' = store /\ ledger[id].status = "applied"
        /\ NewerApplied(id) = {}
    BY <1>18 DEF Rollback
  <2>2. \/ callback'.step = "switch"
        \/ callback'.step = "restore" /\ callback'.id = id /\ callback'.todo = ledger[id].resources
    BY <1>18 DEF Rollback
  <2>3. ~Written(r) /\ ~Written(r)' /\ Standing(r, store[r])
    BY <1>1, <1>7, <2>1, <2>2 DEF Written, Traced
  <2>4. CASE ~Reverting(r)'
    BY <1>5, <1>6, <2>1, <2>3, <2>4
  <2>5. CASE Reverting(r)'
    <3>1. callback'.id = id /\ r \in ledger[id].resources /\ callback'.todo = ledger[id].resources
          /\ callback'.step = "restore"
      BY <2>1, <2>2, <2>5 DEF Reverting, Names
    <3>2. id \in Applied(r)
      BY <2>1, <3>1 DEF Applied, Names
    <3>3. \A n \in Applied(r) : n <= id
      BY <1>1, <2>1, <3>2, LastIsRolledBack
    <3>4. Stands(store'[r])
      BY <1>5, <2>1, <2>3
    <3>5. QED
      BY <1>5, <2>1, <2>3, <3>1, <3>2, <3>3, <3>4 DEF Traced, Standing
  <2>6. QED
    BY <2>4, <2>5
<1>19. CASE Restore
  <2>1. callback.step = "restore" /\ ledger' = ledger
    BY <1>19 DEF Restore
  <2>2. PICK q \in callback.todo :
          /\ store' = [store EXCEPT ![q] = ledger[callback.id].before[q]]
          /\ callback' = IF callback.todo = {q} THEN [step |-> "rolledBack", id |-> callback.id]
                         ELSE [callback EXCEPT !.todo = @ \ {q}]
    BY <1>19 DEF Restore
  <2>3. /\ callback \in [step : {"restore"}, id : Nat, todo : SUBSET Resources]
        /\ callback.todo \subseteq ledger[callback.id].resources
    BY <1>2, <2>1, CallbackFacts DEF CallbackFits
  <2>4. /\ callback'.id = callback.id /\ callback'.step \in {"restore", "rolledBack"}
        /\ callback'.step = "restore" => callback'.todo = callback.todo \ {q}
        /\ callback'.step = "rolledBack" => callback.todo = {q}
    <3>1. CASE callback.todo = {q}
      BY <2>2, <3>1
    <3>2. CASE callback.todo # {q}
      <4>1. callback' = [step |-> "restore", id |-> callback.id, todo |-> callback.todo \ {q}]
        BY <2>2, <2>3, <3>2
      <4>2. QED
        BY <4>1
    <3>3. QED
      BY <3>1, <3>2
  <2>5. ~Written(r) /\ ~Written(r)' /\ (Reverting(r)' <=> Reverting(r)) /\ Standing(r, store[r])
    BY <1>1, <2>1, <2>4 DEF Written, Reverting, Names, Traced
  <2>6. CASE r = q
    <3>1. Reverting(r) /\ store'[r] = ledger[callback.id].before[r]
      BY <1>2, <2>1, <2>2, <2>3, <2>6 DEF Reverting, Names
    <3>2. callback.id \in Applied(r) /\ \A n \in Applied(r) : n <= callback.id
      BY <1>1, <3>1 DEF Traced, Standing
    <3>3. Standing(r, store'[r])
      BY <3>1, <3>2 DEF Standing, LeftBy
    <3>4. Stands(store'[r])
      BY <1>5, <2>1, <3>3
    <3>5. QED
      BY <1>5, <2>1, <2>4, <2>5, <3>1, <3>2, <3>4 DEF Traced, Standing
  <2>7. CASE r # q
    <3>1. store'[r] = store[r]
      BY <1>2, <2>2, <2>7
    <3>2. CASE ~Reverting(r)
      BY <1>5, <1>6, <2>1, <2>5, <3>1, <3>2
    <3>3. CASE Reverting(r)
      <4>1. /\ callback.id \in Applied(r) /\ \A n \in Applied(r) : n <= callback.id
            /\ r \notin callback.todo => store[r] = ledger[callback.id].before[r]
        BY <1>1, <3>3 DEF Traced, Standing
      <4>2. callback'.step = "rolledBack" \/ r \notin callback'.todo => r \notin callback.todo
        BY <2>4, <2>7
      <4>3. Stands(store'[r])
        BY <1>5, <2>1, <2>5, <3>1
      <4>4. QED
        BY <1>5, <2>1, <2>4, <2>5, <3>1, <4>1, <4>2, <4>3 DEF Traced, Standing
    <3>4. QED
      BY <3>2, <3>3
  <2>8. QED
    BY <2>6, <2>7
<1>20. CASE RestoreFails \/ RestoreSpoils
  <2>1. /\ callback.step \in {"restore", "rolledBack"} /\ ledger' = ledger /\ Idle'
        /\ store'[r] = store[r]
    BY <1>20, <1>31 DEF RestoreFails, RestoreSpoils, Idle
  <2>2. ~Written(r)
    BY <2>1 DEF Written
  <2>3. QED
    BY <1>5, <1>6, <1>8, <2>1, <2>2
<1>21. CASE RecordRolledBack
  <2> DEFINE id == callback.id
             row == [ledger[id] EXCEPT !.status = "rolled_back"]
  <2>1. /\ callback.step = "rolledBack" /\ store' = store /\ Idle'
        /\ ledger' = IF ledger[id].status = "applied" THEN [ledger EXCEPT ![id] = row] ELSE ledger
    BY <1>21 DEF RecordRolledBack, Idle
  <2>2. ~Written(r) /\ Standing(r, store[r]) /\ id \in DOMAIN ledger
    BY <1>1, <1>2, <2>1 DEF Written, Traced, CallbackFits
  <2>3. row \in Row /\ Same(row, ledger[id]) /\ row.status = "rolled_back"
    BY <1>2, <2>2, RowSettled DEF Same, Statuses
  <2> HIDE DEF row
  <2>4. CASE ledger[id].status # "applied"
    BY <1>5, <1>6, <1>8, <2>1, <2>2, <2>4
  <2>5. CASE ledger[id].status = "applied" /\ r \notin ledger[id].resources
    BY <1>6, <1>8, <1>15, <2>1, <2>2, <2>3, <2>5
  <2>6. CASE ledger[id].status = "applied" /\ r \in ledger[id].resources
    <3>1. /\ id \in Applied(r) /\ \A n \in Applied(r) : n <= id
          /\ store[r] = ledger[id].before[r]
      BY <1>1, <2>1, <2>6 DEF Traced, Reverting, Names
    <3>2. /\ DOMAIN ledger' = DOMAIN ledger /\ ledger'[id] = row
          /\ \A n \in DOMAIN ledger \ {id} : ledger'[n] = ledger[n]
      BY <1>2, <2>1, <2>2, <2>3, <2>6, RowReplaced
    <3> DEFINE After == Applied(r) \ {id}
    <3>3. Applied(r)' = After
      <4>1. \A n \in DOMAIN ledger \ {id} : n \in Applied(r)' <=> n \in Applied(r)
        BY <3>2 DEF Applied, Names
      <4>2. id \notin Applied(r)' /\ Applied(r)' \subseteq DOMAIN ledger /\ Applied(r) \subseteq DOMAIN ledger
        BY <2>3, <3>2 DEF Applied
      <4>3. QED
        BY <4>1, <4>2
    <3>4. \A n \in After : ledger'[n] = ledger[n] /\ n < id /\ n \in Nat /\ n \in Applied(r)
      <4>1. \A n \in Applied(r) : n \in DOMAIN ledger /\ n \in Nat
        BY <1>2 DEF Applied
      <4>2. \A n \in After : n <= id /\ n # id /\ n \in Nat /\ n \in DOMAIN ledger \ {id}
        BY <3>1, <4>1
      <4>3. id \in Nat
        BY <1>2, <2>2
      <4>4. \A n \in After : n < id
        BY <4>2, <4>3
      <4>5. QED
        BY <3>2, <4>2, <4>4
    <3>5. id \in Nat
      BY <1>2, <2>2
    <3>6. {n \in Applied(r) : n < id} = After
      BY <3>4, <3>5
    <3>7. \A k \in After : {n \in Applied(r) : n < k} = {n \in After : n < k}
      BY <3>4, <3>5
    <3> HIDE DEF After
    <3>8. ASSUME NEW N, N \subseteq After, NEW v, LeftBy(ledger, N, r, v)
          PROVE  LeftBy(ledger', N, r, v)
      BY <3>4, <3>8 DEF LeftBy
    <3>9. Chain(r)
      BY <1>1 DEF Traced, Standing
    <3>10. ASSUME NEW k \in Applied(r)'
           PROVE  LeftBy(ledger', {n \in Applied(r)' : n < k}, r, ledger'[k].before[r])
      <4>1. k \in After /\ k \in Applied(r) /\ ledger'[k] = ledger[k]
        BY <3>3, <3>4
      <4>2. LeftBy(ledger, {n \in After : n < k}, r, ledger'[k].before[r])
        BY <3>7, <3>9, <4>1 DEF Chain
      <4>3. LeftBy(ledger', {n \in After : n < k}, r, ledger'[k].before[r])
        BY <3>8, <4>2
      <4>4. {n \in Applied(r)' : n < k} = {n \in After : n < k}
        BY <3>3
      <4>5. QED
        BY <4>3, <4>4
    <3>11. Chain(r)'
      BY <3>10 DEF Chain
    <3>12. Stands(store'[r])
      <4>1. LeftBy(ledger, After, r, store'[r])
        BY <2>1, <3>1, <3>6, <3>9 DEF Chain
      <4>2. LeftBy(ledger', After, r, store'[r])
        BY <3>8, <4>1
      <4>3. QED
        BY <3>3, <4>2 DEF Standing
    <3>13. QED
      BY <1>8, <2>1, <3>11, <3>12 DEF Traced, Standing
  <2>7. QED
    BY <2>4, <2>5, <2>6
<1>22. CASE Switch
  <2> DEFINE c == ChannelOf(callback.id)
  <2>1. /\ callback.step = "switch" /\ ledger' = ledger /\ store' = [store EXCEPT ![c] = callback.want]
    BY <1>22 DEF Switch
  <2>2. Switches(callback.id)
    BY <1>2, <2>1 DEF CallbackFits
  <2>3. c # r
    BY <1>3, <2>2, ChannelFacts DEF Typed
  <2>4. store'[r] = store[r] /\ ~Written(r)
    BY <1>2, <2>1, <2>3 DEF Written
  <2>5. \/ Idle'
        \/ callback' = Updated(callback.id, callback.back, store[c], callback.want)
    BY <1>22 DEF Switch, Idle
  <2>6. ~Written(r)' /\ ~Reverting(r)'
    <3>1. r \notin ledger[callback.id].resources
      BY <1>4, <2>2
    <3>2. CASE Idle'
      BY <1>8, <3>2
    <3>3. CASE callback' = Updated(callback.id, callback.back, store[c], callback.want)
      BY <2>1, <3>1, <3>3 DEF Updated, Written, Reverting, Names
    <3>4. QED
      BY <2>5, <3>2, <3>3
  <2>7. QED
    BY <1>5, <1>6, <2>1, <2>4, <2>6
<1>23. ASSUME NEW i \in DOMAIN calls, CallReturns(i) \/ CallFails(i) PROVE Traced(r)'
  <2> DEFINE id == calls[i].id
  <2>1. Switches(id) /\ ledger' = ledger /\ Idle
    BY <1>2, <1>23 DEF CallReturns, CallFails
  <2>2. r \notin ledger[id].resources /\ ChannelOf(id) # r
    BY <1>3, <1>4, <2>1, ChannelFacts DEF Typed
  <2>3. store'[r] = store[r]
    BY <1>2, <1>23, <2>2 DEF CallReturns, CallFails
  <2>4. ~Written(r)' /\ ~Reverting(r)'
    BY <1>8, <1>23, <2>1, <2>2 DEF CallReturns, CallFails, Updated, Written, Reverting, Names, Idle
  <2>5. QED
    BY <1>5, <1>6, <1>7, <2>1, <2>3, <2>4
<1>24. ASSUME NEW q \in Operated, NEW value \in Contents, OperatorWrites(q, value) PROVE Traced(r)'
  <2>1. /\ Idle /\ Idle' /\ ledger' = ledger /\ store' = [store EXCEPT ![q] = value] /\ q # r
    BY <1>3, <1>24 DEF OperatorWrites, Idle
  <2>2. store'[r] = store[r]
    BY <1>2, <2>1
  <2>3. QED
    BY <1>5, <1>6, <1>7, <1>8, <2>1, <2>2
<1>25. CASE Tick
  <2>1. Idle /\ Idle' /\ ledger' = ledger /\ store' = store
    BY <1>25 DEF Tick, Idle
  <2>2. QED
    BY <1>5, <1>6, <1>7, <1>8, <2>1
\* What a dying request has written, its planned row names.
<1>26. CASE CrashAndRestart
  <2>1. Idle' /\ ledger' = ledger /\ store'[r] = store[r] /\ callback' = NoCallback
    BY <1>26, <1>31 DEF CrashAndRestart, Idle
  <2>2. \A id \in DOMAIN ledger : ledger[id].status = "planned" => r \notin ledger[id].resources
    BY <2>1 DEF Tracked, Names, NoCallback
  <2>3. ~Written(r)
    <3>1. SUFFICES ASSUME Written(r) PROVE FALSE
      OBVIOUS
    <3>2. r \in ledger[callback.id].resources /\ (UnderWay(callback.id) \/ Switches(callback.id))
      BY <1>2, <3>1 DEF Written, CallbackFits, Full
    <3>3. QED
      BY <1>4, <2>2, <3>2 DEF UnderWay
  <2>4. QED
    BY <1>5, <1>6, <1>8, <2>1, <2>3
<1>27. CASE UNCHANGED vars
  <2>1. ledger' = ledger /\ store' = store /\ callback' = callback
    BY <1>27 DEF vars
  <2>2. (Written(r)' <=> Written(r)) /\ (Reverting(r)' <=> Reverting(r))
    BY <2>1 DEF Written, Reverting, Names
  <2>3. QED
    BY <1>1, <1>5, <2>1, <2>2 DEF Traced, Standing
<1>28. QED
  BY <1>10, <1>11, <1>12, <1>13, <1>131, <1>132, <1>14, <1>16, <1>17, <1>18, <1>19, <1>20, <1>21, <1>22, <1>23, <1>24,
     <1>25, <1>26, <1>27 DEF Next, Requests, CallbackStep

-----------------------------------------------------------------------------
(* Evidence and reversibility *)

LEMMA Traces == Spec => [](Typed /\ Ordered /\ Trace)
<1>1. Init => Typed /\ Ordered /\ Trace
  <2>1. ASSUME Init PROVE Typed /\ DOMAIN ledger = {} /\ callback = NoCallback /\ store = InitialStore
    BY <2>1, TypeInit DEF Init
  <2>2. ASSUME Init, NEW r \in Resources PROVE Traced(r)
    <3>1. Applied(r) = {}
      BY <2>1, <2>2 DEF Applied
    <3>2. Chain(r) /\ Standing(r, store[r])
      BY <2>1, <2>2, <3>1 DEF Chain, Standing, LeftBy
    <3>3. QED
      BY <2>1, <2>2, <3>2 DEF Traced, Written, Reverting, NoCallback
  <2>3. QED
    BY <2>1, <2>2 DEF Ordered, Trace
<1>2. Typed /\ Ordered /\ Trace /\ [Next]_vars => Typed' /\ Ordered' /\ Trace'
  BY TypeKept, OrderKept, TraceKept
<1>3. QED
  BY <1>1, <1>2, PTL DEF Spec

\* Between requests, what the ledger accounts for is traced.
LEMMA AccountedIsTraced ==
    ASSUME Trace, Idle, NEW r \in Resources, Accounted(r)
    PROVE  Chain(r) /\ Standing(r, store[r])
<1>1. Tracked(r)
  BY DEF Tracked, Accounted
<1>2. Traced(r) /\ ~Written(r)
  BY <1>1 DEF Trace, Written, Idle, NoCallback
<1>3. QED
  BY <1>2 DEF Traced

\* The evidence of the applied mutations of a resource is a chain, and the resource holds
\* what the last one left or was cut short restoring, for any number of mutations,
\* assignments and failures; a file that a failing call itself left anyhow excepted.
THEOREM EvidenceChainsAlways == Spec => []EvidenceChains
<1>1. ASSUME Typed, Trace PROVE EvidenceChains
  <2>1. SUFFICES ASSUME Idle, NEW r \in Resources, Accounted(r), NEW id \in Applied(r)
                 PROVE  LET left(n) == {ledger[n].before[r], ledger[n].after[r]}
                            earlier == {n \in Applied(r) : n < id}
                        IN  /\ IF earlier = {} THEN ledger[id].before[r] = InitialStore[r]
                               ELSE ledger[id].before[r] \in left(Max(earlier))
                            /\ (\A n \in Applied(r) : n <= id) => store[r] \in left(id)
    BY DEF EvidenceChains
  <2> DEFINE earlier == {n \in Applied(r) : n < id}
  <2>2. Chain(r) /\ Standing(r, store[r])
    BY <1>1, <2>1, AccountedIsTraced
  <2>3. \A n \in Applied(r) : n \in Nat
    BY <1>1, RowsOf DEF Typed, TypeOK, Applied
  <2>4. LeftBy(ledger, earlier, r, ledger[id].before[r])
    BY <2>1, <2>2 DEF Chain
  <2>5. ASSUME earlier # {}
        PROVE  ledger[id].before[r] \in {ledger[Max(earlier)].before[r], ledger[Max(earlier)].after[r]}
    <3>1. PICK n \in earlier :
            /\ \A m \in earlier : m <= n
            /\ ledger[id].before[r] \in {ledger[n].before[r], ledger[n].after[r]}
      BY <2>4, <2>5 DEF LeftBy
    <3>2. \A m \in earlier : m \in Nat
      BY <2>3
    <3> HIDE DEF earlier
    <3>3. \A m \in earlier : n >= m
      BY <3>1, <3>2
    <3>4. Max(earlier) \in earlier /\ \A m \in earlier : Max(earlier) >= m
      BY <3>3 DEF Max
    <3>5. Max(earlier) = n
      BY <3>2, <3>3, <3>4
    <3>6. QED
      BY <3>1, <3>5
  <2>6. ASSUME \A n \in Applied(r) : n <= id
        PROVE  store[r] \in {ledger[id].before[r], ledger[id].after[r]}
    <3>1. PICK n \in Applied(r) :
            /\ \A m \in Applied(r) : m <= n
            /\ store[r] \in {ledger[n].before[r], ledger[n].after[r]}
      BY <2>1, <2>2 DEF Standing, LeftBy
    <3>2. n = id
      BY <2>1, <2>3, <2>6, <3>1
    <3>3. QED
      BY <3>1, <3>2
  <2>7. earlier = {} => ledger[id].before[r] = InitialStore[r]
    BY <2>4 DEF LeftBy
  <2>8. QED
    BY <2>5, <2>6, <2>7
<1>2. QED
  BY <1>1, Traces, PTL

\* Governed self-evolution is reversible, whatever the mutations, the order in which they
\* fail or are rolled back, and the deaths of the process, unless what failed is the
\* writing or restoring of the very file.
THEOREM ReversibleAlways == Spec => []Reversible
<1>1. ASSUME Trace PROVE Reversible
  <2>1. SUFFICES ASSUME Idle, NEW r \in Resources, Accounted(r), Applied(r) = {}
                 PROVE  store[r] = InitialStore[r]
    BY DEF Reversible
  <2>2. Standing(r, store[r])
    BY <1>1, <2>1, AccountedIsTraced
  <2>3. QED
    BY <2>1, <2>2 DEF Standing, LeftBy
<1>2. QED
  BY <1>1, Traces, PTL
=============================================================================
