------------------------------- MODULE Memory -------------------------------
(***************************************************************************)
(* Long-term memory: MemoryStore (src/src/memory/store.ts), its lifecycle    *)
(* service (lifecycle.ts), the vector store beside it (vector-store.ts), the  *)
(* hourly maintenance (maintenance.ts) and the memory mutations               *)
(* (mutation-adapters/memory-entry.ts).                                      *)
(*                                                                         *)
(* The rows are in SQLite and change only in synchronous steps; an embedding  *)
(* and every call to Qdrant are awaited, and whatever was read before the     *)
(* await is used after it.  A worker is an agent run or the maintenance: each  *)
(* goes through its awaits one after the other, all of them at once.          *)
(***************************************************************************)
EXTENDS Integers, FiniteSets, Sequences, SequencesExt, FiniteSetsExt

CONSTANTS
    Runs,            \* agent runs
    Insights,        \* what a run may conclude: records [kind, text]
    DefaultPolicy,   \* the memory policy of the configuration
    Policies,        \* what an operator or a mutation may ask for
    MutatedKinds,    \* kinds of the entries that mutations make
    MaxEntries,      \* bound: rows of memory_entries ever inserted
    MaxMaintenance,  \* bound: rows of memory_maintenance_runs
    InitialEntries,  \* the rows that earlier runs may have left
    MaxIncidents     \* bound: failing calls, mutations, policy changes, shutdowns and deaths

\* A cap for each category; the code's least cap is 10, its least trigger 2.
Categories == <<"semantic", "procedural", "episodic">>

Kinds == {"turn", "summary", "fact", "note"}

CategoryOf(kind) ==
    CASE kind = "fact" -> "semantic"
      [] kind = "note" -> "procedural"
      [] OTHER -> "episodic"

\* In hundredths; an entry made by a mutation weighs 70.
Importance(kind) ==
    CASE kind = "turn" -> 55
      [] kind = "summary" -> 88
      [] kind = "fact" -> 72
      [] kind = "note" -> 84

Policy == [trigger : Nat, cluster : Nat, keep : [Range(Categories) -> Nat], topK : Nat]

Ids == 1..MaxEntries

States == {"active", "superseded", "deactivated", "deleted"}

Texts == {i.text : i \in Insights} \cup {"said", "mutated"}

Entry ==
    [kind : Kinds, text : Texts, importance : Nat, state : States, parent : 0..MaxEntries,
     embedded : BOOLEAN, synced : BOOLEAN]

\* The initial rows are those of a memory that nothing has mutated yet.
ASSUME MemoryAssumption ==
    /\ Policies \subseteq Policy /\ DefaultPolicy \in Policy
    /\ \A p \in Policies \cup {DefaultPolicy} : p.trigger > 1 /\ p.cluster > 1
    /\ IsFiniteSet(Insights) /\ \A i \in Insights : i.kind \in {"fact", "note"}
    /\ MutatedKinds \subseteq Kinds \ {"summary"}
    /\ "maintenance" \notin Runs
    /\ MaxEntries \in Nat /\ MaxMaintenance \in Nat \ {0} /\ MaxIncidents \in Nat
    /\ \A es \in InitialEntries :
          /\ es \in Seq(Entry) /\ Len(es) <= MaxEntries
          /\ \A e \in DOMAIN es : es[e].state \in {"active", "deleted"}

VARIABLES
    entries,     \* memory_entries, in the order of insertion; a deleted row keeps its place
    links,       \* memory_lifecycle_links: <<newer, superseded>>
    reinforced,  \* rows that memory_reinforcement_events refers to
    points,      \* what Qdrant holds
    policy,      \* memory_policy_settings
    phase,       \* how far the process is: "down", ..., "up"
    available,   \* Qdrant answered when the process started
    work,        \* work[w]: where worker w is
    maintenance, \* memory_maintenance_runs, in the order of insertion
    executing,   \* executingRunId, 0 for none
    timer,       \* the maintenance run the timer is for, 0 for none
    started,     \* MemoryMaintenanceService.running
    mutations,   \* memory mutations applied or rolled back, in their order
    made,        \* history: of each summary, its sources and what was there when they were chosen
    faults,      \* failing calls and policy changes so far
    crashes      \* shutdowns and deaths so far

store == <<entries, links, reinforced>>
upkeep == <<maintenance, executing, timer, started>>
vars == <<entries, links, reinforced, points, policy, phase, available, work, maintenance,
          executing, timer, started, mutations, made, faults, crashes>>

-----------------------------------------------------------------------------
(* Types *)

Workers == Runs \cup {"maintenance"}

\* The await a worker is in, what it holds across it, and the categories to prune.
Awaits ==
    {"idle", "embed", "search", "answer", "turnSync", "insights", "facts", "factsSync",
     "compact", "summarySync", "prune", "delete", "done", "failed", "lost"}

Work ==
    [at : Awaits, ids : SUBSET Ids, new : SUBSET Insights, left : Seq(Range(Categories)),
     since : 0..MaxEntries, policy : Policy]

Statuses == {"scheduled", "running", "completed", "failed"}

Mutation ==
    [do : {"create", "deactivate", "supersede"}, id : Ids, target : 0..MaxEntries,
     allowed : SUBSET (Ids \X Ids), applied : BOOLEAN]

Upkeep == [status : Statuses, soon : BOOLEAN]

\* A worker gets to an await, with what it holds across it.
At(wk, at, ids) == [wk EXCEPT !.at = at, !.ids = ids]

TypeOK ==
    /\ entries \in Seq(Entry) /\ Len(entries) <= MaxEntries
    /\ links \subseteq Ids \X Ids
    /\ reinforced \subseteq DOMAIN entries /\ points \subseteq DOMAIN entries
    /\ policy \in Policy /\ policy.cluster <= policy.trigger
    /\ phase \in {"down", "embedded", "connected", "synced", "up"}
    /\ available \in BOOLEAN /\ started \in BOOLEAN
    /\ work \in [Workers -> Work]
    /\ maintenance \in Seq(Upkeep) /\ Len(maintenance) <= MaxMaintenance
    /\ executing \in 0..Len(maintenance) /\ timer \in 0..Len(maintenance)
    /\ mutations \in Seq(Mutation)
    /\ DOMAIN made \subseteq DOMAIN entries
    /\ made \in [DOMAIN made -> [from : SUBSET Ids, since : 0..MaxEntries]]
    /\ faults \in Nat /\ crashes \in Nat
    /\ faults + crashes + Len(mutations) <= MaxIncidents

-----------------------------------------------------------------------------
(* Rows *)

Live(e) == entries[e].state # "deleted"

Active(e) == entries[e].state = "active"

ActiveIn(category) ==
    {e \in DOMAIN entries : Active(e) /\ CategoryOf(entries[e].kind) = category}

\* The rows, those of S in another state.
InState(S, state) ==
    [e \in DOMAIN entries |->
        IF e \in S /\ Live(e) THEN [entries[e] EXCEPT !.state = state] ELSE entries[e]]

Row(kind, text, importance, embedded) ==
    [kind |-> kind, text |-> text, importance |-> importance, state |-> "active", parent |-> 0,
     embedded |-> embedded, synced |-> FALSE]

Room(n) == Len(entries) + n <= MaxEntries

Disturbable == faults + crashes + Len(mutations) < MaxIncidents

\* A call that may fail fails at the cost of a fault.
Succeeds(ok) == faults' = IF ok THEN faults ELSE faults + 1

MayFail(ok) == ok \/ Disturbable

-----------------------------------------------------------------------------
(* The policy *)

\* Mutant of Clamped: each field is in its own bounds, and that is all.
ClampedApart(p) == p

\* validateCompletePolicy, in the mode that repairs.
Clamped(p) == [p EXCEPT !.cluster = Min({@, p.trigger})]

\* MemoryPolicyStore.get: a row that is out of bounds is repaired as it is read.
CurrentPolicy == Clamped(policy)

\* MemoryPolicyStore.update: a policy is taken whole or refused.
UpdatePolicy(p) ==
    /\ phase = "up"
    /\ p.cluster <= p.trigger /\ p # policy
    /\ Disturbable /\ faults' = faults + 1
    /\ policy' = p
    /\ UNCHANGED <<store, points, phase, available, work, upkeep, mutations, made, crashes>>

-----------------------------------------------------------------------------
(* Retrieval *)

\* The rows the answer is drawn from: what the vector search found, with active
\* rows that have no vector when it found too few; or else every recent row.
Candidates(found, topK) ==
    LET hits == {e \in found : Active(e)}
        plain == {e \in DOMAIN entries : Active(e) /\ ~entries[e].embedded}
    IN  IF hits = {} THEN {e \in DOMAIN entries : Active(e)}
        ELSE IF Cardinality(hits) < topK THEN hits \cup plain ELSE hits

\* markAccessed: each row returned gets an event.  The scores decide which ones
\* are; a score is above zero as long as a row is young.
Retrieved(found, returned, topK) ==
    /\ Cardinality(returned) <= topK
    /\ returned = {} => Candidates(found, topK) = {}
    /\ reinforced' = reinforced \cup returned

\* What a search can find: points of Qdrant, of rows that may be gone, or rows
\* with a vector in SQLite.
Findable ==
    IF available THEN points ELSE {e \in DOMAIN entries : Live(e) /\ entries[e].embedded}

\* A run starts, and its prompt is embedded.
StartRun(r) ==
    /\ phase = "up"
    /\ work[r].at = "idle"
    /\ work' = [work EXCEPT ![r] = [At(@, "embed", {}) EXCEPT !.policy = CurrentPolicy]]
    /\ UNCHANGED <<store, points, policy, phase, available, upkeep, mutations, made, faults, crashes>>

\* The vector of the prompt arrives, and the search begins; whatever is nearest is found.
Search(r) ==
    /\ work[r].at = "embed"
    /\ \E found \in SUBSET Findable :
          /\ Cardinality(found) = Min({work[r].policy.topK, Cardinality(Findable)})
          /\ work' = [work EXCEPT ![r] = At(@, "search", found)]
    /\ UNCHANGED <<store, points, policy, phase, available, upkeep, mutations, made, faults, crashes>>

\* Qdrant fails the search, and the run with it.
SearchFails(r) ==
    /\ work[r].at = "search"
    /\ available /\ Disturbable
    /\ faults' = faults + 1
    /\ work' = [work EXCEPT ![r] = At(@, "failed", {})]
    /\ UNCHANGED <<store, points, policy, phase, available, upkeep, mutations, made, crashes>>

\* The search returns, or there was no vector to search with; the rows are read now.
Retrieve(r) ==
    /\ \/ work[r].at = "search" /\ UNCHANGED faults
       \/ work[r].at = "embed" /\ Disturbable /\ faults' = faults + 1
    /\ \E returned \in SUBSET Candidates(work[r].ids, work[r].policy.topK) :
          Retrieved(work[r].ids, returned, work[r].policy.topK)
    /\ work' = [work EXCEPT ![r] = At(@, "answer", {})]
    /\ UNCHANGED <<entries, links, points, policy, phase, available, upkeep, mutations, made, crashes>>

-----------------------------------------------------------------------------
(* Storing and consolidating *)

\* The vectors that an insertion sends to Qdrant.
Upserting(ids, embedded) == IF embedded /\ available THEN ids ELSE {}

\* Rows in, and what they leave to send; `next` is the await without any.
Stored(w, rows, embedded, sync, next) ==
    LET ids == (Len(entries) + 1)..(Len(entries) + Len(rows))
        sent == Upserting(ids, embedded)
    IN  /\ entries' = entries \o rows
        /\ work' = [work EXCEPT ![w] =
                      [IF sent # {} THEN At(@, sync, sent) ELSE next EXCEPT !.new = {}]]

\* recordTurn: the turn is stored as its vector arrives, or without one.
StoreTurn(r, ok) ==
    /\ work[r].at = "answer"
    /\ Room(1) /\ MayFail(ok) /\ Succeeds(ok)
    /\ Stored(r, <<Row("turn", "said", Importance("turn"), ok)>>, ok, "turnSync",
              [At(work[r], "insights", {}) EXCEPT !.policy = CurrentPolicy])
    /\ UNCHANGED <<links, reinforced, points, policy, phase, available, upkeep, mutations, made, crashes>>

\* Turns in no summary, whatever has become of them, the newest `trigger` of them.
Recent(p) ==
    LET raw == {e \in DOMAIN entries :
                  Live(e) /\ CategoryOf(entries[e].kind) = "episodic"
                  /\ entries[e].kind # "summary" /\ entries[e].parent = 0}
    IN  {e \in raw : Cardinality({f \in raw : f > e}) < p.trigger}

\* Mutant of Cluster: the turns of older summaries are clustered again.
ClusterOfAll(p) ==
    LET raw == {e \in DOMAIN entries : Live(e) /\ entries[e].kind = "turn"}
    IN  IF Cardinality(raw) < p.trigger THEN {}
        ELSE {e \in raw : Cardinality({f \in raw : f < e}) < p.cluster}

\* The oldest of the recent ones, once there are enough of them.
Cluster(p) ==
    IF Cardinality(Recent(p)) < p.trigger THEN {}
    ELSE {e \in Recent(p) : Cardinality({f \in Recent(p) : f < e}) < p.cluster}

Pruning(wk) == [At(wk, "prune", {}) EXCEPT !.left = Categories]

\* compactEpisodicMemories up to its await; nothing to compact leaves the pruning.
Compacting(wk) ==
    IF Cluster(wk.policy) # {}
    THEN [At(wk, "compact", Cluster(wk.policy)) EXCEPT !.since = Len(entries)]
    ELSE Pruning(wk)

\* hasSimilarMemory
Similar(i) == \E e \in DOMAIN entries : Active(e) /\ entries[e].kind = i.kind /\ entries[e].text = i.text

\* The insights arrive; those that are known are dropped.
Conclude(r) ==
    /\ work[r].at = "insights"
    /\ \E all \in SUBSET Insights :
          LET new == {i \in all : ~Similar(i)}
          IN  work' = [work EXCEPT ![r] =
                         IF new = {} THEN Compacting(@) ELSE [At(@, "facts", {}) EXCEPT !.new = new]]
    /\ UNCHANGED <<store, points, policy, phase, available, upkeep, mutations, made, faults, crashes>>

\* storeEntries: the insights are stored as their vectors arrive, or without.  The
\* cluster is chosen once they are sent.
StoreFacts(r, ok) ==
    LET rows == [n \in 1..Cardinality(work[r].new) |->
                   LET i == SetToSeq(work[r].new)[n] IN Row(i.kind, i.text, Importance(i.kind), ok)]
    IN  /\ work[r].at = "facts"
        /\ Room(Len(rows)) /\ MayFail(ok) /\ Succeeds(ok)
        /\ Stored(r, rows, ok, "factsSync", Compacting(work[r]))
        /\ UNCHANGED <<links, reinforced, points, policy, phase, available, upkeep, mutations, made, crashes>>

\* Mutant of Marked: an upsert that fails leaves its rows as they were.
MarkedAtBest(ids, ok) ==
    [e \in DOMAIN entries |->
        IF e \in ids /\ Live(e) THEN [entries[e] EXCEPT !.synced = ok \/ @] ELSE entries[e]]

\* The rows of a batch that was sent, marked as Qdrant answered.
Marked(ids, ok) ==
    [e \in DOMAIN entries |->
        IF e \in ids /\ Live(e) THEN [entries[e] EXCEPT !.synced = ok] ELSE entries[e]]

\* consolidate begins with the policy of its moment.
AfterSync(wk) ==
    CASE wk.at = "turnSync" -> [At(wk, "insights", {}) EXCEPT !.policy = CurrentPolicy]
      [] wk.at = "factsSync" -> Compacting(wk)
      [] wk.at = "summarySync" -> Pruning(wk)

\* upsertToVectorBackend: Qdrant answers, or fails or takes too long; `held` says
\* whether it kept the points.
Sync(w, ok, held) ==
    /\ work[w].at \in {"turnSync", "factsSync", "summarySync"}
    /\ ok => held
    /\ MayFail(ok) /\ Succeeds(ok)
    /\ entries' = Marked(work[w].ids, ok)
    /\ points' = IF held THEN points \cup work[w].ids ELSE points
    /\ work' = [work EXCEPT ![w] = AfterSync(@)]
    /\ UNCHANGED <<links, reinforced, policy, phase, available, upkeep, mutations, made, crashes>>

\* The summary goes in, and its sources point at it.  It is marked as synced
\* before it is sent.
Compact(w, ok) ==
    LET s == Len(entries) + 1
        sent == Upserting({s}, ok)
        summary == [Row("summary", "said", Importance("summary"), ok) EXCEPT !.synced = sent # {}]
    IN  /\ work[w].at = "compact"
        /\ Room(1) /\ MayFail(ok) /\ Succeeds(ok)
        /\ entries' = Append([e \in DOMAIN entries |->
                                IF e \in work[w].ids /\ Live(e) THEN [entries[e] EXCEPT !.parent = s]
                                ELSE entries[e]], summary)
        /\ made' = [t \in DOMAIN made \cup {s} |->
                      IF t = s THEN [from |-> work[w].ids, since |-> work[w].since] ELSE made[t]]
        /\ work' = [work EXCEPT ![w] =
                      [IF sent # {} THEN At(@, "summarySync", sent) ELSE Pruning(@) EXCEPT !.since = 0]]
        /\ UNCHANGED <<links, reinforced, points, policy, phase, available, upkeep, mutations, crashes>>

-----------------------------------------------------------------------------
(* Pruning *)

\* Rows that count more than e: more important, or as important and newer.
Before(e, category) ==
    {f \in ActiveIn(category) :
        \/ entries[f].importance > entries[e].importance
        \/ entries[f].importance = entries[e].importance /\ f > e}

Surplus(category, p) ==
    {e \in ActiveIn(category) : Cardinality(Before(e, category)) >= p.keep[category]}

\* Foreign keys: an event or a link refers to the row.
Referred(e) == e \in reinforced \/ \E l \in links : e \in {l[1], l[2]}

\* The row and the timer of the maintenance, once it has ended; see below.
Earliest(ms) ==
    LET waiting == {m \in DOMAIN ms : ms[m].status = "scheduled"}
        soon == {m \in waiting : ms[m].soon}
    IN  Min(IF soon # {} THEN soon ELSE waiting)

\* ensureScheduledRun
Ensured(ms) ==
    IF \E m \in DOMAIN ms : ms[m].status = "scheduled" THEN ms
    ELSE Append(ms, [status |-> "scheduled", soon |-> FALSE])

\* A maintenance run ends; the one that the timer began, whose timer is spent, is
\* followed by a new timer.
Settled(status) ==
    LET ended == [maintenance EXCEPT ![executing].status = status]
    IN  /\ executing' = 0
        /\ IF timer = 0
           THEN /\ maintenance' = Ensured(ended)
                /\ timer' = IF started THEN Earliest(Ensured(ended)) ELSE 0
           ELSE maintenance' = ended /\ UNCHANGED timer
        /\ UNCHANGED started

\* The pass of worker w ends.
Ends(w, outcome) ==
    /\ work' = [work EXCEPT ![w] =
                  [At(@, IF w = "maintenance" THEN "idle" ELSE outcome, {}) EXCEPT !.left = <<>>]]
    /\ IF w = "maintenance" THEN Settled(IF outcome = "done" THEN "completed" ELSE "failed")
       ELSE UNCHANGED upkeep

\* pruneByCategory: the first category left with a surplus loses it, in one
\* transaction, and then Qdrant does; a row that is referred to fails the pass.
Prune(w) ==
    LET wk == work[w]
        full == {c \in DOMAIN wk.left : Surplus(wk.left[c], wk.policy) # {}}
        first == Min(full)
        surplus == Surplus(wk.left[first], wk.policy)
    IN  /\ wk.at = "prune"
        /\ \/ full = {} /\ Ends(w, "done") /\ UNCHANGED entries
           \/ /\ full # {} /\ \E e \in surplus : Referred(e)
              /\ Ends(w, "failed") /\ UNCHANGED entries
           \/ /\ full # {} /\ \A e \in surplus : ~Referred(e)
              /\ entries' = InState(surplus, "deleted")
              /\ work' = [work EXCEPT ![w] =
                            [IF available THEN At(wk, "delete", surplus) ELSE At(wk, "prune", {})
                             EXCEPT !.left = SubSeq(wk.left, first + 1, Len(wk.left))]]
              /\ UNCHANGED upkeep
        /\ UNCHANGED <<links, reinforced, points, policy, phase, available, mutations, made, faults, crashes>>

\* Qdrant deletes the points, or fails the pass.
DeletePoints(w) ==
    /\ work[w].at = "delete"
    /\ points' = points \ work[w].ids
    /\ work' = [work EXCEPT ![w] = At(@, "prune", {})]
    /\ UNCHANGED <<store, policy, phase, available, upkeep, mutations, made, faults, crashes>>

DeleteFails(w) ==
    /\ work[w].at = "delete"
    /\ Disturbable /\ faults' = faults + 1
    /\ points' \in {points, points \ work[w].ids}
    /\ Ends(w, "failed")
    /\ UNCHANGED <<store, policy, phase, available, mutations, made, crashes>>

-----------------------------------------------------------------------------
(* The maintenance *)

\* execute: the run begins with the compaction.
Execute(m) ==
    /\ maintenance' = [maintenance EXCEPT ![m].status = "running"]
    /\ executing' = m
    /\ work' = [work EXCEPT !["maintenance"] = Compacting([@ EXCEPT !.policy = CurrentPolicy])]

HasRunning == \E m \in DOMAIN maintenance : maintenance[m].status = "running"

\* The timer fires; while a run executes it is refused, and armed again.
TimerFires ==
    /\ phase = "up"
    /\ timer # 0 /\ executing = 0
    /\ Len(maintenance) < MaxMaintenance
    /\ timer' = 0
    /\ Execute(timer)
    /\ UNCHANGED <<store, points, policy, phase, available, started, mutations, made, faults, crashes>>

\* Mutant of RunNow: an operator's run is not refused while another is running.
RunNowAnyway ==
    /\ phase = "up"
    /\ Len(maintenance) < MaxMaintenance
    /\ LET m == Len(maintenance) + 1
       IN  /\ maintenance' = Append(maintenance, [status |-> "running", soon |-> TRUE])
           /\ executing' = m
           /\ work' = [work EXCEPT !["maintenance"] = Compacting([@ EXCEPT !.policy = CurrentPolicy])]
    /\ UNCHANGED <<store, points, policy, phase, available, timer, started, mutations, made, faults, crashes>>

\* POST /admin/memory/maintenance/run: refused while a run executes.
RunNow ==
    /\ phase = "up"
    /\ executing = 0 /\ ~HasRunning
    /\ Len(maintenance) < MaxMaintenance
    /\ LET m == Len(maintenance) + 1
       IN  /\ maintenance' = Append(maintenance, [status |-> "running", soon |-> TRUE])
           /\ executing' = m
           /\ work' = [work EXCEPT !["maintenance"] = Compacting([@ EXCEPT !.policy = CurrentPolicy])]
    /\ UNCHANGED <<store, points, policy, phase, available, timer, started, mutations, made, faults, crashes>>

\* The shutdown; what runs goes on until the process exits.
Stop ==
    /\ phase = "up" /\ started
    /\ Disturbable /\ crashes' = crashes + 1
    /\ started' = FALSE /\ timer' = 0
    /\ UNCHANGED <<store, points, policy, phase, available, work, maintenance, executing,
                   mutations, made, faults>>

-----------------------------------------------------------------------------
(* Memory mutations *)

LinksOf(e) == {l \in links : e \in {l[1], l[2]}}

NewMutation(do, id, target, allowed) ==
    [do |-> do, id |-> id, target |-> target, allowed |-> allowed, applied |-> TRUE]

Mutated(m) ==
    /\ phase = "up"
    /\ Disturbable
    /\ mutations' = Append(mutations, m)
    /\ UNCHANGED <<reinforced, points, policy, phase, available, work, upkeep, made, faults, crashes>>

\* insertMemoryEntry: no vector before the next start.
MutatedRow(kind) == Row(kind, "mutated", 70, FALSE)

Create(kind) ==
    /\ Room(1)
    /\ entries' = Append(entries, MutatedRow(kind))
    /\ UNCHANGED links
    /\ Mutated(NewMutation("create", Len(entries) + 1, 0, {}))

Deactivate(e) ==
    /\ Active(e)
    /\ entries' = InState({e}, "deactivated")
    /\ UNCHANGED links
    /\ Mutated(NewMutation("deactivate", e, 0, LinksOf(e)))

\* A replacement, the link from it, and the state of the entry: one transaction.
Supersede(e, kind) ==
    LET s == Len(entries) + 1
    IN  /\ Active(e) /\ Room(1)
        /\ entries' = Append(InState({e}, "superseded"), MutatedRow(kind))
        /\ links' = links \cup {<<s, e>>}
        /\ Mutated(NewMutation("supersede", s, e, LinksOf(e) \cup {<<s, e>>}))

\* findNewerApplied: a newer mutation of one of the entries.
Overtaken(n) ==
    \E m \in DOMAIN mutations :
        /\ m > n /\ mutations[m].applied
        /\ {mutations[m].id, mutations[m].target} \cap ({mutations[n].id, mutations[n].target} \ {0}) # {}

Created(m) == IF m.do = "deactivate" THEN {} ELSE {m.id}

Touched(m) == IF m.do = "deactivate" THEN {m.id} ELSE {m.target}

\* Mutant of Undone: what was created goes, the entry it superseded stays as it is.
UndoneHalf(m) ==
    [e \in DOMAIN entries |->
        IF e \in Created(m) THEN [entries[e] EXCEPT !.state = "deleted"] ELSE entries[e]]

\* What was created goes, what was touched is active again, unless it is gone.
Undone(m) ==
    [e \in DOMAIN entries |->
        IF e \in Created(m) THEN [entries[e] EXCEPT !.state = "deleted"]
        ELSE IF e \in Touched(m) /\ Live(e) THEN [entries[e] EXCEPT !.state = "active"]
        ELSE entries[e]]

\* A rollback: refused for a newer mutation, or for links made since.
RollBack(n) ==
    LET m == mutations[n]
    IN  /\ phase = "up"
        /\ m.applied /\ ~Overtaken(n)
        /\ LinksOf(m.id) \cup (IF m.target = 0 THEN {} ELSE LinksOf(m.target)) \subseteq m.allowed
        /\ entries' = Undone(m)
        /\ links' = {l \in links : {l[1], l[2]} \cap Created(m) = {}}
        /\ reinforced' = reinforced \ Created(m)
        /\ mutations' = [mutations EXCEPT ![n].applied = FALSE]
        /\ UNCHANGED <<points, policy, phase, available, work, upkeep, made, faults, crashes>>

-----------------------------------------------------------------------------
(* The process *)

NoWork(p) ==
    [at |-> "idle", ids |-> {}, new |-> {}, left |-> <<>>, since |-> 0, policy |-> p]

Lost(wk) == IF wk.at \in {"idle", "done", "failed", "lost"} THEN wk ELSE [NoWork(wk.policy) EXCEPT !.at = "lost"]

\* The process dies, perhaps between the two writes that begin an operator's run.
Crash ==
    /\ phase # "down"
    /\ Disturbable /\ crashes' = crashes + 1
    /\ phase' = "down"
    /\ work' = [w \in Workers |-> IF w = "maintenance" THEN NoWork(policy) ELSE Lost(work[w])]
    /\ executing' = 0 /\ timer' = 0 /\ started' = FALSE
    /\ \/ UNCHANGED maintenance
       \/ /\ phase = "up" /\ executing = 0 /\ Len(maintenance) < MaxMaintenance
          /\ maintenance' = Append(maintenance, [status |-> "scheduled", soon |-> TRUE])
    /\ UNCHANGED <<store, points, policy, available, mutations, made, faults>>

\* backfillEmbeddings: of each batch, the vectors arrive or do not.
BackfillEmbeddings ==
    /\ phase = "down"
    /\ \E S \in SUBSET {e \in DOMAIN entries : Live(e) /\ ~entries[e].embedded} :
          entries' = [e \in DOMAIN entries |->
                        IF e \in S THEN [entries[e] EXCEPT !.embedded = TRUE] ELSE entries[e]]
    /\ phase' = "embedded"
    /\ UNCHANGED <<links, reinforced, points, policy, available, work, upkeep, mutations, made, faults, crashes>>

\* initializeVectorStore: whether Qdrant answers now is what counts from now on.
InitializeVectorStore ==
    /\ phase = "embedded"
    /\ phase' = "connected"
    /\ available' \in BOOLEAN
    /\ UNCHANGED <<store, points, policy, work, upkeep, mutations, made, faults, crashes>>

Unsynced == {e \in DOMAIN entries : Live(e) /\ entries[e].embedded /\ ~entries[e].synced}

\* backfillVectors: every row that is not marked is sent.
BackfillVectors(ok, held) ==
    LET sent == IF available THEN Unsynced ELSE {}
    IN  /\ phase = "connected"
        /\ ok => held
        /\ MayFail(ok) /\ Succeeds(ok)
        /\ phase' = "synced"
        /\ entries' = Marked(sent, ok)
        /\ points' = IF held THEN points \cup sent ELSE points
        /\ UNCHANGED <<links, reinforced, policy, available, work, upkeep, mutations, made, crashes>>

RecoverInterruptedRuns ==
    [m \in DOMAIN maintenance |->
        IF maintenance[m].status = "running" THEN [maintenance[m] EXCEPT !.status = "failed"]
        ELSE maintenance[m]]

\* MemoryMaintenanceService.start
StartMaintenance ==
    /\ phase = "synced"
    /\ phase' = "up"
    /\ started' = TRUE
    /\ maintenance' = Ensured(RecoverInterruptedRuns)
    /\ timer' = Earliest(Ensured(RecoverInterruptedRuns))
    /\ UNCHANGED <<store, points, policy, available, work, executing, mutations, made, faults, crashes>>

Init ==
    /\ entries \in InitialEntries /\ links = {} /\ reinforced = {}
    /\ points = {e \in DOMAIN entries : entries[e].synced}
    /\ policy = Clamped(DefaultPolicy)
    /\ phase = "connected" /\ available \in BOOLEAN
    /\ work = [w \in Workers |-> NoWork(policy)]
    /\ maintenance = <<>> /\ executing = 0 /\ timer = 0 /\ started = FALSE
    /\ mutations = <<>>
    /\ made = [e \in {} |-> 0]
    /\ faults = 0 /\ crashes = 0

WorkerStep(w) ==
    \/ \E ok \in BOOLEAN, held \in BOOLEAN : Sync(w, ok, held)
    \/ \E ok \in BOOLEAN : Compact(w, ok)
    \/ Prune(w)
    \/ DeletePoints(w)
    \/ DeleteFails(w)

RunStep(r) ==
    \/ Search(r)
    \/ SearchFails(r)
    \/ Retrieve(r)
    \/ \E ok \in BOOLEAN : StoreTurn(r, ok)
    \/ Conclude(r)
    \/ \E ok \in BOOLEAN : StoreFacts(r, ok)
    \/ WorkerStep(r)

Boot ==
    \/ BackfillEmbeddings
    \/ InitializeVectorStore
    \/ \E ok \in BOOLEAN, held \in BOOLEAN : BackfillVectors(ok, held)
    \/ StartMaintenance

Mutate ==
    \/ \E kind \in MutatedKinds : Create(kind)
    \/ \E e \in DOMAIN entries : Deactivate(e)
    \/ \E e \in DOMAIN entries, kind \in MutatedKinds : Supersede(e, kind)
    \/ \E n \in DOMAIN mutations : RollBack(n)

Next ==
    \/ \E r \in Runs : StartRun(r) \/ RunStep(r)
    \/ WorkerStep("maintenance")
    \/ TimerFires
    \/ RunNow
    \/ Mutate
    \/ \E p \in Policies : UpdatePolicy(p)
    \/ Stop
    \/ Crash
    \/ Boot

Spec == Init /\ [][Next]_vars

-----------------------------------------------------------------------------
(* Properties *)

\* The run that is marked as running is the one that executes, in a process that
\* has started.  (maintenance.ts:193, the flag and the row that guard execute.)
RunningExecutes ==
    phase = "up" => {m \in DOMAIN maintenance : maintenance[m].status = "running"} = {executing} \ {0}

\* Until it is stopped, the maintenance has a timer for a scheduled run, or a run
\* that arms one when it ends.  (maintenance.ts:161, armNext at every end.)
MaintenanceRecurs ==
    phase = "up" /\ started =>
        IF timer = 0 THEN executing # 0 ELSE maintenance[timer].status = "scheduled"

MaintenanceInStep == RunningExecutes /\ MaintenanceRecurs

\* A row that says it is in Qdrant is there, or a worker is about to send it: only
\* a summary is marked before it is sent, and only a death in between leaves the
\* mark without the point.  (lifecycle.ts:238, store.ts:514.)
SyncedIsFindable ==
    \A e \in DOMAIN entries : Live(e) /\ entries[e].synced /\ e \notin points =>
        /\ entries[e].kind = "summary"
        /\ \/ \E w \in Workers : work[w].at = "summarySync" /\ e \in work[w].ids
           \/ crashes > 0

\* A superseded entry has the entry that superseded it, whatever is pruned, rolled
\* back or superseded in turn.  (memory-entry.ts:107, 169; lifecycle.ts:283.)
SupersededHasSuccessor ==
    \A e \in DOMAIN entries : entries[e].state = "superseded" =>
        \E l \in links : l[2] = e /\ Live(l[1])

\* Two summaries of the same turn were in the making at once: the second cluster
\* was chosen before the first summary was stored.  (lifecycle.ts:172, the await
\* between choosing a cluster and marking it.)
SummariesApart ==
    \A s, t \in DOMAIN made : s < t /\ made[s].from \cap made[t].from # {} => made[t].since < s
=============================================================================
