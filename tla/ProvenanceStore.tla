--------------------------- MODULE ProvenanceStore ---------------------------
(***************************************************************************)
(* The operations of the provenance store (src/src/provenance.rs) as tasks *)
(* that share one embedded database: an access to the database is a step,  *)
(* so a record, an escalation or a collection reads, and writes later what *)
(* it made of it.  The engine's own use of the store is in DefenseEngine.  *)
(***************************************************************************)
EXTENDS Provenance

CONSTANTS Tasks,    \* threads that share the store
          Origins,  \* the origins artifacts are recorded with
          MaxAge,   \* max_age_secs of the collections
          MaxClock  \* bound on the wall clock

VARIABLES
  disk,   \* what was flushed of the store
  clock,  \* now_ts
  task    \* per task: what it read, and is about to write

vars == <<store, disk, clock, task>>

Idle == [pc |-> "idle"]

\* open: no artifacts the first time.
Init ==
  /\ StoreInit /\ disk = store
  /\ clock = 0 /\ task = [t \in Tasks |-> Idle]

-------------------------------------------------------------------------------
Goto(t, next) == task' = [task EXCEPT ![t] = next]
Insert(id, e) == [pc |-> "insert", id |-> id, entry |-> e]

\* record: the parents' taint is looked up first.
RecordBegin(t) ==
  /\ task[t] = Idle
  /\ \E id \in Ids, source \in Origins, parents \in SUBSET Ids :
       Goto(t, Insert(id, Recorded(source, parents, clock)))
  /\ UNCHANGED <<store, disk, clock>>

\* mark_tainted: nothing is done for an artifact that is not known.
MarkTainted(t) ==
  /\ task[t] = Idle
  /\ \E id \in Ids :
       /\ store[id].known
       /\ Goto(t, Insert(id, [store[id] EXCEPT !.tainted = TRUE, !.seen = clock]))
  /\ UNCHANGED <<store, disk, clock>>

InsertEntry(t) ==
  /\ task[t].pc = "insert"
  /\ store' = [store EXCEPT ![task[t].id] = task[t].entry]
  /\ Goto(t, Idle)
  /\ UNCHANGED <<disk, clock>>

\* saturating_sub: no entry is older than the beginning.
Cutoff == IF clock > MaxAge THEN clock - MaxAge ELSE 0

\* gc_taint visits the artifacts one by one, with one cutoff.
GcBegin(t) ==
  /\ task[t] = Idle
  /\ Goto(t, [pc |-> "gc", cutoff |-> Cutoff, todo |-> Ids])
  /\ UNCHANGED <<store, disk, clock>>

\* The rest of the visits.
Resume(gc) == IF gc.todo = {} THEN Idle ELSE gc

\* A slip the checks must notice: an entry of exactly the age counted as older.
Old_AtAge(e, cutoff) == e.known /\ e.tainted /\ e.seen <= cutoff

\* The entry of an artifact whose taint has expired, and what it becomes.
Old(e, cutoff) == e.known /\ e.tainted /\ e.seen < cutoff
Expired(e) == [e EXCEPT !.tainted = FALSE]

GcVisit(t) ==
  /\ task[t].pc = "gc"
  /\ \E id \in task[t].todo :
       LET e == store[id]
           gc == [task[t] EXCEPT !.todo = @ \ {id}]
       IN  Goto(t, IF Old(e, task[t].cutoff)
                   THEN [pc |-> "expire", id |-> id, entry |-> Expired(e), gc |-> gc]
                   ELSE Resume(gc))
  /\ UNCHANGED <<store, disk, clock>>

\* What was read is written back untainted, whatever was written since.
GcInsert(t) ==
  /\ task[t].pc = "expire"
  /\ store' = [store EXCEPT ![task[t].id] = task[t].entry]
  /\ Goto(t, Resume(task[t].gc))
  /\ UNCHANGED <<disk, clock>>

\* Every access may fail; the operation ends there.
Fail(t) ==
  /\ task[t] # Idle
  /\ Goto(t, Idle)
  /\ UNCHANGED <<store, disk, clock>>

\* flush, or the database's own every 500 ms.
Flush == disk' = store /\ UNCHANGED <<store, clock, task>>

\* The process ends before a flush, and opens the store again.
Restart ==
  /\ store' = disk
  /\ task' = [t \in Tasks |-> Idle]
  /\ UNCHANGED <<disk, clock>>

Tick == clock < MaxClock /\ clock' = clock + 1 /\ UNCHANGED <<store, disk, task>>

Operation(t) ==
  \/ RecordBegin(t) \/ MarkTainted(t) \/ InsertEntry(t)
  \/ GcBegin(t) \/ GcVisit(t) \/ GcInsert(t) \/ Fail(t)

Next == Flush \/ Restart \/ Tick \/ \E t \in Tasks : Operation(t)

Spec == Init /\ [][Next]_vars

-------------------------------------------------------------------------------
\* Type correctness of the store, its flushed copy and what a task holds
\* between two accesses.
TypeOK ==
  /\ store \in [Ids -> Entry] /\ disk \in [Ids -> Entry]
  /\ clock \in 0 .. MaxClock
  /\ \A t \in Tasks :
       \/ task[t] = Idle
       \/ task[t] \in [pc: {"gc"}, cutoff: Nat, todo: SUBSET Ids]
       \/ task[t] \in [pc: {"insert"}, id: Ids, entry: Entry]
       \/ /\ task[t].pc = "expire" /\ task[t].id \in Ids /\ task[t].entry \in Entry
          /\ task[t].gc \in [pc: {"gc"}, cutoff: Nat, todo: SUBSET Ids]

\* A collection about to write back what an artifact was before its last record or
\* escalation.
Overtakes(t, id) ==
  task[t].pc = "expire" /\ task[t].id = id /\ task[t].entry # Expired(store[id])

\* "Untaints artifacts whose `last_seen` is older than the cutoff"
\* (src/src/provenance.rs:153-154), where a new fetch "only escalates taint" (30-31,
\* 76-77): an artifact of an untrusted origin loses its taint in a step only when what
\* the store has of it before that step was last seen longer ago than the age.  The
\* code has two exceptions.  A collection that read the entry before it was recorded or
\* escalated again (173) writes it back untainted, however fresh the taint it
\* overwrites; and a restart takes back what was not flushed.  (A record that began
\* earlier and is written later sets last_seen back by what its call took; a record of
\* a trusted origin under the same id replaces the source and its taint.)
TaintOnlyExpires ==
  [][\A id \in Ids :
       LET before == store[id]
           after == store'[id]
       IN  before.tainted /\ {before.source, after.source} \subseteq Untrusted /\ ~after.tainted
             => \/ before.seen + MaxAge < clock
                \/ \E t \in Tasks : Overtakes(t, id)
                \/ Restart
    ]_vars
=============================================================================
