------------------------ MODULE ProvenanceStoreProofs ------------------------
(***************************************************************************)
(* Proofs about ProvenanceStore, for every set of artifacts and tasks and  *)
(* every age: an untrusted artifact loses its taint only when it is old    *)
(* enough, when a collection overtakes what was written since it read, or  *)
(* in a restart.                                                           *)
(***************************************************************************)
EXTENDS ProvenanceStore, TLAPS

\* What a task is in the middle of.
Collecting == [pc: {"gc"}, cutoff: Nat, todo: SUBSET Ids]
Inserting == [pc: {"insert"}, id: Ids, entry: Entry]
Expiring == [pc: {"expire"}, id: Ids, entry: Entry, gc: Collecting]
TaskState == {Idle} \cup Collecting \cup Inserting \cup Expiring

Types ==
  /\ store \in [Ids -> Entry] /\ disk \in [Ids -> Entry]
  /\ clock \in 0 .. MaxClock
  /\ task \in [Tasks -> TaskState]

\* An entry of an untrusted origin, as it is recorded.
Firm(e) == e.source \in Untrusted => e.tainted = TRUE

\* An entry that is old enough at a time, and a cutoff a collection may work with then.
Aged(e, now) == e.seen + MaxAge < now
Past(cutoff, now) == cutoff = 0 \/ cutoff + MaxAge <= now

\* What the steps that take a taint away rest on: what is recorded or escalated is
\* tainted if its origin is not trusted, and what a collection is to write back was
\* old when it was read, for its cutoff stays in the past while the clock goes on.
Pending ==
  \A t \in Tasks :
    /\ task[t] \in Inserting => Firm(task[t].entry)
    /\ task[t] \in Expiring => Aged(task[t].entry, clock) /\ Past(task[t].gc.cutoff, clock)
    /\ task[t] \in Collecting => Past(task[t].cutoff, clock)

IInv == Types /\ Pending

-------------------------------------------------------------------------------
(* Lemmas about the operators.                                             *)

\* The states of a task are told apart by their pc.
LEMMA TaskStates ==
  ASSUME NEW s \in TaskState
  PROVE  /\ s.pc = "idle" <=> s = Idle
         /\ s.pc = "gc" <=> s \in Collecting
         /\ s.pc = "insert" <=> s \in Inserting
         /\ s.pc = "expire" <=> s \in Expiring
  BY DEF TaskState, Idle, Collecting, Inserting, Expiring

\* A recorded entry of an untrusted origin is tainted, whatever its parents.
LEMMA RecordedTainted ==
  ASSUME NEW source \in Source, NEW parents, NEW now \in Nat
  PROVE  Recorded(source, parents, now) \in Entry /\ Firm(Recorded(source, parents, now))
  BY DEF Recorded, Taints, Entry, Firm

\* What is old stays so, and what is past.
LEMMA TimeGoesOn ==
  ASSUME NEW now \in Nat, MaxAge \in Nat
  PROVE  /\ \A e \in Entry : Aged(e, now) => Aged(e, now + 1)
         /\ \A c \in Nat : Past(c, now) => Past(c, now + 1)
  BY DEF Aged, Past, Entry

\* The cutoff of a collection that begins is in the past.
LEMMA CutoffPast ==
  ASSUME clock \in Nat, MaxAge \in Nat
  PROVE  Cutoff \in Nat /\ Past(Cutoff, clock)
  BY DEF Cutoff, Past

\* An entry that was seen before such a cutoff is old.
LEMMA ExpiredAged ==
  ASSUME NEW e \in Entry, NEW c \in Nat, NEW now \in Nat, MaxAge \in Nat, Past(c, now), e.seen < c
  PROVE  Expired(e) \in Entry /\ Aged(Expired(e), now)
<1>1. Expired(e) \in Entry /\ Expired(e).seen = e.seen
  BY DEF Expired, Entry
<1>2. e.seen \in Nat
  BY DEF Entry
<1>3. c + MaxAge <= now
  BY <1>2 DEF Past
<1>4. e.seen + MaxAge < now
  BY <1>2, <1>3
<1> QED
  BY <1>1, <1>4 DEF Aged

\* What is left of a collection is one, with the same cutoff, or nothing.
LEMMA Resumed ==
  ASSUME NEW gc \in Collecting
  PROVE  Resume(gc) \in {Idle, gc}
  BY DEF Resume

\* A task that goes on: the others are where they were.
LEMMA Gone ==
  ASSUME NEW t \in Tasks, NEW next \in TaskState, task \in [Tasks -> TaskState], Goto(t, next)
  PROVE  /\ task' \in [Tasks -> TaskState]
         /\ \A u \in Tasks : task'[u] = IF u = t THEN next ELSE task[u]
  BY DEF Goto

-------------------------------------------------------------------------------
\* A step of a task from one state into another: the part of the invariant that
\* speaks of tasks needs to be looked at for the new state only.
LEMMA TaskStep ==
  ASSUME IInv, NEW t \in Tasks, NEW next \in TaskState, Goto(t, next), UNCHANGED clock,
         next \in Inserting => Firm(next.entry),
         next \in Expiring => Aged(next.entry, clock) /\ Past(next.gc.cutoff, clock),
         next \in Collecting => Past(next.cutoff, clock)
  PROVE  task' \in [Tasks -> TaskState] /\ Pending'
<1>1. /\ task' \in [Tasks -> TaskState]
      /\ \A u \in Tasks : task'[u] = IF u = t THEN next ELSE task[u]
  BY Gone DEF IInv, Types
<1>2. ASSUME NEW u \in Tasks
      PROVE  /\ task'[u] \in Inserting => Firm(task'[u].entry)
             /\ task'[u] \in Expiring => Aged(task'[u].entry, clock) /\ Past(task'[u].gc.cutoff, clock)
             /\ task'[u] \in Collecting => Past(task'[u].cutoff, clock)
  <2>1. CASE u = t
    BY <1>1, <2>1
  <2>2. CASE u # t
    <3>1. task'[u] = task[u]
      BY <1>1, <2>2
    <3> QED
      BY <3>1 DEF IInv, Pending
  <2> QED
    BY <2>1, <2>2
<1>3. Pending'
  BY <1>2 DEF Pending
<1> QED
  BY <1>1, <1>3

\* An access that writes nothing: only the task has to be looked at.
LEMMA ReadStep ==
  ASSUME IInv, NEW t \in Tasks, NEW next \in TaskState, Goto(t, next), UNCHANGED <<store, disk, clock>>,
         next \in Inserting => Firm(next.entry),
         next \in Expiring => Aged(next.entry, clock) /\ Past(next.gc.cutoff, clock),
         next \in Collecting => Past(next.cutoff, clock)
  PROVE  IInv'
<1>1. task' \in [Tasks -> TaskState] /\ Pending'
  BY TaskStep
<1> QED
  BY <1>1 DEF IInv, Types

\* An access that writes an entry.
LEMMA WriteStep ==
  ASSUME IInv, NEW t \in Tasks, NEW next \in TaskState, Goto(t, next), UNCHANGED <<disk, clock>>,
         next = Idle \/ (next \in Collecting /\ Past(next.cutoff, clock)),
         NEW a \in Ids, NEW e \in Entry, store' = [store EXCEPT ![a] = e]
  PROVE  IInv'
<1>1. task' \in [Tasks -> TaskState] /\ Pending'
  <2>1. next \notin Inserting /\ next \notin Expiring
    BY DEF Idle, Collecting, Inserting, Expiring
  <2>2. next \in Collecting => Past(next.cutoff, clock)
    BY DEF Idle, Collecting
  <2> QED
    BY <2>1, <2>2, TaskStep
<1>2. store' \in [Ids -> Entry]
  BY DEF IInv, Types
<1> QED
  BY <1>1, <1>2 DEF IInv, Types
-------------------------------------------------------------------------------
\* IInv is inductive, when the origins are sources and the age is a number.
LEMMA Inductive ==
  ASSUME Origins \subseteq Source, MaxAge \in Nat, MaxClock \in Nat
  PROVE  IInv /\ [Next]_vars => IInv'
<1> SUFFICES ASSUME IInv, [Next]_vars PROVE IInv'
  OBVIOUS
<1>1. /\ store \in [Ids -> Entry] /\ disk \in [Ids -> Entry] /\ task \in [Tasks -> TaskState]
      /\ clock \in Nat
  BY DEF IInv, Types
<1>2. ASSUME NEW t \in Tasks, RecordBegin(t) PROVE IInv'
  <2>1. PICK id \in Ids, source \in Origins, parents \in SUBSET Ids :
          Goto(t, Insert(id, Recorded(source, parents, clock)))
    BY <1>2 DEF RecordBegin
  <2> DEFINE e == Recorded(source, parents, clock)
  <2>2. e \in Entry /\ Firm(e)
    BY <1>1, RecordedTainted
  <2> HIDE DEF e
  <2>3. /\ Insert(id, e) \in TaskState /\ Insert(id, e).entry = e
        /\ Insert(id, e) \notin Expiring /\ Insert(id, e) \notin Collecting
    BY <2>2 DEF Insert, TaskState, Inserting, Expiring, Collecting
  <2>4. UNCHANGED <<store, disk, clock>>
    BY <1>2 DEF RecordBegin
  <2>5. Goto(t, Insert(id, e))
    BY <2>1 DEF e
  <2> QED
    BY <2>2, <2>3, <2>4, <2>5, ReadStep
<1>3. ASSUME NEW t \in Tasks, MarkTainted(t) PROVE IInv'
  <2>1. PICK id \in Ids : Goto(t, Insert(id, [store[id] EXCEPT !.tainted = TRUE, !.seen = clock]))
    BY <1>3 DEF MarkTainted
  <2> DEFINE e == [store[id] EXCEPT !.tainted = TRUE, !.seen = clock]
  <2>2. e \in Entry /\ Firm(e)
    BY <1>1 DEF Entry, Firm
  <2> HIDE DEF e
  <2>3. /\ Insert(id, e) \in TaskState /\ Insert(id, e).entry = e
        /\ Insert(id, e) \notin Expiring /\ Insert(id, e) \notin Collecting
    BY <2>2 DEF Insert, TaskState, Inserting, Expiring, Collecting
  <2>4. UNCHANGED <<store, disk, clock>>
    BY <1>3 DEF MarkTainted
  <2>5. Goto(t, Insert(id, e))
    BY <2>1 DEF e
  <2> QED
    BY <2>2, <2>3, <2>4, <2>5, ReadStep
<1>4. ASSUME NEW t \in Tasks, InsertEntry(t) PROVE IInv'
  <2>1. task[t] \in Inserting
    BY <1>1, <1>4, TaskStates DEF InsertEntry
  <2>2. task[t].id \in Ids /\ task[t].entry \in Entry
    BY <2>1 DEF Inserting
  <2>4. /\ Goto(t, Idle) /\ UNCHANGED <<disk, clock>>
        /\ store' = [store EXCEPT ![task[t].id] = task[t].entry]
    BY <1>4 DEF InsertEntry
  <2>5. Idle \in TaskState
    BY DEF TaskState
  <2> QED
    BY <2>2, <2>4, <2>5, WriteStep
<1>5. ASSUME NEW t \in Tasks, GcBegin(t) PROVE IInv'
  <2> DEFINE gc == [pc |-> "gc", cutoff |-> Cutoff, todo |-> Ids]
  <2>1. Cutoff \in Nat /\ Past(Cutoff, clock)
    BY <1>1, CutoffPast
  <2>2. /\ gc \in TaskState /\ gc.cutoff = Cutoff
        /\ gc \notin Inserting /\ gc \notin Expiring
    BY <2>1 DEF TaskState, Collecting, Inserting, Expiring
  <2>3. Goto(t, gc) /\ UNCHANGED <<store, disk, clock>>
    BY <1>5 DEF GcBegin
  <2> HIDE DEF gc
  <2> QED
    BY <2>1, <2>2, <2>3, ReadStep
<1>6. ASSUME NEW t \in Tasks, GcVisit(t) PROVE IInv'
  <2>1. task[t] \in Collecting
    BY <1>1, <1>6, TaskStates DEF GcVisit
  <2>2. task[t].cutoff \in Nat /\ Past(task[t].cutoff, clock)
    BY <2>1 DEF IInv, Pending, Collecting
  <2>3. PICK id \in task[t].todo :
          LET gc == [task[t] EXCEPT !.todo = @ \ {id}]
          IN  Goto(t, IF Old(store[id], task[t].cutoff)
                      THEN [pc |-> "expire", id |-> id, entry |-> Expired(store[id]), gc |-> gc]
                      ELSE Resume(gc))
    BY <1>6 DEF GcVisit
  <2> DEFINE gc == [task[t] EXCEPT !.todo = @ \ {id}]
  <2>4. id \in Ids /\ gc \in Collecting /\ gc.cutoff = task[t].cutoff
    BY <2>1 DEF Collecting
  <2>5. UNCHANGED <<store, disk, clock>>
    BY <1>6 DEF GcVisit
  <2> HIDE DEF gc
  <2>6. CASE Old(store[id], task[t].cutoff)
    <3> DEFINE e == Expired(store[id])
               next == [pc |-> "expire", id |-> id, entry |-> e, gc |-> gc]
    <3>1. e \in Entry /\ Aged(e, clock)
      BY <1>1, <2>2, <2>4, <2>6, ExpiredAged DEF Old
    <3>2. Goto(t, next)
      BY <2>3, <2>6 DEF gc
    <3> HIDE DEF e
    <3>3. /\ next \in TaskState /\ next.entry = e /\ next.gc = gc
          /\ next \notin Inserting /\ next \notin Collecting
      BY <2>4, <3>1 DEF TaskState, Inserting, Expiring, Collecting
    <3> HIDE DEF next
    <3> QED
      BY <2>2, <2>4, <2>5, <3>1, <3>2, <3>3, ReadStep
  <2>7. CASE ~Old(store[id], task[t].cutoff)
    <3>1. Goto(t, Resume(gc))
      BY <2>3, <2>7 DEF gc
    <3>2. Resume(gc) = Idle \/ Resume(gc) = gc
      BY <2>4, Resumed
    <3>3. CASE Resume(gc) = Idle
      <4>1. Idle \in TaskState /\ Idle \notin Inserting /\ Idle \notin Expiring /\ Idle \notin Collecting
        BY DEF TaskState, Idle, Inserting, Expiring, Collecting
      <4> QED
        BY <2>5, <3>1, <3>3, <4>1, ReadStep
    <3>4. CASE Resume(gc) = gc
      <4>1. gc \in TaskState /\ gc \notin Inserting /\ gc \notin Expiring
        BY <2>4 DEF TaskState, Inserting, Expiring, Collecting
      <4> QED
        BY <2>2, <2>4, <2>5, <3>1, <3>4, <4>1, ReadStep
    <3> QED
      BY <3>2, <3>3, <3>4
  <2> QED
    BY <2>6, <2>7
<1>7. ASSUME NEW t \in Tasks, GcInsert(t) PROVE IInv'
  <2>1. task[t] \in Expiring
    BY <1>1, <1>7, TaskStates DEF GcInsert
  <2>2. task[t].id \in Ids /\ task[t].entry \in Entry /\ task[t].gc \in Collecting
    BY <2>1 DEF Expiring
  <2>3. Past(task[t].gc.cutoff, clock)
    BY <2>1 DEF IInv, Pending
  <2>4. /\ Goto(t, Resume(task[t].gc)) /\ UNCHANGED <<disk, clock>>
        /\ store' = [store EXCEPT ![task[t].id] = task[t].entry]
    BY <1>7 DEF GcInsert
  <2>5. Resume(task[t].gc) = Idle \/ Resume(task[t].gc) = task[t].gc
    BY <2>2, Resumed
  <2>6. Resume(task[t].gc) \in TaskState
    BY <2>2, <2>5 DEF TaskState
  <2> QED
    BY <2>2, <2>3, <2>4, <2>5, <2>6, WriteStep
<1>8. ASSUME NEW t \in Tasks, Fail(t) PROVE IInv'
  <2>1. Goto(t, Idle) /\ UNCHANGED <<store, disk, clock>>
    BY <1>8 DEF Fail
  <2>2. Idle \in TaskState /\ Idle \notin Inserting /\ Idle \notin Expiring /\ Idle \notin Collecting
    BY DEF TaskState, Idle, Inserting, Expiring, Collecting
  <2> QED
    BY <2>1, <2>2, ReadStep
<1>9. Flush => IInv'
  BY DEF Flush, IInv, Types, Pending
<1>10. ASSUME Restart PROVE IInv'
  <2>1. store' = disk /\ UNCHANGED <<disk, clock>> /\ task' = [t \in Tasks |-> Idle]
    BY <1>10 DEF Restart
  <2>2. Idle \in TaskState /\ Idle \notin Inserting /\ Idle \notin Expiring /\ Idle \notin Collecting
    BY DEF TaskState, Idle, Inserting, Expiring, Collecting
  <2>3. task' \in [Tasks -> TaskState] /\ Pending'
    BY <2>1, <2>2 DEF Pending
  <2> QED
    BY <2>1, <2>3 DEF IInv, Types
<1>11. ASSUME Tick PROVE IInv'
  <2>1. clock' = clock + 1 /\ clock' \in 0 .. MaxClock /\ UNCHANGED <<store, disk, task>>
    BY <1>1, <1>11 DEF Tick, IInv, Types
  <2>3. ASSUME NEW t \in Tasks
        PROVE  /\ task[t] \in Inserting => Firm(task[t].entry)
               /\ task[t] \in Expiring => Aged(task[t].entry, clock + 1) /\ Past(task[t].gc.cutoff, clock + 1)
               /\ task[t] \in Collecting => Past(task[t].cutoff, clock + 1)
    <3>1. CASE task[t] \in Inserting
      <4>1. task[t].entry \in Entry /\ task[t] \notin Expiring /\ task[t] \notin Collecting
        BY <3>1 DEF Inserting, Expiring, Collecting
      <4> QED
        BY <1>1, <3>1, <4>1, TimeGoesOn DEF IInv, Pending
    <3>2. CASE task[t] \in Expiring
      <4>1. /\ task[t].entry \in Entry /\ task[t].gc.cutoff \in Nat
            /\ task[t] \notin Inserting /\ task[t] \notin Collecting
        BY <3>2 DEF Inserting, Expiring, Collecting
      <4> QED
        BY <1>1, <3>2, <4>1, TimeGoesOn DEF IInv, Pending
    <3>3. CASE task[t] \in Collecting
      <4>1. task[t].cutoff \in Nat /\ task[t] \notin Inserting /\ task[t] \notin Expiring
        BY <3>3 DEF Inserting, Expiring, Collecting
      <4> QED
        BY <1>1, <3>3, <4>1, TimeGoesOn DEF IInv, Pending
    <3> QED
      BY <3>1, <3>2, <3>3
  <2>4. Pending'
    BY <2>1, <2>3 DEF Pending
  <2> QED
    BY <2>1, <2>4 DEF IInv, Types
<1>12. UNCHANGED vars => IInv'
  BY DEF vars, IInv, Types, Pending
<1> QED
  BY <1>2, <1>3, <1>4, <1>5, <1>6, <1>7, <1>8, <1>9, <1>10, <1>11, <1>12 DEF Next, Operation

\* Nothing is in the store, and no task under way.
LEMMA Initial ==
  ASSUME MaxClock \in Nat
  PROVE  Init => IInv
<1> SUFFICES ASSUME Init PROVE IInv
  OBVIOUS
<1>1. NoEntry \in Entry
  BY DEF NoEntry, Entry, Source
<1>2. Idle \in TaskState /\ Idle \notin Inserting /\ Idle \notin Expiring /\ Idle \notin Collecting
  BY DEF TaskState, Idle, Inserting, Expiring, Collecting
<1>3. store = [id \in Ids |-> NoEntry] /\ disk = store /\ clock = 0 /\ task = [t \in Tasks |-> Idle]
  BY DEF Init, StoreInit
<1>4. Types /\ Pending
  BY <1>1, <1>2, <1>3 DEF Types, Pending
<1> QED
  BY <1>1, <1>3, <1>4 DEF IInv

\* What a step takes the taint of was old, or overtaken, or taken back by a restart.
LEMMA TaintGoes ==
  ASSUME IInv, [Next]_vars, NEW id \in Ids, MaxAge \in Nat,
         store[id].tainted, store'[id].source \in Untrusted, ~store'[id].tainted
  PROVE  \/ store[id].seen + MaxAge < clock
         \/ \E t \in Tasks : Overtakes(t, id)
         \/ Restart
<1>1. store \in [Ids -> Entry] /\ task \in [Tasks -> TaskState]
  BY DEF IInv, Types
<1>2. store' # store
  OBVIOUS
<1>3. ASSUME NEW t \in Tasks, InsertEntry(t)
      PROVE  FALSE
  <2>1. task[t] \in Inserting /\ store' = [store EXCEPT ![task[t].id] = task[t].entry]
    BY <1>1, <1>3, TaskStates DEF InsertEntry
  <2>2. Firm(task[t].entry)
    BY <2>1 DEF IInv, Pending
  <2>3. store'[id] = store[id] \/ store'[id] = task[t].entry
    BY <1>1, <2>1
  <2> QED
    BY <2>2, <2>3 DEF Firm
<1>4. ASSUME NEW t \in Tasks, GcInsert(t)
      PROVE  store[id].seen + MaxAge < clock \/ Overtakes(t, id)
  <2>1. /\ task[t] \in Expiring /\ task[t].pc = "expire"
        /\ store' = [store EXCEPT ![task[t].id] = task[t].entry]
    BY <1>1, <1>4, TaskStates DEF GcInsert
  <2>2. Aged(task[t].entry, clock)
    BY <2>1 DEF IInv, Pending
  <2>3. task[t].id = id
    BY <1>1, <2>1
  <2>4. Expired(store[id]).seen = store[id].seen
    BY <1>1 DEF Expired, Entry
  <2>5. CASE task[t].entry = Expired(store[id])
    BY <2>2, <2>4, <2>5 DEF Aged
  <2>6. CASE task[t].entry # Expired(store[id])
    BY <2>1, <2>3, <2>6 DEF Overtakes
  <2> QED
    BY <2>5, <2>6
<1>5. Restart \/ \E t \in Tasks : InsertEntry(t) \/ GcInsert(t)
  BY <1>2 DEF Next, Operation, vars, Flush, Tick, RecordBegin, MarkTainted, GcBegin, GcVisit, Fail
<1> QED
  BY <1>3, <1>4, <1>5

\* gc_taint "Untaints artifacts whose `last_seen` is older than the cutoff"
\* (src/src/provenance.rs:153-154) and, a collection that overtakes what was written
\* since it read and a restart apart, nothing does it otherwise: for every set of tasks,
\* artifacts and sources and every age, through any interleaving of records,
\* escalations, collections, failures, flushes and restarts.
THEOREM TaintExpires ==
  ASSUME Origins \subseteq Source, MaxAge \in Nat, MaxClock \in Nat
  PROVE  Spec => TaintOnlyExpires
<1>1. Init => IInv
  BY Initial
<1>2. IInv /\ [Next]_vars => IInv'
  BY Inductive
<1>3. IInv /\ [Next]_vars =>
        [\A id \in Ids :
           LET before == store[id]
               after == store'[id]
           IN  before.tainted /\ {before.source, after.source} \subseteq Untrusted /\ ~after.tainted
                 => \/ before.seen + MaxAge < clock
                    \/ \E t \in Tasks : Overtakes(t, id)
                    \/ Restart]_vars
  BY TaintGoes
<1> QED
  BY <1>1, <1>2, <1>3, PTL DEF Spec, TaintOnlyExpires

\* The inductive invariant has the types.
LEMMA StoreTyped == IInv => TypeOK
<1> SUFFICES ASSUME IInv, NEW t \in Tasks
             PROVE  \/ task[t] = Idle
                    \/ task[t] \in [pc: {"gc"}, cutoff: Nat, todo: SUBSET Ids]
                    \/ task[t] \in [pc: {"insert"}, id: Ids, entry: Entry]
                    \/ /\ task[t].pc = "expire" /\ task[t].id \in Ids /\ task[t].entry \in Entry
                       /\ task[t].gc \in [pc: {"gc"}, cutoff: Nat, todo: SUBSET Ids]
  BY DEF IInv, Types, TypeOK
<1>1. task[t] \in TaskState
  BY DEF IInv, Types
<1> QED
  BY <1>1 DEF TaskState, Collecting, Inserting, Expiring

\* The store's entries, its flushed copy and what a task holds keep their types
\* (src/src/provenance.rs, struct Provenance).
THEOREM ProvenanceTypes ==
  ASSUME Origins \subseteq Source, MaxAge \in Nat, MaxClock \in Nat
  PROVE  Spec => []TypeOK
<1>1. Init => IInv
  BY Initial
<1>2. IInv /\ [Next]_vars => IInv'
  BY Inductive
<1> QED
  BY <1>1, <1>2, StoreTyped, PTL DEF Spec
===============================================================================
