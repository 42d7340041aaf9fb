--------------------------- MODULE QuarantineProofs ---------------------------
(***************************************************************************)
(* Proofs about Quarantine, for every set of tasks, paths and payloads:    *)
(* types, and what is held has its file.                                   *)
(***************************************************************************)
EXTENDS Quarantine, WellFoundedInduction, SequenceTheorems, TLAPS

Busy(t) == task[t].pc # "idle"

\* What makes HeldHasFile inductive: the numbers of files in use, by entries
\* and by intakes under way, are below the counter and pairwise different; and
\* an intake about to be listed has written its file.
NumbersInUse ==
  /\ \A i \in DOMAIN entries : entries[i].no < counter
  /\ \A i \in DOMAIN entries : ~entries[i].released => entries[i].no # 0
  /\ \A t \in Threads : Busy(t) => task[t].no \in 1 .. counter - 1

NumbersDistinct ==
  /\ \A i, j \in DOMAIN entries : i # j /\ entries[i].no # 0 => entries[i].no # entries[j].no
  /\ \A t, u \in Threads : t # u /\ Busy(t) /\ Busy(u) => task[t].no # task[u].no
  /\ \A t \in Threads, i \in DOMAIN entries : Busy(t) => task[t].no # entries[i].no

WrittenIsWhole == \A t \in Threads : task[t].pc = "push" => files[FileOf(t)] = "whole"

IInv == TypeOK /\ NumbersInUse /\ NumbersDistinct /\ WrittenIsWhole /\ HeldHasFile

-------------------------------------------------------------------------------
(* Lemmas about the operators.                                             *)

\* First picks the least position of a set of positions.
LEMMA FirstIn ==
  ASSUME NEW S \in SUBSET Nat, S # {}
  PROVE  First(S) \in S /\ \A j \in S : First(S) <= j
<1> DEFINE R == OpToRel(<, Nat)
<1>1. IsWellFoundedOn(R, Nat)
  BY NatLessThanWellFounded
<1>2. PICK x \in S : \A y \in S : <<y, x>> \notin R
  <2> HIDE DEF R
  <2> QED BY <1>1, WFMin
<1>3. \A y \in S : x <= y
  <2>1. ASSUME NEW y \in S PROVE x <= y
    <3>1. <<y, x>> \notin R
      BY <1>2
    <3>2. ~ (y < x)
      BY <3>1 DEF OpToRel
    <3> QED BY <3>2
  <2> QED BY <2>1
<1> QED
  BY <1>3 DEF First

\* RemoveAt closes the gap: what stood behind moves up by one.
LEMMA Removed ==
  ASSUME NEW S, NEW s \in Seq(S), NEW i \in DOMAIN s
  PROVE  /\ RemoveAt(s, i) \in Seq(S)
         /\ Len(RemoveAt(s, i)) = Len(s) - 1
         /\ \A k \in DOMAIN RemoveAt(s, i) : RemoveAt(s, i)[k] = s[IF k < i THEN k ELSE k + 1]
<1> DEFINE a == SubSeq(s, 1, i - 1)
           b == SubSeq(s, i + 1, Len(s))
<1>1. /\ Len(s) \in Nat /\ DOMAIN s = 1 .. Len(s) /\ i \in 1 .. Len(s)
      /\ \A k \in DOMAIN s : s[k] \in S
  OBVIOUS
<1>2. /\ a \in Seq(S) /\ Len(a) = i - 1
      /\ \A k \in 1 .. i - 1 : a[k] = s[k]
  BY <1>1, SubSeqProperties
<1>3. /\ b \in Seq(S) /\ Len(b) = Len(s) - i
      /\ \A k \in 1 .. Len(s) - i : b[k] = s[i + k]
  BY <1>1, SubSeqProperties
<1> HIDE DEF a, b
<1>4. /\ a \o b \in Seq(S) /\ Len(a \o b) = Len(a) + Len(b)
      /\ \A k \in 1 .. Len(a) + Len(b) :
           (a \o b)[k] = IF k <= Len(a) THEN a[k] ELSE b[k - Len(a)]
  BY <1>2, <1>3, ConcatProperties
<1>5. Len(a) + Len(b) = Len(s) - 1
  BY <1>1, <1>2, <1>3
<1>6. ASSUME NEW k \in 1 .. Len(s) - 1
      PROVE  (a \o b)[k] = s[IF k < i THEN k ELSE k + 1]
  <2>1. (a \o b)[k] = IF k <= Len(a) THEN a[k] ELSE b[k - Len(a)]
    BY <1>4, <1>5
  <2>2. CASE k < i
    <3>1. k \in 1 .. i - 1 /\ k <= Len(a)
      BY <1>1, <1>2, <2>2
    <3> QED
      BY <2>1, <2>2, <3>1, <1>2
  <2>3. CASE ~(k < i)
    <3>1. k - Len(a) \in 1 .. Len(s) - i /\ ~(k <= Len(a)) /\ i + (k - Len(a)) = k + 1
      BY <1>1, <1>2, <2>3
    <3> QED
      BY <2>1, <2>3, <3>1, <1>3
  <2> QED
    BY <2>2, <2>3
<1>7. RemoveAt(s, i) = a \o b
  BY DEF RemoveAt, a, b
<1>8. DOMAIN (a \o b) = 1 .. Len(s) - 1
  BY <1>4, <1>5
<1> QED
  BY <1>4, <1>5, <1>6, <1>7, <1>8

\* Numbers of entries are numbers below the counter.
LEMMA EntryNumbers ==
  ASSUME TypeOK, NumbersInUse, NEW i \in DOMAIN entries
  PROVE  /\ entries[i] \in Entry /\ entries[i].no \in Nat /\ entries[i].no # counter
         /\ counter \in Nat
<1>1. entries[i] \in Entry
  BY ElementOfSeq DEF TypeOK
<1>2. entries[i].no \in Nat /\ counter \in Nat
  BY <1>1, QuarantineAssumption DEF Entry, FileNo, TypeOK
<1> QED
  BY <1>1, <1>2 DEF NumbersInUse

-------------------------------------------------------------------------------
(* IInv holds at the start and is kept by every action.                    *)

LEMMA InitInv == Init => IInv
  BY QuarantineAssumption, Z3
  DEF Init, StoreInit, IInv, TypeOK, NumbersInUse, NumbersDistinct, WrittenIsWhole,
      HeldHasFile, Idle, Busy, FileNo, Entry

\* A listed intake brings a new number, or none.
LEMMA IntakeAllowedInv ==
  ASSUME IInv, NEW t \in Threads, NEW p \in Paths, NEW c \in Contents, IntakeAllowed(t, p, c)
  PROVE  IInv'
<1> DEFINE e == EntryOf(p, c, 0, TRUE)
<1>1. e \in Entry /\ e.no = 0 /\ e.released
  BY QuarantineAssumption DEF Entry, EntryOf, FileNo
<1> HIDE DEF e
<1>2. /\ entries' = Append(entries, e) /\ entries \in Seq(Entry)
      /\ UNCHANGED <<counter, allow, files, targets, task, reply>>
      /\ Len(entries) < MaxEntries
  BY DEF IntakeAllowed, IInv, TypeOK, e, Room
<1>3. /\ entries' \in Seq(Entry) /\ Len(entries') = Len(entries) + 1
      /\ DOMAIN entries' = 1 .. Len(entries) + 1
      /\ \A i \in DOMAIN entries : entries'[i] = entries[i]
      /\ entries'[Len(entries) + 1] = e
      /\ DOMAIN entries = 1 .. Len(entries) /\ Len(entries) \in Nat
  BY <1>1, <1>2, AppendProperties
<1>4. TypeOK'
  BY <1>2, <1>3, QuarantineAssumption DEF IInv, TypeOK
<1>5. NumbersInUse'
  BY <1>1, <1>2, <1>3 DEF IInv, TypeOK, NumbersInUse, Busy
<1>6. NumbersDistinct'
  BY <1>1, <1>2, <1>3 DEF IInv, TypeOK, NumbersInUse, NumbersDistinct, Busy
<1>7. WrittenIsWhole' /\ HeldHasFile'
  BY <1>1, <1>2, <1>3 DEF IInv, WrittenIsWhole, HeldHasFile, FileOf
<1> QED
  BY <1>4, <1>5, <1>6, <1>7 DEF IInv

LEMMA IntakeBeginInv ==
  ASSUME IInv, NEW t \in Threads, NEW p \in Paths, NEW c \in Contents, IntakeBegin(t, p, c)
  PROVE  IInv'
<1> DEFINE new == [pc |-> "create", path |-> p, sha |-> c, no |-> counter]
<1>1. /\ counter \in 1 .. MaxEntries /\ counter' = counter + 1
      /\ task' = [task EXCEPT ![t] = new]
      /\ UNCHANGED <<entries, allow, files, targets, reply>>
  BY DEF IntakeBegin, Goto, IInv, TypeOK
<1>2. task'[t] = new /\ \A u \in Threads : u # t => task'[u] = task[u]
  BY <1>1 DEF IInv, TypeOK
<1>3. TypeOK'
  BY <1>1, QuarantineAssumption DEF IInv, TypeOK, FileNo
<1>4. NumbersInUse'
  <2>1. \A i \in DOMAIN entries : entries[i].no < counter + 1
    <3>1. ASSUME NEW i \in DOMAIN entries PROVE entries[i].no < counter + 1
      <4>1. entries[i].no \in Nat /\ counter \in Nat
        BY EntryNumbers DEF IInv
      <4> QED
        BY <4>1 DEF IInv, NumbersInUse
    <3> QED BY <3>1
  <2>2. \A u \in Threads : Busy(u)' => task'[u].no \in 1 .. counter'- 1
    BY <1>1, <1>2, QuarantineAssumption DEF IInv, NumbersInUse, Busy
  <2> QED
    BY <1>1, <2>1, <2>2 DEF IInv, NumbersInUse, Busy
<1>5. NumbersDistinct'
  <2>1. \A i \in DOMAIN entries : entries[i].no # counter
    BY EntryNumbers DEF IInv, TypeOK
  <2>2. \A u \in Threads : u # t /\ Busy(u)' => Busy(u) /\ task'[u].no # counter
    BY <1>1, <1>2, QuarantineAssumption DEF IInv, NumbersInUse, Busy
  <2>3. Busy(t)' => task'[t].no = counter
    BY <1>2
  <2>4. \A u, v \in Threads : u # v /\ Busy(u)' /\ Busy(v)' => task'[u].no # task'[v].no
    BY <1>2, <2>2, <2>3 DEF IInv, NumbersDistinct
  <2>5. \A u \in Threads, i \in DOMAIN entries : Busy(u)' => task'[u].no # entries[i].no
    BY <1>2, <2>1, <2>2, <2>3 DEF IInv, NumbersDistinct
  <2> QED
    BY <1>1, <2>4, <2>5 DEF IInv, NumbersDistinct
<1>6. WrittenIsWhole' /\ HeldHasFile'
  BY <1>1, <1>2 DEF IInv, WrittenIsWhole, HeldHasFile, FileOf
<1> QED
  BY <1>3, <1>4, <1>5, <1>6 DEF IInv

\* A step of an intake that keeps its number, or ends it, disturbs neither the
\* entries nor the numbers of the others.
LEMMA KeepNumbers ==
  ASSUME IInv, NEW t \in Threads, Busy(t), NEW next,
         UNCHANGED <<entries, counter, allow, targets>>, task' = [task EXCEPT ![t] = next],
         \/ next = Idle
         \/ next.no = task[t].no
  PROVE  NumbersInUse' /\ NumbersDistinct'
<1>1. task'[t] = next /\ \A u \in Threads : u # t => task'[u] = task[u]
  BY DEF IInv, TypeOK
<1>2. \A u \in Threads : Busy(u)' => Busy(u) /\ task'[u].no = task[u].no
  BY <1>1 DEF Busy, Idle
<1>3. NumbersInUse'
  BY <1>2 DEF IInv, NumbersInUse
<1>4. NumbersDistinct'
  BY <1>2 DEF IInv, NumbersDistinct
<1> QED
  BY <1>3, <1>4

LEMMA CreateInv ==
  ASSUME IInv, NEW t \in Threads, Create(t)
  PROVE  IInv'
<1>1. Busy(t) /\ task[t].pc = "create" /\ UNCHANGED <<entries, counter, allow, targets>>
  BY DEF Create, Busy, store
<1>2. task[t] \in [pc: {"create", "write", "push"}, path: Paths, sha: Contents, no: FileNo]
  BY <1>1 DEF IInv, TypeOK, Idle
<1>3. FileOf(t) \in Contents \X FileNo
  BY <1>2 DEF FileOf
<1>4. CASE UNCHANGED files /\ task' = [task EXCEPT ![t] = Idle]
  <2>1. TypeOK'
    BY <1>1, <1>4 DEF IInv, TypeOK
  <2>2. NumbersInUse' /\ NumbersDistinct'
    BY <1>1, <1>4, KeepNumbers
  <2>3. WrittenIsWhole' /\ HeldHasFile'
    BY <1>1, <1>4 DEF IInv, TypeOK, WrittenIsWhole, HeldHasFile, FileOf, Idle
  <2> QED
    BY <2>1, <2>2, <2>3 DEF IInv
<1>5. CASE /\ files' = [files EXCEPT ![FileOf(t)] = "partial"]
           /\ task' = [task EXCEPT ![t] = [task[t] EXCEPT !.pc = "write"]]
  <2> DEFINE next == [task[t] EXCEPT !.pc = "write"]
  <2>1. /\ next \in [pc: {"create", "write", "push"}, path: Paths, sha: Contents, no: FileNo]
        /\ next.no = task[t].no /\ next.pc = "write" /\ next.sha = task[t].sha
    BY <1>2
  <2> HIDE DEF next
  <2>2. TypeOK'
    BY <1>1, <1>3, <1>5, <2>1 DEF IInv, TypeOK, next
  <2>3. NumbersInUse' /\ NumbersDistinct'
    BY <1>1, <1>5, <2>1, KeepNumbers DEF next
  <2>4. \A f \in Contents \X FileNo : f # FileOf(t) => files'[f] = files[f]
    BY <1>3, <1>5 DEF IInv, TypeOK
  <2>5. WrittenIsWhole'
    <3>1. ASSUME NEW u \in Threads, task'[u].pc = "push" PROVE files'[FileOf(u)'] = "whole"
      <4>1. u # t /\ task'[u] = task[u] /\ Busy(u)
        BY <3>1, <1>5, <2>1 DEF IInv, TypeOK, next, Busy
      <4>2. FileOf(u) \in Contents \X FileNo /\ FileOf(u) # FileOf(t) /\ FileOf(u)' = FileOf(u)
        BY <1>1, <4>1 DEF IInv, TypeOK, NumbersDistinct, FileOf, Busy, Idle
      <4> QED
        BY <3>1, <4>1, <4>2, <2>4 DEF IInv, WrittenIsWhole
    <3> QED
      BY <3>1 DEF WrittenIsWhole
  <2>6. HeldHasFile'
    <3>1. ASSUME NEW i \in DOMAIN entries, ~entries[i].released
          PROVE  files'[<<entries[i].sha, entries[i].no>>] = "whole"
      <4>1. entries[i] \in Entry /\ task[t].no # entries[i].no
        BY <1>1, EntryNumbers DEF IInv, NumbersDistinct
      <4>2. /\ <<entries[i].sha, entries[i].no>> \in Contents \X FileNo
            /\ <<entries[i].sha, entries[i].no>> # FileOf(t)
        BY <4>1 DEF Entry, FileOf
      <4> QED
        BY <3>1, <4>2, <2>4 DEF IInv, HeldHasFile
    <3> QED
      BY <1>1, <3>1 DEF HeldHasFile
  <2> QED
    BY <2>2, <2>3, <2>5, <2>6 DEF IInv
<1> QED
  BY <1>4, <1>5 DEF Create, Goto

LEMMA WriteInv ==
  ASSUME IInv, NEW t \in Threads, Write(t)
  PROVE  IInv'
<1>1. Busy(t) /\ task[t].pc = "write" /\ UNCHANGED <<entries, counter, allow, targets>>
  BY DEF Write, Busy, store
<1>2. task[t] \in [pc: {"create", "write", "push"}, path: Paths, sha: Contents, no: FileNo]
  BY <1>1 DEF IInv, TypeOK, Idle
<1>3. FileOf(t) \in Contents \X FileNo
  BY <1>2 DEF FileOf
<1>4. CASE UNCHANGED files /\ task' = [task EXCEPT ![t] = Idle]
  <2>1. TypeOK'
    BY <1>1, <1>4 DEF IInv, TypeOK
  <2>2. NumbersInUse' /\ NumbersDistinct'
    BY <1>1, <1>4, KeepNumbers
  <2>3. WrittenIsWhole' /\ HeldHasFile'
    BY <1>1, <1>4 DEF IInv, TypeOK, WrittenIsWhole, HeldHasFile, FileOf, Idle
  <2> QED
    BY <2>1, <2>2, <2>3 DEF IInv
<1>5. CASE /\ files' = [files EXCEPT ![FileOf(t)] = "whole"]
           /\ task' = [task EXCEPT ![t] = [task[t] EXCEPT !.pc = "push"]]
  <2> DEFINE next == [task[t] EXCEPT !.pc = "push"]
  <2>1. /\ next \in [pc: {"create", "write", "push"}, path: Paths, sha: Contents, no: FileNo]
        /\ next.no = task[t].no /\ next.sha = task[t].sha
    BY <1>2
  <2> HIDE DEF next
  <2>2. TypeOK'
    BY <1>1, <1>3, <1>5, <2>1 DEF IInv, TypeOK, next
  <2>3. NumbersInUse' /\ NumbersDistinct'
    BY <1>1, <1>5, <2>1, KeepNumbers DEF next
  <2>4. \A f \in Contents \X FileNo : files'[f] = "whole" \/ (f # FileOf(t) /\ files'[f] = files[f])
    BY <1>3, <1>5 DEF IInv, TypeOK
  <2>5. WrittenIsWhole'
    <3>1. ASSUME NEW u \in Threads, task'[u].pc = "push" PROVE files'[FileOf(u)'] = "whole"
      <4>1. CASE u = t
        <5>1. FileOf(u)' = FileOf(t)
          BY <4>1, <1>5, <2>1 DEF IInv, TypeOK, FileOf, next
        <5> QED
          BY <5>1, <1>3, <2>4
      <4>2. CASE u # t
        <5>1. task'[u] = task[u]
          BY <4>2, <1>5 DEF IInv, TypeOK
        <5>2. FileOf(u)' = FileOf(u) /\ FileOf(u) \in Contents \X FileNo
          BY <3>1, <5>1 DEF IInv, TypeOK, FileOf, Idle
        <5> QED
          BY <3>1, <5>1, <5>2, <2>4 DEF IInv, WrittenIsWhole
      <4> QED
        BY <4>1, <4>2
    <3> QED
      BY <3>1 DEF WrittenIsWhole
  <2>6. HeldHasFile'
    <3>1. ASSUME NEW i \in DOMAIN entries, ~entries[i].released
          PROVE  files'[<<entries[i].sha, entries[i].no>>] = "whole"
      <4>1. entries[i] \in Entry
        BY EntryNumbers DEF IInv
      <4>2. <<entries[i].sha, entries[i].no>> \in Contents \X FileNo
        BY <4>1 DEF Entry
      <4> QED
        BY <3>1, <4>2, <2>4 DEF IInv, HeldHasFile
    <3> QED
      BY <1>1, <3>1 DEF HeldHasFile
  <2> QED
    BY <2>2, <2>3, <2>5, <2>6 DEF IInv
<1> QED
  BY <1>4, <1>5 DEF Write, Goto

\* The number an intake held passes to the entry it lists.
LEMMA PushInv ==
  ASSUME IInv, NEW t \in Threads, Push(t)
  PROVE  IInv'
<1> DEFINE e == EntryOf(task[t].path, task[t].sha, task[t].no, FALSE)
<1>1. /\ Busy(t) /\ task[t].pc = "push" /\ Len(entries) < MaxEntries
      /\ entries' = Append(entries, e) /\ entries \in Seq(Entry)
      /\ task' = [task EXCEPT ![t] = Idle]
      /\ UNCHANGED <<counter, allow, files, targets>>
  BY DEF Push, Goto, Room, Busy, IInv, TypeOK
<1>2. task[t] \in [pc: {"create", "write", "push"}, path: Paths, sha: Contents, no: FileNo]
  BY <1>1 DEF IInv, TypeOK, Idle
<1>3. /\ e \in Entry /\ ~e.released /\ e.no = task[t].no
      /\ files[<<e.sha, e.no>>] = "whole"
  BY <1>1, <1>2 DEF Entry, EntryOf, IInv, WrittenIsWhole, FileOf
<1> HIDE DEF e
<1>4. e.no \in Nat /\ e.no \in 1 .. counter - 1 /\ counter \in Nat
  <2>1. counter \in Nat
    BY QuarantineAssumption DEF IInv, TypeOK
  <2>2. e.no \in 1 .. counter - 1
    BY <1>1, <1>3 DEF IInv, NumbersInUse
  <2> QED
    BY <2>1, <2>2
<1>5. /\ entries' \in Seq(Entry) /\ Len(entries') = Len(entries) + 1
      /\ DOMAIN entries' = 1 .. Len(entries) + 1
      /\ \A i \in DOMAIN entries : entries'[i] = entries[i]
      /\ entries'[Len(entries) + 1] = e
      /\ DOMAIN entries = 1 .. Len(entries) /\ Len(entries) \in Nat
  BY <1>1, <1>3, AppendProperties
<1>6. \A i \in DOMAIN entries' : i = Len(entries) + 1 \/ i \in DOMAIN entries
  BY <1>5
<1>7. task'[t] = Idle /\ \A u \in Threads : u # t => task'[u] = task[u]
  BY <1>1 DEF IInv, TypeOK
<1>8. \A u \in Threads : Busy(u)' => u # t /\ Busy(u) /\ task'[u] = task[u]
  BY <1>7 DEF Busy, Idle
<1>9. TypeOK'
  BY <1>1, <1>5, QuarantineAssumption DEF IInv, TypeOK
<1>10. NumbersInUse'
  <2>1. \A i \in DOMAIN entries' : entries'[i].no < counter
    BY <1>4, <1>5, <1>6 DEF IInv, NumbersInUse
  <2>2. \A i \in DOMAIN entries' : ~entries'[i].released => entries'[i].no # 0
    BY <1>4, <1>5, <1>6 DEF IInv, NumbersInUse
  <2> QED
    BY <1>1, <1>8, <2>1, <2>2 DEF IInv, NumbersInUse
<1>11. NumbersDistinct'
  <2>1. \A i \in DOMAIN entries : entries[i].no # e.no
    BY <1>1, <1>3 DEF IInv, NumbersDistinct
  <2>2. \A i, j \in DOMAIN entries' :
          i # j /\ entries'[i].no # 0 => entries'[i].no # entries'[j].no
    BY <1>5, <1>6, <2>1 DEF IInv, NumbersDistinct
  <2>3. \A u \in Threads : Busy(u)' => task'[u].no # e.no
    BY <1>1, <1>3, <1>8 DEF IInv, NumbersDistinct
  <2>4. \A u \in Threads, i \in DOMAIN entries' : Busy(u)' => task'[u].no # entries'[i].no
    BY <1>5, <1>6, <1>8, <2>3 DEF IInv, NumbersDistinct
  <2> QED
    BY <1>8, <2>2, <2>4 DEF IInv, NumbersDistinct
<1>12. WrittenIsWhole' /\ HeldHasFile'
  <2>1. WrittenIsWhole'
    BY <1>1, <1>7, <1>8 DEF IInv, WrittenIsWhole, FileOf, Idle
  <2>2. HeldHasFile'
    BY <1>1, <1>3, <1>5, <1>6 DEF IInv, HeldHasFile
  <2> QED
    BY <2>1, <2>2
<1> QED
  BY <1>9, <1>10, <1>11, <1>12 DEF IInv

\* Releasing changes no number and no file; it only makes an entry released.
LEMMA ReleaseInv ==
  ASSUME IInv, NEW c \in Contents, Release(c), UNCHANGED task
  PROVE  IInv'
<1> DEFINE hits == {i \in DOMAIN Opened : Opened[i].sha = c /\ ~Opened[i].released}
           n == First(hits)
<1>1. UNCHANGED <<counter, allow, files, task>>
  BY DEF Release, NotFound, store
<1>2. CASE UNCHANGED <<entries, targets>>
  BY <1>1, <1>2 DEF IInv, TypeOK, NumbersInUse, NumbersDistinct, WrittenIsWhole, HeldHasFile,
                    Busy, FileOf
<1>3. CASE hits # {}
  <2>1. Opened = entries /\ hits \in SUBSET Nat
    BY <1>3 DEF Opened, IInv, TypeOK
  <2>2. n \in DOMAIN entries
    BY <1>3, <2>1, FirstIn
  <2>3. entries[n] \in Entry
    BY <2>2, EntryNumbers DEF IInv
  <2>4. targets' \in [Paths -> {"none", "partial"} \cup Contents]
    BY <1>3, <2>1, <2>3 DEF Release, IInv, TypeOK, Entry
  <2>5. CASE UNCHANGED entries
    BY <1>1, <2>4, <2>5 DEF IInv, TypeOK, NumbersInUse, NumbersDistinct, WrittenIsWhole,
                            HeldHasFile, Busy, FileOf
  <2>6. CASE entries' = [entries EXCEPT ![n].released = TRUE]
    <3> DEFINE e == [entries[n] EXCEPT !.released = TRUE]
    <3>1. e \in Entry /\ e.no = entries[n].no /\ e.released
      BY <2>3 DEF Entry
    <3>2. entries' = [entries EXCEPT ![n] = e]
      BY <2>6
    <3> HIDE DEF e, n
    <3>3. /\ entries \in Seq(Entry) /\ n \in 1 .. Len(entries)
          /\ DOMAIN entries = 1 .. Len(entries)
      BY <2>2 DEF IInv, TypeOK
    <3>4. /\ entries' \in Seq(Entry) /\ Len(entries') = Len(entries)
          /\ DOMAIN entries' = DOMAIN entries
          /\ \A i \in DOMAIN entries : entries'[i] = IF i = n THEN e ELSE entries[i]
      BY <3>1, <3>2, <3>3, ExceptSeq
    <3>5. \A i \in DOMAIN entries :
            entries'[i].no = entries[i].no /\ (~entries'[i].released => entries'[i] = entries[i])
      BY <3>1, <3>4
    <3>6. TypeOK'
      BY <1>1, <2>4, <3>4 DEF IInv, TypeOK
    <3>7. NumbersInUse'
      BY <1>1, <3>4, <3>5 DEF IInv, NumbersInUse, Busy
    <3>8. NumbersDistinct'
      BY <1>1, <3>4, <3>5 DEF IInv, NumbersDistinct, Busy
    <3>9. WrittenIsWhole' /\ HeldHasFile'
      BY <1>1, <3>4, <3>5 DEF IInv, WrittenIsWhole, HeldHasFile, FileOf
    <3> QED
      BY <3>6, <3>7, <3>8, <3>9 DEF IInv
  <2> QED
    BY <1>3, <2>1, <2>5, <2>6 DEF Release
<1>4. CASE hits = {}
  BY <1>2, <1>4 DEF Release, NotFound, store
<1> QED
  BY <1>3, <1>4

\* A purged file is the purged entry's alone.
LEMMA PurgeInv ==
  ASSUME IInv, NEW c \in Contents, Purge(c), UNCHANGED task
  PROVE  IInv'
<1> DEFINE hits == {i \in DOMAIN Opened : Opened[i].sha = c}
           n == First(hits)
<1>1. UNCHANGED <<counter, allow, task>>
  BY DEF Purge, NotFound, store
<1>2. CASE hits = {}
  <2>1. UNCHANGED <<entries, files, targets>>
    BY <1>2 DEF Purge, NotFound, store
  <2>2. TypeOK' /\ HeldHasFile'
    BY <1>1, <2>1 DEF IInv, TypeOK, HeldHasFile
  <2>3. NumbersInUse' /\ NumbersDistinct'
    BY <1>1, <2>1 DEF IInv, NumbersInUse, NumbersDistinct, Busy
  <2>4. WrittenIsWhole'
    BY <1>1, <2>1 DEF IInv, WrittenIsWhole, FileOf
  <2> QED
    BY <2>2, <2>3, <2>4 DEF IInv
<1>3. CASE hits # {}
  <2>1. Opened = entries /\ hits \in SUBSET Nat
    BY <1>3 DEF Opened, IInv, TypeOK
  <2>2. n \in DOMAIN entries /\ entries[n].sha = c
    BY <1>3, <2>1, FirstIn
  <2>3. entries[n] \in Entry /\ entries \in Seq(Entry)
    BY <2>2, EntryNumbers DEF IInv, TypeOK
  <2>4. /\ entries' = RemoveAt(entries, n)
        /\ \/ /\ entries[n].no = 0 /\ UNCHANGED files
              /\ targets' = [targets EXCEPT ![entries[n].path] = "none"]
           \/ /\ entries[n].no # 0 /\ UNCHANGED targets
              /\ files' = [files EXCEPT ![<<c, entries[n].no>>] = "none"]
    BY <1>3, <2>1 DEF Purge
  <2> HIDE DEF n, hits
  <2>5. /\ entries' \in Seq(Entry) /\ Len(entries') = Len(entries) - 1
        /\ \A k \in DOMAIN entries' : entries'[k] = entries[IF k < n THEN k ELSE k + 1]
    BY <2>2, <2>3, <2>4, Removed
  <2> DEFINE m(k) == IF k < n THEN k ELSE k + 1
  <2>6. \A k \in DOMAIN entries' :
          m(k) \in DOMAIN entries /\ m(k) # n /\ entries'[k] = entries[m(k)]
    BY <2>2, <2>3, <2>5
  <2>7. \A k, l \in DOMAIN entries' : k # l => m(k) # m(l)
    BY <2>2, <2>3, <2>5
  <2> HIDE DEF m
  <2>8. TypeOK'
    <3>1. targets' \in [Paths -> {"none", "partial"} \cup Contents]
      BY <2>3, <2>4 DEF IInv, TypeOK, Entry
    <3>2. files' \in [Contents \X FileNo -> {"none", "partial", "whole"}]
      BY <2>3, <2>4 DEF IInv, TypeOK, Entry
    <3>3. Len(entries') <= MaxEntries
      BY <2>3, <2>5, QuarantineAssumption DEF IInv, TypeOK
    <3> QED
      BY <1>1, <2>5, <3>1, <3>2, <3>3 DEF IInv, TypeOK
  <2>9. NumbersInUse'
    BY <1>1, <2>6 DEF IInv, NumbersInUse, Busy
  <2>10. NumbersDistinct'
    BY <1>1, <2>6, <2>7 DEF IInv, NumbersDistinct, Busy
  <2>11. ASSUME NEW f \in Contents \X FileNo, f[2] # entries[n].no \/ entries[n].no = 0
         PROVE  files'[f] = files[f]
    BY <2>2, <2>3, <2>4, <2>11 DEF IInv, TypeOK, Entry
  <2>12. WrittenIsWhole'
    <3>1. ASSUME NEW t \in Threads, task[t].pc = "push" PROVE files'[FileOf(t)] = "whole"
      <4>1. Busy(t) /\ FileOf(t) \in Contents \X FileNo /\ FileOf(t)[2] = task[t].no
        BY <3>1 DEF IInv, TypeOK, Busy, FileOf, Idle
      <4>2. task[t].no # entries[n].no
        BY <2>2, <4>1 DEF IInv, NumbersDistinct
      <4> QED
        BY <2>11, <3>1, <4>1, <4>2 DEF IInv, WrittenIsWhole
    <3> QED
      BY <1>1, <3>1 DEF WrittenIsWhole, FileOf
  <2>13. HeldHasFile'
    <3>1. ASSUME NEW k \in DOMAIN entries', ~entries'[k].released
          PROVE  files'[<<entries'[k].sha, entries'[k].no>>] = "whole"
      <4>1. /\ m(k) \in DOMAIN entries /\ m(k) # n /\ entries'[k] = entries[m(k)]
            /\ entries[m(k)] \in Entry
        BY <2>6, EntryNumbers DEF IInv
      <4>2. entries[n].no # 0 => entries[m(k)].no # entries[n].no
        BY <2>2, <4>1 DEF IInv, NumbersDistinct
      <4>3. <<entries'[k].sha, entries'[k].no>> \in Contents \X FileNo
        BY <4>1 DEF Entry
      <4> QED
        BY <2>11, <3>1, <4>1, <4>2, <4>3 DEF IInv, HeldHasFile
    <3> QED
      BY <3>1 DEF HeldHasFile
  <2> QED
    BY <2>8, <2>9, <2>10, <2>12, <2>13 DEF IInv
<1> QED
  BY <1>2, <1>3

LEMMA AddAllowlistInv ==
  ASSUME IInv, NEW c \in Contents, AddAllowlist(c), UNCHANGED task
  PROVE  IInv'
<1>1. allow' \subseteq Contents /\ UNCHANGED <<entries, counter, files, targets, task>>
  BY DEF AddAllowlist, IInv, TypeOK
<1> QED
  BY <1>1 DEF IInv, TypeOK, NumbersInUse, NumbersDistinct, WrittenIsWhole, HeldHasFile,
              Busy, FileOf

\* A new life of the process holds nothing, whatever files it finds.
LEMMA RestartInv ==
  ASSUME IInv, Restart
  PROVE  IInv'
<1>1. /\ entries' = <<>> /\ counter' = 1 /\ allow' = {} /\ UNCHANGED <<files, targets>>
      /\ task' = [t \in Threads |-> Idle]
  BY DEF Restart
<1>2. TypeOK'
  BY <1>1, QuarantineAssumption DEF IInv, TypeOK
<1>3. DOMAIN entries' = {} /\ \A t \in Threads : ~Busy(t)' /\ task'[t].pc # "push"
  BY <1>1 DEF Busy, Idle
<1> QED
  BY <1>2, <1>3 DEF IInv, NumbersInUse, NumbersDistinct, WrittenIsWhole, HeldHasFile

LEMMA NextInv == IInv /\ [Next]_vars => IInv'
<1> SUFFICES ASSUME IInv, [Next]_vars PROVE IInv'
  OBVIOUS
<1>1. ASSUME NEW t \in Threads, Intake(t) PROVE IInv'
  BY <1>1, IntakeAllowedInv, IntakeBeginInv, CreateInv, WriteInv, PushInv DEF Intake
<1>2. CASE Operator
  BY <1>2, ReleaseInv, PurgeInv, AddAllowlistInv DEF Operator
<1>3. CASE Restart
  BY <1>3, RestartInv
<1>4. CASE UNCHANGED vars
  BY <1>4 DEF vars, store, IInv, TypeOK, NumbersInUse, NumbersDistinct, WrittenIsWhole,
              HeldHasFile, Busy, FileOf
<1> QED
  BY <1>1, <1>2, <1>3, <1>4 DEF Next

-------------------------------------------------------------------------------
(* The theorems.                                                           *)

\* The store's types: in particular the entries and the counter stay within one
\* life's bound through every interleaving of intakes, commands and restarts.
THEOREM StoreTypes == Spec => []TypeOK
<1>1. IInv => TypeOK
  BY DEF IInv
<1> QED
  BY InitInv, NextInv, <1>1, PTL DEF Spec

\* Every held artifact has its complete file (intake writes the file before it
\* lists the entry, and the counter keeps names apart, also across a restart).
THEOREM HeldFiles == Spec => []HeldHasFile
<1>1. IInv => HeldHasFile
  BY DEF IInv
<1> QED
  BY InitInv, NextInv, <1>1, PTL DEF Spec
===============================================================================
