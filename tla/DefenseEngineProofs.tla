-------------------------- MODULE DefenseEngineProofs --------------------------
(***************************************************************************)
(* Proofs about DefenseEngine, for every set of tasks, tool uses and       *)
(* literals, with and without a provenance store that may fail; that its   *)
(* decisions do not relax, with a store that does not.                     *)
(***************************************************************************)
EXTENDS DefenseEngine, WellFoundedInduction, SequenceTheorems, TLAPS

Cautious == {"Ask", "Quarantine", "Block"}

-------------------------------------------------------------------------------
(* The capability matrix.                                                  *)

\* A rule of the cascade that does not let a provider's action through.
Sound(in) == {r \in BOOLEAN \X MatrixDecision :
                r[1] /\ in.source = "Provider" => r[2] \in Cautious}

\* A rule is sound when it decides cautiously, or asks for another origin.
LEMMA SoundRule ==
  ASSUME NEW in, NEW cond \in BOOLEAN, NEW d \in MatrixDecision,
         d \in Cautious \/ (cond => in.source # "Provider")
  PROVE  <<cond, d>> \in Sound(in)
  BY DEF Sound

LEMMA RulesSound ==
  ASSUME NEW in \in MatrixInput
  PROVE  Rules(in) \in Seq(Sound(in))
<1> DEFINE S == Sound(in)
<1>0. {"Ask", "Quarantine", "Block"} \subseteq Cautious /\ Cautious \subseteq MatrixDecision
      /\ "Allow" \in MatrixDecision /\ "AllowWithAudit" \in MatrixDecision
  BY DEF Cautious, MatrixDecision
<1>1. HardDenyRules(in) \in Seq(S)
  <2> DEFINE r1 == <<in.asset \in HardDeny /\ in.source # "User", "Block">>
             r2 == <<in.asset \in HardDeny /\ in.capability = "Execute", "Block">>
             r3 == <<in.asset \in {"Keychain", "WalletData", "CloudMetadata"} /\ in.source = "User",
                     "AllowWithAudit">>
             r4 == <<in.asset = "BrowserData" /\ in.source = "User", "AllowWithAudit">>
  <2>1. r1 \in S
    BY <1>0, SoundRule
  <2>2. r2 \in S
    BY <1>0, SoundRule
  <2>3. r3 \in S
    BY <1>0, SoundRule
  <2>4. r4 \in S
    BY <1>0, SoundRule
  <2>5. HardDenyRules(in) = <<r1, r2, r3, r4>>
    BY DEF HardDenyRules
  <2> HIDE DEF r1, r2, r3, r4, S
  <2> QED
    BY <2>1, <2>2, <2>3, <2>4, <2>5
<1>2. UntrustedRules(in) \in Seq(S)
  <2> DEFINE r1 == <<in.source \in Untrusted /\ in.capability \in Induced, "Block">>
             r2 == <<in.source \in Untrusted
                       /\ in.capability \in {"NetworkFetch", "ClipboardRead", "UiAutomation"},
                     "Ask">>
             r3 == <<in.source \in Untrusted /\ in.capability = "WriteFile"
                       /\ in.asset \in {"Temp", "Executable", "AiClientConfig", "System"},
                     "Quarantine">>
             r4 == <<in.source \in Untrusted /\ in.capability = "WriteFile"
                       /\ in.asset = "Project", "Ask">>
             r5 == <<in.source \in Untrusted /\ in.capability = "ReadFile"
                       /\ in.asset = "Credential", "Block">>
  <2>1. r1 \in S /\ r2 \in S /\ r3 \in S /\ r4 \in S /\ r5 \in S
    BY <1>0, SoundRule
  <2>2. UntrustedRules(in) = <<r1, r2, r3, r4, r5>>
    BY DEF UntrustedRules
  <2> HIDE DEF r1, r2, r3, r4, r5, S
  <2> QED
    BY <2>1, <2>2
<1>3. TaintRules(in) \in Seq(S)
  <2> DEFINE r1 == <<in.tainted /\ in.capability \in Induced, "Block">>
             r2 == <<in.tainted, "Ask">>
  <2>1. in.tainted \in BOOLEAN
    BY DEF MatrixInput
  <2>2. r1 \in S /\ r2 \in S
    BY <1>0, <2>1, SoundRule
  <2>3. TaintRules(in) = <<r1, r2>>
    BY DEF TaintRules
  <2> HIDE DEF r1, r2, S
  <2> QED
    BY <2>2, <2>3
<1>4. PermitRules(in) \in Seq(S)
  <2> DEFINE r1 == <<in.asset \in AskOnly /\ in.source # "User", "Ask">>
             r2 == <<in.asset \in AskOnly /\ in.source = "User", "AllowWithAudit">>
             r3 == <<in.source \in {"User", "Internal"} /\ in.asset = "Project"
                       /\ in.capability \in {"ReadFile", "WriteFile"}, "Allow">>
             r4 == <<in.source \in {"User", "Internal"} /\ in.capability = "ReadFile"
                       /\ in.asset \in {"Log", "Config"}, "AllowWithAudit">>
             r5 == <<in.source = "User" /\ in.capability = "NetworkFetch"
                       /\ in.asset = "External", "Allow">>
             r6 == <<in.source = "User" /\ in.capability = "NetworkPost"
                       /\ in.asset = "External", "Ask">>
  <2>1. r1 \in S /\ r2 \in S /\ r3 \in S /\ r4 \in S /\ r5 \in S /\ r6 \in S
    BY <1>0, SoundRule
  <2>2. PermitRules(in) = <<r1, r2, r3, r4, r5, r6>>
    BY DEF PermitRules
  <2> HIDE DEF r1, r2, r3, r4, r5, r6, S
  <2> QED
    BY <2>1, <2>2
<1> HIDE DEF S
<1>5. Rules(in) \in Seq(S)
  BY <1>1, <1>2, <1>3, <1>4 DEF Rules
<1> QED
  BY <1>5 DEF S

\* The least position of a set of positions exists.
LEMMA LeastIn ==
  ASSUME NEW S \in SUBSET Nat, S # {}
  PROVE  /\ \E i \in S : \A j \in S : i <= j
         /\ (CHOOSE i \in S : \A j \in S : i <= j) \in S
<1> DEFINE R == OpToRel(<, Nat)
<1>1. IsWellFoundedOn(R, Nat)
  BY NatLessThanWellFounded
<1>2. PICK x \in S : \A y \in S : <<y, x>> \notin R
  <2> HIDE DEF R
  <2> QED BY <1>1, WFMin
<1>3. ASSUME NEW y \in S PROVE x <= y
  <2>1. <<y, x>> \notin R
    BY <1>2
  <2>2. ~ (y < x)
    BY <2>1 DEF OpToRel
  <2> QED BY <2>2
<1> QED
  BY <1>3

\* The matrix decides every input, and never lets a provider's action through
\* without a question at least.
LEMMA MatrixSound ==
  ASSUME NEW in \in MatrixInput
  PROVE  /\ MatrixEvaluate(in) \in MatrixDecision
         /\ in.source = "Provider" => MatrixEvaluate(in) \in Cautious
<1> DEFINE rules == Rules(in)
           hits == {i \in DOMAIN rules : rules[i][1]}
           n == CHOOSE i \in hits : \A j \in hits : i <= j
<1>1. rules \in Seq(Sound(in))
  BY RulesSound
<1>2. CASE hits = {}
  <2>1. MatrixEvaluate(in) = "Ask"
    BY <1>2 DEF MatrixEvaluate
  <2> QED
    BY <2>1 DEF Cautious, MatrixDecision
<1>3. CASE hits # {}
  <2>1. MatrixEvaluate(in) = rules[n][2]
    BY <1>3 DEF MatrixEvaluate
  <2> HIDE DEF rules
  <2>2. hits \in SUBSET Nat
    BY <1>1
  <2>3. n \in hits
    <3> HIDE DEF hits
    <3> QED BY <1>3, <2>2, LeastIn
  <2>4. rules[n] \in Sound(in) /\ rules[n][1]
    BY <1>1, <2>3
  <2> HIDE DEF n
  <2> QED
    BY <2>1, <2>4 DEF Sound
<1> QED
  BY <1>2, <1>3

\* The merge only ever makes the matrix's answer stricter.
LEMMA MergeSound ==
  ASSUME NEW m \in MatrixDecision, NEW hits, NEW doomed \in BOOLEAN, NEW egress
  PROVE  Merge(m, hits, doomed, egress) \in {m} \cup Cautious
<1> QED
  BY DEF Merge, Cautious

-------------------------------------------------------------------------------
(* The strengthening.                                                      *)

\* Ids are handed out once: those of recorded nodes and of tasks on their way to
\* the graph's lock are below the counter and pairwise different.
IdsOnce ==
  /\ \A i \in DOMAIN nodes : nodes[i].id < nextId
  /\ NodesDistinct
  /\ \A t \in Threads : task[t].pc = "judge" =>
       task[t].id < nextId /\ \A i \in DOMAIN nodes : nodes[i].id # task[t].id
  /\ \A t, u \in Threads :
       t # u /\ task[t].pc = "judge" /\ task[u].pc = "judge" => task[t].id # task[u].id

\* What a task found out about taint concerns artifacts of an untrusted origin.
LocalsTainted ==
  \A t \in Threads :
    /\ task[t].pc = "record" /\ task[t].parents # {} => SourceOf(task[t].obs) \in Untrusted
    /\ task[t].pc # "idle" /\ task[t].tainted => SourceOf(task[t].obs) \in Untrusted

IInv == TypeOK /\ IdsOnce /\ TaintStaysInSource /\ LocalsTainted /\ UnsolicitedNeverSilent

\* Where an evaluation is tells which locals it has.
LEMMA Locals ==
  ASSUME TypeOK, NEW t \in Threads
  PROVE  /\ task[t].pc \in {"lookup", "record", "refs", "stamp"} =>
              /\ task[t] \in [pc: {"lookup", "record", "refs", "stamp"}, obs: Observations,
                               parents: SUBSET Artifacts, tainted: BOOLEAN]
              /\ task[t].obs \in Observation
         /\ task[t].pc = "judge" =>
              /\ task[t] \in [pc: {"judge"}, obs: Observations, tainted: BOOLEAN,
                               id: Nat, ts: Nat]
              /\ task[t].obs \in Observation
<1>1. task[t] \in Local
  BY DEF TypeOK
<1>2. Idle.pc = "idle"
  BY DEF Idle
<1> QED
  BY <1>1, <1>2, EngineAssumption DEF Local

\* The artifacts of a tool use have its origin.
LEMMA Ids ==
  ASSUME NEW o \in Observation
  PROVE  /\ SourceOf(o) \in {"User", "Provider"}
         /\ \A l \in Literals : ArtifactId(o, l) \in Artifacts
         /\ RefIds(o) \subseteq Artifacts
         /\ \A id \in RefIds(o) : id[1] = SourceOf(o)
         /\ ArtifactId(o, o.target) \in Artifacts /\ ArtifactId(o, o.target)[1] = SourceOf(o)
  BY EngineAssumption DEF Observation, SourceOf, ArtifactId, RefIds

LEMMA InitInv == Init => IInv
<1> SUFFICES ASSUME Init PROVE IInv
  OBVIOUS
<1>1. TypeOK
  <2>1. NoEntry \in Entry
    BY DEF NoEntry, Entry, Source
  <2>2. store \in [Artifacts -> Entry]
    BY <2>1 DEF Init, StoreInit
  <2>3. task \in [Threads -> Local] /\ answer \in [Observations -> MatrixDecision \cup {"none"}]
    BY DEF Init, Local
  <2>4. nodes \in Seq(Node) /\ anomaly \in 0 .. 100 /\ clock \in Nat /\ nextId \in Nat
    <3>1. nodes = <<>> /\ anomaly = 0 /\ clock = 0 /\ nextId = 1
      BY DEF Init, GraphInit
    <3> QED
      BY <3>1
  <2>5. baseCaps \subseteq Capability /\ baseAssets \subseteq AssetClass /\ frozen \in BOOLEAN
    BY Zenon DEF Init, GraphInit
  <2> QED
    BY <2>2, <2>3, <2>4, <2>5 DEF TypeOK
<1>2. IdsOnce /\ LocalsTainted
  BY DEF Init, GraphInit, IdsOnce, NodesDistinct, LocalsTainted, Idle
<1>3. TaintStaysInSource
  BY DEF Init, GraphInit, StoreInit, NoEntry, TaintStaysInSource, ToSet
<1>4. UnsolicitedNeverSilent
  BY DEF Init, UnsolicitedNeverSilent
<1> QED
  BY <1>1, <1>2, <1>3, <1>4 DEF IInv

\* Steps of a task before its turn at the graph hand out no id.
LEMMA GraphKept ==
  ASSUME IInv, NEW t \in Threads, NEW next, next.pc # "judge",
         task' = [task EXCEPT ![t] = next], UNCHANGED <<nodes, nextId>>
  PROVE  IdsOnce'
<1>1. \A u \in Threads : task'[u].pc = "judge" => task'[u] = task[u]
  BY DEF IInv, TypeOK
<1> QED
  BY <1>1 DEF IInv, IdsOnce, NodesDistinct

\* The locals of a task that moves, if they are right, leave the others' right.
LEMMA LocalsKept ==
  ASSUME IInv, NEW t \in Threads, NEW next \in Local,
         task' = [task EXCEPT ![t] = next],
         next.pc = "record" /\ next.parents # {} => SourceOf(next.obs) \in Untrusted,
         next.pc # "idle" /\ next.tainted => SourceOf(next.obs) \in Untrusted
  PROVE  LocalsTainted' /\ task' \in [Threads -> Local]
<1>1. task' \in [Threads -> Local]
  BY DEF IInv, TypeOK
<1>2. task'[t] = next /\ \A u \in Threads : u # t => task'[u] = task[u]
  BY DEF IInv, TypeOK
<1> QED
  BY <1>1, <1>2 DEF IInv, LocalsTainted

LEMMA BeginCanaryInv ==
  ASSUME IInv, NEW t \in Threads, NEW o \in Observations, BeginCanary(t, o)
  PROVE  IInv'
<1>1. /\ answer' = [answer EXCEPT ![o] = "Block"]
      /\ UNCHANGED <<nodes, baseCaps, baseAssets, frozen, anomaly, clock, store, nextId, task>>
  BY DEF BeginCanary, graph
<1>2. TypeOK'
  BY <1>1 DEF IInv, TypeOK, MatrixDecision
<1>3. IdsOnce' /\ TaintStaysInSource' /\ LocalsTainted'
  BY <1>1 DEF IInv, IdsOnce, NodesDistinct, TaintStaysInSource, LocalsTainted
<1>4. UnsolicitedNeverSilent'
  BY <1>1 DEF IInv, TypeOK, UnsolicitedNeverSilent, Rank, MatrixDecision
<1> QED
  BY <1>2, <1>3, <1>4 DEF IInv

LEMMA BeginInv ==
  ASSUME IInv, NEW t \in Threads, NEW o \in Observations, Begin(t, o)
  PROVE  IInv'
<1> DEFINE next == [pc |-> IF HasStore THEN "lookup" ELSE "stamp", obs |-> o,
                    parents |-> {}, tainted |-> FALSE]
<1>1. /\ task' = [task EXCEPT ![t] = next]
      /\ UNCHANGED <<nodes, baseCaps, baseAssets, frozen, anomaly, clock, store, nextId, answer>>
  BY DEF Begin, Goto, graph
<1>2. next \in Local /\ next.pc # "judge" /\ next.parents = {} /\ ~next.tainted
  BY EngineAssumption DEF Local
<1> HIDE DEF next
<1>3. LocalsTainted' /\ task' \in [Threads -> Local]
  BY <1>1, <1>2, LocalsKept
<1>4. IdsOnce'
  BY <1>1, <1>2, GraphKept
<1>5. TypeOK'
  BY <1>1, <1>3 DEF IInv, TypeOK
<1>6. TaintStaysInSource' /\ UnsolicitedNeverSilent'
  BY <1>1 DEF IInv, TaintStaysInSource, UnsolicitedNeverSilent
<1> QED
  BY <1>3, <1>4, <1>5, <1>6 DEF IInv

LEMMA LookupInv ==
  ASSUME IInv, NEW t \in Threads, Lookup(t)
  PROVE  IInv'
<1> DEFINE o == task[t].obs
           found == TaintedOf(RefIds(o))
<1>1. /\ task[t].pc = "lookup"
      /\ UNCHANGED <<nodes, baseCaps, baseAssets, frozen, anomaly, clock, store, nextId, answer>>
  BY DEF Lookup, graph
<1>2. PICK parents \in SUBSET found :
        task' = [task EXCEPT ![t] = [task[t] EXCEPT !.pc = "record", !.parents = parents]]
  BY DEF Lookup, Goto
<1> DEFINE next == [task[t] EXCEPT !.pc = "record", !.parents = parents]
<1>3. o \in Observation /\ RefIds(o) \subseteq Artifacts
      /\ \A id \in RefIds(o) : id[1] = SourceOf(o)
  BY <1>1, Locals, Ids DEF IInv
<1>4. found \subseteq Artifacts /\ \A id \in found : id[1] = SourceOf(o) /\ id[1] \in Untrusted
  BY <1>3 DEF TaintedOf, IInv, TaintStaysInSource
<1>5. /\ task[t] \in [pc: {"lookup", "record", "refs", "stamp"}, obs: Observations,
                       parents: SUBSET Artifacts, tainted: BOOLEAN]
  BY <1>1, Locals DEF IInv
<1>6. next \in Local /\ next.pc = "record" /\ next.obs = o /\ next.parents = parents
      /\ next.tainted = task[t].tainted
  BY <1>4, <1>5 DEF Local
<1> HIDE DEF next
<1>7. LocalsTainted' /\ task' \in [Threads -> Local]
  <2>1. next.parents # {} => SourceOf(o) \in Untrusted
    BY <1>4, <1>6
  <2>2. next.tainted => SourceOf(o) \in Untrusted
    BY <1>1, <1>6 DEF IInv, LocalsTainted
  <2> QED
    BY <1>2, <1>6, <2>1, <2>2, LocalsKept DEF next
<1>8. IdsOnce'
  BY <1>1, <1>2, <1>6, GraphKept DEF next
<1>9. TypeOK'
  BY <1>1, <1>7 DEF IInv, TypeOK
<1>10. TaintStaysInSource' /\ UnsolicitedNeverSilent'
  BY <1>1 DEF IInv, TaintStaysInSource, UnsolicitedNeverSilent
<1> QED
  BY <1>7, <1>8, <1>9, <1>10 DEF IInv

\* The taint a tool use's artifact is recorded with is its origin's own: parents
\* were only found among artifacts of the same origin.
LEMMA RecordArtifactInv ==
  ASSUME IInv, NEW t \in Threads, RecordArtifact(t)
  PROVE  IInv'
<1> DEFINE o == task[t].obs
           id == ArtifactId(o, o.target)
           tainted == Taints(SourceOf(o), task[t].parents)
<1>1. /\ task[t].pc = "record"
      /\ UNCHANGED <<nodes, baseCaps, baseAssets, frozen, anomaly, clock, nextId, answer>>
  BY DEF RecordArtifact, graph
<1>2. /\ task[t] \in [pc: {"lookup", "record", "refs", "stamp"}, obs: Observations,
                       parents: SUBSET Artifacts, tainted: BOOLEAN]
      /\ o \in Observation
  BY <1>1, Locals DEF IInv
<1>3. SourceOf(o) \in {"User", "Provider"} /\ id \in Artifacts /\ id[1] = SourceOf(o)
  BY <1>2, Ids
<1>4. tainted \in BOOLEAN /\ (tainted <=> SourceOf(o) \in Untrusted)
  <2>1. task[t].parents # {} => SourceOf(o) \in Untrusted
    BY <1>1 DEF IInv, LocalsTainted
  <2>2. TaintedOf(task[t].parents) # {} => task[t].parents # {}
    BY DEF TaintedOf
  <2> QED
    BY <2>1, <2>2 DEF Taints
<1>5. CASE /\ Record(id, SourceOf(o), task[t].parents, clock)
           /\ task' = [task EXCEPT ![t] = [task[t] EXCEPT !.pc = "refs", !.tainted = tainted]]
  <2> DEFINE next == [task[t] EXCEPT !.pc = "refs", !.tainted = tainted]
             entry == [known |-> TRUE, source |-> SourceOf(o), tainted |-> tainted, seen |-> clock]
  <2>1. next \in Local /\ next.pc = "refs" /\ next.obs = o /\ next.tainted = tainted
    <3> HIDE DEF tainted
    <3> QED
      BY <1>2, <1>4 DEF Local
  <2>2. task' = [task EXCEPT ![t] = next]
    BY <1>5
  <2> HIDE DEF next
  <2>3. LocalsTainted' /\ task' \in [Threads -> Local]
    BY <1>4, <2>1, <2>2, LocalsKept
  <2>4. IdsOnce'
    BY <1>1, <2>1, <2>2, GraphKept
  <2>5. store' = [store EXCEPT ![id] = entry]
    BY <1>5 DEF Record, Recorded
  <2>6. entry \in Entry /\ entry.known /\ entry.tainted = tainted
    <3> HIDE DEF tainted, id
    <3> QED
      BY <1>3, <1>4 DEF IInv, TypeOK, Entry, Source
  <2> HIDE DEF entry, tainted, id, o
  <2>7. TypeOK'
    BY <1>1, <1>3, <2>3, <2>5, <2>6 DEF IInv, TypeOK
  <2>8. TaintStaysInSource'
    <3>1. ASSUME NEW a \in Artifacts
          PROVE  store'[a].tainted <=> store'[a].known /\ a[1] \in Untrusted
      <4>1. CASE a = id
        BY <1>3, <1>4, <2>5, <2>6, <4>1 DEF IInv, TypeOK
      <4>2. CASE a # id
        BY <2>5, <4>2 DEF IInv, TypeOK, TaintStaysInSource
      <4> QED
        BY <4>1, <4>2
    <3> QED
      BY <1>1, <3>1 DEF IInv, TaintStaysInSource
  <2>9. UnsolicitedNeverSilent'
    BY <1>1 DEF IInv, UnsolicitedNeverSilent
  <2> QED
    BY <2>3, <2>4, <2>7, <2>8, <2>9 DEF IInv
<1>6. CASE UNCHANGED store /\ task' = [task EXCEPT ![t] = [task[t] EXCEPT !.pc = "refs"]]
  <2> DEFINE next == [task[t] EXCEPT !.pc = "refs"]
  <2>1. next \in Local /\ next.pc = "refs" /\ next.obs = o /\ next.tainted = task[t].tainted
    BY <1>2 DEF Local
  <2>2. task' = [task EXCEPT ![t] = next]
    BY <1>6
  <2> HIDE DEF next
  <2>3. LocalsTainted' /\ task' \in [Threads -> Local]
    <3>1. next.tainted => SourceOf(next.obs) \in Untrusted
      BY <1>1, <2>1 DEF IInv, LocalsTainted
    <3> QED
      BY <2>1, <2>2, <3>1, LocalsKept
  <2>4. IdsOnce'
    BY <1>1, <2>1, <2>2, GraphKept
  <2>5. TypeOK'
    BY <1>1, <1>6, <2>3 DEF IInv, TypeOK
  <2>6. TaintStaysInSource' /\ UnsolicitedNeverSilent'
    BY <1>1, <1>6 DEF IInv, TaintStaysInSource, UnsolicitedNeverSilent
  <2> QED
    BY <2>3, <2>4, <2>5, <2>6 DEF IInv
<1> QED
  BY <1>5, <1>6 DEF RecordArtifact, Goto

LEMMA RecordRefsInv ==
  ASSUME IInv, NEW t \in Threads, RecordRefs(t)
  PROVE  IInv'
<1> DEFINE o == task[t].obs
           next == [task[t] EXCEPT !.pc = "stamp"]
<1>1. /\ task[t].pc = "refs" /\ task' = [task EXCEPT ![t] = next]
      /\ UNCHANGED <<nodes, baseCaps, baseAssets, frozen, anomaly, clock, nextId, answer>>
  BY DEF RecordRefs, Goto, graph
<1>2. /\ task[t] \in [pc: {"lookup", "record", "refs", "stamp"}, obs: Observations,
                       parents: SUBSET Artifacts, tainted: BOOLEAN]
      /\ o \in Observation
  BY <1>1, Locals DEF IInv
<1>3. next \in Local /\ next.pc = "stamp" /\ next.obs = o /\ next.tainted = task[t].tainted
  BY <1>2 DEF Local
<1> HIDE DEF next
<1>4. LocalsTainted' /\ task' \in [Threads -> Local]
  <2>1. next.tainted => SourceOf(next.obs) \in Untrusted
    BY <1>1, <1>3 DEF IInv, LocalsTainted
  <2> QED
    BY <1>1, <1>3, <2>1, LocalsKept
<1>5. IdsOnce'
  BY <1>1, <1>3, GraphKept
<1>6. SourceOf(o) \in {"User", "Provider"} /\ \A id \in RefIds(o) : id[1] = SourceOf(o)
  BY <1>2, Ids
<1> DEFINE tainted == Taints(SourceOf(o), {})
           entry == [known |-> TRUE, source |-> SourceOf(o), tainted |-> tainted, seen |-> clock]
<1>7. tainted \in BOOLEAN /\ (tainted <=> SourceOf(o) \in Untrusted)
  BY DEF Taints, TaintedOf
<1>8. entry \in Entry /\ entry.known /\ entry.tainted = tainted
  <2> HIDE DEF tainted
  <2> QED
    BY <1>6, <1>7 DEF IInv, TypeOK, Entry, Source
<1>9. PICK done \in SUBSET RefIds(o) :
        store' = [id \in Artifacts |-> IF id \in done THEN entry ELSE store[id]]
  BY DEF RecordRefs, Recorded
<1> HIDE DEF entry, tainted, o
<1>10. TypeOK'
  BY <1>1, <1>4, <1>8, <1>9 DEF IInv, TypeOK
<1>11. TaintStaysInSource'
  <2>1. ASSUME NEW a \in Artifacts
        PROVE  store'[a].tainted <=> store'[a].known /\ a[1] \in Untrusted
    <3>1. CASE a \in done
      BY <1>6, <1>7, <1>8, <1>9, <3>1
    <3>2. CASE a \notin done
      BY <1>9, <3>2 DEF IInv, TaintStaysInSource
    <3> QED
      BY <3>1, <3>2
  <2> QED
    BY <1>1, <2>1 DEF IInv, TaintStaysInSource
<1>12. UnsolicitedNeverSilent'
  BY <1>1 DEF IInv, UnsolicitedNeverSilent
<1> QED
  BY <1>4, <1>5, <1>10, <1>11, <1>12 DEF IInv

\* The counter is read and advanced in one step: the id is no one else's.
LEMMA StampInv ==
  ASSUME IInv, NEW t \in Threads, Stamp(t)
  PROVE  IInv'
<1> DEFINE next == [pc |-> "judge", obs |-> task[t].obs, tainted |-> task[t].tainted,
                    id |-> nextId, ts |-> clock]
<1>1. /\ task[t].pc = "stamp" /\ task' = [task EXCEPT ![t] = next] /\ nextId' = nextId + 1
      /\ UNCHANGED <<nodes, baseCaps, baseAssets, frozen, anomaly, clock, store, answer>>
  BY DEF Stamp, Goto, graph
<1>2. /\ task[t] \in [pc: {"lookup", "record", "refs", "stamp"}, obs: Observations,
                       parents: SUBSET Artifacts, tainted: BOOLEAN]
      /\ nextId \in Nat /\ clock \in Nat
  BY <1>1, Locals DEF IInv, TypeOK
<1>3. next \in Local /\ next.pc = "judge" /\ next.obs = task[t].obs /\ next.id = nextId
      /\ next.tainted = task[t].tainted
  BY <1>2 DEF Local
<1> HIDE DEF next
<1>4. LocalsTainted' /\ task' \in [Threads -> Local]
  <2>1. next.tainted => SourceOf(next.obs) \in Untrusted
    BY <1>1, <1>3 DEF IInv, LocalsTainted
  <2> QED
    BY <1>1, <1>3, <2>1, LocalsKept
<1>5. TypeOK'
  BY <1>1, <1>2, <1>4 DEF IInv, TypeOK
<1>6. IdsOnce'
  <2>1. task'[t] = next /\ \A u \in Threads : u # t => task'[u] = task[u]
    BY <1>1 DEF IInv, TypeOK
  <2>2. ASSUME NEW i \in DOMAIN nodes PROVE nodes[i].id \in Nat /\ nodes[i].id < nextId
    <3>1. nodes[i] \in Node
      BY ElementOfSeq DEF IInv, TypeOK
    <3> QED
      BY <3>1 DEF Node, IInv, IdsOnce
  <2>3. ASSUME NEW u \in Threads, task[u].pc = "judge"
        PROVE  task[u].id \in Nat /\ task[u].id < nextId
    <3>1. task[u].id \in Nat
      BY <2>3, Locals DEF IInv
    <3> QED
      BY <2>3, <3>1 DEF IInv, IdsOnce
  <2>4. \A i \in DOMAIN nodes : nodes[i].id < nextId + 1 /\ nodes[i].id # nextId
    BY <1>2, <2>2
  <2>5. \A u \in Threads : task'[u].pc = "judge" =>
          task'[u].id < nextId + 1 /\ (u # t => task'[u] = task[u] /\ task'[u].id # nextId)
    BY <1>2, <1>3, <2>1, <2>3
  <2>6. \A u \in Threads : task'[u].pc = "judge" => \A i \in DOMAIN nodes : nodes[i].id # task'[u].id
    BY <1>3, <2>1, <2>4 DEF IInv, IdsOnce
  <2>7. \A u, v \in Threads :
          u # v /\ task'[u].pc = "judge" /\ task'[v].pc = "judge" => task'[u].id # task'[v].id
    BY <1>3, <2>1, <2>5 DEF IInv, IdsOnce
  <2> QED
    BY <1>1, <2>4, <2>5, <2>6, <2>7 DEF IInv, IdsOnce, NodesDistinct
<1>7. TaintStaysInSource' /\ UnsolicitedNeverSilent'
  BY <1>1 DEF IInv, TaintStaysInSource, UnsolicitedNeverSilent
<1> QED
  BY <1>4, <1>5, <1>6, <1>7 DEF IInv

\* The score is capped.
LEMMA AnomalyInRange ==
  ASSUME NEW ev, NEW caps, NEW assets, NEW final
  PROVE  AnomalyScore(ev, caps, assets, final) \in 0 .. 100
<1>1. \A b, n : n \in Nat => Points(b, n) \in Nat
  BY DEF Points
<1> DEFINE newCap == final /\ ev.cap \notin caps
           newAsset == final /\ ev.asset \notin assets
           p1 == Points(newCap, 30)
           p2 == Points(newCap /\ ev.cap \in Critical, 20)
           p3 == Points(newAsset, 25)
           p4 == Points(newAsset /\ ev.asset \in HardDeny, 25)
           p5 == Points(ev.tainted, 20)
           p6 == Points(final /\ ev.source \in {"Provider", "Web", "Mcp"}, 10)
           score == p1 + p2 + p3 + p4 + p5 + p6
<1>2. p1 \in Nat /\ p2 \in Nat /\ p3 \in Nat /\ p4 \in Nat /\ p5 \in Nat /\ p6 \in Nat
  BY DEF Points
<1>3. AnomalyScore(ev, caps, assets, final) = IF score > 100 THEN 100 ELSE score
  BY DEF AnomalyScore
<1> HIDE DEF p1, p2, p3, p4, p5, p6
<1>4. score \in Nat
  BY <1>2
<1> HIDE DEF score
<1> QED
  BY <1>3, <1>4

\* The node of an evaluation that waits for the graph is a node.
LEMMA NodeTyped ==
  ASSUME IInv, NEW t \in Threads, task[t].pc = "judge"
  PROVE  NodeOf(t) \in Node
<1> DEFINE o == task[t].obs
           src == SourceOf(o)
           art == ArtifactId(o, o.target)
           n == NodeOf(t)
<1>1. /\ task[t] \in [pc: {"judge"}, obs: Observations, tainted: BOOLEAN, id: Nat, ts: Nat]
      /\ o \in Observation
  BY Locals DEF IInv
<1>2. src \in Source /\ art \in Artifacts
  BY <1>1, Ids DEF Observation, Source
<1>3. o.cap \in Capability /\ o.asset \in AssetClass /\ o.tags \subseteq Tag
  BY <1>1 DEF Observation, ToolCapability
<1>4. n = [id |-> task[t].id, cap |-> o.cap, asset |-> o.asset, source |-> src,
           tainted |-> task[t].tainted, ts |-> task[t].ts, arts |-> {art}, tags |-> o.tags]
  BY DEF NodeOf
<1> HIDE DEF src, art, n
<1>5. n \in Node
  BY <1>1, <1>2, <1>3, <1>4 DEF Node
<1> QED
  BY <1>5 DEF n

\* The turn at the graph: the node brings its id along, the decision is the
\* merge's.
LEMMA JudgeInv ==
  ASSUME IInv, NEW t \in Threads, Judge(t)
  PROVE  IInv'
<1> DEFINE o == task[t].obs
           n == NodeOf(t)
           m == Matrix(t)
           decision == Merge(m, DetectChains', task[t].tainted /\ o.unsolicited, EgressOf(o))
<1>1. /\ task[t].pc = "judge" /\ task' = [task EXCEPT ![t] = Idle]
      /\ nodes' = Append(nodes, n) /\ Learn(n)
      /\ anomaly' = AnomalyScore(n, baseCaps', baseAssets', frozen')
      /\ answer' = [answer EXCEPT ![o] = decision]
      /\ UNCHANGED <<clock, store, nextId>>
  BY DEF Judge, Goto, RecordEvent
<1>2. /\ task[t] \in [pc: {"judge"}, obs: Observations, tainted: BOOLEAN, id: Nat, ts: Nat]
      /\ o \in Observation
  BY <1>1, Locals DEF IInv
<1>3. /\ SourceOf(o) \in {"User", "Provider"} /\ ArtifactId(o, o.target) \in Artifacts
      /\ o.unsolicited \in BOOLEAN /\ o.cap \in Capability /\ o.asset \in AssetClass
      /\ o.tags \subseteq Tag
  BY <1>2, Ids DEF Observation, ToolCapability
<1>4. /\ n \in Node /\ n.id = task[t].id /\ n.tainted = task[t].tainted
      /\ n.source = SourceOf(o) /\ n.cap \in Capability /\ n.asset \in AssetClass
  BY <1>1, <1>3, NodeTyped DEF NodeOf
<1>5. m \in MatrixDecision /\ (o.unsolicited => m \in Cautious)
  <2> DEFINE src == SourceOf(o)
             in == [source |-> src, capability |-> o.cap, asset |-> o.asset,
                    tainted |-> task[t].tainted]
  <2>1. src \in Source /\ (o.unsolicited => src = "Provider")
    BY <1>3 DEF Source, SourceOf
  <2>2. m = MatrixEvaluate(in)
    BY DEF Matrix
  <2> HIDE DEF src
  <2>3. in \in MatrixInput /\ in.source = src
    BY <1>2, <1>3, <2>1 DEF MatrixInput
  <2> HIDE DEF in, m
  <2> QED
    BY <2>1, <2>2, <2>3, MatrixSound
<1>6. decision \in MatrixDecision /\ (o.unsolicited => decision \in Cautious)
  <2> DEFINE doomed == task[t].tainted /\ o.unsolicited
  <2>1. doomed \in BOOLEAN
    BY <1>2, <1>3
  <2>2. decision \in {m} \cup Cautious
    <3> HIDE DEF doomed, m
    <3>1. Merge(m, DetectChains', doomed, EgressOf(o)) \in {m} \cup Cautious
      BY <1>5, <2>1, MergeSound
    <3> QED
      BY <3>1 DEF doomed
  <2> HIDE DEF decision, m
  <2> QED
    BY <1>5, <2>2 DEF Cautious, MatrixDecision
<1> HIDE DEF decision, m, n, o
<1>7. LocalsTainted' /\ task' \in [Threads -> Local]
  <2>1. Idle \in Local /\ Idle.pc = "idle"
    BY DEF Local, Idle
  <2> QED
    BY <1>1, <2>1, LocalsKept
<1>8. /\ nodes' \in Seq(Node) /\ DOMAIN nodes' = 1 .. Len(nodes) + 1
      /\ DOMAIN nodes = 1 .. Len(nodes) /\ Len(nodes) \in Nat
      /\ \A i \in DOMAIN nodes : nodes'[i] = nodes[i]
      /\ nodes'[Len(nodes) + 1] = n
  BY <1>1, <1>4, AppendProperties DEF IInv, TypeOK
<1>9. \A i \in DOMAIN nodes' : i \in DOMAIN nodes \/ (i = Len(nodes) + 1 /\ nodes'[i] = n)
  BY <1>8
<1>10. TypeOK'
  <2>1. baseCaps' \subseteq Capability /\ baseAssets' \subseteq AssetClass /\ frozen' \in BOOLEAN
    BY <1>1, <1>4 DEF Learn, IInv, TypeOK
  <2>2. answer' \in [Observations -> MatrixDecision \cup {"none"}]
    BY <1>1, <1>6 DEF IInv, TypeOK
  <2>3. anomaly' \in 0 .. 100
    BY <1>1, AnomalyInRange
  <2>4. clock' \in Nat /\ store' \in [Artifacts -> Entry] /\ nextId' \in Nat
    BY <1>1 DEF IInv, TypeOK
  <2> QED
    BY <1>7, <1>8, <2>1, <2>2, <2>3, <2>4 DEF TypeOK
<1>11. IdsOnce'
  <2>1. task'[t].pc # "judge" /\ \A u \in Threads : u # t => task'[u] = task[u]
    BY <1>1 DEF IInv, TypeOK, Idle
  <2>2. n.id < nextId /\ \A i \in DOMAIN nodes : nodes[i].id # n.id
    BY <1>1, <1>4 DEF IInv, IdsOnce
  <2>3. \A i \in DOMAIN nodes' : nodes'[i].id < nextId
    BY <1>8, <1>9, <2>2 DEF IInv, IdsOnce
  <2>4. \A i, j \in DOMAIN nodes' : nodes'[i].id = nodes'[j].id => i = j
    BY <1>8, <1>9, <2>2 DEF IInv, IdsOnce, NodesDistinct
  <2>5. \A u \in Threads : task'[u].pc = "judge" =>
          task'[u].id < nextId /\ task'[u].id # n.id /\ \A i \in DOMAIN nodes : nodes[i].id # task'[u].id
    BY <1>1, <1>4, <2>1 DEF IInv, IdsOnce
  <2>6. \A u \in Threads : task'[u].pc = "judge" =>
          \A i \in DOMAIN nodes' : nodes'[i].id # task'[u].id
    BY <1>8, <1>9, <2>5
  <2>7. \A u, v \in Threads :
          u # v /\ task'[u].pc = "judge" /\ task'[v].pc = "judge" => task'[u].id # task'[v].id
    BY <2>1 DEF IInv, IdsOnce
  <2> QED
    BY <1>1, <2>3, <2>4, <2>5, <2>6, <2>7 DEF IdsOnce, NodesDistinct
<1>12. TaintStaysInSource'
  <2>1. n.tainted => n.source \in Untrusted
    BY <1>1, <1>4 DEF IInv, LocalsTainted, o
  <2>2. \A i \in DOMAIN nodes' : nodes'[i].tainted => nodes'[i].source \in Untrusted
    BY <1>8, <1>9, <2>1 DEF IInv, TaintStaysInSource, ToSet
  <2> QED
    BY <1>1, <2>2 DEF IInv, TaintStaysInSource, ToSet
<1>13. UnsolicitedNeverSilent'
  <2>1. \A d \in Cautious : Rank[d] >= Rank["Ask"]
    BY DEF Cautious, Rank, MatrixDecision
  <2>2. ASSUME NEW p \in Observations, p.unsolicited, answer'[p] # "none"
        PROVE  Rank[answer'[p]] >= Rank["Ask"]
    <3>1. CASE p = o
      <4>1. answer'[p] = decision
        BY <1>1, <3>1, <2>2 DEF IInv, TypeOK
      <4> QED
        BY <1>6, <2>1, <2>2, <3>1, <4>1
    <3>2. CASE p # o
      <4>1. answer'[p] = answer[p]
        BY <1>1, <3>2 DEF IInv, TypeOK
      <4> QED
        BY <2>2, <4>1 DEF IInv, UnsolicitedNeverSilent
    <3> QED
      BY <3>1, <3>2
  <2> QED
    BY <2>2 DEF UnsolicitedNeverSilent
<1> QED
  BY <1>7, <1>10, <1>11, <1>12, <1>13 DEF IInv

LEMMA NextInv == IInv /\ [Next]_vars => IInv'
<1> SUFFICES ASSUME IInv, [Next]_vars PROVE IInv'
  OBVIOUS
<1>1. ASSUME NEW t \in Threads, Evaluate(t) PROVE IInv'
  BY <1>1, BeginCanaryInv, BeginInv, LookupInv, RecordArtifactInv, RecordRefsInv, StampInv,
     JudgeInv DEF Evaluate
<1>2. CASE Tick
  <2>1. clock' \in Nat
        /\ UNCHANGED <<nodes, baseCaps, baseAssets, frozen, anomaly, store, nextId, task, answer>>
    BY <1>2 DEF Tick, graph, IInv, TypeOK
  <2> QED
    BY <2>1 DEF IInv, TypeOK, IdsOnce, NodesDistinct, TaintStaysInSource, LocalsTainted,
                UnsolicitedNeverSilent
<1>3. CASE UNCHANGED vars
  BY <1>3 DEF vars, graph, IInv, TypeOK, IdsOnce, NodesDistinct, TaintStaysInSource,
              LocalsTainted, UnsolicitedNeverSilent
<1> QED
  BY <1>1, <1>2, <1>3 DEF Next

-------------------------------------------------------------------------------
(* The theorems.                                                           *)

\* The engine's types, the anomaly score's ceiling among them.
THEOREM EngineTypes == Spec => []TypeOK
<1>1. IInv => TypeOK
  BY DEF IInv
<1> QED
  BY InitInv, NextInv, <1>1, PTL DEF Spec

\* Each event of the session has an id of its own, whatever tasks interleave
\* between next_node_id.fetch_add and the graph's mutex (evaluate).
THEOREM EventIds == Spec => []NodesDistinct
<1>1. IInv => NodesDistinct
  BY DEF IInv, IdsOnce
<1> QED
  BY InitInv, NextInv, <1>1, PTL DEF Spec

\* Taint stays with the origin that ids carry, through concurrent recordings and
\* any failures of the provenance store.
THEOREM TaintByOrigin == Spec => []TaintStaysInSource
<1>1. IInv => TaintStaysInSource
  BY DEF IInv
<1> QED
  BY InitInv, NextInv, <1>1, PTL DEF Spec

\* A tool the client did not declare is at least asked about, with any store, any
\* failures and any session before it (merge_decision over the matrix's cascade).
THEOREM UndeclaredAsked == Spec => []UnsolicitedNeverSilent
<1>1. IInv => UnsolicitedNeverSilent
  BY DEF IInv
<1> QED
  BY InitInv, NextInv, <1>1, PTL DEF Spec

-------------------------------------------------------------------------------
(* What the detectors found they find again.                               *)

\* How the graph and the clock may change: nodes are added, a baseline that is
\* frozen stays as it is, and a node that arrives after the third day is not of
\* the first.
GraphGrows ==
  /\ nodes \in Seq(Node) /\ nodes' \in Seq(Node)
  /\ ToSet(nodes) \subseteq ToSet(nodes)'
  /\ frozen => frozen' /\ UNCHANGED <<baseCaps, baseAssets>>
  /\ clock >= 3 * Day =>
       clock' >= 3 * Day /\ \A n \in ToSet(nodes)' \ ToSet(nodes) : n.ts > Day

\* The sets the detectors are made of grow.
LEMMA SetsGrow ==
  ASSUME GraphGrows
  PROVE  /\ \A caps : Having(caps) \subseteq Having(caps)'
         /\ \A assets : OnAsset(assets) \subseteq OnAsset(assets)'
         /\ \A tags : Tagged(tags) \subseteq Tagged(tags)'
         /\ Fetches \subseteq Fetches' /\ Writes \subseteq Writes' /\ Execs \subseteq Execs'
         /\ Posts \subseteq Posts' /\ InTemp \subseteq InTemp' /\ Secrets \subseteq Secrets'
<1>1. \A caps : Having(caps) \subseteq Having(caps)'
  BY DEF GraphGrows, Having
<1>2. \A assets : OnAsset(assets) \subseteq OnAsset(assets)'
  BY DEF GraphGrows, OnAsset
<1>3. \A tags : Tagged(tags) \subseteq Tagged(tags)'
  BY DEF GraphGrows, Tagged
<1> QED
  BY <1>1, <1>2, <1>3 DEF Fetches, Writes, Execs, Posts, InTemp, Secrets

\* So does what a detector of either shape finds in them.
LEMMA ShapesGrow ==
  ASSUME NEW at, NEW at2, NEW priors, NEW priors2, at \subseteq at2, priors \subseteq priors2
  PROVE  /\ \A rule, sev : Each(rule, sev, at) \subseteq Each(rule, sev, at2)
         /\ \A rule, sev : After(rule, sev, at, priors) \subseteq After(rule, sev, at2, priors2)
BY DEF Each, After

\* The detectors of one shape, and of two or more.
LEMMA PriorsGrow ==
  ASSUME GraphGrows
  PROVE  /\ ReadSecretOutbound \subseteq ReadSecretOutbound'
         /\ DecodeThenExecute \subseteq DecodeThenExecute'
         /\ SensitiveAssetOutbound \subseteq SensitiveAssetOutbound'
         /\ ConfigPoisonThenExec \subseteq ConfigPoisonThenExec'
         /\ ConfigPoisonThenNetpost \subseteq ConfigPoisonThenNetpost'
         /\ ArchiveUnpackExec \subseteq ArchiveUnpackExec'
         /\ EnvAndWifiOutbound \subseteq EnvAndWifiOutbound'
         /\ PkgPoisonInstall \subseteq PkgPoisonInstall'
         /\ BrowserDownloadExec \subseteq BrowserDownloadExec'
         /\ McpSensitiveOutbound \subseteq McpSensitiveOutbound'
         /\ ProxyRewriteEgress \subseteq ProxyRewriteEgress'
<1>1. ReadSecretOutbound \subseteq ReadSecretOutbound'
  <2>1. Having({"SecretAccess"}) \cap Secrets \subseteq (Having({"SecretAccess"}) \cap Secrets)'
    BY SetsGrow
  <2> QED
    BY <2>1, SetsGrow, ShapesGrow DEF ReadSecretOutbound
<1>2. DecodeThenExecute \subseteq DecodeThenExecute'
  BY SetsGrow, ShapesGrow DEF DecodeThenExecute
<1>3. SensitiveAssetOutbound \subseteq SensitiveAssetOutbound'
  <2>1. \A rule, sev, assets :
          After(rule, sev, Posts, OnAsset(assets)) \subseteq After(rule, sev, Posts, OnAsset(assets))'
    BY SetsGrow, ShapesGrow
  <2> QED
    BY <2>1 DEF SensitiveAssetOutbound
<1>4. PoisonedConfigs \subseteq PoisonedConfigs'
  BY SetsGrow DEF PoisonedConfigs
<1>5. ConfigPoisonThenExec \subseteq ConfigPoisonThenExec'
  <2>1. Execs \cup Posts \subseteq (Execs \cup Posts)'
    BY SetsGrow
  <2> QED
    BY <1>4, <2>1, ShapesGrow DEF ConfigPoisonThenExec
<1>6. ConfigPoisonThenNetpost \subseteq ConfigPoisonThenNetpost'
  BY <1>4, SetsGrow, ShapesGrow DEF ConfigPoisonThenNetpost
<1>7. ArchiveUnpackExec \subseteq ArchiveUnpackExec'
  <2> DEFINE unpacks == Tagged({"archive"}) \cap OnAsset({"Temp", "Executable", "External"})
  <2>1. unpacks \subseteq unpacks'
    BY SetsGrow
  <2> HIDE DEF unpacks
  <2>2. After("archive-unpack-exec", 85, Execs, unpacks)
          \subseteq After("archive-unpack-exec", 85, Execs, unpacks)'
    BY <2>1, SetsGrow, ShapesGrow
  <2> QED
    BY <2>2 DEF ArchiveUnpackExec, unpacks
<1>8. EnvAndWifiOutbound \subseteq EnvAndWifiOutbound'
  <2>1. \A rule, sev, tags :
          After(rule, sev, Posts, Tagged(tags)) \subseteq After(rule, sev, Posts, Tagged(tags))'
    BY SetsGrow, ShapesGrow
  <2> QED
    BY <2>1 DEF EnvAndWifiOutbound
<1>9. PkgPoisonInstall \subseteq PkgPoisonInstall'
  <2> DEFINE installs == Execs \cap Tagged({"install"})
  <2>1. installs \subseteq installs'
    BY SetsGrow
  <2> HIDE DEF installs
  <2>2. After("pkg-poison-install", 85, installs, Tagged({"registry"}))
          \subseteq After("pkg-poison-install", 85, installs, Tagged({"registry"}))'
    BY <2>1, SetsGrow, ShapesGrow
  <2> QED
    BY <2>2 DEF PkgPoisonInstall, installs
<1>10. BrowserDownloadExec \subseteq BrowserDownloadExec'
  <2> DEFINE downloads == Having({"BrowserDownload", "BrowserNavigate"}) \cap OnAsset({"External", "Temp"})
  <2>1. downloads \subseteq downloads'
    BY SetsGrow
  <2> HIDE DEF downloads
  <2>2. After("browser-download-exec", 90, Execs, downloads)
          \subseteq After("browser-download-exec", 90, Execs, downloads)'
    BY <2>1, SetsGrow, ShapesGrow
  <2> QED
    BY <2>2 DEF BrowserDownloadExec, downloads
<1>11. McpSensitiveOutbound \subseteq McpSensitiveOutbound'
  <2> DEFINE leaks == {n \in Secrets : n.source = "Mcp"}
  <2>1. leaks \subseteq leaks'
    BY SetsGrow
  <2> HIDE DEF leaks
  <2>2. After("mcp-sensitive-outbound", 90, Posts, leaks)
          \subseteq After("mcp-sensitive-outbound", 90, Posts, leaks)'
    BY <2>1, SetsGrow, ShapesGrow
  <2> QED
    BY <2>2 DEF McpSensitiveOutbound, leaks
<1>12. ProxyRewriteEgress \subseteq ProxyRewriteEgress'
  BY SetsGrow, ShapesGrow DEF ProxyRewriteEgress
<1> QED
  BY <1>1, <1>2, <1>3, <1>5, <1>6, <1>7, <1>8, <1>9, <1>10, <1>11, <1>12

\* The detectors that look at nodes by themselves.
LEMMA NodesGrow ==
  ASSUME GraphGrows
  PROVE  /\ BrowseExtractShell \subseteq BrowseExtractShell'
         /\ McpToShellOrNet \subseteq McpToShellOrNet'
         /\ TaintLeap \subseteq TaintLeap'
         /\ LongDwell \subseteq LongDwell'
         /\ BaselineAnomaly \subseteq BaselineAnomaly'
         /\ CapabilityEscalation \subseteq CapabilityEscalation'
         /\ ExecViaMakeOrNpm \subseteq ExecViaMakeOrNpm'
         /\ PowershellEncodedExec \subseteq PowershellEncodedExec'
         /\ RepeatedTempExec \subseteq RepeatedTempExec'
         /\ TempExecDelay \subseteq TempExecDelay'
<1>0. ToSet(nodes) \subseteq ToSet(nodes)'
  BY DEF GraphGrows
<1>1. BrowseExtractShell \subseteq BrowseExtractShell'
  BY SetsGrow DEF BrowseExtractShell, Each
<1>2. McpToShellOrNet \subseteq McpToShellOrNet'
  BY <1>0, SetsGrow DEF McpToShellOrNet, Each
<1>3. TaintLeap \subseteq TaintLeap'
  BY SetsGrow DEF TaintLeap, Each
<1>4. LongDwell \subseteq LongDwell'
  <2> SUFFICES ASSUME NEW h \in LongDwell PROVE h \in LongDwell'
    OBVIOUS
  <2> DEFINE dayOne == {n.cap : n \in {m \in ToSet(nodes) : m.ts <= Day}}
  <2>1. PICK n \in ToSet(nodes) : /\ h = Hit("long-dwell-new-capability", 70, n)
                                  /\ clock >= 3 * Day /\ n.ts > Day
                                  /\ n.cap \notin dayOne \cup {"ReadFile", "WriteFile"}
    BY DEF LongDwell, Each
  <2>2. clock' >= 3 * Day /\ \A m \in ToSet(nodes)' \ ToSet(nodes) : m.ts > Day
    BY <2>1 DEF GraphGrows
  <2>3. \A m \in ToSet(nodes)' : m.ts \in Nat
    <3>1. \A i \in DOMAIN nodes' : nodes'[i] \in Node
      BY ElementOfSeq DEF GraphGrows
    <3> QED
      BY <3>1 DEF ToSet, Node
  <2>4. \A m \in ToSet(nodes)' : m.ts <= Day => m \in ToSet(nodes)
    BY <2>2, <2>3, SessionGraphAssumption
  <2>5. dayOne' \subseteq dayOne
    BY <2>4
  <2>6. n \in ToSet(nodes)' /\ n.cap \notin dayOne' \cup {"ReadFile", "WriteFile"}
    BY <1>0, <2>1, <2>5
  <2> QED
    BY <2>1, <2>2, <2>6 DEF LongDwell, Each
<1>5. BaselineAnomaly \subseteq BaselineAnomaly'
  <2>1. frozen => frozen' /\ baseCaps' = baseCaps /\ baseAssets' = baseAssets
    BY DEF GraphGrows
  <2> QED
    BY <1>0, <2>1 DEF BaselineAnomaly, Each
<1>6. CapabilityEscalation \subseteq CapabilityEscalation'
  <2>1. frozen => frozen' /\ baseCaps' = baseCaps
    BY DEF GraphGrows
  <2>2. Having(Critical) \subseteq Having(Critical)'
    BY SetsGrow DEF Critical
  <2> QED
    BY <2>1, <2>2 DEF CapabilityEscalation, Each
<1>7. ExecViaMakeOrNpm \subseteq ExecViaMakeOrNpm'
  BY SetsGrow DEF ExecViaMakeOrNpm, Each
<1>8. PowershellEncodedExec \subseteq PowershellEncodedExec'
  BY SetsGrow DEF PowershellEncodedExec, Each
<1>9. RepeatedTempExec \subseteq RepeatedTempExec'
  BY SetsGrow DEF RepeatedTempExec, Each
<1>10. TempExecDelay \subseteq TempExecDelay'
  BY SetsGrow DEF TempExecDelay, Each
<1> QED
  BY <1>1, <1>2, <1>3, <1>4, <1>5, <1>6, <1>7, <1>8, <1>9, <1>10

\* An execution that follows a fetch and a write goes on doing so; the first of
\* those is always found.
LEMMA FetchWriteExecuteGrows ==
  ASSUME GraphGrows, \A i \in DOMAIN nodes : i \in DOMAIN nodes' /\ nodes'[i] = nodes[i],
         NEW h \in FetchWriteExecute
  PROVE  \E k \in FetchWriteExecute' : k.rule = h.rule /\ k.sev >= h.sev
<1>1. \A e : Linked(e) => Linked(e)'
  BY SetsGrow DEF Linked
<1>2. \A e : Loose(e) => Loose(e)'
  <2>1. Writes \cap InTemp \subseteq (Writes \cap InTemp)'
    BY SetsGrow
  <2> QED
    BY <2>1, SetsGrow DEF Loose
<1> DEFINE execs == {i \in DOMAIN nodes : nodes[i].cap = "Execute"}
           links == {i \in execs' : Linked(nodes[i])'}
           chained == {i \in execs' : Linked(nodes[i])' \/ Loose(nodes[i])'}
           quietBefore(i) == \A j \in execs : j < i => ~Linked(nodes[j]) /\ ~Loose(nodes[j])
<1>3. /\ \A i \in links : Hit("fetch-write-execute", 95, nodes'[i]) \in FetchWriteExecute'
      /\ \A i \in execs' : ~Linked(nodes[i])' /\ quietBefore(i)' /\ Loose(nodes[i])'
           => Hit("fetch-write-execute", 90, nodes'[i]) \in FetchWriteExecute'
  BY DEF FetchWriteExecute
<1>4. \E i \in execs : \/ Linked(nodes[i]) /\ h = Hit("fetch-write-execute", 95, nodes[i])
                       \/ Loose(nodes[i]) /\ h = Hit("fetch-write-execute", 90, nodes[i])
  BY DEF FetchWriteExecute
<1>5. execs \subseteq execs' /\ \A i \in execs : nodes'[i] = nodes[i]
  OBVIOUS
<1>6. CASE \E i \in execs : Linked(nodes[i]) /\ h = Hit("fetch-write-execute", 95, nodes[i])
  <2>1. PICK i \in execs : Linked(nodes[i]) /\ h = Hit("fetch-write-execute", 95, nodes[i])
    BY <1>6
  <2>2. i \in links
    BY <1>1, <1>5, <2>1
  <2>3. Hit("fetch-write-execute", 95, nodes'[i]) \in FetchWriteExecute'
    BY <1>3, <2>2
  <2> QED
    BY <2>1, <2>3 DEF Hit
<1>7. CASE \E i \in execs : Loose(nodes[i]) /\ h = Hit("fetch-write-execute", 90, nodes[i])
  <2>1. PICK i \in execs : Loose(nodes[i]) /\ h = Hit("fetch-write-execute", 90, nodes[i])
    BY <1>7
  <2>2. i \in chained
    BY <1>2, <1>5, <2>1
  <2>3. chained \subseteq Nat
    BY DEF GraphGrows
  <2>4. PICK f \in chained : \A j \in chained : f <= j
    BY <2>2, <2>3, LeastIn
  <2>5. \A j \in chained : ~(j < f)
    BY <2>3, <2>4
  <2>6. quietBefore(f)'
    BY <2>5
  <2>7. \E k \in FetchWriteExecute' : k.rule = "fetch-write-execute" /\ k.sev >= 90
    <3>1. CASE Linked(nodes[f])'
      <4>1. Hit("fetch-write-execute", 95, nodes'[f]) \in FetchWriteExecute'
        BY <1>3, <3>1
      <4> QED
        BY <4>1 DEF Hit
    <3>2. CASE ~Linked(nodes[f])'
      <4>1. Hit("fetch-write-execute", 90, nodes'[f]) \in FetchWriteExecute'
        BY <1>3, <2>6, <3>2
      <4> QED
        BY <4>1 DEF Hit
    <3> QED
      BY <3>1, <3>2
  <2> QED
    BY <2>1, <2>7 DEF Hit
<1> QED
  BY <1>4, <1>6, <1>7

\* The severity of a hit is a number.
LEMMA HitSeverity == \A rule, sev, n : Hit(rule, sev, n).sev = sev /\ Hit(rule, sev, n).rule = rule
BY DEF Hit

\* A severity that some hit reaches is reached again.
LEMMA WorstGrows ==
  ASSUME GraphGrows, \A i \in DOMAIN nodes : i \in DOMAIN nodes' /\ nodes'[i] = nodes[i],
         NEW bar \in Nat, \E h \in DetectChains : h.sev >= bar
  PROVE  \E h \in DetectChains' : h.sev >= bar
<1> PICK h \in DetectChains : h.sev >= bar
  OBVIOUS
<1>1. CASE h \in FetchWriteExecute
  <2>1. PICK k \in FetchWriteExecute' : k.rule = h.rule /\ k.sev >= h.sev
    BY <1>1, FetchWriteExecuteGrows
  <2>2. h.sev \in {90, 95}
    BY <1>1, HitSeverity DEF FetchWriteExecute
  <2>3. k.sev \in {90, 95}
    BY HitSeverity DEF FetchWriteExecute
  <2>4. k.sev >= bar
    BY <2>1, <2>2, <2>3
  <2> QED
    BY <2>4 DEF DetectChains
<1>2. CASE h \notin FetchWriteExecute
  <2>1. h \in DetectChains'
    BY <1>2, PriorsGrow, NodesGrow DEF DetectChains
  <2> QED
    BY <2>1
<1> QED
  BY <1>1, <1>2

-------------------------------------------------------------------------------
(* Asking again never helps.                                               *)

\* Whether a tool use's artifact is tainted, with a store that does not fail.
Settled(o) == HasStore /\ o.unsolicited

\* The decision that the session so far makes on a tool use.
Verdict(o) ==
  Merge(MatrixEvaluate([source |-> SourceOf(o), capability |-> o.cap, asset |-> o.asset,
                        tainted |-> Settled(o)]),
        DetectChains, Settled(o) /\ o.unsolicited, EgressOf(o))

\* What makes DecisionNeverRelaxes hold: each evaluation of a tool use finds the
\* same taint, reaches the graph within a second, and what was answered is no
\* stricter than what the session now decides.
Steady ==
  \A t \in Threads :
    /\ task[t].pc # "idle" => ~task[t].obs.canary
    /\ task[t].pc \in {"lookup", "record", "refs"} => HasStore
    /\ task[t].pc \in {"refs", "stamp", "judge"} => (task[t].tainted <=> Settled(task[t].obs))
    /\ task[t].pc = "judge" => task[t].ts <= clock /\ clock <= task[t].ts + 1

Answered ==
  \A o \in Observations :
    answer[o] # "none" =>
      IF o.canary THEN answer[o] = "Block" ELSE Rank[Verdict(o)] >= Rank[answer[o]]

\* More hits never make the merge milder.
LEMMA MergeGrows ==
  ASSUME NEW m \in MatrixDecision, NEW hits, NEW hits2, NEW doomed, NEW egress,
         \A bar \in {70, 90} : (\E h \in hits : h.sev >= bar) => \E h \in hits2 : h.sev >= bar
  PROVE  /\ Merge(m, hits, doomed, egress) \in MatrixDecision
         /\ Merge(m, hits2, doomed, egress) \in MatrixDecision
         /\ Rank[Merge(m, hits2, doomed, egress)] >= Rank[Merge(m, hits, doomed, egress)]
<1> DEFINE worst(sev) == \E h \in hits : h.sev >= sev
           worst2(sev) == \E h \in hits2 : h.sev >= sev
           d == IF egress = "Block" \/ worst(90) \/ doomed \/ m = "Block" THEN "Block"
                ELSE IF m = "Quarantine" \/ worst(70) THEN "Quarantine"
                ELSE IF egress = "Ask" THEN "Ask" ELSE m
           d2 == IF egress = "Block" \/ worst2(90) \/ doomed \/ m = "Block" THEN "Block"
                 ELSE IF m = "Quarantine" \/ worst2(70) THEN "Quarantine"
                 ELSE IF egress = "Ask" THEN "Ask" ELSE m
<1>1. (worst(90) => worst2(90)) /\ (worst(70) => worst2(70))
  OBVIOUS
<1> HIDE DEF worst, worst2
<1>2. d \in MatrixDecision /\ d2 \in MatrixDecision
  BY DEF MatrixDecision
<1>3. Rank[d2] >= Rank[d]
  <2>1. d2 = d \/ d2 = "Block" \/ (d2 = "Quarantine" /\ d # "Block")
    BY <1>1
  <2> HIDE DEF d, d2
  <2> QED
    BY <1>2, <2>1 DEF Rank, MatrixDecision
<1> HIDE DEF d, d2
<1>4. d = Merge(m, hits, doomed, egress) /\ d2 = Merge(m, hits2, doomed, egress)
  BY DEF Merge, d, d2, worst, worst2
<1> QED
  BY <1>2, <1>3, <1>4

\* The session's decision on a tool use never becomes milder.
LEMMA VerdictGrows ==
  ASSUME GraphGrows, \A i \in DOMAIN nodes : i \in DOMAIN nodes' /\ nodes'[i] = nodes[i],
         NEW o \in Observation
  PROVE  /\ Verdict(o) \in MatrixDecision /\ Verdict(o)' \in MatrixDecision
         /\ Rank[Verdict(o)'] >= Rank[Verdict(o)]
<1> DEFINE in == [source |-> SourceOf(o), capability |-> o.cap, asset |-> o.asset,
                  tainted |-> Settled(o)]
           m == MatrixEvaluate(in)
           doomed == Settled(o) /\ o.unsolicited
           egress == EgressOf(o)
<1>1. m \in MatrixDecision
  <2>1. SourceOf(o) \in Source /\ o.cap \in Capability /\ o.asset \in AssetClass
    BY Ids DEF Source, Observation, ToolCapability
  <2>2. Settled(o) \in BOOLEAN
    BY EngineAssumption DEF Settled, Observation
  <2>3. in \in MatrixInput
    BY <2>1, <2>2 DEF MatrixInput
  <2> HIDE DEF in
  <2> QED
    BY <2>3, MatrixSound
<1>2. \A bar \in {70, 90} :
        (\E h \in DetectChains : h.sev >= bar) => \E h \in DetectChains' : h.sev >= bar
  BY WorstGrows
<1> HIDE DEF m
<1>3. /\ Merge(m, DetectChains, doomed, egress) \in MatrixDecision
      /\ Merge(m, DetectChains', doomed, egress) \in MatrixDecision
      /\ Rank[Merge(m, DetectChains', doomed, egress)] >= Rank[Merge(m, DetectChains, doomed, egress)]
  <2> HIDE DEF doomed, egress
  <2> QED
    BY <1>1, <1>2, MergeGrows
<1>4. Verdict(o) = Merge(m, DetectChains, doomed, egress)
  BY DEF Verdict, m
<1>5. Verdict(o)' = Merge(m, DetectChains', doomed, egress)
  BY DEF Verdict, m, EgressOf, Settled
<1> QED
  BY <1>3, <1>4, <1>5

\* A task's locals, if they are right, leave the others' right.
LEMMA SteadyKept ==
  ASSUME IInv, Steady, NEW t \in Threads, NEW next,
         task' = [task EXCEPT ![t] = next], clock' = clock,
         next.pc # "idle" => ~next.obs.canary,
         next.pc \in {"lookup", "record", "refs"} => HasStore,
         next.pc \in {"refs", "stamp", "judge"} => (next.tainted <=> Settled(next.obs)),
         next.pc = "judge" => next.ts = clock
  PROVE  Steady'
<1>1. task'[t] = next /\ \A u \in Threads : u # t => task'[u] = task[u]
  BY DEF IInv, TypeOK
<1>2. clock \in Nat
  BY DEF IInv, TypeOK
<1> QED
  BY <1>1, <1>2 DEF Steady, Settled

\* A user's artifact is never tainted, a provider's always.
LEMMA SettledTaint ==
  ASSUME IInv, Steady, NEW t \in Threads, task[t].pc = "record"
  PROVE  Taints(SourceOf(task[t].obs), task[t].parents) <=> Settled(task[t].obs)
<1>1. HasStore
  BY DEF Steady
<1>2. SourceOf(task[t].obs) \in Untrusted <=> task[t].obs.unsolicited
  BY DEF SourceOf, Untrusted
<1>3. task[t].parents # {} => SourceOf(task[t].obs) \in Untrusted
  BY DEF IInv, LocalsTainted
<1>4. TaintedOf(task[t].parents) # {} => task[t].parents # {}
  BY DEF TaintedOf
<1> QED
  BY <1>1, <1>2, <1>3, <1>4 DEF Taints, Settled

\* Each step of an evaluation keeps its locals right.
LEMMA SteadyStep ==
  ASSUME HasStore => ~StoreFails, IInv, Steady, [Next]_vars
  PROVE  Steady'
<1>1. ASSUME UNCHANGED <<task, clock>> PROVE Steady'
  BY <1>1 DEF Steady, Settled
<1>2. ASSUME NEW t \in Threads, NEW o \in Observations, Begin(t, o) PROVE Steady'
  <2> DEFINE next == [pc |-> IF HasStore THEN "lookup" ELSE "stamp", obs |-> o,
                      parents |-> {}, tainted |-> FALSE]
  <2>1. task' = [task EXCEPT ![t] = next] /\ clock' = clock /\ ~o.canary
    BY <1>2 DEF Begin, Goto
  <2>2. next.obs = o /\ ~next.tainted /\ (HasStore => next.pc = "lookup") /\ (~HasStore => next.pc = "stamp")
    OBVIOUS
  <2>3. ~HasStore => ~Settled(o)
    BY DEF Settled
  <2> HIDE DEF next
  <2> QED
    BY <2>1, <2>2, <2>3, SteadyKept
<1>3. ASSUME NEW t \in Threads, Lookup(t) PROVE Steady'
  <2>1. /\ task[t].pc = "lookup" /\ clock' = clock
        /\ \E parents : task' = [task EXCEPT ![t] = [task[t] EXCEPT !.pc = "record", !.parents = parents]]
    BY <1>3 DEF Lookup, Goto
  <2> PICK parents : task' = [task EXCEPT ![t] = [task[t] EXCEPT !.pc = "record", !.parents = parents]]
    BY <2>1
  <2> DEFINE next == [task[t] EXCEPT !.pc = "record", !.parents = parents]
  <2>2. task[t] \in [pc: {"lookup", "record", "refs", "stamp"}, obs: Observations,
                       parents: SUBSET Artifacts, tainted: BOOLEAN]
    BY <2>1, Locals DEF IInv
  <2>3. next.pc = "record" /\ next.obs = task[t].obs
    BY <2>2
  <2> HIDE DEF next
  <2>4. HasStore /\ ~task[t].obs.canary
    BY <2>1 DEF Steady
  <2> QED
    BY <2>1, <2>3, <2>4, SteadyKept DEF next
<1>4. ASSUME NEW t \in Threads, RecordArtifact(t) PROVE Steady'
  <2> DEFINE tainted == Taints(SourceOf(task[t].obs), task[t].parents)
             next == [task[t] EXCEPT !.pc = "refs", !.tainted = tainted]
  <2>1. task[t].pc = "record" /\ clock' = clock
    BY <1>4 DEF RecordArtifact
  <2>2. HasStore /\ ~task[t].obs.canary
    BY <2>1 DEF Steady
  <2>3. task' = [task EXCEPT ![t] = next]
    BY <1>4, <2>2 DEF RecordArtifact, Goto
  <2>4. tainted <=> Settled(task[t].obs)
    BY <2>1, SettledTaint
  <2>5. task[t] \in [pc: {"lookup", "record", "refs", "stamp"}, obs: Observations,
                       parents: SUBSET Artifacts, tainted: BOOLEAN]
    BY <2>1, Locals DEF IInv
  <2> HIDE DEF tainted
  <2>6. next.pc = "refs" /\ next.obs = task[t].obs /\ next.tainted = tainted
    BY <2>5
  <2> HIDE DEF next
  <2>7. next.tainted <=> Settled(next.obs)
    BY <2>4, <2>6
  <2> QED
    BY <2>1, <2>2, <2>3, <2>6, <2>7, SteadyKept
<1>5. ASSUME NEW t \in Threads, RecordRefs(t) PROVE Steady'
  <2> DEFINE next == [task[t] EXCEPT !.pc = "stamp"]
  <2>1. task[t].pc = "refs" /\ clock' = clock /\ task' = [task EXCEPT ![t] = next]
    BY <1>5 DEF RecordRefs, Goto
  <2>2. task[t] \in [pc: {"lookup", "record", "refs", "stamp"}, obs: Observations,
                       parents: SUBSET Artifacts, tainted: BOOLEAN]
    BY <2>1, Locals DEF IInv
  <2>3. next.pc = "stamp" /\ next.obs = task[t].obs /\ next.tainted = task[t].tainted
    BY <2>2
  <2> HIDE DEF next
  <2>4. ~task[t].obs.canary /\ (task[t].tainted <=> Settled(task[t].obs))
    BY <2>1 DEF Steady
  <2>5. next.tainted <=> Settled(next.obs)
    BY <2>3, <2>4
  <2> QED
    BY <2>1, <2>3, <2>4, <2>5, SteadyKept
<1>6. ASSUME NEW t \in Threads, Stamp(t) PROVE Steady'
  <2> DEFINE next == [pc |-> "judge", obs |-> task[t].obs, tainted |-> task[t].tainted,
                      id |-> nextId, ts |-> clock]
  <2>1. task[t].pc = "stamp" /\ clock' = clock /\ task' = [task EXCEPT ![t] = next]
    BY <1>6 DEF Stamp, Goto
  <2>2. next.pc = "judge" /\ next.obs = task[t].obs /\ next.tainted = task[t].tainted /\ next.ts = clock
    OBVIOUS
  <2> HIDE DEF next
  <2>3. ~task[t].obs.canary /\ (task[t].tainted <=> Settled(task[t].obs))
    BY <2>1 DEF Steady
  <2>4. next.tainted <=> Settled(next.obs)
    BY <2>2, <2>3
  <2> QED
    BY <2>1, <2>2, <2>3, <2>4, SteadyKept
<1>7. ASSUME NEW t \in Threads, Judge(t) PROVE Steady'
  <2>1. task' = [task EXCEPT ![t] = Idle] /\ clock' = clock /\ Idle.pc = "idle"
    BY <1>7 DEF Judge, Goto, Idle
  <2> QED
    BY <2>1, SteadyKept
<1>8. CASE Tick
  <2>1. clock' = clock + 1 /\ task' = task
        /\ \A t \in Threads : task[t].pc = "judge" => task[t].ts = clock
    BY <1>8 DEF Tick
  <2>2. clock \in Nat
    BY DEF IInv, TypeOK
  <2>3. \A t \in Threads : task'[t].pc = "judge" => task'[t].ts <= clock' /\ clock' <= task'[t].ts + 1
    BY <2>1, <2>2
  <2> QED
    BY <2>1, <2>3 DEF Steady, Settled
<1>9. ASSUME NEW t \in Threads, NEW o \in Observations, BeginCanary(t, o) PROVE Steady'
  BY <1>1, <1>9 DEF BeginCanary
<1>10. CASE UNCHANGED vars
  BY <1>1, <1>10 DEF vars
<1> QED
  BY <1>2, <1>3, <1>4, <1>5, <1>6, <1>7, <1>8, <1>9, <1>10 DEF Next, Evaluate

\* Every step leaves the graph as it was or adds to it.
LEMMA StepGrows ==
  ASSUME IInv, Steady, IInv', [Next]_vars
  PROVE  GraphGrows /\ \A i \in DOMAIN nodes : i \in DOMAIN nodes' /\ nodes'[i] = nodes[i]
<1>1. nodes \in Seq(Node) /\ nodes' \in Seq(Node) /\ clock \in Nat
  BY DEF IInv, TypeOK
<1>2. ASSUME UNCHANGED <<nodes, frozen, baseCaps, baseAssets>>, clock' = clock \/ clock' = clock + 1
      PROVE  GraphGrows /\ \A i \in DOMAIN nodes : i \in DOMAIN nodes' /\ nodes'[i] = nodes[i]
  <2>1. clock >= 3 * Day => clock' >= 3 * Day
    BY <1>1, <1>2, SessionGraphAssumption
  <2> QED
    BY <1>1, <1>2, <2>1 DEF GraphGrows
<1>3. ASSUME NEW t \in Threads, Judge(t)
      PROVE  GraphGrows /\ \A i \in DOMAIN nodes : i \in DOMAIN nodes' /\ nodes'[i] = nodes[i]
  <2> DEFINE n == NodeOf(t)
  <2>1. nodes' = Append(nodes, n) /\ Learn(n) /\ clock' = clock /\ task[t].pc = "judge"
    BY <1>3 DEF Judge, RecordEvent
  <2>2. n.ts = task[t].ts
    BY DEF NodeOf
  <2> HIDE DEF n
  <2>3. frozen => frozen' /\ UNCHANGED <<baseCaps, baseAssets>>
    BY <2>1 DEF Learn
  <2>4. /\ \A i \in DOMAIN nodes : i \in DOMAIN nodes' /\ nodes'[i] = nodes[i]
        /\ \A i \in DOMAIN nodes' : i \in DOMAIN nodes \/ nodes'[i] = n
    <3>1. n \in Node
      BY <2>1, NodeTyped DEF n
    <3>2. /\ DOMAIN nodes' = 1 .. Len(nodes) + 1 /\ DOMAIN nodes = 1 .. Len(nodes) /\ Len(nodes) \in Nat
          /\ \A i \in DOMAIN nodes : nodes'[i] = nodes[i]
          /\ nodes'[Len(nodes) + 1] = n
      BY <1>1, <2>1, <3>1, AppendProperties
    <3> QED
      BY <3>2
  <2>5. \A m \in ToSet(nodes)' \ ToSet(nodes) : m = n
    BY <2>4 DEF ToSet
  <2>6. ToSet(nodes) \subseteq ToSet(nodes)'
    BY <2>4 DEF ToSet
  <2>7. clock >= 3 * Day => n.ts > Day
    <3>1. task[t].ts \in Nat /\ clock <= task[t].ts + 1
      BY <2>1, Locals DEF IInv, Steady
    <3> QED
      BY <1>1, <2>2, <3>1, SessionGraphAssumption
  <2> QED
    BY <1>1, <2>1, <2>3, <2>4, <2>5, <2>6, <2>7 DEF GraphGrows
<1>4. ASSUME NEW t \in Threads, NEW o \in Observations, BeginCanary(t, o) \/ Begin(t, o)
      PROVE  UNCHANGED <<nodes, frozen, baseCaps, baseAssets, clock>>
  BY <1>4 DEF BeginCanary, Begin, graph
<1>5. ASSUME NEW t \in Threads, Lookup(t) \/ RecordArtifact(t) \/ RecordRefs(t) \/ Stamp(t)
      PROVE  UNCHANGED <<nodes, frozen, baseCaps, baseAssets, clock>>
  BY <1>5 DEF Lookup, RecordArtifact, RecordRefs, Stamp, graph
<1>6. CASE Tick
  BY <1>2, <1>6 DEF Tick, graph
<1>7. CASE UNCHANGED vars
  BY <1>2, <1>7 DEF vars, graph
<1> QED
  BY <1>2, <1>3, <1>4, <1>5, <1>6, <1>7 DEF Next, Evaluate

\* An answer changes to a decoy's or to what the session now decides.
LEMMA AnswerMoves ==
  ASSUME IInv, Steady, IInv', [Next]_vars, NEW o \in Observations
  PROVE  \/ answer'[o] = answer[o]
         \/ o.canary /\ answer'[o] = "Block"
         \/ ~o.canary /\ answer'[o] = Verdict(o)'
<1>1. ASSUME NEW t \in Threads, NEW p \in Observations, BeginCanary(t, p)
      PROVE  answer'[o] = answer[o] \/ (o.canary /\ answer'[o] = "Block")
  BY <1>1 DEF BeginCanary, IInv, TypeOK
<1>2. ASSUME NEW t \in Threads, Judge(t)
      PROVE  answer'[o] = answer[o] \/ (~o.canary /\ answer'[o] = Verdict(o)')
  <2> DEFINE p == task[t].obs
  <2>1. /\ task[t].pc = "judge"
        /\ answer' = [answer EXCEPT ![p] =
             Merge(Matrix(t), DetectChains', task[t].tainted /\ p.unsolicited, EgressOf(p))]
    BY <1>2 DEF Judge
  <2>2. ~p.canary /\ (task[t].tainted <=> Settled(p)) /\ task[t].tainted \in BOOLEAN
    BY <2>1, Locals DEF IInv, Steady
  <2>3. task[t].tainted = Settled(p)
    <3>1. Settled(p) \in BOOLEAN
      BY DEF Settled
    <3> QED
      BY <2>2, <3>1
  <2>4. Merge(Matrix(t), DetectChains', task[t].tainted /\ p.unsolicited, EgressOf(p))
          = Merge(MatrixEvaluate([source |-> SourceOf(p), capability |-> p.cap, asset |-> p.asset,
                                  tainted |-> Settled(p)]),
                  DetectChains', Settled(p) /\ p.unsolicited, EgressOf(p))
    BY <2>3 DEF Matrix
  <2>5. CASE o = p
    <3>1. answer'[o] = Merge(MatrixEvaluate([source |-> SourceOf(o), capability |-> o.cap, asset |-> o.asset,
                                             tainted |-> Settled(o)]),
                             DetectChains', Settled(o) /\ o.unsolicited, EgressOf(o))
      BY <2>1, <2>4, <2>5 DEF IInv, TypeOK
    <3>2. answer'[o] = Verdict(o)'
      BY <3>1 DEF Verdict, Settled, EgressOf
    <3> QED
      BY <2>2, <2>5, <3>2
  <2>6. CASE o # p
    BY <2>1, <2>6 DEF IInv, TypeOK
  <2> QED
    BY <2>5, <2>6
<1>3. ASSUME NEW t \in Threads, NEW p \in Observations, Begin(t, p) PROVE answer' = answer
  BY <1>3 DEF Begin
<1>4. ASSUME NEW t \in Threads, Lookup(t) \/ RecordArtifact(t) \/ RecordRefs(t) \/ Stamp(t)
      PROVE  answer' = answer
  BY <1>4 DEF Lookup, RecordArtifact, RecordRefs, Stamp
<1>5. CASE Tick \/ UNCHANGED vars
  BY <1>5 DEF Tick, vars
<1> QED
  BY <1>1, <1>2, <1>3, <1>4, <1>5 DEF Next, Evaluate

\* What was answered is no stricter than what is now decided, and a new answer no
\* milder than the one before.
LEMMA AnsweredStep ==
  ASSUME IInv, Steady, Answered, IInv', [Next]_vars
  PROVE  /\ Answered'
         /\ \A o \in Observations : answer[o] # "none" => Rank[answer'[o]] >= Rank[answer[o]]
<1>1. \A d \in MatrixDecision : Rank[d] \in 0 .. 4 /\ Rank["Block"] >= Rank[d]
  BY DEF Rank, MatrixDecision
<1>2. ASSUME NEW o \in Observations
      PROVE  /\ answer'[o] # "none" =>
                  IF o.canary THEN answer'[o] = "Block" ELSE Rank[Verdict(o)'] >= Rank[answer'[o]]
             /\ answer[o] # "none" => Rank[answer'[o]] >= Rank[answer[o]]
  <2> DEFINE was == answer[o]
             is == answer'[o]
             v == Verdict(o)
             w == Verdict(o)'
  <2>1. o \in Observation
    BY EngineAssumption
  <2>2. v \in MatrixDecision /\ w \in MatrixDecision /\ Rank[w] >= Rank[v]
    BY <2>1, StepGrows, VerdictGrows
  <2>3. was \in MatrixDecision \cup {"none"} /\ is \in MatrixDecision \cup {"none"}
    BY DEF IInv, TypeOK
  <2>4. was # "none" => IF o.canary THEN was = "Block" ELSE Rank[v] >= Rank[was]
    BY DEF Answered
  <2>5. is = was \/ (o.canary /\ is = "Block") \/ (~o.canary /\ is = w)
    BY AnswerMoves
  <2> HIDE DEF was, is, v, w
  <2>6. /\ is # "none" => IF o.canary THEN is = "Block" ELSE Rank[w] >= Rank[is]
        /\ was # "none" => Rank[is] >= Rank[was]
    <3>1. Rank[v] \in 0 .. 4 /\ Rank[w] \in 0 .. 4 /\ (was # "none" => Rank[was] \in 0 .. 4)
      BY <1>1, <2>2, <2>3
    <3>2. CASE is = was
      BY <1>1, <2>2, <2>3, <2>4, <3>1, <3>2
    <3>3. CASE o.canary /\ is = "Block"
      BY <1>1, <2>3, <3>1, <3>3
    <3>4. CASE ~o.canary /\ is = w
      BY <1>1, <2>2, <2>3, <2>4, <3>1, <3>4
    <3> QED
      BY <2>5, <3>2, <3>3, <3>4
  <2> QED
    BY <2>6 DEF was, is, v, w
<1> QED
  BY <1>2 DEF Answered

\* At first nothing is evaluated or answered.
LEMMA SteadyInit == Init => Steady /\ Answered
BY DEF Init, Idle, Steady, Answered

\* DecisionNeverRelaxes.  A store that fails forgets the taint it was told of, and
\* the decision with it: the theorem is about an engine whose store, if it has
\* one, answers.
THEOREM NeverRelaxes ==
  ASSUME HasStore => ~StoreFails
  PROVE  Spec => DecisionNeverRelaxes
<1>1. Init => IInv /\ Steady /\ Answered
  BY InitInv, SteadyInit
<1>2. IInv /\ Steady /\ Answered /\ [Next]_vars
        => /\ IInv' /\ Steady' /\ Answered'
           /\ \A o \in Observations : answer[o] # "none" => Rank[answer'[o]] >= Rank[answer[o]]
  BY NextInv, SteadyStep, AnsweredStep
<1> QED
  BY <1>1, <1>2, PTL DEF Spec, DecisionNeverRelaxes
===============================================================================
