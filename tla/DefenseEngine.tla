---------------------------- MODULE DefenseEngine ----------------------------
(***************************************************************************)
(* The defence engine (src/src/defense.rs, fn evaluate): one instance,     *)
(* shared by the tasks of all connections, that merges the canary check,   *)
(* provenance, the capability matrix, the egress policy and the session    *)
(* graph into one decision per tool use.                                   *)
(*                                                                         *)
(* The provenance store is a concurrent map: tasks interleave between its  *)
(* operations.  A node's id and its time are taken before the graph's lock *)
(* is; recording it and detecting the chains are one critical section.     *)
(***************************************************************************)
EXTENDS CapabilityMatrix, SessionGraph, Egress

CONSTANTS Threads,       \* the tasks that share the engine
          Literals,      \* paths and URLs
          Observations,  \* the tool uses that may be evaluated
          HasStore,      \* FALSE: the engine runs degraded, without provenance
          StoreFails,    \* the store's operations may return an error
          BlockUnknown,  \* the egress policy's block_unknown_destinations
          MaxNodes,      \* bound: evaluations that reach the graph
          MaxClock       \* bound: seconds

\* What evaluate reads off a tool use.  refs are the paths and URLs its input
\* mentions; tags what the first 64 bytes of its label contain; url whether the
\* input holds a destination; canary whether the target is a planted decoy.
Observation == [cap: ToolCapability, asset: AssetClass, target: Literals,
                refs: SUBSET Literals, tags: SUBSET Tag, unsolicited: BOOLEAN,
                url: BOOLEAN, egress: EgressInput, canary: BOOLEAN]

ASSUME EngineAssumption ==
  /\ Observations \subseteq Observation
  /\ Artifacts = {"User", "Provider"} \X Literals
  /\ HasStore \in BOOLEAN /\ StoreFails \in BOOLEAN /\ BlockUnknown \in BOOLEAN
  /\ MaxNodes \in Nat /\ MaxClock \in Nat

VARIABLES
  store,    \* provenance
  nextId,   \* next_node_id
  task,     \* per task: where its evaluation is, and its local variables
  answer    \* per observation: the decision of its latest report, or "none"

INSTANCE Provenance WITH Ids <- Artifacts

vars == <<graph, clock, store, nextId, task, answer>>

\* A slip the checks must notice: the two origins swapped.
SourceOf_Swapped(o) == IF o.unsolicited THEN "User" ELSE "Provider"

\* The origin of a tool use: only a tool the client did not declare is known to
\* come from the provider.
SourceOf(o) == IF o.unsolicited THEN "Provider" ELSE "User"

\* artifact_id_for and extract_artifact_references prefix the source.
ArtifactId(o, literal) == <<SourceOf(o), literal>>
RefIds(o) == {ArtifactId(o, r) : r \in o.refs}

Idle == [pc |-> "idle"]

Init ==
  /\ GraphInit /\ StoreInit
  /\ nextId = 1
  /\ task = [t \in Threads |-> Idle]
  /\ answer = [o \in Observations |-> "none"]

-------------------------------------------------------------------------------
(* fn evaluate                                                             *)

Goto(t, next) == task' = [task EXCEPT ![t] = next]

\* A decoy is blocked at once and nothing is recorded of it.
BeginCanary(t, o) ==
  /\ task[t].pc = "idle" /\ o.canary
  /\ answer' = [answer EXCEPT ![o] = "Block"]
  /\ UNCHANGED <<graph, clock, store, nextId, task>>

\* nextId counts the evaluations begun: the bound leaves room for this one.
Begin(t, o) ==
  /\ task[t].pc = "idle" /\ ~o.canary
  /\ nextId + Cardinality({u \in Threads : task[u].pc \in {"lookup", "record", "refs", "stamp"}})
       <= MaxNodes
  /\ Goto(t, [pc |-> IF HasStore THEN "lookup" ELSE "stamp", obs |-> o,
              parents |-> {}, tainted |-> FALSE])
  /\ UNCHANGED <<graph, clock, store, nextId, answer>>

\* The references that are tainted become the artifact's parents; a lookup
\* that fails finds none.
Lookup(t) ==
  LET found == TaintedOf(RefIds(task[t].obs)) IN
  /\ task[t].pc = "lookup"
  /\ \E parents \in IF StoreFails THEN SUBSET found ELSE {found} :
       Goto(t, [task[t] EXCEPT !.pc = "record", !.parents = parents])
  /\ UNCHANGED <<graph, clock, store, nextId, answer>>

\* The artifact itself; when the store fails, the engine goes on untainted.
RecordArtifact(t) ==
  LET o == task[t].obs IN
  /\ task[t].pc = "record"
  /\ \/ /\ Record(ArtifactId(o, o.target), SourceOf(o), task[t].parents, clock)
        /\ Goto(t, [task[t] EXCEPT !.pc = "refs", !.tainted = Taints(SourceOf(o), task[t].parents)])
     \/ /\ StoreFails
        /\ Goto(t, [task[t] EXCEPT !.pc = "refs"])
        /\ UNCHANGED store
  /\ UNCHANGED <<graph, clock, nextId, answer>>

\* The references, without parents, those for which the store does not fail.
\* Each is written by itself; no one reads two of them together.
RecordRefs(t) ==
  LET o == task[t].obs IN
  /\ task[t].pc = "refs"
  /\ \E done \in IF StoreFails THEN SUBSET RefIds(o) ELSE {RefIds(o)} :
       store' = [id \in Artifacts |->
                   IF id \in done THEN Recorded(SourceOf(o), {}, clock) ELSE store[id]]
  /\ Goto(t, [task[t] EXCEPT !.pc = "stamp"])
  /\ UNCHANGED <<graph, clock, nextId, answer>>

\* A slip the checks must notice: the counter read and not advanced.
Stamp_NoAdvance(t) ==
  /\ task[t].pc = "stamp"
  /\ Goto(t, [pc |-> "judge", obs |-> task[t].obs, tainted |-> task[t].tainted,
              id |-> nextId, ts |-> clock])
  /\ nextId' = nextId + Cardinality({u \in Threads : u # t /\ task[u].pc = "judge"})
  /\ UNCHANGED <<graph, clock, store, answer>>

\* The node's id and time, before the lock.
Stamp(t) ==
  /\ task[t].pc = "stamp"
  /\ Goto(t, [pc |-> "judge", obs |-> task[t].obs, tainted |-> task[t].tainted,
              id |-> nextId, ts |-> clock])
  /\ nextId' = nextId + 1
  /\ UNCHANGED <<graph, clock, store, answer>>

NodeOf(t) ==
  LET o == task[t].obs IN
  [id |-> task[t].id, cap |-> o.cap, asset |-> o.asset, source |-> SourceOf(o),
   tainted |-> task[t].tainted, ts |-> task[t].ts,
   arts |-> {ArtifactId(o, o.target)}, tags |-> o.tags]

Matrix(t) ==
  LET o == task[t].obs IN
  MatrixEvaluate([source |-> SourceOf(o), capability |-> o.cap, asset |-> o.asset,
                  tainted |-> task[t].tainted])

\* The egress policy is asked about posts, and about commands with a URL.
EgressOf(o) ==
  IF o.url /\ o.cap \in {"NetworkPost", "Execute"} THEN EgressEvaluate(o.egress, BlockUnknown)
  ELSE "none"

\* merge_decision
Merge(matrix, hits, doomed, egress) ==
  LET worst(sev) == \E h \in hits : h.sev >= sev
  IN  IF egress = "Block" \/ worst(90) \/ doomed \/ matrix = "Block" THEN "Block"
      ELSE IF matrix = "Quarantine" \/ worst(70) THEN "Quarantine"
      ELSE IF egress = "Ask" THEN "Ask"
      ELSE matrix

\* With the graph's lock: record the node, detect the chains; then the report.
Judge(t) ==
  LET o == task[t].obs IN
  /\ task[t].pc = "judge"
  /\ RecordEvent(NodeOf(t))
  /\ UNCHANGED <<clock, store, nextId>>
  /\ answer' = [answer EXCEPT ![o] =
                  Merge(Matrix(t), DetectChains', task[t].tainted /\ o.unsolicited, EgressOf(o))]
  /\ Goto(t, Idle)

\* The wall clock, assumed not to go back, and not to leave a task that only
\* waits for the lock more than a second behind.
Tick ==
  /\ clock < MaxClock
  /\ \A t \in Threads : task[t].pc = "judge" => task[t].ts = clock
  /\ clock' = clock + 1
  /\ UNCHANGED <<graph, store, nextId, task, answer>>

Evaluate(t) ==
  \/ \E o \in Observations : BeginCanary(t, o) \/ Begin(t, o)
  \/ Lookup(t) \/ RecordArtifact(t) \/ RecordRefs(t) \/ Stamp(t) \/ Judge(t)

Next == Tick \/ \E t \in Threads : Evaluate(t)

Spec == Init /\ [][Next]_vars

-------------------------------------------------------------------------------
(* Properties.                                                             *)

Local ==
  {Idle}
    \cup [pc: {"lookup", "record", "refs", "stamp"}, obs: Observations,
          parents: SUBSET Artifacts, tainted: BOOLEAN]
    \cup [pc: {"judge"}, obs: Observations, tainted: BOOLEAN, id: Nat, ts: Nat]

TypeOK ==
  /\ nodes \in Seq(Node)
  /\ baseCaps \subseteq Capability /\ baseAssets \subseteq AssetClass
  /\ frozen \in BOOLEAN /\ anomaly \in 0 .. 100 /\ clock \in Nat
  /\ store \in [Artifacts -> Entry]
  /\ nextId \in Nat
  /\ task \in [Threads -> Local]
  /\ answer \in [Observations -> MatrixDecision \cup {"none"}]

\* An artifact is tainted exactly when its id is one of an untrusted origin:
\* the source is part of the id, so taint never moves to the user's artifacts
\* and a user's tool use is never reported as tainted.
TaintStaysInSource ==
  /\ \A id \in Artifacts : store[id].tainted <=> (store[id].known /\ id[1] \in Untrusted)
  /\ \A n \in ToSet(nodes) : n.tainted => n.source \in Untrusted

\* Nodes keep their identity: each event of the session has an id of its own,
\* though ids are taken outside the lock (the repeated-execution detector tells
\* two executions apart by them).
NodesDistinct ==
  \A i, j \in DOMAIN nodes : nodes[i].id = nodes[j].id => i = j

\* Asking again never helps: the decision for one and the same tool use never
\* becomes more lenient, whatever the tasks evaluated in between.
DecisionNeverRelaxes ==
  [][\A o \in Observations : answer[o] # "none" => Rank[answer'[o]] >= Rank[answer[o]]]_vars

\* A tool the client did not declare is never let through silently, also when
\* the provenance store fails at any point of the evaluation.
UnsolicitedNeverSilent ==
  \A o \in Observations :
    o.unsolicited /\ answer[o] # "none" => Rank[answer[o]] >= Rank["Ask"]

\* "if a prior tool_use fetched `https://evil/x.sh` and a later Write tool_use
\* input contains that same URL, the Write inherits taint from the fetch"
\* (src/src/defense.rs:394-396).
TaintInherited ==
  \A t \in Threads :
    task[t].pc = "refs" =>
      \A r \in task[t].obs.refs :
        (\E source \in {"User", "Provider"} : store[<<source, r>>].tainted) => task[t].tainted
==============================================================================
