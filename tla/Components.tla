------------------------------ MODULE Components ------------------------------
(***************************************************************************)
(* The components that share no state with each other: the provenance      *)
(* store as it is, and an instance of each of the others.  A behaviour is  *)
(* one of a component, chosen at the beginning, while the variables of the *)
(* others keep a fixed value.  So the state spaces are added up, not       *)
(* multiplied, and what a component promises is stated of its behaviours.  *)
(***************************************************************************)
EXTENDS ProvenanceStore, Sequences

CONSTANTS
  Processes,                                              \* threads, commands, handlers
  Artifacts, Window, Day, Delay, MaxNodes, MaxSeconds,    \* Graph
  MaxMarks,                                               \* Judge
  Modes, Recent, MaxEvents, Probed,                       \* Arbiter
  RuleFiles, MaxSeverity, DecoyPaths,                     \* Rules, Canaries
  Senders, SendAge, SendSeconds,                          \* Sends
  Writer, Hosts, MaxRuns,                                 \* Publish
  Monitors, Commands, Battery, Latencies, Provider,       \* Watch
  Drop, Spike, MaxLines, Indicators

VARIABLES
  component,                                                           \* which one runs
  in, subject,                                                         \* Matrix, Judge
  nodes, baseCaps, baseAssets, frozen, anomaly, graphClock,            \* Graph
  file, dirty, copy,                                                   \* Arbiter
  rules, ruleThread, asked, overtaken,                                 \* Rules
  files, canaries, paths, mine, canaryThread,                          \* Canaries
  record, sendClock, sender, pruner, lostSends,                        \* Sends
  dir, writer, runs, reader, registry, command, installed, install,    \* Publish
  history, scan, host                                                  \* Watch

Running == {"matrix", "judge", "graph", "arbiter", "store", "rules", "canaries", "sends",
            "bundle", "registry", "feed", "monitor", "sentinel"}

-------------------------------------------------------------------------------
(* The instances.                                                          *)

Matrix == INSTANCE CapabilityMatrixMC

Judge == INSTANCE Judgements

Graph == INSTANCE SessionGraphMC WITH clock <- graphClock, MaxClock <- MaxSeconds

Arbiter == INSTANCE Sessions WITH task <- copy, Actions <- Probed

Rules == INSTANCE RuleRegistry WITH
  registry <- rules, thread <- ruleThread, Threads <- Processes, Files <- RuleFiles

Canaries == INSTANCE CanaryRegistry WITH
  thread <- canaryThread, Threads <- Processes, Paths <- DecoyPaths

Sends == INSTANCE Correlation WITH
  clock <- sendClock, lost <- lostSends, Sessions <- Senders, MaxAge <- SendAge,
  MaxClock <- SendSeconds

\* One certification at a time: two into one directory mix their files.
Publish == INSTANCE Publishing WITH Writers <- {Writer}

Watch == INSTANCE Watchers

ASSUME ComponentsAssumption ==
  /\ MaxSeverity \in Nat /\ \A f \in RuleFiles : f.rules \subseteq Rules!Rule
  /\ MaxRuns \in Nat
  /\ {"a", "b"} \subseteq Artifacts /\ Window \in Nat /\ Day \in Nat \ {0}
  /\ Probed \subseteq Arbiter!Action /\ Modes \subseteq Arbiter!Mode /\ Recent \in Nat \ {0}

\* Ages and times are numbers, and a battery has a probe.
ASSUME TimesAssumption ==
  /\ MaxAge \in Nat /\ MaxClock \in Nat /\ SendSeconds \in Nat /\ Origins \subseteq Source
  /\ Battery \in Seq(STRING) /\ Battery # <<>> /\ Latencies \subseteq Nat

ASSUME SendAgeAssumption == SendAge \in Nat

-------------------------------------------------------------------------------
(* One of them runs.                                                       *)

pure == <<in, subject>>
graphVars == <<nodes, baseCaps, baseAssets, frozen, anomaly, graphClock>>
arbiterVars == <<file, dirty, copy>>
ruleVars == <<rules, ruleThread, asked, overtaken>>
canaryVars == <<files, canaries, paths, mine, canaryThread>>
sendVars == <<record, sendClock, sender, pruner, lostSends>>
publishVars == <<dir, writer, runs, reader, registry, command, installed, install>>
watchVars == <<history, scan, host>>

allVars == <<component, pure, graphVars, arbiterVars, vars, ruleVars, canaryVars, sendVars,
             publishVars, watchVars>>

\* What the variables of a component that does not run are, where it has a choice.
AnInput == [source |-> "User", capability |-> "ReadFile", asset |-> "Project", tainted |-> FALSE]
ASubject == [kind |-> "tools", allow |-> {}, deny |-> {}, strict |-> FALSE]

InitAll ==
  /\ component \in Running
  /\ Init
  /\ IF component = "matrix" THEN Matrix!Init ELSE in = AnInput
  /\ IF component = "judge" THEN Judge!Init ELSE subject = ASubject
  /\ Graph!Init /\ Arbiter!Init /\ Sends!Init /\ Publish!Init /\ Watch!Init
  /\ Rules!Init /\ (component # "rules" => rules.hosts = {})
  /\ Canaries!Init /\ (component # "canaries" => \A p \in DOMAIN files : files[p] = "none")

Pure ==
  /\ \/ component = "matrix" /\ Matrix!Next /\ UNCHANGED subject
     \/ component = "judge" /\ Judge!Next /\ UNCHANGED in
  /\ UNCHANGED <<component, graphVars, arbiterVars, vars, ruleVars, canaryVars, sendVars,
                 publishVars, watchVars>>

GraphRuns ==
  /\ component = "graph" /\ Graph!Next
  /\ UNCHANGED <<component, pure, arbiterVars, vars, ruleVars, canaryVars, sendVars,
                 publishVars, watchVars>>

ArbiterRuns ==
  /\ component = "arbiter" /\ Arbiter!Next
  /\ UNCHANGED <<component, pure, graphVars, vars, ruleVars, canaryVars, sendVars,
                 publishVars, watchVars>>

StoreRuns ==
  /\ component = "store" /\ Next
  /\ UNCHANGED <<component, pure, graphVars, arbiterVars, ruleVars, canaryVars, sendVars,
                 publishVars, watchVars>>

RulesRun ==
  /\ component = "rules" /\ Rules!Next
  /\ UNCHANGED <<component, pure, graphVars, arbiterVars, vars, canaryVars, sendVars,
                 publishVars, watchVars>>

CanariesRun ==
  /\ component = "canaries" /\ Canaries!Next
  /\ UNCHANGED <<component, pure, graphVars, arbiterVars, vars, ruleVars, sendVars,
                 publishVars, watchVars>>

SendsRun ==
  /\ component = "sends" /\ Sends!Next
  /\ UNCHANGED <<component, pure, graphVars, arbiterVars, vars, ruleVars, canaryVars,
                 publishVars, watchVars>>

PublishRuns ==
  /\ \/ component = "bundle" /\ Publish!Bundle
     \/ component = "registry" /\ Publish!Registry
     \/ component = "feed" /\ Publish!Install
  /\ UNCHANGED <<component, pure, graphVars, arbiterVars, vars, ruleVars, canaryVars,
                 sendVars, watchVars>>

WatchRuns ==
  /\ \/ component = "monitor" /\ Watch!Watch
     \/ component = "sentinel" /\ Watch!Round
  /\ UNCHANGED <<component, pure, graphVars, arbiterVars, vars, ruleVars, canaryVars,
                 sendVars, publishVars>>

NextAll ==
  \/ Pure \/ GraphRuns \/ ArbiterRuns \/ StoreRuns \/ RulesRun \/ CanariesRun \/ SendsRun
  \/ PublishRuns \/ WatchRuns

SpecAll == InitAll /\ [][NextAll]_allVars

-------------------------------------------------------------------------------
(* The components' properties, each of the one that runs; the store's      *)
(* TaintOnlyExpires is its own.                                            *)

\* Type correctness of whatever runs.
TypesOK ==
  /\ component = "matrix" => Matrix!TypeOK
  /\ component = "judge" => Judge!TypeOK
  /\ component = "graph" => Graph!TypeOK
  /\ component = "arbiter" => Arbiter!TypeOK
  /\ component = "store" => TypeOK
  /\ component = "rules" => Rules!TypeOK
  /\ component = "canaries" => Canaries!TypeOK
  /\ component = "sends" => Sends!TypeOK
  /\ component \in {"bundle", "registry", "feed"} => Publish!TypeOK
  /\ component \in {"monitor", "sentinel"} => Watch!TypeOK

\* "we route to Ask for human to review, never to Allow"
\* (src/src/capability_matrix.rs:89-91): see CapabilityMatrixMC.
UntrustedNeverSilent == component = "matrix" => Matrix!UntrustedNeverSilent

\* Learning something bad about an action never relaxes the matrix's decision
\* (src/src/capability_matrix.rs, fn evaluate): see CapabilityMatrixMC.
EscalationNeverRelaxes == [][component = "matrix" => Matrix!NotRelaxed]_allVars

\* What looks worse in one more way is not judged milder by sniff_content, the tool
\* policy, the egress lists or the score, and what classify finds to name a secret
\* stays blocked: see Judgements.
WorseNeverMilder == [][component = "judge" => Judge!NotMilder]_allVars

\* The session graph's baseline is what its window showed
\* (src/src/session_graph.rs:256-300): see SessionGraphMC.
BaselineFromWindow == component = "graph" => Graph!BaselineFromWindow

\* What a detector found it finds again (src/src/session_graph.rs:378-379): see
\* SessionGraphMC.
HitsNeverFade == [][component = "graph" => Graph!HitsKept]_allVars

\* A session file's grants are those its own log leaves
\* (src/src/session.rs, fn set_grant): see Sessions.
GrantsFollowLog == component = "arbiter" => Arbiter!GrantsFollowLog

\* A session file's decisions are the last ones of its log, each explained by the
\* grants before it (src/src/session.rs, fn append_decision): see Sessions.
DecisionsReplay == component = "arbiter" => Arbiter!DecisionsReplay

\* "Suppress a rule by ID (false positive tuning)" (src/src/inspect.rs:185) holds
\* through overlapping reloads: see RuleRegistry.
SuppressionKept == component = "rules" => Rules!SuppressionKept

\* A decoy this registry wrote trips a check (src/src/canary.rs:29-30): see
\* CanaryRegistry.
DecoysTrip == component = "canaries" => Canaries!DecoysTrip

\* Only a check against an unplant_all can deadlock (src/src/canary.rs:140, 175):
\* see CanaryRegistry.
OnlyCheckAgainstUnplant == component = "canaries" => Canaries!OnlyCheckAgainstUnplant

\* A session that sends what another one sent is told, unless a collection took one
\* of the sends (src/src/correlation.rs:69-70): see Correlation.
SharedSendAlerts == component = "sends" => Sends!SharedSendAlerts

\* The listed files of a bundle that verifies are the work of one certification
\* (src/src/artifact.rs:72): see Publishing.
VerifiedListIsOneRun == component = "bundle" => Publish!VerifiedListIsOneRun

\* The registry loses an entry only to a command that loaded it too early
\* (src/src/registry.rs:6): see Publishing.
EntriesLastUnlessOverwritten ==
  [][component = "registry" => Publish!EntriesLastUnlessOverwritten]_allVars

\* An installation that is through leaves the files of one signed feed
\* (src/src/main.rs:467, 490): see Publishing.
OnlySignedInstalled == component = "feed" => Publish!OnlySignedInstalled

\* A monitor's round alerts to a critical probe and to a changed verdict
\* (src/src/monitor.rs:4-5): see Watchers.
ChangesAlerted == component = "monitor" => Watch!ChangesAlerted

\* The sentinel tells what is new once (src/src/sentinel.rs:9-10): see Watchers.
NewToldOnce == component = "sentinel" => Watch!NewToldOnce
=============================================================================
