----------------------------- MODULE RuleRegistry -----------------------------
(***************************************************************************)
(* The rule inspector's registry (src/src/inspect.rs): rule files, and the *)
(* DynamicRuleRegistry that threads reload, tune and scan with.  A rule is *)
(* its id, how severe it is and whether its pattern compiles; what a text  *)
(* matches is the set of ids whose patterns occur in it.                   *)
(***************************************************************************)
EXTENDS Naturals, FiniteSets, FiniteSetsExt

CONSTANTS Threads,      \* threads that hold the registry
          Files,        \* contents of the rule files it is reloaded from
          MaxSeverity   \* the largest severity, a u32

\* A rule of a file; a file: its rules, at most one per id, and blocked hosts.
Rule == [id: STRING, severity: 0 .. MaxSeverity, compiles: BOOLEAN]

\* SeverityTier::from_severity
Tier(severity) ==
  CASE severity >= 90 -> "Fatal"
    [] severity >= 60 -> "Critical"
    [] severity >= 30 -> "Warn"
    [] OTHER          -> "Info"

\* compile_rules skips a rule whose pattern is no regular expression.
Compiled(file) == {r \in file.rules : r.compiles}

VARIABLES
  registry,  \* RegistryState, under the RwLock
  thread,    \* per thread: the reload it is in the middle of
  asked,     \* history: the ids that were suppressed last, not unsuppressed
  overtaken  \* history: the ids tuned last while a reload was under way

vars == <<registry, thread, asked, overtaken>>

Idle == [pc |-> "idle"]

\* from_rules
Init ==
  /\ \E file \in Files :
       registry = [compiled |-> Compiled(file), hosts |-> file.hosts, suppressed |-> {}]
  /\ thread = [t \in Threads |-> Idle]
  /\ asked = {} /\ overtaken = {}

RuleIds == UNION {{r.id : r \in file.rules} : file \in Files}
Reloading == {t \in Threads : thread[t].pc = "reload"}

\* A slip the checks must notice: a reload starts from an empty suppress list.
CopySuppressed_None == {}

\* What a reload keeps of the suppress list.
CopySuppressed == registry.suppressed

\* reload: compiled outside the lock, the suppress list copied under the read lock.
ReloadBegin(t) ==
  /\ thread[t] = Idle
  /\ \E file \in Files :
       thread' = [thread EXCEPT ![t] = [pc |-> "reload", file |-> file, suppressed |-> CopySuppressed]]
  /\ UNCHANGED <<registry, asked, overtaken>>

\* Under the write lock, later.
ReloadCommit(t) ==
  /\ thread[t].pc = "reload"
  /\ registry' = [compiled |-> Compiled(thread[t].file), hosts |-> thread[t].file.hosts,
                  suppressed |-> thread[t].suppressed]
  /\ thread' = [thread EXCEPT ![t] = Idle]
  /\ UNCHANGED <<asked, overtaken>>

\* Which ids a reload under way may turn back.
Note(id) == overtaken' = IF Reloading = {} THEN overtaken \ {id} ELSE overtaken \cup {id}

\* Any id is taken, known or not.
Suppress(t, id) ==
  /\ thread[t] = Idle
  /\ registry' = [registry EXCEPT !.suppressed = @ \cup {id}]
  /\ asked' = asked \cup {id} /\ Note(id)
  /\ UNCHANGED thread

Unsuppress(t, id) ==
  /\ thread[t] = Idle
  /\ registry' = [registry EXCEPT !.suppressed = @ \ {id}]
  /\ asked' = asked \ {id} /\ Note(id)
  /\ UNCHANGED thread

\* scan, under the read lock: the rules a text matches that are not suppressed,
\* and the blocked hosts it names, each as severe as 80.
Scan(text) ==
  LET hits == {r \in registry.compiled : r.id \in text.ids /\ r.id \notin registry.suppressed}
      hosts == text.hosts \cap registry.hosts
  IN  [matched |-> {r.id : r \in hits} \cup hosts,
       severity |-> Max({0} \cup {r.severity : r \in hits}
                          \cup IF hosts = {} THEN {} ELSE {80})]

Next ==
  \E t \in Threads :
    \/ ReloadBegin(t) \/ ReloadCommit(t)
    \/ \E id \in RuleIds : Suppress(t, id) \/ Unsuppress(t, id)

Spec == Init /\ [][Next]_vars

-------------------------------------------------------------------------------
\* Type correctness: the rules in force are those of a file that compile.
TypeOK ==
  /\ \E file \in Files :
       registry.compiled = Compiled(file) /\ registry.hosts = file.hosts
  /\ registry.suppressed \subseteq RuleIds /\ asked \subseteq RuleIds /\ overtaken \subseteq RuleIds
  /\ \A t \in Threads :
       thread[t] = Idle \/ thread[t] \in [pc: {"reload"}, file: Files, suppressed: SUBSET RuleIds]

\* "Suppress a rule by ID (false positive tuning)" (src/src/inspect.rs:185): what
\* was tuned last holds through any reloads and their overlaps, except for a rule
\* that was tuned between a reload's two locks; and so a text that matches only
\* what is suppressed is scanned clean, and one that matches more is not.
SuppressionKept ==
  /\ \A id \in RuleIds \ overtaken : id \in registry.suppressed <=> id \in asked
  /\ \A ids \in SUBSET RuleIds :
       ids \cap overtaken = {} =>
         LET live == {r \in registry.compiled : r.id \in ids \ asked}
             scan == Scan([ids |-> ids, hosts |-> {}])
         IN  /\ scan.matched = {r.id : r \in live}
             /\ \A r \in live : scan.severity >= r.severity
             /\ live = {} => Tier(scan.severity) = "Info"
=============================================================================
