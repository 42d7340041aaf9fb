------------------------------ MODULE Judgements ------------------------------
(***************************************************************************)
(* What the layers read off their input, each a pure function: the class   *)
(* of a target and the capability of a tool (src/src/asset.rs), the type   *)
(* of a payload (quarantine.rs), the tool policy (tool_policy.rs), the     *)
(* lists of the egress policy (egress.rs), and the score of a scan         *)
(* (scan.rs, score.rs).  A subject is one input; a step makes it look      *)
(* worse.  A string is the set of the marks the code looks for in it.      *)
(***************************************************************************)
EXTENDS CapabilityMatrix, FiniteSets, FiniteSetsExt

E == INSTANCE Egress

CONSTANT MaxMarks  \* bound: marks in one target

VARIABLE subject

\* The result of the first rule that applies, as the code's early returns.
First(rules, otherwise) ==
  LET hits == {i \in DOMAIN rules : rules[i][1]}
  IN  IF hits = {} THEN otherwise ELSE rules[Min(hits)][2]

-------------------------------------------------------------------------------
(* asset.rs: classify, from_tool_call                                      *)

\* What a pattern list of classify looks for; what a target begins and ends with.
SecretMark == {"wallet", "browser", "credential", "keychain"}
Mark == SecretMark \cup {"metadata", "client", "eventlog", "tmpdir", "bundle", "project"}
Root == {"bare", "tmp", "log", "system", "opt", "home", "other"}
Ending == {"plain", "env", "client", "history", "shellrc", "executable"}

Target == [kind: {"target"}, url: BOOLEAN, root: Root, marks: SUBSET Mark, ending: Ending]

SecretRules(t) ==
  << <<"wallet" \in t.marks, "WalletData">>, <<"browser" \in t.marks, "BrowserData">>,
     <<"credential" \in t.marks, "Credential">>, <<t.ending = "env", "Credential">>,
     <<"keychain" \in t.marks, "Keychain">> >>

PlaceRules(t) ==
  << <<t.root = "log" \/ "eventlog" \in t.marks, "Log">>,
     <<t.root = "tmp" \/ "tmpdir" \in t.marks, "Temp">>,
     <<t.root = "system", "System">> >>

ClientRules(t) ==
  << <<"client" \in t.marks \/ t.ending = "client", "AiClientConfig">>, <<t.ending = "history", "Log">> >>

FileRules(t) ==
  << <<t.ending = "shellrc", "Config">>,
     <<t.ending = "executable" \/ t.root = "opt" \/ "bundle" \in t.marks, "Executable">>,
     <<t.root = "home" /\ "project" \in t.marks, "Project">>,
     <<t.root = "bare", "Project">> >>

UrlRules(t) ==
  << <<t.url /\ "metadata" \in t.marks, "CloudMetadata">>, <<t.url, "External">> >>

\* A slip the checks must notice: the places tried before the secrets.
Classify_PlacesFirst(t) ==
  First(UrlRules(t) \o PlaceRules(t) \o SecretRules(t) \o ClientRules(t) \o FileRules(t), "Unknown")

Classify(t) ==
  First(UrlRules(t) \o SecretRules(t) \o ClientRules(t) \o PlaceRules(t) \o FileRules(t), "Unknown")

\* What the lower-cased tool name is one of; the hint is the target.
ToolName == {"shell", "read", "write", "fetch", "search", "browser", "mcp", "clipboard", "ui", "other"}

FromToolCall(name, hint, download) ==
  CASE name = "shell"              -> "Execute"
    [] name = "read"               -> "ReadFile"
    [] name = "write"              -> "WriteFile"
    [] name \in {"fetch", "search"} -> "NetworkFetch"
    [] name = "browser"            -> IF download THEN "BrowserDownload" ELSE "BrowserNavigate"
    [] name = "mcp"                -> "McpInvoke"
    [] name = "clipboard"          -> "ClipboardRead"
    [] name = "ui"                 -> "UiAutomation"
    [] name = "other"              -> IF hint.url THEN "NetworkFetch" ELSE "ReadFile"

Judged(t, name, source) ==
  MatrixEvaluate([source |-> source, capability |-> FromToolCall(name, t, FALSE),
                  asset |-> Classify(t), tainted |-> FALSE])

-------------------------------------------------------------------------------
(* quarantine.rs: sniff_content                                            *)

Binary == {"WindowsExe", "ElfExecutable", "MachO"}
Packed == {"Gzip", "ZipArchive", "Bzip2", "Xz", "SevenZip", "Rar"}

\* What the bytes begin with, a tar header at its offset, the interpreter or
\* the commandlets named, and whether all of it is printable.
Payload == [kind: {"payload"}, start: Binary \cup Packed \cup {"Pdf", "#!", "bom", "json", "<?xml", "any"},
            ustar: BOOLEAN, words: SUBSET {"powershell", "python"}, ascii: BOOLEAN]

Sniff(d) ==
  First(<< <<d.start \in Binary \cup Packed \cup {"Pdf"}, d.start>>,
           <<d.ustar, "TarArchive">>,
           <<d.start \in {"#!", "bom"} /\ "powershell" \in d.words, "PowerShell">>,
           <<d.start = "#!" /\ "python" \in d.words, "Python">>,
           <<d.start = "#!", "ShellScript">>,
           <<d.start = "json", "Json">>, <<d.start = "<?xml", "Xml">>,
           <<d.ascii, "Text">> >>, "Unknown")

-------------------------------------------------------------------------------
(* tool_policy.rs: evaluate; egress.rs: is_blocklisted, is_allowlisted     *)

Tool == {"t1", "t2"}
ToolPolicy == [kind: {"tools"}, allow: SUBSET Tool, deny: SUBSET Tool, strict: BOOLEAN]

\* A strict policy with an empty list allows what is not denied.
Permitted(p) ==
  {t \in Tool : t \notin p.deny /\ ~(p.strict /\ p.allow # {} /\ t \notin p.allow)}

\* A host is its labels from the top; an entry may stand for what is below it.
Host == {<<"com">>, <<"com", "evil">>, <<"com", "evil", "www">>}
AllowEntry == {[host |-> <<"com", "evil">>, wild |-> TRUE], [host |-> <<"com", "evil", "www">>, wild |-> FALSE]}
BlockEntry == [host: {<<"com", "evil">>, <<"com", "evil", "www">>}, lower: BOOLEAN]

\* An entry with upper case letters is only found for the hosts below it.
Blocklisted(host, block) ==
  \E b \in block : IF host = b.host THEN b.lower ELSE IsPrefix(b.host, host)
Allowlisted(host, allow) ==
  \E a \in allow : host = a.host \/ (a.wild /\ IsPrefix(a.host, host))

Request == [kind: {"request"}, host: Host, allow: SUBSET AllowEntry, block: SUBSET BlockEntry,
            entropy: BOOLEAN, paths: BOOLEAN, blockUnknown: BOOLEAN]

EgressOf(r) ==
  E!EgressEvaluate([blocklisted |-> Blocklisted(r.host, r.block),
                    allowlisted |-> Allowlisted(r.host, r.allow),
                    entropy |-> r.entropy, paths |-> r.paths], r.blockUnknown)

-------------------------------------------------------------------------------
(* scan.rs: run; score.rs: score_provider                                  *)

\* An answer that is not 2xx is not inspected, and counts as 50.
Severities == {0, 20, 45, 50, 65, 85, 95}
Scan == [kind: {"scan"}, https: BOOLEAN, official: BOOLEAN, failed: BOOLEAN,
         worst: Severities, unsolicited: BOOLEAN]

\* RiskLevel::from_score, and what the level is worth.
ActivePoints(risk) ==
  CASE risk = 0        -> 40
    [] risk \in 1..29  -> 30
    [] risk \in 30..59 -> 15
    [] risk >= 60      -> 0

Total(s) ==
  (IF s.https THEN 20 ELSE 0) + (IF s.official THEN 20 ELSE 5)
    + ActivePoints(s.worst) + (IF s.unsolicited THEN 0 ELSE 20)

\* grade_from_total, A to F.
Grade(s) ==
  LET total == Total(s) IN
  IF total >= 85 THEN 0 ELSE IF total >= 70 THEN 1 ELSE IF total >= 50 THEN 2
  ELSE IF total >= 30 THEN 3 ELSE 4

Worst(s, severity) == Max({s.worst, severity})

-------------------------------------------------------------------------------
(* The subjects, and the steps that make one look worse.                   *)

Subject == Target \cup Payload \cup ToolPolicy \cup Request \cup Scan

\* A URL's parts are not looked at; no marks, lists or findings yet.
Init ==
  subject \in { t \in Target : t.marks = {} /\ (t.url => t.root = "other") }
    \cup { d \in Payload : ~d.ustar }
    \cup { p \in ToolPolicy : p.deny = {} }
    \cup { r \in Request : r.block = {} /\ ~r.entropy /\ ~r.paths }
    \cup { s \in Scan : s.worst = (IF s.failed THEN 50 ELSE 0) /\ ~s.unsolicited }

\* The target turns out to be in one more of the places the patterns name.
AddMark ==
  /\ subject.kind = "target" /\ Cardinality(subject.marks) < MaxMarks
  /\ \E m \in Mark \ subject.marks : subject' = [subject EXCEPT !.marks = @ \cup {m}]

\* The bytes at the offset of a tar header are one.
AddHeader == subject.kind = "payload" /\ ~subject.ustar /\ subject' = [subject EXCEPT !.ustar = TRUE]

Deny ==
  /\ subject.kind = "tools"
  /\ \E t \in Tool \ subject.deny : subject' = [subject EXCEPT !.deny = @ \cup {t}]

Disallow ==
  /\ subject.kind = "tools"
  /\ \E t \in subject.allow : subject' = [subject EXCEPT !.allow = @ \ {t}]

Blocklist ==
  /\ subject.kind = "request"
  /\ \E b \in BlockEntry \ subject.block : subject' = [subject EXCEPT !.block = @ \cup {b}]

Unlist ==
  /\ subject.kind = "request"
  /\ \E a \in subject.allow : subject' = [subject EXCEPT !.allow = @ \ {a}]

\* The body is encoded, or names a sensitive path.
Suspect ==
  /\ subject.kind = "request"
  /\ \/ subject' = [subject EXCEPT !.entropy = TRUE]
     \/ subject' = [subject EXCEPT !.paths = TRUE]

\* The request goes to a host below the one it went to.
Deeper ==
  /\ subject.kind = "request"
  /\ \E h \in Host : IsPrefix(subject.host, h) /\ subject' = [subject EXCEPT !.host = h]

\* An event of the probe's answer matches a rule; a tool use was not asked for.
Match ==
  /\ subject.kind = "scan" /\ ~subject.failed
  /\ \E severity \in Severities : subject' = [subject EXCEPT !.worst = Worst(subject, severity)]

Unsolicited ==
  /\ subject.kind = "scan" /\ ~subject.failed /\ ~subject.unsolicited
  /\ subject' = [subject EXCEPT !.unsolicited = TRUE, !.worst = Worst(subject, 85)]

Next ==
  \/ AddMark \/ AddHeader \/ Deny \/ Disallow \/ Blocklist \/ Unlist \/ Suspect \/ Deeper
  \/ Match \/ Unsolicited

Spec == Init /\ [][Next]_subject

-------------------------------------------------------------------------------
\* Type correctness: every function has a result for every subject.
TypeOK ==
  CASE subject.kind = "target"  -> /\ subject \in Target /\ Classify(subject) \in AssetClass
                                   /\ \A n \in ToolName : FromToolCall(n, subject, TRUE) \in ToolCapability
    [] subject.kind = "payload" -> subject \in Payload
    [] subject.kind = "tools"   -> subject \in ToolPolicy
    [] subject.kind = "request" -> subject \in Request
    [] subject.kind = "scan"    -> subject \in Scan /\ Total(subject) \in 5 .. 100

EgressRank == [d \in {"Allow", "Ask", "Block"} |->
                 CASE d = "Allow" -> 0 [] d = "Ask" -> 1 [] d = "Block" -> 2]

\* A path that names a secret; a URL is classified by its host alone.
Secret(t) == ~t.url /\ (t.marks \cap SecretMark # {} \/ t.ending = "env")

\* "already caught anything dangerous" (src/src/asset.rs:401-402), "Catches
\* payloads disguised" (quarantine.rs:44), "Deny-list takes highest priority"
\* (tool_policy.rs:121), and the lists and thresholds behind the other verdicts, for
\* what looks worse in one more way.  A path that names a secret is blocked for
\* everyone but the user wherever else it lies (of other targets nothing is said: one
\* that turns out to lie in a project or a log is asked about no longer); a binary
\* stays one; no tool becomes permitted, but when the last one leaves a strict
\* list; a request that was refused or asked about stays so, under a blocked domain
\* too; no grade rises.
NotMilder ==
  \/ /\ subject.kind = "target"
     /\ Secret(subject') =>
          \A n \in ToolName, s \in Source \ {"User"} : Judged(subject', n, s) = "Block"
  \/ /\ subject.kind = "payload"
     /\ Sniff(subject) \in Binary => Sniff(subject') = Sniff(subject)
  \/ /\ subject.kind = "tools"
     /\ (subject.strict /\ subject'.allow = {}) \/ Permitted(subject') \subseteq Permitted(subject)
  \/ /\ subject.kind = "request"
     /\ \/ EgressRank[EgressOf(subject')] >= EgressRank[EgressOf(subject)]
        \/ subject'.host # subject.host /\ ~Blocklisted(subject.host, subject.block)
  \/ subject.kind = "scan" /\ Grade(subject') >= Grade(subject)

WorseNeverMilder == [][NotMilder]_subject
=============================================================================
