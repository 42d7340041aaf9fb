---------------------------- MODULE SessionGraph ----------------------------
(***************************************************************************)
(* Layer 3 (and the behavioural Layer 7) of the defence model: the graph   *)
(* of a session's actions and the chain detectors                          *)
(* (src/src/session_graph.rs).                                             *)
(*                                                                         *)
(* Time is counted from session_start_ts.  A node's label is what the      *)
(* detectors look for in it (tags).  seen_capabilities and last_ts, which  *)
(* nothing reads, and artifact_index, an index of nodes, are not kept.     *)
(***************************************************************************)
EXTENDS Assets, Naturals, Sequences, FiniteSets, SequencesExt

CONSTANTS Artifacts,  \* artifact ids
          Window,     \* baseline_period_secs
          Day,        \* 86_400 seconds
          Delay       \* the 3600 seconds of the delayed trigger

ASSUME SessionGraphAssumption == Window \in Nat /\ Day \in Nat \ {0} /\ Delay \in Nat

\* What a label may contain.
Tag == {"make", "npm", "decode", "archive", "env", "wifi", "registry", "install",
        "encoded", "proxy"}

Node == [id: Nat, cap: Capability, asset: AssetClass, source: Source, tainted: BOOLEAN,
         ts: Nat, arts: SUBSET Artifacts, tags: SUBSET Tag]

VARIABLES
  nodes,       \* the events, in the order they were recorded
  baseCaps,    \* capabilities learned during the window
  baseAssets,  \* asset classes learned during the window
  frozen,      \* baseline_finalized
  anomaly,     \* last_anomaly_score
  clock        \* now_ts()

graph == <<nodes, baseCaps, baseAssets, frozen, anomaly>>

GraphInit ==
  /\ nodes = <<>> /\ baseCaps = {} /\ baseAssets = {} /\ frozen = FALSE
  /\ anomaly = 0 /\ clock = 0

-------------------------------------------------------------------------------
(* fn record                                                               *)

\* The capabilities whose first use outside the baseline is an escalation.
Critical == {"Execute", "NetworkPost", "BrowserDownload", "McpInvoke"}

Points(cond, n) == IF cond THEN n ELSE 0

\* A slip the checks must notice: the score without its ceiling.
AnomalyScore_Uncapped(ev, caps, assets, final) ==
  LET newCap == final /\ ev.cap \notin caps
      newAsset == final /\ ev.asset \notin assets
  IN  Points(newCap, 30) + Points(newCap /\ ev.cap \in Critical, 20)
        + Points(newAsset, 25) + Points(newAsset /\ ev.asset \in HardDeny, 25)
        + Points(ev.tainted, 20)
        + Points(final /\ ev.source \in {"Provider", "Web", "Mcp"}, 10)

\* compute_anomaly, given the baseline as it is once the event was learned.
AnomalyScore(ev, caps, assets, final) ==
  LET newCap == final /\ ev.cap \notin caps
      newAsset == final /\ ev.asset \notin assets
      score == Points(newCap, 30) + Points(newCap /\ ev.cap \in Critical, 20)
                 + Points(newAsset, 25) + Points(newAsset /\ ev.asset \in HardDeny, 25)
                 + Points(ev.tainted, 20)
                 + Points(final /\ ev.source \in {"Provider", "Web", "Mcp"}, 10)
  IN  IF score > 100 THEN 100 ELSE score

\* A slip the checks must notice: the baseline learns the event that closes the
\* window.
Learn_LastToo(ev) ==
  IF ~frozen
  THEN /\ baseCaps' = baseCaps \cup {ev.cap}
       /\ baseAssets' = baseAssets \cup {ev.asset}
       /\ frozen' = (ev.ts > Window)
  ELSE UNCHANGED <<baseCaps, baseAssets, frozen>>

\* The baseline learns until the first event after the window freezes it.
Learn(ev) ==
  IF ~frozen /\ ev.ts <= Window
  THEN /\ baseCaps' = baseCaps \cup {ev.cap}
       /\ baseAssets' = baseAssets \cup {ev.asset}
       /\ UNCHANGED frozen
  ELSE frozen' = TRUE /\ UNCHANGED <<baseCaps, baseAssets>>

\* A slip the checks must notice: a graph that keeps the last three events.
RecordEvent_Evicts(ev) ==
  /\ Learn(ev)
  /\ anomaly' = AnomalyScore(ev, baseCaps', baseAssets', frozen')
  /\ nodes' = Append(IF Len(nodes) < 3 THEN nodes ELSE Tail(nodes), ev)

RecordEvent(ev) ==
  /\ Learn(ev)
  /\ anomaly' = AnomalyScore(ev, baseCaps', baseAssets', frozen')
  /\ nodes' = Append(nodes, ev)

-------------------------------------------------------------------------------
(* fn detect_chains: one set of hits per detector.                         *)

Hit(rule, sev, n) == [rule |-> rule, sev |-> sev, at |-> n.id]

\* The nodes with a capability, an asset class or a tag of a set.
Having(caps)   == {n \in ToSet(nodes) : n.cap \in caps}
OnAsset(assets) == {n \in ToSet(nodes) : n.asset \in assets}
Tagged(tags)   == {n \in ToSet(nodes) : n.tags \cap tags # {}}

Fetches   == Having({"NetworkFetch", "BrowserDownload"})
Writes    == Having({"WriteFile"})
Execs     == Having({"Execute"})
Posts     == Having({"NetworkPost"})
InTemp    == OnAsset({"Temp", "Executable"})
Secrets   == OnAsset({"Credential", "WalletData", "BrowserData", "Keychain", "CloudMetadata"})

\* A slip the checks must notice: only the newest event is looked at.
After_NewestOnly(rule, sev, at, priors) ==
  {Hit(rule, sev, n) : n \in {m \in at : m = Last(nodes) /\ \E p \in priors : p.ts <= m.ts}}

\* The two shapes most detectors have: any node of a set, and a node of a set
\* at or after the time of a node of another.
Each(rule, sev, at) == {Hit(rule, sev, n) : n \in at}
After(rule, sev, at, priors) ==
  {Hit(rule, sev, n) : n \in {m \in at : \E p \in priors : p.ts <= m.ts}}

Share(a, b) == a.arts \cap b.arts # {}

\* detect_fetch_write_execute: by shared artifacts; without any such hit so
\* far, by the order of times alone.
Linked(e) ==
  \E w \in Writes, f \in Fetches : /\ w.ts <= e.ts /\ Share(w, e)
                                   /\ f.ts <= w.ts /\ Share(f, w)
Loose(e) == (\E f \in Fetches : f.ts <= e.ts) /\ (\E w \in Writes \cap InTemp : w.ts <= e.ts)

FetchWriteExecute ==
  LET execs == {i \in DOMAIN nodes : nodes[i].cap = "Execute"}
      quietBefore(i) == \A j \in execs : j < i => ~Linked(nodes[j]) /\ ~Loose(nodes[j])
  IN  {Hit("fetch-write-execute", 95, nodes[i]) : i \in {j \in execs : Linked(nodes[j])}}
        \cup {Hit("fetch-write-execute", 90, nodes[i]) :
                i \in {j \in execs : /\ ~Linked(nodes[j]) /\ quietBefore(j)
                                     /\ Loose(nodes[j])}}

ReadSecretOutbound == After("read-secret-outbound", 90, Posts, Having({"SecretAccess"}) \cap Secrets)

BrowseExtractShell ==
  LET exposed == {e \in Execs : e.tainted \/ e.source \in {"Web", "Mcp", "Provider"}}
      browses == {b \in Having({"BrowserNavigate", "NetworkFetch"}) :
                    b.source \in {"Web", "Provider", "Mcp"}}
  IN  Each("browse-extract-shell", 95,
           {e \in exposed : \E b \in browses : b.ts <= e.ts /\ Share(b, e)})

McpToShellOrNet ==
  LET mcp == {n \in ToSet(nodes) : n.cap = "McpInvoke" \/ n.source = "Mcp"}
  IN  Each("mcp-to-shell-net", 90,
           {e \in Execs \cup Posts : (\E m \in mcp : m.ts <= e.ts) /\ (\E m \in mcp : Share(m, e))})

TaintLeap == Each("taint-leap-execute", 95, {e \in Execs : e.tainted})

\* More than three days into the session, what the first day did not show.
LongDwell ==
  LET dayOne == {n.cap : n \in {m \in ToSet(nodes) : m.ts <= Day}}
  IN  Each("long-dwell-new-capability", 70,
           {n \in ToSet(nodes) : /\ clock >= 3 * Day /\ n.ts > Day
                                 /\ n.cap \notin dayOne \cup {"ReadFile", "WriteFile"}})

BaselineAnomaly ==
  Each("baseline-anomaly", 60,
       {n \in ToSet(nodes) : frozen /\ (n.cap \notin baseCaps \/ n.asset \notin baseAssets)})

CapabilityEscalation ==
  Each("capability-escalation", 75, {n \in Having(Critical) : frozen /\ n.cap \notin baseCaps})

ExecViaMakeOrNpm ==
  Each("exec-via-make", 75, Execs \cap Tagged({"make"}))
    \cup Each("exec-via-npm-script", 75, Execs \cap Tagged({"npm"}))

DecodeThenExecute == After("decode-pipe-exec", 85, Execs, Tagged({"decode"}))

SensitiveAssetOutbound ==
  After("browserdata-outbound", 95, Posts, OnAsset({"BrowserData"}))
    \cup After("walletdata-outbound", 95, Posts, OnAsset({"WalletData"}))
    \cup After("keychain-outbound", 95, Posts, OnAsset({"Keychain"}))
    \cup After("history-outbound", 80, Posts, OnAsset({"Log"}))
    \cup After("cloudmeta-outbound", 95, Posts, OnAsset({"CloudMetadata"}))

PoisonedConfigs == Writes \cap OnAsset({"AiClientConfig", "Config"})
ConfigPoisonThenExec == After("config-poison-exec", 85, Execs \cup Posts, PoisonedConfigs)
ConfigPoisonThenNetpost == After("config-poison-netpost", 85, Posts, PoisonedConfigs)

ArchiveUnpackExec ==
  After("archive-unpack-exec", 85, Execs,
        Tagged({"archive"}) \cap OnAsset({"Temp", "Executable", "External"}))

EnvAndWifiOutbound ==
  After("env-outbound", 90, Posts, Tagged({"env"}))
    \cup After("wifi-outbound", 85, Posts, Tagged({"wifi"}))

PkgPoisonInstall ==
  After("pkg-poison-install", 85, Execs \cap Tagged({"install"}), Tagged({"registry"}))

PowershellEncodedExec == Each("powershell-encoded-exec", 90, Execs \cap Tagged({"encoded"}))

BrowserDownloadExec ==
  After("browser-download-exec", 90, Execs,
        Having({"BrowserDownload", "BrowserNavigate"}) \cap OnAsset({"External", "Temp"}))

RepeatedTempExec ==
  Each("repeated-temp-exec", 80,
       {e \in Execs \cap InTemp :
          \E n \in Execs : n.id # e.id /\ n.asset = e.asset /\ Share(n, e)})

McpSensitiveOutbound ==
  After("mcp-sensitive-outbound", 90, Posts, {n \in Secrets : n.source = "Mcp"})

ProxyRewriteEgress == After("proxy-rewrite-egress", 80, Posts, Tagged({"proxy"}))

TempExecDelay ==
  Each("temp-exec-delay", 75,
       {e \in Execs \cap InTemp : \E w \in Writes \cap InTemp : w.ts + Delay <= e.ts})

DetectChains ==
  FetchWriteExecute \cup ReadSecretOutbound \cup BrowseExtractShell \cup McpToShellOrNet
    \cup TaintLeap \cup LongDwell \cup BaselineAnomaly \cup CapabilityEscalation
    \cup ExecViaMakeOrNpm \cup DecodeThenExecute \cup SensitiveAssetOutbound
    \cup ConfigPoisonThenExec \cup ArchiveUnpackExec \cup EnvAndWifiOutbound
    \cup PkgPoisonInstall \cup PowershellEncodedExec \cup BrowserDownloadExec
    \cup RepeatedTempExec \cup ConfigPoisonThenNetpost \cup McpSensitiveOutbound
    \cup ProxyRewriteEgress \cup TempExecDelay
=============================================================================
