--------------------------- MODULE SessionGraphMC ---------------------------
(***************************************************************************)
(* The session graph fed with events of every kind the detectors look for, *)
(* those included that no tool name maps to (posts, secret accesses) and   *)
(* that reach it through the API only.  An event may be recorded a second  *)
(* after its time was taken.                                               *)
(***************************************************************************)
EXTENDS SessionGraph

CONSTANTS MaxNodes,  \* bound: events
          MaxClock   \* bound: seconds

\* An event without its id and time.
Kind(cap, asset, source, arts, tags) ==
  [cap |-> cap, asset |-> asset, source |-> source, tainted |-> source \in Untrusted,
   arts |-> arts, tags |-> tags]

\* Downloads and executions, linked by an artifact or not.
ExecKinds ==
  { Kind("NetworkFetch", "External", "Web", {"a"}, {}),
    Kind("WriteFile", "Temp", "User", {"a"}, {"archive"}),
    Kind("WriteFile", "Config", "User", {"b"}, {}),
    Kind("Execute", "Temp", "User", {"a"}, {"decode", "registry"}),
    Kind("Execute", "Executable", "Provider", {"a"}, {"install", "make", "npm", "encoded"}),
    Kind("BrowserNavigate", "External", "User", {"b"}, {}) }

\* What precedes an outbound send.
PostKinds ==
  { Kind("NetworkPost", "External", "User", {"a"}, {}),
    Kind("SecretAccess", "Credential", "User", {"b"}, {}),
    Kind("McpInvoke", "WalletData", "Mcp", {"a"}, {}),
    Kind("WriteFile", "AiClientConfig", "User", {"b"}, {"proxy", "env"}),
    Kind("ReadFile", "Log", "User", {"b"}, {"wifi"}) }

AllKinds == ExecKinds \cup PostKinds

Init == GraphInit

Event(kind, ts) ==
  [id |-> Len(nodes) + 1, cap |-> kind.cap, asset |-> kind.asset, source |-> kind.source,
   tainted |-> kind.tainted, ts |-> ts, arts |-> kind.arts, tags |-> kind.tags]

RecordOne ==
  /\ Len(nodes) < MaxNodes
  /\ \E kind \in AllKinds, ts \in {clock - 1, clock} \cap Nat : RecordEvent(Event(kind, ts))
  /\ UNCHANGED clock

Tick == clock < MaxClock /\ clock' = clock + 1 /\ UNCHANGED graph

Next == RecordOne \/ Tick

vars == <<graph, clock>>
Spec == Init /\ [][Next]_vars

TypeOK ==
  /\ nodes \in Seq(Node) /\ baseCaps \subseteq Capability /\ baseAssets \subseteq AssetClass
  /\ frozen \in BOOLEAN /\ anomaly \in 0 .. 100

\* The detectors are "re-runnable as the graph grows"
\* (src/src/session_graph.rs:378-379): what a rule found once, with its
\* severity, it finds again, whatever arrives later and in whatever order.
HitsKept == \A h \in DetectChains : \E k \in DetectChains' : k.rule = h.rule /\ k.sev >= h.sev
HitsNeverFade == [][HitsKept]_vars

\* The baseline is what the window showed: it is frozen by the first event
\* beyond the window and holds exactly what was recorded before that one.
BaselineFromWindow ==
  LET late == {i \in DOMAIN nodes : nodes[i].ts > Window}
      early == {i \in DOMAIN nodes : \A j \in late : i < j}
  IN  /\ frozen <=> late # {}
      /\ baseCaps = {nodes[i].cap : i \in early}
      /\ baseAssets = {nodes[i].asset : i \in early}
=============================================================================
