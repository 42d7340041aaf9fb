-------------------------- MODULE CapabilityMatrix --------------------------
(***************************************************************************)
(* Layer 1 of the defence model: the capability matrix                     *)
(* (src/src/capability_matrix.rs, fn evaluate).  The code is a cascade of  *)
(* early returns; here every rule is a predicate on the input with the     *)
(* decision it returns, and the first rule that applies decides.           *)
(***************************************************************************)
EXTENDS Assets, Naturals, Sequences, SequencesExt

MatrixDecision == {"Allow", "AllowWithAudit", "Ask", "Quarantine", "Block"}

\* How far a decision keeps the action away from the client.
Rank == [d \in MatrixDecision |->
            CASE d = "Allow"          -> 0
              [] d = "AllowWithAudit" -> 1
              [] d = "Ask"            -> 2
              [] d = "Quarantine"     -> 3
              [] d = "Block"          -> 4]

MatrixInput == [source: Source, capability: Capability, asset: AssetClass,
                tainted: BOOLEAN]

\* The capabilities an untrusted origin may never induce.
Induced == {"Execute", "BrowserDownload", "NetworkPost", "McpInvoke"}

\* Layer 1a: never-auto assets, with the carve-outs of a user's own request.
HardDenyRules(in) ==
  << <<in.asset \in HardDeny /\ in.source # "User", "Block">>,
     <<in.asset \in HardDeny /\ in.capability = "Execute", "Block">>,
     <<in.asset \in {"Keychain", "WalletData", "CloudMetadata"} /\ in.source = "User",
       "AllowWithAudit">>,
     <<in.asset = "BrowserData" /\ in.source = "User", "AllowWithAudit">> >>

\* Layer 1b: what provider, web and MCP output may induce.
UntrustedRules(in) ==
  << <<in.source \in Untrusted /\ in.capability \in Induced, "Block">>,
     <<in.source \in Untrusted
         /\ in.capability \in {"NetworkFetch", "ClipboardRead", "UiAutomation"}, "Ask">>,
     <<in.source \in Untrusted /\ in.capability = "WriteFile"
         /\ in.asset \in {"Temp", "Executable", "AiClientConfig", "System"}, "Quarantine">>,
     <<in.source \in Untrusted /\ in.capability = "WriteFile"
         /\ in.asset = "Project", "Ask">>,
     <<in.source \in Untrusted /\ in.capability = "ReadFile"
         /\ in.asset = "Credential", "Block">> >>

\* Layer 1c: a tainted artifact.
TaintRules(in) ==
  << <<in.tainted /\ in.capability \in Induced, "Block">>,
     <<in.tainted, "Ask">> >>

\* Layers 1d and 1e: ask-only assets, then the low-risk actions.
PermitRules(in) ==
  << <<in.asset \in AskOnly /\ in.source # "User", "Ask">>,
     <<in.asset \in AskOnly /\ in.source = "User", "AllowWithAudit">>,
     <<in.source \in {"User", "Internal"} /\ in.asset = "Project"
         /\ in.capability \in {"ReadFile", "WriteFile"}, "Allow">>,
     <<in.source \in {"User", "Internal"} /\ in.capability = "ReadFile"
         /\ in.asset \in {"Log", "Config"}, "AllowWithAudit">>,
     <<in.source = "User" /\ in.capability = "NetworkFetch"
         /\ in.asset = "External", "Allow">>,
     <<in.source = "User" /\ in.capability = "NetworkPost"
         /\ in.asset = "External", "Ask">> >>

\* Slips the checks must notice: the taint override tried before the
\* rules for untrusted origins, a browser carve-out that forgets to ask for the user, and a
\* cascade that ends after the taint override.
Rules_TaintFirst(in) ==
  HardDenyRules(in) \o TaintRules(in) \o UntrustedRules(in) \o PermitRules(in)
Rules_CarveOutForAll(in) ==
  << <<in.asset = "BrowserData", "AllowWithAudit">> >>
     \o HardDenyRules(in) \o UntrustedRules(in) \o TaintRules(in) \o PermitRules(in)
Rules_NoMatchFails(in) ==
  HardDenyRules(in) \o UntrustedRules(in) \o TaintRules(in) \o << <<TRUE, "unreachable">> >>

\* The order in which the code tries the rules; anything unrecognised is Ask.
Rules(in) == HardDenyRules(in) \o UntrustedRules(in) \o TaintRules(in) \o PermitRules(in)

MatrixEvaluate(in) ==
  LET rules == Rules(in)
      hits  == {i \in DOMAIN rules : rules[i][1]}
  IN  IF hits = {} THEN "Ask"
      ELSE rules[CHOOSE i \in hits : \A j \in hits : i <= j][2]
=============================================================================
