------------------------------- MODULE Assets -------------------------------
(***************************************************************************)
(* The vocabulary the defence layers share (src/src/asset.rs): what an     *)
(* action touches, where it came from and what it does.                    *)
(***************************************************************************)

\* The class of the target of an action.
AssetClass == {"Project", "System", "Credential", "BrowserData", "WalletData",
               "Keychain", "Executable", "AiClientConfig", "Config", "Log",
               "Temp", "External", "CloudMetadata", "Unknown"}

\* is_hard_deny_for_auto: never approved without a human.
HardDeny == {"Credential", "BrowserData", "WalletData", "Keychain", "CloudMetadata"}

\* is_ask_only: not denied outright, never approved silently.
AskOnly == {"System", "AiClientConfig", "Executable", "Unknown"}

\* The origin of an action.
Source == {"User", "Provider", "Web", "Mcp", "LocalFile", "Internal", "Unknown"}

\* is_untrusted: the origins whose artifacts are born tainted.
Untrusted == {"Provider", "Web", "Mcp", "Unknown"}

\* What an action does.
Capability == {"ReadFile", "WriteFile", "Execute", "NetworkFetch", "NetworkPost",
               "BrowserNavigate", "BrowserDownload", "McpInvoke", "SecretAccess",
               "ClipboardRead", "UiAutomation"}

\* The capabilities Capability::from_tool_call can return: no tool name maps
\* to NetworkPost or to SecretAccess.
ToolCapability == Capability \ {"NetworkPost", "SecretAccess"}
=============================================================================
