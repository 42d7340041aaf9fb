--------------------------- MODULE DefenseEngineMC ---------------------------
(***************************************************************************)
(* Instances of DefenseEngine for TLC: which tool uses are evaluated.      *)
(***************************************************************************)
EXTENDS DefenseEngine

Lits == {"url", "file"}
MCArtifacts == {"User", "Provider"} \X Lits

Clean == [blocklisted |-> FALSE, allowlisted |-> TRUE, entropy |-> FALSE, paths |-> FALSE]

\* The user's tool use of a kind, with nothing else to it.
Use(cap, asset, target) ==
  [cap |-> cap, asset |-> asset, target |-> target, refs |-> {target}, tags |-> {},
   unsolicited |-> FALSE, url |-> FALSE, egress |-> Clean, canary |-> FALSE]

Fetch   == Use("NetworkFetch", "External", "url")
WriteTo == [Use("WriteFile", "Temp", "file") EXCEPT !.refs = {"url", "file"}]
Run     == [Use("Execute", "Temp", "file") EXCEPT !.refs = {"file"}]
Look    == Use("ReadFile", "Project", "file")
Undeclared(o) == [o EXCEPT !.unsolicited = TRUE]

\* A declared shell command that fetches: the egress policy is asked.
RunRemote == [Use("Execute", "External", "url") EXCEPT !.url = TRUE, !.egress.allowlisted = FALSE]
Decoy == [Look EXCEPT !.canary = TRUE]
Steal == Undeclared(Use("Execute", "Credential", "file"))

\* fetch, write, execute by two tasks: chains, baseline and races.
ChainUses == {Fetch, WriteTo, Run}
\* The same with an undeclared tool among them: taint.
TaintUses == {Look, Undeclared(Look), Undeclared(WriteTo), Steal, RunRemote, Decoy}
\* An undeclared fetch and a declared write that mentions its URL.
InheritUses == {Undeclared(Fetch), WriteTo}
==============================================================================
