-------------------------- MODULE CapabilityMatrixMC --------------------------
(***************************************************************************)
(* The matrix judged again as more is learned about one and the same       *)
(* action: provenance finds its artifact tainted, or its origin turns out  *)
(* to be untrusted.  The input domain is finite and explored completely.   *)
(***************************************************************************)
EXTENDS CapabilityMatrix

VARIABLE in     \* the MatrixInput under evaluation

Init == in \in MatrixInput

\* The artifact is found to be tainted.
BecomeTainted ==
  /\ ~in.tainted
  /\ in' = [in EXCEPT !.tainted = TRUE]

\* An action taken for the user's (or the agent's own) turns out to come from
\* an untrusted origin.
Distrust ==
  /\ in.source \notin Untrusted
  /\ \E s \in Untrusted : in' = [in EXCEPT !.source = s]

Next == BecomeTainted \/ Distrust

Spec == Init /\ [][Next]_in

\* Every input is one of the code's, and the cascade always reaches a decision.
TypeOK == in \in MatrixInput /\ MatrixEvaluate(in) \in MatrixDecision

\* The early returns are ordered so that learning something bad about an
\* action never relaxes its decision: a rule placed before a stricter one
\* (the user carve-outs come before the taint override) could do just that.
NotRelaxed == Rank[MatrixEvaluate(in')] >= Rank[MatrixEvaluate(in)]
EscalationNeverRelaxes == [][NotRelaxed]_in

\* "we route to Ask for human to review, never to Allow"
\* (src/src/capability_matrix.rs:89-91): whatever falls through the rules for
\* untrusted origins must still not reach a permitting rule further down.
UntrustedNeverSilent ==
  in.source \in Untrusted => Rank[MatrixEvaluate(in)] >= Rank["Ask"]

===============================================================================
