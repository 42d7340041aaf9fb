----------------------------- MODULE ComponentsMC -----------------------------
(***************************************************************************)
(* The values ComponentsMC.cfg gives to Components for TLC.                *)
(***************************************************************************)
EXTENDS Components, TLC

\* An action each grant decides, and one no grant does.
ProbedActions ==
  [touches: {"env", "config"}, risk: {"low"}] \cup [touches: {"secret"}, risk: {"high"}]

\* Two rule files that disagree on a rule's pattern and on another's severity.
TwoFiles ==
  LET r(id, severity, compiles) == [id |-> id, severity |-> severity, compiles |-> compiles] IN
  { [rules |-> {r("pipe", 90, TRUE), r("eval", 45, TRUE)}, hosts |-> {"evil"}],
    [rules |-> {r("pipe", 90, FALSE), r("eval", 65, TRUE)}, hosts |-> {}] }

\* One probe whose red flag is critical and one whose is not; an official upstream.
TwoProbes == <<"DownloadExec", "GitAttack">>
Claude == [official |-> TRUE, claimed |-> "Claude", observed |-> "Claude", protocol |-> "anthropic"]

Symmetry == Permutations(Processes)
=============================================================================
