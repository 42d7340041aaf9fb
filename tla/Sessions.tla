------------------------------- MODULE Sessions -------------------------------
(***************************************************************************)
(* The local arbiter's session files (src/src/session.rs, policy.rs,       *)
(* enforcement.rs), as the commands `sr session`, `sr enforce` and the     *)
(* dashboard's handlers use them: each loads the file, changes its copy    *)
(* and saves it, without a lock.  One session; another is another file.    *)
(*                                                                         *)
(* `show`, `policy evaluate` and the dashboard's evaluations only load.    *)
(***************************************************************************)
EXTENDS Naturals, Sequences, FiniteSets, SequencesExt

CONSTANTS Processes,  \* commands and handlers that may run at the same time
          Actions,    \* the actions that may be evaluated
          Modes,      \* the enforcement modes that may be set
          Recent,     \* the 20 decisions kept
          MaxEvents   \* bound: events in a session

\* The grants the policy reads, and a name that stands for the three it does not
\* read and for those set_grant does not know.
Grant == {"env_read", "config_write"}
GrantName == Grant \cup {"other"}

Mode == {"Enforce", "Correct", "Observe", "Off"}

\* What the policy sees of an action: a destructive command or a private key, an
\* .env file, a client's configuration, a secret on its way out, or none of these.
Action == [touches: {"nothing", "destructive", "env", "config", "secret"},
           risk: {"low", "medium", "high"}]

-------------------------------------------------------------------------------
(* policy::evaluate and enforcement::evaluate                              *)

Policy(grants, a) ==
  CASE a.touches = "nothing"     -> "Allow"
    [] a.touches = "destructive" -> "Block"
    [] a.touches = "env"         -> IF grants["env_read"] THEN "AllowWithRedaction" ELSE "Ask"
    [] a.touches = "config"      -> IF grants["config_write"] THEN "Ask" ELSE "Block"
    [] a.touches = "secret"      -> IF a.risk = "high" THEN "Block" ELSE "AllowWithRedaction"

\* apply_enforcement_mode
Final(mode, decision) ==
  CASE mode = "Off"     -> "Allow"
    [] mode = "Observe" -> "ObserveOnly"
    [] mode \in {"Enforce", "Correct"} ->
         IF decision \in {"Allow", "AllowWithRedaction"} THEN decision
         ELSE IF mode = "Enforce" THEN "Block" ELSE "CorrectAndRetry"

-------------------------------------------------------------------------------
(* The state of a session, and the changes a command makes to its copy.    *)

New == [grants |-> [g \in Grant |-> FALSE], mode |-> "Enforce",
        events |-> << [kind |-> "intent"] >>, recent |-> <<>>]

\* A slip the checks must notice: a name without an arm of its own in the match.
SetGrant_MissingArm(s, name, value) ==
  [s EXCEPT !.grants = [g \in Grant |-> IF g = name /\ g # "config_write" THEN value ELSE s.grants[g]],
            !.events = Append(@, [kind |-> "grant", name |-> name, value |-> value])]

\* set_grant: a name that is not known changes nothing, and is logged all the same.
SetGrant(s, name, value) ==
  [s EXCEPT !.grants = [g \in Grant |-> IF g = name THEN value ELSE s.grants[g]],
            !.events = Append(@, [kind |-> "grant", name |-> name, value |-> value])]

\* A slip the checks must notice: the newest decision dropped at the limit.
Keep_Oldest(recent) == IF Len(recent) > Recent THEN Front(recent) ELSE recent

\* append_decision keeps the newest.
Keep(recent) == IF Len(recent) > Recent THEN Tail(recent) ELSE recent

\* record_outcome
Record(s, a, final) ==
  [s EXCEPT !.recent = Keep(Append(@, [action |-> a, decision |-> final, mode |-> s.mode])),
            !.events = Append(@, [kind |-> "action", action |-> a, decision |-> final])]

\* Evaluated and recorded on one copy.
Enforced(s, a) == Record(s, a, Final(s.mode, Policy(s.grants, a)))

-------------------------------------------------------------------------------
(* The commands.                                                           *)

VARIABLES
  file,   \* what loading the file gives: the session, or Torn
  dirty,  \* processes whose open file was written to by another since
  task    \* per process: what it is about to save

vars == <<file, dirty, task>>

\* An empty file, or one text over another: not JSON.
Torn == [events |-> <<>>]
Readable == file # Torn

Idle == [pc |-> "idle"]

Init == file = New /\ dirty = {} /\ task = [p \in Processes |-> Idle]

Writing == {p \in Processes : task[p].pc = "write"}

\* load, and the change to the copy; a file that does not parse ends the command.
\* enforcement::evaluate_with_judge may await the judge here, for an advice that
\* is only shown.
LoadToSave(p, copy) ==
  /\ task[p].pc = "idle"
  /\ task' = [task EXCEPT ![p] = [pc |-> "save", copy |-> copy]]
  /\ UNCHANGED <<file, dirty>>

GrantCommand(p) ==
  /\ Readable /\ Len(file.events) < MaxEvents
  /\ \E name \in GrantName, value \in BOOLEAN : LoadToSave(p, SetGrant(file, name, value))

ModeCommand(p) ==
  /\ Readable
  /\ \E mode \in Modes : LoadToSave(p, [file EXCEPT !.mode = mode])

EnforceCommand(p) ==
  /\ Readable /\ Len(file.events) < MaxEvents
  /\ \E a \in Actions : LoadToSave(p, Enforced(file, a))

\* save is fs::write: open and truncate, then write at the process's own offset.
Truncate(p) ==
  /\ task[p].pc = "save"
  /\ file' = Torn /\ dirty' = {}
  /\ task' = [task EXCEPT ![p].pc = "write"]

\* Over another's text that is longer, what remains of it spoils the file.
Write(p) ==
  /\ task[p].pc = "write"
  /\ file' \in {task[p].copy} \cup (IF p \in dirty THEN {Torn} ELSE {})
  /\ dirty' = Writing \ {p}
  /\ task' = [task EXCEPT ![p] = Idle]

\* A process dies, or its disk is full, before the text is complete.
Fail(p) ==
  /\ task[p].pc # "idle"
  /\ \/ UNCHANGED file /\ dirty' = dirty \ {p}
     \/ task[p].pc = "write" /\ file' = Torn /\ dirty' = Writing \ {p}
  /\ task' = [task EXCEPT ![p] = Idle]

Command(p) ==
  \/ GrantCommand(p) \/ ModeCommand(p) \/ EnforceCommand(p)
  \/ Truncate(p) \/ Write(p) \/ Fail(p)

Next == \E p \in Processes : Command(p)

Spec == Init /\ [][Next]_vars

-------------------------------------------------------------------------------
(* Properties.                                                             *)

FinalDecision == {"Allow", "AllowWithRedaction", "Block", "CorrectAndRetry", "ObserveOnly"}
Event == [kind: {"intent"}] \cup [kind: {"grant"}, name: GrantName, value: BOOLEAN]
           \cup [kind: {"action"}, action: Action, decision: FinalDecision]
Session == [grants: [Grant -> BOOLEAN], mode: Mode, events: Seq(Event),
            recent: {r \in Seq([action: Action, decision: FinalDecision, mode: Mode]) :
                       Len(r) <= Recent}]

\* Type correctness: the file is a session or no JSON, a session keeps no more
\* than 20 decisions, and a process saves a session.
TypeOK ==
  /\ file = Torn \/ file \in Session
  /\ dirty \subseteq Writing
  /\ \A p \in Processes :
       task[p] = Idle \/ task[p] \in [pc: {"save", "write"}, copy: Session]

\* The grants as the events up to the n-th leave them.
Replayed(events, n) ==
  [g \in Grant |->
     LET sets == {i \in 1 .. n : events[i].kind = "grant" /\ events[i].name = g}
     IN  sets # {} /\ events[Max(sets)].value]

Followed(s) == s.grants = Replayed(s.events, Len(s.events))

\* What a session file says is explained by its own log, through any
\* interleaving of commands that overwrite each other's changes: its grants are
\* those its events leave.
GrantsFollowLog == Readable => Followed(file)

\* The decisions a session keeps are in its log at some places, in order; what was
\* decided apart from those came before, and then there are as many as are kept.
Explained(s) ==
  \E at \in [DOMAIN s.recent -> DOMAIN s.events] :
    /\ \A k, l \in DOMAIN at : k < l => at[k] < at[l]
    /\ \A i \in DOMAIN s.events :
         s.events[i].kind = "action" =>
           \/ \E k \in DOMAIN at : at[k] = i
           \/ Len(s.recent) = Recent /\ \A k \in DOMAIN at : i < at[k]
    /\ \A k \in DOMAIN at :
         LET d == s.recent[k] IN
         /\ s.events[at[k]] = [kind |-> "action", action |-> d.action, decision |-> d.decision]
         /\ d.decision = Final(d.mode, Policy(Replayed(s.events, at[k] - 1), d.action))

\* The decisions kept are the last ones of the log, in order, and each is the one
\* the policy gives under the mode noted and the grants the log shows before it:
\* a command that waited for the judge while grants changed decided and recorded
\* by one and the same state.
DecisionsReplay == Readable => Explained(file)
=============================================================================
