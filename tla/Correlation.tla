----------------------------- MODULE Correlation -----------------------------
(***************************************************************************)
(* Which sessions sent an artifact out of a workspace                      *)
(* (src/src/correlation.rs): one record per workspace and artifact in an   *)
(* embedded database, updated atomically, read back after that, and pruned *)
(* by age, from several tasks at a time.  One key is modelled.             *)
(***************************************************************************)
EXTENDS Naturals, FiniteSets

CONSTANTS Sessions,  \* sessions, each of which records its own sends
          MaxAge,    \* max_age_secs of gc
          MaxClock   \* bound on the wall clock

VARIABLES
  record,   \* the record of the key
  clock,    \* now_secs
  sender,   \* per session: its call of record_outbound, or how its last one ended
  pruner,   \* the call of gc
  lost      \* history: sessions whose send went with a removal that was to take older ones

vars == <<record, clock, sender, pruner, lost>>

NoRecord == [sessions |-> {}, seen |-> 0]
Idle == [pc |-> "idle"]

Init ==
  /\ record = NoRecord /\ clock = 0 /\ lost = {}
  /\ sender = [s \in Sessions |-> Idle] /\ pruner = Idle

\* The other sessions that already sent the artifact, whether the record has them or not.
SentBefore(s) == (record.sessions \cup lost) \ {s}

\* record_outbound: fetch_and_update adds the session, if it is not there yet.  Whom
\* the call is to find, and when it was made, is history.
Update(s) ==
  /\ sender[s].pc # "readback"
  /\ record' = [sessions |-> record.sessions \cup {s}, seen |-> clock]
  /\ sender' = [sender EXCEPT ![s] = [pc |-> "readback", others |-> SentBefore(s), at |-> clock]]
  /\ lost' = lost \ {s}
  /\ UNCHANGED <<clock, pruner>>

\* A slip the checks must notice: the second session not counted yet.
Correlated_Third(s, sessions) == Cardinality(sessions) > 2

\* Two sessions, and one of them another.
Correlated(s, sessions) == Cardinality(sessions) >= 2 /\ \E other \in sessions : other # s

\* What is read back may be a later record, or none.  A call is due an alert when
\* neither its own send nor those of all the others were lost.
ReadBack(s) ==
  /\ sender[s].pc = "readback"
  /\ sender' = [sender EXCEPT ![s] =
       [pc |-> "ended", told |-> Correlated(s, record.sessions), took |-> clock - sender[s].at,
        due |-> s \notin lost /\ sender[s].others \ lost # {}]]
  /\ UNCHANGED <<record, clock, pruner, lost>>

\* gc: the keys to delete are collected, by their age, and then removed.
Collect ==
  /\ pruner = Idle /\ record # NoRecord
  /\ clock - record.seen > MaxAge
  /\ pruner' = [pc |-> "remove", seen |-> record.seen]
  /\ UNCHANGED <<record, clock, sender, lost>>

\* Whatever was recorded under the key since goes with it.
Remove ==
  /\ pruner.pc = "remove"
  /\ record' = NoRecord
  /\ lost' = IF record.seen = pruner.seen THEN {} ELSE lost \cup record.sessions
  /\ pruner' = Idle
  /\ UNCHANGED <<clock, sender>>

\* A call fails at the database, or its process ends.
Fail(s) ==
  /\ sender[s].pc = "readback"
  /\ sender' = [sender EXCEPT ![s] = Idle]
  /\ UNCHANGED <<record, clock, pruner, lost>>

Tick == clock < MaxClock /\ clock' = clock + 1 /\ UNCHANGED <<record, sender, pruner, lost>>

Next == Tick \/ Collect \/ Remove \/ \E s \in Sessions : Update(s) \/ ReadBack(s) \/ Fail(s)

Spec == Init /\ [][Next]_vars

-------------------------------------------------------------------------------
\* Type correctness of the record, the calls and the history.
TypeOK ==
  /\ record \in [sessions: SUBSET Sessions, seen: 0 .. MaxClock]
  /\ clock \in 0 .. MaxClock /\ lost \subseteq Sessions
  /\ \A s \in Sessions :
       \/ sender[s] = Idle
       \/ sender[s] \in [pc: {"readback"}, others: SUBSET Sessions, at: 0 .. clock]
       \/ sender[s] \in [pc: {"ended"}, told: BOOLEAN, took: 0 .. clock, due: BOOLEAN]
  /\ pruner = Idle \/ pruner \in [pc: {"remove"}, seen: 0 .. clock]

\* "Returns Some(CorrelationAlert) if a *different* session already sent the same
\* artifact from the same workspace" (src/src/correlation.rs:69-70).  It does not when
\* gc, which collects a key for its age and removes it later (161-170), takes the
\* record that one of the two refreshed in between; nor when the record grows too old
\* and is removed while the call is on its way.  Whatever else the updates, the reads
\* and the collections do to each other, the second session is told.
SharedSendAlerts ==
  \A s \in Sessions :
    sender[s].pc = "ended" /\ sender[s].due /\ sender[s].took <= MaxAge => sender[s].told
=============================================================================
