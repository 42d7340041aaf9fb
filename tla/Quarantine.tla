------------------------------ MODULE Quarantine ------------------------------
(***************************************************************************)
(* Layer 5: the quarantine store (src/src/quarantine.rs).  The proxy's     *)
(* tasks take artifacts in; an operator releases or purges them.  Entries  *)
(* and the file counter live in the process, the files outlive it.         *)
(*                                                                         *)
(* `sr quarantine` (src/src/main.rs) and the dashboard (src/src/web.rs)    *)
(* open a store of their own on the same directory for each command; a     *)
(* program that embeds the library shares the proxy's.                     *)
(***************************************************************************)
EXTENDS Naturals, Sequences, FiniteSets, SequencesExt

CONSTANTS Threads,     \* the proxy's tasks
          Paths,       \* original paths
          Contents,    \* payloads, which stand for their SHA-256 too
          SharedStore, \* the operator's commands use the proxy's own store
          MaxEntries   \* bound: entries, and files, of one life of the process

ASSUME QuarantineAssumption == SharedStore \in BOOLEAN /\ MaxEntries \in Nat

\* A stored file is named by the hash and the counter; 0 stands for the
\* original path, which is where an allowlisted artifact counts as stored.
FileNo == 0 .. MaxEntries
Entry == [path: Paths, sha: Contents, no: FileNo, released: BOOLEAN]

VARIABLES
  entries,  \* the proxy's entries, oldest first
  counter,  \* the number of the next stored file
  allow,    \* the hash allowlist
  files,    \* stored files: "none", "partial" or "whole"
  targets,  \* original paths: "none", "partial", or the content restored there
  task,     \* per task: the intake in progress
  reply     \* history: the operator's last command and its result

store == <<entries, counter, allow>>
vars == <<store, files, targets, task, reply>>

Idle == [pc |-> "idle"]

\* What is_quarantined answers is whether some entry of a path is held.
HeldOf(c) == {i \in DOMAIN entries : entries[i].sha = c /\ ~entries[i].released}

\* A slip the checks must notice: a counter that starts one short.
StoreInit_FromZero == entries = <<>> /\ counter = 0 /\ allow = {}

StoreInit == entries = <<>> /\ counter = 1 /\ allow = {}

Init ==
  /\ StoreInit
  /\ files = [f \in Contents \X FileNo |-> "none"]
  /\ targets = [p \in Paths |-> "none"]
  /\ task = [t \in Threads |-> Idle]
  /\ reply = [cmd |-> "none"]

-------------------------------------------------------------------------------
(* fn intake                                                               *)

Goto(t, next) == task' = [task EXCEPT ![t] = next]

EntryOf(p, c, no, released) == [path |-> p, sha |-> c, no |-> no, released |-> released]

Room == Len(entries) < MaxEntries

\* An allowlisted artifact is not stored: its entry counts as released.
IntakeAllowed(t, p, c) ==
  /\ task[t].pc = "idle" /\ c \in allow /\ Room
  /\ entries' = Append(entries, EntryOf(p, c, 0, TRUE))
  /\ UNCHANGED <<counter, allow, files, targets, task, reply>>

\* Slips the checks must notice: the counter read and not advanced, and the
\* entry listed once the file is created.
IntakeBegin_SameNo(t, p, c) ==
  /\ task[t].pc = "idle" /\ c \notin allow /\ counter <= MaxEntries
  /\ Goto(t, [pc |-> "create", path |-> p, sha |-> c, no |-> counter])
  /\ UNCHANGED <<entries, counter, allow, files, targets, reply>>

IntakeBegin(t, p, c) ==
  /\ task[t].pc = "idle" /\ c \notin allow /\ counter <= MaxEntries
  /\ Goto(t, [pc |-> "create", path |-> p, sha |-> c, no |-> counter])
  /\ counter' = counter + 1
  /\ UNCHANGED <<entries, allow, files, targets, reply>>

FileOf(t) == <<task[t].sha, task[t].no>>

\* File::create truncates what a former process left under that name.
Create(t) ==
  /\ task[t].pc = "create"
  /\ \/ files' = [files EXCEPT ![FileOf(t)] = "partial"] /\ Goto(t, [task[t] EXCEPT !.pc = "write"])
     \/ UNCHANGED files /\ Goto(t, Idle)
  /\ UNCHANGED <<store, targets, reply>>

\* A failed write leaves the torn file behind, and no entry.
Write(t) ==
  /\ task[t].pc = "write"
  /\ \/ files' = [files EXCEPT ![FileOf(t)] = "whole"] /\ Goto(t, [task[t] EXCEPT !.pc = "push"])
     \/ UNCHANGED files /\ Goto(t, Idle)
  /\ UNCHANGED <<store, targets, reply>>

Push(t) ==
  /\ task[t].pc = "push" /\ Room
  /\ entries' = Append(entries, EntryOf(task[t].path, task[t].sha, task[t].no, FALSE))
  /\ Goto(t, Idle)
  /\ UNCHANGED <<counter, allow, files, targets, reply>>

Intake(t) ==
  \/ \E p \in Paths, c \in Contents : IntakeAllowed(t, p, c) \/ IntakeBegin(t, p, c)
  \/ Create(t) \/ Write(t) \/ Push(t)

-------------------------------------------------------------------------------
(* The operator's commands, each under the lock of the store it opened.    *)

Opened == IF SharedStore THEN entries ELSE <<>>

First(S) == CHOOSE i \in S : \A j \in S : i <= j

Answer(cmd, c, result) ==
  reply' = [cmd |-> cmd, result |-> result, stillHeld |-> HeldOf(c) # {}]

NotFound(cmd, c) == Answer(cmd, c, "not found") /\ UNCHANGED <<store, files, targets>>

\* release: copies the first held artifact of that hash to its original path;
\* a copy that fails may leave the path torn, and the artifact held.
Release(c) ==
  LET hits == {i \in DOMAIN Opened : Opened[i].sha = c /\ ~Opened[i].released}
      i == First(hits)
      copied(content) == targets' = [targets EXCEPT ![Opened[i].path] = content]
  IN  IF hits = {} THEN NotFound("release", c)
      ELSE /\ \/ /\ files[<<c, Opened[i].no>>] # "none"
                 /\ entries' = [entries EXCEPT ![i].released = TRUE]
                 /\ copied(IF files[<<c, Opened[i].no>>] = "whole" THEN c ELSE "partial")
                 /\ Answer("release", c, "ok")
              \/ /\ UNCHANGED entries
                 /\ UNCHANGED targets \/ copied("partial")
                 /\ Answer("release", c, "failed")
           /\ UNCHANGED <<counter, allow, files>>

\* purge: forgets the first artifact of that hash, released or not, and removes
\* the file it counts as stored in.
Purge(c) ==
  LET hits == {i \in DOMAIN Opened : Opened[i].sha = c}
      e == Opened[First(hits)]
  IN  IF hits = {} THEN NotFound("purge", c)
      ELSE /\ entries' = RemoveAt(entries, First(hits))
           /\ IF e.no = 0 THEN targets' = [targets EXCEPT ![e.path] = "none"] /\ UNCHANGED files
                          ELSE files' = [files EXCEPT ![<<c, e.no>>] = "none"] /\ UNCHANGED targets
           /\ Answer("purge", c, "ok")
           /\ UNCHANGED <<counter, allow>>

\* add_allowlist reaches the proxy only through a shared store.
AddAllowlist(c) ==
  /\ SharedStore
  /\ allow' = allow \cup {c}
  /\ UNCHANGED <<entries, counter, files, targets, reply>>

\* `clear` lists the held artifacts and purges their hashes one by one: steps
\* that are all here.
Operator ==
  /\ \E c \in Contents : Release(c) \/ Purge(c) \/ AddAllowlist(c)
  /\ UNCHANGED task

\* The proxy stops, perhaps inside an intake, and starts again.
Restart ==
  /\ entries' = <<>> /\ counter' = 1 /\ allow' = {}
  /\ task' = [t \in Threads |-> Idle]
  /\ UNCHANGED <<files, targets, reply>>

Next == (\E t \in Threads : Intake(t)) \/ Operator \/ Restart

Spec == Init /\ [][Next]_vars

-------------------------------------------------------------------------------
(* Properties.                                                             *)

TypeOK ==
  /\ entries \in Seq(Entry) /\ Len(entries) <= MaxEntries
  /\ counter \in 1 .. MaxEntries + 1
  /\ allow \subseteq Contents
  /\ files \in [Contents \X FileNo -> {"none", "partial", "whole"}]
  /\ targets \in [Paths -> {"none", "partial"} \cup Contents]
  /\ task \in [Threads -> {Idle} \cup [pc: {"create", "write", "push"}, path: Paths,
                                      sha: Contents, no: FileNo]]

\* What is held can be reviewed: its file is there, complete, whatever was
\* purged, failed or was being written under the same hash, and whatever files
\* an earlier process left (the counter starts at 1 again).
HeldHasFile ==
  \A i \in DOMAIN entries :
    ~entries[i].released => files[<<entries[i].sha, entries[i].no>>] = "whole"

\* "Release a quarantined artifact by SHA-256 (copies back to original path)"
\* (src/src/cli.rs:356): the command finds an artifact the proxy holds.
OperatorCanRelease ==
  reply.cmd = "release" /\ reply.result = "not found" => ~reply.stillHeld
=============================================================================
