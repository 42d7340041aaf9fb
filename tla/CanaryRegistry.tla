---------------------------- MODULE CanaryRegistry ----------------------------
(***************************************************************************)
(* Layer 0: the canary registry (src/src/canary.rs), its two mutexes and   *)
(* the decoy files, with threads that plant, register, check and unplant.  *)
(* The list and the path set have a lock each; a step holds what the code  *)
(* holds, and the file system is shared with the user.                     *)
(***************************************************************************)
EXTENDS Naturals, FiniteSets

CONSTANTS Threads,  \* threads that share a registry
          Paths     \* the default decoys' paths

VARIABLES
  files,     \* what is at each path
  canaries,  \* the registered canaries
  paths,     \* the paths looked up first
  mine,      \* history: decoys it wrote that are there and no unplant_all let go of
  thread     \* per thread: the operation it is in

vars == <<files, canaries, paths, mine, thread>>

Canary == [path: Paths, planted: BOOLEAN]
Idle == [pc |-> "idle"]

Init ==
  /\ files \in [Paths -> {"none", "user"}]
  /\ canaries = {} /\ paths = {} /\ mine = {}
  /\ thread = [t \in Threads |-> Idle]

Goto(t, next) == thread' = [thread EXCEPT ![t] = next]

\* A slip the checks must notice: unplant_all lets go of the list before the paths.
CanariesFree_Early == TRUE

\* A slip the checks must notice: planting keeps the list's lock for the paths.
CanariesFree_PlantKeeps == \A t \in Threads : thread[t].pc \notin {"unplant", "insert"}

\* unplant_all keeps the list's lock to its end, check the paths' lock.
CanariesFree == \A t \in Threads : thread[t].pc # "unplant"
PathsFree == \A t \in Threads : thread[t].pc # "check"

-------------------------------------------------------------------------------
(* plant_defaults: path by path, the first error ends it.                  *)

Plant(t) ==
  /\ thread[t] = Idle
  /\ Goto(t, [pc |-> "plant", todo |-> Paths])
  /\ UNCHANGED <<files, canaries, paths, mine>>

\* "Don't overwrite existing files": what is there is looked at, and skipped.
PlantLook(t) ==
  /\ thread[t].pc = "plant"
  /\ IF thread[t].todo = {} THEN Goto(t, Idle)
     ELSE \E p \in thread[t].todo :
            LET todo == thread[t].todo \ {p} IN
            Goto(t, IF files[p] # "none" THEN [pc |-> "plant", todo |-> todo]
                    ELSE [pc |-> "write", path |-> p, planted |-> TRUE, todo |-> todo])
  /\ UNCHANGED <<files, canaries, paths, mine>>

\* The write replaces what came to be there since.
PlantWrite(t) ==
  /\ thread[t].pc = "write"
  /\ files' = [files EXCEPT ![thread[t].path] = "decoy"]
  /\ mine' = mine \cup {thread[t].path}
  /\ Goto(t, [thread[t] EXCEPT !.pc = "push"])
  /\ UNCHANGED <<canaries, paths>>

\* An error ends it; a write that fails midway leaves what it wrote, and no canary.
PlantError(t) ==
  /\ thread[t].pc = "write"
  /\ files' \in {files, [files EXCEPT ![thread[t].path] = "decoy"]}
  /\ Goto(t, Idle)
  /\ UNCHANGED <<canaries, paths, mine>>

Push(t) ==
  /\ thread[t].pc = "push" /\ CanariesFree
  /\ canaries' = canaries \cup {[path |-> thread[t].path, planted |-> thread[t].planted]}
  /\ Goto(t, [thread[t] EXCEPT !.pc = "insert"])
  /\ UNCHANGED <<files, paths, mine>>

Insert(t) ==
  /\ thread[t].pc = "insert" /\ PathsFree
  /\ paths' = paths \cup {thread[t].path}
  /\ Goto(t, [pc |-> "plant", todo |-> thread[t].todo])
  /\ UNCHANGED <<files, canaries, mine>>

\* register: the same two steps for a file that is the caller's.
Register(t) ==
  /\ thread[t] = Idle
  /\ \E p \in Paths :
       /\ files[p] = "user"
       /\ Goto(t, [pc |-> "push", path |-> p, planted |-> FALSE, todo |-> {}])
  /\ UNCHANGED <<files, canaries, paths, mine>>

-------------------------------------------------------------------------------
(* unplant_all and check take the two locks in opposite orders.            *)

\* The list's lock is taken, the planted files are removed, the list is cleared.
\* "let _ =": a file that cannot be removed stays, and is forgotten with the others.
Unplant(t) ==
  LET planted == {c.path : c \in {d \in canaries : d.planted}} IN
  /\ thread[t] = Idle /\ CanariesFree
  /\ \E removed \in SUBSET planted :
       files' = [p \in Paths |-> IF p \in removed THEN "none" ELSE files[p]]
  /\ mine' = mine \ planted
  /\ canaries' = {}
  /\ Goto(t, [pc |-> "unplant"])
  /\ UNCHANGED paths

UnplantPaths(t) ==
  /\ thread[t].pc = "unplant" /\ PathsFree
  /\ paths' = {}
  /\ Goto(t, Idle)
  /\ UNCHANGED <<files, canaries, mine>>

\* The paths' lock is taken; a target that matches none is answered at once.
Check(t) ==
  /\ thread[t] = Idle /\ PathsFree
  /\ paths # {} /\ Goto(t, [pc |-> "check"])
  /\ UNCHANGED <<files, canaries, paths, mine>>

\* What check answers for a target of a path: the path, and a canary that has it.
Trips(p) == p \in paths /\ \E c \in canaries : c.path = p

\* A path that matches is looked up in the list.
CheckList(t) ==
  /\ thread[t].pc = "check" /\ CanariesFree
  /\ Goto(t, Idle)
  /\ UNCHANGED <<files, canaries, paths, mine>>

\* Every `sr canary` command has a registry of its own.
NewCommand ==
  /\ canaries' = {} /\ paths' = {} /\ mine' = {}
  /\ thread' = [t \in Threads |-> Idle]
  /\ UNCHANGED files

\* The user puts a file of his own there, over a decoy if there is one.
UserFile(p) ==
  /\ files[p] # "user" /\ files' = [files EXCEPT ![p] = "user"]
  /\ mine' = mine \ {p}
  /\ UNCHANGED <<canaries, paths, thread>>

Operation(t) ==
  \/ Plant(t) \/ PlantLook(t) \/ PlantWrite(t) \/ PlantError(t) \/ Push(t) \/ Insert(t)
  \/ Register(t) \/ Unplant(t) \/ UnplantPaths(t) \/ Check(t) \/ CheckList(t)

Next == NewCommand \/ (\E t \in Threads : Operation(t)) \/ (\E p \in Paths : UserFile(p))

Spec == Init /\ [][Next]_vars

-------------------------------------------------------------------------------
Planting(p) == \E t \in Threads : thread[t].pc \in {"push", "insert"} /\ thread[t].path = p

\* Type correctness of the files, the registry and the threads.
TypeOK ==
  /\ files \in [Paths -> {"none", "user", "decoy"}]
  /\ canaries \subseteq Canary /\ paths \subseteq Paths
  /\ mine \subseteq {p \in Paths : files[p] = "decoy"}
  /\ \A t \in Threads :
       \/ thread[t].pc \in {"idle", "unplant", "check"}
       \/ thread[t].pc = "plant" /\ thread[t].todo \subseteq Paths
       \/ thread[t] \in [pc: {"write", "push", "insert"}, path: Paths, planted: BOOLEAN,
                        todo: SUBSET Paths]

\* "Any tool_use whose primary_target resolves to a canary path triggers CanaryHit"
\* (src/src/canary.rs:29-30): a decoy this registry wrote trips a check from the end
\* of its planting to the unplant_all that lets go of it, however threads that plant,
\* register and unplant overlap, though the list and the paths are changed under two
\* locks.  A decoy that an unplant_all forgot and failed to remove is not one of them
\* (src/src/canary.rs:178-181): it stays on the disk, no check trips on it, and the
\* next plant_defaults skips it as a file of the user's.
DecoysTrip == \A p \in mine : Planting(p) \/ Trips(p)

Blocked(t) ==
  \/ thread[t].pc = "push" /\ ~CanariesFree
  \/ thread[t].pc = "insert" /\ ~PathsFree
  \/ thread[t].pc = "unplant" /\ ~PathsFree
  \/ thread[t].pc = "check" /\ ~CanariesFree

\* Threads wait for each other for ever only as a check against an unplant_all
\* (src/src/canary.rs:140 and 175), which no command runs together: nothing else
\* that holds a lock ever waits, however many plant and register.
OnlyCheckAgainstUnplant ==
  (\E t \in Threads : Blocked(t)) /\ (\A t \in Threads : thread[t] = Idle \/ Blocked(t))
    => \E t, u \in Threads : thread[t].pc = "check" /\ thread[u].pc = "unplant"
=============================================================================
