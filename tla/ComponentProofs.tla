--------------------------- MODULE ComponentProofs ---------------------------
(***************************************************************************)
(* Proofs of what the components promise, each over the behaviours in      *)
(* which it runs, for every set of threads, files, rules and sessions and  *)
(* every bound.                                                            *)
(***************************************************************************)
EXTENDS Components, FiniteSetTheorems, SequenceTheorems, WellFoundedInduction, TLAPS

-------------------------------------------------------------------------------
(* A behaviour is one component's.                                         *)

\* The components stay out of each other's variables, and the one that runs is
\* the same throughout.
LEMMA OneRuns ==
  ASSUME [NextAll]_allVars
  PROVE  /\ component' = component
         /\ component = "matrix" => [Matrix!Next]_in
         /\ component = "judge" => [Judge!Next]_subject
         /\ component = "graph" => [Graph!Next]_graphVars
         /\ component = "arbiter" => [Arbiter!Next]_arbiterVars
         /\ component = "store" => [Next]_vars
         /\ component = "rules" => [Rules!Next]_ruleVars
         /\ component = "canaries" => [Canaries!Next]_canaryVars
         /\ component = "sends" => [Sends!Next]_sendVars
         /\ component = "bundle" => [Publish!Bundle]_publishVars
         /\ component = "registry" => [Publish!Registry]_publishVars
         /\ component = "feed" => [Publish!Install]_publishVars
         /\ component = "monitor" => [Watch!Watch]_watchVars
         /\ component = "sentinel" => [Watch!Round]_watchVars
BY DEF NextAll, allVars, Pure, GraphRuns, ArbiterRuns, StoreRuns, RulesRun, CanariesRun, SendsRun,
       PublishRuns, WatchRuns, pure, graphVars, arbiterVars, ruleVars, canaryVars, sendVars,
       publishVars, watchVars

-------------------------------------------------------------------------------
(* The canary registry.                                                    *)

\* A planting that has written its decoy and is about to list it.
PushPlanted(p) ==
  \E t \in Processes : /\ canaryThread[t].pc = "push" /\ canaryThread[t].path = p
                       /\ canaryThread[t].planted
OnToPaths(p) == \E t \in Processes : canaryThread[t].pc = "insert" /\ canaryThread[t].path = p
ListedPlanted(p) == \E c \in canaries : c.path = p /\ c.planted

\* A thread in the middle of listing a path.
Lister == [pc: {"write", "push", "insert"}, path: DecoyPaths, planted: BOOLEAN,
           todo: SUBSET DecoyPaths]
Fits(at) == /\ at.pc \in {"write", "push", "insert"} => at \in Lister
            /\ at.pc = "write" => at.planted = TRUE
            /\ at.pc = "plant" => at.todo \subseteq DecoyPaths

\* What makes DecoysTrip inductive: only plantings write, a decoy is on its way to
\* the list, or in the list and on its way to the paths, and while an unplant_all
\* holds the list it is empty.
DecoyInv ==
  /\ DOMAIN canaryThread = Processes
  /\ \A t \in Processes : Fits(canaryThread[t])
  /\ \A p \in mine : PushPlanted(p) \/ (ListedPlanted(p) /\ (p \in paths \/ OnToPaths(p)))
  /\ (\E t \in Processes : canaryThread[t].pc = "unplant") => canaries = {}

\* A registry begins with nothing planted.
LEMMA DecoysInitially ==
  ASSUME InitAll
  PROVE  DecoyInv
BY DEF InitAll, Canaries!Init, DecoyInv, Canaries!Idle, Fits

\* A thread that is not about to push or insert, nor is afterwards, leaves what is
\* on its way alone.
LEMMA OthersOnTheWay ==
  ASSUME NEW t \in Processes, NEW next, NEW p,
         DOMAIN canaryThread = Processes,
         canaryThread' = [canaryThread EXCEPT ![t] = next],
         canaryThread[t].pc \notin {"push", "insert"}
  PROVE  /\ PushPlanted(p) => PushPlanted(p)'
         /\ OnToPaths(p) => OnToPaths(p)'
BY DEF PushPlanted, OnToPaths

\* A step of a thread that changes no list and was not about to.
LEMMA QuietStep ==
  ASSUME DecoyInv, NEW t \in Processes, NEW next,
         canaryThread' = [canaryThread EXCEPT ![t] = next],
         UNCHANGED <<canaries, paths, mine>>,
         canaryThread[t].pc \notin {"push", "insert"},
         Fits(next), next.pc # "unplant"
  PROVE  DecoyInv'
<1>1. DOMAIN canaryThread' = Processes
  BY DEF DecoyInv
<1>2. \A u \in Processes : canaryThread'[u] = IF u = t THEN next ELSE canaryThread[u]
  BY DEF DecoyInv
<1>3. \A p : (PushPlanted(p) => PushPlanted(p)') /\ (OnToPaths(p) => OnToPaths(p)')
  BY OthersOnTheWay DEF DecoyInv
<1>4. \A p : ListedPlanted(p)' = ListedPlanted(p)
  BY DEF ListedPlanted
<1> QED
  BY <1>1, <1>2, <1>3, <1>4 DEF DecoyInv

\* Each operation keeps what is planted listed, or on its way to be.
LEMMA DecoyStep ==
  ASSUME DecoyInv, Canaries!Next
  PROVE  DecoyInv'
<1>1. CASE Canaries!NewCommand
  BY <1>1 DEF Canaries!NewCommand, DecoyInv, Canaries!Idle, Fits
<1>2. ASSUME NEW p \in DecoyPaths, Canaries!UserFile(p)
      PROVE  DecoyInv'
  BY <1>2 DEF Canaries!UserFile, DecoyInv, PushPlanted, OnToPaths, ListedPlanted
<1>3. ASSUME NEW t \in Processes, Canaries!Operation(t)
      PROVE  DecoyInv'
  <2> DEFINE it == canaryThread[t]
  <2> USE DEF Canaries!Goto, Canaries!Idle
  <2>0. DOMAIN canaryThread = Processes /\ Fits(it)
    BY DEF DecoyInv
  <2>00. ASSUME canaryThread' = [canaryThread EXCEPT ![t] = Canaries!Idle],
                UNCHANGED <<canaries, paths, mine>>, it.pc \notin {"push", "insert"}
         PROVE  DecoyInv'
    <3>1. Canaries!Idle.pc = "idle"
      OBVIOUS
    <3>2. Fits(Canaries!Idle)
      BY <3>1 DEF Fits
    <3> QED
      BY <2>00, <3>1, <3>2, QuietStep
  <2>1. CASE Canaries!Plant(t)
    <3> DEFINE next == [pc |-> "plant", todo |-> DecoyPaths]
    <3>1. it.pc = "idle" /\ next.pc = "plant"
      BY <2>1 DEF Canaries!Plant
    <3>2. Fits(next)
      BY <3>1 DEF Fits
    <3> QED
      BY <2>1, <3>1, <3>2, QuietStep DEF Canaries!Plant
  <2>2. CASE Canaries!PlantLook(t)
    <3>1. it.pc = "plant" /\ UNCHANGED <<canaries, paths, mine>>
      BY <2>2 DEF Canaries!PlantLook
    <3>2. it.todo \subseteq DecoyPaths
      BY <2>0, <3>1 DEF Fits
    <3>3. CASE it.todo = {}
      BY <2>00, <2>2, <3>1, <3>3 DEF Canaries!PlantLook
    <3>4. CASE it.todo # {}
      <4>1. PICK p \in it.todo :
              canaryThread' = [canaryThread EXCEPT ![t] =
                IF files[p] # "none" THEN [pc |-> "plant", todo |-> it.todo \ {p}]
                ELSE [pc |-> "write", path |-> p, planted |-> TRUE, todo |-> it.todo \ {p}]]
        BY <2>2, <3>4 DEF Canaries!PlantLook
      <4> DEFINE skip == [pc |-> "plant", todo |-> it.todo \ {p}]
                 look == [pc |-> "write", path |-> p, planted |-> TRUE, todo |-> it.todo \ {p}]
      <4>2. Fits(skip) /\ skip.pc # "unplant"
        BY <3>2 DEF Fits
      <4>3. Fits(look) /\ look.pc # "unplant"
        BY <3>2 DEF Fits, Lister
      <4> HIDE DEF skip, look
      <4>4. CASE files[p] # "none"
        <5>1. canaryThread' = [canaryThread EXCEPT ![t] = skip]
          BY <4>1, <4>4 DEF skip
        <5> QED
          BY <3>1, <4>2, <5>1, QuietStep
      <4>5. CASE files[p] = "none"
        <5>1. canaryThread' = [canaryThread EXCEPT ![t] = look]
          BY <4>1, <4>5 DEF look
        <5> QED
          BY <3>1, <4>3, <5>1, QuietStep
      <4> QED
        BY <4>4, <4>5
    <3> QED
      BY <3>3, <3>4
  <2>3. CASE Canaries!PlantWrite(t)
    <3> DEFINE next == [it EXCEPT !.pc = "push"]
    <3>1. it.pc = "write" /\ it \in Lister /\ it.planted = TRUE
      BY <2>0, <2>3 DEF Canaries!PlantWrite, Fits
    <3>2. canaryThread' = [canaryThread EXCEPT ![t] = next] /\ mine' = mine \cup {it.path}
      BY <2>3 DEF Canaries!PlantWrite
    <3>3. /\ canaryThread'[t].pc = "push" /\ canaryThread'[t].path = it.path
          /\ canaryThread'[t].planted = TRUE /\ canaryThread'[t] \in Lister
      <4>1. canaryThread'[t] = next
        BY <2>0, <3>2
      <4> QED
        BY <3>1, <4>1 DEF Lister
    <3>4. PushPlanted(it.path)'
      BY <3>1, <3>3 DEF PushPlanted
    <3>5. \A p : (PushPlanted(p) => PushPlanted(p)') /\ (OnToPaths(p) => OnToPaths(p)')
      BY <2>0, <3>1, <3>2, OthersOnTheWay
    <3>6. \A p \in mine' : p \in mine \/ p = it.path
      BY <3>2
    <3>7. UNCHANGED <<canaries, paths>> /\ \A p : ListedPlanted(p) => ListedPlanted(p)'
      BY <2>3 DEF Canaries!PlantWrite, ListedPlanted
    <3>8. \A u \in Processes : Fits(canaryThread'[u]) /\ (u # t => canaryThread'[u] = canaryThread[u])
      BY <2>0, <3>2, <3>3 DEF DecoyInv, Fits
    <3>9. DOMAIN canaryThread' = Processes
      BY <2>0, <3>2
    <3>10. \A p \in mine' : PushPlanted(p)' \/ (ListedPlanted(p)' /\ (p \in paths' \/ OnToPaths(p)'))
      BY <3>3, <3>4, <3>5, <3>6, <3>7 DEF DecoyInv
    <3>11. (\E u \in Processes : canaryThread'[u].pc = "unplant") => canaries' = {}
      BY <3>3, <3>7, <3>8 DEF DecoyInv
    <3> QED
      BY <3>8, <3>9, <3>10, <3>11 DEF DecoyInv
  <2>4. CASE Canaries!PlantError(t)
    BY <2>00, <2>4 DEF Canaries!PlantError
  <2>5. CASE Canaries!Push(t)
    <3> DEFINE new == [path |-> it.path, planted |-> it.planted]
    <3>1. /\ it.pc = "push" /\ canaries' = canaries \cup {new} /\ UNCHANGED <<paths, mine>>
          /\ canaryThread' = [canaryThread EXCEPT ![t] = [it EXCEPT !.pc = "insert"]]
          /\ \A u \in Processes : canaryThread[u].pc # "unplant"
      BY <2>5 DEF Canaries!Push, Canaries!CanariesFree
    <3>0. it \in Lister
      BY <2>0, <3>1 DEF Fits
    <3>2. /\ canaryThread'[t].pc = "insert" /\ canaryThread'[t].path = it.path
          /\ canaryThread'[t] \in Lister
      <4>1. canaryThread'[t] = [it EXCEPT !.pc = "insert"]
        BY <2>0, <3>1
      <4> QED
        BY <3>0, <4>1 DEF Lister
    <3>3. \A u \in Processes : u # t => canaryThread'[u] = canaryThread[u]
      BY <2>0, <3>1
    <3>4. \A p : ListedPlanted(p) => ListedPlanted(p)'
      BY <3>1 DEF ListedPlanted
    <3>5. it.planted => ListedPlanted(it.path)'
      <4>1. SUFFICES ASSUME it.planted = TRUE
                     PROVE  ListedPlanted(it.path)'
        BY <3>0 DEF Lister
      <4>2. new \in canaries' /\ new.path = it.path /\ new.planted = TRUE
        BY <3>1, <4>1
      <4> HIDE DEF new
      <4> QED
        BY <3>2, <4>2 DEF ListedPlanted
    <3>6. OnToPaths(it.path)'
      BY <3>2 DEF OnToPaths
    <3>7. ASSUME NEW p, OnToPaths(p)
          PROVE  OnToPaths(p)'
      BY <3>1, <3>3, <3>7 DEF OnToPaths
    <3>8. ASSUME NEW p, PushPlanted(p)
          PROVE  PushPlanted(p)' \/ (p = it.path /\ it.planted)
      BY <3>1, <3>3, <3>8 DEF PushPlanted
    <3>9. \A p \in mine' : PushPlanted(p)' \/ (ListedPlanted(p)' /\ (p \in paths' \/ OnToPaths(p)'))
      BY <3>1, <3>4, <3>5, <3>6, <3>7, <3>8 DEF DecoyInv
    <3>10. \A u \in Processes : canaryThread'[u].pc # "unplant"
      BY <3>1, <3>2, <3>3
    <3>11. \A u \in Processes : Fits(canaryThread'[u])
      BY <3>2, <3>3 DEF DecoyInv, Fits
    <3>12. DOMAIN canaryThread' = Processes
      BY <2>0, <3>1
    <3> QED
      BY <3>9, <3>10, <3>11, <3>12 DEF DecoyInv
  <2>6. CASE Canaries!Insert(t)
    <3>1. /\ it.pc = "insert" /\ paths' = paths \cup {it.path} /\ UNCHANGED <<canaries, mine>>
          /\ canaryThread' = [canaryThread EXCEPT ![t] = [pc |-> "plant", todo |-> it.todo]]
      BY <2>6 DEF Canaries!Insert
    <3>0. it \in Lister
      BY <2>0, <3>1 DEF Fits
    <3>2. canaryThread'[t].pc = "plant" /\ Fits(canaryThread'[t])
      <4>1. canaryThread'[t] = [pc |-> "plant", todo |-> it.todo]
        BY <2>0, <3>1
      <4> QED
        BY <3>0, <4>1 DEF Lister, Fits
    <3>3. \A u \in Processes : u # t => canaryThread'[u] = canaryThread[u]
      BY <2>0, <3>1
    <3>4. \A p : PushPlanted(p) => PushPlanted(p)'
      BY <3>1, <3>3 DEF PushPlanted
    <3>5. \A p : p \in paths \/ OnToPaths(p) => p \in paths' \/ OnToPaths(p)'
      BY <3>1, <3>3 DEF OnToPaths
    <3>6. \A p : ListedPlanted(p)' = ListedPlanted(p)
      BY <3>1 DEF ListedPlanted
    <3>7. DOMAIN canaryThread' = Processes
      BY <2>0, <3>1
    <3> QED
      BY <3>1, <3>2, <3>3, <3>4, <3>5, <3>6, <3>7 DEF DecoyInv
  <2>7. CASE Canaries!Register(t)
    <3>1. PICK p \in DecoyPaths :
            canaryThread' = [canaryThread EXCEPT
              ![t] = [pc |-> "push", path |-> p, planted |-> FALSE, todo |-> {}]]
      BY <2>7 DEF Canaries!Register
    <3>2. it.pc = "idle" /\ UNCHANGED <<canaries, paths, mine>>
      BY <2>7 DEF Canaries!Register
    <3> DEFINE next == [pc |-> "push", path |-> p, planted |-> FALSE, todo |-> {}]
    <3>3. Fits(next) /\ next.pc # "unplant"
      BY DEF Fits, Lister
    <3> HIDE DEF next
    <3>4. canaryThread' = [canaryThread EXCEPT ![t] = next]
      BY <3>1 DEF next
    <3> QED
      BY <3>2, <3>3, <3>4, QuietStep
  <2>8. CASE Canaries!Unplant(t)
    <3>1. /\ it.pc = "idle" /\ canaries' = {}
          /\ mine' = mine \ {c.path : c \in {d \in canaries : d.planted}}
          /\ canaryThread' = [canaryThread EXCEPT ![t] = [pc |-> "unplant"]]
      BY <2>8 DEF Canaries!Unplant
    <3>2. \A p : PushPlanted(p) => PushPlanted(p)'
      BY <2>0, <3>1, OthersOnTheWay
    <3>3. \A p \in mine' : p \in mine /\ ~ListedPlanted(p)
      BY <3>1 DEF ListedPlanted
    <3>4. \A p \in mine' : PushPlanted(p)'
      BY <3>2, <3>3 DEF DecoyInv
    <3>5. \A u \in Processes : Fits(canaryThread'[u])
      BY <2>0, <3>1 DEF DecoyInv, Fits
    <3>6. DOMAIN canaryThread' = Processes
      BY <2>0, <3>1
    <3> QED
      BY <3>1, <3>4, <3>5, <3>6 DEF DecoyInv
  <2>9. CASE Canaries!UnplantPaths(t)
    <3>1. /\ it.pc = "unplant" /\ UNCHANGED <<canaries, mine>>
          /\ canaryThread' = [canaryThread EXCEPT ![t] = [pc |-> "idle"]]
      BY <2>9 DEF Canaries!UnplantPaths
    <3>2. \A p : PushPlanted(p) => PushPlanted(p)'
      BY <2>0, <3>1, OthersOnTheWay
    <3>3. canaries = {} /\ canaries' = {}
      BY <3>1 DEF DecoyInv
    <3>4. \A p \in mine' : PushPlanted(p)'
      BY <3>1, <3>2, <3>3 DEF DecoyInv, ListedPlanted
    <3>5. \A u \in Processes : Fits(canaryThread'[u])
      BY <2>0, <3>1 DEF DecoyInv, Fits
    <3>6. DOMAIN canaryThread' = Processes
      BY <2>0, <3>1
    <3> QED
      BY <3>3, <3>4, <3>5, <3>6 DEF DecoyInv
  <2>10. CASE Canaries!Check(t)
    <3> DEFINE next == [pc |-> "check"]
    <3>1. it.pc = "idle" /\ UNCHANGED <<canaries, paths, mine>>
      BY <2>10 DEF Canaries!Check
    <3>2. Fits(next) /\ next.pc # "unplant"
      BY DEF Fits
    <3>3. canaryThread' = [canaryThread EXCEPT ![t] = next]
      BY <2>10 DEF Canaries!Check
    <3> HIDE DEF next
    <3> QED
      BY <3>1, <3>2, <3>3, QuietStep
  <2>11. CASE Canaries!CheckList(t)
    BY <2>00, <2>11 DEF Canaries!CheckList
  <2> QED
    BY <1>3, <2>1, <2>2, <2>3, <2>4, <2>5, <2>6, <2>7, <2>8, <2>9, <2>10, <2>11
       DEF Canaries!Operation
<1> QED
  BY <1>1, <1>2, <1>3 DEF Canaries!Next

\* So DecoyInv holds while the registry runs.
LEMMA DecoySafety == SpecAll => [](component = "canaries" => DecoyInv)
<1>1. InitAll => (component = "canaries" => DecoyInv)
  BY DecoysInitially
<1>2. (component = "canaries" => DecoyInv) /\ [NextAll]_allVars
        => (component = "canaries" => DecoyInv)'
  <2> SUFFICES ASSUME component = "canaries" => DecoyInv, [NextAll]_allVars,
                      component' = "canaries"
               PROVE  DecoyInv'
    OBVIOUS
  <2>1. component = "canaries" /\ [Canaries!Next]_canaryVars
    BY OneRuns
  <2>2. CASE UNCHANGED canaryVars
    BY <2>1, <2>2 DEF canaryVars, DecoyInv, PushPlanted, OnToPaths, ListedPlanted
  <2> QED
    BY <2>1, <2>2, DecoyStep
<1> QED
  BY <1>1, <1>2, PTL DEF SpecAll

\* A decoy that the registry wrote trips a check from the end of its planting to the
\* unplant_all that lets go of it, whether that one manages to remove it or not
\* (src/src/canary.rs:29-30, 173-185), for every set of threads and paths: until then
\* the list and the paths, changed under two locks, agree about it.
THEOREM DecoysAlwaysTrip == SpecAll => []DecoysTrip
<1>1. (component = "canaries" => DecoyInv) => DecoysTrip
  BY DEF DecoyInv, DecoysTrip, Canaries!DecoysTrip, Canaries!Planting, Canaries!Trips,
         PushPlanted, OnToPaths, ListedPlanted
<1> QED
  BY <1>1, DecoySafety, PTL

\* When some thread waits for a lock and nobody can go on, a check and an unplant_all
\* are among those who wait (src/src/canary.rs:140, 175), for every set of threads:
\* no other operations of the registry lock each other out.
THEOREM DeadlockOnlyThere == SpecAll => []OnlyCheckAgainstUnplant
<1>1. OnlyCheckAgainstUnplant
  <2> SUFFICES ASSUME NEW t \in Processes, Canaries!Blocked(t),
                      \A u \in Processes :
                        canaryThread[u] = Canaries!Idle \/ Canaries!Blocked(u)
               PROVE  \E u, v \in Processes :
                        canaryThread[u].pc = "check" /\ canaryThread[v].pc = "unplant"
    BY DEF OnlyCheckAgainstUnplant, Canaries!OnlyCheckAgainstUnplant
  <2>1. \A u \in Processes : canaryThread[u].pc \in {"check", "unplant"} => Canaries!Blocked(u)
    BY DEF Canaries!Idle
  <2> QED
    BY <2>1 DEF Canaries!Blocked, Canaries!CanariesFree, Canaries!PathsFree
<1> QED
  BY <1>1, PTL

-------------------------------------------------------------------------------
(* The rule registry.                                                      *)

\* A bounded set of numbers has a greatest one.
LEMMA Greatest ==
  ASSUME NEW S \in SUBSET Nat, S # {}, NEW b \in Nat, \A x \in S : x <= b
  PROVE  \E x \in S : \A y \in S : x >= y
<1> DEFINE T == {n \in Nat : b - n \in S}
<1>1. T # {}
  <2>1. PICK x \in S : TRUE
    OBVIOUS
  <2>2. b - x \in Nat /\ b - (b - x) = x
    OBVIOUS
  <2> QED
    BY <2>1, <2>2
<1>2. PICK n \in T : \A m \in T : n <= m
  <2>1. IsWellFoundedOn(OpToRel(<, Nat), Nat)
    BY NatLessThanWellFounded
  <2>2. T \in SUBSET Nat
    OBVIOUS
  <2> HIDE DEF T
  <2>3. PICK n \in T : \A m \in T : <<m, n>> \notin OpToRel(<, Nat)
    BY <1>1, <2>1, <2>2, WFMin
  <2>4. ASSUME NEW m \in T PROVE n <= m
    <3>1. m \in Nat /\ n \in Nat /\ ~ (m < n)
      BY <2>2, <2>3 DEF OpToRel
    <3> QED
      BY <3>1
  <2> QED
    BY <2>4
<1>3. ASSUME NEW y \in S PROVE b - n >= y
  <2>1. b - y \in Nat /\ b - (b - y) = y
    OBVIOUS
  <2>2. n <= b - y
    BY <1>2, <2>1
  <2> QED
    BY <2>1, <2>2
<1> QED
  BY <1>2, <1>3

\* What Max returns of a bounded set of numbers.
LEMMA MaxOf ==
  ASSUME NEW S \in SUBSET Nat, S # {}, NEW b \in Nat, \A x \in S : x <= b
  PROVE  Rules!Max(S) \in S /\ \A y \in S : Rules!Max(S) >= y
BY Greatest DEF Rules!Max

\* The suppress list agrees with what was asked for, where no reload interfered;
\* and so does the copy each reload under way is about to restore.
Agrees(ids) == \A id \in Rules!RuleIds \ overtaken : id \in ids <=> id \in asked

SuppressInv ==
  /\ DOMAIN ruleThread = Processes
  /\ rules = [compiled |-> rules.compiled, hosts |-> rules.hosts, suppressed |-> rules.suppressed]
  /\ rules.compiled \subseteq Rules!Rule
  /\ Agrees(rules.suppressed)
  /\ \A t \in Processes :
       ruleThread[t].pc = "reload" => /\ ruleThread[t].file \in RuleFiles
                                      /\ Agrees(ruleThread[t].suppressed)

\* At first nothing was suppressed.
LEMMA SuppressInitially ==
  ASSUME InitAll
  PROVE  SuppressInv
BY ComponentsAssumption
   DEF InitAll, Rules!Init, SuppressInv, Agrees, Rules!Compiled, Rules!Idle

\* One rule is tuned: the others agree as before, and it agrees now, unless a
\* reload under way has the old list.
LEMMA TuneStep ==
  ASSUME SuppressInv, NEW t \in Processes, NEW id, NEW ids,
         Rules!Note(id), UNCHANGED ruleThread,
         rules' = [rules EXCEPT !.suppressed = ids],
         id \in ids <=> id \in asked',
         \A other : other # id => /\ other \in ids <=> other \in rules.suppressed
                                  /\ other \in asked' <=> other \in asked
  PROVE  SuppressInv'
<1>1. /\ rules'.suppressed = ids /\ rules'.compiled = rules.compiled
      /\ rules' = [compiled |-> rules'.compiled, hosts |-> rules'.hosts, suppressed |-> ids]
  BY DEF SuppressInv
<1>2. \A other : other # id => (other \in overtaken' <=> other \in overtaken)
  BY DEF Rules!Note
<1>3. Agrees(rules.suppressed)'
  BY <1>1, <1>2 DEF SuppressInv, Agrees, Rules!RuleIds
<1>4. ASSUME NEW u \in Processes, ruleThread[u].pc = "reload"
      PROVE  ruleThread[u].file \in RuleFiles /\ Agrees(ruleThread[u].suppressed)'
  <2>1. id \in overtaken'
    BY <1>4 DEF Rules!Note, Rules!Reloading
  <2> QED
    BY <1>2, <1>4, <2>1 DEF SuppressInv, Agrees, Rules!RuleIds
<1> QED
  BY <1>1, <1>3, <1>4 DEF SuppressInv

\* No reload undoes a suppression.
LEMMA SuppressStep ==
  ASSUME SuppressInv, Rules!Next
  PROVE  SuppressInv'
<1>1. ASSUME NEW t \in Processes, Rules!ReloadBegin(t)
      PROVE  SuppressInv'
  <2>1. PICK f \in RuleFiles :
          ruleThread' = [ruleThread EXCEPT
            ![t] = [pc |-> "reload", file |-> f, suppressed |-> rules.suppressed]]
    BY <1>1 DEF Rules!ReloadBegin, Rules!CopySuppressed
  <2>2. UNCHANGED <<rules, asked, overtaken>>
    BY <1>1 DEF Rules!ReloadBegin
  <2> QED
    BY <2>1, <2>2 DEF SuppressInv, Agrees, Rules!RuleIds
<1>2. ASSUME NEW t \in Processes, Rules!ReloadCommit(t)
      PROVE  SuppressInv'
  <2>1. ruleThread[t].file \in RuleFiles /\ Agrees(ruleThread[t].suppressed)
    BY <1>2 DEF Rules!ReloadCommit, SuppressInv
  <2>2. UNCHANGED <<asked, overtaken>> /\ ruleThread' = [ruleThread EXCEPT ![t] = Rules!Idle]
    BY <1>2 DEF Rules!ReloadCommit
  <2>3. /\ rules'.suppressed = ruleThread[t].suppressed
        /\ rules' = [compiled |-> rules'.compiled, hosts |-> rules'.hosts,
                     suppressed |-> rules'.suppressed]
        /\ rules'.compiled = Rules!Compiled(ruleThread[t].file)
    BY <1>2 DEF Rules!ReloadCommit
  <2>4. rules'.compiled \subseteq Rules!Rule
    BY <2>1, <2>3, ComponentsAssumption DEF Rules!Compiled
  <2>5. \A u \in Processes : ruleThread'[u].pc = "reload" => ruleThread'[u] = ruleThread[u]
    BY <2>2 DEF SuppressInv, Rules!Idle
  <2>6. Agrees(rules.suppressed)'
    BY <2>1, <2>2, <2>3 DEF Agrees, Rules!RuleIds
  <2>7. \A u \in Processes :
          ruleThread'[u].pc = "reload" => /\ ruleThread'[u].file \in RuleFiles
                                          /\ Agrees(ruleThread[u].suppressed)'
    BY <2>2, <2>5 DEF SuppressInv, Agrees, Rules!RuleIds
  <2> QED
    BY <2>2, <2>3, <2>4, <2>6, <2>7 DEF SuppressInv
<1>3. ASSUME NEW t \in Processes, NEW id \in Rules!RuleIds, Rules!Suppress(t, id)
      PROVE  SuppressInv'
  BY <1>3, TuneStep DEF Rules!Suppress
<1>4. ASSUME NEW t \in Processes, NEW id \in Rules!RuleIds, Rules!Unsuppress(t, id)
      PROVE  SuppressInv'
  BY <1>4, TuneStep DEF Rules!Unsuppress
<1> QED
  BY <1>1, <1>2, <1>3, <1>4 DEF Rules!Next

\* So a suppression lasts.
LEMMA SuppressSafety == SpecAll => [](component = "rules" => SuppressInv)
<1>1. InitAll => (component = "rules" => SuppressInv)
  BY SuppressInitially
<1>2. (component = "rules" => SuppressInv) /\ [NextAll]_allVars
        => (component = "rules" => SuppressInv)'
  <2> SUFFICES ASSUME component = "rules" => SuppressInv, [NextAll]_allVars,
                      component' = "rules"
               PROVE  SuppressInv'
    OBVIOUS
  <2>1. component = "rules" /\ [Rules!Next]_ruleVars
    BY OneRuns
  <2>2. CASE UNCHANGED ruleVars
    BY <2>1, <2>2 DEF ruleVars, SuppressInv, Agrees, Rules!RuleIds
  <2> QED
    BY <2>1, <2>2, SuppressStep
<1> QED
  BY <1>1, <1>2, PTL DEF SpecAll

\* A scan finds of a text's rules those that are in force and not suppressed last,
\* with the severity of the worst.
LEMMA ScanOfLive ==
  ASSUME SuppressInv, NEW ids \in SUBSET Rules!RuleIds, ids \cap overtaken = {}
  PROVE  LET live == {r \in rules.compiled : r.id \in ids \ asked}
             scanned == Rules!Scan([ids |-> ids, hosts |-> {}])
         IN  /\ scanned.matched = {r.id : r \in live}
             /\ \A r \in live : scanned.severity >= r.severity
             /\ live = {} => Rules!Tier(scanned.severity) = "Info"
<1> DEFINE live == {r \in rules.compiled : r.id \in ids \ asked}
           text == [ids |-> ids, hosts |-> {}]
           hits == {r \in rules.compiled : r.id \in text.ids /\ r.id \notin rules.suppressed}
           hosts == text.hosts \cap rules.hosts
           S == {0} \cup {r.severity : r \in hits} \cup IF hosts = {} THEN {} ELSE {80}
<1>1. text.ids = ids /\ hosts = {}
  OBVIOUS
<1>2. hits = live
  BY <1>1 DEF SuppressInv, Agrees
<1>3. S = {0} \cup {r.severity : r \in live}
  BY <1>1, <1>2
<1>4. \A r \in live : r.severity \in 0 .. MaxSeverity
  BY DEF SuppressInv, Rules!Rule
<1>5. S \in SUBSET Nat /\ 0 \in S /\ \A x \in S : x <= MaxSeverity
  BY <1>3, <1>4, ComponentsAssumption
<1>6. Rules!Max(S) \in S /\ \A y \in S : Rules!Max(S) >= y
  <2> HIDE DEF S
  <2> QED
    BY <1>5, MaxOf, ComponentsAssumption
<1>7. Rules!Scan(text) = [matched |-> {r.id : r \in hits} \cup hosts, severity |-> Rules!Max(S)]
  BY DEF Rules!Scan
<1>8. live = {} => Rules!Tier(Rules!Max(S)) = "Info"
  <2> SUFFICES ASSUME live = {} PROVE Rules!Tier(Rules!Max(S)) = "Info"
    OBVIOUS
  <2>1. Rules!Max(S) = 0
    BY <1>3, <1>6
  <2> QED
    BY <2>1 DEF Rules!Tier
<1> HIDE DEF S
<1>9. /\ Rules!Scan(text).matched = {r.id : r \in live}
      /\ Rules!Scan(text).severity = Rules!Max(S)
  BY <1>1, <1>2, <1>7
<1>10. \A r \in live : r.severity \in S
  BY <1>3
<1> QED
  BY <1>6, <1>8, <1>9, <1>10

\* What was tuned last holds through any number of overlapping reloads of any rule
\* files (src/src/inspect.rs:185): the suppress list is what was asked for, except
\* where a rule was tuned between a reload's two locks, and every scan shows it.
THEOREM SuppressionHolds == SpecAll => []SuppressionKept
<1>1. (component = "rules" => SuppressInv) => SuppressionKept
  BY ScanOfLive DEF SuppressInv, Agrees, SuppressionKept, Rules!SuppressionKept
<1> QED
  BY <1>1, SuppressSafety, PTL

-------------------------------------------------------------------------------
(* Outbound sends of one artifact.                                         *)

\* A session's call.  On its way, its own send and every one it is to find is recorded,
\* was lost, or is too long ago; at its end it has told what it was due to tell.
CallInv(s, call, sessions, seen, gone, now) ==
  /\ call.pc = "readback" =>
       /\ call.at \in Nat /\ call.at <= now /\ s \notin call.others
       /\ sessions # {} => call.at <= seen
       /\ \A x \in call.others \cup {s} : x \in sessions \/ x \in gone \/ now - call.at > SendAge
  /\ call.pc = "ended" /\ call.due /\ call.took <= SendAge => call.told

\* What makes SharedSendAlerts inductive: a record that is to be removed is there, and
\* was too old when it was chosen.
SendInv ==
  /\ DOMAIN sender = Senders /\ sendClock \in Nat
  /\ record \in [sessions: SUBSET Senders, seen: Nat] /\ IsFiniteSet(record.sessions)
  /\ record.seen <= sendClock /\ (record.sessions = {} => record.seen = 0)
  /\ pruner.pc = "remove" => /\ record.sessions # {} /\ pruner.seen \in Nat
                             /\ sendClock - pruner.seen > SendAge
  /\ \A s \in Senders :
       CallInv(s, sender[s], record.sessions, record.seen, lostSends, sendClock)

\* A finite set with two sessions in it has at least two.
LEMMA TwoSessions ==
  ASSUME NEW S, IsFiniteSet(S), NEW s \in S, NEW other \in S, other # s
  PROVE  Sends!Cardinality(S) >= 2
<1>1. Sends!Cardinality(S) = Cardinality(S)
  BY DEF Sends!Cardinality, Cardinality
<1>2. IsFiniteSet({s}) /\ Cardinality({s}) = 1
  BY FS_Singleton
<1>3. IsFiniteSet({s} \cup {other}) /\ Cardinality({s} \cup {other}) = 2
  BY <1>2, FS_AddElement
<1>4. {s} \cup {other} \subseteq S
  OBVIOUS
<1>5. Cardinality({s} \cup {other}) <= Cardinality(S) /\ Cardinality(S) \in Nat
  BY <1>4, FS_Subset, FS_CardinalityType
<1> QED
  BY <1>1, <1>3, <1>5

\* At first nothing was sent.
LEMMA SendsInitially ==
  ASSUME InitAll
  PROVE  SendInv
<1>1. /\ record = [sessions |-> {}, seen |-> 0] /\ sendClock = 0
      /\ sender = [s \in Senders |-> Sends!Idle] /\ pruner = Sends!Idle
  BY DEF InitAll, Sends!Init, Sends!NoRecord
<1>2. Sends!Idle.pc = "idle"
  BY DEF Sends!Idle
<1>3. IsFiniteSet({})
  BY FS_EmptySet
<1> QED
  BY <1>1, <1>2, <1>3 DEF SendInv, CallInv

\* The update of a session: its own send is recorded, and those before are or were lost.
LEMMA UpdateStep ==
  ASSUME SendInv, NEW s \in Senders, Sends!Update(s)
  PROVE  SendInv'
<1> DEFINE call == [pc |-> "readback", others |-> Sends!SentBefore(s), at |-> sendClock]
<1>1. /\ record' = [sessions |-> record.sessions \cup {s}, seen |-> sendClock]
      /\ sender' = [sender EXCEPT ![s] = call]
      /\ lostSends' = lostSends \ {s} /\ UNCHANGED <<sendClock, pruner>>
  BY DEF Sends!Update
<1>2. IsFiniteSet(record.sessions \cup {s})
  BY FS_AddElement DEF SendInv
<1>3. record' \in [sessions: SUBSET Senders, seen: Nat] /\ IsFiniteSet(record'.sessions)
  BY <1>1, <1>2 DEF SendInv
<1>4. record'.sessions = record.sessions \cup {s} /\ record'.seen = sendClock
  BY <1>1
<1>5. CallInv(s, call, record'.sessions, record'.seen, lostSends', sendClock')
  BY <1>1, <1>4 DEF CallInv, SendInv, Sends!SentBefore
<1> HIDE DEF call
<1>6. ASSUME NEW u \in Senders, u # s
      PROVE  CallInv(u, sender[u], record'.sessions, record'.seen, lostSends', sendClock')
  BY <1>1, <1>4 DEF CallInv, SendInv
<1>7. \A u \in Senders : sender'[u] = IF u = s THEN call ELSE sender[u]
  BY <1>1 DEF SendInv
<1>8. \A u \in Senders :
        CallInv(u, sender'[u], record'.sessions, record'.seen, lostSends', sendClock')
  BY <1>5, <1>6, <1>7
<1>9. record'.seen <= sendClock' /\ DOMAIN sender' = Senders /\ sendClock' \in Nat
  BY <1>1, <1>4 DEF SendInv
<1>10. pruner'.pc = "remove" => /\ record'.sessions # {} /\ pruner'.seen \in Nat
                                /\ sendClock' - pruner'.seen > SendAge
  BY <1>1, <1>4 DEF SendInv
<1> QED
  BY <1>3, <1>4, <1>8, <1>9, <1>10 DEF SendInv

\* The removal: it loses what was sent since, or what it takes is too old for any call.
LEMMA RemoveStep ==
  ASSUME SendInv, Sends!Remove
  PROVE  SendInv'
<1>1. /\ record' = [sessions |-> {}, seen |-> 0] /\ pruner' = Sends!Idle
      /\ lostSends' = IF record.seen = pruner.seen THEN {} ELSE lostSends \cup record.sessions
      /\ UNCHANGED <<sendClock, sender>> /\ pruner.pc = "remove"
  BY DEF Sends!Remove, Sends!NoRecord
<1>2. record'.sessions = {} /\ record'.seen = 0 /\ pruner'.pc = "idle"
  BY <1>1 DEF Sends!Idle
<1>3. record' \in [sessions: SUBSET Senders, seen: Nat] /\ IsFiniteSet(record'.sessions)
  BY <1>1, <1>2, FS_EmptySet
<1>4. ASSUME NEW s \in Senders, sender[s].pc = "readback", NEW x \in sender[s].others \cup {s}
      PROVE  x \in lostSends' \/ sendClock - sender[s].at > SendAge
  <2>1. /\ sender[s].at \in Nat /\ sender[s].at <= record.seen
        /\ x \in record.sessions \/ x \in lostSends \/ sendClock - sender[s].at > SendAge
    BY <1>1, <1>4 DEF SendInv, CallInv
  <2>2. CASE record.seen = pruner.seen
    <3>1. sendClock \in Nat /\ pruner.seen \in Nat /\ sendClock - pruner.seen > SendAge
      BY <1>1 DEF SendInv
    <3>2. sendClock - sender[s].at > SendAge
      BY <2>1, <2>2, <3>1, SendAgeAssumption
    <3> QED
      BY <3>2
  <2>3. CASE record.seen # pruner.seen
    BY <1>1, <2>1, <2>3
  <2> QED
    BY <2>2, <2>3
<1>5. \A s \in Senders :
        CallInv(s, sender'[s], record'.sessions, record'.seen, lostSends', sendClock')
  BY <1>1, <1>2, <1>4 DEF SendInv, CallInv
<1>6. record'.seen <= sendClock' /\ DOMAIN sender' = Senders /\ sendClock' \in Nat
  BY <1>1, <1>2 DEF SendInv
<1> QED
  BY <1>2, <1>3, <1>5, <1>6 DEF SendInv

\* The read-back: what is neither lost nor too old is in the record, which makes it two.
LEMMA ReadBackStep ==
  ASSUME SendInv, NEW s \in Senders, Sends!ReadBack(s)
  PROVE  SendInv'
<1> DEFINE told == Sends!Correlated(s, record.sessions)
           took == sendClock - sender[s].at
           due == s \notin lostSends /\ sender[s].others \ lostSends # {}
           call == [pc |-> "ended", told |-> told, took |-> took, due |-> due]
<1>1. /\ UNCHANGED <<record, sendClock, pruner, lostSends>>
      /\ sender[s].pc = "readback" /\ sender' = [sender EXCEPT ![s] = call]
  BY DEF Sends!ReadBack
<1>2. ASSUME due, took <= SendAge
      PROVE  told
  <2>1. PICK x \in sender[s].others : x \notin lostSends
    BY <1>2
  <2>2. ~(sendClock - sender[s].at > SendAge)
    <3>1. sendClock \in Nat /\ sender[s].at \in Nat /\ sendClock - sender[s].at <= SendAge
      BY <1>1, <1>2 DEF SendInv, CallInv
    <3> QED
      BY <3>1, SendAgeAssumption
  <2>3. s \in record.sessions /\ x \in record.sessions /\ x # s
    BY <1>1, <1>2, <2>1, <2>2 DEF SendInv, CallInv
  <2>4. Sends!Cardinality(record.sessions) >= 2
    BY <2>3, TwoSessions DEF SendInv
  <2> QED
    BY <2>3, <2>4 DEF Sends!Correlated
<1>3. call.pc = "ended" /\ (call.due /\ call.took <= SendAge => call.told)
  <2> HIDE DEF told, took, due
  <2> QED
    BY <1>2
<1> HIDE DEF call
<1>4. CallInv(s, call, record.sessions, record.seen, lostSends, sendClock)
  BY <1>3 DEF CallInv
<1>5. \A u \in Senders : sender'[u] = IF u = s THEN call ELSE sender[u]
  BY <1>1 DEF SendInv
<1> QED
  BY <1>1, <1>4, <1>5 DEF SendInv

\* Whatever a session sends, or the pruner drops, keeps the records and the calls in step.
LEMMA SendStep ==
  ASSUME SendInv, Sends!Next
  PROVE  SendInv'
<1>1. CASE Sends!Tick
  <2>1. sendClock' = sendClock + 1 /\ UNCHANGED <<record, sender, pruner, lostSends>>
    BY <1>1 DEF Sends!Tick
  <2>2. \A s \in Senders :
          CallInv(s, sender[s], record.sessions, record.seen, lostSends, sendClock + 1)
    <3> SUFFICES ASSUME NEW s \in Senders
                 PROVE  CallInv(s, sender[s], record.sessions, record.seen, lostSends, sendClock + 1)
      OBVIOUS
    <3>1. CallInv(s, sender[s], record.sessions, record.seen, lostSends, sendClock)
          /\ sendClock \in Nat
      BY DEF SendInv
    <3>2. \A t \in Nat : /\ t <= sendClock => t <= sendClock + 1
                         /\ sendClock - t > SendAge => sendClock + 1 - t > SendAge
      BY <3>1, SendAgeAssumption
    <3> QED
      BY <3>1, <3>2 DEF CallInv
  <2>3. sendClock' \in Nat /\ record.seen <= sendClock + 1
    BY <2>1 DEF SendInv
  <2>4. pruner.pc = "remove" => sendClock + 1 - pruner.seen > SendAge
    BY SendAgeAssumption DEF SendInv
  <2> QED
    BY <2>1, <2>2, <2>3, <2>4 DEF SendInv
<1>2. CASE Sends!Collect
  <2>1. /\ pruner' = [pc |-> "remove", seen |-> record.seen]
        /\ record # Sends!NoRecord /\ sendClock - record.seen > SendAge
        /\ UNCHANGED <<record, sendClock, sender, lostSends>>
    BY <1>2 DEF Sends!Collect
  <2>2. record.sessions # {}
    BY <2>1 DEF SendInv, Sends!NoRecord
  <2> QED
    BY <2>1, <2>2 DEF SendInv
<1>3. ASSUME NEW s \in Senders, Sends!Fail(s)
      PROVE  SendInv'
  <2>1. /\ UNCHANGED <<record, sendClock, pruner, lostSends>>
        /\ sender' = [sender EXCEPT ![s] = Sends!Idle] /\ Sends!Idle.pc = "idle"
    BY <1>3 DEF Sends!Fail, Sends!Idle
  <2>2. CallInv(s, Sends!Idle, record.sessions, record.seen, lostSends, sendClock)
    BY <2>1 DEF CallInv
  <2>3. \A u \in Senders : sender'[u] = IF u = s THEN Sends!Idle ELSE sender[u]
    BY <2>1 DEF SendInv
  <2> QED
    BY <2>1, <2>2, <2>3 DEF SendInv
<1> QED
  BY <1>1, <1>2, <1>3, UpdateStep, RemoveStep, ReadBackStep DEF Sends!Next

\* So the records stay right.
LEMMA SendSafety == SpecAll => [](component = "sends" => SendInv)
<1>1. InitAll => (component = "sends" => SendInv)
  BY SendsInitially
<1>2. (component = "sends" => SendInv) /\ [NextAll]_allVars => (component = "sends" => SendInv)'
  <2> SUFFICES ASSUME component = "sends" => SendInv, [NextAll]_allVars, component' = "sends"
               PROVE  SendInv'
    OBVIOUS
  <2>1. component = "sends" /\ [Sends!Next]_sendVars
    BY OneRuns
  <2>2. CASE UNCHANGED sendVars
    BY <2>1, <2>2 DEF sendVars, SendInv
  <2> QED
    BY <2>1, <2>2, SendStep
<1> QED
  BY <1>1, <1>2, PTL DEF SpecAll

\* A session that sends what another already sent is told so (src/src/correlation.rs:69-70),
\* unless gc took a record that was refreshed since it was chosen, or the record grew too
\* old on the way: for any number of sessions, of calls and of collections, in any order.
THEOREM SharedSendTold == SpecAll => []SharedSendAlerts
<1>1. (component = "sends" => SendInv) => SharedSendAlerts
  BY DEF SendInv, CallInv, SharedSendAlerts, Sends!SharedSendAlerts
<1> QED
  BY <1>1, SendSafety, PTL

-------------------------------------------------------------------------------
(* Certification, the registry and the feed.                               *)

List == [ok: BOOLEAN, hash: [Publish!File -> Publish!Text]]

\* A list that parses is of one certification.
OneRun(list) ==
  /\ list \in List
  /\ list.ok => \E n \in 1 .. MaxRuns : \A f \in Publish!File : list.hash[f] = n

\* A certification under way: what it has written of the three files, and its
\* lists once it has hashed them.
UnderWay(w) ==
  /\ w \in [run: 1 .. MaxRuns, step: 1 .. 5, listed: List]
  /\ w.step > 1 => dir["report"] = w.run
  /\ w.step > 2 => dir["badge"] = w.run
  /\ w.step > 3 => dir["entry"] = w.run
  /\ OneRun(w.listed) /\ w.run = runs

\* What makes VerifiedListIsOneRun inductive, with EntryInv: whatever the files are, no
\* list that parses mixes two certifications, in the directory or as it was read.
DirTyped ==
  /\ DOMAIN dir = Publish!File \cup {"bundle", "sums"}
  /\ \A f \in Publish!File : dir[f] \in Publish!Text

BundleInv ==
  /\ DirTyped
  /\ runs \in Nat
  /\ OneRun(dir["bundle"]) /\ OneRun(dir["sums"])
  /\ DOMAIN writer = {Writer}
  /\ writer[Writer] = Publish!Resting \/ UnderWay(writer[Writer])
  /\ reader \in Seq(Publish!Text \cup List)
  /\ Len(reader) >= 1 => OneRun(reader[1]) /\ reader[1].ok

\* No list is a list of one run, that does not verify.
LEMMA NoListIsOneRun == OneRun(Publish!NoList) /\ Publish!NoList.ok = FALSE
BY ComponentsAssumption DEF OneRun, List, Publish!NoList, Publish!Text, Publish!Missing, Publish!Torn

\* At first there is no bundle.
LEMMA BundleInitially ==
  ASSUME InitAll
  PROVE  BundleInv
<1>1. /\ dir = [f \in Publish!File \cup {"bundle", "sums"} |->
                  IF f \in Publish!File THEN Publish!Missing ELSE Publish!NoList]
      /\ writer = [w \in {Writer} |-> Publish!Resting] /\ runs = 0 /\ reader = <<>>
  BY DEF InitAll, Publish!Init
<1>2. dir["bundle"] = Publish!NoList /\ dir["sums"] = Publish!NoList
  BY <1>1 DEF Publish!File
<1>3. DirTyped
  BY <1>1, ComponentsAssumption DEF DirTyped, Publish!Text, Publish!Missing, Publish!Torn
<1> QED
  BY <1>1, <1>2, <1>3, NoListIsOneRun DEF BundleInv

\* A certification takes a number of its own.
LEMMA CertifyStep ==
  ASSUME BundleInv, Publish!Certify(Writer)
  PROVE  BundleInv'
<1> DEFINE w == [run |-> runs + 1, step |-> 1, listed |-> Publish!NoList]
<1>1. /\ runs < MaxRuns /\ runs' = runs + 1 /\ UNCHANGED <<dir, reader>>
      /\ writer' = [writer EXCEPT ![Writer] = w]
  BY DEF Publish!Certify
<1>2. w.run \in 1 .. MaxRuns /\ w.run = runs' /\ w.step = 1 /\ w.listed = Publish!NoList
  BY <1>1, ComponentsAssumption DEF BundleInv
<1>3. w \in [run: 1 .. MaxRuns, step: 1 .. 5, listed: List]
  BY <1>2, NoListIsOneRun DEF OneRun
<1> HIDE DEF w
<1>5. writer'[Writer] = w /\ DOMAIN writer' = {Writer}
  BY <1>1 DEF BundleInv
<1>6. UnderWay(writer[Writer])'
  BY <1>1, <1>2, <1>3, <1>5, NoListIsOneRun DEF UnderWay
<1> QED
  BY <1>1, <1>5, <1>6 DEF BundleInv, DirTyped

\* The lists a certification writes are its own, however often it is asked.
LEMMA MetadataIsOneRun ==
  ASSUME DirTyped, UnderWay(writer[Writer]), writer[Writer].step > 3
  PROVE  OneRun(Publish!Metadata(Writer))
<1> DEFINE texts == [f \in Publish!File |-> dir[f]]
<1>1. CASE writer[Writer].listed.ok
  BY <1>1 DEF UnderWay, Publish!Metadata
<1>2. CASE ~writer[Writer].listed.ok
  <2>1. Publish!Metadata(Writer) = [ok |-> TRUE, hash |-> texts]
    BY <1>2 DEF Publish!Metadata, Publish!Listing
  <2>2. texts \in [Publish!File -> Publish!Text]
    BY DEF DirTyped
  <2>3. writer[Writer].run \in 1 .. MaxRuns
        /\ \A f \in Publish!File : texts[f] = writer[Writer].run
    BY DEF UnderWay, Publish!File
  <2> HIDE DEF texts
  <2> QED
    BY <2>1, <2>2, <2>3 DEF OneRun, List
<1> QED
  BY <1>1, <1>2

\* A file it writes is of its own run.
LEMMA BundleWriteStep ==
  ASSUME BundleInv, Publish!WriteNext(Writer)
  PROVE  BundleInv'
<1> DEFINE w == writer[Writer]
           f == Publish!Order[w.step]
           listed == IF f \in Publish!File THEN Publish!NoList ELSE Publish!Metadata(Writer)
           next == [w EXCEPT !.step = @ + 1, !.listed = listed]
<1>1. /\ UnderWay(w) /\ UNCHANGED <<runs, reader>>
      /\ dir' = [dir EXCEPT ![f] = IF f \in Publish!File THEN w.run ELSE listed]
      /\ writer' = [writer EXCEPT ![Writer] = IF w.step = 5 THEN Publish!Resting ELSE next]
  <2>1. Len(Publish!Order) = 5
    BY DEF Publish!Order
  <2>2. w # Publish!Resting /\ UnderWay(w)
    BY DEF Publish!WriteNext, BundleInv
  <2>3. /\ UNCHANGED <<runs, reader>>
        /\ dir' = [dir EXCEPT ![f] = IF f \in Publish!File THEN w.run ELSE listed]
        /\ writer' = [writer EXCEPT
                         ![Writer] = IF w.step = Len(Publish!Order) THEN Publish!Resting ELSE next]
    BY DEF Publish!WriteNext
  <2> QED
    BY <2>1, <2>2, <2>3
<1>2. w \in [run: 1 .. MaxRuns, step: 1 .. 5, listed: List] /\ w.run \in Publish!Text
  BY <1>1, ComponentsAssumption DEF UnderWay, Publish!Text, Publish!Missing, Publish!Torn
<1>3. f = CASE w.step = 1 -> "report" [] w.step = 2 -> "badge" [] w.step = 3 -> "entry"
            [] w.step = 4 -> "bundle" [] w.step = 5 -> "sums"
  BY <1>2 DEF Publish!Order
<1>4. OneRun(listed)
  <2>1. CASE f \in Publish!File
    BY <2>1, NoListIsOneRun
  <2>2. CASE f \notin Publish!File
    <3>1. w.step > 3
      BY <1>2, <1>3, <2>2 DEF Publish!File
    <3> QED
      BY <1>1, <2>2, <3>1, MetadataIsOneRun DEF BundleInv
  <2> QED
    BY <2>1, <2>2
<1> HIDE DEF listed, f
<1>5. DirTyped' /\ OneRun(dir["bundle"])' /\ OneRun(dir["sums"])'
  <2>1. f \in DOMAIN dir
    BY <1>2, <1>3 DEF BundleInv, DirTyped, Publish!File
  <2>2. /\ DOMAIN dir' = Publish!File \cup {"bundle", "sums"}
        /\ \A g \in DOMAIN dir :
             dir'[g] = IF g # f THEN dir[g] ELSE IF f \in Publish!File THEN w.run ELSE listed
    BY <1>1, <2>1 DEF BundleInv, DirTyped
  <2>3. \A g \in Publish!File : dir'[g] \in Publish!Text
    BY <1>2, <2>2 DEF BundleInv, DirTyped
  <2>4. \A g \in {"bundle", "sums"} : OneRun(dir'[g])
    <3>1. \A g \in {"bundle", "sums"} : g \in DOMAIN dir /\ g \notin Publish!File /\ OneRun(dir[g])
      BY DEF BundleInv, DirTyped, Publish!File
    <3> QED
      BY <1>4, <2>2, <3>1
  <2>5. OneRun(dir["bundle"])' = OneRun(dir'["bundle"]) /\ OneRun(dir["sums"])' = OneRun(dir'["sums"])
    BY DEF OneRun
  <2> QED
    BY <2>2, <2>3, <2>4, <2>5 DEF DirTyped
<1>6. DOMAIN writer' = {Writer}
  BY <1>1 DEF BundleInv
<1>7. CASE w.step = 5
  BY <1>1, <1>5, <1>6, <1>7 DEF BundleInv
<1>8. CASE w.step # 5
  <2>1. writer'[Writer] = next
    BY <1>1, <1>8 DEF BundleInv
  <2>2. next \in [run: 1 .. MaxRuns, step: 1 .. 5, listed: List]
    <3>1. w.step + 1 \in 1 .. 5 /\ listed \in List
      BY <1>2, <1>4, <1>8 DEF OneRun
    <3> QED
      BY <1>2, <3>1
  <2>3. next.run = w.run /\ next.step = w.step + 1 /\ next.listed = listed
    BY <1>2
  <2> HIDE DEF next
  <2>d. /\ dir'[f] = (IF f \in Publish!File THEN w.run ELSE listed)
        /\ \A g \in Publish!File : g # f => dir'[g] = dir[g]
    <3>1. f \in DOMAIN dir /\ Publish!File \subseteq DOMAIN dir
      BY <1>2, <1>3 DEF BundleInv, DirTyped, Publish!File
    <3> QED
      BY <1>1, <3>1
  <2>w. /\ w.step \in 1 .. 5
        /\ w.step > 1 => dir["report"] = w.run
        /\ w.step > 2 => dir["badge"] = w.run
        /\ w.step > 3 => dir["entry"] = w.run
    BY <1>1, <1>2 DEF UnderWay
  <2>f. /\ (w.step = 1 <=> f = "report") /\ (w.step = 2 <=> f = "badge")
        /\ (w.step = 3 <=> f = "entry")
    BY <1>3, <2>w
  <2>4. next.step > 1 => dir'["report"] = next.run
    BY <2>3, <2>d, <2>f, <2>w DEF Publish!File
  <2>5. next.step > 2 => dir'["badge"] = next.run
    BY <2>3, <2>d, <2>f, <2>w DEF Publish!File
  <2>6. next.step > 3 => dir'["entry"] = next.run
    BY <2>3, <2>d, <2>f, <2>w DEF Publish!File
  <2>7. UnderWay(writer[Writer])'
    <3>1. next.run = runs'
      BY <1>1, <2>3 DEF UnderWay
    <3> QED
      BY <1>4, <2>1, <2>2, <2>3, <2>4, <2>5, <2>6, <3>1 DEF UnderWay
  <2> QED
    BY <1>1, <1>5, <1>6, <2>7 DEF BundleInv
<1> QED
  BY <1>7, <1>8

\* A certification that dies leaves a torn file at worst.
LEMMA DieStep ==
  ASSUME BundleInv, Publish!Die(Writer)
  PROVE  BundleInv'
<1> DEFINE f == Publish!Order[writer[Writer].step]
<1>1. /\ UNCHANGED <<runs, reader>>
      /\ dir' = dir \/ dir' = [dir EXCEPT ![f] = IF f \in Publish!File THEN Publish!Torn
                                                 ELSE Publish!NoList]
      /\ writer' = [writer EXCEPT ![Writer] = Publish!Resting]
  BY DEF Publish!Die
<1>2. writer'[Writer] = Publish!Resting /\ DOMAIN writer' = {Writer}
  BY <1>1 DEF BundleInv
<1>3. Publish!Torn \in Publish!Text
  BY ComponentsAssumption DEF Publish!Torn, Publish!Text, Publish!Missing
<1> HIDE DEF f
<1>4. DirTyped' /\ OneRun(dir["bundle"])' /\ OneRun(dir["sums"])'
  BY <1>1, <1>3, NoListIsOneRun DEF BundleInv, DirTyped, Publish!File, OneRun
<1> QED
  BY <1>1, <1>2, <1>4 DEF BundleInv

\* A reader changes no file.
LEMMA VerifyStep ==
  ASSUME BundleInv, Publish!VerifyBegin \/ Publish!ReadNext
  PROVE  BundleInv'
<1>1. UNCHANGED <<dir, writer, runs>>
  BY DEF Publish!VerifyBegin, Publish!ReadNext
<1>2. ASSUME reader' \in Seq(Publish!Text \cup List),
             Len(reader') >= 1 => OneRun(reader'[1]) /\ reader'[1].ok
      PROVE  BundleInv'
  BY <1>1, <1>2 DEF BundleInv, DirTyped, UnderWay, OneRun
<1>3. CASE reader' = <<>>
  BY <1>2, <1>3
<1>4. CASE reader' # <<>>
  <2> DEFINE f == Publish!Reads[Len(reader) + 1]
  <2>1. /\ Len(reader) \in 0 .. 5 /\ reader' = Append(reader, dir[f])
        /\ f \in {"bundle", "sums"} => dir[f].ok
    <3>1. Len(Publish!Reads) = 6 /\ Len(reader) \in Nat
      BY DEF Publish!Reads, BundleInv
    <3>2. Publish!ReadNext
      BY <1>4 DEF Publish!VerifyBegin
    <3>3. Len(reader) < Len(Publish!Reads)
      BY <3>2 DEF Publish!ReadNext
    <3> DEFINE n == Len(reader)
               m == Len(Publish!Reads)
    <3>4. n \in 0 .. 5
      <4>1. n \in Nat /\ m = 6 /\ n < m
        BY <3>1, <3>3
      <4> HIDE DEF n, m
      <4> QED
        BY <4>1
    <3>5. reader' = IF f \in {"bundle", "sums"} /\ ~dir[f].ok THEN <<>>
                    ELSE Append(reader, dir[f])
      BY <3>2 DEF Publish!ReadNext
    <3> HIDE DEF f
    <3>6. ~(f \in {"bundle", "sums"} /\ ~dir[f].ok)
      BY <1>4, <3>5
    <3> QED
      BY <3>4, <3>5, <3>6
  <2>2. f \in DOMAIN dir /\ (Len(reader) = 0 => f = "bundle")
    <3>1. \A n \in 0 .. 5 : /\ Publish!Reads[n + 1] \in Publish!File \cup {"bundle", "sums"}
                            /\ n = 0 => Publish!Reads[n + 1] = "bundle"
      BY DEF Publish!Reads, Publish!File
    <3>2. f \in Publish!File \cup {"bundle", "sums"} /\ (Len(reader) = 0 => f = "bundle")
      BY <2>1, <3>1
    <3>3. DOMAIN dir = Publish!File \cup {"bundle", "sums"}
      BY DEF BundleInv, DirTyped
    <3> HIDE DEF f
    <3> QED
      BY <3>2, <3>3
  <2> HIDE DEF f
  <2>3. dir[f] \in Publish!Text \cup List
    BY <2>2 DEF BundleInv, DirTyped, OneRun
  <2>4. CASE Len(reader) = 0
    <3>1. reader'[1] = dir[f] /\ OneRun(dir[f]) /\ dir[f].ok
      BY <2>1, <2>2, <2>4 DEF BundleInv
    <3> QED
      BY <1>2, <2>1, <2>3, <3>1 DEF BundleInv
  <2>5. CASE Len(reader) # 0
    <3>1. reader'[1] = reader[1]
      BY <2>1, <2>5 DEF BundleInv
    <3> QED
      BY <1>2, <2>1, <2>3, <2>5, <3>1 DEF BundleInv
  <2> QED
    BY <2>4, <2>5
<1> QED
  BY <1>3, <1>4

\* The entry in the directory, and the ones a verification has read: none is of a run
\* to come, and the one read again is not older than the one that was read first.
EntryInv ==
  /\ dir["entry"] \in 1 .. MaxRuns => dir["entry"] <= runs
  /\ Len(reader) >= 5 /\ reader[5] \in 1 .. MaxRuns
       => reader[5] <= runs /\ reader[5] <= dir["entry"]
  /\ Len(reader) >= 6 /\ reader[5] \in 1 .. MaxRuns => reader[5] <= reader[6]

\* A certification leaves the entry, or writes one of the last run, or a torn one.
LEMMA EntryWritten ==
  ASSUME BundleInv, EntryInv, runs' \in Nat, runs <= runs', UNCHANGED reader,
         \/ dir'["entry"] = dir["entry"]
         \/ dir'["entry"] = runs'
         \/ dir'["entry"] = Publish!Torn
  PROVE  EntryInv'
<1>1. runs \in Nat /\ MaxRuns \in Nat /\ Publish!Torn = MaxRuns + 1
  BY ComponentsAssumption DEF BundleInv, Publish!Torn
<1>2. dir'["entry"] \in 1 .. MaxRuns => dir'["entry"] <= runs'
  BY <1>1 DEF EntryInv
<1>3. ASSUME Len(reader) >= 5, reader[5] \in 1 .. MaxRuns
      PROVE  reader[5] <= runs' /\ reader[5] <= dir'["entry"]
  <2>1. reader[5] <= runs /\ reader[5] <= dir["entry"] /\ reader[5] \in Nat /\ reader[5] <= MaxRuns
    BY <1>1, <1>3 DEF EntryInv
  <2> QED
    BY <1>1, <2>1
<1> QED
  BY <1>2, <1>3 DEF EntryInv

\* A certification's steps.
LEMMA EntryKept ==
  ASSUME BundleInv, EntryInv,
         Publish!Certify(Writer) \/ Publish!WriteNext(Writer) \/ Publish!Die(Writer)
  PROVE  EntryInv'
<1>0. runs \in Nat /\ "entry" \in DOMAIN dir /\ "entry" \in Publish!File
  BY DEF BundleInv, DirTyped, Publish!File
<1>1. CASE Publish!Certify(Writer)
  <2>1. runs' = runs + 1 /\ UNCHANGED <<dir, reader>>
    BY <1>1 DEF Publish!Certify
  <2> QED
    BY <1>0, <2>1, EntryWritten
<1>2. CASE Publish!WriteNext(Writer)
  <2> DEFINE f == Publish!Order[writer[Writer].step]
  <2>1. PICK list : /\ dir' = [dir EXCEPT ![f] = IF f \in Publish!File THEN writer[Writer].run
                                                 ELSE list]
                    /\ UNCHANGED <<runs, reader>>
    BY <1>2 DEF Publish!WriteNext
  <2>2. writer[Writer].run = runs
    BY <1>2 DEF Publish!WriteNext, BundleInv, UnderWay
  <2> HIDE DEF f
  <2>3. dir'["entry"] = dir["entry"] \/ dir'["entry"] = runs'
    BY <1>0, <2>1, <2>2
  <2> QED
    BY <1>0, <2>1, <2>3, EntryWritten
<1>3. CASE Publish!Die(Writer)
  <2> DEFINE f == Publish!Order[writer[Writer].step]
  <2>1. /\ UNCHANGED <<runs, reader>>
        /\ dir' = dir \/ dir' = [dir EXCEPT ![f] = IF f \in Publish!File THEN Publish!Torn
                                                   ELSE Publish!NoList]
    BY <1>3 DEF Publish!Die
  <2> HIDE DEF f
  <2>2. dir'["entry"] = dir["entry"] \/ dir'["entry"] = Publish!Torn
    BY <1>0, <2>1
  <2> QED
    BY <1>0, <2>1, <2>2, EntryWritten
<1> QED
  BY <1>1, <1>2, <1>3

\* A verification's steps.
LEMMA EntryRead ==
  ASSUME BundleInv, EntryInv, Publish!VerifyBegin \/ Publish!ReadNext
  PROVE  EntryInv'
<1>1. UNCHANGED <<dir, runs>> /\ reader \in Seq(Publish!Text \cup List) /\ runs \in Nat
  BY DEF Publish!VerifyBegin, Publish!ReadNext, BundleInv
<1>2. CASE reader' = <<>>
  BY <1>1, <1>2 DEF EntryInv
<1>3. CASE reader' # <<>>
  <2> DEFINE n == Len(reader)
             f == Publish!Reads[n + 1]
  <2>1. Publish!ReadNext
    BY <1>3 DEF Publish!VerifyBegin
  <2>2. Len(Publish!Reads) = 6 /\ n \in Nat
    BY <1>1 DEF Publish!Reads
  <2>3. n < Len(Publish!Reads) /\ reader' = Append(reader, dir[f])
    BY <1>3, <2>1 DEF Publish!ReadNext
  <2>4. n = 4 \/ n = 5 => f = "entry"
    <3>1. Publish!Reads[4 + 1] = "entry" /\ Publish!Reads[5 + 1] = "entry"
      BY DEF Publish!Reads
    <3> QED
      BY <3>1
  <2>5. f \in DOMAIN dir /\ dir[f] \in Publish!Text \cup List
    <3>1. \A k \in 0 .. 5 : Publish!Reads[k + 1] \in Publish!File \cup {"bundle", "sums"}
      BY DEF Publish!Reads, Publish!File
    <3>2. n \in 0 .. 5
      <4>1. n \in Nat /\ n < 6
        BY <2>2, <2>3
      <4> HIDE DEF n
      <4> QED
        BY <4>1
    <3>3. f \in Publish!File \cup {"bundle", "sums"}
      BY <3>1, <3>2
    <3> HIDE DEF f
    <3> QED
      BY <3>3 DEF BundleInv, DirTyped, OneRun
  <2> DEFINE new == dir[f]
  <2>6. new \in Publish!Text \cup List /\ reader' = Append(reader, new)
    BY <2>3, <2>5
  <2>7. n = 4 \/ n = 5 => new = dir["entry"]
    BY <2>4
  <2> HIDE DEF f, new
  <2>8. Len(reader') = n + 1 /\ reader'[n + 1] = new /\ \A k \in 1 .. n : reader'[k] = reader[k]
    BY <1>1, <2>6
  <2> HIDE DEF n
  <2>9. n < 6
    BY <2>2, <2>3
  <2>10. CASE n < 4
    BY <1>1, <2>2, <2>8, <2>10 DEF EntryInv
  <2>11. CASE n = 4
    <3>1. Len(reader') = 5 /\ reader'[5] = dir["entry"]
      BY <2>7, <2>8, <2>11
    <3>2. reader'[5] \in 1 .. MaxRuns => reader'[5] <= runs /\ reader'[5] <= dir["entry"]
      BY <3>1 DEF EntryInv
    <3> QED
      BY <1>1, <3>1, <3>2 DEF EntryInv
  <2>12. CASE n = 5
    <3>1. Len(reader') = 6 /\ reader'[6] = dir["entry"] /\ reader'[5] = reader[5] /\ Len(reader) = 5
      BY <2>7, <2>8, <2>12 DEF n
    <3> QED
      BY <1>1, <3>1 DEF EntryInv
  <2> QED
    BY <2>2, <2>9, <2>10, <2>11, <2>12
<1> QED
  BY <1>2, <1>3

\* So the files stay those of their runs.
LEMMA BundleSafety == SpecAll => [](component = "bundle" => BundleInv /\ EntryInv)
<1>1. InitAll => (component = "bundle" => BundleInv /\ EntryInv)
  <2>1. InitAll => reader = <<>> /\ dir["entry"] = 0
    BY DEF InitAll, Publish!Init, Publish!File, Publish!Missing
  <2>2. InitAll => EntryInv
    BY <2>1 DEF EntryInv
  <2> QED
    BY <2>2, BundleInitially
<1>2. (component = "bundle" => BundleInv /\ EntryInv) /\ [NextAll]_allVars
        => (component = "bundle" => BundleInv /\ EntryInv)'
  <2> SUFFICES ASSUME component = "bundle" => BundleInv /\ EntryInv, [NextAll]_allVars,
                      component' = "bundle"
               PROVE  BundleInv' /\ EntryInv'
    OBVIOUS
  <2>1. component = "bundle" /\ [Publish!Bundle]_publishVars
    BY OneRuns
  <2>2. CASE UNCHANGED publishVars
    BY <2>1, <2>2 DEF publishVars, BundleInv, DirTyped, UnderWay, OneRun, EntryInv
  <2>3. CASE Publish!VerifyBegin \/ Publish!ReadNext
    BY <2>1, <2>3, VerifyStep, EntryRead
  <2>4. CASE Publish!Certify(Writer) \/ Publish!WriteNext(Writer) \/ Publish!Die(Writer)
    BY <2>1, <2>4, CertifyStep, BundleWriteStep, DieStep, EntryKept
  <2> QED
    BY <2>1, <2>2, <2>3, <2>4 DEF Publish!Bundle
<1> QED
  BY <1>1, <1>2, PTL DEF SpecAll

\* A verification that overlaps certifications, of which some died anywhere, only
\* succeeds when the files its lists name are of one of them, and the entry it reads
\* again is of that one or a later (src/src/artifact.rs:62-72), for every number of
\* certifications, one at a time.
THEOREM VerifiedListOneRun == SpecAll => []VerifiedListIsOneRun
<1>1. ASSUME BundleInv, EntryInv, Publish!Verified
      PROVE  /\ reader[3] \in 1 .. MaxRuns /\ reader[4] = reader[3] /\ reader[5] = reader[3]
             /\ reader[6] >= reader[3]
  <2>1. Len(reader) = 6 /\ \A i \in 3 .. 5 : Publish!Matches(Publish!Reads[i], reader[i])
    BY <1>1 DEF Publish!Verified, Publish!Reads
  <2>2. PICK n \in 1 .. MaxRuns : \A f \in Publish!File : reader[1].hash[f] = n
    BY <1>1, <2>1 DEF BundleInv, OneRun
  <2>3. \A i \in 3 .. 5 : Publish!Reads[i] \in Publish!File
    BY DEF Publish!Reads, Publish!File
  <2>4. \A i \in 3 .. 5 : reader[i] = n
    BY <2>1, <2>2, <2>3 DEF Publish!Matches
  <2>5. reader[5] <= reader[6] /\ reader[6] \in 1 .. MaxRuns
    BY <1>1, <2>1, <2>4 DEF EntryInv, Publish!Verified
  <2>6. n <= reader[6] /\ n \in Nat /\ reader[6] \in Nat
    BY <2>4, <2>5
  <2> QED
    BY <2>4, <2>6
<1>2. (component = "bundle" => BundleInv /\ EntryInv) => VerifiedListIsOneRun
  BY <1>1 DEF VerifiedListIsOneRun, Publish!VerifiedListIsOneRun
<1> QED
  BY <1>2, BundleSafety, PTL

\* What makes EntriesLastUnlessOverwritten hold: a copy has every host the file has,
\* unless another command has saved the file since.
Shown == Publish!Entry \cup {"torn"}
Copied == [pc: {"save"}, copy: [Hosts -> Shown], stale: BOOLEAN]
Keeps(c, own) == c.stale = FALSE => \A h \in Hosts : own[h] # "none" => c.copy[h] # "none"

RegistryInv ==
  /\ registry \in [Hosts -> Shown]
  /\ DOMAIN command = Processes
  /\ \A p \in Processes :
       command[p] = Publish!Ready \/ (command[p] \in Copied /\ Keeps(command[p], registry))

\* A command loads the file, and its change takes no host away.
LEMMA LoadStep ==
  ASSUME RegistryInv, NEW p \in Processes, NEW changed \in [Hosts -> Shown],
         \A h \in Hosts : registry[h] # "none" => changed[h] # "none",
         Publish!LoadToSave(p, changed)
  PROVE  RegistryInv'
<1> DEFINE new == [pc |-> "save", copy |-> changed, stale |-> FALSE]
<1>1. UNCHANGED registry /\ command' = [command EXCEPT ![p] = new]
  BY DEF Publish!LoadToSave
<1>2. \A q \in Processes : command'[q] = IF q = p THEN new ELSE command[q]
  BY <1>1 DEF RegistryInv
<1>3. new \in Copied /\ Keeps(new, registry)
  BY DEF Copied, Keeps
<1> HIDE DEF new
<1> QED
  BY <1>1, <1>2, <1>3 DEF RegistryInv

\* A save makes the copies of the others stale.
LEMMA SaveStep ==
  ASSUME RegistryInv, NEW p \in Processes, Publish!Save(p)
  PROVE  RegistryInv'
<1>1. /\ command[p].pc = "save" /\ registry' \in {command[p].copy, Publish!Unparsed}
      /\ command' = [q \in Processes |->
                       IF q = p \/ command[q] = Publish!Ready THEN Publish!Ready
                       ELSE [command[q] EXCEPT !.stale = TRUE]]
  BY DEF Publish!Save
<1>2. command[p] \in Copied
  BY <1>1 DEF RegistryInv, Publish!Ready
<1>3. registry' \in [Hosts -> Shown]
  BY <1>1, <1>2 DEF Copied, Publish!Unparsed, Shown
<1>4. ASSUME NEW q \in Processes, command'[q] # Publish!Ready
      PROVE  command'[q] \in Copied /\ Keeps(command'[q], registry')
  <2>1. command[q] \in Copied /\ command'[q] = [command[q] EXCEPT !.stale = TRUE]
    BY <1>1, <1>4 DEF RegistryInv
  <2>2. command'[q] \in Copied /\ command'[q].stale = TRUE
    BY <2>1 DEF Copied
  <2> QED
    BY <2>2 DEF Keeps
<1> QED
  BY <1>1, <1>3, <1>4 DEF RegistryInv

\* So for every command.
LEMMA RegistryStep ==
  ASSUME RegistryInv, NEW p \in Processes,
         Publish!Add(p) \/ Publish!Sync(p) \/ Publish!Save(p)
  PROVE  RegistryInv'
<1>1. CASE Publish!Add(p)
  <2>1. PICK h \in Hosts : Publish!LoadToSave(p, [registry EXCEPT ![h] = "local"])
    BY <1>1 DEF Publish!Add
  <2> DEFINE changed == [registry EXCEPT ![h] = "local"]
  <2>2. changed \in [Hosts -> Shown]
    BY DEF RegistryInv, Shown, Publish!Entry
  <2>3. \A g \in Hosts : registry[g] # "none" => changed[g] # "none"
    BY DEF RegistryInv
  <2> QED
    BY <2>1, <2>2, <2>3, LoadStep
<1>2. CASE Publish!Sync(p)
  <2>1. PICK remote \in [Hosts -> {"none", "signed", "unsigned"}] :
          Publish!LoadToSave(p, Publish!Merged(remote))
    BY <1>2 DEF Publish!Sync
  <2>2. Publish!Merged(remote) \in [Hosts -> Shown]
    BY DEF RegistryInv, Shown, Publish!Entry, Publish!Merged
  <2>3. \A g \in Hosts : registry[g] # "none" => Publish!Merged(remote)[g] # "none"
    BY DEF Publish!Merged
  <2> QED
    BY <2>1, <2>2, <2>3, LoadStep
<1> QED
  BY <1>1, <1>2, SaveStep

\* So the copies keep the hosts.
LEMMA RegistrySafety == SpecAll => [](component = "registry" => RegistryInv)
<1>1. InitAll => (component = "registry" => RegistryInv)
  BY DEF InitAll, Publish!Init, RegistryInv, Shown, Publish!Entry
<1>2. (component = "registry" => RegistryInv) /\ [NextAll]_allVars
        => (component = "registry" => RegistryInv)'
  <2> SUFFICES ASSUME component = "registry" => RegistryInv, [NextAll]_allVars,
                      component' = "registry"
               PROVE  RegistryInv'
    OBVIOUS
  <2>1. component = "registry" /\ [Publish!Registry]_publishVars
    BY OneRuns
  <2>2. CASE UNCHANGED publishVars
    BY <2>1, <2>2 DEF publishVars, RegistryInv
  <2> QED
    BY <2>1, <2>2, RegistryStep DEF Publish!Registry
<1> QED
  BY <1>1, <1>2, PTL DEF SpecAll

\* An entry of the registry goes only in the save of a command that loaded the file
\* before another command saved it (src/src/registry.rs:6, 11-12): for any number of
\* hosts and of commands that add, verify, synchronise and tear the same file.
THEOREM EntriesLast == SpecAll => EntriesLastUnlessOverwritten
<1>1. (component = "registry" => RegistryInv) /\ [NextAll]_allVars
        => [component = "registry" => Publish!EntriesLastUnlessOverwritten]_allVars
  <2> SUFFICES ASSUME component = "registry", RegistryInv, [NextAll]_allVars, ~UNCHANGED allVars,
                      NEW h \in Hosts, registry[h] # "none", registry'[h] = "none"
               PROVE  \E p \in Processes : /\ command[p].pc = "save" /\ command[p].stale
                                           /\ command'[p] = Publish!Ready
    BY DEF Publish!EntriesLastUnlessOverwritten
  <2>1. Publish!Registry
    BY DEF NextAll, Pure, GraphRuns, ArbiterRuns, StoreRuns, RulesRun, CanariesRun, SendsRun,
           PublishRuns, WatchRuns
  <2>2. PICK p \in Processes : Publish!Save(p)
    BY <2>1 DEF Publish!Registry, Publish!Add, Publish!Sync, Publish!LoadToSave
  <2>3. /\ command[p].pc = "save" /\ registry' \in {command[p].copy, Publish!Unparsed}
        /\ command'[p] = Publish!Ready
    BY <2>2 DEF Publish!Save
  <2>4. command[p] \in Copied /\ Keeps(command[p], registry)
    BY <2>3 DEF RegistryInv, Publish!Ready
  <2>5. registry' = command[p].copy
    BY <2>3 DEF Publish!Unparsed
  <2>6. command[p].stale
    BY <2>4, <2>5 DEF Keeps, Copied
  <2> QED
    BY <2>3, <2>6
<1> QED
  BY <1>1, RegistrySafety, PTL DEF SpecAll, EntriesLastUnlessOverwritten

\* What makes OnlySignedInstalled inductive: what was written of a feed is its own, and
\* no file is of a feed that was not trusted.
SignedFeed == [version: {"one", "two"}, signed: {TRUE}, integral: {TRUE}]
FeedFile == {"rules", "blocklist", "manifest"}

FeedInv ==
  /\ installed \in [FeedFile -> SignedFeed \cup {Publish!NoFeed, Publish!TornFeed}]
  /\ \/ install = Publish!Done /\ \E feed \in SignedFeed \cup {Publish!NoFeed} :
                                    \A f \in FeedFile : installed[f] = feed
     \/ install = Publish!Cut
     \/ /\ install \in [pc: {"write"}, feed: SignedFeed, step: 1 .. 3]
        /\ install.step > 1 => installed["rules"] = install.feed
        /\ install.step > 2 => installed["blocklist"] = install.feed

\* The files of a feed.
LEMMA FeedFilesAre ==
  /\ Publish!ToSet(Publish!FeedFiles) = FeedFile /\ Len(Publish!FeedFiles) = 3
  /\ Publish!FeedFiles[1] = "rules" /\ Publish!FeedFiles[2] = "blocklist"
  /\ Publish!FeedFiles[3] = "manifest"
BY DEF Publish!ToSet, Publish!FeedFiles, FeedFile

\* An installation that goes on, ends, or is cut.
LEMMA InstallStep ==
  ASSUME FeedInv, Publish!Install
  PROVE  FeedInv'
<1>1. CASE Publish!Fetch
  <2>1. PICK feed \in Publish!Feed : /\ Publish!Trusted(feed) /\ UNCHANGED installed
                                     /\ install' = [pc |-> "write", feed |-> feed, step |-> 1]
    BY <1>1 DEF Publish!Fetch
  <2>2. feed \in SignedFeed
    BY <2>1 DEF Publish!Trusted, Publish!Feed, SignedFeed
  <2> QED
    BY <2>1, <2>2 DEF FeedInv
<1>2. ASSUME install.pc = "write"
      PROVE  /\ install \in [pc: {"write"}, feed: SignedFeed, step: 1 .. 3]
             /\ install.step > 1 => installed["rules"] = install.feed
             /\ install.step > 2 => installed["blocklist"] = install.feed
  BY <1>2 DEF FeedInv, Publish!Done, Publish!Cut
<1>3. CASE Publish!InstallNext
  <2> DEFINE k == install.step
             feed == install.feed
             f == Publish!FeedFiles[k]
  <2>1. /\ install.pc = "write" /\ installed' = [installed EXCEPT ![f] = feed]
        /\ install' = IF k = 3 THEN Publish!Done ELSE [install EXCEPT !.step = k + 1]
    BY <1>3, FeedFilesAre DEF Publish!InstallNext
  <2>2. /\ install \in [pc: {"write"}, feed: SignedFeed, step: 1 .. 3]
        /\ k > 1 => installed["rules"] = feed
        /\ k > 2 => installed["blocklist"] = feed
    BY <1>2, <2>1
  <2>3. /\ k \in 1 .. 3 /\ feed \in SignedFeed
        /\ k = 1 => f = "rules"
        /\ k = 2 => f = "blocklist"
        /\ k = 3 => f = "manifest"
    BY <2>2, FeedFilesAre
  <2>4. k # 3 => /\ install' \in [pc: {"write"}, feed: SignedFeed, step: 1 .. 3]
                 /\ install'.step = k + 1 /\ install'.feed = feed
    BY <2>1, <2>2
  <2> HIDE DEF f, k, feed
  <2>5. f \in FeedFile
    BY <2>3 DEF FeedFile
  <2>6. /\ installed' \in [FeedFile -> SignedFeed \cup {Publish!NoFeed, Publish!TornFeed}]
        /\ installed'[f] = feed /\ \A g \in FeedFile : g # f => installed'[g] = installed[g]
    BY <2>1, <2>3, <2>5 DEF FeedInv
  <2>7. CASE k = 3
    <3>1. \A g \in FeedFile : installed'[g] = feed
      BY <2>2, <2>3, <2>6, <2>7 DEF FeedFile
    <3> QED
      BY <2>1, <2>3, <2>6, <2>7, <3>1 DEF FeedInv
  <2>8. CASE k # 3
    <3>1. /\ k + 1 > 1 => installed'["rules"] = feed
          /\ k + 1 > 2 => installed'["blocklist"] = feed
      BY <2>2, <2>3, <2>6, <2>8 DEF FeedFile
    <3> QED
      BY <2>4, <2>6, <2>8, <3>1 DEF FeedInv
  <2> QED
    BY <2>7, <2>8
<1>4. CASE Publish!InstallCut
  <2>1. PICK f : /\ install' = Publish!Cut
                 /\ installed' \in {installed, [installed EXCEPT ![f] = Publish!TornFeed]}
    BY <1>4 DEF Publish!InstallCut
  <2>2. installed' \in [FeedFile -> SignedFeed \cup {Publish!NoFeed, Publish!TornFeed}]
    BY <2>1 DEF FeedInv
  <2> QED
    BY <2>1, <2>2 DEF FeedInv
<1> QED
  BY <1>1, <1>3, <1>4 DEF Publish!Install

\* At first nothing is installed.
LEMMA FeedInitially ==
  ASSUME InitAll
  PROVE  FeedInv
<1>1. /\ installed = [f \in FeedFile |-> Publish!NoFeed]
      /\ install = Publish!Done
  BY FeedFilesAre DEF InitAll, Publish!Init
<1> QED
  BY <1>1 DEF FeedInv

\* So the files stay those of trusted feeds.
LEMMA FeedSafety == SpecAll => [](component = "feed" => FeedInv)
<1>1. InitAll => (component = "feed" => FeedInv)
  BY FeedInitially
<1>2. (component = "feed" => FeedInv) /\ [NextAll]_allVars => (component = "feed" => FeedInv)'
  <2> SUFFICES ASSUME component = "feed" => FeedInv, [NextAll]_allVars, component' = "feed"
               PROVE  FeedInv'
    OBVIOUS
  <2>1. component = "feed" /\ [Publish!Install]_publishVars
    BY OneRuns
  <2>2. CASE UNCHANGED publishVars
    BY <2>1, <2>2 DEF publishVars, FeedInv
  <2> QED
    BY <2>1, <2>2, InstallStep
<1> QED
  BY <1>1, <1>2, PTL DEF SpecAll

\* An installation that is through leaves three files of one feed, signed and with the
\* hashes of its manifest, and no file is ever of another (src/src/main.rs:467, 490),
\* whatever installations were cut in between two files or inside one.
THEOREM OnlySigned == SpecAll => []OnlySignedInstalled
<1>1. (component = "feed" => FeedInv) => OnlySignedInstalled
  <2> SUFFICES ASSUME FeedInv
               PROVE  Publish!OnlySignedInstalled
    BY DEF OnlySignedInstalled
  <2>1. /\ Publish!NoFeed.version = "none" /\ Publish!TornFeed.version = "torn"
        /\ Publish!Done.pc = "done" /\ Publish!Cut.pc = "cut"
    BY DEF Publish!NoFeed, Publish!TornFeed, Publish!Done, Publish!Cut
  <2>2. \A feed \in SignedFeed \cup {Publish!NoFeed} : feed # Publish!TornFeed
    BY <2>1 DEF SignedFeed
  <2>3. \A feed \in Publish!Feed :
          feed \in SignedFeed \cup {Publish!NoFeed, Publish!TornFeed}
            => feed.signed = TRUE /\ feed.integral = TRUE
    BY <2>1 DEF SignedFeed, Publish!Feed
  <2>4. ASSUME install = Publish!Done, NEW f \in FeedFile, NEW g \in FeedFile
        PROVE  installed[f] = installed[g] /\ installed[f] # Publish!TornFeed
    BY <2>1, <2>2, <2>4 DEF FeedInv
  <2>5. ASSUME NEW f \in FeedFile, installed[f] \in Publish!Feed
        PROVE  installed[f].signed /\ installed[f].integral
    BY <2>3, <2>5 DEF FeedInv
  <2> QED
    BY <2>4, <2>5, FeedFilesAre DEF Publish!OnlySignedInstalled
<1> QED
  BY <1>1, FeedSafety, PTL

-------------------------------------------------------------------------------
(* The sentinel.                                                           *)

\* What makes NewToldOnce inductive: what the last round saw is in the set it is
\* compared with, and whatever is there was seen in some round.
SentinelInv ==
  /\ host = [prev |-> host.prev, before |-> host.before, current |-> host.current,
             told |-> host.told, ever |-> host.ever]
  /\ host.current \subseteq host.prev
  /\ host.prev \subseteq host.ever \cup host.current
  /\ host.current \ host.ever \subseteq host.told
  /\ host.told \cap host.before = {}

\* A round tells what is new and notes it.
LEMMA SentinelStep ==
  ASSUME SentinelInv, Watch!Round
  PROVE  SentinelInv'
<1>1. PICK now \in Watch!Audit :
        host' = [prev |-> IF now \ host.prev # {} THEN now ELSE host.prev,
                 before |-> host.current, current |-> now, told |-> now \ host.prev,
                 ever |-> host.ever \cup host.current]
  BY DEF Watch!Round, Watch!Keep
<1>2. /\ host'.prev = IF now \ host.prev # {} THEN now ELSE host.prev
      /\ host'.before = host.current /\ host'.current = now
      /\ host'.told = now \ host.prev /\ host'.ever = host.ever \cup host.current
  BY <1>1
<1>3. now \subseteq host'.prev /\ host'.prev \subseteq host'.ever \cup now
  BY <1>2 DEF SentinelInv
<1>4. now \ host'.ever \subseteq host'.told
  BY <1>2 DEF SentinelInv
<1>5. host'.told \cap host'.before = {}
  BY <1>2 DEF SentinelInv
<1> QED
  BY <1>1, <1>2, <1>3, <1>4, <1>5 DEF SentinelInv

\* So nothing new is told twice.
LEMMA SentinelSafety == SpecAll => [](component = "sentinel" => SentinelInv)
<1>1. InitAll => (component = "sentinel" => SentinelInv)
  BY DEF InitAll, Watch!Init, SentinelInv
<1>2. (component = "sentinel" => SentinelInv) /\ [NextAll]_allVars
        => (component = "sentinel" => SentinelInv)'
  <2> SUFFICES ASSUME component = "sentinel" => SentinelInv, [NextAll]_allVars,
                      component' = "sentinel"
               PROVE  SentinelInv'
    OBVIOUS
  <2>1. component = "sentinel" /\ [Watch!Round]_watchVars
    BY OneRuns
  <2>2. CASE UNCHANGED watchVars
    BY <2>1, <2>2 DEF watchVars, SentinelInv
  <2> QED
    BY <2>1, <2>2, SentinelStep
<1> QED
  BY <1>1, <1>2, PTL DEF SpecAll

\* An indicator that was never there is told in its first round, and one of the
\* round before is not told again (src/src/sentinel.rs:9-10), for every set of
\* indicators, though the set compared with is only replaced when there is news.
THEOREM ToldOnce == SpecAll => []NewToldOnce
<1>1. (component = "sentinel" => SentinelInv) => NewToldOnce
  BY DEF SentinelInv, NewToldOnce, Watch!NewToldOnce
<1> QED
  BY <1>1, SentinelSafety, PTL

-------------------------------------------------------------------------------
(* The monitor.                                                            *)

ScanReport ==
  {Watch!Report(results) :
     results \in [DOMAIN Battery -> [flagged: BOOLEAN, ms: Latencies]]}

\* A flagged critical probe always gives the worst verdict.
LEMMA CriticalVerdict ==
  ASSUME NEW r \in ScanReport, r.critical
  PROVE  r.verdict = "DoNotUse"
<1>1. PICK results : r = Watch!Report(results)
  BY DEF ScanReport
<1>2. PICK i \in Watch!Flagged(results) : Battery[i] \in Watch!Critical
  BY <1>1 DEF Watch!Report
<1>3. {Battery[k] : k \in Watch!Flagged(results)} \cap Watch!Critical # {}
  BY <1>2
<1>4. Watch!Verdict(results) = "DoNotUse"
  BY <1>3 DEF Watch!Verdict
<1> QED
  BY <1>1, <1>4 DEF Watch!Report

\* A scan between its comparison and its report: what it compares with is the line that
\* was the last, when the history loaded.
Compared(lines, at) ==
  /\ at \in [pc: {"append", "report"}, report: ScanReport, base: 0 .. Len(lines),
             loads: BOOLEAN, previous: SUBSET ScanReport]
  /\ at.loads /\ at.base # 0 => at.previous = {lines[at.base]}

\* A round that is through was told of what it must be told of.
Told(lines, at) ==
  /\ at.base \in 0 .. Len(lines)
  /\ at.report.critical => at.raised
  /\ at.loads /\ at.base # 0 /\ at.report.verdict # lines[at.base].verdict => at.raised

ScanInv(lines, at) ==
  /\ at.pc = "compare" => at.report \in ScanReport
  /\ at.pc \in {"append", "report"} => Compared(lines, at)
  /\ at.pc = "ended" => Told(lines, at)

\* What makes ChangesAlerted inductive: what a scan compares with is still there when
\* it ends, for lines are only appended.
MonitorInv ==
  /\ DOMAIN scan = Watch!Scanners
  /\ history \in [lines: Seq(ScanReport), torn: BOOLEAN]
  /\ \A p \in Watch!Scanners : ScanInv(history.lines, scan[p])

\* At first the history is empty.
LEMMA MonitorInitially ==
  ASSUME InitAll
  PROVE  MonitorInv
<1>1. /\ history = [lines |-> <<>>, torn |-> FALSE]
      /\ scan = [p \in Watch!Scanners |-> Watch!Idle]
  BY DEF InitAll, Watch!Init
<1>2. \A p \in Watch!Scanners : scan[p].pc = "idle"
  BY <1>1 DEF Watch!Idle
<1>3. history \in [lines: Seq(ScanReport), torn: BOOLEAN]
  BY <1>1
<1> QED
  BY <1>1, <1>2, <1>3 DEF MonitorInv, ScanInv

\* A line that is appended leaves those before it, and what was compared with them.
LEMMA LinesGrow ==
  ASSUME NEW lines \in Seq(ScanReport), NEW new \in ScanReport, NEW at, ScanInv(lines, at)
  PROVE  ScanInv(Append(lines, new), at)
<1> DEFINE longer == Append(lines, new)
<1>1. /\ Len(lines) \in Nat /\ Len(longer) = Len(lines) + 1
      /\ \A i \in 1 .. Len(lines) : longer[i] = lines[i]
  OBVIOUS
<1> HIDE DEF longer
<1>2. \A i : i \in 0 .. Len(lines) => i \in 0 .. Len(longer)
  BY <1>1
<1>0. \A i : i \in 0 .. Len(lines) /\ i # 0 => longer[i] = lines[i]
  BY <1>1
<1>3. ASSUME Compared(lines, at)
      PROVE  Compared(longer, at)
  <2>1. at \in [pc: {"append", "report"}, report: ScanReport, base: 0 .. Len(lines),
                loads: BOOLEAN, previous: SUBSET ScanReport]
    BY <1>3 DEF Compared
  <2>2. at.base \in 0 .. Len(lines) /\ at.base \in 0 .. Len(longer)
    <3>1. at.base \in 0 .. Len(lines)
      BY <2>1
    <3> QED
      BY <1>2, <3>1, Zenon
  <2>3. at \in [pc: {"append", "report"}, report: ScanReport, base: 0 .. Len(longer),
                loads: BOOLEAN, previous: SUBSET ScanReport]
    BY <2>1, <2>2
  <2> QED
    BY <1>0, <1>3, <2>2, <2>3 DEF Compared
<1>4. ASSUME Told(lines, at)
      PROVE  Told(longer, at)
  <2>1. at.base \in 0 .. Len(lines)
    BY <1>4 DEF Told
  <2>2. at.base \in 0 .. Len(longer) /\ (at.base # 0 => longer[at.base] = lines[at.base])
    BY <1>0, <1>2, <2>1, Zenon
  <2> QED
    BY <1>4, <2>2 DEF Told
<1>5. ScanInv(longer, at)
  BY <1>3, <1>4 DEF ScanInv
<1> QED
  BY <1>5 DEF longer

\* A scan goes on, and the others still stand where they stood.
LEMMA ScanGoesOn ==
  ASSUME MonitorInv, NEW p \in Watch!Scanners, NEW next,
         scan' = [scan EXCEPT ![p] = next],
         history' \in [lines: Seq(ScanReport), torn: BOOLEAN],
         \/ history'.lines = history.lines
         \/ \E new \in ScanReport : history'.lines = Append(history.lines, new),
         ScanInv(history.lines, next) \/ ScanInv(history'.lines, next)
  PROVE  MonitorInv'
<1>1. history.lines \in Seq(ScanReport)
  BY DEF MonitorInv
<1>2. \A at : ScanInv(history.lines, at) => ScanInv(history'.lines, at)
  <2>1. CASE history'.lines = history.lines
    BY <2>1
  <2>2. CASE \E new \in ScanReport : history'.lines = Append(history.lines, new)
    BY <1>1, <2>2, LinesGrow
  <2> QED
    BY <2>1, <2>2
<1>3. \A q \in Watch!Scanners : scan'[q] = IF q = p THEN next ELSE scan[q]
  BY DEF MonitorInv
<1>4. \A q \in Watch!Scanners : ScanInv(history'.lines, scan'[q])
  BY <1>2, <1>3 DEF MonitorInv
<1> QED
  BY <1>4 DEF MonitorInv

\* A round that ends compared with the line that was the last.
LEMMA EndedTold ==
  ASSUME NEW lines \in Seq(ScanReport), NEW at, Compared(lines, at)
  PROVE  Told(lines, [pc |-> "ended", report |-> at.report, base |-> at.base, loads |-> at.loads,
                      raised |-> Watch!Raises(at.report, at.previous)])
<1>1. /\ at.report \in ScanReport /\ at.base \in 0 .. Len(lines)
      /\ at.loads /\ at.base # 0 => at.previous = {lines[at.base]}
  BY DEF Compared
<1>2. at.report.critical => Watch!Raises(at.report, at.previous)
  BY <1>1, CriticalVerdict DEF Watch!Raises, Watch!MaybeAlert
<1>3. at.loads /\ at.base # 0 /\ at.report.verdict # lines[at.base].verdict
        => Watch!Raises(at.report, at.previous)
  BY <1>1 DEF Watch!Raises, Watch!MaybeAlert
<1> QED
  BY <1>1, <1>2, <1>3 DEF Told

\* Every step of a round keeps what it has read.
LEMMA MonitorStep ==
  ASSUME MonitorInv, NEW p \in Watch!Scanners,
         Watch!Probe(p) \/ Watch!ProbeFails(p) \/ Watch!Compare(p) \/ Watch!AppendLine(p)
           \/ Watch!AppendFails(p) \/ Watch!Finish(p)
  PROVE  MonitorInv'
<1> DEFINE at == scan[p]
           lines == history.lines
<1>0. history \in [lines: Seq(ScanReport), torn: BOOLEAN] /\ ScanInv(lines, at)
  BY DEF MonitorInv
<1>1. ScanInv(lines, Watch!Idle)
  BY DEF Watch!Idle, ScanInv
<1>2. CASE Watch!Probe(p)
  <2>1. PICK results \in [DOMAIN Battery -> [flagged: BOOLEAN, ms: Latencies]] :
          scan' = [scan EXCEPT ![p] = [pc |-> "compare", report |-> Watch!Report(results)]]
    BY <1>2 DEF Watch!Probe, Watch!Goto
  <2>2. ScanInv(lines, [pc |-> "compare", report |-> Watch!Report(results)])
    BY DEF ScanInv, ScanReport
  <2>3. UNCHANGED history
    BY <1>2 DEF Watch!Probe
  <2> QED
    BY <1>0, <2>1, <2>2, <2>3, ScanGoesOn
<1>3. CASE Watch!ProbeFails(p)
  BY <1>0, <1>1, <1>3, ScanGoesOn DEF Watch!ProbeFails, Watch!Goto
<1>4. CASE Watch!Compare(p)
  <2> DEFINE base == Len(lines)
             loads == ~history.torn
             previous == IF loads /\ base # 0 THEN {lines[base]} ELSE {}
             next == [pc |-> "append", report |-> at.report, base |-> base, loads |-> loads,
                      previous |-> previous]
  <2>1. /\ at.pc = "compare" /\ UNCHANGED history
        /\ scan' = [scan EXCEPT ![p] = next]
    BY <1>4 DEF Watch!Compare, Watch!Goto
  <2>2. at.report \in ScanReport /\ base \in 0 .. Len(lines) /\ loads \in BOOLEAN
    BY <1>0, <2>1 DEF ScanInv
  <2>3. previous \subseteq ScanReport
    BY <1>0, <2>2
  <2>4. loads /\ base # 0 => previous = {lines[base]}
    OBVIOUS
  <2> HIDE DEF base, loads, previous
  <2>5. Compared(lines, next) /\ next.pc = "append"
    BY <2>2, <2>3, <2>4 DEF Compared
  <2>6. ScanInv(lines, next)
    BY <2>5 DEF ScanInv
  <2> HIDE DEF next
  <2> QED
    BY <1>0, <2>1, <2>6, ScanGoesOn
<1>5. ASSUME Watch!AppendLine(p) \/ Watch!AppendFails(p)
      PROVE  MonitorInv'
  <2> DEFINE next == [at EXCEPT !.pc = "report"]
  <2>1. at.pc = "append" /\ scan' = [scan EXCEPT ![p] = next]
    BY <1>5 DEF Watch!AppendLine, Watch!AppendFails, Watch!Goto
  <2>2. Compared(lines, at)
    BY <1>0, <2>1 DEF ScanInv
  <2>3. Compared(lines, next) /\ next.pc = "report"
    BY <2>2 DEF Compared
  <2>4. ScanInv(lines, next)
    BY <2>3 DEF ScanInv
  <2>5. at.report \in ScanReport
    BY <2>2 DEF Compared
  <2> HIDE DEF next
  <2>6. CASE Watch!AppendLine(p)
    <3>1. history' = [history EXCEPT !.lines = Append(lines, at.report)]
      BY <2>6 DEF Watch!AppendLine
    <3>2. Append(lines, at.report) \in Seq(ScanReport)
      BY <1>0, <2>5
    <3>3. /\ history' \in [lines: Seq(ScanReport), torn: BOOLEAN]
          /\ history'.lines = Append(lines, at.report)
      BY <1>0, <3>1, <3>2
    <3> QED
      BY <2>1, <2>4, <2>5, <3>3, ScanGoesOn
  <2>7. CASE Watch!AppendFails(p)
    <3>1. PICK torn \in BOOLEAN : history' = [history EXCEPT !.torn = torn]
      BY <1>0, <2>7 DEF Watch!AppendFails
    <3>2. history' \in [lines: Seq(ScanReport), torn: BOOLEAN] /\ history'.lines = lines
      BY <1>0, <3>1
    <3> QED
      BY <2>1, <2>4, <3>2, ScanGoesOn
  <2> QED
    BY <1>5, <2>6, <2>7
<1>6. CASE Watch!Finish(p)
  <2> DEFINE ended == [pc |-> "ended", report |-> at.report, base |-> at.base, loads |-> at.loads,
                       raised |-> Watch!Raises(at.report, at.previous)]
  <2>1. /\ at.pc = "report" /\ UNCHANGED history
        /\ scan' = [scan EXCEPT ![p] = IF p \notin Monitors THEN Watch!Idle ELSE ended]
    BY <1>6 DEF Watch!Finish, Watch!Goto
  <2>2. Compared(lines, at)
    BY <1>0, <2>1 DEF ScanInv
  <2>3. Told(lines, ended) /\ ended.pc = "ended"
    BY <1>0, <2>2, EndedTold
  <2>4. ScanInv(lines, ended)
    BY <2>3 DEF ScanInv
  <2> HIDE DEF ended
  <2>5. ScanInv(lines, IF p \notin Monitors THEN Watch!Idle ELSE ended)
    BY <1>1, <2>4
  <2> QED
    BY <1>0, <2>1, <2>5, ScanGoesOn
<1> QED
  BY <1>2, <1>3, <1>4, <1>5, <1>6

\* So MonitorInv holds while the monitor runs.
LEMMA MonitorSafety == SpecAll => [](component = "monitor" => MonitorInv)
<1>1. InitAll => (component = "monitor" => MonitorInv)
  BY MonitorInitially
<1>2. (component = "monitor" => MonitorInv) /\ [NextAll]_allVars
        => (component = "monitor" => MonitorInv)'
  <2> SUFFICES ASSUME component = "monitor" => MonitorInv, [NextAll]_allVars,
                      component' = "monitor"
               PROVE  MonitorInv'
    OBVIOUS
  <2>1. component = "monitor" /\ [Watch!Watch]_watchVars
    BY OneRuns
  <2>2. CASE UNCHANGED watchVars
    BY <2>1, <2>2 DEF watchVars, MonitorInv, ScanInv, Compared, Told
  <2> QED
    BY <2>1, <2>2, MonitorStep DEF Watch!Watch
<1> QED
  BY <1>1, <1>2, PTL DEF SpecAll

\* A monitor's round that came to its end raised an alert for a critical probe, though
\* its line was not written or the history not loaded, and for a verdict that is not
\* that of the line that was the last when it compared (src/src/monitor.rs:4-5): for
\* every battery, provider and threshold, and any number of processes that append.
THEOREM AlertsRaised == SpecAll => []ChangesAlerted
<1>1. (component = "monitor" => MonitorInv) => ChangesAlerted
  <2> SUFFICES ASSUME component = "monitor" => MonitorInv, component = "monitor",
                      NEW p \in Monitors, scan[p].pc = "ended"
               PROVE  Told(history.lines, scan[p])
    BY DEF ChangesAlerted, Watch!ChangesAlerted, Told
  <2> QED
    BY DEF MonitorInv, ScanInv, Watch!Scanners
<1> QED
  BY <1>1, MonitorSafety, PTL

-------------------------------------------------------------------------------
(* The capability matrix.                                                  *)

\* What the cascade answers from its i-th rule on.
From(list, i) ==
  LET hits == {j \in i .. Len(list) : list[j][1]}
  IN  IF hits = {} THEN "Ask" ELSE list[CHOOSE j \in hits : \A k \in hits : j <= k][2]

\* The least position of a set of positions exists.
LEMMA LeastIn ==
  ASSUME NEW S \in SUBSET Nat, S # {}
  PROVE  \E i \in S : \A j \in S : i <= j
<1> DEFINE R == OpToRel(<, Nat)
<1>1. IsWellFoundedOn(R, Nat)
  BY NatLessThanWellFounded
<1>2. PICK x \in S : \A y \in S : <<y, x>> \notin R
  <2> HIDE DEF R
  <2> QED BY <1>1, WFMin
<1>3. ASSUME NEW y \in S PROVE x <= y
  <2>1. <<y, x>> \notin R
    BY <1>2
  <2>2. ~ (y < x)
    BY <2>1 DEF OpToRel
  <2> QED BY <2>2
<1> QED
  BY <1>3

\* The first of a set of positions.
LEMMA LeastOf ==
  ASSUME NEW S \in SUBSET Nat, NEW i \in S, \A k \in S : i <= k
  PROVE  (CHOOSE j \in S : \A k \in S : j <= k) = i
<1> DEFINE c == CHOOSE j \in S : \A k \in S : j <= k
<1>1. c \in S /\ \A k \in S : c <= k
  OBVIOUS
<1>2. c \in Nat /\ i \in Nat /\ c <= i /\ i <= c
  BY <1>1
<1> HIDE DEF c
<1>3. c = i
  BY <1>2
<1> QED
  BY <1>3 DEF c

\* A rule that applies decides; one that does not leaves it to the next.
LEMMA FromStep ==
  ASSUME NEW S, NEW r \in Seq(S), NEW i \in 1 .. Len(r)
  PROVE  From(r, i) = IF r[i][1] THEN r[i][2] ELSE From(r, i + 1)
<1> DEFINE n == Len(r)
           hits(k) == {j \in k .. n : r[j][1]}
<1>1. n \in Nat /\ i \in Nat /\ i <= n
  OBVIOUS
<1> HIDE DEF n
<1>2. \A k \in Nat : hits(k) \in SUBSET Nat
  BY <1>1
<1>3. CASE r[i][1]
  <2>1. i \in hits(i) /\ \A k \in hits(i) : i <= k
    BY <1>1, <1>3
  <2>2. hits(i) \in SUBSET Nat
    BY <1>1, <1>2
  <2>3. From(r, i) = IF hits(i) = {} THEN "Ask"
                     ELSE r[CHOOSE j \in hits(i) : \A k \in hits(i) : j <= k][2]
    BY DEF From, n
  <2> HIDE DEF hits
  <2>4. (CHOOSE j \in hits(i) : \A k \in hits(i) : j <= k) = i
    BY <2>1, <2>2, LeastOf
  <2>5. hits(i) # {}
    BY <2>1
  <2> QED
    BY <1>3, <2>3, <2>4, <2>5
<1>4. CASE ~ r[i][1]
  <2>1. {j \in i .. n : r[j][1]} = {j \in i + 1 .. n : r[j][1]}
    BY <1>1, <1>4
  <2> DEFINE ans(H) == IF H = {} THEN "Ask" ELSE r[CHOOSE j \in H : \A k \in H : j <= k][2]
  <2>2. From(r, i) = ans({j \in i .. n : r[j][1]}) /\ From(r, i + 1) = ans({j \in i + 1 .. n : r[j][1]})
    BY DEF From, n
  <2> HIDE DEF ans
  <2>3. From(r, i) = From(r, i + 1)
    BY <2>1, <2>2
  <2> QED
    BY <1>4, <2>3
<1> QED
  BY <1>3, <1>4

\* One sequence after another, position by position.
LEMMA ConcatParts ==
  ASSUME NEW S, NEW a \in Seq(S), NEW b \in Seq(S)
  PROVE  /\ a \o b \in Seq(S) /\ Len(a \o b) = Len(a) + Len(b)
         /\ \A i \in 1 .. Len(a) : (a \o b)[i] = a[i]
         /\ \A i \in 1 .. Len(b) : (a \o b)[Len(a) + i] = b[i]
<1> DEFINE c == a \o b
           m == Len(a)
           n == Len(b)
<1>1. /\ c \in Seq(S) /\ Len(c) = m + n
      /\ \A i \in 1 .. m + n : c[i] = IF i <= m THEN a[i] ELSE b[i - m]
  BY ConcatProperties
<1>2. m \in Nat /\ n \in Nat
  OBVIOUS
<1> HIDE DEF c, m, n
<1>3. \A i \in 1 .. m : c[i] = a[i]
  BY <1>1, <1>2
<1>4. ASSUME NEW i \in 1 .. n PROVE c[m + i] = b[i]
  <2>1. m + i \in 1 .. m + n /\ ~ (m + i <= m) /\ m + i - m = i
    BY <1>2
  <2> QED
    BY <1>1, <1>2, <2>1
<1> QED
  BY <1>1, <1>3, <1>4 DEF c, m, n

Rows == BOOLEAN \X Matrix!MatrixDecision

\* Each part is a sequence of rules.
LEMMA PartsTyped ==
  ASSUME NEW x \in Matrix!MatrixInput
  PROVE  /\ Matrix!HardDenyRules(x) \in Seq(Rows) /\ Len(Matrix!HardDenyRules(x)) = 4
         /\ Matrix!UntrustedRules(x) \in Seq(Rows) /\ Len(Matrix!UntrustedRules(x)) = 5
         /\ Matrix!TaintRules(x) \in Seq(Rows) /\ Len(Matrix!TaintRules(x)) = 2
         /\ Matrix!PermitRules(x) \in Seq(Rows) /\ Len(Matrix!PermitRules(x)) = 6
<1>1. Matrix!HardDenyRules(x) \in Seq(Rows) /\ Len(Matrix!HardDenyRules(x)) = 4
  <2> DEFINE r1 == <<x.asset \in Matrix!HardDeny /\ x.source # "User", "Block">>
             r2 == <<x.asset \in Matrix!HardDeny /\ x.capability = "Execute", "Block">>
             r3 == <<x.asset \in {"Keychain", "WalletData", "CloudMetadata"}
                    /\ x.source = "User", "AllowWithAudit">>
             r4 == <<x.asset = "BrowserData" /\ x.source = "User", "AllowWithAudit">>
  <2>1. r1 \in Rows /\ r2 \in Rows /\ r3 \in Rows /\ r4 \in Rows
    BY DEF Rows, Matrix!MatrixDecision, Matrix!MatrixInput
  <2>2. Matrix!HardDenyRules(x) = <<r1, r2, r3, r4>>
    BY DEF Matrix!HardDenyRules
  <2> HIDE DEF r1, r2, r3, r4, Rows
  <2> QED
    BY <2>1, <2>2
<1>2. Matrix!UntrustedRules(x) \in Seq(Rows) /\ Len(Matrix!UntrustedRules(x)) = 5
  <2> DEFINE r1 == <<x.source \in Matrix!Untrusted /\ x.capability \in Matrix!Induced, "Block">>
             r2 == <<x.source \in Matrix!Untrusted
                    /\ x.capability \in {"NetworkFetch", "ClipboardRead", "UiAutomation"}, "Ask">>
             r3 == <<x.source \in Matrix!Untrusted /\ x.capability = "WriteFile"
                    /\ x.asset \in {"Temp", "Executable", "AiClientConfig", "System"}, "Quarantine">>
             r4 == <<x.source \in Matrix!Untrusted /\ x.capability = "WriteFile"
                    /\ x.asset = "Project", "Ask">>
             r5 == <<x.source \in Matrix!Untrusted /\ x.capability = "ReadFile"
                    /\ x.asset = "Credential", "Block">>
  <2>1. r1 \in Rows /\ r2 \in Rows /\ r3 \in Rows /\ r4 \in Rows /\ r5 \in Rows
    BY DEF Rows, Matrix!MatrixDecision, Matrix!MatrixInput
  <2>2. Matrix!UntrustedRules(x) = <<r1, r2, r3, r4, r5>>
    BY DEF Matrix!UntrustedRules
  <2> HIDE DEF r1, r2, r3, r4, r5, Rows
  <2> QED
    BY <2>1, <2>2
<1>3. Matrix!TaintRules(x) \in Seq(Rows) /\ Len(Matrix!TaintRules(x)) = 2
  <2> DEFINE r1 == <<x.tainted /\ x.capability \in Matrix!Induced, "Block">>
             r2 == <<x.tainted, "Ask">>
  <2>1. r1 \in Rows /\ r2 \in Rows
    BY DEF Rows, Matrix!MatrixDecision, Matrix!MatrixInput
  <2>2. Matrix!TaintRules(x) = <<r1, r2>>
    BY DEF Matrix!TaintRules
  <2> HIDE DEF r1, r2, Rows
  <2> QED
    BY <2>1, <2>2
<1>4. Matrix!PermitRules(x) \in Seq(Rows) /\ Len(Matrix!PermitRules(x)) = 6
  <2> DEFINE r1 == <<x.asset \in Matrix!AskOnly /\ x.source # "User", "Ask">>
             r2 == <<x.asset \in Matrix!AskOnly /\ x.source = "User", "AllowWithAudit">>
             r3 == <<x.source \in {"User", "Internal"} /\ x.asset = "Project"
                    /\ x.capability \in {"ReadFile", "WriteFile"}, "Allow">>
             r4 == <<x.source \in {"User", "Internal"} /\ x.capability = "ReadFile"
                    /\ x.asset \in {"Log", "Config"}, "AllowWithAudit">>
             r5 == <<x.source = "User" /\ x.capability = "NetworkFetch"
                    /\ x.asset = "External", "Allow">>
             r6 == <<x.source = "User" /\ x.capability = "NetworkPost"
                    /\ x.asset = "External", "Ask">>
  <2>1. r1 \in Rows /\ r2 \in Rows /\ r3 \in Rows /\ r4 \in Rows /\ r5 \in Rows /\ r6 \in Rows
    BY DEF Rows, Matrix!MatrixDecision, Matrix!MatrixInput
  <2>2. Matrix!PermitRules(x) = <<r1, r2, r3, r4, r5, r6>>
    BY DEF Matrix!PermitRules
  <2> HIDE DEF r1, r2, r3, r4, r5, r6, Rows
  <2> QED
    BY <2>1, <2>2
<1> QED
  BY <1>1, <1>2, <1>3, <1>4

\* The cascade is its four parts, one after the other.
LEMMA FourGroups ==
  ASSUME NEW x \in Matrix!MatrixInput
  PROVE  LET r == Matrix!Rules(x) IN
         /\ r \in Seq(Rows) /\ Len(r) = 17
         /\ \A i \in 1 .. 4 : r[i] = Matrix!HardDenyRules(x)[i]
         /\ \A i \in 1 .. 5 : r[4 + i] = Matrix!UntrustedRules(x)[i]
         /\ \A i \in 1 .. 2 : r[9 + i] = Matrix!TaintRules(x)[i]
         /\ \A i \in 1 .. 6 : r[11 + i] = Matrix!PermitRules(x)[i]
<1> DEFINE h == Matrix!HardDenyRules(x)
           u == Matrix!UntrustedRules(x)
           t == Matrix!TaintRules(x)
           p == Matrix!PermitRules(x)
           hu == h \o u
           hut == hu \o t
           all == hut \o p
<1>1. /\ h \in Seq(Rows) /\ Len(h) = 4 /\ u \in Seq(Rows) /\ Len(u) = 5
      /\ t \in Seq(Rows) /\ Len(t) = 2 /\ p \in Seq(Rows) /\ Len(p) = 6
  BY PartsTyped
<1> HIDE DEF h, u, t, p
<1>2. /\ hu \in Seq(Rows) /\ Len(hu) = 9
      /\ \A i \in 1 .. 4 : hu[i] = h[i]
      /\ \A i \in 1 .. 5 : hu[4 + i] = u[i]
  <2>1. /\ hu \in Seq(Rows) /\ Len(hu) = Len(h) + Len(u)
        /\ \A i \in 1 .. Len(h) : hu[i] = h[i]
        /\ \A i \in 1 .. Len(u) : hu[Len(h) + i] = u[i]
    <3>1. h \in Seq(Rows) /\ u \in Seq(Rows)
      BY <1>1
    <3> QED
      BY <3>1, ConcatParts
  <2>2. Len(h) = 4 /\ Len(u) = 5 /\ 4 + 5 = 9
    BY <1>1
  <2> HIDE DEF hu
  <2> QED
    BY <2>1, <2>2
<1> HIDE DEF hu
<1>3. /\ hut \in Seq(Rows) /\ Len(hut) = 11
      /\ \A i \in 1 .. 9 : hut[i] = hu[i]
      /\ \A i \in 1 .. 2 : hut[9 + i] = t[i]
  <2>1. /\ hut \in Seq(Rows) /\ Len(hut) = Len(hu) + Len(t)
        /\ \A i \in 1 .. Len(hu) : hut[i] = hu[i]
        /\ \A i \in 1 .. Len(t) : hut[Len(hu) + i] = t[i]
    <3>1. hu \in Seq(Rows) /\ t \in Seq(Rows)
      BY <1>1, <1>2
    <3> QED
      BY <3>1, ConcatParts
  <2>2. Len(hu) = 9 /\ Len(t) = 2 /\ 9 + 2 = 11
    BY <1>1, <1>2
  <2> HIDE DEF hut
  <2> QED
    BY <2>1, <2>2
<1> HIDE DEF hut
<1>4. /\ all \in Seq(Rows) /\ Len(all) = 17
      /\ \A i \in 1 .. 11 : all[i] = hut[i]
      /\ \A i \in 1 .. 6 : all[11 + i] = p[i]
  <2>1. /\ all \in Seq(Rows) /\ Len(all) = Len(hut) + Len(p)
        /\ \A i \in 1 .. Len(hut) : all[i] = hut[i]
        /\ \A i \in 1 .. Len(p) : all[Len(hut) + i] = p[i]
    <3>1. hut \in Seq(Rows) /\ p \in Seq(Rows)
      BY <1>1, <1>3
    <3> QED
      BY <3>1, ConcatParts
  <2>2. Len(hut) = 11 /\ Len(p) = 6 /\ 11 + 6 = 17
    BY <1>1, <1>3
  <2> HIDE DEF all
  <2> QED
    BY <2>1, <2>2
<1> HIDE DEF all
<1>5. /\ \A i \in 1 .. 4 : all[i] = h[i]
      /\ \A i \in 1 .. 5 : all[4 + i] = u[i]
      /\ \A i \in 1 .. 2 : all[9 + i] = t[i]
  <2>1. \A i \in 1 .. 4 : i \in 1 .. 9 /\ i \in 1 .. 11
    OBVIOUS
  <2>2. \A i \in 1 .. 5 : 4 + i \in 1 .. 9 /\ 4 + i \in 1 .. 11
    OBVIOUS
  <2>3. \A i \in 1 .. 2 : 9 + i \in 1 .. 11
    OBVIOUS
  <2> QED
    BY <1>2, <1>3, <1>4, <2>1, <2>2, <2>3
<1>6. all = Matrix!Rules(x)
  BY DEF hu, hut, all, h, u, t, p, Matrix!Rules
<1> QED
  BY <1>4, <1>5, <1>6 DEF h, u, t, p

\* What the cascade answers, rule by rule.
LEMMA CascadeMeans ==
  ASSUME NEW x \in Matrix!MatrixInput
  PROVE  \E r \in Seq(Rows) :
           /\ Len(r) = 17 /\ Matrix!MatrixEvaluate(x) = From(r, 1)
           /\ \A i \in 1 .. 17 : From(r, i) = IF r[i][1] THEN r[i][2] ELSE From(r, i + 1)
           /\ From(r, 18) = "Ask"
           /\ \A i \in 1 .. 4 : r[i] = Matrix!HardDenyRules(x)[i]
           /\ \A i \in 1 .. 5 : r[4 + i] = Matrix!UntrustedRules(x)[i]
           /\ \A i \in 1 .. 2 : r[9 + i] = Matrix!TaintRules(x)[i]
           /\ \A i \in 1 .. 6 : r[11 + i] = Matrix!PermitRules(x)[i]
<1> DEFINE r == Matrix!Rules(x)
<1>1. /\ r \in Seq(Rows) /\ Len(r) = 17
      /\ \A i \in 1 .. 4 : r[i] = Matrix!HardDenyRules(x)[i]
      /\ \A i \in 1 .. 5 : r[4 + i] = Matrix!UntrustedRules(x)[i]
      /\ \A i \in 1 .. 2 : r[9 + i] = Matrix!TaintRules(x)[i]
      /\ \A i \in 1 .. 6 : r[11 + i] = Matrix!PermitRules(x)[i]
  BY FourGroups
<1>2. Matrix!MatrixEvaluate(x) =
        LET hits == {i \in DOMAIN r : r[i][1]}
        IN  IF hits = {} THEN "Ask" ELSE r[CHOOSE i \in hits : \A j \in hits : i <= j][2]
  BY DEF Matrix!MatrixEvaluate
<1> HIDE DEF r
<1>3. DOMAIN r = 1 .. Len(r)
  BY <1>1
<1>4. Matrix!MatrixEvaluate(x) = From(r, 1)
  BY <1>2, <1>3 DEF From
<1>5. \A i \in 1 .. 17 : From(r, i) = IF r[i][1] THEN r[i][2] ELSE From(r, i + 1)
  BY <1>1, FromStep
<1>6. From(r, 18) = "Ask"
  <2>1. {j \in 18 .. Len(r) : r[j][1]} = {}
    BY <1>1
  <2> QED
    BY <2>1 DEF From
<1> QED
  BY <1>1, <1>4, <1>5, <1>6

\* The answer of each part of the cascade, given that of what comes after it.
HardDenyAnswer(x, after) ==
  IF x.asset \in Matrix!HardDeny /\ x.source # "User"
    THEN "Block"
  ELSE IF x.asset \in Matrix!HardDeny /\ x.capability = "Execute"
    THEN "Block"
  ELSE IF x.asset \in {"Keychain", "WalletData", "CloudMetadata"} /\ x.source = "User"
    THEN "AllowWithAudit"
  ELSE IF x.asset = "BrowserData" /\ x.source = "User"
    THEN "AllowWithAudit"
  ELSE after

UntrustedAnswer(x, after) ==
  IF x.source \in Matrix!Untrusted /\ x.capability \in Matrix!Induced
    THEN "Block"
  ELSE IF x.source \in Matrix!Untrusted
       /\ x.capability \in {"NetworkFetch", "ClipboardRead", "UiAutomation"}
    THEN "Ask"
  ELSE IF x.source \in Matrix!Untrusted /\ x.capability = "WriteFile"
       /\ x.asset \in {"Temp", "Executable", "AiClientConfig", "System"}
    THEN "Quarantine"
  ELSE IF x.source \in Matrix!Untrusted /\ x.capability = "WriteFile" /\ x.asset = "Project"
    THEN "Ask"
  ELSE IF x.source \in Matrix!Untrusted /\ x.capability = "ReadFile" /\ x.asset = "Credential"
    THEN "Block"
  ELSE after

TaintAnswer(x, after) ==
  IF x.tainted /\ x.capability \in Matrix!Induced
    THEN "Block"
  ELSE IF x.tainted
    THEN "Ask"
  ELSE after

PermitAnswer(x, after) ==
  IF x.asset \in Matrix!AskOnly /\ x.source # "User"
    THEN "Ask"
  ELSE IF x.asset \in Matrix!AskOnly /\ x.source = "User"
    THEN "AllowWithAudit"
  ELSE IF x.source \in {"User", "Internal"} /\ x.asset = "Project"
       /\ x.capability \in {"ReadFile", "WriteFile"}
    THEN "Allow"
  ELSE IF x.source \in {"User", "Internal"} /\ x.capability = "ReadFile"
       /\ x.asset \in {"Log", "Config"}
    THEN "AllowWithAudit"
  ELSE IF x.source = "User" /\ x.capability = "NetworkFetch" /\ x.asset = "External"
    THEN "Allow"
  ELSE IF x.source = "User" /\ x.capability = "NetworkPost" /\ x.asset = "External"
    THEN "Ask"
  ELSE after

\* What the cascade answers, part by part.
LEMMA CascadeAnswer ==
  ASSUME NEW x \in Matrix!MatrixInput
  PROVE  Matrix!MatrixEvaluate(x) =
           HardDenyAnswer(x, UntrustedAnswer(x, TaintAnswer(x, PermitAnswer(x, "Ask"))))
<1>1. PICK r \in Seq(Rows) :
        /\ Len(r) = 17 /\ Matrix!MatrixEvaluate(x) = From(r, 1)
        /\ \A i \in 1 .. 17 : From(r, i) = IF r[i][1] THEN r[i][2] ELSE From(r, i + 1)
        /\ From(r, 18) = "Ask"
        /\ \A i \in 1 .. 4 : r[i] = Matrix!HardDenyRules(x)[i]
        /\ \A i \in 1 .. 5 : r[4 + i] = Matrix!UntrustedRules(x)[i]
        /\ \A i \in 1 .. 2 : r[9 + i] = Matrix!TaintRules(x)[i]
        /\ \A i \in 1 .. 6 : r[11 + i] = Matrix!PermitRules(x)[i]
  BY CascadeMeans
<1>2. From(r, 1) = HardDenyAnswer(x, From(r, 5))
  <2> DEFINE g == Matrix!HardDenyRules(x)
  <2>1. /\ From(r, 1) = IF g[1][1] THEN g[1][2] ELSE From(r, 2)
        /\ From(r, 2) = IF g[2][1] THEN g[2][2] ELSE From(r, 3)
        /\ From(r, 3) = IF g[3][1] THEN g[3][2] ELSE From(r, 4)
        /\ From(r, 4) = IF g[4][1] THEN g[4][2] ELSE From(r, 5)
    <3>1. \A i \in 1 .. 4 : 0 + i \in 1 .. 17 /\ r[0 + i] = g[i]
      BY <1>1
    <3>2. \A i \in 1 .. 4 : From(r, 0 + i) = IF g[i][1] THEN g[i][2] ELSE From(r, 0 + i + 1)
      BY <1>1, <3>1
    <3> HIDE DEF g
    <3> QED
      BY <3>2
  <2> QED
    BY <2>1 DEF HardDenyAnswer, Matrix!HardDenyRules
<1>3. From(r, 5) = UntrustedAnswer(x, From(r, 10))
  <2> DEFINE g == Matrix!UntrustedRules(x)
  <2>1. /\ From(r, 5) = IF g[1][1] THEN g[1][2] ELSE From(r, 6)
        /\ From(r, 6) = IF g[2][1] THEN g[2][2] ELSE From(r, 7)
        /\ From(r, 7) = IF g[3][1] THEN g[3][2] ELSE From(r, 8)
        /\ From(r, 8) = IF g[4][1] THEN g[4][2] ELSE From(r, 9)
        /\ From(r, 9) = IF g[5][1] THEN g[5][2] ELSE From(r, 10)
    <3>1. \A i \in 1 .. 5 : 4 + i \in 1 .. 17 /\ r[4 + i] = g[i]
      BY <1>1
    <3>2. \A i \in 1 .. 5 : From(r, 4 + i) = IF g[i][1] THEN g[i][2] ELSE From(r, 4 + i + 1)
      BY <1>1, <3>1
    <3> HIDE DEF g
    <3> QED
      BY <3>2
  <2> QED
    BY <2>1 DEF UntrustedAnswer, Matrix!UntrustedRules
<1>4. From(r, 10) = TaintAnswer(x, From(r, 12))
  <2> DEFINE g == Matrix!TaintRules(x)
  <2>1. /\ From(r, 10) = IF g[1][1] THEN g[1][2] ELSE From(r, 11)
        /\ From(r, 11) = IF g[2][1] THEN g[2][2] ELSE From(r, 12)
    <3>1. \A i \in 1 .. 2 : 9 + i \in 1 .. 17 /\ r[9 + i] = g[i]
      BY <1>1
    <3>2. \A i \in 1 .. 2 : From(r, 9 + i) = IF g[i][1] THEN g[i][2] ELSE From(r, 9 + i + 1)
      BY <1>1, <3>1
    <3> HIDE DEF g
    <3> QED
      BY <3>2
  <2> QED
    BY <2>1 DEF TaintAnswer, Matrix!TaintRules
<1>5. From(r, 12) = PermitAnswer(x, From(r, 18))
  <2> DEFINE g == Matrix!PermitRules(x)
  <2>1. /\ From(r, 12) = IF g[1][1] THEN g[1][2] ELSE From(r, 13)
        /\ From(r, 13) = IF g[2][1] THEN g[2][2] ELSE From(r, 14)
        /\ From(r, 14) = IF g[3][1] THEN g[3][2] ELSE From(r, 15)
        /\ From(r, 15) = IF g[4][1] THEN g[4][2] ELSE From(r, 16)
        /\ From(r, 16) = IF g[5][1] THEN g[5][2] ELSE From(r, 17)
        /\ From(r, 17) = IF g[6][1] THEN g[6][2] ELSE From(r, 18)
    <3>1. \A i \in 1 .. 6 : 11 + i \in 1 .. 17 /\ r[11 + i] = g[i]
      BY <1>1
    <3>2. \A i \in 1 .. 6 : From(r, 11 + i) = IF g[i][1] THEN g[i][2] ELSE From(r, 11 + i + 1)
      BY <1>1, <3>1
    <3> HIDE DEF g
    <3> QED
      BY <3>2
  <2> QED
    BY <2>1 DEF PermitAnswer, Matrix!PermitRules
<1> QED
  BY <1>1, <1>2, <1>3, <1>4, <1>5

\* The last part never answers with more than a question, and with that for an
\* untrusted origin; the part before it, too, with a question at least.
LEMMA LastParts ==
  ASSUME NEW x \in Matrix!MatrixInput
  PROVE  LET p == PermitAnswer(x, "Ask")
             t == TaintAnswer(x, p)
         IN  /\ p \in {"Allow", "AllowWithAudit", "Ask"}
             /\ x.source \in Matrix!Untrusted => p = "Ask"
             /\ t \in {p, "Ask", "Block"}
             /\ x.tainted => t \in {"Ask", "Block"}
BY DEF PermitAnswer, TaintAnswer, Matrix!Untrusted

\* The decisions in order.
LEMMA Ranks ==
  /\ Matrix!Rank["Allow"] = 0 /\ Matrix!Rank["AllowWithAudit"] = 1 /\ Matrix!Rank["Ask"] = 2
  /\ Matrix!Rank["Quarantine"] = 3 /\ Matrix!Rank["Block"] = 4
BY DEF Matrix!Rank, Matrix!MatrixDecision

\* What an untrusted origin gets.
LEMMA UntrustedAsked ==
  ASSUME NEW x \in Matrix!MatrixInput, x.source \in Matrix!Untrusted
  PROVE  Matrix!MatrixEvaluate(x) \in {"Ask", "Quarantine", "Block"}
<1> DEFINE t == TaintAnswer(x, PermitAnswer(x, "Ask"))
           u == UntrustedAnswer(x, t)
<1>1. t \in {"Ask", "Block"}
  BY LastParts
<1> HIDE DEF t
<1>2. u \in {"Ask", "Quarantine", "Block"}
  BY <1>1 DEF UntrustedAnswer
<1> HIDE DEF u
<1>3. x.source # "User"
  BY DEF Matrix!Untrusted
<1>4. HardDenyAnswer(x, u) \in {"Ask", "Quarantine", "Block"}
  BY <1>2, <1>3 DEF HardDenyAnswer
<1> QED
  BY <1>4, CascadeAnswer DEF u, t

\* An origin that is not untrusted is blocked where nobody is let through.
LEMMA TrustedBlocked ==
  ASSUME NEW x \in Matrix!MatrixInput, NEW y \in Matrix!MatrixInput,
         x.source \notin Matrix!Untrusted, y.source \in Matrix!Untrusted,
         x.asset = y.asset, x.capability = y.capability,
         Matrix!MatrixEvaluate(x) \notin {"Allow", "AllowWithAudit", "Ask"}
  PROVE  Matrix!MatrixEvaluate(x) = "Block" /\ Matrix!MatrixEvaluate(y) = "Block"
<1> DEFINE p == PermitAnswer(x, "Ask")
           t == TaintAnswer(x, p)
           u == UntrustedAnswer(x, t)
           v == UntrustedAnswer(y, TaintAnswer(y, PermitAnswer(y, "Ask")))
<1>1. p \in {"Allow", "AllowWithAudit", "Ask"}
  BY LastParts
<1> HIDE DEF p
<1>2. t \in {"Allow", "AllowWithAudit", "Ask"} \/ (x.capability \in Matrix!Induced /\ t = "Block")
  BY <1>1 DEF TaintAnswer
<1> HIDE DEF t
<1>3. u = t
  BY DEF UntrustedAnswer
<1> HIDE DEF u
<1>4. HardDenyAnswer(x, u) \notin {"Allow", "AllowWithAudit", "Ask"}
        => /\ HardDenyAnswer(x, u) = "Block"
           /\ x.asset \in Matrix!HardDeny \/ x.capability \in Matrix!Induced
  BY <1>2, <1>3 DEF HardDenyAnswer
<1>5. y.capability \in Matrix!Induced => v = "Block"
  BY DEF UntrustedAnswer
<1> HIDE DEF v
<1>6. y.source # "User"
  BY DEF Matrix!Untrusted
<1>7. (y.asset \in Matrix!HardDeny \/ v = "Block") => HardDenyAnswer(y, v) = "Block"
  BY <1>6 DEF HardDenyAnswer
<1>8. Matrix!MatrixEvaluate(x) = HardDenyAnswer(x, u) /\ Matrix!MatrixEvaluate(y) = HardDenyAnswer(y, v)
  BY CascadeAnswer DEF u, v, t, p
<1> QED
  BY <1>4, <1>5, <1>7, <1>8

\* A tainted artifact: the first two parts do not look at it, and the others ask.
LEMMA TaintedAsked ==
  ASSUME NEW x \in Matrix!MatrixInput, NEW y \in Matrix!MatrixInput,
         x.source = y.source, x.asset = y.asset, x.capability = y.capability,
         ~ x.tainted, y.tainted
  PROVE  \/ Matrix!MatrixEvaluate(x) = Matrix!MatrixEvaluate(y)
         \/ /\ Matrix!MatrixEvaluate(x) \in {"Allow", "AllowWithAudit", "Ask"}
            /\ Matrix!MatrixEvaluate(y) \in {"Ask", "Block"}
<1> DEFINE p == PermitAnswer(x, "Ask")
           t == TaintAnswer(x, p)
           w == TaintAnswer(y, PermitAnswer(y, "Ask"))
           u(after) == UntrustedAnswer(x, after)
<1>1. t = p /\ p \in {"Allow", "AllowWithAudit", "Ask"} /\ w \in {"Ask", "Block"}
  BY LastParts DEF TaintAnswer
<1> HIDE DEF t, p, w
<1>2. /\ UntrustedAnswer(y, w) = u(w)
      /\ u(t) = u(w) \/ (u(t) = t /\ u(w) = w)
  BY DEF UntrustedAnswer
<1> HIDE DEF u
<1>3. /\ HardDenyAnswer(y, u(w)) = HardDenyAnswer(x, u(w))
      /\ \/ HardDenyAnswer(x, u(t)) = HardDenyAnswer(x, u(w))
         \/ HardDenyAnswer(x, u(t)) = u(t) /\ HardDenyAnswer(x, u(w)) = u(w)
  BY DEF HardDenyAnswer
<1>4. /\ Matrix!MatrixEvaluate(x) = HardDenyAnswer(x, u(t))
      /\ Matrix!MatrixEvaluate(y) = HardDenyAnswer(y, UntrustedAnswer(y, w))
  BY CascadeAnswer DEF u, w, t, p
<1> QED
  BY <1>1, <1>2, <1>3, <1>4

\* The input stays one of the matrix's.
LEMMA MatrixSafety == SpecAll => [](component = "matrix" => in \in Matrix!MatrixInput)
<1> DEFINE I == component = "matrix" => in \in Matrix!MatrixInput
<1>1. InitAll => I
  BY DEF InitAll, Matrix!Init
<1>2. I /\ [NextAll]_allVars => I'
  <2> SUFFICES ASSUME I, [NextAll]_allVars, component' = "matrix"
               PROVE  in' \in Matrix!MatrixInput
    OBVIOUS
  <2>1. component = "matrix" /\ [Matrix!Next]_in /\ in \in Matrix!MatrixInput
    BY OneRuns
  <2>2. CASE Matrix!BecomeTainted
    BY <2>1, <2>2 DEF Matrix!BecomeTainted, Matrix!MatrixInput
  <2>3. CASE Matrix!Distrust
    BY <2>1, <2>3 DEF Matrix!Distrust, Matrix!MatrixInput, Matrix!Untrusted, Matrix!Source
  <2>4. CASE UNCHANGED in
    BY <2>1, <2>4
  <2> QED
    BY <2>1, <2>2, <2>3, <2>4 DEF Matrix!Next
<1> QED
  BY <1>1, <1>2, PTL DEF SpecAll

\* Whatever falls through the rules for untrusted origins does not reach a permitting
\* rule further down (src/src/capability_matrix.rs:89-91).
THEOREM UntrustedAlwaysAsked == SpecAll => []UntrustedNeverSilent
<1>1. (component = "matrix" => in \in Matrix!MatrixInput) => UntrustedNeverSilent
  <2> SUFFICES ASSUME in \in Matrix!MatrixInput, in.source \in Matrix!Untrusted
               PROVE  Matrix!Rank[Matrix!MatrixEvaluate(in)] >= Matrix!Rank["Ask"]
    BY DEF UntrustedNeverSilent, Matrix!UntrustedNeverSilent
  <2>1. Matrix!MatrixEvaluate(in) \in {"Ask", "Quarantine", "Block"}
    BY UntrustedAsked
  <2> QED
    BY <2>1, Ranks
<1> QED
  BY <1>1, MatrixSafety, PTL

\* Learning that the artifact is tainted, or the origin untrusted, never relaxes the
\* decision (src/src/capability_matrix.rs, fn evaluate), for every input.
THEOREM EscalationKept == SpecAll => EscalationNeverRelaxes
<1>1. (component = "matrix" => in \in Matrix!MatrixInput)
        /\ (component = "matrix" => in \in Matrix!MatrixInput)' /\ [NextAll]_allVars
        => [component = "matrix" => Matrix!NotRelaxed]_allVars
  <2> SUFFICES ASSUME component = "matrix", in \in Matrix!MatrixInput, in' \in Matrix!MatrixInput,
                      [NextAll]_allVars
               PROVE  Matrix!NotRelaxed
    BY OneRuns
  <2> DEFINE x == in
             y == in'
             before == Matrix!MatrixEvaluate(x)
             after == Matrix!MatrixEvaluate(y)
  <2>1. [Matrix!Next]_in
    BY OneRuns
  <2>2. before \in Matrix!MatrixDecision
    BY CascadeAnswer, LastParts
       DEF HardDenyAnswer, UntrustedAnswer, Matrix!MatrixDecision
  <2>3. CASE Matrix!BecomeTainted
    <3>1. /\ x.source = y.source /\ x.asset = y.asset /\ x.capability = y.capability
          /\ ~ x.tainted /\ y.tainted
      BY <2>3 DEF Matrix!BecomeTainted, Matrix!MatrixInput
    <3> HIDE DEF x, y
    <3>2. before = after \/ (before \in {"Allow", "AllowWithAudit", "Ask"} /\ after \in {"Ask", "Block"})
      BY <3>1, TaintedAsked DEF x, y
    <3> QED
      BY <2>2, <3>2, Ranks DEF Matrix!NotRelaxed, Matrix!MatrixDecision, x, y
  <2>4. CASE Matrix!Distrust
    <3>1. /\ x.source \notin Matrix!Untrusted /\ y.source \in Matrix!Untrusted
          /\ x.asset = y.asset /\ x.capability = y.capability
      BY <2>4 DEF Matrix!Distrust, Matrix!MatrixInput
    <3>2. after \in {"Ask", "Quarantine", "Block"}
      BY <3>1, UntrustedAsked
    <3>3. before \notin {"Allow", "AllowWithAudit", "Ask"} => before = "Block" /\ after = "Block"
      BY <3>1, TrustedBlocked
    <3> QED
      BY <3>2, <3>3, Ranks DEF Matrix!NotRelaxed
  <2>5. CASE UNCHANGED in
    BY <2>2, <2>5, Ranks DEF Matrix!NotRelaxed, Matrix!MatrixDecision
  <2> QED
    BY <2>1, <2>3, <2>4, <2>5 DEF Matrix!Next
<1> QED
  BY <1>1, MatrixSafety, PTL DEF SpecAll, EscalationNeverRelaxes
-------------------------------------------------------------------------------
(* What the layers read off their input.                                   *)

ClassRows == BOOLEAN \X Judge!AssetClass

\* The rules of classify, of which the first two are about URLs and the next five
\* about secrets.
LEMMA ClassifyParts ==
  ASSUME NEW t \in Judge!Target
  PROVE  LET r == Judge!UrlRules(t) \o Judge!SecretRules(t) \o Judge!ClientRules(t)
                    \o Judge!PlaceRules(t) \o Judge!FileRules(t)
         IN  /\ r \in Seq(ClassRows)
             /\ DOMAIN r = 1 .. Len(r) /\ Len(r) \in Nat /\ Len(r) >= 7
             /\ \A i \in 1 .. 2 : r[i] = Judge!UrlRules(t)[i]
             /\ \A i \in 1 .. 5 : r[2 + i] = Judge!SecretRules(t)[i]
<1> DEFINE u == Judge!UrlRules(t)
           s == Judge!SecretRules(t)
           c == Judge!ClientRules(t)
           p == Judge!PlaceRules(t)
           f == Judge!FileRules(t)
           us == u \o s
           usc == us \o c
           uscp == usc \o p
           all == uscp \o f
<1>1. u \in Seq(ClassRows) /\ Len(u) = 2
  <2> DEFINE r1 == <<t.url /\ "metadata" \in t.marks, "CloudMetadata">>
             r2 == <<t.url, "External">>
  <2>1. r1 \in ClassRows /\ r2 \in ClassRows
    BY DEF ClassRows, Judge!AssetClass, Judge!Target
  <2>2. u = <<r1, r2>>
    BY DEF Judge!UrlRules
  <2> HIDE DEF r1, r2, u, ClassRows
  <2> QED
    BY <2>1, <2>2
<1>2. s \in Seq(ClassRows) /\ Len(s) = 5
  <2> DEFINE r1 == <<"wallet" \in t.marks, "WalletData">>
             r2 == <<"browser" \in t.marks, "BrowserData">>
             r3 == <<"credential" \in t.marks, "Credential">>
             r4 == <<t.ending = "env", "Credential">>
             r5 == <<"keychain" \in t.marks, "Keychain">>
  <2>1. \A b \in BOOLEAN : \A m \in {"WalletData", "BrowserData", "Credential", "Keychain"} : <<b, m>> \in ClassRows
    BY DEF ClassRows, Judge!AssetClass
  <2>3. /\ ("wallet" \in t.marks) \in BOOLEAN /\ ("browser" \in t.marks) \in BOOLEAN
        /\ ("credential" \in t.marks) \in BOOLEAN /\ ("keychain" \in t.marks) \in BOOLEAN
        /\ (t.ending = "env") \in BOOLEAN
    OBVIOUS
  <2>4. r1 \in ClassRows /\ r2 \in ClassRows /\ r3 \in ClassRows /\ r4 \in ClassRows /\ r5 \in ClassRows
    BY <2>1, <2>3
  <2>2. s = <<r1, r2, r3, r4, r5>>
    BY DEF Judge!SecretRules
  <2> HIDE DEF r1, r2, r3, r4, r5, s, ClassRows
  <2> QED
    BY <2>2, <2>4
<1>3. c \in Seq(ClassRows)
  <2> DEFINE r1 == <<"client" \in t.marks \/ t.ending = "client", "AiClientConfig">>
             r2 == <<t.ending = "history", "Log">>
  <2>1. r1 \in ClassRows
    BY DEF ClassRows, Judge!AssetClass
  <2>3. r2 \in ClassRows
    BY DEF ClassRows, Judge!AssetClass
  <2>2. c = <<r1, r2>>
    BY DEF Judge!ClientRules
  <2> HIDE DEF r1, r2, c, ClassRows
  <2> QED
    BY <2>1, <2>2, <2>3
<1>4. p \in Seq(ClassRows)
  <2> DEFINE r1 == <<t.root = "log" \/ "eventlog" \in t.marks, "Log">>
             r2 == <<t.root = "tmp" \/ "tmpdir" \in t.marks, "Temp">>
             r3 == <<t.root = "system", "System">>
  <2>1. r1 \in ClassRows /\ r2 \in ClassRows /\ r3 \in ClassRows
    BY DEF ClassRows, Judge!AssetClass, Judge!Target
  <2>2. p = <<r1, r2, r3>>
    BY DEF Judge!PlaceRules
  <2> HIDE DEF r1, r2, r3, p, ClassRows
  <2> QED
    BY <2>1, <2>2
<1>5. f \in Seq(ClassRows)
  <2> DEFINE r1 == <<t.ending = "shellrc", "Config">>
             r2 == <<t.ending = "executable" \/ t.root = "opt" \/ "bundle" \in t.marks, "Executable">>
             r3 == <<t.root = "home" /\ "project" \in t.marks, "Project">>
             r4 == <<t.root = "bare", "Project">>
  <2>1. r1 \in ClassRows /\ r2 \in ClassRows /\ r3 \in ClassRows /\ r4 \in ClassRows
    BY DEF ClassRows, Judge!AssetClass, Judge!Target
  <2>2. f = <<r1, r2, r3, r4>>
    BY DEF Judge!FileRules
  <2> HIDE DEF r1, r2, r3, r4, f, ClassRows
  <2> QED
    BY <2>1, <2>2
<1>6. all = u \o s \o c \o p \o f
  OBVIOUS
<1> HIDE DEF u, s, c, p, f
<1>7. /\ us \in Seq(ClassRows) /\ Len(us) = 7
      /\ \A i \in 1 .. 2 : us[i] = u[i]
      /\ \A i \in 1 .. 5 : us[2 + i] = s[i]
  <2>1. /\ us \in Seq(ClassRows) /\ Len(us) = Len(u) + Len(s)
        /\ \A i \in 1 .. Len(u) : us[i] = u[i]
        /\ \A i \in 1 .. Len(s) : us[Len(u) + i] = s[i]
    <3>1. u \in Seq(ClassRows) /\ s \in Seq(ClassRows)
      BY <1>1, <1>2
    <3> QED
      BY <3>1, ConcatParts
  <2>2. Len(u) = 2 /\ Len(s) = 5 /\ 2 + 5 = 7
    BY <1>1, <1>2
  <2> HIDE DEF us
  <2> QED
    BY <2>1, <2>2
<1>8. /\ usc \in Seq(ClassRows) /\ Len(usc) >= 7
      /\ \A i \in 1 .. 7 : usc[i] = us[i]
  <2>1. /\ usc \in Seq(ClassRows) /\ Len(usc) = Len(us) + Len(c)
        /\ \A i \in 1 .. Len(us) : usc[i] = us[i]
    <3> HIDE DEF us
    <3>1. us \in Seq(ClassRows) /\ c \in Seq(ClassRows)
      BY <1>3, <1>7
    <3> QED
      BY <3>1, ConcatParts
  <2>2. Len(c) \in Nat
    BY <1>3
  <2> HIDE DEF us, usc
  <2> QED
    BY <1>7, <2>1, <2>2
<1> HIDE DEF us
<1>9. /\ uscp \in Seq(ClassRows) /\ Len(uscp) >= 7
      /\ \A i \in 1 .. 7 : uscp[i] = usc[i]
  <2>1. /\ uscp \in Seq(ClassRows) /\ Len(uscp) = Len(usc) + Len(p)
        /\ \A i \in 1 .. Len(usc) : uscp[i] = usc[i]
    <3> HIDE DEF usc
    <3>1. usc \in Seq(ClassRows) /\ p \in Seq(ClassRows)
      BY <1>4, <1>8
    <3> QED
      BY <3>1, ConcatParts
  <2>2. Len(p) \in Nat /\ Len(usc) \in Nat
    BY <1>4, <1>8
  <2> HIDE DEF usc, uscp
  <2> QED
    BY <1>8, <2>1, <2>2
<1> HIDE DEF usc
<1>10. /\ all \in Seq(ClassRows) /\ Len(all) >= 7
       /\ \A i \in 1 .. 7 : all[i] = uscp[i]
  <2>1. /\ all \in Seq(ClassRows) /\ Len(all) = Len(uscp) + Len(f)
        /\ \A i \in 1 .. Len(uscp) : all[i] = uscp[i]
    <3> HIDE DEF uscp
    <3>1. uscp \in Seq(ClassRows) /\ f \in Seq(ClassRows)
      BY <1>5, <1>9
    <3> QED
      BY <3>1, ConcatParts
  <2>2. Len(f) \in Nat /\ Len(uscp) \in Nat
    BY <1>5, <1>9
  <2> HIDE DEF uscp, all
  <2> QED
    BY <1>9, <2>1, <2>2
<1> HIDE DEF uscp, all
<1>11. /\ DOMAIN all = 1 .. Len(all) /\ Len(all) \in Nat
       /\ \A i \in 1 .. 7 : all[i] = us[i]
  BY <1>8, <1>9, <1>10
<1>12. /\ \A i \in 1 .. 2 : all[i] = u[i]
       /\ \A i \in 1 .. 5 : all[2 + i] = s[i]
  <2>1. \A i \in 1 .. 2 : i \in 1 .. 7
    OBVIOUS
  <2>2. \A i \in 1 .. 5 : 2 + i \in 1 .. 7
    OBVIOUS
  <2> QED
    BY <1>7, <1>11, <2>1, <2>2
<1> QED
  BY <1>6, <1>10, <1>11, <1>12 DEF u, s, c, p, f

\* A path that names a secret is of a class nobody is let to without a human.
LEMMA SecretClassified ==
  ASSUME NEW t \in Judge!Target, Judge!Secret(t)
  PROVE  Judge!Classify(t) \in Matrix!HardDeny
<1> DEFINE r == Judge!UrlRules(t) \o Judge!SecretRules(t) \o Judge!ClientRules(t)
                  \o Judge!PlaceRules(t) \o Judge!FileRules(t)
           n == Len(r)
<1>1. /\ DOMAIN r = 1 .. n /\ n \in Nat /\ n >= 7
      /\ \A i \in 1 .. 2 : r[i] = Judge!UrlRules(t)[i]
      /\ \A i \in 1 .. 5 : r[2 + i] = Judge!SecretRules(t)[i]
  BY ClassifyParts
<1>2. Judge!Classify(t) = Judge!First(r, "Unknown")
  BY DEF Judge!Classify
<1> HIDE DEF r, n
<1>3. ~ r[1][1] /\ ~ r[2][1]
  <2>1. r[1] = Judge!UrlRules(t)[1] /\ r[2] = Judge!UrlRules(t)[2]
    BY <1>1
  <2> QED
    BY <2>1 DEF Judge!UrlRules, Judge!Secret, Judge!Target
<1>4. /\ r[3] = Judge!SecretRules(t)[1] /\ r[4] = Judge!SecretRules(t)[2]
      /\ r[5] = Judge!SecretRules(t)[3] /\ r[6] = Judge!SecretRules(t)[4]
      /\ r[7] = Judge!SecretRules(t)[5]
  <2>1. /\ r[2 + 1] = Judge!SecretRules(t)[1] /\ r[2 + 2] = Judge!SecretRules(t)[2]
        /\ r[2 + 3] = Judge!SecretRules(t)[3] /\ r[2 + 4] = Judge!SecretRules(t)[4]
        /\ r[2 + 5] = Judge!SecretRules(t)[5]
    BY <1>1
  <2> QED
    BY <2>1
<1>5. \A j \in 3 .. 7 : r[j][2] \in Matrix!HardDeny
  <2>1. /\ r[3][2] \in Matrix!HardDeny /\ r[4][2] \in Matrix!HardDeny /\ r[5][2] \in Matrix!HardDeny
        /\ r[6][2] \in Matrix!HardDeny /\ r[7][2] \in Matrix!HardDeny
    BY <1>4 DEF Judge!SecretRules, Matrix!HardDeny
  <2>2. \A j \in 3 .. 7 : j \in {3, 4, 5, 6, 7}
    OBVIOUS
  <2> QED
    BY <2>1, <2>2
<1>6. \E j \in 3 .. 7 : r[j][1]
  <2>1. \/ "wallet" \in t.marks \/ "browser" \in t.marks \/ "credential" \in t.marks
        \/ "keychain" \in t.marks \/ t.ending = "env"
    BY DEF Judge!Secret, Judge!SecretMark
  <2>2. /\ r[3][1] <=> "wallet" \in t.marks
        /\ r[4][1] <=> "browser" \in t.marks
        /\ r[5][1] <=> "credential" \in t.marks
        /\ r[6][1] <=> t.ending = "env"
        /\ r[7][1] <=> "keychain" \in t.marks
    <3>1. /\ Judge!SecretRules(t)[1] = <<"wallet" \in t.marks, "WalletData">>
          /\ Judge!SecretRules(t)[2] = <<"browser" \in t.marks, "BrowserData">>
          /\ Judge!SecretRules(t)[3] = <<"credential" \in t.marks, "Credential">>
          /\ Judge!SecretRules(t)[4] = <<t.ending = "env", "Credential">>
          /\ Judge!SecretRules(t)[5] = <<"keychain" \in t.marks, "Keychain">>
      BY DEF Judge!SecretRules
    <3>2. /\ r[3][1] = ("wallet" \in t.marks)
          /\ r[4][1] = ("browser" \in t.marks)
          /\ r[5][1] = ("credential" \in t.marks)
          /\ r[6][1] = (t.ending = "env")
          /\ r[7][1] = ("keychain" \in t.marks)
      BY <1>4, <3>1
    <3> QED
      BY <3>2
  <2>3. r[3][1] \/ r[4][1] \/ r[5][1] \/ r[6][1] \/ r[7][1]
    BY <2>1, <2>2
  <2> QED
    BY <2>3
<1>7. \E j \in 3 .. 7 : Judge!First(r, "Unknown") = r[j][2]
  <2> DEFINE hits == {j \in DOMAIN r : r[j][1]}
  <2>1. PICK w \in 3 .. 7 : r[w][1]
    BY <1>6
  <2>2. hits \in SUBSET Nat /\ w \in hits
    BY <1>1, <2>1
  <2>3. Judge!First(r, "Unknown") =
          IF hits = {} THEN "Unknown" ELSE r[CHOOSE x \in hits : \A y \in hits : x <= y][2]
    BY DEF Judge!First, Judge!Min
  <2>4. 1 \notin hits /\ 2 \notin hits /\ 0 \notin hits
    BY <1>1, <1>3
  <2> HIDE DEF hits
  <2>5. PICK f \in hits : \A j \in hits : f <= j
    BY <2>2, LeastIn
  <2>6. (CHOOSE x \in hits : \A y \in hits : x <= y) = f
    BY <2>2, <2>5, LeastOf
  <2>7. f \in 3 .. 7
    <3>1. f \in Nat /\ f <= w /\ f # 0 /\ f # 1 /\ f # 2
      BY <2>2, <2>4, <2>5
    <3> QED
      BY <2>1, <3>1
  <2> QED
    BY <2>2, <2>3, <2>6, <2>7
<1> QED
  BY <1>2, <1>5, <1>7

\* It is blocked for everyone but the user, whatever the tool.
LEMMA SecretBlocked ==
  ASSUME NEW t \in Judge!Target, Judge!Secret(t), NEW name \in Judge!ToolName,
         NEW s \in Judge!Source \ {"User"}
  PROVE  Judge!Judged(t, name, s) = "Block"
<1> DEFINE cap == Judge!FromToolCall(name, t, FALSE)
           class == Judge!Classify(t)
           x == [source |-> s, capability |-> cap, asset |-> class, tainted |-> FALSE]
<1>1. cap \in Matrix!Capability
  BY DEF Judge!FromToolCall, Judge!ToolName, Matrix!Capability
<1>2. class \in Matrix!HardDeny
  BY SecretClassified
<1>3. Matrix!HardDeny \subseteq Matrix!AssetClass
  BY DEF Matrix!HardDeny, Matrix!AssetClass
<1>4. s \in Matrix!Source
  BY DEF Matrix!Source, Judge!Source
<1>5. Judge!Judged(t, name, s) = Judge!MatrixEvaluate(x)
  BY DEF Judge!Judged
<1> HIDE DEF cap, class
<1>6. x \in Matrix!MatrixInput /\ x.asset \in Matrix!HardDeny /\ x.source # "User"
  BY <1>1, <1>2, <1>3, <1>4 DEF Matrix!MatrixInput
<1> HIDE DEF x
<1>7. Judge!MatrixEvaluate(x) = Matrix!MatrixEvaluate(x)
  <2>1. Judge!Rules(x) = Matrix!Rules(x)
    BY DEF Judge!Rules, Judge!HardDenyRules, Judge!UntrustedRules, Judge!TaintRules, Judge!PermitRules,
           Judge!HardDeny, Judge!Untrusted, Judge!Induced, Judge!AskOnly,
           Matrix!Rules, Matrix!HardDenyRules, Matrix!UntrustedRules, Matrix!TaintRules, Matrix!PermitRules,
           Matrix!HardDeny, Matrix!Untrusted, Matrix!Induced, Matrix!AskOnly
  <2> QED
    BY <2>1 DEF Judge!MatrixEvaluate, Matrix!MatrixEvaluate
<1>8. Matrix!MatrixEvaluate(x) = "Block"
  BY <1>6, CascadeAnswer DEF HardDenyAnswer
<1> QED
  BY <1>5, <1>7, <1>8

\* The rules of sniff_content.
SniffRules(d) ==
  << <<d.start \in Judge!Binary \cup Judge!Packed \cup {"Pdf"}, d.start>>,
     <<d.ustar, "TarArchive">>,
     <<d.start \in {"#!", "bom"} /\ "powershell" \in d.words, "PowerShell">>,
     <<d.start = "#!" /\ "python" \in d.words, "Python">>,
     <<d.start = "#!", "ShellScript">>,
     <<d.start = "json", "Json">>, <<d.start = "<?xml", "Xml">>,
     <<d.ascii, "Text">> >>

\* What sniff_content answers: the first rule's, or none that is a binary.
LEMMA SniffParts ==
  ASSUME NEW d
  PROVE  /\ Judge!Sniff(d) = Judge!First(SniffRules(d), "Unknown")
         /\ DOMAIN SniffRules(d) = 1 .. 8
         /\ SniffRules(d)[1][1] = (d.start \in Judge!Binary \cup Judge!Packed \cup {"Pdf"})
         /\ SniffRules(d)[1][2] = d.start
         /\ \A i \in 2 .. 8 : SniffRules(d)[i][2] \notin Judge!Binary
<1>1. Judge!Sniff(d) = Judge!First(SniffRules(d), "Unknown")
  BY DEF Judge!Sniff, SniffRules
<1>2. /\ DOMAIN SniffRules(d) = 1 .. 8
      /\ SniffRules(d)[1] = <<d.start \in Judge!Binary \cup Judge!Packed \cup {"Pdf"}, d.start>>
  BY DEF SniffRules
<1>3. \A i \in 2 .. 8 : SniffRules(d)[i][2] \notin Judge!Binary
  <2>1. /\ SniffRules(d)[2][2] = "TarArchive" /\ SniffRules(d)[3][2] = "PowerShell"
        /\ SniffRules(d)[4][2] = "Python" /\ SniffRules(d)[5][2] = "ShellScript"
        /\ SniffRules(d)[6][2] = "Json" /\ SniffRules(d)[7][2] = "Xml"
        /\ SniffRules(d)[8][2] = "Text"
    BY DEF SniffRules
  <2>2. \A i \in 2 .. 8 : i \in {2, 3, 4, 5, 6, 7, 8}
    OBVIOUS
  <2> QED
    BY <2>1, <2>2 DEF Judge!Binary
<1>4. /\ SniffRules(d)[1][1] = (d.start \in Judge!Binary \cup Judge!Packed \cup {"Pdf"})
      /\ SniffRules(d)[1][2] = d.start
  BY <1>2
<1> QED
  BY <1>1, <1>2, <1>3, <1>4

\* What begins like a binary is found to be that binary, and nothing else is found to
\* be one.
LEMMA BinarySniffed ==
  ASSUME NEW d
  PROVE  /\ d.start \in Judge!Binary => Judge!Sniff(d) = d.start
         /\ Judge!Sniff(d) \in Judge!Binary => d.start = Judge!Sniff(d)
<1> DEFINE r == SniffRules(d)
           hits == {i \in DOMAIN r : r[i][1]}
<1>1. /\ Judge!Sniff(d) = Judge!First(r, "Unknown")
      /\ DOMAIN r = 1 .. 8 /\ r[1][2] = d.start
      /\ r[1][1] = (d.start \in Judge!Binary \cup Judge!Packed \cup {"Pdf"})
      /\ \A i \in 2 .. 8 : r[i][2] \notin Judge!Binary
  BY SniffParts
<1>2. Judge!First(r, "Unknown") =
        IF hits = {} THEN "Unknown" ELSE r[CHOOSE x \in hits : \A y \in hits : x <= y][2]
  BY DEF Judge!First, Judge!Min
<1> HIDE DEF r
<1>3. hits \in SUBSET Nat /\ hits \subseteq 1 .. 8
  BY <1>1
<1>4. ASSUME NEW f \in hits, \A j \in hits : f <= j
      PROVE  Judge!Sniff(d) = r[f][2]
  <2> HIDE DEF hits
  <2>1. (CHOOSE x \in hits : \A y \in hits : x <= y) = f
    BY <1>3, <1>4, LeastOf
  <2> QED
    BY <1>1, <1>2, <1>4, <2>1
<1>5. d.start \in Judge!Binary => Judge!Sniff(d) = d.start
  <2> SUFFICES ASSUME d.start \in Judge!Binary PROVE Judge!Sniff(d) = d.start
    OBVIOUS
  <2>1. r[1][1]
    BY <1>1
  <2>2. 1 \in hits /\ \A j \in hits : 1 <= j
    BY <1>1, <2>1
  <2> HIDE DEF hits
  <2> QED
    BY <1>1, <1>4, <2>2
<1>6. Judge!Sniff(d) \in Judge!Binary => d.start = Judge!Sniff(d)
  <2> HIDE DEF hits
  <2>1. CASE hits = {}
    BY <1>1, <1>2, <2>1 DEF Judge!Binary
  <2>2. CASE hits # {}
    <3>1. PICK f \in hits : \A j \in hits : f <= j
      BY <1>3, <2>2, LeastIn
    <3>2. Judge!Sniff(d) = r[f][2]
      BY <1>4, <3>1
    <3>3. f = 1 \/ f \in 2 .. 8
      BY <1>3
    <3> QED
      BY <1>1, <3>2, <3>3
  <2> QED
    BY <2>1, <2>2
<1> QED
  BY <1>5, <1>6

\* The answer of the egress policy.
LEMMA EgressAnswer ==
  ASSUME NEW r \in Judge!Request
  PROVE  LET blocked == Judge!Blocklisted(r.host, r.block)
             allowed == Judge!Allowlisted(r.host, r.allow)
         IN  Judge!EgressOf(r) =
               IF blocked \/ r.paths \/ (~allowed /\ (r.entropy \/ r.blockUnknown)) THEN "Block"
               ELSE IF ~allowed \/ r.entropy THEN "Ask" ELSE "Allow"
BY DEF Judge!EgressOf, Judge!E!EgressEvaluate, Judge!E!EgressBlocks

\* The egress policy's answers in order.
LEMMA EgressRanks ==
  /\ Judge!EgressRank["Allow"] = 0 /\ Judge!EgressRank["Ask"] = 1 /\ Judge!EgressRank["Block"] = 2
BY DEF Judge!EgressRank

\* A request that has all of another's faults gets no milder an answer.
LEMMA EgressStricter ==
  ASSUME NEW r \in Judge!Request, NEW q \in Judge!Request,
         Judge!Blocklisted(r.host, r.block) => Judge!Blocklisted(q.host, q.block),
         Judge!Allowlisted(q.host, q.allow) => Judge!Allowlisted(r.host, r.allow),
         r.paths => q.paths, r.entropy => q.entropy, q.blockUnknown = r.blockUnknown
  PROVE  Judge!EgressRank[Judge!EgressOf(q)] >= Judge!EgressRank[Judge!EgressOf(r)]
<1> DEFINE a == Judge!EgressOf(r)
           b == Judge!EgressOf(q)
<1>1. \/ a = b \/ (a = "Allow" /\ b \in {"Ask", "Block"}) \/ (a = "Ask" /\ b = "Block")
  BY EgressAnswer
<1>2. a \in {"Allow", "Ask", "Block"}
  BY EgressAnswer
<1> HIDE DEF a, b
<1>3. Judge!EgressRank[b] >= Judge!EgressRank[a]
  BY <1>1, <1>2, EgressRanks
<1> QED
  BY <1>3 DEF a, b

Label == {"com", "evil", "www"}

\* A host below a blocked one is blocked.
LEMMA BlockedBelow ==
  ASSUME NEW h \in Judge!Host, NEW g \in Judge!Host, Judge!IsPrefix(h, g),
         NEW block \in SUBSET Judge!BlockEntry, Judge!Blocklisted(h, block)
  PROVE  Judge!Blocklisted(g, block)
<1>0. Judge!Host \subseteq Seq(Label)
  <2>1. <<"com">> \in Seq(Label) /\ <<"com", "evil">> \in Seq(Label)
        /\ <<"com", "evil", "www">> \in Seq(Label)
    BY DEF Label
  <2> QED
    BY <2>1 DEF Judge!Host
<1>1. \A s, t \in Judge!Host :
        Judge!IsPrefix(s, t) <=> Len(s) <= Len(t) /\ \A i \in 1 .. Len(s) : s[i] = t[i]
  <2> TAKE s, t \in Judge!Host
  <2>1. s \in Seq(Label) /\ t \in Seq(Label) /\ Len(s) \in Nat /\ Len(t) \in Nat
    BY <1>0
  <2>2. SubSeq(s, 1, Len(s)) = [i \in 1 .. Len(s) |-> s[i]]
        /\ SubSeq(t, 1, Len(s)) = [i \in 1 .. Len(s) |-> t[i]]
    BY <2>1
  <2> QED
    BY <2>1, <2>2 DEF Judge!IsPrefix
<1>2. PICK b \in block : IF h = b.host THEN b.lower ELSE Judge!IsPrefix(b.host, h)
  BY DEF Judge!Blocklisted
<1>3. b.host \in Judge!Host
  BY DEF Judge!BlockEntry, Judge!Host
<1>4. Judge!IsPrefix(b.host, h)
  <2>1. h = b.host => Judge!IsPrefix(b.host, h)
    BY <1>0, <1>1, <1>3
  <2> QED
    BY <1>2, <2>1
<1>5. Judge!IsPrefix(b.host, g)
  BY <1>0, <1>1, <1>3, <1>4
<1>6. CASE g = b.host
  <2>1. Len(h) = Len(g) /\ \A i \in 1 .. Len(h) : h[i] = g[i]
    BY <1>0, <1>1, <1>3, <1>4, <1>6
  <2>2. h = g
    BY <1>0, <2>1
  <2> QED
    BY <2>2
<1>7. CASE g # b.host
  BY <1>5, <1>7 DEF Judge!Blocklisted
<1> QED
  BY <1>6, <1>7

\* The worse the worst finding, the fewer the points.
LEMMA PointsFall ==
  ASSUME NEW v \in Judge!Severities, NEW w \in Judge!Severities, v <= w
  PROVE  /\ Judge!ActivePoints(v) \in 0 .. 40 /\ Judge!ActivePoints(w) \in 0 .. 40
         /\ Judge!ActivePoints(w) <= Judge!ActivePoints(v)
<1>1. /\ Judge!ActivePoints(0) = 40 /\ Judge!ActivePoints(20) = 30
      /\ Judge!ActivePoints(45) = 15 /\ Judge!ActivePoints(50) = 15
      /\ Judge!ActivePoints(65) = 0 /\ Judge!ActivePoints(85) = 0 /\ Judge!ActivePoints(95) = 0
  BY DEF Judge!ActivePoints
<1> QED
  BY <1>1 DEF Judge!Severities

\* The worst finding so far never falls.
LEMMA WorstRises ==
  ASSUME NEW s \in Judge!Scan, NEW severity \in Judge!Severities
  PROVE  Judge!Worst(s, severity) \in Judge!Severities /\ Judge!Worst(s, severity) >= s.worst
<1> DEFINE S == {s.worst, severity}
<1>1. S \in SUBSET Nat /\ S \subseteq Judge!Severities /\ s.worst \in S
  BY DEF Judge!Severities, Judge!Scan
<1>2. \E x \in S : \A y \in S : x >= y
  <2>1. s.worst \in Nat /\ severity \in Nat
    BY <1>1
  <2> QED
    BY <2>1
<1>3. Judge!Worst(s, severity) = CHOOSE x \in S : \A y \in S : x >= y
  BY DEF Judge!Worst, Judge!Max
<1> HIDE DEF S
<1> QED
  BY <1>1, <1>2, <1>3

\* Fewer points never make a better grade.
LEMMA GradeFalls ==
  ASSUME NEW s \in Judge!Scan, NEW q \in Judge!Scan, q.https = s.https, q.official = s.official,
         q.worst >= s.worst, s.unsolicited => q.unsolicited
  PROVE  Judge!Grade(q) >= Judge!Grade(s)
<1> DEFINE m == Judge!Total(s)
           n == Judge!Total(q)
<1>1. m \in Nat /\ n \in Nat /\ n <= m
  <2> DEFINE v == Judge!ActivePoints(s.worst)
             w == Judge!ActivePoints(q.worst)
  <2>1. s.worst \in Judge!Severities /\ q.worst \in Judge!Severities /\ s.worst <= q.worst
    BY DEF Judge!Scan, Judge!Severities
  <2>2. v \in 0 .. 40 /\ w \in 0 .. 40 /\ w <= v
    BY <2>1, PointsFall
  <2>3. /\ m = (IF s.https THEN 20 ELSE 0) + (IF s.official THEN 20 ELSE 5)
                 + v + (IF s.unsolicited THEN 0 ELSE 20)
        /\ n = (IF q.https THEN 20 ELSE 0) + (IF q.official THEN 20 ELSE 5)
                 + w + (IF q.unsolicited THEN 0 ELSE 20)
    BY DEF Judge!Total
  <2> HIDE DEF m, n, v, w
  <2> QED
    BY <2>2, <2>3
<1>2. /\ Judge!Grade(s) = IF m >= 85 THEN 0 ELSE IF m >= 70 THEN 1 ELSE IF m >= 50 THEN 2
                          ELSE IF m >= 30 THEN 3 ELSE 4
      /\ Judge!Grade(q) = IF n >= 85 THEN 0 ELSE IF n >= 70 THEN 1 ELSE IF n >= 50 THEN 2
                          ELSE IF n >= 30 THEN 3 ELSE 4
  BY DEF Judge!Grade
<1> HIDE DEF m, n
<1> QED
  BY <1>1, <1>2

\* A subject's kind tells what it is.
LEMMA Kinds ==
  ASSUME NEW s \in Judge!Subject
  PROVE  /\ s.kind = "target" => s \in Judge!Target
         /\ s.kind = "payload" => s \in Judge!Payload
         /\ s.kind = "tools" => s \in Judge!ToolPolicy
         /\ s.kind = "request" => s \in Judge!Request
         /\ s.kind = "scan" => s \in Judge!Scan
BY DEF Judge!Subject, Judge!Target, Judge!Payload, Judge!ToolPolicy, Judge!Request, Judge!Scan

\* A target, whatever it names.
LEMMA TargetStep ==
  ASSUME subject \in Judge!Target, Judge!AddMark \/ UNCHANGED subject
  PROVE  subject' \in Judge!Target /\ Judge!NotMilder
<1>1. subject' \in Judge!Target
  <2>1. CASE Judge!AddMark
    <3>1. PICK m \in Judge!Mark : subject' = [subject EXCEPT !.marks = @ \cup {m}]
      BY <2>1 DEF Judge!AddMark
    <3> QED
      BY <3>1 DEF Judge!Target
  <2>2. CASE UNCHANGED subject
    BY <2>2
  <2> QED
    BY <2>1, <2>2
<1>2. subject.kind = "target"
  BY DEF Judge!Target
<1>3. Judge!Secret(subject') =>
        \A n \in Judge!ToolName, s \in Judge!Source \ {"User"} :
          Judge!Judged(subject', n, s) = "Block"
  <2> DEFINE next == subject'
  <2>1. next \in Judge!Target
    BY <1>1
  <2> HIDE DEF next
  <2>2. Judge!Secret(next) =>
          \A n \in Judge!ToolName, s \in Judge!Source \ {"User"} : Judge!Judged(next, n, s) = "Block"
    BY <2>1, SecretBlocked
  <2> QED
    BY <2>2 DEF next
<1> QED
  BY <1>1, <1>2, <1>3 DEF Judge!NotMilder

\* A payload that begins like a binary goes on doing so.
LEMMA PayloadStep ==
  ASSUME subject \in Judge!Payload, Judge!AddHeader \/ UNCHANGED subject
  PROVE  subject' \in Judge!Payload /\ Judge!NotMilder
<1>1. subject' \in Judge!Payload /\ subject'.start = subject.start /\ subject.kind = "payload"
  BY DEF Judge!AddHeader, Judge!Payload
<1>2. Judge!Sniff(subject) \in Judge!Binary => Judge!Sniff(subject') = Judge!Sniff(subject)
  <2> DEFINE d == subject
             e == subject'
  <2>1. e.start = d.start
    BY <1>1
  <2> HIDE DEF d, e
  <2>2. Judge!Sniff(d) \in Judge!Binary => Judge!Sniff(e) = Judge!Sniff(d)
    BY <2>1, BinarySniffed
  <2> QED
    BY <2>2 DEF d, e
<1> QED
  BY <1>1, <1>2 DEF Judge!NotMilder

\* A policy that denies more, or allows less, permits no more.
LEMMA ToolsStep ==
  ASSUME subject \in Judge!ToolPolicy, Judge!Deny \/ Judge!Disallow \/ UNCHANGED subject
  PROVE  subject' \in Judge!ToolPolicy /\ Judge!NotMilder
<1>1. /\ subject' \in Judge!ToolPolicy /\ subject.kind = "tools" /\ subject'.strict = subject.strict
      /\ subject.deny \subseteq subject'.deny /\ subject'.allow \subseteq subject.allow
  <2>1. CASE Judge!Deny
    <3>1. PICK t \in Judge!Tool : subject' = [subject EXCEPT !.deny = @ \cup {t}]
      BY <2>1 DEF Judge!Deny
    <3> QED
      BY <3>1 DEF Judge!ToolPolicy
  <2>2. CASE Judge!Disallow
    <3>1. PICK t \in subject.allow : subject' = [subject EXCEPT !.allow = @ \ {t}]
      BY <2>2 DEF Judge!Disallow
    <3> QED
      BY <3>1 DEF Judge!ToolPolicy
  <2>3. CASE UNCHANGED subject
    BY <2>3 DEF Judge!ToolPolicy
  <2> QED
    BY <2>1, <2>2, <2>3
<1>2. (subject.strict /\ subject'.allow = {})
        \/ Judge!Permitted(subject') \subseteq Judge!Permitted(subject)
  BY <1>1 DEF Judge!Permitted
<1> QED
  BY <1>1, <1>2 DEF Judge!NotMilder

\* A request with a fault more, or to a host below.
LEMMA RequestStep ==
  ASSUME subject \in Judge!Request,
         Judge!Blocklist \/ Judge!Unlist \/ Judge!Suspect \/ Judge!Deeper \/ UNCHANGED subject
  PROVE  subject' \in Judge!Request /\ Judge!NotMilder
<1> DEFINE r == subject
           q == subject'
<1>1. /\ q \in Judge!Request /\ q.blockUnknown = r.blockUnknown
      /\ r.block \subseteq q.block /\ q.allow \subseteq r.allow
      /\ (r.paths => q.paths) /\ (r.entropy => q.entropy)
      /\ q.host = r.host \/ (Judge!IsPrefix(r.host, q.host) /\ q.block = r.block)
  <2>1. CASE Judge!Blocklist
    <3>1. PICK b \in Judge!BlockEntry : subject' = [subject EXCEPT !.block = @ \cup {b}]
      BY <2>1 DEF Judge!Blocklist
    <3> QED
      BY <3>1 DEF Judge!Request
  <2>2. CASE Judge!Unlist
    <3>1. PICK a \in subject.allow : subject' = [subject EXCEPT !.allow = @ \ {a}]
      BY <2>2 DEF Judge!Unlist
    <3> QED
      BY <3>1 DEF Judge!Request
  <2>3. CASE Judge!Suspect
    <3>1. \/ subject' = [subject EXCEPT !.entropy = TRUE]
          \/ subject' = [subject EXCEPT !.paths = TRUE]
      BY <2>3 DEF Judge!Suspect
    <3> QED
      BY <3>1 DEF Judge!Request
  <2>4. CASE Judge!Deeper
    <3>1. PICK h \in Judge!Host :
            Judge!IsPrefix(subject.host, h) /\ subject' = [subject EXCEPT !.host = h]
      BY <2>4 DEF Judge!Deeper
    <3> QED
      BY <3>1 DEF Judge!Request
  <2>5. CASE UNCHANGED subject
    BY <2>5 DEF Judge!Request
  <2> QED
    BY <2>1, <2>2, <2>3, <2>4, <2>5
<1>2. r.kind = "request" /\ r.host \in Judge!Host /\ q.host \in Judge!Host
      /\ r.block \subseteq Judge!BlockEntry
  BY <1>1 DEF Judge!Request
<1> HIDE DEF r, q
<1>3. CASE q.host = r.host
  <2>1. Judge!Blocklisted(r.host, r.block) => Judge!Blocklisted(q.host, q.block)
    BY <1>1, <1>3 DEF Judge!Blocklisted
  <2>2. Judge!Allowlisted(q.host, q.allow) => Judge!Allowlisted(r.host, r.allow)
    BY <1>1, <1>3 DEF Judge!Allowlisted
  <2>3. Judge!EgressRank[Judge!EgressOf(q)] >= Judge!EgressRank[Judge!EgressOf(r)]
    <3>1. r \in Judge!Request
      BY DEF r
    <3> QED
      BY <1>1, <2>1, <2>2, <3>1, EgressStricter
  <2> QED
    BY <1>1, <1>2, <2>3 DEF Judge!NotMilder, r, q
<1>4. CASE q.host # r.host /\ Judge!Blocklisted(r.host, r.block)
  <2>1. Judge!Blocklisted(q.host, q.block)
    BY <1>1, <1>2, <1>4, BlockedBelow
  <2>2. Judge!EgressOf(q) = "Block" /\ Judge!EgressOf(r) = "Block"
    <3>1. r \in Judge!Request
      BY DEF r
    <3> QED
      BY <1>1, <1>4, <2>1, <3>1, EgressAnswer
  <2>3. Judge!EgressRank[Judge!EgressOf(q)] >= Judge!EgressRank[Judge!EgressOf(r)]
    BY <2>2, EgressRanks
  <2> QED
    BY <1>1, <1>2, <2>3 DEF Judge!NotMilder, r, q
<1>5. CASE q.host # r.host /\ ~Judge!Blocklisted(r.host, r.block)
  BY <1>1, <1>2, <1>5 DEF Judge!NotMilder, r, q
<1> QED
  BY <1>3, <1>4, <1>5

\* A scan with a finding more.
LEMMA ScanStep ==
  ASSUME subject \in Judge!Scan, Judge!Match \/ Judge!Unsolicited \/ UNCHANGED subject
  PROVE  subject' \in Judge!Scan /\ Judge!NotMilder
<1> DEFINE s == subject
           q == subject'
<1>1. /\ q \in Judge!Scan /\ q.https = s.https /\ q.official = s.official
      /\ q.worst >= s.worst /\ (s.unsolicited => q.unsolicited)
  <2>1. CASE Judge!Match
    <3>1. PICK severity \in Judge!Severities :
            subject' = [subject EXCEPT !.worst = Judge!Worst(subject, severity)]
      BY <2>1 DEF Judge!Match
    <3>2. Judge!Worst(subject, severity) \in Judge!Severities
          /\ Judge!Worst(subject, severity) >= subject.worst
      BY WorstRises
    <3> QED
      BY <3>1, <3>2 DEF Judge!Scan
  <2>2. CASE Judge!Unsolicited
    <3>1. subject' = [subject EXCEPT !.unsolicited = TRUE, !.worst = Judge!Worst(subject, 85)]
      BY <2>2 DEF Judge!Unsolicited
    <3>2. 85 \in Judge!Severities
      BY DEF Judge!Severities
    <3>3. Judge!Worst(subject, 85) \in Judge!Severities /\ Judge!Worst(subject, 85) >= subject.worst
      BY <3>2, WorstRises
    <3> QED
      BY <3>1, <3>3 DEF Judge!Scan
  <2>3. CASE UNCHANGED subject
    <3>1. subject.worst \in Judge!Severities
      BY DEF Judge!Scan
    <3>2. subject.worst >= subject.worst
      BY <3>1 DEF Judge!Severities
    <3> QED
      BY <2>3, <3>2
  <2> QED
    BY <2>1, <2>2, <2>3
<1>2. s.kind = "scan" /\ s \in Judge!Scan
  BY DEF Judge!Scan
<1>3. Judge!Grade(q) >= Judge!Grade(s)
  <2> HIDE DEF s, q
  <2> QED
    BY <1>1, <1>2, GradeFalls
<1> QED
  BY <1>1, <1>2, <1>3 DEF Judge!NotMilder

\* Every step leaves a subject that is not judged milder.
LEMMA JudgeStep ==
  ASSUME subject \in Judge!Subject, [Judge!Next]_subject
  PROVE  subject' \in Judge!Subject /\ Judge!NotMilder
<1>1. subject.kind \in {"target", "payload", "tools", "request", "scan"}
  BY DEF Judge!Subject, Judge!Target, Judge!Payload, Judge!ToolPolicy, Judge!Request, Judge!Scan
<1> USE DEF Judge!Next, Judge!AddMark, Judge!AddHeader, Judge!Deny, Judge!Disallow, Judge!Blocklist,
            Judge!Unlist, Judge!Suspect, Judge!Deeper, Judge!Match, Judge!Unsolicited
<1>2. CASE subject.kind = "target"
  <2>1. Judge!AddMark \/ UNCHANGED subject
    BY <1>2
  <2> QED
    BY <1>2, <2>1, Kinds, TargetStep DEF Judge!Subject
<1>3. CASE subject.kind = "payload"
  <2>1. Judge!AddHeader \/ UNCHANGED subject
    BY <1>3
  <2> QED
    BY <1>3, <2>1, Kinds, PayloadStep DEF Judge!Subject
<1>4. CASE subject.kind = "tools"
  <2>1. Judge!Deny \/ Judge!Disallow \/ UNCHANGED subject
    BY <1>4
  <2> QED
    BY <1>4, <2>1, Kinds, ToolsStep DEF Judge!Subject
<1>5. CASE subject.kind = "request"
  <2>1. Judge!Blocklist \/ Judge!Unlist \/ Judge!Suspect \/ Judge!Deeper \/ UNCHANGED subject
    BY <1>5
  <2> QED
    BY <1>5, <2>1, Kinds, RequestStep DEF Judge!Subject
<1>6. CASE subject.kind = "scan"
  <2>1. Judge!Match \/ Judge!Unsolicited \/ UNCHANGED subject
    BY <1>6
  <2> QED
    BY <1>6, <2>1, Kinds, ScanStep DEF Judge!Subject
<1> QED
  BY <1>1, <1>2, <1>3, <1>4, <1>5, <1>6

\* So the subject stays one of the five kinds.
LEMMA JudgeSafety == SpecAll => [](component = "judge" => subject \in Judge!Subject)
<1> DEFINE I == component = "judge" => subject \in Judge!Subject
<1>1. InitAll => I
  BY DEF InitAll, Judge!Init, Judge!Subject
<1>2. I /\ [NextAll]_allVars => I'
  <2> SUFFICES ASSUME I, [NextAll]_allVars, component' = "judge"
               PROVE  subject' \in Judge!Subject
    OBVIOUS
  <2> QED
    BY OneRuns, JudgeStep
<1> QED
  BY <1>1, <1>2, PTL DEF SpecAll

\* For every set of marks, lists and findings: a path that names a secret is blocked for
\* every origin but the user, whatever else is marked in it (classify, and nothing is
\* said of other targets); a binary stays one under a tar header (sniff_content); a
\* tool denied or taken off the list makes no other permitted, but the last one of a
\* strict list (tool_policy.rs); a request with one more fault, or to a host below, is
\* not answered more mildly (egress.rs); one more match raises no grade (score.rs).
THEOREM WorseIsNotMilder == SpecAll => WorseNeverMilder
<1>1. (component = "judge" => subject \in Judge!Subject) /\ [NextAll]_allVars
        => [component = "judge" => Judge!NotMilder]_allVars
  <2> SUFFICES ASSUME component = "judge", subject \in Judge!Subject, [NextAll]_allVars
               PROVE  Judge!NotMilder
    OBVIOUS
  <2> QED
    BY OneRuns, JudgeStep
<1> QED
  BY <1>1, JudgeSafety, PTL DEF SpecAll, WorseNeverMilder
=============================================================================
