----------------------------- MODULE SessionProofs -----------------------------
(***************************************************************************)
(* Proofs of what a session's file and a session's graph promise, each     *)
(* over the behaviours in which it runs, and of the types of every         *)
(* component.                                                              *)
(***************************************************************************)
EXTENDS ComponentProofs, ProvenanceStoreProofs

-------------------------------------------------------------------------------
(* The grants that a log leaves.                                           *)

Sets(events, g, n) == {i \in 1 .. n : events[i].kind = "grant" /\ events[i].name = g}

\* The last of the events that set a grant.
LEMMA LastSet ==
  ASSUME NEW events, NEW g, NEW n \in Nat, Sets(events, g, n) # {}
  PROVE  /\ Arbiter!Max(Sets(events, g, n)) \in Sets(events, g, n)
         /\ \A i \in Sets(events, g, n) : Arbiter!Max(Sets(events, g, n)) >= i
<1> DEFINE S == Sets(events, g, n)
<1>1. S \in SUBSET Nat /\ \A i \in S : i <= n
  BY DEF Sets
<1> HIDE DEF S
<1>2. S # {} => /\ Arbiter!Max(S) \in S
                /\ \A i \in S : Arbiter!Max(S) >= i
  BY <1>1, Greatest DEF Arbiter!Max
<1> QED
  BY <1>2 DEF S

\* The events up to the n-th alone decide.
LEMMA ReplayPrefix ==
  ASSUME NEW events, NEW longer, NEW n \in Nat, \A i \in 1 .. n : longer[i] = events[i]
  PROVE  Arbiter!Replayed(longer, n) = Arbiter!Replayed(events, n)
<1>1. \A g : Sets(longer, g, n) = Sets(events, g, n)
  BY DEF Sets
<1>2. ASSUME NEW g \in Arbiter!Grant
      PROVE  Arbiter!Replayed(longer, n)[g] = Arbiter!Replayed(events, n)[g]
  <2> DEFINE S == Sets(events, g, n)
  <2>1. /\ Arbiter!Replayed(longer, n)[g] = (S # {} /\ longer[Arbiter!Max(S)].value)
        /\ Arbiter!Replayed(events, n)[g] = (S # {} /\ events[Arbiter!Max(S)].value)
    BY <1>1 DEF Arbiter!Replayed, Sets
  <2>2. S # {} => Arbiter!Max(S) \in 1 .. n
    <3>1. S \subseteq 1 .. n
      BY DEF Sets
    <3> QED
      BY <3>1, LastSet
  <2> HIDE DEF S
  <2> QED
    BY <2>1, <2>2
<1> QED
  BY <1>2 DEF Arbiter!Replayed

\* An event that does not set a grant leaves it as it was.
LEMMA ReplayOther ==
  ASSUME NEW events, NEW n \in Nat, NEW g \in Arbiter!Grant,
         ~ (events[n + 1].kind = "grant" /\ events[n + 1].name = g)
  PROVE  Arbiter!Replayed(events, n + 1)[g] = Arbiter!Replayed(events, n)[g]
<1>1. Sets(events, g, n + 1) = Sets(events, g, n)
  BY DEF Sets
<1> QED
  BY <1>1 DEF Arbiter!Replayed, Sets

\* One that sets it is the last word.
LEMMA ReplayGrant ==
  ASSUME NEW events, NEW n \in Nat, NEW g \in Arbiter!Grant,
         events[n + 1].kind = "grant", events[n + 1].name = g,
         events[n + 1].value \in BOOLEAN
  PROVE  Arbiter!Replayed(events, n + 1)[g] = events[n + 1].value
<1> DEFINE S == Sets(events, g, n + 1)
<1>1. n + 1 \in S /\ \A i \in S : i \in 1 .. n + 1
  BY DEF Sets
<1>2. Arbiter!Max(S) = n + 1
  BY <1>1, LastSet
<1>3. Arbiter!Replayed(events, n + 1)[g] = (S # {} /\ events[Arbiter!Max(S)].value)
  BY DEF Arbiter!Replayed, Sets
<1> HIDE DEF S
<1> QED
  BY <1>1, <1>2, <1>3

-------------------------------------------------------------------------------
(* A session that its log explains stays one, whatever a command makes of  *)
(* it.                                                                     *)

GoodSession(s) == s \in Arbiter!Session /\ Arbiter!Followed(s) /\ Arbiter!Explained(s)

\* The places of the decisions kept in the log.
Rising(at) == \A k, l \in DOMAIN at : k < l => at[k] < at[l]
AllPlaced(s, at) ==
  \A i \in DOMAIN s.events :
    s.events[i].kind = "action" =>
      \/ \E k \in DOMAIN at : at[k] = i
      \/ Len(s.recent) = Recent /\ \A k \in DOMAIN at : i < at[k]
DecidedThere(s, d, i) ==
  /\ s.events[i] = [kind |-> "action", action |-> d.action, decision |-> d.decision]
  /\ d.decision = Arbiter!Final(d.mode, Arbiter!Policy(Arbiter!Replayed(s.events, i - 1), d.action))
PlacedAt(s, at) ==
  /\ at \in [DOMAIN s.recent -> DOMAIN s.events]
  /\ Rising(at) /\ AllPlaced(s, at)
  /\ \A k \in DOMAIN at : DecidedThere(s, s.recent[k], at[k])

\* To be explained is to have rising places in the log.
LEMMA ExplainedIsPlaced ==
  ASSUME NEW s
  PROVE  Arbiter!Explained(s) <=> \E at : PlacedAt(s, at)
BY DEF Arbiter!Explained, PlacedAt, Rising, AllPlaced, DecidedThere

\* What was decided stays decided in a longer log.
LEMMA DecidedLater ==
  ASSUME NEW s \in Arbiter!Session, NEW t, NEW e, NEW d, NEW i \in DOMAIN s.events,
         t.events = Append(s.events, e), DecidedThere(s, d, i)
  PROVE  DecidedThere(t, d, i)
<1> DEFINE n == Len(s.events)
<1>1. n \in Nat /\ i \in 1 .. n /\ \A j \in 1 .. n : t.events[j] = s.events[j]
  BY DEF Arbiter!Session
<1>2. i - 1 \in Nat /\ \A j \in 1 .. i - 1 : t.events[j] = s.events[j]
  BY <1>1
<1>3. Arbiter!Replayed(t.events, i - 1) = Arbiter!Replayed(s.events, i - 1)
  BY <1>2, ReplayPrefix
<1> QED
  BY <1>1, <1>3 DEF DecidedThere

\* session::create
LEMMA NewIsGood == GoodSession(Arbiter!New)
<1> DEFINE s == Arbiter!New
<1>1. /\ s.events = << [kind |-> "intent"] >> /\ s.recent = <<>>
      /\ s.grants = [g \in Arbiter!Grant |-> FALSE] /\ s.mode = "Enforce"
  BY DEF Arbiter!New
<1>2. s \in Arbiter!Session
  BY ComponentsAssumption
     DEF Arbiter!New, Arbiter!Session, Arbiter!Event, Arbiter!Mode
<1>3. Arbiter!Followed(s)
  <2>1. \A g : Sets(s.events, g, 1) = {}
    BY <1>1 DEF Sets
  <2>2. Len(s.events) = 1
    BY <1>1
  <2> HIDE DEF s
  <2>3. \A g \in Arbiter!Grant : Arbiter!Replayed(s.events, 1)[g] = FALSE
    BY <2>1 DEF Arbiter!Replayed, Sets
  <2> QED
    BY <1>1, <2>2, <2>3 DEF Arbiter!Followed, Arbiter!Replayed
<1>4. PlacedAt(s, <<>>)
  BY <1>1 DEF PlacedAt, Rising, AllPlaced
<1> QED
  BY <1>2, <1>3, <1>4, ExplainedIsPlaced DEF GoodSession

\* A log that ends with an event that decides nothing, and explains the grants.
LEMMA MoreLogged ==
  ASSUME NEW s, GoodSession(s), NEW t \in Arbiter!Session, NEW e,
         t.events = Append(s.events, e), e.kind # "action",
         t.recent = s.recent, Arbiter!Followed(t)
  PROVE  GoodSession(t)
<1>1. s \in Arbiter!Session /\ s.events \in Seq(Arbiter!Event)
  BY DEF GoodSession, Arbiter!Session
<1>2. PICK at : PlacedAt(s, at)
  BY ExplainedIsPlaced DEF GoodSession
<1> DEFINE n == Len(s.events)
<1>3. /\ n \in Nat /\ DOMAIN s.events = 1 .. n /\ DOMAIN t.events = 1 .. n + 1
      /\ \A i \in 1 .. n : t.events[i] = s.events[i]
      /\ t.events[n + 1] = e
  BY <1>1
<1> HIDE DEF n
<1>4. at \in [DOMAIN t.recent -> DOMAIN t.events] /\ Rising(at)
  BY <1>2, <1>3 DEF PlacedAt
<1>5. AllPlaced(t, at)
  <2> SUFFICES ASSUME NEW i \in 1 .. n + 1, t.events[i].kind = "action"
               PROVE  \/ \E k \in DOMAIN at : at[k] = i
                      \/ Len(t.recent) = Recent /\ \A k \in DOMAIN at : i < at[k]
    BY <1>3 DEF AllPlaced
  <2>1. i \in 1 .. n /\ s.events[i].kind = "action"
    BY <1>3
  <2> QED
    BY <1>2, <1>3, <2>1 DEF PlacedAt, AllPlaced
<1>6. \A k \in DOMAIN at : DecidedThere(t, t.recent[k], at[k])
  BY <1>1, <1>2, DecidedLater DEF PlacedAt
<1>7. PlacedAt(t, at)
  BY <1>4, <1>5, <1>6 DEF PlacedAt
<1> QED
  BY <1>7, ExplainedIsPlaced DEF GoodSession

\* A grant that is set is in the log and in the file.
LEMMA GrantIsGood ==
  ASSUME NEW s, GoodSession(s), NEW name \in Arbiter!GrantName, NEW value \in BOOLEAN
  PROVE  GoodSession(Arbiter!SetGrant(s, name, value))
<1> DEFINE t == Arbiter!SetGrant(s, name, value)
           e == [kind |-> "grant", name |-> name, value |-> value]
<1>1. s \in Arbiter!Session /\ Arbiter!Followed(s)
  BY DEF GoodSession
<1>2. e \in Arbiter!Event /\ e.kind = "grant" /\ e.name = name /\ e.value = value
  BY DEF Arbiter!Event
<1>3. /\ t.grants = [g \in Arbiter!Grant |-> IF g = name THEN value ELSE s.grants[g]]
      /\ t.events = Append(s.events, e) /\ t.recent = s.recent /\ t.mode = s.mode
      /\ t = [grants |-> t.grants, mode |-> t.mode, events |-> t.events, recent |-> t.recent]
  <2> DEFINE G == [g \in Arbiter!Grant |-> IF g = name THEN value ELSE s.grants[g]]
  <2>1. s = [grants |-> s.grants, mode |-> s.mode, events |-> s.events, recent |-> s.recent]
    BY <1>1 DEF Arbiter!Session
  <2>2. t = [s EXCEPT !.grants = G, !.events = Append(s.events, e)]
    BY <2>1 DEF Arbiter!SetGrant
  <2> HIDE DEF t, e, G
  <2>3. t = [grants |-> G, mode |-> s.mode, events |-> Append(s.events, e), recent |-> s.recent]
    BY <2>1, <2>2
  <2> QED
    BY <2>3 DEF G
<1> HIDE DEF t, e
<1>4. t \in Arbiter!Session
  <2>1. s.events \in Seq(Arbiter!Event) /\ s.grants \in [Arbiter!Grant -> BOOLEAN]
    BY <1>1 DEF Arbiter!Session
  <2>2. t.events \in Seq(Arbiter!Event) /\ t.grants \in [Arbiter!Grant -> BOOLEAN]
    BY <1>2, <1>3, <2>1
  <2> QED
    BY <1>1, <1>3, <2>2 DEF Arbiter!Session
<1> DEFINE n == Len(s.events)
<1>5. /\ n \in Nat /\ Len(t.events) = n + 1 /\ t.events[n + 1] = e
      /\ \A i \in 1 .. n : t.events[i] = s.events[i]
  BY <1>1, <1>3 DEF Arbiter!Session
<1>6. s.grants = Arbiter!Replayed(s.events, n)
  BY <1>1 DEF Arbiter!Followed
<1> HIDE DEF n
<1>7. Arbiter!Replayed(t.events, n) = s.grants
  BY <1>5, <1>6, ReplayPrefix
<1>8. ASSUME NEW g \in Arbiter!Grant
      PROVE  Arbiter!Replayed(t.events, n + 1)[g] = t.grants[g]
  <2>1. CASE g = name
    <3>1. Arbiter!Replayed(t.events, n + 1)[g] = t.events[n + 1].value
      BY <1>2, <1>5, <2>1, ReplayGrant
    <3> QED
      BY <1>2, <1>3, <1>5, <2>1, <3>1
  <2>2. CASE g # name
    <3>1. Arbiter!Replayed(t.events, n + 1)[g] = Arbiter!Replayed(t.events, n)[g]
      BY <1>2, <1>5, <2>2, ReplayOther
    <3> QED
      BY <1>3, <1>7, <2>2, <3>1
  <2> QED
    BY <2>1, <2>2
<1>9. Arbiter!Followed(t)
  BY <1>3, <1>5, <1>8 DEF Arbiter!Followed, Arbiter!Replayed
<1>10. GoodSession(t)
  BY <1>2, <1>3, <1>4, <1>9, MoreLogged
<1> QED
  BY <1>10 DEF t

\* A mode that is set changes no grant.
LEMMA ModeIsGood ==
  ASSUME NEW s, GoodSession(s), NEW mode \in Modes
  PROVE  GoodSession([s EXCEPT !.mode = mode])
<1> DEFINE t == [s EXCEPT !.mode = mode]
<1>1. s \in Arbiter!Session
  BY DEF GoodSession
<1>2. t \in Arbiter!Session
  BY <1>1, ComponentsAssumption DEF Arbiter!Session
<1>3. t.grants = s.grants /\ t.events = s.events /\ t.recent = s.recent
  BY <1>1 DEF Arbiter!Session
<1> HIDE DEF t
<1>4. Arbiter!Followed(t) /\ Arbiter!Explained(t)
  BY <1>3 DEF GoodSession, Arbiter!Followed, Arbiter!Explained
<1> QED
  BY <1>2, <1>4 DEF GoodSession, t

\* What append_decision keeps: all, or all but the oldest.
LEMMA KeptRecent ==
  ASSUME NEW s \in Arbiter!Session, NEW d
  PROVE  \E off \in {0, 1} :
           /\ off = 1 => Len(s.recent) = Recent
           /\ LET kept == Arbiter!Keep(Append(s.recent, d))
                  m    == Len(s.recent) + 1 - off
              IN  /\ m \in Nat \ {0} /\ m <= Recent /\ DOMAIN kept = 1 .. m /\ kept[m] = d
                  /\ \A k \in 1 .. m - 1 : kept[k] = s.recent[k + off]
                  /\ kept = [k \in 1 .. m |-> kept[k]]
<1> DEFINE r == s.recent
           longer == Append(r, d)
           n == Len(r)
<1>1. r \in Seq([action: Arbiter!Action, decision: Arbiter!FinalDecision, mode: Arbiter!Mode])
      /\ Len(r) <= Recent
  BY DEF Arbiter!Session
<1>2. /\ n \in Nat /\ n <= Recent /\ Recent \in Nat \ {0}
      /\ longer \in Seq({d} \cup {r[k] : k \in 1 .. n}) /\ Len(longer) = n + 1
      /\ longer[n + 1] = d
      /\ \A k \in 1 .. n : longer[k] = r[k]
  <2>1. r \in Seq({r[k] : k \in 1 .. n})
    BY <1>1
  <2>2. r \in Seq({d} \cup {r[k] : k \in 1 .. n})
    BY <2>1
  <2> QED
    BY <1>1, <2>2, ComponentsAssumption
<1> HIDE DEF longer, n
<1>3. CASE n + 1 > Recent
  <2> DEFINE kept == Tail(longer)
  <2>1. Arbiter!Keep(longer) = kept
    BY <1>2, <1>3 DEF Arbiter!Keep
  <2>2. n = Recent
    BY <1>2, <1>3
  <2>3. kept = [k \in 1 .. n |-> longer[k + 1]]
    <3> DEFINE T == {d} \cup {r[k] : k \in 1 .. n}
    <3>1. longer \in Seq(T) /\ Len(longer) = n + 1 /\ n \in Nat
      BY <1>2
    <3> HIDE DEF T
    <3>2. /\ longer # <<>> /\ Len(kept) = n /\ kept \in Seq(T)
          /\ \A k \in 1 .. n : kept[k] = longer[k + 1]
      BY <3>1
    <3> HIDE DEF kept
    <3> QED
      BY <3>2
  <2> HIDE DEF kept
  <2>4. n \in Nat \ {0} /\ n + 1 - 1 = n
    BY <1>2, <2>2
  <2>5. kept[n] = d
    BY <1>2, <2>3, <2>4
  <2>6. \A k \in 1 .. n - 1 : kept[k] = r[k + 1]
    BY <1>2, <2>3, <2>4
  <2> QED
    BY <1>2, <2>1, <2>2, <2>3, <2>4, <2>5, <2>6 DEF n, longer
<1>4. CASE n + 1 <= Recent
  <2>1. Arbiter!Keep(longer) = longer
    BY <1>2, <1>4 DEF Arbiter!Keep
  <2>2. /\ DOMAIN longer = 1 .. n + 1 /\ n + 1 - 0 = n + 1 /\ n + 1 - 1 = n
        /\ longer = [k \in 1 .. n + 1 |-> longer[k]]
        /\ \A k \in 1 .. n : k + 0 = k
    BY <1>2
  <2>3. Arbiter!Keep(Append(s.recent, d)) = longer /\ Len(s.recent) + 1 - 0 = n + 1
    BY <2>1, <2>2 DEF n, longer
  <2>4. \A k \in 1 .. n : longer[k] = s.recent[k + 0]
    <3> TAKE k \in 1 .. n
    <3>1. longer[k] = r[k] /\ k + 0 = k
      BY <1>2, <2>2
    <3> QED
      BY <3>1
  <2>5. n + 1 \in Nat \ {0}
    BY <1>2
  <2> DEFINE kept == Arbiter!Keep(Append(s.recent, d))
             m == Len(s.recent) + 1 - 0
  <2>6. kept = longer /\ m = n + 1
    BY <2>3
  <2> HIDE DEF kept, m
  <2>7. m \in Nat \ {0} /\ m <= Recent /\ DOMAIN kept = 1 .. m /\ kept[m] = d
    BY <1>2, <1>4, <2>2, <2>5, <2>6
  <2>8. m - 1 = n
    BY <1>2, <2>6
  <2>9. kept = [k \in 1 .. m |-> kept[k]]
    <3>1. longer = [k \in 1 .. n + 1 |-> longer[k]]
      BY <2>2
    <3> QED
      BY <2>6, <3>1
  <2>10. \A k \in 1 .. m - 1 : kept[k] = s.recent[k + 0]
    BY <2>4, <2>6, <2>8
  <2> WITNESS 0 \in {0, 1}
  <2> QED
    BY <2>7, <2>9, <2>10 DEF kept, m
<1> QED
  BY <1>2, <1>3, <1>4

\* Places for the decisions kept: those that had one keep it, the new one gets the
\* end of the log; what is dropped came before all of them.
LEMMA PlacedRecord ==
  ASSUME NEW s \in Arbiter!Session, NEW t, NEW e, NEW d, NEW at, PlacedAt(s, at),
         NEW off \in {0, 1}, off = 1 => Len(s.recent) = Recent,
         NEW m \in Nat \ {0}, m = Len(s.recent) + 1 - off, m <= Recent,
         t.events = Append(s.events, e), DOMAIN t.recent = 1 .. m, Len(t.recent) = m,
         t.recent[m] = d, \A k \in 1 .. m - 1 : t.recent[k] = s.recent[k + off],
         DecidedThere(t, d, Len(s.events) + 1)
  PROVE  \E new : PlacedAt(t, new)
<1> DEFINE n == Len(s.events)
           l == Len(s.recent)
           new == [k \in 1 .. m |-> IF k = m THEN n + 1 ELSE at[k + off]]
<1>1. /\ n \in Nat /\ DOMAIN s.events = 1 .. n /\ DOMAIN t.events = 1 .. n + 1
      /\ \A i \in 1 .. n : t.events[i] = s.events[i]
  BY DEF Arbiter!Session
<1>2. /\ l \in Nat /\ DOMAIN s.recent = 1 .. l /\ Recent \in Nat \ {0}
      /\ m = l + 1 - off /\ off \in Nat
  BY ComponentsAssumption DEF Arbiter!Session
<1>3. DOMAIN at = 1 .. l /\ \A k \in 1 .. l : at[k] \in 1 .. n
  BY <1>1, <1>2 DEF PlacedAt
<1>4. \A k \in 1 .. m - 1 : k + off \in 1 .. l
  <2>1. m \in Nat
    OBVIOUS
  <2> QED
    BY ONLY <1>2, <2>1
<1>5. Rising(at) /\ AllPlaced(s, at) /\ \A k \in 1 .. l : DecidedThere(s, s.recent[k], at[k])
  BY <1>3 DEF PlacedAt
<1>6. DecidedThere(t, d, n + 1)
  OBVIOUS
<1> HIDE DEF n, l
<1>7. /\ DOMAIN new = 1 .. m /\ new[m] = n + 1
      /\ \A k \in 1 .. m - 1 : new[k] = at[k + off] /\ new[k] \in 1 .. n
      /\ new \in [1 .. m -> 1 .. n + 1]
  <2>1. \A k \in 1 .. m : k # m => k \in 1 .. m - 1
    OBVIOUS
  <2>2. \A k \in 1 .. m : (IF k = m THEN n + 1 ELSE at[k + off]) \in 1 .. n + 1
    <3> TAKE k \in 1 .. m
    <3>1. CASE k = m
      BY <1>1, <3>1
    <3>2. CASE k # m
      <4>1. at[k + off] \in 1 .. n
        BY <1>3, <1>4, <2>1, <3>2
      <4>2. at[k + off] \in 1 .. n + 1
        BY <1>1, <4>1
      <4> QED
        BY <3>2, <4>2
    <3> QED
      BY <3>1, <3>2
  <2>3. \A k \in 1 .. m - 1 : new[k] = at[k + off]
    OBVIOUS
  <2>4. \A k \in 1 .. m - 1 : at[k + off] \in 1 .. n
    BY <1>3, <1>4
  <2>5. m \in 1 .. m
    OBVIOUS
  <2> QED
    BY <2>2, <2>3, <2>4, <2>5
<1> HIDE DEF new
<1>8. Rising(new)
  <2> SUFFICES ASSUME NEW j \in 1 .. m, NEW k \in 1 .. m, j < k
               PROVE  new[j] < new[k]
    BY <1>7 DEF Rising
  <2>1. j \in 1 .. m - 1
    OBVIOUS
  <2>4. new[j] = at[j + off] /\ new[j] \in 1 .. n
    BY <1>7, <2>1
  <2>2. CASE k = m
    BY <1>1, <1>7, <2>2, <2>4
  <2>3. CASE k # m
    <3>0. j \in Nat /\ k \in Nat /\ off \in Nat /\ j < k
      OBVIOUS
    <3>1. k \in 1 .. m - 1 /\ j + off < k + off
      <4>1. k \in 1 .. m - 1
        <5>1. k \in 1 .. m /\ m \in Nat
          OBVIOUS
        <5> QED
          BY ONLY <2>3, <5>1
      <4>2. j + off < k + off
        BY ONLY <3>0
      <4> QED
        BY <4>1, <4>2
    <3>2. at[j + off] < at[k + off]
      BY <1>3, <1>4, <1>5, <2>1, <3>1 DEF Rising
    <3>3. new[k] = at[k + off]
      BY <1>7, <3>1
    <3> QED
      BY <2>4, <3>2, <3>3
  <2> QED
    BY <2>2, <2>3
<1>9. AllPlaced(t, new)
  <2> SUFFICES ASSUME NEW i \in 1 .. n + 1, t.events[i].kind = "action"
               PROVE  \/ \E k \in DOMAIN new : new[k] = i
                      \/ Len(t.recent) = Recent /\ \A k \in DOMAIN new : i < new[k]
    BY <1>1 DEF AllPlaced
  <2>1. CASE i = n + 1
    <3>1. m \in DOMAIN new /\ new[m] = i
      BY <1>7, <2>1
    <3> QED
      BY <3>1
  <2>2. CASE i # n + 1
    <3>1. i \in 1 .. n /\ s.events[i].kind = "action"
      BY <1>1, <2>2
    <3>2. (\E k \in 1 .. l : at[k] = i) \/ (l = Recent /\ \A k \in 1 .. l : i < at[k])
      BY <1>1, <1>3, <1>5, <3>1 DEF AllPlaced, l
    <3>3. ASSUME NEW k \in 1 .. l, at[k] = i, k - off \in 1 .. m - 1
          PROVE  new[k - off] = i
      <4>1. k - off + off = k
        OBVIOUS
      <4> QED
        BY <1>7, <3>3, <4>1
    <3>4. ASSUME NEW k \in 1 .. l, at[k] = i, k - off \notin 1 .. m - 1
          PROVE  l = Recent /\ \A j \in 1 .. m : i < new[j]
      <4>1. k = 1 /\ off = 1
        BY <1>2, <3>4
      <4>2. l = Recent
        BY <4>1 DEF l
      <4>3. ASSUME NEW j \in 1 .. m - 1 PROVE i < new[j]
        <5>1. j + off \in 1 .. l /\ 1 < j + off
          BY <1>4, <4>1
        <5>2. at[1] < at[j + off]
          <6>1. 1 \in DOMAIN at /\ j + off \in DOMAIN at
            BY <1>3, <3>4, <4>1, <5>1
          <6> QED
            BY <1>5, <5>1, <6>1 DEF Rising
        <5>3. new[j] = at[j + off] /\ at[1] = i
          BY <1>7, <3>4, <4>1
        <5> QED
          BY <5>2, <5>3
      <4>4. i < new[m]
        BY <1>1, <1>7, <3>1
      <4> QED
        BY <4>2, <4>3, <4>4
    <3>5. ASSUME l = Recent, \A k \in 1 .. l : i < at[k]
          PROVE  \A j \in 1 .. m : i < new[j]
      <4>1. \A j \in 1 .. m - 1 : i < new[j]
        BY <1>4, <1>7, <3>5
      <4>2. i < new[m]
        BY <1>1, <1>7, <3>1
      <4> QED
        BY <4>1, <4>2
    <3>6. l = Recent => (off = 1 => m = Recent)
      BY <1>2
    <3>7. CASE off = 1
      BY <1>7, <3>2, <3>3, <3>4, <3>5, <3>6, <3>7 DEF l
    <3>8. CASE off = 0
      <4>1. l # Recent /\ m = l + 1
        BY <1>2, <3>8
      <4>2. PICK k \in 1 .. l : at[k] = i
        BY <3>2, <4>1
      <4>3. k - off \in 1 .. m - 1
        BY <1>2, <3>8, <4>1
      <4>4. new[k - off] = i /\ k - off \in DOMAIN new
        BY <1>7, <3>3, <4>2, <4>3
      <4> QED
        BY <4>4
    <3> QED
      BY <3>7, <3>8
  <2> QED
    BY <2>1, <2>2
<1>10. ASSUME NEW k \in 1 .. m
       PROVE  DecidedThere(t, t.recent[k], new[k])
  <2>1. CASE k = m
    BY <1>6, <1>7, <2>1
  <2>2. CASE k # m
    <3>1. k \in 1 .. m - 1 /\ k + off \in 1 .. l
      BY <1>4, <2>2
    <3>2. at[k + off] \in DOMAIN s.events /\ DecidedThere(s, s.recent[k + off], at[k + off])
      BY <1>1, <1>3, <1>5, <3>1
    <3> QED
      BY <1>7, <3>1, <3>2, DecidedLater
  <2> QED
    BY <2>1, <2>2
<1> QED
  BY <1>1, <1>7, <1>8, <1>9, <1>10 DEF PlacedAt

\* record_outcome, of what the policy and the mode say of the copy's own state.
LEMMA EnforcedIsGood ==
  ASSUME NEW s, GoodSession(s), NEW a \in Arbiter!Action
  PROVE  GoodSession(Arbiter!Enforced(s, a))
<1> DEFINE f == Arbiter!Final(s.mode, Arbiter!Policy(s.grants, a))
           d == [action |-> a, decision |-> f, mode |-> s.mode]
           e == [kind |-> "action", action |-> a, decision |-> f]
           kept == Arbiter!Keep(Append(s.recent, d))
           t == Arbiter!Enforced(s, a)
<1>1. s \in Arbiter!Session /\ Arbiter!Followed(s) /\ Arbiter!Explained(s)
  BY DEF GoodSession
<1>2. f \in Arbiter!FinalDecision
  <2>1. Arbiter!Policy(s.grants, a) \in {"Allow", "AllowWithRedaction", "Ask", "Block"}
    BY DEF Arbiter!Policy, Arbiter!Action
  <2>2. s.mode \in Arbiter!Mode
    BY <1>1 DEF Arbiter!Session
  <2> QED
    BY <2>1, <2>2 DEF Arbiter!Final, Arbiter!Mode, Arbiter!FinalDecision
<1>3. t = [s EXCEPT !.recent = kept, !.events = Append(s.events, e)]
  <2>1. s = [grants |-> s.grants, mode |-> s.mode, events |-> s.events, recent |-> s.recent]
    BY <1>1 DEF Arbiter!Session
  <2> QED
    BY <2>1 DEF Arbiter!Enforced, Arbiter!Record
<1>4. e.kind = "action" /\ e.action = a /\ e.decision = f
  OBVIOUS
<1>5. d.action = a /\ d.decision = f /\ d.mode = s.mode
  OBVIOUS
<1>6. e \in Arbiter!Event
  BY <1>2 DEF Arbiter!Event
<1>7. s.mode \in Arbiter!Mode /\ d \in [action: Arbiter!Action, decision: Arbiter!FinalDecision, mode: Arbiter!Mode]
  BY <1>1, <1>2 DEF Arbiter!Session
<1>8. e = [kind |-> "action", action |-> d.action, decision |-> d.decision]
  OBVIOUS
<1>9. d.decision = Arbiter!Final(d.mode, Arbiter!Policy(s.grants, d.action))
  OBVIOUS
<1> HIDE DEF e, d, t, f, kept
<1>10. t = [grants |-> s.grants, mode |-> s.mode, events |-> Append(s.events, e), recent |-> kept]
  <2>1. s = [grants |-> s.grants, mode |-> s.mode, events |-> s.events, recent |-> s.recent]
    BY <1>1 DEF Arbiter!Session
  <2> QED
    BY <1>3, <2>1
<1>11. PICK off \in {0, 1} :
         /\ off = 1 => Len(s.recent) = Recent
         /\ LET m == Len(s.recent) + 1 - off
            IN  /\ m \in Nat \ {0} /\ m <= Recent /\ DOMAIN kept = 1 .. m /\ kept[m] = d
                /\ \A k \in 1 .. m - 1 : kept[k] = s.recent[k + off]
                /\ kept = [k \in 1 .. m |-> kept[k]]
  BY <1>1, KeptRecent DEF kept
<1> DEFINE m == Len(s.recent) + 1 - off
           D == [action: Arbiter!Action, decision: Arbiter!FinalDecision, mode: Arbiter!Mode]
<1>12. /\ m \in Nat \ {0} /\ m <= Recent /\ DOMAIN kept = 1 .. m /\ kept[m] = d
       /\ \A k \in 1 .. m - 1 : kept[k] = s.recent[k + off]
       /\ kept = [k \in 1 .. m |-> kept[k]]
  BY <1>11
<1>13. kept \in Seq(D) /\ Len(kept) = m
  <2>1. s.recent \in Seq(D) /\ off \in Nat
    BY <1>1 DEF Arbiter!Session
  <2> HIDE DEF D
  <2>2. ASSUME NEW k \in 1 .. m PROVE kept[k] \in D
    <3>1. CASE k = m
      BY <1>7, <1>12, <3>1 DEF D
    <3>2. CASE k # m
      <4>1. k \in 1 .. m - 1 /\ k + off \in 1 .. Len(s.recent)
        BY <1>12, <2>1, <3>2
      <4>2. s.recent[k + off] \in D
        BY <2>1, <4>1
      <4> QED
        BY <1>12, <4>1, <4>2
    <3> QED
      BY <3>1, <3>2
  <2> HIDE DEF m
  <2>3. kept \in [1 .. m -> D]
    BY <1>12, <2>2
  <2> QED
    BY <1>12, <2>3
<1> HIDE DEF m
<1> DEFINE n == Len(s.events)
<1>14. s.events \in Seq(Arbiter!Event) /\ n \in Nat
  BY <1>1 DEF Arbiter!Session
<1>15. /\ t.events = Append(s.events, e) /\ t.events \in Seq(Arbiter!Event)
       /\ Len(t.events) = n + 1 /\ t.events[n + 1] = e
       /\ \A i \in 1 .. n : t.events[i] = s.events[i]
  BY <1>6, <1>10, <1>14
<1>16. t \in Arbiter!Session
  BY <1>1, <1>10, <1>12, <1>13, <1>15 DEF Arbiter!Session
<1>17. s.grants = Arbiter!Replayed(s.events, n) /\ t.grants = s.grants
  BY <1>1, <1>10 DEF Arbiter!Followed
<1> HIDE DEF n
<1>18. Arbiter!Replayed(t.events, n) = s.grants
  BY <1>14, <1>15, <1>17, ReplayPrefix
<1>19. Arbiter!Followed(t)
  <2>1. \A g \in Arbiter!Grant :
          Arbiter!Replayed(t.events, n + 1)[g] = Arbiter!Replayed(t.events, n)[g]
    BY <1>4, <1>14, <1>15, ReplayOther
  <2>2. Arbiter!Replayed(t.events, n + 1) = Arbiter!Replayed(t.events, n)
    BY <2>1 DEF Arbiter!Replayed
  <2> QED
    BY <1>15, <1>17, <1>18, <2>2 DEF Arbiter!Followed
<1>20. DecidedThere(t, d, n + 1)
  <2> DEFINE i == n + 1
  <2>1. i - 1 = n /\ t.events[i] = e
    BY <1>14, <1>15
  <2> HIDE DEF i
  <2>2. d.decision =
          Arbiter!Final(d.mode, Arbiter!Policy(Arbiter!Replayed(t.events, i - 1), d.action))
    BY <1>9, <1>18, <2>1
  <2>3. DecidedThere(t, d, i)
    BY <1>8, <2>1, <2>2 DEF DecidedThere
  <2> QED
    BY <2>3 DEF i
<1>21. PICK at : PlacedAt(s, at)
  BY <1>1, ExplainedIsPlaced
<1>22. t.recent = kept
  BY <1>10
<1>23. \E new : PlacedAt(t, new)
  BY <1>1, <1>11, <1>12, <1>13, <1>15, <1>20, <1>21, <1>22, PlacedRecord DEF m, n
<1> QED
  BY <1>16, <1>19, <1>23, ExplainedIsPlaced DEF GoodSession, t

-------------------------------------------------------------------------------
(* The file, and the copies that are about to replace it.                  *)

Saving == [pc: {"save", "write"}, copy: Arbiter!Session]

ArbiterInv ==
  /\ file = Arbiter!Torn \/ GoodSession(file)
  /\ DOMAIN copy = Processes
  /\ \A p \in Processes :
       copy[p] = Arbiter!Idle \/ (copy[p] \in Saving /\ GoodSession(copy[p].copy))

\* A new session is good.
LEMMA ArbiterInitially ==
  ASSUME InitAll
  PROVE  ArbiterInv
BY NewIsGood DEF InitAll, Arbiter!Init, ArbiterInv

\* A process that changes its own copy leaves the file and the others' alone.
LEMMA CopyChanged ==
  ASSUME ArbiterInv, NEW p \in Processes, NEW s, GoodSession(s), Arbiter!LoadToSave(p, s)
  PROVE  ArbiterInv'
<1> DEFINE next == [pc |-> "save", copy |-> s]
<1>1. next \in Saving /\ next.copy = s
  BY DEF Saving, GoodSession
<1>2. file' = file /\ copy' = [copy EXCEPT ![p] = next]
  BY DEF Arbiter!LoadToSave
<1> HIDE DEF next
<1>3. DOMAIN copy' = Processes /\ (file' = Arbiter!Torn \/ GoodSession(file'))
  BY <1>2 DEF ArbiterInv
<1>4. ASSUME NEW q \in Processes
      PROVE  copy'[q] = Arbiter!Idle \/ (copy'[q] \in Saving /\ GoodSession(copy'[q].copy))
  <2>1. CASE q = p
    <3>1. copy'[q] = next
      BY <1>2, <2>1 DEF ArbiterInv
    <3> QED
      BY <1>1, <3>1
  <2>2. CASE q # p
    <3>1. copy'[q] = copy[q]
      BY <1>2, <2>2 DEF ArbiterInv
    <3> QED
      BY <3>1 DEF ArbiterInv
  <2> QED
    BY <2>1, <2>2
<1> QED
  BY <1>3, <1>4 DEF ArbiterInv

\* Every step of a command keeps what is loaded and saved good.
LEMMA ArbiterStep ==
  ASSUME ArbiterInv, Arbiter!Next
  PROVE  ArbiterInv'
<1>1. PICK p \in Processes : Arbiter!Command(p)
  BY DEF Arbiter!Next
<1>2. Arbiter!Readable => GoodSession(file)
  BY DEF ArbiterInv, Arbiter!Readable
<1>3. CASE Arbiter!GrantCommand(p)
  <2>1. PICK name \in Arbiter!GrantName, value \in BOOLEAN :
          Arbiter!LoadToSave(p, Arbiter!SetGrant(file, name, value))
    BY <1>3 DEF Arbiter!GrantCommand
  <2>2. GoodSession(Arbiter!SetGrant(file, name, value))
    BY <1>2, <1>3, GrantIsGood DEF Arbiter!GrantCommand
  <2> QED
    BY <2>1, <2>2, CopyChanged
<1>4. CASE Arbiter!ModeCommand(p)
  <2>1. PICK mode \in Modes : Arbiter!LoadToSave(p, [file EXCEPT !.mode = mode])
    BY <1>4 DEF Arbiter!ModeCommand
  <2>2. GoodSession([file EXCEPT !.mode = mode])
    BY <1>2, <1>4, ModeIsGood DEF Arbiter!ModeCommand
  <2> QED
    BY <2>1, <2>2, CopyChanged
<1>5. CASE Arbiter!EnforceCommand(p)
  <2>1. PICK a \in Probed : Arbiter!LoadToSave(p, Arbiter!Enforced(file, a))
    BY <1>5 DEF Arbiter!EnforceCommand
  <2>2. GoodSession(Arbiter!Enforced(file, a))
    BY <1>2, <1>5, EnforcedIsGood, ComponentsAssumption DEF Arbiter!EnforceCommand
  <2> QED
    BY <2>1, <2>2, CopyChanged
<1> DEFINE it == copy[p]
<1>6. copy[p].pc # "idle" => copy[p] \in Saving /\ GoodSession(copy[p].copy)
  BY DEF ArbiterInv, Arbiter!Idle
<1>7. CASE Arbiter!Truncate(p)
  <2> DEFINE next == [copy[p] EXCEPT !.pc = "write"]
  <2>1. copy[p] \in Saving /\ GoodSession(copy[p].copy)
    BY <1>6, <1>7 DEF Arbiter!Truncate
  <2>2. next \in Saving /\ next.copy = copy[p].copy
    BY <2>1 DEF Saving
  <2>3. file' = Arbiter!Torn /\ copy' = [copy EXCEPT ![p] = next]
    BY <1>7 DEF Arbiter!Truncate
  <2> HIDE DEF next
  <2> QED
    BY <2>1, <2>2, <2>3 DEF ArbiterInv
<1>8. CASE Arbiter!Write(p)
  <2>1. GoodSession(copy[p].copy)
    BY <1>6, <1>8 DEF Arbiter!Write
  <2>2. /\ file' = copy[p].copy \/ file' = Arbiter!Torn
        /\ copy' = [copy EXCEPT ![p] = Arbiter!Idle]
    BY <1>8 DEF Arbiter!Write
  <2> QED
    BY <2>1, <2>2 DEF ArbiterInv
<1>9. CASE Arbiter!Fail(p)
  <2>1. /\ file' = file \/ file' = Arbiter!Torn
        /\ copy' = [copy EXCEPT ![p] = Arbiter!Idle]
    BY <1>9 DEF Arbiter!Fail
  <2> QED
    BY <2>1 DEF ArbiterInv
<1> QED
  BY <1>1, <1>3, <1>4, <1>5, <1>7, <1>8, <1>9 DEF Arbiter!Command

\* So ArbiterInv holds while the sessions run.
LEMMA ArbiterSafety == SpecAll => [](component = "arbiter" => ArbiterInv)
<1>1. InitAll => (component = "arbiter" => ArbiterInv)
  BY ArbiterInitially
<1>2. (component = "arbiter" => ArbiterInv) /\ [NextAll]_allVars
        => (component = "arbiter" => ArbiterInv)'
  <2> SUFFICES ASSUME component = "arbiter" => ArbiterInv, [NextAll]_allVars,
                      component' = "arbiter"
               PROVE  ArbiterInv'
    OBVIOUS
  <2>1. component = "arbiter" /\ [Arbiter!Next]_arbiterVars
    BY OneRuns
  <2>2. CASE UNCHANGED arbiterVars
    BY <2>1, <2>2 DEF arbiterVars, ArbiterInv
  <2> QED
    BY <2>1, <2>2, ArbiterStep
<1> QED
  BY <1>1, <1>2, PTL DEF SpecAll

\* A session file that loads shows the grants its own log leaves, whichever commands
\* overwrote each other's changes, died or spoiled the file (src/src/session.rs,
\* fn set_grant): for any number of processes and any length of the log.
THEOREM LogLeavesGrants == SpecAll => []GrantsFollowLog
<1>1. (component = "arbiter" => ArbiterInv) => GrantsFollowLog
  BY DEF ArbiterInv, GoodSession, GrantsFollowLog, Arbiter!GrantsFollowLog, Arbiter!Readable
<1> QED
  BY <1>1, ArbiterSafety, PTL

\* The decisions it keeps are the last of the log, each the one the policy gives
\* under the mode noted and the grants of the log before it (src/src/session.rs,
\* fn append_decision): for every number of decisions kept.
THEOREM LogExplainsDecisions == SpecAll => []DecisionsReplay
<1>1. (component = "arbiter" => ArbiterInv) => DecisionsReplay
  BY DEF ArbiterInv, GoodSession, DecisionsReplay, Arbiter!DecisionsReplay, Arbiter!Readable
<1> QED
  BY <1>1, ArbiterSafety, PTL
-------------------------------------------------------------------------------
(* The session graph's baseline.                                           *)

\* The events beyond the window, and those before the first of them.
Late(events) == {i \in DOMAIN events : events[i].ts > Window}
Early(events) == {i \in DOMAIN events : \A j \in Late(events) : i < j}

Baseline ==
  /\ frozen <=> Late(nodes) # {}
  /\ baseCaps = {nodes[i].cap : i \in Early(nodes)}
  /\ baseAssets = {nodes[i].asset : i \in Early(nodes)}

GraphInv == nodes \in Seq(Graph!Node) /\ graphClock \in Nat /\ Baseline

\* A node that is recorded comes last.
LEMMA Recorded1 ==
  ASSUME nodes \in Seq(Graph!Node), NEW ev \in Graph!Node, nodes' = Append(nodes, ev)
  PROVE  /\ nodes' \in Seq(Graph!Node)
         /\ Len(nodes) \in Nat /\ DOMAIN nodes = 1 .. Len(nodes)
         /\ DOMAIN nodes' = 1 .. Len(nodes) + 1
         /\ \A i \in DOMAIN nodes : nodes'[i] = nodes[i]
         /\ nodes'[Len(nodes) + 1] = ev
         /\ \A i \in DOMAIN nodes : nodes[i].ts \in Nat
<1>1. \A i \in DOMAIN nodes : nodes[i] \in Graph!Node
  BY ElementOfSeq
<1> QED
  BY <1>1, AppendProperties DEF Graph!Node

\* Which events come before the window's end does not change once one came after
\* it; until then it is all of them.
LEMMA EarlyKept ==
  ASSUME GraphInv, NEW ev \in Graph!Node, nodes' = Append(nodes, ev)
  PROVE  /\ Late(nodes) # {} => Late(nodes)' # {} /\ Early(nodes)' = Early(nodes)
         /\ Late(nodes) = {} /\ ev.ts > Window => Late(nodes)' # {} /\ Early(nodes)' = Early(nodes)
         /\ Late(nodes) = {} /\ ev.ts <= Window =>
              /\ Late(nodes)' = {}
              /\ Early(nodes) = DOMAIN nodes /\ Early(nodes)' = DOMAIN nodes \cup {Len(nodes) + 1}
<1> DEFINE n == Len(nodes)
<1>1. /\ n \in Nat /\ DOMAIN nodes = 1 .. n /\ DOMAIN nodes' = 1 .. n + 1
      /\ \A i \in 1 .. n : nodes'[i] = nodes[i]
      /\ nodes'[n + 1] = ev
  BY Recorded1 DEF GraphInv
<1>2. ev.ts \in Nat /\ Window \in Nat
  BY ComponentsAssumption DEF Graph!Node
<1> HIDE DEF n
<1>3. Late(nodes)' = Late(nodes) \cup (IF ev.ts > Window THEN {n + 1} ELSE {})
  BY <1>1, <1>2 DEF Late
<1>4. Late(nodes) \subseteq 1 .. n
  BY <1>1 DEF Late
<1>5. CASE Late(nodes) # {}
  <2>1. PICK l \in Late(nodes) : TRUE
    BY <1>5
  <2>2. \A i \in 1 .. n + 1 : (\A j \in Late(nodes)' : i < j) => i \in 1 .. n
    BY <1>1, <1>3, <1>4, <2>1
  <2>3. \A i \in 1 .. n : (\A j \in Late(nodes)' : i < j) <=> \A j \in Late(nodes) : i < j
    BY <1>1, <1>3, <1>4
  <2>4. Early(nodes)' = Early(nodes)
    BY <1>1, <2>2, <2>3 DEF Early
  <2> QED
    BY <1>3, <1>5, <2>4
<1>6. CASE Late(nodes) = {} /\ ev.ts > Window
  <2>1. Late(nodes)' = {n + 1}
    BY <1>3, <1>6
  <2>2. Early(nodes)' = 1 .. n
    BY <1>1, <2>1 DEF Early
  <2>3. Early(nodes) = 1 .. n
    BY <1>1, <1>6 DEF Early
  <2> QED
    BY <1>2, <1>6, <2>1, <2>2, <2>3
<1>7. CASE Late(nodes) = {} /\ ev.ts <= Window
  <2>1. Late(nodes)' = {}
    BY <1>2, <1>3, <1>7
  <2>2. Early(nodes)' = 1 .. n + 1 /\ Early(nodes) = 1 .. n
    BY <1>1, <1>7, <2>1 DEF Early
  <2> QED
    BY <1>1, <1>2, <1>7, <2>1, <2>2 DEF n
<1> QED
  BY <1>2, <1>5, <1>6, <1>7

\* What the graph learns from an event.
LEMMA BaselineLearned ==
  ASSUME GraphInv, NEW ev \in Graph!Node, nodes' = Append(nodes, ev), Graph!Learn(ev)
  PROVE  Baseline'
<1>1. /\ DOMAIN nodes = 1 .. Len(nodes) /\ Len(nodes) \in Nat
      /\ \A i \in DOMAIN nodes : nodes'[i] = nodes[i]
      /\ nodes'[Len(nodes) + 1] = ev
  BY Recorded1 DEF GraphInv
<1>2. ev.ts \in Nat /\ Window \in Nat
  BY ComponentsAssumption DEF Graph!Node
<1>3. Early(nodes) \subseteq DOMAIN nodes
  BY DEF Early
<1>4. ASSUME Late(nodes)' # {}, Early(nodes)' = Early(nodes),
             frozen' = TRUE, UNCHANGED <<baseCaps, baseAssets>>
      PROVE  Baseline'
  BY <1>1, <1>3, <1>4 DEF GraphInv, Baseline
<1>5. CASE frozen
  BY <1>4, <1>5, EarlyKept DEF GraphInv, Baseline, Graph!Learn
<1>6. CASE ~frozen /\ ev.ts > Window
  BY <1>2, <1>4, <1>6, EarlyKept DEF GraphInv, Baseline, Graph!Learn
<1>7. CASE ~frozen /\ ev.ts <= Window
  <2>1. /\ baseCaps' = baseCaps \cup {ev.cap} /\ baseAssets' = baseAssets \cup {ev.asset}
        /\ frozen' = frozen
    BY <1>7 DEF Graph!Learn
  <2>2. /\ Late(nodes)' = {}
        /\ Early(nodes) = DOMAIN nodes /\ Early(nodes)' = DOMAIN nodes \cup {Len(nodes) + 1}
    BY <1>7, EarlyKept DEF GraphInv, Baseline
  <2>3. /\ baseCaps = {nodes[i].cap : i \in DOMAIN nodes}
        /\ baseAssets = {nodes[i].asset : i \in DOMAIN nodes}
    BY <2>2 DEF GraphInv, Baseline
  <2>4. /\ {nodes'[i].cap : i \in DOMAIN nodes \cup {Len(nodes) + 1}}
             = {nodes[i].cap : i \in DOMAIN nodes} \cup {ev.cap}
        /\ {nodes'[i].asset : i \in DOMAIN nodes \cup {Len(nodes) + 1}}
             = {nodes[i].asset : i \in DOMAIN nodes} \cup {ev.asset}
    BY <1>1
  <2> QED
    BY <1>7, <2>1, <2>2, <2>3, <2>4 DEF Baseline
<1>8. ev.ts > Window \/ ev.ts <= Window
  BY <1>2
<1> QED
  BY <1>5, <1>6, <1>7, <1>8

\* A session begins with no events.
LEMMA GraphInitially == InitAll => GraphInv
<1>1. <<>> \in Seq(Graph!Node) /\ DOMAIN <<>> = {}
  OBVIOUS
<1> QED
  BY <1>1 DEF InitAll, Graph!Init, Graph!GraphInit, GraphInv, Baseline, Late, Early

\* The event that RecordOne feeds to the graph.
LEMMA EventTyped ==
  ASSUME GraphInv, NEW kind \in Graph!AllKinds, NEW ts \in Nat
  PROVE  Graph!Event(kind, ts) \in Graph!Node
<1>1. Len(nodes) + 1 \in Nat
  BY DEF GraphInv
<1> USE DEF Graph!AllKinds, Graph!ExecKinds, Graph!PostKinds
<1>5. kind.tainted \in BOOLEAN
  <2>1. PICK cap, asset, source, arts, tags : kind = Graph!Kind(cap, asset, source, arts, tags)
    OBVIOUS
  <2>2. Graph!Kind(cap, asset, source, arts, tags).tainted = (source \in Graph!Untrusted)
    BY DEF Graph!Kind
  <2>3. (source \in Graph!Untrusted) \in BOOLEAN
    OBVIOUS
  <2> QED
    BY <2>1, <2>2, <2>3
<1> USE DEF Graph!Kind
<1>2. kind.cap \in Graph!Capability
  BY DEF Graph!Capability
<1>3. kind.asset \in Graph!AssetClass
  BY DEF Graph!AssetClass
<1>4. kind.source \in Graph!Source
  BY DEF Graph!Source
<1>6. kind.arts \in {{"a"}, {"b"}}
  OBVIOUS
<1>7. kind.tags \subseteq Graph!Tag
  BY DEF Graph!Tag
<1> USE DEF Graph!Event
<1>8. kind.arts \subseteq Artifacts
  BY <1>6, ComponentsAssumption
<1> QED
  BY <1>1, <1>2, <1>3, <1>4, <1>5, <1>7, <1>8 DEF Graph!Node

\* Each event is learned as it should be.
LEMMA GraphStep ==
  ASSUME GraphInv, [Graph!Next]_graphVars
  PROVE  GraphInv'
<1>1. CASE Graph!RecordOne
  <2>1. PICK kind \in Graph!AllKinds, ts \in {graphClock - 1, graphClock} \cap Nat :
          Graph!RecordEvent(Graph!Event(kind, ts))
    BY <1>1 DEF Graph!RecordOne
  <2> DEFINE ev == Graph!Event(kind, ts)
  <2>2. ev \in Graph!Node
    BY EventTyped
  <2>3. nodes' = Append(nodes, ev) /\ Graph!Learn(ev) /\ graphClock' = graphClock
    BY <1>1, <2>1 DEF Graph!RecordOne, Graph!RecordEvent
  <2> HIDE DEF ev
  <2>4. nodes' \in Seq(Graph!Node)
    BY <2>2, <2>3, Recorded1 DEF GraphInv
  <2>5. Baseline'
    BY <2>2, <2>3, BaselineLearned
  <2> QED
    BY <2>3, <2>4, <2>5 DEF GraphInv
<1>2. CASE Graph!Tick
  BY <1>2 DEF Graph!Tick, Graph!graph, GraphInv, Baseline, Late, Early
<1>3. CASE UNCHANGED graphVars
  BY <1>3 DEF graphVars, GraphInv, Baseline, Late, Early
<1> QED
  BY <1>1, <1>2, <1>3 DEF Graph!Next

\* So GraphInv holds while the graph runs.
LEMMA GraphSafety == SpecAll => [](component = "graph" => GraphInv)
<1>1. InitAll => (component = "graph" => GraphInv)
  BY GraphInitially
<1>2. (component = "graph" => GraphInv) /\ [NextAll]_allVars => (component = "graph" => GraphInv)'
  <2> SUFFICES ASSUME component = "graph" => GraphInv, [NextAll]_allVars, component' = "graph"
               PROVE  GraphInv'
    OBVIOUS
  <2> QED
    BY OneRuns, GraphStep
<1> QED
  BY <1>1, <1>2, PTL DEF SpecAll

\* The baseline against which the session's later events are judged is what its
\* window showed: it freezes at the first event beyond the window, wherever the
\* lock's order put that one, and holds exactly the events before it
\* (src/src/session_graph.rs, fn record).
THEOREM BaselineIsTheWindow == SpecAll => []BaselineFromWindow
<1>1. (component = "graph" => GraphInv) => BaselineFromWindow
  BY DEF GraphInv, Baseline, BaselineFromWindow, Graph!BaselineFromWindow, Late, Early
<1> QED
  BY <1>1, GraphSafety, PTL
-------------------------------------------------------------------------------
(* What the detectors found they find again.  The lemmas are those of      *)
(* DefenseEngineProofs, for this instance of the graph.                    *)

\* How the graph and the clock may change: nodes are added, a baseline that is
\* frozen stays as it is, and a node that arrives after the third day is not of
\* the first.
GraphGrows ==
  /\ nodes \in Seq(Graph!Node) /\ nodes' \in Seq(Graph!Node)
  /\ Graph!ToSet(nodes) \subseteq Graph!ToSet(nodes)'
  /\ frozen => frozen' /\ UNCHANGED <<baseCaps, baseAssets>>
  /\ graphClock >= 3 * Day =>
       graphClock' >= 3 * Day /\ \A n \in Graph!ToSet(nodes)' \ Graph!ToSet(nodes) : n.ts > Day

\* The sets the detectors are made of grow.
LEMMA SetsGrow ==
  ASSUME GraphGrows
  PROVE  /\ \A caps : Graph!Having(caps) \subseteq Graph!Having(caps)'
         /\ \A assets : Graph!OnAsset(assets) \subseteq Graph!OnAsset(assets)'
         /\ \A tags : Graph!Tagged(tags) \subseteq Graph!Tagged(tags)'
         /\ Graph!Fetches \subseteq Graph!Fetches' /\ Graph!Writes \subseteq Graph!Writes' /\ Graph!Execs \subseteq Graph!Execs'
         /\ Graph!Posts \subseteq Graph!Posts' /\ Graph!InTemp \subseteq Graph!InTemp' /\ Graph!Secrets \subseteq Graph!Secrets'
<1>1. \A caps : Graph!Having(caps) \subseteq Graph!Having(caps)'
  BY DEF GraphGrows, Graph!Having
<1>2. \A assets : Graph!OnAsset(assets) \subseteq Graph!OnAsset(assets)'
  BY DEF GraphGrows, Graph!OnAsset
<1>3. \A tags : Graph!Tagged(tags) \subseteq Graph!Tagged(tags)'
  BY DEF GraphGrows, Graph!Tagged
<1> QED
  BY <1>1, <1>2, <1>3 DEF Graph!Fetches, Graph!Writes, Graph!Execs, Graph!Posts, Graph!InTemp, Graph!Secrets

\* So does what a detector of either shape finds in them.
LEMMA ShapesGrow ==
  ASSUME NEW at, NEW at2, NEW priors, NEW priors2, at \subseteq at2, priors \subseteq priors2
  PROVE  /\ \A rule, sev : Graph!Each(rule, sev, at) \subseteq Graph!Each(rule, sev, at2)
         /\ \A rule, sev : Graph!After(rule, sev, at, priors) \subseteq Graph!After(rule, sev, at2, priors2)
BY DEF Graph!Each, Graph!After

\* The detectors of one shape, and of two or more.
LEMMA PriorsGrow ==
  ASSUME GraphGrows
  PROVE  /\ Graph!ReadSecretOutbound \subseteq Graph!ReadSecretOutbound'
         /\ Graph!DecodeThenExecute \subseteq Graph!DecodeThenExecute'
         /\ Graph!SensitiveAssetOutbound \subseteq Graph!SensitiveAssetOutbound'
         /\ Graph!ConfigPoisonThenExec \subseteq Graph!ConfigPoisonThenExec'
         /\ Graph!ConfigPoisonThenNetpost \subseteq Graph!ConfigPoisonThenNetpost'
         /\ Graph!ArchiveUnpackExec \subseteq Graph!ArchiveUnpackExec'
         /\ Graph!EnvAndWifiOutbound \subseteq Graph!EnvAndWifiOutbound'
         /\ Graph!PkgPoisonInstall \subseteq Graph!PkgPoisonInstall'
         /\ Graph!BrowserDownloadExec \subseteq Graph!BrowserDownloadExec'
         /\ Graph!McpSensitiveOutbound \subseteq Graph!McpSensitiveOutbound'
         /\ Graph!ProxyRewriteEgress \subseteq Graph!ProxyRewriteEgress'
<1>1. Graph!ReadSecretOutbound \subseteq Graph!ReadSecretOutbound'
  <2>1. Graph!Having({"SecretAccess"}) \cap Graph!Secrets \subseteq (Graph!Having({"SecretAccess"}) \cap Graph!Secrets)'
    BY SetsGrow
  <2> QED
    BY <2>1, SetsGrow, ShapesGrow DEF Graph!ReadSecretOutbound
<1>2. Graph!DecodeThenExecute \subseteq Graph!DecodeThenExecute'
  BY SetsGrow, ShapesGrow DEF Graph!DecodeThenExecute
<1>3. Graph!SensitiveAssetOutbound \subseteq Graph!SensitiveAssetOutbound'
  <2>1. \A rule, sev, assets :
          Graph!After(rule, sev, Graph!Posts, Graph!OnAsset(assets)) \subseteq Graph!After(rule, sev, Graph!Posts, Graph!OnAsset(assets))'
    BY SetsGrow, ShapesGrow
  <2> QED
    BY <2>1 DEF Graph!SensitiveAssetOutbound
<1>4. Graph!PoisonedConfigs \subseteq Graph!PoisonedConfigs'
  BY SetsGrow DEF Graph!PoisonedConfigs
<1>5. Graph!ConfigPoisonThenExec \subseteq Graph!ConfigPoisonThenExec'
  <2>1. Graph!Execs \cup Graph!Posts \subseteq (Graph!Execs \cup Graph!Posts)'
    BY SetsGrow
  <2> QED
    BY <1>4, <2>1, ShapesGrow DEF Graph!ConfigPoisonThenExec
<1>6. Graph!ConfigPoisonThenNetpost \subseteq Graph!ConfigPoisonThenNetpost'
  BY <1>4, SetsGrow, ShapesGrow DEF Graph!ConfigPoisonThenNetpost
<1>7. Graph!ArchiveUnpackExec \subseteq Graph!ArchiveUnpackExec'
  <2> DEFINE unpacks == Graph!Tagged({"archive"}) \cap Graph!OnAsset({"Temp", "Executable", "External"})
  <2>1. unpacks \subseteq unpacks'
    BY SetsGrow
  <2> HIDE DEF unpacks
  <2>2. Graph!After("archive-unpack-exec", 85, Graph!Execs, unpacks)
          \subseteq Graph!After("archive-unpack-exec", 85, Graph!Execs, unpacks)'
    BY <2>1, SetsGrow, ShapesGrow
  <2> QED
    BY <2>2 DEF Graph!ArchiveUnpackExec, unpacks
<1>8. Graph!EnvAndWifiOutbound \subseteq Graph!EnvAndWifiOutbound'
  <2>1. \A rule, sev, tags :
          Graph!After(rule, sev, Graph!Posts, Graph!Tagged(tags)) \subseteq Graph!After(rule, sev, Graph!Posts, Graph!Tagged(tags))'
    BY SetsGrow, ShapesGrow
  <2> QED
    BY <2>1 DEF Graph!EnvAndWifiOutbound
<1>9. Graph!PkgPoisonInstall \subseteq Graph!PkgPoisonInstall'
  <2> DEFINE installs == Graph!Execs \cap Graph!Tagged({"install"})
  <2>1. installs \subseteq installs'
    BY SetsGrow
  <2> HIDE DEF installs
  <2>2. Graph!After("pkg-poison-install", 85, installs, Graph!Tagged({"registry"}))
          \subseteq Graph!After("pkg-poison-install", 85, installs, Graph!Tagged({"registry"}))'
    BY <2>1, SetsGrow, ShapesGrow
  <2> QED
    BY <2>2 DEF Graph!PkgPoisonInstall, installs
<1>10. Graph!BrowserDownloadExec \subseteq Graph!BrowserDownloadExec'
  <2> DEFINE downloads == Graph!Having({"BrowserDownload", "BrowserNavigate"}) \cap Graph!OnAsset({"External", "Temp"})
  <2>1. downloads \subseteq downloads'
    BY SetsGrow
  <2> HIDE DEF downloads
  <2>2. Graph!After("browser-download-exec", 90, Graph!Execs, downloads)
          \subseteq Graph!After("browser-download-exec", 90, Graph!Execs, downloads)'
    BY <2>1, SetsGrow, ShapesGrow
  <2> QED
    BY <2>2 DEF Graph!BrowserDownloadExec, downloads
<1>11. Graph!McpSensitiveOutbound \subseteq Graph!McpSensitiveOutbound'
  <2> DEFINE leaks == {n \in Graph!Secrets : n.source = "Mcp"}
  <2>1. leaks \subseteq leaks'
    BY SetsGrow
  <2> HIDE DEF leaks
  <2>2. Graph!After("mcp-sensitive-outbound", 90, Graph!Posts, leaks)
          \subseteq Graph!After("mcp-sensitive-outbound", 90, Graph!Posts, leaks)'
    BY <2>1, SetsGrow, ShapesGrow
  <2> QED
    BY <2>2 DEF Graph!McpSensitiveOutbound, leaks
<1>12. Graph!ProxyRewriteEgress \subseteq Graph!ProxyRewriteEgress'
  BY SetsGrow, ShapesGrow DEF Graph!ProxyRewriteEgress
<1> QED
  BY <1>1, <1>2, <1>3, <1>5, <1>6, <1>7, <1>8, <1>9, <1>10, <1>11, <1>12

\* The detectors that look at nodes by themselves.
LEMMA NodesGrow ==
  ASSUME GraphGrows
  PROVE  /\ Graph!BrowseExtractShell \subseteq Graph!BrowseExtractShell'
         /\ Graph!McpToShellOrNet \subseteq Graph!McpToShellOrNet'
         /\ Graph!TaintLeap \subseteq Graph!TaintLeap'
         /\ Graph!LongDwell \subseteq Graph!LongDwell'
         /\ Graph!BaselineAnomaly \subseteq Graph!BaselineAnomaly'
         /\ Graph!CapabilityEscalation \subseteq Graph!CapabilityEscalation'
         /\ Graph!ExecViaMakeOrNpm \subseteq Graph!ExecViaMakeOrNpm'
         /\ Graph!PowershellEncodedExec \subseteq Graph!PowershellEncodedExec'
         /\ Graph!RepeatedTempExec \subseteq Graph!RepeatedTempExec'
         /\ Graph!TempExecDelay \subseteq Graph!TempExecDelay'
<1>0. Graph!ToSet(nodes) \subseteq Graph!ToSet(nodes)'
  BY DEF GraphGrows
<1>1. Graph!BrowseExtractShell \subseteq Graph!BrowseExtractShell'
  BY SetsGrow DEF Graph!BrowseExtractShell, Graph!Each
<1>2. Graph!McpToShellOrNet \subseteq Graph!McpToShellOrNet'
  BY <1>0, SetsGrow DEF Graph!McpToShellOrNet, Graph!Each
<1>3. Graph!TaintLeap \subseteq Graph!TaintLeap'
  BY SetsGrow DEF Graph!TaintLeap, Graph!Each
<1>4. Graph!LongDwell \subseteq Graph!LongDwell'
  <2> SUFFICES ASSUME NEW h \in Graph!LongDwell PROVE h \in Graph!LongDwell'
    OBVIOUS
  <2> DEFINE dayOne == {n.cap : n \in {m \in Graph!ToSet(nodes) : m.ts <= Day}}
  <2>1. PICK n \in Graph!ToSet(nodes) : /\ h = Graph!Hit("long-dwell-new-capability", 70, n)
                                  /\ graphClock >= 3 * Day /\ n.ts > Day
                                  /\ n.cap \notin dayOne \cup {"ReadFile", "WriteFile"}
    BY DEF Graph!LongDwell, Graph!Each
  <2>2. graphClock' >= 3 * Day /\ \A m \in Graph!ToSet(nodes)' \ Graph!ToSet(nodes) : m.ts > Day
    BY <2>1 DEF GraphGrows
  <2>3. \A m \in Graph!ToSet(nodes)' : m.ts \in Nat
    <3>1. \A i \in DOMAIN nodes' : nodes'[i] \in Graph!Node
      BY ElementOfSeq DEF GraphGrows
    <3> QED
      BY <3>1 DEF Graph!ToSet, Graph!Node
  <2>4. \A m \in Graph!ToSet(nodes)' : m.ts <= Day => m \in Graph!ToSet(nodes)
    BY <2>2, <2>3, ComponentsAssumption
  <2>5. dayOne' \subseteq dayOne
    BY <2>4
  <2>6. n \in Graph!ToSet(nodes)' /\ n.cap \notin dayOne' \cup {"ReadFile", "WriteFile"}
    BY <1>0, <2>1, <2>5
  <2> QED
    BY <2>1, <2>2, <2>6 DEF Graph!LongDwell, Graph!Each
<1>5. Graph!BaselineAnomaly \subseteq Graph!BaselineAnomaly'
  <2>1. frozen => frozen' /\ baseCaps' = baseCaps /\ baseAssets' = baseAssets
    BY DEF GraphGrows
  <2> QED
    BY <1>0, <2>1 DEF Graph!BaselineAnomaly, Graph!Each
<1>6. Graph!CapabilityEscalation \subseteq Graph!CapabilityEscalation'
  <2>1. frozen => frozen' /\ baseCaps' = baseCaps
    BY DEF GraphGrows
  <2>2. Graph!Having(Graph!Critical) \subseteq Graph!Having(Graph!Critical)'
    BY SetsGrow DEF Graph!Critical
  <2> QED
    BY <2>1, <2>2 DEF Graph!CapabilityEscalation, Graph!Each
<1>7. Graph!ExecViaMakeOrNpm \subseteq Graph!ExecViaMakeOrNpm'
  BY SetsGrow DEF Graph!ExecViaMakeOrNpm, Graph!Each
<1>8. Graph!PowershellEncodedExec \subseteq Graph!PowershellEncodedExec'
  BY SetsGrow DEF Graph!PowershellEncodedExec, Graph!Each
<1>9. Graph!RepeatedTempExec \subseteq Graph!RepeatedTempExec'
  BY SetsGrow DEF Graph!RepeatedTempExec, Graph!Each
<1>10. Graph!TempExecDelay \subseteq Graph!TempExecDelay'
  BY SetsGrow DEF Graph!TempExecDelay, Graph!Each
<1> QED
  BY <1>1, <1>2, <1>3, <1>4, <1>5, <1>6, <1>7, <1>8, <1>9, <1>10

\* An execution that follows a fetch and a write goes on doing so; the first of
\* those is always found.
LEMMA FetchWriteExecuteGrows ==
  ASSUME GraphGrows, \A i \in DOMAIN nodes : i \in DOMAIN nodes' /\ nodes'[i] = nodes[i],
         NEW h \in Graph!FetchWriteExecute
  PROVE  \E k \in Graph!FetchWriteExecute' : k.rule = h.rule /\ k.sev >= h.sev
<1>1. \A e : Graph!Linked(e) => Graph!Linked(e)'
  BY SetsGrow DEF Graph!Linked
<1>2. \A e : Graph!Loose(e) => Graph!Loose(e)'
  <2>1. Graph!Writes \cap Graph!InTemp \subseteq (Graph!Writes \cap Graph!InTemp)'
    BY SetsGrow
  <2> QED
    BY <2>1, SetsGrow DEF Graph!Loose
<1> DEFINE execs == {i \in DOMAIN nodes : nodes[i].cap = "Execute"}
           links == {i \in execs' : Graph!Linked(nodes[i])'}
           chained == {i \in execs' : Graph!Linked(nodes[i])' \/ Graph!Loose(nodes[i])'}
           quietBefore(i) == \A j \in execs : j < i => ~Graph!Linked(nodes[j]) /\ ~Graph!Loose(nodes[j])
<1>3. /\ \A i \in links : Graph!Hit("fetch-write-execute", 95, nodes'[i]) \in Graph!FetchWriteExecute'
      /\ \A i \in execs' : ~Graph!Linked(nodes[i])' /\ quietBefore(i)' /\ Graph!Loose(nodes[i])'
           => Graph!Hit("fetch-write-execute", 90, nodes'[i]) \in Graph!FetchWriteExecute'
  BY DEF Graph!FetchWriteExecute
<1>4. \E i \in execs : \/ Graph!Linked(nodes[i]) /\ h = Graph!Hit("fetch-write-execute", 95, nodes[i])
                       \/ Graph!Loose(nodes[i]) /\ h = Graph!Hit("fetch-write-execute", 90, nodes[i])
  BY DEF Graph!FetchWriteExecute
<1>5. execs \subseteq execs' /\ \A i \in execs : nodes'[i] = nodes[i]
  OBVIOUS
<1>6. CASE \E i \in execs : Graph!Linked(nodes[i]) /\ h = Graph!Hit("fetch-write-execute", 95, nodes[i])
  <2>1. PICK i \in execs : Graph!Linked(nodes[i]) /\ h = Graph!Hit("fetch-write-execute", 95, nodes[i])
    BY <1>6
  <2>2. i \in links
    BY <1>1, <1>5, <2>1
  <2>3. Graph!Hit("fetch-write-execute", 95, nodes'[i]) \in Graph!FetchWriteExecute'
    BY <1>3, <2>2
  <2> QED
    BY <2>1, <2>3 DEF Graph!Hit
<1>7. CASE \E i \in execs : Graph!Loose(nodes[i]) /\ h = Graph!Hit("fetch-write-execute", 90, nodes[i])
  <2>1. PICK i \in execs : Graph!Loose(nodes[i]) /\ h = Graph!Hit("fetch-write-execute", 90, nodes[i])
    BY <1>7
  <2>2. i \in chained
    BY <1>2, <1>5, <2>1
  <2>3. chained \subseteq Nat
    BY DEF GraphGrows
  <2>4. PICK f \in chained : \A j \in chained : f <= j
    BY <2>2, <2>3, LeastIn
  <2>5. \A j \in chained : ~(j < f)
    BY <2>3, <2>4
  <2>6. quietBefore(f)'
    BY <2>5
  <2>7. \E k \in Graph!FetchWriteExecute' : k.rule = "fetch-write-execute" /\ k.sev >= 90
    <3>1. CASE Graph!Linked(nodes[f])'
      <4>1. Graph!Hit("fetch-write-execute", 95, nodes'[f]) \in Graph!FetchWriteExecute'
        BY <1>3, <3>1
      <4> QED
        BY <4>1 DEF Graph!Hit
    <3>2. CASE ~Graph!Linked(nodes[f])'
      <4>1. Graph!Hit("fetch-write-execute", 90, nodes'[f]) \in Graph!FetchWriteExecute'
        BY <1>3, <2>6, <3>2
      <4> QED
        BY <4>1 DEF Graph!Hit
    <3> QED
      BY <3>1, <3>2
  <2> QED
    BY <2>1, <2>7 DEF Graph!Hit
<1> QED
  BY <1>4, <1>6, <1>7

\* The severity of a hit is a number.
LEMMA HitSeverity == \A rule, sev, n : Graph!Hit(rule, sev, n).sev = sev /\ Graph!Hit(rule, sev, n).rule = rule
BY DEF Graph!Hit

\* Every hit has its detector's severity.
LEMMA HitsTyped == \A h \in Graph!DetectChains : h.sev \in Nat
<1>1. /\ \A rule, sev, at, h : h \in Graph!Each(rule, sev, at) => h.sev = sev
      /\ \A rule, sev, at, priors, h : h \in Graph!After(rule, sev, at, priors) => h.sev = sev
  BY HitSeverity DEF Graph!Each, Graph!After
<1>2. \A h \in Graph!FetchWriteExecute : h.sev \in Nat
  BY HitSeverity DEF Graph!FetchWriteExecute
<1>3. \A h \in Graph!BrowseExtractShell : h.sev \in Nat
  BY <1>1 DEF Graph!BrowseExtractShell
<1>4. \A h \in Graph!McpToShellOrNet : h.sev \in Nat
  BY <1>1 DEF Graph!McpToShellOrNet
<1>5. \A h \in Graph!TaintLeap : h.sev \in Nat
  BY <1>1 DEF Graph!TaintLeap
<1>6. \A h \in Graph!LongDwell : h.sev \in Nat
  BY <1>1 DEF Graph!LongDwell
<1>7. \A h \in Graph!BaselineAnomaly : h.sev \in Nat
  BY <1>1 DEF Graph!BaselineAnomaly
<1>8. \A h \in Graph!CapabilityEscalation : h.sev \in Nat
  BY <1>1 DEF Graph!CapabilityEscalation
<1>9. \A h \in Graph!ExecViaMakeOrNpm : h.sev \in Nat
  BY <1>1 DEF Graph!ExecViaMakeOrNpm
<1>10. \A h \in Graph!PowershellEncodedExec : h.sev \in Nat
  BY <1>1 DEF Graph!PowershellEncodedExec
<1>11. \A h \in Graph!RepeatedTempExec : h.sev \in Nat
  BY <1>1 DEF Graph!RepeatedTempExec
<1>12. \A h \in Graph!TempExecDelay : h.sev \in Nat
  BY <1>1 DEF Graph!TempExecDelay
<1>13. \A h \in Graph!ReadSecretOutbound : h.sev \in Nat
  BY <1>1 DEF Graph!ReadSecretOutbound
<1>14. \A h \in Graph!DecodeThenExecute : h.sev \in Nat
  BY <1>1 DEF Graph!DecodeThenExecute
<1>15. \A h \in Graph!ConfigPoisonThenExec : h.sev \in Nat
  BY <1>1 DEF Graph!ConfigPoisonThenExec
<1>16. \A h \in Graph!ConfigPoisonThenNetpost : h.sev \in Nat
  BY <1>1 DEF Graph!ConfigPoisonThenNetpost
<1>17. \A h \in Graph!ArchiveUnpackExec : h.sev \in Nat
  BY <1>1 DEF Graph!ArchiveUnpackExec
<1>18. \A h \in Graph!PkgPoisonInstall : h.sev \in Nat
  BY <1>1 DEF Graph!PkgPoisonInstall
<1>19. \A h \in Graph!BrowserDownloadExec : h.sev \in Nat
  BY <1>1 DEF Graph!BrowserDownloadExec
<1>20. \A h \in Graph!McpSensitiveOutbound : h.sev \in Nat
  BY <1>1 DEF Graph!McpSensitiveOutbound
<1>21. \A h \in Graph!ProxyRewriteEgress : h.sev \in Nat
  BY <1>1 DEF Graph!ProxyRewriteEgress
<1>22. \A h \in Graph!EnvAndWifiOutbound : h.sev \in Nat
  BY <1>1 DEF Graph!EnvAndWifiOutbound
<1>23. \A h \in Graph!SensitiveAssetOutbound : h.sev \in Nat
  BY <1>1 DEF Graph!SensitiveAssetOutbound
<1> QED
  BY <1>2, <1>3, <1>4, <1>5, <1>6, <1>7, <1>8, <1>9, <1>10, <1>11, <1>12, <1>13, <1>14, <1>15, <1>16, <1>17, <1>18, <1>19, <1>20, <1>21, <1>22, <1>23
     DEF Graph!DetectChains

\* All detectors together.
LEMMA ChainsKept ==
  ASSUME GraphGrows, \A i \in DOMAIN nodes : i \in DOMAIN nodes' /\ nodes'[i] = nodes[i]
  PROVE  Graph!HitsKept
<1> SUFFICES ASSUME NEW h \in Graph!DetectChains
             PROVE  \E k \in Graph!DetectChains' : k.rule = h.rule /\ k.sev >= h.sev
  BY DEF Graph!HitsKept
<1>1. CASE h \in Graph!FetchWriteExecute
  <2>1. PICK k \in Graph!FetchWriteExecute' : k.rule = h.rule /\ k.sev >= h.sev
    BY <1>1, FetchWriteExecuteGrows
  <2>2. k \in Graph!DetectChains'
    BY DEF Graph!DetectChains
  <2> QED
    BY <2>1, <2>2
<1>2. CASE h \notin Graph!FetchWriteExecute
  <2>1. h \in Graph!DetectChains'
    BY <1>2, PriorsGrow, NodesGrow DEF Graph!DetectChains
  <2>2. h.sev >= h.sev
    BY HitsTyped
  <2> QED
    BY <2>1, <2>2
<1> QED
  BY <1>1, <1>2

\* Every step adds to the graph, if anything.
LEMMA GraphOnlyGrows ==
  ASSUME GraphInv, [Graph!Next]_graphVars, GraphInv'
  PROVE  GraphGrows /\ \A i \in DOMAIN nodes : i \in DOMAIN nodes' /\ nodes'[i] = nodes[i]
<1>0. /\ nodes \in Seq(Graph!Node) /\ nodes' \in Seq(Graph!Node)
      /\ graphClock \in Nat /\ Day \in Nat \ {0}
  BY ComponentsAssumption DEF GraphInv
<1>1. CASE Graph!RecordOne
  <2>1. PICK kind \in Graph!AllKinds, ts \in {graphClock - 1, graphClock} \cap Nat :
          Graph!RecordEvent(Graph!Event(kind, ts))
    BY <1>1 DEF Graph!RecordOne
  <2> DEFINE ev == Graph!Event(kind, ts)
  <2>2. ev \in Graph!Node /\ ev.ts = ts
    BY EventTyped DEF Graph!Event
  <2>3. nodes' = Append(nodes, ev) /\ Graph!Learn(ev) /\ graphClock' = graphClock
    BY <1>1, <2>1 DEF Graph!RecordOne, Graph!RecordEvent
  <2> HIDE DEF ev
  <2>4. frozen => frozen' /\ UNCHANGED <<baseCaps, baseAssets>>
    BY <2>3 DEF Graph!Learn
  <2>5. /\ \A i \in DOMAIN nodes : i \in DOMAIN nodes' /\ nodes'[i] = nodes[i]
        /\ \A i \in DOMAIN nodes' : i \in DOMAIN nodes \/ nodes'[i] = ev
    BY <1>0, <2>2, <2>3, Recorded1
  <2>6. /\ Graph!ToSet(nodes) \subseteq Graph!ToSet(nodes)'
        /\ \A m \in Graph!ToSet(nodes)' \ Graph!ToSet(nodes) : m = ev
    BY <2>5 DEF Graph!ToSet
  <2>7. graphClock >= 3 * Day => ev.ts > Day
    BY <1>0, <2>2
  <2> QED
    BY <1>0, <2>3, <2>4, <2>5, <2>6, <2>7 DEF GraphGrows
<1>2. CASE Graph!Tick \/ UNCHANGED graphVars
  <2>1. UNCHANGED <<nodes, frozen, baseCaps, baseAssets>>
        /\ (graphClock' = graphClock \/ graphClock' = graphClock + 1)
    BY <1>2 DEF Graph!Tick, Graph!graph, graphVars
  <2>2. graphClock >= 3 * Day => graphClock' >= 3 * Day
    BY <1>0, <2>1
  <2>3. Graph!ToSet(nodes)' = Graph!ToSet(nodes)
    BY <2>1 DEF Graph!ToSet
  <2> QED
    BY <1>0, <2>1, <2>2, <2>3 DEF GraphGrows
<1> QED
  BY <1>1, <1>2 DEF Graph!Next

\* What a detector found once it finds again, with a severity no less, whatever the
\* session does next and in whichever order the tasks reach the lock
\* (src/src/session_graph.rs, fn detect_chains): also of fetch-write-execute, whose
\* fallback by time alone gives way to the link by artifact.
THEOREM HitsStay == SpecAll => HitsNeverFade
<1>1. (component = "graph" => GraphInv) /\ (component = "graph" => GraphInv)' /\ [NextAll]_allVars
        => [component = "graph" => Graph!HitsKept]_allVars
  <2> SUFFICES ASSUME component = "graph" => GraphInv, (component = "graph" => GraphInv)',
                      [NextAll]_allVars, component = "graph"
               PROVE  Graph!HitsKept
    OBVIOUS
  <2> QED
    BY OneRuns, GraphOnlyGrows, ChainsKept
<1> QED
  BY <1>1, GraphSafety, PTL DEF SpecAll, HitsNeverFade

-------------------------------------------------------------------------------
(* The types of the judgements.                                            *)

\* The cascade decides every input of the matrix's.
LEMMA DecisionTyped ==
  ASSUME NEW x \in Matrix!MatrixInput
  PROVE  Matrix!MatrixEvaluate(x) \in Matrix!MatrixDecision
  BY CascadeAnswer, LastParts DEF HardDenyAnswer, UntrustedAnswer, Matrix!MatrixDecision

\* The class of a target is the one its first rule names.
LEMMA TargetClassified ==
  ASSUME NEW t \in Judge!Target
  PROVE  Judge!Classify(t) \in Judge!AssetClass
<1> DEFINE clauses == Judge!UrlRules(t) \o Judge!SecretRules(t) \o Judge!ClientRules(t)
                        \o Judge!PlaceRules(t) \o Judge!FileRules(t)
           hits == {i \in DOMAIN clauses : clauses[i][1]}
<1>1. clauses \in Seq(ClassRows)
  BY ClassifyParts
<1>2. Judge!Classify(t) = IF hits = {} THEN "Unknown" ELSE clauses[Judge!Min(hits)][2]
  BY DEF Judge!Classify, Judge!First
<1> HIDE DEF clauses
<1>3. hits \subseteq Nat /\ \A i \in hits : clauses[i][2] \in Judge!AssetClass
  <2>1. DOMAIN clauses \subseteq Nat /\ \A i \in DOMAIN clauses : clauses[i] \in ClassRows
    BY <1>1
  <2>2. \A row \in ClassRows : row[2] \in Judge!AssetClass
    BY DEF ClassRows
  <2> QED
    BY <2>1, <2>2
<1> HIDE DEF hits
<1>4. hits # {} => Judge!Min(hits) \in hits
  BY <1>3, LeastIn DEF Judge!Min
<1> QED
  BY <1>2, <1>3, <1>4 DEF Judge!AssetClass

\* Every tool name is mapped to a capability.
LEMMA ToolMapped ==
  ASSUME NEW name \in Judge!ToolName, NEW t \in Judge!Target, NEW download \in BOOLEAN
  PROVE  Judge!FromToolCall(name, t, download) \in Judge!ToolCapability
  BY DEF Judge!ToolName, Judge!Target, Judge!FromToolCall, Judge!ToolCapability, Judge!Capability

\* A score is at least five points and at most a hundred.
LEMMA ScoreTyped ==
  ASSUME NEW s \in Judge!Scan
  PROVE  Judge!Total(s) \in 5 .. 100
<1> DEFINE active == Judge!ActivePoints(s.worst)
<1>1. s.worst \in Judge!Severities /\ s.worst <= s.worst
  BY DEF Judge!Scan, Judge!Severities
<1>2. active \in 0 .. 40
  BY <1>1, PointsFall
<1>3. Judge!Total(s) = (IF s.https THEN 20 ELSE 0) + (IF s.official THEN 20 ELSE 5)
                         + active + (IF s.unsolicited THEN 0 ELSE 20)
  BY DEF Judge!Total
<1> HIDE DEF active
<1> QED
  BY <1>2, <1>3

\* Every judgement of a subject has a result.
LEMMA SubjectTyped ==
  ASSUME subject \in Judge!Subject
  PROVE  Judge!TypeOK
<1>1. CASE subject \in Judge!Target
  <2>1. subject.kind = "target"
    BY <1>1 DEF Judge!Target
  <2>2. Judge!Classify(subject) \in Judge!AssetClass
    BY <1>1, TargetClassified
  <2>3. \A n \in Judge!ToolName : Judge!FromToolCall(n, subject, TRUE) \in Judge!ToolCapability
    BY <1>1, ToolMapped
  <2> QED
    BY <1>1, <2>1, <2>2, <2>3 DEF Judge!TypeOK
<1>2. CASE subject \in Judge!Payload
  BY <1>2 DEF Judge!TypeOK, Judge!Payload
<1>3. CASE subject \in Judge!ToolPolicy
  BY <1>3 DEF Judge!TypeOK, Judge!ToolPolicy
<1>4. CASE subject \in Judge!Request
  BY <1>4 DEF Judge!TypeOK, Judge!Request
<1>5. CASE subject \in Judge!Scan
  <2>1. subject.kind = "scan"
    BY <1>5 DEF Judge!Scan
  <2>2. Judge!Total(subject) \in 5 .. 100
    BY <1>5, ScoreTyped
  <2> QED
    BY <1>5, <2>1, <2>2 DEF Judge!TypeOK
<1> QED
  BY <1>1, <1>2, <1>3, <1>4, <1>5 DEF Judge!Subject

-------------------------------------------------------------------------------
(* The types of the session graph.                                         *)

\* What GraphInv leaves out: the freeze and the score of the last event.
Scored == frozen \in BOOLEAN /\ anomaly \in 0 .. 100

\* A score is a number of points, a hundred at most.
LEMMA ScoreCapped ==
  ASSUME NEW ev, NEW caps, NEW assets, NEW final
  PROVE  Graph!AnomalyScore(ev, caps, assets, final) \in 0 .. 100
<1>1. \A cond : \A n \in Nat : Graph!Points(cond, n) \in Nat
  BY DEF Graph!Points
<1> DEFINE newCap == final /\ ev.cap \notin caps
           newAsset == final /\ ev.asset \notin assets
           p1 == Graph!Points(newCap, 30)
           p2 == Graph!Points(newCap /\ ev.cap \in Graph!Critical, 20)
           p3 == Graph!Points(newAsset, 25)
           p4 == Graph!Points(newAsset /\ ev.asset \in Graph!HardDeny, 25)
           p5 == Graph!Points(ev.tainted, 20)
           p6 == Graph!Points(final /\ ev.source \in {"Provider", "Web", "Mcp"}, 10)
           score == p1 + p2 + p3 + p4 + p5 + p6
<1>2. p1 \in Nat /\ p2 \in Nat /\ p3 \in Nat /\ p4 \in Nat /\ p5 \in Nat /\ p6 \in Nat
  BY <1>1
<1>3. Graph!AnomalyScore(ev, caps, assets, final) = IF score > 100 THEN 100 ELSE score
  BY DEF Graph!AnomalyScore
<1> HIDE DEF p1, p2, p3, p4, p5, p6
<1> QED
  BY <1>2, <1>3

\* So while the graph runs both keep their types.
LEMMA ScoredSafety == SpecAll => [](component = "graph" => Scored)
<1>1. InitAll => (component = "graph" => Scored)
  <2> SUFFICES ASSUME InitAll
               PROVE  Scored
    OBVIOUS
  <2>1. frozen = FALSE /\ anomaly = 0
    BY DEF InitAll, Graph!Init, Graph!GraphInit
  <2>2. FALSE \in BOOLEAN /\ 0 \in 0 .. 100
    OBVIOUS
  <2> QED
    BY <2>1, <2>2 DEF Scored
<1>2. (component = "graph" => Scored) /\ [NextAll]_allVars => (component = "graph" => Scored)'
  <2> SUFFICES ASSUME component = "graph" => Scored, [NextAll]_allVars, component' = "graph"
               PROVE  Scored'
    OBVIOUS
  <2>1. Scored /\ [Graph!Next]_graphVars
    BY OneRuns
  <2>2. CASE Graph!RecordOne
    <3>1. PICK ev : Graph!RecordEvent(ev)
      BY <2>2 DEF Graph!RecordOne
    <3>2. anomaly' \in 0 .. 100
      BY <3>1, ScoreCapped DEF Graph!RecordEvent
    <3>3. frozen' \in BOOLEAN
      BY <2>1, <3>1 DEF Graph!RecordEvent, Graph!Learn, Scored
    <3> QED
      BY <3>2, <3>3 DEF Scored
  <2>3. CASE Graph!Tick
    BY <2>1, <2>3 DEF Graph!Tick, Graph!graph, Scored
  <2>4. CASE UNCHANGED graphVars
    BY <2>1, <2>4 DEF graphVars, Scored
  <2> QED
    BY <2>1, <2>2, <2>3, <2>4 DEF Graph!Next
<1> QED
  BY <1>1, <1>2, PTL DEF SpecAll

\* The two invariants of the graph are its types.
LEMMA GraphTyped ==
  ASSUME GraphInv, Scored
  PROVE  Graph!TypeOK
<1>1. /\ nodes \in Seq(Graph!Node)
      /\ baseCaps = {nodes[i].cap : i \in Early(nodes)}
      /\ baseAssets = {nodes[i].asset : i \in Early(nodes)}
  BY DEF GraphInv, Baseline
<1>2. \A i \in Early(nodes) : nodes[i] \in Graph!Node
  BY <1>1 DEF Early
<1>3. \A n \in Graph!Node : n.cap \in Graph!Capability /\ n.asset \in Graph!AssetClass
  BY DEF Graph!Node
<1> QED
  BY <1>1, <1>2, <1>3 DEF Graph!TypeOK, Scored

-------------------------------------------------------------------------------
(* The types of the session files and of the provenance store.             *)

\* Only a process that is writing has its file written to by another.
Spoiled == DOMAIN copy = Processes /\ dirty \subseteq Arbiter!Writing

\* Every step of a command keeps to that.
LEMMA SpoiledStep ==
  ASSUME Spoiled, Arbiter!Next
  PROVE  Spoiled'
<1>1. PICK p \in Processes : Arbiter!Command(p)
  BY DEF Arbiter!Next
<1>2. CASE Arbiter!GrantCommand(p) \/ Arbiter!ModeCommand(p) \/ Arbiter!EnforceCommand(p)
  <2>1. PICK s : Arbiter!LoadToSave(p, s)
    BY <1>2 DEF Arbiter!GrantCommand, Arbiter!ModeCommand, Arbiter!EnforceCommand
  <2>2. /\ copy[p].pc = "idle" /\ dirty' = dirty
        /\ copy' = [copy EXCEPT ![p] = [pc |-> "save", copy |-> s]]
    BY <2>1 DEF Arbiter!LoadToSave
  <2> QED
    BY <2>2 DEF Spoiled, Arbiter!Writing
<1>3. CASE Arbiter!Truncate(p)
  BY <1>3 DEF Arbiter!Truncate, Spoiled
<1>4. CASE Arbiter!Write(p) \/ Arbiter!Fail(p)
  <2>1. /\ copy' = [copy EXCEPT ![p] = Arbiter!Idle]
        /\ dirty' \subseteq Arbiter!Writing \ {p}
    BY <1>4 DEF Arbiter!Write, Arbiter!Fail, Spoiled
  <2> QED
    BY <2>1 DEF Spoiled, Arbiter!Writing
<1> QED
  BY <1>1, <1>2, <1>3, <1>4 DEF Arbiter!Command

\* So it holds while the sessions run.
LEMMA SpoiledSafety == SpecAll => [](component = "arbiter" => Spoiled)
<1>1. InitAll => (component = "arbiter" => Spoiled)
  BY DEF InitAll, Arbiter!Init, Spoiled
<1>2. (component = "arbiter" => Spoiled) /\ [NextAll]_allVars => (component = "arbiter" => Spoiled)'
  <2> SUFFICES ASSUME component = "arbiter" => Spoiled, [NextAll]_allVars, component' = "arbiter"
               PROVE  Spoiled'
    OBVIOUS
  <2>1. Spoiled /\ [Arbiter!Next]_arbiterVars
    BY OneRuns
  <2>2. CASE UNCHANGED arbiterVars
    BY <2>1, <2>2 DEF arbiterVars, Spoiled, Arbiter!Writing
  <2> QED
    BY <2>1, <2>2, SpoiledStep
<1> QED
  BY <1>1, <1>2, PTL DEF SpecAll

\* The two invariants of the session files are their types.
LEMMA ArbiterTyped ==
  ASSUME ArbiterInv, Spoiled
  PROVE  Arbiter!TypeOK
BY DEF ArbiterInv, Spoiled, GoodSession, Saving, Arbiter!TypeOK

\* The store's invariant holds while the store runs, and so do its types.
LEMMA StoreSafety == SpecAll => [](component = "store" => TypeOK)
<1>1. InitAll => (component = "store" => IInv)
  BY Initial, TimesAssumption DEF InitAll
<1>2. (component = "store" => IInv) /\ [NextAll]_allVars => (component = "store" => IInv)'
  <2> SUFFICES ASSUME component = "store" => IInv, [NextAll]_allVars, component' = "store"
               PROVE  IInv'
    OBVIOUS
  <2>1. IInv /\ [Next]_vars
    BY OneRuns
  <2> QED
    BY <2>1, Inductive, TimesAssumption
<1>3. (component = "store" => IInv) => (component = "store" => TypeOK)
  BY StoreTyped
<1> QED
  BY <1>1, <1>2, <1>3, PTL DEF SpecAll

-------------------------------------------------------------------------------
(* The types of the rule registry.                                         *)

RulesInv ==
  /\ DOMAIN ruleThread = Processes
  /\ rules = [compiled |-> rules.compiled, hosts |-> rules.hosts, suppressed |-> rules.suppressed]
  /\ Rules!TypeOK

\* A rule that is tuned is one of a file's.
LEMMA TunedTyped ==
  ASSUME RulesInv, NEW id \in Rules!RuleIds, NEW ids, Rules!Note(id), UNCHANGED ruleThread,
         rules' = [rules EXCEPT !.suppressed = ids],
         ids \subseteq rules.suppressed \cup {id}, asked' \subseteq asked \cup {id}
  PROVE  RulesInv'
<1>1. /\ rules' = [compiled |-> rules'.compiled, hosts |-> rules'.hosts,
                   suppressed |-> rules'.suppressed]
      /\ rules'.compiled = rules.compiled /\ rules'.hosts = rules.hosts
      /\ rules'.suppressed \subseteq rules.suppressed \cup {id}
  BY DEF RulesInv
<1>2. overtaken' \subseteq overtaken \cup {id}
  BY DEF Rules!Note
<1> QED
  BY <1>1, <1>2 DEF RulesInv, Rules!TypeOK, Rules!RuleIds

\* A reload brings the rules of a file and the list it copied.
LEMMA RulesStep ==
  ASSUME RulesInv, Rules!Next
  PROVE  RulesInv'
<1>1. PICK t \in Processes :
        \/ Rules!ReloadBegin(t) \/ Rules!ReloadCommit(t)
        \/ \E id \in Rules!RuleIds : Rules!Suppress(t, id) \/ Rules!Unsuppress(t, id)
  BY DEF Rules!Next
<1>2. CASE Rules!ReloadBegin(t)
  <2>1. PICK f \in RuleFiles :
          ruleThread' = [ruleThread EXCEPT
                           ![t] = [pc |-> "reload", file |-> f, suppressed |-> rules.suppressed]]
    BY <1>2 DEF Rules!ReloadBegin, Rules!CopySuppressed
  <2> DEFINE next == [pc |-> "reload", file |-> f, suppressed |-> rules.suppressed]
  <2>2. next \in [pc: {"reload"}, file: RuleFiles, suppressed: SUBSET Rules!RuleIds]
    BY DEF RulesInv, Rules!TypeOK
  <2>3. UNCHANGED <<rules, asked, overtaken>>
    BY <1>2 DEF Rules!ReloadBegin
  <2> HIDE DEF next
  <2> QED
    BY <2>1, <2>2, <2>3 DEF RulesInv, Rules!TypeOK, Rules!RuleIds, next
<1>3. CASE Rules!ReloadCommit(t)
  <2>1. /\ ruleThread[t].pc = "reload" /\ UNCHANGED <<asked, overtaken>>
        /\ rules' = [compiled |-> Rules!Compiled(ruleThread[t].file),
                     hosts |-> ruleThread[t].file.hosts, suppressed |-> ruleThread[t].suppressed]
        /\ ruleThread' = [ruleThread EXCEPT ![t] = Rules!Idle]
    BY <1>3 DEF Rules!ReloadCommit
  <2>2. ruleThread[t] \in [pc: {"reload"}, file: RuleFiles, suppressed: SUBSET Rules!RuleIds]
    BY <2>1 DEF RulesInv, Rules!TypeOK, Rules!Idle
  <2>3. /\ rules'.compiled = Rules!Compiled(ruleThread[t].file)
        /\ rules'.hosts = ruleThread[t].file.hosts
        /\ rules'.suppressed = ruleThread[t].suppressed
        /\ rules' = [compiled |-> rules'.compiled, hosts |-> rules'.hosts,
                     suppressed |-> rules'.suppressed]
    BY <2>1
  <2> QED
    BY <2>1, <2>2, <2>3 DEF RulesInv, Rules!TypeOK, Rules!RuleIds, Rules!Compiled
<1>4. CASE \E id \in Rules!RuleIds : Rules!Suppress(t, id) \/ Rules!Unsuppress(t, id)
  <2>1. PICK id \in Rules!RuleIds : Rules!Suppress(t, id) \/ Rules!Unsuppress(t, id)
    BY <1>4
  <2>2. PICK ids :
          /\ Rules!Note(id) /\ UNCHANGED ruleThread /\ rules' = [rules EXCEPT !.suppressed = ids]
          /\ ids \subseteq rules.suppressed \cup {id} /\ asked' \subseteq asked \cup {id}
    BY <2>1 DEF Rules!Suppress, Rules!Unsuppress
  <2> QED
    BY <2>2, TunedTyped
<1> QED
  BY <1>1, <1>2, <1>3, <1>4

\* So they hold while the registry runs.
LEMMA RulesSafety == SpecAll => [](component = "rules" => RulesInv)
<1>1. InitAll => (component = "rules" => RulesInv)
  <2> SUFFICES ASSUME InitAll
               PROVE  RulesInv
    OBVIOUS
  <2>1. PICK f \in RuleFiles :
          rules = [compiled |-> Rules!Compiled(f), hosts |-> f.hosts, suppressed |-> {}]
    BY DEF InitAll, Rules!Init
  <2>2. /\ ruleThread = [t \in Processes |-> Rules!Idle] /\ asked = {} /\ overtaken = {}
    BY DEF InitAll, Rules!Init
  <2> QED
    BY <2>1, <2>2 DEF RulesInv, Rules!TypeOK
<1>2. (component = "rules" => RulesInv) /\ [NextAll]_allVars => (component = "rules" => RulesInv)'
  <2> SUFFICES ASSUME component = "rules" => RulesInv, [NextAll]_allVars, component' = "rules"
               PROVE  RulesInv'
    OBVIOUS
  <2>1. RulesInv /\ [Rules!Next]_ruleVars
    BY OneRuns
  <2>2. CASE UNCHANGED ruleVars
    BY <2>1, <2>2 DEF ruleVars, RulesInv, Rules!TypeOK, Rules!RuleIds, Rules!Compiled
  <2> QED
    BY <2>1, <2>2, RulesStep
<1> QED
  BY <1>1, <1>2, PTL DEF SpecAll

-------------------------------------------------------------------------------
(* The types of the canary registry and of the correlation of sends.       *)

CanaryInv == DOMAIN canaryThread = Processes /\ Canaries!TypeOK

\* What a thread of the registry may be in.
ThreadTyped(at) ==
  \/ at.pc \in {"idle", "unplant", "check"}
  \/ at.pc = "plant" /\ at.todo \subseteq DecoyPaths
  \/ at \in Lister

\* A thread goes on, and only it.
LEMMA ThreadGoesOn ==
  ASSUME CanaryInv, NEW t \in Processes, NEW next, Canaries!Goto(t, next), ThreadTyped(next)
  PROVE  DOMAIN canaryThread' = Processes /\ \A u \in Processes : ThreadTyped(canaryThread'[u])
<1>1. canaryThread' = [canaryThread EXCEPT ![t] = next] /\ DOMAIN canaryThread = Processes
  BY DEF Canaries!Goto, CanaryInv
<1>2. \A u \in Processes : ThreadTyped(canaryThread[u])
  BY DEF CanaryInv, Canaries!TypeOK, ThreadTyped, Lister
<1>3. ASSUME NEW u \in Processes
      PROVE  ThreadTyped(canaryThread'[u])
  <2>1. canaryThread'[u] = IF u = t THEN next ELSE canaryThread[u]
    BY <1>1
  <2> HIDE DEF ThreadTyped
  <2> QED
    BY <1>2, <2>1
<1> QED
  BY <1>1, <1>3

\* A thread that does not end its operation: what it is in the middle of.
LEMMA ThreadState ==
  ASSUME CanaryInv, NEW t \in Processes
  PROVE  /\ canaryThread[t].pc \in {"write", "push", "insert"} => canaryThread[t] \in Lister
         /\ canaryThread[t].pc = "plant" => canaryThread[t].todo \subseteq DecoyPaths
BY DEF CanaryInv, Canaries!TypeOK, Lister

\* Every step keeps the types of the files, the list and the paths.
LEMMA CanaryStep ==
  ASSUME CanaryInv, NEW t \in Processes, Canaries!Operation(t)
  PROVE  CanaryInv'
<1> DEFINE at == canaryThread[t]
<1>1. /\ files \in [DecoyPaths -> {"none", "user", "decoy"}]
      /\ canaries \subseteq Canaries!Canary /\ paths \subseteq DecoyPaths
      /\ mine \subseteq {p \in DecoyPaths : files[p] = "decoy"}
  BY DEF CanaryInv, Canaries!TypeOK
<1>2. /\ at.pc \in {"write", "push", "insert"} => at \in Lister
      /\ at.pc = "plant" => at.todo \subseteq DecoyPaths
  BY ThreadState
<1>3. SUFFICES ASSUME TRUE
               PROVE  /\ \E next : Canaries!Goto(t, next) /\ ThreadTyped(next)
                      /\ files' \in [DecoyPaths -> {"none", "user", "decoy"}]
                      /\ canaries' \subseteq Canaries!Canary /\ paths' \subseteq DecoyPaths
                      /\ mine' \subseteq {p \in DecoyPaths : files'[p] = "decoy"}
  BY ThreadGoesOn DEF CanaryInv, Canaries!TypeOK, ThreadTyped, Lister
<1>4. ThreadTyped(Canaries!Idle)
  BY DEF ThreadTyped, Canaries!Idle
<1>5. CASE Canaries!Plant(t)
  <2>1. ThreadTyped([pc |-> "plant", todo |-> DecoyPaths])
    BY DEF ThreadTyped
  <2> QED
    BY <1>1, <1>5, <2>1 DEF Canaries!Plant
<1>6. CASE Canaries!PlantLook(t)
  <2>1. at.todo \subseteq DecoyPaths /\ UNCHANGED <<files, canaries, paths, mine>>
    BY <1>2, <1>6 DEF Canaries!PlantLook
  <2>2. CASE at.todo = {}
    BY <1>1, <1>4, <1>6, <2>1, <2>2 DEF Canaries!PlantLook
  <2>3. CASE at.todo # {}
    <3>1. PICK p \in at.todo :
            Canaries!Goto(t, IF files[p] # "none" THEN [pc |-> "plant", todo |-> at.todo \ {p}]
                             ELSE [pc |-> "write", path |-> p, planted |-> TRUE,
                                   todo |-> at.todo \ {p}])
      BY <1>6, <2>3 DEF Canaries!PlantLook
    <3>2. ThreadTyped([pc |-> "plant", todo |-> at.todo \ {p}])
      BY <2>1 DEF ThreadTyped
    <3>3. [pc |-> "write", path |-> p, planted |-> TRUE, todo |-> at.todo \ {p}] \in Lister
      BY <2>1 DEF Lister
    <3>4. ThreadTyped([pc |-> "write", path |-> p, planted |-> TRUE, todo |-> at.todo \ {p}])
      BY <3>3 DEF ThreadTyped
    <3> QED
      BY <1>1, <2>1, <3>1, <3>2, <3>4
  <2> QED
    BY <2>2, <2>3
<1>7. CASE Canaries!PlantWrite(t)
  <2> DEFINE next == [at EXCEPT !.pc = "push"]
  <2>1. /\ at \in Lister /\ Canaries!Goto(t, next) /\ UNCHANGED <<canaries, paths>>
        /\ files' = [files EXCEPT ![at.path] = "decoy"] /\ mine' = mine \cup {at.path}
    BY <1>2, <1>7 DEF Canaries!PlantWrite
  <2>2. at.path \in DecoyPaths /\ next \in Lister
    BY <2>1 DEF Lister
  <2>3. ThreadTyped(next)
    BY <2>2 DEF ThreadTyped
  <2> HIDE DEF at, next
  <2> QED
    BY <1>1, <2>1, <2>2, <2>3
<1>8. CASE Canaries!CheckList(t)
  BY <1>1, <1>4, <1>8 DEF Canaries!CheckList
<1>15. CASE Canaries!PlantError(t)
  <2>1. /\ files' \in {files, [files EXCEPT ![at.path] = "decoy"]}
        /\ Canaries!Goto(t, Canaries!Idle) /\ UNCHANGED <<canaries, paths, mine>>
    BY <1>15 DEF Canaries!PlantError
  <2> HIDE DEF at
  <2>2. files' \in [DecoyPaths -> {"none", "user", "decoy"}]
    BY <1>1, <2>1
  <2>3. \A p \in DecoyPaths : files[p] = "decoy" => files'[p] = "decoy"
    BY <1>1, <2>1
  <2> QED
    BY <1>1, <1>4, <2>1, <2>2, <2>3
<1>9. CASE Canaries!Push(t)
  <2> DEFINE next == [at EXCEPT !.pc = "insert"]
             new == [path |-> at.path, planted |-> at.planted]
  <2>1. /\ at \in Lister /\ Canaries!Goto(t, next) /\ UNCHANGED <<files, paths, mine>>
        /\ canaries' = canaries \cup {new}
    BY <1>2, <1>9 DEF Canaries!Push
  <2>2. new \in Canaries!Canary /\ next \in Lister
    BY <2>1 DEF Lister, Canaries!Canary
  <2>3. ThreadTyped(next)
    BY <2>2 DEF ThreadTyped
  <2> HIDE DEF new, next
  <2> QED
    BY <1>1, <2>1, <2>2, <2>3
<1>10. CASE Canaries!Insert(t)
  <2> DEFINE next == [pc |-> "plant", todo |-> at.todo]
  <2>1. /\ at \in Lister /\ Canaries!Goto(t, next) /\ UNCHANGED <<files, canaries, mine>>
        /\ paths' = paths \cup {at.path}
    BY <1>2, <1>10 DEF Canaries!Insert
  <2>2. at.path \in DecoyPaths /\ ThreadTyped(next)
    BY <2>1 DEF Lister, ThreadTyped
  <2> HIDE DEF at, next
  <2> QED
    BY <1>1, <2>1, <2>2
<1>11. CASE Canaries!Register(t)
  <2>1. PICK p \in DecoyPaths :
          Canaries!Goto(t, [pc |-> "push", path |-> p, planted |-> FALSE, todo |-> {}])
    BY <1>11 DEF Canaries!Register
  <2>2. [pc |-> "push", path |-> p, planted |-> FALSE, todo |-> {}] \in Lister
    BY DEF Lister
  <2>3. ThreadTyped([pc |-> "push", path |-> p, planted |-> FALSE, todo |-> {}])
    BY <2>2 DEF ThreadTyped
  <2> QED
    BY <1>1, <1>11, <2>1, <2>3 DEF Canaries!Register
<1>12. CASE Canaries!Unplant(t)
  <2> DEFINE gone == {c.path : c \in {d \in canaries : d.planted}}
  <2>1. PICK removed \in SUBSET gone :
          /\ files' = [p \in DecoyPaths |-> IF p \in removed THEN "none" ELSE files[p]]
          /\ mine' = mine \ gone /\ canaries' = {} /\ paths' = paths
          /\ Canaries!Goto(t, [pc |-> "unplant"])
    BY <1>12 DEF Canaries!Unplant
  <2>2. ThreadTyped([pc |-> "unplant"])
    BY DEF ThreadTyped
  <2> HIDE DEF gone
  <2> QED
    BY <1>1, <2>1, <2>2
<1>13. CASE Canaries!UnplantPaths(t)
  BY <1>1, <1>4, <1>13 DEF Canaries!UnplantPaths
<1>14. CASE Canaries!Check(t)
  <2>1. ThreadTyped([pc |-> "check"])
    BY DEF ThreadTyped
  <2> QED
    BY <1>1, <1>14, <2>1 DEF Canaries!Check
<1> QED
  BY <1>5, <1>6, <1>7, <1>8, <1>9, <1>10, <1>11, <1>12, <1>13, <1>14, <1>15
     DEF Canaries!Operation

\* So they hold while the registry runs.
LEMMA CanarySafety == SpecAll => [](component = "canaries" => CanaryInv)
<1>1. InitAll => (component = "canaries" => CanaryInv)
  BY DEF InitAll, Canaries!Init, CanaryInv, Canaries!TypeOK, Canaries!Idle
<1>2. (component = "canaries" => CanaryInv) /\ [NextAll]_allVars
        => (component = "canaries" => CanaryInv)'
  <2> SUFFICES ASSUME component = "canaries" => CanaryInv, [NextAll]_allVars,
                      component' = "canaries"
               PROVE  CanaryInv'
    OBVIOUS
  <2>1. CanaryInv /\ [Canaries!Next]_canaryVars
    BY OneRuns
  <2>2. CASE Canaries!NewCommand
    BY <2>1, <2>2 DEF Canaries!NewCommand, CanaryInv, Canaries!TypeOK, Canaries!Idle
  <2>3. CASE \E p \in DecoyPaths : Canaries!UserFile(p)
    BY <2>1, <2>3 DEF Canaries!UserFile, CanaryInv, Canaries!TypeOK
  <2>4. CASE UNCHANGED canaryVars
    BY <2>1, <2>4 DEF canaryVars, CanaryInv, Canaries!TypeOK
  <2> QED
    BY <2>1, <2>2, <2>3, <2>4, CanaryStep DEF Canaries!Next
<1> QED
  BY <1>1, <1>2, PTL DEF SpecAll

\* The record, the calls and the history of the sends: a call's times are past, which
\* they stay while the clock goes on.
SendTypes == DOMAIN sender = Senders /\ Sends!TypeOK

CallTyped(call, now) ==
  \/ call = Sends!Idle
  \/ call \in [pc: {"readback"}, others: SUBSET Senders, at: 0 .. now]
  \/ call \in [pc: {"ended"}, told: BOOLEAN, took: 0 .. now, due: BOOLEAN]

\* A call goes on, and only it.
LEMMA CallGoesOn ==
  ASSUME SendTypes, NEW s \in Senders, NEW call, CallTyped(call, sendClock), UNCHANGED sendClock,
         sender' = [sender EXCEPT ![s] = call],
         record' \in [sessions: SUBSET Senders, seen: 0 .. SendSeconds],
         lostSends' \subseteq Senders, UNCHANGED pruner
  PROVE  SendTypes'
<1>1. \A u \in Senders : CallTyped(sender[u], sendClock)
  BY DEF SendTypes, Sends!TypeOK, CallTyped
<1>2. ASSUME NEW u \in Senders
      PROVE  CallTyped(sender'[u], sendClock')
  <2>1. sender'[u] = IF u = s THEN call ELSE sender[u]
    BY DEF SendTypes
  <2> QED
    BY <1>1, <2>1
<1> QED
  BY <1>2 DEF SendTypes, Sends!TypeOK, CallTyped

LEMMA SendTyped == SpecAll => [](component = "sends" => SendTypes)
<1>1. InitAll => (component = "sends" => SendTypes)
  <2> SUFFICES ASSUME InitAll
               PROVE  SendTypes
    OBVIOUS
  <2>1. /\ record = [sessions |-> {}, seen |-> 0] /\ sendClock = 0 /\ lostSends = {}
        /\ sender = [s \in Senders |-> Sends!Idle] /\ pruner = Sends!Idle
    BY DEF InitAll, Sends!Init, Sends!NoRecord
  <2>2. 0 \in 0 .. SendSeconds
    BY TimesAssumption
  <2> QED
    BY <2>1, <2>2 DEF SendTypes, Sends!TypeOK
<1>2. (component = "sends" => SendTypes) /\ [NextAll]_allVars
        => (component = "sends" => SendTypes)'
  <2> SUFFICES ASSUME component = "sends" => SendTypes, [NextAll]_allVars, component' = "sends"
               PROVE  SendTypes'
    OBVIOUS
  <2>1. SendTypes /\ [Sends!Next]_sendVars
    BY OneRuns
  <2>2. /\ record \in [sessions: SUBSET Senders, seen: 0 .. SendSeconds]
        /\ sendClock \in 0 .. SendSeconds /\ sendClock \in Nat /\ lostSends \subseteq Senders
        /\ 0 \in 0 .. SendSeconds
    BY <2>1, TimesAssumption DEF SendTypes, Sends!TypeOK
  <2>3. CASE Sends!Tick
    <3>1. sendClock' = sendClock + 1 /\ sendClock' \in 0 .. SendSeconds
          /\ UNCHANGED <<record, sender, pruner, lostSends>>
      BY <2>2, <2>3, TimesAssumption DEF Sends!Tick
    <3>2. \A t : t \in 0 .. sendClock => t \in 0 .. sendClock'
      BY <2>2, <3>1
    <3>3. \A s \in Senders : CallTyped(sender[s], sendClock)
      BY <2>1 DEF SendTypes, Sends!TypeOK, CallTyped
    <3>4. \A call : CallTyped(call, sendClock) => CallTyped(call, sendClock')
      BY <3>2 DEF CallTyped
    <3>5. \A s \in Senders : CallTyped(sender'[s], sendClock')
      BY <3>1, <3>3, <3>4
    <3>6. pruner' = Sends!Idle \/ pruner' \in [pc: {"remove"}, seen: 0 .. sendClock']
      BY <2>1, <3>1, <3>2 DEF SendTypes, Sends!TypeOK
    <3> QED
      BY <2>1, <2>2, <3>1, <3>5, <3>6 DEF SendTypes, Sends!TypeOK, CallTyped
  <2>4. CASE Sends!Collect
    <3>1. /\ pruner' = [pc |-> "remove", seen |-> record.seen]
          /\ sendClock - record.seen > SendAge /\ UNCHANGED <<record, sendClock, sender, lostSends>>
      BY <2>4 DEF Sends!Collect
    <3>2. record.seen \in 0 .. sendClock
      BY <2>2, <3>1, SendAgeAssumption
    <3>3. pruner' \in [pc: {"remove"}, seen: 0 .. sendClock']
      BY <3>1, <3>2
    <3> QED
      BY <2>1, <3>1, <3>3 DEF SendTypes, Sends!TypeOK
  <2>5. CASE Sends!Remove
    <3>1. /\ record' = [sessions |-> {}, seen |-> 0] /\ pruner' = Sends!Idle
          /\ lostSends' \subseteq Senders /\ UNCHANGED <<sendClock, sender>>
      BY <2>2, <2>5 DEF Sends!Remove, Sends!NoRecord
    <3>2. record' \in [sessions: SUBSET Senders, seen: 0 .. SendSeconds]
      BY <2>2, <3>1
    <3> QED
      BY <2>1, <3>1, <3>2 DEF SendTypes, Sends!TypeOK
  <2>6. ASSUME NEW s \in Senders, Sends!Update(s)
        PROVE  SendTypes'
    <3> DEFINE call == [pc |-> "readback", others |-> Sends!SentBefore(s), at |-> sendClock]
    <3>1. /\ sender' = [sender EXCEPT ![s] = call] /\ UNCHANGED <<sendClock, pruner>>
          /\ record' = [sessions |-> record.sessions \cup {s}, seen |-> sendClock]
          /\ lostSends' \subseteq lostSends
      BY <2>6 DEF Sends!Update
    <3>2. Sends!SentBefore(s) \subseteq Senders
      BY <2>2 DEF Sends!SentBefore
    <3>3. CallTyped(call, sendClock)
      BY <2>2, <3>2 DEF CallTyped
    <3>4. record' \in [sessions: SUBSET Senders, seen: 0 .. SendSeconds]
      BY <2>2, <3>1
    <3> HIDE DEF call
    <3> QED
      BY <2>1, <2>2, <3>1, <3>3, <3>4, CallGoesOn
  <2>7. ASSUME NEW s \in Senders, Sends!ReadBack(s)
        PROVE  SendTypes'
    <3> DEFINE told == Sends!Correlated(s, record.sessions)
               took == sendClock - sender[s].at
               due == s \notin lostSends /\ sender[s].others \ lostSends # {}
               call == [pc |-> "ended", told |-> told, took |-> took, due |-> due]
    <3>1. /\ sender[s].pc = "readback" /\ sender' = [sender EXCEPT ![s] = call]
          /\ UNCHANGED <<record, sendClock, pruner, lostSends>>
      BY <2>7 DEF Sends!ReadBack
    <3>2. sender[s].at \in 0 .. sendClock
      BY <2>1, <3>1 DEF SendTypes, Sends!TypeOK, Sends!Idle
    <3>3. took \in 0 .. sendClock
      BY <2>2, <3>2
    <3>4. told \in BOOLEAN /\ due \in BOOLEAN
      BY DEF Sends!Correlated
    <3> HIDE DEF told, took, due
    <3>5. CallTyped(call, sendClock)
      BY <3>3, <3>4 DEF CallTyped
    <3> HIDE DEF call
    <3> QED
      BY <2>1, <2>2, <3>1, <3>5, CallGoesOn
  <2>8. ASSUME NEW s \in Senders, Sends!Fail(s)
        PROVE  SendTypes'
    <3>1. CallTyped(Sends!Idle, sendClock)
      BY DEF CallTyped
    <3> QED
      BY <2>1, <2>2, <2>8, <3>1, CallGoesOn DEF Sends!Fail
  <2>9. CASE UNCHANGED sendVars
    BY <2>1, <2>9 DEF sendVars, SendTypes, Sends!TypeOK
  <2> QED
    BY <2>1, <2>3, <2>4, <2>5, <2>6, <2>7, <2>8, <2>9 DEF Sends!Next
<1> QED
  BY <1>1, <1>2, PTL DEF SpecAll

-------------------------------------------------------------------------------
(* The types of what is published and installed.                           *)

\* What BundleInv and FeedInv leave out: the bounds, and that a registry is torn as a
\* whole.
Whole(content) == content = Publish!Unparsed \/ content \in [Hosts -> Publish!Entry]
RegistryTyped ==
  /\ Whole(registry)
  /\ DOMAIN command = Processes
  /\ \A p \in Processes :
       \/ command[p] = Publish!Ready
       \/ command[p] \in [pc: {"save"}, copy: [Hosts -> Publish!Entry], stale: BOOLEAN]

PublishInv ==
  /\ BundleInv /\ FeedInv /\ RegistryTyped
  /\ runs \in 0 .. MaxRuns /\ Len(reader) <= 6

\* These are the types.
LEMMA PublishTyped ==
  ASSUME PublishInv
  PROVE  Publish!TypeOK
<1>1. Len(Publish!Reads) = 6 /\ Len(Publish!Order) = 5
  BY DEF Publish!Reads, Publish!Order
<1>2. \A l \in {"bundle", "sums"} :
        dir[l] \in [ok: BOOLEAN, hash: [Publish!File -> Publish!Text]]
  BY DEF PublishInv, BundleInv, OneRun, List
<1>3. \A f \in Publish!File : dir[f] \in Publish!Text
  BY DEF PublishInv, BundleInv, DirTyped
<1>4. \A w \in {Writer} : writer[w].run \in 0 .. MaxRuns /\ writer[w].step \in 0 .. 5
  <2>1. CASE writer[Writer] = Publish!Resting
    BY <2>1, ComponentsAssumption DEF Publish!Resting
  <2>2. CASE UnderWay(writer[Writer])
    <3>1. writer[Writer].run \in 1 .. MaxRuns /\ writer[Writer].step \in 1 .. 5
      BY <2>2 DEF UnderWay
    <3> QED
      BY <3>1, ComponentsAssumption
  <2> QED
    BY <2>1, <2>2 DEF PublishInv, BundleInv
<1>5. SignedFeed \subseteq Publish!Feed
  BY DEF SignedFeed, Publish!Feed
<1>6. installed \in [Publish!ToSet(Publish!FeedFiles)
                      -> Publish!Feed \cup {Publish!NoFeed, Publish!TornFeed}]
  BY <1>5, FeedFilesAre DEF PublishInv, FeedInv
<1>7. \/ install \in {Publish!Done, Publish!Cut}
      \/ install \in [pc: {"write"}, feed: Publish!Feed, step: 1 .. Len(Publish!FeedFiles)]
  <2>1. \/ install \in {Publish!Done, Publish!Cut}
        \/ install \in [pc: {"write"}, feed: SignedFeed, step: 1 .. 3]
    BY DEF PublishInv, FeedInv
  <2>2. [pc: {"write"}, feed: SignedFeed, step: 1 .. 3]
          \subseteq [pc: {"write"}, feed: Publish!Feed, step: 1 .. 3]
    BY <1>5
  <2> QED
    BY <2>1, <2>2, FeedFilesAre
<1>8. \A p \in Processes :
        command[p] = Publish!Ready \/ command[p].copy \in [Hosts -> Publish!Entry]
  BY DEF PublishInv, RegistryTyped
<1>9. registry = Publish!Unparsed \/ registry \in [Hosts -> Publish!Entry]
  BY DEF PublishInv, RegistryTyped, Whole
<1> QED
  BY <1>1, <1>2, <1>3, <1>4, <1>6, <1>7, <1>8, <1>9 DEF PublishInv, Publish!TypeOK

\* A command loads a whole registry and saves one, or spoils the file.
LEMMA RegistryWhole ==
  ASSUME PublishInv, NEW p \in Processes, Publish!Add(p) \/ Publish!Sync(p) \/ Publish!Save(p)
  PROVE  RegistryTyped'
<1>1. DOMAIN command = Processes /\ RegistryTyped
  BY DEF PublishInv, RegistryTyped
<1>2. CASE Publish!Save(p)
  <2>1. /\ command[p].pc = "save" /\ registry' \in {command[p].copy, Publish!Unparsed}
        /\ command' = [q \in Processes |->
                         IF q = p \/ command[q] = Publish!Ready THEN Publish!Ready
                         ELSE [command[q] EXCEPT !.stale = TRUE]]
    BY <1>2 DEF Publish!Save
  <2>2. command[p].copy \in [Hosts -> Publish!Entry]
    BY <1>1, <2>1 DEF RegistryTyped, Publish!Ready
  <2>3. \A q \in Processes :
          \/ command'[q] = Publish!Ready
          \/ command'[q] \in [pc: {"save"}, copy: [Hosts -> Publish!Entry], stale: BOOLEAN]
    BY <1>1, <2>1 DEF RegistryTyped
  <2> QED
    BY <2>1, <2>2, <2>3 DEF RegistryTyped, Whole
<1>3. CASE Publish!Add(p) \/ Publish!Sync(p)
  <2>1. PICK changed \in [Hosts -> Publish!Entry] : Publish!LoadToSave(p, changed)
    <3>1. registry # Publish!Unparsed => registry \in [Hosts -> Publish!Entry]
      BY <1>1 DEF RegistryTyped, Whole
    <3>2. CASE Publish!Add(p)
      <4>1. PICK h \in Hosts : Publish!LoadToSave(p, [registry EXCEPT ![h] = "local"])
        BY <3>2 DEF Publish!Add
      <4>2. registry \in [Hosts -> Publish!Entry]
        BY <3>1, <4>1 DEF Publish!LoadToSave
      <4>3. [registry EXCEPT ![h] = "local"] \in [Hosts -> Publish!Entry]
        BY <4>2 DEF Publish!Entry
      <4> QED
        BY <4>1, <4>3
    <3>3. CASE Publish!Sync(p)
      <4>1. PICK remote \in [Hosts -> {"none", "signed", "unsigned"}] :
              Publish!LoadToSave(p, Publish!Merged(remote))
        BY <3>3 DEF Publish!Sync
      <4>2. registry \in [Hosts -> Publish!Entry]
        BY <3>1, <4>1 DEF Publish!LoadToSave
      <4>3. Publish!Merged(remote) \in [Hosts -> Publish!Entry]
        BY <4>2 DEF Publish!Entry, Publish!Merged
      <4> QED
        BY <4>1, <4>3
    <3> QED
      BY <1>3, <3>2, <3>3
  <2>2. /\ registry' = registry
        /\ command' = [command EXCEPT ![p] = [pc |-> "save", copy |-> changed, stale |-> FALSE]]
    BY <2>1 DEF Publish!LoadToSave
  <2> QED
    BY <1>1, <2>2 DEF RegistryTyped
<1> QED
  BY <1>2, <1>3

\* So they hold while any of the three runs.
LEMMA PublishSafety == SpecAll => [](component \in {"bundle", "registry", "feed"} => PublishInv)
<1> DEFINE I == component \in {"bundle", "registry", "feed"} => PublishInv
<1>1. InitAll => I
  <2> SUFFICES ASSUME InitAll
               PROVE  PublishInv
    OBVIOUS
  <2>1. /\ registry = [h \in Hosts |-> "none"] /\ command = [p \in Processes |-> Publish!Ready]
        /\ runs = 0 /\ reader = <<>>
    BY DEF InitAll, Publish!Init
  <2>2. registry \in [Hosts -> Publish!Entry] /\ Len(reader) = 0 /\ 0 \in 0 .. MaxRuns
    BY <2>1, ComponentsAssumption DEF Publish!Entry
  <2>3. RegistryTyped
    BY <2>1, <2>2 DEF RegistryTyped, Whole
  <2> QED
    BY <2>1, <2>2, <2>3, BundleInitially, FeedInitially DEF PublishInv
<1>2. I /\ [NextAll]_allVars => I'
  <2> SUFFICES ASSUME I, [NextAll]_allVars, component' \in {"bundle", "registry", "feed"}
               PROVE  PublishInv'
    OBVIOUS
  <2>0. /\ PublishInv
        /\ [Publish!Bundle \/ Publish!Registry \/ Publish!Install]_publishVars
    BY OneRuns
  <2>1. UNCHANGED <<registry, command, installed, install>> => (FeedInv /\ RegistryTyped)'
    <3> SUFFICES ASSUME UNCHANGED <<registry, command, installed, install>>
                 PROVE  FeedInv' /\ RegistryTyped'
      OBVIOUS
    <3>1. FeedInv /\ RegistryTyped
      BY <2>0 DEF PublishInv
    <3>2. FeedInv'
      BY <3>1 DEF FeedInv
    <3>3. RegistryTyped'
      BY <3>1 DEF RegistryTyped, Whole
    <3> QED
      BY <3>2, <3>3
  <2>2. UNCHANGED <<dir, writer, runs, reader>> => BundleInv'
    <3> SUFFICES ASSUME UNCHANGED <<dir, writer, runs, reader>>
                 PROVE  BundleInv'
      OBVIOUS
    <3>1. BundleInv
      BY <2>0 DEF PublishInv
    <3>2. DirTyped' = DirTyped
      BY DEF DirTyped
    <3>3. UnderWay(writer[Writer])' = UnderWay(writer[Writer])
      BY DEF UnderWay, OneRun
    <3>4. (OneRun(dir["bundle"]) /\ OneRun(dir["sums"]))' = (OneRun(dir["bundle"]) /\ OneRun(dir["sums"]))
      BY DEF OneRun
    <3>5. OneRun(reader[1])' = OneRun(reader[1])
      BY DEF OneRun
    <3> QED
      BY <3>1, <3>2, <3>3, <3>4, <3>5 DEF BundleInv
  <2>3. CASE Publish!Bundle
    <3>1. UNCHANGED <<registry, command, installed, install>>
      BY <2>3 DEF Publish!Bundle, Publish!VerifyBegin, Publish!ReadNext, Publish!Certify,
                  Publish!WriteNext, Publish!Die, Publish!registryVars, Publish!feedVars
    <3>2. BundleInv'
      BY <2>0, <2>3, VerifyStep, CertifyStep, BundleWriteStep, DieStep
         DEF Publish!Bundle, PublishInv
    <3>3. runs' \in 0 .. MaxRuns
      <4>1. runs' = runs \/ (runs < MaxRuns /\ runs' = runs + 1)
        BY <2>3 DEF Publish!Bundle, Publish!VerifyBegin, Publish!ReadNext, Publish!Certify,
                    Publish!WriteNext, Publish!Die
      <4> QED
        BY <2>0, <4>1, ComponentsAssumption DEF PublishInv
    <3>4. Len(reader') <= 6
      <4>1. \/ reader' = reader \/ reader' = <<>>
            \/ \E x : Len(reader) < Len(Publish!Reads) /\ reader' = Append(reader, x)
        BY <2>3 DEF Publish!Bundle, Publish!VerifyBegin, Publish!ReadNext, Publish!Certify,
                    Publish!WriteNext, Publish!Die
      <4>2. Len(Publish!Reads) = 6
        BY DEF Publish!Reads
      <4>3. reader \in Seq(Publish!Text \cup List) /\ Len(reader) <= 6
        BY <2>0 DEF PublishInv, BundleInv
      <4>4. ASSUME NEW x, Len(reader) < Len(Publish!Reads), reader' = Append(reader, x)
            PROVE  Len(reader') <= 6
        <5>1. Len(reader) \in Nat /\ Len(reader') = Len(reader) + 1
          BY <4>3, <4>4
        <5> DEFINE n == Len(reader)
                   m == Len(reader')
        <5>2. n \in Nat /\ m = n + 1 /\ n < 6
          BY <4>2, <4>4, <5>1
        <5> HIDE DEF n, m
        <5>3. m <= 6
          BY <5>2
        <5> QED
          BY <5>3 DEF m
      <4>5. Len(<<>>) <= 6
        OBVIOUS
      <4> QED
        BY <4>1, <4>3, <4>4, <4>5
    <3> QED
      BY <2>1, <3>1, <3>2, <3>3, <3>4 DEF PublishInv
  <2>4. CASE Publish!Registry
    <3>1. PICK p \in Processes : Publish!Add(p) \/ Publish!Sync(p) \/ Publish!Save(p)
      BY <2>4 DEF Publish!Registry
    <3>2. UNCHANGED <<dir, writer, runs, reader, installed, install>>
      BY <3>1 DEF Publish!Add, Publish!Sync, Publish!LoadToSave, Publish!Save, Publish!bundleVars,
                  Publish!feedVars
    <3>3. FeedInv'
      BY <2>0, <3>2 DEF PublishInv, FeedInv
    <3>4. RegistryTyped'
      BY <2>0, <3>1, RegistryWhole
    <3> QED
      BY <2>0, <2>2, <3>2, <3>3, <3>4 DEF PublishInv
  <2>5. CASE Publish!Install
    <3>1. UNCHANGED <<dir, writer, runs, reader, registry, command>>
      BY <2>5 DEF Publish!Install, Publish!Fetch, Publish!InstallNext, Publish!InstallCut,
                  Publish!bundleVars, Publish!registryVars
    <3>2. FeedInv'
      BY <2>0, <2>5, InstallStep DEF PublishInv
    <3>3. RegistryTyped'
      BY <2>0, <3>1 DEF PublishInv, RegistryTyped, Whole
    <3> QED
      BY <2>0, <2>2, <3>1, <3>2, <3>3 DEF PublishInv
  <2>6. CASE UNCHANGED publishVars
    <3>1. UNCHANGED <<dir, writer, runs, reader, registry, command, installed, install>>
      BY <2>6 DEF publishVars
    <3> QED
      BY <2>0, <2>1, <2>2, <3>1 DEF PublishInv
  <2> QED
    BY <2>0, <2>3, <2>4, <2>5, <2>6
<1> QED
  BY <1>1, <1>2, PTL DEF SpecAll

-------------------------------------------------------------------------------
(* The types of what watches providers and the host.                       *)

\* A ratio of a whole, in percent.
LEMMA Percent ==
  ASSUME NEW a \in Nat, NEW n \in Nat \ {0}, a <= n
  PROVE  (a * 100) \div n \in 0 .. 100
<1> DEFINE q == (a * 100) \div n
<1>1. /\ a * 100 \in Nat /\ q \in Int /\ n * q <= a * 100 /\ a * 100 < n * q + n
  OBVIOUS
<1> HIDE DEF q
<1>2. q >= 0
  <2> SUFFICES ASSUME q <= -1 PROVE FALSE
    BY <1>1
  <2>1. n * q <= n * (-1)
    BY <1>1
  <2> QED
    BY <1>1, <2>1
<1>3. q <= 100
  <2> SUFFICES ASSUME q >= 101 PROVE FALSE
    BY <1>1
  <2>1. n * q >= n * 101
    BY <1>1
  <2> QED
    BY <1>1, <2>1
<1> QED
  BY <1>1, <1>2, <1>3 DEF q

Results == [DOMAIN Battery -> [flagged: BOOLEAN, ms: Latencies]]

\* A battery's results are as many as its probes, of which some are flagged.
LEMMA ResultsCounted ==
  ASSUME NEW r \in Results
  PROVE  /\ DOMAIN r = 1 .. Len(r) /\ Len(r) \in Nat \ {0} /\ r # <<>>
         /\ \A T \in SUBSET DOMAIN r :
              IsFiniteSet(T) /\ Watch!Cardinality(T) \in 0 .. Len(r)
         /\ Watch!Cardinality(DOMAIN r) = Len(r)
         /\ \A T \in SUBSET DOMAIN r : \A U \in SUBSET T :
              U # T => Watch!Cardinality(U) < Watch!Cardinality(T)
<1>1. Battery \in Seq(STRING) /\ Battery # <<>>
  BY TimesAssumption
<1> DEFINE n == Len(Battery)
<1>2. n \in Nat \ {0} /\ DOMAIN Battery = 1 .. n
  BY <1>1
<1>3. r \in [1 .. n -> [flagged: BOOLEAN, ms: Latencies]]
  BY <1>2 DEF Results
<1> HIDE DEF n
<1>4. r \in Seq([flagged: BOOLEAN, ms: Latencies]) /\ DOMAIN r = 1 .. n /\ Len(r) = n
  <2> DEFINE S == [flagged: BOOLEAN, ms: Latencies]
  <2> HIDE DEF S
  <2>1. n \in Nat /\ r \in [1 .. n -> S]
    BY <1>2, <1>3 DEF S
  <2>2. r \in Seq(S) /\ DOMAIN r = 1 .. n
    BY <2>1
  <2>3. Len(r) = n
    BY <2>1, <2>2
  <2> QED
    BY <2>2, <2>3 DEF S
<1>5. \A S : Watch!Cardinality(S) = Cardinality(S)
  BY DEF Watch!Cardinality, Cardinality
<1>6. IsFiniteSet(1 .. n) /\ Cardinality(1 .. n) = n
  <2>1. 1 \in Int /\ n \in Int /\ ~ (1 > n) /\ n - 1 + 1 = n
    BY <1>2
  <2> QED
    BY <2>1, FS_Interval
<1>7. ASSUME NEW T \in SUBSET (1 .. n)
      PROVE  IsFiniteSet(T) /\ Cardinality(T) \in 0 .. n
  <2>1. IsFiniteSet(T) /\ Cardinality(T) <= Cardinality(1 .. n)
    BY <1>6, FS_Subset
  <2>2. Cardinality(T) \in Nat
    BY <2>1, FS_CardinalityType
  <2> QED
    BY <1>2, <1>6, <2>1, <2>2
<1>8. ASSUME NEW T \in SUBSET (1 .. n), NEW U \in SUBSET T, U # T
      PROVE  Cardinality(U) < Cardinality(T)
  <2>1. IsFiniteSet(T) /\ U \in SUBSET (1 .. n)
    BY <1>7
  <2>2. Cardinality(U) <= Cardinality(T) /\ Cardinality(U) # Cardinality(T)
    BY <1>8, <2>1, FS_Subset
  <2>3. Cardinality(U) \in Nat /\ Cardinality(T) \in Nat
    BY <1>7, <2>1
  <2> QED
    BY <2>2, <2>3
<1> QED
  BY <1>2, <1>4, <1>5, <1>6, <1>7, <1>8

\* compute_agent_safety_score is a percentage.
LEMMA SafetyTyped ==
  ASSUME NEW r \in Results
  PROVE  Watch!Safety(r) \in 0 .. 100
<1> DEFINE a == Watch!Cardinality(Watch!Flagged(r))
           n == Len(r)
<1>1. a \in Nat /\ n \in Nat \ {0} /\ a <= n /\ r # <<>>
  <2>1. Watch!Flagged(r) \in SUBSET DOMAIN r
    BY DEF Watch!Flagged
  <2> QED
    BY <2>1, ResultsCounted
<1>2. Watch!Safety(r) = 100 - (a * 100) \div n
  BY <1>1 DEF Watch!Safety
<1> HIDE DEF a, n
<1>3. (a * 100) \div n \in 0 .. 100
  BY <1>1, Percent
<1> QED
  BY <1>2, <1>3

\* Some probe took as long as any.
LEMMA SlowestProbe ==
  ASSUME NEW r \in Results
  PROVE  \E i \in DOMAIN r : \A j \in DOMAIN r : r[j].ms <= r[i].ms
<1> DEFINE Slower(i) == {j \in DOMAIN r : r[j].ms > r[i].ms}
           c(i) == Watch!Cardinality(Slower(i))
           counts == {c(i) : i \in DOMAIN r}
<1>1. \A i \in DOMAIN r : r[i].ms \in Nat
  BY TimesAssumption DEF Results
<1>2. \A i \in DOMAIN r : Slower(i) \in SUBSET DOMAIN r /\ c(i) \in Nat
  BY ResultsCounted
<1>3. counts \in SUBSET Nat /\ counts # {}
  <2>1. 1 \in DOMAIN r
    BY ResultsCounted
  <2> QED
    BY <1>2, <2>1
<1>4. PICK i \in DOMAIN r : \A j \in DOMAIN r : c(i) <= c(j)
  <2> HIDE DEF c
  <2>1. PICK least \in counts : \A d \in counts : least <= d
    BY <1>3, LeastIn
  <2> QED
    BY <2>1
<1>5. SUFFICES ASSUME NEW j \in Slower(i)
               PROVE  FALSE
  BY <1>1
<1>6. Slower(j) \subseteq Slower(i) /\ j \in Slower(i) /\ j \notin Slower(j) /\ j \in DOMAIN r
  BY <1>1
<1>7. c(j) < c(i)
  BY <1>2, <1>6, ResultsCounted
<1> HIDE DEF c, Slower
<1> QED
  BY <1>2, <1>4, <1>6, <1>7

\* percentile answers with one of the probes' times.
LEMMA PercentileTyped ==
  ASSUME NEW r \in Results
  PROVE  Watch!Percentile(r, 95) \in Latencies
<1> DEFINE n == Len(r)
           q == (2 * (n - 1) * 95 + 100) \div 200
           Upto(i) == {j \in DOMAIN r : r[j].ms <= r[i].ms}
           enough == {i \in DOMAIN r : Watch!Cardinality(Upto(i)) >= 1 + q}
           times == {r[i].ms : i \in enough}
<1>1. Watch!Percentile(r, 95) = Watch!Min(times)
  BY DEF Watch!Percentile
<1>2. n \in Nat \ {0} /\ Watch!Cardinality(DOMAIN r) = n
  BY ResultsCounted
<1>3. 1 + q <= n
  <2> HIDE DEF n
  <2>1. q \in Int /\ 200 * q <= 190 * (n - 1) + 100
    BY <1>2
  <2> HIDE DEF q
  <2> QED
    BY <1>2, <2>1
<1>4. PICK i \in DOMAIN r : \A j \in DOMAIN r : r[j].ms <= r[i].ms
  BY SlowestProbe
<1>5. Upto(i) = DOMAIN r
  BY <1>4
<1>6. i \in enough
  <2> HIDE DEF n, q, Upto
  <2>1. 1 + q \in Int
    BY <1>2 DEF q
  <2> QED
    BY <1>2, <1>3, <1>5, <2>1
<1>7. times \subseteq Latencies /\ times # {} /\ times \in SUBSET Nat
  <2>1. \A k \in DOMAIN r : r[k].ms \in Latencies
    BY DEF Results
  <2>2. Latencies \subseteq Nat
    BY TimesAssumption
  <2>3. enough \subseteq DOMAIN r
    OBVIOUS
  <2> HIDE DEF enough
  <2> QED
    BY <1>6, <2>1, <2>2, <2>3
<1> HIDE DEF times
<1>8. Watch!Min(times) \in times
  BY <1>7, LeastIn DEF Watch!Min
<1> QED
  BY <1>1, <1>7, <1>8

\* identity::assess keeps its confidence between 5 and 95.
LEMMA ConfidenceTyped ==
  ASSUME NEW provider, NEW safety
  PROVE  Watch!Confidence(provider, safety) \in 5 .. 95
<1>1. PICK sum \in Int : Watch!Confidence(provider, safety) = Watch!Max({5, Watch!Min({95, sum})})
  <2> DEFINE known == provider.claimed # "Unknown" /\ provider.observed # "Unknown"
             a == IF provider.official THEN 35 ELSE 0
             b == IF ~known THEN 0 ELSE IF provider.claimed = provider.observed THEN 20 ELSE -20
             c == IF provider.protocol = "anthropic" /\ provider.claimed = "Claude" THEN 10 ELSE 0
             d == IF safety < 50 THEN 10 ELSE 0
             sum == 35 + a + b + c - d
  <2>1. a \in Int /\ b \in Int /\ c \in Int /\ d \in Int
    OBVIOUS
  <2>2. Watch!Confidence(provider, safety) = Watch!Max({5, Watch!Min({95, sum})})
    BY DEF Watch!Confidence
  <2>3. sum \in Int
    <3> HIDE DEF a, b, c, d
    <3> QED
      BY <2>1
  <2> HIDE DEF sum
  <2> QED
    BY <2>2, <2>3
<1>2. Watch!Min({95, sum}) = IF sum <= 95 THEN sum ELSE 95
  BY DEF Watch!Min
<1>3. \A m \in Int : Watch!Max({5, m}) = IF m <= 5 THEN 5 ELSE m
  BY DEF Watch!Max
<1> DEFINE m == Watch!Min({95, sum})
<1>4. m \in Int /\ m <= 95
  BY <1>2
<1> HIDE DEF m
<1>5. Watch!Max({5, m}) \in 5 .. 95
  BY <1>3, <1>4
<1> QED
  BY <1>1, <1>5 DEF m

\* Every report of a scan has its numbers in their ranges.
LEMMA ReportTyped ==
  ASSUME NEW report \in ScanReport
  PROVE  /\ report.safety \in 0 .. 100 /\ report.identity \in 5 .. 95
         /\ report.p95 \in Latencies
         /\ report.verdict \in {"AgentSafe", "ChatOnly", "DoNotUse"}
<1>1. PICK r \in Results : report = Watch!Report(r)
  BY DEF ScanReport, Results
<1>2. /\ report.safety = Watch!Safety(r) /\ report.verdict = Watch!Verdict(r)
      /\ report.p95 = Watch!Percentile(r, 95)
      /\ report.identity = Watch!Confidence(Provider, Watch!Safety(r))
  BY <1>1 DEF Watch!Report
<1>3. Watch!Verdict(r) \in {"AgentSafe", "ChatOnly", "DoNotUse"}
  BY DEF Watch!Verdict
<1> QED
  BY <1>2, <1>3, SafetyTyped, ConfidenceTyped, PercentileTyped

\* What MonitorInv leaves out of the monitor's and the sentinel's state.
WatchInv ==
  /\ MonitorInv
  /\ \A p \in Watch!Scanners : scan[p].pc \in {"idle", "compare", "append", "report", "ended"}
  /\ host \in [prev: SUBSET Indicators, before: SUBSET Indicators, current: SUBSET Indicators,
               told: SUBSET Indicators, ever: SUBSET Indicators]

\* These are the types.
LEMMA WatchTyped ==
  ASSUME WatchInv
  PROVE  Watch!TypeOK
<1>1. history.torn \in BOOLEAN /\ \A i \in DOMAIN history.lines : history.lines[i] \in ScanReport
  <2>1. history.lines \in Seq(ScanReport) /\ history.torn \in BOOLEAN
    BY DEF WatchInv, MonitorInv
  <2> QED
    BY <2>1
<1>2. ASSUME NEW p \in Watch!Scanners, scan[p].pc \in {"append", "report", "ended"}
      PROVE  scan[p].base \in 0 .. Len(history.lines)
  BY <1>2 DEF WatchInv, MonitorInv, ScanInv, Compared, Told
<1>3. \A f \in DOMAIN host : host[f] \subseteq Indicators
  BY DEF WatchInv
<1> QED
  BY <1>1, <1>2, <1>3, ReportTyped DEF WatchInv, Watch!TypeOK

\* So they hold while the monitor or the sentinel runs.
LEMMA WatchSafety == SpecAll => [](component \in {"monitor", "sentinel"} => WatchInv)
<1> DEFINE I == component \in {"monitor", "sentinel"} => WatchInv
<1>1. InitAll => I
  <2> SUFFICES ASSUME InitAll
               PROVE  WatchInv
    OBVIOUS
  <2>1. /\ scan = [p \in Watch!Scanners |-> Watch!Idle]
        /\ host = [prev |-> {}, before |-> {}, current |-> {}, told |-> {}, ever |-> {}]
    BY DEF InitAll, Watch!Init
  <2> QED
    BY <2>1, MonitorInitially DEF WatchInv, Watch!Idle
<1>2. I /\ [NextAll]_allVars => I'
  <2> SUFFICES ASSUME I, [NextAll]_allVars, component' \in {"monitor", "sentinel"}
               PROVE  WatchInv'
    OBVIOUS
  <2>1. WatchInv /\ [Watch!Watch \/ Watch!Round]_watchVars
    BY OneRuns
  <2>2. UNCHANGED <<history, scan>> => MonitorInv'
    BY <2>1 DEF WatchInv, MonitorInv, ScanInv, Compared, Told
  <2>3. CASE Watch!Watch
    <3>1. PICK p \in Watch!Scanners :
            Watch!Probe(p) \/ Watch!ProbeFails(p) \/ Watch!Compare(p) \/ Watch!AppendLine(p)
              \/ Watch!AppendFails(p) \/ Watch!Finish(p)
      BY <2>3 DEF Watch!Watch
    <3>2. MonitorInv'
      BY <2>1, <3>1, MonitorStep DEF WatchInv
    <3>3. host' = host
      BY <3>1 DEF Watch!Probe, Watch!ProbeFails, Watch!Compare, Watch!AppendLine,
                  Watch!AppendFails, Watch!Finish
    <3>4. PICK next : /\ scan' = [scan EXCEPT ![p] = next]
                      /\ next.pc \in {"idle", "compare", "append", "report", "ended"}
      <4>1. CASE Watch!AppendLine(p) \/ Watch!AppendFails(p)
        <5>1. /\ scan' = [scan EXCEPT ![p] = [scan[p] EXCEPT !.pc = "report"]]
              /\ scan[p].pc = "append"
          BY <4>1 DEF Watch!AppendLine, Watch!AppendFails, Watch!Goto
        <5>2. scan[p] \in [pc: {"append", "report"}, report: ScanReport,
                           base: 0 .. Len(history.lines), loads: BOOLEAN,
                           previous: SUBSET ScanReport]
          BY <2>1, <5>1 DEF WatchInv, MonitorInv, ScanInv, Compared
        <5>3. [scan[p] EXCEPT !.pc = "report"].pc = "report"
          BY <5>2
        <5> QED
          BY <5>1, <5>3
      <4>2. CASE Watch!Finish(p)
        <5> DEFINE ended == [pc |-> "ended", report |-> scan[p].report,
                             base |-> scan[p].base, loads |-> scan[p].loads,
                             raised |-> Watch!Raises(scan[p].report, scan[p].previous)]
        <5>1. scan' = [scan EXCEPT ![p] = IF p \notin Monitors THEN Watch!Idle ELSE ended]
          BY <4>2 DEF Watch!Finish, Watch!Goto
        <5>2. ended.pc = "ended" /\ Watch!Idle.pc = "idle"
          BY DEF Watch!Idle
        <5> HIDE DEF ended
        <5>3. CASE p \notin Monitors
          BY <5>1, <5>2, <5>3
        <5>4. CASE p \in Monitors
          BY <5>1, <5>2, <5>4
        <5> QED
          BY <5>3, <5>4
      <4>3. CASE Watch!Probe(p)
        <5>1. PICK report : scan' = [scan EXCEPT ![p] = [pc |-> "compare", report |-> report]]
          BY <4>3 DEF Watch!Probe, Watch!Goto
        <5>2. [pc |-> "compare", report |-> report].pc = "compare"
          OBVIOUS
        <5> QED
          BY <5>1, <5>2
      <4>4. CASE Watch!ProbeFails(p)
        <5>1. scan' = [scan EXCEPT ![p] = Watch!Idle] /\ Watch!Idle.pc = "idle"
          BY <4>4 DEF Watch!ProbeFails, Watch!Goto, Watch!Idle
        <5> QED
          BY <5>1
      <4>5. CASE Watch!Compare(p)
        <5> DEFINE compared ==
              [pc |-> "append", report |-> scan[p].report, base |-> Len(history.lines),
               loads |-> ~history.torn,
               previous |-> IF ~history.torn /\ Len(history.lines) # 0
                            THEN {history.lines[Len(history.lines)]} ELSE {}]
        <5>1. scan' = [scan EXCEPT ![p] = compared]
          BY <4>5 DEF Watch!Compare, Watch!Goto
        <5>2. compared.pc = "append"
          OBVIOUS
        <5> HIDE DEF compared
        <5> QED
          BY <5>1, <5>2
      <4> QED
        BY <3>1, <4>1, <4>2, <4>3, <4>4, <4>5
    <3>5. \A u \in Watch!Scanners :
            scan'[u].pc \in {"idle", "compare", "append", "report", "ended"}
      BY <2>1, <3>4 DEF WatchInv, MonitorInv
    <3> QED
      BY <2>1, <3>2, <3>3, <3>5 DEF WatchInv
  <2>4. CASE Watch!Round
    <3>1. UNCHANGED <<history, scan>>
      BY <2>4 DEF Watch!Round, Watch!watchVars
    <3>2. host' \in [prev: SUBSET Indicators, before: SUBSET Indicators,
                     current: SUBSET Indicators, told: SUBSET Indicators,
                     ever: SUBSET Indicators]
      BY <2>1, <2>4 DEF Watch!Round, Watch!Audit, Watch!Keep, WatchInv
    <3> QED
      BY <2>1, <2>2, <3>1, <3>2 DEF WatchInv
  <2>5. CASE UNCHANGED watchVars
    <3>1. UNCHANGED <<history, scan, host>>
      BY <2>5 DEF watchVars
    <3> QED
      BY <2>1, <2>2, <3>1 DEF WatchInv
  <2> QED
    BY <2>1, <2>3, <2>4, <2>5
<1> QED
  BY <1>1, <1>2, PTL DEF SpecAll

-------------------------------------------------------------------------------
(* All of them.                                                            *)

\* Whatever component runs keeps its types, and every one of its pure functions has
\* a result in its range: a decision for every input of the matrix's, a class for
\* every target and a capability for every tool name, a score of 5 to 100 points, an
\* anomaly of at most 100, a percentage for a battery and a percentile that is one of
\* its probes' times (src/src/capability_matrix.rs, asset.rs, score.rs,
\* session_graph.rs, deep_scan.rs, identity.rs, and the state of the others).
THEOREM TypesKept == SpecAll => []TypesOK
<1> DEFINE Judging == /\ component = "matrix" => in \in Matrix!MatrixInput
                      /\ component = "judge" => subject \in Judge!Subject
           Sitting == /\ (component = "graph" => GraphInv) /\ (component = "graph" => Scored)
                      /\ (component = "arbiter" => ArbiterInv)
                      /\ (component = "arbiter" => Spoiled)
           Storing == /\ component = "store" => TypeOK
                      /\ component = "rules" => RulesInv
                      /\ component = "canaries" => CanaryInv
           Watching == /\ component = "sends" => SendTypes
                       /\ component \in {"bundle", "registry", "feed"} => PublishInv
                       /\ component \in {"monitor", "sentinel"} => WatchInv
<1>1. Judging /\ Sitting /\ Storing /\ Watching => TypesOK
  <2>1. in \in Matrix!MatrixInput => Matrix!TypeOK
    BY DecisionTyped DEF Matrix!TypeOK
  <2>2. RulesInv => Rules!TypeOK
    BY DEF RulesInv
  <2>3. CanaryInv => Canaries!TypeOK
    BY DEF CanaryInv
  <2>4. SendTypes => Sends!TypeOK
    BY DEF SendTypes
  <2>5. subject \in Judge!Subject => Judge!TypeOK
    BY SubjectTyped
  <2>6. GraphInv /\ Scored => Graph!TypeOK
    BY GraphTyped
  <2>7. ArbiterInv /\ Spoiled => Arbiter!TypeOK
    BY ArbiterTyped
  <2>8. PublishInv => Publish!TypeOK
    BY PublishTyped
  <2>9. WatchInv => Watch!TypeOK
    BY WatchTyped
  <2> QED
    BY <2>1, <2>2, <2>3, <2>4, <2>5, <2>6, <2>7, <2>8, <2>9 DEF TypesOK
<1>2. SpecAll => []Judging
  BY MatrixSafety, JudgeSafety, PTL
<1>3. SpecAll => []Sitting
  BY GraphSafety, ScoredSafety, ArbiterSafety, SpoiledSafety, PTL
<1>4. SpecAll => []Storing
  BY StoreSafety, RulesSafety, CanarySafety, PTL
<1>5. SpecAll => []Watching
  BY SendTyped, PublishSafety, WatchSafety, PTL
<1> HIDE DEF Judging, Sitting, Storing, Watching
<1> QED
  BY <1>1, <1>2, <1>3, <1>4, <1>5, PTL
=============================================================================
