----------------------------- MODULE Provenance -----------------------------
(***************************************************************************)
(* Layer 2: the provenance store (src/src/provenance.rs), a map from       *)
(* artifact ids to entries in an embedded database.  Literal, parents,     *)
(* reason and first_seen are kept for audit only and left out.             *)
(***************************************************************************)
EXTENDS Assets, Naturals

CONSTANTS Ids     \* artifact ids

VARIABLE store

\* An entry; an id that was never recorded has none.
Entry == [known: BOOLEAN, source: Source, tainted: BOOLEAN, seen: Nat]
NoEntry == [known |-> FALSE, source |-> "Unknown", tainted |-> FALSE, seen |-> 0]

StoreInit == store = [id \in Ids |-> NoEntry]

\* lookup of several ids: those that are tainted.
TaintedOf(ids) == {id \in ids : store[id].known /\ store[id].tainted}

\* A slip the checks must notice: the origin's own taint forgotten.
Taints_ParentsOnly(source, parents) == TaintedOf(parents) # {}

\* An artifact is tainted by its origin, or else by a tainted parent.
Taints(source, parents) == source \in Untrusted \/ TaintedOf(parents) # {}

\* record: overwrites what was known of the artifact.
Recorded(source, parents, now) ==
  [known |-> TRUE, source |-> source, tainted |-> Taints(source, parents), seen |-> now]
Record(id, source, parents, now) ==
  store' = [store EXCEPT ![id] = Recorded(source, parents, now)]
=============================================================================
