------------------------------ MODULE Publishing ------------------------------
(***************************************************************************)
(* What the program publishes and installs: a certification bundle         *)
(* (src/src/bundle.rs) and its verification (artifact.rs), the local       *)
(* registry and its synchronisation (registry.rs), and a threat feed       *)
(* (feed.rs, main.rs).  Files are written one after another, and a command *)
(* may die between two of them or inside one.  A text is the run that made *)
(* it; a hash is equal exactly when the texts are.                         *)
(***************************************************************************)
EXTENDS Naturals, Sequences, FiniteSets, SequencesExt

CONSTANTS Writers,    \* commands that certify into the directory at a time
          Hosts,      \* providers in the registry
          Processes,  \* commands that change the registry at a time
          MaxRuns     \* bound: certifications into one directory

File == {"report", "badge", "entry"}
Missing == 0
Torn == MaxRuns + 1
Text == Missing .. Torn

\* bundle.json and SHA256SUMS: no list, a torn one, or a hash per file.
NoList == [ok |-> FALSE, hash |-> [f \in File |-> Missing]]
Listing(texts) == [ok |-> TRUE, hash |-> texts]

VARIABLES
  dir,        \* the bundle's directory: the three files and the two lists
  writer,     \* per writer: its run, the steps done, the metadata
  runs,       \* certifications begun
  reader,     \* what a verification has read so far
  registry,   \* registry.json: per host its entry; or it does not parse
  command,    \* per process: the registry it is about to save
  installed,  \* the feed's files
  install     \* how the last installation ended, or the feed that is being installed

bundleVars == <<dir, writer, runs, reader>>
registryVars == <<registry, command>>
feedVars == <<installed, install>>
vars == <<dir, writer, runs, reader, registry, command, installed, install>>

-------------------------------------------------------------------------------
(* PublishBundle::write                                                    *)

\* A slip the checks must notice: the lists written before the files they list.
Order_ListsFirst == <<"report", "bundle", "sums", "badge", "entry">>

Order == <<"report", "badge", "entry", "bundle", "sums">>

Resting == [run |-> 0, step |-> 0, listed |-> NoList]

Certify(w) ==
  /\ writer[w] = Resting /\ runs < MaxRuns
  /\ runs' = runs + 1
  /\ writer' = [writer EXCEPT ![w] = [run |-> runs + 1, step |-> 1, listed |-> NoList]]
  /\ UNCHANGED <<dir, reader, registryVars, feedVars>>

\* The three files are hashed as they are read back, once, for both lists.
Metadata(w) ==
  IF writer[w].listed.ok THEN writer[w].listed ELSE Listing([f \in File |-> dir[f]])

WriteNext(w) ==
  LET f == Order[writer[w].step]
      listed == IF f \in File THEN NoList ELSE Metadata(w)
  IN  /\ writer[w] # Resting
      /\ dir' = [dir EXCEPT ![f] = IF f \in File THEN writer[w].run ELSE listed]
      /\ writer' = [writer EXCEPT ![w] =
                      IF writer[w].step = Len(Order) THEN Resting
                      ELSE [@ EXCEPT !.step = writer[w].step + 1, !.listed = listed]]
      /\ UNCHANGED <<runs, reader, registryVars, feedVars>>

\* The command dies, before the next file or inside it.
Die(w) ==
  LET f == Order[writer[w].step] IN
  /\ writer[w] # Resting
  /\ \/ UNCHANGED dir
     \/ dir' = [dir EXCEPT ![f] = IF f \in File THEN Torn ELSE NoList]
  /\ writer' = [writer EXCEPT ![w] = Resting]
  /\ UNCHANGED <<runs, reader, registryVars, feedVars>>

-------------------------------------------------------------------------------
(* verify_bundle: the lists, the files they name, and the entry once more  *)
(* for its signature.                                                      *)

Reads == <<"bundle", "sums", "report", "badge", "entry", "entry">>

VerifyBegin ==
  /\ Len(reader) = Len(Reads)
  /\ reader' = <<>>
  /\ UNCHANGED <<dir, writer, runs, registryVars, feedVars>>

\* A list that is missing or does not parse ends the verification.
ReadNext ==
  /\ Len(reader) < Len(Reads)
  /\ LET f == Reads[Len(reader) + 1] IN
       reader' = IF f \in {"bundle", "sums"} /\ ~dir[f].ok THEN <<>> ELSE Append(reader, dir[f])
  /\ UNCHANGED <<dir, writer, runs, registryVars, feedVars>>

\* A file is there and has the hash both lists give it.
Matches(f, text) == text # Missing /\ reader[1].hash[f] = text /\ reader[2].hash[f] = text

\* The entry that is read again parses, and is signed.
Verified ==
  /\ Len(reader) = Len(Reads)
  /\ \A i \in 3 .. 5 : Matches(Reads[i], reader[i])
  /\ reader[6] \in 1 .. MaxRuns

-------------------------------------------------------------------------------
(* The registry: every command loads it, changes its copy and saves it.    *)

\* An entry of a host: none, made here, or a remote one that is signed or not.
Entry == {"none", "local", "signed", "unsigned"}
Unparsed == [h \in Hosts |-> "torn"]
Ready == [pc |-> "idle"]

\* "stale" is history: the file has changed since the command loaded it.
LoadToSave(p, copy) ==
  /\ command[p] = Ready /\ registry # Unparsed
  /\ command' = [command EXCEPT ![p] = [pc |-> "save", copy |-> copy, stale |-> FALSE]]
  /\ UNCHANGED <<registry, bundleVars, feedVars>>

\* add replaces the entry of the host: `registry add`, and `verify` for its own.
Add(p) == \E h \in Hosts : LoadToSave(p, [registry EXCEPT ![h] = "local"])

\* One invalid entry refuses the whole remote registry.
Accepted(remote) == \A h \in Hosts : remote[h] # "unsigned"

\* A slip the checks must notice: the remote registry takes the local one's place.
Merged_Replaced(remote) == remote

\* merge takes every remote entry, newer than the own or not.
Merged(remote) == [h \in Hosts |-> IF remote[h] = "none" THEN registry[h] ELSE remote[h]]

\* `registry sync`
Sync(p) ==
  \E remote \in [Hosts -> {"none", "signed", "unsigned"}] :
    Accepted(remote) /\ LoadToSave(p, Merged(remote))

\* save: fs::write, or part of it.
Save(p) ==
  /\ command[p].pc = "save"
  /\ registry' \in {command[p].copy, Unparsed}
  /\ command' = [q \in Processes |-> IF q = p \/ command[q] = Ready THEN Ready
                                    ELSE [command[q] EXCEPT !.stale = TRUE]]
  /\ UNCHANGED <<bundleVars, feedVars>>

-------------------------------------------------------------------------------
(* `feed`: fetched, its signature and hashes verified, then three files.   *)

FeedFiles == <<"rules", "blocklist", "manifest">>
Feed == [version: {"one", "two"}, signed: BOOLEAN, integral: BOOLEAN]
NoFeed == [version |-> "none"]
TornFeed == [version |-> "torn"]
Done == [pc |-> "done"]
Cut == [pc |-> "cut"]

\* A slip the checks must notice: the manifest is signed, its payload not hashed.
Trusted_SignatureOnly(feed) == feed.signed

\* verify_signature_with_pubkey, verify_integrity
Trusted(feed) == feed.signed /\ feed.integral

Fetch ==
  /\ install \in {Done, Cut}
  /\ \E feed \in Feed : Trusted(feed) /\ install' = [pc |-> "write", feed |-> feed, step |-> 1]
  /\ UNCHANGED <<installed, bundleVars, registryVars>>

\* One file after another, each written whole.
InstallNext ==
  /\ install.pc = "write"
  /\ installed' = [installed EXCEPT ![FeedFiles[install.step]] = install.feed]
  /\ install' = IF install.step = Len(FeedFiles) THEN Done
                ELSE [install EXCEPT !.step = install.step + 1]
  /\ UNCHANGED <<bundleVars, registryVars>>

\* A write fails or the command dies, before the next file or inside it.
InstallCut ==
  /\ install.pc = "write"
  /\ installed' \in {installed, [installed EXCEPT ![FeedFiles[install.step]] = TornFeed]}
  /\ install' = Cut
  /\ UNCHANGED <<bundleVars, registryVars>>

-------------------------------------------------------------------------------
Init ==
  /\ dir = [f \in File \cup {"bundle", "sums"} |-> IF f \in File THEN Missing ELSE NoList]
  /\ writer = [w \in Writers |-> Resting] /\ runs = 0 /\ reader = <<>>
  /\ registry = [h \in Hosts |-> "none"] /\ command = [p \in Processes |-> Ready]
  /\ installed = [f \in ToSet(FeedFiles) |-> NoFeed] /\ install = Done

Bundle == VerifyBegin \/ ReadNext \/ \E w \in Writers : Certify(w) \/ WriteNext(w) \/ Die(w)
Registry == \E p \in Processes : Add(p) \/ Sync(p) \/ Save(p)
Install == Fetch \/ InstallNext \/ InstallCut

Next == Bundle \/ Registry \/ Install

Spec == Init /\ [][Next]_vars

-------------------------------------------------------------------------------
\* Type correctness of the directory, the registry, the feed and the commands.
TypeOK ==
  /\ \A f \in File : dir[f] \in Text
  /\ \A l \in {"bundle", "sums"} : dir[l] \in [ok: BOOLEAN, hash: [File -> Text]]
  /\ runs \in 0 .. MaxRuns /\ Len(reader) <= Len(Reads)
  /\ \A w \in Writers : writer[w].run \in 0 .. MaxRuns /\ writer[w].step \in 0 .. Len(Order)
  /\ registry = Unparsed \/ registry \in [Hosts -> Entry]
  /\ \A p \in Processes : command[p] = Ready \/ command[p].copy \in [Hosts -> Entry]
  /\ installed \in [ToSet(FeedFiles) -> Feed \cup {NoFeed, TornFeed}]
  /\ install \in {Done, Cut}
     \/ install \in [pc: {"write"}, feed: Feed, step: 1 .. Len(FeedFiles)]

\* "bundle, checksums, and entry signature all verify" (src/src/artifact.rs:72): a
\* verification that overlaps certifications into the same directory, some of which
\* died anywhere, succeeds when the lists and the three files they list are of one
\* certification.  The entry is read once more for its signature (62-70), and that
\* one may be of a later certification, begun meanwhile: never of an earlier one.
VerifiedListIsOneRun ==
  Verified => /\ reader[3] \in 1 .. MaxRuns /\ reader[4] = reader[3] /\ reader[5] = reader[3]
              /\ reader[6] >= reader[3]

\* registry.json is a "cache" that is to last (src/src/registry.rs:6, 11-12): an
\* entry of a host goes, whatever `registry add`, `registry sync` and `verify` do at
\* the same time, only in a save of a command that loaded the file before another
\* command saved it, or in a save that is cut.
EntriesLastUnlessOverwritten ==
  (\E h \in Hosts : registry[h] # "none" /\ registry'[h] = "none")
    => \E p \in Processes : command[p].pc = "save" /\ command[p].stale /\ command'[p] = Ready

\* "unsigned feed installs are unsafe" (src/src/main.rs:467) and "feed: wrote
\* rules.json, blocklist.json, manifest.json" (490): once an installation is through,
\* the three files are of one feed, signed and with the hashes of its manifest,
\* whatever installations before it were cut between two files or inside one; at no
\* time is a whole file of another feed.
OnlySignedInstalled ==
  /\ install = Done => \A f, g \in ToSet(FeedFiles) :
       installed[f] = installed[g] /\ installed[f] # TornFeed
  /\ \A f \in ToSet(FeedFiles) :
       installed[f] \in Feed => installed[f].signed /\ installed[f].integral
=============================================================================
