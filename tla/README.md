# SafeRouter in TLA+

SafeRouter (`src/src/`, the crate `safeproxy`, the binary `sr`) is a proxy
between an AI client and an LLM provider. It reads the provider's streamed
answer, holds every `tool_use` block back until it is complete, has it judged by
a pattern inspector and by a layered *defence engine*, and forwards it or puts a
stub in its place. This directory specifies the part of it that carries state:
the response stream and the WebSocket relay, the defence engine with its
provenance store, session graph, canaries, capability matrix and egress policy,
the quarantine store, the rule registry, the local arbiter's session files, the
store of outbound sends, what the program publishes and installs (bundles,
registry, feed), and what watches providers and the host over time.

Paths such as `proxy.rs:725` are below `src/src/`.

## 1. The system

### Components, state and operations

| Component | State it keeps | Operations | What makes it correct |
|---|---|---|---|
| Response stream (`proxy.rs`, `inspect_and_forward`) | per response: `tool_buf`, `tool_input`, `tool_name`, `tool_index`, `skip_current_tool`, the inspector's buffer, `max_severity`, `blocked_count`; a channel of 64 frames to the client | one handler per event of the adapter; a line to the recorder at the end | nothing is forwarded unjudged; what is refused stays out; what is forwarded is whole; every call is answered; indices agree with the upstream's; the stream ends |
| Adapters (`protocol/anthropic.rs`, `protocol/openai.rs`) | the parser's position; OpenAI: the calls started and ended | upstream frames to events, events to frames | the events of a call come in order and end once |
| Inspector (`inspect.rs`) | a text buffer per stream; a registry of rules with suppressions | `feed`, `reset`; `reload`, `suppress` | the verdict covers what is evaluated |
| Judge (`judge.rs`) | none | asks an LLM about warn-tier verdicts | escalates only, its failure changes nothing |
| Defence engine (`defense.rs`) | shared by all streams: provenance store, session graph behind a mutex, atomic node counter | `evaluate` | decisions do not relax; undeclared tools are never let through silently |
| Capability matrix (`capability_matrix.rs`) | none | `evaluate`: a cascade of early returns | worse inputs get stricter answers |
| Provenance (`provenance.rs`) | artifact id -> entry, in an embedded database | `record`, `lookup`, `mark_tainted`, `gc_taint`, `flush`; baselines | taint follows origin and references, and only age removes it |
| Session graph (`session_graph.rs`) | events of the session, behavioural baseline, anomaly score | `record`, `detect_chains` (22 detectors) | a chain once found is found again; the baseline is what the window showed |
| Quarantine (`quarantine.rs`) | entries, file counter and allowlist in memory; files on disk | `intake`, `release`, `purge`, `add_allowlist`, `is_quarantined`; `sniff_content` | what is held has its file |
| Egress policy (`egress.rs`) | two host lists | `evaluate` | a blocked or unlisted host is not answered more mildly for hiding below another |
| Canaries (`canary.rs`) | decoy files; a list and a path set, each behind a mutex | `plant_defaults`, `register`, `check`, `unplant_all` | a planted decoy trips; the locks are not waited for in a circle |
| MCP tool policy (`tool_policy.rs`) | allow and deny lists | `evaluate` | a denied tool is replaced at its start |
| Rule registry (`inspect.rs`, `DynamicRuleRegistry`) | compiled rules, blocked hosts, the suppress list behind one lock | `reload`, `suppress`, `unsuppress`, `scan` | what was tuned outlives a reload |
| Sessions, enforcement, policy (`session.rs`, `enforcement.rs`, `policy.rs`) | JSON files, loaded, changed and saved by the CLI and the dashboard | grants, modes, evaluation | a file that loads agrees with its own log |
| Correlation (`correlation.rs`) | workspace and artifact -> sessions that sent it, in an embedded database | `record_outbound`, `active_alerts`, `gc` | whoever sends what another sent is told so |
| WebSocket relay (`proxy.rs`, `protocol/ws/`) | one inspector for both directions, the events of the frame in hand | the select loop | the user's frames pass unchanged; nothing of the provider's is lost uncounted; a match stops; it ends |
| Bundles (`bundle.rs`, `certify.rs`, `artifact.rs`) | a directory of files, a manifest and checksums | certify, verify | what verifies lists the files of one run |
| Registry and feed (`registry.rs`, `feed.rs`, `main.rs`) | JSON files of entries, rules and blocked hosts | `add`, `sync`, `verify`; fetch and install | nothing remote and unsigned gets in; what is installed is whole; an entry is not lost |
| Scans, monitor, sentinel (`scan.rs`, `score.rs`, `deep_scan.rs`, `monitor.rs`, `sentinel.rs`, `history.rs`) | the history's lines; the indicators of the last round | scan, compare, append, alert | a change is alerted; what is new is told once |

The rest (`fuzz.rs`, `self_fuzz.rs`, `mockevil.rs`, `telemetry.rs`, `secure.rs`
...) are tools for tests, input and output, or keep no state. `PROJECT.json`
lists every part with the reason when it is not modelled.

### How they interact

`forward` reads the whole upstream body, then spawns one task per response that
polls the adapter for events and handles them one by one. A handler sends frames
into a bounded channel and awaits room for each; hyper drains the channel for
the client and drops it when the client leaves. At the end of a `tool_use` the
task calls, synchronously, the engine's `evaluate`, then perhaps the quarantine
store's `intake`, then `is_quarantined`. The engine is one object for all tasks:
between its accesses to the provenance database, to the node counter and to the
mutex of the session graph other tasks take their steps. Nothing but the
provenance database and the quarantine's files survives a restart. The command
line and the dashboard are other processes, or open stores of their own.

### What is hard

* One buffer and one set of locals for a stream whose blocks can overlap, be of
  unknown types, be denied at their start, or be cut off.
* A refused call leaves its frames in the buffer and its name and input in the
  locals, and the next end, of a text block too, judges them again. That they
  stay out depends on the *engine* never answering more leniently later, and on
  nothing having been added to them: the input of a `server_tool_use` block is.
* `evaluate` is not atomic: ids and times are taken before the graph's lock, so
  events reach the graph out of order; store operations fail one by one.
* 22 detectors over a growing graph, one of them switched off by its own
  earlier hits.
* A file, a counter and a list that must agree while intakes run concurrently,
  writes fail and processes restart; errors that are ignored (`let _ =`) and leave
  a decoy, or a history's line, other than the rest of the code takes it to be.
* Reads and writes of one store in different steps: a collection that writes back
  an entry others have renewed, a reload that copies a list others change, a
  record that is read back after someone pruned it.
* Two mutexes taken in both orders (canaries).
* A relay of two sides in one task: while it waits for room at one, nobody
  listens to the other, and either may go at any time.
* Several files that are written one after another and mean something together,
  by commands that die, overlap or overwrite each other, and are read again later.

`PROJECT.json`, "hazards", lists each at the line where it bites, with the
properties that cover it.

## 2. Modules

| Module | Models | Composition |
|---|---|---|
| `Assets` | `asset.rs`: classes, origins, capabilities | extended by the next four |
| `CapabilityMatrix` | `capability_matrix.rs` | operators only |
| `Egress` | `egress.rs`: the decision | operators only |
| `Provenance` | `provenance.rs`: entries, what `record` makes of its arguments | instantiated by the engine, ids = origin x literal |
| `ProvenanceStore` | `provenance.rs`: every operation, database access by access | extends `Provenance` |
| `SessionGraph` | `session_graph.rs` | the graph's variables, `RecordEvent`, `DetectChains` |
| `DefenseEngine` | `defense.rs` | extends matrix, graph and egress, instances provenance; one process per task |
| `ProxyStream` | `proxy.rs` (`inspect_and_forward`), adapters, inspector buffer, judge | uses of the engine only that answers do not relax |
| `ToolGate` | what the stream promises of the calls of one response (abstract) | instanced by `ProxyStream`, with `Fate` for its variable |
| `WsRelay` | `proxy.rs` (the WebSocket relay), `protocol/ws/` | instances `FrameChannel` twice, once per direction |
| `FrameChannel` | what one direction of the relay promises (abstract) | stands alone |
| `Quarantine` | `quarantine.rs` and which store `main.rs`, `web.rs` open | stands alone |
| `RuleRegistry` | `inspect.rs`: rule files, reload, tuning, scan | stands alone |
| `CanaryRegistry` | `canary.rs`, lock by lock, and the `sr canary` commands | stands alone |
| `Sessions` | `session.rs`, `policy.rs`, `enforcement.rs` and the commands and handlers of `main.rs`, `web.rs` on one session | stands alone |
| `Correlation` | `correlation.rs` on one key | stands alone |
| `Publishing` | `bundle.rs`, `certify.rs`, `artifact.rs`, `registry.rs`, `feed.rs` and their commands | three groups of variables, one `Next` each |
| `Watchers` | `deep_scan.rs`, `identity.rs`, `history.rs`, `monitor.rs`, `sentinel.rs`, `audit.rs` | stands alone |
| `Judgements` | the pure functions of `asset.rs`, `quarantine.rs`, `tool_policy.rs`, `egress.rs`, `scan.rs`, `score.rs` | extends the matrix, instances `Egress` |
| `Components` | | extends `ProvenanceStore`, instances the other components that share no state; one `SpecAll` |
| `...MC` | | instances for TLC; `ComponentsMC` gives `Components` its values |
| `DefenseEngineProofs`, `ProxyStreamProofs`, `QuarantineProofs`, `ProvenanceStoreProofs`, `WsRelayProofs` | | theorems; each extends its component |
| `AnthropicStreamProofs` | | theorems on the stream behind the Anthropic adapter; extends `ProxyStreamProofs`, which has those on every protocol and on the OpenAI adapter |
| `ComponentProofs` | | theorems on the matrix, the judgements, rules, canaries, sends, bundles, registry, feed, monitor, sentinel; extends `Components` |
| `SessionProofs` | | theorems on the session files, the session graph and the types of all components; extends `ComponentProofs` and `ProvenanceStoreProofs` |

### ProxyStream

Variables have the names of the handler's locals; `block`, `call`, `frags`,
`openCalls`, `closed`, `chunks`, `eof` are the upstream, `events` the events of
the current frame, `outbox` the frames the running handler has still to send,
`out`/`read` the channel, `evals` a history of evaluations. The actions:

| Action | Code |
|---|---|
| `AnthropicStart/Delta/Stop` | one frame through `parse_anthropic_frame`: every block's stop is a `ToolUseEnd`, and every `input_json_delta`, whatever its block, a `ToolUseDelta` |
| `OpenAiContent/Call/Arguments/Finish`, `BodyEnd` | `openai_events`; the ends come together |
| `TextDelta` | feed, scan, judge, forward or replace |
| `ToolUseStart` = `DenyCall` or `AdmitCall` | the mcp policy, before anything is buffered |
| `ToolUseDelta` | buffer; the inspector is not fed |
| `SkippedEnd`, `ToolUseEnd` | the end of a denied call; verdict, judge, engine, intake, then stub or frames |
| `Raw`, `Send`, `Complete` | pass-through, one `tx.send().await`, the recorder's line |
| `Receive`, `Disconnect` | hyper and the client |

A payload is what the rules make of it: a text is clean, warn, critical, or one
half of a match that is split over two deltas next to each other (any other text
between them breaks it); a fragment is its call and number, or `Stray`: the input
of a block of a type the parser does not know, which becomes a `ToolUseDelta` all
the same. `strayed` is history: such input was added to frames a refusal left in
the buffer, which are of another tool use from then on. The engine's report is any consistent one (`Reports`) subject to
`DecisionNeverRelaxes`: a tool use it refused it refuses again.

`ToolGate` is the same with nothing of events, buffers, verdicts and channels: one
`fate` per call, which is `"none"`, `"held"` from the call's first frame,
`"passed"` or `"replaced"` for good; a call begins when those before it are
settled, a denied one is never passed, and in monitor mode no other is replaced.
`Fate` reads it off the stream and the counter of the upstream: passed when the
client's stream has the call's start, replaced when it has its stub; when the
client is gone all are `"gone"`, since the frames then go nowhere, and also once
the stream has `strayed`, after which the code keeps no promise about a refused call
(`stream_refused`).
`StreamIsToolGate` says that `ProxyStream` implements it. So the steps of a block
between its start and its verdict are stutters, `ToolUseEnd` and the
refusal by `DenyCall` settle a call whole, in one step, and a client that leaves
takes `Leave`.

### DefenseEngine

`task[t]` is where an evaluation stands and its locals. `BeginCanary` is the
early return; `Lookup`, `RecordArtifact`, `RecordRefs` are the passes over the
provenance store, each of which may fail in part; `Stamp` takes id and time;
`Judge` is the critical section with the merge. `answer[o]` remembers the
latest decision for each observation. An observation is what `evaluate` reads
off a tool use: capability, asset class, target, references, label tags,
whether it was declared, its egress inputs, whether it hits a canary.
`Capability::from_tool_call` returns neither `NetworkPost` nor `SecretAccess`,
so the engine cannot produce such events (`ToolCapability`), and the detectors
and rules about outbound sends are reached through the graph's own interface
only; `SessionGraphMC` feeds those too.

### Quarantine

`IntakeBegin`, `Create`, `Write`, `Push` are the steps of `intake`, with the
failures of the two file operations; `Release`, `Purge` and `AddAllowlist` run
under the lock of the store the operator opened: the proxy's own
(`SharedStore`, a program that embeds the library) or a fresh one
(`sr quarantine`, the dashboard). `Restart` loses the entries and the counter
and keeps the files.

### Sessions

`file` is what `session::load` would give, `Torn` when that is an error;
`task[p]` the copy a command has changed and is about to save. `LoadToSave` is
`load` and the change (`SetGrant`, the mode, `Record`); the save is `Truncate`
and `Write`, since `fs::write` opens, truncates and then writes at its own
offset: of two processes in between, the second to write leaves the tail of a
longer text behind (`dirty`). `load` is one step; a read that overlaps a write
sees the file before or after it. An action is what the policy's patterns make
of it (`touches`), and of the five grants the two the policy reads are kept.

### WsRelay

One task reads a frame of either side (`ReadFrame`), turns it into events
(`EventsOf`, which is `process_inbound_text` or `process_outbound_text` of the
adapter chosen at the upgrade), feeds each to the inspector both directions
share, and sends what `event_to_ws_message` makes of it, waiting for room
(`HandleEvent`, `Deliver`). `peer` says whether a side is open, has closed or is
lost; `SendFails` leaves the loop over the events, as the `break` does, and not
the relay, which ends when it reads the end (`ReadEnd`). `taken`, `got` and
`seen` are what was read from a side, sent to it and received by it. The
inspector appends the whole text of what it is fed to one buffer, JSON around a
payload included: `buffer` holds the matches in it, and `"half"` while it ends in
one; `cuts` is history: where in the client's stream another text was fed, or a
function call ended and emptied the buffer, so that a half before does not match
with one after.

`FrameChannel` is the abstract specification of one direction: a frame is taken
(`Take`), passed on unchanged (`Pass`), or withheld (`Withhold`), which may
happen to the frames in `withheld`, or when the receiver is gone (`Lose`).
`WsRelay` maps to it twice. `UserChannel` (client to provider) may withhold
nothing; `ProviderChannel` only `MayWithhold`: the Realtime frames of an output
item, and in block mode what is scanned. The hand of a direction is the frame of
the first event still to be handled (`UserHand`, `ProviderHand`).
`RelayIsTwoChannels` says that the one task, with one list of events and one
inspector for both sides, is the two channels at once.

### ProvenanceStore

A task reads the database in one step and writes in another: `RecordBegin`,
`MarkTainted` and `GcVisit` leave the entry they will write in the task,
`InsertEntry` and `GcInsert` write it whatever was written in between. `disk` is
the last flush, which `Restart` goes back to. Every access may fail (`Fail`).
`Overtakes` says that a collection is about to write back what an artifact was
before a later record.

### RuleRegistry, CanaryRegistry, Correlation

`reload` compiles outside the lock, copies the suppress list under the read lock
(`ReloadBegin`) and installs both under the write lock (`ReloadCommit`);
`overtaken` are the rules tuned in between. In `CanaryRegistry` a thread's `pc`
says which of the two locks it holds: `unplant_all` the list's, then both;
`check` the paths', then both; planting takes one after the other and holds
neither in between, nor while it looks whether a file exists and writes it. A write
may fail midway and `unplant_all` ignores a file it cannot remove, so decoys can lie
about that no registry knows; `mine` are those it still answers for. Each
`sr canary` command starts with an empty registry (`NewCommand`). `Correlation`
has one record: `fetch_and_update` is one step (`Update`), what the caller is
told is read in another (`ReadBack`), and a collection collects keys, then
removes them; `lost` is history, the sends that went with a record refreshed since
it was collected, and an ended call remembers what it was due.

### Publishing

A text is the number of the certification that made it, so that a hash is equal
exactly when the texts are; `Torn` is a file whose writer died inside. `Certify`
and `WriteNext` write the files, the manifest and the checksums in the code's
order, `Die` stops anywhere, `VerifyBegin` and `ReadNext` verify file by file
meanwhile, the entry twice, for its hash and for its signature. The registry is
loaded, changed and saved by several commands; `stale` is history, that the file has
changed since a command loaded it. A feed is signed or not, whole or not, and its
three files are installed one by one (`InstallNext`); a write that fails or a command
that dies (`InstallCut`) leaves some of them, or a torn one.

### Watchers

A deep scan runs its probes one by one, compares its numbers with the last line
of the history, appends its own and alerts; monitors repeat it, commands run it
once, and share the file, which one torn line spoils. An append that fails
(`AppendFails`) does not end the round, whose alerts are raised in `Finish`; how it
ended is kept as history. Score, verdict, percentile
and confidence are computed as the code does. The sentinel compares each round's
indicators with the last round's; an audit is any set of indicators.

### Judgements

A subject is an input of one of the pure functions; a string is the set of marks
its patterns look for. A step makes the subject look worse in one more way (one
more mark, a denied tool, a blocked host, a match), which is what
`WorseNeverMilder` is about. Of a target it only says that a path that names a secret
is blocked whatever else is marked in it: a mark that makes an unknown path one of a
project or a log turns Ask into Allow or AllowWithAudit, and is meant to.

### Components

Components that share no state, side by side: it extends `ProvenanceStore` and
instantiates the others (so `TaintOnlyExpires` is the very definition the
theorem is about, and holds trivially while another part runs); `component`, chosen
in `Init` and never changed, says which one runs, and the others' variables keep
one value. The state spaces are added, not multiplied, and each property speaks
of the component that runs. `Processes` are the threads, tasks or commands of
each, and are interchangeable in all of them, hence the symmetry.

## 3. Runs

| Run | Bounds | Shows |
|---|---|---|
| `stream_anthropic` | 2 calls, one denied, 2 fragments, blocks of other types with input, 7 frames, channel of 1 | gate, refused stays out, forwarded whole, every call answered, indices, termination, implements `ToolGate` |
| `stream_openai` | 1 call, 2 fragments, 6 frames | every call answered |
| `engine_chains` | 2 tasks, 4 events, fetch/write/execute, baseline frozen during the run | ids unique, decisions never relax |
| `engine_taint` | 2 tasks, 2 events, 6 tool uses, failing store | taint follows origin, undeclared never silent |
| `quarantine` | 2 tasks, 1 path, 2 payloads, 2 entries per life, any number of restarts | held has its complete file |
| `relay` | 1 frame of the client, 3 of the provider, sockets of 1 frame, both adapters and modes, either side closes or is lost at any time | user's frames verbatim, frames accounted, a match whose halves follow each other stops, each direction is a channel, the relay ends |
| `components` | below | the properties of the other components |

The parts of `components`:

| Part | Bounds | Properties |
|---|---|---|
| matrix | complete input domain (2156 inputs) | `UntrustedNeverSilent`, `EscalationNeverRelaxes` |
| judgements | complete domain of marks, up to 2 marks of a target | `WorseNeverMilder` |
| session graph | 3 events of 11 kinds, 4 seconds, up to a second late | `BaselineFromWindow`, `HitsNeverFade` |
| arbiter | 2 processes, 3 events in the log, 1 decision kept, 2 modes, 3 actions | `GrantsFollowLog`, `DecisionsReplay` |
| provenance store | 2 tasks, 1 artifact, age 1, clock to 4, any number of restarts | `TaintOnlyExpires` |
| rules | 2 threads, 2 rule files that disagree, 2 rules | `SuppressionKept` |
| canaries | 2 threads, 2 paths, user's files, failing writes and removals, several commands | `DecoysTrip`, `OnlyCheckAgainstUnplant` |
| sends | 3 sessions, age 0, clock to 3 | `SharedSendAlerts` |
| bundle | 1 writer, 3 certifications, 1 verification at a time | `VerifiedListIsOneRun` |
| registry | 2 commands, 2 hosts | `EntriesLastUnlessOverwritten` |
| feed | one installation at a time, cut anywhere | `OnlySignedInstalled` |
| monitor | 1 monitor, 1 deep scan, 2 probes, latencies 100 and 700, 2 lines | `ChangesAlerted` |
| sentinel | 3 indicators | `NewToldOnce` |

Why these are enough: the hazards of the stream need two calls (one after the
other, one denied), two fragments (order within a call), a text block after a
refused call and a full channel: seven frames hold a denied call, a refused call
and a text block with its end. A channel of one frame is full whenever two frames
are pending, as 64 would be with 65. Chains take three events, and the fourth
shows what one more does to them; the suppression in `detect_fetch_write_execute`
needs two executions. Windows and delays are in seconds and scaled down: only
the order of times and thresholds counts. A name collision in the quarantine
needs two intakes of one payload. Sessions need two processes in the same save,
a second decision where one is kept, and a decision after a change of grants or
mode. A match that is split needs two frames of the provider, a third to lie
between them (audio, or a text that breaks it), and one of the client, which is fed
to the same inspector; a socket
of one frame is full with the first. A lost update of the provenance store, of
the rules or of the registry needs two processes, a collection that misses a
renewal needs an age of one and a clock that passes it twice. Two sessions
correlate; the third shows that a later sender is told too. A verification that
mixes certifications needs the files of an old one, of a second that died, and
of a third. The deadlock of the canaries takes two threads, and two paths leave
one planted while the other is removed.

One writer certifies into a directory at a time. With two, the instance reaches
a directory whose files, manifest and checksums agree although two runs wrote
them; nothing in the repository promises otherwise.

`Quarantine` runs with the deadlock check; the other specifications stop when
their bounds are used up, or, in `ProxyStream`, when the stream is complete.

### Disagreements between the code and what is said of it

Five runs expect a violation:

* `stream_input` (`InspectorSeesInput`): the inspector never sees a tool's
  input; `ToolUseDelta` is not fed to it, and its buffer is reset around the
  block. What judges tool input is the engine alone.
* `stream_parallel` (`CallsAnswered`): with two OpenAI calls in one response
  the first is dropped without a stub.
* `engine_inherit` (`TaintInherited`): taint does not pass from an undeclared
  fetch to a declared write of the same URL, because ids carry the origin.
  `TaintStaysInSource` is the other side of it: a user's artifact is never
  tainted, so for declared tools the taint rules of the matrix never apply.
* `quarantine_own_store` (`OperatorCanRelease`): `sr quarantine` and the
  dashboard look into an empty store.
* `stream_refused` (`SubstitutedStaysOut`): the input of a `server_tool_use` or
  `mcp_tool_use` block is appended to a refused call that lingers in the buffer
  (`anthropic.rs:147-164`, `proxy.rs:695-701`); the stop of that block evaluates both
  as one input, about which the engine may answer more mildly, and drains the refused
  frames to the client. `RefusedStaysOut` says what holds until that happens.

Others met while modelling, for which a run would restate a single guard:

* `monitor` mode still replaces denied tools and suspicious text
  (`proxy.rs:653,671` against `cli.rs:57`), and the end of a text block is
  evaluated like a tool use with the name left over (`proxy.rs:702`).
* The matrix returns `AllowWithAudit` for a user's tainted access to wallet data,
  and for a user's write to `/tmp/wallet.dat`, where a write to `/tmp/x` asks
  (`capability_matrix.rs:80` against 118-119).
* The temporal fallback of fetch-write-execute does not check that the fetch
  precedes the write (`session_graph.rs:451-452`); an event of the learning
  window that is recorded after the window closed is flagged
  (`session_graph.rs:656-657`).
* The Realtime adapter turns the frames of a function call into tool events only, for
  which there is no message, so even a monitored client never gets them, where
  `proxy.rs:569-572` says that the full frame was already emitted. `FramesAccounted`
  leaves them out (`Relayed`), `MayWithhold` names them.
* `record` overwrites an entry, source and taint included, where
  `provenance.rs:31,76-77` speak of escalation. A collection writes back, untainted,
  the entry it read (`provenance.rs:173`), so an artifact that was recorded or
  escalated afresh in between loses that taint and its `last_seen`, against "only
  escalates" and "older than the cutoff" (153-154). `TaintOnlyExpires` names this race
  (`Overtakes`) and a restart before a flush as the two exceptions, and shows that
  nothing else takes a fresh taint away.
* A collection of the correlation store that takes a record refreshed since it was
  chosen makes the next sender, or the one about to read back, go untold, against
  `correlation.rs:69-70`. `SharedSendAlerts` has this race, and a call that takes
  longer than the age, as its exceptions.
* A bundle "verifies" (`artifact.rs:72`) although the entry whose signature is checked
  is read again (62-70) and may be of a later certification than the files that were
  hashed.
* `sr canary unplant` and `list` open a new, empty registry, and so remove and
  list nothing, while `unplant` prints that all decoys are gone (`main.rs:664`).
  A user's file that took a decoy's place is removed with it. A decoy that
  `unplant_all` fails to remove (`canary.rs:178`), or that is written only in part,
  stays on disk, trips no check, and is skipped as a user's file by the next planting.
* A strict tool policy with an empty allow list allows what is not denied
  (`tool_policy.rs:64` says "Deny everything not explicitly allowed"); an egress
  entry with upper case letters matches subdomains only; `.env.staging` is an
  ordinary project file (`asset.rs:202-204`).
* A scan whose answers are not 2xx can still grade an official host B; errored
  probes do not lower the uptime of a deep scan; the alert for identity drift
  cannot fire at its default threshold of 20, since the confidence of one
  upstream varies by 10 at most.
* The registry's merge lets an older remote entry replace a newer one, where
  `registry.rs:11` speaks of "the latest known score"; `get` ignores the case of a host
  and `add` does not. Of two commands at a time the second save drops what the first
  one added.
* Once a line of the history is torn it does not load, and no change of a provider is
  alerted any more, only what is critical by itself (`deep_scan.rs:438`, `history.rs`).
* The sentinel does not report again what disappeared and came back.
* Sessions are saved without a lock or a rename, so of two concurrent changes one
  is lost and an interrupted save loses the session (`session.rs:112`): nothing
  says otherwise, and the run shows what still holds.

## 4. Fairness

Two specifications have fairness. `FairSpec` of `ProxyStream`, for `StreamEnds`:
the body is in memory before the stream starts, so the adapter makes progress
(`WF(Upstream)`); tokio polls a task that can proceed (`WF(Handle)`,
`WF(Send)`, `WF(Complete)`); a client reads or leaves (`WF(Client)`), which is
TCP's assumption, not the code's: a client that does neither stops the task
for ever, since the send has no timeout.

`FairSpec` of `WsRelay`, for `RelayEnds`: tokio polls the task (`WF(Relay)`);
`select!` chooses at random among the sides that are ready, so the end of one
that closed is not passed over for ever (`SF(ReadEnd)` for each); a peer that
stays open reads what it is sent (`WF(PeerReads)`, TCP's assumption again).
Nothing is assumed of when, or whether, a peer closes.

No other specification promises progress: they are libraries and commands that
are called or not. That nobody is left waiting for a lock is
`OnlyCheckAgainstUnplant`.

## 5. Proofs

`ProxyStreamProofs` proves, for every protocol, mode, number of calls,
fragments and frames, channel capacity and set of denied calls
(`ProxyStreamAssumption`):

* `StreamTypes`: `Spec => []TypeOK`, one lemma per action.
* `Gate`: `Spec => []ForwardedWasEvaluated`. A start frame in the client's
  stream was evaluated and not refused. The property speaks of frames already
  sent and is not inductive: nothing in it says what the buffer holds when
  `ToolUseEnd` drains it. `IInv` adds to the types `GateInv`: the start frames
  in `tool_buf` are of the call named by `tool_name`, so that the evaluation
  `ToolUseEnd` adds is of the very call whose frames it drains.

These two use no property of the engine: the gate holds whatever it answers.

Behind the OpenAI adapter more holds, and only, while calls do not overlap
(`OneOpen`: at most one call is open): two parallel calls share the one `tool_buf`,
and `CallsAnswered` (`stream_parallel`) and with it the gate fail. That is no
property of the code but of the provider, so it is a hypothesis of the theorems,
which are about every response, of any number of calls and with text between
them, in which it holds:

* `OneCallArrivesWhole`, `OneCallIsAnswered`, `OneCallStaysOut`, each
  `Protocol = "openai" => (Spec /\ []OneOpen => []P)` with `P` `ForwardedWhole`,
  `CallsAnswered`, `SubstitutedStaysOut`. `OneInv` carries them. The adapter hands over
  one event at a time, of the last call (`OneAtATime`); unless it was denied, the
  buffer holds that call's start and fragments but for the one in hand
  (`HandBuffered`); and every earlier call is answered exactly once, the one in
  hand not yet (`AnsweredOnce`). Unlike a text block's stop behind the Anthropic
  adapter, every end here is of a call, so frames left by a refusal are cleared by
  the next start before an end could drain them, and nothing is needed of the
  engine: these hold whatever it answers.
* `OneCallIsToolGate`: the refinement below, under the same hypothesis.
* `SingleCall`: with `MaxCalls = 1`, which is what `stream_openai` runs, the
  hypothesis always holds, and `Spec => [](ForwardedWhole /\ CallsAnswered)`.

`AnthropicStreamProofs` goes on for `Protocol = "anthropic"`, where one block
follows the other by the protocol itself, and only this adapter numbers its
blocks.

* `IndexKept`: `Spec => []IndexAligned`. The property speaks of the moments when
  no event is pending. `InTurn` says what holds at the others: there is one event
  at a time, of the block the upstream is in, and an end that is not yet handled
  is counted by the upstream and not by the proxy.
* `NoRefusedForwarded`: `Spec => []RefusedStaysOut`: as long as the stream has not
  `strayed`, which is a hypothesis about the provider's blocks and without which it
  is false (`stream_refused`). Nothing in the property
  says why the frames that linger in `tool_buf` are not drained later.
  `RefusalInv` says it: what is buffered is either the call being streamed, of
  which the inspector was fed nothing, or one the *engine* refused under the very
  name and input the next end will show it (`BufferedJudged`). With an empty
  inspector only the engine can refuse, so the first case turns into the second,
  and `Reports` keeps the second refused. Stubs are of calls that have started
  (`StubsBefore`), so a call that starts has none.
* `ForwardedArrivesWhole`: `Spec => []ForwardedWhole`, under the same hypothesis, for a
  refused call that is lengthened comes out as more than itself. `WholeInv` adds that the
  buffer holds the start and every fragment sent so far except the one in hand,
  under the index its stop will have (`BufferFilled`), and that a call whose
  start is in the stream gets no more fragments (`StartsEnded`). The lemmas
  `WholeConcat` and `WholeDrain` say what adding frames, and draining the buffer,
  do to whole calls.
* `EndedIsAnswered`: `Spec => []CallsAnswered`. `AnswerInv`: every call is
  answered but the last one, which may be about to start, or be in the buffer
  with its block open or its end pending.
* `AnthropicIsToolGate`: `Spec => StreamIsToolGate`; the mapping gives up on all calls
  when the stream strays (`Fate`), which for the gate is a client that leaves. The initial states map to the
  gate's; `GateMoves` says that a step begins one call, settles one that was held,
  lets the client leave, or changes no fate. `FatesStay` and `FateSettled` reduce
  that to what a step adds to the stream: `GateBegins` for the upstream, `GatePlain`,
  `GateStub` and `GateForward` for what a handler queues. They are shared by
  both adapters; what differs is why a call that begins finds the earlier ones
  settled (`AnswerInv`, `OneInv`) and why what is drained was not replaced
  before (`RefusalInv`, `OneInv`). Two more facts are needed of every protocol:
  what is in the buffer is of the call named last (`GateInv`), and a denied call is
  never there (`AdmittedOnly`).

`DefenseEngineProofs` proves, for every set of tasks, tool uses and literals,
with and without a store that fails (`EngineAssumption`):

* `EngineTypes`: `Spec => []TypeOK`.
* `EventIds`: `Spec => []NodesDistinct`. `IdsOnce` adds that the ids of tasks
  between `Stamp` and `Judge`, too, are below the counter and unused.
* `TaintByOrigin`: `Spec => []TaintStaysInSource`. `LocalsTainted` adds what the
  locals of a running evaluation say: parents, and the taint taken from
  `record`, occur only for an untrusted origin, since references carry the
  origin of the tool use that makes them.
* `UndeclaredAsked`: `Spec => []UnsolicitedNeverSilent`. `MatrixSound` shows
  that no rule of the matrix's cascade lets a provider's action through
  (`RulesSound`, rule by rule) and `MergeSound` that the merge only makes an
  answer stricter. Nothing is used of the detectors or of the store, so the
  result holds whatever they do.
* `NeverRelaxes`: `(HasStore => ~StoreFails) => (Spec => DecisionNeverRelaxes)`.
  What was answered is compared with what the session decides *now*
  (`Answered`), so that each step of the graph or the clock, not only the next
  evaluation, has to keep it; `Steady` says that every evaluation of a tool use
  ends with the same taint and reaches the lock within a second of its stamp.
  The rest is `GraphGrows`: a detector that hit, hits after one more event, at
  least as severely, and however late that event is. It has a lemma for each
  group of the 22; the hard one is fetch-write-execute, whose hit by time alone
  is switched off once an execution is linked by its artifact: then that link is
  the hit. The hypothesis is needed. With a store that fails TLC finds the
  answer relaxed: a lookup that fails forgets the taint, and what it blocked
  before it only asks about.

`QuarantineProofs` proves, for every set of tasks, paths and payloads and every
bound (`QuarantineAssumption`):

* `StoreTypes`: `Spec => []TypeOK`.
* `HeldFiles`: `Spec => []HeldHasFile`. The property alone is not inductive:
  a `Create` truncates, and a `Purge` removes, a file that could be another
  entry's. `IInv` adds that the numbers in use, by entries and by intakes under
  way, are below the counter (`NumbersInUse`) and differ from each other
  (`NumbersDistinct`), and that an intake about to be listed has written its
  file (`WrittenIsWhole`). A restart resets the counter but also ends every use
  of a number, which is why the files it finds do no harm. Lemmas say what
  `First` picks and how `RemoveAt` moves positions.

`ProvenanceStoreProofs` proves, for every set of tasks, artifacts and origins,
every age and every bound of the clock:

* `TaintExpires`: `Spec => TaintOnlyExpires`, provided `Origins` are sources and the
  bounds numbers. The property speaks of a step, and compares the store before and after
  it, whatever the entry written says of itself. `Pending` says what tasks are about to
  write: an insertion's entry of an untrusted origin is tainted (`Firm`), and a
  collection's was, when read, older than the age (`Aged`), which stays so as time goes
  on, as its cutoff does (`Past`). If the collection does not overtake, that entry is
  still the store's.
* `ProvenanceTypes`: `Spec => []TypeOK`, from the same invariant.

`WsRelayProofs` proves, for every number of frames of each side, every choice of
what they may send and every room of the sockets (`WsRelayAssumption`):

* `RelayTypes`: `Spec => []TypeOK`.
* `FramesVerbatim`: `Spec => []UserFramesVerbatim`. The property says nothing of
  the frame that was read and not yet sent. `IInv` says that it is the next one
  the provider gets (`Verbatim`), which needs what events a frame becomes and
  what is pending of them (`Shape`).
* `NoMatchPasses`: `Spec => []MatchStopsHere`. `Held` ties what the client got to
  what the inspector holds: a half that reached the client is still at the end of the
  buffer, or part of a match there, or it is cut off (by a text that is no half, fed
  after it, or by a function call's end); one that is about to be sent is at the end
  of the buffer and all earlier ones are cut off.
* `RelayImplementsChannels`: `Spec => RelayIsTwoChannels`, that every initial
  state maps to one of each channel and every step to a step of each channel or a
  stutter. Beyond `IInv` it needs `Sorted`: only a frame of an output item
  becomes a tool event and what is scanned is no audio, so that `HandleEvent`
  withholds what `MayWithhold` allows.
* `FramesCounted`: `Spec => []FramesAccounted`. The property gives every frame
  the client got its place among the provider's, in order, and bounds the places
  left over by the count; it speaks of the moments when nothing is pending.
  `Accounted` says at the others, too, that only the frame in hand (`Owed`) is
  neither delivered nor counted.

`ComponentProofs` and `SessionProofs` prove the properties of `Components`, each
over the behaviours in which its component runs (`OneRuns`: the components stay
out of each other's variables, and the one that runs remains the same), for every
value of the constants (`ComponentsAssumption` asks for no more than their kinds,
that at least one decision is kept, and a day of at least a second;
`TimesAssumption`, which only the types use, that ages and times are numbers and a
battery has a probe; `SendAgeAssumption`, which `SharedSendTold` uses, that the age of
the collections is a number):

* `UntrustedAlwaysAsked` (`UntrustedNeverSilent`) and `EscalationKept`
  (`EscalationNeverRelaxes`): of the matrix. `CascadeMeans` and
  `CascadeAnswer` turn the cascade of early returns into what the first rule that
  applies answers; of two inputs, the escalation compares which rules each can
  reach (`UntrustedAsked`, `TrustedBlocked`, `TaintedAsked`).
* `WorseIsNotMilder` (`WorseNeverMilder`), for any set of marks and lists, also
  beyond `MaxMarks`. Of targets it says one thing only: classified and then judged by
  the matrix, once a
  mark names a secret, its class is one the matrix blocks for every origin but the
  user (`SecretClassified`, `SecretBlocked`). A payload that begins like a binary
  is found to be one whatever else it holds (`BinarySniffed`); `EgressStricter`
  and `BlockedBelow` are about hosts and domains, `GradeFalls` about the scan's
  grade.
* `SuppressionHolds` (`SuppressionKept`). `SuppressInv`: not only the suppress list
  agrees with what was asked for, but the copy each reload under way is about to
  restore, except for the rules overtaken.
* `DecoysAlwaysTrip` (`DecoysTrip`), of the decoys no `unplant_all` has let go of.
  `DecoyInv`: such a decoy is on its way to the
  list, or in the list and on its way to the paths or in them; and a thread that
  holds the list between the two locks of `unplant_all` has emptied it.
* `DeadlockOnlyThere` (`OnlyCheckAgainstUnplant`) follows from the locks that each
  operation takes while it holds another: only `check` and `unplant_all` do, in
  opposite orders. It needs no invariant.
* `SharedSendTold` (`SharedSendAlerts`). `SendInv`: the sessions a call is to find, and
  its own, are in the record, or lost, or the call has taken longer than the age
  (`CallInv`); and a record about to be removed was too old when it was chosen, so that
  what it has of younger sends was refreshed since.
* `VerifiedListOneRun` (`VerifiedListIsOneRun`), with one writer (section 3 says
  why). `EntryInv`: no entry is of a run to come, and the one read again is no older
  than the one read before. `BundleInv` says which files are of the run under way at each
  step of its certification, and that no list that parses, in the directory or as
  a verification read it, mixes two runs (`OneRun`): so a verification, whatever
  files it finds, compares them with one run.
* `EntriesLast` (`EntriesLastUnlessOverwritten`). `RegistryInv`: the copy a command is
  about to save has every host the file has, unless the file was saved since it was
  loaded (`Keeps`).
* `OnlySigned` (`OnlySignedInstalled`). `FeedInv`: the files an installation under way has
  written are of its feed, which is signed and whole, and every other is of such a
  feed, torn or not there; so the one that comes to its end leaves one feed, whatever
  the ones that were cut left behind.
* `AlertsRaised` (`ChangesAlerted`). `MonitorInv`: what a scan compared with is the line
  that was the last then (`Compared`), and stays there, since lines are only appended;
  and what an ended round raised follows from these (`Told`), written line or not.
* `ToldOnce` (`NewToldOnce`). `SentinelInv`: what the last round saw is in the set it
  is compared with, though that set is replaced only when there is news.
* `LogLeavesGrants` (`GrantsFollowLog`) and `LogExplainsDecisions`
  (`DecisionsReplay`). `ArbiterInv` says of every copy that is about to be saved,
  too, that its log explains it (`GoodSession`): whichever save is lost, what
  remains is a whole session, or does not load.
* `BaselineIsTheWindow` (`BaselineFromWindow`). `GraphInv`: the baseline is of the
  events before the first late one *in the graph's order*, whether or not it is
  frozen yet; an event of the window that comes later is not in it.
* `HitsStay` (`HitsNeverFade`): `GraphGrows` again, for the graph fed through its own
  interface, with the events the engine cannot produce. (The lemmas appear a
  second time there: the proof system takes no theorem through an instance.)
* `TypesKept` (`TypesOK`): the types of the component that runs, whichever it is. Most
  of it is in the invariants above; what they leave out is a lemma per component
  (`Scored`, `Spoiled`, `RulesInv`, `CanaryInv`, `SendTypes`, `PublishInv`, `WatchInv`).
  Of the pure functions it says that each has a result in its range for
  every input: a decision, a class, a capability, a score of 5 to 100 points, an anomaly
  of at most 100. `PercentileTyped` shows that the latency a monitor reports is one of
  the battery's: some probe is slow enough for any percentile (`SlowestProbe`), as
  long as there is a probe at all.

`ProvenanceStoreProofs` is about the provenance store of `Components`, which
extends it: `TaintOnlyExpires` in its run is the definition of `TaintExpires`.

Assumed throughout: the engine's answers about one input do not relax (`NeverRelaxes`, with a store
that does not fail; used only for `RefusedStaysOut` and `StreamIsToolGate` behind the
Anthropic adapter); the quarantine of the running proxy is never released (true of the
program, see `quarantine_own_store`); upstreams send legal streams; the wall clock does not go
back and a task between stamp and lock is not a second late (`Tick`); nothing
panics (slices at byte 64 and 512, `defense.rs:452`, `record.rs:188`, can).

Only model-checked:

* `StreamEnds` and `RelayEnds`: liveness under fairness is out of the prover's
  reach.
* What the five violations show.

## 6. Not modelled

Text: patterns, normalisation, entropy, header formats are inputs (levels, tags,
marks, classes). Formatting of frames: a stub stands for all of its frames. The
request side of `forward`, TLS, listening. Encryption of the recorder's log and
of the forensics. The persisted baselines of `provenance.rs:211-257`, which
nothing calls. The listing of archive members (`quarantine.rs:449-529`), which
is only displayed. `telemetry.rs`: it keeps no state and nothing calls it. The
fuzzers, the mock provider, `secure.rs`, the prompts of the probes. Of the
dashboard and the command line, the handling of arguments and JSON.

## 7. Plan

1. Done: all components that keep state; every safety and action property the runs
   check proved, with the exceptions above; the stream's abstract gate
   (`ToolGate`) and the relay's two channels (`FrameChannel`) with their refinements.
2. Two proxies of one user on one quarantine directory; the request side of the
   proxy.
