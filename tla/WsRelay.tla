-------------------------------- MODULE WsRelay --------------------------------
(***************************************************************************)
(* The WebSocket relay (src/src/proxy.rs, relay_ws_upgrade to              *)
(* event_to_ws_message) with the two adapters of protocol/ws/.  One task   *)
(* waits for a frame of either side, turns it into events, feeds each to   *)
(* the one inspector and sends on what event_to_ws_message makes of it,    *)
(* waiting for the receiver each time.  A frame is chosen when it is read. *)
(*                                                                         *)
(* Control frames of the protocol itself (tungstenite answers a ping too)  *)
(* are external; a frame that is not scanned stands for pings as well.     *)
(***************************************************************************)
EXTENDS Naturals, Sequences, SequencesExt

CONSTANTS MaxFrames,  \* bound: frames each side sends, a function of the side
          Sent,       \* the frames each side may send, a function of the side
          Cap         \* frames a receiver's socket holds before a send waits

Side == {"client", "upstream"}
Other(s) == IF s = "client" THEN "upstream" ELSE "client"

\* What a text is to the rules, all of it that is fed, the JSON around a payload
\* included: two halves match when one is fed directly after the other, and any
\* other text between them breaks the match.
Level == {"clean", "half", "warn", "crit"}

\* An envelope is a JSON-RPC result with text blocks; call, args and callEnd are
\* the Realtime API's function-call frames, and item an output item that is no
\* function call; unscanned is audio, or a ping (binary data that is UTF-8 is
\* scanned, and counts as text here).
ClientFrame   == [kind: {"text"}, level: {"clean"}] \cup [kind: {"envelope"}, level: Level]
UpstreamFrame == [kind: {"text", "args"}, level: Level]
                   \cup [kind: {"call", "callEnd", "item", "unscanned"}, level: {"clean"}]
Frame == ClientFrame \cup UpstreamFrame

ASSUME WsRelayAssumption ==
  /\ MaxFrames \in [Side -> Nat] /\ Cap \in Nat \ {0}
  /\ Sent["client"] \subseteq ClientFrame /\ Sent["upstream"] \subseteq UpstreamFrame

ItemFrame(f) == f.kind \in {"call", "args", "callEnd", "item"}

VARIABLES
  adapter,   \* pick_ws: "realtime" or "passthrough"
  mode,      \* cli::Mode
  phase,     \* of the relay's task
  peer,      \* per side: open, closing (its Close is on the way) or lost
  side,      \* whose frame is being handled
  events,    \* its events, not yet handled
  pending,   \* the message a send is waiting to deliver
  buffer,    \* the inspector's buffer: matches it holds, and "half" while it ends in one
  maxSev, blocked,
  taken,     \* per side: frames read from it
  got,       \* per side: frames delivered to it
  seen,      \* per side: how many of them it has read
  cuts,      \* history: lengths of got.client at which text was fed that is no half,
             \* or the buffer cleared
  log        \* the recorder's line

inspector == <<buffer, maxSev, blocked, cuts>>
vars == <<adapter, mode, phase, peer, side, events, pending, inspector, taken, got, seen, log>>

Init ==
  /\ adapter \in {"realtime", "passthrough"} /\ mode \in {"monitor", "block"}
  /\ phase = "upgrading" /\ peer = [s \in Side |-> "open"]
  /\ side = "client" /\ events = <<>> /\ pending = <<>>
  /\ buffer = {} /\ maxSev = 0 /\ blocked = 0 /\ cuts = {}
  /\ taken = [s \in Side |-> <<>>] /\ got = [s \in Side |-> <<>>] /\ seen = [s \in Side |-> 0]
  /\ log = <<>>

-------------------------------------------------------------------------------
(* Adapters: the events of a frame.                                        *)

WsEvent(ev, f) == [ev |-> ev, frame |-> f]

\* The event of a function call's frame.
ToolEvent == [call |-> "start", args |-> "delta", callEnd |-> "end"]

\* process_inbound_text: an envelope is surfaced a second time, for the rules.
\* process_outbound_text: the frames of a function call become tool events only,
\* and those of another output item nothing.
EventsOf(s, f) ==
  CASE f.kind = "unscanned" -> << WsEvent("binary", f) >>
    [] s = "client" /\ f.kind = "envelope" /\ adapter = "realtime" ->
         << WsEvent("userText", f), WsEvent("delta", f) >>
    [] s = "client" /\ ~(f.kind = "envelope" /\ adapter = "realtime") -> << WsEvent("userText", f) >>
    [] s = "upstream" /\ f.kind = "item" /\ adapter = "realtime" -> <<>>
    [] s = "upstream" /\ f.kind \in {"call", "args", "callEnd"} /\ adapter = "realtime" ->
         << WsEvent(ToolEvent[f.kind], f) >>
    [] s = "upstream" /\ f.kind # "unscanned" /\ ~(ItemFrame(f) /\ adapter = "realtime") ->
         << WsEvent("text", f) >>

\* Inspector::feed adds the text of these events to its buffer, and scans it.
Scanned(ev) == ev \in {"text", "delta", "end"}

\* The text is appended: matches stay, and a half only while nothing follows it.
AddsText(e) == Scanned(e.ev) /\ e.ev # "end"

\* A slip the checks must notice: each frame is scanned by itself.
Fed_PerFrame(e) == IF AddsText(e) THEN {e.frame.level} \ {"clean"} ELSE buffer

Fed(e) ==
  LET level == e.frame.level
  IN  IF ~AddsText(e) THEN buffer
      ELSE (buffer \ {"half"}) \cup (IF level = "half" /\ "half" \in buffer THEN {"split"}
                                     ELSE {level} \ {"clean"})

\* A half before this event does not match with one after it.
Cuts(e) == e.ev = "end" \/ (AddsText(e) /\ e.frame.level # "half")

Severity(buf) == IF buf \cap {"crit", "split"} # {} THEN 70 ELSE IF "warn" \in buf THEN 40 ELSE 0

\* Slips the checks must notice: an envelope not sent on, audio not sent on.
MessageOf_DropsEnvelope(e) ==
  IF (e.ev = "userText" /\ e.frame.kind = "envelope") \/ e.ev \in {"start", "delta", "end"}
  THEN <<>> ELSE <<e.frame>>
MessageOf_DropsAudio(e) == IF e.ev \in {"start", "delta", "end", "binary"} THEN <<>> ELSE <<e.frame>>

\* event_to_ws_message: tool events have no message.
MessageOf(e) == IF e.ev \in {"start", "delta", "end"} THEN <<>> ELSE <<e.frame>>

-------------------------------------------------------------------------------
(* The relay's task.                                                       *)

\* 101 was answered; the upgrade may fail, and so may the connection to the
\* provider, which simply drops the client.
Upgrade ==
  /\ phase = "upgrading"
  /\ phase' \in {"connecting", "done"}
  /\ UNCHANGED <<adapter, mode, peer, side, events, pending, inspector, taken, got, seen, log>>

Connect ==
  /\ phase = "connecting"
  /\ phase' \in {"relaying", "done"}
  /\ UNCHANGED <<adapter, mode, peer, side, events, pending, inspector, taken, got, seen, log>>

\* A slip the checks must notice: a frame is read with events still to handle.
Selecting_MidFrame == phase = "relaying" /\ pending = <<>>

\* The select: the next frame of one side.
Selecting == phase = "relaying" /\ events = <<>>

ReadFrame(s) ==
  /\ Selecting /\ peer[s] = "open" /\ Len(taken[s]) < MaxFrames[s]
  /\ \E f \in Sent[s] :
       /\ taken' = [taken EXCEPT ![s] = Append(@, f)]
       /\ events' = EventsOf(s, f)
  /\ side' = s
  /\ UNCHANGED <<adapter, mode, phase, peer, pending, inspector, got, seen, log>>

\* A Close is answered to the other side, whether it arrives or not; a read
\* error ends the loop at once.
ReadEnd(s) ==
  /\ Selecting /\ peer[s] # "open"
  /\ phase' = "ending"
  /\ UNCHANGED <<adapter, mode, peer, side, events, pending, inspector, taken, got, seen, log>>

Drops(sev) == side = "upstream" /\ mode = "block" /\ sev >= 60

\* Each event is fed to the inspector; a bad verdict drops an upstream event.
HandleEvent ==
  /\ phase = "relaying" /\ events # <<>> /\ pending = <<>>
  /\ LET e   == Head(events)
         buf == Fed(e)
         sev == IF Scanned(e.ev) THEN Severity(buf) ELSE 0
     IN  /\ buffer' = IF e.ev = "end" THEN {} ELSE buf
         /\ cuts' = IF Cuts(e) THEN cuts \cup {Len(got["client"])} ELSE cuts
         /\ maxSev' = IF sev > maxSev THEN sev ELSE maxSev
         /\ \/ /\ Drops(sev)
               /\ blocked' = blocked + 1 /\ events' = Tail(events) /\ UNCHANGED pending
            \/ /\ ~Drops(sev) /\ MessageOf(e) = <<>>
               /\ events' = Tail(events) /\ UNCHANGED <<blocked, pending>>
            \/ /\ ~Drops(sev) /\ MessageOf(e) # <<>>
               /\ pending' = MessageOf(e) /\ UNCHANGED <<blocked, events>>
  /\ UNCHANGED <<adapter, mode, phase, peer, side, taken, got, seen, log>>

\* A slip the checks must notice: one frame more than there is room for.
Room_OneMore(to) == Len(got[to]) - seen[to] <= Cap

Room(to) == Len(got[to]) - seen[to] < Cap

Deliver ==
  LET to == Other(side) IN
  /\ pending # <<>> /\ peer[to] # "lost" /\ Room(to)
  /\ got' = [got EXCEPT ![to] = @ \o pending]
  /\ pending' = <<>> /\ events' = Tail(events)
  /\ UNCHANGED <<adapter, mode, phase, peer, side, inspector, taken, seen, log>>

\* A slip the checks must notice: the error is not a reason to go on.
SendFails_Retries ==
  /\ pending # <<>> /\ peer[Other(side)] = "lost"
  /\ UNCHANGED vars

\* The send fails: the break leaves the loop over the events only.
SendFails ==
  /\ pending # <<>> /\ peer[Other(side)] = "lost"
  /\ pending' = <<>> /\ events' = <<>>
  /\ UNCHANGED <<adapter, mode, phase, peer, side, inspector, taken, got, seen, log>>

\* After the loop: one line, with what the events added up to.
Finish ==
  /\ phase = "ending"
  /\ phase' = "done"
  /\ log' = <<[severity |-> maxSev, unsolicited |-> blocked > 0]>>
  /\ UNCHANGED <<adapter, mode, peer, side, events, pending, inspector, taken, got, seen>>

Relay == Upgrade \/ Connect \/ HandleEvent \/ Deliver \/ SendFails \/ Finish
           \/ \E s \in Side : ReadFrame(s) \/ ReadEnd(s)

(* The peers: each reads what arrives, and some time closes or is lost.    *)

PeerReads(s) ==
  /\ peer[s] # "lost" /\ seen[s] < Len(got[s])
  /\ seen' = [seen EXCEPT ![s] = @ + 1]
  /\ UNCHANGED <<adapter, mode, phase, peer, side, events, pending, inspector, taken, got, log>>

PeerEnds(s) ==
  /\ phase = "relaying" /\ peer[s] = "open"
  /\ \E how \in {"closing", "lost"} : peer' = [peer EXCEPT ![s] = how]
  /\ UNCHANGED <<adapter, mode, phase, side, events, pending, inspector, taken, got, seen, log>>

Next == Relay \/ \E s \in Side : PeerReads(s) \/ PeerEnds(s)

\* tokio polls the task when it can proceed, and select! chooses among the ready
\* sides at random; a peer that stays reads what it is sent.
Fairness ==
  /\ WF_vars(Relay)
  /\ \A s \in Side : SF_vars(ReadEnd(s)) /\ WF_vars(PeerReads(s))

Spec == Init /\ [][Next]_vars
FairSpec == Spec /\ Fairness

-------------------------------------------------------------------------------
(* The two directions as channels (FrameChannel).  A frame is in the hand  *)
(* of its direction from when it is read until it is sent or dropped.      *)

\* The client's frame is sent on before the rules see it again.
UserHand ==
  IF side = "client" /\ events # <<>> /\ Head(events).ev = "userText"
  THEN <<Head(events).frame>> ELSE <<>>
ProviderHand == IF side = "upstream" /\ events # <<>> THEN <<Head(events).frame>> ELSE <<>>

\* What may be kept from the client: the frames of a function call, which the
\* Realtime adapter turns into tool events, and in block mode what is scanned.
MayWithhold ==
  {f \in UpstreamFrame : \/ ItemFrame(f) /\ adapter = "realtime"
                         \/ mode = "block" /\ f.kind # "unscanned"}

UserChannel == INSTANCE FrameChannel WITH
  Frames <- ClientFrame, withheld <- {}, sent <- taken["client"], hand <- UserHand,
  received <- got["upstream"], up <- peer["upstream"] # "lost"

ProviderChannel == INSTANCE FrameChannel WITH
  Frames <- UpstreamFrame, withheld <- MayWithhold, sent <- taken["upstream"],
  hand <- ProviderHand, received <- got["client"], up <- peer["client"] # "lost"

\* "each text frame is processed through the WsAdapter + the inspector before being
\* forwarded to the peer" (src/src/proxy.rs:411-412): each direction is a channel
\* that keeps its frames in order and unchanged, though one task, one list of
\* events and one inspector serve both; only what MayWithhold names, or a lost
\* receiver, may make a frame disappear.
RelayIsTwoChannels == UserChannel!Spec /\ ProviderChannel!Spec

-------------------------------------------------------------------------------
(* Properties.                                                             *)

\* Type correctness, and no socket holds more than it has room for, which is what
\* the task waits for at every send (src/src/proxy.rs:441-536).
TypeOK ==
  /\ phase \in {"upgrading", "connecting", "relaying", "ending", "done"}
  /\ peer \in [Side -> {"open", "closing", "lost"}] /\ side \in Side
  /\ events \in Seq([ev: {"userText", "text", "start", "delta", "end", "binary"}, frame: Frame])
  /\ pending \in {<<>>} \cup {<<f>> : f \in Frame}
  /\ buffer \subseteq (Level \ {"clean"}) \cup {"split"}
  /\ maxSev \in {0, 40, 70} /\ blocked \in Nat /\ cuts \subseteq Nat
  /\ taken \in [Side -> Seq(Frame)] /\ got \in [Side -> Seq(Frame)]
  /\ seen \in [Side -> Nat]
  /\ \A s \in Side : seen[s] <= Len(got[s]) /\ Len(got[s]) - seen[s] <= Cap
  /\ log \in Seq([severity: {0, 40, 70}, unsolicited: BOOLEAN])

\* "Forward the original frame upstream (no substitution on client->upstream
\* path)" (src/src/proxy.rs:470-472): whatever the inspector makes of it, of the
\* provider's text or of a send that fails, the provider gets the client's frames
\* unchanged, once each and in order, up to where it was lost.
UserFramesVerbatim ==
  /\ IsPrefix(got["upstream"], taken["client"])
  /\ events = <<>> /\ peer["upstream"] # "lost" => got["upstream"] = taken["client"]

\* The provider's frames that are relayed at all: the Realtime API's frames about
\* an output item are not.  (src/src/proxy.rs:571 says of them that "the full raw
\* frame was already emitted via WsText", but the adapter emits none.)
Relayed == {i \in DOMAIN taken["upstream"] :
              ~(ItemFrame(taken["upstream"][i]) /\ adapter = "realtime")}

\* What is received are the frames sent at some of the places, in order and once
\* each, and no more than so many of the others are missing.
Accounts(sent, places, received, missing) ==
  \E at \in [DOMAIN received -> places] :
    /\ \A k \in DOMAIN at : received[k] = sent[at[k]]
    /\ \A k, l \in DOMAIN at : k < l => at[k] < at[l]
    /\ Cardinality(places \ {at[k] : k \in DOMAIN at}) <= missing

Countable == IF mode = "monitor" THEN 0 ELSE blocked

\* No frame of the provider disappears uncounted: in monitor mode the client
\* gets all that are relayed, in order; in block mode each it misses is counted.
FramesAccounted ==
  events = <<>> /\ peer["client"] # "lost" =>
    Accounts(taken["upstream"], Relayed, got["client"], Countable)

\* In block mode no text that the rules match reaches the client: not in one frame,
\* and not as two halves with audio, pings, the client's own frames or fragments
\* of a call between them, as long as none of these added a text that is no half
\* and no function call ended there and emptied the buffer.  Two pieces with other
\* text between them, be it the JSON they are wrapped in, pass.
MatchStopsHere ==
  mode = "block" =>
    \A i, j \in DOMAIN got["client"] :
      LET f == got["client"][i]
          g == got["client"][j]
      IN  /\ f.level # "crit"
          /\ i < j /\ f.level = "half" /\ g.level = "half" => \E n \in cuts : i <= n /\ n < j

\* When a side closes or is lost, the relay comes to its end, also while a send to
\* that side, or to the other, is waiting for room.
RelayEnds == (\E s \in Side : peer[s] # "open") ~> phase = "done"
===============================================================================
