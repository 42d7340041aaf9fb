----------------------------- MODULE ProxyStream -----------------------------
(***************************************************************************)
(* One response stream through the proxy (src/src/proxy.rs, fn             *)
(* inspect_and_forward) with the protocol adapter that turns the upstream  *)
(* body into events (protocol/anthropic.rs, protocol/openai.rs) and the    *)
(* bounded channel to the client.                                          *)
(*                                                                         *)
(* The upstream's frames are chosen one at a time: the adapter is a lazy   *)
(* stream, polled when the handler is ready for its next event.  A handler *)
(* puts the frames it sends into outbox, from where they enter the channel *)
(* one by one, because each send awaits room.                              *)
(*                                                                         *)
(* The defence engine answers any report it can produce; what is used of   *)
(* it is that it never answers more leniently when asked about the same    *)
(* observation again (DefenseEngine, property DecisionNeverRelaxes).       *)
(***************************************************************************)
EXTENDS Naturals, Sequences, FiniteSets, SequencesExt

CONSTANTS Protocol,   \* which adapter protocol::pick chose
          Mode,       \* cli::Mode of the proxy
          MaxCalls,   \* bound: tool calls in one response
          MaxFrags,   \* bound: input fragments of one call
          MaxChunks,  \* bound: upstream frames in one response
          ChanCap,    \* capacity of the mpsc channel (64 in the code)
          Denied      \* the calls whose tool name the mcp policy blocks

Calls == 1 .. MaxCalls
NoCall == 0           \* the empty tool_name

ASSUME ProxyStreamAssumption ==
  /\ Protocol \in {"anthropic", "openai"}
  /\ Mode \in {"monitor", "block"}
  /\ MaxCalls \in Nat /\ MaxFrags \in Nat /\ MaxChunks \in Nat
  /\ ChanCap \in Nat \ {0}
  /\ Denied \subseteq Calls

\* What a piece of text is to the rules: "half" is harmless alone and matches
\* when a second half directly follows it in the inspector's buffer.
Level == {"clean", "half", "warn", "crit"}

\* Input of a tool_use, numbered; or of a block that is none (server_tool_use and
\* mcp_tool_use have input too), which the adapter does not tell apart.
Stray == [call |-> NoCall, frag |-> 0]
Fragment == [call: Calls, frag: 1 .. MaxFrags] \cup {Stray}

Event == [ev: {"text"}, level: Level] \cup [ev: {"start"}, call: Calls]
           \cup [ev: {"delta"}, frag: Fragment] \cup [ev: {"end", "raw"}]

\* The frames the client can receive.  A stub stands for the whole
\* substitution of a tool_use; textstub is the replacement of a text delta.
Frame == [kind: {"raw", "text", "textstub", "start", "delta", "stop", "stub"},
          call: Calls \cup {NoCall}, frag: 0 .. MaxFrags, idx: Nat]

\* A slip the checks must notice: client frames numbered one short.
FrameOf_OneShort(kind, c, frag, idx) ==
  [kind |-> kind, call |-> c, frag |-> frag, idx |-> idx - 1]

FrameOf(kind, c, frag, idx) == [kind |-> kind, call |-> c, frag |-> frag, idx |-> idx]

Decision == {"allow", "ask", "quarantine", "block"}  \* allow stands for allow:audit too

\* What the stream uses of a DefenseReport: its decision, whether it gives
\* reasons, the severity of its worst chain hit; and held, whether an execute
\* target is in quarantine.
Report == [decision: Decision, noted: BOOLEAN, chain: {0, 70, 95}, held: BOOLEAN]

VARIABLES
  block,      \* upstream: the content block being streamed
  call,       \* upstream: tool calls started so far
  frags,      \* upstream: input fragments sent, per call
  openCalls,  \* adapter: calls started whose ToolUseEnd was not emitted
  closed,     \* upstream: content blocks completed
  chunks,     \* upstream: frames sent so far
  eof,        \* upstream: the body is exhausted
  events,     \* adapter: events of the current frame, not yet handled
  toolBuf, toolInput, toolName, toolIndex, skip,
  insp,       \* the inspector's buffer: the tool input it has been fed, the matches
              \* it holds, and "half" while it ends in one
  maxSev, blocked,
  outbox,     \* frames the current handler has still to send
  out,        \* frames that entered the channel
  read,       \* how many of them the client has taken
  connected,  \* the client still listens
  log,        \* the recorder's line, when the stream is complete
  evals,      \* history: the evaluations of tool uses
  strayed     \* history: a stray fragment joined frames that a refusal left behind

upstream == <<block, call, frags, openCalls, closed, chunks, eof>>
handler  == <<toolBuf, toolInput, toolName, toolIndex, skip, insp, maxSev, blocked, strayed>>
channel  == <<out, read, connected>>
vars == <<upstream, events, handler, outbox, channel, log, evals>>

EmptyBuffer == [text |-> {}, input |-> {}]

Init ==
  /\ block = "none" /\ call = 0 /\ frags = [c \in Calls |-> 0] /\ openCalls = {}
  /\ closed = 0 /\ chunks = 0 /\ eof = FALSE /\ events = <<>>
  /\ toolBuf = <<>> /\ toolInput = <<>> /\ toolName = NoCall /\ toolIndex = 0
  /\ skip = FALSE /\ insp = EmptyBuffer /\ maxSev = 0 /\ blocked = 0
  /\ outbox = <<>> /\ out = <<>> /\ read = 0 /\ connected = TRUE
  /\ log = <<>> /\ evals = {} /\ strayed = FALSE

-------------------------------------------------------------------------------
(* The upstream body, as the adapter's events.                             *)

\* The adapter is polled for the next frame.
Polled == events = <<>> /\ outbox = <<>> /\ ~eof

Chunk == Polled /\ chunks < MaxChunks /\ chunks' = chunks + 1

Emit(evs) == events' = evs

TextEvent(l)  == [ev |-> "text", level |-> l]
StartEvent(c) == [ev |-> "start", call |-> c]
DeltaEvent(c) == [ev |-> "delta", frag |-> [call |-> c, frag |-> frags[c] + 1]]
StrayEvent == [ev |-> "delta", frag |-> Stray]
RawEvent == [ev |-> "raw"]
EndEvent == [ev |-> "end"]

NewCall(c) ==
  /\ c = call + 1 /\ c \in Calls
  /\ call' = c /\ openCalls' = openCalls \cup {c}
  /\ Emit(<<StartEvent(c)>>)

NewFragment(c) ==
  /\ c \in openCalls /\ frags[c] < MaxFrags
  /\ frags' = [frags EXCEPT ![c] = @ + 1]
  /\ Emit(<<DeltaEvent(c)>>)

\* Anthropic: one content block at a time, of text, of a tool_use or of
\* another type the parser does not know (thinking, server_tool_use).  Frames it
\* does not know become Raw; a delta is told by its own type, so the input of a
\* block of another type becomes ToolUseDelta, and the stop of every block
\* becomes ToolUseEnd.  The provider puts no text into a tool_use.
AnthropicStart ==
  /\ Chunk /\ block = "none"
  /\ \/ block' = "text"  /\ Emit(<<TextEvent("clean")>>) /\ UNCHANGED <<call, openCalls>>
     \/ block' = "other" /\ Emit(<<RawEvent>>) /\ UNCHANGED <<call, openCalls>>
     \/ block' = "tool"  /\ NewCall(call + 1)
  /\ UNCHANGED <<frags, closed, eof>>

AnthropicDelta ==
  /\ Chunk
  /\ \/ block = "text" /\ (\E l \in Level : Emit(<<TextEvent(l)>>)) /\ UNCHANGED frags
     \/ block = "other" /\ (Emit(<<RawEvent>>) \/ Emit(<<StrayEvent>>)) /\ UNCHANGED frags
     \/ block = "tool" /\ NewFragment(call)
  /\ UNCHANGED <<block, call, openCalls, closed, eof>>

AnthropicStop ==
  /\ Chunk /\ block # "none"
  /\ block' = "none" /\ closed' = closed + 1
  /\ openCalls' = {}
  /\ Emit(<<EndEvent>>)
  /\ UNCHANGED <<call, frags, eof>>

Anthropic ==
  /\ Protocol = "anthropic"
  /\ AnthropicStart \/ AnthropicDelta \/ AnthropicStop
  /\ UNCHANGED <<handler, outbox, channel, log, evals>>

\* OpenAI: content and tool calls share the choice's deltas; calls arrive one
\* after the other, and all of them end together.
Ends == [i \in 1 .. Cardinality(openCalls) |-> EndEvent]

OpenAiContent == \E l \in Level : Emit(<<TextEvent(l)>>) /\ UNCHANGED <<call, frags, openCalls>>
OpenAiCall == NewCall(call + 1) /\ UNCHANGED frags
OpenAiArguments == NewFragment(call) /\ UNCHANGED <<call, openCalls>>
\* finish_reason "tool_calls": the end of every started call.
OpenAiFinish ==
  /\ openCalls # {} /\ Emit(Ends) /\ openCalls' = {}
  /\ UNCHANGED <<call, frags>>

OpenAi ==
  /\ Protocol = "openai"
  /\ Chunk
  /\ OpenAiContent \/ OpenAiCall \/ OpenAiArguments \/ OpenAiFinish
  /\ UNCHANGED <<block, closed, eof, handler, outbox, channel, log, evals>>

\* The body ends, perhaps in the middle of a block.  The OpenAI adapter then
\* emits the ends that are still missing.
BodyEnd ==
  /\ Polled
  /\ eof' = TRUE
  /\ IF Protocol = "openai" THEN Emit(Ends) /\ openCalls' = {}
                            ELSE UNCHANGED <<events, openCalls>>
  /\ UNCHANGED <<block, call, frags, closed, chunks, handler, outbox, channel, log, evals>>

Upstream == Anthropic \/ OpenAi \/ BodyEnd

-------------------------------------------------------------------------------
(* The handlers of inspect_and_forward.                                    *)

\* Feeding a text delta: it is appended, so that matches stay, two halves in a row
\* make one, and any other text after a half breaks it.
FeedText(buf, l) ==
  [buf EXCEPT !.text = (@ \ {"half"}) \cup (IF l = "half" /\ "half" \in @ THEN {"split"}
                                            ELSE {l} \ {"clean"})]

\* Severity of scanning the buffer: 0 is a clean verdict.
Scan(buf) == IF buf.text \cap {"crit", "split"} # {} THEN 70
             ELSE IF "warn" \in buf.text THEN 40 ELSE 0

\* The judge is asked about verdicts of the warn tier; without one, or when it
\* fails, nothing is escalated.
JudgeAnswers(sev) == IF 30 <= sev /\ sev < 60 THEN BOOLEAN ELSE {FALSE}

Worse(a, b) == IF a > b THEN a ELSE b

\* The next event is handled once everything the last handler sent is out.
Handling(ev) == outbox = <<>> /\ events # <<>> /\ Head(events).ev = ev

TextDelta ==
  /\ Handling("text")
  /\ LET buf == FeedText(insp, Head(events).level)
         sev == Scan(buf)
     IN  \E escalated \in JudgeAnswers(sev) :
           /\ insp' = buf
           /\ maxSev' = Worse(maxSev, IF escalated THEN 85 ELSE sev)
           /\ outbox' = << FrameOf(IF sev = 0 THEN "text" ELSE "textstub", NoCall, 0, toolIndex) >>
  /\ UNCHANGED <<toolBuf, toolInput, toolName, toolIndex, skip, blocked, strayed, evals>>

StartFrame == FrameOf("start", Head(events).call, 0, toolIndex)
StartStub  == FrameOf("stub", Head(events).call, 0, toolIndex)

\* A slip the checks must notice: the denied call is pushed and not skipped,
\* for want of the continue.
DenyCall_NoContinue ==
  /\ Head(events).call \in Denied
  /\ skip' = FALSE /\ toolBuf' = <<StartFrame>> /\ outbox' = <<StartStub>>
  /\ blocked' = blocked + 1 /\ maxSev' = Worse(maxSev, 80) /\ UNCHANGED toolIndex

\* Another: the denial is counted, and the call buffered like any other.
DenyCall_OnlyCounts ==
  /\ Head(events).call \in Denied
  /\ skip' = FALSE /\ toolBuf' = <<StartFrame>>
  /\ blocked' = blocked + 1 /\ maxSev' = Worse(maxSev, 80) /\ UNCHANGED <<toolIndex, outbox>>

\* The mcp policy blocks the tool, in both modes: it is replaced at once and
\* everything up to its end is skipped.
DenyCall ==
  /\ Head(events).call \in Denied
  /\ skip' = TRUE /\ toolBuf' = <<>> /\ outbox' = <<StartStub>>
  /\ blocked' = blocked + 1 /\ maxSev' = Worse(maxSev, 80) /\ toolIndex' = toolIndex + 1

\* Slips the checks must notice: the start frame sent before the verdict, a
\* buffer cleared after the push.
AdmitCall_Eager ==
  /\ Head(events).call \notin Denied
  /\ skip' = FALSE /\ toolBuf' = <<>> /\ outbox' = <<StartFrame>>
  /\ UNCHANGED <<blocked, maxSev, toolIndex>>
AdmitCall_ClearsLast ==
  /\ Head(events).call \notin Denied
  /\ skip' = FALSE /\ toolBuf' = <<>>
  /\ UNCHANGED <<blocked, maxSev, toolIndex, outbox>>

\* Any other call is buffered.
AdmitCall ==
  /\ Head(events).call \notin Denied
  /\ skip' = FALSE /\ toolBuf' = <<StartFrame>>
  /\ UNCHANGED <<blocked, maxSev, toolIndex, outbox>>

\* The policy is consulted before anything is buffered.
ToolUseStart ==
  /\ Handling("start")
  /\ toolName' = Head(events).call /\ toolInput' = <<>> /\ insp' = EmptyBuffer
  /\ DenyCall \/ AdmitCall
  /\ UNCHANGED <<strayed, evals>>

\* The frames of a call are buffered: those of the one being streamed, or of one
\* that was refused.
Buffered == \E i \in DOMAIN toolBuf : toolBuf[i].kind = "start"

\* Buffered, and not fed to the inspector.
ToolUseDelta ==
  LET f == Head(events).frag IN
  /\ Handling("delta")
  /\ IF skip THEN UNCHANGED <<toolInput, toolBuf>>
     ELSE /\ toolInput' = Append(toolInput, f)
          /\ toolBuf' = Append(toolBuf, FrameOf("delta", f.call, f.frag, toolIndex))
  /\ strayed' = (strayed \/ (f = Stray /\ Buffered))
  /\ UNCHANGED <<toolName, toolIndex, skip, insp, maxSev, blocked, outbox, evals>>

\* A slip the checks must notice: the end of a denied call counted once more.
SkippedEnd_CountsAgain ==
  /\ Handling("end") /\ skip
  /\ skip' = FALSE /\ insp' = EmptyBuffer
  /\ toolBuf' = <<>> /\ toolInput' = <<>> /\ toolName' = NoCall
  /\ toolIndex' = toolIndex + 1
  /\ UNCHANGED <<maxSev, blocked, strayed, outbox, evals>>

\* ToolUseEnd of a call the mcp policy denied.
SkippedEnd ==
  /\ Handling("end") /\ skip
  /\ skip' = FALSE /\ insp' = EmptyBuffer
  /\ toolBuf' = <<>> /\ toolInput' = <<>> /\ toolName' = NoCall
  /\ UNCHANGED <<toolIndex, maxSev, blocked, strayed, outbox, evals>>

\* The report refuses by itself, whatever the inspector's verdict.
Refuses(rep) == rep.decision \in {"quarantine", "block"} \/ rep.held

\* The reports the engine can produce for an observation: consistent (a chain
\* hit is a reason and forces its decision, a quarantine always has a reason;
\* a block of the user's own request may have none), and as strict as every earlier one.
Reports(name, input) ==
  {rep \in Report :
     /\ rep.chain > 0 => rep.noted /\ rep.decision \in {"quarantine", "block"}
     /\ rep.chain = 95 => rep.decision = "block"
     /\ rep.decision = "quarantine" => rep.noted
     /\ (\E e \in evals : e.name = name /\ e.input = input /\ e.defended) => Refuses(rep)}

\* max_severity after the end of a tool use: the verdict counts only when dirty,
\* the decision only when it came with reasons.
EndSeverity(sev, eff, rep) ==
  LET fromVerdict == IF sev > 0 THEN Worse(maxSev, eff) ELSE maxSev
      fromReasons == IF rep.noted /\ rep.decision # "allow" THEN Worse(fromVerdict, 70)
                     ELSE fromVerdict
  IN  Worse(fromReasons, rep.chain)

\* ToolUseEnd of any other block: verdict, judge, defence engine, quarantine
\* intake, and then either the stub or the buffered frames.
ToolUseEnd ==
  /\ Handling("end") /\ ~skip
  /\ LET sev == Scan(insp) IN
     \E escalated \in JudgeAnswers(sev), rep \in Reports(toolName, toolInput), stored \in BOOLEAN :
       LET quarantined == Mode = "block" /\ rep.decision = "quarantine" /\ stored
           eff0 == IF escalated THEN 85 ELSE sev
           eff  == IF quarantined THEN Worse(eff0, 70) ELSE eff0
           defended  == Mode = "block" /\ Refuses(rep)
           malicious == (sev > 0 /\ eff >= 60) \/ defended
           refused   == Mode = "block" /\ (malicious \/ quarantined)
       IN  /\ evals' = evals \cup {[name |-> toolName, input |-> toolInput,
                                    inspected |-> ToSet(toolInput) \subseteq insp.input,
                                    defended |-> defended, refused |-> refused]}
           /\ maxSev' = EndSeverity(sev, eff, rep)
           /\ \/ /\ refused
                 /\ blocked' = blocked + 1
                 /\ outbox' = << FrameOf("stub", toolName, 0, toolIndex) >>
                 /\ UNCHANGED toolBuf
              \/ /\ ~refused
                 /\ outbox' = Append(toolBuf, FrameOf("stop", toolName, 0, toolIndex))
                 /\ toolBuf' = <<>>
                 /\ UNCHANGED blocked
  /\ toolIndex' = toolIndex + 1
  /\ insp' = EmptyBuffer
  /\ UNCHANGED <<toolInput, toolName, skip, strayed>>

Raw ==
  /\ Handling("raw")
  /\ outbox' = << FrameOf("raw", NoCall, 0, 0) >>
  /\ UNCHANGED <<handler, evals>>

Handle ==
  /\ TextDelta \/ ToolUseStart \/ ToolUseDelta \/ SkippedEnd \/ ToolUseEnd \/ Raw
  /\ events' = Tail(events)
  /\ UNCHANGED <<upstream, channel, log>>

\* Slips the checks must notice: a send that drops the frame when the channel
\* is full, and one that waits out the error of a client that is gone.
Send_Drops ==
  /\ outbox # <<>>
  /\ out' = IF connected /\ Len(out) - read < ChanCap THEN Append(out, Head(outbox)) ELSE out
  /\ outbox' = Tail(outbox)
  /\ UNCHANGED <<upstream, events, handler, read, connected, log, evals>>
Send_AwaitsClient ==
  /\ outbox # <<>>
  /\ connected /\ Len(out) - read < ChanCap
  /\ out' = Append(out, Head(outbox))
  /\ outbox' = Tail(outbox)
  /\ UNCHANGED <<upstream, events, handler, read, connected, log, evals>>

\* tx.send().await: waits for room in the channel; once the receiver is
\* dropped it returns an error, which the handler ignores.
Send ==
  /\ outbox # <<>>
  /\ \/ connected /\ Len(out) - read < ChanCap /\ out' = Append(out, Head(outbox))
     \/ ~connected /\ UNCHANGED out
  /\ outbox' = Tail(outbox)
  /\ UNCHANGED <<upstream, events, handler, read, connected, log, evals>>

\* The loop ends with the adapter's stream; one line goes to the recorder.
Complete ==
  /\ eof /\ events = <<>> /\ outbox = <<>> /\ log = <<>>
  /\ log' = <<[severity |-> maxSev, blocked |-> blocked]>>
  /\ UNCHANGED <<upstream, events, handler, outbox, channel, evals>>

\* The client takes a frame, or goes away.
Receive == connected /\ read < Len(out) /\ read' = read + 1 /\ UNCHANGED <<out, connected>>
Disconnect == connected /\ log = <<>> /\ connected' = FALSE /\ UNCHANGED <<out, read>>

Client ==
  /\ Receive \/ Disconnect
  /\ UNCHANGED <<upstream, events, handler, outbox, log, evals>>

Next == Upstream \/ Handle \/ Send \/ Complete \/ Client

\* The body is in memory before the stream starts, so the adapter reaches its
\* end; tokio polls the task whenever it can proceed; the client is assumed to
\* keep reading or to leave.
Fairness == WF_vars(Upstream) /\ WF_vars(Handle) /\ WF_vars(Send) /\ WF_vars(Complete)
              /\ WF_vars(Client)

Spec == Init /\ [][Next]_vars
FairSpec == Spec /\ Fairness

-------------------------------------------------------------------------------
(* Properties.                                                             *)

\* The frames sent and about to be sent, in order.
Stream == out \o outbox

\* What became of a call: the client gets its frames, or its stub, or the proxy
\* still holds it.  (When a text block ends, a stub may carry the name of a call
\* that was passed.)  Once a refused call is lengthened by stray input nothing more
\* is promised (SubstitutedStaysOut), as when the client leaves.
Sent(kind, c) == \E i \in DOMAIN Stream : Stream[i].kind = kind /\ Stream[i].call = c
Fate(c) ==
  IF ~connected \/ strayed THEN "gone"
  ELSE IF Sent("start", c) THEN "passed"
  ELSE IF Sent("stub", c) THEN "replaced"
  ELSE IF c <= call THEN "held" ELSE "none"

ToolCalls == INSTANCE ToolGate WITH
  N <- MaxCalls, Blocked <- Denied, Blocking <- (Mode = "block"),
  fate <- [c \in Calls |-> Fate(c)]

TypeOK ==
  /\ block \in {"none", "text", "tool", "other"}
  /\ call \in Nat /\ frags \in [Calls -> 0 .. MaxFrags] /\ openCalls \subseteq Calls
  /\ closed \in Nat /\ chunks \in 0 .. MaxChunks /\ eof \in BOOLEAN
  /\ events \in Seq(Event)
  /\ toolBuf \in Seq(Frame) /\ toolInput \in Seq(Fragment)
  /\ toolName \in Calls \cup {NoCall} /\ toolIndex \in Nat /\ skip \in BOOLEAN
  /\ insp \in [text: SUBSET (Level \cup {"split"}), input: SUBSET Fragment]
  /\ maxSev \in Nat /\ blocked \in Nat
  /\ outbox \in Seq(Frame) /\ out \in Seq(Frame)
  /\ read \in Nat /\ connected \in BOOLEAN
  /\ log \in Seq([severity: Nat, blocked: Nat]) /\ strayed \in BOOLEAN
  /\ evals \subseteq [name: Calls \cup {NoCall}, input: Seq(Fragment),
                      inspected: BOOLEAN, defended: BOOLEAN, refused: BOOLEAN]

\* A tool_use reaches the client only if it was evaluated as a whole and not
\* refused: "Each tool_use is evaluated through all 9 layers before it reaches
\* your client" (src/README.md:83).
ForwardedWasEvaluated ==
  \A i \in DOMAIN Stream :
    Stream[i].kind = "start" => \E e \in evals : e.name = Stream[i].call /\ ~e.refused

\* "Substitute the tool_use with a safe stub; do not let it reach the client"
\* (src/src/defense.rs:32): one that was replaced is not forwarded afterwards.
SubstitutedStaysOut ==
  \A i, j \in DOMAIN Stream :
    i < j /\ Stream[i].kind = "stub" /\ Stream[j].kind = "start"
      => Stream[i].call # Stream[j].call

\* The frames of a replaced tool_use linger in tool_buf, and an end that belongs
\* to another block judges them again, under the old name and input: they stay
\* out, whatever comes between, unless input of a block that is no tool_use was
\* added to them, so that the engine is asked about something else.
RefusedStaysOut == ~strayed => SubstitutedStaysOut

\* A forwarded tool_use arrives whole: its start, every input fragment the
\* upstream sent for it, in order, and its stop, under one index and with
\* nothing in between, no input of another block either.  (What was refused and
\* then lengthened may come out late, and not alone.)
ForwardedWhole ==
  connected /\ ~strayed =>
    \A i \in DOMAIN Stream : Stream[i].kind = "start" =>
      LET c == Stream[i].call
          n == frags[c]
      IN  /\ i + n + 1 <= Len(Stream)
          /\ \A k \in 1 .. n : Stream[i + k] = FrameOf("delta", c, k, Stream[i].idx)
          /\ Stream[i + n + 1] = FrameOf("stop", c, 0, Stream[i].idx)

\* "buffers each tool_use block until it is complete" (src/src/proxy.rs:5-6) and
\* then gives it to the client or replaces it: adapter, handlers and channel
\* together are a gate that settles each call once, before the next begins,
\* never gives a denied one, and in monitor mode replaces no other; until stray
\* input is added to a call that was refused.
StreamIsToolGate == ToolCalls!Spec

\* When the stream is complete, every tool_use that ended was answered with
\* its own frames or with a stub.  The buffer holds one call at a time, so a
\* second call that starts first takes the place of the one before.
CallsAnswered ==
  log # <<>> /\ connected =>
    \A c \in (1 .. call) \ openCalls :
      \E i \in DOMAIN Stream : Stream[i].call = c /\ Stream[i].kind \in {"start", "stub"}

\* The index of the frames the proxy makes is the index of the upstream's
\* block: Raw frames keep the upstream's, so the client would otherwise see a
\* stop for another block than the start.  A denied call is counted when it
\* starts, every other block when it stops.
IndexAligned == events = <<>> => toolIndex = closed + (IF skip THEN 1 ELSE 0)

\* The stream is always brought to its end and recorded, also when the client
\* leaves while frames are waiting for room in the channel.
StreamEnds == <>(log # <<>>)

\* Each tool_use block is buffered "so the inspector sees reassembled input"
\* (src/src/proxy.rs:5-6): the verdict covers the input that is evaluated.
InspectorSeesInput == \A e \in evals : e.inspected
==============================================================================
