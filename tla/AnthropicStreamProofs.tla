------------------------- MODULE AnthropicStreamProofs -------------------------
(***************************************************************************)
(* Proofs about ProxyStream behind the Anthropic adapter, for both modes   *)
(* and every bound: the proxy's block index keeps step with the            *)
(* upstream's, and every tool use that ended is answered; and until input  *)
(* of a block that is no tool_use lengthens a refused one (strayed), a     *)
(* tool use that was replaced is not forwarded later, one that is          *)
(* forwarded arrives whole, and the stream is a gate for whole tool calls  *)
(* (ToolGate).                                                             *)
(***************************************************************************)
EXTENDS ProxyStreamProofs

\* The adapter and the handler take turns: one event at a time, of the block the
\* upstream is in, and counted on both sides.
InTurn ==
  /\ events = <<>> \/ \E e \in Event : events = <<e>>
  /\ Pending("text") => block = "text"
  /\ Pending("start") => block = "tool" /\ Head(events).call = call /\ ~skip
  /\ Pending("delta") => block = "tool" \/ (block = "other" /\ Head(events).frag = Stray)
  /\ Pending("end") => block = "none"
  /\ skip => block = "tool" \/ Pending("end")
  /\ toolIndex + (IF Pending("end") THEN 1 ELSE 0) = closed + (IF skip THEN 1 ELSE 0)

AInv == TypeOK /\ InTurn

-------------------------------------------------------------------------------
(* The adapter and the handler in turn.                                    *)

LEMMA InTurnUpstream ==
  ASSUME AInv, Upstream, Protocol = "anthropic"
  PROVE  InTurn'
<1>1. /\ events = <<>> /\ UNCHANGED <<toolIndex, skip>>
      /\ closed \in Nat /\ toolIndex \in Nat /\ call \in Nat /\ skip \in BOOLEAN
  BY DEF Upstream, Anthropic, OpenAi, BodyEnd, Chunk, Polled, AnthropicStart, AnthropicDelta,
         AnthropicStop, handler, AInv, TypeOK
<1>2. /\ skip => block = "tool"
      /\ toolIndex = closed + (IF skip THEN 1 ELSE 0)
  BY <1>1 DEF AInv, InTurn, Pending
<1>3. RawEvent \in Event /\ EndEvent \in Event /\ \A l \in Level : TextEvent(l) \in Event
  BY DEF Event, RawEvent, EndEvent, TextEvent
<1>4. ASSUME NEW e \in Event, events' = <<e>>, closed' = closed,
             skip => block' = "tool",
             e.ev = "text" => block' = "text",
             e.ev = "start" => block' = "tool" /\ e.call = call' /\ ~skip,
             e.ev = "delta" => block' = "tool" \/ (block' = "other" /\ e.frag = Stray),
             e.ev # "end"
      PROVE  InTurn'
  <2>1. events' # <<>> /\ Head(events') = e
    BY <1>4
  <2> QED
    BY <1>1, <1>2, <1>4, <2>1 DEF InTurn, Pending
<1>5. CASE AnthropicStart
  <2>1. block = "none" /\ closed' = closed /\ ~skip
    BY <1>2, <1>5 DEF AnthropicStart
  <2>2. CASE block' = "text" /\ events' = <<TextEvent("clean")>>
    <3>1. TextEvent("clean") \in Event /\ TextEvent("clean").ev = "text"
      BY <1>3 DEF Level, TextEvent
    <3> QED
      BY <1>4, <2>1, <2>2, <3>1
  <2>3. CASE block' = "other" /\ events' = <<RawEvent>>
    <3>1. RawEvent.ev = "raw"
      BY DEF RawEvent
    <3> QED
      BY <1>3, <1>4, <2>1, <2>3, <3>1
  <2>4. CASE block' = "tool" /\ NewCall(call + 1)
    <3>1. call' \in Calls /\ events' = <<StartEvent(call')>>
      BY <2>4 DEF NewCall, Emit
    <3>2. StartEvent(call') \in Event /\ StartEvent(call').ev = "start" /\ StartEvent(call').call = call'
      BY <3>1 DEF StartEvent, Event
    <3> QED
      BY <1>4, <2>1, <2>4, <3>1, <3>2
  <2> QED
    BY <1>5, <2>2, <2>3, <2>4 DEF AnthropicStart, Emit
<1>6. CASE AnthropicDelta
  <2>1. block' = block /\ closed' = closed /\ (skip => block = "tool")
    BY <1>2, <1>6 DEF AnthropicDelta
  <2>2. ASSUME NEW l \in Level, block = "text", events' = <<TextEvent(l)>> PROVE InTurn'
    <3>1. TextEvent(l) \in Event /\ TextEvent(l).ev = "text"
      BY <1>3 DEF TextEvent
    <3> QED
      BY <1>4, <2>1, <2>2, <3>1
  <2>3. CASE block = "other" /\ events' = <<RawEvent>>
    <3>1. RawEvent.ev = "raw"
      BY DEF RawEvent
    <3> QED
      BY <1>3, <1>4, <2>1, <2>3, <3>1
  <2>5. CASE block = "other" /\ events' = <<StrayEvent>>
    <3>1. StrayEvent \in Event /\ StrayEvent.ev = "delta" /\ StrayEvent.frag = Stray
      BY DEF StrayEvent, Event, Fragment
    <3> QED
      BY <1>4, <2>1, <2>5, <3>1
  <2>4. CASE block = "tool" /\ NewFragment(call)
    <3>1. call \in Calls /\ frags[call] \in Nat /\ frags[call] < MaxFrags /\ events' = <<DeltaEvent(call)>>
      BY <2>4, ProxyStreamAssumption DEF NewFragment, Emit, AInv, TypeOK
    <3>2. frags[call] + 1 \in 1 .. MaxFrags
      BY <3>1, ProxyStreamAssumption
    <3>3. DeltaEvent(call) \in Event /\ DeltaEvent(call).ev = "delta"
      BY <3>1, <3>2 DEF DeltaEvent, Event, Fragment
    <3> QED
      BY <1>4, <2>1, <2>4, <3>1, <3>3
  <2> QED
    BY <1>6, <2>2, <2>3, <2>4, <2>5 DEF AnthropicDelta, Emit
<1>7. CASE AnthropicStop
  <2>1. block' = "none" /\ closed' = closed + 1 /\ events' = <<EndEvent>>
    BY <1>7 DEF AnthropicStop, Emit
  <2>2. events' # <<>> /\ Head(events').ev = "end"
    BY <2>1 DEF EndEvent
  <2> QED
    BY <1>1, <1>2, <1>3, <2>1, <2>2 DEF InTurn, Pending
<1>8. CASE BodyEnd
  <2>1. UNCHANGED <<events, block, closed, call>>
    BY <1>8 DEF BodyEnd
  <2> QED
    BY <1>1, <2>1 DEF AInv, InTurn, Pending
<1>9. AnthropicStart \/ AnthropicDelta \/ AnthropicStop \/ BodyEnd
  BY Zenon DEF Upstream, Anthropic, OpenAi
<1> QED
  BY <1>5, <1>6, <1>7, <1>8, <1>9

LEMMA InTurnHandle ==
  ASSUME AInv, Handle
  PROVE  InTurn'
<1>1. events # <<>> /\ events' = Tail(events) /\ UNCHANGED <<block, closed, call>>
  BY DEF Handle, TextDelta, ToolUseStart, ToolUseDelta, SkippedEnd, ToolUseEnd, Raw, Handling, upstream
<1>2. events' = <<>>
  <2>1. PICK e \in Event : events = <<e>>
    BY <1>1 DEF AInv, InTurn
  <2> QED
    BY <1>1, <2>1
<1>3. closed \in Nat /\ toolIndex \in Nat /\ skip \in BOOLEAN
  BY DEF AInv, TypeOK
<1>4. CASE (TextDelta \/ ToolUseDelta \/ Raw)
  <2>1. UNCHANGED <<toolIndex, skip>> /\ ~Pending("end")
    BY <1>4 DEF TextDelta, ToolUseDelta, Raw, Handling, handler, Pending
  <2> QED
    BY <1>1, <1>2, <1>3, <2>1 DEF AInv, InTurn, Pending
<1>5. CASE ToolUseStart
  <2>1. Pending("start") /\ ~Pending("end")
    BY <1>5 DEF ToolUseStart, Handling, Pending
  <2>2. toolIndex = closed /\ block = "tool" /\ ~skip
    BY <1>3, <2>1 DEF AInv, InTurn
  <2>3. \/ skip' = TRUE /\ toolIndex' = toolIndex + 1
        \/ skip' = FALSE /\ toolIndex' = toolIndex
    BY <1>5 DEF ToolUseStart, DenyCall, AdmitCall
  <2> QED
    BY <1>1, <1>2, <1>3, <2>2, <2>3 DEF InTurn, Pending
<1>6. CASE SkippedEnd
  <2>1. Pending("end") /\ skip /\ skip' = FALSE /\ toolIndex' = toolIndex
    BY <1>6 DEF SkippedEnd, Handling, Pending
  <2>2. toolIndex + 1 = closed + 1
    BY <1>3, <2>1 DEF AInv, InTurn
  <2> QED
    BY <1>1, <1>2, <1>3, <2>1, <2>2 DEF InTurn, Pending
<1>7. CASE ToolUseEnd
  <2>1. Pending("end") /\ ~skip /\ skip' = skip /\ toolIndex' = toolIndex + 1
    BY <1>7 DEF ToolUseEnd, Handling, Pending
  <2>2. toolIndex + 1 = closed + 0
    BY <1>3, <2>1 DEF AInv, InTurn
  <2> QED
    BY <1>1, <1>2, <1>3, <2>1, <2>2 DEF InTurn, Pending
<1> QED
  BY <1>4, <1>5, <1>6, <1>7 DEF Handle

LEMMA InTurnStep ==
  ASSUME AInv, [Next]_vars, Protocol = "anthropic"
  PROVE  InTurn'
<1>1. CASE Send \/ Complete \/ Client \/ UNCHANGED vars
  <2>1. UNCHANGED <<events, block, call, closed, toolIndex, skip>>
    BY <1>1 DEF Send, Complete, Client, vars, upstream, handler
  <2> QED
    BY <2>1 DEF AInv, InTurn, Pending
<1> QED
  BY <1>1, InTurnUpstream, InTurnHandle DEF Next

LEMMA InTurnAlways == Protocol = "anthropic" => (Spec => []AInv)
<1> SUFFICES ASSUME Protocol = "anthropic" PROVE Spec => []AInv
  OBVIOUS
<1>1. Init => AInv
  BY InitType DEF Init, AInv, InTurn, Pending
<1>2. AInv /\ [Next]_vars => AInv'
  BY InTurnStep, NextType DEF AInv
<1> QED
  BY <1>1, <1>2, PTL DEF Spec

\* The index of the frames the proxy makes is the index of the upstream's block,
\* with denied, refused, forwarded and other blocks in any number and order
\* (src/src/proxy.rs:686, :840): only the Anthropic adapter numbers its blocks.
THEOREM IndexKept == Protocol = "anthropic" => (Spec => []IndexAligned)
<1>1. AInv => IndexAligned
  BY DEF AInv, TypeOK, InTurn, Pending, IndexAligned
<1> QED
  BY <1>1, InTurnAlways, PTL

-------------------------------------------------------------------------------
(* What was replaced and what is still buffered.                           *)

StubIn(frames, c) == \E i \in DOMAIN frames : frames[i].kind = "stub" /\ frames[i].call = c

\* The engine refused what the next end would evaluate, and so will refuse it again.
Defended == \E e \in evals : e.name = toolName /\ e.input = toolInput /\ e.defended

Apart(frames) ==
  \A i, j \in DOMAIN frames :
    i < j /\ frames[i].kind = "stub" /\ frames[j].kind = "start" => frames[i].call # frames[j].call

\* What is buffered is the call being streamed, of which the inspector was fed
\* nothing, or one the engine refused: only in the second case is its stub out.
BufferedJudged ==
  Buffered =>
    /\ Defended \/ (insp = EmptyBuffer /\ (block = "tool" \/ Pending("end")))
    /\ StubIn(Stream, toolName) => Defended /\ (block = "tool" => Pending("start"))

\* Stubs are of calls that have started, and a call that starts is a new one.
StubsBefore ==
  /\ toolName <= call /\ (Pending("start") => toolName < call)
  /\ \A c \in Nat : StubIn(Stream, c) => c <= call /\ (Pending("start") => c < call)

RefusalInv ==
  /\ \A i \in DOMAIN toolBuf : toolBuf[i].kind # "stub"
  /\ block = "tool" /\ ~Pending("start") => insp = EmptyBuffer
  /\ Buffered => ~skip
  /\ StubsBefore
  /\ \A e \in evals : e.defended => Mode = "block"
  /\ ~strayed => BufferedJudged /\ Apart(Stream)

RInv == AInv /\ GateInv /\ RefusalInv

LEMMA StubInConcat ==
  ASSUME NEW s \in Seq(Frame), NEW t \in Seq(Frame), NEW c, StubIn(s \o t, c)
  PROVE  StubIn(s, c) \/ StubIn(t, c)
  BY ConcatElements DEF StubIn

\* Frames are appended that start no call a stub is out for, or among them.
LEMMA ApartConcat ==
  ASSUME NEW s \in Seq(Frame), NEW t \in Seq(Frame), Apart(s),
         \A j \in DOMAIN t : t[j].kind = "start" =>
           ~StubIn(s, t[j].call) /\ ~StubIn(t, t[j].call)
  PROVE  Apart(s \o t)
<1> DEFINE u == s \o t
<1> SUFFICES ASSUME NEW i \in DOMAIN u, NEW j \in DOMAIN u, i < j,
                    u[i].kind = "stub", u[j].kind = "start", u[i].call = u[j].call
             PROVE  FALSE
  BY DEF Apart
<1>1. \/ i \in DOMAIN s /\ u[i] = s[i]
      \/ i > Len(s) /\ i - Len(s) \in DOMAIN t /\ u[i] = t[i - Len(s)]
  BY ConcatElements
<1>2. \/ j \in DOMAIN s /\ u[j] = s[j]
      \/ j > Len(s) /\ j - Len(s) \in DOMAIN t /\ u[j] = t[j - Len(s)]
  BY ConcatElements
<1>0. i \in Nat /\ j \in Nat /\ Len(s) \in Nat /\ DOMAIN s = 1 .. Len(s)
  BY ConcatElements
<1> HIDE DEF u
<1>3. CASE j \in DOMAIN s /\ u[j] = s[j]
  <2>1. j <= Len(s)
    BY <1>0, <1>3
  <2>2. i \in DOMAIN s /\ u[i] = s[i]
    BY <1>0, <1>1, <2>1
  <2> QED
    BY <1>3, <2>2 DEF Apart
<1>4. CASE j > Len(s) /\ j - Len(s) \in DOMAIN t /\ u[j] = t[j - Len(s)]
  <2>1. StubIn(s, u[i].call) \/ StubIn(t, u[i].call)
    BY <1>1 DEF StubIn
  <2>2. t[j - Len(s)].kind = "start" /\ t[j - Len(s)].call = u[i].call
    BY <1>4
  <2> QED
    BY <1>4, <2>1, <2>2
<1> QED
  BY <1>2, <1>3, <1>4

\* A frame that is lost on the way disturbs nothing about the others.
LEMMA ApartWithout ==
  ASSUME NEW s \in Seq(Frame), NEW t \in Seq(Frame), t # <<>>
  PROVE  /\ Apart(s \o t) => Apart(s \o Tail(t))
         /\ \A c : StubIn(s \o Tail(t), c) => StubIn(s \o t, c)
<1> DEFINE u == s \o Tail(t)
           w == s \o t
           at(i) == IF i <= Len(s) THEN i ELSE i + 1
<1>1. \A i \in DOMAIN u : at(i) \in DOMAIN w /\ u[i] = w[at(i)]
  OBVIOUS
<1>2. \A i, j \in DOMAIN u : i < j => at(i) < at(j)
  OBVIOUS
<1> HIDE DEF u, w, at
<1>3. Apart(w) => Apart(u)
  BY <1>1, <1>2 DEF Apart
<1>4. \A c : StubIn(u, c) => StubIn(w, c)
  BY <1>1 DEF StubIn
<1> QED
  BY <1>3, <1>4 DEF u, w

-------------------------------------------------------------------------------
(* The steps.                                                              *)

\* The adapter: a block that starts while a tool use is still buffered finds it
\* refused, and a call that starts is one more.
LEMMA RefusalUpstream ==
  ASSUME RInv, Upstream, Protocol = "anthropic"
  PROVE  RefusalInv'
<1>1. /\ events = <<>>
      /\ UNCHANGED <<toolBuf, toolInput, toolName, skip, insp, strayed, out, outbox, evals>>
  BY DEF Upstream, Anthropic, OpenAi, BodyEnd, Chunk, Polled, AnthropicStart, AnthropicDelta,
         AnthropicStop, handler, channel
<1>2. \/ AnthropicStart \/ AnthropicDelta \/ AnthropicStop \/ BodyEnd
  BY Zenon DEF Upstream, Anthropic, OpenAi
<1>3. Stream' = Stream
  BY <1>1 DEF Stream
<1>4. /\ call \in Nat /\ toolName <= call /\ toolName \in Nat
      /\ \A c \in Nat : StubIn(Stream, c) => c <= call
  <2>1. call \in Nat /\ toolName \in Calls \cup {NoCall}
    BY DEF RInv, AInv, TypeOK
  <2>2. toolName \in Nat
    BY <2>1, ProxyStreamAssumption DEF Calls, NoCall
  <2> QED
    BY <2>1, <2>2 DEF RInv, RefusalInv, StubsBefore
<1>5. /\ ~strayed /\ Buffered => Defended \/ (insp = EmptyBuffer /\ block = "tool")
      /\ Buffered => ~skip
      /\ ~strayed /\ Buffered /\ StubIn(Stream, toolName) => Defended /\ block # "tool"
      /\ block = "tool" => insp = EmptyBuffer
  BY <1>1 DEF RInv, RefusalInv, BufferedJudged, Pending
<1>6. \/ call' = call /\ ~Pending("start")' /\ (block' = "tool" => block = "tool")
      \/ call' = call + 1 /\ Pending("start")' /\ block = "none" /\ block' = "tool"
  <2>1. CASE AnthropicStart
    <3>1. CASE block' # "tool" /\ call' = call /\ \E e \in {TextEvent("clean"), RawEvent} : events' = <<e>>
      BY <3>1 DEF Pending, TextEvent, RawEvent
    <3>2. CASE block' = "tool" /\ NewCall(call + 1)
      <4>1. call' = call + 1 /\ events' = <<StartEvent(call + 1)>> /\ block = "none"
        BY <2>1, <3>2 DEF NewCall, Emit, AnthropicStart
      <4> QED
        BY <3>2, <4>1 DEF Pending, StartEvent
    <3> QED
      BY <2>1, <3>1, <3>2 DEF AnthropicStart, Emit
  <2>2. CASE AnthropicDelta
    <3>1. block' = block /\ call' = call
      BY <2>2 DEF AnthropicDelta
    <3>2. \E e : events' = <<e>> /\ e.ev # "start"
      BY <2>2 DEF AnthropicDelta, NewFragment, Emit, TextEvent, RawEvent, StrayEvent, DeltaEvent
    <3> QED
      BY <3>1, <3>2 DEF Pending
  <2>3. CASE AnthropicStop
    <3>1. block' = "none" /\ call' = call /\ events' = <<EndEvent>>
      BY <2>3 DEF AnthropicStop, Emit
    <3> QED
      BY <3>1 DEF Pending, EndEvent
  <2>4. CASE BodyEnd
    BY <1>1, <2>4 DEF BodyEnd, Pending
  <2> QED
    BY <1>2, <2>1, <2>2, <2>3, <2>4
<1>7. block = "tool" => block' = "tool" \/ Pending("end")'
  <2>1. CASE AnthropicStop
    <3>1. events' = <<EndEvent>>
      BY <2>1 DEF AnthropicStop, Emit
    <3> QED
      BY <3>1 DEF Pending, EndEvent
  <2>2. CASE AnthropicStart \/ AnthropicDelta \/ BodyEnd
    BY <2>2 DEF AnthropicStart, AnthropicDelta, BodyEnd
  <2> QED
    BY <1>2, <2>1, <2>2
<1>8. Buffered' = Buffered /\ Defended' = Defended
  BY <1>1 DEF Buffered, Defended
<1>9. /\ ~strayed' => BufferedJudged'
      /\ Buffered' => ~skip'
  BY <1>1, <1>3, <1>5, <1>6, <1>7, <1>8 DEF BufferedJudged
<1>10. StubsBefore'
  BY <1>1, <1>3, <1>4, <1>6 DEF StubsBefore
<1>11. block' = "tool" /\ ~Pending("start")' => insp' = EmptyBuffer
  BY <1>1, <1>5, <1>6
<1> QED
  BY <1>1, <1>3, <1>9, <1>10, <1>11 DEF RInv, RefusalInv

\* What the handler finds: nothing left to send, and after it no event.
LEMMA HandleBasics ==
  ASSUME RInv, Handle, outbox' \in Seq(Frame)
  PROVE  /\ events # <<>> /\ outbox = <<>> /\ events' = <<>> /\ Stream = out
         /\ Stream' = Stream \o outbox'
         /\ UNCHANGED <<block, call>> /\ Stream \in Seq(Frame)
         /\ \A ev : ~Pending(ev)'
         /\ ~ToolUseDelta => strayed' = strayed
<1>0. ~ToolUseDelta => strayed' = strayed
  BY DEF Handle, TextDelta, ToolUseStart, SkippedEnd, ToolUseEnd, Raw, handler
<1>1. events # <<>> /\ outbox = <<>> /\ events' = Tail(events) /\ UNCHANGED <<block, call, out>>
  BY DEF Handle, TextDelta, ToolUseStart, ToolUseDelta, SkippedEnd, ToolUseEnd, Raw, Handling,
         upstream, channel
<1>2. events' = <<>>
  <2>1. PICK e \in Event : events = <<e>>
    BY <1>1 DEF RInv, AInv, InTurn
  <2> QED
    BY <1>1, <2>1
<1>3. out \in Seq(Frame)
  BY DEF RInv, AInv, TypeOK
<1>4. Stream = out
  BY <1>1, <1>3 DEF Stream
<1>5. Stream' = out \o outbox'
  BY <1>1 DEF Stream
<1> QED
  BY <1>0, <1>1, <1>2, <1>3, <1>4, <1>5 DEF Pending

\* One frame that is no start and no stub changes nothing for the stubs.
LEMMA PlainFrame ==
  ASSUME NEW s \in Seq(Frame), NEW f \in Frame, f.kind # "start"
  PROVE  /\ Apart(s) => Apart(s \o <<f>>)
         /\ \A c : StubIn(s \o <<f>>, c) => StubIn(s, c) \/ (f.kind = "stub" /\ f.call = c)
<1>1. <<f>> \in Seq(Frame) /\ DOMAIN <<f>> = {1} /\ <<f>>[1] = f
  OBVIOUS
<1>2. Apart(s) => Apart(s \o <<f>>)
  BY <1>1, ApartConcat
<1>3. \A c : StubIn(<<f>>, c) => f.kind = "stub" /\ f.call = c
  BY <1>1 DEF StubIn
<1> QED
  BY <1>1, <1>2, <1>3, StubInConcat

LEMMA RefusalText ==
  ASSUME RInv, TextDelta, Handle
  PROVE  RefusalInv'
<1>1. PICK k \in {"text", "textstub"} : outbox' = << FrameOf(k, NoCall, 0, toolIndex) >>
  BY DEF TextDelta
<1> DEFINE f == FrameOf(k, NoCall, 0, toolIndex)
<1>2. f \in Frame /\ f.kind \notin {"start", "stub"}
  <2>1. f \in Frame
    BY WholeFrameType DEF RInv, AInv, TypeOK
  <2> QED
    BY <2>1 DEF FrameOf
<1>3. outbox' = <<f>> /\ <<f>> \in Seq(Frame)
  BY <1>1, <1>2
<1> HIDE DEF f
<1>4. /\ Stream \in Seq(Frame) /\ Stream' = Stream \o <<f>>
      /\ UNCHANGED <<block, call>> /\ \A ev : ~Pending(ev)'
  BY <1>3, HandleBasics
<1>5. (~strayed => Apart(Stream')) /\ \A c : StubIn(Stream', c) => StubIn(Stream, c)
  BY <1>2, <1>4, PlainFrame DEF RInv, RefusalInv
<1>6. UNCHANGED <<toolBuf, toolInput, toolName, skip, strayed, evals>>
  BY DEF TextDelta
<1>7. block = "text" /\ ~Pending("end") /\ ~Pending("start")
  BY DEF RInv, AInv, InTurn, TextDelta, Handling, Pending
<1>8. Buffered' = Buffered /\ Defended' = Defended
  BY <1>6 DEF Buffered, Defended
<1>9. ~strayed' => BufferedJudged'
  BY <1>4, <1>5, <1>6, <1>7, <1>8 DEF RInv, RefusalInv, BufferedJudged
<1>10. StubsBefore'
  BY <1>4, <1>5, <1>6, <1>7 DEF RInv, RefusalInv, StubsBefore
<1> QED
  BY <1>4, <1>5, <1>6, <1>7, <1>8, <1>9, <1>10 DEF RInv, RefusalInv

LEMMA RefusalRaw ==
  ASSUME RInv, Raw, Handle
  PROVE  RefusalInv'
<1> DEFINE f == FrameOf("raw", NoCall, 0, 0)
<1>2. f \in Frame /\ f.kind \notin {"start", "stub"}
  <2>1. f \in Frame
    BY WholeFrameType
  <2> QED
    BY <2>1 DEF FrameOf
<1>3. outbox' = <<f>> /\ <<f>> \in Seq(Frame)
  BY <1>2 DEF Raw
<1> HIDE DEF f
<1>4. /\ Stream \in Seq(Frame) /\ Stream' = Stream \o <<f>>
      /\ UNCHANGED <<block, call>> /\ \A ev : ~Pending(ev)'
  BY <1>3, HandleBasics
<1>5. (~strayed => Apart(Stream')) /\ \A c : StubIn(Stream', c) => StubIn(Stream, c)
  BY <1>2, <1>4, PlainFrame DEF RInv, RefusalInv
<1>6. UNCHANGED <<toolBuf, toolInput, toolName, skip, insp, strayed, evals>>
  BY DEF Raw, handler
<1>7. ~Pending("end") /\ ~Pending("start")
  BY DEF Raw, Handling, Pending
<1>8. Buffered' = Buffered /\ Defended' = Defended
  BY <1>6 DEF Buffered, Defended
<1>9. ~strayed' => BufferedJudged'
  BY <1>4, <1>5, <1>6, <1>7, <1>8 DEF RInv, RefusalInv, BufferedJudged
<1>10. StubsBefore'
  BY <1>4, <1>5, <1>6, <1>7 DEF RInv, RefusalInv, StubsBefore
<1> QED
  BY <1>4, <1>5, <1>6, <1>7, <1>8, <1>9, <1>10 DEF RInv, RefusalInv

\* The new call's number is above that of every stub; what was buffered is gone.
LEMMA RefusalStart ==
  ASSUME RInv, ToolUseStart, Handle
  PROVE  RefusalInv'
<1>1. /\ Pending("start") /\ block = "tool" /\ Head(events).call = call
      /\ toolName' = call /\ insp' = EmptyBuffer /\ UNCHANGED <<strayed, evals>>
      /\ call \in Nat /\ outbox = <<>>
  BY DEF RInv, AInv, TypeOK, InTurn, ToolUseStart, Handling, Pending
<1>2. outbox' \in Seq(Frame) /\ toolName' \in Calls
  BY ToolUseStartType DEF RInv, AInv
<1>3. /\ Stream \in Seq(Frame) /\ Stream' = Stream \o outbox'
      /\ UNCHANGED <<block, call>> /\ \A ev : ~Pending(ev)'
  BY <1>2, HandleBasics
<1>4. (~strayed => Apart(Stream)) /\ \A c \in Nat : StubIn(Stream, c) => c < call
  BY <1>1 DEF RInv, RefusalInv, StubsBefore
<1>5. CASE DenyCall
  <2>1. outbox' = <<StartStub>> /\ toolBuf' = <<>>
    BY <1>5 DEF DenyCall
  <2>2. StartStub \in Frame /\ StartStub.kind = "stub" /\ StartStub.call = call
    <3>1. StartStub = FrameOf("stub", call, 0, toolIndex)
      BY <1>1 DEF StartStub
    <3>2. call \in Calls \cup {NoCall} /\ toolIndex \in Nat
      BY <1>1, <1>2 DEF RInv, AInv, TypeOK
    <3>3. FrameOf("stub", call, 0, toolIndex) \in Frame
      BY <3>2, WholeFrameType
    <3> QED
      BY <3>1, <3>3 DEF FrameOf
  <2>3. (~strayed => Apart(Stream')) /\ \A c : StubIn(Stream', c) => StubIn(Stream, c) \/ c = call
    BY <1>3, <1>4, <2>1, <2>2, PlainFrame
  <2>4. ~Buffered'
    BY <2>1 DEF Buffered
  <2>5. StubsBefore'
    BY <1>1, <1>3, <1>4, <2>3 DEF StubsBefore
  <2> QED
    BY <1>1, <2>1, <2>3, <2>4, <2>5 DEF RInv, RefusalInv, BufferedJudged
<1>6. CASE AdmitCall
  <2>1. outbox' = <<>> /\ toolBuf' = <<StartFrame>> /\ skip' = FALSE
    BY <1>1, <1>6 DEF AdmitCall
  <2>2. Stream' = Stream
    BY <1>3, <2>1
  <2>3. StartFrame.kind = "start"
    BY DEF StartFrame, FrameOf
  <2>4. \A i \in DOMAIN toolBuf' : toolBuf'[i].kind # "stub"
    BY <2>1, <2>3
  <2>5. ~StubIn(Stream', toolName')
    BY <1>1, <1>4, <2>2
  <2>6. BufferedJudged'
    BY <1>1, <1>3, <2>1, <2>5 DEF BufferedJudged
  <2>7. StubsBefore'
    BY <1>1, <1>3, <1>4, <2>2 DEF StubsBefore
  <2>8. (~strayed' => Apart(Stream')) /\ \A e \in evals' : e.defended => Mode = "block"
    BY <1>1, <1>4, <2>2 DEF RInv, RefusalInv
  <2>9. (Buffered' => ~skip') /\ (block' = "tool" /\ ~Pending("start")' => insp' = EmptyBuffer)
    BY <1>1, <2>1
  <2> QED
    BY <2>4, <2>6, <2>7, <2>8, <2>9 DEF RefusalInv
<1> QED
  BY <1>5, <1>6 DEF ToolUseStart

\* The input grows of a call that is not yet judged, and has no stub.  Input of
\* a block that is no tool_use finds no call in the buffer, or a refused one.
LEMMA RefusalDelta ==
  ASSUME RInv, ToolUseDelta, Handle
  PROVE  RefusalInv'
<1> DEFINE f == FrameOf("delta", Head(events).frag.call, Head(events).frag.frag, toolIndex)
<1>1. /\ ~Pending("start") /\ ~Pending("end")
      /\ outbox' = <<>> /\ UNCHANGED <<toolName, skip, insp, evals>>
      /\ block = "tool" \/ (block = "other" /\ Head(events).frag = Stray)
  BY DEF RInv, AInv, InTurn, ToolUseDelta, Handling, Pending
<1>s. /\ strayed' = (strayed \/ (Head(events).frag = Stray /\ Buffered))
      /\ strayed \in BOOLEAN
  BY Zenon DEF ToolUseDelta, RInv, AInv, TypeOK
<1>2. outbox' \in Seq(Frame)
  BY <1>1
<1>3. /\ Stream' = Stream /\ UNCHANGED <<block, call>> /\ \A ev : ~Pending(ev)'
  BY <1>1, <1>2, HandleBasics
<1>4. block = "tool" => insp = EmptyBuffer
  BY <1>1 DEF RInv, RefusalInv
<1>5. toolBuf \in Seq(Frame) /\ f.kind = "delta"
  BY DEF RInv, AInv, TypeOK, FrameOf
<1>6. toolBuf' = toolBuf \/ toolBuf' = Append(toolBuf, f)
  BY DEF ToolUseDelta
<1> HIDE DEF f
<1>7. \A i \in DOMAIN toolBuf' : (i \in DOMAIN toolBuf /\ toolBuf'[i] = toolBuf[i]) \/ toolBuf'[i] = f
  BY <1>5, <1>6
<1>8. Buffered' => Buffered
  BY <1>5, <1>7 DEF Buffered
<1>9. \A i \in DOMAIN toolBuf' : toolBuf'[i].kind # "stub"
  BY <1>5, <1>7 DEF RInv, RefusalInv
<1>10. /\ Buffered => ~skip
       /\ ~strayed /\ Buffered /\ block = "tool" => ~StubIn(Stream, toolName)
  BY <1>1 DEF RInv, RefusalInv, BufferedJudged
<1>11. ~strayed' => BufferedJudged'
  <2> SUFFICES ASSUME ~strayed', Buffered' PROVE BufferedJudged'
    BY DEF BufferedJudged
  <2>1. ~strayed /\ Buffered /\ block = "tool"
    BY <1>1, <1>s, <1>8
  <2>2. insp' = EmptyBuffer /\ block' = "tool" /\ ~StubIn(Stream', toolName')
    BY <1>1, <1>3, <1>4, <1>10, <2>1
  <2> QED
    BY <2>2 DEF BufferedJudged
<1>12. StubsBefore'
  BY <1>1, <1>3 DEF RInv, RefusalInv, StubsBefore
<1>13. ~strayed' => Apart(Stream')
  BY <1>3, <1>s DEF RInv, RefusalInv
<1>14. Buffered' => ~skip'
  BY <1>1, <1>8, <1>10
<1>15. block' = "tool" /\ ~Pending("start")' => insp' = EmptyBuffer
  BY <1>1, <1>3, <1>4
<1>16. \A e \in evals' : e.defended => Mode = "block"
  BY <1>1 DEF RInv, RefusalInv
<1> QED
  BY <1>9, <1>11, <1>12, <1>13, <1>14, <1>15, <1>16 DEF RefusalInv

LEMMA RefusalSkipped ==
  ASSUME RInv, SkippedEnd, Handle
  PROVE  RefusalInv'
<1>1. /\ Pending("end") /\ block = "none" /\ insp' = EmptyBuffer
      /\ toolBuf' = <<>> /\ toolName' = NoCall /\ outbox' = <<>> /\ UNCHANGED <<strayed, evals>>
  BY DEF RInv, AInv, InTurn, SkippedEnd, Handling, Pending
<1>2. outbox' \in Seq(Frame)
  BY <1>1
<1>3. /\ Stream' = Stream /\ UNCHANGED <<block, call>> /\ \A ev : ~Pending(ev)'
  BY <1>1, <1>2, HandleBasics
<1>4. ~Buffered'
  BY <1>1 DEF Buffered
<1>5. StubsBefore'
  <2>1. call \in Nat
    BY DEF RInv, AInv, TypeOK
  <2> QED
    BY <1>1, <1>3, <2>1 DEF RInv, RefusalInv, StubsBefore, NoCall
<1> QED
  BY <1>1, <1>3, <1>4, <1>5 DEF RInv, RefusalInv, BufferedJudged

\* What ToolUseEnd comes to: the engine refuses again what it refused, and with
\* nothing in the inspector's buffer only the engine refuses.
LEMMA EndOutcome ==
  ASSUME RInv, ToolUseEnd
  PROVE  \E e : /\ evals' = evals \cup {e}
                /\ e.name = toolName /\ e.input = toolInput
                /\ e.defended => Mode = "block" /\ e.refused
                /\ Defended => e.defended
                /\ insp = EmptyBuffer /\ e.refused => e.defended
                /\ \/ /\ e.refused /\ toolBuf' = toolBuf
                      /\ outbox' = << FrameOf("stub", toolName, 0, toolIndex) >>
                   \/ /\ ~e.refused /\ toolBuf' = <<>>
                      /\ outbox' = Append(toolBuf, FrameOf("stop", toolName, 0, toolIndex))
<1> DEFINE sev == Scan(insp)
<1>1. PICK escalated \in JudgeAnswers(sev), rep \in Reports(toolName, toolInput), stored \in BOOLEAN :
       LET quarantined == Mode = "block" /\ rep.decision = "quarantine" /\ stored
           eff0 == IF escalated THEN 85 ELSE sev
           eff  == IF quarantined THEN Worse(eff0, 70) ELSE eff0
           defended  == Mode = "block" /\ Refuses(rep)
           malicious == (sev > 0 /\ eff >= 60) \/ defended
           refused   == Mode = "block" /\ (malicious \/ quarantined)
       IN  /\ evals' = evals \cup {[name |-> toolName, input |-> toolInput,
                                    inspected |-> ToSet(toolInput) \subseteq insp.input,
                                    defended |-> defended, refused |-> refused]}
           /\ \/ /\ refused
                 /\ outbox' = << FrameOf("stub", toolName, 0, toolIndex) >>
                 /\ UNCHANGED toolBuf
              \/ /\ ~refused
                 /\ outbox' = Append(toolBuf, FrameOf("stop", toolName, 0, toolIndex))
                 /\ toolBuf' = <<>>
  BY DEF ToolUseEnd
<1> DEFINE quarantined == Mode = "block" /\ rep.decision = "quarantine" /\ stored
           eff0 == IF escalated THEN 85 ELSE sev
           eff  == IF quarantined THEN Worse(eff0, 70) ELSE eff0
           defended  == Mode = "block" /\ Refuses(rep)
           refused   == Mode = "block" /\ (((sev > 0 /\ eff >= 60) \/ defended) \/ quarantined)
           e == [name |-> toolName, input |-> toolInput,
                 inspected |-> ToSet(toolInput) \subseteq insp.input,
                 defended |-> defended, refused |-> refused]
<1>2. evals' = evals \cup {e}
  BY <1>1
<1>3. e.name = toolName /\ e.input = toolInput /\ e.defended = defended /\ e.refused = refused
  OBVIOUS
<1>4. defended => Mode = "block" /\ refused
  OBVIOUS
<1>5. Defended => defended
  <2> SUFFICES ASSUME Defended PROVE defended
    OBVIOUS
  <2>1. Refuses(rep)
    BY DEF Reports, Defended
  <2>2. Mode = "block"
    BY DEF Defended, RInv, RefusalInv
  <2> QED
    BY <2>1, <2>2
<1>6. insp = EmptyBuffer /\ refused => defended
  <2> SUFFICES ASSUME insp = EmptyBuffer, refused PROVE defended
    OBVIOUS
  <2>1. sev = 0
    BY DEF Scan, EmptyBuffer
  <2>2. quarantined => defended
    BY DEF Refuses
  <2> QED
    BY <2>1, <2>2
<1>7. \/ /\ refused /\ toolBuf' = toolBuf
         /\ outbox' = << FrameOf("stub", toolName, 0, toolIndex) >>
      \/ /\ ~refused /\ toolBuf' = <<>>
         /\ outbox' = Append(toolBuf, FrameOf("stop", toolName, 0, toolIndex))
  BY <1>1
<1> HIDE DEF e, defended, refused
<1> QED
  BY <1>2, <1>3, <1>4, <1>5, <1>6, <1>7

\* Refused, and then what stays in the buffer is refused again; or forwarded, and
\* then there was no stub of it.
LEMMA RefusalEnd ==
  ASSUME RInv, ToolUseEnd, Handle
  PROVE  RefusalInv'
<1>1. PICK e : /\ evals' = evals \cup {e}
               /\ e.name = toolName /\ e.input = toolInput
               /\ e.defended => Mode = "block" /\ e.refused
               /\ Defended => e.defended
               /\ insp = EmptyBuffer /\ e.refused => e.defended
               /\ \/ /\ e.refused /\ toolBuf' = toolBuf
                     /\ outbox' = << FrameOf("stub", toolName, 0, toolIndex) >>
                  \/ /\ ~e.refused /\ toolBuf' = <<>>
                     /\ outbox' = Append(toolBuf, FrameOf("stop", toolName, 0, toolIndex))
  BY EndOutcome
<1>2. /\ Pending("end") /\ ~Pending("start") /\ block = "none" /\ ~skip
      /\ insp' = EmptyBuffer /\ UNCHANGED <<toolName, toolInput, skip, strayed>>
  BY DEF RInv, AInv, InTurn, ToolUseEnd, Handling, Pending
<1>3. outbox' \in Seq(Frame)
  BY ToolUseEndType DEF RInv, AInv
<1>4. /\ Stream \in Seq(Frame) /\ Stream' = Stream \o outbox'
      /\ UNCHANGED <<block, call>> /\ \A ev : ~Pending(ev)'
  BY <1>3, HandleBasics
<1>5. \A d \in evals' : d.defended => Mode = "block"
  BY <1>1 DEF RInv, RefusalInv
<1>6. /\ ~strayed => Apart(Stream)
      /\ toolName <= call
      /\ Buffered => ~skip
      /\ \A c \in Nat : StubIn(Stream, c) => c <= call
  BY DEF RInv, RefusalInv, StubsBefore
<1>7. CASE /\ e.refused /\ toolBuf' = toolBuf
           /\ outbox' = << FrameOf("stub", toolName, 0, toolIndex) >>
  <2> DEFINE f == FrameOf("stub", toolName, 0, toolIndex)
  <2>1. f \in Frame /\ f.kind = "stub" /\ f.call = toolName
    <3>1. f \in Frame
      BY WholeFrameType DEF RInv, AInv, TypeOK
    <3> QED
      BY <3>1 DEF FrameOf
  <2>2. outbox' = <<f>>
    BY <1>7
  <2> HIDE DEF f
  <2>3. /\ ~strayed => Apart(Stream')
        /\ \A c : StubIn(Stream', c) => StubIn(Stream, c) \/ c = toolName
    BY <1>4, <1>6, <2>1, <2>2, PlainFrame
  <2>4. Buffered' = Buffered
    BY <1>7 DEF Buffered
  <2>5. ~strayed /\ Buffered => Defended'
    <3>1. ~strayed /\ Buffered => Defended \/ insp = EmptyBuffer
      BY DEF RInv, RefusalInv, BufferedJudged
    <3>2. ~strayed /\ Buffered => e.defended
      BY <1>1, <1>7, <3>1
    <3> QED
      BY <1>1, <1>2, <3>2 DEF Defended
  <2>6. ~strayed' => BufferedJudged'
    BY <1>2, <1>4, <2>4, <2>5 DEF BufferedJudged
  <2>7. StubsBefore'
    BY <1>2, <1>4, <1>6, <2>3 DEF StubsBefore
  <2> QED
    BY <1>2, <1>5, <1>6, <1>7, <2>3, <2>4, <2>6, <2>7 DEF RInv, RefusalInv
<1>8. CASE /\ ~e.refused /\ toolBuf' = <<>>
           /\ outbox' = Append(toolBuf, FrameOf("stop", toolName, 0, toolIndex))
  <2> DEFINE f == FrameOf("stop", toolName, 0, toolIndex)
  <2>1. toolBuf \in Seq(Frame) /\ f.kind = "stop"
    BY DEF RInv, AInv, TypeOK, FrameOf
  <2> HIDE DEF f
  <2>2. outbox' = Append(toolBuf, f)
    BY <1>8 DEF f
  <2>3. \A i \in DOMAIN outbox' :
          (i \in DOMAIN toolBuf /\ outbox'[i] = toolBuf[i]) \/ outbox'[i] = f
    BY <2>1, <2>2
  <2>4. \A c : ~StubIn(outbox', c)
    BY <2>1, <2>3 DEF StubIn, RInv, RefusalInv
  <2>5. ASSUME ~strayed, NEW j \in DOMAIN outbox', outbox'[j].kind = "start"
        PROVE  ~StubIn(Stream, outbox'[j].call)
    <3>1. j \in DOMAIN toolBuf /\ outbox'[j] = toolBuf[j]
      BY <2>1, <2>3, <2>5
    <3>2. outbox'[j].call = toolName
      BY <2>5, <3>1 DEF RInv, GateInv, BufferedIsCurrent, StartsOf
    <3>3. Buffered
      BY <2>5, <3>1 DEF Buffered
    <3>4. StubIn(Stream, toolName) => Defended
      BY <2>5, <3>3 DEF RInv, RefusalInv, BufferedJudged
    <3> QED
      BY <1>1, <1>8, <3>2, <3>4
  <2>6. ~strayed => Apart(Stream')
    BY <1>3, <1>4, <1>6, <2>4, <2>5, ApartConcat
  <2>7. \A c : StubIn(Stream', c) => StubIn(Stream, c)
    BY <1>3, <1>4, <2>4, StubInConcat
  <2>8. ~Buffered'
    BY <1>8 DEF Buffered
  <2>9. StubsBefore'
    BY <1>2, <1>4, <1>6, <2>7 DEF StubsBefore
  <2> QED
    BY <1>2, <1>5, <1>8, <2>6, <2>8, <2>9 DEF RInv, RefusalInv, BufferedJudged
<1> QED
  BY <1>1, <1>7, <1>8

\* A send moves a frame from outbox to out, or loses it when the client is gone.
LEMMA RefusalSend ==
  ASSUME RInv, Send
  PROVE  RefusalInv'
<1>1. /\ outbox # <<>> /\ out \in Seq(Frame) /\ outbox \in Seq(Frame)
      /\ outbox' = Tail(outbox) /\ out' \in {out, Append(out, Head(outbox))}
      /\ UNCHANGED <<block, call, events, handler, evals>>
  BY DEF RInv, AInv, TypeOK, Send, upstream
<1>2. Append(out, Head(outbox)) \o Tail(outbox) = out \o outbox
  BY <1>1
<1>3. (~strayed => Apart(Stream')) /\ \A c : StubIn(Stream', c) => StubIn(Stream, c)
  <2>1. CASE out' = out
    BY <1>1, <2>1, ApartWithout DEF Stream, RInv, RefusalInv
  <2>2. CASE out' = Append(out, Head(outbox))
    <3>1. Stream' = Stream
      BY <1>1, <1>2, <2>2 DEF Stream
    <3> QED
      BY <3>1 DEF RInv, RefusalInv
  <2> QED
    BY <1>1, <2>1, <2>2
<1>4. Buffered' = Buffered /\ Defended' = Defended /\ \A ev : Pending(ev)' = Pending(ev)
  BY <1>1 DEF Buffered, Defended, handler, Pending
<1>5. ~strayed' => BufferedJudged'
  BY <1>1, <1>3, <1>4 DEF RInv, RefusalInv, BufferedJudged, handler
<1>6. StubsBefore'
  BY <1>1, <1>3, <1>4 DEF RInv, RefusalInv, StubsBefore, handler
<1> QED
  BY <1>1, <1>3, <1>4, <1>5, <1>6 DEF RInv, RefusalInv, handler

LEMMA RefusalQuiet ==
  ASSUME RInv, UNCHANGED <<block, call, events, handler, evals, out, outbox>>
  PROVE  RefusalInv'
<1>1. Stream' = Stream /\ Buffered' = Buffered /\ Defended' = Defended
      /\ \A ev : Pending(ev)' = Pending(ev)
  BY DEF Stream, Buffered, Defended, handler, Pending
<1>2. ~strayed' => BufferedJudged'
  BY <1>1 DEF RInv, RefusalInv, BufferedJudged, handler
<1>3. StubsBefore'
  BY <1>1 DEF RInv, RefusalInv, StubsBefore, handler
<1> QED
  BY <1>1, <1>2, <1>3 DEF RInv, RefusalInv, handler

LEMMA RefusalStep ==
  ASSUME RInv, [Next]_vars, Protocol = "anthropic"
  PROVE  RInv'
<1>1. AInv'
  BY InTurnStep, NextType DEF RInv, AInv
<1>2. GateInv'
  BY NextGate DEF RInv, AInv, IInv
<1>3. RefusalInv'
  <2>1. CASE Upstream
    BY <2>1, RefusalUpstream
  <2>2. CASE Handle
    BY <2>2, RefusalText, RefusalStart, RefusalDelta, RefusalSkipped, RefusalEnd, RefusalRaw
       DEF Handle
  <2>3. CASE Send
    BY <2>3, RefusalSend
  <2>4. CASE Complete \/ Client \/ UNCHANGED vars
    <3>1. UNCHANGED <<block, call, events, handler, evals, out, outbox>>
      BY <2>4 DEF Complete, Client, Receive, Disconnect, vars, upstream, channel
    <3> QED
      BY <3>1, RefusalQuiet
  <2> QED
    BY <2>1, <2>2, <2>3, <2>4 DEF Next
<1> QED
  BY <1>1, <1>2, <1>3 DEF RInv

LEMMA RefusalInitial == Init => RInv
<1> SUFFICES ASSUME Init PROVE RInv
  OBVIOUS
<1>1. AInv
  BY InitType DEF Init, AInv, InTurn, Pending
<1>2. Stream = <<>> /\ ~Buffered /\ \A ev : ~Pending(ev)
  BY DEF Init, Stream, Buffered, Pending
<1>3. StubsBefore
  BY <1>2 DEF Init, StubsBefore, StubIn, NoCall
<1>4. Apart(Stream)
  BY <1>2 DEF Apart
<1>5. RefusalInv
  BY <1>2, <1>3, <1>4 DEF Init, RefusalInv, BufferedJudged
<1> QED
  BY <1>1, <1>5, InitGate DEF RInv

\* A tool use that was replaced is not forwarded later (src/src/proxy.rs:815: its
\* frames stay in tool_buf, which the end of any other block drains), for both
\* modes and any number of calls, fragments, blocks and lost frames, as long as no
\* input of a block that is no tool_use is added to it in between: then it may be
\* (run stream_refused). Used of the engine: what it refused of a tool use it
\* refuses when asked again (Reports).
THEOREM NoRefusedForwarded == Protocol = "anthropic" => (Spec => []RefusedStaysOut)
<1> SUFFICES ASSUME Protocol = "anthropic" PROVE Spec => []RefusedStaysOut
  OBVIOUS
<1>1. Init => RInv
  BY RefusalInitial
<1>2. RInv /\ [Next]_vars => RInv'
  BY RefusalStep
<1>3. RInv => RefusedStaysOut
  BY DEF RInv, RefusalInv, Apart, RefusedStaysOut, SubstitutedStaysOut
<1> QED
  BY <1>1, <1>2, <1>3, PTL DEF Spec

-------------------------------------------------------------------------------
(* Whole calls: what is forwarded of a tool use, and its answer.           *)

\* A call with a start frame in the stream has ended: it gets no more fragments.
StartsEnded ==
  \A i \in DOMAIN Stream : Stream[i].kind = "start" =>
    Stream[i].call \in Calls /\ Stream[i].call <= call /\ (block = "tool" => Stream[i].call < call)

\* The buffer has all fragments sent so far, but for the one in hand, and the
\* index under which its stop will be sent, unless the engine refused it.
InHandNow == block = "tool" /\ Pending("delta")
Filled ==
  /\ Len(toolBuf) = frags[toolName] + (IF InHandNow THEN 0 ELSE 1)
  /\ \E x \in Nat : /\ Holds(toolBuf, toolName, x)
                    /\ Defended \/ x = toolIndex
                    /\ block = "tool" /\ ~Pending("start") => x = toolIndex
BufferFilled == Buffered => toolName \in Calls /\ (~strayed => Filled)

\* The call being streamed is the last one, and its fragments are counted; when
\* the stream is recorded nothing is left to handle.
Current ==
  /\ block = "tool" => call \in openCalls
  /\ block = "tool" /\ ~Pending("start") => toolName = call
  /\ InHandNow => Head(events).frag = [call |-> call, frag |-> frags[call]]
  /\ Pending("start") => frags[call] = 0
  /\ \A c \in Calls : c > call => frags[c] = 0
  /\ log # <<>> => eof /\ events = <<>>

WholeInv ==
  /\ connected /\ ~strayed => WholeIn(Stream, frags)
  /\ StartsEnded
  /\ BufferFilled
  /\ Current

\* Every call is answered, or is the one being streamed.
AnswerInv ==
  connected =>
    \A c \in 1 .. call :
      \/ Answered(c)
      \/ c = call /\ Pending("start")
      \/ c = call /\ toolName = c /\ Buffered
           /\ (block = "tool" \/ Pending("end"))

OInv == RInv /\ WholeInv /\ AnswerInv

-------------------------------------------------------------------------------
(* The upstream's steps.                                                   *)

LEMMA FragsNat == ASSUME OInv PROVE \A c \in Calls : frags[c] \in Nat
  BY ProxyStreamAssumption DEF OInv, RInv, AInv, TypeOK

\* What the adapter may do: open a call, a fragment of it, the end of a block,
\* or nothing that touches the calls, stray input or other.
LEMMA UpstreamKinds ==
  ASSUME OInv, Upstream, Protocol = "anthropic"
  PROVE  /\ events = <<>> /\ log' = log /\ ~eof
         /\ UNCHANGED <<toolBuf, toolInput, toolName, toolIndex, skip, insp, evals>>
         /\ UNCHANGED <<strayed, out, outbox, connected>>
         /\ \/ /\ UNCHANGED <<call, frags, openCalls>> /\ (block' = "tool" <=> block = "tool")
               /\ ~Pending("start")' /\ ~InHandNow' /\ ~Pending("end")'
            \/ /\ block = "none" /\ block' = "tool" /\ call' = call + 1 /\ call' \in Calls
               /\ call' \in openCalls' /\ frags' = frags
               /\ Pending("start")' /\ ~Pending("delta")' /\ ~Pending("end")'
            \/ /\ block = "tool" /\ block' = "tool" /\ UNCHANGED <<call, openCalls>>
               /\ call \in Calls /\ frags' = [frags EXCEPT ![call] = @ + 1]
               /\ Pending("delta")' /\ ~Pending("start")' /\ ~Pending("end")'
               /\ Head(events').frag = [call |-> call, frag |-> frags[call] + 1]
            \/ /\ block' = "none" /\ UNCHANGED <<call, frags>>
               /\ Pending("end")' /\ ~Pending("start")' /\ ~Pending("delta")'
<1>1. /\ events = <<>> /\ log' = log /\ ~eof
      /\ UNCHANGED <<toolBuf, toolInput, toolName, toolIndex, skip, insp, evals>>
      /\ UNCHANGED <<strayed, out, outbox, connected>>
  BY DEF Upstream, Anthropic, OpenAi, BodyEnd, Chunk, Polled, AnthropicStart, AnthropicDelta,
         AnthropicStop, handler, channel
<1>2. AnthropicStart \/ AnthropicDelta \/ AnthropicStop \/ BodyEnd
  BY Zenon DEF Upstream, Anthropic, OpenAi
<1>3. CASE AnthropicStart
  <2>1. block = "none" /\ frags' = frags
    BY <1>3 DEF AnthropicStart
  <2>2. CASE /\ block' \in {"text", "other"} /\ UNCHANGED <<call, openCalls>>
             /\ \E e \in {TextEvent("clean"), RawEvent} : events' = <<e>>
    <3>1. \A ev \in {"start", "delta", "end"} : ~Pending(ev)'
      BY <2>2 DEF Pending, TextEvent, RawEvent
    <3> QED
      BY <1>1, <2>1, <2>2, <3>1 DEF InHandNow
  <2>3. CASE block' = "tool" /\ NewCall(call + 1)
    <3>1. /\ call' = call + 1 /\ call' \in Calls /\ call' \in openCalls'
          /\ events' = <<StartEvent(call + 1)>>
      BY <2>3 DEF NewCall, Emit
    <3>2. Pending("start")' /\ ~Pending("delta")' /\ ~Pending("end")'
      BY <3>1 DEF Pending, StartEvent
    <3> QED
      BY <1>1, <2>1, <2>3, <3>1, <3>2
  <2> QED
    BY <1>3, <2>2, <2>3 DEF AnthropicStart, Emit
<1>4. CASE AnthropicDelta
  <2>1. UNCHANGED <<block, call, openCalls>>
    BY <1>4 DEF AnthropicDelta
  <2>2. CASE /\ frags' = frags
             /\ \E e : events' = <<e>> /\ e.ev \notin {"start", "delta", "end"}
    <3>1. \A ev \in {"start", "delta", "end"} : ~Pending(ev)'
      BY <2>2 DEF Pending
    <3> QED
      BY <1>1, <2>1, <2>2, <3>1 DEF InHandNow
  <2>5. CASE block = "other" /\ frags' = frags /\ events' = <<StrayEvent>>
    <3>1. block' # "tool" /\ ~Pending("start")' /\ ~Pending("end")'
      BY <2>1, <2>5 DEF Pending, StrayEvent
    <3> QED
      BY <1>1, <2>1, <2>5, <3>1 DEF InHandNow
  <2>3. CASE block = "tool" /\ NewFragment(call)
    <3>1. /\ call \in Calls /\ frags' = [frags EXCEPT ![call] = @ + 1]
          /\ events' = <<DeltaEvent(call)>>
      BY <2>3 DEF NewFragment, Emit, OInv, RInv, AInv, TypeOK
    <3>2. /\ Pending("delta")' /\ ~Pending("start")' /\ ~Pending("end")'
          /\ Head(events').frag = [call |-> call, frag |-> frags[call] + 1]
      BY <3>1 DEF Pending, DeltaEvent
    <3> QED
      BY <1>1, <2>1, <2>3, <3>1, <3>2
  <2>4. \/ frags' = frags /\ \E e : events' = <<e>> /\ e.ev \notin {"start", "delta", "end"}
        \/ block = "other" /\ frags' = frags /\ events' = <<StrayEvent>>
        \/ block = "tool" /\ NewFragment(call)
    BY <1>4 DEF AnthropicDelta, Emit, TextEvent, RawEvent
  <2> QED
    BY <2>2, <2>3, <2>4, <2>5
<1>5. CASE AnthropicStop
  <2>1. block' = "none" /\ UNCHANGED <<call, frags>> /\ events' = <<EndEvent>>
    BY <1>5 DEF AnthropicStop, Emit
  <2>2. Pending("end")' /\ ~Pending("start")' /\ ~Pending("delta")'
    BY <2>1 DEF Pending, EndEvent
  <2> QED
    BY <1>1, <2>1, <2>2
<1>6. CASE BodyEnd
  <2>1. UNCHANGED <<block, call, frags, events, openCalls>>
    BY <1>6 DEF BodyEnd
  <2>2. \A ev \in {"start", "delta", "end"} : ~Pending(ev)'
    BY <1>1, <2>1 DEF Pending
  <2> QED
    BY <1>1, <2>1, <2>2 DEF InHandNow
<1> QED
  BY <1>2, <1>3, <1>4, <1>5, <1>6

LEMMA WholeUpstream ==
  ASSUME OInv, Upstream, Protocol = "anthropic"
  PROVE  WholeInv' /\ AnswerInv'
<1>1. /\ events = <<>> /\ log' = log /\ ~eof
      /\ UNCHANGED <<toolBuf, toolInput, toolName, toolIndex, skip, insp, evals>>
      /\ UNCHANGED <<strayed, out, outbox, connected>>
  BY UpstreamKinds
<1>2. /\ Stream' = Stream /\ Buffered' = Buffered /\ Defended' = Defended
      /\ \A c : Answered(c)' = Answered(c)
      /\ \A ev : ~Pending(ev)
  BY <1>1 DEF Stream, Buffered, Defended, Answered, Pending
<1>3. /\ call \in Nat /\ frags \in [Calls -> 0 .. MaxFrags] /\ \A c \in Calls : frags[c] \in Nat
      /\ toolIndex \in Nat
  BY FragsNat DEF OInv, RInv, AInv, TypeOK
<1>4. log' = <<>>
  BY <1>1 DEF OInv, WholeInv, Current
<1>5. /\ connected /\ ~strayed => WholeIn(Stream, frags)
      /\ StartsEnded /\ BufferFilled /\ Current /\ AnswerInv
  BY DEF OInv, WholeInv
<1>s. connected' /\ ~strayed' <=> connected /\ ~strayed
  BY <1>1
<1>6. CASE /\ UNCHANGED <<call, frags, openCalls>> /\ (block' = "tool" <=> block = "tool")
           /\ ~Pending("start")' /\ ~InHandNow' /\ ~Pending("end")'
  <2>0. ~Pending("start")' /\ ~InHandNow' /\ ~Pending("end")'
    BY <1>6
  <2>1. connected' /\ ~strayed' => WholeIn(Stream', frags')
    BY <1>s, <1>2, <1>5, <1>6
  <2>2. StartsEnded'
    BY <1>2, <1>5, <1>6 DEF StartsEnded
  <2>3. BufferFilled'
    BY <1>1, <1>2, <1>5, <1>6, <2>0 DEF BufferFilled, Filled, Holds, InHandNow
  <2>4. Current'
    BY <1>1, <1>2, <1>4, <1>5, <1>6, <2>0 DEF Current
  <2>5. AnswerInv'
    BY <1>1, <1>2, <1>5, <1>6 DEF AnswerInv
  <2> QED
    BY <2>1, <2>2, <2>3, <2>4, <2>5 DEF WholeInv
<1>7. CASE /\ block = "none" /\ block' = "tool" /\ call' = call + 1 /\ call' \in Calls
           /\ call' \in openCalls' /\ frags' = frags
           /\ Pending("start")' /\ ~Pending("delta")' /\ ~Pending("end")'
  <2>1. connected' /\ ~strayed' => WholeIn(Stream', frags')
    BY <1>s, <1>2, <1>5, <1>7
  <2>2. StartsEnded'
    BY <1>2, <1>3, <1>5, <1>7 DEF StartsEnded, Calls
  <2>3. BufferFilled'
    BY <1>1, <1>2, <1>5, <1>7 DEF BufferFilled, Filled, Holds, InHandNow
  <2>4. Current'
    <3>1. \A c \in Calls : c > call' => frags[c] = 0
      BY <1>3, <1>5, <1>7 DEF Current, Calls
    <3>2. frags[call'] = 0
      BY <1>3, <1>5, <1>7 DEF Current, Calls
    <3> QED
      BY <1>4, <1>7, <3>1, <3>2 DEF Current, InHandNow
  <2>5. AnswerInv'
    <3>1. connected => \A c \in 1 .. call : Answered(c)
      BY <1>2, <1>5, <1>7 DEF AnswerInv
    <3>2. \A c \in 1 .. call' : c \in 1 .. call \/ c = call'
      BY <1>3, <1>7
    <3> QED
      BY <1>1, <1>2, <1>7, <3>1, <3>2 DEF AnswerInv
  <2> QED
    BY <2>1, <2>2, <2>3, <2>4, <2>5 DEF WholeInv
<1>8. CASE /\ block = "tool" /\ block' = "tool" /\ UNCHANGED <<call, openCalls>>
           /\ call \in Calls /\ frags' = [frags EXCEPT ![call] = @ + 1]
           /\ Pending("delta")' /\ ~Pending("start")' /\ ~Pending("end")'
           /\ Head(events').frag = [call |-> call, frag |-> frags[call] + 1]
  <2>0. \A c \in Calls : frags'[c] = IF c = call THEN frags[c] + 1 ELSE frags[c]
    BY <1>3, <1>8
  <2>1. connected' /\ ~strayed' => WholeIn(Stream', frags')
    <3>1. \A i \in DOMAIN Stream : Stream[i].kind = "start" => frags'[Stream[i].call] = frags[Stream[i].call]
      BY <1>3, <1>5, <1>8, <2>0 DEF StartsEnded
    <3> QED
      BY <1>s, <1>2, <1>5, <3>1 DEF WholeIn
  <2>2. StartsEnded'
    BY <1>2, <1>5, <1>8 DEF StartsEnded
  <2>3. BufferFilled'
    <3>1. toolName = call
      BY <1>2, <1>5, <1>8 DEF Current
    <3>2. frags'[call] = frags[call] + 1 /\ frags[call] \in Nat
      BY <1>3, <1>8, <2>0
    <3> QED
      BY <1>1, <1>2, <1>5, <1>8, <3>1, <3>2 DEF BufferFilled, Filled, Holds, InHandNow
  <2>4. Current'
    <3>1. \A c \in Calls : c > call => frags'[c] = 0
      BY <1>3, <1>5, <1>8, <2>0 DEF Current
    <3>2. toolName = call /\ call \in openCalls
      BY <1>2, <1>5, <1>8 DEF Current
    <3>3. frags'[call] = frags[call] + 1
      BY <1>8, <2>0
    <3> QED
      BY <1>1, <1>4, <1>8, <3>1, <3>2, <3>3 DEF Current
  <2>5. AnswerInv'
    BY <1>1, <1>2, <1>5, <1>8 DEF AnswerInv
  <2> QED
    BY <2>1, <2>2, <2>3, <2>4, <2>5 DEF WholeInv
<1>9. CASE /\ block' = "none" /\ UNCHANGED <<call, frags>>
           /\ Pending("end")' /\ ~Pending("start")' /\ ~Pending("delta")'
  <2>1. connected' /\ ~strayed' => WholeIn(Stream', frags')
    BY <1>s, <1>2, <1>5, <1>9
  <2>2. StartsEnded'
    BY <1>2, <1>5, <1>9 DEF StartsEnded
  <2>3. BufferFilled'
    BY <1>1, <1>2, <1>5, <1>9 DEF BufferFilled, Filled, Holds, InHandNow
  <2>4. Current'
    BY <1>1, <1>4, <1>5, <1>9 DEF Current, InHandNow
  <2>5. AnswerInv'
    BY <1>1, <1>2, <1>5, <1>9 DEF AnswerInv
  <2> QED
    BY <2>1, <2>2, <2>3, <2>4, <2>5 DEF WholeInv
<1> QED
  BY <1>6, <1>7, <1>8, <1>9, UpstreamKinds

-------------------------------------------------------------------------------
(* The handlers' steps.                                                    *)

\* Frames without a start are added at the end of the stream.
LEMMA StreamGrows ==
  ASSUME OInv, NEW t \in Seq(Frame), Stream \in Seq(Frame), Stream' = Stream \o t,
         UNCHANGED <<block, call, frags, connected>>, strayed => strayed',
         \A j \in DOMAIN t : t[j].kind # "start"
  PROVE  /\ connected' /\ ~strayed' => WholeIn(Stream', frags')
         /\ StartsEnded'
<1>1. \A i \in DOMAIN Stream : Stream[i].kind = "start" => frags[Stream[i].call] \in Nat
  BY FragsNat DEF OInv, WholeInv, StartsEnded
<1>2. connected' /\ ~strayed' => WholeIn(Stream', frags')
  BY <1>1, WholeConcat DEF OInv, WholeInv
<1>3. \A i \in DOMAIN Stream' : Stream'[i].kind = "start" =>
        i \in DOMAIN Stream /\ Stream'[i] = Stream[i]
  BY ConcatElements
<1>4. StartsEnded'
  BY <1>3 DEF OInv, WholeInv, StartsEnded
<1> QED
  BY <1>2, <1>4

\* What every handler leaves alone, and what there is to handle.
LEMMA HandleFacts ==
  ASSUME OInv, Handle, outbox' \in Seq(Frame)
  PROVE  /\ events # <<>> /\ events' = <<>> /\ log = <<>> /\ log' = <<>>
         /\ Stream' = Stream \o outbox' /\ Stream \in Seq(Frame)
         /\ UNCHANGED <<block, call, frags, openCalls, connected>>
         /\ \A ev : ~Pending(ev)'
         /\ toolIndex \in Nat /\ call \in Nat /\ frags \in [Calls -> 0 .. MaxFrags]
         /\ \A c \in Calls : frags[c] \in Nat
         /\ strayed => strayed'
         /\ ~ToolUseDelta => strayed' = strayed
<1>0. (strayed => strayed') /\ (~ToolUseDelta => strayed' = strayed)
  <2>1. strayed' = strayed \/ strayed' = TRUE
    BY HandlerStream DEF OInv, RInv, AInv
  <2>2. ~ToolUseDelta => strayed' = strayed
    BY HandleBasics DEF OInv
  <2>3. CASE strayed' = strayed
    BY <2>2, <2>3
  <2>4. CASE strayed' = TRUE
    BY <2>2, <2>4
  <2> QED
    BY <2>1, <2>3, <2>4
<1>1. UNCHANGED <<frags, openCalls, connected, log>>
  BY DEF Handle, upstream, channel
<1>2. events # <<>> /\ events' = <<>> /\ Stream' = Stream \o outbox'
      /\ UNCHANGED <<block, call>> /\ Stream \in Seq(Frame) /\ \A ev : ~Pending(ev)'
  BY HandleBasics DEF OInv
<1>3. log = <<>>
  BY <1>2 DEF OInv, WholeInv, Current
<1>4. toolIndex \in Nat /\ call \in Nat /\ frags \in [Calls -> 0 .. MaxFrags]
  BY DEF OInv, RInv, AInv, TypeOK
<1> QED
  BY <1>0, <1>1, <1>2, <1>3, <1>4, FragsNat

\* With nothing but the call's own buffer changed, its bookkeeping stays.
LEMMA CurrentStays ==
  ASSUME OInv, Handle, outbox' \in Seq(Frame),
         block = "tool" => toolName' = call
  PROVE  Current'
<1>1. /\ events' = <<>> /\ log' = <<>> /\ UNCHANGED <<block, call, frags, openCalls>>
      /\ \A ev : ~Pending(ev)'
  BY HandleFacts
<1>2. block = "tool" => call \in openCalls
  BY DEF OInv, WholeInv, Current
<1>3. \A c \in Calls : c > call => frags[c] = 0
  BY DEF OInv, WholeInv, Current
<1> QED
  BY <1>1, <1>2, <1>3 DEF Current, InHandNow

\* A frame of a text block or of one the adapter does not know.
LEMMA WholePlain ==
  ASSUME OInv, Handle, NEW f \in Frame, f.kind # "start", outbox' = <<f>>,
         UNCHANGED <<toolBuf, toolInput, toolName, toolIndex, strayed, evals>>,
         ~Pending("start"), ~Pending("delta"), ~Pending("end")
  PROVE  WholeInv' /\ AnswerInv'
<1>1. outbox' \in Seq(Frame) /\ \A j \in DOMAIN outbox' : outbox'[j].kind # "start"
  OBVIOUS
<1>2. /\ Stream' = Stream \o outbox' /\ Stream \in Seq(Frame)
      /\ UNCHANGED <<block, call, frags, openCalls, connected>>
      /\ \A ev : ~Pending(ev)'
  BY <1>1, HandleFacts
<1>3. (connected' /\ ~strayed' => WholeIn(Stream', frags')) /\ StartsEnded'
  BY <1>1, <1>2, StreamGrows
<1>4. Current /\ BufferFilled /\ AnswerInv
  BY DEF OInv, WholeInv
<1>5. Current'
  BY <1>1, <1>4, CurrentStays DEF Current
<1>6. Buffered' = Buffered /\ Defended' = Defended
  BY DEF Buffered, Defended
<1>7. BufferFilled'
  BY <1>2, <1>4, <1>6 DEF BufferFilled, Filled, Holds, InHandNow
<1>8. AnswerInv'
  BY <1>1, <1>2, <1>4, <1>6, AnswersStay DEF AnswerInv
<1> QED
  BY <1>3, <1>5, <1>7, <1>8 DEF WholeInv

LEMMA WholeText ==
  ASSUME OInv, TextDelta, Handle
  PROVE  WholeInv' /\ AnswerInv'
<1>1. PICK k \in {"text", "textstub"} : outbox' = << FrameOf(k, NoCall, 0, toolIndex) >>
  BY DEF TextDelta
<1>2. FrameOf(k, NoCall, 0, toolIndex) \in Frame
  BY WholeFrameType DEF OInv, RInv, AInv, TypeOK
<1>3. FrameOf(k, NoCall, 0, toolIndex).kind # "start"
  BY DEF FrameOf
<1>4. ~Pending("start") /\ ~Pending("delta") /\ ~Pending("end")
  BY DEF TextDelta, Handling, Pending
<1>5. UNCHANGED <<toolBuf, toolInput, toolName, toolIndex, strayed, evals>>
  BY DEF TextDelta
<1> QED
  BY <1>1, <1>2, <1>3, <1>4, <1>5, WholePlain

LEMMA WholeRaw ==
  ASSUME OInv, Raw, Handle
  PROVE  WholeInv' /\ AnswerInv'
<1>1. outbox' = << FrameOf("raw", NoCall, 0, 0) >>
  BY DEF Raw
<1>2. FrameOf("raw", NoCall, 0, 0) \in Frame
  BY WholeFrameType
<1>3. FrameOf("raw", NoCall, 0, 0).kind # "start"
  BY DEF FrameOf
<1>4. ~Pending("start") /\ ~Pending("delta") /\ ~Pending("end")
  BY DEF Raw, Handling, Pending
<1>5. UNCHANGED <<toolBuf, toolInput, toolName, toolIndex, strayed, evals>>
  BY DEF Raw, handler
<1> QED
  BY <1>1, <1>2, <1>3, <1>4, <1>5, WholePlain

\* The new call is answered at once, or it is the one being streamed.
LEMMA WholeStart ==
  ASSUME OInv, ToolUseStart, Handle
  PROVE  WholeInv' /\ AnswerInv'
<1>1. /\ Pending("start") /\ block = "tool" /\ Head(events).call = call
      /\ toolName' = call /\ call \in Calls
  <2>1. Pending("start") /\ toolName' = Head(events).call
    BY DEF ToolUseStart, Handling, Pending
  <2>2. toolName' \in Calls
    BY ToolUseStartType DEF OInv, RInv, AInv
  <2> QED
    BY <2>1, <2>2 DEF OInv, RInv, AInv, InTurn
<1>2. outbox' \in Seq(Frame)
  BY ToolUseStartType DEF OInv, RInv, AInv
<1>3. /\ Stream' = Stream \o outbox' /\ Stream \in Seq(Frame)
      /\ UNCHANGED <<block, call, frags, openCalls, connected>>
      /\ \A ev : ~Pending(ev)'
      /\ toolIndex \in Nat /\ (strayed => strayed')
  BY <1>2, HandleFacts
<1>4. ~Pending("end") /\ ~Pending("delta")
  BY <1>1 DEF Pending
<1>5. Current'
  BY <1>1, <1>2, CurrentStays
<1>6. frags[call] = 0 /\ AnswerInv
  BY <1>1 DEF OInv, WholeInv, Current
<1>7. \A c \in 1 .. call : connected => Answered(c) \/ c = call
  BY <1>6 DEF AnswerInv
<1>8. CASE DenyCall
  <2> DEFINE f == FrameOf("stub", call, 0, toolIndex)
  <2>1. f \in Frame /\ f.kind = "stub" /\ f.call = call
    <3>1. f \in Frame
      BY <1>1, <1>3, WholeFrameType
    <3> QED
      BY <3>1 DEF FrameOf
  <2>2. outbox' = <<f>> /\ toolBuf' = <<>>
    BY <1>1, <1>8 DEF DenyCall, StartStub
  <2> HIDE DEF f
  <2>3. /\ DOMAIN outbox' = {1} /\ outbox'[1] = f
    BY <2>2
  <2>4. (connected' /\ ~strayed' => WholeIn(Stream', frags')) /\ StartsEnded'
    BY <1>2, <1>3, <2>1, <2>3, StreamGrows
  <2>5. BufferFilled'
    BY <2>2 DEF BufferFilled, Buffered
  <2>6. \A c \in 1 .. call : connected => Answered(c)'
    BY <1>2, <1>3, <1>7, <2>1, <2>3, AnswersStay
  <2>7. AnswerInv'
    BY <1>3, <2>6 DEF AnswerInv
  <2> QED
    BY <1>5, <2>4, <2>5, <2>7 DEF WholeInv
<1>9. CASE AdmitCall
  <2>1. outbox' = <<>> /\ toolBuf' = <<FrameOf("start", call, 0, toolIndex)>>
        /\ toolIndex' = toolIndex
    <3>1. outbox = <<>>
      BY DEF ToolUseStart, Handling
    <3> QED
      BY <1>1, <1>9, <3>1 DEF AdmitCall, StartFrame
  <2>2. DOMAIN outbox' = {}
    BY <2>1
  <2>3. (connected' /\ ~strayed' => WholeIn(Stream', frags')) /\ StartsEnded'
    BY <1>2, <1>3, <2>2, StreamGrows
  <2>4. toolBuf'[1].kind = "start"
    BY <2>1 DEF FrameOf
  <2>5. Buffered'
    BY <2>1, <2>4 DEF Buffered
  <2>6. Holds(toolBuf, toolName, toolIndex)' /\ Len(toolBuf') = 1
    BY <1>1, <2>1 DEF Holds
  <2>7. BufferFilled'
    BY <1>1, <1>3, <1>6, <2>1, <2>6 DEF BufferFilled, Filled, InHandNow
  <2>8. \A c \in 1 .. call : connected => Answered(c)' \/ c = call
    BY <1>2, <1>3, <1>7, AnswersStay
  <2>9. AnswerInv'
    BY <1>1, <1>3, <2>5, <2>8 DEF AnswerInv
  <2> QED
    BY <1>5, <2>3, <2>7, <2>9 DEF WholeInv
<1> QED
  BY <1>8, <1>9 DEF ToolUseStart

\* Input of a block that is no tool_use: no call grows by it that counts.
LEMMA WholeStray ==
  ASSUME OInv, ToolUseDelta, Handle, block # "tool"
  PROVE  WholeInv' /\ AnswerInv'
<1>1. /\ Pending("delta") /\ ~Pending("start") /\ ~Pending("end")
      /\ UNCHANGED <<toolName, toolIndex, skip, insp, outbox, evals>> /\ outbox = <<>>
      /\ strayed' = (strayed \/ (Head(events).frag = Stray /\ Buffered))
  BY DEF ToolUseDelta, Handling, Pending
<1>2. outbox' \in Seq(Frame) /\ DOMAIN outbox' = {}
  BY <1>1
<1>3. /\ Stream' = Stream \o outbox' /\ Stream \in Seq(Frame)
      /\ UNCHANGED <<block, call, frags, openCalls, connected>>
      /\ \A ev : ~Pending(ev)'
      /\ strayed => strayed'
  BY <1>2, HandleFacts
<1>4. (connected' /\ ~strayed' => WholeIn(Stream', frags')) /\ StartsEnded'
  BY <1>2, <1>3, StreamGrows
<1>5. Head(events).frag = Stray
  BY <1>1 DEF OInv, RInv, AInv, InTurn
<1>6. Current'
  BY <1>2, CurrentStays
<1>7. BufferFilled /\ AnswerInv /\ toolBuf \in Seq(Frame)
  BY DEF OInv, WholeInv, RInv, AInv, TypeOK
<1>8. Buffered' => Buffered
  <2> DEFINE f == FrameOf("delta", Head(events).frag.call, Head(events).frag.frag, toolIndex)
  <2>1. toolBuf' = toolBuf \/ toolBuf' = Append(toolBuf, f)
    BY DEF ToolUseDelta
  <2>2. f.kind = "delta"
    BY DEF FrameOf
  <2> HIDE DEF f
  <2>3. \A i \in DOMAIN toolBuf' : (i \in DOMAIN toolBuf /\ toolBuf'[i] = toolBuf[i]) \/ toolBuf'[i] = f
    BY <1>7, <2>1
  <2> QED
    BY <2>2, <2>3 DEF Buffered
<1>9. Buffered' => toolName' \in Calls /\ strayed'
  BY <1>1, <1>5, <1>7, <1>8 DEF BufferFilled
<1>10. BufferFilled'
  BY <1>9 DEF BufferFilled
<1>11. AnswerInv'
  <2>1. ~Pending("start") /\ ~Pending("end") /\ block # "tool"
    BY <1>1
  <2> QED
    BY <1>2, <1>3, <1>7, <2>1, AnswersStay DEF AnswerInv
<1> QED
  BY <1>4, <1>6, <1>10, <1>11 DEF WholeInv

\* The fragment in hand is the next one of the call in the buffer.
LEMMA WholeDelta ==
  ASSUME OInv, ToolUseDelta, Handle, block = "tool"
  PROVE  WholeInv' /\ AnswerInv'
<1>1. /\ Pending("delta") /\ ~Pending("start") /\ ~Pending("end") /\ block = "tool"
      /\ outbox' = <<>> /\ UNCHANGED <<toolName, toolIndex, skip, insp, evals>>
  <2>1. /\ Pending("delta") /\ ~Pending("start") /\ ~Pending("end")
        /\ UNCHANGED <<toolName, toolIndex, skip, insp, outbox, evals>> /\ outbox = <<>>
    BY DEF ToolUseDelta, Handling, Pending
  <2> QED
    BY <2>1 DEF OInv, RInv, AInv, InTurn
<1>2. outbox' \in Seq(Frame) /\ DOMAIN outbox' = {}
  BY <1>1
<1>3. /\ Stream' = Stream \o outbox' /\ Stream \in Seq(Frame)
      /\ UNCHANGED <<block, call, frags, openCalls, connected>>
      /\ \A ev : ~Pending(ev)'
      /\ toolIndex \in Nat /\ (\A c \in Calls : frags[c] \in Nat)
      /\ strayed => strayed'
  BY <1>2, HandleFacts
<1>4. (connected' /\ ~strayed' => WholeIn(Stream', frags')) /\ StartsEnded'
  BY <1>2, <1>3, StreamGrows
<1>5. toolName = call /\ Head(events).frag = [call |-> call, frag |-> frags[call]]
  BY <1>1 DEF OInv, WholeInv, Current, InHandNow
<1>6. Current'
  BY <1>1, <1>2, <1>5, CurrentStays
<1>7. /\ BufferFilled /\ AnswerInv /\ (Buffered => ~skip)
      /\ toolBuf \in Seq(Frame)
  BY DEF OInv, WholeInv, RInv, RefusalInv, AInv, TypeOK
<1> DEFINE f == FrameOf("delta", call, frags[call], toolIndex)
<1>8. f.kind = "delta"
  BY DEF FrameOf
<1>9. \/ skip /\ toolBuf' = toolBuf
      \/ ~skip /\ toolBuf' = Append(toolBuf, f)
  BY <1>5 DEF ToolUseDelta
<1> HIDE DEF f
<1>10. /\ Len(toolBuf) \in Nat /\ DOMAIN toolBuf = 1 .. Len(toolBuf)
       /\ ~skip => /\ Len(toolBuf') = Len(toolBuf) + 1 /\ DOMAIN toolBuf' = 1 .. Len(toolBuf')
                   /\ toolBuf'[Len(toolBuf')] = f
                   /\ \A k \in 1 .. Len(toolBuf) : toolBuf'[k] = toolBuf[k]
  BY <1>7, <1>9
<1>11. Buffered' = Buffered
  <2>1. CASE skip
    BY <1>9, <2>1 DEF Buffered
  <2>2. CASE ~skip
    <3>1. \A i \in DOMAIN toolBuf' : i \in DOMAIN toolBuf \/ toolBuf'[i].kind # "start"
      BY <1>8, <1>10, <2>2
    <3>2. DOMAIN toolBuf \subseteq DOMAIN toolBuf' /\ \A i \in DOMAIN toolBuf : toolBuf'[i] = toolBuf[i]
      BY <1>10, <2>2
    <3> QED
      BY <3>1, <3>2 DEF Buffered
  <2> QED
    BY <2>1, <2>2
<1>12. BufferFilled'
  <2>0. Buffered' => toolName' \in Calls
    BY <1>1, <1>7, <1>11 DEF BufferFilled
  <2> SUFFICES ASSUME Buffered, ~strayed
               PROVE  /\ toolName' \in Calls /\ Len(toolBuf') = frags'[toolName'] + 1
                      /\ Holds(toolBuf, toolName, toolIndex)'
    BY <1>3, <1>11, <1>1, <2>0 DEF BufferFilled, Filled, InHandNow
  <2>1. /\ ~skip /\ call \in Calls /\ Len(toolBuf) = frags[call] + 0
        /\ Holds(toolBuf, call, toolIndex)
    BY <1>1, <1>5, <1>7 DEF BufferFilled, Filled, InHandNow
  <2>2. frags[call] \in Nat /\ Len(toolBuf') = frags[call] + 1
    BY <1>3, <1>10, <2>1
  <2>3. 1 \in 1 .. Len(toolBuf)
    <3>1. DOMAIN toolBuf # {}
      BY DEF Buffered
    <3> QED
      BY <1>10, <3>1
  <2>4. toolBuf'[1] = FrameOf("start", call, 0, toolIndex)
    BY <1>10, <2>1, <2>3 DEF Holds
  <2>5. ASSUME NEW k \in 1 .. Len(toolBuf') - 1
        PROVE  toolBuf'[k + 1] = FrameOf("delta", call, k, toolIndex)
    <3>1. CASE k = frags[call]
      BY <1>10, <2>1, <2>2, <3>1 DEF f
    <3>2. CASE k # frags[call]
      <4>1. k \in 1 .. Len(toolBuf) - 1 /\ k + 1 \in 1 .. Len(toolBuf)
        BY <1>10, <2>1, <2>2, <3>2
      <4> QED
        BY <1>10, <2>1, <4>1 DEF Holds
    <3> QED
      BY <3>1, <3>2
  <2>6. Holds(toolBuf', call, toolIndex)
    BY <2>4, <2>5 DEF Holds
  <2> QED
    BY <1>1, <1>3, <1>5, <2>1, <2>2, <2>6 DEF Holds
<1>13. AnswerInv'
  BY <1>1, <1>2, <1>3, <1>7, <1>11, AnswersStay DEF AnswerInv
<1> QED
  BY <1>4, <1>6, <1>12, <1>13 DEF WholeInv

\* A denied call was answered by its stub.
LEMMA WholeSkipped ==
  ASSUME OInv, SkippedEnd, Handle
  PROVE  WholeInv' /\ AnswerInv'
<1>1. /\ ~Pending("start") /\ block = "none" /\ skip
      /\ toolBuf' = <<>> /\ outbox' = <<>>
  <2>1. /\ Pending("end") /\ ~Pending("start") /\ skip
        /\ toolBuf' = <<>> /\ outbox' = <<>>
    BY DEF SkippedEnd, Handling, Pending
  <2> QED
    BY <2>1 DEF OInv, RInv, AInv, InTurn
<1>2. outbox' \in Seq(Frame) /\ DOMAIN outbox' = {}
  BY <1>1
<1>3. /\ Stream' = Stream \o outbox' /\ Stream \in Seq(Frame)
      /\ UNCHANGED <<block, call, frags, openCalls, connected>> /\ (strayed => strayed')
  BY <1>2, HandleFacts
<1>4. (connected' /\ ~strayed' => WholeIn(Stream', frags')) /\ StartsEnded'
  BY <1>2, <1>3, StreamGrows
<1>5. Current'
  BY <1>1, <1>2, CurrentStays
<1>6. BufferFilled'
  BY <1>1 DEF BufferFilled, Buffered
<1>7. ~Buffered /\ AnswerInv
  BY <1>1 DEF OInv, RInv, RefusalInv
<1>8. AnswerInv'
  BY <1>1, <1>2, <1>3, <1>7, AnswersStay DEF AnswerInv
<1> QED
  BY <1>4, <1>5, <1>6, <1>8 DEF WholeInv

\* Refused: the stub is the answer, and what stays in the buffer was refused by
\* the engine. Forwarded: the buffer was the ended call, and is sent whole.
LEMMA WholeEnd ==
  ASSUME OInv, ToolUseEnd, Handle
  PROVE  WholeInv' /\ AnswerInv'
<1>0. RInv
  BY DEF OInv
<1>1. PICK e : /\ evals' = evals \cup {e}
               /\ e.name = toolName /\ e.input = toolInput
               /\ e.defended => Mode = "block" /\ e.refused
               /\ Defended => e.defended
               /\ insp = EmptyBuffer /\ e.refused => e.defended
               /\ \/ /\ e.refused /\ toolBuf' = toolBuf
                     /\ outbox' = << FrameOf("stub", toolName, 0, toolIndex) >>
                  \/ /\ ~e.refused /\ toolBuf' = <<>>
                     /\ outbox' = Append(toolBuf, FrameOf("stop", toolName, 0, toolIndex))
  BY <1>0, EndOutcome
<1>2. /\ Pending("end") /\ ~Pending("start") /\ ~Pending("delta") /\ block = "none"
      /\ UNCHANGED <<toolName, toolInput, strayed>>
  <2>1. /\ Pending("end") /\ ~Pending("start") /\ ~Pending("delta")
        /\ UNCHANGED <<toolName, toolInput, strayed>>
    BY DEF ToolUseEnd, Handling, Pending
  <2> QED
    BY <2>1 DEF OInv, RInv, AInv, InTurn
<1>3. outbox' \in Seq(Frame)
  BY <1>0, ToolUseEndType DEF RInv, AInv
<1>4. /\ Stream' = Stream \o outbox' /\ Stream \in Seq(Frame)
      /\ UNCHANGED <<block, call, frags, openCalls, connected>>
      /\ \A ev : ~Pending(ev)'
      /\ toolIndex \in Nat /\ \A c \in Calls : frags[c] \in Nat
  BY <1>3, HandleFacts
<1>5. Current'
  BY <1>2, <1>3, CurrentStays
<1>6. /\ BufferFilled /\ AnswerInv /\ StartsEnded
      /\ connected /\ ~strayed => WholeIn(Stream, frags)
      /\ toolBuf \in Seq(Frame) /\ toolName <= call
  BY DEF OInv, WholeInv, RInv, RefusalInv, StubsBefore, AInv, TypeOK
<1>7. ~strayed /\ Buffered => Defended \/ insp = EmptyBuffer
  BY <1>0 DEF RInv, RefusalInv, BufferedJudged
<1>8. CASE /\ e.refused /\ toolBuf' = toolBuf
           /\ outbox' = << FrameOf("stub", toolName, 0, toolIndex) >>
  <2> DEFINE f == FrameOf("stub", toolName, 0, toolIndex)
  <2>1. f.kind = "stub" /\ f.call = toolName
    BY DEF FrameOf
  <2>2. DOMAIN outbox' = {1} /\ outbox'[1] = f
    BY <1>8
  <2> HIDE DEF f
  <2>3. (connected' /\ ~strayed' => WholeIn(Stream', frags')) /\ StartsEnded'
    BY <1>2, <1>3, <1>4, <2>1, <2>2, StreamGrows
  <2>4. Buffered' = Buffered
    BY <1>8 DEF Buffered
  <2>5. ~strayed /\ Buffered => Defended'
    <3>1. ~strayed /\ Buffered => e.defended
      BY <1>1, <1>7, <1>8
    <3> QED
      BY <1>1, <1>2, <3>1 DEF Defended
  <2>6. BufferFilled'
    BY <1>2, <1>4, <1>6, <1>8, <2>4, <2>5 DEF BufferFilled, Filled, Holds, InHandNow
  <2>7. \A c \in 1 .. call : connected => Answered(c)'
    BY <1>2, <1>3, <1>4, <1>6, <2>1, <2>2, AnswersStay DEF AnswerInv
  <2>8. AnswerInv'
    BY <1>4, <2>7 DEF AnswerInv
  <2> QED
    BY <1>5, <2>3, <2>6, <2>8 DEF WholeInv
<1>9. CASE /\ ~e.refused /\ toolBuf' = <<>>
           /\ outbox' = Append(toolBuf, FrameOf("stop", toolName, 0, toolIndex))
  <2> DEFINE f == FrameOf("stop", toolName, 0, toolIndex)
  <2>1. f.kind = "stop"
    BY DEF FrameOf
  <2>2. /\ DOMAIN toolBuf \subseteq DOMAIN outbox' /\ \A j \in DOMAIN toolBuf : outbox'[j] = toolBuf[j]
        /\ \A j \in DOMAIN outbox' : j \in DOMAIN toolBuf \/ outbox'[j] = f
    BY <1>6, <1>9
  <2>3. ~Defended
    BY <1>1, <1>9
  <2>4. \A j \in DOMAIN outbox' : outbox'[j].kind = "start" => Buffered /\ outbox'[j].call = toolName
    <3>1. \A j \in DOMAIN toolBuf : toolBuf[j].kind = "start" => toolBuf[j].call = toolName
      BY <1>0 DEF RInv, GateInv, BufferedIsCurrent, StartsOf
    <3> QED
      BY <2>1, <2>2, <3>1 DEF Buffered
  <2> HIDE DEF f
  <2>5. (connected' /\ ~strayed' => WholeIn(Stream', frags')) /\ StartsEnded'
    <3>1. CASE ~Buffered
      BY <1>2, <1>3, <1>4, <2>4, <3>1, StreamGrows
    <3>2. CASE Buffered
      <4>1. /\ toolName \in Calls
            /\ ~strayed => /\ Len(toolBuf) = frags[toolName] + 1
                           /\ Holds(toolBuf, toolName, toolIndex)
        BY <1>2, <1>6, <2>3, <3>2 DEF BufferFilled, Filled, InHandNow
      <4>2. \A i \in DOMAIN Stream : Stream[i].kind = "start" => frags[Stream[i].call] \in Nat
        BY <1>4, <1>6 DEF StartsEnded
      <4>3. connected /\ ~strayed => WholeIn(Stream \o outbox', frags)
        BY <1>4, <1>6, <1>9, <4>1, <4>2, WholeDrain
      <4>4. \A i \in DOMAIN Stream' : Stream'[i].kind = "start" =>
              \/ i \in DOMAIN Stream /\ Stream'[i] = Stream[i]
              \/ Stream'[i].call = toolName
        BY <1>3, <1>4, <2>4, ConcatElements
      <4>5. StartsEnded'
        BY <1>2, <1>4, <1>6, <4>1, <4>4 DEF StartsEnded
      <4> QED
        BY <1>2, <1>4, <4>3, <4>5
    <3> QED
      BY <3>1, <3>2
  <2>6. BufferFilled'
    BY <1>9 DEF BufferFilled, Buffered
  <2>7. Buffered => \E j \in DOMAIN outbox' : outbox'[j].kind = "start" /\ outbox'[j].call = toolName
    BY <2>2, <2>4 DEF Buffered
  <2>8. \A c \in 1 .. call : connected => Answered(c)'
    BY <1>2, <1>3, <1>4, <1>6, <2>7, AnswersStay DEF AnswerInv
  <2>9. AnswerInv'
    BY <1>4, <2>8 DEF AnswerInv
  <2> QED
    BY <1>5, <2>5, <2>6, <2>9 DEF WholeInv
<1> QED
  BY <1>1, <1>8, <1>9

-------------------------------------------------------------------------------
(* The other steps and the theorems.                                       *)

\* While the client listens a send moves a frame and loses none; what the client
\* gets after it left is promised by nothing.
LEMMA WholeSend ==
  ASSUME OInv, Send
  PROVE  WholeInv' /\ AnswerInv'
<1>1. /\ outbox # <<>> /\ out \in Seq(Frame) /\ outbox \in Seq(Frame)
      /\ outbox' = Tail(outbox)
      /\ \/ connected /\ out' = Append(out, Head(outbox))
         \/ ~connected /\ out' = out
      /\ UNCHANGED <<block, call, frags, openCalls, eof, events, handler, connected, log, evals>>
  BY DEF OInv, RInv, AInv, TypeOK, Send, upstream
<1>2. connected => Stream' = Stream
  <2>1. Append(out, Head(outbox)) \o Tail(outbox) = out \o outbox
    BY <1>1
  <2> QED
    BY <1>1, <2>1 DEF Stream
<1>3. \A i \in DOMAIN Stream' : \E j \in DOMAIN Stream : Stream'[i] = Stream[j]
  <2>1. CASE ~connected
    <3> DEFINE at(i) == IF i <= Len(out) THEN i ELSE i + 1
    <3>1. Stream' = out \o Tail(outbox)
      BY <1>1, <2>1 DEF Stream
    <3>2. \A i \in DOMAIN (out \o Tail(outbox)) :
            at(i) \in DOMAIN (out \o outbox) /\ (out \o Tail(outbox))[i] = (out \o outbox)[at(i)]
      BY <1>1
    <3> QED
      BY <3>1, <3>2 DEF Stream
  <2> QED
    BY <1>2, <2>1
<1>4. Buffered' = Buffered /\ Defended' = Defended /\ \A ev : Pending(ev)' = Pending(ev)
  BY <1>1 DEF Buffered, Defended, handler, Pending
<1>5. /\ connected /\ ~strayed => WholeIn(Stream, frags)
      /\ StartsEnded /\ BufferFilled /\ Current /\ AnswerInv
  BY DEF OInv, WholeInv
<1>6. connected' /\ ~strayed' => WholeIn(Stream', frags')
  BY <1>1, <1>2, <1>5 DEF handler
<1>7. StartsEnded'
  BY <1>1, <1>3, <1>5 DEF StartsEnded
<1>8. BufferFilled'
  BY <1>1, <1>4, <1>5 DEF BufferFilled, Filled, Holds, InHandNow, handler
<1>9. Current'
  BY <1>1, <1>4, <1>5 DEF Current, InHandNow, handler
<1>10. AnswerInv'
  <2>1. connected => \A c : Answered(c)' = Answered(c)
    BY <1>2 DEF Answered
  <2> QED
    BY <1>1, <1>4, <1>5, <2>1 DEF AnswerInv, handler
<1> QED
  BY <1>6, <1>7, <1>8, <1>9, <1>10 DEF WholeInv

LEMMA WholeQuiet ==
  ASSUME OInv, Complete \/ Client \/ UNCHANGED vars
  PROVE  WholeInv' /\ AnswerInv'
<1>1. /\ UNCHANGED <<block, call, frags, openCalls, eof, events, handler, evals, out, outbox>>
      /\ connected' => connected
      /\ log' # <<>> => log # <<>> \/ (eof /\ events = <<>>)
  BY DEF Complete, Client, Receive, Disconnect, vars, upstream, channel
<1>2. /\ Stream' = Stream /\ Buffered' = Buffered /\ Defended' = Defended
      /\ \A ev : Pending(ev)' = Pending(ev)
      /\ \A c : Answered(c)' = Answered(c)
  BY <1>1 DEF Stream, Buffered, Defended, handler, Pending, Answered
<1>3. /\ connected /\ ~strayed => WholeIn(Stream, frags)
      /\ StartsEnded /\ BufferFilled /\ Current /\ AnswerInv
  BY DEF OInv, WholeInv
<1>4. connected' /\ ~strayed' => WholeIn(Stream', frags')
  BY <1>1, <1>2, <1>3 DEF handler
<1>5. StartsEnded'
  BY <1>1, <1>2, <1>3 DEF StartsEnded
<1>6. BufferFilled'
  BY <1>1, <1>2, <1>3 DEF BufferFilled, Filled, Holds, InHandNow, handler
<1>7. Current'
  BY <1>1, <1>2, <1>3 DEF Current, InHandNow, handler
<1>8. AnswerInv'
  BY <1>1, <1>2, <1>3 DEF AnswerInv, handler
<1> QED
  BY <1>4, <1>5, <1>6, <1>7, <1>8 DEF WholeInv

LEMMA WholeStep ==
  ASSUME OInv, [Next]_vars, Protocol = "anthropic"
  PROVE  OInv'
<1>1. RInv'
  BY RefusalStep DEF OInv
<1>2. WholeInv' /\ AnswerInv'
  <2>1. CASE Upstream
    BY <2>1, WholeUpstream
  <2>2. CASE Handle
    BY <2>2, WholeText, WholeStart, WholeDelta, WholeStray, WholeSkipped, WholeEnd, WholeRaw
       DEF Handle
  <2>3. CASE Send
    BY <2>3, WholeSend
  <2>4. CASE Complete \/ Client \/ UNCHANGED vars
    BY <2>4, WholeQuiet
  <2> QED
    BY <2>1, <2>2, <2>3, <2>4 DEF Next
<1> QED
  BY <1>1, <1>2 DEF OInv

LEMMA WholeInitial == Init => OInv
<1> SUFFICES ASSUME Init PROVE OInv
  OBVIOUS
<1>1. Stream = <<>> /\ ~Buffered /\ \A ev : ~Pending(ev)
  BY DEF Init, Stream, Buffered, Pending
<1>2. WholeIn(Stream, frags) /\ StartsEnded /\ BufferFilled
  BY <1>1 DEF WholeIn, StartsEnded, BufferFilled
<1>3. Current
  BY <1>1 DEF Init, Current, InHandNow
<1>4. AnswerInv
  BY DEF Init, AnswerInv
<1> QED
  BY <1>2, <1>3, <1>4, RefusalInitial DEF OInv, WholeInv

LEMMA WholeAlways == Protocol = "anthropic" => (Spec => []OInv)
<1> SUFFICES ASSUME Protocol = "anthropic" PROVE Spec => []OInv
  OBVIOUS
<1>1. OInv /\ [Next]_vars => OInv'
  BY WholeStep
<1> QED
  BY <1>1, WholeInitial, PTL DEF Spec

\* A tool use that is forwarded arrives whole while the client listens: its start,
\* the fragments in order, its stop, under one index and next to each other
\* (src/src/proxy.rs:824-838), whatever was denied, refused or interleaved before,
\* but for what lengthens a refused one from a block that is no tool_use.
THEOREM ForwardedArrivesWhole == Protocol = "anthropic" => (Spec => []ForwardedWhole)
<1>1. OInv => ForwardedWhole
  BY DEF OInv, WholeInv, WholeIn, ForwardedWhole
<1> QED
  BY <1>1, WholeAlways, PTL

\* When the stream is recorded and the client still listens, every tool use that
\* ended was answered, with its frames or with a stub (src/src/proxy.rs:671-845):
\* none is lost between tool_buf, the skipping of a denied one and the channel.
THEOREM EndedIsAnswered == Protocol = "anthropic" => (Spec => []CallsAnswered)
<1>1. OInv => CallsAnswered
  <2> SUFFICES ASSUME OInv, log # <<>>, connected, NEW c \in (1 .. call) \ openCalls
               PROVE  Answered(c)
    BY DEF CallsAnswered, Answered
  <2>1. ~Pending("start") /\ ~Pending("end") /\ (block = "tool" => call \in openCalls)
    BY DEF OInv, WholeInv, Current, Pending
  <2> QED
    BY <2>1 DEF OInv, AnswerInv
<1> QED
  BY <1>1, WholeAlways, PTL

-------------------------------------------------------------------------------
(* The gate for whole tool calls.                                          *)

\* Each step behind the Anthropic adapter is one of the gate.
LEMMA AnthropicGate ==
  ASSUME OInv, AdmittedOnly, [Next]_vars, Protocol = "anthropic"
  PROVE  GateMoves
<1>1. /\ RInv /\ TypeOK /\ BufferedIsCurrent /\ call \in Nat
      /\ AnswerInv /\ StartsEnded /\ StubsBefore /\ strayed \in BOOLEAN
  BY DEF OInv, WholeInv, RInv, RefusalInv, AInv, GateInv, TypeOK
<1>2. \A c \in Nat : Sent("stub", c) => c <= call
  BY <1>1 DEF StubsBefore, StubIn, Sent
<1>3. CASE Upstream
  <2>1. Stream' = Stream /\ connected' = connected /\ strayed' = strayed /\ events = <<>>
    BY <1>3, UpstreamKinds DEF Stream
  <2>2. CASE call' = call
    BY <2>1, <2>2, GateWaits
  <2>3. CASE block = "none" /\ call' = call + 1 /\ call' \in Calls
    <3>1. ~Answered(call')
      <4>1. call' \in Nat /\ ~(call' <= call)
        BY <1>1, <2>3
      <4>2. ~Sent("start", call') /\ ~Sent("stub", call')
        BY <1>1, <1>2, <4>1 DEF StartsEnded, Sent
      <4> QED
        BY <4>2 DEF Answered, Sent
    <3>2. connected => \A c \in 1 .. call : Answered(c)
      BY <1>1, <2>1, <2>3 DEF AnswerInv, Pending
    <3> QED
      BY <1>1, <2>1, <2>3, <3>1, <3>2, GateBegins
  <2> QED
    BY <1>3, <2>2, <2>3, UpstreamKinds
<1>4. CASE Handle /\ ~ToolUseEnd
  <2>1. Pending("start") => Head(events).call <= call
    BY <1>1 DEF RInv, AInv, InTurn
  <2> QED
    BY <1>1, <1>4, <2>1, GateBeforeEnd
<1>5. CASE Handle /\ ToolUseEnd
  <2>1. PICK e : /\ evals' = evals \cup {e}
                 /\ e.defended => Mode = "block" /\ e.refused
                 /\ Defended => e.defended
                 /\ \/ /\ e.refused
                       /\ outbox' = << FrameOf("stub", toolName, 0, toolIndex) >>
                    \/ /\ ~e.refused
                       /\ outbox' = Append(toolBuf, FrameOf("stop", toolName, 0, toolIndex))
    BY <1>1, <1>5, EndOutcome
  <2>2. \/ Mode = "block" /\ outbox' = << FrameOf("stub", toolName, 0, toolIndex) >>
        \/ outbox' = Append(toolBuf, FrameOf("stop", toolName, 0, toolIndex))
    BY <1>5 DEF ToolUseEnd
  <2>3. CASE Mode = "block" /\ outbox' = << FrameOf("stub", toolName, 0, toolIndex) >>
    BY <1>1, <1>5, <2>3, GateStub DEF StubsBefore
  <2>4. CASE ~e.refused /\ outbox' = Append(toolBuf, FrameOf("stop", toolName, 0, toolIndex))
    <3>1. ~Defended
      BY <2>1, <2>4
    <3>2. \A j \in DOMAIN toolBuf : toolBuf[j].kind = "start" => strayed \/ ~Sent("stub", toolName)
      BY <1>1, <3>1 DEF RInv, RefusalInv, BufferedJudged, Buffered, StubIn, Sent
    <3>3. \A j \in DOMAIN toolBuf : toolBuf[j].kind # "stub"
      BY <1>1 DEF RInv, RefusalInv
    <3> QED
      BY <1>1, <1>5, <2>4, <3>2, <3>3, GateForward DEF StubsBefore
  <2>5. ~(<< FrameOf("stub", toolName, 0, toolIndex) >> = Append(toolBuf, FrameOf("stop", toolName, 0, toolIndex)))
    <3>1. toolBuf \in Seq(Frame)
      BY <1>1 DEF TypeOK
    <3>2. FrameOf("stub", toolName, 0, toolIndex) # FrameOf("stop", toolName, 0, toolIndex)
      BY DEF FrameOf
    <3> QED
      BY <3>1, <3>2
  <2> QED
    BY <2>1, <2>2, <2>3, <2>4, <2>5
<1>6. CASE Send \/ Complete \/ Client \/ UNCHANGED vars
  BY <1>1, <1>6, GateOther
<1> QED
  BY <1>3, <1>4, <1>5, <1>6 DEF Next

\* The stream behind the Anthropic adapter is a gate for whole tool calls: each
\* is settled once and before the next begins, no denied one is given, and in
\* monitor mode no other is replaced (src/src/proxy.rs:664-845), for all that the
\* handlers leave in tool_buf and judge again when a text block ends; once a refused
\* one is lengthened by another block's input, the gate promises nothing (Fate).
THEOREM AnthropicIsToolGate == Protocol = "anthropic" => (Spec => StreamIsToolGate)
<1> SUFFICES ASSUME Protocol = "anthropic" PROVE Spec => StreamIsToolGate
  OBVIOUS
<1>1. OInv /\ AdmittedOnly /\ [Next]_vars => [ToolCalls!Next]_([c \in Calls |-> Fate(c)])
  BY AnthropicGate DEF GateMoves, Fates
<1> QED
  BY <1>1, GateInitially, GateAlways, WholeAlways, PTL DEF Spec, StreamIsToolGate, ToolCalls!Spec
===============================================================================
