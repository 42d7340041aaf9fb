-------------------------- MODULE ProxyStreamProofs --------------------------
(***************************************************************************)
(* Proofs about ProxyStream, for every mode, policy and bound.  For both   *)
(* protocols: the types, and that no tool_use start reaches the client     *)
(* unless an evaluation of that tool did not refuse it.  Behind the OpenAI *)
(* adapter, as long as calls do not overlap: a forwarded call arrives      *)
(* whole, one that was replaced stays out, every ended one is answered,    *)
(* and the stream is a gate for whole tool calls (ToolGate).               *)
(***************************************************************************)
EXTENDS ProxyStream, FiniteSetTheorems, TLAPS

\* The start frames of a sequence are of evaluated, unrefused tool uses.
Evaluated(evs, c) == \E e \in evs : e.name = c /\ ~e.refused
StartsEvaluated(evs, frames) ==
  \A i \in DOMAIN frames : frames[i].kind = "start" => Evaluated(evs, frames[i].call)

\* What makes ForwardedWasEvaluated inductive: a start frame waiting in the
\* buffer is of the tool whose name the next end will be evaluated under.
StartsOf(c, frames) ==
  \A i \in DOMAIN frames : frames[i].kind = "start" => frames[i].call = c
BufferedIsCurrent == StartsOf(toolName, toolBuf)

GateInv ==
  /\ BufferedIsCurrent
  /\ StartsEvaluated(evals, out)
  /\ StartsEvaluated(evals, outbox)

IInv == TypeOK /\ GateInv

-------------------------------------------------------------------------------
(* Lemmas about the operators.                                             *)

\* The number of calls still open is a number.
LEMMA OpenCallsFinite ==
  ASSUME NEW S \in SUBSET Calls
  PROVE  IsFiniteSet(S) /\ Cardinality(S) \in Nat
<1>1. IsFiniteSet(1 .. MaxCalls)
  BY FS_Interval, ProxyStreamAssumption
<1>2. IsFiniteSet(S)
  BY <1>1, FS_Subset DEF Calls
<1> QED
  BY <1>2, FS_CardinalityType

\* The events an OpenAI finish emits are events.
LEMMA EndsType ==
  ASSUME openCalls \in SUBSET Calls
  PROVE  Ends \in Seq(Event)
<1>1. Cardinality(openCalls) \in Nat
  BY OpenCallsFinite
<1>2. EndEvent \in Event
  BY DEF EndEvent, Event
<1> QED
  BY <1>1, <1>2 DEF Ends

\* FrameOf builds frames.
LEMMA FrameType ==
  ASSUME NEW k \in {"raw", "text", "textstub", "start", "delta", "stop", "stub"},
         NEW c \in Calls \cup {NoCall}, NEW f \in 0 .. MaxFrags, NEW i \in Nat
  PROVE  /\ FrameOf(k, c, f, i) \in Frame
         /\ FrameOf(k, c, f, i).kind = k /\ FrameOf(k, c, f, i).call = c
  BY DEF FrameOf, Frame

LEMMA WholeFrameType ==
  ASSUME NEW k \in {"raw", "text", "textstub", "start", "delta", "stop", "stub"},
         NEW c \in Calls \cup {NoCall}, NEW i \in Nat
  PROVE  FrameOf(k, c, 0, i) \in Frame
<1>1. 0 \in 0 .. MaxFrags
  BY ProxyStreamAssumption
<1> QED
  BY <1>1, FrameType

LEMMA AppendType ==
  ASSUME NEW S, NEW s \in Seq(S), NEW e \in S
  PROVE  Append(s, e) \in Seq(S) /\ <<e>> \in Seq(S) /\ <<>> \in Seq(S)
  OBVIOUS

\* Scanning and feeding keep their types.
LEMMA InspectorTypes ==
  ASSUME NEW buf \in [text: SUBSET (Level \cup {"split"}), input: SUBSET Fragment],
         NEW l \in Level
  PROVE  /\ FeedText(buf, l) \in [text: SUBSET (Level \cup {"split"}), input: SUBSET Fragment]
         /\ Scan(buf) \in Nat
  BY DEF FeedText, Scan, Level

LEMMA EmptyBufferType ==
  EmptyBuffer \in [text: SUBSET (Level \cup {"split"}), input: SUBSET Fragment]
  BY DEF EmptyBuffer

LEMMA WorseType == ASSUME NEW a \in Nat, NEW b \in Nat PROVE Worse(a, b) \in Nat
  BY DEF Worse

\* The head and the tail of the event queue.
LEMMA HeadEvent ==
  ASSUME events \in Seq(Event), events # <<>>
  PROVE  /\ Head(events) \in Event
         /\ Tail(events) \in Seq(Event)
  OBVIOUS

LEMMA EventParts ==
  ASSUME NEW e \in Event
  PROVE  /\ e.ev = "text" => e.level \in Level
         /\ e.ev = "start" => e.call \in Calls
         /\ e.ev = "delta" => e.frag \in Fragment
  BY DEF Event

LEMMA FragmentParts ==
  ASSUME NEW f \in Fragment
  PROVE  f.call \in Calls \cup {NoCall} /\ f.frag \in 0 .. MaxFrags
<1>1. CASE f \in [call: Calls, frag: 1 .. MaxFrags]
  BY <1>1, ProxyStreamAssumption
<1>2. CASE f = Stray
  BY <1>2, ProxyStreamAssumption DEF Stray
<1> QED
  BY <1>1, <1>2 DEF Fragment

-------------------------------------------------------------------------------
(* Type correctness.                                                       *)

LEMMA InitType == Init => TypeOK
<1> SUFFICES ASSUME Init PROVE TypeOK
  OBVIOUS
<1>1. frags \in [Calls -> 0 .. MaxFrags]
  BY ProxyStreamAssumption DEF Init
<1>2. evals \subseteq [name: Calls \cup {NoCall}, input: Seq(Fragment),
                       inspected: BOOLEAN, defended: BOOLEAN, refused: BOOLEAN]
  BY DEF Init
<1>3. openCalls \subseteq Calls /\ chunks \in 0 .. MaxChunks
  BY ProxyStreamAssumption DEF Init
<1>4. /\ events \in Seq(Event) /\ toolBuf \in Seq(Frame) /\ toolInput \in Seq(Fragment)
      /\ outbox \in Seq(Frame) /\ out \in Seq(Frame)
      /\ log \in Seq([severity: Nat, blocked: Nat])
  BY DEF Init
<1>5. /\ block \in {"none", "text", "tool", "other"} /\ call \in Nat /\ closed \in Nat
      /\ eof \in BOOLEAN /\ toolName \in Calls \cup {NoCall} /\ toolIndex \in Nat
      /\ skip \in BOOLEAN /\ maxSev \in Nat /\ blocked \in Nat
      /\ read \in Nat /\ connected \in BOOLEAN /\ strayed \in BOOLEAN
  BY DEF Init
<1>6. insp \in [text: SUBSET (Level \cup {"split"}), input: SUBSET Fragment]
  BY EmptyBufferType DEF Init
<1> QED
  BY <1>1, <1>2, <1>3, <1>4, <1>5, <1>6, Zenon DEF TypeOK

\* The upstream's steps: they touch the body and the event queue only.
LEMMA UpstreamType == TypeOK /\ Upstream => TypeOK'
<1> SUFFICES ASSUME TypeOK, Upstream PROVE TypeOK'
  OBVIOUS
<1> USE ProxyStreamAssumption
<1>0. Ends \in Seq(Event) /\ EndEvent \in Event /\ RawEvent \in Event
      /\ \A l \in Level : TextEvent(l) \in Event
  BY EndsType DEF TypeOK, Event, EndEvent, RawEvent, TextEvent
<1>e. StrayEvent \in Event
  BY DEF StrayEvent, Event, Fragment
<1>s. <<EndEvent>> \in Seq(Event) /\ <<RawEvent>> \in Seq(Event) /\ <<StrayEvent>> \in Seq(Event)
      /\ \A l \in Level : <<TextEvent(l)>> \in Seq(Event)
  BY <1>0, <1>e
<1>1. ASSUME NEW c \in Nat, NewCall(c)
      PROVE  call' \in Nat /\ openCalls' \subseteq Calls /\ events' \in Seq(Event)
  BY <1>1 DEF NewCall, TypeOK, Emit, StartEvent, Event
<1>2. ASSUME NEW c \in Nat, NewFragment(c)
      PROVE  frags' \in [Calls -> 0 .. MaxFrags] /\ events' \in Seq(Event)
  <2>0. c \in Calls
    BY <1>2 DEF NewFragment, TypeOK
  <2>1. frags[c] + 1 \in 1 .. MaxFrags
    BY <1>2, <2>0 DEF NewFragment, TypeOK
  <2>2. DeltaEvent(c) \in Event
    BY <2>0, <2>1 DEF DeltaEvent, Event, Fragment
  <2> QED
    BY <2>0, <2>1, <2>2, <1>2 DEF NewFragment, TypeOK, Emit
<1>3. /\ block \in {"none", "text", "tool", "other"} /\ call \in Nat
      /\ frags \in [Calls -> 0 .. MaxFrags] /\ openCalls \subseteq Calls
      /\ closed \in Nat /\ chunks \in 0 .. MaxChunks /\ eof \in BOOLEAN /\ events \in Seq(Event)
  BY DEF TypeOK
<1>4. ASSUME UNCHANGED <<handler, outbox, channel, log, evals>>,
             block' \in {"none", "text", "tool", "other"}, call' \in Nat,
             frags' \in [Calls -> 0 .. MaxFrags], openCalls' \subseteq Calls,
             closed' \in Nat, chunks' \in 0 .. MaxChunks, eof' \in BOOLEAN,
             events' \in Seq(Event)
      PROVE  TypeOK'
  BY <1>4 DEF TypeOK, handler, channel
<1>5. Chunk => chunks' \in 0 .. MaxChunks
  BY <1>3 DEF Chunk
<1>6. CASE Anthropic
  <2>0. UNCHANGED <<handler, outbox, channel, log, evals>>
    BY <1>6 DEF Anthropic
  <2>1. CASE AnthropicStart
    <3>1. call' \in Nat /\ openCalls' \subseteq Calls /\ events' \in Seq(Event)
          /\ block' \in {"none", "text", "tool", "other"}
      <4>1. CASE block' = "tool" /\ NewCall(call + 1)
        BY <1>1, <1>3, <4>1
      <4>2. CASE block' = "text" /\ Emit(<<TextEvent("clean")>>) /\ UNCHANGED <<call, openCalls>>
        <5>1. "clean" \in Level
          BY DEF Level
        <5> QED
          BY <1>s, <1>3, <4>2, <5>1 DEF Emit
      <4>3. CASE block' = "other" /\ Emit(<<RawEvent>>) /\ UNCHANGED <<call, openCalls>>
        BY <1>s, <1>3, <4>3 DEF Emit
      <4> QED
        BY <2>1, <4>1, <4>2, <4>3 DEF AnthropicStart
    <3>2. Chunk /\ UNCHANGED <<frags, closed, eof>>
      BY <2>1 DEF AnthropicStart
    <3> QED
      BY <1>3, <1>4, <1>5, <2>0, <3>1, <3>2
  <2>2. CASE AnthropicDelta
    <3>1. frags' \in [Calls -> 0 .. MaxFrags] /\ events' \in Seq(Event)
      <4>1. CASE block = "tool" /\ NewFragment(call)
        BY <1>2, <1>3, <4>1
      <4>2. CASE /\ block = "other" /\ (Emit(<<RawEvent>>) \/ Emit(<<StrayEvent>>))
                 /\ UNCHANGED frags
        BY <1>s, <1>3, <4>2 DEF Emit
      <4>3. CASE block = "text" /\ (\E l \in Level : Emit(<<TextEvent(l)>>)) /\ UNCHANGED frags
        BY <1>s, <1>3, <4>3 DEF Emit
      <4> QED
        BY <2>2, <4>1, <4>2, <4>3 DEF AnthropicDelta
    <3>2. Chunk /\ UNCHANGED <<block, call, openCalls, closed, eof>>
      BY <2>2 DEF AnthropicDelta
    <3> QED
      BY <1>3, <1>4, <1>5, <2>0, <3>1, <3>2
  <2>3. CASE AnthropicStop
    <3>1. events' \in Seq(Event) /\ openCalls' \subseteq Calls
          /\ block' \in {"none", "text", "tool", "other"} /\ closed' \in Nat
      BY <1>s, <1>3, <2>3 DEF AnthropicStop, Emit
    <3>2. Chunk /\ UNCHANGED <<call, frags, eof>>
      BY <2>3 DEF AnthropicStop
    <3> QED
      BY <1>3, <1>4, <1>5, <2>0, <3>1, <3>2
  <2> QED
    BY <1>6, <2>1, <2>2, <2>3 DEF Anthropic
<1>7. CASE OpenAi
  <2>0. Chunk /\ UNCHANGED <<block, closed, eof>> /\ UNCHANGED <<handler, outbox, channel, log, evals>>
    BY <1>7 DEF OpenAi
  <2>1. call' \in Nat /\ frags' \in [Calls -> 0 .. MaxFrags] /\ openCalls' \subseteq Calls
        /\ events' \in Seq(Event)
    <3>1. CASE OpenAiContent
      BY <1>s, <1>3, <3>1 DEF OpenAiContent, Emit
    <3>2. CASE OpenAiCall
      BY <1>1, <1>3, <3>2 DEF OpenAiCall
    <3>3. CASE OpenAiArguments
      BY <1>2, <1>3, <3>3 DEF OpenAiArguments
    <3>4. CASE OpenAiFinish
      BY <1>0, <1>3, <3>4 DEF OpenAiFinish, Emit
    <3> QED
      BY <1>7, <3>1, <3>2, <3>3, <3>4 DEF OpenAi
  <2> QED
    BY <1>3, <1>4, <1>5, <2>0, <2>1
<1>8. CASE BodyEnd
  <2>1. eof' \in BOOLEAN /\ openCalls' \subseteq Calls /\ events' \in Seq(Event)
    BY <1>0, <1>3, <1>8 DEF BodyEnd, Emit
  <2>2. UNCHANGED <<block, call, frags, closed, chunks, handler, outbox, channel, log, evals>>
    BY <1>8 DEF BodyEnd
  <2> QED
    BY <1>3, <1>4, <2>1, <2>2
<1> QED
  BY <1>6, <1>7, <1>8 DEF Upstream

\* One clause per handler: what it may change keeps its type.
LEMMA TextDeltaType ==
  ASSUME TypeOK, TextDelta
  PROVE  /\ insp' \in [text: SUBSET (Level \cup {"split"}), input: SUBSET Fragment]
         /\ maxSev' \in Nat /\ outbox' \in Seq(Frame)
         /\ UNCHANGED <<toolBuf, toolInput, toolName, toolIndex, skip, blocked, strayed, evals>>
<1> DEFINE l == Head(events).level
           buf == FeedText(insp, l)
           sev == Scan(buf)
<1>0. l \in Level
  BY HeadEvent, EventParts DEF TypeOK, TextDelta, Handling
<1>1. buf \in [text: SUBSET (Level \cup {"split"}), input: SUBSET Fragment]
  BY <1>0, InspectorTypes DEF TypeOK
<1>2. sev \in Nat
  BY <1>1, <1>0, InspectorTypes
<1>3. PICK escalated \in JudgeAnswers(sev) :
        /\ insp' = buf
        /\ maxSev' = Worse(maxSev, IF escalated THEN 85 ELSE sev)
        /\ outbox' = << FrameOf(IF sev = 0 THEN "text" ELSE "textstub", NoCall, 0, toolIndex) >>
  BY DEF TextDelta
<1>4. FrameOf(IF sev = 0 THEN "text" ELSE "textstub", NoCall, 0, toolIndex) \in Frame
  <2>1. NoCall \in Calls \cup {NoCall} /\ toolIndex \in Nat
    BY DEF TypeOK
  <2>2. FrameOf("text", NoCall, 0, toolIndex) \in Frame
    BY <2>1, WholeFrameType
  <2>3. FrameOf("textstub", NoCall, 0, toolIndex) \in Frame
    BY <2>1, WholeFrameType
  <2> HIDE DEF sev
  <2> QED
    BY <2>2, <2>3
<1>5. Worse(maxSev, IF escalated THEN 85 ELSE sev) \in Nat
  BY <1>2, WorseType DEF TypeOK
<1> QED
  BY <1>1, <1>3, <1>4, <1>5 DEF TextDelta

LEMMA ToolUseStartType ==
  ASSUME TypeOK, ToolUseStart
  PROVE  /\ toolName' = Head(events).call /\ toolName' \in Calls
         /\ toolInput' = <<>> /\ insp' = EmptyBuffer /\ UNCHANGED <<strayed, evals>>
         /\ toolBuf' \in Seq(Frame) /\ toolIndex' \in Nat /\ skip' \in BOOLEAN
         /\ maxSev' \in Nat /\ blocked' \in Nat /\ outbox' \in Seq(Frame)
<1>1. Head(events).call \in Calls
  BY HeadEvent, EventParts DEF TypeOK, ToolUseStart, Handling
<1>2. StartFrame \in Frame /\ StartStub \in Frame
  <2>1. Head(events).call \in Calls \cup {NoCall} /\ toolIndex \in Nat
    BY <1>1 DEF TypeOK
  <2> QED
    BY <2>1, WholeFrameType DEF StartFrame, StartStub
<1>3. Worse(maxSev, 80) \in Nat
  BY WorseType DEF TypeOK
<1>4. /\ toolBuf' \in Seq(Frame) /\ toolIndex' \in Nat /\ skip' \in BOOLEAN
      /\ maxSev' \in Nat /\ blocked' \in Nat /\ outbox' \in Seq(Frame)
  <2>0. <<StartFrame>> \in Seq(Frame) /\ <<StartStub>> \in Seq(Frame) /\ <<>> \in Seq(Frame)
    BY <1>2, AppendType
  <2>1. CASE DenyCall
    BY <2>0, <1>3, <2>1 DEF TypeOK, DenyCall
  <2>2. CASE AdmitCall
    BY <2>0, <2>2 DEF TypeOK, AdmitCall
  <2> QED
    BY <2>1, <2>2 DEF ToolUseStart
<1> QED
  BY <1>1, <1>4 DEF ToolUseStart

LEMMA ToolUseDeltaType ==
  ASSUME TypeOK, ToolUseDelta
  PROVE  /\ toolInput' \in Seq(Fragment) /\ toolBuf' \in Seq(Frame) /\ strayed' \in BOOLEAN
         /\ UNCHANGED <<toolName, toolIndex, skip, insp, maxSev, blocked, outbox, evals>>
<1> DEFINE f == Head(events).frag
<1>1. f \in Fragment
  BY HeadEvent, EventParts DEF TypeOK, ToolUseDelta, Handling
<1>2. f.call \in Calls \cup {NoCall} /\ f.frag \in 0 .. MaxFrags
  BY <1>1, FragmentParts
<1>3. FrameOf("delta", f.call, f.frag, toolIndex) \in Frame
  BY <1>2, FrameType DEF TypeOK
<1>4. Append(toolInput, f) \in Seq(Fragment)
  BY <1>1, AppendType DEF TypeOK
<1>5. Append(toolBuf, FrameOf("delta", f.call, f.frag, toolIndex)) \in Seq(Frame)
  BY <1>3, AppendType DEF TypeOK
<1>6. strayed' \in BOOLEAN
  <2>1. strayed' = (strayed \/ (Head(events).frag = Stray /\ Buffered))
    BY DEF ToolUseDelta
  <2>2. strayed \in BOOLEAN
    BY Zenon DEF TypeOK
  <2> QED
    BY <2>1, <2>2
<1> QED
  BY <1>4, <1>5, <1>6 DEF TypeOK, ToolUseDelta

\* The severity the end of a tool use leaves, and the reports it may meet.
LEMMA EndSeverityType ==
  ASSUME maxSev \in Nat, NEW sev \in Nat, NEW eff \in Nat, NEW rep \in Report
  PROVE  EndSeverity(sev, eff, rep) \in Nat
<1>1. rep.chain \in Nat
  BY DEF Report
<1> QED
  BY <1>1, WorseType DEF EndSeverity

LEMMA ToolUseEndType ==
  ASSUME TypeOK, ToolUseEnd
  PROVE  /\ evals' \subseteq [name: Calls \cup {NoCall}, input: Seq(Fragment),
                              inspected: BOOLEAN, defended: BOOLEAN, refused: BOOLEAN]
         /\ maxSev' \in Nat /\ blocked' \in Nat /\ toolIndex' \in Nat
         /\ outbox' \in Seq(Frame) /\ toolBuf' \in Seq(Frame)
         /\ insp' = EmptyBuffer /\ UNCHANGED <<toolInput, toolName, skip, strayed>>
<1> DEFINE sev == Scan(insp)
<1>1. sev \in Nat
  BY DEF TypeOK, Scan
<1>2. PICK escalated \in JudgeAnswers(sev), rep \in Reports(toolName, toolInput), stored \in BOOLEAN :
       LET quarantined == Mode = "block" /\ rep.decision = "quarantine" /\ stored
           eff0 == IF escalated THEN 85 ELSE sev
           eff  == IF quarantined THEN Worse(eff0, 70) ELSE eff0
           defended  == Mode = "block" /\ Refuses(rep)
           malicious == (sev > 0 /\ eff >= 60) \/ defended
           refused   == Mode = "block" /\ (malicious \/ quarantined)
       IN  /\ evals' = evals \cup {[name |-> toolName, input |-> toolInput,
                                    inspected |-> ToSet(toolInput) \subseteq insp.input,
                                    defended |-> defended, refused |-> refused]}
           /\ maxSev' = EndSeverity(sev, eff, rep)
           /\ \/ /\ refused
                 /\ blocked' = blocked + 1
                 /\ outbox' = << FrameOf("stub", toolName, 0, toolIndex) >>
                 /\ UNCHANGED toolBuf
              \/ /\ ~refused
                 /\ outbox' = Append(toolBuf, FrameOf("stop", toolName, 0, toolIndex))
                 /\ toolBuf' = <<>>
                 /\ UNCHANGED blocked
  BY DEF ToolUseEnd
<1> DEFINE quarantined == Mode = "block" /\ rep.decision = "quarantine" /\ stored
           eff0 == IF escalated THEN 85 ELSE sev
           eff  == IF quarantined THEN Worse(eff0, 70) ELSE eff0
           defended  == Mode = "block" /\ Refuses(rep)
           refused   == Mode = "block" /\ (((sev > 0 /\ eff >= 60) \/ defended) \/ quarantined)
           eval == [name |-> toolName, input |-> toolInput,
                    inspected |-> ToSet(toolInput) \subseteq insp.input,
                    defended |-> defended, refused |-> refused]
<1>3. rep \in Report
  BY DEF Reports
<1>4. eff \in Nat
  BY <1>1, WorseType
<1>5. maxSev' \in Nat
  <2>1. maxSev' = EndSeverity(sev, eff, rep)
    BY <1>2
  <2> HIDE DEF sev, eff
  <2> QED
    BY <2>1, <1>1, <1>3, <1>4, EndSeverityType DEF TypeOK
<1>6. /\ FrameOf("stub", toolName, 0, toolIndex) \in Frame
      /\ FrameOf("stop", toolName, 0, toolIndex) \in Frame
  BY WholeFrameType DEF TypeOK
<1>7. outbox' \in Seq(Frame) /\ toolBuf' \in Seq(Frame) /\ blocked' \in Nat
  <2>1. \/ /\ blocked' = blocked + 1
           /\ outbox' = << FrameOf("stub", toolName, 0, toolIndex) >>
           /\ UNCHANGED toolBuf
        \/ /\ outbox' = Append(toolBuf, FrameOf("stop", toolName, 0, toolIndex))
           /\ toolBuf' = <<>>
           /\ UNCHANGED blocked
    BY <1>2
  <2>2. /\ Append(toolBuf, FrameOf("stop", toolName, 0, toolIndex)) \in Seq(Frame)
        /\ << FrameOf("stub", toolName, 0, toolIndex) >> \in Seq(Frame)
        /\ <<>> \in Seq(Frame) /\ toolBuf \in Seq(Frame) /\ blocked \in Nat
    BY <1>6, AppendType DEF TypeOK
  <2>3. blocked + 1 \in Nat
    BY <2>2
  <2> QED
    BY <2>1, <2>2, <2>3, Zenon
<1>8. evals' = evals \cup {eval}
  BY <1>2
<1>9. defended \in BOOLEAN /\ refused \in BOOLEAN
      /\ (ToSet(toolInput) \subseteq insp.input) \in BOOLEAN
  OBVIOUS
<1>10. eval \in [name: Calls \cup {NoCall}, input: Seq(Fragment),
                 inspected: BOOLEAN, defended: BOOLEAN, refused: BOOLEAN]
  <2> HIDE DEF defended, refused
  <2> QED
    BY <1>9 DEF TypeOK
<1>11. evals' \subseteq [name: Calls \cup {NoCall}, input: Seq(Fragment),
                         inspected: BOOLEAN, defended: BOOLEAN, refused: BOOLEAN]
  <2> HIDE DEF eval
  <2> QED
    BY <1>8, <1>10 DEF TypeOK
<1>12. /\ toolIndex' \in Nat /\ insp' = EmptyBuffer
       /\ UNCHANGED <<toolInput, toolName, skip, strayed>>
  BY DEF ToolUseEnd, TypeOK
<1> QED
  BY <1>5, <1>7, <1>11, <1>12

\* The steps of the task that reads the adapter.
LEMMA HandleType == TypeOK /\ Handle => TypeOK'
<1> SUFFICES ASSUME TypeOK, Handle PROVE TypeOK'
  OBVIOUS
<1> DEFINE HandlerTypes ==
      /\ toolBuf \in Seq(Frame) /\ toolInput \in Seq(Fragment)
      /\ toolName \in Calls \cup {NoCall} /\ toolIndex \in Nat /\ skip \in BOOLEAN
      /\ insp \in [text: SUBSET (Level \cup {"split"}), input: SUBSET Fragment]
      /\ maxSev \in Nat /\ blocked \in Nat
      /\ outbox \in Seq(Frame) /\ strayed \in BOOLEAN
      /\ evals \subseteq [name: Calls \cup {NoCall}, input: Seq(Fragment),
                          inspected: BOOLEAN, defended: BOOLEAN, refused: BOOLEAN]
<1>1. HandlerTypes
  BY Zenon DEF TypeOK
<1>2. HandlerTypes'
  <2>1. CASE TextDelta
    BY <1>1, <2>1, TextDeltaType
  <2>2. CASE ToolUseStart
    <3>1. <<>> \in Seq(Fragment)
      OBVIOUS
    <3> QED
      BY <1>1, <2>2, <3>1, ToolUseStartType, EmptyBufferType
  <2>3. CASE ToolUseDelta
    BY <1>1, <2>3, ToolUseDeltaType
  <2>4. CASE SkippedEnd
    <3>1. <<>> \in Seq(Fragment) /\ <<>> \in Seq(Frame) /\ NoCall \in Calls \cup {NoCall}
      OBVIOUS
    <3> QED
      BY <1>1, <2>4, <3>1, EmptyBufferType DEF SkippedEnd
  <2>5. CASE ToolUseEnd
    BY <1>1, <2>5, ToolUseEndType, EmptyBufferType
  <2>6. CASE Raw
    <3>1. << FrameOf("raw", NoCall, 0, 0) >> \in Seq(Frame)
      <4>1. NoCall \in Calls \cup {NoCall} /\ 0 \in Nat
        OBVIOUS
      <4>2. FrameOf("raw", NoCall, 0, 0) \in Frame
        BY <4>1, WholeFrameType
      <4> QED
        BY <4>2, AppendType
    <3> QED
      BY <1>1, <2>6, <3>1 DEF Raw, handler
  <2> QED
    BY <2>1, <2>2, <2>3, <2>4, <2>5, <2>6 DEF Handle
<1>3. events' \in Seq(Event)
  <2>1. events # <<>>
    BY DEF Handle, TextDelta, ToolUseStart, ToolUseDelta, SkippedEnd, ToolUseEnd, Raw, Handling
  <2> QED
    BY <2>1, HeadEvent DEF TypeOK, Handle
<1>4. UNCHANGED <<upstream, channel, log>>
  BY DEF Handle
<1> QED
  BY <1>2, <1>3, <1>4, Zenon DEF TypeOK, upstream, channel

\* A frame moves from the outbox into the channel, or is dropped.
LEMMA SendType == TypeOK /\ Send => TypeOK'
<1> SUFFICES ASSUME TypeOK, Send PROVE TypeOK'
  OBVIOUS
<1>1. outbox # <<>> /\ outbox \in Seq(Frame) /\ out \in Seq(Frame)
  BY DEF TypeOK, Send
<1>2. Head(outbox) \in Frame /\ Tail(outbox) \in Seq(Frame)
  BY <1>1
<1>3. Append(out, Head(outbox)) \in Seq(Frame)
  BY <1>1, <1>2, AppendType
<1>4. outbox' \in Seq(Frame) /\ out' \in Seq(Frame)
  BY <1>1, <1>2, <1>3, Zenon DEF Send
<1>5. UNCHANGED <<upstream, events, handler, read, connected, log, evals>>
  BY DEF Send
<1> QED
  BY <1>4, <1>5, Zenon DEF TypeOK, upstream, handler

\* The recorder's line, and the client.
LEMMA CompleteType == TypeOK /\ Complete => TypeOK'
<1> SUFFICES ASSUME TypeOK, Complete PROVE TypeOK'
  OBVIOUS
<1>1. log' \in Seq([severity: Nat, blocked: Nat])
  BY DEF TypeOK, Complete
<1>2. UNCHANGED <<upstream, events, handler, outbox, channel, evals>>
  BY DEF Complete
<1> QED
  BY <1>1, <1>2, Zenon DEF TypeOK, upstream, handler, channel

LEMMA ClientType == TypeOK /\ Client => TypeOK'
<1> SUFFICES ASSUME TypeOK, Client PROVE TypeOK'
  OBVIOUS
<1>1. read' \in Nat /\ connected' \in BOOLEAN /\ UNCHANGED out
  <2>0. read \in Nat /\ connected \in BOOLEAN
    BY Zenon DEF TypeOK
  <2>1. CASE Receive
    BY <2>0, <2>1 DEF Receive
  <2>2. CASE Disconnect
    BY <2>0, <2>2 DEF Disconnect
  <2> QED
    BY <2>1, <2>2 DEF Client
<1>2. UNCHANGED <<upstream, events, handler, outbox, log, evals>>
  BY DEF Client
<1> QED
  BY <1>1, <1>2, Zenon DEF TypeOK, upstream, handler

LEMMA NextType == TypeOK /\ [Next]_vars => TypeOK'
<1> SUFFICES ASSUME TypeOK, [Next]_vars PROVE TypeOK'
  OBVIOUS
<1>1. CASE UNCHANGED vars
  BY <1>1, Zenon DEF TypeOK, vars, upstream, handler, channel
<1> QED
  BY <1>1, UpstreamType, HandleType, SendType, CompleteType, ClientType, Zenon DEF Next

\* Every variable of the stream keeps its type, whatever the upstream sends and
\* for every protocol, mode and bound.
THEOREM StreamTypes == Spec => []TypeOK
  BY InitType, NextType, PTL DEF Spec

-------------------------------------------------------------------------------
(* No tool_use start before its evaluation.                                *)

\* What the sequence operators do to the start frames.
LEMMA StartsOfAppend ==
  ASSUME NEW c, NEW frames \in Seq(Frame), NEW f \in Frame,
         StartsOf(c, frames), f.kind = "start" => f.call = c
  PROVE  StartsOf(c, Append(frames, f))
<1>1. ASSUME NEW i \in DOMAIN Append(frames, f)
      PROVE  \/ i \in DOMAIN frames /\ Append(frames, f)[i] = frames[i]
             \/ Append(frames, f)[i] = f
  OBVIOUS
<1> QED
  BY <1>1 DEF StartsOf

LEMMA StartsAppend ==
  ASSUME NEW evs, NEW frames \in Seq(Frame), NEW f \in Frame,
         StartsEvaluated(evs, frames), f.kind = "start" => Evaluated(evs, f.call)
  PROVE  StartsEvaluated(evs, Append(frames, f))
<1>1. ASSUME NEW i \in DOMAIN Append(frames, f)
      PROVE  \/ i \in DOMAIN frames /\ Append(frames, f)[i] = frames[i]
             \/ Append(frames, f)[i] = f
  OBVIOUS
<1> QED
  BY <1>1 DEF StartsEvaluated

LEMMA StartsTail ==
  ASSUME NEW evs, NEW frames \in Seq(Frame), frames # <<>>, StartsEvaluated(evs, frames)
  PROVE  /\ Head(frames).kind = "start" => Evaluated(evs, Head(frames).call)
         /\ StartsEvaluated(evs, Tail(frames))
<1>1. 1 \in DOMAIN frames /\ Head(frames) = frames[1]
  OBVIOUS
<1>2. ASSUME NEW i \in DOMAIN Tail(frames)
      PROVE  i + 1 \in DOMAIN frames /\ Tail(frames)[i] = frames[i + 1]
  OBVIOUS
<1> QED
  BY <1>1, <1>2 DEF StartsEvaluated

LEMMA StartsConcat ==
  ASSUME NEW evs, NEW s \in Seq(Frame), NEW t \in Seq(Frame),
         StartsEvaluated(evs, s), StartsEvaluated(evs, t)
  PROVE  StartsEvaluated(evs, s \o t)
<1>1. ASSUME NEW i \in DOMAIN (s \o t)
      PROVE  \/ i \in DOMAIN s /\ (s \o t)[i] = s[i]
             \/ i - Len(s) \in DOMAIN t /\ (s \o t)[i] = t[i - Len(s)]
  OBVIOUS
<1> QED
  BY <1>1 DEF StartsEvaluated

LEMMA StartsSingle ==
  ASSUME NEW evs, NEW f, f.kind # "start"
  PROVE  StartsEvaluated(evs, <<f>>)
  BY DEF StartsEvaluated

\* More evaluations never take one away.
LEMMA StartsMore ==
  ASSUME NEW evs, NEW more, evs \subseteq more, NEW frames, StartsEvaluated(evs, frames)
  PROVE  StartsEvaluated(more, frames)
  BY DEF StartsEvaluated, Evaluated

\* The starts of one evaluated tool.
LEMMA StartsOfEvaluated ==
  ASSUME NEW evs, NEW c, Evaluated(evs, c), NEW frames, StartsOf(c, frames)
  PROVE  StartsEvaluated(evs, frames)
  BY DEF StartsEvaluated, StartsOf

LEMMA InitGate == Init => GateInv
  BY DEF Init, GateInv, BufferedIsCurrent, StartsOf, StartsEvaluated

\* A refused tool use leaves its frames in the buffer, but the name stays too;
\* a forwarded one has just been added to the evaluations.
LEMMA ToolUseEndGate ==
  ASSUME IInv, ToolUseEnd, UNCHANGED out
  PROVE  GateInv'
<1> DEFINE sev == Scan(insp)
<1>1. PICK escalated \in JudgeAnswers(sev), rep \in Reports(toolName, toolInput), stored \in BOOLEAN :
       LET quarantined == Mode = "block" /\ rep.decision = "quarantine" /\ stored
           eff0 == IF escalated THEN 85 ELSE sev
           eff  == IF quarantined THEN Worse(eff0, 70) ELSE eff0
           defended  == Mode = "block" /\ Refuses(rep)
           malicious == (sev > 0 /\ eff >= 60) \/ defended
           refused   == Mode = "block" /\ (malicious \/ quarantined)
       IN  /\ evals' = evals \cup {[name |-> toolName, input |-> toolInput,
                                    inspected |-> ToSet(toolInput) \subseteq insp.input,
                                    defended |-> defended, refused |-> refused]}
           /\ \/ /\ refused
                 /\ outbox' = << FrameOf("stub", toolName, 0, toolIndex) >>
                 /\ UNCHANGED toolBuf
              \/ /\ ~refused
                 /\ outbox' = Append(toolBuf, FrameOf("stop", toolName, 0, toolIndex))
                 /\ toolBuf' = <<>>
  BY DEF ToolUseEnd
<1>2. evals \subseteq evals'
  BY <1>1
<1>3. StartsEvaluated(evals', out')
  BY <1>2, StartsMore DEF IInv, GateInv
<1>4. toolName' = toolName
  BY DEF ToolUseEnd
<1>5. StartsOf(toolName', <<>>)
  BY DEF StartsOf
<1>6. \/ /\ outbox' = << FrameOf("stub", toolName, 0, toolIndex) >>
         /\ UNCHANGED toolBuf
      \/ /\ Evaluated(evals', toolName)
         /\ outbox' = Append(toolBuf, FrameOf("stop", toolName, 0, toolIndex))
         /\ toolBuf' = <<>>
  <2> DEFINE quarantined == Mode = "block" /\ rep.decision = "quarantine" /\ stored
             eff0 == IF escalated THEN 85 ELSE sev
             eff  == IF quarantined THEN Worse(eff0, 70) ELSE eff0
             defended  == Mode = "block" /\ Refuses(rep)
             refused   == Mode = "block" /\ (((sev > 0 /\ eff >= 60) \/ defended) \/ quarantined)
             eval == [name |-> toolName, input |-> toolInput,
                      inspected |-> ToSet(toolInput) \subseteq insp.input,
                      defended |-> defended, refused |-> refused]
  <2>1. eval \in evals'
    BY <1>1
  <2>2. eval.name = toolName /\ eval.refused = refused
    OBVIOUS
  <2>3. \/ /\ outbox' = << FrameOf("stub", toolName, 0, toolIndex) >>
           /\ UNCHANGED toolBuf
        \/ /\ ~refused
           /\ outbox' = Append(toolBuf, FrameOf("stop", toolName, 0, toolIndex))
           /\ toolBuf' = <<>>
    BY <1>1
  <2> HIDE DEF eval, refused
  <2>4. ~refused => Evaluated(evals', toolName)
    BY <2>1, <2>2 DEF Evaluated
  <2> QED
    BY <2>3, <2>4
<1>7. CASE /\ outbox' = << FrameOf("stub", toolName, 0, toolIndex) >>
           /\ UNCHANGED toolBuf
  <2>1. StartsEvaluated(evals', outbox')
    BY <1>7, StartsSingle DEF FrameOf
  <2> QED
    BY <1>3, <1>4, <1>7, <2>1 DEF IInv, GateInv, BufferedIsCurrent
<1>8. CASE /\ Evaluated(evals', toolName)
           /\ outbox' = Append(toolBuf, FrameOf("stop", toolName, 0, toolIndex))
           /\ toolBuf' = <<>>
  <2>1. StartsEvaluated(evals', toolBuf)
    BY <1>8, StartsOfEvaluated DEF IInv, GateInv, BufferedIsCurrent
  <2>2. toolBuf \in Seq(Frame) /\ FrameOf("stop", toolName, 0, toolIndex) \in Frame
        /\ FrameOf("stop", toolName, 0, toolIndex).kind # "start"
    BY WholeFrameType DEF IInv, TypeOK, FrameOf
  <2>3. StartsEvaluated(evals', outbox')
    BY <1>8, <2>1, <2>2, StartsAppend
  <2> QED
    BY <1>3, <1>4, <1>5, <1>8, <2>3 DEF GateInv, BufferedIsCurrent
<1> QED
  BY <1>6, <1>7, <1>8

LEMMA HandleGate == IInv /\ Handle => GateInv'
<1> SUFFICES ASSUME IInv, Handle PROVE GateInv'
  OBVIOUS
<1>0. UNCHANGED out
  BY DEF Handle, channel
<1>1. StartsEvaluated(evals, out) /\ StartsEvaluated(evals, outbox) /\ StartsOf(toolName, toolBuf)
  BY DEF IInv, GateInv, BufferedIsCurrent
<1>2. StartsOf(toolName', <<>>)
  BY DEF StartsOf
<1>3. CASE TextDelta
  <2>1. PICK k \in {"text", "textstub"} : outbox' = << FrameOf(k, NoCall, 0, toolIndex) >>
    BY <1>3 DEF TextDelta
  <2>2. StartsEvaluated(evals, outbox')
    BY <2>1, StartsSingle DEF FrameOf
  <2> QED
    BY <1>0, <1>1, <1>3, <2>2 DEF TextDelta, GateInv, BufferedIsCurrent
<1>4. CASE ToolUseStart
  <2>1. toolName' = Head(events).call /\ UNCHANGED evals
    BY <1>4 DEF ToolUseStart
  <2>2. StartsOf(toolName', <<StartFrame>>)
    BY <2>1 DEF StartsOf, StartFrame, FrameOf
  <2>3. StartsEvaluated(evals, <<StartStub>>)
    BY StartsSingle DEF StartStub, FrameOf
  <2>4. StartsOf(toolName', toolBuf') /\ StartsEvaluated(evals, outbox')
    <3>1. CASE DenyCall
      BY <1>2, <2>3, <3>1 DEF DenyCall
    <3>2. CASE AdmitCall
      BY <1>1, <2>2, <3>2 DEF AdmitCall
    <3> QED
      BY <1>4, <3>1, <3>2 DEF ToolUseStart
  <2> QED
    BY <1>0, <1>1, <2>1, <2>4 DEF GateInv, BufferedIsCurrent
<1>5. CASE ToolUseDelta
  <2> DEFINE f == FrameOf("delta", Head(events).frag.call, Head(events).frag.frag, toolIndex)
  <2>1. toolBuf' = toolBuf \/ toolBuf' = Append(toolBuf, f)
    BY <1>5 DEF ToolUseDelta
  <2>2. f \in Frame /\ f.kind # "start"
    <3>1. Head(events).frag \in Fragment
      BY <1>5, HeadEvent, EventParts DEF IInv, TypeOK, ToolUseDelta, Handling
    <3>2. Head(events).frag.call \in Calls \cup {NoCall} /\ Head(events).frag.frag \in 0 .. MaxFrags
      BY <3>1, FragmentParts
    <3>3. toolIndex \in Nat
      BY DEF IInv, TypeOK
    <3>4. f \in Frame
      BY <3>2, <3>3, FrameType
    <3> QED
      BY <3>4 DEF FrameOf
  <2>3. StartsOf(toolName, Append(toolBuf, f))
    <3>1. toolBuf \in Seq(Frame)
      BY DEF IInv, TypeOK
    <3> HIDE DEF f
    <3> QED
      BY <1>1, <2>2, <3>1, StartsOfAppend
  <2>4. UNCHANGED <<toolName, outbox, evals>>
    BY <1>5 DEF ToolUseDelta
  <2> HIDE DEF f
  <2> QED
    BY <1>0, <1>1, <2>1, <2>3, <2>4 DEF GateInv, BufferedIsCurrent
<1>6. CASE SkippedEnd
  BY <1>0, <1>1, <1>2, <1>6 DEF SkippedEnd, GateInv, BufferedIsCurrent
<1>7. CASE ToolUseEnd
  BY <1>0, <1>7, ToolUseEndGate
<1>8. CASE Raw
  <2>1. StartsEvaluated(evals, << FrameOf("raw", NoCall, 0, 0) >>)
    BY StartsSingle DEF FrameOf
  <2> QED
    BY <1>0, <1>1, <1>8, <2>1 DEF Raw, handler, GateInv, BufferedIsCurrent
<1> QED
  BY <1>3, <1>4, <1>5, <1>6, <1>7, <1>8 DEF Handle

LEMMA SendGate == IInv /\ Send => GateInv'
<1> SUFFICES ASSUME IInv, Send PROVE GateInv'
  OBVIOUS
<1>1. outbox \in Seq(Frame) /\ out \in Seq(Frame) /\ outbox # <<>>
      /\ StartsEvaluated(evals, out) /\ StartsEvaluated(evals, outbox)
  BY DEF IInv, TypeOK, GateInv, Send
<1>2. Head(outbox) \in Frame
  BY <1>1
<1>3. StartsEvaluated(evals, Append(out, Head(outbox))) /\ StartsEvaluated(evals, Tail(outbox))
  BY <1>1, <1>2, StartsTail, StartsAppend
<1>4. UNCHANGED <<toolBuf, toolName, evals>>
  BY DEF Send, handler
<1>5. StartsEvaluated(evals, out') /\ StartsEvaluated(evals, outbox')
  BY <1>1, <1>3 DEF Send
<1> QED
  BY <1>4, <1>5 DEF IInv, GateInv, BufferedIsCurrent

LEMMA NextGate == IInv /\ [Next]_vars => GateInv'
<1> SUFFICES ASSUME IInv, [Next]_vars PROVE GateInv'
  OBVIOUS
<1>1. CASE UNCHANGED <<toolBuf, toolName, out, outbox, evals>>
  BY <1>1 DEF IInv, GateInv, BufferedIsCurrent
<1>2. Upstream \/ Complete \/ Client \/ UNCHANGED vars
        => UNCHANGED <<toolBuf, toolName, out, outbox, evals>>
  BY DEF Upstream, Anthropic, OpenAi, BodyEnd, Complete, Client, Receive, Disconnect,
         vars, handler, channel
<1> QED
  BY <1>1, <1>2, HandleGate, SendGate DEF Next

\* The gate: what the client is sent of a tool use was first evaluated, and that
\* evaluation let it pass (proxy.rs, the else branch that drains tool_buf).
THEOREM Gate == Spec => []ForwardedWasEvaluated
<1>1. Init => IInv
  BY InitType, InitGate DEF IInv
<1>2. IInv /\ [Next]_vars => IInv'
  BY NextType, NextGate DEF IInv
<1>3. IInv => ForwardedWasEvaluated
  <2> SUFFICES ASSUME IInv PROVE ForwardedWasEvaluated
    OBVIOUS
  <2>1. StartsEvaluated(evals, Stream)
    BY StartsConcat DEF IInv, TypeOK, GateInv, Stream
  <2> QED
    BY <2>1 DEF ForwardedWasEvaluated, StartsEvaluated, Evaluated
<1> QED
  BY <1>1, <1>2, <1>3, PTL DEF Spec

-------------------------------------------------------------------------------
(* What the adapters hand over, and sequences of frames.                   *)

\* The event the handler is about to take.
Pending(ev) == events # <<>> /\ Head(events).ev = ev

\* ForwardedWhole of a sequence of frames, for given numbers of fragments.
WholeIn(frames, n) ==
  \A i \in DOMAIN frames : frames[i].kind = "start" =>
    /\ i + n[frames[i].call] + 1 <= Len(frames)
    /\ \A k \in 1 .. n[frames[i].call] :
         frames[i + k] = FrameOf("delta", frames[i].call, k, frames[i].idx)
    /\ frames[i + n[frames[i].call] + 1] = FrameOf("stop", frames[i].call, 0, frames[i].idx)

\* A call's start and its first fragments, numbered in order, under one index.
Holds(frames, c, x) ==
  /\ frames[1] = FrameOf("start", c, 0, x)
  /\ \A k \in 1 .. Len(frames) - 1 : frames[k + 1] = FrameOf("delta", c, k, x)

\* The stream has the start of a call or its stub.
Answered(c) == \E i \in DOMAIN Stream : Stream[i].call = c /\ Stream[i].kind \in {"start", "stub"}

\* The positions of a concatenation.
LEMMA ConcatElements ==
  ASSUME NEW s \in Seq(Frame), NEW t \in Seq(Frame)
  PROVE  /\ s \o t \in Seq(Frame)
         /\ \A i \in DOMAIN (s \o t) :
              \/ i \in DOMAIN s /\ (s \o t)[i] = s[i]
              \/ i > Len(s) /\ i - Len(s) \in DOMAIN t /\ (s \o t)[i] = t[i - Len(s)]
  OBVIOUS

\* The elements of a concatenation, by the side they come from.
LEMMA ConcatParts ==
  ASSUME NEW s \in Seq(Frame), NEW t \in Seq(Frame)
  PROVE  /\ Len(s \o t) = Len(s) + Len(t) /\ Len(s) \in Nat /\ Len(t) \in Nat
         /\ DOMAIN (s \o t) = 1 .. Len(s \o t)
         /\ \A i \in 1 .. Len(s) : (s \o t)[i] = s[i]
         /\ \A k \in 1 .. Len(t) : (s \o t)[Len(s) + k] = t[k]
<1>1. /\ Len(s \o t) = Len(s) + Len(t) /\ Len(s) \in Nat /\ Len(t) \in Nat
      /\ DOMAIN (s \o t) = 1 .. Len(s \o t)
  OBVIOUS
<1>2. \A i \in 1 .. Len(s) : (s \o t)[i] = s[i]
  OBVIOUS
<1>3. ASSUME NEW k \in 1 .. Len(t) PROVE (s \o t)[Len(s) + k] = t[k]
  <2>1. Len(s) + k \in DOMAIN (s \o t) /\ ~(Len(s) + k <= Len(s)) /\ (Len(s) + k) - Len(s) = k
    OBVIOUS
  <2> QED
    BY <2>1, ConcatElements
<1> QED
  BY <1>1, <1>2, <1>3

\* What follows a whole call disturbs nothing.
LEMMA WholeConcat ==
  ASSUME NEW s \in Seq(Frame), NEW t \in Seq(Frame), NEW n, WholeIn(s, n),
         \A i \in DOMAIN s : s[i].kind = "start" => n[s[i].call] \in Nat,
         \A j \in DOMAIN t : t[j].kind # "start"
  PROVE  WholeIn(s \o t, n)
<1> DEFINE u == s \o t
<1>1. /\ Len(u) = Len(s) + Len(t) /\ Len(s) \in Nat /\ Len(t) \in Nat
      /\ DOMAIN u = 1 .. Len(u) /\ DOMAIN s = 1 .. Len(s)
      /\ \A i \in 1 .. Len(s) : u[i] = s[i]
  OBVIOUS
<1>2. \A i \in DOMAIN u : i \in DOMAIN s \/ u[i].kind # "start"
  BY ConcatElements
<1> HIDE DEF u
<1> SUFFICES ASSUME NEW i \in DOMAIN u, u[i].kind = "start"
             PROVE  /\ i + n[u[i].call] + 1 <= Len(u)
                    /\ \A k \in 1 .. n[u[i].call] :
                         u[i + k] = FrameOf("delta", u[i].call, k, u[i].idx)
                    /\ u[i + n[u[i].call] + 1] = FrameOf("stop", u[i].call, 0, u[i].idx)
  BY DEF WholeIn, u
<1>3. i \in 1 .. Len(s) /\ u[i] = s[i]
  BY <1>1, <1>2
<1> DEFINE m == n[s[i].call]
<1>4. m \in Nat
  BY <1>1, <1>3
<1>5. /\ i + m + 1 <= Len(s)
      /\ \A k \in 1 .. m : s[i + k] = FrameOf("delta", s[i].call, k, s[i].idx)
      /\ s[i + m + 1] = FrameOf("stop", s[i].call, 0, s[i].idx)
  BY <1>1, <1>3 DEF WholeIn
<1> HIDE DEF m
<1>6. i + m + 1 <= Len(u) /\ i + m + 1 \in 1 .. Len(s)
  BY <1>1, <1>3, <1>4, <1>5
<1>7. \A k \in 1 .. m : i + k \in 1 .. Len(s)
  BY <1>1, <1>3, <1>4, <1>5
<1>8. \A k \in 1 .. m : u[i + k] = FrameOf("delta", s[i].call, k, s[i].idx)
  BY <1>1, <1>5, <1>7
<1>9. u[i + m + 1] = FrameOf("stop", s[i].call, 0, s[i].idx)
  BY <1>1, <1>5, <1>6
<1> QED
  BY <1>3, <1>6, <1>8, <1>9 DEF m

\* A buffer that holds a call, and its stop, are a whole call.
LEMMA WholeDrain ==
  ASSUME NEW s \in Seq(Frame), NEW b \in Seq(Frame), NEW n, NEW c \in Calls, NEW x \in Nat,
         WholeIn(s, n), \A i \in DOMAIN s : s[i].kind = "start" => n[s[i].call] \in Nat,
         Holds(b, c, x), n[c] \in Nat, Len(b) = n[c] + 1
  PROVE  WholeIn(s \o Append(b, FrameOf("stop", c, 0, x)), n)
<1> DEFINE e == FrameOf("stop", c, 0, x)
           t == Append(b, e)
           u == s \o t
           m == n[c]
<1>0. e \in Frame
  BY WholeFrameType
<1> HIDE DEF e
<1>1. /\ Len(t) = m + 2 /\ t[m + 2] = e /\ t \in Seq(Frame)
      /\ \A k \in 1 .. m + 1 : t[k] = b[k]
  BY <1>0
<1>2. t[1] = FrameOf("start", c, 0, x)
  BY <1>1 DEF Holds
<1>3. \A k \in 1 .. m : t[k + 1] = FrameOf("delta", c, k, x)
  <2> SUFFICES ASSUME NEW k \in 1 .. m PROVE t[k + 1] = FrameOf("delta", c, k, x)
    OBVIOUS
  <2>1. k + 1 \in 1 .. m + 1 /\ k \in 1 .. Len(b) - 1
    OBVIOUS
  <2>2. t[k + 1] = b[k + 1]
    BY <1>1, <2>1
  <2>3. b[k + 1] = FrameOf("delta", c, k, x)
    BY <2>1 DEF Holds
  <2> QED
    BY <2>2, <2>3
<1>m. m \in Nat
  OBVIOUS
<1> HIDE DEF t, m
<1>4. /\ Len(u) = Len(s) + m + 2 /\ Len(s) \in Nat /\ DOMAIN u = 1 .. Len(u)
      /\ \A i \in 1 .. Len(s) : u[i] = s[i]
      /\ \A k \in 1 .. m + 2 : u[Len(s) + k] = t[k]
  <2>1. m \in Nat /\ Len(t) = m + 2 /\ t \in Seq(Frame)
    BY <1>1, <1>m
  <2>2. /\ Len(u) = Len(s) + Len(t) /\ Len(s) \in Nat /\ DOMAIN u = 1 .. Len(u)
        /\ \A i \in 1 .. Len(s) : u[i] = s[i]
        /\ \A k \in 1 .. Len(t) : u[Len(s) + k] = t[k]
    BY <2>1, ConcatParts
  <2> QED
    BY <2>1, <2>2
<1> HIDE DEF u
<1> SUFFICES ASSUME NEW i \in DOMAIN u, u[i].kind = "start"
             PROVE  /\ i + n[u[i].call] + 1 <= Len(u)
                    /\ \A k \in 1 .. n[u[i].call] :
                         u[i + k] = FrameOf("delta", u[i].call, k, u[i].idx)
                    /\ u[i + n[u[i].call] + 1] = FrameOf("stop", u[i].call, 0, u[i].idx)
  BY DEF WholeIn, u, t, e
<1>5. CASE i \in 1 .. Len(s)
  <2> DEFINE q == n[s[i].call]
  <2>1. u[i] = s[i] /\ q \in Nat
    BY <1>m, <1>4, <1>5
  <2>2. /\ i + q + 1 <= Len(s)
        /\ \A k \in 1 .. q : s[i + k] = FrameOf("delta", s[i].call, k, s[i].idx)
        /\ s[i + q + 1] = FrameOf("stop", s[i].call, 0, s[i].idx)
    <3>1. i \in DOMAIN s /\ s[i].kind = "start"
      BY <1>5, <2>1
    <3> QED
      BY <3>1 DEF WholeIn
  <2> HIDE DEF q
  <2>3. i + q + 1 <= Len(u) /\ i + q + 1 \in 1 .. Len(s)
    BY <1>m, <1>4, <1>5, <2>1, <2>2
  <2>4. \A k \in 1 .. q : i + k \in 1 .. Len(s)
    <3>1. i \in Nat /\ 1 <= i /\ Len(s) \in Nat /\ q \in Nat /\ i + q + 1 <= Len(s)
      BY <1>4, <1>5, <2>1, <2>2
    <3> QED
      BY ONLY <3>1
  <2>5. \A k \in 1 .. q : u[i + k] = FrameOf("delta", s[i].call, k, s[i].idx)
    BY <1>m, <1>4, <2>2, <2>4
  <2>6. u[i + q + 1] = FrameOf("stop", s[i].call, 0, s[i].idx)
    BY <1>m, <1>4, <2>2, <2>3
  <2> QED
    BY <2>1, <2>3, <2>5, <2>6 DEF q
<1>6. CASE i = Len(s) + 1
  <2>1. u[i] = FrameOf("start", c, 0, x)
    BY <1>m, <1>2, <1>4, <1>6
  <2>2. u[i].call = c /\ u[i].idx = x
    BY <2>1 DEF FrameOf
  <2>3. i + m + 1 <= Len(u) /\ u[i + m + 1] = e
    <3>0. m \in Nat /\ Len(s) \in Nat /\ Len(u) = Len(s) + m + 2 /\ i = Len(s) + 1
      BY <1>m, <1>4, <1>6
    <3>1. i + m + 1 = Len(s) + (m + 2) /\ m + 2 \in 1 .. m + 2
      BY ONLY <3>0
    <3>2. u[Len(s) + (m + 2)] = t[m + 2]
      BY <1>4, <3>1
    <3>3. i + m + 1 <= Len(u)
      BY ONLY <3>0
    <3> QED
      BY <1>1, <3>1, <3>2, <3>3
  <2>4. ASSUME NEW k \in 1 .. m PROVE u[i + k] = FrameOf("delta", c, k, x)
    <3>0. m \in Nat /\ Len(s) \in Nat /\ k \in 1 .. m /\ i = Len(s) + 1
      BY <1>m, <1>4, <1>6
    <3>1. i + k = Len(s) + (k + 1) /\ k + 1 \in 1 .. m + 2
      BY ONLY <3>0
    <3> QED
      BY <1>m, <1>3, <1>4, <3>1
  <2> QED
    BY <2>2, <2>3, <2>4 DEF m, e
<1>7. CASE i \notin 1 .. Len(s) /\ i # Len(s) + 1
  <2>1. PICK k \in 2 .. m + 2 : i = Len(s) + k
    <3>1. i - Len(s) \in 2 .. m + 2 /\ i = Len(s) + (i - Len(s))
      BY <1>m, <1>4, <1>7
    <3> QED
      BY <3>1
  <2>2. u[i] = t[k]
    BY <1>m, <1>4, <2>1
  <2>3. t[k].kind # "start"
    <3>1. CASE k = m + 2
      BY <1>1, <3>1 DEF e, FrameOf
    <3>2. CASE k # m + 2
      <4>1. k - 1 \in 1 .. m /\ k = (k - 1) + 1
        BY <1>m, <3>2
      <4>2. t[k] = FrameOf("delta", c, k - 1, x)
        BY <1>3, <4>1
      <4> QED
        BY <4>2 DEF FrameOf
    <3> QED
      BY <3>1, <3>2
  <2> QED
    BY <2>2, <2>3
<1> QED
  BY <1>m, <1>4, <1>5, <1>6, <1>7

\* An answer stays, and what is added can be one.
LEMMA AnswersStay ==
  ASSUME NEW t \in Seq(Frame), Stream \in Seq(Frame), Stream' = Stream \o t
  PROVE  \A c : \/ Answered(c)
                \/ \E j \in DOMAIN t : t[j].call = c /\ t[j].kind \in {"start", "stub"}
                => Answered(c)'
<1>1. /\ DOMAIN Stream' = 1 .. Len(Stream') /\ Len(Stream') = Len(Stream) + Len(t)
      /\ \A i \in 1 .. Len(Stream) : Stream'[i] = Stream[i]
      /\ \A k \in 1 .. Len(t) : Stream'[Len(Stream) + k] = t[k]
      /\ Len(Stream) \in Nat /\ Len(t) \in Nat
      /\ DOMAIN Stream = 1 .. Len(Stream) /\ DOMAIN t = 1 .. Len(t)
  BY ConcatParts
<1>2. DOMAIN Stream \subseteq DOMAIN Stream' /\ \A k \in DOMAIN t : Len(Stream) + k \in DOMAIN Stream'
  BY <1>1
<1>3. ASSUME NEW c, Answered(c) PROVE Answered(c)'
  BY <1>1, <1>2, <1>3 DEF Answered
<1>4. ASSUME NEW c, NEW j \in DOMAIN t, t[j].call = c, t[j].kind \in {"start", "stub"}
      PROVE  Answered(c)'
  <2>1. Stream'[Len(Stream) + j] = t[j] /\ Len(Stream) + j \in DOMAIN Stream'
    BY <1>1, <1>2
  <2> QED
    BY <1>4, <2>1 DEF Answered
<1> QED
  BY <1>3, <1>4

-------------------------------------------------------------------------------
(* The gate's moves, whatever the adapter.                                 *)

\* The fates of all calls, and a step of theirs that the gate allows.
Fates == [c \in Calls |-> Fate(c)]
GateMoves == [ToolCalls!Next]_Fates

\* No denied call is ever put into the buffer.
AdmittedOnly == \A i \in DOMAIN toolBuf : toolBuf[i].kind = "start" => toolBuf[i].call \notin Denied

LEMMA AdmittedStep ==
  ASSUME TypeOK, AdmittedOnly, [Next]_vars
  PROVE  AdmittedOnly'
<1>1. CASE UNCHANGED toolBuf
  BY <1>1 DEF AdmittedOnly
<1>2. CASE toolBuf' = <<>>
  BY <1>2 DEF AdmittedOnly
<1>3. CASE toolBuf' = <<StartFrame>> /\ Head(events).call \notin Denied
  <2>1. StartFrame.call = Head(events).call
    BY DEF StartFrame, FrameOf
  <2> QED
    BY <1>3, <2>1 DEF AdmittedOnly
<1>4. ASSUME NEW f, f.kind # "start", toolBuf' = Append(toolBuf, f) PROVE AdmittedOnly'
  <2>1. toolBuf \in Seq(Frame)
    BY DEF TypeOK
  <2>2. \A i \in DOMAIN toolBuf' : (i \in DOMAIN toolBuf /\ toolBuf'[i] = toolBuf[i]) \/ toolBuf'[i] = f
    BY <1>4, <2>1
  <2> QED
    BY <1>4, <2>2 DEF AdmittedOnly
<1>5. CASE Handle
  <2>1. CASE TextDelta \/ Raw
    BY <1>1, <2>1 DEF TextDelta, Raw, handler
  <2>2. CASE ToolUseStart
    BY <1>2, <1>3, <2>2 DEF ToolUseStart, DenyCall, AdmitCall
  <2>3. CASE ToolUseDelta
    <3> DEFINE f == FrameOf("delta", Head(events).frag.call, Head(events).frag.frag, toolIndex)
    <3>1. f.kind # "start"
      BY DEF FrameOf
    <3>2. toolBuf' = toolBuf \/ toolBuf' = Append(toolBuf, f)
      BY <2>3 DEF ToolUseDelta
    <3> HIDE DEF f
    <3> QED
      BY <1>1, <1>4, <3>1, <3>2
  <2>4. CASE SkippedEnd
    BY <1>2, <2>4 DEF SkippedEnd
  <2>5. CASE ToolUseEnd
    BY <1>1, <1>2, <2>5 DEF ToolUseEnd
  <2> QED
    BY <1>5, <2>1, <2>2, <2>3, <2>4, <2>5 DEF Handle
<1>6. CASE Upstream \/ Send \/ Complete \/ Client \/ UNCHANGED vars
  <2>1. UNCHANGED toolBuf
    BY <1>6 DEF Upstream, Anthropic, OpenAi, BodyEnd, Send, Complete, Client, vars, handler
  <2> QED
    BY <1>1, <2>1
<1> QED
  BY <1>5, <1>6 DEF Next

\* Every handler leaves the call, the client and the channel alone.
LEMMA HandlerStream ==
  ASSUME TypeOK, Handle
  PROVE  /\ Stream' = Stream \o outbox' /\ Stream \in Seq(Frame) /\ outbox' \in Seq(Frame)
         /\ UNCHANGED <<call, connected>>
         /\ strayed' = strayed \/ strayed' = TRUE
<1>1. outbox = <<>> /\ UNCHANGED <<call, connected, out>>
  BY DEF Handle, TextDelta, ToolUseStart, ToolUseDelta, SkippedEnd, ToolUseEnd, Raw, Handling,
         upstream, channel
<1>4. strayed' = strayed \/ strayed' = TRUE
  <2>1. CASE ToolUseDelta
    <3>1. strayed' = (strayed \/ (Head(events).frag = Stray /\ Buffered))
      BY <2>1 DEF ToolUseDelta
    <3>2. strayed \in BOOLEAN
      BY Zenon DEF TypeOK
    <3> QED
      BY <3>1, <3>2
  <2>2. CASE ~ToolUseDelta
    BY <2>2 DEF Handle, TextDelta, ToolUseStart, SkippedEnd, ToolUseEnd, Raw, handler
  <2> QED
    BY <2>1, <2>2
<1>2. outbox' \in Seq(Frame)
  BY HandleType DEF TypeOK
<1>3. out \in Seq(Frame)
  BY DEF TypeOK
<1> QED
  BY <1>1, <1>2, <1>3, <1>4 DEF Stream

\* What is in the stream after a handler was there or is sent by it.
LEMMA SentGrows ==
  ASSUME NEW t \in Seq(Frame), Stream \in Seq(Frame), Stream' = Stream \o t
  PROVE  \A k, c : Sent(k, c)' <=> Sent(k, c) \/ \E j \in DOMAIN t : t[j].kind = k /\ t[j].call = c
<1>1. /\ DOMAIN Stream' = 1 .. Len(Stream') /\ Len(Stream') = Len(Stream) + Len(t)
      /\ \A i \in 1 .. Len(Stream) : Stream'[i] = Stream[i]
      /\ \A k \in 1 .. Len(t) : Stream'[Len(Stream) + k] = t[k]
      /\ Len(Stream) \in Nat /\ Len(t) \in Nat
      /\ DOMAIN Stream = 1 .. Len(Stream) /\ DOMAIN t = 1 .. Len(t)
  BY ConcatParts
<1>2. DOMAIN Stream \subseteq DOMAIN Stream' /\ \A k \in DOMAIN t : Len(Stream) + k \in DOMAIN Stream'
  BY <1>1
<1>3. ASSUME NEW k, NEW c, Sent(k, c) PROVE Sent(k, c)'
  BY <1>1, <1>2, <1>3 DEF Sent
<1>4. ASSUME NEW k, NEW c, NEW j \in DOMAIN t, t[j].kind = k, t[j].call = c
      PROVE  Sent(k, c)'
  <2>1. Stream'[Len(Stream) + j] = t[j] /\ Len(Stream) + j \in DOMAIN Stream'
    BY <1>1, <1>2
  <2> QED
    BY <1>4, <2>1 DEF Sent
<1>5. ASSUME NEW k, NEW c, Sent(k, c)'
      PROVE  Sent(k, c) \/ \E j \in DOMAIN t : t[j].kind = k /\ t[j].call = c
  <2>1. PICK i \in DOMAIN Stream' : Stream'[i].kind = k /\ Stream'[i].call = c
    BY <1>5 DEF Sent
  <2>2. \/ i \in DOMAIN Stream /\ Stream'[i] = Stream[i]
        \/ i - Len(Stream) \in DOMAIN t /\ Stream'[i] = t[i - Len(Stream)]
    BY ConcatElements
  <2> QED
    BY <2>1, <2>2 DEF Sent
<1> QED
  BY <1>3, <1>4, <1>5

\* Nothing the gate knows of has changed, or it no longer says anything.
LEMMA FatesStay ==
  ASSUME connected' = connected, strayed' = strayed, connected => call' = call,
         connected => \A k \in {"start", "stub"}, c \in Calls : Sent(k, c)' <=> Sent(k, c)
  PROVE  Fates' = Fates
<1>1. ASSUME NEW c \in Calls PROVE Fate(c)' = Fate(c)
  BY DEF Fate
<1> QED
  BY <1>1 DEF Fates

\* One call is settled.
LEMMA FateSettled ==
  ASSUME NEW c \in Calls, NEW v, Fate(c)' = v, \A d \in Calls : d # c => Fate(d)' = Fate(d)
  PROVE  Fates' = [Fates EXCEPT ![c] = v] /\ Fates[c] = Fate(c)
  BY DEF Fates

\* The gate says no more: the client left, or a refused call was lengthened.
LEMMA FatesGone ==
  ASSUME ~connected' \/ strayed'
  PROVE  GateMoves
<1>1. \A c \in Calls : Fate(c)' = "gone"
  BY DEF Fate
<1>2. ToolCalls!Leave
  BY <1>1 DEF ToolCalls!Leave, Calls
<1> QED
  BY <1>2 DEF GateMoves, ToolCalls!Next

\* Frames sent by a handler: those of the call it is at, if it was not denied and
\* not replaced before, or a stub of it, in block mode or because it was denied.
LEMMA GateHandler ==
  ASSUME TypeOK, Handle, NEW c,
         c \in Calls => c <= call,
         \A j \in DOMAIN outbox' : outbox'[j].kind \in {"start", "stub"} => outbox'[j].call = c,
         \A j \in DOMAIN outbox' : outbox'[j].kind = "start" =>
           c \notin Denied /\ (strayed \/ ~Sent("stub", c)),
         \A j \in DOMAIN outbox' : outbox'[j].kind = "stub" => Mode = "block" \/ c \in Denied,
         \A i, j \in DOMAIN outbox' : ~(outbox'[i].kind = "start" /\ outbox'[j].kind = "stub")
  PROVE  GateMoves
<1> DEFINE adds(k) == \E j \in DOMAIN outbox' : outbox'[j].kind = k
<1>1. /\ \A k, d : Sent(k, d)' <=> Sent(k, d) \/ \E j \in DOMAIN outbox' : outbox'[j].kind = k /\ outbox'[j].call = d
      /\ UNCHANGED <<call, connected>> /\ (strayed' = strayed \/ strayed' = TRUE)
  BY HandlerStream, SentGrows
<1>2. /\ \A k \in {"start", "stub"} : Sent(k, c)' <=> Sent(k, c) \/ adds(k)
      /\ \A k \in {"start", "stub"} : \A d : d # c => (Sent(k, d)' <=> Sent(k, d))
  BY <1>1
<1>3. /\ adds("start") => c \notin Denied /\ (strayed \/ ~Sent("stub", c)) /\ ~adds("stub")
      /\ adds("stub") => Mode = "block" \/ c \in Denied
  OBVIOUS
<1> HIDE DEF adds
<1>0. CASE strayed'
  BY <1>0, FatesGone
<1>4. CASE strayed' = strayed /\ ~strayed /\ (~connected \/ c \notin Calls \/ Sent("start", c) \/ (~adds("start") /\ ~adds("stub")))
  <2>1. \A d \in Calls : Fate(d)' = Fate(d)
    BY <1>1, <1>2, <1>3, <1>4 DEF Fate
  <2> QED
    BY <2>1 DEF GateMoves, Fates
<1>5. CASE /\ strayed' = strayed /\ ~strayed
           /\ connected /\ c \in Calls /\ ~Sent("start", c) /\ (adds("start") \/ adds("stub"))
  <2>1. \A d \in Calls : d # c => Fate(d)' = Fate(d)
    BY <1>1, <1>2, <1>5 DEF Fate
  <2>2. CASE Sent("stub", c)
    <3>1. Fate(c)' = Fate(c)
      BY <1>1, <1>2, <1>3, <1>5, <2>2 DEF Fate
    <3> QED
      BY <2>1, <3>1 DEF GateMoves, Fates
  <2>3. CASE ~Sent("stub", c)
    <3>1. Fate(c) = "held" /\ c \in 1 .. MaxCalls
      BY <1>5, <2>3 DEF Fate, Calls
    <3>2. CASE adds("start")
      <4>1. Fate(c)' = "passed"
        BY <1>1, <1>2, <1>5, <3>2 DEF Fate
      <4>2. ToolCalls!Pass(c)
        BY <1>3, <1>5, <2>1, <3>1, <3>2, <4>1, FateSettled DEF ToolCalls!Pass, Fates
      <4> QED
        BY <3>1, <4>2 DEF GateMoves, ToolCalls!Next
    <3>3. CASE ~adds("start") /\ adds("stub")
      <4>1. Fate(c)' = "replaced"
        BY <1>1, <1>2, <1>5, <3>3 DEF Fate
      <4>2. ToolCalls!Replace(c)
        BY <1>3, <1>5, <2>1, <3>1, <3>3, <4>1, FateSettled DEF ToolCalls!Replace, Fates
      <4> QED
        BY <3>1, <4>2 DEF GateMoves, ToolCalls!Next
    <3> QED
      BY <1>5, <3>2, <3>3
  <2> QED
    BY <2>2, <2>3
<1> QED
  BY <1>0, <1>1, <1>4, <1>5

\* A call begins when every one before it is answered.
LEMMA GateBegins ==
  ASSUME Stream' = Stream, connected' = connected, strayed' = strayed,
         call \in Nat, call' = call + 1, call' \in Calls,
         connected => ~Answered(call') /\ \A c \in 1 .. call : Answered(c)
  PROVE  GateMoves
<1>1. \A k, c : Sent(k, c)' <=> Sent(k, c)
  BY DEF Sent
<1>2. \A c : Answered(c) <=> Sent("start", c) \/ Sent("stub", c)
  BY DEF Answered, Sent
<1> PICK n \in Calls : n = call'
  OBVIOUS
<1>3. CASE ~connected \/ strayed
  BY <1>3, FatesGone
<1>4. CASE connected /\ ~strayed
  <2>1. Fate(n) = "none" /\ Fate(n)' = "held"
    <3>1. ~Sent("start", n) /\ ~Sent("stub", n) /\ ~(n <= call) /\ n <= call'
      BY <1>2, <1>4
    <3> QED
      BY <1>1, <1>4, <3>1 DEF Fate
  <2>2. ASSUME NEW d \in Calls, d # n PROVE Fate(d)' = Fate(d)
    <3>1. d <= call' <=> d <= call
      BY <2>2 DEF Calls
    <3> QED
      BY <1>1, <1>4, <3>1 DEF Fate
  <2>3. ASSUME NEW d \in 1 .. n - 1 PROVE ToolCalls!Settled(d)
    <3>1. d \in 1 .. call /\ d \in Calls
      BY ProxyStreamAssumption DEF Calls
    <3>2. Fate(d) \in {"passed", "replaced"}
      BY <1>2, <1>4, <3>1 DEF Fate
    <3> QED
      BY <3>1, <3>2 DEF ToolCalls!Settled
  <2>4. ToolCalls!Begin(n)
    BY <2>1, <2>2, <2>3, FateSettled DEF ToolCalls!Begin, Fates
  <2>5. n \in 1 .. MaxCalls
    BY DEF Calls
  <2> QED
    BY <2>4, <2>5 DEF GateMoves, ToolCalls!Next
<1> QED
  BY <1>3, <1>4

\* The upstream may go on without another call.
LEMMA GateWaits ==
  ASSUME Stream' = Stream, connected' = connected, strayed' = strayed, call' = call
  PROVE  GateMoves
<1>1. \A k, c : Sent(k, c)' <=> Sent(k, c)
  BY DEF Sent
<1> QED
  BY <1>1, FatesStay DEF GateMoves, Fates

\* The channel loses nothing while the client listens; when it leaves, so do the
\* promises.
LEMMA GateOther ==
  ASSUME TypeOK, Send \/ Complete \/ Client \/ UNCHANGED vars
  PROVE  GateMoves
<1>0. strayed' = strayed
  BY DEF Send, Complete, Client, vars, handler
<1>1. CASE connected' = connected
  <2>1. connected => Stream' = Stream /\ call' = call
    <3>1. CASE Send
      <4>1. connected => /\ outbox # <<>> /\ out' = Append(out, Head(outbox)) /\ outbox' = Tail(outbox)
                         /\ call' = call
        BY <3>1 DEF Send, upstream
      <4>2. out \in Seq(Frame) /\ outbox \in Seq(Frame)
        BY DEF TypeOK
      <4>3. outbox # <<>> => Append(out, Head(outbox)) \o Tail(outbox) = out \o outbox
        BY <4>2
      <4> QED
        BY <4>1, <4>3 DEF Stream
    <3>2. CASE Complete \/ Client \/ UNCHANGED vars
      BY <3>2 DEF Complete, Client, Receive, Disconnect, vars, upstream, channel, Stream
    <3> QED
      BY <3>1, <3>2
  <2>2. connected => \A k, c : Sent(k, c)' <=> Sent(k, c)
    BY <2>1 DEF Sent
  <2>3. Fates' = Fates
    BY <1>0, <1>1, <2>1, <2>2, FatesStay
  <2> QED
    BY <2>3 DEF GateMoves, Fates
<1>2. CASE connected' # connected
  <2>1. ~connected'
    BY <1>2 DEF Send, Complete, Client, Receive, Disconnect, vars, channel
  <2> QED
    BY <2>1, FatesGone
<1> QED
  BY <1>1, <1>2

LEMMA GateInitially == Init => ToolCalls!Init
<1> SUFFICES ASSUME Init PROVE ToolCalls!Init
  OBVIOUS
<1>1. \A c \in Calls : Fate(c) = "none"
  BY DEF Init, Fate, Sent, Stream, Calls
<1> QED
  BY <1>1 DEF ToolCalls!Init, Calls

\* Handlers that answer no call, and those that send a stub.
LEMMA GatePlain ==
  ASSUME TypeOK, Handle, \A j \in DOMAIN outbox' : outbox'[j].kind \notin {"start", "stub"}
  PROVE  GateMoves
<1>1. NoCall \notin Calls
  BY DEF NoCall, Calls
<1> QED
  BY <1>1, GateHandler

LEMMA GateStub ==
  ASSUME TypeOK, Handle, NEW c, c \in Calls => c <= call, Mode = "block" \/ c \in Denied,
         outbox' = << FrameOf("stub", c, 0, toolIndex) >>
  PROVE  GateMoves
<1> DEFINE f == FrameOf("stub", c, 0, toolIndex)
<1>1. f.kind = "stub" /\ f.call = c
  BY DEF FrameOf
<1>2. DOMAIN outbox' = {1} /\ outbox'[1] = f
  OBVIOUS
<1> HIDE DEF f
<1> QED
  BY <1>1, <1>2, GateHandler

\* The handlers but for the end of a call.
LEMMA GateBeforeEnd ==
  ASSUME TypeOK, Handle, ~ToolUseEnd, Pending("start") => Head(events).call <= call
  PROVE  GateMoves
<1>1. CASE TextDelta
  <2>1. PICK k \in {"text", "textstub"} : outbox' = << FrameOf(k, NoCall, 0, toolIndex) >>
    BY <1>1 DEF TextDelta
  <2>2. FrameOf(k, NoCall, 0, toolIndex).kind \notin {"start", "stub"}
    BY DEF FrameOf
  <2> QED
    BY <2>1, <2>2, GatePlain
<1>2. CASE Raw
  <2>1. outbox' = << FrameOf("raw", NoCall, 0, 0) >>
    BY <1>2 DEF Raw
  <2>2. FrameOf("raw", NoCall, 0, 0).kind \notin {"start", "stub"}
    BY DEF FrameOf
  <2> QED
    BY <2>1, <2>2, GatePlain
<1>3. CASE ToolUseDelta \/ SkippedEnd
  <2>1. outbox' = <<>>
    BY <1>3 DEF ToolUseDelta, SkippedEnd, Handling
  <2> QED
    BY <2>1, GatePlain
<1>4. CASE ToolUseStart
  <2>1. outbox = <<>> /\ Head(events).call <= call
    BY <1>4 DEF ToolUseStart, Handling, Pending
  <2>2. CASE DenyCall
    BY <2>1, <2>2, GateStub DEF DenyCall, StartStub
  <2>3. CASE AdmitCall
    BY <2>1, <2>3, GatePlain DEF AdmitCall
  <2> QED
    BY <1>4, <2>2, <2>3 DEF ToolUseStart
<1> QED
  BY <1>1, <1>2, <1>3, <1>4 DEF Handle

\* A call whose frames are sent was admitted, and must not have been replaced.
LEMMA GateForward ==
  ASSUME TypeOK, AdmittedOnly, BufferedIsCurrent, Handle,
         outbox' = Append(toolBuf, FrameOf("stop", toolName, 0, toolIndex)),
         toolName \in Calls => toolName <= call,
         \A j \in DOMAIN toolBuf : toolBuf[j].kind # "stub",
         \A j \in DOMAIN toolBuf : toolBuf[j].kind = "start" => strayed \/ ~Sent("stub", toolName)
  PROVE  GateMoves
<1> DEFINE f == FrameOf("stop", toolName, 0, toolIndex)
<1>1. f.kind \notin {"start", "stub"}
  BY DEF FrameOf
<1>2. toolBuf \in Seq(Frame)
  BY DEF TypeOK
<1>3. \A j \in DOMAIN outbox' : (j \in DOMAIN toolBuf /\ outbox'[j] = toolBuf[j]) \/ outbox'[j] = f
  BY <1>2
<1> HIDE DEF f
<1>4. \A j \in DOMAIN outbox' : outbox'[j].kind # "stub"
  BY <1>1, <1>3
<1>5. \A j \in DOMAIN outbox' : outbox'[j].kind = "start" =>
        /\ outbox'[j].call = toolName /\ toolName \notin Denied
        /\ strayed \/ ~Sent("stub", toolName)
  BY <1>1, <1>3 DEF AdmittedOnly, BufferedIsCurrent, StartsOf
<1> QED
  BY <1>4, <1>5, GateHandler

\* Where the gate's lemmas apply: every state.
LEMMA GateAlways == Spec => [](IInv /\ AdmittedOnly)
<1>1. Init => IInv /\ AdmittedOnly
  BY InitType, InitGate DEF Init, IInv, AdmittedOnly
<1>2. IInv /\ AdmittedOnly /\ [Next]_vars => (IInv /\ AdmittedOnly)'
  BY NextType, NextGate, AdmittedStep DEF IInv
<1> QED
  BY <1>1, <1>2, PTL DEF Spec

-------------------------------------------------------------------------------
(* Behind the OpenAI adapter, while calls do not overlap.                  *)

\* No call starts before the one in front of it has ended.
OneOpen == \A c, d \in openCalls : c = d

\* A call has started and its end is still to be handled.
InHand == openCalls # {} \/ Pending("end")

\* The adapter hands over one event at a time, of the last call, whose fragments
\* are counted; when the stream is recorded nothing is left to handle.
OneAtATime ==
  /\ openCalls \subseteq {call}
  /\ events = <<>> \/ \E e \in Event : events = <<e>>
  /\ Pending("start") => openCalls # {} /\ Head(events).call = call /\ ~skip /\ frags[call] = 0
  /\ Pending("delta") => openCalls # {} /\ Head(events).frag = [call |-> call, frag |-> frags[call]]
  /\ Pending("end") => openCalls = {}
  /\ InHand => call \in Calls
  /\ \A c \in Calls : c > call => frags[c] = 0
  /\ log # <<>> => eof /\ events = <<>>

\* The call in hand is the one the handler is at; unless it was denied its frames
\* are in the buffer, but for the fragment about to be handled.
HandBuffered ==
  /\ InHand /\ ~Pending("start") => toolName = call
  /\ skip => InHand
  /\ InHand /\ ~Pending("start") /\ ~skip =>
       /\ toolBuf # <<>>
       /\ Len(toolBuf) = frags[call] + (IF Pending("delta") THEN 0 ELSE 1)
       /\ Holds(toolBuf, call, toolIndex)

\* A call is answered once at most.
IsAnswer(f) == f.kind \in {"start", "stub"}
OneAnswer(frames) ==
  \A i, j \in DOMAIN frames :
    IsAnswer(frames[i]) /\ IsAnswer(frames[j]) /\ frames[i].call = frames[j].call => i = j

\* Past calls are answered, and the call in hand only when it was denied.
AnsweredOnce ==
  /\ OneAnswer(Stream)
  /\ \A c \in Calls : Answered(c) => c <= call
  /\ InHand /\ ~skip => ~Answered(call)
  /\ \A i \in DOMAIN Stream : Stream[i].kind = "start" =>
       Stream[i].call \in Calls /\ (InHand => Stream[i].call # call)
  /\ connected => \A c \in 1 .. call : Answered(c) \/ (c = call /\ InHand /\ ~skip)

OneInv ==
  /\ TypeOK /\ OneAtATime /\ HandBuffered /\ AnsweredOnce
  /\ connected => WholeIn(Stream, frags)

-------------------------------------------------------------------------------
(* The upstream's steps.                                                   *)

\* The ends of at most one call.
LEMMA EndsOfOne ==
  /\ openCalls = {} => Ends = <<>>
  /\ \A c : openCalls = {c} => Ends = <<EndEvent>>
<1>1. Cardinality({}) = 0
  BY FS_EmptySet
<1>2. \A c : Cardinality({c}) = 1
  BY FS_Singleton
<1>3. ASSUME openCalls = {} PROVE Ends = <<>>
  <2>1. Ends = [i \in 1 .. 0 |-> EndEvent]
    BY <1>1, <1>3 DEF Ends
  <2> QED
    BY <2>1
<1>4. ASSUME NEW c, openCalls = {c} PROVE Ends = <<EndEvent>>
  <2>1. Ends = [i \in 1 .. 1 |-> EndEvent]
    BY <1>2, <1>4 DEF Ends
  <2> QED
    BY <2>1
<1> QED
  BY <1>3, <1>4

\* What the adapter may do: nothing that touches the calls, open a call, a
\* fragment of it, or its end.
LEMMA OneUpstreamKinds ==
  ASSUME OneInv, Upstream, Protocol = "openai", OneOpen'
  PROVE  /\ events = <<>> /\ log' = log /\ ~eof /\ TypeOK'
         /\ UNCHANGED <<toolBuf, toolInput, toolName, toolIndex, skip, out, outbox, connected>>
         /\ UNCHANGED strayed
         /\ events' = <<>> \/ \E e \in Event : events' = <<e>>
         /\ \/ /\ UNCHANGED <<call, frags, openCalls>>
               /\ \A ev \in {"start", "delta", "end"} : ~Pending(ev)'
            \/ /\ openCalls = {} /\ call' = call + 1 /\ call' \in Calls
               /\ openCalls' = {call'} /\ frags' = frags
               /\ Pending("start")' /\ ~Pending("delta")' /\ ~Pending("end")'
               /\ Head(events').call = call'
            \/ /\ openCalls # {} /\ UNCHANGED <<call, openCalls>>
               /\ call \in Calls /\ frags' = [frags EXCEPT ![call] = @ + 1]
               /\ Pending("delta")' /\ ~Pending("start")' /\ ~Pending("end")'
               /\ Head(events').frag = [call |-> call, frag |-> frags[call] + 1]
            \/ /\ openCalls # {} /\ openCalls' = {} /\ UNCHANGED <<call, frags>>
               /\ Pending("end")' /\ ~Pending("start")' /\ ~Pending("delta")'
<1>1. /\ events = <<>> /\ log' = log /\ ~eof
      /\ UNCHANGED <<toolBuf, toolInput, toolName, toolIndex, skip, out, outbox, connected>>
      /\ UNCHANGED strayed
  BY DEF Upstream, Anthropic, OpenAi, BodyEnd, Chunk, Polled, AnthropicStart, AnthropicDelta,
         AnthropicStop, handler, channel
<1>2. OpenAiContent \/ OpenAiCall \/ OpenAiArguments \/ OpenAiFinish \/ BodyEnd
  BY Zenon DEF Upstream, Anthropic, OpenAi
<1>3. /\ call \in Nat /\ openCalls \subseteq {call} /\ openCalls \subseteq Calls
      /\ events' \in Seq(Event) /\ TypeOK'
  <2>1. TypeOK'
    BY UpstreamType DEF OneInv
  <2> QED
    BY <2>1 DEF OneInv, OneAtATime, TypeOK
<1>4. ASSUME NEW e, events' = <<e>>
      PROVE  /\ \E f \in Event : events' = <<f>>
             /\ \A ev : Pending(ev)' <=> e.ev = ev
             /\ Head(events') = e
  <2>1. e \in Event
    <3>1. events'[1] \in Event /\ events'[1] = e
      BY <1>3, <1>4
    <3> QED
      BY <3>1
  <2> QED
    BY <1>4, <2>1 DEF Pending
<1>5. CASE OpenAiContent
  <2>1. PICK l \in Level : events' = <<TextEvent(l)>>
    BY <1>5 DEF OpenAiContent, Emit
  <2>2. UNCHANGED <<call, frags, openCalls>>
    BY <1>5 DEF OpenAiContent
  <2>3. TextEvent(l).ev = "text"
    BY DEF TextEvent
  <2> QED
    BY <1>1, <1>3, <1>4, <2>1, <2>2, <2>3
<1>6. CASE OpenAiCall
  <2>1. /\ call' = call + 1 /\ call' \in Calls /\ openCalls' = openCalls \cup {call + 1}
        /\ events' = <<StartEvent(call + 1)>> /\ frags' = frags
    BY <1>6 DEF OpenAiCall, NewCall, Emit
  <2>2. openCalls = {}
    BY <1>3, <2>1 DEF OneOpen
  <2>3. StartEvent(call + 1).ev = "start" /\ StartEvent(call + 1).call = call + 1
    BY DEF StartEvent
  <2> QED
    BY <1>1, <1>3, <1>4, <2>1, <2>2, <2>3
<1>7. CASE OpenAiArguments
  <2>1. /\ call \in openCalls /\ UNCHANGED <<call, openCalls>>
        /\ frags' = [frags EXCEPT ![call] = @ + 1] /\ events' = <<DeltaEvent(call)>>
    BY <1>7 DEF OpenAiArguments, NewFragment, Emit
  <2>2. DeltaEvent(call).ev = "delta" /\ DeltaEvent(call).frag = [call |-> call, frag |-> frags[call] + 1]
    BY DEF DeltaEvent
  <2> QED
    BY <1>1, <1>3, <1>4, <2>1, <2>2
<1>8. ASSUME events' = Ends, openCalls' = {}, UNCHANGED <<call, frags>>
      PROVE  /\ events' = <<>> \/ \E e \in Event : events' = <<e>>
             /\ \/ /\ UNCHANGED <<call, frags, openCalls>>
                   /\ \A ev \in {"start", "delta", "end"} : ~Pending(ev)'
                \/ /\ openCalls # {} /\ openCalls' = {} /\ UNCHANGED <<call, frags>>
                   /\ Pending("end")' /\ ~Pending("start")' /\ ~Pending("delta")'
  <2>1. CASE openCalls = {}
    <3>1. events' = <<>>
      BY <1>8, <2>1, EndsOfOne
    <3> QED
      BY <1>8, <2>1, <3>1 DEF Pending
  <2>2. CASE openCalls # {}
    <3>1. openCalls = {call}
      BY <1>3, <2>2
    <3>2. events' = <<EndEvent>>
      BY <1>8, <3>1, EndsOfOne
    <3>3. EndEvent.ev = "end"
      BY DEF EndEvent
    <3> QED
      BY <1>4, <1>8, <2>2, <3>2, <3>3
  <2> QED
    BY <2>1, <2>2
<1>9. CASE OpenAiFinish \/ BodyEnd
  <2>1. events' = Ends /\ openCalls' = {} /\ UNCHANGED <<call, frags>>
    BY <1>9 DEF OpenAiFinish, BodyEnd, Emit
  <2> QED
    BY <1>1, <1>3, <1>8, <2>1
<1> QED
  BY <1>2, <1>5, <1>6, <1>7, <1>9

LEMMA OneUpstream ==
  ASSUME OneInv, Upstream, Protocol = "openai", OneOpen'
  PROVE  OneInv'
<1>1. /\ events = <<>> /\ log' = log /\ ~eof /\ TypeOK'
      /\ UNCHANGED <<toolBuf, toolInput, toolName, toolIndex, skip, out, outbox, connected>>
      /\ events' = <<>> \/ \E e \in Event : events' = <<e>>
  BY OneUpstreamKinds
<1>2. /\ Stream' = Stream /\ \A c : Answered(c)' = Answered(c)
      /\ \A ev : ~Pending(ev)
  BY <1>1 DEF Stream, Answered, Pending
<1>3. /\ call \in Nat /\ frags \in [Calls -> 0 .. MaxFrags] /\ \A c \in Calls : frags[c] \in Nat
      /\ toolBuf \in Seq(Frame) /\ Len(toolBuf) \in Nat /\ Calls = 1 .. MaxCalls /\ MaxCalls \in Nat
  BY ProxyStreamAssumption DEF OneInv, TypeOK, Calls
<1>4. log' = <<>>
  BY <1>1 DEF OneInv, OneAtATime
<1>5. /\ OneAtATime /\ HandBuffered /\ AnsweredOnce /\ (connected => WholeIn(Stream, frags))
      /\ (InHand <=> openCalls # {})
  BY <1>2 DEF OneInv, InHand
<1>6. CASE /\ UNCHANGED <<call, frags, openCalls>>
           /\ \A ev \in {"start", "delta", "end"} : ~Pending(ev)'
  <2>1. ~Pending("start")' /\ ~Pending("delta")' /\ ~Pending("end")' /\ (InHand' <=> InHand)
    BY <1>2, <1>6 DEF InHand
  <2>2. OneAtATime'
    BY <1>1, <1>4, <1>5, <1>6, <2>1 DEF OneAtATime
  <2>3. HandBuffered'
    BY <1>1, <1>2, <1>5, <1>6, <2>1 DEF HandBuffered, Holds
  <2>4. AnsweredOnce'
    BY <1>1, <1>2, <1>5, <1>6, <2>1 DEF AnsweredOnce
  <2> QED
    BY <1>1, <1>2, <1>5, <1>6, <2>2, <2>3, <2>4 DEF OneInv
<1>7. CASE /\ openCalls = {} /\ call' = call + 1 /\ call' \in Calls
           /\ openCalls' = {call'} /\ frags' = frags
           /\ Pending("start")' /\ ~Pending("delta")' /\ ~Pending("end")'
           /\ Head(events').call = call'
  <2>1. ~InHand /\ InHand' /\ ~skip
    BY <1>5, <1>7 DEF InHand, HandBuffered
  <2>2. \A c \in Calls : c <= call => c < call' /\ c # call'
    BY <1>3, <1>7
  <2>3. OneAtATime'
    <3>1. frags[call'] = 0 /\ \A c \in Calls : c > call' => frags[c] = 0
      BY <1>3, <1>5, <1>7 DEF OneAtATime
    <3> QED
      BY <1>1, <1>4, <1>7, <2>1, <3>1 DEF OneAtATime
  <2>4. HandBuffered'
    BY <1>1, <1>7, <2>1 DEF HandBuffered
  <2>5. ~Answered(call')
    BY <1>5, <1>7, <2>2 DEF AnsweredOnce
  <2>6. \A i \in DOMAIN Stream : Stream[i].kind = "start" =>
          Stream[i].call \in Calls /\ Stream[i].call # call'
    <3>1. \A i \in DOMAIN Stream : Stream[i].kind = "start" => Answered(Stream[i].call)
      BY DEF Answered
    <3> QED
      BY <1>5, <2>5, <3>1 DEF AnsweredOnce
  <2>7. \A c \in Calls : Answered(c) => c <= call'
    BY <1>3, <1>5, <1>7, <2>2 DEF AnsweredOnce
  <2>8. connected => \A c \in 1 .. call' : Answered(c) \/ c = call'
    BY <1>3, <1>5, <1>7, <2>1 DEF AnsweredOnce
  <2>9. AnsweredOnce'
    BY <1>1, <1>2, <1>5, <1>7, <2>1, <2>5, <2>6, <2>7, <2>8 DEF AnsweredOnce
  <2> QED
    BY <1>1, <1>2, <1>5, <1>7, <2>3, <2>4, <2>9 DEF OneInv
<1>8. CASE /\ openCalls # {} /\ UNCHANGED <<call, openCalls>>
           /\ call \in Calls /\ frags' = [frags EXCEPT ![call] = @ + 1]
           /\ Pending("delta")' /\ ~Pending("start")' /\ ~Pending("end")'
           /\ Head(events').frag = [call |-> call, frag |-> frags[call] + 1]
  <2>0. \A c \in Calls : frags'[c] = IF c = call THEN frags[c] + 1 ELSE frags[c]
    BY <1>3, <1>8
  <2>1. InHand /\ InHand' /\ frags'[call] = frags[call] + 1
    BY <1>5, <1>8, <2>0 DEF InHand
  <2>2. OneAtATime'
    <3>1. \A c \in Calls : c > call' => frags'[c] = 0
      BY <1>3, <1>5, <1>8, <2>0 DEF OneAtATime
    <3> QED
      BY <1>1, <1>4, <1>5, <1>8, <2>1, <3>1 DEF OneAtATime
  <2>3. HandBuffered'
    BY <1>1, <1>2, <1>3, <1>5, <1>8, <2>1 DEF HandBuffered, Holds
  <2>4. AnsweredOnce'
    BY <1>1, <1>2, <1>5, <1>8, <2>1 DEF AnsweredOnce
  <2>5. connected => WholeIn(Stream, frags')
    <3>1. \A i \in DOMAIN Stream : Stream[i].kind = "start" => frags'[Stream[i].call] = frags[Stream[i].call]
      BY <1>5, <2>0, <2>1 DEF AnsweredOnce
    <3> QED
      BY <1>5, <3>1 DEF WholeIn
  <2> QED
    BY <1>1, <1>2, <2>2, <2>3, <2>4, <2>5 DEF OneInv
<1>9. CASE /\ openCalls # {} /\ openCalls' = {} /\ UNCHANGED <<call, frags>>
           /\ Pending("end")' /\ ~Pending("start")' /\ ~Pending("delta")'
  <2>1. InHand /\ InHand'
    BY <1>5, <1>9 DEF InHand
  <2>2. OneAtATime'
    BY <1>1, <1>4, <1>5, <1>9, <2>1 DEF OneAtATime
  <2>3. HandBuffered'
    BY <1>1, <1>2, <1>5, <1>9, <2>1 DEF HandBuffered, Holds
  <2>4. AnsweredOnce'
    BY <1>1, <1>2, <1>5, <1>9, <2>1 DEF AnsweredOnce
  <2> QED
    BY <1>1, <1>2, <1>5, <1>9, <2>2, <2>3, <2>4 DEF OneInv
<1> QED
  BY <1>6, <1>7, <1>8, <1>9, OneUpstreamKinds

-------------------------------------------------------------------------------
(* The handlers' steps.                                                    *)

\* What every handler finds and leaves alone.
LEMMA OneHandleFacts ==
  ASSUME OneInv, Handle
  PROVE  /\ TypeOK' /\ events # <<>> /\ events' = <<>> /\ outbox = <<>> /\ log = <<>> /\ log' = <<>>
         /\ Stream' = Stream \o outbox' /\ Stream \in Seq(Frame) /\ outbox' \in Seq(Frame)
         /\ UNCHANGED <<call, frags, openCalls, connected>>
         /\ \A ev : ~Pending(ev)'
         /\ toolIndex \in Nat /\ call \in Nat /\ \A c \in Calls : frags[c] \in Nat
         /\ InHand' <=> openCalls # {}
<1>1. /\ events # <<>> /\ outbox = <<>> /\ events' = Tail(events)
      /\ UNCHANGED <<call, frags, openCalls, connected, log, out>>
  BY DEF Handle, TextDelta, ToolUseStart, ToolUseDelta, SkippedEnd, ToolUseEnd, Raw, Handling,
         upstream, channel
<1>2. events' = <<>>
  <2>1. PICK e \in Event : events = <<e>>
    BY <1>1 DEF OneInv, OneAtATime
  <2> QED
    BY <1>1, <2>1
<1>3. TypeOK'
  BY HandleType DEF OneInv
<1>4. out \in Seq(Frame) /\ outbox' \in Seq(Frame) /\ toolIndex \in Nat /\ call \in Nat
      /\ frags \in [Calls -> 0 .. MaxFrags]
  BY <1>3 DEF OneInv, TypeOK
<1>5. \A c \in Calls : frags[c] \in Nat
  BY <1>4, ProxyStreamAssumption
<1>6. Stream = out /\ Stream' = out \o outbox'
  BY <1>1, <1>4 DEF Stream
<1>7. log = <<>>
  BY <1>1 DEF OneInv, OneAtATime
<1>8. \A ev : ~Pending(ev)'
  BY <1>2 DEF Pending
<1> QED
  BY <1>1, <1>2, <1>3, <1>4, <1>5, <1>6, <1>7, <1>8 DEF InHand

\* With its event handled, the call's bookkeeping stays.
LEMMA OneAtATimeStays ==
  ASSUME OneInv, Handle
  PROVE  OneAtATime'
<1>1. /\ events' = <<>> /\ log' = <<>> /\ UNCHANGED <<call, frags, openCalls>>
      /\ \A ev : ~Pending(ev)' /\ (InHand' <=> openCalls # {})
  BY OneHandleFacts
<1>2. /\ openCalls \subseteq {call} /\ (openCalls # {} => call \in Calls)
      /\ \A c \in Calls : c > call => frags[c] = 0
  BY DEF OneInv, OneAtATime, InHand
<1> QED
  BY <1>1, <1>2 DEF OneAtATime

\* Frames that answer no call change nothing about the answers.
LEMMA NoAnswerAdded ==
  ASSUME NEW t \in Seq(Frame), Stream \in Seq(Frame), Stream' = Stream \o t,
         \A j \in DOMAIN t : ~IsAnswer(t[j])
  PROVE  /\ \A c : Answered(c)' <=> Answered(c)
         /\ \A i \in DOMAIN Stream' : IsAnswer(Stream'[i]) => i \in DOMAIN Stream /\ Stream'[i] = Stream[i]
         /\ OneAnswer(Stream) => OneAnswer(Stream')
<1>1. \A i \in DOMAIN Stream' : IsAnswer(Stream'[i]) => i \in DOMAIN Stream /\ Stream'[i] = Stream[i]
  BY ConcatElements
<1>2. \A c : Answered(c)' => Answered(c)
  BY <1>1 DEF Answered, IsAnswer
<1>3. \A c : Answered(c) => Answered(c)'
  BY AnswersStay
<1>4. OneAnswer(Stream) => OneAnswer(Stream')
  BY <1>1 DEF OneAnswer
<1> QED
  BY <1>1, <1>2, <1>3, <1>4

\* A handler that answers no call, and leaves the call in hand unanswered if it was.
LEMMA QuietHandler ==
  ASSUME OneInv, Handle, \A j \in DOMAIN outbox' : ~IsAnswer(outbox'[j]),
         InHand' => InHand, (InHand /\ ~skip)' <=> (InHand /\ ~skip)
  PROVE  AnsweredOnce' /\ (connected' => WholeIn(Stream', frags'))
<1>1. /\ Stream' = Stream \o outbox' /\ Stream \in Seq(Frame) /\ outbox' \in Seq(Frame)
      /\ UNCHANGED <<call, frags, openCalls, connected>>
      /\ \A c \in Calls : frags[c] \in Nat
  BY OneHandleFacts
<1>2. AnsweredOnce /\ (connected => WholeIn(Stream, frags))
  BY DEF OneInv
<1>3. /\ \A c : Answered(c)' <=> Answered(c)
      /\ \A i \in DOMAIN Stream' : IsAnswer(Stream'[i]) => i \in DOMAIN Stream /\ Stream'[i] = Stream[i]
      /\ OneAnswer(Stream) => OneAnswer(Stream')
  BY <1>1, NoAnswerAdded
<1>4. \A i \in DOMAIN Stream' : Stream'[i].kind = "start" =>
        Stream'[i].call \in Calls /\ (InHand' => Stream'[i].call # call)
  BY <1>2, <1>3 DEF AnsweredOnce, IsAnswer
<1>5. AnsweredOnce'
  BY <1>1, <1>2, <1>3, <1>4 DEF AnsweredOnce
<1>6. connected => WholeIn(Stream', frags)
  <2>1. \A i \in DOMAIN Stream : Stream[i].kind = "start" => frags[Stream[i].call] \in Nat
    BY <1>1, <1>2 DEF AnsweredOnce
  <2>2. \A j \in DOMAIN outbox' : outbox'[j].kind # "start"
    BY DEF IsAnswer
  <2> QED
    BY <1>1, <1>2, <2>1, <2>2, WholeConcat
<1> QED
  BY <1>1, <1>5, <1>6

\* A frame of a text delta or of what the adapter does not know.
LEMMA OnePlain ==
  ASSUME OneInv, Handle, NEW f, outbox' = <<f>>, ~IsAnswer(f),
         UNCHANGED <<toolBuf, toolName, toolIndex, skip>>,
         ~Pending("start"), ~Pending("delta"), ~Pending("end")
  PROVE  OneInv'
<1>1. /\ TypeOK' /\ UNCHANGED <<call, frags, openCalls, connected>>
      /\ \A ev : ~Pending(ev)'
      /\ InHand' <=> openCalls # {}
  BY OneHandleFacts
<1>2. InHand' <=> InHand
  BY <1>1 DEF InHand
<1>3. \A j \in DOMAIN outbox' : ~IsAnswer(outbox'[j])
  OBVIOUS
<1>4. AnsweredOnce' /\ (connected' => WholeIn(Stream', frags'))
  BY <1>2, <1>3, QuietHandler
<1>5. HandBuffered'
  BY <1>1, <1>2 DEF OneInv, HandBuffered, Holds
<1> QED
  BY <1>1, <1>4, <1>5, OneAtATimeStays DEF OneInv

LEMMA OneText ==
  ASSUME OneInv, TextDelta, Handle
  PROVE  OneInv'
<1>1. PICK k \in {"text", "textstub"} : outbox' = << FrameOf(k, NoCall, 0, toolIndex) >>
  BY DEF TextDelta
<1>2. ~IsAnswer(FrameOf(k, NoCall, 0, toolIndex))
  BY DEF FrameOf, IsAnswer
<1>3. ~Pending("start") /\ ~Pending("delta") /\ ~Pending("end")
  BY DEF TextDelta, Handling, Pending
<1>4. UNCHANGED <<toolBuf, toolName, toolIndex, skip>>
  BY DEF TextDelta
<1> QED
  BY <1>1, <1>2, <1>3, <1>4, OnePlain

LEMMA OneRaw ==
  ASSUME OneInv, Raw, Handle
  PROVE  OneInv'
<1>1. outbox' = << FrameOf("raw", NoCall, 0, 0) >>
  BY DEF Raw
<1>2. ~IsAnswer(FrameOf("raw", NoCall, 0, 0))
  BY DEF FrameOf, IsAnswer
<1>3. ~Pending("start") /\ ~Pending("delta") /\ ~Pending("end")
  BY DEF Raw, Handling, Pending
<1>4. UNCHANGED <<toolBuf, toolName, toolIndex, skip>>
  BY DEF Raw, handler
<1> QED
  BY <1>1, <1>2, <1>3, <1>4, OnePlain

\* The fragment in hand is the next one of the call in the buffer.
LEMMA OneDelta ==
  ASSUME OneInv, ToolUseDelta, Handle
  PROVE  OneInv'
<1>1. /\ Pending("delta") /\ ~Pending("start") /\ ~Pending("end")
      /\ outbox' = <<>> /\ UNCHANGED <<toolName, toolIndex, skip>>
  BY DEF ToolUseDelta, Handling, Pending
<1>2. /\ TypeOK' /\ UNCHANGED <<call, frags, openCalls, connected>>
      /\ \A ev : ~Pending(ev)'
      /\ InHand' <=> openCalls # {}
      /\ \A c \in Calls : frags[c] \in Nat
  BY OneHandleFacts
<1>3. /\ InHand' /\ InHand /\ call \in Calls
      /\ Head(events).frag = [call |-> call, frag |-> frags[call]]
  BY <1>1, <1>2 DEF OneInv, OneAtATime, InHand
<1>4. AnsweredOnce' /\ (connected' => WholeIn(Stream', frags'))
  BY <1>1, <1>3, QuietHandler
<1>5. HandBuffered /\ toolBuf \in Seq(Frame)
  BY DEF OneInv, TypeOK
<1>6. HandBuffered'
  <2>1. CASE skip
    BY <1>1, <1>2, <1>3, <1>5, <2>1 DEF HandBuffered
  <2>2. CASE ~skip
    <3> DEFINE f == FrameOf("delta", call, frags[call], toolIndex)
    <3>1. toolBuf' = Append(toolBuf, f)
      BY <1>3, <2>2 DEF ToolUseDelta
    <3>2. /\ toolBuf # <<>> /\ Len(toolBuf) = frags[call] /\ Holds(toolBuf, call, toolIndex)
          /\ toolName = call /\ frags[call] \in Nat
      BY <1>1, <1>2, <1>3, <1>5, <2>2 DEF HandBuffered
    <3> HIDE DEF f
    <3>3. /\ toolBuf' # <<>> /\ Len(toolBuf') = frags[call] + 1
          /\ 1 \in 1 .. Len(toolBuf) /\ \A k \in 1 .. Len(toolBuf) : toolBuf'[k] = toolBuf[k]
          /\ toolBuf'[frags[call] + 1] = f
      BY <1>5, <3>1, <3>2
    <3>4. toolBuf'[1] = FrameOf("start", call, 0, toolIndex)
      BY <3>2, <3>3 DEF Holds
    <3>5. ASSUME NEW k \in 1 .. Len(toolBuf') - 1
          PROVE  toolBuf'[k + 1] = FrameOf("delta", call, k, toolIndex)
      <4>1. CASE k = frags[call]
        BY <3>3, <4>1 DEF f
      <4>2. CASE k # frags[call]
        <5>1. k \in 1 .. Len(toolBuf) - 1 /\ k + 1 \in 1 .. Len(toolBuf)
          BY <3>2, <3>3, <4>2
        <5> QED
          BY <3>2, <3>3, <5>1 DEF Holds
      <4> QED
        BY <4>1, <4>2
    <3>6. Holds(toolBuf', call, toolIndex)
      BY <3>4, <3>5 DEF Holds
    <3> QED
      BY <1>1, <1>2, <1>3, <2>2, <3>2, <3>3, <3>6 DEF HandBuffered, Holds
  <2> QED
    BY <2>1, <2>2
<1> QED
  BY <1>2, <1>4, <1>6, OneAtATimeStays DEF OneInv

\* A denied call ends: its stub has answered it.
LEMMA OneSkipped ==
  ASSUME OneInv, SkippedEnd, Handle
  PROVE  OneInv'
<1>1. Pending("end") /\ skip /\ skip' = FALSE /\ outbox' = <<>>
  BY DEF SkippedEnd, Handling, Pending
<1>2. /\ TypeOK' /\ ~InHand' /\ InHand
  <2>1. openCalls = {}
    BY <1>1 DEF OneInv, OneAtATime
  <2> QED
    BY <1>1, <2>1, OneHandleFacts DEF InHand
<1>3. AnsweredOnce' /\ (connected' => WholeIn(Stream', frags'))
  BY <1>1, <1>2, QuietHandler
<1>4. HandBuffered'
  BY <1>1, <1>2 DEF HandBuffered
<1> QED
  BY <1>2, <1>3, <1>4, OneAtATimeStays DEF OneInv

\* Frames with one answer, of the call in hand, which is not answered yet.
LEMMA AnswerAdded ==
  ASSUME NEW t \in Seq(Frame), Stream \in Seq(Frame), Stream' = Stream \o t,
         NEW c, NEW k \in DOMAIN t, IsAnswer(t[k]), t[k].call = c,
         \A j \in DOMAIN t : IsAnswer(t[j]) => j = k,
         ~Answered(c), OneAnswer(Stream)
  PROVE  /\ OneAnswer(Stream')
         /\ \A d : Answered(d)' <=> Answered(d) \/ d = c
         /\ \A i \in DOMAIN Stream' : IsAnswer(Stream'[i]) =>
              \/ i \in DOMAIN Stream /\ Stream'[i] = Stream[i]
              \/ Stream'[i] = t[k]
<1>1. /\ DOMAIN Stream' = 1 .. Len(Stream') /\ Len(Stream') = Len(Stream) + Len(t)
      /\ DOMAIN Stream = 1 .. Len(Stream) /\ Len(Stream) \in Nat /\ Len(t) \in Nat
      /\ DOMAIN t = 1 .. Len(t)
  BY ConcatParts
<1>2. \A i \in DOMAIN Stream' : IsAnswer(Stream'[i]) =>
        \/ i \in DOMAIN Stream /\ Stream'[i] = Stream[i]
        \/ i = Len(Stream) + k /\ Stream'[i] = t[k]
  <2> SUFFICES ASSUME NEW i \in DOMAIN Stream', IsAnswer(Stream'[i])
               PROVE  \/ i \in DOMAIN Stream /\ Stream'[i] = Stream[i]
                      \/ i = Len(Stream) + k /\ Stream'[i] = t[k]
    OBVIOUS
  <2>1. \/ i \in DOMAIN Stream /\ Stream'[i] = Stream[i]
        \/ i > Len(Stream) /\ i - Len(Stream) \in DOMAIN t /\ Stream'[i] = t[i - Len(Stream)]
    BY ConcatElements
  <2>2. CASE i - Len(Stream) \in DOMAIN t /\ Stream'[i] = t[i - Len(Stream)]
    <3>1. i - Len(Stream) = k
      BY <2>2
    <3>2. i = Len(Stream) + k
      BY <1>1, <3>1
    <3> QED
      BY <2>2, <3>1, <3>2
  <2> QED
    BY <2>1, <2>2
<1>3. \A i \in DOMAIN Stream : IsAnswer(Stream[i]) => Stream[i].call # c
  BY DEF Answered, IsAnswer
<1>4. OneAnswer(Stream')
  <2> SUFFICES ASSUME NEW i \in DOMAIN Stream', NEW j \in DOMAIN Stream',
                      IsAnswer(Stream'[i]), IsAnswer(Stream'[j]), Stream'[i].call = Stream'[j].call
               PROVE  i = j
    BY DEF OneAnswer
  <2>1. CASE i \in DOMAIN Stream /\ Stream'[i] = Stream[i] /\ j \in DOMAIN Stream /\ Stream'[j] = Stream[j]
    BY <2>1 DEF OneAnswer
  <2> QED
    BY <1>2, <1>3, <2>1
<1>5. \A d : Answered(d)' => Answered(d) \/ d = c
  BY <1>2 DEF Answered, IsAnswer
<1>6. \A d : Answered(d) \/ d = c => Answered(d)'
  <2>1. t[k].kind \in {"start", "stub"}
    BY DEF IsAnswer
  <2> QED
    BY <2>1, AnswersStay
<1> QED
  BY <1>2, <1>4, <1>5, <1>6

\* The call in hand is answered, by its stub at its start or at its end, or by
\* its frames.
LEMMA HandAnswered ==
  ASSUME OneInv, Handle, InHand, ~skip, InHand' => skip',
         NEW k \in DOMAIN outbox', IsAnswer(outbox'[k]), outbox'[k].call = call,
         \A j \in DOMAIN outbox' : IsAnswer(outbox'[j]) => j = k,
         outbox'[k].kind = "start" => ~InHand'
  PROVE  AnsweredOnce'
<1>1. /\ Stream' = Stream \o outbox' /\ Stream \in Seq(Frame) /\ outbox' \in Seq(Frame)
      /\ UNCHANGED <<call, frags, openCalls, connected>> /\ call \in Nat
  BY OneHandleFacts
<1>2. AnsweredOnce /\ call \in Calls
  BY DEF OneInv, OneAtATime
<1>3. /\ OneAnswer(Stream')
      /\ \A d : Answered(d)' <=> Answered(d) \/ d = call
      /\ \A i \in DOMAIN Stream' : IsAnswer(Stream'[i]) =>
           \/ i \in DOMAIN Stream /\ Stream'[i] = Stream[i]
           \/ Stream'[i] = outbox'[k]
  <2>1. ~Answered(call) /\ OneAnswer(Stream)
    BY <1>2 DEF AnsweredOnce
  <2>2. /\ outbox' \in Seq(Frame) /\ Stream \in Seq(Frame) /\ Stream' = Stream \o outbox'
        /\ k \in DOMAIN outbox' /\ IsAnswer(outbox'[k]) /\ outbox'[k].call = call
        /\ \A j \in DOMAIN outbox' : IsAnswer(outbox'[j]) => j = k
    BY <1>1
  <2> QED
    BY <2>1, <2>2, AnswerAdded
<1>4. \A c \in Calls : Answered(c)' => c <= call
  <2> TAKE c \in Calls
  <2>1. Answered(c)' => Answered(c) \/ c = call
    BY <1>3
  <2>2. Answered(c) => c <= call
    BY <1>2 DEF AnsweredOnce
  <2>3. call <= call
    BY <1>1
  <2> QED
    BY <2>1, <2>2, <2>3
<1>5. \A i \in DOMAIN Stream' : Stream'[i].kind = "start" =>
        Stream'[i].call \in Calls /\ (InHand' => Stream'[i].call # call)
  BY <1>2, <1>3 DEF AnsweredOnce, IsAnswer
<1>6. connected => \A c \in 1 .. call : Answered(c)'
  BY <1>2, <1>3 DEF AnsweredOnce
<1> QED
  BY <1>1, <1>3, <1>4, <1>5, <1>6 DEF AnsweredOnce

\* The new call is answered at once, or it is in the buffer.
LEMMA OneStart ==
  ASSUME OneInv, ToolUseStart, Handle
  PROVE  OneInv'
<1>1. Pending("start") /\ toolName' = Head(events).call
  BY DEF ToolUseStart, Handling, Pending
<1>2. /\ openCalls # {} /\ Head(events).call = call /\ ~skip /\ frags[call] = 0
      /\ InHand /\ call \in Calls
  BY <1>1 DEF OneInv, OneAtATime, InHand
<1>3. /\ TypeOK' /\ UNCHANGED <<call, frags, openCalls, connected>>
      /\ \A ev : ~Pending(ev)'
      /\ InHand' /\ outbox = <<>> /\ toolIndex \in Nat
      /\ Stream' = Stream \o outbox' /\ Stream \in Seq(Frame) /\ outbox' \in Seq(Frame)
      /\ \A c \in Calls : frags[c] \in Nat
  BY <1>2, OneHandleFacts
<1>4. CASE DenyCall
  <2> DEFINE f == FrameOf("stub", call, 0, toolIndex)
  <2>1. f.kind = "stub" /\ f.call = call
    BY DEF FrameOf
  <2>2. outbox' = <<f>> /\ skip'
    BY <1>2, <1>4 DEF DenyCall, StartStub
  <2> HIDE DEF f
  <2>3. DOMAIN outbox' = {1} /\ outbox'[1] = f
    BY <2>2
  <2>4. AnsweredOnce'
    BY <1>2, <2>1, <2>2, <2>3, HandAnswered DEF IsAnswer
  <2>5. connected => WholeIn(Stream', frags)
    <3>1. \A i \in DOMAIN Stream : Stream[i].kind = "start" => frags[Stream[i].call] \in Nat
      BY <1>3 DEF OneInv, AnsweredOnce
    <3>2. \A j \in DOMAIN outbox' : outbox'[j].kind # "start"
      BY <2>1, <2>3
    <3> QED
      BY <1>3, <3>1, <3>2, WholeConcat DEF OneInv
  <2>6. HandBuffered'
    BY <1>1, <1>2, <1>3, <2>2 DEF HandBuffered
  <2> QED
    BY <1>3, <2>4, <2>5, <2>6, OneAtATimeStays DEF OneInv
<1>5. CASE AdmitCall
  <2>1. /\ outbox' = <<>> /\ toolBuf' = <<FrameOf("start", call, 0, toolIndex)>>
        /\ toolIndex' = toolIndex /\ ~skip'
    BY <1>2, <1>3, <1>5 DEF AdmitCall, StartFrame
  <2>2. AnsweredOnce' /\ (connected' => WholeIn(Stream', frags'))
    BY <1>2, <1>3, <2>1, QuietHandler
  <2>3. Holds(toolBuf', call, toolIndex) /\ Len(toolBuf') = 1 /\ toolBuf' # <<>>
    BY <2>1 DEF Holds
  <2>4. HandBuffered'
    BY <1>1, <1>2, <1>3, <2>1, <2>3 DEF HandBuffered, Holds
  <2> QED
    BY <1>3, <2>2, <2>4, OneAtATimeStays DEF OneInv
<1> QED
  BY <1>4, <1>5 DEF ToolUseStart

\* The end of the call in hand: its stub, or all of its frames.
LEMMA OneEnd ==
  ASSUME OneInv, ToolUseEnd, Handle
  PROVE  OneInv'
<1>1. /\ Pending("end") /\ ~Pending("start") /\ ~Pending("delta") /\ ~skip
      /\ UNCHANGED <<toolName, skip>>
  BY DEF ToolUseEnd, Handling, Pending
<1>2. /\ openCalls = {} /\ InHand /\ call \in Calls /\ toolName = call
  BY <1>1 DEF OneInv, OneAtATime, HandBuffered, InHand
<1>3. /\ TypeOK' /\ UNCHANGED <<call, frags, openCalls, connected>>
      /\ ~InHand' /\ toolIndex \in Nat
      /\ Stream' = Stream \o outbox' /\ Stream \in Seq(Frame) /\ outbox' \in Seq(Frame)
      /\ \A c \in Calls : frags[c] \in Nat
  BY <1>2, OneHandleFacts
<1>4. HandBuffered'
  BY <1>1, <1>3 DEF HandBuffered
<1>5. \A i \in DOMAIN Stream : Stream[i].kind = "start" => frags[Stream[i].call] \in Nat
  BY <1>3 DEF OneInv, AnsweredOnce
<1>6. \/ outbox' = << FrameOf("stub", call, 0, toolIndex) >>
      \/ outbox' = Append(toolBuf, FrameOf("stop", call, 0, toolIndex))
  BY <1>2 DEF ToolUseEnd
<1>7. CASE outbox' = << FrameOf("stub", call, 0, toolIndex) >>
  <2> DEFINE f == FrameOf("stub", call, 0, toolIndex)
  <2>1. f.kind = "stub" /\ f.call = call
    BY DEF FrameOf
  <2>2. DOMAIN outbox' = {1} /\ outbox'[1] = f
    BY <1>7
  <2> HIDE DEF f
  <2>3. AnsweredOnce'
    BY <1>1, <1>2, <1>3, <2>1, <2>2, HandAnswered DEF IsAnswer
  <2>4. connected => WholeIn(Stream', frags)
    <3>1. \A j \in DOMAIN outbox' : outbox'[j].kind # "start"
      BY <2>1, <2>2
    <3> QED
      BY <1>3, <1>5, <3>1, WholeConcat DEF OneInv
  <2> QED
    BY <1>3, <1>4, <2>3, <2>4, OneAtATimeStays DEF OneInv
<1>8. CASE outbox' = Append(toolBuf, FrameOf("stop", call, 0, toolIndex))
  <2> DEFINE f == FrameOf("stop", call, 0, toolIndex)
  <2>1. /\ toolBuf # <<>> /\ Len(toolBuf) = frags[call] + 1 /\ Holds(toolBuf, call, toolIndex)
        /\ toolBuf \in Seq(Frame)
    BY <1>1, <1>2 DEF OneInv, HandBuffered, TypeOK
  <2>2. f.kind = "stop"
    BY DEF FrameOf
  <2> HIDE DEF f
  <2>3. /\ DOMAIN outbox' = 1 .. Len(toolBuf) + 1 /\ 1 \in DOMAIN outbox' /\ Len(toolBuf) \in Nat
        /\ \A j \in 1 .. Len(toolBuf) : outbox'[j] = toolBuf[j]
        /\ outbox'[Len(toolBuf) + 1] = f
    BY <1>8, <2>1 DEF f
  <2>4. outbox'[1].kind = "start" /\ outbox'[1].call = call
    <3>1. outbox'[1] = FrameOf("start", call, 0, toolIndex)
      BY <2>1, <2>3 DEF Holds
    <3> QED
      BY <3>1 DEF FrameOf
  <2>5. ASSUME NEW j \in DOMAIN outbox', j # 1 PROVE ~IsAnswer(outbox'[j])
    <3>1. CASE j = Len(toolBuf) + 1
      BY <2>2, <2>3, <3>1 DEF IsAnswer
    <3>2. CASE j # Len(toolBuf) + 1
      <4>1. j - 1 \in 1 .. Len(toolBuf) - 1 /\ j = (j - 1) + 1 /\ j \in 1 .. Len(toolBuf)
        BY <2>3, <2>5, <3>2
      <4>2. outbox'[j] = FrameOf("delta", call, j - 1, toolIndex)
        BY <2>1, <2>3, <4>1 DEF Holds
      <4> QED
        BY <4>2 DEF FrameOf, IsAnswer
    <3> QED
      BY <3>1, <3>2
  <2>6. AnsweredOnce'
    BY <1>1, <1>2, <1>3, <2>3, <2>4, <2>5, HandAnswered DEF IsAnswer
  <2>7. connected => WholeIn(Stream', frags)
    <3>1. connected => WholeIn(Stream, frags)
      BY DEF OneInv
    <3> QED
      BY <1>2, <1>3, <1>5, <1>8, <2>1, <3>1, WholeDrain
  <2> QED
    BY <1>3, <1>4, <2>6, <2>7, OneAtATimeStays DEF OneInv
<1> QED
  BY <1>6, <1>7, <1>8

-------------------------------------------------------------------------------
(* The other steps and the theorems.                                       *)

\* While the client listens a send moves a frame; after that it may lose one.
LEMMA OneSend ==
  ASSUME OneInv, Send
  PROVE  OneInv'
<1>1. /\ outbox # <<>> /\ out \in Seq(Frame) /\ outbox \in Seq(Frame)
      /\ outbox' = Tail(outbox)
      /\ \/ connected /\ out' = Append(out, Head(outbox))
         \/ ~connected /\ out' = out
      /\ UNCHANGED <<call, frags, openCalls, eof, events, connected, log>>
      /\ UNCHANGED <<toolBuf, toolName, toolIndex, skip>>
  BY DEF OneInv, TypeOK, Send, upstream, handler
<1>2. connected => Stream' = Stream
  <2>1. Append(out, Head(outbox)) \o Tail(outbox) = out \o outbox
    BY <1>1
  <2> QED
    BY <1>1, <2>1 DEF Stream
<1> DEFINE at(i) == IF connected \/ i <= Len(out) THEN i ELSE i + 1
<1>3. /\ \A i \in DOMAIN Stream' : at(i) \in DOMAIN Stream /\ Stream'[i] = Stream[at(i)]
      /\ \A i, j \in DOMAIN Stream' : at(i) = at(j) => i = j
  <2>1. CASE ~connected
    <3>1. Stream' = out \o Tail(outbox) /\ Stream = out \o outbox
      BY <1>1, <2>1 DEF Stream
    <3>2. \A i \in DOMAIN (out \o Tail(outbox)) :
            at(i) \in DOMAIN (out \o outbox) /\ (out \o Tail(outbox))[i] = (out \o outbox)[at(i)]
      BY <1>1, <2>1
    <3>3. \A i, j \in DOMAIN (out \o Tail(outbox)) : at(i) = at(j) => i = j
      BY <1>1, <2>1
    <3> QED
      BY <3>1, <3>2, <3>3
  <2> QED
    BY <1>2, <2>1
<1> HIDE DEF at
<1>4. \A ev : Pending(ev)' = Pending(ev)
  BY <1>1 DEF Pending
<1>5. InHand' = InHand
  BY <1>1, <1>4 DEF InHand
<1>6. OneAtATime'
  BY <1>1, <1>4, <1>5 DEF OneInv, OneAtATime
<1>7. HandBuffered'
  BY <1>1, <1>4, <1>5 DEF OneInv, HandBuffered, Holds
<1>8. /\ \A c : Answered(c)' => Answered(c)
      /\ connected => \A c : Answered(c) => Answered(c)'
  BY <1>2, <1>3 DEF Answered
<1>9. OneAnswer(Stream')
  BY <1>3 DEF OneInv, AnsweredOnce, OneAnswer
<1>10. AnsweredOnce'
  BY <1>1, <1>3, <1>5, <1>8, <1>9 DEF OneInv, AnsweredOnce
<1>11. connected' => WholeIn(Stream', frags')
  BY <1>1, <1>2 DEF OneInv
<1>12. TypeOK'
  BY SendType DEF OneInv
<1> QED
  BY <1>6, <1>7, <1>10, <1>11, <1>12 DEF OneInv

LEMMA OneQuiet ==
  ASSUME OneInv, Complete \/ Client \/ UNCHANGED vars
  PROVE  OneInv'
<1>1. /\ UNCHANGED <<call, frags, openCalls, eof, events, out, outbox>>
      /\ UNCHANGED <<toolBuf, toolName, toolIndex, skip>>
      /\ connected' => connected
      /\ log' # <<>> => log # <<>> \/ (eof /\ events = <<>>)
  BY DEF Complete, Client, Receive, Disconnect, vars, upstream, handler, channel
<1>2. /\ Stream' = Stream /\ \A ev : Pending(ev)' = Pending(ev)
      /\ \A c : Answered(c)' = Answered(c)
  BY <1>1 DEF Stream, Pending, Answered
<1>3. InHand' = InHand
  BY <1>1, <1>2 DEF InHand
<1>4. OneAtATime'
  BY <1>1, <1>2, <1>3 DEF OneInv, OneAtATime
<1>5. HandBuffered'
  BY <1>1, <1>2, <1>3 DEF OneInv, HandBuffered, Holds
<1>6. AnsweredOnce'
  BY <1>1, <1>2, <1>3 DEF OneInv, AnsweredOnce
<1>7. connected' => WholeIn(Stream', frags')
  BY <1>1, <1>2 DEF OneInv
<1>8. TypeOK'
  BY NextType DEF OneInv, Next
<1> QED
  BY <1>4, <1>5, <1>6, <1>7, <1>8 DEF OneInv

LEMMA OneStep ==
  ASSUME OneInv, [Next]_vars, Protocol = "openai", OneOpen'
  PROVE  OneInv'
<1>1. CASE Upstream
  BY <1>1, OneUpstream
<1>2. CASE Handle
  BY <1>2, OneText, OneStart, OneDelta, OneSkipped, OneEnd, OneRaw DEF Handle
<1>3. CASE Send
  BY <1>3, OneSend
<1>4. CASE Complete \/ Client \/ UNCHANGED vars
  BY <1>4, OneQuiet
<1> QED
  BY <1>1, <1>2, <1>3, <1>4 DEF Next

LEMMA OneInitial == Init => OneInv
<1> SUFFICES ASSUME Init PROVE OneInv
  OBVIOUS
<1>1. Stream = <<>> /\ ~InHand /\ ~skip /\ \A ev : ~Pending(ev)
  BY DEF Init, Stream, InHand, Pending
<1>2. WholeIn(Stream, frags) /\ AnsweredOnce
  BY <1>1 DEF Init, WholeIn, AnsweredOnce, OneAnswer, Answered
<1>3. OneAtATime
  BY <1>1 DEF Init, OneAtATime
<1>4. HandBuffered
  BY <1>1 DEF HandBuffered
<1> QED
  BY <1>2, <1>3, <1>4, InitType DEF OneInv

LEMMA OneAlways == Protocol = "openai" => (Spec /\ []OneOpen => []OneInv)
<1> SUFFICES ASSUME Protocol = "openai" PROVE Spec /\ []OneOpen => []OneInv
  OBVIOUS
<1>1. OneInv /\ [Next]_vars /\ OneOpen' => OneInv'
  BY OneStep
<1> QED
  BY <1>1, OneInitial, PTL DEF Spec

\* Behind the OpenAI adapter too a forwarded tool use arrives whole, as long as no
\* call starts before the one in front of it has ended: tool_buf holds one call
\* (src/src/proxy.rs:664-700), and its end comes with finish_reason or with the end
\* of the body (src/src/protocol/openai.rs:103-118), with text in between or not.
THEOREM OneCallArrivesWhole == Protocol = "openai" => (Spec /\ []OneOpen => []ForwardedWhole)
<1>1. OneInv => ForwardedWhole
  BY DEF OneInv, WholeIn, ForwardedWhole
<1> QED
  BY <1>1, OneAlways, PTL

\* Then every tool use that ended is answered when the stream is recorded and the
\* client still listens; two calls at a time are not (run stream_parallel).
THEOREM OneCallIsAnswered == Protocol = "openai" => (Spec /\ []OneOpen => []CallsAnswered)
<1>1. OneInv => CallsAnswered
  <2> SUFFICES ASSUME OneInv, log # <<>>, connected, NEW c \in (1 .. call) \ openCalls
               PROVE  Answered(c)
    BY DEF CallsAnswered, Answered
  <2>1. InHand <=> openCalls # {}
    BY DEF OneInv, OneAtATime, InHand, Pending
  <2>2. openCalls \subseteq {call}
    BY DEF OneInv, OneAtATime
  <2>3. Answered(c) \/ (c = call /\ openCalls # {})
    BY <2>1 DEF OneInv, AnsweredOnce
  <2> QED
    BY <2>2, <2>3
<1> QED
  BY <1>1, OneAlways, PTL

\* And one that was replaced is not forwarded later: the frames a refusal leaves in
\* tool_buf (src/src/proxy.rs:815) are cleared by the next start (:665), before an end.
THEOREM OneCallStaysOut == Protocol = "openai" => (Spec /\ []OneOpen => []SubstitutedStaysOut)
<1>1. OneInv => SubstitutedStaysOut
  <2> SUFFICES ASSUME OneInv, NEW i \in DOMAIN Stream, NEW j \in DOMAIN Stream, i < j,
                      Stream[i].kind = "stub", Stream[j].kind = "start"
               PROVE  Stream[i].call # Stream[j].call
    BY DEF SubstitutedStaysOut
  <2>1. OneAnswer(Stream) /\ IsAnswer(Stream[i]) /\ IsAnswer(Stream[j])
    BY DEF OneInv, AnsweredOnce, IsAnswer
  <2>2. i # j
    BY DEF OneInv, AnsweredOnce, IsAnswer
  <2> QED
    BY <2>1, <2>2 DEF OneAnswer
<1> QED
  BY <1>1, OneAlways, PTL

\* Each step behind the OpenAI adapter, without overlap, is one of the gate.
LEMMA OneGate ==
  ASSUME OneInv, IInv, AdmittedOnly, [Next]_vars, Protocol = "openai", OneOpen'
  PROVE  GateMoves
<1>1. TypeOK /\ BufferedIsCurrent /\ call \in Nat /\ AnsweredOnce
  BY DEF IInv, GateInv, TypeOK, OneInv
<1>2. CASE Upstream
  <2>1. Stream' = Stream /\ connected' = connected /\ strayed' = strayed /\ events = <<>>
    BY <1>2, OneUpstreamKinds DEF Stream
  <2>2. CASE call' = call
    BY <2>1, <2>2, GateWaits
  <2>3. CASE openCalls = {} /\ call' = call + 1 /\ call' \in Calls
    <3>1. ~InHand
      BY <2>1, <2>3 DEF InHand, Pending
    <3>2. ~Answered(call')
      BY <1>1, <2>3 DEF AnsweredOnce, Calls
    <3>3. connected => \A c \in 1 .. call : Answered(c)
      BY <1>1, <3>1 DEF AnsweredOnce
    <3> QED
      BY <1>1, <2>1, <2>3, <3>2, <3>3, GateBegins
  <2> QED
    BY <1>2, <2>2, <2>3, OneUpstreamKinds
<1>3. CASE Handle /\ ~ToolUseEnd
  <2>1. Pending("start") => Head(events).call <= call
    BY <1>1 DEF OneInv, OneAtATime
  <2> QED
    BY <1>1, <1>3, <2>1, GateBeforeEnd
<1>4. CASE Handle /\ ToolUseEnd
  <2>1. /\ Pending("end") /\ ~Pending("start") /\ ~Pending("delta") /\ ~skip
    BY <1>4 DEF ToolUseEnd, Handling, Pending
  <2>2. /\ InHand /\ call \in Calls /\ toolName = call /\ ~Answered(call)
        /\ toolBuf \in Seq(Frame) /\ Holds(toolBuf, call, toolIndex)
    BY <1>1, <2>1 DEF OneInv, OneAtATime, HandBuffered, AnsweredOnce, InHand, TypeOK
  <2>3. \/ Mode = "block" /\ outbox' = << FrameOf("stub", toolName, 0, toolIndex) >>
        \/ outbox' = Append(toolBuf, FrameOf("stop", toolName, 0, toolIndex))
    BY <1>4 DEF ToolUseEnd
  <2>4. toolName <= call /\ ~Sent("stub", toolName)
    BY <1>1, <2>2 DEF Answered, Sent
  <2>5. ASSUME NEW j \in DOMAIN toolBuf PROVE toolBuf[j].kind # "stub"
    <3>1. CASE j = 1
      BY <2>2, <3>1 DEF Holds, FrameOf
    <3>2. CASE j # 1
      <4>1. j - 1 \in 1 .. Len(toolBuf) - 1 /\ j = (j - 1) + 1
        BY <2>2, <3>2
      <4>2. toolBuf[j] = FrameOf("delta", call, j - 1, toolIndex)
        BY <2>2, <4>1 DEF Holds
      <4> QED
        BY <4>2 DEF FrameOf
    <3> QED
      BY <3>1, <3>2
  <2> QED
    BY <1>1, <1>4, <2>3, <2>4, <2>5, GateStub, GateForward
<1>5. CASE Send \/ Complete \/ Client \/ UNCHANGED vars
  BY <1>1, <1>5, GateOther
<1> QED
  BY <1>2, <1>3, <1>4, <1>5 DEF Next

\* As long as calls do not overlap, the stream behind the OpenAI adapter is a gate
\* for whole tool calls as well: each is settled once and before the next begins,
\* no denied one is given, and in monitor mode no other is replaced
\* (src/src/proxy.rs:664-845, src/src/protocol/openai.rs:103-118).
THEOREM OneCallIsToolGate == Protocol = "openai" => (Spec /\ []OneOpen => StreamIsToolGate)
<1> SUFFICES ASSUME Protocol = "openai" PROVE Spec /\ []OneOpen => StreamIsToolGate
  OBVIOUS
<1>1. OneInv /\ IInv /\ AdmittedOnly /\ [Next]_vars /\ OneOpen' => [ToolCalls!Next]_Fates
  BY OneGate DEF GateMoves
<1>2. OneInv /\ IInv /\ AdmittedOnly /\ [Next]_vars /\ OneOpen'
        => [ToolCalls!Next]_([c \in Calls |-> Fate(c)])
  BY <1>1 DEF Fates
<1> QED
  BY <1>2, GateInitially, GateAlways, OneAlways, PTL DEF Spec, StreamIsToolGate, ToolCalls!Spec

\* With a single call in a response, as in run stream_openai, none overlaps.
THEOREM SingleCall ==
  Protocol = "openai" /\ MaxCalls = 1 => (Spec => [](ForwardedWhole /\ CallsAnswered))
<1> SUFFICES ASSUME Protocol = "openai", MaxCalls = 1
             PROVE  Spec => [](ForwardedWhole /\ CallsAnswered)
  OBVIOUS
<1>1. TypeOK => OneOpen
  <2>1. Calls = {1}
    BY DEF Calls
  <2> QED
    BY <2>1 DEF TypeOK, OneOpen
<1> QED
  BY <1>1, StreamTypes, OneCallArrivesWhole, OneCallIsAnswered, PTL
===============================================================================
