---------------------------- MODULE WsRelayProofs ----------------------------
(***************************************************************************)
(* Proofs about WsRelay, for every number of frames of each side, every    *)
(* choice of the frames they may send and every room of the sockets: the   *)
(* types, that the client's frames reach the provider unchanged, that no   *)
(* match of a rule reaches the client in block mode, that none of the      *)
(* provider's frames is lost uncounted, and that each direction implements *)
(* FrameChannel.                                                           *)
(***************************************************************************)
EXTENDS WsRelay, SequenceTheorems, FiniteSetTheorems, TLAPS

\* The events of a frame that are still to be handled: of the client's an
\* envelope makes two, the first of which is sent on.
ClientEvents(f) ==
  {<<WsEvent("userText", f)>>, <<WsEvent("userText", f), WsEvent("delta", f)>>,
   <<WsEvent("delta", f)>>}
ProviderEvent ==
  [ev: {"text", "start", "delta", "end"}, frame: UpstreamFrame]
    \cup [ev: {"binary"}, frame: [kind: {"unscanned"}, level: {"clean"}]]

Silent(e) == e.ev \in {"start", "delta", "end"}

ShapeOf(from, evs, message) ==
  /\ \/ evs = <<>> /\ message = <<>>
     \/ from = "client" /\ \E f \in ClientFrame : evs \in ClientEvents(f)
     \/ from = "upstream" /\ \E e \in ProviderEvent : evs = <<e>>
  /\ message # <<>> => ~Silent(Head(evs)) /\ message = <<Head(evs).frame>>
Shape == ShapeOf(side, events, pending)

\* What makes UserFramesVerbatim inductive: the client's frame in hand, which is
\* read and not yet sent on, is the next one the provider gets.
InHand == events # <<>> /\ side = "client" /\ Head(events).ev = "userText"

Verbatim ==
  \/ peer["upstream"] = "lost" /\ IsPrefix(got["upstream"], taken["client"])
  \/ InHand /\ taken["client"] = Append(got["upstream"], Head(events).frame)
  \/ ~InHand /\ taken["client"] = got["upstream"]

\* What makes MatchStopsHere inductive: a half that reached the client is still at
\* the end of the inspector's buffer, or part of a match there, or cut off; one
\* that is about to is at the end of the buffer, and all the others are cut off.
CutAfter(i) == \E n \in cuts : i <= n
HalfAt(i) == i \in DOMAIN got["client"] /\ got["client"][i].level = "half"
Held ==
  /\ cuts \subseteq 0 .. Len(got["client"])
  /\ mode = "block" =>
       /\ \A i \in DOMAIN got["client"] : HalfAt(i) => buffer \cap {"half", "split"} # {} \/ CutAfter(i)
       /\ pending # <<>> /\ side = "upstream" =>
            /\ pending[1].level # "crit"
            /\ pending[1].level = "half" =>
                 "half" \in buffer /\ \A i \in DOMAIN got["client"] : HalfAt(i) => CutAfter(i)

IInv == TypeOK /\ Shape /\ Verbatim /\ Held /\ MatchStopsHere

-------------------------------------------------------------------------------
(* Sequences and frames.                                                   *)

\* A prefix, position by position.
LEMMA PrefixElements ==
  ASSUME NEW S, NEW s \in Seq(S), NEW t \in Seq(S)
  PROVE  IsPrefix(s, t) <=> Len(s) <= Len(t) /\ \A i \in 1 .. Len(s) : s[i] = t[i]
<1> SUFFICES ASSUME Len(s) <= Len(t)
             PROVE  SubSeq(s, 1, Len(s)) = SubSeq(t, 1, Len(s))
                      <=> \A i \in 1 .. Len(s) : s[i] = t[i]
  BY DEF IsPrefix
<1>1. SubSeq(s, 1, Len(s)) = [i \in 1 .. Len(s) |-> s[i]]
  OBVIOUS
<1>2. SubSeq(t, 1, Len(s)) = [i \in 1 .. Len(s) |-> t[i]]
  OBVIOUS
<1> QED
  BY <1>1, <1>2

\* A sequence is a prefix of itself, and stays one of what is longer.
LEMMA PrefixGrows ==
  ASSUME NEW S, NEW s \in Seq(S), NEW t \in Seq(S), NEW e \in S
  PROVE  IsPrefix(s, s) /\ (IsPrefix(s, t) => IsPrefix(s, Append(t, e)))
<1>1. Append(t, e) \in Seq(S) /\ Len(Append(t, e)) = Len(t) + 1
      /\ \A i \in 1 .. Len(t) : Append(t, e)[i] = t[i]
  BY AppendProperties
<1>2. Len(s) \in Nat /\ Len(t) \in Nat
  OBVIOUS
<1>3. IsPrefix(s, s)
  BY PrefixElements, <1>2
<1>4. ASSUME IsPrefix(s, t) PROVE IsPrefix(s, Append(t, e))
  <2>1. Len(s) <= Len(t) /\ \A i \in 1 .. Len(s) : s[i] = t[i]
    BY <1>4, PrefixElements
  <2>2. Len(s) <= Len(Append(t, e)) /\ \A i \in 1 .. Len(s) : s[i] = Append(t, e)[i]
    BY <2>1, <1>1, <1>2
  <2> QED
    BY <2>2, <1>1, PrefixElements
<1> QED
  BY <1>3, <1>4

\* A side's frames are frames, and the other side's side is the first.
LEMMA Sides ==
  /\ ClientFrame \subseteq Frame /\ UpstreamFrame \subseteq Frame
  /\ Sent["client"] \subseteq ClientFrame /\ Sent["upstream"] \subseteq UpstreamFrame
  /\ Other("client") = "upstream" /\ Other("upstream") = "client"
  /\ Side = {"client", "upstream"} /\ "client" # "upstream"
BY WsRelayAssumption DEF Frame, Side, Other

\* A frame of the client becomes what is sent on, and, in an envelope, what is
\* scanned after that.
LEMMA ClientEventsOf ==
  ASSUME NEW f \in ClientFrame
  PROVE  /\ EventsOf("client", f) \in ClientEvents(f)
         /\ Head(EventsOf("client", f)) = WsEvent("userText", f)
<1>1. f.kind # "unscanned"
  BY DEF ClientFrame
<1>2. CASE f.kind = "envelope" /\ adapter = "realtime"
  <2>1. EventsOf("client", f) = << WsEvent("userText", f), WsEvent("delta", f) >>
    BY <1>1, <1>2 DEF EventsOf
  <2> QED
    BY <2>1 DEF ClientEvents
<1>3. CASE ~(f.kind = "envelope" /\ adapter = "realtime")
  <2>1. EventsOf("client", f) = << WsEvent("userText", f) >>
    BY <1>1, <1>3 DEF EventsOf
  <2> QED
    BY <2>1 DEF ClientEvents
<1> QED
  BY <1>2, <1>3

\* A frame of the provider becomes one event or none.
LEMMA ProviderEventsOf ==
  ASSUME NEW f \in UpstreamFrame
  PROVE  \/ EventsOf("upstream", f) = <<>>
         \/ \E e \in ProviderEvent : EventsOf("upstream", f) = <<e>>
<1>1. CASE f.kind = "unscanned"
  <2>1. EventsOf("upstream", f) = << WsEvent("binary", f) >>
    BY <1>1 DEF EventsOf
  <2>2. WsEvent("binary", f) \in ProviderEvent
    BY <1>1 DEF WsEvent, ProviderEvent, UpstreamFrame
  <2> QED
    BY <2>1, <2>2
<1>2. CASE f.kind # "unscanned" /\ f.kind = "item" /\ adapter = "realtime"
  BY <1>2 DEF EventsOf, ItemFrame
<1>3. CASE f.kind \in {"call", "args", "callEnd"} /\ adapter = "realtime"
  <2>1. EventsOf("upstream", f) = << WsEvent(ToolEvent[f.kind], f) >>
    BY <1>3 DEF EventsOf, ItemFrame
  <2>2. ToolEvent[f.kind] \in {"start", "delta", "end"}
    BY <1>3 DEF ToolEvent
  <2>3. WsEvent(ToolEvent[f.kind], f) \in ProviderEvent
    BY <2>2 DEF WsEvent, ProviderEvent
  <2> QED
    BY <2>1, <2>3
<1>4. CASE f.kind # "unscanned" /\ ~(ItemFrame(f) /\ adapter = "realtime")
  <2>1. EventsOf("upstream", f) = << WsEvent("text", f) >>
    BY <1>4 DEF EventsOf, ItemFrame
  <2>2. WsEvent("text", f) \in ProviderEvent
    BY DEF WsEvent, ProviderEvent
  <2> QED
    BY <2>1, <2>2
<1> QED
  BY <1>1, <1>2, <1>3, <1>4 DEF ItemFrame

-------------------------------------------------------------------------------
(* The shape of what is being handled.                                     *)

Event == [ev: {"userText", "text", "start", "delta", "end", "binary"}, frame: Frame]

\* One event, or an envelope's two, and what is left of them.
LEMMA ClientShape ==
  ASSUME NEW f \in ClientFrame, NEW evs \in ClientEvents(f)
  PROVE  /\ evs # <<>> /\ evs \in Seq(Event)
         /\ Head(evs).frame = f
         /\ \/ Head(evs).ev = "userText" /\ Tail(evs) \in {<<>>, <<WsEvent("delta", f)>>}
            \/ Head(evs).ev = "delta" /\ Tail(evs) = <<>>
<1>1. f \in Frame
  BY Sides
<1>2. WsEvent("userText", f) \in Event /\ WsEvent("delta", f) \in Event
  BY <1>1 DEF WsEvent, Event
<1>3. CASE evs = <<WsEvent("userText", f)>>
  <2>1. evs \in Seq(Event) /\ Head(evs) = WsEvent("userText", f) /\ Tail(evs) = <<>> /\ evs # <<>>
    BY <1>2, <1>3
  <2> QED
    BY <2>1 DEF WsEvent
<1>4. CASE evs = <<WsEvent("userText", f), WsEvent("delta", f)>>
  <2>1. evs \in Seq(Event) /\ evs # <<>> /\ Head(evs) = WsEvent("userText", f)
    BY <1>2, <1>4
  <2>2. Tail(evs) = <<WsEvent("delta", f)>>
    BY <1>2, <1>4
  <2> QED
    BY <2>1, <2>2 DEF WsEvent
<1>5. CASE evs = <<WsEvent("delta", f)>>
  <2>1. evs \in Seq(Event) /\ Head(evs) = WsEvent("delta", f) /\ Tail(evs) = <<>> /\ evs # <<>>
    BY <1>2, <1>5
  <2> QED
    BY <2>1 DEF WsEvent
<1> QED
  BY <1>3, <1>4, <1>5 DEF ClientEvents

LEMMA ProviderShape ==
  ASSUME NEW e \in ProviderEvent
  PROVE  /\ e \in Event /\ <<e>> \in Seq(Event)
         /\ <<e>> # <<>> /\ Head(<<e>>) = e /\ Tail(<<e>>) = <<>>
         /\ e.ev # "userText" /\ e.frame \in UpstreamFrame
         /\ ~Scanned(e.ev) => Silent(e) \/ e.frame.level = "clean"
<1>1. e \in Event /\ e.ev # "userText" /\ e.frame \in UpstreamFrame
  BY Sides DEF ProviderEvent, Event, UpstreamFrame
<1>2. ~Scanned(e.ev) => Silent(e) \/ e.frame.level = "clean"
  BY DEF ProviderEvent, Scanned, Silent
<1> QED
  BY <1>1, <1>2

\* The types of what is being handled follow from its shape.
LEMMA ShapeTyped ==
  ASSUME NEW from, NEW evs, NEW message, ShapeOf(from, evs, message)
  PROVE  /\ evs \in Seq(Event) /\ message \in {<<>>} \cup {<<f>> : f \in Frame}
         /\ evs = <<>> => message = <<>>
         /\ evs # <<>> => Head(evs) \in Event
<1>1. CASE evs = <<>> /\ message = <<>>
  BY <1>1
<1>2. ASSUME NEW f \in ClientFrame, evs \in ClientEvents(f) PROVE evs \in Seq(Event) /\ evs # <<>>
  BY <1>2, ClientShape
<1>3. ASSUME NEW e \in ProviderEvent, evs = <<e>> PROVE evs \in Seq(Event) /\ evs # <<>>
  BY <1>3, ProviderShape
<1>4. CASE evs \in Seq(Event) /\ evs # <<>>
  <2>1. Head(evs) \in Event
    BY <1>4
  <2>2. Head(evs).frame \in Frame
    BY <2>1 DEF Event
  <2>3. message = <<>> \/ message = <<Head(evs).frame>>
    BY DEF ShapeOf
  <2> QED
    BY <1>4, <2>1, <2>2, <2>3
<1> QED
  BY <1>1, <1>2, <1>3, <1>4 DEF ShapeOf

-------------------------------------------------------------------------------
(* The steps.                                                              *)

\* What does not touch the frames or the inspector leaves the rest alone.
LEMMA Quiet ==
  ASSUME IInv, TypeOK',
         UNCHANGED <<mode, side, events, pending, inspector, taken, got>>,
         peer["upstream"] = "lost" => peer'["upstream"] = "lost"
  PROVE  IInv'
<1>1. Shape'
  BY DEF IInv, Shape, inspector
<1>2. Verbatim'
  BY DEF IInv, Verbatim, InHand
<1>3. Held'
  BY DEF IInv, Held, HalfAt, CutAfter, inspector
<1>4. MatchStopsHere'
  BY DEF IInv, MatchStopsHere, inspector
<1> QED
  BY <1>1, <1>2, <1>3, <1>4 DEF IInv

\* The task's steps between frames, and its end.
LEMMA ControlStep ==
  ASSUME IInv, Upgrade \/ Connect \/ Finish \/ \E s \in Side : ReadEnd(s)
  PROVE  IInv'
<1>1. TypeOK'
  <2>1. CASE Upgrade
    BY <2>1 DEF IInv, TypeOK, Upgrade, inspector
  <2>2. CASE Connect
    BY <2>2 DEF IInv, TypeOK, Connect, inspector
  <2>3. CASE \E s \in Side : ReadEnd(s)
    BY <2>3 DEF IInv, TypeOK, ReadEnd, inspector
  <2>4. CASE Finish
    <3> DEFINE line == [severity |-> maxSev, unsolicited |-> blocked > 0]
    <3>2. (blocked > 0) \in BOOLEAN
      OBVIOUS
    <3>3. line \in [severity: {0, 40, 70}, unsolicited: BOOLEAN]
      BY <3>2 DEF IInv, TypeOK
    <3>4. log' = <<line>>
      BY <2>4 DEF Finish
    <3> HIDE DEF line
    <3>1. log' \in Seq([severity: {0, 40, 70}, unsolicited: BOOLEAN])
      BY <3>3, <3>4
    <3> QED
      BY <2>4, <3>1 DEF IInv, TypeOK, Finish, inspector
  <2> QED
    BY <2>1, <2>2, <2>3, <2>4
<1>2. UNCHANGED <<mode, side, events, pending, inspector, taken, got, peer>>
  BY DEF Upgrade, Connect, Finish, ReadEnd
<1> QED
  BY <1>1, <1>2, Quiet

\* The peers.
LEMMA PeerStep ==
  ASSUME IInv, NEW s \in Side, PeerReads(s) \/ PeerEnds(s)
  PROVE  IInv'
<1>1. CASE PeerReads(s)
  <2>1. \A t \in Side : seen'[t] <= Len(got[t]) /\ Len(got[t]) - seen'[t] <= Cap
    <3> SUFFICES ASSUME NEW t \in Side
                 PROVE  seen'[t] <= Len(got[t]) /\ Len(got[t]) - seen'[t] <= Cap
      OBVIOUS
    <3>1. /\ Len(got[t]) \in Nat /\ seen[t] \in Nat
         /\ seen[t] <= Len(got[t]) /\ Len(got[t]) - seen[t] <= Cap
      BY DEF IInv, TypeOK
    <3>2. seen' = [seen EXCEPT ![s] = @ + 1] /\ seen[s] < Len(got[s])
      BY <1>1 DEF PeerReads
    <3>3. seen'[t] = seen[t] \/ (t = s /\ seen'[t] = seen[t] + 1)
      BY <3>2 DEF IInv, TypeOK
    <3>4. Len(got[s]) \in Nat
      BY DEF IInv, TypeOK
    <3> QED
      BY <3>1, <3>2, <3>3, <3>4, WsRelayAssumption
  <2>2. seen' \in [Side -> Nat]
    BY <1>1 DEF IInv, TypeOK, PeerReads
  <2>3. TypeOK'
    BY <1>1, <2>1, <2>2 DEF IInv, TypeOK, PeerReads, inspector
  <2> QED
    BY <1>1, <2>3, Quiet DEF PeerReads
<1>2. CASE PeerEnds(s)
  <2>1. TypeOK'
    BY <1>2 DEF IInv, TypeOK, PeerEnds, inspector
  <2>2. peer["upstream"] = "lost" => peer'["upstream"] = "lost"
    BY <1>2, Sides DEF PeerEnds, IInv, TypeOK
  <2> QED
    BY <1>2, <2>1, <2>2, Quiet DEF PeerEnds
<1> QED
  BY <1>1, <1>2

\* A frame is read while nothing is in hand; from then on it is.
LEMMA ReadStep ==
  ASSUME IInv, NEW s \in Side, ReadFrame(s)
  PROVE  IInv'
<1> PICK f \in Sent[s] : /\ taken' = [taken EXCEPT ![s] = Append(@, f)]
                         /\ events' = EventsOf(s, f)
  BY DEF ReadFrame
<1>1. /\ events = <<>> /\ side' = s
      /\ UNCHANGED <<adapter, mode, phase, peer, pending, inspector, got, seen, log>>
  BY DEF ReadFrame, Selecting
<1>2. pending = <<>>
  BY <1>1, ShapeTyped DEF IInv, Shape
<1>3. f \in Frame /\ (s = "client" => f \in ClientFrame) /\ (s = "upstream" => f \in UpstreamFrame)
  BY Sides
<1>4. Shape'
  <2>1. CASE s = "client"
    BY <1>1, <1>2, <1>3, <2>1, ClientEventsOf DEF Shape, ShapeOf
  <2>2. CASE s = "upstream"
    BY <1>1, <1>2, <1>3, <2>2, ProviderEventsOf DEF Shape, ShapeOf
  <2> QED
    BY <2>1, <2>2, Sides
<1>5. taken' \in [Side -> Seq(Frame)]
  <2>1. Append(taken[s], f) \in Seq(Frame)
    BY <1>3, AppendProperties DEF IInv, TypeOK
  <2> QED
    BY <2>1 DEF IInv, TypeOK
<1>6. TypeOK'
  <2>1. events' \in Seq(Event)
    BY <1>4, ShapeTyped DEF Shape
  <2> QED
    BY <1>1, <1>5, <2>1 DEF IInv, TypeOK, inspector, Event
<1>7. Verbatim'
  <2>0. ~InHand
    BY <1>1 DEF InHand
  <2>1. CASE s = "client"
    <3>1. taken'["client"] = Append(taken["client"], f)
      BY <2>1, Sides DEF IInv, TypeOK
    <3>2. events' # <<>> /\ Head(events').ev = "userText" /\ Head(events').frame = f
      BY <1>3, <2>1, ClientEventsOf, ClientShape DEF WsEvent
    <3>3. InHand'
      BY <1>1, <2>1, <3>2 DEF InHand
    <3>4. CASE peer["upstream"] = "lost" /\ IsPrefix(got["upstream"], taken["client"])
      <4>1. IsPrefix(got["upstream"], Append(taken["client"], f))
        BY <1>3, <3>4, PrefixGrows, Sides DEF IInv, TypeOK
      <4> QED
        BY <1>1, <3>1, <3>4, <4>1 DEF Verbatim
    <3>5. CASE taken["client"] = got["upstream"]
      BY <1>1, <3>1, <3>2, <3>3, <3>5 DEF Verbatim
    <3> QED
      BY <2>0, <3>4, <3>5 DEF IInv, Verbatim
  <2>2. CASE s = "upstream"
    <3>1. taken'["client"] = taken["client"]
      BY <2>2, Sides DEF IInv, TypeOK
    <3>2. ~InHand'
      BY <1>1, <2>2, Sides DEF InHand
    <3> QED
      BY <1>1, <2>0, <3>1, <3>2 DEF IInv, Verbatim
  <2> QED
    BY <2>1, <2>2, Sides
<1>8. Held'
  BY <1>1, <1>2 DEF IInv, Held, HalfAt, CutAfter, inspector
<1>9. MatchStopsHere'
  BY <1>1 DEF IInv, MatchStopsHere, inspector
<1> QED
  BY <1>4, <1>6, <1>7, <1>8, <1>9 DEF IInv

\* What a verdict is: the severity of what the buffer holds.
LEMMA Severities ==
  /\ \A buf : Severity(buf) \in {0, 40, 70}
  /\ \A buf : buf \cap {"crit", "split"} # {} => Severity(buf) = 70
BY DEF Severity

\* The text of an event joins what the buffer holds: matches stay, a second half
\* makes one, and a half is gone only where the event cuts it off.
LEMMA FedGrows ==
  ASSUME TypeOK, NEW e \in Event
  PROVE  /\ Fed(e) \subseteq (Level \ {"clean"}) \cup {"split"}
         /\ "split" \in buffer => "split" \in Fed(e)
         /\ "half" \in buffer => "half" \in Fed(e) \/ "split" \in Fed(e) \/ Cuts(e)
         /\ Scanned(e.ev) /\ ~Silent(e) /\ e.frame.level = "crit" => "crit" \in Fed(e)
         /\ Scanned(e.ev) /\ ~Silent(e) /\ e.frame.level = "half" =>
              IF "half" \in buffer THEN "split" \in Fed(e) ELSE "half" \in Fed(e)
<1>1. e.frame.level \in Level
  BY DEF Event, Frame, ClientFrame, UpstreamFrame, Level
<1>2. buffer \subseteq (Level \ {"clean"}) \cup {"split"}
  BY DEF TypeOK
<1> QED
  BY <1>1, <1>2 DEF Fed, AddsText, Cuts, Silent, Level

\* An event is dropped, or has no message, or its frame is about to be sent.
LEMMA Handled ==
  ASSUME IInv, HandleEvent
  PROVE  LET e == Head(events)
             sev == IF Scanned(e.ev) THEN Severity(Fed(e)) ELSE 0
         IN  /\ e \in Event /\ pending = <<>>
             /\ events # <<>>
             /\ \/ /\ (Drops(sev) /\ side = "upstream") \/ Silent(e)
                   /\ events' = Tail(events) /\ pending' = <<>>
                \/ /\ ~Silent(e) /\ ~Drops(sev)
                   /\ events' = events /\ pending' = <<e.frame>>
<1> DEFINE e == Head(events)
           sev == IF Scanned(e.ev) THEN Severity(Fed(e)) ELSE 0
<1>1. events # <<>> /\ pending = <<>>
  BY DEF HandleEvent
<1>2. e \in Event
  BY <1>1, ShapeTyped DEF IInv, Shape
<1>3. Silent(e) => MessageOf(e) = <<>>
  BY DEF Silent, MessageOf
<1>4. ~Silent(e) => MessageOf(e) = <<e.frame>> /\ <<e.frame>> # <<>>
  BY DEF Silent, MessageOf
<1>5. Drops(sev) => side = "upstream"
  BY DEF Drops
<1>6. \/ Drops(sev) /\ events' = Tail(events) /\ UNCHANGED pending
      \/ ~Drops(sev) /\ MessageOf(e) = <<>> /\ events' = Tail(events) /\ UNCHANGED pending
      \/ ~Drops(sev) /\ MessageOf(e) # <<>> /\ pending' = MessageOf(e) /\ UNCHANGED events
  BY DEF HandleEvent
<1> HIDE DEF e, sev
<1>7. \/ /\ (Drops(sev) /\ side = "upstream") \/ Silent(e)
         /\ events' = Tail(events) /\ pending' = <<>>
      \/ /\ ~Silent(e) /\ ~Drops(sev)
         /\ events' = events /\ pending' = <<e.frame>>
  BY <1>1, <1>3, <1>4, <1>5, <1>6
<1> QED
  BY <1>1, <1>2, <1>7 DEF e, sev

\* What is left after an event is of the same shape.
LEMMA RestShaped ==
  ASSUME Shape, events # <<>>
  PROVE  /\ ShapeOf(side, Tail(events), <<>>)
         /\ Tail(events) # <<>> => Head(Tail(events)).ev = "delta"
<1>1. ASSUME NEW f \in ClientFrame, side = "client", events \in ClientEvents(f)
      PROVE  /\ ShapeOf(side, Tail(events), <<>>)
             /\ Tail(events) # <<>> => Head(Tail(events)).ev = "delta"
  <2>1. Tail(events) = <<>> \/ Tail(events) = <<WsEvent("delta", f)>>
    BY <1>1, ClientShape
  <2>2. <<WsEvent("delta", f)>> \in ClientEvents(f)
    BY DEF ClientEvents
  <2>3. Head(<<WsEvent("delta", f)>>).ev = "delta"
    BY DEF WsEvent
  <2> QED
    BY <1>1, <2>1, <2>2, <2>3 DEF ShapeOf
<1>2. ASSUME NEW e \in ProviderEvent, events = <<e>>
      PROVE  ShapeOf(side, Tail(events), <<>>) /\ Tail(events) = <<>>
  BY <1>2, ProviderShape DEF ShapeOf
<1> QED
  BY <1>1, <1>2 DEF Shape, ShapeOf

\* Whatever the verdict on an event: its text is in the buffer before its frame is
\* sent, and a frame that would complete a match is dropped.
LEMMA HandleStep ==
  ASSUME IInv, HandleEvent
  PROVE  IInv'
<1> DEFINE e == Head(events)
           sev == IF Scanned(e.ev) THEN Severity(Fed(e)) ELSE 0
<1>1. e \in Event /\ pending = <<>> /\ events # <<>>
  BY Handled
<1>2. \/ /\ side = "upstream" \/ Silent(e)
         /\ events' = Tail(events) /\ pending' = <<>>
      \/ /\ ~Silent(e) /\ ~Drops(sev)
         /\ events' = events /\ pending' = <<e.frame>>
  BY Handled
<1>3. UNCHANGED <<adapter, mode, phase, peer, side, taken, got, seen, log>>
  BY DEF HandleEvent
<1>4. /\ buffer' = IF e.ev = "end" THEN {} ELSE Fed(e)
      /\ cuts' = IF Cuts(e) THEN cuts \cup {Len(got["client"])} ELSE cuts
      /\ maxSev' = IF sev > maxSev THEN sev ELSE maxSev
      /\ blocked' = blocked + 1 \/ blocked' = blocked
  BY DEF HandleEvent
<1>5. Tail(events) # <<>> => Head(Tail(events)).ev = "delta"
  BY <1>1, RestShaped DEF IInv
<1>6. ShapeOf(side, Tail(events), <<>>)
  BY <1>1, RestShaped DEF IInv
<1>7. sev \in {0, 40, 70}
  BY Severities
<1>8. /\ Fed(e) \subseteq (Level \ {"clean"}) \cup {"split"}
      /\ "split" \in buffer => "split" \in Fed(e)
      /\ "half" \in buffer => "half" \in Fed(e) \/ "split" \in Fed(e) \/ Cuts(e)
  BY <1>1, FedGrows DEF IInv
<1>9. Len(got["client"]) \in Nat
  BY Sides DEF IInv, TypeOK
<1>10. Shape'
  <2>1. CASE events' = Tail(events) /\ pending' = <<>>
    BY <1>3, <1>6, <2>1 DEF Shape
  <2>2. CASE ~Silent(e) /\ events' = events /\ pending' = <<e.frame>>
    BY <1>1, <1>3, <2>2 DEF IInv, Shape, ShapeOf
  <2> QED
    BY <1>2, <2>1, <2>2
<1>11. TypeOK'
  <2>1. events' \in Seq(Event) /\ pending' \in {<<>>} \cup {<<f>> : f \in Frame}
    BY <1>10, ShapeTyped DEF Shape
  <2>2. buffer' \subseteq (Level \ {"clean"}) \cup {"split"}
    BY <1>4, <1>8
  <2>3. maxSev' \in {0, 40, 70} /\ blocked' \in Nat
    BY <1>4, <1>7 DEF IInv, TypeOK
  <2>4. cuts' \subseteq Nat
    <3>1. cuts \subseteq Nat
      BY DEF IInv, TypeOK
    <3>2. cuts' \subseteq cuts \cup {Len(got["client"])}
      <4>1. CASE Cuts(e)
        BY <1>4, <4>1
      <4>2. CASE ~Cuts(e)
        BY <1>4, <4>2
      <4> QED
        BY <4>1, <4>2
    <3> HIDE DEF e, sev
    <3> QED
      BY <1>9, <3>1, <3>2
  <2> QED
    BY <1>3, <2>1, <2>2, <2>3, <2>4 DEF IInv, TypeOK, Event
<1>12. Verbatim'
  <2>1. CASE events' = events
    BY <1>3, <2>1 DEF IInv, Verbatim, InHand
  <2>2. CASE (side = "upstream" \/ Silent(e)) /\ events' = Tail(events)
    <3>1. ~InHand
      BY <2>2, Sides DEF InHand, Silent
    <3>2. ~InHand'
      BY <1>3, <1>5, <2>2, Sides DEF InHand
    <3> QED
      BY <1>3, <3>1, <3>2 DEF IInv, Verbatim
  <2> QED
    BY <1>2, <2>1, <2>2
<1>13. Held'
  <2>1. cuts' \subseteq 0 .. Len(got'["client"])
    <3>1. Len(got["client"]) \in 0 .. Len(got["client"])
      BY <1>9
    <3>2. cuts \subseteq 0 .. Len(got["client"])
      BY DEF IInv, Held
    <3>3. cuts' \subseteq 0 .. Len(got["client"])
      BY <1>4, <3>1, <3>2
    <3> QED
      BY <1>3, <3>3
  <2>2. ASSUME mode = "block", NEW i \in DOMAIN got["client"], HalfAt(i)
        PROVE  buffer' \cap {"half", "split"} # {} \/ CutAfter(i)'
    <3>1. CASE Cuts(e)
      <4>1. i \in 1 .. Len(got["client"])
        BY Sides DEF IInv, TypeOK
      <4> QED
        BY <1>4, <1>9, <3>1, <4>1 DEF CutAfter
    <3>2. CASE ~Cuts(e)
      <4>1. buffer' = Fed(e) /\ cuts' = cuts
        BY <1>4, <3>2 DEF Cuts
      <4>2. buffer \cap {"half", "split"} # {} \/ CutAfter(i)
        BY <2>2 DEF IInv, Held
      <4>3. buffer \cap {"half", "split"} # {} => "half" \in Fed(e) \/ "split" \in Fed(e)
        BY <1>8, <3>2
      <4> QED
        BY <4>1, <4>2, <4>3 DEF CutAfter
    <3> QED
      BY <3>1, <3>2
  <2>3. ASSUME mode = "block", pending' # <<>>, side = "upstream"
        PROVE  /\ pending'[1].level # "crit"
               /\ pending'[1].level = "half" =>
                    /\ "half" \in buffer'
                    /\ \A i \in DOMAIN got["client"] : HalfAt(i) => CutAfter(i)'
    <3>1. ~Silent(e) /\ ~Drops(sev) /\ pending' = <<e.frame>> /\ events' = events
      BY <1>2, <2>3
    <3>2. pending'[1] = e.frame /\ e.ev # "end"
      BY <3>1 DEF Silent
    <3>3. buffer' = Fed(e) /\ cuts \subseteq cuts'
      BY <1>4, <3>2
    <3>4. CASE Scanned(e.ev)
      <4>1. Fed(e) \cap {"crit", "split"} = {}
        BY <2>3, <3>1, <3>4, Severities DEF Drops
      <4>2. e.frame.level # "crit"
        BY <1>1, <3>1, <3>4, <4>1, FedGrows DEF IInv
      <4>3. ASSUME e.frame.level = "half"
            PROVE  "half" \in Fed(e) /\ "half" \notin buffer /\ "split" \notin buffer
        BY <1>1, <1>8, <3>1, <3>4, <4>1, <4>3, FedGrows DEF IInv
      <4>4. ASSUME e.frame.level = "half", NEW i \in DOMAIN got["client"], HalfAt(i)
            PROVE  CutAfter(i)'
        <5>1. CutAfter(i)
          BY <2>3, <4>3, <4>4 DEF IInv, Held
        <5> QED
          BY <3>3, <5>1 DEF CutAfter
      <4> QED
        BY <3>2, <3>3, <4>2, <4>3, <4>4
    <3>5. CASE ~Scanned(e.ev)
      <4>1. \E d \in ProviderEvent : events = <<d>>
        BY <1>1, <2>3, Sides DEF IInv, Shape, ShapeOf
      <4>2. e \in ProviderEvent
        BY <4>1, ProviderShape
      <4>3. e.frame.level = "clean"
        BY <3>1, <3>5, <4>2, ProviderShape
      <4> QED
        BY <3>2, <4>3
    <3> QED
      BY <3>4, <3>5
  <2> QED
    BY <1>3, <2>1, <2>2, <2>3 DEF Held, HalfAt
<1>14. MatchStopsHere'
  <2>1. cuts \subseteq cuts'
    BY <1>4
  <2> QED
    BY <1>3, <2>1 DEF IInv, MatchStopsHere
<1> QED
  BY <1>10, <1>11, <1>12, <1>13, <1>14 DEF IInv

\* The frame in hand is sent: the provider gets the client's next frame, and the
\* client no frame that completes a match.
LEMMA DeliverStep ==
  ASSUME IInv, Deliver
  PROVE  IInv'
<1> DEFINE f == Head(events).frame
           to == Other(side)
<1>1. /\ pending # <<>> /\ peer[to] # "lost" /\ Len(got[to]) - seen[to] < Cap
      /\ got' = [got EXCEPT ![to] = @ \o pending]
      /\ pending' = <<>> /\ events' = Tail(events)
      /\ UNCHANGED <<adapter, mode, phase, peer, side, buffer, maxSev, blocked, cuts, taken, seen, log>>
  BY DEF Deliver, Room, inspector
<1>2. events # <<>> /\ Head(events) \in Event
  BY <1>1, ShapeTyped DEF IInv, Shape
<1>3. pending = <<f>> /\ ~Silent(Head(events)) /\ f \in Frame
  BY <1>1, <1>2 DEF IInv, Shape, ShapeOf, Event
<1>4. to \in Side /\ side \in Side /\ got \in [Side -> Seq(Frame)]
  BY Sides DEF IInv, TypeOK
<1>5. /\ got'[to] = Append(got[to], f)
      /\ \A s \in Side : s # to => got'[s] = got[s]
      /\ got' \in [Side -> Seq(Frame)]
  <2>1. got[to] \o pending = Append(got[to], f) /\ Append(got[to], f) \in Seq(Frame)
    BY <1>3, <1>4, AppendIsConcat, AppendProperties
  <2> QED
    BY <1>1, <1>4, <2>1
<1>6. /\ Len(got'[to]) = Len(got[to]) + 1 /\ Len(got[to]) \in Nat
      /\ \A i \in 1 .. Len(got[to]) : got'[to][i] = got[to][i]
      /\ got'[to][Len(got[to]) + 1] = f
  BY <1>3, <1>4, <1>5, AppendProperties
<1>7. Tail(events) # <<>> => Head(Tail(events)).ev = "delta"
  BY <1>2, RestShaped DEF IInv
<1> HIDE DEF f, to
<1>8. Shape'
  BY <1>1, <1>2, RestShaped DEF IInv, Shape
<1>9. TypeOK'
  <2>1. events' \in Seq(Event) /\ pending' \in {<<>>} \cup {<<g>> : g \in Frame}
    BY <1>8, ShapeTyped DEF Shape
  <2>2. \A s \in Side : seen[s] <= Len(got'[s]) /\ Len(got'[s]) - seen[s] <= Cap
    <3> SUFFICES ASSUME NEW s \in Side
                 PROVE  seen[s] <= Len(got'[s]) /\ Len(got'[s]) - seen[s] <= Cap
      OBVIOUS
    <3>1. seen[s] \in Nat /\ seen[s] <= Len(got[s]) /\ Len(got[s]) - seen[s] <= Cap
      BY DEF IInv, TypeOK
    <3>2. CASE s = to
      BY <1>1, <1>6, <3>1, <3>2, WsRelayAssumption
    <3>3. CASE s # to
      BY <1>5, <3>1, <3>3
    <3> QED
      BY <3>2, <3>3
  <2> QED
    BY <1>1, <1>5, <2>1, <2>2 DEF IInv, TypeOK, Event
<1>10. ~InHand'
  BY <1>1, <1>7 DEF InHand
<1>11. CASE side = "client"
  <2>1. to = "upstream"
    BY <1>11, Sides DEF to
  <2>2. got'["client"] = got["client"]
    BY <1>5, <2>1, Sides
  <2>3. InHand
    <3>1. \E g \in ClientFrame : events \in ClientEvents(g)
      BY <1>2, <1>11, Sides DEF IInv, Shape, ShapeOf
    <3>2. Head(events).ev = "userText"
      BY <1>3, <3>1, ClientShape DEF Silent
    <3> QED
      BY <1>2, <1>11, <3>2 DEF InHand
  <2>4. taken["client"] = Append(got["upstream"], f)
    BY <1>1, <2>1, <2>3 DEF IInv, Verbatim, f
  <2>5. Verbatim'
    BY <1>1, <1>5, <1>10, <2>1, <2>4 DEF Verbatim
  <2>6. Held'
    BY <1>1, <2>2 DEF IInv, Held, HalfAt, CutAfter
  <2>7. MatchStopsHere'
    BY <1>1, <2>2 DEF IInv, MatchStopsHere
  <2> QED
    BY <1>8, <1>9, <2>5, <2>6, <2>7 DEF IInv
<1>12. CASE side = "upstream"
  <2>1. to = "client"
    BY <1>12, Sides DEF to
  <2>2. got'["upstream"] = got["upstream"]
    BY <1>5, <2>1, Sides
  <2>3. ~InHand
    BY <1>12, Sides DEF InHand
  <2>4. Verbatim'
    BY <1>1, <1>10, <2>2, <2>3 DEF IInv, Verbatim
  <2> DEFINE n == Len(got["client"])
  <2>5. /\ n \in Nat /\ DOMAIN got["client"] = 1 .. n /\ DOMAIN got'["client"] = 1 .. n + 1
        /\ \A i \in 1 .. n : got'["client"][i] = got["client"][i]
        /\ got'["client"][n + 1] = f /\ Len(got'["client"]) = n + 1
    BY <1>4, <1>5, <1>6, <2>1
  <2>6. cuts \subseteq 0 .. n
    BY DEF IInv, Held
  <2>7. ASSUME mode = "block"
        PROVE  /\ f.level # "crit"
               /\ f.level = "half" => "half" \in buffer /\ \A i \in 1 .. n : HalfAt(i) => CutAfter(i)
    BY <1>1, <1>3, <1>12, <2>5, <2>7 DEF IInv, Held
  <2> HIDE DEF n
  <2>8. Held'
    <3>1. cuts' \subseteq 0 .. Len(got'["client"])
      BY <1>1, <2>5, <2>6
    <3>2. ASSUME mode' = "block", NEW i \in DOMAIN got'["client"], HalfAt(i)'
          PROVE  (buffer \cap {"half", "split"} # {} \/ CutAfter(i))'
      <4>1. CASE i \in 1 .. n
        <5>1. HalfAt(i)
          BY <2>5, <3>2, <4>1 DEF HalfAt
        <5> QED
          BY <1>1, <2>5, <3>2, <4>1, <5>1 DEF IInv, Held, CutAfter
      <4>2. CASE i = n + 1
        BY <1>1, <2>5, <2>7, <3>2, <4>2 DEF HalfAt
      <4> QED
        BY <2>5, <4>1, <4>2
    <3> QED
      BY <1>1, <3>1, <3>2 DEF Held
  <2>9. MatchStopsHere'
    <3> SUFFICES ASSUME mode = "block",
                        NEW i \in DOMAIN got'["client"], NEW j \in DOMAIN got'["client"]
                 PROVE  /\ got'["client"][i].level # "crit"
                        /\ i < j /\ got'["client"][i].level = "half" /\ got'["client"][j].level = "half"
                             => \E m \in cuts' : i <= m /\ m < j
      BY <1>1 DEF MatchStopsHere
    <3>1. got'["client"][i].level # "crit"
      <4>1. CASE i \in 1 .. n
        BY <2>5, <4>1 DEF IInv, MatchStopsHere
      <4>2. CASE i = n + 1
        BY <2>5, <2>7, <4>2
      <4> QED
        BY <2>5, <4>1, <4>2
    <3>2. ASSUME i < j, got'["client"][i].level = "half", got'["client"][j].level = "half"
          PROVE  \E m \in cuts' : i <= m /\ m < j
      <4>1. i \in 1 .. n
        BY <2>5, <3>2
      <4>2. CASE j \in 1 .. n
        BY <1>1, <2>5, <3>2, <4>1, <4>2 DEF IInv, MatchStopsHere
      <4>3. CASE j = n + 1
        <5>1. HalfAt(i)
          BY <2>5, <3>2, <4>1 DEF HalfAt
        <5>2. CutAfter(i)
          BY <2>5, <2>7, <3>2, <4>1, <4>3, <5>1
        <5>3. PICK m \in cuts : i <= m
          BY <5>2 DEF CutAfter
        <5>4. m \in 0 .. n
          BY <2>6
        <5> QED
          BY <1>1, <2>5, <4>3, <5>3, <5>4
      <4> QED
        BY <2>5, <4>2, <4>3
    <3> QED
      BY <3>1, <3>2
  <2> QED
    BY <1>8, <1>9, <2>4, <2>8, <2>9 DEF IInv
<1> QED
  BY <1>4, <1>11, <1>12, Sides

\* A send that fails: what was in hand is gone, and so is the receiver.
LEMMA FailStep ==
  ASSUME IInv, SendFails
  PROVE  IInv'
<1>1. /\ pending # <<>> /\ peer[Other(side)] = "lost" /\ pending' = <<>> /\ events' = <<>>
      /\ UNCHANGED <<adapter, mode, phase, peer, side, inspector, taken, got, seen, log>>
  BY DEF SendFails
<1>2. Shape'
  BY <1>1 DEF Shape, ShapeOf
<1>3. TypeOK'
  <2>1. events' \in Seq(Event)
    BY <1>1
  <2> QED
    BY <1>1, <2>1 DEF IInv, TypeOK, inspector, Event
<1>4. Verbatim'
  <2>1. ~InHand'
    BY <1>1 DEF InHand
  <2>2. CASE InHand
    <3>1. peer["upstream"] = "lost"
      BY <1>1, <2>2, Sides DEF InHand
    <3>2. events # <<>> /\ Head(events).frame \in Frame
      BY <2>2, ShapeTyped DEF IInv, Shape, Event, InHand
    <3>3. IsPrefix(got["upstream"], Append(got["upstream"], Head(events).frame))
      BY <3>2, PrefixGrows, Sides DEF IInv, TypeOK
    <3> QED
      BY <1>1, <2>2, <3>1, <3>3 DEF IInv, Verbatim
  <2>3. CASE ~InHand
    BY <1>1, <2>1, <2>3 DEF IInv, Verbatim
  <2> QED
    BY <2>2, <2>3
<1>5. Held'
  BY <1>1 DEF IInv, Held, HalfAt, CutAfter, inspector
<1>6. MatchStopsHere'
  BY <1>1 DEF IInv, MatchStopsHere, inspector
<1> QED
  BY <1>2, <1>3, <1>4, <1>5, <1>6 DEF IInv

LEMMA Inductive == IInv /\ [Next]_vars => IInv'
<1> SUFFICES ASSUME IInv, [Next]_vars PROVE IInv'
  OBVIOUS
<1>1. CASE Relay
  BY <1>1, ControlStep, ReadStep, HandleStep, DeliverStep, FailStep DEF Relay
<1>2. CASE \E s \in Side : PeerReads(s) \/ PeerEnds(s)
  BY <1>2, PeerStep
<1>3. CASE UNCHANGED vars
  <2>1. TypeOK'
    BY <1>3 DEF IInv, TypeOK, vars, inspector
  <2> QED
    BY <1>3, <2>1, Quiet DEF vars
<1> QED
  BY <1>1, <1>2, <1>3 DEF Next

\* Before the upgrade nothing was read or sent.
LEMMA Initial == Init => IInv
<1> SUFFICES ASSUME Init PROVE IInv
  OBVIOUS
<1>1. TypeOK
  BY WsRelayAssumption, Sides DEF Init, TypeOK
<1>2. Shape
  BY DEF Init, Shape, ShapeOf
<1>3. Verbatim
  BY Sides DEF Init, Verbatim, InHand
<1>4. Held /\ MatchStopsHere
  BY Sides DEF Init, Held, MatchStopsHere, HalfAt
<1> QED
  BY <1>1, <1>2, <1>3, <1>4 DEF IInv

-------------------------------------------------------------------------------
(* The theorems.                                                           *)

LEMMA Invariant == Spec => []IInv
BY Initial, Inductive, PTL DEF Spec

\* The relay's variables keep their types, and no socket holds more than it has
\* room for (src/src/proxy.rs, fn run_ws_relay).
THEOREM RelayTypes == Spec => []TypeOK
<1>1. IInv => TypeOK
  BY DEF IInv
<1> QED
  BY <1>1, Invariant, PTL

\* "Forward the original frame upstream (no substitution on client->upstream
\* path)" (src/src/proxy.rs:470-472), for any frames, any number of them and any
\* room, through every loss of a peer and every failing send.
THEOREM FramesVerbatim == Spec => []UserFramesVerbatim
<1>1. IInv => UserFramesVerbatim
  <2> SUFFICES ASSUME IInv PROVE UserFramesVerbatim
    OBVIOUS
  <2>1. got["upstream"] \in Seq(Frame) /\ taken["client"] \in Seq(Frame)
    BY Sides DEF IInv, TypeOK
  <2>2. IsPrefix(got["upstream"], taken["client"])
    <3>1. CASE InHand /\ taken["client"] = Append(got["upstream"], Head(events).frame)
      <4>1. Head(events).frame \in Frame
        BY <3>1, ShapeTyped DEF IInv, Shape, Event, InHand
      <4> QED
        BY <2>1, <3>1, <4>1, PrefixGrows
    <3>2. CASE taken["client"] = got["upstream"]
      BY <2>1, <3>2, PrefixElements
    <3> QED
      BY <3>1, <3>2 DEF IInv, Verbatim
  <2>3. events = <<>> /\ peer["upstream"] # "lost" => got["upstream"] = taken["client"]
    BY DEF IInv, Verbatim, InHand
  <2> QED
    BY <2>2, <2>3 DEF UserFramesVerbatim
<1> QED
  BY <1>1, Invariant, PTL

\* In block mode no frame that matches a rule by itself reaches the client, and no two
\* halves that the inspector's buffer holds next to each other (src/src/proxy.rs:505-517,
\* inspect.rs:347-353), for any frames and any number of them.  Halves with other text
\* fed between them, or a function call's end, are not held next to each other.
THEOREM NoMatchPasses == Spec => []MatchStopsHere
<1>1. IInv => MatchStopsHere
  BY DEF IInv
<1> QED
  BY <1>1, Invariant, PTL

-------------------------------------------------------------------------------
(* Each direction implements FrameChannel, step by step.                   *)

\* The initial states map to initial states.
LEMMA ChannelsInitial ==
  ASSUME Init
  PROVE  UserChannel!Init /\ ProviderChannel!Init
<1>1. /\ taken["client"] = <<>> /\ taken["upstream"] = <<>>
      /\ got["client"] = <<>> /\ got["upstream"] = <<>>
      /\ peer["client"] = "open" /\ peer["upstream"] = "open"
  BY Sides DEF Init
<1>2. UserHand = <<>> /\ ProviderHand = <<>>
  BY DEF Init, UserHand, ProviderHand
<1>3. MayWithhold \subseteq UpstreamFrame
  BY DEF MayWithhold
<1>4. UserChannel!Init
  BY <1>1, <1>2 DEF UserChannel!Init
<1>5. ProviderChannel!Init
  BY <1>1, <1>2, <1>3 DEF ProviderChannel!Init
<1> QED
  BY <1>4, <1>5

-------------------------------------------------------------------------------
(* What a provider's event says of its frame.                              *)

\* A tool event is a frame of a function call the Realtime adapter read, and what
\* is scanned is no audio: MayWithhold allows what HandleEvent does to each.
EventKind(e) ==
  /\ Silent(e) <=> ItemFrame(e.frame) /\ adapter = "realtime"
  /\ Scanned(e.ev) => e.frame.kind # "unscanned"
Sorted == side = "upstream" /\ events # <<>> => EventKind(Head(events))

\* A frame of the provider that becomes no event is one of another output item.
LEMMA ProviderEventKinds ==
  ASSUME NEW f \in UpstreamFrame
  PROVE  \/ EventsOf("upstream", f) = <<>> /\ ItemFrame(f) /\ adapter = "realtime"
         \/ \E e \in ProviderEvent :
              EventsOf("upstream", f) = <<e>> /\ e.frame = f /\ EventKind(e)
<1>1. CASE f.kind = "unscanned"
  <2>1. EventsOf("upstream", f) = << WsEvent("binary", f) >>
    BY <1>1 DEF EventsOf
  <2>2. WsEvent("binary", f) \in ProviderEvent
    BY <1>1 DEF WsEvent, ProviderEvent, UpstreamFrame
  <2>3. EventKind(WsEvent("binary", f)) /\ WsEvent("binary", f).frame = f
    BY <1>1 DEF WsEvent, EventKind, Silent, Scanned, ItemFrame
  <2> QED
    BY <2>1, <2>2, <2>3
<1>2. CASE f.kind = "item" /\ adapter = "realtime"
  BY <1>2 DEF EventsOf, ItemFrame
<1>3. CASE f.kind \in {"call", "args", "callEnd"} /\ adapter = "realtime"
  <2>1. EventsOf("upstream", f) = << WsEvent(ToolEvent[f.kind], f) >>
    BY <1>3 DEF EventsOf, ItemFrame
  <2>2. ToolEvent[f.kind] \in {"start", "delta", "end"}
    BY <1>3 DEF ToolEvent
  <2>3. WsEvent(ToolEvent[f.kind], f) \in ProviderEvent
    BY <2>2 DEF WsEvent, ProviderEvent
  <2>4. EventKind(WsEvent(ToolEvent[f.kind], f)) /\ WsEvent(ToolEvent[f.kind], f).frame = f
    BY <1>3, <2>2 DEF WsEvent, EventKind, ItemFrame, Silent
  <2> QED
    BY <2>1, <2>3, <2>4
<1>4. CASE f.kind # "unscanned" /\ ~(ItemFrame(f) /\ adapter = "realtime")
  <2>1. EventsOf("upstream", f) = << WsEvent("text", f) >>
    BY <1>4 DEF EventsOf, ItemFrame
  <2>2. WsEvent("text", f) \in ProviderEvent
    BY DEF WsEvent, ProviderEvent
  <2>3. EventKind(WsEvent("text", f)) /\ WsEvent("text", f).frame = f
    BY <1>4 DEF WsEvent, EventKind, Silent
  <2> QED
    BY <2>1, <2>2, <2>3
<1> QED
  BY <1>1, <1>2, <1>3, <1>4 DEF ItemFrame

\* Of the provider's events there is one at a time.
LEMMA OneProviderEvent ==
  ASSUME IInv, side = "upstream", events # <<>>
  PROVE  Tail(events) = <<>>
<1>1. \E e \in ProviderEvent : events = <<e>>
  BY Sides DEF IInv, Shape, ShapeOf
<1> QED
  BY <1>1, ProviderShape

LEMMA SortedStep ==
  ASSUME IInv, Sorted, [Next]_vars
  PROVE  Sorted'
<1>1. ASSUME UNCHANGED <<adapter, side, events>> PROVE Sorted'
  BY <1>1 DEF Sorted, EventKind
<1>2. ASSUME UNCHANGED <<adapter, side>>, events' = Tail(events), events # <<>> PROVE Sorted'
  BY <1>2, OneProviderEvent DEF Sorted
<1>3. CASE HandleEvent
  <2>1. events # <<>> /\ events' \in {events, Tail(events)} /\ UNCHANGED <<adapter, side>>
    BY <1>3, Handled DEF HandleEvent
  <2> QED
    BY <1>1, <1>2, <2>1
<1>4. CASE Deliver
  <2>1. events # <<>>
    BY <1>4, ShapeTyped DEF IInv, Shape, Deliver
  <2> QED
    BY <1>2, <1>4, <2>1 DEF Deliver
<1>5. CASE SendFails
  BY <1>5 DEF SendFails, Sorted
<1>6. ASSUME NEW s \in Side, ReadFrame(s) PROVE Sorted'
  <2>1. CASE s = "client"
    BY <1>6, <2>1, Sides DEF ReadFrame, Sorted
  <2>2. CASE s = "upstream"
    <3>1. PICK f \in UpstreamFrame : events' = EventsOf("upstream", f)
      BY <1>6, <2>2, Sides DEF ReadFrame
    <3>2. events' # <<>> => EventKind(Head(events'))
      BY <3>1, ProviderEventKinds, ProviderShape
    <3>3. adapter' = adapter
      BY <1>6 DEF ReadFrame
    <3> QED
      BY <3>2, <3>3 DEF Sorted, EventKind
  <2> QED
    BY <2>1, <2>2, Sides
<1>7. CASE Upgrade \/ Connect \/ Finish
  BY <1>1, <1>7 DEF Upgrade, Connect, Finish
<1>8. ASSUME NEW s \in Side, ReadEnd(s) \/ PeerReads(s) \/ PeerEnds(s) PROVE Sorted'
  BY <1>1, <1>8 DEF ReadEnd, PeerReads, PeerEnds
<1>9. CASE UNCHANGED vars
  BY <1>1, <1>9 DEF vars
<1> QED
  BY <1>3, <1>4, <1>5, <1>6, <1>7, <1>8, <1>9 DEF Next, Relay

-------------------------------------------------------------------------------
(* Every step is a step of each channel, or none.                          *)

UserQuiet == UNCHANGED <<taken["client"], UserHand, got["upstream"], peer["upstream"]>>
ProviderQuiet ==
  UNCHANGED <<MayWithhold, taken["upstream"], ProviderHand, got["client"], peer["client"]>>
UserMoves == [UserChannel!Next]_(UserChannel!channelVars)
ProviderMoves == [ProviderChannel!Next]_(ProviderChannel!channelVars)

LEMMA QuietStutters ==
  /\ UserQuiet => UserMoves
  /\ ProviderQuiet => ProviderMoves
<1>1. ASSUME UserQuiet PROVE UserMoves
  <2>1. UNCHANGED UserChannel!channelVars
    BY <1>1 DEF UserQuiet, UserChannel!channelVars
  <2> QED
    BY <2>1 DEF UserMoves
<1>2. ASSUME ProviderQuiet PROVE ProviderMoves
  <2>1. UNCHANGED ProviderChannel!channelVars
    BY <1>2 DEF ProviderQuiet, ProviderChannel!channelVars
  <2> QED
    BY <2>1 DEF ProviderMoves
<1> QED
  BY <1>1, <1>2

\* What may be withheld depends on the adapter and the mode only, which stay.
LEMMA WithheldFixed ==
  ASSUME UNCHANGED <<adapter, mode>>
  PROVE  MayWithhold' = MayWithhold
BY DEF MayWithhold

\* A step that takes no frame, sends none and handles no event.
LEMMA ElsewhereStep ==
  ASSUME UNCHANGED <<adapter, mode, side, events, taken, got>>
  PROVE  /\ peer'["upstream"] = peer["upstream"] => UserMoves
         /\ peer'["client"] = peer["client"] => ProviderMoves
<1>1. UserHand' = UserHand /\ ProviderHand' = ProviderHand
  BY DEF UserHand, ProviderHand
<1> QED
  BY <1>1, QuietStutters, WithheldFixed DEF UserQuiet, ProviderQuiet

\* A peer that is lost: its channel loses the receiver.
LEMMA PeerEndsMoves ==
  ASSUME IInv, NEW s \in Side, PeerEnds(s)
  PROVE  UserMoves /\ ProviderMoves
<1>1. /\ UNCHANGED <<adapter, mode, side, events, taken, got>>
      /\ peer[s] = "open" /\ peer'[s] \in {"closing", "lost"}
      /\ \A t \in Side : t # s => peer'[t] = peer[t]
  BY DEF PeerEnds, IInv, TypeOK
<1>2. UserHand' = UserHand /\ ProviderHand' = ProviderHand /\ MayWithhold' = MayWithhold
  BY <1>1, WithheldFixed DEF UserHand, ProviderHand
<1>3. UserMoves
  <2>1. CASE s = "client"
    BY <1>1, <2>1, Sides, ElsewhereStep
  <2>2. CASE s = "upstream" /\ peer'[s] = "closing"
    BY <1>1, <1>2, <2>2 DEF UserMoves, UserChannel!channelVars
  <2>3. CASE s = "upstream" /\ peer'[s] = "lost"
    <3>1. UserChannel!Lose
      BY <1>1, <1>2, <2>3 DEF UserChannel!Lose
    <3> QED
      BY <3>1 DEF UserMoves, UserChannel!Next
  <2> QED
    BY <1>1, <2>1, <2>2, <2>3, Sides
<1>4. ProviderMoves
  <2>1. CASE s = "upstream"
    BY <1>1, <2>1, Sides, ElsewhereStep
  <2>2. CASE s = "client" /\ peer'[s] = "closing"
    BY <1>1, <1>2, <2>2 DEF ProviderMoves, ProviderChannel!channelVars
  <2>3. CASE s = "client" /\ peer'[s] = "lost"
    <3>1. ProviderChannel!Lose
      BY <1>1, <1>2, <2>3 DEF ProviderChannel!Lose
    <3> QED
      BY <3>1 DEF ProviderMoves, ProviderChannel!Next
  <2> QED
    BY <1>1, <2>1, <2>2, <2>3, Sides
<1> QED
  BY <1>3, <1>4

\* A frame that is read is taken by its own channel; one that becomes no event is
\* withheld there and then.
LEMMA ReadMoves ==
  ASSUME IInv, NEW s \in Side, ReadFrame(s)
  PROVE  UserMoves /\ ProviderMoves
<1> PICK f \in Sent[s] : /\ taken' = [taken EXCEPT ![s] = Append(@, f)]
                         /\ events' = EventsOf(s, f)
  BY DEF ReadFrame
<1>1. /\ events = <<>> /\ side' = s
      /\ UNCHANGED <<adapter, mode, peer, got>>
  BY DEF ReadFrame, Selecting
<1>2. UserHand = <<>> /\ ProviderHand = <<>> /\ MayWithhold' = MayWithhold
  BY <1>1, WithheldFixed DEF UserHand, ProviderHand
<1>3. CASE s = "client"
  <2>1. f \in ClientFrame
    BY <1>3, Sides
  <2>2. taken'["client"] = Append(taken["client"], f) /\ taken'["upstream"] = taken["upstream"]
    BY <1>3, Sides DEF IInv, TypeOK
  <2>3. events' # <<>> /\ Head(events') = WsEvent("userText", f)
    BY <1>3, <2>1, ClientEventsOf, ClientShape
  <2>4. UserHand' = <<f>>
    BY <1>1, <1>3, <2>3 DEF UserHand, WsEvent
  <2>5. ProviderHand' = <<>>
    BY <1>1, <1>3, Sides DEF ProviderHand
  <2>6. UserChannel!Take
    BY <1>1, <1>2, <2>1, <2>2, <2>4 DEF UserChannel!Take
  <2>7. ProviderQuiet
    BY <1>1, <1>2, <2>2, <2>5 DEF ProviderQuiet
  <2> QED
    BY <2>6, <2>7, QuietStutters DEF UserMoves, UserChannel!Next
<1>4. CASE s = "upstream"
  <2>1. f \in UpstreamFrame
    BY <1>4, Sides
  <2>2. taken'["upstream"] = Append(taken["upstream"], f) /\ taken'["client"] = taken["client"]
    BY <1>4, Sides DEF IInv, TypeOK
  <2>3. UserHand' = <<>>
    BY <1>1, <1>4, Sides DEF UserHand
  <2>4. UserQuiet
    BY <1>1, <1>2, <2>2, <2>3 DEF UserQuiet
  <2> DEFINE Taken == ProviderHand' = <<f>> \/ (f \in MayWithhold /\ ProviderHand' = <<>>)
  <2>5. ASSUME events' = <<>>, ItemFrame(f), adapter = "realtime"
        PROVE  f \in MayWithhold /\ ProviderHand' = <<>>
    <3>1. ProviderHand' = <<>>
      BY <2>5 DEF ProviderHand
    <3>2. f \in MayWithhold
      BY <2>1, <2>5 DEF MayWithhold
    <3> QED
      BY <3>1, <3>2
  <2>6. ASSUME NEW e \in ProviderEvent, events' = <<e>>, e.frame = f
        PROVE  ProviderHand' = <<f>>
    BY <1>1, <1>4, <2>6, ProviderShape DEF ProviderHand
  <2>7. Taken
    BY <1>4, <2>1, <2>5, <2>6, ProviderEventKinds
  <2>8. UNCHANGED <<MayWithhold, got["client"], peer["client"] # "lost">>
    BY <1>1, <1>2
  <2>9. ProviderChannel!Take
    BY <1>2, <2>1, <2>2, <2>7, <2>8 DEF ProviderChannel!Take
  <2> QED
    BY <2>4, <2>9, QuietStutters DEF ProviderMoves, ProviderChannel!Next
<1> QED
  BY <1>3, <1>4, Sides

\* An event that is handled without a message is withheld; any other stays in
\* hand, and the client's never is withheld.
LEMMA HandleMoves ==
  ASSUME IInv, Sorted, HandleEvent
  PROVE  UserMoves /\ ProviderMoves
<1> DEFINE e == Head(events)
           sev == IF Scanned(e.ev) THEN Severity(Fed(e)) ELSE 0
<1>1. e \in Event /\ events # <<>>
  BY Handled
<1>2. \/ /\ (Drops(sev) /\ side = "upstream") \/ Silent(e)
         /\ events' = Tail(events)
      \/ events' = events
  BY Handled
<1>3. UNCHANGED <<adapter, mode, peer, side, taken, got>>
  BY DEF HandleEvent
<1>4. CASE events' = events
  BY <1>3, <1>4, ElsewhereStep
<1>5. CASE events' = Tail(events) /\ side = "client" /\ Silent(e)
  <2>1. UserHand = <<>> /\ ProviderHand = <<>>
    BY <1>5, Sides DEF UserHand, ProviderHand, Silent
  <2>2. Tail(events) # <<>> => Head(Tail(events)).ev = "delta"
    BY <1>1, RestShaped DEF IInv
  <2>3. UserHand' = <<>> /\ ProviderHand' = <<>>
    BY <1>3, <1>5, <2>2, Sides DEF UserHand, ProviderHand
  <2> QED
    BY <1>3, <2>1, <2>3, QuietStutters, WithheldFixed DEF UserQuiet, ProviderQuiet
<1>6. CASE events' = Tail(events) /\ side = "upstream" /\ (Drops(sev) \/ Silent(e))
  <2>1. UserHand = <<>> /\ UserHand' = <<>>
    BY <1>3, <1>6, Sides DEF UserHand
  <2>2. UserQuiet
    BY <1>3, <2>1 DEF UserQuiet
  <2>3. ProviderHand = <<e.frame>> /\ ProviderHand' = <<>>
    BY <1>1, <1>3, <1>6, OneProviderEvent, Sides DEF ProviderHand
  <2>4. e.frame \in UpstreamFrame
    <3>1. \E d \in ProviderEvent : events = <<d>>
      BY <1>1, <1>6, Sides DEF IInv, Shape, ShapeOf
    <3> QED
      BY <3>1, ProviderShape
  <2>5. e.frame \in MayWithhold
    <3>1. EventKind(e)
      BY <1>1, <1>6 DEF Sorted
    <3>2. CASE Silent(e)
      BY <2>4, <3>1, <3>2 DEF EventKind, MayWithhold
    <3>3. CASE Drops(sev)
      <4>1. mode = "block" /\ Scanned(e.ev)
        BY <3>3 DEF Drops
      <4> QED
        BY <2>4, <3>1, <4>1 DEF EventKind, MayWithhold
    <3> QED
      BY <1>6, <3>2, <3>3
  <2> HIDE DEF e
  <2>6. ProviderHand # <<>> /\ ProviderHand[1] \in MayWithhold
    BY <2>3, <2>5
  <2>7. ProviderChannel!Withhold
    BY <1>3, <2>3, <2>6, WithheldFixed DEF ProviderChannel!Withhold
  <2> QED
    BY <2>2, <2>7, QuietStutters DEF ProviderMoves, ProviderChannel!Next
<1> QED
  BY <1>2, <1>4, <1>5, <1>6, Sides DEF IInv, TypeOK

\* What a send has pending is what its direction has in hand.
LEMMA PendingInHand ==
  ASSUME IInv, pending # <<>>
  PROVE  /\ side = "client" => UserHand = pending /\ ProviderHand = <<>>
         /\ side = "upstream" => ProviderHand = pending /\ UserHand = <<>>
<1>1. events # <<>> /\ pending = <<Head(events).frame>> /\ ~Silent(Head(events))
  BY ShapeTyped DEF IInv, Shape, ShapeOf
<1>2. CASE side = "client"
  <2>1. \E g \in ClientFrame : events \in ClientEvents(g)
    BY <1>1, <1>2, Sides DEF IInv, Shape, ShapeOf
  <2>2. Head(events).ev = "userText"
    BY <1>1, <2>1, ClientShape DEF Silent
  <2> QED
    BY <1>1, <1>2, <2>2, Sides DEF UserHand, ProviderHand
<1>3. CASE side = "upstream"
  BY <1>1, <1>3, Sides DEF UserHand, ProviderHand
<1> QED
  BY <1>2, <1>3, Sides DEF IInv, TypeOK

\* The frame in hand is passed on.
LEMMA DeliverMoves ==
  ASSUME IInv, Deliver
  PROVE  UserMoves /\ ProviderMoves
<1>1. /\ pending # <<>> /\ peer[Other(side)] # "lost"
      /\ got' = [got EXCEPT ![Other(side)] = @ \o pending]
      /\ events' = Tail(events)
      /\ UNCHANGED <<adapter, mode, peer, side, taken>>
  BY DEF Deliver
<1>2. events # <<>>
  BY <1>1, ShapeTyped DEF IInv, Shape
<1>3. Tail(events) # <<>> => Head(Tail(events)).ev = "delta"
  BY <1>2, RestShaped DEF IInv
<1>4. got \in [Side -> Seq(Frame)]
  BY DEF IInv, TypeOK
<1>5. CASE side = "client"
  <2>1. UserHand = pending /\ ProviderHand = <<>>
    BY <1>1, <1>5, PendingInHand
  <2>2. UserHand' = <<>> /\ ProviderHand' = <<>>
    BY <1>1, <1>3, <1>5, Sides DEF UserHand, ProviderHand
  <2>3. got'["upstream"] = got["upstream"] \o pending /\ got'["client"] = got["client"]
    BY <1>1, <1>4, <1>5, Sides
  <2>4. peer["upstream"] # "lost"
    BY <1>1, <1>5, Sides
  <2>5. UserChannel!Pass
    BY <1>1, <2>1, <2>2, <2>3, <2>4 DEF UserChannel!Pass
  <2>6. ProviderQuiet
    BY <1>1, <2>1, <2>2, <2>3, WithheldFixed DEF ProviderQuiet
  <2> QED
    BY <2>5, <2>6, QuietStutters DEF UserMoves, UserChannel!Next
<1>6. CASE side = "upstream"
  <2>1. ProviderHand = pending /\ UserHand = <<>>
    BY <1>1, <1>6, PendingInHand
  <2>2. ProviderHand' = <<>> /\ UserHand' = <<>>
    BY <1>1, <1>2, <1>6, OneProviderEvent, Sides DEF UserHand, ProviderHand
  <2>3. got'["client"] = got["client"] \o pending /\ got'["upstream"] = got["upstream"]
    BY <1>1, <1>4, <1>6, Sides
  <2>4. peer["client"] # "lost"
    BY <1>1, <1>6, Sides
  <2>5. ProviderChannel!Pass
    BY <1>1, <2>1, <2>2, <2>3, <2>4, WithheldFixed DEF ProviderChannel!Pass
  <2>6. UserQuiet
    BY <1>1, <2>1, <2>2, <2>3 DEF UserQuiet
  <2> QED
    BY <2>5, <2>6, QuietStutters DEF ProviderMoves, ProviderChannel!Next
<1> QED
  BY <1>5, <1>6, Sides DEF IInv, TypeOK

\* A send fails only when the receiver is gone, and then anything may be withheld.
LEMMA FailMoves ==
  ASSUME IInv, SendFails
  PROVE  UserMoves /\ ProviderMoves
<1>1. /\ pending # <<>> /\ peer[Other(side)] = "lost" /\ events' = <<>>
      /\ UNCHANGED <<adapter, mode, peer, side, taken, got>>
  BY DEF SendFails
<1>2. UserHand' = <<>> /\ ProviderHand' = <<>>
  BY <1>1 DEF UserHand, ProviderHand
<1>3. CASE side = "client"
  <2>1. UserHand # <<>> /\ ProviderHand = <<>> /\ peer["upstream"] = "lost"
    BY <1>1, <1>3, PendingInHand, Sides
  <2>2. UserChannel!Withhold
    BY <1>1, <1>2, <2>1 DEF UserChannel!Withhold
  <2>3. ProviderQuiet
    BY <1>1, <1>2, <2>1, WithheldFixed DEF ProviderQuiet
  <2> QED
    BY <2>2, <2>3, QuietStutters DEF UserMoves, UserChannel!Next
<1>4. CASE side = "upstream"
  <2>1. ProviderHand # <<>> /\ UserHand = <<>> /\ peer["client"] = "lost"
    BY <1>1, <1>4, PendingInHand, Sides
  <2>2. ProviderChannel!Withhold
    BY <1>1, <1>2, <2>1, WithheldFixed DEF ProviderChannel!Withhold
  <2>3. UserQuiet
    BY <1>1, <1>2, <2>1 DEF UserQuiet
  <2> QED
    BY <2>2, <2>3, QuietStutters DEF ProviderMoves, ProviderChannel!Next
<1> QED
  BY <1>3, <1>4, Sides DEF IInv, TypeOK

LEMMA ChannelStep == IInv /\ Sorted /\ [Next]_vars => UserMoves /\ ProviderMoves
<1> SUFFICES ASSUME IInv, Sorted, [Next]_vars PROVE UserMoves /\ ProviderMoves
  OBVIOUS
<1>1. CASE HandleEvent \/ Deliver \/ SendFails
  BY <1>1, HandleMoves, DeliverMoves, FailMoves
<1>2. ASSUME NEW s \in Side, ReadFrame(s) PROVE UserMoves /\ ProviderMoves
  BY <1>2, ReadMoves
<1>3. ASSUME NEW s \in Side, PeerEnds(s) PROVE UserMoves /\ ProviderMoves
  BY <1>3, PeerEndsMoves
<1>4. CASE UNCHANGED <<adapter, mode, side, events, taken, got, peer>>
  BY <1>4, ElsewhereStep
<1>5. CASE Upgrade \/ Connect \/ Finish
  BY <1>4, <1>5 DEF Upgrade, Connect, Finish
<1>6. ASSUME NEW s \in Side, ReadEnd(s) \/ PeerReads(s) PROVE UserMoves /\ ProviderMoves
  BY <1>4, <1>6 DEF ReadEnd, PeerReads
<1>7. CASE UNCHANGED vars
  BY <1>4, <1>7 DEF vars
<1> QED
  BY <1>1, <1>2, <1>3, <1>5, <1>6, <1>7 DEF Next, Relay

-------------------------------------------------------------------------------
(* The theorem.                                                            *)

\* "each text frame is processed through the WsAdapter + the inspector before being
\* forwarded to the peer" (src/src/proxy.rs:411-412): however the frames of the two
\* sides interleave in the one task, each direction is a channel that keeps order
\* and content, and only what MayWithhold names, or a lost receiver, makes a frame
\* disappear.
THEOREM RelayImplementsChannels == Spec => RelayIsTwoChannels
<1>1. Init => Sorted
  BY DEF Init, Sorted
<1>2. IInv /\ Sorted /\ [Next]_vars => Sorted'
  BY SortedStep
<1>3. Spec => []Sorted
  BY <1>1, <1>2, Invariant, PTL DEF Spec
<1>4. IInv /\ Sorted /\ [Next]_vars
        => [UserChannel!Next]_(UserChannel!channelVars)
           /\ [ProviderChannel!Next]_(ProviderChannel!channelVars)
  BY ChannelStep DEF UserMoves, ProviderMoves
<1>5. Init => UserChannel!Init /\ ProviderChannel!Init
  BY ChannelsInitial
<1> QED
  BY <1>3, <1>4, <1>5, Invariant, PTL DEF Spec, RelayIsTwoChannels, UserChannel!Spec, ProviderChannel!Spec

-------------------------------------------------------------------------------
(* What is received of what was sent.                                      *)

\* Only the frames at the places matter, and to miss fewer is to miss no more.
LEMMA AccountsSame ==
  ASSUME NEW sent, NEW places, NEW received, NEW missing, NEW sent2, NEW missing2,
         IsFiniteSet(places), missing \in Nat, missing2 \in Nat, missing <= missing2,
         \A i \in places : sent2[i] = sent[i],
         Accounts(sent, places, received, missing)
  PROVE  Accounts(sent2, places, received, missing2)
<1> PICK at \in [DOMAIN received -> places] :
           /\ \A k \in DOMAIN at : received[k] = sent[at[k]]
           /\ \A k, l \in DOMAIN at : k < l => at[k] < at[l]
           /\ Cardinality(places \ {at[k] : k \in DOMAIN at}) <= missing
  BY DEF Accounts
<1> DEFINE missed == places \ {at[k] : k \in DOMAIN at}
<1>1. Cardinality(missed) \in Nat
  <2>1. IsFiniteSet(missed)
    BY FS_Subset
  <2> QED
    BY <2>1, FS_CardinalityType
<1>2. Cardinality(missed) <= missing
  OBVIOUS
<1> HIDE DEF missed
<1>3. Cardinality(missed) <= missing2
  BY <1>1, <1>2
<1>4. \A k \in DOMAIN at : received[k] = sent2[at[k]]
  OBVIOUS
<1> QED
  BY <1>3, <1>4 DEF Accounts, missed

\* One more place, whose frame is missing.
LEMMA AccountsMissing ==
  ASSUME NEW sent, NEW places, NEW received, NEW missing, NEW p,
         IsFiniteSet(places), missing \in Nat,
         Accounts(sent, places, received, missing)
  PROVE  Accounts(sent, places \cup {p}, received, missing + 1)
<1> PICK at \in [DOMAIN received -> places] :
           /\ \A k \in DOMAIN at : received[k] = sent[at[k]]
           /\ \A k, l \in DOMAIN at : k < l => at[k] < at[l]
           /\ Cardinality(places \ {at[k] : k \in DOMAIN at}) <= missing
  BY DEF Accounts
<1> DEFINE missed == places \ {at[k] : k \in DOMAIN at}
           more == (places \cup {p}) \ {at[k] : k \in DOMAIN at}
<1>1. IsFiniteSet(missed) /\ Cardinality(missed) \in Nat
  <2>1. IsFiniteSet(missed)
    BY FS_Subset
  <2> QED
    BY <2>1, FS_CardinalityType
<1>2. more = missed \/ more = missed \cup {p}
  OBVIOUS
<1>3. Cardinality(missed) <= missing
  OBVIOUS
<1>4. at \in [DOMAIN received -> places \cup {p}]
  OBVIOUS
<1> HIDE DEF missed, more
<1>5. Cardinality(missed \cup {p}) \in {Cardinality(missed), Cardinality(missed) + 1}
  BY <1>1, FS_AddElement
<1>6. Cardinality(more) <= missing + 1
  <2>1. Cardinality(more) \in {Cardinality(missed), Cardinality(missed) + 1}
    BY <1>2, <1>5
  <2> DEFINE a == Cardinality(missed)
             b == Cardinality(more)
  <2>2. a \in Nat /\ a <= missing /\ b \in {a, a + 1}
    BY <1>1, <1>3, <2>1
  <2> HIDE DEF a, b
  <2>3. b <= missing + 1
    BY <2>2
  <2> QED
    BY <2>3 DEF b
<1> QED
  BY <1>4, <1>6 DEF Accounts, more

\* One more place, after the others, whose frame is received.
LEMMA AccountsReceived ==
  ASSUME NEW S, NEW sent, NEW places, NEW received \in Seq(S), NEW missing, NEW p \in Nat,
         sent[p] \in S, places \subseteq Nat, \A i \in places : i < p,
         Accounts(sent, places, received, missing)
  PROVE  Accounts(sent, places \cup {p}, Append(received, sent[p]), missing)
<1> PICK at \in [DOMAIN received -> places] :
           /\ \A k \in DOMAIN at : received[k] = sent[at[k]]
           /\ \A k, l \in DOMAIN at : k < l => at[k] < at[l]
           /\ Cardinality(places \ {at[k] : k \in DOMAIN at}) <= missing
  BY DEF Accounts
<1> DEFINE n == Len(received)
           longer == Append(received, sent[p])
           here == [k \in 1 .. n + 1 |-> IF k = n + 1 THEN p ELSE at[k]]
<1>1. /\ n \in Nat /\ DOMAIN received = 1 .. n /\ DOMAIN at = 1 .. n
      /\ \A k \in 1 .. n : at[k] \in places
  OBVIOUS
<1>2. /\ DOMAIN longer = 1 .. n + 1 /\ longer[n + 1] = sent[p]
      /\ \A k \in 1 .. n : longer[k] = received[k]
  BY AppendProperties
<1>3. 1 .. n + 1 = (1 .. n) \cup {n + 1} /\ n + 1 \notin 1 .. n
  BY <1>1
<1> HIDE DEF n, longer
<1>4. here[n + 1] = p /\ DOMAIN here = 1 .. n + 1 /\ \A k \in 1 .. n : here[k] = at[k]
  BY <1>3
<1>5. here \in [1 .. n + 1 -> places \cup {p}]
  BY <1>1
<1> HIDE DEF here
<1>6. \A k \in 1 .. n + 1 : longer[k] = sent[here[k]]
  BY <1>1, <1>2, <1>3, <1>4
<1>7. ASSUME NEW k \in 1 .. n + 1, NEW l \in 1 .. n + 1, k < l
      PROVE  here[k] < here[l]
  <2>1. k \in 1 .. n
    BY <1>1, <1>7
  <2>2. CASE l \in 1 .. n
    BY <1>1, <1>4, <1>7, <2>1, <2>2
  <2>3. CASE l = n + 1
    BY <1>1, <1>4, <2>1, <2>3
  <2> QED
    BY <1>3, <2>2, <2>3
<1>8. {here[k] : k \in 1 .. n + 1} = {at[k] : k \in DOMAIN at} \cup {p}
  BY <1>1, <1>3, <1>4
<1>9. p \notin places
  OBVIOUS
<1>10. (places \cup {p}) \ {here[k] : k \in 1 .. n + 1} = places \ {at[k] : k \in DOMAIN at}
  BY <1>8, <1>9
<1>11. Cardinality((places \cup {p}) \ {here[k] : k \in DOMAIN here}) <= missing
  BY <1>4, <1>10
<1>12. /\ \A k \in DOMAIN here : longer[k] = sent[here[k]]
       /\ \A k, l \in DOMAIN here : k < l => here[k] < here[l]
  BY <1>4, <1>6, <1>7
<1>13. here \in [DOMAIN longer -> places \cup {p}]
  BY <1>2, <1>5
<1> QED
  BY <1>11, <1>12, <1>13 DEF Accounts, longer

-------------------------------------------------------------------------------
(* Every relayed frame is delivered, counted or in hand.                   *)

\* The place of the provider's frame in hand, which is the last one it sent.
Owed == IF side = "upstream" /\ events # <<>> THEN {Len(taken["upstream"])} ELSE {}

\* What makes FramesAccounted inductive.
Accounted ==
  /\ side = "upstream" /\ events # <<>> =>
       taken["upstream"] # <<>> /\ Last(taken["upstream"]) = Head(events).frame
  /\ peer["client"] # "lost" =>
       Accounts(taken["upstream"], Relayed \ Owed, got["client"], Countable)

\* What is known of the frames, their places and the counts.
LEMMA PlacesKnown ==
  ASSUME IInv
  PROVE  LET n == Len(taken["upstream"])
         IN  /\ taken["upstream"] \in Seq(Frame) /\ got["client"] \in Seq(Frame)
             /\ n \in Nat /\ Relayed \subseteq 1 .. n
             /\ IsFiniteSet(Relayed) /\ IsFiniteSet(Relayed \ Owed)
             /\ Countable \in Nat
<1>1. taken["upstream"] \in Seq(Frame) /\ got["client"] \in Seq(Frame)
  BY Sides DEF IInv, TypeOK
<1>2. Relayed \subseteq 1 .. Len(taken["upstream"]) /\ Len(taken["upstream"]) \in Nat
  BY <1>1 DEF Relayed
<1>3. IsFiniteSet(1 .. Len(taken["upstream"]))
  BY <1>2, FS_Interval
<1>4. IsFiniteSet(Relayed) /\ IsFiniteSet(Relayed \ Owed)
  <2>1. IsFiniteSet(Relayed)
    BY <1>2, <1>3, FS_Subset
  <2> QED
    BY <2>1, FS_Subset
<1>5. Countable \in Nat
  BY DEF IInv, TypeOK, Countable
<1> QED
  BY <1>1, <1>2, <1>4, <1>5

\* A step that sends and receives nothing, and counts no less.
LEMMA AccountedKept ==
  ASSUME IInv, Accounted, IInv',
         UNCHANGED <<adapter, mode, got["client"], taken["upstream"]>>,
         peer'["client"] # "lost" => peer["client"] # "lost",
         blocked <= blocked',
         Relayed' \ Owed' = Relayed \ Owed,
         side' = "upstream" /\ events' # <<>> =>
           side = "upstream" /\ events # <<>> /\ Head(events') = Head(events)
  PROVE  Accounted'
<1>1. Countable \in Nat /\ Countable' \in Nat /\ Countable <= Countable'
  <2>1. blocked \in Nat /\ blocked' \in Nat
    BY DEF IInv, TypeOK
  <2> QED
    BY <2>1 DEF Countable
<1>2. IsFiniteSet(Relayed \ Owed)
  BY PlacesKnown
<1>3. ASSUME peer'["client"] # "lost"
      PROVE  Accounts(taken'["upstream"], Relayed' \ Owed', got'["client"], Countable')
  <2>1. Accounts(taken["upstream"], Relayed \ Owed, got["client"], Countable)
    BY <1>3 DEF Accounted
  <2>2. Accounts(taken["upstream"], Relayed \ Owed, got["client"], Countable')
    BY <1>1, <1>2, <2>1, AccountsSame
  <2> QED
    BY <2>2
<1>4. side' = "upstream" /\ events' # <<>> =>
        taken'["upstream"] # <<>> /\ Last(taken'["upstream"]) = Head(events').frame
  BY DEF Accounted
<1> QED
  BY <1>3, <1>4 DEF Accounted

\* The provider's frame that is read is owed, or not relayed.
LEMMA AccountedRead ==
  ASSUME IInv, Accounted, IInv', NEW s \in Side, ReadFrame(s)
  PROVE  Accounted'
<1>1. /\ events = <<>> /\ side' = s
      /\ UNCHANGED <<adapter, mode, peer, got, blocked>>
  BY DEF ReadFrame, Selecting, inspector
<1>2. Owed = {}
  BY <1>1 DEF Owed
<1>3. CASE s = "client"
  <2>1. taken'["upstream"] = taken["upstream"]
    BY <1>3, Sides DEF IInv, TypeOK, ReadFrame
  <2>2. Owed' = {} /\ Relayed' = Relayed
    BY <1>1, <1>3, <2>1, Sides DEF Owed, Relayed
  <2>3. blocked \in Nat
    BY DEF IInv, TypeOK
  <2> QED
    BY <1>1, <1>2, <1>3, <2>1, <2>2, <2>3, Sides, AccountedKept
<1>4. CASE s = "upstream"
  <2> PICK f \in UpstreamFrame : /\ taken' = [taken EXCEPT !["upstream"] = Append(@, f)]
                                 /\ events' = EventsOf("upstream", f)
    BY <1>4, Sides DEF ReadFrame
  <2> DEFINE sent == taken["upstream"]
             more == Append(sent, f)
             n == Len(sent)
  <2>1. taken'["upstream"] = more
    BY Sides DEF IInv, TypeOK
  <2>2. sent \in Seq(Frame) /\ f \in Frame /\ n \in Nat /\ Relayed \subseteq 1 .. n
    BY PlacesKnown, Sides
  <2>3. /\ Len(more) = n + 1 /\ more[n + 1] = f /\ DOMAIN more = 1 .. n + 1
        /\ DOMAIN sent = 1 .. n /\ \A i \in 1 .. n : more[i] = sent[i]
    BY <2>2, AppendProperties
  <2> HIDE DEF more, n
  <2>4. more # <<>> /\ Last(more) = f
    BY <2>2, <2>3 DEF Last
  <2>5. n + 1 \notin Relayed
    BY <2>2
  <2>6. Relayed' = Relayed \cup (IF ItemFrame(f) /\ adapter = "realtime" THEN {} ELSE {n + 1})
    <3>1. 1 .. n + 1 = (1 .. n) \cup {n + 1}
      BY <2>2
    <3>2. Relayed' = {i \in 1 .. n + 1 : ~(ItemFrame(more[i]) /\ adapter = "realtime")}
      BY <1>1, <2>1, <2>3 DEF Relayed
    <3>3. Relayed = {i \in 1 .. n : ~(ItemFrame(sent[i]) /\ adapter = "realtime")}
      BY <2>3 DEF Relayed
    <3>4. \A i \in 1 .. n : i \in Relayed' <=> i \in Relayed
      BY <2>3, <3>1, <3>2, <3>3
    <3>5. n + 1 \in Relayed' <=> ~(ItemFrame(f) /\ adapter = "realtime")
      BY <2>3, <3>1, <3>2
    <3>6. Relayed' \subseteq (1 .. n) \cup {n + 1}
      BY <3>1, <3>2
    <3> QED
      BY <2>2, <3>4, <3>5, <3>6
  <2>7. Relayed' \ Owed' = Relayed
    <3>1. CASE EventsOf("upstream", f) = <<>> /\ ItemFrame(f) /\ adapter = "realtime"
      <4>1. Owed' = {}
        BY <3>1 DEF Owed
      <4> QED
        BY <2>6, <3>1, <4>1
    <3>2. ASSUME NEW e \in ProviderEvent, EventsOf("upstream", f) = <<e>> PROVE Relayed' \ Owed' = Relayed
      <4>1. events' # <<>>
        BY <3>2, ProviderShape
      <4>2. Owed' = {n + 1}
        BY <1>1, <1>4, <2>1, <2>3, <4>1 DEF Owed
      <4> QED
        BY <2>5, <2>6, <4>2
    <3> QED
      BY <3>1, <3>2, ProviderEventKinds
  <2>8. events' # <<>> => Head(events').frame = f
    BY ProviderEventKinds, ProviderShape
  <2>9. ASSUME peer'["client"] # "lost"
        PROVE  Accounts(taken'["upstream"], Relayed' \ Owed', got'["client"], Countable')
    <3>1. Accounts(sent, Relayed, got["client"], Countable)
      BY <1>1, <1>2, <2>9 DEF Accounted
    <3>2. \A i \in Relayed : more[i] = sent[i]
      BY <2>2, <2>3
    <3>3. IsFiniteSet(Relayed) /\ Countable \in Nat
      BY PlacesKnown
    <3>4. Countable <= Countable
      BY <3>3
    <3> HIDE DEF sent
    <3>5. Accounts(more, Relayed, got["client"], Countable)
      BY <3>1, <3>2, <3>3, <3>4, AccountsSame
    <3>6. Countable' = Countable
      BY <1>1 DEF Countable
    <3> QED
      BY <1>1, <2>1, <2>7, <3>5, <3>6
  <2> QED
    BY <2>1, <2>4, <2>8, <2>9 DEF Accounted
<1> QED
  BY <1>3, <1>4, Sides

\* An event that is handled: its frame was not to be relayed, or is counted, or is
\* still owed.
LEMMA AccountedHandle ==
  ASSUME IInv, Sorted, Accounted, IInv', HandleEvent
  PROVE  Accounted'
<1> DEFINE e == Head(events)
           sev == IF Scanned(e.ev) THEN Severity(Fed(e)) ELSE 0
           n == Len(taken["upstream"])
<1>1. e \in Event /\ events # <<>>
  BY Handled
<1>2. \/ /\ Drops(sev) /\ side = "upstream" /\ events' = Tail(events)
         /\ blocked' = blocked + 1 /\ mode = "block"
      \/ ~Drops(sev) /\ Silent(e) /\ events' = Tail(events) /\ blocked' = blocked
      \/ events' = events /\ blocked' = blocked
  <2>1. \/ Drops(sev) /\ events' = Tail(events) /\ blocked' = blocked + 1
        \/ ~Drops(sev) /\ MessageOf(e) = <<>> /\ events' = Tail(events) /\ blocked' = blocked
        \/ events' = events /\ blocked' = blocked
    BY DEF HandleEvent
  <2>2. MessageOf(e) = <<>> => Silent(e)
    BY DEF MessageOf, Silent
  <2>3. Drops(sev) => side = "upstream" /\ mode = "block"
    BY DEF Drops
  <2> QED
    BY <2>1, <2>2, <2>3
<1>3. UNCHANGED <<adapter, mode, peer, side, taken, got>>
  BY DEF HandleEvent
<1>4. blocked \in Nat
  BY DEF IInv, TypeOK
<1>5. Relayed' = Relayed
  BY <1>3 DEF Relayed
<1>6. CASE events' = events /\ blocked' = blocked
  <2>1. Owed' = Owed
    BY <1>3, <1>6 DEF Owed
  <2> QED
    BY <1>3, <1>4, <1>5, <1>6, <2>1, AccountedKept
<1>7. CASE side = "client"
  <2>1. Owed' = {} /\ Owed = {}
    BY <1>3, <1>7, Sides DEF Owed
  <2>2. blocked' = blocked
    BY <1>2, <1>7, Sides
  <2> QED
    BY <1>3, <1>4, <1>5, <1>7, <2>1, <2>2, Sides, AccountedKept
<1>8. CASE side = "upstream" /\ events' = Tail(events)
  <2>1. events' = <<>> /\ Owed = {n} /\ Owed' = {}
    BY <1>1, <1>3, <1>8, OneProviderEvent DEF Owed
  <2>2. CASE Silent(e) /\ blocked' = blocked
    <3>1. ItemFrame(e.frame) /\ adapter = "realtime"
      BY <1>1, <1>8, <2>2 DEF Sorted, EventKind
    <3>2. n \notin Relayed
      <4>1. taken["upstream"][n] = e.frame
        BY <1>1, <1>8 DEF Accounted, Last
      <4> QED
        BY <3>1, <4>1 DEF Relayed
    <3>3. Relayed' \ Owed' = Relayed \ Owed
      BY <1>5, <2>1, <3>2
    <3> QED
      BY <1>3, <1>4, <2>1, <2>2, <3>3, AccountedKept
  <2>3. CASE mode = "block" /\ blocked' = blocked + 1
    <3>1. Countable = blocked /\ Countable' = blocked + 1
      BY <1>3, <2>3 DEF Countable
    <3>2. ASSUME peer'["client"] # "lost"
          PROVE  Accounts(taken'["upstream"], Relayed' \ Owed', got'["client"], Countable')
      <4>1. Accounts(taken["upstream"], Relayed \ Owed, got["client"], blocked)
        BY <1>3, <3>1, <3>2 DEF Accounted
      <4>2. IsFiniteSet(Relayed \ Owed) /\ IsFiniteSet(Relayed)
        BY PlacesKnown
      <4>3. Accounts(taken["upstream"], (Relayed \ Owed) \cup {n}, got["client"], blocked + 1)
        BY <1>4, <4>1, <4>2, AccountsMissing
      <4>4. CASE n \in Relayed
        <5>1. (Relayed \ Owed) \cup {n} = Relayed' \ Owed'
          BY <1>5, <2>1, <4>4
        <5> QED
          BY <1>3, <3>1, <4>3, <5>1
      <4>5. CASE n \notin Relayed
        <5>1. Relayed \ Owed = Relayed' \ Owed'
          BY <1>5, <2>1, <4>5
        <5>2. Accounts(taken["upstream"], Relayed \ Owed, got["client"], blocked + 1)
          <6>1. blocked + 1 \in Nat /\ blocked <= blocked + 1
            BY <1>4
          <6> QED
            BY <1>4, <4>1, <4>2, <6>1, AccountsSame
        <5> QED
          BY <1>3, <3>1, <5>1, <5>2
      <4> QED
        BY <4>4, <4>5
    <3> QED
      BY <2>1, <3>2 DEF Accounted
  <2>4. CASE events' = events /\ blocked' = blocked
    BY <1>6, <2>4
  <2> QED
    BY <1>2, <2>2, <2>3, <2>4
<1> QED
  BY <1>2, <1>6, <1>7, <1>8, Sides DEF IInv, TypeOK

\* The frame in hand is delivered: its place is the next.
LEMMA AccountedDeliver ==
  ASSUME IInv, Sorted, Accounted, IInv', Deliver
  PROVE  Accounted'
<1> DEFINE n == Len(taken["upstream"])
           e == Head(events)
<1>1. /\ pending # <<>> /\ events' = Tail(events)
      /\ got' = [got EXCEPT ![Other(side)] = @ \o pending]
      /\ UNCHANGED <<adapter, mode, peer, side, blocked, taken>>
  BY DEF Deliver, inspector
<1>2. events # <<>> /\ pending = <<e.frame>> /\ ~Silent(e) /\ e.frame \in Frame
  <2>1. events # <<>> /\ e \in Event
    BY <1>1, ShapeTyped DEF IInv, Shape
  <2> QED
    BY <1>1, <2>1 DEF IInv, Shape, ShapeOf, Event
<1>3. got \in [Side -> Seq(Frame)] /\ blocked \in Nat
  BY DEF IInv, TypeOK
<1>4. Relayed' = Relayed /\ Countable' = Countable
  BY <1>1 DEF Relayed, Countable
<1>5. CASE side = "client"
  <2>1. got'["client"] = got["client"]
    BY <1>1, <1>3, <1>5, Sides
  <2>2. Owed = {} /\ Owed' = {}
    BY <1>1, <1>5, Sides DEF Owed
  <2> QED
    BY <1>1, <1>3, <1>4, <1>5, <2>1, <2>2, Sides, AccountedKept
<1>6. CASE side = "upstream"
  <2>1. events' = <<>> /\ Owed = {n} /\ Owed' = {}
    BY <1>1, <1>2, <1>6, OneProviderEvent DEF Owed
  <2>2. taken["upstream"] # <<>> /\ taken["upstream"][n] = e.frame
    BY <1>2, <1>6 DEF Accounted, Last
  <2>3. n \in Nat /\ Relayed \subseteq 1 .. n /\ taken["upstream"] \in Seq(Frame)
    BY PlacesKnown
  <2>4. n \in Relayed
    <3>1. ~(ItemFrame(e.frame) /\ adapter = "realtime")
      BY <1>2, <1>6 DEF Sorted, EventKind
    <3>2. n \in DOMAIN taken["upstream"]
      BY <2>2, <2>3
    <3> QED
      BY <2>2, <3>1, <3>2 DEF Relayed
  <2>5. got'["client"] = Append(got["client"], taken["upstream"][n])
    <3>1. got'["client"] = got["client"] \o <<e.frame>>
      BY <1>1, <1>2, <1>3, <1>6, Sides
    <3>2. got["client"] \in Seq(Frame)
      BY <1>3, Sides
    <3> QED
      BY <1>2, <2>2, <3>1, <3>2, AppendIsConcat
  <2>6. (Relayed \ Owed) \cup {n} = Relayed' \ Owed'
    BY <1>4, <2>1, <2>4
  <2>7. ASSUME peer'["client"] # "lost"
        PROVE  Accounts(taken'["upstream"], Relayed' \ Owed', got'["client"], Countable')
    <3>1. Accounts(taken["upstream"], Relayed \ Owed, got["client"], Countable)
      BY <1>1, <2>7 DEF Accounted
    <3>2. /\ Relayed \ Owed \subseteq Nat /\ \A i \in Relayed \ Owed : i < n
          /\ got["client"] \in Seq(Frame) /\ taken["upstream"][n] \in Frame
      <4>1. Relayed \ Owed \subseteq Nat /\ \A i \in Relayed \ Owed : i < n
        <5> HIDE DEF n
        <5>1. n \in Nat /\ \A i \in Relayed : i \in 1 .. n
          BY <2>3
        <5>2. \A i \in Relayed \ {n} : i \in Nat /\ i < n
          BY <5>1
        <5> QED
          BY <2>1, <5>2
      <4> QED
        BY <1>2, <1>3, <2>2, <4>1, Sides
    <3>3. Accounts(taken["upstream"], (Relayed \ Owed) \cup {n},
                   Append(got["client"], taken["upstream"][n]), Countable)
      BY <2>3, <3>1, <3>2, AccountsReceived
    <3> QED
      BY <1>1, <1>4, <2>5, <2>6, <3>3
  <2> QED
    BY <2>1, <2>7 DEF Accounted
<1> QED
  BY <1>5, <1>6, Sides DEF IInv, TypeOK

\* A send that fails: the client's frame was owed to the provider, or the client
\* is lost.
LEMMA AccountedFail ==
  ASSUME IInv, Accounted, IInv', SendFails
  PROVE  Accounted'
<1>1. /\ peer[Other(side)] = "lost" /\ events' = <<>>
      /\ UNCHANGED <<adapter, mode, peer, side, blocked, taken, got>>
  BY DEF SendFails, inspector
<1>2. CASE side = "client"
  <2>1. Owed = {} /\ Owed' = {} /\ Relayed' = Relayed
    BY <1>1, <1>2, Sides DEF Owed, Relayed
  <2>2. blocked \in Nat
    BY DEF IInv, TypeOK
  <2> QED
    BY <1>1, <2>1, <2>2, AccountedKept
<1>3. CASE side = "upstream"
  <2>1. peer'["client"] = "lost"
    BY <1>1, <1>3, Sides
  <2> QED
    BY <1>1, <2>1 DEF Accounted
<1> QED
  BY <1>2, <1>3, Sides DEF IInv, TypeOK

\* Every step keeps the account.
LEMMA AccountedStep ==
  ASSUME IInv, Sorted, Accounted, IInv', [Next]_vars
  PROVE  Accounted'
<1>1. ASSUME UNCHANGED <<adapter, mode, side, events, blocked, taken, got>>,
             peer'["client"] # "lost" => peer["client"] # "lost"
      PROVE  Accounted'
  <2>1. Owed' = Owed /\ Relayed' = Relayed
    BY <1>1 DEF Owed, Relayed
  <2>2. blocked \in Nat
    BY DEF IInv, TypeOK
  <2> QED
    BY <1>1, <2>1, <2>2, AccountedKept
<1>2. CASE HandleEvent \/ Deliver \/ SendFails
  BY <1>2, AccountedHandle, AccountedDeliver, AccountedFail
<1>3. ASSUME NEW s \in Side, ReadFrame(s) PROVE Accounted'
  BY <1>3, AccountedRead
<1>4. CASE Upgrade \/ Connect \/ Finish
  BY <1>1, <1>4 DEF Upgrade, Connect, Finish, inspector
<1>5. ASSUME NEW s \in Side, ReadEnd(s) \/ PeerReads(s) PROVE Accounted'
  BY <1>1, <1>5 DEF ReadEnd, PeerReads, inspector
<1>6. ASSUME NEW s \in Side, PeerEnds(s) PROVE Accounted'
  <2>1. peer'["client"] # "lost" => peer["client"] # "lost"
    BY <1>6, Sides DEF PeerEnds, IInv, TypeOK
  <2> QED
    BY <1>1, <1>6, <2>1 DEF PeerEnds, inspector
<1>7. CASE UNCHANGED vars
  BY <1>1, <1>7 DEF vars, inspector
<1> QED
  BY <1>2, <1>3, <1>4, <1>5, <1>6, <1>7 DEF Next, Relay

\* Nothing was sent yet.
LEMMA AccountedInitial == Init => Accounted
<1> SUFFICES ASSUME Init PROVE Accounted
  OBVIOUS
<1>1. events = <<>> /\ taken["upstream"] = <<>> /\ got["client"] = <<>>
  BY Sides DEF Init
<1>2. Relayed \ Owed = {} /\ Countable = 0
  BY <1>1 DEF Relayed, Init, Countable
<1> DEFINE none == [k \in {} |-> 0]
<1>3. none \in [DOMAIN <<>> -> {}] /\ DOMAIN none = {}
  OBVIOUS
<1>4. Cardinality({} \ {none[k] : k \in DOMAIN none}) <= 0
  <2>1. {} \ {none[k] : k \in DOMAIN none} = {}
    OBVIOUS
  <2> QED
    BY <2>1, FS_EmptySet
<1> HIDE DEF none
<1>5. Accounts(<<>>, {}, <<>>, 0)
  BY <1>3, <1>4 DEF Accounts
<1> QED
  BY <1>1, <1>2, <1>5 DEF Accounted

\* No frame of the provider disappears uncounted (src/src/proxy.rs:505-536): for any
\* frames and any number of them, however the two sides interleave, the client gets
\* the relayed ones in order, all of them in monitor mode, and in block mode all but
\* as many as were counted.
THEOREM FramesCounted == Spec => []FramesAccounted
<1>1. Init => Sorted
  BY DEF Init, Sorted
<1>2. Spec => []Sorted
  BY <1>1, SortedStep, Invariant, PTL DEF Spec
<1>3. IInv /\ IInv' /\ Sorted /\ Accounted /\ [Next]_vars => Accounted'
  BY AccountedStep
<1>4. Accounted => FramesAccounted
  <2> SUFFICES ASSUME Accounted, events = <<>>, peer["client"] # "lost"
               PROVE  Accounts(taken["upstream"], Relayed, got["client"], Countable)
    BY DEF FramesAccounted
  <2>1. Relayed \ Owed = Relayed
    BY DEF Owed
  <2> QED
    BY <2>1 DEF Accounted
<1> QED
  BY <1>2, <1>3, <1>4, AccountedInitial, Invariant, PTL DEF Spec
===============================================================================
