------------------------------- MODULE WsRelayMC -------------------------------
(***************************************************************************)
(* The instance of WsRelay that is checked: the provider sends two frames  *)
(* more than the client, so that a match can be split around the client's. *)
(* To the pass-through adapter an envelope is a text like any other.       *)
(***************************************************************************)
EXTENDS WsRelay

Frames == [s \in Side |-> IF s = "client" THEN 1 ELSE 3]

Kinds ==
  [s \in Side |->
     IF s = "client" THEN [kind: {"envelope"}, level: {"half"}]
     ELSE [kind: {"text"}, level: {"clean", "half", "crit"}] \cup [kind: {"args"}, level: {"half"}]
            \cup [kind: {"callEnd", "item", "unscanned"}, level: {"clean"}]]
===============================================================================
