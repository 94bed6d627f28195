---------------------------- MODULE HttpSequencer ----------------------------
(***************************************************************************)
(* The order of one call's HTTP events: started, connected, disconnected.  *)
(* The next one is posted after the answer to the one before; an event     *)
(* that comes earlier is kept.  Operators on a sequencer                   *)
(*                                                                         *)
(*   stage   entry of the states table ("none": no entry)                  *)
(*   conn, disc, invalidated   its fields                                  *)
(*   posted  the events handed to the http client, its answers (history)   *)
(*   await   a request whose answer is to come                             *)
(*   up      whether the http client takes requests                        *)
(***************************************************************************)
EXTENDS Naturals, Sequences

NoState(h) == [h EXCEPT !.stage = "none", !.conn = FALSE, !.disc = FALSE, !.invalidated = FALSE]

(* postHttpRequest: answered later; postHttpRequestNoReply: not.           *)
PostHttpRequest(h, e) == [h EXCEPT !.posted = Append(@, e), !.await = TRUE]
PostHttpRequestNoReply(h, e) == IF h.up THEN [h EXCEPT !.posted = Append(@, e)] ELSE h

Fresh(up) == [stage |-> "none", conn |-> FALSE, disc |-> FALSE, invalidated |-> FALSE,
              posted |-> << >>, await |-> FALSE, up |-> up]

CallStarted(h) ==
  IF h.up THEN [PostHttpRequest(h, "started") EXCEPT !.stage = "StartedHookIsQueued"] ELSE h

(* Mutant: the answer to the started event is not awaited.                 *)
CallConnectedAtOnce(h) ==
  IF h.stage \in {"StartedHookIsQueued", "StartedHookReplyReceived"} /\ h.up
    THEN [PostHttpRequest(h, "connected") EXCEPT !.stage = "ConnectedHookIsQueued"]
    ELSE h

(* processHook, by the kind of event.                                      *)
CallConnected(h) ==
  CASE h.stage = "StartedHookIsQueued" -> [h EXCEPT !.conn = TRUE]
    [] h.stage = "StartedHookReplyReceived" ->
         IF h.up THEN [PostHttpRequest(h, "connected") EXCEPT !.stage = "ConnectedHookIsQueued"]
                 ELSE [h EXCEPT !.stage = "ConnectedHookReplyReceived"]
    [] OTHER -> h

CallDisconnected(h) ==
  CASE h.stage \in {"StartedHookIsQueued", "ConnectedHookIsQueued"} -> [h EXCEPT !.disc = TRUE]
    [] h.stage \in {"StartedHookReplyReceived", "ConnectedHookReplyReceived"} ->
         NoState(PostHttpRequestNoReply(h, "disconnected"))
    [] OTHER -> h

(* What an answer leaves to be done after it, in this order.               *)
AfterReply(h, stage) ==
  CASE h.disc        -> NoState(PostHttpRequestNoReply(h, "disconnected"))
    [] h.invalidated -> NoState(h)
    [] OTHER         -> [h EXCEPT !.stage = stage]

(* processHttpReply.                                                       *)
ProcessHttpReply(reply) ==
  LET h == [reply EXCEPT !.await = FALSE, !.posted = Append(@, "answer")]
  IN  CASE h.stage = "StartedHookIsQueued" ->
             IF h.conn /\ h.up
               THEN [PostHttpRequest(h, "connected") EXCEPT !.stage = "ConnectedHookIsQueued"]
               ELSE AfterReply([h EXCEPT !.conn = FALSE], "StartedHookReplyReceived")
        [] h.stage = "ConnectedHookIsQueued" -> AfterReply(h, "ConnectedHookReplyReceived")
        [] OTHER -> h

(* Mutant: a state that waits for an answer is not marked.                 *)
CleanupIdleOnly(h) ==
  IF h.stage \in {"StartedHookIsQueued", "ConnectedHookIsQueued"} THEN h ELSE NoState(h)

(* cleanup: the call is destroyed; a state that waits for an answer is     *)
(* left to it.                                                             *)
Cleanup(h) ==
  CASE h.stage \in {"StartedHookIsQueued", "ConnectedHookIsQueued"} -> [h EXCEPT !.invalidated = TRUE]
    [] OTHER -> NoState(h)
=============================================================================
