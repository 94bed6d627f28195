--------------------------- MODULE CallReport_proof ---------------------------
(***************************************************************************)
(* Proofs about CallReport.  The record and its row carry what is said of  *)
(* them (World), the legs and their queues carry why the end of a call is  *)
(* known before the record is written (Ends).                              *)
(***************************************************************************)
EXTENDS CallReport, TLAPS

Parties == {"ORG", "DST", "TS"}
Statuses == {"NoReply", "Ringing", "Connected", "Disconnected"}

CdrSet ==
  [clock : Nat, start : Nat, end : Nat, invite : Nat, connect : Nat, bconnect : Nat,
   t10x : Nat, t18x : Nat, early : BOOLEAN, initiator : Parties \cup {"Undefined"},
   aleg : Nat, bleg : Nat, known : BOOLEAN, alegW : BOOLEAN, blegW : BOOLEAN]

RowSet ==
  [timers : [start : Nat, invite : Nat, connect : Nat, end : Nat, t10x : Nat, t18x : Nat],
   early : BOOLEAN, bleg : Nat, initiator : Parties \cup {"Undefined"},
   aleg : Nat, last : BOOLEAN]

Stages == {"none", "StartedHookIsQueued", "StartedHookReplyReceived",
           "ConnectedHookIsQueued", "ConnectedHookReplyReceived"}

Requests == {"started", "connected", "disconnected", "answer"}

HttpSet ==
  [stage : Stages, conn : BOOLEAN, disc : BOOLEAN, invalidated : BOOLEAN,
   posted : Seq(Requests),
   await : BOOLEAN, up : BOOLEAN]

Worlds == [cdr : CdrSet \cup {NoCdr}, rows : Seq(RowSet), http : HttpSet]

(* The requests that went out and their answers.                           *)
Started(p)           == Len(p) = 1 /\ p[1] = "started"
StartedAnswered(p)   == Len(p) = 2 /\ p[1] = "started" /\ p[2] = "answer"
Connected(p)         == Len(p) = 3 /\ p[1] = "started" /\ p[2] = "answer" /\ p[3] = "connected"
ConnectedAnswered(p) == /\ Len(p) = 4 /\ p[1] = "started" /\ p[2] = "answer"
                        /\ p[3] = "connected" /\ p[4] = "answer"
Dropped(p)           == Len(p) = 3 /\ p[1] = "started" /\ p[2] = "answer" /\ p[3] = "disconnected"
HungUp(p)            == /\ Len(p) = 5 /\ p[1] = "started" /\ p[2] = "answer"
                        /\ p[3] = "connected" /\ p[4] = "answer" /\ p[5] = "disconnected"

Quiet(p) == StartedAnswered(p) \/ ConnectedAnswered(p)

(* What the stage says of them.                                            *)
Sequenced(h) ==
  /\ h.stage = "StartedHookIsQueued" => Started(h.posted)
  /\ h.stage = "StartedHookReplyReceived" => StartedAnswered(h.posted)
  /\ h.stage = "ConnectedHookIsQueued" => Connected(h.posted)
  /\ h.stage = "ConnectedHookReplyReceived" => Quiet(h.posted)
  /\ h.stage = "none" => h.posted = << >> \/ Quiet(h.posted) \/ Dropped(h.posted) \/ HungUp(h.posted)
  /\ h.await <=> h.stage \in {"StartedHookIsQueued", "ConnectedHookIsQueued"}

(* A record of a call that f ended first ("Undefined": nobody yet); a: the *)
(* caller was told of an answer.                                           *)
Recorded(c, f, a) ==
  /\ c.start > 0 /\ c.initiator = f
  /\ c.known <=> f # "Undefined"
  /\ c.start <= c.clock /\ c.connect <= c.clock
  /\ IF f = "Undefined" THEN c.end = c.start ELSE c.end > c.start
  /\ c.connect # 0 => c.start < c.connect /\ (f # "Undefined" => c.connect < c.end)
  /\ a => c.connect # 0 \/ f \in {"DST", "TS"}

Written(r, f, a) ==
  /\ r.initiator = f /\ f # "Undefined"
  /\ r.timers.end > r.timers.start
  /\ r.timers.connect # 0 => r.timers.start < r.timers.connect /\ r.timers.connect < r.timers.end
  /\ a => r.timers.connect # 0 \/ f \in {"DST", "TS"}

World(x, f, a) ==
  /\ x \in Worlds /\ Sequenced(x.http)
  /\ f \in Parties \cup {"Undefined"} /\ a \in BOOLEAN
  /\ IF x.cdr = NoCdr THEN Len(x.rows) = 1 /\ Written(x.rows[1], f, a)
                      ELSE x.rows = << >> /\ Recorded(x.cdr, f, a)

Events == [t : {"connect", "1xx", "2xx", "bye", "terminate", "exception", "teardown"}]
            \cup [t : {"err"}, reply : Failures]

LegSet == [Legs -> [alive : {"run", "stopped", "final", "gone"}, status : Statuses]]
QueueSet == [Legs -> Seq(Events)]
LegTypes == leg \in LegSet /\ q \in QueueSet

(* What may be under way to an A leg of status st while nobody has ended   *)
(* the call: a BYE only if it comes before an answer does.                 *)
Unended(s, st) ==
  \A k \in 1..Len(s) :
    /\ s[k].t \notin {"terminate", "exception"}
    /\ s[k].t = "bye" => st \in {"NoReply", "Ringing"} /\ \A j \in 1..(k - 1) : s[j].t # "2xx"

Without(s, t) == \A k \in 1..Len(s) : s[k].t # t

(* Of an A leg (al: alive, sa: its status) and a B leg of status sb with   *)
(* their queues qa and qb, where f has ended the call.                     *)
EndsOf(al, sa, sb, qa, qb, f) ==
  /\ al # "run" => f # "Undefined"
  /\ sa = "Disconnected" => al # "run"
  /\ f = "ORG" => sa = "Disconnected"
  /\ f = "Undefined" => Unended(qa, sa)
  /\ \A k \in 2..Len(qb) : qb[k].t # "connect"
  /\ sb \in {"NoReply", "Ringing"} => Without(qb, "connect")
  /\ sb \in {"NoReply", "Ringing"} \/ ~Without(qb, "connect") =>
       sa # "Connected" /\ Without(qa, "2xx")

Ends == EndsOf(leg["A"].alive, leg["A"].status, leg["B"].status, q["A"], q["B"], first)
GoneIsWritten == Over => w.cdr = NoCdr

WorldInv == World(w, first, answered)
CallInv == LegTypes /\ Ends /\ GoneIsWritten /\ WorldInv

SnapInv ==
  /\ postponed \in Nat /\ local \in Nat /\ shown \in Nat /\ copied \in Nat
  /\ snap \in {"idle", "swapped"} /\ (snap = "idle" => local = 0)
  /\ postponed + local + shown = copied
  /\ copied <= 1
  /\ copied = 1 => leg["A"].alive \in {"final", "gone"}


-----------------------------------------------------------------------------
(* The operators of the record.                                            *)

USE DEF Parties

(* There is no record with NoCdr's clock in use.                           *)
LEMMA NoCdrIsNone == ASSUME NEW c \in CdrSet, NEW f, NEW a, Recorded(c, f, a) PROVE c # NoCdr
  BY DEF CdrSet, NoCdr, Recorded

(* A reading of the clock into one field: c becomes d.                     *)
Read(c, d, f) ==
  /\ d \in CdrSet
  /\ d.clock = c.clock + 1 /\ d.start = c.start
  /\ d.initiator = c.initiator /\ d.known = c.known
  /\ d.connect = IF f = "connect" THEN d.clock ELSE c.connect
  /\ d.end = IF f = "end" THEN d.clock ELSE c.end

LEMMA StampIs ==
  ASSUME NEW c \in CdrSet
  PROVE  /\ Read(c, Stamp(c, "invite"), "invite")
         /\ Read(c, Stamp(c, "connect"), "connect")
         /\ Read(c, Stamp(c, "bconnect"), "bconnect")
         /\ Read(c, Stamp(c, "end"), "end")
<1>1. PICK n \in Nat : n = c.clock + 1
  BY DEF CdrSet
<1>2. Read(c, Stamp(c, "invite"), "invite")
  <2>1. Stamp(c, "invite") = [c EXCEPT !.invite = n, !.clock = n]
    BY <1>1, Zenon DEF Stamp
  <2>2. PICK d : d = [c EXCEPT !.invite = n, !.clock = n]
    OBVIOUS
  <2>3. d \in CdrSet
    BY <2>2 DEF CdrSet
  <2>4. d.clock = n /\ d.start = c.start /\ d.initiator = c.initiator /\ d.known = c.known
    BY <2>2 DEF CdrSet
  <2>5. d.connect = c.connect /\ d.end = c.end
    BY <2>2 DEF CdrSet
  <2>6. Read(c, d, "invite")
    BY <1>1, <2>3, <2>4, <2>5 DEF Read
  <2> QED BY <2>1, <2>2, <2>6
<1>3. Read(c, Stamp(c, "connect"), "connect")
  <2>1. Stamp(c, "connect") = [c EXCEPT !.connect = n, !.clock = n]
    BY <1>1, Zenon DEF Stamp
  <2>2. PICK d : d = [c EXCEPT !.connect = n, !.clock = n]
    OBVIOUS
  <2>3. d \in CdrSet
    BY <2>2 DEF CdrSet
  <2>4. d.clock = n /\ d.start = c.start /\ d.initiator = c.initiator /\ d.known = c.known
    BY <2>2 DEF CdrSet
  <2>5. d.connect = n /\ d.end = c.end
    BY <2>2 DEF CdrSet
  <2>6. Read(c, d, "connect")
    BY <1>1, <2>3, <2>4, <2>5 DEF Read
  <2> QED BY <2>1, <2>2, <2>6
<1>4. Read(c, Stamp(c, "bconnect"), "bconnect")
  <2>1. Stamp(c, "bconnect") = [c EXCEPT !.bconnect = n, !.clock = n]
    BY <1>1, Zenon DEF Stamp
  <2>2. PICK d : d = [c EXCEPT !.bconnect = n, !.clock = n]
    OBVIOUS
  <2>3. d \in CdrSet
    BY <2>2 DEF CdrSet
  <2>4. d.clock = n /\ d.start = c.start /\ d.initiator = c.initiator /\ d.known = c.known
    BY <2>2 DEF CdrSet
  <2>5. d.connect = c.connect /\ d.end = c.end
    BY <2>2 DEF CdrSet
  <2>6. Read(c, d, "bconnect")
    BY <1>1, <2>3, <2>4, <2>5 DEF Read
  <2> QED BY <2>1, <2>2, <2>6
<1>5. Read(c, Stamp(c, "end"), "end")
  <2>1. Stamp(c, "end") = [c EXCEPT !.end = n, !.clock = n]
    BY <1>1, Zenon DEF Stamp
  <2>2. PICK d : d = [c EXCEPT !.end = n, !.clock = n]
    OBVIOUS
  <2>3. d \in CdrSet
    BY <2>2 DEF CdrSet
  <2>4. d.clock = n /\ d.start = c.start /\ d.initiator = c.initiator /\ d.known = c.known
    BY <2>2 DEF CdrSet
  <2>5. d.connect = c.connect /\ d.end = n
    BY <2>2 DEF CdrSet
  <2>6. Read(c, d, "end")
    BY <1>1, <2>3, <2>4, <2>5 DEF Read
  <2> QED BY <2>1, <2>2, <2>6
<1> QED BY <1>2, <1>3, <1>4, <1>5

(* What update_with_action returns.                                        *)
LEMMA ActionIs ==
  ASSUME NEW c \in CdrSet
  PROVE  /\ Action(c, "BLegInvite") = c \/ Read(c, Action(c, "BLegInvite"), "invite")
         /\ IF c.start = c.end THEN Read(c, Action(c, "Connect"), "connect") ELSE Action(c, "Connect") = c
         /\ Read(c, Action(c, "BlegConnect"), "bconnect")
         /\ IF c.start = c.end THEN Read(c, Action(c, "End"), "end") ELSE Action(c, "End") = c
<1>1. Action(c, "BLegInvite") = StampOnce(c, "invite")
  BY DEF Action
<1>2. StampOnce(c, "invite") \in {Stamp(c, "invite"), c}
  BY DEF StampOnce
<1>3. /\ Action(c, "Connect") = IF c.start = c.end THEN Stamp(c, "connect") ELSE c
      /\ Action(c, "BlegConnect") = Stamp(c, "bconnect")
      /\ Action(c, "End") = IF c.start = c.end THEN Stamp(c, "end") ELSE c
  BY DEF Action, Open
<1> QED BY <1>1, <1>2, <1>3, StampIs

(* update_with_action for the INVITE and the callee's answer, the replies  *)
(* and the reasons of either leg change nothing Recorded speaks of.        *)
LEMMA RecordKept ==
  ASSUME NEW c \in CdrSet, NEW f, NEW a, Recorded(c, f, a), NEW code \in Nat,
         NEW reply \in [code : Nat, local : BOOLEAN, sdp : BOOLEAN]
  PROVE  /\ Action(c, "BLegInvite") \in CdrSet /\ Recorded(Action(c, "BLegInvite"), f, a)
         /\ Action(c, "BlegConnect") \in CdrSet /\ Recorded(Action(c, "BlegConnect"), f, a)
         /\ WithSipReply(c, reply) \in CdrSet /\ Recorded(WithSipReply(c, reply), f, a)
         /\ AlegReason(c, code) \in CdrSet /\ Recorded(AlegReason(c, code), f, a)
         /\ BlegReason(c, code) \in CdrSet /\ Recorded(BlegReason(c, code), f, a)
<1>0. ASSUME NEW d, Read(c, d, "invite") \/ Read(c, d, "bconnect")
      PROVE  d \in CdrSet /\ Recorded(d, f, a)
  BY <1>0 DEF CdrSet, Recorded, Read
<1>1. Action(c, "BLegInvite") \in CdrSet /\ Recorded(Action(c, "BLegInvite"), f, a)
  BY <1>0, ActionIs
<1>2. Action(c, "BlegConnect") \in CdrSet /\ Recorded(Action(c, "BlegConnect"), f, a)
  BY <1>0, ActionIs
<1>3. WithSipReply(c, reply) \in CdrSet /\ Recorded(WithSipReply(c, reply), f, a)
  <2>1. PICK n \in Nat, m \in Nat, e \in BOOLEAN :
          /\ n = IF c.t10x = 0 THEN c.clock ELSE c.t10x
          /\ m = IF c.t18x = 0 THEN c.clock ELSE c.t18x
          /\ e = (c.early \/ reply.sdp)
    BY DEF CdrSet
  <2> DEFINE u == [c EXCEPT !.t10x = IF c.t10x = 0 THEN c.clock ELSE c.t10x]
             v == [c EXCEPT !.t18x = IF c.t18x = 0 THEN c.clock ELSE c.t18x,
                            !.early = c.early \/ reply.sdp]
  <2>u. u = [c EXCEPT !.t10x = n]
    BY <2>1, Zenon
  <2>v. v = [c EXCEPT !.t18x = m, !.early = e]
    BY <2>1, Zenon
  <2>w. WithSipReply(c, reply) =
          CASE reply.local -> c [] reply.code \in 100..109 -> u [] reply.code \in 180..189 -> v [] OTHER -> c
    BY Zenon DEF WithSipReply
  <2> HIDE DEF u, v
  <2>2. WithSipReply(c, reply) \in {c, u, v}
    BY <2>w
  <2>3. CASE WithSipReply(c, reply) = c
    BY <2>3
  <2>4. CASE WithSipReply(c, reply) = u
    BY <2>u, <2>4 DEF CdrSet, Recorded
  <2>5. CASE WithSipReply(c, reply) = v
    <3>1. PICK d : d = [c EXCEPT !.t18x = m, !.early = e]
      OBVIOUS
    <3>2. d \in CdrSet
      BY <3>1 DEF CdrSet
    <3>3. /\ d.start = c.start /\ d.initiator = c.initiator /\ d.known = c.known
          /\ d.clock = c.clock /\ d.connect = c.connect /\ d.end = c.end
      BY <3>1 DEF CdrSet
    <3>4. Recorded(d, f, a)
      BY <3>3 DEF Recorded
    <3> QED BY <2>v, <2>5, <3>1, <3>2, <3>4
  <2> QED BY <2>2, <2>3, <2>4, <2>5
<1>4. AlegReason(c, code) \in CdrSet /\ Recorded(AlegReason(c, code), f, a)
  BY DEF CdrSet, Recorded, AlegReason
<1>5. BlegReason(c, code) \in CdrSet /\ Recorded(BlegReason(c, code), f, a)
  BY DEF CdrSet, Recorded, BlegReason
<1> QED BY <1>1, <1>2, <1>3, <1>4, <1>5

(* Whoever ended the call, after an event of p that ends it.               *)
Blamed(f, p) == IF f = "Undefined" THEN p ELSE f

(* update_internal_reason: the first to end the call stays.                *)
LEMMA EndRecorded ==
  ASSUME NEW c \in CdrSet, NEW f, NEW a \in BOOLEAN, Recorded(c, f, a), NEW code \in Nat, NEW p \in Parties
  PROVE  InternalReason(c, p, code) \in CdrSet /\ Recorded(InternalReason(c, p, code), Blamed(f, p), a)
<1>1. CASE f = "Undefined"
  <2>1. PICK e \in CdrSet : e = Action(c, "End") /\ Read(c, e, "end")
    <3>1. c.start = c.end
      BY <1>1 DEF Recorded
    <3> QED BY <3>1, ActionIs DEF Read
  <2>2. /\ e.end > e.start /\ e.start = c.start /\ e.connect = c.connect /\ e.connect < e.end
        /\ e.known = c.known /\ e.start <= e.clock /\ e.connect <= e.clock
    BY <1>1, <2>1 DEF CdrSet, Recorded, Read
  <2>3. PICK i \in CdrSet : i = [e EXCEPT !.initiator = p, !.known = TRUE]
    BY DEF CdrSet
  <2>4. i \in CdrSet /\ Recorded(i, p, a)
    BY <1>1, <2>2, <2>3 DEF CdrSet, Recorded
  <2>5. InternalReason(c, p, code) = IF i.alegW THEN i ELSE [i EXCEPT !.aleg = code]
    BY <1>1, <2>1, <2>2, <2>3 DEF InternalReason, Recorded
  <2> HIDE DEF Blamed
  <2> QED BY <1>1, <2>4, <2>5 DEF CdrSet, Recorded, Blamed
<1>2. CASE f # "Undefined"
  BY <1>2 DEF CdrSet, Recorded, InternalReason, Action, Open, Blamed
<1> QED BY <1>1, <1>2

(* update_with_action(Connect): an answer is recorded unless the call has  *)
(* ended.                                                                  *)
LEMMA AnswerRecorded ==
  ASSUME NEW c \in CdrSet, NEW f \in Parties \cup {"Undefined"}, NEW a \in BOOLEAN, Recorded(c, f, a)
  PROVE  /\ Action(c, "Connect") \in CdrSet /\ Recorded(Action(c, "Connect"), f, a)
         /\ f # "ORG" => Recorded(Action(c, "Connect"), f, TRUE)
<1>1. CASE c.start = c.end
  <2>1. Read(c, Action(c, "Connect"), "connect")
    BY <1>1, ActionIs
  <2> QED BY <1>1, <2>1 DEF CdrSet, Recorded, Read
<1>2. CASE c.start # c.end
  <2>1. Action(c, "Connect") = c
    BY <1>2, ActionIs
  <2> QED BY <1>2, <2>1 DEF Recorded
<1> QED BY <1>1, <1>2

(* apply_params: the row of a call that has ended.                         *)
LEMMA RowWritten ==
  ASSUME NEW c \in CdrSet, NEW f, NEW a, Recorded(c, f, a), f # "Undefined"
  PROVE  ApplyParams(c, TRUE) \in RowSet /\ Written(ApplyParams(c, TRUE), f, a)
  BY DEF CdrSet, RowSet, Recorded, Written, ApplyParams, TimersData


-----------------------------------------------------------------------------
(* The HTTP sequencer.                                                     *)

(* What one more request or answer makes of them.                          *)
LEMMA Posted ==
  ASSUME NEW p \in Seq(Requests), NEW e \in Requests
  PROVE  /\ Append(p, e) \in Seq(Requests)
         /\ p = << >> /\ e = "started" => Started(Append(p, e))
         /\ Started(p) /\ e = "answer" => StartedAnswered(Append(p, e))
         /\ StartedAnswered(p) /\ e = "connected" => Connected(Append(p, e))
         /\ Connected(p) /\ e = "answer" => ConnectedAnswered(Append(p, e))
         /\ Quiet(p) /\ e = "disconnected" => Dropped(Append(p, e)) \/ HungUp(Append(p, e))
<1>0. Append(p, e) \in Seq(Requests)
  OBVIOUS
<1>1. PICK r \in Seq(Requests) : r = Append(p, e)
  BY <1>0, Zenon
<1>2. Len(r) = Len(p) + 1 /\ r[Len(p) + 1] = e /\ \A i \in 1..Len(p) : r[i] = p[i]
  BY <1>1
<1>3. p = << >> /\ e = "started" => Started(r)
  BY <1>2 DEF Started
<1>4. /\ Started(p) /\ e = "answer" => StartedAnswered(r)
      /\ StartedAnswered(p) /\ e = "connected" => Connected(r)
      /\ Connected(p) /\ e = "answer" => ConnectedAnswered(r)
  BY <1>2 DEF Started, StartedAnswered, Connected, ConnectedAnswered
<1>5. Quiet(p) /\ e = "disconnected" => Dropped(r) \/ HungUp(r)
  BY <1>2 DEF Quiet, StartedAnswered, ConnectedAnswered, Dropped, HungUp
<1> QED BY <1>1, <1>3, <1>4, <1>5

(* An answered call's connected event, at once or after an answer.         *)
LEMMA ConnectedPosted ==
  ASSUME NEW h \in HttpSet, StartedAnswered(h.posted)
  PROVE  LET n == [H!PostHttpRequest(h, "connected") EXCEPT !.stage = "ConnectedHookIsQueued"]
         IN  n \in HttpSet /\ Sequenced(n)
<1>0. h.posted \in Seq(Requests) /\ "connected" \in Requests
  BY DEF HttpSet, Requests
<1>1. PICK p \in Seq(Requests) : p = Append(h.posted, "connected")
  BY <1>0, Posted
<1>2. Connected(p)
  BY <1>0, <1>1, Posted
<1>3. H!PostHttpRequest(h, "connected") = [h EXCEPT !.posted = p, !.await = TRUE]
  BY <1>1 DEF H!PostHttpRequest
<1> QED BY <1>2, <1>3 DEF HttpSet, Stages, Sequenced

(* The disconnected event is the last one, and only if the client takes it. *)
LEMMA DisconnectedPosted ==
  ASSUME NEW h \in HttpSet, ~h.await,
         Quiet(h.posted)
  PROVE  LET n == H!NoState(H!PostHttpRequestNoReply(h, "disconnected"))
         IN  n \in HttpSet /\ Sequenced(n)
<1>0. h.posted \in Seq(Requests) /\ "disconnected" \in Requests
  BY DEF HttpSet, Requests
<1>1. PICK p \in Seq(Requests) : p = Append(h.posted, "disconnected")
  BY <1>0, Posted
<1>2. Dropped(p) \/ HungUp(p)
  BY <1>0, <1>1, Posted
<1>3. H!PostHttpRequestNoReply(h, "disconnected") = IF h.up THEN [h EXCEPT !.posted = p] ELSE h
  BY <1>1 DEF H!PostHttpRequestNoReply
<1>4. PICK g \in HttpSet : /\ g = H!PostHttpRequestNoReply(h, "disconnected")
                           /\ g.await = h.await /\ g.posted \in {h.posted, p}
  BY <1>3 DEF HttpSet
<1>5. H!NoState(g) = [g EXCEPT !.stage = "none", !.conn = FALSE, !.disc = FALSE, !.invalidated = FALSE]
  BY DEF H!NoState
<1>6. PICK n \in HttpSet : /\ n = H!NoState(g) /\ n.stage = "none"
                           /\ n.await = g.await /\ n.posted = g.posted
  <2>1. H!NoState(g) \in HttpSet
    BY <1>5 DEF HttpSet, Stages
  <2>2. H!NoState(g).stage = "none" /\ H!NoState(g).await = g.await /\ H!NoState(g).posted = g.posted
    BY <1>5 DEF HttpSet
  <2> QED BY <2>1, <2>2, Zenon
<1>7. Sequenced(n)
  BY <1>2, <1>4, <1>6 DEF Sequenced, HttpSet
<1> QED BY <1>4, <1>6, <1>7

(* A state without a request under way is forgotten.                       *)
LEMMA Forgotten ==
  ASSUME NEW h \in HttpSet, ~h.await,
         (h.posted = << >> \/ Quiet(h.posted) \/ Dropped(h.posted) \/ HungUp(h.posted))
  PROVE  H!NoState(h) \in HttpSet /\ Sequenced(H!NoState(h))
  BY DEF HttpSet, Stages, Sequenced, H!NoState

(* Every hook keeps what the stage says of the requests that went out.     *)
LEMMA HooksSequenced ==
  ASSUME NEW h \in HttpSet, Sequenced(h)
  PROVE  /\ H!CallConnected(h) \in HttpSet /\ Sequenced(H!CallConnected(h))
         /\ H!CallDisconnected(h) \in HttpSet /\ Sequenced(H!CallDisconnected(h))
         /\ H!Cleanup(h) \in HttpSet /\ Sequenced(H!Cleanup(h))
         /\ [h EXCEPT !.up = FALSE] \in HttpSet /\ Sequenced([h EXCEPT !.up = FALSE])
<1>1. H!CallConnected(h) \in HttpSet /\ Sequenced(H!CallConnected(h))
  <2>1. CASE h.stage = "StartedHookReplyReceived" /\ h.up
    <3>1. StartedAnswered(h.posted)
      BY <2>1 DEF Sequenced
    <3>2. H!CallConnected(h) = [H!PostHttpRequest(h, "connected") EXCEPT !.stage = "ConnectedHookIsQueued"]
      BY <2>1 DEF H!CallConnected
    <3> QED BY <3>1, <3>2, ConnectedPosted
  <2>2. CASE ~(h.stage = "StartedHookReplyReceived" /\ h.up)
    <3>1. \/ H!CallConnected(h) \in {h, [h EXCEPT !.conn = TRUE]}
          \/ /\ h.stage = "StartedHookReplyReceived"
             /\ H!CallConnected(h) = [h EXCEPT !.stage = "ConnectedHookReplyReceived"]
      BY <2>2 DEF H!CallConnected
    <3>2. CASE H!CallConnected(h) \in {h, [h EXCEPT !.conn = TRUE]}
      BY <3>2 DEF HttpSet, Sequenced
    <3>3. CASE /\ h.stage = "StartedHookReplyReceived"
               /\ H!CallConnected(h) = [h EXCEPT !.stage = "ConnectedHookReplyReceived"]
      BY <3>3 DEF HttpSet, Stages, Sequenced, Quiet
    <3> QED BY <3>1, <3>2, <3>3
  <2> QED BY <2>1, <2>2
<1>2. H!CallDisconnected(h) \in HttpSet /\ Sequenced(H!CallDisconnected(h))
  <2>1. CASE h.stage \in {"StartedHookReplyReceived", "ConnectedHookReplyReceived"}
    <3>1. ~h.await /\ Quiet(h.posted)
      BY <2>1 DEF Sequenced, HttpSet, Quiet
    <3>2. H!CallDisconnected(h) = H!NoState(H!PostHttpRequestNoReply(h, "disconnected"))
      BY <2>1 DEF H!CallDisconnected
    <3> QED BY <3>1, <3>2, DisconnectedPosted
  <2>2. CASE h.stage \notin {"StartedHookReplyReceived", "ConnectedHookReplyReceived"}
    <3>1. H!CallDisconnected(h) \in {h, [h EXCEPT !.disc = TRUE]}
      BY <2>2 DEF H!CallDisconnected
    <3> QED BY <3>1 DEF HttpSet, Stages, Sequenced
  <2> QED BY <2>1, <2>2
<1>3. H!Cleanup(h) \in HttpSet /\ Sequenced(H!Cleanup(h))
  <2>1. CASE h.stage \in {"StartedHookIsQueued", "ConnectedHookIsQueued"}
    <3>1. H!Cleanup(h) = [h EXCEPT !.invalidated = TRUE]
      BY <2>1 DEF H!Cleanup
    <3> QED BY <3>1 DEF HttpSet, Stages, Sequenced
  <2>2. CASE h.stage \notin {"StartedHookIsQueued", "ConnectedHookIsQueued"}
    <3>1. H!Cleanup(h) = H!NoState(h)
      BY <2>2 DEF H!Cleanup
    <3>2. ~h.await /\ (h.posted = << >> \/ Quiet(h.posted) \/ Dropped(h.posted) \/ HungUp(h.posted))
      BY <2>2 DEF HttpSet, Stages, Sequenced, Quiet
    <3> QED BY <3>1, <3>2, Forgotten
  <2> QED BY <2>1, <2>2
<1>4. [h EXCEPT !.up = FALSE] \in HttpSet /\ Sequenced([h EXCEPT !.up = FALSE])
  BY DEF HttpSet, Stages, Sequenced
<1> QED BY <1>1, <1>2, <1>3, <1>4

(* What is left to be done after an answer.                                *)
LEMMA AfterReplySequenced ==
  ASSUME NEW h \in HttpSet, ~h.await, NEW stage \in Stages,
         Quiet(h.posted),
         Sequenced([h EXCEPT !.stage = stage])
  PROVE  H!AfterReply(h, stage) \in HttpSet /\ Sequenced(H!AfterReply(h, stage))
<1>1. H!AfterReply(h, stage) \in {H!NoState(H!PostHttpRequestNoReply(h, "disconnected")),
                                  H!NoState(h), [h EXCEPT !.stage = stage]}
  BY DEF H!AfterReply, HttpSet
<1>2. [h EXCEPT !.stage = stage] \in HttpSet
  BY DEF HttpSet
<1> QED BY <1>1, <1>2, DisconnectedPosted, Forgotten

(* So does an answer of the http client.                                   *)
LEMMA ReplySequenced ==
  ASSUME NEW h \in HttpSet, Sequenced(h), h.await
  PROVE  H!ProcessHttpReply(h) \in HttpSet /\ Sequenced(H!ProcessHttpReply(h))
<1>0. h.posted \in Seq(Requests) /\ "answer" \in Requests
  BY DEF HttpSet, Requests
<1>1. PICK p \in Seq(Requests) : p = Append(h.posted, "answer")
  BY <1>0, Posted
<1>2. PICK g \in HttpSet : g = [h EXCEPT !.await = FALSE, !.posted = p]
  BY DEF HttpSet
<1>3. g.stage = h.stage /\ ~g.await /\ g.posted = p
  BY <1>2 DEF HttpSet
<1>4. H!ProcessHttpReply(h) =
        CASE g.stage = "StartedHookIsQueued" ->
               IF g.conn /\ g.up
                 THEN [H!PostHttpRequest(g, "connected") EXCEPT !.stage = "ConnectedHookIsQueued"]
                 ELSE H!AfterReply([g EXCEPT !.conn = FALSE], "StartedHookReplyReceived")
          [] g.stage = "ConnectedHookIsQueued" -> H!AfterReply(g, "ConnectedHookReplyReceived")
          [] OTHER -> g
  BY <1>1, <1>2 DEF H!ProcessHttpReply
<1>5. CASE g.stage = "StartedHookIsQueued"
  <2>1. StartedAnswered(g.posted)
    BY <1>0, <1>1, <1>3, <1>5, Posted DEF Sequenced
  <2>2. CASE g.conn /\ g.up
    BY <1>4, <1>5, <2>1, <2>2, ConnectedPosted
  <2>3. CASE ~(g.conn /\ g.up)
    <3>1. PICK k \in HttpSet : k = [g EXCEPT !.conn = FALSE]
      BY DEF HttpSet
    <3>2. ~k.await /\ StartedAnswered(k.posted)
      BY <1>3, <2>1, <3>1 DEF HttpSet
    <3>3. Sequenced([k EXCEPT !.stage = "StartedHookReplyReceived"])
      BY <3>2 DEF HttpSet, Stages, Sequenced
    <3>4. H!ProcessHttpReply(h) = H!AfterReply(k, "StartedHookReplyReceived")
      BY <1>4, <1>5, <2>3, <3>1
    <3>5. "StartedHookReplyReceived" \in Stages
      BY DEF Stages
    <3> QED BY <3>2, <3>3, <3>4, <3>5, AfterReplySequenced DEF Quiet
  <2> QED BY <2>2, <2>3
<1>6. CASE g.stage = "ConnectedHookIsQueued"
  <2>1. ConnectedAnswered(g.posted)
    BY <1>0, <1>1, <1>3, <1>6, Posted DEF Sequenced
  <2>2. Sequenced([g EXCEPT !.stage = "ConnectedHookReplyReceived"])
    BY <1>3, <2>1 DEF HttpSet, Stages, Sequenced, Quiet
  <2>3. H!ProcessHttpReply(h) = H!AfterReply(g, "ConnectedHookReplyReceived")
    BY <1>4, <1>6
  <2>4. "ConnectedHookReplyReceived" \in Stages
    BY DEF Stages
  <2> QED BY <1>3, <2>1, <2>2, <2>3, <2>4, AfterReplySequenced DEF Quiet
<1> QED BY <1>3, <1>5, <1>6 DEF Sequenced

(* The start of the call.                                                  *)
LEMMA StartSequenced ==
  ASSUME NEW up \in BOOLEAN
  PROVE  HttpCallStartedHook(up) \in HttpSet /\ Sequenced(HttpCallStartedHook(up))
<1>1. PICK h \in HttpSet : /\ h = H!Fresh(up) /\ h.posted = << >> /\ h.up = up
                           /\ h.stage = "none" /\ ~h.await
  <2>1. H!Fresh(up) \in HttpSet
    BY DEF HttpSet, Stages, H!Fresh
  <2>2. /\ H!Fresh(up).posted = << >> /\ H!Fresh(up).up = up
        /\ H!Fresh(up).stage = "none" /\ ~H!Fresh(up).await
    BY DEF H!Fresh
  <2> QED BY <2>1, <2>2, Zenon
<1>2. PICK p \in Seq(Requests) : p = Append(h.posted, "started") /\ Started(p)
  <2>1. h.posted \in Seq(Requests) /\ "started" \in Requests
    BY DEF HttpSet, Requests
  <2> QED BY <1>1, <2>1, Posted
<1>3. HttpCallStartedHook(up) =
        IF up THEN [[h EXCEPT !.posted = p, !.await = TRUE] EXCEPT !.stage = "StartedHookIsQueued"] ELSE h
  BY <1>1, <1>2 DEF HttpCallStartedHook, H!CallStarted, H!PostHttpRequest
<1> QED BY <1>1, <1>2, <1>3 DEF HttpSet, Stages, Sequenced


-----------------------------------------------------------------------------
(* The world: the record, the rows and the sequencer.                      *)

Replies == [code : Nat, local : BOOLEAN, sdp : BOOLEAN]

(* A world whose record becomes d.                                         *)
LEMMA WorldRecord ==
  ASSUME NEW x, NEW f, NEW a, World(x, f, a), x.cdr # NoCdr,
         NEW d \in CdrSet, NEW g \in Parties \cup {"Undefined"}, NEW b \in BOOLEAN, Recorded(d, g, b)
  PROVE  World([x EXCEPT !.cdr = d], g, b) /\ [x EXCEPT !.cdr = d].cdr # NoCdr
<1>1. d # NoCdr
  BY NoCdrIsNone
<1>2. PICK y \in Worlds : y = [x EXCEPT !.cdr = d]
  BY DEF World, Worlds
<1>3. y.cdr = d /\ y.rows = x.rows /\ y.http = x.http
  BY <1>2 DEF World, Worlds
<1> QED BY <1>1, <1>2, <1>3 DEF World

(* What a world's record is.                                               *)
LEMMA WorldHas ==
  ASSUME NEW x, NEW f, NEW a, World(x, f, a)
  PROVE  /\ x.cdr = NoCdr => f # "Undefined"
         /\ x.cdr # NoCdr => x.cdr \in CdrSet /\ Recorded(x.cdr, f, a)
         /\ f \in Parties \cup {"Undefined"} /\ a \in BOOLEAN
  BY DEF World, Worlds, Written

(* A world whose sequencer becomes h.                                      *)
LEMMA WorldHttp ==
  ASSUME NEW x, NEW f, NEW a, World(x, f, a), NEW h \in HttpSet, Sequenced(h)
  PROVE  World([x EXCEPT !.http = h], f, a) /\ [x EXCEPT !.http = h].cdr = x.cdr
<1>1. PICK y \in Worlds : y = [x EXCEPT !.http = h]
  BY DEF World, Worlds
<1>2. y.cdr = x.cdr /\ y.rows = x.rows /\ y.http = h
  BY <1>1 DEF World, Worlds
<1> QED BY <1>1, <1>2 DEF World

(* with_cdr_for_read: the record if there is one.                          *)
Same(x, y) == (y.cdr = NoCdr) <=> (x.cdr = NoCdr)

(* The reasons of the legs and the replies change nothing World speaks of. *)
LEMMA WorldKept ==
  ASSUME NEW x, NEW f, NEW a, World(x, f, a), NEW code \in Nat, NEW reply \in Replies
  PROVE  /\ World(Aleg(x, code), f, a) /\ Same(x, Aleg(x, code))
         /\ World(Bleg(x, code), f, a) /\ Same(x, Bleg(x, code))
         /\ World(WithCdr(x, LAMBDA cdr : WithSipReply(cdr, reply)), f, a)
         /\ Same(x, WithCdr(x, LAMBDA cdr : WithSipReply(cdr, reply)))
         /\ World(WithCdr(x, LAMBDA cdr : Action(cdr, "BLegInvite")), f, a)
         /\ World(OnCallConnected(x, "B"), f, a)
<1>1. CASE x.cdr = NoCdr
  BY <1>1 DEF Aleg, Bleg, WithCdr, OnCallConnected, Same
<1>2. CASE x.cdr # NoCdr
  <2>1. PICK c \in CdrSet : c = x.cdr /\ Recorded(c, f, a)
    BY <1>2, WorldHas
  <2>2. ASSUME NEW d \in CdrSet, Recorded(d, f, a)
        PROVE  World([x EXCEPT !.cdr = d], f, a) /\ Same(x, [x EXCEPT !.cdr = d])
    BY <1>2, <2>2, WorldRecord, WorldHas DEF Same
  <2>3. /\ Aleg(x, code) = [x EXCEPT !.cdr = AlegReason(c, code)]
        /\ Bleg(x, code) = [x EXCEPT !.cdr = BlegReason(c, code)]
        /\ WithCdr(x, LAMBDA cdr : WithSipReply(cdr, reply)) = [x EXCEPT !.cdr = WithSipReply(c, reply)]
        /\ WithCdr(x, LAMBDA cdr : Action(cdr, "BLegInvite")) = [x EXCEPT !.cdr = Action(c, "BLegInvite")]
        /\ OnCallConnected(x, "B") = [x EXCEPT !.cdr = Action(c, "BlegConnect")]
    BY <1>2, <2>1 DEF Aleg, Bleg, WithCdr, OnCallConnected
  <2>4. reply \in [code : Nat, local : BOOLEAN, sdp : BOOLEAN]
    BY DEF Replies
  <2> QED BY <2>1, <2>2, <2>3, <2>4, RecordKept
<1> QED BY <1>1, <1>2

(* An event of p that ends the call.                                       *)
LEMMA WorldEnded ==
  ASSUME NEW x, NEW f, NEW a, World(x, f, a), NEW code \in Nat, NEW p \in Parties
  PROVE  World(Internal(x, p, code), Blamed(f, p), a) /\ Same(x, Internal(x, p, code))
<1>1. CASE x.cdr = NoCdr
  BY <1>1, WorldHas DEF Internal, Blamed, Same
<1>2. CASE x.cdr # NoCdr
  <2>1. PICK c \in CdrSet : c = x.cdr /\ Recorded(c, f, a)
    BY <1>2, WorldHas
  <2>2. Internal(x, p, code) = [x EXCEPT !.cdr = InternalReason(c, p, code)]
    BY <1>2, <2>1 DEF Internal
  <2>3. Blamed(f, p) \in Parties \cup {"Undefined"} /\ a \in BOOLEAN
    BY WorldHas DEF Blamed
  <2>4. InternalReason(c, p, code) \in CdrSet /\ Recorded(InternalReason(c, p, code), Blamed(f, p), a)
    BY <2>1, <2>3, EndRecorded
  <2> QED BY <1>2, <2>2, <2>3, <2>4, WorldRecord DEF Same
<1> QED BY <1>1, <1>2

(* A change to Disconnected: a cause with a code ends the call.            *)
LEMMA WorldDisconnected ==
  ASSUME NEW x, NEW f, NEW a, World(x, f, a), NEW l, NEW cause
  PROVE  /\ World(Disconnected(x, l, cause), IF cause \in Coded THEN Blamed(f, "TS") ELSE f, a)
         /\ Same(x, Disconnected(x, l, cause))
<1> DEFINE r == IF cause \in Coded THEN Internal(x, "TS", 500) ELSE x
           g == IF cause \in Coded THEN Blamed(f, "TS") ELSE f
<1>1. World(r, g, a) /\ Same(x, r)
  BY WorldEnded DEF Same
<1>2. Disconnected(x, l, cause) \in {r, [r EXCEPT !.http = H!CallDisconnected(r.http)]}
  BY DEF Disconnected, HttpCallDisconnectedHook
<1> HIDE DEF r, g
<1>3. r.http \in HttpSet /\ Sequenced(r.http)
  BY <1>1 DEF World, Worlds
<1>4. World([r EXCEPT !.http = H!CallDisconnected(r.http)], g, a)
      /\ [r EXCEPT !.http = H!CallDisconnected(r.http)].cdr = r.cdr
  BY <1>1, <1>3, HooksSequenced, WorldHttp
<1> QED BY <1>1, <1>2, <1>4 DEF Same, g

(* The answer reaches the A leg: recorded, unless the callee or the switch *)
(* has ended the call.                                                     *)
LEMMA WorldAnswered ==
  ASSUME NEW x, NEW f, NEW a, World(x, f, a), f # "ORG"
  PROVE  /\ World(OnCallConnected(x, "A"), f, TRUE) /\ World(OnCallConnected(x, "A"), f, a)
         /\ Same(x, OnCallConnected(x, "A"))
<1>0. f \in Parties \cup {"Undefined"} /\ a \in BOOLEAN
  BY WorldHas
<1>1. CASE x.cdr = NoCdr
  BY <1>0, <1>1 DEF OnCallConnected, World, Written, Same
<1>2. CASE x.cdr # NoCdr
  <2>1. PICK c \in CdrSet : c = x.cdr /\ Recorded(c, f, a)
    BY <1>2, WorldHas
  <2>2. PICK d \in CdrSet : d = Action(c, "Connect") /\ Recorded(d, f, a) /\ Recorded(d, f, TRUE)
    <3>1. /\ Action(c, "Connect") \in CdrSet
          /\ Recorded(Action(c, "Connect"), f, a) /\ Recorded(Action(c, "Connect"), f, TRUE)
      BY <1>0, <2>1, AnswerRecorded
    <3> QED BY <3>1, Zenon
  <2> DEFINE y == [x EXCEPT !.cdr = d]
  <2>3. World(y, f, a) /\ World(y, f, TRUE) /\ y.cdr # NoCdr
    BY <1>0, <1>2, <2>2, WorldRecord
  <2>4. OnCallConnected(x, "A") = [y EXCEPT !.http = H!CallConnected(y.http)]
    BY <1>2, <2>1, <2>2 DEF OnCallConnected, HttpCallConnectedHook
  <2> HIDE DEF y
  <2>5. y.http \in HttpSet /\ Sequenced(y.http)
    BY <2>3 DEF World, Worlds
  <2>6. H!CallConnected(y.http) \in HttpSet /\ Sequenced(H!CallConnected(y.http))
    BY <2>5, HooksSequenced
  <2>7. World([y EXCEPT !.http = H!CallConnected(y.http)], f, a)
        /\ World([y EXCEPT !.http = H!CallConnected(y.http)], f, TRUE)
        /\ [y EXCEPT !.http = H!CallConnected(y.http)].cdr = y.cdr
    BY <2>3, <2>6, WorldHttp
  <2> QED BY <1>2, <2>3, <2>4, <2>7 DEF Same
<1> QED BY <1>1, <1>2

(* write_cdr: the row of a call that has ended.                            *)
LEMMA WorldWritten ==
  ASSUME NEW x, NEW f, NEW a, World(x, f, a), f # "Undefined"
  PROVE  World(WriteCdr(x), f, a) /\ WriteCdr(x).cdr = NoCdr
<1>1. CASE x.cdr = NoCdr
  BY <1>1 DEF WriteCdr
<1>2. CASE x.cdr # NoCdr
  <2>1. PICK c \in CdrSet : c = x.cdr /\ Recorded(c, f, a)
    BY <1>2, WorldHas
  <2>2. ApplyParams(c, TRUE) \in RowSet /\ Written(ApplyParams(c, TRUE), f, a)
    BY <2>1, RowWritten
  <2>3. PICK r \in RowSet : r = ApplyParams(c, TRUE) /\ Written(r, f, a)
    BY <2>2, Zenon
  <2>4. PICK s \in Seq(RowSet) : s = x.rows /\ s = << >>
    BY <1>2 DEF World, Worlds
  <2>5. Append(s, r) \in Seq(RowSet) /\ Len(Append(s, r)) = 1 /\ Append(s, r)[1] = r
    BY <2>4
  <2>6. PICK t \in Seq(RowSet) : t = Append(s, r) /\ Len(t) = 1 /\ t[1] = r
    BY <2>5, Zenon
  <2>7. WriteCdr(x) = [x EXCEPT !.rows = t, !.cdr = NoCdr]
    BY <1>2, <2>1, <2>3, <2>4, <2>6 DEF WriteCdr
  <2>8. PICK y \in Worlds : y = WriteCdr(x) /\ y.rows = t /\ y.cdr = NoCdr /\ y.http = x.http
    BY <2>7 DEF World, Worlds
  <2> QED BY <2>3, <2>6, <2>8 DEF World
<1> QED BY <1>1, <1>2


-----------------------------------------------------------------------------
(* The legs and their queues.                                              *)

(* The first event is taken from a queue.                                  *)
LEMMA Taken ==
  ASSUME NEW s \in Seq(Events), s # << >>
  PROVE  /\ Tail(s) \in Seq(Events) /\ Len(Tail(s)) = Len(s) - 1 /\ Len(s) > 0
         /\ \A k \in 1..Len(Tail(s)) : Tail(s)[k] = s[k + 1] /\ k + 1 \in 1..Len(s)
         /\ Head(s) \in Events /\ Head(s) = s[1]
  OBVIOUS

(* An event is put into a queue.                                           *)
LEMMA Put ==
  ASSUME NEW s \in Seq(Events), NEW e \in Events
  PROVE  /\ Append(s, e) \in Seq(Events) /\ Len(Append(s, e)) = Len(s) + 1
         /\ \A k \in 1..Len(s) : Append(s, e)[k] = s[k]
         /\ Append(s, e)[Len(s) + 1] = e
  OBVIOUS

(* What stays out of a queue.                                              *)
LEMMA StaysOut ==
  ASSUME NEW s \in Seq(Events), NEW t, Without(s, t)
  PROVE  /\ s # << >> => Without(Tail(s), t)
         /\ \A e \in Events : e.t # t => Without(Append(s, e), t)
<1>1. ASSUME s # << >> PROVE Without(Tail(s), t)
  BY <1>1, Taken DEF Without
<1>2. ASSUME NEW e \in Events, e.t # t PROVE Without(Append(s, e), t)
  <2>1. SUFFICES ASSUME NEW k \in 1..(Len(s) + 1) PROVE Append(s, e)[k].t # t
    BY Put DEF Without
  <2> QED BY <1>2, Put DEF Without
<1> QED BY <1>1, <1>2

(* The queue of the B leg: a connect event is its first.                   *)
LEMMA ConnectFirst ==
  ASSUME NEW s \in Seq(Events), \A k \in 2..Len(s) : s[k].t # "connect"
  PROVE  /\ s # << >> => Without(Tail(s), "connect") /\ \A k \in 2..Len(Tail(s)) : Tail(s)[k].t # "connect"
         /\ \A e \in Events : e.t # "connect" =>
              /\ \A k \in 2..Len(Append(s, e)) : Append(s, e)[k].t # "connect"
              /\ Without(s, "connect") <=> Without(Append(s, e), "connect")
<1>1. ASSUME s # << >>
      PROVE  Without(Tail(s), "connect") /\ \A k \in 2..Len(Tail(s)) : Tail(s)[k].t # "connect"
  <2>1. \A k \in 1..Len(Tail(s)) : Tail(s)[k].t # "connect"
    BY <1>1, Taken
  <2> QED BY <1>1, <2>1, Taken DEF Without
<1>2. ASSUME NEW e \in Events, e.t # "connect"
      PROVE  /\ \A k \in 2..Len(Append(s, e)) : Append(s, e)[k].t # "connect"
             /\ Without(s, "connect") <=> Without(Append(s, e), "connect")
  <2>1. ASSUME NEW k \in 2..(Len(s) + 1) PROVE Append(s, e)[k].t # "connect"
    BY <1>2, <2>1, Put
  <2>2. Without(Append(s, e), "connect") => Without(s, "connect")
    BY Put DEF Without
  <2> QED BY <1>2, <2>1, <2>2, Put, StaysOut
<1> QED BY <1>1, <1>2

(* The queue of an A leg in a call nobody has ended.                       *)
LEMMA UnendedMoves ==
  ASSUME NEW s \in Seq(Events), NEW st, Unended(s, st)
  PROVE  /\ s # << >> => Unended(Tail(s), st)
         /\ \A e \in Events : e.t \in {"1xx", "2xx", "err", "connect"} => Unended(Append(s, e), st)
         /\ \A e \in Events : /\ st \in {"NoReply", "Ringing"} /\ Without(s, "2xx")
                              /\ e.t \notin {"terminate", "exception"}
                              => Unended(Append(s, e), st)
<1>1. ASSUME s # << >> PROVE Unended(Tail(s), st)
  <2>1. SUFFICES ASSUME NEW k \in 1..Len(Tail(s))
        PROVE  /\ Tail(s)[k].t \notin {"terminate", "exception"}
               /\ Tail(s)[k].t = "bye" => /\ st \in {"NoReply", "Ringing"}
                                          /\ \A j \in 1..(k - 1) : Tail(s)[j].t # "2xx"
    BY DEF Unended
  <2>2. k + 1 \in 1..Len(s) /\ Tail(s)[k] = s[k + 1]
    BY <1>1, Taken
  <2>3. ASSUME NEW j \in 1..(k - 1)
        PROVE  j + 1 \in 1..((k + 1) - 1) /\ Tail(s)[j] = s[j + 1]
    BY <1>1, <2>1, Taken
  <2> QED BY <2>2, <2>3 DEF Unended
<1>2. ASSUME NEW e \in Events, e.t \notin {"terminate", "exception"},
             e.t = "bye" => st \in {"NoReply", "Ringing"} /\ Without(s, "2xx")
      PROVE  Unended(Append(s, e), st)
  <2>1. SUFFICES ASSUME NEW k \in 1..(Len(s) + 1)
        PROVE  /\ Append(s, e)[k].t \notin {"terminate", "exception"}
               /\ Append(s, e)[k].t = "bye" => /\ st \in {"NoReply", "Ringing"}
                                               /\ \A j \in 1..(k - 1) : Append(s, e)[j].t # "2xx"
    BY Put DEF Unended
  <2>2. \A j \in 1..(k - 1) : Append(s, e)[j] = s[j] /\ j \in 1..Len(s)
    BY Put
  <2>3. CASE k = Len(s) + 1
    BY <1>2, <2>2, <2>3, Put DEF Without
  <2>4. CASE k \in 1..Len(s)
    BY <2>2, <2>4, Put DEF Unended
  <2> QED BY <2>3, <2>4
<1> QED BY <1>1, <1>2


(* An event put into the queue qb of the B leg, or none.                   *)
Sent(s, r, T) == r = s \/ \E e \in Events : e.t \in T /\ r = Append(s, e)
(* The first event of a queue taken, or none.                              *)
Left(s, r) == r = s \/ (s # << >> /\ r = Tail(s))

ToB == {"bye", "terminate", "exception"}

(* Events of other kinds keep t out.                                       *)
LEMMA SentStaysOut ==
  ASSUME NEW s \in Seq(Events), NEW r, NEW T, NEW t, Sent(s, r, T), t \notin T, Without(s, t)
  PROVE  Without(r, t)
<1>1. CASE r = s
  BY <1>1
<1>2. CASE r # s
  <2>1. PICK e \in Events : e.t \in T /\ r = Append(s, e)
    BY <1>2 DEF Sent
  <2>2. e.t # t
    BY <2>1
  <2> QED BY ONLY <2>1, <2>2, Without(s, t), StaysOut
<1> QED BY <1>1, <1>2

(* The A leg stops, or goes further towards its end, in a call that has    *)
(* ended with this step at the latest.                                     *)
LEMMA AEnds ==
  ASSUME LegTypes, Ends, leg'["A"].alive # "run",
         leg'["A"].status \in {leg["A"].status, "Disconnected"},
         leg'["B"].status = leg["B"].status,
         Left(q["A"], q'["A"]), Sent(q["B"], q'["B"], ToB),
         first' # "Undefined", first' = "ORG" => leg'["A"].status = "Disconnected"
  PROVE  Ends'
<1>0. q["A"] \in Seq(Events) /\ q["B"] \in Seq(Events)
  BY DEF LegTypes, QueueSet, Legs
<1>1. Without(q["A"], "2xx") => Without(q'["A"], "2xx")
  BY <1>0, StaysOut DEF Left
<1>2. /\ Without(q["B"], "connect") <=> Without(q'["B"], "connect")
      /\ \A k \in 2..Len(q'["B"]) : q'["B"][k].t # "connect"
  <2>1. \A k \in 2..Len(q["B"]) : q["B"][k].t # "connect"
    BY DEF Ends, EndsOf
  <2>2. CASE q'["B"] = q["B"]
    BY <2>1, <2>2
  <2>3. CASE q'["B"] # q["B"]
    <3>1. PICK e \in Events : e.t # "connect" /\ q'["B"] = Append(q["B"], e)
      BY <2>3 DEF Sent, ToB
    <3> QED BY ONLY <1>0, <2>1, <3>1, ConnectFirst
  <2> QED BY <2>2, <2>3
<1> QED BY <1>1, <1>2 DEF Ends, EndsOf

(* The A leg takes an event and goes on.                                   *)
LEMMA ALegGoesOn ==
  ASSUME NEW al, NEW sa, NEW sb, NEW qa \in Seq(Events), NEW qb \in Seq(Events), NEW f,
         EndsOf(al, sa, sb, qa, qb, f), qa # << >>,
         NEW sa2, \/ sa2 = sa
                  \/ sa \in {"NoReply", "Ringing"} /\ sa2 = "Ringing"
                  \/ sa \in {"NoReply", "Ringing"} /\ sa2 = "Connected" /\ Head(qa).t = "2xx"
  PROVE  EndsOf(al, sa2, sb, Tail(qa), qb, f)
<1>1. Without(qa, "2xx") => Without(Tail(qa), "2xx")
  BY StaysOut
<1>2. Len(qa) > 0 /\ Head(qa) = qa[1] /\ 1 \in 1..Len(qa)
  BY Taken
<1>3. sb \in {"NoReply", "Ringing"} \/ ~Without(qb, "connect") =>
        sa2 # "Connected" /\ Without(Tail(qa), "2xx")
  BY <1>1, <1>2 DEF EndsOf, Without
<1>4. ASSUME f = "Undefined" PROVE Unended(Tail(qa), sa2)
  <2>1. Unended(qa, sa)
    BY <1>4 DEF EndsOf
  <2>2. Unended(Tail(qa), sa)
    BY <2>1, UnendedMoves
  <2>3. CASE sa2 = sa \/ sa2 = "Ringing"
    BY <2>2, <2>3 DEF Unended
  <2>4. CASE sa2 = "Connected" /\ Head(qa).t = "2xx"
    <3>1. ASSUME NEW k \in 1..Len(Tail(qa)) PROVE Tail(qa)[k].t # "bye"
      <4>1. k + 1 \in 1..Len(qa) /\ Tail(qa)[k] = qa[k + 1] /\ 1 \in 1..((k + 1) - 1)
        BY <3>1, Taken
      <4> QED BY <1>2, <2>1, <2>4, <4>1 DEF Unended
    <3> QED BY <2>2, <3>1 DEF Unended
  <2> QED BY <2>3, <2>4
<1>5. f = "ORG" => sa2 = "Disconnected"
  BY DEF EndsOf
<1>6. sa2 = "Disconnected" => al # "run"
  BY DEF EndsOf
<1> QED BY <1>3, <1>4, <1>5, <1>6 DEF EndsOf

(* The B leg stops or ends the call; what it sends the A leg while nobody  *)
(* has ended the call is a refusal, or a BYE before its answer.            *)
LEMMA BEnds ==
  ASSUME LegTypes, Ends, first \in Parties \cup {"Undefined"}, leg'["A"] = leg["A"],
         leg'["B"].status \in {leg["B"].status, "Disconnected"}, Left(q["B"], q'["B"]),
         first' \in {first, Blamed(first, "TS"), Blamed(first, "DST")},
         \/ Sent(q["A"], q'["A"], {"err"})
         \/ first' # "Undefined" /\ Sent(q["A"], q'["A"], {"bye", "terminate", "exception", "err", "teardown"})
         \/ leg["B"].status = "Ringing" /\ Sent(q["A"], q'["A"], {"bye"})
  PROVE  Ends'
<1>0. q["A"] \in Seq(Events) /\ q["B"] \in Seq(Events) /\ leg["A"].status \in Statuses
  BY DEF LegTypes, QueueSet, LegSet, Legs
<1> DEFINE sa == leg["A"].status
           sb == leg["B"].status
           sb2 == leg'["B"].status
           qa == q["A"]
           qb == q["B"]
           ra == q'["A"]
           rb == q'["B"]
<1>e. EndsOf(leg["A"].alive, sa, sb, qa, qb, first)
  BY DEF Ends
<1>s. sb2 \in {sb, "Disconnected"}
  OBVIOUS
<1>p. \/ Sent(qa, ra, {"err"})
      \/ first' # "Undefined" /\ Sent(qa, ra, {"bye", "terminate", "exception", "err", "teardown"})
      \/ sb = "Ringing" /\ Sent(qa, ra, {"bye"})
  OBVIOUS
<1>l. Left(qb, rb)
  OBVIOUS
<1> SUFFICES EndsOf(leg["A"].alive, sa, sb2, ra, rb, first')
  BY DEF Ends
<1> HIDE DEF sa, sb, sb2, qa, qb, ra, rb
<1>1. Without(qa, "2xx") => Without(ra, "2xx")
  <2>1. \/ Sent(qa, ra, {"err"})
        \/ Sent(qa, ra, {"bye", "terminate", "exception", "err", "teardown"})
        \/ Sent(qa, ra, {"bye"})
    BY <1>p
  <2>2. qa \in Seq(Events)
    BY <1>0 DEF qa
  <2> QED BY ONLY <2>1, <2>2, SentStaysOut
<1>2. /\ \A k \in 2..Len(rb) : rb[k].t # "connect"
      /\ Without(qb, "connect") => Without(rb, "connect")
  <2>1. qb \in Seq(Events)
    BY <1>0 DEF qb
  <2>2. \A k \in 2..Len(qb) : qb[k].t # "connect"
    BY <1>e DEF EndsOf
  <2> QED BY ONLY <1>l, <2>1, <2>2, ConnectFirst DEF Left
<1>3. sb2 \in {"NoReply", "Ringing"} => Without(rb, "connect")
  BY <1>e, <1>s, <1>2 DEF EndsOf
<1>4. sb2 \in {"NoReply", "Ringing"} \/ ~Without(rb, "connect") => sa # "Connected" /\ Without(ra, "2xx")
  BY <1>e, <1>s, <1>1, <1>2 DEF EndsOf
<1>5. first' = "ORG" => sa = "Disconnected"
  BY <1>e DEF EndsOf, Blamed
<1>6. first # "Undefined" => first' # "Undefined"
  BY DEF Blamed
<1>7. ASSUME first' = "Undefined" PROVE Unended(ra, sa)
  <2>0. qa \in Seq(Events)
    BY <1>0 DEF qa
  <2>1. first = "Undefined" /\ Unended(qa, sa)
    BY <1>e, <1>6, <1>7 DEF EndsOf
  <2>2. CASE Sent(qa, ra, {"err"})
    BY <2>0, <2>1, <2>2, UnendedMoves DEF Sent
  <2>3. CASE sb = "Ringing" /\ Sent(qa, ra, {"bye"})
    <3>1. sa \in {"NoReply", "Ringing"} /\ Without(qa, "2xx")
      BY <1>0, <1>e, <2>1, <2>3 DEF EndsOf, Statuses, sa
    <3> QED BY <2>0, <2>1, <2>3, <3>1, UnendedMoves DEF Sent
  <2> QED BY <1>7, <1>p, <2>2, <2>3
<1> QED BY <1>e, <1>2, <1>3, <1>4, <1>5, <1>6, <1>7 DEF EndsOf

(* The B leg rings or answers.                                             *)
LEMMA BLegReplies ==
  ASSUME NEW al, NEW sa, NEW sb \in {"NoReply", "Ringing"}, NEW qa \in Seq(Events), NEW qb \in Seq(Events),
         NEW f, EndsOf(al, sa, sb, qa, qb, f), NEW sb2, NEW ra,
         \/ sb2 \in {sb, "Ringing"} /\ Sent(qa, ra, {"1xx"})
         \/ sb2 = "Connected" /\ Sent(qa, ra, {"2xx"})
  PROVE  EndsOf(al, sa, sb2, ra, qb, f)
<1>1. Without(qb, "connect") /\ sa # "Connected" /\ Without(qa, "2xx")
  BY DEF EndsOf
<1>2. sb2 # "Connected" => Without(ra, "2xx")
  BY <1>1, SentStaysOut
<1>3. f = "Undefined" => Unended(ra, sa)
  BY UnendedMoves DEF Sent, EndsOf
<1> QED BY <1>1, <1>2, <1>3 DEF EndsOf

(* The B leg sends its INVITE.                                             *)
LEMMA BLegConnects ==
  ASSUME NEW al, NEW sa, NEW sb, NEW qa \in Seq(Events), NEW qb \in Seq(Events),
         NEW f, EndsOf(al, sa, sb, qa, qb, f), qb # << >>, Head(qb).t = "connect"
  PROVE  EndsOf(al, sa, "NoReply", qa, Tail(qb), f)
<1>1. Without(Tail(qb), "connect") /\ \A k \in 2..Len(Tail(qb)) : Tail(qb)[k].t # "connect"
  BY ConnectFirst DEF EndsOf
<1>2. ~Without(qb, "connect")
  BY Taken DEF Without
<1> QED BY <1>1, <1>2 DEF EndsOf


-----------------------------------------------------------------------------
(* The steps, as far as the legs go.                                       *)

(* Kinds of events.                                                        *)
LEMMA EventKinds ==
  /\ [t |-> "terminate"] \in Events /\ [t |-> "bye"] \in Events /\ [t |-> "exception"] \in Events
  /\ [t |-> "1xx"] \in Events /\ [t |-> "2xx"] \in Events /\ [t |-> "teardown"] \in Events
  /\ \A reply \in Failures : [t |-> "err", reply |-> reply] \in Events
  BY DEF Events

(* The queues after an event was taken.                                    *)
LEMMA PoppedIs ==
  ASSUME LegTypes, NEW l \in Legs, q[l] # << >>
  PROVE  /\ Popped(l) \in QueueSet /\ Popped(l)[l] = Tail(q[l])
         /\ Popped(l)[Peer(l)] = q[Peer(l)]
<1>1. Tail(q[l]) \in Seq(Events)
  BY Taken DEF LegTypes, QueueSet
<1> QED BY <1>1 DEF LegTypes, QueueSet, Popped, Peer, Legs

(* The queues after an event was relayed to the peer, if it is there.      *)
LEMMA RelayedIs ==
  ASSUME NEW qq \in QueueSet, NEW l \in Legs, NEW e \in Events
  PROVE  /\ Relayed(qq, l, e) \in QueueSet /\ Relayed(qq, l, e)[l] = qq[l]
         /\ Sent(qq[Peer(l)], Relayed(qq, l, e)[Peer(l)], {e.t})
<1>0. Peer(l) \in Legs /\ Peer(l) # l
  BY DEF Peer, Legs
<1>1. Append(qq[Peer(l)], e) \in Seq(Events)
  BY <1>0, Put DEF QueueSet
<1> QED BY <1>0, <1>1 DEF QueueSet, Relayed, Sent

(* The legs after one of them stopped.                                     *)
LEMMA StoppedIs ==
  ASSUME LegTypes, NEW l \in Legs, NEW st \in Statuses
  PROVE  /\ Stopped(l, st) \in LegSet
         /\ Stopped(l, st)[l].alive = "stopped" /\ Stopped(l, st)[l].status = st
         /\ Stopped(l, st)[Peer(l)] = leg[Peer(l)]
  BY DEF LegTypes, LegSet, Stopped, Peer, Legs

LEMMA LegsAre == Legs = {"A", "B"} /\ Peer("A") = "B" /\ Peer("B") = "A"
  BY DEF Legs, Peer

(* The first to end the call, as the record keeps it.                      *)
LEMMA EndedByIs ==
  ASSUME WorldInv, NEW p, EndedBy(p)
  PROVE  first' = Blamed(first, p)
  BY WorldHas DEF WorldInv, EndedBy, Blamed

(* stopCall of the A leg, with or without an event taken before.           *)
LEMMA AStopsCall ==
  ASSUME LegTypes, Ends, leg' = Stopped("A", "Disconnected"),
         \/ q' = Relayed(q, "A", [t |-> "terminate"])
         \/ q["A"] # << >> /\ q' = Relayed(Popped("A"), "A", [t |-> "terminate"]),
         first' \in {Blamed(first, "TS"), Blamed(first, "ORG")}
  PROVE  LegTypes' /\ Ends' /\ ~Over'
<1>0. "A" \in Legs /\ "B" \in Legs /\ "Disconnected" \in Statuses
  BY LegsAre DEF Statuses
<1>1. /\ leg' \in LegSet /\ leg'["A"].alive = "stopped" /\ leg'["A"].status = "Disconnected"
      /\ leg'["B"] = leg["B"]
  BY <1>0, StoppedIs, LegsAre
<1>2. q' \in QueueSet /\ Left(q["A"], q'["A"]) /\ Sent(q["B"], q'["B"], {"terminate"})
  <2>1. CASE q' = Relayed(q, "A", [t |-> "terminate"])
    BY <1>0, <2>1, RelayedIs, EventKinds, LegsAre DEF LegTypes, Left
  <2>2. CASE q["A"] # << >> /\ q' = Relayed(Popped("A"), "A", [t |-> "terminate"])
    <3>1. Popped("A") \in QueueSet /\ Popped("A")["A"] = Tail(q["A"]) /\ Popped("A")["B"] = q["B"]
      BY <1>0, <2>2, PoppedIs, LegsAre
    <3>2. PICK qq \in QueueSet : qq = Popped("A")
      BY <3>1, Zenon
    <3>3. /\ Relayed(qq, "A", [t |-> "terminate"]) \in QueueSet
          /\ Relayed(qq, "A", [t |-> "terminate"])["A"] = qq["A"]
          /\ Sent(qq["B"], Relayed(qq, "A", [t |-> "terminate"])["B"], {"terminate"})
      BY <1>0, RelayedIs, EventKinds, LegsAre
    <3> QED BY <2>2, <3>1, <3>2, <3>3 DEF Left
  <2> QED BY <2>1, <2>2
<1>3. Sent(q["B"], q'["B"], ToB)
  BY <1>2 DEF Sent, ToB
<1>4. first' # "Undefined"
  BY DEF Blamed
<1>5. Ends'
  BY <1>1, <1>2, <1>3, <1>4, AEnds
<1> QED BY <1>0, <1>1, <1>2, <1>5 DEF LegTypes, Over

(* stopCall of the B leg.                                                  *)
LEMMA BStopsCall ==
  ASSUME LegTypes, Ends, first \in Parties \cup {"Undefined"},
         leg' = Stopped("B", "Disconnected"), q' = Relayed(q, "B", [t |-> "terminate"]),
         first' = Blamed(first, "TS")
  PROVE  LegTypes' /\ Ends' /\ ~Over'
<1>0. "A" \in Legs /\ "B" \in Legs /\ "Disconnected" \in Statuses
  BY LegsAre DEF Statuses
<1>1. /\ leg' \in LegSet /\ leg'["B"].alive = "stopped" /\ leg'["B"].status = "Disconnected"
      /\ leg'["A"] = leg["A"]
  BY <1>0, StoppedIs, LegsAre
<1>2. q' \in QueueSet /\ Left(q["B"], q'["B"]) /\ Sent(q["A"], q'["A"], {"terminate"})
  BY <1>0, RelayedIs, EventKinds, LegsAre DEF LegTypes, Left
<1>3. Sent(q["A"], q'["A"], {"bye", "terminate", "exception", "err", "teardown"})
  BY <1>2 DEF Sent
<1>4. first' # "Undefined" /\ first' \in {first, Blamed(first, "TS"), Blamed(first, "DST")}
  BY DEF Blamed
<1>5. Ends'
  BY <1>1, <1>2, <1>3, <1>4, BEnds
<1> QED BY <1>0, <1>1, <1>2, <1>5 DEF LegTypes, Over


-----------------------------------------------------------------------------
(* The steps.                                                              *)

LEMMA CallParts ==
  ASSUME CallInv
  PROVE  /\ LegTypes /\ Ends /\ WorldInv /\ World(w, first, answered)
         /\ first \in Parties \cup {"Undefined"} /\ answered \in BOOLEAN
         /\ "A" \in Legs /\ "B" \in Legs /\ Statuses = {"NoReply", "Ringing", "Connected", "Disconnected"}
         /\ leg["A"].status \in Statuses /\ leg["B"].status \in Statuses
         /\ q["A"] \in Seq(Events) /\ q["B"] \in Seq(Events)
  BY WorldHas DEF CallInv, WorldInv, LegTypes, LegSet, QueueSet, Legs, Statuses

(* The callee's replies are replies.                                       *)
LEMMA RepliesAre ==
  Provisional \subseteq Replies /\ Failures \subseteq Replies /\ Success \in Replies
  BY DEF Provisional, Failures, Success, Replies

(* onB2BConnect.                                                           *)
LEMMA StepConnect ==
  ASSUME CallInv, OnB2BConnect PROVE CallInv'
<1>0. /\ q["B"] # << >> /\ Head(q["B"]).t = "connect" /\ q' = Popped("B")
      /\ leg' = [leg EXCEPT !["B"].status = "NoReply"]
      /\ first' = first /\ answered' = answered
      /\ w' = WithCdr(w, LAMBDA cdr : Action(cdr, "BLegInvite"))
      /\ leg["B"].alive \in {"run", "stopped"}
  BY DEF OnB2BConnect, Received, Alive
<1>1. /\ leg' \in LegSet /\ leg'["A"] = leg["A"] /\ leg'["B"].status = "NoReply"
      /\ leg'["B"].alive = leg["B"].alive
  BY <1>0, CallParts DEF LegTypes, LegSet
<1>2. q' \in QueueSet /\ q'["B"] = Tail(q["B"]) /\ q'["A"] = q["A"]
  BY <1>0, CallParts, PoppedIs, LegsAre
<1>3. EndsOf(leg["A"].alive, leg["A"].status, "NoReply", q["A"], Tail(q["B"]), first)
  <2>1. EndsOf(leg["A"].alive, leg["A"].status, leg["B"].status, q["A"], q["B"], first)
    BY CallParts DEF Ends
  <2> QED BY <1>0, <2>1, CallParts, BLegConnects
<1>4. Ends'
  BY <1>0, <1>1, <1>2, <1>3 DEF Ends
<1>5. WorldInv'
  <2>1. World(WithCdr(w, LAMBDA cdr : Action(cdr, "BLegInvite")), first, answered)
    <3>1. 0 \in Nat /\ Success \in Replies
      BY RepliesAre
    <3> QED BY <3>1, CallParts, WorldKept
  <2> QED BY <1>0, <2>1 DEF WorldInv
<1>6. ~Over'
  BY <1>0, <1>1, CallParts DEF Over
<1> QED BY <1>1, <1>2, <1>4, <1>5, <1>6 DEF CallInv, LegTypes, GoneIsWritten

(* onSipReply.                                                             *)
LEMMA StepReply ==
  ASSUME CallInv, OnSipReply PROVE CallInv'
<1>0. /\ leg["B"].alive \in {"run", "stopped"} /\ leg["B"].status \in {"NoReply", "Ringing"}
      /\ answered' = answered
  BY DEF OnSipReply, Alive, Pending, Status
<1>e. EndsOf(leg["A"].alive, leg["A"].status, leg["B"].status, q["A"], q["B"], first)
  BY CallParts DEF Ends
<1>1. ASSUME NEW reply \in Provisional, first' = first,
             w' = WithCdr(w, LAMBDA cdr : WithSipReply(cdr, reply)),
             q' = q \/ q' = Relayed(q, "B", [t |-> "1xx"]),
             leg' = leg \/ leg' = [leg EXCEPT !["B"].status = "Ringing"]
      PROVE  CallInv'
  <2>1. /\ leg' \in LegSet /\ leg'["A"] = leg["A"] /\ leg'["B"].alive = leg["B"].alive
        /\ leg'["B"].status \in {leg["B"].status, "Ringing"}
    BY <1>1, CallParts DEF LegTypes, LegSet
  <2>2. q' \in QueueSet /\ q'["B"] = q["B"] /\ Sent(q["A"], q'["A"], {"1xx"})
    <3>1. CASE q' = q
      BY <3>1, CallParts DEF LegTypes, Sent
    <3>2. CASE q' = Relayed(q, "B", [t |-> "1xx"])
      BY <3>2, CallParts, RelayedIs, EventKinds, LegsAre DEF LegTypes
    <3> QED BY <1>1, <3>1, <3>2
  <2>3. EndsOf(leg["A"].alive, leg["A"].status, leg'["B"].status, q'["A"], q["B"], first)
    BY <1>0, <1>e, <2>1, <2>2, CallParts, BLegReplies
  <2>4. Ends'
    BY <1>1, <2>1, <2>2, <2>3 DEF Ends
  <2>5. WorldInv'
    <3>1. 0 \in Nat /\ reply \in Replies
      BY RepliesAre
    <3>2. World(WithCdr(w, LAMBDA cdr : WithSipReply(cdr, reply)), first, answered)
      BY <3>1, CallParts, WorldKept
    <3> QED BY <1>0, <1>1, <3>2 DEF WorldInv
  <2>6. ~Over'
    BY <1>0, <2>1, CallParts DEF Over
  <2> QED BY <2>1, <2>2, <2>4, <2>5, <2>6 DEF CallInv, LegTypes, GoneIsWritten
<1>2. ASSUME first' = first,
             w' = OnCallConnected(WithCdr(w, LAMBDA cdr : WithSipReply(cdr, Success)), "B"),
             q' = Relayed(q, "B", [t |-> "2xx"]), leg' = [leg EXCEPT !["B"].status = "Connected"]
      PROVE  CallInv'
  <2>1. /\ leg' \in LegSet /\ leg'["A"] = leg["A"] /\ leg'["B"].alive = leg["B"].alive
        /\ leg'["B"].status = "Connected"
    BY <1>2, CallParts DEF LegTypes, LegSet
  <2>2. q' \in QueueSet /\ q'["B"] = q["B"] /\ Sent(q["A"], q'["A"], {"2xx"})
    BY <1>2, CallParts, RelayedIs, EventKinds, LegsAre DEF LegTypes
  <2>3. EndsOf(leg["A"].alive, leg["A"].status, leg'["B"].status, q'["A"], q["B"], first)
    BY <1>0, <1>e, <2>1, <2>2, CallParts, BLegReplies
  <2>4. Ends'
    BY <1>2, <2>1, <2>2, <2>3 DEF Ends
  <2>5. WorldInv'
    <3>1. 0 \in Nat /\ Success \in Replies
      BY RepliesAre
    <3> DEFINE x == WithCdr(w, LAMBDA cdr : WithSipReply(cdr, Success))
    <3>2. World(x, first, answered)
      BY <3>1, CallParts, WorldKept
    <3> HIDE DEF x
    <3>3. World(OnCallConnected(x, "B"), first, answered)
      BY <3>1, <3>2, WorldKept
    <3> QED BY <1>0, <1>2, <3>3 DEF WorldInv, x
  <2>6. ~Over'
    BY <1>0, <2>1, CallParts DEF Over
  <2> QED BY <2>1, <2>2, <2>4, <2>5, <2>6 DEF CallInv, LegTypes, GoneIsWritten
<1>3. ASSUME NEW reply \in Failures,
             w' = Disconnected(WithCdr(w, LAMBDA cdr : WithSipReply(cdr, reply)), "B", CauseOf(reply)),
             q' = Relayed(q, "B", [t |-> "err", reply |-> reply]),
             leg' = Stopped("B", "Disconnected"),
             IF CauseOf(reply) \in Coded THEN EndedBy("TS") ELSE first' = first
      PROVE  CallInv'
  <2>0. first' = IF CauseOf(reply) \in Coded THEN Blamed(first, "TS") ELSE first
    BY <1>3, CallParts, EndedByIs
  <2>1. /\ leg' \in LegSet /\ leg'["A"] = leg["A"] /\ leg'["B"].alive = "stopped"
        /\ leg'["B"].status = "Disconnected"
    BY <1>3, CallParts, StoppedIs, LegsAre
  <2>2. q' \in QueueSet /\ q'["B"] = q["B"] /\ Sent(q["A"], q'["A"], {"err"})
    <3>1. PICK e \in Events : e = [t |-> "err", reply |-> reply] /\ e.t = "err"
      BY EventKinds
    <3> QED BY <1>3, <3>1, CallParts, RelayedIs, LegsAre DEF LegTypes
  <2>4. Ends'
    BY <2>0, <2>1, <2>2, CallParts, BEnds DEF Left
  <2>5. WorldInv'
    <3>1. 0 \in Nat /\ reply \in Replies
      BY RepliesAre
    <3> DEFINE x == WithCdr(w, LAMBDA cdr : WithSipReply(cdr, reply))
    <3>2. World(x, first, answered)
      BY <3>1, CallParts, WorldKept
    <3> HIDE DEF x
    <3>3. World(Disconnected(x, "B", CauseOf(reply)), first', answered)
      BY <2>0, <3>2, WorldDisconnected
    <3> QED BY <1>0, <1>3, <3>3 DEF WorldInv, x
  <2>6. ~Over'
    BY <2>1, CallParts DEF Over
  <2> QED BY <2>1, <2>2, <2>4, <2>5, <2>6 DEF CallInv, LegTypes, GoneIsWritten
<1> QED BY <1>1, <1>2, <1>3 DEF OnSipReply


(* The A leg took an event and goes on.                                    *)
LEMMA AGoesOn ==
  ASSUME LegTypes, Ends, q["A"] # << >>, q' = Popped("A"), first' = first,
         leg["A"].alive \in {"run", "stopped"},
         \/ leg' = leg
         \/ leg["A"].status \in {"NoReply", "Ringing"} /\ leg' = [leg EXCEPT !["A"].status = "Ringing"]
         \/ /\ leg["A"].status \in {"NoReply", "Ringing"} /\ Head(q["A"]).t = "2xx"
            /\ leg' = [leg EXCEPT !["A"].status = "Connected"]
  PROVE  LegTypes' /\ Ends' /\ ~Over'
<1>0. "A" \in Legs /\ q["A"] \in Seq(Events) /\ q["B"] \in Seq(Events)
  BY LegsAre DEF LegTypes, QueueSet
<1>1. /\ leg' \in LegSet /\ leg'["B"] = leg["B"] /\ leg'["A"].alive = leg["A"].alive
      /\ \/ leg'["A"].status = leg["A"].status
         \/ leg["A"].status \in {"NoReply", "Ringing"} /\ leg'["A"].status = "Ringing"
         \/ /\ leg["A"].status \in {"NoReply", "Ringing"} /\ Head(q["A"]).t = "2xx"
            /\ leg'["A"].status = "Connected"
  <2>1. CASE leg' = leg
    BY <2>1 DEF LegTypes
  <2>2. CASE leg["A"].status \in {"NoReply", "Ringing"} /\ leg' = [leg EXCEPT !["A"].status = "Ringing"]
    BY <1>0, <2>2 DEF LegTypes, LegSet, Statuses
  <2>3. CASE /\ leg["A"].status \in {"NoReply", "Ringing"} /\ Head(q["A"]).t = "2xx"
             /\ leg' = [leg EXCEPT !["A"].status = "Connected"]
    BY <1>0, <2>3 DEF LegTypes, LegSet, Statuses
  <2> QED BY <2>1, <2>2, <2>3
<1>2. q' \in QueueSet /\ q'["A"] = Tail(q["A"]) /\ q'["B"] = q["B"]
  BY <1>0, PoppedIs, LegsAre
<1>3. EndsOf(leg["A"].alive, leg["A"].status, leg["B"].status, q["A"], q["B"], first)
  BY DEF Ends
<1>4. EndsOf(leg["A"].alive, leg'["A"].status, leg["B"].status, Tail(q["A"]), q["B"], first)
  <2>1. PICK sa2 : sa2 = leg'["A"].status
    OBVIOUS
  <2>2. \/ sa2 = leg["A"].status
        \/ leg["A"].status \in {"NoReply", "Ringing"} /\ sa2 = "Ringing"
        \/ leg["A"].status \in {"NoReply", "Ringing"} /\ sa2 = "Connected" /\ Head(q["A"]).t = "2xx"
    BY <1>1, <2>1
  <2>3. EndsOf(leg["A"].alive, sa2, leg["B"].status, Tail(q["A"]), q["B"], first)
    BY ONLY <1>0, <1>3, <2>2, q["A"] # << >>, ALegGoesOn
  <2> QED BY <2>1, <2>3
<1>5. Ends'
  BY <1>1, <1>2, <1>4 DEF Ends
<1> QED BY <1>0, <1>1, <1>2, <1>5 DEF LegTypes, Over

(* The record when a change of status ends the call.                       *)
LEMMA CodedEnds ==
  ASSUME NEW x, NEW f, NEW a, World(x, f, a), NEW l, NEW cause \in Coded
  PROVE  World(Disconnected(x, l, cause), Blamed(f, "TS"), a)
  BY WorldDisconnected

(* The record when it does not.                                            *)
LEMMA UncodedEnds ==
  ASSUME NEW x, NEW f, NEW a, World(x, f, a), NEW l, NEW cause, cause \notin Coded
  PROVE  World(Disconnected(x, l, cause), f, a)
  BY WorldDisconnected

(* b2bInitial1xx.                                                          *)
LEMMA Step1xx ==
  ASSUME CallInv, B2bInitial1xx PROVE CallInv'
<1>0. q["A"] # << >> /\ leg["A"].alive \in {"run", "stopped"} /\ answered' = answered
  BY DEF B2bInitial1xx, Received, Alive
<1>1. CASE /\ \/ leg' = leg
              \/ leg["A"].status \in {"NoReply", "Ringing"} /\ leg' = [leg EXCEPT !["A"].status = "Ringing"]
           /\ q' = Popped("A") /\ w' = w /\ first' = first
  <2>1. LegTypes' /\ Ends' /\ ~Over'
    BY <1>0, <1>1, CallParts, AGoesOn
  <2> QED BY <1>0, <1>1, <2>1 DEF CallInv, WorldInv, GoneIsWritten
<1>2. CASE Early /\ StopCall(w, Popped("A"), "A", "InternalError") /\ EndedBy("TS")
  <2>1. first' = Blamed(first, "TS")
    BY <1>2, CallParts, EndedByIs
  <2>2. LegTypes' /\ Ends' /\ ~Over'
    BY <1>0, <1>2, <2>1, CallParts, AStopsCall DEF StopCall
  <2>3. w' = Disconnected(w, "A", "InternalError")
    BY <1>2 DEF StopCall, Early
  <2>4. World(Disconnected(w, "A", "InternalError"), Blamed(first, "TS"), answered)
    BY CallParts, CodedEnds DEF Coded
  <2> QED BY <1>0, <2>1, <2>2, <2>3, <2>4 DEF CallInv, WorldInv, GoneIsWritten
<1> QED BY <1>1, <1>2 DEF B2bInitial1xx, Early, Status

(* b2bInitial2xx: until the answer comes the caller has not ended the call. *)
LEMMA Step2xx ==
  ASSUME CallInv, B2bInitial2xx PROVE CallInv'
<1>0. q["A"] # << >> /\ Head(q["A"]).t = "2xx" /\ leg["A"].alive \in {"run", "stopped"}
  BY DEF B2bInitial2xx, Received, Alive
<1>1. CASE leg' = leg /\ q' = Popped("A") /\ w' = w /\ first' = first /\ answered' = answered
  <2>1. LegTypes' /\ Ends' /\ ~Over'
    BY <1>0, <1>1, CallParts, AGoesOn
  <2> QED BY <1>0, <1>1, <2>1 DEF CallInv, WorldInv, GoneIsWritten
<1>2. ASSUME leg["A"].status \in {"NoReply", "Ringing"}
      PROVE  /\ World(OnCallConnected(w, "A"), first, TRUE)
             /\ World(OnCallConnected(w, "A"), first, answered)
  <2>1. first # "ORG"
    BY <1>2, CallParts DEF Ends, EndsOf
  <2> QED BY <2>1, CallParts, WorldAnswered
<1>3. CASE /\ leg["A"].status \in {"NoReply", "Ringing"} /\ w' = OnCallConnected(w, "A")
           /\ leg' = [leg EXCEPT !["A"].status = "Connected"]
           /\ q' = Popped("A") /\ answered' = TRUE /\ first' = first
  <2>1. LegTypes' /\ Ends' /\ ~Over'
    BY <1>0, <1>3, CallParts, AGoesOn
  <2> QED BY <1>2, <1>3, <2>1 DEF CallInv, WorldInv, GoneIsWritten
<1>4. CASE /\ Early /\ StopCall(OnCallConnected(w, "A"), Popped("A"), "A", "InternalError")
           /\ EndedBy("TS") /\ answered' = answered
  <2>1. first' = Blamed(first, "TS")
    BY <1>4, CallParts, EndedByIs
  <2>2. LegTypes' /\ Ends' /\ ~Over'
    BY <1>0, <1>4, <2>1, CallParts, AStopsCall DEF StopCall
  <2>3. w' = Disconnected(OnCallConnected(w, "A"), "A", "InternalError")
    BY <1>4 DEF StopCall, Early
  <2>4. World(Disconnected(OnCallConnected(w, "A"), "A", "InternalError"), Blamed(first, "TS"), answered)
    BY <1>2, <1>4, CodedEnds DEF Coded, Early, Status
  <2> QED BY <1>4, <2>1, <2>2, <2>3, <2>4 DEF CallInv, WorldInv, GoneIsWritten
<1> QED BY <1>1, <1>3, <1>4 DEF B2bInitial2xx, Early, Status


(* The A leg stops otherwise.                                              *)
LEMMA AStops ==
  ASSUME LegTypes, Ends, NEW st \in Statuses, leg' = Stopped("A", st),
         st \in {leg["A"].status, "Disconnected"},
         \/ q' = q
         \/ q["A"] # << >> /\ q' = Popped("A")
         \/ q' = Relayed(q, "A", [t |-> "bye"])
         \/ q' = Relayed(q, "A", [t |-> "exception"]),
         first' # "Undefined", first' = "ORG" => st = "Disconnected"
  PROVE  LegTypes' /\ Ends' /\ ~Over'
<1>0. "A" \in Legs
  BY LegsAre
<1>1. /\ leg' \in LegSet /\ leg'["A"].alive = "stopped" /\ leg'["A"].status = st
      /\ leg'["B"] = leg["B"]
  BY <1>0, StoppedIs, LegsAre
<1>2. q' \in QueueSet /\ Left(q["A"], q'["A"]) /\ Sent(q["B"], q'["B"], ToB)
  <2>1. CASE q' = q
    BY <2>1 DEF LegTypes, Left, Sent
  <2>2. CASE q["A"] # << >> /\ q' = Popped("A")
    BY <1>0, <2>2, PoppedIs, LegsAre DEF Left, Sent
  <2>3. CASE q' = Relayed(q, "A", [t |-> "bye"])
    <3>1. q' \in QueueSet /\ q'["A"] = q["A"] /\ Sent(q["B"], q'["B"], {"bye"})
      BY <1>0, <2>3, RelayedIs, EventKinds, LegsAre DEF LegTypes
    <3> QED BY <3>1 DEF Left, Sent, ToB
  <2>4. CASE q' = Relayed(q, "A", [t |-> "exception"])
    <3>1. q' \in QueueSet /\ q'["A"] = q["A"] /\ Sent(q["B"], q'["B"], {"exception"})
      BY <1>0, <2>4, RelayedIs, EventKinds, LegsAre DEF LegTypes
    <3> QED BY <3>1 DEF Left, Sent, ToB
  <2> QED BY <2>1, <2>2, <2>3, <2>4
<1>3. Ends'
  BY <1>1, <1>2, AEnds
<1> QED BY <1>0, <1>1, <1>2, <1>3 DEF LegTypes, Over

(* The B leg stops otherwise.                                              *)
LEMMA BStops ==
  ASSUME LegTypes, Ends, first \in Parties \cup {"Undefined"},
         NEW st \in Statuses, leg' = Stopped("B", st), st \in {leg["B"].status, "Disconnected"},
         first' \in {first, Blamed(first, "TS"), Blamed(first, "DST")},
         \/ q' = q
         \/ q["B"] # << >> /\ q' = Popped("B")
         \/ /\ leg["B"].status = "Ringing" \/ first' # "Undefined"
            /\ q' = Relayed(q, "B", [t |-> "bye"])
         \/ first' # "Undefined" /\ q' = Relayed(q, "B", [t |-> "exception"])
  PROVE  LegTypes' /\ Ends' /\ ~Over'
<1>0. "B" \in Legs
  BY LegsAre
<1>1. /\ leg' \in LegSet /\ leg'["B"].alive = "stopped" /\ leg'["B"].status = st
      /\ leg'["A"] = leg["A"]
  BY <1>0, StoppedIs, LegsAre
<1>2. /\ q' \in QueueSet /\ Left(q["B"], q'["B"])
      /\ \/ Sent(q["A"], q'["A"], {"err"})
         \/ first' # "Undefined" /\ Sent(q["A"], q'["A"], {"bye", "terminate", "exception", "err", "teardown"})
         \/ leg["B"].status = "Ringing" /\ Sent(q["A"], q'["A"], {"bye"})
  <2>1. CASE q' = q
    BY <2>1 DEF LegTypes, Left, Sent
  <2>2. CASE q["B"] # << >> /\ q' = Popped("B")
    BY <1>0, <2>2, PoppedIs, LegsAre DEF Left, Sent
  <2>3. CASE /\ leg["B"].status = "Ringing" \/ first' # "Undefined"
             /\ q' = Relayed(q, "B", [t |-> "bye"])
    <3>1. q' \in QueueSet /\ q'["B"] = q["B"] /\ Sent(q["A"], q'["A"], {"bye"})
      BY <1>0, <2>3, RelayedIs, EventKinds, LegsAre DEF LegTypes
    <3> QED BY <2>3, <3>1 DEF Left, Sent
  <2>4. CASE first' # "Undefined" /\ q' = Relayed(q, "B", [t |-> "exception"])
    <3>1. q' \in QueueSet /\ q'["B"] = q["B"] /\ Sent(q["A"], q'["A"], {"exception"})
      BY <1>0, <2>4, RelayedIs, EventKinds, LegsAre DEF LegTypes
    <3> QED BY <2>4, <3>1 DEF Left, Sent
  <2> QED BY <2>1, <2>2, <2>3, <2>4
<1>3. Ends'
  BY <1>1, <1>2, BEnds
<1> QED BY <1>0, <1>1, <1>2, <1>3 DEF LegTypes, Over

(* What the event at the head of the A leg's queue says.                   *)
LEMMA HeadOfA ==
  ASSUME CallInv, q["A"] # << >>
  PROVE  /\ Head(q["A"]).t \in {"terminate", "exception"} => first # "Undefined"
         /\ Head(q["A"]).t = "bye" /\ leg["A"].status = "Connected" => first # "Undefined"
         /\ Head(q["A"]).t = "err" => Head(q["A"]).reply \in Failures
         /\ first = "ORG" => leg["A"].status = "Disconnected"
<1>1. Head(q["A"]) = q["A"][1] /\ 1 \in 1..Len(q["A"]) /\ Head(q["A"]) \in Events
  BY CallParts, Taken
<1>2. first = "Undefined" => Unended(q["A"], leg["A"].status)
  BY CallParts DEF Ends, EndsOf
<1>3. Head(q["A"]).t = "err" => Head(q["A"]).reply \in Failures
  BY <1>1 DEF Events
<1>4. first = "ORG" => leg["A"].status = "Disconnected"
  BY CallParts DEF Ends, EndsOf
<1> QED BY <1>1, <1>2, <1>3, <1>4 DEF Unended

(* The world after reasons were recorded: p ends the call, then both legs' *)
(* reasons.                                                                *)
LEMMA WorldReasons ==
  ASSUME NEW x, NEW f, NEW a, World(x, f, a), NEW p \in Parties, NEW c \in Nat, NEW d \in Nat, NEW e \in Nat
  PROVE  /\ World(Bleg(Internal(x, p, c), d), Blamed(f, p), a)
         /\ World(Aleg(Internal(x, p, c), d), Blamed(f, p), a)
         /\ World(Bleg(Aleg(Internal(x, p, c), d), e), Blamed(f, p), a)
<1> DEFINE y == Internal(x, p, c)
           g == Blamed(f, p)
<1>1. World(y, g, a) /\ [code |-> 0, local |-> FALSE, sdp |-> FALSE] \in Replies
  BY WorldEnded DEF Replies
<1> HIDE DEF y, g
<1>2. World(Bleg(y, d), g, a) /\ World(Aleg(y, d), g, a)
  BY <1>1, WorldKept
<1>3. World(Bleg(Aleg(y, d), e), g, a)
  BY <1>1, <1>2, WorldKept
<1> QED BY <1>2, <1>3 DEF y, g

(* Ending an ended call again.                                             *)
LEMMA BlamedOnce ==
  ASSUME NEW f, NEW p \in Parties, NEW r
  PROVE  Blamed(Blamed(f, p), r) = Blamed(f, p) /\ Blamed(f, p) # "Undefined"
  BY DEF Blamed

(* b2bInitialErr.                                                          *)
LEMMA StepErr ==
  ASSUME CallInv, B2bInitialErr PROVE CallInv'
<1>0. /\ q["A"] # << >> /\ Head(q["A"]).t = "err" /\ leg["A"].alive \in {"run", "stopped"}
      /\ q' = Popped("A") /\ answered' = answered
  BY DEF B2bInitialErr, Received, Alive
<1>1. PICK reply \in Failures : reply = Head(q["A"]).reply
  BY <1>0, HeadOfA
<1>2. reply \in Replies /\ reply.code \in Nat
  BY RepliesAre DEF Replies
<1> DEFINE p == IF reply.local THEN "TS" ELSE "DST"
           x == WithCdr(w, LAMBDA cdr : WithSipReply(cdr, reply))
           r == Internal(Bleg(x, reply.code), p, reply.code)
<1>3. CASE leg' = leg /\ w' = w /\ first' = first
  <2>1. LegTypes' /\ Ends' /\ ~Over'
    BY <1>0, <1>3, CallParts, AGoesOn
  <2> QED BY <1>0, <1>3, <2>1 DEF CallInv, WorldInv, GoneIsWritten
<1>4. CASE /\ w' = Disconnected(Aleg(r, reply.code), "A", CauseOf(reply))
           /\ leg' = Stopped("A", "Disconnected") /\ EndedBy(p)
  <2>0. p \in Parties
    OBVIOUS
  <2>1. first' = Blamed(first, p) /\ first' # "Undefined"
    BY <1>4, <2>0, CallParts, EndedByIs, BlamedOnce
  <2>2. LegTypes' /\ Ends' /\ ~Over'
    BY <1>0, <1>4, <2>1, CallParts, AStops
  <2> HIDE DEF p
  <2>3. World(x, first, answered)
    BY <1>2, CallParts, WorldKept
  <2> HIDE DEF x
  <2>4. World(Bleg(x, reply.code), first, answered)
    BY <1>2, <2>3, WorldKept
  <2>5. World(r, Blamed(first, p), answered)
    BY <1>2, <2>0, <2>4, WorldEnded
  <2> HIDE DEF r
  <2>6. World(Aleg(r, reply.code), Blamed(first, p), answered)
    BY <1>2, <2>5, WorldKept
  <2>7. World(Disconnected(Aleg(r, reply.code), "A", CauseOf(reply)), Blamed(first, p), answered)
    BY <2>0, <2>6, WorldDisconnected, BlamedOnce
  <2> QED BY <1>0, <1>4, <2>1, <2>2, <2>7 DEF CallInv, WorldInv, GoneIsWritten
<1> QED BY <1>1, <1>3, <1>4 DEF B2bInitialErr


(* CANCEL.                                                                 *)
LEMMA StepCancel ==
  ASSUME CallInv, OnCancel PROVE CallInv'
<1>1. first' = Blamed(first, "ORG") /\ answered' = answered
  BY CallParts, EndedByIs DEF OnCancel
<1>2. LegTypes' /\ Ends' /\ ~Over'
  BY <1>1, CallParts, AStopsCall DEF OnCancel, StopCall
<1>3. PICK x : x = Internal(w, "ORG", 487)
  OBVIOUS
<1>4. World(x, Blamed(first, "ORG"), answered)
  BY <1>3, CallParts, WorldEnded
<1>5. World(Disconnected(x, "A", "Canceled"), Blamed(first, "ORG"), answered)
  BY <1>4, UncodedEnds DEF Coded
<1>6. w' \in {x, Disconnected(x, "A", "Canceled")}
  BY <1>3 DEF OnCancel, StopCall
<1> QED BY <1>1, <1>2, <1>4, <1>5, <1>6 DEF CallInv, WorldInv, GoneIsWritten

(* The switch ends the call: timers, RTP timeout, an operator's command,   *)
(* nobody at the other end.                                                *)
LEMMA SwitchStops ==
  ASSUME CallInv, NEW l \in Legs, leg' = Stopped(l, "Disconnected"),
         \/ q' = Relayed(q, l, [t |-> "terminate"])
         \/ l = "A" /\ q["A"] # << >> /\ q' = Relayed(Popped("A"), "A", [t |-> "terminate"]),
         EndedBy("TS"), answered' = answered, NEW x, World(x, Blamed(first, "TS"), answered), NEW cause,
         w' \in {x, Disconnected(x, l, cause)}
  PROVE  CallInv'
<1>1. first' = Blamed(first, "TS")
  BY CallParts, EndedByIs
<1>2. LegTypes' /\ Ends' /\ ~Over'
  <2>1. CASE l = "A"
    BY <1>1, <2>1, CallParts, AStopsCall
  <2>2. CASE l = "B"
    BY <1>1, <2>2, CallParts, BStopsCall
  <2> QED BY <2>1, <2>2, LegsAre
<1>3. World(Disconnected(x, l, cause), Blamed(first, "TS"), answered)
  BY WorldDisconnected, BlamedOnce
<1> QED BY <1>1, <1>2, <1>3 DEF CallInv, WorldInv, GoneIsWritten

(* The call's duration timer, an operator's command.                       *)
LEMMA StepTimer ==
  ASSUME CallInv, OnDurationTimer \/ OnTearDown PROVE CallInv'
<1>1. PICK x : x = Bleg(Aleg(Internal(w, "TS", 200), 200), 200)
  OBVIOUS
<1>2. World(x, Blamed(first, "TS"), answered)
  BY <1>1, CallParts, WorldReasons
<1>3. /\ leg' = Stopped("A", "Disconnected")
      /\ \/ q' = Relayed(q, "A", [t |-> "terminate"])
         \/ q["A"] # << >> /\ q' = Relayed(Popped("A"), "A", [t |-> "terminate"])
      /\ EndedBy("TS") /\ answered' = answered /\ w' \in {x, Disconnected(x, "A", "Other")}
  BY <1>1 DEF OnDurationTimer, OnTearDown, StopCall, Received
<1>4. "A" \in Legs
  BY LegsAre
<1> QED BY <1>2, <1>3, <1>4, SwitchStops

(* An operator's command to the B leg.                                     *)
LEMMA StepBLegTearDown ==
  ASSUME CallInv, OnBLegTearDown PROVE CallInv'
<1>1. /\ leg' = leg /\ q' = Relayed(q, "B", [t |-> "teardown"]) /\ EndedBy("TS")
      /\ answered' = answered /\ w' = Bleg(Aleg(Internal(w, "TS", 200), 200), 200)
      /\ leg["B"].alive = "run"
  BY DEF OnBLegTearDown, Running
<1>2. first' = Blamed(first, "TS") /\ first' # "Undefined"
  BY <1>1, CallParts, EndedByIs, BlamedOnce
<1>3. q' \in QueueSet /\ q'["B"] = q["B"] /\ Sent(q["A"], q'["A"], {"teardown"})
  BY <1>1, CallParts, RelayedIs, EventKinds, LegsAre DEF LegTypes
<1>4. Sent(q["A"], q'["A"], {"bye", "terminate", "exception", "err", "teardown"})
  BY <1>3 DEF Sent
<1>5. Left(q["B"], q'["B"])
  BY <1>3 DEF Left
<1>6. Ends'
  BY <1>1, <1>2, <1>4, <1>5, CallParts, BEnds
<1>7. LegTypes' /\ ~Over'
  BY <1>1, <1>3, CallParts DEF LegTypes, Over
<1>8. World(w', Blamed(first, "TS"), answered)
  BY <1>1, CallParts, WorldReasons
<1> QED BY <1>1, <1>2, <1>6, <1>7, <1>8 DEF CallInv, WorldInv, GoneIsWritten

(* onRtpTimeoutOverride.                                                   *)
LEMMA StepRtpTimeout ==
  ASSUME CallInv, NEW l \in Legs, OnRtpTimeout(l) PROVE CallInv'
<1>1. PICK x : x = Bleg(Aleg(Internal(w, "TS", 200), 200), 200)
  OBVIOUS
<1>2. World(x, Blamed(first, "TS"), answered)
  BY <1>1, CallParts, WorldReasons
<1>3. /\ leg' = Stopped(l, "Disconnected") /\ q' = Relayed(q, l, [t |-> "terminate"])
      /\ EndedBy("TS") /\ answered' = answered /\ w' \in {x, Disconnected(x, l, "RtpTimeout")}
  BY <1>1 DEF OnRtpTimeout, StopCall
<1> QED BY <1>2, <1>3, SwitchStops

(* onRemoteDisappeared.                                                    *)
LEMMA StepDisappeared ==
  ASSUME CallInv, NEW l \in Legs, OnRemoteDisappeared(l) PROVE CallInv'
<1>1. PICK y : y = IF l = "A" THEN Internal(w, "TS", 408) ELSE w
  OBVIOUS
<1>2. PICK x : x = Bleg(Internal(y, "TS", 200), 200)
  OBVIOUS
<1>3. World(x, Blamed(first, "TS"), answered)
  <2>1. World(y, Blamed(first, "TS"), answered) \/ World(y, first, answered)
    <3>1. World(w, first, answered) /\ "TS" \in Parties /\ 408 \in Nat
      BY CallParts
    <3>2. World(Internal(w, "TS", 408), Blamed(first, "TS"), answered)
      BY ONLY <3>1, WorldEnded
    <3> QED BY <1>1, <3>1, <3>2
  <2> QED BY <1>2, <2>1, WorldReasons, BlamedOnce
<1>4. /\ leg' = Stopped(l, "Disconnected") /\ q' = Relayed(q, l, [t |-> "terminate"])
      /\ EndedBy("TS") /\ answered' = answered /\ w' \in {x, Disconnected(x, l, "SipReply")}
  BY <1>1, <1>2 DEF OnRemoteDisappeared, StopCall
<1> QED BY <1>3, <1>4, SwitchStops

(* onNoAck, onNoPrack, onSessionTimeout.                                   *)
LEMMA StepDialogTimeout ==
  ASSUME CallInv, NEW l \in Legs, NEW cause \in Coded, OnDialogTimeout(l, cause) PROVE CallInv'
<1>1. PICK x : x = Disconnected(w, l, cause)
  OBVIOUS
<1>2. World(x, Blamed(first, "TS"), answered)
  BY <1>1, CallParts, CodedEnds
<1>3. /\ leg' = Stopped(l, "Disconnected") /\ q' = Relayed(q, l, [t |-> "terminate"])
      /\ EndedBy("TS") /\ answered' = answered /\ w' = x
  BY <1>1 DEF OnDialogTimeout, StopCall
<1> QED BY <1>2, <1>3, SwitchStops

(* A BYE before the answer.                                                *)
LEMMA StepEarlyBye ==
  ASSUME CallInv, NEW l \in Legs, OnEarlyBye(l) PROVE CallInv'
<1>0. answered' = answered /\ q' = Relayed(q, l, [t |-> "bye"]) /\ leg[l].status = "Ringing"
  BY DEF OnEarlyBye, Status
<1>1. CASE l = "A"
  <2>1. /\ leg' = Stopped("A", "Disconnected") /\ EndedBy("ORG")
        /\ w' = Disconnected(Bleg(Aleg(Internal(w, "ORG", 500), 200), 487), "A", "SipRequest")
    BY <1>1 DEF OnEarlyBye
  <2>2. first' = Blamed(first, "ORG") /\ first' # "Undefined"
    BY <2>1, CallParts, EndedByIs, BlamedOnce
  <2>3. LegTypes' /\ Ends' /\ ~Over'
    BY <1>0, <1>1, <2>1, <2>2, CallParts, AStops
  <2>4. World(Bleg(Aleg(Internal(w, "ORG", 500), 200), 487), Blamed(first, "ORG"), answered)
    BY CallParts, WorldReasons
  <2>5. World(w', Blamed(first, "ORG"), answered)
    BY <2>1, <2>4, UncodedEnds DEF Coded
  <2> QED BY <1>0, <2>2, <2>3, <2>5 DEF CallInv, WorldInv, GoneIsWritten
<1>2. CASE l = "B"
  <2>1. leg' = Stopped("B", leg["B"].status) /\ first' = first /\ w' = Bleg(w, 200)
    BY <1>2 DEF OnEarlyBye, Status
  <2>2. PICK st \in Statuses : st = leg["B"].status
    BY CallParts, Zenon
  <2>3. LegTypes' /\ Ends' /\ ~Over'
    BY <1>0, <1>2, <2>1, <2>2, CallParts, BStops
  <2>4. World(Bleg(w, 200), first, answered)
    <3>1. World(w, first, answered) /\ 200 \in Nat /\ Success \in Replies
      BY CallParts, RepliesAre
    <3> QED BY ONLY <3>1, WorldKept
  <2> QED BY <1>0, <2>1, <2>3, <2>4 DEF CallInv, WorldInv, GoneIsWritten
<1> QED BY <1>1, <1>2, LegsAre

(* A BYE.                                                                  *)
LEMMA StepBye ==
  ASSUME CallInv, NEW l \in Legs, OnBye(l) PROVE CallInv'
<1> DEFINE p == IF l = "A" THEN "ORG" ELSE "DST"
<1>0. /\ answered' = answered /\ q' = Relayed(q, l, [t |-> "bye"]) /\ p \in Parties
      /\ leg' = Stopped(l, "Disconnected") /\ EndedBy(p)
      /\ w' = Disconnected(Bleg(Internal(w, p, 200), 200), l, "SipRequest")
  BY DEF OnBye
<1>1. first' = Blamed(first, p) /\ first' # "Undefined"
  BY <1>0, CallParts, EndedByIs, BlamedOnce
<1>2. LegTypes' /\ Ends' /\ ~Over'
  <2>1. CASE l = "A"
    BY <1>0, <1>1, <2>1, CallParts, AStops
  <2>2. CASE l = "B"
    BY <1>0, <1>1, <2>2, CallParts, BStops
  <2> QED BY <2>1, <2>2, LegsAre
<1> HIDE DEF p
<1>3. World(Bleg(Internal(w, p, 200), 200), Blamed(first, p), answered)
  <2>1. p \in Parties /\ World(w, first, answered) /\ 200 \in Nat
    BY <1>0, CallParts
  <2> QED BY ONLY <2>1, WorldReasons
<1>4. World(w', Blamed(first, p), answered)
  BY <1>0, <1>3, UncodedEnds DEF Coded
<1> QED BY <1>0, <1>1, <1>2, <1>4 DEF CallInv, WorldInv, GoneIsWritten

(* onOtherBye.                                                             *)
LEMMA StepOtherBye ==
  ASSUME CallInv, NEW l \in Legs, OnOtherBye(l) PROVE CallInv'
<1>0. /\ answered' = answered /\ q[l] # << >> /\ Head(q[l]).t = "bye" /\ q' = Popped(l)
      /\ leg' = Stopped(l, "Disconnected")
  BY DEF OnOtherBye, Received
<1>1. CASE l = "A" /\ leg["A"].status # "Connected"
  <2>1. /\ EndedBy("DST")
        /\ w' = Disconnected(WriteCdr(Aleg(Internal(w, "DST", 500), 487)), "A", "SipRequest")
    BY <1>1 DEF OnOtherBye, Status
  <2>2. first' = Blamed(first, "DST") /\ first' # "Undefined"
    BY <2>1, CallParts, EndedByIs, BlamedOnce
  <2>3. LegTypes' /\ Ends' /\ ~Over'
    BY <1>0, <1>1, <2>2, CallParts, AStops
  <2>4. World(Aleg(Internal(w, "DST", 500), 487), Blamed(first, "DST"), answered)
    BY CallParts, WorldReasons
  <2>5. World(WriteCdr(Aleg(Internal(w, "DST", 500), 487)), Blamed(first, "DST"), answered)
    BY <2>2, <2>4, WorldWritten
  <2>6. World(w', Blamed(first, "DST"), answered)
    BY <2>1, <2>5, UncodedEnds DEF Coded
  <2> QED BY <1>0, <2>2, <2>3, <2>6 DEF CallInv, WorldInv, GoneIsWritten
<1>2. CASE ~(l = "A" /\ leg["A"].status # "Connected")
  <2>1. first' = first /\ w' = Disconnected(w, l, "SipRequest")
    BY <1>2 DEF OnOtherBye, Status
  <2>2. LegTypes' /\ Ends' /\ ~Over'
    <3>1. CASE l = "A"
      <4>1. first' # "Undefined"
        BY <1>0, <1>2, <2>1, <3>1, HeadOfA
      <4> QED BY <1>0, <3>1, <4>1, CallParts, AStops
    <3>2. CASE l = "B"
      BY <1>0, <2>1, <3>2, CallParts, BStops
    <3> QED BY <3>1, <3>2, LegsAre
  <2>3. World(w', first, answered)
    BY <2>1, CallParts, UncodedEnds DEF Coded
  <2> QED BY <1>0, <2>1, <2>2, <2>3 DEF CallInv, WorldInv, GoneIsWritten
<1> QED BY <1>1, <1>2


(* What the dialog of a leg tells of an exception.                         *)
LEMMA WorldTold ==
  ASSUME NEW x, NEW f, NEW a, World(x, f, a), NEW l
  PROVE  World(Told(x, l), f, a)
<1>1. PICK code \in Nat :
        code = (CASE Status(l) = "Connected" -> 200 [] Status(l) = "Ringing" -> 487 [] OTHER -> 0)
  OBVIOUS
<1>2. Told(x, l) \in {x, Aleg(x, code), Bleg(x, code)}
  BY <1>1 DEF Told
<1> QED BY <1>2, WorldKept, RepliesAre

(* B2BTerminateLeg, onOtherException: after the end of the call.           *)
LEMMA StepTerminate ==
  ASSUME CallInv, NEW l \in Legs, OnTerminateLeg(l) \/ OnOtherException(l) PROVE CallInv'
<1>0. /\ answered' = answered /\ first' = first /\ q[l] # << >> /\ q' = Popped(l)
      /\ Head(q[l]).t \in {"terminate", "exception"} /\ leg' = Stopped(l, leg[l].status)
      /\ w' \in {w, Told(w, l)}
  BY DEF OnTerminateLeg, OnOtherException, Received, Status
<1>1. PICK st \in Statuses : st = leg[l].status
  BY CallParts, LegsAre
<1>2. LegTypes' /\ Ends' /\ ~Over'
  <2>1. CASE l = "A"
    <3>1. first' # "Undefined" /\ (first' = "ORG" => st = "Disconnected")
      BY <1>0, <1>1, <2>1, HeadOfA
    <3> QED BY <1>0, <1>1, <2>1, <3>1, CallParts, AStops
  <2>2. CASE l = "B"
    BY <1>0, <1>1, <2>2, CallParts, BStops
  <2> QED BY <2>1, <2>2, LegsAre
<1>3. World(w', first, answered)
  BY <1>0, CallParts, WorldTold
<1> QED BY <1>0, <1>2, <1>3 DEF CallInv, WorldInv, GoneIsWritten

(* onException, onFailure.                                                 *)
LEMMA StepException ==
  ASSUME CallInv, NEW l \in Legs, OnException(l) PROVE CallInv'
<1>0. /\ answered' = answered /\ q' = Relayed(q, l, [t |-> "exception"])
      /\ leg' = Stopped(l, leg[l].status) /\ EndedBy("TS")
      /\ w' \in {Internal(w, "TS", 500), Told(Internal(w, "TS", 500), l)}
  BY DEF OnException, Status
<1>1. PICK st \in Statuses : st = leg[l].status
  BY CallParts, LegsAre
<1>2. first' = Blamed(first, "TS") /\ first' # "Undefined"
  BY <1>0, CallParts, EndedByIs, BlamedOnce
<1>3. LegTypes' /\ Ends' /\ ~Over'
  <2>1. CASE l = "A"
    <3>1. first' = "ORG" => st = "Disconnected"
      BY <1>1, <1>2, <2>1, CallParts DEF Ends, EndsOf, Blamed
    <3> QED BY <1>0, <1>1, <1>2, <2>1, <3>1, CallParts, AStops
  <2>2. CASE l = "B"
    BY <1>0, <1>1, <1>2, <2>2, CallParts, BStops
  <2> QED BY <2>1, <2>2, LegsAre
<1>4. World(w', Blamed(first, "TS"), answered)
  <2>1. PICK x : x = Internal(w, "TS", 500)
    OBVIOUS
  <2>2. World(x, Blamed(first, "TS"), answered)
    BY <2>1, CallParts, WorldEnded
  <2>3. World(Told(x, l), Blamed(first, "TS"), answered)
    BY <2>2, WorldTold
  <2> QED BY <1>0, <2>1, <2>2, <2>3
<1> QED BY <1>0, <1>2, <1>3, <1>4 DEF CallInv, WorldInv, GoneIsWritten

(* onServerShutdown.                                                       *)
LEMMA StepShutdown ==
  ASSUME CallInv, NEW l \in Legs, OnServerShutdown(l) PROVE CallInv'
<1>0. /\ answered' = answered /\ q' = q /\ leg' = Stopped(l, leg[l].status) /\ EndedBy("TS")
      /\ w' = Internal(w, "TS", 200)
  BY DEF OnServerShutdown, Status
<1>1. PICK st \in Statuses : st = leg[l].status
  BY CallParts, LegsAre
<1>2. first' = Blamed(first, "TS") /\ first' # "Undefined"
  BY <1>0, CallParts, EndedByIs, BlamedOnce
<1>3. LegTypes' /\ Ends' /\ ~Over'
  <2>1. CASE l = "A"
    <3>1. first' = "ORG" => st = "Disconnected"
      BY <1>1, <1>2, <2>1, CallParts DEF Ends, EndsOf, Blamed
    <3> QED BY <1>0, <1>1, <1>2, <2>1, <3>1, CallParts, AStops
  <2>2. CASE l = "B"
    BY <1>0, <1>1, <1>2, <2>2, CallParts, BStops
  <2> QED BY <2>1, <2>2, LegsAre
<1>4. World(w', Blamed(first, "TS"), answered)
  BY <1>0, CallParts, WorldEnded
<1> QED BY <1>0, <1>2, <1>3, <1>4 DEF CallInv, WorldInv, GoneIsWritten

(* A leg that has stopped goes on to its end.                              *)
LEMMA LegFinishes ==
  ASSUME CallInv, NEW l \in Legs, NEW al \in {"final", "gone"},
         leg[l].alive # "run", leg' = [leg EXCEPT ![l].alive = al], q' = q, first' = first
  PROVE  LegTypes' /\ Ends' /\ leg'[l].alive = al /\ leg'[Peer(l)] = leg[Peer(l)]
<1>1. /\ leg' \in LegSet /\ leg'[l].alive = al /\ leg'[l].status = leg[l].status
      /\ leg'[Peer(l)] = leg[Peer(l)]
  BY CallParts DEF LegTypes, LegSet, Peer, Legs
<1>2. Ends'
  <2>1. CASE l = "A"
    BY <1>1, <2>1, CallParts, LegsAre DEF Ends, EndsOf
  <2>2. CASE l = "B"
    BY <1>1, <2>2, CallParts, LegsAre DEF Ends, EndsOf
  <2> QED BY <2>1, <2>2, LegsAre
<1> QED BY <1>1, <1>2, CallParts DEF LegTypes

(* finalize.                                                               *)
LEMMA StepFinalize ==
  ASSUME CallInv, NEW l \in Legs, Finalize(l) PROVE CallInv'
<1>1. /\ leg[l].alive # "run" /\ leg' = [leg EXCEPT ![l].alive = "final"]
      /\ q' = q /\ first' = first /\ w' = w /\ answered' = answered
  BY DEF Finalize
<1>2. LegTypes' /\ Ends' /\ leg'[l].alive = "final"
  BY <1>1, LegFinishes
<1> QED BY <1>1, <1>2 DEF CallInv, WorldInv, GoneIsWritten, Over

(* onBeforeDestroy: the last leg writes the CDR of a call that has ended.  *)
LEMMA StepDestroy ==
  ASSUME CallInv, NEW l \in Legs, OnBeforeDestroy(l) PROVE CallInv'
<1>1. /\ leg[l].alive = "final" /\ leg' = [leg EXCEPT ![l].alive = "gone"]
      /\ q' = q /\ first' = first /\ answered' = answered
  BY DEF OnBeforeDestroy
<1>2. LegTypes' /\ Ends' /\ leg'[l].alive = "gone" /\ leg'[Peer(l)] = leg[Peer(l)]
  BY <1>1, LegFinishes
<1>3. PICK x : x = IF l = "A" THEN [w EXCEPT !.http = H!Cleanup(w.http)] ELSE w
  OBVIOUS
<1>4. w' = IF leg[Peer(l)].alive = "gone" THEN WriteCdr(x) ELSE x
  BY <1>3 DEF OnBeforeDestroy
<1>5. World(x, first, answered)
  <2>1. w.http \in HttpSet /\ Sequenced(w.http)
    BY CallParts DEF World, Worlds
  <2>2. World([w EXCEPT !.http = H!Cleanup(w.http)], first, answered)
    BY <2>1, CallParts, HooksSequenced, WorldHttp
  <2> QED BY <1>3, <2>2, CallParts
<1>6. CASE leg[Peer(l)].alive = "gone"
  <2>1. first # "Undefined"
    BY <1>1, <1>6, CallParts, LegsAre DEF Ends, EndsOf
  <2>2. World(WriteCdr(x), first, answered) /\ WriteCdr(x).cdr = NoCdr
    BY <1>5, <2>1, WorldWritten
  <2> QED BY <1>1, <1>2, <1>4, <1>6, <2>2 DEF CallInv, WorldInv, GoneIsWritten
<1>7. CASE leg[Peer(l)].alive # "gone"
  <2>1. ~Over'
    BY <1>2, <1>7, LegsAre DEF Over
  <2> QED BY <1>1, <1>2, <1>4, <1>5, <1>7, <2>1 DEF CallInv, WorldInv, GoneIsWritten
<1> QED BY <1>6, <1>7

(* The http client.                                                        *)
LEMMA StepHttp ==
  ASSUME CallInv, HttpReply \/ HttpClientGone PROVE CallInv'
<1>1. /\ leg' = leg /\ q' = q /\ first' = first /\ answered' = answered
  BY DEF HttpReply, HttpClientGone
<1>2. PICK h \in HttpSet : h = w.http /\ Sequenced(h)
  BY CallParts DEF World, Worlds
<1>3. PICK g \in HttpSet : w' = [w EXCEPT !.http = g] /\ Sequenced(g)
  <2>1. CASE HttpReply
    <3>1. h.await /\ w' = [w EXCEPT !.http = H!ProcessHttpReply(h)]
      BY <1>2, <2>1 DEF HttpReply
    <3> QED BY <1>2, <3>1, ReplySequenced
  <2>2. CASE HttpClientGone
    <3>1. w' = [w EXCEPT !.http = [h EXCEPT !.up = FALSE]]
      BY <1>2, <2>2 DEF HttpClientGone
    <3> QED BY <1>2, <3>1, HooksSequenced
  <2> QED BY <2>1, <2>2
<1>4. World(w', first, answered) /\ w'.cdr = w.cdr
  BY <1>3, CallParts, WorldHttp
<1>5. LegTypes' /\ Ends' /\ (Over' <=> Over)
  BY <1>1, CallParts DEF LegTypes, Ends, Over
<1> QED BY <1>1, <1>4, <1>5 DEF CallInv, WorldInv, GoneIsWritten

(* Steps that leave the call alone.                                        *)
LEMMA StepOther ==
  ASSUME CallInv, OnRingingTimeout \/ SnapSwap \/ SnapPost \/ Terminated \/ UNCHANGED vars
  PROVE  CallInv'
<1>1. w' = w /\ leg' = leg /\ q' = q /\ first' = first /\ answered' = answered
  BY DEF OnRingingTimeout, SnapSwap, SnapPost, Terminated, vars
<1> QED BY <1>1 DEF CallInv, LegTypes, Ends, WorldInv, GoneIsWritten, Over


-----------------------------------------------------------------------------
(* The theorems.                                                           *)

(* A new call.                                                             *)
LEMMA CallStarts == Init => CallInv
<1> SUFFICES ASSUME Init PROVE CallInv
  OBVIOUS
<1>1. PICK up \in BOOLEAN : w = [cdr |-> NewCdr, rows |-> << >>, http |-> HttpCallStartedHook(up)]
  BY DEF Init
<1>2. PICK h \in HttpSet : h = HttpCallStartedHook(up) /\ Sequenced(h)
  BY StartSequenced
<1>3. PICK c \in CdrSet : c = NewCdr /\ Recorded(c, "Undefined", FALSE) /\ c # NoCdr
  <2>1. NewCdr \in CdrSet
    BY DEF CdrSet, NewCdr
  <2>2. Recorded(NewCdr, "Undefined", FALSE)
    BY DEF Recorded, NewCdr
  <2>3. NewCdr # NoCdr
    BY <2>1, <2>2, NoCdrIsNone
  <2> QED BY <2>1, <2>2, <2>3, Zenon
<1>4. PICK rows \in Seq(RowSet) : rows = << >>
  <2>1. << >> \in Seq(RowSet)
    OBVIOUS
  <2> QED BY <2>1, Zenon
<1>5. w \in Worlds /\ w.cdr = c /\ w.rows = << >> /\ w.http = h
  BY <1>1, <1>2, <1>3, <1>4 DEF Worlds
<1>6. World(w, "Undefined", FALSE)
  BY <1>2, <1>3, <1>5 DEF World
<1>7. first = "Undefined" /\ answered = FALSE
  BY DEF Init
<1>8. /\ leg \in LegSet /\ leg["A"].alive = "run" /\ leg["A"].status = "NoReply"
      /\ leg["B"].status = "Disconnected"
  BY DEF Init, LegSet, Legs, Statuses
<1>9. /\ q \in QueueSet /\ q["A"] = << >> /\ Len(q["B"]) = 1
  <2>1. PICK e \in Events : e = [t |-> "connect"]
    BY DEF Events
  <2>2. << >> \in Seq(Events) /\ <<e>> \in Seq(Events) /\ Len(<<e>>) = 1
    OBVIOUS
  <2>3. PICK s \in Seq(Events), u \in Seq(Events) : s = <<e>> /\ Len(s) = 1 /\ u = << >>
    BY <2>2, Zenon
  <2>4. q = [A |-> u, B |-> s]
    BY <2>1, <2>3 DEF Init
  <2>5. q["A"] = u /\ q["B"] = s /\ DOMAIN q = Legs /\ q = [l \in DOMAIN q |-> q[l]]
    BY <2>4 DEF Legs
  <2> QED BY <2>3, <2>5 DEF QueueSet, Legs
<1>10. Ends
  BY <1>7, <1>8, <1>9 DEF Ends, EndsOf, Unended, Without
<1>11. ~Over
  BY <1>8, LegsAre DEF Over
<1> QED BY <1>6, <1>7, <1>8, <1>9, <1>10, <1>11 DEF CallInv, LegTypes, WorldInv, GoneIsWritten

(* Every step.                                                             *)
LEMMA CallGoesOn == CallInv /\ [Next]_vars => CallInv'
<1> SUFFICES ASSUME CallInv, [Next]_vars PROVE CallInv'
  OBVIOUS
<1>1. CASE Reply
  BY <1>1, Step1xx, Step2xx, StepErr DEF Reply
<1>2. ASSUME NEW l \in Legs, LegEvent(l) PROVE CallInv'
  BY <1>2, StepOtherBye, StepTerminate DEF LegEvent
<1>3. ASSUME NEW l \in Legs, Ended(l) PROVE CallInv'
  BY <1>3, StepEarlyBye, StepBye, StepRtpTimeout, StepDisappeared, StepDialogTimeout,
     StepException, StepShutdown DEF Ended
<1>4. ASSUME NEW l \in Legs, Finalize(l) \/ OnBeforeDestroy(l) PROVE CallInv'
  BY <1>4, StepFinalize, StepDestroy
<1> QED BY <1>1, <1>2, <1>3, <1>4, StepConnect, StepReply, StepCancel, StepTimer,
        StepBLegTearDown, StepHttp, StepOther
        DEF Next

(* The invariant of a call.                                                *)
LEMMA CallAlways == Spec => []CallInv
  BY CallStarts, CallGoesOn, PTL DEF Spec

(* A call leaves one row, with an end after the answer and somebody who    *)
(* ended it (onBeforeDestroy, onOtherBye, update_internal_reason): the     *)
(* record is written only after an event that ended the call, whichever    *)
(* events of the two legs crossed.                                         *)
THEOREM CallsAreBillable == Spec => []Billable
<1>1. CallInv => Billable
  <2> SUFFICES ASSUME CallInv PROVE Billable
    OBVIOUS
  <2>1. World(w, first, answered) /\ GoneIsWritten
    BY CallParts DEF CallInv
  <2>2. CASE w.cdr = NoCdr
    <3>1. Len(w.rows) = 1 /\ Written(w.rows[1], first, answered) /\ w.rows \in Seq(RowSet)
      BY <2>1, <2>2 DEF World, Worlds
    <3>2. DOMAIN w.rows = {1} /\ w.rows[1] \in RowSet
      BY <3>1
    <3>3. PICK r \in RowSet : r = w.rows[1] /\ Written(r, first, answered)
      BY <3>1, <3>2
    <3>4. /\ r.timers.connect # 0 => /\ r.timers.start < r.timers.connect
                                     /\ r.timers.connect < r.timers.end /\ r.initiator # "Undefined"
          /\ answered /\ r.timers.connect = 0 =>
               r.initiator \in {"DST", "TS"} /\ r.timers.end > r.timers.start
      BY <3>3 DEF Written
    <3> QED BY <3>1, <3>2, <3>3, <3>4 DEF Billable
  <2>3. CASE w.cdr # NoCdr
    <3>1. w.rows = << >> /\ ~Over
      BY <2>1, <2>3 DEF World, GoneIsWritten
    <3> QED BY <3>1 DEF Billable
  <2> QED BY <2>2, <2>3
<1> QED BY <1>1, CallAlways, PTL

(* The row blames whoever ended the call first (update_internal_reason).   *)
THEOREM FirstIsBlamed == Spec => []BlamesFirst
<1>1. CallInv => BlamesFirst
  <2> SUFFICES ASSUME CallInv PROVE BlamesFirst
    OBVIOUS
  <2>1. World(w, first, answered)
    BY CallParts
  <2>2. CASE w.cdr = NoCdr
    <3>1. Len(w.rows) = 1 /\ w.rows[1].initiator = first /\ w.rows \in Seq(RowSet)
      BY <2>1, <2>2 DEF World, Worlds, Written
    <3>2. DOMAIN w.rows = {1}
      BY <3>1
    <3> QED BY <3>1, <3>2 DEF BlamesFirst
  <2>3. CASE w.cdr # NoCdr
    BY <2>1, <2>3 DEF World, BlamesFirst
  <2> QED BY <2>2, <2>3
<1> QED BY <1>1, CallAlways, PTL

(* HTTP events go out in order, each once and after the answer to the one  *)
(* before (processHook, processHttpReply).                                 *)
THEOREM HttpEventsInOrder == Spec => []EventsInOrder
<1>1. CallInv => EventsInOrder
  <2> SUFFICES ASSUME CallInv PROVE EventsInOrder
    OBVIOUS
  <2>1. PICK p \in Seq(Requests) :
          /\ p = w.http.posted
          /\ \/ p = << >> \/ Started(p) \/ StartedAnswered(p) \/ Connected(p)
             \/ ConnectedAnswered(p) \/ Dropped(p) \/ HungUp(p)
    BY CallParts DEF World, Worlds, HttpSet, Stages, Sequenced, Quiet
  <2>2. DOMAIN p = 1..Len(p)
    OBVIOUS
  <2>3. ASSUME NEW i \in 1..Len(p), p[i] # "answer"
        PROVE  /\ i > 1 => p[i - 1] = "answer"
               /\ \A j \in 1..Len(p) : p[j] # "answer" /\ j < i => Rank(p[j]) < Rank(p[i])
    <3>1. Rank("started") = 1 /\ Rank("connected") = 2 /\ Rank("disconnected") = 3
      BY DEF Rank
    <3>2. i \in {1, 3, 5}
      BY <2>1, <2>3 DEF Started, StartedAnswered, Connected, ConnectedAnswered, Dropped, HungUp
    <3>3. CASE i = 1
      BY <3>3
    <3>4. CASE i = 3
      BY <2>1, <2>3, <3>1, <3>4 DEF Started, StartedAnswered, Connected, ConnectedAnswered, Dropped, HungUp
    <3>5. CASE i = 5
      <4>1. HungUp(p)
        BY <2>1, <2>3, <3>5 DEF Started, StartedAnswered, Connected, ConnectedAnswered, Dropped
      <4>2. \A j \in 1..Len(p) : j < 5 => j \in {1, 2, 3, 4}
        BY <4>1 DEF HungUp
      <4> QED BY <2>3, <3>1, <3>5, <4>1, <4>2 DEF HungUp
    <3> QED BY <3>2, <3>3, <3>4, <3>5
  <2> QED BY <2>1, <2>2, <2>3 DEF EventsInOrder
<1> QED BY <1>1, CallAlways, PTL

(* A finished call's copy is in one place, and once posted in no later     *)
(* snapshot (onSessionFinalize, onTimer's swap).                           *)
THEOREM CallsAreReportedOnce == Spec => []ReportedOnce
<1>1. Init => SnapInv
  BY DEF Init, SnapInv
<1>2. CallInv /\ SnapInv /\ [Next]_vars => SnapInv'
  <2> SUFFICES ASSUME CallInv, SnapInv, [Next]_vars PROVE SnapInv'
    OBVIOUS
  <2>1. ASSUME NEW l \in Legs, Finalize(l) PROVE SnapInv'
    <3>1. leg[l].alive = "stopped" /\ leg' = [leg EXCEPT ![l].alive = "final"]
          /\ local' = local /\ snap' = snap /\ shown' = shown
      BY <2>1 DEF Finalize
    <3>2. CASE l = "A" /\ w.cdr # NoCdr /\ Buffering
      <4>1. leg'["A"].alive = "final"
        BY <3>1, <3>2, CallParts DEF LegTypes, LegSet
      <4>2. copied = 0
        BY <3>1, <3>2 DEF SnapInv
      <4>3. postponed' = postponed + 1 /\ copied' = copied + 1
        BY <2>1, <3>2 DEF Finalize, OnSessionFinalize
      <4>4. /\ postponed \in Nat /\ local \in Nat /\ shown \in Nat /\ postponed + local + shown = 0
            /\ snap \in {"idle", "swapped"} /\ (snap = "idle" => local = 0)
        BY <4>2 DEF SnapInv
      <4>5. local' = local /\ snap' = snap /\ shown' = shown
        BY <3>1
      <4> QED BY ONLY <4>1, <4>2, <4>3, <4>4, <4>5 DEF SnapInv
    <3>3. CASE ~(l = "A" /\ w.cdr # NoCdr /\ Buffering)
      <4>1. postponed' = postponed /\ copied' = copied
        BY <2>1, <3>3 DEF Finalize, OnSessionFinalize
      <4>2. leg["A"].alive \in {"final", "gone"} => leg'["A"].alive \in {"final", "gone"}
        BY <3>1, CallParts DEF LegTypes, LegSet, Legs
      <4> QED BY <3>1, <4>1, <4>2 DEF SnapInv
    <3> QED BY <3>2, <3>3
  <2>2. CASE SnapSwap
    <3>1. /\ snap = "idle" /\ snap' = "swapped" /\ leg' = leg /\ copied' = copied /\ shown' = shown
          /\ \/ local' = postponed /\ postponed' = local
             \/ local' = local /\ postponed' = postponed
      BY <2>2 DEF SnapSwap
    <3> QED BY <3>1 DEF SnapInv
  <2>3. CASE SnapPost
    <3>1. /\ snap = "swapped" /\ snap' = "idle" /\ leg' = leg /\ copied' = copied /\ postponed' = postponed
          /\ local' = 0 /\ shown' = shown + local
      BY <2>3 DEF SnapPost
    <3> QED BY <3>1 DEF SnapInv
  <2>4. ASSUME snapVars' = snapVars,
               leg["A"].alive \in {"final", "gone"} => leg'["A"].alive \in {"final", "gone"}
        PROVE  SnapInv'
    BY <2>4 DEF SnapInv, snapVars
  <2>5. ASSUME NEW l \in Legs, LegEvent(l) \/ Ended(l) \/ OnBeforeDestroy(l) PROVE SnapInv'
    <3>1. snapVars' = snapVars
      BY <2>5 DEF LegEvent, Ended, OnOtherBye, OnTerminateLeg, OnOtherException, OnEarlyBye, OnBye,
                  OnRtpTimeout, OnRemoteDisappeared, OnDialogTimeout, OnException, OnServerShutdown,
                  OnBeforeDestroy
    <3>2. \/ leg[l].alive \in {"run", "stopped"} /\ \E st \in Statuses : leg' = Stopped(l, st)
          \/ leg' = [leg EXCEPT ![l].alive = "gone"]
      <4>1. leg[l].status \in Statuses /\ "Disconnected" \in Statuses
        BY CallParts, LegsAre
      <4>2. CASE LegEvent(l)
        BY <4>1, <4>2 DEF LegEvent, OnOtherBye, OnTerminateLeg, OnOtherException, Status, Received, Alive
      <4>3. CASE Ended(l)
        <5>1. leg[l].alive \in {"run", "stopped"}
          BY <4>3 DEF Ended, OnEarlyBye, OnBye, OnRtpTimeout, OnRemoteDisappeared, OnDialogTimeout,
                      OnException, OnServerShutdown, Running, Alive
        <5>2. leg' = Stopped(l, "Disconnected") \/ leg' = Stopped(l, leg[l].status)
          <6>1. CASE OnEarlyBye(l)
            BY <6>1, LegsAre DEF OnEarlyBye, Status
          <6>2. CASE OnBye(l) \/ OnRtpTimeout(l) \/ OnRemoteDisappeared(l)
            BY <6>2 DEF OnBye, OnRtpTimeout, OnRemoteDisappeared, StopCall
          <6>3. CASE \E cause \in Coded : OnDialogTimeout(l, cause)
            BY <6>3 DEF OnDialogTimeout, StopCall
          <6>4. CASE OnException(l) \/ OnServerShutdown(l)
            BY <6>4 DEF OnException, OnServerShutdown, Status
          <6> QED BY <4>3, <6>1, <6>2, <6>3, <6>4 DEF Ended
        <5> QED BY <4>1, <5>1, <5>2
      <4>4. CASE OnBeforeDestroy(l)
        BY <4>4 DEF OnBeforeDestroy
      <4> QED BY <2>5, <4>2, <4>3, <4>4
    <3>3. leg["A"].alive \in {"final", "gone"} => leg'["A"].alive \in {"final", "gone"}
      <4>1. CASE leg' = [leg EXCEPT ![l].alive = "gone"]
        BY <4>1, CallParts DEF LegTypes, LegSet, Legs
      <4>2. CASE leg[l].alive \in {"run", "stopped"} /\ \E st \in Statuses : leg' = Stopped(l, st)
        <5>1. PICK st \in Statuses : leg' = Stopped(l, st)
          BY <4>2
        <5>2. leg'[Peer(l)] = leg[Peer(l)]
          BY <5>1, CallParts, StoppedIs
        <5> QED BY <4>2, <5>2, LegsAre
      <4> QED BY <3>2, <4>1, <4>2
    <3> QED BY <2>4, <3>1, <3>3
  <2>6. CASE Reply \/ OnCancel \/ OnDurationTimer \/ OnTearDown
    <3>1. snapVars' = snapVars /\ leg["A"].alive \in {"run", "stopped"}
      BY <2>6 DEF Reply, B2bInitial1xx, B2bInitial2xx, B2bInitialErr, OnCancel, OnDurationTimer, OnTearDown,
                  Received, Running, Alive
    <3> QED BY <2>4, <3>1
  <2>7. CASE OnB2BConnect \/ OnSipReply
    <3>1. snapVars' = snapVars
      BY <2>7 DEF OnB2BConnect, OnSipReply
    <3>2. \/ leg' = leg \/ leg' = Stopped("B", "Disconnected")
          \/ \E st \in Statuses : leg' = [leg EXCEPT !["B"].status = st]
      BY <2>7, CallParts DEF OnB2BConnect, OnSipReply
    <3>3. leg'["A"] = leg["A"]
      BY <3>2, CallParts DEF LegTypes, LegSet, Stopped
    <3> QED BY <2>4, <3>1, <3>3
  <2>8. CASE OnRingingTimeout \/ OnBLegTearDown \/ HttpReply \/ HttpClientGone \/ Terminated \/ UNCHANGED vars
    <3>1. snapVars' = snapVars /\ leg' = leg
      BY <2>8 DEF OnRingingTimeout, OnBLegTearDown, HttpReply, HttpClientGone, Terminated, vars, snapVars
    <3> QED BY <2>4, <3>1
  <2> QED BY <2>1, <2>2, <2>3, <2>5, <2>6, <2>7, <2>8 DEF Next
<1>3. SnapInv => ReportedOnce
  BY DEF SnapInv, ReportedOnce
<1> QED BY <1>1, <1>2, <1>3, CallAlways, PTL DEF Spec
=============================================================================
