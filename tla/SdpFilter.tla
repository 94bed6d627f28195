------------------------------ MODULE SdpFilter ------------------------------
(***************************************************************************)
(* sdp_filter.cpp: what the SBC does to a session description.  A          *)
(* description is its session level connection line and its media; a       *)
(* payload is a codec and its number.  A codec stands for encoding name,   *)
(* clock rate and encoding parameter; formats, attributes, ICE and ZRTP    *)
(* are left out.  Every operator is a pure function of its arguments.      *)
(***************************************************************************)
EXTENDS SequencesExt, Integers, TLC

DynamicStart == 96         \* DYNAMIC_PAYLOAD_TYPE_START
NoConn == "none"
Ok == "ok"

IsAudio(m) == m.type = "audio"
IsTelephoneEvent(p) == p.codec = "TE"
Each(s, Op(_)) == [i \in DOMAIN s |-> Op(s[i])]

-----------------------------------------------------------------------------
(* IANA_RTP_PAYLOADS, as far as the codecs here go.                        *)
Iana == (0 :> "PCMU") @@ (8 :> "PCMA") @@ (18 :> "G729")

(* readPayload and CodecsGroupEntry::add_codec: a codec of a group.  A     *)
(* static one has its number, another the number configured, if that is a  *)
(* dynamic one, or none yet.                                               *)
ReadPayload(name) ==
  LET ids == {i \in DOMAIN Iana : Iana[i] = name}
  IN [codec |-> name, id |-> IF ids = {} THEN -1 ELSE CHOOSE i \in ids : TRUE]

GroupCodec(name, dyn) ==
  LET p == ReadPayload(name)
  IN IF p.id = -1 /\ dyn >= DynamicStart THEN [p EXCEPT !.id = dyn] ELSE p

(* normalizeSDP: static payloads without an encoding line get their name.  *)
FixMissingEncodings(m) ==
  LET Named(p) == IF p.codec = "" /\ p.id \in DOMAIN Iana THEN [p EXCEPT !.codec = Iana[p.id]] ELSE p
  IN [m EXCEPT !.pl = Each(@, Named)]

NormalizeSdp(sdp) == [sdp EXCEPT !.media = Each(@, FixMissingEncodings)]

-----------------------------------------------------------------------------
(* findPayload: the first payload that is the codec looked for; a static   *)
(* number of the payload looked for is as good as its name.                *)
Same(q, p) == q.codec = p.codec \/ (p.id \in 0 .. DynamicStart - 1 /\ q.id = p.id)
ContainsPayload(pls, p) == \E i \in DOMAIN pls : Same(pls[i], p)
FindPayload(pls, p) == SelectSeq(pls, LAMBDA q : Same(q, p))[1]

(* add_codec: with single_codec one codec, and telephone events.           *)
AddCodec(pls, p, single) ==
  IF \/ ~single
     \/ pls = << >>
     \/ Len(pls) = 1 /\ IsTelephoneEvent(pls[1])
     \/ IsTelephoneEvent(p)
  THEN Append(pls, p) ELSE pls

AddCodecs(pls, single) == FoldLeft(LAMBDA acc, p : AddCodec(acc, p, single), << >>, pls)

(* reduce_codecs_to_single.                                                *)
ReduceToSingle(media) ==
  Each(media, LAMBDA m : IF IsAudio(m) THEN [m EXCEPT !.pl = AddCodecs(@, TRUE)] ELSE m)

-----------------------------------------------------------------------------
(* filter_arrange_SDP: an audio stream keeps the codecs of the group, in   *)
(* the group's order; with add the group's other codecs join it.  A stream *)
(* without a codec is disabled and keeps its first payload.                *)
Merged(p, f) ==
  [codec |-> f.codec,
   id |-> IF p.id >= DynamicStart /\ f.id # -1 THEN f.id ELSE p.id]

Arranged(pls, group, add) ==
  LET Pick(f) == IF ContainsPayload(pls, f)
                 THEN LET p == FindPayload(pls, f) IN <<IF add THEN Merged(p, f) ELSE p>>
                 ELSE IF add THEN <<f>> ELSE << >>
  IN FlattenSeq(Each(group, Pick))

Hollow(pls, new) == \/ new = << >> /\ pls # << >>
                    \/ Len(new) = 1 /\ IsTelephoneEvent(new[1])

ArrangeStream(m, group, add) ==
  LET new == Arranged(m.pl, group, add)
  IN IF ~IsAudio(m) THEN m
     ELSE IF Hollow(m.pl, new)
     THEN [m EXCEPT !.port = 0, !.pl = Append(new, m.pl[1])]
     ELSE [m EXCEPT !.pl = new]

FilterArrange(sdp, group, add) ==
  LET audio == {i \in DOMAIN sdp.media : IsAudio(sdp.media[i])}
      out   == {i \in audio : Hollow(sdp.media[i].pl, Arranged(sdp.media[i].pl, group, add))}
  IN [err |-> IF out # {} /\ out = audio THEN "codecs_not_matched" ELSE Ok,
      sdp |-> [sdp EXCEPT !.media = Each(@, LAMBDA m : ArrangeStream(m, group, add))]]

(* filterNoAudioStreams disables, cutNoAudioStreams removes.               *)
NoAudioAtAll(sdp) == \A i \in DOMAIN sdp.media : ~IsAudio(sdp.media[i])

FilterNoAudioStreams(sdp) ==
  [sdp EXCEPT !.media = Each(@, LAMBDA m : IF IsAudio(m) THEN m ELSE [m EXCEPT !.port = 0])]

CutNoAudioStreams(sdp) == [sdp EXCEPT !.media = SelectSeq(@, IsAudio)]

-----------------------------------------------------------------------------
(* fix_dynamic_payloads: every payload of an audio stream gets a number of *)
(* its own; the leg remembers by place which numbers it gave.              *)
GetId(map, at) == IF at \in DOMAIN map THEN map[at] ELSE -1

FixStream(m, s, map) ==
  LET pseudo == {m.pl[i].id : i \in DOMAIN m.pl} \ (-1 .. DynamicStart - 1)
      Step(acc, p) ==
        LET at   == <<s, Len(acc.pl)>>
            want == IF p.id < 0 THEN GetId(acc.map, at) ELSE p.id
            pid  == IF want < 0 \/ want \in acc.used
                    THEN Min((DynamicStart .. 127) \ (acc.used \cup pseudo))
                    ELSE want
        IN [pl |-> Append(acc.pl, [p EXCEPT !.id = pid]), used |-> acc.used \cup {pid},
            map |-> (at :> pid) @@ acc.map]
  IN FoldLeft(Step, [pl |-> << >>, used |-> {}, map |-> map], m.pl)

FixDynamicPayloads(sdp, map) ==
  LET Step(acc, m) ==
        IF ~IsAudio(m) THEN [acc EXCEPT !.media = Append(@, m)]
        ELSE LET f == FixStream(m, acc.s, acc.map)
             IN [media |-> Append(acc.media, [m EXCEPT !.pl = f.pl]), s |-> acc.s + 1, map |-> f.map]
      r == FoldLeft(Step, [media |-> << >>, s |-> 0, map |-> map], sdp.media)
  IN [sdp |-> [sdp EXCEPT !.media = r.media], map |-> r.map]

-----------------------------------------------------------------------------
(* normalize_conn_location: where the connection lines stand.              *)
AssertSessionConn(sdp) ==
  LET conns == {sdp.media[i].conn : i \in DOMAIN sdp.media} \ {NoConn}
  IN IF sdp.conn = NoConn /\ Cardinality(conns) = 1
     THEN [sdp EXCEPT !.conn = CHOOSE c \in conns : TRUE] ELSE sdp

AssertMediaConn(sdp) ==
  [sdp EXCEPT !.media = Each(@, LAMBDA m : IF m.conn = NoConn THEN [m EXCEPT !.conn = sdp.conn] ELSE m)]

RemoveMediaConn(sdp) ==
  [sdp EXCEPT !.media = Each(@, LAMBDA m : [m EXCEPT !.conn = NoConn])]

NormalizeConn(sdp, location) ==
  LET s == AssertSessionConn(sdp)
  IN CASE location = "both"    -> AssertMediaConn(s)
       [] location = "session" -> IF s.conn # NoConn THEN RemoveMediaConn(s) ELSE s
       [] location = "media"   -> [AssertMediaConn(s) EXCEPT !.conn = NoConn]

-----------------------------------------------------------------------------
(* Hold.  isHoldRequest, of the sems core: every stream in use is held.    *)
IsHoldRequest(sdp) ==
  LET used == {i \in DOMAIN sdp.media : sdp.media[i].port # 0}
  IN used # {} /\ \A i \in used : sdp.media[i].dir \in {"sendonly", "inactive"}

(* fix_media_activity: the SBC's own answer to a hold.                     *)
FixMediaActivity(sdp) ==
  IF IsHoldRequest(sdp)
  THEN [sdp EXCEPT !.media =
          Each(@, LAMBDA m : IF m.dir = "sendonly" THEN [m EXCEPT !.dir = "recvonly"] ELSE m)]
  ELSE sdp

-----------------------------------------------------------------------------
(* processSdpOffer: an offer of leg l, cut down to what l's profile allows.*)
(* With local it will be the SBC's own answer.                             *)
LocalCheck(sdp, neg) ==
  LET both == 1 .. IF Len(neg) < Len(sdp.media) THEN Len(neg) ELSE Len(sdp.media)
  IN CASE \E i \in both : neg[i].type # sdp.media[i].type -> "streams_types"
       [] OTHER -> IF Len(sdp.media) < Len(neg) THEN "streams_count" ELSE Ok

DisableAdditional(sdp, neg) ==
  [sdp EXCEPT !.media = [i \in DOMAIN @ |-> IF i > Len(neg) THEN [@[i] EXCEPT !.port = 0] ELSE @[i]]]

FixLocal(local, sdp) == IF local THEN FixMediaActivity(sdp) ELSE sdp
FixSingle(single, sdp) == IF single THEN [sdp EXCEPT !.media = ReduceToSingle(@)] ELSE sdp

CheckedOffer(prof, l, arr, sdp2, sdp4) ==
  [err |-> CASE arr.err # Ok -> arr.err
             [] prof.noaudio /\ NoAudioAtAll(sdp2) -> "no_suitable_media"
             [] prof.rtprelay /\ IsAudio(sdp4.media[1])
                /\ sdp4.media[1].tp # prof.tp[l] -> "invalid_media_transport"
             [] OTHER -> Ok,
   sdp |-> sdp4]

ArrangedOffer(prof, l, arr, local, single) ==
  LET sdp2 == IF prof.noaudio THEN FilterNoAudioStreams(arr.sdp) ELSE arr.sdp
  IN CheckedOffer(prof, l, arr, sdp2, FixSingle(single, FixLocal(local, sdp2)))

ProcessSdpOffer(prof, l, sdp0, neg, local, single) ==
  IF local /\ LocalCheck(sdp0, neg) # Ok THEN [err |-> LocalCheck(sdp0, neg), sdp |-> sdp0]
  ELSE ArrangedOffer(prof, l,
         FilterArrange(IF local THEN DisableAdditional(sdp0, neg) ELSE sdp0, prof.codecs[l], FALSE),
         local, single)

(* filterSdpOffer: the offer of leg l for the other leg, o.                *)
CutOffer(prof, o, fix) ==
  LET cut == IF prof.noaudio THEN CutNoAudioStreams(fix.sdp) ELSE fix.sdp
  IN [err |-> IF prof.noaudio /\ NoAudioAtAll(fix.sdp) THEN "no_suitable_media" ELSE Ok,
      map |-> fix.map,
      sdp |-> IF cut.media = << >> THEN cut ELSE NormalizeConn(cut, prof.conn[o])]

OfferToOther(prof, o, arr, map) ==
  IF arr.err = Ok /\ prof.rtprelay THEN CutOffer(prof, o, FixDynamicPayloads(arr.sdp, map))
  ELSE [err |-> arr.err, map |-> map, sdp |-> arr.sdp]

FilterSdpOffer(prof, o, sdp0, map) ==
  OfferToOther(prof, o,
    FilterArrange(IF prof.rtprelay THEN NormalizeSdp(sdp0) ELSE sdp0, prof.codecs[o], prof.rtprelay),
    map)

-----------------------------------------------------------------------------
(* filterSdpAnswerMedia: the answer, in terms of the offer neg it answers. *)
AnswerPayloads(neg, m, avoid, single) ==
  LET known == SelectSeq(m.pl, LAMBDA f : ContainsPayload(neg.pl, f))
      first == Each(known, LAMBDA f : FindPayload(neg.pl, f))
      rest  == SelectSeq(neg.pl, LAMBDA p : ~ContainsPayload(m.pl, p))
  IN AddCodecs(IF avoid THEN first \o rest ELSE neg.pl, single)

(* Mutant: the streams cut from the offer are not put back.                *)
FilterSdpAnswerMediaDrops(prof, neg, media, single) ==
  LET kept == IF prof.noaudio THEN SelectSeq(neg, IsAudio) ELSE neg
      Stream(i) == IF ~IsAudio(media[i]) THEN media[i]
                   ELSE [media[i] EXCEPT !.tp = kept[i].tp,
                                         !.pl = AnswerPayloads(kept[i], media[i], prof.avoid, single)]
      err == IF media = << >> \/ Len(media) # Len(kept)
                \/ \E i \in DOMAIN kept : media[i].type # kept[i].type
             THEN "streams_count" ELSE Ok
  IN IF neg = << >> THEN [err |-> Ok, media |-> media]
     ELSE [err |-> err, media |-> IF err = Ok THEN [i \in DOMAIN kept |-> Stream(i)] ELSE media]

FilterSdpAnswerMedia(prof, neg, media, single) ==
  LET Kept(i)  == ~prof.noaudio \/ IsAudio(neg[i])
      kept     == {i \in DOMAIN neg : Kept(i)}
      Place(i) == Cardinality({k \in kept : k <= i})
      Stream(i) ==
        LET m == media[Place(i)]
        IN IF ~Kept(i) THEN neg[i]
           ELSE IF ~IsAudio(m) THEN m
           ELSE [m EXCEPT !.tp = neg[i].tp,
                          !.pl = AnswerPayloads(neg[i], [m EXCEPT !.tp = neg[i].tp], prof.avoid, single)]
      audio == Cardinality({i \in DOMAIN neg : IsAudio(neg[i])})
      err == CASE media = << >> -> "empty_answer"
               [] Len(neg) # Len(media) /\ ~(prof.noaudio /\ Len(media) = audio) -> "streams_count"
               [] \E i \in kept : media[Place(i)].type # neg[i].type -> "streams_types"
               [] OTHER -> Ok
  IN IF neg = << >> THEN [err |-> Ok, media |-> media]
     ELSE [err |-> err, media |-> IF err = Ok THEN [i \in DOMAIN neg |-> Stream(i)] ELSE media]

(* processSdpAnswer: the answer of leg l to the offer neg of leg o; body   *)
(* is NoSdp or a description.                                              *)
NoSdp == [conn |-> NoConn, media |-> << >>]

(* Mutant: the answer is not remembered as what was negotiated.            *)
ProcessSdpAnswerForgets(prof, o, body, neg, map, single, mandatory) ==
  LET flt == FilterSdpAnswerMedia(prof, neg, NormalizeSdp(body).media, single)
      fix == FixDynamicPayloads([body EXCEPT !.media = flt.media], map)
      err == IF body = NoSdp THEN IF mandatory THEN "empty_answer" ELSE Ok
             ELSE IF prof.rtprelay THEN flt.err ELSE Ok
  IN [err |-> err, neg |-> neg, map |-> map,
      sdp |-> IF body # NoSdp /\ prof.rtprelay /\ err = Ok
              THEN NormalizeConn(fix.sdp, prof.conn[o]) ELSE body]

AnswerToOther(prof, o, fix) ==
  LET sdp == NormalizeConn(fix.sdp, prof.conn[o])
  IN [err |-> Ok, sdp |-> sdp, neg |-> sdp.media, map |-> fix.map]

FilteredAnswer(prof, o, body, neg, map, flt) ==
  IF flt.err # Ok THEN [err |-> flt.err, sdp |-> body, neg |-> neg, map |-> map]
  ELSE AnswerToOther(prof, o, FixDynamicPayloads([body EXCEPT !.media = flt.media], map))

ProcessSdpAnswer(prof, o, body, neg, map, single, mandatory) ==
  CASE body = NoSdp ->
         [err |-> IF mandatory THEN "empty_answer" ELSE Ok, sdp |-> body, neg |-> neg, map |-> map]
    [] ~prof.rtprelay -> [err |-> Ok, sdp |-> body, neg |-> body.media, map |-> map]
    [] OTHER ->
         FilteredAnswer(prof, o, body, neg, map,
           FilterSdpAnswerMedia(prof, neg, NormalizeSdp(body).media, single))
=============================================================================
