----------------------------- MODULE MCSdpRelay ------------------------------
(* Two codecs and telephone events, a static payload without an encoding   *)
(* line; a relaying profile for each setting and one without RTP relay.    *)
EXTENDS SdpRelay

Pl(c, i) == [codec |-> c, id |-> i]
Audio(pls) == [type |-> "audio", port |-> 1, pl |-> pls, tp |-> "AVP", dir |-> "sendrecv", conn |-> NoConn]
Video == [Audio(<<Pl("VP8", 100)>>) EXCEPT !.type = "video"]
Sdp(media) == [conn |-> "host", media |-> media]

Both == Audio(<<Pl("", 0), Pl("OPUS", 96), Pl("TE", 97)>>)
Opus == Audio(<<Pl("OPUS", 97), Pl("PCMU", 0)>>)

MCOffers == {
  Sdp(<<Both>>),
  [conn |-> NoConn, media |-> <<[Video EXCEPT !.conn = "host"], [Opus EXCEPT !.conn = "host"]>>],
  Sdp(<<[Both EXCEPT !.dir = "sendonly"]>>)}

Legwise(a, b) == [A |-> a, B |-> b]

Base ==
  [rtprelay |-> TRUE, noaudio |-> TRUE, avoid |-> TRUE, suppress |-> FALSE,
   single |-> Legwise(TRUE, FALSE), tp |-> Legwise("AVP", "AVP"), conn |-> Legwise("media", "session"),
   alter |-> Legwise("no", "inactive"),
   codecs |-> Legwise(<<GroupCodec("PCMU", -1), GroupCodec("OPUS", -1), GroupCodec("TE", -1)>>,
                      <<GroupCodec("OPUS", 10), GroupCodec("PCMU", -1), GroupCodec("TE", 96)>>),
   relay_reinvite |-> Legwise(TRUE, FALSE), relay_hold |-> Legwise(TRUE, TRUE),
   relay_update |-> Legwise(FALSE, TRUE)]

MCProfiles == {
  Base,
  [Base EXCEPT !.noaudio = FALSE, !.avoid = FALSE, !.suppress = TRUE, !.single = Legwise(FALSE, TRUE),
               !.conn = Legwise("both", "media"),
               !.codecs.A = <<GroupCodec("OPUS", 98), GroupCodec("TE", -1)>>,
               !.relay_reinvite = Legwise(FALSE, TRUE)],
  [Base EXCEPT !.rtprelay = FALSE, !.noaudio = FALSE]}
=============================================================================
