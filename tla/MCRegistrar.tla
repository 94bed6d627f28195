----------------------------- MODULE MCRegistrar -----------------------------
(* One account with room for one of two contacts; a REGISTER of any kind   *)
(* here and one on another node, a call or an RPC call that looks it up.   *)
EXTENDS Registrar

Absent   == [is |-> "none", n |-> 0]
Number(n) == [is |-> "number", n |-> n]
Auth     == [user |-> "alice", pwd |-> "secret"]
Msg(c, p, h) == [method |-> "REGISTER", auth |-> Auth, contacts |-> c, param |-> p, header |-> h]

MCConfig == [early_100_trying |-> TRUE, ip_auth_reject_if_no_matched |-> TRUE,
             skip_logging_invite_success |-> FALSE, skip_logging_invite_challenge |-> TRUE,
             registrar_enabled |-> TRUE, core_options_handling |-> TRUE,
             expires_min |-> 60, expires_max |-> 4000, expires_default |-> 600]
MCCredentials == {[id |-> 1, user |-> "alice", pwd |-> "secret"]}

Invite(a, from, hdr, x) == [method |-> "INVITE", auth |-> a, remote_ip |-> from, auth_ip |-> hdr, x_yeti_auth |-> x]

MCBalancers == {"balancer"}
MCIpAuths   == {[net |-> {"phone", "pbx"}, mask |-> 24, x_yeti_auth |-> "", require_incoming_auth |-> TRUE],
                [net |-> {"pbx"}, mask |-> 32, x_yeti_auth |-> "", require_incoming_auth |-> FALSE]}

MCMessages ==
  {Msg(<<>>, Absent, Absent),
   Msg(<<"*">>, Absent, Number(0)),
   Msg(<<"c1">>, Absent, Absent),
   Msg(<<"c2", "c1">>, Number(5000), Number(0)),
   Msg(<<"c1">>, Number(0), Absent),
   Msg(<<"c1">>, Number(30), Absent),
   [Msg(<<"c1">>, Absent, Absent) EXCEPT !.auth = [user |-> "alice", pwd |-> "wrong"]]}
MCInvites == {Invite(Auth, "phone", <<"pbx">>, ""), Invite(NoHeader, "phone", <<>>, ""),
              Invite(NoHeader, "balancer", <<"pbx", "phone">>, ""), Invite(Auth, "pbx", <<>>, "x"),
              Invite([user |-> "bob", pwd |-> ""], "pbx", <<>>, "")}
MCRest == MCInvites \cup {[method |-> "OPTIONS", auth |-> NoHeader], [method |-> "PUBLISH", auth |-> NoHeader]}
=============================================================================
