----------------------------- MODULE SBCFactory ------------------------------
(***************************************************************************)
(* The front door: what SBCFactory decides about an INVITE and about a     *)
(* request outside of any dialog, before a call leg or redis is involved.  *)
(***************************************************************************)
EXTENDS Integers, Sequences

CONSTANTS
  Config,                 \* yeti.conf: see FactoryAssumption for the fields
  Balancers,              \* addresses of trusted load balancers
  IpAuths                 \* [net, mask, x_yeti_auth, require_incoming_auth]

ASSUME FactoryAssumption ==
  /\ {Config.early_100_trying, Config.ip_auth_reject_if_no_matched,
      Config.skip_logging_invite_success, Config.skip_logging_invite_challenge,
      Config.registrar_enabled, Config.core_options_handling} \subseteq BOOLEAN
  /\ {Config.expires_min, Config.expires_max, Config.expires_default} \subseteq Nat

(* configure_registrar refuses a default outside of the limits.            *)
ConfigureRegistrar ==
  /\ Config.expires_max # 0 => Config.expires_default <= Config.expires_max
  /\ Config.expires_default >= Config.expires_min

ASSUME RegistrarConfigured == ConfigureRegistrar

NO_AUTH        == 0
NO_USERNAME    == 2
NO_CREDENTIALS == 3
NO_IP_AUTH     == 4
UAC_AUTH_ERROR == 10

NoHeader == [user |-> "none", pwd |-> "none"]

(* The ids check_request_auth may return: the credentials of a user name   *)
(* are tried in an unspecified order and the first that matches counts.    *)
CheckRequestAuth(credentials, a) ==
  LET own     == {c \in credentials : c.user = a.user}
      matched == {c \in own : c.pwd = a.pwd}
  IN  IF a = NoHeader THEN {NO_AUTH}
      ELSE IF a.user = "" THEN {-NO_USERNAME}
      ELSE IF own = {} THEN {-NO_CREDENTIALS}
      ELSE IF matched = {} THEN {-UAC_AUTH_ERROR}
      ELSE {c.id : c \in matched}

(* The origination pre-auth.  The address that counts is the first of the  *)
(* header if a trusted balancer sent it; of the entries whose network has  *)
(* it and whose X-YETI-AUTH is the request's, one with the longest mask is *)
(* taken.                                                                  *)
OrigIp(m) == IF m.auth_ip # <<>> /\ m.remote_ip \in Balancers THEN m.auth_ip[1] ELSE m.remote_ip

PreAuth(m) ==
  LET matched == {a \in IpAuths : OrigIp(m) \in a.net /\ a.x_yeti_auth = m.x_yeti_auth}
      longest == {a \in matched : \A b \in matched : b.mask <= a.mask}
  IN  IF matched = {} THEN {[matched |-> FALSE, require_incoming_auth |-> FALSE]}
      ELSE {[matched |-> TRUE, require_incoming_auth |-> a.require_incoming_auth] : a \in longest}

(* What becomes of a request: codes sent at once, what the auth log gets,  *)
(* and what is done then ("none", "leg", or a command for redis).          *)
Outcome(codes, log, then) == [codes |-> codes, log |-> log, then |-> then]

(* send_auth_error_reply carries the code of uac_auth, 403 for a source    *)
(* address, and always logs; a challenge is a 401.                         *)
SendAuthErrorReply(code)     == Outcome(<<code>>, <<FALSE>>, [op |-> "none"])
SendAuthChallenge(logged)    == Outcome(<<401>>, IF logged THEN <<FALSE>> ELSE <<>>, [op |-> "none"])
Refused(auth_id) ==
  IF -auth_id >= UAC_AUTH_ERROR THEN SendAuthErrorReply(401) ELSE SendAuthChallenge(TRUE)

Trying(o) == IF Config.early_100_trying THEN [o EXCEPT !.codes = <<100>> \o @] ELSE o

(* pre is what the origination pre-auth says of the source of the INVITE.  *)
OnInvite(auth_id, pre) == Trying(
  IF ~pre.matched /\ Config.ip_auth_reject_if_no_matched THEN SendAuthErrorReply(403)
  ELSE IF auth_id < 0 THEN Refused(auth_id)
  ELSE IF auth_id = NO_AUTH /\ pre.require_incoming_auth
  THEN SendAuthChallenge(~Config.skip_logging_invite_challenge)
  ELSE Outcome(<<>>,
               IF auth_id > 0 /\ ~Config.skip_logging_invite_success THEN <<TRUE>> ELSE <<>>,
               [op |-> "leg"]))

-----------------------------------------------------------------------------
(* REGISTER.  A message has the parsed Contact headers ("*" among them, or *)
(* "malformed"), the expires parameter of the first and the Expires        *)
(* header, each [is: "none", "malformed" or "number"; n: the number].      *)

Star == "*"
Addresses(m) == SelectSeq(m.contacts, LAMBDA c : c # Star)
HasStar(m)   == Star \in {m.contacts[i] : i \in 1..Len(m.contacts)}

(* Contact: * has no parameters that are looked at.                        *)
ExpiresOf(m) == IF ~HasStar(m) /\ m.param.is # "none" THEN m.param ELSE m.header

(* Less than an hour may be refused as too brief, more than the maximum is *)
(* cut down to it; the default is taken as configured.                     *)
TooBrief(n) == /\ Config.expires_min # 0 /\ n # 0
               /\ n < 3600 /\ n < Config.expires_min
Limited(n)  == IF Config.expires_max # 0 /\ n > Config.expires_max
               THEN Config.expires_max ELSE n

ReplyOnly(code) == [op |-> "reply", code |-> code]

(* Only the first address is bound, whatever their number.                 *)
ProcessAuthorizedRegister(m) ==
  LET star    == HasStar(m)
      found   == ExpiresOf(m)
      expires == IF found.is = "none" THEN Config.expires_default ELSE Limited(found.n)
  IN  IF "malformed" \in {m.contacts[i] : i \in 1..Len(m.contacts)} THEN ReplyOnly(500)
      ELSE IF star /\ Addresses(m) # <<>> THEN ReplyOnly(500)
      ELSE IF m.contacts = <<>> THEN [op |-> "fetch_all"]
      ELSE IF found.is = "malformed" THEN ReplyOnly(400)
      ELSE IF found.is = "number" /\ TooBrief(found.n) THEN ReplyOnly(423)
      ELSE IF star THEN IF expires # 0 THEN ReplyOnly(400) ELSE [op |-> "unbind_all"]
      ELSE [op |-> "bind", contact |-> Addresses(m)[1], expires |-> expires]

(* A REGISTER always needs credentials; what is not handled is a 405.      *)
OnOoDRequest(m, auth_id) ==
  IF Config.core_options_handling /\ m.method = "OPTIONS" THEN Outcome(<<200>>, <<>>, [op |-> "none"])
  ELSE IF ~(Config.registrar_enabled /\ m.method = "REGISTER")
  THEN Outcome(<<405>>, <<>>, [op |-> "none"])
  ELSE IF auth_id = NO_AUTH THEN SendAuthChallenge(TRUE)
  ELSE IF auth_id < 0 THEN Refused(auth_id)
  ELSE LET c == ProcessAuthorizedRegister(m)
       IN  IF c.op = "reply" THEN Outcome(<<c.code>>, <<TRUE>>, [op |-> "none"])
           ELSE Outcome(<<>>, <<TRUE>>, c)
=============================================================================
