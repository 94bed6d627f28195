----------------------------- MODULE MCDbConfig ------------------------------
(* A table of each kind of loader, and contents that add, change, drop and *)
(* spoil a row.                                                            *)
EXTENDS DbConfig

R(i, v) == [id |-> i, val |-> v]

MCOrder == <<"radius_authorization_profiles", "registrations", "translations">>
MCTranslations == <<"translations.dc_refuse", "translations.dc_rewrite">>
MCData == {<<R(1, "a"), R(2, "a")>>, <<R(1, "b"), R(3, "bad")>>}
=============================================================================
