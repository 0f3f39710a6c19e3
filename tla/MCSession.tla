----------------------------- MODULE MCSession -----------------------------
(* Three operations, with two calls that fail: the first leaves something
   behind, the second or third must not return it. *)
EXTENDS Session

AllThemes == {"hash", "qr", "key", "clock", "apple2 clock", "wifi", "file", "channel"}
TwoData == {"d1", "d2"}
TwoCreators == {"c1", "c2"}
TwoZones == {"z1", "z2"}
TwoSizes == {1, 2}
=============================================================================
