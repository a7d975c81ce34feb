---------------------------- MODULE MCBgpSpeaker ----------------------------
(* Model values for BgpSpeaker: two prefixes, one advertised from the start. *)
EXTENDS BgpSpeaker

CONSTANTS r1, r2

MCPrefix == {r1, r2}
MCInitAdv == {r1}
=============================================================================
