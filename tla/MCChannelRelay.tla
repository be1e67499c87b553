---------------------------- MODULE MCChannelRelay ----------------------------
(* Instances of ChannelRelay for TLC.                                       *)
EXTENDS ChannelRelay, TLC

CONSTANTS s1, p1, b1, b2

VideoAndControl == <<"video", "control">>
JustMedia == <<"video", "audio">>

=============================================================================
