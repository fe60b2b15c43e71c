--------------------------- MODULE MCStreamPlayers ---------------------------
(* Two video packets and none of audio: the audio player has messages only.*)
EXTENDS StreamPlayers

MCMaxPackets == [audio |-> 0, video |-> 2]
=============================================================================
