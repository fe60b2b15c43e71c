---------------------------- MODULE MCFileCache ----------------------------
(* Small instances of FileCache for TLC.                                   *)
EXTENDS FileCache

(* A source without faults, and three kinds of trouble.                    *)
MCFaults == {{}, {"stall", "timeout"}, {"read"}, {"seek", "timeout"}}
ReadFault == {{"read"}}
=============================================================================
