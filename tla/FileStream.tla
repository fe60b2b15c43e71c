----------------------------- MODULE FileStream -----------------------------
(***************************************************************************)
(* What CFileCache promises to the one who reads through it: the stream    *)
(* reads like the file itself (xbmc/filesystem/IFile.h), as long as its    *)
(* source does.                                                            *)
(***************************************************************************)
EXTENDS Integers, Sequences

CONSTANT FileSize

VARIABLES
  pos,     \* GetPosition()
  got,     \* the bytes the last Read returned, each named by its position
  steady,  \* the source is seekable, never fails and never lacks data, and
           \* no wait for it takes too long
  broken   \* the source failed, or a seek was refused

streamVars == <<pos, got, steady, broken>>

Init == pos = 0 /\ got = <<>> /\ steady \in BOOLEAN /\ broken = FALSE

(* Read returns the next bytes, or none at the end of the file.            *)
Read(n) ==
  /\ ~broken
  /\ n = 0 /\ steady => pos = FileSize
  /\ got' = [k \in 1 .. n |-> pos + k - 1]
  /\ pos' = pos + n
  /\ UNCHANGED <<steady, broken>>

(* Seek moves the position, which is where the next Read begins.           *)
Seek(p) ==
  /\ ~broken
  /\ pos' = p /\ got' = <<>>
  /\ UNCHANGED <<steady, broken>>

(* After a failure nothing is promised.                                    *)
Break  == ~broken /\ ~steady /\ broken' = TRUE /\ UNCHANGED steady
Broken == broken /\ UNCHANGED <<steady, broken>>

Next ==
  \/ \E n \in 0 .. FileSize : Read(n)
  \/ \E p \in 0 .. FileSize : Seek(p)
  \/ Break
  \/ Broken

Spec == Init /\ [][Next]_streamVars
=============================================================================
