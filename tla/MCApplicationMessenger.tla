----------------------- MODULE MCApplicationMessenger -----------------------
(* Small instances of ApplicationMessenger for TLC.                        *)
EXTENDS ApplicationMessenger
=============================================================================
