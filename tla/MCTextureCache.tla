--------------------------- MODULE MCTextureCache ---------------------------
(* Small instances of TextureCache for TLC.                                *)
EXTENDS TextureCache
=============================================================================
