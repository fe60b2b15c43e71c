--------------------------- MODULE MCActorProtocol ---------------------------
EXTENDS ActorProtocol
=============================================================================
