---------------------------- MODULE MCEventStream ----------------------------
(* Small instances of EventStream for TLC: a list provider that holds its  *)
(* section while it subscribes and unsubscribes, a consumer of add-ons     *)
(* whose handler asks the add-on manager, and the manager as a publisher.  *)
EXTENDS EventStream

CONSTANTS provider, consumer, manager, section, critSection, addons

MCOwnerOf == [s \in Subscription |-> IF s = addons THEN consumer ELSE provider]
MCHeldBy  == [c \in Publisher \cup Owner |->
               IF c = provider THEN section ELSE IF c = manager THEN critSection ELSE NULL]
MCTakenBy == [s \in Subscription |-> IF s = addons THEN critSection ELSE section]
=============================================================================
