-------------------------- MODULE MCENetConnection --------------------------
(***************************************************************************)
(* Instances of ENetConnection for TLC.                                    *)
(***************************************************************************)
EXTENDS ENetConnection

\* No action reads event after the step that writes it.
State == <<peer, phase, net, app, met>>

OneAndTwo == [e \in Ends |-> IF e = "client" THEN 1 ELSE 2]
=============================================================================
