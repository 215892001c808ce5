----------------------------- MODULE MCProtocols -----------------------------
(* IPv4 and TCP, as InitStack registers them, a second protocol of the     *)
(* network layer, and two of the socket layer.                             *)
EXTENDS Protocols, TLC

MCLayerOf == "ipv4" :> "network" @@ "ipv6" :> "network"
             @@ "tcp" :> "transport"
             @@ "sock1" :> "socket" @@ "sock2" :> "socket"
MCProto == DOMAIN MCLayerOf
StackLayerOf == "ipv4" :> "network" @@ "tcp" :> "transport"
StackProto == DOMAIN StackLayerOf
Scores == {1, 3}
=============================================================================
