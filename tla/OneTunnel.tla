------------------------------ MODULE OneTunnel ------------------------------
(***************************************************************************)
(* What the Windows hosts of all accounts promise together: at most one of *)
(* them has the tunnel open, and it closes before another one opens.       *)
(***************************************************************************)
CONSTANT Hosts

VARIABLE tunnels  \* the hosts whose session runs a TUN interface

Init == tunnels = {}

Open(h) == tunnels = {} /\ tunnels' = {h}

Close == tunnels # {} /\ tunnels' = {}

Next == Close \/ \E h \in Hosts : Open(h)

Spec == Init /\ [][Next]_tunnels
=============================================================================
