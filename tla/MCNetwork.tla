------------------------------ MODULE MCNetwork ------------------------------
(***************************************************************************)
(* The parts that find nodes and move frames, side by side.  They share no   *)
(* state; each behaviour is one of one part, named by focus.  The table and  *)
(* the values of the DHT, the resolver and the registry client, and the      *)
(* traffic and the pings of the VPN router are independent of each other     *)
(* and explored one at a time.                                               *)
(***************************************************************************)
EXTENDS Dht, Bootstrap, Resolver, LanRouter, VpnRouter, ConnectionPool

CONSTANTS m1, m2

VARIABLE focus

MCDhtNode == {<<0, 0, 1>>, <<1, 0, 0>>, <<1, 0, 1>>, <<1, 1, 0>>}
MCManager == {<<0, 0, 1>>}
\* The threads, hosts, links, pings and streams explored are {m1, m2}.
MCSymmetry == Permutations({m1, m2})

networkVars == <<dhtVars, bootVars, resVars, lanVars, vrVars, poolVars, focus>>

NetworkInit ==
    /\ DhtInit /\ BootInit /\ ResInit /\ LanInit /\ VrInit /\ PoolInit
    /\ focus \in {"table", "values", "boot", "resolver", "registry", "lan", "traffic", "pings", "pool"}
    /\ focus # "resolver" => wrapped = FALSE /\ staticMap = [n \in ResName |-> Unset]

Others(active) ==
    /\ active # "dht" => UNCHANGED dhtVars
    /\ active # "boot" => UNCHANGED bootVars
    /\ active # "res" => UNCHANGED resVars
    /\ active # "lan" => UNCHANGED lanVars
    /\ active # "vpn" => UNCHANGED vrVars
    /\ active # "pool" => UNCHANGED poolVars

NetworkNext ==
    /\ focus' = focus
    /\ \/ focus = "table" /\ TableNext /\ Others("dht")
       \/ focus = "values" /\ ValueNext /\ Others("dht")
       \/ focus = "boot" /\ BootNext /\ Others("boot")
       \/ focus = "resolver" /\ ResolverNext /\ Others("res")
       \/ focus = "registry" /\ RegClientNext /\ Others("res")
       \/ focus = "lan" /\ LanNext /\ Others("lan")
       \/ focus = "traffic" /\ TrafficNext /\ Others("vpn")
       \/ focus = "pings" /\ PingNext /\ Others("vpn")
       \/ focus = "pool" /\ PoolNext /\ Others("pool")

NetworkSpec == NetworkInit /\ [][NetworkNext]_networkVars

\* The variables of every part have their types.
NetworkTypeOK == DhtTypeOK /\ BootTypeOK /\ ResTypeOK /\ LanTypeOK /\ VrTypeOK /\ PoolTypeOK
=============================================================================
