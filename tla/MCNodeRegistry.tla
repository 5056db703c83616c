--------------------------- MODULE MCNodeRegistry ---------------------------
(* A small instance of NodeRegistry: two clusters, two nodes, two requests. *)
EXTENDS NodeRegistry, TLC

CONSTANTS c1, c2, n1, n2, r1, r2

\* Parameters of clusters and nodes, as an operator would write them.
Net(w) == Dict([network_id |-> Scalar(w), network_name |-> Scalar("mesh")])
OldNet(w) == Dict([network |-> Scalar(w), name |-> Scalar("mesh"), id |-> Scalar("stale")])
Mesh(e) == Dict([networks |-> List(<<e>>)])
Tunnel(h) == Dict([interfaces |-> List(<<Dict([name |-> Scalar("wg0"), address |-> List(<<Addr(h, 0)>>)])>>)])

Plain  == Empty
Fleet  == Dict([zerotier |-> Mesh(OldNet("infra")), alloy |-> Dict([labels |-> Empty])])
Pinned == Dict([salt |-> Dict([id |-> Scalar("b")]), role |-> Scalar("kiosk")])
Wired  == Dict([zerotier |-> Mesh(Net("infra")), wireguard |-> Tunnel(5)])

mcClusterForms == {Plain, Fleet}
mcNodeForms == {Plain, Pinned, Wired}
\* Clusters of seed_tenants, which a restart puts back, and a test node.
Labelled == Dict([alloy |-> Dict([labels |-> Dict([instance |-> Scalar("lab")])])])
mcClusterSeeds == {[tenant |-> t, slug |-> "k1", params |-> Labelled] : t \in {"t1", "t2"}}
mcNodeSeeds == {[tenant |-> "t1", cluster |-> "k1", slug |-> "b", hostname |-> "b",
                 params |-> Dict([wireguard |-> Tunnel(6)])]}
\* A registry with a cluster and a node.
mcFirstRows ==
  {<<[c \in Clusters |-> IF c = c1 THEN [tenant |-> "t1", slug |-> "k1", params |-> Fleet] ELSE None],
     [n \in Nodes |-> IF n = n1 THEN NodeRow(c1, "a", "", Plain) ELSE None]>>}
mcOverrides == <<Dict([packages |-> List(<<Scalar("vim")>>)]), Dict([packages |-> List(<<Scalar("git")>>)])>>
mcDefaults == Dict([alloy |-> Dict([alloy |-> Dict([port |-> Scalar("12345")])])])
mcSymmetry == Permutations(Requests)
=============================================================================
