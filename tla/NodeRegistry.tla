---------------------------- MODULE NodeRegistry ----------------------------
(***************************************************************************)
(* Clusters, nodes and their network identities, as the web pages change   *)
(* them, and the two places that read the joined model of a node: a bake   *)
(* and the pillar endpoint.                                                *)
(*                                                                         *)
(*   osbakery/views.py     cluster_* and node_* views, generate_*_identity,*)
(*                         node_zerotier_join, node_wireguard_add,         *)
(*                         bake_node                                       *)
(*   tenants/pillar.py     resolve_node, node_pillar                       *)
(*   tenants/wireguard.py  register_client, on a wg-easy controller        *)
(*   tenants/zerotier.py   register_member, on a ZTNET controller          *)
(*   .../commands/backfill_node_params.py, seed_tenants.py,                *)
(*                         seed_test_clusters.py                           *)
(*                                                                         *)
(* No view runs in a transaction: a request reads its node once, calls     *)
(* controllers that answer late, and then writes, so another request may   *)
(* come between any two of its steps.  A request keeps the row as it read  *)
(* it (snap).  The edit form posts the whole row as its page showed it,    *)
(* with one field changed.  A primary key is never used again.             *)
(***************************************************************************)
EXTENDS EffectiveModel

CONSTANTS
  Clusters, Nodes, Builds,   \* primary keys
  Requests,                  \* names of requests in flight
  ClusterSlugs, Slugs, Tenants,
  Hostnames,                 \* what forms post (Unset is none)
  Networks, Interfaces,      \* ZeroTier networks; the names of WireGuard interfaces
  ClusterForms, NodeForms,   \* parameter trees the forms may post
  ClusterSeeds, NodeSeeds,   \* rows of seed_tenants and seed_test_clusters
  FirstRows,                 \* the clusters and nodes to begin with, a set of pairs
  Overrides,                 \* pillar_overrides of each version of the preset
  Defaults,                  \* the vendored defaults of the formulas
  Pool,                      \* last address of the tunnel's pool
  MaxOps, MaxCalls           \* bounds: pages opened, requests, forms; keys minted

None == [absent |-> "never"]     \* a row that was not created yet
Gone == [absent |-> "deleted"]
Row(x) == x \notin {None, Gone}

\* Parameters whose tunnels have the names there are.
RowParameters(p) ==
  /\ Parameters(p)
  /\ \A e \in ToSet(Tunnels(p)) : Get(e, "name") \in {Scalar(i) : i \in Interfaces \cup {Unset}}
IsClusterRow(x) ==
  /\ x \in [tenant: Tenants, slug: ClusterSlugs, params: {x.params}]
  /\ RowParameters(x.params)
IsNodeRow(x) ==
  /\ x \in [cluster: Clusters, slug: Slugs, hostname: Hostnames \cup Slugs \cup {Unset}, target: {"pc-amd64"},
            params: {x.params}, active: BOOLEAN]
  /\ RowParameters(x.params)

ASSUME RegistryAssumption ==
  /\ Pool \in Nat /\ MaxOps \in Nat /\ MaxCalls \in Nat
  /\ None \notin Nodes \cup Clusters
  /\ Unset \notin Slugs \cup Networks \cup Interfaces
  /\ \A p \in ClusterForms \cup NodeForms : RowParameters(p)
  /\ \A k \in Keys(Defaults) : Parameters(Get(Defaults, k))
  /\ \A v \in DOMAIN Overrides : Parameters(Overrides[v])
  /\ \A s \in ClusterSeeds : IsClusterRow(s)
  /\ \A s \in NodeSeeds : s.slug \in Slugs /\ s.hostname \in Hostnames \cup {Unset} /\ RowParameters(s.params)

ASSUME FirstRowsAssumption ==
  \A first \in FirstRows :
    /\ DOMAIN first[1] = Clusters /\ DOMAIN first[2] = Nodes
    /\ \A c \in Clusters : first[1][c] = None \/ IsClusterRow(first[1][c])
    /\ \A n \in Nodes :
         LET x == first[2][n] IN
         x = None \/ (IsNodeRow(x) /\ first[1][x.cluster] # None)

VARIABLES
  cluster, node,   \* the rows, None or Gone
  version,         \* the current version of the preset
  zt, wg,          \* the identity of each node and network, interface: 0 or a number
  minted,          \* who asked for each ZeroTier identity, by number
  keys,            \* the name each WireGuard key was made for, by number
  authorised,      \* identities registered on the ZeroTier controller
  told,            \* identities the user was told to authorise by hand
  page,            \* the row each open edit page shows
  build,           \* BuildRequest rows
  req,             \* what each request is at
  ops              \* so far

rows     == <<cluster, node, version>>
idents   == <<zt, wg>>
external == <<minted, keys, authorised, told>>
vars     == <<rows, idents, external, page, build, req, ops>>

Local == "wg genkey"
Kinds == {"edit", "seed", "join", "networks", "peer", "keys", "backfill"}
Request(kind, pc, n, snap) ==
  [kind |-> kind, pc |-> pc, node |-> n, snap |-> snap, stale |-> FALSE,
   post |-> snap, todo |-> {}, name |-> Unset, replace |-> FALSE, got |-> 0]

Live  == {n \in Nodes : Row(node[n])}
Fresh(members) == Len(members) + 1

ModelOf(n) == NodeModel(Overrides[version], cluster[node[n].cluster], node[n], zt[n], wg[n])
ServedPillar(n) == Pillar(ModelOf(n))
SaltIdOf(n) == SaltId(ModelOf(n), node[n])
HasNode(b) == build[b].node # None
HasCluster(b) == build[b].cluster # None
BakedModel(b) ==
  LET n == build[b].node c == build[b].cluster IN
  BuildModel(Overrides[build[b].version], build[b],
             HasCluster(b), IF HasCluster(b) THEN cluster[c] ELSE None,
             HasNode(b), IF HasNode(b) THEN node[n] ELSE None,
             IF HasNode(b) THEN zt[n] ELSE <<>>, IF HasNode(b) THEN wg[n] ELSE <<>>)

TypeOK ==
  /\ \A c \in Clusters : Row(cluster[c]) => IsClusterRow(cluster[c])
  /\ \A n \in Live : IsNodeRow(node[n]) /\ Row(cluster[node[n].cluster])
  /\ version \in DOMAIN Overrides
  /\ zt \in [Nodes -> [Networks -> 0 .. Len(minted)]]
  /\ wg \in [Nodes -> [Interfaces -> 0 .. Len(keys)]]
  /\ \A n \in Nodes \ Live : (\A w \in Networks : zt[n][w] = 0) /\ (\A i \in Interfaces : wg[n][i] = 0)
  /\ authorised \subseteq DOMAIN minted /\ told \subseteq DOMAIN minted
  /\ \A n \in Nodes : page[n] # None => IsNodeRow(page[n])
  /\ \A b \in Builds : build[b] # None =>
       build[b].node \in Live \cup {None} /\ build[b].cluster \in Clusters \cup {None}
  /\ \A r \in Requests : req[r] # None =>
       /\ req[r].kind \in Kinds /\ req[r].node \in Nodes /\ node[req[r].node] # None
       /\ IsNodeRow(req[r].snap) /\ IsNodeRow(req[r].post)
  /\ ops \in 0 .. MaxOps

NoIdentity == [w \in Networks |-> 0]
NoKey == [i \in Interfaces |-> 0]

Init ==
  /\ \E first \in FirstRows : cluster = first[1] /\ node = first[2]
  /\ version \in {v \in DOMAIN Overrides : \A w \in DOMAIN Overrides : v <= w}
  /\ zt = [n \in Nodes |-> NoIdentity] /\ wg = [n \in Nodes |-> NoKey]
  /\ minted = <<>> /\ keys = <<>> /\ authorised = {} /\ told = {}
  /\ page = [n \in Nodes |-> None]
  /\ build = [b \in Builds |-> None]
  /\ req = [r \in Requests |-> None]
  /\ ops = 0

Operation == ops < MaxOps /\ ops' = ops + 1
Taken(c, slug, n) == \E m \in Live \ {n} : node[m].cluster = c /\ node[m].slug = slug
Idle(r) == req[r] = None

-----------------------------------------------------------------------------
(* Clusters.  A page finds its cluster by slug alone: with two of one slug *)
(* in two tenants the lookup raises.                                       *)

BySlug(slug) == {c \in Clusters : Row(cluster[c]) /\ cluster[c].slug = slug}

ClusterCreate(c, tenant, slug, params) ==
  /\ Operation
  /\ cluster[c] = None /\ BySlug(slug) = {}
  /\ cluster' = [cluster EXCEPT ![c] = [tenant |-> tenant, slug |-> slug, params |-> params]]
  /\ UNCHANGED <<node, version, idents, external, page, build, req>>

ClusterEdit(c, slug, params) ==
  /\ Operation
  /\ Row(cluster[c]) /\ BySlug(cluster[c].slug) = {c}
  /\ \A d \in BySlug(slug) \ {c} : cluster[d].tenant # cluster[c].tenant
  /\ cluster' = [cluster EXCEPT ![c] = [tenant |-> @.tenant, slug |-> slug, params |-> params]]
  /\ UNCHANGED <<node, version, idents, external, page, build, req>>

\* update_or_create, by tenant and slug: an operator's parameters are replaced, and
\* two tenants may come to have a cluster of one slug.
SeedCluster(c, seed) ==
  LET Is(d) == Row(cluster[d]) /\ cluster[d].tenant = seed.tenant /\ cluster[d].slug = seed.slug IN
  /\ Operation
  /\ Is(c) \/ (cluster[c] = None /\ \A d \in Clusters : ~Is(d))
  /\ cluster' = [cluster EXCEPT ![c] = seed]
  /\ UNCHANGED <<node, version, idents, external, page, build, req>>

\* Mutant: the identities stay.
ForgetRows(S) ==
  /\ node' = [n \in Nodes |-> IF n \in S THEN Gone ELSE node[n]]
  /\ UNCHANGED idents

ForgetNodes(S) ==
  /\ node' = [n \in Nodes |-> IF n \in S THEN Gone ELSE node[n]]
  /\ zt' = [n \in Nodes |-> IF n \in S THEN NoIdentity ELSE zt[n]]
  /\ wg' = [n \in Nodes |-> IF n \in S THEN NoKey ELSE wg[n]]

\* The nodes and their identities go with it (CASCADE); builds keep (SET_NULL).
ClusterDelete(c) ==
  LET members == {n \in Live : node[n].cluster = c} IN
  /\ Operation
  /\ Row(cluster[c]) /\ BySlug(cluster[c].slug) = {c}
  /\ cluster' = [cluster EXCEPT ![c] = Gone]
  /\ ForgetNodes(members)
  /\ build' = [b \in Builds |->
       IF build[b] = None THEN None
       ELSE [build[b] EXCEPT !.cluster = IF @ = c THEN None ELSE @,
                             !.node = IF @ \in members THEN None ELSE @]]
  /\ UNCHANGED <<version, external, page, req>>

-----------------------------------------------------------------------------
(* Nodes. *)

NodeRow(c, slug, hostname, params) ==
  [cluster |-> c, slug |-> slug, hostname |-> hostname, target |-> "pc-amd64",
   params |-> params, active |-> TRUE]

NodeCreate(n, c, slug, hostname, params) ==
  /\ Operation
  /\ node[n] = None /\ Row(cluster[c]) /\ ~Taken(c, slug, n)
  /\ node' = [node EXCEPT ![n] = NodeRow(c, slug, hostname, params)]
  /\ UNCHANGED <<cluster, version, idents, external, page, build, req>>

\* get_or_create of seed_test_clusters, when it creates.
SeedCreates(n, c, seed) ==
  /\ Row(cluster[c]) /\ cluster[c].tenant = seed.tenant /\ cluster[c].slug = seed.cluster
  /\ NodeCreate(n, c, seed.slug, seed.hostname, seed.params)

\* The parameters go along, a pinned salt id and tunnel addresses included.
NodeClone(n, m, slug) ==
  /\ Operation
  /\ node[n] = None /\ Row(node[m]) /\ ~Taken(node[m].cluster, slug, n)
  /\ node' = [node EXCEPT ![n] = NodeRow(node[m].cluster, slug, slug, node[m].params)]
  /\ UNCHANGED <<cluster, version, idents, external, page, build, req>>

NodeDelete(n) ==
  /\ Operation
  /\ Row(node[n])
  /\ ForgetNodes({n})
  /\ build' = [b \in Builds |-> IF build[b] # None /\ build[b].node = n
                                THEN [build[b] EXCEPT !.node = None] ELSE build[b]]
  /\ UNCHANGED <<cluster, version, external, page, req>>

OpenPage(n) ==
  /\ Operation
  /\ Row(node[n]) /\ page[n] # node[n]
  /\ page' = [page EXCEPT ![n] = node[n]]
  /\ UNCHANGED <<rows, idents, external, build, req>>

\* What a user may post from a page: it as it is, or with one field changed.
Posts(row) ==
  {row} \cup {[row EXCEPT !.slug = s] : s \in Slugs}
        \cup {[row EXCEPT !.hostname = h] : h \in Hostnames}
        \cup {[row EXCEPT !.cluster = c] : c \in {d \in Clusters : Row(cluster[d])}}
        \cup {[row EXCEPT !.params = p] : p \in NodeForms}
        \cup {[row EXCEPT !.active = ~@]}

PostEdit(r, n, post) ==
  /\ Idle(r) /\ page[n] # None /\ Row(node[n])
  /\ (post.slug # node[n].slug \/ post.cluster # node[n].cluster) => ~Taken(post.cluster, post.slug, n)
  /\ req' = [req EXCEPT ![r] = [Request("edit", "save", n, node[n]) EXCEPT !.post = post]]
  /\ page' = [page EXCEPT ![n] = None]
  /\ UNCHANGED <<rows, idents, external, build, ops>>

-----------------------------------------------------------------------------
(* Requests.  One that raises ends, with what it wrote in place. *)

Ends(r) == [req EXCEPT ![r] = None]
Goto(r, pc) == [req EXCEPT ![r] = [@ EXCEPT !.pc = pc]]
At(r, kind, pc) == ~Idle(r) /\ req[r].kind = kind /\ req[r].pc = pc

\* Every other request on the node has read a row that is no longer the row.
Overtaking(q, r, n) ==
  [o \in Requests |-> IF o # r /\ q[o] # None /\ q[o].node = n
                      THEN [q[o] EXCEPT !.stale = TRUE] ELSE q[o]]

\* save(), of node_edit and seed_test_clusters: the whole row, inserted again if it
\* was deleted meanwhile.
EditSave(r) ==
  LET n == req[r].node post == req[r].post IN
  /\ At(r, "edit", "save") \/ At(r, "seed", "save")
  /\ IF Row(cluster[post.cluster]) /\ ~Taken(post.cluster, post.slug, n)
     THEN node' = [node EXCEPT ![n] = post] /\ req' = Overtaking(Ends(r), r, n)
     ELSE node' = node /\ req' = Ends(r)
  /\ UNCHANGED <<cluster, version, idents, external, page, build, ops>>

\* save(update_fields=["parameters"]): raises if the row is gone.
SaveParams(r, n, params, q) ==
  /\ IF Row(node[n])
     THEN node' = [node EXCEPT ![n] = [@ EXCEPT !.params = params]] /\ req' = Overtaking(q, r, n)
     ELSE node' = node /\ req' = Ends(r)
  /\ UNCHANGED <<cluster, version, page, build, ops>>

Begin(r, n, request) ==
  /\ Operation
  /\ Idle(r) /\ Row(node[n])
  /\ req' = [req EXCEPT ![r] = request]
  /\ UNCHANGED <<rows, idents, external, page, build>>

\* get_or_create of seed_test_clusters, when it finds the node: it will be saved
\* with the seed's host name and parameters.
SeedFinds(r, n, seed) ==
  /\ Row(node[n]) /\ node[n].slug = seed.slug
  /\ LET c == cluster[node[n].cluster] IN c.tenant = seed.tenant /\ c.slug = seed.cluster
  /\ Begin(r, n, [Request("seed", "save", n, node[n]) EXCEPT
       !.post = [node[n] EXCEPT !.hostname = seed.hostname, !.params = seed.params]])

\* Position 0: the list has no such entry.
Found(list, i) == IF i = 0 THEN Empty ELSE list[i]
Upsert(list, i, item) == IF i = 0 THEN Append(list, item) ELSE [list EXCEPT ![i] = item]

Join(r, n, net) ==
  Begin(r, n, [Request("join", "save", n, node[n]) EXCEPT !.todo = {net}, !.name = SaltIdOf(n)])

\* Mutant: the network replaces the parameters.
JoinedAlone(snap, net, name) ==
  Dict([zerotier |-> Dict([networks |-> List(<<Dict([network_id |-> Scalar(net)])>>)])])

Joined(snap, net, name) ==
  LET zerotier == Get(snap.params, "zerotier")
      entry == [network_id |-> Scalar(net), network_name |-> Scalar("label"), member_name |-> Scalar(name)]
      nets == Items(Get(zerotier, "networks"))
      i    == SelectInSeq(nets, LAMBDA e : IsDict(e) /\ NetworkId(e) = Scalar(net))
      list == Upsert(nets, i, Dict(Over(entry, Found(nets, i).dict)))
  IN With(snap.params, "zerotier", With(zerotier, "networks", List(list)))

JoinSave(r) ==
  /\ At(r, "join", "save")
  /\ \E net \in req[r].todo :
       SaveParams(r, req[r].node, Joined(req[r].snap, net, req[r].name), Goto(r, "store"))
  /\ UNCHANGED <<idents, external>>

Mint(r, net, by) ==
  /\ Len(minted) < MaxCalls
  /\ minted' = Append(minted, by)
  /\ zt' = [zt EXCEPT ![req[r].node][net] = Fresh(minted)]

\* idtool fails, or the node is gone (the foreign key does not hold), or stored.
JoinStore(r) ==
  /\ At(r, "join", "store")
  /\ \/ req' = Ends(r) /\ UNCHANGED <<zt, minted>>
     \/ /\ Row(node[req[r].node])
        /\ \E net \in req[r].todo : Mint(r, net, "join")
        /\ req' = [req EXCEPT ![r] = [@ EXCEPT !.pc = "register", !.got = Fresh(minted)]]
  /\ UNCHANGED <<rows, wg, keys, authorised, told, page, build, ops>>

\* Mutant: the identity is stored and the controller is never called.
JoinDone(r) ==
  /\ At(r, "join", "register")
  /\ req' = Ends(r)
  /\ UNCHANGED <<rows, idents, external, page, build, ops>>

JoinRegister(r) ==
  /\ At(r, "join", "register")
  /\ \/ authorised' = authorised \cup {req[r].got} /\ told' = told
     \/ told' = told \cup {req[r].got} /\ authorised' = authorised
  /\ req' = Ends(r)
  /\ UNCHANGED <<rows, idents, minted, keys, page, build, ops>>

GenerateNetworks(r, n, targets, force) ==
  Begin(r, n, [Request("networks", "store", n, node[n]) EXCEPT
    !.todo = IF targets # {} THEN targets ELSE DeclaredNetworks(cluster[node[n].cluster], node[n]),
    !.replace = force \/ targets # {}])

Without(q, x) == [q EXCEPT !.todo = @ \ {x}]

\* An identity there is is kept; whether there is one is read before idtool runs.
CheckNetwork(r, net) ==
  /\ At(r, "networks", "store") /\ net \in req[r].todo
  /\ req' = [req EXCEPT ![r] =
       IF zt[@.node][net] # 0 /\ ~@.replace THEN Without(@, net)
       ELSE [@ EXCEPT !.pc = "mint", !.name = net]]
  /\ UNCHANGED <<rows, idents, external, page, build, ops>>

StoreNetwork(r) ==
  LET net == req[r].name
      rest == [req EXCEPT ![r] = [Without(@, net) EXCEPT !.pc = "store"]]
  IN
  /\ At(r, "networks", "mint")
  /\ \/ req' = rest /\ UNCHANGED <<zt, minted>>              \* idtool failed
     \/ IF Row(node[req[r].node]) THEN Mint(r, net, "generate") /\ req' = rest
        ELSE req' = Ends(r) /\ UNCHANGED <<zt, minted>>
  /\ UNCHANGED <<rows, wg, keys, authorised, told, page, build, ops>>

Finish(r) ==
  /\ ~Idle(r) /\ req[r].kind \in {"networks", "keys"} /\ req[r].todo = {}
  /\ req' = Ends(r)
  /\ UNCHANGED <<rows, idents, external, page, build, ops>>

GenerateKeys(r, n, targets, force) ==
  Begin(r, n, [Request("keys", "store", n, node[n]) EXCEPT
    !.todo = IF targets # {} THEN targets ELSE InterfaceNames(cluster[node[n].cluster], node[n]),
    !.replace = force \/ targets # {}])

NewKey(name) == Len(keys) < MaxCalls /\ keys' = Append(keys, name)

CheckKey(r, i) ==
  /\ At(r, "keys", "store") /\ i \in req[r].todo
  /\ req' = [req EXCEPT ![r] =
       IF wg[@.node][i] # 0 /\ ~@.replace THEN Without(@, i)
       ELSE [@ EXCEPT !.pc = "mint", !.name = i]]
  /\ UNCHANGED <<rows, idents, external, page, build, ops>>

\* The end of generate_wireguard_identity's loop, and of node_wireguard_add.
StoreKey(r) ==
  LET n == req[r].node i == req[r].name
      rest == IF req[r].kind = "peer" THEN Ends(r)
              ELSE [req EXCEPT ![r] = [Without(@, i) EXCEPT !.pc = "store"]]
  IN
  /\ At(r, "keys", "mint") \/ At(r, "peer", "mint")
  /\ \/ req' = rest /\ UNCHANGED <<wg, keys>>
     \/ IF Row(node[n])
        THEN NewKey(Local) /\ wg' = [wg EXCEPT ![n][i] = Fresh(keys)] /\ req' = rest
        ELSE req' = Ends(r) /\ UNCHANGED <<wg, keys>>
  /\ UNCHANGED <<rows, zt, minted, authorised, told, page, build, ops>>

-----------------------------------------------------------------------------
(* A tunnel.  wg-easy finds a client by name; of two with one name the     *)
(* later is found.  Without a controller the key is made here.             *)

ClientKey(name) == SelectLastInSeq(keys, LAMBDA k : k = name)

AddPeer(r, n, i, controller) ==
  Begin(r, n, [Request("peer", IF controller THEN "list" ELSE "save", n, node[n])
                 EXCEPT !.name = i, !.replace = controller])

ListClients(r) ==
  LET k == ClientKey(MinionId(req[r].snap)) IN
  /\ At(r, "peer", "list") \/ At(r, "peer", "fetch")
  /\ \/ k # 0 /\ req' = [req EXCEPT ![r] = [@ EXCEPT !.pc = "save", !.got = k]]
     \/ k = 0 /\ req' = Goto(r, "create")
     \/ req' = Ends(r)                                       \* WgRegisterError
  /\ UNCHANGED <<rows, idents, external, page, build, ops>>

CreateClient(r) ==
  /\ At(r, "peer", "create")
  /\ NewKey(MinionId(req[r].snap))
  /\ req' = Goto(r, "fetch")
  /\ UNCHANGED <<rows, idents, minted, authorised, told, page, build, ops>>

TunnelAddress(k) == Addr(k + 2, 0)
Peer == Dict([public_key |-> Scalar("server"), allowed_ips |-> List(<<Cidr(0 .. Pool, 24)>>)])

Tunnelled(snap, i, k) ==
  LET wireguard == Get(snap.params, "wireguard")
      addr  == IF k = 0 THEN <<>> ELSE [address |-> List(<<TunnelAddress(k)>>)]
      ifaces == Items(Get(wireguard, "interfaces"))
      at    == SelectInSeq(ifaces, LAMBDA e : IsDict(e) /\ Get(e, "name") = Scalar(i))
      old   == Found(ifaces, at)
      iface == With(With(Dict(Over(addr, old.dict)), "name", Scalar(i)),
                    "peers", List(Append(Items(Get(old, "peers")), Peer)))
  IN With(snap.params, "wireguard",
          With(wireguard, "interfaces", List(Upsert(ifaces, at, iface))))

PeerSave(r) ==
  /\ At(r, "peer", "save")
  /\ SaveParams(r, req[r].node, Tunnelled(req[r].snap, req[r].name, req[r].got), Goto(r, "store"))
  /\ UNCHANGED <<idents, external>>

\* Mutant: a key the node already has is kept when the controller gives one.
PeerKeep(r) ==
  LET n == req[r].node i == req[r].name IN
  /\ At(r, "peer", "store")
  /\ wg' = IF Row(node[n]) /\ wg[n][i] = 0 THEN [wg EXCEPT ![n][i] = req[r].got] ELSE wg
  /\ req' = Ends(r)
  /\ UNCHANGED <<rows, zt, external, page, build, ops>>

\* The controller's key, else the one there is, else a new one.
PeerStore(r) ==
  LET n == req[r].node i == req[r].name IN
  /\ At(r, "peer", "store")
  /\ IF req[r].got # 0
     THEN /\ wg' = IF Row(node[n]) THEN [wg EXCEPT ![n][i] = req[r].got] ELSE wg
          /\ req' = Ends(r)
     ELSE /\ wg' = wg
          /\ req' = IF wg[n][i] # 0 THEN Ends(r) ELSE Goto(r, "mint")
  /\ UNCHANGED <<rows, zt, external, page, build, ops>>

\* The key the conf, script and QR pages hand out, for the first tunnel: the
\* controller's client of that name if a peer is the controller's.
ConfKey(n) ==
  LET c == cluster[node[n].cluster]
      declared == DeclaredInterfaces(c, node[n])
      iface == Tunnels(Declared(c, node[n]))[Min(declared)]
  IN IF declared = {} THEN 0
     ELSE IF \E p \in ToSet(Items(Get(iface, "peers"))) : Get(p, "public_key") = Scalar("server")
     THEN ClientKey(MinionId(node[n]))
     ELSE Stored(wg[n], Get(iface, "name"))

-----------------------------------------------------------------------------
(* backfill_node_params, one node at a time. *)

StaleKeys == {"variant", "fleet_role", "role"}
Backfilled(snap) ==
  With(Only(snap.params, Keys(snap.params) \ StaleKeys), "salt",
       With(Get(snap.params, "salt"), "id", Scalar(MinionId(snap))))

Backfill(r, n) == Begin(r, n, Request("backfill", "save", n, node[n]))

BackfillSave(r) ==
  /\ At(r, "backfill", "save")
  /\ IF Backfilled(req[r].snap) = req[r].snap.params
     THEN req' = Ends(r) /\ UNCHANGED <<rows, page, build, ops>>
     ELSE SaveParams(r, req[r].node, Backfilled(req[r].snap), Ends(r))
  /\ UNCHANGED <<idents, external>>

-----------------------------------------------------------------------------
(* Bakes and the pillar endpoint. *)

PublishVersion(v) ==
  /\ Operation
  /\ v = version + 1
  /\ version' = v
  /\ UNCHANGED <<cluster, node, idents, external, page, build, req>>

BakeNode(b, n) ==
  /\ Operation
  /\ build[b] = None /\ Row(node[n])
  /\ build' = [build EXCEPT ![b] =
       [node |-> n, cluster |-> node[n].cluster, version |-> version, target |-> node[n].target,
        hostname |-> MinionId(node[n])]]
  /\ UNCHANGED <<rows, idents, external, page, req>>

\* resolve_node: the nodes its three lookups may give.
PinnedIn(p) == Get(Get(p, "salt"), "id")
PinnedId(n) == PinnedIn(node[n].params)

\* Mutant: the host name is looked up before the slug.
ResolveByHost(minion) ==
  LET active == {n \in Live : node[n].active}
      pinned == {n \in active : PinnedId(n) = Scalar(minion)}
      named  == {n \in active : node[n].slug = minion}
      hosts  == {n \in active : node[n].hostname = minion}
  IN IF pinned # {} THEN pinned ELSE IF hosts # {} THEN hosts ELSE named

Resolve(minion) ==
  LET active == {n \in Live : node[n].active}
      pinned == {n \in active : PinnedId(n) = Scalar(minion)}
      named  == {n \in active : node[n].slug = minion}
      hosts  == {n \in active : node[n].hostname = minion}
  IN IF pinned # {} THEN pinned ELSE IF named # {} THEN named ELSE hosts

-----------------------------------------------------------------------------
ClusterStep ==
  \E c \in Clusters :
    \/ \E slug \in ClusterSlugs, params \in ClusterForms :
         \/ \E tenant \in Tenants : ClusterCreate(c, tenant, slug, params)
         \/ ClusterEdit(c, slug, params)
    \/ ClusterDelete(c)
    \/ \E seed \in ClusterSeeds : SeedCluster(c, seed)

NodeStep ==
  \E n \in Nodes :
    \/ \E c \in Clusters, slug \in Slugs, hostname \in Hostnames, params \in NodeForms :
         NodeCreate(n, c, slug, hostname, params)
    \/ \E c \in Clusters, seed \in NodeSeeds : SeedCreates(n, c, seed)
    \/ \E m \in Nodes, slug \in Slugs : NodeClone(n, m, slug)
    \/ NodeDelete(n)
    \/ OpenPage(n)
    \/ \E b \in Builds : BakeNode(b, n)

Arrive ==
  \E r \in Requests, n \in Nodes :
    \/ page[n] # None /\ \E post \in Posts(page[n]) : PostEdit(r, n, post)
    \/ \E w \in Networks : Join(r, n, w)
    \/ \E targets \in {{}} \cup {{w} : w \in Networks}, force \in BOOLEAN :
         GenerateNetworks(r, n, targets, force)
    \/ \E targets \in {{}} \cup {{i} : i \in Interfaces}, force \in BOOLEAN :
         GenerateKeys(r, n, targets, force)
    \/ \E i \in Interfaces, controller \in BOOLEAN : AddPeer(r, n, i, controller)
    \/ Backfill(r, n)
    \/ \E seed \in NodeSeeds : SeedFinds(r, n, seed)

Proceed ==
  \E r \in Requests :
    \/ EditSave(r) \/ JoinSave(r) \/ JoinStore(r) \/ JoinRegister(r)
    \/ \E w \in Networks : CheckNetwork(r, w)
    \/ \E i \in Interfaces : CheckKey(r, i)
    \/ StoreNetwork(r) \/ StoreKey(r)
    \/ ListClients(r) \/ CreateClient(r) \/ PeerSave(r) \/ PeerStore(r)
    \/ BackfillSave(r) \/ Finish(r)

Next == ClusterStep \/ NodeStep \/ Arrive \/ Proceed \/ \E v \in DOMAIN Overrides : PublishVersion(v)

Spec == Init /\ [][Next]_vars

-----------------------------------------------------------------------------
(* What should hold. *)

\* A bake and the pillar endpoint give a device the same pillar (pillar.py
\* says they stay in lock-step; the two are separate code), as long as the
\* node has not moved and the preset has no newer version than the build's.
\* The file the bake writes only adds the vendored defaults below it; on Batocera
\* it only sets the list of states, and the minion is seeded with the id of its node.
LockStep ==
  \A b \in Builds :
    ( /\ build[b] # None /\ HasNode(b)
      /\ build[b].cluster = node[build[b].node].cluster
      /\ build[b].version = version ) =>
    /\ Pillar(BakedModel(b)) = ServedPillar(build[b].node)
    /\ ExtendedBy(ServedPillar(build[b].node), WrittenPillar(Defaults, Pillar(BakedModel(b))))
    /\ LET served == ServedPillar(build[b].node) IN
       ExtendedBy(Only(served, Keys(served) \ {"states"}), BatoceraPillar(Pillar(BakedModel(b))))
    /\ SeededId(BakedModel(b), build[b].hostname) = SaltIdOf(build[b].node)

\* A device that asks with its salt id gets the pillar of its own node, when the
\* node pins a string or nothing, its cluster and the preset pin no id for all of
\* theirs, and no other active node has this id as its own or as its slug.
MinionGetsOwnPillar ==
  \A n \in Live :
    LET others == {m \in Live \ {n} : node[m].active} IN
    ( /\ node[n].active /\ IsScalar(PinnedId(n))
      /\ PinnedIn(Overrides[version]) = Blank /\ PinnedIn(cluster[node[n].cluster].params) = Blank
      /\ \A m \in others : SaltIdOf(n) \notin {SaltIdOf(m), node[m].slug} )
    => Resolve(SaltIdOf(n)) = {n}

\* What a node sets is in the joined parameters, over its cluster's; the
\* items of a cluster's list reach each of its nodes.
LayersJoin ==
  \A n \in Live :
    LET c == cluster[node[n].cluster].params
        joined == Declared(cluster[node[n].cluster], node[n])
    IN /\ ExtendedBy(node[n].params, joined)
       /\ \A k \in Keys(c) : \A l \in Keys(c.dict[k]) :
            LET own == Get(node[n].params, k) IN
            (k \notin Keys(node[n].params) \/ (IsDict(own) /\ (l \notin Keys(own) \/ IsList(Get(own, l))))) =>
              ToSet(Items(c.dict[k].dict[l])) \subseteq ToSet(Items(Get(Get(joined, k), l)))

\* A network a node declares (by network_id or by the older network) and has
\* an identity for is baked with it, whatever route declared it: its own
\* parameters, its cluster's, or the join button.
IdentityBaked ==
  \A n \in Live, w \in Networks :
    LET declared == Items(Get(Get(Declared(cluster[node[n].cluster], node[n]), "zerotier"), "networks"))
        baked == Items(Get(Get(ServedPillar(n), "zerotier"), "networks"))
        entries == {e \in ToSet(baked) : Get(e, "network_id") = Scalar(w)}
    IN /\ (\E e \in ToSet(declared) : NetworkId(e) = Scalar(w)) => entries # {}
       /\ zt[n][w] # 0 => \A e \in entries : /\ Get(e, "member_id") = Member(zt[n][w])
                                             /\ Get(e, "secret_key") = Secret(zt[n][w])

\* An identity the join button stored is authorised on the controller, or
\* will be, or the user was told to do it.
StoredIsAuthorised ==
  \A n \in Live, w \in Networks :
    LET m == zt[n][w] IN
    (m # 0 /\ minted[m] = "join") =>
      m \in authorised \cup told \/ \E r \in Requests : At(r, "join", "register") /\ req[r].got = m

\* The address the node page suggests is in the pool, held by no node and
\* not reserved, and is a host's unless the last host is taken.
SuggestedIsFree ==
  LET used == UNION {UsedHosts(node[n].params) : n \in Live}
      s == Suggestion(Pool, used)
  IN s # 0 => /\ s \in 1 .. Pool /\ s \notin used \cup Reserved
              /\ (s < Pool \/ Pool - 1 \in used)

OwnEntries(n) ==
  LET entries(k, l) == ToSet(Items(Get(Get(node[n].params, k), l)))
  IN {NetworkId(e) : e \in entries("zerotier", "networks")}
       \cup {Get(e, "name") : e \in entries("wireguard", "interfaces")}

\* A network or a tunnel leaves the parameters of a node only by an edit of
\* them or the seed of test nodes, or by a request that read them before another one's write.
EntriesKept ==
  [][\A n \in Live : Row(node'[n]) /\ ~(OwnEntries(n) \subseteq OwnEntries(n)') =>
       \E r \in Requests : /\ ~Idle(r) /\ req'[r] # req[r] /\ req[r].node = n
                           /\ (req[r].kind \in {"edit", "seed"} \/ req[r].stale)]_vars

\* When a request has stored the key the controller gave it, the key its
\* pages hand out is the one that is baked for a tunnel of the node, unless the node
\* was edited while it ran or the controller got another client of the name since.
TunnelHandedOut ==
  [][\A r \in Requests, n \in Nodes :
       ( /\ At(r, "peer", "store") /\ req[r].node = n /\ req'[r] = None
         /\ req[r].got # 0 /\ ~req[r].stale /\ Row(node[n]) )
       => \/ \E i \in InterfaceNames(cluster[node[n].cluster], node[n])' : ConfKey(n)' = wg'[n][i]
          \/ ConfKey(n)' > req[r].got]_vars
=============================================================================
