--------------------------- MODULE EffectiveModel ---------------------------
(***************************************************************************)
(* The effective model of a device, as pure operators: the layers that are *)
(* merged into it, the identities spliced into it, and what is read from   *)
(* it.                                                                     *)
(*                                                                         *)
(*   tenants/models.py        _deep_merge, splice_*, Node.effective_model  *)
(*   builds/orchestrator.py   _deep_merge, _build_effective_model,         *)
(*                            _write_pillar                                *)
(*   builds/provisioners/batocera_pkg.py   _write_pillar, _seed_minion_id  *)
(*   tenants/pillar.py        node_pillar                                  *)
(*   osbakery/views.py        _declared_*, _suggest_addr,                  *)
(*                            _wireguard_node_conf, node_bake_script       *)
(*                                                                         *)
(* JSON values are trees with a tag: dictionaries (functions from keys),   *)
(* lists and scalars, and for the leaves the code computes with, tunnel    *)
(* addresses and subnets.  Blank is what dict.get gives for a missing key  *)
(* and every value that is false in Python.  The code has two copies of    *)
(* _deep_merge, of the device layer and of the salt id rule, one for the   *)
(* node page and one for the bake: NodeModel and BuildModel.               *)
(***************************************************************************)
EXTENDS Naturals, Sequences, SequencesExt

Dict(f)   == [dict |-> f]
List(s)   == [list |-> s]
Scalar(v) == [scalar |-> v]
Addr(h, p)  == [host |-> h, prefix |-> p]      \* prefix 0: a bare address
Cidr(hs, p) == [hosts |-> hs, prefix |-> p]    \* prefix 0: the default route
Unset == ""
Blank == Scalar(Unset)
Empty == Dict(<<>>)

IsDict(t) == DOMAIN t = {"dict"}
IsList(t) == DOMAIN t = {"list"}
IsScalar(t) == DOMAIN t = {"scalar"} /\ t = Scalar(t.scalar)
Keys(t) == IF IsDict(t) THEN DOMAIN t.dict ELSE {}
Get(t, k) == IF k \in Keys(t) THEN t.dict[k] ELSE Blank
Items(t) == IF IsList(t) THEN t.list ELSE <<>>
Only(t, K) == Dict([k \in Keys(t) \cap K |-> t.dict[k]])
With(t, k, v) == Dict([x \in Keys(t) \cup {k} |-> IF x = k THEN v ELSE t.dict[x]])
Over(f, g) == [x \in DOMAIN f \cup DOMAIN g |-> IF x \in DOMAIN f THEN f[x] ELSE g[x]]
GetOr(t, k, legacy) == IF Get(t, k) # Blank THEN Get(t, k) ELSE Get(t, legacy)

-----------------------------------------------------------------------------
(* _deep_merge.                                                            *)

Union(base, more) ==
  LET merged[i \in 0 .. Len(more)] ==
        IF i = 0 THEN base
        ELSE IF Contains(merged[i - 1], more[i]) THEN merged[i - 1]
        ELSE Append(merged[i - 1], more[i])
  IN merged[Len(more)]

\* Mutant: a list of the node replaces the cluster's.
ReplaceLists(old, new) == new

MergedLeaves(old, new) == IF IsList(old) /\ IsList(new) THEN List(Union(old.list, new.list)) ELSE new

\* What both have under a key is merged by Merged.
MergeBy(Merged(_, _), base, over) ==
  Dict([k \in Keys(base) \cup Keys(over) |->
          IF k \in Keys(over) THEN Merged(Get(base, k), over.dict[k]) ELSE base.dict[k]])

\* The recursion, from the leaves up: parameters are dictionaries at most four deep.
Merged1(old, new) ==
  IF IsDict(old) /\ IsDict(new) THEN MergeBy(MergedLeaves, old, new) ELSE MergedLeaves(old, new)
Merged2(old, new) ==
  IF IsDict(old) /\ IsDict(new) THEN MergeBy(Merged1, old, new) ELSE MergedLeaves(old, new)
Merged3(old, new) ==
  IF IsDict(old) /\ IsDict(new) THEN MergeBy(Merged2, old, new) ELSE MergedLeaves(old, new)
DeepMerge(base, over) == MergeBy(Merged3, base, over)

\* That they are, and that dictionaries and lists are finite.
Flat(t) == ~IsDict(t) /\ (IsList(t) => t.list \in Seq(ToSet(t.list)))
FormedBy(Formed(_), t) ==
  IF IsDict(t) THEN \A k \in Keys(t) : Formed(t.dict[k]) ELSE Flat(t)
Formed1(t) == FormedBy(Flat, t)
Formed2(t) == FormedBy(Formed1, t)
Formed3(t) == FormedBy(Formed2, t)
Parameters(t) == IsDict(t) /\ IsFiniteSet(Keys(t)) /\ FormedBy(Formed3, t)

-----------------------------------------------------------------------------
(* The identities of a node.  members and keys map the networks and the    *)
(* interfaces it has an identity for to a number that stands for the pair  *)
(* of keys (0: none).                                                      *)

Member(m) == [member |-> m]
Secret(m) == [secret |-> m]
WgKey(k)  == [key |-> k]

NetworkId(e) == GetOr(e, "network_id", "network")

Popped(e, k, legacy) == {k} \cup (IF Get(e, k) # Blank THEN {} ELSE {legacy})

Stored(ids, t) == IF IsScalar(t) /\ t.scalar \in DOMAIN ids THEN ids[t.scalar] ELSE 0

\* Mutant: the legacy name of the network id is no longer read.
SpliceNewNames(e, members) ==
  LET m == Stored(members, Get(e, "network_id")) IN
  IF m = 0 THEN e ELSE With(With(e, "member_id", Member(m)), "secret_key", Secret(m))

SpliceNetwork(e, members) ==
  LET nid   == NetworkId(e)
      label == GetOr(e, "network_name", "name")
      m     == Stored(members, nid)
      rest  == Keys(e) \ (Popped(e, "network_id", "network")
                            \cup Popped(e, "network_name", "name") \cup {"id"})
      named(k, v) == IF v = Blank THEN <<>> ELSE [x \in {k} |-> v]
      keys  == IF m = 0 THEN <<>>
               ELSE [member_id |-> Member(m), public_key |-> Member(m), secret_key |-> Secret(m)]
  IN Dict(Over(named("network_id", nid),
               Over(named("network_name", label), Over(keys, Only(e, rest).dict))))

SpliceZerotier(model, members) ==
  LET zt == Get(model, "zerotier") nets == Get(zt, "networks") IN
  IF ~IsList(nets) THEN model
  ELSE With(model, "zerotier", With(zt, "networks",
         List([i \in DOMAIN nets.list |->
                 IF IsDict(nets.list[i]) THEN SpliceNetwork(nets.list[i], members)
                 ELSE nets.list[i]])))

AllowedIps(peers) == FlattenSeq([i \in DOMAIN peers |-> Items(Get(peers[i], "allowed_ips"))])

\* The first subnet of a peer that contains a bare address gives it its prefix.
AddressWithPrefix(address, peers) ==
  LET nets == AllowedIps(peers)
      fix(a) ==
        LET i == SelectInSeq(nets, LAMBDA net : net.prefix # 0 /\ a.host \in net.hosts) IN
        IF a.prefix # 0 \/ i = 0 THEN a ELSE Addr(a.host, nets[i].prefix)
  IN IF IsList(address) THEN List([i \in DOMAIN address.list |-> fix(address.list[i])])
     ELSE fix(address)

SpliceInterface(e, keys) ==
  LET k == Stored(keys, Get(e, "name"))
      keyed == IF k # 0 /\ Get(e, "private_key") = Blank
               THEN With(e, "private_key", WgKey(k)) ELSE e
  IN IF Get(keyed, "address") = Blank THEN keyed
     ELSE With(keyed, "address", AddressWithPrefix(Get(e, "address"), Items(Get(e, "peers"))))

SpliceWireguard(model, keys) ==
  LET wg == Get(model, "wireguard") ifaces == Get(wg, "interfaces") IN
  IF ~IsList(ifaces) THEN model
  ELSE With(model, "wireguard", With(wg, "interfaces",
         List([i \in DOMAIN ifaces.list |->
                 IF IsDict(ifaces.list[i]) THEN SpliceInterface(ifaces.list[i], keys)
                 ELSE ifaces.list[i]])))

-----------------------------------------------------------------------------
(* Node.effective_model and _build_effective_model.  A node is a row with  *)
(* cluster, slug, hostname, target and params; hostname may be Unset.      *)

MinionId(n) == IF n.hostname = Unset THEN n.slug ELSE n.hostname

Device(target) == Dict([device |-> Dict([target |-> Scalar(target)])])

WithSaltId(model, id) ==
  IF id = Unset \/ Get(Get(model, "salt"), "id") # Blank THEN model
  ELSE DeepMerge(model, Dict([salt |-> Dict([id |-> Scalar(id)])]))

WithInstance(model, label) ==
  IF label = Unset \/ ~IsDict(Get(model, "alloy")) \/ Get(Get(Get(model, "alloy"), "labels"), "instance") # Blank
  THEN model
  ELSE DeepMerge(model, Dict([alloy |-> Dict([labels |-> Dict([instance |-> Scalar(label)])])]))

NodeModel(overrides, c, n, members, keys) ==
  LET layered == DeepMerge(DeepMerge(DeepMerge(DeepMerge(Empty, overrides), Device(n.target)),
                                     c.params), n.params)
      options == DeepMerge(layered, Dict([options |-> Dict(
                   [hostname |-> Scalar(MinionId(n)), minion_id |-> Scalar(n.slug)])]))
      named   == WithInstance(WithSaltId(options, n.slug), MinionId(n))
      stamped == DeepMerge(named, Dict([osbakery |-> Dict(
                   [node |-> Scalar(n.slug), cluster |-> Scalar(c.slug)])]))
  IN SpliceWireguard(SpliceZerotier(stamped, members), keys)

\* Mutant: the bake seeds the host name as the minion id, as it once did.
BuildModelByHost(overrides, b, hasCluster, c, hasNode, n, members, keys) ==
  LET layered == DeepMerge(DeepMerge(DeepMerge(overrides, Device(b.target)),
                             IF hasCluster THEN c.params ELSE Empty),
                             IF hasNode THEN n.params ELSE Empty)
      named == WithInstance(WithSaltId(layered, b.hostname), b.hostname)
  IN IF hasNode THEN SpliceWireguard(SpliceZerotier(named, members), keys) ELSE named

\* A build keeps its version, target and option values; its cluster and its
\* node are read when the bake starts, and are missing if they were
\* deleted since, or were never chosen.
BuildModel(overrides, b, hasCluster, c, hasNode, n, members, keys) ==
  LET device  == DeepMerge(DeepMerge(Empty, overrides), Device(b.target))
      shared  == IF hasCluster THEN DeepMerge(device, c.params) ELSE device
      layered == IF hasNode THEN DeepMerge(shared, n.params) ELSE shared
      options == DeepMerge(layered, Dict([options |-> Dict(
                   [hostname |-> Scalar(b.hostname), minion_id |-> Scalar(b.hostname)])]))
      salt    == IF hasNode THEN n.slug ELSE b.hostname
      named   == WithInstance(WithSaltId(options, salt), IF hasNode THEN MinionId(n) ELSE salt)
      stamped == DeepMerge(named, Dict([osbakery |-> Dict(
                   [node    |-> IF hasNode THEN Scalar(n.slug) ELSE Blank,
                    cluster |-> IF hasCluster THEN Scalar(c.slug) ELSE Blank])]))
  IN IF hasNode THEN SpliceWireguard(SpliceZerotier(stamped, members), keys) ELSE stamped

NonPillarKeys == {"osbakery", "device", "options", "role", "vpn"}
Pillar(model) == Only(model, Keys(model) \ NonPillarKeys)

\* The pillar the bake writes: the vendored defaults of the formulas it has
\* keys for, merged under it (the order of the keys is left open).
WrittenPillar(defaults, pillar) ==
  LET formulas == SetToSeq(Keys(pillar))
      merged[i \in 0 .. Len(formulas)] ==
        IF i = 0 THEN Empty ELSE DeepMerge(merged[i - 1], Get(defaults, formulas[i]))
  IN DeepMerge(merged[Len(formulas)], pillar)

\* What batocera_pkg writes instead: the keys become the list of states, batocera
\* first (the order of the others is left open).
BatoceraPillar(pillar) ==
  LET first == IF "batocera" \in Keys(pillar) THEN <<"batocera">> ELSE <<>>
      names == first \o SetToSeq(Keys(pillar) \ {"batocera"})
  IN With(pillar, "states", List([i \in DOMAIN names |-> Scalar(names[i])]))

\* The minion id batocera_pkg seeds.
SeededId(model, hostname) ==
  LET id == Get(Get(model, "salt"), "id") IN IF id = Blank THEN hostname ELSE id.scalar

\* A value that another one extends: more keys, more items, the same scalars.
LeafKept(t, u) == IF IsList(t) THEN ToSet(t.list) \subseteq ToSet(Items(u)) ELSE t = u
KeptBy(Kept(_, _), t, u) ==
  IF IsDict(t) THEN Keys(t) \subseteq Keys(u) /\ \A k \in Keys(t) : Kept(t.dict[k], u.dict[k])
  ELSE LeafKept(t, u)
Kept1(t, u) == KeptBy(LeafKept, t, u)
Kept2(t, u) == KeptBy(Kept1, t, u)
Kept3(t, u) == KeptBy(Kept2, t, u)
ExtendedBy(t, u) == KeptBy(Kept3, t, u)

\* The minion id of the init script, and the default ZeroTier member name.
SaltId(model, n) ==
  LET id == Get(Get(model, "salt"), "id") IN IF id = Blank THEN MinionId(n) ELSE id.scalar

-----------------------------------------------------------------------------
(* What the node page reads from the parameters, before identities.        *)

Declared(c, n) == DeepMerge(c.params, n.params)

DeclaredNetworks(c, n) ==
  LET nets == Items(Get(Get(Declared(c, n), "zerotier"), "networks"))
      id(e) == IF NetworkId(e) # Blank THEN NetworkId(e) ELSE Get(e, "id")
  IN {id(nets[i]).scalar : i \in {j \in DOMAIN nets : IsDict(nets[j]) /\ id(nets[j]) # Blank}}

Tunnels(params) == Items(Get(Get(params, "wireguard"), "interfaces"))

\* By their places: of the interfaces with one name the first stays, the cluster's.
DeclaredInterfaces(c, n) ==
  LET all == Tunnels(Declared(c, n))
      name(i) == Get(all[i], "name")
      named == {i \in DOMAIN all : IsDict(all[i]) /\ name(i) # Blank}
  IN {i \in named : \A j \in named : j < i => name(j) # name(i)}

InterfaceNames(c, n) == {Get(Tunnels(Declared(c, n))[i], "name").scalar : i \in DeclaredInterfaces(c, n)}

\* The addresses of the tunnels a node declares itself.
Addresses(params) ==
  LET ifaces == Tunnels(params)
      listed(a) == IF IsList(a) THEN a.list ELSE IF a = Blank THEN <<>> ELSE <<a>>
  IN UNION {ToSet(listed(Get(ifaces[i], "address"))) : i \in DOMAIN ifaces}

UsedHosts(params) == {a.host : a \in Addresses(params)}

Reserved == {1, 2}

\* Mutant: the highest address in use itself.
SuggestHighest(last, used) ==
  LET inPool == used \cap 0 .. last
      free == (1 .. last - 1) \ (Reserved \cup used)
  IN IF inPool # {} THEN CHOOSE h \in inPool : \A g \in inPool : g <= h
     ELSE IF free = {} THEN 0 ELSE CHOOSE h \in free : \A g \in free : h <= g

\* A pool has the addresses 0..last: 0 is the network, last the broadcast
\* address, 1 the server and 2 the infrastructure host.  The highest address
\* in use plus one, else the first free one, else none (0).
Suggestion(last, used) ==
  LET inPool == used \cap 0 .. last
      next == IF inPool = {} THEN 0 ELSE 1 + CHOOSE h \in inPool : \A g \in inPool : g <= h
      free == (1 .. last - 1) \ (Reserved \cup used)
  IN IF inPool # {} /\ next <= last /\ next \notin Reserved THEN next
     ELSE IF free = {} THEN 0 ELSE CHOOSE h \in free : \A g \in free : h <= g

=============================================================================
