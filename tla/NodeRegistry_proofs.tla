------------------------ MODULE NodeRegistry_proofs ------------------------
(***************************************************************************)
(* What holds of NodeRegistry for any clusters, nodes, requests, forms and *)
(* bounds.                                                                 *)
(***************************************************************************)
EXTENDS NodeRegistry, EffectiveModel_proofs

-----------------------------------------------------------------------------
(* What the requests make of the parameters they read. *)

\* The first and the last index of some.
LEMMA IndexLemma ==
  ASSUME NEW n \in Nat, NEW I \in SUBSET (1 .. n)
  PROVE  /\ (IF I # {} THEN Min(I) ELSE 0) \in I \cup {0}
         /\ (IF I # {} THEN Max(I) ELSE 0) \in I \cup {0}
         /\ I # {} => Min(I) \in I /\ Max(I) \in I
         /\ \A i \in I : i <= Max(I)
<1>1. I \in SUBSET Nat /\ \A i \in I : i <= n
  OBVIOUS
<1>2. ASSUME I # {} PROVE Min(I) \in I /\ Max(I) \in I /\ \A i \in I : i <= Max(I)
  <2>1. \E m \in I : \A i \in I : m <= i
    BY <1>1, <1>2, LeastOf
  <2>2. \E m \in I : \A i \in I : i <= m
    BY <1>1, <1>2, GreatestBelow
  <2>3. \E m \in I : \A i \in I : m >= i
    BY <1>1, <2>2
  <2>4. Min(I) \in I /\ Max(I) \in I /\ \A i \in I : Max(I) >= i
    BY <2>1, <2>3, Zenon DEF Min, Max
  <2> QED
    BY <1>1, <2>4
<1> QED
  BY <1>2

LEMMA UpsertLemma ==
  ASSUME NEW list, list \in Seq(ToSet(list)), NEW i \in 0 .. Len(list), NEW item
  PROVE  /\ \E X : Upsert(list, i, item) \in Seq(X)
         /\ item \in ToSet(Upsert(list, i, item))
         /\ \A e \in ToSet(list) : e \in ToSet(Upsert(list, i, item)) \/ (i # 0 /\ e = list[i])
         /\ ToSet(Upsert(list, i, item)) \subseteq ToSet(list) \cup {item}
<1> DEFINE X == ToSet(list) \cup {item}
<1>1. list \in Seq(X) /\ item \in X
  BY SeqOfMore
<1> HIDE DEF X
<1>2. CASE i = 0
  <2>1. Upsert(list, i, item) = Append(list, item)
    BY <1>2 DEF Upsert
  <2> QED
    BY <1>1, <2>1, AppendItems
<1>3. CASE i # 0
  <2> DEFINE new == [list EXCEPT ![i] = item]
  <2>1. Upsert(list, i, item) = new
    BY <1>3 DEF Upsert
  <2>2. new \in Seq(X) /\ DOMAIN new = DOMAIN list /\ i \in DOMAIN list
    BY <1>1, <1>3
  <2>3. new[i] = item /\ \A j \in DOMAIN list \ {i} : new[j] = list[j]
    BY <2>2
  <2> HIDE DEF new
  <2>4. item \in ToSet(new)
    BY <2>2, <2>3 DEF ToSet
  <2>5. \A e \in ToSet(list) : e \in ToSet(new) \/ e = list[i]
    BY <2>2, <2>3 DEF ToSet
  <2>6. ToSet(new) \subseteq ToSet(list) \cup {item}
    BY <2>2, <2>3 DEF ToSet
  <2> QED
    BY <1>3, <2>1, <2>2, <2>4, <2>5, <2>6
<1> QED
  BY <1>2, <1>3

\* The section after a write to it.
LEMMA WithSection ==
  ASSUME NEW p, NEW k, NEW l, NEW X, NEW list \in Seq(X), Parameters(p)
  PROVE  LET new == With(p, k, With(Get(p, k), l, List(list))) IN
         /\ Parameters(new)
         /\ \A x : x # k => Get(new, x) = Get(p, x)
         /\ Section(new, k, l) = ToSet(list)
<1> DEFINE t == With(Get(p, k), l, List(list))
           new == With(p, k, t)
<1>1. Formed3(Get(p, k)) /\ Formed2(List(list))
  BY FormedGet, FlatList, FormedMore
<1>2. Formed3(t) /\ Get(t, l) = List(list)
  BY <1>1, WithFormed, WithLemma
<1> HIDE DEF t
<1>3. Parameters(new) /\ Get(new, k) = t /\ \A x : x # k => Get(new, x) = Get(p, x)
  BY <1>2, WithFormed, WithLemma
<1>4. Section(new, k, l) = ToSet(list)
  BY <1>2, <1>3, ListLemma DEF Section
<1> QED
  BY <1>3, <1>4 DEF t

LEMMA JoinedLemma ==
  ASSUME NEW snap, NEW net, NEW name, Parameters(snap.params), net # Unset
  PROVE  LET new == Joined(snap, net, name) IN
         /\ Parameters(new)
         /\ \A x : x # "zerotier" => Get(new, x) = Get(snap.params, x)
         /\ {NetworkId(e) : e \in Section(snap.params, "zerotier", "networks")} \subseteq
              {NetworkId(e) : e \in Section(new, "zerotier", "networks")}
<1> DEFINE p     == snap.params
           entry == [network_id |-> Scalar(net), network_name |-> Scalar("label"), member_name |-> Scalar(name)]
           nets  == Items(Get(Get(p, "zerotier"), "networks"))
           I     == {j \in 1 .. Len(nets) : IsDict(nets[j]) /\ NetworkId(nets[j]) = Scalar(net)}
           i     == IF I # {} THEN Min(I) ELSE 0
           item  == Dict(Over(entry, Found(nets, i).dict))
           list  == Upsert(nets, i, item)
           new   == Joined(snap, net, name)
<1>1. new = With(p, "zerotier", With(Get(p, "zerotier"), "networks", List(list)))
  BY Zenon DEF Joined, SelectInSeq
<1>2. nets \in Seq(ToSet(nets)) /\ Len(nets) \in Nat
  BY FormedGet, FormedItems
<1> HIDE DEF nets
<1>3. i \in I \cup {0} /\ I \in SUBSET (1 .. Len(nets))
  BY <1>2, IndexLemma, Zenon
<1>4. NetworkId(item) = Scalar(net)
  <2> DEFINE f == Over(entry, Found(nets, i).dict)
  <2>1. DOMAIN entry = {"network_id", "network_name", "member_name"} /\ entry["network_id"] = Scalar(net)
    OBVIOUS
  <2> HIDE DEF entry, i
  <2>2. "network_id" \in DOMAIN f /\ f["network_id"] = entry["network_id"]
    <3>1. DOMAIN f = DOMAIN entry \cup DOMAIN Found(nets, i).dict
      BY OverLemma, Zenon
    <3>2. \A x \in DOMAIN entry : f[x] = entry[x]
      BY OverLemma, Zenon
    <3> HIDE DEF f
    <3> QED
      BY <2>1, <3>1, <3>2
  <2> HIDE DEF f
  <2>3. Get(Dict(f), "network_id") = Scalar(net) /\ Scalar(net) # Blank
    BY <2>1, <2>2, DictLemma, ScalarSame DEF Get, Blank
  <2> QED
    BY <2>3 DEF NetworkId, GetOr, f, i
<1>5. i # 0 => NetworkId(nets[i]) = Scalar(net)
  <2> HIDE DEF i
  <2> QED
    BY <1>3
<1> HIDE DEF i, item, I
<1>6. /\ \E X : list \in Seq(X)
      /\ item \in ToSet(list)
      /\ \A e \in ToSet(nets) : e \in ToSet(list) \/ (i # 0 /\ e = nets[i])
  <2>1. i \in 0 .. Len(nets)
    BY <1>2, <1>3
  <2> QED
    BY <1>2, <2>1, UpsertLemma
<1> HIDE DEF list
<1>7. /\ Parameters(new)
      /\ \A x : x # "zerotier" => Get(new, x) = Get(p, x)
      /\ Section(new, "zerotier", "networks") = ToSet(list)
  BY <1>1, <1>6, WithSection
<1> HIDE DEF new
<1>8. Section(p, "zerotier", "networks") = ToSet(nets)
  BY DEF Section, nets
<1>9. \A e \in ToSet(nets) : \E g \in ToSet(list) : NetworkId(g) = NetworkId(e)
  BY <1>4, <1>5, <1>6
<1> QED
  BY <1>7, <1>8, <1>9 DEF new

LEMMA TunnelledLemma ==
  ASSUME NEW snap, NEW i \in Interfaces, NEW k, RowParameters(snap.params)
  PROVE  LET new == Tunnelled(snap, i, k) IN
         /\ RowParameters(new)
         /\ \E e \in ToSet(Tunnels(new)) : IsDict(e) /\ Get(e, "name") = Scalar(i)
         /\ \A x : x # "wireguard" => Get(new, x) = Get(snap.params, x)
         /\ {Get(e, "name") : e \in Section(snap.params, "wireguard", "interfaces")} \subseteq
              {Get(e, "name") : e \in Section(new, "wireguard", "interfaces")}
<1> DEFINE p      == snap.params
           addr   == IF k = 0 THEN <<>> ELSE [address |-> List(<<TunnelAddress(k)>>)]
           ifaces == Items(Get(Get(p, "wireguard"), "interfaces"))
           I      == {j \in 1 .. Len(ifaces) : IsDict(ifaces[j]) /\ Get(ifaces[j], "name") = Scalar(i)}
           at     == IF I # {} THEN Min(I) ELSE 0
           old    == Found(ifaces, at)
           named  == With(Dict(Over(addr, old.dict)), "name", Scalar(i))
           iface  == With(named, "peers", List(Append(Items(Get(old, "peers")), Peer)))
           list   == Upsert(ifaces, at, iface)
           new    == Tunnelled(snap, i, k)
<1>1. new = With(p, "wireguard", With(Get(p, "wireguard"), "interfaces", List(list)))
  BY Zenon DEF Tunnelled, SelectInSeq
<1>2. /\ Parameters(p)
      /\ ifaces \in Seq(ToSet(ifaces)) /\ Len(ifaces) \in Nat
  BY FormedGet, FormedItems DEF RowParameters
<1> HIDE DEF ifaces
<1>3. at \in I \cup {0} /\ I \in SUBSET (1 .. Len(ifaces))
  BY <1>2, IndexLemma, Zenon
<1>4. Get(iface, "name") = Scalar(i) /\ IsDict(iface)
  <2>1. Get(named, "name") = Scalar(i)
    BY WithLemma
  <2> HIDE DEF named, old
  <2> QED
    BY <2>1, WithLemma
<1>5. at # 0 => Get(ifaces[at], "name") = Scalar(i)
  <2> HIDE DEF at
  <2> QED
    BY <1>3
<1> HIDE DEF at, iface, I
<1>6. /\ \E X : list \in Seq(X)
      /\ iface \in ToSet(list)
      /\ \A e \in ToSet(ifaces) : e \in ToSet(list) \/ (at # 0 /\ e = ifaces[at])
      /\ ToSet(list) \subseteq ToSet(ifaces) \cup {iface}
  <2>1. at \in 0 .. Len(ifaces)
    BY <1>2, <1>3
  <2> QED
    BY <1>2, <2>1, UpsertLemma
<1> HIDE DEF list
<1>7. /\ Parameters(new)
      /\ \A x : x # "wireguard" => Get(new, x) = Get(p, x)
      /\ Section(new, "wireguard", "interfaces") = ToSet(list)
  BY <1>1, <1>2, <1>6, WithSection
<1> HIDE DEF new
<1>8. Section(p, "wireguard", "interfaces") = ToSet(ifaces)
  BY DEF Section, ifaces
<1>9. ToSet(Tunnels(p)) = ToSet(ifaces) /\ ToSet(Tunnels(new)) = ToSet(list)
  BY <1>7, <1>8 DEF Section, Tunnels
<1>10. RowParameters(new)
  BY <1>4, <1>6, <1>7, <1>9 DEF RowParameters
<1>11. \E e \in ToSet(Tunnels(new)) : IsDict(e) /\ Get(e, "name") = Scalar(i)
  BY <1>4, <1>6, <1>9
<1>12. \A e \in ToSet(ifaces) : \E g \in ToSet(list) : Get(g, "name") = Get(e, "name")
  BY <1>4, <1>5, <1>6
<1> QED
  BY <1>7, <1>8, <1>10, <1>11, <1>12 DEF new

\* What leaves the tunnels as they are leaves their names.
LEMMA NamesKept ==
  ASSUME NEW p, RowParameters(p), NEW new, Parameters(new), Get(new, "wireguard") = Get(p, "wireguard")
  PROVE  RowParameters(new)
BY DEF RowParameters, Tunnels

LEMMA BackfilledLemma ==
  ASSUME NEW snap, Parameters(snap.params)
  PROVE  /\ Parameters(Backfilled(snap))
         /\ \A x \in {"zerotier", "wireguard"} : Get(Backfilled(snap), x) = Get(snap.params, x)
<1> DEFINE p == snap.params
           kept == Only(p, Keys(p) \ StaleKeys)
           salt == With(Get(p, "salt"), "id", Scalar(MinionId(snap)))
           new == With(kept, "salt", salt)
<1>1. Formed3(Get(p, "salt")) /\ Formed2(Scalar(MinionId(snap)))
  BY FormedGet, ScalarFlat, FormedMore
<1>2. Formed3(salt)
  BY <1>1, WithFormed
<1>3. /\ IsDict(kept) /\ Keys(kept) = Keys(p) \ StaleKeys
      /\ \A x : Get(kept, x) = IF x \in Keys(p) \ StaleKeys THEN Get(p, x) ELSE Blank
  BY OnlyLemma
<1> HIDE DEF kept
<1>4. Parameters(kept)
  <2>1. IsFiniteSet(Keys(kept))
    BY <1>3, ParametersIsDict, FS_Subset
  <2> QED
    BY <1>3, <2>1, FormedGet, FormedDict
<1>5. \A x \in {"zerotier", "wireguard"} : Get(kept, x) = Get(p, x)
  BY <1>3, GetLemma DEF StaleKeys
<1> HIDE DEF salt
<1>6. Parameters(new) /\ \A x : x # "salt" => Get(new, x) = Get(kept, x)
  BY <1>2, <1>4, WithFormed, WithLemma
<1>7. Backfilled(snap) = new
  BY Zenon DEF Backfilled, kept, salt
<1> QED
  BY <1>5, <1>6, <1>7

-----------------------------------------------------------------------------
(* Types. *)

Pcs == {"save", "store", "register", "mint", "list", "create", "fetch"}

IsRequest(q) ==
  /\ q \in [kind: Kinds, pc: Pcs, node: Nodes, snap: {q.snap}, stale: BOOLEAN, post: {q.post},
            todo: {q.todo}, name: {q.name}, replace: BOOLEAN, got: Nat]
  /\ IsNodeRow(q.snap) /\ IsNodeRow(q.post)
  /\ q.kind = "join" => q.todo \subseteq Networks
  /\ q.kind = "peer" => q.name \in Interfaces

\* The numbers a request holds are those of identities and keys there are.
Holds(q, ids, ks) ==
  /\ q.kind = "join" => q.got \in 0 .. Len(ids) /\ (q.pc = "register" => q.got # 0)
  /\ q.kind = "peer" => q.got \in 0 .. Len(ks)

RowTypes ==
  /\ DOMAIN cluster = Clusters /\ DOMAIN node = Nodes
  /\ \A c \in Clusters : Row(cluster[c]) => IsClusterRow(cluster[c])
  /\ \A n \in Nodes : Row(node[n]) => IsNodeRow(node[n]) /\ Row(cluster[node[n].cluster])
  /\ version \in DOMAIN Overrides

IdentityTypes ==
  /\ minted \in Seq({"join", "generate"}) /\ keys \in Seq(Hostnames \cup Slugs \cup {Unset, Local})
  /\ zt \in [Nodes -> [Networks -> 0 .. Len(minted)]]
  /\ wg \in [Nodes -> [Interfaces -> 0 .. Len(keys)]]
  /\ \A n \in Nodes : ~Row(node[n]) => zt[n] = NoIdentity /\ wg[n] = NoKey
  /\ authorised \subseteq 1 .. Len(minted) /\ told \subseteq 1 .. Len(minted)

PageTypes ==
  /\ DOMAIN page = Nodes
  /\ \A n \in Nodes : page[n] # None => IsNodeRow(page[n])

IsBuild(x) ==
  x \in [node: Nodes \cup {None}, cluster: Clusters \cup {None}, version: DOMAIN Overrides,
         target: {"pc-amd64"}, hostname: Hostnames \cup Slugs \cup {Unset}]

BuildTypes ==
  /\ DOMAIN build = Builds
  /\ \A b \in Builds : build[b] # None =>
       /\ IsBuild(build[b])
       /\ build[b].node # None => Row(node[build[b].node])

RequestTypes ==
  /\ DOMAIN req = Requests
  /\ \A r \in Requests : req[r] # None =>
       IsRequest(req[r]) /\ Holds(req[r], minted, keys) /\ node[req[r].node] # None

TypeInv ==
  /\ RowTypes /\ IdentityTypes /\ PageTypes /\ BuildTypes /\ RequestTypes
  /\ ops \in 0 .. MaxOps

LEMMA Absent ==
  /\ ~Row(None) /\ ~Row(Gone) /\ None # Gone
  /\ \A x : IsClusterRow(x) => Row(x)
  /\ \A x : IsNodeRow(x) => Row(x)
<1>1. ~Row(None) /\ ~Row(Gone)
  BY DEF Row
<1>2. None # Gone
  BY DEF None, Gone
<1>3. ASSUME NEW x, IsClusterRow(x) PROVE Row(x)
  <2>1. "tenant" \in DOMAIN x
    BY <1>3 DEF IsClusterRow
  <2> QED
    BY <2>1 DEF Row, None, Gone
<1>4. ASSUME NEW x, IsNodeRow(x) PROVE Row(x)
  <2>1. "slug" \in DOMAIN x
    BY <1>4 DEF IsNodeRow
  <2> QED
    BY <2>1 DEF Row, None, Gone
<1> QED
  BY <1>1, <1>2, <1>3, <1>4

LEMMA RowFields ==
  ASSUME NEW x, IsNodeRow(x)
  PROVE  /\ x.cluster \in Clusters /\ x.slug \in Slugs /\ x.slug # Unset /\ x.target = "pc-amd64"
         /\ x.hostname \in Hostnames \cup Slugs \cup {Unset}
         /\ MinionId(x) \in Hostnames \cup Slugs \cup {Unset}
         /\ RowParameters(x.params) /\ Parameters(x.params)
BY RegistryAssumption DEF IsNodeRow, MinionId, RowParameters

LEMMA NodeRowFormed ==
  ASSUME NEW c \in Clusters, NEW slug \in Slugs, NEW hostname \in Hostnames \cup Slugs \cup {Unset},
         NEW params, RowParameters(params)
  PROVE  IsNodeRow(NodeRow(c, slug, hostname, params))
BY DEF IsNodeRow, NodeRow

LEMMA ParamsFormed ==
  ASSUME NEW x, IsNodeRow(x), NEW params, RowParameters(params)
  PROVE  IsNodeRow([x EXCEPT !.params = params])
BY DEF IsNodeRow

LEMMA PostFormed ==
  ASSUME NEW row, IsNodeRow(row), NEW post \in Posts(row)
  PROVE  IsNodeRow(post)
<1>1. \A p \in NodeForms : RowParameters(p)
  BY RegistryAssumption
<1>2. ASSUME NEW s \in Slugs PROVE IsNodeRow([row EXCEPT !.slug = s])
  BY DEF IsNodeRow
<1>3. ASSUME NEW h \in Hostnames PROVE IsNodeRow([row EXCEPT !.hostname = h])
  BY DEF IsNodeRow
<1>4. ASSUME NEW c \in Clusters PROVE IsNodeRow([row EXCEPT !.cluster = c])
  BY DEF IsNodeRow
<1>5. ASSUME NEW p \in NodeForms PROVE IsNodeRow([row EXCEPT !.params = p])
  BY <1>1, ParamsFormed
<1>6. IsNodeRow([row EXCEPT !.active = ~@])
  BY DEF IsNodeRow
<1> QED
  BY <1>2, <1>3, <1>4, <1>5, <1>6 DEF Posts

LEMMA SeedFormed ==
  ASSUME NEW row, IsNodeRow(row), NEW seed \in NodeSeeds
  PROVE  IsNodeRow([row EXCEPT !.hostname = seed.hostname, !.params = seed.params])
<1>1. seed.hostname \in Hostnames \cup {Unset} /\ RowParameters(seed.params)
  BY RegistryAssumption
<1> QED
  BY <1>1 DEF IsNodeRow

-----------------------------------------------------------------------------
(* What keeps the types of each variable. *)

\* No row becomes absent.
Grows == \A n \in Nodes : (Row(node[n]) => Row(node'[n])) /\ (node[n] # None => node'[n] # None)
\* No row of a node becomes one that never was.
Remains == \A n \in Nodes : node[n] # None => node'[n] # None
Longer == Len(minted) <= Len(minted') /\ Len(keys) <= Len(keys')

LEMMA RowsKept ==
  ASSUME RowTypes, UNCHANGED rows
  PROVE  RowTypes' /\ Grows /\ Remains
BY DEF RowTypes, rows, Grows, Remains

LEMMA IdentitiesKept ==
  ASSUME IdentityTypes, UNCHANGED <<idents, external>>, Grows
  PROVE  IdentityTypes' /\ Longer
BY DEF IdentityTypes, idents, external, Grows, NoIdentity, NoKey, Longer

LEMMA PagesKept ==
  ASSUME PageTypes, UNCHANGED page
  PROVE  PageTypes'
BY DEF PageTypes

LEMMA BuildsKept ==
  ASSUME BuildTypes, UNCHANGED build, Grows
  PROVE  BuildTypes'
BY DEF BuildTypes, IsBuild, Grows

LEMMA HoldsKept ==
  ASSUME IdentityTypes, IdentityTypes', Longer, NEW q, Holds(q, minted, keys)
  PROVE  Holds(q, minted', keys')
<1>1. /\ Len(minted) \in Nat /\ Len(minted)' \in Nat /\ Len(minted) <= Len(minted)'
      /\ Len(keys) \in Nat /\ Len(keys)' \in Nat /\ Len(keys) <= Len(keys)'
  BY DEF IdentityTypes, Longer
<1> QED
  BY <1>1 DEF Holds

LEMMA RequestsKept ==
  ASSUME RequestTypes, IdentityTypes, IdentityTypes', Longer, UNCHANGED req, Remains
  PROVE  RequestTypes'
<1>1. ASSUME NEW r \in Requests, req[r] # None
      PROVE  IsRequest(req[r]) /\ Holds(req[r], minted', keys') /\ node'[req[r].node] # None
  <2>1. IsRequest(req[r]) /\ Holds(req[r], minted, keys) /\ req[r].node \in Nodes /\ node[req[r].node] # None
    BY <1>1 DEF RequestTypes, IsRequest
  <2> QED
    BY <2>1, HoldsKept DEF Remains
<1> QED
  BY <1>1 DEF RequestTypes

\* A request that goes on or ends.
LEMMA RequestGoes ==
  ASSUME RequestTypes, IdentityTypes, IdentityTypes', Longer, Remains,
         NEW r \in Requests, NEW x, req' = [req EXCEPT ![r] = x],
         x = None \/ (IsRequest(x) /\ Holds(x, minted', keys') /\ node'[x.node] # None)
  PROVE  RequestTypes'
<1>1. ASSUME NEW o \in Requests, req[o] # None
      PROVE  IsRequest(req[o]) /\ Holds(req[o], minted', keys') /\ node'[req[o].node] # None
  <2>1. IsRequest(req[o]) /\ Holds(req[o], minted, keys) /\ req[o].node \in Nodes /\ node[req[o].node] # None
    BY <1>1 DEF RequestTypes, IsRequest
  <2> QED
    BY <2>1, HoldsKept DEF Remains
<1>2. DOMAIN req' = Requests /\ \A o \in Requests : req'[o] = IF o = r THEN x ELSE req[o]
  BY DEF RequestTypes
<1>3. ASSUME NEW o \in Requests, req'[o] # None
      PROVE  IsRequest(req'[o]) /\ Holds(req'[o], minted', keys') /\ node'[req'[o].node] # None
  BY <1>1, <1>2, <1>3
<1> QED
  BY <1>2, <1>3 DEF RequestTypes

\* The stale mark is no part of a request's type.
LEMMA StaleFormed ==
  ASSUME NEW q, IsRequest(q)
  PROVE  LET s == [q EXCEPT !.stale = TRUE] IN
         /\ IsRequest(s) /\ (Holds(s, minted, keys) <=> Holds(q, minted, keys))
         /\ s.node = q.node /\ s.kind = q.kind /\ s.pc = q.pc /\ s.snap = q.snap /\ s.got = q.got /\ s.stale
<1> DEFINE s == [q EXCEPT !.stale = TRUE]
<1>1. /\ s.kind = q.kind /\ s.pc = q.pc /\ s.node = q.node /\ s.snap = q.snap /\ s.got = q.got /\ s.stale
      /\ s.post = q.post /\ s.todo = q.todo /\ s.name = q.name
  BY DEF IsRequest
<1>2. IsRequest(s)
  BY DEF IsRequest
<1> HIDE DEF s
<1>3. (Holds(s, minted, keys) <=> Holds(q, minted, keys))
  BY <1>1 DEF Holds
<1> QED
  BY <1>1, <1>2, <1>3 DEF s

\* A request that saves its node, and those it overtakes.
LEMMA RequestSaves ==
  ASSUME RequestTypes, IdentityTypes, UNCHANGED <<minted, keys>>, Remains,
         NEW r \in Requests, NEW x, NEW n, req' = Overtaking([req EXCEPT ![r] = x], r, n),
         x = None \/ (IsRequest(x) /\ Holds(x, minted, keys) /\ node'[x.node] # None)
  PROVE  RequestTypes'
<1> DEFINE Mark(q) == [q EXCEPT !.stale = TRUE]
<1>1. /\ DOMAIN req' = Requests
      /\ \A o \in Requests :
           req'[o] = IF o = r THEN x ELSE IF req[o] # None /\ req[o].node = n THEN Mark(req[o]) ELSE req[o]
  BY DEF RequestTypes, Overtaking
<1>2. ASSUME NEW o \in Requests, req[o] # None
      PROVE  /\ IsRequest(req[o]) /\ Holds(req[o], minted, keys) /\ node'[req[o].node] # None
             /\ IsRequest(Mark(req[o])) /\ Holds(Mark(req[o]), minted, keys) /\ node'[Mark(req[o]).node] # None
  <2>1. IsRequest(req[o]) /\ Holds(req[o], minted, keys) /\ req[o].node \in Nodes /\ node[req[o].node] # None
    BY <1>2 DEF RequestTypes, IsRequest
  <2>2. node'[req[o].node] # None
    BY <2>1 DEF Remains
  <2>3. IsRequest(Mark(req[o])) /\ Holds(Mark(req[o]), minted, keys) /\ Mark(req[o]).node = req[o].node
    BY <2>1, StaleFormed
  <2> QED
    BY <2>1, <2>2, <2>3
<1> HIDE DEF Mark
<1>3. ASSUME NEW o \in Requests, req'[o] # None
      PROVE  IsRequest(req'[o]) /\ Holds(req'[o], minted, keys) /\ node'[req'[o].node] # None
  BY <1>1, <1>2, <1>3
<1>4. ASSUME NEW o \in Requests, req'[o] # None
      PROVE  Holds(req'[o], minted', keys')
  BY <1>3, <1>4 DEF Holds
<1> QED
  BY <1>1, <1>3, <1>4 DEF RequestTypes

-----------------------------------------------------------------------------
(* Every step keeps the types. *)

LEMMA OpsTypes == ASSUME ops \in 0 .. MaxOps, Operation \/ UNCHANGED ops PROVE ops' \in 0 .. MaxOps
BY RegistryAssumption DEF Operation

LEMMA ClusterWrite ==
  ASSUME TypeInv, NEW c \in Clusters, NEW x, IsClusterRow(x), Operation,
         cluster' = [cluster EXCEPT ![c] = x], UNCHANGED <<node, version, idents, external, page, build, req>>
  PROVE  TypeInv'
<1>1. Grows /\ Remains
  BY DEF Grows, Remains
<1>2. RowTypes'
  <2>1. /\ DOMAIN cluster' = Clusters
        /\ \A d \in Clusters : cluster'[d] = IF d = c THEN x ELSE cluster[d]
    BY DEF TypeInv, RowTypes
  <2>2. Row(x)
    BY Absent
  <2>3. \A n \in Nodes : Row(node[n]) => node[n].cluster \in Clusters
    BY RowFields DEF TypeInv, RowTypes
  <2> QED
    BY <2>1, <2>2, <2>3 DEF TypeInv, RowTypes
<1>3. IdentityTypes' /\ Longer
  BY <1>1, IdentitiesKept DEF TypeInv
<1>4. RequestTypes'
  BY <1>1, <1>3, RequestsKept DEF TypeInv
<1> QED
  BY <1>1, <1>2, <1>3, <1>4, PagesKept, BuildsKept, OpsTypes DEF TypeInv

\* Rows deleted with their identities, and forgotten by the builds.
LEMMA RowsDeleted ==
  ASSUME TypeInv, Operation, NEW S \in SUBSET Nodes, ForgetNodes(S), BuildTypes',
         DOMAIN cluster' = Clusters,
         \A c \in Clusters : Row(cluster'[c]) => IsClusterRow(cluster'[c]),
         \A n \in Nodes \ S : Row(node[n]) => Row(cluster'[node[n].cluster]),
         UNCHANGED <<version, external, page, req>>
  PROVE  TypeInv'
<1>1. /\ DOMAIN node' = Nodes /\ \A n \in Nodes : node'[n] = IF n \in S THEN Gone ELSE node[n]
      /\ zt' = [n \in Nodes |-> IF n \in S THEN NoIdentity ELSE zt[n]]
      /\ wg' = [n \in Nodes |-> IF n \in S THEN NoKey ELSE wg[n]]
  BY DEF ForgetNodes
<1>2. Remains
  BY <1>1, Absent DEF Remains
<1>3. RowTypes'
  BY <1>1, Absent DEF TypeInv, RowTypes
<1>4. IdentityTypes' /\ Longer
  <2>1. Len(minted) \in Nat /\ Len(keys) \in Nat /\ UNCHANGED <<minted, keys, authorised, told>>
    BY DEF TypeInv, IdentityTypes, external
  <2>2. NoIdentity \in [Networks -> 0 .. Len(minted)] /\ NoKey \in [Interfaces -> 0 .. Len(keys)]
    BY <2>1 DEF NoIdentity, NoKey
  <2>3. zt' \in [Nodes -> [Networks -> 0 .. Len(minted)]] /\ wg' \in [Nodes -> [Interfaces -> 0 .. Len(keys)]]
    BY <1>1, <2>2 DEF TypeInv, IdentityTypes
  <2>4. \A n \in Nodes : ~Row(node'[n]) => zt'[n] = NoIdentity /\ wg'[n] = NoKey
    BY <1>1 DEF TypeInv, IdentityTypes
  <2> QED
    BY <2>1, <2>3, <2>4 DEF TypeInv, IdentityTypes, Longer
<1>5. RequestTypes'
  BY <1>2, <1>4, RequestsKept DEF TypeInv
<1> QED
  BY <1>3, <1>4, <1>5, PagesKept, OpsTypes DEF TypeInv

\* A build that loses its cluster or its node.
Forgetting(x, c, S) ==
  [x EXCEPT !.cluster = IF @ = c THEN None ELSE @, !.node = IF @ \in S THEN None ELSE @]

LEMMA ForgettingLemma ==
  ASSUME NEW c, NEW S, NEW x, IsBuild(x)
  PROVE  /\ IsBuild(Forgetting(x, c, S))
         /\ Forgetting(x, c, S).node = IF x.node \in S THEN None ELSE x.node
<1> DEFINE v == IF x.cluster = c THEN None ELSE x.cluster
           w == IF x.node \in S THEN None ELSE x.node
<1>1. v \in Clusters \cup {None} /\ w \in Nodes \cup {None}
  BY DEF IsBuild
<1>2. Forgetting(x, c, S) = [x EXCEPT !.cluster = v, !.node = w]
  BY Zenon DEF Forgetting
<1> HIDE DEF v, w
<1>3. Forgetting(x, c, S).node = w
  BY <1>2 DEF IsBuild
<1>4. IsBuild(Forgetting(x, c, S))
  BY <1>1, <1>2 DEF IsBuild
<1> QED
  BY <1>3, <1>4 DEF w

LEMMA ClusterStepTypes == ASSUME TypeInv, ClusterStep PROVE TypeInv'
<1> PICK c \in Clusters :
      \/ \E slug \in ClusterSlugs, params \in ClusterForms :
           \/ \E tenant \in Tenants : ClusterCreate(c, tenant, slug, params)
           \/ ClusterEdit(c, slug, params)
      \/ ClusterDelete(c)
      \/ \E seed \in ClusterSeeds : SeedCluster(c, seed)
  BY DEF ClusterStep
<1>1. \A p \in ClusterForms : RowParameters(p)
  BY RegistryAssumption
<1>2. ASSUME NEW slug \in ClusterSlugs, NEW params \in ClusterForms, NEW tenant \in Tenants,
             ClusterCreate(c, tenant, slug, params)
      PROVE  TypeInv'
  <2>1. IsClusterRow([tenant |-> tenant, slug |-> slug, params |-> params])
    BY <1>1 DEF IsClusterRow
  <2> QED
    BY <1>2, <2>1, ClusterWrite DEF ClusterCreate
<1>3. ASSUME NEW slug \in ClusterSlugs, NEW params \in ClusterForms, ClusterEdit(c, slug, params)
      PROVE  TypeInv'
  <2> DEFINE x == [tenant |-> cluster[c].tenant, slug |-> slug, params |-> params]
  <2>1. IsClusterRow(x)
    <3>1. IsClusterRow(cluster[c])
      BY <1>3 DEF ClusterEdit, TypeInv, RowTypes
    <3> QED
      BY <1>1, <3>1 DEF IsClusterRow
  <2>2. cluster' = [cluster EXCEPT ![c] = x]
    BY <1>3 DEF ClusterEdit
  <2>3. Operation /\ UNCHANGED <<node, version, idents, external, page, build, req>>
    BY <1>3 DEF ClusterEdit
  <2> HIDE DEF x
  <2> QED
    BY <2>1, <2>2, <2>3, ClusterWrite
<1>4. ASSUME NEW seed \in ClusterSeeds, SeedCluster(c, seed)
      PROVE  TypeInv'
  <2>1. IsClusterRow(seed)
    BY RegistryAssumption
  <2> QED
    BY <1>4, <2>1, ClusterWrite DEF SeedCluster
<1>5. ASSUME ClusterDelete(c)
      PROVE  TypeInv'
  <2> DEFINE S == {n \in Live : node[n].cluster = c}
  <2>1. /\ Operation /\ cluster' = [cluster EXCEPT ![c] = Gone] /\ ForgetNodes(S)
        /\ build' = [b \in Builds |-> IF build[b] = None THEN None ELSE Forgetting(build[b], c, S)]
        /\ UNCHANGED <<version, external, page, req>>
    BY <1>5, Zenon DEF ClusterDelete, Forgetting
  <2>2. S \in SUBSET Nodes /\ \A n \in Nodes \ S : Row(node[n]) => node[n].cluster # c
    BY DEF Live
  <2> HIDE DEF S
  <2>3. /\ DOMAIN cluster' = Clusters
        /\ \A d \in Clusters : cluster'[d] = IF d = c THEN Gone ELSE cluster[d]
    BY <2>1 DEF TypeInv, RowTypes
  <2>4. \A d \in Clusters : Row(cluster'[d]) => IsClusterRow(cluster'[d])
    BY <2>3, Absent DEF TypeInv, RowTypes
  <2>5. \A n \in Nodes \ S : Row(node[n]) => Row(cluster'[node[n].cluster])
    <3>1. \A n \in Nodes : Row(node[n]) => node[n].cluster \in Clusters /\ Row(cluster[node[n].cluster])
      BY RowFields DEF TypeInv, RowTypes
    <3> QED
      BY <2>2, <2>3, <3>1
  <2>6. BuildTypes'
    <3>1. \A n \in Nodes : node'[n] = IF n \in S THEN Gone ELSE node[n]
      BY <2>1 DEF ForgetNodes
    <3>2. ASSUME NEW b \in Builds, build'[b] # None
          PROVE  IsBuild(build'[b]) /\ (build'[b].node # None => Row(node'[build'[b].node]))
      <4>1. build[b] # None /\ build'[b] = Forgetting(build[b], c, S)
        BY <2>1, <3>2
      <4>2. IsBuild(build[b]) /\ (build[b].node # None => Row(node[build[b].node]))
        BY <4>1 DEF TypeInv, BuildTypes
      <4>3. IsBuild(build'[b]) /\ build'[b].node = IF build[b].node \in S THEN None ELSE build[b].node
        BY <4>1, <4>2, ForgettingLemma
      <4>4. build[b].node # None => build[b].node \in Nodes
        BY <4>2 DEF IsBuild
      <4> QED
        BY <3>1, <4>2, <4>3, <4>4
    <3>3. DOMAIN build' = Builds /\ UNCHANGED version
      BY <2>1
    <3> QED
      BY <3>2, <3>3 DEF BuildTypes, IsBuild
  <2> QED
    BY <2>1, <2>2, <2>3, <2>4, <2>5, <2>6, RowsDeleted
<1> QED
  BY <1>2, <1>3, <1>4, <1>5

LEMMA NodeAdded ==
  ASSUME TypeInv, NEW n \in Nodes, NEW x, IsNodeRow(x), Row(cluster[x.cluster]), node[n] = None, Operation,
         node' = [node EXCEPT ![n] = x], UNCHANGED <<cluster, version, idents, external, page, build, req>>
  PROVE  TypeInv'
<1>1. DOMAIN node' = Nodes /\ \A m \in Nodes : node'[m] = IF m = n THEN x ELSE node[m]
  BY DEF TypeInv, RowTypes
<1>2. Grows /\ Remains
  BY <1>1, Absent DEF Grows, Remains
<1>3. RowTypes'
  BY <1>1 DEF TypeInv, RowTypes
<1>4. IdentityTypes' /\ Longer
  BY <1>2, IdentitiesKept DEF TypeInv
<1>5. RequestTypes'
  BY <1>2, <1>4, RequestsKept DEF TypeInv
<1> QED
  BY <1>2, <1>3, <1>4, <1>5, PagesKept, BuildsKept, OpsTypes DEF TypeInv

LEMMA NodeStepTypes == ASSUME TypeInv, NodeStep PROVE TypeInv'
<1> PICK n \in Nodes :
      \/ \E c \in Clusters, slug \in Slugs, hostname \in Hostnames, params \in NodeForms :
           NodeCreate(n, c, slug, hostname, params)
      \/ \E c \in Clusters, seed \in NodeSeeds : SeedCreates(n, c, seed)
      \/ \E m \in Nodes, slug \in Slugs : NodeClone(n, m, slug)
      \/ NodeDelete(n)
      \/ OpenPage(n)
      \/ \E b \in Builds : BakeNode(b, n)
  BY DEF NodeStep
<1>1. ASSUME NEW c \in Clusters, NEW slug \in Slugs, NEW hostname \in Hostnames \cup {Unset}, NEW params,
             RowParameters(params), NodeCreate(n, c, slug, hostname, params)
      PROVE  TypeInv'
  <2> DEFINE x == NodeRow(c, slug, hostname, params)
  <2>1. IsNodeRow(x) /\ x.cluster = c
    BY NodeRowFormed, <1>1 DEF NodeRow
  <2>2. /\ Row(cluster[c]) /\ node[n] = None /\ Operation /\ node' = [node EXCEPT ![n] = x]
        /\ UNCHANGED <<cluster, version, idents, external, page, build, req>>
    BY <1>1 DEF NodeCreate
  <2> HIDE DEF x
  <2> QED
    BY <2>1, <2>2, NodeAdded
<1>2. ASSUME NEW c \in Clusters, NEW slug \in Slugs, NEW hostname \in Hostnames, NEW params \in NodeForms,
             NodeCreate(n, c, slug, hostname, params)
      PROVE  TypeInv'
  <2>1. RowParameters(params)
    BY RegistryAssumption
  <2> QED
    BY <1>1, <1>2, <2>1
<1>3. ASSUME NEW c \in Clusters, NEW seed \in NodeSeeds, SeedCreates(n, c, seed)
      PROVE  TypeInv'
  <2>1. seed.slug \in Slugs /\ seed.hostname \in Hostnames \cup {Unset} /\ RowParameters(seed.params)
    BY RegistryAssumption
  <2> QED
    BY <1>1, <1>3, <2>1 DEF SeedCreates
<1>4. ASSUME NEW m \in Nodes, NEW slug \in Slugs, NodeClone(n, m, slug)
      PROVE  TypeInv'
  <2> DEFINE x == NodeRow(node[m].cluster, slug, slug, node[m].params)
  <2>1. IsNodeRow(node[m]) /\ Row(cluster[node[m].cluster])
    BY <1>4 DEF NodeClone, TypeInv, RowTypes
  <2>2. node[m].cluster \in Clusters /\ RowParameters(node[m].params)
    BY <2>1, RowFields
  <2>3. IsNodeRow(x) /\ x.cluster = node[m].cluster
    BY <2>2, NodeRowFormed DEF NodeRow
  <2>4. /\ node[n] = None /\ Operation /\ node' = [node EXCEPT ![n] = x]
        /\ UNCHANGED <<cluster, version, idents, external, page, build, req>>
    BY <1>4 DEF NodeClone
  <2> HIDE DEF x
  <2> QED
    BY <2>1, <2>3, <2>4, NodeAdded
<1>5. ASSUME NodeDelete(n)
      PROVE  TypeInv'
  <2>1. /\ Operation /\ ForgetNodes({n}) /\ UNCHANGED <<cluster, version, external, page, req>>
        /\ build' = [b \in Builds |-> IF build[b] # None /\ build[b].node = n
                                      THEN [build[b] EXCEPT !.node = None] ELSE build[b]]
    BY <1>5 DEF NodeDelete
  <2>2. \A m \in Nodes : node'[m] = IF m = n THEN Gone ELSE node[m]
    BY <2>1 DEF ForgetNodes
  <2>3. ASSUME NEW b \in Builds, build'[b] # None
        PROVE  IsBuild(build'[b]) /\ (build'[b].node # None => Row(node'[build'[b].node]))
    <3>1. CASE build[b] # None /\ build[b].node = n
      <4>1. build'[b] = [build[b] EXCEPT !.node = None] /\ IsBuild(build[b])
        BY <2>1, <3>1 DEF TypeInv, BuildTypes
      <4> QED
        BY <4>1 DEF IsBuild
    <3>2. CASE ~(build[b] # None /\ build[b].node = n)
      <4>1. build'[b] = build[b] /\ IsBuild(build[b]) /\ (build[b].node # None => Row(node[build[b].node]))
        BY <2>1, <2>3, <3>2 DEF TypeInv, BuildTypes
      <4>2. build[b].node # None => build[b].node \in Nodes \ {n}
        BY <2>3, <3>2, <4>1 DEF IsBuild
      <4> QED
        BY <2>2, <4>1, <4>2
    <3> QED
      BY <3>1, <3>2
  <2>4. BuildTypes'
    <3>1. DOMAIN build' = Builds
      BY <2>1
    <3> QED
      BY <2>3, <3>1 DEF BuildTypes, IsBuild
  <2> QED
    BY <2>1, <2>4, RowsDeleted DEF TypeInv, RowTypes
<1>6. ASSUME OpenPage(n)
      PROVE  TypeInv'
  <2>1. Operation /\ Row(node[n]) /\ page' = [page EXCEPT ![n] = node[n]] /\ UNCHANGED <<rows, idents, external, build, req>>
    BY <1>6 DEF OpenPage
  <2>2. RowTypes' /\ Grows /\ Remains
    BY <2>1, RowsKept DEF TypeInv
  <2>3. PageTypes'
    BY <2>1 DEF TypeInv, PageTypes, RowTypes
  <2>4. IdentityTypes' /\ Longer
    BY <2>1, <2>2, IdentitiesKept DEF TypeInv
  <2>5. RequestTypes'
    BY <2>1, <2>2, <2>4, RequestsKept DEF TypeInv
  <2> QED
    BY <2>1, <2>2, <2>3, <2>4, <2>5, BuildsKept, OpsTypes DEF TypeInv
<1>7. ASSUME NEW b \in Builds, BakeNode(b, n)
      PROVE  TypeInv'
  <2> DEFINE x == [node |-> n, cluster |-> node[n].cluster, version |-> version, target |-> node[n].target,
                   hostname |-> MinionId(node[n])]
  <2>1. /\ Operation /\ Row(node[n]) /\ build' = [build EXCEPT ![b] = x]
        /\ UNCHANGED <<rows, idents, external, page, req>>
    BY <1>7 DEF BakeNode
  <2>2. IsBuild(x) /\ x.node = n
    <3>1. /\ node[n].cluster \in Clusters /\ node[n].target = "pc-amd64"
          /\ MinionId(node[n]) \in Hostnames \cup Slugs \cup {Unset} /\ version \in DOMAIN Overrides
      BY <2>1, RowFields DEF TypeInv, RowTypes
    <3> QED
      BY <3>1 DEF IsBuild
  <2> HIDE DEF x
  <2>3. RowTypes' /\ Grows /\ Remains
    BY <2>1, RowsKept DEF TypeInv
  <2>4. BuildTypes'
    <3>1. DOMAIN build' = Builds /\ \A a \in Builds : build'[a] = IF a = b THEN x ELSE build[a]
      BY <2>1 DEF TypeInv, BuildTypes
    <3>2. ASSUME NEW a \in Builds, build'[a] # None
          PROVE  IsBuild(build'[a]) /\ (build'[a].node # None => Row(node'[build'[a].node]))
      <4>1. CASE a = b
        BY <2>1, <2>2, <3>1, <4>1 DEF rows
      <4>2. CASE a # b
        BY <2>1, <3>1, <3>2, <4>2 DEF TypeInv, BuildTypes, rows
      <4> QED
        BY <4>1, <4>2
    <3> QED
      BY <3>1, <3>2 DEF BuildTypes, IsBuild
  <2>5. IdentityTypes' /\ Longer
    BY <2>1, <2>3, IdentitiesKept DEF TypeInv
  <2>6. RequestTypes'
    BY <2>1, <2>3, <2>5, RequestsKept DEF TypeInv
  <2> QED
    BY <2>1, <2>3, <2>4, <2>5, <2>6, PagesKept, OpsTypes DEF TypeInv
<1> QED
  BY <1>2, <1>3, <1>4, <1>5, <1>6, <1>7

LEMMA PublishTypes == ASSUME TypeInv, NEW v \in DOMAIN Overrides, PublishVersion(v) PROVE TypeInv'
<1>1. Operation /\ version' = v /\ UNCHANGED <<cluster, node, idents, external, page, build, req>>
  BY DEF PublishVersion
<1>2. RowTypes' /\ Grows /\ Remains
  BY <1>1 DEF TypeInv, RowTypes, Grows, Remains
<1>3. IdentityTypes' /\ Longer
  BY <1>1, <1>2, IdentitiesKept DEF TypeInv
<1>4. RequestTypes'
  BY <1>1, <1>2, <1>3, RequestsKept DEF TypeInv
<1> QED
  BY <1>1, <1>2, <1>3, <1>4, PagesKept, BuildsKept, OpsTypes DEF TypeInv

\* A request that comes, on a node that there is.
LEMMA RequestComes ==
  ASSUME TypeInv, NEW r \in Requests, NEW q, IsRequest(q), q.got = 0, q.pc # "register", node[q.node] # None,
         req' = [req EXCEPT ![r] = q], UNCHANGED <<rows, idents, external, build>>, PageTypes',
         Operation \/ UNCHANGED ops
  PROVE  TypeInv'
<1>1. RowTypes' /\ Grows /\ Remains
  BY RowsKept DEF TypeInv
<1>2. IdentityTypes' /\ Longer
  BY <1>1, IdentitiesKept DEF TypeInv
<1>3. Holds(q, minted', keys')
  <2>1. Len(minted') \in Nat /\ Len(keys') \in Nat
    BY <1>2 DEF IdentityTypes
  <2> QED
    BY <2>1 DEF Holds
<1>4. RequestTypes'
  BY <1>1, <1>2, <1>3, RequestGoes DEF TypeInv, Remains, IsRequest
<1> QED
  BY <1>1, <1>2, <1>4, BuildsKept, OpsTypes DEF TypeInv

LEMMA BeginTypes ==
  ASSUME TypeInv, NEW r \in Requests, NEW n \in Nodes, NEW q, IsRequest(q), q.got = 0, q.pc # "register", q.node = n,
         Begin(r, n, q)
  PROVE  TypeInv'
<1>1. /\ Operation /\ Row(node[n]) /\ req' = [req EXCEPT ![r] = q]
      /\ UNCHANGED <<rows, idents, external, page, build>>
  BY DEF Begin
<1>2. node[n] # None
  BY <1>1, Absent
<1>3. PageTypes'
  BY <1>1, PagesKept DEF TypeInv
<1> QED
  BY <1>1, <1>2, <1>3, RequestComes

LEMMA BeginRow == ASSUME TypeInv, NEW r, NEW n \in Nodes, NEW q, Begin(r, n, q) PROVE IsNodeRow(node[n])
BY DEF Begin, TypeInv, RowTypes

LEMMA ArriveTypes == ASSUME TypeInv, Arrive PROVE TypeInv'
<1> PICK r \in Requests, n \in Nodes :
      \/ page[n] # None /\ \E post \in Posts(page[n]) : PostEdit(r, n, post)
      \/ \E w \in Networks : Join(r, n, w)
      \/ \E targets \in {{}} \cup {{w} : w \in Networks}, force \in BOOLEAN :
           GenerateNetworks(r, n, targets, force)
      \/ \E targets \in {{}} \cup {{i} : i \in Interfaces}, force \in BOOLEAN :
           GenerateKeys(r, n, targets, force)
      \/ \E i \in Interfaces, controller \in BOOLEAN : AddPeer(r, n, i, controller)
      \/ Backfill(r, n)
      \/ \E seed \in NodeSeeds : SeedFinds(r, n, seed)
  BY DEF Arrive
<1>1. ASSUME page[n] # None, NEW post \in Posts(page[n]), PostEdit(r, n, post)
      PROVE  TypeInv'
  <2> DEFINE q == [Request("edit", "save", n, node[n]) EXCEPT !.post = post]
  <2>1. /\ Row(node[n]) /\ req' = [req EXCEPT ![r] = q] /\ page' = [page EXCEPT ![n] = None]
        /\ UNCHANGED <<rows, idents, external, build, ops>>
    BY <1>1 DEF PostEdit
  <2>2. IsNodeRow(node[n]) /\ IsNodeRow(post) /\ node[n] # None
    BY <1>1, <2>1, PostFormed, Absent DEF TypeInv, RowTypes, PageTypes
  <2>3. IsRequest(q) /\ q.got = 0 /\ q.pc = "save" /\ q.node = n
    BY <2>2 DEF IsRequest, Request, Kinds, Pcs
  <2> HIDE DEF q
  <2>4. PageTypes'
    BY <2>1 DEF TypeInv, PageTypes
  <2> QED
    BY <2>1, <2>2, <2>3, <2>4, RequestComes
<1>2. ASSUME NEW w \in Networks, Join(r, n, w)
      PROVE  TypeInv'
  <2> DEFINE name == SaltIdOf(n)
             q == [Request("join", "save", n, node[n]) EXCEPT !.todo = {w}, !.name = name]
  <2>1. Begin(r, n, q)
    BY <1>2, Zenon DEF Join
  <2>2. IsNodeRow(node[n])
    BY <2>1, BeginRow
  <2> HIDE DEF name
  <2>3. IsRequest(q) /\ q.got = 0 /\ q.pc = "save" /\ q.node = n
    BY <2>2 DEF IsRequest, Request, Kinds, Pcs
  <2> HIDE DEF q
  <2> QED
    BY <2>1, <2>3, BeginTypes
<1>3. ASSUME NEW targets, NEW force \in BOOLEAN, GenerateNetworks(r, n, targets, force)
      PROVE  TypeInv'
  <2> DEFINE todo == IF targets # {} THEN targets ELSE DeclaredNetworks(cluster[node[n].cluster], node[n])
             replace == force \/ targets # {}
             q == [Request("networks", "store", n, node[n]) EXCEPT !.todo = todo, !.replace = replace]
  <2>1. Begin(r, n, q)
    BY <1>3, Zenon DEF GenerateNetworks
  <2>2. IsNodeRow(node[n]) /\ replace \in BOOLEAN
    BY <2>1, BeginRow
  <2> HIDE DEF todo, replace
  <2>3. IsRequest(q) /\ q.got = 0 /\ q.pc = "store" /\ q.node = n
    BY <2>2 DEF IsRequest, Request, Kinds, Pcs
  <2> HIDE DEF q
  <2> QED
    BY <2>1, <2>3, BeginTypes
<1>4. ASSUME NEW targets, NEW force \in BOOLEAN, GenerateKeys(r, n, targets, force)
      PROVE  TypeInv'
  <2> DEFINE todo == IF targets # {} THEN targets ELSE InterfaceNames(cluster[node[n].cluster], node[n])
             replace == force \/ targets # {}
             q == [Request("keys", "store", n, node[n]) EXCEPT !.todo = todo, !.replace = replace]
  <2>1. Begin(r, n, q)
    BY <1>4, Zenon DEF GenerateKeys
  <2>2. IsNodeRow(node[n]) /\ replace \in BOOLEAN
    BY <2>1, BeginRow
  <2> HIDE DEF todo, replace
  <2>3. IsRequest(q) /\ q.got = 0 /\ q.pc = "store" /\ q.node = n
    BY <2>2 DEF IsRequest, Request, Kinds, Pcs
  <2> HIDE DEF q
  <2> QED
    BY <2>1, <2>3, BeginTypes
<1>5. ASSUME NEW i \in Interfaces, NEW controller \in BOOLEAN, AddPeer(r, n, i, controller)
      PROVE  TypeInv'
  <2> DEFINE pc == IF controller THEN "list" ELSE "save"
             q == [Request("peer", pc, n, node[n]) EXCEPT !.name = i, !.replace = controller]
  <2>1. Begin(r, n, q)
    BY <1>5, Zenon DEF AddPeer
  <2>2. IsNodeRow(node[n]) /\ pc \in {"list", "save"}
    BY <2>1, BeginRow
  <2> HIDE DEF pc
  <2>3. IsRequest(q) /\ q.got = 0 /\ q.pc # "register" /\ q.node = n
    BY <2>2 DEF IsRequest, Request, Kinds, Pcs
  <2> HIDE DEF q
  <2> QED
    BY <2>1, <2>3, BeginTypes
<1>6. ASSUME Backfill(r, n)
      PROVE  TypeInv'
  <2> DEFINE q == Request("backfill", "save", n, node[n])
  <2>1. Begin(r, n, q)
    BY <1>6 DEF Backfill
  <2>2. IsNodeRow(node[n])
    BY <2>1, BeginRow
  <2>3. IsRequest(q) /\ q.got = 0 /\ q.pc = "save" /\ q.node = n
    BY <2>2 DEF IsRequest, Request, Kinds, Pcs
  <2> HIDE DEF q
  <2> QED
    BY <2>1, <2>3, BeginTypes
<1>7. ASSUME NEW seed \in NodeSeeds, SeedFinds(r, n, seed)
      PROVE  TypeInv'
  <2> DEFINE post == [node[n] EXCEPT !.hostname = seed.hostname, !.params = seed.params]
             q == [Request("seed", "save", n, node[n]) EXCEPT !.post = post]
  <2>1. Begin(r, n, q)
    BY <1>7, Zenon DEF SeedFinds
  <2>2. IsNodeRow(node[n])
    BY <2>1, BeginRow
  <2>3. IsNodeRow(post)
    BY <2>2, SeedFormed, Zenon
  <2> HIDE DEF post
  <2>4. IsRequest(q) /\ q.got = 0 /\ q.pc = "save" /\ q.node = n
    BY <2>2, <2>3 DEF IsRequest, Request, Kinds, Pcs
  <2> HIDE DEF q
  <2> QED
    BY <2>1, <2>4, BeginTypes
<1> QED
  BY <1>1, <1>2, <1>3, <1>4, <1>5, <1>6, <1>7

\* What a request has of its own.
LEMMA RequestOf ==
  ASSUME TypeInv, NEW r \in Requests, ~Idle(r)
  PROVE  /\ req[r] # None /\ IsRequest(req[r]) /\ Holds(req[r], minted, keys)
         /\ req[r].node \in Nodes /\ node[req[r].node] # None
BY DEF TypeInv, RequestTypes, Idle, IsRequest

LEMMA AtLemma ==
  ASSUME NEW r, NEW kind, NEW pc, At(r, kind, pc)
  PROVE  ~Idle(r) /\ req[r].kind = kind /\ req[r].pc = pc
BY DEF At

LEMMA GotoLemma ==
  ASSUME NEW q, IsRequest(q), NEW pc \in Pcs
  PROVE  LET s == [q EXCEPT !.pc = pc] IN
         /\ IsRequest(s)
         /\ Holds(q, minted, keys) /\ pc # "register" => Holds(s, minted, keys)
         /\ s.node = q.node /\ s.kind = q.kind /\ s.pc = pc /\ s.snap = q.snap /\ s.got = q.got
         /\ s.stale = q.stale /\ s.todo = q.todo /\ s.name = q.name
<1> DEFINE s == [q EXCEPT !.pc = pc]
<1>1. /\ s.kind = q.kind /\ s.pc = pc /\ s.node = q.node /\ s.snap = q.snap /\ s.got = q.got
      /\ s.stale = q.stale /\ s.post = q.post /\ s.todo = q.todo /\ s.name = q.name
  BY DEF IsRequest
<1>2. IsRequest(s)
  BY DEF IsRequest
<1> HIDE DEF s
<1>3. Holds(q, minted, keys) /\ pc # "register" => Holds(s, minted, keys)
  BY <1>1 DEF Holds
<1> QED
  BY <1>1, <1>2, <1>3 DEF s

\* A step of one request that changes nothing else.
LEMMA OnlyRequest ==
  ASSUME TypeInv, NEW r \in Requests, NEW x, req' = [req EXCEPT ![r] = x],
         x = None \/ (IsRequest(x) /\ Holds(x, minted, keys) /\ node[x.node] # None),
         UNCHANGED <<rows, idents, external, page, build, ops>>
  PROVE  TypeInv'
<1>1. RowTypes' /\ Grows /\ Remains
  BY RowsKept DEF TypeInv
<1>2. IdentityTypes' /\ Longer
  BY <1>1, IdentitiesKept DEF TypeInv
<1>3. x = None \/ (IsRequest(x) /\ Holds(x, minted', keys') /\ node'[x.node] # None)
  BY DEF external, rows
<1>4. RequestTypes'
  BY <1>1, <1>2, <1>3, RequestGoes DEF TypeInv
<1> QED
  BY <1>1, <1>2, <1>4, PagesKept, BuildsKept, OpsTypes DEF TypeInv

\* A step of one request that stores an identity or a key.
LEMMA RequestStores ==
  ASSUME TypeInv, NEW r \in Requests, NEW x, req' = [req EXCEPT ![r] = x], IdentityTypes', Longer,
         x = None \/ (IsRequest(x) /\ Holds(x, minted', keys') /\ node[x.node] # None),
         UNCHANGED <<rows, page, build, ops>>
  PROVE  TypeInv'
<1>1. RowTypes' /\ Grows /\ Remains
  BY RowsKept DEF TypeInv
<1>2. x = None \/ (IsRequest(x) /\ Holds(x, minted', keys') /\ node'[x.node] # None)
  BY DEF rows
<1>3. RequestTypes'
  BY <1>1, <1>2, RequestGoes DEF TypeInv
<1> QED
  BY <1>1, <1>3, PagesKept, BuildsKept, OpsTypes DEF TypeInv

LEMMA NodeSaved ==
  ASSUME TypeInv, NEW r \in Requests, NEW n \in Nodes, NEW x, IsNodeRow(x), Row(cluster[x.cluster]),
         node' = [node EXCEPT ![n] = x], NEW y, req' = Overtaking([req EXCEPT ![r] = y], r, n),
         y = None \/ (IsRequest(y) /\ Holds(y, minted, keys) /\ y.node = n),
         UNCHANGED <<cluster, version, idents, external, page, build, ops>>
  PROVE  TypeInv'
<1>1. DOMAIN node' = Nodes /\ \A m \in Nodes : node'[m] = IF m = n THEN x ELSE node[m]
  BY DEF TypeInv, RowTypes
<1>2. Grows /\ Remains
  BY <1>1, Absent DEF Grows, Remains
<1>3. RowTypes'
  BY <1>1 DEF TypeInv, RowTypes
<1>4. IdentityTypes' /\ Longer
  BY <1>2, IdentitiesKept DEF TypeInv
<1>5. y = None \/ (IsRequest(y) /\ Holds(y, minted, keys) /\ node'[y.node] # None)
  BY <1>1, Absent
<1>6. RequestTypes'
  BY <1>2, <1>5, RequestSaves DEF TypeInv, external
<1> QED
  BY <1>2, <1>3, <1>4, <1>6, PagesKept, BuildsKept, OpsTypes DEF TypeInv

LEMMA SaveParamsTypes ==
  ASSUME TypeInv, NEW r \in Requests, ~Idle(r), NEW params, RowParameters(params), NEW q, NEW y,
         SaveParams(r, req[r].node, params, q), q = [req EXCEPT ![r] = y],
         y = None \/ (IsRequest(y) /\ Holds(y, minted, keys) /\ y.node = req[r].node),
         UNCHANGED <<idents, external>>
  PROVE  TypeInv'
<1> DEFINE n == req[r].node
           x == [node[n] EXCEPT !.params = params]
<1>1. n \in Nodes /\ UNCHANGED <<cluster, version, page, build, ops>>
  BY RequestOf DEF SaveParams
<1>2. CASE Row(node[n])
  <2>1. node' = [node EXCEPT ![n] = x] /\ req' = Overtaking([req EXCEPT ![r] = y], r, n)
    BY <1>2 DEF SaveParams
  <2>2. IsNodeRow(node[n]) /\ Row(cluster[node[n].cluster])
    BY <1>1, <1>2 DEF TypeInv, RowTypes
  <2>3. IsNodeRow(x)
    BY <2>2, ParamsFormed
  <2>4. x.cluster = node[n].cluster
    BY <2>2 DEF IsNodeRow
  <2> HIDE DEF x, n
  <2> QED
    BY <1>1, <2>1, <2>2, <2>3, <2>4, NodeSaved DEF n
<1>3. CASE ~Row(node[n])
  <2>1. node' = node /\ req' = [req EXCEPT ![r] = None]
    BY <1>3 DEF SaveParams, Ends
  <2> QED
    BY <1>1, <2>1, OnlyRequest DEF rows
<1> QED
  BY <1>2, <1>3

LEMMA ExceptTyped ==
  ASSUME NEW S, NEW T, NEW f \in [S -> T], NEW x, NEW v \in T
  PROVE  [f EXCEPT ![x] = v] \in [S -> T]
OBVIOUS

LEMMA MintTypes ==
  ASSUME TypeInv, NEW r \in Requests, ~Idle(r), Row(node[req[r].node]), NEW net, NEW by \in {"join", "generate"},
         Mint(r, net, by), UNCHANGED <<rows, wg, keys, authorised, told>>
  PROVE  IdentityTypes' /\ Longer /\ Len(minted') = Len(minted) + 1
<1> DEFINE n == req[r].node
           k == Len(minted) + 1
<1>1. n \in Nodes
  BY RequestOf
<1>2. minted' = Append(minted, by) /\ zt' = [zt EXCEPT ![n][net] = k]
  BY DEF Mint, Fresh
<1>3. minted' \in Seq({"join", "generate"}) /\ Len(minted) \in Nat /\ Len(minted') = k
  BY <1>2 DEF TypeInv, IdentityTypes
<1> HIDE DEF n
<1>4. zt' \in [Nodes -> [Networks -> 0 .. Len(minted')]]
  <2>1. zt \in [Nodes -> [Networks -> 0 .. k]]
    BY <1>3 DEF TypeInv, IdentityTypes
  <2>2. [zt[n] EXCEPT ![net] = k] \in [Networks -> 0 .. k]
    <3>1. k \in 0 .. k /\ zt[n] \in [Networks -> 0 .. k]
      BY <1>1, <1>3, <2>1
    <3> HIDE DEF k
    <3> QED
      BY <3>1, ExceptTyped
  <2> QED
    BY <1>2, <1>3, <2>1, <2>2
<1>5. \A m \in Nodes : ~Row(node'[m]) => zt'[m] = NoIdentity /\ wg'[m] = NoKey
  BY <1>1, <1>2 DEF TypeInv, IdentityTypes, rows, n
<1> QED
  BY <1>3, <1>4, <1>5 DEF TypeInv, IdentityTypes, Longer

\* A key made here or by the controller, stored or not.
LEMMA KeyTypes ==
  ASSUME TypeInv, NEW n \in Nodes, NEW i, NEW name \in Hostnames \cup Slugs \cup {Unset, Local}, NewKey(name),
         wg' = wg \/ (Row(node[n]) /\ wg' = [wg EXCEPT ![n][i] = Fresh(keys)]),
         UNCHANGED <<rows, zt, minted, authorised, told>>
  PROVE  IdentityTypes' /\ Longer /\ Len(keys') = Len(keys) + 1
<1> DEFINE k == Len(keys) + 1
<1>1. keys' = Append(keys, name) /\ (wg' = wg \/ (Row(node[n]) /\ wg' = [wg EXCEPT ![n][i] = k]))
  BY DEF NewKey, Fresh
<1>2. keys' \in Seq(Hostnames \cup Slugs \cup {Unset, Local}) /\ Len(keys) \in Nat /\ Len(keys') = k
  BY <1>1 DEF TypeInv, IdentityTypes
<1>3. wg' \in [Nodes -> [Interfaces -> 0 .. Len(keys')]]
  <2>1. wg \in [Nodes -> [Interfaces -> 0 .. k]]
    BY <1>2 DEF TypeInv, IdentityTypes
  <2>2. [wg[n] EXCEPT ![i] = k] \in [Interfaces -> 0 .. k]
    <3>1. k \in 0 .. k /\ wg[n] \in [Interfaces -> 0 .. k]
      BY <1>2, <2>1
    <3> HIDE DEF k
    <3> QED
      BY <3>1, ExceptTyped
  <2> QED
    BY <1>1, <1>2, <2>1, <2>2
<1>4. \A m \in Nodes : ~Row(node'[m]) => zt'[m] = NoIdentity /\ wg'[m] = NoKey
  BY <1>1 DEF TypeInv, IdentityTypes, rows
<1> QED
  BY <1>2, <1>3, <1>4 DEF TypeInv, IdentityTypes, Longer

LEMMA EditSaveTypes == ASSUME TypeInv, NEW r \in Requests, EditSave(r) PROVE TypeInv'
<1> DEFINE n == req[r].node
           post == req[r].post
<1>1. ~Idle(r)
  BY DEF EditSave, At
<1>2. /\ \/ /\ Row(cluster[post.cluster]) /\ node' = [node EXCEPT ![n] = post]
            /\ req' = Overtaking([req EXCEPT ![r] = None], r, n)
         \/ node' = node /\ req' = [req EXCEPT ![r] = None]
      /\ UNCHANGED <<cluster, version, idents, external, page, build, ops>>
  BY DEF EditSave, Ends
<1>3. n \in Nodes /\ IsNodeRow(post)
  BY <1>1, RequestOf DEF IsRequest
<1> HIDE DEF n, post
<1>4. CASE /\ Row(cluster[post.cluster]) /\ node' = [node EXCEPT ![n] = post]
           /\ req' = Overtaking([req EXCEPT ![r] = None], r, n)
  BY <1>2, <1>3, <1>4, NodeSaved
<1>5. CASE node' = node /\ req' = [req EXCEPT ![r] = None]
  BY <1>2, <1>5, OnlyRequest DEF rows
<1> QED
  BY <1>2, <1>4, <1>5

LEMMA JoinSaveTypes == ASSUME TypeInv, NEW r \in Requests, JoinSave(r) PROVE TypeInv'
<1> PICK net \in req[r].todo : SaveParams(r, req[r].node, Joined(req[r].snap, net, req[r].name), Goto(r, "store"))
  BY DEF JoinSave
<1> DEFINE params == Joined(req[r].snap, net, req[r].name)
           y == [req[r] EXCEPT !.pc = "store"]
<1>1. At(r, "join", "save") /\ UNCHANGED <<idents, external>>
  BY DEF JoinSave
<1>2. ~Idle(r) /\ req[r].kind = "join"
  BY <1>1, AtLemma
<1>3. IsRequest(req[r]) /\ Holds(req[r], minted, keys)
  BY <1>2, RequestOf
<1>4. net # Unset /\ Parameters(req[r].snap.params) /\ RowParameters(req[r].snap.params)
  BY <1>2, <1>3, RegistryAssumption, RowFields DEF IsRequest
<1>5. RowParameters(params)
  BY <1>4, JoinedLemma, NamesKept
<1>6. IsRequest(y) /\ Holds(y, minted, keys) /\ y.node = req[r].node
  BY <1>3, GotoLemma DEF Pcs
<1>7. SaveParams(r, req[r].node, params, [req EXCEPT ![r] = y])
  BY Zenon DEF Goto
<1> HIDE DEF params, y
<1> QED
  BY <1>1, <1>2, <1>5, <1>6, <1>7, SaveParamsTypes

LEMMA JoinStoreTypes == ASSUME TypeInv, NEW r \in Requests, JoinStore(r) PROVE TypeInv'
<1>1. /\ At(r, "join", "store") /\ UNCHANGED <<rows, wg, keys, authorised, told, page, build, ops>>
      /\ \/ req' = [req EXCEPT ![r] = None] /\ UNCHANGED <<zt, minted>>
         \/ /\ Row(node[req[r].node])
            /\ \E net \in req[r].todo : Mint(r, net, "join")
            /\ req' = [req EXCEPT ![r] = [@ EXCEPT !.pc = "register", !.got = Fresh(minted)]]
  BY DEF JoinStore, Ends
<1>2. ~Idle(r) /\ req[r].kind = "join"
  BY <1>1, AtLemma
<1>3. IsRequest(req[r]) /\ Holds(req[r], minted, keys) /\ node[req[r].node] # None
  BY <1>2, RequestOf
<1>4. CASE req' = [req EXCEPT ![r] = None] /\ UNCHANGED <<zt, minted>>
  BY <1>1, <1>4, OnlyRequest DEF idents, external
<1>5. ASSUME Row(node[req[r].node]), NEW net \in req[r].todo, Mint(r, net, "join"),
             req' = [req EXCEPT ![r] = [@ EXCEPT !.pc = "register", !.got = Fresh(minted)]]
      PROVE  TypeInv'
  <2> DEFINE k == Fresh(minted)
             y == [req[r] EXCEPT !.pc = "register", !.got = k]
  <2>1. IdentityTypes' /\ Longer /\ Len(minted') = Len(minted) + 1
    BY <1>1, <1>2, <1>5, MintTypes
  <2>2. k \in Nat \ {0} /\ k = Len(minted')
    BY <2>1 DEF Fresh, TypeInv, IdentityTypes
  <2> HIDE DEF k
  <2>3. /\ IsRequest(y) /\ y.node = req[r].node /\ y.kind = "join" /\ y.got = k
    BY <1>2, <1>3, <2>2 DEF IsRequest, Pcs
  <2>4. req' = [req EXCEPT ![r] = y]
    BY <1>5, Zenon DEF k
  <2> HIDE DEF y
  <2>5. Holds(y, minted', keys')
    BY <2>2, <2>3 DEF Holds
  <2> QED
    BY <1>1, <1>3, <2>1, <2>3, <2>4, <2>5, RequestStores
<1> QED
  BY <1>1, <1>4, <1>5

LEMMA JoinRegisterTypes == ASSUME TypeInv, NEW r \in Requests, JoinRegister(r) PROVE TypeInv'
<1>1. /\ At(r, "join", "register") /\ req' = [req EXCEPT ![r] = None]
      /\ authorised' \in {authorised, authorised \cup {req[r].got}}
      /\ told' \in {told, told \cup {req[r].got}}
      /\ UNCHANGED <<rows, idents, minted, keys, page, build, ops>>
  BY DEF JoinRegister, Ends
<1>2. ~Idle(r) /\ req[r].kind = "join" /\ req[r].pc = "register"
  BY <1>1, AtLemma
<1>3. req[r].got \in 1 .. Len(minted)
  <2>1. Holds(req[r], minted, keys) /\ Len(minted) \in Nat
    BY <1>2, RequestOf DEF TypeInv, IdentityTypes
  <2> QED
    BY <1>2, <2>1 DEF Holds
<1>4. IdentityTypes' /\ Longer
  BY <1>1, <1>3 DEF TypeInv, IdentityTypes, idents, rows, Longer
<1> QED
  BY <1>1, <1>4, RequestStores

\* The check of what there is, of both generate views.
LEMMA CheckTypes ==
  ASSUME TypeInv, NEW r \in Requests, ~Idle(r), req[r].kind \notin {"join", "peer"}, NEW x,
         NEW y, y = Without(req[r], x) \/ y = [req[r] EXCEPT !.pc = "mint", !.name = x],
         req' = [req EXCEPT ![r] = y], UNCHANGED <<rows, idents, external, page, build, ops>>
  PROVE  TypeInv'
<1>1. IsRequest(req[r]) /\ Holds(req[r], minted, keys) /\ node[req[r].node] # None
  BY RequestOf
<1>2. IsRequest(y) /\ y.node = req[r].node /\ y.kind = req[r].kind /\ y.got = req[r].got
  BY <1>1 DEF IsRequest, Pcs, Without
<1>3. Holds(y, minted, keys)
  BY <1>1, <1>2 DEF Holds
<1> QED
  BY <1>1, <1>2, <1>3, OnlyRequest

LEMMA CheckNetworkTypes == ASSUME TypeInv, NEW r \in Requests, NEW net, CheckNetwork(r, net) PROVE TypeInv'
<1> DEFINE a == Without(req[r], net)
           b == [req[r] EXCEPT !.pc = "mint", !.name = net]
           y == IF zt[req[r].node][net] # 0 /\ ~req[r].replace THEN a ELSE b
<1>1. /\ At(r, "networks", "store") /\ UNCHANGED <<rows, idents, external, page, build, ops>>
      /\ req' = [req EXCEPT ![r] = y]
  BY Zenon DEF CheckNetwork
<1>2. ~Idle(r) /\ req[r].kind \notin {"join", "peer"}
  BY <1>1, AtLemma
<1> HIDE DEF a, b
<1>3. y \in {a, b}
  OBVIOUS
<1>4. y = Without(req[r], net) \/ y = [req[r] EXCEPT !.pc = "mint", !.name = net]
  BY <1>3, Zenon DEF a, b
<1> HIDE DEF y
<1> QED
  BY <1>1, <1>2, <1>4, CheckTypes, Zenon

LEMMA CheckKeyTypes == ASSUME TypeInv, NEW r \in Requests, NEW i, CheckKey(r, i) PROVE TypeInv'
<1> DEFINE a == Without(req[r], i)
           b == [req[r] EXCEPT !.pc = "mint", !.name = i]
           y == IF wg[req[r].node][i] # 0 /\ ~req[r].replace THEN a ELSE b
<1>1. /\ At(r, "keys", "store") /\ UNCHANGED <<rows, idents, external, page, build, ops>>
      /\ req' = [req EXCEPT ![r] = y]
  BY Zenon DEF CheckKey
<1>2. ~Idle(r) /\ req[r].kind \notin {"join", "peer"}
  BY <1>1, AtLemma
<1> HIDE DEF a, b
<1>3. y \in {a, b}
  OBVIOUS
<1>4. y = Without(req[r], i) \/ y = [req[r] EXCEPT !.pc = "mint", !.name = i]
  BY <1>3, Zenon DEF a, b
<1> HIDE DEF y
<1> QED
  BY <1>1, <1>2, <1>4, CheckTypes, Zenon

\* The loops of the generate views go on with the next network or interface.
LEMMA NextTarget ==
  ASSUME NEW q, IsRequest(q), q.kind \notin {"join", "peer"}, NEW x
  PROVE  LET s == [Without(q, x) EXCEPT !.pc = "store"] IN
         /\ IsRequest(s) /\ s.node = q.node /\ \A ids, ks : Holds(s, ids, ks)
<1> DEFINE s == [Without(q, x) EXCEPT !.pc = "store"]
<1>1. IsRequest(s) /\ s.node = q.node /\ s.kind = q.kind
  BY DEF IsRequest, Pcs, Without
<1> HIDE DEF s
<1>2. \A ids, ks : Holds(s, ids, ks)
  BY <1>1 DEF Holds
<1> QED
  BY <1>1, <1>2 DEF s

LEMMA StoreNetworkTypes == ASSUME TypeInv, NEW r \in Requests, StoreNetwork(r) PROVE TypeInv'
<1> DEFINE net == req[r].name
           y == [Without(req[r], net) EXCEPT !.pc = "store"]
<1>1. /\ At(r, "networks", "mint") /\ UNCHANGED <<rows, wg, keys, authorised, told, page, build, ops>>
      /\ \/ req' = [req EXCEPT ![r] = y] /\ UNCHANGED <<zt, minted>>
         \/ req' = [req EXCEPT ![r] = None] /\ UNCHANGED <<zt, minted>>
         \/ Row(node[req[r].node]) /\ Mint(r, net, "generate") /\ req' = [req EXCEPT ![r] = y]
  BY Zenon DEF StoreNetwork, Ends
<1>2. ~Idle(r) /\ req[r].kind = "networks"
  BY <1>1, AtLemma
<1>3. IsRequest(req[r]) /\ node[req[r].node] # None
  BY <1>2, RequestOf
<1>4. IsRequest(y) /\ y.node = req[r].node /\ \A ids, ks : Holds(y, ids, ks)
  BY <1>2, <1>3, NextTarget
<1> HIDE DEF y, net
<1>5. CASE req' = [req EXCEPT ![r] = y] /\ UNCHANGED <<zt, minted>>
  BY <1>1, <1>3, <1>4, <1>5, OnlyRequest DEF idents, external
<1>6. CASE req' = [req EXCEPT ![r] = None] /\ UNCHANGED <<zt, minted>>
  BY <1>1, <1>6, OnlyRequest DEF idents, external
<1>7. CASE Row(node[req[r].node]) /\ Mint(r, net, "generate") /\ req' = [req EXCEPT ![r] = y]
  <2>1. IdentityTypes' /\ Longer
    BY <1>1, <1>2, <1>7, MintTypes
  <2> QED
    BY <1>1, <1>3, <1>4, <1>7, <2>1, RequestStores
<1> QED
  BY <1>1, <1>5, <1>6, <1>7

LEMMA StoreKeyTypes == ASSUME TypeInv, NEW r \in Requests, StoreKey(r) PROVE TypeInv'
<1> DEFINE n == req[r].node
           i == req[r].name
           next == [Without(req[r], i) EXCEPT !.pc = "store"]
           y == IF req[r].kind = "peer" THEN None ELSE next
<1>1. /\ At(r, "keys", "mint") \/ At(r, "peer", "mint")
      /\ UNCHANGED <<rows, zt, minted, authorised, told, page, build, ops>>
      /\ \/ req' = [req EXCEPT ![r] = y] /\ UNCHANGED <<wg, keys>>
         \/ req' = [req EXCEPT ![r] = None] /\ UNCHANGED <<wg, keys>>
         \/ /\ Row(node[n]) /\ NewKey(Local) /\ wg' = [wg EXCEPT ![n][i] = Fresh(keys)]
            /\ req' = [req EXCEPT ![r] = y]
  BY DEF StoreKey, Ends
<1>2. ~Idle(r) /\ req[r].kind \in {"keys", "peer"}
  BY <1>1, AtLemma
<1>3. IsRequest(req[r]) /\ n \in Nodes /\ node[n] # None
  BY <1>2, RequestOf
<1>4. req[r].kind # "peer" => IsRequest(next) /\ next.node = n /\ \A ids, ks : Holds(next, ids, ks)
  BY <1>2, <1>3, NextTarget
<1>5. y = None \/ (IsRequest(y) /\ y.node = n /\ \A ids, ks : Holds(y, ids, ks))
  BY <1>4
<1> HIDE DEF y, i, next
<1>6. CASE req' = [req EXCEPT ![r] = y] /\ UNCHANGED <<wg, keys>>
  BY <1>1, <1>3, <1>5, <1>6, OnlyRequest DEF idents, external
<1>7. CASE req' = [req EXCEPT ![r] = None] /\ UNCHANGED <<wg, keys>>
  BY <1>1, <1>7, OnlyRequest DEF idents, external
<1>8. CASE /\ Row(node[n]) /\ NewKey(Local) /\ wg' = [wg EXCEPT ![n][i] = Fresh(keys)]
           /\ req' = [req EXCEPT ![r] = y]
  <2>1. IdentityTypes' /\ Longer
    BY <1>1, <1>3, <1>8, KeyTypes
  <2> QED
    BY <1>1, <1>3, <1>5, <1>8, <2>1, RequestStores
<1> QED
  BY <1>1, <1>6, <1>7, <1>8

LEMMA ListClientsTypes == ASSUME TypeInv, NEW r \in Requests, ListClients(r) PROVE TypeInv'
<1> DEFINE name == MinionId(req[r].snap)
           I == {j \in 1 .. Len(keys) : keys[j] = name}
           k == IF I # {} THEN Max(I) ELSE 0
           x == [req[r] EXCEPT !.pc = "save", !.got = k]
           y == [req[r] EXCEPT !.pc = "create"]
<1>1. At(r, "peer", "list") \/ At(r, "peer", "fetch")
  BY DEF ListClients
<1>2. ~Idle(r) /\ req[r].kind = "peer"
  BY <1>1, AtLemma
<1>3. IsRequest(req[r]) /\ Holds(req[r], minted, keys) /\ node[req[r].node] # None
  BY <1>2, RequestOf
<1>4. ClientKey(name) = k
  BY Zenon DEF ClientKey, SelectLastInSeq
<1>5. /\ UNCHANGED <<rows, idents, external, page, build, ops>>
      /\ \/ req' = [req EXCEPT ![r] = x]
         \/ req' = [req EXCEPT ![r] = y]
         \/ req' = [req EXCEPT ![r] = None]
  BY <1>4, Zenon DEF ListClients, Goto, Ends
<1>6. k \in 0 .. Len(keys) /\ k \in Nat
  <2>1. Len(keys) \in Nat /\ I \in SUBSET (1 .. Len(keys))
    BY DEF TypeInv, IdentityTypes
  <2> HIDE DEF I
  <2>2. k \in I \cup {0}
    BY <2>1, IndexLemma
  <2> HIDE DEF k
  <2> QED
    BY <2>1, <2>2
<1> HIDE DEF k
<1>7. IsRequest(x) /\ x.node = req[r].node /\ x.kind = "peer" /\ x.got = k
  BY <1>2, <1>3, <1>6 DEF IsRequest, Pcs
<1> HIDE DEF x
<1>8. Holds(x, minted, keys)
  BY <1>6, <1>7 DEF Holds
<1>9. IsRequest(y) /\ Holds(y, minted, keys) /\ y.node = req[r].node
  BY <1>3, GotoLemma DEF Pcs
<1> HIDE DEF y
<1>10. CASE req' = [req EXCEPT ![r] = x]
  BY <1>3, <1>5, <1>7, <1>8, <1>10, OnlyRequest
<1>11. CASE req' = [req EXCEPT ![r] = y]
  BY <1>3, <1>5, <1>9, <1>11, OnlyRequest
<1>12. CASE req' = [req EXCEPT ![r] = None]
  BY <1>5, <1>12, OnlyRequest
<1> QED
  BY <1>5, <1>10, <1>11, <1>12

LEMMA CreateClientTypes == ASSUME TypeInv, NEW r \in Requests, CreateClient(r) PROVE TypeInv'
<1> DEFINE name == MinionId(req[r].snap)
           y == [req[r] EXCEPT !.pc = "fetch"]
<1>1. At(r, "peer", "create") /\ NewKey(name) /\ UNCHANGED <<rows, idents, minted, authorised, told, page, build, ops>>
  BY DEF CreateClient
<1>2. ~Idle(r)
  BY <1>1, AtLemma
<1>3. IsRequest(req[r]) /\ Holds(req[r], minted, keys) /\ req[r].node \in Nodes /\ node[req[r].node] # None
  BY <1>2, RequestOf
<1>4. name \in Hostnames \cup Slugs \cup {Unset, Local}
  BY <1>3, RowFields DEF IsRequest
<1> HIDE DEF name
<1>5. IdentityTypes' /\ Longer
  BY <1>1, <1>3, <1>4, KeyTypes DEF idents
<1>6. IsRequest(y) /\ Holds(y, minted, keys) /\ y.node = req[r].node
  BY <1>3, GotoLemma DEF Pcs
<1>7. req' = [req EXCEPT ![r] = y]
  BY Zenon DEF CreateClient, Goto
<1> HIDE DEF y
<1>8. Holds(y, minted', keys')
  BY <1>5, <1>6, HoldsKept DEF TypeInv
<1> QED
  BY <1>1, <1>3, <1>5, <1>6, <1>7, <1>8, RequestStores

LEMMA PeerSaveTypes == ASSUME TypeInv, NEW r \in Requests, PeerSave(r) PROVE TypeInv'
<1> DEFINE params == Tunnelled(req[r].snap, req[r].name, req[r].got)
           y == [req[r] EXCEPT !.pc = "store"]
<1>1. At(r, "peer", "save") /\ UNCHANGED <<idents, external>>
  BY DEF PeerSave
<1>2. ~Idle(r)
  BY <1>1, AtLemma
<1>3. IsRequest(req[r]) /\ Holds(req[r], minted, keys)
  BY <1>2, RequestOf
<1>4. RowParameters(req[r].snap.params) /\ req[r].name \in Interfaces
  BY <1>1, <1>3, RowFields DEF IsRequest, At
<1>5. RowParameters(params)
  BY <1>4, TunnelledLemma
<1>6. IsRequest(y) /\ Holds(y, minted, keys) /\ y.node = req[r].node
  BY <1>3, GotoLemma DEF Pcs
<1>7. SaveParams(r, req[r].node, params, [req EXCEPT ![r] = y])
  BY Zenon DEF PeerSave, Goto
<1> HIDE DEF params, y
<1> QED
  BY <1>1, <1>2, <1>5, <1>6, <1>7, SaveParamsTypes

LEMMA PeerStoreTypes == ASSUME TypeInv, NEW r \in Requests, PeerStore(r) PROVE TypeInv'
<1> DEFINE n == req[r].node
           got == req[r].got
           i == req[r].name
           y == [req[r] EXCEPT !.pc = "mint"]
<1>1. /\ At(r, "peer", "store") /\ UNCHANGED <<rows, zt, external, page, build, ops>>
      /\ \/ /\ wg' = wg \/ (Row(node[n]) /\ wg' = [wg EXCEPT ![n][i] = got])
            /\ req' = [req EXCEPT ![r] = None]
         \/ wg' = wg /\ req' = [req EXCEPT ![r] = y]
  BY DEF PeerStore, Ends, Goto
<1>2. ~Idle(r) /\ req[r].kind = "peer"
  BY <1>1, AtLemma
<1>3. IsRequest(req[r]) /\ Holds(req[r], minted, keys) /\ n \in Nodes /\ node[n] # None
  BY <1>2, RequestOf
<1>4. got \in 0 .. Len(keys)
  BY <1>2, <1>3 DEF Holds
<1>5. IsRequest(y) /\ y.node = n /\ y.kind = "peer" /\ y.got = got
  BY <1>2, <1>3 DEF IsRequest, Pcs
<1> HIDE DEF n, got, i, y
<1>6. Holds(y, minted, keys)
  BY <1>4, <1>5 DEF Holds
<1>7. CASE wg' = wg /\ req' = [req EXCEPT ![r] = None]
  BY <1>1, <1>7, OnlyRequest DEF idents
<1>8. CASE wg' = wg /\ req' = [req EXCEPT ![r] = y]
  BY <1>1, <1>3, <1>5, <1>6, <1>8, OnlyRequest DEF idents
<1>9. CASE Row(node[n]) /\ wg' = [wg EXCEPT ![n][i] = got] /\ req' = [req EXCEPT ![r] = None]
  <2>1. wg' \in [Nodes -> [Interfaces -> 0 .. Len(keys)]]
    <3>1. wg \in [Nodes -> [Interfaces -> 0 .. Len(keys)]]
      BY DEF TypeInv, IdentityTypes
    <3>2. [wg[n] EXCEPT ![i] = got] \in [Interfaces -> 0 .. Len(keys)]
      BY <1>3, <1>4, <3>1, ExceptTyped
    <3> QED
      BY <1>9, <3>1, <3>2
  <2>2. IdentityTypes' /\ Longer
    BY <1>1, <1>3, <1>9, <2>1 DEF TypeInv, IdentityTypes, external, rows, Longer
  <2> QED
    BY <1>1, <1>9, <2>2, RequestStores
<1> QED
  BY <1>1, <1>7, <1>8, <1>9

LEMMA BackfillSaveTypes == ASSUME TypeInv, NEW r \in Requests, BackfillSave(r) PROVE TypeInv'
<1> DEFINE params == Backfilled(req[r].snap)
<1>1. /\ At(r, "backfill", "save") /\ UNCHANGED <<idents, external>>
      /\ \/ req' = [req EXCEPT ![r] = None] /\ UNCHANGED <<rows, page, build, ops>>
         \/ SaveParams(r, req[r].node, params, [req EXCEPT ![r] = None])
  BY DEF BackfillSave, Ends
<1>2. ~Idle(r)
  BY <1>1, AtLemma
<1>3. Parameters(req[r].snap.params) /\ RowParameters(req[r].snap.params)
  BY <1>2, RequestOf, RowFields DEF IsRequest
<1>4. RowParameters(params)
  BY <1>3, BackfilledLemma, NamesKept
<1> HIDE DEF params
<1> QED
  BY <1>1, <1>2, <1>4, OnlyRequest, SaveParamsTypes

LEMMA FinishTypes == ASSUME TypeInv, NEW r \in Requests, Finish(r) PROVE TypeInv'
BY OnlyRequest DEF Finish, Ends

LEMMA ProceedTypes == ASSUME TypeInv, Proceed PROVE TypeInv'
<1> PICK r \in Requests :
      \/ EditSave(r) \/ JoinSave(r) \/ JoinStore(r) \/ JoinRegister(r)
      \/ \E w \in Networks : CheckNetwork(r, w)
      \/ \E i \in Interfaces : CheckKey(r, i)
      \/ StoreNetwork(r) \/ StoreKey(r)
      \/ ListClients(r) \/ CreateClient(r) \/ PeerSave(r) \/ PeerStore(r)
      \/ BackfillSave(r) \/ Finish(r)
  BY DEF Proceed
<1> QED
  BY EditSaveTypes, JoinSaveTypes, JoinStoreTypes, JoinRegisterTypes, CheckNetworkTypes, CheckKeyTypes,
     PeerStoreTypes, StoreNetworkTypes, StoreKeyTypes, ListClientsTypes, CreateClientTypes, PeerSaveTypes,
     BackfillSaveTypes, FinishTypes

LEMMA StutterTypes == ASSUME TypeInv, UNCHANGED vars PROVE TypeInv'
<1>1. UNCHANGED <<rows, idents, external, page, build, req, ops>>
  BY DEF vars
<1>2. RowTypes' /\ Grows /\ Remains
  BY <1>1, RowsKept DEF TypeInv
<1>3. IdentityTypes' /\ Longer
  BY <1>1, <1>2, IdentitiesKept DEF TypeInv
<1>4. RequestTypes'
  BY <1>1, <1>2, <1>3, RequestsKept DEF TypeInv
<1> QED
  BY <1>1, <1>2, <1>3, <1>4, PagesKept, BuildsKept, OpsTypes DEF TypeInv

LEMMA InitTypes == ASSUME Init PROVE TypeInv
<1> PICK first \in FirstRows : cluster = first[1] /\ node = first[2]
  BY DEF Init
<1>1. /\ DOMAIN first[1] = Clusters /\ DOMAIN first[2] = Nodes
      /\ \A c \in Clusters : first[1][c] = None \/ IsClusterRow(first[1][c])
      /\ \A n \in Nodes : first[2][n] = None \/ (IsNodeRow(first[2][n]) /\ first[1][first[2][n].cluster] # None)
  BY FirstRowsAssumption
<1>2. RowTypes
  <2>1. version \in DOMAIN Overrides
    BY DEF Init
  <2>2. \A n \in Nodes : Row(node[n]) => IsNodeRow(node[n]) /\ Row(cluster[node[n].cluster])
    <3>1. SUFFICES ASSUME NEW n \in Nodes, Row(node[n]) PROVE IsNodeRow(node[n]) /\ Row(cluster[node[n].cluster])
      OBVIOUS
    <3>2. IsNodeRow(node[n]) /\ cluster[node[n].cluster] # None
      BY <1>1, <3>1, Absent
    <3>3. node[n].cluster \in Clusters
      BY <3>2, RowFields
    <3> QED
      BY <1>1, <3>2, <3>3, Absent
  <2> QED
    BY <1>1, <2>1, <2>2, Absent DEF RowTypes
<1>3. IdentityTypes
  <2>1. /\ zt = [n \in Nodes |-> NoIdentity] /\ wg = [n \in Nodes |-> NoKey]
        /\ minted = <<>> /\ keys = <<>> /\ authorised = {} /\ told = {}
    BY DEF Init
  <2>2. Len(minted) = 0 /\ Len(keys) = 0
    BY <2>1
  <2>3. NoIdentity \in [Networks -> 0 .. 0] /\ NoKey \in [Interfaces -> 0 .. 0]
    BY DEF NoIdentity, NoKey
  <2>4. zt \in [Nodes -> [Networks -> 0 .. Len(minted)]] /\ wg \in [Nodes -> [Interfaces -> 0 .. Len(keys)]]
    BY <2>1, <2>2, <2>3
  <2>5. \A n \in Nodes : zt[n] = NoIdentity /\ wg[n] = NoKey
    BY <2>1
  <2> QED
    BY <2>1, <2>4, <2>5 DEF IdentityTypes
<1>4. PageTypes /\ BuildTypes /\ RequestTypes /\ ops \in 0 .. MaxOps
  BY RegistryAssumption DEF Init, PageTypes, BuildTypes, RequestTypes
<1> QED
  BY <1>2, <1>3, <1>4 DEF TypeInv

LEMMA NextTypes == ASSUME TypeInv, [Next]_vars PROVE TypeInv'
BY ClusterStepTypes, NodeStepTypes, ArriveTypes, ProceedTypes, PublishTypes, StutterTypes DEF Next

LEMMA Typed == Spec => []TypeInv
<1>1. Init => TypeInv
  BY InitTypes
<1>2. TypeInv /\ [Next]_vars => TypeInv'
  BY NextTypes
<1> QED
  BY <1>1, <1>2, PTL DEF Spec

LEMMA TypeInvOK == ASSUME TypeInv PROVE TypeOK
<1>1. /\ \A c \in Clusters : Row(cluster[c]) => IsClusterRow(cluster[c])
      /\ \A n \in Live : IsNodeRow(node[n]) /\ Row(cluster[node[n].cluster])
      /\ version \in DOMAIN Overrides /\ ops \in 0 .. MaxOps
  BY DEF TypeInv, RowTypes, Live
<1>2. /\ zt \in [Nodes -> [Networks -> 0 .. Len(minted)]]
      /\ wg \in [Nodes -> [Interfaces -> 0 .. Len(keys)]]
      /\ authorised \subseteq DOMAIN minted /\ told \subseteq DOMAIN minted
  BY DEF TypeInv, IdentityTypes
<1>3. \A n \in Nodes \ Live : (\A w \in Networks : zt[n][w] = 0) /\ (\A i \in Interfaces : wg[n][i] = 0)
  BY DEF TypeInv, IdentityTypes, Live, NoIdentity, NoKey
<1>4. \A n \in Nodes : page[n] # None => IsNodeRow(page[n])
  BY DEF TypeInv, PageTypes
<1>5. \A b \in Builds : build[b] # None =>
        build[b].node \in Live \cup {None} /\ build[b].cluster \in Clusters \cup {None}
  BY DEF TypeInv, BuildTypes, IsBuild, Live
<1>6. \A r \in Requests : req[r] # None =>
        /\ req[r].kind \in Kinds /\ req[r].node \in Nodes /\ node[req[r].node] # None
        /\ IsNodeRow(req[r].snap) /\ IsNodeRow(req[r].post)
  BY DEF TypeInv, RequestTypes, IsRequest
<1> QED
  BY <1>1, <1>2, <1>3, <1>4, <1>5, <1>6 DEF TypeOK

\* Whatever order the requests of the pages, the commands and the controllers'
\* answers come in, every node has a cluster, every identity and key a node has
\* was made, a deleted node keeps none, no build names a deleted node, and the
\* parameters stay a tree that the forms could have posted.
THEOREM RegistryTypes == Spec => []TypeOK
<1>1. TypeInv => TypeOK
  BY TypeInvOK
<1> QED
  BY <1>1, Typed, PTL

-----------------------------------------------------------------------------
(* What a request's steps leave to the others. *)

\* Another request is as it was, or has read what is now stale.
Marked(q) == [q EXCEPT !.stale = TRUE]
Apart(o) == req'[o] = req[o] \/ (req'[o] = Marked(req[o]) /\ ~Idle(o))

LEMMA MarkedLemma ==
  ASSUME TypeInv, NEW o \in Requests, ~Idle(o), Apart(o)
  PROVE  /\ req'[o] # None /\ req'[o].kind = req[o].kind /\ req'[o].pc = req[o].pc
         /\ req'[o].node = req[o].node /\ req'[o].snap = req[o].snap /\ req'[o].got = req[o].got
         /\ ~req'[o].stale => ~req[o].stale /\ req'[o] = req[o]
<1>1. IsRequest(req[o]) /\ req[o] # None
  BY RequestOf
<1>2. CASE req'[o] = req[o]
  BY <1>1, <1>2
<1>3. CASE req'[o] = Marked(req[o])
  <2>1. /\ Marked(req[o]).kind = req[o].kind /\ Marked(req[o]).pc = req[o].pc
        /\ Marked(req[o]).node = req[o].node /\ Marked(req[o]).snap = req[o].snap /\ Marked(req[o]).got = req[o].got
        /\ Marked(req[o]).stale /\ "kind" \in DOMAIN Marked(req[o])
    BY <1>1 DEF Marked, IsRequest
  <2>2. Marked(req[o]) # None
    BY <2>1 DEF None
  <2> QED
    BY <1>3, <2>1, <2>2
<1> QED
  BY <1>2, <1>3 DEF Apart

LEMMA ApartPlain ==
  ASSUME TypeInv, NEW r, NEW x, req' = [req EXCEPT ![r] = x]
  PROVE  \A o \in Requests \ {r} : Apart(o)
BY DEF TypeInv, RequestTypes, Apart

LEMMA ApartOvertaking ==
  ASSUME TypeInv, NEW r, NEW n, NEW x, req' = Overtaking([req EXCEPT ![r] = x], r, n)
  PROVE  /\ \A o \in Requests \ {r} : Apart(o)
         /\ \A o \in Requests \ {r} : ~Idle(o) /\ req[o].node = n => req'[o] = Marked(req[o])
         /\ r \in Requests => req'[r] = x
<1>1. /\ DOMAIN req = Requests
      /\ \A o \in Requests : req'[o] = IF o # r /\ [req EXCEPT ![r] = x][o] # None /\ [req EXCEPT ![r] = x][o].node = n
                                       THEN Marked([req EXCEPT ![r] = x][o]) ELSE [req EXCEPT ![r] = x][o]
  BY DEF TypeInv, RequestTypes, Overtaking, Marked
<1>2. \A o \in Requests : [req EXCEPT ![r] = x][o] = IF o = r THEN x ELSE req[o]
  BY <1>1
<1> QED
  BY <1>1, <1>2 DEF Apart, Idle

LEMMA ApartSave ==
  ASSUME TypeInv, NEW r \in Requests, NEW n, NEW params, NEW x, SaveParams(r, n, params, [req EXCEPT ![r] = x])
  PROVE  \A o \in Requests \ {r} : Apart(o)
<1>1. \/ req' = Overtaking([req EXCEPT ![r] = x], r, n)
      \/ req' = [req EXCEPT ![r] = None]
  BY DEF SaveParams, Ends
<1> QED
  BY <1>1, ApartPlain, ApartOvertaking

LEMMA ApartArrive ==
  ASSUME TypeInv, Arrive
  PROVE  /\ \A o \in Requests : ~Idle(o) => req'[o] = req[o]
         /\ UNCHANGED <<rows, idents, external, build>>
<1> PICK r \in Requests, n \in Nodes :
      \/ page[n] # None /\ \E post \in Posts(page[n]) : PostEdit(r, n, post)
      \/ \E w \in Networks : Join(r, n, w)
      \/ \E targets \in {{}} \cup {{w} : w \in Networks}, force \in BOOLEAN :
           GenerateNetworks(r, n, targets, force)
      \/ \E targets \in {{}} \cup {{i} : i \in Interfaces}, force \in BOOLEAN :
           GenerateKeys(r, n, targets, force)
      \/ \E i \in Interfaces, controller \in BOOLEAN : AddPeer(r, n, i, controller)
      \/ Backfill(r, n)
      \/ \E seed \in NodeSeeds : SeedFinds(r, n, seed)
  BY DEF Arrive
<1>1. ASSUME NEW q, Begin(r, n, q)
      PROVE  (\A o \in Requests : ~Idle(o) => req'[o] = req[o]) /\ UNCHANGED <<rows, idents, external, build>>
  BY <1>1 DEF Begin, Idle, TypeInv, RequestTypes
<1>2. ASSUME NEW post, PostEdit(r, n, post)
      PROVE  (\A o \in Requests : ~Idle(o) => req'[o] = req[o]) /\ UNCHANGED <<rows, idents, external, build>>
  <2>1. /\ Idle(r) /\ UNCHANGED <<rows, idents, external, build>>
        /\ \E q : req' = [req EXCEPT ![r] = q]
    BY <1>2, Zenon DEF PostEdit
  <2> QED
    BY <2>1 DEF Idle, TypeInv, RequestTypes
<1>3. (\E q : Begin(r, n, q)) \/ \E post : PostEdit(r, n, post)
  BY Zenon DEF Join, GenerateNetworks, GenerateKeys, AddPeer, Backfill, SeedFinds
<1> QED
  BY <1>1, <1>2, <1>3

-----------------------------------------------------------------------------
(* Identities of the join button. *)

Answering(o) == At(o, "join", "register")
AnsweringIn(q) == q # None /\ q.kind = "join" /\ q.pc = "register"
Answered(m, done, q) == m \in done \/ \E r \in Requests : AnsweringIn(q[r]) /\ q[r].got = m

LEMMA AnsweringLemma ==
  \A o : (Answering(o) <=> AnsweringIn(req[o])) /\ (Answering(o)' <=> AnsweringIn(req'[o]))
BY DEF Answering, AnsweringIn, At, Idle

LEMMA StoredKept ==
  ASSUME TypeInv, TypeInv', StoredIsAuthorised,
         authorised \subseteq authorised', told \subseteq told',
         \A m \in 1 .. Len(minted) : minted'[m] = minted[m],
         \A o \in Requests : Answering(o) =>
           (Answering(o)' /\ req'[o].got = req[o].got) \/ req[o].got \in authorised' \cup told',
         \A n \in Nodes, w \in Networks :
           zt'[n][w] \in {zt[n][w], 0} \/ minted'[zt'[n][w]] = "generate" \/ Answered(zt'[n][w], authorised' \cup told', req')
  PROVE  StoredIsAuthorised'
<1> DEFINE Now(m) == Answered(m, authorised \cup told, req)
           Then(m) == Answered(m, authorised' \cup told', req')
<1>1. ASSUME NEW m, Now(m) PROVE Then(m)
  BY <1>1, AnsweringLemma DEF Answered
<1>2. SUFFICES ASSUME NEW n \in Nodes, NEW w \in Networks, zt'[n][w] # 0, minted'[zt'[n][w]] = "join"
               PROVE  Then(zt'[n][w])
  <2>1. ASSUME NEW n \in Nodes, NEW w \in Networks, zt'[n][w] # 0, minted'[zt'[n][w]] = "join",
               Then(zt'[n][w])
        PROVE  zt'[n][w] \in authorised' \cup told' \/ \E r \in Requests : Answering(r)' /\ req'[r].got = zt'[n][w]
    BY <2>1, AnsweringLemma DEF Answered
  <2> QED
    BY <1>2, <2>1 DEF StoredIsAuthorised, Answering, Live
<1>3. CASE zt'[n][w] = zt[n][w]
  <2>1. zt[n][w] \in 0 .. Len(minted) /\ Len(minted) \in Nat
    BY DEF TypeInv, IdentityTypes
  <2>2. zt[n][w] # 0 /\ minted[zt[n][w]] = "join"
    BY <1>2, <1>3, <2>1
  <2>3. n \in Live
    BY <2>2 DEF TypeInv, IdentityTypes, NoIdentity, Live
  <2>4. Now(zt[n][w])
    <3>1. \/ zt[n][w] \in authorised \cup told
          \/ \E r \in Requests : Answering(r) /\ req[r].got = zt[n][w]
      BY <2>2, <2>3 DEF StoredIsAuthorised, Answering
    <3> QED
      BY <3>1, AnsweringLemma DEF Answered
  <2> HIDE DEF Now, Then
  <2> QED
    BY <1>1, <1>3, <2>4
<1> QED
  BY <1>2, <1>3

\* A request that is not at the controller's answer leaves the others at it.
LEMMA AnsweringKept ==
  ASSUME TypeInv, NEW r, ~Answering(r), \A o \in Requests \ {r} : Apart(o)
  PROVE  \A o \in Requests : Answering(o) => Answering(o)' /\ req'[o].got = req[o].got
<1>1. SUFFICES ASSUME NEW o \in Requests, Answering(o) PROVE Answering(o)' /\ req'[o].got = req[o].got
  OBVIOUS
<1>2. o # r /\ Apart(o) /\ ~Idle(o) /\ req[o].kind = "join" /\ req[o].pc = "register"
  BY <1>1 DEF Answering, At
<1>3. req'[o] # None /\ req'[o].kind = "join" /\ req'[o].pc = "register" /\ req'[o].got = req[o].got
  BY <1>2, MarkedLemma
<1> QED
  BY <1>3 DEF Answering, At, Idle

LEMMA StoredUnlessMinted ==
  ASSUME TypeInv, TypeInv', StoredIsAuthorised, UNCHANGED <<minted, authorised, told>>,
         \A o \in Requests : Answering(o) => Answering(o)' /\ req'[o].got = req[o].got,
         \A n \in Nodes, w \in Networks : zt'[n][w] \in {zt[n][w], 0}
  PROVE  StoredIsAuthorised'
BY StoredKept

LEMMA StoredForgotten ==
  ASSUME TypeInv, TypeInv', StoredIsAuthorised, UNCHANGED <<external, req>>,
         UNCHANGED idents \/ \E S : ForgetNodes(S)
  PROVE  StoredIsAuthorised'
<1>1. UNCHANGED <<minted, authorised, told, req>>
  BY DEF external
<1>2. \A n \in Nodes, w \in Networks : zt'[n][w] \in {zt[n][w], 0}
  BY DEF idents, ForgetNodes, NoIdentity
<1>3. \A o \in Requests : Answering(o) => Answering(o)' /\ req'[o].got = req[o].got
  BY <1>1 DEF Answering, At, Idle
<1> QED
  BY <1>1, <1>2, <1>3, StoredUnlessMinted

\* Most steps of a request store no ZeroTier identity.
LEMMA StoredApart ==
  ASSUME TypeInv, TypeInv', StoredIsAuthorised, NEW r \in Requests, ~Answering(r), \A o \in Requests \ {r} : Apart(o),
         UNCHANGED <<zt, minted, authorised, told>>
  PROVE  StoredIsAuthorised'
BY AnsweringKept, StoredUnlessMinted

LEMMA MintedKept ==
  ASSUME TypeInv, NEW r, NEW net, NEW by, Mint(r, net, by)
  PROVE  /\ \A m \in 1 .. Len(minted) : minted'[m] = minted[m]
         /\ minted'[Fresh(minted)] = by
         /\ \A n \in Nodes, w \in Networks : zt'[n][w] = zt[n][w] \/ zt'[n][w] = Fresh(minted)
<1>1. minted' = Append(minted, by) /\ zt' = [zt EXCEPT ![req[r].node][net] = Fresh(minted)]
  BY DEF Mint
<1>2. minted \in Seq({"join", "generate"}) /\ zt \in [Nodes -> [Networks -> 0 .. Len(minted)]]
  BY DEF TypeInv, IdentityTypes
<1>3. (\A m \in 1 .. Len(minted) : minted'[m] = minted[m]) /\ minted'[Fresh(minted)] = by
  BY <1>1, <1>2 DEF Fresh
<1> DEFINE k == Fresh(minted)
<1>4. zt' = [zt EXCEPT ![req[r].node][net] = k]
  BY <1>1
<1> HIDE DEF k
<1>5. \A n \in Nodes, w \in Networks : zt'[n][w] = zt[n][w] \/ zt'[n][w] = k
  BY <1>2, <1>4
<1> QED
  BY <1>3, <1>5 DEF k

\* The steps that write no row and no ZeroTier identity.
LEMMA QuietStep ==
  ASSUME NEW r,
         \/ \E w \in Networks : CheckNetwork(r, w)
         \/ \E i \in Interfaces : CheckKey(r, i)
         \/ PeerStore(r) \/ StoreKey(r) \/ ListClients(r) \/ CreateClient(r) \/ Finish(r)
  PROVE  /\ ~Answering(r) /\ ~Idle(r)
         /\ UNCHANGED <<rows, zt, minted, authorised, told, page, build, ops>>
         /\ \E x : req' = [req EXCEPT ![r] = x]
<1> DEFINE Quiet ==
             /\ ~Answering(r) /\ ~Idle(r)
             /\ UNCHANGED <<rows, zt, minted, authorised, told, page, build, ops>>
             /\ \E x : req' = [req EXCEPT ![r] = x]
<1>1. ASSUME NEW w, CheckNetwork(r, w) PROVE Quiet
  BY <1>1, Zenon DEF CheckNetwork, Answering, At, idents, external
<1>2. ASSUME NEW i, CheckKey(r, i) PROVE Quiet
  BY <1>2, Zenon DEF CheckKey, Answering, At, idents, external
<1>3. ASSUME PeerStore(r) PROVE Quiet
  BY <1>3, Zenon DEF PeerStore, Answering, At, external, Ends, Goto
<1>4. ASSUME StoreKey(r) PROVE Quiet
  BY <1>4, Zenon DEF StoreKey, Answering, At, Ends
<1>5. ASSUME ListClients(r) PROVE Quiet
  BY <1>5, Zenon DEF ListClients, Answering, At, idents, external, Goto, Ends
<1>6. ASSUME CreateClient(r) PROVE Quiet
  BY <1>6, Zenon DEF CreateClient, Answering, At, idents, external, Goto
<1>7. ASSUME Finish(r) PROVE Quiet
  <2>1. ~Answering(r)
    BY <1>7 DEF Finish, Answering, At
  <2> QED
    BY <1>7, <2>1, Zenon DEF Finish, idents, external, Ends
<1> QED
  BY <1>1, <1>2, <1>3, <1>4, <1>5, <1>6, <1>7

LEMMA StoredProceed ==
  ASSUME TypeInv, TypeInv', StoredIsAuthorised, Proceed
  PROVE  StoredIsAuthorised'
<1> PICK r \in Requests :
      \/ EditSave(r) \/ JoinSave(r) \/ JoinStore(r) \/ JoinRegister(r)
      \/ \E w \in Networks : CheckNetwork(r, w)
      \/ \E i \in Interfaces : CheckKey(r, i)
      \/ StoreNetwork(r) \/ StoreKey(r)
      \/ ListClients(r) \/ CreateClient(r) \/ PeerSave(r) \/ PeerStore(r)
      \/ BackfillSave(r) \/ Finish(r)
  BY DEF Proceed
<1>1. ASSUME JoinStore(r) PROVE StoredIsAuthorised'
  <2>1. ~Answering(r) /\ At(r, "join", "store") /\ UNCHANGED <<authorised, told>>
    BY <1>1 DEF JoinStore, Answering, At
  <2>2. \/ UNCHANGED <<zt, minted>>
        \/ \E net : Mint(r, net, "join") /\ req' = [req EXCEPT ![r] = [@ EXCEPT !.pc = "register", !.got = Fresh(minted)]]
    BY <1>1 DEF JoinStore
  <2>3. \A o \in Requests \ {r} : Apart(o)
    <3>1. \E x : req' = [req EXCEPT ![r] = x]
      BY <1>1, Zenon DEF JoinStore, Ends
    <3> QED
      BY <3>1, ApartPlain
  <2>4. CASE UNCHANGED <<zt, minted>>
    BY <2>1, <2>3, <2>4, StoredApart
  <2>5. ASSUME NEW net, Mint(r, net, "join"),
               req' = [req EXCEPT ![r] = [@ EXCEPT !.pc = "register", !.got = Fresh(minted)]]
        PROVE  StoredIsAuthorised'
    <3> DEFINE k == Fresh(minted)
               x == [req[r] EXCEPT !.pc = "register", !.got = k]
    <3>1. IsRequest(req[r]) /\ req[r].kind = "join"
      BY <2>1, RequestOf DEF At
    <3>2. req' = [req EXCEPT ![r] = x]
      BY <2>5, Zenon
    <3> HIDE DEF k
    <3>3. x.kind = "join" /\ x.pc = "register" /\ x.got = k /\ "kind" \in DOMAIN x
      BY <3>1 DEF IsRequest
    <3> HIDE DEF x
    <3>4. req'[r] = x
      BY <3>2 DEF TypeInv, RequestTypes
    <3>5. Answering(r)' /\ req'[r].got = k
      BY <3>3, <3>4 DEF Answering, At, Idle, None
    <3>6. Answered(k, authorised' \cup told', req')
      BY <3>5, AnsweringLemma DEF Answered
    <3>7. /\ \A m \in 1 .. Len(minted) : minted'[m] = minted[m]
          /\ \A n \in Nodes, w \in Networks : zt'[n][w] = zt[n][w] \/ zt'[n][w] = k
      BY <2>5, MintedKept DEF k
    <3>8. \A o \in Requests : Answering(o) => Answering(o)' /\ req'[o].got = req[o].got
      BY <2>1, <2>3, AnsweringKept
    <3>9. \A n \in Nodes, w \in Networks : zt'[n][w] = zt[n][w] \/ Answered(zt'[n][w], authorised' \cup told', req')
      BY <3>6, <3>7
    <3> QED
      BY <2>1, <3>7, <3>8, <3>9, StoredKept
  <2> QED
    BY <2>2, <2>4, <2>5
<1>2. ASSUME JoinRegister(r) PROVE StoredIsAuthorised'
  <2>1. /\ req' = [req EXCEPT ![r] = None] /\ UNCHANGED <<zt, minted>>
        /\ req[r].got \in authorised' \cup told' /\ authorised \subseteq authorised' /\ told \subseteq told'
    BY <1>2 DEF JoinRegister, Ends, idents
  <2>2. \A o \in Requests \ {r} : Apart(o)
    BY <2>1, ApartPlain
  <2>3. ASSUME NEW o \in Requests, Answering(o)
        PROVE  (Answering(o)' /\ req'[o].got = req[o].got) \/ req[o].got \in authorised' \cup told'
    <3>1. CASE o = r
      BY <2>1, <3>1
    <3>2. CASE o # r
      <4>1. Apart(o) /\ ~Idle(o) /\ req[o].kind = "join" /\ req[o].pc = "register"
        BY <2>2, <2>3, <3>2 DEF Answering, At
      <4>2. req'[o] # None /\ req'[o].kind = "join" /\ req'[o].pc = "register" /\ req'[o].got = req[o].got
        BY <4>1, MarkedLemma
      <4> QED
        BY <4>2 DEF Answering, At, Idle
    <3> QED
      BY <3>1, <3>2
  <2>4. \A n \in Nodes, w \in Networks : zt'[n][w] = zt[n][w]
    BY <2>1
  <2> QED
    BY <2>1, <2>3, <2>4, StoredKept
<1>3. ASSUME StoreNetwork(r) PROVE StoredIsAuthorised'
  <2>1. ~Answering(r) /\ UNCHANGED <<authorised, told>>
    BY <1>3 DEF StoreNetwork, Answering, At
  <2>2. UNCHANGED <<zt, minted>> \/ \E net : Mint(r, net, "generate")
    BY <1>3 DEF StoreNetwork
  <2>3. \A o \in Requests \ {r} : Apart(o)
    <3>1. \E x : req' = [req EXCEPT ![r] = x]
      BY <1>3, Zenon DEF StoreNetwork, Ends
    <3> QED
      BY <3>1, ApartPlain
  <2>4. CASE UNCHANGED <<zt, minted>>
    BY <2>1, <2>3, <2>4, StoredApart
  <2>5. ASSUME NEW net, Mint(r, net, "generate") PROVE StoredIsAuthorised'
    <3>1. /\ \A m \in 1 .. Len(minted) : minted'[m] = minted[m]
          /\ \A n \in Nodes, w \in Networks : zt'[n][w] = zt[n][w] \/ minted'[zt'[n][w]] = "generate"
      BY <2>5, MintedKept
    <3>2. \A o \in Requests : Answering(o) => Answering(o)' /\ req'[o].got = req[o].got
      BY <2>1, <2>3, AnsweringKept
    <3> QED
      BY <2>1, <3>1, <3>2, StoredKept
  <2> QED
    BY <2>2, <2>4, <2>5
<1>4. ASSUME EditSave(r) PROVE StoredIsAuthorised'
  <2>1. ~Answering(r) /\ UNCHANGED <<zt, minted, authorised, told>>
    BY <1>4 DEF EditSave, Answering, At, idents, external
  <2>2. req' = Overtaking([req EXCEPT ![r] = None], r, req[r].node) \/ req' = [req EXCEPT ![r] = None]
    BY <1>4 DEF EditSave, Ends
  <2>3. \A o \in Requests \ {r} : Apart(o)
    BY <2>2, ApartPlain, ApartOvertaking
  <2> QED
    BY <2>1, <2>3, StoredApart
<1>5. ASSUME JoinSave(r) \/ PeerSave(r) \/ BackfillSave(r) PROVE StoredIsAuthorised'
  <2>1. ~Answering(r) /\ UNCHANGED <<zt, minted, authorised, told>>
    BY <1>5 DEF JoinSave, PeerSave, BackfillSave, Answering, At, idents, external
  <2>2. \/ \E params, x : SaveParams(r, req[r].node, params, [req EXCEPT ![r] = x])
        \/ req' = [req EXCEPT ![r] = None]
    BY <1>5, Zenon DEF JoinSave, PeerSave, BackfillSave, Goto, Ends
  <2>3. \A o \in Requests \ {r} : Apart(o)
    <3>1. CASE req' = [req EXCEPT ![r] = None]
      BY <3>1, ApartPlain, Zenon
    <3>2. ASSUME NEW params, NEW x, SaveParams(r, req[r].node, params, [req EXCEPT ![r] = x])
          PROVE  \A o \in Requests \ {r} : Apart(o)
      BY <3>2, ApartSave, Zenon
    <3> QED
      BY <2>2, <3>1, <3>2
  <2> QED
    BY <2>1, <2>3, StoredApart
<1>6. ASSUME \/ \E w \in Networks : CheckNetwork(r, w)
             \/ \E i \in Interfaces : CheckKey(r, i)
             \/ PeerStore(r) \/ StoreKey(r) \/ ListClients(r) \/ CreateClient(r) \/ Finish(r)
      PROVE  StoredIsAuthorised'
  <2>1. ~Answering(r) /\ UNCHANGED <<zt, minted, authorised, told>> /\ \E x : req' = [req EXCEPT ![r] = x]
    BY <1>6, QuietStep
  <2>3. \A o \in Requests \ {r} : Apart(o)
    BY <2>1, ApartPlain
  <2> QED
    BY <2>1, <2>3, StoredApart
<1> QED
  BY <1>1, <1>2, <1>3, <1>4, <1>5, <1>6

LEMMA StoredNext ==
  ASSUME TypeInv, TypeInv', StoredIsAuthorised, [Next]_vars
  PROVE  StoredIsAuthorised'
<1>1. CASE ClusterStep
  <2>1. UNCHANGED <<external, req>> /\ (UNCHANGED idents \/ \E S : ForgetNodes(S))
    BY <1>1, Zenon DEF ClusterStep, ClusterCreate, ClusterEdit, ClusterDelete, SeedCluster
  <2> QED
    BY <2>1, StoredForgotten
<1>2. CASE NodeStep
  <2>1. UNCHANGED <<external, req>> /\ (UNCHANGED idents \/ \E S : ForgetNodes(S))
    BY <1>2, Zenon DEF NodeStep, NodeCreate, SeedCreates, NodeClone, NodeDelete, OpenPage, BakeNode
  <2> QED
    BY <2>1, StoredForgotten
<1>3. CASE Arrive
  <2>1. /\ \A o \in Requests : ~Idle(o) => req'[o] = req[o]
        /\ UNCHANGED <<minted, authorised, told, zt>>
    BY <1>3, ApartArrive DEF external, idents
  <2>2. \A o \in Requests : Answering(o) => Answering(o)' /\ req'[o].got = req[o].got
    BY <2>1 DEF Answering, At, Idle
  <2> QED
    BY <2>1, <2>2, StoredUnlessMinted
<1>4. CASE Proceed
  BY <1>4, StoredProceed
<1>5. CASE (\E v \in DOMAIN Overrides : PublishVersion(v)) \/ UNCHANGED vars
  <2>1. UNCHANGED <<external, req, idents>>
    BY <1>5 DEF PublishVersion, vars
  <2> QED
    BY <2>1, StoredForgotten
<1> QED
  BY <1>1, <1>2, <1>3, <1>4, <1>5 DEF Next

\* An identity the join button stored is authorised on the controller, or will be
\* by a request that is still at it, or the user was told to do it, whatever other
\* requests did to the node meanwhile.
THEOREM StoredAnswered == Spec => []StoredIsAuthorised
<1>1. Init => StoredIsAuthorised
  BY DEF Init, StoredIsAuthorised, Live, NoIdentity
<1>2. TypeInv /\ TypeInv' /\ StoredIsAuthorised /\ [Next]_vars => StoredIsAuthorised'
  BY StoredNext
<1> QED
  BY <1>1, <1>2, Typed, PTL DEF Spec

-----------------------------------------------------------------------------
(* What a request read is the row, until another one saves it. *)

Reading == {"save", "list", "create", "fetch"}
Current(q, row) == (q # None /\ ~q.stale /\ q.pc \in Reading /\ Row(row)) => row = q.snap
Unstale == \A r \in Requests : req[r] # None => Current(req[r], node[req[r].node])

\* A request that is given a new row, none, or has it no longer to write.
LEMMA CurrentIdle ==
  ASSUME NEW q, NEW row, q = None \/ q.stale \/ q.pc \notin Reading \/ row = q.snap \/ ~Row(row)
  PROVE  Current(q, row)
BY DEF Current

LEMMA UnstaleApart ==
  ASSUME TypeInv, Unstale, NEW r, \A o \in Requests \ {r} : Apart(o),
         NEW o \in Requests \ {r}, ~Idle(o), node'[req[o].node] = node[req[o].node] \/ req'[o] = Marked(req[o])
  PROVE  Current(req'[o], node'[req'[o].node])
<1>1. /\ req'[o].node = req[o].node
      /\ ~req'[o].stale => req'[o] = req[o]
  BY MarkedLemma
<1>2. Current(req[o], node[req[o].node])
  BY RequestOf DEF Unstale
<1>3. CASE req'[o].stale
  BY <1>3, CurrentIdle
<1>4. CASE ~req'[o].stale /\ node'[req[o].node] = node[req[o].node]
  BY <1>1, <1>2, <1>4
<1>5. CASE ~req'[o].stale /\ req'[o] = Marked(req[o])
  <2>1. IsRequest(req[o])
    BY RequestOf
  <2>2. Marked(req[o]).stale
    BY <2>1 DEF Marked, IsRequest
  <2> QED
    BY <1>5, <2>2
<1> QED
  BY <1>3, <1>4, <1>5

\* One request goes on, and no row changes.
LEMMA UnstaleGoes ==
  ASSUME TypeInv, Unstale, NEW r \in Requests, NEW x, req' = [req EXCEPT ![r] = x], node' = node,
         x # None => Current(x, node[x.node])
  PROVE  Unstale'
<1>1. \A o \in Requests \ {r} : Apart(o)
  BY ApartPlain
<1>2. /\ DOMAIN req = Requests /\ req'[r] = x /\ \A o \in Requests \ {r} : req'[o] = req[o]
  BY DEF TypeInv, RequestTypes
<1>3. ASSUME NEW o \in Requests, req'[o] # None PROVE Current(req'[o], node'[req'[o].node])
  <2>1. CASE o = r
    BY <1>2, <1>3, <2>1
  <2>2. CASE o # r
    BY <1>2, <1>3, <2>2 DEF Unstale
  <2> QED
    BY <2>1, <2>2
<1> QED
  BY <1>3 DEF Unstale

\* A request saves the row it read: those that read it too are stale.
LEMMA UnstaleSaves ==
  ASSUME TypeInv, Unstale, NEW r \in Requests, NEW n \in Nodes, NEW row, NEW x,
         node' = [node EXCEPT ![n] = row], req' = Overtaking([req EXCEPT ![r] = x], r, n),
         x = None \/ x.pc \notin Reading
  PROVE  Unstale'
<1>1. /\ \A o \in Requests \ {r} : Apart(o)
      /\ \A o \in Requests \ {r} : ~Idle(o) /\ req[o].node = n => req'[o] = Marked(req[o])
      /\ req'[r] = x
  BY ApartOvertaking
<1>2. ASSUME NEW o \in Requests, req'[o] # None PROVE Current(req'[o], node'[req'[o].node])
  <2>1. CASE o = r
    BY <1>1, <2>1, CurrentIdle
  <2>2. CASE o # r
    <3>1. Apart(o)
      BY <1>1, <2>2
    <3>2. ~Idle(o)
      BY <1>2, <3>1 DEF Apart, Idle
    <3>3. req[o].node \in Nodes
      BY <3>2, RequestOf
    <3>4. node'[req[o].node] = node[req[o].node] \/ req'[o] = Marked(req[o])
      BY <1>1, <2>2, <3>2, <3>3 DEF TypeInv, RowTypes
    <3> QED
      BY <1>1, <2>2, <3>2, <3>4, UnstaleApart
  <2> QED
    BY <2>1, <2>2
<1> QED
  BY <1>2 DEF Unstale

LEMMA UnstaleSaveParams ==
  ASSUME TypeInv, Unstale, NEW r \in Requests, NEW n \in Nodes, NEW params, NEW x,
         SaveParams(r, n, params, [req EXCEPT ![r] = x]), x = None \/ x.pc \notin Reading
  PROVE  Unstale'
<1>1. \/ /\ node' = [node EXCEPT ![n] = [@ EXCEPT !.params = params]]
         /\ req' = Overtaking([req EXCEPT ![r] = x], r, n)
      \/ node' = node /\ req' = [req EXCEPT ![r] = None]
  BY DEF SaveParams, Ends
<1>2. CASE /\ node' = [node EXCEPT ![n] = [@ EXCEPT !.params = params]]
           /\ req' = Overtaking([req EXCEPT ![r] = x], r, n)
  <2> DEFINE row == [node[n] EXCEPT !.params = params]
  <2>1. node' = [node EXCEPT ![n] = row]
    BY <1>2
  <2> HIDE DEF row
  <2> QED
    BY <1>2, <2>1, UnstaleSaves
<1>3. CASE node' = node /\ req' = [req EXCEPT ![r] = None]
  BY <1>3, UnstaleGoes
<1> QED
  BY <1>1, <1>2, <1>3

\* Requests as they are, and rows that are as they were, new or deleted.
LEMMA UnstaleRows ==
  ASSUME TypeInv, Unstale, \A r \in Requests : req'[r] = req[r],
         \A n \in Nodes : node'[n] = node[n] \/ node[n] = None \/ ~Row(node'[n])
  PROVE  Unstale'
<1>1. ASSUME NEW r \in Requests, req[r] # None PROVE Current(req[r], node'[req[r].node])
  <2>1. req[r].node \in Nodes /\ node[req[r].node] # None /\ Current(req[r], node[req[r].node])
    BY <1>1, RequestOf DEF Unstale, Idle
  <2> QED
    BY <2>1, CurrentIdle
<1> QED
  BY <1>1 DEF Unstale

LEMMA RowsStay ==
  ASSUME TypeInv, ClusterStep \/ NodeStep \/ (\E v \in DOMAIN Overrides : PublishVersion(v)) \/ UNCHANGED vars
  PROVE  /\ req' = req
         /\ \A n \in Nodes : node'[n] = node[n] \/ node[n] = None \/ ~Row(node'[n])
<1>1. ASSUME UNCHANGED node PROVE \A n \in Nodes : node'[n] = node[n]
  BY <1>1
<1>2. ASSUME NEW S, ForgetNodes(S) PROVE \A n \in Nodes : node'[n] = node[n] \/ ~Row(node'[n])
  BY <1>2, Absent DEF ForgetNodes
<1>3. ASSUME NEW m \in Nodes, NEW x, node[m] = None, node' = [node EXCEPT ![m] = x]
      PROVE  \A n \in Nodes : node'[n] = node[n] \/ node[n] = None
  BY <1>3 DEF TypeInv, RowTypes
<1>4. CASE ClusterStep
  <2>1. req' = req /\ (UNCHANGED node \/ \E S : ForgetNodes(S))
    BY <1>4, Zenon DEF ClusterStep, ClusterCreate, ClusterEdit, ClusterDelete, SeedCluster
  <2> QED
    BY <1>1, <1>2, <2>1
<1>5. CASE NodeStep
  <2>1. /\ req' = req
        /\ \/ UNCHANGED node
           \/ \E S : ForgetNodes(S)
           \/ \E m \in Nodes : node[m] = None /\ \E x : node' = [node EXCEPT ![m] = x]
    BY <1>5, Zenon DEF NodeStep, NodeCreate, SeedCreates, NodeClone, NodeDelete, OpenPage, BakeNode, rows
  <2> QED
    BY <1>1, <1>2, <1>3, <2>1
<1>6. CASE (\E v \in DOMAIN Overrides : PublishVersion(v)) \/ UNCHANGED vars
  BY <1>6 DEF PublishVersion, vars, rows
<1> QED
  BY <1>4, <1>5, <1>6

\* A request begins with the row as it is.
LEMMA ArriveReads ==
  ASSUME TypeInv, Arrive
  PROVE  \E r \in Requests, n \in Nodes : \E q :
           /\ Idle(r) /\ Row(node[n]) /\ req' = [req EXCEPT ![r] = q] /\ q.node = n /\ q.snap = node[n]
           /\ q.got = 0 /\ (q.kind = "peer" => q.pc # "store")
<1> DEFINE Reads(r, n) == \E q : /\ Idle(r) /\ Row(node[n]) /\ req' = [req EXCEPT ![r] = q]
                                 /\ q.node = n /\ q.snap = node[n]
                                 /\ q.got = 0 /\ (q.kind = "peer" => q.pc # "store")
<1> PICK r \in Requests, n \in Nodes :
      \/ page[n] # None /\ \E post \in Posts(page[n]) : PostEdit(r, n, post)
      \/ \E w \in Networks : Join(r, n, w)
      \/ \E targets \in {{}} \cup {{w} : w \in Networks}, force \in BOOLEAN :
           GenerateNetworks(r, n, targets, force)
      \/ \E targets \in {{}} \cup {{i} : i \in Interfaces}, force \in BOOLEAN :
           GenerateKeys(r, n, targets, force)
      \/ \E i \in Interfaces, controller \in BOOLEAN : AddPeer(r, n, i, controller)
      \/ Backfill(r, n)
      \/ \E seed \in NodeSeeds : SeedFinds(r, n, seed)
  BY DEF Arrive
<1>1. ASSUME NEW q, Begin(r, n, q), q.node = n, q.snap = node[n], q.got = 0, q.kind = "peer" => q.pc # "store"
      PROVE Reads(r, n)
  BY <1>1 DEF Begin
<1>2. ASSUME NEW post, PostEdit(r, n, post) PROVE Reads(r, n)
  <2> DEFINE q == [Request("edit", "save", n, node[n]) EXCEPT !.post = post]
  <2>1. Idle(r) /\ Row(node[n]) /\ req' = [req EXCEPT ![r] = q]
    BY <1>2 DEF PostEdit
  <2>2. q.node = n /\ q.snap = node[n] /\ q.got = 0 /\ (q.kind = "peer" => q.pc # "store")
    BY DEF Request
  <2> HIDE DEF q
  <2> QED
    BY <2>1, <2>2
<1>3. ASSUME NEW w, Join(r, n, w) PROVE Reads(r, n)
  <2> DEFINE name == SaltIdOf(n)
             q == [Request("join", "save", n, node[n]) EXCEPT !.todo = {w}, !.name = name]
  <2>1. Begin(r, n, q)
    BY <1>3, Zenon DEF Join
  <2> HIDE DEF name
  <2>2. q.node = n /\ q.snap = node[n] /\ q.got = 0 /\ (q.kind = "peer" => q.pc # "store")
    BY DEF Request
  <2> HIDE DEF q
  <2> QED
    BY <1>1, <2>1, <2>2
<1>4. ASSUME NEW targets, NEW force, GenerateNetworks(r, n, targets, force) PROVE Reads(r, n)
  <2> DEFINE todo == IF targets # {} THEN targets ELSE DeclaredNetworks(cluster[node[n].cluster], node[n])
             replace == force \/ targets # {}
             q == [Request("networks", "store", n, node[n]) EXCEPT !.todo = todo, !.replace = replace]
  <2>1. Begin(r, n, q)
    BY <1>4, Zenon DEF GenerateNetworks
  <2> HIDE DEF todo, replace
  <2>2. q.node = n /\ q.snap = node[n] /\ q.got = 0 /\ (q.kind = "peer" => q.pc # "store")
    BY DEF Request
  <2> HIDE DEF q
  <2> QED
    BY <1>1, <2>1, <2>2
<1>5. ASSUME NEW targets, NEW force, GenerateKeys(r, n, targets, force) PROVE Reads(r, n)
  <2> DEFINE todo == IF targets # {} THEN targets ELSE InterfaceNames(cluster[node[n].cluster], node[n])
             replace == force \/ targets # {}
             q == [Request("keys", "store", n, node[n]) EXCEPT !.todo = todo, !.replace = replace]
  <2>1. Begin(r, n, q)
    BY <1>5, Zenon DEF GenerateKeys
  <2> HIDE DEF todo, replace
  <2>2. q.node = n /\ q.snap = node[n] /\ q.got = 0 /\ (q.kind = "peer" => q.pc # "store")
    BY DEF Request
  <2> HIDE DEF q
  <2> QED
    BY <1>1, <2>1, <2>2
<1>6. ASSUME NEW i, NEW controller, AddPeer(r, n, i, controller) PROVE Reads(r, n)
  <2> DEFINE pc == IF controller THEN "list" ELSE "save"
             q == [Request("peer", pc, n, node[n]) EXCEPT !.name = i, !.replace = controller]
  <2>1. Begin(r, n, q)
    BY <1>6, Zenon DEF AddPeer
  <2>3. pc # "store"
    OBVIOUS
  <2> HIDE DEF pc
  <2>2. q.node = n /\ q.snap = node[n] /\ q.got = 0 /\ (q.kind = "peer" => q.pc # "store")
    BY <2>3 DEF Request
  <2> HIDE DEF q
  <2> QED
    BY <1>1, <2>1, <2>2
<1>7. ASSUME Backfill(r, n) PROVE Reads(r, n)
  BY <1>1, <1>7 DEF Backfill, Request
<1>8. ASSUME NEW seed, SeedFinds(r, n, seed) PROVE Reads(r, n)
  <2> DEFINE post == [node[n] EXCEPT !.hostname = seed.hostname, !.params = seed.params]
             q == [Request("seed", "save", n, node[n]) EXCEPT !.post = post]
  <2>1. Begin(r, n, q)
    BY <1>8, Zenon DEF SeedFinds
  <2> HIDE DEF post
  <2>2. q.node = n /\ q.snap = node[n] /\ q.got = 0 /\ (q.kind = "peer" => q.pc # "store")
    BY DEF Request
  <2> HIDE DEF q
  <2> QED
    BY <1>1, <2>1, <2>2
<1>9. Reads(r, n)
  BY <1>2, <1>3, <1>4, <1>5, <1>6, <1>7, <1>8
<1> QED
  BY <1>9

\* Asking the controller for the client's key writes no row; a request that stores
\* an identity or a key, or registers a member, saves its row no more.
LEMMA UnstaleQuiet ==
  ASSUME TypeInv, NEW r \in Requests, Unstale,
         \/ \E w \in Networks : CheckNetwork(r, w)
         \/ \E i \in Interfaces : CheckKey(r, i)
         \/ PeerStore(r) \/ StoreKey(r) \/ ListClients(r) \/ CreateClient(r) \/ Finish(r)
  PROVE  Unstale'
<1> DEFINE Fine(x) == req' = [req EXCEPT ![r] = x] /\ (x = None \/ x.pc \notin Reading \/ Current(x, node[x.node]))
<1>1. /\ ~Idle(r) /\ node' = node
  BY QuietStep DEF rows
<1>2. IsRequest(req[r]) /\ Current(req[r], node[req[r].node])
  BY <1>1, RequestOf DEF Unstale
<1>3. ASSUME NEW x, req' = [req EXCEPT ![r] = x], x = None \/ x.pc \notin Reading PROVE \E y : Fine(y)
  BY <1>3
<1>5. ASSUME NEW net, CheckNetwork(r, net) PROVE \E y : Fine(y)
  <2> DEFINE a == Without(req[r], net)
             b == [req[r] EXCEPT !.pc = "mint", !.name = net]
             y == IF zt[req[r].node][net] # 0 /\ ~req[r].replace THEN a ELSE b
  <2>1. req' = [req EXCEPT ![r] = y] /\ req[r].pc = "store"
    BY <1>5, Zenon DEF CheckNetwork, At
  <2>2. a.pc = "store" /\ b.pc = "mint"
    BY <1>2, <2>1 DEF IsRequest, Without
  <2> HIDE DEF a, b
  <2>3. y.pc \notin Reading
    BY <2>2 DEF Reading
  <2> HIDE DEF y
  <2> QED
    BY <1>3, <2>1, <2>3
<1>6. ASSUME NEW i, CheckKey(r, i) PROVE \E y : Fine(y)
  <2> DEFINE a == Without(req[r], i)
             b == [req[r] EXCEPT !.pc = "mint", !.name = i]
             y == IF wg[req[r].node][i] # 0 /\ ~req[r].replace THEN a ELSE b
  <2>1. req' = [req EXCEPT ![r] = y] /\ req[r].pc = "store"
    BY <1>6, Zenon DEF CheckKey, At
  <2>2. a.pc = "store" /\ b.pc = "mint"
    BY <1>2, <2>1 DEF IsRequest, Without
  <2> HIDE DEF a, b
  <2>3. y.pc \notin Reading
    BY <2>2 DEF Reading
  <2> HIDE DEF y
  <2> QED
    BY <1>3, <2>1, <2>3
<1>7. ASSUME PeerStore(r) PROVE \E y : Fine(y)
  <2> DEFINE b == [req[r] EXCEPT !.pc = "mint"]
  <2>1. req' = [req EXCEPT ![r] = None] \/ req' = [req EXCEPT ![r] = b]
    BY <1>7, Zenon DEF PeerStore, Ends, Goto
  <2>2. b.pc = "mint"
    BY <1>2 DEF IsRequest
  <2> HIDE DEF b
  <2> QED
    BY <1>3, <2>1, <2>2 DEF Reading
<1>8. ASSUME StoreKey(r) PROVE \E y : Fine(y)
  <2> DEFINE b == [Without(req[r], req[r].name) EXCEPT !.pc = "store"]
  <2>1. req' = [req EXCEPT ![r] = None] \/ req' = [req EXCEPT ![r] = b]
    BY <1>8, Zenon DEF StoreKey, Ends
  <2>2. b.pc = "store"
    BY <1>2 DEF IsRequest, Without
  <2> HIDE DEF b
  <2> QED
    BY <1>3, <2>1, <2>2 DEF Reading
<1>9. ASSUME ListClients(r) PROVE \E y : Fine(y)
  <2> DEFINE k == ClientKey(MinionId(req[r].snap))
             a == [req[r] EXCEPT !.pc = "save", !.got = k]
             b == [req[r] EXCEPT !.pc = "create"]
  <2>1. \/ req' = [req EXCEPT ![r] = None]
        \/ req' = [req EXCEPT ![r] = a]
        \/ req' = [req EXCEPT ![r] = b]
    BY <1>9, Zenon DEF ListClients, Ends, Goto
  <2>2. req[r] # None /\ req[r].pc \in Reading
    BY <1>9 DEF ListClients, At, Reading, Idle
  <2> HIDE DEF k
  <2>3. /\ a.node = req[r].node /\ a.snap = req[r].snap /\ a.stale = req[r].stale
        /\ b.node = req[r].node /\ b.snap = req[r].snap /\ b.stale = req[r].stale
    BY <1>2 DEF IsRequest
  <2> HIDE DEF a, b
  <2>4. Current(a, node[a.node]) /\ Current(b, node[b.node])
    BY <1>2, <2>2, <2>3 DEF Current
  <2> QED
    BY <2>1, <2>4
<1>10. ASSUME CreateClient(r) PROVE \E y : Fine(y)
  <2> DEFINE b == [req[r] EXCEPT !.pc = "fetch"]
  <2>1. req' = [req EXCEPT ![r] = b]
    BY <1>10, Zenon DEF CreateClient, Goto
  <2>2. req[r] # None /\ req[r].pc \in Reading
    BY <1>10 DEF CreateClient, At, Reading, Idle
  <2>3. b.node = req[r].node /\ b.snap = req[r].snap /\ b.stale = req[r].stale
    BY <1>2 DEF IsRequest
  <2> HIDE DEF b
  <2>4. Current(b, node[b.node])
    BY <1>2, <2>2, <2>3 DEF Current
  <2> QED
    BY <2>1, <2>4
<1>11. ASSUME Finish(r) PROVE \E y : Fine(y)
  BY <1>3, <1>11, Zenon DEF Finish, Ends
<1>12. PICK y : Fine(y)
  BY <1>5, <1>6, <1>7, <1>8, <1>9, <1>10, <1>11
<1> QED
  BY <1>1, <1>12, UnstaleGoes, CurrentIdle

LEMMA UnstaleProceed ==
  ASSUME TypeInv, Unstale, Proceed
  PROVE  Unstale'
<1> PICK r \in Requests :
      \/ EditSave(r) \/ JoinSave(r) \/ JoinStore(r) \/ JoinRegister(r)
      \/ \E w \in Networks : CheckNetwork(r, w)
      \/ \E i \in Interfaces : CheckKey(r, i)
      \/ StoreNetwork(r) \/ StoreKey(r)
      \/ ListClients(r) \/ CreateClient(r) \/ PeerSave(r) \/ PeerStore(r)
      \/ BackfillSave(r) \/ Finish(r)
  BY DEF Proceed
<1>1. ASSUME EditSave(r) PROVE Unstale'
  <2>1. req[r].node \in Nodes
    BY <1>1, RequestOf DEF EditSave, At
  <2>2. \/ /\ node' = [node EXCEPT ![req[r].node] = req[r].post]
           /\ req' = Overtaking([req EXCEPT ![r] = None], r, req[r].node)
        \/ node' = node /\ req' = [req EXCEPT ![r] = None]
    BY <1>1 DEF EditSave, Ends
  <2> QED
    BY <2>1, <2>2, UnstaleSaves, UnstaleGoes
<1>2. ASSUME JoinSave(r) \/ PeerSave(r) PROVE Unstale'
  <2> DEFINE x == [req[r] EXCEPT !.pc = "store"]
  <2>1. ~Idle(r)
    BY <1>2 DEF JoinSave, PeerSave, At
  <2>2. IsRequest(req[r]) /\ req[r].node \in Nodes
    BY <2>1, RequestOf
  <2>3. \E params : SaveParams(r, req[r].node, params, [req EXCEPT ![r] = x])
    BY <1>2, Zenon DEF JoinSave, PeerSave, Goto
  <2>4. x.pc \notin Reading
    BY <2>2 DEF IsRequest, Reading
  <2> HIDE DEF x
  <2> QED
    BY <2>2, <2>3, <2>4, UnstaleSaveParams
<1>3. ASSUME BackfillSave(r) PROVE Unstale'
  <2>1. req[r].node \in Nodes
    BY <1>3, RequestOf DEF BackfillSave, At
  <2>2. \/ \E params : SaveParams(r, req[r].node, params, [req EXCEPT ![r] = None])
        \/ node' = node /\ req' = [req EXCEPT ![r] = None]
    BY <1>3, Zenon DEF BackfillSave, Ends, rows
  <2> QED
    BY <2>1, <2>2, UnstaleSaveParams, UnstaleGoes
<1>4. ASSUME JoinStore(r) PROVE Unstale'
  <2> DEFINE k == Fresh(minted)
             x == [req[r] EXCEPT !.pc = "register", !.got = k]
  <2>1. ~Idle(r) /\ node' = node
    BY <1>4 DEF JoinStore, At, rows
  <2>2. req' = [req EXCEPT ![r] = None] \/ req' = [req EXCEPT ![r] = x]
    BY <1>4, Zenon DEF JoinStore, Ends
  <2> HIDE DEF k
  <2>3. x.pc \notin Reading
    BY <2>1, RequestOf DEF IsRequest, Reading
  <2> HIDE DEF x
  <2> QED
    BY <2>1, <2>2, <2>3, UnstaleGoes, CurrentIdle
<1>5. ASSUME JoinRegister(r) PROVE Unstale'
  <2>1. node' = node /\ req' = [req EXCEPT ![r] = None]
    BY <1>5 DEF JoinRegister, Ends, rows
  <2> QED
    BY <2>1, UnstaleGoes
<1>6. ASSUME StoreNetwork(r) PROVE Unstale'
  <2> DEFINE x == [Without(req[r], req[r].name) EXCEPT !.pc = "store"]
  <2>1. ~Idle(r) /\ node' = node
    BY <1>6 DEF StoreNetwork, At, rows
  <2>2. req' = [req EXCEPT ![r] = None] \/ req' = [req EXCEPT ![r] = x]
    BY <1>6, Zenon DEF StoreNetwork, Ends
  <2>3. x.pc \notin Reading
    BY <2>1, RequestOf DEF IsRequest, Reading, Without
  <2> HIDE DEF x
  <2> QED
    BY <2>1, <2>2, <2>3, UnstaleGoes, CurrentIdle
<1> QED
  BY <1>1, <1>2, <1>3, <1>4, <1>5, <1>6, UnstaleQuiet

LEMMA UnstaleNext ==
  ASSUME TypeInv, Unstale, [Next]_vars
  PROVE  Unstale'
<1>1. CASE Arrive
  <2> PICK r \in Requests, n \in Nodes : \E q :
        /\ Idle(r) /\ Row(node[n]) /\ req' = [req EXCEPT ![r] = q] /\ q.node = n /\ q.snap = node[n]
    BY <1>1, ArriveReads
  <2>1. PICK q :
          /\ Idle(r) /\ Row(node[n]) /\ req' = [req EXCEPT ![r] = q] /\ q.node = n /\ q.snap = node[n]
    OBVIOUS
  <2>2. node' = node
    BY <1>1, ApartArrive DEF rows
  <2>3. Current(q, node[q.node])
    BY <2>1 DEF Current
  <2> QED
    BY <2>1, <2>2, <2>3, UnstaleGoes
<1>2. CASE Proceed
  BY <1>2, UnstaleProceed
<1>3. CASE ClusterStep \/ NodeStep \/ (\E v \in DOMAIN Overrides : PublishVersion(v)) \/ UNCHANGED vars
  BY <1>3, RowsStay, UnstaleRows
<1> QED
  BY <1>1, <1>2, <1>3 DEF Next

LEMMA ReadsCurrent == Spec => []Unstale
<1>1. Init => Unstale
  BY DEF Init, Unstale
<1>2. TypeInv /\ Unstale /\ [Next]_vars => Unstale'
  BY UnstaleNext
<1> QED
  BY <1>1, <1>2, Typed, PTL DEF Spec

-----------------------------------------------------------------------------
(* Networks and tunnels stay. *)

EntriesOf(p) ==
  {NetworkId(e) : e \in Section(p, "zerotier", "networks")}
    \cup {Get(e, "name") : e \in Section(p, "wireguard", "interfaces")}

LEMMA OwnEntriesOf ==
  \A n : OwnEntries(n) = EntriesOf(node[n].params) /\ OwnEntries(n)' = EntriesOf(node'[n].params)
BY DEF OwnEntries, EntriesOf, Section

\* What a step that takes an entry away must have been.
TakenBy(r, n) ==
  /\ ~Idle(r) /\ req'[r] # req[r] /\ req[r].node = n
  /\ req[r].kind \in {"edit", "seed"} \/ req[r].stale

\* A request that read the row as it is and writes parameters with no entry less.
LEMMA SavesEntries ==
  ASSUME TypeInv, Unstale, NEW r \in Requests, ~Idle(r), req[r].pc = "save", NEW params,
         EntriesOf(req[r].snap.params) \subseteq EntriesOf(params),
         NEW x, x # req[r], SaveParams(r, req[r].node, params, [req EXCEPT ![r] = x])
  PROVE  \A n \in Live : Row(node'[n]) /\ ~(OwnEntries(n) \subseteq OwnEntries(n)') => TakenBy(r, n)
<1> DEFINE m == req[r].node
           row == [node[m] EXCEPT !.params = params]
<1>1. m \in Nodes /\ req[r] # None /\ DOMAIN req = Requests /\ DOMAIN node = Nodes
  BY RequestOf DEF TypeInv, RequestTypes, RowTypes
<1>2. CASE Row(node[m])
  <2>1. node' = [node EXCEPT ![m] = row] /\ req' = Overtaking([req EXCEPT ![r] = x], r, m)
    BY <1>2 DEF SaveParams
  <2>2. req'[r] # req[r]
    BY <2>1, ApartOvertaking
  <2>3. IsNodeRow(node[m])
    BY <1>1, <1>2 DEF TypeInv, RowTypes
  <2>4. row.params = params
    BY <2>3 DEF IsNodeRow
  <2> HIDE DEF row
  <2>5. ASSUME ~req[r].stale PROVE EntriesOf(node[m].params) \subseteq EntriesOf(params)
    <3>1. node[m] = req[r].snap
      BY <1>1, <1>2, <2>5 DEF Unstale, Current, Reading
    <3> QED
      BY <3>1
  <2>6. ASSUME NEW n \in Live, ~(EntriesOf(node[n].params) \subseteq EntriesOf(node'[n].params))
        PROVE  n = m /\ req[r].stale
    <3>1. n \in Nodes
      BY DEF Live
    <3>2. n = m
      BY <1>1, <2>1, <2>6, <3>1
    <3> QED
      BY <1>1, <2>1, <2>4, <2>5, <2>6, <3>2
  <2> QED
    BY <2>2, <2>6, OwnEntriesOf DEF TakenBy
<1>3. CASE ~Row(node[m])
  BY <1>3, OwnEntriesOf DEF SaveParams
<1> QED
  BY <1>2, <1>3

LEMMA EntriesStay ==
  ASSUME TypeInv, Unstale, Proceed
  PROVE  \A n \in Live : Row(node'[n]) /\ ~(OwnEntries(n) \subseteq OwnEntries(n)') =>
           \E r \in Requests : TakenBy(r, n)
<1> PICK r \in Requests :
      \/ EditSave(r) \/ JoinSave(r) \/ JoinStore(r) \/ JoinRegister(r)
      \/ \E w \in Networks : CheckNetwork(r, w)
      \/ \E i \in Interfaces : CheckKey(r, i)
      \/ StoreNetwork(r) \/ StoreKey(r)
      \/ ListClients(r) \/ CreateClient(r) \/ PeerSave(r) \/ PeerStore(r)
      \/ BackfillSave(r) \/ Finish(r)
  BY DEF Proceed
<1>1. ASSUME node' = node PROVE \A n \in Live : OwnEntries(n) \subseteq OwnEntries(n)'
  BY <1>1, OwnEntriesOf
<1>2. ASSUME EditSave(r) PROVE \A n \in Live : ~(OwnEntries(n) \subseteq OwnEntries(n)') => TakenBy(r, n)
  <2>1. ~Idle(r) /\ req[r].kind \in {"edit", "seed"}
    BY <1>2 DEF EditSave, At
  <2>2. req[r] # None /\ req[r].node \in Nodes /\ DOMAIN node = Nodes
    BY <2>1, RequestOf DEF TypeInv, RowTypes
  <2>3. \/ /\ node' = [node EXCEPT ![req[r].node] = req[r].post]
           /\ req' = Overtaking([req EXCEPT ![r] = None], r, req[r].node)
        \/ node' = node
    BY <1>2 DEF EditSave, Ends
  <2>4. CASE /\ node' = [node EXCEPT ![req[r].node] = req[r].post]
             /\ req' = Overtaking([req EXCEPT ![r] = None], r, req[r].node)
    <3>1. req'[r] = None
      BY <2>4, ApartOvertaking
    <3>2. \A n \in Live : n # req[r].node => node'[n] = node[n]
      BY <2>2, <2>4 DEF Live
    <3> QED
      BY <2>1, <2>2, <3>1, <3>2, OwnEntriesOf DEF TakenBy
  <2> QED
    BY <1>1, <2>3, <2>4
<1>3. ASSUME JoinSave(r)
      PROVE  \A n \in Live : Row(node'[n]) /\ ~(OwnEntries(n) \subseteq OwnEntries(n)') => TakenBy(r, n)
  <2>1. PICK net \in req[r].todo :
          SaveParams(r, req[r].node, Joined(req[r].snap, net, req[r].name), Goto(r, "store"))
    BY <1>3 DEF JoinSave
  <2> DEFINE params == Joined(req[r].snap, net, req[r].name)
             x == [req[r] EXCEPT !.pc = "store"]
  <2>2. ~Idle(r) /\ req[r].kind = "join" /\ req[r].pc = "save"
    BY <1>3 DEF JoinSave, At
  <2>3. IsRequest(req[r])
    BY <2>2, RequestOf
  <2>4. net # Unset /\ Parameters(req[r].snap.params)
    BY <2>1, <2>2, <2>3, RegistryAssumption, RowFields DEF IsRequest
  <2>5. /\ Get(params, "wireguard") = Get(req[r].snap.params, "wireguard")
        /\ {NetworkId(e) : e \in Section(req[r].snap.params, "zerotier", "networks")} \subseteq
             {NetworkId(e) : e \in Section(params, "zerotier", "networks")}
    BY <2>4, JoinedLemma
  <2>6. x # req[r]
    BY <2>2, <2>3 DEF IsRequest
  <2>7. SaveParams(r, req[r].node, params, [req EXCEPT ![r] = x])
    BY <2>1, Zenon DEF Goto
  <2> HIDE DEF params, x
  <2>8. EntriesOf(req[r].snap.params) \subseteq EntriesOf(params)
    <3>1. Section(params, "wireguard", "interfaces") = Section(req[r].snap.params, "wireguard", "interfaces")
      BY <2>5 DEF Section
    <3> QED
      BY <2>5, <3>1 DEF EntriesOf
  <2> QED
    BY <2>2, <2>6, <2>7, <2>8, SavesEntries
<1>4. ASSUME PeerSave(r)
      PROVE  \A n \in Live : Row(node'[n]) /\ ~(OwnEntries(n) \subseteq OwnEntries(n)') => TakenBy(r, n)
  <2>1. SaveParams(r, req[r].node, Tunnelled(req[r].snap, req[r].name, req[r].got), Goto(r, "store"))
    BY <1>4 DEF PeerSave
  <2> DEFINE params == Tunnelled(req[r].snap, req[r].name, req[r].got)
             x == [req[r] EXCEPT !.pc = "store"]
  <2>2. ~Idle(r) /\ req[r].pc = "save"
    BY <1>4 DEF PeerSave, At
  <2>3. IsRequest(req[r])
    BY <2>2, RequestOf
  <2>4. RowParameters(req[r].snap.params) /\ req[r].name \in Interfaces
    BY <1>4, <2>3, RowFields DEF IsRequest, PeerSave, At
  <2>5. /\ Get(params, "zerotier") = Get(req[r].snap.params, "zerotier")
        /\ {Get(e, "name") : e \in Section(req[r].snap.params, "wireguard", "interfaces")} \subseteq
             {Get(e, "name") : e \in Section(params, "wireguard", "interfaces")}
    <3>1. \A k : k # "wireguard" => Get(params, k) = Get(req[r].snap.params, k)
      BY <2>4, TunnelledLemma, Zenon
    <3>2. {Get(e, "name") : e \in Section(req[r].snap.params, "wireguard", "interfaces")} \subseteq
            {Get(e, "name") : e \in Section(params, "wireguard", "interfaces")}
      BY <2>4, TunnelledLemma, Zenon
    <3> HIDE DEF params
    <3> QED
      BY <3>1, <3>2
  <2>6. x # req[r]
    BY <2>2, <2>3 DEF IsRequest
  <2>7. SaveParams(r, req[r].node, params, [req EXCEPT ![r] = x])
    BY <2>1, Zenon DEF Goto
  <2> HIDE DEF params, x
  <2>8. EntriesOf(req[r].snap.params) \subseteq EntriesOf(params)
    <3>1. Section(params, "zerotier", "networks") = Section(req[r].snap.params, "zerotier", "networks")
      BY <2>5 DEF Section
    <3> QED
      BY <2>5, <3>1 DEF EntriesOf
  <2> QED
    BY <2>2, <2>6, <2>7, <2>8, SavesEntries
<1>5. ASSUME BackfillSave(r)
      PROVE  \A n \in Live : Row(node'[n]) /\ ~(OwnEntries(n) \subseteq OwnEntries(n)') => TakenBy(r, n)
  <2> DEFINE params == Backfilled(req[r].snap)
  <2>1. ~Idle(r) /\ req[r].pc = "save"
    BY <1>5 DEF BackfillSave, At
  <2>2. req[r] # None /\ Parameters(req[r].snap.params)
    BY <2>1, RequestOf, RowFields DEF IsRequest
  <2>3. \A k \in {"zerotier", "wireguard"} : Get(params, k) = Get(req[r].snap.params, k)
    BY <2>2, BackfilledLemma
  <2>4. node' = node \/ SaveParams(r, req[r].node, params, [req EXCEPT ![r] = None])
    BY <1>5 DEF BackfillSave, Ends, rows
  <2> HIDE DEF params
  <2>5. EntriesOf(req[r].snap.params) \subseteq EntriesOf(params)
    BY <2>3 DEF EntriesOf, Section
  <2> QED
    BY <1>1, <2>1, <2>2, <2>4, <2>5, SavesEntries
<1>6. ASSUME JoinStore(r) \/ JoinRegister(r) \/ StoreNetwork(r) PROVE node' = node
  BY <1>6 DEF JoinStore, JoinRegister, StoreNetwork, rows
<1>7. ASSUME \/ \E w \in Networks : CheckNetwork(r, w)
             \/ \E i \in Interfaces : CheckKey(r, i)
             \/ PeerStore(r) \/ StoreKey(r) \/ ListClients(r) \/ CreateClient(r) \/ Finish(r)
      PROVE  node' = node
  BY <1>7, QuietStep DEF rows
<1> QED
  BY <1>1, <1>2, <1>3, <1>4, <1>5, <1>6, <1>7

LEMMA EntriesNext ==
  ASSUME TypeInv, Unstale, [Next]_vars
  PROVE  [\A n \in Live : Row(node'[n]) /\ ~(OwnEntries(n) \subseteq OwnEntries(n)') =>
            \E r \in Requests : /\ ~Idle(r) /\ req'[r] # req[r] /\ req[r].node = n
                                /\ (req[r].kind \in {"edit", "seed"} \/ req[r].stale)]_vars
<1>1. ASSUME NEW n \in Live, Row(node'[n]), ~(OwnEntries(n) \subseteq OwnEntries(n)')
      PROVE  \E r \in Requests : TakenBy(r, n)
  <2>1. CASE Proceed
    BY <1>1, <2>1, EntriesStay
  <2>2. CASE Arrive
    <3>1. node' = node
      BY <2>2, ApartArrive DEF rows
    <3> QED
      BY <1>1, <3>1, OwnEntriesOf
  <2>3. CASE ClusterStep \/ NodeStep \/ (\E v \in DOMAIN Overrides : PublishVersion(v)) \/ UNCHANGED vars
    <3>1. node'[n] = node[n]
      BY <1>1, <2>3, RowsStay, Absent DEF Live
    <3> QED
      BY <1>1, <3>1, OwnEntriesOf
  <2> QED
    BY <2>1, <2>2, <2>3 DEF Next
<1> QED
  BY <1>1 DEF TakenBy

\* A network or a tunnel leaves a node's parameters only by an edit of them, by the
\* seed of the test nodes, or by a request that read the row before another one's
\* write: a join, a new tunnel and the backfill keep what the row has when they read it last.
THEOREM EntriesRemain == Spec => EntriesKept
<1>1. TypeInv /\ Unstale /\ [Next]_vars =>
        [\A n \in Live : Row(node'[n]) /\ ~(OwnEntries(n) \subseteq OwnEntries(n)') =>
           \E r \in Requests : /\ ~Idle(r) /\ req'[r] # req[r] /\ req[r].node = n
                               /\ (req[r].kind \in {"edit", "seed"} \/ req[r].stale)]_vars
  BY EntriesNext
<1> QED
  BY <1>1, Typed, ReadsCurrent, PTL DEF Spec, EntriesKept

-----------------------------------------------------------------------------
(* The key of a tunnel. *)

\* Of one that is about to store the controller's key: the tunnel is in the row, which
\* has the name of the client.
Attached(q, row) ==
  (q # None /\ q.kind = "peer" /\ q.pc = "store" /\ ~q.stale /\ Row(row)) =>
    /\ MinionId(row) = MinionId(q.snap)
    /\ \E e \in ToSet(Tunnels(row.params)) : IsDict(e) /\ Get(e, "name") = Scalar(q.name)
\* The key a request got is that of a client of the name it asked for.
ClientOf(q, ks) == (q # None /\ q.kind = "peer" /\ q.got # 0) => ks[q.got] = MinionId(q.snap)

Attaches == \A r \in Requests : Attached(req[r], node[req[r].node]) /\ ClientOf(req[r], keys)
KeysStay == \A k \in 1 .. Len(keys) : keys'[k] = keys[k]

LEMMA KeysGrow ==
  ASSUME TypeInv, keys' = keys \/ \E name : NewKey(name) /\ name \in Hostnames \cup Slugs \cup {Unset, Local}
  PROVE  KeysStay
<1>1. CASE keys' = keys
  BY <1>1 DEF KeysStay
<1>2. ASSUME NEW name \in Hostnames \cup Slugs \cup {Unset, Local}, NewKey(name) PROVE KeysStay
  <2>1. keys' = Append(keys, name) /\ keys \in Seq(Hostnames \cup Slugs \cup {Unset, Local})
    BY <1>2 DEF NewKey, TypeInv, IdentityTypes
  <2> QED
    BY <2>1 DEF KeysStay
<1> QED
  BY <1>1, <1>2

\* A request that is gone, of another kind, or not there yet and without a key.
LEMMA AttachedIdle ==
  ASSUME NEW q, NEW row, NEW ks, q = None \/ q.kind # "peer" \/ (q.pc # "store" /\ q.got = 0)
  PROVE  Attached(q, row) /\ ClientOf(q, ks)
BY DEF Attached, ClientOf

\* A request that does not go on, beside one that does.
LEMMA AttachedApart ==
  ASSUME TypeInv, Attaches, KeysStay, NEW o \in Requests, Apart(o), NEW row,
         \/ row = node[req[o].node] \/ req'[o] = Marked(req[o]) \/ ~Row(row)
  PROVE  Attached(req'[o], row) /\ ClientOf(req'[o], keys')
<1>1. CASE Idle(o)
  <2>1. req'[o] = None
    BY <1>1 DEF Apart, Idle
  <2> QED
    BY <2>1, AttachedIdle
<1>2. CASE ~Idle(o)
  <2>1. /\ req'[o] # None /\ req'[o].kind = req[o].kind /\ req'[o].snap = req[o].snap /\ req'[o].got = req[o].got
        /\ ~req'[o].stale => req'[o] = req[o]
    BY <1>2, MarkedLemma
  <2>2. req[o] # None /\ IsRequest(req[o]) /\ Holds(req[o], minted, keys)
    BY <1>2, RequestOf
  <2>3. Marked(req[o]).stale
    BY <2>2 DEF Marked, IsRequest
  <2>4. Attached(req[o], node[req[o].node]) /\ ClientOf(req[o], keys)
    BY DEF Attaches
  <2>5. Attached(req'[o], row)
    BY <2>1, <2>3, <2>4 DEF Attached
  <2>6. req[o].kind = "peer" /\ req[o].got # 0 => req[o].got \in 1 .. Len(keys)
    <3>1. Len(keys) \in Nat
      BY DEF TypeInv, IdentityTypes
    <3> QED
      BY <2>2, <3>1 DEF Holds
  <2>7. ClientOf(req'[o], keys')
    BY <2>1, <2>2, <2>4, <2>6 DEF ClientOf, KeysStay
  <2> QED
    BY <2>5, <2>7
<1> QED
  BY <1>1, <1>2

\* One request goes on, and no row changes.
LEMMA AttachedGoes ==
  ASSUME TypeInv, Attaches, KeysStay, NEW r \in Requests, NEW x, req' = [req EXCEPT ![r] = x], node' = node,
         Attached(x, node[x.node]) /\ ClientOf(x, keys')
  PROVE  Attaches'
<1>1. \A o \in Requests \ {r} : Apart(o) /\ req'[o] = req[o]
  BY ApartPlain DEF TypeInv, RequestTypes
<1>2. req'[r] = x
  BY DEF TypeInv, RequestTypes
<1>3. ASSUME NEW o \in Requests PROVE Attached(req'[o], node'[req'[o].node]) /\ ClientOf(req'[o], keys')
  <2>1. CASE o = r
    BY <1>2, <2>1
  <2>2. CASE o # r
    BY <1>1, <2>2, AttachedApart
  <2> QED
    BY <2>1, <2>2
<1> QED
  BY <1>3 DEF Attaches

\* A request saves a row: those that read it too are stale.
LEMMA AttachedSaves ==
  ASSUME TypeInv, Attaches, KeysStay, NEW r \in Requests, NEW n \in Nodes, NEW row, NEW x,
         node' = [node EXCEPT ![n] = row], req' = Overtaking([req EXCEPT ![r] = x], r, n),
         Attached(x, node'[x.node]) /\ ClientOf(x, keys')
  PROVE  Attaches'
<1>1. /\ \A o \in Requests \ {r} : Apart(o)
      /\ \A o \in Requests \ {r} : ~Idle(o) /\ req[o].node = n => req'[o] = Marked(req[o])
      /\ req'[r] = x
  BY ApartOvertaking
<1>2. ASSUME NEW o \in Requests PROVE Attached(req'[o], node'[req'[o].node]) /\ ClientOf(req'[o], keys')
  <2>1. CASE o = r
    BY <1>1, <2>1
  <2>2. CASE o # r /\ Idle(o)
    <3>1. req'[o] = None
      BY <1>1, <2>2 DEF Apart, Idle
    <3> QED
      BY <3>1, AttachedIdle
  <2>3. CASE o # r /\ ~Idle(o)
    <3>1. Apart(o) /\ req'[o].node = req[o].node /\ req[o].node \in Nodes
      BY <1>1, <2>3, MarkedLemma, RequestOf
    <3>2. node'[req'[o].node] = node[req[o].node] \/ req'[o] = Marked(req[o])
      BY <1>1, <2>3, <3>1 DEF TypeInv, RowTypes
    <3> QED
      BY <3>1, <3>2, AttachedApart
  <2> QED
    BY <2>1, <2>2, <2>3
<1> QED
  BY <1>2 DEF Attaches

\* Where what is saved is a request that is not about to store a controller's key.
LEMMA AttachedSaveParams ==
  ASSUME TypeInv, Attaches, KeysStay, NEW r \in Requests, NEW n \in Nodes, NEW params, NEW x,
         SaveParams(r, n, params, [req EXCEPT ![r] = x]), x = None \/ x.kind # "peer"
  PROVE  Attaches'
<1>1. \/ /\ node' = [node EXCEPT ![n] = [@ EXCEPT !.params = params]]
         /\ req' = Overtaking([req EXCEPT ![r] = x], r, n)
      \/ node' = node /\ req' = [req EXCEPT ![r] = None]
  BY DEF SaveParams, Ends
<1>2. CASE /\ node' = [node EXCEPT ![n] = [@ EXCEPT !.params = params]]
           /\ req' = Overtaking([req EXCEPT ![r] = x], r, n)
  <2> DEFINE row == [node[n] EXCEPT !.params = params]
  <2>1. node' = [node EXCEPT ![n] = row]
    BY <1>2
  <2>2. Attached(x, node'[x.node]) /\ ClientOf(x, keys')
    BY AttachedIdle
  <2> HIDE DEF row
  <2> QED
    BY <1>2, <2>1, <2>2, AttachedSaves
<1>3. CASE node' = node /\ req' = [req EXCEPT ![r] = None]
  BY <1>3, AttachedGoes, AttachedIdle
<1> QED
  BY <1>1, <1>2, <1>3

\* The tunnel that is saved is in the row, which is the one the request read.
LEMMA AttachedPeerSave ==
  ASSUME TypeInv, Unstale, Attaches, NEW r \in Requests, PeerSave(r)
  PROVE  Attaches'
<1> DEFINE n == req[r].node
           params == Tunnelled(req[r].snap, req[r].name, req[r].got)
           row == [node[n] EXCEPT !.params = params]
           x == [req[r] EXCEPT !.pc = "store"]
<1>1. At(r, "peer", "save") /\ keys' = keys
  BY DEF PeerSave, external
<1>2. ~Idle(r) /\ req[r].kind = "peer" /\ req[r].pc = "save"
  BY <1>1, AtLemma
<1>3. IsRequest(req[r]) /\ n \in Nodes /\ req[r] # None
  BY <1>2, RequestOf
<1>4. RowParameters(req[r].snap.params) /\ req[r].name \in Interfaces
  BY <1>2, <1>3, RowFields DEF IsRequest
<1>5. \E e \in ToSet(Tunnels(params)) : IsDict(e) /\ Get(e, "name") = Scalar(req[r].name)
  BY <1>4, TunnelledLemma, Zenon
<1>6. /\ x.snap = req[r].snap /\ x.stale = req[r].stale /\ x.name = req[r].name /\ x.got = req[r].got
      /\ x.kind = req[r].kind /\ x.node = n
  BY <1>3, GotoLemma DEF Pcs
<1>7. \/ /\ Row(node[n]) /\ node' = [node EXCEPT ![n] = row]
         /\ req' = Overtaking([req EXCEPT ![r] = x], r, n)
      \/ node' = node /\ req' = [req EXCEPT ![r] = None]
  BY Zenon DEF PeerSave, SaveParams, Ends, Goto
<1>8. KeysStay
  BY <1>1, KeysGrow
<1> HIDE DEF params, x
<1>9. CASE node' = node /\ req' = [req EXCEPT ![r] = None]
  BY <1>8, <1>9, AttachedGoes, AttachedIdle
<1>10. CASE Row(node[n]) /\ node' = [node EXCEPT ![n] = row] /\ req' = Overtaking([req EXCEPT ![r] = x], r, n)
  <2>1. ~req[r].stale => node[n] = req[r].snap
    BY <1>2, <1>3, <1>10 DEF Unstale, Current, Reading
  <2>2. IsNodeRow(node[n])
    BY <1>3, <1>10 DEF TypeInv, RowTypes
  <2>3. row.slug = node[n].slug /\ row.hostname = node[n].hostname /\ row.params = params
    BY <2>2 DEF IsNodeRow
  <2>4. node'[x.node] = row
    BY <1>3, <1>6, <1>10 DEF TypeInv, RowTypes
  <2>5. Attached(x, row)
    BY <1>5, <1>6, <2>1, <2>3 DEF Attached, MinionId
  <2>6. ClientOf(x, keys')
    BY <1>1, <1>3, <1>6 DEF Attaches, ClientOf
  <2> HIDE DEF row
  <2> QED
    BY <1>3, <1>8, <1>10, <2>4, <2>5, <2>6, AttachedSaves
<1> QED
  BY <1>7, <1>9, <1>10

\* Asking the controller: what it finds has the name it was asked for.
LEMMA AttachedListClients ==
  ASSUME TypeInv, Attaches, NEW r \in Requests, ListClients(r)
  PROVE  Attaches'
<1> DEFINE name == MinionId(req[r].snap)
           I == {j \in 1 .. Len(keys) : keys[j] = name}
           k == IF I # {} THEN Max(I) ELSE 0
           a == [req[r] EXCEPT !.pc = "save", !.got = k]
           b == [req[r] EXCEPT !.pc = "create"]
<1>1. At(r, "peer", "list") \/ At(r, "peer", "fetch")
  BY DEF ListClients
<1>2. req[r] # None /\ IsRequest(req[r])
  BY <1>1, AtLemma, RequestOf
<1>3. ClientKey(name) = k
  BY Zenon DEF ClientKey, SelectLastInSeq
<1>4. /\ node' = node /\ keys' = keys
      /\ \/ req' = [req EXCEPT ![r] = a]
         \/ req' = [req EXCEPT ![r] = b]
         \/ req' = [req EXCEPT ![r] = None]
  BY <1>3, Zenon DEF ListClients, Goto, Ends, rows, external
<1>5. k # 0 => keys[k] = name
  <2>1. Len(keys) \in Nat /\ I \in SUBSET (1 .. Len(keys))
    BY DEF TypeInv, IdentityTypes
  <2>2. \A j \in I : keys[j] = name
    OBVIOUS
  <2> HIDE DEF I
  <2>3. k \in I \cup {0}
    BY <2>1, IndexLemma
  <2> HIDE DEF k
  <2> QED
    BY <2>2, <2>3
<1> HIDE DEF k
<1>6. a.pc = "save" /\ a.got = k /\ a.snap = req[r].snap
  BY <1>2 DEF IsRequest
<1>7. b.pc = "create" /\ b.got = req[r].got /\ b.snap = req[r].snap /\ b.kind = req[r].kind
  BY <1>2 DEF IsRequest
<1> HIDE DEF a, b
<1>8. Attached(a, node[a.node]) /\ ClientOf(a, keys')
  BY <1>4, <1>5, <1>6 DEF Attached, ClientOf
<1>9. Attached(b, node[b.node]) /\ ClientOf(b, keys')
  BY <1>2, <1>4, <1>7 DEF Attached, ClientOf, Attaches
<1>10. KeysStay
  BY <1>4, KeysGrow
<1> QED
  BY <1>4, <1>8, <1>9, <1>10, AttachedGoes, AttachedIdle

LEMMA AttachedCreateClient ==
  ASSUME TypeInv, Attaches, NEW r \in Requests, CreateClient(r)
  PROVE  Attaches'
<1> DEFINE x == [req[r] EXCEPT !.pc = "fetch"]
<1>1. /\ At(r, "peer", "create") /\ NewKey(MinionId(req[r].snap)) /\ node' = node
      /\ req' = [req EXCEPT ![r] = x]
  BY Zenon DEF CreateClient, Goto, rows
<1>2. req[r] # None /\ IsRequest(req[r]) /\ Holds(req[r], minted, keys) /\ req[r].kind = "peer"
  BY <1>1, AtLemma, RequestOf
<1>3. MinionId(req[r].snap) \in Hostnames \cup Slugs \cup {Unset, Local}
  BY <1>2, RowFields DEF IsRequest
<1>4. KeysStay
  BY <1>1, <1>3, KeysGrow
<1>5. x.pc = "fetch" /\ x.got = req[r].got /\ x.snap = req[r].snap /\ x.kind = req[r].kind
  BY <1>2 DEF IsRequest
<1> HIDE DEF x
<1>6. req[r].got # 0 => req[r].got \in 1 .. Len(keys)
  <2>1. Len(keys) \in Nat
    BY DEF TypeInv, IdentityTypes
  <2> QED
    BY <1>2, <2>1 DEF Holds
<1>7. Attached(x, node[x.node]) /\ ClientOf(x, keys')
  BY <1>2, <1>4, <1>5, <1>6 DEF Attached, ClientOf, Attaches, KeysStay
<1> QED
  BY <1>1, <1>4, <1>7, AttachedGoes

\* The steps of the other requests, and the last one of a tunnel.
LEMMA AttachedOthers ==
  ASSUME TypeInv, Attaches, NEW r \in Requests,
         \/ JoinStore(r) \/ JoinRegister(r) \/ StoreNetwork(r) \/ StoreKey(r) \/ PeerStore(r) \/ Finish(r)
         \/ \E w \in Networks : CheckNetwork(r, w)
         \/ \E i \in Interfaces : CheckKey(r, i)
  PROVE  Attaches'
<1> DEFINE Quiet(x) ==
             req' = [req EXCEPT ![r] = x] /\ (x = None \/ x.kind # "peer" \/ (x.pc # "store" /\ x.got = 0))
<1>1. ASSUME JoinStore(r) PROVE \E x : Quiet(x)
  <2> DEFINE k == Fresh(minted)
             x == [req[r] EXCEPT !.pc = "register", !.got = k]
  <2>1. At(r, "join", "store") /\ (req' = [req EXCEPT ![r] = None] \/ req' = [req EXCEPT ![r] = x])
    BY <1>1, Zenon DEF JoinStore, Ends
  <2>2. req[r].kind = "join" /\ IsRequest(req[r])
    BY <2>1, AtLemma, RequestOf
  <2> HIDE DEF k
  <2>3. x.kind = "join"
    BY <2>2 DEF IsRequest
  <2> HIDE DEF x
  <2> QED
    BY <2>1, <2>3
<1>2. ASSUME JoinRegister(r) PROVE \E x : Quiet(x)
  BY <1>2, Zenon DEF JoinRegister, Ends
<1>3. ASSUME StoreNetwork(r) PROVE \E x : Quiet(x)
  <2> DEFINE x == [Without(req[r], req[r].name) EXCEPT !.pc = "store"]
  <2>1. At(r, "networks", "mint") /\ (req' = [req EXCEPT ![r] = None] \/ req' = [req EXCEPT ![r] = x])
    BY <1>3, Zenon DEF StoreNetwork, Ends
  <2>2. req[r].kind = "networks" /\ IsRequest(req[r])
    BY <2>1, AtLemma, RequestOf
  <2>3. x.kind = "networks"
    BY <2>2 DEF IsRequest, Without
  <2> HIDE DEF x
  <2> QED
    BY <2>1, <2>3
<1>4. ASSUME StoreKey(r) PROVE \E x : Quiet(x)
  <2> DEFINE next == [Without(req[r], req[r].name) EXCEPT !.pc = "store"]
             x == IF req[r].kind = "peer" THEN None ELSE next
  <2>1. /\ At(r, "keys", "mint") \/ At(r, "peer", "mint")
        /\ req' = [req EXCEPT ![r] = None] \/ req' = [req EXCEPT ![r] = x]
    BY <1>4 DEF StoreKey, Ends
  <2>2. IsRequest(req[r])
    BY <2>1, AtLemma, RequestOf
  <2>3. next.kind = req[r].kind
    BY <2>2 DEF IsRequest, Without
  <2> HIDE DEF next
  <2>4. x = None \/ x.kind # "peer"
    BY <2>3
  <2> HIDE DEF x
  <2> QED
    BY <2>1, <2>4
<1>5. ASSUME PeerStore(r) PROVE \E x : Quiet(x)
  <2> DEFINE x == [req[r] EXCEPT !.pc = "mint"]
  <2>1. /\ At(r, "peer", "store")
        /\ req' = [req EXCEPT ![r] = None] \/ (req[r].got = 0 /\ req' = [req EXCEPT ![r] = x])
    BY <1>5, Zenon DEF PeerStore, Ends, Goto
  <2>2. IsRequest(req[r])
    BY <2>1, AtLemma, RequestOf
  <2>3. x.pc = "mint" /\ x.got = req[r].got
    BY <2>2 DEF IsRequest
  <2> HIDE DEF x
  <2> QED
    BY <2>1, <2>3
<1>6. ASSUME Finish(r) PROVE \E x : Quiet(x)
  BY <1>6, Zenon DEF Finish, Ends
<1>7. ASSUME NEW w, CheckNetwork(r, w) PROVE \E x : Quiet(x)
  <2> DEFINE a == Without(req[r], w)
             b == [req[r] EXCEPT !.pc = "mint", !.name = w]
             x == IF zt[req[r].node][w] # 0 /\ ~req[r].replace THEN a ELSE b
  <2>1. At(r, "networks", "store") /\ req' = [req EXCEPT ![r] = x]
    BY <1>7, Zenon DEF CheckNetwork
  <2>2. req[r].kind = "networks" /\ IsRequest(req[r])
    BY <2>1, AtLemma, RequestOf
  <2>3. a.kind = "networks" /\ b.kind = "networks"
    BY <2>2 DEF IsRequest, Without
  <2> HIDE DEF a, b
  <2>4. x.kind = "networks"
    BY <2>3
  <2> HIDE DEF x
  <2> QED
    BY <2>1, <2>4
<1>8. ASSUME NEW i, CheckKey(r, i) PROVE \E x : Quiet(x)
  <2> DEFINE a == Without(req[r], i)
             b == [req[r] EXCEPT !.pc = "mint", !.name = i]
             x == IF wg[req[r].node][i] # 0 /\ ~req[r].replace THEN a ELSE b
  <2>1. At(r, "keys", "store") /\ req' = [req EXCEPT ![r] = x]
    BY <1>8, Zenon DEF CheckKey
  <2>2. req[r].kind = "keys" /\ IsRequest(req[r])
    BY <2>1, AtLemma, RequestOf
  <2>3. a.kind = "keys" /\ b.kind = "keys"
    BY <2>2 DEF IsRequest, Without
  <2> HIDE DEF a, b
  <2>4. x.kind = "keys"
    BY <2>3
  <2> HIDE DEF x
  <2> QED
    BY <2>1, <2>4
<1>9. PICK x : Quiet(x)
  BY <1>1, <1>2, <1>3, <1>4, <1>5, <1>6, <1>7, <1>8
<1>10. node' = node /\ (keys' = keys \/ NewKey(Local))
  BY Zenon DEF JoinStore, JoinRegister, StoreNetwork, StoreKey, PeerStore, Finish, CheckNetwork, CheckKey, rows, external
<1> QED
  BY <1>9, <1>10, KeysGrow, AttachedGoes, AttachedIdle

LEMMA AttachedNext ==
  ASSUME TypeInv, Unstale, Attaches, [Next]_vars
  PROVE  Attaches'
<1>1. CASE ClusterStep \/ NodeStep \/ (\E v \in DOMAIN Overrides : PublishVersion(v)) \/ UNCHANGED vars
  <2>1. keys' = keys
    BY <1>1, Zenon DEF ClusterStep, ClusterCreate, ClusterEdit, ClusterDelete, SeedCluster, NodeStep, NodeCreate,
       SeedCreates, NodeClone, NodeDelete, OpenPage, BakeNode, PublishVersion, vars, external
  <2>2. KeysStay
    BY <2>1, KeysGrow
  <2>3. req' = req /\ \A n \in Nodes : node'[n] = node[n] \/ node[n] = None \/ ~Row(node'[n])
    BY <1>1, RowsStay
  <2>4. ASSUME NEW o \in Requests PROVE Attached(req'[o], node'[req'[o].node]) /\ ClientOf(req'[o], keys')
    <3>1. Apart(o)
      BY <2>3 DEF Apart
    <3>2. CASE Idle(o)
      BY <2>3, <3>2, AttachedIdle DEF Idle
    <3>3. CASE ~Idle(o)
      BY <2>2, <2>3, <3>1, <3>3, RequestOf, AttachedApart
    <3> QED
      BY <3>2, <3>3
  <2> QED
    BY <2>4 DEF Attaches
<1>2. CASE Arrive
  <2> PICK r \in Requests, n \in Nodes : \E q :
        req' = [req EXCEPT ![r] = q] /\ q.got = 0 /\ (q.kind = "peer" => q.pc # "store")
    BY <1>2, ArriveReads
  <2>1. PICK q : req' = [req EXCEPT ![r] = q] /\ q.got = 0 /\ (q.kind = "peer" => q.pc # "store")
    OBVIOUS
  <2>2. node' = node /\ keys' = keys
    BY <1>2, ApartArrive DEF rows, external
  <2> QED
    BY <2>1, <2>2, KeysGrow, AttachedGoes, AttachedIdle
<1>3. CASE Proceed
  <2> PICK r \in Requests :
        \/ EditSave(r) \/ JoinSave(r) \/ JoinStore(r) \/ JoinRegister(r)
        \/ \E w \in Networks : CheckNetwork(r, w)
        \/ \E i \in Interfaces : CheckKey(r, i)
        \/ StoreNetwork(r) \/ StoreKey(r)
        \/ ListClients(r) \/ CreateClient(r) \/ PeerSave(r) \/ PeerStore(r)
        \/ BackfillSave(r) \/ Finish(r)
    BY <1>3 DEF Proceed
  <2>1. ASSUME EditSave(r) PROVE Attaches'
    <3>1. req[r].node \in Nodes /\ keys' = keys
      BY <2>1, RequestOf DEF EditSave, At, external
    <3>2. \/ /\ node' = [node EXCEPT ![req[r].node] = req[r].post]
             /\ req' = Overtaking([req EXCEPT ![r] = None], r, req[r].node)
          \/ node' = node /\ req' = [req EXCEPT ![r] = None]
      BY <2>1 DEF EditSave, Ends
    <3> QED
      BY <3>1, <3>2, KeysGrow, AttachedSaves, AttachedGoes, AttachedIdle
  <2>2. ASSUME JoinSave(r) PROVE Attaches'
    <3> DEFINE x == [req[r] EXCEPT !.pc = "store"]
    <3>1. At(r, "join", "save") /\ keys' = keys
      BY <2>2 DEF JoinSave, external
    <3>2. IsRequest(req[r]) /\ req[r].node \in Nodes /\ req[r].kind = "join"
      BY <3>1, AtLemma, RequestOf
    <3>3. \E params : SaveParams(r, req[r].node, params, [req EXCEPT ![r] = x])
      BY <2>2, Zenon DEF JoinSave, Goto
    <3>4. x.kind = "join"
      BY <3>2 DEF IsRequest
    <3> HIDE DEF x
    <3> QED
      BY <3>1, <3>2, <3>3, <3>4, KeysGrow, AttachedSaveParams
  <2>3. ASSUME BackfillSave(r) PROVE Attaches'
    <3>1. req[r].node \in Nodes /\ keys' = keys
      BY <2>3, RequestOf DEF BackfillSave, At, external
    <3>2. \/ \E params : SaveParams(r, req[r].node, params, [req EXCEPT ![r] = None])
          \/ node' = node /\ req' = [req EXCEPT ![r] = None]
      BY <2>3, Zenon DEF BackfillSave, Ends, rows
    <3> QED
      BY <3>1, <3>2, KeysGrow, AttachedSaveParams, AttachedGoes, AttachedIdle
  <2> QED
    BY <2>1, <2>2, <2>3, AttachedPeerSave, AttachedListClients, AttachedCreateClient, AttachedOthers
<1> QED
  BY <1>1, <1>2, <1>3 DEF Next

LEMMA KeysAttached == Spec => []Attaches
<1>1. Init => Attaches
  BY AttachedIdle DEF Init, Attaches
<1>2. TypeInv /\ Unstale /\ Attaches /\ [Next]_vars => Attaches'
  BY AttachedNext
<1> QED
  BY <1>1, <1>2, Typed, ReadsCurrent, PTL DEF Spec

-----------------------------------------------------------------------------
(* What the bake, the pillar endpoint and the node page give in any state. *)

\* What the types say of a node, its cluster and the preset.
LEMMA LayersOf ==
  ASSUME TypeInv, NEW n \in Live
  PROVE  /\ n \in Nodes /\ node[n].cluster \in Clusters /\ node[n].slug # Unset
         /\ Row(cluster[node[n].cluster])
         /\ Parameters(Overrides[version]) /\ Parameters(cluster[node[n].cluster].params)
         /\ Parameters(node[n].params)
<1>1. n \in Nodes /\ IsNodeRow(node[n]) /\ Row(cluster[node[n].cluster]) /\ version \in DOMAIN Overrides
  BY DEF Live, TypeInv, RowTypes
<1>2. node[n].cluster \in Clusters /\ node[n].slug # Unset /\ Parameters(node[n].params)
  BY <1>1, RowFields
<1>3. IsClusterRow(cluster[node[n].cluster])
  BY <1>1, <1>2 DEF TypeInv, RowTypes
<1>4. Parameters(cluster[node[n].cluster].params)
  BY <1>3 DEF IsClusterRow, RowParameters
<1>5. Parameters(Overrides[version])
  BY <1>1, RegistryAssumption
<1> QED
  BY <1>1, <1>2, <1>4, <1>5

LayeredOf(n) == Layered(Overrides[version], node[n].target, cluster[node[n].cluster], node[n])

LEMMA ModelLemma ==
  ASSUME TypeInv, NEW n \in Live
  PROVE  LET old == PinnedIn(LayeredOf(n)) IN
         /\ Parameters(ModelOf(n))
         /\ PinnedIn(ModelOf(n)) = IF old = Blank THEN Scalar(node[n].slug) ELSE old
         /\ Section(ModelOf(n), "zerotier", "networks") =
              {IF IsDict(e) THEN SpliceNetwork(e, zt[n]) ELSE e : e \in Section(LayeredOf(n), "zerotier", "networks")}
BY LayersOf, NodeModelLemma DEF ModelOf, LayeredOf, PinnedIn

\* The address the node page suggests is in the pool, not reserved and held by no
\* node, and is a host's unless the last host is taken, whatever nodes there are.
THEOREM SuggestionFree == Spec => []SuggestedIsFree
<1>1. SuggestedIsFree
  BY RegistryAssumption, SuggestionLemma DEF SuggestedIsFree
<1> QED
  BY <1>1, PTL

\* The parameters of a node reach its joined parameters over its cluster's, and
\* the items of a cluster's list reach each of its nodes.
THEOREM ParametersJoin == Spec => []LayersJoin
<1>1. ASSUME TypeInv PROVE LayersJoin
  <2>1. SUFFICES ASSUME NEW n \in Live
                 PROVE  LET c == cluster[node[n].cluster].params
                            joined == Declared(cluster[node[n].cluster], node[n])
                        IN /\ ExtendedBy(node[n].params, joined)
                           /\ \A k \in Keys(c) : \A l \in Keys(c.dict[k]) :
                                LET own == Get(node[n].params, k) IN
                                (k \notin Keys(node[n].params) \/ (IsDict(own) /\ (l \notin Keys(own) \/ IsList(Get(own, l))))) =>
                                  ToSet(Items(c.dict[k].dict[l])) \subseteq ToSet(Items(Get(Get(joined, k), l)))
    BY Zenon DEF LayersJoin
  <2> DEFINE c == cluster[node[n].cluster].params
             p == node[n].params
             joined == Declared(cluster[node[n].cluster], node[n])
  <2>2. Parameters(c) /\ Parameters(p) /\ joined = DeepMerge(c, p)
    BY <1>1, LayersOf DEF Declared
  <2> HIDE DEF c, p, joined
  <2>3. ExtendedBy(p, joined)
    BY <2>2, MergeKeeps
  <2>4. ASSUME NEW k \in Keys(c), NEW l \in Keys(c.dict[k]),
               k \notin Keys(p) \/ (IsDict(Get(p, k)) /\ (l \notin Keys(Get(p, k)) \/ IsList(Get(Get(p, k), l))))
        PROVE  ToSet(Items(c.dict[k].dict[l])) \subseteq ToSet(Items(Get(Get(joined, k), l)))
    <3>1. Joins(p, k, l)
      BY <2>4 DEF Joins
    <3>2. Get(Get(c, k), l) = c.dict[k].dict[l]
      BY GetLemma
    <3>3. Section(joined, k, l) = Section(c, k, l) \cup Section(p, k, l)
      BY <2>2, <3>1, MergeSection
    <3> QED
      BY <3>2, <3>3 DEF Section
  <2> QED
    BY <2>3, <2>4 DEF c, p, joined
<1> QED
  BY <1>1, Typed, PTL

\* The lists of the cluster and the node reach the model, as they reach what the node page reads.
LEMMA DeclaredLayered ==
  ASSUME TypeInv, NEW n \in Live, NEW k, NEW l
  PROVE  Section(Declared(cluster[node[n].cluster], node[n]), k, l) \subseteq Section(LayeredOf(n), k, l)
<1> DEFINE c == cluster[node[n].cluster].params
           p == node[n].params
           base == DeepMerge(DeepMerge(Empty, Overrides[version]), Device(node[n].target))
<1>1. Parameters(c) /\ Parameters(p) /\ Parameters(Overrides[version])
  BY LayersOf
<1>2. Parameters(base)
  <2>1. Parameters(DeepMerge(Empty, Overrides[version]))
    BY <1>1, EmptyFormed, MergeKeeps
  <2> QED
    BY <2>1, DeviceFormed, MergeKeeps
<1>3. /\ Declared(cluster[node[n].cluster], node[n]) = DeepMerge(c, p)
      /\ LayeredOf(n) = DeepMerge(DeepMerge(base, c), p)
  BY Zenon DEF Declared, LayeredOf, Layered
<1> HIDE DEF c, p, base
<1>4. Parameters(DeepMerge(base, c)) /\ Section(c, k, l) \subseteq Section(DeepMerge(base, c), k, l)
  BY <1>1, <1>2, MergeKeeps, SectionKept
<1>5. Section(DeepMerge(c, p), k, l) \subseteq Section(DeepMerge(DeepMerge(base, c), p), k, l)
  BY <1>1, <1>4, MergeSection
<1> QED
  BY <1>3, <1>5

\* Every network a node declares, by either name of its id and by whatever layer,
\* is baked, and is baked with the identity the node has for it.
THEOREM IdentitiesBaked == Spec => []IdentityBaked
<1>1. ASSUME TypeInv PROVE IdentityBaked
  <2>1. SUFFICES ASSUME NEW n \in Live, NEW w \in Networks
                 PROVE  LET declared == Items(Get(Get(Declared(cluster[node[n].cluster], node[n]), "zerotier"), "networks"))
                            baked == Items(Get(Get(ServedPillar(n), "zerotier"), "networks"))
                            entries == {e \in ToSet(baked) : Get(e, "network_id") = Scalar(w)}
                        IN /\ (\E e \in ToSet(declared) : NetworkId(e) = Scalar(w)) => entries # {}
                           /\ zt[n][w] # 0 => \A e \in entries : /\ Get(e, "member_id") = Member(zt[n][w])
                                                                 /\ Get(e, "secret_key") = Secret(zt[n][w])
    BY Zenon DEF IdentityBaked
  <2> DEFINE declared == Section(Declared(cluster[node[n].cluster], node[n]), "zerotier", "networks")
             layered == Section(LayeredOf(n), "zerotier", "networks")
             baked == Section(ServedPillar(n), "zerotier", "networks")
             Put(e) == IF IsDict(e) THEN SpliceNetwork(e, zt[n]) ELSE e
  <2>2. baked = {Put(e) : e \in layered} /\ declared \subseteq layered
    <3>1. Get(ServedPillar(n), "zerotier") = Get(ModelOf(n), "zerotier")
      BY <1>1, ModelLemma, PillarLemma DEF ServedPillar, NonPillarKeys
    <3> QED
      BY <1>1, <3>1, ModelLemma, DeclaredLayered DEF Section
  <2> HIDE DEF declared, layered, baked
  <2>3. ASSUME NEW e PROVE ~IsDict(e) => NetworkId(e) # Scalar(w) /\ Get(e, "network_id") # Scalar(w)
    <3>1. Scalar(w) # Blank
      BY RegistryAssumption, ScalarSame DEF Blank
    <3>2. ~IsDict(e) => Get(e, "network_id") = Blank /\ Get(e, "network") = Blank
      BY GetLemma
    <3> QED
      BY <3>1, <3>2 DEF NetworkId, GetOr
  <2>4. ASSUME NEW e PROVE IsDict(e) => Get(Put(e), "network_id") = NetworkId(e)
    BY SpliceNetworkLemma
  <2>5. ASSUME NEW e, IsDict(e), NetworkId(e) = Scalar(w), zt[n][w] # 0
        PROVE  Get(Put(e), "member_id") = Member(zt[n][w]) /\ Get(Put(e), "secret_key") = Secret(zt[n][w])
    <3>1. w \in DOMAIN zt[n]
      BY <1>1 DEF TypeInv, IdentityTypes, Live
    <3>2. Stored(zt[n], NetworkId(e)) = zt[n][w]
      BY <2>5, <3>1, ScalarLemma DEF Stored
    <3> QED
      BY <2>5, <3>2, SpliceNetworkLemma
  <2>6. ASSUME NEW e, ~IsDict(e) PROVE Put(e) = e
    BY <2>6
  <2> HIDE DEF Put
  <2>7. ASSUME NEW e \in declared, NetworkId(e) = Scalar(w)
        PROVE  \E g \in baked : Get(g, "network_id") = Scalar(w)
    <3>1. IsDict(e)
      BY <2>3, <2>7
    <3>2. Get(Put(e), "network_id") = Scalar(w)
      BY <2>4, <2>7, <3>1
    <3> QED
      BY <2>2, <3>2
  <2>8. ASSUME NEW g \in baked, Get(g, "network_id") = Scalar(w), zt[n][w] # 0
        PROVE  Get(g, "member_id") = Member(zt[n][w]) /\ Get(g, "secret_key") = Secret(zt[n][w])
    <3>1. PICK e \in layered : g = Put(e)
      BY <2>2
    <3>2. IsDict(e)
      BY <2>3, <2>6, <2>8, <3>1
    <3> QED
      BY <2>4, <2>5, <2>8, <3>1, <3>2
  <2> QED
    BY <2>7, <2>8 DEF declared, baked, Section
<1> QED
  BY <1>1, Typed, PTL

\* A scalar a node pins is its id in the model; when no layer pins one there is none.
LEMMA PinnedLayered ==
  ASSUME TypeInv, NEW n \in Live, IsScalar(PinnedId(n))
  PROVE  /\ PinnedId(n) # Blank => PinnedIn(LayeredOf(n)) = PinnedId(n)
         /\ /\ PinnedId(n) = Blank /\ PinnedIn(Overrides[version]) = Blank
            /\ PinnedIn(cluster[node[n].cluster].params) = Blank
            => PinnedIn(LayeredOf(n)) = Blank
<1> DEFINE o == Overrides[version]
           d == Device(node[n].target)
           c == cluster[node[n].cluster].params
           p == node[n].params
           l1 == DeepMerge(Empty, o)
           l2 == DeepMerge(l1, d)
           l3 == DeepMerge(l2, c)
<1>1. Parameters(o) /\ Parameters(c) /\ Parameters(p)
  BY LayersOf
<1>2. Parameters(d) /\ PinnedIn(d) = Blank
  <2>1. Parameters(d) /\ Keys(d) = {"device"}
    BY DeviceFormed
  <2>2. Get(d, "salt") = Blank /\ Get(Blank, "id") = Blank
    BY <2>1, GetLemma, BlankLemma
  <2> HIDE DEF d
  <2> QED
    BY <2>1, <2>2 DEF PinnedIn
<1>3. LayeredOf(n) = DeepMerge(l3, p) /\ PinnedId(n) = PinnedIn(p)
  BY Zenon DEF LayeredOf, Layered, PinnedId
<1>4. Parameters(l1) /\ Parameters(l2) /\ Parameters(l3)
  BY <1>1, <1>2, EmptyFormed, MergeKeeps
<1> HIDE DEF o, d, c, p
<1>5. PinnedIn(Empty) = Blank
  BY GetLemma, EmptyLemma, BlankLemma DEF PinnedIn
<1>6. ASSUME NEW a, NEW b, Parameters(a), Parameters(b), IsScalar(PinnedIn(b))
      PROVE  /\ PinnedIn(b) # Blank => PinnedIn(DeepMerge(a, b)) = PinnedIn(b)
             /\ PinnedIn(b) = Blank /\ PinnedIn(a) = Blank => PinnedIn(DeepMerge(a, b)) = Blank
  BY <1>6, MergeScalar DEF PinnedIn
<1>7. IsScalar(PinnedIn(p))
  BY <1>3
<1>8. PinnedIn(p) # Blank => PinnedIn(DeepMerge(l3, p)) = PinnedIn(p)
  BY <1>1, <1>4, <1>6, <1>7
<1>9. ASSUME PinnedIn(p) = Blank, PinnedIn(o) = Blank, PinnedIn(c) = Blank
      PROVE  PinnedIn(DeepMerge(l3, p)) = Blank
  <2>1. IsScalar(Blank)
    BY BlankLemma
  <2>2. PinnedIn(l1) = Blank
    BY <1>1, <1>5, <1>6, <1>9, <2>1, EmptyFormed
  <2> HIDE DEF l1
  <2>3. PinnedIn(l2) = Blank
    BY <1>2, <1>4, <1>6, <2>1, <2>2
  <2> HIDE DEF l2
  <2>4. PinnedIn(l3) = Blank
    BY <1>1, <1>4, <1>6, <1>9, <2>1, <2>3
  <2> HIDE DEF l3
  <2> QED
    BY <1>1, <1>4, <1>6, <1>9, <2>1, <2>4
<1> HIDE DEF l3
<1> QED
  BY <1>3, <1>8, <1>9 DEF o, c

\* The salt id of a node that pins a string is the string.
LEMMA PinnedSalt ==
  ASSUME TypeInv, NEW n \in Live, IsScalar(PinnedId(n)), PinnedId(n) # Blank
  PROVE  SaltIdOf(n) = PinnedId(n).scalar
BY PinnedLayered, ModelLemma DEF SaltIdOf, SaltId, PinnedIn

\* A device that asks with its salt id gets the pillar of its own node, when the
\* node pins a string or nothing, its cluster and the preset pin no id, and no other
\* active node has this id or has it as its slug: the order of the three lookups
\* does not give it another's.
THEOREM OwnPillar == Spec => []MinionGetsOwnPillar
<1>1. ASSUME TypeInv PROVE MinionGetsOwnPillar
  <2> DEFINE Others(n) == {m \in Live \ {n} : node[m].active}
  <2>1. SUFFICES ASSUME NEW n \in Live, node[n].active, IsScalar(PinnedId(n)),
                        PinnedIn(Overrides[version]) = Blank, PinnedIn(cluster[node[n].cluster].params) = Blank,
                        \A m \in Others(n) : SaltIdOf(n) \notin {SaltIdOf(m), node[m].slug}
                 PROVE  Resolve(SaltIdOf(n)) = {n}
    BY Zenon DEF MinionGetsOwnPillar
  <2> DEFINE s == SaltIdOf(n)
             active == {m \in Live : node[m].active}
             pinned == {m \in active : PinnedId(m) = Scalar(s)}
             named  == {m \in active : node[m].slug = s}
             hosts  == {m \in active : node[m].hostname = s}
  <2>2. Resolve(s) = IF pinned # {} THEN pinned ELSE IF named # {} THEN named ELSE hosts
    BY Zenon DEF Resolve
  <2>3. s # Unset => \A m \in Others(n) : PinnedId(m) # Scalar(s)
    <3> SUFFICES ASSUME s # Unset, NEW m \in Others(n), PinnedId(m) = Scalar(s) PROVE FALSE
      OBVIOUS
    <3> HIDE DEF s
    <3>1. IsScalar(PinnedId(m)) /\ PinnedId(m) # Blank /\ PinnedId(m).scalar = s
      BY ScalarLemma, ScalarSame DEF Blank
    <3>2. SaltIdOf(m) = s
      BY <1>1, <3>1, PinnedSalt
    <3> QED
      BY <2>1, <3>2 DEF s
  <2>4. node[n].slug # Unset
    BY <1>1, LayersOf
  <2>5. CASE PinnedId(n) # Blank
    <3>1. s = PinnedId(n).scalar /\ PinnedId(n) = Scalar(s)
      BY <1>1, <2>1, <2>5, PinnedSalt DEF IsScalar
    <3>2. s # Unset
      BY <2>5, <3>1 DEF Blank
    <3> HIDE DEF s
    <3>3. pinned = {n}
      BY <2>1, <2>3, <3>1, <3>2
    <3> QED
      BY <2>2, <3>3 DEF s
  <2>6. CASE PinnedId(n) = Blank
    <3>1. PinnedIn(ModelOf(n)) = Scalar(node[n].slug)
      BY <1>1, <2>1, <2>6, PinnedLayered, ModelLemma
    <3>2. Scalar(node[n].slug) # Blank
      BY <2>4, ScalarSame DEF Blank
    <3>3. s = node[n].slug
      BY <3>1, <3>2, ScalarLemma DEF SaltIdOf, SaltId, PinnedIn
    <3>4. \A m \in Others(n) : node[m].slug # s
      BY <2>1
    <3> HIDE DEF s
    <3>5. pinned = {}
      BY <2>3, <2>4, <2>6, <3>2, <3>3
    <3>6. named = {n}
      BY <2>1, <3>3, <3>4
    <3> QED
      BY <2>2, <3>5, <3>6 DEF s
  <2> QED
    BY <2>5, <2>6
<1> QED
  BY <1>1, Typed, PTL

\* A bake and the pillar endpoint, two pieces of code, give a node the same pillar as
\* long as it has not moved and the preset has no newer version; the file a bake
\* writes has all of it, and on Batocera all but the list of states; and the minion
\* is seeded with the id of its node.
THEOREM InLockStep == Spec => []LockStep
<1>1. ASSUME TypeInv PROVE LockStep
  <2>1. SUFFICES ASSUME NEW b \in Builds, build[b] # None, HasNode(b),
                        build[b].cluster = node[build[b].node].cluster, build[b].version = version
                 PROVE  /\ Pillar(BakedModel(b)) = ServedPillar(build[b].node)
                        /\ ExtendedBy(ServedPillar(build[b].node), WrittenPillar(Defaults, Pillar(BakedModel(b))))
                        /\ LET served == ServedPillar(build[b].node) IN
                           ExtendedBy(Only(served, Keys(served) \ {"states"}), BatoceraPillar(Pillar(BakedModel(b))))
                        /\ SeededId(BakedModel(b), build[b].hostname) = SaltIdOf(build[b].node)
    BY Zenon DEF LockStep
  <2> DEFINE n == build[b].node
             c == build[b].cluster
             baked == BakedModel(b)
             model == ModelOf(n)
  <2>2. n \in Live
    <3>1. IsBuild(build[b]) /\ (n # None => Row(node[n])) /\ n # None
      BY <1>1, <2>1 DEF TypeInv, BuildTypes, HasNode
    <3>2. n \in Nodes
      BY <3>1 DEF IsBuild
    <3> QED
      BY <3>1, <3>2 DEF Live
  <2>3. HasCluster(b)
    <3>1. c \in Clusters
      BY <1>1, <2>1, <2>2, LayersOf
    <3> QED
      BY <3>1, RegistryAssumption DEF HasCluster
  <2>4. baked = BuildModel(Overrides[version], build[b], TRUE, cluster[c], TRUE, node[n], zt[n], wg[n])
    BY <2>1, <2>3, Zenon DEF BakedModel
  <2>5. model = NodeModel(Overrides[version], cluster[c], node[n], zt[n], wg[n])
    BY <2>1, Zenon DEF ModelOf
  <2> HIDE DEF baked, model
  <2>6. SamePillar(baked, model)
    BY <2>4, <2>5, ModelsAgree
  <2>7. Pillar(baked) = Pillar(model)
    BY <2>6, SamePillarIs
  <2>8. Parameters(model) /\ Parameters(Pillar(model))
    BY <1>1, <2>2, ModelLemma, PillarLemma DEF model
  <2>9. ExtendedBy(Pillar(model), WrittenPillar(Defaults, Pillar(model)))
    BY <2>8, RegistryAssumption, WrittenLemma
  <2>10. ExtendedBy(Only(Pillar(model), Keys(Pillar(model)) \ {"states"}), BatoceraPillar(Pillar(model)))
    BY <2>8, BatoceraLemma
  <2>11. SeededId(baked, build[b].hostname) = SaltIdOf(n)
    <3>1. Get(baked, "salt") = Get(model, "salt")
      BY <2>6 DEF SamePillar, NonPillarKeys
    <3>2. PinnedIn(model) # Blank
      <4>1. Scalar(node[n].slug) # Blank
        BY <1>1, <2>2, LayersOf, ScalarSame DEF Blank
      <4> QED
        BY <1>1, <2>2, <4>1, ModelLemma DEF model
    <3>3. SaltIdOf(n) = PinnedIn(model).scalar
      BY <3>2 DEF SaltIdOf, SaltId, PinnedIn, model
    <3>4. SeededId(baked, build[b].hostname) = PinnedIn(model).scalar
      BY <3>1, <3>2 DEF SeededId, PinnedIn
    <3> QED
      BY <3>3, <3>4
  <2> QED
    BY <2>7, <2>9, <2>10, <2>11, Zenon DEF ServedPillar, baked, model
<1> QED
  BY <1>1, Typed, PTL

-----------------------------------------------------------------------------
(* The key the pages of a node hand out. *)

\* A request that is about to store a key is ended by that step alone.
LEMMA OnlyPeerStore ==
  ASSUME TypeInv, [Next]_vars, NEW r \in Requests, At(r, "peer", "store"), req'[r] = None
  PROVE  PeerStore(r)
<1>1. ~Idle(r) /\ req[r].kind = "peer" /\ req[r].pc = "store" /\ req[r] # None
  BY RequestOf DEF At
<1>2. ~Apart(r)
  BY <1>1, MarkedLemma
<1>3. CASE Arrive
  BY <1>1, <1>3, ApartArrive
<1>4. CASE ClusterStep \/ NodeStep \/ (\E v \in DOMAIN Overrides : PublishVersion(v)) \/ UNCHANGED vars
  BY <1>1, <1>4, RowsStay
<1>5. CASE Proceed
  <2> PICK q \in Requests :
        \/ EditSave(q) \/ JoinSave(q) \/ JoinStore(q) \/ JoinRegister(q)
        \/ \E w \in Networks : CheckNetwork(q, w)
        \/ \E i \in Interfaces : CheckKey(q, i)
        \/ StoreNetwork(q) \/ StoreKey(q)
        \/ ListClients(q) \/ CreateClient(q) \/ PeerSave(q) \/ PeerStore(q)
        \/ BackfillSave(q) \/ Finish(q)
    BY <1>5 DEF Proceed
  <2>1. ASSUME EditSave(q) PROVE \A o \in Requests \ {q} : Apart(o)
    <3>1. \/ req' = [req EXCEPT ![q] = None]
          \/ req' = Overtaking([req EXCEPT ![q] = None], q, req[q].node)
      BY <2>1 DEF EditSave, Ends
    <3> QED
      BY <3>1, ApartPlain, ApartOvertaking
  <2>2. ASSUME JoinSave(q) \/ PeerSave(q) \/ BackfillSave(q) PROVE \A o \in Requests \ {q} : Apart(o)
    <3>1. \/ \E params, x : SaveParams(q, req[q].node, params, [req EXCEPT ![q] = x])
          \/ req' = [req EXCEPT ![q] = None]
      BY <2>2, Zenon DEF JoinSave, PeerSave, BackfillSave, Goto, Ends
    <3> QED
      BY <3>1, ApartPlain, ApartSave
  <2>3. ASSUME \/ JoinStore(q) \/ JoinRegister(q) \/ StoreNetwork(q) \/ StoreKey(q)
               \/ \E w \in Networks : CheckNetwork(q, w)
               \/ \E i \in Interfaces : CheckKey(q, i)
               \/ ListClients(q) \/ CreateClient(q) \/ PeerStore(q) \/ Finish(q)
        PROVE  \A o \in Requests \ {q} : Apart(o)
    <3>1. \E x : req' = [req EXCEPT ![q] = x]
      BY <2>3, Zenon DEF JoinStore, JoinRegister, CheckNetwork, CheckKey, StoreNetwork, StoreKey,
         ListClients, CreateClient, PeerStore, Finish, Goto, Ends
    <3> QED
      BY <3>1, ApartPlain
  <2>4. q = r
    BY <1>2, <2>1, <2>2, <2>3
  <2>5. \A kind, pc : At(r, kind, pc) => kind = "peer" /\ pc = "store"
    BY <1>1 DEF At
  <2>6. /\ ~EditSave(r) /\ ~JoinSave(r) /\ ~JoinStore(r) /\ ~JoinRegister(r)
        /\ ~StoreNetwork(r) /\ ~StoreKey(r) /\ ~BackfillSave(r)
        /\ ~ListClients(r) /\ ~CreateClient(r) /\ ~PeerSave(r)
    BY <2>5 DEF EditSave, JoinSave, JoinStore, JoinRegister, StoreNetwork, StoreKey, BackfillSave,
       ListClients, CreateClient, PeerSave
  <2>7. \A w : ~CheckNetwork(r, w) /\ ~CheckKey(r, w)
    <3>1. ~At(r, "networks", "store") /\ ~At(r, "keys", "store")
      BY <2>5
    <3> QED
      BY <3>1, Zenon DEF CheckNetwork, CheckKey
  <2>8. ~Finish(r)
    BY <1>1 DEF Finish
  <2> QED
    BY <2>4, <2>6, <2>7, <2>8, Zenon
<1> QED
  BY <1>3, <1>4, <1>5 DEF Next

\* When a node has a tunnel of its own, its pages hand out the controller's client of
\* its name, or a key that is stored for one of its interfaces.
LEMMA ConfKeyLemma ==
  ASSUME TypeInv, UNCHANGED <<cluster, node, keys>>, NEW n \in Live,
         NEW e \in ToSet(Tunnels(node[n].params)), IsDict(e), Get(e, "name") # Blank
  PROVE  LET names == InterfaceNames(cluster[node[n].cluster], node[n]) IN
         /\ Get(e, "name").scalar \in names
         /\ \/ ConfKey(n)' = ClientKey(MinionId(node[n]))
            \/ \E i \in names \cap Interfaces : ConfKey(n)' = Stored(wg'[n], Scalar(i))
<1> DEFINE c == cluster[node[n].cluster]
           p == node[n].params
           all == Tunnels(Declared(c, node[n]))
           name(i) == Get(all[i], "name")
           named == {i \in DOMAIN all : IsDict(all[i]) /\ name(i) # Blank}
           declared == DeclaredInterfaces(c, node[n])
           names == InterfaceNames(c, node[n])
           iface == all[Min(declared)]
           Server == \E x \in ToSet(Items(Get(iface, "peers"))) : Get(x, "public_key") = Scalar("server")
<1>1. ConfKey(n)' = IF declared = {} THEN 0
                    ELSE IF Server THEN ClientKey(MinionId(node[n])) ELSE Stored(wg'[n], Get(iface, "name"))
  <2>1. cluster' = cluster /\ node' = node /\ keys' = keys
    OBVIOUS
  <2>2. ClientKey(MinionId(node[n]))' = ClientKey(MinionId(node[n]))
    BY <2>1, Zenon DEF ClientKey, SelectLastInSeq
  <2> QED
    BY <2>1, <2>2, Zenon DEF ConfKey
<1>2. RowParameters(c.params) /\ RowParameters(p)
  <2>1. IsNodeRow(node[n]) /\ node[n].cluster \in Clusters /\ Row(c)
    BY LayersOf DEF Live, TypeInv, RowTypes
  <2> QED
    BY <2>1, RowFields DEF TypeInv, RowTypes, IsClusterRow
<1>3. Parameters(c.params) /\ Parameters(p) /\ Declared(c, node[n]) = DeepMerge(c.params, p)
  BY <1>2 DEF RowParameters, Declared
<1>4. declared = {i \in named : \A j \in named : j < i => name(j) # name(i)}
  BY Zenon DEF DeclaredInterfaces
<1>5. names = {name(i).scalar : i \in declared}
  BY Zenon DEF InterfaceNames
<1> HIDE DEF c, p, declared, names, Server
<1>6. Parameters(Declared(c, node[n]))
  BY <1>3, MergeKeeps
<1>7. all \in Seq(ToSet(all))
  BY <1>6, FormedGet, FormedItems DEF Tunnels
<1>8. e \in ToSet(all) /\ ToSet(all) \subseteq ToSet(Tunnels(c.params)) \cup ToSet(Tunnels(p))
  <2>1. \A t : ToSet(Tunnels(t)) = Section(t, "wireguard", "interfaces")
    BY DEF Tunnels, Section
  <2>2. e \in Section(p, "wireguard", "interfaces")
    BY <2>1 DEF p
  <2> QED
    BY <1>3, <2>1, <2>2, MergeSection, SectionKept
<1> HIDE DEF all
<1>9. DOMAIN all = 1 .. Len(all) /\ Len(all) \in Nat
  BY <1>7
<1>10. named # {}
  BY <1>8 DEF ToSet
<1>11. PICK m \in named : \A i \in named : m <= i
  <2>1. named \in SUBSET Nat
    BY <1>9
  <2> HIDE DEF named
  <2> QED
    BY <1>10, <2>1, LeastOf
<1>12. m \in declared /\ declared \subseteq named /\ declared \in SUBSET (1 .. Len(all))
  BY <1>4, <1>9, <1>11
<1>13. Min(declared) \in declared
  BY <1>9, <1>12, IndexLemma
<1>14. iface \in ToSet(all) /\ Get(iface, "name") # Blank
  BY <1>12, <1>13 DEF ToSet
<1> HIDE DEF iface
<1>15. PICK i \in Interfaces \cup {Unset} : Get(iface, "name") = Scalar(i)
  BY <1>2, <1>8, <1>14 DEF RowParameters
<1>16. i \in Interfaces /\ i \in names
  <2>1. i \in Interfaces
    BY <1>14, <1>15 DEF Blank
  <2>2. Get(iface, "name").scalar = i
    BY <1>15, ScalarLemma
  <2> QED
    BY <1>5, <1>13, <2>1, <2>2 DEF iface
<1>17. Get(e, "name").scalar \in names
  <2> DEFINE same == {j \in named : name(j) = Get(e, "name")}
  <2>1. same # {} /\ same \in SUBSET Nat
    BY <1>8, <1>9 DEF ToSet
  <2> HIDE DEF same
  <2>2. PICK j \in same : \A l \in same : j <= l
    BY <2>1, LeastOf
  <2>3. j \in declared /\ name(j) = Get(e, "name")
    BY <1>4, <1>9, <2>2 DEF same
  <2> QED
    BY <1>5, <2>3
<1> QED
  BY <1>1, <1>12, <1>15, <1>16, <1>17 DEF c, names

LEMMA TunnelNext ==
  ASSUME TypeInv, Attaches, [Next]_vars, NEW r \in Requests, NEW n \in Nodes,
         At(r, "peer", "store"), req[r].node = n, req'[r] = None, req[r].got # 0, ~req[r].stale, Row(node[n])
  PROVE  \/ \E i \in InterfaceNames(cluster[node[n].cluster], node[n])' : ConfKey(n)' = wg'[n][i]
         \/ ConfKey(n)' > req[r].got
<1> DEFINE names == InterfaceNames(cluster[node[n].cluster], node[n])
           k == req[r].got
           id == MinionId(node[n])
           I == {j \in 1 .. Len(keys) : keys[j] = id}
<1>1. PeerStore(r)
  BY OnlyPeerStore
<1>2. /\ UNCHANGED <<cluster, node, keys>>
      /\ wg' = [wg EXCEPT ![n][req[r].name] = k]
  BY <1>1 DEF PeerStore, rows, external
<1>3. /\ req[r] # None /\ req[r].kind = "peer" /\ req[r].pc = "store"
      /\ IsRequest(req[r]) /\ Holds(req[r], minted, keys)
  BY AtLemma, RequestOf
<1>4. req[r].name \in Interfaces
  BY <1>3 DEF IsRequest
<1>5. /\ MinionId(req[r].snap) = id /\ keys[k] = id
      /\ \E e \in ToSet(Tunnels(node[n].params)) : IsDict(e) /\ Get(e, "name") = Scalar(req[r].name)
  BY <1>3 DEF Attaches, Attached, ClientOf
<1>6. Len(keys) \in Nat /\ k \in 1 .. Len(keys)
  <2>1. Len(keys) \in Nat
    BY DEF TypeInv, IdentityTypes
  <2> QED
    BY <1>3, <2>1 DEF Holds
<1>7. wg'[n][req[r].name] = k /\ DOMAIN wg'[n] = Interfaces
  BY <1>2, <1>4 DEF TypeInv, IdentityTypes
<1>8. n \in Live /\ Scalar(req[r].name) # Blank
  BY <1>4, RegistryAssumption, ScalarSame DEF Live, Blank
<1>9. /\ req[r].name \in names
      /\ \/ ConfKey(n)' = ClientKey(id)
         \/ \E i \in names \cap Interfaces : ConfKey(n)' = Stored(wg'[n], Scalar(i))
  BY <1>2, <1>5, <1>8, ConfKeyLemma, ScalarLemma
<1>10. names' = names
  <2>1. cluster' = cluster /\ node' = node
    BY <1>2
  <2> QED
    BY <2>1, Zenon
<1> HIDE DEF names
<1>11. CASE ConfKey(n)' = ClientKey(id)
  <2>1. ClientKey(id) = IF I # {} THEN Max(I) ELSE 0
    BY Zenon DEF ClientKey, SelectLastInSeq
  <2>2. k \in I /\ I \in SUBSET (1 .. Len(keys))
    BY <1>5, <1>6
  <2> HIDE DEF I
  <2>3. ClientKey(id) = Max(I) /\ Max(I) \in I /\ k <= Max(I)
    BY <1>6, <2>1, <2>2, IndexLemma
  <2>4. \A j \in I : j \in Nat
    BY <2>2
  <2>5. Max(I) \in Nat /\ k \in Nat
    BY <2>2, <2>3, <2>4
  <2> HIDE DEF k, id
  <2>6. ConfKey(n)' \in Nat /\ k <= ConfKey(n)'
    BY <1>11, <2>3, <2>5
  <2>7. ConfKey(n)' = k \/ ConfKey(n)' > k
    BY <2>5, <2>6
  <2> QED
    BY <1>7, <1>9, <1>10, <2>7 DEF names, k
<1>12. ASSUME NEW i \in Interfaces, ConfKey(n)' = Stored(wg'[n], Scalar(i)) PROVE ConfKey(n)' = wg'[n][i]
  BY <1>7, <1>12, ScalarLemma DEF Stored
<1> QED
  BY <1>9, <1>10, <1>11, <1>12 DEF names

\* A request that has stored the key its controller gave it leaves the node's pages
\* handing out a key that is baked for one of its tunnels, unless the node was written
\* while the request ran or the controller got a later client of the name.
THEOREM TunnelsHandedOut == Spec => TunnelHandedOut
<1>1. TypeInv /\ Attaches /\ [Next]_vars =>
        [\A r \in Requests, n \in Nodes :
           ( /\ At(r, "peer", "store") /\ req[r].node = n /\ req'[r] = None
             /\ req[r].got # 0 /\ ~req[r].stale /\ Row(node[n]) )
           => \/ \E i \in InterfaceNames(cluster[node[n].cluster], node[n])' : ConfKey(n)' = wg'[n][i]
              \/ ConfKey(n)' > req[r].got]_vars
  BY TunnelNext
<1> QED
  BY <1>1, Typed, KeysAttached, PTL DEF Spec, TunnelHandedOut

=============================================================================
