---------------------------- MODULE JunosParsing ----------------------------
(***************************************************************************)
(* Reading a JunOS configuration (parsers/juniper_junos), which is written   *)
(* as "set" lines or as a hierarchy of blocks, or as both.  A line is       *)
(* [form, words]: "set" lines say the whole statement, "open" and "close"   *)
(* begin and end a block, a "leaf" stands in the blocks that are open, and   *)
(* a "comment" is nothing.  A block that is not understood is opened all the *)
(* same.                                                                   *)
(*                                                                         *)
(* Two things are decided at the end only: what an interface takes from its *)
(* base, and which terms, neighbours and routes are whole.                  *)
(***************************************************************************)
EXTENDS ConfigText

CONSTANTS Bare  \* what is left of every word with a bracket or comma at an end, or None

Family(w) == CASE w = "inet" -> "ipv4" [] w = "inet6" -> "ipv6" [] OTHER -> None
Action(w) == CASE w = "accept" -> "permit" [] w \in {"discard", "reject"} -> "deny" [] OTHER -> None
SshVersion(w) == CASE w \in {"1", "v1"} -> "1" [] w \in {"2", "v2"} -> "2" [] OTHER -> None

\* Object 1 is the system, object 2 what BGP and OSPF have in common.
Routing == 2
Blank == [Nothing EXCEPT !.objects = Append(@, [Object("routing", <<>>, 0) EXCEPT !.at = {}])]

-----------------------------------------------------------------------------
(* Interfaces and VLANs.  The key of an interface is its name, and its unit   *)
(* if it has one; the name is all the words that open its block.           *)

Members(words) ==
  SelectSeq([k \in DOMAIN words |-> IF words[k] \in DOMAIN Bare THEN Bare[words[k]] ELSE words[k]],
            LAMBDA w : w # None)

AddVlanMembers(st, i, members, n) ==
  CASE members = <<>> -> Refuse(st, n)
    [] members # <<>> /\ Contains(members, "all") ->
         IF Len(members) = 1 THEN Put(st, i, "all", TRUE, n) ELSE Refuse(st, n)
    [] OTHER ->
         IF \E k \in DOMAIN members : IsNumber(members[k]) /\ ~ValidVlan(members[k]) THEN Reject(st, n)
         ELSE Put(st, i, "members", FoldLeft(AddOnce, Get(st.objects[i], "members"), members), n)

AddInterfaceAddress(st, i, family, w, n) ==
  IF InFamily(family, <<w>>) THEN Also(st, i, <<family, Interface[<<w>>]>>, n) ELSE Reject(st, n)

SetVlanId(st, name, w, n) ==
  IF ~ValidVlan(w) THEN Reject(st, n)
  ELSE PutIn(st, "vlan", <<name>>, "vlan_id", Number[w], n)

\* One statement about a unit, whose family has been read.
Switching(st, i, w, n) ==
  CASE Len(w) = 2 /\ w[1] \in {"interface-mode", "port-mode"} /\ w[2] \in {"access", "trunk"} ->
         Put(st, i, "mode", w[2], n)
    [] Len(w) = 2 /\ w[1] = "native-vlan-id" ->
         IF ValidVlan(w[2]) THEN PutAlone(st, i, "native", Number[w[2]], n) ELSE Reject(st, n)
    [] OTHER -> Refuse(st, n)

UnitSet(st, i, w, n) ==
  CASE Len(w) > 1 /\ w[1] = "description" -> Put(st, i, "description", Tail(w), n)
    [] w = <<"disable">> -> Put(st, i, "enabled", FALSE, n)
    [] Len(w) = 4 /\ w[1] = "family" /\ w[3] = "address" ->
         IF Family(w[2]) = None THEN Refuse(st, n) ELSE AddInterfaceAddress(st, i, Family(w[2]), w[4], n)
    [] Len(w) > 4 /\ Starts(<<"family", "ethernet-switching", "vlan", "members">>, w) ->
         AddVlanMembers(st, i, Members(From(w, 5)), n)
    [] Len(w) = 4 /\ Starts(<<"family", "ethernet-switching">>, w) -> Switching(st, i, From(w, 3), n)
    [] OTHER -> Refuse(st, n)

\* set interfaces <name> ...: a unit is known from any line that names it.
SetInterface(st, w, n) ==
  CASE Len(w) < 4 -> Refuse(st, n)
    [] Len(w) > 4 /\ w[4] = "description" ->
         PutIn(st, "interface", <<<<w[3]>>>>, "description", From(w, 5), n)
    [] Len(w) = 4 /\ w[4] = "disable" ->
         PutIn(st, "interface", <<<<w[3]>>>>, "enabled", FALSE, n)
    [] Len(w) > 5 /\ w[4] = "unit" ->
         UnitSet(Ensure(st, "interface", <<<<w[3]>>, w[5]>>, n),
                 AtKey(st, "interface", <<<<w[3]>>, w[5]>>, n), From(w, 6), n)
    [] OTHER -> Refuse(st, n)

\* What the open blocks say of a name: the last word for it counts, but for a prefix list and
\* a route the first.
Within(ctx, name) == \E k \in DOMAIN ctx : ctx[k][1] = name
Below(ctx, name) == From(ctx, SelectInSeq(ctx, LAMBDA b : b[1] = name) + 1)
WordOf(ctx, at) == IF at = 0 THEN None ELSE ctx[at][2]
Named(ctx, name) == WordOf(ctx, SelectLastInSeq(ctx, LAMBDA b : Len(b) > 1 /\ b[1] = name))
Pair(ctx, name) == WordOf(ctx, SelectLastInSeq(ctx, LAMBDA b : Len(b) = 2 /\ b[1] = name))
FirstPair(ctx, name) == WordOf(ctx, SelectInSeq(ctx, LAMBDA b : Len(b) = 2 /\ b[1] = name))

\* `inner` are the blocks inside "interfaces".
InterfaceKey(inner) ==
  IF Named(Tail(inner), "unit") = None THEN <<inner[1]>> ELSE <<inner[1], Named(Tail(inner), "unit")>>
FamilyWord(b) == IF b[1] = "family" THEN b[2] ELSE b[1]
AddressFamilies(inner) ==
  SelectSeq(Tail(inner), LAMBDA b : (b[1] = "family" /\ Len(b) > 1) \/ b[1] \in {"inet", "inet6"})
Families(inner) ==
  SelectSeq(Tail(inner), LAMBDA b : \/ b[1] = "family" /\ Len(b) > 1
                                   \/ b[1] \in {"inet", "inet6", "ethernet-switching"})
AddressFamily(inner) ==
  IF AddressFamilies(inner) = <<>> THEN None ELSE Family(FamilyWord(Last(AddressFamilies(inner))))
FamilyName(inner) == IF Families(inner) = <<>> THEN "none" ELSE FamilyWord(Head(Families(inner)))

InterfaceStatement(st, i, family, address, w, n) ==
  CASE Len(w) > 1 /\ w[1] = "description" -> Put(st, i, "description", Tail(w), n)
    [] w = <<"disable">> -> Put(st, i, "enabled", FALSE, n)
    [] Len(w) = 2 /\ w[1] = "address" /\ address # None -> AddInterfaceAddress(st, i, address, w[2], n)
    [] family = "ethernet-switching" /\ w[1] = "members" -> AddVlanMembers(st, i, Members(Tail(w)), n)
    [] family = "ethernet-switching" /\ w[1] \notin {"description", "disable", "address", "members"} ->
         Switching(st, i, w, n)
    [] OTHER -> Refuse(st, n)

InterfaceLeaf(st, inner, w, n) ==
  IF inner = <<>> THEN Refuse(st, n)
  ELSE InterfaceStatement(Ensure(st, "interface", InterfaceKey(inner), n),
         AtKey(st, "interface", InterfaceKey(inner), n), FamilyName(inner), AddressFamily(inner), w, n)

UnitBlock(st, inner, b, n) ==
  CASE b[1] = "unit" /\ Len(b) > 1 -> Ensure(st, "interface", <<inner[1], b[2]>>, n)
    [] b[1] = "family" /\ Len(b) > 1 ->
         IF Family(b[2]) # None \/ b[2] = "ethernet-switching" THEN st ELSE Refuse(st, n)
    [] b[1] \in {"inet", "inet6"} -> st
    [] b[1] = "vlan" -> IF FamilyName(inner) = "ethernet-switching" THEN st ELSE Refuse(st, n)
    [] b[1] = "address" /\ Len(b) > 1 /\ AddressFamily(inner) # None ->
         AddInterfaceAddress(Ensure(st, "interface", InterfaceKey(inner), n),
           AtKey(st, "interface", InterfaceKey(inner), n), AddressFamily(inner), b[2], n)
    [] OTHER -> Refuse(st, n)

InterfaceBlock(st, ctx, b, n) ==
  IF Last(ctx)[1] = "interfaces" THEN Ensure(st, "interface", <<b>>, n)
  ELSE UnitBlock(st, Below(ctx, "interfaces"), b, n)

VlanBlock(st, ctx, b, n) ==
  IF Last(ctx)[1] = "vlans" THEN Ensure(st, "vlan", <<b>>, n) ELSE Refuse(st, n)
VlanLeaf(st, inner, w, n) ==
  IF inner # <<>> /\ Len(w) = 2 /\ w[1] = "vlan-id" THEN SetVlanId(st, inner[1], w[2], n)
  ELSE Refuse(st, n)
SetVlan(st, w, n) ==
  IF Len(w) = 5 /\ w[4] = "vlan-id" THEN SetVlanId(st, <<w[3]>>, w[5], n) ELSE Refuse(st, n)

-----------------------------------------------------------------------------
(* Firewall filters.  The key of a term is family, filter and term.          *)

Fits(family, values) == \A k \in DOMAIN values : values[k] = "any" \/ InFamily(family, <<values[k]>>)
Normal(values) == [k \in DOMAIN values |-> IF values[k] = "any" THEN "any" ELSE Network[<<values[k]>>][2]]
PutEach(st, i, field, values, n) == Put(st, i, field, FoldLeft(AddOnce, Get(st.objects[i], field), values), n)

FirewallMatch(st, i, family, field, values, n) ==
  CASE field = "protocol" /\ Len(values) = 1 -> Put(st, i, field, values[1], n)
    [] field \in {"source-address", "destination-address"} /\ values # <<>> ->
         IF Fits(family, values) THEN PutEach(st, i, field, Normal(values), n) ELSE Reject(st, n)
    [] field \in {"source-port", "destination-port"} /\ values # <<>> -> PutEach(st, i, field, values, n)
    [] field \in {"tcp-established", "is-fragment", "first-fragment"} /\ values = <<>> ->
         Put(st, i, "options", (IF Get(st.objects[i], "options") = None THEN <<>> ELSE Get(st.objects[i], "options"))
                                 \o <<<<field>>>>, n)
    [] field = "icmp-type" /\ values # <<>> ->
         Put(st, i, "options", (IF Get(st.objects[i], "options") = None THEN <<>> ELSE Get(st.objects[i], "options"))
                                 \o [k \in DOMAIN values |-> <<field, values[k]>>], n)
    [] OTHER -> Refuse(st, n)

Then(st, i, w, n) ==
  IF Len(w) = 1 /\ Action(w[1]) # None THEN Put(st, i, "action", Action(w[1]), n) ELSE Refuse(st, n)

EnsureTerm(st, key, n) ==
  Ensure(Ensure(st, "filter", <<key[1], key[2]>>, n), "term", key, n)
TermStatement(st, key, w, n, i) ==
  CASE w[1] = "then" -> Then(Trace(st, i, n), i, Tail(w), n)
    [] w[1] = "from" /\ Len(w) > 2 ->
         FirewallMatch(Trace(st, i, n), i, key[1], w[2], Members(From(w, 3)), n)
    [] OTHER -> Refuse(Trace(st, i, n), n)

SetTerm(st, key, w, n) == TermStatement(EnsureTerm(st, key, n), key, w, n, Place(EnsureTerm(st, key, n), "term", key))
SetFirewall(st, w, n) ==
  IF Len(w) > 9 /\ w[3] = "family" /\ w[5] = "filter" /\ w[7] = "term" /\ Family(w[4]) # None
  THEN SetTerm(st, <<Family(w[4]), w[6], w[8]>>, From(w, 9), n)
  ELSE Refuse(st, n)

FilterFamily(ctx) == IF Named(ctx, "family") = None THEN None ELSE Family(Named(ctx, "family"))
TermKey(ctx) == <<FilterFamily(ctx), Named(ctx, "filter"), Named(ctx, "term")>>

FirewallBlock(st, ctx, b, n) ==
  CASE b[1] = "family" /\ Len(b) = 2 -> IF Family(b[2]) = None THEN Refuse(st, n) ELSE st
    [] b[1] = "filter" /\ Len(b) = 2 /\ FilterFamily(ctx) # None ->
         Ensure(st, "filter", <<FilterFamily(ctx), b[2]>>, n)
    [] b[1] = "term" /\ Len(b) = 2 /\ FilterFamily(ctx) # None /\ Named(ctx, "filter") # None ->
         EnsureTerm(st, <<FilterFamily(ctx), Named(ctx, "filter"), b[2]>>, n)
    [] b[1] \in {"from", "then", "source-address", "destination-address", "source-port", "destination-port"}
         /\ Named(ctx, "term") # None -> st
    [] OTHER -> Refuse(st, n)

TermLeaf(st, i, family, parent, w, n) ==
  CASE parent = "then" -> Then(st, i, w, n)
    [] parent # "then" /\ w[1] = "then" /\ Len(w) = 2 -> Then(st, i, Tail(w), n)
    [] parent \in {"source-address", "destination-address", "source-port", "destination-port"} ->
         FirewallMatch(st, i, family, parent, Members(w), n)
    [] OTHER -> FirewallMatch(st, i, family, w[1], Members(Tail(w)), n)

FirewallLeaf(st, ctx, w, n) ==
  IF None \in {FilterFamily(ctx), Named(ctx, "filter"), Named(ctx, "term")} THEN Refuse(st, n)
  ELSE TermLeaf(Trace(EnsureTerm(st, TermKey(ctx), n), Place(EnsureTerm(st, TermKey(ctx), n), "term", TermKey(ctx)), n),
                Place(EnsureTerm(st, TermKey(ctx), n), "term", TermKey(ctx)), FilterFamily(ctx), Last(ctx)[1], w, n)

-----------------------------------------------------------------------------
(* Prefix lists and static routes.                                         *)

AddPrefix(st, name, w, n) ==
  IF ~(Len(w) = 1 /\ IsNetwork(w)) THEN IF Len(w) = 1 THEN Reject(st, n) ELSE Refuse(st, n)
  ELSE AlsoIn(st, "prefix list", <<Network[w][1], name>>, Network[w][2], n)

SetPrefixList(st, w, n) == IF Len(w) = 5 THEN AddPrefix(st, w[4], <<w[5]>>, n) ELSE Refuse(st, n)
PolicyBlock(st, ctx, b, n) ==
  IF Len(b) = 2 /\ b[1] = "prefix-list" /\ Last(ctx)[1] = "policy-options" THEN st ELSE Refuse(st, n)
PolicyLeaf(st, ctx, w, n) ==
  IF FirstPair(ctx, "prefix-list") = None THEN Refuse(st, n) ELSE AddPrefix(st, FirstPair(ctx, "prefix-list"), w, n)

\* A route has one forwarding target; a line that would change it is refused.
HopThrough(st, i, o, w, n) ==
  CASE BeginsWithDigit(w) -> Reject(st, n)
    [] ~BeginsWithDigit(w) /\ (Get(o, "next_hop") # None \/ Get(o, "out") \notin {None, w}) -> Refuse(st, n)
    [] OTHER -> Put(st, i, "out", w, n)
HopTo(st, i, o, w, n) ==
  CASE ~AddressIn(o.key[1], w) -> Reject(st, n)
    [] AddressIn(o.key[1], w) /\ (Get(o, "out") # None \/ Get(o, "next_hop") \notin {None, Canonical(w)}) ->
         Refuse(st, n)
    [] OTHER -> Put(st, i, "next_hop", Canonical(w), n)
Hop(st, i, o, w, n) ==
  CASE Get(o, "discard") = TRUE -> Refuse(st, n)
    [] Get(o, "discard") # TRUE /\ ~IsAddress(w) -> HopThrough(st, i, o, w, n)
    [] OTHER -> HopTo(st, i, o, w, n)

RouteStatement(st, i, w, n) ==
  CASE Len(w) = 2 /\ w[1] = "next-hop" -> Hop(st, i, st.objects[i], w[2], n)
    [] w \in {<<"discard">>, <<"reject">>} ->
         IF Get(st.objects[i], "next_hop") # None \/ Get(st.objects[i], "out") # None THEN Refuse(st, n)
         ELSE Put(st, i, "discard", TRUE, n)
    [] Len(w) = 2 /\ w[1] = "preference" ->
         PutValid(IsNumber(w[2]) /\ Number[w[2]] <= 255, st, i, "preference", Number[w[2]], n)
    [] OTHER -> Refuse(st, n)

AboutRoute(st, to, w, n) ==
  IF ~IsNetwork(<<to>>) THEN Reject(st, n)
  ELSE RouteStatement(Ensure(st, "route", Network[<<to>>], n), AtKey(st, "route", Network[<<to>>], n), w, n)
SetStaticRoute(st, w, n) == IF Len(w) < 6 THEN Refuse(st, n) ELSE AboutRoute(st, w[5], From(w, 6), n)

RoutingOption(st, w, n) ==
  CASE Len(w) = 2 /\ w[1] = "autonomous-system" -> PutAsn(st, Routing, "local_as", w[2], n)
    [] Len(w) = 2 /\ w[1] = "router-id" -> PutRouterId(st, Routing, w[2], n)
    [] OTHER -> Refuse(st, n)

RoutingBlock(st, ctx, b, n) ==
  CASE b = <<"static">> /\ Last(ctx)[1] = "routing-options" -> st
    [] Len(b) = 2 /\ b[1] = "route" /\ Within(ctx, "static") ->
         IF IsNetwork(<<b[2]>>) THEN Ensure(st, "route", Network[<<b[2]>>], n) ELSE Reject(st, n)
    [] OTHER -> Refuse(st, n)
RouteLeaf(st, ctx, w, n) ==
  CASE FirstPair(ctx, "route") # None -> AboutRoute(st, FirstPair(ctx, "route"), w, n)
    [] FirstPair(ctx, "route") = None /\ Len(w) > 2 /\ w[1] = "route" -> AboutRoute(st, w[2], From(w, 3), n)
    [] OTHER -> Refuse(st, n)

-----------------------------------------------------------------------------
(* BGP and OSPF.                                                           *)

Seen(st, n) == Trace([st EXCEPT !.objects[Routing].settings = ("bgp" :> <<TRUE, {}>>) @@ @], Routing, n)

SourceAddress(st, i, w, n) == PutValid(IsAddress(w), st, i, "update_source", Canonical(w), n)

GroupStatement(st, i, w, n) ==
  CASE Len(w) = 2 /\ w[1] = "type" ->
         IF w[2] \in {"internal", "external"} THEN Put(st, i, "session", w[2], n) ELSE Refuse(st, n)
    [] Len(w) = 2 /\ w[1] = "peer-as" -> PutAsn(st, i, "remote_as", w[2], n)
    [] Len(w) = 2 /\ w[1] = "local-address" -> SourceAddress(st, i, w[2], n)
    [] w = <<"shutdown">> -> Put(st, i, "enabled", FALSE, n)
    [] OTHER -> Refuse(st, n)

NeighborStatement(st, i, w, n) ==
  CASE w = <<>> -> st
    [] Len(w) = 2 /\ w[1] = "peer-as" -> PutAsn(st, i, "remote_as", w[2], n)
    [] Len(w) > 1 /\ w[1] = "description" -> Put(st, i, "description", Tail(w), n)
    [] Len(w) = 2 /\ w[1] = "local-address" -> SourceAddress(st, i, w[2], n)
    [] w = <<"shutdown">> -> Put(st, i, "enabled", FALSE, n)
    [] OTHER -> Refuse(st, n)

AboutNeighbor(st, group, address, w, n) ==
  IF ~IsAddress(address) THEN Reject(st, n)
  ELSE NeighborStatement(
         Trace(Ensure(st, "neighbor", <<group, Canonical(address)>>, n),
               AtKey(st, "neighbor", <<group, Canonical(address)>>, n), n),
         AtKey(st, "neighbor", <<group, Canonical(address)>>, n), w, n)
AboutGroup(st, group, w, n) ==
  IF w[1] = "neighbor" /\ Len(w) > 1 THEN AboutNeighbor(st, group, w[2], From(w, 3), n)
  ELSE GroupStatement(st, Place(st, "group", <<group>>), w, n)
EnsureGroup(st, group, n) == Ensure(st, "group", <<group>>, n)

SetBgp(st, w, n) ==
  IF Len(w) < 6 \/ w[4] # "group" THEN Refuse(st, n)
  ELSE AboutGroup(EnsureGroup(Seen(st, n), w[5], n), w[5], From(w, 6), n)

\* A line that is refused is no line about BGP: it is reported already.
TraceAccepted(st, was, n) == IF st.unparsed = was.unparsed THEN Trace(st, Routing, n) ELSE st
BgpBlock(st, ctx, b, n) ==
  CASE Len(b) = 2 /\ b[1] = "group" /\ Pair(ctx, "group") = None -> Trace(EnsureGroup(st, b[2], n), Routing, n)
    [] Len(b) = 2 /\ b[1] = "neighbor" /\ Pair(ctx, "group") # None ->
         TraceAccepted(AboutNeighbor(EnsureGroup(st, Pair(ctx, "group"), n), Pair(ctx, "group"), b[2], <<>>, n), st, n)
    [] OTHER -> Refuse(st, n)

BgpLeaf(st, ctx, w, n) ==
  CASE Pair(ctx, "group") = None -> Refuse(st, n)
    [] Pair(ctx, "group") # None /\ Pair(ctx, "neighbor") # None ->
         TraceAccepted(AboutNeighbor(EnsureGroup(st, Pair(ctx, "group"), n), Pair(ctx, "group"),
                                     Pair(ctx, "neighbor"), w, n), st, n)
    [] OTHER -> TraceAccepted(AboutGroup(EnsureGroup(st, Pair(ctx, "group"), n), Pair(ctx, "group"), w, n), st, n)

\* Only the first line that speaks of OSPF is remembered.
RememberOspf(st, n) ==
  IF Get(st.objects[Routing], "process_id") = None THEN Put(st, Routing, "process_id", "default", n) ELSE st

OspfStatement(st, i, w, n) ==
  CASE w = <<>> -> st
    [] w = <<"passive">> -> Put(st, i, "passive", TRUE, n)
    [] Len(w) = 2 /\ w[1] = "metric" ->
         PutValid(IsNumber(w[2]) /\ Number[w[2]] \in 1 .. 65535, st, i, "cost", Number[w[2]], n)
    [] OTHER -> Refuse(st, n)

\* An interface belongs to one area.
OspfInterface(st, name, n) == st.objects[Place(st, "ospf interface", <<name>>)]
AboutOspfInterface(st, name, area, w, n) ==
  CASE area \notin DOMAIN Area -> Reject(st, n)
    [] area \in DOMAIN Area /\ Place(st, "ospf interface", <<name>>) = 0 ->
         OspfStatement(Put(Create(st, "ospf interface", <<name>>, n), Len(st.objects) + 1, "area", Area[area], n),
                       Len(st.objects) + 1, w, n)
    [] OTHER ->
         IF Get(OspfInterface(st, name, n), "area") # Area[area] THEN Reject(st, n)
         ELSE OspfStatement(st, Place(st, "ospf interface", <<name>>), w, n)

SetOspf(st, w, n) ==
  IF Len(w) < 7 \/ w[4] # "area" \/ w[6] # "interface" THEN Refuse(st, n)
  ELSE AboutOspfInterface(RememberOspf(st, n), w[7], w[5], From(w, 8), n)

RememberAccepted(st, was, n) == IF st.unparsed = was.unparsed THEN RememberOspf(st, n) ELSE st
OspfBlock(st, ctx, b, n) ==
  CASE Len(b) = 2 /\ b[1] = "area" /\ Pair(ctx, "area") = None ->
         IF b[2] \in DOMAIN Area THEN RememberOspf(st, n) ELSE Reject(st, n)
    [] Len(b) = 2 /\ b[1] = "interface" /\ Pair(ctx, "area") # None /\ Pair(ctx, "interface") = None ->
         RememberAccepted(AboutOspfInterface(st, b[2], Pair(ctx, "area"), <<>>, n), st, n)
    [] OTHER -> Refuse(st, n)

OspfLeaf(st, ctx, w, n) ==
  CASE Pair(ctx, "area") # None /\ Pair(ctx, "interface") # None ->
         RememberAccepted(AboutOspfInterface(st, Pair(ctx, "interface"), Pair(ctx, "area"), w, n), st, n)
    [] Pair(ctx, "area") # None /\ Pair(ctx, "interface") = None /\ Len(w) > 1 /\ w[1] = "interface" ->
         RememberAccepted(AboutOspfInterface(st, w[2], Pair(ctx, "area"), From(w, 3), n), st, n)
    [] OTHER -> Refuse(st, n)

-----------------------------------------------------------------------------
(* The system and its accounts.                                            *)

Block(ctx, i) == IF i <= Len(ctx) THEN ctx[i] ELSE <<>>
InLogin(ctx) == Block(ctx, 1) = <<"system">> /\ Block(ctx, 2) = <<"login">>
IsUser(b) == Len(b) = 2 /\ b[1] = "user"

LoginBlock(st, ctx, b, n) ==
  CASE Len(ctx) = 2 /\ IsUser(b) -> IF ValidName(b[2]) THEN EnsureUser(st, b[2], n) ELSE Refuse(st, n)
    [] Len(ctx) = 3 /\ b = <<"authentication">> ->
         IF IsUser(ctx[3]) /\ ValidName(ctx[3][2]) THEN st ELSE Refuse(st, n)
    [] OTHER -> Refuse(st, n)

LoginLeaf(st, ctx, w, n) ==
  CASE Len(ctx) = 3 /\ IsUser(ctx[3]) -> JunosUser(st, ctx[3][2], w, n)
    [] Len(ctx) = 4 /\ IsUser(ctx[3]) /\ ctx[4] = <<"authentication">> ->
         JunosUser(st, ctx[3][2], <<"authentication">> \o w, n)
    [] OTHER -> Refuse(st, n)

\* A version that is not known erases the one that is, and is reported.
SetSshVersion(st, w, n) ==
  IF SshVersion(w) = None
  THEN Refuse([st EXCEPT !.objects[1].settings =
                 ("ssh_version" :> <<None, Lines(st.objects[1], "ssh_version")>>) @@ @], n)
  ELSE System(st, "ssh_version", SshVersion(w), n)

Orders(words) == \E k \in DOMAIN words : words[k] \in {"radius", "tacplus"}

SafeBlocks ==
  {"system", "services", "ssh", "ntp", "syslog", "snmp", "v3", "usm", "local-engine", "community", "host",
   "radius-server", "tacplus-server"}

SystemBlock(st, ctx, b, n) ==
  CASE b[1] \notin SafeBlocks -> Refuse(st, n)
    [] b[1] = "ssh" /\ Within(ctx, "services") -> System(st, "ssh", TRUE, n)
    [] b[1] \in {"radius-server", "tacplus-server"} /\ Within(ctx, "system") -> System(st, "aaa", TRUE, n)
    [] b[1] = "host" /\ Within(ctx, "syslog") /\ Len(b) > 1 -> Listed(st, "syslog", b[2], n)
    [] b[1] = "v3" /\ Within(ctx, "snmp") -> Versions(st, {"v3"}, n)
    [] b[1] = "community" /\ Within(ctx, "snmp") -> Versions(st, {"v1", "v2c"}, n)
    [] OTHER -> st

SystemLeaf(st, ctx, w, n) ==
  CASE w[1] = "protocol-version" /\ Within(ctx, "ssh") /\ Len(w) = 2 -> SetSshVersion(st, w[2], n)
    [] w[1] = "host-name" /\ Within(ctx, "system") /\ Len(w) > 1 -> System(st, "hostname", w[2], n)
    [] w = <<"ssh">> /\ Within(ctx, "services") -> System(st, "ssh", TRUE, n)
    [] w = <<"telnet">> /\ Within(ctx, "services") -> System(st, "telnet", TRUE, n)
    [] w[1] = "authentication-order" /\ Within(ctx, "system") -> System(st, "aaa", Orders(Tail(w)), n)
    [] w[1] = "server" /\ Within(ctx, "ntp") /\ Len(w) > 1 -> Listed(st, "ntp", w[2], n)
    [] w[1] \in {"authorization", "description"} /\ Within(ctx, "community") -> st
    [] w[1] \in {"any", "interactive-commands"} /\ Within(ctx, "host") -> st
    [] OTHER -> Refuse(st, n)

SetSsh(st, w, n) ==
  IF Len(w) = 6 /\ w[5] = "protocol-version" THEN SetSshVersion(System(st, "ssh", TRUE, n), w[6], n)
  ELSE System(st, "ssh", TRUE, n)

ConsumeSet(st, w, n) ==
  CASE Starts(<<"set", "system", "login", "user">>, w) ->
         IF Len(w) > 5 THEN JunosUser(st, w[5], From(w, 6), n) ELSE Refuse(st, n)
    [] Starts(<<"set", "system", "host-name">>, w) /\ Len(w) > 3 -> System(st, "hostname", w[4], n)
    [] Starts(<<"set", "system", "services", "ssh">>, w) -> SetSsh(st, w, n)
    [] Starts(<<"set", "system", "services", "telnet">>, w) -> System(st, "telnet", TRUE, n)
    [] Starts(<<"set", "system", "authentication-order">>, w) -> System(st, "aaa", Orders(From(w, 4)), n)
    [] Starts(<<"set", "system", "radius-server">>, w) \/ Starts(<<"set", "system", "tacplus-server">>, w) ->
         System(st, "aaa", TRUE, n)
    [] Starts(<<"set", "system", "ntp", "server">>, w) /\ Len(w) > 4 -> Listed(st, "ntp", w[5], n)
    [] Starts(<<"set", "system", "syslog", "host">>, w) /\ Len(w) > 4 -> Listed(st, "syslog", w[5], n)
    [] Starts(<<"set", "snmp", "v3">>, w) -> Versions(st, {"v3"}, n)
    [] Starts(<<"set", "snmp", "community">>, w) -> Versions(st, {"v1", "v2c"}, n)
    [] Starts(<<"set", "interfaces">>, w) -> SetInterface(st, w, n)
    [] Starts(<<"set", "vlans">>, w) -> SetVlan(st, w, n)
    [] Starts(<<"set", "firewall">>, w) -> SetFirewall(st, w, n)
    [] Starts(<<"set", "policy-options", "prefix-list">>, w) -> SetPrefixList(st, w, n)
    [] Starts(<<"set", "routing-options", "static", "route">>, w) -> SetStaticRoute(st, w, n)
    [] Starts(<<"set", "routing-options">>, w) /\ ~Starts(<<"set", "routing-options", "static", "route">>, w) ->
         IF Len(w) = 4 THEN RoutingOption(st, From(w, 3), n) ELSE Refuse(st, n)
    [] Starts(<<"set", "protocols", "bgp">>, w) -> SetBgp(st, w, n)
    [] Starts(<<"set", "protocols", "ospf">>, w) -> SetOspf(st, w, n)
    [] OTHER -> Refuse(st, n)

-----------------------------------------------------------------------------
(* Blocks and leaves go to the first part of the configuration that one of   *)
(* the open blocks names.                                                  *)

Parts == {"firewall", "policy-options", "routing-options", "protocols", "interfaces", "vlans"}

ProtocolBlock(st, ctx, b, n) ==
  CASE b[1] = "bgp" /\ Last(ctx)[1] = "protocols" -> Seen(st, n)
    [] Within(ctx, "bgp") /\ ~(b[1] = "bgp" /\ Last(ctx)[1] = "protocols") -> BgpBlock(st, ctx, b, n)
    [] ~Within(ctx, "bgp") /\ b[1] = "ospf" /\ Last(ctx)[1] = "protocols" -> RememberOspf(st, n)
    [] ~Within(ctx, "bgp") /\ Within(ctx, "ospf") /\ ~(b[1] = "ospf" /\ Last(ctx)[1] = "protocols") ->
         OspfBlock(st, ctx, b, n)
    [] OTHER -> Refuse(st, n)

ConsumeBlock(st, ctx, b, n) ==
  IF ctx = << <<"system">> >> /\ b = <<"login">> THEN st
  ELSE IF InLogin(ctx) THEN LoginBlock(st, ctx, b, n)
  ELSE IF ctx = <<>> /\ b[1] \in Parts THEN st
  ELSE IF Within(ctx, "firewall") THEN FirewallBlock(st, ctx, b, n)
  ELSE IF Within(ctx, "policy-options") THEN PolicyBlock(st, ctx, b, n)
  ELSE IF Within(ctx, "routing-options") THEN RoutingBlock(st, ctx, b, n)
  ELSE IF Within(ctx, "protocols") THEN ProtocolBlock(st, ctx, b, n)
  ELSE IF Within(ctx, "interfaces") THEN InterfaceBlock(st, ctx, b, n)
  ELSE IF Within(ctx, "vlans") THEN VlanBlock(st, ctx, b, n)
  ELSE SystemBlock(st, ctx, b, n)

ConsumeLeaf(st, ctx, w, n) ==
  IF w = <<>> THEN st
  ELSE IF InLogin(ctx) THEN LoginLeaf(st, ctx, w, n)
  ELSE IF Within(ctx, "interfaces") THEN InterfaceLeaf(st, Below(ctx, "interfaces"), w, n)
  ELSE IF Within(ctx, "vlans") THEN VlanLeaf(st, Below(ctx, "vlans"), w, n)
  ELSE IF Within(ctx, "firewall") THEN FirewallLeaf(st, ctx, w, n)
  ELSE IF Within(ctx, "policy-options") THEN PolicyLeaf(st, ctx, w, n)
  ELSE IF Within(ctx, "routing-options") THEN
    (IF Within(ctx, "static") THEN RouteLeaf(st, ctx, w, n) ELSE RoutingOption(st, w, n))
  ELSE IF Within(ctx, "bgp") THEN BgpLeaf(st, ctx, w, n)
  ELSE IF Within(ctx, "ospf") THEN OspfLeaf(st, ctx, w, n)
  ELSE SystemLeaf(st, ctx, w, n)

Step(read, line, n) ==
  CASE line.form = "comment" -> read
    [] line.form = "set" -> [read EXCEPT !.state = ConsumeSet(@, line.words, n)]
    [] line.form = "close" -> [read EXCEPT !.context = IF @ = <<>> THEN @ ELSE Front(@)]
    [] line.form = "open" -> [state |-> ConsumeBlock(read.state, read.context, line.words, n),
                              context |-> Append(read.context, line.words)]
    [] line.form = "leaf" -> [read EXCEPT !.state = ConsumeLeaf(@, read.context, line.words, n)]

-----------------------------------------------------------------------------
(* The end of the text.                                                    *)

OwnOnly(o, base, field) == IF field \in DOMAIN o.settings THEN o.settings[field] ELSE <<None, {}>>

\* A unit takes from its base what it does not say itself.
Own(o, base, field) ==
  IF Get(o, field) # None \/ base = None \/ field \notin DOMAIN base.settings THEN
    (IF field \in DOMAIN o.settings THEN o.settings[field] ELSE <<None, {}>>)
  ELSE base.settings[field]
Chosen(o) == Get(o, "members") # None \/ Get(o, "all") # None
Selecting(o, base) == IF base = None \/ Chosen(o) THEN o ELSE base

VlanIds(objects) ==
  {<<objects[i].key[1], Get(objects[i], "vlan_id")>> :
     i \in {k \in DOMAIN objects : objects[k].kind = "vlan" /\ Get(objects[k], "vlan_id") # None}}
IdOf(member, ids) == IF IsNumber(member) THEN {Number[member]} ELSE {v[2] : v \in {x \in ids : x[1] = <<member>>}}
MembersOf(o) == IF Get(o, "members") = None THEN {} ELSE ToSet(Get(o, "members"))

\* The one VLAN of an access port, or the selection of any other: identifiers, names, all.
Vlans(o, mode, ids) ==
  IF ~Chosen(o) THEN None
  ELSE <<IF mode = "access" /\ Cardinality(MembersOf(o)) = 1 THEN "access" ELSE "allowed",
         UNION {IdOf(m, ids) : m \in MembersOf(o)}, {m \in MembersOf(o) : ~IsNumber(m)},
         Get(o, "all") = TRUE /\ ~(mode = "access" /\ Cardinality(MembersOf(o)) = 1)>>

BuildInterface(o, base, ids) ==
  [o EXCEPT !.settings =
     [f \in {"description", "enabled", "mode", "native"} |-> Own(o, base, f)]
       @@ ("vlans" :> <<Vlans(Selecting(o, base), Own(o, base, "mode")[1], ids),
                       Lines(Selecting(o, base), "members") \cup Lines(Selecting(o, base), "all")>>)]

BaseOf(objects, o) ==
  IF Len(o.key) = 1 THEN None
  ELSE IF \E k \in DOMAIN objects : objects[k].kind = "interface" /\ objects[k].key = <<o.key[1]>>
       THEN objects[SelectInSeq(objects, LAMBDA x : x.kind = "interface" /\ x.key = <<o.key[1]>>)]
       ELSE None

\* A base without addresses is only what its units take from it.
OnlyBase(objects, o) ==
  /\ o.kind = "interface" /\ Len(o.key) = 1 /\ o.items = <<>>
  /\ \E k \in DOMAIN objects : objects[k].kind = "interface" /\ Len(objects[k].key) = 2 /\ objects[k].key[1] = o.key[1]

Interfaces(st) ==
  [st EXCEPT !.objects =
     SelectSeq([i \in DOMAIN @ |-> IF @[i].kind = "interface" THEN BuildInterface(@[i], BaseOf(@, @[i]), VlanIds(@)) ELSE @[i]],
               LAMBDA o : ~OnlyBase(st.objects, o))]

\* What is given up is taken filter by filter, or group by group.
Under(objects, o) ==
  SelectInSeq(objects, LAMBDA p : p.kind = (IF o.kind = "term" THEN "filter" ELSE "group") /\ p.key = Front(o.key))
Before(objects, i, j) ==
  \/ Under(objects, objects[i]) < Under(objects, objects[j])
  \/ Under(objects, objects[i]) = Under(objects, objects[j]) /\ i < j
SourcesOf(objects, bad) ==
  LET order == SetToSortSeq(bad, LAMBDA i, j : Before(objects, i, j))
  IN FlattenSeq([k \in DOMAIN order |-> objects[order[k]].source])
Drop(st, bad) ==
  IF bad = {} THEN st
  ELSE GiveUp(Doubt([st EXCEPT !.objects = FlattenSeq([i \in DOMAIN @ |-> IF i \in bad THEN <<>> ELSE <<@[i]>>])]),
              SourcesOf(st.objects, bad))
Forget(st, kinds) == [st EXCEPT !.objects = SelectSeq(@, LAMBDA o : o.kind \notin kinds)]

\* Filters: a term without an action is given up.
BadTerm(o) == o.kind = "term" /\ Get(o, "action") = None
Acls(st) == Drop(st, {i \in DOMAIN st.objects : BadTerm(st.objects[i])})

\* A route without a target is left out with a warning, and its lines are not given up.
NoTarget(o) ==
  o.kind = "route" /\ Get(o, "next_hop") = None /\ Get(o, "out") = None /\ Get(o, "discard") = None
StaticRoutes(st) ==
  IF \A i \in DOMAIN st.objects : ~NoTarget(st.objects[i]) THEN st
  ELSE Doubt([st EXCEPT !.objects = SelectSeq(@, LAMBDA o : ~NoTarget(o))])

\* BGP: nothing of it is kept when it was never opened, and everything is given up without a
\* local AS.  A neighbour takes from its group, and one without a remote AS, or that an
\* earlier group has, is given up.
GroupOf(objects, o) == objects[SelectInSeq(objects, LAMBDA g : g.kind = "group" /\ g.key = <<o.key[1]>>)]
RemoteAs(objects, o) ==
  IF Get(o, "remote_as") # None THEN Get(o, "remote_as")
  ELSE IF Get(GroupOf(objects, o), "remote_as") # None THEN Get(GroupOf(objects, o), "remote_as")
  ELSE IF Get(GroupOf(objects, o), "session") = "internal" THEN Get(objects[Routing], "local_as") ELSE None

Taken(objects, i) ==
  \E k \in DOMAIN objects :
    /\ objects[k].kind = "neighbor" /\ objects[k].key[2] = objects[i].key[2]
    /\ Before(objects, k, i) /\ RemoteAs(objects, objects[k]) # None
BadNeighbors(objects) ==
  {i \in DOMAIN objects :
     objects[i].kind = "neighbor" /\ (RemoteAs(objects, objects[i]) = None \/ Taken(objects, i))}

Session(objects, o) ==
  IF Get(GroupOf(objects, o), "session") # None THEN Get(GroupOf(objects, o), "session")
  ELSE IF RemoteAs(objects, o) = Get(objects[Routing], "local_as") THEN "internal" ELSE "external"
BuildNeighbor(objects, o) ==
  [o EXCEPT !.settings =
     ("remote_as" :> <<RemoteAs(objects, o), Own(o, GroupOf(objects, o), "remote_as")[2]>>)
       @@ ("session" :> <<Session(objects, o), Lines(GroupOf(objects, o), "session")>>)
       @@ ("group" :> <<o.key[1], GroupOf(objects, o).at>>)
       @@ [f \in {"update_source", "enabled"} |-> Own(o, GroupOf(objects, o), f)] @@ @]

Neighbors(st, was) ==
  [st EXCEPT !.objects =
     [i \in DOMAIN @ |-> IF @[i].kind = "neighbor" THEN BuildNeighbor(was, @[i]) ELSE @[i]]]

\* BGP and OSPF take what the device says of both.
Process(routing, kind, fields) ==
  [Object(kind, <<>>, 0) EXCEPT !.at = {},
     !.settings = [f \in DOMAIN routing.settings \cap fields |-> routing.settings[f]]]
WithProcess(st, kind, fields) ==
  [st EXCEPT !.objects = Append(@, Process(@[Routing], kind, fields))]

Bgp(st) ==
  CASE Get(st.objects[Routing], "bgp") = None -> Forget(st, {"group", "neighbor"})
    [] Get(st.objects[Routing], "bgp") # None /\ Get(st.objects[Routing], "local_as") = None ->
         GiveUp(Doubt(Forget(st, {"group", "neighbor"})), st.objects[Routing].source)
    [] OTHER -> WithProcess(Forget(Neighbors(Drop(st, BadNeighbors(st.objects)), st.objects), {"group"}),
                            "bgp", {"local_as", "router_id"})
Ospf(st) ==
  IF Get(st.objects[Routing], "process_id") = None THEN Forget(st, {"ospf interface"})
  ELSE WithProcess(st, "ospf", {"process_id", "router_id"})

Hosted(st) == IF Get(st.objects[1], "hostname") = None THEN Doubt(st) ELSE st
Build(st) == Forget(Interfaces(Hosted(Ospf(Bgp(StaticRoutes(Acls(st)))))), {"routing"})

\* A line that is a brace only: the first word of its block is looked for and there is none,
\* an error that the parser does not catch.
Headless == [form |-> "open", words |-> <<>>]
Raises(text) == Contains(text, Headless)

Parse(text) ==
  IF Raises(text) THEN None
  ELSE Build(FoldLeftDomain(LAMBDA read, n : Step(read, text[n], n), [state |-> Blank, context |-> <<>>], text).state)

-----------------------------------------------------------------------------
\* What a text says, wherever it says it.
Said(o) == [kind |-> o.kind, key |-> o.key, settings |-> [f \in DOMAIN o.settings |-> o.settings[f][1]],
            items |-> [k \in DOMAIN o.items |-> o.items[k][1]]]
Facts(answer) == [k \in DOMAIN answer.objects |-> Said(answer.objects[k])]

\* Statements are the lines that are no blocks; the k-th of one style is the k-th of another.
Statements(text) == {n \in DOMAIN text : text[n].form \in {"set", "leaf"}}
Ordinal(text, n) == Cardinality({m \in Statements(text) : m <= n})
Refusals(text, answer) == {Ordinal(text, n) : n \in ToSet(answer.unparsed) \cap Statements(text)}

\* Only a block has a say in what stands under these words, and only a block takes a match
\* that is one word.
Peculiar(text) ==
  {Ordinal(text, n) : n \in {m \in Statements(text) :
     /\ text[m].form = "set"
     /\ \/ ToSet(text[m].words) \cap {"radius-server", "tacplus-server", "v3"} # {}
        \/ text[m].words[Len(text[m].words) - 1] = "from"}}

\* What a block adds when nothing in it is understood: the object that it opens.
Opened(text, o) == \A n \in o.at : text[n].form = "open"
SameFacts(a, text, b) ==
  LET said == Facts(a)
      kept == SelectSeq(b.objects, LAMBDA o : Opened(text, o) => Contains(said, Said(o)))
  IN said = [k \in DOMAIN kept |-> Said(kept[k])]

\* The first text is in the "set" style: every other style of it refuses the same statements,
\* and says the same if it does, but for objects that a block opens for nothing.
StylesAgree(texts, answers) ==
  \A k \in DOMAIN texts :
    Raises(texts[1]) \/ Raises(texts[k]) \/
      /\ Refusals(texts[1], answers[1]) \ Peculiar(texts[1]) = Refusals(texts[k], answers[k]) \ Peculiar(texts[1])
      /\ Refusals(texts[1], answers[1]) = Refusals(texts[k], answers[k]) =>
           SameFacts(answers[1], texts[k], answers[k])

-----------------------------------------------------------------------------
(* The lines that may leave nothing behind.  A line says its words in the    *)
(* blocks that are open.                                                   *)

\* The lines that open the blocks around line n.
Around(text, n) ==
  FoldLeftDomain(LAMBDA open, m : CASE text[m].form = "open" -> Append(open, m)
                                    [] text[m].form = "close" /\ open # <<>> -> Front(open)
                                    [] OTHER -> open,
                 <<>>, SubSeq(text, 1, n - 1))
Full(text, n) ==
  IF text[n].form = "set" THEN Tail(text[n].words)
  ELSE FlattenSeq([k \in DOMAIN Around(text, n) |-> text[Around(text, n)[k]].words]) \o text[n].words

Has(text, n, words) == ToSet(words) \subseteq ToSet(Full(text, n))
After(text, n, word) == From(Full(text, n), SelectInSeq(Full(text, n), LAMBDA w : w = word) + 1)
LastButOne(text, n) == IF Len(Full(text, n)) < 2 THEN None ELSE Full(text, n)[Len(Full(text, n)) - 1]
Understood(text, answer) == DOMAIN text \ ToSet(answer.unparsed)
Stands(answer, n) == \E i \in DOMAIN answer.objects : n \in Provenance(answer.objects[i])

\* An authorization of a community and the messages of a syslog host are not kept.
SaysNothing(text, n) ==
  text[n].form = "leaf" /\ \E b \in {<<"community", "authorization">>, <<"host", "any">>} :
    Has(text, n, b) /\ text[n].words[1] = b[2]

\* A setting of a base is kept by its units that do not say it themselves.
BaseField == ("description" :> "description") @@ ("disable" :> "enabled")
OfBase(text, n, w) == Has(text, n, <<"interfaces", w>>) /\ ~Has(text, n, <<"unit">>)
Overridden(text, answer, n) ==
  \E w \in DOMAIN BaseField :
    /\ OfBase(text, n, w)
    /\ \A o \in ToSet(answer.objects) :
         o.kind = "interface" /\ IsPrefix(o.key[1], After(text, n, "interfaces")) =>
           \E m \in Lines(o, BaseField[w]) : Has(text, m, <<"unit">>)

\* A preference of a route without a target; a warning is left.
NoRoute(text, answer, n) ==
  /\ answer.warned /\ LastButOne(text, n) = "preference"
  /\ \A o \in ToSet(answer.objects) : o.kind = "route" => o.key # Network[<<After(text, n, "route")[1]>>]

\* A name that an earlier line has brought, and a word that a later line replaces.
NamedBefore(text, answer, n) ==
  /\ LastButOne(text, n) \in {"neighbor", "interface"}
  /\ \E k \in 1 .. n - 1 : Stands(answer, k) /\ IsPrefix(Full(text, n), Full(text, k))
Replaced(text, answer, n) ==
  /\ LastButOne(text, n) \in {"native-vlan-id", "class", "uid", "encrypted-password", "ssh-rsa"}
  /\ \E k \in n + 1 .. Len(text) : Stands(answer, k) /\ Front(Full(text, k)) = Front(Full(text, n))

\* What the device says of BGP and OSPF, where no line about them is understood.
SpokenOf(text, answer, protocol) ==
  \E k \in Understood(text, answer) : Has(text, k, <<"protocols", protocol>>)
NoProcess(text, answer, n) ==
  \/ LastButOne(text, n) = "autonomous-system" /\ ~SpokenOf(text, answer, "bgp")
  \/ LastButOne(text, n) = "router-id" /\ ~SpokenOf(text, answer, "bgp") /\ ~SpokenOf(text, answer, "ospf")

\* What a group says is kept by its neighbours that do not say it themselves.
GroupField ==
  ("type" :> "session") @@ ("peer-as" :> "remote_as") @@ ("local-address" :> "update_source") @@ ("shutdown" :> "enabled")
NobodyTakes(text, answer, n) ==
  \E w \in DOMAIN GroupField :
    /\ Has(text, n, <<"bgp", "group", w>>) /\ ~Has(text, n, <<"neighbor">>)
    /\ \A o \in ToSet(answer.objects) :
         o.kind = "neighbor" /\ o.key[1] = After(text, n, "group")[1] =>
           \E m \in Lines(o, GroupField[w]) : Has(text, m, <<"neighbor">>)

\* Lines in a "bgp" block that was refused itself.
InRefused(text, answer, n) ==
  \E k \in ToSet(Around(text, n)) : k \in ToSet(answer.unparsed) /\ text[k].words[1] = "bgp"

\* A block is kept by what it opens, and must be accounted for when it says a value.
Frame(line) ==
  line.form \in {"close", "comment"} \/ (line.form = "open" /\ line.words[1] \notin {"address", "neighbor"})

Silent(text, answer, n) ==
  \/ Frame(text[n])
  \/ SaysNothing(text, n)
  \/ Overridden(text, answer, n)
  \/ NoRoute(text, answer, n)
  \/ NamedBefore(text, answer, n)
  \/ Replaced(text, answer, n)
  \/ NoProcess(text, answer, n)
  \/ NobodyTakes(text, answer, n)
  \/ InRefused(text, answer, n)

LinesAccounted(text, answer) ==
  /\ IsInjective(answer.unparsed)
  /\ \A n \in ToSet(answer.unparsed) : n \in DOMAIN text /\ text[n].form \notin {"close", "comment"}
  /\ \A n \in DOMAIN text : n \in ToSet(answer.unparsed) \/ Stands(answer, n) \/ Silent(text, answer, n)

\* Every line is told about, and only a brace that opens nothing takes the answer away.
EveryLineAccounted(texts, answers) ==
  \A k \in DOMAIN texts :
    IF answers[k] = None THEN \E n \in DOMAIN texts[k] : texts[k][n] = Headless
    ELSE LinesAccounted(texts[k], answers[k])

=============================================================================
