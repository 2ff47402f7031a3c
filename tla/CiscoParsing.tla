---------------------------- MODULE CiscoParsing ----------------------------
(***************************************************************************)
(* Reading a Cisco IOS configuration (parsers/cisco_ios).  The lines are    *)
(* read once, in order.  A header opens an object, the indented lines after *)
(* it are about that object until a line that is not indented, a comment,  *)
(* another header or "exit", and everything else is about the device.      *)
(*                                                                         *)
(* `current` stands for the five current_ variables of the parser, of which *)
(* at most one is ever set: the object that indented lines are about.      *)
(***************************************************************************)
EXTENDS ConfigText

CONSTANTS
  Wildcard,     \* the mask of every wildcard
  Contiguous,   \* the wildcards whose ones are the low-order ones
  Universal,    \* the one of these that matches every address
  PrefixLength, \* the length of every network's prefix, by normal form
  Padded,       \* the numbers that are written with leading zeros
  Selection,    \* the ranges <<first, last>> of every list of VLANs, by its words
  Every         \* all VLANs

-----------------------------------------------------------------------------
(* Rows of access lists, word by word.  An address is <<it, the next word>>. *)

AclAddress(w, i, family) ==
  CASE i > Len(w) -> None
    [] i <= Len(w) /\ w[i] = "any" -> <<"any", i + 1>>
    [] i < Len(w) /\ w[i] = "host" ->
         IF AddressIn(family, w[i + 1]) THEN <<Network[<<w[i + 1]>>][2], i + 2>> ELSE None
    [] i <= Len(w) /\ w[i] \notin {"any", "host"} /\ IsNetwork(<<w[i]>>) /\ ~IsAddress(w[i]) ->
         IF InFamily(family, <<w[i]>>) THEN <<Network[<<w[i]>>][2], i + 1>> ELSE None
    [] i < Len(w) /\ family = "ipv4" /\ w[i + 1] \in DOMAIN Wildcard
         /\ IsNetwork(<<w[i], Wildcard[w[i + 1]]>>) ->
         <<Network[<<w[i], Wildcard[w[i + 1]]>>][2], i + 2>>
    [] OTHER -> None

Operands == [eq |-> 1, neq |-> 1, lt |-> 1, gt |-> 1, range |-> 2]
AclPorts(w, i) ==
  IF i <= Len(w) /\ w[i] \in DOMAIN Operands /\ i + Operands[w[i]] <= Len(w)
  THEN <<SubSeq(w, i, i + Operands[w[i]]), i + Operands[w[i]] + 1>>
  ELSE <<<<>>, i>>

StandardRow(sequence, action, from, w) ==
  IF from = None THEN None
  ELSE [sequence |-> sequence, action |-> action, protocol |-> None, from |-> from[1],
        fromPorts |-> <<>>, to |-> None, toPorts |-> <<>>, options |-> From(w, from[2])]

Destination(row, ports, to, w, family) ==
  IF to = None THEN None
  ELSE [row EXCEPT !.fromPorts = ports, !.to = to[1], !.toPorts = AclPorts(w, to[2])[1],
                   !.options = From(w, AclPorts(w, to[2])[2])]

ExtendedRow(row, from, w, family) ==
  IF from = None THEN None
  ELSE Destination([row EXCEPT !.from = from[1]], AclPorts(w, from[2])[1],
                   AclAddress(w, AclPorts(w, from[2])[2], family), w, family)

\* w follows the sequence number and starts with the action.
AclRow(acl, sequence, w) ==
  CASE w = <<>> \/ w[1] \notin {"permit", "deny"} -> None
    [] Get(acl, "kind") = "standard" ->
         StandardRow(sequence, w[1], AclAddress(w, 2, acl.key[1]), w)
    [] Len(w) = 1 -> None
    [] OTHER ->
         ExtendedRow([sequence |-> sequence, action |-> w[1], protocol |-> w[2], from |-> None,
                      fromPorts |-> <<>>, to |-> None, toPorts |-> <<>>, options |-> <<>>],
                     AclAddress(w, 3, acl.key[1]), w, acl.key[1])

ParseAclRule(acl, w) ==
  IF IsNumber(w[1]) THEN AclRow(acl, Number[w[1]], Tail(w)) ELSE AclRow(acl, None, w)

\* access-list <number> <action> <source>: the source, or None.
NumberedSource(w) ==
  CASE w = <<"any">> -> "any"
    [] (Len(w) = 1 /\ w # <<"any">>) \/ (Len(w) = 2 /\ w[1] = "host") ->
         IF AddressIn("ipv4", Last(w)) THEN Network[<<Last(w)>>][2] ELSE None
    [] Len(w) = 2 /\ w[1] # "host" ->
         IF ~AddressIn("ipv4", w[1]) \/ w[2] \notin Contiguous THEN None
         ELSE IF w[2] = Universal THEN "any" ELSE Network[<<w[1], Wildcard[w[2]]>>][2]
    [] OTHER -> None

NumberedAcl(w, named) ==
  /\ Len(w) > 3 /\ IsNumber(w[2]) /\ w[3] \in {"permit", "deny"}
  /\ w[2] \notin Padded /\ Number[w[2]] \in 1 .. 99 \cup 1300 .. 1999
  /\ Number[w[2]] \notin named
  /\ NumberedSource(From(w, 4)) # None

-----------------------------------------------------------------------------
(* The commands of an interface, a BGP process and an OSPF process.         *)

VlanSelection(w) ==
  CASE w = <<"all">> -> Every
    [] w = <<"none">> -> {}
    [] w \in DOMAIN Selection ->
         IF \A i \in DOMAIN Selection[w] :
              1 <= Selection[w][i][1] /\ Selection[w][i][1] <= Selection[w][i][2] /\ Selection[w][i][2] <= 4094
         THEN UNION {Selection[w][i][1] .. Selection[w][i][2] : i \in DOMAIN Selection[w]}
         ELSE None
    [] OTHER -> None

SelectVlans(st, i, field, selected, n) ==
  IF selected = None THEN Reject(st, n) ELSE PutAlone(st, i, field, selected, n)

SingleVlan(w) == IF ValidVlan(w) THEN Number[w] ELSE None

AddInterfaceAddress(st, i, family, ws, n) ==
  IF InFamily(family, ws) THEN Also(st, i, <<family, Interface[ws]>>, n) ELSE Reject(st, n)

InterfaceCommand(st, i, w, n) ==
  CASE Starts(<<"description">>, w) /\ Len(w) > 1 -> Put(st, i, "description", Tail(w), n)
    [] w = <<"shutdown">> -> Put(st, i, "enabled", FALSE, n)
    [] w = <<"no", "shutdown">> -> Put(st, i, "enabled", TRUE, n)
    [] w = <<"no", "ip", "address">> -> st
    [] w \in {<<"switchport", "mode", m>> : m \in {"access", "trunk"}} -> Put(st, i, "mode", w[3], n)
    [] Starts(<<"switchport", "access", "vlan">>, w) /\ Len(w) > 3 ->
         SelectVlans(st, i, "access", SingleVlan(Last(w)), n)
    [] Starts(<<"switchport", "trunk", "native", "vlan">>, w) /\ Len(w) > 4 ->
         SelectVlans(st, i, "native", SingleVlan(Last(w)), n)
    [] Starts(<<"switchport", "trunk", "allowed", "vlan">>, w) /\ Len(w) > 4 ->
         SelectVlans(st, i, "allowed", VlanSelection(From(w, 5)), n)
    [] Starts(<<"ip", "address">>, w) /\ (Len(w) = 4 \/ (Len(w) = 5 /\ w[5] = "secondary")) ->
         AddInterfaceAddress(st, i, "ipv4", <<w[3], w[4]>>, n)
    [] Starts(<<"ipv6", "address">>, w) /\ (Len(w) = 3 \/ (Len(w) = 4 /\ w[4] = "eui-64")) ->
         AddInterfaceAddress(st, i, "ipv6", <<w[3]>>, n)
    [] OTHER -> Refuse(st, n)

\* A neighbour is known from the first line about it, whether or not that is understood.
EnsureNeighbor(st, address, n) ==
  Trace(Ensure(st, "neighbor", <<address>>, n), AtKey(st, "neighbor", <<address>>, n), n)

NeighborAttribute(st, i, w, n) ==
  CASE Len(w) = 2 /\ w[1] = "remote-as" -> PutAsn(st, i, "remote_as", w[2], n)
    [] Len(w) > 1 /\ w[1] = "description" -> Put(st, i, "description", Tail(w), n)
    [] Len(w) = 2 /\ w[1] = "update-source" -> Put(st, i, "update_source", w[2], n)
    [] w = <<"shutdown">> -> Put(st, i, "enabled", FALSE, n)
    [] OTHER -> Refuse(st, n)

Neighbor(st, address, w, n) ==
  IF ~IsAddress(address) THEN Reject(st, n)
  ELSE NeighborAttribute(EnsureNeighbor(st, Canonical(address), n),
                         AtKey(st, "neighbor", <<Canonical(address)>>, n), w, n)

BgpCommand(st, i, w, n) ==
  CASE Starts(<<"bgp", "router-id">>, w) /\ Len(w) = 3 -> PutRouterId(st, i, w[3], n)
    [] Starts(<<"no", "neighbor">>, w) /\ Len(w) = 4 /\ w[4] = "shutdown" ->
         IF ~IsAddress(w[3]) THEN Reject(st, n)
         ELSE Put(EnsureNeighbor(st, Canonical(w[3]), n), AtKey(st, "neighbor", <<Canonical(w[3])>>, n),
                  "enabled", TRUE, n)
    [] Starts(<<"neighbor">>, w) /\ Len(w) > 2 -> Neighbor(st, w[2], From(w, 3), n)
    [] OTHER -> Refuse(st, n)

Passive(st, process, name, passive, n) ==
  PutIn(st, "ospf interface", process \o <<name>>, "passive", passive, n)

OspfCommand(st, i, w, n) ==
  CASE Starts(<<"router-id">>, w) /\ Len(w) = 2 ->
         PutRouterId(st, i, w[2], n)
    [] Starts(<<"network">>, w) /\ Len(w) = 5 /\ w[4] = "area" ->
         IF /\ w[3] \in DOMAIN Wildcard /\ InFamily("ipv4", <<w[2], Wildcard[w[3]]>>)
            /\ w[5] \in DOMAIN Area
         THEN Also(st, i, <<Network[<<w[2], Wildcard[w[3]]>>][2], Area[w[5]]>>, n) ELSE Reject(st, n)
    [] w = <<"passive-interface", "default">> -> Put(st, i, "passive_default", TRUE, n)
    [] w = <<"no", "passive-interface", "default">> -> Put(st, i, "passive_default", FALSE, n)
    [] Starts(<<"passive-interface">>, w) /\ Len(w) = 2 /\ w[2] # "default" ->
         Passive(st, st.objects[i].key, w[2], TRUE, n)
    [] Starts(<<"no", "passive-interface">>, w) /\ Len(w) = 3 /\ w[3] # "default" ->
         Passive(st, st.objects[i].key, w[3], FALSE, n)
    [] OTHER -> Refuse(st, n)

AclCommand(st, i, w, n) ==
  IF ParseAclRule(st.objects[i], w) = None THEN Reject(st, n)
  ELSE Also(st, i, ParseAclRule(st.objects[i], w), n)

VlanCommand(st, i, w, n) ==
  IF Starts(<<"name">>, w) /\ Len(w) > 1 THEN Put(st, i, "name", Tail(w), n) ELSE Refuse(st, n)

Leave(st) == [st EXCEPT !.current = 0]

Submode(st, i, w, n) ==
  CASE w = <<"exit">> -> Leave(st)
    [] w # <<"exit">> /\ st.objects[i].kind = "interface" -> InterfaceCommand(st, i, w, n)
    [] w # <<"exit">> /\ st.objects[i].kind = "vlan" -> VlanCommand(st, i, w, n)
    [] w # <<"exit">> /\ st.objects[i].kind = "acl" -> AclCommand(st, i, w, n)
    [] w # <<"exit">> /\ st.objects[i].kind = "bgp" ->
         IF w = <<"exit-address-family">> THEN st ELSE BgpCommand(st, i, w, n)
    [] w # <<"exit">> /\ st.objects[i].kind = "ospf" -> OspfCommand(st, i, w, n)

-----------------------------------------------------------------------------
(* Headers.  An interface and an access list begin anew each time, a VLAN    *)
(* and an OSPF process go on, and there is one BGP process.                 *)

AclHeader(w) ==
  /\ Len(w) \in {3, 4} /\ w[1] \in {"ip", "ipv6"} /\ w[2] = "access-list"
  /\ Len(w) = 4 => w[3] \in {"standard", "extended"}
AclFamily(w) == IF w[1] = "ip" THEN "ipv4" ELSE "ipv6"
AclKind(w) == IF Len(w) = 4 /\ w[3] = "standard" THEN "standard" ELSE "extended"

IsHeader(w) ==
  \/ Len(w) = 2 /\ w[1] = "interface"
  \/ Len(w) = 2 /\ w[1] = "vlan" /\ IsNumber(w[2])
  \/ Len(w) = 3 /\ w[1] = "router" /\ w[2] \in {"bgp", "ospf"}
  \/ AclHeader(w)

Enter(st, kind, key) == [st EXCEPT !.current = Place(st, kind, key)]

EnterAcl(st, w, n) ==
  Put(Enter(Create(st, "acl", <<AclFamily(w), Last(w)>>, n), "acl", <<AclFamily(w), Last(w)>>),
      Len(st.objects) + 1, "kind", AclKind(w), n)

EnterVlan(st, w, n) ==
  IF ValidVlan(w[2]) THEN Enter(Ensure(st, "vlan", <<Number[w[2]]>>, n), "vlan", <<Number[w[2]]>>)
  ELSE Reject(st, n)

EnterBgp(st, w, n) ==
  IF /\ ValidAsn(w[3])
     /\ \A i \in DOMAIN st.objects : st.objects[i].kind = "bgp" => st.objects[i].key = <<Number[w[3]]>>
  THEN Enter(Ensure(st, "bgp", <<Number[w[3]]>>, n), "bgp", <<Number[w[3]]>>) ELSE Reject(st, n)

EnterOspf(st, w, n) ==
  IF IsNumber(w[3]) /\ Number[w[3]] \in 1 .. 65535
  THEN Enter(Ensure(st, "ospf", <<w[3]>>, n), "ospf", <<w[3]>>) ELSE Reject(st, n)

Header(st, w, n) ==
  CASE w[1] = "interface" -> Enter(Create(st, "interface", <<w[2]>>, n), "interface", <<w[2]>>)
    [] w[1] = "vlan" -> EnterVlan(st, w, n)
    [] w[1] \in {"ip", "ipv6"} -> EnterAcl(st, w, n)
    [] w[1] = "router" /\ w[2] = "bgp" -> EnterBgp(st, w, n)
    [] w[1] = "router" /\ w[2] = "ospf" -> EnterOspf(st, w, n)

-----------------------------------------------------------------------------
(* Commands about the device.                                              *)

\* ip prefix-list <name> [seq <n>] <action> <prefix> [ge <n>] [le <n>], the options in any
\* order and the last of each kept.
Bound(w, i, key) ==
  IF \E j \in i .. Len(w) - 1 : w[j] = key /\ (j - i) % 2 = 0
  THEN Number[w[Max({j \in i .. Len(w) - 1 : w[j] = key /\ (j - i) % 2 = 0}) + 1]] ELSE None
Bounded(w, i) ==
  /\ (Len(w) + 1 - i) % 2 = 0
  /\ \A j \in i .. Len(w) - 1 : (j - i) % 2 = 0 => w[j] \in {"ge", "le"} /\ IsNumber(w[j + 1])
\* What a row allows lies between the length of its prefix and that of an address.
FitsLength(family, prefix, bound) ==
  bound = None \/ bound \in PrefixLength[prefix] .. (IF family = "ipv4" THEN 32 ELSE 128)
FitsRange(row) ==
  /\ FitsLength(Network[<<row.prefix>>][1], Network[<<row.prefix>>][2], row.ge)
  /\ FitsLength(Network[<<row.prefix>>][1], Network[<<row.prefix>>][2], row.le)
  /\ row.ge = None \/ row.le = None \/ row.ge <= row.le

PrefixRow(w, i, sequence) ==
  IF i < Len(w) /\ w[i] \in {"permit", "deny"} /\ Bounded(w, i + 2)
  THEN [sequence |-> sequence, action |-> w[i], prefix |-> w[i + 1],
        ge |-> Bound(w, i + 2, "ge"), le |-> Bound(w, i + 2, "le")]
  ELSE None

AddPrefix(st, family, name, row, n) ==
  CASE row = None -> Refuse(st, n)
    [] row # None /\ ~(InFamily(family, <<row.prefix>>) /\ FitsRange(row)) -> Reject(st, n)
    [] OTHER -> AlsoIn(st, "prefix list", <<family, name>>,
                       [row EXCEPT !.prefix = Network[<<row.prefix>>][2]], n)

PrefixList(st, w, n) ==
  CASE Len(w) < 5 -> Refuse(st, n)
    [] Len(w) >= 5 /\ w[4] = "seq" ->
         IF IsNumber(w[5]) THEN AddPrefix(st, AclFamily(w), w[3], PrefixRow(w, 6, Number[w[5]]), n)
         ELSE Reject(st, n)
    [] OTHER -> AddPrefix(st, AclFamily(w), w[3], PrefixRow(w, 4, None), n)

\* What follows the destination of a route: a next hop, an interface with or without one, or
\* Null0, and then a preference.
NextHop(w, i, family) == i <= Len(w) /\ AddressIn(family, w[i])
Target(w, family) ==
  CASE w[1] = "Null0" -> [via |-> None, out |-> "Null0", discard |-> TRUE, next |-> 2]
    [] NextHop(w, 1, family) -> [via |-> Canonical(w[1]), out |-> None, discard |-> FALSE, next |-> 2]
    [] w[1] # "Null0" /\ ~NextHop(w, 1, family) /\ NextHop(w, 2, family) ->
         [via |-> Canonical(w[2]), out |-> w[1], discard |-> FALSE, next |-> 3]
    [] OTHER -> [via |-> None, out |-> w[1], discard |-> FALSE, next |-> 2]

Preference(w, i) == IF i <= Len(w) /\ IsNumber(w[i]) THEN Number[w[i]] ELSE None
AddRoute(st, to, target, preference, last, n) ==
  CASE target.next + (IF preference = None THEN 0 ELSE 1) # last + 1 -> Refuse(st, n)
    [] preference # None /\ preference > 255 -> Reject(st, n)
    [] OTHER -> Also(Create(st, "route", <<to>>, n), Len(st.objects) + 1,
                     [via |-> target.via, out |-> target.out, discard |-> target.discard,
                      preference |-> preference], n)

\* A word that begins with a digit is no interface.
RouteTo(st, family, to, w, n) ==
  CASE ~InFamily(family, to) \/ (~NextHop(w, 1, family) /\ BeginsWithDigit(w[1])) -> Reject(st, n)
    [] OTHER -> AddRoute(st, Network[to][2], Target(w, family),
                         Preference(w, Target(w, family).next), Len(w), n)

StaticRoute(st, w, n) ==
  CASE w[1] = "ip" ->
         IF Len(w) < 5 \/ w[3] = "vrf" THEN Refuse(st, n)
         ELSE RouteTo(st, "ipv4", <<w[3], w[4]>>, From(w, 5), n)
    [] w[1] = "ipv6" ->
         IF Len(w) < 4 \/ w[3] = "vrf" THEN Refuse(st, n)
         ELSE RouteTo(st, "ipv6", <<w[3]>>, From(w, 4), n)

NumberedRow(st, line, n, named) ==
  IF line.indent \/ ~NumberedAcl(line.words, named) THEN Reject(st, n)
  ELSE Also(PutIn(st, "numbered", <<line.words[2]>>, "name", line.words[2], n),
            AtKey(st, "numbered", <<line.words[2]>>, n),
            [action |-> line.words[3], from |-> NumberedSource(From(line.words, 4))], n)

Transport(st, protocols, n) ==
  [st EXCEPT !.objects[1].settings =
     [f \in ({"ssh"} \cap protocols) \cup (IF protocols \cap {"telnet", "all"} = {} THEN {} ELSE {"telnet"})
        |-> <<TRUE, {n} \cup Lines(st.objects[1], f)>>] @@ @]

Global(st, line, w, n, named) ==
  CASE w \in {<<"end">>, <<"exit">>, <<"configure", "terminal">>} \/ (Starts(<<"line", "vty">>, w) /\ Len(w) > 2) -> st
    [] w[1] = "hostname" /\ Len(w) = 2 -> System(st, "hostname", w[2], n)
    [] w[1] = "version" /\ Len(w) > 1 -> System(st, "os_version", w[2], n)
    [] w = <<"aaa", "new-model">> -> System(st, "aaa", TRUE, n)
    [] w = <<"no", "aaa", "new-model">> -> System(st, "aaa", FALSE, n)
    [] \/ Starts(<<"username">>, w) /\ Len(w) > 1
       \/ Starts(<<"no", "username">>, w) /\ Len(w) > 2 -> CiscoUser(st, w, n)
    [] w \in {<<"ip", "ssh", "version", v>> : v \in {"1", "2"}} ->
         System(System(st, "ssh", TRUE, n), "ssh_version", w[4], n)
    [] Starts(<<"ip", "ssh">>, w) /\ Len(w) > 2 /\ ~(Len(w) = 4 /\ w[3] = "version" /\ w[4] \in {"1", "2"}) ->
         System(st, "ssh", TRUE, n)
    [] Starts(<<"transport", "input">>, w) /\ Len(w) > 2 -> Transport(st, ToSet(From(w, 3)), n)
    [] Starts(<<"snmp-server", "group">>, w) /\ Len(w) > 2 /\ "v3" \in ToSet(From(w, 3)) ->
         Versions(st, {"v3"}, n)
    [] Starts(<<"snmp-server", "community">>, w) /\ Len(w) > 2 -> Versions(st, {"v1", "v2c"}, n)
    [] Starts(<<"ntp", "server">>, w) /\ Len(w) > 2 -> Listed(st, "ntp", w[3], n)
    [] Starts(<<"logging", "host">>, w) /\ Len(w) > 2 -> Listed(st, "syslog", w[3], n)
    [] w[1] \in {"ip", "ipv6"} /\ Len(w) > 2 /\ w[2] = "prefix-list" -> PrefixList(st, w, n)
    [] w[1] \in {"ip", "ipv6"} /\ Len(w) > 2 /\ w[2] = "route" -> StaticRoute(st, w, n)
    [] w[1] = "access-list" -> NumberedRow(st, line, n, named)
    [] OTHER -> Refuse(st, n)

-----------------------------------------------------------------------------
(* Route maps are read before the rest.  A chunk is a header that is not     *)
(* indented and the lines that belong to it, up to its "exit".              *)

Comment(line) == Starts(<<"!">>, line.words)
IsSignificant(line) == line.words # <<>> /\ ~Comment(line)
MapHeader(w) == Starts(<<"route-map">>, w) \/ Starts(<<"no", "route-map">>, w)
Opaque(text) ==
  \E i \in DOMAIN text : Starts(<<"banner">>, text[i].words) \/ Starts(<<"macro", "name">>, text[i].words)
                           \/ Starts(<<"tclsh">>, text[i].words)

ChunkHeads(text) == {c \in DOMAIN text : ~text[c].indent /\ MapHeader(text[c].words)}
Children(text, c) ==
  {n \in c + 1 .. Len(text) :
     /\ IsSignificant(text[n]) /\ text[n].indent
     /\ \A k \in c + 1 .. n - 1 : IsSignificant(text[k]) => text[k].indent /\ text[k].words # <<"exit">>}

GoodHeader(w) ==
  /\ Len(w) = 4 /\ w[1] = "route-map" /\ ValidName(w[2]) /\ w[3] \in {"permit", "deny"}
  /\ IsNumber(w[4]) /\ Number[w[4]] <= 65535
HeaderName(w) ==
  LET rest == From(w, IF w[1] = "no" THEN 3 ELSE 2)
  IN IF rest # <<>> /\ ValidName(rest[1]) THEN rest[1] ELSE None

Twins(text, heads, c) ==
  {d \in heads : GoodHeader(text[d].words) /\ text[d].words[2] = text[c].words[2]
                   /\ Number[text[d].words[4]] = Number[text[c].words[4]]}

IsMatch(w) ==
  /\ Starts(<<"match", "ip", "address", "prefix-list">>, w) /\ Len(w) > 4
  /\ IsInjective(From(w, 5)) /\ \A i \in 5 .. Len(w) : ValidName(w[i])
IsMetric(w) == Starts(<<"set", "metric">>, w) /\ Len(w) = 3 /\ IsNumber(w[3]) /\ Number[w[3]] <= MaxAsn
\* A statement that is said twice is not believed.
Matches(text, lines) == {n \in lines : IsMatch(text[n].words)}
Metrics(text, lines) == {n \in lines : IsMetric(text[n].words)}
Unclear(lines) == IF Cardinality(lines) > 1 THEN lines ELSE {}
UnknownChildren(text, children) ==
  {n \in children : ~IsMatch(text[n].words) /\ ~IsMetric(text[n].words) /\ text[n].words # <<"exit">>}
    \cup Unclear(Matches(text, children)) \cup Unclear(Metrics(text, children))

Clause(text, c, children, unknown) ==
  [name |-> text[c].words[2], action |-> text[c].words[3], sequence |-> Number[text[c].words[4]],
   matches |-> {From(text[n].words, 5) : n \in Matches(text, children \ unknown)},
   metrics |-> {Number[text[n].words[3]] : n \in Metrics(text, children \ unknown)},
   complete |-> unknown = {}, lines |-> {c} \cup {n \in children \ unknown : text[n].words # <<"exit">>}]

\* The chunk as it is read: bad says that nothing of it is kept.
Chunk(text, heads, c, children) ==
  IF GoodHeader(text[c].words) /\ Cardinality(Twins(text, heads, c)) = 1
  THEN [head |-> c, bad |-> FALSE, lines |-> {c} \cup children, unknown |-> UnknownChildren(text, children),
        clause |-> Clause(text, c, children, UnknownChildren(text, children))]
  ELSE [head |-> c, bad |-> TRUE, lines |-> {c} \cup children, unknown |-> {c} \cup children, clause |-> None]

RouteMap(text, chunks, name) ==
  [name |-> name,
   lines |-> {k.head : k \in {x \in chunks : GoodHeader(text[x.head].words) /\ text[x.head].words[2] = name}},
   clauses |-> {k.clause : k \in {x \in chunks : ~x.bad /\ x.clause.name = name}},
   complete |->
     \A k \in chunks :
       IF k.bad THEN HeaderName(text[k.head].words) \notin {None, name}
       ELSE k.clause.name = name => k.clause.complete]

RouteMapsOf(text, chunks) ==
  [handled |-> UNION {k.lines : k \in chunks},
   unknown |-> UNION {k.unknown : k \in chunks},
   warned |-> \E k \in chunks : \/ k.bad
                              \/ Unclear(Matches(text, k.lines)) # {}
                              \/ Unclear(Metrics(text, k.lines)) # {},
   maps |-> {RouteMap(text, chunks, name) : name \in {k.clause.name : k \in {x \in chunks : ~x.bad}}}]

ParseRouteMaps(text) ==
  IF Opaque(text) THEN [handled |-> {}, unknown |-> {}, warned |-> TRUE, maps |-> {}]
  ELSE RouteMapsOf(text, {Chunk(text, ChunkHeads(text), c, Children(text, c)) : c \in ChunkHeads(text)})

NoRouteMaps == [handled |-> {}, unknown |-> {}, warned |-> FALSE, maps |-> {}]

-----------------------------------------------------------------------------
(* The parser.                                                             *)

\* The numbers of named lists, wherever they stand: their rows are not numbered lists'.
NamedNumbers(text) ==
  {Number[Last(text[i].words)] : i \in {j \in DOMAIN text : AclHeader(text[j].words) /\ text[j].words[1] = "ip"
                                                     /\ IsNumber(Last(text[j].words))}}

StepOverComments(st, line, n, handled, named) ==
  CASE line.words = <<>> \/ Comment(line) -> st
    [] n \in handled -> Leave(st)
    [] IsSignificant(line) /\ n \notin handled /\ IsHeader(line.words) -> Header(Leave(st), line.words, n)
    [] OTHER ->
         IF st.current # 0 /\ line.indent THEN Submode(st, st.current, line.words, n)
         ELSE Global(Leave(st), line, line.words, n, named)

Step(st, line, n, handled, named) ==
  CASE line.words = <<>> -> st
    [] Comment(line) \/ n \in handled -> Leave(st)
    [] IsSignificant(line) /\ n \notin handled /\ IsHeader(line.words) -> Header(Leave(st), line.words, n)
    [] OTHER ->
         IF st.current # 0 /\ line.indent THEN Submode(st, st.current, line.words, n)
         ELSE Global(Leave(st), line, line.words, n, named)

\* A neighbour without a remote AS is given up with every line about it.
Nameless(o) == o.kind = "neighbor" /\ Get(o, "remote_as") = None
LocalAs(st) == st.objects[SelectInSeq(st.objects, LAMBDA o : o.kind = "bgp")].key[1]
BuildNeighbor(o, local) ==
  [o EXCEPT !.settings =
     ("session" :> <<IF Get(o, "remote_as") = local THEN "internal" ELSE "external", {}>>) @@ @]

DropNeighbors(st, nameless) ==
  IF nameless = <<>> THEN st
  ELSE GiveUp(Doubt(st), FlattenSeq([i \in DOMAIN nameless |-> nameless[i].source]))

BuildAll(objects, st) ==
  [i \in DOMAIN objects |->
     IF objects[i].kind = "neighbor" THEN BuildNeighbor(objects[i], LocalAs(st)) ELSE objects[i]]

Hosted(st) == IF Get(st.objects[1], "hostname") = None THEN Doubt(st) ELSE st

Build(st, maps, routeMaps) ==
  [objects |-> BuildAll(SelectSeq(st.objects, LAMBDA o : ~Nameless(o)), st), unparsed |-> IF routeMaps THEN SortSeq(st.unparsed, <) ELSE st.unparsed,
   warned |-> st.warned, maps |-> maps]

ReadWith(text, maps, routeMaps) ==
  LET last == Hosted(FoldLeftDomain(LAMBDA st, n : Step(st, text[n], n, maps.handled, NamedNumbers(text)),
                                    [Nothing EXCEPT !.unparsed = SetToSeq(maps.unknown), !.warned = maps.warned],
                                    text))
  IN Build(DropNeighbors(last, SelectSeq(last.objects, Nameless)), maps.maps, routeMaps)

Parse(text, routeMaps) ==
  ReadWith(text, IF routeMaps THEN ParseRouteMaps(text) ELSE NoRouteMaps, routeMaps)

-----------------------------------------------------------------------------
(* What a text says.                                                       *)

\* The last line before n that ends a section or opens one, or 0.
SectionOf(text, handled, n) ==
  Max({0} \cup {j \in 1 .. n - 1 :
                  /\ text[j].words # <<>>
                  /\ \/ Comment(text[j]) \/ j \in handled \/ IsHeader(text[j].words)
                     \/ ~text[j].indent \/ text[j].words = <<"exit">>})

Opens(o, h, w) ==
  CASE o.kind \in {"interface", "acl"} -> o.at = {h}
    [] o.kind = "vlan" -> w[1] = "vlan" /\ Number[w[2]] = o.key[1]
    [] o.kind \in {"bgp", "neighbor"} -> Starts(<<"router", "bgp">>, w)
    [] o.kind \in {"ospf", "ospf interface"} -> w = <<"router", "ospf", o.key[1]>>

InSections == {"interface", "acl", "vlan", "bgp", "neighbor", "ospf", "ospf interface"}
Written(text, handled, o, n) ==
  IF o.kind \notin InSections THEN ~IsHeader(text[n].words)
  ELSE \/ n \in o.at /\ IsHeader(text[n].words)
       \/ /\ text[n].indent
          /\ SectionOf(text, handled, n) # 0
          /\ Opens(o, SectionOf(text, handled, n), text[SectionOf(text, handled, n)].words)

\* What is known of an object comes from its own section, and the rows of a numbered list are
\* never added to those of a named one.
SettingsStandWhereWritten(text, handled, answer) ==
  /\ \A i \in DOMAIN answer.objects : \A n \in Provenance(answer.objects[i]) :
       Written(text, handled, answer.objects[i], n)
  /\ \A i, j \in DOMAIN answer.objects :
       answer.objects[i].kind = "numbered" /\ answer.objects[j].kind = "acl" =>
         answer.objects[j].key # <<"ipv4">> \o answer.objects[i].key

SameHeader(v, w) ==
  \/ v = w
  \/ /\ Len(v) = Len(w) /\ IsHeader(v) /\ Front(v) = Front(w) /\ Front(w) \in {<<"vlan">>, <<"router", "bgp">>}
     /\ IsNumber(Last(v)) /\ IsNumber(Last(w)) /\ Number[Last(v)] = Number[Last(w)]

\* Accepted lines that leave nothing behind: structure, removals, a header that goes on with
\* an object, and what a later line sets anew.
Silent(text, unparsed, n) ==
  \/ text[n].words \in {<<"end">>, <<"exit">>, <<"configure", "terminal">>, <<"exit-address-family">>,
                        <<"no", "ip", "address">>}
  \/ \E p \in {<<"line", "vty">>, <<"transport", "input">>, <<"no", "username">>} : Starts(p, text[n].words)
  \/ IsHeader(text[n].words) /\ \E k \in 1 .. n - 1 : SameHeader(text[k].words, text[n].words)
  \/ /\ text[n].words[1] = "username"
     /\ \E k \in n + 1 .. Len(text) : text[k].words = <<"no", "username", text[n].words[2]>>
  \/ /\ text[n].words[1] = "switchport"
     /\ \E k \in n + 1 .. Len(text) \ unparsed :
          text[k].indent /\ Starts(SubSeq(text[n].words, 1, 3), text[k].words)

EveryLineAccounted(text, answer) ==
  /\ IsInjective(answer.unparsed)
  /\ ToSet(answer.unparsed) \subseteq {n \in DOMAIN text : IsSignificant(text[n])}
  /\ \A n \in DOMAIN text :
       IsSignificant(text[n]) =>
         \/ n \in ToSet(answer.unparsed)
         \/ \E i \in DOMAIN answer.objects : n \in Provenance(answer.objects[i])
         \/ \E m \in answer.maps : \E c \in m.clauses : n \in c.lines
         \/ Silent(text, ToSet(answer.unparsed), n)

=============================================================================
