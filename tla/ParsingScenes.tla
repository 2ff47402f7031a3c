---------------------------- MODULE ParsingScenes ----------------------------
(***************************************************************************)
(* Short configurations for the parsers of both vendors: a vocabulary, the  *)
(* lines of each part of the grammar, good and bad, and the texts of a few  *)
(* lines that they make.                                                   *)
(***************************************************************************)
EXTENDS Integers, SequencesExt

CONSTANTS None, Every

Number ==
  ("0" :> 0) @@ ("1" :> 1) @@ ("5" :> 5) @@ ("9" :> 9) @@ ("10" :> 10) @@ ("010" :> 10) @@ ("15" :> 15)
    @@ ("16" :> 16) @@ ("20" :> 20) @@ ("200" :> 200) @@ ("300" :> 300) @@ ("1300" :> 1300)
    @@ ("4095" :> 4095) @@ ("70000" :> 70000)
Digital == {"10.0.0.1", "10.0.0.9", "2001::1", "2001:0::1", "10.0.0.0/8", "10.0.0.1/8", "2001::/32", "1,5-9", "9x"}
Address ==
  ("10.0.0.1" :> <<"ipv4", "10.0.0.1">>) @@ ("10.0.0.9" :> <<"ipv4", "10.0.0.9">>)
    @@ ("2001::1" :> <<"ipv6", "2001::1">>) @@ ("2001:0::1" :> <<"ipv6", "2001::1">>)
    @@ ("fe80::1" :> <<"ipv6", "fe80::1">>)

\* The forms of an address with a prefix: its family, its network, itself and the prefix length.
Forms ==
  (<<"10.0.0.0/8">> :> <<"ipv4", "10.0.0.0/8", "10.0.0.0/8", 8>>)
    @@ (<<"10.0.0.1/8">> :> <<"ipv4", "10.0.0.0/8", "10.0.0.1/8", 8>>)
    @@ (<<"10.0.0.1">> :> <<"ipv4", "10.0.0.1/32", "10.0.0.1/32", 32>>)
    @@ (<<"10.0.0.9">> :> <<"ipv4", "10.0.0.9/32", "10.0.0.9/32", 32>>)
    @@ (<<"10.0.0.1", "255.0.0.0">> :> <<"ipv4", "10.0.0.0/8", "10.0.0.1/8", 8>>)
    @@ (<<"10.0.0.1", "0.255.255.255">> :> <<"ipv4", "10.0.0.0/8", "10.0.0.1/8", 8>>)
    @@ (<<"10.0.0.1", "0.0.0.0">> :> <<"ipv4", "0.0.0.0/0", "10.0.0.1/0", 0>>)
    @@ (<<"10.0.0.1", "255.255.255.255">> :> <<"ipv4", "10.0.0.1/32", "10.0.0.1/32", 32>>)
    @@ (<<"2001::/32">> :> <<"ipv6", "2001::/32", "2001::/32", 32>>)
    @@ (<<"2001::1">> :> <<"ipv6", "2001::1/128", "2001::1/128", 128>>)
    @@ (<<"2001:0::1">> :> <<"ipv6", "2001::1/128", "2001::1/128", 128>>)
    @@ (<<"fe80::1">> :> <<"ipv6", "fe80::1/128", "fe80::1/128", 128>>)
Network == [ws \in DOMAIN Forms |-> <<Forms[ws][1], Forms[ws][2]>>]
Interface == [ws \in DOMAIN Forms |-> Forms[ws][3]]
PrefixLength == [p \in {Forms[ws][2] : ws \in DOMAIN Forms} |-> (CHOOSE f \in Range(Forms) : f[2] = p)[4]]
Area == ("0" :> "0.0.0.0") @@ ("1" :> "0.0.0.1") @@ ("0.0.0.1" :> "0.0.0.1")

Wildcard ==
  ("0.255.255.255" :> "255.0.0.0") @@ ("255.0.0.0" :> "0.255.255.255") @@ ("0.255.0.0" :> "255.0.255.255")
    @@ ("255.255.255.255" :> "0.0.0.0") @@ ("0.0.0.0" :> "255.255.255.255")
Selection ==
  (<<"1,5-9">> :> <<<<1, 1>>, <<5, 9>>>>) @@ (<<"1,", "5-9">> :> <<<<1, 1>>, <<5, 9>>>>)
    @@ (<<"9-5">> :> <<<<9, 5>>>>) @@ (<<"4095">> :> <<<<4095, 4095>>>>)

Cisco == INSTANCE CiscoParsing WITH
  Malformed <- "u!", MaxAsn <- 65000, Padded <- {"010"}, Universal <- "255.255.255.255",
  Contiguous <- {"0.255.255.255", "255.255.255.255", "0.0.0.0"}

-----------------------------------------------------------------------------
L(words) == [indent |-> FALSE, words |-> words]
In(words) == [indent |-> TRUE, words |-> words]
Ins(pool) == {In(w) : w \in pool}

\* Lines that end a section, or might.
Breaks ==
  {L(<<"!">>), In(<<"!">>), L(<<>>), In(<<"exit">>), L(<<"end">>), L(<<"router", "bgp", "5">>),
   In(<<"vlan", "4095">>), L(<<"ip", "ssh", "version", "2">>), In(<<"aaa", "new-model">>)}

InterfaceLines ==
  {<<"description", "x", "y">>, <<"shutdown">>, <<"no", "shutdown">>, <<"no", "ip", "address">>,
   <<"switchport", "mode", "trunk">>, <<"switchport", "access", "vlan", "10">>,
   <<"switchport", "access", "vlan", "4095">>, <<"switchport", "trunk", "native", "vlan", "5">>,
   <<"switchport", "trunk", "allowed", "vlan", "1,5-9">>, <<"switchport", "trunk", "allowed", "vlan", "9-5">>,
   <<"switchport", "trunk", "allowed", "vlan", "1,", "5-9">>, <<"switchport", "trunk", "allowed", "vlan", "4095">>,
   <<"switchport", "access", "vlan", "010">>, <<"switchport", "trunk", "allowed", "vlan", "all">>, <<"switchport", "trunk", "allowed", "vlan", "none">>,
   <<"ip", "address", "10.0.0.1", "255.0.0.0">>, <<"ip", "address", "10.0.0.1", "255.0.0.0", "secondary">>,
   <<"ip", "address", "dhcp">>, <<"ip", "address", "2001::1", "255.0.0.0">>, <<"ipv6", "address", "2001::/32">>}

VlanLines == {<<"name", "staff">>, <<"shutdown">>, <<"vlan", "10">>, <<"vlan", "010">>, <<"vlan", "20">>}

AclLines ==
  {<<"permit", "any">>, <<"10", "deny", "host", "10.0.0.1">>, <<"permit", "10.0.0.1", "0.255.255.255", "log">>,
   <<"permit", "10.0.0.0/8">>, <<"permit", "tcp", "any", "eq", "5", "host", "10.0.0.1", "range", "5", "9", "log">>,
   <<"deny", "ip", "10.0.0.1", "255.0.0.0", "any">>, <<"deny", "ip", "any">>, <<"remark", "x">>, <<"10">>,
   <<"permit", "tcp", "any", "any", "eq">>, <<"permit", "2001::/32">>, <<"permit", "ip", "any", "host", "x">>,
   <<"permit", "10.0.0.1", "255.255.255.255">>, <<"permit", "host", "2001::1">>}

BgpLines ==
  {<<"bgp", "router-id", "10.0.0.1">>, <<"bgp", "router-id", "2001::1">>,
   <<"neighbor", "10.0.0.1", "remote-as", "5">>, <<"neighbor", "10.0.0.1", "remote-as", "0">>,
   <<"neighbor", "2001::1", "remote-as", "9">>, <<"neighbor", "10.0.0.1", "description", "x">>,
   <<"neighbor", "2001:0::1", "remote-as", "5">>, <<"neighbor", "10.0.0.1", "no", "shutdown">>,
   <<"neighbor", "10.0.0.1", "update-source", "lo0">>, <<"neighbor", "10.0.0.1", "shutdown">>,
   <<"no", "neighbor", "10.0.0.1", "shutdown">>, <<"no", "neighbor", "x", "shutdown">>,
   <<"neighbor", "x", "remote-as", "5">>, <<"neighbor", "10.0.0.1", "weight", "5">>,
   <<"address-family", "ipv4">>, <<"exit-address-family">>}

OspfLines ==
  {<<"router-id", "10.0.0.1">>, <<"router-id", "x">>, <<"network", "10.0.0.1", "0.255.255.255", "area", "0">>,
   <<"network", "10.0.0.1", "0.255.255.255", "area", "0.0.0.1">>,
   <<"network", "10.0.0.1", "0.255.255.255", "area", "x">>, <<"network", "10.0.0.1", "0.255.0.0", "area", "0">>,
   <<"passive-interface", "default">>, <<"no", "passive-interface", "default">>, <<"passive-interface", "e0">>,
   <<"no", "passive-interface", "e0">>, <<"area", "0", "stub">>, <<"router", "ospf", "1">>}

GlobalLines ==
  {<<"hostname", "r1">>, <<"hostname", "r2">>, <<"version", "15">>, <<"aaa", "new-model">>, <<"no", "aaa", "new-model">>,
   <<"username", "u", "secret", "5", "h">>, <<"username", "u", "nopassword">>, <<"no", "username", "u">>,
   <<"username", "u!", "nopassword">>, <<"username", "u", "privilege", "16">>,
   <<"username", "u", "privilege", "15">>, <<"username", "u", "privilege", "1", "password", "h">>,
   <<"username">>, <<"no", "username">>, <<"username", "u">>, <<"username", "u", "secret", "7", "h">>, <<"ip", "ssh", "version", "1">>, <<"ip", "ssh", "timeout", "60">>,
   <<"line", "vty", "0", "5">>, <<"transport", "input", "ssh", "telnet">>, <<"transport", "input", "none">>,
   <<"snmp-server", "group", "g", "v3">>, <<"snmp-server", "community", "c">>, <<"ntp", "server", "10.0.0.1">>,
   <<"logging", "host", "10.0.0.1">>, <<"ip", "prefix-list", "P", "seq", "5", "permit", "10.0.0.0/8", "le", "20">>,
   <<"ip", "prefix-list", "P", "permit", "2001::/32">>, <<"ip", "prefix-list", "P", "deny", "10.0.0.0/8", "ge">>,
   <<"ip", "prefix-list", "P", "deny", "10.0.0.0/8", "ge", "20", "le", "9">>,
   <<"ip", "prefix-list", "P", "permit", "10.0.0.1/8", "ge", "5">>,
   <<"ip", "prefix-list", "P", "permit", "10.0.0.1/8", "le", "200">>,
   <<"ip", "prefix-list", "P", "seq", "x", "permit", "10.0.0.0/8">>, <<"ip", "prefix-list", "P">>,
   <<"ip", "route", "10.0.0.1", "255.0.0.0", "10.0.0.9", "200">>, <<"ip", "route", "10.0.0.1", "255.0.0.0", "Null0">>,
   <<"ip", "route", "10.0.0.1", "255.0.0.0", "e0", "10.0.0.9">>, <<"ip", "route", "10.0.0.1", "255.0.0.0", "e0", "300">>,
   <<"ip", "route", "10.0.0.1", "255.0.0.0", "2001::1">>,
   <<"ip", "route", "10.0.0.1", "255.0.0.0", "fe80::1">>, <<"ip", "route", "10.0.0.1", "255.0.0.0", "9x">>,
   <<"ipv6", "route", "2001::/32", "fe80::1", "5">>, <<"ip", "route", "10.0.0.1", "255.0.0.0", "e0", "name", "x">>,
   <<"ip", "route", "vrf", "v", "10.0.0.1", "255.0.0.0", "e0">>, <<"ip", "route", "x", "255.0.0.0", "e0">>,
   <<"ipv6", "route", "2001::/32", "2001::1">>, <<"ipv6", "route", "vrf", "x", "y">>,
   <<"access-list", "10", "permit", "host", "10.0.0.1">>, <<"access-list", "10", "deny", "any">>,
   <<"access-list", "10", "permit", "10.0.0.1">>, <<"access-list", "10", "permit", "10.0.0.1", "0.255.255.255">>,
   <<"access-list", "10", "permit", "10.0.0.1", "255.0.0.0">>, <<"access-list", "010", "permit", "any">>,
   <<"access-list", "10", "permit", "10.0.0.1", "255.255.255.255">>, <<"ip", "access-list", "standard", "010">>, <<"access-list", "200", "permit", "any">>,
   <<"ip", "access-list", "standard", "10">>, <<"ipv6", "access-list", "10">>, <<"banner", "x">>,
   <<"route-map", "M", "permit", "10">>, <<"interface", "e0">>, <<"router", "bgp", "0">>, <<"router", "ospf", "70000">>}

MapLines ==
  {L(<<"route-map", "M", "permit", "10">>), L(<<"route-map", "M", "deny", "20">>), L(<<"route-map", "N", "permit", "10">>),
   L(<<"route-map", "M", "permit", "70000">>), L(<<"no", "route-map", "M">>), L(<<"route-map">>),
   L(<<"route-map", "u!", "permit", "10">>), In(<<"match", "ip", "address", "prefix-list", "P", "P">>),
   In(<<"match", "ip", "address", "prefix-list", "u!">>),
   In(<<"match", "ip", "address", "prefix-list", "P">>), In(<<"set", "metric", "5">>),
   In(<<"set", "metric", "70000">>), In(<<"exit">>), In(<<"description", "x">>), L(<<"!">>),
   L(<<"ip", "ssh", "version", "2">>), L(<<"interface", "e0">>)}

\* Two lines of a section, and two with a line between them that ends it.
Section(header, pool) ==
  {<<L(header), a, b>> : a \in Ins(pool) \cup Breaks, b \in Ins(pool) \cup Breaks}
    \cup {<<L(header), a, x, b>> :
            a \in Ins(pool), x \in {L(<<"!">>), In(<<"exit">>), L(<<"router", "bgp", "5">>)}, b \in Ins(pool)}

\* Lines at the top that open something, or seem to.
Opens(w) == w[1] \in {"line", "route-map", "interface", "router", "banner"} \/ Contains(w, "access-list")

Plain(texts) == [text : texts, maps : {FALSE}]
CiscoTexts ==
  Plain(Section(<<"interface", "e0">>, InterfaceLines)
         \cup Section(<<"vlan", "10">>, VlanLines)
         \cup Section(<<"ip", "access-list", "standard", "10">>, AclLines)
         \cup Section(<<"ip", "access-list", "E">>, AclLines)
         \cup Section(<<"router", "bgp", "5">>, BgpLines)
         \cup Section(<<"router", "ospf", "1">>, OspfLines)
         \cup {<<L(v), L(w)>> : v \in GlobalLines, w \in GlobalLines}
         \cup {<<L(v), In(w)>> : v \in {w \in GlobalLines : Opens(w)}, w \in GlobalLines})
    \cup [text : {<<L(<<"route-map", "M", "permit", "10">>)>> \o b : b \in [1 .. 3 -> MapLines]}
                 \cup {<<L(<<"banner", "x">>), m>> : m \in MapLines},
          maps : {TRUE}]

CiscoAnswer(input) == Cisco!Parse(input.text, input.maps)
Handled(input) == IF input.maps THEN Cisco!ParseRouteMaps(input.text).handled ELSE {}

-----------------------------------------------------------------------------
(* JunOS: statements, which are the blocks around a leaf and the leaf, and     *)
(* the two ways to write them.                                             *)

Bare == ("[" :> None) @@ ("]" :> None) @@ ("[v10" :> "v10") @@ ("20]" :> "20") @@ ("v10," :> "v10")
Junos == INSTANCE JunosParsing WITH Malformed <- "u!", MaxAsn <- 65000

S(path, leaf) == [path |-> path, leaf |-> leaf]
Each(path, leaves) == {S(path, leaf) : leaf \in leaves}

System == <<<<"system">>>>
SystemStatements ==
  Each(System, {<<"host-name", "r1">>, <<"host-name", "r2">>, <<"authentication-order", "radius", "password">>,
                <<"authentication-order", "password">>, <<"domain-name", "x">>})
    \cup Each(System \o <<<<"services">>>>, {<<"ssh">>, <<"telnet">>, <<"ftp">>})
    \cup Each(System \o <<<<"services">>, <<"ssh">>>>, {<<"protocol-version", "v2">>, <<"protocol-version", "v9">>})
    \cup Each(System \o <<<<"ntp">>>>, {<<"server", "10.0.0.1">>})
    \cup Each(System \o <<<<"syslog">>, <<"host", "10.0.0.1">>>>, {<<"any", "notice">>})
    \cup Each(System \o <<<<"tacplus-server">>>>, {<<"10.0.0.1">>})
    \cup Each(System \o <<<<"login">>, <<"user", "u">>>>,
              {<<"class", "c">>, <<"class", "d">>, <<"uid", "200">>, <<"uid", "5">>})
    \cup Each(System \o <<<<"login">>, <<"user", "u">>, <<"authentication">>>>,
              {<<"encrypted-password", "h">>, <<"ssh-rsa", "k">>, <<"plain", "h">>})
    \cup Each(System \o <<<<"login">>, <<"user", "u!">>>>, {<<"class", "c">>})
    \cup Each(<<<<"snmp">>, <<"community", "c">>>>, {<<"authorization", "x">>})
    \cup Each(<<<<"snmp">>, <<"v3">>>>, {<<"usm", "x">>})

E0 == <<<<"interfaces">>, <<"e0">>>>
Unit == E0 \o <<<<"unit", "0">>>>
Switched == Unit \o <<<<"family", "ethernet-switching">>>>
InterfaceStatements ==
  Each(E0, {<<"description", "x">>, <<"disable">>, <<"mtu", "9">>})
    \cup Each(Unit, {<<"description", "y", "z">>, <<"disable">>})
    \cup Each(Unit \o <<<<"family", "inet">>>>,
              {<<"address", "10.0.0.1/8">>, <<"address", "2001::/32">>, <<"address", "x">>})
    \cup Each(Unit \o <<<<"family", "inet6">>>>, {<<"address", "2001::/32">>})
    \cup Each(Unit \o <<<<"family", "mpls">>>>, {<<"address", "10.0.0.1/8">>})
    \cup Each(Switched, {<<"interface-mode", "trunk">>, <<"port-mode", "access">>, <<"native-vlan-id", "5">>,
                        <<"native-vlan-id", "4095">>})
    \cup Each(Switched \o <<<<"vlan">>>>,
              {<<"members", "v10">>, <<"members", "[", "v10", "20", "]">>, <<"members", "[v10", "20]">>, <<"members", "[", "]">>, <<"members", "all">>,
               <<"members", "4095">>, <<"members", "[", "all", "20", "]">>})
    \cup Each(<<<<"vlans">>, <<"v10">>>>, {<<"vlan-id", "10">>, <<"vlan-id", "20">>, <<"vlan-id", "4095">>})

Term(t) == <<<<"firewall">>, <<"family", "inet">>, <<"filter", "F">>, <<"term", t>>>>
FirewallStatements ==
  Each(Term("t"), {<<"then", "accept">>, <<"then", "x">>, <<"remark", "x", "y">>})
    \cup Each(Term("t") \o <<<<"then">>>>, {<<"reject">>})
    \cup Each(Term("t") \o <<<<"from">>>>,
              {<<"protocol", "tcp">>, <<"source-address", "any">>, <<"source-address", "10.0.0.1/8">>,
               <<"source-address", "2001::/32">>, <<"icmp-type", "5">>, <<"tcp-established">>,
               <<"destination-port", "[", "5", "9", "]">>, <<"source-port", "]">>, <<"ttl", "5">>})
    \cup Each(Term("t") \o <<<<"from">>, <<"source-address">>>>, {<<"10.0.0.0/8">>})
    \cup Each(Term("t2"), {<<"then", "discard">>})
    \cup Each(<<<<"firewall">>, <<"family", "mpls">>, <<"filter", "F">>, <<"term", "t">>>>, {<<"then", "accept">>})
    \cup Each(<<<<"policy-options">>, <<"prefix-list", "P">>>>, {<<"10.0.0.0/8">>, <<"2001::/32">>, <<"x">>})
    \cup Each(<<<<"policy-options">>>>, {<<"damping", "x">>})

Static(to) == <<<<"routing-options">>, <<"static">>, <<"route", to>>>>
OptionLeaves == {<<"autonomous-system", "5">>, <<"autonomous-system", "0">>, <<"router-id", "10.0.0.1">>,
                 <<"router-id", "2001::1">>}
RouteStatements ==
  Each(Static("10.0.0.0/8"),
       {<<"next-hop", "10.0.0.1">>, <<"next-hop", "10.0.0.9">>, <<"next-hop", "2001::1">>, <<"next-hop", "e0">>,
        <<"next-hop", "5">>, <<"next-hop", "9x">>, <<"next-hop", "fe80::1">>, <<"discard">>, <<"reject">>, <<"preference", "5">>, <<"preference", "300">>,
        <<"tag", "5">>})
    \cup Each(Static("2001::/32"), {<<"next-hop", "2001::1">>, <<"next-hop", "2001:0::1">>, <<"preference", "5">>})
    \cup Each(Static("x"), {<<"discard">>})
    \cup Each(<<<<"routing-options">>, <<"static">>>>, {<<"route", "10.0.0.0/8", "next-hop", "10.0.0.1">>})
    \cup Each(<<<<"routing-options">>>>, OptionLeaves)

Group(g) == <<<<"protocols">>, <<"bgp">>, <<"group", g>>>>
BgpStatements ==
  Each(<<<<"routing-options">>>>, {<<"autonomous-system", "5">>})
    \cup Each(Group("g"),
              {<<"type", "internal">>, <<"type", "external">>, <<"type", "x">>, <<"peer-as", "5">>, <<"peer-as", "0">>,
               <<"local-address", "10.0.0.1">>, <<"shutdown">>, <<"neighbor", "10.0.0.9">>, <<"neighbor", "x">>})
    \cup Each(Group("g") \o <<<<"neighbor", "10.0.0.9">>>>,
              {<<"peer-as", "9">>, <<"description", "x">>, <<"local-address", "x">>, <<"shutdown">>})
    \cup Each(Group("h") \o <<<<"neighbor", "10.0.0.9">>>>, {<<"peer-as", "5">>, <<"hold-time", "9">>})
    \cup Each(<<<<"protocols">>, <<"bgp">>>>, {<<"local-as", "5">>})

\* What a neighbour must have to be kept, if it is named: three statements are about it.
MakesNeighbor(leaf) == leaf \in {<<"neighbor", "10.0.0.9">>, <<"peer-as", "5">>, <<"peer-as", "9">>}

\* Blocks that open in the wrong place, or with more words than a name.
UnusualStatements ==
  UNION {Each(path, {<<"description", "x">>, <<"vlan-id", "10">>, <<"interface", "e1">>, <<"neighbor", "10.0.0.9">>}) :
           path \in {<<<<"interfaces">>, <<"ge", "0">>>>, <<<<"interfaces">>, <<"ge", "0">>, <<"unit", "0", "x">>>>,
                     E0 \o <<<<"inet">>>>, E0 \o <<<<"family">>>>, Unit \o <<<<"family", "inet">>, <<"address", "10.0.0.1/8">>>>,
                     <<<<"vlans">>, <<"v", "10">>>>, <<<<"vlans">>, <<"v10">>, <<"x">>>>,
                     <<<<"protocols">>, <<"bgp", "x">>, <<"group", "g">>>>, <<<<"group", "g">>, <<"bgp">>>>,
                     Group("g") \o <<<<"group", "h">>>>, <<<<"protocols">>, <<"group", "g">>>>,
                     <<<<"protocols">>, <<"bgp">>, <<"ospf">>, <<"area", "0">>>>,
                     <<<<"protocols">>, <<"ospf">>, <<"bgp">>, <<"area", "0">>>>}}

OspfArea(a) == <<<<"protocols">>, <<"ospf">>, <<"area", a>>>>
OspfStatements ==
  Each(<<<<"routing-options">>>>, {<<"router-id", "10.0.0.1">>})
    \cup Each(OspfArea("0"), {<<"interface", "e0">>, <<"interface", "e1">>, <<"stub">>})
    \cup Each(OspfArea("0") \o <<<<"interface", "e0">>>>,
              {<<"passive">>, <<"metric", "5">>, <<"metric", "70000">>, <<"hello", "x">>})
    \cup Each(OspfArea("1") \o <<<<"interface", "e0">>>>, {<<"passive">>, <<"metric", "10">>})
    \cup Each(OspfArea("0.0.0.1") \o <<<<"interface", "e0">>>>, {<<"passive">>})
    \cup Each(OspfArea("x") \o <<<<"interface", "e1">>>>, {<<"passive">>})
    \cup Each(<<<<"protocols">>>>, {<<"mpls", "x">>})

Seqs(pool, length) == UNION {[1 .. k -> pool] : k \in 1 .. length}

\* One line for a statement, or blocks around it that stay open as long as they can.
SetLine(s) == [form |-> "set", words |-> <<"set">> \o FlattenSeq(s.path) \o s.leaf]
SetText(statements) == [k \in DOMAIN statements |-> SetLine(statements[k])]

Brace == [form |-> "close", words |-> <<>>]
Opening(path) == [k \in DOMAIN path |-> [form |-> "open", words |-> path[k]]]
Closing(count) == [k \in 1 .. count |-> Brace]
Shared(p, q) == Len(LongestCommonPrefix({p, q}))
Turn(p, q) == Closing(Len(p) - Shared(p, q)) \o Opening(SubSeq(q, Shared(p, q) + 1, Len(q)))
PathAt(statements, k) == IF k \in DOMAIN statements THEN statements[k].path ELSE <<>>
BlockText(statements) ==
  FlattenSeq([k \in 1 .. Len(statements) + 1 |->
    Turn(PathAt(statements, k - 1), PathAt(statements, k))
      \o IF k > Len(statements) THEN <<>> ELSE <<[form |-> "leaf", words |-> statements[k].leaf]>>])

\* A block that is not understood, or that has no name, around a statement, comments, and
\* braces that close nothing.
Inside(block, statements) == [k \in DOMAIN statements |-> [statements[k] EXCEPT !.path = <<block>> \o @]]
Untidy(statements) ==
  <<Brace, [form |-> "comment", words |-> <<>>]>> \o BlockText(<<statements[1]>>) \o <<Brace>>
    \o SetText(Tail(statements))

JunosStatements ==
  Seqs(SystemStatements, 2) \cup Seqs(InterfaceStatements, 2) \cup Seqs(FirewallStatements, 2)
    \cup Seqs(RouteStatements, 2) \cup Seqs(OspfStatements, 2) \cup Seqs(BgpStatements, 2)
    \cup {s \in [1 .. 3 -> BgpStatements] : \E k \in 1 .. 3 : MakesNeighbor(s[k].leaf)}
JunosTexts ==
  {<<SetText(s), BlockText(s)>> : s \in JunosStatements}
    \cup {<<SetText(s), Untidy(s)>> :
            s \in Seqs(SystemStatements, 2) \cup Seqs(InterfaceStatements, 2) \cup Seqs(OspfStatements, 2)}
    \cup {<<BlockText(Inside(b, s))>> :
            s \in Seqs(InterfaceStatements \cup FirewallStatements \cup BgpStatements \cup OspfStatements, 1),
            b \in {<<"groups">>, <<"bgp">>, <<"ospf">>, <<"protocols">>, <<"community", "c">>}}
    \cup {<<BlockText(s)>> : s \in Seqs(UnusualStatements, 2)}
    \cup {<<SetText(s), BlockText(Inside(<<>>, s))>> : s \in Seqs(SystemStatements, 1)}

JunosAnswer(texts) == [k \in DOMAIN texts |-> Junos!Parse(texts[k])]

=============================================================================
