------------------------------ MODULE Policies ------------------------------
(***************************************************************************)
(* The policy catalog (policies/catalog.py), its evaluation on one parsed   *)
(* configuration (detection/policy_engine.py) and the comparison of the     *)
(* findings of two configurations (verification/policy_changes.py).        *)
(*                                                                         *)
(* A statement is known by where it stands: an anchor <<section, position>> *)
(* is the lines of one object, rule or address.  A finding keeps the rule,  *)
(* what was observed and its anchors; its identity is the rule and the      *)
(* anchors.  Addresses are names, and a VLAN is an id.                      *)
(***************************************************************************)
EXTENDS Naturals, Sequences, FiniteSets, SequencesExt

CONSTANTS
  None,     \* absent, as None of Python
  Every     \* allowed_vlans.all_vlans

NonUnicast == {"multicast", "unspecified"}
Current == "policy-rules-0.7.0"
Legacy == "policy-rules-0.6.0"

EachOf(Op(_), s) == FlattenSeq([i \in DOMAIN s |-> Op(i)])

Finding(rule, observed, anchors) == << <<rule, anchors, observed>> >>
When(condition, finding) == IF condition THEN finding ELSE <<>>

-----------------------------------------------------------------------------
(* Each rule gives its matches in the order of the configuration: `bad` is  *)
(* the set of values that it objects to.                                    *)

ManagementMatches(c) ==
  When(~c.ssh, Finding("management.ssh_disabled", FALSE, {}))
    \o When(c.device.host = None, Finding("management.hostname_missing", None, {}))
    \o When("v2c" \in ToSet(c.snmp), Finding("management.snmp_legacy_enabled", c.snmp, {<<"snmp">>}))
    \o When(c.snmp = <<>>, Finding("management.snmp_not_configured", c.snmp, {}))

AclMatches(c, rule, bad) ==
  EachOf(LAMBDA i :
         EachOf(LAMBDA j : When(c.acls[i].rules[j] \in bad,
                              Finding(rule, <<c.acls[i].name, c.acls[i].rules[j]>>, {<<"rule", i, j>>})),
              c.acls[i].rules),
       c.acls)

Empty(c) ==
  EachOf(LAMBDA i : When(c.acls[i].rules = <<>>, Finding("acl.empty", c.acls[i].name, {<<"acl", i>>})),
       c.acls)
AclRules(c) == UNION {ToSet(a.rules) : a \in ToSet(c.acls)}
Unrestricted(r) == r.action = "permit" /\ r.from = "any" /\ r.to = "any" /\ r.ports = {}
TelnetPermitted(r) == r.action = "permit" /\ "telnet" \in r.ports
ManagementFromAny(r) == r.action = "permit" /\ r.from = "any" /\ r.ports \cap {"ssh", "snmp"} # {}

\* Where each host address is declared.
Declared(c, host) ==
  {p \in UNION {{i} \X DOMAIN c.interfaces[i].addresses : i \in DOMAIN c.interfaces} :
     c.interfaces[p[1]].addresses[p[2]][1] = host}
Declarations(c, host) == {<<"address", p[1], p[2]>> : p \in Declared(c, host)}

BgpMatches(c) ==
  IF c.bgp = None THEN <<>>
  ELSE When(c.bgp.router = None, Finding("bgp.router_id_missing", c.bgp.as, {<<"bgp">>}))
         \o EachOf(LAMBDA i : When(Declared(c, c.bgp.neighbors[i].address) # {},
                                 Finding("bgp.neighbor_is_local_address", c.bgp.neighbors[i].address,
                                         Declarations(c, c.bgp.neighbors[i].address)
                                           \cup {<<"neighbor", i>>})),
                 c.bgp.neighbors)
OspfMatches(c) ==
  EachOf(LAMBDA i : When(c.ospf[i].router = None,
                       Finding("ospf.router_id_missing", c.ospf[i].id, {<<"ospf", i>>})), c.ospf)
DefaultDiscarded(c) ==
  EachOf(LAMBDA i : When(c.routes[i].discard /\ c.routes[i].to = "default",
                       Finding("routing.default_route_discarded", c.routes[i], {<<"route", i>>})),
       c.routes)
\* The anchors of each next hop that is objected to.
NextHops(c, rule, anchors) ==
  EachOf(LAMBDA i : When(/\ ~c.routes[i].discard /\ c.routes[i].via \in DOMAIN anchors,
                       Finding(rule, <<c.routes[i].to, c.routes[i].via>>,
                               {<<"route", i>>} \cup anchors[c.routes[i].via])),
       c.routes)

Configured(c) == {i.port : i \in ToSet(c.interfaces)} \ {None}
Ports(c, rule, bad) ==
  EachOf(LAMBDA i : When(c.interfaces[i].port \in bad,
                       Finding(rule, <<c.interfaces[i].name, c.interfaces[i].port>>, {<<"port", i>>})),
       c.interfaces)
AccessMissing(p) == p.mode = "access" /\ p.access = None /\ p.native = None /\ p.allowed = None
TrunkUnrestricted(p) == p.mode = "trunk" /\ p.access = None /\ p.allowed \in {None, Every}
ModeConflict(p) ==
  \/ p.mode = "access" /\ (p.native # None \/ p.allowed # None)
  \/ p.mode = "trunk" /\ p.access # None
Explicit(allowed) == IF allowed \in {None, Every} THEN {} ELSE allowed
Undefined(c, p) == (({p.access, p.native} \ {None}) \cup Explicit(p.allowed)) \ c.vlans
NativeExcluded(p) ==
  p.mode = "trunk" /\ p.native # None /\ p.allowed \notin {None, Every} /\ p.native \notin p.allowed

\* One host address on two interfaces that are not explicitly disabled.
Used(c, host) == {p \in Declared(c, host) : c.interfaces[p[1]].up}
Hosts(c) == UNION {{a[1] : a \in ToSet(c.interfaces[i].addresses)} : i \in DOMAIN c.interfaces}
DuplicateAddresses(c) ==
  LET Match(host) == Finding("interface.duplicate_address",
                             <<host, {c.interfaces[p[1]].name : p \in Used(c, host)}>>,
                             {<<"address", p[1], p[2]>> : p \in Used(c, host)})
      shared == {h \in Hosts(c) : Cardinality({p[1] : p \in Used(c, h)}) > 1}
  IN  FlattenSeq(SetToSeq({Match(h) : h \in shared}))

Methods(c) == UNION {u.auth : u \in ToSet(c.users)}
Accounts(c, rule, weak) ==
  EachOf(LAMBDA i : When(c.users[i].auth \cap weak # {},
                       Finding(rule, <<c.users[i].name, c.users[i].auth \cap weak>>,
                               {<<"user", i>>})),
       c.users)
DuplicateUids(c) ==
  LET With(uid) == {i \in DOMAIN c.users : c.users[i].uid = uid}
      shared == {u \in {c.users[i].uid : i \in DOMAIN c.users} \ {None} :
                   Cardinality({c.users[i].name : i \in With(u)}) > 1}
      Match(uid) == Finding("account.duplicate_uid", <<uid, {c.users[i].name : i \in With(uid)}>>,
                            {<<"user", i>> : i \in With(uid)})
  IN  FlattenSeq(SetToSeq({Match(u) : u \in shared}))

-----------------------------------------------------------------------------
(* The catalogs: 0.7.0 adds accounts, next hops and layer-2 references.     *)

LegacyFindings(c) ==
  ManagementMatches(c) \o Empty(c)
    \o AclMatches(c, "acl.unrestricted_permit", {r \in AclRules(c) : Unrestricted(r)})
    \o AclMatches(c, "acl.telnet_permitted", {r \in AclRules(c) : TelnetPermitted(r)})
    \o AclMatches(c, "acl.management_access_from_any",
                  {r \in AclRules(c) : ManagementFromAny(r)})
    \o BgpMatches(c) \o OspfMatches(c) \o DefaultDiscarded(c)
    \o Ports(c, "interface.access_vlan_missing", {p \in Configured(c) : AccessMissing(p)})
    \o Ports(c, "interface.trunk_vlans_unrestricted", {p \in Configured(c) : TrunkUnrestricted(p)})
    \o Ports(c, "interface.switchport_mode_conflict", {p \in Configured(c) : ModeConflict(p)})

\* Credentials are described by Cisco only, numeric user ids by Juniper only.
AccountFindings(c) ==
  IF c.device.vendor = "juniper" THEN DuplicateUids(c)
  ELSE Accounts(c, "account.passwordless", {m \in Methods(c) : m[1] = "none"})
         \o Accounts(c, "account.cleartext_credential", {m \in Methods(c) : m[2] = "0"})
         \o Accounts(c, "account.reversible_password", {<<"password", "7">>})
         \o Accounts(c, "account.legacy_secret", {"secret"} \X {"4", "5"})

AddedFindings(c) ==
  AccountFindings(c)
    \o NextHops(c, "routing.static_next_hop_is_local",
                [h \in Hosts(c) |-> Declarations(c, h)])
    \o NextHops(c, "routing.static_next_hop_non_unicast", [h \in NonUnicast |-> {}])
    \o Ports(c, "interface.vlan_reference_undefined",
             {p \in Configured(c) : Undefined(c, p) # {}})
    \o When(c.device.vendor = "cisco", Ports(c, "interface.native_vlan_excluded",
                                              {p \in Configured(c) : NativeExcluded(p)}))
    \o DuplicateAddresses(c)

EvaluatePolicies(c, catalog) ==
  LegacyFindings(c) \o (IF catalog = Current THEN AddedFindings(c) ELSE <<>>)

-----------------------------------------------------------------------------
(* Changes between two lists of findings: what is said, not where.          *)

Semantic(f) == <<f[1], f[3]>>
FindingId(f) == <<f[1], f[2]>>
Like(findings, key) == SelectSeq(findings, LAMBDA f : Semantic(f) = key)
KeysOf(before, after) == {Semantic(f) : f \in ToSet(before \o after)}

\* Mutant: what is said twice is paired once.
PairedOnce(old, new) == IF old = <<>> \/ new = <<>> THEN 0 ELSE 1

Common(old, new) == IF Len(old) < Len(new) THEN Len(old) ELSE Len(new)

Changes(before, after) ==
  LET Persist(k) == Common(Like(before, k), Like(after, k))
      From(findings, k) == ToSet(SubSeq(Like(findings, k), Persist(k) + 1, Len(Like(findings, k))))
      keys == KeysOf(before, after)
  IN  [introduced |-> UNION {From(after, k) : k \in keys},
       resolved |-> UNION {From(before, k) : k \in keys},
       persistent |-> UNION {{<<Like(before, k)[i], Like(after, k)[i]>> : i \in 1 .. Persist(k)} :
                               k \in keys}]

=============================================================================
